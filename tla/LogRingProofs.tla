---------------------------- MODULE LogRingProofs ---------------------------
(***************************************************************************)
(* Proofs about the log: that a stream misses nothing, who can silence it, *)
(* and what the two files hold.  The three rest on invariants that do not  *)
(* mention each other's variables: the ring and the calls of Write in      *)
(* progress, the list of listeners with the indexes the closures remember, *)
(* and the files.                                                          *)
(***************************************************************************)
EXTENDS LogRing, SequenceTheorems, TLAPS

Task == [entry : Nat, at : {"file", "deliver"}, left : Seq(Stream)]

\* The listeners.

ListenerTypeOK ==
  /\ listeners \in Seq(Stream)
  /\ stage \in [Stream -> {"new", "subscribed", "streaming", "closed"}]
  /\ idx \in [Stream -> Nat]

\* Streams come in the order of their numbers, and what is listed at or after
\* the index a stream remembers is that stream or one that came later.
IndexInv ==
  /\ \A s, t \in Stream : stage[s] # "new" /\ t < s => stage[t] # "new"
  /\ \A s \in Stream : stage[s] # "new" => idx[s] >= 1
  /\ \A i \in 1..Len(listeners) : stage[listeners[i]] # "new"
  /\ \A s \in Stream, i \in 1..Len(listeners) :
       stage[s] # "new" /\ i >= idx[s] => listeners[i] >= s

Listed(s) == \E i \in 1..Len(listeners) : listeners[i] = s

SilenceInv ==
  \A s \in Stream :
    Serving(s) /\ ~Listed(s) => \E t \in Stream : t < s /\ stage[t] = "closed"

ListenerInv == ListenerTypeOK /\ IndexInv /\ SilenceInv

LEMMA ListedIsSet == listeners \in Seq(Stream) => \A s : s \in ToSet(listeners) <=> Listed(s)
BY DEF ToSet, Listed

LEMMA ListenersAre ==
  listeners \in Seq(Stream) => \A i \in 1..Len(listeners) : listeners[i] \in Stream
OBVIOUS

LEMMA ListenerInit == Init => ListenerInv
BY LogAssumption DEF Init, ListenerInv, ListenerTypeOK, IndexInv, SilenceInv, Serving

LEMMA SubscribeListeners ==
  ASSUME ListenerInv, NEW s \in Stream, Subscribe(s)
  PROVE  ListenerInv'
<1> USE DEF ListenerInv
<1>0. Stream \subseteq Nat
  BY LogAssumption DEF Stream
<1>1. /\ listeners' \in Seq(Stream) /\ Len(listeners') = Len(listeners) + 1
      /\ \A i \in 1..Len(listeners) : listeners'[i] = listeners[i]
      /\ listeners'[Len(listeners) + 1] = s /\ Len(listeners) \in Nat
  BY DEF ListenerTypeOK, Subscribe
<1>2. /\ stage' \in [Stream -> {"new", "subscribed", "streaming", "closed"}]
      /\ stage[s] = "new" /\ stage'[s] = "subscribed"
      /\ \A t \in Stream \ {s} : stage'[t] = stage[t] /\ idx'[t] = idx[t]
      /\ idx' \in [Stream -> Nat] /\ idx'[s] = Len(listeners) + 1
  BY <1>1 DEF ListenerTypeOK, Subscribe
<1>3. \A t \in Stream : t < s => stage[t] # "new"
  BY LogAssumption DEF Subscribe, Stream
<1>4. \A t \in Stream : stage[t] # "new" => t < s
  BY <1>0, <1>2 DEF IndexInv
<1>5. IndexInv'
  <2>1. \A r, t \in Stream : stage'[r] # "new" /\ t < r => stage'[t] # "new"
    BY <1>0, <1>2, <1>3 DEF IndexInv
  <2>2. \A r \in Stream : stage'[r] # "new" => idx'[r] >= 1
    BY <1>1, <1>2 DEF IndexInv
  <2>3. ASSUME NEW r \in Stream, NEW i \in 1..Len(listeners'), stage'[r] # "new", i >= idx'[r]
        PROVE  listeners'[i] >= r
    <3>1. CASE r = s
      BY <1>0, <1>1, <1>2, <2>3, <3>1
    <3>2. CASE r # s /\ i = Len(listeners) + 1
      BY <1>0, <1>1, <1>2, <1>4, <2>3, <3>2
    <3>3. CASE r # s /\ i \in 1..Len(listeners)
      BY <1>0, <1>1, <1>2, <2>3, <3>3 DEF IndexInv
    <3> QED  BY <1>1, <3>1, <3>2, <3>3
  <2>4. \A i \in 1..Len(listeners') : stage'[listeners'[i]] # "new"
    <3>1. \A i \in 1..Len(listeners) : stage'[listeners[i]] # "new"
      BY <1>2, ListenersAre DEF IndexInv, ListenerTypeOK
    <3> QED  BY <1>1, <1>2, <3>1
  <2> QED  BY <2>1, <2>2, <2>3, <2>4 DEF IndexInv
<1>6. SilenceInv'
  <2>1. Listed(s)' /\ \A t \in Stream : Listed(t) => Listed(t)'
    BY <1>1 DEF Listed
  <2> QED  BY <1>2, <2>1 DEF SilenceInv, Serving
<1> QED  BY <1>1, <1>2, <1>5, <1>6 DEF ListenerTypeOK

\* What removing one place of the list does.
LEMMA RemoveAtEffect ==
  ASSUME NEW S, NEW q \in Seq(S), NEW k \in 1..Len(q)
  PROVE  /\ RemoveAt(q, k) \in Seq(S) /\ Len(RemoveAt(q, k)) = Len(q) - 1
         /\ \A i \in 1..(Len(q) - 1) :
              RemoveAt(q, k)[i] = IF i < k THEN q[i] ELSE q[i + 1]
<1> DEFINE a == SubSeq(q, 1, k - 1)
           b == SubSeq(q, k + 1, Len(q))
<1>1. a \in Seq(S) /\ Len(a) = k - 1 /\ \A i \in 1..(k - 1) : a[i] = q[i]
  BY SubSeqProperties
<1>2. b \in Seq(S) /\ Len(b) = Len(q) - k /\ \A i \in 1..(Len(q) - k) : b[i] = q[k + i]
  BY SubSeqProperties
<1>3. RemoveAt(q, k) = a \o b
  BY DEF RemoveAt
<1> HIDE DEF a, b
<1>4. /\ a \o b \in Seq(S) /\ Len(a \o b) = Len(a) + Len(b)
      /\ \A i \in 1..(Len(a) + Len(b)) : (a \o b)[i] = IF i <= Len(a) THEN a[i] ELSE b[i - Len(a)]
  BY <1>1, <1>2, ConcatProperties
<1> QED  BY <1>1, <1>2, <1>3, <1>4

LEMMA UnsubscribeListeners ==
  ASSUME ListenerInv, NEW s \in Stream, Unsubscribe(s)
  PROVE  ListenerInv'
<1> USE DEF ListenerInv
<1>0. Stream \subseteq Nat
  BY LogAssumption DEF Stream
<1>1. /\ stage' \in [Stream -> {"new", "subscribed", "streaming", "closed"}]
      /\ stage[s] = "streaming" /\ stage'[s] = "closed"
      /\ \A t \in Stream \ {s} : stage'[t] = stage[t]
      /\ idx' = idx /\ idx[s] >= 1 /\ idx[s] \in Nat
  BY DEF ListenerTypeOK, IndexInv, Unsubscribe
<1>2. CASE idx[s] <= Len(listeners)
  <2> DEFINE k == idx[s]
  <2>0. k \in 1..Len(listeners) /\ Len(listeners) \in Nat
    BY <1>1, <1>2 DEF ListenerTypeOK
  <2>1. /\ listeners' \in Seq(Stream) /\ Len(listeners') = Len(listeners) - 1
        /\ \A i \in 1..(Len(listeners) - 1) :
             listeners'[i] = IF i < k THEN listeners[i] ELSE listeners[i + 1]
    BY <1>2, <2>0, RemoveAtEffect DEF ListenerTypeOK, Unsubscribe
  <2>2. listeners[k] >= s /\ listeners[k] \in Stream
    BY <1>1, <2>0 DEF IndexInv, ListenerTypeOK
  <2> HIDE DEF k
  <2>3. \A t \in Stream : Listed(t) /\ t # listeners[k] => Listed(t)'
    <3> SUFFICES ASSUME NEW t \in Stream, NEW i \in 1..Len(listeners), listeners[i] = t,
                        t # listeners[k]
                 PROVE  Listed(t)'
      BY DEF Listed
    <3>1. CASE i < k
      BY <2>0, <2>1, <3>1 DEF Listed
    <3>2. CASE i > k
      <4>1. i - 1 \in 1..Len(listeners') /\ listeners'[i - 1] = t
        BY <2>0, <2>1, <3>2
      <4> QED  BY <4>1 DEF Listed
    <3> QED  BY <2>0, <3>1, <3>2
  <2>4. IndexInv'
    <3>1. ASSUME NEW r \in Stream, NEW i \in 1..Len(listeners'), stage'[r] # "new", i >= idx[r]
          PROVE  listeners'[i] >= r
      <4>1. i \in 1..Len(listeners) /\ i + 1 \in 1..Len(listeners) /\ i + 1 >= idx[r] /\ stage[r] # "new"
        BY <1>1, <2>0, <2>1, <3>1, SMTT(30) DEF ListenerTypeOK
      <4>2. listeners[i] >= r /\ listeners[i + 1] >= r
        BY <3>1, <4>1 DEF IndexInv
      <4> QED  BY <2>0, <2>1, <4>1, <4>2
    <3>2. ASSUME NEW i \in 1..Len(listeners') PROVE stage'[listeners'[i]] # "new"
      <4>1. PICK j \in 1..Len(listeners) : listeners'[i] = listeners[j]
        BY <2>0, <2>1
      <4> QED  BY <1>1, <4>1 DEF IndexInv, ListenerTypeOK
    <3> QED  BY <1>1, <3>1, <3>2 DEF IndexInv
  <2>5. SilenceInv'
    <3> SUFFICES ASSUME NEW r \in Stream, Serving(r)', ~Listed(r)'
                 PROVE  \E t \in Stream : t < r /\ stage'[t] = "closed"
      BY DEF SilenceInv
    <3>1. r # s /\ Serving(r)
      BY <1>1 DEF Serving
    <3>2. CASE Listed(r)
      BY <1>0, <1>1, <2>2, <2>3, <3>1, <3>2
    <3>3. CASE ~Listed(r)
      BY <1>1, <3>1, <3>3 DEF SilenceInv
    <3> QED  BY <3>2, <3>3
  <2> QED  BY <1>1, <2>1, <2>4, <2>5 DEF ListenerTypeOK
<1>3. CASE ~(idx[s] <= Len(listeners))
  <2>1. listeners' = listeners
    BY <1>3 DEF Unsubscribe
  <2>2. IndexInv'
    <3>1. \A i \in 1..Len(listeners) : stage'[listeners[i]] # "new"
      BY <1>1, ListenersAre DEF IndexInv, ListenerTypeOK
    <3> QED  BY <1>1, <2>1, <3>1 DEF IndexInv
  <2>3. SilenceInv'
    BY <1>1, <2>1 DEF SilenceInv, Serving, Listed
  <2> QED  BY <1>1, <2>1, <2>2, <2>3 DEF ListenerTypeOK
<1> QED  BY <1>2, <1>3

LEMMA OtherListeners ==
  ASSUME ListenerInv,
         \/ UNCHANGED <<listeners, stage, idx>>
         \/ \E s \in Stream : SendRecent(s)
  PROVE  ListenerInv'
<1>1. CASE UNCHANGED <<listeners, stage, idx>>
  BY <1>1 DEF ListenerInv, ListenerTypeOK, IndexInv, SilenceInv, Serving, Listed
<1>2. ASSUME NEW s \in Stream, SendRecent(s) PROVE ListenerInv'
  <2>1. /\ UNCHANGED <<listeners, idx>> /\ stage[s] = "subscribed" /\ stage'[s] = "streaming"
        /\ \A t \in Stream \ {s} : stage'[t] = stage[t]
        /\ stage' \in [Stream -> {"new", "subscribed", "streaming", "closed"}]
    BY <1>2 DEF SendRecent, ringVars, ListenerInv, ListenerTypeOK
  <2>2. \A i \in 1..Len(listeners) : stage'[listeners[i]] # "new"
    BY <2>1, ListenersAre DEF ListenerInv, IndexInv, ListenerTypeOK
  <2> QED  BY <2>1, <2>2 DEF ListenerInv, ListenerTypeOK, IndexInv, SilenceInv, Serving, Listed
<1> QED  BY <1>1, <1>2

------------------------------------------------------------------------------
\* ListenerInv holds in every state of the log.
THEOREM ListenerInvariant == Spec => []ListenerInv
<1>1. ListenerInv /\ [Next]_vars => ListenerInv'
  <2> SUFFICES ASSUME ListenerInv, [Next]_vars PROVE ListenerInv'
    OBVIOUS
  <2>1. CASE UNCHANGED vars
    BY <2>1, OtherListeners DEF vars, ringVars, streamVars
  <2>2. CASE Record
    BY <2>2, OtherListeners DEF Record, streamVars
  <2>3. CASE \E t \in tasks : Work(t)
    BY <2>3, OtherListeners DEF Work, LogLine, Deliver, ringVars, streamVars
  <2>4. ASSUME NEW s \in Stream, Subscribe(s) \/ Send(s) \/ Unsubscribe(s) PROVE ListenerInv'
    BY <2>4, SubscribeListeners, UnsubscribeListeners, OtherListeners DEF Send, SendNext, ringVars
  <2> QED  BY <2>1, <2>2, <2>3, <2>4 DEF Next
<1> QED  BY ListenerInit, <1>1, PTL DEF Spec

\* The stale index of an unsubscribe closure (LogRing.Subscribe) never removes
\* the channel of a stream that came before: a stream that is still served and
\* no longer listed was preceded by one that has left.
THEOREM OnlySeniorsEverSilence == Spec => []OnlySeniorsSilence
<1>1. ASSUME ListenerInv PROVE OnlySeniorsSilence
  <2> SUFFICES ASSUME NEW s \in Stream, Serving(s), s \notin ToSet(listeners)
               PROVE  \E t \in 1..(s - 1) : stage[t] = "closed"
    BY DEF OnlySeniorsSilence
  <2>1. PICK t \in Stream : t < s /\ stage[t] = "closed"
    BY <1>1, ListedIsSet DEF ListenerInv, ListenerTypeOK, SilenceInv
  <2>2. t \in 1..(s - 1)
    BY <2>1, LogAssumption DEF Stream
  <2> QED  BY <2>1, <2>2
<1> QED  BY ListenerInvariant, <1>1, PTL

------------------------------------------------------------------------------
(* What a stream shows.                                                    *)

StreamTypeOK ==
  /\ count \in Nat /\ entries \in Seq(Nat) /\ tasks \subseteq Task
  /\ chan \in [Stream -> Seq(Nat)] /\ shown \in [Stream -> SUBSET Nat]
  /\ since \in [Stream -> Nat]

\* The ring holds the last entries.
RingInv ==
  /\ Len(entries) <= count
  /\ \A i \in 1..Len(entries) : entries[i] = count - Len(entries) + i

\* A call of Write has only listeners that subscribed before its entry, and so
\* has the channel of a stream only entries that are newer than its start.
TaskInv ==
  /\ \A t \in tasks : t.at = "deliver" => t.left # <<>>
  /\ \A t \in tasks : \A i \in 1..Len(t.left) :
       stage[t.left[i]] # "new" /\ t.entry > since[t.left[i]]
  /\ \A s \in Stream :
       /\ stage[s] = "new" => chan[s] = <<>>
       /\ stage[s] \in {"new", "subscribed"} => shown[s] = {}
       /\ since[s] <= count
       /\ \A i \in 1..Len(chan[s]) : chan[s][i] > since[s]

Queued(s, e) == \E i \in 1..Len(chan[s]) : chan[s][i] = e
Coming(s, e) == \E t \in tasks : t.entry = e /\ \E i \in 1..Len(t.left) : t.left[i] = s

\* Entries since the subscription are shown, queued or coming; of those from
\* before, the ones shown are the latest.
GapAt(s) ==
  Serving(s) /\ Listed(s) /\ s \notin lossy =>
    /\ \A e \in (since[s] + 1)..count : e \in shown[s] \/ Queued(s, e) \/ Coming(s, e)
    /\ \A f \in shown[s], e \in 1..since[s] : f < e => e \in shown[s]

StreamInv == StreamTypeOK /\ RingInv /\ TaskInv /\ \A s \in Stream : GapAt(s)

LEMMA NumbersAre ==
  ASSUME NEW m \in Nat, NEW n \in Nat, m <= n + 1
  PROVE  /\ Numbers(m, n) \in Seq(Nat) /\ Len(Numbers(m, n)) = n - m + 1
         /\ \A i \in 1..(n - m + 1) : Numbers(m, n)[i] = m + i - 1
<1>1. n - m + 1 \in Nat /\ \A i \in 1..(n - m + 1) : m + i - 1 \in Nat
  OBVIOUS
<1>2. Numbers(m, n) \in [1..(n - m + 1) -> Nat]
  BY <1>1 DEF Numbers
<1>3. Numbers(m, n) \in Seq(Nat)
  BY <1>1, <1>2, IsASeq
<1>4. Len(Numbers(m, n)) = n - m + 1
  BY <1>1, <1>2, <1>3, LenProperties
<1> QED  BY <1>3, <1>4 DEF Numbers

LEMMA StreamInit == Init => StreamInv
<1> SUFFICES ASSUME Init PROVE StreamInv
  OBVIOUS
<1>0. Past \in Nat /\ MaxSize \in Nat /\ MaxSize >= 1
  BY LogAssumption
<1> DEFINE m == IF Past > MaxSize THEN Past - MaxSize + 1 ELSE 1
<1>1. m \in Nat /\ m <= Past + 1 /\ m >= 1
  BY <1>0
<1>2. entries = Numbers(m, Past) /\ count = Past
  BY DEF Init
<1> HIDE DEF m
<1>3. /\ entries \in Seq(Nat) /\ Len(entries) = Past - m + 1
      /\ \A i \in 1..(Past - m + 1) : entries[i] = m + i - 1
  BY <1>0, <1>1, <1>2, NumbersAre
<1>4. StreamTypeOK
  BY <1>0, <1>2, <1>3 DEF Init, StreamTypeOK
<1>5. RingInv
  BY <1>0, <1>1, <1>2, <1>3 DEF RingInv
<1>6. TaskInv
  BY <1>0, <1>2 DEF Init, TaskInv
<1>7. \A s \in Stream : GapAt(s)
  BY DEF Init, GapAt, Serving
<1> QED  BY <1>4, <1>5, <1>6, <1>7 DEF StreamInv

LEMMA RecordStreams ==
  ASSUME ListenerInv, StreamInv, Record
  PROVE  StreamInv'
<1> USE DEF StreamInv
<1> DEFINE new == [entry |-> count + 1, at |-> "file", left |-> listeners]
           kept == IF Len(entries) >= MaxSize THEN Tail(entries) ELSE entries
<1>0. /\ MaxSize \in Nat /\ MaxSize >= 1 /\ count \in Nat /\ count' = count + 1
      /\ entries' = Append(kept, count + 1) /\ entries \in Seq(Nat)
      /\ tasks' = tasks \cup {new} /\ listeners \in Seq(Stream)
      /\ UNCHANGED <<listeners, streamVars>>
  BY LogAssumption DEF Record, StreamTypeOK, ListenerInv, ListenerTypeOK
<1>1. new \in Task /\ new.entry = count + 1 /\ new.left = listeners /\ new.at = "file"
  BY <1>0 DEF Task
<1> HIDE DEF new
<1>2. /\ kept \in Seq(Nat) /\ Len(kept) <= count
      /\ \A i \in 1..Len(kept) : kept[i] = count - Len(kept) + i
  <2>1. CASE Len(entries) >= MaxSize
    <3>1. Len(entries) \in Nat /\ entries # <<>> /\ kept = Tail(entries)
      BY <1>0, <2>1
    <3>2. /\ kept \in Seq(Nat) /\ Len(kept) = Len(entries) - 1
          /\ \A i \in 1..Len(kept) : kept[i] = entries[i + 1]
      BY <1>0, <3>1, HeadTailProperties
    <3>3. ASSUME NEW i \in 1..Len(kept) PROVE kept[i] = count - Len(kept) + i
      <4>1. i + 1 \in 1..Len(entries) /\ kept[i] = entries[i + 1] /\ i \in Nat
        BY <3>1, <3>2
      <4>2. entries[i + 1] = count - Len(entries) + (i + 1)
        BY <4>1 DEF RingInv
      <4> HIDE DEF kept
      <4> QED  BY <1>0, <3>1, <3>2, <4>1, <4>2
    <3> HIDE DEF kept
    <3> QED  BY <1>0, <3>1, <3>2, <3>3 DEF RingInv
  <2>2. CASE ~(Len(entries) >= MaxSize)
    BY <1>0, <2>2 DEF RingInv
  <2> QED  BY <2>1, <2>2
<1> HIDE DEF kept
<1>3. StreamTypeOK'
  BY <1>0, <1>1, <1>2 DEF StreamTypeOK, streamVars
<1>4. RingInv'
  <2>1. /\ Len(entries') = Len(kept) + 1 /\ entries'[Len(kept) + 1] = count + 1
        /\ \A i \in 1..Len(kept) : entries'[i] = kept[i]
    BY <1>0, <1>2
  <2>2. Len(kept) \in Nat
    BY <1>2
  <2>3. ASSUME NEW i \in 1..Len(entries') PROVE entries'[i] = count' - Len(entries') + i
    <3>1. CASE i = Len(kept) + 1
      BY <1>0, <2>1, <2>2, <3>1
    <3>2. CASE i \in 1..Len(kept)
      BY <1>0, <1>2, <2>1, <2>2, <3>2
    <3> QED  BY <2>1, <2>2, <3>1, <3>2
  <2> QED  BY <1>0, <1>2, <2>1, <2>2, <2>3 DEF RingInv
<1>5. TaskInv'
  <2>1. \A i \in 1..Len(listeners) :
          listeners[i] \in Stream /\ stage[listeners[i]] # "new" /\ count + 1 > since[listeners[i]]
    <3> SUFFICES ASSUME NEW i \in 1..Len(listeners)
                 PROVE  /\ listeners[i] \in Stream /\ stage[listeners[i]] # "new"
                        /\ count + 1 > since[listeners[i]]
      OBVIOUS
    <3>1. listeners[i] \in Stream
      BY <1>0
    <3>2. stage[listeners[i]] # "new"
      BY <3>1 DEF ListenerInv, IndexInv
    <3> QED  BY <1>0, <3>1, <3>2 DEF TaskInv, StreamTypeOK
  <2>2. \A t \in tasks' : t.at = "deliver" => t.left # <<>>
    BY <1>0, <1>1 DEF TaskInv
  <2>3. \A t \in tasks' : \A i \in 1..Len(t.left) :
          stage'[t.left[i]] # "new" /\ t.entry > since'[t.left[i]]
    BY <1>0, <1>1, <2>1 DEF TaskInv, streamVars
  <2> QED  BY <1>0, <2>2, <2>3 DEF TaskInv, StreamTypeOK, streamVars
<1>6. ASSUME NEW s \in Stream PROVE GapAt(s)'
  <2> SUFFICES ASSUME Serving(s), Listed(s), s \notin lossy PROVE GapAt(s)'
    BY <1>0 DEF GapAt, Serving, Listed, streamVars
  <2>1. \A e : e = count + 1 \/ Coming(s, e) => Coming(s, e)'
    <3>1. ASSUME NEW e, e = count + 1 PROVE Coming(s, e)'
      <4>1. new \in tasks' /\ new.entry = e /\ \E i \in 1..Len(new.left) : new.left[i] = s
        BY <1>0, <1>1, <3>1 DEF Listed
      <4> QED  BY <4>1 DEF Coming
    <3>2. \A e : Coming(s, e) => Coming(s, e)'
      BY <1>0 DEF Coming
    <3> QED  BY <3>1, <3>2
  <2>2. \A e : Queued(s, e)' <=> Queued(s, e)
    BY <1>0 DEF Queued, streamVars
  <2>3. since[s] \in Nat
    BY DEF StreamTypeOK
  <2>4. GapAt(s)
    OBVIOUS
  <2>5. \A e \in (since'[s] + 1)..count' : e \in shown'[s] \/ Queued(s, e)' \/ Coming(s, e)'
    <3> SUFFICES ASSUME NEW e \in (since[s] + 1)..(count + 1)
                 PROVE  e \in shown[s] \/ Queued(s, e)' \/ Coming(s, e)'
      BY <1>0 DEF streamVars
    <3>1. e = count + 1 \/ e \in (since[s] + 1)..count
      BY <1>0, <2>3
    <3> QED  BY <2>1, <2>2, <2>4, <3>1 DEF GapAt
  <2> QED  BY <1>0, <2>4, <2>5 DEF GapAt, streamVars
<1> QED  BY <1>3, <1>4, <1>5, <1>6

\* LogLine and Deliver: the task t goes on as u, or is over.
LEMMA ProceedEffect ==
  ASSUME StreamTypeOK, NEW t \in tasks, NEW u \in Task, Proceed(t, u)
  PROVE  /\ tasks' \subseteq Task
         /\ \A v \in tasks' : v \in tasks \/ (v = u /\ u.left # <<>>)
         /\ \A v \in tasks : v # t => v \in tasks'
         /\ u.left # <<>> => u \in tasks'
BY DEF Proceed, StreamTypeOK

LEMMA LogLineStreams ==
  ASSUME ListenerInv, StreamInv, NEW t \in tasks, LogLine(t)
  PROVE  StreamInv'
<1> USE DEF StreamInv
<1>1. PICK u \in Task : u.entry = t.entry /\ u.left = t.left /\ Proceed(t, u)
  <2>1. t \in Task
    BY DEF StreamTypeOK
  <2> DEFINE u == [t EXCEPT !.at = "deliver"]
  <2>2. u \in Task /\ u.entry = t.entry /\ u.left = t.left
    BY <2>1 DEF Task
  <2>3. Proceed(t, u)
    BY DEF LogLine
  <2> HIDE DEF u
  <2> QED  BY <2>2, <2>3
<1>2. UNCHANGED <<ringVars, streamVars>>
  BY DEF LogLine
<1>3. StreamTypeOK' /\ RingInv'
  BY <1>1, <1>2, ProceedEffect DEF StreamTypeOK, RingInv, ringVars, streamVars
<1>4. TaskInv'
  BY <1>1, <1>2, ProceedEffect DEF TaskInv, ringVars, streamVars
<1>5. ASSUME NEW s \in Stream PROVE GapAt(s)'
  <2>1. ASSUME NEW e, Coming(s, e) PROVE Coming(s, e)'
    <3>1. PICK v \in tasks : v.entry = e /\ \E i \in 1..Len(v.left) : v.left[i] = s
      BY <2>1 DEF Coming
    <3>2. CASE v # t
      BY <1>1, <3>1, <3>2, ProceedEffect DEF Coming
    <3>3. CASE v = t
      <4>1. u.left # <<>>
        BY <1>1, <3>1, <3>3
      <4> QED  BY <1>1, <3>1, <3>3, <4>1, ProceedEffect DEF Coming
    <3> QED  BY <3>2, <3>3
  <2>2. \A e : Queued(s, e)' <=> Queued(s, e)
    BY <1>2 DEF Queued, streamVars
  <2> QED  BY <1>2, <2>1, <2>2 DEF GapAt, Serving, Listed, ringVars, streamVars
<1> QED  BY <1>3, <1>4, <1>5

LEMMA DeliverStreams ==
  ASSUME ListenerInv, StreamInv, NEW t \in tasks, Deliver(t)
  PROVE  StreamInv'
<1> USE DEF StreamInv
<1>0. t \in Task /\ t.left \in Seq(Stream) /\ t.left # <<>> /\ t.entry \in Nat
  BY DEF StreamTypeOK, TaskInv, Deliver, Task
<1>1. PICK u \in Task : u.entry = t.entry /\ u.left = Tail(t.left) /\ Proceed(t, u)
  <2> DEFINE u == [t EXCEPT !.left = Tail(@)]
  <2>1. Tail(t.left) \in Seq(Stream)
    BY <1>0
  <2>2. u \in Task /\ u.entry = t.entry /\ u.left = Tail(t.left)
    BY <1>0, <2>1 DEF Task
  <2>3. Proceed(t, u)
    BY DEF Deliver
  <2> HIDE DEF u
  <2> QED  BY <2>2, <2>3
<1>2. PICK r \in Stream : r = Head(t.left) /\ r = t.left[1] /\ 1 \in 1..Len(t.left)
  BY <1>0
<1>3. /\ chan' = IF stage[r] # "closed" /\ Len(chan[r]) < Cap
                 THEN [chan EXCEPT ![r] = Append(@, t.entry)] ELSE chan
      /\ lossy' = IF Len(chan[r]) < Cap THEN lossy ELSE lossy \cup {r}
      /\ UNCHANGED <<ringVars, stage, idx, shown, since>>
  BY <1>2 DEF Deliver
<1>4. \A i \in 1..Len(u.left) : i + 1 \in 1..Len(t.left) /\ u.left[i] = t.left[i + 1]
  BY <1>0, <1>1
<1>5. stage[r] # "new" /\ t.entry > since[r]
  BY <1>2 DEF TaskInv
<1>6. /\ chan' \in [Stream -> Seq(Nat)]
      /\ \A s \in Stream \ {r} : chan'[s] = chan[s]
      /\ \A i \in 1..Len(chan[r]) : i \in 1..Len(chan'[r]) /\ chan'[r][i] = chan[r][i]
      /\ \A i \in 1..Len(chan'[r]) : chan'[r][i] = t.entry \/ (i \in 1..Len(chan[r]) /\ chan'[r][i] = chan[r][i])
      /\ stage[r] # "closed" /\ Len(chan[r]) < Cap =>
            \E i \in 1..Len(chan'[r]) : chan'[r][i] = t.entry
  <2>0. chan[r] \in Seq(Nat) /\ Len(chan[r]) \in Nat /\ chan \in [Stream -> Seq(Nat)]
    BY DEF StreamTypeOK
  <2>1. CASE stage[r] # "closed" /\ Len(chan[r]) < Cap
    <3>1. chan'[r] = Append(chan[r], t.entry) /\ chan' \in [Stream -> Seq(Nat)]
      BY <1>0, <1>3, <2>0, <2>1
    <3>2. /\ Len(chan'[r]) = Len(chan[r]) + 1 /\ chan'[r][Len(chan[r]) + 1] = t.entry
          /\ \A i \in 1..Len(chan[r]) : chan'[r][i] = chan[r][i]
      BY <1>0, <2>0, <3>1
    <3>3. \A s \in Stream \ {r} : chan'[s] = chan[s]
      BY <1>3, <2>0, <2>1
    <3> QED  BY <2>0, <3>1, <3>2, <3>3
  <2>2. CASE ~(stage[r] # "closed" /\ Len(chan[r]) < Cap)
    BY <1>3, <2>0, <2>2
  <2> QED  BY <2>1, <2>2
<1>7. StreamTypeOK' /\ RingInv'
  BY <1>1, <1>3, <1>6, ProceedEffect DEF StreamTypeOK, RingInv, ringVars
<1>8. TaskInv'
  <2>1. \A v \in tasks' : v.at = "deliver" => v.left # <<>>
    BY <1>1, ProceedEffect DEF TaskInv
  <2>2. \A v \in tasks' : \A i \in 1..Len(v.left) :
          stage'[v.left[i]] # "new" /\ v.entry > since'[v.left[i]]
    <3> SUFFICES ASSUME NEW v \in tasks', NEW i \in 1..Len(v.left)
                 PROVE  stage[v.left[i]] # "new" /\ v.entry > since[v.left[i]]
      BY <1>3
    <3>1. CASE v \in tasks
      BY <3>1 DEF TaskInv
    <3>2. CASE v = u
      <4>1. i + 1 \in 1..Len(t.left) /\ v.left[i] = t.left[i + 1] /\ v.entry = t.entry
        BY <1>1, <1>4, <3>2
      <4> QED  BY <4>1 DEF TaskInv
    <3> QED  BY <1>1, <3>1, <3>2, ProceedEffect
  <2>3. ASSUME NEW s \in Stream
        PROVE  /\ stage'[s] = "new" => chan'[s] = <<>>
               /\ stage'[s] \in {"new", "subscribed"} => shown'[s] = {}
               /\ since'[s] <= count'
               /\ \A i \in 1..Len(chan'[s]) : chan'[s][i] > since'[s]
    BY <1>3, <1>5, <1>6 DEF TaskInv, ringVars
  <2> QED  BY <2>1, <2>2, <2>3 DEF TaskInv
<1>9. ASSUME NEW s \in Stream PROVE GapAt(s)'
  <2> SUFFICES ASSUME Serving(s), Listed(s), s \notin lossy' PROVE GapAt(s)'
    BY <1>3 DEF GapAt, Serving, Listed, ringVars
  <2>0. s \notin lossy /\ (s = r => Len(chan[r]) < Cap) /\ stage[s] # "closed"
    BY <1>3 DEF Serving
  <2>1. \A e : Queued(s, e) => Queued(s, e)'
    BY <1>6 DEF Queued
  <2>2. ASSUME NEW e, Coming(s, e) PROVE Coming(s, e)' \/ Queued(s, e)'
    <3>1. PICK v \in tasks : v.entry = e /\ \E i \in 1..Len(v.left) : v.left[i] = s
      BY <2>2 DEF Coming
    <3>2. CASE v # t
      BY <1>1, <3>1, <3>2, ProceedEffect DEF Coming
    <3>3. CASE v = t
      <4>1. PICK i \in 1..Len(t.left) : t.left[i] = s
        BY <3>1, <3>3
      <4>2. CASE i = 1
        BY <1>2, <1>6, <2>0, <3>1, <3>3, <4>1, <4>2 DEF Queued
      <4>3. CASE i # 1
        <5>1. i - 1 \in 1..Len(u.left) /\ u.left[i - 1] = s /\ u.left # <<>>
          <6>1. Len(u.left) = Len(t.left) - 1 /\ Len(t.left) \in Nat
            BY <1>0, <1>1, HeadTailProperties
          <6>2. i - 1 \in 1..Len(u.left)
            BY <4>3, <6>1
          <6> QED  BY <1>4, <4>1, <6>1, <6>2
        <5>2. u \in tasks' /\ u.entry = e
          BY <1>1, <3>1, <3>3, <5>1, ProceedEffect
        <5> QED  BY <5>1, <5>2 DEF Coming
      <4> QED  BY <4>2, <4>3
    <3> QED  BY <3>2, <3>3
  <2> QED  BY <1>3, <2>0, <2>1, <2>2 DEF GapAt, ringVars
<1> QED  BY <1>7, <1>8, <1>9

LEMMA SubscribeStreams ==
  ASSUME ListenerInv, StreamInv, NEW s \in Stream, Subscribe(s)
  PROVE  StreamInv'
<1> USE DEF StreamInv
<1>1. /\ stage[s] = "new" /\ stage'[s] = "subscribed" /\ since' \in [Stream -> Nat] /\ since'[s] = count
      /\ \A r \in Stream \ {s} : stage'[r] = stage[r] /\ since'[r] = since[r]
      /\ listeners' = Append(listeners, s)
      /\ UNCHANGED <<entries, count, tasks, chan, shown, lossy>>
  BY DEF Subscribe, StreamTypeOK, ListenerInv, ListenerTypeOK
<1>2. StreamTypeOK' /\ RingInv'
  BY <1>1 DEF StreamTypeOK, RingInv
<1>3. TaskInv'
  <2>1. ASSUME NEW t \in tasks, NEW i \in 1..Len(t.left)
        PROVE  stage'[t.left[i]] # "new" /\ t.entry > since'[t.left[i]]
    <3>1. t.left[i] \in Stream /\ t.left[i] # s
      <4>1. t.left \in Seq(Stream)
        BY DEF StreamTypeOK, Task
      <4> QED  BY <1>1, <4>1 DEF TaskInv
    <3> QED  BY <1>1, <3>1 DEF TaskInv
  <2>2. ASSUME NEW r \in Stream
        PROVE  /\ stage'[r] = "new" => chan[r] = <<>>
               /\ stage'[r] \in {"new", "subscribed"} => shown[r] = {}
               /\ since'[r] <= count
               /\ \A i \in 1..Len(chan[r]) : chan[r][i] > since'[r]
    <3>1. CASE r = s
      BY <1>1, <3>1 DEF TaskInv, StreamTypeOK
    <3>2. CASE r # s
      BY <1>1, <3>2 DEF TaskInv
    <3> QED  BY <3>1, <3>2
  <2> QED  BY <1>1, <2>1, <2>2 DEF TaskInv
<1>4. GapAt(s)'
  <2>1. since'[s] = count' /\ shown'[s] = {} /\ count' \in Nat
    BY <1>1 DEF TaskInv, StreamTypeOK
  <2> QED  BY <2>1 DEF GapAt
<1>5. ASSUME NEW r \in Stream \ {s} PROVE GapAt(r)'
  <2>1. Listed(r)' => Listed(r)
    BY <1>1 DEF Listed, ListenerInv, ListenerTypeOK
  <2>2. \A e : (Queued(r, e)' <=> Queued(r, e)) /\ (Coming(r, e)' <=> Coming(r, e))
    BY <1>1 DEF Queued, Coming
  <2> QED  BY <1>1, <2>1, <2>2 DEF GapAt, Serving
<1> QED  BY <1>2, <1>3, <1>4, <1>5

\* The recent entries are the last ones of the ring, up to the newest.
LEMMA RecentIs ==
  ASSUME StreamTypeOK, RingInv
  PROVE  /\ ToSet(Recent(Window)) \subseteq Nat
         /\ \A f \in ToSet(Recent(Window)), e \in 1..count : f < e => e \in ToSet(Recent(Window))
<1>0. Window \in Nat /\ Window >= 1 /\ entries \in Seq(Nat) /\ Len(entries) \in Nat /\ count \in Nat
  BY LogAssumption DEF StreamTypeOK
<1>1. PICK m \in Nat : m >= 1 /\ m <= Len(entries) + 1 /\ Recent(Window) = SubSeq(entries, m, Len(entries))
  <2> DEFINE m == IF Window < Len(entries) THEN Len(entries) - Window + 1 ELSE 1
  <2>1. m \in Nat /\ m >= 1 /\ m <= Len(entries) + 1
    BY <1>0
  <2>2. Recent(Window) = SubSeq(entries, m, Len(entries))
    BY DEF Recent
  <2> HIDE DEF m
  <2> QED  BY <2>1, <2>2
<1> DEFINE r == Recent(Window)
<1>2. /\ r \in Seq(Nat) /\ Len(r) = Len(entries) - m + 1
      /\ \A i \in 1..(Len(entries) - m + 1) : r[i] = entries[m + i - 1]
  BY <1>0, <1>1, SubSeqProperties, SMTT(30)
<1> HIDE DEF r
<1>3. \A i \in 1..Len(r) : r[i] = count - Len(r) + i
  <2> SUFFICES ASSUME NEW i \in 1..Len(r) PROVE r[i] = count - Len(r) + i
    OBVIOUS
  <2>1. m + i - 1 \in 1..Len(entries) /\ r[i] = entries[m + i - 1]
    BY <1>0, <1>1, <1>2
  <2>2. entries[m + i - 1] = count - Len(entries) + (m + i - 1)
    BY <2>1 DEF RingInv
  <2> QED  BY <1>0, <1>1, <1>2, <2>1, <2>2
<1>4. \A x : x \in ToSet(r) <=> \E i \in 1..Len(r) : r[i] = x
  BY <1>2 DEF ToSet
<1>5. ASSUME NEW f \in ToSet(r), NEW e \in 1..count, f < e PROVE e \in ToSet(r)
  <2>1. PICK i \in 1..Len(r) : r[i] = f
    BY <1>4
  <2>2. Len(r) \in Nat /\ e - count + Len(r) \in 1..Len(r)
    <3>1. Len(r) \in Nat /\ f = count - Len(r) + i
      BY <1>2, <1>3, <2>1
    <3> QED  BY <1>0, <1>5, <3>1
  <2>3. r[e - count + Len(r)] = e
    BY <1>0, <1>3, <2>2
  <2> QED  BY <1>4, <2>2, <2>3
<1>6. ToSet(r) \subseteq Nat
  BY <1>2, <1>4
<1> QED  BY <1>5, <1>6 DEF r

LEMMA SendRecentStreams ==
  ASSUME ListenerInv, StreamInv, NEW s \in Stream, SendRecent(s)
  PROVE  StreamInv'
<1> USE DEF StreamInv
<1> DEFINE R == ToSet(Recent(Window))
<1>1. /\ stage[s] = "subscribed" /\ stage'[s] = "streaming"
      /\ \A r \in Stream \ {s} : stage'[r] = stage[r] /\ shown'[r] = shown[r]
      /\ shown'[s] = R
      /\ UNCHANGED <<ringVars, tasks, chan, since, lossy>>
  BY DEF SendRecent, StreamTypeOK, ListenerInv, ListenerTypeOK
<1>2. R \subseteq Nat /\ \A f \in R, e \in 1..count : f < e => e \in R
  BY RecentIs
<1>3. shown' = [shown EXCEPT ![s] = R]
  BY DEF SendRecent
<1> HIDE DEF R
<1>4. StreamTypeOK' /\ RingInv'
  BY <1>1, <1>2, <1>3 DEF StreamTypeOK, RingInv, ringVars
<1>5. TaskInv'
  <2>1. ASSUME NEW t \in tasks, NEW i \in 1..Len(t.left)
        PROVE  stage'[t.left[i]] # "new"
    <3>1. t.left \in Seq(Stream)
      BY DEF StreamTypeOK, Task
    <3> QED  BY <1>1, <3>1 DEF TaskInv
  <2>2. ASSUME NEW r \in Stream
        PROVE  /\ stage'[r] = "new" => chan[r] = <<>>
               /\ stage'[r] \in {"new", "subscribed"} => shown'[r] = {}
    BY <1>1 DEF TaskInv
  <2> QED  BY <1>1, <2>1, <2>2 DEF TaskInv, ringVars
<1>6. ASSUME NEW r \in Stream PROVE GapAt(r)'
  <2>1. /\ \A e : (Queued(r, e)' <=> Queued(r, e)) /\ (Coming(r, e)' <=> Coming(r, e))
        /\ Listed(r)' <=> Listed(r)
    BY <1>1 DEF Queued, Coming, Listed, ringVars
  <2>2. CASE r # s
    BY <1>1, <2>1, <2>2 DEF GapAt, Serving, ringVars
  <2>3. CASE r = s
    <3>1. shown[s] = {} /\ since[s] \in Nat /\ since[s] <= count /\ count \in Nat /\ Serving(s)
      BY <1>1 DEF TaskInv, StreamTypeOK, Serving
    <3>2. Listed(s) /\ s \notin lossy =>
            \A e \in (since[s] + 1)..count : Queued(s, e) \/ Coming(s, e)
      BY <3>1 DEF GapAt
    <3>3. \A f \in R, e \in 1..since[s] : f < e => e \in R
      BY <1>2, <3>1
    <3> QED  BY <1>1, <2>1, <2>3, <3>2, <3>3 DEF GapAt, ringVars
  <2> QED  BY <2>2, <2>3
<1> QED  BY <1>4, <1>5, <1>6

LEMMA SendNextStreams ==
  ASSUME ListenerInv, StreamInv, NEW s \in Stream, SendNext(s)
  PROVE  StreamInv'
<1> USE DEF StreamInv
<1>0. chan[s] \in Seq(Nat) /\ chan[s] # <<>> /\ stage[s] = "streaming"
  BY DEF SendNext, StreamTypeOK
<1>1. PICK h \in Nat : h = Head(chan[s]) /\ h = chan[s][1] /\ 1 \in 1..Len(chan[s])
  BY <1>0
<1>2. /\ chan' \in [Stream -> Seq(Nat)] /\ chan'[s] = Tail(chan[s])
      /\ shown' \in [Stream -> SUBSET Nat] /\ shown'[s] = shown[s] \cup {h}
      /\ \A r \in Stream \ {s} : chan'[r] = chan[r] /\ shown'[r] = shown[r]
      /\ UNCHANGED <<ringVars, tasks, stage, since, lossy>>
  BY <1>0, <1>1 DEF SendNext, StreamTypeOK
<1>3. /\ Len(chan'[s]) = Len(chan[s]) - 1 /\ Len(chan[s]) \in Nat
      /\ \A i \in 1..Len(chan'[s]) : i + 1 \in 1..Len(chan[s]) /\ chan'[s][i] = chan[s][i + 1]
  BY <1>0, <1>2, HeadTailProperties
<1>4. StreamTypeOK' /\ RingInv'
  BY <1>2 DEF StreamTypeOK, RingInv, ringVars
<1>5. TaskInv'
  <2>1. ASSUME NEW r \in Stream
        PROVE  /\ stage[r] = "new" => chan'[r] = <<>>
               /\ stage[r] \in {"new", "subscribed"} => shown'[r] = {}
               /\ \A i \in 1..Len(chan'[r]) : chan'[r][i] > since[r]
    <3>1. CASE r = s
      BY <1>0, <1>3, <3>1 DEF TaskInv
    <3>2. CASE r # s
      BY <1>2, <3>2 DEF TaskInv
    <3> QED  BY <3>1, <3>2
  <2> QED  BY <1>2, <2>1 DEF TaskInv, ringVars
<1>6. ASSUME NEW r \in Stream PROVE GapAt(r)'
  <2>1. \A e : (Coming(r, e)' <=> Coming(r, e)) /\ (Listed(r)' <=> Listed(r))
    BY <1>2 DEF Coming, Listed, ringVars
  <2>2. CASE r # s
    <3>1. \A e : Queued(r, e)' <=> Queued(r, e)
      BY <1>2, <2>2 DEF Queued
    <3> QED  BY <1>2, <2>1, <2>2, <3>1 DEF GapAt, Serving, ringVars
  <2>3. CASE r = s
    <3>1. ASSUME NEW e, Queued(s, e) PROVE e \in shown'[s] \/ Queued(s, e)'
      <4>1. PICK i \in 1..Len(chan[s]) : chan[s][i] = e
        BY <3>1 DEF Queued
      <4>2. CASE i = 1
        BY <1>1, <1>2, <4>1, <4>2
      <4>3. CASE i # 1
        <5>1. i - 1 \in 1..Len(chan'[s])
          BY <1>3, <4>3
        <5>2. chan'[s][i - 1] = e
          BY <1>3, <4>1, <5>1
        <5> QED  BY <5>1, <5>2 DEF Queued
      <4> QED  BY <4>2, <4>3
    <3>2. h > since[s] /\ since[s] \in Nat
      BY <1>1 DEF TaskInv, StreamTypeOK
    <3>3. \A e \in 1..since[s] : ~(h < e)
      BY <3>2
    <3>4. Serving(s)
      BY <1>0 DEF Serving
    <3> QED  BY <1>2, <2>1, <2>3, <3>1, <3>3, <3>4 DEF GapAt, ringVars
  <2> QED  BY <2>2, <2>3
<1> QED  BY <1>4, <1>5, <1>6

LEMMA UnsubscribeStreams ==
  ASSUME ListenerInv, StreamInv, NEW s \in Stream, Unsubscribe(s)
  PROVE  StreamInv'
<1> USE DEF StreamInv
<1>1. /\ stage[s] = "streaming" /\ stage'[s] = "closed"
      /\ chan' \in [Stream -> Seq(Nat)] /\ chan'[s] = <<>>
      /\ \A r \in Stream \ {s} : stage'[r] = stage[r] /\ chan'[r] = chan[r]
      /\ UNCHANGED <<entries, count, tasks, shown, since, lossy>>
  BY DEF Unsubscribe, StreamTypeOK, ListenerInv, ListenerTypeOK
<1>2. StreamTypeOK' /\ RingInv'
  BY <1>1 DEF StreamTypeOK, RingInv
<1>3. TaskInv'
  <2>1. ASSUME NEW t \in tasks, NEW i \in 1..Len(t.left)
        PROVE  stage'[t.left[i]] # "new"
    <3>1. t.left \in Seq(Stream)
      BY DEF StreamTypeOK, Task
    <3>2. t.left[i] \in Stream /\ stage[t.left[i]] # "new"
      BY <3>1 DEF TaskInv
    <3> QED  BY <1>1, <3>2
  <2>2. ASSUME NEW r \in Stream
        PROVE  /\ stage'[r] = "new" => chan'[r] = <<>>
               /\ stage'[r] \in {"new", "subscribed"} => shown[r] = {}
               /\ \A i \in 1..Len(chan'[r]) : chan'[r][i] > since[r]
    <3>1. CASE r = s
      BY <1>1, <3>1
    <3>2. CASE r # s
      BY <1>1, <3>2 DEF TaskInv
    <3> QED  BY <3>1, <3>2
  <2> QED  BY <1>1, <2>1, <2>2 DEF TaskInv
<1>4. ASSUME NEW r \in Stream PROVE GapAt(r)'
  <2>1. CASE r = s
    BY <1>1, <2>1 DEF GapAt, Serving
  <2>2. CASE r # s
    <3>1. \A e : (Queued(r, e)' <=> Queued(r, e)) /\ (Coming(r, e)' <=> Coming(r, e))
      BY <1>1, <2>2 DEF Queued, Coming
    <3>2. Listed(r)' => Listed(r)
      <4>0. listeners \in Seq(Stream) /\ idx[s] \in Nat /\ idx[s] >= 1 /\ Len(listeners) \in Nat
        BY <1>1 DEF ListenerInv, ListenerTypeOK, IndexInv
      <4>1. CASE idx[s] <= Len(listeners)
        <5>1. /\ Len(listeners') = Len(listeners) - 1
              /\ \A i \in 1..(Len(listeners) - 1) :
                   listeners'[i] = IF i < idx[s] THEN listeners[i] ELSE listeners[i + 1]
          BY <4>0, <4>1, RemoveAtEffect DEF Unsubscribe
        <5> QED  BY <4>0, <5>1 DEF Listed
      <4>2. CASE ~(idx[s] <= Len(listeners))
        BY <4>2 DEF Unsubscribe, Listed
      <4> QED  BY <4>1, <4>2
    <3> QED  BY <1>1, <2>2, <3>1, <3>2 DEF GapAt, Serving
  <2> QED  BY <2>1, <2>2
<1> QED  BY <1>2, <1>3, <1>4

LEMMA StreamsUnchanged ==
  ASSUME StreamInv, UNCHANGED <<ringVars, tasks, streamVars>>
  PROVE  StreamInv'
<1>1. \A s \in Stream : GapAt(s)'
  BY DEF StreamInv, GapAt, Queued, Coming, Serving, Listed, ringVars, streamVars
<1>2. StreamTypeOK' /\ RingInv' /\ TaskInv'
  BY DEF StreamInv, StreamTypeOK, RingInv, TaskInv, ringVars, streamVars
<1> QED  BY <1>1, <1>2 DEF StreamInv

\* StreamInv holds in every state of the log.
THEOREM StreamInvariant == Spec => []StreamInv
<1>1. ListenerInv /\ StreamInv /\ [Next]_vars => StreamInv'
  <2> SUFFICES ASSUME ListenerInv, StreamInv, [Next]_vars PROVE StreamInv'
    OBVIOUS
  <2>1. CASE UNCHANGED vars
    BY <2>1, StreamsUnchanged DEF vars
  <2>2. CASE Next
    BY <2>2, RecordStreams, LogLineStreams, DeliverStreams, SubscribeStreams, SendRecentStreams,
       SendNextStreams, UnsubscribeStreams DEF Next, Work, Send
  <2> QED  BY <2>1, <2>2
<1> QED  BY ListenerInvariant, StreamInit, <1>1, PTL DEF Spec

\* handleLogs subscribes before it asks for the recent entries, and so misses
\* none: what a stream owes its client is shown, in its channel, or held by a
\* call of Write that has it on its list, for any number of writers and
\* streams and any sizes of the ring, the window and the channels.
THEOREM NeverAGap == Spec => []NoGap
<1>1. ASSUME ListenerInv, StreamInv PROVE NoGap
  <2> SUFFICES ASSUME NEW s \in Stream, Serving(s), s \in ToSet(listeners), s \notin lossy,
                      NEW e \in Owed(s)
               PROVE  e \in shown[s] \cup ToSet(chan[s]) \cup OnTheWay(s)
    BY DEF NoGap
  <2>0. /\ since[s] \in Nat /\ count \in Nat /\ chan[s] \in Seq(Nat)
        /\ \A t \in tasks : t.left \in Seq(Stream)
    BY <1>1 DEF StreamInv, StreamTypeOK, Task
  <2>1. Listed(s)
    BY <1>1, ListedIsSet DEF ListenerInv, ListenerTypeOK
  <2>2. e \in 1..count /\ (e > since[s] \/ \E f \in shown[s] : f < e)
    BY DEF Owed
  <2>3. e \in shown[s] \/ Queued(s, e) \/ Coming(s, e)
    <3>1. GapAt(s)
      BY <1>1 DEF StreamInv
    <3>2. e \in (since[s] + 1)..count \/ e \in 1..since[s]
      BY <2>0, <2>2
    <3> QED  BY <2>1, <2>2, <3>1, <3>2, <2>0 DEF GapAt
  <2>4. Queued(s, e) => e \in ToSet(chan[s])
    BY <2>0 DEF Queued, ToSet
  <2>5. Coming(s, e) => e \in OnTheWay(s)
    BY <2>0 DEF Coming, OnTheWay, ToSet
  <2> QED  BY <2>3, <2>4, <2>5
<1> QED  BY ListenerInvariant, StreamInvariant, <1>1, PTL

------------------------------------------------------------------------------
(* The files.                                                              *)

\* s is the end of t, place by place.
EndOf(s, t) ==
  Len(s) <= Len(t) /\ \A i \in 1..Len(s) : s[i] = t[Len(t) - Len(s) + i]

LEMMA EndOfIsSuffix ==
  ASSUME NEW S, NEW s \in Seq(S), NEW t \in Seq(S), EndOf(s, t)
  PROVE  IsSuffix(s, t)
<1> DEFINE a == Reverse(s)
           b == Reverse(t)
<1>0. Len(s) \in Nat /\ Len(t) \in Nat /\ Len(s) <= Len(t)
  BY DEF EndOf
<1>1. a \in Seq(S) /\ Len(a) = Len(s) /\ \A i \in 1..Len(s) : a[i] = s[(Len(s) - i) + 1]
  <2>1. \A i \in 1..Len(s) : s[(Len(s) - i) + 1] \in S
    BY <1>0
  <2>2. a \in [1..Len(s) -> S]
    BY <2>1 DEF Reverse
  <2> QED  BY <1>0, <2>2, IsASeq, LenProperties DEF Reverse
<1>2. b \in Seq(S) /\ Len(b) = Len(t) /\ \A i \in 1..Len(t) : b[i] = t[(Len(t) - i) + 1]
  <2>1. \A i \in 1..Len(t) : t[(Len(t) - i) + 1] \in S
    BY <1>0
  <2>2. b \in [1..Len(t) -> S]
    BY <2>1 DEF Reverse
  <2> QED  BY <1>0, <2>2, IsASeq, LenProperties DEF Reverse
<1> HIDE DEF a, b
<1>3. \A i \in 1..Len(s) : a[i] = b[i]
  <2> SUFFICES ASSUME NEW i \in 1..Len(s) PROVE a[i] = b[i]
    OBVIOUS
  <2>1. (Len(s) - i) + 1 \in 1..Len(s) /\ Len(t) - Len(s) + ((Len(s) - i) + 1) = (Len(t) - i) + 1
    BY <1>0
  <2>2. s[(Len(s) - i) + 1] = t[(Len(t) - i) + 1]
    BY <2>1 DEF EndOf
  <2>3. i \in 1..Len(t)
    BY <1>0
  <2> QED  BY <1>1, <1>2, <2>2, <2>3
<1>4. /\ SubSeq(a, 1, Len(a)) \in Seq(S) /\ SubSeq(b, 1, Len(a)) \in Seq(S)
      /\ Len(SubSeq(a, 1, Len(a))) = Len(s) /\ Len(SubSeq(b, 1, Len(a))) = Len(s)
      /\ \A i \in 1..Len(s) : SubSeq(a, 1, Len(a))[i] = a[i] /\ SubSeq(b, 1, Len(a))[i] = b[i]
  <2> DEFINE c == SubSeq(a, 1, Len(a))
             d == SubSeq(b, 1, Len(a))
  <2>1. c \in Seq(S) /\ Len(c) = Len(s) /\ \A i \in 1..Len(s) : c[i] = a[i]
    BY <1>0, <1>1, SubSeqProperties
  <2>2. d \in Seq(S) /\ Len(d) = Len(s) /\ \A i \in 1..Len(s) : d[i] = b[i]
    <3>1. ASSUME NEW i \in 1..Len(a) PROVE b[i] \in S
      <4>1. i \in 1..Len(b)
        BY <1>0, <1>1, <1>2
      <4> QED  BY <1>2, <4>1, ElementOfSeq
    <3> QED  BY <1>0, <1>1, <3>1, SubSeqProperties
  <2> QED  BY <2>1, <2>2
<1>5. SubSeq(a, 1, Len(a)) = SubSeq(b, 1, Len(a))
  BY <1>3, <1>4, SeqEqual
<1> QED  BY <1>0, <1>1, <1>2, <1>5 DEF IsSuffix, IsPrefix, a, b

LEMMA EndOfAppend ==
  ASSUME NEW S, NEW s \in Seq(S), NEW t \in Seq(S), NEW x \in S, EndOf(s, t)
  PROVE  EndOf(Append(s, x), Append(t, x))
<1>0. Len(s) \in Nat /\ Len(t) \in Nat /\ Len(s) <= Len(t)
  BY DEF EndOf
<1> DEFINE a == Append(s, x)
           b == Append(t, x)
<1>1. /\ Len(a) = Len(s) + 1 /\ a[Len(s) + 1] = x /\ \A i \in 1..Len(s) : a[i] = s[i]
      /\ Len(b) = Len(t) + 1 /\ b[Len(t) + 1] = x /\ \A i \in 1..Len(t) : b[i] = t[i]
  BY AppendProperties
<1> HIDE DEF a, b
<1>2. ASSUME NEW i \in 1..Len(a) PROVE a[i] = b[Len(b) - Len(a) + i]
  <2>1. Len(b) - Len(a) + i = Len(t) - Len(s) + i
    BY <1>0, <1>1
  <2>2. CASE i = Len(s) + 1
    BY <1>0, <1>1, <2>1, <2>2
  <2>3. CASE i \in 1..Len(s)
    <3>1. Len(t) - Len(s) + i \in 1..Len(t)
      BY <1>0, <2>3
    <3> QED  BY <1>1, <2>1, <2>3, <3>1 DEF EndOf
  <2> QED  BY <1>0, <1>1, <2>2, <2>3
<1>3. EndOf(a, b)
  BY <1>0, <1>1, <1>2 DEF EndOf
<1> QED  BY <1>3 DEF a, b

LEMMA EndOfEnd ==
  ASSUME NEW S, NEW p \in Seq(S), NEW s \in Seq(S), NEW t \in Seq(S), EndOf(p \o s, t)
  PROVE  EndOf(s, t)
<1> DEFINE c == p \o s
<1>1. /\ Len(c) = Len(p) + Len(s) /\ Len(p) \in Nat /\ Len(s) \in Nat /\ Len(t) \in Nat
      /\ \A i \in 1..Len(s) : Len(p) + i \in 1..Len(c) /\ c[Len(p) + i] = s[i]
  BY ConcatProperties
<1>2. Len(c) <= Len(t) /\ \A i \in 1..Len(c) : c[i] = t[Len(t) - Len(c) + i]
  BY DEF EndOf
<1> HIDE DEF c
<1>3. ASSUME NEW i \in 1..Len(s) PROVE s[i] = t[Len(t) - Len(s) + i]
  <2>1. Len(t) - Len(c) + (Len(p) + i) = Len(t) - Len(s) + i
    BY <1>1
  <2> QED  BY <1>1, <1>2, <2>1
<1> QED  BY <1>1, <1>2, <1>3 DEF EndOf

\* How the contents of three places change when a line is added to the last.
LEMMA JoinIs ==
  ASSUME NEW S, NEW p \in Seq(S), NEW x \in Seq(S), NEW y \in Seq(S)
  PROVE  /\ x \o y \in Seq(S) /\ p \o x \o y \in Seq(S)
         /\ p \o x \o y = p \o (x \o y)
<1>1. p \o x \in Seq(S) /\ x \o y \in Seq(S)
  BY ConcatProperties
<1>2. (p \o x) \o y \in Seq(S)
  BY <1>1, ConcatProperties
<1>3. (p \o x) \o y = p \o (x \o y)
  BY ConcatAssociative
<1> QED  BY <1>1, <1>2, <1>3

LEMMA JoinAppend ==
  ASSUME NEW S, NEW p \in Seq(S), NEW x \in Seq(S), NEW y \in Seq(S), NEW l \in S
  PROVE  /\ Append(y, l) \in Seq(S) /\ <<l>> \in Seq(S)
         /\ p \o x \o Append(y, l) = Append(p \o x \o y, l)
         /\ p \o (x \o y) \o <<l>> = Append(p \o x \o y, l)
<1>1. PICK z : z = <<l>>
  OBVIOUS
<1>2. z \in Seq(S) /\ Append(y, l) \in Seq(S)
  BY <1>1
<1>3. PICK u : u = p \o x
  OBVIOUS
<1>4. u \in Seq(S) /\ u \o y \in Seq(S)
  <2>1. u \in Seq(S)
    BY <1>3, ConcatProperties
  <2> QED  BY <2>1, ConcatProperties
<1>5. Append(y, l) = y \o z
  BY <1>1, AppendIsConcat, SMTT(30)
<1>6. Append(u \o y, l) = (u \o y) \o z
  <2>1. PICK v \in Seq(S) : v = u \o y
    BY <1>4
  <2>2. Append(v, l) = v \o z
    BY <1>1, <2>1, AppendIsConcat, SMTT(30)
  <2> QED  BY <2>1, <2>2
<1>7. (u \o y) \o z = u \o (y \o z)
  BY <1>2, <1>4, ConcatAssociative, SMTT(30)
<1>8. p \o (x \o y) = u \o y
  BY <1>3, JoinIs
<1> QED  BY <1>1, <1>2, <1>3, <1>5, <1>6, <1>7, <1>8, Zenon

\* The lines of the files are the numbers of their entries.
Line == Nat

\* A closed file comes from an error only.
FileInv ==
  /\ old \in Seq(Line) /\ file \in Seq(Line) /\ buf \in Seq(Line) /\ written \in Seq(Line)
  /\ ioError \in BOOLEAN
  /\ fileState \in {"open", "closed"}
  /\ fileState = "closed" => ioError
  /\ ~ioError => EndOf(old \o file \o buf, written)

LEMMA FlushedFits == Flushed \in Nat /\ Flushed <= Past
<1>0. Past \in Nat /\ BufLines \in Nat /\ BufLines > 0
  BY LogAssumption
<1>1. ASSUME NEW n \in Nat PROVE (n \div BufLines) \in Nat /\ (n \div BufLines) * BufLines <= n
  BY <1>0
<1>2. CASE Past = 0
  BY <1>2 DEF Flushed
<1>3. CASE Past # 0
  <2>1. Past - 1 \in Nat
    BY <1>0, <1>3
  <2>2. ((Past - 1) \div BufLines) \in Nat /\ ((Past - 1) \div BufLines) * BufLines <= Past - 1
    BY <1>1, <2>1
  <2> QED  BY <1>0, <1>3, <2>1, <2>2 DEF Flushed
<1> QED  BY <1>2, <1>3

LEMMA FileInit == Init => FileInv
<1> SUFFICES ASSUME Init PROVE FileInv
  OBVIOUS
<1>0. Past \in Nat /\ Flushed \in Nat /\ Flushed <= Past
  BY FlushedFits, LogAssumption
<1>1. /\ file \in Seq(Nat) /\ Len(file) = Flushed /\ \A i \in 1..Flushed : file[i] = i
      /\ written \in Seq(Nat) /\ Len(written) = Past /\ \A i \in 1..Past : written[i] = i
  <2>1. file = Numbers(1, Flushed) /\ written = Numbers(1, Past)
    BY DEF Init
  <2>2. ASSUME NEW n \in Nat
        PROVE  /\ Numbers(1, n) \in Seq(Nat) /\ Len(Numbers(1, n)) = n
               /\ \A i \in 1..n : Numbers(1, n)[i] = i
    <3>1. 1 \in Nat /\ 1 <= n + 1 /\ n - 1 + 1 = n /\ \A i \in 1..n : 1 + i - 1 = i
      OBVIOUS
    <3> QED  BY <3>1, NumbersAre
  <2> QED  BY <1>0, <2>1, <2>2
<1>2. /\ buf \in Seq(Nat) /\ Len(buf) = Past - Flushed
      /\ \A i \in 1..(Past - Flushed) : buf[i] = Flushed + i
  <2>1. buf = Numbers(Flushed + 1, Past)
    BY DEF Init
  <2>2. Flushed + 1 \in Nat /\ Flushed + 1 <= Past + 1 /\ Past - (Flushed + 1) + 1 = Past - Flushed
    BY <1>0
  <2> DEFINE m == Flushed + 1
  <2>3. m \in Nat /\ m <= Past + 1 /\ Past - m + 1 = Past - Flushed
    BY <2>2
  <2> HIDE DEF m
  <2>4. /\ Numbers(m, Past) \in Seq(Nat) /\ Len(Numbers(m, Past)) = Past - Flushed
        /\ \A i \in 1..(Past - Flushed) : Numbers(m, Past)[i] = m + i - 1
    BY <1>0, <2>3, NumbersAre
  <2>5. \A i \in 1..(Past - Flushed) : m + i - 1 = Flushed + i
    BY <1>0 DEF m
  <2> QED  BY <2>1, <2>4, <2>5 DEF m
<1>3. old = <<>> /\ old \in Seq(Nat) /\ fileState = "open" /\ ioError = FALSE
  BY DEF Init
<1> DEFINE all == old \o file \o buf
<1>4. /\ Len(all) = Past
      /\ \A i \in 1..Past : all[i] = IF i <= Flushed THEN file[i] ELSE buf[i - Flushed]
  <2>1. old \o file = file
    BY <1>1, <1>3, ConcatEmptySeq
  <2> QED  BY <1>0, <1>1, <1>2, <2>1, ConcatProperties
<1> HIDE DEF all
<1>5. \A i \in 1..Past : all[i] = i
  <2> SUFFICES ASSUME NEW i \in 1..Past PROVE all[i] = i
    OBVIOUS
  <2>1. CASE i <= Flushed
    <3>1. i \in 1..Flushed
      BY <1>0, <2>1
    <3> QED  BY <1>1, <1>4, <2>1, <3>1
  <2>2. CASE ~(i <= Flushed)
    <3>1. i - Flushed \in 1..(Past - Flushed)
      BY <1>0, <2>2
    <3>2. buf[i - Flushed] = Flushed + (i - Flushed)
      BY <1>2, <3>1
    <3> QED  BY <1>0, <1>4, <2>2, <3>2
  <2> QED  BY <2>1, <2>2
<1>6. EndOf(all, written)
  BY <1>0, <1>1, <1>4, <1>5 DEF EndOf
<1> QED  BY <1>1, <1>2, <1>3, <1>6 DEF FileInv, Line, all

\* A line that goes to the buffer of an open file.
Adds(p, x, y, line) ==
  /\ file' \in Seq(Line) /\ buf' \in Seq(Line)
  /\ p \o file' \o buf' = Append(p \o x \o y, line)

LEMMA BufferAppends ==
  ASSUME NEW line \in Line, NEW p \in Seq(Line), NEW onDisk \in Seq(Line), NEW pending \in Seq(Line),
         Buffer(line, onDisk, pending)
  PROVE  Adds(p, onDisk, pending, line)
<1>1. CASE Len(pending) < BufLines
  <2>1. file' = onDisk /\ buf' = Append(pending, line)
    BY <1>1 DEF Buffer
  <2> QED  BY <2>1, JoinAppend DEF Adds
<1>2. CASE ~(Len(pending) < BufLines)
  <2>1. file' = onDisk \o pending /\ buf' = <<line>>
    BY <1>2 DEF Buffer
  <2>2. onDisk \o pending \in Seq(Line)
    BY JoinIs
  <2> QED  BY <2>1, <2>2, JoinAppend DEF Adds
<1> QED  BY <1>1, <1>2

LEMMA FileWriteKeeps ==
  ASSUME FileInv, NEW line \in Line, FileWrite(line)
  PROVE  FileInv'
<1> USE DEF FileInv
<1>0. written' = Append(written, line) /\ written' \in Seq(Line)
  BY DEF FileWrite
<1>1. CASE fileState = "open" /\ Len(file) >= MaxLog /\ Rotate(line)
  <2>1. PICK renamed, opened \in BOOLEAN :
          /\ old' = IF renamed THEN file \o buf ELSE old
          /\ \/ opened /\ Buffer(line, <<>>, <<>>) /\ UNCHANGED fileState
             \/ /\ ~opened
                /\ file' = IF renamed THEN <<>> ELSE file \o buf
                /\ buf' = <<>> /\ fileState' = "closed"
          /\ ioError' = (ioError \/ ~renamed \/ ~opened)
    BY <1>1 DEF Rotate, Reopen
  <2>2. file \o buf \in Seq(Line) /\ <<>> \in Seq(Line) /\ old' \in Seq(Line)
    BY <2>1
  <2>3. CASE opened
    <3>1. Buffer(line, <<>>, <<>>) /\ fileState' = fileState
      BY <2>1, <2>3
    <3>2. /\ file' \in Seq(Line) /\ buf' \in Seq(Line)
          /\ old' \o file' \o buf' = Append(old' \o <<>> \o <<>>, line)
      <4>1. Adds(old', <<>>, <<>>, line)
        BY <2>2, <3>1, BufferAppends
      <4> QED  BY <4>1 DEF Adds
    <3>3. ioError' \in BOOLEAN /\ (~ioError' => ~ioError /\ renamed)
      BY <2>1
    <3>4. ASSUME ~ioError' PROVE EndOf(old' \o file' \o buf', written')
      <4>1. EndOf(old \o file \o buf, written) /\ old' = file \o buf
        BY <2>1, <3>3, <3>4
      <4>2. old \o file \o buf = old \o (file \o buf)
        BY JoinIs
      <4>3. EndOf(file \o buf, written)
        BY <2>2, <4>1, <4>2, EndOfEnd
      <4>4. old' \o <<>> \o <<>> = file \o buf
        BY <2>2, <4>1, ConcatEmptySeq
      <4> QED  BY <1>0, <2>2, <3>2, <4>3, <4>4, EndOfAppend
    <3>5. fileState' = "open"
      BY <1>1, <3>1
    <3> QED  BY <1>0, <2>2, <3>2, <3>3, <3>4, <3>5
  <2>4. CASE ~opened
    <3>1. ioError' = TRUE /\ fileState' = "closed" /\ file' \in Seq(Line) /\ buf' \in Seq(Line)
      BY <2>1, <2>2, <2>4
    <3> QED  BY <1>0, <2>2, <3>1
  <2> QED  BY <2>3, <2>4
<1>2. CASE /\ fileState = "open" /\ Buffer(line, file, buf)
           /\ UNCHANGED <<old, fileState, ioError>>
  <2>1. /\ file' \in Seq(Line) /\ buf' \in Seq(Line)
        /\ old' \o file' \o buf' = Append(old \o file \o buf, line)
    <3>1. Adds(old, file, buf, line)
      BY <1>2, BufferAppends
    <3> QED  BY <1>2, <3>1 DEF Adds
  <2>2. old \o file \o buf \in Seq(Line)
    BY JoinIs
  <2>3. ~ioError' => EndOf(old' \o file' \o buf', written')
    BY <1>0, <1>2, <2>1, <2>2, EndOfAppend
  <2> QED  BY <1>0, <1>2, <2>1, <2>3
<1>3. CASE fileState = "closed" /\ UNCHANGED <<file, old, buf, fileState, ioError>>
  BY <1>0, <1>3
<1> QED  BY <1>1, <1>2, <1>3 DEF FileWrite

\* FileInv holds in every state of the log.
THEOREM FileInvariant == Spec => []FileInv
<1>1. StreamInv /\ FileInv /\ [Next]_vars => FileInv'
  <2> SUFFICES ASSUME StreamInv, FileInv, [Next]_vars PROVE FileInv'
    OBVIOUS
  <2>1. ASSUME UNCHANGED fileVars PROVE FileInv'
    BY <2>1 DEF FileInv, fileVars
  <2>2. ASSUME NEW t \in tasks, LogLine(t) PROVE FileInv'
    <3>1. t.entry \in Line
      BY DEF StreamInv, StreamTypeOK, Task, Line
    <3> QED  BY <2>2, <3>1, FileWriteKeeps DEF LogLine
  <2> QED  BY <2>1, <2>2 DEF Next, vars, Work, Send, Record, Deliver, Subscribe, SendRecent,
           SendNext, Unsubscribe
<1> QED  BY StreamInvariant, FileInit, <1>1, PTL DEF Spec

\* Unless a rename or an open failed, the rotated file, the file and the buffer
\* of rotatingFile hold, in this order, the last lines that were written: what
\* is lost is the older rotated file, and whole.
THEOREM FileIsAlwaysTail == Spec => []FileIsTail
<1>1. ASSUME FileInv PROVE FileIsTail
  <2>1. /\ old \o file \o buf \in Seq(Line) /\ written \in Seq(Line)
        /\ ~ioError => EndOf(old \o file \o buf, written)
    BY <1>1, JoinIs DEF FileInv
  <2>2. ~ioError => IsSuffix(old \o file \o buf, written)
    BY <2>1, EndOfIsSuffix
  <2> QED  BY <2>2 DEF FileIsTail
<1> QED  BY FileInvariant, <1>1, PTL
==============================================================================

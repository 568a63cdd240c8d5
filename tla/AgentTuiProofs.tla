--------------------------- MODULE AgentTuiProofs ---------------------------
(***************************************************************************)
(* The terminal session keeps what its invariants say for any number of    *)
(* lines, tool calls, crashes, sessions and hosts.  The argument has three *)
(* parts: what appending, trimming and taking back do to a conversation,   *)
(* what the operations of the store do to the directory, and one step per  *)
(* action for each of the invariants.                                      *)
(***************************************************************************)
EXTENDS AgentTui, SequenceTheorems, WellFoundedInduction, TLAPS

Live == {"prompt", "think", "tools"}
Role == {"sys", "user", "asst", "tool", "call1", "call2"}
Message == [role : Role, of : IdSet]
Naming == Names \cup {DefaultName}
SessionRec ==
    [file : IdSet \cup {Copy}, id : IdSet, name : Naming, msgs : Seq(Message)]

------------------------------------------------------------------------------
(* Conversations.                                                          *)

\* What holds of a conversation at every moment: its messages are its own, it
\* begins as it should, and no line of the user follows another.
Sound(ms, id, ho) ==
    /\ ms \in Seq(Message)
    /\ \A j \in 1..Len(ms) : ms[j].of = id
    /\ Len(ms) > 0 => ms[1].role \in {"sys", "user"}
    /\ id \notin ho =>
          /\ Len(ms) > 0 /\ ms[1].role = "sys"
          /\ \A i \in 1..Len(ms) - 1 : ~(ms[i].role = "user" /\ ms[i + 1].role = "user")

\* ... and of one between two turns, which is what a file holds.
AtRest(ms, id, hu, ho) ==
    /\ Sound(ms, id, ho)
    /\ id \notin ho => ms[Len(ms)].role # "user"
    /\ id \notin hu => Answered(ms)

\* Every tool call is answered but for k answers, which are the next to come.
AnsweredBut(ms, k) ==
    /\ \A i \in 1..Len(ms) :
          /\ \A j \in 1..CallsOf(ms[i]) :
                i + j <= Len(ms) + k /\ (i + j <= Len(ms) => ms[i + j].role = "tool")
          /\ ms[i].role = "tool" => \E j \in 1..2 : i > j /\ CallsOf(ms[i - j]) >= j
    /\ \A n \in 1..k : \E j \in n..2 :
          Len(ms) + n > j /\ CallsOf(ms[Len(ms) + n - j]) >= j

\* A part of a sequence, and all of it but its last element.
LEMMA Part ==
  ASSUME NEW S, NEW s \in Seq(S), NEW m \in Nat \ {0}, NEW n \in Nat, m <= n + 1, n <= Len(s)
  PROVE  /\ SubSeq(s, m, n) \in Seq(S) /\ Len(SubSeq(s, m, n)) = n - m + 1
         /\ \A i \in 1..(n - m + 1) : SubSeq(s, m, n)[i] = s[m + i - 1]
<1>1. \A i \in m..n : s[i] \in S
  BY ElementOfSeq
<1> QED  BY <1>1, SubSeqProperties

LEMMA FrontOf ==
  ASSUME NEW S, NEW s \in Seq(S), Len(s) > 0
  PROVE  /\ Front(s) \in Seq(S) /\ Len(Front(s)) = Len(s) - 1
         /\ \A i \in 1..(Len(s) - 1) : Front(s)[i] = s[i]
<1> DEFINE n == Len(s) - 1
           f == SubSeq(s, 1, n)
<1>1. n \in Nat /\ 1 \in Nat \ {0} /\ 1 <= n + 1 /\ n <= Len(s)
  OBVIOUS
<1> HIDE DEF n
<1>2. /\ f \in Seq(S) /\ Len(f) = n - 1 + 1
      /\ \A i \in 1..(n - 1 + 1) : f[i] = s[1 + i - 1]
  BY <1>1, Part
<1> HIDE DEF f
<1>3. Len(f) = n /\ \A i \in 1..n : f[i] = s[i]
  BY <1>1, <1>2
<1> QED  BY <1>2, <1>3 DEF Front, f, n

LEMMA CallsRange ==
  ASSUME NEW m
  PROVE  /\ CallsOf(m) \in 0..2
         /\ m.role = "call1" => CallsOf(m) = 1
         /\ m.role = "call2" => CallsOf(m) = 2
         /\ m.role \notin {"call1", "call2"} => CallsOf(m) = 0
<1>1. CASE m.role = "call1"
  BY <1>1 DEF CallsOf
<1>2. CASE m.role = "call2"
  BY <1>2 DEF CallsOf
<1>3. CASE m.role \notin {"call1", "call2"}
  BY <1>3 DEF CallsOf
<1> QED  BY <1>1, <1>2, <1>3

LEMMA ButZero ==
  ASSUME NEW ms \in Seq(Message)
  PROVE  AnsweredBut(ms, 0) <=> Answered(ms)
<1>1. \A i \in 1..Len(ms) : CallsOf(ms[i]) \in 0..2
  BY CallsRange
<1>2. Len(ms) \in Nat
  OBVIOUS
<1>3. ASSUME NEW i \in 1..Len(ms)
      PROVE  AnsweredBy(ms, i, CallsOf(ms[i])) <=>
             \A j \in 1..CallsOf(ms[i]) :
                i + j <= Len(ms) + 0 /\ (i + j <= Len(ms) => ms[i + j].role = "tool")
  BY <1>1, <1>2 DEF AnsweredBy
<1> QED  BY <1>2, <1>3 DEF AnsweredBut, Answered

\* A message that is no tool's answer leaves as many answers open as it asks.
LEMMA AppendOther ==
  ASSUME NEW ms \in Seq(Message), NEW m \in Message, Answered(ms), m.role # "tool"
  PROVE  AnsweredBut(Append(ms, m), CallsOf(m))
<1> DEFINE a == Append(ms, m)
           n == Len(ms)
           k == CallsOf(m)
<1>1. n \in Nat /\ k \in 0..2 /\ \A i \in 1..n : CallsOf(ms[i]) \in 0..2
  BY CallsRange
<1>2. Len(a) = n + 1 /\ a[n + 1] = m /\ \A i \in 1..n : a[i] = ms[i]
  BY AppendProperties
<1> HIDE DEF a, n, k
<1>3. ASSUME NEW i \in 1..Len(a)
      PROVE  /\ \A j \in 1..CallsOf(a[i]) :
                   i + j <= Len(a) + k /\ (i + j <= Len(a) => a[i + j].role = "tool")
             /\ a[i].role = "tool" => \E j \in 1..2 : i > j /\ CallsOf(a[i - j]) >= j
  <2>1. CASE i = n + 1
    BY <1>1, <1>2, <2>1 DEF k
  <2>2. CASE i \in 1..n
    <3>1. a[i] = ms[i]
      BY <1>2, <2>2
    <3>2. ASSUME NEW j \in 1..CallsOf(a[i])
          PROVE  i + j <= Len(a) + k /\ (i + j <= Len(a) => a[i + j].role = "tool")
      <4>1. i + j <= n /\ ms[i + j].role = "tool"
        BY <2>2, <3>1 DEF Answered, AnsweredBy, n
      <4>2. i + j \in 1..n
        BY <1>1, <2>2, <3>1, <4>1
      <4> QED  BY <1>1, <1>2, <4>1, <4>2
    <3>3. ASSUME a[i].role = "tool" PROVE \E j \in 1..2 : i > j /\ CallsOf(a[i - j]) >= j
      <4>1. PICK j \in 1..2 : i > j /\ CallsOf(ms[i - j]) >= j
        BY <2>2, <3>1, <3>3 DEF Answered, n
      <4>2. a[i - j] = ms[i - j]
        BY <1>1, <1>2, <2>2, <4>1
      <4> QED  BY <4>1, <4>2
    <3> QED  BY <3>2, <3>3
  <2> QED  BY <1>1, <1>2, <2>1, <2>2
<1>4. ASSUME NEW d \in 1..k
      PROVE  \E j \in d..2 : Len(a) + d > j /\ CallsOf(a[Len(a) + d - j]) >= j
  <2>1. d \in d..2 /\ Len(a) + d > d /\ Len(a) + d - d = n + 1 /\ k >= d
    BY <1>1, <1>2
  <2>2. CallsOf(a[Len(a) + d - d]) >= d
    BY <1>2, <2>1 DEF k
  <2> QED  BY <2>1, <2>2
<1> QED  BY <1>3, <1>4 DEF AnsweredBut, a, k

\* A tool's answer closes one of the open calls.
LEMMA AppendTool ==
  ASSUME NEW ms \in Seq(Message), NEW m \in Message, NEW k \in 1..2, AnsweredBut(ms, k),
         m.role = "tool"
  PROVE  AnsweredBut(Append(ms, m), k - 1)
<1> DEFINE a == Append(ms, m)
           n == Len(ms)
<1>1. n \in Nat /\ \A i \in 1..n : CallsOf(ms[i]) \in 0..2
  BY CallsRange
<1>2. Len(a) = n + 1 /\ a[n + 1] = m /\ \A i \in 1..n : a[i] = ms[i]
  BY AppendProperties
<1>c. CallsOf(m) = 0
  BY CallsRange
<1> HIDE DEF a, n
<1>3. ASSUME NEW i \in 1..Len(a)
      PROVE  /\ \A j \in 1..CallsOf(a[i]) :
                   i + j <= Len(a) + (k - 1) /\ (i + j <= Len(a) => a[i + j].role = "tool")
             /\ a[i].role = "tool" => \E j \in 1..2 : i > j /\ CallsOf(a[i - j]) >= j
  <2>1. CASE i = n + 1
    <3>1. PICK j \in 1..2 : n + 1 > j /\ CallsOf(ms[n + 1 - j]) >= j
      BY DEF AnsweredBut, n
    <3>2. a[i - j] = ms[n + 1 - j]
      BY <1>1, <1>2, <2>1, <3>1
    <3> QED  BY <1>1, <1>2, <1>c, <2>1, <3>1, <3>2
  <2>2. CASE i \in 1..n
    <3>1. a[i] = ms[i]
      BY <1>2, <2>2
    <3>2. ASSUME NEW j \in 1..CallsOf(a[i])
          PROVE  i + j <= Len(a) + (k - 1) /\ (i + j <= Len(a) => a[i + j].role = "tool")
      <4>1. i + j <= n + k /\ (i + j <= n => ms[i + j].role = "tool")
        BY <2>2, <3>1 DEF AnsweredBut, n
      <4>2. i + j \in 1..n \/ i + j = n + 1 \/ i + j > n + 1
        BY <1>1, <2>2, <3>1
      <4> QED  BY <1>1, <1>2, <4>1, <4>2
    <3>3. ASSUME a[i].role = "tool" PROVE \E j \in 1..2 : i > j /\ CallsOf(a[i - j]) >= j
      <4>1. PICK j \in 1..2 : i > j /\ CallsOf(ms[i - j]) >= j
        BY <2>2, <3>1, <3>3 DEF AnsweredBut, n
      <4>2. a[i - j] = ms[i - j]
        BY <1>1, <1>2, <2>2, <4>1
      <4> QED  BY <4>1, <4>2
    <3> QED  BY <3>2, <3>3
  <2> QED  BY <1>1, <1>2, <2>1, <2>2
<1>4. ASSUME NEW d \in 1..(k - 1)
      PROVE  \E j \in d..2 : Len(a) + d > j /\ CallsOf(a[Len(a) + d - j]) >= j
  <2>0. d + 1 \in 1..k
    OBVIOUS
  <2>1. PICK j \in (d + 1)..2 : n + (d + 1) > j /\ CallsOf(ms[n + (d + 1) - j]) >= j
    BY <2>0, Zenon DEF AnsweredBut, n
  <2>2. j \in d..2 /\ Len(a) + d > j /\ n + (d + 1) - j \in 1..n /\ Len(a) + d - j = n + (d + 1) - j
    BY <1>1, <1>2, <2>1
  <2> QED  BY <1>2, <2>1, <2>2
<1> QED  BY <1>3, <1>4 DEF AnsweredBut, a

\* Taking back a line of the user leaves no call open.
LEMMA FrontOfLine ==
  ASSUME NEW ms \in Seq(Message), Answered(ms), Len(ms) > 0, ms[Len(ms)].role = "user"
  PROVE  Answered(Front(ms))
<1> DEFINE f == Front(ms)
           n == Len(ms)
<1>1. n \in Nat /\ n > 0 /\ \A i \in 1..n : CallsOf(ms[i]) \in 0..2
  BY CallsRange
<1>2. Len(f) = n - 1 /\ \A i \in 1..(n - 1) : f[i] = ms[i]
  BY <1>1, FrontOf
<1> HIDE DEF f, n
<1>3. ASSUME NEW i \in 1..Len(f)
      PROVE  /\ AnsweredBy(f, i, CallsOf(f[i]))
             /\ f[i].role = "tool" => \E j \in 1..2 : i > j /\ CallsOf(f[i - j]) >= j
  <2>1. f[i] = ms[i] /\ i \in 1..n
    BY <1>1, <1>2
  <2>2. ASSUME NEW j \in 1..CallsOf(f[i]) PROVE i + j <= Len(f) /\ f[i + j].role = "tool"
    <3>1. i + j <= n /\ ms[i + j].role = "tool"
      BY <2>1 DEF Answered, AnsweredBy, n
    <3>2. i + j # n
      BY <3>1 DEF n
    <3>3. i + j \in 1..(n - 1)
      BY <1>1, <2>1, <3>1, <3>2
    <3> QED  BY <1>1, <1>2, <3>1, <3>3
  <2>3. ASSUME f[i].role = "tool" PROVE \E j \in 1..2 : i > j /\ CallsOf(f[i - j]) >= j
    <3>1. PICK j \in 1..2 : i > j /\ CallsOf(ms[i - j]) >= j
      BY <2>1, <2>3 DEF Answered, n
    <3>2. f[i - j] = ms[i - j]
      BY <1>1, <1>2, <3>1
    <3> QED  BY <3>1, <3>2
  <2> QED  BY <2>2, <2>3 DEF AnsweredBy
<1> QED  BY <1>3 DEF Answered, f

\* What trimMessages keeps.
LEMMA Trimmed ==
  ASSUME NEW ms \in Seq(Message)
  PROVE  LET t == trimMessages(ms)
             m == MaxSessionMessages
         IN  /\ t \in Seq(Message) /\ Len(t) <= m
             /\ Len(ms) <= m => t = ms
             /\ Len(ms) > m =>
                   /\ Len(t) = m /\ t[1] = ms[1]
                   /\ \A i \in 2..m : t[i] = ms[Len(ms) - m + i]
<1> DEFINE t == trimMessages(ms)
           m == MaxSessionMessages
           n == Len(ms)
<1>1. m \in Nat /\ m > 1 /\ n \in Nat
  BY TrimAssumption
<1>2. CASE n <= m
  BY <1>1, <1>2 DEF trimMessages
<1>3. CASE n > m
  <2> DEFINE b == SubSeq(ms, n - m + 2, n)
  <2>1. n - m + 2 \in Nat \ {0} /\ n - m + 2 <= n + 1 /\ n <= n
    BY <1>1, <1>3
  <2>2. /\ b \in Seq(Message) /\ Len(b) = n - (n - m + 2) + 1
        /\ \A i \in 1..(n - (n - m + 2) + 1) : b[i] = ms[(n - m + 2) + i - 1]
    BY <1>1, <2>1, Part
  <2>3. ms[1] \in Message
    BY <1>1, <1>3
  <2>4. t = <<ms[1]>> \o b
    BY <1>1, <1>3 DEF trimMessages
  <2> HIDE DEF b, t, m, n
  <2>5. Len(b) = m - 1 /\ \A i \in 1..(m - 1) : b[i] = ms[n - m + 1 + i]
    BY <1>1, <1>3, <2>2
  <2>6. <<ms[1]>> \in Seq(Message) /\ Len(<<ms[1]>>) = 1 /\ <<ms[1]>>[1] = ms[1]
    BY <2>3
  <2>7. /\ t \in Seq(Message) /\ Len(t) = 1 + Len(b) /\ t[1] = ms[1]
        /\ \A i \in 2..(1 + Len(b)) : t[i] = b[i - 1]
    BY <2>2, <2>4, <2>6, ConcatProperties
  <2>8. \A i \in 2..m : t[i] = ms[n - m + i]
    <3> SUFFICES ASSUME NEW i \in 2..m PROVE t[i] = ms[n - m + i]
      OBVIOUS
    <3>1. i - 1 \in 1..(m - 1) /\ n - m + 1 + (i - 1) = n - m + i /\ i \in 2..(1 + Len(b))
      BY <1>1, <2>5
    <3>2. t[i] = b[i - 1]
      BY <2>7, <3>1
    <3>3. b[i - 1] = ms[n - m + 1 + (i - 1)]
      BY <2>5, <3>1, Zenon
    <3> QED  BY <3>1, <3>2, <3>3
  <2>9. /\ t \in Seq(Message) /\ Len(t) <= m
        /\ n <= m => t = ms
        /\ n > m => /\ Len(t) = m /\ t[1] = ms[1]
                    /\ \A i \in 2..m : t[i] = ms[n - m + i]
    BY <1>1, <1>3, <2>5, <2>7, <2>8
  <2> QED  BY <2>9, Zenon DEF m, n, t
<1> QED  BY <1>1, <1>2, <1>3

\* A save drops messages of a conversation only where Cut says so.
LEMMA RestTrim ==
  ASSUME NEW ms, NEW id, NEW hu, NEW ho, NEW hu2, NEW ho2,
         AtRest(ms, id, hu, ho), hu \cup Cut(ms, id) \subseteq hu2, ho \subseteq ho2
  PROVE  AtRest(trimMessages(ms), id, hu2, ho2)
<1> DEFINE t == trimMessages(ms)
           m == MaxSessionMessages
           n == Len(ms)
<1>1. ms \in Seq(Message) /\ n \in Nat /\ m \in Nat /\ m > 1
  BY TrimAssumption DEF AtRest, Sound
<1>2. CASE n <= m
  <2>1. t = ms
    BY <1>2 DEF trimMessages
  <2> QED  BY <2>1 DEF AtRest, Sound
<1>3. CASE n > m
  <2>0. /\ t \in Seq(Message) /\ Len(t) = m /\ t[1] = ms[1]
        /\ \A i \in 2..m : t[i] = ms[n - m + i]
    BY <1>1, <1>3, Trimmed
  <2>1. /\ \A j \in 1..n : ms[j].of = id
        /\ ms[1].role \in {"sys", "user"}
        /\ id \notin ho =>
              /\ ms[1].role = "sys" /\ ms[n].role # "user"
              /\ \A i \in 1..(n - 1) : ~(ms[i].role = "user" /\ ms[i + 1].role = "user")
    BY <1>1, <1>3 DEF AtRest, Sound
  <2>2. id \in hu2 /\ (id \notin ho2 => id \notin ho)
    BY <1>1, <1>3 DEF Cut
  <2> HIDE DEF t, m, n
  <2>3. ASSUME NEW j \in 1..Len(t) PROVE t[j].of = id
    <3>1. CASE j = 1
      BY <1>1, <1>3, <2>0, <2>1, <3>1
    <3>2. CASE j \in 2..m
      <4>1. n - m + j \in 1..n
        BY <1>1, <1>3, <3>2
      <4> QED  BY <2>0, <2>1, <3>2, <4>1
    <3> QED  BY <1>1, <2>0, <3>1, <3>2
  <2>4. ASSUME id \notin ho, NEW i \in 1..(m - 1)
        PROVE  ~(t[i].role = "user" /\ t[i + 1].role = "user")
    <3>1. CASE i = 1
      BY <2>0, <2>1, <2>4, <3>1
    <3>2. CASE i \in 2..(m - 1)
      <4>1. n - m + i \in 1..(n - 1) /\ n - m + (i + 1) = (n - m + i) + 1 /\ i \in 2..m /\ i + 1 \in 2..m
        BY <1>1, <1>3, <3>2
      <4>2. t[i] = ms[n - m + i] /\ t[i + 1] = ms[(n - m + i) + 1]
        BY <2>0, <4>1
      <4> QED  BY <2>1, <2>4, <4>1, <4>2
    <3> QED  BY <1>1, <3>1, <3>2
  <2>5. t[Len(t)] = ms[n]
    <3>1. m \in 2..m /\ n - m + m = n
      BY <1>1, <1>3
    <3> QED  BY <2>0, <3>1
  <2>6. Sound(t, id, ho2)
    BY <1>1, <2>0, <2>1, <2>2, <2>3, <2>4 DEF Sound
  <2> QED  BY <2>1, <2>2, <2>5, <2>6 DEF AtRest, t
<1> QED  BY <1>1, <1>2, <1>3

LEMMA RestMore ==
  ASSUME NEW ms, NEW id, NEW hu, NEW ho, NEW hu2, NEW ho2,
         AtRest(ms, id, hu, ho), hu \subseteq hu2, ho \subseteq ho2
  PROVE  AtRest(ms, id, hu2, ho2)
BY DEF AtRest, Sound

------------------------------------------------------------------------------
(* The turns of a conversation.                                            *)

\* While the endpoint thinks the last message is the line or an answer of a
\* tool, and what precedes such an answer is no line (what Fail leaves).
Thinking(ms, id, hu) ==
    /\ Len(ms) > 0 /\ ms[Len(ms)].role \in {"user", "tool"}
    /\ ms[Len(ms)].role = "tool" =>
          Len(ms) > 1 /\ ms[Len(ms) - 1].role \in {"call1", "call2", "tool"}
    /\ id \notin hu => Answered(ms)

\* While tools run k answers are to come.
Calling(ms, k, id, hu) ==
    /\ k \in 1..2 /\ Len(ms) > 0 /\ ms[Len(ms)].role \in {"call1", "call2", "tool"}
    /\ id \notin hu => AnsweredBut(ms, k)

LEMMA MsgIs ==
  ASSUME NEW r \in Role, NEW id \in IdSet
  PROVE  Msg(r, id) \in Message /\ Msg(r, id).role = r /\ Msg(r, id).of = id
BY DEF Msg, Message

LEMMA SoundAppend ==
  ASSUME NEW ms, NEW id \in IdSet, NEW ho, NEW r \in Role, Sound(ms, id, ho),
         Len(ms) = 0 => r \in {"sys", "user"},
         id \notin ho /\ r = "user" => ms[Len(ms)].role # "user"
  PROVE  LET a == Append(ms, Msg(r, id))
         IN  /\ Sound(a, id, ho) /\ Len(a) = Len(ms) + 1
             /\ a[Len(a)] = Msg(r, id) /\ \A i \in 1..Len(ms) : a[i] = ms[i]
<1> DEFINE m == Msg(r, id)
           a == Append(ms, m)
           n == Len(ms)
<1>1. m \in Message /\ m.role = r /\ m.of = id
  BY MsgIs
<1>2. ms \in Seq(Message) /\ n \in Nat
  BY DEF Sound
<1> HIDE DEF m
<1>3. /\ a \in Seq(Message) /\ Len(a) = n + 1 /\ a[n + 1] = m
      /\ \A i \in 1..n : a[i] = ms[i]
  BY <1>1, <1>2, AppendProperties
<1>4. /\ \A j \in 1..n : ms[j].of = id
      /\ n > 0 => ms[1].role \in {"sys", "user"}
      /\ id \notin ho =>
            /\ n > 0 /\ ms[1].role = "sys"
            /\ \A i \in 1..(n - 1) : ~(ms[i].role = "user" /\ ms[i + 1].role = "user")
      /\ n = 0 => r \in {"sys", "user"}
      /\ id \notin ho /\ r = "user" => ms[n].role # "user"
  BY DEF Sound
<1> HIDE DEF a, n
<1>5. \A j \in 1..Len(a) : a[j].of = id
  <2> SUFFICES ASSUME NEW j \in 1..Len(a) PROVE a[j].of = id
    OBVIOUS
  <2>1. j = n + 1 \/ j \in 1..n
    BY <1>2, <1>3
  <2> QED  BY <1>1, <1>3, <1>4, <2>1
<1>6. Len(a) > 0 /\ a[1].role \in {"sys", "user"}
  <2>1. CASE n = 0
    BY <1>1, <1>3, <1>4, <2>1
  <2>2. CASE n > 0
    <3>1. 1 \in 1..n
      BY <1>2, <2>2
    <3> QED  BY <1>2, <1>3, <1>4, <2>2, <3>1
  <2> QED  BY <1>2, <2>1, <2>2
<1>7. ASSUME id \notin ho
      PROVE  /\ a[1].role = "sys"
             /\ \A i \in 1..(Len(a) - 1) : ~(a[i].role = "user" /\ a[i + 1].role = "user")
  <2>0. n > 0 /\ 1 \in 1..n
    BY <1>2, <1>4, <1>7
  <2>1. a[1].role = "sys"
    BY <1>3, <1>4, <1>7, <2>0
  <2>2. ASSUME NEW i \in 1..(Len(a) - 1)
        PROVE  ~(a[i].role = "user" /\ a[i + 1].role = "user")
    <3>1. i \in 1..n /\ a[i] = ms[i]
      BY <1>2, <1>3
    <3>2. CASE i = n
      <4>1. a[i + 1] = m
        BY <1>3, <3>2
      <4> QED  BY <1>1, <1>4, <1>7, <3>1, <3>2, <4>1
    <3>3. CASE i \in 1..(n - 1)
      <4>1. i + 1 \in 1..n
        BY <1>2, <3>3
      <4>2. a[i + 1] = ms[i + 1]
        BY <1>3, <4>1
      <4> QED  BY <1>4, <1>7, <3>1, <3>3, <4>2
    <3> QED  BY <1>2, <3>1, <3>2, <3>3
  <2> QED  BY <2>1, <2>2
<1>8. Sound(a, id, ho)
  BY <1>3, <1>5, <1>6, <1>7, Zenon DEF Sound
<1> QED  BY <1>3, <1>8, Zenon DEF a, m, n

\* The system message of a new session, and the one a restart appends.
LEMMA RestSys ==
  ASSUME NEW id \in IdSet, NEW hu, NEW ho
  PROVE  AtRest(<<Msg("sys", id)>>, id, hu, ho)
<1>1. PICK m \in Message : m = Msg("sys", id) /\ m.role = "sys" /\ m.of = id
  BY MsgIs DEF Role
<1>2. <<m>> \in Seq(Message) /\ Len(<<m>>) = 1 /\ <<m>>[1] = m
  BY <1>1
<1> DEFINE ms == <<m>>
<1> HIDE DEF ms
<1>3. ms \in Seq(Message) /\ Len(ms) = 1 /\ ms[1] = m
  BY <1>2 DEF ms
<1>4. CallsOf(m) = 0
  BY <1>1, CallsRange
<1>5. Answered(ms)
  BY <1>1, <1>3, <1>4 DEF Answered, AnsweredBy
<1>6. AtRest(ms, id, hu, ho)
  BY <1>1, <1>3, <1>5 DEF AtRest, Sound
<1> QED  BY <1>1, <1>6 DEF ms

LEMMA RestFirst ==
  ASSUME NEW ms, NEW id, NEW hu, NEW ho, AtRest(ms, id, hu, ho), Len(ms) > 0
  PROVE  AtRest(<<ms[1]>>, id, hu, ho)
<1>1. PICK m \in Message : m = ms[1] /\ m.role \in {"sys", "user"} /\ m.of = id
                           /\ (id \notin ho => m.role = "sys")
  BY DEF AtRest, Sound
<1> DEFINE f == <<m>>
<1>2. f \in Seq(Message) /\ Len(f) = 1 /\ f[1] = m
  BY <1>1
<1> HIDE DEF f
<1>3. CallsOf(m) = 0
  BY <1>1, CallsRange
<1>4. Answered(f)
  BY <1>1, <1>2, <1>3 DEF Answered, AnsweredBy
<1>5. AtRest(f, id, hu, ho)
  BY <1>1, <1>2, <1>4 DEF AtRest, Sound
<1> QED  BY <1>1, <1>5 DEF f

\* A message without tool calls keeps an answered conversation answered.
LEMMA AnsweredAppend ==
  ASSUME NEW ms \in Seq(Message), NEW id \in IdSet, NEW r \in {"sys", "user", "asst"}, Answered(ms)
  PROVE  Answered(Append(ms, Msg(r, id)))
<1>1. PICK m \in Message : m = Msg(r, id) /\ m.role = r
  BY MsgIs DEF Role
<1>2. AnsweredBut(Append(ms, m), CallsOf(m)) /\ CallsOf(m) = 0
  BY <1>1, AppendOther, CallsRange
<1> QED  BY <1>1, <1>2, ButZero, AppendProperties

LEMMA RestAppendSys ==
  ASSUME NEW ms, NEW id \in IdSet, NEW hu, NEW ho, AtRest(ms, id, hu, ho)
  PROVE  AtRest(Append(ms, Msg("sys", id)), id, hu, ho)
<1> DEFINE a == Append(ms, Msg("sys", id))
<1>1. Sound(ms, id, ho) /\ ms \in Seq(Message) /\ (id \notin hu => Answered(ms))
  BY DEF AtRest, Sound
<1>2. Sound(a, id, ho) /\ a[Len(a)] = Msg("sys", id)
  BY <1>1, SoundAppend DEF Role
<1>3. Msg("sys", id).role = "sys"
  BY MsgIs DEF Role
<1>4. id \notin hu => Answered(a)
  BY <1>1, AnsweredAppend
<1> HIDE DEF a
<1>5. a[Len(a)].role # "user"
  BY <1>2, <1>3
<1>6. AtRest(a, id, hu, ho)
  BY <1>2, <1>4, <1>5 DEF AtRest
<1> QED  BY <1>6 DEF a

\* A line of the user begins a turn.
LEMMA LineThinks ==
  ASSUME NEW ms, NEW id \in IdSet, NEW hu, NEW ho, AtRest(ms, id, hu, ho)
  PROVE  LET a == Append(ms, Msg("user", id)) IN Sound(a, id, ho) /\ Thinking(a, id, hu)
<1> DEFINE a == Append(ms, Msg("user", id))
<1>1. /\ Sound(ms, id, ho) /\ ms \in Seq(Message) /\ (id \notin hu => Answered(ms))
      /\ id \notin ho => ms[Len(ms)].role # "user"
  BY DEF AtRest, Sound
<1>2. Sound(a, id, ho) /\ a[Len(a)] = Msg("user", id) /\ Len(a) = Len(ms) + 1
  BY <1>1, SoundAppend DEF Role
<1>3. Msg("user", id).role = "user"
  BY MsgIs DEF Role
<1>4. id \notin hu => Answered(a)
  BY <1>1, AnsweredAppend
<1>5. Len(ms) \in Nat
  BY <1>1
<1> HIDE DEF a
<1>6. Thinking(a, id, hu)
  BY <1>2, <1>3, <1>4, <1>5 DEF Thinking
<1> QED  BY <1>2, <1>6 DEF a

\* An answer without tool calls ends it.
LEMMA AnswerRests ==
  ASSUME NEW ms, NEW id \in IdSet, NEW hu, NEW ho, Sound(ms, id, ho), Thinking(ms, id, hu)
  PROVE  AtRest(Append(ms, Msg("asst", id)), id, hu, ho)
<1> DEFINE a == Append(ms, Msg("asst", id))
<1>1. ms \in Seq(Message) /\ Len(ms) > 0 /\ (id \notin hu => Answered(ms))
  BY DEF Sound, Thinking
<1>2. Sound(a, id, ho) /\ a[Len(a)] = Msg("asst", id)
  BY <1>1, SoundAppend DEF Role
<1>3. Msg("asst", id).role = "asst"
  BY MsgIs DEF Role
<1>4. id \notin hu => Answered(a)
  BY <1>1, AnsweredAppend
<1> HIDE DEF a
<1>5. a[Len(a)].role # "user"
  BY <1>2, <1>3
<1>6. AtRest(a, id, hu, ho)
  BY <1>2, <1>4, <1>5 DEF AtRest
<1> QED  BY <1>6 DEF a

\* One with k tool calls leaves k answers open.
LEMMA CallsOpen ==
  ASSUME NEW ms, NEW id \in IdSet, NEW hu, NEW ho, NEW k \in 1..2,
         Sound(ms, id, ho), Thinking(ms, id, hu)
  PROVE  LET a == Append(ms, Msg(IF k = 1 THEN "call1" ELSE "call2", id))
         IN  Sound(a, id, ho) /\ Calling(a, k, id, hu)
<1>0. PICK r \in Role : r = (IF k = 1 THEN "call1" ELSE "call2") /\ r \in {"call1", "call2"}
  BY DEF Role
<1>1. PICK m \in Message : m = Msg(r, id) /\ m.role = r
  BY MsgIs
<1> DEFINE a == Append(ms, Msg(r, id))
<1>2. ms \in Seq(Message) /\ Len(ms) > 0 /\ (id \notin hu => Answered(ms)) /\ Len(ms) \in Nat
  BY DEF Sound, Thinking
<1>3. Sound(a, id, ho) /\ a[Len(a)] = m /\ Len(a) = Len(ms) + 1
  BY <1>0, <1>1, <1>2, SoundAppend
<1>4. CallsOf(m) = k
  BY <1>0, <1>1, CallsRange
<1>5. ASSUME id \notin hu PROVE AnsweredBut(a, k)
  <2>1. AnsweredBut(Append(ms, m), CallsOf(m))
    BY <1>0, <1>1, <1>2, <1>5, AppendOther
  <2> QED  BY <1>1, <1>4, <2>1
<1> HIDE DEF a
<1>6. Calling(a, k, id, hu)
  BY <1>0, <1>1, <1>2, <1>3, <1>5 DEF Calling
<1> QED  BY <1>0, <1>3, <1>6 DEF a

\* The answer of a tool is one of them.
LEMMA ReturnCloses ==
  ASSUME NEW ms, NEW id \in IdSet, NEW hu, NEW ho, NEW k,
         Sound(ms, id, ho), Calling(ms, k, id, hu)
  PROVE  LET a == Append(ms, Msg("tool", id))
         IN  /\ Sound(a, id, ho)
             /\ k = 1 => Thinking(a, id, hu)
             /\ k # 1 => Calling(a, k - 1, id, hu)
<1>1. PICK m \in Message : m = Msg("tool", id) /\ m.role = "tool"
  BY MsgIs DEF Role
<1> DEFINE a == Append(ms, Msg("tool", id))
<1>2. /\ ms \in Seq(Message) /\ Len(ms) \in Nat /\ Len(ms) > 0 /\ k \in 1..2
      /\ ms[Len(ms)].role \in {"call1", "call2", "tool"}
  BY DEF Sound, Calling
<1>3. /\ Sound(a, id, ho) /\ a[Len(a)] = m /\ Len(a) = Len(ms) + 1
      /\ \A i \in 1..Len(ms) : a[i] = ms[i]
  BY <1>1, <1>2, SoundAppend DEF Role
<1>4. a \in Seq(Message)
  BY <1>3 DEF Sound
<1>5. ASSUME id \notin hu PROVE AnsweredBut(a, k - 1)
  <2>1. AnsweredBut(ms, k)
    BY <1>5 DEF Calling
  <2>2. AnsweredBut(Append(ms, m), k - 1)
    BY <1>1, <1>2, <2>1, AppendTool
  <2> QED  BY <1>1, <2>2
<1> HIDE DEF a
<1>6. a[Len(a) - 1] = ms[Len(ms)] /\ Len(a) > 1
  BY <1>2, <1>3
<1>7. ASSUME k = 1 PROVE Thinking(a, id, hu)
  <2>1. id \notin hu => Answered(a)
    <3>1. k - 1 = 0
      BY <1>7
    <3> QED  BY <1>4, <1>5, <3>1, ButZero
  <2> QED  BY <1>1, <1>2, <1>3, <1>6, <2>1 DEF Thinking
<1>8. ASSUME k # 1 PROVE Calling(a, k - 1, id, hu)
  <2>1. k - 1 \in 1..2
    BY <1>2, <1>8
  <2> QED  BY <1>1, <1>3, <1>5, <1>6, <2>1 DEF Calling
<1> QED  BY <1>3, <1>7, <1>8 DEF a

\* The error path: what is left when the last message is taken back.
LEMMA TakeBackRests ==
  ASSUME NEW ms, NEW id \in IdSet, NEW hu, NEW hu2, NEW ho,
         Sound(ms, id, ho), Thinking(ms, id, hu),
         hu \subseteq hu2, ms[Len(ms)].role = "tool" => id \in hu2
  PROVE  AtRest(Front(ms), id, hu2, ho)
<1> DEFINE f == Front(ms)
           n == Len(ms)
<1>1. /\ ms \in Seq(Message) /\ n \in Nat /\ n > 0
      /\ \A j \in 1..n : ms[j].of = id
      /\ ms[1].role \in {"sys", "user"}
      /\ id \notin ho =>
            /\ ms[1].role = "sys"
            /\ \A i \in 1..(n - 1) : ~(ms[i].role = "user" /\ ms[i + 1].role = "user")
      /\ ms[n].role \in {"user", "tool"}
      /\ ms[n].role = "tool" => n > 1 /\ ms[n - 1].role \in {"call1", "call2", "tool"}
  BY DEF Sound, Thinking
<1>2. f \in Seq(Message) /\ Len(f) = n - 1 /\ \A i \in 1..(n - 1) : f[i] = ms[i]
  BY <1>1, FrontOf
<1>3. ASSUME id \notin hu2 PROVE Answered(f)
  <2>1. Answered(ms) /\ ms[n].role = "user"
    BY <1>1, <1>3 DEF Thinking
  <2> QED  BY <1>1, <2>1, FrontOfLine
<1> HIDE DEF f, n
<1>4. \A j \in 1..Len(f) : f[j].of = id
  BY <1>1, <1>2
<1>5. Len(f) > 0 => f[1].role \in {"sys", "user"}
  BY <1>1, <1>2
<1>6. ASSUME id \notin ho
      PROVE  /\ Len(f) > 0 /\ f[1].role = "sys" /\ f[Len(f)].role # "user"
             /\ \A i \in 1..(Len(f) - 1) : ~(f[i].role = "user" /\ f[i + 1].role = "user")
  <2>1. n > 1
    BY <1>1, <1>6
  <2>2. f[1] = ms[1] /\ f[n - 1] = ms[n - 1] /\ n - 1 \in 1..(n - 1)
    BY <1>1, <1>2, <2>1
  <2>3. ms[n - 1].role # "user"
    <3>1. (n - 1) + 1 = n
      BY <1>1
    <3> QED  BY <1>1, <1>6, <2>2, <3>1
  <2>4. ASSUME NEW i \in 1..(Len(f) - 1)
        PROVE  ~(f[i].role = "user" /\ f[i + 1].role = "user")
    <3>1. i \in 1..(n - 1) /\ i + 1 \in 1..(n - 1)
      BY <1>1, <1>2
    <3>2. f[i] = ms[i] /\ f[i + 1] = ms[i + 1]
      BY <1>2, <3>1
    <3> QED  BY <1>1, <1>6, <3>1, <3>2
  <2> QED  BY <1>1, <1>2, <1>6, <2>1, <2>2, <2>3, <2>4
<1>7. Sound(f, id, ho)
  BY <1>2, <1>4, <1>5, <1>6, Zenon DEF Sound
<1>8. AtRest(f, id, hu2, ho)
  BY <1>3, <1>6, <1>7, Zenon DEF AtRest
<1> QED  BY <1>8 DEF f

------------------------------------------------------------------------------
(* The directory.                                                          *)

\* Its files, each under a name of its own.
Files(d) == {d[i] : i \in 1..Len(d)}
Uniq(d) == \A i, j \in 1..Len(d) : d[i].file = d[j].file => i = j

LEMMA JoinFiles ==
  ASSUME NEW S, NEW x \in Seq(S), NEW y \in Seq(S)
  PROVE  /\ x \o y \in Seq(S) /\ Files(x \o y) = Files(x) \cup Files(y)
         /\ (Uniq(x) /\ Uniq(y) /\ \A r \in Files(x), q \in Files(y) : r.file # q.file)
              => Uniq(x \o y)
<1> DEFINE z == x \o y
           n == Len(x)
           m == Len(y)
<1>1. /\ z \in Seq(S) /\ Len(z) = n + m /\ n \in Nat /\ m \in Nat
      /\ \A i \in 1..(n + m) : z[i] = IF i <= n THEN x[i] ELSE y[i - n]
  BY ConcatProperties
<1> HIDE DEF z, n, m
<1>2. /\ \A i \in 1..n : z[i] = x[i] /\ i \in 1..(n + m)
      /\ \A i \in 1..m : z[n + i] = y[i] /\ n + i \in 1..(n + m)
      /\ \A i \in 1..(n + m) : i \in 1..n \/ i - n \in 1..m
  BY <1>1
<1>3. ASSUME NEW r PROVE r \in Files(z) <=> r \in Files(x) \cup Files(y)
  <2>1. ASSUME r \in Files(z) PROVE r \in Files(x) \cup Files(y)
    <3>1. PICK i \in 1..(n + m) : r = z[i]
      BY <1>1, <2>1 DEF Files
    <3>2. CASE i \in 1..n
      BY <1>2, <3>1, <3>2 DEF Files, n
    <3>3. CASE i - n \in 1..m
      <4>1. n + (i - n) = i
        BY <1>1
      <4>2. z[i] = y[i - n]
        BY <1>2, <3>3, <4>1
      <4> QED  BY <3>1, <3>3, <4>2 DEF Files, m
    <3> QED  BY <1>2, <3>2, <3>3
  <2>2. ASSUME r \in Files(x) PROVE r \in Files(z)
    <3>1. PICK i \in 1..n : r = x[i]
      BY <2>2 DEF Files, n
    <3> QED  BY <1>1, <1>2, <3>1 DEF Files
  <2>3. ASSUME r \in Files(y) PROVE r \in Files(z)
    <3>1. PICK i \in 1..m : r = y[i]
      BY <2>3 DEF Files, m
    <3> QED  BY <1>1, <1>2, <3>1 DEF Files
  <2> QED  BY <2>1, <2>2, <2>3
<1>4. ASSUME Uniq(x), Uniq(y), \A r \in Files(x), q \in Files(y) : r.file # q.file
      PROVE  Uniq(z)
  <2> SUFFICES ASSUME NEW i \in 1..(n + m), NEW j \in 1..(n + m), z[i].file = z[j].file
               PROVE  i = j
    BY <1>1 DEF Uniq
  <2>1. ASSUME NEW k \in 1..n, NEW l \in 1..m PROVE z[k].file # z[n + l].file
    <3>1. z[k] \in Files(x) /\ z[n + l] \in Files(y)
      BY <1>2 DEF Files, n, m
    <3> QED  BY <1>4, <3>1
  <2>2. CASE i \in 1..n /\ j \in 1..n
    BY <1>2, <1>4, <2>2 DEF Uniq, n
  <2>3. CASE i - n \in 1..m /\ j - n \in 1..m
    <3>1. n + (i - n) = i /\ n + (j - n) = j
      BY <1>1
    <3>2. z[i] = y[i - n] /\ z[j] = y[j - n]
      BY <1>2, <2>3, <3>1
    <3>3. i - n = j - n
      BY <1>4, <2>3, <3>2 DEF Uniq, m
    <3> QED  BY <1>1, <3>3
  <2>4. CASE i \in 1..n /\ j - n \in 1..m
    <3>1. n + (j - n) = j
      BY <1>1
    <3> QED  BY <2>1, <2>4, <3>1
  <2>5. CASE j \in 1..n /\ i - n \in 1..m
    <3>1. n + (i - n) = i
      BY <1>1
    <3> QED  BY <2>1, <2>5, <3>1
  <2> QED  BY <1>2, <2>2, <2>3, <2>4, <2>5
<1> QED  BY <1>1, <1>3, <1>4 DEF z

LEMMA PartFiles ==
  ASSUME NEW S, NEW d \in Seq(S), NEW m \in Nat \ {0}, NEW n \in Nat, m <= n + 1, n <= Len(d)
  PROVE  /\ SubSeq(d, m, n) \in Seq(S)
         /\ Files(SubSeq(d, m, n)) = {d[i] : i \in m..n}
         /\ Uniq(d) => Uniq(SubSeq(d, m, n))
<1> DEFINE p == SubSeq(d, m, n)
<1>1. /\ p \in Seq(S) /\ Len(p) = n - m + 1
      /\ \A i \in 1..(n - m + 1) : p[i] = d[m + i - 1]
  BY Part
<1> HIDE DEF p
<1>2. /\ \A i \in 1..(n - m + 1) : m + i - 1 \in m..n /\ m + i - 1 \in 1..Len(d)
      /\ \A i \in m..n : i - m + 1 \in 1..(n - m + 1) /\ m + (i - m + 1) - 1 = i
  OBVIOUS
<1>3. ASSUME NEW r PROVE r \in Files(p) <=> r \in {d[i] : i \in m..n}
  <2>1. ASSUME r \in Files(p) PROVE r \in {d[i] : i \in m..n}
    <3>1. PICK i \in 1..(n - m + 1) : r = p[i]
      BY <1>1, <2>1 DEF Files
    <3>2. p[i] = d[m + i - 1] /\ m + i - 1 \in m..n
      BY <1>1, <1>2
    <3> QED  BY <3>1, <3>2
  <2>2. ASSUME NEW i \in m..n, r = d[i] PROVE r \in Files(p)
    <3>1. p[i - m + 1] = d[m + (i - m + 1) - 1] /\ i - m + 1 \in 1..Len(p)
      BY <1>1, <1>2
    <3>2. r = p[i - m + 1]
      BY <1>2, <2>2, <3>1
    <3> QED  BY <3>1, <3>2 DEF Files
  <2> QED  BY <2>1, <2>2
<1>4. ASSUME Uniq(d), NEW i \in 1..Len(p), NEW j \in 1..Len(p), p[i].file = p[j].file
      PROVE  i = j
  <2>1. i \in 1..(n - m + 1) /\ j \in 1..(n - m + 1)
    BY <1>1
  <2>2. d[m + i - 1].file = d[m + j - 1].file
    BY <1>1, <1>4, <2>1
  <2>3. m + i - 1 = m + j - 1
    BY <1>2, <1>4, <2>1, <2>2 DEF Uniq
  <2> QED  BY <2>1, <2>3
<1>5. Uniq(d) => Uniq(p)
  BY <1>4 DEF Uniq
<1> QED  BY <1>1, <1>3, <1>5 DEF p

\* The parts before and from an index on hold different files.
LEMMA Split ==
  ASSUME NEW S, NEW d \in Seq(S), Uniq(d), NEW k \in 0..Len(d), NEW l \in 1..(Len(d) + 1), k < l
  PROVE  LET x == SubSeq(d, 1, k)
             y == SubSeq(d, l, Len(d))
         IN  /\ x \in Seq(S) /\ Uniq(x) /\ Files(x) = {d[i] : i \in 1..k}
             /\ y \in Seq(S) /\ Uniq(y) /\ Files(y) = {d[i] : i \in l..Len(d)}
             /\ \A r \in Files(x), q \in Files(y) : r.file # q.file
<1> DEFINE x == SubSeq(d, 1, k)
           y == SubSeq(d, l, Len(d))
<1>0. /\ Len(d) \in Nat /\ k \in Nat /\ l \in Nat \ {0} /\ 1 \in Nat \ {0}
      /\ k <= Len(d) /\ 1 <= k + 1 /\ l <= Len(d) + 1 /\ Len(d) <= Len(d)
  OBVIOUS
<1>a. ASSUME NEW m \in Nat \ {0}, NEW n \in Nat, m <= n + 1, n <= Len(d)
      PROVE  /\ SubSeq(d, m, n) \in Seq(S) /\ Uniq(SubSeq(d, m, n))
             /\ Files(SubSeq(d, m, n)) = {d[i] : i \in m..n}
  BY <1>a, PartFiles
<1>1. x \in Seq(S) /\ Uniq(x) /\ Files(x) = {d[i] : i \in 1..k}
  BY <1>0, <1>a, Zenon
<1>2. y \in Seq(S) /\ Uniq(y) /\ Files(y) = {d[i] : i \in l..Len(d)}
  BY <1>0, <1>a, Zenon
<1> HIDE DEF x, y
<1>3. ASSUME NEW r \in Files(x), NEW q \in Files(y) PROVE r.file # q.file
  <2>1. PICK i \in 1..k : r = d[i]
    BY <1>1
  <2>2. PICK j \in l..Len(d) : q = d[j]
    BY <1>2
  <2>3. i \in 1..Len(d) /\ j \in 1..Len(d) /\ i # j
    BY <1>0
  <2> QED  BY <2>1, <2>2, <2>3 DEF Uniq
<1> QED  BY <1>1, <1>2, <1>3 DEF x, y

LEMMA LeastOf ==
  ASSUME NEW T \in SUBSET Nat, T # {}
  PROVE  Min(T) \in T /\ \A y \in T : Min(T) <= y
<1>1. PICK x \in T : \A y \in T : ~(<<y, x>> \in OpToRel(<, Nat))
  BY WFMin, NatLessThanWellFounded
<1>2. ASSUME NEW y \in T PROVE x <= y
  <2>1. ~(<<y, x>> \in OpToRel(<, Nat))
    BY <1>1
  <2>2. y \in Nat /\ x \in Nat
    OBVIOUS
  <2> QED  BY <2>1, <2>2 DEF OpToRel
<1> QED  BY <1>2 DEF Min

\* Others takes the file of the name away, and nothing else.
LEMMA OthersIs ==
  ASSUME NEW S, NEW d \in Seq(S), Uniq(d), NEW id
  PROVE  /\ Others(d, id) \in Seq(S) /\ Uniq(Others(d, id))
         /\ Files(Others(d, id)) = {r \in Files(d) : r.file # id}
<1> DEFINE I == {i \in 1..Len(d) : d[i].file = id}
<1>1. Others(d, id) = IF I # {} THEN RemoveAt(d, Min(I)) ELSE d
  BY Zenon DEF Others, RemoveFirstMatch, SelectInSeq
<1>2. CASE I = {}
  <2>1. Files(d) = {r \in Files(d) : r.file # id}
    BY <1>2 DEF Files
  <2> QED  BY <1>1, <1>2, <2>1
<1>3. CASE I # {}
  <2>0. I \in SUBSET Nat
    OBVIOUS
  <2>1. PICK k \in I : k = Min(I)
    <3> HIDE DEF I
    <3> QED  BY <1>3, <2>0, LeastOf
  <2>2. k \in 1..Len(d) /\ d[k].file = id
    BY <2>1
  <2> DEFINE x == SubSeq(d, 1, k - 1)
             y == SubSeq(d, k + 1, Len(d))
  <2>3. Others(d, id) = x \o y
    BY <1>1, <1>3, <2>1, Zenon DEF RemoveAt
  <2>4. k - 1 \in 0..Len(d) /\ k + 1 \in 1..(Len(d) + 1) /\ k - 1 < k + 1
    BY <2>2
  <2>a. ASSUME NEW m \in 0..Len(d), NEW n \in 1..(Len(d) + 1), m < n
        PROVE  /\ SubSeq(d, 1, m) \in Seq(S) /\ Uniq(SubSeq(d, 1, m))
               /\ Files(SubSeq(d, 1, m)) = {d[i] : i \in 1..m}
               /\ SubSeq(d, n, Len(d)) \in Seq(S) /\ Uniq(SubSeq(d, n, Len(d)))
               /\ Files(SubSeq(d, n, Len(d))) = {d[i] : i \in n..Len(d)}
               /\ \A r \in Files(SubSeq(d, 1, m)), q \in Files(SubSeq(d, n, Len(d))) :
                     r.file # q.file
    BY <2>a, Split
  <2>5. /\ x \in Seq(S) /\ Uniq(x) /\ Files(x) = {d[i] : i \in 1..(k - 1)}
        /\ y \in Seq(S) /\ Uniq(y) /\ Files(y) = {d[i] : i \in (k + 1)..Len(d)}
        /\ \A r \in Files(x), q \in Files(y) : r.file # q.file
    BY <2>4, <2>a, Zenon
  <2> HIDE DEF x, y
  <2>6. x \o y \in Seq(S) /\ Uniq(x \o y) /\ Files(x \o y) = Files(x) \cup Files(y)
    BY <2>5, JoinFiles, SMTT(30)
  <2>7. ASSUME NEW r PROVE r \in Files(x) \cup Files(y) <=> r \in Files(d) /\ r.file # id
    <3>1. ASSUME r \in Files(x) \cup Files(y) PROVE r \in Files(d) /\ r.file # id
      <4>1. PICK i \in 1..Len(d) : r = d[i] /\ i # k
        BY <2>2, <2>5, <3>1
      <4> QED  BY <2>2, <4>1 DEF Files, Uniq
    <3>2. ASSUME r \in Files(d), r.file # id PROVE r \in Files(x) \cup Files(y)
      <4>1. PICK i \in 1..Len(d) : r = d[i]
        BY <3>2 DEF Files
      <4>2. i \in 1..(k - 1) \/ i \in (k + 1)..Len(d)
        BY <2>2, <3>2, <4>1
      <4> QED  BY <2>5, <4>1, <4>2
    <3> QED  BY <3>1, <3>2
  <2> QED  BY <2>3, <2>6, <2>7
<1> QED  BY <1>2, <1>3

\* What Load finds is a file that bears the key; an id finds its own file.
LEMMA LoadIs ==
  ASSUME NEW d, Len(d) \in Nat, NEW key, Known(d, key)
  PROVE  /\ Load(d, key) \in Files(d)
         /\ key \in {Load(d, key).file, Load(d, key).name}
<1> DEFINE I == {i \in 1..Len(d) : key \in {d[i].file, d[i].name}}
<1>1. Matching(d, key) = IF I # {} THEN Min(I) ELSE 0
  BY Zenon DEF Matching, SelectInSeq
<1>2. I # {} /\ I \in SUBSET Nat
  BY <1>1 DEF Known
<1>3. Matching(d, key) \in I
  BY <1>1, <1>2, LeastOf
<1> QED  BY <1>3 DEF Load, Files

LEMMA KnownIs ==
  ASSUME NEW d, Len(d) \in Nat, NEW key, NEW r \in Files(d), key \in {r.file, r.name}
  PROVE  Known(d, key)
<1> DEFINE I == {i \in 1..Len(d) : key \in {d[i].file, d[i].name}}
<1>1. Matching(d, key) = IF I # {} THEN Min(I) ELSE 0
  BY Zenon DEF Matching, SelectInSeq
<1>2. I # {} /\ I \in SUBSET Nat
  BY DEF Files
<1>3. Matching(d, key) \in 1..Len(d)
  BY <1>1, <1>2, LeastOf
<1> QED  BY <1>3 DEF Known

\* What every file is: a session at rest, no longer than a save leaves it.
Kept(s, hu, ho) ==
    /\ s \in SessionRec /\ s.file \in {s.id, Copy}
    /\ Len(s.msgs) <= MaxSessionMessages
    /\ AtRest(s.msgs, s.id, hu, ho)

DirOK(d, hu, ho) ==
    d \in Seq(SessionRec) /\ Uniq(d) /\ \A r \in Files(d) : Kept(r, hu, ho)

LEMMA KeptMore ==
  ASSUME NEW s, NEW hu, NEW ho, NEW hu2, NEW ho2, Kept(s, hu, ho),
         hu \subseteq hu2, ho \subseteq ho2
  PROVE  Kept(s, hu2, ho2)
<1>1. AtRest(s.msgs, s.id, hu2, ho2)
  BY RestMore DEF Kept
<1> QED  BY <1>1 DEF Kept

LEMMA DirMore ==
  ASSUME NEW d, NEW hu, NEW ho, NEW hu2, NEW ho2, DirOK(d, hu, ho),
         hu \subseteq hu2, ho \subseteq ho2
  PROVE  DirOK(d, hu2, ho2)
BY KeptMore DEF DirOK

LEMMA OthersKeep ==
  ASSUME NEW d, NEW hu, NEW ho, NEW id, DirOK(d, hu, ho)
  PROVE  DirOK(Others(d, id), hu, ho)
BY OthersIs DEF DirOK

\* Save: the session is there as trimMessages leaves it, other files stay.
LEMMA SaveKeeps ==
  ASSUME NEW d, NEW s, NEW hu, NEW ho, NEW hu2, NEW ho2, DirOK(d, hu, ho),
         s.id \in IdSet, s.name \in Naming, AtRest(s.msgs, s.id, hu, ho),
         hu \cup Cut(s.msgs, s.id) \subseteq hu2, ho \subseteq ho2
  PROVE  /\ DirOK(Save(d, s), hu2, ho2)
         /\ \E r \in Files(Save(d, s)) : r.file = s.id /\ r.msgs = trimMessages(s.msgs)
         /\ \A r \in Files(d) : r.file # s.id => r \in Files(Save(d, s))
<1> DEFINE e == Session(s.id, s.name, trimMessages(s.msgs))
           o == Others(d, s.id)
<1>1. s.msgs \in Seq(Message)
  BY DEF AtRest, Sound
<1>2. trimMessages(s.msgs) \in Seq(Message) /\ Len(trimMessages(s.msgs)) <= MaxSessionMessages
  BY <1>1, Trimmed
<1>3. AtRest(trimMessages(s.msgs), s.id, hu2, ho2)
  BY RestTrim
<1>4. /\ e \in SessionRec /\ e.file = s.id /\ e.id = s.id /\ e.msgs = trimMessages(s.msgs)
  BY <1>2 DEF Session, SessionRec
<1>5. Kept(e, hu2, ho2)
  <2> HIDE DEF e
  <2> QED  BY <1>2, <1>3, <1>4 DEF Kept
<1>6. /\ o \in Seq(SessionRec) /\ Uniq(o) /\ Files(o) = {r \in Files(d) : r.file # s.id}
      /\ \A r \in Files(o) : Kept(r, hu2, ho2)
  <2>1. /\ o \in Seq(SessionRec) /\ Uniq(o) /\ Files(o) = {r \in Files(d) : r.file # s.id}
    BY OthersIs DEF DirOK
  <2>2. hu \subseteq hu2
    OBVIOUS
  <2> QED  BY <2>1, <2>2, KeptMore DEF DirOK
<1> HIDE DEF e, o
<1>7. <<e>> \in Seq(SessionRec) /\ Uniq(<<e>>) /\ Files(<<e>>) = {e}
  BY <1>4 DEF Uniq, Files
<1>8. /\ <<e>> \o o \in Seq(SessionRec) /\ Files(<<e>> \o o) = {e} \cup Files(o)
      /\ Uniq(<<e>> \o o)
  <2>1. PICK one : one = <<e>>
    OBVIOUS
  <2>2. one \in Seq(SessionRec) /\ Uniq(one) /\ Files(one) = {e}
    BY <1>7, <2>1
  <2>3. \A r \in Files(one), q \in Files(o) : r.file # q.file
    BY <1>4, <1>6, <2>2
  <2>4. one \o o \in Seq(SessionRec) /\ Files(one \o o) = {e} \cup Files(o) /\ Uniq(one \o o)
    BY <1>6, <2>2, <2>3, JoinFiles
  <2> QED  BY <2>1, <2>4
<1>9. Save(d, s) = <<e>> \o o
  BY DEF Save, e, o
<1> QED  BY <1>4, <1>5, <1>6, <1>8, <1>9 DEF DirOK

\* Export: one more file, the copy, or the copy is replaced.
LEMMA ExportKeeps ==
  ASSUME NEW d, NEW hu, NEW ho, NEW key, DirOK(d, hu, ho)
  PROVE  /\ DirOK(Export(d, key), hu, ho)
         /\ \A r \in Files(d) : r.file # Copy => r \in Files(Export(d, key))
<1> DEFINE k == Matching(d, key)
<1>0. d \in Seq(SessionRec) /\ Uniq(d) /\ Len(d) \in Nat
  BY DEF DirOK
<1>1. CASE k = 0
  BY <1>1 DEF Export
<1>2. CASE k # 0
  <2>1. k \in 1..Len(d)
    <3> DEFINE I == {i \in 1..Len(d) : key \in {d[i].file, d[i].name}}
    <3>1. k = IF I # {} THEN Min(I) ELSE 0
      BY Zenon DEF Matching, SelectInSeq
    <3>2. I # {} /\ I \in SUBSET Nat
      BY <1>2, <3>1
    <3> QED  BY <3>1, <3>2, LeastOf
  <2> DEFINE x == SubSeq(d, 1, k)
             y == SubSeq(d, k + 1, Len(d))
             c == [d[k] EXCEPT !.file = Copy]
             a == Others(x, Copy)
             b == Others(y, Copy)
  <2>2. Export(d, key) = a \o <<c>> \o b
    BY <1>2, Zenon DEF Export
  <2>3. k \in 0..Len(d) /\ k + 1 \in 1..(Len(d) + 1) /\ k < k + 1
    BY <2>1
  <2>4. /\ x \in Seq(SessionRec) /\ Uniq(x) /\ Files(x) = {d[i] : i \in 1..k}
        /\ y \in Seq(SessionRec) /\ Uniq(y) /\ Files(y) = {d[i] : i \in (k + 1)..Len(d)}
        /\ \A r \in Files(x), q \in Files(y) : r.file # q.file
    BY <1>0, <2>3, Split
  <2> HIDE DEF x, y
  <2>5. Files(x) \cup Files(y) = Files(d)
    <3>1. \A i \in 1..Len(d) : i \in 1..k \/ i \in (k + 1)..Len(d)
      BY <2>1
    <3>2. (1..k) \cup ((k + 1)..Len(d)) \subseteq 1..Len(d)
      BY <2>1
    <3>3. Files(d) = {d[i] : i \in 1..Len(d)}
      BY DEF Files
    <3> HIDE DEF k
    <3> QED  BY <2>4, <3>1, <3>2, <3>3
  <2>6. /\ a \in Seq(SessionRec) /\ Uniq(a) /\ Files(a) = {r \in Files(x) : r.file # Copy}
        /\ b \in Seq(SessionRec) /\ Uniq(b) /\ Files(b) = {r \in Files(y) : r.file # Copy}
    BY <2>4, OthersIs
  <2>7. Kept(c, hu, ho) /\ c \in SessionRec /\ c.file = Copy
    <3>1. PICK e \in SessionRec : e = d[k] /\ Kept(e, hu, ho)
      BY <2>1 DEF DirOK, Files
    <3>2. /\ [e EXCEPT !.file = Copy] \in SessionRec
          /\ [e EXCEPT !.file = Copy].file = Copy
          /\ [e EXCEPT !.file = Copy].id = e.id /\ [e EXCEPT !.file = Copy].msgs = e.msgs
      BY <3>1 DEF SessionRec
    <3>3. PICK q : q = [e EXCEPT !.file = Copy]
      OBVIOUS
    <3>4. Kept(q, hu, ho) /\ q \in SessionRec /\ q.file = Copy
      BY <3>1, <3>2, <3>3 DEF Kept
    <3> QED  BY <3>1, <3>3, <3>4
  <2> HIDE DEF a, b, c
  <2>8. <<c>> \in Seq(SessionRec) /\ Uniq(<<c>>) /\ Files(<<c>>) = {c}
    BY <2>7 DEF Uniq, Files
  <2>9. PICK one : one = <<c>>
    OBVIOUS
  <2> DEFINE ac == a \o one
  <2>10. /\ ac \in Seq(SessionRec) /\ Uniq(ac) /\ Files(ac) = Files(a) \cup {c}
    <3>1. \A r \in Files(a), q \in Files(one) : r.file # q.file
      BY <2>6, <2>7, <2>8, <2>9
    <3>2. one \in Seq(SessionRec) /\ Uniq(one) /\ Files(one) = {c}
      BY <2>8, <2>9
    <3> QED  BY <2>6, <3>1, <3>2, JoinFiles
  <2> HIDE DEF ac
  <2>11. \A r \in Files(ac), q \in Files(b) : r.file # q.file
    BY <2>4, <2>6, <2>7, <2>10
  <2>12. ac \o b \in Seq(SessionRec) /\ Uniq(ac \o b) /\ Files(ac \o b) = Files(ac) \cup Files(b)
    BY <2>6, <2>10, <2>11, JoinFiles
  <2>13. Export(d, key) = ac \o b
    BY <2>2, <2>9 DEF ac
  <2> QED  BY <2>5, <2>6, <2>7, <2>10, <2>12, <2>13 DEF DirOK
<1> QED  BY <1>1, <1>2

\* What is loaded may be saved again under its own id, and is not cut.
LEMMA LoadKept ==
  ASSUME NEW d, NEW hu, NEW ho, NEW key, DirOK(d, hu, ho), Known(d, key)
  PROVE  /\ Kept(Load(d, key), hu, ho) /\ Load(d, key) \in Files(d)
         /\ key \in {Load(d, key).file, Load(d, key).name}
         /\ Load(d, key).id \in IdSet /\ Load(d, key).name \in Naming
         /\ AtRest(Load(d, key).msgs, Load(d, key).id, hu, ho)
         /\ Cut(Load(d, key).msgs, Load(d, key).id) = {}
         /\ trimMessages(Load(d, key).msgs) = Load(d, key).msgs
<1>1. Load(d, key) \in Files(d) /\ key \in {Load(d, key).file, Load(d, key).name}
  BY LoadIs DEF DirOK
<1>2. PICK s : s = Load(d, key)
  OBVIOUS
<1>3. Kept(s, hu, ho)
  BY <1>1, <1>2 DEF DirOK
<1>4. s.id \in IdSet /\ s.name \in Naming /\ s.msgs \in Seq(Message)
  BY <1>3 DEF Kept, SessionRec
<1>5. AtRest(s.msgs, s.id, hu, ho) /\ Len(s.msgs) <= MaxSessionMessages
  BY <1>3 DEF Kept
<1>6. ~(Len(s.msgs) > MaxSessionMessages)
  BY <1>4, <1>5, TrimAssumption
<1>7. Cut(s.msgs, s.id) = {} /\ trimMessages(s.msgs) = s.msgs
  BY <1>5, <1>6 DEF Cut, trimMessages
<1> QED  BY <1>1, <1>2, <1>3, <1>4, <1>5, <1>7

\* An id names one file, which the session of that id was saved to.
LEMMA LoadOwn ==
  ASSUME NEW d, NEW hu, NEW ho, NEW id \in IdSet, DirOK(d, hu, ho)
  PROVE  /\ Known(d, id) => Load(d, id).file = id /\ Load(d, id).id = id
         /\ \A r \in Files(d) : r.file = id => Known(d, id) /\ Load(d, id) = r
<1>0. Uniq(d) /\ Len(d) \in Nat
  BY DEF DirOK
<1>1. ASSUME Known(d, id) PROVE Load(d, id).file = id /\ Load(d, id).id = id
  <2>1. PICK s : s = Load(d, id)
    OBVIOUS
  <2>2. Kept(s, hu, ho) /\ id \in {s.file, s.name}
    BY <1>1, <2>1, LoadKept
  <2>3. s.name \in Naming /\ s.file \in {s.id, Copy}
    BY <2>2 DEF Kept, SessionRec
  <2>4. id \notin Naming /\ id # Copy
    BY TuiAssumption DEF Naming
  <2> QED  BY <2>1, <2>2, <2>3, <2>4
<1>2. ASSUME NEW r \in Files(d), r.file = id PROVE Known(d, id) /\ Load(d, id) = r
  <2>1. Known(d, id)
    BY <1>0, <1>2, KnownIs
  <2>2. Load(d, id) \in Files(d) /\ Load(d, id).file = id
    BY <1>1, <2>1, LoadKept
  <2> QED  BY <1>0, <1>2, <2>1, <2>2 DEF Files, Uniq
<1> QED  BY <1>1, <1>2

------------------------------------------------------------------------------
(* The session.                                                            *)

TuiTypeOK ==
    /\ pc \in {"down", "panicked"} \cup Live
    /\ cur \in [id : IdSet \cup {"none"}, name : Naming \cup {"none"}]
    /\ stale \in BOOLEAN /\ fresh \in Nat

\* The directory.
DirInv == DirOK(disk, hurt, hollow)

\* The conversation, by what the process is doing.
TalkInv ==
    /\ LinesAnswered
    /\ pc = "panicked" => cur.id \in hollow
    /\ pc \in Live => cur.id \in IdSet /\ cur.name \in Naming /\ Sound(msgs, cur.id, hollow)
    /\ pc = "prompt" => AtRest(msgs, cur.id, hurt, hollow)
    /\ pc = "think" => Thinking(msgs, cur.id, hurt)
    /\ pc = "tools" => Calling(msgs, todo, cur.id, hurt)

\* A session of the given id and messages is in the directory.
Stored(d, id, ms) == \E r \in Files(d) : r.file = id /\ r.msgs = trimMessages(ms)

StoredInv == pc = "prompt" /\ ~stale => Stored(disk, cur.id, msgs)

TuiInv == TuiTypeOK /\ DirInv /\ TalkInv /\ StoredInv

LEMMA Lines ==
  ASSUME NEW ms, NEW id, NEW ho, Sound(ms, id, ho)
  PROVE  id \notin ho =>
           \A i \in 1..Len(ms) - 1 : ~(ms[i].role = "user" /\ ms[i + 1].role = "user")
BY DEF Sound

LEMMA TrimTwice ==
  ASSUME NEW ms \in Seq(Message)
  PROVE  trimMessages(trimMessages(ms)) = trimMessages(ms)
<1>1. PICK t : t = trimMessages(ms)
  OBVIOUS
<1>2. t \in Seq(Message) /\ Len(t) <= MaxSessionMessages
  BY <1>1, Trimmed
<1>3. trimMessages(t) = t
  BY <1>2 DEF trimMessages
<1> QED  BY <1>1, <1>3

\* The prompt waits again, for the same or another session.
LEMMA TalkRests ==
  ASSUME pc' = "prompt", cur'.id \in IdSet, cur'.name \in Naming,
         AtRest(msgs', cur'.id, hurt', hollow')
  PROVE  TalkInv'
<1>1. Sound(msgs', cur'.id, hollow')
  BY DEF AtRest
<1>2. LinesAnswered'
  BY <1>1, Lines DEF LinesAnswered
<1> QED  BY <1>1, <1>2 DEF TalkInv, Live

\* The conversation is left alone.
LEMMA TalkStays ==
  ASSUME TalkInv, UNCHANGED <<pc, msgs, cur, todo>>, hurt \subseteq hurt', hollow \subseteq hollow'
  PROVE  TalkInv'
<1>1. LinesAnswered' /\ (pc' = "panicked" => cur'.id \in hollow')
  BY DEF TalkInv, LinesAnswered
<1>2. pc' \in Live => cur'.id \in IdSet /\ cur'.name \in Naming /\ Sound(msgs', cur'.id, hollow')
  BY DEF TalkInv, Sound
<1>3. pc' = "prompt" => AtRest(msgs', cur'.id, hurt', hollow')
  BY RestMore DEF TalkInv
<1>4. pc' = "think" => Thinking(msgs', cur'.id, hurt')
  BY DEF TalkInv, Thinking
<1>5. pc' = "tools" => Calling(msgs', todo', cur'.id, hurt')
  BY DEF TalkInv, Calling
<1> QED  BY <1>1, <1>2, <1>3, <1>4, <1>5 DEF TalkInv

\* The process ends.
LEMMA TalkEnds ==
  ASSUME TalkInv, pc' = "down", UNCHANGED <<msgs, cur, hollow>>
  PROVE  TalkInv'
BY DEF TalkInv, LinesAnswered, Live

\* A tool returned.
LEMMA TalkReturns ==
  ASSUME TalkInv, Return, UNCHANGED hurt, hollow \subseteq hollow'
  PROVE  TalkInv' /\ pc' \in {"think", "tools"}
<1>1. /\ pc = "tools" /\ cur.id \in IdSet /\ cur.name \in Naming
      /\ Sound(msgs, cur.id, hollow) /\ Calling(msgs, todo, cur.id, hurt)
  BY DEF Return, TalkInv, Live
<1>2. /\ msgs' = Append(msgs, Msg("tool", cur.id)) /\ todo' = todo - 1 /\ cur' = cur
      /\ pc' = IF todo = 1 THEN "think" ELSE "tools"
  BY DEF Return
<1>3. /\ Sound(msgs', cur.id, hollow)
      /\ todo = 1 => Thinking(msgs', cur.id, hurt)
      /\ todo # 1 => Calling(msgs', todo', cur.id, hurt)
  BY <1>1, <1>2, ReturnCloses
<1>4. Sound(msgs', cur.id, hollow')
  BY <1>3 DEF Sound
<1>5. LinesAnswered'
  BY <1>2, <1>4, Lines DEF LinesAnswered
<1> QED  BY <1>1, <1>2, <1>3, <1>4, <1>5 DEF TalkInv, Live

\* The current conversation is saved.
LEMMA CurrentSaved ==
  ASSUME DirInv, TalkInv, pc = "prompt"
  PROVE  /\ DirOK(Save(disk, Current), hurt \cup Cut(msgs, cur.id), hollow)
         /\ Stored(Save(disk, Current), cur.id, msgs)
<1>1. PICK s : s = Current
  OBVIOUS
<1>2. s.id = cur.id /\ s.name = cur.name /\ s.msgs = msgs
  BY <1>1 DEF Current, Session
<1>3. s.id \in IdSet /\ s.name \in Naming /\ AtRest(s.msgs, s.id, hurt, hollow)
  BY <1>2 DEF TalkInv, Live
<1>4. /\ DirOK(Save(disk, s), hurt \cup Cut(s.msgs, s.id), hollow)
      /\ \E r \in Files(Save(disk, s)) : r.file = s.id /\ r.msgs = trimMessages(s.msgs)
  BY <1>3, SaveKeeps DEF DirInv
<1> QED  BY <1>1, <1>2, <1>4 DEF Stored

\* A turn ends with a conversation at rest.
LEMMA TurnEnds ==
  ASSUME DirInv, TalkInv, pc = "think", NEW ms, NEW hu, EndTurn(ms),
         hurt' = hu \cup Cut(ms, cur.id), hurt \subseteq hu, AtRest(ms, cur.id, hu, hollow)
  PROVE  DirInv' /\ TalkInv' /\ StoredInv'
<1>1. /\ pc' = "prompt" /\ msgs' = ms /\ cur' = cur /\ hollow' = hollow
      /\ disk' = Save(disk, Session(cur.id, cur.name, ms))
  BY DEF EndTurn, still
<1>2. cur.id \in IdSet /\ cur.name \in Naming
  BY DEF TalkInv, Live
<1>3. PICK s : s = Session(cur.id, cur.name, ms)
  OBVIOUS
<1>4. s.id = cur.id /\ s.name = cur.name /\ s.msgs = ms
  BY <1>3 DEF Session
<1>5. DirOK(disk, hu, hollow)
  BY DirMore DEF DirInv
<1>6. /\ DirOK(Save(disk, s), hurt', hollow)
      /\ \E r \in Files(Save(disk, s)) : r.file = s.id /\ r.msgs = trimMessages(s.msgs)
  BY <1>2, <1>4, <1>5, SaveKeeps
<1>7. DirInv' /\ StoredInv'
  BY <1>1, <1>3, <1>4, <1>6 DEF DirInv, StoredInv, Stored
<1>8. AtRest(msgs', cur'.id, hurt', hollow')
  BY <1>1, RestMore
<1>9. TalkInv'
  BY <1>1, <1>2, <1>8, TalkRests
<1> QED  BY <1>7, <1>9

LEMMA StartStep ==
  ASSUME TuiInv, NEW key, NEW isTerminal, newTUI(key, isTerminal)
  PROVE  DirInv' /\ TalkInv' /\ StoredInv'
<1> DEFINE loaded == Known(disk, key)
           new == Session(Ids[fresh + 1], DefaultName, <<>>)
<1>1. PICK s : s = IF loaded THEN Load(disk, key) ELSE new
  OBVIOUS
<1>2. PICK ms : ms = Append(s.msgs, Msg("sys", s.id))
  OBVIOUS
<1>3. /\ loaded \/ fresh < Len(Ids)
      /\ pc' = "prompt" /\ cur' = [id |-> s.id, name |-> s.name]
      /\ disk' = Save(disk, [s EXCEPT !.msgs = ms])
      /\ msgs' = trimMessages(ms)
      /\ hurt' = hurt \cup Cut(ms, s.id) /\ hollow' = hollow
  BY <1>1, <1>2, Zenon DEF newTUI
<1>4. s \in SessionRec /\ AtRest(ms, s.id, hurt, hollow)
  <2>1. CASE loaded
    <3>1. Kept(s, hurt, hollow)
      BY <1>1, <2>1, LoadKept DEF TuiInv, DirInv
    <3>2. s \in SessionRec /\ s.id \in IdSet /\ AtRest(s.msgs, s.id, hurt, hollow)
      BY <3>1 DEF Kept, SessionRec
    <3> QED  BY <1>2, <3>2, RestAppendSys
  <2>2. CASE ~loaded
    <3>1. fresh + 1 \in 1..Len(Ids) /\ Ids \in Seq(IdSet)
      BY <1>3, <2>2, TuiAssumption DEF TuiInv, TuiTypeOK
    <3>2. Ids[fresh + 1] \in IdSet
      BY <3>1, ElementOfSeq
    <3>3. PICK e \in Seq(Message) : e = <<>>
      BY EmptySeq
    <3>4. PICK i \in IdSet : i = Ids[fresh + 1]
      BY <3>2
    <3>5. s = Session(i, DefaultName, e)
      BY <1>1, <2>2, <3>3, <3>4
    <3>6. s \in SessionRec /\ s.id = i /\ s.msgs = e
      BY <3>5 DEF Session, SessionRec, Naming
    <3>7. PICK m \in Message : m = Msg("sys", i)
      BY MsgIs DEF Role
    <3>8. ms = <<m>>
      BY <1>2, <3>3, <3>6, <3>7
    <3>9. AtRest(<<m>>, i, hurt, hollow)
      BY <3>7, RestSys
    <3> QED  BY <3>6, <3>8, <3>9
  <2> QED  BY <2>1, <2>2
<1>5. PICK q : q = [s EXCEPT !.msgs = ms]
  OBVIOUS
<1>6. q.id = s.id /\ q.name = s.name /\ q.msgs = ms /\ s.id \in IdSet /\ s.name \in Naming
  BY <1>4, <1>5 DEF SessionRec
<1>7. /\ DirOK(Save(disk, q), hurt', hollow')
      /\ \E r \in Files(Save(disk, q)) : r.file = q.id /\ r.msgs = trimMessages(q.msgs)
  BY <1>3, <1>4, <1>6, SaveKeeps DEF TuiInv, DirInv
<1>8. DirInv'
  BY <1>3, <1>5, <1>7 DEF DirInv
<1>9. ms \in Seq(Message)
  BY <1>4 DEF AtRest, Sound
<1>10. AtRest(trimMessages(ms), s.id, hurt', hollow')
  BY <1>3, <1>4, RestTrim
<1>11. cur'.id = s.id /\ cur'.name = s.name
  BY <1>3
<1>12. TalkInv'
  BY <1>3, <1>6, <1>10, <1>11, TalkRests
<1>13. StoredInv'
  BY <1>3, <1>5, <1>6, <1>7, <1>9, <1>11, TrimTwice DEF StoredInv, Stored
<1> QED  BY <1>8, <1>12, <1>13

LEMMA CrashStep ==
  ASSUME TuiInv, Crash
  PROVE  DirInv' /\ TalkInv' /\ StoredInv'
<1>1. /\ pc' = "down" /\ UNCHANGED <<msgs, cur, hurt, hollow>>
      /\ disk' = disk \/ disk' = Others(disk, cur.id)
  BY DEF Crash, talk
<1>2. DirInv'
  BY <1>1, OthersKeep DEF TuiInv, DirInv
<1>3. TalkInv' /\ StoredInv'
  BY <1>1, TalkEnds DEF TuiInv, StoredInv
<1> QED  BY <1>2, <1>3

\* Commands that end the process or change nothing of the session.
LEMMA EndStep ==
  ASSUME TuiInv, Exit \/ Cancel \/ Blank
  PROVE  DirInv' /\ TalkInv' /\ StoredInv'
<1>0. pc = "prompt"
  BY DEF Exit, Cancel, Blank, Reads
<1>1. CASE Exit
  <2>1. /\ pc' = "down" /\ UNCHANGED <<msgs, cur, hollow>>
        /\ disk' = Save(disk, Current) /\ hurt' = hurt \cup Cut(msgs, cur.id)
    BY <1>1 DEF Exit, saveCurrentSession, talk, still
  <2> QED  BY <1>0, <2>1, CurrentSaved, TalkEnds DEF TuiInv, DirInv, StoredInv
<1>2. CASE Cancel
  <2>1. pc' = "down" /\ UNCHANGED <<msgs, cur, hollow, hurt, disk>>
    BY <1>2 DEF Cancel, talk, still
  <2> QED  BY <2>1, TalkEnds DEF TuiInv, DirInv, StoredInv
<1>3. CASE Blank
  <2>1. UNCHANGED <<pc, msgs, cur, todo, hollow, hurt, disk, stale>>
    BY <1>3 DEF Blank, talk, still
  <2> QED  BY <2>1, TalkStays DEF TuiInv, DirInv, StoredInv
<1> QED  BY <1>1, <1>2, <1>3

LEMMA SessionStep ==
  ASSUME TuiInv, NEW key, SessionCmd(key)
  PROVE  DirInv' /\ TalkInv' /\ StoredInv'
<1>1. /\ pc = "prompt" /\ pc' = pc /\ UNCHANGED <<todo, hollow>>
      /\ disk' = Save(disk, Current) /\ hurt' = hurt \cup Cut(msgs, cur.id)
      /\ stale' = (Known(disk', key) /\ Load(disk', key).file = Copy)
      /\ IF Known(disk', key) THEN SwitchTo(Load(disk', key)) ELSE UNCHANGED <<cur, msgs>>
  BY DEF SessionCmd, Reads, still
<1>2. DirOK(disk', hurt', hollow') /\ Stored(disk', cur.id, msgs)
  BY <1>1, CurrentSaved DEF TuiInv
<1>3. DirInv'
  BY <1>2 DEF DirInv
<1>4. CASE Known(disk', key)
  <2>1. PICK s : s = Load(disk', key)
    OBVIOUS
  <2>2. /\ Kept(s, hurt', hollow') /\ s \in Files(disk')
        /\ s.id \in IdSet /\ s.name \in Naming
        /\ AtRest(s.msgs, s.id, hurt', hollow') /\ trimMessages(s.msgs) = s.msgs
    BY <1>2, <1>4, <2>1, LoadKept
  <2>3. cur' = [id |-> s.id, name |-> s.name] /\ msgs' = s.msgs
    BY <1>1, <1>4, <2>1 DEF SwitchTo
  <2>4. cur'.id = s.id /\ cur'.name = s.name
    BY <2>3
  <2>5. TalkInv'
    BY <1>1, <2>2, <2>3, <2>4, TalkRests
  <2>6. ASSUME ~stale' PROVE Stored(disk', cur'.id, msgs')
    <3>1. s.file = s.id
      BY <1>1, <1>4, <2>1, <2>2, <2>6 DEF Kept
    <3> QED  BY <2>2, <2>3, <2>4, <3>1 DEF Stored
  <2> QED  BY <1>3, <2>5, <2>6 DEF StoredInv
<1>5. CASE ~Known(disk', key)
  <2>1. UNCHANGED <<cur, msgs>>
    BY <1>1, <1>5
  <2>2. TalkInv'
    BY <1>1, <2>1, TalkStays DEF TuiInv
  <2> QED  BY <1>2, <1>3, <2>1, <2>2 DEF StoredInv
<1> QED  BY <1>4, <1>5

LEMMA NewStep ==
  ASSUME TuiInv, NEW name \in Names, NewCmd(name)
  PROVE  DirInv' /\ TalkInv' /\ StoredInv'
<1>1. pc = "prompt" /\ fresh < Len(Ids) /\ UNCHANGED <<todo, hollow>>
  BY DEF NewCmd, Reads, still
<1>2. /\ DirOK(Save(disk, Current), hurt \cup Cut(msgs, cur.id), hollow)
      /\ Stored(Save(disk, Current), cur.id, msgs)
  BY <1>1, CurrentSaved DEF TuiInv
<1>3. CASE msgs = <<>>
  <2>1. /\ pc' = "panicked" /\ UNCHANGED <<msgs, cur>>
        /\ disk' = Save(disk, Current) /\ hurt' = hurt \cup Cut(msgs, cur.id)
    BY <1>3 DEF NewCmd, saveCurrentSession, talk
  <2>2. cur.id \in hollow
    <3>1. Sound(msgs, cur.id, hollow) /\ Len(msgs) = 0
      BY <1>1, <1>3, EmptySeq DEF TuiInv, TalkInv, Live
    <3> QED  BY <3>1 DEF Sound
  <2>3. TalkInv'
    BY <1>1, <2>1, <2>2 DEF TuiInv, TalkInv, LinesAnswered, Live
  <2> QED  BY <1>1, <1>2, <2>1, <2>3 DEF DirInv, StoredInv
<1>4. CASE msgs # <<>>
  <2>1. /\ fresh' = fresh + 1 /\ pc' = pc
        /\ cur' = [id |-> Ids[fresh'], name |-> name]
        /\ msgs' = <<Msg("sys", cur'.id)>>
        /\ disk' = Save(Save(disk, Current), Session(cur'.id, name, msgs'))
        /\ hurt' = hurt \cup Cut(msgs, cur.id)
    BY <1>4 DEF NewCmd
  <2>2. fresh' \in 1..Len(Ids) /\ Ids \in Seq(IdSet)
    BY <1>1, <2>1, TuiAssumption DEF TuiInv, TuiTypeOK
  <2>3. cur'.id \in IdSet /\ cur'.name = name /\ name \in Naming
    BY <2>1, <2>2, ElementOfSeq DEF Naming
  <2>4. AtRest(msgs', cur'.id, hurt', hollow)
    BY <2>1, <2>3, RestSys
  <2>5. TalkInv'
    BY <1>1, <2>1, <2>3, <2>4, TalkRests
  <2>6. PICK s : s = Session(cur'.id, name, msgs')
    OBVIOUS
  <2>7. s.id = cur'.id /\ s.name = name /\ s.msgs = msgs'
    BY <2>6 DEF Session
  <2>8. Cut(msgs', cur'.id) = {}
    <3>1. Len(msgs') = 1
      BY <2>1
    <3> QED  BY <3>1, TrimAssumption DEF Cut
  <2>9. PICK d : d = Save(disk, Current)
    OBVIOUS
  <2>10. /\ DirOK(Save(d, s), hurt', hollow')
         /\ \E r \in Files(Save(d, s)) : r.file = s.id /\ r.msgs = trimMessages(s.msgs)
    <3>1. DirOK(d, hurt', hollow)
      BY <1>2, <2>1, <2>9
    <3>2. s.id \in IdSet /\ s.name \in Naming /\ AtRest(s.msgs, s.id, hurt', hollow)
      BY <2>3, <2>4, <2>7
    <3>3. hurt' \cup Cut(s.msgs, s.id) \subseteq hurt' /\ hollow \subseteq hollow'
      BY <1>1, <2>7, <2>8
    <3> QED  BY <3>1, <3>2, <3>3, SaveKeeps
  <2> QED  BY <2>1, <2>5, <2>6, <2>7, <2>9, <2>10 DEF DirInv, StoredInv, Stored
<1> QED  BY <1>3, <1>4

LEMMA RenameStep ==
  ASSUME TuiInv, NEW name \in Names, RenameCmd(name)
  PROVE  DirInv' /\ TalkInv' /\ StoredInv'
<1>1. /\ pc = "prompt" /\ UNCHANGED <<pc, msgs, todo, hollow, hurt, stale>>
      /\ disk' = Rename(disk, cur.id, name)
      /\ cur' = IF Known(disk, cur.id) THEN [cur EXCEPT !.name = name] ELSE cur
  BY DEF RenameCmd, Reads, still
<1>2. DirOK(disk, hurt, hollow) /\ cur.id \in IdSet /\ AtRest(msgs, cur.id, hurt, hollow)
  BY <1>1 DEF TuiInv, DirInv, TalkInv, Live
<1>c. \A n : [cur EXCEPT !.name = n].id = cur.id /\ [cur EXCEPT !.name = n].name = n
  BY DEF TuiInv, TuiTypeOK
<1>3. CASE Known(disk, cur.id)
  <2>1. PICK s : s = Load(disk, cur.id)
    OBVIOUS
  <2>2. /\ Kept(s, hurt, hollow) /\ s.id = cur.id /\ AtRest(s.msgs, s.id, hurt, hollow)
        /\ Cut(s.msgs, s.id) = {} /\ trimMessages(s.msgs) = s.msgs
    BY <1>2, <1>3, <2>1, LoadKept, LoadOwn
  <2>3. PICK q : q = [s EXCEPT !.name = name]
    OBVIOUS
  <2>4. q.id = s.id /\ q.name = name /\ q.msgs = s.msgs
    BY <2>2, <2>3 DEF Kept, SessionRec
  <2>5. disk' = Save(disk, q)
    BY <1>1, <1>3, <2>1, <2>3 DEF Rename
  <2>6. name \in Naming
    BY DEF Naming
  <2>7. /\ DirOK(Save(disk, q), hurt', hollow')
        /\ \E r \in Files(Save(disk, q)) : r.file = q.id /\ r.msgs = trimMessages(q.msgs)
    <3>1. q.id \in IdSet /\ q.name \in Naming /\ AtRest(q.msgs, q.id, hurt, hollow)
      BY <1>2, <2>2, <2>4, <2>6
    <3>2. hurt \cup Cut(q.msgs, q.id) \subseteq hurt' /\ hollow \subseteq hollow'
      BY <1>1, <2>2, <2>4
    <3> QED  BY <1>2, <3>1, <3>2, SaveKeeps
  <2>8. cur'.id = cur.id /\ cur'.name \in Naming
    <3>1. cur' = [cur EXCEPT !.name = name]
      BY <1>1, <1>3
    <3> QED  BY <1>c, <2>6, <3>1
  <2>9. TalkInv'
    BY <1>1, <1>2, <2>8, TalkRests
  <2>10. ASSUME ~stale' PROVE Stored(disk', cur'.id, msgs')
    <3>1. PICK r \in Files(disk) : r.file = cur.id /\ r.msgs = trimMessages(msgs)
      BY <1>1, <2>10 DEF TuiInv, StoredInv, Stored
    <3>2. r = s
      BY <1>2, <2>1, <3>1, LoadOwn
    <3> QED  BY <1>1, <2>2, <2>4, <2>5, <2>7, <2>8, <3>1, <3>2 DEF Stored
  <2> QED  BY <2>5, <2>7, <2>9, <2>10 DEF DirInv, StoredInv
<1>4. CASE ~Known(disk, cur.id)
  <2>1. UNCHANGED <<disk, cur>>
    BY <1>1, <1>4 DEF Rename
  <2> QED  BY <1>1, <2>1, TalkStays DEF TuiInv, DirInv, StoredInv
<1> QED  BY <1>3, <1>4

LEMMA DeleteStep ==
  ASSUME TuiInv, NEW key, DeleteCmd(key)
  PROVE  DirInv' /\ TalkInv' /\ StoredInv'
<1>1. /\ pc = "prompt" /\ UNCHANGED <<pc, msgs, cur, todo, hollow, hurt>>
      /\ disk' = IF key \in {cur.id, cur.name} THEN disk ELSE Delete(disk, key)
      /\ stale' = (stale \/ (disk' # disk /\ Load(disk, key).id = cur.id))
  BY DEF DeleteCmd, Reads, still, talk
<1>2. disk' = disk \/ disk' = Others(disk, Load(disk, key).id)
  BY <1>1 DEF Delete
<1>3. DirOK(disk, hurt, hollow)
  BY DEF TuiInv, DirInv
<1>4. DirInv' /\ TalkInv'
  BY <1>1, <1>2, <1>3, OthersKeep, TalkStays DEF TuiInv, DirInv
<1>5. ASSUME ~stale' PROVE Stored(disk', cur'.id, msgs')
  <2>1. Stored(disk, cur.id, msgs)
    BY <1>1, <1>5 DEF TuiInv, StoredInv
  <2>2. CASE disk' = disk
    BY <1>1, <2>1, <2>2
  <2>3. CASE disk' # disk
    <3>1. PICK i : i = Load(disk, key).id /\ i # cur.id /\ disk' = Others(disk, i)
      BY <1>1, <1>2, <1>5, <2>3
    <3>2. Files(disk') = {r \in Files(disk) : r.file # i}
      BY <1>3, <3>1, OthersIs DEF DirOK
    <3> QED  BY <1>1, <2>1, <3>1, <3>2 DEF Stored
  <2> QED  BY <2>2, <2>3
<1> QED  BY <1>4, <1>5 DEF StoredInv

LEMMA ClearStep ==
  ASSUME TuiInv, ClearCmd
  PROVE  DirInv' /\ TalkInv' /\ StoredInv'
<1>1. pc = "prompt" /\ UNCHANGED <<cur, todo, hollow, hurt>>
  BY DEF ClearCmd, Reads, still
<1>2. /\ DirOK(disk, hurt, hollow) /\ cur.id \in IdSet /\ cur.name \in Naming
      /\ AtRest(msgs, cur.id, hurt, hollow)
  BY <1>1 DEF TuiInv, DirInv, TalkInv, Live
<1>3. CASE msgs = <<>>
  <2>1. pc' = "panicked" /\ UNCHANGED <<msgs, disk>>
    BY <1>3 DEF ClearCmd
  <2>2. cur.id \in hollow
    BY <1>2, <1>3, EmptySeq DEF AtRest, Sound
  <2>3. TalkInv'
    BY <1>1, <2>1, <2>2 DEF TuiInv, TalkInv, LinesAnswered, Live
  <2> QED  BY <1>1, <1>2, <2>1, <2>3 DEF DirInv, StoredInv
<1>4. CASE msgs # <<>>
  <2>1. /\ msgs' = <<msgs[1]>> /\ pc' = pc
        /\ disk' = Save(disk, Session(cur.id, cur.name, msgs'))
    BY <1>4 DEF ClearCmd
  <2>2. Len(msgs) > 0
    BY <1>2, <1>4 DEF AtRest, Sound
  <2>3. AtRest(msgs', cur.id, hurt, hollow)
    BY <1>2, <2>1, <2>2, RestFirst
  <2>4. TalkInv'
    BY <1>1, <1>2, <2>1, <2>3, TalkRests
  <2>5. PICK s : s = Session(cur.id, cur.name, msgs')
    OBVIOUS
  <2>6. s.id = cur.id /\ s.name = cur.name /\ s.msgs = msgs'
    BY <2>5 DEF Session
  <2>7. Cut(msgs', cur.id) = {}
    <3>1. Len(msgs') = 1
      BY <2>1
    <3> QED  BY <3>1, TrimAssumption DEF Cut
  <2>8. /\ DirOK(Save(disk, s), hurt', hollow')
        /\ \E r \in Files(Save(disk, s)) : r.file = s.id /\ r.msgs = trimMessages(s.msgs)
    <3>1. s.id \in IdSet /\ s.name \in Naming /\ AtRest(s.msgs, s.id, hurt, hollow)
      BY <1>2, <2>3, <2>6
    <3>2. hurt \cup Cut(s.msgs, s.id) \subseteq hurt' /\ hollow \subseteq hollow'
      BY <1>1, <2>6, <2>7
    <3> QED  BY <1>2, <3>1, <3>2, SaveKeeps
  <2> QED  BY <1>1, <2>1, <2>4, <2>5, <2>6, <2>8 DEF DirInv, StoredInv, Stored
<1> QED  BY <1>3, <1>4

\* /session-export and session_export; the current session's file stays.
LEMMA ExportStep ==
  ASSUME TuiInv, NEW key, ExportTo(key), UNCHANGED <<hurt, hollow>>
  PROVE  DirInv' /\ (Stored(disk, cur.id, msgs) /\ cur.id \in IdSet => Stored(disk', cur.id, msgs))
<1>1. disk' = Export(disk, key) /\ DirOK(disk, hurt, hollow)
  BY DEF ExportTo, TuiInv, DirInv
<1>2. DirOK(disk', hurt', hollow') /\ \A r \in Files(disk) : r.file # Copy => r \in Files(disk')
  BY <1>1, ExportKeeps
<1>3. cur.id \in IdSet => cur.id # Copy
  BY TuiAssumption
<1> QED  BY <1>2, <1>3 DEF DirInv, Stored

LEMMA ImportStep ==
  ASSUME TuiInv, ImportFrom(Copy), UNCHANGED <<hurt, hollow>>
  PROVE  DirInv' /\ (Stored(disk, cur.id, msgs) /\ ~stale' => Stored(disk', cur.id, msgs))
<1>1. DirOK(disk, hurt, hollow)
  BY DEF TuiInv, DirInv
<1>2. CASE Known(disk, Copy)
  <2>1. PICK s : s = Load(disk, Copy)
    OBVIOUS
  <2>2. /\ s.id \in IdSet /\ s.name \in Naming /\ AtRest(s.msgs, s.id, hurt, hollow)
        /\ Cut(s.msgs, s.id) = {}
    BY <1>1, <1>2, <2>1, LoadKept
  <2>3. disk' = Save(disk, s) /\ (~stale' => s.id # cur.id)
    BY <1>2, <2>1 DEF ImportFrom, Import
  <2>4. /\ DirOK(Save(disk, s), hurt', hollow')
        /\ \A r \in Files(disk) : r.file # s.id => r \in Files(Save(disk, s))
    <3>1. hurt \cup Cut(s.msgs, s.id) \subseteq hurt' /\ hollow \subseteq hollow'
      BY <2>2
    <3> QED  BY <1>1, <2>2, <3>1, SaveKeeps
  <2> QED  BY <2>3, <2>4 DEF DirInv, Stored
<1>3. CASE ~Known(disk, Copy)
  BY <1>1, <1>3 DEF ImportFrom, DirInv
<1> QED  BY <1>2, <1>3

\* /session-export, /session-import and the CLI shortcuts.
LEMMA FileCommandStep ==
  ASSUME TuiInv, \/ \E key \in Keys : ExportCmd(key)
                 \/ ImportCmd
                 \/ \E sub \in Aliases \cup {"init", "status"} : runCli(sub)
  PROVE  DirInv' /\ TalkInv' /\ StoredInv'
<1>1. CASE \E key \in Keys : ExportCmd(key)
  <2>1. PICK key : ExportCmd(key)
    BY <1>1
  <2>2. pc = "prompt" /\ ExportTo(key) /\ UNCHANGED <<pc, msgs, cur, todo, hollow, hurt, stale>>
    BY <2>1 DEF ExportCmd, ExportTo, Reads, talk, still
  <2>3. TalkInv'
    BY <2>2, TalkStays DEF TuiInv
  <2>4. cur.id \in IdSet
    BY <2>2 DEF TuiInv, TalkInv, Live
  <2>5. DirInv' /\ (Stored(disk, cur.id, msgs) /\ cur.id \in IdSet => Stored(disk', cur.id, msgs))
    BY <2>2, ExportStep
  <2> QED  BY <2>2, <2>3, <2>4, <2>5 DEF TuiInv, StoredInv
<1>2. CASE ImportCmd
  <2>1. /\ pc = "prompt" /\ ImportFrom(Copy) /\ UNCHANGED <<pc, msgs, cur, todo, hollow, hurt>>
        /\ (~stale' => ~stale)
    BY <1>2 DEF ImportCmd, ImportFrom, Reads, talk, still
  <2>2. TalkInv'
    BY <2>1, TalkStays DEF TuiInv
  <2>3. DirInv' /\ (Stored(disk, cur.id, msgs) /\ ~stale' => Stored(disk', cur.id, msgs))
    BY <2>1, ImportStep
  <2> QED  BY <2>1, <2>2, <2>3 DEF TuiInv, StoredInv
<1>3. CASE \E sub \in Aliases \cup {"init", "status"} : runCli(sub)
  <2>1. UNCHANGED <<pc, msgs, cur, todo, hollow, hurt, disk, stale>>
    BY <1>3 DEF runCli, talk
  <2> QED  BY <2>1, TalkStays DEF TuiInv, DirInv, StoredInv
<1> QED  BY <1>1, <1>2, <1>3

\* A line of the user, and a response that is retried.
LEMMA ThinkStep ==
  ASSUME TuiInv, Chat \/ Retry
  PROVE  DirInv' /\ TalkInv' /\ StoredInv'
<1>1. CASE Chat
  <2>1. /\ pc = "prompt" /\ pc' = "think" /\ msgs' = Append(msgs, Msg("user", cur.id))
        /\ UNCHANGED <<cur, disk, hurt, hollow>>
    BY <1>1 DEF Chat, Reads, files, ghosts
  <2>2. cur.id \in IdSet /\ cur.name \in Naming /\ AtRest(msgs, cur.id, hurt, hollow)
    BY <2>1 DEF TuiInv, TalkInv, Live
  <2>3. Sound(msgs', cur.id, hollow) /\ Thinking(msgs', cur.id, hurt)
    BY <2>1, <2>2, LineThinks
  <2>4. LinesAnswered'
    BY <2>1, <2>3, Lines DEF LinesAnswered
  <2>5. TalkInv'
    BY <2>1, <2>2, <2>3, <2>4 DEF TalkInv, Live
  <2> QED  BY <2>1, <2>5 DEF TuiInv, DirInv, StoredInv
<1>2. CASE Retry
  <2>1. UNCHANGED <<pc, msgs, cur, todo, disk, hurt, hollow, stale>>
    BY <1>2 DEF Retry, talk, files, ghosts
  <2> QED  BY <2>1, TalkStays DEF TuiInv, DirInv, StoredInv
<1> QED  BY <1>1, <1>2

\* A response that ends the turn or asks for tools, and a failure.
LEMMA ResponseStep ==
  ASSUME TuiInv, Answer \/ Fail \/ \E k \in 1..2 : CallTools(k)
  PROVE  DirInv' /\ TalkInv' /\ StoredInv'
<1>0. /\ pc = "think" /\ cur.id \in IdSet /\ cur.name \in Naming /\ DirInv /\ TalkInv
      /\ Sound(msgs, cur.id, hollow) /\ Thinking(msgs, cur.id, hurt)
  BY DEF Answer, Fail, CallTools, TuiInv, TalkInv, Live
<1>1. CASE Answer
  <2> DEFINE ms == Append(msgs, Msg("asst", cur.id))
  <2>1. EndTurn(ms) /\ msgs' = ms /\ hurt' = hurt \cup Cut(ms, cur.id)
    BY <1>1 DEF Answer, EndTurn
  <2>2. AtRest(ms, cur.id, hurt, hollow)
    BY <1>0, AnswerRests
  <2> HIDE DEF ms
  <2> QED  BY <1>0, <2>1, <2>2, TurnEnds
<1>2. CASE Fail
  <2> DEFINE ms == Front(msgs)
             hu == hurt \cup (IF msgs[Len(msgs)].role = "tool" THEN {cur.id} ELSE {})
  <2>1. EndTurn(ms) /\ hurt' = hu \cup Cut(ms, cur.id)
    <3>1. EndTurn(ms) /\ msgs' = ms
      BY <1>2 DEF Fail, EndTurn, takeBack
    <3>2. hurt' = hurt \cup Cut(msgs', cur.id)
                     \cup (IF msgs[Len(msgs)].role = "tool" THEN {cur.id} ELSE {})
      BY <1>2 DEF Fail, Last
    <3> HIDE DEF ms
    <3> QED  BY <3>1, <3>2
  <2>2. hurt \subseteq hu /\ (msgs[Len(msgs)].role = "tool" => cur.id \in hu)
    OBVIOUS
  <2> HIDE DEF hu
  <2>3. AtRest(ms, cur.id, hu, hollow)
    BY <1>0, <2>2, TakeBackRests
  <2> HIDE DEF ms
  <2> QED  BY <1>0, <2>1, <2>2, <2>3, TurnEnds
<1>3. CASE \E k \in 1..2 : CallTools(k)
  <2>1. PICK k \in 1..2 : CallTools(k)
    BY <1>3
  <2>2. /\ pc' = "tools" /\ todo' = k /\ UNCHANGED <<cur, disk, hurt, hollow>>
        /\ msgs' = Append(msgs, Msg(IF k = 1 THEN "call1" ELSE "call2", cur.id))
    BY <2>1 DEF CallTools, files, ghosts
  <2>3. Sound(msgs', cur.id, hollow) /\ Calling(msgs', k, cur.id, hurt)
    BY <1>0, <2>2, CallsOpen
  <2>4. LinesAnswered'
    BY <2>2, <2>3, Lines DEF LinesAnswered
  <2>5. TalkInv'
    BY <1>0, <2>2, <2>3, <2>4 DEF TalkInv, Live
  <2> QED  BY <1>0, <2>2, <2>5 DEF DirInv, StoredInv
<1> QED  BY <1>1, <1>2, <1>3

\* Tools that leave the sessions alone.
QuietTool ==
    \/ Look \/ ask_human \/ remember \/ init
    \/ \E a \in Aliases, got \in {"part", "full"} : file_copy(a, got) \/ run_remote(a, got)
    \/ \E yaml \in {"broken", "loads", "valid"} : update_config(yaml)
    \/ \E b \in BOOLEAN : gen_config(b) \/ switch_group(b)

LEMMA QuietStep ==
  ASSUME TuiInv, QuietTool
  PROVE  DirInv' /\ TalkInv' /\ StoredInv'
<1>1. Return /\ UNCHANGED <<disk, hurt, hollow>>
  BY DEF QuietTool, Look, ask_human, remember, init, file_copy, run_remote, update_config,
         gen_config, switch_group, files, ghosts
<1>2. TalkInv' /\ pc' \in {"think", "tools"}
  BY <1>1, TalkReturns DEF TuiInv
<1> QED  BY <1>1, <1>2 DEF TuiInv, DirInv, StoredInv

LEMMA SessionToolStep ==
  ASSUME TuiInv, \/ \E name \in Names : session_save(name) \/ session_export(name)
                 \/ session_import
  PROVE  DirInv' /\ TalkInv' /\ StoredInv'
<1>0. DirOK(disk, hurt, hollow)
  BY DEF TuiInv, DirInv
<1>1. ASSUME NEW name \in Names, session_save(name) PROVE DirInv' /\ TalkInv' /\ StoredInv'
  <2>1. Return /\ UNCHANGED hurt
    BY <1>1 DEF session_save
  <2>2. CASE Known(disk, name)
    <3>1. PICK s : s = Load(disk, name)
      OBVIOUS
    <3>2. disk' = Save(disk, s) /\ UNCHANGED hollow
      BY <1>1, <2>2, <3>1 DEF session_save
    <3>3. /\ s.id \in IdSet /\ s.name \in Naming /\ AtRest(s.msgs, s.id, hurt, hollow)
          /\ Cut(s.msgs, s.id) = {}
      BY <1>0, <2>2, <3>1, LoadKept
    <3>4. hurt \cup Cut(s.msgs, s.id) \subseteq hurt' /\ hollow \subseteq hollow'
      BY <2>1, <3>2, <3>3
    <3>5. DirOK(Save(disk, s), hurt', hollow')
      BY <1>0, <3>3, <3>4, SaveKeeps
    <3>6. TalkInv' /\ pc' \in {"think", "tools"}
      BY <2>1, <3>4, TalkReturns DEF TuiInv
    <3> QED  BY <3>2, <3>5, <3>6 DEF DirInv, StoredInv
  <2>3. CASE ~Known(disk, name)
    <3>1. /\ fresh < Len(Ids) /\ fresh' = fresh + 1
          /\ disk' = Save(disk, Session(Ids[fresh'], name, <<>>))
          /\ hollow' = hollow \cup {Ids[fresh']}
      BY <1>1, <2>3 DEF session_save
    <3>2. fresh' \in 1..Len(Ids) /\ Ids \in Seq(IdSet)
      BY <3>1, TuiAssumption DEF TuiInv, TuiTypeOK
    <3>3. PICK i \in IdSet : i = Ids[fresh']
      BY <3>2, ElementOfSeq
    <3>4. PICK e \in Seq(Message) : e = <<>> /\ Len(e) = 0
      BY EmptySeq
    <3>5. PICK s : s = Session(i, name, e)
      OBVIOUS
    <3>6. s.id = i /\ s.name = name /\ s.msgs = e /\ name \in Naming
      BY <3>5 DEF Session, Naming
    <3>7. DirOK(disk, hurt, hollow') /\ i \in hollow'
      BY <1>0, <3>1, <3>3, DirMore
    <3>8. AtRest(s.msgs, s.id, hurt, hollow')
      BY <3>4, <3>6, <3>7 DEF AtRest, Sound, Answered
    <3>9. hurt \cup Cut(s.msgs, s.id) \subseteq hurt'
      BY <2>1, <3>4, <3>6, TrimAssumption DEF Cut
    <3>10. DirOK(Save(disk, s), hurt', hollow')
      BY <3>3, <3>6, <3>7, <3>8, <3>9, SaveKeeps
    <3>11. TalkInv' /\ pc' \in {"think", "tools"}
      BY <2>1, <3>1, TalkReturns DEF TuiInv
    <3> QED  BY <3>1, <3>3, <3>4, <3>5, <3>10, <3>11 DEF DirInv, StoredInv
  <2> QED  BY <2>2, <2>3
<1>2. ASSUME NEW name \in Names, session_export(name) PROVE DirInv' /\ TalkInv' /\ StoredInv'
  <2>1. Return /\ ExportTo(name) /\ UNCHANGED <<hurt, hollow>>
    BY <1>2 DEF session_export
  <2> QED  BY <2>1, ExportStep, TalkReturns DEF TuiInv, StoredInv
<1>3. CASE session_import
  <2>1. Return /\ ImportFrom(Copy) /\ UNCHANGED <<hurt, hollow>>
    BY <1>3 DEF session_import
  <2> QED  BY <2>1, ImportStep, TalkReturns DEF TuiInv, StoredInv
<1> QED  BY <1>1, <1>2, <1>3

\* How a step may set cur: to a session at the prompt, or to another name.
CurShape ==
    \/ cur' = cur
    \/ pc' = "prompt" /\ \E i, n : cur' = [id |-> i, name |-> n]
    \/ \E n \in Names : cur' = [cur EXCEPT !.name = n]

Plain ==
    pc' \in {"down", "panicked"} \cup Live /\ stale' \in BOOLEAN /\ fresh' \in Nat /\ CurShape

LEMMA PlainCommand ==
  ASSUME TuiTypeOK, Commands
  PROVE  Plain
<1> USE DEF TuiTypeOK, Plain, CurShape, Live
<1>0. pc = "prompt"
  BY DEF Commands, Exit, Cancel, Blank, ClearCmd, ImportCmd, Chat, SessionCmd, DeleteCmd, ExportCmd,
         RenameCmd, NewCmd, runCli, Reads
<1>1. CASE Exit \/ Cancel \/ Blank
  <2>1. pc' \in {"down", pc} /\ UNCHANGED <<cur, fresh>> /\ (stale' = FALSE \/ stale' = stale)
    BY <1>1 DEF Exit, Cancel, Blank, saveCurrentSession, talk, still
  <2> QED  BY <1>0, <2>1
<1>2. CASE ClearCmd
  BY <1>0, <1>2 DEF ClearCmd
<1>3. CASE ImportCmd
  <2>1. UNCHANGED <<pc, cur, fresh>> /\ stale' \in BOOLEAN
    BY <1>3 DEF ImportCmd, ImportFrom, talk
  <2> QED  BY <1>0, <2>1
<1>4. CASE Chat
  BY <1>4 DEF Chat, ghosts
<1>5. ASSUME NEW key \in Keys, SessionCmd(key) PROVE Plain
  <2>1. UNCHANGED <<pc, fresh>> /\ stale' \in BOOLEAN
    BY <1>5 DEF SessionCmd
  <2>2. cur' = cur \/ \E i, n : cur' = [id |-> i, name |-> n]
    BY <1>5 DEF SessionCmd, SwitchTo
  <2> QED  BY <1>0, <2>1, <2>2
<1>6. ASSUME NEW key \in Keys, DeleteCmd(key) PROVE Plain
  <2>1. UNCHANGED <<pc, cur, fresh>> /\ stale' \in BOOLEAN
    BY <1>6 DEF DeleteCmd, talk
  <2> QED  BY <1>0, <2>1
<1>7. ASSUME NEW key \in Keys, ExportCmd(key) PROVE Plain
  BY <1>0, <1>7 DEF ExportCmd, ExportTo, talk
<1>8. ASSUME NEW name \in Names, RenameCmd(name) PROVE Plain
  <2>1. UNCHANGED <<pc, fresh, stale>> /\ (cur' = cur \/ cur' = [cur EXCEPT !.name = name])
    BY <1>8 DEF RenameCmd
  <2> QED  BY <1>0, <2>1
<1>9. ASSUME NEW name \in Names, NewCmd(name) PROVE Plain
  <2>1. CASE msgs = <<>>
    BY <1>9, <2>1 DEF NewCmd, saveCurrentSession, talk
  <2>2. CASE msgs # <<>>
    <3>1. /\ fresh' = fresh + 1 /\ cur' = [id |-> Ids[fresh'], name |-> name]
          /\ stale' = FALSE /\ pc' = pc
      BY <1>9, <2>2 DEF NewCmd
    <3>2. \E i, n : cur' = [id |-> i, name |-> n]
      BY <3>1, Zenon
    <3>3. CurShape
      BY <1>0, <3>1, <3>2, Zenon DEF CurShape
    <3>4. stale' \in BOOLEAN
      BY <3>1, Zenon
    <3>5. fresh' = fresh + 1 /\ pc' = pc
      BY <3>1, Zenon
    <3>6. pc' \in {"down", "panicked"} \cup Live /\ fresh' \in Nat
      BY <1>0, <3>5
    <3> QED  BY <3>3, <3>4, <3>6, Zenon DEF Plain
  <2> QED  BY <2>1, <2>2
<1>10. ASSUME NEW sub, runCli(sub) PROVE Plain
  BY <1>0, <1>10 DEF runCli, talk
<1> QED  BY <1>1, <1>2, <1>3, <1>4, <1>5, <1>6, <1>7, <1>8, <1>9, <1>10 DEF Commands

LEMMA PlainTurn ==
  ASSUME TuiTypeOK, Complete \/ Tools
  PROVE  Plain
<1> USE DEF TuiTypeOK, Plain, CurShape, Live
<1>1. CASE Complete
  <2>1. UNCHANGED <<cur, fresh>> /\ pc' \in {"prompt", "think", "tools"} /\ stale' \in {FALSE, stale}
    BY <1>1 DEF Complete, Answer, Retry, Fail, CallTools, EndTurn, talk, ghosts
  <2> QED  BY <2>1
<1>2. CASE Tools
  <2>1. Return
    BY <1>2 DEF Tools, Look, ask_human, remember, init, file_copy, run_remote, update_config,
       gen_config, switch_group, session_save, session_export, session_import
  <2>2. cur' = cur /\ pc' \in {"think", "tools"}
    BY <2>1 DEF Return
  <2>3. fresh' \in {fresh, fresh + 1} /\ stale' \in BOOLEAN
    <3>1. CASE QuietTool
      BY <3>1 DEF QuietTool, Look, ask_human, remember, init, file_copy, run_remote,
         update_config, gen_config, switch_group, ghosts
    <3>2. ASSUME NEW name \in Names, session_save(name)
          PROVE  fresh' \in {fresh, fresh + 1} /\ stale' \in BOOLEAN
      BY <3>2 DEF session_save
    <3>3. ASSUME NEW name \in Names, session_export(name)
          PROVE  fresh' \in {fresh, fresh + 1} /\ stale' \in BOOLEAN
      BY <3>3 DEF session_export, ExportTo
    <3>4. CASE session_import
      BY <3>4 DEF session_import, ImportFrom
    <3> QED  BY <1>2, <3>1, <3>2, <3>3, <3>4 DEF Tools, QuietTool
  <2> QED  BY <2>2, <2>3
<1> QED  BY <1>1, <1>2

\* The sessions' invariant holds in every state.
THEOREM SessionInvariant == Spec => []TuiInv
<1>1. Init => TuiInv
  <2> SUFFICES ASSUME Init PROVE TuiInv
    OBVIOUS
  <2>1. pc = "down" /\ disk = <<>> /\ msgs = <<>> /\ stale = FALSE /\ fresh = 0
    BY DEF Init
  <2>2. TuiTypeOK
    BY DEF Init, TuiTypeOK
  <2>3. DirInv
    BY <2>1 DEF DirInv, DirOK, Files, Uniq
  <2>4. TalkInv /\ StoredInv
    BY <2>1 DEF TalkInv, LinesAnswered, StoredInv, Live
  <2> QED  BY <2>2, <2>3, <2>4 DEF TuiInv
<1>2. TuiInv /\ [Next]_vars => TuiInv'
  <2> SUFFICES ASSUME TuiInv, [Next]_vars PROVE TuiInv'
    OBVIOUS
  <2>1. CASE UNCHANGED vars
    <3>1. UNCHANGED <<pc, msgs, cur, todo, disk, hurt, hollow, stale, fresh>>
      BY <2>1 DEF vars
    <3> QED  BY <3>1, TalkStays DEF TuiInv, TuiTypeOK, DirInv, StoredInv
  <2>2. ASSUME Next PROVE DirInv' /\ TalkInv' /\ StoredInv'
    <3>1. CASE \E key \in Keys \cup {"none"}, r \in BOOLEAN : newTUI(key, r)
      BY <3>1, StartStep
    <3>2. CASE Crash
      BY <3>2, CrashStep
    <3>3. CASE Commands
      BY <3>3, EndStep, SessionStep, NewStep, RenameStep, DeleteStep, ClearStep, FileCommandStep,
         ThinkStep DEF Commands
    <3>4. CASE Complete
      BY <3>4, ThinkStep, ResponseStep DEF Complete
    <3>5. CASE Tools
      BY <3>5, QuietStep, SessionToolStep DEF Tools, QuietTool
    <3> QED  BY <2>2, <3>1, <3>2, <3>3, <3>4, <3>5 DEF Next
  <2>3. ASSUME Next PROVE Plain
    <3>0. TuiTypeOK
      BY DEF TuiInv
    <3>1. ASSUME NEW key, NEW r, newTUI(key, r) PROVE Plain
      <4> DEFINE loaded == Known(disk, key)
      <4>0. PICK s : s = IF loaded THEN Load(disk, key)
                         ELSE Session(Ids[fresh + 1], DefaultName, <<>>)
        OBVIOUS
      <4>a. /\ pc' = "prompt" /\ stale' = FALSE
            /\ fresh' = IF loaded THEN fresh ELSE fresh + 1
            /\ cur' = [id |-> s.id, name |-> s.name]
        BY <3>1, <4>0, Zenon DEF newTUI
      <4> HIDE DEF loaded
      <4>b. \E i, n : cur' = [id |-> i, name |-> n]
        BY <4>a, Zenon
      <4>1. /\ pc' = "prompt" /\ stale' = FALSE /\ fresh' \in {fresh, fresh + 1}
            /\ \E i, n : cur' = [id |-> i, name |-> n]
        BY <4>a, <4>b
      <4>2. stale' \in BOOLEAN
        BY <4>1, Zenon
      <4>c. fresh' = fresh \/ fresh' = fresh + 1
        BY <4>1, Zenon
      <4>3. fresh' \in Nat
        BY <3>0, <4>c DEF TuiTypeOK
      <4>4. CurShape
        BY <4>1, Zenon DEF CurShape
      <4>5. pc' \in {"down", "panicked"} \cup Live
        BY <4>1, Zenon DEF Live
      <4> QED  BY <4>2, <4>3, <4>4, <4>5, Zenon DEF Plain
    <3>2. CASE Crash
      BY <3>0, <3>2 DEF Crash, talk, Plain, CurShape, TuiTypeOK
    <3> QED  BY <2>3, <3>0, <3>1, <3>2, PlainCommand, PlainTurn DEF Next
  <2>4. ASSUME Plain, TalkInv' PROVE TuiTypeOK'
    <3>1. CASE cur' = cur
      BY <2>4, <3>1 DEF Plain, TuiInv, TuiTypeOK
    <3>2. CASE pc' = "prompt" /\ \E i, n : cur' = [id |-> i, name |-> n]
      <4>1. PICK i, n : cur' = [id |-> i, name |-> n]
        BY <3>2
      <4>2. i \in IdSet /\ n \in Naming
        BY <2>4, <3>2, <4>1 DEF TalkInv, Live
      <4> QED  BY <2>4, <4>1, <4>2 DEF Plain, TuiTypeOK
    <3>3. CASE \E n \in Names : cur' = [cur EXCEPT !.name = n]
      <4>1. cur' \in [id : IdSet \cup {"none"}, name : Naming \cup {"none"}]
        BY <3>3 DEF TuiInv, TuiTypeOK, Naming
      <4> QED  BY <2>4, <4>1 DEF Plain, TuiTypeOK
    <3> QED  BY <2>4, <3>1, <3>2, <3>3 DEF Plain, CurShape
  <2> QED  BY <2>1, <2>2, <2>3, <2>4 DEF TuiInv
<1> QED  BY <1>1, <1>2, PTL DEF Spec

\* AnsweredUnlessHurt holds for every number of lines, rounds and sessions:
\* what run sends to the endpoint answers every tool call it holds, but after
\* an error path or a trim broke the conversation.
THEOREM ConversationsStayAnswered == Spec => []AnsweredUnlessHurt
<1>1. TuiInv => AnsweredUnlessHurt
  BY DEF TuiInv, TalkInv, Thinking, AnsweredUnlessHurt
<1> QED  BY <1>1, SessionInvariant, PTL

\* LinesAnswered: no line of the user follows another one, in any session that
\* begins with its system message.
THEOREM LinesStayAnswered == Spec => []LinesAnswered
<1>1. TuiInv => LinesAnswered
  BY DEF TuiInv, TalkInv
<1> QED  BY <1>1, SessionInvariant, PTL

\* StoredAtPrompt: what a crash at the prompt loses is nothing but the line
\* being typed.
THEOREM AlwaysStoredAtPrompt == Spec => []StoredAtPrompt
<1>1. TuiInv => StoredAtPrompt
  <2> SUFFICES ASSUME TuiInv, pc = "prompt", ~stale
               PROVE  Known(disk, cur.id) /\ Load(disk, cur.id).msgs = trimMessages(msgs)
    BY DEF StoredAtPrompt
  <2>1. cur.id \in IdSet /\ DirOK(disk, hurt, hollow)
    BY DEF TuiInv, DirInv, TalkInv, Live
  <2>2. PICK r \in Files(disk) : r.file = cur.id /\ r.msgs = trimMessages(msgs)
    BY DEF TuiInv, StoredInv, Stored
  <2>3. Known(disk, cur.id) /\ Load(disk, cur.id) = r
    BY <2>1, <2>2, LoadOwn
  <2> QED  BY <2>2, <2>3
<1> QED  BY <1>1, SessionInvariant, PTL

\* SystemFirst: /new and /clear find t.msgs[0], and it is the system message.
THEOREM AlwaysSystemFirst == Spec => []SystemFirst
<1>1. TuiInv => SystemFirst
  <2> SUFFICES ASSUME TuiInv PROVE SystemFirst
    OBVIOUS
  <2>1. ASSUME pc \in {"prompt", "think", "tools"}, cur.id \notin hollow
        PROVE  msgs # <<>> /\ Head(msgs).role = "sys"
    <3>1. msgs \in Seq(Message) /\ Len(msgs) > 0 /\ msgs[1].role = "sys"
      BY <2>1 DEF TuiInv, TalkInv, Live, Sound
    <3> QED  BY <3>1, EmptySeq
  <2> QED  BY <2>1 DEF TuiInv, TalkInv, SystemFirst
<1> QED  BY <1>1, SessionInvariant, PTL

\* NoMixing: no file ever holds a message of another session.
THEOREM SessionsNeverMix == Spec => []NoMixing
<1>1. TuiInv => NoMixing
  <2> SUFFICES ASSUME TuiInv, NEW i \in DOMAIN disk, NEW j \in DOMAIN disk[i].msgs
               PROVE  disk[i].msgs[j].of = disk[i].id
    BY DEF NoMixing
  <2>1. DirOK(disk, hurt, hollow)
    BY DEF TuiInv, DirInv
  <2>2. PICK s : s = disk[i]
    OBVIOUS
  <2>3. s \in Files(disk)
    BY <2>1, <2>2 DEF DirOK, Files
  <2>4. AtRest(s.msgs, s.id, hurt, hollow)
    BY <2>1, <2>3 DEF DirOK, Kept
  <2>5. s.msgs \in Seq(Message) /\ \A l \in 1..Len(s.msgs) : s.msgs[l].of = s.id
    BY <2>4 DEF AtRest, Sound
  <2>6. j \in 1..Len(s.msgs)
    BY <2>2, <2>5
  <2> QED  BY <2>2, <2>5, <2>6
<1> QED  BY <1>1, SessionInvariant, PTL

------------------------------------------------------------------------------
(* The hosts.                                                              *)

Level == {"none", "part", "full"}

Where == {"no", "here", "file", "lost"}

HostInv ==
    /\ mem \in [Aliases -> Level] /\ memFile \in [Aliases -> Level] /\ told \in [Aliases -> Where]
    /\ pc \in {"down", "panicked"} \cup Live
    /\ HostsStayKnown

\* A tool that changes neither the memory nor its file.
Forgetful == UNCHANGED <<mem, memFile, told>>

LEMMA HostTool ==
  ASSUME HostInv, Tools
  PROVE  HostInv'
<1> USE DEF HostInv, HostsStayKnown, Live
<1>0. pc = "tools" /\ pc' \in {"think", "tools"}
  BY DEF Tools, Look, ask_human, remember, init, file_copy, run_remote, update_config,
     gen_config, switch_group, session_save, session_export, session_import, Return
<1>1. CASE Forgetful
  BY <1>0, <1>1 DEF Forgetful
<1>2. ASSUME NEW a \in Aliases, NEW got \in {"part", "full"}, file_copy(a, got)
      PROVE  HostInv'
  <2>1. PICK level \in Level : level = mergeHost(mem[a], got)
    BY DEF mergeHost, Level
  <2>2. mem[a] = "full" => level = "full"
    BY <2>1 DEF mergeHost
  <2>3. /\ mem' = [mem EXCEPT ![a] = level] /\ memFile' = [mem EXCEPT ![a] = level]
        /\ told' = IF level = "full" THEN [Overwritten EXCEPT ![a] = "here"] ELSE Overwritten
    BY <1>2, <2>1 DEF file_copy, Set
  <2>4. /\ \A b \in Aliases : mem'[b] = memFile'[b] /\ (b # a => mem'[b] = mem[b])
        /\ mem'[a] = level /\ mem' \in [Aliases -> Level] /\ memFile' \in [Aliases -> Level]
    BY <2>3
  <2>5. told' \in [Aliases -> Where]
    BY <2>3 DEF Overwritten, Moved, Where
  <2>6. \A b \in Aliases : told'[b] \in {"here", "file"} =>
            told'[b] = "here" /\ (told[b] = "here" \/ (b = a /\ level = "full"))
    BY <2>3 DEF Overwritten, Moved, Where
  <2> QED  BY <1>0, <2>2, <2>4, <2>5, <2>6
<1>3. ASSUME NEW a \in Aliases, NEW got \in {"part", "full"}, run_remote(a, got)
      PROVE  HostInv'
  <2>1. PICK level \in Level : level = mergeHost(memFile[a], got)
    BY DEF mergeHost, Level
  <2>2. memFile[a] = "full" => level = "full"
    BY <2>1 DEF mergeHost
  <2>3. /\ mem' = mem /\ memFile' = [memFile EXCEPT ![a] = level]
        /\ told' = IF level = "full" THEN StoredApart(a) ELSE told
    BY <1>3, <2>1 DEF run_remote
  <2>4. /\ told' \in [Aliases -> Where]
        /\ \A b \in Aliases : \/ told'[b] = told[b]
                              \/ b = a /\ level = "full" /\ told'[b] = "file"
    BY <2>3 DEF StoredApart, Where
  <2> QED  BY <1>0, <2>2, <2>3, <2>4
<1>4. CASE remember
  <2>1. mem' = mem /\ memFile' = mem /\ told' = Overwritten
    BY <1>4 DEF remember, Set
  <2>2. /\ told' \in [Aliases -> Where]
        /\ \A b \in Aliases : told'[b] \in {"here", "file"} => told'[b] = "here" /\ told[b] = "here"
    BY <2>1 DEF Overwritten, Moved, Where
  <2> QED  BY <1>0, <2>1, <2>2
<1>5. Tools => \/ Forgetful \/ remember
               \/ \E a \in Aliases, got \in {"part", "full"} : file_copy(a, got) \/ run_remote(a, got)
  BY DEF Tools, Forgetful, Look, ask_human, init, update_config, gen_config, switch_group,
     session_save, session_export, session_import, files, ghosts
<1> QED  BY <1>1, <1>2, <1>3, <1>4, <1>5

LEMMA HostCommand ==
  ASSUME HostInv, Commands
  PROVE  HostInv'
<1> USE DEF HostInv, HostsStayKnown, Live
<1>0. pc = "prompt" /\ pc' \in {"down", "panicked", "prompt", "think"}
  BY DEF Commands, Exit, Cancel, Blank, ClearCmd, ImportCmd, Chat, SessionCmd, DeleteCmd, ExportCmd,
     RenameCmd, NewCmd, runCli, Reads
<1>1. CASE Forgetful
  BY <1>0, <1>1 DEF Forgetful
<1>2. ASSUME NEW sub \in Aliases \cup {"init", "status"}, runCli(sub) PROVE HostInv'
  <2>1. CASE sub \in Aliases
    <3>1. mem' = mem /\ memFile' = [memFile EXCEPT ![sub] = "full"] /\ told' = StoredApart(sub)
      BY <1>2, <2>1 DEF runCli
    <3>2. /\ told' \in [Aliases -> Where] /\ memFile' \in [Aliases -> Level]
          /\ \A b \in Aliases : \/ told'[b] = told[b]
                                \/ b = sub /\ told'[b] = "file"
      BY <2>1, <3>1 DEF StoredApart, Where, Level
    <3> QED  BY <1>0, <2>1, <3>1, <3>2
  <2>2. CASE sub \notin Aliases
    BY <1>0, <1>2, <2>2 DEF runCli
  <2> QED  BY <2>1, <2>2
<1>3. Commands => Forgetful \/ \E sub \in Aliases \cup {"init", "status"} : runCli(sub)
  BY DEF Commands, Forgetful, Exit, Cancel, Blank, ClearCmd, ImportCmd, Chat, SessionCmd, DeleteCmd,
     ExportCmd, RenameCmd, NewCmd, files, ghosts, still
<1> QED  BY <1>1, <1>2, <1>3

\* Whatever three writers do to the memory file (file_copy and remember from the
\* TUI's map, run_remote and the CLI from Memories of their own), a host that was
\* described in full is lost only by a crash that cuts the file short or, if the
\* TUI's map never held it, by the TUI's next Set.
THEOREM HostsAlwaysStayKnown == Spec => []HostsStayKnown
<1>1. Init => HostInv
  BY DEF Init, HostInv, HostsStayKnown, Level, Where
<1>2. HostInv /\ [Next]_vars => HostInv'
  <2> SUFFICES ASSUME HostInv, [Next]_vars PROVE HostInv'
    OBVIOUS
  <2> USE DEF HostInv, HostsStayKnown, Live
  <2>1. CASE UNCHANGED vars
    BY <2>1 DEF vars
  <2>2. ASSUME NEW key, NEW r, newTUI(key, r) PROVE HostInv'
    <3>1. pc' = "prompt" /\ mem' = memFile /\ memFile' = memFile /\ told' = Loaded
      BY <2>2, Zenon DEF newTUI
    <3>2. /\ told' \in [Aliases -> Where]
          /\ \A b \in Aliases : told'[b] \in {"here", "file"} => told[b] \in {"here", "file"}
      BY <3>1 DEF Loaded, Moved, Where
    <3> QED  BY <3>1, <3>2
  <2>3. CASE Crash
    <3>1. /\ pc' = "down" /\ mem' = mem
          /\ \/ UNCHANGED <<memFile, told>>
             \/ /\ memFile' = [a \in Aliases |-> "none"]
                /\ told' = Moved({"here", "file"}, "lost")
      BY <2>3 DEF Crash
    <3>2. \/ UNCHANGED <<memFile, told>>
          \/ /\ told' \in [Aliases -> Where] /\ memFile' \in [Aliases -> Level]
             /\ \A b \in Aliases : told'[b] \notin {"here", "file"}
      BY <3>1 DEF Moved, Where, Level
    <3> QED  BY <3>1, <3>2
  <2>4. CASE Complete
    <3>1. UNCHANGED <<mem, memFile, told>> /\ pc = "think" /\ pc' \in {"prompt", "think", "tools"}
      BY <2>4 DEF Complete, Answer, Retry, Fail, CallTools, EndTurn, still, files, ghosts
    <3> QED  BY <3>1
  <2> QED  BY <2>1, <2>2, <2>3, <2>4, HostTool, HostCommand DEF Next
<1>3. HostInv => HostsStayKnown
  BY DEF HostInv
<1> QED  BY <1>1, <1>2, <1>3, PTL DEF Spec
=============================================================================

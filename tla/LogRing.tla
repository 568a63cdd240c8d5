------------------------------ MODULE LogRing ------------------------------
(***************************************************************************)
(* The log of a running agent-netx (web/logs.go), its file                 *)
(* (web/logfile.go) and the event streams the dashboard reads it through   *)
(* (handleLogs in web/handlers.go).                                        *)
(*                                                                         *)
(* Any goroutine writes: it records the entry and copies the list of       *)
(* listeners under r.mu, then writes the line to the file under the file's *)
(* own lock, then offers the entry to each listener in turn.  A stream     *)
(* subscribes, then sends the recent entries, then what its channel brings *)
(* until its client goes away.  An entry is the number under which it was  *)
(* recorded.                                                               *)
(***************************************************************************)
EXTENDS Naturals, Sequences, FiniteSets, SequencesExt

CONSTANTS Writers,     \* goroutines that write to the log at the same time
          Streams,     \* requests for the event stream, numbered as they come
          MaxSize,     \* entries the ring keeps (1000)
          Window,      \* entries handleLogs asks Recent for (50)
          Cap,         \* capacity of a listener's channel (64)
          MaxLog,      \* lines of a file that is to be rotated (256 KB)
          BufLines,    \* lines that fit the buffer of the file (4096 bytes)
          Past,        \* entries written before the dashboard is there
          MaxEntries   \* bound on the entries of a behaviour

ASSUME LogAssumption ==
         /\ {MaxSize, Window, Cap, MaxLog, BufLines} \subseteq Nat \ {0}
         /\ {Writers, Streams, Past, MaxEntries} \subseteq Nat
         /\ Past <= MaxLog + 1 /\ Past <= MaxEntries

Entry == 1..MaxEntries
Stream == 1..Streams

VARIABLES entries,    \* r.entries
          listeners,  \* r.listeners: the streams in order
          count,      \* entries recorded so far
          tasks,      \* calls of Write in progress and what they have left to do
          stage,      \* what each stream is doing
          idx,        \* the index its unsubscribe closure remembers, from 1
          chan,       \* its channel
          shown,      \* the entries its client was sent
          file,       \* lines of the log file
          old,        \* lines of the rotated file, path.1
          buf,        \* r.w: lines written and not flushed
          fileState,  \* "open", or "closed" when it could not be reopened
          since,      \* entries recorded when the stream subscribed
          lossy,      \* streams whose channel was full when an entry came
          written,    \* lines given to the file, in order
          ioError     \* has a rename or an open failed

ringVars   == <<entries, listeners, count>>
streamVars == <<stage, idx, chan, shown, since, lossy>>
fileVars   == <<file, old, buf, fileState, written, ioError>>
vars == <<ringVars, tasks, streamVars, fileVars>>

Serving(s) == stage[s] \in {"subscribed", "streaming"}

\* The lines of the past that are on disk: whole buffers, flushed by the line
\* that came after them.  Past is too small for a rotation.
Flushed == IF Past = 0 THEN 0 ELSE ((Past - 1) \div BufLines) * BufLines

Numbers(m, n) == [i \in 1..(n - m + 1) |-> m + i - 1]

\* The log after Past entries, before any stream.
Init ==
  /\ count = Past /\ listeners = <<>>
  /\ entries = Numbers(IF Past > MaxSize THEN Past - MaxSize + 1 ELSE 1, Past)
  /\ file = Numbers(1, Flushed) /\ buf = Numbers(Flushed + 1, Past)
  /\ written = Numbers(1, Past) /\ old = <<>>
  /\ fileState = "open" /\ ioError = FALSE
  /\ tasks = {}
  /\ stage = [s \in Stream |-> "new"]
  /\ idx = [s \in Stream |-> 0]
  /\ chan = [s \in Stream |-> <<>>]
  /\ shown = [s \in Stream |-> {}]
  /\ since = [s \in Stream |-> 0]
  /\ lossy = {}

------------------------------------------------------------------------------
\* Write.

\* Under r.mu: the entry and the copy of the listeners.
Record ==
  /\ Cardinality(tasks) < Writers /\ count < MaxEntries
  /\ count' = count + 1
  /\ entries' = Append(IF Len(entries) >= MaxSize THEN Tail(entries) ELSE entries,
                       count + 1)
  /\ tasks' = tasks \cup {[entry |-> count + 1, at |-> "file", left |-> listeners]}
  /\ UNCHANGED <<listeners, streamVars, fileVars>>

\* bufio.Writer: a full buffer goes to the file first.
Buffer(line, onDisk, pending) ==
  IF Len(pending) < BufLines
  THEN file' = onDisk /\ buf' = Append(pending, line)
  ELSE file' = onDisk \o pending /\ buf' = <<line>>

\* The renaming and the opening of a rotation, after which path.1 or path hold
\* the lines given.  An error of os.Rename is ignored, and the file truncated
\* when it is opened again; an error of os.OpenFile leaves the closed file in
\* place and loses the line.
Reopen(lines, line) ==
  \E renamed, opened \in BOOLEAN :
    /\ old' = IF renamed THEN lines ELSE old
    /\ \/ opened /\ Buffer(line, <<>>, <<>>) /\ UNCHANGED fileState
       \/ /\ ~opened
          /\ file' = IF renamed THEN <<>> ELSE lines
          /\ buf' = <<>> /\ fileState' = "closed"
    /\ ioError' = (ioError \/ ~renamed \/ ~opened)

\* With a fault: the file is closed without a Flush.
RotateUnflushed(line) == Reopen(file, line)

Rotate(line) == Reopen(file \o buf, line)

\* rotatingFile.Write.  Stat of a closed file fails, so that no other
\* rotation is tried, and what its buffer takes never reaches a file.
FileWrite(line) ==
  /\ written' = Append(written, line)
  /\ \/ fileState = "open" /\ Len(file) >= MaxLog /\ Rotate(line)
     \/ /\ fileState = "open" /\ Len(file) < MaxLog
        /\ Buffer(line, file, buf)
        /\ UNCHANGED <<old, fileState, ioError>>
     \/ fileState = "closed" /\ UNCHANGED <<file, old, buf, fileState, ioError>>

\* Task t goes on as u; with no listener left to serve, Write returns.
Proceed(t, u) ==
  tasks' = (tasks \ {t}) \cup (IF u.left = <<>> THEN {} ELSE {u})

LogLine(t) ==
  /\ t.at = "file"
  /\ FileWrite(t.entry)
  /\ Proceed(t, [t EXCEPT !.at = "deliver"])
  /\ UNCHANGED <<ringVars, streamVars>>

\* The send that does not block.  Nobody reads the channel of a closed stream.
Deliver(t) ==
  /\ t.at = "deliver"
  /\ LET s == Head(t.left) IN
       /\ chan' = IF stage[s] # "closed" /\ Len(chan[s]) < Cap
                  THEN [chan EXCEPT ![s] = Append(@, t.entry)] ELSE chan
       /\ lossy' = IF Len(chan[s]) < Cap THEN lossy ELSE lossy \cup {s}
  /\ Proceed(t, [t EXCEPT !.left = Tail(@)])
  /\ UNCHANGED <<ringVars, stage, idx, shown, since, fileVars>>

------------------------------------------------------------------------------
\* handleLogs.

\* With a fault: the index is computed before the append.
SubscribeEarly(s) ==
  /\ stage[s] = "new" /\ \A t \in 1..(s - 1) : stage[t] # "new"
  /\ listeners' = Append(listeners, s)
  /\ idx' = [idx EXCEPT ![s] = Len(listeners)]
  /\ stage' = [stage EXCEPT ![s] = "subscribed"]
  /\ since' = [since EXCEPT ![s] = count]
  /\ UNCHANGED <<entries, count, tasks, chan, shown, lossy, fileVars>>

Subscribe(s) ==
  /\ stage[s] = "new" /\ \A t \in 1..(s - 1) : stage[t] # "new"
  /\ listeners' = Append(listeners, s)
  /\ idx' = [idx EXCEPT ![s] = Len(listeners) + 1]
  /\ stage' = [stage EXCEPT ![s] = "subscribed"]
  /\ since' = [since EXCEPT ![s] = count]
  /\ UNCHANGED <<entries, count, tasks, chan, shown, lossy, fileVars>>

\* With a fault: the first n entries and not the last n.
RecentFirst(n) == SubSeq(entries, 1, IF n < Len(entries) THEN n ELSE Len(entries))

Recent(n) ==
  SubSeq(entries, IF n < Len(entries) THEN Len(entries) - n + 1 ELSE 1, Len(entries))

SendRecent(s) ==
  /\ stage[s] = "subscribed"
  /\ shown' = [shown EXCEPT ![s] = ToSet(Recent(Window))]
  /\ stage' = [stage EXCEPT ![s] = "streaming"]
  /\ UNCHANGED <<ringVars, tasks, idx, chan, since, lossy, fileVars>>

SendNext(s) ==
  /\ stage[s] = "streaming" /\ chan[s] # <<>>
  /\ shown' = [shown EXCEPT ![s] = @ \cup {Head(chan[s])}]
  /\ chan' = [chan EXCEPT ![s] = Tail(@)]
  /\ UNCHANGED <<ringVars, tasks, stage, idx, since, lossy, fileVars>>

\* The closure removes whatever is at the index it remembers; an index past
\* the end panics, which net/http recovers, and removes nothing.
Unsubscribe(s) ==
  /\ stage[s] = "streaming"
  /\ listeners' = IF idx[s] <= Len(listeners)
                  THEN RemoveAt(listeners, idx[s]) ELSE listeners
  /\ stage' = [stage EXCEPT ![s] = "closed"]
  /\ chan' = [chan EXCEPT ![s] = <<>>]
  /\ UNCHANGED <<entries, count, tasks, idx, shown, since, lossy, fileVars>>

------------------------------------------------------------------------------
Work(t) == LogLine(t) \/ Deliver(t)

Send(s) == SendRecent(s) \/ SendNext(s)

Next ==
  \/ Record
  \/ \E t \in tasks : Work(t)
  \/ \E s \in Stream : Subscribe(s) \/ Send(s) \/ Unsubscribe(s)

Spec == Init /\ [][Next]_vars

------------------------------------------------------------------------------
\* What a stream has to show: all that was recorded since it subscribed, and
\* all that is newer than something it has shown.
Owed(s) == {e \in 1..count : e > since[s] \/ \E f \in shown[s] : f < e}

OnTheWay(s) == {t.entry : t \in {u \in tasks : s \in ToSet(u.left)}}

\* There is no gap in what a client reads, between the recent entries and the
\* live ones either: an entry owed is shown, queued or about to be queued, as
\* long as the stream is listed and its channel never overflowed.
NoGap ==
  \A s \in Stream :
    Serving(s) /\ s \in ToSet(listeners) /\ s \notin lossy =>
      Owed(s) \subseteq shown[s] \cup ToSet(chan[s]) \cup OnTheWay(s)

\* The index that unsubscribe remembers is wrong once an older stream has left,
\* and then removes another stream's channel.  A stream is silenced in no other
\* way: never by one that came after it.
OnlySeniorsSilence ==
  \A s \in Stream :
    Serving(s) /\ s \notin ToSet(listeners) =>
      \E t \in 1..(s - 1) : stage[t] = "closed"

\* Without an I/O error, path.1, path and the buffer hold the last lines in the
\* order they came, none missing: rotation loses nothing but the older file.
FileIsTail ==
  ~ioError => IsSuffix(old \o file \o buf, written)
=============================================================================

---------------------------- MODULE SessionStore ----------------------------
(***************************************************************************)
(* The session files of the agent: agent/session.go and session_export.go. *)
(*                                                                         *)
(* The directory of session files is a sequence of records in the order in *)
(* which List returns them, the most recently updated first.  A file that  *)
(* cannot be decoded (a write cut short by a crash) is skipped by List and *)
(* refused by loadByID, so it is simply not in the sequence.  A message    *)
(* keeps its role (an assistant message also the number of tool calls it   *)
(* carries) and the session in which it was written; its text is left out. *)
(* Names never begin with "session_", so ids and names are disjoint keys.  *)
(***************************************************************************)
EXTENDS Naturals, Sequences, SequencesExt

CONSTANT MaxSessionMessages     \* 200 in the code

ASSUME TrimAssumption == MaxSessionMessages \in Nat \ {0, 1}

\* The role is sys, user, asst, tool, or call1 or call2 for tool calls.
Msg(role, id) == [role |-> role, of |-> id]

\* file is the file's base name: the id, except for an exported copy.
Session(id, name, ms) == [file |-> id, id |-> id, name |-> name, msgs |-> ms]

\* The mutated forms name the slips the properties are there to catch.
TailOnly(ms) ==
    IF Len(ms) <= MaxSessionMessages
    THEN ms
    ELSE SubSeq(ms, Len(ms) - MaxSessionMessages + 1, Len(ms))

\* The first message and the last MaxSessionMessages - 1 ones.
trimMessages(ms) ==
    IF Len(ms) <= MaxSessionMessages
    THEN ms
    ELSE <<ms[1]>> \o SubSeq(ms, Len(ms) - MaxSessionMessages + 2, Len(ms))

\* The directory without the file sessionFile(id); a name is in it only once.
Others(disk, id) == RemoveFirstMatch(disk, LAMBDA s : s.file = id)

\* UpdatedAt becomes now, so the saved session is the first one of the list.
Save(disk, s) ==
    <<Session(s.id, s.name, trimMessages(s.msgs))>> \o Others(disk, s.id)

\* An id finds its own file, a name the most recent session that bears it.
Matching(disk, key) == SelectInSeq(disk, LAMBDA s : key \in {s.file, s.name})

Known(disk, key) == Matching(disk, key) # 0

Load(disk, key) == disk[Matching(disk, key)]

Delete(disk, key) ==
    IF Known(disk, key) THEN Others(disk, Load(disk, key).id) ELSE disk

Rename(disk, key, name) ==
    IF Known(disk, key)
    THEN Save(disk, [Load(disk, key) EXCEPT !.name = name])
    ELSE disk

\* Import reads one file and saves it under the id it carries (exported
\* sessions always carry one), over the session that has this id already.
Import(disk, s) == Save(disk, s)

\* A relative destination lies in the directory of the sessions, where the
\* copy is one more file to List; its UpdatedAt is that of the original.
Copy == "copy"

Export(disk, key) ==
    LET i == Matching(disk, key)
    IN  IF i = 0
        THEN disk
        ELSE Others(SubSeq(disk, 1, i), Copy)
             \o <<[disk[i] EXCEPT !.file = Copy]>>
             \o Others(SubSeq(disk, i + 1, Len(disk)), Copy)

------------------------------------------------------------------------------
\* What the chat-completions endpoint asks of a conversation: every tool call
\* is followed at once by its answers, and no answer stands alone.
CallsOf(m) == CASE m.role = "call1" -> 1 [] m.role = "call2" -> 2 [] OTHER -> 0

AnsweredBy(ms, i, k) ==
    \A j \in 1..k : i + j <= Len(ms) /\ ms[i + j].role = "tool"

Answered(ms) ==
    \A i \in 1..Len(ms) :
        /\ AnsweredBy(ms, i, CallsOf(ms[i]))
        /\ ms[i].role = "tool" =>
               \E j \in 1..2 : i > j /\ CallsOf(ms[i - j]) >= j
==============================================================================

------------------------------ MODULE AgentTui ------------------------------
(***************************************************************************)
(* The agent's terminal session: agent/tui.go with llm.go, tools.go,       *)
(* memory.go, hil.go, scp.go and the session files of SessionStore.        *)
(*                                                                         *)
(* One process at a time reads lines, sends the conversation to the        *)
(* endpoint, runs the tools the answer asks for and saves the session; it  *)
(* may crash and be started again over the same files.  A line is a pair   *)
(* <<command, argument>>, with "none" for what is missing; a text that is  *)
(* no command is <<"chat", "none">>.                                       *)
(* Turn counts, the history, the texts and the drawing are left out.       *)
(***************************************************************************)
EXTENDS Naturals, Sequences, FiniteSets, SequencesExt, SessionStore

CONSTANTS Ids,          \* the session ids newUUID hands out, in order
          Names,        \* the names a user gives to sessions
          DefaultName,  \* the name made from the date
          Aliases,      \* SSH hosts
          Typed,        \* the lines a user types
          Answers,      \* the answers a user gives to a question
          Retries,      \* l.retries
          MaxLines, MaxCalls, MaxCrashes    \* bounds on the environment

IdSet == {Ids[i] : i \in DOMAIN Ids}

\* An id begins with session_, and no name of a session or of a copy does.
ASSUME TuiAssumption ==
    /\ Ids \in Seq(IdSet) /\ IsInjective(Ids) /\ Retries \in Nat
    /\ IdSet \cap (Names \cup {DefaultName, Copy}) = {}
    /\ \A b \in {MaxLines, MaxCalls, MaxCrashes} : b \in Nat

VARIABLES
    pc,         \* where the process is: down, prompt, think, tools, panicked
    raw,        \* stdin and stdout are a terminal
    msgs,       \* t.msgs
    cur,        \* t.session: its id and name
    fresh,      \* how many ids were handed out
    todo,       \* tool calls of the last answer that have not run
    attempt,    \* the attempt of Complete
    pending,    \* t.pendingAnswer
    disk,       \* the session files, most recently updated first
    mem,        \* what Memory holds of each host: none, part or full
    memFile,    \* what agent-memory.json holds
    conf,       \* config.yml: absent, one that loads, one that is valid too
    used        \* lines typed, tool calls and crashes so far

\* Ghosts: conversations hurt by a dropped tool answer or a trimming save;
\* ids stored without a system message; whether the current file was replaced
\* or removed behind the session's back; where each host is known that was
\* described in full: "here" in the TUI's own map too, "file" in the file alone,
\* "lost" when it is gone; "no" for the others.
VARIABLES hurt, hollow, stale, told

files == <<disk, memFile, conf>>
talk == <<msgs, cur, fresh>>
ghosts == <<hurt, hollow, stale, told>>
vars == <<pc, raw, msgs, cur, fresh, todo, attempt, pending, disk, mem,
          memFile, conf, used, hurt, hollow, stale, told>>

NoLine == <<"none", "none">>
Keys == IdSet \cup Names \cup {DefaultName}

Current == Session(cur.id, cur.name, msgs)

\* What Save does to the ghosts when it drops messages.
Cut(ms, id) == IF Len(ms) > MaxSessionMessages THEN {id} ELSE {}

\* saveCurrentSession; the conversation in memory stays as long as it is.
saveCurrentSession ==
    /\ disk' = Save(disk, Current)
    /\ hurt' = hurt \cup Cut(msgs, cur.id)
    /\ stale' = FALSE

Init ==
    /\ pc = "down" /\ raw = TRUE
    /\ msgs = <<>> /\ cur = [id |-> "none", name |-> "none"] /\ fresh = 0
    /\ todo = 0 /\ attempt = 0 /\ pending = NoLine
    /\ disk = <<>> /\ conf = "absent"
    /\ mem = [a \in Aliases |-> "none"] /\ memFile = mem
    /\ used = [lines |-> 0, calls |-> 0, crashes |-> 0]
    /\ hurt = {} /\ hollow = {} /\ stale = FALSE /\ told = [a \in Aliases |-> "no"]

------------------------------------------------------------------------------
(* What becomes of the hosts that were described in full.                  *)

Moved(from, to) == [a \in Aliases |-> IF told[a] \in from THEN to ELSE told[a]]

\* A process that starts loads the file.
Loaded == Moved({"file"}, "here")

\* It writes its own map over the file, with what it was told now.
Overwritten == Moved({"file"}, "lost")

\* A second Memory has stored host a in the file.
StoredApart(a) == [told EXCEPT ![a] = IF @ = "here" THEN @ ELSE "file"]

------------------------------------------------------------------------------
(* Start, end and crash.                                                   *)

\* --continue names a session to go on with; a system message is appended to
\* whatever it holds, and Save trims before the conversation is taken over.
newTUI(key, isTerminal) ==
    LET loaded == Known(disk, key)
        s == IF loaded THEN Load(disk, key)
             ELSE Session(Ids[fresh + 1], DefaultName, <<>>)
        ms == Append(s.msgs, Msg("sys", s.id))
    IN  /\ pc \in {"down", "panicked"}
        /\ loaded \/ fresh < Len(Ids)
        /\ pc' = "prompt" /\ raw' = isTerminal
        /\ cur' = [id |-> s.id, name |-> s.name]
        /\ fresh' = IF loaded THEN fresh ELSE fresh + 1
        /\ disk' = Save(disk, [s EXCEPT !.msgs = ms])
        /\ msgs' = trimMessages(ms)
        /\ hurt' = hurt \cup Cut(ms, s.id)
        /\ mem' = memFile /\ told' = Loaded
        /\ pending' = NoLine /\ todo' = 0 /\ attempt' = 0 /\ stale' = FALSE
        /\ UNCHANGED <<memFile, conf, used, hollow>>

\* The process is killed: a file that was being written is cut short, the
\* session file at the end of a turn, the memory file while a tool runs.
Crash ==
    /\ pc \in {"prompt", "think", "tools"} /\ used.crashes < MaxCrashes
    /\ pc' = "down"
    /\ used' = [used EXCEPT !.crashes = @ + 1]
    /\ \/ UNCHANGED <<disk, memFile, told>>
       \/ /\ pc = "think"
          /\ disk' = Others(disk, cur.id)
          /\ UNCHANGED <<memFile, told>>
       \/ /\ pc = "tools"
          /\ memFile' = [a \in Aliases |-> "none"] /\ told' = Moved({"here", "file"}, "lost")
          /\ UNCHANGED disk
    /\ UNCHANGED <<raw, talk, todo, attempt, pending, mem, conf, hurt, hollow, stale>>

------------------------------------------------------------------------------
(* The prompt: run takes the pending answer before it reads a line.        *)

Reads(line) ==
    /\ pc = "prompt"
    /\ IF pending # NoLine
       THEN line = pending /\ pending' = NoLine /\ UNCHANGED used
       ELSE /\ line \in Typed /\ used.lines < MaxLines
            /\ used' = [used EXCEPT !.lines = @ + 1]
            /\ UNCHANGED pending

\* What readLine makes of a key: without a terminal a blank line ends the
\* input and the end of the input is a blank line.
readLine(key) ==
    CASE key = "ctrl-c" -> "cancelled"
      [] key = "ctrl-d" -> IF raw THEN "EOF" ELSE "blank"
      [] key = "enter" -> IF raw THEN "blank" ELSE "EOF"

still == <<raw, todo, attempt, mem, memFile, conf, hollow, told>>

\* exit, quit, q and the end of the input.
Exit ==
    /\ \/ Reads(<<"exit", "none">>)
       \/ \E key \in {"ctrl-d", "enter"} :
             Reads(<<"key", key>>) /\ readLine(key) = "EOF"
    /\ saveCurrentSession
    /\ pc' = "down"
    /\ UNCHANGED <<talk, still>>

\* Ctrl-C is an error of readLine: run returns it and saves nothing.
Cancel ==
    /\ Reads(<<"key", "ctrl-c">>) /\ readLine("ctrl-c") = "cancelled"
    /\ pc' = "down"
    /\ UNCHANGED <<talk, still, disk, hurt, stale>>

Blank ==
    /\ \E key \in {"ctrl-d", "enter"} :
          Reads(<<"key", key>>) /\ readLine(key) = "blank"
    /\ UNCHANGED <<pc, talk, still, disk, hurt, stale>>

SwitchOnly(s) ==
    cur' = [id |-> s.id, name |-> s.name] /\ UNCHANGED msgs

SwitchTo(s) ==
    cur' = [id |-> s.id, name |-> s.name] /\ msgs' = s.msgs

\* /session: the current conversation is saved even when the other is unknown.
SessionCmd(key) ==
    /\ Reads(<<"session", key>>)
    /\ disk' = Save(disk, Current)
    /\ hurt' = hurt \cup Cut(msgs, cur.id)
    /\ IF Known(disk', key) THEN SwitchTo(Load(disk', key)) ELSE UNCHANGED <<cur, msgs>>
    /\ stale' = (Known(disk', key) /\ Load(disk', key).file = Copy)
    /\ UNCHANGED <<pc, fresh, still>>

\* /new reads t.msgs[0] for the text of the system message.
NewCmd(name) ==
    /\ Reads(<<"new", name>>) /\ fresh < Len(Ids)
    /\ IF msgs = <<>>
       THEN pc' = "panicked" /\ saveCurrentSession /\ UNCHANGED talk
       ELSE /\ fresh' = fresh + 1
            /\ cur' = [id |-> Ids[fresh'], name |-> name]
            /\ msgs' = <<Msg("sys", cur'.id)>>
            /\ disk' = Save(Save(disk, Current), Session(cur'.id, name, msgs'))
            /\ hurt' = hurt \cup Cut(msgs, cur.id)
            /\ stale' = FALSE
            /\ UNCHANGED pc
    /\ UNCHANGED still

\* /rename loads the stored session, renames and saves it; a session whose
\* file is gone keeps its name.
RenameCmd(name) ==
    /\ Reads(<<"rename", name>>)
    /\ disk' = Rename(disk, cur.id, name)
    /\ cur' = IF Known(disk, cur.id) THEN [cur EXCEPT !.name = name] ELSE cur
    /\ UNCHANGED <<pc, msgs, fresh, still, hurt, stale>>

\* /delete refuses the id and the name of the current session.
DeleteCmd(key) ==
    /\ Reads(<<"delete", key>>)
    /\ disk' = IF key \in {cur.id, cur.name} THEN disk ELSE Delete(disk, key)
    /\ stale' = (stale \/ (disk' # disk /\ Load(disk, key).id = cur.id))
    /\ UNCHANGED <<pc, talk, still, hurt>>

\* /clear keeps t.msgs[0].
ClearCmd ==
    /\ Reads(<<"clear", "none">>)
    /\ IF msgs = <<>>
       THEN pc' = "panicked" /\ UNCHANGED <<msgs, disk, stale>>
       ELSE /\ msgs' = <<msgs[1]>>
            /\ disk' = Save(disk, Session(cur.id, cur.name, msgs'))
            /\ stale' = FALSE
            /\ UNCHANGED pc
    /\ UNCHANGED <<cur, fresh, still, hurt>>

\* The tool session_export and the command /session-export.
ExportTo(key) == disk' = Export(disk, key) /\ UNCHANGED stale

ExportCmd(key) ==
    /\ Reads(<<"export", key>>)
    /\ ExportTo(key)
    /\ UNCHANGED <<pc, talk, still, hurt>>

\* The tool session_import and the command /session-import, of the copy.
ImportFrom(file) ==
    /\ disk' = IF Known(disk, file) THEN Import(disk, Load(disk, file)) ELSE disk
    /\ stale' = (stale \/ (Known(disk, file) /\ Load(disk, file).id = cur.id))

ImportCmd ==
    /\ Reads(<<"import", Copy>>)
    /\ ImportFrom(Copy)
    /\ UNCHANGED <<pc, talk, still, hurt>>

\* A CLI shortcut runs the program once more: /init writes the example, and
\* /scp and /run with full arguments store the host in the file alone.
runCli(sub) ==
    /\ Reads(<<"cli", sub>>)
    /\ conf' = IF sub = "init" THEN "valid" ELSE conf
    /\ IF sub \in Aliases
       THEN memFile' = [memFile EXCEPT ![sub] = "full"] /\ told' = StoredApart(sub)
       ELSE UNCHANGED <<memFile, told>>
    /\ UNCHANGED <<pc, raw, talk, todo, attempt, mem, hollow, disk, hurt, stale>>

Chat ==
    /\ Reads(<<"chat", "none">>)
    /\ pc' = "think" /\ attempt' = 0
    /\ msgs' = Append(msgs, Msg("user", cur.id))
    /\ UNCHANGED <<raw, cur, fresh, todo, files, mem, ghosts>>

------------------------------------------------------------------------------
(* A turn: Complete, then the tools, until an answer asks for none.        *)

EndUnsaved(ms) ==
    /\ pc' = "prompt" /\ msgs' = ms
    /\ UNCHANGED <<disk, stale, cur, fresh, pending, used, still>>

EndTurn(ms) ==
    /\ pc' = "prompt" /\ msgs' = ms
    /\ disk' = Save(disk, Session(cur.id, cur.name, ms))
    /\ stale' = FALSE
    /\ UNCHANGED <<cur, fresh, pending, used, still>>

\* What doOnce makes of a response: the code is looked at after the body, so
\* a 429 or 5xx that carries a JSON error is not retried.
Responses ==
    [status : {200, 401, 429, 500}, json : BOOLEAN, error : BOOLEAN, choices : 0..1]

doOnce(r) ==
    CASE ~r.json -> IF r.status >= 500 THEN "retry" ELSE "fail"
      [] r.json /\ r.error -> "fail"
      [] r.json /\ ~r.error /\ r.status = 200 /\ r.choices > 0 -> "message"
      [] OTHER -> IF r.status = 429 \/ r.status >= 500 THEN "retry" ELSE "fail"

\* A network error and the client's timeout are retried as well.
Outcomes == {doOnce(r) : r \in Responses} \cup {"retry"}

RetryAfresh ==
    /\ pc = "think"
    /\ attempt' = IF attempt < Retries THEN attempt + 1 ELSE 0
    /\ UNCHANGED <<pc, raw, talk, todo, pending, files, mem, used, ghosts>>

\* The loop of Complete goes on while attempts remain.
Retry ==
    /\ pc = "think" /\ "retry" \in Outcomes /\ attempt < Retries
    /\ attempt' = attempt + 1
    /\ UNCHANGED <<pc, raw, talk, todo, pending, files, mem, used, ghosts>>

\* The assistant's message without tool calls ends the turn.
Answer ==
    /\ pc = "think" /\ "message" \in Outcomes
    /\ EndTurn(Append(msgs, Msg("asst", cur.id)))
    /\ hurt' = hurt \cup Cut(msgs', cur.id)

\* One with k tool calls; there is no limit on the rounds of one turn.
CallTools(k) ==
    /\ pc = "think" /\ used.calls + k <= MaxCalls
    /\ pc' = "tools" /\ todo' = k
    /\ msgs' = Append(msgs, Msg(IF k = 1 THEN "call1" ELSE "call2", cur.id))
    /\ used' = [used EXCEPT !.calls = @ + k]
    /\ UNCHANGED <<raw, cur, fresh, attempt, pending, files, mem, ghosts>>

KeepLine(ms) == ms

\* The error path takes back the message that was appended last.
takeBack(ms) == Front(ms)

\* An error that is not worth a retry, or the last attempt's.
Fail ==
    /\ pc = "think"
    /\ "fail" \in Outcomes \/ attempt = Retries
    /\ EndTurn(takeBack(msgs))
    /\ hurt' = hurt \cup Cut(msgs', cur.id)
                    \cup (IF Last(msgs).role = "tool" THEN {cur.id} ELSE {})

ReturnSilent ==
    /\ pc = "tools"
    /\ todo' = todo - 1
    /\ pc' = IF todo = 1 THEN "think" ELSE "tools"
    /\ attempt' = 0
    /\ UNCHANGED <<msgs, raw, cur, used>>

\* Registry.Call returned: the result is one more message.
Return ==
    /\ pc = "tools"
    /\ msgs' = Append(msgs, Msg("tool", cur.id))
    /\ todo' = todo - 1
    /\ pc' = IF todo = 1 THEN "think" ELSE "tools"
    /\ attempt' = 0
    /\ UNCHANGED <<raw, cur, used>>

\* tuiAsk: Enter stores the answer for the prompt too; Ctrl-C, Ctrl-D and the
\* prompters used without a terminal leave what was stored before.
tuiAsk == pending' = pending \/ (raw /\ pending' \in Answers)

\* Tools that read, tools of other components (service, sysproxy), an unknown
\* tool, and a handler that panics: Call recovers and returns "".
Look ==
    Return /\ UNCHANGED <<fresh, pending, files, mem, ghosts>>

ask_human ==
    Return /\ tuiAsk /\ UNCHANGED <<fresh, files, mem, ghosts>>

AskedOnly(had, got) == got

\* What ResolveHost knows in the end: memory first, then the answers.
mergeHost(had, got) == IF had = "full" THEN had ELSE got

\* Memory.Set writes the whole map.
Set(m) == mem' = m /\ memFile' = m

\* ResolveHost stores what it was told before anybody tries it.
file_copy(a, got) ==
    LET level == mergeHost(mem[a], got)
    IN  /\ Return
        /\ IF mem[a] = "full" THEN UNCHANGED pending ELSE tuiAsk
        /\ Set([mem EXCEPT ![a] = level])
        /\ told' = IF level = "full" THEN [Overwritten EXCEPT ![a] = "here"] ELSE Overwritten
        /\ UNCHANGED <<fresh, disk, conf, hurt, hollow, stale>>

\* run_remote opens a Memory of its own on the same file; the TUI's map does
\* not learn of it before the next start.
run_remote(a, got) ==
    LET level == mergeHost(memFile[a], got)
    IN  /\ Return
        /\ IF memFile[a] = "full" THEN UNCHANGED pending ELSE tuiAsk
        /\ memFile' = [memFile EXCEPT ![a] = level]
        /\ told' = IF level = "full" THEN StoredApart(a) ELSE told
        /\ UNCHANGED <<fresh, mem, disk, conf, hurt, hollow, stale>>

\* Any other fact: the whole map is written all the same.
remember ==
    /\ Return /\ Set(mem) /\ told' = Overwritten
    /\ UNCHANGED <<fresh, pending, disk, conf, hurt, hollow, stale>>

\* session_save stores an empty session under a new name, and a known one as
\* it is; the conversation that asks for it is not in it.
session_save(name) ==
    /\ Return
    /\ IF Known(disk, name)
       THEN disk' = Save(disk, Load(disk, name)) /\ UNCHANGED <<fresh, hollow>>
       ELSE /\ fresh < Len(Ids) /\ fresh' = fresh + 1
            /\ disk' = Save(disk, Session(Ids[fresh'], name, <<>>))
            /\ hollow' = hollow \cup {Ids[fresh']}
    /\ stale' = (stale \/ Head(disk').id = cur.id)
    /\ UNCHANGED <<pending, mem, memFile, conf, hurt, told>>

session_export(key) ==
    Return /\ ExportTo(key) /\ UNCHANGED <<fresh, pending, mem, memFile, conf, hurt, hollow, told>>

session_import ==
    Return /\ ImportFrom(Copy) /\ UNCHANGED <<fresh, pending, mem, memFile, conf, hurt, hollow, told>>

\* A text that does not load is refused; one that loads is not validated.
update_config(yaml) ==
    /\ Return
    /\ conf' = IF yaml = "broken" THEN conf ELSE yaml
    /\ UNCHANGED <<fresh, pending, disk, mem, memFile, ghosts>>

\* A valid configuration is written once the user said yes; without a
\* terminal the question is never answered and nothing is written.
gen_config(yes) ==
    /\ Return
    /\ IF yes THEN raw /\ conf' = "valid" /\ pending' = <<"chat", "none">>
       ELSE UNCHANGED conf /\ tuiAsk
    /\ UNCHANGED <<fresh, disk, mem, memFile, ghosts>>

\* The default may name a proxy the group does not have.
switch_group(sound) ==
    /\ Return
    /\ conf' = IF conf = "absent" \/ sound THEN conf ELSE "loads"
    /\ UNCHANGED <<fresh, pending, disk, mem, memFile, ghosts>>

\* The tool init writes the example.
init ==
    Return /\ conf' = "valid" /\ UNCHANGED <<fresh, pending, disk, mem, memFile, ghosts>>

------------------------------------------------------------------------------
Commands ==
    \/ Exit \/ Cancel \/ Blank \/ ClearCmd \/ ImportCmd \/ Chat
    \/ \E key \in Keys : SessionCmd(key) \/ DeleteCmd(key) \/ ExportCmd(key)
    \/ \E name \in Names : RenameCmd(name) \/ NewCmd(name)
    \/ \E sub \in Aliases \cup {"init", "status"} : runCli(sub)

Tools ==
    \/ Look \/ ask_human \/ remember \/ init
    \/ \E a \in Aliases, got \in {"part", "full"} : file_copy(a, got) \/ run_remote(a, got)
    \/ \E name \in Names : session_save(name) \/ session_export(name)
    \/ session_import
    \/ \E yaml \in {"broken", "loads", "valid"} : update_config(yaml)
    \/ \E b \in BOOLEAN : gen_config(b) \/ switch_group(b)

Complete == Answer \/ Retry \/ Fail \/ \E k \in 1..2 : CallTools(k)

Next ==
    \/ \E key \in Keys \cup {"none"}, r \in BOOLEAN : newTUI(key, r)
    \/ Crash \/ Commands \/ Complete \/ Tools

\* The http client has a timeout and the loop an upper bound; nothing obliges
\* a user to type or to answer, or a tool to come back.
Spec == Init /\ [][Next]_vars /\ WF_vars(Complete)

------------------------------------------------------------------------------
\* A conversation that is sent to the endpoint answers every tool call it
\* holds, unless an earlier failure took back an answer (run's error path) or
\* a save trimmed the conversation (trimMessages cuts between call and answer).
AnsweredUnlessHurt ==
    pc = "think" /\ cur.id \notin hurt => Answered(msgs)

\* No turn leaves its line behind unanswered: two user messages never follow
\* each other, whatever fails, crashes, is trimmed or is loaded again (run's
\* error path).  Only a session stored by session_save, which begins with
\* nothing, may keep a line alone: /clear takes its first one for the system's.
LinesAnswered ==
    cur.id \notin hollow =>
        \A i \in 1..Len(msgs) - 1 : ~(msgs[i].role = "user" /\ msgs[i + 1].role = "user")

\* Whenever the prompt waits, the session file holds the conversation as
\* trimMessages leaves it, so that a crash there loses nothing; except after
\* an import over the current session, the deletion of a copy of it, or a
\* switch by name to such a copy (Load takes the copy for the session).
StoredAtPrompt ==
    pc = "prompt" /\ ~stale =>
        Known(disk, cur.id) /\ Load(disk, cur.id).msgs = trimMessages(msgs)

\* A session begins with its system message, through every trim, switch and
\* restart, and t.msgs[0] exists when /new and /clear read it; only a session
\* stored by session_save begins with nothing.
SystemFirst ==
    /\ pc \in {"prompt", "think", "tools"} /\ cur.id \notin hollow =>
           msgs # <<>> /\ Head(msgs).role = "sys"
    /\ pc = "panicked" => cur.id \in hollow

\* A session file holds messages of its own session only (the switches save
\* the old conversation under the old id before they take the new one over).
NoMixing ==
    \A i \in DOMAIN disk : \A j \in DOMAIN disk[i].msgs :
        disk[i].msgs[j].of = disk[i].id

\* ResolveHost stores a host "so this host never needs prompting again".  What
\* holds of it, over three writers of one file (file_copy and remember with the
\* TUI's map, run_remote and the CLI with a Memory of their own): a host that
\* was described in full, to whichever of them, is in the file, for this process
\* and later ones, and in the TUI's own map once that was told or has loaded it.
\* Two things lose it: a crash that cuts the file short; and, for a host that
\* only run_remote or the CLI was told, the next Set of the TUI, whose map was
\* loaded before.  Nothing else does, and nothing but a crash loses a host that
\* the TUI's map holds.
HostsStayKnown ==
    \A a \in Aliases :
        /\ told[a] \in {"here", "file"} => memFile[a] = "full"
        /\ told[a] = "here" /\ pc \notin {"down", "panicked"} => mem[a] = "full"

\* Complete comes back: no failure of the endpoint is retried for ever.
CompleteReturns == pc = "think" ~> pc # "think"
==============================================================================

------------------------ MODULE AgentServicesProofs ------------------------
(***************************************************************************)
(* A TUI that alone starts a service always lists the child that is alive. *)
(* The invariant alone is not inductive: Stop empties the table when it    *)
(* has killed whatever pid was on file, so the pid on file has to be that  *)
(* of the live child (FileIsLatest), which in turn needs to know how far   *)
(* the call that starts a child has come (StartInv).                       *)
(***************************************************************************)
EXTENDS AgentServices, TLAPS

LiveChild(l, i) == parent[i] = l /\ proc[i] = "alive"

\* A command only stops.
CliInv ==
  \A c \in Cli :
    /\ pc[c] \in {"stop", "kill", "discard", "unfile", "forget", "exit", "ended"}
    /\ then[c] = "exit"

\* Only a TUI has children; a child is not waited for before it was born, and
\* one that was waited for is not alive.
ChildInv ==
  \A i \in Inst :
    /\ parent[i] # None => parent[i] \in Tui
    /\ proc[i] = "unborn" => parent[i] = None /\ waiter[i] = "none"
    /\ waiter[i] \in {"waiting", "reaped", "unfiled"} => parent[i] # None
    /\ proc[i] = "alive" /\ parent[i] # None => ~Exited(i)

\* How far ServiceStart has come with its child.
StartInv ==
  \A l \in Tui :
    /\ pc[l] \in {"enter", "create", "write"} =>
         /\ target[l] \in Inst
         /\ parent[target[l]] = l
         /\ waiter[target[l]] = "none"
         /\ \A i \in Inst : LiveChild(l, i) => i = target[l]
    /\ pc[l] \in {"create", "write"} => table[l] = target[l]
    /\ pc[l] = "write" => pidFile \notin Inst

\* The pid on file is that of the live child, if there is one.
FileIsLatest ==
  \A l \in Tui, i \in Inst :
    LiveChild(l, i) /\ pc[l] \notin {"enter", "create"} /\ pidFile \in Inst =>
      pidFile = i

\* Stop kills the live child, or there is none.
StopInv ==
  /\ \A l \in Launcher : pc[l] = "kill" => target[l] \in Inst
  /\ \A l \in Tui, i \in Inst :
       LiveChild(l, i) =>
         /\ pc[l] = "kill" => target[l] = i
         /\ pc[l] \notin {"unfile", "forget"}

ServicesInv ==
  TypeOK /\ CliInv /\ ChildInv /\ StartInv /\ FileIsLatest /\ StopInv /\ LiveChildListed

-----------------------------------------------------------------------------
\* A TUI starts.
LEMMA LaunchTuiStep ==
  ASSUME SingleStarter, ServicesInv, NEW l \in Tui, LaunchTui(l)
  PROVE  ServicesInv'
<1>1. TypeOK'
  BY DEF ServicesInv, LaunchTui, procVars, fileVars, callVars, Launcher,
     TypeOK, CliInv
<1>2. ChildInv'
  BY DEF ServicesInv, LaunchTui, procVars, fileVars, callVars, TypeOK,
     ChildInv, Exited
<1>3. CliInv'
  BY ServicesAssumption DEF ServicesInv, LaunchTui, procVars, fileVars,
     callVars, TypeOK, CliInv
<1>4. StartInv'
  BY DEF ServicesInv, LaunchTui, procVars, fileVars, callVars, TypeOK,
     StartInv, LiveChild
<1>5. FileIsLatest'
  BY DEF ServicesInv, LaunchTui, procVars, fileVars, callVars, TypeOK,
     FileIsLatest, LiveChild
<1>6. StopInv'
  BY DEF ServicesInv, LaunchTui, procVars, fileVars, callVars, TypeOK,
     StopInv, LiveChild
<1>7. LiveChildListed'
  BY DEF ServicesInv, LaunchTui, procVars, fileVars, callVars, TypeOK,
     LiveChildListed
<1> QED  BY <1>1, <1>2, <1>3, <1>4, <1>5, <1>6, <1>7 DEF ServicesInv

\* A command starts.
LEMMA LaunchCliStep ==
  ASSUME SingleStarter, ServicesInv, NEW l \in Cli, LaunchCli(l)
  PROVE  ServicesInv'
<1>1. TypeOK'
  BY DEF ServicesInv, LaunchCli, procVars, fileVars, callVars, Launcher,
     TypeOK, CliInv
<1>2. ChildInv'
  BY DEF ServicesInv, LaunchCli, procVars, fileVars, callVars, TypeOK,
     ChildInv, Exited
<1>3. CliInv'
  <2>1. PICK c \in CliCommand :
          then' = [then EXCEPT ![l] = IF c = "restart" THEN "start" ELSE "exit"]
    BY DEF LaunchCli
  <2>2. c = "stop"
    BY <2>1 DEF SingleStarter
  <2>3. then' = [then EXCEPT ![l] = "exit"]
    BY <2>1, <2>2
  <2> QED  BY <2>3 DEF ServicesInv, LaunchCli, TypeOK, CliInv, Launcher
<1>4. StartInv'
  BY DEF ServicesInv, LaunchCli, procVars, fileVars, callVars, TypeOK,
     StartInv, LiveChild
<1>5. FileIsLatest'
  BY DEF ServicesInv, LaunchCli, procVars, fileVars, callVars, TypeOK,
     FileIsLatest, LiveChild
<1>6. StopInv'
  BY DEF ServicesInv, LaunchCli, procVars, fileVars, callVars, TypeOK,
     StopInv, LiveChild
<1>7. LiveChildListed'
  BY DEF ServicesInv, LaunchCli, procVars, fileVars, callVars, TypeOK,
     LiveChildListed
<1> QED  BY <1>1, <1>2, <1>3, <1>4, <1>5, <1>6, <1>7 DEF ServicesInv

\* The agent calls its service tool.
LEMMA AskStep ==
  ASSUME SingleStarter, ServicesInv, NEW l \in Tui, Ask(l)
  PROVE  ServicesInv'
<1>1. TypeOK'
  BY DEF ServicesInv, Ask, Goto, procVars, fileVars, callVars, Launcher,
     TypeOK, CliInv
<1>2. ChildInv'
  BY DEF ServicesInv, Ask, Goto, procVars, fileVars, callVars, TypeOK,
     ChildInv, Exited
<1>3. CliInv'
  BY DEF ServicesInv, Ask, Goto, procVars, fileVars, callVars, TypeOK,
     CliInv
<1>4. StartInv'
  BY DEF ServicesInv, Ask, Goto, procVars, fileVars, callVars, TypeOK,
     StartInv, LiveChild
<1>5. FileIsLatest'
  BY DEF ServicesInv, Ask, Goto, procVars, fileVars, callVars, TypeOK,
     FileIsLatest, LiveChild
<1>6. StopInv'
  BY DEF ServicesInv, Ask, Goto, procVars, fileVars, callVars, TypeOK,
     StopInv, LiveChild
<1>7. LiveChildListed'
  BY DEF ServicesInv, Ask, Goto, procVars, fileVars, callVars, TypeOK,
     LiveChildListed
<1> QED  BY <1>1, <1>2, <1>3, <1>4, <1>5, <1>6, <1>7 DEF ServicesInv

\* ServiceStart finds the entry of a running child.
LEMMA StartRefusedStep ==
  ASSUME SingleStarter, ServicesInv, NEW l \in Launcher, StartRefused(l)
  PROVE  ServicesInv'
<1>1. TypeOK'
  BY DEF ServicesInv, StartRefused, Return, procVars, fileVars, callVars,
     TypeOK
<1>2. ChildInv'
  BY DEF ServicesInv, StartRefused, Return, procVars, fileVars, callVars,
     TypeOK, ChildInv, Exited
<1>3. CliInv'
  BY DEF ServicesInv, StartRefused, Return, procVars, fileVars, callVars,
     TypeOK, CliInv
<1>4. StartInv'
  BY DEF ServicesInv, StartRefused, Return, procVars, fileVars, callVars,
     TypeOK, StartInv, LiveChild
<1>5. FileIsLatest'
  BY DEF ServicesInv, StartRefused, Return, procVars, fileVars, callVars,
     TypeOK, FileIsLatest, LiveChild
<1>6. StopInv'
  BY DEF ServicesInv, StartRefused, Return, procVars, fileVars, callVars,
     TypeOK, StopInv, LiveChild
<1>7. LiveChildListed'
  BY DEF ServicesInv, StartRefused, Return, procVars, fileVars, callVars,
     TypeOK, LiveChildListed
<1> QED  BY <1>1, <1>2, <1>3, <1>4, <1>5, <1>6, <1>7 DEF ServicesInv

\* ServiceStart cannot run the program.
LEMMA StartFailsStep ==
  ASSUME SingleStarter, ServicesInv, NEW l \in Launcher, StartFails(l)
  PROVE  ServicesInv'
<1>1. TypeOK'
  BY DEF ServicesInv, StartFails, Return, procVars, fileVars, callVars,
     TypeOK
<1>2. ChildInv'
  BY DEF ServicesInv, StartFails, Return, procVars, fileVars, callVars,
     TypeOK, ChildInv, Exited
<1>3. CliInv'
  BY DEF ServicesInv, StartFails, Return, procVars, fileVars, callVars,
     TypeOK, CliInv
<1>4. StartInv'
  BY DEF ServicesInv, StartFails, Return, procVars, fileVars, callVars,
     TypeOK, StartInv, LiveChild
<1>5. FileIsLatest'
  BY DEF ServicesInv, StartFails, Return, procVars, fileVars, callVars,
     TypeOK, FileIsLatest, LiveChild
<1>6. StopInv'
  BY DEF ServicesInv, StartFails, Return, procVars, fileVars, callVars,
     TypeOK, StopInv, LiveChild
<1>7. LiveChildListed'
  BY DEF ServicesInv, StartFails, Return, procVars, fileVars, callVars,
     TypeOK, LiveChildListed
<1> QED  BY <1>1, <1>2, <1>3, <1>4, <1>5, <1>6, <1>7 DEF ServicesInv

\* ServiceStart runs the program: there is no live child, as the table has none.
LEMMA SpawnStep ==
  ASSUME SingleStarter, ServicesInv, NEW l \in Launcher, Spawn(l)
  PROVE  ServicesInv'
<1>1. TypeOK'
  BY DEF ServicesInv, Spawn, Goto, AlreadyRunning, procVars, fileVars,
     callVars, TypeOK
<1>2. CliInv'
  BY DEF ServicesInv, Spawn, Goto, AlreadyRunning, procVars, fileVars,
     callVars, TypeOK, CliInv
<1>3. ChildInv'
  BY DEF ServicesInv, Spawn, Goto, AlreadyRunning, procVars, fileVars,
     callVars, Launcher, TypeOK, CliInv, ChildInv, Exited
<1>4. StartInv'
  BY ServicesAssumption DEF ServicesInv, Spawn, Goto, AlreadyRunning,
     procVars, fileVars, callVars, Launcher, TypeOK, CliInv, ChildInv,
     StartInv, FileIsLatest, LiveChildListed, LiveChild
<1>5. FileIsLatest'
  BY DEF ServicesInv, Spawn, Goto, AlreadyRunning, procVars, fileVars,
     callVars, TypeOK, FileIsLatest, LiveChild
<1>6. StopInv'
  BY DEF ServicesInv, Spawn, Goto, AlreadyRunning, procVars, fileVars,
     callVars, TypeOK, StopInv, LiveChild
<1>7. LiveChildListed'
  BY DEF ServicesInv, Spawn, Goto, AlreadyRunning, procVars, fileVars,
     callVars, TypeOK, LiveChildListed
<1> QED  BY <1>1, <1>2, <1>3, <1>4, <1>5, <1>6, <1>7 DEF ServicesInv

\* ServiceStart enters the child.
LEMMA EnterTableStep ==
  ASSUME SingleStarter, ServicesInv, NEW l \in Launcher, EnterTable(l)
  PROVE  ServicesInv'
<1>1. TypeOK'
  BY DEF ServicesInv, EnterTable, Goto, procVars, fileVars, callVars, TypeOK
<1>2. ChildInv'
  BY DEF ServicesInv, EnterTable, Goto, procVars, fileVars, callVars,
     TypeOK, ChildInv, Exited
<1>3. CliInv'
  BY DEF ServicesInv, EnterTable, Goto, procVars, fileVars, callVars,
     TypeOK, CliInv
<1>4. StartInv'
  BY DEF ServicesInv, EnterTable, Goto, procVars, fileVars, callVars,
     TypeOK, StartInv, LiveChild
<1>5. FileIsLatest'
  BY DEF ServicesInv, EnterTable, Goto, procVars, fileVars, callVars,
     TypeOK, FileIsLatest, LiveChild
<1>6. StopInv'
  BY DEF ServicesInv, EnterTable, Goto, procVars, fileVars, callVars,
     TypeOK, StopInv, LiveChild
<1>7. LiveChildListed'
  BY DEF ServicesInv, EnterTable, Goto, procVars, fileVars, callVars,
     SingleStarter, Launcher, TypeOK, CliInv, StartInv, LiveChildListed,
     LiveChild
<1> QED  BY <1>1, <1>2, <1>3, <1>4, <1>5, <1>6, <1>7 DEF ServicesInv

\* RecordPID truncates the file.
LEMMA CreatePIDFileStep ==
  ASSUME SingleStarter, ServicesInv, NEW l \in Launcher, CreatePIDFile(l)
  PROVE  ServicesInv'
<1>1. TypeOK'
  BY DEF ServicesInv, CreatePIDFile, Goto, procVars, fileVars, callVars,
     TypeOK
<1>2. ChildInv'
  BY DEF ServicesInv, CreatePIDFile, Goto, procVars, fileVars, callVars,
     TypeOK, ChildInv, Exited
<1>3. CliInv'
  BY DEF ServicesInv, CreatePIDFile, Goto, procVars, fileVars, callVars,
     TypeOK, CliInv
<1>4. StartInv'
  BY ServicesAssumption DEF ServicesInv, CreatePIDFile, Goto, procVars,
     fileVars, callVars, TypeOK, StartInv, LiveChild
<1>5. FileIsLatest'
  BY ServicesAssumption DEF ServicesInv, CreatePIDFile, Goto, procVars,
     fileVars, callVars, TypeOK, FileIsLatest, LiveChild
<1>6. StopInv'
  BY DEF ServicesInv, CreatePIDFile, Goto, procVars, fileVars, callVars,
     TypeOK, StopInv, LiveChild
<1>7. LiveChildListed'
  BY DEF ServicesInv, CreatePIDFile, Goto, procVars, fileVars, callVars,
     TypeOK, LiveChildListed
<1> QED  BY <1>1, <1>2, <1>3, <1>4, <1>5, <1>6, <1>7 DEF ServicesInv

\* RecordPID writes the pid of the only live child.
LEMMA WritePIDStep ==
  ASSUME SingleStarter, ServicesInv, NEW l \in Launcher, WritePID(l)
  PROVE  ServicesInv'
<1>1. TypeOK'
  BY DEF ServicesInv, WritePID, Return, procVars, fileVars, callVars,
     Launcher, TypeOK, CliInv, StartInv
<1>2. CliInv'
  BY DEF ServicesInv, WritePID, Return, procVars, fileVars, callVars,
     TypeOK, CliInv
<1>3. ChildInv'
  BY ServicesAssumption DEF ServicesInv, WritePID, Return, procVars,
     fileVars, callVars, Launcher, TypeOK, CliInv, ChildInv, StartInv,
     Exited
<1>4. StartInv'
  BY DEF ServicesInv, WritePID, Return, procVars, fileVars, callVars,
     SingleStarter, Launcher, TypeOK, CliInv, ChildInv, StartInv, LiveChild
<1>5. FileIsLatest'
  BY DEF ServicesInv, WritePID, Return, procVars, fileVars, callVars,
     SingleStarter, Launcher, TypeOK, CliInv, ChildInv, StartInv,
     FileIsLatest, LiveChild
<1>6. StopInv'
  BY DEF ServicesInv, WritePID, Return, procVars, fileVars, callVars,
     TypeOK, StopInv, LiveChild
<1>7. LiveChildListed'
  BY DEF ServicesInv, WritePID, Return, procVars, fileVars, callVars,
     TypeOK, LiveChildListed
<1> QED  BY <1>1, <1>2, <1>3, <1>4, <1>5, <1>6, <1>7 DEF ServicesInv

\* Stop reads the pid of the live child, if there is one.
LEMMA ReadPIDStep ==
  ASSUME SingleStarter, ServicesInv, NEW l \in Launcher, ReadPID(l)
  PROVE  ServicesInv'
<1>1. TypeOK'
  BY DEF ServicesInv, ReadPID, Return, Goto, procVars, fileVars, callVars,
     TypeOK
<1>2. ChildInv'
  BY DEF ServicesInv, ReadPID, Return, Goto, procVars, fileVars, callVars,
     TypeOK, ChildInv, Exited
<1>3. CliInv'
  BY DEF ServicesInv, ReadPID, Return, Goto, procVars, fileVars, callVars,
     Launcher, TypeOK, CliInv
<1>4. StartInv'
  BY DEF ServicesInv, ReadPID, Return, Goto, procVars, fileVars, callVars,
     Launcher, TypeOK, CliInv, StartInv, LiveChild
<1>5. FileIsLatest'
  BY DEF ServicesInv, ReadPID, Return, Goto, procVars, fileVars, callVars,
     Launcher, TypeOK, CliInv, FileIsLatest, LiveChild
<1>6. StopInv'
  BY DEF ServicesInv, ReadPID, Return, Goto, procVars, fileVars, callVars,
     Launcher, TypeOK, CliInv, ChildInv, StartInv, FileIsLatest, StopInv,
     LiveChildListed, LiveChild
<1>7. LiveChildListed'
  BY DEF ServicesInv, ReadPID, Return, Goto, procVars, fileVars, callVars,
     TypeOK, LiveChildListed
<1> QED  BY <1>1, <1>2, <1>3, <1>4, <1>5, <1>6, <1>7 DEF ServicesInv

\* Stop kills it.
LEMMA KillStep ==
  ASSUME SingleStarter, ServicesInv, NEW l \in Launcher, Kill(l)
  PROVE  ServicesInv'
<1>1. TypeOK'
  BY DEF ServicesInv, Kill, Goto, Dead, procVars, fileVars, callVars,
     TypeOK, StopInv, LiveChild
<1>2. CliInv'
  BY DEF ServicesInv, Kill, Goto, Dead, procVars, fileVars, callVars,
     TypeOK, CliInv
<1>3. ChildInv'
  BY DEF ServicesInv, Kill, Goto, Dead, procVars, fileVars, callVars,
     TypeOK, ChildInv, Exited
<1>4. StartInv'
  BY DEF ServicesInv, Kill, Goto, Dead, procVars, fileVars, callVars,
     TypeOK, StartInv, LiveChild
<1>5. FileIsLatest'
  BY DEF ServicesInv, Kill, Goto, Dead, procVars, fileVars, callVars,
     TypeOK, FileIsLatest, LiveChild
<1>6. StopInv'
  BY DEF ServicesInv, Kill, Goto, Dead, procVars, fileVars, callVars,
     TypeOK, StopInv, LiveChild
<1>7. LiveChildListed'
  BY DEF ServicesInv, Kill, Goto, Dead, procVars, fileVars, callVars,
     TypeOK, LiveChildListed
<1> QED  BY <1>1, <1>2, <1>3, <1>4, <1>5, <1>6, <1>7 DEF ServicesInv

\* Stop gives up.
LEMMA DiscardStep ==
  ASSUME SingleStarter, ServicesInv, NEW l \in Launcher, Discard(l)
  PROVE  ServicesInv'
<1>1. TypeOK'
  BY DEF ServicesInv, Discard, Return, DeletePID, procVars, fileVars,
     callVars, TypeOK
<1>2. ChildInv'
  BY DEF ServicesInv, Discard, Return, DeletePID, procVars, fileVars,
     callVars, TypeOK, ChildInv, Exited
<1>3. CliInv'
  BY DEF ServicesInv, Discard, Return, DeletePID, procVars, fileVars,
     callVars, TypeOK, CliInv
<1>4. StartInv'
  BY ServicesAssumption DEF ServicesInv, Discard, Return, DeletePID,
     procVars, fileVars, callVars, TypeOK, StartInv, LiveChild
<1>5. FileIsLatest'
  BY ServicesAssumption DEF ServicesInv, Discard, Return, DeletePID,
     procVars, fileVars, callVars, TypeOK, FileIsLatest, LiveChild
<1>6. StopInv'
  BY DEF ServicesInv, Discard, Return, DeletePID, procVars, fileVars,
     callVars, TypeOK, StopInv, LiveChild
<1>7. LiveChildListed'
  BY DEF ServicesInv, Discard, Return, DeletePID, procVars, fileVars,
     callVars, TypeOK, LiveChildListed
<1> QED  BY <1>1, <1>2, <1>3, <1>4, <1>5, <1>6, <1>7 DEF ServicesInv

\* Stop deletes the pid file.
LEMMA UnfileStep ==
  ASSUME SingleStarter, ServicesInv, NEW l \in Launcher, Unfile(l)
  PROVE  ServicesInv'
<1>1. TypeOK'
  BY DEF ServicesInv, Unfile, Goto, DeletePID, procVars, fileVars, callVars,
     TypeOK
<1>2. ChildInv'
  BY DEF ServicesInv, Unfile, Goto, DeletePID, procVars, fileVars, callVars,
     TypeOK, ChildInv, Exited
<1>3. CliInv'
  BY DEF ServicesInv, Unfile, Goto, DeletePID, procVars, fileVars, callVars,
     TypeOK, CliInv
<1>4. StartInv'
  BY ServicesAssumption DEF ServicesInv, Unfile, Goto, DeletePID, procVars,
     fileVars, callVars, TypeOK, StartInv, LiveChild
<1>5. FileIsLatest'
  BY ServicesAssumption DEF ServicesInv, Unfile, Goto, DeletePID, procVars,
     fileVars, callVars, TypeOK, FileIsLatest, LiveChild
<1>6. StopInv'
  BY DEF ServicesInv, Unfile, Goto, DeletePID, procVars, fileVars, callVars,
     TypeOK, StopInv, LiveChild
<1>7. LiveChildListed'
  BY DEF ServicesInv, Unfile, Goto, DeletePID, procVars, fileVars, callVars,
     TypeOK, LiveChildListed
<1> QED  BY <1>1, <1>2, <1>3, <1>4, <1>5, <1>6, <1>7 DEF ServicesInv

\* Stop empties the table, when no child is alive.
LEMMA ForgetStep ==
  ASSUME SingleStarter, ServicesInv, NEW l \in Launcher, Forget(l)
  PROVE  ServicesInv'
<1>1. TypeOK'
  BY DEF ServicesInv, Forget, Return, procVars, fileVars, callVars, TypeOK
<1>2. ChildInv'
  BY DEF ServicesInv, Forget, Return, procVars, fileVars, callVars, TypeOK,
     ChildInv, Exited
<1>3. CliInv'
  BY DEF ServicesInv, Forget, Return, procVars, fileVars, callVars, TypeOK,
     CliInv
<1>4. StartInv'
  BY DEF ServicesInv, Forget, Return, procVars, fileVars, callVars, TypeOK,
     StartInv, LiveChild
<1>5. FileIsLatest'
  BY DEF ServicesInv, Forget, Return, procVars, fileVars, callVars, TypeOK,
     FileIsLatest, LiveChild
<1>6. StopInv'
  BY DEF ServicesInv, Forget, Return, procVars, fileVars, callVars, TypeOK,
     StopInv, LiveChild
<1>7. LiveChildListed'
  BY ServicesAssumption DEF ServicesInv, Forget, Return, procVars, fileVars,
     callVars, SingleStarter, Launcher, TypeOK, CliInv, ChildInv, StartInv,
     FileIsLatest, StopInv, LiveChildListed, LiveChild, Exited
<1> QED  BY <1>1, <1>2, <1>3, <1>4, <1>5, <1>6, <1>7 DEF ServicesInv

\* A launcher ends and has no child any more.
LEMMA EndStep ==
  ASSUME SingleStarter, ServicesInv, NEW l \in Launcher, End(l)
  PROVE  ServicesInv'
<1>1. TypeOK'
  BY DEF ServicesInv, End, procVars, fileVars, callVars, TypeOK
<1>2. CliInv'
  BY DEF ServicesInv, End, procVars, fileVars, callVars, TypeOK, CliInv
<1>3. ChildInv'
  BY ServicesAssumption DEF ServicesInv, End, procVars, fileVars, callVars,
     TypeOK, ChildInv, Exited
<1>4. StartInv'
  BY DEF ServicesInv, End, procVars, fileVars, callVars, SingleStarter,
     Launcher, TypeOK, CliInv, ChildInv, StartInv, LiveChild
<1>5. FileIsLatest'
  BY ServicesAssumption DEF ServicesInv, End, procVars, fileVars, callVars,
     Launcher, TypeOK, CliInv, FileIsLatest, LiveChild
<1>6. StopInv'
  BY DEF ServicesInv, End, procVars, fileVars, callVars, SingleStarter,
     Launcher, TypeOK, CliInv, ChildInv, StartInv, StopInv, LiveChild
<1>7. LiveChildListed'
  BY ServicesAssumption DEF ServicesInv, End, procVars, fileVars, callVars,
     TypeOK, LiveChildListed
<1> QED  BY <1>1, <1>2, <1>3, <1>4, <1>5, <1>6, <1>7 DEF ServicesInv

\* Wait returns.
LEMMA ReapStep ==
  ASSUME SingleStarter, ServicesInv, NEW i \in Inst, Reap(i)
  PROVE  ServicesInv'
<1>1. TypeOK'
  BY DEF ServicesInv, Reap, procVars, fileVars, callVars, TypeOK
<1>2. CliInv'
  BY DEF ServicesInv, Reap, procVars, fileVars, callVars, TypeOK, CliInv
<1>3. ChildInv'
  BY DEF ServicesInv, Reap, procVars, fileVars, callVars, TypeOK, ChildInv,
     Exited
<1>4. StartInv'
  BY DEF ServicesInv, Reap, procVars, fileVars, callVars, TypeOK, StartInv,
     LiveChild
<1>5. FileIsLatest'
  BY DEF ServicesInv, Reap, procVars, fileVars, callVars, TypeOK,
     FileIsLatest, LiveChild
<1>6. StopInv'
  BY DEF ServicesInv, Reap, procVars, fileVars, callVars, TypeOK, StopInv,
     LiveChild
<1>7. LiveChildListed'
  BY DEF ServicesInv, Reap, procVars, fileVars, callVars, TypeOK,
     LiveChildListed
<1> QED  BY <1>1, <1>2, <1>3, <1>4, <1>5, <1>6, <1>7 DEF ServicesInv

\* The goroutine deletes the pid file, which is no matter to the table.
LEMMA WaiterUnfileStep ==
  ASSUME SingleStarter, ServicesInv, NEW i \in Inst, WaiterUnfile(i)
  PROVE  ServicesInv'
<1>1. TypeOK'
  BY DEF ServicesInv, WaiterUnfile, DeletePID, procVars, fileVars, callVars,
     TypeOK
<1>2. (CliInv /\ StopInv /\ LiveChildListed)'
  BY DEF ServicesInv, WaiterUnfile, DeletePID, procVars, fileVars, callVars,
     TypeOK, CliInv, StopInv, LiveChildListed, LiveChild
<1>3. ChildInv'
  BY DEF ServicesInv, WaiterUnfile, DeletePID, procVars, fileVars, callVars,
     TypeOK, ChildInv, Exited
<1>4. StartInv'
  BY ServicesAssumption DEF ServicesInv, WaiterUnfile, DeletePID, procVars,
     fileVars, callVars, TypeOK, StartInv, LiveChild
<1>5. FileIsLatest'
  BY ServicesAssumption DEF ServicesInv, WaiterUnfile, DeletePID, procVars,
     fileVars, callVars, TypeOK, FileIsLatest, LiveChild
<1> QED  BY <1>1, <1>2, <1>3, <1>4, <1>5 DEF ServicesInv

\* The goroutine deletes the entry of a child that is not alive.
LEMMA WaiterForgetStep ==
  ASSUME SingleStarter, ServicesInv, NEW i \in Inst, WaiterForget(i)
  PROVE  ServicesInv'
<1>1. TypeOK'
  BY DEF ServicesInv, WaiterForget, procVars, fileVars, callVars, TypeOK,
     ChildInv, Exited
<1>2. (CliInv /\ FileIsLatest /\ StopInv)'
  BY DEF ServicesInv, WaiterForget, procVars, fileVars, callVars, TypeOK,
     CliInv, FileIsLatest, StopInv, LiveChild
<1>3. ChildInv'
  BY DEF ServicesInv, WaiterForget, procVars, fileVars, callVars, TypeOK,
     ChildInv, Exited
<1>4. StartInv'
  BY DEF ServicesInv, WaiterForget, procVars, fileVars, callVars, TypeOK,
     StartInv, LiveChild
<1>5. LiveChildListed'
  BY DEF ServicesInv, WaiterForget, procVars, fileVars, callVars, TypeOK,
     ChildInv, LiveChildListed, Exited
<1> QED  BY <1>1, <1>2, <1>3, <1>4, <1>5 DEF ServicesInv

\* A child ends.
LEMMA DieStep ==
  ASSUME SingleStarter, ServicesInv, NEW i \in Inst, Die(i)
  PROVE  ServicesInv'
<1>1. TypeOK'
  BY DEF ServicesInv, Die, Dead, procVars, fileVars, callVars, TypeOK
<1>2. CliInv'
  BY DEF ServicesInv, Die, Dead, procVars, fileVars, callVars, TypeOK,
     CliInv
<1>3. ChildInv'
  BY DEF ServicesInv, Die, Dead, procVars, fileVars, callVars, TypeOK,
     ChildInv, Exited
<1>4. StartInv'
  BY DEF ServicesInv, Die, Dead, procVars, fileVars, callVars, TypeOK,
     StartInv, LiveChild
<1>5. FileIsLatest'
  BY DEF ServicesInv, Die, Dead, procVars, fileVars, callVars, TypeOK,
     FileIsLatest, LiveChild
<1>6. StopInv'
  BY DEF ServicesInv, Die, Dead, procVars, fileVars, callVars, TypeOK,
     StopInv, LiveChild
<1>7. LiveChildListed'
  BY DEF ServicesInv, Die, Dead, procVars, fileVars, callVars, TypeOK,
     LiveChildListed
<1> QED  BY <1>1, <1>2, <1>3, <1>4, <1>5, <1>6, <1>7 DEF ServicesInv

-----------------------------------------------------------------------------
\* At first nothing is started, listed or on file.
LEMMA ServicesStart ==
  Init => ServicesInv
BY ServicesAssumption DEF Init, ServicesInv, TypeOK, CliInv, ChildInv, StartInv,
   FileIsLatest, StopInv, LiveChild, LiveChildListed, Exited, Launcher

\* Every step of a launcher, of a goroutine and of an instance keeps it.
LEMMA ServicesStep ==
  ASSUME SingleStarter, ServicesInv, [Next]_vars
  PROVE  ServicesInv'
<1>1. CASE UNCHANGED vars
  BY <1>1 DEF vars, procVars, fileVars, callVars, ServicesInv, TypeOK, CliInv,
     ChildInv, StartInv, FileIsLatest, StopInv, LiveChild, LiveChildListed, Exited
<1>2. CASE Next
  <2>1. CASE \E l \in Tui : LaunchTui(l) \/ Ask(l)
    BY <2>1, LaunchTuiStep, AskStep
  <2>2. CASE \E l \in Cli : LaunchCli(l)
    BY <2>2, LaunchCliStep
  <2>3. CASE \E l \in Launcher : Call(l) \/ End(l)
    BY <2>3, StartRefusedStep, StartFailsStep, SpawnStep, EnterTableStep,
       CreatePIDFileStep, WritePIDStep, ReadPIDStep, KillStep, DiscardStep,
       UnfileStep, ForgetStep, EndStep DEF Call
  <2>4. CASE \E i \in Inst : Wait(i) \/ Die(i)
    BY <2>4, ReapStep, WaiterUnfileStep, WaiterForgetStep, DieStep DEF Wait
  <2> QED  BY <1>2, <2>1, <2>2, <2>3, <2>4 DEF Next
<1> QED  BY <1>1, <1>2

\* The TUI that alone starts a service lists its live child in every reachable
\* state, for any number of instances and of commands that stop them.
THEOREM LiveChildAlwaysListed ==
  ASSUME SingleStarter
  PROVE  Spec => []LiveChildListed
<1>1. Init => ServicesInv
  BY ServicesStart
<1>2. ServicesInv /\ [Next]_vars => ServicesInv'
  BY ServicesStep
<1>3. ServicesInv => LiveChildListed
  BY DEF ServicesInv
<1> QED  BY <1>1, <1>2, <1>3, PTL DEF Spec
=============================================================================

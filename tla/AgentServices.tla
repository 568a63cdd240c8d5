---------------------------- MODULE AgentServices ----------------------------
(***************************************************************************)
(* Starting and stopping one detached sub-service (agent/service.go and    *)
(* the stop and restart commands of cmd/stop.go).  A launcher is a process *)
(* of agent-netx: a TUI, whose agent starts and stops the service as often *)
(* as it is asked to, or a command that stops or restarts it and exits.    *)
(* Each launcher keeps a table of the children it started; all launchers   *)
(* of a user share one pid file.  A goroutine per child waits for its end. *)
(*                                                                         *)
(* An instance of the service is a process.  The system does not reuse a   *)
(* pid here, and a kill takes effect at once (SIGKILL); a launcher may end *)
(* at any step, and its children then outlive it.  Unix behaviour.         *)
(***************************************************************************)
EXTENDS Naturals, FiniteSets

CONSTANTS Tui,         \* launchers that run the TUI
          Cli,         \* launchers that run one command
          CliCommand,  \* the commands given: a subset of {"stop", "restart"}
          MaxStarts,   \* bound on the instances ever started
          None,        \* no instance, no launcher
          Absent,      \* there is no pid file
          Blank        \* the pid file is there and empty

Launcher == Tui \cup Cli
Inst == 1..MaxStarts

ASSUME ServicesAssumption ==
         /\ Tui \cap Cli = {} /\ None \notin Launcher
         /\ CliCommand \subseteq {"stop", "restart"}
         /\ MaxStarts \in Nat \ {0}
         /\ {None, Absent, Blank} \cap Inst = {} /\ Absent # Blank

VARIABLES proc,     \* what the system knows of each instance
          parent,   \* its parent, None once the parent has ended
          waiter,   \* the goroutine of ServiceStart that waits for it
          pidFile,  \* ~/.agent-netx/pids/<name>.pid
          linked,   \* launchers whose open pid file is still that file
          table,    \* procTable[name] of each launcher
          pc,       \* the next step of each launcher
          then,     \* where it goes when the call in progress returns
          target    \* the instance that call is about

procVars == <<proc, parent>>
fileVars == <<pidFile, linked>>
callVars == <<pc, then, target>>
vars == <<procVars, waiter, fileVars, table, callVars>>

TypeOK ==
  /\ proc \in [Inst -> {"unborn", "alive", "zombie", "gone"}]
  /\ parent \in [Inst -> Launcher \cup {None}]
  /\ waiter \in [Inst -> {"none", "waiting", "reaped", "unfiled", "done"}]
  /\ pidFile \in Inst \cup {Absent, Blank}
  /\ linked \subseteq Launcher
  /\ table \in [Launcher -> Inst \cup {None}]
  /\ pc \in [Launcher -> {"idle", "start", "enter", "create", "write", "stop",
                          "kill", "discard", "unfile", "forget", "exit", "ended"}]
  /\ then \in [Launcher -> {"idle", "start", "exit"}]
  /\ target \in [Launcher -> Inst \cup {None}]

Init ==
  /\ proc = [i \in Inst |-> "unborn"]
  /\ parent = [i \in Inst |-> None]
  /\ waiter = [i \in Inst |-> "none"]
  /\ pidFile = Absent /\ linked = {}
  /\ table = [l \in Launcher |-> None]
  /\ pc = [l \in Launcher |-> "ended"]
  /\ then = [l \in Launcher |-> "exit"]
  /\ target = [l \in Launcher |-> None]

------------------------------------------------------------------------------
\* Steps of one launcher's call.

Goto(l, step) == pc' = [pc EXCEPT ![l] = step] /\ UNCHANGED then

\* The call returns: a restart goes on to its start, a command exits.
Return(l) ==
  /\ pc' = [pc EXCEPT ![l] = then[l]]
  /\ then' = [then EXCEPT ![l] = IF then[l] = "start" THEN "exit" ELSE @]

\* os.Remove: a launcher that has the file open writes to no file any more.
DeletePID == pidFile' = Absent /\ linked' = {}

\* A process begins with an empty table.
LaunchTui(l) ==
  /\ pc[l] = "ended"
  /\ pc' = [pc EXCEPT ![l] = "idle"]
  /\ then' = [then EXCEPT ![l] = "idle"]
  /\ UNCHANGED <<procVars, waiter, fileVars, table, target>>

LaunchCli(l) ==
  /\ pc[l] = "ended"
  /\ \E c \in CliCommand :
       then' = [then EXCEPT ![l] = IF c = "restart" THEN "start" ELSE "exit"]
  /\ pc' = [pc EXCEPT ![l] = "stop"]
  /\ UNCHANGED <<procVars, waiter, fileVars, table, target>>

\* The agent calls its service tool.
Ask(l) ==
  /\ pc[l] = "idle"
  /\ \E step \in {"start", "stop"} : Goto(l, step)
  /\ UNCHANGED <<procVars, waiter, fileVars, table, target>>

\* cmd.ProcessState is set when Wait returns.
Exited(i) == waiter[i] \in {"reaped", "unfiled", "done"}

AlreadyRunning(l) == table[l] # None /\ ~Exited(table[l])

StartRefused(l) ==
  /\ pc[l] = "start" /\ AlreadyRunning(l)
  /\ Return(l)
  /\ UNCHANGED <<procVars, waiter, fileVars, table, target>>

\* os.Executable or cmd.Start returns an error.
StartFails(l) ==
  /\ pc[l] = "start" /\ ~AlreadyRunning(l)
  /\ Return(l)
  /\ UNCHANGED <<procVars, waiter, fileVars, table, target>>

Spawn(l) ==
  /\ pc[l] = "start" /\ ~AlreadyRunning(l)
  /\ \E i \in Inst :
       /\ proc[i] = "unborn" /\ \A j \in 1..(i - 1) : proc[j] # "unborn"
       /\ proc' = [proc EXCEPT ![i] = "alive"]
       /\ parent' = [parent EXCEPT ![i] = l]
       /\ target' = [target EXCEPT ![l] = i]
  /\ Goto(l, "enter")
  /\ UNCHANGED <<waiter, fileVars, table>>

EnterTable(l) ==
  /\ pc[l] = "enter"
  /\ table' = [table EXCEPT ![l] = target[l]]
  /\ Goto(l, "create")
  /\ UNCHANGED <<procVars, waiter, fileVars, target>>

\* os.WriteFile creates or truncates the file, then writes to it.
CreatePIDFile(l) ==
  /\ pc[l] = "create"
  /\ pidFile' = Blank
  /\ linked' = linked \cup {l}
  /\ Goto(l, "write")
  /\ UNCHANGED <<procVars, waiter, table, target>>

WritePID(l) ==
  /\ pc[l] = "write"
  /\ pidFile' = IF l \in linked THEN target[l] ELSE pidFile
  /\ linked' = linked \ {l}
  /\ waiter' = [waiter EXCEPT ![target[l]] = "waiting"]
  /\ Return(l)
  /\ UNCHANGED <<procVars, table, target>>

\* Stop: no file is "not running"; a pid that does not parse, too.
ReadPID(l) ==
  /\ pc[l] = "stop"
  /\ \/ pidFile = Absent /\ Return(l) /\ UNCHANGED target
     \/ pidFile = Blank /\ Goto(l, "discard") /\ UNCHANGED target
     \/ /\ pidFile \in Inst
        /\ target' = [target EXCEPT ![l] = pidFile]
        /\ Goto(l, "kill")
  /\ UNCHANGED <<procVars, waiter, fileVars, table>>

\* A dead child is a zombie until its parent, or init, has waited for it.
Dead(i) == IF parent[i] = None THEN "gone" ELSE "zombie"

\* KillPID fails when the process is gone (ESRCH); a zombie takes the signal.
Kill(l) ==
  /\ pc[l] = "kill"
  /\ proc' = [proc EXCEPT ![target[l]] = IF @ = "alive" THEN Dead(target[l]) ELSE @]
  /\ Goto(l, IF proc[target[l]] = "gone" THEN "discard" ELSE "unfile")
  /\ UNCHANGED <<parent, waiter, fileVars, table, target>>

\* Stop gives up: the file goes, the table stays.
Discard(l) ==
  /\ pc[l] = "discard"
  /\ DeletePID
  /\ Return(l)
  /\ UNCHANGED <<procVars, waiter, table, target>>

Unfile(l) ==
  /\ pc[l] = "unfile"
  /\ DeletePID
  /\ Goto(l, "forget")
  /\ UNCHANGED <<procVars, waiter, table, target>>

Forget(l) ==
  /\ pc[l] = "forget"
  /\ table' = [table EXCEPT ![l] = None]
  /\ Return(l)
  /\ UNCHANGED <<procVars, waiter, fileVars, target>>

\* The launcher ends: its command is done, its user quits, or it crashes.
\* Its goroutines end with it and init adopts its children.
End(l) ==
  /\ pc[l] # "ended"
  /\ pc' = [pc EXCEPT ![l] = "ended"]
  /\ table' = [table EXCEPT ![l] = None]
  /\ linked' = linked \ {l}
  /\ target' = [target EXCEPT ![l] = None]
  /\ parent' = [i \in Inst |-> IF parent[i] = l THEN None ELSE parent[i]]
  /\ proc' = [i \in Inst |-> IF parent[i] = l /\ proc[i] = "zombie"
                             THEN "gone" ELSE proc[i]]
  /\ waiter' = [i \in Inst |-> IF parent[i] = l THEN "done" ELSE waiter[i]]
  /\ UNCHANGED <<pidFile, then>>

------------------------------------------------------------------------------
\* The goroutine that ServiceStart leaves behind for each child.

Reap(i) ==
  /\ waiter[i] = "waiting" /\ proc[i] = "zombie"
  /\ proc' = [proc EXCEPT ![i] = "gone"]
  /\ waiter' = [waiter EXCEPT ![i] = "reaped"]
  /\ UNCHANGED <<parent, fileVars, table, callVars>>

\* With a fault: the pid file is left alone.
WaiterUnfileNot(i) ==
  /\ waiter[i] = "reaped"
  /\ waiter' = [waiter EXCEPT ![i] = "unfiled"]
  /\ UNCHANGED <<procVars, fileVars, table, callVars>>

\* It deletes the pid file by name, whatever pid is in it.
WaiterUnfile(i) ==
  /\ waiter[i] = "reaped"
  /\ DeletePID
  /\ waiter' = [waiter EXCEPT ![i] = "unfiled"]
  /\ UNCHANGED <<procVars, table, callVars>>

\* With a fault: the entry goes without the comparison cur == proc.
WaiterForgetAny(i) ==
  /\ waiter[i] = "unfiled"
  /\ table' = [table EXCEPT ![parent[i]] = None]
  /\ waiter' = [waiter EXCEPT ![i] = "done"]
  /\ UNCHANGED <<procVars, fileVars, callVars>>

WaiterForget(i) ==
  /\ waiter[i] = "unfiled"
  /\ table' = IF table[parent[i]] = i
              THEN [table EXCEPT ![parent[i]] = None] ELSE table
  /\ waiter' = [waiter EXCEPT ![i] = "done"]
  /\ UNCHANGED <<procVars, fileVars, callVars>>

\* An instance ends by itself.
Die(i) ==
  /\ proc[i] = "alive"
  /\ proc' = [proc EXCEPT ![i] = Dead(i)]
  /\ UNCHANGED <<parent, waiter, fileVars, table, callVars>>

------------------------------------------------------------------------------
Call(l) ==
  \/ StartRefused(l) \/ StartFails(l) \/ Spawn(l)
  \/ EnterTable(l) \/ CreatePIDFile(l) \/ WritePID(l)
  \/ ReadPID(l) \/ Kill(l) \/ Discard(l) \/ Unfile(l) \/ Forget(l)

Wait(i) == Reap(i) \/ WaiterUnfile(i) \/ WaiterForget(i)

Next ==
  \/ \E l \in Tui : LaunchTui(l) \/ Ask(l)
  \/ \E l \in Cli : LaunchCli(l)
  \/ \E l \in Launcher : Call(l) \/ End(l)
  \/ \E i \in Inst : Wait(i) \/ Die(i)

\* A call runs to its end and a goroutine that can run does: the code around
\* them is straight-line.  Nobody has to call, to quit or to die.
Fairness ==
  /\ \A l \in Launcher : WF_vars(Call(l))
  /\ \A i \in Inst : WF_vars(Wait(i))

Spec == Init /\ [][Next]_vars /\ Fairness

------------------------------------------------------------------------------
\* One TUI at a time starts the service, and the command line only stops it.
SingleStarter ==
  /\ \A l, m \in Tui : l = m
  /\ CliCommand \subseteq {"stop"}

\* A TUI lists every child of its own that is alive, once the call that
\* started it has entered it: so `service start` never runs a second copy
\* beside it, whatever a late goroutine of an earlier child, a stop from the
\* command line or a restart of the TUI does.  It needs SingleStarter.
LiveChildListed ==
  \A l \in Launcher, i \in Inst :
    parent[i] = l /\ proc[i] = "alive" =>
      table[l] = i \/ (pc[l] = "enter" /\ target[l] = i)

\* An instance that ends, however it ends, leaves the table of its launcher
\* and the pid file for good, unless that launcher ends first.
DeathNoticed ==
  \A i \in Inst :
    proc[i] \in {"zombie", "gone"} ~>
      [](parent[i] = None \/ (table[parent[i]] # i /\ pidFile # i))

\* "Stop looks up the pid file for name and kills the process tree"
\* (service.go:112): it does not say that the service is not running while
\* an instance that was started and recorded, and that its launcher still
\* waits for, is alive.
StopHonest ==
  [][\A l \in Launcher :
       pc[l] = "stop" /\ pc'[l] # "ended" /\ pidFile = Absent =>
         ~\E i \in Inst : proc[i] = "alive" /\ waiter[i] = "waiting"]_vars

==============================================================================

------------------------------- MODULE Daemon -------------------------------
(***************************************************************************)
(* Daemon processes and the commands that start, find and stop them        *)
(* (cmd/llmguard/main.go, internal/daemon, internal/llamacpp/server.go).   *)
(* They share the pidfile, the listen address and the operating system's   *)
(* process table, and nothing locks any of them: every read, check, signal *)
(* and write is a step of its own.                                         *)
(***************************************************************************)
EXTENDS Naturals, FiniteSets

CONSTANTS MaxProcs,    \* daemon processes ever started (bound of the model)
          Cmd,         \* terminals, each running one command at a time
          Ops          \* the commands given in each terminal

ASSUME MaxProcsAssumption == MaxProcs \in Nat \ {0}
ASSUME OpsAssumption == Ops \in [Cmd -> SUBSET {"start", "stop", "restart", "status"}]

Proc == 1 .. MaxProcs  \* pids, in the order of starting; 0 is no process

VARIABLES phase,       \* where runForeground is in each process
          model,       \* its llama-server is running
          pidfile,     \* the pid in the pidfile, 0 if there is none
          cmd          \* the command of each terminal

vars == <<phase, model, pidfile, cmd>>

Idle == [op |-> "none", at |-> "idle", pid |-> 0, found |-> FALSE,
         mine |-> 0, witness |-> 0]

Phase == {"unused", "loading", "giveup", "listen", "bound", "recorded", "serving",
          "signalled", "closing", "cleanup", "abort", "exited", "killed"}

Command == [op : {"none", "start", "stop", "restart", "status"},
            at : {"idle", "read", "find", "guard", "check", "signal", "remove", "clear",
                  "drop", "wait", "start", "probe", "probing", "await", "failed"},
            pid : Proc \cup {0},        \* the process it has found
            found : BOOLEAN,            \* by its listener, not by the pidfile
            mine : Proc \cup {0},       \* the process it has spawned
            witness : Proc \cup {0}]    \* who listened when it began (history)

TypeOK ==
    /\ phase \in [Proc -> Phase]
    /\ model \in [Proc -> BOOLEAN]
    /\ pidfile \in Proc \cup {0}
    /\ cmd \in [Cmd -> Command]
    /\ \A c \in Cmd : cmd[c].at \in {"guard", "check", "signal"} => cmd[c].pid # 0

Init == /\ phase = [p \in Proc |-> "unused"]
        /\ model = [p \in Proc |-> FALSE]
        /\ pidfile = 0
        /\ cmd = [c \in Cmd |-> Idle]
-----------------------------------------------------------------------------
(* What a process can see of another one. *)
IsRunning(p) == p # 0 /\ phase[p] \notin {"unused", "exited", "killed"}
Listening(p) == p # 0 /\ phase[p] \in {"bound", "recorded", "serving", "signalled"}
Listener == IF \E p \in Proc : Listening(p) THEN CHOOSE p \in Proc : Listening(p) ELSE 0

(* AddrInUse binds the address itself while it looks. *)
AddrInUse == Listener # 0 \/ \E c \in Cmd : cmd[c].at = "probing"

Enter(p, from, to) == phase[p] = from /\ phase' = [phase EXCEPT ![p] = to]

(* A fresh process runs `llmguard start`. *)
IsNext(p) == phase[p] = "unused" /\ \A q \in Proc : q < p => phase[q] # "unused"
-----------------------------------------------------------------------------
(* runForeground.  The model server is best effort: without it, or when it
   does not become healthy, the process goes on to listen. *)
Begin(p) ==
    /\ IsNext(p)
    /\ \/ Enter(p, "unused", "listen") /\ UNCHANGED model
       \/ Enter(p, "unused", "loading") /\ model' = [model EXCEPT ![p] = TRUE]
    /\ UNCHANGED <<pidfile>>

StartForeground(p) == Begin(p) /\ UNCHANGED cmd

(* The health check asks the port, so any llama-server on it may answer. *)
Healthy(p) ==
    /\ Enter(p, "loading", "listen")
    /\ \E q \in Proc : model[q]
    /\ UNCHANGED <<model, pidfile, cmd>>

(* Its server exited or was not healthy within 60 seconds. *)
Unhealthy(p) == Enter(p, "loading", "giveup") /\ UNCHANGED <<model, pidfile, cmd>>

(* net.Listen, after the logger, the proxy and the path of the pidfile. *)
Listen(p) ==
    /\ ~AddrInUse
    /\ Enter(p, "listen", "bound")
    /\ UNCHANGED <<model, pidfile, cmd>>

(* One of those fails, net.Listen for an address in use or for another reason:
   runForeground returns through its defers.  Slip: os.Exit in place of a
   return. *)
ListenFailsAtOnce(p) ==
    Enter(p, "listen", "exited") /\ UNCHANGED <<model, pidfile, cmd>>
ListenFails(p) ==
    Enter(p, "listen", "abort") /\ UNCHANGED <<model, pidfile, cmd>>

Record(p) ==
    /\ Enter(p, "bound", "recorded")
    /\ pidfile' = p
    /\ UNCHANGED <<model, cmd>>

RecordFails(p) == Enter(p, "bound", "abort") /\ UNCHANGED <<model, pidfile, cmd>>

(* signal.Notify: until here a SIGTERM kills the process at once. *)
Notify(p) == Enter(p, "recorded", "serving") /\ UNCHANGED <<model, pidfile, cmd>>

(* srv.Close, or an error of srv.Serve, then the defers: the pidfile goes,
   whoever it names by now, then the model server. *)
Close(p) ==
    /\ Enter(p, "signalled", "closing")
    /\ UNCHANGED <<model, pidfile, cmd>>

ServeFails(p) ==
    /\ Enter(p, "serving", "closing")
    /\ UNCHANGED <<model, pidfile, cmd>>

RemoveOwn(p) ==
    /\ Enter(p, "closing", "cleanup")
    /\ pidfile' = 0
    /\ UNCHANGED <<model, cmd>>

(* Server.Stop: SIGTERM, and SIGKILL for a server that is still there five
   seconds later.  The slip waits without a limit. *)
Stopping(p) == phase[p] \in {"giveup", "abort", "cleanup"}

KillsNothing(p) == FALSE /\ UNCHANGED vars
KillServer(p) ==
    /\ Stopping(p)
    /\ model[p]
    /\ model' = [model EXCEPT ![p] = FALSE]
    /\ UNCHANGED <<phase, pidfile, cmd>>

ServerStopped(p) ==
    /\ ~model[p]
    /\ \/ Enter(p, "giveup", "listen")
       \/ Enter(p, "abort", "exited")
       \/ Enter(p, "cleanup", "exited")
    /\ UNCHANGED <<model, pidfile, cmd>>

Run(p) ==
    \/ Healthy(p) \/ Unhealthy(p)
    \/ Listen(p) \/ ListenFails(p) \/ Record(p) \/ RecordFails(p) \/ Notify(p)
    \/ ServeFails(p) \/ Close(p) \/ RemoveOwn(p) \/ KillServer(p) \/ ServerStopped(p)
-----------------------------------------------------------------------------
(* What the user and the operating system do to a process. *)

(* A llama-server ends: it crashed, could not bind its port, or obeyed. *)
ServerExits(p) ==
    /\ model[p]
    /\ model' = [model EXCEPT ![p] = FALSE]
    /\ UNCHANGED <<phase, pidfile, cmd>>

(* A daemon ends at any point without its defers: SIGKILL, a panic. *)
Crash(p) ==
    /\ IsRunning(p)
    /\ phase' = [phase EXCEPT ![p] = "killed"]
    /\ UNCHANGED <<model, pidfile, cmd>>

(* SIGTERM for a running process: pending where it is handled, without effect
   when it has been handled, else the end of it, without any of its defers. *)
Handled == {"signalled", "closing", "cleanup"}

Terminated(p) ==
    phase' = [phase EXCEPT ![p] = IF @ = "serving" THEN "signalled"
                                  ELSE IF @ \in Handled THEN @ ELSE "killed"]

(* ^C, or a SIGTERM that no command of llmguard sent. *)
Interrupt(p) ==
    IsRunning(p) /\ Terminated(p) /\ UNCHANGED <<model, pidfile, cmd>>
-----------------------------------------------------------------------------
(* The commands.  at says which call of the command is next.  A command that
   ends leaves nothing behind, except a stop that failed: its message stands. *)
Goto(c, at) ==
    cmd' = [cmd EXCEPT ![c] =
              IF at = "done" \/ (at = "failed" /\ @.op # "stop") THEN Idle
              ELSE [@ EXCEPT !.at = at]]

Call(c, op) ==
    /\ cmd[c] = Idle
    /\ cmd' = [cmd EXCEPT ![c] = [Idle EXCEPT
                  !.op = op, !.at = IF op = "start" THEN "start" ELSE "read",
                  !.witness = IF op = "stop" THEN Listener ELSE 0]]
    /\ UNCHANGED <<phase, model, pidfile>>

Return(c) ==
    /\ cmd[c].at = "failed"
    /\ Goto(c, "done")
    /\ UNCHANGED <<phase, model, pidfile>>

(* StopOrFind: when stopping by the pidfile fails it looks for a listener and
   tries once more.  The slip fails at once. *)
FailsAtOnce(c) == "failed"
AfterFailure(c) == IF cmd[c].op = "stop" /\ ~cmd[c].found THEN "find" ELSE "failed"

(* stop goes straight to stopPID; restart and status look first. *)
AfterPid(c) == IF cmd[c].op = "stop" THEN "check" ELSE "guard"

(* daemon.Read.  The slip takes a missing pidfile for the pid 0. *)
ReadsZero(c) ==
    /\ cmd[c].at = "read"
    /\ cmd' = [cmd EXCEPT ![c].pid = pidfile, ![c].at = AfterPid(c)]
    /\ UNCHANGED <<phase, model, pidfile>>
ReadPidfile(c) ==
    /\ cmd[c].at = "read"
    /\ IF pidfile = 0
       THEN Goto(c, "find")
       ELSE cmd' = [cmd EXCEPT ![c].pid = pidfile, ![c].at = AfterPid(c)]
    /\ UNCHANGED <<phase, model, pidfile>>

(* FindListenerPID: lsof prints the process that listens. *)
FindListener(c) ==
    /\ cmd[c].at = "find"
    /\ IF Listener # 0
       THEN cmd' = [cmd EXCEPT ![c].pid = Listener, ![c].found = TRUE, ![c].at = AfterPid(c)]
       ELSE Goto(c, IF cmd[c].op = "restart" THEN "start"
                    ELSE IF cmd[c].op = "status" THEN "clear" ELSE "failed")
    /\ UNCHANGED <<phase, model, pidfile>>

(* runningPID and StopOrFindAndWait: is it running? *)
Guard(c) ==
    /\ cmd[c].at = "guard"
    /\ Goto(c, IF cmd[c].op = "restart"
               THEN IF IsRunning(cmd[c].pid) THEN "check" ELSE "drop"
               ELSE IF IsRunning(cmd[c].pid) THEN "done"
               ELSE IF cmd[c].found THEN "clear" ELSE "find")
    /\ UNCHANGED <<phase, model, pidfile>>

(* stopPID: check, signal, remove. *)
Check(c) ==
    /\ cmd[c].at = "check"
    /\ Goto(c, IF IsRunning(cmd[c].pid) THEN "signal" ELSE "clear")
    /\ UNCHANGED <<phase, model, pidfile>>

Signal(c) ==
    /\ cmd[c].at = "signal"
    /\ IF IsRunning(cmd[c].pid)
       THEN Terminated(cmd[c].pid) /\ Goto(c, "remove")
       ELSE UNCHANGED phase /\ Goto(c, AfterFailure(c))
    /\ UNCHANGED <<model, pidfile>>

(* Slip: restart does not wait. *)
StartAtOnce(c) == IF cmd[c].op = "restart" THEN "start" ELSE "done"
AfterRemove(c) == IF cmd[c].op = "restart" THEN "wait" ELSE "done"

RemovePidfile(c) ==
    /\ pidfile' = 0
    /\ \/ cmd[c].at = "remove" /\ Goto(c, AfterRemove(c))
       \/ cmd[c].at = "clear" /\ Goto(c, IF cmd[c].op = "status" THEN "done" ELSE AfterFailure(c))
       \/ cmd[c].at = "drop" /\ Goto(c, "start")
    /\ UNCHANGED <<phase, model>>

(* restart polls for five seconds. *)
OldIsGone(c) ==
    /\ cmd[c].at = "wait"
    /\ ~IsRunning(cmd[c].pid)
    /\ Goto(c, "start")
    /\ UNCHANGED <<phase, model, pidfile>>

WaitTimesOut(c) ==
    /\ cmd[c].at = "wait"
    /\ Goto(c, "failed")
    /\ UNCHANGED <<phase, model, pidfile>>
-----------------------------------------------------------------------------
(* startDetached: refuse, probe the address, spawn, wait for a listener. *)
RefuseRunning(c) ==
    /\ cmd[c].at = "start"
    /\ Goto(c, IF IsRunning(pidfile) THEN "failed" ELSE "probe")
    /\ UNCHANGED <<phase, model, pidfile>>

Probe(c) ==
    /\ cmd[c].at = "probe"
    /\ Goto(c, IF AddrInUse THEN "failed" ELSE "probing")
    /\ UNCHANGED <<phase, model, pidfile>>

(* The new process takes the next pid; or it cannot be started. *)
Spawn(c) ==
    /\ cmd[c].at = "probing"
    /\ \/ \E p \in Proc : Begin(p) /\ cmd' = [cmd EXCEPT ![c].at = "await", ![c].mine = p]
       \/ Goto(c, "failed") /\ UNCHANGED <<phase, model, pidfile>>

(* A dial succeeds on whatever listens, another terminal's probe included. *)
SomeoneListens(c) ==
    /\ cmd[c].at = "await"
    /\ AddrInUse
    /\ Goto(c, "done")
    /\ UNCHANGED <<phase, model, pidfile>>

(* Nobody listens after five seconds: the process is killed, as it stands. *)
AwaitTimesOut(c) ==
    /\ cmd[c].at = "await"
    /\ phase' = IF IsRunning(cmd[c].mine)
                THEN [phase EXCEPT ![cmd[c].mine] = "killed"] ELSE phase
    /\ Goto(c, "failed")
    /\ UNCHANGED <<model, pidfile>>

CommandStep(c) ==
    \/ ReadPidfile(c) \/ FindListener(c) \/ Guard(c) \/ Check(c) \/ Signal(c)
    \/ RemovePidfile(c) \/ OldIsGone(c) \/ WaitTimesOut(c)
    \/ RefuseRunning(c) \/ Probe(c) \/ Spawn(c)
    \/ SomeoneListens(c) \/ AwaitTimesOut(c)
    \/ Return(c)

Next ==
    \/ \E p \in Proc : \/ StartForeground(p) \/ Run(p)
                       \/ ServerExits(p) \/ Crash(p) \/ Interrupt(p)
    \/ \E c \in Cmd : \/ CommandStep(c)
                      \/ \E op \in Ops[c] : Call(c, op)

Spec == Init /\ [][Next]_vars

(* The operating system runs every process, and its timers fire. *)
FairSpec == Spec /\ \A p \in Proc : WF_vars(Run(p))
-----------------------------------------------------------------------------
(* stop never says that nothing is running while one daemon has been
   listening from its first look to its last, whatever the pidfile said in
   between: the listener is looked for when the pidfile is missing, stale or
   names a process that has just gone (port.go:39-49). *)
StopFindsServer ==
    \A c \in Cmd :
        cmd[c].op = "stop" /\ cmd[c].at = "failed" => ~Listening(cmd[c].witness)

(* When restart spawns the new daemon the one it found has ended, so it can
   neither hold the address nor remove the new daemon's pidfile any more
   (port.go:52-77). *)
RestartWaitsForOld ==
    \A c \in Cmd :
        cmd[c].op = "restart" /\ cmd[c].at \in {"probing", "await"}
        => ~IsRunning(cmd[c].pid)

(* A process that leaves runForeground by a return, on whatever path after its
   llama-server was started, leaves none of its own behind: the logger, the
   proxy, the listener, the pidfile or Serve may fail, or a signal arrive
   (main.go:474-535). *)
ExitStopsModelServer == \A p \in Proc : phase[p] = "exited" => ~model[p]

(* A daemon that has been told to stop ends, even when its llama-server does
   not obey (server.go:90-109). *)
StoppedDaemonExits ==
    \A p \in Proc : phase[p] \in Handled ~> phase[p] \in {"exited", "killed"}

(* "On any failure it prints a warning to stderr and returns ok=false so the
   proxy continues with regex-only detection - the LLM fallback is strictly
   best-effort" (main.go:670-672): start --detach does not kill a daemon that
   is only waiting for its model server. *)
SlowModelDelaysOnly ==
    [][\A c \in Cmd :
          cmd[c].at = "await" /\ cmd'[c] = Idle /\ phase[cmd[c].mine] = "loading"
          => phase'[cmd[c].mine] # "killed"]_vars
=============================================================================

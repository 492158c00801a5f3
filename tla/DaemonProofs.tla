---------------------------- MODULE DaemonProofs ----------------------------
(***************************************************************************)
(* Proofs about Daemon for any number of processes and terminals and any   *)
(* commands in them.                                                       *)
(***************************************************************************)
EXTENDS Daemon, TLAPS

(* The phases in which a process has not listened yet. *)
Early == {"unused", "loading", "giveup", "listen"}

Started(p) == p # 0 => phase[p] # "unused"
Gone(p) == p # 0 => phase[p] \in {"exited", "killed"}

(* A pid that somebody has written down is the pid of a process that was
   started, and of one that had listened when it was the listener. *)
PidsSound ==
    /\ Started(pidfile)
    /\ \A c \in Cmd : Started(cmd[c].pid)
    /\ \A c \in Cmd : cmd[c].witness # 0 => phase[cmd[c].witness] \notin Early

OneListener == \A p, q \in Proc : Listening(p) /\ Listening(q) => p = q

(* Where a restart has nothing to stop, or stopped what it found. *)
RestartSoundAt(c) ==
    cmd[c].op = "restart" =>
        /\ cmd[c].at \in {"read", "find"} => cmd[c].pid = 0
        /\ cmd[c].at \in {"drop", "start", "probe", "probing", "await"} => Gone(cmd[c].pid)

(* The calls that only starting and restarting make. *)
Launching == {"drop", "wait", "start", "probe", "probing", "await"}

(* While the listener a stop saw first goes on listening, the listener it finds
   is that one, and it gives nothing up for dead but what is. *)
StopSoundAt(c) ==
    cmd[c].op = "stop" =>
        /\ cmd[c].at \notin Launching
        /\ cmd[c].at = "read" => ~cmd[c].found
        /\ cmd[c].found /\ Listening(cmd[c].witness) => cmd[c].pid = cmd[c].witness
        /\ cmd[c].at = "clear" => Gone(cmd[c].pid)
        /\ cmd[c].at = "failed" => ~Listening(cmd[c].witness)

CommandsSound == \A c \in Cmd : RestartSoundAt(c) /\ StopSoundAt(c)

IInv ==
    /\ TypeOK
    /\ PidsSound
    /\ OneListener
    /\ CommandsSound
    /\ ExitStopsModelServer
-----------------------------------------------------------------------------
(* What a step may do to the processes: a process that was started stays so,
   one that has ended stays ended, and one that has listened and does not any
   more never listens again. *)
Advances ==
    \A p \in Proc :
        /\ phase[p] # "unused" => phase'[p] # "unused"
        /\ phase[p] \in {"exited", "killed"} => phase'[p] = phase[p]
        /\ phase[p] \notin Early => phase'[p] \notin Early
        /\ phase[p] \notin Early /\ ~Listening(p) => ~Listening(p)'

LEMMA ListenerIsListening ==
    ASSUME TypeOK
    PROVE  /\ Listener \in Proc \cup {0}
           /\ Listener # 0 => Listening(Listener)
           /\ Listener = 0 => \A p \in Proc : ~Listening(p)
<1>1. 0 \notin Proc
  BY DEF Proc
<1>2. CASE \E p \in Proc : Listening(p)
  <2>1. Listener = CHOOSE p \in Proc : Listening(p)
    BY <1>2 DEF Listener
  <2>2. Listener \in Proc /\ Listening(Listener)
    BY <1>2, <2>1
  <2> QED BY <1>1, <2>2
<1>3. CASE ~ \E p \in Proc : Listening(p)
  <2>1. Listener = 0
    BY <1>3 DEF Listener
  <2> QED BY <1>3, <2>1
<1> QED BY <1>2, <1>3

(* One process moves from one phase to a later one. *)
LEMMA EnterAdvances ==
    ASSUME TypeOK, NEW p \in Proc, NEW from, NEW to \in Phase, Enter(p, from, to),
           from \notin {"exited", "killed"}, to # "unused",
           from \notin Early => to \notin Early,
           to \in {"bound", "recorded", "serving", "signalled"} /\ from \notin Early =>
               from \in {"bound", "recorded", "serving", "signalled"}
    PROVE  phase' \in [Proc -> Phase] /\ Advances
BY DEF Enter, TypeOK, Advances, Listening, Early, Proc
-----------------------------------------------------------------------------
(* What Goto leaves: an idle terminal, or the same command at another call. *)
LEMMA GotoEffect ==
    ASSUME TypeOK, NEW c \in Cmd, NEW at, Goto(c, at)
    PROVE  /\ \A d \in Cmd \ {c} : cmd'[d] = cmd[d]
           /\ \/ cmd'[c] = Idle /\ (at = "done" \/ (at = "failed" /\ cmd[c].op # "stop"))
              \/ cmd'[c] = [cmd[c] EXCEPT !.at = at] /\ at # "done"
           /\ DOMAIN cmd' = Cmd /\ cmd' = [d \in Cmd |-> cmd'[d]]
<1>1. DOMAIN cmd = Cmd
  BY DEF TypeOK
<1> DEFINE next == IF at = "done" \/ (at = "failed" /\ cmd[c].op # "stop") THEN Idle
                   ELSE [cmd[c] EXCEPT !.at = at]
<1>2. cmd' = [cmd EXCEPT ![c] = next]
  BY DEF Goto
<1> HIDE DEF next
<1>3. cmd'[c] = next /\ \A d \in Cmd \ {c} : cmd'[d] = cmd[d]
  BY <1>1, <1>2
<1> QED BY <1>1, <1>2, <1>3 DEF next

(* A command that moved on keeps the invariant if its own parts of it hold. *)
CommandSoundAt(c) ==
    /\ cmd[c] \in Command
    /\ cmd[c].at \in {"guard", "check", "signal"} => cmd[c].pid # 0
    /\ Started(cmd[c].pid)
    /\ cmd[c].witness # 0 => phase[cmd[c].witness] \notin Early
    /\ RestartSoundAt(c)
    /\ StopSoundAt(c)

LEMMA SoundAtAll == ASSUME IInv, NEW c \in Cmd PROVE CommandSoundAt(c)
BY DEF IInv, CommandSoundAt, TypeOK, PidsSound, CommandsSound

LEMMA OthersKept ==
    ASSUME IInv, Advances, NEW d \in Cmd, cmd'[d] = cmd[d]
    PROVE  CommandSoundAt(d)'
<1>1. CommandSoundAt(d)
  BY SoundAtAll
<1>2. \A p \in Proc \cup {0} : /\ Started(p) => Started(p)'
                               /\ Started(p) /\ Gone(p) => Gone(p)'
  BY DEF Advances, Started, Gone
<1>3. {cmd[d].pid, cmd[d].witness} \subseteq Proc \cup {0} /\ 0 \notin Proc
  BY <1>1 DEF CommandSoundAt, Command, Proc
<1>4. cmd[d].witness # 0 => phase'[cmd[d].witness] \notin Early
  BY <1>1, <1>3 DEF CommandSoundAt, Advances
<1>5. ~Listening(cmd[d].witness) => ~Listening(cmd[d].witness)'
  BY <1>1, <1>3 DEF CommandSoundAt, Advances, Listening
<1>6. Started(cmd[d].pid)' /\ (Gone(cmd[d].pid) => Gone(cmd[d].pid)')
  BY <1>1, <1>2, <1>3 DEF CommandSoundAt, Started, Gone
<1>7. RestartSoundAt(d)'
  BY <1>1, <1>6 DEF CommandSoundAt, RestartSoundAt, Gone
<1>8. StopSoundAt(d)'
  BY <1>1, <1>5, <1>6 DEF CommandSoundAt, StopSoundAt, Gone, Listening
<1> QED BY <1>1, <1>4, <1>6, <1>7, <1>8 DEF CommandSoundAt, Started

(* The invariant after a step, put together from its parts. *)
LEMMA PutTogether ==
    ASSUME IInv, Advances, phase' \in [Proc -> Phase], model' \in [Proc -> BOOLEAN],
           pidfile' \in Proc \cup {0}, Started(pidfile)', OneListener', ExitStopsModelServer',
           DOMAIN cmd' = Cmd, cmd' = [c \in Cmd |-> cmd'[c]],
           \A c \in Cmd : CommandSoundAt(c)'
    PROVE  IInv'
<1>1. cmd' \in [Cmd -> Command]
  BY DEF CommandSoundAt
<1>2. TypeOK'
  BY <1>1 DEF TypeOK, CommandSoundAt
<1>3. PidsSound' /\ CommandsSound'
  BY DEF PidsSound, CommandsSound, CommandSoundAt
<1> QED BY <1>2, <1>3 DEF IInv
-----------------------------------------------------------------------------
(* Steps of the processes. *)
LEMMA NoNewListener ==
    ASSUME OneListener, \A q \in Proc : Listening(q)' => Listening(q)
    PROVE  OneListener'
BY DEF OneListener

(* What a step of a process does to the process table. *)
ProcessesSound ==
    /\ phase' \in [Proc -> Phase]
    /\ model' \in [Proc -> BOOLEAN]
    /\ Advances
    /\ OneListener'
    /\ ExitStopsModelServer'

LEMMA BeginSound ==
    ASSUME IInv, NEW p \in Proc, Begin(p)
    PROVE  ProcessesSound /\ phase'[p] # "unused"
<1>1. PICK to \in {"listen", "loading"} : Enter(p, "unused", to)
  BY DEF Begin
<1>2. phase' \in [Proc -> Phase] /\ Advances
  BY <1>1, EnterAdvances DEF Early, Phase, IInv
<1>3. \A q \in Proc : Listening(q)' => Listening(q)
  BY <1>1 DEF Enter, Listening, IInv, TypeOK, Proc
<1>4. ExitStopsModelServer' /\ model' \in [Proc -> BOOLEAN] /\ phase'[p] # "unused"
  BY <1>1 DEF Begin, Enter, ExitStopsModelServer, IInv, TypeOK
<1> QED BY <1>2, <1>3, <1>4, NoNewListener DEF ProcessesSound, IInv

(* A move to a later phase that is no beginning to listen. *)
LEMMA MoveSound ==
    ASSUME IInv, NEW p \in Proc, NEW from, NEW to \in Phase, Enter(p, from, to),
           from \notin {"exited", "killed"}, to # "unused",
           from \notin Early => to \notin Early,
           to \in {"bound", "recorded", "serving", "signalled"} =>
               from \in {"bound", "recorded", "serving", "signalled"},
           model' = model, to = "exited" => ~model[p]
    PROVE  ProcessesSound
<1>1. phase' \in [Proc -> Phase] /\ Advances
  BY EnterAdvances DEF IInv
<1>2. \A q \in Proc : Listening(q)' => Listening(q)
  BY DEF Enter, Listening, IInv, TypeOK, Proc
<1>3. ExitStopsModelServer' /\ model' \in [Proc -> BOOLEAN]
  BY DEF Enter, ExitStopsModelServer, IInv, TypeOK
<1> QED BY <1>1, <1>2, <1>3, NoNewListener DEF ProcessesSound, IInv

LEMMA ListenSound ==
    ASSUME IInv, NEW p \in Proc, Listen(p)
    PROVE  ProcessesSound
<1>1. Enter(p, "listen", "bound") /\ model' = model
  BY DEF Listen
<1>2. phase' \in [Proc -> Phase] /\ Advances
  BY <1>1, EnterAdvances DEF Early, Phase, IInv
<1>3. \A q \in Proc : ~Listening(q)
  BY ListenerIsListening DEF Listen, AddrInUse, IInv
<1>4. \A q \in Proc : Listening(q)' => q = p
  BY <1>1, <1>3 DEF Enter, Listening, IInv, TypeOK
<1>5. OneListener'
  BY <1>4 DEF OneListener
<1>6. ExitStopsModelServer' /\ model' \in [Proc -> BOOLEAN]
  BY <1>1 DEF Enter, ExitStopsModelServer, IInv, TypeOK
<1> QED BY <1>2, <1>5, <1>6 DEF ProcessesSound

(* A model server goes; the phases stay. *)
LEMMA ServerGone ==
    ASSUME IInv, NEW p \in Proc, model' = [model EXCEPT ![p] = FALSE], phase' = phase
    PROVE  ProcessesSound
<1>1. Advances /\ phase' \in [Proc -> Phase]
  BY DEF Advances, Listening, IInv, TypeOK
<1>2. ExitStopsModelServer' /\ model' \in [Proc -> BOOLEAN]
  BY DEF ExitStopsModelServer, IInv, TypeOK
<1>3. OneListener'
  BY NoNewListener DEF Listening, IInv
<1> QED BY <1>1, <1>2, <1>3 DEF ProcessesSound

LEMMA NothingMoves ==
    ASSUME IInv, phase' = phase, model' = model
    PROVE  ProcessesSound
BY DEF ProcessesSound, Advances, Listening, OneListener, ExitStopsModelServer, IInv, TypeOK

(* A process is killed, or gets a SIGTERM or a ^C. *)
LEMMA KilledSound ==
    ASSUME IInv, NEW p \in Proc, IsRunning(p), phase' = [phase EXCEPT ![p] = "killed"],
           model' = model
    PROVE  ProcessesSound
<1>1. Enter(p, phase[p], "killed")
  BY DEF Enter
<1> QED BY <1>1, MoveSound DEF IsRunning, Early, Phase

LEMMA TerminatedSound ==
    ASSUME IInv, NEW p \in Proc, IsRunning(p), Terminated(p), model' = model
    PROVE  ProcessesSound
<1>1. CASE phase[p] = "serving"
  <2>1. Enter(p, "serving", "signalled")
    BY <1>1 DEF Terminated, Enter
  <2> QED BY <2>1, MoveSound DEF Early, Phase
<1>2. CASE phase[p] \in Handled
  <2>1. phase' = [phase EXCEPT ![p] = phase[p]]
    <3>1. phase[p] # "serving"
      BY <1>2 DEF Handled
    <3> QED BY <1>2, <3>1 DEF Terminated
  <2>2. phase' = phase
    BY <2>1 DEF IInv, TypeOK
  <2> QED BY <2>2, NothingMoves
<1>3. CASE phase[p] # "serving" /\ phase[p] \notin Handled
  <2>1. phase' = [phase EXCEPT ![p] = "killed"]
    BY <1>3 DEF Terminated
  <2> QED BY <2>1, KilledSound
<1> QED BY <1>1, <1>2, <1>3

(* A step of one process that leaves the terminals alone. *)
ProcessStep(p) ==
    StartForeground(p) \/ Run(p) \/ ServerExits(p) \/ Crash(p) \/ Interrupt(p)

LEMMA ProcessStepSound ==
    ASSUME IInv, NEW p \in Proc, ProcessStep(p)
    PROVE  ProcessesSound
<1>1. CASE StartForeground(p)
  BY <1>1, BeginSound DEF StartForeground
<1>2. CASE Healthy(p) \/ Unhealthy(p) \/ ListenFails(p)
  BY <1>2, MoveSound DEF Healthy, Unhealthy, ListenFails, Early, Phase
<1>3. CASE Listen(p)
  BY <1>3, ListenSound
<1>4. CASE Record(p) \/ RecordFails(p) \/ Notify(p)
  BY <1>4, MoveSound DEF Record, RecordFails, Notify, Early, Phase
<1>5. CASE Close(p) \/ ServeFails(p) \/ RemoveOwn(p)
  BY <1>5, MoveSound DEF Close, ServeFails, RemoveOwn, Early, Phase
<1>6. CASE KillServer(p) \/ ServerExits(p)
  BY <1>6, ServerGone DEF KillServer, ServerExits
<1>7. CASE ServerStopped(p)
  BY <1>7, MoveSound DEF ServerStopped, Early, Phase
<1>8. CASE Crash(p)
  BY <1>8, KilledSound DEF Crash
<1>9. CASE Interrupt(p)
  BY <1>9, TerminatedSound DEF Interrupt
<1> QED BY <1>1, <1>2, <1>3, <1>4, <1>5, <1>6, <1>7, <1>8, <1>9 DEF ProcessStep, Run

LEMMA ProcessKeepsInv ==
    ASSUME IInv, NEW p \in Proc, ProcessStep(p)
    PROVE  IInv'
<1>1. ProcessesSound
  BY ProcessStepSound
<1>2. cmd' = cmd
  BY DEF ProcessStep, StartForeground, Run, Healthy, Unhealthy, ListenFails, Listen, Record,
     RecordFails, Notify, Close, ServeFails, RemoveOwn, Crash, Interrupt, KillServer,
     ServerExits, ServerStopped
<1>3. pidfile' \in {pidfile, 0} \/ Record(p)
  BY DEF ProcessStep, StartForeground, Begin, Run, Healthy, Unhealthy, ListenFails, Listen,
     RecordFails, Notify, Close, ServeFails, RemoveOwn, Crash, Interrupt, KillServer,
     ServerExits, ServerStopped
<1>4. pidfile' \in Proc \cup {0} /\ Started(pidfile)'
  <2>1. CASE pidfile' \in {pidfile, 0}
    BY <1>1, <2>1 DEF ProcessesSound, Advances, Started, PidsSound, IInv, TypeOK
  <2>2. CASE Record(p)
    BY <2>2 DEF Record, Enter, Started, IInv, TypeOK
  <2> QED BY <1>3, <2>1, <2>2
<1>5. \A c \in Cmd : CommandSoundAt(c)'
  BY <1>1, <1>2, OthersKept DEF ProcessesSound
<1>6. DOMAIN cmd' = Cmd /\ cmd' = [c \in Cmd |-> cmd'[c]]
  BY <1>2 DEF IInv, TypeOK
<1> QED BY <1>1, <1>4, <1>5, <1>6, PutTogether DEF ProcessesSound
-----------------------------------------------------------------------------
(* Steps of the commands. *)

(* A command's step keeps the invariant when it keeps its own terminal's part. *)
LEMMA CommandKeepsInv ==
    ASSUME IInv, NEW c \in Cmd, ProcessesSound,
           pidfile' \in {pidfile, 0},
           DOMAIN cmd' = Cmd, cmd' = [d \in Cmd |-> cmd'[d]],
           \A d \in Cmd \ {c} : cmd'[d] = cmd[d],
           CommandSoundAt(c)'
    PROVE  IInv'
<1>1. Advances
  BY DEF ProcessesSound
<1>2. pidfile' \in Proc \cup {0} /\ Started(pidfile)'
  BY <1>1 DEF Advances, Started, PidsSound, IInv, TypeOK
<1>3. \A d \in Cmd : CommandSoundAt(d)'
  BY <1>1, OthersKept
<1> QED BY <1>1, <1>2, <1>3, PutTogether DEF ProcessesSound

LEMMA IdleSound ==
    ASSUME NEW c \in Cmd, cmd'[c] = Idle
    PROVE  CommandSoundAt(c)'
BY DEF CommandSoundAt, Idle, Command, Started, RestartSoundAt, StopSoundAt, Launching, Proc

(* A command that goes to its next call without learning a pid: what is left to
   show is what that call relies on. *)
LEMMA GotoSound ==
    ASSUME IInv, NEW c \in Cmd, NEW at, Goto(c, at), ProcessesSound,
           at \in {"find", "guard", "check", "signal", "remove", "clear",
                   "drop", "wait", "start", "probe", "probing", "await", "failed", "done"},
           pidfile' \in {pidfile, 0},
           at \in {"guard", "check", "signal"} => cmd[c].pid # 0,
           cmd[c].op = "restart" /\ at = "find" => cmd[c].pid = 0,
           cmd[c].op = "restart" /\ at \in {"drop", "start", "probe", "probing", "await"}
               => Gone(cmd[c].pid),
           cmd[c].op = "stop" => at \notin Launching,
           cmd[c].op = "stop" /\ at = "clear" => Gone(cmd[c].pid),
           cmd[c].op = "stop" /\ at = "failed" => ~Listening(cmd[c].witness)
    PROVE  IInv'
<1>1. /\ \A d \in Cmd \ {c} : cmd'[d] = cmd[d]
      /\ DOMAIN cmd' = Cmd /\ cmd' = [d \in Cmd |-> cmd'[d]]
  BY GotoEffect DEF IInv
<1>2. CommandSoundAt(c)
  BY SoundAtAll
<1>3. CASE cmd'[c] = Idle
  BY <1>1, <1>3, IdleSound, CommandKeepsInv
<1>4. CASE cmd'[c] = [cmd[c] EXCEPT !.at = at] /\ at # "done"
  <2>1. /\ cmd'[c].op = cmd[c].op /\ cmd'[c].at = at /\ cmd'[c].pid = cmd[c].pid
        /\ cmd'[c].found = cmd[c].found /\ cmd'[c].witness = cmd[c].witness
        /\ cmd'[c] \in Command
    BY <1>2, <1>4 DEF CommandSoundAt, Command
  <2>2. {cmd[c].pid, cmd[c].witness} \subseteq Proc \cup {0} /\ 0 \notin Proc
    BY <1>2 DEF CommandSoundAt, Command, Proc
  <2>3. Started(cmd[c].pid)' /\ (Gone(cmd[c].pid) => Gone(cmd[c].pid)')
    <3>1. Started(cmd[c].pid)
      BY <1>2 DEF CommandSoundAt
    <3>2. cmd[c].pid = 0 \/ cmd'[c].pid \in Proc
      BY <2>1, <2>2
    <3> QED BY <2>1, <2>2, <3>1, <3>2 DEF ProcessesSound, Advances, Started, Gone
  <2>4. cmd[c].witness # 0 => phase'[cmd[c].witness] \notin Early
    BY <1>2, <2>2 DEF CommandSoundAt, ProcessesSound, Advances
  <2>5. ~Listening(cmd[c].witness) => ~Listening(cmd[c].witness)'
    BY <1>2, <2>1, <2>2 DEF CommandSoundAt, ProcessesSound, Advances, Listening
  <2>6. RestartSoundAt(c)'
    BY <2>1, <2>3 DEF RestartSoundAt, Gone
  <2>7. StopSoundAt(c)'
    BY <1>2, <2>1, <2>3, <2>5 DEF CommandSoundAt, StopSoundAt, Gone, Listening
  <2>8. CommandSoundAt(c)'
    BY <2>1, <2>3, <2>4, <2>6, <2>7 DEF CommandSoundAt, Started
  <2> QED BY <1>1, <2>8, CommandKeepsInv
<1> QED BY <1>3, <1>4, GotoEffect DEF IInv

LEMMA CallKeepsInv ==
    ASSUME IInv, NEW c \in Cmd, NEW op \in {"start", "stop", "restart", "status"}, Call(c, op)
    PROVE  IInv'
<1>1. ProcessesSound /\ pidfile' = pidfile
  BY NothingMoves DEF Call
<1>2. /\ DOMAIN cmd' = Cmd /\ cmd' = [d \in Cmd |-> cmd'[d]]
      /\ \A d \in Cmd \ {c} : cmd'[d] = cmd[d]
      /\ cmd'[c] = [Idle EXCEPT !.op = op, !.at = IF op = "start" THEN "start" ELSE "read",
                                !.witness = IF op = "stop" THEN Listener ELSE 0]
  BY DEF Call, IInv, TypeOK
<1>3. Listener \in Proc \cup {0} /\ (Listener # 0 => phase'[Listener] \notin Early)
  BY ListenerIsListening DEF Call, Listening, Early, IInv
<1>4. CommandSoundAt(c)'
  BY <1>2, <1>3 DEF CommandSoundAt, Idle, Command, Started, RestartSoundAt, StopSoundAt, Launching,
     Gone, Proc
<1> QED BY <1>1, <1>2, <1>4, CommandKeepsInv

(* A pid that was found, in the pidfile or by its listener, is started. *)
LEMMA LearnsPid ==
    ASSUME IInv, NEW c \in Cmd, ProcessesSound, phase' = phase, pidfile' = pidfile,
           NEW pid \in Proc, Started(pid), NEW found \in BOOLEAN,
           DOMAIN cmd' = Cmd, cmd' = [d \in Cmd |-> cmd'[d]],
           \A d \in Cmd \ {c} : cmd'[d] = cmd[d],
           cmd'[c] = [op |-> cmd[c].op, at |-> AfterPid(c), pid |-> pid, found |-> found,
                      mine |-> cmd[c].mine, witness |-> cmd[c].witness],
           cmd[c].op = "stop" /\ found /\ Listening(cmd[c].witness) => pid = cmd[c].witness
    PROVE  IInv'
<1>1. CommandSoundAt(c) /\ 0 \notin Proc
  BY SoundAtAll DEF Proc
<1>2. /\ cmd'[c] \in Command /\ cmd'[c].op = cmd[c].op /\ cmd'[c].pid = pid
      /\ cmd'[c].found = found /\ cmd'[c].witness = cmd[c].witness
      /\ cmd'[c].at \in {"check", "guard"}
  BY <1>1 DEF CommandSoundAt, Command, AfterPid
<1>3. RestartSoundAt(c)' /\ StopSoundAt(c)'
  BY <1>2 DEF RestartSoundAt, StopSoundAt, Launching, Listening
<1>4. CommandSoundAt(c)'
  BY <1>1, <1>2, <1>3 DEF CommandSoundAt, Started
<1> QED BY <1>4, CommandKeepsInv

LEMMA ReadKeepsInv ==
    ASSUME IInv, NEW c \in Cmd, ReadPidfile(c)
    PROVE  IInv'
<1>1. ProcessesSound /\ phase' = phase /\ pidfile' = pidfile
  BY NothingMoves DEF ReadPidfile
<1>2. CommandSoundAt(c)
  BY SoundAtAll
<1>3. CASE pidfile = 0
  <2>1. Goto(c, "find")
    BY <1>3 DEF ReadPidfile
  <2> QED BY <1>1, <1>2, <2>1, GotoSound DEF ReadPidfile, CommandSoundAt, RestartSoundAt, Launching
<1>4. CASE pidfile # 0
  <2>1. pidfile \in Proc /\ Started(pidfile)
    BY <1>4 DEF IInv, TypeOK, PidsSound
  <2>2. cmd' = [cmd EXCEPT ![c] = [@ EXCEPT !.pid = pidfile, !.at = AfterPid(c)]]
    BY <1>4 DEF ReadPidfile, IInv, TypeOK
  <2>3. /\ DOMAIN cmd' = Cmd /\ cmd' = [d \in Cmd |-> cmd'[d]]
        /\ \A d \in Cmd \ {c} : cmd'[d] = cmd[d]
        /\ cmd'[c] = [op |-> cmd[c].op, at |-> AfterPid(c), pid |-> pidfile,
                      found |-> cmd[c].found, mine |-> cmd[c].mine, witness |-> cmd[c].witness]
    BY <1>2, <2>2 DEF CommandSoundAt, Command, IInv, TypeOK
  <2>4. cmd[c].found \in BOOLEAN
    BY <1>2 DEF CommandSoundAt, Command
  <2>5. pidfile = cmd[c].witness \/ ~(cmd[c].op = "stop" /\ cmd[c].found /\ Listening(cmd[c].witness))
    BY <1>2 DEF CommandSoundAt, StopSoundAt, ReadPidfile
  <2> QED BY <1>1, <2>1, <2>3, <2>4, <2>5, LearnsPid
<1> QED BY <1>3, <1>4

LEMMA FindKeepsInv ==
    ASSUME IInv, NEW c \in Cmd, FindListener(c)
    PROVE  IInv'
<1>1. ProcessesSound /\ phase' = phase /\ pidfile' = pidfile
  BY NothingMoves DEF FindListener
<1>2. CommandSoundAt(c)
  BY SoundAtAll
<1>3. CASE Listener = 0
  <2>1. \A p \in Proc : ~Listening(p)
    BY <1>3, ListenerIsListening DEF IInv
  <2>2. ~Listening(cmd[c].witness)
    BY <1>2, <2>1 DEF CommandSoundAt, Command, Listening
  <2>3. cmd[c].op = "restart" => Gone(cmd[c].pid)
    BY <1>2 DEF FindListener, CommandSoundAt, RestartSoundAt, Gone
  <2>4. Goto(c, IF cmd[c].op = "restart" THEN "start"
                ELSE IF cmd[c].op = "status" THEN "clear" ELSE "failed")
    BY <1>3 DEF FindListener
  <2> QED BY <1>1, <2>2, <2>3, <2>4, GotoSound DEF Launching
<1>4. CASE Listener # 0
  <2>1. Listener \in Proc /\ Listening(Listener) /\ Started(Listener)
    BY <1>4, ListenerIsListening DEF IInv, Listening, Started
  <2>2. cmd' = [cmd EXCEPT ![c] = [@ EXCEPT !.pid = Listener, !.found = TRUE, !.at = AfterPid(c)]]
    BY <1>4 DEF FindListener, IInv, TypeOK
  <2>3. /\ DOMAIN cmd' = Cmd /\ cmd' = [d \in Cmd |-> cmd'[d]]
        /\ \A d \in Cmd \ {c} : cmd'[d] = cmd[d]
        /\ cmd'[c] = [op |-> cmd[c].op, at |-> AfterPid(c), pid |-> Listener,
                      found |-> TRUE, mine |-> cmd[c].mine, witness |-> cmd[c].witness]
    BY <1>2, <2>2 DEF CommandSoundAt, Command, IInv, TypeOK
  <2>4. Listening(cmd[c].witness) => Listener = cmd[c].witness
    BY <1>2, <2>1 DEF CommandSoundAt, Command, OneListener, IInv, Listening
  <2> QED BY <1>1, <2>1, <2>3, <2>4, LearnsPid
<1> QED BY <1>3, <1>4

(* A pid that does not run any more, though it was started, is gone. *)
LEMMA NotRunning ==
    ASSUME IInv, NEW c \in Cmd, ~IsRunning(cmd[c].pid)
    PROVE  Gone(cmd[c].pid)
BY SoundAtAll DEF CommandSoundAt, Started, IsRunning, Gone

LEMMA GuardKeepsInv ==
    ASSUME IInv, NEW c \in Cmd, Guard(c)
    PROVE  IInv'
<1>1. ProcessesSound /\ pidfile' = pidfile
  BY NothingMoves DEF Guard
<1>2. cmd[c].pid # 0
  BY SoundAtAll DEF Guard, CommandSoundAt
<1>3. CASE cmd[c].op = "restart"
  BY <1>1, <1>2, <1>3, NotRunning, GotoSound DEF Guard, Launching
<1>4. CASE cmd[c].op # "restart"
  <2>1. ~IsRunning(cmd[c].pid) => Gone(cmd[c].pid)
    BY NotRunning
  <2>2. Goto(c, IF IsRunning(cmd[c].pid) THEN "done" ELSE IF cmd[c].found THEN "clear" ELSE "find")
    BY <1>4 DEF Guard
  <2> QED BY <1>1, <1>4, <2>1, <2>2, GotoSound DEF Launching
<1> QED BY <1>3, <1>4

LEMMA CheckKeepsInv ==
    ASSUME IInv, NEW c \in Cmd, Check(c)
    PROVE  IInv'
<1>1. ProcessesSound /\ pidfile' = pidfile
  BY NothingMoves DEF Check
<1>2. cmd[c].pid # 0
  BY SoundAtAll DEF Check, CommandSoundAt
<1> QED BY <1>1, <1>2, NotRunning, GotoSound DEF Check, Launching

(* What a stop that cannot stop its pid may conclude. *)
LEMMA GoneIsNotWitness ==
    ASSUME IInv, NEW c \in Cmd, cmd[c].op = "stop", cmd[c].found, Gone(cmd[c].pid)
    PROVE  ~Listening(cmd[c].witness)
BY SoundAtAll DEF CommandSoundAt, StopSoundAt, Gone, Listening

LEMMA SignalKeepsInv ==
    ASSUME IInv, NEW c \in Cmd, Signal(c)
    PROVE  IInv'
<1>1. cmd[c].pid \in Proc /\ pidfile' = pidfile /\ model' = model
  BY SoundAtAll DEF Signal, CommandSoundAt, Command
<1>2. CASE IsRunning(cmd[c].pid)
  <2>1. ProcessesSound
    BY <1>1, <1>2, TerminatedSound DEF Signal
  <2>2. Goto(c, "remove")
    BY <1>2 DEF Signal
  <2> QED BY <1>1, <2>1, <2>2, GotoSound DEF Launching
<1>3. CASE ~IsRunning(cmd[c].pid)
  <2>1. ProcessesSound /\ Goto(c, AfterFailure(c))
    BY <1>1, <1>3, NothingMoves DEF Signal
  <2>2. Gone(cmd[c].pid)
    BY <1>3, NotRunning
  <2> QED BY <1>1, <2>1, <2>2, GoneIsNotWitness, GotoSound DEF AfterFailure, Launching
<1> QED BY <1>2, <1>3

LEMMA RemoveKeepsInv ==
    ASSUME IInv, NEW c \in Cmd, RemovePidfile(c)
    PROVE  IInv'
<1>1. ProcessesSound /\ pidfile' = 0
  BY NothingMoves DEF RemovePidfile
<1>2. CommandSoundAt(c)
  BY SoundAtAll
<1>3. CASE cmd[c].at = "remove" /\ Goto(c, AfterRemove(c))
  BY <1>1, <1>3, GotoSound DEF AfterRemove, Launching
<1>4. CASE cmd[c].at = "clear" /\ Goto(c, IF cmd[c].op = "status" THEN "done" ELSE AfterFailure(c))
  <2>1. cmd[c].op = "stop" => Gone(cmd[c].pid)
    BY <1>2, <1>4 DEF CommandSoundAt, StopSoundAt
  <2> QED BY <1>1, <1>4, <2>1, GoneIsNotWitness, GotoSound DEF AfterFailure, Launching
<1>5. CASE cmd[c].at = "drop" /\ Goto(c, "start")
  BY <1>1, <1>2, <1>5, GotoSound DEF CommandSoundAt, RestartSoundAt, StopSoundAt, Launching
<1> QED BY <1>3, <1>4, <1>5 DEF RemovePidfile

LEMMA WaitKeepsInv ==
    ASSUME IInv, NEW c \in Cmd, OldIsGone(c) \/ WaitTimesOut(c)
    PROVE  IInv'
<1>1. ProcessesSound /\ pidfile' = pidfile
  BY NothingMoves DEF OldIsGone, WaitTimesOut
<1>2. cmd[c].op # "stop"
  BY SoundAtAll DEF CommandSoundAt, StopSoundAt, Launching, OldIsGone, WaitTimesOut
<1>3. CASE OldIsGone(c)
  BY <1>1, <1>2, <1>3, NotRunning, GotoSound DEF OldIsGone
<1>4. CASE WaitTimesOut(c)
  BY <1>1, <1>2, <1>4, GotoSound DEF WaitTimesOut
<1> QED BY <1>3, <1>4

(* What starting keeps knowing of the process that was there before. *)
LEMMA LaunchingKnows ==
    ASSUME IInv, NEW c \in Cmd, cmd[c].at \in {"start", "probe", "probing", "await"}
    PROVE  cmd[c].op # "stop" /\ (cmd[c].op = "restart" => Gone(cmd[c].pid))
BY SoundAtAll DEF CommandSoundAt, RestartSoundAt, StopSoundAt, Launching

LEMMA StartKeepsInv ==
    ASSUME IInv, NEW c \in Cmd, RefuseRunning(c) \/ Probe(c) \/ SomeoneListens(c)
    PROVE  IInv'
<1>1. ProcessesSound /\ pidfile' = pidfile
  BY NothingMoves DEF RefuseRunning, Probe, SomeoneListens
<1>2. cmd[c].op # "stop" /\ (cmd[c].op = "restart" => Gone(cmd[c].pid))
  BY LaunchingKnows DEF RefuseRunning, Probe, SomeoneListens
<1>3. PICK at \in {"failed", "probe", "probing", "done"} : Goto(c, at)
  BY DEF RefuseRunning, Probe, SomeoneListens
<1> QED BY <1>1, <1>2, <1>3, GotoSound

LEMMA SpawnKeepsInv ==
    ASSUME IInv, NEW c \in Cmd, Spawn(c)
    PROVE  IInv'
<1>1. cmd[c].op # "stop" /\ (cmd[c].op = "restart" => Gone(cmd[c].pid))
  BY LaunchingKnows DEF Spawn
<1>2. ASSUME NEW p \in Proc, Begin(p), cmd' = [cmd EXCEPT ![c].at = "await", ![c].mine = p]
      PROVE  IInv'
  <2>1. ProcessesSound /\ pidfile' = pidfile
    BY <1>2, BeginSound DEF Begin
  <2>2. CommandSoundAt(c)
    BY SoundAtAll
  <2>3. /\ DOMAIN cmd' = Cmd /\ cmd' = [d \in Cmd |-> cmd'[d]]
        /\ \A d \in Cmd \ {c} : cmd'[d] = cmd[d]
        /\ cmd'[c] = [op |-> cmd[c].op, at |-> "await", pid |-> cmd[c].pid,
                      found |-> cmd[c].found, mine |-> p, witness |-> cmd[c].witness]
    BY <1>2, <2>2 DEF CommandSoundAt, Command, IInv, TypeOK
  <2>4. /\ cmd'[c] \in Command /\ cmd'[c].op = cmd[c].op /\ cmd'[c].at = "await"
        /\ cmd'[c].pid = cmd[c].pid /\ cmd'[c].witness = cmd[c].witness
        /\ {cmd[c].pid, cmd[c].witness} \subseteq Proc \cup {0} /\ 0 \notin Proc
    BY <2>2, <2>3 DEF CommandSoundAt, Command, Proc
  <2>5. Started(cmd[c].pid)' /\ (Gone(cmd[c].pid) => Gone(cmd[c].pid)')
    <3>1. Started(cmd[c].pid)
      BY <2>2 DEF CommandSoundAt
    <3>2. cmd[c].pid = 0 \/ cmd'[c].pid \in Proc
      BY <2>4
    <3> QED BY <2>1, <2>4, <3>1, <3>2 DEF ProcessesSound, Advances, Started, Gone
  <2>6. cmd[c].witness # 0 => phase'[cmd[c].witness] \notin Early
    BY <2>1, <2>2, <2>4 DEF CommandSoundAt, ProcessesSound, Advances
  <2>7. RestartSoundAt(c)' /\ StopSoundAt(c)'
    BY <1>1, <2>4, <2>5 DEF RestartSoundAt, StopSoundAt, Gone
  <2>8. CommandSoundAt(c)'
    BY <2>4, <2>5, <2>6, <2>7 DEF CommandSoundAt, Started
  <2> QED BY <2>1, <2>3, <2>8, CommandKeepsInv
<1>3. CASE Goto(c, "failed") /\ UNCHANGED <<phase, model, pidfile>>
  BY <1>1, <1>3, NothingMoves, GotoSound
<1> QED BY <1>2, <1>3 DEF Spawn

LEMMA TimeoutKeepsInv ==
    ASSUME IInv, NEW c \in Cmd, AwaitTimesOut(c)
    PROVE  IInv'
<1>1. Goto(c, "failed") /\ pidfile' = pidfile /\ model' = model /\ cmd[c].op # "stop"
  BY LaunchingKnows DEF AwaitTimesOut
<1>2. ProcessesSound
  <2>1. CASE IsRunning(cmd[c].mine)
    <3>1. cmd[c].mine \in Proc
      BY <2>1, SoundAtAll DEF CommandSoundAt, Command, IsRunning
    <3> QED BY <1>1, <2>1, <3>1, KilledSound DEF AwaitTimesOut
  <2>2. CASE ~IsRunning(cmd[c].mine)
    BY <1>1, <2>2, NothingMoves DEF AwaitTimesOut
  <2> QED BY <2>1, <2>2
<1> QED BY <1>1, <1>2, GotoSound

LEMMA ReturnKeepsInv ==
    ASSUME IInv, NEW c \in Cmd, Return(c)
    PROVE  IInv'
<1>1. ProcessesSound /\ pidfile' = pidfile
  BY NothingMoves DEF Return
<1> QED BY <1>1, GotoSound DEF Return, Launching

LEMMA CommandStepKeepsInv ==
    ASSUME IInv, NEW c \in Cmd, CommandStep(c)
    PROVE  IInv'
BY ReadKeepsInv, FindKeepsInv, GuardKeepsInv, CheckKeepsInv, SignalKeepsInv, RemoveKeepsInv,
   WaitKeepsInv, StartKeepsInv, SpawnKeepsInv, TimeoutKeepsInv, ReturnKeepsInv DEF CommandStep
-----------------------------------------------------------------------------
(* Nothing runs and nothing is asked before the first command. *)
THEOREM Initially == Init => IInv
<1> SUFFICES ASSUME Init PROVE IInv
  OBVIOUS
<1>1. \A c \in Cmd : cmd[c] = Idle
  BY DEF Init
<1>2. TypeOK
  BY <1>1 DEF Init, TypeOK, Idle, Command, Phase
<1>3. PidsSound /\ CommandsSound
  BY <1>1 DEF Init, PidsSound, CommandsSound, Idle, Started, RestartSoundAt, StopSoundAt, Launching
<1>4. OneListener /\ ExitStopsModelServer
  BY DEF Init, OneListener, ExitStopsModelServer, Listening
<1> QED BY <1>2, <1>3, <1>4 DEF IInv

(* Every step of a process, of a command or of nobody keeps the invariant. *)
THEOREM EveryStep == IInv /\ [Next]_vars => IInv'
<1> SUFFICES ASSUME IInv, [Next]_vars PROVE IInv'
  OBVIOUS
<1>1. ASSUME NEW p \in Proc, ProcessStep(p) PROVE IInv'
  BY <1>1, ProcessKeepsInv
<1>2. ASSUME NEW c \in Cmd, CommandStep(c) PROVE IInv'
  BY <1>2, CommandStepKeepsInv
<1>3. ASSUME NEW c \in Cmd, NEW op \in Ops[c], Call(c, op) PROVE IInv'
  <2>1. op \in {"start", "stop", "restart", "status"}
    BY OpsAssumption
  <2> QED BY <1>3, <2>1, CallKeepsInv
<1>4. CASE UNCHANGED vars
  <2>1. phase' = phase /\ model' = model /\ pidfile' = pidfile /\ cmd' = cmd
    BY <1>4 DEF vars
  <2> QED BY <2>1 DEF IInv, TypeOK, PidsSound, OneListener, CommandsSound, RestartSoundAt,
        StopSoundAt, ExitStopsModelServer, Started, Gone, IsRunning, Listening
<1> QED BY <1>1, <1>2, <1>3, <1>4 DEF Next, ProcessStep

THEOREM Inductive == Spec => []IInv
<1> QED BY Initially, EveryStep, PTL DEF Spec

(* Every state is well typed (the phases of runForeground, the calls of the
   commands, and no command that signals the pid 0). *)
THEOREM TypeTheorem == Spec => []TypeOK
<1>1. IInv => TypeOK
  BY DEF IInv
<1> QED BY <1>1, Inductive, PTL

(* stop finds the daemon that listens, whatever the pidfile says (StopOrFind). *)
THEOREM StopTheorem == Spec => []StopFindsServer
<1>1. IInv => StopFindsServer
  BY DEF IInv, CommandsSound, StopSoundAt, StopFindsServer
<1> QED BY <1>1, Inductive, PTL

(* restart starts the new daemon after the end of the old one
   (StopOrFindAndWait before startDetached). *)
THEOREM RestartTheorem == Spec => []RestartWaitsForOld
<1>1. IInv => RestartWaitsForOld
  BY DEF IInv, CommandsSound, RestartSoundAt, RestartWaitsForOld, Gone, IsRunning
<1> QED BY <1>1, Inductive, PTL

(* A process that returns from runForeground has stopped its llama-server,
   whichever of the calls after its start failed (main.go:474-535). *)
THEOREM ExitTheorem == Spec => []ExitStopsModelServer
<1>1. IInv => ExitStopsModelServer
  BY DEF IInv
<1> QED BY <1>1, Inductive, PTL
=============================================================================

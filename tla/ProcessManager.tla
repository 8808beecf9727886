--------------------------- MODULE ProcessManager ---------------------------
(* The commands start, stop, restart and run of cli.py, and the processes    *)
(* they manage on Windows: a service and the launchers above it are one      *)
(* process here, known by one pid, and are killed together.  Pids are used   *)
(* again.  Nobody takes over a pid between the look at its command line and  *)
(* the kill.                                                                 *)
EXTENDS Naturals, Sequences, FiniteSets, SequencesExt

CONSTANTS
  Pids,
  Commands,  \* invocations of the CLI
  Kinds,     \* which commands are given
  MaxBegun,  \* bound: how many commands are given
  None, Half

Services == <<"api", "web", "worker">>
Ported == {"api", "web"}
Names == ToSet(Services)

ASSUME ProcessAssumption ==
  /\ MaxBegun \in Nat
  /\ Kinds \subseteq {"start", "stop", "restart", "run"}
  /\ {None, Half} \cap Pids = {} /\ None # Half

VARIABLES
  proc,  \* what each pid is: a service, foreign, or nothing; how far a service is
  port,  \* who listens on the port of a service
  file,  \* the pid file of a service: a pid, None, or Half when it is empty
  cmd,
  begun  \* how many commands have been given

vars == <<proc, port, file, cmd, begun>>

NoProcess == [what |-> "none", stage |-> "none"]
Rest == [kind |-> "none", pc |-> "idle", todo |-> <<>>, own |-> <<>>, named |-> {}, clean |-> FALSE]

Init ==
  /\ proc = [p \in Pids |-> NoProcess]
  /\ port = [s \in Ported |-> None]
  /\ file = [s \in Names |-> None]
  /\ cmd = [c \in Commands |-> Rest]
  /\ begun = 0

Runs(p) == proc[p].what # "none"
IsSundarr(p) == proc[p].what \in Names

\* The pids that a new process may get: a command has its processes open, and
\* their pids are not used again.
Unused == {p \in Pids : ~Runs(p)} \ UNION {ToSet(cmd[c].own) : c \in Commands}

\* The writer of a pid file has it open and has not written the pid yet.
Open(s) == \E p \in Pids : proc[p].what = s /\ proc[p].stage = "writing"

Killed(ps) == [p \in Pids |-> IF p \in ps THEN NoProcess ELSE proc[p]]
Released(ps) == [s \in Ported |-> IF port[s] \in ps THEN None ELSE port[s]]

Kill(ps) == proc' = Killed(ps) /\ port' = Released(ps)
NoKill == UNCHANGED <<proc, port>>

-----------------------------------------------------------------------------
(* The commands                                                              *)

Service(c) == Head(cmd[c].todo)
Become(c, new) == cmd' = [cmd EXCEPT ![c] = new]

\* An error ends the command and leaves what it has started.
Aborted(c) == Become(c, Rest)

\* The command is through with a service.  A start first prepares all of them;
\* after a stop comes the end, or the start of a restart.
Advance(q) ==
  IF Len(q.todo) > 1 THEN [q EXCEPT !.todo = Tail(@)]
  ELSE CASE q.pc = "stop" /\ q.kind = "restart" -> [q EXCEPT !.pc = "prepare", !.todo = Services]
         [] q.pc \in {"prepare", "port"} -> [q EXCEPT !.pc = "spawn", !.todo = Services]
         [] q.pc = "spawn" /\ q.kind = "run" -> [q EXCEPT !.pc = "watch", !.todo = <<>>]
         [] OTHER -> [q EXCEPT !.pc = "done", !.todo = <<>>]

\* No other command is at work and no service is coming up.
Calm(c) ==
  /\ \A d \in Commands \ {c} : cmd[d] = Rest
  /\ \A p \in Pids : proc[p].stage \in {"none", "serving"}

Begin(c, kind) ==
  /\ cmd[c] = Rest /\ begun < MaxBegun
  /\ begun' = begun + 1
  /\ cmd' = [d \in Commands |->
       IF d # c THEN [cmd[d] EXCEPT !.clean = FALSE]
       ELSE [Rest EXCEPT !.kind = kind, !.clean = Calm(c),
               !.named = IF kind = "stop" THEN {file[s] : s \in Names} \cap {p \in Pids : IsSundarr(p)}
                                          ELSE {},
               !.pc = IF kind \in {"stop", "restart"} THEN "stop" ELSE "prepare",
               !.todo = IF kind \in {"stop", "restart"} THEN Reverse(Services) ELSE Services]]
  /\ UNCHANGED <<proc, port, file>>

\* _read_pid cannot read a number and removes the file, which Windows refuses
\* while the writer has it open: the command ends with that error.
ReadHalf(c) ==
  /\ cmd[c].pc \in {"stop", "prepare", "wait"} /\ file[Service(c)] = Half
  /\ IF Open(Service(c)) THEN Aborted(c) /\ UNCHANGED file
     ELSE file' = [file EXCEPT ![Service(c)] = None] /\ UNCHANGED cmd
  /\ NoKill

\* Mutant: whatever has the pid is killed.
MayKillAny(p) == Runs(p)

\* _sundarr_process_tree_root finds a command line of this project.
MayKill(p) == IsSundarr(p)

\* Mutant: a process that does not end is taken for stopped.
KillOutcomesIgnored(q, after) == {<<{}, after>>, <<{file[Head(q.todo)]}, after>>}

\* What taskkill has killed, and how the command goes on.
KillOutcomes(q, after) == {<<{}, Rest>>, <<{file[Head(q.todo)]}, after>>}

\* _stop_service: the file is removed if the process is dead, killed or not of
\* Sundarr, which is an error, and kept if the process does not end.
StopService(c, after) ==
  /\ file[Service(c)] \in Pids /\ Runs(file[Service(c)])
  /\ \/ /\ MayKill(file[Service(c)])
        /\ \E outcome \in KillOutcomes(cmd[c], after) :
             /\ Kill(outcome[1]) /\ Become(c, outcome[2])
             /\ file' = IF outcome[2] = Rest THEN file ELSE [file EXCEPT ![Service(c)] = None]
     \/ /\ ~MayKill(file[Service(c)])
        /\ file' = [file EXCEPT ![Service(c)] = None]
        /\ Aborted(c) /\ NoKill

Stop(c) == cmd[c].pc = "stop" /\ StopService(c, Advance(cmd[c]))

StopDead(c) ==
  /\ cmd[c].pc = "stop"
  /\ file[Service(c)] = None \/ (file[Service(c)] \in Pids /\ ~Runs(file[Service(c)]))
  /\ file' = [file EXCEPT ![Service(c)] = None]
  /\ Become(c, Advance(cmd[c])) /\ NoKill

\* _prepare_process; for a service with a port, a look at the port follows.
Prepared(q) == IF Head(q.todo) \in Ported THEN [q EXCEPT !.pc = "port"] ELSE Advance(q)

Prepare(c) == cmd[c].pc = "prepare" /\ StopService(c, Prepared(cmd[c]))

PrepareDead(c) ==
  /\ cmd[c].pc = "prepare"
  /\ file[Service(c)] = None \/ (file[Service(c)] \in Pids /\ ~Runs(file[Service(c)]))
  /\ Become(c, Prepared(cmd[c]))
  /\ NoKill /\ UNCHANGED file

AfterPort(q) == Advance([q EXCEPT !.pc = "prepare"])

\* _prepare_port: who is left on the port is killed if it is of Sundarr; only
\* the port tells whether that was successful.
PreparePort(c) ==
  /\ cmd[c].pc = "port"
  /\ LET p == port[Service(c)] IN
       \/ p = None /\ Become(c, AfterPort(cmd[c])) /\ NoKill
       \/ p # None /\ ~MayKill(p) /\ Aborted(c) /\ NoKill
       \/ p # None /\ MayKill(p) /\ Become(c, AfterPort(cmd[c])) /\ Kill({p})
       \/ p # None /\ MayKill(p) /\ Aborted(c) /\ NoKill
  /\ UNCHANGED file

\* _start_service: the old file goes, and the process is made.  What run starts
\* is told of no file.
Spawn(c) ==
  /\ cmd[c].pc = "spawn"
  /\ \E p \in Unused :
       /\ proc' = [proc EXCEPT ![p] = [what |-> Service(c), stage |->
                     IF cmd[c].kind = "run" \/ Service(c) = "web" THEN "ready" ELSE "boot"]]
       /\ LET q == [cmd[c] EXCEPT !.own = Append(@, p)]
          IN Become(c, IF q.kind = "run" THEN Advance(q) ELSE [q EXCEPT !.pc = "wait"])
  /\ file' = IF cmd[c].kind = "run" THEN file ELSE [file EXCEPT ![Service(c)] = None]
  /\ UNCHANGED port

\* The program is not found: the error leaves what has been started before.
SpawnFails(c) ==
  /\ cmd[c].pc = "spawn"
  /\ Aborted(c) /\ NoKill
  /\ file' = IF cmd[c].kind = "run" THEN file ELSE [file EXCEPT ![Service(c)] = None]

Child(c) == Last(cmd[c].own)

Exited(c) == ~Runs(Child(c))

\* Mutant: any listener is taken for the new service.
ListenersAny(c) == {port[Service(c)]} \ {None}

\* Who listens, if it is the process that has been started.
Listeners(c) == {port[Service(c)]} \cap {Child(c)}

Started(c) == Become(c, Advance([cmd[c] EXCEPT !.pc = "spawn"]))

\* _wait_for_port_service_pid and _wait_for_service_pid_file
WaitPort(c) ==
  /\ cmd[c].pc = "wait" /\ Service(c) \in Ported /\ ~Exited(c)
  /\ \E p \in Listeners(c) : file' = [file EXCEPT ![Service(c)] = p]
  /\ Started(c) /\ NoKill

WaitFile(c) ==
  /\ cmd[c].pc = "wait" /\ Service(c) \notin Ported /\ ~Exited(c)
  /\ file[Service(c)] = Child(c)
  /\ Started(c) /\ NoKill /\ UNCHANGED file

WaitExited(c) ==
  /\ cmd[c].pc = "wait" /\ Exited(c)
  /\ Aborted(c) /\ NoKill /\ UNCHANGED file

\* Nobody looks whether the kill was successful.
WaitTimeout(c) ==
  /\ cmd[c].pc = "wait" /\ ~Exited(c)
  /\ Kill({Child(c)}) \/ NoKill
  /\ Aborted(c) /\ UNCHANGED file

\* run: a process has ended, or the user has typed Ctrl+C; those still running
\* are killed, and nobody looks whether they are.
RunEnds(c) ==
  /\ cmd[c].pc = "watch"
  /\ \E ps \in SUBSET {p \in ToSet(cmd[c].own) : Runs(p)} : Kill(ps)
  /\ Aborted(c) /\ UNCHANGED file

\* Nothing depends on when a command that is through is forgotten.
Done(c) ==
  /\ cmd[c].pc = "done"
  /\ Aborted(c) /\ NoKill /\ UNCHANGED file

\* The console is closed: what has been started goes on.
CommandDies(c) ==
  /\ cmd[c] # Rest
  /\ Aborted(c) /\ NoKill /\ UNCHANGED file

-----------------------------------------------------------------------------
(* The processes                                                             *)

At(p, stage) == proc[p].stage = stage /\ IsSundarr(p)
Goto(p, stage) == proc' = [proc EXCEPT ![p].stage = stage]

\* The API and the worker write their own pid before they serve.
OpenFile(p) ==
  /\ At(p, "boot")
  /\ file' = [file EXCEPT ![proc[p].what] = Half]
  /\ Goto(p, "writing")
  /\ UNCHANGED <<port, cmd>>

WriteFile(p) ==
  /\ At(p, "writing")
  /\ file' = [file EXCEPT ![proc[p].what] = p]
  /\ Goto(p, "ready")
  /\ UNCHANGED <<port, cmd>>

\* A service with a taken port ends, or, the web server, takes another port.
Serve(p) ==
  /\ At(p, "ready")
  /\ \/ /\ proc[p].what = "worker"
        /\ Goto(p, "serving") /\ UNCHANGED port
     \/ /\ proc[p].what \in Ported /\ port[proc[p].what] = None
        /\ Goto(p, "serving") /\ port' = [port EXCEPT ![proc[p].what] = p]
     \/ /\ proc[p].what = "api" /\ port["api"] # None
        /\ Kill({p})
     \/ /\ proc[p].what = "web" /\ port["web"] # None
        /\ Goto(p, "serving") /\ UNCHANGED port
  /\ UNCHANGED <<file, cmd>>

Crash(p) ==
  /\ IsSundarr(p)
  /\ Kill({p})
  /\ UNCHANGED <<file, cmd>>

\* Another program takes a free pid, and a free port.
ForeignStarts(p) ==
  /\ p \in Unused /\ \A other \in Pids : proc[other].what # "foreign"
  /\ proc' = [proc EXCEPT ![p] = [NoProcess EXCEPT !.what = "foreign"]]
  /\ \E s \in {t \in Ported : port[t] = None} \cup {None} :
       port' = IF s = None THEN port ELSE [port EXCEPT ![s] = p]
  /\ UNCHANGED <<file, cmd>>

ForeignEnds(p) ==
  /\ proc[p].what = "foreign"
  /\ Kill({p})
  /\ UNCHANGED <<file, cmd>>

CommandStep(c) ==
  \/ ReadHalf(c) \/ Stop(c) \/ StopDead(c) \/ Prepare(c) \/ PrepareDead(c) \/ PreparePort(c)
  \/ Spawn(c) \/ SpawnFails(c) \/ WaitPort(c) \/ WaitFile(c) \/ WaitExited(c) \/ WaitTimeout(c)
  \/ RunEnds(c) \/ CommandDies(c)

ProcessStep(p) ==
  OpenFile(p) \/ WriteFile(p) \/ Serve(p) \/ Crash(p) \/ ForeignStarts(p) \/ ForeignEnds(p)

Next ==
  \/ (\E c \in Commands : Done(c)) /\ UNCHANGED begun
  \/ /\ \A c \in Commands : cmd[c].pc # "done"
     /\ \/ \E c \in Commands, kind \in Kinds : Begin(c, kind)
        \/ (\E c \in Commands : CommandStep(c)) /\ UNCHANGED begun
        \/ (\E p \in Pids : ProcessStep(p)) /\ UNCHANGED begun

Spec == Init /\ [][Next]_vars
-----------------------------------------------------------------------------
\* Whatever stale pid files and used pids there are, no command ever ends a
\* process that is not of Sundarr.
NoForeignKilled ==
  [][\A p \in Pids : proc[p].what = "foreign" /\ proc'[p].what # "foreign" => cmd' = cmd]_vars

Succeeds(c, kinds) == cmd[c].kind \in kinds /\ cmd[c].pc # "done" /\ cmd'[c].pc = "done"

\* If a start succeeds that has met no other command and no service on its way,
\* every pid file names the process it has started (docs/08: pid files name the
\* real processes), whatever was left before and whoever took a port meanwhile.
StartOwnsAll ==
  [][\A c \in Commands : Succeeds(c, {"start", "restart"}) /\ cmd[c].clean =>
       \A i \in DOMAIN Services : file'[Services[i]] = cmd[c].own[i]]_vars

\* If a stop succeeds, under the same conditions, nothing that a pid file named
\* when it began is running.
StopStops ==
  [][\A c \in Commands : Succeeds(c, {"stop"}) /\ cmd[c].clean =>
       \A p \in cmd[c].named : proc'[p].what \notin Names]_vars

\* Refuted: there never are two workers.  What run has started is in no pid
\* file, and only its ports are looked at by a later start.
OneWorker == \A p, r \in Pids : proc[p].what = "worker" /\ proc[r].what = "worker" => p = r
-----------------------------------------------------------------------------
(* The inductive invariant behind the three action properties                *)

\* The services a command still has before it, in the one order or the other.
Forward == {Services, <<"web", "worker">>, <<"worker">>}
Backward == {<<"worker", "web", "api">>, <<"web", "api">>, <<"api">>}

Command ==
  [kind : {"none", "start", "stop", "restart", "run"},
   pc : {"idle", "stop", "prepare", "port", "spawn", "wait", "watch", "done"},
   todo : Forward \cup Backward \cup {<<>>}, own : Seq(Pids), named : SUBSET Pids, clean : BOOLEAN]

TodoFits(q) ==
  /\ q.pc = "stop" => q.todo \in Backward /\ q.kind \in {"stop", "restart"}
  /\ q.pc \in {"prepare", "port", "spawn", "wait"} => q.todo \in Forward
  /\ q.pc = "port" => q.todo # <<"worker">>
  /\ q.pc = "wait" => q.own # <<>> /\ q.kind # "run"
  /\ q.pc = "idle" => q = Rest

TypeOK ==
  /\ proc \in [Pids -> [what : Names \cup {"none", "foreign"},
                        stage : {"none", "boot", "writing", "ready", "serving"}]]
  /\ \A p \in Pids : proc[p].what \in {"none", "foreign"} => proc[p].stage = "none"
  /\ port \in [Ported -> Pids \cup {None}]
  /\ file \in [Names -> Pids \cup {None, Half}]
  /\ cmd \in [Commands -> Command]
  /\ \A c \in Commands : TodoFits(cmd[c])
  /\ begun \in Nat

\* The pid of what a command has started is nobody else's.
OwnKept == \A c \in Commands : \A i \in DOMAIN cmd[c].own : proc[cmd[c].own[i]].what # "foreign"

\* A service holds a port only when it serves.
PortsServed ==
  \A s \in Ported : port[s] # None =>
    proc[port[s]].what = "foreign" \/ proc[port[s]].stage = "serving"

\* A clean command is alone, and what is coming up is the service it waits for.
CleanAlone == \A c \in Commands : cmd[c].clean => \A d \in Commands \ {c} : cmd[d] = Rest
CleanCalm(c) ==
  \A p \in Pids :
    \/ proc[p].stage \in {"none", "serving"}
    \/ cmd[c].pc = "wait" /\ p = Child(c) /\ proc[p].what = Service(c)

\* A service that was named, and is running, is one that is still to be stopped.
StopCovers(c) ==
  \A p \in cmd[c].named : IsSundarr(p) => \E s \in ToSet(cmd[c].todo) : file[s] = p

\* The services behind it have the pids of what the command has started.
Behind(c) == Len(Services) - Len(cmd[c].todo)
OwnsStarted(c) ==
  /\ cmd[c].pc \in {"stop", "prepare", "port"} => cmd[c].own = <<>>
  /\ cmd[c].pc = "spawn" => Len(cmd[c].own) = Behind(c)
  /\ cmd[c].pc = "wait" => Len(cmd[c].own) = Behind(c) + 1
  /\ cmd[c].pc \in {"spawn", "wait"} =>
       \A i \in 1..Behind(c) : file[Services[i]] = cmd[c].own[i]

Course(c) ==
  /\ cmd[c].kind # "run" => CleanCalm(c)
  /\ cmd[c].kind = "stop" => cmd[c].pc = "stop" /\ StopCovers(c)
  /\ cmd[c].kind \in {"start", "restart"} => OwnsStarted(c)
Undisturbed(c) == cmd[c].clean /\ cmd[c].pc # "done"
CleanInv == \A c \in Commands : Undisturbed(c) => Course(c)
=============================================================================

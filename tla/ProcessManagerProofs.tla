------------------------ MODULE ProcessManagerProofs ------------------------
(* Proofs about ProcessManager, for any number of pids and commands: a       *)
(* command never ends a process that is not of Sundarr, a start that         *)
(* succeeds undisturbed owns what the pid files name, and a stop leaves      *)
(* nothing running of what they named.                                       *)
EXTENDS ProcessManager, TLAPS

ManagerInv == TypeOK /\ OwnKept /\ PortsServed /\ CleanAlone /\ CleanInv

-----------------------------------------------------------------------------
(* The services a command has before it                                      *)

LEMMA ServiceNames ==
  /\ Names = {"api", "web", "worker"}
  /\ Services = <<"api", "web", "worker">>
  /\ Reverse(Services) = <<"worker", "web", "api">>
<1>1. Names = {"api", "web", "worker"} BY DEF Names, ToSet, Services
<1>2. Len(Services) = 3 /\ Services[1] = "api" /\ Services[2] = "web" /\ Services[3] = "worker"
  BY DEF Services
<1>3. Reverse(Services) = [i \in 1..3 |-> Services[4 - i]]
  BY <1>2 DEF Reverse
<1>4. Reverse(Services) = <<"worker", "web", "api">> BY <1>2, <1>3
<1> QED BY <1>1, <1>4 DEF Services

LEMMA TodoFacts ==
  ASSUME NEW t \in Forward \cup Backward
  PROVE  /\ Len(t) \in 1..3 /\ Head(t) \in Names /\ Head(t) \in ToSet(t)
         /\ Len(t) > 1 => Tail(t) \in Forward \cup Backward /\ Len(Tail(t)) = Len(t) - 1
         /\ Len(t) > 1 /\ t \in Forward => Tail(t) \in Forward
         /\ Len(t) > 1 /\ t \in Backward => Tail(t) \in Backward
         /\ t # <<>>
<1>1. /\ Tail(<<"api", "web", "worker">>) = <<"web", "worker">>
      /\ Tail(<<"web", "worker">>) = <<"worker">>
      /\ Tail(<<"worker", "web", "api">>) = <<"web", "api">>
      /\ Tail(<<"web", "api">>) = <<"api">>
  OBVIOUS
<1>2. t \in {<<"api", "web", "worker">>, <<"web", "worker">>, <<"worker">>,
            <<"worker", "web", "api">>, <<"web", "api">>, <<"api">>}
  BY ServiceNames DEF Forward, Backward
<1>3. Len(t) \in 1..3 /\ Head(t) \in Names BY <1>2, ServiceNames
<1>4. Head(t) \in ToSet(t) BY <1>2 DEF ToSet
<1>5. Len(t) > 1 => Len(Tail(t)) = Len(t) - 1 BY <1>1, <1>2
<1>6. Len(t) > 1 /\ t \in Forward => Tail(t) \in Forward
  <2>1. CASE t = <<"api", "web", "worker">> BY <1>1, <2>1 DEF Forward
  <2>2. CASE t = <<"web", "worker">> BY <1>1, <2>2 DEF Forward
  <2>3. CASE t = <<"worker">> BY <2>3
  <2> QED BY <2>1, <2>2, <2>3, ServiceNames DEF Forward
<1>7. Len(t) > 1 /\ t \in Backward => Tail(t) \in Backward
  <2>1. CASE t = <<"worker", "web", "api">> BY <1>1, <2>1 DEF Backward
  <2>2. CASE t = <<"web", "api">> BY <1>1, <2>2 DEF Backward
  <2>3. CASE t = <<"api">> BY <2>3
  <2> QED BY <2>1, <2>2, <2>3 DEF Backward
<1> QED BY <1>2, <1>3, <1>4, <1>5, <1>6, <1>7

LEMMA TodoNames ==
  ASSUME NEW t \in Forward \cup Backward \cup {<<>>}
  PROVE  ToSet(t) \subseteq Names
<1>1. CASE t = <<>>
  <2>1. DOMAIN t = {} BY <1>1, SMT
  <2> QED BY <2>1 DEF ToSet
<1>2. CASE t \in Forward BY <1>2, ServiceNames DEF Forward, ToSet
<1>3. CASE t \in Backward BY <1>3, ServiceNames DEF Backward, ToSet
<1> QED BY <1>1, <1>2, <1>3

\* A command goes through the services in their order.
LEMMA ForwardFacts ==
  ASSUME NEW t \in Forward
  PROVE  /\ Len(Services) - Len(t) \in 0..2
         /\ Head(t) = Services[Len(Services) - Len(t) + 1]
         /\ \A i \in 1..(Len(Services) - Len(t)) : Services[i] # Head(t) /\ Services[i] \in Names
         /\ Head(t) \notin Ported => t = <<"worker">>
<1>1. CASE t = <<"api", "web", "worker">> BY <1>1, ServiceNames DEF Ported
<1>2. CASE t = <<"web", "worker">> BY <1>2, ServiceNames DEF Ported
<1>3. CASE t = <<"worker">> BY <1>3, ServiceNames DEF Ported
<1> QED BY <1>1, <1>2, <1>3, ServiceNames DEF Forward

\* What is left after the first service.
LEMMA BackwardRest ==
  ASSUME NEW t \in Backward, NEW s \in ToSet(t), s # Head(t)
  PROVE  Len(t) > 1 /\ s \in ToSet(Tail(t))
<1>1. /\ Tail(<<"worker", "web", "api">>) = <<"web", "api">>
      /\ Tail(<<"web", "api">>) = <<"api">>
  OBVIOUS
<1>2. PICK i \in DOMAIN t : s = t[i] BY DEF ToSet
<1>3. CASE t = <<"worker", "web", "api">> BY <1>1, <1>2, <1>3 DEF ToSet
<1>4. CASE t = <<"web", "api">> BY <1>1, <1>2, <1>4 DEF ToSet
<1>5. CASE t = <<"api">> BY <1>2, <1>5
<1> QED BY <1>3, <1>4, <1>5 DEF Backward


-----------------------------------------------------------------------------
(* What becomes of a command                                                 *)

LEMMA RestFits == Rest \in Command /\ TodoFits(Rest)
<1>1. <<>> \in Seq(Pids) OBVIOUS
<1> QED BY <1>1 DEF Rest, Command, TodoFits

Settled(q, new) ==
  new.kind = q.kind /\ new.own = q.own /\ new.named = q.named /\ new.clean = q.clean

LEMMA AdvanceFits ==
  ASSUME NEW q \in Command, TodoFits(q), q.pc \in {"stop", "prepare", "spawn"}
  PROVE  /\ Advance(q) \in Command /\ TodoFits(Advance(q)) /\ Settled(q, Advance(q))
         /\ \/ /\ Len(q.todo) > 1 /\ Advance(q).pc = q.pc /\ Advance(q).todo = Tail(q.todo)
            \/ /\ q.pc = "stop" /\ q.kind = "restart"
               /\ Advance(q).pc = "prepare" /\ Advance(q).todo = Services
            \/ q.pc = "prepare" /\ Advance(q).pc = "spawn" /\ Advance(q).todo = Services
            \/ q.pc = "spawn" /\ q.kind = "run" /\ Advance(q).pc = "watch"
            \/ /\ Len(q.todo) = 1 /\ Advance(q).pc = "done"
               /\ \/ q.pc = "stop" /\ q.kind = "stop"
                  \/ q.pc = "spawn" /\ q.kind # "run"
<1>1. q.todo \in Forward \cup Backward BY DEF TodoFits
<1>2. Len(q.todo) \in 1..3 BY <1>1, TodoFacts
<1>3. Services \in Forward BY DEF Forward
<1>4. CASE Len(q.todo) > 1
  <2> DEFINE e == [q EXCEPT !.todo = Tail(q.todo)]
  <2>1. Advance(q) = e BY <1>4 DEF Advance
  <2>2. Tail(q.todo) \in Forward \cup Backward BY <1>1, <1>4, TodoFacts
  <2>3. /\ e \in Command /\ e.pc = q.pc /\ e.todo = Tail(q.todo) /\ Settled(q, e)
    BY <2>2 DEF Command, Settled
  <2>4. q.todo \in Backward => Tail(q.todo) \in Backward BY <1>4, TodoFacts
  <2>5. q.todo \in Forward => Tail(q.todo) \in Forward BY <1>4, TodoFacts
  <2> HIDE DEF e
  <2>6. TodoFits(e) BY <2>3, <2>4, <2>5 DEF TodoFits, Settled
  <2> QED BY <1>4, <2>1, <2>3, <2>6
<1>5. CASE Len(q.todo) = 1 /\ q.pc = "stop" /\ q.kind = "restart"
  <2> DEFINE e == [q EXCEPT !.pc = "prepare", !.todo = Services]
  <2>1. Advance(q) = e BY <1>5 DEF Advance
  <2>2. e \in Command /\ e.pc = "prepare" /\ e.todo = Services /\ Settled(q, e)
    BY <1>3 DEF Command, Settled
  <2> HIDE DEF e
  <2>3. TodoFits(e) BY <1>3, <2>2 DEF TodoFits
  <2> QED BY <1>5, <2>1, <2>2, <2>3
<1>6. CASE Len(q.todo) = 1 /\ q.pc = "prepare"
  <2> DEFINE e == [q EXCEPT !.pc = "spawn", !.todo = Services]
  <2>1. Advance(q) = e BY <1>6 DEF Advance
  <2>2. e \in Command /\ e.pc = "spawn" /\ e.todo = Services /\ Settled(q, e)
    BY <1>3 DEF Command, Settled
  <2> HIDE DEF e
  <2>3. TodoFits(e) BY <1>3, <2>2 DEF TodoFits
  <2> QED BY <1>6, <2>1, <2>2, <2>3
<1>7. CASE Len(q.todo) = 1 /\ q.pc = "spawn" /\ q.kind = "run"
  <2> DEFINE e == [q EXCEPT !.pc = "watch", !.todo = <<>>]
  <2>1. Advance(q) = e BY <1>7 DEF Advance
  <2>2. e \in Command /\ e.pc = "watch" /\ Settled(q, e) BY DEF Command, Settled
  <2> HIDE DEF e
  <2>3. TodoFits(e) BY <2>2 DEF TodoFits
  <2> QED BY <1>7, <2>1, <2>2, <2>3
<1>8. CASE /\ Len(q.todo) = 1
           /\ \/ q.pc = "stop" /\ q.kind = "stop"
              \/ q.pc = "spawn" /\ q.kind # "run"
  <2> DEFINE e == [q EXCEPT !.pc = "done", !.todo = <<>>]
  <2>1. Advance(q) = e BY <1>8 DEF Advance
  <2>2. e \in Command /\ e.pc = "done" /\ Settled(q, e) BY DEF Command, Settled
  <2> HIDE DEF e
  <2>3. TodoFits(e) BY <2>2 DEF TodoFits
  <2> QED BY <1>8, <2>1, <2>2, <2>3
<1> QED BY <1>2, <1>4, <1>5, <1>6, <1>7, <1>8 DEF TodoFits

\* What the look at a pid file, or at a port, leads to.
LEMMA PreparedFits ==
  ASSUME NEW q \in Command, TodoFits(q), q.pc = "prepare"
  PROVE  /\ Prepared(q) \in Command /\ TodoFits(Prepared(q)) /\ Settled(q, Prepared(q))
         /\ \/ Prepared(q).pc \in {"prepare", "port"}
            \/ Prepared(q).pc = "spawn" /\ Prepared(q).todo = Services
<1>1. CASE Head(q.todo) \in Ported
  <2> DEFINE e == [q EXCEPT !.pc = "port"]
  <2>1. Prepared(q) = e BY <1>1 DEF Prepared
  <2>2. e \in Command /\ e.pc = "port" /\ e.todo = q.todo /\ Settled(q, e) BY DEF Command, Settled
  <2>3. q.todo # <<"worker">> BY <1>1 DEF Ported
  <2> HIDE DEF e
  <2>4. TodoFits(e) BY <2>2, <2>3 DEF TodoFits, Settled
  <2> QED BY <2>1, <2>2, <2>4
<1>2. CASE Head(q.todo) \notin Ported
  <2>1. Prepared(q) = Advance(q) BY <1>2 DEF Prepared
  <2> QED BY <2>1, AdvanceFits
<1> QED BY <1>1, <1>2

LEMMA AfterPortFits ==
  ASSUME NEW q \in Command, TodoFits(q), q.pc = "port"
  PROVE  /\ AfterPort(q) \in Command /\ TodoFits(AfterPort(q)) /\ Settled(q, AfterPort(q))
         /\ \/ AfterPort(q).pc = "prepare"
            \/ AfterPort(q).pc = "spawn" /\ AfterPort(q).todo = Services
<1> DEFINE e == [q EXCEPT !.pc = "prepare"]
<1>1. AfterPort(q) = Advance(e) BY DEF AfterPort
<1>2. e \in Command /\ e.pc = "prepare" /\ e.todo = q.todo /\ Settled(q, e) BY DEF Command, Settled
<1> HIDE DEF e
<1>3. TodoFits(e) BY <1>2 DEF TodoFits
<1>4. /\ Advance(e) \in Command /\ TodoFits(Advance(e)) /\ Settled(e, Advance(e))
      /\ \/ Advance(e).pc = "prepare"
         \/ Advance(e).pc = "spawn" /\ Advance(e).todo = Services
  BY <1>2, <1>3, AdvanceFits
<1> QED BY <1>1, <1>2, <1>4 DEF Settled

\* The next of the services to be started.
LEMMA StartedFits ==
  ASSUME NEW q \in Command, TodoFits(q), q.pc = "wait"
  PROVE  LET new == Advance([q EXCEPT !.pc = "spawn"])
         IN /\ new \in Command /\ TodoFits(new) /\ Settled(q, new)
            /\ \/ Len(q.todo) > 1 /\ new.pc = "spawn" /\ new.todo = Tail(q.todo)
               \/ Len(q.todo) = 1 /\ new.pc = "done"
<1> DEFINE e == [q EXCEPT !.pc = "spawn"]
           new == Advance(e)
<1>1. e \in Command /\ e.pc = "spawn" /\ e.todo = q.todo /\ Settled(q, e) BY DEF Command, Settled
<1>2. q.kind # "run" BY DEF TodoFits
<1> HIDE DEF e
<1>3. TodoFits(e) BY <1>1 DEF TodoFits
<1>4. /\ new \in Command /\ TodoFits(new) /\ Settled(e, new)
      /\ \/ Len(e.todo) > 1 /\ new.pc = "spawn" /\ new.todo = Tail(e.todo)
         \/ Len(e.todo) = 1 /\ new.pc = "done"
  BY <1>1, <1>2, <1>3, AdvanceFits DEF Settled
<1>5. /\ new \in Command /\ TodoFits(new) /\ Settled(q, new)
      /\ \/ Len(q.todo) > 1 /\ new.pc = "spawn" /\ new.todo = Tail(q.todo)
         \/ Len(q.todo) = 1 /\ new.pc = "done"
  BY <1>1, <1>4 DEF Settled
<1> QED BY <1>5 DEF e

-----------------------------------------------------------------------------
(* What becomes of the processes                                             *)

Process ==
  [what : Names \cup {"none", "foreign"}, stage : {"none", "boot", "writing", "ready", "serving"}]

ProcsTyped ==
  /\ proc \in [Pids -> Process]
  /\ \A p \in Pids : proc[p].what \in {"none", "foreign"} => proc[p].stage = "none"
  /\ port \in [Ported -> Pids \cup {None}]

LEMMA NoProcessFacts ==
  NoProcess \in Process /\ NoProcess.what = "none" /\ NoProcess.stage = "none"
  /\ "none" \notin Names /\ "foreign" \notin Names
BY ServiceNames DEF NoProcess, Process

LEMMA Typed ==
  ASSUME TypeOK
  PROVE  /\ ProcsTyped
         /\ \A c \in Commands : cmd[c] \in Command /\ TodoFits(cmd[c])
         /\ file \in [Names -> Pids \cup {None, Half}]
BY DEF TypeOK, ProcsTyped, Process

LEMMA KillKeeps ==
  ASSUME TypeOK, PortsServed, NEW ps, Kill(ps)
  PROVE  /\ ProcsTyped' /\ PortsServed'
         /\ \A p \in Pids : proc'[p] = IF p \in ps THEN NoProcess ELSE proc[p]
<1>1. ProcsTyped BY Typed
<1>2. \A p \in Pids : proc'[p] = IF p \in ps THEN NoProcess ELSE proc[p] BY DEF Kill, Killed
<1>3. proc' \in [Pids -> Process] BY <1>1, NoProcessFacts DEF Kill, Killed, ProcsTyped
<1>4. \A p \in Pids : proc'[p].what \in {"none", "foreign"} => proc'[p].stage = "none"
  BY <1>1, <1>2, NoProcessFacts DEF ProcsTyped
<1>5. /\ port' \in [Ported -> Pids \cup {None}]
      /\ \A s \in Ported : port'[s] # None => port'[s] = port[s] /\ port[s] \notin ps
  BY <1>1 DEF Kill, Released, ProcsTyped
<1>6. PortsServed'
  <2>1. ASSUME NEW s \in Ported, port'[s] # None
        PROVE  proc'[port'[s]].what = "foreign" \/ proc'[port'[s]].stage = "serving"
    <3>1. port[s] \in Pids /\ port'[s] = port[s] /\ port[s] \notin ps BY <1>1, <1>5, <2>1 DEF ProcsTyped
    <3>2. proc'[port'[s]] = proc[port[s]] BY <1>2, <3>1
    <3> QED BY <2>1, <3>1, <3>2 DEF PortsServed
  <2> QED BY <2>1 DEF PortsServed
<1> QED BY <1>2, <1>3, <1>4, <1>5, <1>6 DEF ProcsTyped

LEMMA NoKillKeeps ==
  ASSUME TypeOK, PortsServed, NoKill
  PROVE  ProcsTyped' /\ PortsServed'
BY Typed DEF NoKill, ProcsTyped, PortsServed

-----------------------------------------------------------------------------
(* The steps of a command                                                    *)

\* While a command is at work no other one is clean, so that it alone has a
\* course to keep.
LEMMA CommandKeeps ==
  ASSUME ManagerInv, NEW c \in Commands, cmd[c].pc # "idle",
         NEW new \in Command, TodoFits(new), Become(c, new),
         new.clean => cmd[c].clean,
         \A i \in DOMAIN new.own : proc'[new.own[i]].what # "foreign",
         \A p \in Pids : proc'[p].what = "foreign" => proc[p].what = "foreign",
         ProcsTyped', PortsServed', file' \in [Names -> Pids \cup {None, Half}], UNCHANGED begun,
         new.clean /\ new.pc # "done" => Course(c)'
  PROVE  ManagerInv'
<1>1. cmd \in [Commands -> Command] /\ begun \in Nat /\ \A d \in Commands : TodoFits(cmd[d])
  BY DEF ManagerInv, TypeOK
<1>2. /\ cmd' \in [Commands -> Command] /\ cmd'[c] = new
      /\ \A d \in Commands \ {c} : cmd'[d] = cmd[d]
  BY <1>1 DEF Become
<1>3. TypeOK'
  <2>1. \A d \in Commands : TodoFits(cmd'[d]) BY <1>1, <1>2
  <2> QED BY <1>1, <1>2, <2>1 DEF TypeOK, ProcsTyped, Process
<1>4. OwnKept'
  <2>1. ASSUME NEW d \in Commands \ {c}, NEW i \in DOMAIN cmd[d].own
        PROVE  proc'[cmd[d].own[i]].what # "foreign"
    <3>1. cmd[d].own \in Seq(Pids) BY <1>1 DEF Command
    <3>2. cmd[d].own[i] \in Pids BY <3>1
    <3> QED BY <3>2 DEF ManagerInv, OwnKept
  <2> QED BY <1>2, <2>1 DEF OwnKept
<1>5. cmd[c] # Rest BY DEF Rest
<1>6. \A d \in Commands \ {c} : ~cmd[d].clean BY <1>5 DEF ManagerInv, CleanAlone
<1>7. CleanAlone'
  <2>1. ASSUME new.clean, NEW d \in Commands \ {c} PROVE cmd'[d] = Rest
    BY <1>2, <2>1 DEF ManagerInv, CleanAlone
  <2> QED BY <1>2, <1>6, <2>1 DEF CleanAlone, Rest
<1>8. CleanInv'
  <2>1. ASSUME NEW d \in Commands \ {c} PROVE ~Undisturbed(d)'
    BY <1>2, <1>6 DEF Undisturbed
  <2>2. Undisturbed(c)' => Course(c)' BY <1>2 DEF Undisturbed
  <2> QED BY <2>1, <2>2 DEF CleanInv
<1> QED BY <1>3, <1>4, <1>7, <1>8 DEF ManagerInv, PortsServed

\* A command that is over, whatever has ended it.
LEMMA RestKeeps ==
  ASSUME ManagerInv, NEW c \in Commands, cmd[c].pc # "idle", Aborted(c),
         \A p \in Pids : proc'[p].what = "foreign" => proc[p].what = "foreign",
         ProcsTyped', PortsServed', file' \in [Names -> Pids \cup {None, Half}], UNCHANGED begun
  PROVE  ManagerInv'
<1>1. Rest \in Command /\ TodoFits(Rest) BY RestFits
<1>2. ~Rest.clean /\ Rest.own = <<>> BY DEF Rest
<1>3. DOMAIN <<>> = {} BY SMT
<1> QED BY <1>1, <1>2, <1>3, CommandKeeps DEF Aborted

LEMMA NoKillIsKill ==
  ASSUME TypeOK, NoKill
  PROVE  Kill({})
BY Typed DEF NoKill, Kill, Killed, Released, ProcsTyped

LEMMA OwnFacts ==
  ASSUME ManagerInv, NEW c \in Commands, NEW i \in DOMAIN cmd[c].own
  PROVE  cmd[c].own[i] \in Pids /\ proc[cmd[c].own[i]].what # "foreign"
<1>1. cmd[c].own \in Seq(Pids) BY Typed DEF ManagerInv, Command
<1> QED BY <1>1 DEF ManagerInv, OwnKept

\* Nothing comes up by a kill.
LEMMA CalmKept ==
  ASSUME NEW c \in Commands, CleanCalm(c), cmd[c].pc # "wait", NEW ps,
         \A p \in Pids : proc'[p] = IF p \in ps THEN NoProcess ELSE proc[p]
  PROVE  CleanCalm(c)'
<1>1. \A p \in Pids : proc[p].stage \in {"none", "serving"} BY DEF CleanCalm
<1>2. \A p \in Pids : proc'[p].stage \in {"none", "serving"} BY <1>1, NoProcessFacts
<1> QED BY <1>2 DEF CleanCalm

LEMMA ReadHalfStep ==
  ASSUME ManagerInv, NEW c \in Commands, ReadHalf(c), UNCHANGED begun
  PROVE  ManagerInv'
<1>1. /\ cmd[c].pc \in {"stop", "prepare", "wait"} /\ file[Service(c)] = Half
      /\ UNCHANGED <<proc, port>> /\ NoKill
  BY DEF ReadHalf, NoKill
<1>2. ProcsTyped' /\ PortsServed' BY <1>1, NoKillKeeps DEF ManagerInv
<1>3. cmd[c] \in Command /\ TodoFits(cmd[c]) /\ file \in [Names -> Pids \cup {None, Half}]
  BY Typed DEF ManagerInv
<1>4. CASE Aborted(c) /\ UNCHANGED file BY <1>1, <1>2, <1>3, <1>4, RestKeeps
<1>5. CASE file' = [file EXCEPT ![Service(c)] = None] /\ UNCHANGED cmd
  <2>1. Become(c, cmd[c]) BY <1>5 DEF Become, ManagerInv, TypeOK
  <2>2. \A i \in DOMAIN cmd[c].own : cmd[c].own[i] \in Pids /\ proc'[cmd[c].own[i]].what # "foreign"
    BY <1>1, OwnFacts
  <2>3. \A s \in Names : file[s] \in Pids => file'[s] = file[s]
    BY <1>1, <1>3, <1>5, ProcessAssumption
  <2>4. ASSUME Undisturbed(c) PROVE Course(c)'
    <3>1. Course(c) BY <2>4 DEF ManagerInv, CleanInv
    <3>2. CleanCalm(c) => CleanCalm(c)' BY <1>1, <1>5 DEF CleanCalm, Child, Service
    <3>3. StopCovers(c) => StopCovers(c)'
      <4>1. cmd[c].named \subseteq Pids BY <1>3 DEF Command
      <4>2. ToSet(cmd[c].todo) \subseteq Names BY <1>3, TodoNames DEF Command
      <4> QED BY <1>1, <1>5, <2>3, <4>1, <4>2 DEF StopCovers, IsSundarr
    <3>4. OwnsStarted(c) => OwnsStarted(c)'
      <4>1. SUFFICES ASSUME OwnsStarted(c), cmd[c].pc = "wait", NEW i \in 1..Behind(c)
                     PROVE  file'[Services[i]] = cmd[c].own[i]
        BY <1>1, <1>5 DEF OwnsStarted, Behind
      <4>2. cmd[c].own \in Seq(Pids) /\ cmd[c].todo \in Forward BY <1>3, <4>1 DEF Command, TodoFits
      <4>3. Behind(c) \in 0..2 /\ Services[i] \in Names BY <4>2, ForwardFacts DEF Behind
      <4>4. i \in DOMAIN cmd[c].own BY <4>1, <4>2, <4>3 DEF OwnsStarted
      <4>5. cmd[c].own[i] \in Pids /\ file[Services[i]] = cmd[c].own[i] BY <2>2, <4>1, <4>4 DEF OwnsStarted
      <4> QED BY <2>3, <4>3, <4>5
    <3> QED BY <1>5, <3>1, <3>2, <3>3, <3>4 DEF Course
  <2>5. file' \in [Names -> Pids \cup {None, Half}] BY <1>3, <1>5
  <2> QED BY <1>1, <1>2, <1>3, <2>1, <2>2, <2>4, <2>5, CommandKeeps DEF Undisturbed
<1> QED BY <1>4, <1>5 DEF ReadHalf

\* A service is stopped, or was not running, and the next one is looked at.
LEMMA StopGoesOn ==
  ASSUME ManagerInv, NEW c \in Commands, cmd[c].pc = "stop", Become(c, Advance(cmd[c])),
         NEW ps, Kill(ps),
         file[Service(c)] \in Pids => proc'[file[Service(c)]].what \notin Names,
         file' = [file EXCEPT ![Service(c)] = None], UNCHANGED begun
  PROVE  ManagerInv'
<1> DEFINE q == cmd[c]
           new == Advance(q)
<1>1. /\ q \in Command /\ TodoFits(q) /\ file \in [Names -> Pids \cup {None, Half}]
      /\ cmd'[c] = new /\ ProcsTyped
  BY Typed DEF ManagerInv, Become, TypeOK
<1>2. /\ new \in Command /\ TodoFits(new) /\ Settled(q, new)
      /\ \/ Len(q.todo) > 1 /\ new.pc = "stop" /\ new.todo = Tail(q.todo)
         \/ q.kind = "restart" /\ new.pc = "prepare"
         \/ Len(q.todo) = 1 /\ new.pc = "done"
  BY <1>1, AdvanceFits
<1>3. q.todo \in Backward /\ q.kind \in {"stop", "restart"} BY <1>1 DEF TodoFits
<1>4. Service(c) \in Names BY <1>3, TodoFacts DEF Service
<1>5. /\ ProcsTyped' /\ PortsServed'
      /\ \A p \in Pids : proc'[p] = IF p \in ps THEN NoProcess ELSE proc[p]
  BY KillKeeps DEF ManagerInv
<1>6. \A p \in Pids : proc'[p].what \in Names \cup {"foreign"} => proc'[p] = proc[p]
  BY <1>5, NoProcessFacts
<1>7. \A i \in DOMAIN new.own : proc'[new.own[i]].what # "foreign"
  BY <1>2, <1>5, OwnFacts, NoProcessFacts DEF Settled
<1>8. ASSUME new.clean, new.pc # "done" PROVE Course(c)'
  <2>1. Course(c) BY <1>2, <1>8 DEF ManagerInv, CleanInv, Undisturbed, Settled
  <2>2. CleanCalm(c)' BY <1>3, <1>5, <2>1, CalmKept DEF Course
  <2>3. ASSUME new.kind = "stop" PROVE new.pc = "stop" /\ StopCovers(c)'
    <3>1. Len(q.todo) > 1 /\ new.pc = "stop" /\ new.todo = Tail(q.todo)
      BY <1>2, <1>8, <2>3 DEF Settled
    <3>2. ASSUME NEW p \in new.named, proc'[p].what \in Names
          PROVE  \E s \in ToSet(new.todo) : file'[s] = p
      <4>1. p \in Pids BY <1>2, <3>2 DEF Command
      <4>2. proc'[p] = proc[p] /\ p \in q.named BY <1>2, <1>6, <3>2, <4>1 DEF Settled
      <4>3. PICK s \in ToSet(q.todo) : file[s] = p
        BY <1>2, <2>1, <2>3, <3>2, <4>2 DEF Course, StopCovers, IsSundarr, Settled
      <4>4. s # Service(c) BY <3>2, <4>1, <4>3
      <4>5. s \in ToSet(new.todo) BY <1>3, <3>1, <4>4, BackwardRest DEF Service
      <4>6. s \in Names BY <1>3, TodoNames
      <4>7. file'[s] = p BY <1>1, <4>3, <4>4, <4>6
      <4> QED BY <4>5, <4>7
    <3> QED BY <1>1, <3>1, <3>2 DEF StopCovers, IsSundarr
  <2>4. ASSUME new.kind \in {"start", "restart"} PROVE OwnsStarted(c)'
    <3>1. new.own = <<>> BY <1>2, <2>1, <2>4 DEF Course, OwnsStarted, Settled
    <3> QED BY <1>1, <1>2, <1>8, <3>1 DEF OwnsStarted
  <2> QED BY <1>1, <2>2, <2>3, <2>4 DEF Course
<1>9. file' \in [Names -> Pids \cup {None, Half}] BY <1>1
<1>10. new.clean => q.clean BY <1>2 DEF Settled
<1>11. \A p \in Pids : proc'[p].what = "foreign" => proc[p].what = "foreign" BY <1>6
<1> HIDE DEF new
<1> QED BY <1>2, <1>5, <1>7, <1>8, <1>9, <1>10, <1>11, CommandKeeps DEF new

\* What the two commands that stop services do with a service that is running.
LEMMA StopServiceFacts ==
  ASSUME ManagerInv, NEW c \in Commands, NEW after, StopService(c, after)
  PROVE  \E ps :
           /\ Kill(ps) /\ \A p \in ps : p \in Pids /\ IsSundarr(p)
           /\ \/ Aborted(c) /\ (UNCHANGED file \/ file' = [file EXCEPT ![Service(c)] = None])
              \/ /\ Become(c, after) /\ ps = {file[Service(c)]}
                 /\ file' = IF after = Rest THEN file ELSE [file EXCEPT ![Service(c)] = None]
<1>1. CASE /\ MayKill(file[Service(c)])
           /\ \E outcome \in KillOutcomes(cmd[c], after) :
                /\ Kill(outcome[1]) /\ Become(c, outcome[2])
                /\ file' = IF outcome[2] = Rest THEN file ELSE [file EXCEPT ![Service(c)] = None]
  <2>1. PICK outcome \in {<<{}, Rest>>, <<{file[Service(c)]}, after>>} :
          /\ Kill(outcome[1]) /\ Become(c, outcome[2])
          /\ file' = IF outcome[2] = Rest THEN file ELSE [file EXCEPT ![Service(c)] = None]
    BY <1>1 DEF KillOutcomes, Service
  <2>2. CASE outcome = <<{}, Rest>>
    <3>1. Kill({}) /\ Aborted(c) /\ UNCHANGED file BY <2>1, <2>2 DEF Aborted
    <3> QED BY <3>1
  <2>3. CASE outcome = <<{file[Service(c)]}, after>>
    <3>1. /\ Kill({file[Service(c)]}) /\ Become(c, after)
          /\ file' = IF after = Rest THEN file ELSE [file EXCEPT ![Service(c)] = None]
      BY <2>1, <2>3
    <3>2. file[Service(c)] \in Pids /\ IsSundarr(file[Service(c)]) BY <1>1 DEF StopService, MayKill
    <3> QED BY <3>1, <3>2
  <2> QED BY <2>1, <2>2, <2>3
<1>2. CASE /\ file' = [file EXCEPT ![Service(c)] = None]
           /\ Aborted(c) /\ NoKill
  <2>1. Kill({}) BY <1>2, NoKillIsKill DEF ManagerInv
  <2> QED BY <1>2, <2>1
<1> QED BY <1>1, <1>2 DEF StopService

LEMMA StopStep ==
  ASSUME ManagerInv, NEW c \in Commands, Stop(c) \/ StopDead(c), UNCHANGED begun
  PROVE  ManagerInv'
<1>1. /\ cmd[c].pc = "stop" /\ cmd[c] \in Command /\ TodoFits(cmd[c])
      /\ file \in [Names -> Pids \cup {None, Half}] /\ ProcsTyped
  BY Typed DEF ManagerInv, Stop, StopDead
<1>2. CASE Stop(c)
  <2>1. PICK ps :
          /\ Kill(ps) /\ \A p \in ps : p \in Pids /\ IsSundarr(p)
          /\ \/ Aborted(c) /\ (UNCHANGED file \/ file' = [file EXCEPT ![Service(c)] = None])
             \/ /\ Become(c, Advance(cmd[c])) /\ ps = {file[Service(c)]}
                /\ file' = IF Advance(cmd[c]) = Rest THEN file
                           ELSE [file EXCEPT ![Service(c)] = None]
    BY <1>2, StopServiceFacts DEF Stop
  <2>2. /\ ProcsTyped' /\ PortsServed'
        /\ \A p \in Pids : proc'[p] = IF p \in ps THEN NoProcess ELSE proc[p]
    BY <2>1, KillKeeps DEF ManagerInv
  <2>3. CASE Aborted(c) /\ (UNCHANGED file \/ file' = [file EXCEPT ![Service(c)] = None])
    <3>1. \A p \in Pids : proc'[p].what = "foreign" => proc[p].what = "foreign"
      BY <2>2, NoProcessFacts
    <3>2. file' \in [Names -> Pids \cup {None, Half}] BY <1>1, <2>3
    <3> QED BY <1>1, <2>2, <2>3, <3>1, <3>2, RestKeeps
  <2>4. CASE /\ Become(c, Advance(cmd[c])) /\ ps = {file[Service(c)]}
             /\ file' = IF Advance(cmd[c]) = Rest THEN file
                        ELSE [file EXCEPT ![Service(c)] = None]
    <3>1. Advance(cmd[c]).pc # "idle" BY <1>1, AdvanceFits
    <3>2. Advance(cmd[c]) # Rest BY <3>1 DEF Rest
    <3>3. file[Service(c)] \in Pids => proc'[file[Service(c)]].what \notin Names
      BY <2>2, <2>4, NoProcessFacts
    <3> QED BY <1>1, <2>1, <2>4, <3>2, <3>3, StopGoesOn
  <2> QED BY <2>1, <2>3, <2>4
<1>3. CASE StopDead(c)
  <2>1. Kill({}) BY <1>3, NoKillIsKill DEF StopDead, ManagerInv
  <2>2. file[Service(c)] \in Pids => proc'[file[Service(c)]].what \notin Names
    BY <1>3, NoProcessFacts, ProcessAssumption DEF StopDead, Runs, NoKill
  <2> QED BY <1>1, <1>3, <2>1, <2>2, StopGoesOn DEF StopDead
<1> QED BY <1>2, <1>3

\* Before the first process is made, none is owned.
LEMMA PrepareGoesOn ==
  ASSUME ManagerInv, NEW c \in Commands, cmd[c].pc \in {"prepare", "port"},
         NEW new \in Command, TodoFits(new), Settled(cmd[c], new),
         new.pc \in {"prepare", "port"} \/ (new.pc = "spawn" /\ new.todo = Services),
         Become(c, new), NEW ps, Kill(ps),
         file' \in [Names -> Pids \cup {None, Half}], UNCHANGED begun
  PROVE  ManagerInv'
<1>1. cmd'[c] = new BY DEF ManagerInv, Become, TypeOK
<1>2. /\ ProcsTyped' /\ PortsServed'
      /\ \A p \in Pids : proc'[p] = IF p \in ps THEN NoProcess ELSE proc[p]
  BY KillKeeps DEF ManagerInv
<1>3. \A p \in Pids : proc'[p].what = "foreign" => proc[p].what = "foreign"
  BY <1>2, NoProcessFacts
<1>4. \A i \in DOMAIN new.own : proc'[new.own[i]].what # "foreign"
  BY <1>2, OwnFacts, NoProcessFacts DEF Settled
<1>5. ASSUME new.clean, new.pc # "done" PROVE Course(c)'
  <2>1. Course(c) BY <1>5 DEF ManagerInv, CleanInv, Undisturbed, Settled
  <2>2. new.kind # "stop" BY <2>1 DEF Course, Settled
  <2>3. new.kind # "run" => CleanCalm(c)' BY <1>2, <2>1, CalmKept DEF Course, Settled
  <2>4. ASSUME new.kind \in {"start", "restart"} PROVE OwnsStarted(c)'
    <3>1. new.own = <<>> BY <2>1, <2>4 DEF Course, OwnsStarted, Settled
    <3>2. new.pc = "spawn" => Behind(c)' = 0 BY <1>1, ServiceNames DEF Behind
    <3>3. Len(<<>>) = 0 OBVIOUS
    <3> QED BY <1>1, <3>1, <3>2, <3>3 DEF OwnsStarted
  <2> QED BY <1>1, <2>2, <2>3, <2>4 DEF Course
<1> QED BY <1>2, <1>3, <1>4, <1>5, CommandKeeps DEF Settled

LEMMA PrepareStep ==
  ASSUME ManagerInv, NEW c \in Commands, Prepare(c) \/ PrepareDead(c), UNCHANGED begun
  PROVE  ManagerInv'
<1> DEFINE new == Prepared(cmd[c])
<1>1. /\ cmd[c].pc = "prepare" /\ cmd[c] \in Command /\ TodoFits(cmd[c])
      /\ file \in [Names -> Pids \cup {None, Half}]
  BY Typed DEF ManagerInv, Prepare, PrepareDead
<1>2. /\ new \in Command /\ TodoFits(new) /\ Settled(cmd[c], new)
      /\ new.pc \in {"prepare", "port"} \/ (new.pc = "spawn" /\ new.todo = Services)
  BY <1>1, PreparedFits
<1> HIDE DEF new
<1>3. CASE Prepare(c)
  <2>1. PICK ps :
          /\ Kill(ps) /\ \A p \in ps : p \in Pids /\ IsSundarr(p)
          /\ \/ Aborted(c) /\ (UNCHANGED file \/ file' = [file EXCEPT ![Service(c)] = None])
             \/ /\ Become(c, new) /\ ps = {file[Service(c)]}
                /\ file' = IF new = Rest THEN file ELSE [file EXCEPT ![Service(c)] = None]
    BY <1>3, StopServiceFacts DEF Prepare, new
  <2>2. /\ ProcsTyped' /\ PortsServed'
        /\ \A p \in Pids : proc'[p] = IF p \in ps THEN NoProcess ELSE proc[p]
    BY <2>1, KillKeeps DEF ManagerInv
  <2>3. file' \in [Names -> Pids \cup {None, Half}] BY <1>1, <2>1
  <2>4. \A p \in Pids : proc'[p].what = "foreign" => proc[p].what = "foreign"
    BY <2>2, NoProcessFacts
  <2>5. CASE Aborted(c) BY <1>1, <2>2, <2>3, <2>4, <2>5, RestKeeps
  <2>6. CASE Become(c, new) BY <1>1, <1>2, <2>1, <2>3, <2>6, PrepareGoesOn
  <2> QED BY <2>1, <2>5, <2>6
<1>4. CASE PrepareDead(c)
  <2>1. Kill({}) BY <1>4, NoKillIsKill DEF PrepareDead, ManagerInv
  <2>2. Become(c, new) /\ file' \in [Names -> Pids \cup {None, Half}]
    BY <1>1, <1>4 DEF PrepareDead, new
  <2> QED BY <1>1, <1>2, <2>1, <2>2, PrepareGoesOn
<1> QED BY <1>3, <1>4

LEMMA PreparePortStep ==
  ASSUME ManagerInv, NEW c \in Commands, PreparePort(c), UNCHANGED begun
  PROVE  ManagerInv'
<1> DEFINE new == AfterPort(cmd[c])
<1>1. /\ cmd[c].pc = "port" /\ cmd[c] \in Command /\ TodoFits(cmd[c])
      /\ file \in [Names -> Pids \cup {None, Half}] /\ UNCHANGED file
  BY Typed DEF ManagerInv, PreparePort
<1>2. /\ new \in Command /\ TodoFits(new) /\ Settled(cmd[c], new)
      /\ new.pc \in {"prepare", "port"} \/ (new.pc = "spawn" /\ new.todo = Services)
  BY <1>1, AfterPortFits
<1> HIDE DEF new
<1>3. PICK ps : Kill(ps) /\ (Aborted(c) \/ Become(c, new))
  <2>1. NoKill => Kill({}) BY NoKillIsKill DEF ManagerInv
  <2> QED BY <2>1 DEF PreparePort, new
<1>4. /\ ProcsTyped' /\ PortsServed'
      /\ \A p \in Pids : proc'[p] = IF p \in ps THEN NoProcess ELSE proc[p]
  BY <1>3, KillKeeps DEF ManagerInv
<1>5. \A p \in Pids : proc'[p].what = "foreign" => proc[p].what = "foreign"
  BY <1>4, NoProcessFacts
<1>6. CASE Aborted(c) BY <1>1, <1>4, <1>5, <1>6, RestKeeps
<1>7. CASE Become(c, new) BY <1>1, <1>2, <1>3, <1>7, PrepareGoesOn
<1> QED BY <1>3, <1>6, <1>7

LEMMA SpawnStep ==
  ASSUME ManagerInv, NEW c \in Commands, Spawn(c), UNCHANGED begun
  PROVE  ManagerInv'
<1>1. /\ cmd[c].pc = "spawn" /\ cmd[c] \in Command /\ TodoFits(cmd[c]) /\ cmd[c].todo \in Forward
      /\ file \in [Names -> Pids \cup {None, Half}] /\ ProcsTyped /\ UNCHANGED port
  BY Typed DEF ManagerInv, Spawn, TodoFits
<1>2. PICK p \in Unused :
        /\ proc' = [proc EXCEPT ![p] = [what |-> Service(c), stage |->
                      IF cmd[c].kind = "run" \/ Service(c) = "web" THEN "ready" ELSE "boot"]]
        /\ LET q == [cmd[c] EXCEPT !.own = Append(@, p)]
           IN Become(c, IF q.kind = "run" THEN Advance(q) ELSE [q EXCEPT !.pc = "wait"])
  BY DEF Spawn
<1> DEFINE own == Append(cmd[c].own, p)
           q == [cmd[c] EXCEPT !.own = own]
           next == [q EXCEPT !.pc = "wait"]
           new == IF q.kind = "run" THEN Advance(q) ELSE next
<1>3. p \in Pids /\ proc[p].what = "none" /\ proc[p].stage = "none"
  BY <1>1 DEF Unused, Runs, ProcsTyped
<1>4. /\ Service(c) \in Names /\ \A i \in 1..Behind(c) : Services[i] # Service(c) /\ Services[i] \in Names
      /\ Behind(c) \in 0..2
  BY <1>1, TodoFacts, ForwardFacts DEF Service, Behind
<1>5. /\ proc'[p].what = Service(c)
      /\ \A r \in Pids \ {p} : proc'[r] = proc[r]
  BY <1>1, <1>2, <1>3 DEF ProcsTyped
<1>6. ProcsTyped'
  <2>1. proc' \in [Pids -> Process] BY <1>1, <1>2, <1>4 DEF ProcsTyped, Process
  <2>2. \A r \in Pids : proc'[r].what \in {"none", "foreign"} => proc'[r].stage = "none"
    BY <1>1, <1>4, <1>5, NoProcessFacts DEF ProcsTyped
  <2> QED BY <1>1, <2>1, <2>2 DEF ProcsTyped
<1>7. PortsServed'
  <2>1. ASSUME NEW s \in Ported, port[s] # None
        PROVE  proc'[port[s]].what = "foreign" \/ proc'[port[s]].stage = "serving"
    <3>1. proc[port[s]].what = "foreign" \/ proc[port[s]].stage = "serving"
      BY <2>1 DEF ManagerInv, PortsServed
    <3>2. port[s] \in Pids \ {p} BY <1>1, <1>3, <2>1, <3>1 DEF ProcsTyped
    <3> QED BY <1>5, <3>1, <3>2
  <2> QED BY <1>1, <2>1 DEF PortsServed
<1>8. \A r \in Pids : proc'[r].what = "foreign" => proc[r].what = "foreign"
  BY <1>4, <1>5, NoProcessFacts
<1>9. /\ own \in Seq(Pids) /\ Len(own) = Len(cmd[c].own) + 1 /\ own[Len(own)] = p
      /\ \A i \in 1..Len(cmd[c].own) : own[i] = cmd[c].own[i]
  BY <1>1, <1>3 DEF Command
<1>10. \A i \in DOMAIN own : proc'[own[i]].what # "foreign"
  <2>1. ASSUME NEW i \in DOMAIN own PROVE proc'[own[i]].what # "foreign"
    <3>1. CASE i = Len(own) BY <1>4, <1>5, <1>9, <3>1, NoProcessFacts
    <3>2. CASE i # Len(own)
      <4>1. cmd[c].own \in Seq(Pids) BY <1>1 DEF Command
      <4>2. i \in DOMAIN cmd[c].own /\ own[i] = cmd[c].own[i] BY <1>9, <3>2, <4>1
      <4>3. own[i] \in Pids /\ proc[own[i]].what # "foreign" BY <4>2, OwnFacts
      <4> QED BY <1>8, <4>3
    <3> QED BY <3>1, <3>2
  <2> QED BY <2>1
<1> HIDE DEF own
<1>11. q \in Command /\ TodoFits(q) /\ q.pc = "spawn" /\ q.own = own
       /\ q.todo = cmd[c].todo /\ q.kind = cmd[c].kind /\ q.clean = cmd[c].clean
  BY <1>1, <1>9 DEF Command, TodoFits
<1>12. Become(c, new) /\ cmd'[c] = new BY <1>2 DEF own, Become, ManagerInv, TypeOK
<1>13. file' \in [Names -> Pids \cup {None, Half}] BY <1>1 DEF Spawn
<1>14. CASE q.kind = "run"
  <2>1. new = Advance(q) BY <1>14
  <2>2. Advance(q) \in Command /\ TodoFits(Advance(q)) /\ Settled(q, Advance(q))
    BY <1>11, AdvanceFits
  <2>3. Course(c)' BY <1>12, <1>14, <2>1, <2>2 DEF Course, Settled
  <2> QED BY <1>1, <1>6, <1>7, <1>8, <1>10, <1>11, <1>12, <1>13, <2>1, <2>2, <2>3, CommandKeeps
          DEF Settled
<1>15. CASE q.kind # "run"
  <2>1. new = next BY <1>15
  <2>2. /\ next \in Command /\ next.pc = "wait" /\ next.own = own /\ next.todo = cmd[c].todo
        /\ next.kind = cmd[c].kind /\ next.clean = cmd[c].clean
    BY <1>11 DEF Command
  <2> HIDE DEF next
  <2>3. own # <<>> BY <1>9, <1>1 DEF Command
  <2>4. TodoFits(next) BY <1>1, <1>11, <1>15, <2>2, <2>3 DEF TodoFits
  <2>5. ASSUME next.clean PROVE Course(c)'
    <3>1. Course(c) BY <1>1, <2>2, <2>5 DEF ManagerInv, CleanInv, Undisturbed
    <3>2. next.kind # "stop" BY <1>1, <2>2, <3>1 DEF Course
    <3>3. CleanCalm(c)'
      <4>1. \A r \in Pids : proc[r].stage \in {"none", "serving"}
        BY <1>1, <1>11, <1>15, <3>1 DEF Course, CleanCalm
      <4>2. Child(c)' = p /\ Service(c)' = Service(c)
        BY <1>9, <1>12, <2>1, <2>2 DEF Child, Service, Last
      <4> QED BY <1>5, <1>12, <2>1, <2>2, <4>1, <4>2 DEF CleanCalm
    <3>4. ASSUME next.kind \in {"start", "restart"} PROVE OwnsStarted(c)'
      <4>1. /\ Len(cmd[c].own) = Behind(c)
            /\ \A i \in 1..Behind(c) : file[Services[i]] = cmd[c].own[i]
        BY <1>1, <2>2, <3>1, <3>4 DEF Course, OwnsStarted
      <4>2. Behind(c)' = Behind(c) BY <1>12, <2>1, <2>2 DEF Behind
      <4>3. file' = [file EXCEPT ![Service(c)] = None] BY <1>11, <1>15 DEF Spawn
      <4>4. \A i \in 1..Behind(c) : file'[Services[i]] = own[i]
        BY <1>1, <1>4, <1>9, <4>1, <4>3
      <4> QED BY <1>9, <1>12, <2>1, <2>2, <4>1, <4>2, <4>4 DEF OwnsStarted
    <3> QED BY <1>12, <2>1, <2>2, <3>2, <3>3, <3>4 DEF Course
  <2> HIDE DEF q
  <2> QED BY <1>1, <1>6, <1>7, <1>8, <1>10, <1>12, <1>13, <2>1, <2>2, <2>4, <2>5, CommandKeeps
<1> QED BY <1>14, <1>15

LEMMA ChildFacts ==
  ASSUME ManagerInv, NEW c \in Commands, cmd[c].pc = "wait"
  PROVE  /\ Len(cmd[c].own) \in DOMAIN cmd[c].own /\ Child(c) = cmd[c].own[Len(cmd[c].own)]
         /\ Child(c) \in Pids /\ proc[Child(c)].what # "foreign"
<1>1. cmd[c].own \in Seq(Pids) /\ cmd[c].own # <<>> BY Typed DEF ManagerInv, Command, TodoFits
<1>2. Len(cmd[c].own) \in DOMAIN cmd[c].own BY <1>1
<1> QED BY <1>2, OwnFacts DEF Child, Last

\* Who listens on the port of a service is serving: what comes next begins in calm.
LEMMA WaitStep ==
  ASSUME ManagerInv, NEW c \in Commands, WaitPort(c) \/ WaitFile(c), UNCHANGED begun
  PROVE  ManagerInv'
<1> DEFINE new == Advance([cmd[c] EXCEPT !.pc = "spawn"])
<1>1. /\ cmd[c].pc = "wait" /\ cmd[c] \in Command /\ TodoFits(cmd[c]) /\ cmd[c].todo \in Forward
      /\ file \in [Names -> Pids \cup {None, Half}] /\ ProcsTyped /\ UNCHANGED <<proc, port>>
      /\ Become(c, new) /\ cmd'[c] = new
  BY Typed DEF ManagerInv, WaitPort, WaitFile, TodoFits, NoKill, Started, Become, TypeOK
<1>2. /\ new \in Command /\ TodoFits(new) /\ Settled(cmd[c], new)
      /\ \/ Len(cmd[c].todo) > 1 /\ new.pc = "spawn" /\ new.todo = Tail(cmd[c].todo)
         \/ Len(cmd[c].todo) = 1 /\ new.pc = "done"
  BY <1>1, StartedFits
<1> HIDE DEF new
<1>3. ProcsTyped' /\ PortsServed' BY <1>1, NoKillKeeps DEF NoKill, ManagerInv
<1>4. \A i \in DOMAIN new.own : proc'[new.own[i]].what # "foreign"
  BY <1>1, <1>2, OwnFacts DEF Settled
<1>5. file' \in [Names -> Pids \cup {None, Half}]
  BY <1>1, ChildFacts DEF WaitPort, WaitFile, Listeners
<1>6. ASSUME new.clean, new.pc # "done" PROVE Course(c)'
  <2>1. Course(c) BY <1>1, <1>2, <1>6 DEF ManagerInv, CleanInv, Undisturbed, Settled
  <2>2. Len(cmd[c].todo) > 1 /\ new.pc = "spawn" /\ new.todo = Tail(cmd[c].todo) BY <1>2, <1>6
  <2>3. WaitPort(c)
    <3>1. ASSUME cmd[c].todo = <<"worker">> PROVE FALSE
      <4>1. Len(cmd[c].todo) = 1 BY <3>1
      <4> QED BY <2>2, <4>1
    <3>2. Service(c) \in Ported BY <1>1, <3>1, ForwardFacts DEF Service
    <3> QED BY <3>2 DEF WaitFile
  <2>4. /\ port[Service(c)] = Child(c) /\ Service(c) \in Ported
        /\ file' = [file EXCEPT ![Service(c)] = Child(c)]
    BY <2>3 DEF WaitPort, Listeners
  <2>5. new.kind \notin {"stop", "run"} BY <1>1, <1>2, <2>1 DEF Course, Settled, TodoFits
  <2>6. CleanCalm(c)'
    <3>1. proc[Child(c)].stage = "serving"
      BY <1>1, <2>4, ChildFacts, ProcessAssumption DEF ManagerInv, PortsServed
    <3>2. \A r \in Pids : proc[r].stage \in {"none", "serving"}
      BY <1>2, <2>1, <2>5, <3>1 DEF Course, CleanCalm, Settled
    <3> QED BY <1>1, <3>2 DEF CleanCalm
  <2>7. ASSUME new.kind \in {"start", "restart"} PROVE OwnsStarted(c)'
    <3>1. /\ Len(cmd[c].own) = Behind(c) + 1
          /\ \A i \in 1..Behind(c) : file[Services[i]] = cmd[c].own[i]
      BY <1>1, <1>2, <2>1, <2>7 DEF Course, OwnsStarted, Settled
    <3>2. /\ Behind(c) \in 0..2 /\ Services[Behind(c) + 1] = Service(c) /\ Service(c) \in Names
          /\ \A i \in 1..Behind(c) : Services[i] # Service(c) /\ Services[i] \in Names
      BY <1>1, TodoFacts, ForwardFacts DEF Behind, Service
    <3>3. Behind(c)' = Behind(c) + 1
      <4>1. Len(Tail(cmd[c].todo)) = Len(cmd[c].todo) - 1 /\ Len(cmd[c].todo) \in 1..3
        BY <1>1, <2>2, TodoFacts
      <4> QED BY <1>1, <2>2, <4>1, ServiceNames DEF Behind
    <3>4. Child(c) = cmd[c].own[Behind(c) + 1] BY <1>1, <3>1, ChildFacts
    <3>5. \A i \in 1..(Behind(c) + 1) : file'[Services[i]] = cmd[c].own[i]
      <4>1. file'[Service(c)] = Child(c) BY <1>1, <2>4, <3>2
      <4>2. \A i \in 1..Behind(c) : file'[Services[i]] = file[Services[i]] BY <1>1, <2>4, <3>2
      <4> QED BY <3>1, <3>2, <3>4, <4>1, <4>2
    <3>6. new.own = cmd[c].own BY <1>2 DEF Settled
    <3> QED BY <1>1, <2>2, <3>1, <3>3, <3>5, <3>6 DEF OwnsStarted
  <2> QED BY <1>1, <2>5, <2>6, <2>7 DEF Course
<1> QED BY <1>1, <1>2, <1>3, <1>4, <1>5, <1>6, CommandKeeps DEF Settled

\* The steps that end a command before it is through.
LEMMA EndStep ==
  ASSUME ManagerInv, NEW c \in Commands,
         \/ SpawnFails(c) \/ WaitExited(c) \/ WaitTimeout(c) \/ RunEnds(c) \/ Done(c)
         \/ CommandDies(c),
         UNCHANGED begun
  PROVE  ManagerInv'
<1>1. /\ cmd[c].pc # "idle" /\ Aborted(c) /\ file \in [Names -> Pids \cup {None, Half}]
      /\ cmd[c] \in Command /\ TodoFits(cmd[c])
  BY Typed DEF ManagerInv, SpawnFails, WaitExited, WaitTimeout, RunEnds, Done, CommandDies, TodoFits
<1>2. file' \in [Names -> Pids \cup {None, Half}]
  BY <1>1 DEF SpawnFails, WaitExited, WaitTimeout, RunEnds, Done, CommandDies
<1>3. PICK ps : Kill(ps)
  <2>1. NoKill => Kill({}) BY NoKillIsKill DEF ManagerInv
  <2> QED BY <2>1 DEF SpawnFails, WaitExited, WaitTimeout, RunEnds, Done, CommandDies
<1>4. /\ ProcsTyped' /\ PortsServed'
      /\ \A p \in Pids : proc'[p] = IF p \in ps THEN NoProcess ELSE proc[p]
  BY <1>3, KillKeeps DEF ManagerInv
<1>5. \A p \in Pids : proc'[p].what = "foreign" => proc[p].what = "foreign"
  BY <1>4, NoProcessFacts
<1> QED BY <1>1, <1>2, <1>4, <1>5, RestKeeps

LEMMA BeginStep ==
  ASSUME ManagerInv, NEW c \in Commands, NEW kind \in Kinds, Begin(c, kind)
  PROVE  ManagerInv'
<1> DEFINE back == kind \in {"stop", "restart"}
           named == IF kind = "stop" THEN {file[s] : s \in Names} \cap {p \in Pids : IsSundarr(p)} ELSE {}
           new == [Rest EXCEPT !.kind = kind, !.clean = Calm(c), !.named = named,
                     !.pc = IF back THEN "stop" ELSE "prepare",
                     !.todo = IF back THEN Reverse(Services) ELSE Services]
           Marked(d) == [cmd[d] EXCEPT !.clean = FALSE]
<1>1. /\ UNCHANGED <<proc, port, file>> /\ cmd[c] = Rest /\ begun' = begun + 1
      /\ cmd' = [d \in Commands |-> IF d # c THEN Marked(d) ELSE new]
  BY DEF Begin
<1>2. /\ ProcsTyped /\ file \in [Names -> Pids \cup {None, Half}] /\ begun \in Nat
      /\ \A d \in Commands : cmd[d] \in Command /\ TodoFits(cmd[d])
  BY Typed DEF ManagerInv, TypeOK
<1>3. kind \in {"start", "stop", "restart", "run"} BY ProcessAssumption
<1>4. Services \in Forward /\ Reverse(Services) \in Backward /\ Len(Services) = 3
  BY ServiceNames DEF Forward, Backward
<1>5. new \in Command
  <2>1. Calm(c) \in BOOLEAN BY DEF Calm
  <2>2. <<>> \in Seq(Pids) /\ named \subseteq Pids OBVIOUS
  <2> HIDE DEF named
  <2> QED BY <1>3, <1>4, <2>1, <2>2 DEF Rest, Command
<1>6. /\ new.kind = kind /\ new.clean = Calm(c) /\ new.named = named /\ new.own = <<>>
      /\ new.pc = (IF back THEN "stop" ELSE "prepare")
      /\ new.todo = (IF back THEN Reverse(Services) ELSE Services)
  BY DEF Rest
<1>7. TodoFits(new)
  <2> HIDE DEF new
  <2> QED BY <1>4, <1>6 DEF TodoFits
<1>8. \A d \in Commands : /\ Marked(d) \in Command /\ TodoFits(Marked(d)) /\ ~Marked(d).clean
                          /\ Marked(d).own = cmd[d].own
                          /\ cmd[d] = Rest => Marked(d) = Rest
  <2>1. SUFFICES ASSUME NEW d \in Commands
                 PROVE  /\ Marked(d) \in Command /\ TodoFits(Marked(d)) /\ ~Marked(d).clean
                        /\ Marked(d).own = cmd[d].own
                        /\ cmd[d] = Rest => Marked(d) = Rest
    OBVIOUS
  <2>2. cmd[d] = Rest => Marked(d) = Rest
    <3>1. \A q \in Command : q.clean = FALSE => [q EXCEPT !.clean = FALSE] = q BY DEF Command
    <3>2. Rest \in Command /\ Rest.clean = FALSE BY RestFits DEF Rest
    <3> QED BY <3>1, <3>2
  <2>3. cmd[d] \in Command /\ TodoFits(cmd[d]) BY <1>2
  <2>4. /\ Marked(d) \in Command /\ ~Marked(d).clean /\ Marked(d).own = cmd[d].own
        /\ Marked(d).pc = cmd[d].pc /\ Marked(d).todo = cmd[d].todo /\ Marked(d).kind = cmd[d].kind
    BY <2>3 DEF Command
  <2> HIDE DEF Marked
  <2>5. TodoFits(Marked(d)) BY <2>2, <2>3, <2>4 DEF TodoFits
  <2> QED BY <2>2, <2>4, <2>5
<1> HIDE DEF new, Marked
<1>9. cmd'[c] = new /\ \A d \in Commands \ {c} : cmd'[d] = Marked(d) BY <1>1
<1>10. TypeOK'
  <2>1. cmd' \in [Commands -> Command] BY <1>1, <1>5, <1>8
  <2>2. \A d \in Commands : TodoFits(cmd'[d]) BY <1>7, <1>8, <1>9
  <2>3. begun' \in Nat BY <1>1, <1>2
  <2> QED BY <1>1, <1>2, <2>1, <2>2, <2>3 DEF TypeOK, ProcsTyped, Process
<1>11. OwnKept'
  <2>1. DOMAIN <<>> = {} BY SMT
  <2> QED BY <1>1, <1>6, <1>8, <1>9, <2>1 DEF ManagerInv, OwnKept
<1>12. PortsServed' BY <1>1 DEF ManagerInv, PortsServed
<1>13. CleanAlone' BY <1>6, <1>8, <1>9 DEF CleanAlone, Calm
<1>14. ASSUME new.clean PROVE Course(c)'
  <2>1. CleanCalm(c)' BY <1>1, <1>6, <1>14 DEF CleanCalm, Calm
  <2>2. ASSUME kind = "stop" PROVE new.pc = "stop" /\ StopCovers(c)'
    <3>1. ASSUME NEW p \in new.named PROVE \E s \in ToSet(new.todo) : file'[s] = p
      <4>1. PICK s \in Names : file[s] = p BY <1>6, <2>2, <3>1
      <4>2. ToSet(Reverse(Services)) = Names BY ServiceNames DEF ToSet
      <4> QED BY <1>1, <1>6, <2>2, <4>1, <4>2
    <3> QED BY <1>6, <1>9, <2>2, <3>1 DEF StopCovers
  <2>3. OwnsStarted(c)' BY <1>6, <1>9 DEF OwnsStarted
  <2> QED BY <1>6, <1>9, <2>1, <2>2, <2>3 DEF Course
<1>15. CleanInv' BY <1>8, <1>9, <1>14 DEF CleanInv, Undisturbed
<1> QED BY <1>10, <1>11, <1>12, <1>13, <1>15 DEF ManagerInv

-----------------------------------------------------------------------------
(* The steps of the processes                                                *)

LEMMA ProcessKeeps ==
  ASSUME ManagerInv, UNCHANGED <<cmd, begun>>, ProcsTyped', PortsServed',
         file' \in [Names -> Pids \cup {None, Half}],
         \A p \in Pids : proc'[p].what = "foreign" => proc[p].what = "foreign" \/ p \in Unused,
         \A c \in Commands : Undisturbed(c) => Course(c)'
  PROVE  ManagerInv'
<1>1. TypeOK' BY DEF ManagerInv, TypeOK, ProcsTyped, Process
<1>2. OwnKept'
  <2>1. ASSUME NEW c \in Commands, NEW i \in DOMAIN cmd[c].own
        PROVE  proc'[cmd[c].own[i]].what # "foreign"
    <3>1. cmd[c].own[i] \in Pids /\ proc[cmd[c].own[i]].what # "foreign" BY OwnFacts
    <3>2. cmd[c].own[i] \notin Unused BY DEF Unused, ToSet
    <3> QED BY <3>1, <3>2
  <2> QED BY <2>1 DEF OwnKept
<1>3. CleanAlone' BY DEF ManagerInv, CleanAlone
<1>4. CleanInv' BY DEF CleanInv, Undisturbed
<1> QED BY <1>1, <1>2, <1>3, <1>4 DEF ManagerInv

\* A process that ends, or is not of Sundarr, disturbs no command.
LEMMA CourseKept ==
  ASSUME ManagerInv, NEW c \in Commands, Undisturbed(c), UNCHANGED <<cmd, file>>,
         \A p \in Pids : proc'[p] = proc[p] \/ (proc'[p].stage = "none" /\ proc'[p].what \notin Names)
  PROVE  Course(c)'
<1>1. Course(c) BY DEF ManagerInv, CleanInv
<1>2. cmd[c] \in Command BY Typed DEF ManagerInv
<1>3. CleanCalm(c) => CleanCalm(c)' BY DEF CleanCalm, Child, Service
<1>4. StopCovers(c) => StopCovers(c)' BY <1>2 DEF StopCovers, IsSundarr, Command
<1>5. OwnsStarted(c) => OwnsStarted(c)' BY DEF OwnsStarted, Behind
<1> QED BY <1>1, <1>3, <1>4, <1>5 DEF Course

\* A service that comes up beside a clean command is the one it waits for.
LEMMA CourseOfStart ==
  ASSUME ManagerInv, NEW c \in Commands, Undisturbed(c), UNCHANGED cmd, NEW p \in Pids,
         proc[p].stage \in {"boot", "writing", "ready"}, proc'[p].what = proc[p].what,
         \A r \in Pids \ {p} : proc'[r] = proc[r],
         UNCHANGED file \/ \E pid : file' = [file EXCEPT ![proc[p].what] = pid]
  PROVE  Course(c)'
<1>1. Course(c) BY DEF ManagerInv, CleanInv
<1>2. cmd[c] \in Command /\ TodoFits(cmd[c]) /\ file \in [Names -> Pids \cup {None, Half}]
  BY Typed DEF ManagerInv
<1>3. CASE cmd[c].kind = "run" BY <1>3 DEF Course
<1>4. CASE cmd[c].kind # "run"
  <2>1. cmd[c].pc = "wait" /\ p = Child(c) /\ proc[p].what = Service(c)
    BY <1>1, <1>4 DEF Course, CleanCalm
  <2>2. CleanCalm(c)'
    BY <1>1, <1>4, <2>1 DEF Course, CleanCalm, Child, Service
  <2>3. cmd[c].kind # "stop" BY <1>1, <2>1 DEF Course
  <2>4. OwnsStarted(c) => OwnsStarted(c)'
    <3>1. /\ Behind(c) \in 0..2
          /\ \A i \in 1..Behind(c) : Services[i] # Service(c) /\ Services[i] \in Names
      BY <1>2, <2>1, ForwardFacts DEF Behind, Service, TodoFits
    <3>2. \A i \in 1..Behind(c) : file'[Services[i]] = file[Services[i]] BY <1>2, <2>1, <3>1
    <3> QED BY <2>1, <3>2 DEF OwnsStarted, Behind
  <2> QED BY <1>1, <2>2, <2>3, <2>4 DEF Course
<1> QED BY <1>3, <1>4

LEMMA FileStep ==
  ASSUME ManagerInv, NEW p \in Pids, OpenFile(p) \/ WriteFile(p), UNCHANGED begun
  PROVE  ManagerInv'
<1>1. /\ proc[p].stage \in {"boot", "writing"} /\ proc[p].what \in Names
      /\ UNCHANGED <<port, cmd>> /\ ProcsTyped /\ file \in [Names -> Pids \cup {None, Half}]
  BY Typed DEF ManagerInv, OpenFile, WriteFile, At, IsSundarr
<1>2. PICK stage \in {"writing", "ready"} : proc' = [proc EXCEPT ![p].stage = stage]
  BY DEF OpenFile, WriteFile, Goto
<1>3. PICK pid \in Pids \cup {Half} : file' = [file EXCEPT ![proc[p].what] = pid]
  BY DEF OpenFile, WriteFile
<1>4. /\ proc'[p] = [proc[p] EXCEPT !.stage = stage] /\ proc[p] \in Process
      /\ \A r \in Pids \ {p} : proc'[r] = proc[r]
  BY <1>1, <1>2 DEF ProcsTyped
<1>5. proc'[p] \in Process /\ proc'[p].what = proc[p].what BY <1>4 DEF Process
<1>6. ProcsTyped'
  <2>1. proc' \in [Pids -> Process] BY <1>1, <1>2, <1>4, <1>5 DEF ProcsTyped
  <2>2. \A r \in Pids : proc'[r].what \in {"none", "foreign"} => proc'[r].stage = "none"
    BY <1>1, <1>4, <1>5, NoProcessFacts DEF ProcsTyped
  <2> QED BY <1>1, <2>1, <2>2 DEF ProcsTyped
<1>7. PortsServed'
  <2>1. ASSUME NEW s \in Ported, port[s] # None
        PROVE  proc'[port[s]].what = "foreign" \/ proc'[port[s]].stage = "serving"
    <3>1. proc[port[s]].what = "foreign" \/ proc[port[s]].stage = "serving"
      BY <2>1 DEF ManagerInv, PortsServed
    <3>2. port[s] \in Pids \ {p} BY <1>1, <2>1, <3>1, NoProcessFacts DEF ProcsTyped
    <3> QED BY <1>4, <3>1, <3>2
  <2> QED BY <1>1, <2>1 DEF PortsServed
<1>8. \A c \in Commands : Undisturbed(c) => Course(c)'
  BY <1>1, <1>3, <1>4, <1>5, CourseOfStart
<1>9. file' \in [Names -> Pids \cup {None, Half}] BY <1>1, <1>3
<1>10. \A r \in Pids : proc'[r].what = "foreign" => proc[r].what = "foreign" BY <1>4, <1>5
<1> QED BY <1>1, <1>6, <1>7, <1>8, <1>9, <1>10, ProcessKeeps

\* A process that is killed, has crashed or has ended.
LEMMA KillStep ==
  ASSUME ManagerInv, NEW ps, Kill(ps), UNCHANGED <<file, cmd, begun>>
  PROVE  ManagerInv'
<1>1. /\ ProcsTyped' /\ PortsServed'
      /\ \A p \in Pids : proc'[p] = IF p \in ps THEN NoProcess ELSE proc[p]
  BY KillKeeps DEF ManagerInv
<1>2. \A c \in Commands : Undisturbed(c) => Course(c)' BY <1>1, NoProcessFacts, CourseKept
<1>3. file' \in [Names -> Pids \cup {None, Half}] BY Typed DEF ManagerInv
<1>4. \A p \in Pids : proc'[p].what = "foreign" => proc[p].what = "foreign" BY <1>1, NoProcessFacts
<1> QED BY <1>1, <1>2, <1>3, <1>4, ProcessKeeps

LEMMA ServeStep ==
  ASSUME ManagerInv, NEW p \in Pids, Serve(p), UNCHANGED begun
  PROVE  ManagerInv'
<1>1. /\ proc[p].stage = "ready" /\ proc[p].what \in Names /\ UNCHANGED <<file, cmd>>
      /\ ProcsTyped /\ file \in [Names -> Pids \cup {None, Half}]
  BY Typed DEF ManagerInv, Serve, At, IsSundarr
<1>2. CASE Kill({p}) BY <1>1, <1>2, KillStep
<1>3. CASE Goto(p, "serving") /\ (UNCHANGED port \/ port' = [port EXCEPT ![proc[p].what] = p])
  <2>1. /\ proc'[p] = [proc[p] EXCEPT !.stage = "serving"] /\ proc[p] \in Process
        /\ \A r \in Pids \ {p} : proc'[r] = proc[r]
    BY <1>1, <1>3 DEF ProcsTyped, Goto
  <2>2. proc'[p] \in Process /\ proc'[p].what = proc[p].what /\ proc'[p].stage = "serving"
    BY <2>1 DEF Process
  <2>3. ProcsTyped'
    <3>1. proc' \in [Pids -> Process] BY <1>1, <1>3, <2>1, <2>2 DEF ProcsTyped, Goto
    <3>2. \A r \in Pids : proc'[r].what \in {"none", "foreign"} => proc'[r].stage = "none"
      BY <1>1, <2>1, <2>2, NoProcessFacts DEF ProcsTyped
    <3>3. port' \in [Ported -> Pids \cup {None}] BY <1>1, <1>3 DEF ProcsTyped
    <3> QED BY <3>1, <3>2, <3>3 DEF ProcsTyped
  <2>4. PortsServed'
    <3>1. ASSUME NEW s \in Ported, port'[s] # None
          PROVE  proc'[port'[s]].what = "foreign" \/ proc'[port'[s]].stage = "serving"
      <4>1. CASE port'[s] = p BY <2>2, <4>1
      <4>2. CASE port'[s] # p
        <5>1. port'[s] = port[s] /\ port[s] \in Pids \ {p} BY <1>1, <1>3, <3>1, <4>2 DEF ProcsTyped
        <5> QED BY <2>1, <3>1, <5>1 DEF ManagerInv, PortsServed
      <4> QED BY <4>1, <4>2
    <3> QED BY <3>1 DEF PortsServed
  <2>5. \A c \in Commands : Undisturbed(c) => Course(c)' BY <1>1, <2>1, <2>2, CourseOfStart
  <2>6. \A r \in Pids : proc'[r].what = "foreign" => proc[r].what = "foreign" BY <2>1, <2>2
  <2> QED BY <1>1, <2>3, <2>4, <2>5, <2>6, ProcessKeeps
<1> QED BY <1>2, <1>3 DEF Serve

LEMMA ForeignStep ==
  ASSUME ManagerInv, NEW p \in Pids, ForeignStarts(p), UNCHANGED begun
  PROVE  ManagerInv'
<1> DEFINE new == [NoProcess EXCEPT !.what = "foreign"]
<1>1. /\ p \in Unused /\ proc[p].what = "none" /\ UNCHANGED <<file, cmd>> /\ ProcsTyped
      /\ file \in [Names -> Pids \cup {None, Half}]
  BY Typed DEF ManagerInv, ForeignStarts, Unused, Runs
<1>2. PICK s \in Ported \cup {None} : port' = IF s = None THEN port ELSE [port EXCEPT ![s] = p]
  BY DEF ForeignStarts
<1>3. new \in Process /\ new.what = "foreign" /\ new.stage = "none" BY DEF NoProcess, Process
<1>4. proc' = [proc EXCEPT ![p] = new] BY DEF ForeignStarts
<1> HIDE DEF new
<1>5. proc'[p] = new /\ \A r \in Pids \ {p} : proc'[r] = proc[r] BY <1>1, <1>4 DEF ProcsTyped
<1>6. ProcsTyped'
  <2>1. proc' \in [Pids -> Process] BY <1>1, <1>3, <1>4 DEF ProcsTyped
  <2>2. \A r \in Pids : proc'[r].what \in {"none", "foreign"} => proc'[r].stage = "none"
    BY <1>1, <1>3, <1>5 DEF ProcsTyped
  <2>3. port' \in [Ported -> Pids \cup {None}] BY <1>1, <1>2 DEF ProcsTyped
  <2> QED BY <2>1, <2>2, <2>3 DEF ProcsTyped
<1>7. PortsServed'
  <2>1. ASSUME NEW t \in Ported, port'[t] # None
        PROVE  proc'[port'[t]].what = "foreign" \/ proc'[port'[t]].stage = "serving"
    <3>1. CASE port'[t] = p BY <1>3, <1>5, <3>1
    <3>2. CASE port'[t] # p
      <4>1. port'[t] = port[t] /\ port[t] \in Pids \ {p} BY <1>1, <1>2, <2>1, <3>2 DEF ProcsTyped
      <4> QED BY <1>5, <2>1, <4>1 DEF ManagerInv, PortsServed
    <3> QED BY <3>1, <3>2
  <2> QED BY <2>1 DEF PortsServed
<1>8. \A c \in Commands : Undisturbed(c) => Course(c)'
  BY <1>1, <1>3, <1>5, NoProcessFacts, CourseKept
<1>9. \A r \in Pids : proc'[r].what = "foreign" => proc[r].what = "foreign" \/ r \in Unused
  BY <1>1, <1>5
<1> QED BY <1>1, <1>6, <1>7, <1>8, <1>9, ProcessKeeps

-----------------------------------------------------------------------------
(* The invariant                                                             *)

LEMMA ManagerInit ==
  ASSUME Init
  PROVE  ManagerInv
<1>1. Rest \in Command /\ TodoFits(Rest) BY RestFits
<1>2. TypeOK
  <2>1. proc \in [Pids -> Process] /\ \A p \in Pids : proc[p].stage = "none"
    BY NoProcessFacts DEF Init
  <2> QED BY <1>1, <2>1 DEF Init, TypeOK, Process
<1>3. DOMAIN <<>> = {} BY SMT
<1>4. OwnKept BY <1>3 DEF Init, OwnKept, Rest
<1>5. PortsServed BY DEF Init, PortsServed
<1>6. \A c \in Commands : ~cmd[c].clean BY DEF Init, Rest
<1> QED BY <1>2, <1>4, <1>5, <1>6 DEF ManagerInv, CleanAlone, CleanInv, Undisturbed

LEMMA ManagerNext ==
  ASSUME ManagerInv, [Next]_vars
  PROVE  ManagerInv'
<1>1. CASE UNCHANGED vars
  <2>1. UNCHANGED <<proc, port, file, cmd, begun>> BY <1>1 DEF vars
  <2>2. TypeOK' /\ OwnKept' /\ PortsServed' /\ CleanAlone'
    BY <2>1 DEF ManagerInv, TypeOK, OwnKept, PortsServed, CleanAlone
  <2>3. CleanInv'
    BY <2>1 DEF ManagerInv, CleanInv, Undisturbed, Course, CleanCalm, StopCovers, OwnsStarted,
                Behind, Child, Service, IsSundarr
  <2> QED BY <2>2, <2>3 DEF ManagerInv
<1>2. ASSUME NEW c \in Commands, Done(c), UNCHANGED begun PROVE ManagerInv' BY <1>2, EndStep
<1>3. ASSUME NEW c \in Commands, NEW kind \in Kinds, Begin(c, kind) PROVE ManagerInv'
  BY <1>3, BeginStep
<1>4. ASSUME NEW c \in Commands, CommandStep(c), UNCHANGED begun PROVE ManagerInv'
  <2>1. CASE ReadHalf(c) BY <1>4, <2>1, ReadHalfStep
  <2>2. CASE Stop(c) \/ StopDead(c) BY <1>4, <2>2, StopStep
  <2>3. CASE Prepare(c) \/ PrepareDead(c) BY <1>4, <2>3, PrepareStep
  <2>4. CASE PreparePort(c) BY <1>4, <2>4, PreparePortStep
  <2>5. CASE Spawn(c) BY <1>4, <2>5, SpawnStep
  <2>6. CASE WaitPort(c) \/ WaitFile(c) BY <1>4, <2>6, WaitStep
  <2>7. CASE SpawnFails(c) \/ WaitExited(c) \/ WaitTimeout(c) \/ RunEnds(c) \/ CommandDies(c)
    BY <1>4, <2>7, EndStep
  <2> QED BY <1>4, <2>1, <2>2, <2>3, <2>4, <2>5, <2>6, <2>7 DEF CommandStep
<1>5. ASSUME NEW p \in Pids, ProcessStep(p), UNCHANGED begun PROVE ManagerInv'
  <2>1. CASE OpenFile(p) \/ WriteFile(p) BY <1>5, <2>1, FileStep
  <2>2. CASE Serve(p) BY <1>5, <2>2, ServeStep
  <2>3. CASE Crash(p) \/ ForeignEnds(p) BY <1>5, <2>3, KillStep DEF Crash, ForeignEnds
  <2>4. CASE ForeignStarts(p) BY <1>5, <2>4, ForeignStep
  <2> QED BY <1>5, <2>1, <2>2, <2>3, <2>4 DEF ProcessStep
<1> QED BY <1>1, <1>2, <1>3, <1>4, <1>5 DEF Next

LEMMA ManagerAlways ==
  Spec => []ManagerInv
<1>1. Init => ManagerInv BY ManagerInit
<1>2. ManagerInv /\ [Next]_vars => ManagerInv' BY ManagerNext
<1> QED BY <1>1, <1>2, PTL DEF Spec

\* Every variable keeps its type: a command that waits has started something,
\* and its services come in their order.
THEOREM TypeCorrect ==
  Spec => []TypeOK
<1>1. ManagerInv => TypeOK BY DEF ManagerInv
<1> QED BY <1>1, ManagerAlways, PTL

-----------------------------------------------------------------------------
(* What commands end                                                         *)

LEMMA CommandKills ==
  ASSUME ManagerInv, NEW c \in Commands, CommandStep(c) \/ Done(c),
         NEW p \in Pids, proc[p].what = "foreign"
  PROVE  proc'[p].what = "foreign"
<1>1. ASSUME NEW ps, Kill(ps), \A r \in ps : proc[r].what # "foreign" PROVE proc'[p].what = "foreign"
  BY <1>1 DEF Kill, Killed
<1>2. \A r : IsSundarr(r) => proc[r].what # "foreign" BY NoProcessFacts DEF IsSundarr
<1>3. CASE NoKill BY <1>3 DEF NoKill
<1>4. CASE Stop(c) \/ Prepare(c)
  <2>1. PICK ps : Kill(ps) /\ \A r \in ps : r \in Pids /\ IsSundarr(r)
    BY <1>4, StopServiceFacts DEF Stop, Prepare
  <2> QED BY <1>1, <1>2, <2>1
<1>5. CASE PreparePort(c)
  <2>1. NoKill \/ \E r : Kill({r}) /\ MayKill(r) BY <1>5 DEF PreparePort
  <2>2. CASE \E r : Kill({r}) /\ MayKill(r) BY <1>1, <1>2, <2>2 DEF MayKill
  <2> QED BY <1>3, <2>1, <2>2
<1>6. CASE Spawn(c)
  <2>1. PICK r, new : r \in Unused /\ proc' = [proc EXCEPT ![r] = new] BY <1>6 DEF Spawn
  <2>2. r # p BY <2>1 DEF Unused, Runs
  <2> QED BY <2>1, <2>2, Typed DEF ManagerInv, ProcsTyped
<1>7. CASE WaitTimeout(c)
  <2>1. proc[Child(c)].what # "foreign" BY <1>7, ChildFacts DEF WaitTimeout
  <2>2. Kill({Child(c)}) \/ NoKill BY <1>7 DEF WaitTimeout
  <2> QED BY <1>1, <1>3, <2>1, <2>2
<1>8. CASE RunEnds(c)
  <2>1. PICK ps \in SUBSET ToSet(cmd[c].own) : Kill(ps) BY <1>8 DEF RunEnds
  <2>2. \A r \in ToSet(cmd[c].own) : proc[r].what # "foreign" BY OwnFacts DEF ToSet
  <2> QED BY <1>1, <2>1, <2>2
<1> QED BY <1>3, <1>4, <1>5, <1>6, <1>7, <1>8
        DEF CommandStep, ReadHalf, StopDead, PrepareDead, SpawnFails, WaitPort, WaitFile, WaitExited,
            CommandDies, Done

\* Whatever pids have been used again since the files were written, a command
\* ends only what is of Sundarr (_sundarr_process_tree_root): a foreign process
\* ends only by itself.
THEOREM NoForeignKilledCorrect ==
  Spec => NoForeignKilled
<1> DEFINE Kept == \A p \in Pids :
             proc[p].what = "foreign" /\ proc'[p].what # "foreign" => cmd' = cmd
<1>1. ManagerInv /\ [Next]_vars => Kept
  <2> SUFFICES ASSUME ManagerInv, [Next]_vars,
                      NEW p \in Pids, proc[p].what = "foreign", proc'[p].what # "foreign"
               PROVE  cmd' = cmd
    OBVIOUS
  <2>1. CASE UNCHANGED vars BY <2>1 DEF vars
  <2>2. ASSUME NEW c \in Commands, CommandStep(c) \/ Done(c) PROVE FALSE BY <2>2, CommandKills
  <2>3. ASSUME NEW c \in Commands, NEW kind \in Kinds, Begin(c, kind) PROVE FALSE BY <2>3 DEF Begin
  <2>4. ASSUME NEW r \in Pids, ProcessStep(r) PROVE cmd' = cmd
    BY <2>4 DEF ProcessStep, OpenFile, WriteFile, Serve, Crash, ForeignStarts, ForeignEnds
  <2> QED BY <2>1, <2>2, <2>3, <2>4 DEF Next
<1>2. ManagerInv /\ [Next]_vars => [Kept]_vars BY <1>1
<1> QED BY <1>2, ManagerAlways, PTL DEF Spec, NoForeignKilled

-----------------------------------------------------------------------------
(* What a command that succeeds has done                                     *)

LEMMA OthersUntouched ==
  ASSUME ManagerInv, NEW d \in Commands, CommandStep(d) \/ Done(d)
  PROVE  UNCHANGED cmd \/ \E new : Become(d, new)
<1>1. ASSUME NEW after, StopService(d, after) PROVE \E new : Become(d, new)
  BY <1>1, StopServiceFacts DEF Aborted
<1>2. CASE Stop(d) \/ Prepare(d) BY <1>1, <1>2 DEF Stop, Prepare
<1>3. CASE Spawn(d) BY <1>3 DEF Spawn
<1> QED BY <1>2, <1>3
        DEF CommandStep, ReadHalf, StopDead, PrepareDead, PreparePort, SpawnFails, WaitPort, WaitFile,
            WaitExited, WaitTimeout, RunEnds, CommandDies, Done, Aborted, Started

\* The last step of a command is the end of a stop or of a wait.
LEMMA DoneBy ==
  ASSUME ManagerInv, [Next]_vars, NEW c \in Commands, cmd[c].kind \in {"start", "stop", "restart"},
         cmd[c].pc # "done", cmd'[c].pc = "done"
  PROVE  Stop(c) \/ StopDead(c) \/ WaitPort(c) \/ WaitFile(c)
<1>1. cmd[c] \in Command /\ TodoFits(cmd[c]) /\ cmd \in [Commands -> Command]
  BY DEF ManagerInv, TypeOK
<1>2. \A new : Become(c, new) => cmd'[c] = new BY <1>1 DEF Become
<1>3. ~Aborted(c) BY <1>2 DEF Aborted, Rest
<1>4. CASE UNCHANGED vars BY <1>4 DEF vars
<1>5. ASSUME NEW d \in Commands, NEW kind \in Kinds, Begin(d, kind) PROVE FALSE
  <2>1. CASE d = c
    <3>1. cmd'[c].pc \in {"stop", "prepare"} BY <1>5, <2>1 DEF Begin, Rest
    <3> QED BY <3>1
  <2>2. CASE d # c
    <3>1. cmd'[c] = [cmd[c] EXCEPT !.clean = FALSE] BY <1>5, <2>2 DEF Begin
    <3> QED BY <1>1, <3>1 DEF Command
  <2> QED BY <2>1, <2>2
<1>6. ASSUME NEW p \in Pids, ProcessStep(p) PROVE FALSE
  BY <1>6 DEF ProcessStep, OpenFile, WriteFile, Serve, Crash, ForeignStarts, ForeignEnds
<1>7. ASSUME NEW d \in Commands \ {c}, CommandStep(d) \/ Done(d) PROVE FALSE
  BY <1>1, <1>7, OthersUntouched DEF Become
<1>8. ~Prepare(c) /\ ~PrepareDead(c)
  <2>1. ASSUME cmd[c].pc = "prepare" PROVE ~Become(c, Prepared(cmd[c]))
    BY <1>1, <1>2, <2>1, PreparedFits
  <2>2. ASSUME Prepare(c) PROVE FALSE
    <3>1. Aborted(c) \/ Become(c, Prepared(cmd[c])) BY <2>2, StopServiceFacts DEF Prepare
    <3> QED BY <1>3, <2>1, <2>2, <3>1 DEF Prepare
  <2> QED BY <2>1, <2>2 DEF PrepareDead
<1>9. ~PreparePort(c)
  <2>1. ASSUME cmd[c].pc = "port" PROVE ~Become(c, AfterPort(cmd[c]))
    BY <1>1, <1>2, <2>1, AfterPortFits
  <2> QED BY <1>3, <2>1 DEF PreparePort
<1>10. ~Spawn(c)
  <2> SUFFICES ASSUME Spawn(c) PROVE FALSE
    OBVIOUS
  <2>1. PICK own : Become(c, [[cmd[c] EXCEPT !.own = own] EXCEPT !.pc = "wait"])
    <3>1. PICK p \in Unused :
            LET q == [cmd[c] EXCEPT !.own = Append(@, p)]
            IN Become(c, IF q.kind = "run" THEN Advance(q) ELSE [q EXCEPT !.pc = "wait"])
      BY DEF Spawn
    <3>2. [cmd[c] EXCEPT !.own = Append(@, p)].kind # "run" BY <1>1 DEF Command
    <3> QED BY <3>1, <3>2
  <2>2. [[cmd[c] EXCEPT !.own = own] EXCEPT !.pc = "wait"].pc = "wait" BY <1>1 DEF Command
  <2> QED BY <1>2, <2>1, <2>2
<1>11. ~ReadHalf(c) BY <1>3 DEF ReadHalf
<1>12. ~Done(c) BY DEF Done
<1>13. ASSUME CommandStep(c) PROVE Stop(c) \/ StopDead(c) \/ WaitPort(c) \/ WaitFile(c)
  BY <1>3, <1>8, <1>9, <1>10, <1>11, <1>13
     DEF CommandStep, SpawnFails, WaitExited, WaitTimeout, RunEnds, CommandDies
<1> QED BY <1>4, <1>5, <1>6, <1>7, <1>12, <1>13 DEF Next

\* What a command has started, the one it has waited for included, is what the
\* pid files name.
LEMMA OwnsNext ==
  ASSUME ManagerInv, NEW c \in Commands, WaitPort(c) \/ WaitFile(c),
         cmd[c].clean, cmd[c].kind \in {"start", "restart"}
  PROVE  \A i \in 1..(Behind(c) + 1) : file'[Services[i]] = cmd[c].own[i]
<1>1. /\ cmd[c].pc = "wait" /\ cmd[c].todo \in Forward
      /\ file \in [Names -> Pids \cup {None, Half}]
  BY Typed DEF ManagerInv, WaitPort, WaitFile, TodoFits
<1>2. /\ Len(cmd[c].own) = Behind(c) + 1
      /\ \A i \in 1..Behind(c) : file[Services[i]] = cmd[c].own[i]
  BY <1>1 DEF ManagerInv, CleanInv, Undisturbed, Course, OwnsStarted
<1>3. /\ Behind(c) \in 0..2 /\ Services[Behind(c) + 1] = Service(c) /\ Service(c) \in Names
      /\ \A i \in 1..Behind(c) : Services[i] # Service(c) /\ Services[i] \in Names
  BY <1>1, TodoFacts, ForwardFacts DEF Behind, Service
<1>4. Child(c) = cmd[c].own[Behind(c) + 1] BY <1>1, <1>2, ChildFacts
<1>5. file' = [file EXCEPT ![Service(c)] = Child(c)]
      \/ (UNCHANGED file /\ file[Service(c)] = Child(c))
  BY DEF WaitPort, WaitFile, Listeners
<1>6. file'[Service(c)] = Child(c) BY <1>1, <1>3, <1>5
<1>7. \A i \in 1..Behind(c) : file'[Services[i]] = file[Services[i]] BY <1>1, <1>3, <1>5
<1> QED BY <1>2, <1>3, <1>4, <1>6, <1>7

\* A start that meets no other command, and succeeds, owns what all the pid
\* files name: leftover files, used pids and stolen ports make it fail instead.
THEOREM StartOwnsAllCorrect ==
  Spec => StartOwnsAll
<1> DEFINE Owns == \A c \in Commands : Succeeds(c, {"start", "restart"}) /\ cmd[c].clean =>
             \A i \in DOMAIN Services : file'[Services[i]] = cmd[c].own[i]
<1>1. ManagerInv /\ [Next]_vars => Owns
  <2> SUFFICES ASSUME ManagerInv, [Next]_vars, NEW c \in Commands,
                      Succeeds(c, {"start", "restart"}), cmd[c].clean
               PROVE  \A i \in DOMAIN Services : file'[Services[i]] = cmd[c].own[i]
    OBVIOUS
  <2>1. /\ cmd[c].kind \in {"start", "restart"} /\ cmd[c].pc # "done" /\ cmd'[c].pc = "done"
        /\ cmd[c] \in Command /\ TodoFits(cmd[c])
        /\ \A new : Become(c, new) => cmd'[c] = new
    BY Typed DEF Succeeds, ManagerInv, Become, TypeOK
  <2>2. Stop(c) \/ StopDead(c) \/ WaitPort(c) \/ WaitFile(c) BY <2>1, DoneBy
  <2>3. ASSUME Stop(c) \/ StopDead(c) PROVE FALSE
    <3>1. cmd[c].pc = "stop" BY <2>3 DEF Stop, StopDead
    <3>2. Aborted(c) \/ Become(c, Advance(cmd[c])) BY <2>3, StopServiceFacts DEF Stop, StopDead
    <3>3. Advance(cmd[c]).pc # "done" BY <2>1, <3>1, AdvanceFits
    <3> QED BY <2>1, <3>2, <3>3 DEF Aborted, Rest
  <2>4. WaitPort(c) \/ WaitFile(c) BY <2>2, <2>3
  <2>5. /\ cmd[c].pc = "wait" /\ Become(c, Advance([cmd[c] EXCEPT !.pc = "spawn"]))
    BY <2>4 DEF WaitPort, WaitFile, Started
  <2>6. Len(cmd[c].todo) = 1 BY <2>1, <2>5, StartedFits
  <2>7. Behind(c) + 1 = 3 /\ DOMAIN Services = 1..3 BY <2>6, ServiceNames DEF Behind
  <2> QED BY <2>1, <2>4, <2>7, OwnsNext
<1>2. ManagerInv /\ [Next]_vars => [Owns]_vars BY <1>1
<1> QED BY <1>2, ManagerAlways, PTL DEF Spec, StartOwnsAll

\* A stop that meets no other command, and succeeds, leaves nothing running of
\* what the pid files named when it began.
THEOREM StopStopsCorrect ==
  Spec => StopStops
<1> DEFINE Stops == \A c \in Commands : Succeeds(c, {"stop"}) /\ cmd[c].clean =>
             \A p \in cmd[c].named : proc'[p].what \notin Names
<1>1. ManagerInv /\ [Next]_vars => Stops
  <2> SUFFICES ASSUME ManagerInv, [Next]_vars, NEW c \in Commands, Succeeds(c, {"stop"}), cmd[c].clean,
                      NEW p \in cmd[c].named, proc'[p].what \in Names
               PROVE  FALSE
    OBVIOUS
  <2>1. /\ cmd[c].kind = "stop" /\ cmd[c].pc # "done" /\ cmd'[c].pc = "done"
        /\ cmd[c] \in Command /\ TodoFits(cmd[c]) /\ p \in Pids
        /\ \A new : Become(c, new) => cmd'[c] = new
    BY Typed DEF Succeeds, ManagerInv, Become, TypeOK, Command
  <2>2. cmd[c].pc = "stop" /\ StopCovers(c)
    BY <2>1 DEF ManagerInv, CleanInv, Undisturbed, Course
  <2>3. Stop(c) \/ StopDead(c) BY <2>1, <2>2, DoneBy DEF WaitPort, WaitFile
  <2>4. ~Aborted(c) BY <2>1 DEF Aborted, Rest
  <2>5. Become(c, Advance(cmd[c])) BY <2>3, <2>4, StopServiceFacts DEF Stop, StopDead
  <2>6. Len(cmd[c].todo) = 1 /\ cmd[c].todo \in Backward
    BY <2>1, <2>2, <2>5, AdvanceFits DEF TodoFits
  <2>7. \A s \in ToSet(cmd[c].todo) : s = Service(c)
    <3>1. ASSUME NEW s \in ToSet(cmd[c].todo), s # Service(c)
          PROVE  FALSE
      <4>1. Len(cmd[c].todo) > 1 BY <2>6, <3>1, BackwardRest DEF Service
      <4> QED BY <2>6, <4>1
    <3> QED BY <3>1
  <2>8. CASE Stop(c)
    <3>1. PICK ps : Kill(ps) /\ ps = {file[Service(c)]}
      BY <2>4, <2>8, StopServiceFacts DEF Stop
    <3>2. p # file[Service(c)] /\ proc'[p] = proc[p]
      BY <2>1, <3>1, NoProcessFacts DEF Kill, Killed
    <3> QED BY <2>2, <2>7, <3>2 DEF StopCovers, IsSundarr
  <2>9. CASE StopDead(c)
    <3>1. proc'[p] = proc[p] BY <2>9 DEF StopDead, NoKill
    <3>2. p = file[Service(c)] BY <2>2, <2>7, <3>1 DEF StopCovers, IsSundarr
    <3> QED BY <2>1, <2>9, <3>1, <3>2, NoProcessFacts, ProcessAssumption DEF StopDead, Runs
  <2> QED BY <2>3, <2>8, <2>9
<1>2. ManagerInv /\ [Next]_vars => [Stops]_vars BY <1>1
<1> QED BY <1>2, ManagerAlways, PTL DEF Spec, StopStops
=============================================================================

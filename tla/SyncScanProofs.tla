--------------------------- MODULE SyncScanProofs ---------------------------
(***************************************************************************)
(* Proofs about SyncScan for every number of tasks, requests and versions: *)
(* every variable keeps its type, as long as the worker alone scans no     *)
(* version of a file has two tasks, and while it also creates alone the    *)
(* link of a seen file is to the task for the version seen.                *)
(***************************************************************************)
(* MCSyncScan is extended for the behaviours in which the worker is alone. *)
EXTENDS MCSyncScan, TLAPS

-----------------------------------------------------------------------------
(* Types                                                                   *)

\* What Leave and AfterScan do to the state of one scan (scan, create_tasks).
LEMMA LeaveType ==
  ASSUME TypeOK, NEW a \in Actors, Leave(a) \/ AfterScan(a)
  PROVE  /\ pc' \in [Actors -> ScanPC \cup {"idle", "creating", "checking"}]
         /\ listed' \in [Actors -> Versions]
         /\ plan' \in [Actors -> [old : Seen, new : Seen, kill : Tasks \cup {NoTask}]]
<1>1. 1 \in Versions
  BY ConstantsAssumption DEF Versions
<1>2. NoPlan \in [old : Seen, new : Seen, kill : Tasks \cup {NoTask}]
  BY <1>1 DEF NoPlan, NoSeen, Seen, SeenStatus
<1>3. /\ listed' = [listed EXCEPT ![a] = 1]
      /\ plan' = [plan EXCEPT ![a] = NoPlan]
      /\ \E label \in {"idle", "creating"} : pc' = [pc EXCEPT ![a] = label]
  BY DEF Leave, AfterScan, Goto
<1>4. pc' \in [Actors -> ScanPC \cup {"idle", "creating", "checking"}]
  BY <1>3 DEF TypeOK
<1>5. plan' \in [Actors -> [old : Seen, new : Seen, kill : Tasks \cup {NoTask}]]
  BY <1>2, <1>3 DEF TypeOK
<1> QED BY <1>1, <1>3, <1>4, <1>5 DEF TypeOK

\* The plan of a scan (_upsert_seen_file) is a plan.
LEMMA PlannedType ==
  ASSUME TypeOK, NEW a \in Actors, NEW aged \in BOOLEAN
  PROVE  Planned(a, aged) \in [old : Seen, new : Seen, kill : Tasks \cup {NoTask}]
<1>1. seen \in Seen /\ listed[a] \in Versions
  BY DEF TypeOK
<1> DEFINE same == seen.ver = listed[a]
           status == IF seen.task = NoTask THEN "absent" ELSE task[seen.task].st
           settled == same /\ aged /\ seen.st \in {"discovered", "stable"}
           row == CASE seen.st = "absent" ->
                         [st |-> "discovered", ver |-> listed[a], task |-> NoTask]
                    [] seen.st # "absent" /\ settled ->
                         [seen EXCEPT !.st = "stable"]
                    [] seen.st # "absent" /\ ~settled /\ ~same /\ status = "running" ->
                         seen
                    [] OTHER ->
                         [st   |-> IF seen.st = "stable" /\ same THEN "stable" ELSE "discovered",
                          ver  |-> listed[a],
                          task |-> IF same THEN seen.task ELSE NoTask]
<1>2. row \in Seen
  <2> HIDE DEF settled, status, same
  <2> QED BY <1>1 DEF Seen, SeenStatus
<1>3. Planned(a, aged) =
        [old  |-> seen, new |-> row,
         kill |-> IF seen.st # "absent" /\ ~same /\ status = "pending"
                  THEN seen.task ELSE NoTask]
  BY DEF Planned
<1> HIDE DEF row, settled, status, same
<1> QED BY <1>1, <1>2, <1>3 DEF Seen

LEMMA MergedType ==
  ASSUME TypeOK, NEW a \in Actors
  PROVE  Merged(plan[a]) \in Seen
<1>1. seen \in Seen /\ plan[a].old \in Seen /\ plan[a].new \in Seen
  BY DEF TypeOK
<1> QED BY <1>1 DEF Merged, Seen

\* Every step of a scan or of a creation keeps the types (sync_service).
LEMMA ActorType ==
  ASSUME TypeOK, NEW a \in Actors, ScanStep(a) \/ CreateStep(a), Clock
  PROVE  TypeOK'
<1>0. overtaken' \subseteq Actors
  BY DEF Clock
<1>1. CASE BeginScan(a)
  BY <1>0, <1>1 DEF TypeOK, BeginScan, Goto, ScanPC, taskVars
<1>2. CASE List(a)
  <2>1. CASE src # 0 /\ listed' = [listed EXCEPT ![a] = src] /\ Goto(a, "listed") /\ UNCHANGED plan
    <3>1. src \in Versions
      BY <2>1, ConstantsAssumption DEF TypeOK, Versions
    <3> QED BY <1>0, <1>2, <2>1, <3>1 DEF TypeOK, List, Goto, ScanPC, taskVars
  <2>2. CASE AfterScan(a)
    BY <1>0, <1>2, <2>2, LeaveType DEF TypeOK, List, taskVars
  <2> QED BY <1>2, <2>1, <2>2 DEF List
<1>3. CASE ListFails(a)
  BY <1>0, <1>3, LeaveType DEF TypeOK, ListFails, taskVars
<1>4. ASSUME NEW aged \in BOOLEAN, Upsert(a, aged) PROVE TypeOK'
  <2>1. plan' \in [Actors -> [old : Seen, new : Seen, kill : Tasks \cup {NoTask}]]
    BY <1>4, PlannedType DEF TypeOK, Upsert
  <2> QED BY <1>0, <1>4, <2>1 DEF TypeOK, Upsert, Goto, ScanPC, taskVars
<1>5. CASE CallCommit(a)
  BY <1>0, <1>5 DEF TypeOK, CallCommit, Goto, ScanPC, taskVars
<1>6. CASE Flush(a)
  <2> DEFINE p == plan[a]
  <2>1. p.kill \in Tasks \cup {NoTask} /\ Merged(p) \in Seen
    BY MergedType DEF TypeOK
  <2>2. CASE /\ ~Conflict(p)
             /\ seen' = Merged(p)
             /\ task' = IF p.kill = NoTask THEN task
                        ELSE [task EXCEPT ![p.kill].st = "superseded"]
             /\ AfterScan(a)
             /\ UNCHANGED <<phase, worker, lock>>
    <3>1. task' \in [Tasks -> [st : TaskStatus, ver : Versions]]
      BY <2>1, <2>2 DEF TypeOK, TaskStatus
    <3> QED BY <1>0, <1>6, <2>1, <2>2, <3>1, LeaveType DEF TypeOK, Flush
  <2>3. CASE Leave(a) /\ UNCHANGED <<seen, taskVars, worker, lock>>
    BY <1>0, <1>6, <2>3, LeaveType DEF TypeOK, Flush, taskVars
  <2>4. CASE a = Worker /\ WorkerGone /\ UNCHANGED <<seen, task>>
    <3>1. Leave(a)
      BY <2>4 DEF WorkerGone
    <3>2. /\ worker' \in {"up", "down"} /\ lock' \in Actors \cup {NoActor}
          /\ phase' \in [Tasks -> {"none", "copying", "copied", "removing"}]
      BY <2>4 DEF TypeOK, WorkerGone
    <3> QED BY <1>0, <1>6, <2>4, <3>1, <3>2, LeaveType DEF TypeOK, Flush
  <2> QED BY <1>6, <2>2, <2>3, <2>4 DEF Flush
<1>7. CASE BeginCreate(a)
  BY <1>0, <1>7 DEF TypeOK, BeginCreate, Goto, ScanPC, taskVars
<1>8. CASE LockRow(a)
  BY <1>0, <1>8 DEF TypeOK, LockRow, Goto, ScanPC, taskVars
<1>9. CASE CreateTask(a)
  <2>1. PICK t \in Tasks : /\ task' = [task EXCEPT ![t] = [st |-> "pending", ver |-> seen.ver]]
                           /\ seen' = [seen EXCEPT !.st = "queued", !.task = t]
    BY <1>9 DEF CreateTask
  <2>2. task' \in [Tasks -> [st : TaskStatus, ver : Versions]] /\ seen' \in Seen
    BY <2>1 DEF TypeOK, Seen, SeenStatus, TaskStatus
  <2> QED BY <1>0, <1>9, <2>2 DEF TypeOK, CreateTask, Goto, ScanPC
<1>10. CASE CreateNone(a)
  <2>1. seen' \in Seen
    BY <1>10 DEF TypeOK, CreateNone, Seen, SeenStatus
  <2> QED BY <1>0, <1>10, <2>1 DEF TypeOK, CreateNone, Goto, ScanPC, taskVars
<1> QED
  BY <1>1, <1>2, <1>3, <1>4, <1>5, <1>6, <1>7, <1>8, <1>9, <1>10
  DEF ScanStep, CreateStep

\* Every step in the life of a task keeps the types (worker, transfer_service).
LEMMA TaskType ==
  ASSUME TypeOK, NEW t \in Tasks, TaskStep(t), Clock
  PROVE  TypeOK'
<1>0. overtaken' \subseteq Actors
  BY DEF Clock
<1>1. CASE Advance(t)
  BY <1>0, <1>1 DEF TypeOK, Advance, TaskStatus
<1>2. CASE Complete(t)
  <2>1. seen' \in Seen
    BY <1>2 DEF TypeOK, Complete, Seen, SeenStatus
  <2>2. /\ task' \in [Tasks -> [st : TaskStatus, ver : Versions]]
        /\ phase' \in [Tasks -> {"none", "copying", "copied", "removing"}]
    BY <1>2 DEF TypeOK, Complete, TaskStatus
  <2> QED BY <1>0, <1>2, <2>1, <2>2 DEF TypeOK, Complete
<1>3. CASE StartCleanup(t)
  BY <1>0, <1>3 DEF TypeOK, StartCleanup, TaskStatus
<1>4. CASE EndThread(t)
  <2>1. /\ task' \in [Tasks -> [st : TaskStatus, ver : Versions]]
        /\ phase' \in [Tasks -> {"none", "copying", "copied", "removing"}]
    BY <1>4 DEF TypeOK, EndThread, TaskStatus
  <2>2. src' \in 0..MaxVersion
    BY <1>4, ConstantsAssumption DEF TypeOK, EndThread
  <2> QED BY <1>0, <1>4, <2>1, <2>2 DEF TypeOK, EndThread
<1>5. CASE ThreadDies(t)
  <2>1. Worker \in Actors /\ Leave(Worker)
    BY <1>5 DEF ThreadDies, WorkerGone, Actors
  <2>2. /\ worker' \in {"up", "down"} /\ lock' \in Actors \cup {NoActor}
        /\ phase' \in [Tasks -> {"none", "copying", "copied", "removing"}]
    BY <1>5 DEF TypeOK, ThreadDies, WorkerGone
  <2> QED BY <1>0, <1>5, <2>1, <2>2, LeaveType DEF TypeOK, ThreadDies
<1>6. CASE Change(t)
  BY <1>0, <1>6 DEF TypeOK, Change
<1>7. CASE Delete(t)
  <2>1. seen' \in Seen
    BY <1>7 DEF TypeOK, Delete, Seen
  <2> QED BY <1>0, <1>7, <2>1 DEF TypeOK, Delete, TaskStatus
<1> QED BY <1>1, <1>2, <1>3, <1>4, <1>5, <1>6, <1>7 DEF TaskStep

\* The type invariant is inductive.
LEMMA TypeStep ==
  ASSUME TypeOK, [Next]_vars
  PROVE  TypeOK'
<1>1. CASE UNCHANGED vars
  BY <1>1 DEF TypeOK, vars, taskVars
<1>2. ASSUME Step, Clock PROVE TypeOK'
  <2>0. overtaken' \subseteq Actors
    BY <1>2 DEF Clock
  <2>1. ASSUME NEW a \in Actors, ScanStep(a) \/ CreateStep(a) PROVE TypeOK'
    BY <1>2, <2>1, ActorType
  <2>2. CASE Claim
    <3>1. PICK S \in SUBSET {t \in Tasks : task[t].st = "pending"} :
            /\ task' = [t \in Tasks |-> IF t \in S THEN [task[t] EXCEPT !.st = "running"] ELSE task[t]]
            /\ phase' = [t \in Tasks |-> IF t \in S THEN "copying" ELSE "none"]
      BY <2>2 DEF Claim
    <3>2. /\ task' \in [Tasks -> [st : TaskStatus, ver : Versions]]
          /\ phase' \in [Tasks -> {"none", "copying", "copied", "removing"}]
      BY <3>1 DEF TypeOK, TaskStatus
    <3> QED BY <2>0, <2>2, <3>2 DEF TypeOK, Claim
  <2>3. ASSUME NEW t \in Tasks, TaskStep(t) PROVE TypeOK'
    BY <1>2, <2>3, TaskType
  <2>4. CASE WorkerStops
    <3>1. Worker \in Actors /\ Leave(Worker)
      BY <2>4 DEF WorkerStops, WorkerGone, Actors
    <3>2. /\ worker' \in {"up", "down"} /\ lock' \in Actors \cup {NoActor}
          /\ phase' \in [Tasks -> {"none", "copying", "copied", "removing"}]
      BY <2>4 DEF TypeOK, WorkerStops, WorkerGone
    <3> QED BY <2>0, <2>4, <3>1, <3>2, LeaveType DEF TypeOK, WorkerStops
  <2>5. CASE WorkerStarts
    <3>1. task' \in [Tasks -> [st : TaskStatus, ver : Versions]]
      BY <2>5 DEF TypeOK, WorkerStarts, TaskStatus
    <3> QED BY <2>0, <2>5, <3>1 DEF TypeOK, WorkerStarts
  <2>6. CASE ApiStops
    <3>1. 1 \in Versions /\ NoPlan \in [old : Seen, new : Seen, kill : Tasks \cup {NoTask}]
      BY ConstantsAssumption DEF Versions, NoPlan, NoSeen, Seen, SeenStatus
    <3>2. pc' \in [Actors -> ScanPC \cup {"idle", "creating", "checking"}]
      BY <2>6 DEF TypeOK, ApiStops
    <3>3. plan' \in [Actors -> [old : Seen, new : Seen, kill : Tasks \cup {NoTask}]]
      BY <2>6, <3>1 DEF TypeOK, ApiStops
    <3>4. listed' \in [Actors -> Versions]
      BY <2>6, <3>1 DEF TypeOK, ApiStops
    <3> QED BY <2>0, <2>6, <3>2, <3>3, <3>4 DEF TypeOK, ApiStops, taskVars
  <2>7. CASE Upload
    <3>1. src' \in 0..MaxVersion /\ last' \in Versions
      BY <2>7, ConstantsAssumption DEF TypeOK, Upload, Versions
    <3> QED BY <2>0, <2>7, <3>1 DEF TypeOK, Upload, taskVars
  <2> QED BY <1>2, <2>1, <2>2, <2>3, <2>4, <2>5, <2>6, <2>7 DEF Step
<1> QED BY <1>1, <1>2 DEF Next

LEMMA TypeInit ==
  Init => TypeOK
<1> SUFFICES ASSUME Init PROVE TypeOK
  OBVIOUS
<1>1. 1 \in Versions /\ 1 \in 0..MaxVersion
  BY ConstantsAssumption DEF Versions
<1>2. NoPlan \in [old : Seen, new : Seen, kill : Tasks \cup {NoTask}] /\ NoSeen \in Seen
  BY <1>1 DEF NoPlan, NoSeen, Seen, SeenStatus
<1> QED BY <1>1, <1>2 DEF Init, TypeOK, TaskStatus, ScanPC

\* Every variable keeps its type, whatever the two processes do to the rows of
\* sync_seen_files and transfer_tasks.
THEOREM TypeCorrect == Spec => []TypeOK
BY TypeInit, TypeStep, PTL DEF Spec

-----------------------------------------------------------------------------
(* One task per version, as long as the worker alone scans                 *)

ScanInv == TaskInv /\ OneTaskPerVersion /\ LockInv /\ PlanInv

\* A step that creates no task, keeps the seen version and keeps the link to
\* every task that remains (all but create_tasks and the commit of a scan).
LEMMA TasksKept ==
  ASSUME TypeOK, TaskInv, OneTaskPerVersion,
         \A t \in Tasks : Exists(t)' => Exists(t) /\ task'[t].ver = task[t].ver,
         seen'.ver = seen.ver, seen'.st # "absent" \/ seen' = seen,
         \A t \in Tasks : Exists(t)' /\ t = seen.task => t = seen'.task
  PROVE  TaskInv' /\ OneTaskPerVersion'
<1>1. TaskInv'
  BY DEF TaskInv
<1>2. OneTaskPerVersion'
  BY DEF OneTaskPerVersion
<1> QED BY <1>1, <1>2

\* A step that leaves the row, its lock and every scan alone, or ends scans.
LEMMA PlanKept ==
  ASSUME TypeOK, PlanInv,
         src' \in {src, 0}, last' = last, seen'.ver = seen.ver,
         seen'.st = "absent" <=> seen.st = "absent",
         \A a \in Actors : pc'[a] \in ScanPC => pc[a] = pc'[a],
         pc'[Worker] \in ScanPC => listed'[Worker] = listed[Worker] /\ plan'[Worker] = plan[Worker]
  PROVE  PlanInv'
<1>1. Worker \in Actors
  BY DEF Actors
<1> QED BY <1>1 DEF PlanInv, ScanPC

LEMMA LockKept ==
  ASSUME TypeOK, LockInv, lock' = lock,
         \A a \in Actors : pc'[a] = "checking" <=> pc[a] = "checking",
         lock # NoActor => seen'.st = seen.st /\ seen'.task = seen.task
  PROVE  LockInv'
BY DEF LockInv, WantsTask

\* _upsert_seen_file never goes back to an older version and drops the link
\* only for a newer one, if what was listed is not older than the row.
LEMMA PlannedFacts ==
  ASSUME TypeOK, NEW a \in Actors, NEW aged \in BOOLEAN,
         seen.ver <= last, listed[a] <= last, seen.st # "absent" => seen.ver <= listed[a]
  PROVE  LET p == Planned(a, aged) IN
           /\ p.old = seen
           /\ p.new.ver <= last /\ p.new.st # "absent"
           /\ seen.st # "absent" =>
                /\ p.new.ver >= seen.ver
                /\ p.new.ver = seen.ver => p.new.task = seen.task
<1>1. seen \in Seen /\ listed[a] \in Nat /\ seen.ver \in Nat /\ last \in Nat
  BY ConstantsAssumption DEF TypeOK, Versions, Seen
<1>2. CASE seen.st = "absent"
  BY <1>1, <1>2 DEF Planned
<1>3. CASE seen.st # "absent" /\ seen.ver = listed[a] /\ aged /\ seen.st \in {"discovered", "stable"}
  BY <1>1, <1>3 DEF Planned, Seen
<1>4. CASE seen.st # "absent" /\ seen.ver = listed[a] /\ ~(aged /\ seen.st \in {"discovered", "stable"})
  BY <1>1, <1>4 DEF Planned, Seen
<1>5. CASE seen.st # "absent" /\ seen.ver # listed[a]
  BY <1>1, <1>5 DEF Planned, Seen
<1> QED BY <1>2, <1>3, <1>4, <1>5

\* A scan or a creation that ends without writing (Leave, AfterScan).
LEMMA LeaveInv ==
  ASSUME TypeOK, ScanInv, NEW a \in Actors, Leave(a) \/ AfterScan(a),
         UNCHANGED <<last, seen>>, src' \in {src, 0},
         \A t \in Tasks : Exists(t)' => Exists(t) /\ task'[t].ver = task[t].ver,
         lock' = IF lock = a THEN NoActor ELSE lock
  PROVE  ScanInv'
<1>1. TaskInv' /\ OneTaskPerVersion'
  BY TasksKept DEF ScanInv
<1>2. \E label \in {"idle", "creating"} : pc' = [pc EXCEPT ![a] = label]
  BY DEF Leave, AfterScan, Goto
<1>3. pc'[a] \notin ScanPC /\ pc'[a] # "checking" /\ \A b \in Actors \ {a} : pc'[b] = pc[b]
  BY <1>2 DEF TypeOK, ScanPC
<1>4. pc'[Worker] \in ScanPC => listed'[Worker] = listed[Worker] /\ plan'[Worker] = plan[Worker]
  BY <1>3 DEF Leave, AfterScan, TypeOK, Actors
<1>5. PlanInv'
  BY <1>3, <1>4, PlanKept DEF ScanInv
<1>6. LockInv'
  BY <1>3, ConstantsAssumption DEF ScanInv, LockInv, WantsTask
<1> QED BY <1>1, <1>5, <1>6 DEF ScanInv

\* The commit of the scan (scan, Session.flush).
LEMMA FlushInv ==
  ASSUME TypeOK, ScanInv, NEW a \in Actors, Flush(a)
  PROVE  ScanInv'
<1> DEFINE p == plan[a]
<1>1. a = Worker /\ pc[a] = "flushing" /\ pc[a] # "checking" /\ lock # a
  BY DEF Flush, ScanInv, PlanInv, LockInv, ScanPC
<1>2. /\ p.new.ver <= last /\ p.new.st # "absent"
      /\ p.old.st = "absent" <=> seen.st = "absent"
      /\ p.old.st # "absent" =>
           /\ p.old.ver = seen.ver
           /\ p.new.ver >= p.old.ver
           /\ p.new.ver = p.old.ver => p.new.task = p.old.task
  BY <1>1 DEF ScanInv, PlanInv
<1>3. /\ p.kill \in Tasks \cup {NoTask} /\ p.new \in Seen /\ p.old \in Seen /\ seen \in Seen
      /\ p.new.ver \in Nat /\ p.old.ver \in Nat /\ seen.ver \in Nat /\ last \in Nat
  BY ConstantsAssumption DEF TypeOK, Versions, Seen
<1>4. CASE /\ ~Conflict(p)
           /\ seen' = Merged(p)
           /\ task' = IF p.kill = NoTask THEN task
                      ELSE [task EXCEPT ![p.kill].st = "superseded"]
           /\ AfterScan(a)
           /\ UNCHANGED <<phase, worker, lock>>
  <2>1. \A t \in Tasks : (Exists(t)' <=> Exists(t)) /\ task'[t].ver = task[t].ver
    BY <1>3, <1>4 DEF TypeOK, Exists, Conflict
  <2>2. UNCHANGED <<src, last>>
    BY DEF Flush
  <2>3. TaskInv' /\ OneTaskPerVersion' /\ seen'.st # "absent" /\ seen'.ver <= last
    <3>1. CASE p.old.st = "absent"
      <4>1. seen.st = "absent" /\ seen'.st # "absent" /\ seen'.ver <= last
        BY <1>2, <1>4, <3>1 DEF Merged
      <4>2. \A t \in Tasks : ~Exists(t)'
        BY <2>1, <4>1 DEF ScanInv, TaskInv
      <4> QED BY <4>1, <4>2 DEF TaskInv, OneTaskPerVersion
    <3>2. CASE p.old.st # "absent" /\ p.new.ver = p.old.ver
      <4>1. seen'.ver = seen.ver /\ seen'.task = seen.task /\ seen'.st # "absent"
        BY <1>2, <1>4, <3>2 DEF Merged
      <4>2. seen'.ver <= last
        BY <4>1 DEF ScanInv, PlanInv
      <4> QED BY <2>1, <4>1, <4>2, TasksKept DEF ScanInv
    <3>3. CASE p.old.st # "absent" /\ p.new.ver # p.old.ver
      <4>1. seen'.ver = p.new.ver /\ p.new.ver > seen.ver /\ seen'.st # "absent"
        BY <1>2, <1>3, <1>4, <3>3 DEF Merged
      <4>2. \A t \in Tasks : Exists(t)' => task'[t].ver < seen'.ver
        <5> TAKE t \in Tasks
        <5>1. task[t].ver \in Nat
          BY ConstantsAssumption DEF TypeOK, Versions
        <5>2. Exists(t) => task[t].ver <= seen.ver
          BY DEF ScanInv, TaskInv
        <5> QED BY <1>3, <2>1, <4>1, <5>1, <5>2
      <4>3. TaskInv'
        <5> SUFFICES ASSUME NEW t \in Tasks, Exists(t)'
                     PROVE  /\ seen'.st # "absent" /\ task'[t].ver <= seen'.ver
                            /\ task'[t].ver # seen'.ver
          BY DEF TaskInv
        <5>1. task'[t].ver < seen'.ver /\ task'[t].ver \in Nat /\ seen'.ver \in Nat
          BY <1>3, <2>1, <4>1, <4>2, ConstantsAssumption DEF TypeOK, Versions
        <5> QED BY <4>1, <5>1
      <4>4. OneTaskPerVersion'
        BY <2>1 DEF ScanInv, OneTaskPerVersion
      <4> QED BY <1>2, <4>1, <4>3, <4>4
    <3> QED BY <3>1, <3>2, <3>3
  <2>4. pc'[a] \notin ScanPC /\ pc'[a] # "checking" /\ \A b \in Actors \ {a} : pc'[b] = pc[b]
    BY <1>4 DEF AfterScan, Goto, TypeOK, ScanPC
  <2>5. PlanInv'
    BY <1>1, <2>2, <2>3, <2>4 DEF ScanInv, PlanInv, ScanPC
  <2>6. LockInv'
    <3>1. CASE lock = NoActor
      BY <1>1, <1>4, <2>4, <3>1 DEF ScanInv, LockInv
    <3>2. CASE lock # NoActor
      <4>1. seen.st = "stable" /\ ~UpdatesSeen(a)
        BY <3>2 DEF Flush, Waiting, ScanInv, LockInv, WantsTask
      <4>2. seen'.st = seen.st /\ seen'.task = seen.task
        BY <1>2, <1>3, <1>4, <4>1 DEF UpdatesSeen, Merged, Seen
      <4> QED BY <1>1, <1>4, <2>4, <4>2 DEF ScanInv, LockInv, WantsTask
    <3> QED BY <3>1, <3>2
  <2> QED BY <2>3, <2>5, <2>6 DEF ScanInv
<1>5. CASE Leave(a) /\ UNCHANGED <<seen, taskVars, worker, lock>>
  BY <1>1, <1>5, LeaveInv DEF Flush, taskVars, Exists
<1>6. CASE a = Worker /\ WorkerGone /\ UNCHANGED <<seen, task>>
  BY <1>1, <1>6, LeaveInv DEF Flush, WorkerGone, Exists
<1> QED BY <1>4, <1>5, <1>6 DEF Flush

\* Every step of a scan or of a creation (sync_service.scan, create_tasks).
LEMMA ActorInv ==
  ASSUME TypeOK, ScanInv, Scanners = {Worker}, NEW a \in Actors,
         ScanStep(a) \/ CreateStep(a)
  PROVE  ScanInv'
<1>0. /\ Worker \in Actors /\ lock \in Actors \cup {NoActor} /\ NoActor \notin Actors
      /\ seen \in Seen /\ seen.ver \in Nat /\ last \in Nat
  BY ConstantsAssumption DEF TypeOK, Actors, Versions, Seen
<1>1. ASSUME a = Worker, \E label \in ScanPC : pc' = [pc EXCEPT ![a] = label],
             pc[a] # "checking"
      PROVE  \A b \in Actors : /\ pc'[b] = "checking" <=> pc[b] = "checking"
                               /\ pc'[b] \in ScanPC => b = Worker
  BY <1>1 DEF TypeOK, ScanPC, ScanInv, PlanInv
<1>2. CASE BeginScan(a)
  <2>1. a = Worker /\ pc[a] # "checking" /\ pc' = [pc EXCEPT ![a] = "listing"]
    BY <1>2 DEF BeginScan, Goto
  <2>2. TaskInv' /\ OneTaskPerVersion'
    BY <1>2, TasksKept DEF BeginScan, taskVars, ScanInv, Exists
  <2>3. LockInv'
    BY <1>1, <1>2, <2>1, LockKept DEF BeginScan, ScanInv, ScanPC
  <2>4. pc'[Worker] = "listing"
    BY <1>0, <2>1 DEF TypeOK
  <2>5. PlanInv'
    BY <1>1, <1>2, <2>1, <2>4 DEF BeginScan, ScanInv, PlanInv, ScanPC
  <2> QED BY <2>2, <2>3, <2>5 DEF ScanInv
<1>3. CASE List(a)
  <2>1. a = Worker /\ pc[a] = "listing"
    BY <1>3 DEF List, ScanInv, PlanInv, ScanPC
  <2>2. CASE src # 0 /\ listed' = [listed EXCEPT ![a] = src] /\ Goto(a, "listed") /\ UNCHANGED plan
    <3>1. TaskInv' /\ OneTaskPerVersion'
      BY <1>3, TasksKept DEF List, taskVars, ScanInv, Exists
    <3>2. LockInv'
      BY <1>1, <1>3, <2>1, <2>2, LockKept DEF List, Goto, ScanInv, ScanPC
    <3>3. pc'[Worker] = "listed" /\ listed'[Worker] = src /\ src = last
      BY <1>0, <2>1, <2>2 DEF Goto, TypeOK, ScanInv, PlanInv
    <3>4. \A b \in Actors : pc'[b] \in ScanPC => b = Worker
      BY <1>1, <2>1, <2>2 DEF Goto, ScanPC
    <3>5. PlanInv'
      BY <1>0, <1>3, <3>3, <3>4 DEF List, ScanInv, PlanInv, ScanPC
    <3> QED BY <3>1, <3>2, <3>5 DEF ScanInv
  <2>3. CASE AfterScan(a)
    <3>1. lock # a
      BY <1>0, <2>1 DEF ScanInv, LockInv
    <3> QED BY <1>3, <2>3, <3>1, LeaveInv DEF List, taskVars, Exists
  <2> QED BY <1>3, <2>2, <2>3 DEF List
<1>4. CASE ListFails(a)
  <2>1. lock # a
    BY <1>0, <1>4 DEF ListFails, ScanInv, LockInv
  <2> QED BY <1>4, <2>1, LeaveInv DEF ListFails, taskVars, Exists
<1>5. ASSUME NEW aged \in BOOLEAN, Upsert(a, aged) PROVE ScanInv'
  <2>1. a = Worker /\ pc[a] = "listed" /\ pc' = [pc EXCEPT ![a] = "computed"]
    BY <1>5 DEF Upsert, Goto, ScanInv, PlanInv, ScanPC
  <2>2. TaskInv' /\ OneTaskPerVersion'
    BY <1>5, TasksKept DEF Upsert, taskVars, ScanInv, Exists
  <2>3. LockInv'
    BY <1>1, <1>5, <2>1, LockKept DEF Upsert, ScanInv, ScanPC
  <2>4. /\ seen.ver <= last /\ listed[a] <= last
        /\ seen.st # "absent" => seen.ver <= listed[a]
    BY <2>1 DEF ScanInv, PlanInv, ScanPC
  <2>5. plan'[Worker] = Planned(a, aged) /\ pc'[Worker] = "computed"
    BY <1>0, <1>5, <2>1 DEF Upsert, TypeOK
  <2>6. LET p == plan'[Worker] IN
          /\ p.old = seen
          /\ p.new.ver <= last /\ p.new.st # "absent"
          /\ seen.st # "absent" =>
               /\ p.new.ver >= seen.ver
               /\ p.new.ver = seen.ver => p.new.task = seen.task
    BY <2>4, <2>5, PlannedFacts
  <2>7. PlanInv'
    BY <1>1, <1>5, <2>1, <2>4, <2>5, <2>6 DEF Upsert, ScanInv, PlanInv, ScanPC
  <2> QED BY <2>2, <2>3, <2>7 DEF ScanInv
<1>6. CASE CallCommit(a)
  <2>1. a = Worker /\ pc[a] = "computed" /\ pc' = [pc EXCEPT ![a] = "flushing"]
    BY <1>6 DEF CallCommit, Goto, ScanInv, PlanInv, ScanPC
  <2>2. TaskInv' /\ OneTaskPerVersion'
    BY <1>6, TasksKept DEF CallCommit, taskVars, ScanInv, Exists
  <2>3. LockInv'
    BY <1>1, <1>6, <2>1, LockKept DEF CallCommit, ScanInv, ScanPC
  <2>4. PlanInv'
    BY <1>1, <1>6, <2>1 DEF CallCommit, ScanInv, PlanInv, ScanPC
  <2> QED BY <2>2, <2>3, <2>4 DEF ScanInv
<1>7. CASE Flush(a)
  BY <1>7, FlushInv
<1>8. CASE BeginCreate(a)
  <2>1. pc' = [pc EXCEPT ![a] = "creating"] /\ pc[a] = "idle"
    BY <1>8 DEF BeginCreate, Goto
  <2>2. \A b \in Actors : /\ pc'[b] = "checking" <=> pc[b] = "checking"
                          /\ pc'[b] \in ScanPC => pc[b] = pc'[b]
    BY <2>1 DEF TypeOK, ScanPC
  <2>3. TaskInv' /\ OneTaskPerVersion'
    BY <1>8, TasksKept DEF BeginCreate, taskVars, ScanInv, Exists
  <2>4. LockInv'
    BY <1>8, <2>2, LockKept DEF BeginCreate, ScanInv
  <2>5. PlanInv'
    BY <1>8, <2>2, PlanKept DEF BeginCreate, ScanInv
  <2> QED BY <2>3, <2>4, <2>5 DEF ScanInv
<1>9. CASE LockRow(a)
  <2>1. pc[a] = "creating" /\ \E label \in {"checking", "idle"} : pc' = [pc EXCEPT ![a] = label]
    BY <1>9 DEF LockRow, Goto
  <2>2. \A b \in Actors : pc'[b] \in ScanPC => pc[b] = pc'[b]
    BY <2>1 DEF TypeOK, ScanPC
  <2>3. TaskInv' /\ OneTaskPerVersion'
    BY <1>9, TasksKept DEF LockRow, taskVars, ScanInv, Exists
  <2>4. PlanInv'
    BY <1>9, <2>2, PlanKept DEF LockRow, ScanInv
  <2>5. CASE WantsTask /\ lock = NoActor /\ lock' = a /\ Goto(a, "checking")
    <3>1. pc'[a] = "checking" /\ \A b \in Actors \ {a} : pc'[b] = pc[b]
      BY <2>5 DEF Goto, TypeOK
    <3>2. LockInv'
      BY <1>0, <1>9, <2>5, <3>1 DEF LockRow, ScanInv, LockInv, WantsTask
    <3> QED BY <2>3, <2>4, <3>2 DEF ScanInv
  <2>6. CASE Goto(a, "idle") /\ UNCHANGED lock
    <3>1. \A b \in Actors : pc'[b] = "checking" <=> pc[b] = "checking"
      BY <2>1, <2>6 DEF Goto, TypeOK
    <3>2. LockInv'
      BY <1>9, <2>6, <3>1, LockKept DEF LockRow, ScanInv
    <3> QED BY <2>3, <2>4, <3>2 DEF ScanInv
  <2> QED BY <1>9, <2>5, <2>6 DEF LockRow
<1>10. CASE CreateTask(a)
  <2>1. PICK t \in Tasks : /\ Unknown(t)
                           /\ task' = [task EXCEPT ![t] = [st |-> "pending", ver |-> seen.ver]]
                           /\ seen' = [seen EXCEPT !.st = "queued", !.task = t]
    BY <1>10 DEF CreateTask
  <2>2. lock = a /\ WantsTask
    BY <1>0, <1>10 DEF CreateTask, ScanInv, LockInv
  <2>3. pc'[a] = "idle" /\ \A b \in Actors \ {a} : pc'[b] = pc[b]
    BY <1>10 DEF CreateTask, Goto, TypeOK
  <2>4. /\ seen'.st = "queued" /\ seen'.task = t /\ seen'.ver = seen.ver
        /\ task'[t].ver = seen.ver
        /\ \A u \in Tasks \ {t} : task'[u] = task[u]
    BY <1>0, <2>1 DEF TypeOK, Seen
  <2>5. \A u \in Tasks \ {t} : Exists(u)' => Exists(u) /\ task[u].ver # seen.ver /\ u # seen.task
    BY <2>2, <2>4, ConstantsAssumption DEF ScanInv, TaskInv, Exists, WantsTask
  <2>6. TaskInv'
    BY <1>0, <2>4, <2>5 DEF ScanInv, TaskInv
  <2>7. OneTaskPerVersion'
    BY <2>4, <2>5 DEF ScanInv, OneTaskPerVersion
  <2>8. PlanInv'
    <3>1. \A b \in Actors : pc'[b] \in ScanPC => pc[b] = pc'[b]
      BY <2>3 DEF ScanPC
    <3>2. seen.st # "absent"
      BY <2>2 DEF WantsTask
    <3> QED BY <1>10, <2>4, <3>1, <3>2, PlanKept DEF CreateTask, ScanInv
  <2>9. LockInv'
    BY <1>0, <1>10, <2>2, <2>3 DEF CreateTask, ScanInv, LockInv
  <2> QED BY <2>6, <2>7, <2>8, <2>9 DEF ScanInv
<1>11. CASE CreateNone(a)
  <2>1. lock = a /\ WantsTask /\ pc[a] = "checking"
    BY <1>0, <1>11 DEF CreateNone, ScanInv, LockInv
  <2>2. pc'[a] = "idle" /\ \A b \in Actors \ {a} : pc'[b] = pc[b]
    BY <1>11 DEF CreateNone, Goto, TypeOK
  <2>3. seen'.st # "absent" /\ seen.st # "absent" /\ seen'.ver = seen.ver /\ seen'.task = seen.task
    BY <1>0, <1>11, <2>1 DEF CreateNone, WantsTask, Seen
  <2>4. TaskInv' /\ OneTaskPerVersion'
    BY <1>11, <2>3, TasksKept DEF CreateNone, taskVars, ScanInv, Exists
  <2>5. \A b \in Actors : pc'[b] \in ScanPC => pc[b] = pc'[b]
    BY <2>2 DEF ScanPC
  <2>6. PlanInv'
    BY <1>11, <2>3, <2>5, PlanKept DEF CreateNone, ScanInv
  <2>7. LockInv'
    BY <1>0, <1>11, <2>1, <2>2 DEF CreateNone, ScanInv, LockInv
  <2> QED BY <2>4, <2>6, <2>7 DEF ScanInv
<1> QED
  BY <1>2, <1>3, <1>4, <1>5, <1>6, <1>7, <1>8, <1>9, <1>10, <1>11
  DEF ScanStep, CreateStep

\* Every step in the life of a task (claim_pending_tasks, the threads, the
\* transfer API), and the environment.
LEMMA TaskStepInv ==
  ASSUME TypeOK, ScanInv, NEW t \in Tasks, TaskStep(t)
  PROVE  ScanInv'
<1>0. /\ Worker \in Actors /\ NoActor \notin Actors /\ seen \in Seen
      /\ task[t].ver \in Versions
  BY ConstantsAssumption DEF TypeOK, Actors
<1>1. ASSUME UNCHANGED <<last, seen, pc, listed, plan, lock>>, src' \in {src, 0},
             \A u \in Tasks : Exists(u)' => Exists(u) /\ task'[u].ver = task[u].ver
      PROVE  ScanInv'
  <2>1. TaskInv' /\ OneTaskPerVersion'
    BY <1>1, TasksKept DEF ScanInv
  <2>2. PlanInv'
    BY <1>1, PlanKept DEF ScanInv
  <2>3. LockInv'
    BY <1>1, LockKept DEF ScanInv
  <2> QED BY <2>1, <2>2, <2>3 DEF ScanInv
<1>2. CASE Advance(t)
  BY <1>1, <1>2 DEF Advance, Exists, TypeOK
<1>3. CASE Complete(t)
  <2>1. /\ seen'.st = "completed" /\ seen'.ver = seen.ver /\ seen'.task = seen.task
        /\ seen.st # "absent" /\ lock = NoActor
        /\ UNCHANGED <<src, last, pc, listed, plan, lock>>
    BY <1>0, <1>3 DEF Complete, Seen, ScanInv, TaskInv
  <2>2. \A u \in Tasks : Exists(u)' => Exists(u) /\ task'[u].ver = task[u].ver
    BY <1>3 DEF Complete, Exists, TypeOK
  <2>3. TaskInv' /\ OneTaskPerVersion'
    BY <2>1, <2>2, TasksKept DEF ScanInv
  <2>4. PlanInv'
    BY <2>1, PlanKept DEF ScanInv
  <2>5. LockInv'
    BY <2>1, LockKept DEF ScanInv
  <2> QED BY <2>3, <2>4, <2>5 DEF ScanInv
<1>4. CASE StartCleanup(t)
  BY <1>1, <1>4 DEF StartCleanup, Exists, TypeOK
<1>5. CASE EndThread(t)
  <2>1. \A u \in Tasks : Exists(u)' => Exists(u) /\ task'[u].ver = task[u].ver
    BY <1>5 DEF EndThread, Exists, TypeOK
  <2> QED BY <1>1, <1>5, <2>1 DEF EndThread
<1>6. CASE ThreadDies(t)
  BY <1>0, <1>6, LeaveInv DEF ThreadDies, WorkerGone, Exists
<1>7. CASE Change(t)
  <2>1. \A u \in Tasks : Exists(u)' => Exists(u) /\ task'[u].ver = task[u].ver
    BY <1>7 DEF Change, UserChange, Exists, TypeOK
  <2> QED BY <1>1, <1>7, <2>1 DEF Change
<1>8. CASE Delete(t)
  <2>1. /\ seen'.st = seen.st /\ seen'.ver = seen.ver
        /\ seen'.task = IF seen.task = t THEN NoTask ELSE seen.task
        /\ UNCHANGED <<src, last, pc, listed, plan, lock>>
    BY <1>0, <1>8 DEF Delete, Seen
  <2>2. /\ ~Exists(t)'
        /\ \A u \in Tasks : Exists(u)' => Exists(u) /\ task'[u].ver = task[u].ver
    BY <1>8 DEF Delete, Exists, TypeOK
  <2>3. seen'.st # "absent" \/ seen' = seen
    BY <1>0, <1>8, <2>1 DEF Delete, ScanInv, TaskInv, Exists
  <2>4. TaskInv' /\ OneTaskPerVersion'
    BY <2>1, <2>2, <2>3, TasksKept DEF ScanInv
  <2>5. PlanInv'
    BY <2>1, PlanKept DEF ScanInv
  <2>6. lock # NoActor => seen'.task = seen.task
    BY <2>1, ConstantsAssumption DEF ScanInv, LockInv, WantsTask
  <2>7. LockInv'
    BY <2>1, <2>6, LockKept DEF ScanInv
  <2> QED BY <2>4, <2>5, <2>7 DEF ScanInv
<1> QED BY <1>2, <1>3, <1>4, <1>5, <1>6, <1>7, <1>8 DEF TaskStep

\* The invariant is inductive.
LEMMA ScanStepInv ==
  ASSUME TypeOK, ScanInv, Scanners = {Worker}, [Next]_vars
  PROVE  ScanInv'
<1>0. Worker \in Actors /\ NoActor \notin Actors /\ last \in Nat /\ seen.ver \in Nat
  BY ConstantsAssumption DEF Actors, TypeOK, Versions, Seen
<1>1. ASSUME UNCHANGED <<src, last, seen, pc, listed, plan, lock>>,
             \A u \in Tasks : Exists(u)' => Exists(u) /\ task'[u].ver = task[u].ver
      PROVE  ScanInv'
  <2>1. TaskInv' /\ OneTaskPerVersion'
    BY <1>1, TasksKept DEF ScanInv
  <2>2. PlanInv'
    BY <1>1, PlanKept DEF ScanInv
  <2>3. LockInv'
    BY <1>1, LockKept DEF ScanInv
  <2> QED BY <2>1, <2>2, <2>3 DEF ScanInv
<1>2. CASE UNCHANGED vars
  BY <1>1, <1>2 DEF vars, taskVars, Exists
<1>3. ASSUME NEW a \in Actors, ScanStep(a) \/ CreateStep(a) PROVE ScanInv'
  BY <1>3, ActorInv
<1>4. CASE Claim
  <2>1. \A u \in Tasks : Exists(u)' => Exists(u) /\ task'[u].ver = task[u].ver
    BY <1>4 DEF Claim, Exists, TypeOK
  <2> QED BY <1>1, <1>4, <2>1 DEF Claim
<1>5. ASSUME NEW t \in Tasks, TaskStep(t) PROVE ScanInv'
  BY <1>5, TaskStepInv
<1>6. CASE WorkerStops
  BY <1>0, <1>6, LeaveInv DEF WorkerStops, WorkerGone, Exists
<1>7. CASE WorkerStarts
  <2>1. \A u \in Tasks : Exists(u)' => Exists(u) /\ task'[u].ver = task[u].ver
    BY <1>7 DEF WorkerStarts, Exists, TypeOK
  <2> QED BY <1>1, <1>7, <2>1 DEF WorkerStarts
<1>8. CASE ApiStops
  <2>1. \A a \in Actors : /\ a \in Requests => pc'[a] = "idle"
                          /\ a \notin Requests => pc'[a] = pc[a] /\ plan'[a] = plan[a]
                                                  /\ listed'[a] = listed[a]
    BY <1>8 DEF ApiStops
  <2>2. TaskInv' /\ OneTaskPerVersion'
    BY <1>8, TasksKept DEF ApiStops, taskVars, ScanInv, Exists
  <2>3. \A a \in Actors : pc'[a] \in ScanPC => pc[a] = pc'[a]
    BY <2>1 DEF ScanPC
  <2>4. Worker \notin Requests
    BY ConstantsAssumption
  <2>5. PlanInv'
    BY <1>0, <1>8, <2>1, <2>3, <2>4, PlanKept DEF ApiStops, ScanInv
  <2>6. LockInv'
    <3>1. lock' = IF lock \in Requests THEN NoActor ELSE lock
      BY <1>8 DEF ApiStops
    <3>2. WantsTask' <=> WantsTask
      BY <1>8 DEF ApiStops, WantsTask
    <3> QED BY <1>0, <2>1, <3>1, <3>2 DEF ScanInv, LockInv, Actors
  <2> QED BY <2>2, <2>5, <2>6 DEF ScanInv
<1>9. CASE Upload
  <2>1. TaskInv' /\ OneTaskPerVersion'
    BY <1>9, TasksKept DEF Upload, taskVars, ScanInv, Exists
  <2>2. LockInv'
    BY <1>9, LockKept DEF Upload, ScanInv
  <2>3. \A v \in Nat : v <= last => v <= last'
    BY <1>0, <1>9 DEF Upload
  <2>4. listed[Worker] \in Nat /\ plan[Worker].new.ver \in Nat
    BY <1>0, ConstantsAssumption DEF TypeOK, Versions, Seen
  <2>5. PlanInv'
    BY <1>0, <1>9, <2>3, <2>4 DEF Upload, ScanInv, PlanInv
  <2> QED BY <2>1, <2>2, <2>5 DEF ScanInv
<1> QED BY <1>2, <1>3, <1>4, <1>5, <1>6, <1>7, <1>8, <1>9 DEF Next, Step

LEMMA ScanInit ==
  Init => ScanInv
<1> SUFFICES ASSUME Init PROVE ScanInv
  OBVIOUS
<1>1. /\ \A t \in Tasks : ~Exists(t)
      /\ \A a \in Actors : pc[a] = "idle"
      /\ lock = NoActor /\ NoActor \notin Actors /\ Worker \in Actors
      /\ src = 1 /\ last = 1 /\ seen.ver = 1
  BY ConstantsAssumption DEF Init, Exists, NoSeen, Actors
<1> QED BY <1>1 DEF ScanInv, TaskInv, OneTaskPerVersion, LockInv, PlanInv, ScanPC

\* As long as the worker alone scans, no version of a file ever has two tasks:
\* not with any number of requests that create tasks beside it, deletions,
\* retries, kills and uploads between any two of its steps (create_tasks).
THEOREM OneTaskPerVersionCorrect ==
  ASSUME Scanners = {Worker}
  PROVE  Spec => []OneTaskPerVersion
<1>1. Init => TypeOK /\ ScanInv
  BY TypeInit, ScanInit
<1>2. TypeOK /\ ScanInv /\ [Next]_vars => (TypeOK /\ ScanInv)'
  BY TypeStep, ScanStepInv
<1>3. TypeOK /\ ScanInv => OneTaskPerVersion
  BY DEF ScanInv
<1> QED BY <1>1, <1>2, <1>3, PTL DEF Spec

-----------------------------------------------------------------------------
(* The link of the seen file, while the worker works alone                 *)

\* A step that keeps the version of every task and of the seen file, at most
\* clears the link, and leaves or ends the scan in flight.
LEMMA LinkKept ==
  ASSUME TypeOK, LinkInv,
         \A t \in Tasks : task'[t].ver = task[t].ver,
         seen'.ver = seen.ver, seen'.task \in {seen.task, NoTask},
         pc'[Worker] \in {"computed", "flushing"} =>
           /\ pc[Worker] \in {"computed", "flushing"}
           /\ plan'[Worker] = plan[Worker]
  PROVE  LinkInv'
<1>1. seen.task \in Tasks \cup {NoTask}
  BY DEF TypeOK, Seen
<1> QED BY <1>1 DEF LinkInv, LinkedIsSeen

\* A scan or a creation that ends without writing (Leave, AfterScan).
LEMMA LinkLeft ==
  ASSUME TypeOK, LinkInv, Leave(Worker) \/ AfterScan(Worker), UNCHANGED seen,
         \A t \in Tasks : task'[t].ver = task[t].ver
  PROVE  LinkInv'
<1>1. pc'[Worker] \in {"idle", "creating"}
  BY DEF Leave, AfterScan, Goto, TypeOK, Actors
<1> QED BY <1>1, LinkKept

\* _upsert_seen_file writes a new version without a link.
LEMMA PlannedLink ==
  ASSUME TypeOK, NEW a \in Actors, NEW aged \in BOOLEAN
  PROVE  LET p == Planned(a, aged) IN
           /\ p.old = seen
           /\ p.old.st = "absent" \/ p.new.ver # p.old.ver => p.new.task = NoTask
<1>1. seen \in Seen
  BY DEF TypeOK
<1>2. CASE seen.st = "absent"
  BY <1>1, <1>2 DEF Planned
<1>3. CASE seen.st # "absent" /\ seen.ver = listed[a] /\ aged /\ seen.st \in {"discovered", "stable"}
  BY <1>1, <1>3 DEF Planned, Seen
<1>4. CASE seen.st # "absent" /\ seen.ver = listed[a] /\ ~(aged /\ seen.st \in {"discovered", "stable"})
  BY <1>1, <1>4 DEF Planned, Seen
<1>5. CASE seen.st # "absent" /\ seen.ver # listed[a]
  BY <1>1, <1>5 DEF Planned, Seen
<1> QED BY <1>2, <1>3, <1>4, <1>5

\* The commit of the scan writes the columns it has changed: a new version
\* comes without a link, also over a link that was cleared meanwhile.
LEMMA LinkFlush ==
  ASSUME TypeOK, ScanInv, LinkInv, Flush(Worker)
  PROVE  LinkInv'
<1> DEFINE p == plan[Worker]
<1>1. /\ p.old.st = "absent" <=> seen.st = "absent"
      /\ p.old.st # "absent" => p.old.ver = seen.ver /\ seen.task \in {p.old.task, NoTask}
      /\ p.old.st = "absent" \/ p.new.ver # p.old.ver => p.new.task = NoTask
      /\ p.old.st # "absent" /\ p.new.ver = p.old.ver => p.new.task = p.old.task
  BY DEF Flush, ScanInv, PlanInv, LinkInv, ScanPC
<1>2. /\ p.kill \in Tasks \cup {NoTask} /\ seen \in Seen /\ Worker \in Actors
      /\ p.new \in Seen /\ p.old \in Seen
  BY DEF TypeOK, Actors
<1>3. CASE /\ seen' = Merged(p)
           /\ task' = IF p.kill = NoTask THEN task
                      ELSE [task EXCEPT ![p.kill].st = "superseded"]
           /\ AfterScan(Worker)
  <2>1. \A t \in Tasks : task'[t].ver = task[t].ver
    BY <1>2, <1>3 DEF TypeOK
  <2>2. pc'[Worker] = "creating"
    BY <1>2, <1>3 DEF AfterScan, Goto, TypeOK
  <2>3. CASE p.old.st # "absent" /\ p.new.ver = p.old.ver
    <3>1. seen'.ver = seen.ver /\ seen'.task = seen.task
      BY <1>1, <1>3, <2>3 DEF Merged
    <3> QED BY <2>1, <2>2, <3>1, LinkKept
  <2>4. CASE p.old.st = "absent" \/ p.new.ver # p.old.ver
    <3>1. seen'.task = NoTask
      BY <1>1, <1>3, <2>4 DEF Merged
    <3> QED BY <2>2, <3>1 DEF LinkInv, LinkedIsSeen
  <2> QED BY <2>3, <2>4
<1>4. CASE Leave(Worker) /\ UNCHANGED <<seen, taskVars, worker, lock>>
  BY <1>4, LinkLeft DEF taskVars
<1>5. CASE WorkerGone /\ UNCHANGED <<seen, task>>
  BY <1>5, LinkLeft DEF WorkerGone
<1> QED BY <1>3, <1>4, <1>5 DEF Flush

\* Every step of the worker's scan and creation keeps the link.
LEMMA LinkActor ==
  ASSUME TypeOK, ScanInv, LinkInv, Scanners = {Worker}, Alone, Alone', NEW a \in Actors,
         ScanStep(a) \/ CreateStep(a)
  PROVE  LinkInv'
<1>0. a = Worker /\ Worker \in Actors /\ seen \in Seen
  <2>1. Worker \in Actors /\ seen \in Seen
    BY DEF Actors, TypeOK
  <2>2. ASSUME a \in Requests PROVE FALSE
    <3>1. pc[a] = "idle" /\ pc'[a] = "idle" /\ a # Worker
      BY <2>2, ConstantsAssumption DEF Alone
    <3>2. BeginCreate(a)
      BY <3>1 DEF ScanStep, CreateStep, BeginScan, List, ListFails, Upsert, CallCommit, Flush,
                  LockRow, CreateTask, CreateNone
    <3>3. pc'[a] = "creating"
      BY <3>2 DEF BeginCreate, Goto, TypeOK
    <3> QED BY <3>1, <3>3
  <2> QED BY <2>1, <2>2 DEF Actors
<1>1. ASSUME UNCHANGED <<task, seen, plan>>,
             \E label \in {"listing", "listed", "creating", "checking", "idle"} :
               pc' = [pc EXCEPT ![Worker] = label]
      PROVE  LinkInv'
  <2>1. pc'[Worker] \notin {"computed", "flushing"}
    BY <1>0, <1>1 DEF TypeOK
  <2> QED BY <1>0, <1>1, <2>1, LinkKept DEF Seen
<1>2. CASE BeginScan(a)
  <2>1. pc' = [pc EXCEPT ![Worker] = "listing"] /\ UNCHANGED <<task, seen, plan>>
    BY <1>0, <1>2 DEF BeginScan, Goto, taskVars
  <2> QED BY <1>1, <2>1
<1>3. CASE List(a)
  <2>1. CASE AfterScan(a)
    BY <1>0, <1>3, <2>1, LinkLeft DEF List, taskVars
  <2>2. CASE Goto(a, "listed") /\ UNCHANGED plan
    <3>1. pc' = [pc EXCEPT ![Worker] = "listed"] /\ UNCHANGED <<task, seen, plan>>
      BY <1>0, <1>3, <2>2 DEF List, Goto, taskVars
    <3> QED BY <1>1, <3>1
  <2> QED BY <1>3, <2>1, <2>2 DEF List
<1>4. CASE ListFails(a)
  BY <1>0, <1>4, LinkLeft DEF ListFails, taskVars
<1>5. ASSUME NEW aged \in BOOLEAN, Upsert(a, aged) PROVE LinkInv'
  <2>1. plan'[Worker] = Planned(a, aged) /\ UNCHANGED <<task, seen>>
    BY <1>0, <1>5 DEF Upsert, TypeOK, taskVars
  <2>2. /\ plan'[Worker].old = seen
        /\ \/ plan'[Worker].old.st = "absent"
           \/ plan'[Worker].new.ver # plan'[Worker].old.ver => plan'[Worker].new.task = NoTask
        /\ plan'[Worker].old.st = "absent" => plan'[Worker].new.task = NoTask
    BY <2>1, PlannedLink
  <2> QED BY <2>1, <2>2 DEF LinkInv, LinkedIsSeen
<1>6. CASE CallCommit(a)
  <2>1. pc[Worker] = "computed" /\ UNCHANGED <<task, seen, plan>>
    BY <1>0, <1>6 DEF CallCommit, taskVars
  <2> QED BY <1>0, <2>1, LinkKept DEF Seen
<1>7. CASE Flush(a)
  BY <1>0, <1>7, LinkFlush
<1>8. CASE BeginCreate(a)
  BY <1>0, <1>1, <1>8 DEF BeginCreate, Goto, taskVars
<1>9. CASE LockRow(a)
  BY <1>0, <1>1, <1>9 DEF LockRow, Goto, taskVars
<1>10. CASE CreateTask(a)
  <2>1. PICK t \in Tasks : /\ task' = [task EXCEPT ![t] = [st |-> "pending", ver |-> seen.ver]]
                           /\ seen' = [seen EXCEPT !.st = "queued", !.task = t]
    BY <1>10 DEF CreateTask
  <2>2. seen'.task = t /\ seen'.ver = seen.ver /\ task'[t].ver = seen.ver
    BY <1>0, <2>1 DEF TypeOK, Seen
  <2>3. pc'[Worker] = "idle"
    BY <1>0, <1>10 DEF CreateTask, Goto, TypeOK
  <2> QED BY <2>2, <2>3 DEF LinkInv, LinkedIsSeen
<1>11. CASE CreateNone(a)
  <2>1. seen'.task = seen.task /\ seen'.ver = seen.ver /\ UNCHANGED <<task, plan>>
    BY <1>0, <1>11 DEF CreateNone, Seen, taskVars
  <2>2. pc'[Worker] = "idle"
    BY <1>0, <1>11 DEF CreateNone, Goto, TypeOK
  <2> QED BY <2>1, <2>2, LinkKept
<1> QED
  BY <1>2, <1>3, <1>4, <1>5, <1>6, <1>7, <1>8, <1>9, <1>10, <1>11
  DEF ScanStep, CreateStep

\* Every other step keeps the versions; a deletion clears the link.
LEMMA LinkStep ==
  ASSUME TypeOK, ScanInv, LinkInv, Scanners = {Worker}, Alone, Alone', [Next]_vars
  PROVE  LinkInv'
<1>0. seen \in Seen
  BY DEF TypeOK
<1>1. ASSUME UNCHANGED <<pc, plan>>, \A t \in Tasks : task'[t].ver = task[t].ver,
             seen'.ver = seen.ver, seen'.task \in {seen.task, NoTask}
      PROVE  LinkInv'
  BY <1>1, LinkKept
<1>2. CASE UNCHANGED vars
  BY <1>0, <1>1, <1>2 DEF vars, taskVars
<1>3. ASSUME NEW a \in Actors, ScanStep(a) \/ CreateStep(a) PROVE LinkInv'
  BY <1>3, LinkActor
<1>4. CASE Claim
  <2>1. \A t \in Tasks : task'[t].ver = task[t].ver
    BY <1>4 DEF Claim, TypeOK
  <2> QED BY <1>1, <1>4, <2>1 DEF Claim
<1>5. ASSUME NEW t \in Tasks, TaskStep(t) PROVE LinkInv'
  <2>1. CASE Advance(t)
    <3>1. \A u \in Tasks : task'[u].ver = task[u].ver
      BY <2>1 DEF Advance, TypeOK
    <3> QED BY <1>1, <2>1, <3>1 DEF Advance
  <2>2. CASE Complete(t)
    <3>1. \A u \in Tasks : task'[u].ver = task[u].ver
      BY <2>2 DEF Complete, TypeOK
    <3>2. seen'.ver = seen.ver /\ seen'.task = seen.task
      BY <1>0, <2>2 DEF Complete, Seen
    <3> QED BY <1>1, <2>2, <3>1, <3>2 DEF Complete
  <2>3. CASE StartCleanup(t)
    <3>1. \A u \in Tasks : task'[u].ver = task[u].ver
      BY <2>3 DEF StartCleanup, TypeOK
    <3> QED BY <1>1, <2>3, <3>1 DEF StartCleanup
  <2>4. CASE EndThread(t)
    <3>1. \A u \in Tasks : task'[u].ver = task[u].ver
      BY <2>4 DEF EndThread, TypeOK
    <3> QED BY <1>1, <2>4, <3>1 DEF EndThread
  <2>5. CASE ThreadDies(t)
    BY <2>5, LinkLeft DEF ThreadDies, WorkerGone
  <2>6. CASE Change(t)
    <3>1. \A u \in Tasks : task'[u].ver = task[u].ver
      BY <2>6 DEF Change, TypeOK
    <3> QED BY <1>1, <2>6, <3>1 DEF Change
  <2>7. CASE Delete(t)
    <3>1. \A u \in Tasks : task'[u].ver = task[u].ver
      BY <2>7 DEF Delete, TypeOK
    <3>2. seen'.ver = seen.ver /\ seen'.task \in {seen.task, NoTask}
      BY <1>0, <2>7 DEF Delete, Seen
    <3> QED BY <1>1, <2>7, <3>1, <3>2 DEF Delete
  <2> QED BY <1>5, <2>1, <2>2, <2>3, <2>4, <2>5, <2>6, <2>7 DEF TaskStep
<1>6. CASE WorkerStops
  BY <1>6, LinkLeft DEF WorkerStops, WorkerGone
<1>7. CASE WorkerStarts
  <2>1. \A t \in Tasks : task'[t].ver = task[t].ver
    BY <1>7 DEF WorkerStarts, TypeOK
  <2> QED BY <1>1, <1>7, <2>1 DEF WorkerStarts
<1>8. ~ApiStops
  BY DEF ApiStops, Alone
<1>9. CASE Upload
  BY <1>1, <1>9 DEF Upload, taskVars
<1> QED BY <1>2, <1>3, <1>4, <1>5, <1>6, <1>7, <1>8, <1>9 DEF Next, Step

LEMMA LinkInit ==
  Init => LinkInv
<1> SUFFICES ASSUME Init PROVE LinkInv
  OBVIOUS
<1>1. seen.task = NoTask /\ pc[Worker] = "idle"
  BY DEF Init, NoSeen, Actors
<1> QED BY <1>1 DEF LinkInv, LinkedIsSeen

\* While no request scans or creates tasks beside the worker, the task that a
\* seen file is linked to is the task for the version seen, whatever is
\* uploaded, deleted, retried or killed between the steps of a scan; so a link
\* never hides a version that has no task (scan, create_tasks).
THEOREM LinkedIsSeenAloneCorrect ==
  ASSUME Scanners = {Worker}
  PROVE  MCSpec => []LinkedIsSeenAlone
<1> DEFINE AloneInv == TypeOK /\ ScanInv /\ (alone => Alone /\ LinkInv)
<1>1. MCInit => AloneInv
  BY TypeInit, ScanInit, LinkInit DEF MCInit, Alone, Init, Actors
<1>2. AloneInv /\ [MCNext]_<<vars, alone>> => AloneInv'
  <2> SUFFICES ASSUME AloneInv, [MCNext]_<<vars, alone>> PROVE AloneInv'
    OBVIOUS
  <2>1. [Next]_vars /\ alone' = alone
    BY DEF MCNext
  <2>2. TypeOK' /\ ScanInv'
    BY <2>1, TypeStep, ScanStepInv
  <2>3. alone => Alone'
    BY DEF MCNext, vars, Alone
  <2>4. alone => LinkInv'
    BY <2>1, <2>3, LinkStep
  <2> QED BY <2>1, <2>2, <2>3, <2>4
<1>3. AloneInv => LinkedIsSeenAlone
  BY DEF LinkInv, LinkedIsSeenAlone
<1> QED BY <1>1, <1>2, <1>3, PTL DEF MCSpec
=============================================================================

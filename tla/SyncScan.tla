------------------------------ MODULE SyncScan ------------------------------
(***************************************************************************)
(* Scanning one source file and creating transfer tasks for it, by the     *)
(* worker and by API requests at once.  Both processes run the same code   *)
(* on the row of sync_seen_files: a scan lists the share, reads the row,   *)
(* decides, and commits later the columns it has changed; create_tasks     *)
(* locks the row (FOR UPDATE SKIP LOCKED) over the checksums of source and *)
(* target.  SyncTransfer takes a scan and a creation as one step each and  *)
(* models in detail what is coarse here: the life of a task.               *)
(*                                                                         *)
(* The binding exists and its library is not edited meanwhile, so a scan   *)
(* flushes nothing before it lists.  In the API every database call blocks *)
(* the event loop: while one request waits for a row lock, none advances.  *)
(* A scan is taken to be shorter than stable_seconds (see Upsert).         *)
(*                                                                         *)
(* Bounds: Tasks (rows that can exist at once), MaxVersion (uploads),      *)
(* Requests (API scans and creations in flight).                           *)
(***************************************************************************)
EXTENDS Naturals, FiniteSets

CONSTANTS
  Tasks,       \* rows of transfer_tasks for this source file
  Requests,    \* API requests that scan or create tasks
  Worker,      \* the worker process
  Scanners,    \* who scans; requests that do not scan only create tasks
  MaxVersion,  \* the source is uploaded as versions 1..MaxVersion
  NoTask, NoActor

Actors == Requests \cup {Worker}
Versions == 1..MaxVersion

ASSUME ConstantsAssumption ==
  /\ MaxVersion \in Nat \ {0}
  /\ Worker \notin Requests
  /\ Scanners \subseteq Actors
  /\ NoTask \notin Tasks
  /\ NoActor \notin Actors

VARIABLES
  src,     \* the version at the source path, 0 when there is no file
  last,    \* the newest version uploaded so far
  seen,    \* the committed row of sync_seen_files
  task,    \* the committed row of each task, with the version it is for
  phase,   \* where the worker thread of each task stands
  worker,  \* whether the worker process is up
  pc,      \* where each scan or creation stands
  listed,  \* the version each scan has found on the share
  plan,    \* the row each scan has read, and what it will commit
  lock,    \* who holds the row of sync_seen_files
  overtaken \* scans in flight that began before the last write of the row

taskVars == <<task, phase>>
vars == <<src, last, seen, task, phase, worker, pc, listed, plan, lock, overtaken>>

-----------------------------------------------------------------------------
(* Types                                                                   *)

SeenStatus == {"absent", "discovered", "stable", "queued", "completed", "failed"}

Seen == [st : SeenStatus, ver : Versions, task : Tasks \cup {NoTask}]

NoSeen == [st |-> "absent", ver |-> 1, task |-> NoTask]

\* Classes of task statuses: "running" is ACTIVE_SYNC_TASK_STATUSES,
\* "superseded" a failure by SYNC_SOURCE_CHANGED, which cannot be retried,
\* "ended" is completed or cancelled.
TaskStatus == {"absent", "pending", "running", "paused", "failed", "superseded", "ended"}

ScanPC == {"listing", "listed", "computed", "flushing"}

NoPlan == [old |-> NoSeen, new |-> NoSeen, kill |-> NoTask]

TypeOK ==
  /\ src \in 0..MaxVersion /\ last \in Versions
  /\ seen \in Seen
  /\ task \in [Tasks -> [st : TaskStatus, ver : Versions]]
  /\ phase \in [Tasks -> {"none", "copying", "copied", "removing"}]
  /\ worker \in {"up", "down"}
  /\ pc \in [Actors -> ScanPC \cup {"idle", "creating", "checking"}]
  /\ listed \in [Actors -> Versions]
  /\ plan \in [Actors -> [old : Seen, new : Seen, kill : Tasks \cup {NoTask}]]
  /\ lock \in Actors \cup {NoActor}
  /\ overtaken \subseteq Actors

Init ==
  /\ src = 1 /\ last = 1
  /\ seen = NoSeen
  /\ task = [t \in Tasks |-> [st |-> "absent", ver |-> 1]]
  /\ phase = [t \in Tasks |-> "none"]
  /\ worker = "up"
  /\ pc = [a \in Actors |-> "idle"]
  /\ listed = [a \in Actors |-> 1]
  /\ plan = [a \in Actors |-> NoPlan]
  /\ lock = NoActor
  /\ overtaken = {}

Exists(t) == task[t].st # "absent"

-----------------------------------------------------------------------------
(* Scanning                                                                *)

UpdatesSeen(a) == plan[a].old.st # "absent" /\ plan[a].new # plan[a].old

\* The commit of a scan waits for whoever holds the row.
Waiting(a) == pc[a] = "flushing" /\ UpdatesSeen(a) /\ lock # NoActor

\* A request of the API that waits in the database stops the event loop.
ApiRuns == \A a \in Requests : ~Waiting(a)

Goes(a) == a \in Requests => ApiRuns

Goto(a, label) == pc' = [pc EXCEPT ![a] = label]

\* After its scan the worker creates tasks, a request of the API has ended.
AfterScan(a) ==
  /\ Goto(a, IF a = Worker THEN "creating" ELSE "idle")
  /\ plan' = [plan EXCEPT ![a] = NoPlan]
  /\ listed' = [listed EXCEPT ![a] = 1]

\* A scan or a creation that raises, or has nothing to do.
Leave(a) ==
  /\ Goto(a, "idle")
  /\ plan' = [plan EXCEPT ![a] = NoPlan]
  /\ listed' = [listed EXCEPT ![a] = 1]

\* The worker scans between two batches of tasks.
BeginScan(a) ==
  /\ a \in Scanners /\ pc[a] = "idle" /\ Goes(a)
  /\ a = Worker => worker = "up" /\ \A t \in Tasks : phase[t] = "none"
  /\ Goto(a, "listing")
  /\ UNCHANGED <<src, last, seen, taskVars, worker, listed, plan, lock>>

\* The listing of the share returns.
List(a) ==
  /\ pc[a] = "listing" /\ Goes(a)
  /\ \/ /\ src # 0
        /\ listed' = [listed EXCEPT ![a] = src]
        /\ Goto(a, "listed")
        /\ UNCHANGED plan
     \/ src = 0 /\ AfterScan(a)
  /\ UNCHANGED <<src, last, seen, taskVars, worker, lock>>

\* It fails; so may, in a request, the listing of a binding that comes later.
ListFails(a) ==
  /\ pc[a] = "listing" \/ (a \in Requests /\ pc[a] = "computed")
  /\ Goes(a)
  /\ Leave(a)
  /\ UNCHANGED <<src, last, seen, taskVars, worker, lock>>

\* Mutant: a changed file keeps its task.
PlannedKeepsTask(a, aged) ==
  LET same    == seen.ver = listed[a]
      settled == same /\ aged /\ seen.st \in {"discovered", "stable"}
      row     == IF settled THEN [seen EXCEPT !.st = "stable"]
                 ELSE [st   |-> IF seen.st = "stable" /\ same THEN "stable" ELSE "discovered",
                       ver  |-> listed[a],
                       task |-> IF seen.st = "absent" THEN NoTask ELSE seen.task]
  IN [old |-> seen, new |-> row, kill |-> NoTask]

\* What _upsert_seen_file makes of the row and of the linked task as they are
\* read now; aged: the row has not been touched for stable_seconds.
Planned(a, aged) ==
  LET same    == seen.ver = listed[a]
      status  == IF seen.task = NoTask THEN "absent" ELSE task[seen.task].st
      settled == same /\ aged /\ seen.st \in {"discovered", "stable"}
      row     == CASE seen.st = "absent" ->
                        [st |-> "discovered", ver |-> listed[a], task |-> NoTask]
                   [] seen.st # "absent" /\ settled ->
                        [seen EXCEPT !.st = "stable"]
                   [] seen.st # "absent" /\ ~settled /\ ~same /\ status = "running" ->
                        seen
                   [] OTHER ->
                        [st   |-> IF seen.st = "stable" /\ same THEN "stable" ELSE "discovered",
                         ver  |-> listed[a],
                         task |-> IF same THEN seen.task ELSE NoTask]
  IN [old  |-> seen,
      new  |-> row,
      kill |-> IF seen.st # "absent" /\ ~same /\ status = "pending"
               THEN seen.task ELSE NoTask]

\* A scan that is shorter than stable_seconds has ended before a row that was
\* written while it was in flight can have aged.
Upsert(a, aged) ==
  /\ pc[a] = "listed" /\ Goes(a)
  /\ aged => overtaken = {}
  /\ plan' = [plan EXCEPT ![a] = Planned(a, aged)]
  /\ Goto(a, "computed")
  /\ UNCHANGED <<src, last, seen, taskVars, worker, listed, lock>>

\* The last binding has been listed; commit() is called.
CallCommit(a) ==
  /\ pc[a] = "computed" /\ Goes(a)
  /\ Goto(a, "flushing")
  /\ UNCHANGED <<src, last, seen, taskVars, worker, listed, plan, lock>>

\* The fingerprint of the row is unique, and an UPDATE must match its row.
Conflict(p) ==
  \/ p.old.st = "absent" /\ seen.st # "absent"
  \/ p.kill # NoTask /\ ~Exists(p.kill)

\* The columns that differ from what was loaded reach the database.
Merged(p) ==
  [st   |-> IF p.new.st   = p.old.st   /\ p.old.st # "absent" THEN seen.st   ELSE p.new.st,
   ver  |-> IF p.new.ver  = p.old.ver  /\ p.old.st # "absent" THEN seen.ver  ELSE p.new.ver,
   task |-> IF p.new.task = p.old.task /\ p.old.st # "absent" THEN seen.task ELSE p.new.task]

\* What a process that ends leaves of its own work.
WorkerGone ==
  /\ worker' = "down"
  /\ phase' = [t \in Tasks |-> "none"]
  /\ Leave(Worker)
  /\ lock' = IF lock = Worker THEN NoActor ELSE lock

\* The worker prints the exception of a failed commit, but does not roll its
\* session back: the next query raises and ends the process.
Flush(a) ==
  LET p == plan[a] IN
  /\ pc[a] = "flushing" /\ ~Waiting(a) /\ Goes(a)
  /\ \/ /\ ~Conflict(p)
        /\ seen' = Merged(p)
        /\ task' = IF p.kill = NoTask THEN task
                   ELSE [task EXCEPT ![p.kill].st = "superseded"]
        /\ AfterScan(a)
        /\ UNCHANGED <<phase, worker, lock>>
     \/ /\ Conflict(p) /\ a \in Requests
        /\ Leave(a)
        /\ UNCHANGED <<seen, taskVars, worker, lock>>
     \/ /\ Conflict(p) /\ a = Worker
        /\ WorkerGone
        /\ UNCHANGED <<seen, task>>
  /\ UNCHANGED <<src, last>>

-----------------------------------------------------------------------------
(* Creating tasks                                                          *)

BeginCreate(a) ==
  /\ a \in Requests /\ pc[a] = "idle" /\ Goes(a)
  /\ Goto(a, "creating")
  /\ UNCHANGED <<src, last, seen, taskVars, worker, listed, plan, lock>>

\* Mutant: the link is not looked at.
WantsAnyTask == seen.st = "stable"

WantsTask == seen.st = "stable" /\ seen.task = NoTask

\* SELECT ... FOR UPDATE SKIP LOCKED.
LockRow(a) ==
  /\ pc[a] = "creating" /\ Goes(a)
  /\ \/ /\ WantsTask /\ lock = NoActor
        /\ lock' = a
        /\ Goto(a, "checking")
     \/ /\ ~(WantsTask /\ lock = NoActor)
        /\ Goto(a, "idle")
        /\ UNCHANGED lock
  /\ UNCHANGED <<src, last, seen, taskVars, worker, listed, plan>>

\* The identifier of a row is never used again: nobody knows it.
Unknown(t) ==
  /\ ~Exists(t) /\ phase[t] = "none" /\ seen.task # t
  /\ \A a \in Actors : plan[a].old.task # t /\ plan[a].new.task # t /\ plan[a].kill # t

\* The checksums are compared and the transaction commits: a task and the
\* link to it.
CreateTask(a) ==
  /\ pc[a] = "checking" /\ Goes(a)
  /\ \E t \in Tasks :
       /\ Unknown(t)
       /\ task' = [task EXCEPT ![t] = [st |-> "pending", ver |-> seen.ver]]
       /\ seen' = [seen EXCEPT !.st = "queued", !.task = t]
  /\ lock' = NoActor
  /\ Goto(a, "idle")
  /\ UNCHANGED <<src, last, phase, worker, listed, plan>>

\* No task: the target is already there, the binding or its connections are
\* not usable, or the comparison raises and nothing is committed.
CreateNone(a) ==
  /\ pc[a] = "checking" /\ Goes(a)
  /\ \/ \E st \in {"completed", "failed"} : seen' = [seen EXCEPT !.st = st]
     \/ UNCHANGED seen
  /\ lock' = NoActor
  /\ Goto(a, "idle")
  /\ UNCHANGED <<src, last, taskVars, worker, listed, plan>>

-----------------------------------------------------------------------------
(* The life of a task, as far as scans depend on it                        *)

Idle == worker = "up" /\ pc[Worker] = "idle" /\ \A t \in Tasks : phase[t] = "none"

Claim ==
  /\ Idle
  /\ \E S \in SUBSET {t \in Tasks : task[t].st = "pending"} :
       /\ S # {}
       /\ task' = [t \in Tasks |-> IF t \in S THEN [task[t] EXCEPT !.st = "running"] ELSE task[t]]
       /\ phase' = [t \in Tasks |-> IF t \in S THEN "copying" ELSE "none"]
  /\ UNCHANGED <<src, last, seen, worker, pc, listed, plan, lock>>

\* A thread commits its next status over whatever the row has become.
Advance(t) ==
  /\ phase[t] \in {"copying", "removing"} /\ Exists(t)
  /\ task' = [task EXCEPT ![t].st = "running"]
  /\ UNCHANGED <<src, last, seen, phase, worker, pc, listed, plan, lock>>

\* The task and the seen file of its path are completed in one transaction,
\* whichever version the seen file has by now.
Complete(t) ==
  /\ phase[t] = "copying" /\ Exists(t) /\ lock = NoActor
  /\ task' = [task EXCEPT ![t].st = "ended"]
  /\ seen' = [seen EXCEPT !.st = "completed"]
  /\ phase' = [phase EXCEPT ![t] = "copied"]
  /\ UNCHANGED <<src, last, worker, pc, listed, plan, lock>>

\* The cleanup of the source begins, if the binding asks for it.
StartCleanup(t) ==
  /\ phase[t] = "copied" /\ task[t].st = "ended"
  /\ task' = [task EXCEPT ![t].st = "running"]
  /\ phase' = [phase EXCEPT ![t] = "removing"]
  /\ UNCHANGED <<src, last, seen, worker, pc, listed, plan, lock>>

\* A thread ends: its failure, pause or success is in the row.
EndThread(t) ==
  /\ Exists(t)
  /\ \/ /\ phase[t] = "copying"
        /\ \E st \in {"failed", "paused", "ended"} : task' = [task EXCEPT ![t].st = st]
        /\ UNCHANGED src
     \/ phase[t] = "copied" /\ UNCHANGED <<task, src>>
     \/ /\ phase[t] = "removing"
        /\ task' = [task EXCEPT ![t].st = "ended"]
        /\ src' \in {src, 0}
  /\ phase' = [phase EXCEPT ![t] = "none"]
  /\ UNCHANGED <<last, seen, worker, pc, listed, plan, lock>>

\* A thread whose row is gone raises, also from its attempt to record that.
ThreadDies(t) ==
  /\ phase[t] # "none" /\ ~Exists(t)
  /\ WorkerGone
  /\ UNCHANGED <<src, last, seen, task>>

\* What the API does to a task: pause, cancel, resume, retry, and the failure
\* of running tasks by a changed connection.
UserChange(from, to) ==
  \/ from \in {"pending", "running"} /\ to = "paused"
  \/ from \in {"pending", "running", "paused"} /\ to = "ended"
  \/ from \in {"paused", "failed"} /\ to = "pending"
  \/ from = "running" /\ to = "failed"

Change(t) ==
  /\ ApiRuns
  /\ \E st \in TaskStatus :
       /\ UserChange(task[t].st, st)
       /\ task' = [task EXCEPT ![t].st = st]
  /\ UNCHANGED <<src, last, seen, phase, worker, pc, listed, plan, lock>>

\* Deleting a task clears the link to it, by its value.
Delete(t) ==
  /\ ApiRuns
  /\ task[t].st \notin {"absent", "running"}
  /\ task' = [task EXCEPT ![t].st = "absent"]
  /\ seen' = [seen EXCEPT !.task = IF @ = t THEN NoTask ELSE @]
  /\ UNCHANGED <<src, last, phase, worker, pc, listed, plan, lock>>

-----------------------------------------------------------------------------
(* Faults and the environment                                              *)

\* The worker is killed.
WorkerStops ==
  /\ worker = "up"
  /\ WorkerGone
  /\ UNCHANGED <<src, last, seen, task>>

WorkerStarts ==
  /\ worker = "down"
  /\ worker' = "up"
  /\ task' = [t \in Tasks |-> IF task[t].st = "running" THEN [task[t] EXCEPT !.st = "failed"]
                                                        ELSE task[t]]
  /\ UNCHANGED <<src, last, seen, phase, pc, listed, plan, lock>>

\* The API process is restarted; its transactions are rolled back.
ApiStops ==
  /\ \E a \in Requests : pc[a] # "idle"
  /\ pc' = [a \in Actors |-> IF a \in Requests THEN "idle" ELSE pc[a]]
  /\ plan' = [a \in Actors |-> IF a \in Requests THEN NoPlan ELSE plan[a]]
  /\ listed' = [a \in Actors |-> IF a \in Requests THEN 1 ELSE listed[a]]
  /\ lock' = IF lock \in Requests THEN NoActor ELSE lock
  /\ UNCHANGED <<src, last, seen, taskVars, worker>>

Upload ==
  /\ last < MaxVersion
  /\ last' = last + 1
  /\ src' = last + 1
  /\ UNCHANGED <<seen, taskVars, worker, pc, listed, plan, lock>>

-----------------------------------------------------------------------------

ScanStep(a) ==
  \/ BeginScan(a) \/ List(a) \/ ListFails(a)
  \/ \E aged \in BOOLEAN : Upsert(a, aged)
  \/ CallCommit(a) \/ Flush(a)

CreateStep(a) == BeginCreate(a) \/ LockRow(a) \/ CreateTask(a) \/ CreateNone(a)

TaskStep(t) ==
  \/ Advance(t) \/ Complete(t) \/ StartCleanup(t) \/ EndThread(t)
  \/ ThreadDies(t) \/ Change(t) \/ Delete(t)

Step ==
  \/ \E a \in Actors : ScanStep(a) \/ CreateStep(a)
  \/ Claim
  \/ \E t \in Tasks : TaskStep(t)
  \/ WorkerStops \/ WorkerStarts \/ ApiStops \/ Upload

\* updated_at: which scans in flight began before the last write of the row.
Clock ==
  overtaken' = {a \in Actors : pc'[a] \in ScanPC /\ (seen' # seen \/ a \in overtaken)}

Next == Step /\ Clock

Spec == Init /\ [][Next]_vars

-----------------------------------------------------------------------------
(* Properties                                                              *)

\* However a scan, creations in two processes, retries, deletions and restarts
\* interleave, no version of a file has two tasks (two threads would write the
\* same temporary file): the row lock and the condition on the link see to it
\* as long as one process scans.  With two scanners it is refuted: one marks
\* the row stable, the other writes the new version, each only its columns,
\* and the version counts as stable while a scan that will drop the link to
\* its task is still in flight.
OneTaskPerVersion ==
  \A t, u \in Tasks : Exists(t) /\ Exists(u) /\ task[t].ver = task[u].ver => t = u

\* The task a seen file is linked to is the task for the version seen: as long
\* as there is one, nothing new is waiting to be copied.  (It holds within one
\* process; a creation that ends between the reading and the commit of a scan
\* in another one links the old task to the new version.)
LinkedIsSeen ==
  seen.task # NoTask => task[seen.task].ver = seen.ver

-----------------------------------------------------------------------------
(* Inductive invariants, for one scanner                                   *)

\* No task is newer than the seen version, and the one of that version is linked.
TaskInv ==
  \A t \in Tasks : Exists(t) =>
    /\ seen.st # "absent"
    /\ task[t].ver <= seen.ver
    /\ task[t].ver = seen.ver => t = seen.task

\* Whoever compares checksums holds the row, and nobody changes it meanwhile.
LockInv ==
  /\ \A a \in Actors : pc[a] = "checking" <=> lock = a
  /\ lock # NoActor => WantsTask

\* What the scanner has listed is not older than the row, and the version of
\* the row is still the one it has read; it drops the link only for a newer one.
PlanInv ==
  /\ src \in {0, last} /\ seen.ver <= last
  /\ \A a \in Actors : pc[a] \in ScanPC => a = Worker
  /\ pc[Worker] \in ScanPC \ {"listing"} =>
       listed[Worker] <= last /\ (seen.st # "absent" => seen.ver <= listed[Worker])
  /\ pc[Worker] \in {"computed", "flushing"} =>
       LET p == plan[Worker] IN
         /\ p.new.ver <= last /\ p.new.st # "absent"
         /\ p.old.st = "absent" <=> seen.st = "absent"
         /\ p.old.st # "absent" =>
              /\ p.old.ver = seen.ver
              /\ p.new.ver >= p.old.ver
              /\ p.new.ver = p.old.ver => p.new.task = p.old.task

\* Without requests beside it, all that can happen to the link while a scan is
\* in flight is that it is cleared; a new version is written without a link.
LinkInv ==
  /\ LinkedIsSeen
  /\ pc[Worker] \in {"computed", "flushing"} =>
       LET p == plan[Worker] IN
         /\ p.old.st # "absent" => seen.task \in {p.old.task, NoTask}
         /\ p.old.st = "absent" \/ p.new.ver # p.old.ver => p.new.task = NoTask

-----------------------------------------------------------------------------
(* Liveness                                                                *)

\* The worker's loop goes round, every interval it scans, the share answers
\* again and again, a row is scanned again after stable_seconds, the binding
\* is usable and the checksums come out again and again.
Fairness ==
  /\ SF_vars(BeginScan(Worker) /\ Clock)
  /\ SF_vars(List(Worker) /\ Clock)
  /\ SF_vars(Upsert(Worker, TRUE) /\ Clock)
  /\ WF_vars((Upsert(Worker, FALSE) \/ CallCommit(Worker) \/ Flush(Worker) \/ LockRow(Worker)) /\ Clock)
  /\ SF_vars(CreateTask(Worker) /\ Clock)
  /\ \A t \in Tasks : WF_vars((EndThread(t) \/ ThreadDies(t)) /\ Clock)

FairSpec == Spec /\ Fairness

Tasked(v) == \E t \in Tasks : Exists(t) /\ task[t].ver = v

\* The newest version of a file gets a task, unless it is found at the target
\* or disappears; also when a task for an older version is in its way.
NewestIsTasked ==
  src = MaxVersion ~>
    \/ Tasked(MaxVersion) \/ seen = [st |-> "completed", ver |-> MaxVersion, task |-> seen.task]
    \/ src = 0 \/ worker = "down"
=============================================================================

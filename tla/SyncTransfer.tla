---------------------------- MODULE SyncTransfer ----------------------------
(***************************************************************************)
(* Moving one file from a remote SMB share into a local library: the tasks *)
(* that successive scans create for it, the worker threads that execute    *)
(* them, the API requests and the connection update that change their rows *)
(* meanwhile, and the three files on the shares (source, temporary, final  *)
(* target).                                                                *)
(*                                                                         *)
(* The database runs READ COMMITTED and no row carries a version: a        *)
(* request reads a row, decides, and commits later whatever it decided.    *)
(* Every such read and every such commit is an action of its own here, and *)
(* a commit writes only the columns that differ from what was loaded       *)
(* (Flush).  Reading an instance that a commit expired loads it again.     *)
(*                                                                         *)
(* Bounds: Tasks (rows that can exist at once), MaxVersion (times the      *)
(* source is uploaded), Clients (API requests in flight), one retry of the *)
(* cleanup of a task at a time, MaxStale (see Reconcile).                  *)
(***************************************************************************)
EXTENDS TransferStates, Integers, Sequences, FiniteSets

CONSTANTS
  Tasks,          \* rows of transfer_tasks for this source file
  Clients,        \* concurrent API requests
  MaxVersion,     \* the source is uploaded as versions 1..MaxVersion
  Size,           \* the number of chunks of each version
  Concurrency,    \* worker.concurrency
  DeleteSource,   \* delete_source_after_success of the binding
  Ops,            \* the API operations clients use
  ApiMayCrash,    \* whether the API process may stop in mid-request
  MaxStale,       \* a failing size() is considered up to this temp size
  NoTask

Versions == 1..MaxVersion

AllOps == {"cancel", "pause", "resume", "retry", "delete", "clear",
           "interrupt", "cleanup"}

ASSUME ConstantsAssumption ==
  /\ MaxVersion \in Nat \ {0}
  /\ Size \in [Versions -> Nat \ {0}]
  /\ Concurrency \in Nat \ {0}
  /\ DeleteSource \in BOOLEAN
  /\ ApiMayCrash \in BOOLEAN
  /\ MaxStale \in Nat
  /\ Ops \subseteq AllOps
  /\ NoTask \notin Tasks
  /\ IsFiniteSet(Tasks)

VARIABLES
  row,      \* the committed row of each task and of its file
  ver,      \* the version whose size the task expects (total_bytes)
  seen,     \* the sync_seen_files row of the source
  src,      \* the version at the source path, 0 when there is no file
  last,     \* the newest version uploaded so far
  temp,     \* chunks of <target>.sundarr.downloading, <<>> when absent
  target,   \* chunks of the final file, <<>> when absent
  worker,   \* the worker process: up, failing (a thread raised) or down
  pc,       \* where the worker thread of each task stands
  mem,      \* the instance each worker thread has loaded
  pos,      \* next chunk a copying thread reads, minus one
  exc,      \* the error a failing thread is about to record
  req,      \* the API requests in flight, with the rows they have read
  apc,      \* where a retry of the cleanup stands (runs in the API process)
  amem      \* the instance it has loaded

dbVars     == <<row, ver, seen>>
shareVars  == <<src, last, temp, target>>
threadVars == <<pc, mem, pos, exc>>
apiVars    == <<req, apc, amem>>
vars == <<row, ver, seen, src, last, temp, target, worker, pc, mem, pos, exc,
          req, apc, amem>>

-----------------------------------------------------------------------------
(* Types                                                                   *)

Chunk == [v : Versions, i : Nat]
Contents == Seq(Chunk)

WorkerPC ==
  {"none", "open", "prepare", "start", "stream", "copy", "verify",
   "commitVerifying", "size", "commitRenaming", "rename", "commitCompleted",
   "cleanup", "remove", "cleaned", "cleanFailed", "paused", "cancelled",
   "fail"}

CleanPC == {"none", "cleanup", "remove", "cleaned", "cleanFailed"}

AbsentRow == [st |-> "absent", err |-> "none", fs |-> "pending"]
NewRow    == [st |-> "pending", err |-> "none", fs |-> "pending"]

\* A request: its operation, the tasks it acts on, and the rows it has read.
Idle == [op |-> "idle", on |-> {}, old |-> [t \in Tasks |-> AbsentRow]]

SeenStatus == {"absent", "discovered", "stable", "queued", "completed"}

Request == [op : AllOps \cup {"idle"}, on : SUBSET Tasks, old : [Tasks -> Row]]

TypeOK ==
  /\ row \in [Tasks -> Row]
  /\ ver \in [Tasks -> Versions]
  /\ seen \in [st : SeenStatus, ver : Versions, task : Tasks \cup {NoTask}]
  /\ src \in 0..MaxVersion /\ last \in Versions
  /\ temp \in Contents /\ target \in Contents
  /\ worker \in {"up", "failing", "down"}
  /\ pc \in [Tasks -> WorkerPC]
  /\ mem \in [Tasks -> Row \cup {Expired}]
  /\ pos \in [Tasks -> Nat]
  /\ exc \in [Tasks -> ErrorCode]
  /\ req \in [Clients -> Request]
  /\ apc \in [Tasks -> CleanPC]
  /\ amem \in [Tasks -> Row \cup {Expired}]

\* The complete content of a version.
File(v) == [i \in 1..Size[v] |-> [v |-> v, i |-> i]]

Init ==
  /\ row = [t \in Tasks |-> AbsentRow]
  /\ ver = [t \in Tasks |-> 1]
  /\ seen = [st |-> "absent", ver |-> 1, task |-> NoTask]
  /\ src = 1 /\ last = 1
  /\ temp = <<>> /\ target = <<>>
  /\ worker = "up"
  /\ pc = [t \in Tasks |-> "none"]
  /\ mem = [t \in Tasks |-> Expired]
  /\ pos = [t \in Tasks |-> 0]
  /\ exc = [t \in Tasks |-> "none"]
  /\ req = [c \in Clients |-> Idle]
  /\ apc = [t \in Tasks |-> "none"]
  /\ amem = [t \in Tasks |-> Expired]

Exists(t) == row[t].st # "absent"

-----------------------------------------------------------------------------
(* Scanning and task creation                                              *)

\* One scan that finds the source file.  aged: the seen row has not been
\* touched for stable_seconds.
ScanFile(aged) ==
  LET same    == seen.ver = src
      linked  == seen.task # NoTask
      settled == same /\ aged /\ seen.st \in {"discovered", "stable"}
  IN
  /\ src # 0
  /\ \/ /\ seen.st = "absent"
        /\ seen' = [st |-> "discovered", ver |-> src, task |-> NoTask]
        /\ UNCHANGED row
     \/ /\ seen.st # "absent" /\ settled
        /\ seen' = [seen EXCEPT !.st = "stable"]
        /\ UNCHANGED row
     \/ /\ seen.st # "absent" /\ ~settled
        /\ ~(~same /\ linked /\ row[seen.task].st \in ActiveSyncStatuses)
        /\ row' = IF ~same /\ linked /\ row[seen.task].st = "pending"
                  THEN [row EXCEPT ![seen.task].st = "failed",
                                   ![seen.task].err = "SYNC_SOURCE_CHANGED"]
                  ELSE row
        /\ seen' = [st   |-> IF seen.st = "stable" /\ same THEN "stable" ELSE "discovered",
                    ver  |-> src,
                    task |-> IF same THEN seen.task ELSE NoTask]
  /\ UNCHANGED <<ver, shareVars, worker, threadVars, apiVars>>

\* Whether the target is what would be copied: same size as the seen file and
\* same checksum as the source.
TargetAlreadyCompleted ==
  src # 0 /\ Len(target) = Size[seen.ver] /\ target = File(src)

\* create_tasks for a stable seen file without a task.  The identifier of a
\* row is never used again, so t may not be known to any thread or request.
\* A storage error in the comparison counts as "not completed".
CreateTask(t) ==
  /\ seen.st = "stable" /\ seen.task = NoTask
  /\ \/ /\ TargetAlreadyCompleted
        /\ seen' = [seen EXCEPT !.st = "completed"]
        /\ UNCHANGED <<row, ver>>
     \/ /\ ~Exists(t) /\ pc[t] = "none" /\ apc[t] = "none"
        /\ \A c \in Clients : t \notin req[c].on
        /\ row' = [row EXCEPT ![t] = NewRow]
        /\ ver' = [ver EXCEPT ![t] = seen.ver]
        /\ seen' = [seen EXCEPT !.st = "queued", !.task = t]
  /\ UNCHANGED <<shareVars, worker, threadVars, apiVars>>

-----------------------------------------------------------------------------
(* The worker: claiming, its threads, its end and its restart              *)

\* Mutant: a slot always stays free.
ClaimLess ==
  /\ worker = "up" /\ \A t \in Tasks : pc[t] = "none"
  /\ \E t \in Tasks :
       /\ row[t].st = "pending"
       /\ Concurrency - Cardinality({u \in Tasks : row[u].st \in RunningStatuses}) > 1
       /\ row' = [row EXCEPT ![t].st = "downloading"]
       /\ pc' = [pc EXCEPT ![t] = "open"]
  /\ UNCHANGED <<ver, seen, shareVars, worker, mem, pos, exc, apiVars>>

\* The worker claims only when every thread of the previous batch has ended.
\* Which pending rows are taken (the oldest first) is left open.
ClaimPending ==
  LET running  == {t \in Tasks : row[t].st \in RunningStatuses}
      pending  == {t \in Tasks : row[t].st = "pending"}
      capacity == Concurrency - Cardinality(running)
  IN
  /\ worker = "up"
  /\ \A t \in Tasks : pc[t] = "none"
  /\ capacity > 0 /\ pending # {}
  /\ \E S \in SUBSET pending :
       /\ S # {}
       /\ Cardinality(S) <= capacity
       /\ S = pending \/ Cardinality(S) = capacity
       /\ row' = [t \in Tasks |-> IF t \in S THEN [row[t] EXCEPT !.st = "downloading"]
                                             ELSE row[t]]
       /\ pc' = [t \in Tasks |-> IF t \in S THEN "open" ELSE pc[t]]
  /\ UNCHANGED <<ver, seen, shareVars, worker, mem, pos, exc, apiVars>>

\* A thread ends; what it had loaded goes with its session.
End(t) ==
  /\ pc' = [pc EXCEPT ![t] = "none"]
  /\ mem' = [mem EXCEPT ![t] = Expired]
  /\ pos' = [pos EXCEPT ![t] = 0]
  /\ exc' = [exc EXCEPT ![t] = "none"]

Goto(t, label) == pc' = [pc EXCEPT ![t] = label]

\* An UPDATE or a reload of a row that has been deleted raises, and so does
\* the attempt to record that as a failure: the exception leaves the thread,
\* gather passes it on, and the worker process ends.
Dies(t) ==
  /\ End(t)
  /\ worker' = "failing"
  /\ UNCHANGED <<dbVars, shareVars, apiVars>>

Raise(t, code) ==
  /\ Goto(t, "fail")
  /\ exc' = [exc EXCEPT ![t] = code]
  /\ pos' = [pos EXCEPT ![t] = 0]

\* Commit the instance new over what thread t had loaded, and expire it.
Commit(t, new) ==
  /\ row' = [row EXCEPT ![t] = Flush(@, mem[t], new)]
  /\ mem' = [mem EXCEPT ![t] = Expired]

\* What an attribute of the instance reads as: an expired one is loaded.
Loaded(t) == IF mem[t] = Expired THEN row[t] ELSE mem[t]

\* _check_task_state: the committed status decides.  Only cancelled and paused
\* stop the thread; a missing row (None) and every other status do not.
Stopped(t) == row[t].st \in {"cancelled", "paused"}

\* Reading an attribute of an expired instance whose row is gone raises.
Reloads(t) == mem[t] = Expired => Exists(t)

Stop(t) ==
  /\ Stopped(t)
  /\ Goto(t, row[t].st)
  /\ mem' = [mem EXCEPT ![t] = Loaded(t)]
  /\ pos' = [pos EXCEPT ![t] = 0]
  /\ UNCHANGED <<dbVars, shareVars, worker, exc, apiVars>>

-----------------------------------------------------------------------------
(* The steps of a worker thread                                            *)

\* The session loads the task; a deleted or cancelled one is not worked on.
Open(t) ==
  /\ pc[t] = "open"
  /\ \/ /\ row[t].st \in {"absent", "cancelled"}
        /\ End(t)
     \/ /\ row[t].st \notin {"absent", "cancelled"}
        /\ Goto(t, "prepare")
        /\ mem' = [mem EXCEPT ![t] = row[t]]
        /\ UNCHANGED <<pos, exc>>
  /\ UNCHANGED <<dbVars, shareVars, worker, apiVars>>

\* The state check and the comparison of the temporary file with the expected
\* size: a longer file is truncated, otherwise copying resumes at its end.
\* When size() fails on an existing file its size counts as 0 (nothing is
\* truncated); exists() and truncate() may fail and end the attempt.
Reconcile(t) ==
  /\ ~Stopped(t)
  /\ \/ /\ Goto(t, "start")
        /\ \/ /\ Len(temp) > Size[ver[t]]
              /\ temp' = <<>>
              /\ pos' = [pos EXCEPT ![t] = 0]
           \/ /\ Len(temp) <= Size[ver[t]]
              /\ pos' = [pos EXCEPT ![t] = Len(temp)]
              /\ UNCHANGED temp
           \/ /\ Len(temp) \in 1..MaxStale
              /\ pos' = [pos EXCEPT ![t] = 0]
              /\ UNCHANGED temp
        /\ UNCHANGED exc
     \/ /\ \E code \in {"SMB_HOST_UNREACHABLE", "SMB_CONNECT_FAILED"} : Raise(t, code)
        /\ UNCHANGED temp
  /\ UNCHANGED <<dbVars, src, last, target, worker, mem, apiVars>>

Prepare(t) ==
  /\ pc[t] = "prepare"
  /\ Reconcile(t) \/ Stop(t)

\* task.status = downloading reaches the database only if something else was
\* loaded; the file's status likewise.
StartCopy(t) ==
  /\ pc[t] = "start"
  /\ \/ /\ Exists(t)
        /\ Commit(t, [mem[t] EXCEPT !.st = "downloading", !.fs = "downloading"])
        /\ Goto(t, "stream")
        /\ UNCHANGED <<ver, seen, shareVars, worker, pos, exc, apiVars>>
     \/ ~Exists(t) /\ Dies(t)

\* Opening the source at the offset, and the temporary file for appending.
OpenStreams(t) ==
  /\ pc[t] = "stream"
  /\ \/ /\ Exists(t)
        /\ mem' = [mem EXCEPT ![t] = row[t]]
        /\ \/ src # 0 /\ Goto(t, "copy") /\ UNCHANGED <<pos, exc>>
           \/ src = 0 /\ Raise(t, "SMB_PATH_NOT_FOUND")
           \/ \E code \in {"SMB_HOST_UNREACHABLE", "SMB_CONNECT_FAILED"} : Raise(t, code)
        /\ UNCHANGED <<dbVars, shareVars, worker, apiVars>>
     \/ ~Exists(t) /\ Dies(t)

\* Mutant: a failing write is skipped.
CopyChunkOrSkip(t) ==
  /\ pc[t] = "copy" /\ ~Stopped(t) /\ Exists(t)
  /\ src # 0 /\ pos[t] < Size[src]
  /\ temp' \in {temp, Append(temp, [v |-> src, i |-> pos[t] + 1])}
  /\ pos' = [pos EXCEPT ![t] = @ + 1]
  /\ mem' = [mem EXCEPT ![t] = Loaded(t)]
  /\ UNCHANGED <<dbVars, src, last, target, worker, pc, exc, apiVars>>

\* One chunk: check the state, read, append, and sometimes commit the counters
\* (an UPDATE that leaves the status alone but expires the instance).
CopyChunk(t) ==
  /\ pc[t] = "copy" /\ ~Stopped(t) /\ Reloads(t)
  /\ \/ /\ src # 0 /\ pos[t] < Size[src]
        /\ temp' = Append(temp, [v |-> src, i |-> pos[t] + 1])
        /\ pos' = [pos EXCEPT ![t] = @ + 1]
        /\ \/ mem' = [mem EXCEPT ![t] = Loaded(t)]
           \/ Exists(t) /\ mem' = [mem EXCEPT ![t] = Expired]
        /\ UNCHANGED <<pc, exc>>
     \/ /\ Raise(t, "WORKER_TRANSFER_FAILED")
        /\ mem' = [mem EXCEPT ![t] = Loaded(t)]
        /\ UNCHANGED temp
  /\ UNCHANGED <<dbVars, src, last, target, worker, apiVars>>

\* The source has no more chunks: the counters are committed.
EndOfSource(t) ==
  /\ pc[t] = "copy" /\ ~Stopped(t) /\ Exists(t)
  /\ src # 0 /\ pos[t] >= Size[src]
  /\ Goto(t, "verify")
  /\ mem' = [mem EXCEPT ![t] = Expired]
  /\ pos' = [pos EXCEPT ![t] = 0]
  /\ UNCHANGED <<dbVars, shareVars, worker, exc, apiVars>>

\* The row was deleted under a copying thread: it dies at its next reload or
\* at the next commit of the counters.
CopyWithoutRow(t) ==
  /\ pc[t] = "copy" /\ ~Exists(t)
  /\ \/ mem[t] = Expired
     \/ src # 0
  /\ Dies(t)

Copy(t) == CopyChunk(t) \/ EndOfSource(t) \/ CopyWithoutRow(t) \/ (pc[t] = "copy" /\ Stop(t))

\* A state check on an expired instance; next is where the thread goes on.
CheckState(t, next) ==
  \/ /\ Exists(t) /\ ~Stopped(t)
     /\ Goto(t, next)
     /\ mem' = [mem EXCEPT ![t] = Loaded(t)]
     /\ UNCHANGED <<dbVars, shareVars, worker, pos, exc, apiVars>>
  \/ Stop(t)
  \/ ~Exists(t) /\ Dies(t)

CheckBeforeVerify(t) == pc[t] = "verify" /\ CheckState(t, "commitVerifying")

CommitVerifying(t) ==
  /\ pc[t] = "commitVerifying"
  /\ \/ /\ Exists(t)
        /\ Commit(t, [mem[t] EXCEPT !.st = "verifying", !.fs = "verified"])
        /\ Goto(t, "size")
        /\ UNCHANGED <<ver, seen, shareVars, worker, pos, exc, apiVars>>
     \/ ~Exists(t) /\ Dies(t)

\* The size of the temporary file decides; then the state is checked again.
CheckSize(t) ==
  /\ pc[t] = "size"
  /\ \/ /\ Len(temp) = Size[ver[t]]
        /\ CheckState(t, "commitRenaming")
     \/ /\ Exists(t)
        /\ \/ temp = <<>> /\ Raise(t, "STORAGE_PATH_NOT_FOUND")
           \/ temp # <<>> /\ Len(temp) # Size[ver[t]] /\ Raise(t, "SIZE_MISMATCH")
           \/ \E code \in {"SMB_HOST_UNREACHABLE", "SMB_CONNECT_FAILED"} : Raise(t, code)
        /\ mem' = [mem EXCEPT ![t] = row[t]]
        /\ UNCHANGED <<dbVars, shareVars, worker, apiVars>>
     \/ ~Exists(t) /\ Dies(t)

\* Mutant: the task is completed before the file is renamed.
CommitRenamingEarly(t) ==
  /\ pc[t] = "commitRenaming" /\ Exists(t)
  /\ Commit(t, [mem[t] EXCEPT !.st = "completed"])
  /\ Goto(t, "rename")
  /\ UNCHANGED <<ver, seen, shareVars, worker, pos, exc, apiVars>>

CommitRenaming(t) ==
  /\ pc[t] = "commitRenaming"
  /\ \/ /\ Exists(t)
        /\ Commit(t, [mem[t] EXCEPT !.st = "renaming"])
        /\ Goto(t, "rename")
        /\ UNCHANGED <<ver, seen, shareVars, worker, pos, exc, apiVars>>
     \/ ~Exists(t) /\ Dies(t)

\* Mutant: an error of rename() is swallowed.
RenameSwallowed(t) ==
  /\ pc[t] = "rename" /\ Exists(t)
  /\ \/ target = <<>> /\ temp # <<>> /\ target' = temp /\ temp' = <<>>
     \/ UNCHANGED <<target, temp>>
  /\ Goto(t, "commitCompleted")
  /\ UNCHANGED <<dbVars, src, last, worker, mem, pos, exc, apiVars>>

\* SmbWriter.rename refuses an existing target.  A failing attempt may have
\* renamed the file all the same: its repetition then finds the target, or
\* fails again.
Rename(t) ==
  /\ pc[t] = "rename"
  /\ \/ /\ Exists(t) /\ target = <<>> /\ temp # <<>>
        /\ target' = temp /\ temp' = <<>>
        /\ \/ Goto(t, "commitCompleted") /\ UNCHANGED <<pos, exc>>
           \/ \E code \in {"TARGET_EXISTS", "SMB_RENAME_FAILED"} : Raise(t, code)
        /\ UNCHANGED <<dbVars, src, last, worker, mem, apiVars>>
     \/ /\ Exists(t)
        /\ \/ target # <<>> /\ Raise(t, "TARGET_EXISTS")
           \/ Raise(t, "SMB_RENAME_FAILED")
        /\ UNCHANGED <<dbVars, shareVars, worker, mem, apiVars>>
     \/ ~Exists(t) /\ Dies(t)

\* The completion of task, file and seen file in one transaction.
CommitCompleted(t) ==
  /\ pc[t] = "commitCompleted"
  /\ \/ /\ Exists(t)
        /\ Commit(t, [mem[t] EXCEPT !.st = "completed", !.fs = "completed"])
        /\ seen' = [seen EXCEPT !.st = "completed"]
        /\ Goto(t, "cleanup")
        /\ UNCHANGED <<ver, shareVars, worker, pos, exc, apiVars>>
     \/ ~Exists(t) /\ Dies(t)

\* Mutant: a failing thread ends without recording the failure.
EndSilently(t) ==
  /\ pc[t] = "fail" /\ End(t)
  /\ UNCHANGED <<dbVars, shareVars, worker, apiVars>>

\* _mark_task_failed: whatever the row has become, the failure is recorded.
MarkFailed(t) ==
  /\ pc[t] = "fail"
  /\ \/ /\ Exists(t)
        /\ row' = [row EXCEPT ![t] =
             Flush(@, mem[t], [st  |-> "failed", err |-> exc[t],
                               fs  |-> FailFile(@, mem[t])])]
        /\ End(t)
        /\ UNCHANGED <<ver, seen, shareVars, worker, apiVars>>
     \/ ~Exists(t) /\ Dies(t)

\* The worker confirms the pause it has seen.
ConfirmPaused(t) ==
  /\ pc[t] = "paused"
  /\ \/ /\ Exists(t)
        /\ row' = [row EXCEPT ![t] = Flush(@, mem[t], [mem[t] EXCEPT !.st = "paused"])]
        /\ End(t)
        /\ UNCHANGED <<ver, seen, shareVars, worker, apiVars>>
     \/ ~Exists(t) /\ Dies(t)

\* Mutant: the file removed is the target.
EndCancelledTarget(t) ==
  /\ pc[t] = "cancelled" /\ End(t) /\ target' = <<>>
  /\ UNCHANGED <<dbVars, src, last, temp, worker, apiVars>>

\* A cancelled thread removes the temporary file if its file row is still
\* unfinished (removal errors are swallowed); nothing is committed.
EndCancelled(t) ==
  /\ pc[t] = "cancelled"
  /\ End(t)
  /\ \/ /\ Exists(t) /\ row[t].fs \in UnfinishedFileStatuses
        /\ temp' = <<>>
     \/ UNCHANGED temp
  /\ UNCHANGED <<dbVars, src, last, target, worker, apiVars>>

-----------------------------------------------------------------------------
(* Source cleanup, by the worker thread or by a retry in the API process   *)

\* The row cleanup_sync_source leaves behind: the assignments after success,
\* and those of its except branch.
Cleaned(old) == [old EXCEPT !.st = "completed", !.err = "none"]
NotCleaned(old) == [old EXCEPT !.st = "completed", !.err = "SYNC_SOURCE_DELETE_FAILED"]

MayClean(t) == row[t].st = "completed" /\ DeleteSource

\* exists() and remove() of the source; either may fail, remove() possibly
\* after the file is gone.
RemoveOrFail(ok, failed) ==
  \/ ok /\ src' = 0
  \/ failed /\ src' \in {src, 0}

StartCleanup(t) ==
  /\ pc[t] = "cleanup"
  /\ \/ /\ MayClean(t)
        /\ row' = [row EXCEPT ![t].st = "cleaning_source"]
        /\ mem' = [mem EXCEPT ![t] = row'[t]]
        /\ Goto(t, "remove")
        /\ UNCHANGED <<ver, seen, shareVars, worker, pos, exc, apiVars>>
     \/ /\ Exists(t) /\ ~MayClean(t)
        /\ End(t)
        /\ UNCHANGED <<dbVars, shareVars, worker, apiVars>>
     \/ ~Exists(t) /\ Dies(t)

RemoveSource(t) ==
  /\ pc[t] = "remove"
  /\ RemoveOrFail(Goto(t, "cleaned"), Goto(t, "cleanFailed"))
  /\ UNCHANGED <<dbVars, last, temp, target, worker, mem, pos, exc, apiVars>>

FinishCleanup(t) ==
  /\ pc[t] \in {"cleaned", "cleanFailed"}
  /\ \/ /\ Exists(t)
        /\ row' = [row EXCEPT ![t] = Flush(@, mem[t],
             IF pc[t] = "cleaned" THEN Cleaned(mem[t]) ELSE NotCleaned(mem[t]))]
        /\ End(t)
        /\ UNCHANGED <<ver, seen, shareVars, worker, apiVars>>
     \/ ~Exists(t) /\ Dies(t)

\* The request of POST /transfers/{id}/retry-cleanup ends, with or without an
\* error response; an exception here stays in the API process.
EndApiCleanup(t) ==
  /\ apc' = [apc EXCEPT ![t] = "none"]
  /\ amem' = [amem EXCEPT ![t] = Expired]

ApiStartCleanup(t) ==
  /\ apc[t] = "cleanup"
  /\ \/ /\ row[t].err = "SYNC_SOURCE_DELETE_FAILED" /\ MayClean(t)
        /\ row' = [row EXCEPT ![t].st = "cleaning_source"]
        /\ amem' = [amem EXCEPT ![t] = row'[t]]
        /\ apc' = [apc EXCEPT ![t] = "remove"]
     \/ /\ ~(row[t].err = "SYNC_SOURCE_DELETE_FAILED" /\ MayClean(t))
        /\ EndApiCleanup(t)
        /\ UNCHANGED row
  /\ UNCHANGED <<ver, seen, shareVars, worker, threadVars, req>>

ApiRemoveSource(t) ==
  /\ apc[t] = "remove"
  /\ RemoveOrFail(apc' = [apc EXCEPT ![t] = "cleaned"],
                  apc' = [apc EXCEPT ![t] = "cleanFailed"])
  /\ UNCHANGED <<dbVars, last, temp, target, worker, threadVars, req, amem>>

ApiFinishCleanup(t) ==
  /\ apc[t] \in {"cleaned", "cleanFailed"}
  /\ row' = IF Exists(t)
            THEN [row EXCEPT ![t] = Flush(@, amem[t],
                    IF apc[t] = "cleaned" THEN Cleaned(amem[t]) ELSE NotCleaned(amem[t]))]
            ELSE row
  /\ EndApiCleanup(t)
  /\ UNCHANGED <<ver, seen, shareVars, worker, threadVars, req>>

-----------------------------------------------------------------------------
(* API requests: read and decide, then commit                              *)

\* What each operation requires of the row it has read.
Allowed(op, r) ==
  CASE op = "cancel"    -> r.st \in CancellableStatuses
    [] op = "pause"     -> r.st \in PausableStatuses
    [] op = "resume"    -> r.st = "paused"
    [] op = "retry"     -> r.st = "failed" /\ r.err \in RetryableErrors
    [] op = "delete"    -> r.st \notin UndeletableStatuses \cup {"absent"}
    [] op = "clear"     -> r.st \in ClearableStatuses
    [] op = "interrupt" -> r.st \in RunningStatuses
    [] op = "cleanup"   -> r.st = "completed" /\ r.err \in CleanupErrors

\* What it assigns to the instance it has loaded as r.
Assigned(op, r) ==
  CASE op = "cancel"    -> [st  |-> "cancelled", err |-> "TASK_CANCELLED",
                            fs  |-> IF r.fs \in UnfinishedFileStatuses
                                    THEN "cancelled" ELSE r.fs]
    [] op = "pause"     -> [r EXCEPT !.st = "paused"]
    [] op = "resume"    -> [r EXCEPT !.st = "pending"]
    [] op = "retry"     -> [r EXCEPT !.st = "pending", !.err = "none"]
    [] op = "interrupt" -> [r EXCEPT !.st = "failed", !.err = "STORAGE_CONFIG_CHANGED"]

\* clear_completed and a changed connection act on every row that qualifies,
\* the other operations on one task.
Targets(op, t) ==
  IF op \in {"clear", "interrupt"} THEN {u \in Tasks : Allowed(op, row[u])} ELSE {t}

ReadRequest(c, op, t) ==
  /\ req[c] = Idle
  /\ op \in Ops
  /\ Allowed(op, row[t])
  /\ LET on == Targets(op, t) IN
       req' = [req EXCEPT ![c] =
         [op |-> op, on |-> on,
          old |-> [u \in Tasks |-> IF u \in on THEN row[u] ELSE AbsentRow]]]
  /\ UNCHANGED <<dbVars, shareVars, worker, threadVars, apc, amem>>

\* One transaction: it fails as a whole when a row to be updated is gone.
CommitUpdate(c) ==
  LET op == req[c].op  on == req[c].on  old == req[c].old IN
  /\ op \in {"cancel", "pause", "resume", "retry", "interrupt"}
  /\ row' = IF \A t \in on : Exists(t)
            THEN [t \in Tasks |-> IF t \in on
                                  THEN Flush(row[t], old[t], Assigned(op, old[t]))
                                  ELSE row[t]]
            ELSE row
  /\ req' = [req EXCEPT ![c] = Idle]
  /\ UNCHANGED <<ver, seen, shareVars, worker, threadVars, apc, amem>>

\* The DELETE goes by primary key, whatever the status has become.
CommitDelete(c) ==
  LET gone == req[c].on IN
  /\ req[c].op \in {"delete", "clear"}
  /\ row' = [t \in Tasks |-> IF t \in gone THEN AbsentRow ELSE row[t]]
  /\ seen' = [seen EXCEPT !.task = IF @ \in gone THEN NoTask ELSE @]
  /\ req' = [req EXCEPT ![c] = Idle]
  /\ UNCHANGED <<ver, shareVars, worker, threadVars, apc, amem>>

\* retry_count is committed, then the cleanup runs in the same request.
CommitRetryCleanup(c) ==
  /\ req[c].op = "cleanup"
  /\ \E t \in req[c].on :
       \/ /\ Exists(t) /\ apc[t] = "none"
          /\ apc' = [apc EXCEPT ![t] = "cleanup"]
       \/ ~Exists(t) /\ UNCHANGED apc
  /\ req' = [req EXCEPT ![c] = Idle]
  /\ UNCHANGED <<dbVars, shareVars, worker, threadVars, amem>>

-----------------------------------------------------------------------------
(* Faults and the environment                                              *)

Reset == /\ pc' = [t \in Tasks |-> "none"]
         /\ mem' = [t \in Tasks |-> Expired]
         /\ pos' = [t \in Tasks |-> 0]
         /\ exc' = [t \in Tasks |-> "none"]

\* The process is killed, or ends because a thread raised and all have ended.
WorkerStops ==
  /\ worker # "down"
  /\ worker' = "down"
  /\ Reset
  /\ UNCHANGED <<dbVars, shareVars, apiVars>>

\* At startup every running row is failed, whoever was working on it.
RecoverRunning ==
  /\ worker = "down"
  /\ worker' = "up"
  /\ row' = [t \in Tasks |-> RecoveredRow(row[t])]
  /\ UNCHANGED <<ver, seen, shareVars, threadVars, apiVars>>

\* The API process stops: requests vanish between two of their steps.
ApiStops ==
  /\ ApiMayCrash
  /\ \/ \E c \in Clients : req[c] # Idle
     \/ \E t \in Tasks : apc[t] # "none"
  /\ req' = [c \in Clients |-> Idle]
  /\ apc' = [t \in Tasks |-> "none"]
  /\ amem' = [t \in Tasks |-> Expired]
  /\ UNCHANGED <<dbVars, shareVars, worker, threadVars>>

\* Somebody uploads a new version of the file, over the old one or anew.
UploadSource ==
  /\ last < MaxVersion
  /\ last' = last + 1
  /\ src' = last + 1
  /\ UNCHANGED <<dbVars, temp, target, worker, threadVars, apiVars>>

-----------------------------------------------------------------------------

WorkerStep(t) ==
  \/ Open(t) \/ Prepare(t) \/ StartCopy(t) \/ OpenStreams(t) \/ Copy(t)
  \/ CheckBeforeVerify(t) \/ CommitVerifying(t) \/ CheckSize(t)
  \/ CommitRenaming(t) \/ Rename(t) \/ CommitCompleted(t)
  \/ StartCleanup(t) \/ RemoveSource(t) \/ FinishCleanup(t)
  \/ MarkFailed(t) \/ ConfirmPaused(t) \/ EndCancelled(t)

ApiCleanupStep(t) == ApiStartCleanup(t) \/ ApiRemoveSource(t) \/ ApiFinishCleanup(t)

CommitRequest(c) == CommitUpdate(c) \/ CommitDelete(c) \/ CommitRetryCleanup(c)

Next ==
  \/ \E aged \in BOOLEAN : ScanFile(aged)
  \/ \E t \in Tasks : CreateTask(t)
  \/ ClaimPending
  \/ \E t \in Tasks : WorkerStep(t)
  \/ \E t \in Tasks : ApiCleanupStep(t)
  \/ \E c \in Clients, op \in AllOps, t \in Tasks : ReadRequest(c, op, t)
  \/ \E c \in Clients : CommitRequest(c)
  \/ WorkerStops \/ RecoverRunning \/ ApiStops \/ UploadSource

Spec == Init /\ [][Next]_vars

-----------------------------------------------------------------------------
(* Properties                                                              *)

\* A row in a running status is being worked on: by a worker thread, or by a
\* retry of its cleanup; otherwise the worker is down and its next start will
\* recover the row.  Such a row occupies a slot of worker.concurrency, so one
\* that nobody works on would shrink the worker for ever.  (An API process that
\* stops in the middle of a retry of the cleanup does leave one behind.)
NoOrphanRunning ==
  \A t \in Tasks :
    row[t].st \in RunningStatuses \ (IF ApiMayCrash THEN {"cleaning_source"} ELSE {}) =>
      worker = "down" \/ pc[t] # "none" \/ apc[t] # "none"

\* The last copy is never deleted: no removal of the source (by a worker, by a
\* retry of the cleanup) comes before a target file stands in its place, in
\* whatever order requests, crashes and retries change the rows.
SourceOrTarget == src = 0 => target # <<>>

\* A task reported as completed, or cleaning its source, has its target.
CompletedHasTarget ==
  \A t \in Tasks :
    row[t].st \in {"completed", "cleaning_source"} => target # <<>>

\* As long as the source is uploaded only once, the target is the complete
\* file: no sequence of pauses, failures, crashes, truncations and resumptions
\* at an offset leaves a gap or a repetition that the size check lets pass.
TargetIsWhole ==
  last = 1 /\ target # <<>> => target = File(1)

-----------------------------------------------------------------------------
(* Inductive invariants                                                    *)

\* Why no copy is lost: whoever may still remove the source, or has been told
\* that the task is completed, stands behind a successful rename.
PastRename(t) ==
  \/ row[t].st \in {"completed", "cleaning_source"}
  \/ pc[t] \in {"commitCompleted", "cleanup", "remove", "cleaned", "cleanFailed"}
  \/ apc[t] \in {"remove", "cleaned", "cleanFailed"}

DataInv ==
  /\ SourceOrTarget
  /\ \A t \in Tasks : PastRename(t) => target # <<>>

\* A running row that no worker thread answers for: a cleanup in the API
\* process has it, or has left it behind.
HeldByApi(t) ==
  /\ row[t].st = "cleaning_source"
  /\ apc[t] \in {"remove", "cleaned", "cleanFailed"} \/ ApiMayCrash

Released(t) == row[t].st \notin RunningStatuses \/ HeldByApi(t)

\* Why no running row is abandoned.  A thread that ends without writing the
\* status relies on what it has loaded or seen: nobody else puts a row into a
\* running status behind its back, and every other exit overwrites the status.
Answered(t) ==
  /\ worker = "down" => pc[t] = "none"
  /\ worker # "down" /\ pc[t] = "none" => Released(t)
  /\ pc[t] \in {"cancelled", "cleanup"} => Released(t)
  /\ mem[t] # Expired /\ mem[t].st \notin RunningStatuses => Released(t)
  /\ pc[t] \in {"none", "open", "rename", "commitCompleted"} => mem[t] = Expired
  /\ pc[t] \in {"remove", "cleaned", "cleanFailed"} => mem[t].st = "cleaning_source"
  /\ apc[t] \in {"remove", "cleaned", "cleanFailed"} => amem[t].st = "cleaning_source"

RunInv == \A t \in Tasks : Answered(t)

\* Why the size is check enough while the source is uploaded only once: there
\* is one row and one thread at a time, the temporary file always is a
\* beginning of the source, and a thread that copies stands at its end.
Beginning(n) == [i \in 1..n |-> [v |-> 1, i |-> i]]

OneRow ==
  /\ src \in {0, 1} /\ seen.ver = 1
  /\ seen.st = "absent" => seen.task = NoTask
  /\ \A t \in Tasks : ver[t] = 1 /\ (Exists(t) => seen.task = t)
  /\ \A t, u \in Tasks : pc[t] # "none" /\ pc[u] # "none" => t = u

WholeInv ==
  last = 1 =>
    /\ OneRow
    /\ Len(temp) <= Size[1] /\ temp = Beginning(Len(temp))
    /\ \A t \in Tasks :
         /\ pc[t] \in {"start", "stream", "copy"} => pos[t] = Len(temp)
         /\ pc[t] \in {"commitRenaming", "rename"} => Len(temp) = Size[1]
    /\ target # <<>> => target = File(1)

\* Seen from the shares alone the whole machinery is an atomic move: the
\* temporary file, the rows, the retries and the crashes are invisible, a
\* target never changes once it is there, and no source goes before it.
Move == INSTANCE AtomicMove WITH dst <- target
MoveSpec == Move!Spec

-----------------------------------------------------------------------------
(* Promises of the documentation and of the messages the code writes that  *)
(* the code does not keep: TLC refutes them (see the README).              *)

\* No source is removed after a change of the SMB configuration interrupted
\* the task and nobody retried it.
NoRemovalAfterConfigChange ==
  [][\A t \in Tasks :
       pc[t] = "remove" /\ src # 0 /\ src' = 0 => row[t].err # "STORAGE_CONFIG_CHANGED"]_vars

\* The source is removed only if it is the file that was verified and renamed.
OnlyDeliveredIsRemoved ==
  [][src # 0 /\ src' = 0 => target = File(src)]_vars

-----------------------------------------------------------------------------
(* Liveness                                                                *)

\* The steps of a thread are straight-line code around loops over a finite
\* file, each step ending in a result or in an error; the claim is the body of
\* the worker's main loop.  Nothing is assumed of people, nor of a restart.
Fairness ==
  /\ \A t \in Tasks : WF_vars(WorkerStep(t)) /\ WF_vars(ApiCleanupStep(t))
  /\ WF_vars(ClaimPending)

FairSpec == Spec /\ Fairness

\* A running task ends: completed, failed, paused, cancelled or deleted,
\* unless the worker process itself is gone.
RunningEnds ==
  \A t \in Tasks :
    row[t].st \in RunningStatuses ~> row[t].st \notin RunningStatuses \/ worker = "down"

\* A pending task is taken up, unless the worker is ending or gone.
PendingIsTaken ==
  \A t \in Tasks : row[t].st = "pending" ~> row[t].st # "pending" \/ worker # "up"
=============================================================================

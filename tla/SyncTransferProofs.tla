------------------------- MODULE SyncTransferProofs -------------------------
(***************************************************************************)
(* Proofs about SyncTransfer, for every number of tasks, clients, versions *)
(* and sizes, with every operation and every fault enabled.                *)
(***************************************************************************)
EXTENDS SyncTransfer, TLAPS

-----------------------------------------------------------------------------
(* Lemmas about rows                                                       *)

\* What a commit leaves is a row, if what was assigned is a column value or
\* the value that was loaded (Flush).
LEMMA FlushRow ==
  ASSUME NEW cur \in Row, NEW old, NEW new,
         new.st \in TaskStatus \/ new.st = old.st,
         new.err \in ErrorCode \/ new.err = old.err,
         new.fs \in FileStatus \/ new.fs = old.fs
  PROVE  Flush(cur, old, new) \in Row
BY DEF Flush, Row

\* A commit changes the status to the one assigned or not at all (Flush).
LEMMA FlushStatus ==
  ASSUME NEW cur, NEW old, NEW new
  PROVE  /\ Flush(cur, old, new).st \in {cur.st, new.st}
         /\ new.st # old.st => Flush(cur, old, new).st = new.st
         /\ new.st = old.st => Flush(cur, old, new).st = cur.st
BY DEF Flush

\* The rows the model writes as a whole are rows.
LEMMA RowConstants == AbsentRow \in Row /\ NewRow \in Row
BY DEF AbsentRow, NewRow, Row, TaskStatus, ErrorCode, FileStatus

\* Recovery at startup leaves rows, none of them running (RecoveredRow).
LEMMA RecoveredRowType ==
  ASSUME NEW r \in Row
  PROVE  RecoveredRow(r) \in Row /\ RecoveredRow(r).st \notin RunningStatuses
BY DEF RecoveredRow, FailFile, Row, TaskStatus, ErrorCode, FileStatus,
       RunningStatuses, UnfinishedFileStatuses, RetryableErrors

\* Any assignment of column values to an instance commits to a row.
LEMMA CommitType ==
  ASSUME NEW cur \in Row, NEW old \in Row \cup {Expired},
         NEW s \in TaskStatus, NEW e \in ErrorCode, NEW f \in FileStatus
  PROVE  /\ Flush(cur, old, [old EXCEPT !.st = s]) \in Row
         /\ Flush(cur, old, [old EXCEPT !.st = s, !.fs = f]) \in Row
         /\ Flush(cur, old, [old EXCEPT !.st = s, !.err = e]) \in Row
         /\ Flush(cur, old, [st |-> s, err |-> e, fs |-> FailFile(cur, old)]) \in Row
<1> DEFINE S == [old EXCEPT !.st = s]
           SF == [old EXCEPT !.st = s, !.fs = f]
           SE == [old EXCEPT !.st = s, !.err = e]
           A == [st |-> s, err |-> e, fs |-> FailFile(cur, old)]
<1>1. /\ S.st = s /\ S.err = old.err /\ S.fs = old.fs
      /\ SF.st = s /\ SF.err = old.err /\ SF.fs = f
      /\ SE.st = s /\ SE.err = e /\ SE.fs = old.fs
  BY DEF Row, Expired
<1>2. A.fs \in FileStatus \/ A.fs = old.fs
  BY DEF FailFile, FileStatus
<1>3. A.st = s /\ A.err = e
  OBVIOUS
<1>4. Flush(cur, old, A) \in Row
  <2> HIDE DEF A
  <2> QED BY <1>2, <1>3, FlushRow
<1>5. Flush(cur, old, S) \in Row /\ Flush(cur, old, SF) \in Row /\ Flush(cur, old, SE) \in Row
  <2> HIDE DEF S, SF, SE
  <2> QED BY <1>1, FlushRow
<1> QED BY <1>4, <1>5

\* The literals the actions assign are column values.
LEMMA Literals ==
  /\ {"pending", "paused", "downloading", "verifying", "renaming",
      "cleaning_source", "completed", "failed", "cancelled"} \subseteq TaskStatus
  /\ {"none", "SYNC_SOURCE_CHANGED", "SYNC_SOURCE_DELETE_FAILED", "TASK_CANCELLED",
      "STORAGE_CONFIG_CHANGED", "SMB_HOST_UNREACHABLE", "SMB_CONNECT_FAILED",
      "SMB_PATH_NOT_FOUND", "WORKER_TRANSFER_FAILED", "STORAGE_PATH_NOT_FOUND",
      "SIZE_MISMATCH", "TARGET_EXISTS", "SMB_RENAME_FAILED"} \subseteq ErrorCode
  /\ {"downloading", "verified", "completed", "cancelled"} \subseteq FileStatus
BY DEF TaskStatus, ErrorCode, FileStatus, RetryableErrors, CleanupErrors, FinalErrors

\* Changing the status or the error of a row leaves a row.
LEMMA RowUpdate ==
  ASSUME NEW r \in Row, NEW s \in TaskStatus, NEW e \in ErrorCode
  PROVE  [r EXCEPT !.st = s] \in Row /\ [r EXCEPT !.st = s, !.err = e] \in Row
BY DEF Row

-----------------------------------------------------------------------------
(* Type correctness                                                        *)

\* Threads that end, raise or stop leave well-typed bookkeeping behind
\* (End, Raise, Goto, Stop, Dies).
LEMMA ThreadTypes ==
  ASSUME TypeOK, NEW t \in Tasks
  PROVE  /\ End(t) => /\ pc' \in [Tasks -> WorkerPC] /\ pos' \in [Tasks -> Nat]
                      /\ mem' \in [Tasks -> Row \cup {Expired}]
                      /\ exc' \in [Tasks -> ErrorCode]
         /\ Dies(t) => TypeOK'
         /\ Stop(t) => TypeOK'
         /\ \A code \in ErrorCode :
              Raise(t, code) => /\ pc' \in [Tasks -> WorkerPC]
                                /\ pos' \in [Tasks -> Nat]
                                /\ exc' \in [Tasks -> ErrorCode]
         /\ Loaded(t) \in Row
         /\ exc[t] \in ErrorCode /\ row[t] \in Row
<1>1. End(t) => /\ pc' \in [Tasks -> WorkerPC] /\ pos' \in [Tasks -> Nat]
                /\ mem' \in [Tasks -> Row \cup {Expired}]
                /\ exc' \in [Tasks -> ErrorCode]
  BY Literals DEF End, TypeOK, WorkerPC
<1>2. Dies(t) => TypeOK'
  BY <1>1 DEF Dies, TypeOK, dbVars, shareVars, apiVars
<1>3. Loaded(t) \in Row /\ exc[t] \in ErrorCode /\ row[t] \in Row
  BY DEF Loaded, TypeOK
<1>4. Stop(t) => TypeOK'
  BY <1>3 DEF Stop, Stopped, Goto, TypeOK, WorkerPC, dbVars, shareVars, apiVars
<1>5. \A code \in ErrorCode :
        Raise(t, code) => /\ pc' \in [Tasks -> WorkerPC]
                          /\ pos' \in [Tasks -> Nat]
                          /\ exc' \in [Tasks -> ErrorCode]
  BY DEF Raise, Goto, TypeOK, WorkerPC
<1> QED BY <1>1, <1>2, <1>3, <1>4, <1>5

\* The initial state is well typed.
LEMMA TypeInit == Init => TypeOK
BY ConstantsAssumption, RowConstants, Literals
   DEF Init, TypeOK, Versions, Contents, WorkerPC, CleanPC, SeenStatus,
       Request, Idle

\* The temporary file is a sequence of chunks and grows by chunks (CopyChunk).
LEMMA TempContents ==
  ASSUME TypeOK
  PROVE  /\ <<>> \in Contents /\ temp \in Contents /\ Len(temp) \in Nat
         /\ \A c \in Chunk : Append(temp, c) \in Contents
BY DEF TypeOK, Contents

\* Committing an instance whose flush is a row keeps the table well typed
\* (Commit, and the final commits of MarkFailed, ConfirmPaused, FinishCleanup).
LEMMA WriteTypes ==
  ASSUME TypeOK, NEW t \in Tasks, NEW new, Flush(row[t], mem[t], new) \in Row
  PROVE  /\ [row EXCEPT ![t] = Flush(@, mem[t], new)] \in [Tasks -> Row]
         /\ [mem EXCEPT ![t] = Expired] \in [Tasks -> Row \cup {Expired}]
BY DEF TypeOK

\* Every step of a worker thread preserves the types.
LEMMA TypeWorkerStep ==
  ASSUME TypeOK, NEW t \in Tasks, WorkerStep(t)
  PROVE  TypeOK'
<1> USE DEF dbVars, shareVars, apiVars, WorkerPC
<1>0. /\ mem[t] \in Row \cup {Expired} /\ row[t] \in Row
      /\ Size \in [Versions -> Nat \ {0}] /\ ver[t] \in Versions
  BY ConstantsAssumption DEF TypeOK
<1>1. CASE Open(t)
  BY <1>1, ThreadTypes, <1>0 DEF Open, Goto, TypeOK
<1>2. CASE Prepare(t)
  <2>1. CASE Stop(t)
    BY <2>1, ThreadTypes
  <2>2. CASE Reconcile(t)
    <3>1. /\ temp' \in Contents
          /\ pc' \in [Tasks -> WorkerPC] /\ pos' \in [Tasks -> Nat]
          /\ exc' \in [Tasks -> ErrorCode]
      <4>1. CASE Goto(t, "start")
        <5>1. /\ pc' \in [Tasks -> WorkerPC] /\ UNCHANGED exc
          BY <2>2, <4>1 DEF Goto, TypeOK, Reconcile, Raise
        <5>2. temp' \in Contents /\ pos' \in [Tasks -> Nat]
          BY <2>2, <4>1, TempContents DEF Goto, TypeOK, Reconcile, Raise
        <5> QED BY <5>1, <5>2 DEF TypeOK
      <4>2. CASE \E code \in {"SMB_HOST_UNREACHABLE", "SMB_CONNECT_FAILED"} : Raise(t, code)
        <5>1. UNCHANGED temp
          BY <2>2, <4>2 DEF Reconcile, Goto, Raise, TypeOK
        <5> QED BY <4>2, <5>1, ThreadTypes, Literals, TempContents
      <4> QED BY <2>2, <4>1, <4>2 DEF Reconcile
    <3> QED BY <2>2, <3>1 DEF Reconcile, TypeOK
  <2> QED BY <1>2, <2>1, <2>2 DEF Prepare
<1>3. CASE StartCopy(t)
  <2> DEFINE new == [mem[t] EXCEPT !.st = "downloading", !.fs = "downloading"]
  <2>1. Flush(row[t], mem[t], new) \in Row
    BY <1>0, CommitType, Literals, ThreadTypes
  <2>2. /\ [row EXCEPT ![t] = Flush(@, mem[t], new)] \in [Tasks -> Row]
        /\ [mem EXCEPT ![t] = Expired] \in [Tasks -> Row \cup {Expired}]
    <3> HIDE DEF new
    <3> QED BY <2>1, WriteTypes
  <2>3. CASE Exists(t)
    BY <1>3, <2>2, <2>3, ThreadTypes DEF StartCopy, TypeOK, Commit, Goto
  <2>4. CASE ~Exists(t)
    BY <1>3, <2>4, ThreadTypes DEF StartCopy
  <2> QED BY <2>3, <2>4
<1>4. CASE OpenStreams(t)
  BY <1>4, <1>0, ThreadTypes, Literals DEF OpenStreams, Goto, TypeOK
<1>5. CASE Copy(t)
  <2>1. CASE CopyChunk(t)
    <3>1. CASE src # 0 /\ pos[t] < Size[src] /\ temp' = Append(temp, [v |-> src, i |-> pos[t] + 1])
              /\ pos' = [pos EXCEPT ![t] = @ + 1]
              /\ UNCHANGED <<pc, exc>>
      <4>1. [v |-> src, i |-> pos[t] + 1] \in Chunk
        BY <3>1, ConstantsAssumption DEF TypeOK, Chunk, Versions
      <4>2. temp' \in Contents /\ pos' \in [Tasks -> Nat]
        BY <3>1, <4>1, TempContents DEF TypeOK
      <4>3. mem' \in [Tasks -> Row \cup {Expired}]
        <5>1. \/ mem' = [mem EXCEPT ![t] = Loaded(t)]
              \/ mem' = [mem EXCEPT ![t] = Expired]
          BY <2>1 DEF CopyChunk
        <5> QED BY <5>1, ThreadTypes DEF TypeOK
      <4> QED BY <2>1, <3>1, <4>2, <4>3 DEF CopyChunk, TypeOK
    <3>2. CASE Raise(t, "WORKER_TRANSFER_FAILED") /\ UNCHANGED temp
               /\ mem' = [mem EXCEPT ![t] = Loaded(t)]
      <4>1. mem' \in [Tasks -> Row \cup {Expired}]
        BY <3>2, ThreadTypes DEF TypeOK
      <4> QED BY <2>1, <3>2, <4>1, ThreadTypes, Literals DEF CopyChunk, TypeOK
    <3> QED BY <2>1, <3>1, <3>2 DEF CopyChunk
  <2>2. CASE EndOfSource(t)
    BY <2>2, <1>0 DEF EndOfSource, Goto, TypeOK
  <2>3. CASE CopyWithoutRow(t) \/ Stop(t)
    BY <2>3, ThreadTypes DEF CopyWithoutRow
  <2> QED BY <1>5, <2>1, <2>2, <2>3 DEF Copy
<1>6. CASE CheckBeforeVerify(t)
  BY <1>6, ThreadTypes DEF CheckBeforeVerify, CheckState, Goto, TypeOK
<1>7. CASE CommitVerifying(t)
  <2> DEFINE new == [mem[t] EXCEPT !.st = "verifying", !.fs = "verified"]
  <2>1. Flush(row[t], mem[t], new) \in Row
    BY <1>0, CommitType, Literals, ThreadTypes
  <2>2. /\ [row EXCEPT ![t] = Flush(@, mem[t], new)] \in [Tasks -> Row]
        /\ [mem EXCEPT ![t] = Expired] \in [Tasks -> Row \cup {Expired}]
    <3> HIDE DEF new
    <3> QED BY <2>1, WriteTypes
  <2>3. CASE Exists(t)
    BY <1>7, <2>2, <2>3, ThreadTypes DEF CommitVerifying, TypeOK, Commit, Goto
  <2>4. CASE ~Exists(t)
    BY <1>7, <2>4, ThreadTypes DEF CommitVerifying
  <2> QED BY <2>3, <2>4
<1>8. CASE CheckSize(t)
  <2>1. CASE CheckState(t, "commitRenaming")
    BY <2>1, ThreadTypes DEF CheckState, Goto, TypeOK
  <2>2. ASSUME NEW code \in ErrorCode, Raise(t, code), mem' = [mem EXCEPT ![t] = row[t]],
               UNCHANGED <<dbVars, shareVars, worker, apiVars>>
        PROVE  TypeOK'
    <3>1. mem' \in [Tasks -> Row \cup {Expired}]
      BY <2>2, <1>0 DEF TypeOK
    <3> QED BY <2>2, <3>1, ThreadTypes DEF TypeOK
  <2> QED BY <1>8, <2>1, <2>2, ThreadTypes, Literals DEF CheckSize
<1>9. CASE CommitRenaming(t)
  <2> DEFINE new == [mem[t] EXCEPT !.st = "renaming"]
  <2>1. Flush(row[t], mem[t], new) \in Row
    BY <1>0, CommitType, Literals, ThreadTypes
  <2>2. /\ [row EXCEPT ![t] = Flush(@, mem[t], new)] \in [Tasks -> Row]
        /\ [mem EXCEPT ![t] = Expired] \in [Tasks -> Row \cup {Expired}]
    <3> HIDE DEF new
    <3> QED BY <2>1, WriteTypes
  <2>3. CASE Exists(t)
    BY <1>9, <2>2, <2>3, ThreadTypes DEF CommitRenaming, TypeOK, Commit, Goto
  <2>4. CASE ~Exists(t)
    BY <1>9, <2>4, ThreadTypes DEF CommitRenaming
  <2> QED BY <2>3, <2>4
<1>10. CASE Rename(t)
  BY <1>10, <1>0, ThreadTypes, Literals DEF Rename, Goto, TypeOK, Contents
<1>11. CASE CommitCompleted(t)
  <2> DEFINE new == [mem[t] EXCEPT !.st = "completed", !.fs = "completed"]
  <2>1. Flush(row[t], mem[t], new) \in Row
    BY <1>0, CommitType, Literals, ThreadTypes
  <2>2. /\ [row EXCEPT ![t] = Flush(@, mem[t], new)] \in [Tasks -> Row]
        /\ [mem EXCEPT ![t] = Expired] \in [Tasks -> Row \cup {Expired}]
    <3> HIDE DEF new
    <3> QED BY <2>1, WriteTypes
  <2>3. CASE Exists(t)
    BY <1>11, <2>2, <2>3, ThreadTypes DEF CommitCompleted, TypeOK, Commit, Goto, SeenStatus
  <2>4. CASE ~Exists(t)
    BY <1>11, <2>4, ThreadTypes DEF CommitCompleted
  <2> QED BY <2>3, <2>4
<1>12. CASE StartCleanup(t)
  <2> DEFINE cleaning == [row[t] EXCEPT !.st = "cleaning_source"]
  <2>1. cleaning \in Row
    BY <1>0, RowUpdate, Literals
  <2>2. CASE MayClean(t) /\ pc' = [pc EXCEPT ![t] = "remove"]
             /\ row' = [row EXCEPT ![t].st = "cleaning_source"]
    <3>1. row' = [row EXCEPT ![t] = cleaning]
      BY <2>2
    <3>2. row' \in [Tasks -> Row] /\ row'[t] = cleaning
      <4> HIDE DEF cleaning
      <4> QED BY <2>1, <3>1 DEF TypeOK
    <3>3. mem' \in [Tasks -> Row \cup {Expired}]
      <4> HIDE DEF cleaning
      <4> QED BY <1>12, <2>1, <2>2, <3>2, <1>0 DEF StartCleanup, TypeOK, MayClean, Exists, End, Dies, Goto
    <3> QED BY <1>12, <2>2, <3>2, <3>3 DEF StartCleanup, TypeOK, Goto, End, Exists, MayClean, Dies
  <2>3. CASE Exists(t) /\ ~MayClean(t)
    BY <1>12, <2>3, ThreadTypes DEF StartCleanup, TypeOK
  <2>4. CASE ~Exists(t)
    BY <1>12, <2>4, ThreadTypes DEF StartCleanup, MayClean, Exists
  <2> QED BY <1>12, <2>2, <2>3, <2>4 DEF StartCleanup, Goto, Exists, MayClean
<1>13. CASE RemoveSource(t)
  BY <1>13, <1>0, ConstantsAssumption DEF RemoveSource, RemoveOrFail, Goto, TypeOK
<1>14. CASE FinishCleanup(t)
  <2> DEFINE new == IF pc[t] = "cleaned" THEN Cleaned(mem[t]) ELSE NotCleaned(mem[t])
  <2>1. Flush(row[t], mem[t], new) \in Row
    BY <1>0, CommitType, Literals, ThreadTypes DEF Cleaned, NotCleaned
  <2>2. /\ [row EXCEPT ![t] = Flush(@, mem[t], new)] \in [Tasks -> Row]
        /\ [mem EXCEPT ![t] = Expired] \in [Tasks -> Row \cup {Expired}]
    <3> HIDE DEF new
    <3> QED BY <2>1, WriteTypes
  <2>3. CASE Exists(t)
    BY <1>14, <2>2, <2>3, ThreadTypes DEF FinishCleanup, TypeOK
  <2>4. CASE ~Exists(t)
    BY <1>14, <2>4, ThreadTypes DEF FinishCleanup
  <2> QED BY <2>3, <2>4
<1>15. CASE MarkFailed(t)
  <2> DEFINE new == [st |-> "failed", err |-> exc[t], fs |-> FailFile(row[t], mem[t])]
  <2>1. Flush(row[t], mem[t], new) \in Row
    BY <1>0, CommitType, Literals, ThreadTypes
  <2>2. /\ [row EXCEPT ![t] = Flush(@, mem[t], new)] \in [Tasks -> Row]
        /\ [mem EXCEPT ![t] = Expired] \in [Tasks -> Row \cup {Expired}]
    <3> HIDE DEF new
    <3> QED BY <2>1, WriteTypes
  <2>3. CASE Exists(t)
    BY <1>15, <2>2, <2>3, ThreadTypes DEF MarkFailed, TypeOK
  <2>4. CASE ~Exists(t)
    BY <1>15, <2>4, ThreadTypes DEF MarkFailed
  <2> QED BY <2>3, <2>4
<1>16. CASE ConfirmPaused(t)
  <2> DEFINE new == [mem[t] EXCEPT !.st = "paused"]
  <2>1. Flush(row[t], mem[t], new) \in Row
    BY <1>0, CommitType, Literals, ThreadTypes
  <2>2. /\ [row EXCEPT ![t] = Flush(@, mem[t], new)] \in [Tasks -> Row]
        /\ [mem EXCEPT ![t] = Expired] \in [Tasks -> Row \cup {Expired}]
    <3> HIDE DEF new
    <3> QED BY <2>1, WriteTypes
  <2>3. CASE Exists(t)
    BY <1>16, <2>2, <2>3, ThreadTypes DEF ConfirmPaused, TypeOK
  <2>4. CASE ~Exists(t)
    BY <1>16, <2>4, ThreadTypes DEF ConfirmPaused
  <2> QED BY <2>3, <2>4
<1>17. CASE EndCancelled(t)
  BY <1>17, ThreadTypes, TempContents DEF EndCancelled, TypeOK
<1> QED
  BY <1>1, <1>2, <1>3, <1>4, <1>5, <1>6, <1>7, <1>8, <1>9, <1>10, <1>11, <1>12,
     <1>13, <1>14, <1>15, <1>16, <1>17 DEF WorkerStep

\* A retry of the cleanup in the API process preserves the types.
LEMMA TypeApiCleanupStep ==
  ASSUME TypeOK, NEW t \in Tasks, ApiCleanupStep(t)
  PROVE  TypeOK'
<1> USE DEF dbVars, shareVars, threadVars, CleanPC
<1>0. amem[t] \in Row \cup {Expired} /\ row[t] \in Row
  BY DEF TypeOK
<1>1. CASE ApiStartCleanup(t)
  <2> DEFINE cleaning == [row[t] EXCEPT !.st = "cleaning_source"]
  <2>1. cleaning \in Row
    BY <1>0, RowUpdate, Literals
  <2>2. CASE /\ row' = [row EXCEPT ![t].st = "cleaning_source"]
             /\ amem' = [amem EXCEPT ![t] = row'[t]]
             /\ apc' = [apc EXCEPT ![t] = "remove"]
    <3>1. row' = [row EXCEPT ![t] = cleaning]
      BY <2>2
    <3>2. row' \in [Tasks -> Row] /\ row'[t] = cleaning
      <4> HIDE DEF cleaning
      <4> QED BY <2>1, <3>1 DEF TypeOK
    <3>3. amem' \in [Tasks -> Row \cup {Expired}]
      <4> HIDE DEF cleaning
      <4> QED BY <2>1, <2>2, <3>2 DEF TypeOK
    <3> QED BY <1>1, <2>2, <3>2, <3>3 DEF ApiStartCleanup, TypeOK
  <2>3. CASE EndApiCleanup(t) /\ UNCHANGED row
    BY <1>1, <2>3 DEF ApiStartCleanup, EndApiCleanup, TypeOK
  <2> QED BY <1>1, <2>2, <2>3 DEF ApiStartCleanup
<1>2. CASE ApiRemoveSource(t)
  BY <1>2, ConstantsAssumption DEF ApiRemoveSource, RemoveOrFail, TypeOK
<1>3. CASE ApiFinishCleanup(t)
  <2> DEFINE new == IF apc[t] = "cleaned" THEN Cleaned(amem[t]) ELSE NotCleaned(amem[t])
  <2>1. Flush(row[t], amem[t], new) \in Row
    BY <1>0, CommitType, Literals DEF Cleaned, NotCleaned
  <2>2. [row EXCEPT ![t] = Flush(@, amem[t], new)] \in [Tasks -> Row]
    <3> HIDE DEF new
    <3> QED BY <2>1 DEF TypeOK
  <2> QED BY <1>3, <2>2 DEF ApiFinishCleanup, EndApiCleanup, TypeOK
<1> QED BY <1>1, <1>2, <1>3 DEF ApiCleanupStep

\* What a request that updates a row assigns to it (Assigned).
LEMMA AssignedType ==
  ASSUME NEW op \in {"cancel", "pause", "resume", "retry", "interrupt"},
         NEW old \in Row
  PROVE  /\ Assigned(op, old) \in Row
         /\ Assigned(op, old).st \in {"cancelled", "paused", "pending", "failed"}
<1>1. CASE op = "cancel"
  BY <1>1, Literals DEF Assigned, Row
<1>2. CASE op = "pause"
  BY <1>2, Literals DEF Assigned, Row
<1>3. CASE op = "resume"
  BY <1>3, Literals DEF Assigned, Row
<1>4. CASE op = "retry"
  BY <1>4, Literals DEF Assigned, Row
<1>5. CASE op = "interrupt"
  BY <1>5, Literals DEF Assigned, Row
<1> QED BY <1>1, <1>2, <1>3, <1>4, <1>5

\* Requests and the faults preserve the types.
LEMMA TypeRequestStep ==
  ASSUME TypeOK, NEW c \in Clients, CommitRequest(c)
  PROVE  TypeOK'
<1> USE DEF dbVars, shareVars, threadVars, CleanPC
<1>0. Idle \in Request /\ req[c] \in Request
  BY RowConstants DEF Idle, Request, TypeOK
<1>1. CASE CommitUpdate(c)
  <2>1. \A t \in Tasks : Flush(row[t], req[c].old[t], Assigned(req[c].op, req[c].old[t])) \in Row
    <3> SUFFICES ASSUME NEW t \in Tasks
                 PROVE  Flush(row[t], req[c].old[t], Assigned(req[c].op, req[c].old[t])) \in Row
      OBVIOUS
    <3>1. req[c].old[t] \in Row /\ row[t] \in Row
      BY <1>0 DEF Request, TypeOK
    <3>2. Assigned(req[c].op, req[c].old[t]) \in Row
      BY <1>1, <3>1, AssignedType DEF CommitUpdate
    <3>3. /\ Assigned(req[c].op, req[c].old[t]).st \in TaskStatus
          /\ Assigned(req[c].op, req[c].old[t]).err \in ErrorCode
          /\ Assigned(req[c].op, req[c].old[t]).fs \in FileStatus
      BY <3>2 DEF Row
    <3> QED BY <3>1, <3>3, FlushRow
  <2>2. row' \in [Tasks -> Row]
    BY <1>1, <2>1 DEF CommitUpdate, TypeOK
  <2> QED BY <1>1, <1>0, <2>2 DEF CommitUpdate, TypeOK
<1>2. CASE CommitDelete(c)
  <2>1. row' \in [Tasks -> Row]
    BY <1>2, RowConstants DEF CommitDelete, TypeOK
  <2>2. seen' \in [st : SeenStatus, ver : Versions, task : Tasks \cup {NoTask}]
    BY <1>2 DEF CommitDelete, TypeOK
  <2> QED BY <1>2, <1>0, <2>1, <2>2 DEF CommitDelete, TypeOK
<1>3. CASE CommitRetryCleanup(c)
  BY <1>3, <1>0 DEF CommitRetryCleanup, TypeOK
<1> QED BY <1>1, <1>2, <1>3 DEF CommitRequest

\* Scanning, claiming, recovery and the environment preserve the types.
LEMMA TypeOtherStep ==
  ASSUME TypeOK,
         \/ \E aged \in BOOLEAN : ScanFile(aged)
         \/ \E t \in Tasks : CreateTask(t)
         \/ ClaimPending
         \/ \E c \in Clients, op \in AllOps, t \in Tasks : ReadRequest(c, op, t)
         \/ WorkerStops \/ RecoverRunning \/ ApiStops \/ UploadSource
         \/ UNCHANGED vars
  PROVE  TypeOK'
<1> USE DEF dbVars, shareVars, threadVars, apiVars
<1>0. row \in [Tasks -> Row]
  BY DEF TypeOK
<1>1. ASSUME NEW aged \in BOOLEAN, ScanFile(aged)
      PROVE  TypeOK'
  <2> DEFINE failed(t) == [row[t] EXCEPT !.st = "failed", !.err = "SYNC_SOURCE_CHANGED"]
  <2>1. \A t \in Tasks : failed(t) \in Row
    BY <1>0, RowUpdate, Literals
  <2>2. \/ UNCHANGED row
        \/ seen.task # NoTask /\ row' = [row EXCEPT ![seen.task] = failed(seen.task)]
    BY <1>1 DEF ScanFile
  <2>3. row' \in [Tasks -> Row]
    <3> HIDE DEF failed
    <3> QED BY <1>0, <2>1, <2>2 DEF TypeOK
  <2>4. seen' \in [st : SeenStatus, ver : Versions, task : Tasks \cup {NoTask}]
    <3>1. src \in Versions /\ seen \in [st : SeenStatus, ver : Versions, task : Tasks \cup {NoTask}]
      BY <1>1, ConstantsAssumption DEF ScanFile, TypeOK, Versions
    <3> QED BY <1>1, <3>1 DEF ScanFile, SeenStatus
  <2> QED BY <1>1, <2>3, <2>4 DEF ScanFile, TypeOK
<1>2. ASSUME NEW t \in Tasks, CreateTask(t)
      PROVE  TypeOK'
  <2>1. row' \in [Tasks -> Row]
    BY <1>0, <1>2, RowConstants DEF CreateTask
  <2> QED BY <1>2, <2>1 DEF CreateTask, TypeOK, SeenStatus
<1>3. ASSUME ClaimPending
      PROVE  TypeOK'
  <2> DEFINE claimed(t) == [row[t] EXCEPT !.st = "downloading"]
  <2>1. \A t \in Tasks : claimed(t) \in Row
    BY <1>0, RowUpdate, Literals
  <2>2. PICK S \in SUBSET Tasks :
          /\ row' = [t \in Tasks |-> IF t \in S THEN claimed(t) ELSE row[t]]
          /\ pc' = [t \in Tasks |-> IF t \in S THEN "open" ELSE pc[t]]
    BY <1>3 DEF ClaimPending
  <2>3. row' \in [Tasks -> Row]
    <3> HIDE DEF claimed
    <3> QED BY <1>0, <2>1, <2>2
  <2>4. pc' \in [Tasks -> WorkerPC]
    BY <2>2 DEF TypeOK, WorkerPC
  <2> QED BY <1>3, <2>3, <2>4 DEF ClaimPending, TypeOK
<1>4. ASSUME NEW c \in Clients, NEW op \in AllOps, NEW t \in Tasks, ReadRequest(c, op, t)
      PROVE  TypeOK'
  <2>1. Targets(op, t) \in SUBSET Tasks
    BY DEF Targets
  <2>2. [u \in Tasks |-> IF u \in Targets(op, t) THEN row[u] ELSE AbsentRow] \in [Tasks -> Row]
    BY <1>0, RowConstants
  <2>3. [op |-> op, on |-> Targets(op, t),
         old |-> [u \in Tasks |-> IF u \in Targets(op, t) THEN row[u] ELSE AbsentRow]] \in Request
    BY <2>1, <2>2 DEF Request
  <2>4. req' \in [Clients -> Request]
    BY <1>4, <2>3 DEF ReadRequest, TypeOK
  <2> QED BY <1>4, <2>4 DEF ReadRequest, TypeOK
<1>5. CASE WorkerStops
  BY <1>5, Literals DEF WorkerStops, Reset, TypeOK, WorkerPC
<1>6. CASE RecoverRunning
  BY <1>6, <1>0, RecoveredRowType DEF RecoverRunning, TypeOK
<1>7. CASE ApiStops
  BY <1>7, RowConstants DEF ApiStops, TypeOK, CleanPC, Idle, Request
<1>8. CASE UploadSource
  BY <1>8, ConstantsAssumption DEF UploadSource, TypeOK, Versions
<1>9. CASE UNCHANGED vars
  BY <1>9 DEF vars, TypeOK
<1> QED BY <1>1, <1>2, <1>3, <1>4, <1>5, <1>6, <1>7, <1>8, <1>9

\* Every step preserves the types.
LEMMA TypeStep ==
  ASSUME TypeOK, [Next]_vars
  PROVE  TypeOK'
BY TypeOtherStep, TypeWorkerStep, TypeApiCleanupStep, TypeRequestStep DEF Next

\* Every variable keeps its type: every row, instance and request in flight
\* holds column values, whatever reads and commits interleave.
THEOREM TypeCorrect == Spec => []TypeOK
BY TypeInit, TypeStep, PTL DEF Spec

-----------------------------------------------------------------------------
(* No copy is lost                                                         *)

\* Thread t commits status s over what it had loaded: no other row changes,
\* and the status is written unless s is what was loaded (Flush).
Writes(t, s) ==
  /\ \A u \in Tasks : u # t => row'[u].st = row[u].st
  /\ row'[t].st = IF s = mem[t].st THEN row[t].st ELSE s

LEMMA FlushWrites ==
  ASSUME TypeOK, NEW t \in Tasks, NEW new, row' = [row EXCEPT ![t] = Flush(@, mem[t], new)]
  PROVE  Writes(t, new.st)
BY FlushStatus DEF Writes, TypeOK

\* Assigning a status to an instance, loaded or not, sets its status.
LEMMA StatusAssigned ==
  ASSUME NEW old \in Row \cup {Expired}, NEW s, NEW f
  PROVE  /\ [old EXCEPT !.st = s].st = s
         /\ [old EXCEPT !.st = s, !.fs = f].st = s
         /\ Cleaned(old).st = "completed" /\ NotCleaned(old).st = "completed"
BY DEF Row, Expired, Cleaned, NotCleaned

\* The statuses the worker's threads commit.
LEMMA WorkerWrites ==
  ASSUME TypeOK, NEW t \in Tasks, Exists(t)
  PROVE  /\ StartCopy(t) => Writes(t, "downloading")
         /\ CommitVerifying(t) => Writes(t, "verifying")
         /\ CommitRenaming(t) => Writes(t, "renaming")
         /\ CommitCompleted(t) => Writes(t, "completed")
         /\ FinishCleanup(t) => Writes(t, "completed")
         /\ MarkFailed(t) => Writes(t, "failed")
         /\ ConfirmPaused(t) => Writes(t, "paused")
<1> DEFINE start     == [mem[t] EXCEPT !.st = "downloading", !.fs = "downloading"]
           verifying == [mem[t] EXCEPT !.st = "verifying", !.fs = "verified"]
           renaming  == [mem[t] EXCEPT !.st = "renaming"]
           completed == [mem[t] EXCEPT !.st = "completed", !.fs = "completed"]
           cleaned   == IF pc[t] = "cleaned" THEN Cleaned(mem[t]) ELSE NotCleaned(mem[t])
           failed    == [st |-> "failed", err |-> exc[t], fs |-> FailFile(row[t], mem[t])]
           paused    == [mem[t] EXCEPT !.st = "paused"]
           Write(new) == row' = [row EXCEPT ![t] = Flush(@, mem[t], new)]
<1>1. mem[t] \in Row \cup {Expired}
  BY DEF TypeOK
<1>2. /\ start.st = "downloading" /\ verifying.st = "verifying"
      /\ renaming.st = "renaming" /\ completed.st = "completed"
      /\ cleaned.st = "completed" /\ failed.st = "failed" /\ paused.st = "paused"
  BY <1>1, StatusAssigned
<1>3. /\ StartCopy(t) => Write(start)
      /\ CommitVerifying(t) => Write(verifying)
      /\ CommitRenaming(t) => Write(renaming)
      /\ CommitCompleted(t) => Write(completed)
      /\ FinishCleanup(t) => Write(cleaned)
      /\ MarkFailed(t) => Write(failed)
      /\ ConfirmPaused(t) => Write(paused)
  BY DEF StartCopy, CommitVerifying, CommitRenaming, CommitCompleted, FinishCleanup,
     MarkFailed, ConfirmPaused, Commit
<1> HIDE DEF start, verifying, renaming, completed, cleaned, failed, paused
<1>4. \A new : Write(new) => Writes(t, new.st)
  BY FlushWrites
<1> QED BY <1>2, <1>3, <1>4

\* The target is written once, by a rename, and never touched again
\* (SmbWriter.rename refuses an existing target).
LEMMA TargetStays ==
  ASSUME TypeOK, [Next]_vars, target # <<>>
  PROVE  target' = target
<1> USE DEF shareVars
<1>1. ASSUME NEW t \in Tasks, WorkerStep(t)
      PROVE  target' = target
  BY <1>1 DEF WorkerStep, Open, Prepare, Reconcile, Stop, StartCopy, OpenStreams,
     Copy, CopyChunk, EndOfSource, CopyWithoutRow, CheckBeforeVerify, CheckState,
     CommitVerifying, CheckSize, CommitRenaming, Rename, CommitCompleted,
     StartCleanup, RemoveSource, FinishCleanup, MarkFailed, ConfirmPaused,
     EndCancelled, Dies
<1>2. ASSUME NEW t \in Tasks, ApiCleanupStep(t)
      PROVE  target' = target
  BY <1>2 DEF ApiCleanupStep, ApiStartCleanup, ApiRemoveSource, ApiFinishCleanup
<1>3. ASSUME NEW c \in Clients, CommitRequest(c)
      PROVE  target' = target
  BY <1>3 DEF CommitRequest, CommitUpdate, CommitDelete, CommitRetryCleanup
<1> QED
  BY <1>1, <1>2, <1>3 DEF Next, vars, ScanFile, CreateTask, ClaimPending, ReadRequest,
     WorkerStops, RecoverRunning, ApiStops, UploadSource

\* A worker thread gets past the rename only by renaming.
LEMMA PastRenameWorker ==
  ASSUME TypeOK, NEW t \in Tasks, NEW u \in Tasks, WorkerStep(t), PastRename(u)'
  PROVE  PastRename(u) \/ target' # <<>>
<1> USE DEF dbVars, shareVars, apiVars, PastRename, Goto
<1>0. mem[t] \in Row \cup {Expired} /\ pc \in [Tasks -> WorkerPC]
  BY DEF TypeOK
<1>1. CASE Dies(t)
  BY <1>1, <1>0 DEF Dies, End
<1>2. CASE Stop(t)
  BY <1>2, <1>0 DEF Stop, Stopped
<1>3. CASE Open(t)
  BY <1>3, <1>0 DEF Open, End
<1>4. CASE Prepare(t)
  BY <1>4, <1>2, <1>0 DEF Prepare, Reconcile, Raise
<1>5. CASE StartCopy(t)
  BY <1>5, <1>1, <1>0, WorkerWrites DEF StartCopy, Writes
<1>6. CASE OpenStreams(t)
  BY <1>6, <1>1, <1>0 DEF OpenStreams, Raise
<1>7. CASE Copy(t)
  BY <1>7, <1>1, <1>2, <1>0 DEF Copy, CopyChunk, EndOfSource, CopyWithoutRow, Raise
<1>8. CASE CheckBeforeVerify(t)
  BY <1>8, <1>1, <1>2, <1>0 DEF CheckBeforeVerify, CheckState
<1>9. CASE CommitVerifying(t)
  BY <1>9, <1>1, <1>0, WorkerWrites DEF CommitVerifying, Writes
<1>10. CASE CheckSize(t)
  BY <1>10, <1>1, <1>2, <1>0 DEF CheckSize, CheckState, Raise
<1>11. CASE CommitRenaming(t)
  BY <1>11, <1>1, <1>0, WorkerWrites DEF CommitRenaming, Writes
<1>12. CASE Rename(t)
  BY <1>12, <1>1, <1>0 DEF Rename, Raise
<1>13. CASE CommitCompleted(t)
  BY <1>13, <1>1, <1>0, WorkerWrites DEF CommitCompleted, Writes
<1>14. CASE StartCleanup(t)
  <2>1. CASE MayClean(t) /\ row' = [row EXCEPT ![t].st = "cleaning_source"]
    BY <1>14, <2>1, <1>0 DEF StartCleanup, MayClean, TypeOK, End, Dies
  <2>2. CASE ~MayClean(t) /\ UNCHANGED row /\ End(t)
    BY <1>14, <2>2, <1>0, <1>1 DEF StartCleanup, End
  <2> QED BY <1>14, <2>1, <2>2, <1>1 DEF StartCleanup
<1>15. CASE RemoveSource(t)
  BY <1>15, <1>0 DEF RemoveSource, RemoveOrFail
<1>16. CASE FinishCleanup(t)
  BY <1>16, <1>1, <1>0, WorkerWrites DEF FinishCleanup, End, Writes
<1>17. CASE MarkFailed(t)
  BY <1>17, <1>1, <1>0, WorkerWrites DEF MarkFailed, End, Writes
<1>18. CASE ConfirmPaused(t)
  BY <1>18, <1>1, <1>0, WorkerWrites DEF ConfirmPaused, End, Writes
<1>19. CASE EndCancelled(t)
  BY <1>19, <1>0 DEF EndCancelled, End
<1> QED
  BY <1>3, <1>4, <1>5, <1>6, <1>7, <1>8, <1>9, <1>10, <1>11, <1>12, <1>13, <1>14,
     <1>15, <1>16, <1>17, <1>18, <1>19 DEF WorkerStep

\* So does a retry of the cleanup, which starts from a completed row.
LEMMA PastRenameApi ==
  ASSUME TypeOK, NEW t \in Tasks, NEW u \in Tasks, ApiCleanupStep(t), PastRename(u)'
  PROVE  PastRename(u)
<1> USE DEF dbVars, shareVars, threadVars, PastRename
<1>0. amem[t] \in Row \cup {Expired} /\ apc \in [Tasks -> CleanPC]
  BY DEF TypeOK
<1>1. CASE ApiStartCleanup(t)
  BY <1>1, <1>0 DEF ApiStartCleanup, MayClean, EndApiCleanup, TypeOK
<1>2. CASE ApiRemoveSource(t)
  BY <1>2, <1>0 DEF ApiRemoveSource, RemoveOrFail
<1>3. CASE ApiFinishCleanup(t)
  <2> DEFINE new == IF apc[t] = "cleaned" THEN Cleaned(amem[t]) ELSE NotCleaned(amem[t])
  <2>1. new.st = "completed"
    BY <1>0, StatusAssigned
  <2> HIDE DEF new
  <2>2. Flush(row[t], amem[t], new).st \in {row[t].st, "completed"}
    BY <2>1, FlushStatus
  <2>3. u # t => row'[u] = row[u] /\ apc'[u] = apc[u]
    BY <1>3, <1>0 DEF ApiFinishCleanup, EndApiCleanup, TypeOK
  <2>4. CASE u = t
    BY <1>3, <2>4 DEF ApiFinishCleanup
  <2> QED BY <1>3, <2>3, <2>4 DEF ApiFinishCleanup
<1> QED BY <1>1, <1>2, <1>3 DEF ApiCleanupStep

\* Requests, scans, claims and restarts never report a completion.
LEMMA PastRenameOther ==
  ASSUME TypeOK, NEW u \in Tasks, PastRename(u)',
         \/ \E aged \in BOOLEAN : ScanFile(aged)
         \/ \E t \in Tasks : CreateTask(t)
         \/ ClaimPending
         \/ \E c \in Clients, op \in AllOps, t \in Tasks : ReadRequest(c, op, t)
         \/ \E c \in Clients : CommitRequest(c)
         \/ WorkerStops \/ RecoverRunning \/ ApiStops \/ UploadSource
         \/ UNCHANGED vars
  PROVE  PastRename(u)
<1> USE DEF dbVars, shareVars, threadVars, apiVars, PastRename
<1>1. ASSUME NEW aged \in BOOLEAN, ScanFile(aged)
      PROVE  PastRename(u)
  <2> DEFINE failed(t) == [row[t] EXCEPT !.st = "failed", !.err = "SYNC_SOURCE_CHANGED"]
  <2>1. \A t \in Tasks : failed(t).st = "failed"
    BY DEF TypeOK, Row
  <2>2. \/ UNCHANGED row
        \/ seen.task \in Tasks /\ row' = [row EXCEPT ![seen.task] = failed(seen.task)]
    BY <1>1 DEF ScanFile, TypeOK
  <2>3. row'[u].st \in {row[u].st, "failed"}
    <3> HIDE DEF failed
    <3> QED BY <2>1, <2>2 DEF TypeOK
  <2> QED BY <1>1, <2>3 DEF ScanFile
<1>2. ASSUME NEW t \in Tasks, CreateTask(t)
      PROVE  PastRename(u)
  <2>1. NewRow.st = "pending"
    BY DEF NewRow
  <2>2. row'[u] \in {row[u], NewRow}
    BY <1>2 DEF CreateTask, TypeOK
  <2> QED BY <1>2, <2>1, <2>2 DEF CreateTask
<1>3. CASE ClaimPending
  BY <1>3 DEF ClaimPending, TypeOK
<1>4. ASSUME NEW c \in Clients, CommitUpdate(c)
      PROVE  PastRename(u)
  <2> DEFINE old == req[c].old[u]
  <2>1. old \in Row /\ req[c].op \in {"cancel", "pause", "resume", "retry", "interrupt"}
    BY <1>4 DEF TypeOK, Request, CommitUpdate
  <2>2. row'[u].st \in {row[u].st, Assigned(req[c].op, old).st}
    BY <1>4, FlushStatus DEF CommitUpdate
  <2> QED BY <1>4, <2>1, <2>2, AssignedType DEF CommitUpdate
<1>5. ASSUME NEW c \in Clients, CommitDelete(c)
      PROVE  PastRename(u)
  BY <1>5 DEF CommitDelete, AbsentRow
<1>6. ASSUME NEW c \in Clients, CommitRetryCleanup(c)
      PROVE  PastRename(u)
  BY <1>6 DEF CommitRetryCleanup, TypeOK
<1>7. CASE RecoverRunning
  BY <1>7 DEF RecoverRunning, RecoveredRow
<1>8. CASE WorkerStops \/ ApiStops
  BY <1>8 DEF WorkerStops, Reset, ApiStops
<1> QED
  BY <1>1, <1>2, <1>3, <1>4, <1>5, <1>6, <1>7, <1>8
     DEF CommitRequest, ReadRequest, UploadSource, vars

\* Only whoever is past the rename removes the source.
LEMMA SourceGoes ==
  ASSUME TypeOK, [Next]_vars, src # 0, src' = 0
  PROVE  \E t \in Tasks : PastRename(t)
<1> USE DEF shareVars, PastRename
<1>1. ASSUME NEW t \in Tasks, WorkerStep(t)
      PROVE  RemoveSource(t)
  BY <1>1 DEF WorkerStep, Open, Prepare, Reconcile, Stop, StartCopy, OpenStreams,
     Copy, CopyChunk, EndOfSource, CopyWithoutRow, CheckBeforeVerify, CheckState,
     CommitVerifying, CheckSize, CommitRenaming, Rename, CommitCompleted,
     StartCleanup, FinishCleanup, MarkFailed, ConfirmPaused, EndCancelled, Dies
<1>2. ASSUME NEW t \in Tasks, ApiCleanupStep(t)
      PROVE  ApiRemoveSource(t)
  BY <1>2 DEF ApiCleanupStep, ApiStartCleanup, ApiFinishCleanup
<1>3. ASSUME NEW c \in Clients, CommitRequest(c)
      PROVE  FALSE
  BY <1>3 DEF CommitRequest, CommitUpdate, CommitDelete, CommitRetryCleanup
<1>4. ~UploadSource
  BY DEF UploadSource, TypeOK, Versions
<1> QED
  BY <1>1, <1>2, <1>3, <1>4 DEF Next, vars, ScanFile, CreateTask, ClaimPending,
     ReadRequest, WorkerStops, RecoverRunning, ApiStops, RemoveSource, ApiRemoveSource

\* The inductive step of the data invariant.
LEMMA DataStep ==
  ASSUME TypeOK, DataInv, [Next]_vars
  PROVE  DataInv'
<1>1. ASSUME NEW u \in Tasks, PastRename(u)'
      PROVE  PastRename(u) \/ target' # <<>>
  BY <1>1, PastRenameWorker, PastRenameApi, PastRenameOther DEF Next
<1>2. \A u \in Tasks : PastRename(u)' => target' # <<>>
  BY <1>1, TargetStays DEF DataInv
<1>3. SourceOrTarget'
  BY SourceGoes, TargetStays DEF DataInv, SourceOrTarget
<1> QED BY <1>2, <1>3 DEF DataInv

\* The last copy of the data is never deleted, whatever requests, crashes,
\* retries and uploads interleave.
THEOREM SourceOrTargetCorrect == Spec => []SourceOrTarget
<1>1. Init => DataInv
  BY DEF Init, DataInv, SourceOrTarget, PastRename, AbsentRow
<1>2. TypeOK /\ DataInv /\ [Next]_vars => DataInv'
  BY DataStep
<1>3. DataInv => SourceOrTarget
  BY DEF DataInv
<1> QED BY <1>1, <1>2, <1>3, TypeCorrect, PTL DEF Spec

\* A task that reports completion, or is deleting its source, has its target.
THEOREM CompletedHasTargetCorrect == Spec => []CompletedHasTarget
<1>1. Init => DataInv
  BY DEF Init, DataInv, SourceOrTarget, PastRename, AbsentRow
<1>2. TypeOK /\ DataInv /\ [Next]_vars => DataInv'
  BY DataStep
<1>3. DataInv => CompletedHasTarget
  BY DEF DataInv, CompletedHasTarget, PastRename
<1> QED BY <1>1, <1>2, <1>3, TypeCorrect, PTL DEF Spec

-----------------------------------------------------------------------------
(* The whole is an atomic move                                             *)

\* What one step does to the source and to the target: nothing, a rename, a
\* removal by somebody past the rename, or an upload.
LEMMA SharesStep ==
  ASSUME TypeOK, [Next]_vars
  PROVE  \/ UNCHANGED <<src, target>>
         \/ target = <<>> /\ target' = temp /\ temp # <<>> /\ src' = src
         \/ (\E t \in Tasks : PastRename(t)) /\ src' = 0 /\ target' = target
         \/ src' \in Versions /\ target' = target
<1> USE DEF shareVars, PastRename
<1>1. ASSUME NEW t \in Tasks, WorkerStep(t)
      PROVE  Rename(t) \/ RemoveSource(t) \/ UNCHANGED <<src, target>>
  BY <1>1 DEF WorkerStep, Open, Prepare, Reconcile, Stop, StartCopy, OpenStreams,
     Copy, CopyChunk, EndOfSource, CopyWithoutRow, CheckBeforeVerify, CheckState,
     CommitVerifying, CheckSize, CommitRenaming, CommitCompleted,
     StartCleanup, FinishCleanup, MarkFailed, ConfirmPaused, EndCancelled, Dies
<1>2. ASSUME NEW t \in Tasks, Rename(t)
      PROVE  \/ UNCHANGED <<src, target>>
             \/ target = <<>> /\ target' = temp /\ temp # <<>> /\ src' = src
  BY <1>2 DEF Rename, Dies
<1>3. ASSUME NEW t \in Tasks, RemoveSource(t)
      PROVE  UNCHANGED <<src, target>> \/ (PastRename(t) /\ src' = 0 /\ target' = target)
  BY <1>3 DEF RemoveSource, RemoveOrFail
<1>4. ASSUME NEW t \in Tasks, ApiCleanupStep(t)
      PROVE  UNCHANGED <<src, target>> \/ (PastRename(t) /\ src' = 0 /\ target' = target)
  BY <1>4 DEF ApiCleanupStep, ApiStartCleanup, ApiFinishCleanup, ApiRemoveSource, RemoveOrFail
<1>5. ASSUME NEW c \in Clients, CommitRequest(c)
      PROVE  UNCHANGED <<src, target>>
  BY <1>5 DEF CommitRequest, CommitUpdate, CommitDelete, CommitRetryCleanup
<1>6. CASE UploadSource
  BY <1>6, ConstantsAssumption DEF UploadSource, TypeOK, Versions
<1> QED
  BY <1>1, <1>2, <1>3, <1>4, <1>5, <1>6 DEF Next, vars, ScanFile, CreateTask, ClaimPending,
     ReadRequest, WorkerStops, RecoverRunning, ApiStops

\* Seen from the two shares, the tasks, threads, requests, retries, crashes and
\* the temporary file together implement the atomic move of AtomicMove.
THEOREM Refinement == Spec => MoveSpec
<1>1. Init => Move!Init /\ DataInv
  BY ConstantsAssumption DEF Init, Move!Init, Versions, DataInv, SourceOrTarget, PastRename, AbsentRow
<1>2. TypeOK /\ DataInv /\ [Next]_vars => DataInv'
  BY DataStep
<1>3. TypeOK /\ DataInv /\ [Next]_vars => [Move!Next]_<<src, target>>
  <2> SUFFICES ASSUME TypeOK, DataInv, [Next]_vars
               PROVE  [Move!Next]_<<src, target>>
    OBVIOUS
  <2>1. CASE target = <<>> /\ target' = temp /\ temp # <<>> /\ src' = src
    BY <2>1, TempContents DEF Move!Next, Move!Publish
  <2>2. CASE (\E t \in Tasks : PastRename(t)) /\ src' = 0 /\ target' = target
    BY <2>2 DEF Move!Next, Move!RemoveSource, DataInv
  <2>3. CASE src' \in Versions /\ target' = target
    BY <2>3 DEF Move!Next, Move!Upload
  <2> QED BY <2>1, <2>2, <2>3, SharesStep
<1> QED BY <1>1, <1>2, <1>3, TypeCorrect, PTL DEF Spec, MoveSpec, Move!Spec

-----------------------------------------------------------------------------
(* No running row is abandoned                                             *)

\* What a step of thread t leaves alone of another task u.
Untouched(u) ==
  /\ row'[u].st = row[u].st /\ pc'[u] = pc[u] /\ mem'[u] = mem[u]

\* A thread has its own task, its own session and its own instances.
LEMMA WorkerStepLocal ==
  ASSUME TypeOK, NEW t \in Tasks, WorkerStep(t)
  PROVE  /\ pc[t] # "none"
         /\ apc' = apc /\ amem' = amem /\ worker' \in {worker, "failing"}
         /\ \A u \in Tasks : u # t => Untouched(u)
<1> USE DEF dbVars, shareVars, apiVars, Goto, Untouched
<1>0. /\ mem \in [Tasks -> Row \cup {Expired}] /\ pc \in [Tasks -> WorkerPC]
      /\ row \in [Tasks -> Row]
  BY DEF TypeOK
<1>1. Dies(t) => /\ apc' = apc /\ amem' = amem /\ worker' \in {worker, "failing"}
                 /\ \A u \in Tasks : u # t => Untouched(u)
  BY <1>0 DEF Dies, End
<1>2. Stop(t) => /\ apc' = apc /\ amem' = amem /\ worker' \in {worker, "failing"}
                 /\ \A u \in Tasks : u # t => Untouched(u)
  BY <1>0 DEF Stop
<1>3. CASE Open(t) \/ Prepare(t)
  BY <1>3, <1>0, <1>2 DEF Open, End, Prepare, Reconcile, Raise
<1>4. CASE StartCopy(t)
  BY <1>4, <1>0, <1>1, WorkerWrites DEF StartCopy, Commit, Writes
<1>5. CASE OpenStreams(t) \/ CheckBeforeVerify(t) \/ CheckSize(t)
  BY <1>5, <1>0, <1>1, <1>2 DEF OpenStreams, Raise, CheckBeforeVerify, CheckSize, CheckState
<1>6. CASE Copy(t)
  BY <1>6, <1>0, <1>1, <1>2 DEF Copy, CopyChunk, EndOfSource, CopyWithoutRow, Raise
<1>7. CASE CommitVerifying(t)
  BY <1>7, <1>0, <1>1, WorkerWrites DEF CommitVerifying, Commit, Writes
<1>8. CASE CommitRenaming(t)
  BY <1>8, <1>0, <1>1, WorkerWrites DEF CommitRenaming, Commit, Writes
<1>9. CASE Rename(t)
  BY <1>9, <1>0, <1>1 DEF Rename, Raise
<1>10. CASE CommitCompleted(t)
  BY <1>10, <1>0, <1>1, WorkerWrites DEF CommitCompleted, Commit, Writes
<1>11. CASE StartCleanup(t)
  BY <1>11, <1>0, <1>1 DEF StartCleanup, End
<1>12. CASE RemoveSource(t)
  BY <1>12, <1>0 DEF RemoveSource, RemoveOrFail
<1>13. CASE FinishCleanup(t)
  BY <1>13, <1>0, <1>1, WorkerWrites DEF FinishCleanup, End, Writes
<1>14. CASE MarkFailed(t)
  BY <1>14, <1>0, <1>1, WorkerWrites DEF MarkFailed, End, Writes
<1>15. CASE ConfirmPaused(t)
  BY <1>15, <1>0, <1>1, WorkerWrites DEF ConfirmPaused, End, Writes
<1>16. CASE EndCancelled(t)
  BY <1>16, <1>0 DEF EndCancelled, End
<1> QED
  BY <1>3, <1>4, <1>5, <1>6, <1>7, <1>8, <1>9, <1>10, <1>11, <1>12, <1>13, <1>14,
     <1>15, <1>16 DEF WorkerStep

\* A thread answers for its own row until it has written a final status, or has
\* seen one.
LEMMA RunOwn ==
  ASSUME TypeOK, NEW t \in Tasks, WorkerStep(t), Answered(t)
  PROVE  Answered(t)'
<1> USE DEF dbVars, shareVars, apiVars, Goto, Answered, Released, HeldByApi,
            Exists, RunningStatuses
<1>0. /\ mem \in [Tasks -> Row \cup {Expired}] /\ pc \in [Tasks -> WorkerPC]
      /\ row \in [Tasks -> Row] /\ row[t].st \in TaskStatus
      /\ Expired.st = "expired" /\ Expired \notin Row
  BY DEF TypeOK, Row, Expired, TaskStatus
<1>a. worker' # "down" /\ apc' = apc /\ amem' = amem
  BY WorkerStepLocal
<1>1. CASE Dies(t) /\ ~Exists(t)
  BY <1>0, <1>1, <1>a DEF Dies, End
<1>2. CASE Stop(t)
  BY <1>0, <1>2, <1>a DEF Stop, Stopped, Loaded
<1>3. CASE Open(t)
  BY <1>0, <1>3, <1>a DEF Open, End
<1>4. CASE Prepare(t)
  BY <1>0, <1>4, <1>2, <1>a DEF Prepare, Reconcile, Raise
<1>5. CASE StartCopy(t)
  BY <1>0, <1>5, <1>1, <1>a, WorkerWrites DEF StartCopy, Commit, Writes
<1>6. CASE OpenStreams(t)
  BY <1>0, <1>6, <1>1, <1>a DEF OpenStreams, Raise
<1>7. CASE Copy(t)
  BY <1>0, <1>7, <1>1, <1>2, <1>a DEF Copy, CopyChunk, EndOfSource, CopyWithoutRow, Raise, Loaded
<1>8. CASE CheckBeforeVerify(t)
  BY <1>0, <1>8, <1>1, <1>2, <1>a DEF CheckBeforeVerify, CheckState, Loaded
<1>9. CASE CommitVerifying(t)
  BY <1>0, <1>9, <1>1, <1>a, WorkerWrites DEF CommitVerifying, Commit, Writes
<1>10. CASE CheckSize(t)
  BY <1>0, <1>10, <1>1, <1>2, <1>a DEF CheckSize, CheckState, Loaded, Raise
<1>11. CASE CommitRenaming(t)
  BY <1>0, <1>11, <1>1, <1>a, WorkerWrites DEF CommitRenaming, Commit, Writes
<1>12. CASE Rename(t)
  BY <1>0, <1>12, <1>1, <1>a DEF Rename, Raise
<1>13. CASE CommitCompleted(t)
  BY <1>0, <1>13, <1>1, <1>a, WorkerWrites DEF CommitCompleted, Commit, Writes
<1>14. CASE StartCleanup(t)
  <2>1. CASE MayClean(t) /\ row' = [row EXCEPT ![t].st = "cleaning_source"]
             /\ mem' = [mem EXCEPT ![t] = row'[t]] /\ pc' = [pc EXCEPT ![t] = "remove"]
    <3>1. row'[t].st = "cleaning_source"
      BY <1>0, <2>1 DEF Row
    <3> QED BY <1>0, <1>a, <2>1, <3>1
  <2>2. CASE UNCHANGED row /\ End(t)
    BY <1>0, <1>14, <2>2, <1>a DEF StartCleanup, End
  <2> QED BY <1>14, <2>1, <2>2, <1>1 DEF StartCleanup
<1>15. CASE RemoveSource(t)
  BY <1>0, <1>15, <1>a DEF RemoveSource, RemoveOrFail
<1>16. CASE FinishCleanup(t)
  BY <1>0, <1>16, <1>1, <1>a, WorkerWrites DEF FinishCleanup, End, Writes
<1>17. CASE MarkFailed(t)
  BY <1>0, <1>17, <1>1, <1>a, WorkerWrites DEF MarkFailed, End, Writes
<1>18. CASE ConfirmPaused(t)
  BY <1>0, <1>18, <1>1, <1>a, WorkerWrites DEF ConfirmPaused, End, Writes
<1>19. CASE EndCancelled(t)
  BY <1>0, <1>19, <1>a DEF EndCancelled, End
<1> QED
  BY <1>3, <1>4, <1>5, <1>6, <1>7, <1>8, <1>9, <1>10, <1>11, <1>12, <1>13, <1>14,
     <1>15, <1>16, <1>17, <1>18, <1>19 DEF WorkerStep

\* Nobody else puts a row into a running status behind a thread that has ended
\* or is about to: requests, scans and cleanups, and the steps of other threads.
LEMMA RunOther ==
  ASSUME TypeOK, RunInv, NEW u \in Tasks,
         \/ \E t \in Tasks : t # u /\ WorkerStep(t)
         \/ \E t \in Tasks : ApiCleanupStep(t)
         \/ \E aged \in BOOLEAN : ScanFile(aged)
         \/ \E t \in Tasks : CreateTask(t)
         \/ \E c \in Clients, op \in AllOps, t \in Tasks : ReadRequest(c, op, t)
         \/ \E c \in Clients : CommitRequest(c)
         \/ UploadSource \/ UNCHANGED vars
  PROVE  Answered(u)'
<1> USE DEF dbVars, shareVars, threadVars, apiVars, Answered, Released, HeldByApi,
            RunningStatuses
<1>0. /\ apc \in [Tasks -> CleanPC] /\ row \in [Tasks -> Row]
      /\ amem \in [Tasks -> Row \cup {Expired}]
      /\ Answered(u)
  BY DEF TypeOK, RunInv
<1>1. ASSUME NEW t \in Tasks, t # u, WorkerStep(t)
      PROVE  Answered(u)'
  <2>1. worker # "down"
    BY <1>1, WorkerStepLocal DEF RunInv
  <2> QED BY <1>0, <1>1, <2>1, WorkerStepLocal DEF Untouched
<1>2. ASSUME NEW t \in Tasks, ApiStartCleanup(t)
      PROVE  Answered(u)'
  <2>1. CASE UNCHANGED row /\ EndApiCleanup(t)
    BY <1>0, <1>2, <2>1 DEF ApiStartCleanup, EndApiCleanup
  <2>2. CASE /\ row' = [row EXCEPT ![t].st = "cleaning_source"]
             /\ amem' = [amem EXCEPT ![t] = row'[t]]
             /\ apc' = [apc EXCEPT ![t] = "remove"]
    <3>1. row'[t].st = "cleaning_source" /\ (u # t => row'[u] = row[u])
      BY <1>0, <2>2 DEF Row
    <3>2. CASE u = t
      BY <1>0, <1>2, <2>2, <3>1, <3>2 DEF ApiStartCleanup
    <3>3. CASE u # t
      BY <1>0, <1>2, <2>2, <3>1, <3>3 DEF ApiStartCleanup
    <3> QED BY <3>2, <3>3
  <2> QED BY <1>2, <2>1, <2>2 DEF ApiStartCleanup
<1>3. ASSUME NEW t \in Tasks, ApiRemoveSource(t)
      PROVE  Answered(u)'
  BY <1>0, <1>3 DEF ApiRemoveSource, RemoveOrFail
<1>4. ASSUME NEW t \in Tasks, ApiFinishCleanup(t)
      PROVE  Answered(u)'
  <2> DEFINE new == IF apc[t] = "cleaned" THEN Cleaned(amem[t]) ELSE NotCleaned(amem[t])
  <2>1. new.st = "completed"
    BY <1>0, StatusAssigned
  <2>2. row' = IF Exists(t) THEN [row EXCEPT ![t] = Flush(@, amem[t], new)] ELSE row
    BY <1>4 DEF ApiFinishCleanup
  <2> HIDE DEF new
  <2>3. /\ u # t => row'[u] = row[u] /\ apc'[u] = apc[u] /\ amem'[u] = amem[u]
        /\ apc'[t] = "none"
    BY <1>0, <1>4, <2>2 DEF ApiFinishCleanup, EndApiCleanup
  <2>4. u = t /\ amem[t].st = "cleaning_source" => row'[u].st \in {"absent", "completed"}
    BY <1>0, <2>1, <2>2, FlushStatus DEF Exists
  <2>5. CASE u = t
    BY <1>0, <1>4, <2>3, <2>4, <2>5 DEF ApiFinishCleanup
  <2>6. CASE u # t
    BY <1>0, <1>4, <2>3, <2>6 DEF ApiFinishCleanup
  <2> QED BY <2>5, <2>6
<1>5. ASSUME NEW aged \in BOOLEAN, ScanFile(aged)
      PROVE  Answered(u)'
  <2> DEFINE failed(t) == [row[t] EXCEPT !.st = "failed", !.err = "SYNC_SOURCE_CHANGED"]
  <2>1. \A t \in Tasks : failed(t).st = "failed"
    BY <1>0 DEF Row
  <2>2. \/ UNCHANGED row
        \/ seen.task \in Tasks /\ row' = [row EXCEPT ![seen.task] = failed(seen.task)]
    BY <1>5 DEF ScanFile, TypeOK
  <2>3. row'[u] = row[u] \/ row'[u].st = "failed"
    <3> HIDE DEF failed
    <3> QED BY <1>0, <2>1, <2>2
  <2> QED BY <1>0, <1>5, <2>3 DEF ScanFile
<1>6. ASSUME NEW t \in Tasks, CreateTask(t)
      PROVE  Answered(u)'
  <2>1. NewRow.st = "pending"
    BY DEF NewRow
  <2>2. row'[u] \in {row[u], NewRow}
    BY <1>0, <1>6 DEF CreateTask
  <2> QED BY <1>0, <1>6, <2>1, <2>2 DEF CreateTask
<1>7. ASSUME NEW c \in Clients, CommitUpdate(c)
      PROVE  Answered(u)'
  <2> DEFINE old == req[c].old[u]
  <2>1. old \in Row /\ req[c].op \in {"cancel", "pause", "resume", "retry", "interrupt"}
    BY <1>7 DEF TypeOK, Request, CommitUpdate
  <2>2. row'[u].st \in {row[u].st, Assigned(req[c].op, old).st}
    BY <1>7, FlushStatus DEF CommitUpdate
  <2> QED BY <1>0, <1>7, <2>1, <2>2, AssignedType DEF CommitUpdate
<1>8. ASSUME NEW c \in Clients, CommitDelete(c)
      PROVE  Answered(u)'
  <2>1. row'[u] = row[u] \/ row'[u].st = "absent"
    BY <1>8 DEF CommitDelete, AbsentRow
  <2> QED BY <1>0, <1>8, <2>1 DEF CommitDelete
<1>9. ASSUME NEW c \in Clients, CommitRetryCleanup(c)
      PROVE  Answered(u)'
  BY <1>0, <1>9 DEF CommitRetryCleanup
<1>10. ASSUME NEW c \in Clients, NEW op \in AllOps, NEW t \in Tasks, ReadRequest(c, op, t)
       PROVE  Answered(u)'
  BY <1>0, <1>10 DEF ReadRequest
<1>11. CASE UploadSource \/ UNCHANGED vars
  BY <1>0, <1>11 DEF UploadSource, vars
<1> QED
  BY <1>1, <1>2, <1>3, <1>4, <1>5, <1>6, <1>7, <1>8, <1>9, <1>10, <1>11
     DEF ApiCleanupStep, CommitRequest

\* A claim hands its rows to threads; a stop takes all threads away, and the
\* next start leaves no running row.
LEMMA RunProcess ==
  ASSUME TypeOK, RunInv, ClaimPending \/ WorkerStops \/ RecoverRunning \/ ApiStops
  PROVE  RunInv'
<1> USE DEF dbVars, shareVars, threadVars, apiVars, RunInv, Answered, Released, HeldByApi,
            RunningStatuses
<1>0. row \in [Tasks -> Row] /\ pc \in [Tasks -> WorkerPC]
  BY DEF TypeOK
<1>1. CASE ClaimPending
  <2> DEFINE claimed(t) == [row[t] EXCEPT !.st = "downloading"]
  <2>1. PICK S \in SUBSET Tasks :
          /\ row' = [t \in Tasks |-> IF t \in S THEN claimed(t) ELSE row[t]]
          /\ pc' = [t \in Tasks |-> IF t \in S THEN "open" ELSE pc[t]]
    BY <1>1 DEF ClaimPending
  <2> HIDE DEF claimed
  <2>2. /\ worker = "up" /\ \A t \in Tasks : pc[t] = "none"
        /\ UNCHANGED <<worker, mem, apc, amem>>
    BY <1>1 DEF ClaimPending
  <2> QED BY <2>1, <2>2
<1>2. CASE WorkerStops
  BY <1>2 DEF WorkerStops, Reset
<1>3. CASE RecoverRunning
  BY <1>0, <1>3, RecoveredRowType DEF RecoverRunning
<1>4. CASE ApiStops
  BY <1>4 DEF ApiStops
<1> QED BY <1>1, <1>2, <1>3, <1>4

\* Every row in a running status is worked on, or will be recovered: requests,
\* deletions, failures and restarts leave no row behind that keeps a slot of
\* worker.concurrency for ever.
THEOREM NoOrphanRunningCorrect == Spec => []NoOrphanRunning
<1>1. Init => RunInv
  BY DEF Init, RunInv, Answered, Released, AbsentRow, RunningStatuses
<1>2. TypeOK /\ RunInv /\ [Next]_vars => RunInv'
  <2> SUFFICES ASSUME TypeOK, RunInv, [Next]_vars
               PROVE  RunInv'
    OBVIOUS
  <2>1. CASE ClaimPending \/ WorkerStops \/ RecoverRunning \/ ApiStops
    BY <2>1, RunProcess
  <2>2. CASE ~(ClaimPending \/ WorkerStops \/ RecoverRunning \/ ApiStops)
    <3> SUFFICES ASSUME NEW u \in Tasks
                 PROVE  Answered(u)'
      BY DEF RunInv
    <3> QED BY <2>2, RunOwn, RunOther DEF Next, RunInv
  <2> QED BY <2>1, <2>2
<1>3. RunInv => NoOrphanRunning
  BY DEF RunInv, Answered, Released, HeldByApi, NoOrphanRunning, RunningStatuses
<1> QED BY <1>1, <1>2, <1>3, TypeCorrect, PTL DEF Spec

-----------------------------------------------------------------------------
(* What is delivered is whole                                              *)

\* A row comes into being by CreateTask alone: no commit brings back a row that
\* has been deleted.
LEMMA RowsAppear ==
  ASSUME TypeOK, [Next]_vars, NEW u \in Tasks, Exists(u)'
  PROVE  Exists(u) \/ CreateTask(u)
<1> USE DEF dbVars, shareVars, threadVars, apiVars
<1>0. row \in [Tasks -> Row]
  BY DEF TypeOK
<1>1. ASSUME NEW t \in Tasks, WorkerStep(t)
      PROVE  Exists(u)
  <2>1. CASE u # t
    BY <1>1, <2>1, WorkerStepLocal DEF Untouched, Exists
  <2>2. CASE u = t /\ UNCHANGED row
    BY <2>2 DEF Exists
  <2>3. CASE u = t /\ row' # row
    BY <1>1, <2>3 DEF WorkerStep, Open, Prepare, Reconcile, Stop, StartCopy, OpenStreams,
       Copy, CopyChunk, EndOfSource, CopyWithoutRow, CheckBeforeVerify, CheckState,
       CommitVerifying, CheckSize, CommitRenaming, Rename, CommitCompleted,
       StartCleanup, MayClean, RemoveSource, FinishCleanup, MarkFailed, ConfirmPaused,
       EndCancelled, Dies, Exists
  <2> QED BY <2>1, <2>2, <2>3
<1>2. ASSUME NEW t \in Tasks, ApiCleanupStep(t)
      PROVE  Exists(u)
  BY <1>0, <1>2 DEF ApiCleanupStep, ApiStartCleanup, ApiRemoveSource, ApiFinishCleanup,
     MayClean, Exists
<1>3. ASSUME NEW aged \in BOOLEAN, ScanFile(aged)
      PROVE  Exists(u)
  <2>1. \/ UNCHANGED row
        \/ /\ seen.task \in Tasks /\ row[seen.task].st = "pending"
           /\ \A t \in Tasks : t # seen.task => row'[t] = row[t]
    BY <1>0, <1>3 DEF ScanFile, TypeOK
  <2> QED BY <2>1 DEF Exists
<1>4. ASSUME NEW t \in Tasks, CreateTask(t)
      PROVE  Exists(u) \/ u = t
  BY <1>0, <1>4 DEF CreateTask, Exists
<1>5. ASSUME ClaimPending
      PROVE  Exists(u)
  <2>1. row'[u] = row[u] \/ row[u].st = "pending"
    BY <1>0, <1>5 DEF ClaimPending
  <2> QED BY <2>1 DEF Exists
<1>6. ASSUME NEW c \in Clients, CommitRequest(c)
      PROVE  Exists(u)
  <2>1. CASE CommitUpdate(c)
    <3>1. row'[u] = row[u] \/ Exists(u)
      BY <1>0, <2>1 DEF CommitUpdate
    <3> QED BY <3>1 DEF Exists
  <2>2. CASE CommitDelete(c)
    <3>1. row'[u] = row[u] \/ row'[u] = AbsentRow
      BY <1>0, <2>2 DEF CommitDelete
    <3> QED BY <3>1 DEF Exists, AbsentRow
  <2>3. CASE CommitRetryCleanup(c)
    BY <2>3 DEF CommitRetryCleanup, Exists
  <2> QED BY <1>6, <2>1, <2>2, <2>3 DEF CommitRequest
<1>7. ASSUME RecoverRunning
      PROVE  Exists(u)
  BY <1>0, <1>7 DEF RecoverRunning, RecoveredRow, RunningStatuses, Exists
<1>8. ASSUME NEW c \in Clients, NEW op \in AllOps, NEW t \in Tasks, ReadRequest(c, op, t)
      PROVE  Exists(u)
  BY <1>8 DEF ReadRequest, Exists
<1>9. CASE WorkerStops \/ ApiStops \/ UploadSource \/ UNCHANGED vars
  BY <1>9 DEF WorkerStops, ApiStops, UploadSource, vars, Exists
<1> QED BY <1>1, <1>2, <1>3, <1>4, <1>5, <1>6, <1>7, <1>8, <1>9 DEF Next

\* What the steps do to the row of the seen file, to the versions and to the
\* source, as long as nothing is uploaded.
LEMMA SeenStep ==
  ASSUME TypeOK, [Next]_vars, last' = 1
  PROVE  /\ last = 1
         /\ src' \in {src, 0}
         /\ \/ UNCHANGED <<seen, ver>>
            \/ ver' = ver /\ src # 0 /\ seen'.ver = src /\ seen'.st # "absent"
               /\ seen'.task \in {NoTask, seen.task}
               /\ (seen'.task = NoTask => seen.task = NoTask \/ seen.ver # src \/ seen.st = "absent")
            \/ ver' = ver /\ seen'.ver = seen.ver /\ seen'.task = seen.task
               /\ seen'.st # "absent"
            \/ \E t \in Tasks : /\ CreateTask(t) /\ ver' = [ver EXCEPT ![t] = seen.ver]
                               /\ seen.task = NoTask
                               /\ seen'.ver = seen.ver /\ seen'.task = t /\ seen'.st # "absent"
            \/ ver' = ver /\ seen'.ver = seen.ver /\ seen'.st = seen.st /\ seen'.task = NoTask
               /\ (\A t \in Tasks : t = seen.task => ~Exists(t)')
<1> USE DEF dbVars, shareVars, threadVars, apiVars
<1>0. /\ seen \in [st : SeenStatus, ver : Versions, task : Tasks \cup {NoTask}]
      /\ row \in [Tasks -> Row] /\ last \in Nat
  BY DEF TypeOK, Versions
<1>1. ASSUME NEW t \in Tasks, WorkerStep(t), ~CommitCompleted(t), ~RemoveSource(t)
      PROVE  UNCHANGED <<seen, ver, src, last>>
  BY <1>1 DEF WorkerStep, Open, Prepare, Reconcile, Stop, StartCopy, OpenStreams,
     Copy, CopyChunk, EndOfSource, CopyWithoutRow, CheckBeforeVerify, CheckState,
     CommitVerifying, CheckSize, CommitRenaming, Rename,
     StartCleanup, FinishCleanup, MarkFailed, ConfirmPaused, EndCancelled, Dies
<1>2. ASSUME NEW t \in Tasks, RemoveSource(t)
      PROVE  UNCHANGED <<seen, ver, last>> /\ src' \in {src, 0}
  BY <1>2 DEF RemoveSource, RemoveOrFail
<1>3. ASSUME NEW t \in Tasks, CommitCompleted(t)
      PROVE  /\ UNCHANGED <<ver, src, last>>
             /\ \/ UNCHANGED seen
                \/ seen'.ver = seen.ver /\ seen'.task = seen.task /\ seen'.st # "absent"
  BY <1>0, <1>3 DEF CommitCompleted, Dies
<1>4. ASSUME NEW t \in Tasks, ApiCleanupStep(t)
      PROVE  UNCHANGED <<seen, ver, last>> /\ src' \in {src, 0}
  BY <1>4 DEF ApiCleanupStep, ApiStartCleanup, ApiRemoveSource, ApiFinishCleanup, RemoveOrFail
<1>5. ASSUME NEW aged \in BOOLEAN, ScanFile(aged)
      PROVE  /\ UNCHANGED <<ver, src, last>> /\ src # 0
             /\ seen'.ver = src /\ seen'.st # "absent"
             /\ seen'.task \in {NoTask, seen.task}
             /\ seen'.task = NoTask => seen.task = NoTask \/ seen.ver # src \/ seen.st = "absent"
  BY <1>0, <1>5 DEF ScanFile
<1>6. ASSUME NEW t \in Tasks, CreateTask(t)
      PROVE  /\ UNCHANGED <<src, last>>
             /\ \/ ver' = ver /\ seen'.ver = seen.ver /\ seen'.task = seen.task
                   /\ seen'.st # "absent"
                \/ /\ ver' = [ver EXCEPT ![t] = seen.ver] /\ seen.task = NoTask
                   /\ seen'.ver = seen.ver /\ seen'.task = t /\ seen'.st # "absent"
  BY <1>0, <1>6 DEF CreateTask
<1>7. ASSUME NEW c \in Clients, CommitDelete(c)
      PROVE  /\ UNCHANGED <<ver, src, last>>
             /\ \/ UNCHANGED seen
                \/ /\ seen'.ver = seen.ver /\ seen'.st = seen.st /\ seen'.task = NoTask
                   /\ \A t \in Tasks : t = seen.task => ~Exists(t)'
  <2>1. UNCHANGED <<ver, src, last>>
    BY <1>7 DEF CommitDelete
  <2>2. CASE seen.task \in req[c].on
    <3>1. seen'.ver = seen.ver /\ seen'.st = seen.st /\ seen'.task = NoTask
      BY <1>0, <1>7, <2>2 DEF CommitDelete
    <3>2. \A t \in Tasks : t = seen.task => row'[t] = AbsentRow
      BY <1>7, <2>2 DEF CommitDelete
    <3> QED BY <2>1, <3>1, <3>2 DEF Exists, AbsentRow
  <2>3. CASE seen.task \notin req[c].on
    BY <1>0, <1>7, <2>1, <2>3 DEF CommitDelete
  <2> QED BY <2>2, <2>3
<1>8. ASSUME NEW c \in Clients, CommitUpdate(c) \/ CommitRetryCleanup(c)
      PROVE  UNCHANGED <<seen, ver, src, last>>
  BY <1>8 DEF CommitUpdate, CommitRetryCleanup
<1>9. ~UploadSource
  BY <1>0 DEF UploadSource, TypeOK, Versions
<1>10. ASSUME \/ ClaimPending \/ WorkerStops \/ RecoverRunning \/ ApiStops \/ UNCHANGED vars
              \/ \E c \in Clients, op \in AllOps, t \in Tasks : ReadRequest(c, op, t)
       PROVE  UNCHANGED <<seen, ver, src, last>>
  BY <1>10 DEF ClaimPending, WorkerStops, RecoverRunning, ApiStops, ReadRequest, vars
<1> QED
  BY <1>1, <1>2, <1>3, <1>4, <1>5, <1>6, <1>7, <1>8, <1>9, <1>10 DEF Next, CommitRequest

\* Which threads run after a step: those that ran, or rows that were pending.
LEMMA ThreadsStep ==
  ASSUME TypeOK, [Next]_vars
  PROVE  \/ \A t \in Tasks : pc'[t] # "none" => pc[t] # "none"
         \/ \A t \in Tasks : pc'[t] # "none" => pc'[t] = "open" /\ Exists(t)
<1> USE DEF dbVars, shareVars, threadVars, apiVars
<1>1. ASSUME NEW t \in Tasks, WorkerStep(t)
      PROVE  \A u \in Tasks : pc'[u] # "none" => pc[u] # "none"
  BY <1>1, WorkerStepLocal DEF Untouched
<1>2. ASSUME ClaimPending
      PROVE  \A t \in Tasks : pc'[t] # "none" => pc'[t] = "open" /\ Exists(t)
  BY <1>2 DEF ClaimPending, Exists
<1>3. ASSUME NEW t \in Tasks, ApiCleanupStep(t)
      PROVE  UNCHANGED pc
  BY <1>3 DEF ApiCleanupStep, ApiStartCleanup, ApiRemoveSource, ApiFinishCleanup
<1>4. ASSUME NEW c \in Clients, CommitRequest(c)
      PROVE  UNCHANGED pc
  BY <1>4 DEF CommitRequest, CommitUpdate, CommitDelete, CommitRetryCleanup
<1>5. ASSUME WorkerStops
      PROVE  \A t \in Tasks : pc'[t] = "none"
  BY <1>5 DEF WorkerStops, Reset
<1> QED
  BY <1>1, <1>2, <1>3, <1>4, <1>5
     DEF Next, vars, ScanFile, CreateTask, RecoverRunning, ApiStops, UploadSource, ReadRequest

\* As long as the source is uploaded once there is one row at a time, and one
\* thread: the row of the seen file is not unlinked from a task that exists.
LEMMA OneRowStep ==
  ASSUME TypeOK, OneRow, [Next]_vars, last' = 1
  PROVE  OneRow'
<1>1. src' \in {0, 1}
  BY SeenStep DEF OneRow
<1>2. seen'.ver = 1 /\ \A t \in Tasks : ver'[t] = 1
  BY SeenStep DEF OneRow, TypeOK
<1>3. \A t \in Tasks : Exists(t)' => seen'.task = t
  <2> SUFFICES ASSUME NEW t \in Tasks, Exists(t)'
               PROVE  seen'.task = t
    OBVIOUS
  <2>1. CASE Exists(t)
    <3>1. seen.task = t /\ t # NoTask
      BY <2>1, ConstantsAssumption DEF OneRow
    <3> QED BY <3>1, SeenStep DEF OneRow
  <2>2. CASE CreateTask(t) /\ ~Exists(t)
    <3>1. row'[t] # row[t]
      BY <2>2 DEF Exists
    <3> QED BY <2>2, <3>1 DEF CreateTask, TypeOK
  <2> QED BY <2>1, <2>2, RowsAppear
<1>4. seen'.st = "absent" => seen'.task = NoTask
  BY SeenStep DEF OneRow
<1>5. \A t, u \in Tasks : pc'[t] # "none" /\ pc'[u] # "none" => t = u
  BY ThreadsStep DEF OneRow
<1> QED BY <1>1, <1>2, <1>3, <1>4, <1>5 DEF OneRow

\* An empty temporary file is a beginning, and the next chunk makes the next one.
LEMMA Beginnings ==
  ASSUME NEW s \in Contents, s = Beginning(Len(s)), 1 \in Versions
  PROVE  /\ <<>> = Beginning(0) /\ Len(<<>>) = 0
         /\ LET longer == Append(s, [v |-> 1, i |-> Len(s) + 1]) IN
              longer = Beginning(Len(longer)) /\ Len(longer) = Len(s) + 1
<1> DEFINE c == [v |-> 1, i |-> Len(s) + 1]
           longer == Append(s, c)
<1>1. s \in Seq(Chunk) /\ c \in Chunk /\ Len(s) \in Nat
  BY DEF Contents, Chunk
<1>2. Len(longer) = Len(s) + 1 /\ longer \in Seq(Chunk)
  BY <1>1
<1>3. \A k \in 1..Len(s) : s[k] = [v |-> 1, i |-> k]
  BY DEF Beginning
<1>4. \A k \in 1..(Len(s) + 1) : longer[k] = [v |-> 1, i |-> k]
  <2>1. longer[Len(s) + 1] = c /\ \A k \in 1..Len(s) : longer[k] = s[k]
    <3> HIDE DEF c
    <3> QED BY <1>1
  <2> HIDE DEF longer
  <2> SUFFICES ASSUME NEW k \in 1..(Len(s) + 1) PROVE longer[k] = [v |-> 1, i |-> k]
    OBVIOUS
  <2>2. CASE k = Len(s) + 1
    BY <2>1, <2>2
  <2>3. CASE k \in 1..Len(s)
    BY <1>3, <2>1, <2>3
  <2> QED BY <1>1, <2>2, <2>3
<1>5. longer = Beginning(Len(longer))
  BY <1>2, <1>4 DEF Beginning
<1>6. <<>> = Beginning(0)
  BY DEF Beginning
<1> QED BY <1>2, <1>5, <1>6

\* The contents as one thread may find them (WholeInv for a single task).
WholeFor(t) ==
  /\ Len(temp) <= Size[1] /\ temp = Beginning(Len(temp))
  /\ pc[t] \in {"start", "stream", "copy"} => pos[t] = Len(temp)
  /\ pc[t] \in {"commitRenaming", "rename"} => Len(temp) = Size[1]
  /\ target # <<>> => target = File(1)

\* What the thread of the one row does: only while it stands at the end of the
\* temporary file it appends, and only a file of the right size is renamed.
LEMMA WholeWorker ==
  ASSUME MaxStale = 0, TypeOK, OneRow, NEW t \in Tasks, WorkerStep(t), WholeFor(t)
  PROVE  WholeFor(t)'
<1> USE DEF dbVars, shareVars, apiVars, Goto, WholeFor
<1>0. /\ pc \in [Tasks -> WorkerPC] /\ pos \in [Tasks -> Nat] /\ Len(temp) \in Nat
      /\ ver[t] = 1 /\ Size[1] \in Nat /\ src \in {0, 1} /\ 1 \in Versions
  BY ConstantsAssumption, TempContents DEF TypeOK, OneRow, Versions
<1>1. <<>> = Beginning(0) /\ Len(<<>>) = 0
  BY TempContents, Beginnings, <1>0
<1>2. CASE /\ UNCHANGED <<temp, target>>
           /\ pc'[t] \notin {"start", "stream", "copy", "commitRenaming", "rename"}
  BY <1>2
<1>3. Dies(t) => WholeFor(t)'
  BY <1>0, <1>2 DEF Dies, End
<1>4. Stop(t) => WholeFor(t)'
  BY <1>0, <1>2 DEF Stop, Stopped
<1>5. CASE Open(t)
  BY <1>0, <1>2, <1>5 DEF Open, End
<1>6. CASE Prepare(t)
  <2>1. CASE pc' = [pc EXCEPT ![t] = "start"] /\ UNCHANGED target
    <3>1. \/ temp' = <<>> /\ pos'[t] = 0
          \/ temp' = temp /\ pos'[t] = Len(temp)
      <4>1. pc'[t] = "start"
        BY <1>0, <2>1
      <4>2. Reconcile(t) /\ ~(\E code \in ErrorCode : Raise(t, code))
        BY <1>0, <1>6, <4>1 DEF Prepare, Stop, Stopped, Raise
      <4>3. \/ temp' = <<>> /\ pos' = [pos EXCEPT ![t] = 0]
            \/ pos' = [pos EXCEPT ![t] = Len(temp)] /\ UNCHANGED temp
            \/ Len(temp) \in 1..MaxStale
        BY <4>2, Literals DEF Reconcile
      <4> QED BY <1>0, <4>3
    <3> QED BY <1>0, <1>1, <2>1, <3>1
  <2> QED BY <1>0, <1>2, <1>4, <1>6, <2>1 DEF Prepare, Reconcile, Raise
<1>7. CASE StartCopy(t)
  BY <1>0, <1>3, <1>7 DEF StartCopy, Commit
<1>8. CASE OpenStreams(t)
  BY <1>0, <1>2, <1>3, <1>8 DEF OpenStreams, Raise
<1>9. CASE CopyChunk(t)
  <2>1. CASE /\ src # 0 /\ pos[t] < Size[src]
             /\ temp' = Append(temp, [v |-> src, i |-> pos[t] + 1])
             /\ pos' = [pos EXCEPT ![t] = @ + 1] /\ UNCHANGED <<pc, target>>
             /\ pc[t] = "copy"
    <3>1. src = 1 /\ pos[t] = Len(temp) /\ pos'[t] = Len(temp) + 1
      BY <1>0, <2>1
    <3>2. temp' = Append(temp, [v |-> 1, i |-> Len(temp) + 1])
      BY <2>1, <3>1
    <3>3. temp' = Beginning(Len(temp')) /\ Len(temp') = Len(temp) + 1
      BY <1>0, <3>2, TempContents, Beginnings
    <3> QED BY <1>0, <2>1, <3>1, <3>3
  <2> QED BY <1>0, <1>2, <1>9, <2>1 DEF CopyChunk, Raise
<1>10. CASE Copy(t)
  BY <1>0, <1>2, <1>3, <1>4, <1>9, <1>10 DEF Copy, EndOfSource, CopyWithoutRow
<1>11. CASE CheckBeforeVerify(t)
  BY <1>0, <1>2, <1>3, <1>4, <1>11 DEF CheckBeforeVerify, CheckState
<1>12. CASE CommitVerifying(t)
  BY <1>0, <1>2, <1>3, <1>12 DEF CommitVerifying, Commit
<1>13. CASE CheckSize(t)
  BY <1>0, <1>2, <1>3, <1>4, <1>13 DEF CheckSize, CheckState, Raise
<1>14. CASE CommitRenaming(t)
  BY <1>0, <1>3, <1>14 DEF CommitRenaming, Commit
<1>15. CASE Rename(t)
  <2>1. CASE /\ target' = temp /\ temp' = <<>> /\ pc[t] = "rename"
             /\ pc'[t] \in {"commitCompleted", "fail"}
    <3>1. temp = File(1)
      BY <2>1 DEF Beginning, File
    <3> QED BY <1>0, <1>1, <2>1, <3>1 DEF File
  <2> QED BY <1>0, <1>2, <1>3, <1>15, <2>1 DEF Rename, Raise
<1>16. CASE EndCancelled(t)
  BY <1>0, <1>1, <1>16 DEF EndCancelled, End
<1>17. CASE \/ CommitCompleted(t) \/ StartCleanup(t) \/ RemoveSource(t)
            \/ FinishCleanup(t) \/ MarkFailed(t) \/ ConfirmPaused(t)
  <2>1. UNCHANGED <<temp, target>>
    BY <1>17 DEF CommitCompleted, StartCleanup, RemoveSource, FinishCleanup, MarkFailed,
       ConfirmPaused, Dies
  <2>2. pc'[t] \in {"cleanup", "none", "remove", "cleaned", "cleanFailed"}
    BY <1>0, <1>17 DEF CommitCompleted, StartCleanup, RemoveSource, RemoveOrFail,
       FinishCleanup, MarkFailed, ConfirmPaused, Dies, End
  <2> QED BY <1>2, <2>1, <2>2
<1> QED
  BY <1>5, <1>6, <1>7, <1>8, <1>10, <1>11, <1>12, <1>13, <1>14, <1>15, <1>16, <1>17
     DEF WorkerStep

\* Nobody but a worker thread touches the temporary file and the target.
LEMMA ContentsKept ==
  ASSUME TypeOK, [Next]_vars, \A t \in Tasks : ~WorkerStep(t)
  PROVE  /\ UNCHANGED <<temp, target>>
         /\ \A t \in Tasks : pc'[t] \in {"none", "open"} \/ (pc'[t] = pc[t] /\ pos'[t] = pos[t])
<1> USE DEF dbVars, shareVars, threadVars, apiVars
<1>1. ASSUME NEW t \in Tasks, ApiCleanupStep(t)
      PROVE  UNCHANGED <<temp, target, pc, pos>>
  BY <1>1 DEF ApiCleanupStep, ApiStartCleanup, ApiRemoveSource, ApiFinishCleanup
<1>2. ASSUME NEW c \in Clients, CommitRequest(c)
      PROVE  UNCHANGED <<temp, target, pc, pos>>
  BY <1>2 DEF CommitRequest, CommitUpdate, CommitDelete, CommitRetryCleanup
<1>3. ASSUME ClaimPending \/ WorkerStops
      PROVE  /\ UNCHANGED <<temp, target>>
             /\ \A t \in Tasks : pc'[t] \in {"none", "open"}
  BY <1>3 DEF ClaimPending, WorkerStops, Reset
<1> QED
  BY <1>1, <1>2, <1>3 DEF Next, vars, ScanFile, CreateTask, RecoverRunning, ApiStops,
     UploadSource, ReadRequest

LEMMA WholeStep ==
  ASSUME MaxStale = 0, TypeOK, WholeInv, [Next]_vars
  PROVE  WholeInv'
<1> SUFFICES ASSUME last' = 1
             PROVE  /\ OneRow'
                    /\ Len(temp') <= Size[1] /\ temp' = Beginning(Len(temp'))
                    /\ target' # <<>> => target' = File(1)
                    /\ \A t \in Tasks : WholeFor(t)'
  BY DEF WholeInv, WholeFor, File
<1>1. OneRow /\ \A t \in Tasks : WholeFor(t)
  BY SeenStep DEF WholeInv, WholeFor
<1>2. OneRow'
  BY <1>1, OneRowStep
<1>3. CASE \A t \in Tasks : ~WorkerStep(t)
  BY <1>1, <1>2, <1>3, ContentsKept, SeenStep DEF WholeInv, WholeFor, File
<1>4. ASSUME NEW t \in Tasks, WorkerStep(t)
      PROVE  /\ Len(temp') <= Size[1] /\ temp' = Beginning(Len(temp'))
             /\ target' # <<>> => target' = File(1)
             /\ \A u \in Tasks : WholeFor(u)'
  <2>1. WholeFor(t)'
    BY <1>1, <1>4, WholeWorker
  <2>2. pc[t] # "none" /\ \A u \in Tasks : u # t => pc'[u] = pc[u]
    BY <1>4, WorkerStepLocal DEF Untouched
  <2>3. \A u \in Tasks : u # t => pc'[u] = "none"
    BY <1>1, <2>2 DEF OneRow
  <2> QED BY <2>1, <2>3 DEF WholeFor, File
<1> QED BY <1>2, <1>3, <1>4

\* As long as the source is uploaded only once, what is delivered is the whole
\* file: pauses, failures, kills, truncations and resumptions at an offset leave
\* no gap and no repetition.  Assumed: size() of an existing temporary file
\* does not fail (with MaxStale > 0 it may, and the property is refuted).
THEOREM TargetIsWholeCorrect ==
  ASSUME MaxStale = 0
  PROVE  Spec => []TargetIsWhole
<1>1. Init => WholeInv
  <2> SUFFICES ASSUME Init PROVE WholeInv
    OBVIOUS
  <2>1. Size[1] \in Nat /\ <<>> = Beginning(0) /\ Len(<<>>) = 0
    BY ConstantsAssumption DEF Versions, Beginning
  <2>2. OneRow
    BY DEF Init, OneRow, Exists, AbsentRow
  <2> QED BY <2>1, <2>2 DEF Init, WholeInv
<1>2. TypeOK /\ WholeInv /\ [Next]_vars => WholeInv'
  BY WholeStep
<1>3. WholeInv => TargetIsWhole
  BY DEF WholeInv, TargetIsWhole
<1> QED BY <1>1, <1>2, <1>3, TypeCorrect, PTL DEF Spec

=============================================================================

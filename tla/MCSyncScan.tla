----------------------------- MODULE MCSyncScan -----------------------------
(* Instances of SyncScan for TLC.  In some behaviours the worker is alone:   *)
(* there, requests of the API do not scan and create no tasks, so that more  *)
(* holds.                                                                    *)
EXTENDS SyncScan, TLC

Symmetry == Permutations(Tasks) \cup Permutations(Requests)

VARIABLE alone
Alone == \A r \in Requests : pc[r] = "idle"
MCInit == Init /\ alone \in BOOLEAN
MCNext ==
  /\ Next /\ UNCHANGED alone
  /\ alone => Alone'
MCSpec == MCInit /\ [][MCNext]_<<vars, alone>> /\ Fairness

\* LinkedIsSeen and NewestIsTasked, where only the worker scans and creates.
LinkedIsSeenAlone == alone => LinkedIsSeen
NewestIsTaskedAlone ==
  alone /\ src = MaxVersion ~>
    \/ Tasked(MaxVersion) \/ seen = [st |-> "completed", ver |-> MaxVersion, task |-> seen.task]
    \/ src = 0 \/ worker = "down"
=============================================================================

--------------------------- MODULE AtomicDelivery ---------------------------
(***************************************************************************)
(* What saving a share and delivering its files promises to somebody who   *)
(* sees the staging directory, the target directory, and whether the share *)
(* counts as saved: it counts as saved only when all of it has been; every *)
(* file appears at the target in one step, whole, and nothing but people   *)
(* replaces or removes it there; and nothing that counts as saved is       *)
(* deleted before everything has been delivered.                           *)
(***************************************************************************)
CONSTANTS
  Files,
  Content   \* what each file is; <<>> is "no file"

VARIABLES
  saved,    \* whether the share counts as saved
  staging,  \* the files in the staging directory
  target,   \* what is at the target of each file
  taken     \* the files that people have taken from there

Init ==
  /\ saved = FALSE /\ staging = {}
  /\ target = [f \in Files |-> <<>>] /\ taken = {}

Delivered(f) == target[f] = Content[f] \/ f \in taken

Save ==
  /\ ~saved
  /\ staging' \in SUBSET Files
  /\ saved' \in {FALSE, staging' = Files}
  /\ UNCHANGED <<target, taken>>

Publish(f) ==
  /\ target[f] = <<>>
  /\ target' = [target EXCEPT ![f] = Content[f]]
  /\ taken' = taken \ {f}
  /\ UNCHANGED <<saved, staging>>

Clean ==
  /\ \A f \in Files : Delivered(f)
  /\ staging' \in SUBSET staging
  /\ UNCHANGED <<saved, target, taken>>

Forget ==
  /\ saved' = FALSE
  /\ UNCHANGED <<staging, target, taken>>

TakeAway(f) ==
  /\ target[f] # <<>>
  /\ target' = [target EXCEPT ![f] = <<>>]
  /\ taken' = taken \cup {f}
  /\ UNCHANGED <<saved, staging>>

Next ==
  \/ Save \/ Clean \/ Forget
  \/ \E f \in Files : Publish(f) \/ TakeAway(f)

Spec == Init /\ [][Next]_<<saved, staging, target, taken>>
=============================================================================

----------------------------- MODULE AtomicMove -----------------------------
(***************************************************************************)
(* What moving a file promises to somebody who looks only at the two       *)
(* shares: the file appears at the target in one step and from then on     *)
(* nothing replaces, extends or removes it; the source disappears only     *)
(* after that.  People may upload the source again at any time.            *)
(***************************************************************************)
EXTENDS Integers, Sequences

CONSTANTS
  Versions,   \* what can be at the source path
  Contents    \* what can be at the target path; <<>> is "no file"

VARIABLES
  src,        \* the version at the source path, 0 when there is no file
  dst         \* the content at the target path

Init == src \in Versions /\ dst = <<>>

Publish ==
  /\ dst = <<>>
  /\ dst' \in Contents \ {<<>>}
  /\ src' = src

RemoveSource ==
  /\ dst # <<>>
  /\ src' = 0
  /\ dst' = dst

Upload ==
  /\ src' \in Versions
  /\ dst' = dst

Next == Publish \/ RemoveSource \/ Upload

Spec == Init /\ [][Next]_<<src, dst>>
=============================================================================

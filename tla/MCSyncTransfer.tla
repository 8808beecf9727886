--------------------------- MODULE MCSyncTransfer ---------------------------
(* Instances of SyncTransfer for TLC. *)
EXTENDS SyncTransfer, TLC

\* Versions of equal length (a change that only the mtime tells), growing and
\* shrinking ones.
SizeOne    == <<2>>
SizeThree  == <<3>>
SizeUnit   == <<1>>
SizeEqual  == <<2, 2>>
SizeGrow   == <<1, 2>>
SizeShrink == <<2, 1>>

\* Tasks are interchangeable: nothing orders them.
Symmetry == Permutations(Tasks) \cup Permutations(Clients)
=============================================================================

--------------------------- MODULE MCCloudTransfer ---------------------------
(* Instances of CloudTransfer for TLC. *)
EXTENDS CloudTransfer

\* A file with a middle to be stopped at, and a second one behind it.
SizeThreeTwo == <<3, 2>>
=============================================================================

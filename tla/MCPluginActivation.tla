------------------------ MODULE MCPluginActivation ------------------------
(* Small instances of PluginActivation.                                    *)
EXTENDS PluginActivation, TLC

\* pa is in both commits, pb only in the second.
CONSTANTS c1, c2, pa, pb, i1, i2
MCContains == [c \in {c1, c2} |-> IF c = c1 THEN {pa} ELSE {pa, pb}]
MCContainsEach == [c \in {c1, c2} |-> IF c = c1 THEN {pa} ELSE {pb}]
MCContainsOne == [c \in {c1, c2} |-> {pb}]
Symmetry == Permutations(Clients) \cup Permutations(RepoIds)

\* In some behaviours the requests of the API are alone, with all operations.
\* In the others a worker uses the same checkout and both processes restart;
\* then additions, removals and one update at a time, of RacingIds, do.
CONSTANT RacingIds
VARIABLE alone
Racing(o) == /\ o.kind \in {"none", "boot", "add", "update", "remove"}
             /\ o.kind = "update" => o.id \in RacingIds
MCInit == Init /\ alone \in BOOLEAN
MCNext ==
  /\ Next /\ UNCHANGED alone
  /\ IF alone THEN /\ \A w \in Workers : op'[w] = Idle
                   /\ \A r \in Clients : op'[r].kind # "boot"
     ELSE /\ \A r \in Clients : Racing(op'[r])
          /\ Cardinality({r \in Clients : op'[r].kind = "update"}) <= 1
MCSpec == MCInit /\ [][MCNext]_<<vars, alone>> /\ \A r \in Clients : WF_vars(Continue(r))

\* Properties of requests that are alone.
ActiveIsEnabledAlone == alone => ActiveIsEnabled
CodeIsCommitAlone == alone => CodeIsCommit
AnsweredAlone == \A r \in Clients : alone /\ op[r].pc # "idle" ~> op[r].pc = "idle"
===========================================================================

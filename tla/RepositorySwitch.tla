-------------------------- MODULE RepositorySwitch --------------------------
(***************************************************************************)
(* What activating a plugin repository promises to the readers of a        *)
(* process, who see the active plugins and nothing of how they are         *)
(* prepared: all plugins of a repository change together, to one version   *)
(* of it; until that is settled it may be undone, and then everything is   *)
(* as it was before; in between nothing else changes in the process; and   *)
(* no cleanup of an earlier version is ever seen.                          *)
(***************************************************************************)
CONSTANTS
  Procs, Plugins, Repos,
  None        \* no activation of a plugin

VARIABLES
  active,     \* active[q][p]: the activation of plugin p in process q, or None
  replaced    \* replaced[q]: the plugins before a switch that is not settled

Nothing == [p \in Plugins |-> None]

Init ==
  /\ active = [q \in Procs |-> Nothing]
  /\ replaced = [q \in Procs |-> {}]

Of(map, r) == {p \in Plugins : map[p] # None /\ map[p].repo = r}

\* The plugins that a step changes in process q.
Changed(q) == {p \in Plugins : active'[q][p] # active[q][p]}

\* All plugins of a repository change and no other: those there leave, new ones
\* come.
Switch(q) ==
  /\ replaced[q] = {} /\ replaced'[q] = {active[q]}
  /\ replaced' = [replaced EXCEPT ![q] = replaced'[q]]
  /\ active' = [active EXCEPT ![q] = active'[q]]
  /\ \E r \in Repos :
       /\ Changed(q) = Of(active[q], r) \cup Of(active'[q], r)
       /\ \A p \in Changed(q) \ Of(active[q], r) : active[q][p] = None
       /\ \A p \in Changed(q) \ Of(active'[q], r) : active'[q][p] = None
       /\ \A p, s \in Of(active'[q], r) : active'[q][p].label = active'[q][s].label

Settle(q) ==
  /\ replaced[q] # {} /\ replaced' = [replaced EXCEPT ![q] = {}]
  /\ UNCHANGED active

Undo(q) ==
  /\ \E map \in replaced[q] : active' = [active EXCEPT ![q] = map]
  /\ replaced' = [replaced EXCEPT ![q] = {}]

\* A repository is removed, or one plugin disabled.
Withdraw(q) ==
  /\ active'[q] # active[q] /\ active' = [active EXCEPT ![q] = active'[q]]
  /\ \A p \in Changed(q) : active'[q][p] = None
  /\ \/ \E p \in Plugins : Changed(q) = {p}
     \/ \E r \in Repos : Changed(q) = Of(active[q], r)
  /\ replaced[q] = {} /\ UNCHANGED replaced

Restart(q) ==
  /\ active' = [active EXCEPT ![q] = Nothing]
  /\ replaced' = [replaced EXCEPT ![q] = {}]

Next ==
  \E q \in Procs :
    Switch(q) \/ Settle(q) \/ Undo(q) \/ Withdraw(q) \/ Restart(q)

Spec == Init /\ [][Next]_<<active, replaced>>
=============================================================================

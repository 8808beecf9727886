------------------------- MODULE PluginActivation -------------------------
(***************************************************************************)
(* The lifecycle of one plugin repository in an API process and in worker  *)
(* processes (app/plugins/manager.py, coordinator.py, activator.py,        *)
(* runtime_registry.py, loader.py, repository_store.py).                   *)
(*                                                                         *)
(* The database row of the repository, the rows of its plugins and the git *)
(* checkout on disk are shared by all processes.  Every process keeps its  *)
(* own coordinator maps, runtime registries and Python module cache.       *)
(*                                                                         *)
(* The API serves its requests on one asyncio loop: a request gives way    *)
(* only where it awaits plugin code (entry, health check, cleanup), so a   *)
(* step of a request whose pc is in NonYield is followed by a step of the  *)
(* same request.  The database is PostgreSQL and its driver is synchronous:*)
(* a statement that waits for another transaction stops the whole loop.    *)
(*                                                                         *)
(* One repository URL is modelled; removing it and adding it again makes a *)
(* new repository id.  Manifest v1 repositories, configuration values and  *)
(* the status texts of the rows are left out.                              *)
(***************************************************************************)
EXTENDS Naturals, FiniteSets

CONSTANTS
    Plugins,        \* plugin ids
    WorkerPlugins,  \* those of a type the worker role activates
    Commits,        \* commits of the repository
    Contains,       \* Contains[c]: the plugins in the manifest of commit c
    RepoIds,        \* repository ids (uuid4)
    Clients,        \* API requests being served
    Workers,        \* worker processes
    Api,            \* the API process
    Names,          \* identities of plugin instances
    Ops,            \* the API operations that requests call
    None

ASSUME ConstantsAssumption ==
    /\ WorkerPlugins \subseteq Plugins
    /\ Contains \in [Commits -> SUBSET Plugins]
    /\ Clients \cap Workers = {} /\ Api \notin Clients \cup Workers
    /\ None \notin Commits \cup RepoIds \cup Names

VARIABLES
    row,   \* the repository row, or None
    cfg,   \* cfg[p]: the row of plugin p: "absent", "on" or "off" (PluginConfig.enabled)
    head,  \* the commit the checkout on disk is at, None when there is none
    reg,   \* reg[proc][p]: the instance in the runtime registry of the process
    own,   \* own[proc][p]: the activation in the coordinator maps of the process
    mods,  \* mods[proc][p]: the commit of the code in the module cache
    sig,   \* sig[w]: the signature the worker remembers of what it activated
    op     \* op[a]: the operation the actor is in

vars == <<row, cfg, head, reg, own, mods, sig, op>>

Actors == Clients \cup Workers
Procs == Workers \cup {Api}
Proc(a) == IF a \in Clients THEN Api ELSE a

\* The plugin types a process of this role activates.
Role(proc) == IF proc = Api THEN Plugins ELSE WorkerPlugins

CfgStates == {"absent", "on", "off"}
NoRows == [p \in Plugins |-> "absent"]

Rows == [id : RepoIds, cur : Commits \cup {None}, prev : Commits \cup {None}]
Activations == [repo : RepoIds, plugin : Plugins, label : Commits,
                code : Commits, name : Names]
Signatures == [id : RepoIds, cur : Commits \cup {None}, on : SUBSET WorkerPlugins]

ASSUME NoneAssumption == None \notin Rows \cup Activations \cup Signatures

Advancing == {"add", "update", "rollback"}    \* fetch=True, advance_commit=True
Offline == {"enable", "config", "load", "boot", "reload"}
Dropping == {"disable", "remove", "drop"}
Kinds == Advancing \cup Offline \cup Dropping \cup {"none"}
PCs == {"idle", "stuck", "pin", "load", "await", "switch", "commit",
        "failing", "undo", "dispose", "finish"}
\* Mutant: the switch lock is let go before the database commit.
NonYieldCommit == {"stuck", "pin", "load", "switch", "finish"}

NonYield == {"stuck", "pin", "load", "switch", "commit", "finish"}

Operations ==
    [kind : Kinds, pc : PCs, id : RepoIds \cup {None},
     locked : Commits \cup {None},    \* current_commit as the request read it
     prev : Commits \cup {None},      \* previous_commit as the request read it
     label : Commits \cup {None},     \* the commit being activated
     ins : [Plugins -> CfgStates],    \* plugin rows inserted and not committed
     todo : SUBSET Plugins,           \* candidates still to prepare
     new : SUBSET Activations,        \* candidates prepared
     old : SUBSET Activations]        \* activations to dispose

Idle == [kind |-> "none", pc |-> "idle", id |-> None, locked |-> None,
         prev |-> None, label |-> None, ins |-> NoRows, todo |-> {},
         new |-> {}, old |-> {}]

TypeOK ==
    /\ row \in Rows \cup {None}
    /\ cfg \in [Plugins -> CfgStates]
    /\ head \in Commits \cup {None}
    /\ reg \in [Procs -> [Plugins -> Activations \cup {None}]]
    /\ own \in [Procs -> [Plugins -> Activations \cup {None}]]
    /\ mods \in [Procs -> [Plugins -> Commits \cup {None}]]
    /\ sig \in [Workers -> Signatures \cup {None}]
    /\ op \in [Actors -> Operations]

Nothing == [p \in Plugins |-> None]

Init ==
    /\ row = None /\ cfg = NoRows /\ head = None
    /\ reg = [q \in Procs |-> Nothing]
    /\ own = [q \in Procs |-> Nothing]
    /\ mods = [q \in Procs |-> Nothing]
    /\ sig = [w \in Workers |-> None]
    /\ op = [a \in Actors |-> Idle]

---------------------------------------------------------------------------
(* Scheduling and helpers                                                  *)

\* The event loop of the API is free for the request a: no other request is
\* between two awaits, and the start-up recovery has ended.
LoopFree(a) ==
    a \in Clients => \A b \in Clients \ {a} :
                        op[b].pc \notin NonYield /\ op[b].kind # "boot"

Ready(a, pc) == op[a].pc = pc /\ LoopFree(a)

\* The transaction of a holds inserted rows that it has not committed.
HoldsRepository(a) ==
    op[a].kind = "add" /\ op[a].pc \in {"pin", "load", "await", "switch", "commit", "failing"}
HoldsRows(a) == op[a].ins # NoRows

Start(kind, id, r, c) ==
    [Idle EXCEPT !.kind = kind, !.pc = "pin", !.id = id,
                 !.locked = r.cur, !.prev = r.prev, !.label = c]

NewRow(id, c) == [id |-> id, cur |-> c, prev |-> None]

Owned(proc, id) == {own[proc][p] : p \in {q \in Plugins :
                        own[proc][q] # None /\ own[proc][q].repo = id}}

\* The maps of a process when the activations xs are taken out of them.
Without(map, xs) == [p \in Plugins |-> IF map[p] \in xs THEN None ELSE map[p]]

\* The maps of a process when the activations xs are put into them.
With(map, xs) ==
    [p \in Plugins |-> IF \E x \in xs : x.plugin = p
                       THEN CHOOSE x \in xs : x.plugin = p ELSE map[p]]

\* Mutant: plugins that the new version does not have stay active.
ReplacedKeepsOthers(map, old, new) == With(map, new)

\* The switch to the candidates new, and its undoing.
Replaced(map, old, new) == With(Without(map, old), new)

\* Mutant: the candidates leave, and nothing returns.
PutBackNothing(map, new, old) == Without(map, new)

PutBack(map, new, old) == With(Without(map, new), old)

\* Mutant: the cleanup goes by the name of the plugin.
UnregisterByName(map, x) == [map EXCEPT ![x.plugin] = None]

\* unregister(plugin_id, expected_instance=instance)
Unregister(map, x) ==
    [map EXCEPT ![x.plugin] = IF @ = x THEN None ELSE @]

\* The activations a process still refers to, and an identity none of them has.
Alive(proc) ==
    (UNION {op[a].new \cup op[a].old : a \in {b \in Actors : Proc(b) = proc}})
      \cup ({own[proc][p] : p \in Plugins} \ {None})

FreshNames(proc, p) == Names \ {x.name : x \in {y \in Alive(proc) : y.plugin = p}}

UsedIds ==
    {op[a].id : a \in Actors} \cup (IF row = None THEN {} ELSE {row.id})
        \cup {sig[w].id : w \in {v \in Workers : sig[v] # None}}
        \cup {x.repo : x \in UNION {Alive(q) : q \in Procs}}

\* _repository_signature: what a worker compares to decide on a reload.
Signature == [id |-> row.id, cur |-> row.cur,
              on |-> {p \in WorkerPlugins : cfg[p] = "on"}]

---------------------------------------------------------------------------
(* Operations of the API: the part of a request before its first await.    *)
(* A request that answers at once with an error leaves everything as it is *)
(* and is not a step.                                                      *)

Begin(a, kind) == kind \in Ops /\ Ready(a, "idle")

\* PluginManager.add_repository: the row is inserted, not committed.  The same
\* insert of another request makes this one wait in the database for a
\* transaction that only this loop can end.
Add(a) ==
    /\ Begin(a, "add") /\ row = None
    /\ \E id \in RepoIds \ UsedIds, c \in Commits :
         IF \E b \in Clients \ {a} : HoldsRepository(b)
         THEN /\ op' = [op EXCEPT ![a] = [Start("add", id, NewRow(id, None), c)
                                             EXCEPT !.pc = "stuck"]]
              /\ UNCHANGED head
         ELSE /\ op' = [op EXCEPT ![a] = Start("add", id, NewRow(id, None), c)]
              /\ head' = c
    /\ UNCHANGED <<row, cfg, reg, own, mods, sig>>

\* The clone, fetch or checkout of add_repository fails: the row is committed
\* without a commit and the checkout stays wherever git left it.
AddFails(a) ==
    /\ Begin(a, "add") /\ row = None
    /\ \A b \in Clients : ~HoldsRepository(b)
    /\ \E id \in RepoIds \ UsedIds : row' = NewRow(id, None)
    /\ head' \in Commits \cup {head}
    /\ UNCHANGED <<cfg, reg, own, mods, sig, op>>

\* PluginManager.update_repository and rollback_repository: the checkout goes
\* to the requested commit before anything else is known of it.
Update(a) ==
    /\ row # None
    /\ \/ /\ Begin(a, "update")
          /\ \E c \in Commits : /\ op' = [op EXCEPT ![a] = Start("update", row.id, row, c)]
                                /\ head' = c
       \/ /\ Begin(a, "rollback") /\ row.prev # None
          /\ op' = [op EXCEPT ![a] = Start("rollback", row.id, row, row.prev)]
          /\ head' = row.prev
    /\ UNCHANGED <<row, cfg, reg, own, mods, sig>>

\* git fails in update_repository, after the checkout of the branch.
FetchFails(a) ==
    /\ Begin(a, "update") /\ row # None
    /\ head' \in Commits
    /\ UNCHANGED <<row, cfg, reg, own, mods, sig, op>>

\* An activation of the locked commit from the checkout on disk (fetch=False).
StartOffline(a, kind) ==
    IF row.cur = None \/ head = None
    THEN UNCHANGED <<head, op>>
    ELSE /\ op' = [op EXCEPT ![a] = Start(kind, row.id, row, row.cur)]
         /\ head' = row.cur

\* PluginManager.enable_plugin: the row is committed first, then the whole
\* repository is activated again.
Enable(a) ==
    /\ Begin(a, "enable") /\ row # None
    /\ \E p \in Plugins : /\ cfg[p] # "absent"
                          /\ cfg' = [cfg EXCEPT ![p] = "on"]
    /\ StartOffline(a, "enable")
    /\ UNCHANGED <<row, reg, own, mods, sig>>

\* PluginManager.update_plugin_config of an enabled plugin; load_all_repositories
\* at the request of a client.
Reactivate(a) ==
    /\ row # None /\ row.cur # None /\ head # None
    /\ \/ /\ Begin(a, "config")
          /\ \E p \in Contains[head] : cfg[p] = "on"
          /\ StartOffline(a, "config")
       \/ Begin(a, "load") /\ StartOffline(a, "load")
    /\ UNCHANGED <<row, cfg, reg, own, mods, sig>>

\* The activations xs leave the maps and the registry of the process of a under
\* the switch lock, and are then disposed of.
Deactivate(a, kind, id, xs) ==
    /\ own' = [own EXCEPT ![Proc(a)] = Without(@, xs)]
    /\ reg' = [reg EXCEPT ![Proc(a)] = Without(@, xs)]
    /\ op' = [op EXCEPT ![a] =
                [Idle EXCEPT !.kind = kind, !.id = id, !.old = xs,
                             !.pc = IF xs = {} THEN "finish" ELSE "dispose"]]

\* PluginManager.disable_plugin and coordinator.deactivate_plugin.
Disable(a) ==
    /\ Begin(a, "disable") /\ row # None
    /\ \E p \in Plugins :
         /\ cfg[p] # "absent"
         /\ cfg' = [cfg EXCEPT ![p] = "off"]
         /\ Deactivate(a, "disable", row.id, {own[Api][p]} \ {None})
    /\ UNCHANGED <<row, head, mods, sig>>

\* Mutant: the rows go, the activations stay.
RemoveRowsOnly(a) ==
    /\ Begin(a, "remove") /\ row # None
    /\ Deactivate(a, "remove", row.id, {})
    /\ UNCHANGED <<row, cfg, head, mods, sig>>

\* PluginManager.remove_repository, up to the end of the cleanups.
Remove(a) ==
    /\ Begin(a, "remove") /\ row # None
    /\ Deactivate(a, "remove", row.id, Owned(Api, row.id))
    /\ UNCHANGED <<row, cfg, head, mods, sig>>

---------------------------------------------------------------------------
(* The worker's poll: PluginManager.reconcile_repositories                 *)

\* The repositories with activations in this worker and no row to match.
Gone(w) == {id \in RepoIds : /\ Owned(w, id) # {}
                             /\ row = None \/ row.id # id \/ row.cur = None}

\* Activations of a repository that is gone are released.
WorkerDrop(w) ==
    /\ op[w].pc = "idle"
    /\ \E id \in Gone(w) : Deactivate(w, "drop", id, Owned(w, id))
    /\ UNCHANGED <<row, cfg, head, mods, sig>>

\* The locked commit is activated when the signature of the rows has changed.
\* (One poll reads the rows once for both; the rows may change here between
\* this step and Pin, which includes the changes between the two.)
WorkerReload(w) ==
    /\ op[w].pc = "idle" /\ Gone(w) = {}
    /\ row # None /\ row.cur # None /\ head # None
    /\ sig[w] # Signature
    /\ StartOffline(w, "reload")
    /\ UNCHANGED <<row, cfg, reg, own, mods, sig>>

---------------------------------------------------------------------------
(* _activate_repository and coordinator.activate_repository                *)

\* The row the operation loaded is still there (for add: its own insert).
HasRow(a) == op[a].kind = "add" \/ (row # None /\ row.id = op[a].id)

\* _ensure_config_rows: a new row is on unless the request says otherwise or a
\* required configuration value has no default.
Inserts(missing) ==
    {ins \in [Plugins -> CfgStates] :
        \A p \in Plugins : ins[p] # "absent" <=> p \in missing}

\* The rows as the transaction of an operation sees them.
Seen(ins) == [p \in Plugins |-> IF ins[p] # "absent" THEN ins[p] ELSE cfg[p]]

\* Mutant: every plugin of the manifest is a candidate.
EnabledAll(ins) == Contains[head]

\* The plugins of the checkout that are enabled.
Enabled(ins) == {p \in Contains[head] : Seen(ins)[p] = "on"}

\* Mutant: modules already imported stay in the cache.
InvalidatedNone(proc) == mods

\* invalidate_repository_modules
Invalidated(proc) == [mods EXCEPT ![proc] = Nothing]

\* actual_commit is read from the checkout, the modules of the repository are
\* dropped from the cache, rows are inserted for plugins without one, and the
\* enabled plugins of the process's role become the candidates.
Pin(a) ==
    /\ Ready(a, "pin") /\ HasRow(a)
    /\ head # None /\ (op[a].kind \in Offline => head = op[a].label)
    /\ LET missing == {p \in Contains[head] : cfg[p] = "absent"}
           blocked == \E b \in Clients \ {a} : \E p \in missing : op[b].ins[p] # "absent"
       IN IF a \in Clients /\ blocked
          THEN /\ op' = [op EXCEPT ![a].pc = "stuck"]
               /\ UNCHANGED mods
          ELSE /\ ~blocked
               /\ \E ins \in Inserts(missing) :
                    LET todo == Enabled(ins) \cap Role(Proc(a))
                    IN op' = [op EXCEPT ![a].label = head, ![a].ins = ins, ![a].todo = todo,
                                        ![a].pc = IF todo = {} THEN "switch" ELSE "load"]
               /\ mods' = Invalidated(Proc(a))
    /\ UNCHANGED <<row, cfg, head, reg, own, sig>>

\* The end of an operation that has failed before any candidate was prepared:
\* only the except branch of add_repository commits.
Abandon(a) ==
    /\ op' = [op EXCEPT ![a] = Idle]
    /\ row' = IF op[a].kind = "add" THEN NewRow(op[a].id, None) ELSE row

\* The manifests of a fetched commit do not parse, the checkout is not at the
\* locked commit any more, or the repository row has gone.  Nothing restores
\* the checkout: this is no RepositoryActivationError.
PinFails(a) ==
    /\ Ready(a, "pin")
    /\ op[a].kind \in Advancing \/ head # op[a].label \/ ~HasRow(a)
    /\ Abandon(a)
    /\ UNCHANGED <<cfg, head, reg, own, mods, sig>>

\* The candidates are prepared in the order of the manifest.
First(todo) == CHOOSE p \in todo : TRUE

\* prepare_candidate of one plugin, up to the await of its entry: the entry
\* module is imported from the checkout unless the cache has it.
Load(a) ==
    /\ Ready(a, "load") \/ Ready(a, "await")
    /\ op[a].todo # {}
    /\ LET p == First(op[a].todo)
           proc == Proc(a)
           code == IF mods[proc][p] # None THEN mods[proc][p] ELSE head
           instance == [repo |-> op[a].id, plugin |-> p, label |-> op[a].label, code |-> code,
                        name |-> CHOOSE n \in Names : n \in FreshNames(proc, p)]
       IN /\ code # None /\ FreshNames(proc, p) # {}
          /\ mods' = [mods EXCEPT ![proc][p] = code]
          /\ op' = [op EXCEPT ![a].todo = @ \ {p},
                              ![a].new = @ \cup {instance},
                              ![a].pc = "await"]
    /\ UNCHANGED <<row, cfg, head, reg, own, sig>>

\* The entry, the contract or the health check of a candidate fails, or its
\* module cannot be imported.
CandidateFails(a) ==
    /\ \/ Ready(a, "await")
       \/ Ready(a, "load") /\ head = None
    /\ op' = [op EXCEPT ![a].pc = "failing"]
    /\ UNCHANGED <<row, cfg, head, reg, own, mods, sig>>

\* Mutant: without a candidate there is nothing to switch to.
PreparedSome(a) == Ready(a, "await") /\ op[a].todo = {}

Prepared(a) ==
    \/ Ready(a, "switch")
    \/ Ready(a, "await") /\ op[a].todo = {}

\* _validate_ownership
Foreign(a) ==
    \E x \in op[a].new : LET y == own[Proc(a)][x.plugin]
                         IN y # None /\ y.repo # op[a].id

\* All candidates are ready: they take the place of the repository's
\* activations in the maps and the registries of the process.
Switch(a) ==
    /\ Prepared(a) /\ ~Foreign(a)
    /\ LET proc == Proc(a)
           old == Owned(proc, op[a].id)
       IN /\ own' = [own EXCEPT ![proc] = Replaced(@, old, op[a].new)]
          /\ reg' = [reg EXCEPT ![proc] = Replaced(@, old, op[a].new)]
          /\ op' = [op EXCEPT ![a].old = old, ![a].pc = "commit"]
    /\ UNCHANGED <<row, cfg, head, mods, sig>>

SwitchRefused(a) ==
    /\ Prepared(a) /\ Foreign(a)
    /\ op' = [op EXCEPT ![a].pc = "failing"]
    /\ UNCHANGED <<row, cfg, head, reg, own, mods, sig>>

\* Mutant: the row keeps the first commit it was given.
AdvancedRowOnce(a) ==
    IF op[a].kind = "add" THEN [NewRow(op[a].id, None) EXCEPT !.cur = op[a].label] ELSE row

\* The commit writes a column only when its value differs from the one loaded.
AdvancedRow(a) ==
    LET o == op[a]
        base == IF o.kind = "add" THEN NewRow(o.id, None) ELSE row
    IN IF o.kind \notin Advancing \/ o.label = o.locked THEN base
       ELSE [base EXCEPT !.cur = o.label,
                         !.prev = IF o.locked # None /\ o.locked # o.prev
                                  THEN o.locked ELSE @]

Commit(a) ==
    /\ Ready(a, "commit") /\ HasRow(a)
    /\ row' = AdvancedRow(a)
    /\ cfg' = Seen(op[a].ins)
    /\ op' = [op EXCEPT ![a].ins = NoRows,
                        ![a].new = {},
                        ![a].pc = IF op[a].old = {} THEN "finish" ELSE "dispose"]
    /\ UNCHANGED <<head, reg, own, mods, sig>>

\* coordinator.rollback_switch finds the maps as its own switch left them.
Unchanged(a) == \A x \in op[a].new : own[Proc(a)][x.plugin] = x

\* The commit fails (the row has gone, the database is down): the earlier
\* activations return, the candidates are disposed of.
CommitFails(a) ==
    /\ Ready(a, "commit") /\ Unchanged(a)
    /\ LET proc == Proc(a)
       IN /\ own' = [own EXCEPT ![proc] = PutBack(@, op[a].new, op[a].old)]
          /\ reg' = [reg EXCEPT ![proc] = PutBack(@, op[a].new, op[a].old)]
    /\ op' = [op EXCEPT ![a].ins = NoRows, ![a].new = {}, ![a].old = op[a].new,
                        ![a].pc = "undo"]
    /\ UNCHANGED <<row, cfg, head, mods, sig>>

\* git checkout --detach of the locked commit; fails quietly without a checkout.
Restored(a) == IF op[a].locked = None \/ head = None THEN head ELSE op[a].locked

\* The prepared candidates have been cleaned up; the error is recorded, and
\* the checkout goes back to the locked commit.
Failed(a) ==
    /\ Ready(a, "failing")
    /\ IF HasRow(a)
       THEN /\ row' = IF op[a].kind = "add" THEN NewRow(op[a].id, None) ELSE row
            /\ cfg' = Seen(op[a].ins)
            /\ head' = Restored(a)
       ELSE UNCHANGED <<row, cfg, head>>
    /\ op' = [op EXCEPT ![a] = Idle]
    /\ UNCHANGED <<reg, own, mods, sig>>

\* activation.dispose(): the cleanup takes the instance out of the registry
\* only if the registry still holds this very instance.
Dispose(a) ==
    /\ Ready(a, "dispose") \/ Ready(a, "undo")
    /\ \E x \in op[a].old :
         /\ reg' = [reg EXCEPT ![Proc(a)] = Unregister(@, x)]
         /\ op' = [op EXCEPT ![a].old = @ \ {x},
                             ![a].pc = IF op[a].pc = "dispose" /\ op[a].old = {x}
                                       THEN "finish" ELSE @]
    /\ UNCHANGED <<row, cfg, head, own, mods, sig>>

UndoEnds(a) ==
    /\ Ready(a, "undo") /\ op[a].old = {}
    /\ head' = IF HasRow(a) THEN Restored(a) ELSE head
    /\ op' = [op EXCEPT ![a] = Idle]
    /\ UNCHANGED <<row, cfg, reg, own, mods, sig>>

\* The end of an operation that has committed: a worker takes the signature of
\* the rows as they are now, and remove_repository deletes rows and checkout.
Finish(a) ==
    /\ Ready(a, "finish") /\ op[a].kind # "remove"
    /\ sig' = [w \in Workers |->
                 CASE w = a /\ op[a].kind = "drop" -> None
                   [] w = a /\ op[a].kind = "reload" /\ HasRow(a) -> Signature
                   [] OTHER -> sig[w]]
    /\ op' = [op EXCEPT ![a] = Idle]
    /\ UNCHANGED <<row, cfg, head, reg, own, mods>>

\* The delete waits for the key of the row while another request has inserted
\* plugin rows that refer to it.
Delete(a) ==
    /\ Ready(a, "finish") /\ op[a].kind = "remove"
    /\ IF HasRow(a) /\ \E b \in Clients \ {a} : op[b].id = op[a].id /\ HoldsRows(b)
       THEN op' = [op EXCEPT ![a].pc = "stuck"] /\ UNCHANGED <<row, cfg, head>>
       ELSE /\ row' = IF HasRow(a) THEN None ELSE row
            /\ cfg' = IF HasRow(a) THEN NoRows ELSE cfg
            /\ head' = None
            /\ op' = [op EXCEPT ![a] = Idle]
    /\ UNCHANGED <<reg, own, mods, sig>>

---------------------------------------------------------------------------
(* Restarts                                                                *)

Cleared(proc) ==
    /\ reg' = [reg EXCEPT ![proc] = Nothing]
    /\ own' = [own EXCEPT ![proc] = Nothing]
    /\ mods' = [mods EXCEPT ![proc] = Nothing]

\* The API process dies with its requests; the next one activates the locked
\* commit before it serves any (the lifespan of main.py).
RestartApi ==
    /\ "restart" \in Ops
    /\ Cleared(Api)
    /\ \E a \in Clients :
         LET boots == row # None /\ row.cur # None /\ head # None
         IN /\ op' = [b \in Actors |->
                        CASE b \in Workers -> op[b]
                          [] b = a /\ boots -> Start("boot", row.id, row, row.cur)
                          [] OTHER -> Idle]
            /\ head' = IF boots THEN row.cur ELSE head
    /\ UNCHANGED <<row, cfg, sig>>

RestartWorker(w) ==
    /\ "restart" \in Ops
    /\ Cleared(w)
    /\ sig' = [sig EXCEPT ![w] = None]
    /\ op' = [op EXCEPT ![w] = Idle]
    /\ UNCHANGED <<row, cfg, head>>

---------------------------------------------------------------------------
Request(a) == Add(a) \/ AddFails(a) \/ Update(a) \/ FetchFails(a) \/ Enable(a)
                \/ Reactivate(a) \/ Disable(a) \/ Remove(a)

Continue(a) == Pin(a) \/ PinFails(a) \/ Load(a) \/ CandidateFails(a) \/ Switch(a)
                 \/ SwitchRefused(a) \/ Commit(a) \/ CommitFails(a) \/ Failed(a)
                 \/ Dispose(a) \/ UndoEnds(a) \/ Finish(a) \/ Delete(a)

Poll(w) == WorkerDrop(w) \/ WorkerReload(w)

Next ==
    \/ \E a \in Clients : Request(a)
    \/ \E w \in Workers : Poll(w) \/ RestartWorker(w)
    \/ \E a \in Actors : Continue(a)
    \/ RestartApi

Spec == Init /\ [][Next]_vars

\* Requests and polls that have begun go on: plugin code and git return, and
\* the event loop is fair.  No request has to come.
FairSpec == Spec /\ \A a \in Actors : WF_vars(Continue(a))
                 /\ \A w \in Workers : WF_vars(Poll(w))

---------------------------------------------------------------------------
(* Safety                                                                  *)

\* The registry and the coordinator of a process name the same activations:
\* cleanups of an earlier version never take the instance of a later one
\* (unregister with expected_instance).
Coordinated == reg = own

\* The active plugins of one repository in one process come from one
\* activation of the repository: a reader never meets two versions of it
\* (the switch replaces all of them under one lock).
OneVersion ==
    \A proc \in Procs : \A p, q \in Plugins :
        (own[proc][p] # None /\ own[proc][q] # None /\ own[proc][p].repo = own[proc][q].repo)
           => own[proc][p].label = own[proc][q].label

\* An activation on its way to being disposed of is in no map of its process;
\* in a request that waits for its commit, it is in none unless the rollback
\* puts it back.
NoDisposedVisible ==
    \A a \in Actors : \A x \in op[a].old : own[Proc(a)][x.plugin] # x

\* rollback_switch never meets the concurrent change it refuses to undo.
RollbackPossible == \A a \in Actors : op[a].pc = "commit" => Unchanged(a)

\* Quiescent: no operation of the API is in progress.
Quiet == \A a \in Clients : op[a].pc = "idle"

\* A plugin active in a quiet API process is one the database has enabled.
ActiveIsEnabled ==
    Quiet => \A p \in Plugins : own[Api][p] # None => row = None \/ cfg[p] = "on"

\* A plugin active in a quiet API process is of the commit the database locks.
ActiveIsLocked ==
    Quiet => \A p \in Plugins :
                own[Api][p] # None /\ row # None => own[Api][p].label = row.cur

\* When the repository has been removed, nothing of it is active in the API.
RemovedIsInactive ==
    Quiet => \A p \in Plugins :
                own[Api][p] # None => row # None /\ own[Api][p].repo = row.id

\* The code of an activation is the code of the commit it is reported under.
CodeIsCommit ==
    \A proc \in Procs, p \in Plugins :
        own[proc][p] # None => own[proc][p].code = own[proc][p].label

\* A worker that sees nothing to reconcile has active what the database wants.
WorkerInSync ==
    \A w \in Workers :
        (op[w].pc = "idle" /\ row # None /\ row.cur # None /\ sig[w] = Signature)
           => \A p \in WorkerPlugins :
                (own[w][p] # None) <=> (cfg[p] = "on" /\ p \in Contains[row.cur])

\* No request stops the event loop.
LoopNeverBlocked == \A a \in Clients : op[a].pc # "stuck"

\* Every request ends.
Answered == \A a \in Clients : op[a].pc # "idle" ~> op[a].pc = "idle"

---------------------------------------------------------------------------
(* What the readers of the registries see                                  *)

\* The plugins a process had before the switches that wait for their commit.
Before(proc) == {PutBack(reg[proc], op[a].new, op[a].old) :
                    a \in {b \in Actors : op[b].pc = "commit" /\ Proc(b) = proc}}

Promise == INSTANCE RepositorySwitch WITH
             active <- reg, replaced <- [q \in Procs |-> Before(q)], Repos <- RepoIds

\* A reader of the registry sees the plugins of a repository change together to
\* one version; a commit that fails leaves exactly what was there before, and
\* cleanups are not seen (commit_switch, rollback_switch, deactivate).
SwitchSpec == Promise!Spec

---------------------------------------------------------------------------
(* Inductive invariants                                                    *)

\* An operation under way has a repository, and one that has pinned a commit
\* knows which.
Labelled(o) ==
    /\ o.pc \notin {"idle", "stuck"} => o.id \in RepoIds
    /\ o.pc \in {"load", "await", "switch", "commit"} => o.label \in Commits

\* Every operation holds its own activations, one per plugin and all of one
\* version; the maps of its process have none of them, except between the
\* switch and the commit, when they have all the new ones.
Fits(o, map) ==
    /\ o.pc = "pin" => o.new = {}
    /\ \A x, y \in o.new : x.plugin = y.plugin => x = y
    /\ \A x, y \in o.old : x.plugin = y.plugin => x = y
    /\ \A x \in o.new : x.plugin \notin o.todo /\ x.label = o.label /\ x.repo = o.id
    /\ o.new \cap o.old = {}
    /\ \A x \in o.old : map[x.plugin] # x
    /\ o.pc # "commit" => \A x \in o.new : map[x.plugin] # x
    /\ o.pc = "commit" =>
         /\ \A x \in o.new : map[x.plugin] = x
         /\ \A p \in Plugins : map[p] # None /\ map[p].repo = o.id => map[p] \in o.new
         /\ \A x, y \in o.old : x.label = y.label
         /\ \A x \in o.old : x.repo = o.id

Held(o) == o.new \cup o.old

\* Two requests of one process never hold the same activation.
Apart == \A a, b \in Actors :
            a # b /\ Proc(a) = Proc(b) => Held(op[a]) \cap Held(op[b]) = {}

\* One request at a time is between two awaits.
Exclusive == \A a, b \in Clients :
                op[a].pc \in NonYield /\ op[b].pc \in NonYield => a = b

\* The maps are keyed by plugin.
Keyed == \A proc \in Procs : \A p \in Plugins :
            own[proc][p] # None => own[proc][p].plugin = p

SwitchInv ==
    /\ TypeOK
    /\ \A a \in Actors : Labelled(op[a]) /\ Fits(op[a], own[Proc(a)])
    /\ Apart /\ Exclusive /\ Keyed /\ Coordinated /\ OneVersion

---------------------------------------------------------------------------
(* Inductive invariants for one request at a time                          *)

\* An operation that is activating a commit.
Underway(o) == o.pc \in {"pin", "load", "await", "switch", "commit", "failing", "undo"}

\* An activation of the repository of the row, of the commit it locks.
Current(x) == row # None /\ x.repo = row.id /\ x.label = row.cur

\* Only requests change the row: an addition begins without one, everything
\* else with the row it has read; a worker only reloads and drops.
RowKnown(o) ==
    /\ \A w \in Workers : op[w].kind \in {"none", "reload", "drop"}
    /\ Underway(o) /\ o.kind = "add" => row = None /\ o.locked = None
    /\ Underway(o) /\ o.kind # "add" =>
         /\ row # None /\ row.id = o.id /\ row.cur = o.locked
         /\ o.kind \in {"update", "rollback"} \/ (o.kind \in Offline /\ o.label = row.cur)

\* What is active is current, except between the switch and the commit: then
\* it is of this request, and what it has replaced is current.
LockedInv(o) ==
    /\ RowKnown(o)
    /\ o.pc # "commit" => \A p \in Plugins : own[Api][p] # None => Current(own[Api][p])
    /\ o.pc = "commit" => /\ \A p \in Plugins : own[Api][p] # None => own[Api][p].repo = o.id
                          /\ \A x \in o.old : Current(x)
    /\ o.kind = "remove" => \A p \in Plugins : own[Api][p] = None

\* The same for what is enabled, as the transaction of the request sees it.
EnabledInv(o) ==
    /\ \A p \in Plugins : o.ins[p] # "absent" => cfg[p] = "absent"
    /\ o.pc # "commit" => \A p \in Plugins : own[Api][p] # None => cfg[p] = "on"
    /\ o.pc = "commit" => \A x \in o.old : cfg[x.plugin] = "on"
    /\ \A x \in o.new : Seen(o.ins)[x.plugin] = "on"
    /\ o.pc \in {"load", "await"} => \A p \in o.todo : Seen(o.ins)[p] = "on"

\* While candidates are loaded the checkout is at the commit they are labelled
\* with, and the cache has no module of another.
CodeInv(o) ==
    /\ \A p \in Plugins : own[Api][p] # None => own[Api][p].code = own[Api][p].label
    /\ \A x \in Held(o) : x.code = x.label
    /\ o.pc \in {"load", "await"} =>
         head = o.label /\ \A p \in Plugins : mods[Api][p] \in {None, o.label}

=============================================================================

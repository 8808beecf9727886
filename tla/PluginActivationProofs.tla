---------------------- MODULE PluginActivationProofs ----------------------
(***************************************************************************)
(* Proofs about PluginActivation, for every set of plugins, commits,       *)
(* requests and workers, with every failure and restart enabled; at the    *)
(* end, what holds as long as the API serves one request at a time.        *)
(***************************************************************************)
(* MCPluginActivation is extended for the behaviours without a worker.     *)
EXTENDS MCPluginActivation, TLAPS

---------------------------------------------------------------------------
(* Types                                                                   *)

\* The types together with what an operation under way knows of itself.
TypeInv == TypeOK /\ \A a \in Actors : Labelled(op[a])

\* The bookkeeping of an operation that starts is well typed (Start, Idle).
LEMMA StartType ==
  ASSUME NEW kind \in Kinds, NEW id \in RepoIds, NEW r,
         r.cur \in Commits \cup {None}, r.prev \in Commits \cup {None},
         NEW c \in Commits \cup {None}
  PROVE  /\ Start(kind, id, r, c) \in Operations
         /\ Start(kind, id, r, c).kind = kind /\ Start(kind, id, r, c).id = id
         /\ Start(kind, id, r, c).pc = "pin" /\ Start(kind, id, r, c).label = c
         /\ Start(kind, id, r, c).new = {} /\ Start(kind, id, r, c).old = {}
         /\ Idle \in Operations /\ Idle.pc = "idle"
BY DEF Start, Idle, Operations, NoRows, CfgStates, PCs, Kinds

\* A new row is a row (add_repository).
LEMMA NewRowType ==
  ASSUME NEW id \in RepoIds, NEW c \in Commits \cup {None}
  PROVE  NewRow(id, c) \in Rows /\ NewRow(id, c).cur = c /\ NewRow(id, c).prev = None
         /\ NewRow(id, c).id = id
BY DEF NewRow, Rows

\* Processes have maps, and actors belong to processes (Proc).
LEMMA ProcType == \A a \in Actors : Proc(a) \in Procs
BY DEF Actors, Procs, Proc

\* Taking activations out of the maps, and putting them in, leaves maps.
LEMMA MapTypes ==
  ASSUME NEW map \in [Plugins -> Activations \cup {None}],
         NEW xs \in SUBSET Activations, NEW ys \in SUBSET Activations
  PROVE  /\ Without(map, xs) \in [Plugins -> Activations \cup {None}]
         /\ With(map, ys) \in [Plugins -> Activations \cup {None}]
         /\ Replaced(map, xs, ys) \in [Plugins -> Activations \cup {None}]
         /\ PutBack(map, ys, xs) \in [Plugins -> Activations \cup {None}]
<1>1. \A m \in [Plugins -> Activations \cup {None}] : \A zs \in SUBSET Activations :
        /\ Without(m, zs) \in [Plugins -> Activations \cup {None}]
        /\ With(m, zs) \in [Plugins -> Activations \cup {None}]
  <2> TAKE m \in [Plugins -> Activations \cup {None}]
  <2> TAKE zs \in SUBSET Activations
  <2>1. \A p \in Plugins : (\E x \in zs : x.plugin = p) =>
                           (CHOOSE x \in zs : x.plugin = p) \in Activations
    OBVIOUS
  <2>2. With(m, zs) \in [Plugins -> Activations \cup {None}]
    BY <2>1 DEF With
  <2>3. Without(m, zs) \in [Plugins -> Activations \cup {None}]
    BY DEF Without
  <2> QED BY <2>2, <2>3
<1> QED BY <1>1 DEF Replaced, PutBack

\* The activations a repository owns in a process are activations.
LEMMA OwnedType ==
  ASSUME TypeOK, NEW proc \in Procs, NEW id
  PROVE  Owned(proc, id) \in SUBSET Activations
BY DEF Owned, TypeOK

\* The rows a request sees are rows of plugins (Seen).
LEMMA SeenType ==
  ASSUME TypeOK, NEW ins \in [Plugins -> CfgStates]
  PROVE  Seen(ins) \in [Plugins -> CfgStates]
BY DEF Seen, TypeOK

\* The initial state is well typed.
LEMMA TypeInit == Init => TypeInv
BY StartType DEF Init, TypeInv, TypeOK, Labelled, Nothing, NoRows, CfgStates, Idle,
   Operations, PCs, Kinds

\* Writing the record of one operation keeps the operations well typed.
LEMMA OpWrite ==
  ASSUME TypeInv, NEW a \in Actors, NEW o \in Operations, Labelled(o),
         op' = [op EXCEPT ![a] = o]
  PROVE  op' \in [Actors -> Operations] /\ \A b \in Actors : Labelled(op'[b])
BY DEF TypeInv, TypeOK

\* What an action adds to the record of an operation (the EXCEPTs of Pin, Load,
\* Switch, Commit, CommitFails, Dispose and of the refusals).
LEMMA OpUpdates ==
  ASSUME NEW o \in Operations, NEW pc \in PCs, NEW label \in Commits \cup {None},
         NEW ins \in [Plugins -> CfgStates], NEW todo \in SUBSET Plugins,
         NEW new \in SUBSET Activations, NEW old \in SUBSET Activations
  PROVE  /\ [o EXCEPT !.pc = pc] \in Operations
         /\ [o EXCEPT !.label = label, !.ins = ins, !.todo = todo, !.pc = pc] \in Operations
         /\ [o EXCEPT !.todo = todo, !.new = new, !.pc = pc] \in Operations
         /\ [o EXCEPT !.old = old, !.pc = pc] \in Operations
         /\ [o EXCEPT !.ins = ins, !.new = new, !.pc = pc] \in Operations
         /\ [o EXCEPT !.ins = ins, !.new = new, !.old = old, !.pc = pc] \in Operations
BY DEF Operations

\* The requests that only start an operation (Add, Update, Reactivate), fail at
\* once (AddFails, FetchFails) or write a row first (Enable).
LEMMA RequestTypes ==
  ASSUME TypeInv, NEW a \in Clients,
         Add(a) \/ AddFails(a) \/ Update(a) \/ FetchFails(a) \/ Enable(a) \/ Reactivate(a)
  PROVE  TypeInv'
<1> USE NoneAssumption, ConstantsAssumption DEF TypeInv
<1>1. a \in Actors /\ (row # None => row \in Rows)
  BY DEF Actors, TypeOK
<1>2. row # None => row.id \in RepoIds /\ row.cur \in Commits \cup {None}
                    /\ row.prev \in Commits \cup {None}
  BY <1>1 DEF Rows
<1>3. CASE Add(a)
  <2>1. PICK id \in RepoIds, c \in Commits :
          \/ op' = [op EXCEPT ![a] = [Start("add", id, NewRow(id, None), c) EXCEPT !.pc = "stuck"]]
             /\ head' = head
          \/ op' = [op EXCEPT ![a] = Start("add", id, NewRow(id, None), c)] /\ head' = c
    BY <1>3 DEF Add
  <2> DEFINE o == Start("add", id, NewRow(id, None), c)
             s == [o EXCEPT !.pc = "stuck"]
  <2>2. o \in Operations /\ Labelled(o)
    <3>1. NewRow(id, None).cur = None /\ NewRow(id, None).prev = None
      BY NewRowType
    <3>2. "add" \in Kinds
      BY DEF Kinds, Advancing
    <3>3. o \in Operations /\ o.pc = "pin" /\ o.id = id
      BY <3>1, <3>2, StartType
    <3> HIDE DEF o
    <3> QED BY <3>3 DEF Labelled
  <2> HIDE DEF o
  <2>3. s \in Operations /\ s.pc = "stuck"
    BY <2>2 DEF Operations, PCs
  <2>4. Labelled(s)
    BY <2>3 DEF Labelled
  <2>5. op' = [op EXCEPT ![a] = s] \/ op' = [op EXCEPT ![a] = o]
    BY <2>1 DEF o
  <2> HIDE DEF s
  <2>6. op' \in [Actors -> Operations] /\ \A b \in Actors : Labelled(op'[b])
    BY <1>1, <2>2, <2>3, <2>4, <2>5, OpWrite
  <2> QED BY <1>3, <2>1, <2>6 DEF Add, TypeOK
<1>4. CASE AddFails(a)
  <2>1. PICK id \in RepoIds : row' = NewRow(id, None)
    BY <1>4 DEF AddFails
  <2>2. row' \in Rows
    BY <2>1, NewRowType
  <2> QED BY <1>4, <2>2 DEF AddFails, TypeOK
<1>5. ASSUME NEW kind \in Kinds, NEW c \in Commits, row # None,
             op' = [op EXCEPT ![a] = Start(kind, row.id, row, c)]
      PROVE  op' \in [Actors -> Operations] /\ \A b \in Actors : Labelled(op'[b])
  <2>1. Start(kind, row.id, row, c) \in Operations /\ Labelled(Start(kind, row.id, row, c))
    BY <1>2, <1>5, StartType DEF Labelled
  <2> QED BY <1>1, <1>5, <2>1, OpWrite
<1>6. CASE Update(a)
  <2>1. PICK kind \in Kinds, c \in Commits :
          op' = [op EXCEPT ![a] = Start(kind, row.id, row, c)] /\ head' = c
    BY <1>2, <1>6 DEF Update, Kinds, Advancing
  <2>2. row # None
    BY <1>6 DEF Update
  <2> QED BY <1>5, <1>6, <2>1, <2>2 DEF Update, TypeOK
<1>7. CASE FetchFails(a)
  BY <1>7 DEF FetchFails, TypeOK
<1>8. ASSUME NEW kind \in Kinds, row # None, StartOffline(a, kind)
      PROVE  /\ op' \in [Actors -> Operations] /\ \A b \in Actors : Labelled(op'[b])
             /\ head' \in Commits \cup {None}
  <2>1. CASE row.cur = None \/ head = None
    BY <1>8, <2>1 DEF StartOffline, TypeOK
  <2>2. CASE row.cur # None /\ head # None
    BY <1>2, <1>5, <1>8, <2>2 DEF StartOffline
  <2> QED BY <2>1, <2>2
<1>9. CASE Enable(a)
  <2>1. cfg' \in [Plugins -> CfgStates]
    BY <1>9 DEF Enable, TypeOK, CfgStates
  <2>2. "enable" \in Kinds /\ row # None /\ StartOffline(a, "enable")
    BY <1>9 DEF Enable, Kinds, Offline
  <2>3. /\ op' \in [Actors -> Operations] /\ \A b \in Actors : Labelled(op'[b])
        /\ head' \in Commits \cup {None}
    BY <1>8, <2>2
  <2> QED BY <1>9, <2>1, <2>3 DEF Enable, TypeOK
<1>10. CASE Reactivate(a)
  <2>1. PICK kind \in Kinds : StartOffline(a, kind)
    BY <1>10 DEF Reactivate, Kinds, Offline
  <2>2. row # None
    BY <1>10 DEF Reactivate
  <2>3. /\ op' \in [Actors -> Operations] /\ \A b \in Actors : Labelled(op'[b])
        /\ head' \in Commits \cup {None}
    BY <1>8, <2>1, <2>2
  <2> QED BY <1>10, <2>3 DEF Reactivate, TypeOK
<1> QED BY <1>3, <1>4, <1>6, <1>7, <1>9, <1>10

\* Releasing the activations of a plugin or of a repository (Disable, Remove,
\* WorkerDrop).
LEMMA DeactivateTypes ==
  ASSUME TypeInv, NEW a \in Actors, NEW kind \in Kinds, NEW id \in RepoIds,
         NEW xs \in SUBSET Activations, Deactivate(a, kind, id, xs)
  PROVE  /\ own' \in [Procs -> [Plugins -> Activations \cup {None}]]
         /\ reg' \in [Procs -> [Plugins -> Activations \cup {None}]]
         /\ op' \in [Actors -> Operations] /\ \A b \in Actors : Labelled(op'[b])
<1> DEFINE o == [Idle EXCEPT !.kind = kind, !.id = id, !.old = xs,
                             !.pc = IF xs = {} THEN "finish" ELSE "dispose"]
<1>1. o \in Operations /\ o.id = id /\ o.pc \in {"finish", "dispose"}
  BY DEF Idle, Operations, PCs, NoRows, CfgStates
<1>2. op' = [op EXCEPT ![a] = o]
  BY DEF Deactivate
<1> HIDE DEF o
<1>3. Labelled(o)
  BY <1>1 DEF Labelled
<1>4. op' \in [Actors -> Operations] /\ \A b \in Actors : Labelled(op'[b])
  BY <1>1, <1>2, <1>3, OpWrite
<1>5. Proc(a) \in Procs /\ own[Proc(a)] \in [Plugins -> Activations \cup {None}]
                        /\ reg[Proc(a)] \in [Plugins -> Activations \cup {None}]
  BY ProcType DEF TypeInv, TypeOK
<1>6. /\ Without(own[Proc(a)], xs) \in [Plugins -> Activations \cup {None}]
      /\ Without(reg[Proc(a)], xs) \in [Plugins -> Activations \cup {None}]
  BY <1>5, MapTypes
<1> QED BY <1>4, <1>5, <1>6 DEF Deactivate, TypeInv, TypeOK

\* Disable, Remove, and the two steps of the worker's poll.
LEMMA ReleaseTypes ==
  ASSUME TypeInv
  PROVE  /\ \A a \in Clients : Disable(a) \/ Remove(a) => TypeInv'
         /\ \A w \in Workers : WorkerDrop(w) \/ WorkerReload(w) => TypeInv'
<1> USE NoneAssumption, ConstantsAssumption
<1>1. row # None => row.id \in RepoIds /\ row.cur \in Commits \cup {None}
                    /\ row.prev \in Commits \cup {None}
  BY DEF TypeInv, TypeOK, Rows
<1>2. {"disable", "remove", "drop", "reload"} \subseteq Kinds
  BY DEF Kinds, Dropping, Offline
<1>3. ASSUME NEW a \in Clients, Disable(a) PROVE TypeInv'
  <2>1. PICK p \in Plugins : /\ cfg' = [cfg EXCEPT ![p] = "off"]
                             /\ Deactivate(a, "disable", row.id, {own[Api][p]} \ {None})
    BY <1>3 DEF Disable
  <2>2. {own[Api][p]} \ {None} \in SUBSET Activations
    BY DEF TypeInv, TypeOK, Procs
  <2>3. cfg' \in [Plugins -> CfgStates]
    BY <2>1 DEF TypeInv, TypeOK, CfgStates
  <2>4. row # None /\ a \in Actors
    BY <1>3 DEF Disable, Actors
  <2>5. /\ own' \in [Procs -> [Plugins -> Activations \cup {None}]]
        /\ reg' \in [Procs -> [Plugins -> Activations \cup {None}]]
        /\ op' \in [Actors -> Operations] /\ \A b \in Actors : Labelled(op'[b])
    BY <1>1, <1>2, <2>1, <2>2, <2>4, DeactivateTypes
  <2> QED BY <1>3, <2>3, <2>5 DEF Disable, TypeInv, TypeOK
<1>4. ASSUME NEW a \in Clients, Remove(a) PROVE TypeInv'
  <2>1. row # None /\ a \in Actors /\ Api \in Procs
    BY <1>4 DEF Remove, Actors, Procs
  <2>2. Owned(Api, row.id) \in SUBSET Activations
    BY <2>1, OwnedType DEF TypeInv
  <2>3. /\ own' \in [Procs -> [Plugins -> Activations \cup {None}]]
        /\ reg' \in [Procs -> [Plugins -> Activations \cup {None}]]
        /\ op' \in [Actors -> Operations] /\ \A b \in Actors : Labelled(op'[b])
    BY <1>1, <1>2, <1>4, <2>1, <2>2, DeactivateTypes DEF Remove
  <2> QED BY <1>4, <2>3 DEF Remove, TypeInv, TypeOK
<1>5. ASSUME NEW w \in Workers, WorkerDrop(w) PROVE TypeInv'
  <2>1. PICK id \in RepoIds : Deactivate(w, "drop", id, Owned(w, id))
    BY <1>5 DEF WorkerDrop, Gone
  <2>2. w \in Actors /\ w \in Procs
    BY DEF Actors, Procs
  <2>3. Owned(w, id) \in SUBSET Activations
    BY <2>2, OwnedType DEF TypeInv
  <2>4. /\ own' \in [Procs -> [Plugins -> Activations \cup {None}]]
        /\ reg' \in [Procs -> [Plugins -> Activations \cup {None}]]
        /\ op' \in [Actors -> Operations] /\ \A b \in Actors : Labelled(op'[b])
    BY <1>2, <2>1, <2>2, <2>3, DeactivateTypes
  <2> QED BY <1>5, <2>4 DEF WorkerDrop, TypeInv, TypeOK
<1>6. ASSUME NEW w \in Workers, WorkerReload(w) PROVE TypeInv'
  <2> DEFINE o == Start("reload", row.id, row, row.cur)
  <2>1. op' = [op EXCEPT ![w] = o] /\ head' = row.cur /\ row # None /\ row.cur \in Commits
    BY <1>1, <1>6 DEF WorkerReload, StartOffline
  <2>2. o \in Operations /\ o.id = row.id /\ o.pc = "pin"
    BY <1>1, <1>2, <2>1, StartType
  <2> HIDE DEF o
  <2>3. Labelled(o)
    BY <1>1, <2>1, <2>2 DEF Labelled
  <2>4. op' \in [Actors -> Operations] /\ \A b \in Actors : Labelled(op'[b])
    BY <2>1, <2>2, <2>3, OpWrite DEF Actors
  <2> QED BY <1>6, <2>1, <2>4 DEF WorkerReload, TypeInv, TypeOK
<1> QED BY <1>3, <1>4, <1>5, <1>6

\* Pin and Load: the bookkeeping of the preparation of candidates.
LEMMA PrepareTypes ==
  ASSUME TypeInv, NEW a \in Actors
  PROVE  Pin(a) \/ Load(a) => TypeInv'
<1> USE NoneAssumption, ConstantsAssumption
<1>1. op[a] \in Operations /\ Labelled(op[a]) /\ Proc(a) \in Procs
  BY ProcType DEF TypeInv, TypeOK
<1>2. ASSUME Pin(a) PROVE TypeInv'
  <2>1. CASE op' = [op EXCEPT ![a].pc = "stuck"] /\ UNCHANGED mods
    <3> DEFINE o == [op[a] EXCEPT !.pc = "stuck"]
    <3>1. op' = [op EXCEPT ![a] = o]
      BY <2>1
    <3>2. o \in Operations /\ o.pc = "stuck"
      BY <1>1 DEF Operations, PCs
    <3> HIDE DEF o
    <3>3. Labelled(o)
      BY <3>2 DEF Labelled
    <3>4. op' \in [Actors -> Operations] /\ \A b \in Actors : Labelled(op'[b])
      BY <3>1, <3>2, <3>3, OpWrite
    <3> QED BY <1>2, <2>1, <3>4 DEF Pin, TypeInv, TypeOK
  <2>2. ASSUME NEW missing,
               NEW ins \in Inserts(missing), NEW todo,
               todo = Enabled(ins) \cap Role(Proc(a)),
               op' = [op EXCEPT ![a].label = head, ![a].ins = ins, ![a].todo = todo,
                                ![a].pc = IF todo = {} THEN "switch" ELSE "load"],
               mods' = Invalidated(Proc(a))
        PROVE  TypeInv'
    <3> DEFINE pc == IF todo = {} THEN "switch" ELSE "load"
               o == [op[a] EXCEPT !.label = head, !.ins = ins, !.todo = todo, !.pc = pc]
    <3>1. head \in Commits /\ op[a].pc = "pin"
      BY <1>2 DEF Pin, Ready, TypeInv, TypeOK
    <3>2. ins \in [Plugins -> CfgStates] /\ todo \in SUBSET Plugins /\ pc \in PCs
      BY <2>2, <3>1 DEF Inserts, Enabled, PCs
    <3>3. op' = [op EXCEPT ![a] = o]
      BY <2>2
    <3> HIDE DEF pc
    <3>4. o \in Operations /\ o.label = head /\ o.id = op[a].id
      BY <1>1, <3>1, <3>2, OpUpdates DEF Operations
    <3> HIDE DEF o
    <3>5. Labelled(o)
      BY <1>1, <3>1, <3>4 DEF Labelled
    <3>6. op' \in [Actors -> Operations] /\ \A b \in Actors : Labelled(op'[b])
      BY <3>3, <3>4, <3>5, OpWrite
    <3>7. mods' \in [Procs -> [Plugins -> Commits \cup {None}]]
      BY <1>1, <2>2 DEF Invalidated, Nothing, TypeInv, TypeOK
    <3> QED BY <1>2, <3>6, <3>7 DEF Pin, TypeInv, TypeOK
  <2> QED BY <1>2, <2>1, <2>2 DEF Pin
<1>3. ASSUME Load(a) PROVE TypeInv'
  <2> DEFINE p == First(op[a].todo)
             proc == Proc(a)
             code == IF mods[proc][p] # None THEN mods[proc][p] ELSE head
             name == CHOOSE n \in Names : n \in FreshNames(proc, p)
             instance == [repo |-> op[a].id, plugin |-> p, label |-> op[a].label,
                          code |-> code, name |-> name]
             todo == op[a].todo \ {p}
             new == op[a].new \cup {instance}
             o == [op[a] EXCEPT !.todo = todo, !.new = new, !.pc = "await"]
  <2>1. op[a].pc \in {"load", "await"} /\ op[a].todo # {} /\ op[a].todo \subseteq Plugins
        /\ op[a].new \subseteq Activations
    BY <1>1, <1>3 DEF Load, Ready, Operations
  <2>2. p \in Plugins
    BY <2>1 DEF First
  <2>3. code \in Commits
    <3>1. code # None
      BY <1>3 DEF Load
    <3>2. mods[proc][p] \in Commits \cup {None} /\ head \in Commits \cup {None}
      BY <1>1, <2>2 DEF TypeInv, TypeOK
    <3> HIDE DEF p, proc
    <3> QED BY <3>1, <3>2
  <2>4. name \in Names
    <3>1. FreshNames(proc, p) # {} /\ FreshNames(proc, p) \subseteq Names
      BY <1>3 DEF Load, FreshNames
    <3> QED BY <3>1
  <2>5. op[a].id \in RepoIds /\ op[a].label \in Commits
    BY <1>1, <2>1 DEF Labelled
  <2>6. op' = [op EXCEPT ![a] = o] /\ mods' = [mods EXCEPT ![proc][p] = code]
    <3>1. op' = [op EXCEPT ![a].todo = @ \ {p}, ![a].new = @ \cup {instance}, ![a].pc = "await"]
      BY <1>3 DEF Load
    <3>2. mods' = [mods EXCEPT ![proc][p] = code]
      BY <1>3 DEF Load
    <3> HIDE DEF p, proc, code, instance
    <3> QED BY <3>1, <3>2
  <2> HIDE DEF p, proc, code, name
  <2>7. instance \in Activations
    BY <2>2, <2>3, <2>4, <2>5 DEF Activations
  <2> HIDE DEF instance
  <2>8. todo \in SUBSET Plugins /\ new \in SUBSET Activations /\ "await" \in PCs
    BY <2>1, <2>7 DEF PCs
  <2> HIDE DEF todo, new
  <2>9. o \in Operations /\ o.label = op[a].label /\ o.id = op[a].id
    BY <1>1, <2>8, OpUpdates DEF Operations
  <2> HIDE DEF o
  <2>10. Labelled(o)
    BY <2>5, <2>9 DEF Labelled
  <2>11. op' \in [Actors -> Operations] /\ \A b \in Actors : Labelled(op'[b])
    BY <2>6, <2>9, <2>10, OpWrite
  <2>12. mods' \in [Procs -> [Plugins -> Commits \cup {None}]]
    BY <1>1, <2>2, <2>3, <2>6 DEF proc, TypeInv, TypeOK
  <2> QED BY <1>3, <2>11, <2>12 DEF Load, TypeInv, TypeOK
<1> QED BY <1>2, <1>3

\* The switch, its undoing and the commits.
LEMMA SwitchTypes ==
  ASSUME TypeInv, NEW a \in Actors
  PROVE  Switch(a) \/ CommitFails(a) \/ Commit(a) => TypeInv'
<1> USE NoneAssumption, ConstantsAssumption
<1>1. /\ op[a] \in Operations /\ Labelled(op[a]) /\ Proc(a) \in Procs
      /\ own[Proc(a)] \in [Plugins -> Activations \cup {None}]
      /\ reg[Proc(a)] \in [Plugins -> Activations \cup {None}]
      /\ op[a].new \in SUBSET Activations /\ op[a].old \in SUBSET Activations
      /\ op[a].ins \in [Plugins -> CfgStates]
  BY ProcType DEF TypeInv, TypeOK, Operations
<1>2. ASSUME Switch(a) PROVE TypeInv'
  <2> DEFINE old == Owned(Proc(a), op[a].id)
             o == [op[a] EXCEPT !.old = old, !.pc = "commit"]
  <2>1. old \in SUBSET Activations /\ "commit" \in PCs
    BY <1>1, OwnedType DEF TypeInv, PCs
  <2>2. /\ op' = [op EXCEPT ![a] = o]
        /\ own' = [own EXCEPT ![Proc(a)] = Replaced(@, old, op[a].new)]
        /\ reg' = [reg EXCEPT ![Proc(a)] = Replaced(@, old, op[a].new)]
    BY <1>2 DEF Switch
  <2> HIDE DEF old
  <2>3. o \in Operations /\ o.label = op[a].label /\ o.id = op[a].id
    BY <1>1, <2>1, OpUpdates DEF Operations
  <2> HIDE DEF o
  <2>4. Labelled(o)
    BY <1>1, <1>2, <2>3 DEF Labelled, Switch, Prepared, Ready
  <2>5. op' \in [Actors -> Operations] /\ \A b \in Actors : Labelled(op'[b])
    BY <2>2, <2>3, <2>4, OpWrite
  <2>6. /\ Replaced(own[Proc(a)], old, op[a].new) \in [Plugins -> Activations \cup {None}]
        /\ Replaced(reg[Proc(a)], old, op[a].new) \in [Plugins -> Activations \cup {None}]
    BY <1>1, <2>1, MapTypes
  <2>7. /\ own' \in [Procs -> [Plugins -> Activations \cup {None}]]
        /\ reg' \in [Procs -> [Plugins -> Activations \cup {None}]]
    BY <2>2, <2>6 DEF TypeInv, TypeOK
  <2> QED BY <1>2, <2>5, <2>7 DEF Switch, TypeInv, TypeOK
<1>3. ASSUME CommitFails(a) PROVE TypeInv'
  <2> DEFINE o == [op[a] EXCEPT !.ins = NoRows, !.new = {}, !.old = op[a].new, !.pc = "undo"]
  <2>1. NoRows \in [Plugins -> CfgStates] /\ "undo" \in PCs
    BY DEF NoRows, CfgStates, PCs
  <2>2. op' = [op EXCEPT ![a] = o]
    BY <1>3 DEF CommitFails
  <2>3. o \in Operations /\ o.pc = "undo" /\ o.id = op[a].id
    BY <1>1, <2>1, OpUpdates DEF Operations
  <2> HIDE DEF o
  <2>4. Labelled(o)
    BY <1>1, <1>3, <2>3 DEF Labelled, CommitFails, Ready
  <2>5. op' \in [Actors -> Operations] /\ \A b \in Actors : Labelled(op'[b])
    BY <2>2, <2>3, <2>4, OpWrite
  <2>6. /\ PutBack(own[Proc(a)], op[a].new, op[a].old) \in [Plugins -> Activations \cup {None}]
        /\ PutBack(reg[Proc(a)], op[a].new, op[a].old) \in [Plugins -> Activations \cup {None}]
    BY <1>1, MapTypes
  <2> QED BY <1>3, <2>5, <2>6 DEF CommitFails, TypeInv, TypeOK
<1>4. ASSUME Commit(a) PROVE TypeInv'
  <2> DEFINE pc == IF op[a].old = {} THEN "finish" ELSE "dispose"
             o == [op[a] EXCEPT !.ins = NoRows, !.new = {}, !.pc = pc]
  <2>1. NoRows \in [Plugins -> CfgStates] /\ pc \in PCs \cap {"finish", "dispose"}
    BY DEF NoRows, CfgStates, PCs
  <2>2. op' = [op EXCEPT ![a] = o]
    BY <1>4 DEF Commit
  <2> HIDE DEF pc
  <2>3. o \in Operations /\ o.pc = pc /\ o.id = op[a].id
    BY <1>1, <2>1, OpUpdates DEF Operations
  <2> HIDE DEF o
  <2>4. op[a].id \in RepoIds /\ op[a].label \in Commits
    BY <1>1, <1>4 DEF Labelled, Commit, Ready
  <2>5. Labelled(o)
    BY <2>1, <2>3, <2>4 DEF Labelled
  <2>6. op' \in [Actors -> Operations] /\ \A b \in Actors : Labelled(op'[b])
    BY <2>2, <2>3, <2>5, OpWrite
  <2>7. AdvancedRow(a) \in Rows
    <3> DEFINE base == IF op[a].kind = "add" THEN NewRow(op[a].id, None) ELSE row
    <3>1. base \in Rows
      BY <1>4, <2>4, NewRowType DEF Commit, HasRow, TypeInv, TypeOK
    <3>2. op[a].locked \in Commits \cup {None}
      BY <1>1 DEF Operations
    <3>3. AdvancedRow(a) = IF op[a].kind \notin Advancing \/ op[a].label = op[a].locked THEN base
            ELSE [base EXCEPT !.cur = op[a].label,
                              !.prev = IF op[a].locked # None /\ op[a].locked # op[a].prev
                                       THEN op[a].locked ELSE base.prev]
      BY <3>1 DEF AdvancedRow, Rows
    <3> HIDE DEF base
    <3> QED BY <2>4, <3>1, <3>2, <3>3 DEF Rows
  <2>8. Seen(op[a].ins) \in [Plugins -> CfgStates]
    BY <1>1, SeenType DEF TypeInv
  <2> QED BY <1>4, <2>6, <2>7, <2>8 DEF Commit, TypeInv, TypeOK
<1> QED BY <1>2, <1>3, <1>4

\* An operation that ends leaves nothing of itself behind.
LEMMA EndTypes ==
  ASSUME TypeInv, NEW a \in Actors, op' = [op EXCEPT ![a] = Idle]
  PROVE  op' \in [Actors -> Operations] /\ \A b \in Actors : Labelled(op'[b])
<1>1. Idle \in Operations /\ Idle.pc = "idle"
  BY DEF Idle, Operations, NoRows, CfgStates, PCs, Kinds
<1>2. Labelled(Idle)
  BY <1>1 DEF Labelled
<1> QED BY <1>1, <1>2, OpWrite

\* An operation under way goes to another program counter and keeps the rest.
LEMMA GotoTypes ==
  ASSUME TypeInv, NEW a \in Actors, op[a].pc \notin {"idle", "stuck"},
         NEW pc \in {"failing", "stuck", "finish"}, op' = [op EXCEPT ![a].pc = pc]
  PROVE  op' \in [Actors -> Operations] /\ \A b \in Actors : Labelled(op'[b])
<1> DEFINE o == [op[a] EXCEPT !.pc = pc]
<1>1. op' = [op EXCEPT ![a] = o]
  OBVIOUS
<1>2. op[a] \in Operations /\ Labelled(op[a])
  BY DEF TypeInv, TypeOK
<1>3. o \in Operations /\ o.pc = pc /\ o.id = op[a].id
  BY <1>2 DEF Operations, PCs
<1> HIDE DEF o
<1>4. Labelled(o)
  BY <1>2, <1>3 DEF Labelled
<1> QED BY <1>1, <1>3, <1>4, OpWrite

\* The ends of an operation and its failures.
LEMMA EndingTypes ==
  ASSUME TypeInv, NEW a \in Actors
  PROVE  PinFails(a) \/ CandidateFails(a) \/ SwitchRefused(a) \/ Failed(a)
           \/ Dispose(a) \/ UndoEnds(a) \/ Finish(a) \/ Delete(a) => TypeInv'
<1> USE NoneAssumption, ConstantsAssumption
<1>1. /\ op[a] \in Operations /\ Labelled(op[a]) /\ Proc(a) \in Procs
      /\ reg[Proc(a)] \in [Plugins -> Activations \cup {None}]
      /\ op[a].old \in SUBSET Activations /\ op[a].ins \in [Plugins -> CfgStates]
      /\ op[a].locked \in Commits \cup {None}
  BY ProcType DEF TypeInv, TypeOK, Operations
<1>2. ASSUME PinFails(a) PROVE TypeInv'
  <2>1. op[a].id \in RepoIds /\ op' = [op EXCEPT ![a] = Idle]
    BY <1>1, <1>2 DEF PinFails, Ready, Abandon, Labelled
  <2>2. row' \in Rows \cup {None}
    BY <1>2, <2>1, NewRowType DEF PinFails, Abandon, TypeInv, TypeOK
  <2>3. op' \in [Actors -> Operations] /\ \A b \in Actors : Labelled(op'[b])
    BY <2>1, EndTypes
  <2> QED BY <1>2, <2>2, <2>3 DEF PinFails, TypeInv, TypeOK
<1>3. ASSUME CandidateFails(a) \/ SwitchRefused(a) PROVE TypeInv'
  <2>1. op' \in [Actors -> Operations] /\ \A b \in Actors : Labelled(op'[b])
    BY <1>3, GotoTypes DEF CandidateFails, SwitchRefused, Prepared, Ready
  <2> QED BY <1>3, <2>1 DEF CandidateFails, SwitchRefused, TypeInv, TypeOK
<1>4. Restored(a) \in Commits \cup {None}
  BY <1>1 DEF Restored, TypeInv, TypeOK
<1>5. ASSUME Failed(a) PROVE TypeInv'
  <2>1. op[a].id \in RepoIds /\ op' = [op EXCEPT ![a] = Idle]
    BY <1>1, <1>5 DEF Failed, Ready, Labelled
  <2>2. row' \in Rows \cup {None} /\ head' \in Commits \cup {None}
    BY <1>4, <1>5, <2>1, NewRowType DEF Failed, TypeInv, TypeOK
  <2>3. Seen(op[a].ins) \in [Plugins -> CfgStates]
    BY <1>1, SeenType DEF TypeInv
  <2>4. cfg' \in [Plugins -> CfgStates]
    BY <1>5, <2>3 DEF Failed, TypeInv, TypeOK
  <2>5. op' \in [Actors -> Operations] /\ \A b \in Actors : Labelled(op'[b])
    BY <2>1, EndTypes
  <2> QED BY <1>5, <2>2, <2>4, <2>5 DEF Failed, TypeInv, TypeOK
<1>6. ASSUME Dispose(a) PROVE TypeInv'
  <2>1. PICK x \in op[a].old :
          /\ reg' = [reg EXCEPT ![Proc(a)] = Unregister(@, x)]
          /\ op' = [op EXCEPT ![a].old = @ \ {x},
                              ![a].pc = IF op[a].pc = "dispose" /\ op[a].old = {x}
                                        THEN "finish" ELSE @]
    BY <1>6 DEF Dispose
  <2> DEFINE pc == IF op[a].pc = "dispose" /\ op[a].old = {x} THEN "finish" ELSE op[a].pc
             old == op[a].old \ {x}
             o == [op[a] EXCEPT !.old = old, !.pc = pc]
  <2>2. op' = [op EXCEPT ![a] = o]
    BY <2>1
  <2>3. op[a].pc \in {"dispose", "undo"}
    BY <1>6 DEF Dispose, Ready
  <2>4. old \in SUBSET Activations /\ pc \in PCs \cap {"dispose", "undo", "finish"}
    BY <1>1, <2>3 DEF PCs
  <2> HIDE DEF old, pc
  <2>5. o \in Operations /\ o.pc = pc /\ o.id = op[a].id
    BY <1>1, <2>4, OpUpdates DEF Operations
  <2> HIDE DEF o
  <2>6. Labelled(o)
    BY <1>1, <2>3, <2>4, <2>5 DEF Labelled
  <2>7. op' \in [Actors -> Operations] /\ \A b \in Actors : Labelled(op'[b])
    BY <2>2, <2>5, <2>6, OpWrite
  <2>8. Unregister(reg[Proc(a)], x) \in [Plugins -> Activations \cup {None}]
    <3>1. x.plugin \in Plugins
      BY <1>1, <2>1 DEF Activations
    <3> QED BY <1>1, <3>1 DEF Unregister
  <2>9. reg' \in [Procs -> [Plugins -> Activations \cup {None}]]
    BY <2>1, <2>8 DEF TypeInv, TypeOK
  <2> QED BY <1>6, <2>7, <2>9 DEF Dispose, TypeInv, TypeOK
<1>7. ASSUME UndoEnds(a) PROVE TypeInv'
  <2>1. op' \in [Actors -> Operations] /\ \A b \in Actors : Labelled(op'[b])
    BY <1>7, EndTypes DEF UndoEnds
  <2> QED BY <1>4, <1>7, <2>1 DEF UndoEnds, TypeInv, TypeOK
<1>8. ASSUME Finish(a) PROVE TypeInv'
  <2>1. op' \in [Actors -> Operations] /\ \A b \in Actors : Labelled(op'[b])
    BY <1>8, EndTypes DEF Finish
  <2>2. row # None => Signature \in Signatures
    BY DEF Signature, Signatures, TypeInv, TypeOK, Rows
  <2>3. op[a].kind = "reload" /\ HasRow(a) => row # None
    BY DEF HasRow
  <2>4. sig' \in [Workers -> Signatures \cup {None}]
    BY <1>8, <2>2, <2>3 DEF Finish, TypeInv, TypeOK
  <2> QED BY <1>8, <2>1, <2>4 DEF Finish, TypeInv, TypeOK
<1>9. ASSUME Delete(a) PROVE TypeInv'
  <2>1. CASE op' = [op EXCEPT ![a].pc = "stuck"] /\ UNCHANGED <<row, cfg, head>>
    <3>1. op' \in [Actors -> Operations] /\ \A b \in Actors : Labelled(op'[b])
      BY <1>9, <2>1, GotoTypes DEF Delete, Ready
    <3> QED BY <1>9, <2>1, <3>1 DEF Delete, TypeInv, TypeOK
  <2>2. CASE op' = [op EXCEPT ![a] = Idle] /\ row' \in {row, None} /\ cfg' \in {cfg, NoRows}
             /\ head' = None
    <3>1. op' \in [Actors -> Operations] /\ \A b \in Actors : Labelled(op'[b])
      BY <2>2, EndTypes
    <3>2. NoRows \in [Plugins -> CfgStates]
      BY DEF NoRows, CfgStates
    <3> QED BY <1>9, <2>2, <3>1, <3>2 DEF Delete, TypeInv, TypeOK
  <2> QED BY <1>9, <2>1, <2>2 DEF Delete
<1> QED BY <1>2, <1>3, <1>5, <1>6, <1>7, <1>8, <1>9

\* Restarts of the API and of a worker.
LEMMA RestartTypes ==
  ASSUME TypeInv
  PROVE  /\ RestartApi => TypeInv'
         /\ \A w \in Workers : RestartWorker(w) => TypeInv'
<1> USE NoneAssumption, ConstantsAssumption
<1>1. /\ Nothing \in [Plugins -> Activations \cup {None}]
      /\ Nothing \in [Plugins -> Commits \cup {None}]
  BY DEF Nothing
<1>2. ASSUME NEW proc \in Procs, Cleared(proc)
      PROVE  /\ reg' \in [Procs -> [Plugins -> Activations \cup {None}]]
             /\ own' \in [Procs -> [Plugins -> Activations \cup {None}]]
             /\ mods' \in [Procs -> [Plugins -> Commits \cup {None}]]
  BY <1>1, <1>2 DEF Cleared, TypeInv, TypeOK
<1>3. Idle \in Operations /\ Labelled(Idle)
  BY DEF Idle, Operations, NoRows, CfgStates, PCs, Kinds, Labelled
<1>4. ASSUME RestartApi PROVE TypeInv'
  <2> DEFINE boots == row # None /\ row.cur # None /\ head # None
             o == Start("boot", row.id, row, row.cur)
  <2>1. PICK a \in Clients :
          /\ op' = [b \in Actors |-> CASE b \in Workers -> op[b]
                                       [] b = a /\ boots -> o
                                       [] OTHER -> Idle]
          /\ head' = IF boots THEN row.cur ELSE head
    BY <1>4 DEF RestartApi
  <2>2. boots => o \in Operations /\ o.id = row.id /\ o.pc = "pin" /\ row.id \in RepoIds
                 /\ row.cur \in Commits
    <3>1. row # None => /\ row.id \in RepoIds /\ row.cur \in Commits \cup {None}
                        /\ row.prev \in Commits \cup {None}
      BY DEF TypeInv, TypeOK, Rows
    <3>2. "boot" \in Kinds
      BY DEF Kinds, Offline
    <3> QED BY <3>1, <3>2, StartType
  <2> HIDE DEF o
  <2>3. boots => Labelled(o)
    BY <2>2 DEF Labelled
  <2> HIDE DEF boots
  <2>4. \A b \in Actors : op'[b] \in Operations /\ Labelled(op'[b])
    <3> TAKE b \in Actors
    <3>1. op'[b] \in {op[b], Idle} \/ (boots /\ op'[b] = o)
      BY <2>1
    <3> QED BY <1>3, <2>2, <2>3, <3>1 DEF TypeInv, TypeOK
  <2>5. op' \in [Actors -> Operations]
    BY <2>1, <2>4
  <2>6. Api \in Procs
    BY DEF Procs
  <2>7. head' \in Commits \cup {None}
    BY <2>1, <2>2 DEF TypeInv, TypeOK
  <2> QED BY <1>2, <1>4, <2>4, <2>5, <2>6, <2>7 DEF RestartApi, TypeInv, TypeOK
<1>5. ASSUME NEW w \in Workers, RestartWorker(w) PROVE TypeInv'
  <2>1. w \in Procs /\ w \in Actors
    BY DEF Procs, Actors
  <2>2. op' \in [Actors -> Operations] /\ \A b \in Actors : Labelled(op'[b])
    BY <1>5, <2>1, EndTypes DEF RestartWorker
  <2> QED BY <1>2, <1>5, <2>1, <2>2 DEF RestartWorker, TypeInv, TypeOK
<1> QED BY <1>4, <1>5

\* Every step keeps the types.
LEMMA TypeStep == TypeInv /\ [Next]_vars => TypeInv'
<1> SUFFICES ASSUME TypeInv, [Next]_vars PROVE TypeInv'
  OBVIOUS
<1>1. CASE UNCHANGED vars
  BY <1>1 DEF vars, TypeInv, TypeOK, Labelled
<1>2. ASSUME NEW a \in Clients, Request(a) PROVE TypeInv'
  BY <1>2, RequestTypes, ReleaseTypes DEF Request
<1>3. ASSUME NEW w \in Workers, Poll(w) \/ RestartWorker(w) PROVE TypeInv'
  BY <1>3, ReleaseTypes, RestartTypes DEF Poll
<1>4. ASSUME NEW a \in Actors, Continue(a) PROVE TypeInv'
  BY <1>4, PrepareTypes, SwitchTypes, EndingTypes DEF Continue
<1>5. CASE RestartApi
  BY <1>5, RestartTypes
<1> QED BY <1>1, <1>2, <1>3, <1>4, <1>5 DEF Next

\* Every variable keeps its type, in every interleaving of requests, polls,
\* failures and restarts (TypeOK).
THEOREM TypeCorrect == Spec => []TypeOK
<1>1. TypeInv => TypeOK
  BY DEF TypeInv
<1> QED BY <1>1, TypeInit, TypeStep, PTL DEF Spec

---------------------------------------------------------------------------
(* The maps                                                                *)

\* The invariant without its types.
MapsInv ==
  /\ \A a \in Actors : Fits(op[a], own[Proc(a)])
  /\ Apart /\ Exclusive /\ Keyed /\ Coordinated /\ OneVersion

\* What the switch and its undoing do to the maps, plugin by plugin (Without,
\* With, Replaced).
LEMMA ReplacedMaps ==
  ASSUME NEW map \in [Plugins -> Activations \cup {None}],
         NEW xs \in SUBSET Activations, NEW ys \in SUBSET Activations,
         \A x, y \in ys : x.plugin = y.plugin => x = y
  PROVE  \A p \in Plugins :
           /\ Without(map, xs)[p] = IF map[p] \in xs THEN None ELSE map[p]
           /\ \A y \in ys : y.plugin = p => Replaced(map, xs, ys)[p] = y
           /\ (\A y \in ys : y.plugin # p) => Replaced(map, xs, ys)[p] = Without(map, xs)[p]
           /\ Replaced(map, xs, ys)[p] \in ys \cup ({map[p], None} \ xs)
<1> TAKE p \in Plugins
<1>1. Without(map, xs)[p] = IF map[p] \in xs THEN None ELSE map[p]
  BY DEF Without
<1>2. ASSUME NEW y \in ys, y.plugin = p PROVE Replaced(map, xs, ys)[p] = y
  <2>1. (CHOOSE x \in ys : x.plugin = p) = y
    BY <1>2
  <2> QED BY <1>2, <2>1 DEF Replaced, With
<1>3. ASSUME \A y \in ys : y.plugin # p
      PROVE  Replaced(map, xs, ys)[p] = Without(map, xs)[p]
  BY <1>3 DEF Replaced, With
<1>4. Replaced(map, xs, ys)[p] \in ys \cup ({map[p], None} \ xs)
  <2>1. None \notin xs
    BY NoneAssumption
  <2> QED BY <1>1, <1>2, <1>3, <2>1
<1> QED BY <1>1, <1>2, <1>3, <1>4

\* A step that changes one operation and no map keeps the invariant if what the
\* operation holds was its own or is new to all others.
LEMMA QuietStep ==
  ASSUME MapsInv, NEW a \in Actors, own' = own, reg' = reg,
         \A b \in Actors \ {a} : op'[b] = op[b],
         Fits(op'[a], own[Proc(a)]), a \in Clients => LoopFree(a),
         \A b \in Actors \ {a} : Proc(b) = Proc(a) => Held(op'[a]) \cap Held(op[b]) = {}
  PROVE  MapsInv'
<1>1. \A b \in Actors : Fits(op'[b], own'[Proc(b)])
  BY DEF MapsInv
<1>2. Apart'
  BY DEF MapsInv, Apart
<1>3. Exclusive'
  BY DEF MapsInv, Exclusive, LoopFree, Actors
<1>4. Keyed' /\ Coordinated' /\ OneVersion'
  BY DEF MapsInv, Keyed, Coordinated, OneVersion
<1> QED BY <1>1, <1>2, <1>3, <1>4 DEF MapsInv

\* An operation that holds nothing fits every map.
LEMMA EmptyFits ==
  ASSUME NEW o, NEW map, o.new = {}, o.old = {}, o.pc # "commit"
  PROVE  Fits(o, map)
BY DEF Fits

\* A step of one operation after which it holds nothing, or what it held.
LEMMA EndStep ==
  ASSUME TypeInv, MapsInv, NEW a \in Actors, own' = own, reg' = reg,
         a \in Clients => LoopFree(a),
         NEW o, o.new = {}, o.old = {}, o.pc # "commit", op' = [op EXCEPT ![a] = o]
  PROVE  MapsInv'
<1>1. op'[a] = o /\ \A b \in Actors \ {a} : op'[b] = op[b]
  BY DEF TypeInv, TypeOK
<1>2. Fits(op'[a], own[Proc(a)])
  BY <1>1, EmptyFits
<1>3. Held(op'[a]) = {}
  BY <1>1 DEF Held
<1> QED BY <1>1, <1>2, <1>3, QuietStep

\* A step that changes no map and no operation.
LEMMA NoStep == MapsInv /\ UNCHANGED <<own, reg, op>> => MapsInv'
BY DEF MapsInv, Fits, Apart, Held, Exclusive, Keyed, Coordinated, OneVersion

\* The requests that start an operation or end at once.
LEMMA RequestMaps ==
  ASSUME TypeInv, MapsInv, NEW a \in Clients,
         Add(a) \/ AddFails(a) \/ Update(a) \/ FetchFails(a) \/ Enable(a) \/ Reactivate(a)
  PROVE  MapsInv'
<1>1. /\ own' = own /\ reg' = reg /\ a \in Actors
      /\ LoopFree(a)
  BY DEF Add, AddFails, Update, FetchFails, Enable, Reactivate, Begin, Ready, Actors
<1>2. ASSUME NEW kind, NEW id, NEW r, NEW c
      PROVE  /\ Start(kind, id, r, c).new = {} /\ Start(kind, id, r, c).old = {}
             /\ Start(kind, id, r, c).pc = "pin"
             /\ [Start(kind, id, r, c) EXCEPT !.pc = "stuck"].new = {}
             /\ [Start(kind, id, r, c) EXCEPT !.pc = "stuck"].old = {}
             /\ [Start(kind, id, r, c) EXCEPT !.pc = "stuck"].pc = "stuck"
  BY DEF Start, Idle
<1>3. ASSUME NEW kind, NEW id, NEW r, NEW c, op' = [op EXCEPT ![a] = Start(kind, id, r, c)]
      PROVE  MapsInv'
  <2> DEFINE o == Start(kind, id, r, c)
  <2>1. o.new = {} /\ o.old = {} /\ o.pc # "commit" /\ op' = [op EXCEPT ![a] = o]
    BY <1>2, <1>3
  <2> HIDE DEF o
  <2> QED BY <1>1, <2>1, EndStep
<1>4. CASE Add(a)
  <2>1. PICK id \in RepoIds, c \in Commits :
          \/ op' = [op EXCEPT ![a] = [Start("add", id, NewRow(id, None), c) EXCEPT !.pc = "stuck"]]
          \/ op' = [op EXCEPT ![a] = Start("add", id, NewRow(id, None), c)]
    BY <1>4 DEF Add
  <2> DEFINE o == [Start("add", id, NewRow(id, None), c) EXCEPT !.pc = "stuck"]
  <2>2. o.new = {} /\ o.old = {} /\ o.pc # "commit"
    BY <1>2
  <2>3. op' = [op EXCEPT ![a] = o] \/ op' = [op EXCEPT ![a] = Start("add", id, NewRow(id, None), c)]
    BY <2>1
  <2> HIDE DEF o
  <2> QED BY <1>1, <1>3, <2>2, <2>3, EndStep
<1>5. CASE AddFails(a) \/ FetchFails(a)
  BY <1>1, <1>5, NoStep DEF AddFails, FetchFails
<1>6. CASE Update(a)
  BY <1>3, <1>6 DEF Update
<1>7. ASSUME NEW kind, StartOffline(a, kind) PROVE MapsInv'
  BY <1>1, <1>3, <1>7, NoStep DEF StartOffline
<1>8. CASE Enable(a)
  BY <1>7, <1>8 DEF Enable
<1>9. CASE Reactivate(a)
  BY <1>7, <1>9 DEF Reactivate
<1> QED BY <1>4, <1>5, <1>6, <1>8, <1>9

\* The steps after which an operation holds nothing.
LEMMA EndingMaps ==
  ASSUME TypeInv, MapsInv, NEW a \in Actors,
         PinFails(a) \/ Failed(a) \/ UndoEnds(a) \/ Finish(a)
           \/ (Delete(a) /\ op' = [op EXCEPT ![a] = Idle])
  PROVE  MapsInv'
<1>1. own' = own /\ reg' = reg /\ op' = [op EXCEPT ![a] = Idle]
  BY DEF PinFails, Abandon, Failed, UndoEnds, Finish, Delete
<1>2. a \in Clients => LoopFree(a)
  BY DEF PinFails, Failed, UndoEnds, Finish, Delete, Ready
<1>3. Idle.new = {} /\ Idle.old = {} /\ Idle.pc # "commit"
  BY DEF Idle
<1> QED BY <1>1, <1>2, <1>3, EndStep

\* A worker that starts to reload.
LEMMA ReloadMaps ==
  ASSUME TypeInv, MapsInv, NEW w \in Workers, WorkerReload(w)
  PROVE  MapsInv'
<1>1. own' = own /\ reg' = reg /\ w \in Actors /\ w \notin Clients
  BY ConstantsAssumption DEF WorkerReload, Actors
<1> DEFINE o == Start("reload", row.id, row, row.cur)
<1>2. o.new = {} /\ o.old = {} /\ o.pc # "commit"
  BY DEF Start, Idle
<1>3. op' = [op EXCEPT ![w] = o] \/ op' = op
  BY DEF WorkerReload, StartOffline
<1> HIDE DEF o
<1> QED BY <1>1, <1>2, <1>3, EndStep, NoStep

\* A step of one operation that holds afterwards what it held before, or less of
\* what it disposes of.
LEMMA SameStep ==
  ASSUME TypeInv, MapsInv, NEW a \in Actors, own' = own, reg' = reg,
         a \in Clients => LoopFree(a),
         NEW o, op' = [op EXCEPT ![a] = o],
         o.new = op[a].new, o.old \subseteq op[a].old, o.id = op[a].id,
         o.pc \notin {"pin", "commit"}, op[a].pc # "commit",
         \/ o.todo = op[a].todo /\ o.label = op[a].label
         \/ op[a].pc = "pin"
  PROVE  MapsInv'
<1>1. op'[a] = o /\ \A b \in Actors \ {a} : op'[b] = op[b]
  BY DEF TypeInv, TypeOK
<1>2. Fits(op[a], own[Proc(a)])
  BY DEF MapsInv
<1>3. Fits(o, own[Proc(a)])
  BY <1>2 DEF Fits
<1>4. Held(o) \subseteq Held(op[a])
  BY DEF Held
<1>5. \A b \in Actors \ {a} : Proc(b) = Proc(a) => Held(o) \cap Held(op[b]) = {}
  BY <1>4 DEF MapsInv, Apart
<1> QED BY <1>1, <1>3, <1>5, QuietStep

\* The steps that change what an operation does next and not what it holds.
LEMMA GotoMaps ==
  ASSUME TypeInv, MapsInv, NEW a \in Actors,
         CandidateFails(a) \/ SwitchRefused(a) \/ Pin(a)
           \/ (Delete(a) /\ op' = [op EXCEPT ![a].pc = "stuck"])
  PROVE  MapsInv'
<1>1. own' = own /\ reg' = reg /\ op[a] \in Operations /\ (a \in Clients => LoopFree(a))
  BY DEF CandidateFails, SwitchRefused, Prepared, Pin, Delete, Ready, TypeInv, TypeOK
<1>2. op[a].pc # "commit"
  BY DEF CandidateFails, SwitchRefused, Prepared, Pin, Delete, Ready
<1>3. ASSUME NEW pc \in {"failing", "stuck"}, op' = [op EXCEPT ![a].pc = pc]
      PROVE  MapsInv'
  <2> DEFINE o == [op[a] EXCEPT !.pc = pc]
  <2>1. /\ o.new = op[a].new /\ o.old = op[a].old /\ o.id = op[a].id /\ o.pc = pc
        /\ o.todo = op[a].todo /\ o.label = op[a].label
    BY <1>1 DEF Operations
  <2>2. op' = [op EXCEPT ![a] = o]
    BY <1>3
  <2> HIDE DEF o
  <2> QED BY <1>1, <1>2, <2>1, <2>2, SameStep
<1>4. ASSUME op[a].pc = "pin", NEW ins, NEW todo,
             op' = [op EXCEPT ![a].label = head, ![a].ins = ins, ![a].todo = todo,
                              ![a].pc = IF todo = {} THEN "switch" ELSE "load"]
      PROVE  MapsInv'
  <2> DEFINE pc == IF todo = {} THEN "switch" ELSE "load"
             o == [op[a] EXCEPT !.label = head, !.ins = ins, !.todo = todo, !.pc = pc]
  <2>1. op' = [op EXCEPT ![a] = o] /\ pc \in {"switch", "load"}
    BY <1>4
  <2> HIDE DEF pc
  <2>2. o.new = op[a].new /\ o.old = op[a].old /\ o.id = op[a].id /\ o.pc = pc
    BY <1>1 DEF Operations
  <2> HIDE DEF o
  <2> QED BY <1>1, <1>2, <1>4, <2>1, <2>2, SameStep
<1>5. CASE CandidateFails(a) \/ SwitchRefused(a)
  BY <1>3, <1>5 DEF CandidateFails, SwitchRefused
<1>6. CASE Pin(a)
  <2>1. op[a].pc = "pin"
    BY <1>6 DEF Pin, Ready
  <2>2. \/ op' = [op EXCEPT ![a].pc = "stuck"]
        \/ \E ins, todo :
             op' = [op EXCEPT ![a].label = head, ![a].ins = ins, ![a].todo = todo,
                              ![a].pc = IF todo = {} THEN "switch" ELSE "load"]
    BY <1>6 DEF Pin
  <2> QED BY <1>3, <1>4, <2>1, <2>2
<1> QED BY <1>3, <1>5, <1>6

\* A cleanup finds the registry without the instance it is about, and leaves it
\* alone (Dispose, Unregister).
LEMMA DisposeMaps ==
  ASSUME TypeInv, MapsInv, NEW a \in Actors, Dispose(a)
  PROVE  MapsInv'
<1>1. PICK x \in op[a].old :
        /\ reg' = [reg EXCEPT ![Proc(a)] = Unregister(@, x)]
        /\ op' = [op EXCEPT ![a].old = @ \ {x},
                            ![a].pc = IF op[a].pc = "dispose" /\ op[a].old = {x}
                                      THEN "finish" ELSE @]
  BY DEF Dispose
<1>2. /\ own' = own /\ op[a] \in Operations /\ (a \in Clients => LoopFree(a))
      /\ op[a].pc \in {"dispose", "undo"} /\ Proc(a) \in Procs /\ x \in Activations
  BY ProcType DEF Dispose, Ready, TypeInv, TypeOK, Operations
<1>3. own[Proc(a)][x.plugin] # x
  BY <1>1 DEF MapsInv, Fits
<1>4. Unregister(reg[Proc(a)], x) = reg[Proc(a)]
  <2>1. reg[Proc(a)] \in [Plugins -> Activations \cup {None}] /\ x.plugin \in Plugins
    BY <1>2 DEF TypeInv, TypeOK, Activations
  <2>2. reg[Proc(a)][x.plugin] # x
    BY <1>3 DEF MapsInv, Coordinated
  <2> QED BY <2>1, <2>2 DEF Unregister
<1>5. reg' = reg
  BY <1>1, <1>2, <1>4 DEF TypeInv, TypeOK
<1> DEFINE pc == IF op[a].pc = "dispose" /\ op[a].old = {x} THEN "finish" ELSE op[a].pc
           o == [op[a] EXCEPT !.old = op[a].old \ {x}, !.pc = pc]
<1>6. op' = [op EXCEPT ![a] = o] /\ pc \in {"dispose", "undo", "finish"}
  BY <1>1, <1>2
<1> HIDE DEF pc
<1>7. /\ o.new = op[a].new /\ o.old \subseteq op[a].old /\ o.id = op[a].id /\ o.pc = pc
      /\ o.todo = op[a].todo /\ o.label = op[a].label
  BY <1>2 DEF Operations
<1> HIDE DEF o
<1> QED BY <1>2, <1>5, <1>6, <1>7, SameStep

\* The commit keeps what is to be disposed of.
LEMMA CommitMaps ==
  ASSUME TypeInv, MapsInv, NEW a \in Actors, Commit(a)
  PROVE  MapsInv'
<1>1. /\ own' = own /\ reg' = reg /\ op[a] \in Operations
      /\ (a \in Clients => LoopFree(a)) /\ Fits(op[a], own[Proc(a)])
  BY DEF Commit, Ready, TypeInv, TypeOK, MapsInv
<1> DEFINE pc == IF op[a].old = {} THEN "finish" ELSE "dispose"
           o == [op[a] EXCEPT !.ins = NoRows, !.new = {}, !.pc = pc]
<1>2. op' = [op EXCEPT ![a] = o] /\ pc \in {"finish", "dispose"}
  BY DEF Commit
<1> HIDE DEF pc
<1>3. o.new = {} /\ o.old = op[a].old /\ o.pc = pc
  BY <1>1 DEF Operations
<1> HIDE DEF o
<1>4. op'[a] = o /\ \A b \in Actors \ {a} : op'[b] = op[b]
  BY <1>2 DEF TypeInv, TypeOK
<1>5. Fits(o, own[Proc(a)])
  BY <1>1, <1>2, <1>3 DEF Fits
<1>6. Held(o) \subseteq Held(op[a])
  BY <1>3 DEF Held
<1>7. \A b \in Actors \ {a} : Proc(b) = Proc(a) => Held(o) \cap Held(op[b]) = {}
  BY <1>6 DEF MapsInv, Apart
<1> QED BY <1>1, <1>4, <1>5, <1>7, QuietStep

\* A candidate is a new instance: nobody in the process refers to it yet (Load).
LEMMA LoadMaps ==
  ASSUME TypeInv, MapsInv, NEW a \in Actors, Load(a)
  PROVE  MapsInv'
<1> DEFINE p == First(op[a].todo)
           proc == Proc(a)
           code == IF mods[proc][p] # None THEN mods[proc][p] ELSE head
           name == CHOOSE n \in Names : n \in FreshNames(proc, p)
           instance == [repo |-> op[a].id, plugin |-> p, label |-> op[a].label,
                        code |-> code, name |-> name]
           todo == op[a].todo \ {p}
           new == op[a].new \cup {instance}
           o == [op[a] EXCEPT !.todo = todo, !.new = new, !.pc = "await"]
<1>1. op' = [op EXCEPT ![a].todo = @ \ {p}, ![a].new = @ \cup {instance}, ![a].pc = "await"]
  BY DEF Load
<1>2. FreshNames(proc, p) # {} /\ FreshNames(proc, p) \subseteq Names
  BY DEF Load, FreshNames
<1>3. /\ own' = own /\ reg' = reg /\ op[a] \in Operations /\ (a \in Clients => LoopFree(a))
      /\ op[a].pc \in {"load", "await"} /\ op[a].todo # {}
      /\ Fits(op[a], own[Proc(a)]) /\ proc \in Procs
  BY ProcType DEF Load, Ready, TypeInv, TypeOK, MapsInv
<1>4. p \in op[a].todo /\ p \in Plugins
  BY <1>3 DEF First, Operations
<1>5. name \in FreshNames(proc, p)
  BY <1>2
<1>6. instance.plugin = p /\ instance.name = name /\ instance.label = op[a].label
      /\ instance.repo = op[a].id
  OBVIOUS
<1> HIDE DEF p, proc, code, name, instance
<1>7. instance \notin Alive(proc)
  BY <1>5, <1>6 DEF FreshNames
<1>8. op' = [op EXCEPT ![a] = o]
  BY <1>1
<1> HIDE DEF todo, new
<1>9. o.new = new /\ o.old = op[a].old /\ o.id = op[a].id /\ o.label = op[a].label
      /\ o.todo = todo /\ o.pc = "await"
  BY <1>3 DEF Operations
<1> HIDE DEF o
<1>10. op'[a] = o /\ \A b \in Actors \ {a} : op'[b] = op[b]
  BY <1>8 DEF TypeInv, TypeOK
<1>11. instance # None
  <2>1. TypeInv'
    BY PrepareTypes
  <2>2. op'[a] \in Operations
    BY <2>1 DEF TypeInv, TypeOK
  <2>3. new \subseteq Activations
    BY <1>9, <1>10, <2>2 DEF Operations
  <2> QED BY <2>3, NoneAssumption DEF new
<1>12. /\ own[proc][p] # instance /\ instance \notin Held(op[a])
       /\ \A b \in Actors : Proc(b) = proc => instance \notin Held(op[b])
  <2>1. own[proc][p] # instance
    BY <1>4, <1>7, <1>11 DEF Alive
  <2>2. ASSUME NEW b \in Actors, Proc(b) = proc PROVE instance \notin Held(op[b])
    <3>1. Held(op[b]) \subseteq UNION {op[c].new \cup op[c].old : c \in {d \in Actors : Proc(d) = proc}}
      BY <2>2 DEF Held
    <3> QED BY <1>7, <3>1 DEF Alive
  <2> QED BY <2>1, <2>2 DEF proc
<1>13. Fits(o, own[Proc(a)])
  <2>1. \A x \in op[a].new : x.plugin # p
    BY <1>3, <1>4 DEF Fits
  <2>2. \A x \in new : x \in op[a].new \/ x = instance
    BY DEF new
  <2>3. \A x, y \in new : x.plugin = y.plugin => x = y
    BY <1>3, <1>6, <2>1, <2>2 DEF Fits
  <2>4. \A x \in new : x.plugin \notin o.todo /\ x.label = o.label /\ x.repo = o.id
    BY <1>3, <1>6, <1>9, <2>2 DEF Fits, todo
  <2>5. new \cap op[a].old = {}
    BY <1>3, <1>12, <2>2 DEF Fits, Held
  <2>6. \A x \in new : own[Proc(a)][x.plugin] # x
    BY <1>3, <1>6, <1>12, <2>2 DEF Fits, proc
  <2> QED BY <1>3, <1>9, <2>3, <2>4, <2>5, <2>6 DEF Fits
<1>14. \A b \in Actors \ {a} : Proc(b) = Proc(a) => Held(o) \cap Held(op[b]) = {}
  <2>1. Held(o) \subseteq Held(op[a]) \cup {instance}
    BY <1>9 DEF Held, new
  <2> QED BY <1>12, <2>1 DEF MapsInv, Apart, proc
<1> QED BY <1>3, <1>10, <1>13, <1>14, QuietStep

\* Two actors of one process are two requests of the API (Proc).
LEMMA SameProc ==
  \A a, b \in Actors : a # b /\ Proc(a) = Proc(b) => a \in Clients /\ b \in Clients
BY ConstantsAssumption DEF Actors, Proc

\* A step of one operation that changes the maps of its process to m.  The other
\* requests keep fitting, because none of them waits for a commit and what is
\* new in the maps was held by nobody else.
LEMMA MapStep ==
  ASSUME TypeInv, MapsInv, NEW a \in Actors, a \in Clients => LoopFree(a),
         NEW m, own' = [own EXCEPT ![Proc(a)] = m], reg' = own',
         \A b \in Actors \ {a} : op'[b] = op[b],
         Fits(op'[a], m),
         \A b \in Actors \ {a} : Proc(b) = Proc(a) => Held(op'[a]) \cap Held(op[b]) = {},
         \A p \in Plugins : m[p] \in {own[Proc(a)][p], None} \cup Held(op[a]),
         \A p \in Plugins : m[p] # None => m[p].plugin = p,
         \A p, q \in Plugins : (m[p] # None /\ m[q] # None /\ m[p].repo = m[q].repo)
                                => m[p].label = m[q].label
  PROVE  MapsInv'
<1>1. Proc(a) \in Procs /\ own'[Proc(a)] = m
      /\ \A proc \in Procs \ {Proc(a)} : own'[proc] = own[proc]
  BY ProcType DEF TypeInv, TypeOK
<1>2. ASSUME NEW b \in Actors \ {a}, Proc(b) = Proc(a) PROVE Fits(op[b], m)
  <2>1. op[b].pc # "commit"
    BY <1>2, SameProc DEF LoopFree, NonYield
  <2>2. Fits(op[b], own[Proc(a)]) /\ Held(op[a]) \cap Held(op[b]) = {}
    BY <1>2 DEF MapsInv, Apart
  <2>3. \A x \in Held(op[b]) : x.plugin \in Plugins /\ x # None
    BY NoneAssumption DEF Held, TypeInv, TypeOK, Operations, Activations
  <2>4. \A x \in Held(op[b]) : own[Proc(a)][x.plugin] # x
    BY <2>1, <2>2 DEF Fits, Held
  <2>5. \A x \in Held(op[b]) : m[x.plugin] # x
    BY <2>2, <2>3, <2>4
  <2>6. \A x \in op[b].new : m[x.plugin] # x
    BY <2>5 DEF Held
  <2>7. \A x \in op[b].old : m[x.plugin] # x
    BY <2>5 DEF Held
  <2> QED BY <2>1, <2>2, <2>6, <2>7 DEF Fits
<1>3. \A b \in Actors : Fits(op'[b], own'[Proc(b)])
  <2> TAKE b \in Actors
  <2>1. CASE b = a
    BY <1>1, <2>1
  <2>2. CASE b # a /\ Proc(b) = Proc(a)
    BY <1>1, <1>2, <2>2
  <2>3. CASE b # a /\ Proc(b) # Proc(a)
    BY <1>1, <2>3, ProcType DEF MapsInv
  <2> QED BY <2>1, <2>2, <2>3
<1>4. Apart'
  BY DEF MapsInv, Apart
<1>5. Exclusive'
  BY DEF MapsInv, Exclusive, LoopFree, Actors
<1>6. Keyed'
  BY <1>1 DEF MapsInv, Keyed
<1>7. OneVersion'
  BY <1>1 DEF MapsInv, OneVersion
<1>8. Coordinated'
  BY DEF Coordinated
<1> QED BY <1>3, <1>4, <1>5, <1>6, <1>7, <1>8 DEF MapsInv

\* Releasing activations: they leave the maps and go to the operation that
\* disposes of them (Deactivate).
LEMMA DeactivateMaps ==
  ASSUME TypeInv, MapsInv, NEW a \in Actors, a \in Clients => LoopFree(a),
         NEW kind, NEW id, NEW xs \in SUBSET Activations,
         \A x \in xs : \E p \in Plugins : x = own[Proc(a)][p],
         Deactivate(a, kind, id, xs)
  PROVE  MapsInv'
<1> DEFINE map == own[Proc(a)]
           m == Without(map, xs)
           o == [Idle EXCEPT !.kind = kind, !.id = id, !.old = xs,
                             !.pc = IF xs = {} THEN "finish" ELSE "dispose"]
<1>1. /\ own' = [own EXCEPT ![Proc(a)] = m] /\ reg' = own'
      /\ op'[a] = o /\ \A b \in Actors \ {a} : op'[b] = op[b]
  BY DEF Deactivate, MapsInv, Coordinated, TypeInv, TypeOK
<1>2. o.new = {} /\ o.old = xs /\ o.pc \in {"finish", "dispose"}
  BY DEF Idle
<1>3. map \in [Plugins -> Activations \cup {None}]
  BY ProcType DEF TypeInv, TypeOK
<1>4. \A p \in Plugins : m[p] = IF map[p] \in xs THEN None ELSE map[p]
  BY DEF Without
<1>5. \A x \in xs : x.plugin \in Plugins /\ map[x.plugin] = x /\ x # None
  BY <1>3, ProcType, NoneAssumption DEF MapsInv, Keyed
<1> HIDE DEF o, m, map
<1>6. \A x \in xs : m[x.plugin] # x
  BY <1>4, <1>5
<1>7. Fits(o, m)
  BY <1>2, <1>5, <1>6 DEF Fits
<1>8. ASSUME NEW b \in Actors \ {a}, Proc(b) = Proc(a)
      PROVE  Held(op'[a]) \cap Held(op[b]) = {}
  <2>1. op[b].pc # "commit"
    BY <1>8, SameProc DEF LoopFree, NonYield
  <2>2. \A x \in Held(op[b]) : map[x.plugin] # x
    BY <1>8, <2>1 DEF MapsInv, Fits, Held, map
  <2> QED BY <1>1, <1>2, <1>5, <2>2 DEF Held
<1>9. \A p \in Plugins : m[p] \in {own[Proc(a)][p], None} \cup Held(op[a])
  BY <1>4 DEF map
<1>10. \A p \in Plugins : m[p] # None => m[p].plugin = p
  BY <1>4, ProcType DEF MapsInv, Keyed, map
<1>11. \A p, q \in Plugins : (m[p] # None /\ m[q] # None /\ m[p].repo = m[q].repo)
                                => m[p].label = m[q].label
  BY <1>4, ProcType DEF MapsInv, OneVersion, map
<1> QED BY <1>1, <1>7, <1>8, <1>9, <1>10, <1>11, MapStep

\* Disabling a plugin, removing the repository, and a worker that drops one.
LEMMA ReleaseMaps ==
  ASSUME TypeInv, MapsInv
  PROVE  /\ \A a \in Clients : Disable(a) \/ Remove(a) => MapsInv'
         /\ \A w \in Workers : WorkerDrop(w) => MapsInv'
<1>1. \A proc \in Procs : \A id : /\ Owned(proc, id) \in SUBSET Activations
                                /\ \A x \in Owned(proc, id) : \E p \in Plugins : x = own[proc][p]
  BY OwnedType DEF Owned, TypeInv
<1>2. ASSUME NEW a \in Clients, Disable(a) PROVE MapsInv'
  <2>1. PICK p \in Plugins : Deactivate(a, "disable", row.id, {own[Api][p]} \ {None})
    BY <1>2 DEF Disable
  <2>2. a \in Actors /\ Proc(a) = Api /\ LoopFree(a) /\ Api \in Procs
    BY <1>2 DEF Disable, Begin, Ready, Actors, Proc, Procs
  <2>3. {own[Api][p]} \ {None} \in SUBSET Activations
    BY <2>2 DEF TypeInv, TypeOK
  <2> QED BY <2>1, <2>2, <2>3, DeactivateMaps
<1>3. ASSUME NEW a \in Clients, Remove(a) PROVE MapsInv'
  <2>1. a \in Actors /\ Proc(a) = Api /\ LoopFree(a) /\ Api \in Procs
    BY <1>3 DEF Remove, Begin, Ready, Actors, Proc, Procs
  <2>2. Deactivate(a, "remove", row.id, Owned(Api, row.id))
    BY <1>3 DEF Remove
  <2> QED BY <1>1, <2>1, <2>2, DeactivateMaps
<1>4. ASSUME NEW w \in Workers, WorkerDrop(w) PROVE MapsInv'
  <2>1. w \in Actors /\ w \notin Clients /\ Proc(w) = w /\ w \in Procs
    BY ConstantsAssumption DEF Actors, Proc, Procs
  <2>2. PICK id : Deactivate(w, "drop", id, Owned(w, id))
    BY <1>4 DEF WorkerDrop
  <2> QED BY <1>1, <2>1, <2>2, DeactivateMaps
<1> QED BY <1>2, <1>3, <1>4

\* The switch: all activations of the repository leave, all candidates enter.
LEMMA SwitchMaps ==
  ASSUME TypeInv, MapsInv, NEW a \in Actors, Switch(a)
  PROVE  MapsInv'
<1> DEFINE map == own[Proc(a)]
           old == Owned(Proc(a), op[a].id)
           new == op[a].new
           m == Replaced(map, old, new)
           o == [op[a] EXCEPT !.old = old, !.pc = "commit"]
<1>1. op[a] \in Operations /\ Proc(a) \in Procs /\ map \in [Plugins -> Activations \cup {None}]
  BY ProcType DEF TypeInv, TypeOK
<1>2. old \in SUBSET Activations /\ new \in SUBSET Activations
  BY <1>1, OwnedType DEF TypeInv, Operations
<1>3. own' = [own EXCEPT ![Proc(a)] = m] /\ op' = [op EXCEPT ![a] = o] /\ reg' = own'
  <2>1. /\ own' = [own EXCEPT ![Proc(a)] = Replaced(own[Proc(a)], old, op[a].new)]
        /\ reg' = [reg EXCEPT ![Proc(a)] = Replaced(reg[Proc(a)], old, op[a].new)]
    BY DEF Switch
  <2>2. op' = [op EXCEPT ![a] = o]
    BY DEF Switch
  <2> QED BY <2>1, <2>2 DEF MapsInv, Coordinated
<1>4. op'[a] = o /\ \A b \in Actors \ {a} : op'[b] = op[b]
  BY <1>3 DEF TypeInv, TypeOK
<1>5. /\ a \in Clients => LoopFree(a)
      /\ op[a].pc \in {"switch", "await"} /\ Fits(op[a], map)
  BY DEF Switch, Prepared, Ready, MapsInv
<1>6. \A x \in old : x.plugin \in Plugins /\ map[x.plugin] = x /\ x # None /\ x.repo = op[a].id
  BY <1>1, NoneAssumption DEF Owned, MapsInv, Keyed
<1>7. \A p \in Plugins : map[p] # None /\ map[p].repo = op[a].id => map[p] \in old
  BY DEF Owned
<1>8. /\ o.new = new /\ o.old = old /\ o.pc = "commit" /\ o.id = op[a].id
      /\ o.label = op[a].label /\ o.todo = op[a].todo
  BY <1>1 DEF Operations
<1>9. \A x, y \in new : x.plugin = y.plugin => x = y
  BY <1>5 DEF Fits
<1>10. \A x \in new : /\ x.plugin \notin o.todo /\ x.label = o.label /\ x.repo = o.id
                       /\ map[x.plugin] # x /\ x.plugin \in Plugins /\ x # None
  BY <1>2, <1>5, <1>8, NoneAssumption DEF Fits, Activations
<1>11. \A p \in Plugins :
         /\ Without(map, old)[p] = IF map[p] \in old THEN None ELSE map[p]
         /\ \A y \in new : y.plugin = p => m[p] = y
         /\ (\A y \in new : y.plugin # p) => m[p] = Without(map, old)[p]
         /\ m[p] \in new \cup ({map[p], None} \ old)
  <2> HIDE DEF map, old, new
  <2> QED BY <1>1, <1>2, <1>9, ReplacedMaps
<1>12. \A x, y \in old : x.label = y.label
  BY <1>1, <1>6 DEF MapsInv, OneVersion
<1>13. \A p \in Plugins : map[p] # None => map[p].plugin = p
  BY <1>1 DEF MapsInv, Keyed
<1>14. \A p, q \in Plugins : (map[p] # None /\ map[q] # None /\ map[p].repo = map[q].repo)
                                => map[p].label = map[q].label
  BY <1>1 DEF MapsInv, OneVersion
<1>15. \A b \in Actors \ {a} : Proc(b) = Proc(a) => Held(op[a]) \cap Held(op[b]) = {}
  BY DEF MapsInv, Apart
<1>16. ASSUME NEW b \in Actors \ {a}, Proc(b) = Proc(a)
       PROVE  \A x \in Held(op[b]) : map[x.plugin] # x
  <2>1. op[b].pc # "commit"
    BY <1>5, <1>16, SameProc DEF LoopFree, NonYield
  <2> QED BY <1>16, <2>1 DEF MapsInv, Fits, Held
<1>17. new \subseteq Held(op[a]) /\ Held(o) = new \cup old
  BY <1>8 DEF Held
<1> HIDE DEF map, old, new, m, o
<1>18. new \cap old = {}
  BY <1>6, <1>10
<1>19. Fits(o, m)
  <2>1. \A x, y \in old : x.plugin = y.plugin => x = y
    BY <1>6
  <2>2. \A x \in old : m[x.plugin] # x
    BY <1>6, <1>11, <1>18
  <2>3. \A x \in new : m[x.plugin] = x
    BY <1>10, <1>11
  <2>4. \A p \in Plugins : m[p] # None /\ m[p].repo = o.id => m[p] \in new
    BY <1>7, <1>8, <1>11
  <2> QED BY <1>6, <1>8, <1>9, <1>10, <1>12, <1>18, <2>1, <2>2, <2>3, <2>4 DEF Fits
<1>20. \A b \in Actors \ {a} : Proc(b) = Proc(a) => Held(op'[a]) \cap Held(op[b]) = {}
  BY <1>4, <1>6, <1>15, <1>16, <1>17
<1>21. \A p \in Plugins : m[p] \in {own[Proc(a)][p], None} \cup Held(op[a])
  BY <1>11, <1>17 DEF map
<1>22. \A p \in Plugins : m[p] # None => m[p].plugin = p
  BY <1>11, <1>13
<1>23. \A p, q \in Plugins : (m[p] # None /\ m[q] # None /\ m[p].repo = m[q].repo)
                                => m[p].label = m[q].label
  <2> TAKE p, q \in Plugins
  <2> HAVE m[p] # None /\ m[q] # None /\ m[p].repo = m[q].repo
  <2>1. CASE m[p] \in new /\ m[q] \in new
    BY <1>10, <2>1
  <2>2. CASE m[p] \notin new /\ m[q] \notin new
    BY <1>11, <1>14, <2>2
  <2>3. CASE m[p] \in new /\ m[q] \notin new
    BY <1>7, <1>8, <1>10, <1>11, <2>3
  <2>4. CASE m[p] \notin new /\ m[q] \in new
    BY <1>7, <1>8, <1>10, <1>11, <2>4
  <2> QED BY <2>1, <2>2, <2>3, <2>4
<1>24. Fits(op'[a], m) /\ (a \in Clients => LoopFree(a))
  BY <1>4, <1>5, <1>19
<1> QED BY <1>3, <1>4, <1>20, <1>21, <1>22, <1>23, <1>24, MapStep, ZenonT(60)

\* A failed commit: the candidates leave the maps, and the activations that the
\* switch has taken out return (CommitFails, rollback_switch).
LEMMA CommitFailsMaps ==
  ASSUME TypeInv, MapsInv, NEW a \in Actors, CommitFails(a)
  PROVE  MapsInv'
<1> DEFINE map == own[Proc(a)]
           old == op[a].old
           new == op[a].new
           m == Replaced(map, new, old)
           o == [op[a] EXCEPT !.ins = NoRows, !.new = {}, !.old = new, !.pc = "undo"]
<1>1. op[a] \in Operations /\ Proc(a) \in Procs /\ map \in [Plugins -> Activations \cup {None}]
  BY ProcType DEF TypeInv, TypeOK
<1>2. old \in SUBSET Activations /\ new \in SUBSET Activations
  BY <1>1 DEF Operations
<1>3. own' = [own EXCEPT ![Proc(a)] = m] /\ op' = [op EXCEPT ![a] = o] /\ reg' = own'
  <2>1. /\ own' = [own EXCEPT ![Proc(a)] = PutBack(own[Proc(a)], new, old)]
        /\ reg' = [reg EXCEPT ![Proc(a)] = PutBack(reg[Proc(a)], new, old)]
    BY DEF CommitFails
  <2>2. op' = [op EXCEPT ![a] = o]
    BY DEF CommitFails
  <2> QED BY <2>1, <2>2 DEF MapsInv, Coordinated, PutBack, Replaced
<1>4. op'[a] = o /\ \A b \in Actors \ {a} : op'[b] = op[b]
  BY <1>3 DEF TypeInv, TypeOK
<1>5. (a \in Clients => LoopFree(a)) /\ op[a].pc = "commit" /\ Fits(op[a], map)
  BY DEF CommitFails, Ready, MapsInv
<1>6. /\ \A x, y \in old : x.plugin = y.plugin => x = y
      /\ \A x, y \in new : x.plugin = y.plugin => x = y
      /\ \A x, y \in old : x.label = y.label
      /\ \A x \in old : x.repo = op[a].id
      /\ \A p \in Plugins : map[p] # None /\ map[p].repo = op[a].id => map[p] \in new
      /\ new \cap old = {}
  BY <1>5 DEF Fits
<1>7. \A x \in new \cup old : x.plugin \in Plugins /\ x # None
  BY <1>2, NoneAssumption DEF Activations
<1>8. o.new = {} /\ o.old = new /\ o.pc = "undo"
  BY <1>1 DEF Operations
<1>9. \A p \in Plugins :
        /\ Without(map, new)[p] = IF map[p] \in new THEN None ELSE map[p]
        /\ \A y \in old : y.plugin = p => m[p] = y
        /\ (\A y \in old : y.plugin # p) => m[p] = Without(map, new)[p]
        /\ m[p] \in old \cup ({map[p], None} \ new)
  <2> HIDE DEF map, old, new
  <2> QED BY <1>1, <1>2, <1>6, ReplacedMaps
<1>10. \A p \in Plugins : map[p] # None => map[p].plugin = p
  BY <1>1 DEF MapsInv, Keyed
<1>11. \A p, q \in Plugins : (map[p] # None /\ map[q] # None /\ map[p].repo = map[q].repo)
                                => map[p].label = map[q].label
  BY <1>1 DEF MapsInv, OneVersion
<1>12. Held(o) \subseteq Held(op[a]) /\ old \subseteq Held(op[a])
  BY <1>8 DEF Held
<1>13. \A b \in Actors \ {a} : Proc(b) = Proc(a) => Held(op[a]) \cap Held(op[b]) = {}
  BY DEF MapsInv, Apart
<1> HIDE DEF map, old, new, m, o
<1>14. \A x \in new : m[x.plugin] # x
  BY <1>6, <1>7, <1>9
<1>15. Fits(op'[a], m) /\ (a \in Clients => LoopFree(a))
  BY <1>4, <1>5, <1>6, <1>8, <1>14 DEF Fits
<1>16. \A b \in Actors \ {a} : Proc(b) = Proc(a) => Held(op'[a]) \cap Held(op[b]) = {}
  BY <1>4, <1>12, <1>13
<1>17. \A p \in Plugins : m[p] \in {own[Proc(a)][p], None} \cup Held(op[a])
  BY <1>9, <1>12 DEF map
<1>18. \A p \in Plugins : m[p] # None => m[p].plugin = p
  BY <1>9, <1>10
<1>19. \A p, q \in Plugins : (m[p] # None /\ m[q] # None /\ m[p].repo = m[q].repo)
                                => m[p].label = m[q].label
  <2> TAKE p, q \in Plugins
  <2> HAVE m[p] # None /\ m[q] # None /\ m[p].repo = m[q].repo
  <2>1. CASE m[p] \in old /\ m[q] \in old
    BY <1>6, <2>1
  <2>2. CASE m[p] \notin old /\ m[q] \notin old
    BY <1>9, <1>11, <2>2
  <2>3. CASE m[p] \in old /\ m[q] \notin old
    BY <1>6, <1>9, <2>3
  <2>4. CASE m[p] \notin old /\ m[q] \in old
    BY <1>6, <1>9, <2>4
  <2> QED BY <2>1, <2>2, <2>3, <2>4
<1> QED BY <1>3, <1>4, <1>15, <1>16, <1>17, <1>18, <1>19, MapStep, ZenonT(60)

\* A restarted process starts with empty maps (RestartApi, RestartWorker).
LEMMA RestartMaps ==
  ASSUME TypeInv, MapsInv
  PROVE  /\ RestartApi => MapsInv'
         /\ \A w \in Workers : RestartWorker(w) => MapsInv'
<1>1. \A p \in Plugins : Nothing[p] = None
  BY DEF Nothing
<1>2. Idle.new = {} /\ Idle.old = {} /\ Idle.pc = "idle"
  BY DEF Idle
<1>3. ASSUME NEW w \in Workers, RestartWorker(w) PROVE MapsInv'
  <2>1. w \in Actors /\ w \notin Clients /\ Proc(w) = w
    BY ConstantsAssumption DEF Actors, Proc
  <2>2. own' = [own EXCEPT ![w] = Nothing] /\ reg' = own'
    BY <1>3 DEF RestartWorker, Cleared, MapsInv, Coordinated
  <2>3. op'[w] = Idle /\ \A b \in Actors \ {w} : op'[b] = op[b]
    BY <1>3, <2>1 DEF RestartWorker, TypeInv, TypeOK
  <2>4. Fits(op'[w], Nothing) /\ Held(op'[w]) = {}
    BY <1>2, <2>3, EmptyFits DEF Held
  <2>5. /\ own' = [own EXCEPT ![Proc(w)] = Nothing] /\ Fits(op'[w], Nothing)
        /\ \A b \in Actors \ {w} : Proc(b) = Proc(w) => Held(op'[w]) \cap Held(op[b]) = {}
        /\ w \in Clients => LoopFree(w)
    BY <2>1, <2>2, <2>4
  <2>6. /\ \A p \in Plugins : Nothing[p] \in {own[Proc(w)][p], None} \cup Held(op[w])
        /\ \A p \in Plugins : Nothing[p] # None => Nothing[p].plugin = p
        /\ \A p, q \in Plugins :
             (Nothing[p] # None /\ Nothing[q] # None /\ Nothing[p].repo = Nothing[q].repo)
               => Nothing[p].label = Nothing[q].label
    BY <1>1
  <2>7. reg' = own' /\ w \in Actors /\ \A b \in Actors \ {w} : op'[b] = op[b]
    BY <2>1, <2>2, <2>3
  <2> QED BY <2>5, <2>6, <2>7, MapStep
<1>4. ASSUME RestartApi PROVE MapsInv'
  <2> DEFINE o == Start("boot", row.id, row, row.cur)
  <2>1. PICK a \in Clients, boots \in BOOLEAN :
          op' = [b \in Actors |-> CASE b \in Workers -> op[b]
                                    [] b = a /\ boots -> o
                                    [] OTHER -> Idle]
    BY <1>4 DEF RestartApi
  <2>2. o.new = {} /\ o.old = {} /\ o.pc = "pin"
    BY DEF Start, Idle
  <2> HIDE DEF o
  <2>3. /\ \A b \in Workers : op'[b] = op[b] /\ Proc(b) = b /\ b \in Actors /\ b \notin Clients
        /\ \A b \in Clients : /\ op'[b] = Idle \/ (b = a /\ op'[b] = o)
                              /\ Proc(b) = Api /\ b \in Actors
    BY <2>1, ConstantsAssumption DEF Actors, Proc
  <2>4. Api \notin Workers
    BY ConstantsAssumption
  <2>5. /\ own' = [own EXCEPT ![Api] = Nothing] /\ reg' = own'
        /\ own \in [Procs -> [Plugins -> Activations \cup {None}]] /\ Api \in Procs
    BY <1>4 DEF RestartApi, Cleared, MapsInv, Coordinated, TypeInv, TypeOK, Procs
  <2>6. \A b \in Clients : Held(op'[b]) = {} /\ Fits(op'[b], own'[Proc(b)])
    <3> TAKE b \in Clients
    <3>1. op'[b].new = {} /\ op'[b].old = {} /\ op'[b].pc # "commit"
      BY <1>2, <2>2, <2>3
    <3> QED BY <3>1, EmptyFits DEF Held
  <2>7. \A b \in Workers : Fits(op'[b], own'[Proc(b)])
    BY <2>3, <2>4, <2>5 DEF MapsInv
  <2>8. \A b \in Actors : Fits(op'[b], own'[Proc(b)])
    BY <2>6, <2>7 DEF Actors
  <2>9. Apart'
    BY <2>6, SameProc DEF Apart
  <2>10. Exclusive'
    BY <1>2, <2>3 DEF Exclusive, NonYield
  <2>11. \A proc \in Procs : own'[proc] = IF proc = Api THEN Nothing ELSE own[proc]
    BY <2>5
  <2>12. Keyed' /\ OneVersion'
    BY <1>1, <2>11 DEF MapsInv, Keyed, OneVersion
  <2> QED BY <2>5, <2>8, <2>9, <2>10, <2>12 DEF MapsInv, Coordinated
<1> QED BY <1>3, <1>4

\* The initial maps are empty.
LEMMA MapsInit == Init => MapsInv
<1> SUFFICES ASSUME Init PROVE MapsInv
  OBVIOUS
<1>1. Idle.new = {} /\ Idle.old = {} /\ Idle.pc = "idle"
  BY DEF Idle
<1>2. \A a \in Actors : op[a] = Idle
  BY DEF Init
<1>3. \A a \in Actors : Fits(op[a], own[Proc(a)])
  BY <1>1, <1>2, EmptyFits
<1>4. Apart /\ Exclusive
  BY <1>1, <1>2 DEF Apart, Held, Exclusive, NonYield, Actors
<1>5. Keyed /\ Coordinated /\ OneVersion
  BY DEF Init, Nothing, Keyed, Coordinated, OneVersion
<1> QED BY <1>3, <1>4, <1>5 DEF MapsInv

\* Every step keeps the maps in order.
LEMMA MapsStep == TypeInv /\ MapsInv /\ [Next]_vars => MapsInv'
<1> SUFFICES ASSUME TypeInv, MapsInv, [Next]_vars PROVE MapsInv'
  OBVIOUS
<1>1. CASE UNCHANGED vars
  BY <1>1, NoStep DEF vars
<1>2. ASSUME NEW a \in Clients, Request(a) PROVE MapsInv'
  BY <1>2, RequestMaps, ReleaseMaps DEF Request
<1>3. ASSUME NEW w \in Workers, Poll(w) \/ RestartWorker(w) PROVE MapsInv'
  BY <1>3, ReleaseMaps, ReloadMaps, RestartMaps DEF Poll
<1>4. ASSUME NEW a \in Actors, Continue(a) PROVE MapsInv'
  <2>1. CASE Delete(a)
    BY <2>1, EndingMaps, GotoMaps DEF Delete
  <2>2. CASE PinFails(a) \/ Failed(a) \/ UndoEnds(a) \/ Finish(a)
    BY <2>2, EndingMaps
  <2>3. CASE CandidateFails(a) \/ SwitchRefused(a) \/ Pin(a)
    BY <2>3, GotoMaps
  <2>4. CASE Load(a) \/ Dispose(a) \/ Commit(a)
    BY <2>4, LoadMaps, DisposeMaps, CommitMaps
  <2>5. CASE Switch(a) \/ CommitFails(a)
    BY <2>5, SwitchMaps, CommitFailsMaps
  <2> QED BY <1>4, <2>1, <2>2, <2>3, <2>4, <2>5 DEF Continue
<1>5. CASE RestartApi
  BY <1>5, RestartMaps
<1> QED BY <1>1, <1>2, <1>3, <1>4, <1>5 DEF Next

---------------------------------------------------------------------------
(* The theorems                                                            *)

\* The inductive invariant holds in every behaviour (SwitchInv).
THEOREM SwitchInvariant == Spec => []SwitchInv
<1>1. Init => TypeInv /\ MapsInv
  BY TypeInit, MapsInit
<1>2. TypeInv /\ MapsInv /\ [Next]_vars => (TypeInv /\ MapsInv)'
  BY TypeStep, MapsStep
<1>3. TypeInv /\ MapsInv => SwitchInv
  BY DEF TypeInv, MapsInv, SwitchInv
<1> QED BY <1>1, <1>2, <1>3, PTL DEF Spec

\* Registry and coordinator of a process never disagree: no cleanup takes the
\* instance of a later activation (unregister with expected_instance).
THEOREM CoordinatedCorrect == Spec => []Coordinated
<1>1. SwitchInv => Coordinated
  BY DEF SwitchInv
<1> QED BY <1>1, SwitchInvariant, PTL

\* No interleaving of updates, removals, failed commits, polls and restarts makes
\* two versions of a repository visible at once (commit_switch, rollback_switch).
THEOREM OneVersionCorrect == Spec => []OneVersion
<1>1. SwitchInv => OneVersion
  BY DEF SwitchInv
<1> QED BY <1>1, SwitchInvariant, PTL

\* What is on its way to being disposed of is in no map of its process
\* (deactivate, commit_switch).
THEOREM NoDisposedVisibleCorrect == Spec => []NoDisposedVisible
<1>1. SwitchInv => NoDisposedVisible
  BY DEF SwitchInv, NoDisposedVisible, Fits
<1> QED BY <1>1, SwitchInvariant, PTL

\* A failed commit always finds the maps as its own switch has left them
\* (rollback_switch).
THEOREM RollbackPossibleCorrect == Spec => []RollbackPossible
<1>1. SwitchInv => RollbackPossible
  BY DEF SwitchInv, RollbackPossible, Unchanged, Fits
<1> QED BY <1>1, SwitchInvariant, PTL

---------------------------------------------------------------------------
(* One request at a time                                                   *)

\* What a step of the only request keeps, beside workers that do as they like.
Kept(r) ==
  /\ LockedInv(op[r])'
  /\ EnabledInv(op[r]) => EnabledInv(op[r])'
  /\ CodeInv(op[r]) => CodeInv(op[r])'

\* The only client and the process it runs in.
LEMMA OneClient ==
  ASSUME TypeInv, NEW r, Clients = {r}
  PROVE  /\ r \in Clients /\ r \in Actors /\ Proc(r) = Api /\ Api \in Procs
         /\ own[Api] \in [Plugins -> Activations \cup {None}]
         /\ mods[Api] \in [Plugins -> Commits \cup {None}]
         /\ cfg \in [Plugins -> CfgStates]
         /\ op[r] \in Operations /\ Labelled(op[r])
         /\ row # None => row \in Rows
         /\ \A w \in Workers : w \in Actors /\ w # r /\ w # Api /\ w \in Procs /\ Proc(w) = w
                               /\ op[w] \in Operations
         /\ \A x : op' = [op EXCEPT ![r] = x] => op'[r] = x /\ \A w \in Workers : op'[w] = op[w]
BY ConstantsAssumption DEF TypeInv, TypeOK, Actors, Procs, Proc

\* A step that leaves row and maps as they are and the operation where it was,
\* or brings it closer to its end.
LEMMA LockedKept ==
  ASSUME NEW r, LockedInv(op[r]), row' = row, own'[Api] = own[Api],
         \A w \in Workers : op'[w].kind = op[w].kind,
         op[r].pc # "commit", op'[r].pc # "commit",
         op'[r].kind \in {op[r].kind, "none"},
         Underway(op'[r]) => /\ Underway(op[r]) /\ op'[r].kind = op[r].kind
                             /\ op'[r].id = op[r].id /\ op'[r].locked = op[r].locked
                             /\ \/ op'[r].label = op[r].label
                                \/ op[r].kind \in Advancing
  PROVE  LockedInv(op[r])'
<1>1. RowKnown(op[r])'
  BY DEF LockedInv, RowKnown, Underway, Advancing, Offline
<1> QED BY <1>1 DEF LockedInv, Current

\* The bookkeeping of a request that starts (Start).
LEMMA StartFields ==
  ASSUME NEW kind, NEW id, NEW c, NEW n
  PROVE  LET o == Start(kind, id, n, c) IN
           /\ o.kind = kind /\ o.pc = "pin" /\ o.id = id /\ o.locked = n.cur /\ o.label = c
           /\ o.ins = NoRows /\ o.new = {} /\ o.old = {} /\ o.todo = {}
BY DEF Start, Idle

\* A request that only starts to activate a commit of the row it has read.
LEMMA StartKept ==
  ASSUME TypeInv, NEW r, Clients = {r}, LockedInv(op[r]), op[r].pc = "idle",
         row # None, row' = row, own' = own,
         NEW kind, NEW c, op' = [op EXCEPT ![r] = Start(kind, row.id, row, c)],
         kind \in {"update", "rollback"} \/ (kind \in Offline /\ c = row.cur),
         \A p \in Plugins : cfg[p] = "on" => cfg'[p] = "on"
  PROVE  Kept(r)
<1> DEFINE o == Start(kind, row.id, row, c)
<1>1. op'[r] = o /\ \A w \in Workers : op'[w] = op[w]
  BY OneClient
<1>2. /\ o.kind = kind /\ o.pc = "pin" /\ o.id = row.id /\ o.locked = row.cur /\ o.label = c
      /\ o.ins = NoRows /\ o.new = {} /\ o.old = {} /\ o.todo = {}
  BY StartFields
<1> HIDE DEF o
<1>3. kind \notin {"add", "remove"}
  BY DEF Offline
<1>4. LockedInv(op[r])'
  <2>1. RowKnown(op[r])'
    BY <1>1, <1>2, <1>3 DEF LockedInv, RowKnown, Underway
  <2> QED BY <1>1, <1>2, <1>3, <2>1 DEF LockedInv, Current
<1>5. EnabledInv(op[r]) => EnabledInv(op[r])'
  BY <1>1, <1>2 DEF EnabledInv, NoRows
<1>6. CodeInv(op[r]) => CodeInv(op[r])'
  BY <1>1, <1>2 DEF CodeInv, Held
<1> QED BY <1>4, <1>5, <1>6 DEF Kept

\* Requests that start an operation or end at once.
LEMMA RequestKept ==
  ASSUME TypeInv, NEW r, Clients = {r}, LockedInv(op[r]),
         Add(r) \/ AddFails(r) \/ Update(r) \/ FetchFails(r) \/ Enable(r) \/ Reactivate(r)
  PROVE  Kept(r)
<1>1. op[r].pc = "idle" /\ own' = own
  BY DEF Add, AddFails, Update, FetchFails, Enable, Reactivate, Begin, Ready
<1>2. row = None => \A p \in Plugins : own[Api][p] = None
  BY <1>1 DEF LockedInv, Current
<1>3. CASE Add(r)
  <2>1. PICK id \in RepoIds, c \in Commits : op' = [op EXCEPT ![r] = Start("add", id, NewRow(id, None), c)]
    BY <1>3 DEF Add
  <2> DEFINE o == Start("add", id, NewRow(id, None), c)
  <2>2. op'[r] = o /\ \A w \in Workers : op'[w] = op[w]
    BY <2>1, OneClient
  <2>3. /\ o.kind = "add" /\ o.pc = "pin" /\ o.locked = None
        /\ o.ins = NoRows /\ o.new = {} /\ o.old = {} /\ o.todo = {}
    BY StartFields DEF NewRow
  <2> HIDE DEF o
  <2>4. row = None /\ row' = None /\ cfg' = cfg
    BY <1>3 DEF Add
  <2>5. RowKnown(op[r])'
    BY <2>2, <2>3, <2>4 DEF LockedInv, RowKnown, Underway
  <2>6. LockedInv(op[r])'
    BY <1>1, <1>2, <2>2, <2>3, <2>4, <2>5 DEF LockedInv
  <2>7. EnabledInv(op[r])' /\ CodeInv(op[r])'
    BY <1>1, <1>2, <2>2, <2>3, <2>4 DEF EnabledInv, CodeInv, Held, NoRows
  <2> QED BY <2>6, <2>7 DEF Kept
<1>4. CASE AddFails(r)
  <2>1. row = None /\ op' = op /\ cfg' = cfg /\ mods' = mods
    BY <1>4 DEF AddFails
  <2>2. LockedInv(op[r])'
    <3>1. RowKnown(op[r])'
      BY <1>1, <2>1 DEF LockedInv, RowKnown, Underway
    <3> QED BY <1>1, <1>2, <2>1, <3>1 DEF LockedInv
  <2>3. EnabledInv(op[r]) => EnabledInv(op[r])'
    BY <1>1, <2>1 DEF EnabledInv, Seen
  <2>4. CodeInv(op[r]) => CodeInv(op[r])'
    BY <1>1, <2>1 DEF CodeInv
  <2> QED BY <2>2, <2>3, <2>4 DEF Kept
<1>5. CASE Update(r)
  <2>1. row # None /\ row' = row /\ cfg' = cfg
    BY <1>5 DEF Update
  <2>2. CASE \E c \in Commits : op' = [op EXCEPT ![r] = Start("update", row.id, row, c)]
    <3>1. PICK c \in Commits : op' = [op EXCEPT ![r] = Start("update", row.id, row, c)]
      BY <2>2
    <3> QED BY <1>1, <2>1, <3>1, StartKept
  <2>3. CASE op' = [op EXCEPT ![r] = Start("rollback", row.id, row, row.prev)]
    BY <1>1, <2>1, <2>3, StartKept
  <2> QED BY <1>5, <2>2, <2>3 DEF Update
<1>6. CASE FetchFails(r)
  <2>1. row' = row /\ op' = op /\ cfg' = cfg /\ mods' = mods
    BY <1>6 DEF FetchFails
  <2>2. LockedInv(op[r])'
    BY <1>1, <2>1, LockedKept DEF Underway
  <2>3. EnabledInv(op[r]) => EnabledInv(op[r])'
    BY <1>1, <2>1 DEF EnabledInv, Seen
  <2>4. CodeInv(op[r]) => CodeInv(op[r])'
    BY <1>1, <2>1 DEF CodeInv
  <2> QED BY <2>2, <2>3, <2>4 DEF Kept
<1>7. CASE Enable(r)
  <2>1. PICK p \in Plugins : cfg' = [cfg EXCEPT ![p] = "on"]
    BY <1>7 DEF Enable
  <2>2. \A q \in Plugins : cfg[q] = "on" => cfg'[q] = "on"
    BY <2>1, OneClient
  <2>3. row # None /\ row' = row /\ mods' = mods /\ StartOffline(r, "enable")
    BY <1>7 DEF Enable
  <2>4. CASE op' = op
    <3>1. LockedInv(op[r])'
      BY <1>1, <2>3, <2>4, LockedKept DEF Underway
    <3>2. EnabledInv(op[r]) => EnabledInv(op[r])'
      <4> SUFFICES ASSUME EnabledInv(op[r]) PROVE EnabledInv(op[r])'
        OBVIOUS
      <4>1. \A q \in Plugins : cfg[q] = "absent" => cfg'[q] = "absent"
        BY <1>7, <2>1, OneClient DEF Enable
      <4>2. \A x \in op[r].new : x.plugin \in Plugins
        BY OneClient DEF Operations, Activations
      <4>3. \A q \in Plugins : Seen(op[r].ins)[q] = "on" => Seen(op[r].ins)'[q] = "on"
        BY <2>2, <2>4 DEF Seen
      <4> QED BY <1>1, <2>2, <2>4, <4>1, <4>2, <4>3 DEF EnabledInv
    <3>3. CodeInv(op[r]) => CodeInv(op[r])'
      BY <1>1, <2>3, <2>4 DEF CodeInv
    <3> QED BY <3>1, <3>2, <3>3 DEF Kept
  <2>5. CASE op' = [op EXCEPT ![r] = Start("enable", row.id, row, row.cur)]
    BY <1>1, <2>2, <2>3, <2>5, StartKept DEF Offline
  <2> QED BY <2>3, <2>4, <2>5 DEF StartOffline
<1>8. CASE Reactivate(r)
  <2>1. row # None /\ row' = row /\ cfg' = cfg
        /\ \E kind \in {"config", "load"} :
             op' = [op EXCEPT ![r] = Start(kind, row.id, row, row.cur)]
    BY <1>8 DEF Reactivate, StartOffline
  <2> QED BY <1>1, <2>1, StartKept DEF Offline
<1> QED BY <1>3, <1>4, <1>5, <1>6, <1>7, <1>8

\* Requests that take activations out of the maps (deactivate, remove_repository).
LEMMA ReleaseKept ==
  ASSUME TypeInv, MapsInv, NEW r, Clients = {r}, LockedInv(op[r]), Disable(r) \/ Remove(r)
  PROVE  Kept(r)
<1>1. /\ op[r].pc = "idle" /\ row' = row /\ row # None /\ mods' = mods
      /\ \A p \in Plugins : own[Api][p] # None => Current(own[Api][p]) /\ own[Api][p].plugin = p
      /\ \A w \in Workers : op[w].kind \in {"none", "reload", "drop"}
  BY OneClient DEF Disable, Remove, Begin, Ready, LockedInv, RowKnown, MapsInv, Keyed
<1>2. PICK kind \in {"disable", "remove"}, xs \in SUBSET {own[Api][p] : p \in Plugins} :
        /\ Deactivate(r, kind, row.id, xs)
        /\ None \notin xs
        /\ kind = "remove" => xs = Owned(Api, row.id) /\ cfg' = cfg
        /\ kind = "disable" =>
             \E p \in Plugins : xs = {own[Api][p]} \ {None} /\ cfg' = [cfg EXCEPT ![p] = "off"]
  <2>1. CASE Disable(r)
    <3>1. PICK p \in Plugins : /\ cfg' = [cfg EXCEPT ![p] = "off"]
                               /\ Deactivate(r, "disable", row.id, {own[Api][p]} \ {None})
      BY <2>1 DEF Disable
    <3> QED BY <3>1
  <2>2. CASE Remove(r)
    <3>1. Owned(Api, row.id) \subseteq {own[Api][p] : p \in Plugins} /\ None \notin Owned(Api, row.id)
      BY DEF Owned
    <3> QED BY <2>2, <3>1 DEF Remove
  <2> QED BY <2>1, <2>2
<1> DEFINE o == [Idle EXCEPT !.kind = kind, !.id = row.id, !.old = xs,
                             !.pc = IF xs = {} THEN "finish" ELSE "dispose"]
<1>3. op'[r] = o /\ \A w \in Workers : op'[w] = op[w]
  BY <1>2, OneClient DEF Deactivate
<1>4. o.kind = kind /\ o.pc \in {"finish", "dispose"} /\ o.old = xs
      /\ o.new = {} /\ o.ins = NoRows
  BY DEF Idle
<1>5. \A p \in Plugins : own'[Api][p] = IF own[Api][p] \in xs THEN None ELSE own[Api][p]
  BY <1>2, OneClient DEF Deactivate, Without, TypeInv, TypeOK
<1> HIDE DEF o
<1>6. kind = "remove" => \A p \in Plugins : own'[Api][p] = None
  <2>1. \A p \in Plugins : own[Api][p] # None => own[Api][p] \in Owned(Api, row.id)
    BY <1>1 DEF Owned, Current
  <2> QED BY <1>2, <1>5, <2>1
<1>7. LockedInv(op[r])'
  <2>1. RowKnown(op[r])'
    BY <1>1, <1>3, <1>4 DEF RowKnown, Underway
  <2> QED BY <1>1, <1>3, <1>4, <1>5, <1>6, <2>1 DEF LockedInv, Current
<1>8. EnabledInv(op[r]) => EnabledInv(op[r])'
  <2> SUFFICES ASSUME EnabledInv(op[r]) PROVE EnabledInv(op[r])'
    OBVIOUS
  <2>1. \A p \in Plugins : own[Api][p] # None => cfg[p] = "on"
    BY <1>1 DEF EnabledInv
  <2>2. ASSUME NEW p \in Plugins, own'[Api][p] # None PROVE cfg'[p] = "on"
    <3>1. own[Api][p] # None /\ own[Api][p] \notin xs /\ cfg[p] = "on"
      BY <1>5, <2>1, <2>2
    <3>2. kind = "disable" => \E q \in Plugins : q # p /\ cfg' = [cfg EXCEPT ![q] = "off"]
      BY <1>2, <3>1
    <3> QED BY <1>2, <3>1, <3>2, OneClient
  <2>3. \A p \in Plugins : o.ins[p] = "absent"
    BY <1>4 DEF NoRows
  <2> QED BY <1>3, <1>4, <2>2, <2>3 DEF EnabledInv
<1>9. CodeInv(op[r]) => CodeInv(op[r])'
  <2> SUFFICES ASSUME CodeInv(op[r]) PROVE CodeInv(op[r])'
    OBVIOUS
  <2>1. \A x \in xs : x.code = x.label
    BY <1>2 DEF CodeInv
  <2>2. \A p \in Plugins : own'[Api][p] # None => own'[Api][p].code = own'[Api][p].label
    BY <1>5 DEF CodeInv
  <2> QED BY <1>3, <1>4, <2>1, <2>2 DEF CodeInv, Held
<1> QED BY <1>7, <1>8, <1>9 DEF Kept

\* Pinning a commit: the manifest of the checkout, the rows to insert and an
\* empty module cache (_activate_repository).
LEMMA PinKept ==
  ASSUME TypeInv, MapsInv, NEW r, Clients = {r}, LockedInv(op[r]), Pin(r)
  PROVE  Kept(r)
<1> DEFINE missing == {p \in Contains[head] : cfg[p] = "absent"}
<1>1. /\ op[r].pc = "pin" /\ own' = own /\ row' = row /\ cfg' = cfg /\ head' = head
      /\ op[r].kind \in Offline => head = op[r].label
  BY DEF Pin, Ready
<1>2. PICK ins \in Inserts(missing) :
        LET todo == Enabled(ins) \cap Role(Proc(r)) IN
          op' = [op EXCEPT ![r].label = head, ![r].ins = ins, ![r].todo = todo,
                           ![r].pc = IF todo = {} THEN "switch" ELSE "load"]
  BY OneClient DEF Pin
<1> DEFINE todo == Enabled(ins) \cap Role(Proc(r))
           o == [op[r] EXCEPT !.label = head, !.ins = ins, !.todo = todo,
                              !.pc = IF todo = {} THEN "switch" ELSE "load"]
<1>3. op'[r] = o /\ \A w \in Workers : op'[w] = op[w]
  <2>1. op' = [op EXCEPT ![r] = o]
    BY <1>2
  <2> QED BY <2>1, OneClient
<1>4. /\ o.kind = op[r].kind /\ o.id = op[r].id /\ o.locked = op[r].locked /\ o.label = head
      /\ o.ins = ins /\ o.todo = todo /\ o.new = op[r].new /\ o.old = op[r].old
      /\ o.pc \in {"switch", "load"}
  BY OneClient DEF Operations
<1>5. op[r].new = {}
  BY <1>1, OneClient DEF MapsInv, Fits
<1>6. /\ \A p \in todo : Seen(ins)[p] = "on"
      /\ \A p \in Plugins : ins[p] # "absent" => cfg[p] = "absent"
  BY DEF Enabled, Inserts
<1>7. op[r].kind \in Offline \cup Advancing
  BY <1>1 DEF LockedInv, RowKnown, Underway, Advancing
<1> HIDE DEF o, todo, missing
<1>8. LockedInv(op[r])'
  BY <1>1, <1>3, <1>4, <1>7, LockedKept DEF Underway
<1>9. EnabledInv(op[r]) => EnabledInv(op[r])'
  <2> SUFFICES ASSUME EnabledInv(op[r]) PROVE EnabledInv(op[r])'
    OBVIOUS
  <2>1. Seen(ins)' = Seen(ins)
    BY <1>1 DEF Seen
  <2> QED BY <1>1, <1>3, <1>4, <1>5, <1>6, <2>1 DEF EnabledInv
<1>10. CodeInv(op[r]) => CodeInv(op[r])'
  <2>1. \A p \in Plugins : mods'[Api][p] = None
    <3>1. mods' = Invalidated(Proc(r))
      BY OneClient DEF Pin
    <3> QED BY <3>1, OneClient DEF Invalidated, Nothing, TypeInv, TypeOK
  <2> QED BY <1>1, <1>3, <1>4, <1>5, <2>1 DEF CodeInv, Held
<1> QED BY <1>8, <1>9, <1>10 DEF Kept

\* A candidate is loaded from the checkout or from the cache (prepare_candidate).
LEMMA LoadKept ==
  ASSUME TypeInv, MapsInv, NEW r, Clients = {r}, LockedInv(op[r]), Load(r)
  PROVE  Kept(r)
<1> DEFINE proc == Proc(r)
           p == First(op[r].todo)
           code == IF mods[proc][p] # None THEN mods[proc][p] ELSE head
           x == [repo |-> op[r].id, plugin |-> p, label |-> op[r].label, code |-> code,
                 name |-> CHOOSE n \in Names : n \in FreshNames(proc, p)]
           o == [op[r] EXCEPT !.todo = op[r].todo \ {p}, !.new = op[r].new \cup {x}, !.pc = "await"]
<1>1. /\ op[r].pc \in {"load", "await"} /\ own' = own /\ row' = row /\ cfg' = cfg /\ head' = head
      /\ op[r].todo # {} /\ Proc(r) = Api
  BY OneClient DEF Load, Ready
<1>2. op' = [op EXCEPT ![r] = o] /\ mods' = [mods EXCEPT ![Api][p] = code]
  <2>1. /\ op' = [op EXCEPT ![r].todo = @ \ {p}, ![r].new = @ \cup {x}, ![r].pc = "await"]
        /\ mods' = [mods EXCEPT ![proc][p] = code]
    BY DEF Load
  <2> HIDE DEF x, p, code
  <2> QED BY <1>1, <2>1
<1>3. op'[r] = o /\ \A w \in Workers : op'[w] = op[w]
  BY <1>2, OneClient
<1>4. /\ o.kind = op[r].kind /\ o.id = op[r].id /\ o.locked = op[r].locked /\ o.label = op[r].label
      /\ o.ins = op[r].ins /\ o.todo = op[r].todo \ {p} /\ o.new = op[r].new \cup {x}
      /\ o.old = op[r].old /\ o.pc = "await"
  BY OneClient DEF Operations
<1>5. p \in op[r].todo /\ p \in Plugins
  BY <1>1, OneClient DEF First, Operations
<1>6. x.plugin = p /\ x.label = op[r].label /\ x.code = code
  OBVIOUS
<1> HIDE DEF o, x, p, proc
<1>7. LockedInv(op[r])'
  BY <1>1, <1>3, <1>4, LockedKept DEF Underway
<1>8. EnabledInv(op[r]) => EnabledInv(op[r])'
  <2> SUFFICES ASSUME EnabledInv(op[r]) PROVE EnabledInv(op[r])'
    OBVIOUS
  <2>1. Seen(op[r].ins)' = [q \in Plugins |-> IF op'[r].ins[q] # "absent" THEN op'[r].ins[q]
                                              ELSE cfg[q]]
    BY <1>1 DEF Seen
  <2>2. Seen(op[r].ins)' = Seen(op[r].ins)
    BY <1>3, <1>4, <2>1 DEF Seen
  <2> QED BY <1>1, <1>3, <1>4, <1>5, <1>6, <2>2 DEF EnabledInv
<1>9. CodeInv(op[r]) => CodeInv(op[r])'
  <2> SUFFICES ASSUME CodeInv(op[r]) PROVE CodeInv(op[r])'
    OBVIOUS
  <2>1. head = op[r].label /\ \A q \in Plugins : mods[Api][q] \in {None, op[r].label}
    BY <1>1 DEF CodeInv
  <2>2. code = op[r].label
    BY <1>1, <1>5, <2>1 DEF proc
  <2>3. \A q \in Plugins : mods'[Api][q] = IF q = p THEN code ELSE mods[Api][q]
    BY <1>2, OneClient DEF TypeInv, TypeOK
  <2> HIDE DEF code
  <2>4. \A q \in Plugins : mods'[Api][q] \in {None, op[r].label}
    BY <2>1, <2>2, <2>3
  <2>5. Held(op[r])' = Held(op[r]) \cup {x}
    BY <1>3, <1>4 DEF Held
  <2> QED BY <1>1, <1>3, <1>4, <1>6, <2>1, <2>2, <2>4, <2>5 DEF CodeInv
<1> QED BY <1>7, <1>8, <1>9 DEF Kept

\* The switch: everything active was of this repository, so all of it leaves
\* (commit_switch).
LEMMA SwitchKept ==
  ASSUME TypeInv, MapsInv, NEW r, Clients = {r}, LockedInv(op[r]), Switch(r)
  PROVE  Kept(r)
<1> DEFINE map == own[Api]
           old == Owned(Api, op[r].id)
           new == op[r].new
           m == Replaced(map, old, new)
           o == [op[r] EXCEPT !.old = old, !.pc = "commit"]
<1>1. /\ op[r].pc \in {"switch", "await"} /\ row' = row /\ cfg' = cfg
      /\ Fits(op[r], map) /\ Proc(r) = Api /\ r \in Actors
      /\ map \in [Plugins -> Activations \cup {None}] /\ new \in SUBSET Activations
      /\ op[r] \in Operations
  BY OneClient DEF Switch, Prepared, Ready, MapsInv, Operations
<1>2. op' = [op EXCEPT ![r] = o] /\ own'[Api] = m
  BY <1>1, OneClient DEF Switch, TypeInv, TypeOK
<1>3. op'[r] = o /\ \A w \in Workers : op'[w] = op[w]
  BY <1>2, OneClient
<1>4. /\ o.kind = op[r].kind /\ o.id = op[r].id /\ o.locked = op[r].locked /\ o.label = op[r].label
      /\ o.ins = op[r].ins /\ o.new = new /\ o.old = old /\ o.pc = "commit"
  BY <1>1 DEF Operations
<1>5. \A p \in Plugins : map[p] # None => map[p] \in old /\ Current(map[p])
  BY <1>1 DEF LockedInv, RowKnown, Underway, Current, Owned
<1>6. \A x \in old : \E p \in Plugins : x = map[p] /\ map[p] # None /\ x.plugin = p
  <2>1. \A p \in Plugins : map[p] # None => map[p].plugin = p
    BY OneClient DEF MapsInv, Keyed
  <2> HIDE DEF map
  <2> QED BY <2>1 DEF Owned, map
<1>7. \A x \in new : x.label = op[r].label /\ x.repo = op[r].id
  BY <1>1 DEF Fits
<1>8. \A p \in Plugins : m[p] \in new \cup {None}
  <2>1. old \in SUBSET Activations /\ \A x, y \in new : x.plugin = y.plugin => x = y
    BY <1>1, OneClient, OwnedType DEF Fits, TypeInv
  <2> HIDE DEF map, old, new
  <2>2. \A p \in Plugins : m[p] \in new \cup ({map[p], None} \ old)
    BY <1>1, <2>1, ReplacedMaps
  <2> QED BY <1>5, <2>2
<1> HIDE DEF map, old, new, m, o
<1>9. LockedInv(op[r])'
  <2>1. RowKnown(op[r])'
    BY <1>1, <1>3, <1>4 DEF LockedInv, RowKnown, Underway
  <2>2. \A p \in Plugins : own'[Api][p] # None => own'[Api][p].repo = o.id
    BY <1>2, <1>4, <1>7, <1>8
  <2>3. \A x \in old : Current(x)'
    BY <1>1, <1>5, <1>6 DEF Current
  <2>4. op[r].kind # "remove"
    BY <1>1 DEF LockedInv, RowKnown, Underway, Offline
  <2> QED BY <1>3, <1>4, <2>1, <2>2, <2>3, <2>4 DEF LockedInv
<1>10. EnabledInv(op[r]) => EnabledInv(op[r])'
  <2> SUFFICES ASSUME EnabledInv(op[r]) PROVE EnabledInv(op[r])'
    OBVIOUS
  <2>1. \A x \in old : cfg[x.plugin] = "on"
    BY <1>1, <1>6 DEF EnabledInv, map
  <2>2. Seen(op[r].ins)' = Seen(op[r].ins)
    BY <1>1, <1>3, <1>4 DEF Seen
  <2> QED BY <1>1, <1>3, <1>4, <2>1, <2>2 DEF EnabledInv, new
<1>11. CodeInv(op[r]) => CodeInv(op[r])'
  <2> SUFFICES ASSUME CodeInv(op[r]) PROVE CodeInv(op[r])'
    OBVIOUS
  <2>1. \A x \in new \cup old : x.code = x.label
    BY <1>6 DEF CodeInv, Held, new, map
  <2> QED BY <1>2, <1>3, <1>4, <1>8, <2>1 DEF CodeInv, Held
<1> QED BY <1>9, <1>10, <1>11 DEF Kept

\* The commit: what is active is what the request has activated, and the row
\* locks the commit of that from now on (the commit of _activate_repository).
LEMMA CommitKept ==
  ASSUME TypeInv, MapsInv, NEW r, Clients = {r}, LockedInv(op[r]), Commit(r)
  PROVE  Kept(r)
<1> DEFINE o == [op[r] EXCEPT !.ins = NoRows, !.new = {},
                              !.pc = IF op[r].old = {} THEN "finish" ELSE "dispose"]
<1>1. /\ op[r].pc = "commit" /\ own' = own /\ cfg' = Seen(op[r].ins) /\ row' = AdvancedRow(r)
      /\ op' = [op EXCEPT ![r] = o]
  BY DEF Commit, Ready
<1>2. op'[r] = o /\ \A w \in Workers : op'[w] = op[w]
  BY <1>1, OneClient
<1>3. /\ o.kind = op[r].kind /\ o.ins = NoRows /\ o.new = {} /\ o.old = op[r].old
      /\ o.pc \in {"finish", "dispose"}
  BY OneClient DEF Operations
<1>4. /\ op[r].id \in RepoIds /\ op[r].label \in Commits
      /\ Fits(op[r], own[Api])
  BY <1>1, OneClient DEF Labelled, MapsInv
<1>5. \A p \in Plugins : own[Api][p] # None =>
        /\ own[Api][p] \in op[r].new /\ own[Api][p].plugin = p
        /\ own[Api][p].repo = op[r].id /\ own[Api][p].label = op[r].label
  <2> TAKE p \in Plugins
  <2> HAVE own[Api][p] # None
  <2>1. own[Api][p].repo = op[r].id
    BY <1>1 DEF LockedInv
  <2>2. own[Api][p] \in op[r].new /\ own[Api][p].label = op[r].label
    BY <1>1, <1>4, <2>1 DEF Fits
  <2>3. own[Api][p].plugin = p
    BY OneClient DEF MapsInv, Keyed
  <2> QED BY <2>1, <2>2, <2>3
<1>6. op[r].kind # "remove"
  BY <1>1 DEF LockedInv, RowKnown, Underway, Offline
<1>7. row' # None /\ row'.id = op[r].id /\ row'.cur = op[r].label
  <2>1. \A b \in Rows, v \in Commits \cup {None} :
          LET n == [b EXCEPT !.cur = op[r].label, !.prev = v] IN
            n # None /\ n.cur = op[r].label /\ n.id = b.id
    <3> TAKE b \in Rows, v \in Commits \cup {None}
    <3> DEFINE n == [b EXCEPT !.cur = op[r].label, !.prev = v]
    <3>1. n \in Rows /\ n.cur = op[r].label /\ n.id = b.id
      BY <1>4 DEF Rows
    <3> HIDE DEF n
    <3>2. n # None
      BY <3>1, NoneAssumption
    <3> QED BY <3>1, <3>2 DEF n
  <2>2. op[r].locked \in Commits \cup {None} /\ \A b \in Rows : b.prev \in Commits \cup {None}
    BY OneClient DEF Operations, Rows
  <2>3. CASE op[r].kind = "add"
    <3> DEFINE b == NewRow(op[r].id, None)
    <3>1. b \in Rows /\ b.id = op[r].id
      BY <1>4, NewRowType
    <3>2. op[r].locked = None /\ op[r].label # op[r].locked /\ op[r].kind \in Advancing
      BY <1>1, <1>4, <2>3, ConstantsAssumption DEF LockedInv, RowKnown, Underway, Advancing
    <3> HIDE DEF b
    <3>3. row' = [b EXCEPT !.cur = op[r].label, !.prev = b.prev]
      BY <1>1, <2>3, <3>2 DEF AdvancedRow, b
    <3> QED BY <2>1, <2>2, <3>1, <3>3
  <2>4. CASE op[r].kind # "add"
    <3>1. /\ row \in Rows /\ row # None /\ row.id = op[r].id /\ row.cur = op[r].locked
          /\ op[r].kind \in {"update", "rollback"} \/ op[r].label = row.cur
      BY <1>1, <2>4, OneClient DEF LockedInv, RowKnown, Underway
    <3>2. CASE op[r].kind \notin Advancing \/ op[r].label = op[r].locked
      <4>1. row' = row
        BY <1>1, <2>4, <3>2 DEF AdvancedRow
      <4> QED BY <3>1, <3>2, <4>1 DEF Advancing
    <3>3. CASE op[r].kind \in Advancing /\ op[r].label # op[r].locked
      <4>1. PICK v \in Commits \cup {None} : row' = [row EXCEPT !.cur = op[r].label, !.prev = v]
        BY <1>1, <2>2, <2>4, <3>1, <3>3 DEF AdvancedRow
      <4> QED BY <2>1, <3>1, <4>1
    <3> QED BY <3>2, <3>3
  <2> QED BY <2>3, <2>4
<1> HIDE DEF o
<1>8. LockedInv(op[r])'
  <2>1. RowKnown(op[r])'
    BY <1>2, <1>3 DEF LockedInv, RowKnown, Underway
  <2> QED BY <1>1, <1>2, <1>3, <1>5, <1>6, <1>7, <2>1 DEF LockedInv, Current
<1>9. EnabledInv(op[r]) => EnabledInv(op[r])'
  <2> SUFFICES ASSUME EnabledInv(op[r]) PROVE EnabledInv(op[r])'
    OBVIOUS
  <2>1. \A p \in Plugins : own'[Api][p] # None => cfg'[p] = "on"
    BY <1>1, <1>5 DEF EnabledInv
  <2>2. \A p \in Plugins : o.ins[p] = "absent"
    BY <1>3 DEF NoRows
  <2> QED BY <1>2, <1>3, <2>1, <2>2 DEF EnabledInv
<1>10. CodeInv(op[r]) => CodeInv(op[r])'
  BY <1>1, <1>2, <1>3 DEF CodeInv, Held
<1> QED BY <1>8, <1>9, <1>10 DEF Kept

\* The commit fails: what the switch has taken out returns, and it is what the
\* row locks (rollback_switch).
LEMMA CommitFailsKept ==
  ASSUME TypeInv, MapsInv, NEW r, Clients = {r}, LockedInv(op[r]), CommitFails(r)
  PROVE  Kept(r)
<1> DEFINE map == own[Api]
           old == op[r].old
           new == op[r].new
           m == Replaced(map, new, old)
           o == [op[r] EXCEPT !.ins = NoRows, !.new = {}, !.old = new, !.pc = "undo"]
<1>1. /\ op[r].pc = "commit" /\ row' = row /\ cfg' = cfg /\ mods' = mods
      /\ Fits(op[r], map) /\ Proc(r) = Api /\ r \in Actors
      /\ map \in [Plugins -> Activations \cup {None}]
      /\ new \in SUBSET Activations /\ old \in SUBSET Activations
      /\ op[r] \in Operations
  BY OneClient DEF CommitFails, Ready, MapsInv, Operations
<1>2. op' = [op EXCEPT ![r] = o] /\ own'[Api] = m
  BY <1>1, OneClient DEF CommitFails, TypeInv, TypeOK, PutBack, Replaced
<1>3. op'[r] = o /\ \A w \in Workers : op'[w] = op[w]
  BY <1>2, OneClient
<1>4. /\ o.kind = op[r].kind /\ o.id = op[r].id /\ o.locked = op[r].locked /\ o.label = op[r].label
      /\ o.ins = NoRows /\ o.new = {} /\ o.old = new /\ o.pc = "undo"
  BY <1>1 DEF Operations
<1>5. /\ \A p \in Plugins : map[p] # None => map[p] \in new
      /\ \A x \in old : Current(x) /\ x # None
  BY <1>1, NoneAssumption DEF LockedInv, Fits
<1>6. \A x, y \in old : x.plugin = y.plugin => x = y
  BY <1>1 DEF Fits
<1> HIDE DEF map, old, new, o
<1>7. \A p \in Plugins : /\ m[p] \in old \cup {None}
                         /\ \A x \in old : m[p] = x => x.plugin = p
  <2>1. \A p \in Plugins : /\ \A y \in old : y.plugin = p => m[p] = y
                           /\ (\A y \in old : y.plugin # p) => m[p] = Without(map, new)[p]
                           /\ Without(map, new)[p] = IF map[p] \in new THEN None ELSE map[p]
    BY <1>1, <1>6, ReplacedMaps
  <2> HIDE DEF m
  <2> QED BY <1>5, <2>1
<1> HIDE DEF m
<1>8. LockedInv(op[r])'
  <2>1. RowKnown(op[r])'
    BY <1>1, <1>3, <1>4 DEF LockedInv, RowKnown, Underway
  <2>2. op[r].kind # "remove"
    BY <1>1 DEF LockedInv, RowKnown, Underway, Offline
  <2>3. \A p \in Plugins : own'[Api][p] # None => Current(own'[Api][p])
    BY <1>2, <1>5, <1>7
  <2> QED BY <1>1, <1>3, <1>4, <2>1, <2>2, <2>3 DEF LockedInv, Current
<1>9. EnabledInv(op[r]) => EnabledInv(op[r])'
  <2> SUFFICES ASSUME EnabledInv(op[r]) PROVE EnabledInv(op[r])'
    OBVIOUS
  <2>1. \A p \in Plugins : own'[Api][p] # None => cfg[p] = "on"
    BY <1>1, <1>2, <1>5, <1>7 DEF EnabledInv, old
  <2>2. \A p \in Plugins : o.ins[p] = "absent"
    BY <1>4 DEF NoRows
  <2> QED BY <1>1, <1>3, <1>4, <2>1, <2>2 DEF EnabledInv
<1>10. CodeInv(op[r]) => CodeInv(op[r])'
  <2> SUFFICES ASSUME CodeInv(op[r]) PROVE CodeInv(op[r])'
    OBVIOUS
  <2>1. \A x \in new \cup old : x.code = x.label
    BY DEF CodeInv, Held, new, old
  <2> QED BY <1>2, <1>3, <1>4, <1>7, <2>1 DEF CodeInv, Held
<1> QED BY <1>8, <1>9, <1>10 DEF Kept

\* The end of an operation; the row may change where nothing is active.
LEMMA IdleKept ==
  ASSUME TypeInv, NEW r, Clients = {r}, LockedInv(op[r]), own' = own,
         op' = [op EXCEPT ![r] = Idle], op[r].pc # "commit",
         row' = row \/ \A p \in Plugins : own[Api][p] = None,
         \A p \in Plugins : own[Api][p] # None /\ EnabledInv(op[r]) => cfg'[p] = "on"
  PROVE  Kept(r)
<1>1. op'[r] = Idle /\ \A w \in Workers : op'[w] = op[w]
  BY OneClient
<1>2. /\ Idle.kind = "none" /\ Idle.pc = "idle" /\ Idle.ins = NoRows
      /\ Idle.new = {} /\ Idle.old = {}
  BY DEF Idle
<1>3. LockedInv(op[r])'
  <2>1. RowKnown(op[r])'
    BY <1>1, <1>2 DEF LockedInv, RowKnown, Underway
  <2> QED BY <1>1, <1>2, <2>1 DEF LockedInv, Current
<1>4. EnabledInv(op[r]) => EnabledInv(op[r])'
  BY <1>1, <1>2 DEF EnabledInv, NoRows
<1>5. CodeInv(op[r]) => CodeInv(op[r])'
  BY <1>1, <1>2 DEF CodeInv, Held
<1> QED BY <1>3, <1>4, <1>5 DEF Kept

\* An addition or a removal under way has nothing active outside its switch.
LEMMA NothingActive ==
  ASSUME NEW r, LockedInv(op[r]), op[r].pc # "commit",
         (Underway(op[r]) /\ op[r].kind = "add") \/ op[r].kind = "remove"
  PROVE  \A p \in Plugins : own[Api][p] = None
BY DEF LockedInv, RowKnown, Current

\* Every way an operation ends (the except branches, finish, remove_repository).
LEMMA EndingKept ==
  ASSUME TypeInv, MapsInv, NEW r, Clients = {r}, LockedInv(op[r]),
         PinFails(r) \/ Failed(r) \/ UndoEnds(r) \/ Finish(r) \/ Delete(r)
  PROVE  Kept(r)
<1>1. op[r].pc # "commit" /\ own' = own
  BY DEF PinFails, Failed, UndoEnds, Finish, Delete, Ready
<1>2. EnabledInv(op[r]) => \A p \in Plugins : own[Api][p] # None =>
                             cfg[p] = "on" /\ Seen(op[r].ins)[p] = "on"
  BY <1>1 DEF EnabledInv, Seen
<1>3. CASE PinFails(r)
  <2>1. /\ op' = [op EXCEPT ![r] = Idle] /\ cfg' = cfg /\ op[r].pc = "pin"
        /\ row' = IF op[r].kind = "add" THEN NewRow(op[r].id, None) ELSE row
    BY <1>3 DEF PinFails, Abandon, Ready
  <2>2. op[r].kind = "add" => \A p \in Plugins : own[Api][p] = None
    BY <2>1, NothingActive DEF Underway
  <2> QED BY <1>1, <1>2, <2>1, <2>2, IdleKept
<1>4. CASE Failed(r)
  <2>1. /\ op' = [op EXCEPT ![r] = Idle] /\ op[r].pc = "failing"
        /\ cfg' \in {cfg, Seen(op[r].ins)}
        /\ row' = row \/ op[r].kind = "add"
    BY <1>4 DEF Failed, Ready
  <2>2. op[r].kind = "add" => \A p \in Plugins : own[Api][p] = None
    BY <2>1, NothingActive DEF Underway
  <2> QED BY <1>1, <1>2, <2>1, <2>2, IdleKept
<1>5. CASE UndoEnds(r) \/ Finish(r)
  <2>1. op' = [op EXCEPT ![r] = Idle] /\ cfg' = cfg /\ row' = row
    BY <1>5 DEF UndoEnds, Finish
  <2> QED BY <1>1, <1>2, <2>1, IdleKept
<1>6. CASE Delete(r)
  <2>1. op[r].kind = "remove" /\ op' = [op EXCEPT ![r] = Idle]
    BY <1>6 DEF Delete
  <2>2. \A p \in Plugins : own[Api][p] = None
    BY <1>1, <2>1, NothingActive
  <2> QED BY <1>1, <2>1, <2>2, IdleKept
<1> QED BY <1>3, <1>4, <1>5, <1>6

\* Steps that only move an operation on, and the cleanups (dispose).
LEMMA MoveKept ==
  ASSUME TypeInv, MapsInv, NEW r, Clients = {r}, LockedInv(op[r]),
         CandidateFails(r) \/ SwitchRefused(r) \/ Dispose(r)
  PROVE  Kept(r)
<1>1. /\ row' = row /\ cfg' = cfg /\ own' = own
      /\ op[r].pc \in {"load", "await", "switch", "dispose", "undo"}
  BY DEF CandidateFails, SwitchRefused, Dispose, Ready, Prepared
<1>2. PICK o \in Operations :
        /\ op' = [op EXCEPT ![r] = o]
        /\ o.kind = op[r].kind /\ o.id = op[r].id /\ o.locked = op[r].locked
        /\ o.label = op[r].label /\ o.ins = op[r].ins /\ o.new = op[r].new
        /\ o.old \subseteq op[r].old
        /\ o.pc \in {"failing", "dispose", "finish", "undo"}
        /\ o.pc \in {"failing", "undo"} => Underway(op[r])
  <2>1. CASE CandidateFails(r) \/ SwitchRefused(r)
    <3> DEFINE o == [op[r] EXCEPT !.pc = "failing"]
    <3>1. op' = [op EXCEPT ![r] = o] /\ op[r].pc \in {"load", "await", "switch"}
      BY <2>1 DEF CandidateFails, SwitchRefused, Ready, Prepared
    <3>2. /\ o \in Operations
          /\ o.kind = op[r].kind /\ o.id = op[r].id /\ o.locked = op[r].locked
          /\ o.label = op[r].label /\ o.ins = op[r].ins /\ o.new = op[r].new
          /\ o.old = op[r].old /\ o.pc = "failing"
      BY OneClient DEF Operations, PCs
    <3> HIDE DEF o
    <3> QED BY <3>1, <3>2 DEF Underway
  <2>2. CASE Dispose(r)
    <3>1. PICK x \in op[r].old :
            op' = [op EXCEPT ![r].old = @ \ {x},
                             ![r].pc = IF op[r].pc = "dispose" /\ op[r].old = {x}
                                       THEN "finish" ELSE @]
      BY <2>2 DEF Dispose
    <3> DEFINE old == op[r].old \ {x}
               pc == IF op[r].pc = "dispose" /\ op[r].old = {x} THEN "finish" ELSE op[r].pc
               o == [op[r] EXCEPT !.old = old, !.pc = pc]
    <3>2. op' = [op EXCEPT ![r] = o]
      BY <3>1
    <3>3. pc \in {"finish", "dispose", "undo"} /\ (pc = "undo" => op[r].pc = "undo")
          /\ old \subseteq op[r].old /\ old \in SUBSET Activations
      BY <2>2, OneClient DEF Dispose, Ready, Operations
    <3> HIDE DEF pc, old
    <3>4. /\ o \in Operations
          /\ o.kind = op[r].kind /\ o.id = op[r].id /\ o.locked = op[r].locked
          /\ o.label = op[r].label /\ o.ins = op[r].ins /\ o.new = op[r].new
          /\ o.old = old /\ o.pc = pc
      <4>1. op[r] \in Operations /\ pc \in PCs
        BY <3>3, OneClient DEF PCs
      <4> QED BY <3>3, <4>1 DEF Operations
    <3> HIDE DEF o
    <3> QED BY <3>2, <3>3, <3>4 DEF Underway
  <2> QED BY <2>1, <2>2
<1>3. op'[r] = o /\ \A w \in Workers : op'[w] = op[w]
  BY <1>2, OneClient
<1>4. LockedInv(op[r])'
  BY <1>1, <1>2, <1>3, LockedKept DEF Underway
<1>5. EnabledInv(op[r]) => EnabledInv(op[r])'
  <2>1. Seen(op[r].ins)' = Seen(op[r].ins)
    BY <1>1, <1>2, <1>3 DEF Seen
  <2> QED BY <1>1, <1>2, <1>3, <2>1 DEF EnabledInv
<1>6. CodeInv(op[r]) => CodeInv(op[r])'
  BY <1>1, <1>2, <1>3 DEF CodeInv, Held
<1> QED BY <1>4, <1>5, <1>6 DEF Kept

\* A restart of the API begins with empty maps and the commit of the row.
LEMMA RestartKept ==
  ASSUME TypeInv, NEW r, Clients = {r}, LockedInv(op[r]), RestartApi
  PROVE  Kept(r)
<1>1. /\ row' = row /\ cfg' = cfg /\ \A w \in Workers : op'[w] = op[w]
      /\ \A p \in Plugins : own'[Api][p] = None
  BY OneClient DEF RestartApi, Cleared, Nothing, TypeInv, TypeOK
<1>2. op'[r] = Idle \/ (row # None /\ op'[r] = Start("boot", row.id, row, row.cur))
  BY OneClient DEF RestartApi
<1>3. /\ Idle.kind = "none" /\ Idle.pc = "idle" /\ Idle.ins = NoRows
      /\ Idle.new = {} /\ Idle.old = {}
  BY DEF Idle
<1> DEFINE o == Start("boot", row.id, row, row.cur)
<1>4. /\ o.kind = "boot" /\ o.pc = "pin" /\ o.id = row.id /\ o.locked = row.cur
      /\ o.label = row.cur /\ o.ins = NoRows /\ o.new = {} /\ o.old = {}
  BY StartFields
<1> HIDE DEF o
<1>5. CASE op'[r] = Idle
  <2>1. LockedInv(op[r])'
    BY <1>1, <1>3, <1>5 DEF LockedInv, RowKnown, Underway
  <2>2. EnabledInv(op[r])' /\ CodeInv(op[r])'
    BY <1>1, <1>3, <1>5 DEF EnabledInv, CodeInv, Held, NoRows
  <2> QED BY <2>1, <2>2 DEF Kept
<1>6. CASE row # None /\ op'[r] = o
  <2>1. RowKnown(op[r])'
    BY <1>1, <1>4, <1>6 DEF LockedInv, RowKnown, Underway, Offline
  <2>2. LockedInv(op[r])'
    BY <1>1, <1>4, <1>6, <2>1 DEF LockedInv
  <2>3. EnabledInv(op[r])' /\ CodeInv(op[r])'
    BY <1>1, <1>4, <1>6 DEF EnabledInv, CodeInv, Held, NoRows
  <2> QED BY <2>2, <2>3 DEF Kept
<1> QED BY <1>2, <1>5, <1>6 DEF o

\* Every step of the only request keeps what it knows.
LEMMA ClientKept ==
  ASSUME TypeInv, MapsInv, NEW r, Clients = {r}, LockedInv(op[r]),
         Request(r) \/ Continue(r) \/ RestartApi
  PROVE  Kept(r)
BY RequestKept, ReleaseKept, PinKept, LoadKept, SwitchKept, CommitKept, CommitFailsKept,
   EndingKept, MoveKept, RestartKept
DEF Request, Continue

\* Workers reload and release in maps of their own, and write no row.
LEMMA WorkerApart ==
  ASSUME TypeInv, NEW r, Clients = {r}, LockedInv(op[r]), NEW w \in Workers,
         Poll(w) \/ RestartWorker(w) \/ Continue(w)
  PROVE  /\ row' = row /\ own'[Api] = own[Api] /\ op'[r] = op[r]
         /\ \A v \in Workers : op'[v].kind \in {"none", "reload", "drop"}
<1>1. /\ w \in Actors /\ w # r /\ w # Api /\ Proc(w) = w /\ op[w] \in Operations /\ Api \in Procs
      /\ \A v \in Workers : op[v].kind \in {"none", "reload", "drop"}
  BY OneClient DEF LockedInv, RowKnown
<1>2. ASSUME NEW o, op' = [op EXCEPT ![w] = o], o.kind \in {op[w].kind, "none", "reload", "drop"}
      PROVE  /\ op'[r] = op[r]
             /\ \A v \in Workers : op'[v].kind \in {"none", "reload", "drop"}
  BY <1>1, <1>2, OneClient DEF TypeInv, TypeOK
<1>3. Idle.kind = "none"
  BY DEF Idle
<1>4. ASSUME own' \in {own, [own EXCEPT ![w] = own'[w]]} PROVE own'[Api] = own[Api]
  BY <1>1, <1>4 DEF TypeInv, TypeOK
<1>5. CASE WorkerDrop(w)
  <2>1. PICK id, xs : Deactivate(w, "drop", id, xs)
    BY <1>5 DEF WorkerDrop
  <2> DEFINE o == [Idle EXCEPT !.kind = "drop", !.id = id, !.old = xs,
                               !.pc = IF xs = {} THEN "finish" ELSE "dispose"]
  <2>2. op' = [op EXCEPT ![w] = o] /\ own'[Api] = own[Api]
    BY <1>1, <2>1 DEF Deactivate, TypeInv, TypeOK
  <2>3. o.kind = "drop"
    BY DEF Idle
  <2> HIDE DEF o
  <2> QED BY <1>2, <1>5, <2>2, <2>3 DEF WorkerDrop
<1>6. CASE WorkerReload(w)
  <2> DEFINE o == Start("reload", row.id, row, row.cur)
  <2>1. op' = [op EXCEPT ![w] = o] /\ row' = row /\ own' = own
    BY <1>6 DEF WorkerReload, StartOffline
  <2>2. o.kind = "reload"
    BY StartFields
  <2> HIDE DEF o
  <2> QED BY <1>2, <2>1, <2>2
<1>7. CASE RestartWorker(w)
  <2>1. op' = [op EXCEPT ![w] = Idle] /\ row' = row /\ own'[Api] = own[Api]
    BY <1>1, <1>7 DEF RestartWorker, Cleared, TypeInv, TypeOK
  <2> QED BY <1>2, <1>3, <2>1
<1>8. CASE Pin(w) \/ Load(w) \/ CandidateFails(w) \/ SwitchRefused(w) \/ Dispose(w)
  <2>1. row' = row /\ own' = own
    BY <1>8 DEF Pin, Load, CandidateFails, SwitchRefused, Dispose
  <2>2. op'[w].kind = op[w].kind /\ \A b \in Actors \ {w} : op'[b] = op[b]
    <3>1. CASE Pin(w)
      <4>1. w \notin Clients
        BY <1>1
      <4>2. PICK ins : LET todo == Enabled(ins) \cap Role(Proc(w)) IN
              op' = [op EXCEPT ![w].label = head, ![w].ins = ins, ![w].todo = todo,
                               ![w].pc = IF todo = {} THEN "switch" ELSE "load"]
        BY <3>1, <4>1 DEF Pin
      <4> QED BY <1>1, <4>2 DEF TypeInv, TypeOK, Operations
    <3>2. CASE Load(w)
      <4>1. PICK todo, new, pc :
              op' = [op EXCEPT ![w].todo = todo, ![w].new = new, ![w].pc = pc]
        BY <3>2 DEF Load
      <4> QED BY <1>1, <4>1 DEF TypeInv, TypeOK, Operations
    <3>3. CASE CandidateFails(w) \/ SwitchRefused(w)
      BY <1>1, <3>3 DEF CandidateFails, SwitchRefused, TypeInv, TypeOK, Operations
    <3>4. CASE Dispose(w)
      <4>1. PICK old, pc : op' = [op EXCEPT ![w].old = old, ![w].pc = pc]
        BY <3>4 DEF Dispose
      <4> QED BY <1>1, <4>1 DEF TypeInv, TypeOK, Operations
    <3> QED BY <1>8, <3>1, <3>2, <3>3, <3>4
  <2> QED BY <1>1, <2>1, <2>2, OneClient
<1>9. CASE PinFails(w) \/ Failed(w) \/ UndoEnds(w) \/ Finish(w)
  <2>1. op' = [op EXCEPT ![w] = Idle] /\ own' = own
    BY <1>9 DEF PinFails, Abandon, Failed, UndoEnds, Finish
  <2>2. row' = row
    BY <1>1, <1>9 DEF PinFails, Abandon, Failed, UndoEnds, Finish
  <2> QED BY <1>2, <1>3, <2>1, <2>2
<1>10. ~Delete(w)
  BY <1>1 DEF Delete
<1>11. CASE Switch(w)
  <2>1. PICK old : op' = [op EXCEPT ![w].old = old, ![w].pc = "commit"]
    BY <1>11 DEF Switch
  <2>2. op'[w].kind = op[w].kind /\ \A b \in Actors \ {w} : op'[b] = op[b]
    BY <1>1, <2>1 DEF TypeInv, TypeOK, Operations
  <2>3. row' = row /\ own'[Api] = own[Api]
    BY <1>1, <1>11 DEF Switch, TypeInv, TypeOK
  <2> QED BY <1>1, <2>2, <2>3, OneClient
<1>12. CASE Commit(w)
  <2>1. PICK pc : op' = [op EXCEPT ![w].ins = NoRows, ![w].new = {}, ![w].pc = pc]
    BY <1>12 DEF Commit
  <2>2. op'[w].kind = op[w].kind /\ \A b \in Actors \ {w} : op'[b] = op[b]
    BY <1>1, <2>1 DEF TypeInv, TypeOK, Operations
  <2>3. row' = row /\ own' = own
    BY <1>1, <1>12 DEF Commit, AdvancedRow, Advancing
  <2> QED BY <1>1, <2>2, <2>3, OneClient
<1>13. CASE CommitFails(w)
  <2>1. op' = [op EXCEPT ![w].ins = NoRows, ![w].new = {}, ![w].old = op[w].new, ![w].pc = "undo"]
    BY <1>13 DEF CommitFails
  <2>2. op'[w].kind = op[w].kind /\ \A b \in Actors \ {w} : op'[b] = op[b]
    BY <1>1, <2>1 DEF TypeInv, TypeOK, Operations
  <2>3. row' = row /\ own'[Api] = own[Api]
    BY <1>1, <1>13 DEF CommitFails, TypeInv, TypeOK
  <2> QED BY <1>1, <2>2, <2>3, OneClient
<1> QED
  BY <1>5, <1>6, <1>7, <1>8, <1>9, <1>10, <1>11, <1>12, <1>13 DEF Poll, Continue

\* With one request at a time, what is active is what the row locks.
LEMMA LockedStep ==
  ASSUME TypeInv, MapsInv, NEW r, Clients = {r}, LockedInv(op[r]), [Next]_vars
  PROVE  LockedInv(op[r])'
<1>1. CASE UNCHANGED vars
  BY <1>1 DEF vars, LockedInv, RowKnown, Current
<1>2. CASE Request(r) \/ Continue(r) \/ RestartApi
  BY <1>2, ClientKept DEF Kept
<1>3. ASSUME NEW w \in Workers, Poll(w) \/ RestartWorker(w) \/ Continue(w)
      PROVE  LockedInv(op[r])'
  BY <1>3, WorkerApart DEF LockedInv, RowKnown, Current
<1> QED BY <1>1, <1>2, <1>3 DEF Next, Actors

LEMMA LockedInit ==
  ASSUME Init, NEW r, Clients = {r}
  PROVE  LockedInv(op[r]) /\ EnabledInv(op[r]) /\ CodeInv(op[r])
<1>1. /\ \A a \in Actors : op[a] = Idle
      /\ \A p \in Plugins : own[Api][p] = None
      /\ r \in Actors /\ Workers \subseteq Actors
  BY DEF Init, Nothing, Procs, Actors
<1>2. /\ Idle.kind = "none" /\ Idle.pc = "idle" /\ Idle.ins = NoRows
      /\ Idle.new = {} /\ Idle.old = {}
  BY DEF Idle
<1>3. LockedInv(op[r])
  BY <1>1, <1>2 DEF LockedInv, RowKnown, Underway
<1> QED BY <1>1, <1>2, <1>3 DEF EnabledInv, CodeInv, Held, NoRows

\* As long as the API serves one request at a time, whatever is active in it
\* when it is quiet is of the commit the database locks: updates, failed
\* commits, roll-backs, removals, restarts and any number of workers that move
\* the shared checkout do not change that (_activate_repository).
THEOREM ActiveIsLockedCorrect ==
  ASSUME NEW CONSTANT r, Clients = {r}
  PROVE  Spec => []ActiveIsLocked
<1>1. Init => TypeInv /\ MapsInv /\ LockedInv(op[r])
  BY TypeInit, MapsInit, LockedInit
<1>2. TypeInv /\ MapsInv /\ LockedInv(op[r]) /\ [Next]_vars
        => (TypeInv /\ MapsInv /\ LockedInv(op[r]))'
  BY TypeStep, MapsStep, LockedStep
<1>3. LockedInv(op[r]) => ActiveIsLocked
  BY DEF LockedInv, ActiveIsLocked, Quiet, Current
<1> QED BY <1>1, <1>2, <1>3, PTL DEF Spec

\* Nor is anything of a repository that has been removed still active, or
\* anything but the repository of the row (remove_repository).
THEOREM RemovedIsInactiveCorrect ==
  ASSUME NEW CONSTANT r, Clients = {r}
  PROVE  Spec => []RemovedIsInactive
<1>1. Init => TypeInv /\ MapsInv /\ LockedInv(op[r])
  BY TypeInit, MapsInit, LockedInit
<1>2. TypeInv /\ MapsInv /\ LockedInv(op[r]) /\ [Next]_vars
        => (TypeInv /\ MapsInv /\ LockedInv(op[r]))'
  BY TypeStep, MapsStep, LockedStep
<1>3. LockedInv(op[r]) => RemovedIsInactive
  BY DEF LockedInv, RemovedIsInactive, Quiet, Current
<1> QED BY <1>1, <1>2, <1>3, PTL DEF Spec

---------------------------------------------------------------------------
(* One request at a time, and no worker                                    *)

\* Workers that have never activated anything.
WorkersIdle == \A w \in Workers : op[w] = Idle /\ \A p \in Plugins : own[w][p] = None

\* What a request does to the maps it does to those of the API.
LEMMA ClientMaps ==
  ASSUME TypeInv, NEW r, Clients = {r}, NEW w \in Workers,
         Request(r) \/ Continue(r) \/ RestartApi
  PROVE  own'[w] = own[w]
<1>1. w \in Procs /\ w # Api /\ Proc(r) = Api /\ own \in [Procs -> [Plugins -> Activations \cup {None}]]
  BY OneClient DEF TypeInv, TypeOK
<1>2. CASE Request(r)
  BY <1>1, <1>2 DEF Request, Add, AddFails, Update, FetchFails, Enable, Reactivate, Disable, Remove,
                    Deactivate
<1>3. CASE Continue(r)
  <2>1. CASE Switch(r)
    BY <1>1, <2>1 DEF Switch
  <2>2. CASE CommitFails(r)
    BY <1>1, <2>2 DEF CommitFails
  <2> QED BY <1>3, <2>1, <2>2 DEF Continue, Pin, PinFails, Load, CandidateFails, SwitchRefused,
                                   Commit, Failed, Dispose, UndoEnds, Finish, Delete
<1>4. CASE RestartApi
  BY <1>1, <1>4 DEF RestartApi, Cleared
<1> QED BY <1>2, <1>3, <1>4

\* A worker that stays idle can only restart, which changes nothing outside it.
LEMMA IdleWorker ==
  ASSUME TypeInv, NEW r, Clients = {r}, LockedInv(op[r]), EnabledInv(op[r]), CodeInv(op[r]),
         WorkersIdle, \A v \in Workers : op'[v] = Idle, NEW w \in Workers,
         Poll(w) \/ RestartWorker(w) \/ Continue(w)
  PROVE  EnabledInv(op[r])' /\ CodeInv(op[r])' /\ WorkersIdle'
<1>1. Idle.pc = "idle" /\ Idle.kind = "none" /\ op[w] = Idle /\ op'[w] = Idle
  BY DEF Idle, WorkersIdle
<1>2. ~Continue(w)
  BY <1>1 DEF Continue, Pin, PinFails, Load, CandidateFails, Switch, SwitchRefused, Commit,
              CommitFails, Failed, Dispose, UndoEnds, Finish, Delete, Ready, Prepared
<1>3. ~WorkerDrop(w)
  <2> SUFFICES ASSUME WorkerDrop(w) PROVE FALSE
    OBVIOUS
  <2>1. PICK id, xs : Deactivate(w, "drop", id, xs)
    BY DEF WorkerDrop
  <2> DEFINE o == [Idle EXCEPT !.kind = "drop", !.id = id, !.old = xs,
                               !.pc = IF xs = {} THEN "finish" ELSE "dispose"]
  <2>2. op' = [op EXCEPT ![w] = o]
    BY <2>1 DEF Deactivate
  <2>3. o.kind = "drop"
    BY DEF Idle
  <2> HIDE DEF o
  <2>4. op'[w] = o
    BY <2>2, OneClient DEF TypeInv, TypeOK
  <2> QED BY <1>1, <2>3, <2>4
<1>4. ~WorkerReload(w)
  <2> SUFFICES ASSUME WorkerReload(w) PROVE FALSE
    OBVIOUS
  <2> DEFINE o == Start("reload", row.id, row, row.cur)
  <2>1. op' = [op EXCEPT ![w] = o]
    BY DEF WorkerReload, StartOffline
  <2>2. o.kind = "reload"
    BY StartFields
  <2> HIDE DEF o
  <2>3. op'[w] = o
    BY <2>1, OneClient DEF TypeInv, TypeOK
  <2> QED BY <1>1, <2>2, <2>3
<1>5. /\ own' = [own EXCEPT ![w] = Nothing] /\ mods' = [mods EXCEPT ![w] = Nothing]
      /\ op' = [op EXCEPT ![w] = Idle] /\ cfg' = cfg /\ head' = head
  BY <1>2, <1>3, <1>4 DEF Poll, RestartWorker, Cleared
<1>6. /\ own'[Api] = own[Api] /\ mods'[Api] = mods[Api] /\ op' = op
      /\ \A v \in Workers, p \in Plugins : own'[v][p] = None
  BY <1>1, <1>5, OneClient DEF TypeInv, TypeOK, WorkersIdle, Nothing
<1>7. EnabledInv(op[r])'
  BY <1>5, <1>6 DEF EnabledInv, Seen
<1>8. CodeInv(op[r])'
  BY <1>5, <1>6 DEF CodeInv
<1> QED BY <1>6, <1>7, <1>8 DEF WorkersIdle

\* Without a worker, what is active is also enabled and of the code it says.
LEMMA AloneStep ==
  ASSUME TypeInv, MapsInv, NEW r, Clients = {r}, LockedInv(op[r]), EnabledInv(op[r]),
         CodeInv(op[r]), WorkersIdle, [Next]_vars, \A w \in Workers : op'[w] = Idle
  PROVE  EnabledInv(op[r])' /\ CodeInv(op[r])' /\ WorkersIdle'
<1>1. CASE UNCHANGED vars
  BY <1>1 DEF vars, EnabledInv, Seen, CodeInv, WorkersIdle
<1>2. CASE Request(r) \/ Continue(r) \/ RestartApi
  BY <1>2, ClientKept, ClientMaps DEF Kept, WorkersIdle
<1>3. ASSUME NEW w \in Workers, Poll(w) \/ RestartWorker(w) \/ Continue(w)
      PROVE  EnabledInv(op[r])' /\ CodeInv(op[r])' /\ WorkersIdle'
  BY <1>3, IdleWorker
<1> QED BY <1>1, <1>2, <1>3 DEF Next, Actors

\* The invariant of the behaviours without a worker.
AloneInv(r) ==
  /\ TypeInv /\ MapsInv /\ LockedInv(op[r])
  /\ alone => EnabledInv(op[r]) /\ CodeInv(op[r]) /\ WorkersIdle

LEMMA AloneInvariant ==
  ASSUME NEW CONSTANT r, Clients = {r}
  PROVE  MCSpec => []AloneInv(r)
<1>1. MCInit => AloneInv(r)
  <2> SUFFICES ASSUME MCInit PROVE AloneInv(r)
    OBVIOUS
  <2>1. TypeInv /\ MapsInv /\ LockedInv(op[r]) /\ EnabledInv(op[r]) /\ CodeInv(op[r])
    BY TypeInit, MapsInit, LockedInit DEF MCInit
  <2>2. WorkersIdle
    BY DEF MCInit, Init, WorkersIdle, Nothing, Actors, Procs
  <2> QED BY <2>1, <2>2 DEF AloneInv
<1>2. AloneInv(r) /\ [MCNext]_<<vars, alone>> => AloneInv(r)'
  <2> SUFFICES ASSUME AloneInv(r), [MCNext]_<<vars, alone>> PROVE AloneInv(r)'
    OBVIOUS
  <2>1. [Next]_vars /\ alone' = alone
    BY DEF MCNext
  <2>2. (TypeInv /\ MapsInv /\ LockedInv(op[r]))'
    BY <2>1, TypeStep, MapsStep, LockedStep DEF AloneInv
  <2>3. ASSUME alone PROVE \A w \in Workers : op'[w] = Idle
    BY <2>3 DEF MCNext, AloneInv, WorkersIdle, vars
  <2>4. ASSUME alone PROVE EnabledInv(op[r])' /\ CodeInv(op[r])' /\ WorkersIdle'
    BY <2>1, <2>3, <2>4, AloneStep DEF AloneInv
  <2> QED BY <2>1, <2>2, <2>4 DEF AloneInv
<1> QED BY <1>1, <1>2, PTL DEF MCSpec

\* As long as no worker disturbs one request at a time, a plugin that is active
\* in a quiet API is one that the database has enabled, whatever has failed in
\* between (enable_plugin, disable_plugin, _ensure_config_rows).
THEOREM ActiveIsEnabledAloneCorrect ==
  ASSUME NEW CONSTANT r, Clients = {r}
  PROVE  MCSpec => []ActiveIsEnabledAlone
<1>1. AloneInv(r) => ActiveIsEnabledAlone
  BY DEF AloneInv, EnabledInv, ActiveIsEnabledAlone, ActiveIsEnabled, Quiet
<1> QED BY <1>1, AloneInvariant, PTL

\* And it runs the code of the commit it is reported under: no module of an
\* earlier checkout survives in the cache (invalidate_repository_modules).
THEOREM CodeIsCommitAloneCorrect ==
  ASSUME NEW CONSTANT r, Clients = {r}
  PROVE  MCSpec => []CodeIsCommitAlone
<1>1. AloneInv(r) => CodeIsCommitAlone
  BY DEF AloneInv, WorkersIdle, CodeInv, CodeIsCommitAlone, CodeIsCommit, Procs
<1> QED BY <1>1, AloneInvariant, PTL

---------------------------------------------------------------------------
(* What the readers of the registries see                                  *)

\* The maps before the switches that wait for their commit, of every process.
AllBefore == [q \in Procs |-> Before(q)]

\* A step of one operation changes what waits for a commit in its own process
\* alone, and nobody else waits there: nothing is between the switch and the
\* commit when another request goes on.
LEMMA OneWaits ==
  ASSUME TypeInv, MapsInv, NEW a \in Actors, a \in Clients => LoopFree(a),
         \A b \in Actors \ {a} : op'[b] = op[b],
         NEW m, reg' = [reg EXCEPT ![Proc(a)] = m]
  PROVE  /\ op[a].pc = "commit" =>
              Before(Proc(a)) = {PutBack(reg[Proc(a)], op[a].new, op[a].old)}
         /\ op[a].pc # "commit" => Before(Proc(a)) = {}
         /\ op'[a].pc = "commit" => Before(Proc(a))' = {PutBack(m, op'[a].new, op'[a].old)}
         /\ op'[a].pc # "commit" => Before(Proc(a))' = {}
         /\ AllBefore' = [AllBefore EXCEPT ![Proc(a)] = Before(Proc(a))']
<1>1. \A b \in Actors \ {a} : Proc(b) = Proc(a) => op[b].pc # "commit" /\ op'[b].pc # "commit"
  BY SameProc DEF LoopFree, NonYield
<1>2. Proc(a) \in Procs /\ reg'[Proc(a)] = m
      /\ \A q \in Procs \ {Proc(a)} : reg'[q] = reg[q]
  BY ProcType DEF TypeInv, TypeOK
<1>3. {b \in Actors : op[b].pc = "commit" /\ Proc(b) = Proc(a)}
        = IF op[a].pc = "commit" THEN {a} ELSE {}
  BY <1>1
<1>4. {b \in Actors : op'[b].pc = "commit" /\ Proc(b) = Proc(a)}
        = IF op'[a].pc = "commit" THEN {a} ELSE {}
  BY <1>1
<1>5. ASSUME NEW q \in Procs \ {Proc(a)} PROVE Before(q)' = Before(q)
  <2>1. {b \in Actors : op'[b].pc = "commit" /\ Proc(b) = q}
          = {b \in Actors : op[b].pc = "commit" /\ Proc(b) = q}
    BY <1>5
  <2>2. \A b \in {c \in Actors : op[c].pc = "commit" /\ Proc(c) = q} : op'[b] = op[b]
    BY <1>5
  <2> QED BY <1>2, <1>5, <2>1, <2>2 DEF Before
<1>6. AllBefore' = [AllBefore EXCEPT ![Proc(a)] = Before(Proc(a))']
  BY <1>2, <1>5 DEF AllBefore
<1>7. /\ op[a].pc = "commit" =>
              Before(Proc(a)) = {PutBack(reg[Proc(a)], op[a].new, op[a].old)}
      /\ op[a].pc # "commit" => Before(Proc(a)) = {}
  BY <1>3 DEF Before
<1>8. /\ op'[a].pc = "commit" => Before(Proc(a))' = {PutBack(m, op'[a].new, op'[a].old)}
      /\ op'[a].pc # "commit" => Before(Proc(a))' = {}
  BY <1>2, <1>4 DEF Before
<1> QED BY <1>6, <1>7, <1>8

\* A step of one operation that neither waits nor will wait for a commit, and
\* that leaves the registries alone, is not seen.
LEMMA Unseen ==
  ASSUME TypeInv, MapsInv, NEW a \in Actors, a \in Clients => LoopFree(a),
         NEW o, op' = [op EXCEPT ![a] = o], o.pc # "commit", op[a].pc # "commit",
         reg' = reg
  PROVE  reg' = reg /\ AllBefore' = AllBefore
<1>1. op'[a] = o /\ \A b \in Actors \ {a} : op'[b] = op[b]
  BY DEF TypeInv, TypeOK
<1>2. reg' = [reg EXCEPT ![Proc(a)] = reg[Proc(a)]] /\ Proc(a) \in Procs
  BY ProcType DEF TypeInv, TypeOK
<1>3. Before(Proc(a)) = {} /\ Before(Proc(a))' = {}
      /\ AllBefore' = [AllBefore EXCEPT ![Proc(a)] = Before(Proc(a))']
  BY <1>1, <1>2, OneWaits
<1>4. AllBefore[Proc(a)] = Before(Proc(a))
  BY <1>2 DEF AllBefore
<1> QED BY <1>3, <1>4 DEF AllBefore

\* Nor is a step that changes neither an operation nor a registry.
LEMMA UnseenStutter == op' = op /\ reg' = reg => AllBefore' = AllBefore
BY DEF AllBefore, Before

\* Requests that start, poll and load, failures, ends and cleanups are not seen:
\* what a cleanup disposes of is in no registry.
LEMMA UnseenStarts ==
  ASSUME TypeInv, MapsInv, NEW a \in Actors,
         \/ a \in Clients /\ (Add(a) \/ AddFails(a) \/ Update(a) \/ FetchFails(a)
                                \/ Enable(a) \/ Reactivate(a))
         \/ a \in Workers /\ WorkerReload(a)
  PROVE  reg' = reg /\ AllBefore' = AllBefore
<1>1. reg' = reg /\ op[a].pc = "idle" /\ (a \in Clients => LoopFree(a))
  BY ConstantsAssumption
     DEF Add, AddFails, Update, FetchFails, Enable, Reactivate, WorkerReload, Begin, Ready
<1>2. ASSUME NEW kind, NEW id, NEW r, NEW c
      PROVE  /\ Start(kind, id, r, c).pc = "pin"
             /\ [Start(kind, id, r, c) EXCEPT !.pc = "stuck"].pc = "stuck"
  BY DEF Start, Idle
<1>3. ASSUME NEW kind, NEW id, NEW r, NEW c, op' = [op EXCEPT ![a] = Start(kind, id, r, c)]
      PROVE  AllBefore' = AllBefore
  <2> DEFINE o == Start(kind, id, r, c)
  <2>1. o.pc # "commit" /\ op' = [op EXCEPT ![a] = o]
    BY <1>2, <1>3
  <2> HIDE DEF o
  <2> QED BY <1>1, <2>1, Unseen
<1>4. CASE a \in Clients /\ Add(a)
  <2>1. PICK id \in RepoIds, c \in Commits :
          \/ op' = [op EXCEPT ![a] = [Start("add", id, NewRow(id, None), c) EXCEPT !.pc = "stuck"]]
          \/ op' = [op EXCEPT ![a] = Start("add", id, NewRow(id, None), c)]
    BY <1>4 DEF Add
  <2> DEFINE o == [Start("add", id, NewRow(id, None), c) EXCEPT !.pc = "stuck"]
  <2>2. o.pc # "commit"
    BY <1>2
  <2>3. op' = [op EXCEPT ![a] = o] \/ op' = [op EXCEPT ![a] = Start("add", id, NewRow(id, None), c)]
    BY <2>1
  <2> HIDE DEF o
  <2> QED BY <1>1, <1>3, <2>2, <2>3, Unseen
<1>5. CASE AddFails(a) \/ FetchFails(a)
  BY <1>1, <1>5, UnseenStutter DEF AddFails, FetchFails
<1>6. CASE Update(a)
  BY <1>1, <1>3, <1>6 DEF Update
<1>7. ASSUME NEW kind, StartOffline(a, kind) PROVE reg' = reg /\ AllBefore' = AllBefore
  BY <1>1, <1>3, <1>7, UnseenStutter DEF StartOffline
<1>8. CASE Enable(a) \/ Reactivate(a) \/ WorkerReload(a)
  BY <1>7, <1>8 DEF Enable, Reactivate, WorkerReload
<1> QED BY <1>4, <1>5, <1>6, <1>8

\* The same of the steps of a request that neither switch nor end a switch.
LEMMA UnseenSteps ==
  ASSUME TypeInv, MapsInv, NEW a \in Actors,
         \/ Pin(a) \/ PinFails(a) \/ Load(a) \/ CandidateFails(a) \/ SwitchRefused(a)
         \/ Failed(a) \/ Dispose(a) \/ UndoEnds(a) \/ Finish(a) \/ Delete(a)
  PROVE  reg' = reg /\ AllBefore' = AllBefore
<1>1. op[a] \in Operations /\ Idle.pc = "idle" /\ Proc(a) \in Procs
      /\ reg[Proc(a)] \in [Plugins -> Activations \cup {None}]
  BY ProcType DEF TypeInv, TypeOK, Idle
<1>2. /\ op[a].pc # "commit"
      /\ a \in Clients => LoopFree(a)
  BY DEF Pin, PinFails, Load, CandidateFails, SwitchRefused, Prepared, Failed, Dispose,
         UndoEnds, Finish, Delete, Ready
<1>3. CASE PinFails(a) \/ Failed(a) \/ UndoEnds(a) \/ Finish(a)
             \/ (Delete(a) /\ op' = [op EXCEPT ![a] = Idle])
  <2>1. reg' = reg /\ op' = [op EXCEPT ![a] = Idle]
    BY <1>3 DEF PinFails, Abandon, Failed, UndoEnds, Finish, Delete
  <2> QED BY <1>1, <1>2, <2>1, Unseen
<1>4. CASE CandidateFails(a) \/ SwitchRefused(a)
             \/ (Delete(a) /\ op' = [op EXCEPT ![a].pc = "stuck"])
  <2>1. PICK pc \in {"failing", "stuck"} : reg' = reg /\ op' = [op EXCEPT ![a].pc = pc]
    BY <1>4 DEF CandidateFails, SwitchRefused, Delete
  <2> DEFINE o == [op[a] EXCEPT !.pc = pc]
  <2>2. o.pc # "commit" /\ op' = [op EXCEPT ![a] = o]
    BY <1>1, <2>1 DEF Operations
  <2> HIDE DEF o
  <2> QED BY <1>2, <2>1, <2>2, Unseen
<1>5. CASE Pin(a)
  <2>1. reg' = reg /\ \E o : o.pc # "commit" /\ op' = [op EXCEPT ![a] = o]
    <3>1. \/ reg' = reg /\ op' = [op EXCEPT ![a].pc = "stuck"]
          \/ \E ins, todo, pc :
               /\ reg' = reg /\ pc \in {"switch", "load"}
               /\ op' = [op EXCEPT ![a].label = head, ![a].ins = ins, ![a].todo = todo,
                                   ![a].pc = pc]
      <4> DEFINE Missing == {p \in Contains[head] : cfg[p] = "absent"}
                 Todo(ins) == Enabled(ins) \cap Role(Proc(a))
                 Pc(ins) == IF Todo(ins) = {} THEN "switch" ELSE "load"
      <4>1. reg' = reg BY <1>5 DEF Pin
      <4>2. \/ op' = [op EXCEPT ![a].pc = "stuck"]
            \/ \E ins \in Inserts(Missing) :
                 op' = [op EXCEPT ![a].label = head, ![a].ins = ins, ![a].todo = Todo(ins),
                                  ![a].pc = Pc(ins)]
        BY <1>5 DEF Pin
      <4>3. \A ins : Pc(ins) \in {"switch", "load"} OBVIOUS
      <4> HIDE DEF Missing, Todo, Pc
      <4> QED BY <4>1, <4>2, <4>3
    <3>2. CASE reg' = reg /\ op' = [op EXCEPT ![a].pc = "stuck"]
      <4> DEFINE o == [op[a] EXCEPT !.pc = "stuck"]
      <4>1. o.pc # "commit" /\ op' = [op EXCEPT ![a] = o] BY <1>1, <3>2 DEF Operations
      <4> QED BY <3>2, <4>1
    <3>3. CASE \E ins, todo, pc :
                 /\ reg' = reg /\ pc \in {"switch", "load"}
                 /\ op' = [op EXCEPT ![a].label = head, ![a].ins = ins, ![a].todo = todo,
                                     ![a].pc = pc]
      <4>1. PICK ins, todo, pc :
              /\ reg' = reg /\ pc \in {"switch", "load"}
              /\ op' = [op EXCEPT ![a].label = head, ![a].ins = ins, ![a].todo = todo,
                                  ![a].pc = pc]
        BY <3>3
      <4> DEFINE o == [op[a] EXCEPT !.label = head, !.ins = ins, !.todo = todo, !.pc = pc]
      <4>2. o.pc # "commit" BY <1>1, <4>1 DEF Operations
      <4>3. op' = [op EXCEPT ![a] = o] BY <4>1
      <4> HIDE DEF o
      <4> QED BY <4>1, <4>2, <4>3
    <3> QED BY <3>1, <3>2, <3>3
  <2> QED BY <1>2, <2>1, Unseen
<1>6. CASE Load(a)
  <2>1. PICK p, x : op' = [op EXCEPT ![a].todo = @ \ {p}, ![a].new = @ \cup {x},
                                     ![a].pc = "await"]
    BY <1>6 DEF Load
  <2> DEFINE o == [op[a] EXCEPT !.todo = @ \ {p}, !.new = @ \cup {x}, !.pc = "await"]
  <2>2. o.pc = "await"
    BY <1>1 DEF Operations
  <2>3. op' = [op EXCEPT ![a] = o]
    BY <2>1
  <2>4. reg' = reg
    BY <1>6 DEF Load
  <2> HIDE DEF o
  <2> QED BY <1>2, <2>2, <2>3, <2>4, Unseen
<1>7. CASE Dispose(a)
  <2>1. PICK x \in op[a].old :
          /\ reg' = [reg EXCEPT ![Proc(a)] = Unregister(reg[Proc(a)], x)]
          /\ op' = [op EXCEPT ![a].old = @ \ {x},
                              ![a].pc = IF op[a].pc = "dispose" /\ op[a].old = {x}
                                        THEN "finish" ELSE @]
    BY <1>7 DEF Dispose
  <2>2. reg[Proc(a)][x.plugin] # x /\ x.plugin \in Plugins
    BY <1>1, <2>1 DEF MapsInv, Fits, Coordinated, Operations, Activations
  <2>3. Unregister(reg[Proc(a)], x) = reg[Proc(a)]
    BY <1>1, <2>2 DEF Unregister
  <2>4. reg' = reg
    BY <1>1, <2>1, <2>3 DEF TypeInv, TypeOK
  <2> DEFINE o == [op[a] EXCEPT !.old = @ \ {x},
                                !.pc = IF op[a].pc = "dispose" /\ op[a].old = {x}
                                       THEN "finish" ELSE @]
  <2>5. o.pc # "commit" /\ op' = [op EXCEPT ![a] = o]
    BY <1>1, <1>2, <2>1 DEF Operations, TypeInv, TypeOK
  <2> HIDE DEF o
  <2> QED BY <1>2, <2>4, <2>5, Unseen
<1>8. Delete(a) => op' = [op EXCEPT ![a] = Idle] \/ op' = [op EXCEPT ![a].pc = "stuck"]
  BY DEF Delete
<1> QED BY <1>3, <1>4, <1>5, <1>6, <1>7, <1>8

\* A commit settles the switch of its process (Commit).
LEMMA CommitSettles ==
  ASSUME TypeInv, MapsInv, NEW a \in Actors, Commit(a)
  PROVE  Promise!Next
<1> DEFINE q == Proc(a)
           pc == IF op[a].old = {} THEN "finish" ELSE "dispose"
           o == [op[a] EXCEPT !.ins = NoRows, !.new = {}, !.pc = pc]
<1>1. q \in Procs /\ op[a] \in Operations /\ reg \in [Procs -> [Plugins -> Activations \cup {None}]]
  BY ProcType DEF TypeInv, TypeOK
<1>2. reg' = reg /\ (a \in Clients => LoopFree(a)) /\ op[a].pc = "commit"
  BY DEF Commit, Ready
<1>3. op' = [op EXCEPT ![a] = o] /\ o.pc # "commit"
  BY <1>1 DEF Commit, Operations
<1> HIDE DEF o
<1>4. op'[a] = o /\ \A b \in Actors \ {a} : op'[b] = op[b]
  BY <1>3 DEF TypeInv, TypeOK
<1>5. reg' = [reg EXCEPT ![q] = reg[q]]
  BY <1>1, <1>2
<1>6. Before(q) # {} /\ Before(q)' = {} /\ AllBefore' = [AllBefore EXCEPT ![q] = {}]
  BY <1>2, <1>3, <1>4, <1>5, OneWaits
<1>7. AllBefore[q] # {}
  BY <1>1, <1>6 DEF AllBefore
<1>8. Promise!Settle(q)
  BY <1>2, <1>6, <1>7 DEF Promise!Settle, AllBefore
<1> QED BY <1>1, <1>8 DEF Promise!Next

\* A failed commit brings back what was there before the switch (CommitFails,
\* rollback_switch).
LEMMA CommitFailsUndoes ==
  ASSUME TypeInv, MapsInv, NEW a \in Actors, CommitFails(a)
  PROVE  Promise!Next
<1> DEFINE q == Proc(a)
           o == [op[a] EXCEPT !.ins = NoRows, !.new = {}, !.old = op[a].new, !.pc = "undo"]
           m == PutBack(reg[q], op[a].new, op[a].old)
<1>1. q \in Procs /\ op[a] \in Operations
  BY ProcType DEF TypeInv, TypeOK
<1>2. reg' = [reg EXCEPT ![q] = m] /\ (a \in Clients => LoopFree(a)) /\ op[a].pc = "commit"
  BY DEF CommitFails, Ready
<1>3. op' = [op EXCEPT ![a] = o] /\ o.pc # "commit"
  BY <1>1 DEF CommitFails, Operations
<1> HIDE DEF o
<1>4. op'[a] = o /\ \A b \in Actors \ {a} : op'[b] = op[b]
  BY <1>3 DEF TypeInv, TypeOK
<1>5. Before(q) = {m} /\ Before(q)' = {} /\ AllBefore' = [AllBefore EXCEPT ![q] = {}]
  BY <1>2, <1>3, <1>4, OneWaits
<1>6. AllBefore[q] = {m}
  BY <1>1, <1>5 DEF AllBefore
<1> HIDE DEF m
<1>7. Promise!Undo(q)
  BY <1>2, <1>5, <1>6 DEF Promise!Undo, AllBefore
<1> QED BY <1>1, <1>7 DEF Promise!Next

\* Activations of one repository, or of one plugin, leave together (Deactivate).
LEMMA DeactivateWithdraws ==
  ASSUME TypeInv, MapsInv, NEW a \in Actors, a \in Clients => LoopFree(a),
         op[a].pc = "idle", NEW kind, NEW id, NEW xs \in SUBSET Activations,
         Deactivate(a, kind, id, xs),
         \/ id \in RepoIds /\ xs = Owned(Proc(a), id)
         \/ \E p \in Plugins : xs = {own[Proc(a)][p]} \ {None}
  PROVE  [Promise!Next]_<<reg, AllBefore>>
<1> DEFINE q == Proc(a)
           map == reg[q]
           m == Without(map, xs)
           o == [Idle EXCEPT !.kind = kind, !.id = id, !.old = xs,
                             !.pc = IF xs = {} THEN "finish" ELSE "dispose"]
<1>1. /\ q \in Procs /\ map \in [Plugins -> Activations \cup {None}]
      /\ reg \in [Procs -> [Plugins -> Activations \cup {None}]]
  BY ProcType DEF TypeInv, TypeOK
<1>2. map = own[q] /\ \A p \in Plugins : map[p] # None => map[p].plugin = p
  BY <1>1 DEF MapsInv, Coordinated, Keyed
<1>3. reg' = [reg EXCEPT ![q] = m] /\ op' = [op EXCEPT ![a] = o]
  BY DEF Deactivate
<1>4. o.pc # "commit"
  BY DEF Idle
<1> HIDE DEF o
<1>5. op'[a] = o /\ \A b \in Actors \ {a} : op'[b] = op[b]
  BY <1>3 DEF TypeInv, TypeOK
<1>6. Before(q) = {} /\ Before(q)' = {} /\ AllBefore' = [AllBefore EXCEPT ![q] = {}]
  BY <1>3, <1>4, <1>5, OneWaits
<1>7. AllBefore[q] = {} /\ AllBefore' = AllBefore
  <2>1. AllBefore[q] = {}
    BY <1>1, <1>6 DEF AllBefore
  <2> QED BY <1>6, <2>1 DEF AllBefore
<1>8. \A p \in Plugins : m[p] = IF map[p] \in xs THEN None ELSE map[p]
  BY DEF Without
<1>9. None \notin xs
  BY NoneAssumption
<1>10. /\ reg'[q] = m /\ reg' = [reg EXCEPT ![q] = reg'[q]]
  BY <1>1, <1>3
<1>11. Promise!Changed(q) = {p \in Plugins : map[p] \in xs}
  BY <1>8, <1>9, <1>10 DEF Promise!Changed
<1>12. CASE m = map
  BY <1>1, <1>3, <1>7, <1>12
<1>13. CASE m # map
  <2>1. \/ \E p \in Plugins : Promise!Changed(q) = {p}
        \/ \E r \in RepoIds : Promise!Changed(q) = Promise!Of(map, r)
    <3>1. CASE id \in RepoIds /\ xs = Owned(q, id)
      <4>1. \A p \in Plugins : map[p] \in xs <=> map[p] # None /\ map[p].repo = id
        BY <1>2, <3>1 DEF Owned
      <4>2. Promise!Changed(q) = Promise!Of(map, id)
        BY <1>11, <4>1 DEF Promise!Of
      <4> QED BY <3>1, <4>2
    <3>2. ASSUME NEW p \in Plugins, xs = {own[q][p]} \ {None} PROVE \E s \in Plugins : Promise!Changed(q) = {s}
      <4>1. map[p] # None
        <5>1. SUFFICES ASSUME map[p] = None PROVE m = map
          BY <1>13
        <5>2. xs = {}
          BY <1>2, <3>2, <5>1
        <5> QED BY <1>1, <5>2 DEF Without
      <4>2. \A s \in Plugins : map[s] \in xs <=> s = p
        BY <1>2, <3>2, <4>1
      <4>3. Promise!Changed(q) = {p}
        BY <1>11, <4>2
      <4> QED BY <4>3
    <3> QED BY <3>1, <3>2
  <2>2. \A p \in Promise!Changed(q) : reg'[q][p] = None
    BY <1>8, <1>10, <1>11
  <2>3. reg'[q] # reg[q]
    BY <1>10, <1>13
  <2> HIDE DEF m
  <2>4. Promise!Withdraw(q)
    BY <1>7, <1>10, <2>1, <2>2, <2>3 DEF Promise!Withdraw, AllBefore
  <2> QED BY <1>1, <2>4 DEF Promise!Next
<1> QED BY <1>12, <1>13

\* Undoing a switch gives exactly the maps it began with: what it took out are all
\* the activations of one repository, and what it put in is on plugins that were
\* of this repository or free (Replaced, PutBack, _validate_ownership).
LEMMA UndoneSwitch ==
  ASSUME NEW map \in [Plugins -> Activations \cup {None}],
         NEW old \in SUBSET Activations, NEW new \in SUBSET Activations,
         \A x \in old : x.plugin \in Plugins /\ map[x.plugin] = x,
         \A p \in Plugins : map[p] # None => map[p].plugin = p,
         \A x, y \in new : x.plugin = y.plugin => x = y,
         \A x \in new : map[x.plugin] # x /\ (map[x.plugin] = None \/ map[x.plugin] \in old)
  PROVE  PutBack(Replaced(map, old, new), new, old) = map
<1> DEFINE m == Replaced(map, old, new)
           z == Replaced(m, new, old)
<1>1. m \in [Plugins -> Activations \cup {None}] /\ z \in [Plugins -> Activations \cup {None}]
  BY MapTypes
<1>2. \A p \in Plugins :
        /\ Without(map, old)[p] = IF map[p] \in old THEN None ELSE map[p]
        /\ \A y \in new : y.plugin = p => m[p] = y
        /\ (\A y \in new : y.plugin # p) => m[p] = Without(map, old)[p]
  BY ReplacedMaps
<1>3. \A x, y \in old : x.plugin = y.plugin => x = y
  OBVIOUS
<1> HIDE DEF m
<1>4. \A p \in Plugins :
        /\ Without(m, new)[p] = IF m[p] \in new THEN None ELSE m[p]
        /\ \A y \in old : y.plugin = p => z[p] = y
        /\ (\A y \in old : y.plugin # p) => z[p] = Without(m, new)[p]
  BY <1>1, <1>3, ReplacedMaps, SMTT(60)
<1> HIDE DEF z
<1>5. ASSUME NEW p \in Plugins PROVE z[p] = map[p]
  <2>1. CASE map[p] \in old
    <3>1. map[p].plugin = p
      BY <2>1, NoneAssumption
    <3> QED BY <1>4, <2>1, <3>1
  <2>2. CASE map[p] \notin old
    <3>1. \A y \in old : y.plugin # p
      BY <2>2
    <3>2. CASE \E y \in new : y.plugin = p
      <4>1. PICK y \in new : y.plugin = p
        BY <3>2
      <4>2. map[p] = None /\ m[p] = y
        BY <1>2, <2>2, <4>1
      <4> QED BY <1>4, <3>1, <4>2
    <3>3. CASE \A y \in new : y.plugin # p
      <4>1. m[p] = map[p]
        BY <1>2, <2>2, <3>3
      <4>2. map[p] \notin new
        <5>1. map[p] # None => map[p].plugin = p
          OBVIOUS
        <5> QED BY <3>3, <5>1, NoneAssumption
      <4> QED BY <1>4, <3>1, <4>1, <4>2
    <3> QED BY <3>2, <3>3
  <2> QED BY <2>1, <2>2
<1>6. z = map
  BY <1>1, <1>5
<1> QED BY <1>6 DEF z, m, PutBack, Replaced

\* A switch changes the plugins of one repository, all of them, to one version,
\* and can be undone (Switch).
LEMMA SwitchSwitches ==
  ASSUME TypeInv, MapsInv, NEW a \in Actors, Switch(a)
  PROVE  Promise!Next
<1> DEFINE q == Proc(a)
           id == op[a].id
           map == reg[q]
           old == Owned(q, id)
           new == op[a].new
           m == Replaced(map, old, new)
           o == [op[a] EXCEPT !.old = old, !.pc = "commit"]
<1>1. /\ q \in Procs /\ op[a] \in Operations /\ map \in [Plugins -> Activations \cup {None}]
      /\ reg \in [Procs -> [Plugins -> Activations \cup {None}]]
  BY ProcType DEF TypeInv, TypeOK
<1>2. old \in SUBSET Activations /\ new \in SUBSET Activations
  BY <1>1, OwnedType DEF TypeInv, Operations
<1>3. /\ op[a].pc \in {"switch", "await"} /\ (a \in Clients => LoopFree(a))
      /\ map = own[q] /\ Fits(op[a], map) /\ id \in RepoIds
  BY <1>1 DEF Switch, Prepared, Ready, MapsInv, Coordinated, TypeInv, Labelled
<1>4. reg' = [reg EXCEPT ![q] = m] /\ op' = [op EXCEPT ![a] = o]
  BY DEF Switch
<1>5. o.pc = "commit" /\ o.new = new /\ o.old = old
  BY <1>1 DEF Operations
<1>6. \A p \in Plugins : map[p] # None => map[p].plugin = p
  BY <1>1, <1>3 DEF MapsInv, Keyed
<1>7. \A x \in old : x.plugin \in Plugins /\ map[x.plugin] = x /\ x # None /\ x.repo = id
  BY <1>3, <1>6 DEF Owned
<1>8. \A p \in Plugins : map[p] # None /\ map[p].repo = id => map[p] \in old
  BY <1>3 DEF Owned
<1>9. /\ \A x, y \in new : x.plugin = y.plugin => x = y
      /\ \A x \in new : x.label = op[a].label /\ x.repo = id /\ map[x.plugin] # x
  BY <1>3 DEF Fits
<1>10. \A x \in new : x.plugin \in Plugins /\ x # None
  BY <1>2, NoneAssumption DEF Activations
<1>11. \A x \in new : map[x.plugin] = None \/ map[x.plugin].repo = id
  BY <1>3 DEF Switch, Foreign
<1> HIDE DEF o
<1>12. op'[a] = o /\ \A b \in Actors \ {a} : op'[b] = op[b]
  BY <1>4 DEF TypeInv, TypeOK
<1> HIDE DEF map, old, new, m, id
<1>13. Before(q) = {} /\ Before(q)' = {PutBack(m, new, old)}
       /\ AllBefore' = [AllBefore EXCEPT ![q] = Before(q)']
  <2>1. op[a].pc # "commit" /\ op'[a].pc = "commit" /\ op'[a].new = new /\ op'[a].old = old
    BY <1>3, <1>5, <1>12
  <2>2. /\ Before(q) = {} /\ Before(q)' = {PutBack(m, op'[a].new, op'[a].old)}
        /\ AllBefore' = [AllBefore EXCEPT ![q] = Before(q)']
    BY <1>3, <1>4, <1>12, <2>1, OneWaits
  <2> QED BY <2>1, <2>2
<1> HIDE DEF q
<1>14. PutBack(m, new, old) = map
  BY <1>1, <1>2, <1>6, <1>7, <1>8, <1>9, <1>10, <1>11, UndoneSwitch DEF m
<1>15. \A p \in Plugins :
         /\ Without(map, old)[p] = IF map[p] \in old THEN None ELSE map[p]
         /\ \A y \in new : y.plugin = p => m[p] = y
         /\ (\A y \in new : y.plugin # p) => m[p] = Without(map, old)[p]
         /\ m[p] \in new \cup ({map[p], None} \ old)
  BY <1>1, <1>2, <1>9, ReplacedMaps DEF m
<1>16. reg'[q] = m /\ reg' = [reg EXCEPT ![q] = reg'[q]] /\ reg[q] = map
  BY <1>1, <1>4 DEF map
<1>17. \A p \in Plugins : p \in Promise!Of(map, id) <=> map[p] \in old
  BY <1>7, <1>8 DEF Promise!Of
<1>18. \A p \in Plugins : p \in Promise!Of(m, id) <=> m[p] \in new
  BY <1>8, <1>9, <1>10, <1>15 DEF Promise!Of
<1>19. ASSUME NEW p \in Plugins
       PROVE  /\ m[p] # map[p] <=> map[p] \in old \/ m[p] \in new
              /\ m[p] # map[p] /\ map[p] \notin old => map[p] = None
              /\ m[p] # map[p] /\ m[p] \notin new => m[p] = None
  <2>1. CASE \E y \in new : y.plugin = p
    <3>1. PICK y \in new : y.plugin = p
      BY <2>1
    <3> QED BY <1>8, <1>9, <1>11, <1>15, <3>1
  <2>2. CASE \A y \in new : y.plugin # p
    <3>1. m[p] = IF map[p] \in old THEN None ELSE map[p]
      BY <1>15, <2>2
    <3>2. map[p] \in old => map[p] # None
      BY <1>7
    <3>3. map[p] \notin new
      BY <1>6, <1>10, <2>2
    <3>4. None \notin new
      BY <1>10
    <3> QED BY <3>1, <3>2, <3>3, <3>4
  <2> QED BY <2>1, <2>2
<1>20. Promise!Changed(q) = {p \in Plugins : m[p] # map[p]}
  BY <1>16 DEF Promise!Changed
<1>21. Promise!Changed(q) = Promise!Of(map, id) \cup Promise!Of(m, id)
  <2>1. Promise!Of(map, id) \subseteq Plugins /\ Promise!Of(m, id) \subseteq Plugins
    BY DEF Promise!Of
  <2> QED BY <1>17, <1>18, <1>19, <1>20, <2>1
<1>22. /\ \A p \in Promise!Changed(q) \ Promise!Of(map, id) : map[p] = None
       /\ \A p \in Promise!Changed(q) \ Promise!Of(m, id) : m[p] = None
  BY <1>17, <1>18, <1>19, <1>20
<1>23. \A p, s \in Promise!Of(m, id) : m[p].label = m[s].label
  <2>1. Promise!Of(m, id) \subseteq Plugins
    BY DEF Promise!Of
  <2> QED BY <1>9, <1>18, <2>1
<1>24. AllBefore[q] = {} /\ AllBefore'[q] = {reg[q]} /\ AllBefore' = [AllBefore EXCEPT ![q] = AllBefore'[q]]
  BY <1>1, <1>13, <1>14, <1>16 DEF AllBefore
<1>25. Promise!Switch(q)
  BY <1>3, <1>16, <1>21, <1>22, <1>23, <1>24 DEF Promise!Switch, AllBefore
<1> QED BY <1>1, <1>25 DEF Promise!Next

\* A process that restarts has nothing active and nothing to undo (RestartApi,
\* RestartWorker).
LEMMA RestartRestarts ==
  ASSUME TypeInv, MapsInv
  PROVE  /\ RestartApi => Promise!Next
         /\ \A w \in Workers : RestartWorker(w) => Promise!Next
<1>1. reg \in [Procs -> [Plugins -> Activations \cup {None}]] /\ Promise!Nothing = Nothing
  BY DEF TypeInv, TypeOK, Promise!Nothing, Nothing
<1>2. Idle.pc = "idle"
  BY DEF Idle
<1>3. ASSUME NEW w \in Workers, RestartWorker(w) PROVE Promise!Next
  <2>1. w \in Actors /\ w \notin Clients /\ Proc(w) = w /\ w \in Procs
    BY ConstantsAssumption DEF Actors, Proc, Procs
  <2>2. reg' = [reg EXCEPT ![w] = Nothing]
    BY <1>3 DEF RestartWorker, Cleared
  <2>3. op'[w].pc # "commit" /\ \A b \in Actors \ {w} : op'[b] = op[b]
    BY <1>2, <1>3, <2>1 DEF RestartWorker, TypeInv, TypeOK
  <2>4. reg' = [reg EXCEPT ![Proc(w)] = Nothing]
    BY <2>1, <2>2
  <2>5. Before(Proc(w))' = {} /\ AllBefore' = [AllBefore EXCEPT ![Proc(w)] = Before(Proc(w))']
    BY <2>1, <2>3, <2>4, OneWaits
  <2>6. AllBefore' = [AllBefore EXCEPT ![w] = {}]
    BY <2>1, <2>5
  <2>7. Promise!Restart(w)
    BY <1>1, <2>2, <2>6 DEF Promise!Restart, AllBefore
  <2> QED BY <2>1, <2>7 DEF Promise!Next
<1>4. ASSUME RestartApi PROVE Promise!Next
  <2> DEFINE o == Start("boot", row.id, row, row.cur)
  <2>1. PICK a \in Clients, boots \in BOOLEAN :
          op' = [b \in Actors |-> CASE b \in Workers -> op[b]
                                    [] b = a /\ boots -> o
                                    [] OTHER -> Idle]
    BY <1>4 DEF RestartApi
  <2>2. o.pc = "pin"
    BY DEF Start, Idle
  <2> HIDE DEF o
  <2>3. /\ \A b \in Workers : op'[b] = op[b] /\ Proc(b) = b
        /\ \A b \in Clients : op'[b].pc # "commit" /\ Proc(b) = Api
    BY <1>2, <2>1, <2>2, ConstantsAssumption DEF Actors, Proc
  <2>4. Api \notin Workers /\ Api \in Procs
    BY ConstantsAssumption DEF Procs
  <2>5. reg' = [reg EXCEPT ![Api] = Nothing]
    BY <1>4 DEF RestartApi, Cleared
  <2>6. Before(Api)' = {}
    <3>1. {b \in Actors : op'[b].pc = "commit" /\ Proc(b) = Api} = {}
      BY <2>3, <2>4 DEF Actors
    <3> QED BY <3>1 DEF Before
  <2>7. ASSUME NEW q \in Procs \ {Api} PROVE Before(q)' = Before(q)
    <3>1. {b \in Actors : op'[b].pc = "commit" /\ Proc(b) = q}
            = {b \in Actors : op[b].pc = "commit" /\ Proc(b) = q}
      BY <2>3, <2>7 DEF Actors
    <3>2. \A b \in {c \in Actors : op[c].pc = "commit" /\ Proc(c) = q} : op'[b] = op[b]
      BY <2>3, <2>7 DEF Actors
    <3>3. reg'[q] = reg[q]
      BY <1>1, <2>5, <2>7
    <3> QED BY <3>1, <3>2, <3>3 DEF Before
  <2>8. AllBefore' = [AllBefore EXCEPT ![Api] = {}]
    BY <2>4, <2>6, <2>7 DEF AllBefore
  <2>9. Promise!Restart(Api)
    BY <1>1, <2>5, <2>8 DEF Promise!Restart, AllBefore
  <2> QED BY <2>4, <2>9 DEF Promise!Next
<1> QED BY <1>3, <1>4

\* Disabling, removing and dropping are withdrawals (deactivate).
LEMMA ReleaseWithdraws ==
  ASSUME TypeInv, MapsInv
  PROVE  /\ \A a \in Clients : Disable(a) \/ Remove(a) => [Promise!Next]_<<reg, AllBefore>>
         /\ \A w \in Workers : WorkerDrop(w) => [Promise!Next]_<<reg, AllBefore>>
<1>1. \A proc \in Procs : \A id : Owned(proc, id) \in SUBSET Activations
  BY OwnedType DEF TypeInv
<1>2. ASSUME NEW a \in Clients, Disable(a) \/ Remove(a) PROVE [Promise!Next]_<<reg, AllBefore>>
  <2>1. /\ a \in Actors /\ Proc(a) = Api /\ LoopFree(a) /\ Api \in Procs
        /\ op[a].pc = "idle" /\ row \in Rows /\ row.id \in RepoIds
    BY <1>2 DEF Disable, Remove, Begin, Ready, Actors, Proc, Procs, TypeInv, TypeOK, Rows
  <2>2. CASE Disable(a)
    <3>1. PICK p \in Plugins : Deactivate(a, "disable", row.id, {own[Api][p]} \ {None})
      BY <2>2 DEF Disable
    <3>2. {own[Api][p]} \ {None} \in SUBSET Activations
      BY <2>1 DEF TypeInv, TypeOK
    <3> QED BY <2>1, <3>1, <3>2, DeactivateWithdraws
  <2>3. CASE Remove(a)
    <3>1. Deactivate(a, "remove", row.id, Owned(Api, row.id))
      BY <2>3 DEF Remove
    <3> QED BY <1>1, <2>1, <3>1, DeactivateWithdraws
  <2> QED BY <1>2, <2>2, <2>3
<1>3. ASSUME NEW w \in Workers, WorkerDrop(w) PROVE [Promise!Next]_<<reg, AllBefore>>
  <2>1. /\ w \in Actors /\ w \notin Clients /\ Proc(w) = w /\ w \in Procs
        /\ op[w].pc = "idle"
    BY <1>3, ConstantsAssumption DEF WorkerDrop, Actors, Proc, Procs
  <2>2. PICK id \in RepoIds : Deactivate(w, "drop", id, Owned(w, id))
    BY <1>3 DEF WorkerDrop, Gone
  <2> QED BY <1>1, <2>1, <2>2, DeactivateWithdraws
<1> QED BY <1>2, <1>3

\* At the start nothing is active and no switch has happened.
LEMMA PromiseInit == Init => Promise!Init
<1> SUFFICES ASSUME Init PROVE Promise!Init
  OBVIOUS
<1>1. \A a \in Actors : op[a].pc = "idle"
  BY DEF Init, Idle
<1>2. \A q \in Procs : Before(q) = {}
  BY <1>1 DEF Before
<1>3. reg = [q \in Procs |-> Promise!Nothing]
  BY DEF Init, Nothing, Promise!Nothing
<1> QED BY <1>2, <1>3 DEF Promise!Init

\* Every step is one of the promise, or is not seen.
LEMMA PromiseStep == TypeInv /\ MapsInv /\ [Next]_vars => [Promise!Next]_<<reg, AllBefore>>
<1> SUFFICES ASSUME TypeInv, MapsInv, [Next]_vars PROVE [Promise!Next]_<<reg, AllBefore>>
  OBVIOUS
<1>1. CASE UNCHANGED vars
  BY <1>1, UnseenStutter DEF vars
<1>2. ASSUME NEW a \in Clients, Request(a) PROVE [Promise!Next]_<<reg, AllBefore>>
  <2>1. a \in Actors
    BY DEF Actors
  <2> QED BY <1>2, <2>1, UnseenStarts, ReleaseWithdraws DEF Request
<1>3. ASSUME NEW w \in Workers, Poll(w) \/ RestartWorker(w)
      PROVE  [Promise!Next]_<<reg, AllBefore>>
  <2>1. w \in Actors
    BY DEF Actors
  <2> QED BY <1>3, <2>1, UnseenStarts, ReleaseWithdraws, RestartRestarts DEF Poll
<1>4. ASSUME NEW a \in Actors, Continue(a) PROVE [Promise!Next]_<<reg, AllBefore>>
  <2>1. CASE Switch(a) \/ Commit(a) \/ CommitFails(a)
    BY <2>1, SwitchSwitches, CommitSettles, CommitFailsUndoes
  <2>2. CASE ~(Switch(a) \/ Commit(a) \/ CommitFails(a))
    BY <1>4, <2>2, UnseenSteps DEF Continue
  <2> QED BY <2>1, <2>2
<1>5. CASE RestartApi
  BY <1>5, RestartRestarts
<1> QED BY <1>1, <1>2, <1>3, <1>4, <1>5 DEF Next

\* For every number of requests, workers, plugins, commits and repositories, and
\* in every interleaving of them over the awaits, with failures and restarts: the
\* readers of a registry see what RepositorySwitch promises. The plugins of a
\* repository change together, to one version; a failed commit gives back exactly
\* what was there; no cleanup and no other request is seen in between
\* (coordinator.py, activator.py, manager.py).
THEOREM SwitchRefinement == Spec => SwitchSpec
<1>1. Init => TypeInv /\ MapsInv
  BY TypeInit, MapsInit
<1>2. TypeInv /\ MapsInv /\ [Next]_vars => (TypeInv /\ MapsInv)'
  BY TypeStep, MapsStep
<1>3. TypeInv /\ MapsInv /\ [Next]_vars => [Promise!Next]_<<reg, [q \in Procs |-> Before(q)]>>
  BY PromiseStep DEF AllBefore
<1> QED BY <1>1, <1>2, <1>3, PromiseInit, PTL DEF Spec, SwitchSpec, Promise!Spec
=============================================================================

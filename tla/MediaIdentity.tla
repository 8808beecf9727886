---------------------------- MODULE MediaIdentity ----------------------------
(* Media subjects, their external ids and the watchlist: the transactions of *)
(* services/media_identity_service.py and watchlist_service.py, and the      *)
(* commits of media_discovery_service.py that use them.                      *)
(*                                                                           *)
(* The requests of the API share one event loop and a synchronous driver: a  *)
(* request that waits for a lock stops all the others.  The worker and the   *)
(* follow routes (a thread each) run beside them.  Everybody reads what is   *)
(* committed, or what the own transaction has written.  What a transaction   *)
(* has written is locked until it ends.  A database error, a deadlock that   *)
(* PostgreSQL resolves included, may meet any statement.                     *)
EXTENDS Integers, Sequences, FiniteSets

CONSTANTS
  Requests,   \* requests of the API that run in the event loop
  Followers,  \* threads of the follow routes
  Worker,
  Feed,       \* the list of the watchlist provider: a sequence of items
  Pages,      \* answers of catalog providers: sequences of items
  MaxSubjects,
  None

Sessions == Requests \cup {Worker}

(***************************************************************************)
(* An item: provider, own (its external_id), space (external_id_provider   *)
(* or None), others (external_ids, from namespaces to values), year (or    *)
(* None), record (external_record_id or None; None in catalog pages) and   *)
(* work, which tells what the item is really about.                        *)
(***************************************************************************)
ItemsOf(page) == {page[i] : i \in DOMAIN page}
Items == ItemsOf(Feed) \cup UNION {ItemsOf(page) : page \in Pages}

ASSUME MediaAssumption ==
  /\ Worker \notin Requests
  /\ MaxSubjects \in Nat \ {0}
  /\ Feed \in Seq(ItemsOf(Feed)) /\ \A page \in Pages : page \in Seq(ItemsOf(page))
  /\ \A i \in Items : None \notin {i.provider, i.own}

Absent == -1  \* no row of watchlist_sync_states

VARIABLES
  extid,    \* media_external_ids: from <<namespace, value>> to subjects
  subject,  \* media_subjects: year, followed, listed (watchlisted_at)
  entry,    \* media_watchlist_entries: from record keys to subjects
  cursor,   \* the cursor of the provider, or Absent
  tx,       \* the transaction of every session
  fol,      \* the follow requests
  kept      \* the items whose transactions have been committed

tables == <<extid, subject, entry, cursor>>
vars == <<extid, subject, entry, cursor, tx, fol, kept>>

Subjects == 1..MaxSubjects

\* The function that f gives where it is defined, and g elsewhere.
Over(f, g) == [x \in DOMAIN f \cup DOMAIN g |-> IF x \in DOMAIN f THEN f[x] ELSE g[x]]

NoTx == [pc |-> "idle", kind |-> "none", todo |-> <<>>, done |-> {}, from |-> 0, next |-> 0,
         state |-> FALSE, ids |-> <<>>, rows |-> <<>>, changed |-> <<>>, entries |-> <<>>,
         known |-> {}, loaded |-> <<>>]
NoFollow == [id |-> 0, want |-> FALSE, loaded |-> FALSE]

Init ==
  /\ extid = <<>> /\ subject = <<>> /\ entry = <<>> /\ cursor = Absent
  /\ tx = [s \in Sessions |-> NoTx]
  /\ fol = [u \in Followers |-> NoFollow]
  /\ kept = {}

-----------------------------------------------------------------------------
(* Who sees, holds and may do what                                           *)

\* The ids of an item, by namespace: the own id counts under the id of the
\* provider, whatever namespace the item declares for it.
Given(i) == Over([space \in {i.provider} |-> i.own], i.others)
IdMap(i) ==
  IF i.space = None THEN Given(i)
  ELSE Over([space \in {i.provider, i.space} |-> i.own], i.others)
Ids(i) == {<<space, IdMap(i)[space]>> : space \in DOMAIN IdMap(i)}

\* The declared namespace has another value than the own id.
ContradictsItself(i) ==
  /\ i.space \in DOMAIN Given(i)
  /\ Given(i)[i.space] # i.own

Seen(s) == Over(tx[s].ids, extid)
Row(s, x) == Over(tx[s].rows, subject)[x]

Others(s) == Sessions \ {s}
HeldIds(s) == UNION {DOMAIN tx[t].ids : t \in Others(s)}
HeldRows(s) == UNION {DOMAIN tx[t].rows : t \in Others(s)}
HeldEntries(s) == UNION {DOMAIN tx[t].entries : t \in Others(s)}
StateHeld(s) == \E t \in Others(s) : tx[t].state

Unused == Subjects \ (DOMAIN subject \cup UNION {DOMAIN tx[s].rows : s \in Sessions})

\* The event loop is free: no other request is between two statements.
Runs(s) == s \in Requests => \A t \in Requests \ {s} : tx[t].pc \in {"idle", "pull"}

NextUnused == {x \in Unused : \A y \in Unused : x <= y}

Quiet == UNCHANGED <<tables, fol, kept>>

-----------------------------------------------------------------------------
(* The start of a transaction                                                *)

\* _persist_page, or the upsert of a detail: the provider has answered.
StartPage(s, page) ==
  /\ s \in Requests /\ tx[s] = NoTx /\ Runs(s)
  /\ tx' = [tx EXCEPT ![s] = [NoTx EXCEPT !.pc = "read", !.kind = "page", !.todo = page]]
  /\ Quiet

\* sync reads the row of its provider.
StartSync(s) ==
  /\ tx[s] = NoTx /\ Runs(s)
  /\ tx' = [tx EXCEPT ![s] = [NoTx EXCEPT !.kind = "sync",
              !.pc = IF cursor = Absent THEN "insert" ELSE "pull",
              !.from = IF cursor = Absent THEN 0 ELSE cursor]]
  /\ Quiet

\* The new row is held over the call of the provider.  If somebody else has
\* committed one, the error leaves sync (and ends the worker's process, whose
\* session is not rolled back; it is started again).
InsertState(s) ==
  /\ tx[s].pc = "insert" /\ Runs(s) /\ ~StateHeld(s)
  /\ tx' = [tx EXCEPT ![s] = IF cursor = Absent THEN [@ EXCEPT !.pc = "pull", !.state = TRUE]
                                                ELSE NoTx]
  /\ Quiet

\* The provider returns some of the items behind the cursor, and the cursor
\* behind them, which starts again when the list is at its end.
Pull(s) ==
  /\ tx[s].pc = "pull" /\ Runs(s)
  /\ \E to \in tx[s].from..Len(Feed) :
       \E next \in {to} \cup IF to = Len(Feed) THEN {0} ELSE {} :
         tx' = [tx EXCEPT ![s].pc = "read", ![s].next = next,
                          ![s].todo = SubSeq(Feed, tx[s].from + 1, to)]
  /\ Quiet

-----------------------------------------------------------------------------
(* upsert_item, and the entry of a watchlist item                            *)

\* Mutant: the state row that records the error gets the new cursor.
FailedAdvances(s) ==
  /\ tx' = [tx EXCEPT ![s] = NoTx]
  /\ cursor' = IF tx[s].kind = "sync" THEN tx[s].next ELSE cursor
  /\ UNCHANGED <<extid, subject, entry, fol, kept>>

\* Roll back and, for a sync, record the error in the state row, which is made
\* if it is not there.
Failed(s) ==
  /\ tx' = [tx EXCEPT ![s] = NoTx]
  /\ cursor' = IF tx[s].kind = "sync" /\ cursor = Absent THEN 0 ELSE cursor
  /\ UNCHANGED <<extid, subject, entry, fol, kept>>

Item(s) == Head(tx[s].todo)
Matching(s) == {Seen(s)[id] : id \in Ids(Item(s)) \cap DOMAIN Seen(s)}

MatchIds(s) ==
  /\ tx[s].pc = "read" /\ tx[s].todo # <<>> /\ Runs(s)
  /\ ~ContradictsItself(Item(s)) /\ Cardinality(Matching(s)) <= 1
  /\ tx' = [tx EXCEPT ![s].pc = "write",
                      ![s].known = Ids(Item(s)) \cap DOMAIN Seen(s),
                      ![s].loaded = [x \in Matching(s) |-> Row(s, x)]]
  /\ Quiet

\* The ids belong to two subjects, or contradict each other: the whole page,
\* or the whole pull, is given up.
IdentityConflict(s) ==
  /\ tx[s].pc = "read" /\ tx[s].todo # <<>> /\ Runs(s)
  /\ ContradictsItself(Item(s)) \/ Cardinality(Matching(s)) > 1
  /\ Failed(s)

New == [year |-> None, followed |-> FALSE, listed |-> FALSE]

\* A year that is not known does not replace one that is.
Snapshot(s, row) ==
  [row EXCEPT !.year = IF Item(s).year = None THEN @ ELSE Item(s).year,
              !.listed = @ \/ tx[s].kind = "sync"]

\* Mutant: every column is written.
ChangedAny(old, new) == {"year", "followed", "listed"}

\* The columns an UPDATE writes: those that differ from what was loaded.
Changed(old, new) == {column \in {"year", "followed", "listed"} : old[column] # new[column]}

RecordKey(i, x) == IF i.record = None THEN <<"subject", x>> ELSE <<"record", i.record>>

\* Mutant: an id that is there already is given to the subject.
RefusedIdsNone(s, ids) == {}

\* The unique constraint: ids that somebody has committed since they were read.
RefusedIds(s, ids) == ids \cap DOMAIN extid

\* A subject for ids that nobody knows, or the one they lead to.
Fresh(s) == tx[s].known = {}
Target(s) == IF Fresh(s) THEN NextUnused ELSE DOMAIN tx[s].loaded
Old(s, x) == IF Fresh(s) THEN New ELSE tx[s].loaded[x]
NewRow(s, x) == Snapshot(s, Old(s, x))
NewIds(s) == Ids(Item(s)) \ tx[s].known
NewKeys(s, x) == IF tx[s].kind = "sync" THEN {RecordKey(Item(s), x)} ELSE {}
Columns(s, x) ==
  (IF x \in DOMAIN tx[s].changed THEN tx[s].changed[x] ELSE {})
  \cup (IF Fresh(s) THEN DOMAIN New ELSE Changed(Old(s, x), NewRow(s, x)))

Written(s, x) ==
  [tx[s] EXCEPT !.pc = "read", !.todo = Tail(@), !.done = @ \cup {Item(s)},
                !.known = {}, !.loaded = <<>>,
                !.ids = Over([id \in NewIds(s) |-> x], @),
                !.rows = Over([y \in {x} |-> NewRow(s, x)], @),
                !.changed = Over([y \in {x} |-> Columns(s, x)], @),
                !.entries = Over([key \in NewKeys(s, x) |-> x], @)]

\* The flush of the subject, of its new ids and of the entry.  It waits for
\* what others hold, and a violated constraint undoes everything.
Write(s) ==
  /\ tx[s].pc = "write" /\ Runs(s)
  /\ \E x \in Target(s) :
       /\ NewIds(s) \cap HeldIds(s) = {}
       /\ x \notin HeldRows(s)
       /\ NewKeys(s, x) \cap HeldEntries(s) = {}
       /\ IF RefusedIds(s, NewIds(s)) # {} THEN Failed(s)
          ELSE tx' = [tx EXCEPT ![s] = Written(s, x)] /\ Quiet

DatabaseFails(s) ==
  /\ tx[s].pc \in {"read", "write"} /\ Runs(s)
  /\ Failed(s)

ProviderFails(s) ==
  /\ tx[s].pc = "pull" /\ Runs(s)
  /\ Failed(s)

\* A committed row takes the columns that the transaction has changed.
Merged(s) ==
  [x \in DOMAIN subject \cup DOMAIN tx[s].rows |->
     IF x \notin DOMAIN tx[s].rows THEN subject[x]
     ELSE IF x \notin DOMAIN subject THEN tx[s].rows[x]
     ELSE [column \in DOMAIN New |-> IF column \in tx[s].changed[x]
                                     THEN tx[s].rows[x][column] ELSE subject[x][column]]]

\* The cursor is written if the transaction has changed it.
NextCursor(s) ==
  IF tx[s].kind = "page" THEN cursor
  ELSE IF tx[s].state \/ tx[s].next # tx[s].from THEN tx[s].next ELSE cursor

Commit(s) ==
  /\ tx[s].pc = "read" /\ tx[s].todo = <<>> /\ Runs(s)
  /\ extid' = Seen(s)
  /\ subject' = Merged(s)
  /\ entry' = Over(tx[s].entries, entry)
  /\ cursor' = NextCursor(s)
  /\ kept' = kept \cup tx[s].done
  /\ tx' = [tx EXCEPT ![s] = NoTx]
  /\ UNCHANGED fol

-----------------------------------------------------------------------------
(* set_followed, in a thread of its own                                      *)

ReadFollow(u, x, want) ==
  /\ fol[u] = NoFollow
  /\ x \in DOMAIN subject
  /\ fol' = [fol EXCEPT ![u] = [id |-> x, want |-> want, loaded |-> subject[x].followed]]
  /\ UNCHANGED <<tables, tx, kept>>

\* A new time always is a change, but NULL over a NULL is not.
CommitFollow(u) ==
  /\ fol[u] # NoFollow
  /\ \A s \in Sessions : fol[u].id \notin DOMAIN tx[s].rows
  /\ fol' = [fol EXCEPT ![u] = NoFollow]
  /\ subject' = IF fol[u].want \/ fol[u].loaded
                THEN [subject EXCEPT ![fol[u].id].followed = fol[u].want] ELSE subject
  /\ UNCHANGED <<extid, entry, cursor, tx, kept>>

-----------------------------------------------------------------------------
ApiStops ==
  /\ \E r \in Requests : tx[r] # NoTx
  /\ tx' = [s \in Sessions |-> IF s \in Requests THEN NoTx ELSE tx[s]]
  /\ fol' = [u \in Followers |-> NoFollow]
  /\ UNCHANGED <<tables, kept>>

WorkerStops ==
  /\ tx[Worker] # NoTx
  /\ tx' = [tx EXCEPT ![Worker] = NoTx]
  /\ Quiet

SessionStep(s) ==
  \/ \E page \in Pages : StartPage(s, page)
  \/ StartSync(s) \/ InsertState(s) \/ Pull(s)
  \/ MatchIds(s) \/ IdentityConflict(s) \/ Write(s) \/ Commit(s)
  \/ DatabaseFails(s) \/ ProviderFails(s)

FollowStep(u) ==
  \/ \E x \in Subjects, want \in BOOLEAN : ReadFollow(u, x, want)
  \/ CommitFollow(u)

Next ==
  \/ \E s \in Sessions : SessionStep(s)
  \/ \E u \in Followers : FollowStep(u)
  \/ ApiStops \/ WorkerStops

Spec == Init /\ [][Next]_vars
-----------------------------------------------------------------------------
\* The functions from a part of A to B.
Partial(A, B) == UNION {[D -> B] : D \in SUBSET A}

AllIds == UNION {Ids(i) : i \in Items}
Keys == ({"subject"} \X Subjects) \cup ({"record"} \X {i.record : i \in Items})
RowType == [year : {i.year : i \in Items} \cup {None}, followed : BOOLEAN, listed : BOOLEAN]
TxType ==
  [pc : {"idle", "insert", "pull", "read", "write"}, kind : {"none", "page", "sync"},
   todo : Seq(Items), done : SUBSET Items, from : 0..Len(Feed), next : 0..Len(Feed),
   state : BOOLEAN, ids : Partial(AllIds, Subjects), rows : Partial(Subjects, RowType),
   changed : Partial(Subjects, SUBSET DOMAIN New), entries : Partial(Keys, Subjects),
   known : SUBSET AllIds, loaded : Partial(Subjects, RowType)]

IdentityTypeOK ==
  /\ extid \in Partial(AllIds, Subjects) /\ subject \in Partial(Subjects, RowType)
  /\ entry \in Partial(Keys, Subjects) /\ cursor \in {Absent} \cup 0..Len(Feed)
  /\ tx \in [Sessions -> TxType]
  /\ fol \in [Followers -> [id : 0..MaxSubjects, want : BOOLEAN, loaded : BOOLEAN]]
  /\ kept \subseteq Items

\* However pages and pulls of two processes interleave, all ids of an item that
\* has been committed lead to one subject (docs/06, external_ids).
OneSubjectPerItem ==
  \A i \in kept : \E x \in DOMAIN subject :
    \A id \in Ids(i) : id \in DOMAIN extid /\ extid[id] = x

\* The committed cursor never passes an item that is not recorded: it has an
\* entry, for the subject its id leads to, and that subject is on the watchlist
\* (docs/02: Core keeps cursor, retries and state).
NothingSkipped ==
  \A n \in 1..cursor : \E x \in DOMAIN subject :
    LET i == Feed[n] IN
      /\ <<i.provider, i.own>> \in DOMAIN extid /\ extid[<<i.provider, i.own>>] = x
      /\ RecordKey(i, x) \in DOMAIN entry /\ entry[RecordKey(i, x)] = x
      /\ subject[x].listed

\* What a user has decided about following changes only when a user decides,
\* whatever snapshots are written meanwhile.
FollowKept ==
  [][\A x \in DOMAIN subject : subject'[x].followed # subject[x].followed =>
       \E u \in Followers : /\ fol[u].id = x /\ fol'[u] = NoFollow
                            /\ fol[u].want = subject'[x].followed]_vars

\* Refuted (docs/06, media_external_ids): two works whose ids are the same in
\* two namespaces of one platform are never merged silently.
NoSilentMerge ==
  \A i, j \in kept :
    extid[<<i.provider, i.own>>] = extid[<<j.provider, j.own>>] => i.work = j.work

\* Refuted: a request that waits for the state row of another one, which is at
\* its provider, stops the event loop that both need.
LoopNeverBlocked ==
  \A r, t \in Requests : tx[r].pc = "insert" /\ tx[t].pc = "pull" => ~tx[t].state
-----------------------------------------------------------------------------
(* The inductive invariant behind OneSubjectPerItem, FollowKept and          *)
(* NothingSkipped, part by part                                              *)

\* What a transaction has written, it holds alone.
HeldApart ==
  \A s, t \in Sessions : s # t =>
    /\ DOMAIN tx[s].ids \cap DOMAIN tx[t].ids = {}
    /\ DOMAIN tx[s].rows \cap DOMAIN tx[t].rows = {}

\* An id leads to a subject that is there; a new id is nobody else's, and leads
\* to a row of its transaction.
IdsLead ==
  /\ \A id \in DOMAIN extid : extid[id] \in DOMAIN subject
  /\ \A s \in Sessions :
       /\ DOMAIN tx[s].ids \cap DOMAIN extid = {}
       /\ \A id \in DOMAIN tx[s].ids : tx[s].ids[id] \in DOMAIN tx[s].rows
       /\ DOMAIN tx[s].changed = DOMAIN tx[s].rows

\* What has been looked up for an item still holds when it is written: the
\* known ids lead to the subject that has been loaded, and no other id of the
\* item has been written by the transaction itself.
LookedUp ==
  \A s \in Sessions : tx[s].pc = "write" =>
    /\ tx[s].todo # <<>>
    /\ tx[s].known \subseteq Ids(Item(s))
    /\ Ids(Item(s)) \cap DOMAIN tx[s].ids \subseteq tx[s].known
    /\ \A x \in DOMAIN tx[s].loaded, id \in tx[s].known : id \in DOMAIN Seen(s) /\ Seen(s)[id] = x

\* All ids of an item lead to one subject.
Together(i, seen) == \E x \in Subjects : \A id \in Ids(i) : id \in DOMAIN seen /\ seen[id] = x

DoneTogether ==
  /\ \A i \in kept : Together(i, extid)
  /\ \A s \in Sessions : \A i \in tx[s].done : Together(i, Seen(s))

\* No transaction writes the flag of a follower over a row it has not made.
FollowNotWritten ==
  \A s \in Sessions : \A x \in DOMAIN tx[s].rows \cap DOMAIN subject :
    "followed" \notin tx[s].changed[x]

\* A subject is put on the watchlist and never taken off it: what is written is
\* the time, or nothing, and what was loaded has been committed.
ListedStays ==
  \A s \in Sessions :
    /\ \A x \in DOMAIN tx[s].rows \cap DOMAIN subject :
         /\ "listed" \in tx[s].changed[x] => tx[s].rows[x].listed
         /\ tx[s].rows[x].listed => "listed" \in tx[s].changed[x] \/ subject[x].listed
    /\ tx[s].pc = "write" => \A x \in DOMAIN tx[s].loaded :
         /\ x \in DOMAIN tx[s].rows => tx[s].loaded[x] = tx[s].rows[x]
         /\ x \notin DOMAIN tx[s].rows /\ tx[s].loaded[x].listed
              => x \in DOMAIN subject /\ subject[x].listed

\* The entry of an item is that of the subject its own id leads to.
OwnId(i) == <<i.provider, i.own>>
EntryLeads(seen, entries) ==
  /\ \A i \in ItemsOf(Feed) : i.record # None /\ <<"record", i.record>> \in DOMAIN entries =>
       OwnId(i) \in DOMAIN seen /\ entries[<<"record", i.record>>] = seen[OwnId(i)]
  /\ \A x \in Subjects : <<"subject", x>> \in DOMAIN entries => entries[<<"subject", x>>] = x

EntriesLead ==
  /\ EntryLeads(extid, entry)
  /\ \A s \in Sessions : EntryLeads(Seen(s), tx[s].entries)

\* An item of the list is recorded, as far as seen, entries and rows tell.
RecordedIn(i, seen, entries, rows) ==
  /\ OwnId(i) \in DOMAIN seen
  /\ RecordKey(i, seen[OwnId(i)]) \in DOMAIN entries
  /\ rows[seen[OwnId(i)]].listed
Recorded(n) == RecordedIn(Feed[n], extid, entry, subject)
RecordedBy(s, n) == RecordedIn(Feed[n], Seen(s), Over(tx[s].entries, entry), Merged(s))

\* A pull that has been applied up to its rest has recorded all before it: what
\* the cursor it started from has passed, and what it has taken from the page.
Untouched(t) == DOMAIN t.ids = {} /\ DOMAIN t.rows = {} /\ DOMAIN t.entries = {}
Passed(s) == tx[s].next - Len(tx[s].todo)
CursorCovered ==
  /\ \A n \in 1..cursor : Recorded(n)
  /\ \A s \in Sessions :
       /\ tx[s].pc # "idle" => tx[s].kind # "none"
       /\ tx[s].pc \in {"insert", "pull"} => tx[s].kind = "sync" /\ Untouched(tx[s])
       /\ tx[s].kind = "sync" => \A n \in 1..tx[s].from : Recorded(n)
       /\ tx[s].kind = "sync" /\ tx[s].pc \in {"read", "write"} =>
            /\ tx[s].todo \in Seq(ItemsOf(Feed))
            /\ tx[s].next # 0 =>
                 /\ Passed(s) >= 0
                 /\ \A n \in 1..Passed(s) : RecordedBy(s, n)
                 /\ \A k \in 1..Len(tx[s].todo) : tx[s].todo[k] = Feed[Passed(s) + k]

\* The ids of the provider's records are ids: its list has no two items of one
\* record with different subjects.
RecordsApart ==
  \A i, j \in ItemsOf(Feed) : i.record = j.record /\ i.record # None => OwnId(i) = OwnId(j)

\* An id belongs to one work: not so where a platform numbers movies and series
\* apart (find_identity).
IdsTellWorks == \A i, j \in Items : Ids(i) \cap Ids(j) # {} => i.work = j.work

\* Ids that lead to one subject belong to one work, as every session sees them.
WorksApart(seen) ==
  \A i, j \in Items : \A a \in Ids(i) \cap DOMAIN seen, b \in Ids(j) \cap DOMAIN seen :
    seen[a] = seen[b] => i.work = j.work

SeenApart == WorksApart(extid) /\ \A s \in Sessions : WorksApart(Seen(s))
=============================================================================

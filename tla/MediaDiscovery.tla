---------------------------- MODULE MediaDiscovery ----------------------------
(* Catalog pages, details and the two batches that complete subjects         *)
(* (services/media_discovery_service.py and the routes of api/discover.py),  *)
(* between a provider, the cache in Redis (catalog_cache.py) and the rows of *)
(* the subjects.  A request is on the event loop except while it awaits the  *)
(* cache or the provider, so what it does between two awaits is one action.  *)
(*                                                                           *)
(* What upsert_item does to identities is in MediaIdentity; here an item is  *)
(* stored, or refused for its ids.  Every page shows every subject; its flag *)
(* "followed" stands for all the flags that refresh_flags renews, and counts *)
(* the decisions of the user, so that an older one can be told from a newer. *)
(* Requests refused before their first await leave no trace and are no step; *)
(* the plugins may register or take away the provider at any time.  A batch  *)
(* may be overtaken between any two subjects, more often than in the code.   *)
EXTENDS Integers, FiniteSets

CONSTANTS
  Browsers,    \* requests of the API
  Queries,     \* keys of pages: an action with its query
  Searches,    \* those whose action is search
  Works,       \* the subjects
  Recognised,  \* subjects with an id in a namespace of the provider
  Caps,        \* which of "search" and "detail" the provider can do
  Ttl, DetailTtl,      \* how long a cached page or detail is fresh
  MaxNow, MaxFollows,  \* bounds: the clock, decisions to follow or not
  Nothing

CacheKeys == Queries \cup Works

ASSUME DiscoveryAssumption ==
  /\ Searches \subseteq Queries /\ Recognised \subseteq Works
  /\ Caps \subseteq {"search", "detail"}
  /\ Queries \cap Works = {} /\ Nothing \notin CacheKeys
  /\ Ttl \in Nat /\ DetailTtl \in Nat /\ MaxNow \in Nat /\ MaxFollows \in Nat

VARIABLES
  now,
  follows,  \* how often the user has decided
  row,      \* what the row of each subject has: year, poster of the provider
  cache,    \* what Redis has for each key
  req

discoveryVars == <<now, follows, row, cache, req>>

Idle == [kind |-> "none", pc |-> "idle", key |-> Nothing, todo |-> {}, refresh |-> FALSE,
         start |-> 0, before |-> 0, loaded |-> Nothing, cached |-> Nothing, entry |-> Nothing,
         outcome |-> "none", shown |-> Nothing]

DiscoveryInit ==
  /\ now = 0 /\ follows = 0
  /\ row = [s \in Works |-> [year |-> FALSE, poster |-> FALSE]]
  /\ cache = [k \in CacheKeys |-> Nothing]
  /\ req = [r \in Browsers |-> Idle]

-----------------------------------------------------------------------------
Become(r, new) == req' = [req EXCEPT ![r] = new]

\* An answer is sent before anybody goes on: what has ended disturbs nobody.
Sent(r) ==
  /\ req[r].pc = "done"
  /\ req' = [req EXCEPT ![r] = Idle]
  /\ UNCHANGED <<now, follows, row, cache>>

Free(r) == req[r].pc = "idle"

\* An answer: what happened, and the content and the flags it shows.
Ended(q, outcome, at, flag) ==
  [q EXCEPT !.pc = "done", !.outcome = outcome, !.shown = [at |-> at, flag |-> flag],
            !.todo = {}, !.cached = Nothing, !.entry = Nothing, !.loaded = Nothing]

Refused(q, outcome) ==
  [q EXCEPT !.pc = "done", !.outcome = outcome, !.shown = Nothing,
            !.todo = {}, !.cached = Nothing, !.entry = Nothing, !.loaded = Nothing]

Asked(kind, pc) ==
  [Idle EXCEPT !.kind = kind, !.pc = pc, !.start = now, !.before = follows]

Unchanged == UNCHANGED <<now, follows, row, cache>>

\* The provider can do what is asked for.
Valid(k) == k \in Searches => "search" \in Caps

\* query: the provider is selected and the query validated.
AskPage(r, k, refresh) ==
  /\ Free(r) /\ Valid(k)
  /\ Become(r, [Asked("page", "lookup") EXCEPT !.key = k, !.refresh = refresh])
  /\ Unchanged

\* get_detail without a provider id; the session keeps the row it has loaded.
AskDetail(r, s, refresh) ==
  /\ Free(r) /\ s \in Recognised
  /\ Become(r, [Asked("detail", "lookup") EXCEPT
                  !.key = s, !.refresh = refresh, !.loaded = follows])
  /\ Unchanged

\* hydrate_years, which loads all subjects at once, and hydrate_snapshots.
AskBatch(r, kind, ids) ==
  /\ Free(r) /\ ids # {}
  /\ kind = "snapshots" => "detail" \in Caps
  /\ Become(r, [Asked(kind, "next") EXCEPT
                  !.todo = ids, !.loaded = IF kind = "years" THEN follows ELSE Nothing])
  /\ Unchanged

-----------------------------------------------------------------------------
(* The batches: one subject after the other                                  *)

\* The subject is through: its year or snapshot is there, or it is unresolved.
Through(q, s) == [q EXCEPT !.pc = "next", !.key = Nothing, !.todo = @ \ {s},
                           !.cached = Nothing, !.entry = Nothing, !.refresh = FALSE]

Loaded(q) == IF q.loaded = Nothing THEN follows ELSE q.loaded

\* The detail of one subject of a batch, after the selection of the provider:
\* if it is not registered any more, the snapshot is all there is.
TryDetail(q, s, registered) ==
  IF ~registered THEN Through(q, s)
  ELSE IF s \notin Recognised THEN Refused(q, "unsupported")
  ELSE [q EXCEPT !.pc = "lookup", !.key = s, !.loaded = Loaded(q),
                 !.refresh = q.kind = "snapshots" /\ ~row[s].poster]

TryDetailForYear(q, s, registered) ==
  IF "detail" \in Caps THEN TryDetail(q, s, registered) ELSE Through(q, s)

NextYear(r, s) ==
  /\ req[r].pc = "next" /\ req[r].kind = "years" /\ s \in req[r].todo
  /\ \E registered \in BOOLEAN :
       Become(r, IF row[s].year THEN Through(req[r], s)
                 ELSE IF "search" \in Caps /\ s \in Recognised
                 THEN [req[r] EXCEPT !.pc = "searching", !.key = s]
                 ELSE TryDetailForYear(req[r], s, registered))
  /\ Unchanged

\* _hydrate_year_from_search finds an item one of whose ids, in whatever
\* namespace, has the value of the id looked for: if it is an item of another
\* subject, that one gets the year that is answered for this one.
YearFound(r, other) ==
  /\ req[r].pc = "searching"
  /\ Become(r, [Through(req[r], req[r].key) EXCEPT !.loaded = Nothing])
  /\ row' = IF other THEN row ELSE [row EXCEPT ![req[r].key].year = TRUE]
  /\ UNCHANGED <<now, follows, cache>>

\* No such item, or any failure, which is swallowed.
YearNotFound(r) ==
  /\ req[r].pc = "searching"
  /\ \E rolledback, registered \in BOOLEAN :
       Become(r, TryDetailForYear([req[r] EXCEPT !.loaded = IF rolledback THEN Nothing ELSE @],
                                  req[r].key, registered))
  /\ Unchanged

NextSnapshot(r, s) ==
  /\ req[r].pc = "next" /\ req[r].kind = "snapshots" /\ s \in req[r].todo
  /\ \E registered \in BOOLEAN :
       Become(r, IF (row[s].year /\ row[s].poster) \/ s \notin Recognised
                 THEN Through(req[r], s) ELSE TryDetail(req[r], s, registered))
  /\ Unchanged

BatchEnds(r) ==
  /\ req[r].pc = "next" /\ req[r].todo = {}
  /\ Become(r, Ended(req[r], "ok", now, follows))
  /\ Unchanged

\* hydrate_snapshots goes on with the next subject, hydrate_years does not.
CaughtInBatch(q) == q.kind = "snapshots"

-----------------------------------------------------------------------------
(* The cache and the provider                                                *)

\* _is_usable_page_cache: an empty search is not an answer to reuse.
Usable(k, e) == e # Nothing /\ (k \in Searches => ~e.empty)

TtlOf(k) == IF k \in Queries THEN Ttl ELSE DetailTtl
FreshEnough(k, e) == now - e.at <= TtlOf(k)

\* Mutant: a cached answer shows the flags as they were stored.
FlagsStored(q, e) == e.flag

\* refresh_flags: a page reads the rows again; for a detail the session still
\* has the one it has loaded, unless a commit or rollback has expired it.
Flags(q, e) == IF q.key \in Queries THEN follows ELSE Loaded(q)

\* A detail inside a batch leads to the next subject, any other answer ends.
Deliver(q, outcome, at, flag) ==
  IF q.kind \in {"page", "detail"} THEN Ended(q, outcome, at, flag) ELSE Through(q, q.key)

\* Redis answers, has dropped the entry (catalog_stale_ttl_seconds), or fails,
\* which counts as a miss.
Lookup(r) ==
  /\ req[r].pc = "lookup"
  /\ \E e \in {cache[req[r].key], Nothing} :
       LET q == req[r]
           usable == Usable(q.key, e)
       IN Become(r, IF usable /\ ~q.refresh /\ FreshEnough(q.key, e)
                    THEN Deliver(q, "ok", e.at, Flags(q, e))
                    ELSE [q EXCEPT !.pc = "calling", !.cached = IF usable THEN e ELSE Nothing])
  /\ Unchanged

\* The provider answers and the items are committed, with a year and a poster
\* where it knows them.  An empty search is not stored.
ProviderAnswers(r, empty, known) ==
  /\ req[r].pc = "calling"
  /\ LET q == req[r]
         e == [at |-> now, flag |-> follows, empty |-> empty]
     IN /\ empty => q.key \in Queries
        /\ Become(r, IF q.key \in Searches /\ empty THEN Ended(q, "ok", now, follows)
                     ELSE [q EXCEPT !.pc = "storing", !.cached = Nothing, !.entry = e, !.loaded = follows])
        /\ row' = IF q.key \in Queries \/ ~known THEN row
                  ELSE [row EXCEPT ![q.key] = [year |-> TRUE, poster |-> TRUE]]
  /\ UNCHANGED <<now, follows, cache>>

\* The ids of an item belong to two subjects, or the plugin refuses the query.
ProviderConflicts(r) ==
  /\ req[r].pc = "calling"
  /\ Become(r, IF CaughtInBatch(req[r]) THEN Through(req[r], req[r].key)
               ELSE Refused(req[r], "conflict"))
  /\ Unchanged

\* Mutant: the stale answer is not marked.
DegradedNot == "ok"
Degraded == "degraded"

\* Anything else, the database included, is answered from the cache, or, for a
\* detail, from the row; a page without a usable entry is not available.
ProviderRaises(r) ==
  /\ req[r].pc = "calling"
  /\ LET q == [req[r] EXCEPT !.loaded = Nothing]
     IN Become(r, IF q.cached # Nothing THEN Deliver(q, Degraded, q.cached.at, Flags(q, q.cached))
                  ELSE IF q.key \in Queries THEN Refused(q, "unavailable")
                  ELSE Deliver(q, Degraded, now, follows))
  /\ Unchanged

\* SETEX is done, or fails without a word.
Store(r) ==
  /\ req[r].pc = "storing"
  /\ \E lost \in BOOLEAN :
       cache' = IF lost THEN cache ELSE [cache EXCEPT ![req[r].key] = req[r].entry]
  /\ Become(r, Deliver(req[r], "ok", req[r].entry.at, req[r].entry.flag))
  /\ UNCHANGED <<now, follows, row>>

-----------------------------------------------------------------------------
Tick ==
  /\ now < MaxNow
  /\ now' = now + 1
  /\ UNCHANGED <<follows, row, cache, req>>

\* set_followed, committed by a thread.
Follow ==
  /\ follows < MaxFollows
  /\ follows' = follows + 1
  /\ UNCHANGED <<now, row, cache, req>>

RequestStep(r) ==
  \/ \E k \in Queries, refresh \in BOOLEAN : AskPage(r, k, refresh)
  \/ \E s \in Works, refresh \in BOOLEAN : AskDetail(r, s, refresh)
  \/ \E kind \in {"years", "snapshots"}, ids \in SUBSET Works : AskBatch(r, kind, ids)
  \/ \E s \in Works : NextYear(r, s) \/ NextSnapshot(r, s)
  \/ BatchEnds(r) \/ Lookup(r) \/ YearNotFound(r)
  \/ \E other \in BOOLEAN : YearFound(r, other)
  \/ \E empty, known \in BOOLEAN : ProviderAnswers(r, empty, known)
  \/ ProviderConflicts(r) \/ ProviderRaises(r) \/ Store(r)

DiscoveryNext ==
  \/ \E r \in Browsers : Sent(r)
  \/ /\ \A r \in Browsers : req[r].pc # "done"
     /\ \/ \E r \in Browsers : RequestStep(r)
        \/ Tick \/ Follow

DiscoverySpec == DiscoveryInit /\ [][DiscoveryNext]_discoveryVars
-----------------------------------------------------------------------------
Entry == [at : Nat, flag : Nat, empty : BOOLEAN]
Request ==
  [kind : {"none", "page", "detail", "years", "snapshots"},
   pc : {"idle", "lookup", "calling", "storing", "next", "searching", "done"},
   key : CacheKeys \cup {Nothing}, todo : SUBSET Works, refresh : BOOLEAN, start : Nat, before : Nat,
   loaded : Nat \cup {Nothing}, cached : Entry \cup {Nothing}, entry : Entry \cup {Nothing},
   outcome : {"none", "ok", "degraded", "unsupported", "conflict", "unavailable"},
   shown : [at : Nat, flag : Nat] \cup {Nothing}]

DiscoveryTypeOK ==
  /\ now \in Nat /\ follows \in Nat
  /\ row \in [Works -> [year : BOOLEAN, poster : BOOLEAN]]
  /\ cache \in [CacheKeys -> Entry \cup {Nothing}]
  /\ req \in [Browsers -> Request]

Answer(r) == req[r].shown
Shows(r) == req[r].pc = "done" /\ Answer(r) # Nothing

\* However old the cached answer is, and whatever other requests store in the
\* meantime, the flags shown are those of a moment of the request itself: a
\* user who has followed a subject never sees it unfollowed again.
FollowVisible == \A r \in Browsers : Shows(r) => Answer(r).flag >= req[r].before

\* An answer that is not marked as degraded is one the provider gave after the
\* request, if a refresh was asked for, and otherwise within the TTL before it,
\* also when a slow request has overwritten what a later one had stored.
Allowance(q) == IF q.refresh \/ q.key \notin CacheKeys THEN 0 ELSE TtlOf(q.key)
NotDegradedIsRecent ==
  \A r \in Browsers :
    Shows(r) /\ req[r].outcome = "ok" => Answer(r).at >= req[r].start - Allowance(req[r])

\* Refuted (docs/07, docs/02 ADR-023): a subject that cannot be completed does not
\* end the batch it is in.  hydrate_snapshots goes on with the next subject; in
\* hydrate_years one without an id of the provider, or in conflict, ends it.
YearsIsolated ==
  \A r \in Browsers :
    req[r].pc = "done" /\ req[r].kind \in {"years", "snapshots"} => req[r].outcome = "ok"

-----------------------------------------------------------------------------
(* The inductive invariant behind the first two: what a request has read,    *)
(* was answered or shows is of a moment of the request itself.               *)

AtWork(q) ==
  /\ q.pc \in {"lookup", "calling", "storing", "searching"} => q.key \in CacheKeys
  /\ q.pc = "searching" => q.key \in Works
  /\ q.pc = "storing" => q.entry \in Entry
  /\ q.pc = "next" => q.key = Nothing

OfItsTime(q) ==
  /\ q.start <= now /\ q.before <= follows
  /\ q.loaded # Nothing => q.loaded >= q.before
  /\ q.pc = "storing" => q.entry.flag >= q.before /\ q.entry.at >= q.start
  /\ q.pc = "done" /\ q.shown # Nothing =>
       /\ q.shown.flag >= q.before
       /\ q.outcome = "ok" => q.shown.at >= q.start - Allowance(q)

RequestsSound == \A r \in Browsers : AtWork(req[r]) /\ OfItsTime(req[r])
=============================================================================

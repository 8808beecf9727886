------------------------ MODULE MediaDiscoveryProofs ------------------------
(* Proofs about MediaDiscovery, for any number of requests, pages, subjects  *)
(* and decisions and any time to live: the types, the flags that an answer   *)
(* shows, and the age of an answer that is not degraded.                     *)
EXTENDS MediaDiscovery, TLAPS

Sound(q) == q \in Request /\ AtWork(q) /\ OfItsTime(q)

DiscoveryInv == DiscoveryTypeOK /\ RequestsSound

-----------------------------------------------------------------------------
(* The records that a step makes of a request                                *)

LEMMA AllowanceIsNat ==
  ASSUME NEW q
  PROVE  Allowance(q) \in Nat
  BY DiscoveryAssumption DEF Allowance, TtlOf

LEMMA IdleSound ==
  ASSUME now \in Nat, follows \in Nat
  PROVE  Sound(Idle)
  BY DEF Sound, Idle, Request, AtWork, OfItsTime

LEMMA EndedSound ==
  ASSUME now \in Nat, follows \in Nat, NEW q, Sound(q), NEW outcome \in {"ok", "degraded"},
         NEW at \in Nat, NEW flag \in Nat, flag >= q.before,
         outcome = "ok" => at >= q.start - Allowance(q)
  PROVE  Sound(Ended(q, outcome, at, flag))
<1> DEFINE e == Ended(q, outcome, at, flag)
<1>1. /\ e \in Request /\ e.pc = "done" /\ e.outcome = outcome /\ e.entry = Nothing /\ e.loaded = Nothing
      /\ e.shown = [at |-> at, flag |-> flag] /\ e.start = q.start /\ e.before = q.before
      /\ e.refresh = q.refresh /\ e.key = q.key
  BY DEF Ended, Sound, Request
<1> HIDE DEF e
<1>2. e.shown.at = at /\ e.shown.flag = flag BY <1>1
<1>3. Allowance(e) = Allowance(q) BY <1>1 DEF Allowance
<1>4. AtWork(e) BY <1>1 DEF AtWork
<1>5. OfItsTime(e) BY <1>1, <1>2, <1>3 DEF OfItsTime, Sound
<1>6. Sound(e) BY <1>1, <1>4, <1>5 DEF Sound
<1> QED BY <1>6 DEF e

LEMMA RefusedSound ==
  ASSUME now \in Nat, follows \in Nat, NEW q, Sound(q),
         NEW outcome \in {"unsupported", "conflict", "unavailable"}
  PROVE  Sound(Refused(q, outcome))
<1> DEFINE e == Refused(q, outcome)
<1>1. /\ e \in Request /\ e.pc = "done" /\ e.shown = Nothing /\ e.entry = Nothing /\ e.loaded = Nothing
      /\ e.start = q.start /\ e.before = q.before
  BY DEF Refused, Sound, Request
<1> HIDE DEF e
<1>2. Sound(e) BY <1>1 DEF Sound, AtWork, OfItsTime
<1> QED BY <1>2 DEF e

LEMMA ThroughSound ==
  ASSUME now \in Nat, follows \in Nat, NEW q, Sound(q), NEW s
  PROVE  Sound(Through(q, s))
<1> DEFINE e == Through(q, s)
<1>1. /\ e \in Request /\ e.pc = "next" /\ e.key = Nothing /\ e.entry = Nothing /\ e.loaded = q.loaded
      /\ e.start = q.start /\ e.before = q.before
  BY DEF Through, Sound, Request
<1> HIDE DEF e
<1>2. Sound(e) BY <1>1 DEF Sound, AtWork, OfItsTime
<1> QED BY <1>2 DEF e

\* A request in the middle of its work keeps what it has read and remembers when
\* it began.
LEMMA WorkingSound ==
  ASSUME now \in Nat, follows \in Nat, NEW q, Sound(q), NEW e \in Request,
         e.start = q.start, e.before = q.before,
         e.loaded \in {Nothing, q.loaded, follows},
         e.pc = "storing" => e.entry.flag = follows /\ e.entry.at = now,
         e.pc \in {"lookup", "calling", "storing", "searching"}, AtWork(e)
  PROVE  Sound(e)
<1>1. OfItsTime(e) BY DEF OfItsTime, Sound
<1> QED BY <1>1 DEF Sound

LEMMA LoadedIsOfItsTime ==
  ASSUME follows \in Nat, NEW q, Sound(q)
  PROVE  Loaded(q) \in Nat /\ Loaded(q) >= q.before /\ Loaded(q) \in {q.loaded, follows}
  BY DEF Loaded, Sound, Request, OfItsTime

LEMMA DeliverSound ==
  ASSUME now \in Nat, follows \in Nat, NEW q, Sound(q), NEW outcome \in {"ok", "degraded"},
         NEW at \in Nat, NEW flag \in Nat, flag >= q.before,
         outcome = "ok" => at >= q.start - Allowance(q)
  PROVE  Sound(Deliver(q, outcome, at, flag))
<1>1. CASE q.kind \in {"page", "detail"} BY <1>1, EndedSound DEF Deliver
<1>2. CASE q.kind \notin {"page", "detail"} BY <1>2, ThroughSound DEF Deliver
<1> QED BY <1>1, <1>2

LEMMA TryDetailSound ==
  ASSUME now \in Nat, follows \in Nat, NEW q, Sound(q), NEW s \in Works,
         NEW registered \in BOOLEAN
  PROVE  Sound(TryDetail(q, s, registered)) /\ Sound(TryDetailForYear(q, s, registered))
<1> DEFINE refresh == q.kind = "snapshots" /\ ~row[s].poster
           e == [q EXCEPT !.pc = "lookup", !.key = s, !.loaded = Loaded(q), !.refresh = refresh]
<1>1. refresh \in BOOLEAN OBVIOUS
<1> HIDE DEF refresh
<1>2. s \in CacheKeys BY DEF CacheKeys
<1>3. /\ e \in Request /\ e.pc = "lookup" /\ e.key = s /\ e.loaded = Loaded(q) /\ e.entry = q.entry
      /\ e.start = q.start /\ e.before = q.before
  BY <1>1, <1>2, LoadedIsOfItsTime DEF Sound, Request
<1>4. Sound(e)
  <2> HIDE DEF e
  <2>1. AtWork(e) BY <1>2, <1>3 DEF AtWork
  <2>2. e.loaded \in {q.loaded, follows} BY <1>3, LoadedIsOfItsTime
  <2> QED BY <1>3, <2>1, <2>2, WorkingSound
<1>5. TryDetail(q, s, registered) \in {Through(q, s), Refused(q, "unsupported"), e}
  BY DEF TryDetail, refresh
<1> HIDE DEF e
<1>6. Sound(TryDetail(q, s, registered)) BY <1>4, <1>5, ThroughSound, RefusedSound
<1> QED BY <1>6, ThroughSound DEF TryDetailForYear

-----------------------------------------------------------------------------
(* The steps                                                                 *)

\* A request becomes a sound one, while clock and decisions stand still.
LEMMA BecomeSound ==
  ASSUME DiscoveryInv, NEW r \in Browsers, NEW new, Sound(new), Become(r, new),
         UNCHANGED <<now, follows>>,
         row' \in [Works -> [year : BOOLEAN, poster : BOOLEAN]],
         cache' \in [CacheKeys -> Entry \cup {Nothing}]
  PROVE  DiscoveryInv'
<1>1. req' = [req EXCEPT ![r] = new] /\ req \in [Browsers -> Request] /\ new \in Request
  BY DEF Become, Sound, DiscoveryInv, DiscoveryTypeOK
<1>2. DiscoveryTypeOK' BY <1>1 DEF DiscoveryInv, DiscoveryTypeOK
<1>3. \A p \in Browsers : Sound(req'[p])
  BY <1>1 DEF DiscoveryInv, RequestsSound, Sound
<1>4. ASSUME NEW p \in Browsers PROVE AtWork(req[p])' /\ OfItsTime(req[p])'
  <2>1. Sound(req'[p]) BY <1>3
  <2> QED BY <2>1 DEF Sound, AtWork, OfItsTime, Allowance, TtlOf
<1> QED BY <1>2, <1>4 DEF DiscoveryInv, RequestsSound

LEMMA TypesNow ==
  ASSUME DiscoveryInv
  PROVE  /\ now \in Nat /\ follows \in Nat
         /\ row \in [Works -> [year : BOOLEAN, poster : BOOLEAN]]
         /\ cache \in [CacheKeys -> Entry \cup {Nothing}]
         /\ \A r \in Browsers : Sound(req[r])
  BY DEF DiscoveryInv, DiscoveryTypeOK, RequestsSound, Sound

\* The steps that leave everything but the request alone.
LEMMA OnlyRequest ==
  ASSUME DiscoveryInv, NEW r \in Browsers, NEW new, Sound(new), Become(r, new),
         UNCHANGED <<now, follows, row, cache>>
  PROVE  DiscoveryInv'
  BY BecomeSound, TypesNow

LEMMA AskStep ==
  ASSUME DiscoveryInv, NEW r \in Browsers,
         \/ \E k \in Queries, refresh \in BOOLEAN : AskPage(r, k, refresh)
         \/ \E s \in Works, refresh \in BOOLEAN : AskDetail(r, s, refresh)
         \/ \E kind \in {"years", "snapshots"}, ids \in SUBSET Works : AskBatch(r, kind, ids)
  PROVE  DiscoveryInv'
<1> USE TypesNow
<1>1. ASSUME NEW kind \in {"page", "detail", "years", "snapshots"}, NEW pc \in {"lookup", "next"},
             NEW q, q = Asked(kind, pc)
      PROVE  /\ q \in Request /\ q.kind = kind /\ q.pc = pc /\ q.start = now /\ q.before = follows
             /\ q.loaded = Nothing /\ q.entry = Nothing /\ q.shown = Nothing /\ q.key = Nothing
  BY <1>1 DEF Asked, Idle, Request
<1>2. ASSUME NEW q \in Request, q.start = now, q.before = follows, q.loaded \in {Nothing, follows},
             q.entry = Nothing, q.shown = Nothing,
             \/ q.pc = "lookup" /\ q.key \in CacheKeys
             \/ q.pc = "next" /\ q.key = Nothing
      PROVE  Sound(q)
  BY <1>2 DEF Sound, AtWork, OfItsTime
<1>3. ASSUME NEW k \in Queries, NEW refresh \in BOOLEAN, AskPage(r, k, refresh)
      PROVE  DiscoveryInv'
  <2> DEFINE q == Asked("page", "lookup")
             e == [q EXCEPT !.key = k, !.refresh = refresh]
  <2>1. k \in CacheKeys BY DEF CacheKeys
  <2>2. /\ q \in Request /\ q.kind = "page" /\ q.pc = "lookup" /\ q.start = now /\ q.before = follows
        /\ q.loaded = Nothing /\ q.entry = Nothing /\ q.shown = Nothing
    BY <1>1
  <2>3. Become(r, e) /\ UNCHANGED <<now, follows, row, cache>> BY <1>3 DEF AskPage, Unchanged
  <2> HIDE DEF q
  <2>4. /\ e \in Request /\ e.start = now /\ e.before = follows /\ e.loaded = Nothing /\ e.entry = Nothing
        /\ e.shown = Nothing /\ e.pc = "lookup" /\ e.key = k
    BY <2>1, <2>2 DEF Request
  <2> HIDE DEF e
  <2>5. Sound(e) BY <2>1, <2>4, <1>2
  <2> QED BY <2>3, <2>5, OnlyRequest
<1>4. ASSUME NEW s \in Works, NEW refresh \in BOOLEAN, AskDetail(r, s, refresh)
      PROVE  DiscoveryInv'
  <2> DEFINE q == Asked("detail", "lookup")
             e == [q EXCEPT !.key = s, !.refresh = refresh, !.loaded = follows]
  <2>1. s \in CacheKeys BY DEF CacheKeys
  <2>2. /\ q \in Request /\ q.kind = "detail" /\ q.pc = "lookup" /\ q.start = now /\ q.before = follows
        /\ q.loaded = Nothing /\ q.entry = Nothing /\ q.shown = Nothing
    BY <1>1
  <2>3. Become(r, e) /\ UNCHANGED <<now, follows, row, cache>> BY <1>4 DEF AskDetail, Unchanged
  <2> HIDE DEF q
  <2>4. /\ e \in Request /\ e.start = now /\ e.before = follows /\ e.loaded = follows
        /\ e.entry = Nothing /\ e.shown = Nothing /\ e.pc = "lookup" /\ e.key = s
    BY <2>1, <2>2 DEF Request
  <2> HIDE DEF e
  <2>5. Sound(e) BY <2>1, <2>4, <1>2
  <2> QED BY <2>3, <2>5, OnlyRequest
<1>5. ASSUME NEW kind \in {"years", "snapshots"}, NEW ids \in SUBSET Works, AskBatch(r, kind, ids)
      PROVE  DiscoveryInv'
  <2> DEFINE q == Asked(kind, "next")
             loaded == IF kind = "years" THEN follows ELSE Nothing
             e == [q EXCEPT !.todo = ids, !.loaded = loaded]
  <2>1. loaded \in {Nothing, follows} OBVIOUS
  <2>2. /\ q \in Request /\ q.kind = kind /\ q.pc = "next" /\ q.start = now /\ q.before = follows
        /\ q.key = Nothing /\ q.entry = Nothing /\ q.shown = Nothing
    BY <1>1
  <2>3. Become(r, e) /\ UNCHANGED <<now, follows, row, cache>> BY <1>5 DEF AskBatch, Unchanged
  <2> HIDE DEF q, loaded
  <2>4. /\ e \in Request /\ e.start = now /\ e.before = follows /\ e.loaded = loaded
        /\ e.entry = Nothing /\ e.shown = Nothing /\ e.pc = "next" /\ e.key = Nothing
    BY <2>1, <2>2 DEF Request
  <2> HIDE DEF e
  <2>5. Sound(e) BY <2>1, <2>4, <1>2
  <2> QED BY <2>3, <2>5, OnlyRequest
<1> QED BY <1>3, <1>4, <1>5

LEMMA BatchStep ==
  ASSUME DiscoveryInv, NEW r \in Browsers,
         \/ \E s \in Works : NextYear(r, s) \/ NextSnapshot(r, s)
         \/ BatchEnds(r) \/ YearNotFound(r)
         \/ \E other \in BOOLEAN : YearFound(r, other)
  PROVE  DiscoveryInv'
<1> DEFINE q == req[r]
<1>0. /\ now \in Nat /\ follows \in Nat /\ Sound(q)
      /\ row \in [Works -> [year : BOOLEAN, poster : BOOLEAN]]
      /\ cache \in [CacheKeys -> Entry \cup {Nothing}]
  BY TypesNow
<1>1. ASSUME NEW s \in Works, NextYear(r, s) PROVE DiscoveryInv'
  <2> DEFINE e == [q EXCEPT !.pc = "searching", !.key = s]
  <2>1. PICK registered \in BOOLEAN :
          \/ Become(r, Through(q, s)) \/ Become(r, e) \/ Become(r, TryDetailForYear(q, s, registered))
    BY <1>1 DEF NextYear
  <2>2. UNCHANGED <<now, follows, row, cache>> BY <1>1 DEF NextYear, Unchanged
  <2>3. Sound(e)
    <3>1. s \in CacheKeys BY DEF CacheKeys
    <3>2. /\ e \in Request /\ e.pc = "searching" /\ e.key = s /\ e.loaded = q.loaded
          /\ e.entry = q.entry /\ e.start = q.start /\ e.before = q.before
      BY <1>0, <3>1 DEF Sound, Request
    <3> HIDE DEF e, q
    <3>3. AtWork(e) BY <3>1, <3>2 DEF AtWork
    <3> QED BY <1>0, <3>2, <3>3, WorkingSound
  <2>4. Sound(Through(q, s)) BY <1>0, ThroughSound
  <2>5. Sound(TryDetailForYear(q, s, registered)) BY <1>0, TryDetailSound
  <2> HIDE DEF q, e
  <2> QED BY <2>1, <2>2, <2>3, <2>4, <2>5, OnlyRequest
<1>2. ASSUME NEW s \in Works, NextSnapshot(r, s) PROVE DiscoveryInv'
  <2>1. PICK registered \in BOOLEAN :
          Become(r, Through(q, s)) \/ Become(r, TryDetail(q, s, registered))
    BY <1>2 DEF NextSnapshot
  <2>2. UNCHANGED <<now, follows, row, cache>> BY <1>2 DEF NextSnapshot, Unchanged
  <2>3. Sound(Through(q, s)) BY <1>0, ThroughSound
  <2>4. Sound(TryDetail(q, s, registered)) BY <1>0, TryDetailSound
  <2> HIDE DEF q
  <2> QED BY <2>1, <2>2, <2>3, <2>4, OnlyRequest
<1>3. CASE BatchEnds(r)
  <2>1. /\ Become(r, Ended(q, "ok", now, follows)) /\ UNCHANGED <<now, follows, row, cache>>
    BY <1>3 DEF BatchEnds, Unchanged
  <2>2. /\ follows >= q.before /\ now >= q.start - Allowance(q)
    <3>1. q.start \in Nat /\ q.before \in Nat /\ OfItsTime(q) BY <1>0 DEF Sound, Request
    <3> HIDE DEF q
    <3> QED BY <1>0, <3>1, AllowanceIsNat DEF OfItsTime
  <2>3. Sound(Ended(q, "ok", now, follows))
    <3> HIDE DEF q
    <3> QED BY <1>0, <2>2, EndedSound
  <2> QED BY <2>1, <2>3, OnlyRequest
<1>4. CASE YearNotFound(r)
  <2>1. PICK rolledback \in BOOLEAN, registered \in BOOLEAN :
          Become(r, TryDetailForYear([q EXCEPT !.loaded = IF rolledback THEN Nothing ELSE @],
                                     q.key, registered))
    BY <1>4 DEF YearNotFound
  <2>2. UNCHANGED <<now, follows, row, cache>> /\ q.pc = "searching"
    BY <1>4 DEF YearNotFound, Unchanged
  <2> DEFINE loaded == IF rolledback THEN Nothing ELSE q.loaded
             e == [q EXCEPT !.loaded = loaded]
  <2>3. loaded \in {Nothing, q.loaded} OBVIOUS
  <2>4. q.key \in Works /\ AtWork(q) BY <1>0, <2>2 DEF Sound, AtWork
  <2>5. e = [q EXCEPT !.loaded = IF rolledback THEN Nothing ELSE @] OBVIOUS
  <2>6. Sound(e)
    <3> HIDE DEF loaded
    <3>1. /\ e \in Request /\ e.pc = "searching" /\ e.key = q.key /\ e.loaded = loaded
          /\ e.entry = q.entry /\ e.start = q.start /\ e.before = q.before
      BY <1>0, <2>2, <2>3 DEF Sound, Request
    <3> HIDE DEF e, q
    <3>2. AtWork(e) BY <2>4, <3>1 DEF AtWork, CacheKeys
    <3> QED BY <1>0, <2>3, <3>1, <3>2, WorkingSound
  <2>7. Become(r, TryDetailForYear(e, q.key, registered)) BY <2>1, <2>5
  <2> HIDE DEF e
  <2>8. Sound(TryDetailForYear(e, q.key, registered)) BY <1>0, <2>4, <2>6, TryDetailSound
  <2> QED BY <2>2, <2>7, <2>8, OnlyRequest
<1>5. ASSUME NEW other \in BOOLEAN, YearFound(r, other) PROVE DiscoveryInv'
  <2> DEFINE t == Through(q, q.key)
             e == [t EXCEPT !.loaded = Nothing]
  <2>1. /\ Become(r, e) /\ UNCHANGED <<now, follows, cache>> /\ q.pc = "searching"
        /\ row' \in {row, [row EXCEPT ![q.key].year = TRUE]}
    BY <1>5 DEF YearFound
  <2>2. Sound(t) /\ t.pc = "next" /\ t.key = Nothing /\ t.entry = Nothing
    <3>1. t.pc = "next" /\ t.key = Nothing /\ t.entry = Nothing BY <1>0 DEF Through, Sound, Request
    <3> QED BY <1>0, <3>1, ThroughSound
  <2> HIDE DEF t
  <2>3. /\ e \in Request /\ e.pc = "next" /\ e.key = Nothing /\ e.entry = Nothing /\ e.loaded = Nothing
        /\ e.start = t.start /\ e.before = t.before
    BY <2>2 DEF Sound, Request
  <2> HIDE DEF e
  <2>4. Sound(e) BY <2>2, <2>3 DEF Sound, AtWork, OfItsTime
  <2>5. row' \in [Works -> [year : BOOLEAN, poster : BOOLEAN]] BY <1>0, <2>1
  <2> QED BY <1>0, <2>1, <2>4, <2>5, BecomeSound
<1> QED BY <1>1, <1>2, <1>3, <1>4, <1>5

LEMMA LookupStep ==
  ASSUME DiscoveryInv, NEW r \in Browsers, Lookup(r)
  PROVE  DiscoveryInv'
<1> DEFINE q == req[r]
<1>0. now \in Nat /\ follows \in Nat /\ Sound(q) /\ cache \in [CacheKeys -> Entry \cup {Nothing}]
  BY TypesNow
<1>1. q.pc = "lookup" /\ UNCHANGED <<now, follows, row, cache>> BY DEF Lookup, Unchanged
<1>2. q.key \in CacheKeys /\ OfItsTime(q) /\ q \in Request BY <1>0, <1>1 DEF Sound, AtWork
<1>3. PICK e \in {cache[q.key], Nothing} :
        Become(r, IF Usable(q.key, e) /\ ~q.refresh /\ FreshEnough(q.key, e)
                  THEN Deliver(q, "ok", e.at, Flags(q, e))
                  ELSE [q EXCEPT !.pc = "calling",
                                 !.cached = IF Usable(q.key, e) THEN e ELSE Nothing])
  BY DEF Lookup
<1>4. e \in Entry \cup {Nothing} BY <1>0, <1>2, <1>3
<1>5. CASE Usable(q.key, e) /\ ~q.refresh /\ FreshEnough(q.key, e)
  <2>1. e \in Entry BY <1>4, <1>5 DEF Usable
  <2>2. e.at \in Nat /\ e.flag \in Nat BY <2>1 DEF Entry
  <2>3. Flags(q, e) \in Nat /\ Flags(q, e) >= q.before
    <3> HIDE DEF q
    <3> QED BY <1>0, <1>2, LoadedIsOfItsTime DEF Flags, OfItsTime, Request
  <2>4. e.at >= q.start - Allowance(q)
    <3>1. now - e.at <= TtlOf(q.key) BY <1>5 DEF FreshEnough
    <3>2. Allowance(q) = TtlOf(q.key) BY <1>2, <1>5 DEF Allowance
    <3>3. TtlOf(q.key) \in Nat BY DiscoveryAssumption DEF TtlOf
    <3>4. q.start \in Nat /\ q.start <= now BY <1>2 DEF OfItsTime, Request
    <3> HIDE DEF q
    <3> QED BY <1>0, <2>2, <3>1, <3>2, <3>3, <3>4
  <2>5. Sound(Deliver(q, "ok", e.at, Flags(q, e)))
    <3> HIDE DEF q
    <3> QED BY <1>0, <2>2, <2>3, <2>4, DeliverSound
  <2> QED BY <1>1, <1>3, <1>5, <2>5, OnlyRequest
<1>6. CASE ~(Usable(q.key, e) /\ ~q.refresh /\ FreshEnough(q.key, e))
  <2> DEFINE cached == IF Usable(q.key, e) THEN e ELSE Nothing
             new == [q EXCEPT !.pc = "calling", !.cached = cached]
  <2>1. cached \in Entry \cup {Nothing} BY <1>4
  <2>2. Become(r, new) BY <1>3, <1>6
  <2> HIDE DEF cached
  <2>3. /\ new \in Request /\ new.pc = "calling" /\ new.key = q.key /\ new.loaded = q.loaded
        /\ new.entry = q.entry /\ new.start = q.start /\ new.before = q.before
    BY <1>2, <2>1 DEF Request
  <2> HIDE DEF new, q
  <2>4. AtWork(new) BY <1>2, <2>3 DEF AtWork
  <2>5. Sound(new) BY <1>0, <2>3, <2>4, WorkingSound
  <2> QED BY <1>1, <2>2, <2>5, OnlyRequest
<1> QED BY <1>5, <1>6

LEMMA ProviderStep ==
  ASSUME DiscoveryInv, NEW r \in Browsers,
         \/ \E empty, known \in BOOLEAN : ProviderAnswers(r, empty, known)
         \/ ProviderConflicts(r) \/ ProviderRaises(r)
  PROVE  DiscoveryInv'
<1> DEFINE q == req[r]
<1>0. /\ now \in Nat /\ follows \in Nat /\ Sound(q)
      /\ row \in [Works -> [year : BOOLEAN, poster : BOOLEAN]]
      /\ cache \in [CacheKeys -> Entry \cup {Nothing}]
  BY TypesNow
<1>1. q.pc = "calling" BY DEF ProviderAnswers, ProviderConflicts, ProviderRaises
<1>2. q.key \in CacheKeys /\ OfItsTime(q) /\ q \in Request BY <1>0, <1>1 DEF Sound, AtWork
<1>3. /\ follows >= q.before /\ now >= q.start - Allowance(q)
  <2>1. q.start \in Nat /\ q.before \in Nat BY <1>2 DEF Request
  <2> HIDE DEF q
  <2> QED BY <1>0, <1>2, <2>1, AllowanceIsNat DEF OfItsTime
<1>4. ASSUME NEW empty \in BOOLEAN, NEW known \in BOOLEAN, ProviderAnswers(r, empty, known)
      PROVE  DiscoveryInv'
  <2> DEFINE entry == [at |-> now, flag |-> follows, empty |-> empty]
             new == [q EXCEPT !.pc = "storing", !.cached = Nothing, !.entry = entry, !.loaded = follows]
             rowOf == [row EXCEPT ![q.key] = [year |-> TRUE, poster |-> TRUE]]
  <2>1. /\ Become(r, Ended(q, "ok", now, follows)) \/ Become(r, new)
        /\ row' \in {row, rowOf} /\ UNCHANGED <<now, follows, cache>>
    BY <1>4 DEF ProviderAnswers
  <2>2. entry \in Entry /\ entry.flag = follows /\ entry.at = now BY <1>0 DEF Entry
  <2>3. row' \in [Works -> [year : BOOLEAN, poster : BOOLEAN]]
    <3>1. [year |-> TRUE, poster |-> TRUE] \in [year : BOOLEAN, poster : BOOLEAN] OBVIOUS
    <3>2. rowOf \in [Works -> [year : BOOLEAN, poster : BOOLEAN]] BY <1>0, <3>1
    <3> QED BY <1>0, <2>1, <3>2
  <2>4. Sound(Ended(q, "ok", now, follows))
    <3> HIDE DEF q
    <3> QED BY <1>0, <1>3, EndedSound
  <2>5. Sound(new)
    <3> HIDE DEF entry
    <3>1. /\ new \in Request /\ new.pc = "storing" /\ new.key = q.key /\ new.loaded = follows
          /\ new.entry = entry /\ new.start = q.start /\ new.before = q.before
      BY <1>0, <1>2, <2>2 DEF Request
    <3> HIDE DEF new, q
    <3>2. AtWork(new) BY <1>2, <2>2, <3>1 DEF AtWork
    <3> QED BY <1>0, <2>2, <3>1, <3>2, WorkingSound
  <2> HIDE DEF new, q, rowOf
  <2> QED BY <1>0, <2>1, <2>3, <2>4, <2>5, BecomeSound
<1>5. CASE ProviderConflicts(r)
  <2>1. /\ Become(r, Through(q, q.key)) \/ Become(r, Refused(q, "conflict"))
        /\ UNCHANGED <<now, follows, row, cache>>
    BY <1>5 DEF ProviderConflicts, Unchanged
  <2>2. Sound(Through(q, q.key)) /\ Sound(Refused(q, "conflict"))
    <3> HIDE DEF q
    <3> QED BY <1>0, ThroughSound, RefusedSound
  <2> HIDE DEF q
  <2> QED BY <2>1, <2>2, OnlyRequest
<1>6. CASE ProviderRaises(r)
  <2> DEFINE e == [q EXCEPT !.loaded = Nothing]
  <2>1. /\ \/ e.cached # Nothing /\ Become(r, Deliver(e, Degraded, e.cached.at, Flags(e, e.cached)))
           \/ Become(r, Refused(e, "unavailable"))
           \/ Become(r, Deliver(e, Degraded, now, follows))
        /\ UNCHANGED <<now, follows, row, cache>>
    BY <1>6 DEF ProviderRaises, Unchanged
  <2>2. /\ e \in Request /\ e.pc = "calling" /\ e.key = q.key /\ e.loaded = Nothing
        /\ e.entry = q.entry /\ e.start = q.start /\ e.before = q.before
    BY <1>1, <1>2 DEF Request
  <2> HIDE DEF e, q
  <2>3. AtWork(e) BY <1>2, <2>2 DEF AtWork
  <2>4. Sound(e) BY <1>0, <2>2, <2>3, WorkingSound
  <2>5. Sound(Refused(e, "unavailable")) BY <1>0, <2>4, RefusedSound
  <2>6. Sound(Deliver(e, Degraded, now, follows))
    BY <1>0, <1>3, <2>2, <2>4, DeliverSound DEF Degraded
  <2>7. ASSUME e.cached # Nothing
        PROVE  Sound(Deliver(e, Degraded, e.cached.at, Flags(e, e.cached)))
    <3>1. e.cached.at \in Nat BY <2>2, <2>7 DEF Request, Entry
    <3>2. Flags(e, e.cached) = follows BY <2>2 DEF Flags, Loaded
    <3> QED BY <1>0, <1>3, <2>2, <2>4, <3>1, <3>2, DeliverSound DEF Degraded
  <2> QED BY <2>1, <2>5, <2>6, <2>7, OnlyRequest
<1> QED BY <1>4, <1>5, <1>6

LEMMA StoreStep ==
  ASSUME DiscoveryInv, NEW r \in Browsers, Store(r)
  PROVE  DiscoveryInv'
<1> DEFINE q == req[r]
<1>0. /\ now \in Nat /\ follows \in Nat /\ Sound(q)
      /\ row \in [Works -> [year : BOOLEAN, poster : BOOLEAN]]
      /\ cache \in [CacheKeys -> Entry \cup {Nothing}]
  BY TypesNow
<1>1. /\ q.pc = "storing" /\ UNCHANGED <<now, follows, row>>
      /\ cache' \in {cache, [cache EXCEPT ![q.key] = q.entry]}
      /\ Become(r, Deliver(q, "ok", q.entry.at, q.entry.flag))
  BY DEF Store
<1>2. q.key \in CacheKeys /\ q.entry \in Entry /\ OfItsTime(q) /\ q \in Request
  BY <1>0, <1>1 DEF Sound, AtWork
<1>3. q.start \in Nat BY <1>2 DEF Request
<1>4. q.entry.at \in Nat /\ q.entry.flag \in Nat BY <1>2 DEF Entry
<1>5. cache' \in [CacheKeys -> Entry \cup {Nothing}] BY <1>0, <1>1, <1>2
<1> HIDE DEF q
<1>6. q.entry.flag >= q.before /\ q.entry.at >= q.start - Allowance(q)
  BY <1>1, <1>2, <1>3, <1>4, AllowanceIsNat DEF OfItsTime
<1>7. Sound(Deliver(q, "ok", q.entry.at, q.entry.flag)) BY <1>0, <1>4, <1>6, DeliverSound
<1> QED BY <1>0, <1>1, <1>5, <1>7, BecomeSound

\* The clock and the decisions only go up.
LEMMA ClockStep ==
  ASSUME DiscoveryInv, Tick \/ Follow
  PROVE  DiscoveryInv'
<1>1. /\ now \in Nat /\ follows \in Nat /\ now' \in {now, now + 1} /\ follows' \in {follows, follows + 1}
      /\ UNCHANGED <<row, cache, req>>
  BY TypesNow DEF Tick, Follow
<1>2. DiscoveryTypeOK' BY <1>1 DEF DiscoveryInv, DiscoveryTypeOK
<1>3. ASSUME NEW p \in Browsers PROVE AtWork(req[p])' /\ OfItsTime(req[p])'
  <2>1. AtWork(req[p]) /\ OfItsTime(req[p]) /\ req[p].start \in Nat /\ req[p].before \in Nat
    BY DEF DiscoveryInv, DiscoveryTypeOK, RequestsSound, Request
  <2> QED BY <1>1, <2>1 DEF AtWork, OfItsTime, Allowance, TtlOf
<1> QED BY <1>2, <1>3 DEF DiscoveryInv, RequestsSound

-----------------------------------------------------------------------------
(* The theorems                                                              *)

LEMMA DiscoveryInitial ==
  ASSUME DiscoveryInit
  PROVE  DiscoveryInv
<1>1. now = 0 /\ follows = 0 BY DEF DiscoveryInit
<1>2. Sound(Idle) BY <1>1, IdleSound
<1>3. /\ row \in [Works -> [year : BOOLEAN, poster : BOOLEAN]]
      /\ cache \in [CacheKeys -> Entry \cup {Nothing}]
  BY DEF DiscoveryInit
<1>4. req = [r \in Browsers |-> Idle] BY DEF DiscoveryInit
<1> QED BY <1>1, <1>2, <1>3, <1>4 DEF DiscoveryInv, DiscoveryTypeOK, RequestsSound, Sound

LEMMA DiscoveryStep ==
  ASSUME DiscoveryInv, [DiscoveryNext]_discoveryVars
  PROVE  DiscoveryInv'
<1>1. CASE UNCHANGED discoveryVars
  BY <1>1 DEF discoveryVars, DiscoveryInv, DiscoveryTypeOK, RequestsSound, AtWork, OfItsTime,
              Allowance, TtlOf
<1>2. ASSUME NEW r \in Browsers, Sent(r) PROVE DiscoveryInv'
  <2>1. Become(r, Idle) /\ UNCHANGED <<now, follows, row, cache>> BY <1>2 DEF Sent, Become
  <2> QED BY <2>1, IdleSound, TypesNow, OnlyRequest
<1>3. ASSUME NEW r \in Browsers, RequestStep(r) PROVE DiscoveryInv'
  BY <1>3, AskStep, BatchStep, LookupStep, ProviderStep, StoreStep DEF RequestStep
<1>4. CASE Tick \/ Follow BY <1>4, ClockStep
<1> QED BY <1>1, <1>2, <1>3, <1>4 DEF DiscoveryNext

LEMMA DiscoveryAlways ==
  DiscoverySpec => []DiscoveryInv
<1>1. DiscoveryInit => DiscoveryInv BY DiscoveryInitial
<1>2. DiscoveryInv /\ [DiscoveryNext]_discoveryVars => DiscoveryInv' BY DiscoveryStep
<1> QED BY <1>1, <1>2, PTL DEF DiscoverySpec

\* Rows, cache and requests keep their types.
THEOREM TypeCorrect ==
  DiscoverySpec => []DiscoveryTypeOK
<1>1. DiscoveryInv => DiscoveryTypeOK BY DEF DiscoveryInv
<1> QED BY <1>1, DiscoveryAlways, PTL

\* Whether it comes from the provider, from the cache or, degraded, from the row,
\* and however requests, batches and decisions interleave: an answer never shows
\* a decision of the user older than the request (refresh_flags).
THEOREM FollowVisibleCorrect ==
  DiscoverySpec => []FollowVisible
<1>1. DiscoveryInv => FollowVisible
  BY DEF DiscoveryInv, RequestsSound, OfItsTime, FollowVisible, Shows, Answer
<1> QED BY <1>1, DiscoveryAlways, PTL

\* An answer that is not marked as degraded is one of the provider, given after
\* the request if a refresh was asked for and within the time to live before it
\* otherwise, whatever slower requests have put into the cache.
THEOREM NotDegradedIsRecentCorrect ==
  DiscoverySpec => []NotDegradedIsRecent
<1>1. DiscoveryInv => NotDegradedIsRecent
  BY DEF DiscoveryInv, RequestsSound, OfItsTime, NotDegradedIsRecent, Shows, Answer
<1> QED BY <1>1, DiscoveryAlways, PTL
=============================================================================

------------------------ MODULE MediaIdentityProofs ------------------------
(* Proofs about MediaIdentity: types, and that identities, the flags of the  *)
(* followers and the cursor of the watchlist survive every interleaving.     *)
(*                                                                           *)
(* A step is one of five kinds: it gives transactions up (Resets), moves one *)
(* without writing (Moves), writes in one (Write), commits one (Commit), or  *)
(* is a follower's.  Each part of the invariant is shown kind by kind.       *)
EXTENDS MediaIdentity, FiniteSetTheorems, TLAPS

-----------------------------------------------------------------------------
(* Partial functions                                                         *)

LEMMA PartialIn ==
  ASSUME NEW A, NEW B, NEW f \in Partial(A, B)
  PROVE  /\ DOMAIN f \subseteq A
         /\ \A x \in DOMAIN f : f[x] \in B
  BY DEF Partial

LEMMA PartialMade ==
  ASSUME NEW A, NEW B, NEW D \in SUBSET A, NEW f \in [D -> B]
  PROVE  f \in Partial(A, B)
  BY DEF Partial

LEMMA PartialEmpty ==
  ASSUME NEW A, NEW B
  PROVE  <<>> \in Partial(A, B) /\ DOMAIN <<>> = {}
<1>1. <<>> \in [{} -> B] BY SMT
<1>2. {} \in SUBSET A OBVIOUS
<1>3. <<>> \in Partial(A, B) BY <1>1, <1>2, Zenon DEF Partial
<1>4. DOMAIN <<>> = {} BY SMT
<1> QED BY <1>3, <1>4

LEMMA OverDomain ==
  ASSUME NEW f, NEW g
  PROVE  DOMAIN Over(f, g) = DOMAIN f \cup DOMAIN g
  BY DEF Over

LEMMA OverValue ==
  ASSUME NEW f, NEW g, NEW x \in DOMAIN f \cup DOMAIN g
  PROVE  Over(f, g)[x] = IF x \in DOMAIN f THEN f[x] ELSE g[x]
  BY DEF Over

LEMMA OverPartial ==
  ASSUME NEW A, NEW B, NEW f \in Partial(A, B), NEW g \in Partial(A, B)
  PROVE  Over(f, g) \in Partial(A, B)
<1>1. DOMAIN f \cup DOMAIN g \in SUBSET A BY PartialIn
<1>2. Over(f, g) \in [DOMAIN f \cup DOMAIN g -> B] BY PartialIn DEF Over
<1> QED BY <1>1, <1>2, PartialMade

\* Nothing is ever taken from a function or changed in it.
Grown(f, g) == DOMAIN f \subseteq DOMAIN g /\ \A x \in DOMAIN f : g[x] = f[x]

-----------------------------------------------------------------------------
(* Types                                                                     *)

LEMMA IdsTyped == \A i \in Items : Ids(i) \subseteq AllIds
  BY DEF AllIds

LEMMA OwnIdIn ==
  ASSUME NEW i
  PROVE  OwnId(i) \in Ids(i)
<1>1. i.provider \in DOMAIN IdMap(i) /\ IdMap(i)[i.provider] = i.own
  BY DEF IdMap, Given, Over
<1> QED BY <1>1 DEF Ids, OwnId

LEMMA NoTxTyped == NoTx \in TxType
<1>1. /\ <<>> \in Partial(AllIds, Subjects) /\ <<>> \in Partial(Subjects, RowType)
      /\ <<>> \in Partial(Subjects, SUBSET DOMAIN New) /\ <<>> \in Partial(Keys, Subjects)
  BY PartialEmpty
<1>2. <<>> \in Seq(Items) OBVIOUS
<1>3. 0 \in 0..Len(Feed) BY MediaAssumption
<1>4. {} \in SUBSET Items /\ {} \in SUBSET AllIds OBVIOUS
<1> QED BY <1>1, <1>2, <1>3, <1>4 DEF NoTx, TxType

LEMMA NoTxEmpty ==
  /\ NoTx.pc = "idle" /\ NoTx.kind = "none" /\ NoTx.todo = <<>> /\ NoTx.done = {}
  /\ NoTx.from = 0 /\ NoTx.next = 0 /\ DOMAIN NoTx.ids = {} /\ DOMAIN NoTx.rows = {}
  /\ DOMAIN NoTx.changed = {} /\ DOMAIN NoTx.entries = {}
  BY PartialEmpty DEF NoTx

LEMMA TypeInit == Init => IdentityTypeOK
<1> SUFFICES ASSUME Init PROVE IdentityTypeOK OBVIOUS
<1>1. /\ <<>> \in Partial(AllIds, Subjects) /\ <<>> \in Partial(Subjects, RowType)
      /\ <<>> \in Partial(Keys, Subjects)
  BY PartialEmpty
<1>2. NoFollow \in [id : 0..MaxSubjects, want : BOOLEAN, loaded : BOOLEAN]
  BY MediaAssumption DEF NoFollow
<1> QED BY <1>1, <1>2, NoTxTyped DEF Init, IdentityTypeOK, Absent

-----------------------------------------------------------------------------
(* What the steps do, field by field                                         *)

\* The transaction of s becomes t, the others stay.
Becomes(s, t) == /\ tx'[s] = t
                 /\ \A r \in Others(s) : tx'[r] = tx[r]
                 /\ tx' \in [Sessions -> TxType]

LEMMA BecomesBy ==
  ASSUME IdentityTypeOK, NEW s \in Sessions, NEW t \in TxType, tx' = [tx EXCEPT ![s] = t]
  PROVE  Becomes(s, t)
  BY DEF IdentityTypeOK, Becomes, Others

\* What a transaction has written so far.
SameWrites(t, o) ==
  /\ t.ids = o.ids /\ t.rows = o.rows /\ t.changed = o.changed
  /\ t.entries = o.entries /\ t.done = o.done

LEMMA StartPageFields ==
  ASSUME IdentityTypeOK, NEW s \in Sessions, NEW page \in Pages, StartPage(s, page)
  PROVE  \E t \in TxType :
           /\ Becomes(s, t) /\ SameWrites(t, tx[s]) /\ t.pc = "read" /\ t.kind = "page"
<1> DEFINE t == [NoTx EXCEPT !.pc = "read", !.kind = "page", !.todo = page]
<1>1. page \in Seq(Items)
  <2>1. ItemsOf(page) \subseteq Items BY DEF Items
  <2>2. page \in Seq(ItemsOf(page)) BY MediaAssumption
  <2> QED BY <2>1, <2>2
<1>2. t \in TxType BY <1>1, NoTxTyped DEF TxType
<1>3. tx[s] = NoTx /\ tx' = [tx EXCEPT ![s] = t] BY DEF StartPage
<1>4. SameWrites(t, tx[s]) /\ t.pc = "read" /\ t.kind = "page"
  BY <1>3, NoTxTyped DEF SameWrites, TxType
<1>5. Becomes(s, t) BY <1>2, <1>3, BecomesBy
<1> QED BY <1>2, <1>4, <1>5

LEMMA StartSyncFields ==
  ASSUME IdentityTypeOK, NEW s \in Sessions, StartSync(s)
  PROVE  \E t \in TxType :
           /\ Becomes(s, t) /\ SameWrites(t, tx[s]) /\ tx[s] = NoTx
           /\ t.pc \in {"insert", "pull"} /\ t.kind = "sync"
           /\ t.from = cursor \/ t.from = 0
<1> DEFINE from == IF cursor = Absent THEN 0 ELSE cursor
           pc == IF cursor = Absent THEN "insert" ELSE "pull"
           t == [NoTx EXCEPT !.kind = "sync", !.pc = pc, !.from = from]
<1>1. from \in 0..Len(Feed) /\ (from = cursor \/ from = 0) /\ pc \in {"insert", "pull"}
  BY MediaAssumption DEF IdentityTypeOK
<1>2. tx[s] = NoTx /\ tx' = [tx EXCEPT ![s] = t] BY DEF StartSync
<1> HIDE DEF from, pc
<1>3. t \in TxType BY <1>1, NoTxTyped DEF TxType
<1>4. /\ SameWrites(t, tx[s]) /\ t.pc \in {"insert", "pull"} /\ t.kind = "sync"
      /\ t.from = from
  BY <1>1, <1>2, NoTxTyped DEF SameWrites, TxType
<1>5. Becomes(s, t) BY <1>2, <1>3, BecomesBy
<1> QED BY <1>1, <1>2, <1>3, <1>4, <1>5

LEMMA InsertStateFields ==
  ASSUME IdentityTypeOK, NEW s \in Sessions, InsertState(s), cursor = Absent
  PROVE  \E t \in TxType :
           /\ Becomes(s, t) /\ SameWrites(t, tx[s]) /\ tx[s].pc = "insert"
           /\ t.pc = "pull" /\ t.kind = tx[s].kind /\ t.from = tx[s].from
<1> DEFINE t == [tx[s] EXCEPT !.pc = "pull", !.state = TRUE]
<1>1. tx[s] \in TxType BY DEF IdentityTypeOK
<1>2. t \in TxType BY <1>1 DEF TxType
<1>3. tx' = [tx EXCEPT ![s] = t] BY DEF InsertState
<1>4. SameWrites(t, tx[s]) /\ t.pc = "pull" /\ t.kind = tx[s].kind /\ t.from = tx[s].from
  BY <1>1 DEF SameWrites, TxType
<1>5. Becomes(s, t) BY <1>2, <1>3, BecomesBy
<1> QED BY <1>2, <1>4, <1>5 DEF InsertState

LEMMA FeedItems == Feed \in Seq(Items) /\ ItemsOf(Feed) \subseteq Items
<1>1. ItemsOf(Feed) \subseteq Items BY DEF Items
<1> QED BY <1>1, MediaAssumption

LEMMA PartOfFeed ==
  ASSUME NEW from \in 0..Len(Feed), NEW to \in 0..Len(Feed), from <= to
  PROVE  LET part == SubSeq(Feed, from + 1, to) IN
           /\ part \in Seq(ItemsOf(Feed)) /\ Len(part) = to - from
           /\ \A k \in 1..Len(part) : part[k] = Feed[from + k]
<1> DEFINE part == SubSeq(Feed, from + 1, to)
<1>1. Feed \in Seq(ItemsOf(Feed)) BY MediaAssumption
<1>2. part = [k \in 1..(to - from) |-> Feed[from + k]] BY <1>1
<1>3. \A k \in 1..(to - from) : Feed[from + k] \in ItemsOf(Feed) BY <1>1 DEF ItemsOf
<1>4. to - from \in Nat OBVIOUS
<1> HIDE DEF part
<1>5. part \in Seq(ItemsOf(Feed)) /\ Len(part) = to - from BY <1>2, <1>3, <1>4
<1> QED BY <1>2, <1>5 DEF part

LEMMA PullFields ==
  ASSUME IdentityTypeOK, NEW s \in Sessions, Pull(s)
  PROVE  \E t \in TxType :
           /\ Becomes(s, t) /\ SameWrites(t, tx[s]) /\ tx[s].pc = "pull"
           /\ t.pc = "read" /\ t.kind = tx[s].kind /\ t.from = tx[s].from
           /\ t.todo \in Seq(ItemsOf(Feed))
           /\ t.next # 0 =>
                /\ t.next - Len(t.todo) = t.from
                /\ \A k \in 1..Len(t.todo) : t.todo[k] = Feed[t.from + k]
<1>1. tx[s] \in TxType BY DEF IdentityTypeOK
<1>2. tx[s].pc = "pull" BY DEF Pull
<1>3. PICK to \in tx[s].from..Len(Feed) :
        \E next \in {to} \cup IF to = Len(Feed) THEN {0} ELSE {} :
          tx' = [tx EXCEPT ![s].pc = "read", ![s].next = next,
                           ![s].todo = SubSeq(Feed, tx[s].from + 1, to)]
  BY DEF Pull
<1>4. PICK next \in {to} \cup IF to = Len(Feed) THEN {0} ELSE {} :
          tx' = [tx EXCEPT ![s].pc = "read", ![s].next = next,
                           ![s].todo = SubSeq(Feed, tx[s].from + 1, to)]
  BY <1>3
<1> DEFINE from == tx[s].from
           todo == SubSeq(Feed, from + 1, to)
           t == [tx[s] EXCEPT !.pc = "read", !.next = next, !.todo = todo]
<1>5. /\ from \in 0..Len(Feed) /\ to \in 0..Len(Feed) /\ from <= to
      /\ next \in {0, to} /\ next \in 0..Len(Feed)
  BY <1>1, <1>4, MediaAssumption DEF TxType
<1>6. /\ todo \in Seq(ItemsOf(Feed)) /\ Len(todo) = to - from
      /\ \A k \in 1..Len(todo) : todo[k] = Feed[from + k]
  BY <1>5, PartOfFeed
<1>61. todo \in Seq(Items) BY <1>6, FeedItems
<1>7. tx' = [tx EXCEPT ![s] = t] BY <1>4
<1> HIDE DEF todo
<1>8. t \in TxType BY <1>1, <1>5, <1>61 DEF TxType
<1>9. /\ SameWrites(t, tx[s]) /\ t.pc = "read" /\ t.kind = tx[s].kind
      /\ t.from = tx[s].from /\ t.todo = todo /\ t.next = next
  BY <1>1 DEF SameWrites, TxType
<1>10. Becomes(s, t) BY <1>7, <1>8, BecomesBy
<1>11. t.next # 0 =>
        /\ t.next - Len(t.todo) = t.from
        /\ \A k \in 1..Len(t.todo) : t.todo[k] = Feed[t.from + k]
  BY <1>5, <1>6, <1>9
<1> HIDE DEF t
<1> QED BY <1>2, <1>6, <1>8, <1>9, <1>10, <1>11

LEMMA SeenTyped ==
  ASSUME IdentityTypeOK, NEW s \in Sessions
  PROVE  Seen(s) \in Partial(AllIds, Subjects)
  BY OverPartial DEF IdentityTypeOK, TxType, Seen

LEMMA RowTyped ==
  ASSUME IdentityTypeOK, NEW s \in Sessions, NEW x \in DOMAIN subject \cup DOMAIN tx[s].rows
  PROVE  Row(s, x) \in RowType
<1>1. Over(tx[s].rows, subject) \in Partial(Subjects, RowType)
  BY OverPartial DEF IdentityTypeOK, TxType
<1>2. x \in DOMAIN Over(tx[s].rows, subject) BY OverDomain
<1> QED BY <1>1, <1>2, PartialIn DEF Row

LEMMA SeenLeads ==
  ASSUME IdentityTypeOK, IdsLead, NEW s \in Sessions, NEW id \in DOMAIN Seen(s)
  PROVE  Seen(s)[id] \in DOMAIN subject \cup DOMAIN tx[s].rows
<1>1. id \in DOMAIN tx[s].ids \cup DOMAIN extid BY OverDomain DEF Seen
<1>2. Seen(s)[id] = IF id \in DOMAIN tx[s].ids THEN tx[s].ids[id] ELSE extid[id]
  BY <1>1, OverValue DEF Seen
<1> QED BY <1>1, <1>2 DEF IdsLead

LEMMA MatchIdsFields ==
  ASSUME IdentityTypeOK, IdsLead, NEW s \in Sessions, MatchIds(s)
  PROVE  \E t \in TxType :
           /\ Becomes(s, t) /\ SameWrites(t, tx[s]) /\ tx[s].pc = "read" /\ tx[s].todo # <<>>
           /\ t.pc = "write" /\ t.kind = tx[s].kind /\ t.from = tx[s].from
           /\ t.next = tx[s].next /\ t.todo = tx[s].todo
           /\ t.known = Ids(Item(s)) \cap DOMAIN Seen(s)
           /\ DOMAIN t.loaded \subseteq DOMAIN subject \cup DOMAIN tx[s].rows
           /\ \A x \in DOMAIN t.loaded : t.loaded[x] = Row(s, x)
           /\ \A x \in DOMAIN t.loaded, id \in t.known : Seen(s)[id] = x
<1> DEFINE known == Ids(Item(s)) \cap DOMAIN Seen(s)
           loaded == [x \in Matching(s) |-> Row(s, x)]
           t == [tx[s] EXCEPT !.pc = "write", !.known = known, !.loaded = loaded]
<1>1. tx[s] \in TxType BY DEF IdentityTypeOK
<1>2. tx[s].pc = "read" /\ tx[s].todo # <<>> /\ Cardinality(Matching(s)) <= 1
  BY DEF MatchIds
<1>3. Item(s) \in Items BY <1>1, <1>2 DEF Item, TxType
<1>4. known \in SUBSET AllIds BY <1>3, IdsTyped
<1>5. Matching(s) \subseteq Subjects
  BY SeenTyped, PartialIn DEF Matching
<1>6. Matching(s) \subseteq DOMAIN subject \cup DOMAIN tx[s].rows
  BY SeenLeads DEF Matching
<1>7. loaded \in [Matching(s) -> RowType] BY <1>6, RowTyped
<1>8. loaded \in Partial(Subjects, RowType) BY <1>5, <1>7, PartialMade
<1>9. \A x, y \in Matching(s) : x = y
  <2>1. IsFiniteSet(Subjects) BY MediaAssumption, FS_Interval DEF Subjects
  <2>2. IsFiniteSet(Matching(s)) BY <2>1, <1>5, FS_Subset
  <2> SUFFICES ASSUME NEW x \in Matching(s), NEW y \in Matching(s), x # y PROVE FALSE
    OBVIOUS
  <2>3. IsFiniteSet(Matching(s) \ {x}) /\ Cardinality(Matching(s) \ {x}) = Cardinality(Matching(s)) - 1
    BY <2>2, FS_RemoveElement
  <2>4. Cardinality(Matching(s) \ {x}) \in Nat /\ Cardinality(Matching(s) \ {x}) # 0
    BY <2>3, FS_CardinalityType, FS_EmptySet
  <2>5. Cardinality(Matching(s)) \in Nat BY <2>2, FS_CardinalityType
  <2> QED BY <1>2, <2>3, <2>4, <2>5
<1>10. \A id \in known : Seen(s)[id] \in Matching(s) BY DEF Matching
<1>11. DOMAIN loaded = Matching(s) /\ \A x \in Matching(s) : loaded[x] = Row(s, x)
  OBVIOUS
<1>12. tx' = [tx EXCEPT ![s] = t] BY DEF MatchIds
<1> HIDE DEF known, loaded
<1>13. t \in TxType BY <1>1, <1>4, <1>8 DEF TxType
<1>14. /\ SameWrites(t, tx[s]) /\ t.pc = "write" /\ t.kind = tx[s].kind
       /\ t.from = tx[s].from /\ t.next = tx[s].next /\ t.todo = tx[s].todo
       /\ t.known = known /\ t.loaded = loaded
  BY <1>1 DEF SameWrites, TxType
<1>15. Becomes(s, t) BY <1>12, <1>13, BecomesBy
<1>16. \A x \in DOMAIN loaded, id \in known : Seen(s)[id] = x BY <1>9, <1>10, <1>11
<1>17. known = Ids(Item(s)) \cap DOMAIN Seen(s) BY DEF known
<1> HIDE DEF t
<1> QED BY <1>2, <1>6, <1>11, <1>13, <1>14, <1>15, <1>16, <1>17

\* What Write does when nothing is refused.
Writes(s, x) ==
  /\ tx[s].pc = "write" /\ x \in Target(s)
  /\ NewIds(s) \cap HeldIds(s) = {} /\ x \notin HeldRows(s)
  /\ RefusedIds(s, NewIds(s)) = {}
  /\ tx' = [tx EXCEPT ![s] = Written(s, x)] /\ Quiet

LEMMA OverOne ==
  ASSUME NEW A, NEW B, NEW D \in SUBSET A, NEW v \in B, NEW f \in Partial(A, B)
  PROVE  Over([a \in D |-> v], f) \in Partial(A, B)
<1>1. [a \in D |-> v] \in [D -> B] OBVIOUS
<1>2. [a \in D |-> v] \in Partial(A, B) BY <1>1, PartialMade
<1> QED BY <1>2, OverPartial

LEMMA TargetFacts ==
  ASSUME IdentityTypeOK, IdsLead, LookedUp, NEW s \in Sessions, tx[s].pc = "write",
         NEW x \in Target(s)
  PROVE  /\ x \in Subjects
         /\ Fresh(s) => x \notin DOMAIN subject /\ \A r \in Sessions : x \notin DOMAIN tx[r].rows
         /\ ~Fresh(s) => /\ x \in DOMAIN tx[s].loaded
                         /\ x \in DOMAIN subject \cup DOMAIN tx[s].rows
<1>1. tx[s] \in TxType BY DEF IdentityTypeOK
<1>2. CASE Fresh(s)
  BY <1>2 DEF Target, NextUnused, Unused
<1>3. CASE ~Fresh(s)
  <2>1. x \in DOMAIN tx[s].loaded /\ tx[s].known # {} BY <1>3 DEF Target, Fresh
  <2>2. x \in Subjects BY <1>1, <2>1, PartialIn DEF TxType
  <2>3. PICK id \in tx[s].known : id \in DOMAIN Seen(s) /\ Seen(s)[id] = x
    BY <2>1 DEF LookedUp
  <2> QED BY <1>3, <2>1, <2>2, <2>3, SeenLeads
<1> QED BY <1>2, <1>3

LEMMA NewRowFacts ==
  ASSUME IdentityTypeOK, LookedUp, NEW s \in Sessions, tx[s].pc = "write",
         NEW x \in Target(s)
  PROVE  /\ Old(s, x) \in RowType /\ NewRow(s, x) \in RowType
         /\ NewRow(s, x).followed = Old(s, x).followed
         /\ NewRow(s, x).listed = (Old(s, x).listed \/ tx[s].kind = "sync")
         /\ Item(s) \in Items
<1>1. tx[s] \in TxType BY DEF IdentityTypeOK
<1>2. Item(s) \in Items BY <1>1 DEF LookedUp, Item, TxType
<1>3. New \in RowType BY DEF New, RowType
<1>4. ~Fresh(s) => tx[s].loaded[x] \in RowType
  BY <1>1, PartialIn DEF TxType, Target
<1>5. Old(s, x) \in RowType BY <1>3, <1>4 DEF Old
<1> DEFINE old == Old(s, x)
<1>6. old \in RowType BY <1>5
<1> HIDE DEF old
<1>7. /\ Snapshot(s, old) \in RowType /\ Snapshot(s, old).followed = old.followed
      /\ Snapshot(s, old).listed = (old.listed \/ tx[s].kind = "sync")
  BY <1>2, <1>6 DEF Snapshot, RowType
<1> QED BY <1>2, <1>5, <1>7 DEF NewRow, old

LEMMA WrittenTyped ==
  ASSUME IdentityTypeOK, IdsLead, LookedUp, NEW s \in Sessions, tx[s].pc = "write",
         NEW x \in Target(s)
  PROVE  LET t == Written(s, x) IN
         /\ t \in TxType /\ t.pc = "read" /\ t.kind = tx[s].kind /\ t.from = tx[s].from
         /\ t.next = tx[s].next /\ t.todo = Tail(tx[s].todo)
         /\ t.done = tx[s].done \cup {Item(s)}
         /\ t.ids = Over([id \in NewIds(s) |-> x], tx[s].ids)
         /\ t.rows = Over([y \in {x} |-> NewRow(s, x)], tx[s].rows)
         /\ t.changed = Over([y \in {x} |-> Columns(s, x)], tx[s].changed)
         /\ t.entries = Over([key \in NewKeys(s, x) |-> x], tx[s].entries)
<1> DEFINE ids == Over([id \in NewIds(s) |-> x], tx[s].ids)
           rows == Over([y \in {x} |-> NewRow(s, x)], tx[s].rows)
           changed == Over([y \in {x} |-> Columns(s, x)], tx[s].changed)
           entries == Over([key \in NewKeys(s, x) |-> x], tx[s].entries)
           todo == Tail(tx[s].todo)
           done == tx[s].done \cup {Item(s)}
           t == [tx[s] EXCEPT !.pc = "read", !.todo = todo, !.done = done,
                              !.known = {}, !.loaded = <<>>, !.ids = ids, !.rows = rows,
                              !.changed = changed, !.entries = entries]
<1>1. tx[s] \in TxType BY DEF IdentityTypeOK
<1>2. x \in Subjects BY TargetFacts
<1>3. Item(s) \in Items /\ NewRow(s, x) \in RowType BY NewRowFacts
<1>4. NewIds(s) \in SUBSET AllIds BY <1>3, IdsTyped DEF NewIds
<1>5. {x} \in SUBSET Subjects BY <1>2
<1>6. NewKeys(s, x) \in SUBSET Keys
  <2>1. RecordKey(Item(s), x) \in Keys BY <1>2, <1>3 DEF RecordKey, Keys
  <2> QED BY <2>1 DEF NewKeys
<1>7. Columns(s, x) \in SUBSET DOMAIN New
  <2>1. tx[s].changed \in Partial(Subjects, SUBSET DOMAIN New) BY <1>1 DEF TxType
  <2>2. x \in DOMAIN tx[s].changed => tx[s].changed[x] \in SUBSET DOMAIN New
    BY <2>1, PartialIn
  <2>3. Changed(Old(s, x), NewRow(s, x)) \in SUBSET DOMAIN New BY DEF Changed, New
  <2> QED BY <2>2, <2>3 DEF Columns
<1>8. ids \in Partial(AllIds, Subjects) BY <1>1, <1>2, <1>4, OverOne DEF TxType
<1>9. rows \in Partial(Subjects, RowType) BY <1>1, <1>3, <1>5, OverOne DEF TxType
<1>10. changed \in Partial(Subjects, SUBSET DOMAIN New)
  BY <1>1, <1>5, <1>7, OverOne DEF TxType
<1>11. entries \in Partial(Keys, Subjects) BY <1>1, <1>2, <1>6, OverOne DEF TxType
<1>12. todo \in Seq(Items) BY <1>1 DEF LookedUp, TxType
<1>13. done \in SUBSET Items BY <1>1, <1>3 DEF TxType
<1>14. <<>> \in Partial(Subjects, RowType) BY PartialEmpty
<1>15. Written(s, x) = t BY DEF Written
<1> HIDE DEF ids, rows, changed, entries, todo, done
<1>16. t \in TxType
  BY <1>1, <1>8, <1>9, <1>10, <1>11, <1>12, <1>13, <1>14 DEF TxType
<1>17. /\ t.pc = "read" /\ t.kind = tx[s].kind /\ t.from = tx[s].from
       /\ t.next = tx[s].next /\ t.todo = todo /\ t.done = done /\ t.ids = ids
       /\ t.rows = rows /\ t.changed = changed /\ t.entries = entries
  BY <1>1 DEF TxType
<1> HIDE DEF t
<1> QED BY <1>15, <1>16, <1>17 DEF ids, rows, changed, entries, todo, done

\* What Commit leaves of a row.
LEMMA MergedFacts ==
  ASSUME IdentityTypeOK, NEW s \in Sessions
  PROVE  /\ DOMAIN Merged(s) = DOMAIN subject \cup DOMAIN tx[s].rows
         /\ Merged(s) \in Partial(Subjects, RowType)
         /\ \A x \in DOMAIN subject \ DOMAIN tx[s].rows : Merged(s)[x] = subject[x]
         /\ \A x \in DOMAIN tx[s].rows \ DOMAIN subject : Merged(s)[x] = tx[s].rows[x]
         /\ \A x \in DOMAIN subject \cap DOMAIN tx[s].rows :
              \A column \in {"followed", "listed"} :
                Merged(s)[x][column] = IF column \in tx[s].changed[x] THEN tx[s].rows[x][column]
                                                                    ELSE subject[x][column]
<1> DEFINE mix(x) == [column \in DOMAIN New |-> IF column \in tx[s].changed[x]
                                     THEN tx[s].rows[x][column] ELSE subject[x][column]]
           rows == tx[s].rows
<1>1. /\ rows \in Partial(Subjects, RowType) /\ subject \in Partial(Subjects, RowType)
  BY DEF IdentityTypeOK, TxType
<1>2. /\ DOMAIN rows \subseteq Subjects /\ DOMAIN subject \subseteq Subjects
      /\ \A x \in DOMAIN rows : rows[x] \in RowType
      /\ \A x \in DOMAIN subject : subject[x] \in RowType
  BY <1>1, PartialIn
<1>3. DOMAIN New = {"year", "followed", "listed"} BY DEF New
<1>4. \A x \in DOMAIN subject \cap DOMAIN rows : mix(x) \in RowType
  BY <1>2, <1>3 DEF RowType
<1>5. \A x \in DOMAIN subject \cap DOMAIN rows : \A column \in {"followed", "listed"} :
        mix(x)[column] = IF column \in tx[s].changed[x] THEN rows[x][column]
                                                        ELSE subject[x][column]
  BY <1>3
<1>6. Merged(s) = [x \in DOMAIN subject \cup DOMAIN rows |->
                     IF x \notin DOMAIN rows THEN subject[x]
                     ELSE IF x \notin DOMAIN subject THEN rows[x] ELSE mix(x)]
  BY DEF Merged
<1> HIDE DEF mix, rows
<1>7. Merged(s) \in [DOMAIN subject \cup DOMAIN rows -> RowType]
  BY <1>2, <1>4, <1>6
<1>8. Merged(s) \in Partial(Subjects, RowType)
  BY <1>2, <1>7, PartialMade
<1>9. /\ \A x \in DOMAIN subject \ DOMAIN rows : Merged(s)[x] = subject[x]
      /\ \A x \in DOMAIN rows \ DOMAIN subject : Merged(s)[x] = rows[x]
      /\ \A x \in DOMAIN subject \cap DOMAIN rows : Merged(s)[x] = mix(x)
  BY <1>6
<1> QED BY <1>5, <1>7, <1>8, <1>9 DEF rows

-----------------------------------------------------------------------------
(* The kinds of steps                                                        *)

\* Some transactions are given up, or nothing happens that the identities and
\* the watchlist depend on.
Resets ==
  /\ UNCHANGED <<extid, subject, entry, kept>> /\ cursor' \in {cursor, 0}
  /\ tx' \in [Sessions -> TxType] /\ \A t \in Sessions : tx'[t] \in {tx[t], NoTx}

\* The transaction of s goes on without a write.
Moves(s, t) == t \in TxType /\ Becomes(s, t) /\ SameWrites(t, tx[s]) /\ UNCHANGED <<tables, kept>>

Opens(s, t) == t.pc = "read" /\ t.kind = "page"
Starts(s, t) ==
  t.pc \in {"insert", "pull"} /\ t.kind = "sync" /\ tx[s] = NoTx /\ t.from \in {cursor, 0}
Inserts(s, t) ==
  t.pc = "pull" /\ tx[s].pc = "insert" /\ t.kind = tx[s].kind /\ t.from = tx[s].from
Pulls(s, t) ==
  /\ tx[s].pc = "pull" /\ t.pc = "read" /\ t.kind = tx[s].kind /\ t.from = tx[s].from
  /\ t.todo \in Seq(ItemsOf(Feed))
  /\ t.next # 0 =>
       /\ t.next - Len(t.todo) = t.from
       /\ \A k \in 1..Len(t.todo) : t.todo[k] = Feed[t.from + k]
LooksUp(s, t) ==
  /\ tx[s].pc = "read" /\ tx[s].todo # <<>>
  /\ t.pc = "write" /\ t.kind = tx[s].kind /\ t.from = tx[s].from
  /\ t.next = tx[s].next /\ t.todo = tx[s].todo
  /\ t.known = Ids(Item(s)) \cap DOMAIN Seen(s)
  /\ DOMAIN t.loaded \subseteq DOMAIN subject \cup DOMAIN tx[s].rows
  /\ \A x \in DOMAIN t.loaded : t.loaded[x] = Row(s, x)
  /\ \A x \in DOMAIN t.loaded, id \in t.known : Seen(s)[id] = x

Moved ==
  \E s \in Sessions, t \in TxType :
    Moves(s, t) /\ (Opens(s, t) \/ Starts(s, t) \/ Inserts(s, t) \/ Pulls(s, t) \/ LooksUp(s, t))

LEMMA ResetBy ==
  ASSUME IdentityTypeOK, UNCHANGED <<extid, subject, entry, kept>>, cursor' \in {cursor, 0},
         NEW S \in SUBSET Sessions, tx' = [t \in Sessions |-> IF t \in S THEN NoTx ELSE tx[t]]
  PROVE  Resets
  BY NoTxTyped DEF Resets, IdentityTypeOK

LEMMA ResetOne ==
  ASSUME IdentityTypeOK, UNCHANGED <<extid, subject, entry, kept>>, cursor' \in {cursor, 0},
         NEW s \in Sessions, tx' = [tx EXCEPT ![s] = NoTx]
  PROVE  Resets
  BY NoTxTyped DEF Resets, IdentityTypeOK

LEMMA FailedResets ==
  ASSUME IdentityTypeOK, NEW s \in Sessions, Failed(s)
  PROVE  Resets
<1>1. cursor' \in {cursor, 0} BY DEF Failed
<1> QED BY <1>1, ResetOne DEF Failed

LEMMA StepKinds ==
  ASSUME IdentityTypeOK, IdsLead, [Next]_vars
  PROVE  \/ Resets \/ Moved
         \/ \E s \in Sessions : \E x \in Target(s) : Writes(s, x)
         \/ \E s \in Sessions : Commit(s)
         \/ \E u \in Followers : CommitFollow(u)
<1>1. CASE UNCHANGED vars
  BY <1>1 DEF vars, tables, Resets, IdentityTypeOK
<1>2. ASSUME NEW s \in Sessions, SessionStep(s)
      PROVE  Resets \/ Moved \/ (\E x \in Target(s) : Writes(s, x)) \/ Commit(s)
  <2>1. ASSUME NEW page \in Pages, StartPage(s, page) PROVE Moved
    <3>1. UNCHANGED <<tables, kept>> BY <2>1 DEF StartPage, Quiet
    <3> QED BY <2>1, <3>1, StartPageFields DEF Moved, Moves, Opens
  <2>2. CASE StartSync(s)
    <3>1. UNCHANGED <<tables, kept>> BY <2>2 DEF StartSync, Quiet
    <3> QED BY <2>2, <3>1, StartSyncFields DEF Moved, Moves, Starts
  <2>3. CASE InsertState(s) /\ cursor = Absent
    <3>1. UNCHANGED <<tables, kept>> BY <2>3 DEF InsertState, Quiet
    <3> QED BY <2>3, <3>1, InsertStateFields DEF Moved, Moves, Inserts
  <2>4. CASE InsertState(s) /\ cursor # Absent
    <3>1. UNCHANGED <<tables, kept>> BY <2>4 DEF InsertState, Quiet
    <3>2. tx' = [tx EXCEPT ![s] = NoTx] BY <2>4 DEF InsertState
    <3> QED BY <3>1, <3>2, ResetOne DEF tables
  <2>5. CASE Pull(s)
    <3>1. UNCHANGED <<tables, kept>> BY <2>5 DEF Pull, Quiet
    <3> QED BY <2>5, <3>1, PullFields DEF Moved, Moves, Pulls
  <2>6. CASE MatchIds(s)
    <3>1. UNCHANGED <<tables, kept>> BY <2>6 DEF MatchIds, Quiet
    <3> QED BY <2>6, <3>1, MatchIdsFields DEF Moved, Moves, LooksUp
  <2>7. CASE IdentityConflict(s) \/ DatabaseFails(s) \/ ProviderFails(s)
    BY <2>7, FailedResets DEF IdentityConflict, DatabaseFails, ProviderFails
  <2>8. CASE Write(s)
    <3>1. PICK x \in Target(s) :
            /\ NewIds(s) \cap HeldIds(s) = {} /\ x \notin HeldRows(s)
            /\ IF RefusedIds(s, NewIds(s)) # {} THEN Failed(s)
               ELSE tx' = [tx EXCEPT ![s] = Written(s, x)] /\ Quiet
      BY <2>8 DEF Write
    <3>2. CASE RefusedIds(s, NewIds(s)) # {} BY <3>1, <3>2, FailedResets
    <3>3. CASE RefusedIds(s, NewIds(s)) = {} BY <2>8, <3>1, <3>3 DEF Writes, Write
    <3> QED BY <3>2, <3>3
  <2> QED BY <1>2, <2>1, <2>2, <2>3, <2>4, <2>5, <2>6, <2>7, <2>8 DEF SessionStep
<1>3. ASSUME NEW u \in Followers, FollowStep(u) PROVE Resets \/ CommitFollow(u)
  <2>1. ASSUME NEW x \in Subjects, NEW want \in BOOLEAN, ReadFollow(u, x, want) PROVE Resets
    BY <2>1 DEF ReadFollow, tables, Resets, IdentityTypeOK
  <2> QED BY <1>3, <2>1 DEF FollowStep
<1>4. CASE ApiStops
  <2>1. Requests \in SUBSET Sessions BY DEF Sessions
  <2>2. UNCHANGED <<tables, kept>> /\ tx' = [s \in Sessions |-> IF s \in Requests THEN NoTx ELSE tx[s]]
    BY <1>4 DEF ApiStops
  <2> QED BY <2>1, <2>2, ResetBy DEF tables
<1>5. CASE WorkerStops
  <2>1. Worker \in Sessions BY DEF Sessions
  <2> QED BY <1>5, <2>1, ResetOne DEF WorkerStops, Quiet, tables
<1> QED BY <1>1, <1>2, <1>3, <1>4, <1>5 DEF Next

LEMMA WritesFields ==
  ASSUME IdentityTypeOK, IdsLead, LookedUp, NEW s \in Sessions, NEW x \in Target(s), Writes(s, x)
  PROVE  /\ Becomes(s, Written(s, x)) /\ UNCHANGED <<tables, kept>>
         /\ tx[s].pc = "write" /\ Item(s) \in Items
<1>1. tx[s].pc = "write" BY DEF Writes
<1>2. Written(s, x) \in TxType BY <1>1, WrittenTyped
<1>3. tx' = [tx EXCEPT ![s] = Written(s, x)] BY DEF Writes
<1>4. Becomes(s, Written(s, x)) BY <1>2, <1>3, BecomesBy
<1>5. UNCHANGED <<tables, kept>> BY DEF Writes, Quiet
<1>6. Item(s) \in Items BY <1>1, NewRowFacts
<1> QED BY <1>1, <1>4, <1>5, <1>6

LEMMA CommitFields ==
  ASSUME IdentityTypeOK, NEW s \in Sessions, Commit(s)
  PROVE  /\ Becomes(s, NoTx) /\ tx[s].pc = "read" /\ tx[s].todo = <<>>
         /\ extid' = Seen(s) /\ subject' = Merged(s)
         /\ entry' = Over(tx[s].entries, entry) /\ kept' = kept \cup tx[s].done
         /\ cursor' = cursor \/ (tx[s].kind # "page" /\ cursor' = tx[s].next)
<1>1. tx' = [tx EXCEPT ![s] = NoTx] BY DEF Commit
<1>2. Becomes(s, NoTx) BY <1>1, NoTxTyped, BecomesBy
<1> QED BY <1>2 DEF Commit, NextCursor

\* A follower writes nothing but the flag.
LEMMA CommitFollowFields ==
  ASSUME IdentityTypeOK, NEW u \in Followers, CommitFollow(u)
  PROVE  /\ UNCHANGED <<extid, entry, cursor, tx, kept>>
         /\ DOMAIN subject' = DOMAIN subject /\ subject' \in Partial(Subjects, RowType)
         /\ \A x \in DOMAIN subject : subject'[x].listed = subject[x].listed
         /\ \A x \in DOMAIN subject : subject'[x].followed # subject[x].followed =>
              fol[u].id = x /\ fol'[u] = NoFollow /\ fol[u].want = subject'[x].followed
<1> DEFINE x == fol[u].id
           want == fol[u].want
           row == [subject[x] EXCEPT !.followed = want]
<1>1. /\ subject \in Partial(Subjects, RowType)
      /\ subject \in [DOMAIN subject -> RowType] /\ DOMAIN subject \in SUBSET Subjects
  BY PartialIn DEF IdentityTypeOK, Partial
<1>2. want \in BOOLEAN /\ fol' = [fol EXCEPT ![u] = NoFollow] /\ fol'[u] = NoFollow
  BY DEF IdentityTypeOK, CommitFollow
<1>3. subject' = subject \/ subject' = [subject EXCEPT ![x] = row]
  BY DEF CommitFollow
<1> HIDE DEF x, want
<1>4. x \in DOMAIN subject =>
        row \in RowType /\ row.followed = want /\ row.listed = subject[x].listed
  BY <1>1, <1>2 DEF RowType
<1> HIDE DEF row
<1>5. subject' \in [DOMAIN subject -> RowType] BY <1>1, <1>3, <1>4
<1>6. subject' \in Partial(Subjects, RowType) BY <1>1, <1>5, PartialMade
<1>7. \A y \in DOMAIN subject : subject'[y] = subject[y] \/ (y = x /\ subject'[y] = row)
  BY <1>1, <1>3
<1> QED BY <1>2, <1>4, <1>5, <1>6, <1>7 DEF CommitFollow, x, want

LEMMA FolTyped ==
  ASSUME IdentityTypeOK, [Next]_vars
  PROVE  fol' \in [Followers -> [id : 0..MaxSubjects, want : BOOLEAN, loaded : BOOLEAN]]
<1> DEFINE Request == [id : 0..MaxSubjects, want : BOOLEAN, loaded : BOOLEAN]
<1>1. NoFollow \in Request BY MediaAssumption DEF NoFollow
<1>2. ASSUME NEW u \in Followers, FollowStep(u) PROVE fol' \in [Followers -> Request]
  <2>1. ASSUME NEW x \in Subjects, NEW want \in BOOLEAN, ReadFollow(u, x, want)
        PROVE  fol' \in [Followers -> Request]
    <3>1. subject[x] \in RowType
      BY <2>1, PartialIn DEF ReadFollow, IdentityTypeOK
    <3>2. [id |-> x, want |-> want, loaded |-> subject[x].followed] \in Request
      BY <3>1, MediaAssumption DEF RowType, Subjects
    <3> QED BY <2>1, <3>2 DEF ReadFollow, IdentityTypeOK
  <2>2. CASE CommitFollow(u) BY <1>1, <2>2 DEF CommitFollow, IdentityTypeOK
  <2> QED BY <1>2, <2>1, <2>2 DEF FollowStep
<1>3. ASSUME NEW s \in Sessions, SessionStep(s) PROVE fol' = fol
  BY <1>3 DEF SessionStep, StartPage, StartSync, InsertState, Pull, MatchIds, IdentityConflict,
              Write, Commit, DatabaseFails, ProviderFails, Failed, Quiet
<1>4. CASE ApiStops BY <1>1, <1>4 DEF ApiStops
<1>5. CASE WorkerStops \/ UNCHANGED vars BY <1>5 DEF WorkerStops, Quiet, vars, IdentityTypeOK
<1> QED BY <1>2, <1>3, <1>4, <1>5 DEF Next, IdentityTypeOK

LEMMA TypeStep ==
  ASSUME IdentityTypeOK, IdsLead, LookedUp, [Next]_vars
  PROVE  IdentityTypeOK'
<1> DEFINE Tables == /\ extid \in Partial(AllIds, Subjects) /\ subject \in Partial(Subjects, RowType)
                     /\ entry \in Partial(Keys, Subjects)
                     /\ cursor \in {Absent} \cup 0..Len(Feed) /\ kept \subseteq Items
<1>1. Tables /\ 0 \in 0..Len(Feed) BY MediaAssumption DEF IdentityTypeOK
<1>2. CASE Resets BY <1>1, <1>2, FolTyped DEF Resets, IdentityTypeOK
<1>3. CASE Moved
  BY <1>1, <1>3, FolTyped DEF Moved, Moves, Becomes, tables, IdentityTypeOK
<1>4. ASSUME NEW s \in Sessions, NEW x \in Target(s), Writes(s, x) PROVE IdentityTypeOK'
  BY <1>1, <1>4, WritesFields, FolTyped DEF Becomes, tables, IdentityTypeOK
<1>5. ASSUME NEW s \in Sessions, Commit(s) PROVE IdentityTypeOK'
  <2>1. tx[s] \in TxType BY DEF IdentityTypeOK
  <2>2. extid' \in Partial(AllIds, Subjects) BY <1>5, CommitFields, SeenTyped
  <2>3. subject' \in Partial(Subjects, RowType) BY <1>5, CommitFields, MergedFacts
  <2>4. entry' \in Partial(Keys, Subjects)
    BY <1>1, <1>5, <2>1, CommitFields, OverPartial DEF TxType
  <2>5. cursor' \in {Absent} \cup 0..Len(Feed) BY <1>1, <1>5, <2>1, CommitFields DEF TxType
  <2>6. kept' \subseteq Items BY <1>1, <1>5, <2>1, CommitFields DEF TxType
  <2>7. tx' \in [Sessions -> TxType] BY <1>5, CommitFields DEF Becomes
  <2> QED BY <2>2, <2>3, <2>4, <2>5, <2>6, <2>7, FolTyped DEF IdentityTypeOK
<1>6. ASSUME NEW u \in Followers, CommitFollow(u) PROVE IdentityTypeOK'
  BY <1>1, <1>6, CommitFollowFields, FolTyped DEF IdentityTypeOK
<1> QED BY <1>2, <1>3, <1>4, <1>5, <1>6, StepKinds

-----------------------------------------------------------------------------
(* What is written, and by whom                                              *)

\* What the write of x adds to what s has written.
LEMMA WrittenParts ==
  ASSUME IdentityTypeOK, IdsLead, LookedUp, NEW s \in Sessions, NEW x \in Target(s),
         tx[s].pc = "write"
  PROVE  LET t == Written(s, x) IN
         /\ DOMAIN t.ids = NewIds(s) \cup DOMAIN tx[s].ids
         /\ NewIds(s) \cap DOMAIN tx[s].ids = {}
         /\ \A id \in NewIds(s) : t.ids[id] = x
         /\ \A id \in DOMAIN tx[s].ids : t.ids[id] = tx[s].ids[id]
         /\ DOMAIN t.rows = {x} \cup DOMAIN tx[s].rows /\ t.rows[x] = NewRow(s, x)
         /\ \A y \in DOMAIN tx[s].rows \ {x} : t.rows[y] = tx[s].rows[y]
         /\ DOMAIN t.changed = {x} \cup DOMAIN tx[s].changed /\ t.changed[x] = Columns(s, x)
         /\ \A y \in DOMAIN tx[s].changed \ {x} : t.changed[y] = tx[s].changed[y]
         /\ DOMAIN t.entries = NewKeys(s, x) \cup DOMAIN tx[s].entries
         /\ \A key \in NewKeys(s, x) : t.entries[key] = x
         /\ \A key \in DOMAIN tx[s].entries \ NewKeys(s, x) : t.entries[key] = tx[s].entries[key]
<1> DEFINE t == Written(s, x)
<1>1. NewIds(s) \cap DOMAIN tx[s].ids = {} BY DEF LookedUp, NewIds
<1>2. /\ t.ids = Over([id \in NewIds(s) |-> x], tx[s].ids)
      /\ t.rows = Over([y \in {x} |-> NewRow(s, x)], tx[s].rows)
      /\ t.changed = Over([y \in {x} |-> Columns(s, x)], tx[s].changed)
      /\ t.entries = Over([key \in NewKeys(s, x) |-> x], tx[s].entries)
  BY WrittenTyped
<1> HIDE DEF t
<1>3. /\ DOMAIN t.ids = NewIds(s) \cup DOMAIN tx[s].ids
      /\ \A id \in NewIds(s) : t.ids[id] = x
      /\ \A id \in DOMAIN tx[s].ids \ NewIds(s) : t.ids[id] = tx[s].ids[id]
  BY <1>2 DEF Over
<1>4. /\ DOMAIN t.rows = {x} \cup DOMAIN tx[s].rows /\ t.rows[x] = NewRow(s, x)
      /\ \A y \in DOMAIN tx[s].rows \ {x} : t.rows[y] = tx[s].rows[y]
  BY <1>2 DEF Over
<1>5. /\ DOMAIN t.changed = {x} \cup DOMAIN tx[s].changed /\ t.changed[x] = Columns(s, x)
      /\ \A y \in DOMAIN tx[s].changed \ {x} : t.changed[y] = tx[s].changed[y]
  BY <1>2 DEF Over
<1>6. /\ DOMAIN t.entries = NewKeys(s, x) \cup DOMAIN tx[s].entries
      /\ \A key \in NewKeys(s, x) : t.entries[key] = x
      /\ \A key \in DOMAIN tx[s].entries \ NewKeys(s, x) : t.entries[key] = tx[s].entries[key]
  BY <1>2 DEF Over
<1> QED BY <1>1, <1>3, <1>4, <1>5, <1>6 DEF t

LEMMA HeldApartStep ==
  ASSUME IdentityTypeOK, IdsLead, LookedUp, HeldApart, [Next]_vars
  PROVE  HeldApart'
<1>1. CASE Resets BY <1>1, NoTxEmpty DEF Resets, HeldApart
<1>2. CASE Moved BY <1>2 DEF Moved, Moves, Becomes, Others, SameWrites, HeldApart
<1>3. ASSUME NEW s \in Sessions, NEW x \in Target(s), Writes(s, x) PROVE HeldApart'
  <2>1. /\ tx'[s] = Written(s, x) /\ \A r \in Sessions \ {s} : tx'[r] = tx[r]
    BY <1>3, WritesFields DEF Becomes, Others
  <2>2. /\ DOMAIN tx'[s].ids = NewIds(s) \cup DOMAIN tx[s].ids
        /\ DOMAIN tx'[s].rows = {x} \cup DOMAIN tx[s].rows
    BY <1>3, <2>1, WrittenParts DEF Writes
  <2>3. \A r \in Sessions \ {s} :
          NewIds(s) \cap DOMAIN tx[r].ids = {} /\ x \notin DOMAIN tx[r].rows
    BY <1>3 DEF Writes, HeldIds, HeldRows, Others
  <2> QED BY <2>1, <2>2, <2>3 DEF HeldApart
<1>4. ASSUME NEW s \in Sessions, Commit(s) PROVE HeldApart'
  BY <1>4, CommitFields, NoTxEmpty DEF Becomes, Others, HeldApart
<1>5. ASSUME NEW u \in Followers, CommitFollow(u) PROVE HeldApart'
  BY <1>5, CommitFollowFields DEF HeldApart
<1> QED BY <1>1, <1>2, <1>3, <1>4, <1>5, StepKinds

LEMMA IdsLeadStep ==
  ASSUME IdentityTypeOK, IdsLead, LookedUp, HeldApart, [Next]_vars
  PROVE  IdsLead'
<1>1. CASE Resets BY <1>1, NoTxEmpty DEF Resets, IdsLead
<1>2. CASE Moved BY <1>2 DEF Moved, Moves, tables, Becomes, Others, SameWrites, IdsLead
<1>3. ASSUME NEW s \in Sessions, NEW x \in Target(s), Writes(s, x) PROVE IdsLead'
  <2>1. /\ tx'[s] = Written(s, x) /\ \A r \in Sessions \ {s} : tx'[r] = tx[r]
        /\ UNCHANGED tables
    BY <1>3, WritesFields DEF Becomes, Others
  <2>2. /\ DOMAIN tx'[s].ids = NewIds(s) \cup DOMAIN tx[s].ids
        /\ \A id \in NewIds(s) : tx'[s].ids[id] = x
        /\ \A id \in DOMAIN tx[s].ids : tx'[s].ids[id] = tx[s].ids[id]
        /\ DOMAIN tx'[s].rows = {x} \cup DOMAIN tx[s].rows
        /\ DOMAIN tx'[s].changed = {x} \cup DOMAIN tx[s].changed
    BY <1>3, <2>1, WrittenParts DEF Writes
  <2>3. NewIds(s) \cap DOMAIN extid = {} BY <1>3 DEF Writes, RefusedIds
  <2>4. \A id \in DOMAIN extid' : extid'[id] \in DOMAIN subject'
    BY <2>1 DEF IdsLead, tables
  <2>5. ASSUME NEW r \in Sessions
        PROVE  /\ DOMAIN tx'[r].ids \cap DOMAIN extid' = {}
               /\ \A id \in DOMAIN tx'[r].ids : tx'[r].ids[id] \in DOMAIN tx'[r].rows
               /\ DOMAIN tx'[r].changed = DOMAIN tx'[r].rows
    <3>1. CASE r = s BY <2>1, <2>2, <2>3, <3>1 DEF IdsLead, tables
    <3>2. CASE r # s BY <2>1, <3>2 DEF IdsLead, tables
    <3> QED BY <3>1, <3>2
  <2> QED BY <2>4, <2>5 DEF IdsLead
<1>4. ASSUME NEW s \in Sessions, Commit(s) PROVE IdsLead'
  <2>1. /\ tx'[s] = NoTx /\ \A r \in Sessions \ {s} : tx'[r] = tx[r]
        /\ extid' = Seen(s) /\ DOMAIN subject' = DOMAIN subject \cup DOMAIN tx[s].rows
    BY <1>4, CommitFields, MergedFacts DEF Becomes, Others
  <2>2. \A id \in DOMAIN extid' : extid'[id] \in DOMAIN subject'
    BY <2>1, SeenLeads
  <2>3. DOMAIN extid' = DOMAIN tx[s].ids \cup DOMAIN extid
    BY <2>1, OverDomain DEF Seen
  <2>4. ASSUME NEW r \in Sessions
        PROVE  /\ DOMAIN tx'[r].ids \cap DOMAIN extid' = {}
               /\ \A id \in DOMAIN tx'[r].ids : tx'[r].ids[id] \in DOMAIN tx'[r].rows
               /\ DOMAIN tx'[r].changed = DOMAIN tx'[r].rows
    <3>1. CASE r = s BY <2>1, <3>1, NoTxEmpty
    <3>2. CASE r # s BY <2>1, <2>3, <3>2 DEF IdsLead, HeldApart
    <3> QED BY <3>1, <3>2
  <2> QED BY <2>2, <2>4 DEF IdsLead
<1>5. ASSUME NEW u \in Followers, CommitFollow(u) PROVE IdsLead'
  BY <1>5, CommitFollowFields DEF IdsLead
<1> QED BY <1>1, <1>2, <1>3, <1>4, <1>5, StepKinds

LEMMA FollowNotWrittenStep ==
  ASSUME IdentityTypeOK, IdsLead, LookedUp, HeldApart, FollowNotWritten, [Next]_vars
  PROVE  FollowNotWritten'
<1>1. CASE Resets BY <1>1, NoTxEmpty DEF Resets, FollowNotWritten
<1>2. CASE Moved BY <1>2 DEF Moved, Moves, tables, Becomes, Others, SameWrites, FollowNotWritten
<1>3. ASSUME NEW s \in Sessions, NEW x \in Target(s), Writes(s, x) PROVE FollowNotWritten'
  <2>1. /\ tx'[s] = Written(s, x) /\ \A r \in Sessions \ {s} : tx'[r] = tx[r]
        /\ UNCHANGED tables /\ tx[s].pc = "write"
    BY <1>3, WritesFields DEF Becomes, Others
  <2>2. /\ DOMAIN tx'[s].rows = {x} \cup DOMAIN tx[s].rows
        /\ tx'[s].changed[x] = Columns(s, x)
        /\ \A y \in DOMAIN tx[s].changed \ {x} : tx'[s].changed[y] = tx[s].changed[y]
    BY <1>3, <2>1, WrittenParts
  <2>3. x \in DOMAIN subject => "followed" \notin Columns(s, x)
    <3>1. SUFFICES ASSUME x \in DOMAIN subject PROVE "followed" \notin Columns(s, x)
      OBVIOUS
    <3>2. ~Fresh(s) BY <2>1, <3>1, TargetFacts
    <3>3. "followed" \notin Changed(Old(s, x), NewRow(s, x))
      BY <2>1, NewRowFacts DEF Changed
    <3>4. x \in DOMAIN tx[s].changed => "followed" \notin tx[s].changed[x]
      BY <3>1 DEF FollowNotWritten, IdsLead
    <3> QED BY <3>2, <3>3, <3>4 DEF Columns
  <2> QED BY <2>1, <2>2, <2>3 DEF FollowNotWritten, IdsLead, tables
<1>4. ASSUME NEW s \in Sessions, Commit(s) PROVE FollowNotWritten'
  <2>1. /\ tx'[s] = NoTx /\ \A r \in Sessions \ {s} : tx'[r] = tx[r]
        /\ DOMAIN subject' = DOMAIN subject \cup DOMAIN tx[s].rows
    BY <1>4, CommitFields, MergedFacts DEF Becomes, Others
  <2> QED BY <2>1, NoTxEmpty DEF FollowNotWritten, HeldApart
<1>5. ASSUME NEW u \in Followers, CommitFollow(u) PROVE FollowNotWritten'
  BY <1>5, CommitFollowFields DEF FollowNotWritten
<1> QED BY <1>1, <1>2, <1>3, <1>4, <1>5, StepKinds

\* No id that somebody sees is ever given to another subject.
LEMMA SeenGrows ==
  ASSUME IdentityTypeOK, IdsLead, LookedUp, HeldApart, [Next]_vars
  PROVE  /\ Grown(extid, extid')
         /\ \A s \in Sessions : tx'[s] = NoTx \/ Grown(Seen(s), Seen(s)')
<1>1. ASSUME NEW s \in Sessions, extid' = extid, tx'[s].ids = tx[s].ids
      PROVE  Grown(Seen(s), Seen(s)')
  BY <1>1 DEF Seen, Grown
<1>2. CASE Resets BY <1>1, <1>2 DEF Resets, Grown
<1>3. CASE Moved BY <1>1, <1>3 DEF Moved, Moves, tables, Becomes, Others, SameWrites, Grown
<1>4. ASSUME NEW s \in Sessions, NEW x \in Target(s), Writes(s, x)
      PROVE  extid' = extid /\ \A r \in Sessions : Grown(Seen(r), Seen(r)')
  <2>1. /\ tx'[s] = Written(s, x) /\ \A r \in Sessions \ {s} : tx'[r] = tx[r]
        /\ UNCHANGED tables
    BY <1>4, WritesFields DEF Becomes, Others
  <2>2. /\ DOMAIN tx'[s].ids = NewIds(s) \cup DOMAIN tx[s].ids
        /\ \A id \in DOMAIN tx[s].ids : tx'[s].ids[id] = tx[s].ids[id]
    BY <1>4, <2>1, WrittenParts DEF Writes
  <2>3. NewIds(s) \cap DOMAIN extid = {} BY <1>4 DEF Writes, RefusedIds
  <2>4. Grown(Over(tx[s].ids, extid), Over(tx'[s].ids, extid))
    BY <2>2, <2>3 DEF Grown, Over
  <2>5. Grown(Seen(s), Seen(s)') BY <2>1, <2>4 DEF Seen, tables
  <2> QED BY <1>1, <2>1, <2>5 DEF tables
<1>5. ASSUME NEW s \in Sessions, Commit(s)
      PROVE  /\ Grown(extid, extid')
             /\ \A r \in Sessions : tx'[r] = NoTx \/ Grown(Seen(r), Seen(r)')
  <2>1. /\ tx'[s] = NoTx /\ \A r \in Sessions \ {s} : tx'[r] = tx[r]
        /\ extid' = Seen(s)
    BY <1>5, CommitFields DEF Becomes, Others
  <2>2. DOMAIN tx[s].ids \cap DOMAIN extid = {} BY DEF IdsLead
  <2>3. Grown(extid, extid') /\ DOMAIN extid' = DOMAIN tx[s].ids \cup DOMAIN extid
    BY <2>1, <2>2 DEF Seen, Over, Grown
  <2>4. ASSUME NEW r \in Sessions \ {s} PROVE Grown(Seen(r), Seen(r)')
    <3>1. DOMAIN tx[r].ids \cap DOMAIN extid' = {} BY <2>3 DEF HeldApart, IdsLead
    <3>2. Grown(Over(tx[r].ids, extid), Over(tx[r].ids, extid'))
      BY <2>3, <3>1 DEF Grown, Over
    <3> QED BY <2>1, <3>2 DEF Seen
  <2> QED BY <2>1, <2>3, <2>4
<1>6. ASSUME NEW u \in Followers, CommitFollow(u)
      PROVE  extid' = extid /\ \A r \in Sessions : Grown(Seen(r), Seen(r)')
  BY <1>1, <1>6, CommitFollowFields
<1> QED BY <1>2, <1>3, <1>4, <1>5, <1>6, StepKinds DEF Grown

LEMMA LookedUpStep ==
  ASSUME IdentityTypeOK, IdsLead, LookedUp, HeldApart, [Next]_vars
  PROVE  LookedUp'
<1> DEFINE Holds(s) ==
      tx[s].pc = "write" =>
        /\ tx[s].todo # <<>>
        /\ tx[s].known \subseteq Ids(Item(s))
        /\ Ids(Item(s)) \cap DOMAIN tx[s].ids \subseteq tx[s].known
        /\ \A x \in DOMAIN tx[s].loaded, id \in tx[s].known :
             id \in DOMAIN Seen(s) /\ Seen(s)[id] = x
<1>1. \A s \in Sessions : Holds(s) BY DEF LookedUp
<1>2. ASSUME NEW s \in Sessions, tx'[s] = tx[s] PROVE Holds(s)'
  <2>1. tx[s] = NoTx \/ Grown(Seen(s), Seen(s)') BY <1>2, SeenGrows
  <2>2. CASE tx[s] = NoTx BY <1>2, <2>2, NoTxEmpty
  <2>3. CASE Grown(Seen(s), Seen(s)')
    <3>1. Item(s)' = Item(s) BY <1>2 DEF Item
    <3> HIDE DEF Holds
    <3> SUFFICES ASSUME tx[s].pc = "write" PROVE Holds(s)' BY <1>2 DEF Holds
    <3>2. /\ tx[s].todo # <<>> /\ tx[s].known \subseteq Ids(Item(s))
          /\ Ids(Item(s)) \cap DOMAIN tx[s].ids \subseteq tx[s].known
          /\ \A x \in DOMAIN tx[s].loaded, id \in tx[s].known :
               id \in DOMAIN Seen(s) /\ Seen(s)[id] = x
      BY <1>1 DEF Holds
    <3>3. \A x \in DOMAIN tx[s].loaded, id \in tx[s].known :
            id \in DOMAIN Seen(s)' /\ Seen(s)'[id] = x
      BY <2>3, <3>2 DEF Grown
    <3> QED BY <1>2, <3>1, <3>2, <3>3 DEF Holds
  <2> QED BY <2>1, <2>2, <2>3
<1>3. ASSUME NEW s \in Sessions, tx'[s].pc # "write" PROVE Holds(s)' BY <1>3
<1>4. LookedUp' <=> \A s \in Sessions : Holds(s)' BY DEF LookedUp
<1> HIDE DEF Holds
<1>5. CASE Resets BY <1>2, <1>3, <1>4, <1>5, NoTxEmpty DEF Resets
<1>6. ASSUME NEW s \in Sessions, NEW t \in TxType, Moves(s, t), LooksUp(s, t) PROVE Holds(s)'
  <2>1. tx'[s] = t /\ extid' = extid /\ t.ids = tx[s].ids
    BY <1>6 DEF Moves, tables, Becomes, SameWrites
  <2>2. Item(s)' = Item(s) /\ Seen(s)' = Seen(s) BY <1>6, <2>1 DEF Item, Seen, LooksUp
  <2>3. /\ t.todo # <<>> /\ t.known = Ids(Item(s)) \cap DOMAIN Seen(s)
        /\ \A x \in DOMAIN t.loaded, id \in t.known : Seen(s)[id] = x
    BY <1>6 DEF LooksUp
  <2>4. DOMAIN tx[s].ids \subseteq DOMAIN Seen(s) BY OverDomain DEF Seen
  <2> QED BY <2>1, <2>2, <2>3, <2>4 DEF Holds
<1>7. CASE Moved
  BY <1>2, <1>3, <1>4, <1>6, <1>7
  DEF Moved, Moves, Becomes, Others, Opens, Starts, Inserts, Pulls
<1>8. ASSUME NEW s \in Sessions, NEW x \in Target(s), Writes(s, x) PROVE LookedUp'
  <2>1. tx'[s].pc = "read" BY <1>8, WritesFields, WrittenTyped DEF Becomes
  <2> QED BY <1>2, <1>3, <1>4, <1>8, <2>1, WritesFields DEF Becomes, Others
<1>9. ASSUME NEW s \in Sessions, Commit(s) PROVE LookedUp'
  BY <1>2, <1>3, <1>4, <1>9, CommitFields, NoTxEmpty DEF Becomes, Others
<1>10. ASSUME NEW u \in Followers, CommitFollow(u) PROVE LookedUp'
  BY <1>2, <1>4, <1>10, CommitFollowFields
<1> QED BY <1>5, <1>7, <1>8, <1>9, <1>10, StepKinds

LEMMA TogetherGrows ==
  ASSUME NEW i, NEW f, NEW g, Grown(f, g), Together(i, f)
  PROVE  Together(i, g)
  BY DEF Grown, Together

\* After the write of an item all its ids lead to the subject it was written to.
LEMMA ItemTogether ==
  ASSUME IdentityTypeOK, IdsLead, LookedUp, HeldApart, NEW s \in Sessions,
         NEW x \in Target(s), Writes(s, x)
  PROVE  /\ x \in Subjects
         /\ \A id \in Ids(Item(s)) : id \in DOMAIN Seen(s)' /\ Seen(s)'[id] = x
<1>1. tx[s].pc = "write" /\ tx'[s] = Written(s, x) /\ extid' = extid
  BY WritesFields DEF Becomes, tables
<1>2. x \in Subjects BY <1>1, TargetFacts
<1>3. /\ DOMAIN tx'[s].ids = NewIds(s) \cup DOMAIN tx[s].ids
      /\ \A id \in NewIds(s) : tx'[s].ids[id] = x
      /\ \A id \in DOMAIN tx[s].ids : tx'[s].ids[id] = tx[s].ids[id]
  BY <1>1, WrittenParts
<1>4. NewIds(s) \cap DOMAIN extid = {} BY DEF Writes, RefusedIds
<1>5. ASSUME NEW id \in Ids(Item(s)) PROVE id \in DOMAIN Seen(s)' /\ Seen(s)'[id] = x
  <2>1. CASE id \in NewIds(s) BY <1>1, <1>3, <2>1 DEF Seen, Over
  <2>2. CASE id \in tx[s].known
    <3>1. x \in DOMAIN tx[s].loaded BY <1>1, <2>2, TargetFacts DEF Fresh
    <3>2. id \in DOMAIN Seen(s) /\ Seen(s)[id] = x BY <1>1, <2>2, <3>1 DEF LookedUp
    <3> QED BY <1>1, <1>3, <1>4, <3>2 DEF Seen, Over
  <2> QED BY <2>1, <2>2 DEF NewIds
<1> QED BY <1>2, <1>5

LEMMA DoneTogetherStep ==
  ASSUME IdentityTypeOK, IdsLead, LookedUp, HeldApart, DoneTogether, [Next]_vars
  PROVE  DoneTogether'
<1>1. UNCHANGED kept => \A i \in kept' : Together(i, extid')
  BY SeenGrows, TogetherGrows DEF DoneTogether
<1>2. ASSUME NEW s \in Sessions, tx'[s].done = tx[s].done
      PROVE  \A i \in tx'[s].done : Together(i, Seen(s)')
  <2>1. tx'[s] = NoTx => tx'[s].done = {} BY NoTxEmpty
  <2> QED BY <1>2, <2>1, SeenGrows, TogetherGrows DEF DoneTogether
<1>3. ASSUME NEW s \in Sessions, tx'[s] = NoTx
      PROVE  \A i \in tx'[s].done : Together(i, Seen(s)')
  BY <1>3, NoTxEmpty
<1>4. CASE Resets BY <1>1, <1>2, <1>3, <1>4 DEF Resets, DoneTogether
<1>5. CASE Moved
  BY <1>1, <1>2, <1>5 DEF Moved, Moves, Becomes, Others, SameWrites, DoneTogether
<1>6. ASSUME NEW s \in Sessions, NEW x \in Target(s), Writes(s, x) PROVE DoneTogether'
  <2>1. /\ tx'[s] = Written(s, x) /\ \A r \in Sessions \ {s} : tx'[r] = tx[r]
        /\ UNCHANGED <<tables, kept>> /\ tx[s].pc = "write"
    BY <1>6, WritesFields DEF Becomes, Others
  <2>2. tx'[s].done = tx[s].done \cup {Item(s)} /\ tx'[s] # NoTx
    BY <2>1, WrittenTyped, NoTxEmpty
  <2>3. Together(Item(s), Seen(s)') BY <1>6, ItemTogether DEF Together
  <2>4. \A i \in tx[s].done : Together(i, Seen(s)')
    BY <2>2, SeenGrows, TogetherGrows DEF DoneTogether
  <2> QED BY <1>1, <1>2, <2>1, <2>2, <2>3, <2>4 DEF DoneTogether
<1>7. ASSUME NEW s \in Sessions, Commit(s) PROVE DoneTogether'
  <2>1. /\ tx'[s] = NoTx /\ \A r \in Sessions \ {s} : tx'[r] = tx[r]
        /\ extid' = Seen(s) /\ kept' = kept \cup tx[s].done
    BY <1>7, CommitFields DEF Becomes, Others
  <2>2. \A i \in kept : Together(i, extid') BY SeenGrows, TogetherGrows DEF DoneTogether
  <2>3. \A i \in kept' : Together(i, extid') BY <2>1, <2>2 DEF DoneTogether
  <2> QED BY <1>2, <1>3, <2>1, <2>3 DEF DoneTogether
<1>8. ASSUME NEW u \in Followers, CommitFollow(u) PROVE DoneTogether'
  BY <1>1, <1>2, <1>8, CommitFollowFields DEF DoneTogether
<1> QED BY <1>4, <1>5, <1>6, <1>7, <1>8, StepKinds

-----------------------------------------------------------------------------
(* Identities and the flags of the followers                                 *)

IdentityInv ==
  IdentityTypeOK /\ IdsLead /\ LookedUp /\ HeldApart /\ DoneTogether /\ FollowNotWritten

LEMMA IdentityInit == Init => IdentityInv
<1> SUFFICES ASSUME Init PROVE IdentityInv OBVIOUS
<1>1. IdentityTypeOK BY TypeInit
<1>2. /\ \A s \in Sessions : tx[s] = NoTx
      /\ DOMAIN extid = {} /\ DOMAIN subject = {} /\ kept = {}
  BY PartialEmpty DEF Init
<1>3. IdsLead BY <1>2, NoTxEmpty DEF IdsLead
<1>4. LookedUp BY <1>2, NoTxEmpty DEF LookedUp
<1>5. HeldApart BY <1>2, NoTxEmpty DEF HeldApart
<1>6. DoneTogether BY <1>2, NoTxEmpty DEF DoneTogether
<1>7. FollowNotWritten BY <1>2 DEF FollowNotWritten
<1> QED BY <1>1, <1>3, <1>4, <1>5, <1>6, <1>7 DEF IdentityInv

LEMMA IdentityStep == IdentityInv /\ [Next]_vars => IdentityInv'
  BY TypeStep, IdsLeadStep, LookedUpStep, HeldApartStep, DoneTogetherStep, FollowNotWrittenStep
  DEF IdentityInv

LEMMA IdentityInvariant == Spec => []IdentityInv
  BY IdentityInit, IdentityStep, PTL DEF Spec

\* Every variable keeps its type: no statement, failure or kill leaves a row, an
\* id or an entry half made (media_identity_service.py, watchlist_service.py).
THEOREM TypeCorrect == Spec => []IdentityTypeOK
  BY IdentityInvariant, PTL DEF IdentityInv

\* However the transactions of pages, details and pulls interleave, fail and are
\* killed, the ids of an item that has been committed lead to one subject
\* (upsert_item, and the unique key of media_external_ids).
THEOREM OneSubjectPerItemCorrect == Spec => []OneSubjectPerItem
<1>1. IdentityInv => OneSubjectPerItem
  <2> SUFFICES ASSUME IdentityInv, NEW i \in kept
               PROVE  \E x \in DOMAIN subject : \A id \in Ids(i) : id \in DOMAIN extid /\ extid[id] = x
    BY DEF OneSubjectPerItem
  <2>1. PICK x \in Subjects : \A id \in Ids(i) : id \in DOMAIN extid /\ extid[id] = x
    BY DEF IdentityInv, DoneTogether, Together
  <2>2. x \in DOMAIN subject BY <2>1, OwnIdIn DEF IdentityInv, IdsLead
  <2> QED BY <2>1, <2>2
<1> QED BY <1>1, IdentityInvariant, PTL

\* No page, pull or flush of a stale snapshot ever changes what a user has
\* decided about following (upsert_item beside set_followed).
THEOREM FollowKeptCorrect == Spec => FollowKept
<1> DEFINE Kept == \A x \in DOMAIN subject : subject'[x].followed # subject[x].followed =>
                     \E u \in Followers : /\ fol[u].id = x /\ fol'[u] = NoFollow
                                          /\ fol[u].want = subject'[x].followed
<1>1. IdentityInv /\ [Next]_vars => [Kept]_vars
  <2> SUFFICES ASSUME IdentityInv, [Next]_vars PROVE Kept OBVIOUS
  <2>1. CASE UNCHANGED subject BY <2>1
  <2>2. ASSUME NEW s \in Sessions, Commit(s) PROVE Kept
    <3>1. subject' = Merged(s) BY <2>2 DEF Commit
    <3>2. \A x \in DOMAIN subject : Merged(s)[x].followed = subject[x].followed
      BY MergedFacts DEF IdentityInv, FollowNotWritten
    <3> QED BY <3>1, <3>2
  <2>3. ASSUME NEW u \in Followers, CommitFollow(u) PROVE Kept
    BY <2>3, CommitFollowFields DEF IdentityInv
  <2>4. CASE Moved \/ Resets BY <2>1, <2>4 DEF Moved, Moves, tables, Resets
  <2>5. ASSUME NEW s \in Sessions, NEW x \in Target(s), Writes(s, x) PROVE Kept
    BY <2>1, <2>5, WritesFields DEF tables, IdentityInv
  <2> QED BY <2>2, <2>3, <2>4, <2>5, StepKinds DEF IdentityInv
<1> QED BY <1>1, IdentityInvariant, PTL DEF FollowKept, Spec

-----------------------------------------------------------------------------
(* The watchlist                                                             *)

\* A committed time on the watchlist stays.
LEMMA ListedGrows ==
  ASSUME IdentityInv, ListedStays, [Next]_vars
  PROVE  /\ DOMAIN subject \subseteq DOMAIN subject'
         /\ \A x \in DOMAIN subject : subject[x].listed => subject'[x].listed
<1>1. CASE UNCHANGED subject BY <1>1
<1>2. ASSUME NEW s \in Sessions, Commit(s)
      PROVE  /\ DOMAIN subject \subseteq DOMAIN subject'
             /\ \A x \in DOMAIN subject : subject[x].listed => subject'[x].listed
  <2>1. subject' = Merged(s) BY <1>2 DEF Commit
  <2>2. ASSUME NEW x \in DOMAIN subject, subject[x].listed PROVE Merged(s)[x].listed
    <3>1. CASE x \notin DOMAIN tx[s].rows BY <2>2, <3>1, MergedFacts DEF IdentityInv
    <3>2. CASE x \in DOMAIN tx[s].rows
      <4>1. Merged(s)[x].listed = IF "listed" \in tx[s].changed[x] THEN tx[s].rows[x].listed
                                                                  ELSE subject[x].listed
        BY <3>2, MergedFacts DEF IdentityInv
      <4>2. "listed" \in tx[s].changed[x] => tx[s].rows[x].listed BY <3>2 DEF ListedStays
      <4> QED BY <2>2, <4>1, <4>2
    <3> QED BY <3>1, <3>2
  <2> QED BY <2>1, <2>2, MergedFacts DEF IdentityInv
<1>3. ASSUME NEW u \in Followers, CommitFollow(u)
      PROVE  /\ DOMAIN subject \subseteq DOMAIN subject'
             /\ \A x \in DOMAIN subject : subject[x].listed => subject'[x].listed
  BY <1>3, CommitFollowFields DEF IdentityInv
<1>4. CASE Moved \/ Resets BY <1>1, <1>4 DEF Moved, Moves, tables, Resets
<1>5. ASSUME NEW s \in Sessions, NEW x \in Target(s), Writes(s, x) PROVE UNCHANGED subject
  BY <1>5, WritesFields DEF tables, IdentityInv
<1> QED BY <1>1, <1>2, <1>3, <1>4, <1>5, StepKinds DEF IdentityInv

LEMMA ListedStaysStep ==
  ASSUME IdentityInv, ListedStays, [Next]_vars
  PROVE  ListedStays'
<1> DEFINE RowsHold(s) ==
             \A x \in DOMAIN tx[s].rows \cap DOMAIN subject :
               /\ "listed" \in tx[s].changed[x] => tx[s].rows[x].listed
               /\ tx[s].rows[x].listed => "listed" \in tx[s].changed[x] \/ subject[x].listed
           LoadedHold(s) ==
             tx[s].pc = "write" => \A x \in DOMAIN tx[s].loaded :
               /\ x \in DOMAIN tx[s].rows => tx[s].loaded[x] = tx[s].rows[x]
               /\ x \notin DOMAIN tx[s].rows /\ tx[s].loaded[x].listed
                  => x \in DOMAIN subject /\ subject[x].listed
<1>1. \A s \in Sessions : RowsHold(s) /\ LoadedHold(s) BY DEF ListedStays
<1>2. (\A s \in Sessions : RowsHold(s)' /\ LoadedHold(s)') => ListedStays' BY DEF ListedStays
<1>3. ASSUME NEW s \in Sessions, tx'[s].rows = tx[s].rows, tx'[s].changed = tx[s].changed,
             DOMAIN subject' \cap DOMAIN tx[s].rows \subseteq DOMAIN subject
      PROVE  RowsHold(s)'
  BY <1>1, <1>3, ListedGrows
<1>4. ASSUME NEW s \in Sessions, tx'[s] = tx[s] PROVE LoadedHold(s)'
  BY <1>1, <1>4, ListedGrows
<1>5. ASSUME NEW s \in Sessions, tx'[s].pc # "write" PROVE LoadedHold(s)' BY <1>5
<1>6. ASSUME NEW s \in Sessions, tx'[s] = NoTx PROVE RowsHold(s)' /\ LoadedHold(s)'
  BY <1>6, NoTxEmpty
<1>7. ASSUME NEW s \in Sessions, NEW t \in TxType, Moves(s, t), LooksUp(s, t) PROVE LoadedHold(s)'
  <2>1. tx'[s] = t /\ subject' = subject /\ t.rows = tx[s].rows
    BY <1>7 DEF Moves, tables, Becomes, SameWrites
  <2>2. ASSUME NEW x \in DOMAIN t.loaded
        PROVE  /\ x \in DOMAIN t.rows => t.loaded[x] = t.rows[x]
               /\ x \notin DOMAIN t.rows => x \in DOMAIN subject /\ t.loaded[x] = subject[x]
    BY <1>7, <2>1 DEF LooksUp, Row, Over
  <2> QED BY <2>1, <2>2
<1>8. ASSUME NEW s \in Sessions, NEW x \in Target(s), Writes(s, x) PROVE RowsHold(s)'
  <2>1. tx'[s] = Written(s, x) /\ UNCHANGED tables /\ tx[s].pc = "write"
    BY <1>8, WritesFields DEF Becomes, IdentityInv
  <2>2. /\ DOMAIN tx'[s].rows = {x} \cup DOMAIN tx[s].rows /\ tx'[s].rows[x] = NewRow(s, x)
        /\ tx'[s].changed[x] = Columns(s, x)
        /\ \A y \in DOMAIN tx[s].rows \ {x} :
             tx'[s].rows[y] = tx[s].rows[y] /\ tx'[s].changed[y] = tx[s].changed[y]
    BY <1>8, <2>1, WrittenParts DEF IdentityInv, IdsLead
  <2>3. ASSUME x \in DOMAIN subject
        PROVE  /\ "listed" \in Columns(s, x) => NewRow(s, x).listed
               /\ NewRow(s, x).listed => "listed" \in Columns(s, x) \/ subject[x].listed
    <3>1. ~Fresh(s) /\ x \in DOMAIN tx[s].loaded
      BY <2>1, <2>3, TargetFacts DEF IdentityInv
    <3>2. Old(s, x) = tx[s].loaded[x] BY <3>1 DEF Old
    <3>3. /\ NewRow(s, x).listed = (Old(s, x).listed \/ tx[s].kind = "sync")
          /\ Old(s, x).listed \in BOOLEAN
      BY <2>1, NewRowFacts DEF IdentityInv, RowType
    <3>4. "listed" \in Changed(Old(s, x), NewRow(s, x)) <=> Old(s, x).listed # NewRow(s, x).listed
      BY DEF Changed
    <3>5. CASE x \in DOMAIN tx[s].rows
      <4>1. x \in DOMAIN tx[s].changed BY <3>5 DEF IdentityInv, IdsLead
      <4>2. Columns(s, x) = tx[s].changed[x] \cup Changed(Old(s, x), NewRow(s, x))
        BY <3>1, <4>1 DEF Columns
      <4>3. Old(s, x) = tx[s].rows[x] BY <1>1, <2>1, <3>1, <3>2, <3>5
      <4>4. /\ "listed" \in tx[s].changed[x] => Old(s, x).listed
            /\ Old(s, x).listed => "listed" \in tx[s].changed[x] \/ subject[x].listed
        BY <1>1, <2>3, <3>5, <4>3
      <4> QED BY <3>3, <3>4, <4>2, <4>4
    <3>6. CASE x \notin DOMAIN tx[s].rows
      <4>1. x \notin DOMAIN tx[s].changed BY <3>6 DEF IdentityInv, IdsLead
      <4>2. Columns(s, x) = Changed(Old(s, x), NewRow(s, x))
        BY <3>1, <4>1 DEF Columns
      <4>3. Old(s, x).listed => subject[x].listed BY <1>1, <2>1, <3>1, <3>2, <3>6
      <4> QED BY <3>3, <3>4, <4>2, <4>3
    <3> QED BY <3>5, <3>6
  <2> QED BY <1>1, <2>1, <2>2, <2>3 DEF tables
<1> HIDE DEF RowsHold, LoadedHold
<1>9. CASE Resets BY <1>2, <1>3, <1>4, <1>6, <1>9 DEF Resets
<1>10. CASE Moved
  <2>1. PICK s \in Sessions, t \in TxType :
          /\ Moves(s, t)
          /\ Opens(s, t) \/ Starts(s, t) \/ Inserts(s, t) \/ Pulls(s, t) \/ LooksUp(s, t)
    BY <1>10 DEF Moved
  <2>2. /\ tx'[s].rows = tx[s].rows /\ tx'[s].changed = tx[s].changed /\ subject' = subject
        /\ tx'[s] = t /\ \A r \in Sessions \ {s} : tx'[r] = tx[r]
    BY <2>1 DEF Moves, Becomes, Others, SameWrites, tables
  <2>3. LoadedHold(s)'
    BY <1>5, <1>7, <2>1, <2>2 DEF Opens, Starts, Inserts, Pulls
  <2> QED BY <1>2, <1>3, <1>4, <2>2, <2>3
<1>11. ASSUME NEW s \in Sessions, NEW x \in Target(s), Writes(s, x) PROVE ListedStays'
  <2>1. /\ tx'[s] = Written(s, x) /\ \A r \in Sessions \ {s} : tx'[r] = tx[r]
        /\ UNCHANGED tables /\ tx[s].pc = "write"
    BY <1>11, WritesFields DEF Becomes, Others, IdentityInv
  <2>2. tx'[s].pc = "read" BY <1>11, <2>1, WrittenTyped DEF IdentityInv
  <2> QED BY <1>2, <1>3, <1>4, <1>5, <1>8, <1>11, <2>1, <2>2 DEF tables
<1>12. ASSUME NEW s \in Sessions, Commit(s) PROVE ListedStays'
  <2>1. /\ tx'[s] = NoTx /\ \A r \in Sessions \ {s} : tx'[r] = tx[r]
        /\ DOMAIN subject' = DOMAIN subject \cup DOMAIN tx[s].rows
    BY <1>12, CommitFields, MergedFacts DEF Becomes, Others, IdentityInv
  <2>2. \A r \in Sessions \ {s} : DOMAIN subject' \cap DOMAIN tx[r].rows \subseteq DOMAIN subject
    BY <2>1 DEF IdentityInv, HeldApart
  <2> QED BY <1>2, <1>3, <1>4, <1>6, <2>1, <2>2
<1>13. ASSUME NEW u \in Followers, CommitFollow(u) PROVE ListedStays'
  BY <1>2, <1>3, <1>4, <1>13, CommitFollowFields DEF IdentityInv
<1> QED BY <1>9, <1>10, <1>11, <1>12, <1>13, StepKinds DEF IdentityInv

LEMMA EntryLeadsGrows ==
  ASSUME NEW f, NEW g, NEW entries, Grown(f, g), EntryLeads(f, entries)
  PROVE  EntryLeads(g, entries)
  BY DEF Grown, EntryLeads

LEMMA EntryLeadsOver ==
  ASSUME NEW seen, NEW a, NEW b, EntryLeads(seen, a), EntryLeads(seen, b)
  PROVE  EntryLeads(seen, Over(a, b))
<1>1. ASSUME NEW key \in DOMAIN Over(a, b)
      PROVE  \/ key \in DOMAIN a /\ Over(a, b)[key] = a[key]
             \/ key \in DOMAIN b /\ Over(a, b)[key] = b[key]
  BY DEF Over
<1> QED BY <1>1 DEF EntryLeads

\* A pull writes items of the list only.
LEMMA PulledItem ==
  ASSUME IdentityInv, CursorCovered, NEW s \in Sessions, tx[s].pc = "write", tx[s].kind = "sync"
  PROVE  Item(s) \in ItemsOf(Feed)
<1>1. tx[s].todo \in Seq(ItemsOf(Feed)) BY DEF CursorCovered
<1>2. tx[s].todo # <<>> BY DEF IdentityInv, LookedUp
<1> QED BY <1>1, <1>2 DEF Item

LEMMA EntriesLeadStep ==
  ASSUME RecordsApart, IdentityInv, EntriesLead, CursorCovered, [Next]_vars
  PROVE  EntriesLead'
<1>1. Grown(extid, extid') /\ \A s \in Sessions : tx'[s] = NoTx \/ Grown(Seen(s), Seen(s)')
  BY SeenGrows DEF IdentityInv
<1>2. UNCHANGED entry => EntryLeads(extid, entry)'
  BY <1>1, EntryLeadsGrows DEF EntriesLead, EntryLeads
<1>3. ASSUME NEW s \in Sessions, tx'[s].entries = tx[s].entries
      PROVE  EntryLeads(Seen(s)', tx'[s].entries)
  <2>1. CASE tx'[s] = NoTx BY <2>1, NoTxEmpty DEF EntryLeads
  <2>2. CASE Grown(Seen(s), Seen(s)') BY <1>3, <2>2, EntryLeadsGrows DEF EntriesLead
  <2> QED BY <1>1, <2>1, <2>2
<1>4. ASSUME NEW s \in Sessions, tx'[s] = NoTx PROVE EntryLeads(Seen(s)', tx'[s].entries)
  BY <1>4, NoTxEmpty DEF EntryLeads
<1>5. (EntryLeads(extid, entry)' /\ \A s \in Sessions : EntryLeads(Seen(s)', tx'[s].entries))
        => EntriesLead'
  BY DEF EntriesLead, EntryLeads
<1>6. CASE Resets BY <1>2, <1>3, <1>4, <1>5, <1>6 DEF Resets
<1>7. CASE Moved
  BY <1>2, <1>3, <1>5, <1>7 DEF Moved, Moves, Becomes, Others, SameWrites, tables
<1>8. ASSUME NEW s \in Sessions, NEW x \in Target(s), Writes(s, x) PROVE EntriesLead'
  <2>1. /\ tx'[s] = Written(s, x) /\ \A r \in Sessions \ {s} : tx'[r] = tx[r]
        /\ UNCHANGED tables /\ tx[s].pc = "write"
    BY <1>8, WritesFields DEF Becomes, Others, IdentityInv
  <2>2. /\ DOMAIN tx'[s].entries = NewKeys(s, x) \cup DOMAIN tx[s].entries
        /\ \A key \in NewKeys(s, x) : tx'[s].entries[key] = x
        /\ \A key \in DOMAIN tx[s].entries \ NewKeys(s, x) :
             tx'[s].entries[key] = tx[s].entries[key]
    BY <1>8, <2>1, WrittenParts DEF IdentityInv
  <2>3. tx'[s] # NoTx BY <2>1, WrittenTyped, NoTxEmpty DEF IdentityInv
  <2>4. EntryLeads(Seen(s)', tx[s].entries)
    BY <1>1, <2>3, EntryLeadsGrows DEF EntriesLead
  <2>5. NewKeys(s, x) \subseteq {RecordKey(Item(s), x)}
        /\ (NewKeys(s, x) # {} => Item(s) \in ItemsOf(Feed))
    BY <2>1, PulledItem DEF NewKeys
  <2>6. OwnId(Item(s)) \in DOMAIN Seen(s)' /\ Seen(s)'[OwnId(Item(s))] = x
    BY <1>8, ItemTogether, OwnIdIn DEF IdentityInv
  <2>7. ASSUME NEW i \in ItemsOf(Feed), i.record # None,
               <<"record", i.record>> \in NewKeys(s, x)
        PROVE  OwnId(i) \in DOMAIN Seen(s)' /\ Seen(s)'[OwnId(i)] = x
    <3>1. i.record = Item(s).record /\ Item(s) \in ItemsOf(Feed)
      BY <2>5, <2>7 DEF RecordKey
    <3>2. OwnId(i) = OwnId(Item(s)) BY <2>7, <3>1 DEF RecordsApart
    <3> QED BY <2>6, <3>2
  <2>8. ASSUME NEW y \in Subjects, <<"subject", y>> \in NewKeys(s, x) PROVE y = x
    BY <2>5, <2>8 DEF RecordKey
  <2>9. EntryLeads(Seen(s)', tx'[s].entries)
    BY <2>2, <2>4, <2>7, <2>8 DEF EntryLeads
  <2> QED BY <1>2, <1>3, <1>5, <2>1, <2>9 DEF tables
<1>9. ASSUME NEW s \in Sessions, Commit(s) PROVE EntriesLead'
  <2>1. /\ tx'[s] = NoTx /\ \A r \in Sessions \ {s} : tx'[r] = tx[r]
        /\ extid' = Seen(s) /\ entry' = Over(tx[s].entries, entry)
    BY <1>9, CommitFields DEF Becomes, Others, IdentityInv
  <2>2. EntryLeads(Seen(s), entry)
    BY <1>1, <2>1, EntryLeadsGrows DEF EntriesLead
  <2>3. EntryLeads(Seen(s), Over(tx[s].entries, entry))
    BY <2>2, EntryLeadsOver DEF EntriesLead
  <2>4. EntryLeads(extid, entry)' BY <2>1, <2>3 DEF EntryLeads
  <2> QED BY <1>3, <1>4, <1>5, <2>1, <2>4
<1>10. ASSUME NEW u \in Followers, CommitFollow(u) PROVE EntriesLead'
  BY <1>2, <1>3, <1>5, <1>10, CommitFollowFields DEF IdentityInv
<1> QED BY <1>6, <1>7, <1>8, <1>9, <1>10, StepKinds DEF IdentityInv

\* Whether a row would be on the watchlist after the commit.
MergedListed(s, x) ==
  IF x \notin DOMAIN tx[s].rows THEN subject[x].listed
  ELSE IF x \notin DOMAIN subject THEN tx[s].rows[x].listed
  ELSE IF "listed" \in tx[s].changed[x] THEN tx[s].rows[x].listed ELSE subject[x].listed

LEMMA MergedIsListed ==
  ASSUME NEW s, NEW x \in DOMAIN subject \cup DOMAIN tx[s].rows
  PROVE  Merged(s)[x].listed = MergedListed(s, x)
  BY DEF Merged, MergedListed, New

LEMMA MergedIsListedNext ==
  ASSUME NEW s, NEW x \in DOMAIN subject' \cup DOMAIN tx'[s].rows
  PROVE  Merged(s)'[x].listed = MergedListed(s, x)'
  BY DEF Merged, MergedListed, New

LEMMA EntryGrows ==
  ASSUME IdentityInv, [Next]_vars
  PROVE  DOMAIN entry \subseteq DOMAIN entry'
<1>1. ASSUME NEW s \in Sessions, Commit(s) PROVE DOMAIN entry \subseteq DOMAIN entry'
  <2>1. entry' = Over(tx[s].entries, entry) BY <1>1, CommitFields DEF IdentityInv
  <2> QED BY <2>1, OverDomain
<1> QED
  BY <1>1, StepKinds, WritesFields, CommitFollowFields
  DEF IdentityInv, Moved, Moves, Resets, tables

\* An item that has been recorded stays so.
LEMMA RecordedGrows ==
  ASSUME IdentityInv, ListedStays, [Next]_vars, NEW n, Recorded(n)
  PROVE  Recorded(n)'
<1> DEFINE i == Feed[n]
           x == extid[OwnId(i)]
<1>1. OwnId(i) \in DOMAIN extid /\ RecordKey(i, x) \in DOMAIN entry /\ subject[x].listed
  BY DEF Recorded, RecordedIn
<1>2. x \in DOMAIN subject BY <1>1 DEF IdentityInv, IdsLead
<1>3. OwnId(i) \in DOMAIN extid' /\ extid'[OwnId(i)] = x
  BY <1>1, SeenGrows DEF IdentityInv, Grown
<1>4. RecordKey(i, x) \in DOMAIN entry' BY <1>1, EntryGrows
<1>5. subject'[x].listed BY <1>1, <1>2, ListedGrows
<1> QED BY <1>3, <1>4, <1>5 DEF Recorded, RecordedIn, OwnId, RecordKey

\* Nor does it change for a transaction what it has recorded, whatever others do.
LEMMA RecordedByGrows ==
  ASSUME IdentityInv, ListedStays, [Next]_vars, NEW s \in Sessions, SameWrites(tx'[s], tx[s]),
         DOMAIN subject' \cap DOMAIN tx[s].rows \subseteq DOMAIN subject,
         Grown(Seen(s), Seen(s)'), NEW n, RecordedBy(s, n)
  PROVE  RecordedBy(s, n)'
<1> DEFINE i == Feed[n]
           x == Seen(s)[OwnId(i)]
<1>1. /\ OwnId(i) \in DOMAIN Seen(s) /\ RecordKey(i, x) \in DOMAIN tx[s].entries \cup DOMAIN entry
      /\ Merged(s)[x].listed
  BY OverDomain DEF RecordedBy, RecordedIn
<1>2. x \in DOMAIN subject \cup DOMAIN tx[s].rows BY <1>1, SeenLeads DEF IdentityInv
<1>3. OwnId(i) \in DOMAIN Seen(s)' /\ Seen(s)'[OwnId(i)] = x BY <1>1 DEF Grown
<1>4. RecordKey(i, x) \in DOMAIN tx'[s].entries \cup DOMAIN entry'
  BY <1>1, EntryGrows DEF SameWrites
<1>5. ASSUME NEW y, y = x PROVE Merged(s)'[y].listed
  <2> HIDE DEF x
  <2>1. y \in DOMAIN subject \cup DOMAIN tx[s].rows BY <1>2, <1>5
  <2>2. MergedListed(s, y) BY <1>1, <1>5, <2>1, MergedIsListed
  <2>3. y \in DOMAIN subject' \cup DOMAIN tx'[s].rows BY <2>1, ListedGrows DEF SameWrites
  <2>4. tx'[s].rows = tx[s].rows /\ tx'[s].changed = tx[s].changed BY DEF SameWrites
  <2>5. y \in DOMAIN subject => y \in DOMAIN subject' /\ (subject[y].listed => subject'[y].listed)
    BY ListedGrows
  <2>6. y \in DOMAIN tx[s].rows /\ y \notin DOMAIN subject => y \notin DOMAIN subject'
    OBVIOUS
  <2>7. MergedListed(s, y)' BY <2>1, <2>2, <2>4, <2>5, <2>6 DEF MergedListed
  <2> QED BY <2>3, <2>7, MergedIsListedNext
<1>6. RecordKey(i, x) \in DOMAIN Over(tx'[s].entries, entry') BY <1>4, OverDomain
<1> QED BY <1>3, <1>5, <1>6 DEF RecordedBy, RecordedIn, OwnId, RecordKey

\* What an item adds: it is recorded once it is written.
LEMMA WrittenIsRecorded ==
  ASSUME RecordsApart, IdentityInv, ListedStays, CursorCovered, [Next]_vars,
         NEW s \in Sessions, NEW x \in Target(s), Writes(s, x), tx[s].kind = "sync"
  PROVE  /\ RecordedIn(Item(s), Seen(s)', Over(tx'[s].entries, entry'), Merged(s)')
         /\ \A n : RecordedBy(s, n) => RecordedBy(s, n)'
<1>1. /\ tx'[s] = Written(s, x) /\ UNCHANGED tables /\ tx[s].pc = "write"
  BY WritesFields DEF Becomes, IdentityInv
<1>2. /\ DOMAIN tx'[s].rows = {x} \cup DOMAIN tx[s].rows /\ tx'[s].rows[x].listed
      /\ \A y \in DOMAIN tx[s].rows \ {x} :
           tx'[s].rows[y] = tx[s].rows[y] /\ tx'[s].changed[y] = tx[s].changed[y]
      /\ DOMAIN tx'[s].entries = {RecordKey(Item(s), x)} \cup DOMAIN tx[s].entries
  <2>1. NewRow(s, x).listed BY <1>1, NewRowFacts DEF IdentityInv
  <2>2. NewKeys(s, x) = {RecordKey(Item(s), x)} BY DEF NewKeys
  <2>3. DOMAIN tx[s].changed = DOMAIN tx[s].rows BY DEF IdentityInv, IdsLead
  <2>4. IdentityTypeOK /\ IdsLead /\ LookedUp BY DEF IdentityInv
  <2> QED BY <1>1, <2>1, <2>2, <2>3, <2>4, WrittenParts
<1>3. MergedListed(s, x)'
  <2>1. ListedStays' BY ListedStaysStep
  <2>2. x \in DOMAIN tx'[s].rows \cap DOMAIN subject' =>
          "listed" \in tx'[s].changed[x] \/ subject'[x].listed
    BY <1>2, <2>1 DEF ListedStays
  <2> QED BY <1>2, <2>2 DEF MergedListed
<1>4. Merged(s)'[x].listed BY <1>2, <1>3, MergedIsListedNext
<1>5. OwnId(Item(s)) \in DOMAIN Seen(s)' /\ Seen(s)'[OwnId(Item(s))] = x
  BY ItemTogether, OwnIdIn DEF IdentityInv
<1>6. RecordKey(Item(s), x) \in DOMAIN Over(tx'[s].entries, entry')
  <2>1. RecordKey(Item(s), x) \in DOMAIN tx'[s].entries BY <1>2
  <2> QED BY <2>1, OverDomain
<1>7. RecordedIn(Item(s), Seen(s)', Over(tx'[s].entries, entry'), Merged(s)')
  BY <1>4, <1>5, <1>6 DEF RecordedIn
<1>8. ASSUME NEW n, RecordedBy(s, n) PROVE RecordedBy(s, n)'
  <2> DEFINE i == Feed[n]
  <2>1. PICK y : y = Seen(s)[OwnId(i)] OBVIOUS
  <2>2. /\ OwnId(i) \in DOMAIN Seen(s) /\ Merged(s)[y].listed
        /\ RecordKey(i, y) \in DOMAIN tx[s].entries \cup DOMAIN entry
    BY <1>8, <2>1, OverDomain DEF RecordedBy, RecordedIn
  <2>3. y \in DOMAIN subject \cup DOMAIN tx[s].rows BY <2>1, <2>2, SeenLeads DEF IdentityInv
  <2>4. Grown(Seen(s), Seen(s)')
    BY <1>1, WrittenTyped, NoTxEmpty, SeenGrows DEF IdentityInv
  <2>5. OwnId(i) \in DOMAIN Seen(s)' /\ Seen(s)'[OwnId(i)] = y BY <2>1, <2>2, <2>4 DEF Grown
  <2>6. RecordKey(i, y) \in DOMAIN Over(tx'[s].entries, entry')
    <3>1. RecordKey(i, y) \in DOMAIN tx'[s].entries \cup DOMAIN entry'
      BY <1>1, <1>2, <2>2 DEF tables
    <3> QED BY <3>1, OverDomain
  <2>7. Merged(s)'[y].listed
    <3>1. CASE y = x BY <1>4, <3>1
    <3>2. CASE y # x
      <4>1. MergedListed(s, y) BY <2>2, <2>3, MergedIsListed
      <4>2. MergedListed(s, y)' BY <1>1, <1>2, <2>3, <3>2, <4>1 DEF MergedListed, tables
      <4> QED BY <1>1, <1>2, <2>3, <4>2, MergedIsListedNext DEF tables
    <3> QED BY <3>1, <3>2
  <2> QED BY <2>5, <2>6, <2>7 DEF RecordedBy, RecordedIn, OwnId, RecordKey
<1> QED BY <1>7, <1>8

\* What has been recorded before a pull is recorded for it.
LEMMA RecordedForPull ==
  ASSUME IdentityInv, NEW s \in Sessions, Untouched(tx[s]), NEW n, Recorded(n)
  PROVE  RecordedBy(s, n)
<1> DEFINE i == Feed[n]
           x == extid[OwnId(i)]
<1>1. OwnId(i) \in DOMAIN extid /\ RecordKey(i, x) \in DOMAIN entry /\ subject[x].listed
  BY DEF Recorded, RecordedIn
<1>2. x \in DOMAIN subject BY <1>1 DEF IdentityInv, IdsLead
<1>3. OwnId(i) \in DOMAIN Seen(s) /\ Seen(s)[OwnId(i)] = x
  BY <1>1 DEF Seen, Over, Untouched
<1>4. RecordKey(i, x) \in DOMAIN Over(tx[s].entries, entry) BY <1>1, OverDomain
<1>5. Merged(s)[x].listed
  BY <1>1, <1>2, MergedIsListed DEF MergedListed, Untouched
<1> QED BY <1>3, <1>4, <1>5 DEF RecordedBy, RecordedIn

LEMMA CursorCoveredStep ==
  ASSUME RecordsApart, IdentityInv, ListedStays, CursorCovered, [Next]_vars
  PROVE  CursorCovered'
<1> DEFINE Kinds(s) == /\ tx[s].pc # "idle" => tx[s].kind # "none"
                       /\ tx[s].pc \in {"insert", "pull"} => tx[s].kind = "sync" /\ Untouched(tx[s])
           From(s) == tx[s].kind = "sync" => \A n \in 1..tx[s].from : Recorded(n)
           Todo(s) == tx[s].kind = "sync" /\ tx[s].pc \in {"read", "write"} =>
                        /\ tx[s].todo \in Seq(ItemsOf(Feed))
                        /\ tx[s].next # 0 =>
                             /\ Passed(s) >= 0
                             /\ \A n \in 1..Passed(s) : RecordedBy(s, n)
                             /\ \A k \in 1..Len(tx[s].todo) : tx[s].todo[k] = Feed[Passed(s) + k]
           Holds(s) == Kinds(s) /\ From(s) /\ Todo(s)
<1>1. (\A n \in 1..cursor : Recorded(n)) /\ \A s \in Sessions : Holds(s)
  BY DEF CursorCovered
<1>2. (\A n \in 1..cursor' : Recorded(n)') /\ (\A s \in Sessions : Holds(s)') => CursorCovered'
  BY DEF CursorCovered
<1>3. \A n : Recorded(n) => Recorded(n)' BY RecordedGrows
<1>4. \A n \in 1..cursor : Recorded(n)' BY <1>1, <1>3
<1>5. ASSUME NEW s \in Sessions, tx'[s].kind = tx[s].kind, tx'[s].from = tx[s].from
      PROVE  From(s)'
  BY <1>1, <1>3, <1>5
<1>6. ASSUME NEW s \in Sessions, tx'[s] = NoTx PROVE Holds(s)' BY <1>6, NoTxEmpty
<1>7. ASSUME NEW s \in Sessions, tx'[s] = tx[s],
             DOMAIN subject' \cap DOMAIN tx[s].rows \subseteq DOMAIN subject
      PROVE  Holds(s)'
  <2>1. CASE tx[s] = NoTx BY <1>6, <1>7, <2>1
  <2>2. CASE tx[s] # NoTx
    <3>1. Grown(Seen(s), Seen(s)') BY <1>7, <2>2, SeenGrows DEF IdentityInv
    <3>2. \A n : RecordedBy(s, n) => RecordedBy(s, n)'
      BY <1>7, <3>1, RecordedByGrows DEF SameWrites
    <3>3. Passed(s)' = Passed(s) BY <1>7 DEF Passed
    <3>4. Todo(s)' BY <1>1, <1>7, <3>2, <3>3
    <3>5. Kinds(s)' BY <1>1, <1>7 DEF Untouched
    <3> QED BY <1>5, <1>7, <3>4, <3>5
  <2> QED BY <2>1, <2>2
<1>8. ASSUME NEW s \in Sessions, NEW t \in TxType, Moves(s, t),
             Opens(s, t) \/ Starts(s, t) \/ Inserts(s, t) \/ Pulls(s, t) \/ LooksUp(s, t)
      PROVE  Holds(s)'
  <2>1. tx'[s] = t /\ SameWrites(t, tx[s]) /\ UNCHANGED tables
    BY <1>8 DEF Moves, Becomes, tables
  <2>2. Untouched(NoTx) BY NoTxEmpty DEF Untouched
  <2>3. CASE Opens(s, t) BY <2>1, <2>3 DEF Opens
  <2>4. CASE Starts(s, t)
    <3>1. Untouched(t) BY <2>1, <2>2, <2>4 DEF Starts, SameWrites, Untouched
    <3>2. From(s)' BY <1>4, <2>1, <2>4 DEF Starts
    <3> QED BY <2>1, <2>4, <3>1, <3>2 DEF Starts
  <2>5. CASE Inserts(s, t)
    <3>1. tx[s].kind = "sync" /\ Untouched(tx[s]) BY <1>1, <2>5 DEF Inserts
    <3>2. Untouched(t) BY <2>1, <3>1 DEF SameWrites, Untouched
    <3> QED BY <1>5, <2>1, <2>5, <3>1, <3>2 DEF Inserts
  <2>6. CASE Pulls(s, t)
    <3>1. tx[s].kind = "sync" /\ Untouched(tx[s]) BY <1>1, <2>6 DEF Pulls
    <3>2. \A n \in 1..tx[s].from : RecordedBy(s, n)
      BY <1>1, <3>1, RecordedForPull
    <3>3. \A n : RecordedBy(s, n) => RecordedBy(s, n)'
      BY <2>1 DEF RecordedBy, RecordedIn, OwnId, RecordKey, Seen, Over, Merged, SameWrites, tables
    <3>4. Passed(s)' = t.next - Len(t.todo) BY <2>1 DEF Passed
    <3>5. t.from = tx[s].from /\ t.from \in Nat BY <1>8, <2>6 DEF Pulls, TxType
    <3>6. t.todo \in Seq(ItemsOf(Feed)) BY <2>6 DEF Pulls
    <3>7. t.next # 0 => /\ t.next - Len(t.todo) = t.from
                        /\ \A k \in 1..Len(t.todo) : t.todo[k] = Feed[t.from + k]
      BY <2>6 DEF Pulls
    <3>8. Todo(s)' BY <2>1, <3>2, <3>3, <3>4, <3>5, <3>6, <3>7
    <3> QED BY <1>5, <2>1, <2>6, <3>1, <3>8 DEF Pulls
  <2>7. CASE LooksUp(s, t)
    <3>1. \A n : RecordedBy(s, n) => RecordedBy(s, n)'
      BY <2>1 DEF RecordedBy, RecordedIn, OwnId, RecordKey, Seen, Over, Merged, SameWrites, tables
    <3>2. Passed(s)' = Passed(s) BY <2>1, <2>7 DEF Passed, LooksUp
    <3>3. Todo(s)' BY <1>1, <2>1, <2>7, <3>1, <3>2 DEF LooksUp
    <3>4. Kinds(s)' BY <1>1, <2>1, <2>7 DEF LooksUp
    <3> QED BY <1>5, <2>1, <2>7, <3>3, <3>4 DEF LooksUp
  <2> QED BY <1>8, <2>3, <2>4, <2>5, <2>6, <2>7
<1>9. ASSUME NEW s \in Sessions, NEW x \in Target(s), Writes(s, x) PROVE Holds(s)'
  <2>1. tx'[s] = Written(s, x) /\ tx[s].pc = "write" /\ tx[s] \in TxType
    BY <1>9, WritesFields DEF Becomes, IdentityInv, IdentityTypeOK
  <2>2. /\ tx'[s].pc = "read" /\ tx'[s].kind = tx[s].kind /\ tx'[s].from = tx[s].from
        /\ tx'[s].next = tx[s].next /\ tx'[s].todo = Tail(tx[s].todo)
    BY <2>1, WrittenTyped DEF IdentityInv
  <2>3. Todo(s)'
    <3> SUFFICES ASSUME tx[s].kind = "sync" PROVE Todo(s)' BY <2>2
    <3>1. /\ tx[s].todo \in Seq(ItemsOf(Feed)) /\ tx[s].todo # <<>>
          /\ tx[s].next # 0 =>
               /\ Passed(s) >= 0
               /\ \A n \in 1..Passed(s) : RecordedBy(s, n)
               /\ \A k \in 1..Len(tx[s].todo) : tx[s].todo[k] = Feed[Passed(s) + k]
      BY <1>1, <2>1 DEF IdentityInv, LookedUp
    <3>2. /\ RecordedIn(Item(s), Seen(s)', Over(tx'[s].entries, entry'), Merged(s)')
          /\ \A n : RecordedBy(s, n) => RecordedBy(s, n)'
      BY <1>9, WrittenIsRecorded
    <3>3. /\ Tail(tx[s].todo) \in Seq(ItemsOf(Feed))
          /\ Len(Tail(tx[s].todo)) = Len(tx[s].todo) - 1 /\ Len(tx[s].todo) \in Nat \ {0}
          /\ \A k \in 1..(Len(tx[s].todo) - 1) : Tail(tx[s].todo)[k] = tx[s].todo[k + 1]
          /\ Item(s) = tx[s].todo[1]
      BY <3>1 DEF Item
    <3>4. Passed(s)' = Passed(s) + 1 /\ Passed(s) \in Int
      BY <2>1, <2>2, <3>3 DEF Passed, TxType
    <3>5. CASE tx[s].next = 0 BY <2>2, <3>3, <3>5
    <3>6. CASE tx[s].next # 0
      <4>1. Item(s) = Feed[Passed(s) + 1] BY <3>1, <3>3, <3>6
      <4>2. ASSUME NEW n, n = Passed(s) + 1 PROVE RecordedBy(s, n)'
        <5>1. Item(s) = Feed[n] BY <4>1, <4>2
        <5> QED BY <3>2, <5>1 DEF RecordedBy
      <4>3. \A n \in 1..(Passed(s) + 1) : RecordedBy(s, n)'
        BY <3>1, <3>2, <3>4, <3>6, <4>2
      <4>4. \A k \in 1..(Len(tx[s].todo) - 1) :
              Tail(tx[s].todo)[k] = Feed[Passed(s) + 1 + k]
        BY <3>1, <3>3, <3>4, <3>6
      <4> QED BY <2>2, <3>1, <3>3, <3>4, <3>6, <4>3, <4>4
    <3> QED BY <3>5, <3>6
  <2>4. Kinds(s)' BY <1>1, <2>1, <2>2
  <2> QED BY <1>5, <2>2, <2>3, <2>4
<1> HIDE DEF Holds
<1>10. CASE Resets
  <2>1. \A n \in 1..cursor' : Recorded(n)' BY <1>4, <1>10 DEF Resets
  <2> QED BY <1>2, <1>6, <1>7, <1>10, <2>1 DEF Resets
<1>11. CASE Moved
  BY <1>2, <1>4, <1>7, <1>8, <1>11 DEF Moved, Moves, Becomes, Others, tables
<1>12. ASSUME NEW s \in Sessions, NEW x \in Target(s), Writes(s, x) PROVE CursorCovered'
  BY <1>2, <1>4, <1>7, <1>9, <1>12, WritesFields DEF Becomes, Others, tables, IdentityInv
<1>13. ASSUME NEW s \in Sessions, Commit(s) PROVE CursorCovered'
  <2>1. /\ tx'[s] = NoTx /\ \A r \in Sessions \ {s} : tx'[r] = tx[r]
        /\ DOMAIN subject' = DOMAIN subject \cup DOMAIN tx[s].rows
        /\ tx[s].pc = "read" /\ tx[s].todo = <<>> /\ tx[s] \in TxType
    BY <1>13, CommitFields, MergedFacts DEF Becomes, Others, IdentityInv, IdentityTypeOK
  <2>2. \A r \in Sessions \ {s} : DOMAIN subject' \cap DOMAIN tx[r].rows \subseteq DOMAIN subject
    BY <2>1 DEF IdentityInv, HeldApart
  <2>3. \A n : RecordedBy(s, n) => Recorded(n)'
    BY <1>13, CommitFields DEF IdentityInv, RecordedBy, Recorded, RecordedIn, OwnId, RecordKey
  <2>4. ASSUME tx[s].kind # "page", cursor' = tx[s].next
        PROVE  \A n \in 1..cursor' : Recorded(n)'
    <3>1. tx[s].kind = "sync" BY <1>1, <2>1, <2>4 DEF Holds, TxType
    <3>2. tx[s].next # 0 => Passed(s) = tx[s].next BY <2>1 DEF Passed, TxType
    <3>3. tx[s].next # 0 => \A n \in 1..tx[s].next : RecordedBy(s, n)
      BY <1>1, <2>1, <3>1, <3>2 DEF Holds
    <3> QED BY <2>3, <2>4, <3>3
  <2>5. \A n \in 1..cursor' : Recorded(n)' BY <1>4, <1>13, <2>4, CommitFields DEF IdentityInv
  <2> QED BY <1>2, <1>6, <1>7, <2>1, <2>2, <2>5
<1>14. ASSUME NEW u \in Followers, CommitFollow(u) PROVE CursorCovered'
  BY <1>2, <1>4, <1>7, <1>14, CommitFollowFields DEF IdentityInv
<1> QED BY <1>10, <1>11, <1>12, <1>13, <1>14, StepKinds DEF IdentityInv

WatchlistInv == IdentityInv /\ ListedStays /\ EntriesLead /\ CursorCovered

LEMMA WatchlistInit == Init => WatchlistInv
<1> SUFFICES ASSUME Init PROVE WatchlistInv OBVIOUS
<1>1. IdentityInv BY IdentityInit
<1>2. /\ \A s \in Sessions : tx[s] = NoTx
      /\ DOMAIN entry = {} /\ DOMAIN subject = {} /\ cursor = -1
  BY PartialEmpty DEF Init, Absent
<1>3. ListedStays BY <1>2, NoTxEmpty DEF ListedStays
<1>4. EntriesLead BY <1>2, NoTxEmpty DEF EntriesLead, EntryLeads
<1>5. CursorCovered BY <1>2, NoTxEmpty DEF CursorCovered
<1> QED BY <1>1, <1>3, <1>4, <1>5 DEF WatchlistInv

\* Pulls of both processes, restarts of the list, conflicts, failures and kills
\* included, the committed cursor never passes an item that has no entry, for the
\* subject of its own id, or whose subject is not on the watchlist (sync).
THEOREM NothingSkippedCorrect ==
  ASSUME RecordsApart
  PROVE  Spec => []NothingSkipped
<1>1. WatchlistInv /\ [Next]_vars => WatchlistInv'
  BY IdentityStep, ListedStaysStep, EntriesLeadStep, CursorCoveredStep DEF WatchlistInv
<1>2. WatchlistInv => NothingSkipped
  <2> SUFFICES ASSUME WatchlistInv, NEW n \in 1..cursor
               PROVE  \E x \in DOMAIN subject :
                        LET i == Feed[n] IN
                          /\ <<i.provider, i.own>> \in DOMAIN extid
                          /\ extid[<<i.provider, i.own>>] = x
                          /\ RecordKey(i, x) \in DOMAIN entry /\ entry[RecordKey(i, x)] = x
                          /\ subject[x].listed
    BY DEF NothingSkipped
  <2> DEFINE i == Feed[n]
             x == extid[OwnId(i)]
  <2>1. OwnId(i) \in DOMAIN extid /\ RecordKey(i, x) \in DOMAIN entry /\ subject[x].listed
    BY DEF WatchlistInv, CursorCovered, Recorded, RecordedIn
  <2>2. x \in DOMAIN subject /\ x \in Subjects
    BY <2>1, PartialIn DEF WatchlistInv, IdentityInv, IdsLead, IdentityTypeOK
  <2>3. i \in ItemsOf(Feed)
    BY MediaAssumption DEF WatchlistInv, IdentityInv, IdentityTypeOK, Absent, ItemsOf
  <2>4. entry[RecordKey(i, x)] = x
    BY <2>1, <2>2, <2>3 DEF WatchlistInv, EntriesLead, EntryLeads, RecordKey
  <2> QED BY <2>1, <2>2, <2>4 DEF OwnId
<1> QED BY <1>1, <1>2, WatchlistInit, PTL DEF Spec

-----------------------------------------------------------------------------
(* Works                                                                     *)

\* A write gives the new ids of an item to the subject its known ids lead to, or
\* to one that no id leads to (Write).
LEMMA WriteApart ==
  ASSUME IdsTellWorks, IdentityTypeOK, IdsLead, LookedUp, HeldApart, SeenApart,
         NEW s \in Sessions, NEW x \in Target(s), Writes(s, x)
  PROVE  WorksApart(Seen(s)')
<1>1. /\ tx'[s] = Written(s, x) /\ extid' = extid /\ tx[s].pc = "write" /\ Item(s) \in Items
  BY WritesFields DEF Becomes, tables
<1>2. /\ DOMAIN tx'[s].ids = NewIds(s) \cup DOMAIN tx[s].ids
      /\ \A id \in NewIds(s) : tx'[s].ids[id] = x
      /\ \A id \in DOMAIN tx[s].ids : tx'[s].ids[id] = tx[s].ids[id]
      /\ NewIds(s) \cap DOMAIN tx[s].ids = {} /\ NewIds(s) \cap DOMAIN extid = {}
  BY <1>1, WrittenParts DEF Writes, RefusedIds
<1>3. /\ DOMAIN Seen(s)' = NewIds(s) \cup DOMAIN Seen(s)
      /\ \A id \in NewIds(s) : Seen(s)'[id] = x
      /\ \A id \in DOMAIN Seen(s) : Seen(s)'[id] = Seen(s)[id]
  BY <1>1, <1>2 DEF Seen, Over
<1>4. \A i \in Items : \A a \in NewIds(s) : a \in Ids(i) => i.work = Item(s).work
  BY <1>1 DEF NewIds, IdsTellWorks
<1>5. ASSUME NEW j \in Items, NEW b \in Ids(j) \cap DOMAIN Seen(s), Seen(s)[b] = x
      PROVE  j.work = Item(s).work
  <2>1. CASE Fresh(s)
    <3>1. x \notin DOMAIN subject \cup DOMAIN tx[s].rows BY <1>1, <2>1, TargetFacts
    <3> QED BY <1>5, <3>1, SeenLeads
  <2>2. CASE ~Fresh(s)
    <3>1. x \in DOMAIN tx[s].loaded BY <1>1, <2>2, TargetFacts
    <3>2. PICK id \in tx[s].known : id \in DOMAIN Seen(s) /\ Seen(s)[id] = x
      BY <1>1, <2>2, <3>1 DEF LookedUp, Fresh
    <3>3. id \in Ids(Item(s)) BY <1>1 DEF LookedUp
    <3> QED BY <1>1, <1>5, <3>2, <3>3 DEF SeenApart, WorksApart
  <2> QED BY <2>1, <2>2
<1>6. WorksApart(Seen(s)) BY DEF SeenApart
<1> QED BY <1>3, <1>4, <1>5, <1>6 DEF WorksApart

\* What two transactions have written never leads to one subject: its row is
\* locked by one of them (Commit).
LEMMA CommitApart ==
  ASSUME IdentityTypeOK, IdsLead, HeldApart, SeenApart,
         NEW s \in Sessions, NEW r \in Sessions, r # s
  PROVE  WorksApart(Over(tx[r].ids, Seen(s)))
<1> DEFINE both == Over(tx[r].ids, Seen(s))
<1>1. /\ DOMAIN both = DOMAIN tx[r].ids \cup DOMAIN tx[s].ids \cup DOMAIN extid
      /\ \A id \in DOMAIN tx[r].ids \cup DOMAIN extid : id \in DOMAIN Seen(r) /\ both[id] = Seen(r)[id]
      /\ \A id \in DOMAIN tx[s].ids \cup DOMAIN extid : id \in DOMAIN Seen(s) /\ both[id] = Seen(s)[id]
  BY DEF Seen, Over, IdsLead, HeldApart
<1>2. ASSUME NEW a \in DOMAIN tx[r].ids, NEW b \in DOMAIN tx[s].ids PROVE both[a] # both[b]
  <2>1. both[a] \in DOMAIN tx[r].rows /\ both[b] \in DOMAIN tx[s].rows
    BY <1>1 DEF Seen, Over, IdsLead
  <2> QED BY <2>1 DEF HeldApart
<1>3. WorksApart(Seen(r)) /\ WorksApart(Seen(s)) BY DEF SeenApart
<1> HIDE DEF both
<1>4. WorksApart(both) BY <1>1, <1>2, <1>3 DEF WorksApart
<1> QED BY <1>4 DEF both

LEMMA SeenApartStep ==
  ASSUME IdsTellWorks, IdentityInv, SeenApart, [Next]_vars
  PROVE  SeenApart'
<1> USE DEF IdentityInv
<1>1. ASSUME NEW r \in Sessions, extid' = extid, tx'[r].ids = tx[r].ids
      PROVE  WorksApart(Seen(r)')
  BY <1>1 DEF SeenApart, Seen
<1>2. ASSUME NEW r \in Sessions, tx'[r] = NoTx, WorksApart(extid')
      PROVE  WorksApart(Seen(r)')
  <2>1. DOMAIN Seen(r)' = DOMAIN extid' /\ \A id \in DOMAIN extid' : Seen(r)'[id] = extid'[id]
    BY <1>2, NoTxEmpty DEF Seen, Over
  <2> QED BY <1>2, <2>1 DEF WorksApart
<1>3. CASE Resets BY <1>1, <1>2, <1>3 DEF Resets, SeenApart
<1>4. CASE Moved
  BY <1>1, <1>4 DEF Moved, Moves, tables, Becomes, Others, SameWrites, SeenApart
<1>5. ASSUME NEW s \in Sessions, NEW x \in Target(s), Writes(s, x) PROVE SeenApart'
  BY <1>1, <1>5, WriteApart, WritesFields DEF Becomes, Others, tables, SeenApart
<1>6. ASSUME NEW s \in Sessions, Commit(s) PROVE SeenApart'
  <2>1. /\ tx'[s] = NoTx /\ \A r \in Sessions \ {s} : tx'[r] = tx[r]
        /\ extid' = Seen(s)
    BY <1>6, CommitFields DEF Becomes, Others
  <2>2. WorksApart(extid') BY <2>1 DEF SeenApart
  <2>3. ASSUME NEW r \in Sessions \ {s} PROVE WorksApart(Seen(r)')
    <3>1. Seen(r)' = Over(tx[r].ids, Seen(s)) BY <2>1 DEF Seen
    <3> QED BY <3>1, CommitApart
  <2> QED BY <1>2, <2>1, <2>2, <2>3 DEF SeenApart
<1>7. ASSUME NEW u \in Followers, CommitFollow(u) PROVE SeenApart'
  BY <1>1, <1>7, CommitFollowFields DEF SeenApart
<1> QED BY <1>3, <1>4, <1>5, <1>6, <1>7, StepKinds

\* Two works are merged only where an id belongs to both: no interleaving of
\* pages and pulls, no failure and no kill gives the ids of two works to one
\* subject (upsert_item). The run find_identity shows what happens without the
\* assumption.
THEOREM NoSilentMergeCorrect ==
  ASSUME IdsTellWorks
  PROVE  Spec => []NoSilentMerge
<1>1. Init => IdentityInv /\ SeenApart
  <2> SUFFICES ASSUME Init PROVE SeenApart BY IdentityInit
  <2>1. DOMAIN extid = {} /\ \A s \in Sessions : tx[s] = NoTx BY PartialEmpty DEF Init
  <2>2. ASSUME NEW s \in Sessions PROVE DOMAIN Seen(s) = {}
    <3>1. DOMAIN Seen(s) = DOMAIN tx[s].ids \cup DOMAIN extid BY OverDomain DEF Seen
    <3> QED BY <3>1, <2>1, NoTxEmpty
  <2> QED BY <2>1, <2>2 DEF SeenApart, WorksApart
<1>2. IdentityInv /\ SeenApart /\ [Next]_vars => (IdentityInv /\ SeenApart)'
  BY IdentityStep, SeenApartStep
<1>3. IdentityInv /\ SeenApart => NoSilentMerge
  <2> SUFFICES ASSUME IdentityInv, SeenApart, NEW i \in kept, NEW j \in kept,
                      extid[OwnId(i)] = extid[OwnId(j)]
               PROVE  i.work = j.work
    BY DEF NoSilentMerge, OwnId
  <2>1. i \in Items /\ j \in Items BY DEF IdentityInv, IdentityTypeOK
  <2>2. /\ OwnId(i) \in Ids(i) \cap DOMAIN extid /\ OwnId(j) \in Ids(j) \cap DOMAIN extid
    BY OwnIdIn DEF IdentityInv, DoneTogether, Together
  <2> QED BY <2>1, <2>2 DEF SeenApart, WorksApart
<1> QED BY <1>1, <1>2, <1>3, PTL DEF Spec
=============================================================================

------------------------------ MODULE MCMedia ------------------------------
(* An instance of the identities and the watchlist, one of the pages,       *)
(* details and batches, and one of the searches and favourites.  To keep    *)
(* the state space small, two are at rest while the third moves.            *)
EXTENDS MediaIdentity, MediaDiscovery, TLC

CONSTANTS p1, p2, S, imdb, Movie, Series
Item0 == [provider |-> p1, own |-> 1, space |-> None, others |-> <<>>, year |-> None,
          record |-> None, work |-> 1]

\* The watchlist of p1, and what p2 finds: the work of f1 by a namespace both
\* know, and an item that has the ids of f1 and of f2.
f1 == [Item0 EXCEPT !.space = S, !.record = 7]
f2 == [Item0 EXCEPT !.own = 2, !.others = (imdb :> 9)]
q1 == [Item0 EXCEPT !.provider = p2, !.space = S, !.year = 1990]
q2 == [Item0 EXCEPT !.provider = p2, !.own = 3, !.others = (imdb :> 9) @@ (S :> 1)]
MCFeed == <<f1, f2>>
MCPages == {<<q1>>, <<q2>>}

\* A movie and a series of one platform with the same number.
movie == [Item0 EXCEPT !.space = Movie]
series == [Item0 EXCEPT !.space = Series, !.work = 2]
MCTwoWorks == {<<movie>>, <<series>>}

\* Everybody asks for one page; batches are asked beside searches only, and
\* one at a time.
CONSTANT find
VARIABLE page

Symmetry == Permutations(Browsers)
Batches(requests) == {r \in Browsers : requests[r].kind \in {"years", "snapshots"}}
OnePage ==
  /\ \A r \in Browsers : req'[r].key \in Queries => req'[r].key = page
  /\ Cardinality(Batches(req')) <= (IF page = find THEN 1 ELSE 0)

\* Two sources, which find one title under two ids, links they share, a title
\* that promises more links, and one that matches better.
CONSTANTS A, B, t1, t2, t3, la, lb, h1, NoSource
Title(id, key, fit, links, more) ==
  [id |-> id, key |-> key, fit |-> fit, links |-> links, more |-> more]
Plain == Title(t1, 1, 0, <<la, lb, la>>, FALSE)
Spelled == Title(t2, 1, 0, <<lb>>, FALSE)
Promising == Title(t1, 1, 0, <<>>, TRUE)
Better(links) == Title(t3, 2, 3, links, FALSE)
MCOffers == (A :> {<<Plain>>, <<Promising, Better(<<lb>>)>>})
            @@ (B :> {<<Spelled, Better(<<la, lb>>)>>, <<Better(<<>>), Spelled>>})
VARIABLES registered, source, resource, link, search
libraryState == <<registered, source, resource, link, search>>
Library == INSTANCE ResourceLibrary WITH
  Searchers <- {h1}, SourceOrder <- <<A, B>>, TitleIds <- {t1, t2, t3}, Links <- {la, lb},
  Offers <- MCOffers, Limit <- 2

\* What a search finds does not depend on the rows: one is enough beside it, and
\* two are enough to take links from each other.
FewRows == t3 \notin DOMAIN resource' /\ (Cardinality(DOMAIN resource') > 1 => search'[h1].pc = "idle")

ASSUME Library!LibraryAssumption

LibraryAtRest == Library!LibraryInit /\ registered = {}

MCInit ==
  /\ Init /\ DiscoveryInit /\ Library!LibraryInit
  /\ page \in IF LibraryAtRest THEN Queries ELSE {find}
MCNext ==
  \/ DiscoveryInit /\ LibraryAtRest /\ page = find /\ Next
     /\ UNCHANGED <<discoveryVars, libraryState, page>>
  \/ Init /\ LibraryAtRest /\ DiscoveryNext /\ OnePage
     /\ UNCHANGED <<vars, libraryState, page>>
  \/ Init /\ DiscoveryInit /\ page = find /\ Library!LibraryNext /\ FewRows
     /\ UNCHANGED <<vars, discoveryVars, page>>
MCSpec == MCInit /\ [][MCNext]_<<vars, discoveryVars, libraryState, page>>

ResultsFaithful == Library!ResultsFaithful
=============================================================================

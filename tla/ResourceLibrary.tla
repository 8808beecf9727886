--------------------------- MODULE ResourceLibrary ---------------------------
(* Searches over the sources of the plugins, and the favourites a user keeps *)
(* of what they find (services/search_service.py, source_service.py,         *)
(* resource_library_service.py and their routes).  All of it runs on the     *)
(* event loop of the API, so what lies between two awaits is one action; a   *)
(* search awaits its sources and then the checks of the links.               *)
(*                                                                           *)
(* A title is what a source finds: a record of id, key (normalized title and *)
(* year), fit (how well it matches the query), links, a sequence of link     *)
(* ids, and more (has_more_links).  A request that the database or a missing *)
(* row refuses changes nothing and is no step.                               *)
EXTENDS Integers, Sequences, FiniteSets, SequencesExt

CONSTANTS
  Searchers,
  SourceOrder,  \* the sources in the order of the registry
  TitleIds, Links,
  Offers,       \* what each source may answer: sequences of titles
  Limit,
  NoSource

Sources == ToSet(SourceOrder)

LibraryAssumption ==
  /\ Limit \in Nat \ {0} /\ NoSource \notin Sources
  /\ \A s \in Sources : \A found \in Offers[s] : \A i \in DOMAIN found :
       found[i].id \in TitleIds /\ ToSet(found[i].links) \subseteq Links

VARIABLES
  registered,  \* the sources the plugins have registered
  source,      \* rows of sources
  resource,    \* rows of resources: from ids to whether it is a favourite
  link,        \* rows of resource_links: the resource and the source of each
  search

rows == <<source, resource, link>>
libraryVars == <<registered, source, resource, link, search>>

NoSearch == [pc |-> "idle", asked |-> {}, found |-> <<>>]

LibraryInit ==
  /\ registered \in SUBSET Sources
  /\ source = {} /\ resource = <<>> /\ link = <<>>
  /\ search = [r \in Searchers |-> NoSearch]

-----------------------------------------------------------------------------
(* What an answer shows: duplicate links are dropped, titles with one key    *)
(* become one, and the best come first.                                      *)

\* Mutant: only the links of the same title are compared.
FreshLinksOfTitle(title, seen) == FoldLeft(LAMBDA all, l : IF Contains(all, l) THEN all ELSE Append(all, l),
                                           <<>>, title.links)

\* The links that are in no earlier title, and each of them once.
FreshLinks(title, seen) ==
  FoldLeft(LAMBDA all, l : IF l \in seen \/ Contains(all, l) THEN all ELSE Append(all, l),
           <<>>, title.links)

\* A title joins the one with its key, which keeps its id and its "more".
Joined(titles, title) ==
  LET same == {i \in DOMAIN titles : titles[i].key = title.key} IN
    IF same = {} THEN Append(titles, title)
    ELSE [i \in DOMAIN titles |->
            IF i \in same THEN [titles[i] EXCEPT !.links = @ \o title.links] ELSE titles[i]]

Dedupe(titles) ==
  FoldLeft(LAMBDA acc, title :
             LET fresh == FreshLinks(title, acc.seen)
             IN [seen |-> acc.seen \cup ToSet(fresh),
                 kept |-> IF fresh = <<>> /\ ~title.more THEN acc.kept
                          ELSE Joined(acc.kept, [title EXCEPT !.links = fresh])],
           [seen |-> {}, kept |-> <<>>], titles).kept

Score(title) == title.fit + (IF title.links # <<>> THEN 2 ELSE 0)

\* Stable, the highest score first.
Ranked(titles) ==
  LET insert(sorted, title) ==
        LET n == Cardinality({i \in DOMAIN sorted : Score(sorted[i]) >= Score(title)})
        IN InsertAt(sorted, n + 1, title)
      best == FoldLeft(insert, <<>>, titles)
  IN SubSeq(best, 1, IF Len(best) < Limit THEN Len(best) ELSE Limit)

\* _normalize drops what has neither links nor more of them.
Normalized(titles) == SelectSeq(titles, LAMBDA title : title.links # <<>> \/ title.more)

Found(r, s) == IF s \in DOMAIN search[r].found THEN search[r].found[s] ELSE <<>>
FoundAll(r) == FoldLeft(LAMBDA all, s : all \o Found(r, s), <<>>, SourceOrder)

Results(r) == Ranked(Dedupe(Normalized(FoundAll(r))))
SourceResults(r, s) == Ranked(Dedupe(Normalized(Found(r, s))))

-----------------------------------------------------------------------------
(* A search                                                                  *)

\* sync_registered_sources: rows of sources that are not registered any more go,
\* and the favourites that came from them forget it.
SyncSources ==
  /\ source' = registered
  /\ link' = [l \in DOMAIN link |->
       IF link[l].source \in registered THEN link[l] ELSE [link[l] EXCEPT !.source = NoSource]]

Ask(r) ==
  /\ search[r] = NoSearch
  /\ search' = [search EXCEPT ![r] = [NoSearch EXCEPT !.pc = "asking", !.asked = registered]]

Search(r) ==
  /\ Ask(r) /\ SyncSources
  /\ UNCHANGED <<registered, resource>>

\* refresh_resource searches for the title of a row, and does not look at the
\* rows of sources.
Refresh(r, i) ==
  /\ i \in DOMAIN resource /\ Ask(r)
  /\ UNCHANGED <<registered, rows>>

\* _safe_search: a source that fails, or takes longer than ten seconds, counts as
\* one that has found nothing; what it says later is dropped.
SourceEnds(r, s) ==
  /\ search[r].pc = "asking" /\ s \in search[r].asked \ DOMAIN search[r].found
  /\ \E titles \in Offers[s] \cup {<<>>} :
       search' = [search EXCEPT ![r].found =
                    [t \in DOMAIN @ \cup {s} |-> IF t = s THEN titles ELSE @[t]]]
  /\ UNCHANGED <<registered, rows>>

\* All sources have ended: the results are made, and their links are checked.
Validate(r) ==
  /\ search[r].pc = "asking" /\ DOMAIN search[r].found = search[r].asked
  /\ search' = [search EXCEPT ![r].pc = "validating"]
  /\ UNCHANGED <<registered, rows>>

\* The favourites among the results are marked, and the answer is sent.
Answer(r) ==
  /\ search[r].pc = "validating"
  /\ search' = [search EXCEPT ![r] = NoSearch]
  /\ UNCHANGED <<registered, rows>>

-----------------------------------------------------------------------------
(* Favourites.  A client may have any older answer before it.                *)

\* list_sources and get_source
ListSources ==
  /\ SyncSources
  /\ UNCHANGED <<registered, resource, search>>

\* The foreign key of the source of a link.
Refers(from) == from \in source \cup {NoSource}

\* The links of a title become its own, whoever had them before; from is the
\* source of each.
FavouriteResource(i, from) ==
  /\ \A l \in DOMAIN from : Refers(from[l])
  /\ resource' = [j \in DOMAIN resource \cup {i} |-> IF j = i THEN TRUE ELSE resource[j]]
  /\ link' = [l \in DOMAIN link \cup DOMAIN from |->
       IF l \in DOMAIN from THEN [resource |-> i, source |-> from[l]] ELSE link[l]]
  /\ UNCHANGED <<registered, source, search>>

UnfavouriteResource(i) ==
  /\ i \in DOMAIN resource
  /\ resource' = [resource EXCEPT ![i] = FALSE]
  /\ UNCHANGED <<registered, source, link, search>>

FavouriteLink(l, i, from) ==
  /\ Refers(from)
  /\ resource' = [j \in DOMAIN resource \cup {i} |-> IF j \in DOMAIN resource THEN resource[j] ELSE FALSE]
  /\ link' = [k \in DOMAIN link \cup {l} |->
       IF k = l THEN [resource |-> i, source |-> from] ELSE link[k]]
  /\ UNCHANGED <<registered, source, search>>

LinksOf(i) == {l \in DOMAIN link : link[l].resource = i}

\* Nothing keeps the row of the resource once the link has gone.
Orphaned(i, l) == ~resource[i] /\ LinksOf(i) = {l}

UnfavouriteLink(l) ==
  /\ l \in DOMAIN link
  /\ link' = [k \in DOMAIN link \ {l} |-> link[k]]
  /\ resource' = [i \in {j \in DOMAIN resource : ~(j = link[l].resource /\ Orphaned(j, l))} |-> resource[i]]
  /\ UNCHANGED <<registered, source, search>>

-----------------------------------------------------------------------------
\* A plugin is enabled, disabled, updated or removed.
PluginsChange ==
  /\ registered' \in SUBSET Sources
  /\ UNCHANGED <<rows, search>>

LibraryNext ==
  \/ \E r \in Searchers :
       \/ Search(r) \/ Validate(r) \/ Answer(r)
       \/ \E i \in TitleIds : Refresh(r, i)
       \/ \E s \in Sources : SourceEnds(r, s)
  \/ ListSources \/ PluginsChange
  \/ \E i \in TitleIds, links \in SUBSET Links : \E from \in [links -> Sources \cup {NoSource}] :
       FavouriteResource(i, from)
  \/ \E i \in TitleIds : UnfavouriteResource(i)
  \/ \E l \in Links, i \in TitleIds, from \in Sources \cup {NoSource} : FavouriteLink(l, i, from)
  \/ \E l \in Links : UnfavouriteLink(l)

LibrarySpec == LibraryInit /\ [][LibraryNext]_libraryVars
-----------------------------------------------------------------------------
LibraryTypeOK ==
  /\ registered \subseteq Sources /\ source \subseteq Sources
  /\ DOMAIN resource \subseteq TitleIds /\ DOMAIN link \subseteq Links
  /\ \A l \in DOMAIN link : link[l].resource \in DOMAIN resource /\ Refers(link[l].source)
  /\ \A r \in Searchers : search[r].pc \in {"idle", "asking", "validating"}

LinkIds(titles) == UNION {ToSet(titles[i].links) : i \in DOMAIN titles}

\* A list shows no link twice and no key twice and, unless the limit cuts it, every
\* link that was found.
Faithful(shown, titles) ==
  /\ \A i, j \in DOMAIN shown : i # j => /\ shown[i].key # shown[j].key
                                         /\ ToSet(shown[i].links) \cap ToSet(shown[j].links) = {}
  /\ \A i \in DOMAIN shown : IsInjective(shown[i].links)
  /\ Len(shown) < Limit => LinkIds(shown) = LinkIds(titles)

\* Whichever sources answer, fail or are late, the answer and the part of it that
\* belongs to each source are faithful to what was found in time.
ResultsFaithful ==
  \A r \in Searchers : search[r].pc = "validating" =>
    /\ Faithful(Results(r), FoundAll(r))
    /\ \A s \in search[r].asked : Faithful(SourceResults(r, s), Found(r, s))

\* Refuted: a title that has more links keeps the hint when it is joined to one
\* that has not.
MoreIsKept ==
  \A r \in Searchers : search[r].pc = "validating" =>
    \A i \in DOMAIN FoundAll(r) : \E j \in DOMAIN Results(r) :
      FoundAll(r)[i].key = Results(r)[j].key /\ (FoundAll(r)[i].more => Results(r)[j].more)

\* Refuted: every row of a resource is a favourite or has a link that is one.
NoLeftOver == \A i \in DOMAIN resource : resource[i] \/ LinksOf(i) # {}

\* Refuted: what an answer shows refers to a row of its source, so that it can be
\* made a favourite.
ShownIsKnown == \A r \in Searchers : search[r].pc = "validating" => search[r].asked \subseteq source
==============================================================================

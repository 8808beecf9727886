----------------------------- MODULE MCStorage -----------------------------
(* An instance of the pool, one of the operations of a writer and one of the *)
(* configuration of the libraries.  None touches the state of the others; to *)
(* keep the state space small, two are at rest while the third moves.        *)
EXTENDS SmbPool, SmbFiles, LibraryConfig, TLC

CONSTANTS p1, p2, media

Base(trail) == [lead |-> TRUE, dir |-> media, trail |-> trail]
MCConfigs == {[server |-> 1, base |-> Base(FALSE), password |-> p1],
              [server |-> 1, base |-> Base(TRUE), password |-> p2]}

\* The base path /a with two names x and y in it, each of which may be a
\* directory with an entry z; /b is not below the base path.
CONSTANTS a, b, x, y, z
MCNodes == {<<>>, <<a>>, <<b>>, <<a, x>>, <<a, y>>, <<a, x, z>>, <<a, y, z>>}
MCBase == <<a>>
MCRaw == {<<>>, <<x>>, <<y>>, <<Up, b>>}
MCDisputed == {<<a, x>>, <<a, y>>, <<a, x, z>>}

\* One connection, one library on each side and two media types.
CONSTANT movie
LocalMovies == \A l \in DOMAIN local' : local'[l].type = movie

MCInit == Init /\ FilesInit /\ LibrariesInit
MCNext ==
  \/ FilesInit /\ LibrariesInit /\ Next /\ UNCHANGED <<filesVars, librariesVars>>
  \/ Init /\ LibrariesInit /\ FilesNext /\ UNCHANGED <<vars, librariesVars>>
  \/ Init /\ FilesInit /\ LibrariesNext /\ LocalMovies /\ UNCHANGED <<vars, filesVars>>
MCSpec == /\ MCInit /\ [][MCNext]_<<vars, filesVars, librariesVars>>
          /\ WF_vars(Tick) /\ WF_vars(Cleanup)
============================================================================

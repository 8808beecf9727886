---------------------------- MODULE LibraryConfig ----------------------------
(* SMB connections, local and remote media libraries, sync bindings and the  *)
(* rows of seen files: services/smb_connection_service.py,                   *)
(* media_library_service.py, remote_media_library_service.py and the part of *)
(* sync_service.py that is about bindings.                                   *)
(*                                                                           *)
(* A request of the API is one transaction without an await, so one step;    *)
(* the tests of a connection or library await the network between reading    *)
(* the row and recording the result.  Scans and creations of tasks (of the   *)
(* worker) are transactions with awaits in them: what they have written is   *)
(* locked, and invisible to others, until they commit.                       *)
(*                                                                           *)
(* The tables are functions on the ids that exist.  A commit that would      *)
(* break a foreign key is refused as a whole (IntegrityError).               *)
EXTENDS Naturals, Functions

CONSTANTS
  Conns, Locals, Remotes,  \* ids that rows may have
  Bindings,                \* ids of bindings; an implicit one has the id of its remote library
  Types,                   \* media types
  None

ASSUME BindingsAssumption == Remotes \subseteq Bindings /\ None \notin Locals

VARIABLES
  conn,     \* smb_connections: enabled, last_test_ok
  local,    \* media_libraries: connection, media type, enabled, last_test_ok
  remote,   \* remote_media_libraries: the same and the target library
  binding,  \* sync_bindings: libraries, media type, enabled
  seen,     \* sync_seen_files, one for each binding: "stable" or something else
  test,     \* a test under way: of which row, and the result it has loaded
  job       \* the scan or the creation under way

tables == <<conn, local, remote, binding, seen>>
librariesVars == <<conn, local, remote, binding, seen, test, job>>

TestResult == {"none", "ok", "failed"}
ConnectionRow == [enabled : BOOLEAN, tested : TestResult]
LocalLib == [conn : Conns, type : Types, enabled : BOOLEAN, tested : TestResult]
RemoteLib == [conn : Conns, type : Types, enabled : BOOLEAN, tested : TestResult,
              target : Locals \cup {None}]
Binding == [remote : Remotes, local : Locals, type : Types, enabled : BOOLEAN]

NoTest == [table |-> "none", id |-> None, loaded |-> "none"]
NoJob == [kind |-> "none", id |-> None, written |-> <<>>, wanted |-> FALSE]

LibrariesInit ==
  /\ conn = <<>> /\ local = <<>> /\ remote = <<>> /\ binding = <<>> /\ seen = <<>>
  /\ test = NoTest
  /\ job = NoJob

Put(table, id, row) == [x \in DOMAIN table \cup {id} |-> IF x = id THEN row ELSE table[x]]
Without(table, ids) == Restrict(table, DOMAIN table \ ids)

Integrity(locals, remotes, bindings, seens, conns) ==
  /\ \A l \in DOMAIN locals : locals[l].conn \in DOMAIN conns
  /\ \A r \in DOMAIN remotes :
       /\ remotes[r].conn \in DOMAIN conns
       /\ remotes[r].target \in DOMAIN locals \cup {None}
  /\ \A b \in DOMAIN bindings :
       /\ bindings[b].remote \in DOMAIN remotes
       /\ bindings[b].local \in DOMAIN locals
  /\ DOMAIN seens \subseteq DOMAIN bindings

Refused == UNCHANGED tables

\* Rows that the job under way has written, and the rows a new binding refers
\* to, are locked until it commits: who wants to change them waits.
Written == DOMAIN job.written
Referred == {job.written[b].remote : b \in Written} \cup {job.written[b].local : b \in Written}
Free(bindings, libs) ==
  /\ bindings \cap Written = {}
  /\ libs \cap Referred = {}
  /\ job.kind = "create" => job.id \notin bindings

Quiet == UNCHANGED <<test, job>>

-----------------------------------------------------------------------------
(* Connections                                                               *)

CreateConn(c, enabled) ==
  /\ c \notin DOMAIN conn
  /\ conn' = Put(conn, c, [enabled |-> enabled, tested |-> "none"])
  /\ UNCHANGED <<local, remote, binding, seen>> /\ Quiet

\* What an update makes of the columns that all three tables have, if it is not
\* refused: changed values forget the last test, and what failed it and has not
\* been changed is not enabled.  A new password alone is no change.
Updated(row, enabled, changed) ==
  IF changed THEN {[row EXCEPT !.enabled = enabled, !.tested = "none"]}
  ELSE IF enabled /\ row.tested = "failed" THEN {}
  ELSE {[row EXCEPT !.enabled = enabled]}

UpdateConn(c, enabled, changed) ==
  /\ c \in DOMAIN conn
  /\ \E row \in Updated(conn[c], enabled, changed) : conn' = [conn EXCEPT ![c] = row]
  /\ UNCHANGED <<local, remote, binding, seen>> /\ Quiet

\* _set_enabled of all three services.
MayEnable(row, enabled) == enabled => row.tested # "failed"

EnableConn(c, enabled) ==
  /\ c \in DOMAIN conn
  /\ MayEnable(conn[c], enabled)
  /\ conn' = [conn EXCEPT ![c].enabled = enabled]
  /\ UNCHANGED <<local, remote, binding, seen>> /\ Quiet

LocalsOf(c) == {l \in DOMAIN local : local[l].conn = c}
RemotesOf(c) == {r \in DOMAIN remote : remote[r].conn = c}

\* Unbinding sets a column to NULL that must not be NULL, and is refused; with
\* nothing bound, and for "cancel", only the connection is deleted.
UnbindConn(c) ==
  /\ c \in DOMAIN conn
  /\ IF LocalsOf(c) \cup RemotesOf(c) = {}
     THEN conn' = Without(conn, {c}) /\ UNCHANGED <<local, remote, binding, seen>>
     ELSE Refused
  /\ Quiet

\* The seen rows of the implicit bindings, the libraries and the connection go
\* in one transaction; bindings do not.  Nothing orders the DELETEs of one
\* flush by the foreign keys between them, so that it may be refused anyway.
DeleteConn(c) ==
  /\ c \in DOMAIN conn
  /\ Free(RemotesOf(c), LocalsOf(c) \cup RemotesOf(c))
  /\ LET seens == Without(seen, RemotesOf(c))
         remotes == Without(remote, RemotesOf(c))
         locals == Without(local, LocalsOf(c))
         conns == Without(conn, {c})
     IN \/ Refused
        \/ /\ Integrity(locals, remotes, binding, seens, conns)
           /\ seen' = seens /\ remote' = remotes /\ local' = locals /\ conn' = conns
           /\ UNCHANGED binding
  /\ Quiet

-----------------------------------------------------------------------------
(* Local libraries                                                           *)

CreateLocal(l, c, type, enabled) ==
  /\ l \notin DOMAIN local /\ c \in DOMAIN conn
  /\ local' = Put(local, l, [conn |-> c, type |-> type, enabled |-> enabled, tested |-> "none"])
  /\ UNCHANGED <<conn, remote, binding, seen>> /\ Quiet

\* moved: the base path is another one.
UpdateLocal(l, c, type, enabled, moved) ==
  /\ l \in DOMAIN local /\ c \in DOMAIN conn
  /\ \E row \in Updated(local[l], enabled, moved \/ c # local[l].conn) :
       local' = [local EXCEPT ![l] = [row EXCEPT !.conn = c, !.type = type]]
  /\ UNCHANGED <<conn, remote, binding, seen>> /\ Quiet

EnableLocal(l, enabled) ==
  /\ l \in DOMAIN local
  /\ MayEnable(local[l], enabled)
  /\ local' = [local EXCEPT ![l].enabled = enabled]
  /\ UNCHANGED <<conn, remote, binding, seen>> /\ Quiet

BoundTo(l) == {r \in DOMAIN remote : remote[r].target = l}

\* The remote libraries lose their target; their bindings stay.
UnbindLocal(l) ==
  /\ l \in DOMAIN local
  /\ Free({}, {l})
  /\ LET remotes == [r \in DOMAIN remote |->
                       IF r \in BoundTo(l) THEN [remote[r] EXCEPT !.target = None] ELSE remote[r]]
         locals == Without(local, {l})
     IN IF Integrity(locals, remotes, binding, seen, conn)
        THEN local' = locals /\ remote' = remotes /\ UNCHANGED <<conn, binding, seen>>
        ELSE Refused
  /\ Quiet

\* "cancel": the library alone is deleted.
DeleteLocalOnly(l) ==
  /\ l \in DOMAIN local
  /\ Free({}, {l})
  /\ LET locals == Without(local, {l}) IN
     IF Integrity(locals, remote, binding, seen, conn)
     THEN local' = locals /\ UNCHANGED <<conn, remote, binding, seen>>
     ELSE Refused
  /\ Quiet

\* Mutant: the seen rows are committed before the rest is tried.
DeleteLocalInTwo(l) ==
  /\ l \in DOMAIN local
  /\ Free(BoundTo(l), BoundTo(l) \cup {l})
  /\ seen' = Without(seen, BoundTo(l))
  /\ LET remotes == Without(remote, BoundTo(l))
         locals == Without(local, {l})
     IN IF Integrity(locals, remotes, binding, seen', conn)
        THEN local' = locals /\ remote' = remotes /\ UNCHANGED <<conn, binding>>
        ELSE UNCHANGED <<conn, local, remote, binding>>
  /\ Quiet

DeleteLocal(l) ==
  /\ l \in DOMAIN local
  /\ Free(BoundTo(l), BoundTo(l) \cup {l})
  /\ LET seens == Without(seen, BoundTo(l))
         remotes == Without(remote, BoundTo(l))
         locals == Without(local, {l})
     IN \/ BoundTo(l) # {} /\ Refused
        \/ /\ Integrity(locals, remotes, binding, seens, conn)
           /\ seen' = seens /\ remote' = remotes /\ local' = locals
           /\ UNCHANGED <<conn, binding>>
        \/ ~Integrity(locals, remotes, binding, seens, conn) /\ Refused
  /\ Quiet

-----------------------------------------------------------------------------
(* Remote libraries and their implicit bindings                              *)

FromRemote(r, row) ==
  [remote |-> r, local |-> row.target, type |-> row.type, enabled |-> row.enabled]

\* Mutant: only a binding that is there already follows the library.
SyncedIfThere(r, row) ==
  IF row.target = None THEN Without(binding, {r})
  ELSE IF r \in DOMAIN binding THEN Put(binding, r, FromRemote(r, row)) ELSE binding

\* _sync_binding_for_library: the binding with the id of the library follows it.
Synced(r, row) ==
  IF row.target = None THEN Without(binding, {r}) ELSE Put(binding, r, FromRemote(r, row))

\* The target exists and has the media type of the library.
ValidTarget(target, type) ==
  target # None => target \in DOMAIN local /\ local[target].type = type

CreateRemote(r, c, type, target, enabled) ==
  /\ r \notin DOMAIN remote /\ c \in DOMAIN conn /\ ValidTarget(target, type)
  /\ Free({r}, {})
  /\ LET row == [conn |-> c, type |-> type, enabled |-> enabled, tested |-> "none",
                 target |-> target]
     IN IF Integrity(local, Put(remote, r, row), Synced(r, row), seen, conn)
        THEN remote' = Put(remote, r, row) /\ binding' = Synced(r, row)
        ELSE UNCHANGED <<remote, binding>>
  /\ UNCHANGED <<conn, local, seen>> /\ Quiet

UpdateRemote(r, c, type, target, enabled, moved) ==
  /\ r \in DOMAIN remote /\ c \in DOMAIN conn /\ ValidTarget(target, type)
  /\ Free({r}, {})
  /\ \E updated \in Updated(remote[r], enabled,
                            moved \/ c # remote[r].conn \/ target # remote[r].target) :
       LET row == [updated EXCEPT !.conn = c, !.type = type, !.target = target] IN
       IF Integrity(local, Put(remote, r, row), Synced(r, row), seen, conn)
       THEN remote' = Put(remote, r, row) /\ binding' = Synced(r, row)
       ELSE UNCHANGED <<remote, binding>>
  /\ UNCHANGED <<conn, local, seen>> /\ Quiet

EnableRemote(r, enabled) ==
  /\ r \in DOMAIN remote
  /\ MayEnable(remote[r], enabled)
  /\ remote' = [remote EXCEPT ![r].enabled = enabled]
  /\ UNCHANGED <<conn, local, binding, seen>> /\ Quiet

DeleteRemote(r) ==
  /\ r \in DOMAIN remote
  /\ Free({r}, {r})
  /\ LET seens == Without(seen, {r})
         bindings == Without(binding, {r})
         remotes == Without(remote, {r})
     IN \/ r \in DOMAIN binding /\ Refused
        \/ /\ Integrity(local, remotes, bindings, seens, conn)
           /\ seen' = seens /\ binding' = bindings /\ remote' = remotes
           /\ UNCHANGED <<conn, local>>
        \/ ~Integrity(local, remotes, bindings, seens, conn) /\ Refused
  /\ Quiet

-----------------------------------------------------------------------------
(* Bindings                                                                  *)

ValidBinding(r, l, type) ==
  /\ r \in DOMAIN remote /\ l \in DOMAIN local
  /\ remote[r].type = type /\ local[l].type = type

BindingRow(r, l, type, enabled) ==
  [remote |-> r, local |-> l, type |-> type, enabled |-> enabled]

CreateBinding(b, r, l, type, enabled) ==
  /\ b \notin DOMAIN binding /\ ValidBinding(r, l, type)
  /\ Free({b}, {})
  /\ binding' = Put(binding, b, BindingRow(r, l, type, enabled))
  /\ UNCHANGED <<conn, local, remote, seen>> /\ Quiet

UpdateBinding(b, r, l, type, enabled) ==
  /\ b \in DOMAIN binding /\ ValidBinding(r, l, type)
  /\ Free({b}, {})
  /\ binding' = Put(binding, b, BindingRow(r, l, type, enabled))
  /\ UNCHANGED <<conn, local, remote, seen>> /\ Quiet

EnableBinding(b, enabled) ==
  /\ b \in DOMAIN binding
  /\ Free({b}, {})
  /\ binding' = [binding EXCEPT ![b].enabled = enabled]
  /\ UNCHANGED <<conn, local, remote, seen>> /\ Quiet

-----------------------------------------------------------------------------
(* Tests of a row over the network                                           *)

Row(table, id) ==
  CASE table = "conn" -> conn[id]
    [] table = "local" -> local[id]
    [] table = "remote" -> remote[id]

BeginTest(table, ids, id) ==
  /\ test = NoTest
  /\ id \in ids
  /\ test' = [table |-> table, id |-> id, loaded |-> Row(table, id).tested]
  /\ UNCHANGED tables /\ UNCHANGED job

\* The result is written if it differs from the one that was loaded, over
\* whatever the row has become; a row that is gone makes the commit raise.
EndTest(result) ==
  /\ test # NoTest
  /\ test' = NoTest
  /\ LET Recorded(rows) ==
           IF test.id \in DOMAIN rows /\ result # test.loaded
           THEN [rows EXCEPT ![test.id].tested = result] ELSE rows
     IN /\ conn' = IF test.table = "conn" THEN Recorded(conn) ELSE conn
        /\ local' = IF test.table = "local" THEN Recorded(local) ELSE local
        /\ remote' = IF test.table = "remote" THEN Recorded(remote) ELSE remote
  /\ UNCHANGED <<binding, seen, job>>

-----------------------------------------------------------------------------
(* The scan and the creation of tasks                                        *)

IsUsable(row) == row.enabled /\ row.tested # "failed"

\* The checks of scan and create_tasks; the binding itself is looked at by its
\* query in the one, and not at all in the other.
BindingUsable(b) ==
  LET r == b.remote
      l == b.local
  IN /\ r \in DOMAIN remote /\ l \in DOMAIN local
     /\ IsUsable(remote[r]) /\ IsUsable(local[l])
     /\ IsUsable(conn[remote[r].conn]) /\ IsUsable(conn[local[l].conn])
     /\ remote[r].type = b.type /\ local[l].type = b.type

\* _ensure_implicit_bindings: the rows it inserts or changes.
Ensured ==
  LET bound == {r \in DOMAIN remote : remote[r].target \in DOMAIN local}
      changed == {r \in bound : r \in DOMAIN binding => binding[r] # FromRemote(r, remote[r])}
  IN [r \in changed |-> FromRemote(r, remote[r])]

\* The bindings as the transaction of the scan sees them.
WithEnsured == [b \in DOMAIN binding \cup DOMAIN Ensured |->
                  IF b \in DOMAIN Ensured THEN Ensured[b] ELSE binding[b]]

\* A scan of one binding that is missing or disabled ends in an error and
\* writes nothing.  wanted: the checks let the files of the binding be listed.
BeginScan(b) ==
  /\ job = NoJob
  /\ b \in DOMAIN WithEnsured
  /\ WithEnsured[b].enabled
  /\ job' = [kind |-> "scan", id |-> b, written |-> Ensured, wanted |-> BindingUsable(WithEnsured[b])]
  /\ UNCHANGED tables /\ UNCHANGED test

\* The row of the seen file is written at the end; its binding may have gone.
CommitScan ==
  /\ job.kind = "scan"
  /\ job' = NoJob
  /\ LET bindings == [b \in DOMAIN binding \cup Written |->
                        IF b \in Written THEN job.written[b] ELSE binding[b]] IN
     \/ /\ job.wanted
        /\ \E status \in {"stable", "other"} :
             LET seens == Put(seen, job.id, status) IN
             IF Integrity(local, remote, bindings, seens, conn)
             THEN binding' = bindings /\ seen' = seens
             ELSE UNCHANGED <<binding, seen>>
     \/ ~job.wanted /\ binding' = bindings /\ UNCHANGED seen
     \* the listing raises, and nothing is committed
     \/ job.wanted /\ UNCHANGED <<binding, seen>>
  /\ UNCHANGED <<conn, local, remote, test>>

WantsTask(b) == BindingUsable(binding[b])

\* The stable row is locked, and the checks are made, before the await on the
\* checksums; the row is failed if they are not passed.
BeginCreate(b) ==
  /\ job = NoJob
  /\ b \in DOMAIN seen /\ seen[b] = "stable"
  /\ job' = [kind |-> "create", id |-> b, written |-> <<>>, wanted |-> WantsTask(b)]
  /\ UNCHANGED tables /\ UNCHANGED test

\* The task is there, or the file has been found complete at its target, or
\* the row is failed.  The lock on the seen row keeps its binding in place.
CreatesTask == job.kind = "create" /\ job.wanted

CommitCreate ==
  /\ job.kind = "create"
  /\ job' = NoJob
  /\ seen' = Put(seen, job.id, IF CreatesTask THEN "queued" ELSE "other")
  /\ UNCHANGED <<conn, local, remote, binding, test>>

EndCreate ==
  /\ job.kind = "create"
  /\ job' = NoJob
  /\ CreatesTask
  /\ seen' = [seen EXCEPT ![job.id] = "other"]
  /\ UNCHANGED <<conn, local, remote, binding, test>>

-----------------------------------------------------------------------------
ConnRequest ==
  \E c \in Conns :
    \/ \E enabled \in BOOLEAN :
         \/ CreateConn(c, enabled) \/ EnableConn(c, enabled)
         \/ \E changed \in BOOLEAN : UpdateConn(c, enabled, changed)
    \/ UnbindConn(c) \/ DeleteConn(c)

LocalRequest ==
  \E l \in Locals :
    \/ \E enabled \in BOOLEAN :
         \/ EnableLocal(l, enabled)
         \/ \E c \in Conns, type \in Types :
              \/ CreateLocal(l, c, type, enabled)
              \/ \E moved \in BOOLEAN : UpdateLocal(l, c, type, enabled, moved)
    \/ UnbindLocal(l) \/ DeleteLocalOnly(l) \/ DeleteLocal(l)

RemoteRequest ==
  \E r \in Remotes :
    \/ \E enabled \in BOOLEAN :
         \/ EnableRemote(r, enabled)
         \/ \E c \in Conns, type \in Types, target \in Locals \cup {None} :
              \/ CreateRemote(r, c, type, target, enabled)
              \/ \E moved \in BOOLEAN : UpdateRemote(r, c, type, target, enabled, moved)
    \/ DeleteRemote(r)

BindingRequest ==
  \E b \in Bindings, enabled \in BOOLEAN :
    \/ EnableBinding(b, enabled)
    \/ \E r \in Remotes, l \in Locals, type \in Types :
         CreateBinding(b, r, l, type, enabled) \/ UpdateBinding(b, r, l, type, enabled)

TestRequest ==
  \/ \E c \in Conns : BeginTest("conn", DOMAIN conn, c)
  \/ \E l \in Locals : BeginTest("local", DOMAIN local, l)
  \/ \E r \in Remotes : BeginTest("remote", DOMAIN remote, r)
  \/ \E result \in {"ok", "failed"} : EndTest(result)

LibrariesNext ==
  \/ ConnRequest \/ LocalRequest \/ RemoteRequest \/ BindingRequest \/ TestRequest
  \/ \E b \in Bindings : BeginScan(b) \/ BeginCreate(b)
  \/ CommitScan \/ CommitCreate \/ EndCreate

LibrariesSpec == LibrariesInit /\ [][LibrariesNext]_librariesVars
-----------------------------------------------------------------------------
Table(Ids, Rows, table) == DOMAIN table \subseteq Ids /\ \A id \in DOMAIN table : table[id] \in Rows

LibrariesTypeOK ==
  /\ Table(Conns, ConnectionRow, conn) /\ Table(Locals, LocalLib, local)
  /\ Table(Remotes, RemoteLib, remote) /\ Table(Bindings, Binding, binding)
  /\ Table(Bindings, {"stable", "queued", "other"}, seen)
  /\ test.table \in {"none", "conn", "local", "remote"}
  /\ job.kind \in {"none", "scan", "create"}

\* The record of what has been seen goes only together with the library it is
\* about: a deletion that the database refuses, in whatever order it was tried,
\* has lost nothing (or every file would be copied again).
SeenGoesWithLibrary ==
  [][\A b \in DOMAIN seen \ DOMAIN seen' : b \notin DOMAIN remote']_librariesVars

\* A remote library with a target always has its implicit binding, and that
\* binding still belongs to it or has been given to another one by a request.
TargetHasBinding ==
  \A r \in DOMAIN remote : remote[r].target # None => r \in DOMAIN binding

\* Refuted (docs/05, section 2): a disabled binding makes no new task.
DisabledMakesNoTask ==
  [][\A b \in DOMAIN seen : CommitCreate /\ job.id = b /\ job.wanted => binding[b].enabled]_librariesVars

\* Refuted: a binding whose library has no target any more may stay.
BindingHasTarget ==
  \A r \in Remotes \cap DOMAIN binding :
    r \in DOMAIN remote /\ binding[r].remote = r => remote[r].target # None

\* Refuted: a disabled implicit binding is enabled again by the next scan.
DisabledStays ==
  [][\A b \in DOMAIN binding \cap DOMAIN binding' :
       ~binding[b].enabled /\ binding'[b].enabled => BindingRequest \/ RemoteRequest]_librariesVars
-----------------------------------------------------------------------------
(* The inductive invariant behind the last two                               *)

\* Every row refers to rows that are there.
KeysHold == Integrity(local, remote, binding, seen, conn)

\* The locks keep what a scan has written, and the row a creation has read, such
\* that its commit cannot break a key.
LocksHold ==
  /\ \A b \in Written : /\ b \in Bindings /\ job.written[b] \in Binding
                        /\ job.written[b].remote \in DOMAIN remote
                        /\ job.written[b].local \in DOMAIN local
  /\ job.kind = "create" => job.id \in DOMAIN seen
  /\ job.kind = "scan" => job.id \in Bindings
=============================================================================

------------------------------- MODULE SmbPool -------------------------------
(* The pool of SMB connections of the API process: storage/pool.py, with the *)
(* construction and the test of a writer in storage/smb.py.                  *)
(*                                                                           *)
(* One event loop runs every request.  No section under the pool's lock      *)
(* contains an await, so each of them is one step, and the lock is never     *)
(* waited for.  The one place where a get_connection gives up the loop is    *)
(* the pause between two attempts of a connection test: what it has seen of  *)
(* the pool before is old when it comes back to add its connection.          *)
(*                                                                           *)
(* A connection is shared: it stays in the pool while requests use it, and   *)
(* nobody gives it back.                                                     *)
EXTENDS Naturals, FiniteSets

CONSTANTS
  Requests,        \* requests of the API that may overlap
  Writers,         \* identities of SmbWriter objects
  Configs,         \* the SmbConfigs that requests come with
  MaxConnections,  \* max_connections, per key
  MaxErrorCount,   \* max_error_count
  MaxIdle, MaxAge, \* max_idle_time and max_age, in ticks of the clock
  CheckInterval,   \* health_check_interval, in ticks
  Root,            \* the directory of the base path "/"
  NoWriter

(***************************************************************************)
(* A configuration: server stands for host, port, share, user and domain;  *)
(* base is the base path as it was entered, with or without a slash before *)
(* and behind the directory.                                               *)
(***************************************************************************)
ASSUME ConstantsAssumption ==
  /\ MaxConnections \in Nat \ {0}
  /\ MaxErrorCount \in Nat \ {0}
  /\ {MaxIdle, MaxAge, CheckInterval} \subseteq Nat \ {0}
  /\ IsFiniteSet(Requests)
  /\ NoWriter \notin [id : Writers, config : Configs]
  /\ \A c \in Configs :
       /\ c = [server |-> c.server, base |-> c.base, password |-> c.password]
       /\ c.base = [lead |-> c.base.lead, dir |-> c.base.dir, trail |-> c.base.trail]

MaxRetries == 3

VARIABLES
  conns,    \* the connections in the pool, whatever their key
  req,      \* what every request is at
  cleaner,  \* the cleanup task
  timer     \* ticks since the cleanup task went to sleep

vars == <<conns, req, cleaner, timer>>

Smaller(a, b) == IF a < b THEN a ELSE b

Normalized(base) ==
  IF base.dir = Root THEN [lead |-> TRUE, dir |-> Root, trail |-> FALSE]
                     ELSE [base EXCEPT !.trail = FALSE]

\* Mutant of Key: the password does not count.
KeyWithoutPassword(config) == <<config.server, Normalized(config.base)>>

\* The password counts by its digest: two keys are equal when the passwords are.
Key(config) == <<config.server, Normalized(config.base), config.password>>

Writer == [id : Writers, config : Configs]

Connection == [writer : Writer, idle : 0..MaxIdle, age : 0..MaxAge,
               errors : 0..MaxErrorCount, healthy : BOOLEAN]

Request == [pc : {"idle", "retrying", "using"}, config : Configs \cup {NoWriter},
            writer : Writer \cup {NoWriter}, attempt : 0..MaxRetries]

Idle == [pc |-> "idle", config |-> NoWriter, writer |-> NoWriter, attempt |-> 0]

Init ==
  /\ conns = {}
  /\ req = [r \in Requests |-> Idle]
  /\ cleaner = "none"
  /\ timer = 0

Pool(key) == {c \in conns : Key(c.writer.config) = key}

-----------------------------------------------------------------------------
(* get_connection                                                            *)

Usable(c) == c.healthy /\ c.errors < MaxErrorCount

\* The usable connections of this configuration unused for longest.
Candidates(config) ==
  LET usable == {c \in Pool(Key(config)) : Usable(c)} IN
    {c \in usable : \A d \in usable : d.idle <= c.idle}

MarkUsed(c) == [c EXCEPT !.idle = 0]

\* The cleanup task is created by the first use and never again.
StartCleaner ==
  IF cleaner = "none" THEN cleaner' = "asleep" /\ timer' = 0
                      ELSE UNCHANGED <<cleaner, timer>>

NewConnection(w) ==
  [writer |-> w, idle |-> 0, age |-> 0, errors |-> 0, healthy |-> TRUE]

\* Any identity that no live writer has; which one makes no difference.
FreeWriters == Writers \ ({c.writer.id : c \in conns}
                          \cup {req[r].writer.id : r \in {s \in Requests : req[s].pc # "idle"}})

NewWriter(config) == [id |-> CHOOSE i \in FreeWriters : TRUE, config |-> config]

Oldest(pool) == {c \in pool : \A d \in pool : d.age <= c.age}

\* Mutant of Admit: room is made only when the pool has grown too large.
AdmitLate(r, w) ==
  LET pool == Pool(Key(w.config)) IN
  /\ \E evicted \in IF Cardinality(pool) > MaxConnections
                    THEN {{c} : c \in Oldest(pool)} ELSE {{}} :
       conns' = (conns \ evicted) \cup {NewConnection(w)}
  /\ req' = [req EXCEPT ![r] =
       [pc |-> "using", config |-> w.config, writer |-> w, attempt |-> 0]]

\* The section behind the test: room is made by removing the oldest connection
\* of the key, used or not.
Admit(r, w) ==
  LET pool == Pool(Key(w.config)) IN
  /\ \E evicted \in IF Cardinality(pool) >= MaxConnections
                    THEN {{c} : c \in Oldest(pool)} ELSE {{}} :
       conns' = (conns \ evicted) \cup {NewConnection(w)}
  /\ req' = [req EXCEPT ![r] =
       [pc |-> "using", config |-> w.config, writer |-> w, attempt |-> 0]]

Reuse(r, config) ==
  /\ req[r].pc = "idle"
  /\ \E c \in Candidates(config) :
       /\ conns' = (conns \ {c}) \cup {MarkUsed(c)}
       /\ req' = [req EXCEPT ![r] =
            [pc |-> "using", config |-> config, writer |-> c.writer, attempt |-> 0]]
  /\ StartCleaner

\* Nothing usable: a new writer is tested, and if the first attempt succeeds
\* nothing else has run in between.
Create(r, config) ==
  /\ req[r].pc = "idle"
  /\ Candidates(config) = {} /\ FreeWriters # {}
  /\ Admit(r, NewWriter(config))
  /\ StartCleaner

CreateFails(r, config) ==
  /\ req[r].pc = "idle"
  /\ Candidates(config) = {} /\ FreeWriters # {}
  /\ req' = [req EXCEPT ![r] =
       [pc |-> "retrying", config |-> config, writer |-> NewWriter(config), attempt |-> 1]]
  /\ StartCleaner
  /\ UNCHANGED conns

\* The sleep between two attempts is over.
RetrySucceeds(r) ==
  /\ req[r].pc = "retrying"
  /\ Admit(r, req[r].writer)
  /\ UNCHANGED <<cleaner, timer>>

\* Another attempt, or the request is given up.
AfterFailure(q) ==
  IF q.attempt + 1 < MaxRetries THEN [q EXCEPT !.attempt = @ + 1] ELSE Idle

RetryFails(r) ==
  /\ req[r].pc = "retrying"
  /\ req' = [req EXCEPT ![r] = AfterFailure(@)]
  /\ UNCHANGED <<conns, cleaner, timer>>

\* The request that was given a connection ends.
Release(r) ==
  /\ req[r].pc = "using"
  /\ req' = [req EXCEPT ![r] = Idle]
  /\ UNCHANGED <<conns, cleaner, timer>>

-----------------------------------------------------------------------------
(* The reports of a user of a connection, and the cleanup                    *)

\* The connection is looked up by its writer; one that has left the pool is
\* not found, and nothing is marked.
Looked(r) == {c \in Pool(Key(req[r].config)) : c.writer = req[r].writer}

MarkedError(c) ==
  [c EXCEPT !.errors = Smaller(@ + 1, MaxErrorCount), !.healthy = FALSE]

MarkedHealthy(c) == [c EXCEPT !.errors = 0, !.healthy = TRUE]

MarkError(r) ==
  /\ req[r].pc = "using"
  /\ conns' = (conns \ Looked(r)) \cup {MarkedError(c) : c \in Looked(r)}
  /\ UNCHANGED <<req, cleaner, timer>>

MarkHealthy(r) ==
  /\ req[r].pc = "using"
  /\ conns' = (conns \ Looked(r)) \cup {MarkedHealthy(c) : c \in Looked(r)}
  /\ UNCHANGED <<req, cleaner, timer>>

\* Mutant of Kept: a connection in use never is too old.
KeptWhileUsed(c) == c.idle < MaxIdle /\ Usable(c)

Kept(c) == c.idle < MaxIdle /\ c.age < MaxAge /\ Usable(c)

Cleanup ==
  /\ cleaner = "asleep"
  /\ timer = CheckInterval
  /\ conns' = {c \in conns : Kept(c)}
  /\ timer' = 0
  /\ UNCHANGED <<req, cleaner>>

\* close cancels the task and waits for it, and then empties the pool.
Close ==
  /\ cleaner \in {"none", "asleep"}
  /\ IF cleaner = "none" THEN conns' = {} /\ UNCHANGED cleaner
                         ELSE cleaner' = "cancelled" /\ UNCHANGED conns
  /\ UNCHANGED <<req, timer>>

FinishClose ==
  /\ cleaner = "cancelled"
  /\ cleaner' = "over"
  /\ conns' = {}
  /\ UNCHANGED <<req, timer>>

\* A close of a pool whose task is over.
CloseAgain ==
  /\ cleaner = "over"
  /\ conns' = {}
  /\ UNCHANGED <<req, cleaner, timer>>

\* Times beyond the limits are not told apart.
Aged(c) == [c EXCEPT !.idle = Smaller(@ + 1, MaxIdle), !.age = Smaller(@ + 1, MaxAge)]

Tick ==
  /\ conns' = {Aged(c) : c \in conns}
  /\ timer' = IF cleaner = "asleep" THEN Smaller(timer + 1, CheckInterval) ELSE timer
  /\ UNCHANGED <<req, cleaner>>

Step(r) == RetrySucceeds(r) \/ RetryFails(r)

Next ==
  \/ \E r \in Requests :
       \/ \E config \in Configs :
            Reuse(r, config) \/ Create(r, config) \/ CreateFails(r, config)
       \/ Step(r) \/ Release(r) \/ MarkError(r) \/ MarkHealthy(r)
  \/ Cleanup \/ Close \/ FinishClose \/ CloseAgain \/ Tick

Spec == Init /\ [][Next]_vars

FairSpec == Spec /\ WF_vars(Tick) /\ WF_vars(Cleanup) /\ \A r \in Requests : WF_vars(Step(r))
-----------------------------------------------------------------------------
TypeOK ==
  /\ conns \subseteq Connection
  /\ req \in [Requests -> Request]
  /\ cleaner \in {"none", "asleep", "cancelled", "over"}
  /\ timer \in 0..CheckInterval

\* However many requests test new connections side by side, no configuration
\* has more than max_connections of them (get_connection counts after the test).
Bounded == \A config \in Configs : Cardinality(Pool(Key(config))) <= MaxConnections

\* A request never gets a connection that was opened with another password or
\* on another base path than it asked for, also when the configuration has been
\* changed while older connections are still pooled (docs/05 section 2).
SameTarget(c, d) ==
  c.server = d.server /\ c.base.dir = d.base.dir /\ c.password = d.password

HandedOutMatches ==
  \A r \in Requests :
    req[r].pc = "using" => SameTarget(req[r].writer.config, req[r].config)

\* A connection older than max_age leaves the pool as long as the cleanup task
\* lives, however much it is used.
Expired(w) == \E c \in conns : c.writer.id = w /\ c.age = MaxAge

ExpiredLeaves ==
  \A w \in Writers :
    Expired(w) /\ cleaner = "asleep" ~> ~Expired(w) \/ cleaner # "asleep"

\* Refuted: after a close the task is not started again, so that a connection
\* opened later stays for ever.
AlwaysExpires == \A w \in Writers : Expired(w) ~> ~Expired(w)
=============================================================================

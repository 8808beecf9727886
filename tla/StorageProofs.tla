--------------------------- MODULE StorageProofs ---------------------------
(***************************************************************************)
(* Proofs about SmbPool for every number of requests, writers and          *)
(* configurations and every limit: the variables keep their types, a       *)
(* request is only handed a connection to the target it asked for, and no  *)
(* configuration has more than max_connections of them.  About SmbFiles,   *)
(* for every tree of paths: what succeeds has been done.  And about        *)
(* LibraryConfig: the foreign keys, also where the model lets a commit     *)
(* through unchecked because of the locks, the binding of every target and *)
(* the rows of seen files.                                                 *)
(***************************************************************************)
EXTENDS SmbPool, SmbFiles, LibraryConfig, TLAPS, FiniteSetTheorems

-----------------------------------------------------------------------------
(* Connections and writers                                                 *)

LEMMA SmallerType ==
  ASSUME NEW a \in Nat, NEW b \in Nat
  PROVE  Smaller(a, b) \in 0..b
BY DEF Smaller

LEMMA NewConnectionType ==
  ASSUME NEW w \in Writer
  PROVE  NewConnection(w) \in Connection
BY ConstantsAssumption DEF NewConnection, Connection

\* What get_connection, the reports and the clock write to one connection: it
\* stays a connection, and it stays the connection of its writer.
LEMMA MarkUsedType ==
  ASSUME NEW c \in Connection
  PROVE  MarkUsed(c) \in Connection /\ MarkUsed(c).writer = c.writer
BY ConstantsAssumption DEF MarkUsed, Connection

LEMMA MarkedErrorType ==
  ASSUME NEW c \in Connection
  PROVE  MarkedError(c) \in Connection /\ MarkedError(c).writer = c.writer
<1>1. Smaller(c.errors + 1, MaxErrorCount) \in 0..MaxErrorCount
  BY ConstantsAssumption, SmallerType DEF Connection
<1> QED BY <1>1 DEF MarkedError, Connection

LEMMA MarkedHealthyType ==
  ASSUME NEW c \in Connection
  PROVE  MarkedHealthy(c) \in Connection /\ MarkedHealthy(c).writer = c.writer
<1>1. 0 \in 0..MaxErrorCount
  BY ConstantsAssumption
<1> QED BY <1>1 DEF MarkedHealthy, Connection

LEMMA AgedType ==
  ASSUME NEW c \in Connection
  PROVE  Aged(c) \in Connection /\ Aged(c).writer = c.writer
<1>1. /\ Smaller(c.idle + 1, MaxIdle) \in 0..MaxIdle
      /\ Smaller(c.age + 1, MaxAge) \in 0..MaxAge
  BY ConstantsAssumption, SmallerType DEF Connection
<1> QED BY <1>1 DEF Aged, Connection

LEMMA NewWriterType ==
  ASSUME NEW config \in Configs, FreeWriters # {}
  PROVE  NewWriter(config) \in Writer /\ NewWriter(config).config = config
<1>1. (CHOOSE i \in FreeWriters : TRUE) \in Writers
  BY DEF FreeWriters
<1> QED BY <1>1 DEF NewWriter, Writer

\* Two configurations with one key (_make_key) reach the same directory of the
\* same share with the same password.
LEMMA KeyDeterminesTarget ==
  ASSUME NEW c \in Configs, NEW d \in Configs, Key(c) = Key(d)
  PROVE  SameTarget(c, d)
<1>1. c.server = d.server /\ c.password = d.password
      /\ Normalized(c.base) = Normalized(d.base)
  BY DEF Key
<1>2. ASSUME NEW e \in Configs
      PROVE  Normalized(e.base).dir = e.base.dir
  <2>1. e.base = [lead |-> e.base.lead, dir |-> e.base.dir, trail |-> e.base.trail]
    BY ConstantsAssumption
  <2> DEFINE l == e.base.lead
             x == e.base.dir
             t == e.base.trail
  <2>2. [[lead |-> l, dir |-> x, trail |-> t] EXCEPT !.trail = FALSE].dir = x
    OBVIOUS
  <2> QED BY <2>1, <2>2 DEF Normalized
<1> QED BY <1>1, <1>2 DEF SameTarget

-----------------------------------------------------------------------------
(* Types and the writer a request holds                                    *)

\* A request that tests or uses a writer: the writer under test is the one made
\* for its configuration, the one in use has a configuration with the same key.
Held(q) ==
  /\ q.pc # "idle" => q.config \in Configs /\ q.writer \in Writer
  /\ q.pc = "retrying" => q.writer.config = q.config
  /\ q.pc = "using" => Key(q.writer.config) = Key(q.config)

HeldInv == TypeOK /\ \A r \in Requests : Held(req[r])

LEMMA IdleHeld == Idle \in Request /\ Held(Idle)
BY DEF Idle, Request, MaxRetries, Held

LEMMA UsingHeld ==
  ASSUME NEW config \in Configs, NEW w \in Writer, Key(w.config) = Key(config)
  PROVE  LET q == [pc |-> "using", config |-> config, writer |-> w, attempt |-> 0] IN
           q \in Request /\ Held(q)
BY DEF Request, MaxRetries, Held

\* What every action does to the requests is a write to one of them at most.
LEMMA WriteHeld ==
  ASSUME HeldInv, NEW r \in Requests, NEW q \in Request, Held(q),
         req' = [req EXCEPT ![r] = q]
  PROVE  req' \in [Requests -> Request] /\ \A s \in Requests : Held(req'[s])
<1>1. req \in [Requests -> Request] /\ \A s \in Requests : Held(req[s])
  BY DEF HeldInv, TypeOK
<1>2. ASSUME NEW s \in Requests
      PROVE  req'[s] = q \/ req'[s] = req[s]
  BY <1>1
<1> QED BY <1>1, <1>2

LEMMA StartCleanerType ==
  ASSUME TypeOK, StartCleaner
  PROVE  cleaner' \in {"none", "asleep", "cancelled", "over"} /\ timer' \in 0..CheckInterval
BY ConstantsAssumption DEF TypeOK, StartCleaner

LEMMA AdmitHeld ==
  ASSUME HeldInv, NEW r \in Requests, NEW w \in Writer, Admit(r, w)
  PROVE  /\ conns' \subseteq Connection
         /\ req' \in [Requests -> Request]
         /\ \A s \in Requests : Held(req'[s])
<1>1. conns \subseteq Connection
  BY DEF HeldInv, TypeOK
<1>2. conns' \subseteq conns \cup {NewConnection(w)}
  BY DEF Admit
<1>3. conns' \subseteq Connection
  BY <1>1, <1>2, NewConnectionType
<1> DEFINE q == [pc |-> "using", config |-> w.config, writer |-> w, attempt |-> 0]
<1>4. w.config \in Configs
  BY DEF Writer
<1>5. q \in Request /\ Held(q)
  BY <1>4, UsingHeld
<1>6. req' = [req EXCEPT ![r] = q]
  BY DEF Admit
<1> HIDE DEF q
<1> QED BY <1>3, <1>5, <1>6, WriteHeld

LEMMA HeldInit == Init => HeldInv
BY ConstantsAssumption, IdleHeld DEF Init, HeldInv, TypeOK

LEMMA HeldReuse ==
  ASSUME HeldInv, NEW r \in Requests, NEW config \in Configs, Reuse(r, config)
  PROVE  HeldInv'
<1>1. PICK c \in Candidates(config) :
        /\ conns' = (conns \ {c}) \cup {MarkUsed(c)}
        /\ req' = [req EXCEPT ![r] =
             [pc |-> "using", config |-> config, writer |-> c.writer, attempt |-> 0]]
  BY DEF Reuse
<1>2. c \in Connection /\ Key(c.writer.config) = Key(config)
  BY DEF Candidates, Pool, HeldInv, TypeOK
<1>3. conns' \subseteq Connection
  BY <1>1, <1>2, MarkUsedType DEF HeldInv, TypeOK
<1>4. c.writer \in Writer
  BY <1>2 DEF Connection
<1> DEFINE q == [pc |-> "using", config |-> config, writer |-> c.writer, attempt |-> 0]
<1>5. q \in Request /\ Held(q)
  BY <1>2, <1>4, UsingHeld
<1>6. req' = [req EXCEPT ![r] = q]
  BY <1>1
<1> HIDE DEF q
<1>7. req' \in [Requests -> Request] /\ \A s \in Requests : Held(req'[s])
  BY <1>5, <1>6, WriteHeld
<1>8. StartCleaner /\ TypeOK
  BY DEF Reuse, HeldInv
<1> QED BY <1>3, <1>7, <1>8, StartCleanerType DEF HeldInv, TypeOK

LEMMA HeldCreate ==
  ASSUME HeldInv, NEW r \in Requests, NEW config \in Configs, Create(r, config)
  PROVE  HeldInv'
<1>1. NewWriter(config) \in Writer
  BY NewWriterType DEF Create
<1>2. /\ conns' \subseteq Connection
      /\ req' \in [Requests -> Request]
      /\ \A s \in Requests : Held(req'[s])
  BY <1>1, AdmitHeld DEF Create
<1>3. StartCleaner /\ TypeOK
  BY DEF Create, HeldInv
<1> QED BY <1>2, <1>3, StartCleanerType DEF HeldInv, TypeOK

LEMMA HeldCreateFails ==
  ASSUME HeldInv, NEW r \in Requests, NEW config \in Configs, CreateFails(r, config)
  PROVE  HeldInv'
<1> DEFINE q == [pc |-> "retrying", config |-> config, writer |-> NewWriter(config),
                 attempt |-> 1]
<1>1. NewWriter(config) \in Writer /\ NewWriter(config).config = config
  BY NewWriterType DEF CreateFails
<1>2. q \in Request /\ Held(q)
  BY <1>1 DEF Request, MaxRetries, Held
<1>3. req' = [req EXCEPT ![r] = q] /\ StartCleaner /\ TypeOK /\ conns' = conns
  BY DEF CreateFails, HeldInv
<1> HIDE DEF q
<1>4. req' \in [Requests -> Request] /\ \A s \in Requests : Held(req'[s])
  BY <1>2, <1>3, WriteHeld
<1> QED BY <1>3, <1>4, StartCleanerType DEF HeldInv, TypeOK

LEMMA HeldRetrySucceeds ==
  ASSUME HeldInv, NEW r \in Requests, RetrySucceeds(r)
  PROVE  HeldInv'
<1>1. req[r].writer \in Writer
  BY DEF HeldInv, Held, RetrySucceeds
<1>2. /\ conns' \subseteq Connection
      /\ req' \in [Requests -> Request]
      /\ \A s \in Requests : Held(req'[s])
  BY <1>1, AdmitHeld DEF RetrySucceeds
<1> QED BY <1>2 DEF HeldInv, TypeOK, RetrySucceeds

LEMMA HeldRetryFails ==
  ASSUME HeldInv, NEW r \in Requests, RetryFails(r)
  PROVE  HeldInv'
<1> DEFINE q == AfterFailure(req[r])
<1>1. req[r] \in Request /\ Held(req[r])
  BY DEF HeldInv, TypeOK
<1>2. q \in Request /\ Held(q)
  BY <1>1, IdleHeld DEF AfterFailure, Request, MaxRetries, Held
<1>3. req' = [req EXCEPT ![r] = q]
  BY DEF RetryFails
<1> HIDE DEF q
<1>4. req' \in [Requests -> Request] /\ \A s \in Requests : Held(req'[s])
  BY <1>2, <1>3, WriteHeld
<1> QED BY <1>4 DEF HeldInv, TypeOK, RetryFails

LEMMA HeldRelease ==
  ASSUME HeldInv, NEW r \in Requests, Release(r)
  PROVE  HeldInv'
<1>1. req' = [req EXCEPT ![r] = Idle]
  BY DEF Release
<1>2. req' \in [Requests -> Request] /\ \A s \in Requests : Held(req'[s])
  BY <1>1, IdleHeld, WriteHeld
<1> QED BY <1>2 DEF HeldInv, TypeOK, Release

\* The actions that leave the requests alone.
LEMMA HeldOther ==
  ASSUME HeldInv,
         \/ \E r \in Requests : MarkError(r) \/ MarkHealthy(r)
         \/ Cleanup \/ Close \/ FinishClose \/ CloseAgain \/ Tick
  PROVE  HeldInv'
<1>1. conns \subseteq Connection
  BY DEF HeldInv, TypeOK
<1>2. req' = req
  BY DEF MarkError, MarkHealthy, Cleanup, Close, FinishClose, CloseAgain, Tick
<1>3. conns' \subseteq Connection
  <2>1. CASE \E r \in Requests : MarkError(r)
    BY <1>1, <2>1, MarkedErrorType DEF MarkError, Looked, Pool
  <2>2. CASE \E r \in Requests : MarkHealthy(r)
    BY <1>1, <2>2, MarkedHealthyType DEF MarkHealthy, Looked, Pool
  <2>3. CASE Cleanup \/ Close \/ FinishClose \/ CloseAgain
    BY <1>1, <2>3 DEF Cleanup, Close, FinishClose, CloseAgain
  <2>4. CASE Tick
    BY <1>1, <2>4, AgedType DEF Tick
  <2> QED BY <2>1, <2>2, <2>3, <2>4
<1>4. cleaner' \in {"none", "asleep", "cancelled", "over"} /\ timer' \in 0..CheckInterval
  <2>1. ConstantsAssumption /\ timer \in 0..CheckInterval
    BY ConstantsAssumption DEF HeldInv, TypeOK
  <2>2. Smaller(timer + 1, CheckInterval) \in 0..CheckInterval
    BY <2>1, SmallerType DEF ConstantsAssumption
  <2>3. cleaner \in {"none", "asleep", "cancelled", "over"}
    BY DEF HeldInv, TypeOK
  <2>4. 0 \in 0..CheckInterval
    BY <2>1 DEF ConstantsAssumption
  <2>5. CASE \E r \in Requests : MarkError(r) \/ MarkHealthy(r)
    BY <2>1, <2>3, <2>5 DEF MarkError, MarkHealthy
  <2>6. CASE Cleanup \/ Close \/ FinishClose \/ CloseAgain
    BY <2>1, <2>3, <2>4, <2>6 DEF Cleanup, Close, FinishClose, CloseAgain
  <2>7. CASE Tick
    BY <2>1, <2>2, <2>3, <2>7 DEF Tick
  <2> QED BY <2>5, <2>6, <2>7
<1> QED BY <1>2, <1>3, <1>4 DEF HeldInv, TypeOK

LEMMA HeldStep == HeldInv /\ [Next]_vars => HeldInv'
<1> SUFFICES ASSUME HeldInv, [Next]_vars PROVE HeldInv'
  OBVIOUS
<1>1. CASE UNCHANGED vars
  BY <1>1 DEF vars, HeldInv, TypeOK
<1>2. CASE \E r \in Requests, config \in Configs : Reuse(r, config)
  BY <1>2, HeldReuse
<1>3. CASE \E r \in Requests, config \in Configs : Create(r, config)
  BY <1>3, HeldCreate
<1>4. CASE \E r \in Requests, config \in Configs : CreateFails(r, config)
  BY <1>4, HeldCreateFails
<1>5. CASE \E r \in Requests : RetrySucceeds(r)
  BY <1>5, HeldRetrySucceeds
<1>6. CASE \E r \in Requests : RetryFails(r)
  BY <1>6, HeldRetryFails
<1>7. CASE \E r \in Requests : Release(r)
  BY <1>7, HeldRelease
<1>8. CASE \/ \E r \in Requests : MarkError(r) \/ MarkHealthy(r)
           \/ Cleanup \/ Close \/ FinishClose \/ CloseAgain \/ Tick
  BY <1>8, HeldOther
<1> QED BY <1>1, <1>2, <1>3, <1>4, <1>5, <1>6, <1>7, <1>8 DEF Next, Step

LEMMA HeldAlways == Spec => []HeldInv
BY HeldInit, HeldStep, PTL DEF Spec

\* Every variable keeps its type in every interleaving of requests, reports and
\* the cleanup task.
THEOREM PoolTypeCorrect == Spec => []TypeOK
BY HeldAlways, PTL DEF HeldInv

\* A request is handed only connections of the server, the base path and the
\* password it asked for: get_connection takes them from the pool of its key,
\* and a writer it made itself has its configuration.
THEOREM PoolHandedOutMatches == Spec => []HandedOutMatches
<1>1. HeldInv => HandedOutMatches
  <2> SUFFICES ASSUME HeldInv, NEW r \in Requests, req[r].pc = "using"
               PROVE  SameTarget(req[r].writer.config, req[r].config)
    BY DEF HandedOutMatches
  <2>1. /\ req[r].config \in Configs /\ req[r].writer \in Writer
        /\ Key(req[r].writer.config) = Key(req[r].config)
    BY DEF HeldInv, Held
  <2>2. req[r].writer.config \in Configs
    BY <2>1 DEF Writer
  <2> QED BY <2>1, <2>2, KeyDeterminesTarget
<1> QED BY <1>1, HeldAlways, PTL

-----------------------------------------------------------------------------
(* The number of connections of a configuration                            *)

\* Bounded says something only about a finite pool: Writers need not be finite.
BoundedInv == TypeOK /\ IsFiniteSet(conns) /\ Bounded

LEMMA PoolFinite ==
  ASSUME IsFiniteSet(conns), NEW config \in Configs
  PROVE  /\ IsFiniteSet(Pool(Key(config)))
         /\ Cardinality(Pool(Key(config))) \in Nat
<1>1. Pool(Key(config)) \in SUBSET conns
  BY DEF Pool
<1> QED BY <1>1, FS_Subset, FS_CardinalityType

\* A step that replaces connections by connections of the same writers, or
\* drops some of them, makes no pool larger.
LEMMA ReplacedBounded ==
  ASSUME BoundedInv, NEW f, f \in [conns -> Connection],
         \A c \in conns : f[c].writer = c.writer,
         conns' \subseteq {f[c] : c \in conns}
  PROVE  IsFiniteSet(conns') /\ Bounded'
<1>0. IsFiniteSet(conns)
  BY DEF BoundedInv
<1>1. ASSUME NEW S \in SUBSET conns
      PROVE  LET T == {f[c] : c \in S} IN
               IsFiniteSet(T) /\ Cardinality(T) <= Cardinality(S)
  <2> DEFINE T == {f[c] : c \in S}
             g == [c \in S |-> f[c]]
  <2>1. g \in [S -> T] /\ \A t \in T : \E c \in S : g[c] = t
    OBVIOUS
  <2>2. g \in Surjection(S, T)
    BY <2>1 DEF Surjection
  <2>3. IsFiniteSet(S)
    BY <1>0, FS_Subset
  <2> HIDE DEF g, T
  <2>4. IsFiniteSet(T) /\ Cardinality(T) <= Cardinality(S)
    BY <2>2, <2>3, FS_Surjection
  <2> QED BY <2>4 DEF T
<1>2. IsFiniteSet(conns')
  <2>1. IsFiniteSet({f[c] : c \in conns})
    BY <1>1
  <2> QED BY <2>1, FS_Subset
<1>3. ASSUME NEW config \in Configs
      PROVE  Cardinality(Pool(Key(config))') <= MaxConnections
  <2> DEFINE P == Pool(Key(config))
             T == {f[c] : c \in P}
  <2>1. P \in SUBSET conns
    BY DEF Pool
  <2>2. IsFiniteSet(T) /\ Cardinality(T) <= Cardinality(P)
    BY <1>1, <2>1
  <2>3. P' \subseteq T
    <3> SUFFICES ASSUME NEW d \in P' PROVE d \in T
      OBVIOUS
    <3>1. d \in conns' /\ Key(d.writer.config) = Key(config)
      BY DEF Pool
    <3>2. PICK c \in conns : d = f[c]
      BY <3>1
    <3>3. c \in P
      BY <3>1, <3>2 DEF Pool
    <3> QED BY <3>2, <3>3
  <2>4. Cardinality(P) <= MaxConnections /\ Cardinality(P) \in Nat
    BY <1>0, PoolFinite DEF BoundedInv, Bounded
  <2> HIDE DEF P, T
  <2>5. /\ Cardinality(P') <= Cardinality(T)
        /\ Cardinality(P') \in Nat /\ Cardinality(T) \in Nat
    BY <2>2, <2>3, FS_Subset, FS_CardinalityType
  <2>6. Cardinality(P') <= MaxConnections
    BY <2>2, <2>4, <2>5, ConstantsAssumption
  <2> QED BY <2>6 DEF P
<1> QED BY <1>2, <1>3 DEF Bounded

\* The section of get_connection behind the test: it counts the pool it adds to.
LEMMA AdmitBounded ==
  ASSUME BoundedInv, NEW r \in Requests, NEW w \in Writer, Admit(r, w)
  PROVE  IsFiniteSet(conns') /\ Bounded'
<1> DEFINE new == NewConnection(w)
           Mine == Pool(Key(w.config))
<1>0. w.config \in Configs /\ new.writer = w
  BY DEF Writer, NewConnection
<1>1. /\ IsFiniteSet(conns) /\ IsFiniteSet(Mine)
      /\ Cardinality(Mine) \in Nat /\ Cardinality(Mine) <= MaxConnections
  BY <1>0, PoolFinite DEF BoundedInv, Bounded
<1>2. PICK evicted \in IF Cardinality(Mine) >= MaxConnections
                       THEN {{c} : c \in Oldest(Mine)} ELSE {{}} :
        conns' = (conns \ evicted) \cup {new}
  BY DEF Admit
<1> HIDE DEF new
<1>3. IsFiniteSet(conns')
  <2>1. IsFiniteSet(conns \ evicted)
    BY <1>1, FS_Subset
  <2> QED BY <1>2, <2>1, FS_AddElement
<1>4. Cardinality((Mine \ evicted) \cup {new}) <= MaxConnections
      /\ IsFiniteSet((Mine \ evicted) \cup {new})
  <2> HIDE DEF Mine
  <2>1. CASE Cardinality(Mine) >= MaxConnections
    <3>1. PICK c \in Oldest(Mine) : evicted = {c}
      BY <1>2, <2>1
    <3>2. c \in Mine
      BY <3>1 DEF Oldest
    <3>3. /\ IsFiniteSet(Mine \ {c})
          /\ Cardinality(Mine \ {c}) = Cardinality(Mine) - 1
      BY <1>1, <3>2, FS_RemoveElement
    <3>4. /\ IsFiniteSet((Mine \ {c}) \cup {new})
          /\ \/ Cardinality((Mine \ {c}) \cup {new}) = Cardinality(Mine \ {c})
             \/ Cardinality((Mine \ {c}) \cup {new}) = Cardinality(Mine \ {c}) + 1
      BY <3>3, FS_AddElement
    <3> QED BY <1>1, <3>1, <3>3, <3>4, ConstantsAssumption
  <2>2. CASE ~(Cardinality(Mine) >= MaxConnections)
    <3>1. evicted = {}
      BY <1>2, <2>2
    <3>2. /\ IsFiniteSet(Mine \cup {new})
          /\ \/ Cardinality(Mine \cup {new}) = Cardinality(Mine)
             \/ Cardinality(Mine \cup {new}) = Cardinality(Mine) + 1
      BY <1>1, FS_AddElement
    <3>3. (Mine \ evicted) \cup {new} = Mine \cup {new}
      BY <3>1
    <3>4. Cardinality(Mine) + 1 <= MaxConnections
      BY <1>1, <2>2, ConstantsAssumption
    <3> QED BY <1>1, <3>2, <3>3, <3>4, ConstantsAssumption
  <2> QED BY <2>1, <2>2
<1>5. ASSUME NEW config \in Configs
      PROVE  Cardinality(Pool(Key(config))') <= MaxConnections
  <2>1. CASE Key(config) = Key(w.config)
    <3>1. Pool(Key(config))' \subseteq (Mine \ evicted) \cup {new}
      BY <1>2, <2>1 DEF Pool
    <3> DEFINE P == Pool(Key(config))'
               Q == (Mine \ evicted) \cup {new}
    <3> HIDE DEF P, Q
    <3>2. P \subseteq Q /\ IsFiniteSet(Q) /\ Cardinality(Q) <= MaxConnections
      BY <1>4, <3>1 DEF P, Q
    <3>3. Cardinality(P) <= Cardinality(Q) /\ Cardinality(P) \in Nat /\ Cardinality(Q) \in Nat
      BY <3>2, FS_Subset, FS_CardinalityType
    <3>4. Cardinality(P) <= MaxConnections
      BY <3>2, <3>3, ConstantsAssumption
    <3> QED BY <3>4 DEF P
  <2>2. CASE Key(config) # Key(w.config)
    <3>1. Pool(Key(config))' \subseteq Pool(Key(config))
      BY <1>0, <1>2, <2>2 DEF Pool
    <3>2. /\ IsFiniteSet(Pool(Key(config)))
          /\ Cardinality(Pool(Key(config))) \in Nat
          /\ Cardinality(Pool(Key(config))) <= MaxConnections
      BY <1>1, PoolFinite DEF BoundedInv, Bounded
    <3> DEFINE P == Pool(Key(config))'
               Q == Pool(Key(config))
    <3> HIDE DEF P, Q
    <3>3. P \subseteq Q /\ IsFiniteSet(Q) /\ Cardinality(Q) <= MaxConnections
          /\ Cardinality(Q) \in Nat
      BY <3>1, <3>2 DEF P, Q
    <3>4. Cardinality(P) <= Cardinality(Q) /\ Cardinality(P) \in Nat
      BY <3>3, FS_Subset, FS_CardinalityType
    <3>5. Cardinality(P) <= MaxConnections
      BY <3>3, <3>4, ConstantsAssumption
    <3> QED BY <3>5 DEF P
  <2> QED BY <2>1, <2>2
<1> QED BY <1>3, <1>5 DEF Bounded

LEMMA BoundedInit == Init => IsFiniteSet(conns) /\ Bounded
<1> SUFFICES ASSUME Init PROVE IsFiniteSet(conns) /\ Bounded
  OBVIOUS
<1>1. conns = {} /\ \A config \in Configs : Pool(Key(config)) = {}
  BY DEF Init, Pool
<1>2. IsFiniteSet({}) /\ Cardinality({}) = 0 /\ 0 <= MaxConnections
  BY FS_EmptySet, ConstantsAssumption
<1> QED BY <1>1, <1>2 DEF Bounded

\* Every other action replaces connections or drops them.
LEMMA BoundedOther ==
  ASSUME BoundedInv,
         \/ \E r \in Requests :
              \/ \E config \in Configs : Reuse(r, config) \/ CreateFails(r, config)
              \/ RetryFails(r) \/ Release(r) \/ MarkError(r) \/ MarkHealthy(r)
         \/ Cleanup \/ Close \/ FinishClose \/ CloseAgain \/ Tick
         \/ UNCHANGED vars
  PROVE  IsFiniteSet(conns') /\ Bounded'
<1>0. conns \subseteq Connection
  BY DEF BoundedInv, TypeOK
<1>1. CASE conns' \subseteq conns
  <2> DEFINE f == [c \in conns |-> c]
  <2>1. f \in [conns -> Connection] /\ \A c \in conns : f[c] = c
    BY <1>0
  <2> HIDE DEF f
  <2>2. conns' \subseteq {f[c] : c \in conns}
    BY <1>1, <2>1
  <2> QED BY <2>1, <2>2, ReplacedBounded
<1>2. ASSUME NEW r \in Requests, NEW config \in Configs, Reuse(r, config)
      PROVE  IsFiniteSet(conns') /\ Bounded'
  <2>1. PICK c \in conns : conns' = (conns \ {c}) \cup {MarkUsed(c)}
    BY <1>2 DEF Reuse, Candidates, Pool
  <2> DEFINE f == [d \in conns |-> IF d = c THEN MarkUsed(c) ELSE d]
  <2>2. MarkUsed(c) \in Connection /\ MarkUsed(c).writer = c.writer
    BY <1>0, MarkUsedType
  <2>3. /\ f \in [conns -> Connection]
        /\ \A d \in conns : f[d] = IF d = c THEN MarkUsed(c) ELSE d
    BY <1>0, <2>2
  <2> HIDE DEF f
  <2>4. conns' \subseteq {f[d] : d \in conns} /\ \A d \in conns : f[d].writer = d.writer
    BY <2>1, <2>2, <2>3
  <2> QED BY <2>3, <2>4, ReplacedBounded
<1>3. ASSUME NEW r \in Requests, MarkError(r)
      PROVE  IsFiniteSet(conns') /\ Bounded'
  <2> DEFINE L == Looked(r)
             f == [d \in conns |-> IF d \in L THEN MarkedError(d) ELSE d]
  <2>1. conns' = (conns \ L) \cup {MarkedError(c) : c \in L} /\ L \subseteq conns
    BY <1>3 DEF MarkError, Looked, Pool
  <2>2. \A c \in conns : MarkedError(c) \in Connection /\ MarkedError(c).writer = c.writer
    BY <1>0, MarkedErrorType
  <2> HIDE DEF L
  <2>3. /\ f \in [conns -> Connection]
        /\ \A d \in conns : f[d] = IF d \in L THEN MarkedError(d) ELSE d
    BY <1>0, <2>2
  <2> HIDE DEF f
  <2>4. conns' \subseteq {f[d] : d \in conns} /\ \A d \in conns : f[d].writer = d.writer
    BY <2>1, <2>2, <2>3
  <2> QED BY <2>3, <2>4, ReplacedBounded
<1>4. ASSUME NEW r \in Requests, MarkHealthy(r)
      PROVE  IsFiniteSet(conns') /\ Bounded'
  <2> DEFINE L == Looked(r)
             f == [d \in conns |-> IF d \in L THEN MarkedHealthy(d) ELSE d]
  <2>1. conns' = (conns \ L) \cup {MarkedHealthy(c) : c \in L} /\ L \subseteq conns
    BY <1>4 DEF MarkHealthy, Looked, Pool
  <2>2. \A c \in conns : MarkedHealthy(c) \in Connection /\ MarkedHealthy(c).writer = c.writer
    BY <1>0, MarkedHealthyType
  <2> HIDE DEF L
  <2>3. /\ f \in [conns -> Connection]
        /\ \A d \in conns : f[d] = IF d \in L THEN MarkedHealthy(d) ELSE d
    BY <1>0, <2>2
  <2> HIDE DEF f
  <2>4. conns' \subseteq {f[d] : d \in conns} /\ \A d \in conns : f[d].writer = d.writer
    BY <2>1, <2>2, <2>3
  <2> QED BY <2>3, <2>4, ReplacedBounded
<1>5. CASE Tick
  <2> DEFINE f == [c \in conns |-> Aged(c)]
  <2>1. conns' = {Aged(c) : c \in conns}
    BY <1>5 DEF Tick
  <2>2. \A c \in conns : Aged(c) \in Connection /\ Aged(c).writer = c.writer
    BY <1>0, AgedType
  <2>3. f \in [conns -> Connection] /\ \A c \in conns : f[c] = Aged(c)
    BY <2>2
  <2> HIDE DEF f
  <2>4. conns' \subseteq {f[c] : c \in conns} /\ \A c \in conns : f[c].writer = c.writer
    BY <2>1, <2>2, <2>3
  <2> QED BY <2>3, <2>4, ReplacedBounded
<1>6. CASE \/ \E r \in Requests :
                \/ \E config \in Configs : CreateFails(r, config)
                \/ RetryFails(r) \/ Release(r)
           \/ Cleanup \/ Close \/ FinishClose \/ CloseAgain \/ UNCHANGED vars
  <2>1. conns' \subseteq conns
    BY <1>6 DEF CreateFails, RetryFails, Release, Cleanup, Close, FinishClose, CloseAgain, vars
  <2> QED BY <1>1, <2>1
<1> QED BY <1>2, <1>3, <1>4, <1>5, <1>6

LEMMA BoundedStep == HeldInv /\ BoundedInv /\ [Next]_vars => IsFiniteSet(conns') /\ Bounded'
<1> SUFFICES ASSUME HeldInv, BoundedInv, [Next]_vars
             PROVE  IsFiniteSet(conns') /\ Bounded'
  OBVIOUS
<1>1. ASSUME NEW r \in Requests, NEW config \in Configs, Create(r, config)
      PROVE  IsFiniteSet(conns') /\ Bounded'
  <2>1. NewWriter(config) \in Writer /\ Admit(r, NewWriter(config))
    BY <1>1, NewWriterType DEF Create
  <2> QED BY <2>1, AdmitBounded
<1>2. ASSUME NEW r \in Requests, RetrySucceeds(r)
      PROVE  IsFiniteSet(conns') /\ Bounded'
  <2>1. req[r].writer \in Writer /\ Admit(r, req[r].writer)
    BY <1>2 DEF HeldInv, Held, RetrySucceeds
  <2> QED BY <2>1, AdmitBounded
<1>3. CASE \/ \E r \in Requests :
                \/ \E config \in Configs : Reuse(r, config) \/ CreateFails(r, config)
                \/ RetryFails(r) \/ Release(r) \/ MarkError(r) \/ MarkHealthy(r)
           \/ Cleanup \/ Close \/ FinishClose \/ CloseAgain \/ Tick
           \/ UNCHANGED vars
  BY <1>3, BoundedOther
<1> QED BY <1>1, <1>2, <1>3 DEF Next, Step

\* However many requests test new connections side by side, a configuration has
\* at most max_connections: the section that adds one counts and removes first.
THEOREM PoolBounded == Spec => []Bounded
<1>1. Init => HeldInv /\ BoundedInv
  BY HeldInit, BoundedInit DEF HeldInv, BoundedInv
<1>2. HeldInv /\ BoundedInv /\ [Next]_vars => (HeldInv /\ BoundedInv)'
  BY HeldStep, BoundedStep DEF HeldInv, BoundedInv
<1>3. BoundedInv => Bounded
  BY DEF BoundedInv
<1> QED BY <1>1, <1>2, <1>3, PTL DEF Spec

-----------------------------------------------------------------------------
(* The operations of a writer                                              *)

FilesInv == FilesTypeOK /\ FreeMeansDone /\ SuccessMeansDone

LEMMA FilesInitial ==
  ASSUME FilesInit
  PROVE  FilesInv
<1>1. share \in [Nodes -> Node] BY DEF FilesInit, Node
<1>2. op = NoOp BY DEF FilesInit
<1>3. op \in Operation /\ op.at = "over" /\ op.result = "none"
  BY <1>2 DEF NoOp, Operation, Raw, MaxAttempts
<1> QED BY <1>1, <1>3 DEF FilesInv, FilesTypeOK, FreeMeansDone, SuccessMeansDone

\* What an attempt that fails leaves: the operation over, or begun again.
LEMMA AttemptFailed ==
  ASSUME FilesInv, op.at # "over", NEW code \in Errors, AttemptFails(code),
         UNCHANGED share
  PROVE  FilesInv'
<1>1. op \in Operation /\ op.kind \in Kinds /\ op.result = "none" BY DEF FilesInv, FilesTypeOK
<1>2. /\ op' \in Operation /\ op'.kind = op.kind /\ op'.path = op.path /\ op'.done = op.done
      /\ \/ op'.at = "over" /\ op'.result = code
         \/ op'.at = "begin" /\ op'.result = "none"
  <2>1. CASE op.attempt = MaxAttempts
    <3>1. op' = [op EXCEPT !.at = "over", !.result = code]
      BY <2>1 DEF AttemptFails, GiveUp, Return
    <3> QED BY <1>1, <3>1 DEF Operation
  <2>2. CASE op.attempt # MaxAttempts
    <3>1. op' = [op EXCEPT !.attempt = @ + 1, !.at = "begin"] BY <2>2 DEF AttemptFails
    <3>2. op.attempt + 1 \in 0..MaxAttempts BY <1>1, <2>2 DEF Operation, MaxAttempts
    <3> QED BY <1>1, <3>1, <3>2 DEF Operation
  <2> QED BY <2>1, <2>2
<1>3. FilesTypeOK' BY <1>1, <1>2 DEF FilesInv, FilesTypeOK
<1>4. FreeMeansDone' BY <1>2 DEF FilesInv, FreeMeansDone, Exists, Source
<1>5. SuccessMeansDone' BY <1>2 DEF SuccessMeansDone, Errors
<1> QED BY <1>3, <1>4, <1>5 DEF FilesInv

\* An attempt goes on to its next call.
LEMMA GoneOn ==
  ASSUME FilesInv, op.at # "over", UNCHANGED share,
         NEW at \in {"target", "exists", "isdir", "rmdir", "act"}, op' = [op EXCEPT !.at = at],
         at = "target" => op.kind = "rename",
         at = "exists" => op.kind \in {"size", "truncate", "remove"},
         at \in {"isdir", "rmdir"} => op.kind = "remove"
  PROVE  FilesInv'
<1>1. op \in Operation /\ op.kind \in Kinds /\ op.result = "none" BY DEF FilesInv, FilesTypeOK
<1>2. /\ op' \in Operation /\ op'.kind = op.kind /\ op'.path = op.path /\ op'.done = op.done
      /\ op'.at = at /\ op'.result = "none"
  BY <1>1 DEF Operation
<1>3. FilesTypeOK' BY <1>1, <1>2 DEF FilesInv, FilesTypeOK
<1>4. FreeMeansDone' BY <1>2 DEF FilesInv, FreeMeansDone, Exists, Source
<1>5. SuccessMeansDone' BY <1>2 DEF SuccessMeansDone
<1> QED BY <1>3, <1>4, <1>5 DEF FilesInv

\* The operation is over, and what it wanted has been done.
LEMMA Returned ==
  ASSUME FilesInv, op.at # "over", UNCHANGED share, Return("ok"), Wanted => op.done
  PROVE  FilesInv'
<1>1. op \in Operation BY DEF FilesInv, FilesTypeOK
<1>2. /\ op' \in Operation /\ op'.kind = op.kind /\ op'.done = op.done /\ op'.at = "over"
  BY <1>1 DEF Return, Operation
<1>3. FilesTypeOK' BY <1>2 DEF FilesInv, FilesTypeOK
<1>4. FreeMeansDone' BY <1>2 DEF FreeMeansDone
<1>5. SuccessMeansDone' BY <1>2 DEF SuccessMeansDone, Wanted
<1> QED BY <1>3, <1>4, <1>5 DEF FilesInv

LEMMA ErrorOfIsError ==
  ASSUME NEW kind
  PROVE  ErrorOf(kind) \in Errors
  BY DEF ErrorOf, Errors

LEMMA BeginStep ==
  ASSUME FilesInv, NEW kind \in Kinds, NEW path \in RawPaths, NEW dst \in RawPaths,
         Begin(kind, path, dst)
  PROVE  FilesInv'
<1> DEFINE done == Removes(kind) /\ ~Exists(UncPath(path))
<1>1. /\ op' = [kind |-> kind, path |-> path, dst |-> dst, at |-> "begin", attempt |-> 1,
                result |-> "none", done |-> done]
      /\ UNCHANGED share
  BY DEF Begin
<1>2. done \in BOOLEAN OBVIOUS
<1>3. done <=> Removes(kind) /\ ~Exists(UncPath(path)) OBVIOUS
<1> HIDE DEF done
<1>4. /\ op' \in Operation /\ op'.kind = kind /\ op'.path = path /\ op'.at = "begin"
      /\ op'.result = "none" /\ op'.done = done
  BY <1>1, <1>2 DEF Operation, Raw, MaxAttempts
<1>5. FilesTypeOK' BY <1>1, <1>4 DEF FilesInv, FilesTypeOK
<1>6. FreeMeansDone' BY <1>1, <1>3, <1>4 DEF FreeMeansDone, Source, Exists
<1>7. SuccessMeansDone' BY <1>4 DEF SuccessMeansDone
<1> QED BY <1>5, <1>6, <1>7 DEF FilesInv

LEMMA BeginAttemptStep ==
  ASSUME FilesInv, BeginAttempt
  PROVE  FilesInv'
<1>1. op.at = "begin" /\ op.kind \in Kinds /\ UNCHANGED share
  BY DEF BeginAttempt, FilesInv, FilesTypeOK
<1>2. \/ \E code \in {"STORAGE_REMOVE_ROOT_FORBIDDEN", "SMB_ERROR", "SMB_PATH_OUTSIDE_ROOT"} :
           AttemptFails(code)
      \/ op' = [op EXCEPT !.at = FirstCall(op.kind)]
  BY DEF BeginAttempt
<1>3. /\ FirstCall(op.kind) \in {"target", "exists", "isdir", "act"}
      /\ FirstCall(op.kind) = "target" => op.kind = "rename"
      /\ FirstCall(op.kind) = "exists" => op.kind \in {"size", "truncate", "remove"}
      /\ FirstCall(op.kind) = "isdir" => op.kind = "remove"
  BY DEF FirstCall
<1>4. ASSUME NEW code \in {"STORAGE_REMOVE_ROOT_FORBIDDEN", "SMB_ERROR", "SMB_PATH_OUTSIDE_ROOT"},
             AttemptFails(code)
      PROVE  FilesInv'
  BY <1>1, <1>4, AttemptFailed DEF Errors
<1>5. CASE op' = [op EXCEPT !.at = FirstCall(op.kind)]
  BY <1>1, <1>3, <1>5, GoneOn
<1> QED BY <1>2, <1>4, <1>5

LEMMA LookStep ==
  ASSUME FilesInv, LookTarget \/ LookExists \/ LookIsDir \/ LookFails
  PROVE  FilesInv'
<1>1. CASE LookTarget
  <2>1. op.at = "target" /\ UNCHANGED share BY <1>1 DEF LookTarget
  <2>2. AttemptFails("TARGET_EXISTS") \/ op' = [op EXCEPT !.at = "act"] BY <1>1 DEF LookTarget
  <2> QED BY <2>1, <2>2, AttemptFailed, GoneOn DEF Errors
<1>2. CASE LookExists
  <2>1. /\ op.at = "exists" /\ UNCHANGED share /\ op.kind \in {"size", "truncate", "remove"}
    BY <1>2 DEF LookExists, FilesInv, FilesTypeOK
  <2>2. CASE Exists(Source)
    <3>1. op' = [op EXCEPT !.at = "act"] BY <1>2, <2>2 DEF LookExists
    <3> QED BY <2>1, <3>1, GoneOn
  <2>3. CASE op.kind = "size" /\ ~Exists(Source)
    <3>1. AttemptFails("STORAGE_PATH_NOT_FOUND") BY <1>2, <2>3 DEF LookExists
    <3> QED BY <2>1, <3>1, AttemptFailed DEF Errors
  <2>4. CASE op.kind # "size" /\ ~Exists(Source)
    <3>1. Return("ok") BY <1>2, <2>4 DEF LookExists
    <3>2. Wanted => op.done
      BY <2>1, <2>4 DEF Wanted, Removes, FilesInv, FreeMeansDone
    <3> QED BY <2>1, <3>1, <3>2, Returned
  <2> QED BY <2>2, <2>3, <2>4
<1>3. CASE LookIsDir
  <2>1. op.at = "isdir" /\ UNCHANGED share /\ op.kind = "remove"
    BY <1>3 DEF LookIsDir, FilesInv, FilesTypeOK
  <2>2. op' = [op EXCEPT !.at = "rmdir"] \/ op' = [op EXCEPT !.at = "exists"] BY <1>3 DEF LookIsDir
  <2> QED BY <2>1, <2>2, GoneOn
<1>4. CASE LookFails
  <2>1. op.at # "over" /\ UNCHANGED share /\ AttemptFails(ErrorOf(op.kind)) BY <1>4 DEF LookFails
  <2> QED BY <2>1, ErrorOfIsError, AttemptFailed
<1> QED BY <1>1, <1>2, <1>3, <1>4

\* Whatever a call does to the share, it is a share.
LEMMA EffectTyped ==
  ASSUME FilesInv, Acting
  PROVE  Effect \in [Nodes -> Node]
<1>1. share \in [Nodes -> Node] /\ op.kind \in Kinds BY DEF FilesInv, FilesTypeOK, Acting
<1>2. Absent \in Node /\ Directory \in Node /\ FileOf(0) \in Node BY PathsAssumption DEF Node
<1>3. \A p : MakeDirs(p) \in [Nodes -> Node] BY <1>1, <1>2 DEF MakeDirs
<1>4. Call \in Kinds \cup {"rmdir"} BY <1>1 DEF Call
<1>5. CASE Call = "mkdirs"
  <2>1. Effect = MakeDirs(Source) BY <1>5 DEF Effect, Reads
  <2> QED BY <2>1, <1>3
<1>6. CASE Call = "open_append"
  <2>1. Effect = [q \in Nodes |-> IF q # Source THEN MakeDirs(Front(Source))[q]
                                  ELSE IF IsFile(q) THEN share[q] ELSE FileOf(0)]
    BY <1>6 DEF Effect, Reads
  <2> QED BY <2>1, <1>1, <1>2, <1>3
<1>7. CASE Call = "truncate"
  <2>1. Effect = [share EXCEPT ![Source] = FileOf(0)] BY <1>7 DEF Effect, Reads
  <2> QED BY <2>1, <1>1, <1>2
<1>8. CASE Call = "rename"
  <2>1. Effect = Moved(Source, Target) BY <1>8 DEF Effect, Reads
  <2>2. \A src, dst : Moved(src, dst) \in [Nodes -> Node] BY <1>1, <1>2 DEF Moved
  <2> QED BY <2>1, <2>2
<1>9. CASE Call \in {"rmdir", "remove"}
  <2>1. Effect = [share EXCEPT ![Source] = Absent] BY <1>9 DEF Effect, RemoveNode, Reads
  <2> QED BY <2>1, <1>1, <1>2
<1>10. CASE Call \in Reads
  <2>1. Effect = share BY <1>10 DEF Effect, Reads
  <2> QED BY <2>1, <1>1
<1> QED BY <1>4, <1>5, <1>6, <1>7, <1>8, <1>9, <1>10 DEF Kinds, Reads, Call

LEMMA ActStep ==
  ASSUME FilesInv, Act \/ CallRefused \/ CallLost \/ ReplyLost
  PROVE  FilesInv'
<1>1. Acting /\ op.at # "over" /\ op \in Operation /\ op.kind \in Kinds /\ op.result = "none"
  BY DEF Act, CallRefused, CallLost, ReplyLost, Acting, FilesInv, FilesTypeOK
<1>2. CASE CallRefused \/ CallLost
  <2>1. AttemptFails(ErrorOf(op.kind)) /\ UNCHANGED share BY <1>2 DEF CallRefused, CallLost
  <2> QED BY <1>1, <2>1, ErrorOfIsError, AttemptFailed
<1>3. CASE Act \/ ReplyLost
  <2>1. share' = Effect BY <1>3 DEF Act, ReplyLost
  <2>2. /\ op' \in Operation /\ op'.done = TRUE /\ op'.kind = op.kind
        /\ op'.at \in {"over", "begin"}
        /\ op'.at = "begin" => op'.result = "none"
    <3>1. CASE Act BY <1>1, <3>1 DEF Act, Operation
    <3>2. CASE ReplyLost
      <4>1. DoneAndFailed(ErrorOf(op.kind)) BY <3>2 DEF ReplyLost
      <4>2. CASE op.attempt = MaxAttempts
        <5>1. op' = [op EXCEPT !.done = TRUE, !.attempt = @, !.at = "over", !.result = ErrorOf(op.kind)]
          BY <4>1, <4>2 DEF DoneAndFailed
        <5> QED BY <1>1, <5>1, ErrorOfIsError DEF Operation
      <4>3. CASE op.attempt # MaxAttempts
        <5>1. op' = [op EXCEPT !.done = TRUE, !.attempt = @ + 1, !.at = "begin", !.result = @]
          BY <4>1, <4>3 DEF DoneAndFailed
        <5>2. op.attempt + 1 \in 0..MaxAttempts BY <1>1, <4>3 DEF Operation, MaxAttempts
        <5> QED BY <1>1, <5>1, <5>2 DEF Operation
      <4> QED BY <4>2, <4>3
    <3> QED BY <1>3, <3>1, <3>2
  <2>3. FilesTypeOK' BY <1>1, <2>1, <2>2, EffectTyped DEF FilesTypeOK
  <2> QED BY <2>2, <2>3 DEF FilesInv, FreeMeansDone, SuccessMeansDone
<1> QED BY <1>2, <1>3

LEMMA OthersStep ==
  ASSUME FilesInv, Others
  PROVE  FilesInv'
<1>1. op \in Operation /\ share \in [Nodes -> Node] BY DEF FilesInv, FilesTypeOK
<1>2. share' \in [Nodes -> Node] BY <1>1 DEF Others
<1>3. /\ op' \in Operation /\ op'.kind = op.kind /\ op'.path = op.path /\ op'.at = op.at
      /\ op'.result = op.result
      /\ op.done => op'.done
      /\ Removes(op.kind) /\ op.at # "over" => (op'.done <=> op.done \/ share'[Source] = Absent)
  <2>1. CASE Removes(op.kind) /\ op.at # "over"
    <3>1. op' = [op EXCEPT !.done = @ \/ share'[Source] = Absent] BY <2>1 DEF Others
    <3> DEFINE free == share'[Source] = Absent
               done == op.done \/ free
    <3>2. done \in BOOLEAN BY <1>1 DEF Operation
    <3>3. op' = [op EXCEPT !.done = done] BY <3>1
    <3>4. done <=> op.done \/ share'[Source] = Absent OBVIOUS
    <3> HIDE DEF done
    <3>5. /\ op' \in Operation /\ op'.kind = op.kind /\ op'.path = op.path /\ op'.at = op.at
          /\ op'.result = op.result /\ op'.done = done
      BY <1>1, <3>2, <3>3 DEF Operation
    <3> QED BY <3>4, <3>5
  <2>2. CASE ~(Removes(op.kind) /\ op.at # "over")
    <3>1. op' = op BY <2>2 DEF Others
    <3> QED BY <1>1, <2>2, <3>1
  <2> QED BY <2>1, <2>2
<1>4. FilesTypeOK' BY <1>2, <1>3 DEF FilesInv, FilesTypeOK
<1>5. FreeMeansDone' BY <1>3 DEF FreeMeansDone, Exists, Source
<1>6. SuccessMeansDone' BY <1>3 DEF FilesInv, SuccessMeansDone, Wanted
<1> QED BY <1>4, <1>5, <1>6 DEF FilesInv

LEMMA FilesAlways ==
  FilesSpec => []FilesInv
<1>1. FilesInit => FilesInv BY FilesInitial
<1>2. FilesInv /\ [FilesNext]_filesVars => FilesInv'
  <2>1. CASE UNCHANGED filesVars
    BY <2>1 DEF filesVars, FilesInv, FilesTypeOK, FreeMeansDone, Exists, Source, SuccessMeansDone,
                Wanted
  <2> QED BY <2>1, BeginStep, BeginAttemptStep, LookStep, ActStep, OthersStep DEF FilesNext, WriterStep
<1> QED BY <1>1, <1>2, PTL DEF FilesSpec

\* What an operation is at, and what the share has at every path, keeps its type.
THEOREM FilesTypeCorrect ==
  FilesSpec => []FilesTypeOK
<1>1. FilesInv => FilesTypeOK BY DEF FilesInv
<1> QED BY <1>1, FilesAlways, PTL

\* Whatever calls and replies are lost, however often an operation is repeated
\* and whatever other clients do meanwhile, one that returns without an error
\* has had its effect (storage/smb.py, _execute_with_retry).
THEOREM FilesSuccessMeansDone ==
  FilesSpec => []SuccessMeansDone
<1>1. FilesInv => SuccessMeansDone BY DEF FilesInv
<1> QED BY <1>1, FilesAlways, PTL

-----------------------------------------------------------------------------
(* LibraryConfig                                                             *)

LEMMA PutFacts ==
  ASSUME NEW table, NEW id, NEW row
  PROVE  /\ DOMAIN Put(table, id, row) = DOMAIN table \cup {id}
         /\ Put(table, id, row)[id] = row
         /\ \A x \in DOMAIN table \ {id} : Put(table, id, row)[x] = table[x]
  BY DEF Put

LEMMA WithoutFacts ==
  ASSUME NEW table, NEW ids
  PROVE  /\ DOMAIN Without(table, ids) = DOMAIN table \ ids
         /\ \A x \in DOMAIN table \ ids : Without(table, ids)[x] = table[x]
  BY DEF Without, Restrict

LEMMA PutTyped ==
  ASSUME NEW Keys, NEW Rows, NEW table, Table(Keys, Rows, table), NEW id \in Keys, NEW row \in Rows
  PROVE  Table(Keys, Rows, Put(table, id, row))
  BY DEF Table, Put

LEMMA WithoutTyped ==
  ASSUME NEW Keys, NEW Rows, NEW table, Table(Keys, Rows, table), NEW ids
  PROVE  Table(Keys, Rows, Without(table, ids))
  BY DEF Table, Without, Restrict

\* What an update or a change of the enabled column leaves alone.
LEMMA UpdatedConn ==
  ASSUME NEW row \in ConnectionRow, NEW enabled \in BOOLEAN, NEW changed \in BOOLEAN,
         NEW new \in Updated(row, enabled, changed)
  PROVE  new \in ConnectionRow
  BY DEF Updated, ConnectionRow, TestResult

LEMMA UpdatedLocal ==
  ASSUME NEW row \in LocalLib, NEW enabled \in BOOLEAN, NEW changed \in BOOLEAN,
         NEW new \in Updated(row, enabled, changed)
  PROVE  new \in LocalLib
  BY DEF Updated, LocalLib, TestResult

LEMMA UpdatedRemote ==
  ASSUME NEW row \in RemoteLib, NEW enabled \in BOOLEAN, NEW changed \in BOOLEAN,
         NEW new \in Updated(row, enabled, changed)
  PROVE  new \in RemoteLib
  BY DEF Updated, RemoteLib, TestResult

-----------------------------------------------------------------------------
(* The tables after each kind of request, as far as the keys can tell        *)

\* Rows keep the keys they have.
SameKeys ==
  /\ DOMAIN conn' = DOMAIN conn /\ DOMAIN local' = DOMAIN local /\ DOMAIN remote' = DOMAIN remote
  /\ \A l \in DOMAIN local : local'[l].conn = local[l].conn
  /\ \A r \in DOMAIN remote : remote'[r].conn = remote[r].conn /\ remote'[r].target = remote[r].target
  /\ DOMAIN binding' = DOMAIN binding
  /\ \A b \in DOMAIN binding : binding'[b].remote = binding[b].remote /\ binding'[b].local = binding[b].local
  /\ DOMAIN seen' = DOMAIN seen

LibInv == LibrariesTypeOK /\ KeysHold /\ LocksHold /\ TargetHasBinding

LEMMA EnableConnKeys ==
  ASSUME LibrariesTypeOK, NEW c, NEW enabled \in BOOLEAN, EnableConn(c, enabled)
  PROVE  SameKeys /\ Table(Conns, ConnectionRow, conn')
  BY DEF LibrariesTypeOK, Table, EnableConn, SameKeys, ConnectionRow

LEMMA EnableLocalKeys ==
  ASSUME LibrariesTypeOK, NEW l, NEW enabled \in BOOLEAN, EnableLocal(l, enabled)
  PROVE  SameKeys /\ Table(Locals, LocalLib, local')
  BY DEF LibrariesTypeOK, Table, EnableLocal, SameKeys, LocalLib

LEMMA EnableRemoteKeys ==
  ASSUME LibrariesTypeOK, NEW r, NEW enabled \in BOOLEAN, EnableRemote(r, enabled)
  PROVE  SameKeys /\ Table(Remotes, RemoteLib, remote')
  BY DEF LibrariesTypeOK, Table, EnableRemote, SameKeys, RemoteLib

LEMMA EnableBindingKeys ==
  ASSUME LibrariesTypeOK, NEW b, NEW enabled \in BOOLEAN, EnableBinding(b, enabled)
  PROVE  SameKeys /\ Table(Bindings, Binding, binding')
  BY DEF LibrariesTypeOK, Table, EnableBinding, SameKeys, Binding

LEMMA RecordedTyped ==
  ASSUME LibrariesTypeOK, NEW result \in {"ok", "failed"}, EndTest(result)
  PROVE  /\ SameKeys /\ Table(Conns, ConnectionRow, conn') /\ Table(Locals, LocalLib, local')
         /\ Table(Remotes, RemoteLib, remote')
<1> DEFINE Recorded(rows) ==
             IF test.id \in DOMAIN rows /\ result # test.loaded
             THEN [rows EXCEPT ![test.id].tested = result] ELSE rows
<1>1. /\ conn' \in {conn, Recorded(conn)} /\ local' \in {local, Recorded(local)}
      /\ remote' \in {remote, Recorded(remote)} /\ UNCHANGED <<binding, seen>>
  BY DEF EndTest
<1>2. /\ DOMAIN conn' = DOMAIN conn /\ Table(Conns, ConnectionRow, conn')
  BY <1>1 DEF LibrariesTypeOK, Table, ConnectionRow, TestResult
<1>3. /\ DOMAIN local' = DOMAIN local /\ Table(Locals, LocalLib, local')
      /\ \A l \in DOMAIN local : local'[l].conn = local[l].conn
  BY <1>1 DEF LibrariesTypeOK, Table, LocalLib, TestResult
<1>4. /\ DOMAIN remote' = DOMAIN remote /\ Table(Remotes, RemoteLib, remote')
      /\ \A r \in DOMAIN remote : remote'[r].conn = remote[r].conn /\ remote'[r].target = remote[r].target
  BY <1>1 DEF LibrariesTypeOK, Table, RemoteLib, TestResult
<1> QED BY <1>1, <1>2, <1>3, <1>4 DEF SameKeys

\* A step after which all rows have the keys they had breaks nothing, if no
\* transaction ends or begins.
LEMMA SameKeysHold ==
  ASSUME LibInv, SameKeys, UNCHANGED job
  PROVE  KeysHold' /\ LocksHold' /\ TargetHasBinding'
  BY DEF LibInv, SameKeys, KeysHold, Integrity, LocksHold, Written, TargetHasBinding

\* Rows that are added, and rows that go while nothing refers to them, neither.
LEMMA LocksKept ==
  ASSUME LocksHold, UNCHANGED job,
         \A x \in DOMAIN remote \ DOMAIN remote' : x \notin Referred,
         \A x \in DOMAIN local \ DOMAIN local' : x \notin Referred,
         job.kind = "create" /\ job.id \in DOMAIN seen => job.id \in DOMAIN seen'
  PROVE  LocksHold'
  BY DEF LocksHold, Written, Referred

-----------------------------------------------------------------------------
(* Connections                                                               *)

LEMMA ConnStep ==
  ASSUME LibInv, ConnRequest
  PROVE  LibInv'
<1>1. PICK c \in Conns :
        \/ \E enabled \in BOOLEAN :
             \/ CreateConn(c, enabled) \/ EnableConn(c, enabled)
             \/ \E changed \in BOOLEAN : UpdateConn(c, enabled, changed)
        \/ UnbindConn(c) \/ DeleteConn(c)
  BY DEF ConnRequest
<1>2. ASSUME NEW enabled \in BOOLEAN, CreateConn(c, enabled) PROVE LibInv'
  <2>1. [enabled |-> enabled, tested |-> "none"] \in ConnectionRow BY DEF ConnectionRow, TestResult
  <2>2. /\ conn' = Put(conn, c, [enabled |-> enabled, tested |-> "none"])
        /\ UNCHANGED <<local, remote, binding, seen, test, job>>
    BY <1>2 DEF CreateConn, Quiet
  <2>3. Table(Conns, ConnectionRow, conn') BY <2>1, <2>2, PutTyped DEF LibInv, LibrariesTypeOK
  <2>4. DOMAIN conn \subseteq DOMAIN conn' BY <2>2 DEF Put
  <2>5. LibrariesTypeOK' BY <2>2, <2>3 DEF LibInv, LibrariesTypeOK
  <2>6. KeysHold' BY <2>2, <2>4 DEF LibInv, KeysHold, Integrity
  <2>7. LocksHold' BY <2>2 DEF LibInv, LocksHold, Written
  <2> QED BY <2>2, <2>5, <2>6, <2>7 DEF LibInv, TargetHasBinding
<1>3. ASSUME NEW enabled \in BOOLEAN, EnableConn(c, enabled) PROVE LibInv'
  <2>1. UNCHANGED <<local, remote, binding, seen, test, job>> BY <1>3 DEF EnableConn, Quiet
  <2> QED BY <1>3, <2>1, EnableConnKeys, SameKeysHold DEF LibInv, LibrariesTypeOK
<1>4. ASSUME NEW enabled \in BOOLEAN, NEW changed \in BOOLEAN, UpdateConn(c, enabled, changed)
      PROVE  LibInv'
  <2>1. UNCHANGED <<local, remote, binding, seen, test, job>> /\ c \in DOMAIN conn
    BY <1>4 DEF UpdateConn, Quiet
  <2>2. PICK row \in Updated(conn[c], enabled, changed) : conn' = [conn EXCEPT ![c] = row]
    BY <1>4 DEF UpdateConn
  <2>3. row \in ConnectionRow BY <2>1, UpdatedConn DEF LibInv, LibrariesTypeOK, Table
  <2>4. DOMAIN conn' = DOMAIN conn /\ Table(Conns, ConnectionRow, conn')
    BY <2>2, <2>3 DEF LibInv, LibrariesTypeOK, Table
  <2>5. SameKeys BY <2>1, <2>4 DEF SameKeys
  <2> QED BY <2>1, <2>4, <2>5, SameKeysHold DEF LibInv, LibrariesTypeOK
<1>5. CASE UnbindConn(c)
  <2>1. UNCHANGED <<local, remote, binding, seen, test, job>> BY <1>5 DEF UnbindConn, Refused, tables, Quiet
  <2>2. conn' = conn \/ (LocalsOf(c) \cup RemotesOf(c) = {} /\ conn' = Without(conn, {c}))
    BY <1>5 DEF UnbindConn, Refused, tables
  <2>3. Table(Conns, ConnectionRow, conn') BY <2>2, WithoutTyped DEF LibInv, LibrariesTypeOK
  <2>4. \A x \in DOMAIN conn \ DOMAIN conn' : x = c /\ LocalsOf(c) \cup RemotesOf(c) = {}
    BY <2>2, WithoutFacts
  <2>5. KeysHold' BY <2>1, <2>4 DEF LibInv, KeysHold, Integrity, LocalsOf, RemotesOf
  <2>6. LocksHold' BY <2>1 DEF LibInv, LocksHold, Written
  <2> QED BY <2>1, <2>3, <2>5, <2>6 DEF LibInv, LibrariesTypeOK, TargetHasBinding
<1>6. CASE DeleteConn(c)
  <2> DEFINE seens == Without(seen, RemotesOf(c))
             remotes == Without(remote, RemotesOf(c))
             locals == Without(local, LocalsOf(c))
             connections == Without(conn, {c})
  <2>1. /\ UNCHANGED <<binding, test, job>>
        /\ Free(RemotesOf(c), LocalsOf(c) \cup RemotesOf(c))
        /\ \/ UNCHANGED tables
           \/ /\ Integrity(locals, remotes, binding, seens, connections)
              /\ seen' = seens /\ remote' = remotes /\ local' = locals /\ conn' = connections
    BY <1>6 DEF DeleteConn, Refused, tables, Quiet
  <2>2. CASE UNCHANGED tables
    <3>1. SameKeys BY <2>2 DEF SameKeys, tables
    <3> QED BY <2>1, <2>2, <3>1, SameKeysHold DEF LibInv, LibrariesTypeOK, tables
  <2>3. CASE /\ Integrity(locals, remotes, binding, seens, connections)
             /\ seen' = seens /\ remote' = remotes /\ local' = locals /\ conn' = connections
    <3>1. LibrariesTypeOK'
      <4>1. /\ Table(Bindings, {"stable", "queued", "other"}, seens)
            /\ Table(Remotes, RemoteLib, remotes) /\ Table(Locals, LocalLib, locals)
            /\ Table(Conns, ConnectionRow, connections)
        BY WithoutTyped DEF LibInv, LibrariesTypeOK
      <4> QED BY <2>1, <2>3, <4>1 DEF LibInv, LibrariesTypeOK
    <3>2. KeysHold' BY <2>1, <2>3 DEF KeysHold, Integrity
    <3>3. /\ DOMAIN remotes = DOMAIN remote \ RemotesOf(c) /\ DOMAIN locals = DOMAIN local \ LocalsOf(c)
          /\ DOMAIN seens = DOMAIN seen \ RemotesOf(c)
          /\ \A r \in DOMAIN remotes : remotes[r] = remote[r]
      BY DEF Without, Restrict
    <3>4. LocksHold' BY <2>1, <2>3, <3>3, LocksKept DEF LibInv, Free
    <3>5. TargetHasBinding' BY <2>1, <2>3, <3>3 DEF LibInv, TargetHasBinding
    <3> QED BY <3>1, <3>2, <3>4, <3>5 DEF LibInv
  <2> QED BY <2>1, <2>2, <2>3
<1> QED BY <1>1, <1>2, <1>3, <1>4, <1>5, <1>6

-----------------------------------------------------------------------------
(* Local libraries                                                           *)

\* A local library, with what has it as its target, goes.
LEMMA LocalGone ==
  ASSUME LibInv, NEW l, NEW gone, UNCHANGED <<conn, binding, test, job>>,
         Integrity(Without(local, {l}), Without(remote, gone), binding, Without(seen, gone), conn),
         local' = Without(local, {l}), remote' = Without(remote, gone), seen' = Without(seen, gone),
         Free(gone, gone \cup {l})
  PROVE  LibInv'
<1>1. LibrariesTypeOK'
  <2>1. /\ Table(Bindings, {"stable", "queued", "other"}, Without(seen, gone))
        /\ Table(Remotes, RemoteLib, Without(remote, gone))
        /\ Table(Locals, LocalLib, Without(local, {l}))
    BY WithoutTyped DEF LibInv, LibrariesTypeOK
  <2> QED BY <2>1 DEF LibInv, LibrariesTypeOK
<1>2. KeysHold' BY DEF KeysHold, Integrity
<1>3. /\ DOMAIN remote' = DOMAIN remote \ gone /\ DOMAIN local' = DOMAIN local \ {l}
      /\ DOMAIN seen' = DOMAIN seen \ gone
      /\ \A r \in DOMAIN remote' : remote'[r] = remote[r]
  BY DEF Without, Restrict
<1>4. LocksHold' BY <1>3, LocksKept DEF LibInv, Free
<1>5. TargetHasBinding' BY <1>3 DEF LibInv, TargetHasBinding
<1> QED BY <1>1, <1>2, <1>4, <1>5 DEF LibInv

LEMMA RefusedKeeps ==
  ASSUME LibInv, UNCHANGED <<tables, test, job>>
  PROVE  LibInv'
  BY DEF LibInv, tables, LibrariesTypeOK, KeysHold, Integrity, LocksHold, Written, TargetHasBinding

LEMMA LocalStep ==
  ASSUME LibInv, LocalRequest
  PROVE  LibInv'
<1>1. PICK l \in Locals :
        \/ \E enabled \in BOOLEAN :
             \/ EnableLocal(l, enabled)
             \/ \E c \in Conns, type \in Types :
                  \/ CreateLocal(l, c, type, enabled)
                  \/ \E moved \in BOOLEAN : UpdateLocal(l, c, type, enabled, moved)
        \/ UnbindLocal(l) \/ DeleteLocalOnly(l) \/ DeleteLocal(l)
  BY DEF LocalRequest
<1>2. ASSUME NEW enabled \in BOOLEAN, EnableLocal(l, enabled) PROVE LibInv'
  <2>1. UNCHANGED <<conn, remote, binding, seen, test, job>> BY <1>2 DEF EnableLocal, Quiet
  <2> QED BY <1>2, <2>1, EnableLocalKeys, SameKeysHold DEF LibInv, LibrariesTypeOK
<1>3. ASSUME NEW enabled \in BOOLEAN, NEW c \in Conns, NEW type \in Types,
             CreateLocal(l, c, type, enabled)
      PROVE  LibInv'
  <2> DEFINE row == [conn |-> c, type |-> type, enabled |-> enabled, tested |-> "none"]
  <2>1. row \in LocalLib /\ row.conn = c BY DEF LocalLib, TestResult
  <2>2. /\ local' = Put(local, l, row) /\ c \in DOMAIN conn /\ l \notin DOMAIN local
        /\ UNCHANGED <<conn, remote, binding, seen, test, job>>
    BY <1>3 DEF CreateLocal, Quiet
  <2> HIDE DEF row
  <2>3. Table(Locals, LocalLib, local') BY <2>1, <2>2, PutTyped DEF LibInv, LibrariesTypeOK
  <2>4. /\ DOMAIN local' = DOMAIN local \cup {l} /\ local'[l] = row
        /\ \A k \in DOMAIN local \ {l} : local'[k] = local[k]
    BY <2>2 DEF Put
  <2>5. LibrariesTypeOK' BY <2>2, <2>3 DEF LibInv, LibrariesTypeOK
  <2>6. KeysHold' BY <2>1, <2>2, <2>4 DEF LibInv, KeysHold, Integrity
  <2>7. LocksHold' BY <2>2, <2>4 DEF LibInv, LocksHold, Written
  <2> QED BY <2>2, <2>5, <2>6, <2>7 DEF LibInv, TargetHasBinding
<1>4. ASSUME NEW enabled \in BOOLEAN, NEW c \in Conns, NEW type \in Types, NEW moved \in BOOLEAN,
             UpdateLocal(l, c, type, enabled, moved)
      PROVE  LibInv'
  <2>1. /\ UNCHANGED <<conn, remote, binding, seen, test, job>>
        /\ l \in DOMAIN local /\ c \in DOMAIN conn
    BY <1>4 DEF UpdateLocal, Quiet
  <2>2. PICK old \in Updated(local[l], enabled, moved \/ c # local[l].conn) :
          local' = [local EXCEPT ![l] = [old EXCEPT !.conn = c, !.type = type]]
    BY <1>4 DEF UpdateLocal
  <2> DEFINE row == [old EXCEPT !.conn = c, !.type = type]
             changed == moved \/ c # local[l].conn
  <2>3. old \in LocalLib
    <3>1. changed \in BOOLEAN /\ local[l] \in LocalLib BY <2>1 DEF LibInv, LibrariesTypeOK, Table
    <3>2. old \in Updated(local[l], enabled, changed) BY <2>2
    <3> HIDE DEF changed
    <3> QED BY <3>1, <3>2, UpdatedLocal
  <2>4. row \in LocalLib /\ row.conn = c BY <2>3 DEF LocalLib
  <2>5. local' = [local EXCEPT ![l] = row] BY <2>2
  <2> HIDE DEF row
  <2>6. /\ DOMAIN local' = DOMAIN local /\ Table(Locals, LocalLib, local') /\ local'[l] = row
        /\ \A k \in DOMAIN local \ {l} : local'[k] = local[k]
    BY <2>1, <2>4, <2>5 DEF LibInv, LibrariesTypeOK, Table
  <2>7. LibrariesTypeOK' BY <2>1, <2>6 DEF LibInv, LibrariesTypeOK
  <2>8. KeysHold' BY <2>1, <2>4, <2>6 DEF LibInv, KeysHold, Integrity
  <2>9. LocksHold' BY <2>1, <2>6 DEF LibInv, LocksHold, Written
  <2> QED BY <2>1, <2>7, <2>8, <2>9 DEF LibInv, TargetHasBinding
<1>5. CASE UnbindLocal(l)
  <2> DEFINE remotes == [r \in DOMAIN remote |->
                       IF r \in BoundTo(l) THEN [remote[r] EXCEPT !.target = None] ELSE remote[r]]
             locals == Without(local, {l})
  <2>1. /\ UNCHANGED <<conn, binding, seen, test, job>> /\ Free({}, {l})
        /\ \/ UNCHANGED tables
           \/ /\ Integrity(locals, remotes, binding, seen, conn)
              /\ local' = locals /\ remote' = remotes
    BY <1>5 DEF UnbindLocal, Refused, tables, Quiet
  <2>2. ASSUME Integrity(locals, remotes, binding, seen, conn), local' = locals, remote' = remotes
        PROVE  LibInv'
    <3>1. DOMAIN locals = DOMAIN local \ {l} /\ Table(Locals, LocalLib, locals)
      BY WithoutFacts, WithoutTyped DEF LibInv, LibrariesTypeOK
    <3>2. /\ DOMAIN remotes = DOMAIN remote /\ Table(Remotes, RemoteLib, remotes)
          /\ \A r \in DOMAIN remote : remotes[r].target \in {None, remote[r].target}
      BY DEF LibInv, LibrariesTypeOK, Table, RemoteLib
    <3>3. KeysHold' BY <2>1, <2>2 DEF KeysHold, Integrity
    <3> HIDE DEF remotes, locals
    <3>4. LibrariesTypeOK' BY <2>1, <2>2, <3>1, <3>2 DEF LibInv, LibrariesTypeOK
    <3>5. LocksHold' BY <2>1, <2>2, <3>1, <3>2, LocksKept DEF LibInv, Free
    <3>6. TargetHasBinding' BY <2>1, <2>2, <3>2 DEF LibInv, TargetHasBinding
    <3> QED BY <3>3, <3>4, <3>5, <3>6 DEF LibInv
  <2> QED BY <2>1, <2>2, RefusedKeeps DEF tables
<1>6. CASE DeleteLocalOnly(l)
  <2> DEFINE locals == Without(local, {l})
  <2>1. /\ UNCHANGED <<conn, remote, binding, seen, test, job>> /\ Free({}, {l})
        /\ \/ UNCHANGED tables
           \/ Integrity(locals, remote, binding, seen, conn) /\ local' = locals
    BY <1>6 DEF DeleteLocalOnly, Refused, tables, Quiet
  <2>2. ASSUME Integrity(locals, remote, binding, seen, conn), local' = locals
        PROVE  LibInv'
    <3>1. DOMAIN locals = DOMAIN local \ {l} /\ Table(Locals, LocalLib, locals)
      BY WithoutFacts, WithoutTyped DEF LibInv, LibrariesTypeOK
    <3>2. KeysHold' BY <2>1, <2>2 DEF KeysHold, Integrity
    <3> HIDE DEF locals
    <3>3. LibrariesTypeOK' BY <2>1, <2>2, <3>1 DEF LibInv, LibrariesTypeOK
    <3>4. LocksHold' BY <2>1, <2>2, <3>1, LocksKept DEF LibInv, Free
    <3> QED BY <2>1, <3>2, <3>3, <3>4 DEF LibInv, TargetHasBinding
  <2> QED BY <2>1, <2>2, RefusedKeeps DEF tables
<1>7. CASE DeleteLocal(l)
  <2>1. /\ UNCHANGED <<conn, binding, test, job>> /\ Free(BoundTo(l), BoundTo(l) \cup {l})
        /\ \/ UNCHANGED tables
           \/ /\ Integrity(Without(local, {l}), Without(remote, BoundTo(l)), binding,
                           Without(seen, BoundTo(l)), conn)
              /\ local' = Without(local, {l}) /\ remote' = Without(remote, BoundTo(l))
              /\ seen' = Without(seen, BoundTo(l))
    BY <1>7 DEF DeleteLocal, Refused, tables, Quiet
  <2> QED BY <2>1, RefusedKeeps, LocalGone DEF tables
<1> QED BY <1>1, <1>2, <1>3, <1>4, <1>5, <1>6, <1>7

-----------------------------------------------------------------------------
(* Remote libraries and their implicit bindings                              *)

LEMMA SyncedFacts ==
  ASSUME LibrariesTypeOK, NEW r \in Remotes, NEW row \in RemoteLib
  PROVE  /\ Table(Bindings, Binding, Synced(r, row))
         /\ DOMAIN binding \ {r} \subseteq DOMAIN Synced(r, row)
         /\ row.target # None => r \in DOMAIN Synced(r, row)
<1>1. CASE row.target = None
  <2>1. Synced(r, row) = Without(binding, {r}) BY <1>1 DEF Synced
  <2>2. DOMAIN Synced(r, row) = DOMAIN binding \ {r} BY <2>1, WithoutFacts
  <2> QED BY <1>1, <2>1, <2>2, WithoutTyped DEF LibrariesTypeOK
<1>2. CASE row.target # None
  <2>1. FromRemote(r, row) \in Binding BY <1>2 DEF FromRemote, Binding, RemoteLib
  <2>2. r \in Bindings BY BindingsAssumption
  <2>3. Synced(r, row) = Put(binding, r, FromRemote(r, row)) BY <1>2 DEF Synced
  <2>4. DOMAIN Synced(r, row) = DOMAIN binding \cup {r} BY <2>3, PutFacts
  <2> QED BY <2>1, <2>2, <2>3, <2>4, PutTyped DEF LibrariesTypeOK
<1> QED BY <1>1, <1>2

\* A remote library and its binding are written together, if no key breaks.
LEMMA RemoteWritten ==
  ASSUME LibInv, NEW r \in Remotes, NEW row \in RemoteLib,
         Integrity(local, Put(remote, r, row), Synced(r, row), seen, conn),
         remote' = Put(remote, r, row), binding' = Synced(r, row),
         UNCHANGED <<conn, local, seen, test, job>>
  PROVE  LibInv'
<1>1. /\ Table(Bindings, Binding, binding') /\ DOMAIN binding \ {r} \subseteq DOMAIN binding'
      /\ row.target # None => r \in DOMAIN binding'
  BY SyncedFacts DEF LibInv
<1>2. Table(Remotes, RemoteLib, remote') BY PutTyped DEF LibInv, LibrariesTypeOK
<1>3. /\ DOMAIN remote' = DOMAIN remote \cup {r} /\ remote'[r] = row
      /\ \A x \in DOMAIN remote \ {r} : remote'[x] = remote[x]
  BY DEF Put
<1>4. LibrariesTypeOK' BY <1>1, <1>2 DEF LibInv, LibrariesTypeOK
<1>5. KeysHold' BY DEF KeysHold, Integrity
<1>6. LocksHold' BY <1>3, LocksKept DEF LibInv
<1>7. TargetHasBinding' BY <1>1, <1>3 DEF LibInv, TargetHasBinding
<1> QED BY <1>4, <1>5, <1>6, <1>7 DEF LibInv

LEMMA RemoteStep ==
  ASSUME LibInv, RemoteRequest
  PROVE  LibInv'
<1>1. PICK r \in Remotes :
        \/ \E enabled \in BOOLEAN :
             \/ EnableRemote(r, enabled)
             \/ \E c \in Conns, type \in Types, target \in Locals \cup {None} :
                  \/ CreateRemote(r, c, type, target, enabled)
                  \/ \E moved \in BOOLEAN : UpdateRemote(r, c, type, target, enabled, moved)
        \/ DeleteRemote(r)
  BY DEF RemoteRequest
<1>2. ASSUME NEW enabled \in BOOLEAN, EnableRemote(r, enabled) PROVE LibInv'
  <2>1. UNCHANGED <<conn, local, binding, seen, test, job>> BY <1>2 DEF EnableRemote, Quiet
  <2> QED BY <1>2, <2>1, EnableRemoteKeys, SameKeysHold DEF LibInv, LibrariesTypeOK
<1>3. ASSUME NEW enabled \in BOOLEAN, NEW c \in Conns, NEW type \in Types,
             NEW target \in Locals \cup {None}, CreateRemote(r, c, type, target, enabled)
      PROVE  LibInv'
  <2> DEFINE row == [conn |-> c, type |-> type, enabled |-> enabled, tested |-> "none",
                     target |-> target]
  <2>1. row \in RemoteLib BY DEF RemoteLib, TestResult
  <2>2. /\ UNCHANGED <<conn, local, seen, test, job>>
        /\ \/ UNCHANGED <<remote, binding>>
           \/ /\ Integrity(local, Put(remote, r, row), Synced(r, row), seen, conn)
              /\ remote' = Put(remote, r, row) /\ binding' = Synced(r, row)
    BY <1>3 DEF CreateRemote, Quiet
  <2> HIDE DEF row
  <2> QED BY <2>1, <2>2, RefusedKeeps, RemoteWritten DEF tables
<1>4. ASSUME NEW enabled \in BOOLEAN, NEW c \in Conns, NEW type \in Types,
             NEW target \in Locals \cup {None}, NEW moved \in BOOLEAN,
             UpdateRemote(r, c, type, target, enabled, moved)
      PROVE  LibInv'
  <2> DEFINE changed == moved \/ c # remote[r].conn \/ target # remote[r].target
  <2>1. UNCHANGED <<conn, local, seen, test, job>> /\ r \in DOMAIN remote
    BY <1>4 DEF UpdateRemote, Quiet
  <2>2. PICK old \in Updated(remote[r], enabled, changed) :
          LET row == [old EXCEPT !.conn = c, !.type = type, !.target = target] IN
          IF Integrity(local, Put(remote, r, row), Synced(r, row), seen, conn)
          THEN remote' = Put(remote, r, row) /\ binding' = Synced(r, row)
          ELSE UNCHANGED <<remote, binding>>
    BY <1>4 DEF UpdateRemote
  <2> DEFINE row == [old EXCEPT !.conn = c, !.type = type, !.target = target]
  <2>3. old \in RemoteLib
    <3>1. changed \in BOOLEAN /\ remote[r] \in RemoteLib BY <2>1 DEF LibInv, LibrariesTypeOK, Table
    <3>2. old \in Updated(remote[r], enabled, changed) BY <2>2
    <3> HIDE DEF changed
    <3> QED BY <3>1, <3>2, UpdatedRemote
  <2>4. row \in RemoteLib BY <2>3 DEF RemoteLib
  <2>5. \/ UNCHANGED <<remote, binding>>
        \/ /\ Integrity(local, Put(remote, r, row), Synced(r, row), seen, conn)
           /\ remote' = Put(remote, r, row) /\ binding' = Synced(r, row)
    BY <2>2
  <2> HIDE DEF row
  <2> QED BY <2>1, <2>4, <2>5, RefusedKeeps, RemoteWritten DEF tables
<1>5. CASE DeleteRemote(r)
  <2> DEFINE seens == Without(seen, {r})
             bindings == Without(binding, {r})
             remotes == Without(remote, {r})
  <2>1. /\ UNCHANGED <<conn, local, test, job>> /\ Free({r}, {r})
        /\ \/ UNCHANGED tables
           \/ /\ Integrity(local, remotes, bindings, seens, conn)
              /\ seen' = seens /\ binding' = bindings /\ remote' = remotes
    BY <1>5 DEF DeleteRemote, Refused, tables, Quiet
  <2>2. ASSUME Integrity(local, remotes, bindings, seens, conn),
               seen' = seens, binding' = bindings, remote' = remotes
        PROVE  LibInv'
    <3>1. /\ DOMAIN seens = DOMAIN seen \ {r} /\ DOMAIN bindings = DOMAIN binding \ {r}
          /\ DOMAIN remotes = DOMAIN remote \ {r}
          /\ \A x \in DOMAIN remotes : remotes[x] = remote[x]
      BY DEF Without, Restrict
    <3>2. /\ Table(Bindings, {"stable", "queued", "other"}, seens)
          /\ Table(Remotes, RemoteLib, remotes) /\ Table(Bindings, Binding, bindings)
      BY WithoutTyped DEF LibInv, LibrariesTypeOK
    <3>3. KeysHold' BY <2>1, <2>2 DEF KeysHold, Integrity
    <3> HIDE DEF seens, bindings, remotes
    <3>4. LibrariesTypeOK' BY <2>1, <2>2, <3>2 DEF LibInv, LibrariesTypeOK
    <3>5. LocksHold' BY <2>1, <2>2, <3>1, LocksKept DEF LibInv, Free
    <3>6. TargetHasBinding' BY <2>1, <2>2, <3>1 DEF LibInv, TargetHasBinding
    <3> QED BY <3>3, <3>4, <3>5, <3>6 DEF LibInv
  <2> QED BY <2>1, <2>2, RefusedKeeps DEF tables
<1> QED BY <1>1, <1>2, <1>3, <1>4, <1>5

-----------------------------------------------------------------------------
(* Bindings                                                                  *)

\* A binding of libraries that are there is written.
LEMMA BindingWritten ==
  ASSUME LibInv, NEW b \in Bindings, NEW row \in Binding,
         row.remote \in DOMAIN remote, row.local \in DOMAIN local,
         binding' = Put(binding, b, row), UNCHANGED <<conn, local, remote, seen, test, job>>
  PROVE  LibInv'
<1>1. Table(Bindings, Binding, binding') BY PutTyped DEF LibInv, LibrariesTypeOK
<1>2. /\ DOMAIN binding' = DOMAIN binding \cup {b} /\ binding'[b] = row
      /\ \A x \in DOMAIN binding \ {b} : binding'[x] = binding[x]
  BY DEF Put
<1>3. LibrariesTypeOK' BY <1>1 DEF LibInv, LibrariesTypeOK
<1>4. KeysHold' BY <1>2 DEF LibInv, KeysHold, Integrity
<1>5. LocksHold' BY LocksKept DEF LibInv
<1>6. TargetHasBinding' BY <1>2 DEF LibInv, TargetHasBinding
<1> QED BY <1>3, <1>4, <1>5, <1>6 DEF LibInv

LEMMA BindingStep ==
  ASSUME LibInv, BindingRequest
  PROVE  LibInv'
<1>1. PICK b \in Bindings, enabled \in BOOLEAN :
        \/ EnableBinding(b, enabled)
        \/ \E r \in Remotes, l \in Locals, type \in Types :
             CreateBinding(b, r, l, type, enabled) \/ UpdateBinding(b, r, l, type, enabled)
  BY DEF BindingRequest
<1>2. CASE EnableBinding(b, enabled)
  <2>1. UNCHANGED <<conn, local, remote, seen, test, job>> BY <1>2 DEF EnableBinding, Quiet
  <2>2. SameKeys /\ Table(Bindings, Binding, binding')
    BY <1>2, EnableBindingKeys DEF LibInv
  <2> QED BY <2>1, <2>2, SameKeysHold DEF LibInv, LibrariesTypeOK
<1>3. ASSUME NEW r \in Remotes, NEW l \in Locals, NEW type \in Types,
             CreateBinding(b, r, l, type, enabled) \/ UpdateBinding(b, r, l, type, enabled)
      PROVE  LibInv'
  <2> DEFINE row == BindingRow(r, l, type, enabled)
  <2>1. row \in Binding /\ row.remote = r /\ row.local = l BY DEF BindingRow, Binding
  <2>2. /\ r \in DOMAIN remote /\ l \in DOMAIN local
        /\ binding' = Put(binding, b, row) /\ UNCHANGED <<conn, local, remote, seen, test, job>>
    BY <1>3 DEF CreateBinding, UpdateBinding, ValidBinding, Quiet
  <2> HIDE DEF row
  <2> QED BY <2>1, <2>2, BindingWritten
<1> QED BY <1>1, <1>2, <1>3

-----------------------------------------------------------------------------
(* Tests, the scan and the creation of tasks                                 *)

LEMMA TestStep ==
  ASSUME LibInv, TestRequest
  PROVE  LibInv'
<1>1. CASE \E result \in {"ok", "failed"} : EndTest(result)
  <2>1. PICK result \in {"ok", "failed"} : EndTest(result) BY <1>1
  <2>2. UNCHANGED <<binding, seen, job>> /\ test' = NoTest BY <2>1 DEF EndTest
  <2>3. /\ SameKeys /\ Table(Conns, ConnectionRow, conn') /\ Table(Locals, LocalLib, local')
        /\ Table(Remotes, RemoteLib, remote')
    BY <2>1, RecordedTyped DEF LibInv
  <2>4. LibrariesTypeOK' BY <2>2, <2>3 DEF LibInv, LibrariesTypeOK, NoTest
  <2> QED BY <2>2, <2>3, <2>4, SameKeysHold DEF LibInv
<1>2. ASSUME NEW table \in {"conn", "local", "remote"}, NEW ids, NEW id, BeginTest(table, ids, id)
      PROVE  LibInv'
  <2>1. test'.table = table /\ UNCHANGED <<tables, job>> BY <1>2 DEF BeginTest
  <2>2. SameKeys BY <2>1 DEF SameKeys, tables
  <2>3. LibrariesTypeOK' BY <2>1 DEF LibInv, LibrariesTypeOK, tables
  <2> QED BY <2>1, <2>2, <2>3, SameKeysHold DEF LibInv
<1> QED BY <1>1, <1>2 DEF TestRequest

\* What a scan writes before it lists: bindings of libraries that are there.
LEMMA EnsuredRows ==
  ASSUME LibrariesTypeOK, NEW b \in DOMAIN Ensured
  PROVE  /\ b \in Bindings /\ Ensured[b] \in Binding
         /\ Ensured[b].remote \in DOMAIN remote /\ Ensured[b].local \in DOMAIN local
<1>1. /\ b \in DOMAIN remote /\ remote[b].target \in DOMAIN local
      /\ Ensured[b] = FromRemote(b, remote[b])
  BY DEF Ensured
<1>2. b \in Remotes /\ remote[b] \in RemoteLib /\ remote[b].target \in Locals
  BY <1>1 DEF LibrariesTypeOK, Table
<1>3. FromRemote(b, remote[b]) \in Binding BY <1>2 DEF FromRemote, Binding, RemoteLib
<1> QED BY <1>1, <1>2, <1>3, BindingsAssumption DEF FromRemote

LEMMA BeginScanStep ==
  ASSUME LibInv, NEW b \in Bindings, BeginScan(b)
  PROVE  LibInv'
<1>1. /\ UNCHANGED <<tables, test>> /\ job'.kind = "scan" /\ job'.id = b
      /\ job'.written = Ensured
  BY DEF BeginScan
<1>2. LibrariesTypeOK' BY <1>1 DEF LibInv, LibrariesTypeOK, tables
<1>3. KeysHold' /\ TargetHasBinding'
  BY <1>1 DEF LibInv, KeysHold, Integrity, TargetHasBinding, tables
<1>4. \A x \in DOMAIN Ensured :
        /\ x \in Bindings /\ Ensured[x] \in Binding
        /\ Ensured[x].remote \in DOMAIN remote /\ Ensured[x].local \in DOMAIN local
  BY EnsuredRows DEF LibInv
<1>5. LocksHold' BY <1>1, <1>4 DEF LocksHold, Written, tables
<1> QED BY <1>2, <1>3, <1>5 DEF LibInv

\* The locks make the integrity of what a scan writes hold also where nothing
\* checks it.
LEMMA CommitScanStep ==
  ASSUME LibInv, CommitScan
  PROVE  LibInv'
<1> DEFINE bindings == [b \in DOMAIN binding \cup Written |->
                          IF b \in Written THEN job.written[b] ELSE binding[b]]
<1>1. /\ UNCHANGED <<conn, local, remote, test>> /\ job' = NoJob /\ job.kind = "scan"
      /\ \/ \E status \in {"stable", "other"} :
              /\ Integrity(local, remote, bindings, Put(seen, job.id, status), conn)
              /\ binding' = bindings /\ seen' = Put(seen, job.id, status)
         \/ binding' = bindings /\ UNCHANGED seen
         \/ UNCHANGED <<binding, seen>>
  BY DEF CommitScan
<1>2. LocksHold'
  <2>1. job'.kind = "none" /\ DOMAIN job'.written = {}
    <3>1. DOMAIN <<>> = {} BY SMT
    <3> QED BY <1>1, <3>1 DEF NoJob
  <2> QED BY <2>1 DEF LocksHold, Written
<1>3. /\ DOMAIN bindings = DOMAIN binding \cup Written /\ Table(Bindings, Binding, bindings)
      /\ \A b \in DOMAIN bindings : /\ bindings[b].remote \in DOMAIN remote
                                    /\ bindings[b].local \in DOMAIN local
  BY DEF LibInv, LibrariesTypeOK, Table, LocksHold, KeysHold, Integrity
<1>4. Table(Bindings, Binding, binding') /\ DOMAIN binding \subseteq DOMAIN binding'
  BY <1>1, <1>3 DEF LibInv, LibrariesTypeOK
<1>5. \A b \in DOMAIN binding' : /\ binding'[b].remote \in DOMAIN remote
                                 /\ binding'[b].local \in DOMAIN local
  BY <1>1, <1>3 DEF LibInv, KeysHold, Integrity
<1> HIDE DEF bindings
<1>6. Table(Bindings, {"stable", "queued", "other"}, seen') /\ DOMAIN seen' \subseteq DOMAIN binding'
  <2>1. CASE \E status \in {"stable", "other"} :
               /\ Integrity(local, remote, bindings, Put(seen, job.id, status), conn)
               /\ binding' = bindings /\ seen' = Put(seen, job.id, status)
    <3>1. job.id \in Bindings BY <1>1 DEF LibInv, LocksHold
    <3> QED BY <2>1, <3>1, PutTyped DEF LibInv, LibrariesTypeOK, Integrity
  <2>2. CASE UNCHANGED seen BY <1>4, <2>2 DEF LibInv, LibrariesTypeOK, KeysHold, Integrity
  <2> QED BY <1>1, <2>1, <2>2
<1>7. LibrariesTypeOK' BY <1>1, <1>4, <1>6 DEF LibInv, LibrariesTypeOK, NoJob
<1>8. KeysHold' BY <1>1, <1>5, <1>6 DEF LibInv, KeysHold, Integrity
<1>9. TargetHasBinding' BY <1>1, <1>4 DEF LibInv, TargetHasBinding
<1> QED BY <1>2, <1>7, <1>8, <1>9 DEF LibInv

LEMMA BeginCreateStep ==
  ASSUME LibInv, NEW b \in Bindings, BeginCreate(b)
  PROVE  LibInv'
<1>1. /\ UNCHANGED <<tables, test>> /\ job'.kind = "create" /\ job'.id = b
      /\ job'.written = <<>> /\ b \in DOMAIN seen
  BY DEF BeginCreate
<1>2. DOMAIN job'.written = {}
  <2>1. DOMAIN <<>> = {} BY SMT
  <2> QED BY <1>1, <2>1
<1>3. LocksHold' BY <1>1, <1>2 DEF LocksHold, Written, tables
<1> QED BY <1>1, <1>3 DEF LibInv, LibrariesTypeOK, KeysHold, Integrity, TargetHasBinding, tables

\* The row that a creation has read is still there when it commits.
LEMMA CreateStep ==
  ASSUME LibInv, CommitCreate \/ EndCreate
  PROVE  LibInv' /\ DOMAIN seen' = DOMAIN seen
<1>1. /\ UNCHANGED <<conn, local, remote, binding, test>> /\ job' = NoJob /\ job.kind = "create"
      /\ \/ seen' = Put(seen, job.id, IF CreatesTask THEN "queued" ELSE "other")
         \/ seen' = [seen EXCEPT ![job.id] = "other"]
  BY DEF CommitCreate, EndCreate
<1>2. job.id \in DOMAIN seen BY <1>1 DEF LibInv, LocksHold
<1>3. /\ DOMAIN seen' = DOMAIN seen
      /\ \A b \in DOMAIN seen : seen'[b] \in {seen[b], "queued", "other"}
  BY <1>1, <1>2 DEF Put
<1>4. LibrariesTypeOK' BY <1>1, <1>3 DEF LibInv, LibrariesTypeOK, Table, NoJob
<1>5. KeysHold' /\ TargetHasBinding'
  BY <1>1, <1>3 DEF LibInv, KeysHold, Integrity, TargetHasBinding
<1>6. LocksHold'
  <2>1. DOMAIN <<>> = {} BY SMT
  <2> QED BY <1>1, <2>1 DEF LocksHold, Written, NoJob
<1> QED BY <1>3, <1>4, <1>5, <1>6 DEF LibInv

-----------------------------------------------------------------------------
(* The theorems                                                              *)

LEMMA LibInit ==
  ASSUME LibrariesInit
  PROVE  LibInv
<1>1. DOMAIN <<>> = {} BY SMT
<1> QED BY <1>1 DEF LibrariesInit, LibInv, LibrariesTypeOK, Table, KeysHold, Integrity, LocksHold, Written,
                    TargetHasBinding, NoTest, NoJob

LEMMA LibNext ==
  ASSUME LibInv, [LibrariesNext]_librariesVars
  PROVE  LibInv'
<1>1. CASE UNCHANGED librariesVars
  <2>1. UNCHANGED <<tables, test, job>> BY <1>1 DEF librariesVars, tables
  <2> QED BY <2>1, RefusedKeeps
<1> QED BY <1>1, ConnStep, LocalStep, RemoteStep, BindingStep, TestStep, BeginScanStep,
           CommitScanStep, BeginCreateStep, CreateStep DEF LibrariesNext

LEMMA LibAlways ==
  LibrariesSpec => []LibInv
<1>1. LibrariesInit => LibInv BY LibInit
<1>2. LibInv /\ [LibrariesNext]_librariesVars => LibInv' BY LibNext
<1> QED BY <1>1, <1>2, PTL DEF LibrariesSpec

\* Every table holds rows of its kind, whatever tests, scans and creations end
\* between the requests.
THEOREM LibrariesTypeCorrect ==
  LibrariesSpec => []LibrariesTypeOK
<1>1. LibInv => LibrariesTypeOK BY DEF LibInv
<1> QED BY <1>1, LibAlways, PTL

\* No row refers to one that is gone: also not after the commits of a scan and
\* of a creation of tasks, which the model lets through because of their locks.
THEOREM KeysCorrect ==
  LibrariesSpec => []KeysHold
<1>1. LibInv => KeysHold BY DEF LibInv
<1> QED BY <1>1, LibAlways, PTL

\* A remote library with a target has its implicit binding at all times
\* (_sync_binding_for_library, and the deletions that leave bindings alone).
THEOREM TargetHasBindingCorrect ==
  LibrariesSpec => []TargetHasBinding
<1>1. LibInv => TargetHasBinding BY DEF LibInv
<1> QED BY <1>1, LibAlways, PTL

-----------------------------------------------------------------------------
(* The rows of seen files                                                    *)

LEMMA OthersKeepSeen ==
  ASSUME LibInv, LibrariesNext, DOMAIN seen' # DOMAIN seen
  PROVE  \/ \E c \in Conns : DeleteConn(c)
         \/ \E l \in Locals : DeleteLocal(l)
         \/ \E r \in Remotes : DeleteRemote(r)
         \/ CommitScan
<1>1. ASSUME ConnRequest PROVE \E c \in Conns : DeleteConn(c)
  BY <1>1 DEF ConnRequest, CreateConn, EnableConn, UpdateConn, UnbindConn, Refused, tables
<1>2. ASSUME LocalRequest PROVE \E l \in Locals : DeleteLocal(l)
  BY <1>2 DEF LocalRequest, EnableLocal, CreateLocal, UpdateLocal, UnbindLocal, DeleteLocalOnly,
              Refused, tables
<1>3. ASSUME RemoteRequest PROVE \E r \in Remotes : DeleteRemote(r)
  <2>1. ASSUME NEW r, NEW enabled, EnableRemote(r, enabled) PROVE FALSE BY <2>1 DEF EnableRemote
  <2>2. ASSUME NEW r, NEW c, NEW type, NEW target, NEW enabled, CreateRemote(r, c, type, target, enabled)
        PROVE  FALSE
    BY <2>2 DEF CreateRemote
  <2>3. ASSUME NEW r, NEW c, NEW type, NEW target, NEW enabled, NEW moved,
               UpdateRemote(r, c, type, target, enabled, moved)
        PROVE  FALSE
    BY <2>3 DEF UpdateRemote
  <2> QED BY <1>3, <2>1, <2>2, <2>3 DEF RemoteRequest
<1>4. ~BindingRequest BY DEF BindingRequest, EnableBinding, CreateBinding, UpdateBinding
<1>5. ~TestRequest BY DEF TestRequest, BeginTest, EndTest, tables
<1>6. ~\E b \in Bindings : BeginScan(b) \/ BeginCreate(b)
  BY DEF BeginScan, BeginCreate, tables
<1>7. ~(CommitCreate \/ EndCreate) BY CreateStep
<1> QED BY <1>1, <1>2, <1>3, <1>4, <1>5, <1>6, <1>7 DEF LibrariesNext

LEMMA SeenKept ==
  ASSUME LibInv, [LibrariesNext]_librariesVars, NEW b \in DOMAIN seen \ DOMAIN seen'
  PROVE  b \notin DOMAIN remote'
<1>1. CASE UNCHANGED librariesVars BY <1>1 DEF librariesVars
<1>2. ASSUME NEW c \in Conns, DeleteConn(c) PROVE b \notin DOMAIN remote'
  <2>1. seen' = Without(seen, RemotesOf(c)) /\ remote' = Without(remote, RemotesOf(c))
    BY <1>2 DEF DeleteConn, Refused, tables
  <2> QED BY <2>1 DEF Without, Restrict
<1>3. ASSUME NEW l \in Locals, DeleteLocal(l) PROVE b \notin DOMAIN remote'
  <2>1. seen' = Without(seen, BoundTo(l)) /\ remote' = Without(remote, BoundTo(l))
    BY <1>3 DEF DeleteLocal, Refused, tables
  <2> QED BY <2>1 DEF Without, Restrict
<1>4. ASSUME NEW r \in Remotes, DeleteRemote(r) PROVE b \notin DOMAIN remote'
  <2>1. seen' = Without(seen, {r}) /\ remote' = Without(remote, {r})
    BY <1>4 DEF DeleteRemote, Refused, tables
  <2> QED BY <2>1 DEF Without, Restrict
<1>5. ASSUME CommitScan PROVE FALSE
  <2>1. UNCHANGED seen \/ \E status : seen' = Put(seen, job.id, status)
    BY <1>5 DEF CommitScan
  <2> QED BY <2>1 DEF Put
<1> QED BY <1>1, <1>2, <1>3, <1>4, <1>5, OthersKeepSeen

\* What a deletion takes of the rows of seen files belongs to libraries it takes
\* too: no request, refused or not, and no commit of the worker makes the scan
\* forget the files of a library that stays.
THEOREM SeenGoesWithLibraryCorrect ==
  LibrariesSpec => SeenGoesWithLibrary
<1>1. LibInv /\ [LibrariesNext]_librariesVars =>
        [\A b \in DOMAIN seen \ DOMAIN seen' : b \notin DOMAIN remote']_librariesVars
  BY SeenKept
<1> QED BY <1>1, LibAlways, PTL DEF LibrariesSpec, SeenGoesWithLibrary
=============================================================================

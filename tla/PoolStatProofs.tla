--------------------------- MODULE PoolStatProofs ---------------------------
(***************************************************************************)
(* What the statistics of a connection pool show, for any threads,         *)
(* connections and number of requests.                                     *)
(*                                                                         *)
(* Between two calls they balance: errors and sweeps count the connections *)
(* that are closed and not in m_connections any more, and requested less   *)
(* failed less released is the number of lent connections.  Inside a call  *)
(* the counters run ahead of the sets by one; where the call is tells by   *)
(* how much.                                                               *)
(*                                                                         *)
(* A report of pg_connection_pool_stat reads the fields one by one without *)
(* the lock.  The number of sweeps is read first and what was opened       *)
(* before what was requested, counters only grow, and the pool itself      *)
(* never sweeps more than was opened or released nor opens more than was   *)
(* requested, not even while the process exits and its connections are     *)
(* forgotten.                                                              *)
(***************************************************************************)
EXTENDS PoolStat, PGSQLConnectionPoolProofs, FiniteSetTheorems

-----------------------------------------------------------------------------
(* The balance: the invariant *)

\* Where the holder of the lock is.
Place == IF m_lock = NoThread THEN "idle" ELSE pc[m_lock]

\* A connection that was counted as opened is not yet in m_connections.
Registering == IF Place = "register" THEN 1 ELSE 0

\* A request was counted whose connection is not yet lent.
Lending == IF Place \in {"pop", "connect", "register"} THEN 1 ELSE 0

\* A release was counted whose connection is still lent.
Filing == IF Place = "file" THEN 1 ELSE 0

\* KnownConnections: until the process exits, what is queued or lent is in
\* m_connections, and what is being opened is not.
KnownConnections ==
  /\ ~exiting => Queued \cup Held \subseteq m_connections
  /\ \A t \in Threads : pc[t] = "register" => inHand[t] \notin m_connections

\* The closed connections that total_connections does not count.
Gone == {c \in Conns : status[c] = "finished"} \ m_connections

\* GoneBalance: until the process exits, each of them was an error or was swept.
GoneBalance ==
  ~exiting => /\ IsFiniteSet(Gone)
              /\ Cardinality(Gone) = counter["errors"] + counter["sweeped"]

\* LentBalance: InUseAccounted, at every place of a call.
LentBalance ==
  /\ IsFiniteSet(Held)
  /\ MaximumConnections <= 0 =>
       Cardinality(Held) =
         counter["requested"] - counter["errors"] - counter["released"] - Lending + Filing

AInv == KnownConnections /\ GoneBalance /\ LentBalance

\* The initial state satisfies the invariant.
LEMMA InitAInv == Init => AInv
<1> SUFFICES ASSUME Init PROVE AInv
  OBVIOUS
<1>1. Queued = {} /\ Held = {} /\ m_connections = {} /\ Gone = {}
  BY DEF Init, Queued, Held, Gone, Range
<1>2. IsFiniteSet({}) /\ Cardinality({}) = 0
  BY FS_EmptySet
<1>3. Place = "idle"
  BY DEF Init, Place
<1>4. \A n \in CounterName : counter[n] = 0
  BY DEF Init
<1>5. Registering = 0 /\ Lending = 0 /\ Filing = 0
  BY <1>3 DEF Registering, Lending, Filing
<1>6. QED
  BY <1>1, <1>2, <1>4, <1>5
     DEF Init, AInv, KnownConnections, GoneBalance, LentBalance, CounterName

\* The thread inside a method is the one Place tells of.
LEMMA PlaceInside ==
  ASSUME IInv, NEW t \in Threads, pc[t] \in Inside
  PROVE  /\ m_lock = t
         /\ Place = pc[t]
         /\ \A u \in Threads : u # t => pc[u] \notin Inside
BY PoolAssumption DEF IInv, LockHolder, Place

\* Counters and cardinalities are numbers.
LEMMA Numbers ==
  ASSUME IInv, AInv
  PROVE  /\ \A n \in CounterName : counter[n] \in Nat
         /\ ~exiting => Cardinality(Gone) \in Nat
         /\ Cardinality(Held) \in Nat
BY FS_CardinalityType DEF IInv, TypeOK, AInv, GoneBalance, LentBalance

\* A connection that breaks, is reset or is opened is not closed by it.
LEMMA GoneStays ==
  ASSUME IInv, UNCHANGED m_connections,
         \/ UNCHANGED status
         \/ \E c \in Conns, s \in {"OK", "BAD"} :
              status[c] # "finished" /\ status' = [status EXCEPT ![c] = s]
  PROVE  Gone' = Gone
BY DEF Gone, IInv, TypeOK

\* What a thread outside the methods does changes neither a counter nor who has
\* which connection.
LEMMA OutsideStep ==
  ASSUME IInv, AInv, NEW t \in Threads,
         \/ CallGetConnection(t)
         \/ CallCloseFree(t)
         \/ Exit(t)
         \/ \E c \in Conns : CallRelease(t, c) \/ BreakConnection(t, c) \/ ResetConnection(t, c)
  PROVE  AInv'
<1>1. /\ pc[t] = "idle"
      /\ pc' = pc \/ \E label \in {"get", "closeFree", "closeAll", "release"} :
                       pc' = [pc EXCEPT ![t] = label]
      /\ exiting => exiting'
      /\ UNCHANGED <<m_lock, m_availableConnections, m_connections, counter, held>>
  BY DEF CallGetConnection, CallCloseFree, Exit, CallRelease, BreakConnection,
         ResetConnection, Call, Goto
<1>2. UNCHANGED <<Queued, Held>>
  BY <1>1 DEF Queued, Held
<1>3. m_lock # t
  BY <1>1 DEF IInv, LockHolder, Inside
<1>4. Place' = Place
  BY <1>1, <1>3 DEF Place, IInv, TypeOK
<1>5. \A u \in Threads : pc'[u] = "register" => pc[u] = "register" /\ inHand'[u] = inHand[u]
  BY <1>1 DEF CallGetConnection, CallCloseFree, Exit, CallRelease, BreakConnection,
              ResetConnection, Call, IInv, TypeOK
<1>6. UNCHANGED <<Registering, Lending, Filing>>
  BY <1>4 DEF Registering, Lending, Filing
<1>7. Gone' = Gone
  BY <1>1, GoneStays DEF CallGetConnection, CallCloseFree, Exit, CallRelease,
     BreakConnection, ResetConnection, Call, IsOK
<1>8. QED
  BY <1>1, <1>2, <1>5, <1>6, <1>7 DEF AInv, KnownConnections, GoneBalance, LentBalance

\* On entry the lock was free; from then on the counters may run ahead.
LEMMA EnteringStep ==
  ASSUME IInv, AInv, NEW t \in Threads, EnterStep(t)
  PROVE  AInv'
<1>1. /\ m_lock = NoThread
      /\ m_lock' = t
      /\ UNCHANGED <<m_availableConnections, m_connections, status, held, inHand, exiting>>
  BY DEF EnterStep, EnterGetConnection, EnterRelease, EnterCloseFree, EnterCloseAll, Lock
<1>2. UNCHANGED <<Queued, Held, Gone>> /\ Place = "idle" /\ Place' = pc'[t]
  BY <1>1, PoolAssumption DEF Queued, Held, Gone, Place
<1>3. Registering = 0 /\ Lending = 0 /\ Filing = 0
  BY <1>2 DEF Registering, Lending, Filing
<1>4. KnownConnections'
  BY <1>1, <1>2 DEF AInv, KnownConnections, EnterStep, EnterGetConnection, EnterRelease,
     EnterCloseFree, EnterCloseAll, Lock, Goto, IInv, TypeOK
<1>5. CASE EnterGetConnection(t)
  <2>1. /\ pc'[t] = "pop"
        /\ counter' = [counter EXCEPT !["requested"] = @ + 1]
    BY <1>5 DEF EnterGetConnection, Lock, Goto, Count, IInv, TypeOK
  <2>2. Registering' = 0 /\ Lending' = 1 /\ Filing' = 0
    BY <1>2, <2>1 DEF Registering, Lending, Filing
  <2>3. QED
    BY <1>1, <1>2, <1>3, <1>4, <2>1, <2>2, Numbers
       DEF AInv, GoneBalance, LentBalance, CounterName, IInv, TypeOK
<1>6. CASE EnterRelease(t)
  <2>1. /\ pc'[t] = "file"
        /\ counter' = [counter EXCEPT !["released"] = @ + 1]
    BY <1>6 DEF EnterRelease, Lock, Goto, Count, IInv, TypeOK
  <2>2. Registering' = 0 /\ Lending' = 0 /\ Filing' = 1
    BY <1>2, <2>1 DEF Registering, Lending, Filing
  <2>3. QED
    BY <1>1, <1>2, <1>3, <1>4, <2>1, <2>2, Numbers
       DEF AInv, GoneBalance, LentBalance, CounterName, IInv, TypeOK
<1>7. CASE EnterCloseFree(t) \/ EnterCloseAll(t)
  <2>1. pc'[t] \in {"drainFree", "drainAll"} /\ UNCHANGED counter
    BY <1>7 DEF EnterCloseFree, EnterCloseAll, Lock, Goto, IInv, TypeOK
  <2>2. Registering' = 0 /\ Lending' = 0 /\ Filing' = 0
    BY <1>2, <2>1 DEF Registering, Lending, Filing
  <2>3. QED
    BY <1>1, <1>2, <1>3, <1>4, <2>1, <2>2 DEF AInv, GoneBalance, LentBalance
<1>8. QED
  BY <1>5, <1>6, <1>7 DEF EnterStep

\* A waiting connection is lent: the request that was counted is served.
LEMMA TakingStep ==
  ASSUME IInv, AInv, NEW t \in Threads, TakeAvailable(t)
  PROVE  AInv'
<1>1. PICK c \in Conns :
        c = Head(m_availableConnections) /\ c \in Queued /\ Queued' = Queued \ {c}
  BY PopFrontQueue DEF TakeAvailable
<1>2. /\ pc[t] = "pop"
      /\ held' = [held EXCEPT ![t] = @ \cup {c}]
      /\ m_lock' = NoThread
      /\ pc' = [pc EXCEPT ![t] = "idle"]
      /\ UNCHANGED <<m_connections, counter, status, inHand, exiting>>
  BY <1>1 DEF TakeAvailable, IInv, QueuedAreOK, IsOK, Return, Goto
<1>3. Held' = Held \cup {c} /\ c \notin Held /\ Gone' = Gone
  BY <1>1, <1>2 DEF Held, Gone, IInv, TypeOK, ExclusiveLoan
<1>4. Place = "pop" /\ Place' = "idle"
  BY <1>2, PlaceInside DEF Inside, Place
<1>5. /\ Registering = 0 /\ Lending = 1 /\ Filing = 0
      /\ Registering' = 0 /\ Lending' = 0 /\ Filing' = 0
  BY <1>4 DEF Registering, Lending, Filing
<1>6. IsFiniteSet(Held') /\ Cardinality(Held') = Cardinality(Held) + 1
  BY <1>3, FS_AddElement DEF AInv, LentBalance
<1>7. KnownConnections'
  BY <1>1, <1>2, <1>3 DEF AInv, KnownConnections, IInv, TypeOK
<1>8. QED
  BY <1>2, <1>3, <1>5, <1>6, <1>7, Numbers DEF AInv, GoneBalance, LentBalance, CounterName

\* Nothing waits: a pool without a maximum goes on to open a connection.
LEMMA NoneAvailableStep ==
  ASSUME IInv, AInv, NEW t \in Threads, NoneAvailable(t)
  PROVE  AInv'
<1>1. /\ pc[t] = "pop"
      /\ UNCHANGED <<m_availableConnections, m_connections, counter, status, held, inHand, exiting>>
      /\ \/ RaisesPoolFull /\ m_lock' = NoThread /\ pc' = [pc EXCEPT ![t] = "idle"]
         \/ ~RaisesPoolFull /\ m_lock' = m_lock /\ pc' = [pc EXCEPT ![t] = "connect"]
  BY DEF NoneAvailable, Return, Goto
<1>2. UNCHANGED <<Queued, Held, Gone>>
  BY <1>1 DEF Queued, Held, Gone
<1>3. m_lock = t /\ Place = "pop"
  BY <1>1, PlaceInside DEF Inside
<1>4. KnownConnections'
  BY <1>1, <1>2 DEF AInv, KnownConnections, IInv, TypeOK
<1>5. Registering = 0 /\ Lending = 1 /\ Filing = 0
  BY <1>3 DEF Registering, Lending, Filing
<1>6. CASE RaisesPoolFull
  <2>1. Place' = "idle" /\ ~(MaximumConnections <= 0)
    BY <1>1, <1>6, PoolAssumption DEF Place, RaisesPoolFull
  <2>2. Registering' = 0
    BY <2>1 DEF Registering
  <2>3. QED
    BY <1>1, <1>2, <1>4, <1>5, <2>1, <2>2 DEF AInv, GoneBalance, LentBalance
<1>7. CASE ~RaisesPoolFull
  <2>1. Place' = "connect"
    BY <1>1, <1>3, <1>7, PoolAssumption DEF Place, IInv, TypeOK
  <2>2. Registering' = 0 /\ Lending' = 1 /\ Filing' = 0
    BY <2>1 DEF Registering, Lending, Filing
  <2>3. QED
    BY <1>1, <1>2, <1>4, <1>5, <2>2 DEF AInv, GoneBalance, LentBalance
<1>8. QED
  BY <1>6, <1>7

\* A connection that is closed and leaves m_connections is counted once.
LEMMA OneMoreGone ==
  ASSUME IInv, AInv, NEW n \in {"errors", "sweeped"}, NEW c \in Conns,
         counter' = [counter EXCEPT ![n] = @ + 1], UNCHANGED exiting,
         ~exiting => Gone' = Gone \cup {c} /\ c \notin Gone
  PROVE  GoneBalance'
<1>1. /\ counter \in [CounterName -> Nat]
      /\ counter["errors"] \in Nat /\ counter["sweeped"] \in Nat
  BY DEF IInv, TypeOK, CounterName
<1>2. counter'["errors"] + counter'["sweeped"] = counter["errors"] + counter["sweeped"] + 1
  <2>1. CASE n = "errors"
    BY <1>1, <2>1 DEF CounterName
  <2>2. CASE n = "sweeped"
    BY <1>1, <2>2 DEF CounterName
  <2>3. QED
    BY <2>1, <2>2
<1>3. SUFFICES ASSUME ~exiting
               PROVE  IsFiniteSet(Gone') /\ Cardinality(Gone') = counter'["errors"] + counter'["sweeped"]
  BY DEF GoneBalance
<1>4. IsFiniteSet(Gone) /\ Cardinality(Gone) = counter["errors"] + counter["sweeped"]
  BY <1>3 DEF AInv, GoneBalance
<1>5. IsFiniteSet(Gone') /\ Cardinality(Gone') = Cardinality(Gone) + 1
  BY <1>3, <1>4, FS_AddElement
<1>6. QED
  BY <1>2, <1>4, <1>5

\* A connection is opened and counted, or fails and is counted.
LEMMA OpeningStep ==
  ASSUME IInv, AInv, NEW t \in Threads, Connected(t) \/ ConnectFailed(t)
  PROVE  AInv'
<1>1. /\ pc[t] = "connect"
      /\ UNCHANGED <<m_availableConnections, m_connections, held, exiting>>
  BY DEF Connected, ConnectFailed
<1>2. UNCHANGED <<Queued, Held>>
  BY <1>1 DEF Queued, Held
<1>3. m_lock = t /\ Place = "connect"
  BY <1>1, PlaceInside DEF Inside
<1>4. Registering = 0 /\ Lending = 1 /\ Filing = 0
  BY <1>3 DEF Registering, Lending, Filing
<1>5. CASE Connected(t)
  <2>1. PICK c \in Conns : /\ status[c] = "new"
                           /\ status' = [status EXCEPT ![c] = "OK"]
                           /\ inHand' = [inHand EXCEPT ![t] = c]
    BY <1>5 DEF Connected
  <2>2. /\ counter' = [counter EXCEPT !["opened"] = @ + 1]
        /\ pc' = [pc EXCEPT ![t] = "register"]
        /\ m_lock' = m_lock
    BY <1>5 DEF Connected, Count, Goto
  <2>3. Place' = "register"
    BY <1>3, <2>2, PoolAssumption DEF Place, IInv, TypeOK
  <2>4. Registering' = 1 /\ Lending' = 1 /\ Filing' = 0
    BY <2>3 DEF Registering, Lending, Filing
  <2>5. c \notin m_connections
    BY <2>1 DEF IInv, KnownNotNew
  <2>6. KnownConnections'
    BY <1>1, <1>2, <2>1, <2>2, <2>5 DEF AInv, KnownConnections, IInv, TypeOK
  <2>7. Gone' = Gone
    BY <1>1, <2>1, GoneStays
  <2>8. QED
    BY <1>1, <1>2, <1>4, <2>2, <2>4, <2>6, <2>7, Numbers
       DEF AInv, GoneBalance, LentBalance, CounterName, IInv, TypeOK
<1>6. CASE ConnectFailed(t)
  <2>1. /\ counter' = [counter EXCEPT !["errors"] = @ + 1]
        /\ pc' = [pc EXCEPT ![t] = "idle"]
        /\ m_lock' = NoThread
        /\ UNCHANGED inHand
    BY <1>6 DEF ConnectFailed, Count, Return, Goto
  <2>2. Registering' = 0 /\ Lending' = 0 /\ Filing' = 0
    BY <2>1 DEF Place, Registering, Lending, Filing
  <2>3. KnownConnections'
    BY <1>1, <1>2, <2>1 DEF AInv, KnownConnections, IInv, TypeOK
  <2>4. PICK c \in Conns : status[c] = "new" /\ status' = [status EXCEPT ![c] = "finished"]
    BY <1>6 DEF ConnectFailed, Finish
  <2>5. Gone' = Gone \cup {c} /\ c \notin Gone
    BY <1>1, <2>4 DEF Gone, IInv, TypeOK, KnownNotNew
  <2>6. GoneBalance'
    BY <1>1, <2>1, <2>5, OneMoreGone
  <2>7. QED
    BY <1>1, <1>2, <1>4, <2>1, <2>2, <2>3, <2>6, Numbers
       DEF AInv, LentBalance, CounterName, IInv, TypeOK
<1>7. QED
  BY <1>5, <1>6

\* The new connection is filed and lent.
LEMMA RegisteringStep ==
  ASSUME IInv, AInv, NEW t \in Threads, Register(t)
  PROVE  AInv'
<1>1. PICK c \in Conns : c = inHand[t] /\ c \notin Queued \cup Held /\ status[c] = "OK"
  BY DEF Register, IInv, HandOK
<1>2. /\ pc[t] = "register"
      /\ m_connections' = m_connections \cup {c}
      /\ held' = [held EXCEPT ![t] = @ \cup {c}]
      /\ m_lock' = NoThread
      /\ pc' = [pc EXCEPT ![t] = "idle"]
      /\ UNCHANGED <<m_availableConnections, counter, status, exiting>>
  BY <1>1 DEF Register, Return, Goto
<1>3. Held' = Held \cup {c} /\ Queued' = Queued
  BY <1>1, <1>2 DEF Held, Queued, IInv, TypeOK
<1>4. Place = "register" /\ Place' = "idle"
  BY <1>2, PlaceInside DEF Inside, Place
<1>5. /\ Registering = 1 /\ Lending = 1 /\ Filing = 0
      /\ Registering' = 0 /\ Lending' = 0 /\ Filing' = 0
  BY <1>4 DEF Registering, Lending, Filing
<1>6. IsFiniteSet(Held') /\ Cardinality(Held') = Cardinality(Held) + 1
  BY <1>1, <1>3, FS_AddElement DEF AInv, LentBalance
<1>7. c \notin m_connections
  BY <1>1, <1>2 DEF AInv, KnownConnections
<1>8. Gone' = Gone
  BY <1>1, <1>2 DEF Gone
<1>9. \A u \in Threads : pc'[u] # "register"
  BY <1>2, PlaceInside DEF IInv, TypeOK, Inside
<1>10. KnownConnections'
  BY <1>2, <1>3, <1>9 DEF AInv, KnownConnections
<1>11. QED
  BY <1>2, <1>5, <1>6, <1>8, <1>10, Numbers DEF AInv, GoneBalance, LentBalance, CounterName

\* A released connection is queued, or leaves the pool and is counted as swept.
LEMMA FilingStep ==
  ASSUME IInv, AInv, NEW t \in Threads, FileReleased(t)
  PROVE  AInv'
<1>1. PICK c \in Conns : c = inHand[t] /\ c \in held[t]
  BY DEF FileReleased, IInv, HandOK, TypeOK
<1>2. /\ pc[t] = "file"
      /\ held' = [held EXCEPT ![t] = @ \ {c}]
      /\ m_lock' = NoThread
      /\ pc' = [pc EXCEPT ![t] = "idle"]
      /\ UNCHANGED exiting
  BY <1>1 DEF FileReleased, DropPointer, Return, Goto
<1>3. Held' = Held \ {c} /\ c \in Held /\ c \notin Queued
  BY <1>1, <1>2 DEF Held, IInv, TypeOK, ExclusiveLoan
<1>4. Place = "file" /\ Place' = "idle"
  BY <1>2, PlaceInside DEF Inside, Place
<1>5. /\ Registering = 0 /\ Lending = 0 /\ Filing = 1
      /\ Registering' = 0 /\ Lending' = 0 /\ Filing' = 0
  BY <1>4 DEF Registering, Lending, Filing
<1>6. IsFiniteSet(Held') /\ Cardinality(Held') = Cardinality(Held) - 1
  BY <1>3, FS_RemoveElement DEF AInv, LentBalance
<1>7. \A u \in Threads : pc'[u] # "register"
  BY <1>2, PlaceInside DEF IInv, TypeOK, Inside
<1>8. CASE status[c] = "OK"
  <2>1. /\ m_availableConnections' = Append(m_availableConnections, c)
        /\ UNCHANGED <<m_connections, counter, status>>
    BY <1>1, <1>8 DEF FileReleased, IsOK
  <2>2. Queued' = Queued \cup {c}
    BY <1>1, <2>1, RangeOfAppend DEF IInv, TypeOK, Queued
  <2>3. KnownConnections'
    BY <1>2, <1>3, <1>7, <2>1, <2>2 DEF AInv, KnownConnections
  <2>4. Gone' = Gone
    BY <2>1 DEF Gone
  <2>5. QED
    BY <1>2, <1>5, <1>6, <2>1, <2>3, <2>4, Numbers
       DEF AInv, GoneBalance, LentBalance, CounterName
<1>9. CASE status[c] # "OK"
  <2>1. /\ m_connections' = m_connections \ {c}
        /\ counter' = [counter EXCEPT !["sweeped"] = @ + 1]
        /\ status' = [status EXCEPT ![c] = "finished"]
        /\ UNCHANGED m_availableConnections
    BY <1>1, <1>9 DEF FileReleased, IsOK, SweepConnection, Count, Finish
  <2>2. Queued' = Queued
    BY <2>1 DEF Queued
  <2>3. KnownConnections'
    BY <1>2, <1>3, <1>7, <2>1, <2>2 DEF AInv, KnownConnections
  <2>4. ~exiting => Gone' = Gone \cup {c} /\ c \notin Gone
    BY <1>3, <2>1 DEF Gone, IInv, TypeOK, AInv, KnownConnections
  <2>5. GoneBalance'
    BY <1>2, <2>1, <2>4, OneMoreGone
  <2>6. QED
    BY <1>2, <1>5, <1>6, <2>1, <2>3, <2>5, Numbers DEF AInv, LentBalance, CounterName, IInv, TypeOK
<1>10. QED
  BY <1>8, <1>9

\* Closing moves no counter: a sweep leaves m_connections alone, and the exiting
\* process empties it.
LEMMA ClosingStep ==
  ASSUME IInv, AInv, NEW t \in Threads,
         \/ DrainFront(t)
         \/ EndCloseFree(t)
         \/ EndDrainAll(t)
         \/ FinishAll(t)
  PROVE  AInv'
<1>1. /\ pc[t] \in {"drainFree", "drainAll", "finishAll"}
      /\ \/ pc' = pc /\ m_lock' = m_lock
         \/ pc' = [pc EXCEPT ![t] = "finishAll"] /\ m_lock' = m_lock
         \/ pc' = [pc EXCEPT ![t] = "idle"] /\ m_lock' = NoThread
      /\ UNCHANGED <<counter, held, inHand, exiting>>
  BY DEF DrainFront, EndCloseFree, EndDrainAll, FinishAll, Return, Goto
<1>2. Held' = Held
  BY <1>1 DEF Held
<1>3. m_lock = t /\ Place = pc[t]
  BY <1>1, PlaceInside DEF Inside
<1>4. Place' \in {"drainFree", "drainAll", "finishAll", "idle"}
  BY <1>1, <1>3, PoolAssumption DEF Place, IInv, TypeOK
<1>5. /\ Registering = 0 /\ Lending = 0 /\ Filing = 0
      /\ Registering' = 0 /\ Lending' = 0 /\ Filing' = 0
  BY <1>1, <1>3, <1>4 DEF Registering, Lending, Filing
<1>6. \A u \in Threads : pc'[u] # "register"
  BY <1>1, PlaceInside DEF IInv, TypeOK, Inside
<1>7. CASE UNCHANGED m_connections
  <2>1. Queued' \subseteq Queued
    BY PopFrontQueue DEF DrainFront, EndCloseFree, EndDrainAll, FinishAll, Queued
  <2>2. KnownConnections'
    BY <1>1, <1>2, <1>6, <1>7, <2>1 DEF AInv, KnownConnections
  <2>3. ~exiting => Gone' = Gone
    <3>1. CASE DrainFront(t)
      <4>1. PICK c \in Queued : status' = [status EXCEPT ![c] = "finished"]
        BY <3>1, PopFrontQueue DEF DrainFront, Finish
      <4>2. QED
        BY <1>7, <4>1 DEF Gone, AInv, KnownConnections, IInv, TypeOK
    <3>2. CASE EndCloseFree(t) \/ EndDrainAll(t)
      BY <1>7, <3>2 DEF EndCloseFree, EndDrainAll, Gone
    <3>3. CASE FinishAll(t)
      BY <3>3 DEF FinishAll, IInv, ClosingOK
    <3>4. QED
      BY <3>1, <3>2, <3>3
  <2>4. QED
    BY <1>1, <1>2, <1>5, <1>7, <2>2, <2>3 DEF AInv, GoneBalance, LentBalance
<1>8. CASE FinishAll(t)
  <2>1. exiting
    BY <1>8 DEF FinishAll, IInv, ClosingOK
  <2>2. QED
    BY <1>1, <1>2, <1>5, <1>6, <2>1
       DEF AInv, KnownConnections, GoneBalance, LentBalance
<1>9. QED
  BY <1>7, <1>8 DEF DrainFront, EndCloseFree, EndDrainAll

\* Every step of the pool keeps the books.
LEMMA StepAInv == IInv /\ AInv /\ [Next]_vars => AInv'
<1> SUFFICES ASSUME IInv, AInv, [Next]_vars
             PROVE  AInv'
  OBVIOUS
<1>1. ASSUME NEW t \in Threads, LockedStep(t)
      PROVE  AInv'
  BY <1>1, TakingStep, NoneAvailableStep, OpeningStep, RegisteringStep, FilingStep,
     ClosingStep DEF LockedStep
<1>2. ASSUME NEW t \in Threads, EnterStep(t)
      PROVE  AInv'
  BY <1>2, EnteringStep
<1>3. ASSUME NEW t \in Threads, ScriptStep(t)
      PROVE  AInv'
  BY <1>3, OutsideStep DEF ScriptStep
<1>4. CASE UNCHANGED vars
  <2>1. UNCHANGED <<Queued, Held, Gone, Place>>
    BY <1>4 DEF vars, Queued, Held, Gone, Place
  <2>2. QED
    BY <1>4, <2>1
       DEF vars, AInv, KnownConnections, GoneBalance, LentBalance,
           Registering, Lending, Filing
<1>5. QED
  BY <1>1, <1>2, <1>3, <1>4 DEF Next

-----------------------------------------------------------------------------
\* The books are kept in every state of every behaviour.
THEOREM Bookkeeping == Spec => []AInv
<1>1. QED
  BY InitIInv, StepIInv, InitAInv, StepAInv, PTL DEF Spec

\* Whenever nobody is inside a method of the pool, total_connections is what is
\* free or lent and what a sweep of the free connections has closed, and every
\* other closed connection was counted once as an error or as swept.
THEOREM TotalBalanced == Spec => []TotalAccounted
<1>1. IInv /\ AInv => TotalAccounted
  <2> DEFINE closed == {c \in Conns : status[c] = "finished"}
  <2> SUFFICES ASSUME IInv, AInv, m_lock = NoThread, ~exiting
               PROVE  /\ m_connections \ closed = Queued \cup Held
                      /\ Cardinality(closed \ m_connections)
                           = counter["errors"] + counter["sweeped"]
    BY DEF TotalAccounted
  <2>1. Queued \cup Held \subseteq m_connections \ closed
    BY DEF IInv, QueuedAreOK, LentIsOpen, AInv, KnownConnections
  <2>2. ASSUME NEW c \in m_connections \ closed
        PROVE  c \in Queued \cup Held
    <3>1. c \in Conns /\ status[c] \in {"OK", "BAD"}
      BY DEF IInv, TypeOK, Status, KnownNotNew
    <3>2. \A t \in Threads : pc[t] # "register"
      BY PoolAssumption DEF IInv, LockHolder, Inside
    <3>3. QED
      BY <3>1, <3>2 DEF IInv, NothingOrphaned
  <2>3. Cardinality(closed \ m_connections) = counter["errors"] + counter["sweeped"]
    BY DEF AInv, GoneBalance, Gone
  <2>4. QED
    BY <2>1, <2>2, <2>3
<1>2. QED
  BY <1>1, Invariance, Bookkeeping, PTL

\* The number of lent connections follows from the statistics, although the pool
\* keeps no list of what it has lent.
THEOREM LentBalanced == Spec => []InUseAccounted
<1>1. IInv /\ AInv => InUseAccounted
  BY Numbers DEF AInv, LentBalance, InUseAccounted, Lending, Filing, Place, CounterName
<1>2. QED
  BY <1>1, Invariance, Bookkeeping, PTL

-----------------------------------------------------------------------------
(* The pool's side *)

\* The connections a release may still sweep.
InPool == Queued \cup Held

\* SweepBound: each sweep was paid by a release of its own and by a connection
\* opened of its own.  GoneBalance counts sweeps too, but only until the process
\* exits: CloseAllConnections empties m_connections, and the resources that are
\* released after it still count sweeps.
SweepBound ==
  /\ counter["sweeped"] + Filing <= counter["released"]
  /\ IsFiniteSet(InPool)
  /\ Cardinality(InPool) + Registering <= counter["opened"] - counter["sweeped"]

\* A request was counted that has not opened a connection yet.
Connecting == IF Place \in {"pop", "connect"} THEN 1 ELSE 0

\* RequestBound: each opened connection was paid by a request of its own.
RequestBound == counter["opened"] + Connecting <= counter["requested"]

PInv == IInv /\ AInv /\ SweepBound /\ RequestBound

(* The reader's side *)

\* The fields of a report.
FieldName == {"sweeped", "opened", "requested", "released", "errors", "total", "free"}

\* ReaderOK: the sweeps are the first field to be read, and what was opened is
\* read before the requests; what was read is never more than what the pool
\* counts now.
ReaderOK ==
  /\ unread \in Seq(FieldName)
  /\ \A i \in 1..Len(unread) : unread[i] = "sweeped" => i = 1 /\ DOMAIN seen = {}
  /\ \A i \in 1..Len(unread) : unread[i] = "opened" =>
       "requested" \notin DOMAIN seen /\ \A j \in 1..i : unread[j] # "requested"
  /\ \A f \in {"sweeped", "opened"} \cap DOMAIN seen :
       seen[f] \in Nat /\ seen[f] <= counter[f]

SInv == PInv /\ ReaderOK /\ ReportOrdered

-----------------------------------------------------------------------------
(* The pool keeps its bound *)

\* What the bound is about, as numbers.
LEMMA BoundNumbers ==
  ASSUME PInv
  PROVE  /\ counter["sweeped"] \in Nat
         /\ counter["opened"] \in Nat
         /\ counter["released"] \in Nat
         /\ counter["requested"] \in Nat
         /\ Cardinality(InPool) \in Nat
         /\ Registering \in {0, 1}
         /\ Filing \in {0, 1}
         /\ Connecting \in {0, 1}
BY FS_CardinalityType
   DEF PInv, IInv, TypeOK, CounterName, SweepBound, Registering, Filing, Connecting

\* A step that moves none of the quantities of the bound keeps it.
LEMMA BoundUntouched ==
  ASSUME PInv, UNCHANGED <<InPool, Registering, Filing>>,
         counter'["opened"] = counter["opened"],
         counter'["sweeped"] = counter["sweeped"],
         counter'["released"] = counter["released"]
  PROVE  SweepBound'
BY DEF PInv, SweepBound

\* Outside the methods nobody opens, releases or sweeps.
LEMMA BoundOutside ==
  ASSUME PInv, NEW t \in Threads, ScriptStep(t)
  PROVE  SweepBound' /\ RequestBound'
<1>1. /\ pc[t] = "idle"
      /\ pc' = pc \/ \E label \in {"get", "closeFree", "closeAll", "release"} :
                       pc' = [pc EXCEPT ![t] = label]
      /\ UNCHANGED <<m_lock, m_availableConnections, counter, held>>
  BY DEF ScriptStep, CallGetConnection, CallCloseFree, Exit, CallRelease, BreakConnection,
         ResetConnection, Call, Goto
<1>2. InPool' = InPool
  BY <1>1 DEF InPool, Queued, Held
<1>3. m_lock # t
  BY <1>1 DEF PInv, IInv, LockHolder, Inside
<1>4. Place' = Place
  BY <1>1, <1>3 DEF Place, PInv, IInv, TypeOK
<1>5. UNCHANGED <<Registering, Filing>>
  BY <1>4 DEF Registering, Filing
<1>6. Connecting' = Connecting
  BY <1>4 DEF Connecting
<1>7. QED
  BY <1>1, <1>2, <1>5, <1>6, BoundUntouched DEF PInv, RequestBound

\* Release counts on entry, before the connection can be swept.
LEMMA BoundEntering ==
  ASSUME PInv, NEW t \in Threads, EnterStep(t)
  PROVE  SweepBound'
<1>1. /\ m_lock = NoThread
      /\ m_lock' = t
      /\ UNCHANGED <<m_availableConnections, held>>
  BY DEF EnterStep, EnterGetConnection, EnterRelease, EnterCloseFree, EnterCloseAll, Lock
<1>2. InPool' = InPool /\ Place = "idle" /\ Place' = pc'[t]
  BY <1>1, PoolAssumption DEF InPool, Queued, Held, Place
<1>3. Registering = 0 /\ Filing = 0
  BY <1>2 DEF Registering, Filing
<1>4. CASE EnterRelease(t)
  <2>1. /\ pc'[t] = "file"
        /\ counter' = [counter EXCEPT !["released"] = @ + 1]
    BY <1>4 DEF EnterRelease, Lock, Goto, Count, PInv, IInv, TypeOK
  <2>2. Registering' = 0 /\ Filing' = 1
    BY <1>2, <2>1 DEF Registering, Filing
  <2>3. /\ counter'["released"] = counter["released"] + 1
        /\ counter'["sweeped"] = counter["sweeped"]
        /\ counter'["opened"] = counter["opened"]
    BY <2>1 DEF PInv, IInv, TypeOK, CounterName
  <2>4. QED
    BY <1>2, <1>3, <2>2, <2>3, BoundNumbers DEF PInv, SweepBound
<1>5. CASE EnterGetConnection(t) \/ EnterCloseFree(t) \/ EnterCloseAll(t)
  <2>1. /\ pc'[t] \in {"pop", "drainFree", "drainAll"}
        /\ counter'["released"] = counter["released"]
        /\ counter'["sweeped"] = counter["sweeped"]
        /\ counter'["opened"] = counter["opened"]
    BY <1>5 DEF EnterGetConnection, EnterCloseFree, EnterCloseAll, Lock, Goto, Count,
                PInv, IInv, TypeOK, CounterName
  <2>2. Registering' = 0 /\ Filing' = 0
    BY <1>2, <2>1 DEF Registering, Filing
  <2>3. QED
    BY <1>2, <1>3, <2>1, <2>2, BoundUntouched
<1>6. QED
  BY <1>4, <1>5 DEF EnterStep

\* A connection that is taken from the queue is never swept: the queue holds no
\* broken one.
LEMMA BoundTaking ==
  ASSUME PInv, NEW t \in Threads, TakeAvailable(t)
  PROVE  SweepBound'
<1>1. PICK c \in Conns :
        c = Head(m_availableConnections) /\ c \in Queued /\ Queued' = Queued \ {c}
  BY PopFrontQueue DEF TakeAvailable, PInv
<1>2. /\ pc[t] = "pop"
      /\ held' = [held EXCEPT ![t] = @ \cup {c}]
      /\ m_lock' = NoThread
      /\ UNCHANGED counter
  BY <1>1 DEF TakeAvailable, PInv, IInv, QueuedAreOK, IsOK, Return
<1>3. Held' = Held \cup {c}
  BY <1>2 DEF Held, PInv, IInv, TypeOK
<1>4. InPool' = InPool
  BY <1>1, <1>3 DEF InPool
<1>5. Place = "pop" /\ Place' = "idle"
  BY <1>2, PlaceInside DEF Inside, Place, PInv
<1>6. UNCHANGED <<Registering, Filing>>
  BY <1>5 DEF Registering, Filing
<1>7. QED
  BY <1>2, <1>4, <1>6, BoundUntouched

\* The other steps of GetConnection and of the closing methods: nothing enters
\* the pool, and none of the three counters moves.
LEMMA BoundQuiet ==
  ASSUME PInv, NEW t \in Threads,
         \/ NoneAvailable(t)
         \/ ConnectFailed(t)
         \/ DrainFront(t)
         \/ EndCloseFree(t)
         \/ EndDrainAll(t)
         \/ FinishAll(t)
  PROVE  SweepBound'
<1>1. /\ pc[t] \in {"pop", "connect", "drainFree", "drainAll", "finishAll"}
      /\ \/ m_lock' = m_lock /\ pc' = pc
         \/ m_lock' = m_lock /\ \E label \in {"connect", "finishAll"} :
                                  pc' = [pc EXCEPT ![t] = label]
         \/ m_lock' = NoThread
      /\ UNCHANGED held
  BY DEF NoneAvailable, ConnectFailed, DrainFront, EndCloseFree, EndDrainAll, FinishAll,
         Return, Goto
<1>2. /\ counter'["opened"] = counter["opened"]
      /\ counter'["sweeped"] = counter["sweeped"]
      /\ counter'["released"] = counter["released"]
  BY DEF NoneAvailable, ConnectFailed, DrainFront, EndCloseFree, EndDrainAll, FinishAll,
         Count, PInv, IInv, TypeOK, CounterName
<1>3. m_lock = t /\ Place = pc[t]
  BY <1>1, PlaceInside DEF Inside, PInv
<1>4. Place' \in {"pop", "connect", "drainFree", "drainAll", "finishAll", "idle"}
  BY <1>1, <1>3, PoolAssumption DEF Place, PInv, IInv, TypeOK
<1>5. /\ Registering = 0 /\ Filing = 0
      /\ Registering' = 0 /\ Filing' = 0
  BY <1>1, <1>3, <1>4 DEF Registering, Filing
<1>6. InPool' \subseteq InPool
  <2>1. Queued' \subseteq Queued
    BY PopFrontQueue DEF NoneAvailable, ConnectFailed, DrainFront, EndCloseFree,
                         EndDrainAll, FinishAll, Queued, PInv
  <2>2. QED
    BY <1>1, <2>1 DEF InPool, Held
<1>7. IsFiniteSet(InPool') /\ Cardinality(InPool') <= Cardinality(InPool)
  BY <1>6, FS_Subset DEF PInv, SweepBound
<1>8. Cardinality(InPool') \in Nat
  BY <1>7, FS_CardinalityType
<1>9. QED
  BY <1>2, <1>5, <1>7, <1>8, BoundNumbers DEF PInv, SweepBound

\* An opened connection is counted before the pool knows of it.
LEMMA BoundOpening ==
  ASSUME PInv, NEW t \in Threads, Connected(t)
  PROVE  SweepBound'
<1>1. /\ pc[t] = "connect"
      /\ pc' = [pc EXCEPT ![t] = "register"]
      /\ counter' = [counter EXCEPT !["opened"] = @ + 1]
      /\ UNCHANGED <<m_lock, m_availableConnections, held>>
  BY DEF Connected, Count, Goto
<1>2. InPool' = InPool
  BY <1>1 DEF InPool, Queued, Held
<1>3. m_lock = t /\ Place = "connect"
  BY <1>1, PlaceInside DEF Inside, PInv
<1>4. Place' = "register"
  BY <1>1, <1>3, PoolAssumption DEF Place, PInv, IInv, TypeOK
<1>5. /\ Registering = 0 /\ Filing = 0
      /\ Registering' = 1 /\ Filing' = 0
  BY <1>3, <1>4 DEF Registering, Filing
<1>6. /\ counter'["opened"] = counter["opened"] + 1
      /\ counter'["sweeped"] = counter["sweeped"]
      /\ counter'["released"] = counter["released"]
  BY <1>1 DEF PInv, IInv, TypeOK, CounterName
<1>7. QED
  BY <1>2, <1>5, <1>6, BoundNumbers DEF PInv, SweepBound

\* The connection that was counted as opened is now one more in the pool.
LEMMA BoundRegistering ==
  ASSUME PInv, NEW t \in Threads, Register(t)
  PROVE  SweepBound'
<1>1. PICK c \in Conns : c = inHand[t] /\ c \notin InPool
  BY DEF Register, PInv, IInv, HandOK, InPool
<1>2. /\ pc[t] = "register"
      /\ held' = [held EXCEPT ![t] = @ \cup {c}]
      /\ m_lock' = NoThread
      /\ UNCHANGED <<m_availableConnections, counter>>
  BY <1>1 DEF Register, Return
<1>3. InPool' = InPool \cup {c}
  BY <1>2 DEF InPool, Held, Queued, PInv, IInv, TypeOK
<1>4. Place = "register" /\ Place' = "idle"
  BY <1>2, PlaceInside DEF Inside, Place, PInv
<1>5. /\ Registering = 1 /\ Filing = 0
      /\ Registering' = 0 /\ Filing' = 0
  BY <1>4 DEF Registering, Filing
<1>6. IsFiniteSet(InPool') /\ Cardinality(InPool') = Cardinality(InPool) + 1
  BY <1>1, <1>3, FS_AddElement DEF PInv, SweepBound
<1>7. QED
  BY <1>2, <1>5, <1>6, BoundNumbers DEF PInv, SweepBound

\* A sweep uses up the release that was counted on entry, and the connection.
LEMMA BoundFiling ==
  ASSUME PInv, NEW t \in Threads, FileReleased(t)
  PROVE  SweepBound'
<1>1. PICK c \in Conns : c = inHand[t] /\ c \in held[t]
  BY DEF FileReleased, PInv, IInv, HandOK, TypeOK
<1>2. /\ pc[t] = "file"
      /\ held' = [held EXCEPT ![t] = @ \ {c}]
      /\ m_lock' = NoThread
  BY <1>1 DEF FileReleased, DropPointer, Return
<1>3. Held' = Held \ {c} /\ c \in Held /\ c \notin Queued
  BY <1>1, <1>2 DEF Held, PInv, IInv, TypeOK, ExclusiveLoan
<1>4. Place = "file" /\ Place' = "idle"
  BY <1>2, PlaceInside DEF Inside, Place, PInv
<1>5. /\ Registering = 0 /\ Filing = 1
      /\ Registering' = 0 /\ Filing' = 0
  BY <1>4 DEF Registering, Filing
<1>6. CASE status[c] = "OK"
  <2>1. /\ m_availableConnections' = Append(m_availableConnections, c)
        /\ UNCHANGED counter
    BY <1>1, <1>6 DEF FileReleased, IsOK
  <2>2. Queued' = Queued \cup {c}
    BY <1>1, <2>1, RangeOfAppend DEF PInv, IInv, TypeOK, Queued
  <2>3. InPool' = InPool
    BY <1>3, <2>2 DEF InPool
  <2>4. QED
    BY <1>5, <2>1, <2>3, BoundNumbers DEF PInv, SweepBound
<1>7. CASE status[c] # "OK"
  <2>1. /\ counter' = [counter EXCEPT !["sweeped"] = @ + 1]
        /\ UNCHANGED m_availableConnections
    BY <1>1, <1>7 DEF FileReleased, IsOK, SweepConnection, Count
  <2>2. InPool' = InPool \ {c} /\ c \in InPool
    BY <1>3, <2>1 DEF InPool, Queued
  <2>3. IsFiniteSet(InPool') /\ Cardinality(InPool') = Cardinality(InPool) - 1
    BY <2>2, FS_RemoveElement DEF PInv, SweepBound
  <2>4. /\ counter'["sweeped"] = counter["sweeped"] + 1
        /\ counter'["opened"] = counter["opened"]
        /\ counter'["released"] = counter["released"]
    BY <2>1 DEF PInv, IInv, TypeOK, CounterName
  <2>5. QED
    BY <1>5, <2>3, <2>4, BoundNumbers DEF PInv, SweepBound
<1>8. QED
  BY <1>6, <1>7

\* A request is counted on entry, before a connection can be opened for it.
LEMMA RequestEntering ==
  ASSUME PInv, NEW t \in Threads, EnterStep(t)
  PROVE  RequestBound'
<1>1. m_lock = NoThread /\ m_lock' = t
  BY DEF EnterStep, EnterGetConnection, EnterRelease, EnterCloseFree, EnterCloseAll, Lock
<1>2. Place = "idle" /\ Place' = pc'[t]
  BY <1>1, PoolAssumption DEF Place
<1>3. Connecting = 0
  BY <1>2 DEF Connecting
<1>4. CASE EnterGetConnection(t)
  <2>1. /\ counter'["requested"] = counter["requested"] + 1
        /\ counter'["opened"] = counter["opened"]
    BY <1>4 DEF EnterGetConnection, Count, PInv, IInv, TypeOK, CounterName
  <2>2. Connecting' \in {0, 1}
    BY DEF Connecting
  <2>3. QED
    BY <1>3, <2>1, <2>2, BoundNumbers DEF PInv, RequestBound
<1>5. CASE EnterRelease(t) \/ EnterCloseFree(t) \/ EnterCloseAll(t)
  <2>1. /\ pc'[t] \in {"file", "drainFree", "drainAll"}
        /\ counter'["requested"] = counter["requested"]
        /\ counter'["opened"] = counter["opened"]
    BY <1>5 DEF EnterRelease, EnterCloseFree, EnterCloseAll, Lock, Goto, Count,
                PInv, IInv, TypeOK, CounterName
  <2>2. Connecting' = 0
    BY <1>2, <2>1 DEF Connecting
  <2>3. QED
    BY <1>3, <2>1, <2>2 DEF PInv, RequestBound
<1>6. QED
  BY <1>4, <1>5 DEF EnterStep

\* A connection that is opened uses up the request that was counted on entry.
LEMMA RequestInside ==
  ASSUME PInv, NEW t \in Threads, LockedStep(t)
  PROVE  RequestBound'
<1>1. CASE Connected(t)
  <2>1. /\ pc[t] = "connect"
        /\ pc' = [pc EXCEPT ![t] = "register"]
        /\ counter' = [counter EXCEPT !["opened"] = @ + 1]
        /\ m_lock' = m_lock
    BY <1>1 DEF Connected, Count, Goto
  <2>2. m_lock = t /\ Place = "connect"
    BY <2>1, PlaceInside DEF Inside, PInv
  <2>3. Place' = "register"
    BY <2>1, <2>2, PoolAssumption DEF Place, PInv, IInv, TypeOK
  <2>4. Connecting = 1 /\ Connecting' = 0
    BY <2>2, <2>3 DEF Connecting
  <2>5. /\ counter'["opened"] = counter["opened"] + 1
        /\ counter'["requested"] = counter["requested"]
    BY <2>1 DEF PInv, IInv, TypeOK, CounterName
  <2>6. QED
    BY <2>4, <2>5, BoundNumbers DEF PInv, RequestBound
<1>2. CASE ~Connected(t)
  <2>1. /\ counter'["opened"] = counter["opened"]
        /\ counter'["requested"] = counter["requested"]
    BY <1>2 DEF LockedStep, TakeAvailable, NoneAvailable, ConnectFailed, Register,
                FileReleased, DrainFront, EndCloseFree, EndDrainAll, FinishAll,
                SweepConnection, Count, PInv, IInv, TypeOK, CounterName
  <2>2. /\ pc[t] \in Inside
        /\ \/ m_lock' = NoThread
           \/ m_lock' = m_lock /\ pc' = pc
           \/ m_lock' = m_lock /\ pc[t] = "pop" /\ pc' = [pc EXCEPT ![t] = "connect"]
           \/ m_lock' = m_lock /\ pc' = [pc EXCEPT ![t] = "finishAll"]
    BY <1>2 DEF LockedStep, TakeAvailable, NoneAvailable, ConnectFailed, Register,
                FileReleased, DrainFront, EndCloseFree, EndDrainAll, FinishAll,
                Return, Goto, Inside
  <2>3. m_lock = t /\ Place = pc[t]
    BY <2>2, PlaceInside DEF PInv
  <2>4. \/ Place' = Place
        \/ Place = "pop" /\ Place' = "connect"
        \/ Place' \in {"idle", "finishAll"}
    BY <2>2, <2>3, PoolAssumption DEF Place, PInv, IInv, TypeOK
  <2>5. Connecting' <= Connecting /\ Connecting' \in {0, 1}
    BY <2>4 DEF Connecting
  <2>6. QED
    BY <2>1, <2>5, BoundNumbers DEF PInv, RequestBound
<1>3. QED
  BY <1>1, <1>2

\* Nothing is counted, queued or lent at the start.
LEMMA InitPInv == Init => PInv
<1> SUFFICES ASSUME Init PROVE PInv
  OBVIOUS
<1>1. InPool = {}
  BY DEF Init, InPool, Queued, Held, Range
<1>2. IsFiniteSet({}) /\ Cardinality({}) = 0
  BY FS_EmptySet
<1>3. Place = "idle"
  BY DEF Init, Place
<1>4. Registering = 0 /\ Filing = 0 /\ Connecting = 0
  BY <1>3 DEF Registering, Filing, Connecting
<1>5. \A n \in {"sweeped", "released", "opened", "requested"} : counter[n] = 0
  BY DEF Init, CounterName
<1>6. SweepBound /\ RequestBound
  BY <1>1, <1>2, <1>4, <1>5 DEF SweepBound, RequestBound
<1>7. QED
  BY <1>6, InitIInv, InitAInv DEF PInv

\* Every step of the pool keeps the bound.
LEMMA StepPInv == PInv /\ [Next]_vars => PInv'
<1> SUFFICES ASSUME PInv, [Next]_vars
             PROVE  PInv'
  OBVIOUS
<1>1. IInv' /\ AInv'
  BY StepIInv, StepAInv DEF PInv
<1>2. ASSUME NEW t \in Threads, LockedStep(t)
      PROVE  SweepBound' /\ RequestBound'
  BY <1>2, BoundTaking, BoundQuiet, BoundOpening, BoundRegistering, BoundFiling,
     RequestInside DEF LockedStep
<1>3. ASSUME UNCHANGED vars
      PROVE  SweepBound' /\ RequestBound'
  <2>1. UNCHANGED <<InPool, Registering, Filing, Connecting>>
    BY <1>3 DEF vars, InPool, Queued, Held, Registering, Filing, Connecting, Place
  <2>2. QED
    BY <1>3, <2>1, BoundUntouched DEF vars, PInv, RequestBound
<1>4. SweepBound' /\ RequestBound'
  BY <1>2, <1>3, BoundEntering, RequestEntering, BoundOutside DEF Next
<1>5. QED
  BY <1>1, <1>4 DEF PInv

\* The counters only grow.
LEMMA CountersGrow ==
  ASSUME PInv, [Next]_vars, NEW f \in CounterName
  PROVE  counter[f] <= counter'[f]
<1>1. counter \in [CounterName -> Nat]
  BY DEF PInv, IInv, TypeOK
<1>2. \/ UNCHANGED counter
      \/ \E n \in CounterName : counter' = [counter EXCEPT ![n] = @ + 1]
  <2>1. ASSUME NEW t \in Threads, LockedStep(t)
        PROVE  \/ UNCHANGED counter
               \/ \E n \in CounterName : counter' = [counter EXCEPT ![n] = @ + 1]
    BY <2>1 DEF LockedStep, TakeAvailable, NoneAvailable, Connected, ConnectFailed, Register,
                FileReleased, DrainFront, EndCloseFree, EndDrainAll, FinishAll,
                SweepConnection, Count, CounterName
  <2>2. ASSUME NEW t \in Threads, EnterStep(t)
        PROVE  \/ UNCHANGED counter
               \/ \E n \in CounterName : counter' = [counter EXCEPT ![n] = @ + 1]
    BY <2>2 DEF EnterStep, EnterGetConnection, EnterRelease, EnterCloseFree, EnterCloseAll,
                Count, CounterName
  <2>3. ASSUME NEW t \in Threads, ScriptStep(t)
        PROVE  UNCHANGED counter
    BY <2>3 DEF ScriptStep, CallGetConnection, CallCloseFree, Exit, CallRelease,
                BreakConnection, ResetConnection, Call
  <2>4. CASE UNCHANGED vars
    BY <2>4 DEF vars
  <2>5. QED
    BY <2>1, <2>2, <2>3, <2>4 DEF Next
<1>3. ASSUME NEW n \in CounterName, counter' = [counter EXCEPT ![n] = @ + 1]
      PROVE  counter[f] <= counter'[f]
  <2>1. counter[f] \in Nat /\ counter'[f] \in {counter[f], counter[f] + 1}
    BY <1>1, <1>3
  <2>2. QED
    BY <1>1, <2>1
<1>4. QED
  BY <1>1, <1>2, <1>3

-----------------------------------------------------------------------------
(* The report *)

\* While the pool moves, what was read stays a lower bound of what it counts.
LEMMA PoolMoves ==
  ASSUME SInv, [Next]_vars, UNCHANGED statVars
  PROVE  SInv'
<1>1. PInv'
  BY StepPInv DEF SInv
<1>2. ReaderOK'
  <2>1. \A f \in {"sweeped", "opened"} : counter[f] \in Nat /\ counter'[f] \in Nat
    BY <1>1 DEF SInv, PInv, IInv, TypeOK, CounterName
  <2>2. \A f \in {"sweeped", "opened"} : counter[f] <= counter'[f]
    BY CountersGrow DEF SInv, CounterName
  <2>3. QED
    BY <2>1, <2>2 DEF SInv, ReaderOK, statVars
<1>3. ReportOrdered'
  BY DEF SInv, ReportOrdered, statVars
<1>4. QED
  BY <1>1, <1>2, <1>3 DEF SInv

\* A step of the reader leaves the pool alone.
LEMMA PoolStays ==
  ASSUME SInv, UNCHANGED vars
  PROVE  PInv' /\ counter' = counter
BY StepPInv DEF SInv, vars

\* A new report starts empty, with the sweeps as its first field.
LEMMA CallStatStep ==
  ASSUME SInv, CallStat
  PROVE  SInv'
<1>1. PInv'
  BY PoolStays DEF CallStat
<1>2. unread' = StatFields /\ DOMAIN seen' = {}
  BY DEF CallStat
<1>3. ReaderOK'
  <2>1. StatFields \in Seq(FieldName) /\ Len(StatFields) = 7
    BY DEF StatFields, FieldName
  <2>2. /\ StatFields[1] = "sweeped"
        /\ StatFields[2] = "opened" /\ StatFields[3] = "requested"
        /\ StatFields[4] = "released" /\ StatFields[5] = "errors"
        /\ StatFields[6] = "total" /\ StatFields[7] = "free"
    BY DEF StatFields
  <2>3. \A i \in 1..7 : i \in {1, 2, 3, 4, 5, 6, 7}
    OBVIOUS
  <2>4. \A i \in 1..7 : /\ StatFields[i] = "sweeped" => i = 1
                        /\ StatFields[i] = "opened" => i = 2
                        /\ StatFields[i] = "requested" => i = 3
    BY <2>2, <2>3
  <2>5. QED
    BY <1>2, <2>1, <2>4 DEF ReaderOK
<1>4. ReportOrdered'
  BY <1>2 DEF ReportOrdered
<1>5. QED
  BY <1>1, <1>3, <1>4 DEF SInv

\* One more field is read: the sweeps before anything else, so that the others
\* are read when the pool counts at least as many.
LEMMA ReadFieldStep ==
  ASSUME SInv, ReadField
  PROVE  SInv'
<1> DEFINE f == Head(unread)
<1>1. PInv' /\ counter' = counter
  BY PoolStays DEF ReadField
<1>2. /\ f = unread[1]
      /\ unread' \in Seq(FieldName)
      /\ Len(unread') = Len(unread) - 1
      /\ \A i \in 1..Len(unread') : unread'[i] = unread[i + 1]
      /\ Len(unread) \in Nat \ {0}
  BY HeadTailProperties DEF ReadField, SInv, ReaderOK
<1>3. /\ DOMAIN seen' = DOMAIN seen \cup {f}
      /\ \A g \in DOMAIN seen \ {f} : seen'[g] = seen[g]
      /\ seen'[f] = Field(f)
  BY DEF ReadField
<1>4. \A i \in 1..Len(unread') : unread'[i] # "sweeped"
  BY <1>2 DEF SInv, ReaderOK
<1>5. \A i \in 1..Len(unread') : unread'[i] = "opened" =>
        "requested" \notin DOMAIN seen' /\ \A j \in 1..i : unread'[j] # "requested"
  <2> SUFFICES ASSUME NEW i \in 1..Len(unread'), unread'[i] = "opened"
               PROVE  "requested" \notin DOMAIN seen' /\ \A j \in 1..i : unread'[j] # "requested"
    OBVIOUS
  <2>1. i + 1 \in 1..Len(unread) /\ unread[i + 1] = "opened"
    BY <1>2
  <2>2. "requested" \notin DOMAIN seen /\ \A j \in 1..(i + 1) : unread[j] # "requested"
    BY <2>1 DEF SInv, ReaderOK
  <2>3. f # "requested"
    BY <1>2, <2>2
  <2>4. \A j \in 1..i : j + 1 \in 1..(i + 1) /\ unread'[j] = unread[j + 1]
    BY <1>2
  <2> QED BY <1>3, <2>2, <2>3, <2>4
<1>6. \A n \in {"sweeped", "opened", "released", "requested"} :
        counter[n] \in Nat /\ (f = n => seen'[f] = counter[n])
  BY <1>3 DEF SInv, PInv, IInv, TypeOK, CounterName, Field
<1>7. /\ f = "sweeped" => DOMAIN seen = {}
      /\ f = "opened" => "requested" \notin DOMAIN seen
  <2>1. 1 \in 1..Len(unread)
    BY <1>2
  <2> QED BY <1>2, <2>1 DEF SInv, ReaderOK
<1>8. /\ counter["sweeped"] <= counter["opened"]
      /\ counter["sweeped"] <= counter["released"]
      /\ counter["opened"] <= counter["requested"]
  BY BoundNumbers DEF SInv, PInv, SweepBound, RequestBound
<1>9. ReaderOK'
  <2>1. \A g \in {"sweeped", "opened"} \cap DOMAIN seen' :
          seen'[g] \in Nat /\ seen'[g] <= counter'[g]
    BY <1>1, <1>3, <1>6 DEF SInv, ReaderOK
  <2> QED BY <1>2, <1>4, <1>5, <2>1 DEF ReaderOK
<1>10. ReportOrdered'
  <2>1. \A g \in {"sweeped", "opened"} \cap DOMAIN seen :
          seen[g] \in Nat /\ seen[g] <= counter[g]
    BY DEF SInv, ReaderOK
  <2>2. {"sweeped", "opened"} \subseteq DOMAIN seen' => seen'["sweeped"] <= seen'["opened"]
    BY <1>3, <1>6, <1>7, <1>8, <2>1 DEF SInv, ReportOrdered
  <2>3. {"sweeped", "released"} \subseteq DOMAIN seen' => seen'["sweeped"] <= seen'["released"]
    BY <1>3, <1>6, <1>7, <1>8, <2>1 DEF SInv, ReportOrdered
  <2>4. {"opened", "requested"} \subseteq DOMAIN seen' => seen'["opened"] <= seen'["requested"]
    BY <1>3, <1>6, <1>7, <1>8, <2>1 DEF SInv, ReportOrdered
  <2> QED BY <2>2, <2>3, <2>4 DEF ReportOrdered
<1>11. QED
  BY <1>1, <1>9, <1>10 DEF SInv

\* The initial state satisfies the invariant.
LEMMA InitSInv == StatInit => SInv
BY InitPInv DEF StatInit, SInv, ReaderOK, ReportOrdered

\* Every step of the pool and of the reader keeps it.
LEMMA StepSInv == SInv /\ [StatNext]_<<vars, statVars>> => SInv'
<1> SUFFICES ASSUME SInv, [StatNext]_<<vars, statVars>>
             PROVE  SInv'
  OBVIOUS
<1>1. CASE [Next]_vars /\ UNCHANGED statVars
  BY <1>1, PoolMoves
<1>2. CASE CallStat \/ ReadField
  BY <1>2, CallStatStep, ReadFieldStep
<1>3. QED
  BY <1>1, <1>2 DEF StatNext

\* The strengthened invariant holds in every state of every behaviour of a pool
\* that is being asked for its statistics.
THEOREM StatInvariance == StatSpec => []SInv
<1>1. QED
  BY InitSInv, StepSInv, PTL DEF StatSpec

\* pg_connection_pool_stat never reports more swept connections than opened
\* ones or than releases, nor more opened connections than requests, although it
\* reads the counters without the lock while other threads change them.
THEOREM ReportsOrdered == StatSpec => []ReportOrdered
<1>1. SInv => ReportOrdered
  BY DEF SInv
<1>2. QED
  BY <1>1, StatInvariance, PTL

=============================================================================

---------------- MODULE PGSQLConnectionPoolContainerProofs ----------------
(***************************************************************************)
(* What TLAPS proves of the pool container, for any threads, strings,      *)
(* pools and connections: one pool per string, every resource on the       *)
(* server its script asked for, every sweep complete, and, seen from each *)
(* string, a loan of connections.                                          *)
(***************************************************************************)
EXTENDS PGSQLConnectionPoolContainer, TLAPS

-----------------------------------------------------------------------------
(* The inductive invariant *)

\* LockHolder: the lock belongs to the thread inside GetPool or GetPools.
LockHolder ==
  \A t \in Threads : m_lock = t <=> pc[t] \in {"lookup", "create", "snapshot"}

\* AskedOK: inside pg_pconnect the argument is at hand, and after GetPool so is
\* the pool of that string.
AskedOK ==
  \A t \in Threads :
    /\ pc[t] \in {"getPool", "lookup", "create", "getConnection"} => asked[t] \in Strings
    /\ pc[t] = "getConnection" => /\ thePool[t] \in Pools
                                  /\ connString[thePool[t]] = asked[t]

\* MapOK: an entry of the map is the pool of its string, or the nullptr a thread
\* is about to replace.
MapOK ==
  \A s \in Strings :
    /\ m_pools[s] \in Pools => connString[m_pools[s]] = s
    /\ m_pools[s] = NullPool => \E t \in Threads : pc[t] = "create" /\ asked[t] = s

\* CreateOK: a thread that creates a pool creates the first of its string.
CreateOK ==
  \A t \in Threads : pc[t] = "create" => m_pools[asked[t]] \notin Pools

\* HomeOK: a pool holds connections to its own server, and a resource knows the
\* pool its connection came from.
HomeOK ==
  /\ \A p \in Pools : \A c \in free[p] : connString[p] # NoString /\ server[c] = connString[p]
  /\ \A t \in Threads : \A r \in held[t] : connString[r.pool] = r.asked

IInv ==
  /\ TypeOK
  /\ LockHolder
  /\ AskedOK
  /\ MapOK
  /\ CreateOK
  /\ HomeOK
  /\ OnePoolPerString
  /\ RightServer
  /\ NoNullSwept

\* The initial state satisfies the invariant.
LEMMA InitIInv == Init => IInv
<1> SUFFICES ASSUME Init PROVE IInv
  OBVIOUS
<1>1. TypeOK
  <2>1. pc \in [Threads -> Labels]
    BY DEF Init, Labels
  <2>2. /\ m_pools \in [Strings -> Pools \cup {NoPool, NullPool}]
        /\ connString \in [Pools -> Strings \cup {NoString}]
        /\ server \in [Conns -> Strings \cup {NoString}]
        /\ asked \in [Threads -> Strings \cup {NoString}]
        /\ thePool \in [Threads -> Pools \cup {NoPool}]
    BY DEF Init
  <2>3. /\ free \in [Pools -> SUBSET Conns]
        /\ held \in [Threads -> SUBSET Resource]
        /\ pools \in [Threads -> SUBSET (Pools \cup {NullPool})]
        /\ due \in [Threads -> SUBSET Conns]
    BY DEF Init
  <2>4. QED
    BY <2>1, <2>2, <2>3 DEF Init, TypeOK
<1>2. LockHolder /\ AskedOK /\ CreateOK /\ MapOK
  BY ContainerAssumption DEF Init, LockHolder, AskedOK, CreateOK, MapOK
<1>3. HomeOK /\ OnePoolPerString /\ RightServer /\ NoNullSwept
  BY DEF Init, HomeOK, OnePoolPerString, RightServer, NoNullSwept
<1>4. QED
  BY <1>1, <1>2, <1>3 DEF IInv

\* The steps inside the container change the map, the lock and the caller's
\* own variables, not what the pools hold.
LEMMA ContainerStep ==
  ASSUME IInv, NEW t \in Threads,
         \/ \E s \in Strings : CallPConnect(t, s)
         \/ EnterGetPool(t)
         \/ FindPool(t)
         \/ MissPool(t)
         \/ CreatePool(t)
         \/ OpenFails(t)
         \/ CallSweepFree(t)
         \/ EnterGetPools(t)
         \/ GetPools(t)
         \/ SweepFreeReturns(t)
  PROVE  IInv'
<1> USE ContainerAssumption
<1>1. CASE \E s \in Strings : CallPConnect(t, s)
  BY <1>1 DEF CallPConnect, Goto, poolVars, IInv, TypeOK, Labels, LockHolder, AskedOK, MapOK,
     CreateOK, HomeOK, OnePoolPerString, RightServer, NoNullSwept
<1>2. CASE EnterGetPool(t)
  BY <1>2 DEF EnterGetPool, Lock, Goto, poolVars, IInv, TypeOK, Labels, LockHolder, AskedOK, MapOK,
     CreateOK, HomeOK, OnePoolPerString, RightServer, NoNullSwept
<1>3. CASE FindPool(t)
  BY <1>3 DEF FindPool, Unlock, Goto, poolVars, IInv, TypeOK, Labels, LockHolder, AskedOK, MapOK,
     CreateOK, HomeOK, OnePoolPerString, RightServer, NoNullSwept
<1>4. CASE MissPool(t)
  BY <1>4 DEF MissPool, Goto, poolVars, IInv, TypeOK, Labels, LockHolder, AskedOK, MapOK,
     CreateOK, HomeOK, OnePoolPerString, RightServer, NoNullSwept
<1>5. CASE CreatePool(t)
  <2>1. PICK p \in Pools :
          /\ connString[p] = NoString
          /\ connString' = [connString EXCEPT ![p] = asked[t]]
          /\ m_pools' = [m_pools EXCEPT ![asked[t]] = p]
          /\ thePool' = [thePool EXCEPT ![t] = p]
    BY <1>5 DEF CreatePool
  <2>2. /\ pc[t] = "create"
        /\ m_lock' = NoThread
        /\ pc' = [pc EXCEPT ![t] = "getConnection"]
        /\ UNCHANGED <<free, server, closed, held, asked, pools, due, ended>>
    BY <1>5 DEF CreatePool, Unlock, Goto
  <2>3. /\ asked[t] \in Strings
        /\ m_pools[asked[t]] \notin Pools
        /\ m_lock = t
    BY <2>2 DEF IInv, AskedOK, CreateOK, LockHolder
  <2>4. TypeOK'
    BY <2>1, <2>2, <2>3 DEF IInv, TypeOK, Labels
  <2>5. LockHolder' /\ CreateOK'
    BY <2>1, <2>2, <2>3 DEF IInv, TypeOK, LockHolder, CreateOK
  <2>6. OnePoolPerString' /\ RightServer' /\ NoNullSwept'
    BY <2>1, <2>2, <2>3 DEF IInv, TypeOK, OnePoolPerString, RightServer, NoNullSwept
  <2>7. AskedOK'
    BY <2>1, <2>2, <2>3 DEF IInv, TypeOK, AskedOK
  <2>8. MapOK'
    BY <2>1, <2>2, <2>3 DEF IInv, TypeOK, MapOK
  <2>9. HomeOK'
    <3>1. \A q \in Pools : \A c \in free'[q] : connString'[q] # NoString /\ server'[c] = connString'[q]
      BY <2>1, <2>2, <2>3 DEF IInv, TypeOK, HomeOK
    <3>2. \A u \in Threads : \A r \in held'[u] : r \in Resource /\ connString[r.pool] = r.asked
      BY <2>2 DEF IInv, TypeOK, HomeOK
    <3>3. \A r \in Resource : connString[r.pool] = r.asked => connString'[r.pool] = r.asked
      BY <2>1 DEF Resource, IInv, TypeOK
    <3>4. QED
      BY <3>1, <3>2, <3>3 DEF HomeOK
  <2>10. QED
    BY <2>4, <2>5, <2>6, <2>7, <2>8, <2>9 DEF IInv
<1>6. CASE OpenFails(t)
  BY <1>6 DEF OpenFails, LeavePConnect, Goto, poolVars, IInv, TypeOK, Labels, LockHolder, AskedOK,
     MapOK, CreateOK, HomeOK, OnePoolPerString, RightServer, NoNullSwept
<1>7. CASE CallSweepFree(t)
  BY <1>7 DEF CallSweepFree, Goto, IInv, TypeOK, Labels, LockHolder, AskedOK, MapOK,
     CreateOK, HomeOK, OnePoolPerString, RightServer, NoNullSwept
<1>8. CASE EnterGetPools(t)
  BY <1>8 DEF EnterGetPools, Lock, Goto, poolVars, IInv, TypeOK, Labels, LockHolder, AskedOK, MapOK,
     CreateOK, HomeOK, OnePoolPerString, RightServer, NoNullSwept
<1>9. CASE GetPools(t)
  BY <1>9 DEF GetPools, Mapped, Unlock, Goto, poolVars, IInv, TypeOK, Labels, LockHolder, AskedOK,
     MapOK, CreateOK, HomeOK, OnePoolPerString, RightServer, NoNullSwept
<1>10. CASE SweepFreeReturns(t)
  BY <1>10 DEF SweepFreeReturns, Goto, IInv, TypeOK, Labels, LockHolder, AskedOK, MapOK,
     CreateOK, HomeOK, OnePoolPerString, RightServer, NoNullSwept
<1>11. QED
  BY <1>1, <1>2, <1>3, <1>4, <1>5, <1>6, <1>7, <1>8, <1>9, <1>10

\* The steps that move connections leave the map alone.
LEMMA ConnectionStep ==
  ASSUME IInv, NEW t \in Threads,
         \/ GetConnection(t)
         \/ OpenConnection(t)
         \/ \E r \in held[t] : Release(t, r)
         \/ SweepFree(t)
  PROVE  IInv'
<1> USE ContainerAssumption
<1>1. UNCHANGED <<m_lock, m_pools, connString>>
  BY DEF GetConnection, OpenConnection, Release, SweepFree
<1>2. CASE GetConnection(t) \/ OpenConnection(t)
  <2>1. PICK c \in Conns, r \in Resource :
          /\ r = [pool |-> thePool[t], conn |-> c, asked |-> asked[t]]
          /\ held' = [held EXCEPT ![t] = @ \cup {r}]
          /\ \/ /\ c \in free[thePool[t]]
                /\ free' = [free EXCEPT ![thePool[t]] = @ \ {c}]
                /\ UNCHANGED server
                /\ due' = [u \in Threads |-> due[u] \ {c}]
             \/ /\ server[c] = NoString
                /\ server' = [server EXCEPT ![c] = connString[thePool[t]]]
                /\ UNCHANGED <<free, due>>
    <3>1. thePool[t] \in Pools /\ asked[t] \in Strings
      BY <1>2 DEF GetConnection, OpenConnection, IInv, AskedOK
    <3>2. \A c \in Conns : [pool |-> thePool[t], conn |-> c, asked |-> asked[t]] \in Resource
      BY <3>1 DEF Resource
    <3>3. free[thePool[t]] \subseteq Conns
      BY <3>1 DEF IInv, TypeOK
    <3>4. CASE GetConnection(t)
      <4>1. PICK c \in Conns :
              /\ c \in free[thePool[t]]
              /\ free' = [free EXCEPT ![thePool[t]] = @ \ {c}]
              /\ Hold(t, c)
              /\ due' = [u \in Threads |-> due[u] \ {c}]
        BY <3>3, <3>4 DEF GetConnection
      <4>2. UNCHANGED server
        BY <3>4 DEF GetConnection
      <4>3. QED
        BY <3>2, <4>1, <4>2 DEF Hold
    <3>5. CASE OpenConnection(t)
      <4>1. PICK c \in Conns :
              /\ server[c] = NoString
              /\ server' = [server EXCEPT ![c] = connString[thePool[t]]]
              /\ Hold(t, c)
        BY <3>5 DEF OpenConnection
      <4>2. UNCHANGED <<free, due>>
        BY <3>5 DEF OpenConnection
      <4>3. QED
        BY <3>2, <4>1, <4>2 DEF Hold
    <3>6. QED
      BY <1>2, <3>4, <3>5
  <2>2. /\ pc[t] = "getConnection"
        /\ pc' = [pc EXCEPT ![t] = "idle"]
        /\ asked' = [asked EXCEPT ![t] = NoString]
        /\ thePool' = [thePool EXCEPT ![t] = NoPool]
        /\ UNCHANGED <<closed, pools, ended>>
    BY <1>2 DEF GetConnection, OpenConnection, LeavePConnect, Goto
  <2>3. /\ thePool[t] \in Pools
        /\ asked[t] \in Strings
        /\ connString[thePool[t]] = asked[t]
    BY <2>2 DEF IInv, AskedOK
  <2>4. TypeOK'
    BY <1>1, <2>1, <2>2, <2>3 DEF IInv, TypeOK, Labels
  <2>5. LockHolder' /\ AskedOK' /\ MapOK' /\ CreateOK' /\ OnePoolPerString' /\ NoNullSwept'
    BY <1>1, <2>2 DEF IInv, TypeOK, LockHolder, AskedOK, MapOK, CreateOK, OnePoolPerString, NoNullSwept
  <2>6. r.conn = c /\ r.pool = thePool[t] /\ r.asked = asked[t]
    BY <2>1
  <2>7. HomeOK'
    <3>1. \A p \in Pools : \A d \in free'[p] : connString'[p] # NoString /\ server'[d] = connString'[p]
      BY <1>1, <2>1, <2>3 DEF IInv, TypeOK, HomeOK
    <3>2. \A u \in Threads : \A x \in held'[u] : connString'[x.pool] = x.asked
      BY <1>1, <2>1, <2>3, <2>6 DEF IInv, TypeOK, HomeOK
    <3>3. QED
      BY <3>1, <3>2 DEF HomeOK
  <2>8. RightServer'
    <3>1. server'[c] = asked[t]
      BY <2>1, <2>3 DEF IInv, TypeOK, HomeOK
    <3>2. \A u \in Threads : \A x \in held[u] : x.conn \in Conns /\ server[x.conn] = x.asked /\ x.asked \in Strings
      BY DEF IInv, TypeOK, Resource, RightServer
    <3>3. \A d \in Conns : server[d] # NoString => server'[d] = server[d]
      BY <2>1 DEF IInv, TypeOK
    <3>4. \A u \in Threads : \A x \in held[u] : server'[x.conn] = x.asked
      BY <3>2, <3>3
    <3>5. \A u \in Threads : \A x \in held'[u] : x \in held[u] \/ x = r
      BY <2>1 DEF IInv, TypeOK
    <3>6. QED
      BY <2>6, <3>1, <3>4, <3>5 DEF RightServer
  <2>9. QED
    BY <2>4, <2>5, <2>7, <2>8 DEF IInv
<1>3. CASE \E r \in held[t] : Release(t, r)
  <2>1. PICK r \in held[t] : Release(t, r)
    BY <1>3
  <2>2. /\ r \in Resource
        /\ r.pool \in Pools
        /\ r.conn \in Conns
        /\ r.asked \in Strings
        /\ connString[r.pool] = r.asked
        /\ server[r.conn] = r.asked
    BY <2>1 DEF IInv, TypeOK, Resource, HomeOK, RightServer
  <2>3. /\ held' = [held EXCEPT ![t] = @ \ {r}]
        /\ UNCHANGED <<server, pc, asked, thePool, pools, due, ended>>
        /\ closed' \subseteq closed \cup {r.conn}
        /\ \/ free' = [free EXCEPT ![r.pool] = @ \cup {r.conn}]
           \/ UNCHANGED free
    BY <2>1 DEF Release
  <2>4. TypeOK'
    BY <1>1, <2>2, <2>3 DEF IInv, TypeOK
  <2>5. LockHolder' /\ AskedOK' /\ MapOK' /\ CreateOK' /\ OnePoolPerString' /\ NoNullSwept'
    BY <1>1, <2>3 DEF IInv, TypeOK, LockHolder, AskedOK, MapOK, CreateOK, OnePoolPerString, NoNullSwept
  <2>6. \A u \in Threads : held'[u] \subseteq held[u]
    BY <2>3 DEF IInv, TypeOK
  <2>7. RightServer'
    BY <2>3, <2>6 DEF IInv, RightServer
  <2>8. HomeOK'
    <3>1. \A p \in Pools : \A d \in free'[p] : d \in free[p] \/ (p = r.pool /\ d = r.conn)
      BY <2>3 DEF IInv, TypeOK
    <3>2. QED
      BY <1>1, <2>2, <2>3, <2>6, <3>1 DEF IInv, HomeOK
  <2>9. QED
    BY <2>4, <2>5, <2>7, <2>8 DEF IInv
<1>4. CASE SweepFree(t)
  <2>1. PICK p \in Pools :
          /\ closed' = closed \cup free[p]
          /\ free' = [free EXCEPT ![p] = {}]
          /\ pools' = [pools EXCEPT ![t] = @ \ {p}]
    BY <1>4 DEF SweepFree
  <2>2. UNCHANGED <<server, held, pc, asked, thePool, due, ended>>
    BY <1>4 DEF SweepFree
  <2>3. TypeOK'
    BY <1>1, <2>1, <2>2 DEF IInv, TypeOK
  <2>4. LockHolder' /\ AskedOK' /\ MapOK' /\ CreateOK' /\ OnePoolPerString' /\ RightServer'
    BY <1>1, <2>2 DEF IInv, LockHolder, AskedOK, MapOK, CreateOK, OnePoolPerString, RightServer
  <2>5. NoNullSwept' /\ HomeOK'
    BY <1>1, <2>1, <2>2 DEF IInv, TypeOK, NoNullSwept, HomeOK
  <2>6. QED
    BY <2>3, <2>4, <2>5 DEF IInv
<1>5. QED
  BY <1>2, <1>3, <1>4

\* The destructor finishes connections and takes them out of the pools.
LEMMA DestroyStep ==
  ASSUME IInv, NEW t \in Threads, DestroyContainer(t) \/ CloseAll(t) \/ DestroyReturns(t)
  PROVE  IInv'
<1> USE ContainerAssumption
<1>1. CASE DestroyContainer(t)
  BY <1>1 DEF DestroyContainer, Mapped, Goto, poolVars, IInv, TypeOK, Labels, LockHolder, AskedOK,
     MapOK, CreateOK, HomeOK, OnePoolPerString, RightServer, NoNullSwept
<1>2. CASE CloseAll(t)
  <2>1. PICK p \in pools[t] :
          /\ closed' = closed \cup free[p] \cup LentFrom(p)
          /\ free' = [free EXCEPT ![p] = {}]
          /\ pools' = [pools EXCEPT ![t] = @ \ {p}]
    BY <1>2 DEF CloseAll
  <2>2. /\ p \in Pools
        /\ free[p] \subseteq Conns
        /\ LentFrom(p) \subseteq Conns
    BY <2>1 DEF IInv, TypeOK, NoNullSwept, Resource, LentFrom
  <2>3. UNCHANGED <<m_lock, m_pools, connString, server, held, pc, asked, thePool, due, ended>>
    BY <1>2 DEF CloseAll
  <2>4. TypeOK'
    BY <2>1, <2>2, <2>3 DEF IInv, TypeOK
  <2>5. LockHolder' /\ AskedOK' /\ MapOK' /\ CreateOK' /\ OnePoolPerString' /\ RightServer'
    BY <2>3 DEF IInv, LockHolder, AskedOK, MapOK, CreateOK, OnePoolPerString, RightServer
  <2>6. NoNullSwept' /\ HomeOK'
    BY <2>1, <2>2, <2>3 DEF IInv, TypeOK, NoNullSwept, HomeOK
  <2>7. QED
    BY <2>4, <2>5, <2>6 DEF IInv
<1>3. CASE DestroyReturns(t)
  BY <1>3 DEF DestroyReturns, Goto, poolVars, IInv, TypeOK, Labels, LockHolder, AskedOK,
     MapOK, CreateOK, HomeOK, OnePoolPerString, RightServer, NoNullSwept
<1>4. QED
  BY <1>1, <1>2, <1>3

\* Every step of the container and its clients keeps the invariant.
LEMMA StepIInv == IInv /\ [Next]_vars => IInv'
<1> SUFFICES ASSUME IInv, [Next]_vars
             PROVE  IInv'
  OBVIOUS
<1>1. ASSUME NEW t \in Threads, Step(t)
      PROVE  IInv'
  BY <1>1, ContainerStep, ConnectionStep, DestroyStep DEF Step
<1>2. CASE UNCHANGED vars
  BY <1>2 DEF vars, IInv, TypeOK, LockHolder, AskedOK, MapOK, CreateOK, HomeOK,
     OnePoolPerString, RightServer, NoNullSwept
<1>3. QED
  BY <1>1, <1>2 DEF Next

\* The invariant holds in every state of every behaviour.
THEOREM Invariance == Spec => []IInv
<1>1. QED
  BY InitIInv, StepIInv, PTL DEF Spec

\* GetPool creates at most one pool for a connection string, and the map never
\* loses it.
THEOREM PoolUnique == Spec => []OnePoolPerString
<1>1. IInv => OnePoolPerString
  BY DEF IInv
<1>2. QED
  BY <1>1, Invariance, PTL

\* A resource made by pg_pconnect holds a connection opened with the string its
\* script passed, whoever used that connection before.
THEOREM ServerRight == Spec => []RightServer
<1>1. IInv => RightServer
  BY DEF IInv
<1>2. QED
  BY <1>1, Invariance, PTL

\* pg_connection_pool_sweep_free never dereferences the nullptr that GetPool puts
\* into the map for a moment.
THEOREM SweepSafe == Spec => []NoNullSwept
<1>1. IInv => NoNullSwept
  BY DEF IInv
<1>2. QED
  BY <1>1, Invariance, PTL

\* Every variable keeps its type: what the map, the pools and the resources refer
\* to is allocated and of the right kind.
THEOREM ContainerTypes == Spec => []TypeOK
<1>1. IInv => TypeOK
  BY DEF IInv
<1>2. QED
  BY <1>1, Invariance, PTL

-----------------------------------------------------------------------------
(* Where a connection is *)

\* PlaceOK: a connection that was opened is free, lent or closed, in one pool's
\* queue or in one resource; one that was not is nowhere.  Only what is lent when
\* the process exits may be closed as well.
PlaceOK ==
  /\ \A p, q \in Pools : \A c \in free[p] : c \in free[q] => p = q
  /\ \A p \in Pools : \A c \in free[p] : c \notin closed
  /\ \A t \in Threads : \A r \in held[t] :
       /\ r.conn \in closed => ended
       /\ \A p \in Pools : r.conn \notin free[p]
       /\ \A u \in Threads : \A q \in held[u] : r.conn = q.conn => t = u /\ r = q
  /\ \A c \in closed : server[c] # NoString

\* NoneLost: an opened connection is somewhere.
NoneLost ==
  \A c \in Conns :
    server[c] # NoString =>
      \/ c \in closed
      \/ \E p \in Pools : c \in free[p]
      \/ \E t \in Threads : \E r \in held[t] : r.conn = c

\* ExitOK: only the static destructors close all connections.
ExitOK == \A t \in Threads : pc[t] = "closeAll" => ended

\* DueOK: what a sweep has to close is closed, or waits in a pool that the sweep
\* has yet to see.
DueOK ==
  \A t \in Threads :
    /\ pc[t] \notin {"getPools", "snapshot", "sweepFree"} => due[t] = {}
    /\ \A c \in due[t] :
         \/ c \in closed
         \/ \E p \in Pools : c \in free[p] /\ (pc[t] = "sweepFree" => p \in pools[t])

WInv == PlaceOK /\ NoneLost /\ ExitOK /\ DueOK

\* Initially there are no connections.
LEMMA InitWInv == Init => WInv
BY DEF Init, WInv, PlaceOK, NoneLost, ExitOK, DueOK

\* A pool that has connections is in the map.
LEMMA FreeMapped ==
  ASSUME IInv, NEW p \in Pools, free[p] # {}
  PROVE  p \in Mapped
<1>1. connString[p] \in Strings /\ m_pools[connString[p]] = p
  BY DEF IInv, TypeOK, HomeOK, OnePoolPerString
<1>2. QED
  BY <1>1, ContainerAssumption DEF Mapped

\* The steps inside the container move no connection.
LEMMA ContainerPlaces ==
  ASSUME IInv, WInv, NEW t \in Threads,
         \/ \E s \in Strings : CallPConnect(t, s)
         \/ EnterGetPool(t)
         \/ FindPool(t)
         \/ MissPool(t)
         \/ CreatePool(t)
         \/ OpenFails(t)
         \/ CallSweepFree(t)
         \/ EnterGetPools(t)
         \/ GetPools(t)
         \/ SweepFreeReturns(t)
         \/ DestroyContainer(t)
         \/ DestroyReturns(t)
  PROVE  WInv' /\ UNCHANGED <<free, server, closed, held>>
<1> USE DEF Goto, Lock, Unlock, LeavePConnect, poolVars
<1>1. UNCHANGED <<free, server, closed, held>> /\ (ended => ended')
  BY DEF CallPConnect, EnterGetPool, FindPool, MissPool, CreatePool, OpenFails, CallSweepFree,
     EnterGetPools, GetPools, SweepFreeReturns, DestroyContainer, DestroyReturns
<1>2. PlaceOK' /\ NoneLost' /\ ExitOK'
  <2>1. PlaceOK' /\ NoneLost'
    BY <1>1 DEF WInv, PlaceOK, NoneLost
  <2>2. \A u \in Threads : pc'[u] = "closeAll" => pc[u] = "closeAll" \/ ended'
    BY DEF CallPConnect, EnterGetPool, FindPool, MissPool, CreatePool, OpenFails, CallSweepFree,
       EnterGetPools, GetPools, SweepFreeReturns, DestroyContainer, DestroyReturns, IInv, TypeOK
  <2>3. QED
    BY <1>1, <2>1, <2>2 DEF WInv, ExitOK
<1>3. DueOK'
  <2>1. CASE \/ \E s \in Strings : CallPConnect(t, s)
             \/ EnterGetPool(t) \/ FindPool(t) \/ MissPool(t) \/ CreatePool(t) \/ OpenFails(t)
    <3>1. /\ UNCHANGED <<due, pools>>
          /\ pc[t] \notin {"getPools", "snapshot", "sweepFree"}
          /\ \E label \in {"getPool", "lookup", "create", "getConnection", "idle"} :
               pc' = [pc EXCEPT ![t] = label]
      BY <2>1 DEF CallPConnect, EnterGetPool, FindPool, MissPool, CreatePool, OpenFails
    <3>2. QED
      BY <1>1, <3>1 DEF WInv, DueOK, IInv, TypeOK
  <2>2. CASE CallSweepFree(t)
    <3>1. /\ due' = [due EXCEPT ![t] = UNION {free[p] : p \in Pools}]
          /\ pc' = [pc EXCEPT ![t] = "getPools"]
          /\ pools' = pools
      BY <2>2 DEF CallSweepFree
    <3>2. due'[t] = UNION {free[p] : p \in Pools} /\ pc'[t] = "getPools"
      BY <3>1 DEF IInv, TypeOK
    <3>3. \A u \in Threads \ {t} : due'[u] = due[u] /\ pc'[u] = pc[u]
      BY <3>1 DEF IInv, TypeOK
    <3>4. QED
      BY <1>1, <3>1, <3>2, <3>3 DEF WInv, DueOK
  <2>3. CASE EnterGetPools(t)
    BY <1>1, <2>3 DEF EnterGetPools, WInv, DueOK, IInv, TypeOK
  <2>4. CASE GetPools(t)
    <3>1. /\ UNCHANGED due
          /\ pc' = [pc EXCEPT ![t] = "sweepFree"]
          /\ pools' = [pools EXCEPT ![t] = Mapped]
          /\ pc[t] = "snapshot"
      BY <2>4 DEF GetPools
    <3>2. \A p \in Pools : \A c \in free[p] : p \in Mapped
      BY FreeMapped
    <3>3. QED
      BY <1>1, <3>1, <3>2 DEF WInv, DueOK, IInv, TypeOK
  <2>5. CASE SweepFreeReturns(t)
    BY <1>1, <2>5 DEF SweepFreeReturns, WInv, DueOK, IInv, TypeOK
  <2>6. CASE DestroyContainer(t) \/ DestroyReturns(t)
    BY <1>1, <2>6 DEF DestroyContainer, DestroyReturns, WInv, DueOK, IInv, TypeOK
  <2>7. QED
    BY <2>1, <2>2, <2>3, <2>4, <2>5, <2>6
<1>4. QED
  BY <1>1, <1>2, <1>3 DEF WInv

\* What pg_pconnect does when it gets a connection.
Lends(t, c, r) ==
  /\ thePool[t] \in Pools
  /\ asked[t] \in Strings
  /\ connString[thePool[t]] = asked[t]
  /\ r = [pool |-> thePool[t], conn |-> c, asked |-> asked[t]]
  /\ r \in Resource
  /\ held' = [held EXCEPT ![t] = @ \cup {r}]
  /\ pc[t] = "getConnection"
  /\ pc' = [pc EXCEPT ![t] = "idle"]
  /\ UNCHANGED <<closed, pools, ended>>

LendsFree(t, c) ==
  /\ c \in free[thePool[t]]
  /\ server[c] = asked[t]
  /\ free' = [free EXCEPT ![thePool[t]] = @ \ {c}]
  /\ due' = [u \in Threads |-> due[u] \ {c}]
  /\ UNCHANGED server

LendsNew(t, c) ==
  /\ server[c] = NoString
  /\ server' = [server EXCEPT ![c] = asked[t]]
  /\ UNCHANGED <<free, due>>

LEMMA LendingStep ==
  ASSUME IInv, NEW t \in Threads, GetConnection(t) \/ OpenConnection(t)
  PROVE  \E c \in Conns : \E r \in Resource :
           Lends(t, c, r) /\ (LendsFree(t, c) \/ LendsNew(t, c))
<1>1. pc[t] = "getConnection"
  BY DEF GetConnection, OpenConnection
<1>2. /\ thePool[t] \in Pools
      /\ asked[t] \in Strings
      /\ connString[thePool[t]] = asked[t]
  BY <1>1 DEF IInv, AskedOK
<1>3. \A c \in Conns : [pool |-> thePool[t], conn |-> c, asked |-> asked[t]] \in Resource
  BY <1>2 DEF Resource
<1>4. /\ pc' = [pc EXCEPT ![t] = "idle"]
      /\ UNCHANGED <<closed, pools, ended>>
  BY DEF GetConnection, OpenConnection, LeavePConnect, Goto
<1>5. \A c \in free[thePool[t]] : c \in Conns /\ server[c] = asked[t]
  BY <1>2 DEF IInv, TypeOK, HomeOK
<1>6. CASE GetConnection(t)
  <2>1. PICK c \in free[thePool[t]] :
          /\ free' = [free EXCEPT ![thePool[t]] = @ \ {c}]
          /\ Hold(t, c)
          /\ due' = [u \in Threads |-> due[u] \ {c}]
    BY <1>6 DEF GetConnection
  <2>2. UNCHANGED server
    BY <1>6 DEF GetConnection
  <2>3. LendsFree(t, c) /\ c \in Conns
    BY <1>5, <2>1, <2>2 DEF LendsFree
  <2>4. QED
    BY <1>1, <1>2, <1>3, <1>4, <2>1, <2>3 DEF Hold, Lends
<1>7. CASE OpenConnection(t)
  <2>1. PICK c \in Conns :
          /\ server[c] = NoString
          /\ server' = [server EXCEPT ![c] = connString[thePool[t]]]
          /\ Hold(t, c)
    BY <1>7 DEF OpenConnection
  <2>2. UNCHANGED <<free, due>>
    BY <1>7 DEF OpenConnection
  <2>3. LendsNew(t, c)
    BY <1>2, <2>1, <2>2 DEF LendsNew
  <2>4. QED
    BY <1>1, <1>2, <1>3, <1>4, <2>1, <2>3 DEF Hold, Lends
<1>8. QED
  BY <1>6, <1>7

\* A connection that was not opened is in no pool and in no resource.
LEMMA NewIsNowhere ==
  ASSUME IInv, WInv, NEW c \in Conns, server[c] = NoString
  PROVE  /\ c \notin closed
         /\ \A p \in Pools : c \notin free[p]
         /\ \A t \in Threads : \A r \in held[t] : r.conn # c
<1>1. c \notin closed
  BY DEF WInv, PlaceOK
<1>2. \A p \in Pools : c \notin free[p]
  BY DEF IInv, HomeOK
<1>3. \A t \in Threads : \A r \in held[t] : r.conn # c
  <2>1. \A t \in Threads : \A r \in held[t] : r.asked \in Strings /\ server[r.conn] = r.asked
    BY DEF IInv, TypeOK, Resource, RightServer
  <2>2. QED
    BY <2>1, ContainerAssumption
<1>4. QED
  BY <1>1, <1>2, <1>3

\* A lent connection leaves the queue it waited in, or comes from nowhere.
LEMMA LendingPlaces ==
  ASSUME IInv, WInv, NEW t \in Threads, NEW c \in Conns, NEW r \in Resource,
         Lends(t, c, r), LendsFree(t, c) \/ LendsNew(t, c)
  PROVE  WInv'
<1>1. /\ c \notin closed
      /\ \A p \in Pools : c \notin free'[p]
      /\ \A u \in Threads : \A q \in held[u] : q.conn # c
  <2>1. CASE LendsFree(t, c)
    BY <2>1 DEF Lends, LendsFree, WInv, PlaceOK, IInv, TypeOK
  <2>2. CASE LendsNew(t, c)
    BY <2>2, NewIsNowhere DEF LendsNew
  <2>3. QED
    BY <2>1, <2>2
<1>2. \A p \in Pools : free'[p] \subseteq free[p] /\ free[p] \subseteq free'[p] \cup {c}
  BY DEF Lends, LendsFree, LendsNew, IInv, TypeOK
<1>3. /\ r.conn = c
      /\ held'[t] = held[t] \cup {r}
      /\ \A u \in Threads : u # t => held'[u] = held[u]
      /\ \A d \in Conns : d # c => server'[d] = server[d]
      /\ server'[c] # NoString /\ closed' = closed /\ ended' = ended
  BY ContainerAssumption DEF Lends, LendsFree, LendsNew, IInv, TypeOK
<1>4. PlaceOK'
  <2>1. \A p, q \in Pools : \A d \in free'[p] : d \in free'[q] => p = q
    BY <1>2 DEF WInv, PlaceOK
  <2>2. \A p \in Pools : \A d \in free'[p] : d \notin closed'
    BY <1>2, <1>3 DEF WInv, PlaceOK
  <2>3. \A d \in closed' : server'[d] # NoString
    BY <1>3 DEF WInv, PlaceOK, IInv, TypeOK
  <2>4. ASSUME NEW u \in Threads, NEW x \in held'[u]
        PROVE  /\ x.conn \in closed' => ended'
               /\ \A p \in Pools : x.conn \notin free'[p]
               /\ \A v \in Threads : \A y \in held'[v] : x.conn = y.conn => u = v /\ x = y
    <3>1. \A v \in Threads : \A y \in held'[v] : y \in held[v] \/ (v = t /\ y = r)
      BY <1>3
    <3>2. QED
      BY <1>1, <1>2, <1>3, <3>1 DEF WInv, PlaceOK
  <2>5. QED
    BY <2>1, <2>2, <2>3, <2>4 DEF PlaceOK
<1>5. NoneLost'
  <2>1. ASSUME NEW d \in Conns, server'[d] # NoString, d # c
        PROVE  \/ d \in closed'
               \/ \E p \in Pools : d \in free'[p]
               \/ \E u \in Threads : \E x \in held'[u] : x.conn = d
    <3>1. \A u \in Threads : held[u] \subseteq held'[u]
      BY <1>3
    <3>2. QED
      BY <1>2, <1>3, <2>1, <3>1 DEF WInv, NoneLost
  <2>2. QED
    BY <1>3, <2>1 DEF NoneLost
<1>6. DueOK'
  <2>1. \A u \in Threads : due'[u] \subseteq due[u] /\ (LendsFree(t, c) => c \notin due'[u])
    BY DEF LendsFree, LendsNew, IInv, TypeOK
  <2>2. LendsNew(t, c) => \A p \in Pools : c \notin free[p]
    BY NewIsNowhere DEF LendsNew
  <2>3. \A u \in Threads : pc'[u] = IF u = t THEN "idle" ELSE pc[u]
    BY DEF Lends, IInv, TypeOK
  <2>4. pc[t] = "getConnection" /\ pools' = pools
    BY DEF Lends
  <2>5. ASSUME NEW u \in Threads
        PROVE  /\ pc'[u] \notin {"getPools", "snapshot", "sweepFree"} => due'[u] = {}
               /\ \A d \in due'[u] :
                    \/ d \in closed'
                    \/ \E p \in Pools : d \in free'[p] /\ (pc'[u] = "sweepFree" => p \in pools'[u])
    <3>1. pc'[u] \notin {"getPools", "snapshot", "sweepFree"} => due[u] = {}
      BY <2>3, <2>4 DEF WInv, DueOK
    <3>2. ASSUME NEW d \in due'[u]
          PROVE  \/ d \in closed'
                 \/ \E p \in Pools : d \in free'[p] /\ (pc'[u] = "sweepFree" => p \in pools'[u])
      <4>1. d \in due[u] /\ u # t
        BY <2>1, <2>4 DEF WInv, DueOK
      <4>2. CASE d \in closed
        BY <1>3, <4>2
      <4>3. CASE d \notin closed
        <5>1. PICK p \in Pools : d \in free[p] /\ (pc[u] = "sweepFree" => p \in pools[u])
          BY <4>1, <4>3 DEF WInv, DueOK
        <5>2. d # c
          BY <2>1, <2>2, <5>1
        <5>3. QED
          BY <1>2, <2>3, <2>4, <4>1, <5>1, <5>2
      <4>4. QED
        BY <4>2, <4>3
    <3>3. QED
      BY <2>1, <3>1, <3>2
  <2>6. QED
    BY <2>5 DEF DueOK
<1>7. ExitOK'
  BY DEF Lends, WInv, ExitOK, IInv, TypeOK
<1>8. QED
  BY <1>4, <1>5, <1>6, <1>7 DEF WInv

\* A released connection goes back to the queue of its pool, or is closed.
Releases(t, r) ==
  /\ r \in held[t]
  /\ r \in Resource
  /\ server[r.conn] = r.asked
  /\ held' = [held EXCEPT ![t] = @ \ {r}]
  /\ \/ /\ r.conn \notin closed
        /\ free' = [free EXCEPT ![r.pool] = @ \cup {r.conn}]
        /\ UNCHANGED closed
     \/ closed' = closed \cup {r.conn} /\ UNCHANGED free
  /\ UNCHANGED <<server, pc, pools, due, ended>>

LEMMA ReleasingStep ==
  ASSUME IInv, NEW t \in Threads, NEW r \in held[t], Release(t, r)
  PROVE  Releases(t, r)
BY DEF Release, Releases, IInv, TypeOK, RightServer

LEMMA ReleasingPlaces ==
  ASSUME IInv, WInv, NEW t \in Threads, NEW r \in held[t], Releases(t, r)
  PROVE  WInv'
<1> DEFINE c == r.conn
<1>1. c \in Conns /\ r.pool \in Pools /\ r.asked \in Strings /\ server[c] # NoString
  BY ContainerAssumption DEF Releases, Resource
<1>2. /\ \A p \in Pools : c \notin free[p]
      /\ \A u \in Threads : \A q \in held[u] : q.conn = c => u = t /\ q = r
  BY DEF WInv, PlaceOK
<1>3. \A u \in Threads : held'[u] = IF u = t THEN held[u] \ {r} ELSE held[u]
  BY DEF Releases, IInv, TypeOK
<1>4. \/ /\ closed' = closed /\ c \notin closed
         /\ \A p \in Pools : free'[p] = IF p = r.pool THEN free[p] \cup {c} ELSE free[p]
      \/ closed' = closed \cup {c} /\ \A p \in Pools : free'[p] = free[p]
  BY <1>1 DEF Releases, IInv, TypeOK
<1>5. UNCHANGED <<server, pc, pools, due, ended>>
  BY DEF Releases
<1>6. PlaceOK'
  <2>1. /\ \A d \in closed' : d \in closed \/ d = c
        /\ \A p \in Pools : \A d \in free'[p] : d \in free[p] \/ (d = c /\ p = r.pool)
        /\ c \in closed' => \A p \in Pools : c \notin free'[p]
    BY <1>2, <1>4
  <2>2. \A p, q \in Pools : \A d \in free'[p] : d \in free'[q] => p = q
    BY <1>2, <2>1 DEF WInv, PlaceOK
  <2>3. \A p \in Pools : \A d \in free'[p] : d \notin closed'
    BY <1>2, <2>1 DEF WInv, PlaceOK
  <2>4. \A d \in closed' : server'[d] # NoString
    BY <1>1, <1>5, <2>1 DEF WInv, PlaceOK
  <2>5. ASSUME NEW u \in Threads, NEW x \in held'[u]
        PROVE  /\ x.conn \in closed' => ended'
               /\ \A p \in Pools : x.conn \notin free'[p]
               /\ \A v \in Threads : \A y \in held'[v] : x.conn = y.conn => u = v /\ x = y
    <3>1. x \in held[u] /\ x.conn # c
      BY <1>2, <1>3, <2>5
    <3>2. \A v \in Threads : held'[v] \subseteq held[v]
      BY <1>3
    <3>3. QED
      BY <1>5, <2>1, <3>1, <3>2 DEF WInv, PlaceOK
  <2>6. QED
    BY <2>2, <2>3, <2>4, <2>5 DEF PlaceOK
<1>7. NoneLost'
  <2>1. c \in closed' \/ \E p \in Pools : c \in free'[p]
    BY <1>1, <1>4
  <2>2. \A u \in Threads : \A x \in held[u] : x.conn # c => x \in held'[u]
    BY <1>3
  <2>3. closed \subseteq closed' /\ \A p \in Pools : free[p] \subseteq free'[p]
    BY <1>4
  <2>4. ASSUME NEW d \in Conns, server[d] # NoString, d # c
        PROVE  \/ d \in closed'
               \/ \E p \in Pools : d \in free'[p]
               \/ \E u \in Threads : \E x \in held'[u] : x.conn = d
    BY <2>2, <2>3, <2>4 DEF WInv, NoneLost
  <2>5. QED
    BY <1>5, <2>1, <2>4 DEF NoneLost
<1>8. DueOK'
  <2>1. closed \subseteq closed' /\ \A p \in Pools : free[p] \subseteq free'[p]
    BY <1>4
  <2>2. QED
    BY <1>5, <2>1 DEF WInv, DueOK
<1>9. ExitOK'
  BY <1>5 DEF WInv, ExitOK
<1>10. QED
  BY <1>6, <1>7, <1>8, <1>9 DEF WInv

\* The waiting connections of a pool are closed, and at the exit of the process a
\* set of lent ones.
Closes(p, E) ==
  /\ p \in Pools
  /\ closed' = closed \cup free[p] \cup E
  /\ \A q \in Pools : free'[q] = IF q = p THEN {} ELSE free[q]
  /\ E # {} => ended
  /\ \A c \in E : \E t \in Threads : \E r \in held[t] : r.conn = c
  /\ \A t \in Threads : \A q \in pools[t] : q # p => q \in pools'[t]
  /\ UNCHANGED <<server, held, pc, due, ended>>

LEMMA ClosingStep ==
  ASSUME IInv, WInv, NEW t \in Threads, SweepFree(t) \/ CloseAll(t)
  PROVE  \E p \in Pools : \E E \in SUBSET Conns : Closes(p, E)
<1>1. CASE SweepFree(t)
  <2>1. PICK p \in Pools :
          /\ closed' = closed \cup free[p]
          /\ free' = [free EXCEPT ![p] = {}]
          /\ pools' = [pools EXCEPT ![t] = @ \ {p}]
    BY <1>1 DEF SweepFree
  <2>2. UNCHANGED <<server, held, pc, due, ended>>
    BY <1>1 DEF SweepFree
  <2>3. Closes(p, {})
    BY <2>1, <2>2 DEF Closes, IInv, TypeOK
  <2>4. QED
    BY <2>3
<1>2. CASE CloseAll(t)
  <2>1. PICK p \in pools[t] :
          /\ closed' = closed \cup free[p] \cup LentFrom(p)
          /\ free' = [free EXCEPT ![p] = {}]
          /\ pools' = [pools EXCEPT ![t] = @ \ {p}]
    BY <1>2 DEF CloseAll
  <2>2. UNCHANGED <<server, held, pc, due, ended>> /\ ended
    BY <1>2 DEF CloseAll, WInv, ExitOK
  <2>3. p \in Pools /\ LentFrom(p) \in SUBSET Conns
    BY <2>1 DEF IInv, TypeOK, NoNullSwept, Resource, LentFrom
  <2>4. \A c \in LentFrom(p) : \E u \in Threads : \E r \in held[u] : r.conn = c
    BY DEF LentFrom
  <2>5. Closes(p, LentFrom(p))
    BY <2>1, <2>2, <2>3, <2>4 DEF Closes, IInv, TypeOK
  <2>6. QED
    BY <2>3, <2>5
<1>3. QED
  BY <1>1, <1>2

LEMMA ClosingPlaces ==
  ASSUME IInv, WInv, NEW p \in Pools, NEW E \in SUBSET Conns, Closes(p, E)
  PROVE  WInv'
<1>1. \A c \in free[p] : c \in Conns /\ server[c] # NoString
  BY DEF IInv, TypeOK, HomeOK
<1>2. \A c \in E : server[c] # NoString
  <2>1. \A t \in Threads : \A r \in held[t] : r.asked \in Strings /\ server[r.conn] = r.asked
    BY DEF IInv, TypeOK, Resource, RightServer
  <2>2. QED
    BY <2>1, ContainerAssumption DEF Closes
<1>3. \A c : c \in closed' <=> c \in closed \/ c \in free[p] \/ c \in E
  BY DEF Closes
<1>4. PlaceOK'
  <2>1. \A q, o \in Pools : \A d \in free'[q] : d \in free'[o] => q = o
    BY DEF Closes, WInv, PlaceOK
  <2>2. \A q \in Pools : \A d \in free'[q] : d \notin closed'
    BY <1>3 DEF Closes, WInv, PlaceOK
  <2>3. \A d \in closed' : server'[d] # NoString
    BY <1>1, <1>2, <1>3 DEF Closes, WInv, PlaceOK
  <2>4. ASSUME NEW u \in Threads, NEW x \in held'[u]
        PROVE  /\ x.conn \in closed' => ended'
               /\ \A q \in Pools : x.conn \notin free'[q]
               /\ \A v \in Threads : \A y \in held'[v] : x.conn = y.conn => u = v /\ x = y
    BY <1>3 DEF Closes, WInv, PlaceOK
  <2>5. QED
    BY <2>1, <2>2, <2>3, <2>4 DEF PlaceOK
<1>5. NoneLost'
  BY <1>3 DEF Closes, WInv, NoneLost
<1>6. ExitOK'
  BY DEF Closes, WInv, ExitOK
<1>7. DueOK'
  <2>1. ASSUME NEW u \in Threads, NEW c \in due'[u]
        PROVE  \/ c \in closed'
               \/ \E q \in Pools : c \in free'[q] /\ (pc'[u] = "sweepFree" => q \in pools'[u])
    <3>1. c \in due[u]
      BY <2>1 DEF Closes
    <3>2. CASE c \in closed
      BY <1>3, <3>2
    <3>3. CASE c \notin closed
      <4>1. PICK q \in Pools : c \in free[q] /\ (pc[u] = "sweepFree" => q \in pools[u])
        BY <3>1, <3>3 DEF WInv, DueOK
      <4>2. CASE q = p
        BY <1>3, <4>1, <4>2
      <4>3. CASE q # p
        BY <4>1, <4>3 DEF Closes
      <4>4. QED
        BY <4>2, <4>3
    <3>4. QED
      BY <3>2, <3>3
  <2>2. QED
    BY <2>1 DEF Closes, WInv, DueOK
<1>8. QED
  BY <1>4, <1>5, <1>6, <1>7 DEF WInv

\* Every step keeps the places.
LEMMA StepWInv == IInv /\ WInv /\ [Next]_vars => WInv'
<1> SUFFICES ASSUME IInv, WInv, [Next]_vars
             PROVE  WInv'
  OBVIOUS
<1>1. ASSUME NEW t \in Threads, GetConnection(t) \/ OpenConnection(t)
      PROVE  WInv'
  BY <1>1, LendingStep, LendingPlaces
<1>2. ASSUME NEW t \in Threads, NEW r \in held[t], Release(t, r)
      PROVE  WInv'
  BY <1>2, ReleasingStep, ReleasingPlaces
<1>3. ASSUME NEW t \in Threads, SweepFree(t) \/ CloseAll(t)
      PROVE  WInv'
  BY <1>3, ClosingStep, ClosingPlaces
<1>4. CASE UNCHANGED vars
  BY <1>4 DEF vars, WInv, PlaceOK, NoneLost, ExitOK, DueOK
<1>5. QED
  BY <1>1, <1>2, <1>3, <1>4, ContainerPlaces DEF Next, Step

\* Every connection that was opened is in exactly one place, in every state.
THEOREM Places == Spec => []WInv
<1>1. QED
  BY InitWInv, StepWInv, Invariance, PTL DEF Spec

\* pg_connection_pool_sweep_free returns when every connection that was free at the
\* call is closed, or was lent meanwhile.
THEOREM SweepComplete == Spec => SweptAllFree
<1>1. WInv => \A t \in Threads : SweepFreeReturns(t) => due[t] \subseteq closed
  BY DEF WInv, DueOK, SweepFreeReturns
<1>2. QED
  BY <1>1, Places, PTL DEF SweptAllFree, Spec

-----------------------------------------------------------------------------
(* Refinement *)

\* What Loan(s) sees of the container.
FreeOf(s)  == {c \in UNION {free[p] : p \in Pools} : server[c] = s}
LentOf(s)  == [t \in Threads |-> {r.conn : r \in {x \in held[t] : x.asked = s}}]
SpentOf(s) == {c \in closed : server[c] = s}
                \ {r.conn : r \in UNION {held[t] : t \in Threads}}

\* A connection is spent when it is closed and nobody holds it.
LEMMA SpentUnheld ==
  ASSUME NEW s \in Strings
  PROVE  /\ \A d : d \in SpentOf(s) <=> /\ d \in closed /\ server[d] = s
                                        /\ \A t \in Threads : \A r \in held[t] : r.conn # d
         /\ \A d : d \in SpentOf(s)' <=> /\ d \in closed' /\ server'[d] = s
                                         /\ \A t \in Threads : \A r \in held'[t] : r.conn # d
BY DEF SpentOf

\* The initial states agree.
LEMMA LoanInit ==
  ASSUME Init, NEW s \in Strings
  PROVE  Loan(s)!Init
BY DEF Init, Loan!Init

\* A step that moves no connection is no step of a loan.
LEMMA LoanStutters ==
  ASSUME NEW s \in Strings, UNCHANGED <<FreeOf(s), LentOf(s), SpentOf(s)>>
  PROVE  UNCHANGED Loan(s)!vars
BY DEF Loan!vars, FreeOf, LentOf, SpentOf

\* pg_pconnect borrows from the loan of its string, and from no other.
LEMMA LoanLends ==
  ASSUME IInv, WInv, NEW t \in Threads, NEW c \in Conns, NEW r \in Resource,
         Lends(t, c, r), LendsFree(t, c) \/ LendsNew(t, c), NEW s \in Strings
  PROVE  Loan(s)!Next \/ UNCHANGED Loan(s)!vars
<1>1. /\ r.conn = c /\ r.asked = asked[t]
      /\ \A u \in Threads : held'[u] = IF u = t THEN held[u] \cup {r} ELSE held[u]
      /\ closed' = closed
      /\ server'[c] = asked[t]
      /\ \A d \in Conns : d # c => server'[d] = server[d]
  BY DEF Lends, LendsFree, LendsNew, IInv, TypeOK
<1>2. c \notin closed
  BY NewIsNowhere DEF LendsFree, LendsNew, Lends, WInv, PlaceOK
<1>3. SpentOf(s)' = SpentOf(s)
  <2>1. \A d : (\A u \in Threads : \A q \in held'[u] : q.conn # d)
              <=> d # c /\ \A u \in Threads : \A q \in held[u] : q.conn # d
    BY <1>1
  <2>2. closed \subseteq Conns
    BY DEF IInv, TypeOK
  <2>3. \A d : d \in SpentOf(s)' <=> d \in SpentOf(s)
    BY <1>1, <1>2, <2>1, <2>2, SpentUnheld
  <2>4. QED
    BY <2>3
<1>4. \A p \in Pools : free'[p] = free[p] \ {c}
  <2>1. CASE LendsFree(t, c)
    BY <2>1 DEF Lends, LendsFree, WInv, PlaceOK, IInv, TypeOK
  <2>2. CASE LendsNew(t, c)
    BY <2>2, NewIsNowhere DEF LendsNew
  <2>3. QED
    BY <2>1, <2>2
<1>5. \A p \in Pools : free[p] \subseteq Conns
  BY DEF IInv, TypeOK
<1>6. FreeOf(s)' = FreeOf(s) \ {c}
  BY <1>1, <1>4, <1>5 DEF FreeOf
<1>7. CASE s = asked[t]
  <2>1. LentOf(s)' = [LentOf(s) EXCEPT ![t] = @ \cup {c}]
    <3>1. \A u \in Threads :
            LentOf(s)'[u] = IF u = t THEN LentOf(s)[u] \cup {c} ELSE LentOf(s)[u]
      BY <1>1, <1>7 DEF LentOf
    <3>2. QED
      BY <3>1 DEF LentOf
  <2>2. CASE LendsFree(t, c)
    <3>1. c \in FreeOf(s)
      BY <1>7, <2>2 DEF FreeOf, LendsFree, Lends
    <3>2. Loan(s)!LendFree(t, c)
      BY <1>3, <1>6, <2>1, <3>1 DEF Loan!LendFree, FreeOf, LentOf, SpentOf
    <3>3. QED
      BY <3>2 DEF Loan!Next
  <2>3. CASE LendsNew(t, c)
    <3>1. /\ c \notin FreeOf(s) /\ c \notin SpentOf(s)
          /\ \A u \in Threads : c \notin LentOf(s)[u]
      BY <2>3, NewIsNowhere DEF LendsNew, FreeOf, LentOf, SpentOf
    <3>2. FreeOf(s)' = FreeOf(s)
      BY <1>6, <3>1
    <3>3. Loan(s)!LendFresh(t, c)
      BY <1>3, <2>1, <3>1, <3>2
         DEF Loan!LendFresh, Loan!Fresh, Loan!Lent, FreeOf, LentOf, SpentOf
    <3>4. QED
      BY <3>3 DEF Loan!Next
  <2>4. QED
    BY <2>2, <2>3
<1>8. CASE s # asked[t]
  <2>1. c \notin FreeOf(s)
    BY <1>8, NewIsNowhere DEF LendsFree, LendsNew, FreeOf
  <2>2. LentOf(s)' = LentOf(s)
    BY <1>1, <1>8 DEF LentOf
  <2>3. QED
    BY <1>3, <1>6, <2>1, <2>2, LoanStutters
<1>9. QED
  BY <1>7, <1>8

\* A release gives back, or discards, what the loan of its string lent.
LEMMA LoanReleases ==
  ASSUME IInv, WInv, NEW t \in Threads, NEW r \in held[t], Releases(t, r), NEW s \in Strings
  PROVE  Loan(s)!Next \/ UNCHANGED Loan(s)!vars
<1>1. PICK c \in Conns : c = r.conn /\ server[c] = r.asked /\ r.pool \in Pools /\ server' = server
  BY DEF Releases, Resource
<1>2. \A u \in Threads : held'[u] = IF u = t THEN held[u] \ {r} ELSE held[u]
  BY DEF Releases, IInv, TypeOK
<1>3. \A u \in Threads : \A q \in held[u] : q.conn = c => u = t /\ q = r
  BY <1>1 DEF WInv, PlaceOK
<1>4. \A d : (\A u \in Threads : \A q \in held'[u] : q.conn # d)
            <=> d = c \/ \A u \in Threads : \A q \in held[u] : q.conn # d
  BY <1>1, <1>2, <1>3
<1>5. CASE s # r.asked
  <2>1. LentOf(s)' = LentOf(s)
    BY <1>2, <1>5 DEF LentOf
  <2>2. FreeOf(s)' = FreeOf(s)
    BY <1>1, <1>5 DEF Releases, FreeOf, IInv, TypeOK
  <2>3. SpentOf(s)' = SpentOf(s)
    <3>1. \A d : d \in SpentOf(s)' <=> d \in SpentOf(s)
      BY <1>1, <1>5, <1>4, SpentUnheld DEF Releases
    <3>2. QED
      BY <3>1
  <2>4. QED
    BY <2>1, <2>2, <2>3, LoanStutters
<1>6. CASE s = r.asked
  <2>1. c \in LentOf(s)[t]
    BY <1>1, <1>6 DEF LentOf
  <2>2. LentOf(s)' = [LentOf(s) EXCEPT ![t] = @ \ {c}]
    <3>1. \A u \in Threads :
            LentOf(s)'[u] = IF u = t THEN LentOf(s)[u] \ {c} ELSE LentOf(s)[u]
      <4>1. \A u \in Threads : \A d :
              /\ d \in LentOf(s)[u] <=> \E q \in held[u] : q.asked = s /\ d = q.conn
              /\ d \in LentOf(s)'[u] <=> \E q \in held'[u] : q.asked = s /\ d = q.conn
        BY DEF LentOf
      <4>2. \A u \in Threads : \A d :
              d \in LentOf(s)'[u] <=> d \in LentOf(s)[u] /\ (u = t => d # c)
        <5>1. ASSUME NEW u \in Threads, NEW d, u # t
              PROVE  d \in LentOf(s)'[u] <=> d \in LentOf(s)[u]
          BY <1>2, <4>1, <5>1
        <5>2. \A q : q \in held'[t] <=> q \in held[t] /\ q.conn # c
          BY <1>1, <1>2, <1>3
        <5>3. ASSUME NEW d
              PROVE  d \in LentOf(s)'[t] <=> d \in LentOf(s)[t] /\ d # c
          BY <4>1, <5>2
        <5>4. QED
          BY <5>1, <5>3
      <4>3. QED
        BY <4>2
    <3>2. QED
      BY <3>1 DEF LentOf
  <2>3. CASE /\ c \notin closed
             /\ free' = [free EXCEPT ![r.pool] = @ \cup {c}]
             /\ UNCHANGED closed
    <3>1. FreeOf(s)' = FreeOf(s) \cup {c}
      <4>1. \A d : (\E p \in Pools : d \in free'[p]) <=> (d = c \/ \E p \in Pools : d \in free[p])
        BY <1>1, <2>3 DEF IInv, TypeOK
      <4>2. QED
        BY <1>1, <1>6, <4>1 DEF FreeOf
    <3>2. SpentOf(s)' = SpentOf(s)
      <4>1. \A d : d \in SpentOf(s)' <=> d \in SpentOf(s)
        BY <1>1, <1>4, <2>3, SpentUnheld
      <4>2. QED
        BY <4>1
    <3>3. Loan(s)!GiveBack(t, c)
      BY <2>1, <2>2, <3>1, <3>2 DEF Loan!GiveBack, FreeOf, LentOf, SpentOf
    <3>4. QED
      BY <3>3 DEF Loan!Next
  <2>4. CASE closed' = closed \cup {c} /\ UNCHANGED free
    <3>1. SpentOf(s)' = SpentOf(s) \cup {c}
      <4>1. \A d : d \in SpentOf(s)' <=> d \in SpentOf(s) \/ d = c
        BY <1>1, <1>6, <1>4, <2>4, SpentUnheld
      <4>2. QED
        BY <4>1
    <3>2. FreeOf(s)' = FreeOf(s)
      BY <1>1, <2>4 DEF FreeOf
    <3>3. Loan(s)!Discard(t, c)
      BY <2>1, <2>2, <3>1, <3>2 DEF Loan!Discard, FreeOf, LentOf, SpentOf
    <3>4. QED
      BY <3>3 DEF Loan!Next
  <2>5. QED
    BY <1>1, <2>3, <2>4 DEF Releases
<1>7. QED
  BY <1>5, <1>6

\* Closing what waits in a pool closes it in its loan; what the destructor closes
\* under its borrower is still lent.
LEMMA LoanCloses ==
  ASSUME IInv, WInv, NEW p \in Pools, NEW E \in SUBSET Conns, Closes(p, E), NEW s \in Strings
  PROVE  Loan(s)!Next
<1>1. PICK C : C = {c \in free[p] : server[c] = s}
  OBVIOUS
<1>2. C \subseteq FreeOf(s) /\ C \in SUBSET Conns
  BY <1>1 DEF FreeOf, IInv, TypeOK
<1>3. FreeOf(s)' = FreeOf(s) \ C
  BY <1>1 DEF Closes, FreeOf, WInv, PlaceOK
<1>4. SpentOf(s)' = SpentOf(s) \cup C
  <2>1. \A c \in C : \A t \in Threads : \A r \in held[t] : r.conn # c
    BY <1>1 DEF WInv, PlaceOK
  <2>2. \A d : d \in closed' <=> d \in closed \/ d \in free[p] \/ d \in E
    BY DEF Closes
  <2>3. \A c \in E : \E t \in Threads : \E r \in held[t] : r.conn = c
    BY DEF Closes
  <2>4. UNCHANGED <<server, held>>
    BY DEF Closes
  <2>5. \A d : d \in SpentOf(s)' <=> d \in SpentOf(s) \/ d \in C
    BY <1>1, <2>1, <2>2, <2>3, <2>4, SpentUnheld
  <2>6. QED
    BY <2>5
<1>5. LentOf(s)' = LentOf(s)
  BY DEF Closes, LentOf
<1>6. Loan(s)!CloseFree(C)
  BY <1>2, <1>3, <1>4, <1>5 DEF Loan!CloseFree, FreeOf, LentOf, SpentOf
<1>7. QED
  BY <1>2, <1>6 DEF Loan!Next

\* Every step is a step, or none, of the loan of every string.
LEMMA LoanStep ==
  ASSUME IInv, WInv, [Next]_vars, NEW s \in Strings
  PROVE  Loan(s)!Next \/ UNCHANGED Loan(s)!vars
<1>1. ASSUME UNCHANGED <<free, server, closed, held>>
      PROVE  UNCHANGED Loan(s)!vars
  BY <1>1, LoanStutters DEF FreeOf, LentOf, SpentOf
<1>2. ASSUME NEW t \in Threads, GetConnection(t) \/ OpenConnection(t)
      PROVE  Loan(s)!Next \/ UNCHANGED Loan(s)!vars
  BY <1>2, LendingStep, LoanLends
<1>3. ASSUME NEW t \in Threads, NEW r \in held[t], Release(t, r)
      PROVE  Loan(s)!Next \/ UNCHANGED Loan(s)!vars
  BY <1>3, ReleasingStep, LoanReleases
<1>4. ASSUME NEW t \in Threads, SweepFree(t) \/ CloseAll(t)
      PROVE  Loan(s)!Next
  BY <1>4, ClosingStep, LoanCloses
<1>5. CASE UNCHANGED vars
  BY <1>1, <1>5 DEF vars
<1>6. QED
  BY <1>1, <1>2, <1>3, <1>4, <1>5, ContainerPlaces DEF Next, Step

\* The container and its pools implement ConnectionLoan for each connection string:
\* a connection of that string is lent to one resource at a time, and a closed one
\* never again.
THEOREM LoansRefined == Spec => ImplementsLoans
<1>1. Init => \A s \in Strings : Loan(s)!Init
  BY LoanInit
<1>2. IInv /\ WInv /\ [Next]_vars => \A s \in Strings : [Loan(s)!Next]_(Loan(s)!vars)
  BY LoanStep
<1>3. QED
  BY <1>1, <1>2, Invariance, Places, PTL DEF Spec, ImplementsLoans

=============================================================================

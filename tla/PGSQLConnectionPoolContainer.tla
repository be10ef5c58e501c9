-------------------- MODULE PGSQLConnectionPoolContainer --------------------
(***************************************************************************)
(* The process-wide s_connectionPoolContainer of pgsql.cpp and its clients *)
(* pg_pconnect, pg_connection_pool_sweep_free and the release of a         *)
(* persistent connection.  The container maps a connection string to its   *)
(* pool under a lock of its own; what it returns is used after that lock   *)
(* is released, and each pool has its own lock.                            *)
(*                                                                         *)
(* A method of a pool is one step here, since it runs under the lock of    *)
(* the pool: PGSQLConnectionPool has its steps, and ConnectionLoan is what *)
(* it is shown to implement.  The order of the queue is abstracted away.   *)
(*                                                                         *)
(* A thread is in at most one call, at the place pc[t]:                    *)
(*   idle                                in script code                    *)
(*   getPool, lookup, create             PGSQLConnectionPoolContainer::GetPool *)
(*   getConnection                       PGSQL::PGSQL(pool)                *)
(*   getPools, snapshot                  GetPools                          *)
(*   sweepFree                           pg_connection_pool_sweep_free     *)
(*   closeAll                            ~PGSQLConnectionPoolContainer     *)
(***************************************************************************)
EXTENDS FiniteSets

CONSTANTS
  Threads,   \* threads of the server
  Strings,   \* connection strings that scripts use
  Pools,     \* PGSQLConnectionPool objects, unallocated ones included
  Conns,     \* PQ::Connection objects, unallocated ones included
  NoThread,  \* the lock of the container is free
  NoString,  \* unallocated
  NoPool,    \* no entry in the map, or no pool at hand
  NullPool   \* the nullptr that operator[] of the map inserts

ASSUME ContainerAssumption ==
  /\ NoThread \notin Threads
  /\ NoString \notin Strings
  /\ {NoPool, NullPool} \cap Pools = {}
  /\ NoPool # NullPool

VARIABLES
  m_lock,      \* the thread inside GetPool or GetPools
  m_pools,     \* the map
  connString,  \* m_connectionString of each pool
  free,        \* m_availableConnections of each pool
  server,      \* the connection string each connection was opened with
  closed,      \* connections that were finished
  held,        \* PGSQL resources of each thread: pool, connection, string asked for
  pc,          \* where each thread is
  asked,       \* the argument of pg_pconnect
  thePool,     \* the pool GetPool returned
  pools,       \* what a sweep or the destructor has still to visit
  due,         \* ghost: connections a running sweep has to close
  ended        \* the static destructors have started

vars == <<m_lock, m_pools, connString, free, server, closed, held, pc, asked,
          thePool, pools, due, ended>>

poolVars == <<connString, free, server, closed, held, due>>

-----------------------------------------------------------------------------
Labels == {"idle", "getPool", "lookup", "create", "getConnection",
           "getPools", "snapshot", "sweepFree", "closeAll"}

Resource == [pool : Pools, conn : Conns, asked : Strings]

TypeOK ==
  /\ m_lock \in Threads \cup {NoThread}
  /\ m_pools \in [Strings -> Pools \cup {NoPool, NullPool}]
  /\ connString \in [Pools -> Strings \cup {NoString}]
  /\ free \in [Pools -> SUBSET Conns]
  /\ server \in [Conns -> Strings \cup {NoString}]
  /\ closed \subseteq Conns
  /\ held \in [Threads -> SUBSET Resource]
  /\ pc \in [Threads -> Labels]
  /\ asked \in [Threads -> Strings \cup {NoString}]
  /\ thePool \in [Threads -> Pools \cup {NoPool}]
  /\ pools \in [Threads -> SUBSET (Pools \cup {NullPool})]
  /\ due \in [Threads -> SUBSET Conns]
  /\ ended \in BOOLEAN

Init ==
  /\ m_lock = NoThread
  /\ m_pools = [s \in Strings |-> NoPool]
  /\ connString = [p \in Pools |-> NoString]
  /\ free = [p \in Pools |-> {}]
  /\ server = [c \in Conns |-> NoString]
  /\ closed = {}
  /\ held = [t \in Threads |-> {}]
  /\ pc = [t \in Threads |-> "idle"]
  /\ asked = [t \in Threads |-> NoString]
  /\ thePool = [t \in Threads |-> NoPool]
  /\ pools = [t \in Threads |-> {}]
  /\ due = [t \in Threads |-> {}]
  /\ ended = FALSE

-----------------------------------------------------------------------------
Goto(t, label) == pc' = [pc EXCEPT ![t] = label]

\* Mutant: GetPool and GetPools without the lock.
MutantLock(t, from, to) ==
  /\ pc[t] = from
  /\ UNCHANGED m_lock
  /\ Goto(t, to)

Lock(t, from, to) ==
  /\ pc[t] = from
  /\ m_lock = NoThread
  /\ m_lock' = t
  /\ Goto(t, to)

Unlock(t, to) ==
  /\ m_lock' = NoThread
  /\ Goto(t, to)

-----------------------------------------------------------------------------
(* pg_pconnect *)

CallPConnect(t, s) ==
  /\ ~ended
  /\ pc[t] = "idle"
  /\ asked' = [asked EXCEPT ![t] = s]
  /\ Goto(t, "getPool")
  /\ UNCHANGED <<m_lock, m_pools, poolVars, thePool, pools, ended>>

EnterGetPool(t) ==
  /\ Lock(t, "getPool", "lookup")
  /\ UNCHANGED <<m_pools, poolVars, asked, thePool, pools, ended>>

\* Mutant: the key leaves out what tells two strings apart.
MutantFindPool(t) ==
  /\ pc[t] = "lookup"
  /\ \E s \in Strings : /\ m_pools[s] \in Pools
                       /\ thePool' = [thePool EXCEPT ![t] = m_pools[s]]
  /\ Unlock(t, "getConnection")
  /\ UNCHANGED <<m_pools, poolVars, asked, pools, ended>>

\* Mutant: the reference is returned without the test for null.
MutantFindPoolUntested(t) ==
  /\ pc[t] = "lookup"
  /\ thePool' = [thePool EXCEPT ![t] = IF m_pools[asked[t]] \in Pools
                                      THEN m_pools[asked[t]] ELSE NullPool]
  /\ Unlock(t, "getConnection")
  /\ UNCHANGED <<m_pools, poolVars, asked, pools, ended>>

\* auto pool = m_pools[connString]: a string without an entry gets a nullptr.
FindPool(t) ==
  LET s == asked[t]
  IN  /\ pc[t] = "lookup"
      /\ m_pools[s] \in Pools
      /\ thePool' = [thePool EXCEPT ![t] = m_pools[s]]
      /\ Unlock(t, "getConnection")
      /\ UNCHANGED <<m_pools, poolVars, asked, pools, ended>>

MissPool(t) ==
  /\ pc[t] = "lookup"
  /\ m_pools[asked[t]] \notin Pools
  /\ m_pools' = [m_pools EXCEPT ![asked[t]] = NullPool]
  /\ Goto(t, "create")
  /\ UNCHANGED <<m_lock, poolVars, asked, thePool, pools, ended>>

CreatePool(t) ==
  /\ pc[t] = "create"
  /\ \E p \in Pools :
       /\ connString[p] = NoString
       /\ connString' = [connString EXCEPT ![p] = asked[t]]
       /\ m_pools' = [m_pools EXCEPT ![asked[t]] = p]
       /\ thePool' = [thePool EXCEPT ![t] = p]
  /\ Unlock(t, "getConnection")
  /\ UNCHANGED <<free, server, closed, held, asked, pools, due, ended>>

\* The PGSQL constructor stores the connection it was lent, and its pool.
Hold(t, c) ==
  held' = [held EXCEPT ![t] =
             @ \cup {[pool |-> thePool[t], conn |-> c, asked |-> asked[t]]}]

LeavePConnect(t) ==
  /\ Goto(t, "idle")
  /\ asked' = [asked EXCEPT ![t] = NoString]
  /\ thePool' = [thePool EXCEPT ![t] = NoPool]

\* GetConnection lends a waiting connection when there is one ...
GetConnection(t) ==
  /\ pc[t] = "getConnection"
  /\ \E c \in free[thePool[t]] :
       /\ free' = [free EXCEPT ![thePool[t]] = @ \ {c}]
       /\ Hold(t, c)
       /\ due' = [u \in Threads |-> due[u] \ {c}]
  /\ LeavePConnect(t)
  /\ UNCHANGED <<m_lock, m_pools, connString, server, closed, pools, ended>>

\* ... else it opens one with the connection string of the pool ...
OpenConnection(t) ==
  /\ pc[t] = "getConnection"
  /\ free[thePool[t]] = {}
  /\ \E c \in Conns :
       /\ server[c] = NoString
       /\ server' = [server EXCEPT ![c] = connString[thePool[t]]]
       /\ Hold(t, c)
  /\ LeavePConnect(t)
  /\ UNCHANGED <<m_lock, m_pools, connString, free, closed, pools, due, ended>>

\* ... and raises an error when that fails.  The new connection is finished
\* before anybody sees it (PGSQLConnectionPool, ConnectFailed): no state here.
OpenFails(t) ==
  /\ pc[t] = "getConnection"
  /\ free[thePool[t]] = {}
  /\ LeavePConnect(t)
  /\ UNCHANGED <<m_lock, m_pools, poolVars, pools, ended>>

-----------------------------------------------------------------------------
(* pg_close, or the end of the request *)

\* Mutant: the queue takes the connection whatever its status.
MutantRelease(t, r) ==
  /\ pc[t] = "idle"
  /\ r \in held[t]
  /\ held' = [held EXCEPT ![t] = @ \ {r}]
  /\ free' = [free EXCEPT ![r.pool] = @ \cup {r.conn}]
  /\ UNCHANGED <<m_lock, m_pools, connString, server, closed, pc, asked, thePool, pools, due, ended>>

\* Release: the pool keeps the connection if it is OK, else closes it.  One
\* that the destructor has finished meanwhile is not OK; finish() is idempotent.
Release(t, r) ==
  /\ pc[t] = "idle"
  /\ r \in held[t]
  /\ held' = [held EXCEPT ![t] = @ \ {r}]
  /\ \/ /\ r.conn \notin closed
        /\ free' = [free EXCEPT ![r.pool] = @ \cup {r.conn}]
        /\ UNCHANGED closed
     \/ /\ closed' = closed \cup {r.conn}
        /\ UNCHANGED free
  /\ UNCHANGED <<m_lock, m_pools, connString, server, pc, asked, thePool, pools, due, ended>>

-----------------------------------------------------------------------------
(* pg_connection_pool_sweep_free *)

CallSweepFree(t) ==
  /\ ~ended
  /\ pc[t] = "idle"
  /\ due' = [due EXCEPT ![t] = UNION {free[p] : p \in Pools}]
  /\ Goto(t, "getPools")
  /\ UNCHANGED <<m_lock, m_pools, connString, free, server, closed, held,
                 asked, thePool, pools, ended>>

EnterGetPools(t) ==
  /\ Lock(t, "getPools", "snapshot")
  /\ UNCHANGED <<m_pools, poolVars, asked, thePool, pools, ended>>

\* Mutant: the loop starts at the second entry.
MutantMapped ==
  LET all == {m_pools[s] : s \in Strings} \ {NoPool}
  IN  {p \in all : p # CHOOSE q \in all : TRUE}

\* The second members of the entries of the map.
Mapped == {m_pools[s] : s \in Strings} \ {NoPool}

GetPools(t) ==
  /\ pc[t] = "snapshot"
  /\ pools' = [pools EXCEPT ![t] = Mapped]
  /\ Unlock(t, "sweepFree")
  /\ UNCHANGED <<m_pools, poolVars, asked, thePool, ended>>

\* CloseFreeConnections on the next pool.
SweepFree(t) ==
  /\ pc[t] = "sweepFree"
  /\ \E p \in pools[t] \cap Pools :
       /\ closed' = closed \cup free[p]
       /\ free' = [free EXCEPT ![p] = {}]
       /\ pools' = [pools EXCEPT ![t] = @ \ {p}]
  /\ UNCHANGED <<m_lock, m_pools, connString, server, held, pc, asked, thePool, due, ended>>

SweepFreeReturns(t) ==
  /\ pc[t] = "sweepFree"
  /\ pools[t] = {}
  /\ due' = [due EXCEPT ![t] = {}]
  /\ Goto(t, "idle")
  /\ UNCHANGED <<m_lock, m_pools, connString, free, server, closed, held,
                 asked, thePool, pools, ended>>

-----------------------------------------------------------------------------
(* ~PGSQLConnectionPoolContainer, when the process exits *)

\* On a thread that serves no request, without the lock, whatever the other
\* threads are doing.  An entry that GetPool inserts meanwhile, or its nullptr,
\* is a data race with the walk over the map: the walk leaves it out here.
DestroyContainer(t) ==
  /\ ~ended
  /\ pc[t] = "idle"
  /\ held[t] = {}
  /\ ended' = TRUE
  /\ pools' = [pools EXCEPT ![t] = Mapped \cap Pools]
  /\ Goto(t, "closeAll")
  /\ UNCHANGED <<m_lock, m_pools, poolVars, asked, thePool>>

LentFrom(p) ==
  {r.conn : r \in {x \in UNION {held[u] : u \in Threads} : x.pool = p}}

\* CloseAllConnections on the next pool: what waits is finished, and so is what
\* is lent, under its borrower, since m_connections has both.
CloseAll(t) ==
  /\ pc[t] = "closeAll"
  /\ \E p \in pools[t] :
       /\ closed' = closed \cup free[p] \cup LentFrom(p)
       /\ free' = [free EXCEPT ![p] = {}]
       /\ pools' = [pools EXCEPT ![t] = @ \ {p}]
  /\ UNCHANGED <<m_lock, m_pools, connString, server, held, pc, asked, thePool, due, ended>>

DestroyReturns(t) ==
  /\ pc[t] = "closeAll"
  /\ pools[t] = {}
  /\ Goto(t, "idle")
  /\ UNCHANGED <<m_lock, m_pools, poolVars, asked, thePool, pools, ended>>

Step(t) ==
  \/ \E s \in Strings : CallPConnect(t, s)
  \/ EnterGetPool(t)
  \/ FindPool(t)
  \/ MissPool(t)
  \/ CreatePool(t)
  \/ GetConnection(t)
  \/ OpenConnection(t)
  \/ OpenFails(t)
  \/ \E r \in held[t] : Release(t, r)
  \/ CallSweepFree(t)
  \/ EnterGetPools(t)
  \/ GetPools(t)
  \/ SweepFree(t)
  \/ SweepFreeReturns(t)
  \/ DestroyContainer(t)
  \/ CloseAll(t)
  \/ DestroyReturns(t)

Next == \E t \in Threads : Step(t)

Spec == Init /\ [][Next]_vars

-----------------------------------------------------------------------------
(* Safety *)

\* OnePoolPerString: two first calls of pg_pconnect with the same string do not
\* create two pools, of which the map would lose one with its connections.
OnePoolPerString ==
  \A p \in Pools : connString[p] # NoString => m_pools[connString[p]] = p

\* RightServer: whatever was released, by whom and to which pool, a resource
\* talks to the server its script asked for.
RightServer ==
  \A t \in Threads : \A r \in held[t] : server[r.conn] = r.asked

\* NoNullSwept: a sweep never meets the nullptr that GetPool puts into the map
\* before the pool of a new connection string exists; it would dereference it.
NoNullSwept == \A t \in Threads : NullPool \notin pools[t]

\* SweptAllFree: when pg_connection_pool_sweep_free returns, every connection
\* that was free when it was called is closed, unless it was lent meanwhile.
SweptAllFree ==
  [][\A t \in Threads : SweepFreeReturns(t) => due[t] \subseteq closed]_vars

-----------------------------------------------------------------------------
(* Refinement *)

\* Seen from one connection string, the container and its pools are a loan of
\* connections: README.md, "a different connection pool for each connection
\* string".  What the destructor finishes under its borrower is lent until the
\* borrower releases it, and spent then.
Loan(s) == INSTANCE ConnectionLoan WITH
  free  <- {c \in UNION {free[p] : p \in Pools} : server[c] = s},
  lent  <- [t \in Threads |-> {r.conn : r \in {x \in held[t] : x.asked = s}}],
  spent <- {c \in closed : server[c] = s}
             \ {r.conn : r \in UNION {held[t] : t \in Threads}}

\* Loan(s)!Spec for every s, with the quantifier moved inside the box.
ImplementsLoans ==
  /\ \A s \in Strings : Loan(s)!Init
  /\ [][\A s \in Strings : [Loan(s)!Next]_(Loan(s)!vars)]_vars

=============================================================================

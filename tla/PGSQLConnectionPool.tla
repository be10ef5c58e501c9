------------------------ MODULE PGSQLConnectionPool ------------------------
(***************************************************************************)
(* One PGSQLConnectionPool of pgsql.cpp: the connections kept for one      *)
(* connection string and lent to the request threads of the server.        *)
(*                                                                         *)
(* Every method holds m_lock from entry to return (or to the exception     *)
(* raise_error throws: the Lock object is a scope guard).  The steps below *)
(* a lock acquisition are still separate actions, because the accessors    *)
(* that pg_connection_pool_stat calls read the fields without the lock     *)
(* (module PoolStat) and because a connection is opened, over the network, *)
(* with the lock held.                                                     *)
(*                                                                         *)
(* A thread is in at most one call; its label pc[t] names the place:       *)
(*   idle      in script code, or in no request at all                     *)
(*   get, pop, connect, register         GetConnection                     *)
(*   release, file                       Release                           *)
(*   closeFree, drainFree                CloseFreeConnections              *)
(*   closeAll, drainAll, finishAll       CloseAllConnections               *)
(* get, release, closeFree and closeAll wait for m_lock.                   *)
(***************************************************************************)
EXTENDS Integers, Sequences, FiniteSets, Functions

CONSTANTS
  Threads,             \* threads of the server
  Conns,               \* PQ::Connection objects, those not yet allocated included
  NoThread,            \* m_lock is free
  NoConn,              \* a thread has no connection in hand
  MaximumConnections,  \* constructor argument; GetPool leaves it at -1
  MaxRequests          \* bound: calls of GetConnection in a behaviour

ASSUME PoolAssumption ==
  /\ NoThread \notin Threads
  /\ NoConn \notin Conns
  /\ MaximumConnections \in Int
  /\ MaxRequests \in Nat

VARIABLES
  m_lock,                  \* the thread inside a locked method, or NoThread
  m_availableConnections,  \* queue of connections waiting for a borrower
  m_connections,           \* connections the pool knows of
  counter,                 \* the five statistics of the pool
  status,                  \* what PQ::Connection says of each connection
  held,                    \* connections the PGSQL resources of a thread point to
  inHand,                  \* the connection a thread is opening or giving back
  pc,                      \* where each thread is
  exiting                  \* the static destructors have started

vars == <<m_lock, m_availableConnections, m_connections, counter, status,
          held, inHand, pc, exiting>>

-----------------------------------------------------------------------------
(* Types *)

\* "new" is not allocated yet.  CONNECTION_OK and CONNECTION_BAD are what
\* PQstatus returns once PQconnectdb has returned; "finished" is m_conn = 0,
\* for which status() answers CONNECTION_BAD.
Status == {"new", "OK", "BAD", "finished"}

Labels == {"idle", "get", "pop", "connect", "register", "release", "file",
           "closeFree", "drainFree", "closeAll", "drainAll", "finishAll"}

CounterName == {"requested", "opened", "sweeped", "released", "errors"}

TypeOK ==
  /\ m_lock \in Threads \cup {NoThread}
  /\ m_availableConnections \in Seq(Conns)
  /\ m_connections \subseteq Conns
  /\ counter \in [CounterName -> Nat]
  /\ status \in [Conns -> Status]
  /\ held \in [Threads -> SUBSET Conns]
  /\ inHand \in [Threads -> Conns \cup {NoConn}]
  /\ pc \in [Threads -> Labels]
  /\ exiting \in BOOLEAN

-----------------------------------------------------------------------------
(* Helpers *)

Queued == Range(m_availableConnections)

Held == UNION {held[t] : t \in Threads}

\* Mutant: any allocated connection passes.
MutantIsOK(c) == status[c] # "new"

\* The test both GetConnection and Release make: conn && status() == CONNECTION_OK.
IsOK(c) == status[c] = "OK"

\* Mutant: the socket is left open.
MutantFinish(c) == status' = [status EXCEPT ![c] = IF @ = "new" THEN "BAD" ELSE @]

\* finish() is idempotent: it does nothing once m_conn is 0.
Finish(c) == status' = [status EXCEPT ![c] = "finished"]

Goto(t, label) == pc' = [pc EXCEPT ![t] = label]

Lock(t, from, to) ==
  /\ pc[t] = from
  /\ m_lock = NoThread
  /\ m_lock' = t
  /\ Goto(t, to)

\* Mutant: a bare mutex that the way out forgets to unlock.
MutantReturn(t) ==
  /\ UNCHANGED m_lock
  /\ Goto(t, "idle")

\* The Lock object goes out of scope: on return, and when raise_error throws.
Return(t) ==
  /\ m_lock' = NoThread
  /\ Goto(t, "idle")

\* A method is called from script code and waits for the lock.
Call(t, label) ==
  /\ pc[t] = "idle"
  /\ Goto(t, label)
  /\ UNCHANGED <<m_lock, m_availableConnections, m_connections, counter,
                 status, held>>

\* Mutant: decrements.
MutantCount(name) == counter' = [counter EXCEPT ![name] = @ - 1]

Count(name) == counter' = [counter EXCEPT ![name] = @ + 1]

\* Mutant: the entry stays.
MutantSweepConnection(c) ==
  /\ m_connections' = m_connections \cup {c}
  /\ Count("sweeped")

\* std::find and erase; the counter moves whether or not it was found.
SweepConnection(c) ==
  /\ m_connections' = m_connections \ {c}
  /\ Count("sweeped")

\* Mutant: front() without pop() while more than one connection waits.
MutantPopFront ==
  m_availableConnections' =
    IF Len(m_availableConnections) > 1 THEN m_availableConnections
                                       ELSE Tail(m_availableConnections)

\* front() was read before.
PopFront == m_availableConnections' = Tail(m_availableConnections)

\* Mutant: the resource keeps its pointer and releases again when swept.
MutantDropPointer(t, c) == c \in Conns /\ held' = [held EXCEPT ![t] = @]

\* PGSQL::ReleaseConnection sets m_conn to nullptr once Release has returned.
DropPointer(t, c) == held' = [held EXCEPT ![t] = @ \ {c}]

-----------------------------------------------------------------------------
Init ==
  /\ m_lock = NoThread
  /\ m_availableConnections = <<>>
  /\ m_connections = {}
  /\ counter = [n \in CounterName |-> 0]
  /\ status = [c \in Conns |-> "new"]
  /\ held = [t \in Threads |-> {}]
  /\ inHand = [t \in Threads |-> NoConn]
  /\ pc = [t \in Threads |-> "idle"]
  /\ exiting = FALSE

-----------------------------------------------------------------------------
(* GetConnection, called by the constructor of a pooled PGSQL *)

CallGetConnection(t) ==
  /\ ~exiting
  /\ counter["requested"] + Cardinality({u \in Threads : pc[u] = "get"}) < MaxRequests
  /\ Call(t, "get")
  /\ UNCHANGED <<inHand, exiting>>

EnterGetConnection(t) ==
  /\ Lock(t, "get", "pop")
  /\ Count("requested")
  /\ UNCHANGED <<m_availableConnections, m_connections, status, held, inHand, exiting>>

\* One turn of the while loop: the front is lent if it is OK, else it is swept
\* and finished and the loop goes on.
TakeAvailable(t) ==
  /\ pc[t] = "pop"
  /\ m_availableConnections # <<>>
  /\ PopFront
  /\ LET c == Head(m_availableConnections)
     IN  IF IsOK(c)
         THEN /\ held' = [held EXCEPT ![t] = @ \cup {c}]
              /\ Return(t)
              /\ UNCHANGED <<m_connections, counter, status>>
         ELSE /\ SweepConnection(c)
              /\ Finish(c)
              /\ UNCHANGED <<m_lock, held, pc>>
  /\ UNCHANGED <<inHand, exiting>>

\* The test of the code before "The connection pool is full".
RaisesPoolFull ==
  MaximumConnections > 0 /\ Cardinality(m_connections) < MaximumConnections

NoneAvailable(t) ==
  /\ pc[t] = "pop"
  /\ m_availableConnections = <<>>
  /\ IF RaisesPoolFull
     THEN Return(t)
     ELSE Goto(t, "connect") /\ UNCHANGED m_lock
  /\ UNCHANGED <<m_availableConnections, m_connections, counter, status, held, inHand, exiting>>

Connected(t) ==
  /\ pc[t] = "connect"
  /\ \E c \in Conns :
       /\ status[c] = "new"
       /\ status' = [status EXCEPT ![c] = "OK"]
       /\ inHand' = [inHand EXCEPT ![t] = c]
  /\ Count("opened")
  /\ Goto(t, "register")
  /\ UNCHANGED <<m_lock, m_availableConnections, m_connections, held, exiting>>

\* Mutant: the failure is not counted.
MutantConnectFailed(t) ==
  /\ pc[t] = "connect"
  /\ \E c \in Conns : status[c] = "new" /\ Finish(c)
  /\ Return(t)
  /\ UNCHANGED <<m_availableConnections, m_connections, counter, held, inHand, exiting>>

\* The new connection is CONNECTION_BAD: counted, finished before anybody else
\* sees it, and raise_error unwinds the call.
ConnectFailed(t) ==
  /\ pc[t] = "connect"
  /\ \E c \in Conns : status[c] = "new" /\ Finish(c)
  /\ Count("errors")
  /\ Return(t)
  /\ UNCHANGED <<m_availableConnections, m_connections, held, inHand, exiting>>

Register(t) ==
  /\ pc[t] = "register"
  /\ m_connections' = m_connections \cup {inHand[t]}
  /\ held' = [held EXCEPT ![t] = @ \cup {inHand[t]}]
  /\ inHand' = [inHand EXCEPT ![t] = NoConn]
  /\ Return(t)
  /\ UNCHANGED <<m_availableConnections, counter, status, exiting>>

-----------------------------------------------------------------------------
(* Release, called by PGSQL::ReleaseConnection, which then drops its pointer *)

CallRelease(t, c) ==
  /\ c \in held[t]
  /\ inHand' = [inHand EXCEPT ![t] = c]
  /\ Call(t, "release")
  /\ UNCHANGED exiting

EnterRelease(t) ==
  /\ Lock(t, "release", "file")
  /\ Count("released")
  /\ UNCHANGED <<m_availableConnections, m_connections, status, held, inHand, exiting>>

FileReleased(t) ==
  /\ pc[t] = "file"
  /\ LET c == inHand[t]
     IN  /\ IF IsOK(c)
            THEN /\ m_availableConnections' = Append(m_availableConnections, c)
                 /\ UNCHANGED <<m_connections, counter, status>>
            ELSE /\ Finish(c)
                 /\ SweepConnection(c)
                 /\ UNCHANGED m_availableConnections
         /\ DropPointer(t, c)
  /\ inHand' = [inHand EXCEPT ![t] = NoConn]
  /\ Return(t)
  /\ UNCHANGED exiting

-----------------------------------------------------------------------------
(* CloseFreeConnections, called by pg_connection_pool_sweep_free *)

CallCloseFree(t) ==
  /\ ~exiting
  /\ Call(t, "closeFree")
  /\ UNCHANGED <<inHand, exiting>>

EnterCloseFree(t) ==
  /\ Lock(t, "closeFree", "drainFree")
  /\ UNCHANGED <<m_availableConnections, m_connections, counter, status, held, inHand, exiting>>

\* One turn of the loop that both closing methods begin with.
DrainFront(t) ==
  /\ pc[t] \in {"drainFree", "drainAll"}
  /\ m_availableConnections # <<>>
  /\ Finish(Head(m_availableConnections))
  /\ PopFront
  /\ UNCHANGED <<m_lock, m_connections, counter, held, inHand, pc, exiting>>

EndCloseFree(t) ==
  /\ pc[t] = "drainFree"
  /\ m_availableConnections = <<>>
  /\ Return(t)
  /\ UNCHANGED <<m_availableConnections, m_connections, counter, status, held, inHand, exiting>>

-----------------------------------------------------------------------------
(* CloseAllConnections, called by the destructor of the pool container when *)
(* the process exits, on a thread that serves no request.                   *)

Exit(t) ==
  /\ ~exiting
  /\ held[t] = {}
  /\ Call(t, "closeAll")
  /\ exiting' = TRUE
  /\ UNCHANGED inHand

EnterCloseAll(t) ==
  /\ Lock(t, "closeAll", "drainAll")
  /\ UNCHANGED <<m_availableConnections, m_connections, counter, status, held, inHand, exiting>>

EndDrainAll(t) ==
  /\ pc[t] = "drainAll"
  /\ m_availableConnections = <<>>
  /\ Goto(t, "finishAll")
  /\ UNCHANGED <<m_lock, m_availableConnections, m_connections, counter, status, held, inHand, exiting>>

\* The lent connections are finished too: they are in m_connections.
FinishAll(t) ==
  /\ pc[t] = "finishAll"
  /\ status' = [c \in Conns |-> IF c \in m_connections THEN "finished" ELSE status[c]]
  /\ m_connections' = {}
  /\ Return(t)
  /\ UNCHANGED <<m_availableConnections, counter, held, inHand, exiting>>

-----------------------------------------------------------------------------
(* What a borrower does to a connection it holds *)

\* A query meets a lost server connection: libpq notices, PQstatus turns BAD.
BreakConnection(t, c) ==
  /\ pc[t] = "idle"
  /\ c \in held[t]
  /\ IsOK(c)
  /\ status' = [status EXCEPT ![c] = "BAD"]
  /\ UNCHANGED <<m_lock, m_availableConnections, m_connections, counter, held, inHand, pc, exiting>>

\* pg_connection_reset, and pg_ping on a BAD connection.  PQreset of a finished
\* connection does nothing.
ResetConnection(t, c) ==
  /\ pc[t] = "idle"
  /\ c \in held[t]
  /\ status[c] # "finished"
  /\ \E s \in {"OK", "BAD"} : status' = [status EXCEPT ![c] = s]
  /\ UNCHANGED <<m_lock, m_availableConnections, m_connections, counter, held, inHand, pc, exiting>>

-----------------------------------------------------------------------------
\* The steps of thread t that only its own code decides once it has the lock.
LockedStep(t) ==
  \/ TakeAvailable(t)
  \/ NoneAvailable(t)
  \/ Connected(t)
  \/ ConnectFailed(t)
  \/ Register(t)
  \/ FileReleased(t)
  \/ DrainFront(t)
  \/ EndCloseFree(t)
  \/ EndDrainAll(t)
  \/ FinishAll(t)

EnterStep(t) ==
  \/ EnterGetConnection(t)
  \/ EnterRelease(t)
  \/ EnterCloseFree(t)
  \/ EnterCloseAll(t)

ScriptStep(t) ==
  \/ CallGetConnection(t)
  \/ CallCloseFree(t)
  \/ Exit(t)
  \/ \E c \in Conns :
       \/ CallRelease(t, c)
       \/ BreakConnection(t, c)
       \/ ResetConnection(t, c)

Next == \E t \in Threads : LockedStep(t) \/ EnterStep(t) \/ ScriptStep(t)

Spec == Init /\ [][Next]_vars

(***************************************************************************)
(* Fairness.  A thread that holds the lock is running C++ code that only   *)
(* waits for PQconnectdb, which returns, with a connection or without.     *)
(* Nothing is assumed of which waiting thread gets the lock, nor that a    *)
(* script ever makes a call.                                               *)
(***************************************************************************)
Fairness == \A t \in Threads : WF_vars(LockedStep(t))

-----------------------------------------------------------------------------
(* Safety *)

\* ExclusiveLoan: two PGSQL resources never share a connection, a lent
\* connection is not in the queue, and no connection is queued twice.
\* (Release and the reset of m_conn after it, the pop in GetConnection.)
ExclusiveLoan ==
  /\ \A t, u \in Threads : t # u => held[t] \cap held[u] = {}
  /\ Held \cap Queued = {}
  /\ IsInjective(m_availableConnections)

\* QueuedAreOK: the queue never holds a connection that is broken or closed,
\* so GetConnection never has to skip one: its CONNECTION_BAD branch is dead
\* code as long as only borrowers touch a connection.
QueuedAreOK == \A c \in Queued : status[c] = "OK"

\* LentIsOpen: until the process exits, nobody closes a connection that is
\* lent; pg_connection_pool_sweep_free spares the connections in use.
LentIsOpen == ~exiting => \A c \in Held : status[c] # "finished"

\* NothingOrphaned: every connection that is not closed is queued, lent, or in
\* the hands of the thread that has just opened it; no server session is lost,
\* nor what libpq keeps of one that broke or could not be opened.
NothingOrphaned ==
  \A c \in Conns :
    status[c] \in {"OK", "BAD"} =>
      \/ c \in Queued \cup Held
      \/ \E t \in Threads : pc[t] = "register" /\ inHand[t] = c

\* InUseAccounted: outside the locked methods, the statistics determine how
\* many connections are lent: requested less failed less released.
InUseAccounted ==
  (m_lock = NoThread /\ MaximumConnections <= 0) =>
    Cardinality(Held) =
      counter["requested"] - counter["errors"] - counter["released"]

\* TotalAccounted: until the process exits, total_connections is what is free or
\* lent plus what sweeps of the free connections have closed and never take out
\* of m_connections, so it is no count of the open connections as README.md has
\* it; but nothing else makes it too large: every closed connection that is no
\* longer in m_connections was counted once, as an error or as swept, whatever
\* order failures, releases and sweeps come in.
TotalAccounted ==
  (m_lock = NoThread /\ ~exiting) =>
    LET closed == {c \in Conns : status[c] = "finished"}
    IN  /\ m_connections \ closed = Queued \cup Held
        /\ Cardinality(closed \ m_connections) = counter["errors"] + counter["sweeped"]

-----------------------------------------------------------------------------
(* Liveness *)

\* LockFreed: a method that got m_lock gives it back, on its error paths too;
\* otherwise every request for this connection string would hang.
LockFreed == (m_lock # NoThread) ~> (m_lock = NoThread)

-----------------------------------------------------------------------------
(* Refinement *)

\* The pool keeps the promise of ConnectionLoan: its queue is the free
\* connections, and the closed ones that nobody holds are spent.
Loan == INSTANCE ConnectionLoan WITH
          free  <- Queued,
          lent  <- held,
          spent <- {c \in Conns : status[c] = "finished"} \ Held

ImplementsLoan == Loan!Spec

=============================================================================

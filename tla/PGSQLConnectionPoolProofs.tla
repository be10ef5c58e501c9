--------------------- MODULE PGSQLConnectionPoolProofs ---------------------
(***************************************************************************)
(* What TLAPS proves of a connection pool, for any threads, connections,   *)
(* maximum and number of requests: the types, and, through one inductive   *)
(* invariant, the safety properties about who has which connection.        *)
(***************************************************************************)
EXTENDS PGSQLConnectionPool, SequenceTheorems, TLAPS

-----------------------------------------------------------------------------
(* The queue *)

\* Appending to a queue adds one element to its range.
LEMMA RangeOfAppend ==
  ASSUME NEW S, NEW s \in Seq(S), NEW e \in S
  PROVE  Range(Append(s, e)) = Range(s) \cup {e}
<1>1. /\ Append(s, e) \in Seq(S)
      /\ Len(Append(s, e)) = Len(s) + 1
      /\ \A i \in 1..Len(s) : Append(s, e)[i] = s[i]
      /\ Append(s, e)[Len(s) + 1] = e
  BY AppendProperties
<1>2. /\ DOMAIN s = 1..Len(s)
      /\ DOMAIN Append(s, e) = 1..(Len(s) + 1)
      /\ Len(s) \in Nat
  BY <1>1
<1>3. 1..(Len(s) + 1) = (1..Len(s)) \cup {Len(s) + 1}
  BY <1>2
<1>4. QED
  BY <1>1, <1>2, <1>3 DEF Range

\* Taking the front out of a queue without repetitions takes it out of the range.
LEMMA RangeOfTail ==
  ASSUME NEW S, NEW s \in Seq(S), s # <<>>, IsInjective(s)
  PROVE  /\ Head(s) \in Range(s)
         /\ Range(Tail(s)) = Range(s) \ {Head(s)}
         /\ IsInjective(Tail(s))
<1>1. /\ Tail(s) \in Seq(S)
      /\ Len(Tail(s)) = Len(s) - 1
      /\ \A i \in 1..Len(Tail(s)) : Tail(s)[i] = s[i + 1]
      /\ Head(s) = s[1]
  BY HeadTailProperties
<1>2. /\ DOMAIN s = 1..Len(s)
      /\ DOMAIN Tail(s) = 1..(Len(s) - 1)
      /\ Len(s) \in Nat \ {0}
  BY <1>1, EmptySeq, LenProperties
<1>3. \A i \in 1..Len(s) : i # 1 => i - 1 \in 1..(Len(s) - 1)
  BY <1>2
<1>4. Head(s) \in Range(s)
  BY <1>1, <1>2 DEF Range
<1>5. Range(Tail(s)) \subseteq Range(s) \ {Head(s)}
  BY <1>1, <1>2 DEF Range, IsInjective
<1>6. ASSUME NEW x \in Range(s), x # Head(s)
      PROVE  x \in Range(Tail(s))
  <2>1. PICK i \in 1..Len(s) : s[i] = x
    BY <1>2 DEF Range
  <2>2. i - 1 \in 1..(Len(s) - 1) /\ (i - 1) + 1 = i
    BY <1>1, <1>3, <1>6, <2>1
  <2>3. Tail(s)[i - 1] = x
    BY <1>1, <2>1, <2>2
  <2>4. QED
    BY <1>2, <2>2, <2>3 DEF Range
<1>7. IsInjective(Tail(s))
  BY <1>1, <1>2 DEF IsInjective
<1>8. QED
  BY <1>4, <1>5, <1>6, <1>7

\* Appending a new element keeps a queue free of repetitions.
LEMMA InjectiveAppend ==
  ASSUME NEW S, NEW s \in Seq(S), NEW e \in S,
         IsInjective(s), e \notin Range(s)
  PROVE  IsInjective(Append(s, e))
<1>1. /\ Append(s, e) \in Seq(S)
      /\ Len(Append(s, e)) = Len(s) + 1
      /\ \A i \in 1..Len(s) : Append(s, e)[i] = s[i]
      /\ Append(s, e)[Len(s) + 1] = e
  BY AppendProperties
<1>2. /\ DOMAIN s = 1..Len(s)
      /\ DOMAIN Append(s, e) = 1..(Len(s) + 1)
      /\ Len(s) \in Nat
  BY <1>1
<1>3. \A i \in 1..Len(s) : s[i] # e
  BY <1>2 DEF Range
<1>4. QED
  BY <1>1, <1>2, <1>3 DEF IsInjective

-----------------------------------------------------------------------------
(* The inductive invariant *)

\* The labels between the acquisition of m_lock and the return.
Inside == {"pop", "connect", "register", "file", "drainFree", "drainAll", "finishAll"}

\* LockHolder: the thread named by m_lock is the one inside a locked method.
LockHolder == \A t \in Threads : m_lock = t <=> pc[t] \in Inside

\* HandOK: a thread gives back only a connection it holds, and the one it has
\* just opened is still nobody's.
HandOK ==
  \A t \in Threads :
    /\ pc[t] \in {"release", "file"} => inHand[t] \in held[t]
    /\ pc[t] = "register" =>
         /\ inHand[t] \in Conns \ (Queued \cup Held)
         /\ status[inHand[t]] = "OK"

\* ClosingOK: only the exiting process closes all, and it has drained the queue
\* before it closes the rest.
ClosingOK ==
  \A t \in Threads :
    /\ pc[t] \in {"closeAll", "drainAll", "finishAll"} => exiting
    /\ pc[t] = "finishAll" => m_availableConnections = <<>>

\* KnownNotNew: a connection the pool or a resource points to is allocated.
KnownNotNew == \A c \in Queued \cup Held \cup m_connections : status[c] # "new"

IInv ==
  /\ TypeOK
  /\ LockHolder
  /\ HandOK
  /\ ClosingOK
  /\ KnownNotNew
  /\ ExclusiveLoan
  /\ QueuedAreOK
  /\ LentIsOpen
  /\ NothingOrphaned

\* The initial state satisfies the invariant.
LEMMA InitIInv == Init => IInv
<1> SUFFICES ASSUME Init PROVE IInv
  OBVIOUS
<1>1. Queued = {} /\ Held = {}
  BY DEF Init, Queued, Held, Range
<1>2. TypeOK
  <2>1. counter \in [CounterName -> Nat]
    BY DEF Init
  <2>2. status \in [Conns -> Status] /\ pc \in [Threads -> Labels]
    BY DEF Init, Status, Labels
  <2>3. m_availableConnections \in Seq(Conns)
    BY EmptySeq DEF Init
  <2>4. held \in [Threads -> SUBSET Conns] /\ inHand \in [Threads -> Conns \cup {NoConn}]
    BY DEF Init
  <2>5. QED
    BY <2>1, <2>2, <2>3, <2>4 DEF Init, TypeOK
<1>3. IsInjective(m_availableConnections)
  BY DEF Init, IsInjective
<1>4. QED
  BY PoolAssumption, <1>1, <1>2, <1>3
     DEF Init, IInv, LockHolder, HandOK, ClosingOK, KnownNotNew, ExclusiveLoan,
         QueuedAreOK, LentIsOpen, NothingOrphaned, Inside

\* The steps that move no connection: they change the lock, a label, a counter.
LEMMA QuietStep ==
  ASSUME IInv, NEW t \in Threads,
         \/ CallGetConnection(t)
         \/ EnterGetConnection(t)
         \/ NoneAvailable(t)
         \/ EnterRelease(t)
         \/ CallCloseFree(t)
         \/ EnterCloseFree(t)
         \/ EndCloseFree(t)
         \/ Exit(t)
         \/ EnterCloseAll(t)
         \/ EndDrainAll(t)
  PROVE  IInv'
<1> USE PoolAssumption
<1>1. CASE CallGetConnection(t)
  BY <1>1 DEF CallGetConnection, Lock, Return, Call, Goto, Count, Labels, Inside, CounterName, Queued, Held,
     IInv, TypeOK, LockHolder, HandOK, ClosingOK, KnownNotNew, ExclusiveLoan, QueuedAreOK, LentIsOpen, NothingOrphaned
<1>2. CASE EnterGetConnection(t)
  BY <1>2 DEF EnterGetConnection, Lock, Return, Call, Goto, Count, Labels, Inside, CounterName, Queued, Held,
     IInv, TypeOK, LockHolder, HandOK, ClosingOK, KnownNotNew, ExclusiveLoan, QueuedAreOK, LentIsOpen, NothingOrphaned
<1>3. CASE NoneAvailable(t)
  BY <1>3 DEF NoneAvailable, Lock, Return, Call, Goto, Count, Labels, Inside, CounterName, Queued, Held,
     IInv, TypeOK, LockHolder, HandOK, ClosingOK, KnownNotNew, ExclusiveLoan, QueuedAreOK, LentIsOpen, NothingOrphaned
<1>4. CASE EnterRelease(t)
  BY <1>4 DEF EnterRelease, Lock, Return, Call, Goto, Count, Labels, Inside, CounterName, Queued, Held,
     IInv, TypeOK, LockHolder, HandOK, ClosingOK, KnownNotNew, ExclusiveLoan, QueuedAreOK, LentIsOpen, NothingOrphaned
<1>5. CASE CallCloseFree(t)
  BY <1>5 DEF CallCloseFree, Lock, Return, Call, Goto, Count, Labels, Inside, CounterName, Queued, Held,
     IInv, TypeOK, LockHolder, HandOK, ClosingOK, KnownNotNew, ExclusiveLoan, QueuedAreOK, LentIsOpen, NothingOrphaned
<1>6. CASE EnterCloseFree(t)
  BY <1>6 DEF EnterCloseFree, Lock, Return, Call, Goto, Count, Labels, Inside, CounterName, Queued, Held,
     IInv, TypeOK, LockHolder, HandOK, ClosingOK, KnownNotNew, ExclusiveLoan, QueuedAreOK, LentIsOpen, NothingOrphaned
<1>7. CASE EndCloseFree(t)
  BY <1>7 DEF EndCloseFree, Lock, Return, Call, Goto, Count, Labels, Inside, CounterName, Queued, Held,
     IInv, TypeOK, LockHolder, HandOK, ClosingOK, KnownNotNew, ExclusiveLoan, QueuedAreOK, LentIsOpen, NothingOrphaned
<1>8. CASE EnterCloseAll(t)
  BY <1>8 DEF EnterCloseAll, Lock, Return, Call, Goto, Count, Labels, Inside, CounterName, Queued, Held,
     IInv, TypeOK, LockHolder, HandOK, ClosingOK, KnownNotNew, ExclusiveLoan, QueuedAreOK, LentIsOpen, NothingOrphaned
<1>9. CASE EndDrainAll(t)
  BY <1>9 DEF EndDrainAll, Lock, Return, Call, Goto, Count, Labels, Inside, CounterName, Queued, Held,
     IInv, TypeOK, LockHolder, HandOK, ClosingOK, KnownNotNew, ExclusiveLoan, QueuedAreOK, LentIsOpen, NothingOrphaned
<1>10. CASE Exit(t)
  BY <1>10 DEF Exit, Lock, Return, Call, Goto, Count, Labels, Inside, CounterName, Queued, Held,
     IInv, TypeOK, LockHolder, HandOK, ClosingOK, KnownNotNew, ExclusiveLoan, QueuedAreOK, LentIsOpen, NothingOrphaned
<1>11. QED
  BY <1>1, <1>2, <1>3, <1>4, <1>5, <1>6, <1>7, <1>8, <1>9, <1>10

\* GetConnection: a connection that could not be opened is closed before the
\* pool or a resource has seen it.
LEMMA ConnectFailedStep ==
  ASSUME IInv, NEW t \in Threads, ConnectFailed(t)
  PROVE  IInv'
<1>1. PICK c \in Conns : status[c] = "new" /\ status' = [status EXCEPT ![c] = "finished"]
  BY DEF ConnectFailed, Finish
<1>2. /\ pc[t] = "connect"
      /\ counter' = [counter EXCEPT !["errors"] = @ + 1]
      /\ m_lock' = NoThread
      /\ pc' = [pc EXCEPT ![t] = "idle"]
      /\ UNCHANGED <<m_availableConnections, m_connections, held, inHand, exiting>>
  BY DEF ConnectFailed, Count, Return, Goto
<1>3. UNCHANGED <<Queued, Held>>
  BY <1>2 DEF Queued, Held
<1>4. c \notin Queued \cup Held \cup m_connections
  BY <1>1 DEF IInv, KnownNotNew
<1>5. TypeOK'
  BY <1>1, <1>2 DEF IInv, TypeOK, Labels, Status, CounterName
<1>6. LockHolder' /\ ClosingOK'
  BY PoolAssumption, <1>2 DEF IInv, TypeOK, LockHolder, ClosingOK, Inside
<1>7. HandOK'
  BY <1>1, <1>2, <1>3 DEF IInv, TypeOK, HandOK
<1>8. KnownNotNew' /\ QueuedAreOK' /\ LentIsOpen' /\ ExclusiveLoan'
  BY <1>1, <1>2, <1>3, <1>4
     DEF IInv, TypeOK, KnownNotNew, QueuedAreOK, LentIsOpen, ExclusiveLoan
<1>9. NothingOrphaned'
  BY <1>1, <1>2, <1>3 DEF IInv, TypeOK, NothingOrphaned
<1>10. QED
  BY <1>5, <1>6, <1>7, <1>8, <1>9 DEF IInv

\* A queue that loses its front: what TakeAvailable and DrainFront share.
LEMMA PopFrontQueue ==
  ASSUME IInv, m_availableConnections # <<>>, PopFront
  PROVE  /\ Head(m_availableConnections) \in Queued
         /\ Head(m_availableConnections) \in Conns
         /\ m_availableConnections' \in Seq(Conns)
         /\ Queued' = Queued \ {Head(m_availableConnections)}
         /\ IsInjective(m_availableConnections')
<1>1. m_availableConnections \in Seq(Conns) /\ IsInjective(m_availableConnections)
  BY DEF IInv, TypeOK, ExclusiveLoan
<1>2. QED
  BY <1>1, RangeOfTail, HeadTailProperties DEF PopFront, Queued

\* GetConnection takes the front of the queue, which is OK, and lends it.
LEMMA TakeAvailableStep ==
  ASSUME IInv, NEW t \in Threads, TakeAvailable(t)
  PROVE  IInv'
<1> DEFINE c == Head(m_availableConnections)
<1>1. /\ c \in Queued
      /\ c \in Conns
      /\ m_availableConnections' \in Seq(Conns)
      /\ Queued' = Queued \ {c}
      /\ IsInjective(m_availableConnections')
  BY PopFrontQueue DEF TakeAvailable
<1>2. status[c] = "OK"
  BY <1>1 DEF IInv, QueuedAreOK
<1>3. /\ pc[t] = "pop"
      /\ held' = [held EXCEPT ![t] = @ \cup {c}]
      /\ m_lock' = NoThread
      /\ pc' = [pc EXCEPT ![t] = "idle"]
      /\ UNCHANGED <<m_connections, counter, status, inHand, exiting>>
  BY <1>2 DEF TakeAvailable, IsOK, Return, Goto
<1>4. Held' = Held \cup {c}
  BY <1>1, <1>3 DEF Held, IInv, TypeOK
<1> HIDE DEF c
<1>5. TypeOK'
  BY <1>1, <1>3 DEF IInv, TypeOK, Labels
<1>6. LockHolder' /\ ClosingOK'
  BY PoolAssumption, <1>1, <1>3 DEF IInv, TypeOK, LockHolder, ClosingOK, Inside
<1>7. HandOK'
  BY <1>1, <1>3, <1>4 DEF IInv, TypeOK, LockHolder, Inside, HandOK
<1>8. KnownNotNew' /\ QueuedAreOK' /\ LentIsOpen'
  BY <1>1, <1>2, <1>3, <1>4 DEF IInv, TypeOK, KnownNotNew, QueuedAreOK, LentIsOpen
<1>9. ExclusiveLoan'
  BY <1>1, <1>3, <1>4 DEF IInv, TypeOK, ExclusiveLoan, Held
<1>10. NothingOrphaned'
  BY <1>1, <1>3, <1>4 DEF IInv, TypeOK, NothingOrphaned
<1>11. QED
  BY <1>5, <1>6, <1>7, <1>8, <1>9, <1>10 DEF IInv

\* GetConnection: PQconnectdb has opened a connection nobody knew.
LEMMA ConnectedStep ==
  ASSUME IInv, NEW t \in Threads, Connected(t)
  PROVE  IInv'
<1>1. PICK c \in Conns :
        /\ status[c] = "new"
        /\ status' = [status EXCEPT ![c] = "OK"]
        /\ inHand' = [inHand EXCEPT ![t] = c]
  BY DEF Connected
<1>2. /\ pc[t] = "connect"
      /\ counter' = [counter EXCEPT !["opened"] = @ + 1]
      /\ pc' = [pc EXCEPT ![t] = "register"]
      /\ UNCHANGED <<m_lock, m_availableConnections, m_connections, held, exiting>>
  BY DEF Connected, Count, Goto
<1>3. /\ UNCHANGED <<Queued, Held>>
      /\ c \notin Queued \cup Held
  BY <1>1, <1>2 DEF Queued, Held, IInv, KnownNotNew
<1>4. TypeOK'
  BY <1>1, <1>2 DEF IInv, TypeOK, Labels, CounterName, Status
<1>5. LockHolder' /\ ClosingOK'
  BY <1>1, <1>2 DEF IInv, TypeOK, LockHolder, ClosingOK, Inside
<1>6. HandOK'
  BY <1>1, <1>2, <1>3 DEF IInv, TypeOK, LockHolder, Inside, HandOK
<1>7. KnownNotNew' /\ QueuedAreOK' /\ LentIsOpen'
  BY <1>1, <1>2, <1>3 DEF IInv, TypeOK, KnownNotNew, QueuedAreOK, LentIsOpen
<1>8. ExclusiveLoan'
  BY <1>2, <1>3 DEF IInv, ExclusiveLoan
<1>9. NothingOrphaned'
  BY <1>1, <1>2, <1>3 DEF IInv, TypeOK, NothingOrphaned
<1>10. QED
  BY <1>4, <1>5, <1>6, <1>7, <1>8, <1>9 DEF IInv

\* GetConnection files the new connection and lends it.
LEMMA RegisterStep ==
  ASSUME IInv, NEW t \in Threads, Register(t)
  PROVE  IInv'
<1> DEFINE c == inHand[t]
<1>1. /\ pc[t] = "register"
      /\ m_connections' = m_connections \cup {c}
      /\ held' = [held EXCEPT ![t] = @ \cup {c}]
      /\ inHand' = [inHand EXCEPT ![t] = NoConn]
      /\ m_lock' = NoThread
      /\ pc' = [pc EXCEPT ![t] = "idle"]
      /\ UNCHANGED <<m_availableConnections, counter, status, exiting>>
  BY DEF Register, Return, Goto
<1>2. /\ c \in Conns
      /\ c \notin Queued \cup Held
      /\ status[c] = "OK"
  BY <1>1 DEF IInv, HandOK
<1>3. /\ Queued' = Queued
      /\ Held' = Held \cup {c}
  BY <1>1, <1>2 DEF Queued, Held, IInv, TypeOK
<1> HIDE DEF c
<1>4. TypeOK'
  BY <1>1, <1>2 DEF IInv, TypeOK, Labels
<1>5. LockHolder' /\ ClosingOK'
  BY PoolAssumption, <1>1 DEF IInv, TypeOK, LockHolder, ClosingOK, Inside
<1>6. HandOK'
  BY <1>1, <1>3 DEF IInv, TypeOK, LockHolder, Inside, HandOK
<1>7. KnownNotNew' /\ QueuedAreOK' /\ LentIsOpen'
  BY <1>1, <1>2, <1>3 DEF IInv, TypeOK, KnownNotNew, QueuedAreOK, LentIsOpen
<1>8. ExclusiveLoan'
  BY <1>1, <1>2, <1>3 DEF IInv, TypeOK, ExclusiveLoan, Held
<1>9. NothingOrphaned'
  BY <1>1, <1>2, <1>3 DEF IInv, TypeOK, NothingOrphaned, c
<1>10. QED
  BY <1>4, <1>5, <1>6, <1>7, <1>8, <1>9 DEF IInv

\* A thread calls Release on a connection it holds.
LEMMA CallReleaseStep ==
  ASSUME IInv, NEW t \in Threads, NEW c \in Conns, CallRelease(t, c)
  PROVE  IInv'
<1>1. /\ pc[t] = "idle"
      /\ c \in held[t]
      /\ inHand' = [inHand EXCEPT ![t] = c]
      /\ pc' = [pc EXCEPT ![t] = "release"]
      /\ UNCHANGED <<m_lock, m_availableConnections, m_connections, counter, status, held, exiting>>
  BY DEF CallRelease, Call, Goto
<1>2. UNCHANGED <<Queued, Held>>
  BY <1>1 DEF Queued, Held
<1>3. TypeOK'
  BY <1>1 DEF IInv, TypeOK, Labels
<1>4. LockHolder' /\ ClosingOK' /\ HandOK'
  BY <1>1, <1>2 DEF IInv, TypeOK, LockHolder, ClosingOK, HandOK, Inside
<1>5. KnownNotNew' /\ QueuedAreOK' /\ LentIsOpen' /\ ExclusiveLoan'
  BY <1>1, <1>2 DEF IInv, KnownNotNew, QueuedAreOK, LentIsOpen, ExclusiveLoan
<1>6. NothingOrphaned'
  BY <1>1, <1>2 DEF IInv, TypeOK, NothingOrphaned
<1>7. QED
  BY <1>3, <1>4, <1>5, <1>6 DEF IInv

\* Release queues the connection when it is OK, else closes it; the resource
\* drops its pointer either way.
LEMMA FileReleasedStep ==
  ASSUME IInv, NEW t \in Threads, FileReleased(t)
  PROVE  IInv'
<1> DEFINE c == inHand[t]
<1>1. /\ pc[t] = "file"
      /\ held' = [held EXCEPT ![t] = @ \ {c}]
      /\ inHand' = [inHand EXCEPT ![t] = NoConn]
      /\ m_lock' = NoThread
      /\ pc' = [pc EXCEPT ![t] = "idle"]
      /\ UNCHANGED exiting
  BY DEF FileReleased, DropPointer, Return, Goto
<1>2. c \in held[t] /\ c \in Conns
  BY <1>1 DEF IInv, HandOK, TypeOK
<1>3. c \in Held /\ c \notin Queued
  BY <1>2 DEF IInv, ExclusiveLoan, Held
<1>4. Held' = Held \ {c}
  BY <1>1, <1>2 DEF Held, IInv, TypeOK, ExclusiveLoan
<1>5. CASE status[c] = "OK"
  <2>1. /\ m_availableConnections' = Append(m_availableConnections, c)
        /\ UNCHANGED <<m_connections, counter, status>>
    BY <1>5 DEF FileReleased, IsOK
  <2>2. /\ m_availableConnections' \in Seq(Conns)
        /\ Queued' = Queued \cup {c}
        /\ IsInjective(m_availableConnections')
    BY <1>2, <1>3, <2>1, AppendProperties, RangeOfAppend, InjectiveAppend
       DEF IInv, TypeOK, ExclusiveLoan, Queued
  <2> HIDE DEF c
  <2>3. TypeOK'
    BY <1>1, <2>1, <2>2 DEF IInv, TypeOK, Labels
  <2>4. LockHolder' /\ ClosingOK'
    BY PoolAssumption, <1>1 DEF IInv, TypeOK, LockHolder, ClosingOK, Inside
  <2>5. HandOK'
    BY <1>1, <1>4, <2>1, <2>2 DEF IInv, TypeOK, LockHolder, Inside, HandOK
  <2>6. KnownNotNew' /\ QueuedAreOK' /\ LentIsOpen'
    BY <1>1, <1>3, <1>4, <1>5, <2>1, <2>2 DEF IInv, KnownNotNew, QueuedAreOK, LentIsOpen
  <2>7. ExclusiveLoan'
    BY <1>1, <1>3, <1>4, <2>2 DEF IInv, TypeOK, ExclusiveLoan, Held
  <2>8. NothingOrphaned'
    BY <1>1, <1>4, <2>1, <2>2 DEF IInv, TypeOK, NothingOrphaned
  <2>9. QED
    BY <2>3, <2>4, <2>5, <2>6, <2>7, <2>8 DEF IInv
<1>6. CASE status[c] # "OK"
  <2>1. /\ status' = [status EXCEPT ![c] = "finished"]
        /\ m_connections' = m_connections \ {c}
        /\ counter' = [counter EXCEPT !["sweeped"] = @ + 1]
        /\ UNCHANGED m_availableConnections
    BY <1>6 DEF FileReleased, IsOK, Finish, SweepConnection, Count
  <2>2. Queued' = Queued
    BY <2>1 DEF Queued
  <2> HIDE DEF c
  <2>3. TypeOK'
    BY <1>1, <1>2, <2>1 DEF IInv, TypeOK, Labels, Status, CounterName
  <2>4. LockHolder' /\ ClosingOK'
    BY PoolAssumption, <1>1, <2>1 DEF IInv, TypeOK, LockHolder, ClosingOK, Inside
  <2>5. HandOK'
    BY <1>1, <1>4, <2>1, <2>2 DEF IInv, TypeOK, LockHolder, Inside, HandOK
  <2>6. Queued \subseteq Conns /\ Held \subseteq Conns
    BY RangeOfSeq DEF IInv, TypeOK, Queued, Held
  <2>7. KnownNotNew' /\ QueuedAreOK' /\ LentIsOpen'
    BY <1>1, <1>2, <1>3, <1>4, <2>1, <2>2, <2>6
       DEF IInv, TypeOK, KnownNotNew, QueuedAreOK, LentIsOpen
  <2>8. ExclusiveLoan'
    BY <1>1, <1>4, <2>1, <2>2 DEF IInv, TypeOK, ExclusiveLoan
  <2>9. NothingOrphaned'
    BY <1>1, <1>2, <1>4, <2>1, <2>2 DEF IInv, TypeOK, NothingOrphaned
  <2>10. QED
    BY <2>3, <2>4, <2>5, <2>7, <2>8, <2>9 DEF IInv
<1>7. QED
  BY <1>5, <1>6

\* The closing methods close the front of the queue.
LEMMA DrainFrontStep ==
  ASSUME IInv, NEW t \in Threads, DrainFront(t)
  PROVE  IInv'
<1> DEFINE c == Head(m_availableConnections)
<1>1. /\ pc[t] \in {"drainFree", "drainAll"}
      /\ status' = [status EXCEPT ![c] = "finished"]
      /\ UNCHANGED <<m_lock, m_connections, counter, held, inHand, pc, exiting>>
  BY DEF DrainFront, Finish
<1>2. /\ c \in Queued
      /\ c \in Conns
      /\ m_availableConnections' \in Seq(Conns)
      /\ Queued' = Queued \ {c}
      /\ IsInjective(m_availableConnections')
  BY PopFrontQueue DEF DrainFront
<1>3. Held' = Held /\ c \notin Held
  BY <1>1, <1>2 DEF Held, IInv, ExclusiveLoan
<1> HIDE DEF c
<1>4. TypeOK'
  BY <1>1, <1>2 DEF IInv, TypeOK, Status
<1>5. LockHolder'
  BY <1>1 DEF IInv, LockHolder
<1>6. HandOK'
  BY <1>1, <1>2, <1>3 DEF IInv, TypeOK, LockHolder, Inside, HandOK
<1>7. ClosingOK'
  BY <1>1 DEF IInv, TypeOK, LockHolder, Inside, ClosingOK
<1>8. KnownNotNew' /\ QueuedAreOK' /\ LentIsOpen'
  BY <1>1, <1>2, <1>3 DEF IInv, TypeOK, KnownNotNew, QueuedAreOK, LentIsOpen
<1>9. ExclusiveLoan'
  BY <1>1, <1>2, <1>3 DEF IInv, ExclusiveLoan
<1>10. NothingOrphaned'
  BY <1>1, <1>2, <1>3 DEF IInv, TypeOK, NothingOrphaned
<1>11. QED
  BY <1>4, <1>5, <1>6, <1>7, <1>8, <1>9, <1>10 DEF IInv

\* The exiting process closes every connection the pool still knows of.
LEMMA FinishAllStep ==
  ASSUME IInv, NEW t \in Threads, FinishAll(t)
  PROVE  IInv'
<1>1. /\ pc[t] = "finishAll"
      /\ status' = [c \in Conns |-> IF c \in m_connections THEN "finished" ELSE status[c]]
      /\ m_connections' = {}
      /\ m_lock' = NoThread
      /\ pc' = [pc EXCEPT ![t] = "idle"]
      /\ UNCHANGED <<m_availableConnections, counter, held, inHand, exiting>>
  BY DEF FinishAll, Return, Goto
<1>2. exiting /\ m_availableConnections = <<>>
  BY <1>1 DEF IInv, ClosingOK
<1>3. Queued = {} /\ UNCHANGED <<Queued, Held>>
  BY <1>1, <1>2 DEF Queued, Held, Range
<1>4. TypeOK'
  BY <1>1 DEF IInv, TypeOK, Status, Labels
<1>5. LockHolder' /\ ClosingOK'
  BY PoolAssumption, <1>1, <1>2 DEF IInv, TypeOK, LockHolder, ClosingOK, Inside
<1>6. HandOK'
  BY <1>1, <1>3 DEF IInv, TypeOK, LockHolder, Inside, HandOK
<1>7. KnownNotNew' /\ QueuedAreOK' /\ LentIsOpen' /\ ExclusiveLoan'
  BY <1>1, <1>2, <1>3 DEF IInv, TypeOK, KnownNotNew, QueuedAreOK, LentIsOpen, ExclusiveLoan, Held
<1>8. NothingOrphaned'
  BY <1>1, <1>3 DEF IInv, TypeOK, NothingOrphaned
<1>9. QED
  BY <1>4, <1>5, <1>6, <1>7, <1>8 DEF IInv

\* A borrower breaks or resets a connection it holds.
LEMMA BorrowerStep ==
  ASSUME IInv, NEW t \in Threads, NEW c \in Conns,
         BreakConnection(t, c) \/ ResetConnection(t, c)
  PROVE  IInv'
<1>1. PICK s \in {"OK", "BAD"} : status' = [status EXCEPT ![c] = s]
  BY DEF BreakConnection, ResetConnection
<1>2. /\ c \in held[t]
      /\ UNCHANGED <<m_lock, m_availableConnections, m_connections, counter, held, inHand, pc, exiting>>
  BY DEF BreakConnection, ResetConnection
<1>3. /\ UNCHANGED <<Queued, Held>>
      /\ c \in Held
      /\ c \notin Queued
  BY <1>2 DEF Queued, Held, IInv, ExclusiveLoan
<1>4. TypeOK'
  BY <1>1, <1>2 DEF IInv, TypeOK, Status
<1>5. LockHolder' /\ ClosingOK' /\ ExclusiveLoan'
  BY <1>2, <1>3 DEF IInv, LockHolder, ClosingOK, ExclusiveLoan
<1>6. HandOK'
  BY <1>1, <1>2, <1>3 DEF IInv, TypeOK, HandOK
<1>7. KnownNotNew' /\ QueuedAreOK' /\ LentIsOpen'
  BY <1>1, <1>2, <1>3 DEF IInv, TypeOK, KnownNotNew, QueuedAreOK, LentIsOpen, Queued, Held
<1>8. NothingOrphaned'
  BY <1>1, <1>2, <1>3 DEF IInv, TypeOK, NothingOrphaned
<1>9. QED
  BY <1>4, <1>5, <1>6, <1>7, <1>8 DEF IInv

-----------------------------------------------------------------------------
\* Every step of the pool keeps the invariant.
LEMMA StepIInv == IInv /\ [Next]_vars => IInv'
<1> SUFFICES ASSUME IInv, [Next]_vars
             PROVE  IInv'
  OBVIOUS
<1>1. ASSUME NEW t \in Threads, LockedStep(t)
      PROVE  IInv'
  BY <1>1, QuietStep, ConnectFailedStep, TakeAvailableStep, ConnectedStep, RegisterStep,
     FileReleasedStep, DrainFrontStep, FinishAllStep DEF LockedStep
<1>2. ASSUME NEW t \in Threads, EnterStep(t)
      PROVE  IInv'
  BY <1>2, QuietStep DEF EnterStep
<1>3. ASSUME NEW t \in Threads, ScriptStep(t)
      PROVE  IInv'
  BY <1>3, QuietStep, CallReleaseStep, BorrowerStep DEF ScriptStep
<1>4. CASE UNCHANGED vars
  <2>1. UNCHANGED <<Queued, Held>>
    BY <1>4 DEF vars, Queued, Held
  <2>2. QED
    BY <1>4, <2>1
       DEF vars, IInv, TypeOK, LockHolder, HandOK, ClosingOK, KnownNotNew,
           ExclusiveLoan, QueuedAreOK, LentIsOpen, NothingOrphaned
<1>5. QED
  BY <1>1, <1>2, <1>3, <1>4 DEF Next

\* The invariant holds in every state of every behaviour.
THEOREM Invariance == Spec => []IInv
<1>1. QED
  BY InitIInv, StepIInv, PTL DEF Spec

\* Every variable keeps its type; no method leaves NoConn in m_connections or in
\* a resource, and no counter of pg_connection_pool_stat is ever negative.
THEOREM TypeCorrect == Spec => []TypeOK
<1>1. IInv => TypeOK
  BY DEF IInv
<1>2. QED
  BY <1>1, Invariance, PTL

\* GetConnection and Release never let two resources share a connection, nor
\* queue one that is lent, nor queue one twice.
THEOREM LoansExclusive == Spec => []ExclusiveLoan
<1>1. IInv => ExclusiveLoan
  BY DEF IInv
<1>2. QED
  BY <1>1, Invariance, PTL

\* The queue holds no broken or closed connection, so the CONNECTION_BAD branch
\* of GetConnection is never taken.
THEOREM QueueOK == Spec => []QueuedAreOK
<1>1. IInv => QueuedAreOK
  BY DEF IInv
<1>2. QED
  BY <1>1, Invariance, PTL

\* CloseFreeConnections and Release never close a connection that a resource
\* still points to; only the exiting process does.
THEOREM LoansOpen == Spec => []LentIsOpen
<1>1. IInv => LentIsOpen
  BY DEF IInv
<1>2. QED
  BY <1>1, Invariance, PTL

\* No open connection is ever out of reach of the pool and of its borrowers.
THEOREM NoOrphans == Spec => []NothingOrphaned
<1>1. IInv => NothingOrphaned
  BY DEF IInv
<1>2. QED
  BY <1>1, Invariance, PTL

-----------------------------------------------------------------------------
(* Refinement: the pool keeps the promise of ConnectionLoan *)

\* The connections that are closed and that nobody holds.
Spent == {c \in Conns : status[c] = "finished"} \ Held

\* The steps that change neither the queue, nor a resource, nor what is closed.
LEMMA StutterStep ==
  ASSUME IInv, NEW t \in Threads,
         \/ CallGetConnection(t)
         \/ EnterGetConnection(t)
         \/ NoneAvailable(t)
         \/ Connected(t)
         \/ EnterRelease(t)
         \/ CallCloseFree(t)
         \/ EnterCloseFree(t)
         \/ EndCloseFree(t)
         \/ Exit(t)
         \/ EnterCloseAll(t)
         \/ EndDrainAll(t)
         \/ \E c \in Conns : CallRelease(t, c) \/ BreakConnection(t, c) \/ ResetConnection(t, c)
  PROVE  UNCHANGED <<Queued, held, Spent>>
<1>1. UNCHANGED <<m_availableConnections, held>>
  BY DEF CallGetConnection, EnterGetConnection, NoneAvailable, Connected,
         EnterRelease, CallCloseFree, EnterCloseFree, EndCloseFree, Exit, EnterCloseAll,
         EndDrainAll, CallRelease, BreakConnection, ResetConnection, Call
<1>2. UNCHANGED <<Queued, Held>>
  BY <1>1 DEF Queued, Held
<1>3. \A c \in Conns : status'[c] = "finished" <=> status[c] = "finished"
  <2>1. CASE UNCHANGED status
    BY <2>1
  <2>2. ASSUME NEW c \in Conns, NEW s \in {"OK", "BAD"},
               status[c] # "finished", status' = [status EXCEPT ![c] = s]
        PROVE  \A d \in Conns : status'[d] = "finished" <=> status[d] = "finished"
    BY <2>2 DEF IInv, TypeOK
  <2>3. QED
    BY <2>1, <2>2
       DEF CallGetConnection, EnterGetConnection, NoneAvailable, Connected,
           EnterRelease, CallCloseFree, EnterCloseFree, EndCloseFree, Exit, EnterCloseAll,
           EndDrainAll, CallRelease, BreakConnection, ResetConnection, Call, IsOK
<1>4. QED
  BY <1>1, <1>2, <1>3 DEF Spent

\* Every other step lends, takes back or closes one connection, or opens one in
\* vain.
LEMMA LoanStep ==
  ASSUME IInv, NEW t \in Threads,
         \/ TakeAvailable(t)
         \/ Register(t)
         \/ FileReleased(t)
         \/ DrainFront(t)
         \/ ConnectFailed(t)
  PROVE  Loan!Next
<1>1. CASE TakeAvailable(t)
  <2> DEFINE c == Head(m_availableConnections)
  <2>1. c \in Queued /\ c \in Conns /\ Queued' = Queued \ {c}
    BY <1>1, PopFrontQueue DEF TakeAvailable
  <2>2. /\ held' = [held EXCEPT ![t] = @ \cup {c}]
        /\ UNCHANGED status
    BY <1>1, <2>1 DEF TakeAvailable, IInv, QueuedAreOK, IsOK
  <2>3. Held' = Held \cup {c} /\ status[c] = "OK"
    BY <2>1, <2>2 DEF Held, IInv, TypeOK, QueuedAreOK
  <2>4. Spent' = Spent
    BY <2>2, <2>3 DEF Spent
  <2>5. Loan!LendFree(t, c)
    BY <2>1, <2>2, <2>4 DEF Loan!LendFree, Spent
  <2>6. QED
    BY <2>1, <2>5 DEF Loan!Next
<1>2. CASE Register(t)
  <2> DEFINE c == inHand[t]
  <2>1. /\ c \in Conns \ (Queued \cup Held)
        /\ status[c] = "OK"
    BY <1>2 DEF Register, IInv, HandOK
  <2>2. /\ held' = [held EXCEPT ![t] = @ \cup {c}]
        /\ UNCHANGED <<m_availableConnections, status>>
    BY <1>2 DEF Register
  <2>3. Held' = Held \cup {c} /\ Queued' = Queued
    BY <2>1, <2>2 DEF Held, Queued, IInv, TypeOK
  <2>4. Spent' = Spent
    BY <2>1, <2>2, <2>3 DEF Spent
  <2>5. c \in Loan!Fresh
    BY <2>1 DEF Loan!Fresh, Loan!Lent, Held
  <2>6. Loan!LendFresh(t, c)
    BY <2>2, <2>3, <2>4, <2>5 DEF Loan!LendFresh, Spent
  <2>7. QED
    BY <2>1, <2>6 DEF Loan!Next
<1>3. CASE FileReleased(t)
  <2>1. PICK c \in Conns : c = inHand[t] /\ c \in held[t]
    BY <1>3 DEF FileReleased, IInv, HandOK, TypeOK
  <2>2. held' = [held EXCEPT ![t] = @ \ {c}]
    BY <1>3, <2>1 DEF FileReleased, DropPointer
  <2>3. Held' = Held \ {c}
    BY <2>1, <2>2 DEF Held, IInv, TypeOK, ExclusiveLoan
  <2>4. CASE status[c] = "OK"
    <3>1. /\ m_availableConnections' = Append(m_availableConnections, c)
          /\ UNCHANGED status
      BY <1>3, <2>1, <2>4 DEF FileReleased, IsOK
    <3>2. Queued' = Queued \cup {c}
      BY <2>1, <3>1, RangeOfAppend DEF IInv, TypeOK, Queued
    <3>3. Spent' = Spent
      BY <2>3, <2>4, <3>1 DEF Spent
    <3>4. Loan!GiveBack(t, c)
      BY <2>1, <2>2, <3>2, <3>3 DEF Loan!GiveBack, Spent
    <3>5. QED
      BY <3>4 DEF Loan!Next
  <2>5. CASE status[c] # "OK"
    <3>1. /\ status' = [status EXCEPT ![c] = "finished"]
          /\ UNCHANGED m_availableConnections
      BY <1>3, <2>1, <2>5 DEF FileReleased, IsOK, Finish
    <3>2. Queued' = Queued
      BY <3>1 DEF Queued
    <3>3. c \in Held
      BY <2>1 DEF Held
    <3>4. Spent' = Spent \cup {c}
      BY <2>1, <2>3, <3>1, <3>3 DEF Spent, IInv, TypeOK
    <3>5. Loan!Discard(t, c)
      BY <2>1, <2>2, <3>2, <3>4 DEF Loan!Discard, Spent
    <3>6. QED
      BY <3>5 DEF Loan!Next
  <2>6. QED
    BY <2>4, <2>5
<1>4. CASE DrainFront(t)
  <2>1. PICK c \in Conns :
          c = Head(m_availableConnections) /\ c \in Queued /\ Queued' = Queued \ {c}
    BY <1>4, PopFrontQueue DEF DrainFront
  <2>2. /\ status' = [status EXCEPT ![c] = "finished"]
        /\ UNCHANGED held
    BY <1>4, <2>1 DEF DrainFront, Finish
  <2>3. Held' = Held /\ c \notin Held
    BY <2>1, <2>2 DEF Held, IInv, ExclusiveLoan
  <2>4. Spent' = Spent \cup {c}
    BY <2>1, <2>2, <2>3 DEF Spent, IInv, TypeOK
  <2>5. Loan!CloseFree({c})
    BY <2>1, <2>2, <2>4 DEF Loan!CloseFree, Spent
  <2>6. {c} \in SUBSET Conns
    BY <2>1
  <2>7. QED
    BY <2>5, <2>6 DEF Loan!Next
<1>5. CASE ConnectFailed(t)
  <2>1. PICK c \in Conns : status[c] = "new" /\ status' = [status EXCEPT ![c] = "finished"]
    BY <1>5 DEF ConnectFailed, Finish
  <2>2. UNCHANGED <<held, m_availableConnections>>
    BY <1>5 DEF ConnectFailed
  <2>3. UNCHANGED <<Queued, Held>>
    BY <2>2 DEF Queued, Held
  <2>4. c \notin Queued \cup Held
    BY <2>1 DEF IInv, KnownNotNew
  <2>5. Spent' = Spent \cup {c} /\ c \notin Spent
    BY <2>1, <2>3, <2>4 DEF Spent, IInv, TypeOK
  <2>6. Loan!OpenFails(c)
    BY <2>2, <2>3, <2>4, <2>5 DEF Loan!OpenFails, Loan!Fresh, Loan!Lent, Held, Spent
  <2>7. QED
    BY <2>6 DEF Loan!Next
<1>6. QED
  BY <1>1, <1>2, <1>3, <1>4, <1>5

\* When the process exits, what is closed beyond the queue was lent: the loan
\* stands, and the connection is spent once it is given back.
LEMMA FinishAllStutters ==
  ASSUME IInv, NEW t \in Threads, FinishAll(t)
  PROVE  UNCHANGED <<Queued, held, Spent>>
<1>1. /\ pc[t] = "finishAll"
      /\ status' = [c \in Conns |-> IF c \in m_connections THEN "finished" ELSE status[c]]
      /\ UNCHANGED <<m_availableConnections, held>>
  BY DEF FinishAll
<1>2. UNCHANGED <<Queued, Held>>
  BY <1>1 DEF Queued, Held
<1>3. Queued = {}
  BY <1>1 DEF IInv, ClosingOK, Queued, Range
<1>4. \A u \in Threads : pc[u] # "register"
  BY <1>1 DEF IInv, LockHolder, Inside
<1>5. \A c \in m_connections : c \in Held \/ status[c] = "finished"
  BY <1>3, <1>4 DEF IInv, TypeOK, Status, KnownNotNew, NothingOrphaned
<1>6. Spent' = Spent
  BY <1>1, <1>2, <1>5 DEF Spent, IInv, TypeOK
<1>7. QED
  BY <1>1, <1>2, <1>6

\* PGSQLConnectionPool implements ConnectionLoan: whatever the lock, the queue
\* and the statistics do, a borrower sees connections that are lent to one
\* thread at a time and never come back once they are closed.
THEOREM LoanRefinement == Spec => ImplementsLoan
<1>1. Init => Loan!Init
  BY DEF Init, Loan!Init, Queued, Held, Range
<1>2. IInv /\ [Next]_vars => [Loan!Next]_(Loan!vars)
  <2> SUFFICES ASSUME IInv, [Next]_vars
               PROVE  Loan!Next \/ UNCHANGED <<Queued, held, Spent>>
    BY DEF Loan!vars, Spent
  <2>1. ASSUME NEW t \in Threads, LockedStep(t)
        PROVE  Loan!Next \/ UNCHANGED <<Queued, held, Spent>>
    BY <2>1, StutterStep, LoanStep, FinishAllStutters DEF LockedStep
  <2>2. ASSUME NEW t \in Threads, EnterStep(t)
        PROVE  UNCHANGED <<Queued, held, Spent>>
    BY <2>2, StutterStep DEF EnterStep
  <2>3. ASSUME NEW t \in Threads, ScriptStep(t)
        PROVE  UNCHANGED <<Queued, held, Spent>>
    BY <2>3, StutterStep DEF ScriptStep
  <2>4. CASE UNCHANGED vars
    BY <2>4 DEF vars, Queued, Held, Spent
  <2>5. QED
    BY <2>1, <2>2, <2>3, <2>4 DEF Next
<1>3. QED
  BY <1>1, <1>2, Invariance, PTL DEF Spec, ImplementsLoan, Loan!Spec

=============================================================================

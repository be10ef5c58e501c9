---------------------------- MODULE PGSQLResource ----------------------------
(***************************************************************************)
(* The PGSQL and PGSQLResult resources of the requests, from creation to   *)
(* the sweep at the end of a request.  A connection can be given back from *)
(* three places: pg_close, the destructor when the last reference goes,    *)
(* and the sweep, which comes in any order and while other requests run.   *)
(*                                                                         *)
(* The pool is the set of its waiting connections (PGSQLConnectionPool has *)
(* the detail).  The variables of a script count as one reference.         *)
(***************************************************************************)
EXTENDS Naturals, FiniteSets

CONSTANTS
  Requests,  \* requests, on threads of their own or one after the other
  Links,     \* PGSQL objects
  Results,   \* PGSQLResult objects
  Conns,     \* PQ::Connection objects
  NoRequest, NoLink, NoConn

ASSUME ResourceAssumption ==
  /\ NoRequest \notin Requests
  /\ NoLink \notin Links
  /\ NoConn \notin Conns
  /\ Links \cap Results = {}

VARIABLES
  request,           \* whether each request runs or is being swept
  crashed,           \* get() has dereferenced a null m_conn
  life,              \* each resource: unused, live, or gone with its memory
  creator,           \* the request a resource belongs to
  script,            \* resources that variables of the scripts refer to
  refCount,          \* reference count of each PGSQL
  m_conn,            \* the connection of each PGSQL, or null
  m_connectionPool,  \* whether the PGSQL is to give m_conn back to the pool
  m_res,             \* whether a PGSQLResult still has its PGresult
  m_link,            \* PGSQLResult::m_conn
  status,            \* what PQ::Connection says of a connection
  free,              \* connections waiting in the pool
  notice             \* argument of the connection's notice processor

requestVars == <<request, crashed>>
objectVars  == <<life, creator, script>>
linkVars    == <<m_conn, m_connectionPool>>
resultVars  == <<m_res, m_link>>
connVars    == <<status, free, notice>>

vars == <<requestVars, objectVars, refCount, linkVars, resultVars, connVars>>

Resources == Links \cup Results

TypeOK ==
  /\ request \in [Requests -> {"running", "ending"}]
  /\ crashed \in BOOLEAN
  /\ life \in [Resources -> {"unused", "live", "gone"}]
  /\ creator \in [Resources -> Requests \cup {NoRequest}]
  /\ script \subseteq Resources
  /\ refCount \in [Links -> Nat]
  /\ m_conn \in [Links -> Conns \cup {NoConn}]
  /\ m_connectionPool \in [Links -> BOOLEAN]
  /\ m_res \in [Results -> BOOLEAN]
  /\ m_link \in [Results -> Links \cup {NoLink}]
  /\ status \in [Conns -> {"new", "OK", "BAD", "finished"}]
  /\ free \subseteq Conns
  /\ notice \in [Conns -> Links \cup {NoLink}]

Init ==
  /\ request = [r \in Requests |-> "running"]
  /\ crashed = FALSE
  /\ life = [x \in Resources |-> "unused"]
  /\ creator = [x \in Resources |-> NoRequest]
  /\ script = {}
  /\ refCount = [l \in Links |-> 0]
  /\ m_conn = [l \in Links |-> NoConn]
  /\ m_connectionPool = [l \in Links |-> FALSE]
  /\ m_res = [k \in Results |-> FALSE]
  /\ m_link = [k \in Results |-> NoLink]
  /\ status = [c \in Conns |-> "new"]
  /\ free = {}
  /\ notice = [c \in Conns |-> NoLink]

-----------------------------------------------------------------------------
(* What a script of request r can do with what it has *)

Has(r, x) ==
  /\ request[r] = "running"
  /\ x \in script
  /\ creator[x] = r

Make(r, x) ==
  /\ request[r] = "running"
  /\ life[x] = "unused"
  /\ life' = [life EXCEPT ![x] = "live"]
  /\ creator' = [creator EXCEPT ![x] = r]
  /\ script' = script \cup {x}

Finish(c) == status' = [status EXCEPT ![c] = "finished"]

\* Mutant: only pg_connect installs the processor.
MutantSetupInformation(l, c, pooled) ==
  notice' = IF pooled THEN notice ELSE [notice EXCEPT ![c] = l]

\* The part of SetupInformation that outlives the call.
SetupInformation(l, c, pooled) ==
  pooled \in BOOLEAN /\ notice' = [notice EXCEPT ![c] = l]

\* PGSQLConnectionPool::Release
PoolRelease(c) ==
  \/ status[c] = "OK" /\ free' = free \cup {c} /\ UNCHANGED status
  \/ status[c] # "OK" /\ Finish(c) /\ UNCHANGED free

\* Mutant: m_conn is not reset.
MutantReleaseConnection(l) ==
  \/ m_conn[l] = NoConn /\ UNCHANGED <<status, free, linkVars>>
  \/ /\ m_conn[l] # NoConn
     /\ m_connectionPool[l]
     /\ PoolRelease(m_conn[l])
     /\ UNCHANGED linkVars
  \/ /\ m_conn[l] # NoConn
     /\ ~m_connectionPool[l]
     /\ Finish(m_conn[l])
     /\ UNCHANGED <<free, linkVars>>

\* Only a pooled PGSQL forgets its connection; the other one keeps a pointer to
\* a finished connection, on which libpq's functions fail but do no harm.
ReleaseConnection(l) ==
  \/ m_conn[l] = NoConn /\ UNCHANGED <<status, free, linkVars>>
  \/ /\ m_conn[l] # NoConn
     /\ m_connectionPool[l]
     /\ PoolRelease(m_conn[l])
     /\ m_conn' = [m_conn EXCEPT ![l] = NoConn]
     /\ m_connectionPool' = [m_connectionPool EXCEPT ![l] = FALSE]
  \/ /\ m_conn[l] # NoConn
     /\ ~m_connectionPool[l]
     /\ Finish(m_conn[l])
     /\ UNCHANGED <<free, linkVars>>

\* One reference to a PGSQL goes; with the last one its destructor runs.  gone
\* are the other resources that die in the same step.
Unreference(l, gone) ==
  /\ refCount' = [refCount EXCEPT ![l] = @ - 1]
  /\ \/ /\ refCount[l] = 1
        /\ ReleaseConnection(l)
        /\ life' = [x \in Resources |-> IF x \in gone \cup {l} THEN "gone" ELSE life[x]]
     \/ /\ refCount[l] # 1
        /\ UNCHANGED <<status, free, linkVars>>
        /\ life' = [x \in Resources |-> IF x \in gone THEN "gone" ELSE life[x]]

-----------------------------------------------------------------------------
(* Creation *)

\* A failed pg_connect leaves nothing: its PGSQL is destroyed on return.
Connect(r, l) ==
  /\ Make(r, l)
  /\ refCount' = [refCount EXCEPT ![l] = 1]
  /\ \E c \in Conns :
       /\ status[c] = "new"
       /\ status' = [status EXCEPT ![c] = "OK"]
       /\ m_conn' = [m_conn EXCEPT ![l] = c]
       /\ SetupInformation(l, c, FALSE)
  /\ UNCHANGED <<requestVars, m_connectionPool, resultVars, free>>

\* pg_pconnect: a waiting connection, or a new one when none waits.
PConnect(r, l) ==
  /\ Make(r, l)
  /\ refCount' = [refCount EXCEPT ![l] = 1]
  /\ m_connectionPool' = [m_connectionPool EXCEPT ![l] = TRUE]
  /\ \E c \in IF free # {} THEN free ELSE {d \in Conns : status[d] = "new"} :
       /\ status' = [status EXCEPT ![c] = "OK"]
       /\ free' = free \ {c}
       /\ m_conn' = [m_conn EXCEPT ![l] = c]
       /\ SetupInformation(l, c, TRUE)
  /\ UNCHANGED <<requestVars, resultVars>>

\* Mutant: the result keeps a bare pointer.
MutantReferencesOfResult == 0

\* req::ptr counts one, and the constructor's incRefCount another, which nobody
\* ever takes back.
ReferencesOfResult == 2

\* The functions that return a result.
Query(r, l, k) ==
  /\ Has(r, l)
  /\ m_conn[l] # NoConn
  /\ status[m_conn[l]] = "OK"
  /\ Make(r, k)
  /\ m_res' = [m_res EXCEPT ![k] = TRUE]
  /\ m_link' = [m_link EXCEPT ![k] = l]
  /\ refCount' = [refCount EXCEPT ![l] = @ + ReferencesOfResult]
  /\ UNCHANGED <<requestVars, linkVars, connVars>>

\* A query finds that the server is gone, pg_connection_reset brings it back.
ChangeStatus(r, l) ==
  /\ Has(r, l)
  /\ m_conn[l] # NoConn
  /\ \/ status[m_conn[l]] = "OK"  /\ status' = [status EXCEPT ![m_conn[l]] = "BAD"]
     \/ status[m_conn[l]] = "BAD" /\ status' = [status EXCEPT ![m_conn[l]] = "OK"]
  /\ UNCHANGED <<requestVars, objectVars, refCount, linkVars, resultVars, free, notice>>

\* A function calls get() on a link that has no connection: on the link itself,
\* or, as pg_field_type does, on the link of a result.
NullDereference(r) ==
  /\ \/ \E l \in Links : Has(r, l) /\ m_conn[l] = NoConn
     \/ \E k \in Results : Has(r, k) /\ m_res[k] /\ m_conn[m_link[k]] = NoConn
  /\ crashed' = TRUE
  /\ UNCHANGED <<request, objectVars, refCount, linkVars, resultVars, connVars>>

-----------------------------------------------------------------------------
(* Release *)

\* pg_close
Close(r, l) ==
  /\ Has(r, l)
  /\ ReleaseConnection(l)
  /\ UNCHANGED <<requestVars, objectVars, refCount, resultVars, notice>>

\* pg_free_result
FreeResult(r, k) ==
  /\ Has(r, k)
  /\ m_res' = [m_res EXCEPT ![k] = FALSE]
  /\ UNCHANGED <<requestVars, objectVars, refCount, linkVars, m_link, connVars>>

\* Mutant: the link waits for the sweep.
MutantUnsetLink(r, l) ==
  /\ Has(r, l)
  /\ script' = script \ {l}
  /\ UNCHANGED <<requestVars, life, creator, refCount, linkVars, resultVars, connVars>>

\* The script lets go of a link ...
UnsetLink(r, l) ==
  /\ Has(r, l)
  /\ script' = script \ {l}
  /\ Unreference(l, {})
  /\ UNCHANGED <<requestVars, creator, resultVars, notice>>

\* ... or of a result, whose destructor runs at once.
UnsetResult(r, k) ==
  /\ Has(r, k)
  /\ script' = script \ {k}
  /\ m_res' = [m_res EXCEPT ![k] = FALSE]
  /\ Unreference(m_link[k], {k})
  /\ UNCHANGED <<requestVars, creator, m_link, notice>>

\* The end of a request: from now on its resources are swept.
EndRequest(r) ==
  /\ request[r] = "running"
  /\ request' = [request EXCEPT ![r] = "ending"]
  /\ script' = {x \in script : creator[x] # r}
  /\ UNCHANGED <<crashed, life, creator, refCount, linkVars, resultVars, connVars>>

\* Mutant: nothing is released.
MutantSweepLink(l) ==
  /\ life[l] = "live"
  /\ request[creator[l]] = "ending"
  /\ life' = [life EXCEPT ![l] = "gone"]
  /\ UNCHANGED <<requestVars, creator, script, refCount, linkVars, resultVars, connVars>>

\* Sweeping runs no destructor and looks at no reference count.
SweepLink(l) ==
  /\ life[l] = "live"
  /\ request[creator[l]] = "ending"
  /\ life' = [life EXCEPT ![l] = "gone"]
  /\ ReleaseConnection(l)
  /\ UNCHANGED <<requestVars, creator, script, refCount, resultVars, notice>>

SweepResult(k) ==
  /\ life[k] = "live"
  /\ request[creator[k]] = "ending"
  /\ life' = [life EXCEPT ![k] = "gone"]
  /\ m_res' = [m_res EXCEPT ![k] = FALSE]
  /\ UNCHANGED <<requestVars, creator, script, refCount, linkVars, m_link, connVars>>

-----------------------------------------------------------------------------
ScriptStep(r) ==
  \/ \E l \in Links :
       \/ Connect(r, l)
       \/ PConnect(r, l)
       \/ ChangeStatus(r, l)
       \/ Close(r, l)
       \/ UnsetLink(r, l)
       \/ \E k \in Results : Query(r, l, k)
  \/ \E k \in Results : FreeResult(r, k) \/ UnsetResult(r, k)
  \/ NullDereference(r)
  \/ EndRequest(r)

SweepStep ==
  \/ \E l \in Links : SweepLink(l)
  \/ \E k \in Results : SweepResult(k)

Next == ~crashed /\ (SweepStep \/ \E r \in Requests : ScriptStep(r))

Spec == Init /\ [][Next]_vars

-----------------------------------------------------------------------------
(* Safety *)

Live(l) == life[l] = "live"

\* ReleasedOnce: whatever the order of pg_close, destructor and sweep, in requests
\* that know nothing of each other, a connection that is back in the pool is open
\* and held by nobody, and no two links share one.
ReleasedOnce ==
  /\ \A c \in free : status[c] = "OK"
  /\ \A l \in Links : Live(l) => m_conn[l] \notin free
  /\ \A l, n \in Links :
       Live(l) /\ Live(n) /\ m_conn[l] = m_conn[n] /\ m_conn[l] # NoConn => l = n

\* NothingOutlivesRequest: every open connection is held by a live link or waits
\* in the pool; what an ended and swept request opened is closed or given back.
NothingOutlivesRequest ==
  \A c \in Conns :
    status[c] \in {"OK", "BAD"} =>
      c \in free \/ \E l \in Links : Live(l) /\ m_conn[l] = c

\* NoticeToHolder: a message of the server reaches the link its query runs over,
\* never one of an earlier borrower, whose memory is gone.
NoticeToHolder ==
  \A l \in Links :
    Live(l) /\ m_conn[l] # NoConn /\ status[m_conn[l]] # "finished" =>
      notice[m_conn[l]] = l

\* ResultHasLink: a result that a script can use has a link that exists.
ResultHasLink == \A k \in Results \cap script : Live(m_link[k])

\* DroppedIsReleased: a link that no variable of a running script refers to holds
\* no open connection, unless it has made a result: the constructor of PGSQLResult
\* counts the link once more, and nothing takes that back before the sweep.
DroppedIsReleased ==
  \A l \in Links :
    /\ Live(l)
    /\ request[creator[l]] = "running"
    /\ \A k \in Results : m_link[k] # l
    /\ m_conn[l] # NoConn
    /\ status[m_conn[l]] # "finished"
    => l \in script

-----------------------------------------------------------------------------
(* What the documentation says and the code does not do *)

\* NoNullDereference: a function that is called on a closed persistent link says
\* so; "if (!pgsql->get())" is meant to find out.
NoNullDereference == ~crashed

=============================================================================

------------------------------ MODULE PoolStat ------------------------------
(***************************************************************************)
(* pg_connection_pool_stat over one pool.  A thread of its own reads the   *)
(* seven fields one after the other through accessors that take no lock,   *)
(* while the pool's methods run: what it reports is no state the pool was  *)
(* ever in, yet some relations between the fields survive because of the   *)
(* order in which they are read.                                           *)
(***************************************************************************)
EXTENDS PGSQLConnectionPool

VARIABLES
  seen,    \* the fields read so far
  unread   \* the fields still to be read, in order

statVars == <<seen, unread>>

\* Mutant: the fields in the order of the pool's declarations reversed.
MutantStatFields ==
  <<"free", "total", "errors", "released", "requested", "opened", "sweeped">>

StatFields ==
  <<"sweeped", "opened", "requested", "released", "errors", "total", "free">>

Field(name) ==
  CASE name = "total" -> Cardinality(m_connections)
    [] name = "free"  -> Len(m_availableConnections)
    [] OTHER          -> counter[name]

StatInit ==
  /\ Init
  /\ seen = <<>>
  /\ unread = <<>>

CallStat ==
  /\ unread = <<>>
  /\ unread' = StatFields
  /\ seen' = <<>>
  /\ UNCHANGED vars

ReadField ==
  /\ unread # <<>>
  /\ unread' = Tail(unread)
  /\ seen' = [f \in DOMAIN seen \cup {Head(unread)} |->
                IF f = Head(unread) THEN Field(f) ELSE seen[f]]
  /\ UNCHANGED vars

StatNext ==
  \/ Next /\ UNCHANGED statVars
  \/ CallStat
  \/ ReadField

\* The fairness of the pool; a reader needs none.
StatSpec == StatInit /\ [][StatNext]_<<vars, statVars>> /\ Fairness

-----------------------------------------------------------------------------

\* ReportOrdered: a report never shows more swept connections than opened ones,
\* than releases, nor more opened connections than requests, although the four
\* were read at different times with other threads in between: a connection is
\* requested before it is opened, opened and released before it is swept, and
\* what comes last is read first.
ReportOrdered ==
  /\ {"sweeped", "opened"} \subseteq DOMAIN seen => seen["sweeped"] <= seen["opened"]
  /\ {"sweeped", "released"} \subseteq DOMAIN seen => seen["sweeped"] <= seen["released"]
  /\ {"opened", "requested"} \subseteq DOMAIN seen => seen["opened"] <= seen["requested"]

=============================================================================

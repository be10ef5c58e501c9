--------------------------- MODULE ConnectionLoan ---------------------------
(***************************************************************************)
(* What a connection pool promises its borrowers, with no lock, queue or   *)
(* counter in sight.  A connection is fresh (never opened), free, lent to  *)
(* one thread, or spent.  It is lent to at most one thread at a time, it   *)
(* is handed out only when fresh or free, and a spent connection (closed   *)
(* for good) is never handed out again.                                    *)
(***************************************************************************)
CONSTANTS
  Threads,  \* request threads
  Conns     \* identities of connections, fresh ones included

VARIABLES
  free,     \* connections waiting for a borrower
  lent,     \* the connections each thread has borrowed
  spent     \* connections that are closed for good

vars == <<free, lent, spent>>

Lent == UNION {lent[t] : t \in Threads}

Fresh == Conns \ (free \cup Lent \cup spent)

Init ==
  /\ free  = {}
  /\ lent  = [t \in Threads |-> {}]
  /\ spent = {}

\* A borrower gets a connection that was waiting.
LendFree(t, c) ==
  /\ c \in free
  /\ free' = free \ {c}
  /\ lent' = [lent EXCEPT ![t] = @ \cup {c}]
  /\ UNCHANGED spent

\* A borrower gets a connection opened for it.
LendFresh(t, c) ==
  /\ c \in Fresh
  /\ lent' = [lent EXCEPT ![t] = @ \cup {c}]
  /\ UNCHANGED <<free, spent>>

\* A borrower gives back a connection that can be used again ...
GiveBack(t, c) ==
  /\ c \in lent[t]
  /\ lent' = [lent EXCEPT ![t] = @ \ {c}]
  /\ free' = free \cup {c}
  /\ UNCHANGED spent

\* ... or one that cannot.
Discard(t, c) ==
  /\ c \in lent[t]
  /\ lent'  = [lent EXCEPT ![t] = @ \ {c}]
  /\ spent' = spent \cup {c}
  /\ UNCHANGED free

\* Waiting connections are closed.
CloseFree(C) ==
  /\ C \subseteq free
  /\ free'  = free \ C
  /\ spent' = spent \cup C
  /\ UNCHANGED lent

\* A connection is opened for a borrower in vain.
OpenFails(c) ==
  /\ c \in Fresh
  /\ spent' = spent \cup {c}
  /\ UNCHANGED <<free, lent>>

Next ==
  \/ \E C \in SUBSET Conns : CloseFree(C)
  \/ \E c \in Conns : OpenFails(c)
  \/ \E t \in Threads, c \in Conns :
       \/ LendFree(t, c)
       \/ LendFresh(t, c)
       \/ GiveBack(t, c)
       \/ Discard(t, c)

Spec == Init /\ [][Next]_vars

=============================================================================

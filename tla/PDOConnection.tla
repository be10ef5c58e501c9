---------------------------- MODULE PDOConnection ----------------------------
(***************************************************************************)
(* PDOPgSqlConnection: the transaction calls and exec() of PDO over one    *)
(* connection, and the server session behind it with its transaction       *)
(* status, its prepared statements and its cursors.  PDOStatement adds the *)
(* statements that share the connection.                                   *)
(***************************************************************************)
EXTENDS Naturals

CONSTANTS
  Statements,   \* PDOPgSqlStatement objects, which also stand for their queries
  NoStatement,
  MaxName       \* bound: names of statements and of cursors

ASSUME ConnectionAssumption ==
  /\ NoStatement \notin Statements
  /\ MaxName \in Nat

VARIABLES
  link,       \* what PQstatus says of m_server: "OK" or "BAD"
  session,    \* the session at the server
  inTxn,      \* whether HHVM believes that a transaction is open
  told,       \* ghost: a write of the open transaction was reported as done
  failed,     \* ghost: a call in it has reported a failure
  unnoticed   \* ghost: a command in it has failed that no call reported

ghostVars == <<told, failed, unnoticed>>
connectionVars == <<link, session, inTxn, ghostVars>>

Names == 1..MaxName

-----------------------------------------------------------------------------
(* The session *)

Session ==
  [txn      : {"IDLE", "INTRANS", "INERROR"},
   prepared : [Names -> Statements \cup {NoStatement}],
   cursors  : [Names -> Statements \cup {NoStatement}],
   held     : SUBSET Names,   \* cursors that have outlived their transaction
   pending  : BOOLEAN,   \* the transaction has written something
   kept     : BOOLEAN]   \* the last transaction has made a write durable

NewSession ==
  [txn |-> "IDLE", prepared |-> [n \in Names |-> NoStatement],
   cursors |-> [n \in Names |-> NoStatement], held |-> {}, pending |-> FALSE, kept |-> FALSE]

\* A failed command aborts the transaction it is in.
Aborted ==
  IF session.txn = "INTRANS"
  THEN [session EXCEPT !.txn = "INERROR", !.pending = FALSE]
  ELSE session

\* The end of a transaction: the cursors it declared WITH HOLD stay or go.
\* Prepared statements know nothing of transactions.
Ended(commits) ==
  [session EXCEPT
    !.txn = "IDLE", !.pending = FALSE, !.kept = commits /\ session.pending,
    !.cursors = [n \in Names |-> IF commits \/ n \in session.held
                                 THEN session.cursors[n] ELSE NoStatement],
    !.held = IF commits THEN {n \in Names : session.cursors[n] # NoStatement} ELSE @]

\* Outside a transaction each command commits itself.
CursorDeclared(n, s) ==
  [session EXCEPT !.cursors[n] = s,
                  !.held = IF session.txn = "IDLE" THEN @ \cup {n} ELSE @]

CursorClosed(n) == [session EXCEPT !.cursors[n] = NoStatement, !.held = @ \ {n}]

Written == [session EXCEPT !.pending = @ \/ session.txn = "INTRANS"]

-----------------------------------------------------------------------------
(* Commands: PQexec, PQprepare, PQexecPrepared *)

Results == {"null", "error", "ok"}

\* There is no result on a connection that is known to be lost, and an error on
\* one that is lost meanwhile, which ends the session.
Lost(result) ==
  \/ link = "BAD" /\ result = "null" /\ UNCHANGED <<link, session>>
  \/ link = "OK" /\ result = "error" /\ link' = "BAD" /\ session' = NewSession

\* Otherwise the server executes the command, and after is the session then,
\* if it can; an error may come all the same when the command is one that
\* mayFail, and comes to every command of an aborted transaction.
Exec(result, can, mayFail, after) ==
  \/ Lost(result)
  \/ /\ link = "OK"
     /\ UNCHANGED link
     /\ \/ /\ result = "ok"
           /\ can /\ session.txn # "INERROR"
           /\ session' = after
        \/ /\ result = "error"
           /\ ~can \/ mayFail \/ session.txn = "INERROR"
           /\ session' = Aborted

\* COMMIT and ROLLBACK end an aborted transaction too, and both roll it back.
\* COMMIT may fail, and that also is the end of the transaction.
ExecEnd(result, commits) ==
  \/ Lost(result)
  \/ /\ link = "OK"
     /\ UNCHANGED link
     /\ \/ /\ result = "ok"
           /\ session' = Ended(commits /\ session.txn = "INTRANS")
        \/ /\ result = "error"
           /\ commits /\ session.txn = "INTRANS"
           /\ session' = Ended(FALSE)

-----------------------------------------------------------------------------
ConnectionInit ==
  /\ link = "OK"
  /\ session = NewSession
  /\ inTxn = FALSE
  /\ told = FALSE
  /\ failed = FALSE
  /\ unnoticed = FALSE

\* The script is told how a call went that writes, or that does not.
Reported(ok, writes) ==
  /\ told' = (told \/ (inTxn /\ ok /\ writes))
  /\ failed' = (failed \/ (inTxn /\ ~ok))
  /\ UNCHANGED unnoticed

\* Nobody looks at the result.
Unlooked(result) ==
  /\ unnoticed' = (unnoticed \/ (inTxn /\ result # "ok"))
  /\ UNCHANGED <<told, failed>>

-----------------------------------------------------------------------------
(* Calls *)

\* Mutant: only the absence of a result is a failure.
MutantTransactionCommand(result) == result # "null"

\* Mutant: BEGIN is taken for a query with rows.
MutantTransactionTuples(result) == result = "null"

\* transactionCommand returns -1, which as a bool is TRUE, when there is no
\* result at all.
transactionCommand(result) == result \in {"ok", "null"}

\* PDO::beginTransaction refuses a second one.
begin ==
  /\ ~inTxn
  /\ \E result \in Results :
       /\ Exec(result, TRUE, FALSE, [session EXCEPT !.txn = "INTRANS", !.kept = FALSE])
       /\ inTxn' = transactionCommand(result)
  /\ UNCHANGED ghostVars

\* As long as COMMIT or ROLLBACK fails, PDO believes the transaction open.
EndTransaction(commits) ==
  /\ inTxn
  /\ \E result \in Results :
       /\ ExecEnd(result, commits)
       /\ inTxn' = ~transactionCommand(result)
       /\ IF transactionCommand(result)
          THEN told' = FALSE /\ failed' = FALSE /\ unnoticed' = FALSE
          ELSE Reported(FALSE, FALSE)

commit == EndTransaction(TRUE)

rollback == EndTransaction(FALSE)

\* PDO::exec, of a query that writes or does not.
doer(writes) ==
  /\ \E result \in Results :
       /\ Exec(result, TRUE, TRUE, IF writes THEN Written ELSE session)
       /\ Reported(result = "ok", writes)
  /\ UNCHANGED inTxn

\* PDO::lastInsertId with a name: SELECT CURRVAL fails for an unused sequence,
\* and aborts the transaction as any query does.
lastId ==
  /\ \E result \in Results :
       /\ Exec(result, TRUE, TRUE, session)
       /\ Reported(result = "ok", FALSE)
  /\ UNCHANGED inTxn

ConnectionCall ==
  \/ begin
  \/ commit
  \/ rollback
  \/ lastId
  \/ \E writes \in BOOLEAN : doer(writes)

=============================================================================

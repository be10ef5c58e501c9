---------------------------- MODULE PDOStatement ----------------------------
(***************************************************************************)
(* PDOPgSqlStatement: the statements of one PDO connection, from prepare   *)
(* to the destructor, with the commands each call sends to the session.    *)
(* Statements and cursors are named after two static counters, which all   *)
(* threads increment without a lock.                                       *)
(***************************************************************************)
EXTENDS PDOConnection

CONSTANTS
  Writers,   \* statements whose query writes and has no rows
  MaxRows    \* bound: rows that a query has or a command affects

ASSUME StatementAssumption ==
  /\ Writers \subseteq Statements
  /\ MaxRows \in Nat \ {0}

VARIABLES
  stmt,       \* the statements
  counter,    \* m_stmtNameCounter and m_cursorNameCounter after the last prepare
  wentBack,   \* ghost: a counter has gone back
  leftBehind, \* ghost: destroyed statements whose name is not given back
  pc,         \* the step of executer that comes next, or "idle"
  running     \* the statement it executes

vars == <<connectionVars, stmt, counter, wentBack, leftBehind, pc, running>>

raceVars == <<counter, wentBack>>

Counters == {"named", "cursor"}

-----------------------------------------------------------------------------
(* Statements *)

\* m_result: absent, an error, the end of a command, or n rows of query of.
Result ==
  [is : {"none", "error", "command", "tuples"}, n : 0..MaxRows,
   of : Statements \cup {NoStatement}]

Rows(is, n, q) == [is |-> is, n |-> n, of |-> q]

NoResult == Rows("none", 0, NoStatement)

\* What is left of m_result after a command that did not succeed.
Unsuccessful(result) ==
  IF result = "null" THEN NoResult ELSE Rows("error", 0, NoStatement)

Unused ==
  [phase |-> "unused", kind |-> "plain", name |-> 0, isPrepared |-> FALSE,
   result |-> NoResult, rowCount |-> 0, currentRow |-> 0, executed |-> FALSE]

Live(s) == stmt[s].phase = "live"

TypeOK ==
  /\ link \in {"OK", "BAD"}
  /\ session \in Session
  /\ inTxn \in BOOLEAN
  /\ stmt \in [Statements ->
       [phase : {"unused", "live", "gone"}, kind : Counters \cup {"plain"},
        name : 0..MaxName, isPrepared : BOOLEAN, result : Result,
        rowCount : 0..MaxRows, currentRow : 0..MaxRows, executed : BOOLEAN]]
  /\ counter \in [Counters -> 0..MaxName]
  /\ leftBehind \subseteq Statements
  /\ pc \in {"idle", "close", "declare", "fetch0", "prepare", "deallocate", "run"}
  /\ (pc = "idle") = (running = NoStatement)

Init ==
  /\ ConnectionInit
  /\ stmt = [s \in Statements |-> Unused]
  /\ counter = [k \in Counters |-> 0]
  /\ wentBack = FALSE
  /\ leftBehind = {}
  /\ pc = "idle"
  /\ running = NoStatement

-----------------------------------------------------------------------------
(* prepare *)

\* Mutant: the name is that of the last statement.
MutantNextName(count) == IF count = 0 THEN 1 ELSE count

NextName(count) == count + 1

\* PDO::prepare.  What emulates prepared statements is read from a member that
\* no constructor sets, so without options a statement may be of either kind.
\* Other threads have counted since the last name of this connection; one that
\* had loaded the counter long before stores a value that it has had already.
create(s, k) ==
  /\ stmt[s].phase = "unused"
  /\ IF k = "plain"
     THEN stmt' = [stmt EXCEPT ![s].phase = "live"] /\ UNCHANGED raceVars
     ELSE \E count \in 0..(MaxName - 1) :
            /\ wentBack' = (wentBack \/ count < counter[k])
            /\ counter' = [counter EXCEPT ![k] = NextName(count)]
            /\ stmt' = [stmt EXCEPT ![s].phase = "live", ![s].kind = k,
                                    ![s].name = NextName(count)]
  /\ UNCHANGED <<connectionVars, leftBehind, pc, running>>

\* pdo_parse_params finds an error in the query of a statement that would have
\* been prepared: no name is taken, and PDO drops the statement.
createFails(s) ==
  /\ stmt[s].phase = "unused"
  /\ stmt' = [stmt EXCEPT ![s].phase = "gone"]
  /\ UNCHANGED <<connectionVars, raceVars, leftBehind, pc, running>>

-----------------------------------------------------------------------------
(* execute *)

FirstStep(s) ==
  CASE stmt[s].kind = "cursor" -> IF stmt[s].isPrepared THEN "close" ELSE "declare"
    [] stmt[s].kind = "named"  -> IF stmt[s].isPrepared THEN "run" ELSE "prepare"
    [] stmt[s].kind = "plain"  -> "run"

CallExecute(s) ==
  /\ Live(s)
  /\ stmt' = [stmt EXCEPT ![s].result = NoResult, ![s].currentRow = 0]
  /\ running' = s
  /\ pc' = FirstStep(s)
  /\ UNCHANGED <<connectionVars, raceVars, leftBehind>>

Goto(label) ==
  /\ pc' = label
  /\ UNCHANGED <<running, ghostVars>>

\* executer returns; the number of rows is left as it was when it fails.
Return(ok, writes) ==
  /\ pc' = "idle"
  /\ running' = NoStatement
  /\ Reported(ok, writes)

\* The CLOSE of what is left of the last execution.
CloseCursor(s) ==
  /\ pc = "close"
  /\ \E result \in Results :
       Exec(result, session.cursors[stmt[s].name] # NoStatement, FALSE,
            CursorClosed(stmt[s].name))
  /\ Goto("declare")
  /\ UNCHANGED <<inTxn, stmt, raceVars, leftBehind>>

\* isPrepared says from then on that there may be a cursor to close.
DeclareCursor(s) ==
  /\ pc = "declare"
  /\ \E result \in Results :
       /\ Exec(result, session.cursors[stmt[s].name] = NoStatement, TRUE,
               CursorDeclared(stmt[s].name, s))
       /\ IF result = "ok"
          THEN Goto("fetch0") /\ stmt' = [stmt EXCEPT ![s].isPrepared = TRUE]
          ELSE /\ Return(FALSE, FALSE)
               /\ stmt' = [stmt EXCEPT ![s].result = Unsuccessful(result)]
  /\ UNCHANGED <<inTxn, raceVars, leftBehind>>

\* FETCH FORWARD 0 before the first row gives none.
FetchNone(s) ==
  /\ pc = "fetch0"
  /\ \E result \in Results :
       /\ Exec(result, session.cursors[stmt[s].name] # NoStatement, FALSE, session)
       /\ Return(result = "ok", FALSE)
       /\ stmt' = IF result = "ok"
                  THEN [stmt EXCEPT ![s].result = Rows("tuples", 0, session.cursors[stmt[s].name]),
                                    ![s].rowCount = 0, ![s].executed = TRUE]
                  ELSE [stmt EXCEPT ![s].result = Unsuccessful(result)]
  /\ UNCHANGED <<inTxn, raceVars, leftBehind>>

\* Mutant: prepared before the server has said so.
MutantPrepare(s) ==
  /\ pc = "prepare"
  /\ \E result \in Results :
       /\ Exec(result, session.prepared[stmt[s].name] = NoStatement, TRUE,
               [session EXCEPT !.prepared[stmt[s].name] = s])
       /\ IF result = "ok"
          THEN Goto("run")
          ELSE Return(FALSE, FALSE)
       /\ stmt' = [stmt EXCEPT ![s].isPrepared = TRUE]
  /\ UNCHANGED <<inTxn, raceVars, leftBehind>>

\* The error of a name in use, 42P05, leads to another try.
Prepare(s) ==
  /\ pc = "prepare"
  /\ \E result \in Results :
       /\ Exec(result, session.prepared[stmt[s].name] = NoStatement, TRUE,
               [session EXCEPT !.prepared[stmt[s].name] = s])
       /\ \/ /\ result = "ok"
             /\ stmt' = [stmt EXCEPT ![s].isPrepared = TRUE]
             /\ Goto("run")
          \/ /\ result = "error" /\ link' = "OK" /\ session.txn # "INERROR"
             /\ session.prepared[stmt[s].name] # NoStatement
             /\ Goto("deallocate")
             /\ UNCHANGED stmt
          \/ /\ result # "ok"
             /\ stmt' = [stmt EXCEPT ![s].result = Unsuccessful(result)]
             /\ Return(FALSE, FALSE)
  /\ UNCHANGED <<inTxn, raceVars, leftBehind>>

\* Mutant: tried again without DEALLOCATE.
MutantDeallocate(s) ==
  /\ pc = "deallocate"
  /\ Goto("prepare")
  /\ UNCHANGED <<link, session, inTxn, stmt, raceVars, leftBehind>>

Deallocate(s) ==
  /\ pc = "deallocate"
  /\ \E result \in Results :
       Exec(result, session.prepared[stmt[s].name] # NoStatement, FALSE,
            [session EXCEPT !.prepared[stmt[s].name] = NoStatement])
  /\ Goto("prepare")
  /\ UNCHANGED <<inTxn, stmt, raceVars, leftBehind>>

\* The query that EXECUTE or a plain query runs.
QueryOf(s) ==
  IF stmt[s].kind = "named" THEN session.prepared[stmt[s].name] ELSE s

\* n is the number of rows, or of those that the command has affected: the one
\* number is kept for both, so a fetch walks over rows that are not there.
Run(s) ==
  /\ pc = "run"
  /\ \E result \in Results, n \in 0..MaxRows :
       LET q == QueryOf(s)
           writes == q \in Writers
       IN  /\ Exec(result, q # NoStatement, TRUE, IF writes THEN Written ELSE session)
           /\ result # "ok" => n = 0
           /\ Return(result = "ok", writes)
           /\ stmt' = IF result = "ok"
                      THEN [stmt EXCEPT
                             ![s].result = IF writes THEN Rows("command", 0, q) ELSE Rows("tuples", n, q),
                             ![s].rowCount = n, ![s].executed = TRUE]
                      ELSE [stmt EXCEPT ![s].result = Unsuccessful(result)]
  /\ UNCHANGED <<inTxn, raceVars, leftBehind>>

\* Without as many values as parameters nothing is sent.
ParametersMissing(s) ==
  /\ pc = "run"
  /\ stmt[s].kind = "named"
  /\ Return(FALSE, FALSE)
  /\ UNCHANGED <<link, session, inTxn, stmt, raceVars, leftBehind>>

ExecuteStep(s) ==
  \/ CloseCursor(s)
  \/ DeclareCursor(s)
  \/ FetchNone(s)
  \/ Prepare(s)
  \/ Deallocate(s)
  \/ Run(s)
  \/ ParametersMissing(s)

-----------------------------------------------------------------------------
(* fetch, column metadata, destruction *)

\* Mutant: off by one.
MutantHasNextRow(s) == stmt[s].currentRow <= stmt[s].rowCount

HasNextRow(s) == stmt[s].currentRow < stmt[s].rowCount

\* PDOStatement::fetch, once an execution has succeeded.
fetcher(s) ==
  /\ Live(s)
  /\ stmt[s].executed
  /\ IF stmt[s].kind = "cursor"
     THEN \E result \in Results, n \in 0..1 :
            /\ Exec(result, session.cursors[stmt[s].name] # NoStatement, FALSE, session)
            /\ result # "ok" => n = 0
            /\ stmt' = [stmt EXCEPT
                 ![s].result = IF result = "ok" THEN Rows("tuples", n, session.cursors[stmt[s].name])
                                                ELSE Unsuccessful(result),
                 ![s].currentRow = IF n = 1 THEN 1 ELSE @]
            /\ Reported(result = "ok", FALSE)
     ELSE /\ stmt' = IF HasNextRow(s) THEN [stmt EXCEPT ![s].currentRow = @ + 1] ELSE stmt
          /\ UNCHANGED <<link, session, ghostVars>>
  /\ UNCHANGED <<inTxn, raceVars, leftBehind, pc, running>>

\* A query for the name of a type, whose failure changes nothing in the answer.
getColumnMeta(s) ==
  /\ Live(s)
  /\ stmt[s].executed
  /\ stmt[s].result.is # "none"
  /\ \E result \in Results :
       /\ Exec(result, TRUE, TRUE, session)
       /\ Unlooked(result)
  /\ UNCHANGED <<inTxn, stmt, raceVars, leftBehind, pc, running>>

\* Mutant: DEALLOCATE is left to the end of the session.
MutantClosing(s) == IF stmt[s].kind = "cursor" THEN "CLOSE" ELSE "nothing"

\* The name, if any, that the destructor gives back.
Closing(s) ==
  CASE stmt[s].kind = "named" /\ stmt[s].isPrepared -> "DEALLOCATE"
    [] stmt[s].kind = "cursor"                      -> "CLOSE"
    [] OTHER                                        -> "nothing"

\* The destructor does not look whether the name was given back.
Forgets(s, result) ==
  /\ Unlooked(result)
  /\ leftBehind' = IF result = "ok" THEN leftBehind ELSE leftBehind \cup {s}

\* The destructor, or the sweep at the end of the request.
sweep(s) ==
  LET n == stmt[s].name
  IN  /\ Live(s)
      /\ CASE Closing(s) = "DEALLOCATE" ->
                \E result \in Results :
                  /\ Exec(result, session.prepared[n] # NoStatement, FALSE,
                          [session EXCEPT !.prepared[n] = NoStatement])
                  /\ Forgets(s, result)
           [] Closing(s) = "CLOSE" ->
                \E result \in Results :
                  /\ Exec(result, session.cursors[n] # NoStatement, FALSE,
                          CursorClosed(n))
                  /\ Forgets(s, result)
           [] OTHER -> UNCHANGED <<link, session, ghostVars, leftBehind>>
      /\ stmt' = [stmt EXCEPT ![s] = [Unused EXCEPT !.phase = "gone",
                                                    !.kind = stmt[s].kind, !.name = n]]
      /\ UNCHANGED <<inTxn, raceVars, pc, running>>

-----------------------------------------------------------------------------
\* Any call of the script, made when no other is in progress.
Call ==
  /\ pc = "idle"
  /\ \/ ConnectionCall /\ UNCHANGED <<stmt, raceVars, leftBehind, pc, running>>
     \/ \E s \in Statements :
          \/ \E k \in Counters \cup {"plain"} : create(s, k)
          \/ createFails(s)
          \/ CallExecute(s)
          \/ fetcher(s)
          \/ getColumnMeta(s)
          \/ sweep(s)

CallStep == \E s \in Statements : running = s /\ ExecuteStep(s)

Next == Call \/ CallStep

Spec == Init /\ [][Next]_vars

(***************************************************************************)
(* Fairness.  The server answers each command, or the connection is found  *)
(* to be lost, so an execution that has begun goes on.                     *)
(***************************************************************************)
FairSpec == Spec /\ WF_vars(CallStep)

-----------------------------------------------------------------------------
(* Safety *)

\* TransactionKnown: while the connection is good, the server has no transaction
\* open that PDO does not know of; the next statements would join it.
TransactionKnown == link = "OK" /\ session.txn # "IDLE" => inTxn

\* CommitKeeps: a commit that returns TRUE has made durable what the calls of its
\* transaction reported as written.  This takes a script that stops at the first
\* call that reports a failure, and no command that failed where no call looks at
\* the result: in an aborted transaction COMMIT is a ROLLBACK that succeeds.
CommitKeeps ==
  [][commit /\ ~inTxn' /\ link' = "OK" /\ told
       => session'.kept \/ failed \/ unnoticed]_vars

\* PreparedIsThere: isPrepared, which the statement keeps across transactions and
\* failed executions, agrees with the session, so that no second execution asks
\* for a statement that is not there or is that of another query.
PreparedIsThere ==
  ~wentBack /\ link = "OK" =>
    \A s \in Statements :
      Live(s) /\ stmt[s].kind = "named" /\ stmt[s].isPrepared =>
        session.prepared[stmt[s].name] = s

\* OwnQuery: a statement gives the rows of its own query, unless a race of the
\* threads has set a counter back, so that names were given twice.
OwnQuery ==
  ~wentBack => \A s \in Statements : stmt[s].result.of \in {s, NoStatement}

\* NothingLeftBehind: what the session has prepared or declared is of a live
\* statement, which will give it back; only an aborted transaction, in which the
\* destructor's command fails, leaves something behind.
NothingLeftBehind ==
  \A n \in Names :
    \A s \in {session.prepared[n], session.cursors[n]} \ {NoStatement} :
      Live(s) \/ s \in leftBehind

-----------------------------------------------------------------------------
(* Liveness *)

\* RetryEnds: an execution ends although it prepares again, as often as the server
\* says that the name is in use.
RetryEnds == (pc = "prepare") ~> (pc = "idle")

-----------------------------------------------------------------------------
(* What the documentation says and the code does not do *)

\* BeginBegins: beginTransaction returns TRUE when a transaction has begun.
BeginBegins == [][begin /\ inTxn' => session'.txn = "INTRANS"]_vars

\* CheckedCommit: CommitKeeps, whatever goes on where no call looks.
CheckedCommit ==
  [][commit /\ ~inTxn' /\ link' = "OK" /\ told => session'.kept \/ failed]_vars

=============================================================================

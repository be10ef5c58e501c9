------------------------- MODULE PDOStatementProofs -------------------------
(***************************************************************************)
(* What TLAPS proves of a PDO connection and its statements, for any       *)
(* number of statements, names and rows: PDO knows of the transactions the *)
(* server has open, a commit keeps what was reported as written, and as    *)
(* long as the counters of names only grow, a statement is its own.        *)
(***************************************************************************)
EXTENDS PDOStatement, TLAPS

-----------------------------------------------------------------------------
(* The inductive invariant: transactions *)

\* The types that TypeOK leaves out.
GhostsOK ==
  /\ told \in BOOLEAN /\ failed \in BOOLEAN /\ unnoticed \in BOOLEAN
  /\ wentBack \in BOOLEAN
  /\ running \in Statements \cup {NoStatement}

\* Places of executer where a failed command is about to be met again.
Retrying == {"declare", "prepare", "deallocate"}

\* TransactionOK: on a good connection the server is in the transaction PDO is
\* in, unless the script was told of a failure; an aborted transaction was
\* noticed or is about to be; and what was reported as written is pending.
TransactionOK ==
  /\ TransactionKnown
  /\ ~inTxn => ~told /\ ~failed /\ ~unnoticed
  /\ link = "OK" =>
       /\ inTxn /\ ~failed => session.txn # "IDLE"
       /\ session.txn = "INERROR" => failed \/ unnoticed \/ pc \in Retrying
       /\ told /\ ~failed /\ ~unnoticed /\ session.txn = "INTRANS" => session.pending

-----------------------------------------------------------------------------
(* The inductive invariant: statements *)

\* The statements with a name, live or gone.
Named(s) == stmt[s].phase # "unused" /\ stmt[s].kind \in Counters

\* NamesOK: a name is within the bound, and while no counter has gone back it
\* was given once.
NamesOK ==
  /\ \A s \in Statements : stmt[s].phase = "unused" => stmt[s] = Unused
  /\ \A s \in Statements : Named(s) => stmt[s].name \in Names
  /\ ~wentBack =>
       \A s \in Statements :
         Named(s) =>
           /\ stmt[s].name <= counter[stmt[s].kind]
           /\ \A t \in Statements :
                Named(t) /\ stmt[t].kind = stmt[s].kind /\ stmt[t].name = stmt[s].name => s = t

\* RunningOK: the statement that executer runs is of the kind its place is for.
RunningOK ==
  pc # "idle" =>
    /\ Live(running)
    /\ pc \in {"close", "declare", "fetch0"} => stmt[running].kind = "cursor"
    /\ pc \in {"prepare", "deallocate"} =>
         stmt[running].kind = "named" /\ ~stmt[running].isPrepared
    /\ pc = "run" => stmt[running].kind \in {"named", "plain"}

\* SessionOK: the session knows a statement by its name and for what it is, and a
\* live one knows that it is prepared.
SessionOK ==
  /\ \A n \in Names : \A s \in {session.prepared[n]} \ {NoStatement} :
       /\ (Live(s) /\ stmt[s].isPrepared) \/ (s \in leftBehind /\ stmt[s].phase = "gone")
       /\ stmt[s].kind = "named"
       /\ stmt[s].name = n
  /\ \A n \in Names : \A s \in {session.cursors[n]} \ {NoStatement} :
       /\ Live(s) \/ (s \in leftBehind /\ stmt[s].phase = "gone")
       /\ stmt[s].kind = "cursor"
       /\ stmt[s].name = n

StatementOK == NamesOK /\ RunningOK /\ SessionOK /\ PreparedIsThere /\ OwnQuery

IInv == TypeOK /\ GhostsOK /\ TransactionOK /\ StatementOK

-----------------------------------------------------------------------------
(* The session *)

\* What a failed command, a write and a new session are.
LEMMA PlainSessions ==
  ASSUME session \in Session
  PROVE  /\ Aborted \in Session /\ Written \in Session /\ NewSession \in Session
         /\ Aborted.prepared = session.prepared /\ Aborted.cursors = session.cursors
         /\ Aborted.txn = IF session.txn = "INTRANS" THEN "INERROR" ELSE session.txn
         /\ Written.prepared = session.prepared /\ Written.cursors = session.cursors
         /\ Written.txn = session.txn
         /\ Written.pending = (session.pending \/ session.txn = "INTRANS")
         /\ NewSession.txn = "IDLE"
         /\ \A n \in Names : NewSession.prepared[n] = NoStatement /\ NewSession.cursors[n] = NoStatement
BY DEF Session, Aborted, Written, NewSession

\* The end of a transaction.
LEMMA EndedSession ==
  ASSUME session \in Session, NEW commits \in BOOLEAN
  PROVE  /\ Ended(commits) \in Session
         /\ Ended(commits).txn = "IDLE"
         /\ Ended(commits).kept = (commits /\ session.pending)
         /\ Ended(commits).prepared = session.prepared
         /\ \A n \in Names : Ended(commits).cursors[n] \in {session.cursors[n], NoStatement}
BY DEF Session, Ended

\* DECLARE and CLOSE.
LEMMA CursorSessions ==
  ASSUME session \in Session, NEW n \in Names, NEW s \in Statements
  PROVE  /\ CursorDeclared(n, s) \in Session /\ CursorClosed(n) \in Session
         /\ CursorDeclared(n, s).prepared = session.prepared
         /\ CursorDeclared(n, s).txn = session.txn
         /\ CursorDeclared(n, s).pending = session.pending
         /\ CursorDeclared(n, s).cursors = [session.cursors EXCEPT ![n] = s]
         /\ CursorClosed(n).prepared = session.prepared
         /\ CursorClosed(n).txn = session.txn
         /\ CursorClosed(n).pending = session.pending
         /\ CursorClosed(n).cursors = [session.cursors EXCEPT ![n] = NoStatement]
BY DEF Session, CursorDeclared, CursorClosed

\* The session after PREPARE, or, without a statement, after DEALLOCATE.
NamePrepared(n, s) == [session EXCEPT !.prepared[n] = s]

\* PREPARE and DEALLOCATE.
LEMMA PreparedSession ==
  ASSUME session \in Session, NEW n \in Names, NEW s \in Statements \cup {NoStatement}
  PROVE  /\ NamePrepared(n, s) \in Session
         /\ NamePrepared(n, s).cursors = session.cursors
         /\ NamePrepared(n, s).txn = session.txn
         /\ NamePrepared(n, s).pending = session.pending
         /\ NamePrepared(n, s).prepared = [session.prepared EXCEPT ![n] = s]
BY DEF Session, NamePrepared

\* A command is lost with the connection, executed, or refused.
LEMMA ExecCases ==
  ASSUME session \in Session, link \in {"OK", "BAD"}, NEW result, NEW can, NEW mayFail,
         NEW after \in Session, Exec(result, can, mayFail, after)
  PROVE  /\ session' \in Session /\ link' \in {"OK", "BAD"}
         /\ \/ link' = "BAD" /\ session' \in {session, NewSession} /\ result # "ok"
            \/ link = "OK" /\ link' = "OK" /\ result = "ok" /\ session.txn # "INERROR" /\ session' = after
            \/ link = "OK" /\ link' = "OK" /\ result = "error" /\ session' = Aborted
BY PlainSessions DEF Exec, Lost

-----------------------------------------------------------------------------
(* Transactions *)

\* A command that begins or ends no transaction, and what is said of it: the
\* script is told, or nobody looks, or executer comes back to the failure.
LEMMA CommandKeeps ==
  ASSUME session \in Session, link \in {"OK", "BAD"}, GhostsOK, TransactionOK, inTxn \in BOOLEAN,
         NEW result, NEW can, NEW mayFail, NEW after \in Session,
         Exec(result, can, mayFail, after),
         after.txn = session.txn,
         after.txn = "INTRANS" /\ session.pending => after.pending,
         inTxn' = inTxn,
         pc \in Retrying => pc' \in Retrying \/ result = "ok" \/ Reported(FALSE, FALSE),
         \/ \E writes \in BOOLEAN :
              Reported(result = "ok", writes) /\ (writes => after = Written)
         \/ Unlooked(result)
         \/ UNCHANGED ghostVars /\ (result = "ok" \/ pc' \in Retrying)
  PROVE  TransactionOK'
<1> SUFFICES ASSUME link' = "OK"
             PROVE  TransactionOK'
  <2>1. ASSUME link' # "OK" PROVE TransactionOK'
    BY <2>1 DEF TransactionOK, TransactionKnown, GhostsOK, Reported, Unlooked, ghostVars
  <2>2. QED
    BY <2>1
<1>1. QED
  BY ExecCases, PlainSessions DEF TransactionOK, TransactionKnown, GhostsOK, Reported, Unlooked, ghostVars

\* A live statement that is not plain has a name to send.
LEMMA LiveNames ==
  ASSUME IInv
  PROVE  /\ \A s \in Statements : Live(s) /\ stmt[s].kind \in Counters => stmt[s].name \in Names
         /\ pc \notin {"idle", "run"} =>
              /\ running \in Statements
              /\ stmt[running].name \in Names
<1>1. \A s \in Statements : Live(s) /\ stmt[s].kind \in Counters => stmt[s].name \in Names
  BY DEF IInv, StatementOK, NamesOK, Named, Live
<1>2. QED
  BY <1>1 DEF IInv, TypeOK, GhostsOK, StatementOK, RunningOK, Counters

\* Every call of PDO keeps TransactionOK.
LEMMA ConnectionKeepsTransaction ==
  ASSUME IInv, pc = "idle", pc' = pc, ConnectionCall
  PROVE  TransactionOK'
<1>1. /\ session \in Session /\ link \in {"OK", "BAD"} /\ inTxn \in BOOLEAN
      /\ GhostsOK /\ TransactionOK
  BY DEF IInv, TypeOK
<1>2. CASE begin
  <2>1. PICK result \in Results :
          /\ Exec(result, TRUE, FALSE, [session EXCEPT !.txn = "INTRANS", !.kept = FALSE])
          /\ inTxn' = transactionCommand(result)
    BY <1>2 DEF begin
  <2>2. PICK after : after = [session EXCEPT !.txn = "INTRANS", !.kept = FALSE]
    OBVIOUS
  <2>3. after \in Session /\ after.txn = "INTRANS"
    BY <1>1, <2>2 DEF Session
  <2>4. link = "OK" => session.txn = "IDLE"
    BY <1>1, <1>2 DEF begin, TransactionOK, TransactionKnown
  <2>5. link' = "OK" => inTxn' /\ session'.txn = "INTRANS"
    BY <1>1, <2>1, <2>2, <2>3, <2>4 DEF Exec, Lost, transactionCommand
  <2>6. QED
    BY <1>1, <1>2, <2>1, <2>5
       DEF begin, TransactionOK, TransactionKnown, GhostsOK, ghostVars
<1>3. ASSUME NEW commits \in BOOLEAN, EndTransaction(commits)
      PROVE  TransactionOK'
  <2>1. PICK result \in Results :
          /\ ExecEnd(result, commits)
          /\ inTxn' = ~transactionCommand(result)
          /\ IF transactionCommand(result)
             THEN told' = FALSE /\ failed' = FALSE /\ unnoticed' = FALSE
             ELSE Reported(FALSE, FALSE)
    BY <1>3 DEF EndTransaction
  <2>2. (commits /\ session.txn = "INTRANS") \in BOOLEAN
    BY <1>3
  <2>3. /\ Ended(commits /\ session.txn = "INTRANS").txn = "IDLE"
        /\ Ended(FALSE).txn = "IDLE"
    BY <1>1, <2>2, EndedSession
  <2>4. QED
    BY <1>1, <1>3, <2>1, <2>3
       DEF EndTransaction, ExecEnd, Lost, transactionCommand, Reported, Results,
           TransactionOK, TransactionKnown, GhostsOK, Retrying
<1>4. CASE lastId
  <2>1. PICK result \in Results :
          Exec(result, TRUE, TRUE, session) /\ Reported(result = "ok", FALSE)
    BY <1>4 DEF lastId
  <2>2. QED
    BY <1>1, <1>4, <2>1, CommandKeeps DEF lastId, Retrying
<1>5. ASSUME NEW writes \in BOOLEAN, doer(writes)
      PROVE  TransactionOK'
  <2>1. PICK result \in Results :
          /\ Exec(result, TRUE, TRUE, IF writes THEN Written ELSE session)
          /\ Reported(result = "ok", writes)
    BY <1>5 DEF doer
  <2>2. PICK after : after = IF writes THEN Written ELSE session
    OBVIOUS
  <2>3. after \in Session /\ after.txn = session.txn /\ (session.pending => after.pending)
    BY <1>1, <2>2, PlainSessions
  <2>4. inTxn' = inTxn /\ pc \notin Retrying
    BY <1>5 DEF doer, Retrying
  <2>5. QED
    BY <1>1, <2>1, <2>2, <2>3, <2>4, CommandKeeps
<1>6. QED
  BY <1>2, <1>3, <1>4, <1>5 DEF ConnectionCall, commit, rollback

\* So does every call of a statement.
LEMMA StatementKeepsTransaction ==
  ASSUME IInv, pc = "idle", NEW s \in Statements,
         \/ \E k \in Counters \cup {"plain"} : create(s, k)
         \/ createFails(s) \/ CallExecute(s) \/ fetcher(s) \/ getColumnMeta(s) \/ sweep(s)
  PROVE  TransactionOK'
<1>1. /\ session \in Session /\ link \in {"OK", "BAD"} /\ inTxn \in BOOLEAN
      /\ GhostsOK /\ TransactionOK /\ pc \notin Retrying
  BY DEF IInv, TypeOK, Retrying
<1>2. CASE \E k \in Counters \cup {"plain"} : create(s, k)
  <2>1. UNCHANGED connectionVars /\ UNCHANGED pc
    BY <1>2 DEF create
  <2>2. QED
    BY <1>1, <2>1 DEF connectionVars, ghostVars, TransactionOK, TransactionKnown
<1>7. CASE createFails(s)
  <2>1. UNCHANGED connectionVars /\ UNCHANGED pc
    BY <1>7 DEF createFails
  <2>2. QED
    BY <1>1, <2>1 DEF connectionVars, ghostVars, TransactionOK, TransactionKnown
<1>3. CASE CallExecute(s)
  BY <1>1, <1>3 DEF CallExecute, connectionVars, ghostVars, TransactionOK, TransactionKnown
<1>4. CASE fetcher(s)
  <2>1. CASE stmt[s].kind = "cursor"
    <3>1. PICK result \in Results :
            /\ Exec(result, session.cursors[stmt[s].name] # NoStatement, FALSE, session)
            /\ Reported(result = "ok", FALSE)
      BY <1>4, <2>1 DEF fetcher
    <3>2. inTxn' = inTxn
      BY <1>4 DEF fetcher
    <3>3. QED
      BY <1>1, <3>1, <3>2, CommandKeeps
  <2>2. CASE stmt[s].kind # "cursor"
    BY <1>1, <1>4, <2>2 DEF fetcher, ghostVars, TransactionOK, TransactionKnown
  <2>3. QED
    BY <2>1, <2>2
<1>5. CASE getColumnMeta(s)
  <2>1. PICK result \in Results :
          Exec(result, TRUE, TRUE, session) /\ Unlooked(result)
    BY <1>5 DEF getColumnMeta
  <2>2. inTxn' = inTxn
    BY <1>5 DEF getColumnMeta
  <2>3. QED
    BY <1>1, <2>1, <2>2, CommandKeeps
<1>6. CASE sweep(s)
  <2> DEFINE n == stmt[s].name
  <2>1. inTxn' = inTxn /\ pc' = pc
    BY <1>6 DEF sweep
  <2>2. CASE Closing(s) = "DEALLOCATE"
    <3>1. PICK result \in Results :
            /\ Exec(result, session.prepared[n] # NoStatement, FALSE, NamePrepared(n, NoStatement))
            /\ Unlooked(result)
      BY <1>6, <2>2 DEF sweep, Forgets, NamePrepared
    <3>2. n \in Names
      BY <1>6, <2>2, LiveNames DEF sweep, Closing, Counters
    <3>3. /\ NamePrepared(n, NoStatement) \in Session
          /\ NamePrepared(n, NoStatement).txn = session.txn
          /\ NamePrepared(n, NoStatement).pending = session.pending
      BY <1>1, <3>2, PreparedSession
    <3>4. QED
      BY <1>1, <2>1, <3>1, <3>3, CommandKeeps
  <2>3. CASE Closing(s) = "CLOSE"
    <3>1. PICK result \in Results :
            Exec(result, session.cursors[n] # NoStatement, FALSE, CursorClosed(n)) /\ Unlooked(result)
      BY <1>6, <2>3 DEF sweep, Forgets
    <3>2. n \in Names
      BY <1>6, <2>3, LiveNames DEF sweep, Closing, Counters
    <3>3. /\ CursorClosed(n) \in Session /\ CursorClosed(n).txn = session.txn
          /\ CursorClosed(n).pending = session.pending
      BY <1>1, <3>2, CursorSessions
    <3>4. QED
      BY <1>1, <2>1, <3>1, <3>3, CommandKeeps
  <2>4. CASE Closing(s) = "nothing"
    BY <1>1, <1>6, <2>1, <2>4 DEF sweep, ghostVars, TransactionOK, TransactionKnown
  <2>5. QED
    BY <2>2, <2>3, <2>4 DEF Closing
<1>8. QED
  BY <1>2, <1>3, <1>4, <1>5, <1>6, <1>7

\* And every step of executer: the failures it does not report it meets again.
LEMMA ExecutionKeepsTransaction ==
  ASSUME IInv, NEW s \in Statements, running = s, ExecuteStep(s)
  PROVE  TransactionOK'
<1> DEFINE n == stmt[s].name
<1>1. /\ session \in Session /\ link \in {"OK", "BAD"} /\ inTxn \in BOOLEAN
      /\ GhostsOK /\ TransactionOK
  BY DEF IInv, TypeOK
<1>2. CASE CloseCursor(s)
  <2>1. PICK result \in Results :
          Exec(result, session.cursors[n] # NoStatement, FALSE, CursorClosed(n))
    BY <1>2 DEF CloseCursor
  <2>2. n \in Names
    BY <1>2, LiveNames DEF CloseCursor
  <2>3. /\ CursorClosed(n) \in Session /\ CursorClosed(n).txn = session.txn
        /\ CursorClosed(n).pending = session.pending
    BY <1>1, <2>2, CursorSessions
  <2>4. inTxn' = inTxn /\ pc \notin Retrying /\ pc' \in Retrying /\ UNCHANGED ghostVars
    BY <1>2 DEF CloseCursor, Goto, Retrying
  <2>5. QED
    BY <1>1, <2>1, <2>3, <2>4, CommandKeeps
<1>3. CASE DeclareCursor(s)
  <2>1. PICK result \in Results :
          /\ Exec(result, session.cursors[n] = NoStatement, TRUE, CursorDeclared(n, s))
          /\ IF result = "ok" THEN UNCHANGED ghostVars ELSE Reported(FALSE, FALSE)
    BY <1>3 DEF DeclareCursor, Goto, Return
  <2>2. n \in Names
    BY <1>3, LiveNames DEF DeclareCursor
  <2>3. /\ CursorDeclared(n, s) \in Session /\ CursorDeclared(n, s).txn = session.txn
        /\ CursorDeclared(n, s).pending = session.pending
    BY <1>1, <2>2, CursorSessions
  <2>4. inTxn' = inTxn
    BY <1>3 DEF DeclareCursor
  <2>5. CASE result = "ok"
    BY <1>1, <2>1, <2>3, <2>4, <2>5, CommandKeeps
  <2>6. CASE result # "ok"
    <3>1. Reported(FALSE, FALSE) /\ (result = "ok") = FALSE
      BY <2>1, <2>6
    <3>2. QED
      BY <1>1, <2>1, <2>3, <2>4, <2>6, <3>1, CommandKeeps
  <2>7. QED
    BY <2>5, <2>6
<1>4. CASE FetchNone(s)
  <2>1. PICK result \in Results :
          /\ Exec(result, session.cursors[n] # NoStatement, FALSE, session)
          /\ Reported(result = "ok", FALSE)
    BY <1>4 DEF FetchNone, Return
  <2>2. inTxn' = inTxn /\ pc \notin Retrying
    BY <1>4 DEF FetchNone, Retrying
  <2>3. QED
    BY <1>1, <2>1, <2>2, CommandKeeps
<1>5. CASE Prepare(s)
  <2>1. PICK result \in Results :
          /\ Exec(result, session.prepared[n] = NoStatement, TRUE, NamePrepared(n, s))
          /\ \/ result = "ok" /\ UNCHANGED ghostVars
             \/ pc' = "deallocate" /\ UNCHANGED ghostVars
             \/ result # "ok" /\ Reported(FALSE, FALSE)
    BY <1>5 DEF Prepare, Goto, Return, NamePrepared
  <2>2. n \in Names
    BY <1>5, LiveNames DEF Prepare
  <2>3. /\ NamePrepared(n, s) \in Session /\ NamePrepared(n, s).txn = session.txn
        /\ NamePrepared(n, s).pending = session.pending
    BY <1>1, <2>2, PreparedSession
  <2>4. inTxn' = inTxn
    BY <1>5 DEF Prepare
  <2>5. CASE result = "ok" /\ UNCHANGED ghostVars
    BY <1>1, <2>1, <2>3, <2>4, <2>5, CommandKeeps
  <2>6. CASE pc' = "deallocate" /\ UNCHANGED ghostVars
    <3>1. pc' \in Retrying
      BY <2>6 DEF Retrying
    <3>2. QED
      BY <1>1, <2>1, <2>3, <2>4, <2>6, <3>1, CommandKeeps
  <2>7. CASE result # "ok" /\ Reported(FALSE, FALSE)
    <3>1. (result = "ok") = FALSE
      BY <2>7
    <3>2. QED
      BY <1>1, <2>1, <2>3, <2>4, <2>7, <3>1, CommandKeeps
  <2>8. QED
    BY <2>1, <2>5, <2>6, <2>7
<1>6. CASE Deallocate(s)
  <2>1. PICK result \in Results :
          Exec(result, session.prepared[n] # NoStatement, FALSE, NamePrepared(n, NoStatement))
    BY <1>6 DEF Deallocate, NamePrepared
  <2>2. n \in Names
    BY <1>6, LiveNames DEF Deallocate
  <2>3. /\ NamePrepared(n, NoStatement) \in Session
        /\ NamePrepared(n, NoStatement).txn = session.txn
        /\ NamePrepared(n, NoStatement).pending = session.pending
    BY <1>1, <2>2, PreparedSession
  <2>4. inTxn' = inTxn /\ pc' \in Retrying /\ UNCHANGED ghostVars
    BY <1>6 DEF Deallocate, Goto, Retrying
  <2>5. QED
    BY <1>1, <2>1, <2>3, <2>4, CommandKeeps
<1>7. CASE Run(s)
  <2>1. PICK writes \in BOOLEAN, result \in Results :
          /\ Exec(result, QueryOf(s) # NoStatement, TRUE, IF writes THEN Written ELSE session)
          /\ Reported(result = "ok", writes)
    <3>1. (QueryOf(s) \in Writers) \in BOOLEAN
      OBVIOUS
    <3>2. \E result \in Results :
            /\ Exec(result, QueryOf(s) # NoStatement, TRUE,
                    IF QueryOf(s) \in Writers THEN Written ELSE session)
            /\ Reported(result = "ok", QueryOf(s) \in Writers)
      BY <1>7 DEF Run, Return
    <3>3. QED
      BY <3>1, <3>2
  <2>2. PICK after : after = IF writes THEN Written ELSE session
    OBVIOUS
  <2>3. after \in Session /\ after.txn = session.txn /\ (session.pending => after.pending)
    BY <1>1, <2>2, PlainSessions
  <2>4. inTxn' = inTxn /\ pc \notin Retrying
    BY <1>7 DEF Run, Retrying
  <2>5. QED
    BY <1>1, <2>1, <2>2, <2>3, <2>4, CommandKeeps
<1>8. CASE ParametersMissing(s)
  BY <1>1, <1>8
     DEF ParametersMissing, Return, Reported, TransactionOK, TransactionKnown, GhostsOK, Retrying
<1>9. QED
  BY <1>2, <1>3, <1>4, <1>5, <1>6, <1>7, <1>8 DEF ExecuteStep

-----------------------------------------------------------------------------
(* Statements *)

\* What TypeOK says of one statement.
StatementRecord ==
  [phase : {"unused", "live", "gone"}, kind : Counters \cup {"plain"},
   name : 0..MaxName, isPrepared : BOOLEAN, result : Result,
   rowCount : 0..MaxRows, currentRow : 0..MaxRows, executed : BOOLEAN]

\* The session learns of no statement.
Forgetful ==
  \A n \in Names :
    /\ session'.prepared[n] \in {session.prepared[n], NoStatement}
    /\ session'.cursors[n] \in {session.cursors[n], NoStatement}

\* What the calls of PDO do to the session and to their own variables.
Harmless ==
  /\ session' \in Session /\ link' \in {"OK", "BAD"} /\ inTxn' \in BOOLEAN
  /\ told' \in BOOLEAN /\ failed' \in BOOLEAN /\ unnoticed' \in BOOLEAN
  /\ Forgetful
  /\ link' = "OK" => link = "OK" /\ session'.prepared = session.prepared

\* No statement changes in what its name depends on.
SameNames ==
  \A t \in Statements :
    /\ stmt'[t].phase = stmt[t].phase
    /\ stmt'[t].kind = stmt[t].kind
    /\ stmt'[t].name = stmt[t].name
    /\ stmt'[t].isPrepared = stmt[t].isPrepared
    /\ stmt[t].phase = "unused" => stmt'[t] = stmt[t]

\* A session knows statements.
LEMMA KnownStatements ==
  ASSUME IInv, NEW n \in Names
  PROVE  /\ session.prepared[n] \in Statements \cup {NoStatement}
         /\ session.cursors[n] \in Statements \cup {NoStatement}
BY DEF IInv, TypeOK, Session

\* A command either was executed or taught the session nothing.
LEMMA ExecEffect ==
  ASSUME session \in Session, link \in {"OK", "BAD"}, NEW result, NEW can, NEW mayFail,
         NEW after \in Session, Exec(result, can, mayFail, after)
  PROVE  /\ session' \in Session /\ link' \in {"OK", "BAD"}
         /\ link' = "OK" => link = "OK"
         /\ \/ result = "ok" /\ can /\ link' = "OK" /\ session' = after
            \/ result # "ok" /\ Forgetful /\ (link' = "OK" => session'.prepared = session.prepared)
<1>1. NewSession \in Session /\ Aborted \in Session
  BY PlainSessions
<1>2. CASE Lost(result)
  BY <1>1, <1>2, PlainSessions DEF Lost, Forgetful
<1>3. CASE ~Lost(result)
  BY <1>1, <1>3, PlainSessions DEF Exec, Forgetful
<1>4. QED
  BY <1>2, <1>3

\* A step that leaves the names alone keeps StatementOK if the session learns
\* nothing and the results are the statements' own.
LEMMA QuietStep ==
  ASSUME IInv, SameNames, Forgetful, PreparedIsThere', RunningOK',
         UNCHANGED <<counter, wentBack, leftBehind>>,
         ~wentBack => \A t \in Statements : stmt'[t].result.of \in {t, NoStatement}
  PROVE  StatementOK'
<1>1. NamesOK /\ SessionOK
  BY DEF IInv, StatementOK
<1>2. NamesOK'
  BY <1>1 DEF NamesOK, Named, SameNames
<1>3. SessionOK'
  BY <1>1, KnownStatements DEF SessionOK, SameNames, Forgetful, Live
<1>4. OwnQuery'
  BY DEF OwnQuery
<1>5. QED
  BY <1>2, <1>3, <1>4 DEF StatementOK

\* The calls of PDO leave the statements alone.
LEMMA ConnectionKeepsStatements ==
  ASSUME IInv, ConnectionCall, UNCHANGED <<stmt, raceVars, leftBehind, pc, running>>
  PROVE  TypeOK' /\ GhostsOK' /\ StatementOK'
<1>1. /\ session \in Session /\ link \in {"OK", "BAD"} /\ inTxn \in BOOLEAN
  BY DEF IInv, TypeOK
<1>2. Harmless
  <2>1. GhostsOK
    BY DEF IInv
  <2>2. CASE begin
    <3>1. PICK result \in Results :
            /\ Exec(result, TRUE, FALSE, [session EXCEPT !.txn = "INTRANS", !.kept = FALSE])
            /\ inTxn' = transactionCommand(result)
      BY <2>2 DEF begin
    <3>2. PICK after : after = [session EXCEPT !.txn = "INTRANS", !.kept = FALSE]
      OBVIOUS
    <3>3. /\ after \in Session /\ after.prepared = session.prepared
          /\ after.cursors = session.cursors
      BY <1>1, <3>2 DEF Session
    <3>4. /\ session' \in Session /\ link' \in {"OK", "BAD"} /\ Forgetful
          /\ link' = "OK" => link = "OK" /\ session'.prepared = session.prepared
      <4>1. Exec(result, TRUE, FALSE, after)
        BY <3>1, <3>2
      <4>2. QED
        BY <1>1, <3>3, <4>1, ExecEffect DEF Forgetful
    <3>5. QED
      BY <2>1, <2>2, <3>1, <3>4 DEF begin, GhostsOK, ghostVars, transactionCommand, Harmless
  <2>3. ASSUME NEW commits \in BOOLEAN, EndTransaction(commits)
        PROVE  Harmless
    <3>1. PICK result \in Results :
            /\ ExecEnd(result, commits)
            /\ inTxn' = ~transactionCommand(result)
            /\ IF transactionCommand(result)
               THEN told' = FALSE /\ failed' = FALSE /\ unnoticed' = FALSE
               ELSE Reported(FALSE, FALSE)
      BY <2>3 DEF EndTransaction
    <3>2. (commits /\ session.txn = "INTRANS") \in BOOLEAN
      OBVIOUS
    <3>3. CASE Lost(result)
      BY <1>1, <2>1, <3>1, <3>3, PlainSessions
         DEF Lost, Forgetful, transactionCommand, Reported, GhostsOK, Harmless
    <3>4. CASE ~Lost(result)
      <4>1. PICK c \in BOOLEAN : link = "OK" /\ link' = "OK" /\ session' = Ended(c)
        BY <3>1, <3>2, <3>4 DEF ExecEnd
      <4>2. /\ session' \in Session /\ session'.prepared = session.prepared
            /\ Forgetful
        BY <1>1, <4>1, EndedSession DEF Forgetful
      <4>3. QED
        BY <2>1, <3>1, <4>1, <4>2 DEF transactionCommand, Reported, GhostsOK, Harmless
    <3>5. QED
      BY <3>3, <3>4
  <2>4. ASSUME NEW writes \in BOOLEAN, lastId \/ doer(writes)
        PROVE  Harmless
    <3>1. PICK result \in Results, after \in {session, Written} :
            /\ Exec(result, TRUE, TRUE, after)
            /\ Reported(result = "ok", writes) \/ Reported(result = "ok", FALSE)
      BY <2>4 DEF lastId, doer
    <3>2. /\ after \in Session /\ after.prepared = session.prepared
          /\ after.cursors = session.cursors
      BY <1>1, PlainSessions
    <3>3. /\ session' \in Session /\ link' \in {"OK", "BAD"} /\ Forgetful
          /\ link' = "OK" => link = "OK" /\ session'.prepared = session.prepared
      BY <1>1, <3>1, <3>2, ExecEffect DEF Forgetful
    <3>4. QED
      BY <1>1, <2>1, <2>4, <3>1, <3>3 DEF lastId, doer, Reported, GhostsOK, Harmless
  <2>5. QED
    BY <2>2, <2>3, <2>4 DEF ConnectionCall, commit, rollback
<1>3. TypeOK' /\ GhostsOK'
  BY <1>2 DEF IInv, TypeOK, GhostsOK, raceVars, Harmless
<1>4. SameNames /\ RunningOK' /\ PreparedIsThere'
  BY <1>2 DEF Harmless, IInv, SameNames, StatementOK, RunningOK, PreparedIsThere, Live, raceVars
<1>5. ~wentBack => \A t \in Statements : stmt'[t].result.of \in {t, NoStatement}
  BY DEF IInv, StatementOK, OwnQuery
<1>6. QED
  BY <1>2, <1>3, <1>4, <1>5, QuietStep DEF raceVars, Harmless

\* A new statement has a name of its own unless a counter has gone back.
LEMMA CreateKeepsStatements ==
  ASSUME IInv, pc = "idle", NEW s \in Statements, NEW k \in Counters \cup {"plain"}, create(s, k)
  PROVE  TypeOK' /\ GhostsOK' /\ StatementOK'
<1>1. /\ stmt[s] = Unused
      /\ stmt \in [Statements -> StatementRecord]
      /\ counter \in [Counters -> 0..MaxName]
      /\ wentBack \in BOOLEAN
      /\ MaxName \in Nat /\ MaxRows \in Nat /\ NoStatement \notin Statements
  BY ConnectionAssumption, StatementAssumption
     DEF IInv, StatementOK, NamesOK, create, TypeOK, StatementRecord, GhostsOK
<1>2. PICK name \in 0..MaxName :
        /\ stmt' \in [Statements -> StatementRecord]
        /\ \A t \in Statements : t # s => stmt'[t] = stmt[t]
        /\ stmt'[s].phase = "live" /\ stmt'[s].kind = k /\ stmt'[s].name = name
        /\ stmt'[s].isPrepared = FALSE /\ stmt'[s].result.of = NoStatement
        /\ \/ k = "plain" /\ name = 0 /\ UNCHANGED raceVars
           \/ /\ k \in Counters
              /\ name \in Names
              /\ counter' = [counter EXCEPT ![k] = name]
              /\ wentBack' \in BOOLEAN
              /\ ~wentBack' => ~wentBack /\ name > counter[k]
  <2>1. CASE k = "plain"
    <3>1. stmt' = [stmt EXCEPT ![s].phase = "live"] /\ UNCHANGED raceVars
      BY <2>1 DEF create
    <3>2. stmt' \in [Statements -> StatementRecord]
      BY <1>1, <3>1 DEF StatementRecord
    <3>3. QED
      BY <1>1, <2>1, <3>1, <3>2 DEF Unused, NoResult, Rows
  <2>2. CASE k # "plain"
    <3>1. PICK count \in 0..(MaxName - 1) :
            /\ wentBack' = (wentBack \/ count < counter[k])
            /\ counter' = [counter EXCEPT ![k] = NextName(count)]
            /\ stmt' = [stmt EXCEPT ![s].phase = "live", ![s].kind = k,
                                    ![s].name = NextName(count)]
      BY <2>2 DEF create
    <3>2. NextName(count) \in Names /\ NextName(count) = count + 1
      BY <1>1 DEF NextName, Names
    <3>3. k \in Counters
      BY <2>2
    <3>4. NextName(count) \in 0..MaxName
      BY <1>1, <3>2 DEF Names
    <3>5. counter[k] \in 0..MaxName
      BY <1>1, <3>3
    <3>6. ~wentBack' => ~wentBack /\ NextName(count) > counter[k]
      <4>1. ~wentBack' => ~wentBack /\ ~(count < counter[k])
        BY <3>1
      <4>2. ~(count < counter[k]) => NextName(count) > counter[k]
        BY <1>1, <3>2, <3>5
      <4>3. QED
        BY <4>1, <4>2
    <3>7. stmt' \in [Statements -> StatementRecord]
      <4>1. PICK f : f = [stmt EXCEPT ![s].phase = "live"]
        OBVIOUS
      <4>2. PICK g : g = [f EXCEPT ![s].kind = k]
        OBVIOUS
      <4>3. stmt' = [g EXCEPT ![s].name = NextName(count)]
        BY <3>1, <4>1, <4>2
      <4>4. f \in [Statements -> StatementRecord]
        BY <1>1, <4>1 DEF StatementRecord
      <4>5. g \in [Statements -> StatementRecord]
        BY <3>3, <4>2, <4>4 DEF StatementRecord
      <4>6. QED
        BY <3>4, <4>3, <4>5 DEF StatementRecord
    <3>8. /\ \A t \in Statements : t # s => stmt'[t] = stmt[t]
          /\ stmt'[s].phase = "live" /\ stmt'[s].kind = k /\ stmt'[s].name = NextName(count)
          /\ stmt'[s].isPrepared = FALSE /\ stmt'[s].result.of = NoStatement
      BY <1>1, <3>1 DEF Unused, NoResult, Rows
    <3>9. QED
      BY <1>1, <3>1, <3>2, <3>3, <3>4, <3>6, <3>7, <3>8
  <2>3. QED
    BY <2>1, <2>2
<1>3. UNCHANGED <<connectionVars, leftBehind, pc, running>>
  BY DEF create
<1>4. /\ stmt'[s].phase = "live" /\ stmt'[s].kind = k /\ stmt'[s].name = name
      /\ stmt'[s].isPrepared = FALSE /\ stmt'[s].result.of = NoStatement
      /\ \A t \in Statements : t # s => stmt'[t] = stmt[t]
  BY <1>2
<1>5. TypeOK' /\ GhostsOK'
  <2>1. counter' \in [Counters -> 0..MaxName] /\ wentBack' \in BOOLEAN
    BY <1>1, <1>2 DEF raceVars
  <2>2. QED
    BY <1>2, <1>3, <2>1
       DEF IInv, TypeOK, GhostsOK, StatementRecord, connectionVars, ghostVars
<1>6. NamesOK'
  <2>1. \A t \in Statements : stmt'[t].phase = "unused" => stmt'[t] = Unused
    BY <1>4 DEF IInv, StatementOK, NamesOK
  <2>2. \A t \in Statements : Named(t)' => stmt'[t].name \in Names
    BY <1>2, <1>4 DEF IInv, StatementOK, NamesOK, Named, Counters
  <2>3. ASSUME ~wentBack', NEW t \in Statements, Named(t)'
        PROVE  /\ stmt'[t].name <= counter'[stmt'[t].kind]
               /\ \A u \in Statements :
                    Named(u)' /\ stmt'[u].kind = stmt'[t].kind /\ stmt'[u].name = stmt'[t].name => t = u
    <3>1. ~wentBack
      BY <1>2, <2>3 DEF raceVars
    <3>2. \A u \in Statements :
            u # s /\ Named(u)' =>
              /\ Named(u) /\ stmt'[u] = stmt[u] /\ stmt[u].kind \in Counters
              /\ stmt[u].name \in Names
              /\ stmt[u].name <= counter[stmt[u].kind]
      BY <1>4, <3>1 DEF IInv, StatementOK, NamesOK, Named
    <3>3. k \in Counters => name > counter[k] /\ counter'[k] = name
      BY <1>1, <1>2, <2>3 DEF Counters
    <3>4. \A c \in Counters : counter'[c] \in Nat /\ counter[c] \in Nat /\ counter'[c] >= counter[c]
      BY <1>1, <1>2, <3>3 DEF raceVars
    <3>5. \A u \in Statements : Named(u)' => stmt'[u].name <= counter'[stmt'[u].kind]
      <4>1. ASSUME NEW u \in Statements, Named(u)', u # s
            PROVE  stmt'[u].name <= counter'[stmt'[u].kind]
        <5>1. stmt[u].name \in Nat
          BY <3>2, <4>1 DEF Names
        <5>2. QED
          BY <3>2, <3>4, <4>1, <5>1
      <4>2. Named(s)' => stmt'[s].name <= counter'[stmt'[s].kind]
        BY <1>4, <3>3, <1>2 DEF Named
      <4>3. QED
        BY <4>1, <4>2
    <3>6. \A u \in Statements :
            u # s /\ Named(u)' /\ Named(s)' /\ stmt'[u].kind = stmt'[s].kind => stmt'[u].name # stmt'[s].name
      BY <1>1, <1>2, <1>4, <3>2, <3>3 DEF Named, Names
    <3>7. QED
      BY <2>3, <3>1, <3>2, <3>5, <3>6 DEF IInv, StatementOK, NamesOK
  <2>4. QED
    BY <2>1, <2>2, <2>3 DEF NamesOK
<1>7. SessionOK'
  <2>1. \A n \in Names : session.prepared[n] # s /\ session.cursors[n] # s
    BY <1>1 DEF IInv, StatementOK, SessionOK, Unused
  <2>2. QED
    BY <1>3, <1>4, <2>1, KnownStatements
       DEF IInv, StatementOK, SessionOK, Live, connectionVars
<1>8. RunningOK'
  BY <1>3 DEF RunningOK
<1>9. PreparedIsThere'
  <2>1. ~wentBack' => ~wentBack
    BY <1>2 DEF raceVars
  <2>2. QED
    BY <1>3, <1>4, <2>1 DEF IInv, StatementOK, PreparedIsThere, Live, connectionVars
<1>10. OwnQuery'
  <2>1. ~wentBack' => ~wentBack
    BY <1>2 DEF raceVars
  <2>2. QED
    BY <1>4, <2>1 DEF IInv, StatementOK, OwnQuery
<1>11. QED
  BY <1>5, <1>6, <1>7, <1>8, <1>9, <1>10 DEF StatementOK

\* A statement that was not made has no name and stays out of the session.
LEMMA CreateFailsKeeps ==
  ASSUME IInv, pc = "idle", NEW s \in Statements, createFails(s)
  PROVE  TypeOK' /\ GhostsOK' /\ StatementOK'
<1>1. /\ stmt[s] = Unused
      /\ stmt \in [Statements -> StatementRecord]
      /\ NoStatement \notin Statements
  BY ConnectionAssumption DEF IInv, StatementOK, NamesOK, createFails, TypeOK, StatementRecord
<1>2. /\ stmt' = [stmt EXCEPT ![s].phase = "gone"]
      /\ UNCHANGED <<connectionVars, raceVars, leftBehind, pc, running>>
  BY DEF createFails
<1>3. /\ stmt' \in [Statements -> StatementRecord]
      /\ \A t \in Statements : t # s => stmt'[t] = stmt[t]
      /\ stmt'[s].phase = "gone" /\ stmt'[s].kind = "plain"
      /\ stmt'[s].result.of = NoStatement
  <2>1. stmt' \in [Statements -> StatementRecord]
    BY <1>1, <1>2 DEF StatementRecord
  <2>2. QED
    BY <1>1, <1>2, <2>1 DEF Unused, NoResult, Rows
<1>4. TypeOK' /\ GhostsOK'
  BY <1>2, <1>3 DEF IInv, TypeOK, GhostsOK, StatementRecord, connectionVars, ghostVars, raceVars
<1>5. NamesOK'
  BY <1>2, <1>3 DEF IInv, StatementOK, NamesOK, Named, Counters, raceVars
<1>6. SessionOK'
  <2>1. \A n \in Names : session.prepared[n] # s /\ session.cursors[n] # s
    BY <1>1 DEF IInv, StatementOK, SessionOK, Unused
  <2>2. QED
    BY <1>2, <1>3, <2>1, KnownStatements
       DEF IInv, StatementOK, SessionOK, Live, connectionVars
<1>7. RunningOK'
  <2>1. pc' = "idle"
    BY <1>2
  <2>2. QED
    BY <2>1 DEF RunningOK
<1>8. PreparedIsThere'
  BY <1>2, <1>3 DEF IInv, StatementOK, PreparedIsThere, Live, connectionVars, raceVars
<1>9. OwnQuery'
  BY <1>2, <1>3 DEF IInv, StatementOK, OwnQuery, raceVars
<1>10. QED
  BY <1>4, <1>5, <1>6, <1>7, <1>8, <1>9 DEF StatementOK

\* The answers a statement may keep.
LEMMA AnswerTypes ==
  /\ NoResult \in Result /\ NoResult.of = NoStatement
  /\ \A result : Unsuccessful(result) \in Result /\ Unsuccessful(result).of = NoStatement
  /\ \A is \in {"command", "tuples"}, n \in 0..MaxRows, q \in Statements \cup {NoStatement} :
       Rows(is, n, q) \in Result /\ Rows(is, n, q).of = q
<1>1. 0 \in 0..MaxRows
  BY StatementAssumption
<1>2. QED
  BY <1>1 DEF NoResult, Unsuccessful, Rows, Result

\* A statement takes the answer r, with a cursor or a number of rows.
Answers(s, r, n) ==
  \/ stmt' = [stmt EXCEPT ![s].result = r]
  \/ stmt' = [stmt EXCEPT ![s].result = r, ![s].currentRow = n]
  \/ stmt' = [stmt EXCEPT ![s].result = r, ![s].rowCount = n, ![s].executed = TRUE]

\* A statement that only takes an answer keeps its name and its type.
LEMMA AnswerStep ==
  ASSUME IInv, NEW s \in Statements, Live(s), NEW r \in Result, NEW n \in 0..MaxRows, Answers(s, r, n)
  PROVE  /\ stmt' \in [Statements -> StatementRecord]
         /\ SameNames
         /\ stmt'[s].result = r
         /\ \A t \in Statements : t # s => stmt'[t] = stmt[t]
<1>1. stmt \in [Statements -> StatementRecord] /\ stmt[s].phase = "live"
  BY DEF IInv, TypeOK, StatementRecord, Live
<1>2. PICK f : f = [stmt EXCEPT ![s].result = r]
  OBVIOUS
<1>3. /\ f \in [Statements -> StatementRecord]
      /\ f[s].result = r /\ f[s].phase = stmt[s].phase /\ f[s].kind = stmt[s].kind
      /\ f[s].name = stmt[s].name /\ f[s].isPrepared = stmt[s].isPrepared
      /\ \A t \in Statements : t # s => f[t] = stmt[t]
  BY <1>1, <1>2 DEF StatementRecord
<1>4. \/ stmt' = f
      \/ stmt' = [f EXCEPT ![s].currentRow = n]
      \/ stmt' = [f EXCEPT ![s].rowCount = n, ![s].executed = TRUE]
  BY <1>2 DEF Answers
<1>5. CASE stmt' = f
  BY <1>1, <1>3, <1>5 DEF SameNames
<1>6. CASE stmt' = [f EXCEPT ![s].currentRow = n]
  <2>1. stmt' \in [Statements -> StatementRecord]
    BY <1>3, <1>6 DEF StatementRecord
  <2>2. QED
    BY <1>1, <1>3, <1>6, <2>1 DEF SameNames, StatementRecord
<1>7. CASE stmt' = [f EXCEPT ![s].rowCount = n, ![s].executed = TRUE]
  <2>1. PICK g : g = [f EXCEPT ![s].rowCount = n]
    OBVIOUS
  <2>2. stmt' = [g EXCEPT ![s].executed = TRUE]
    BY <1>7, <2>1
  <2>3. /\ g \in [Statements -> StatementRecord]
        /\ g[s].result = r /\ g[s].phase = stmt[s].phase /\ g[s].kind = stmt[s].kind
        /\ g[s].name = stmt[s].name /\ g[s].isPrepared = stmt[s].isPrepared
        /\ \A t \in Statements : t # s => g[t] = stmt[t]
    BY <1>3, <2>1 DEF StatementRecord
  <2>4. stmt' \in [Statements -> StatementRecord]
    <3>1. g[s] \in StatementRecord
      BY <2>3
    <3>2. [g[s] EXCEPT !.executed = TRUE] \in StatementRecord
      BY <3>1 DEF StatementRecord
    <3>3. QED
      BY <2>2, <2>3, <3>2
  <2>5. /\ stmt'[s].result = r /\ stmt'[s].phase = stmt[s].phase /\ stmt'[s].kind = stmt[s].kind
        /\ stmt'[s].name = stmt[s].name /\ stmt'[s].isPrepared = stmt[s].isPrepared
    BY <2>2, <2>3 DEF StatementRecord
  <2>6. \A t \in Statements : t # s => stmt'[t] = stmt[t]
    BY <2>2, <2>3
  <2>7. QED
    BY <1>1, <2>4, <2>5, <2>6 DEF SameNames
<1>8. QED
  BY <1>4, <1>5, <1>6, <1>7

\* What the session has under the name of a live statement is that statement's,
\* unless a name was given twice.
LEMMA OwnName ==
  ASSUME IInv, ~wentBack, NEW s \in Statements, Live(s)
  PROVE  /\ stmt[s].kind = "cursor" => session.cursors[stmt[s].name] \in {s, NoStatement}
         /\ stmt[s].kind = "named" => session.prepared[stmt[s].name] \in {s, NoStatement}
<1>1. Named(s) <=> stmt[s].kind \in Counters
  BY DEF Live, Named
<1>2. ASSUME NEW t \in Statements, Named(t), Named(s), stmt[t].kind = stmt[s].kind,
             stmt[t].name = stmt[s].name
      PROVE  t = s
  BY <1>2 DEF IInv, StatementOK, NamesOK
<1>3. stmt[s].kind \in Counters => stmt[s].name \in Names
  BY LiveNames
<1>4. CASE stmt[s].kind = "cursor"
  BY <1>1, <1>2, <1>3, <1>4, KnownStatements
     DEF IInv, StatementOK, SessionOK, Named, Live, Counters
<1>5. CASE stmt[s].kind = "named"
  BY <1>1, <1>2, <1>3, <1>5, KnownStatements
     DEF IInv, StatementOK, SessionOK, Named, Live, Counters
<1>6. QED
  BY <1>4, <1>5

\* What is prepared stays while the session's statements do.
LEMMA PreparedStays ==
  ASSUME IInv, SameNames, UNCHANGED wentBack,
         link' = "OK" => link = "OK" /\ session'.prepared = session.prepared
  PROVE  PreparedIsThere'
BY DEF IInv, StatementOK, PreparedIsThere, SameNames, Live

\* The places of executer.
Places == {"idle", "close", "declare", "fetch0", "prepare", "deallocate", "run"}

\* What a call that is reported, or a step of executer, leaves of the types.
StepTypes ==
  /\ stmt' \in [Statements -> StatementRecord]
  /\ told' \in BOOLEAN /\ failed' \in BOOLEAN /\ unnoticed' \in BOOLEAN
  /\ pc' \in Places
  /\ running' \in Statements \cup {NoStatement}
  /\ (pc' = "idle") = (running' = NoStatement)
  /\ UNCHANGED <<inTxn, counter, wentBack, leftBehind>>

\* The ghosts are Booleans after any command.
LEMMA GhostTypes ==
  ASSUME GhostsOK, NEW result, NEW ok, NEW writes,
         UNCHANGED ghostVars \/ Reported(ok, writes) \/ Unlooked(result)
  PROVE  told' \in BOOLEAN /\ failed' \in BOOLEAN /\ unnoticed' \in BOOLEAN
BY DEF GhostsOK, ghostVars, Reported, Unlooked

\* A step keeps the invariant if it leaves the names alone, the session learns
\* nothing, and no statement takes another's answer.
LEMMA QuietKeeps ==
  ASSUME IInv, StepTypes, session' \in Session, link' \in {"OK", "BAD"},
         SameNames, Forgetful, PreparedIsThere', RunningOK',
         ~wentBack => \A t \in Statements : stmt'[t].result.of \in {t, NoStatement}
  PROVE  TypeOK' /\ GhostsOK' /\ StatementOK'
<1>1. TypeOK' /\ GhostsOK'
  BY DEF IInv, TypeOK, GhostsOK, StepTypes, StatementRecord, Places
<1>2. StatementOK'
  BY QuietStep DEF StepTypes
<1>3. QED
  BY <1>1, <1>2

\* The facts the steps of executer start from.
LEMMA RunningFacts ==
  ASSUME IInv, pc # "idle"
  PROVE  /\ running \in Statements /\ Live(running)
         /\ session \in Session /\ link \in {"OK", "BAD"} /\ GhostsOK
         /\ stmt \in [Statements -> StatementRecord]
         /\ RunningOK /\ OwnQuery
BY DEF IInv, TypeOK, GhostsOK, StatementOK, RunningOK, StatementRecord

\* Nothing changes in statements that a step does not mention.
LEMMA SameStatements ==
  ASSUME IInv, UNCHANGED stmt
  PROVE  /\ stmt' \in [Statements -> StatementRecord]
         /\ SameNames
         /\ ~wentBack => \A t \in Statements : stmt'[t].result.of \in {t, NoStatement}
BY DEF IInv, TypeOK, StatementRecord, SameNames, StatementOK, OwnQuery

\* A call of execute finds the place to begin at.
LEMMA CallExecuteKeeps ==
  ASSUME IInv, pc = "idle", NEW s \in Statements, CallExecute(s)
  PROVE  TypeOK' /\ GhostsOK' /\ StatementOK'
<1>1. /\ Live(s)
      /\ stmt' = [stmt EXCEPT ![s].result = NoResult, ![s].currentRow = 0]
      /\ running' = s /\ pc' = FirstStep(s)
      /\ UNCHANGED <<link, session, inTxn, ghostVars, raceVars, leftBehind>>
  BY DEF CallExecute, connectionVars
<1>2. /\ session \in Session /\ link \in {"OK", "BAD"} /\ GhostsOK /\ OwnQuery
      /\ stmt \in [Statements -> StatementRecord]
  BY DEF IInv, TypeOK, StatementOK, StatementRecord
<1>3. 0 \in 0..MaxRows
  BY StatementAssumption
<1>4. Answers(s, NoResult, 0)
  BY <1>1 DEF Answers
<1>5. /\ stmt' \in [Statements -> StatementRecord]
      /\ SameNames
      /\ stmt'[s].result = NoResult
      /\ \A t \in Statements : t # s => stmt'[t] = stmt[t]
  BY <1>1, <1>3, <1>4, AnswerStep, AnswerTypes
<1>6. ~wentBack => \A t \in Statements : stmt'[t].result.of \in {t, NoStatement}
  BY <1>2, <1>5, AnswerTypes DEF OwnQuery
<1>7. stmt[s].kind \in {"cursor", "named", "plain"} /\ stmt[s].isPrepared \in BOOLEAN
  BY <1>2 DEF StatementRecord, Counters
<1>8. RunningOK' /\ pc' \in Places \ {"idle"}
  BY <1>1, <1>5, <1>7 DEF RunningOK, FirstStep, SameNames, Live, Places
<1>9. Forgetful /\ PreparedIsThere'
  BY <1>1, <1>5, PreparedStays DEF Forgetful, raceVars
<1>10. StepTypes
  BY <1>1, <1>2, <1>5, <1>8, ConnectionAssumption DEF StepTypes, GhostsOK, ghostVars, raceVars
<1>11. QED
  BY <1>1, <1>2, <1>5, <1>6, <1>8, <1>9, <1>10, QuietKeeps

\* CLOSE before another DECLARE.
LEMMA CloseCursorKeeps ==
  ASSUME IInv, NEW s \in Statements, running = s, CloseCursor(s)
  PROVE  TypeOK' /\ GhostsOK' /\ StatementOK'
<1> DEFINE n == stmt[s].name
<1>1. /\ pc = "close" /\ pc' = "declare" /\ running' = s
      /\ UNCHANGED <<inTxn, stmt, counter, wentBack, leftBehind>> /\ UNCHANGED ghostVars
  BY DEF CloseCursor, Goto, raceVars
<1>2. PICK result \in Results :
        Exec(result, session.cursors[n] # NoStatement, FALSE, CursorClosed(n))
  BY DEF CloseCursor
<1>3. /\ session \in Session /\ link \in {"OK", "BAD"} /\ GhostsOK /\ RunningOK /\ n \in Names
  BY <1>1, RunningFacts, LiveNames
<1>4. /\ CursorClosed(n) \in Session /\ CursorClosed(n).prepared = session.prepared
      /\ CursorClosed(n).cursors = [session.cursors EXCEPT ![n] = NoStatement]
      /\ session.cursors \in [Names -> Statements \cup {NoStatement}]
  BY <1>3, CursorSessions DEF Session
<1>5. /\ session' \in Session /\ link' \in {"OK", "BAD"}
      /\ link' = "OK" => link = "OK" /\ session'.prepared = session.prepared
      /\ Forgetful
  BY <1>2, <1>3, <1>4, ExecEffect DEF Forgetful
<1>6. /\ stmt' \in [Statements -> StatementRecord] /\ SameNames
      /\ ~wentBack => \A t \in Statements : stmt'[t].result.of \in {t, NoStatement}
  BY <1>1, SameStatements
<1>7. RunningOK' /\ PreparedIsThere'
  BY <1>1, <1>3, <1>5, <1>6, PreparedStays DEF RunningOK, SameNames, Live
<1>8. StepTypes
  BY <1>1, <1>3, <1>6, ConnectionAssumption DEF StepTypes, Places, GhostsOK, ghostVars
<1>9. QED
  BY <1>5, <1>6, <1>7, <1>8, QuietKeeps

\* FETCH FORWARD 0: the columns of the cursor, which is the statement's own.
LEMMA FetchNoneKeeps ==
  ASSUME IInv, NEW s \in Statements, running = s, FetchNone(s)
  PROVE  TypeOK' /\ GhostsOK' /\ StatementOK'
<1> DEFINE n == stmt[s].name
           of == session.cursors[n]
<1>1. /\ pc = "fetch0" /\ pc' = "idle" /\ running' = NoStatement
      /\ UNCHANGED <<inTxn, counter, wentBack, leftBehind>>
  BY DEF FetchNone, Return, raceVars
<1>2. PICK result \in Results :
        /\ Exec(result, session.cursors[n] # NoStatement, FALSE, session)
        /\ Reported(result = "ok", FALSE)
        /\ stmt' = IF result = "ok"
                   THEN [stmt EXCEPT ![s].result = Rows("tuples", 0, of),
                                     ![s].rowCount = 0, ![s].executed = TRUE]
                   ELSE [stmt EXCEPT ![s].result = Unsuccessful(result)]
  BY DEF FetchNone, Return
<1>3. /\ session \in Session /\ link \in {"OK", "BAD"} /\ GhostsOK /\ n \in Names
      /\ Live(s) /\ OwnQuery /\ stmt[s].kind = "cursor"
  BY <1>1, RunningFacts, LiveNames DEF RunningOK
<1>4. of \in Statements \cup {NoStatement} /\ (~wentBack => of \in {s, NoStatement})
  BY <1>3, KnownStatements, OwnName
<1>5. PICK r \in Result :
        /\ r.of \in {of, NoStatement}
        /\ Answers(s, r, 0)
  <2>1. 0 \in 0..MaxRows
    BY StatementAssumption
  <2>2. Rows("tuples", 0, of) \in Result /\ Rows("tuples", 0, of).of = of
    BY <1>4, <2>1, AnswerTypes
  <2>3. CASE result = "ok"
    BY <1>2, <2>2, <2>3 DEF Answers
  <2>4. CASE result # "ok"
    BY <1>2, <2>4, AnswerTypes DEF Answers
  <2>5. QED
    BY <2>3, <2>4
<1>6. /\ stmt' \in [Statements -> StatementRecord] /\ SameNames
      /\ stmt'[s].result = r /\ \A t \in Statements : t # s => stmt'[t] = stmt[t]
  <2>1. 0 \in 0..MaxRows
    BY StatementAssumption
  <2>2. QED
    BY <1>3, <1>5, <2>1, AnswerStep
<1>7. ~wentBack => \A t \in Statements : stmt'[t].result.of \in {t, NoStatement}
  BY <1>3, <1>4, <1>5, <1>6 DEF OwnQuery
<1>8. /\ session' \in Session /\ link' \in {"OK", "BAD"} /\ Forgetful
      /\ link' = "OK" => link = "OK" /\ session'.prepared = session.prepared
  BY <1>2, <1>3, ExecEffect DEF Forgetful
<1>9. RunningOK' /\ PreparedIsThere'
  BY <1>1, <1>6, <1>8, PreparedStays DEF RunningOK
<1>10. StepTypes
  BY <1>1, <1>2, <1>3, <1>6, GhostTypes DEF StepTypes, Places
<1>11. QED
  BY <1>6, <1>7, <1>8, <1>9, <1>10, QuietKeeps

\* EXECUTE, or the plain query.
LEMMA RunKeeps ==
  ASSUME IInv, NEW s \in Statements, running = s, Run(s)
  PROVE  TypeOK' /\ GhostsOK' /\ StatementOK'
<1> DEFINE q == QueryOf(s)
<1>1. /\ pc = "run" /\ pc' = "idle" /\ running' = NoStatement
      /\ UNCHANGED <<inTxn, counter, wentBack, leftBehind>>
  BY DEF Run, Return, raceVars
<1>2. PICK result \in Results, n \in 0..MaxRows :
        /\ Exec(result, q # NoStatement, TRUE, IF q \in Writers THEN Written ELSE session)
        /\ Reported(result = "ok", q \in Writers)
        /\ stmt' = IF result = "ok"
                   THEN [stmt EXCEPT
                          ![s].result = IF q \in Writers THEN Rows("command", 0, q) ELSE Rows("tuples", n, q),
                          ![s].rowCount = n, ![s].executed = TRUE]
                   ELSE [stmt EXCEPT ![s].result = Unsuccessful(result)]
  BY DEF Run, Return
<1>3. /\ session \in Session /\ link \in {"OK", "BAD"} /\ GhostsOK
      /\ Live(s) /\ OwnQuery /\ stmt[s].kind \in {"named", "plain"}
  BY <1>1, RunningFacts DEF RunningOK
<1>4. q \in Statements \cup {NoStatement} /\ (~wentBack => q \in {s, NoStatement})
  <2>1. CASE stmt[s].kind = "named"
    <3>1. stmt[s].name \in Names
      BY <1>3, <2>1, LiveNames DEF Counters
    <3>2. QED
      BY <1>3, <2>1, <3>1, KnownStatements, OwnName DEF QueryOf
  <2>2. CASE stmt[s].kind # "named"
    BY <2>2 DEF QueryOf
  <2>3. QED
    BY <2>1, <2>2
<1>5. PICK r \in Result :
        /\ r.of \in {q, NoStatement}
        /\ Answers(s, r, n)
  <2> DEFINE rows == IF q \in Writers THEN Rows("command", 0, q) ELSE Rows("tuples", n, q)
  <2>1. rows \in Result /\ rows.of = q
    <3>1. 0 \in 0..MaxRows
      BY StatementAssumption
    <3>2. QED
      BY <1>4, <3>1, AnswerTypes
  <2>2. CASE result = "ok"
    BY <1>2, <2>1, <2>2 DEF Answers
  <2>3. CASE result # "ok"
    BY <1>2, <2>3, AnswerTypes DEF Answers
  <2>4. QED
    BY <2>2, <2>3
<1>6. /\ stmt' \in [Statements -> StatementRecord] /\ SameNames
      /\ stmt'[s].result = r /\ \A t \in Statements : t # s => stmt'[t] = stmt[t]
  BY <1>3, <1>5, AnswerStep
<1>7. ~wentBack => \A t \in Statements : stmt'[t].result.of \in {t, NoStatement}
  BY <1>3, <1>4, <1>5, <1>6 DEF OwnQuery
<1>8. /\ session' \in Session /\ link' \in {"OK", "BAD"} /\ Forgetful
      /\ link' = "OK" => link = "OK" /\ session'.prepared = session.prepared
  <2>1. PICK after \in {session, Written} : Exec(result, q # NoStatement, TRUE, after)
    BY <1>2
  <2>2. /\ after \in Session /\ after.prepared = session.prepared
        /\ after.cursors = session.cursors
    BY <1>3, PlainSessions
  <2>3. QED
    BY <1>3, <2>1, <2>2, ExecEffect DEF Forgetful
<1>9. RunningOK' /\ PreparedIsThere'
  BY <1>1, <1>6, <1>8, PreparedStays DEF RunningOK
<1>10. StepTypes
  BY <1>1, <1>2, <1>3, <1>6, GhostTypes DEF StepTypes, Places
<1>11. QED
  BY <1>6, <1>7, <1>8, <1>9, <1>10, QuietKeeps

\* EXECUTE without values for its parameters.
LEMMA ParametersMissingKeeps ==
  ASSUME IInv, NEW s \in Statements, running = s, ParametersMissing(s)
  PROVE  TypeOK' /\ GhostsOK' /\ StatementOK'
<1>1. /\ pc = "run" /\ pc' = "idle" /\ running' = NoStatement
      /\ Reported(FALSE, FALSE)
      /\ UNCHANGED <<link, session, inTxn, stmt, counter, wentBack, leftBehind>>
  BY DEF ParametersMissing, Return, raceVars
<1>2. session \in Session /\ link \in {"OK", "BAD"} /\ GhostsOK
  BY <1>1, RunningFacts
<1>3. /\ stmt' \in [Statements -> StatementRecord] /\ SameNames
      /\ ~wentBack => \A t \in Statements : stmt'[t].result.of \in {t, NoStatement}
  BY <1>1, SameStatements
<1>4. Forgetful /\ RunningOK' /\ PreparedIsThere'
  BY <1>1, <1>3, PreparedStays DEF RunningOK, Forgetful
<1>5. StepTypes
  BY <1>1, <1>2, <1>3, GhostTypes DEF StepTypes, Places
<1>6. QED
  BY <1>1, <1>2, <1>3, <1>4, <1>5, QuietKeeps

\* DEALLOCATE of a name in use, which is of no live statement.
LEMMA DeallocateKeeps ==
  ASSUME IInv, NEW s \in Statements, running = s, Deallocate(s)
  PROVE  TypeOK' /\ GhostsOK' /\ StatementOK'
<1> DEFINE n == stmt[s].name
           after == NamePrepared(n, NoStatement)
<1>1. /\ pc = "deallocate" /\ pc' = "prepare" /\ running' = s
      /\ UNCHANGED <<inTxn, stmt, counter, wentBack, leftBehind>> /\ UNCHANGED ghostVars
  BY DEF Deallocate, Goto, raceVars
<1>2. PICK result \in Results : Exec(result, session.prepared[n] # NoStatement, FALSE, after)
  BY DEF Deallocate, NamePrepared
<1>3. /\ session \in Session /\ link \in {"OK", "BAD"} /\ GhostsOK /\ RunningOK /\ n \in Names
      /\ Live(s) /\ stmt[s].kind = "named" /\ ~stmt[s].isPrepared
  BY <1>1, RunningFacts, LiveNames DEF RunningOK
<1>4. /\ after \in Session /\ after.cursors = session.cursors
      /\ after.prepared = [session.prepared EXCEPT ![n] = NoStatement]
      /\ session.prepared \in [Names -> Statements \cup {NoStatement}]
  BY <1>3, PreparedSession DEF Session
<1>5. /\ session' \in Session /\ link' \in {"OK", "BAD"} /\ (link' = "OK" => link = "OK")
      /\ \/ link' = "OK" /\ session' = after
         \/ link' = "OK" => session'.prepared = session.prepared
      /\ Forgetful
  BY <1>2, <1>3, <1>4, ExecEffect DEF Forgetful
<1>6. /\ stmt' \in [Statements -> StatementRecord] /\ SameNames
      /\ ~wentBack => \A t \in Statements : stmt'[t].result.of \in {t, NoStatement}
  BY <1>1, SameStatements
<1>7. PreparedIsThere'
  <2>1. CASE link' = "OK" /\ session' = after
    <3>1. ASSUME ~wentBack, NEW t \in Statements, Live(t), stmt[t].kind = "named", stmt[t].isPrepared
          PROVE  session'.prepared[stmt[t].name] = t
      <4>1. session.prepared[stmt[t].name] = t /\ stmt[t].name \in Names
        BY <1>5, <2>1, <3>1, LiveNames DEF IInv, StatementOK, PreparedIsThere, Counters
      <4>2. stmt[t].name # n
        BY <1>3, <3>1 DEF IInv, StatementOK, NamesOK, Named, Live, Counters
      <4>3. QED
        BY <1>4, <2>1, <4>1, <4>2
    <3>2. QED
      BY <1>1, <3>1 DEF PreparedIsThere, Live
  <2>2. CASE link' = "OK" => session'.prepared = session.prepared
    BY <1>1, <1>5, <1>6, <2>2, PreparedStays
  <2>3. QED
    BY <1>5, <2>1, <2>2
<1>8. RunningOK'
  BY <1>1, <1>3, <1>6 DEF RunningOK, SameNames, Live
<1>9. StepTypes
  BY <1>1, <1>3, <1>6, ConnectionAssumption DEF StepTypes, Places, GhostsOK, ghostVars
<1>10. QED
  BY <1>5, <1>6, <1>7, <1>8, <1>9, QuietKeeps

\* isPrepared is set and nothing else of the statements.
LEMMA BecomesPrepared ==
  ASSUME IInv, NEW s \in Statements, Live(s), UNCHANGED <<counter, wentBack>>,
         stmt' = [stmt EXCEPT ![s].isPrepared = TRUE]
  PROVE  /\ stmt' \in [Statements -> StatementRecord]
         /\ \A t \in Statements :
              /\ stmt'[t].phase = stmt[t].phase /\ stmt'[t].kind = stmt[t].kind
              /\ stmt'[t].name = stmt[t].name
              /\ t # s => stmt'[t] = stmt[t]
         /\ stmt'[s].isPrepared
         /\ NamesOK' /\ OwnQuery'
<1>1. stmt \in [Statements -> StatementRecord] /\ stmt[s].phase = "live"
  BY DEF IInv, TypeOK, StatementRecord, Live
<1>2. stmt' \in [Statements -> StatementRecord]
  <2>1. stmt[s] \in StatementRecord
    BY <1>1
  <2>2. [stmt[s] EXCEPT !.isPrepared = TRUE] \in StatementRecord
    BY <2>1 DEF StatementRecord
  <2>3. QED
    BY <1>1, <2>2
<1>3. \A t \in Statements :
        /\ stmt'[t].phase = stmt[t].phase /\ stmt'[t].kind = stmt[t].kind
        /\ stmt'[t].name = stmt[t].name /\ stmt'[t].result = stmt[t].result
        /\ t # s => stmt'[t] = stmt[t]
  BY <1>1 DEF StatementRecord
<1>4. stmt'[s].isPrepared
  BY <1>1 DEF StatementRecord
<1>5. NamesOK'
  BY <1>1, <1>3 DEF IInv, StatementOK, NamesOK, Named
<1>6. OwnQuery'
  BY <1>3 DEF IInv, StatementOK, OwnQuery
<1>7. QED
  BY <1>2, <1>3, <1>4, <1>5, <1>6

\* DECLARE makes a cursor of the statement's query under its name.
LEMMA DeclareCursorKeeps ==
  ASSUME IInv, NEW s \in Statements, running = s, DeclareCursor(s)
  PROVE  TypeOK' /\ GhostsOK' /\ StatementOK'
<1> DEFINE n == stmt[s].name
<1>1. /\ pc = "declare"
      /\ UNCHANGED <<inTxn, counter, wentBack, leftBehind>>
  BY DEF DeclareCursor, raceVars
<1>2. PICK result \in Results :
        /\ Exec(result, session.cursors[n] = NoStatement, TRUE, CursorDeclared(n, s))
        /\ IF result = "ok"
           THEN Goto("fetch0") /\ stmt' = [stmt EXCEPT ![s].isPrepared = TRUE]
           ELSE Return(FALSE, FALSE) /\ stmt' = [stmt EXCEPT ![s].result = Unsuccessful(result)]
  BY DEF DeclareCursor
<1>3. /\ session \in Session /\ link \in {"OK", "BAD"} /\ GhostsOK /\ n \in Names
      /\ Live(s) /\ OwnQuery /\ stmt[s].kind = "cursor"
  BY <1>1, RunningFacts, LiveNames DEF RunningOK
<1>4. /\ CursorDeclared(n, s) \in Session /\ CursorDeclared(n, s).prepared = session.prepared
      /\ CursorDeclared(n, s).cursors = [session.cursors EXCEPT ![n] = s]
      /\ session.cursors \in [Names -> Statements \cup {NoStatement}]
  BY <1>3, CursorSessions DEF Session
<1>5. /\ session' \in Session /\ link' \in {"OK", "BAD"} /\ (link' = "OK" => link = "OK")
      /\ result = "ok" => session' = CursorDeclared(n, s)
      /\ result # "ok" => Forgetful /\ (link' = "OK" => session'.prepared = session.prepared)
  BY <1>2, <1>3, <1>4, ExecEffect
<1>6. CASE result # "ok"
  <2>1. pc' = "idle" /\ running' = NoStatement /\ Reported(FALSE, FALSE)
    BY <1>2, <1>6 DEF Return
  <2>2. 0 \in 0..MaxRows
    BY StatementAssumption
  <2>3. PICK r \in Result : r.of = NoStatement /\ Answers(s, r, 0)
    BY <1>2, <1>6, AnswerTypes DEF Answers
  <2>4. /\ stmt' \in [Statements -> StatementRecord] /\ SameNames
        /\ stmt'[s].result = r /\ \A t \in Statements : t # s => stmt'[t] = stmt[t]
    BY <1>3, <2>2, <2>3, AnswerStep
  <2>5. ~wentBack => \A t \in Statements : stmt'[t].result.of \in {t, NoStatement}
    BY <1>3, <2>3, <2>4 DEF OwnQuery
  <2>6. RunningOK' /\ PreparedIsThere'
    BY <1>1, <1>5, <1>6, <2>1, <2>4, PreparedStays DEF RunningOK
  <2>7. StepTypes
    BY <1>1, <1>3, <2>1, <2>4, GhostTypes DEF StepTypes, Places
  <2>8. QED
    BY <1>5, <1>6, <2>4, <2>5, <2>6, <2>7, QuietKeeps
<1>7. CASE result = "ok"
  <2>1. /\ pc' = "fetch0" /\ running' = s /\ UNCHANGED ghostVars
        /\ stmt' = [stmt EXCEPT ![s].isPrepared = TRUE]
    BY <1>2, <1>7 DEF Goto
  <2>2. /\ stmt' \in [Statements -> StatementRecord]
        /\ \A t \in Statements :
             /\ stmt'[t].phase = stmt[t].phase /\ stmt'[t].kind = stmt[t].kind
             /\ stmt'[t].name = stmt[t].name
             /\ t # s => stmt'[t] = stmt[t]
        /\ NamesOK' /\ OwnQuery'
    BY <1>1, <1>3, <2>1, BecomesPrepared
  <2>3. SessionOK'
    <3>1. \A m \in Names :
            /\ session'.prepared[m] = session.prepared[m]
            /\ session'.cursors[m] = IF m = n THEN s ELSE session.cursors[m]
      BY <1>4, <1>5, <1>7
    <3>2. \A m \in Names : session.prepared[m] # s
      BY <1>3, ConnectionAssumption DEF IInv, StatementOK, SessionOK
    <3>3. QED
      BY <1>1, <1>3, <2>2, <3>1, <3>2, KnownStatements DEF IInv, StatementOK, SessionOK, Live
  <2>4. PreparedIsThere'
    BY <1>1, <1>3, <1>4, <1>5, <1>7, <2>2 DEF IInv, StatementOK, PreparedIsThere, Live
  <2>5. RunningOK'
    BY <1>3, <2>1, <2>2 DEF RunningOK, Live
  <2>6. StepTypes
    BY <1>1, <1>3, <2>1, <2>2, ConnectionAssumption DEF StepTypes, Places, GhostsOK, ghostVars
  <2>7. TypeOK' /\ GhostsOK'
    BY <1>5, <2>6 DEF IInv, TypeOK, GhostsOK, StepTypes, StatementRecord, Places
  <2>8. QED
    BY <2>2, <2>3, <2>4, <2>5, <2>7 DEF StatementOK
<1>8. QED
  BY <1>6, <1>7

\* PREPARE gives the name to the statement, which knows it from then on.
LEMMA PrepareKeeps ==
  ASSUME IInv, NEW s \in Statements, running = s, Prepare(s)
  PROVE  TypeOK' /\ GhostsOK' /\ StatementOK'
<1> DEFINE n == stmt[s].name
           after == NamePrepared(n, s)
<1>1. /\ pc = "prepare"
      /\ UNCHANGED <<inTxn, counter, wentBack, leftBehind>>
  BY DEF Prepare, raceVars
<1>2. PICK result \in Results :
        /\ Exec(result, session.prepared[n] = NoStatement, TRUE, after)
        /\ \/ /\ result = "ok"
              /\ stmt' = [stmt EXCEPT ![s].isPrepared = TRUE]
              /\ Goto("run")
           \/ /\ result # "ok"
              /\ Goto("deallocate")
              /\ UNCHANGED stmt
           \/ /\ result # "ok"
              /\ stmt' = [stmt EXCEPT ![s].result = Unsuccessful(result)]
              /\ Return(FALSE, FALSE)
  BY DEF Prepare, NamePrepared
<1>3. /\ session \in Session /\ link \in {"OK", "BAD"} /\ GhostsOK /\ n \in Names
      /\ Live(s) /\ OwnQuery /\ stmt[s].kind = "named" /\ ~stmt[s].isPrepared
  BY <1>1, RunningFacts, LiveNames DEF RunningOK
<1>4. /\ after \in Session /\ after.cursors = session.cursors
      /\ after.prepared = [session.prepared EXCEPT ![n] = s]
      /\ session.prepared \in [Names -> Statements \cup {NoStatement}]
  BY <1>3, PreparedSession DEF Session
<1>5. /\ session' \in Session /\ link' \in {"OK", "BAD"} /\ (link' = "OK" => link = "OK")
      /\ result = "ok" => session' = after
      /\ result # "ok" => Forgetful /\ (link' = "OK" => session'.prepared = session.prepared)
  <2>1. Exec(result, session.prepared[n] = NoStatement, TRUE, after) /\ after \in Session
    BY <1>2, <1>4
  <2>2. HIDE DEF after
  <2>3. QED
    BY <1>3, <2>1, ExecEffect
<1>6. CASE result # "ok" /\ Goto("deallocate") /\ UNCHANGED stmt
  <2>1. pc' = "deallocate" /\ running' = s /\ UNCHANGED ghostVars
    BY <1>6 DEF Goto
  <2>2. /\ stmt' \in [Statements -> StatementRecord] /\ SameNames
        /\ ~wentBack => \A t \in Statements : stmt'[t].result.of \in {t, NoStatement}
    BY <1>6, SameStatements
  <2>3. RunningOK' /\ PreparedIsThere'
    BY <1>1, <1>3, <1>5, <1>6, <2>1, <2>2, PreparedStays DEF RunningOK, Live
  <2>4. StepTypes
    BY <1>1, <1>3, <2>1, <2>2, ConnectionAssumption DEF StepTypes, Places, GhostsOK, ghostVars
  <2>5. QED
    BY <1>5, <1>6, <2>2, <2>3, <2>4, QuietKeeps
<1>7. CASE /\ result # "ok"
           /\ stmt' = [stmt EXCEPT ![s].result = Unsuccessful(result)]
           /\ Return(FALSE, FALSE)
  <2>1. pc' = "idle" /\ running' = NoStatement /\ Reported(FALSE, FALSE)
    BY <1>7 DEF Return
  <2>2. 0 \in 0..MaxRows
    BY StatementAssumption
  <2>3. PICK r \in Result : r.of = NoStatement /\ Answers(s, r, 0)
    BY <1>7, AnswerTypes DEF Answers
  <2>4. /\ stmt' \in [Statements -> StatementRecord] /\ SameNames
        /\ stmt'[s].result = r /\ \A t \in Statements : t # s => stmt'[t] = stmt[t]
    BY <1>3, <2>2, <2>3, AnswerStep
  <2>5. ~wentBack => \A t \in Statements : stmt'[t].result.of \in {t, NoStatement}
    BY <1>3, <2>3, <2>4 DEF OwnQuery
  <2>6. RunningOK' /\ PreparedIsThere'
    BY <1>1, <1>5, <1>7, <2>1, <2>4, PreparedStays DEF RunningOK
  <2>7. StepTypes
    BY <1>1, <1>3, <2>1, <2>4, GhostTypes DEF StepTypes, Places
  <2>8. QED
    BY <1>5, <1>7, <2>4, <2>5, <2>6, <2>7, QuietKeeps
<1>8. CASE result = "ok" /\ stmt' = [stmt EXCEPT ![s].isPrepared = TRUE] /\ Goto("run")
  <2>1. pc' = "run" /\ running' = s /\ UNCHANGED ghostVars
    BY <1>8 DEF Goto
  <2>2. /\ stmt' \in [Statements -> StatementRecord]
        /\ \A t \in Statements :
             /\ stmt'[t].phase = stmt[t].phase /\ stmt'[t].kind = stmt[t].kind
             /\ stmt'[t].name = stmt[t].name
             /\ t # s => stmt'[t] = stmt[t]
        /\ stmt'[s].isPrepared
        /\ NamesOK' /\ OwnQuery'
    BY <1>1, <1>3, <1>8, BecomesPrepared
  <2>3. \A m \in Names :
          /\ session'.prepared[m] = IF m = n THEN s ELSE session.prepared[m]
          /\ session'.cursors[m] = session.cursors[m]
    BY <1>4, <1>5, <1>8
  <2>4. SessionOK'
    <3>1. \A m \in Names : session.cursors[m] # s
      BY <1>3, ConnectionAssumption DEF IInv, StatementOK, SessionOK
    <3>2. \A m \in Names : session.prepared[m] # s
      BY <1>3, ConnectionAssumption DEF IInv, StatementOK, SessionOK, Live
    <3>3. QED
      BY <1>1, <1>3, <2>2, <2>3, <3>1, <3>2, KnownStatements
         DEF IInv, StatementOK, SessionOK, Live
  <2>5. PreparedIsThere'
    <3>1. ASSUME ~wentBack, link' = "OK", NEW t \in Statements, t # s,
                 Live(t), stmt[t].kind = "named", stmt[t].isPrepared
          PROVE  session'.prepared[stmt[t].name] = t
      <4>1. session.prepared[stmt[t].name] = t /\ stmt[t].name \in Names
        BY <1>5, <3>1, LiveNames DEF IInv, StatementOK, PreparedIsThere, Counters
      <4>2. stmt[t].name # n
        BY <1>3, <3>1 DEF IInv, StatementOK, NamesOK, Named, Live, Counters
      <4>3. QED
        BY <2>3, <4>1, <4>2
    <3>2. QED
      BY <1>1, <1>3, <2>2, <2>3, <3>1 DEF PreparedIsThere, Live
  <2>6. RunningOK'
    BY <1>3, <2>1, <2>2 DEF RunningOK, Live
  <2>7. StepTypes
    BY <1>1, <1>3, <2>1, <2>2, ConnectionAssumption DEF StepTypes, Places, GhostsOK, ghostVars
  <2>8. TypeOK' /\ GhostsOK'
    BY <1>5, <2>7 DEF IInv, TypeOK, GhostsOK, StepTypes, StatementRecord, Places
  <2>9. QED
    BY <2>2, <2>4, <2>5, <2>6, <2>8 DEF StatementOK
<1>9. QED
  BY <1>2, <1>6, <1>7, <1>8

\* What a call finds when no other is in progress.
LEMMA IdleFacts ==
  ASSUME IInv, pc = "idle"
  PROVE  /\ session \in Session /\ link \in {"OK", "BAD"} /\ GhostsOK /\ OwnQuery
         /\ stmt \in [Statements -> StatementRecord]
         /\ running = NoStatement
         /\ MaxRows \in Nat \ {0}
BY StatementAssumption DEF IInv, TypeOK, StatementOK, StatementRecord

\* fetch: a row of the cursor, or the next of the rows that are there.
LEMMA FetcherKeeps ==
  ASSUME IInv, pc = "idle", NEW s \in Statements, fetcher(s)
  PROVE  TypeOK' /\ GhostsOK' /\ StatementOK'
<1> DEFINE name == stmt[s].name
           of == session.cursors[name]
<1>1. /\ Live(s) /\ pc' = "idle" /\ running' = running
      /\ UNCHANGED <<inTxn, counter, wentBack, leftBehind>>
  BY DEF fetcher, raceVars
<1>2. /\ session \in Session /\ link \in {"OK", "BAD"} /\ GhostsOK /\ OwnQuery
      /\ stmt \in [Statements -> StatementRecord]
      /\ running = NoStatement
      /\ MaxRows \in Nat \ {0}
  BY IdleFacts
<1>3. CASE stmt[s].kind = "cursor"
  <2>1. PICK result \in Results, n \in 0..1 :
          /\ Exec(result, session.cursors[name] # NoStatement, FALSE, session)
          /\ Reported(result = "ok", FALSE)
          /\ stmt' = [stmt EXCEPT
               ![s].result = IF result = "ok" THEN Rows("tuples", n, of) ELSE Unsuccessful(result),
               ![s].currentRow = IF n = 1 THEN 1 ELSE @]
    BY <1>3 DEF fetcher
  <2>2. name \in Names
    BY <1>1, <1>3, LiveNames DEF Counters
  <2>3. of \in Statements \cup {NoStatement} /\ (~wentBack => of \in {s, NoStatement})
    BY <1>1, <1>3, <2>2, KnownStatements, OwnName
  <2>4. n \in 0..MaxRows /\ 1 \in 0..MaxRows
    BY <1>2
  <2>5. stmt[s].currentRow \in 0..MaxRows
    BY <1>2 DEF StatementRecord
  <2>6. PICK row \in 0..MaxRows : row = IF n = 1 THEN 1 ELSE stmt[s].currentRow
    BY <2>4, <2>5
  <2>7. PICK r \in Result :
          /\ r = IF result = "ok" THEN Rows("tuples", n, of) ELSE Unsuccessful(result)
          /\ r.of \in {of, NoStatement}
    BY <2>3, <2>4, AnswerTypes
  <2>8. Answers(s, r, row)
    <3>1. PICK f : f = [stmt EXCEPT ![s].result = r]
      OBVIOUS
    <3>2. f[s].currentRow = stmt[s].currentRow
      BY <1>2, <3>1 DEF StatementRecord
    <3>3. stmt' = [f EXCEPT ![s].currentRow = IF n = 1 THEN 1 ELSE f[s].currentRow]
      BY <2>1, <2>7, <3>1
    <3>4. stmt' = [f EXCEPT ![s].currentRow = row]
      BY <2>6, <3>2, <3>3
    <3>5. QED
      BY <3>1, <3>4 DEF Answers
  <2>9. /\ stmt' \in [Statements -> StatementRecord] /\ SameNames
        /\ stmt'[s].result = r /\ \A t \in Statements : t # s => stmt'[t] = stmt[t]
    BY <1>1, <2>8, AnswerStep
  <2>10. ~wentBack => \A t \in Statements : stmt'[t].result.of \in {t, NoStatement}
    BY <1>2, <2>3, <2>7, <2>9 DEF OwnQuery
  <2>11. /\ session' \in Session /\ link' \in {"OK", "BAD"} /\ Forgetful
         /\ link' = "OK" => link = "OK" /\ session'.prepared = session.prepared
    BY <1>2, <2>1, ExecEffect DEF Forgetful
  <2>12. RunningOK' /\ PreparedIsThere'
    BY <1>1, <2>9, <2>11, PreparedStays DEF RunningOK
  <2>13. StepTypes
    BY <1>1, <1>2, <2>1, <2>9, GhostTypes DEF StepTypes, Places
  <2>14. QED
    BY <2>9, <2>10, <2>11, <2>12, <2>13, QuietKeeps
<1>4. CASE stmt[s].kind # "cursor"
  <2>1. /\ stmt' = IF HasNextRow(s) THEN [stmt EXCEPT ![s].currentRow = @ + 1] ELSE stmt
        /\ UNCHANGED <<link, session>> /\ UNCHANGED ghostVars
    BY <1>4 DEF fetcher
  <2>2. /\ stmt' \in [Statements -> StatementRecord] /\ SameNames
        /\ \A t \in Statements : stmt'[t].result = stmt[t].result
    <3>1. CASE HasNextRow(s)
      <4>1. stmt[s] \in StatementRecord /\ stmt[s].currentRow < stmt[s].rowCount
        BY <1>2, <3>1 DEF HasNextRow
      <4>2. stmt[s].currentRow + 1 \in 0..MaxRows
        BY <1>2, <4>1 DEF StatementRecord
      <4>3. PICK row \in 0..MaxRows : row = stmt[s].currentRow + 1
        BY <4>2
      <4>4. stmt' = [stmt EXCEPT ![s].currentRow = row]
        BY <2>1, <3>1, <4>3
      <4>5. [stmt[s] EXCEPT !.currentRow = row] \in StatementRecord
        BY <4>1 DEF StatementRecord
      <4>6. stmt' \in [Statements -> StatementRecord]
        BY <1>2, <4>4, <4>5
      <4>7. /\ stmt'[s].phase = stmt[s].phase /\ stmt'[s].kind = stmt[s].kind
            /\ stmt'[s].name = stmt[s].name /\ stmt'[s].isPrepared = stmt[s].isPrepared
            /\ stmt'[s].result = stmt[s].result
        BY <1>2, <4>4 DEF StatementRecord
      <4>8. \A t \in Statements : t # s => stmt'[t] = stmt[t]
        BY <1>2, <4>4
      <4>9. QED
        BY <1>1, <4>6, <4>7, <4>8 DEF SameNames, Live
    <3>2. CASE ~HasNextRow(s)
      BY <1>2, <2>1, <3>2 DEF SameNames
    <3>3. QED
      BY <3>1, <3>2
  <2>3. ~wentBack => \A t \in Statements : stmt'[t].result.of \in {t, NoStatement}
    BY <1>2, <2>2 DEF OwnQuery
  <2>4. Forgetful /\ RunningOK' /\ PreparedIsThere'
    BY <1>1, <2>1, <2>2, PreparedStays DEF RunningOK, Forgetful
  <2>5. StepTypes
    BY <1>1, <1>2, <2>1, <2>2 DEF StepTypes, Places, GhostsOK, ghostVars
  <2>6. QED
    BY <1>2, <2>1, <2>2, <2>3, <2>4, <2>5, QuietKeeps
<1>5. QED
  BY <1>3, <1>4

\* The query for the name of a type.
LEMMA ColumnMetaKeeps ==
  ASSUME IInv, pc = "idle", NEW s \in Statements, getColumnMeta(s)
  PROVE  TypeOK' /\ GhostsOK' /\ StatementOK'
<1>1. /\ pc' = "idle" /\ running' = running
      /\ UNCHANGED <<inTxn, stmt, counter, wentBack, leftBehind>>
  BY DEF getColumnMeta, raceVars
<1>2. PICK result \in Results : Exec(result, TRUE, TRUE, session) /\ Unlooked(result)
  BY DEF getColumnMeta
<1>3. /\ session \in Session /\ link \in {"OK", "BAD"} /\ GhostsOK /\ running = NoStatement
  BY IdleFacts
<1>4. /\ session' \in Session /\ link' \in {"OK", "BAD"} /\ Forgetful
      /\ link' = "OK" => link = "OK" /\ session'.prepared = session.prepared
  BY <1>2, <1>3, ExecEffect DEF Forgetful
<1>5. /\ stmt' \in [Statements -> StatementRecord] /\ SameNames
      /\ ~wentBack => \A t \in Statements : stmt'[t].result.of \in {t, NoStatement}
  BY <1>1, SameStatements
<1>6. RunningOK' /\ PreparedIsThere'
  BY <1>1, <1>4, <1>5, PreparedStays DEF RunningOK
<1>7. StepTypes
  BY <1>1, <1>2, <1>3, <1>5, GhostTypes DEF StepTypes, Places
<1>8. QED
  BY <1>4, <1>5, <1>6, <1>7, QuietKeeps

\* A destroyed statement leaves nothing in the session that is not noted.
LEMMA SweepKeeps ==
  ASSUME IInv, pc = "idle", NEW s \in Statements, sweep(s)
  PROVE  TypeOK' /\ GhostsOK' /\ StatementOK'
<1> DEFINE n == stmt[s].name
<1>1. /\ Live(s) /\ pc' = "idle" /\ running' = running
      /\ UNCHANGED <<inTxn, counter, wentBack>>
      /\ stmt' = [stmt EXCEPT ![s] = [Unused EXCEPT !.phase = "gone",
                                                    !.kind = stmt[s].kind, !.name = n]]
  BY DEF sweep, raceVars
<1>2. /\ session \in Session /\ link \in {"OK", "BAD"} /\ GhostsOK /\ OwnQuery
      /\ stmt \in [Statements -> StatementRecord]
      /\ running = NoStatement
      /\ leftBehind \subseteq Statements
  BY IdleFacts DEF IInv, TypeOK
<1>3. stmt[s].kind \in Counters \cup {"plain"} /\ n \in 0..MaxName /\ 0 \in 0..MaxRows
  BY <1>2, IdleFacts DEF StatementRecord
<1>4. /\ stmt' \in [Statements -> StatementRecord]
      /\ stmt'[s].phase = "gone" /\ stmt'[s].kind = stmt[s].kind /\ stmt'[s].name = n
      /\ ~stmt'[s].isPrepared /\ stmt'[s].result.of = NoStatement
      /\ \A t \in Statements : t # s => stmt'[t] = stmt[t]
  <2>1. [Unused EXCEPT !.phase = "gone", !.kind = stmt[s].kind, !.name = n] \in StatementRecord
    BY <1>3, AnswerTypes DEF Unused, StatementRecord
  <2>2. stmt' \in [Statements -> StatementRecord]
    BY <1>1, <1>2, <2>1
  <2>3. QED
    BY <1>1, <1>2, <2>2, AnswerTypes DEF Unused
<1>5. stmt[s].kind \in Counters => n \in Names
  BY <1>1, LiveNames
<1>6. /\ session' \in Session /\ link' \in {"OK", "BAD"} /\ (link' = "OK" => link = "OK")
      /\ Forgetful
      /\ leftBehind' \in {leftBehind, leftBehind \cup {s}}
      /\ told' \in BOOLEAN /\ failed' \in BOOLEAN /\ unnoticed' \in BOOLEAN
      /\ \/ Closing(s) # "nothing" /\ s \in leftBehind'
         \/ Closing(s) = "DEALLOCATE" /\ session'.prepared[n] = NoStatement
         \/ Closing(s) = "CLOSE" /\ session'.cursors[n] = NoStatement
         \/ Closing(s) = "nothing"
      /\ \/ link' = "OK" => session'.prepared = session.prepared
         \/ Closing(s) = "DEALLOCATE" /\ session'.prepared = [session.prepared EXCEPT ![n] = NoStatement]
  <2>1. CASE Closing(s) = "DEALLOCATE"
    <3>1. PICK result \in Results :
            /\ Exec(result, session.prepared[n] # NoStatement, FALSE, NamePrepared(n, NoStatement))
            /\ Unlooked(result)
            /\ leftBehind' = IF result = "ok" THEN leftBehind ELSE leftBehind \cup {s}
      BY <2>1 DEF sweep, Forgets, NamePrepared
    <3>2. n \in Names
      BY <1>5, <2>1 DEF Closing, Counters
    <3>3. /\ NamePrepared(n, NoStatement) \in Session
          /\ NamePrepared(n, NoStatement).cursors = session.cursors
          /\ NamePrepared(n, NoStatement).prepared = [session.prepared EXCEPT ![n] = NoStatement]
          /\ session.prepared \in [Names -> Statements \cup {NoStatement}]
      BY <1>2, <3>2, PreparedSession DEF Session
    <3>4. /\ session' \in Session /\ link' \in {"OK", "BAD"} /\ (link' = "OK" => link = "OK")
          /\ \/ result = "ok" /\ session' = NamePrepared(n, NoStatement)
             \/ result # "ok" /\ Forgetful /\ (link' = "OK" => session'.prepared = session.prepared)
      BY <1>2, <3>1, <3>3, ExecEffect
    <3>5. CASE result = "ok"
      <4>1. Forgetful /\ session'.prepared[n] = NoStatement
        BY <3>2, <3>3, <3>4, <3>5 DEF Forgetful
      <4>2. QED
        BY <1>2, <2>1, <3>1, <3>3, <3>4, <3>5, <4>1, GhostTypes
    <3>6. CASE result # "ok"
      BY <1>2, <2>1, <3>1, <3>4, <3>6, GhostTypes
    <3>7. QED
      BY <3>5, <3>6
  <2>2. CASE Closing(s) = "CLOSE"
    <3>1. PICK result \in Results :
            /\ Exec(result, session.cursors[n] # NoStatement, FALSE, CursorClosed(n))
            /\ Unlooked(result)
            /\ leftBehind' = IF result = "ok" THEN leftBehind ELSE leftBehind \cup {s}
      BY <2>2 DEF sweep, Forgets
    <3>2. n \in Names
      BY <1>5, <2>2 DEF Closing, Counters
    <3>3. /\ CursorClosed(n) \in Session
          /\ CursorClosed(n).prepared = session.prepared
          /\ CursorClosed(n).cursors = [session.cursors EXCEPT ![n] = NoStatement]
          /\ session.cursors \in [Names -> Statements \cup {NoStatement}]
      BY <1>2, <3>2, CursorSessions DEF Session
    <3>4. /\ session' \in Session /\ link' \in {"OK", "BAD"} /\ (link' = "OK" => link = "OK")
          /\ \/ result = "ok" /\ session' = CursorClosed(n)
             \/ result # "ok" /\ Forgetful /\ (link' = "OK" => session'.prepared = session.prepared)
      <4>1. /\ Exec(result, session.cursors[n] # NoStatement, FALSE, CursorClosed(n))
            /\ CursorClosed(n) \in Session
        BY <3>1, <3>3
      <4>2. QED
        BY <1>2, <4>1, ExecEffect
    <3>5. CASE result = "ok"
      <4>1. Forgetful /\ session'.cursors[n] = NoStatement /\ session'.prepared = session.prepared
        BY <3>2, <3>3, <3>4, <3>5 DEF Forgetful
      <4>2. QED
        BY <1>2, <2>2, <3>1, <3>4, <3>5, <4>1, GhostTypes
    <3>6. CASE result # "ok"
      BY <1>2, <2>2, <3>1, <3>4, <3>6, GhostTypes
    <3>7. QED
      BY <3>5, <3>6
  <2>3. CASE Closing(s) = "nothing"
    <3>1. UNCHANGED <<link, session, leftBehind>> /\ UNCHANGED ghostVars
      BY <2>3 DEF sweep
    <3>2. QED
      BY <1>2, <2>3, <3>1 DEF Forgetful, GhostsOK, ghostVars
  <2>4. QED
    BY <2>1, <2>2, <2>3 DEF Closing
<1>7. TypeOK' /\ GhostsOK'
  BY <1>1, <1>2, <1>4, <1>6 DEF IInv, TypeOK, GhostsOK, StatementRecord
<1>8. NamesOK'
  BY <1>1, <1>4 DEF IInv, StatementOK, NamesOK, Named, Live
<1>9. SessionOK'
  <2>1. ASSUME NEW m \in Names, session'.prepared[m] = s
        PROVE  s \in leftBehind'
    <3>1. session.prepared[m] = s
      BY <1>6, <2>1, ConnectionAssumption DEF Forgetful
    <3>2. stmt[s].kind = "named" /\ stmt[s].isPrepared /\ n = m
      BY <1>1, <3>1, ConnectionAssumption DEF IInv, StatementOK, SessionOK, Live
    <3>3. Closing(s) = "DEALLOCATE"
      BY <3>2 DEF Closing
    <3>4. QED
      BY <1>6, <2>1, <3>2, <3>3, ConnectionAssumption
  <2>2. ASSUME NEW m \in Names, session'.cursors[m] = s
        PROVE  s \in leftBehind'
    <3>1. session.cursors[m] = s
      BY <1>6, <2>2, ConnectionAssumption DEF Forgetful
    <3>2. stmt[s].kind = "cursor" /\ n = m
      BY <1>1, <3>1, ConnectionAssumption DEF IInv, StatementOK, SessionOK, Live
    <3>3. Closing(s) = "CLOSE"
      BY <3>2 DEF Closing
    <3>4. QED
      BY <1>6, <2>2, <3>2, <3>3, ConnectionAssumption
  <2>3. \A t \in leftBehind : t \in leftBehind'
    BY <1>6
  <2>4. ASSUME NEW m \in Names, NEW t \in {session'.prepared[m]} \ {NoStatement}
        PROVE  /\ (Live(t)' /\ stmt'[t].isPrepared) \/ (t \in leftBehind' /\ stmt'[t].phase = "gone")
               /\ stmt'[t].kind = "named"
               /\ stmt'[t].name = m
    <3>1. session.prepared[m] = t /\ t \in Statements
      BY <1>6, <2>4, KnownStatements DEF Forgetful
    <3>2. /\ (Live(t) /\ stmt[t].isPrepared) \/ (t \in leftBehind /\ stmt[t].phase = "gone")
          /\ stmt[t].kind = "named"
          /\ stmt[t].name = m
      BY <2>4, <3>1 DEF IInv, StatementOK, SessionOK
    <3>3. CASE t = s
      BY <1>4, <2>1, <2>4, <3>2, <3>3
    <3>4. CASE t # s
      BY <1>4, <2>3, <3>1, <3>2, <3>4 DEF Live
    <3>5. QED
      BY <3>3, <3>4
  <2>5. ASSUME NEW m \in Names, NEW t \in {session'.cursors[m]} \ {NoStatement}
        PROVE  /\ Live(t)' \/ (t \in leftBehind' /\ stmt'[t].phase = "gone")
               /\ stmt'[t].kind = "cursor"
               /\ stmt'[t].name = m
    <3>1. session.cursors[m] = t /\ t \in Statements
      BY <1>6, <2>5, KnownStatements DEF Forgetful
    <3>2. /\ Live(t) \/ (t \in leftBehind /\ stmt[t].phase = "gone")
          /\ stmt[t].kind = "cursor"
          /\ stmt[t].name = m
      BY <2>5, <3>1 DEF IInv, StatementOK, SessionOK
    <3>3. CASE t = s
      BY <1>4, <2>2, <2>5, <3>2, <3>3
    <3>4. CASE t # s
      BY <1>4, <2>3, <3>1, <3>2, <3>4 DEF Live
    <3>5. QED
      BY <3>3, <3>4
  <2>6. QED
    BY <2>4, <2>5 DEF SessionOK
<1>10. PreparedIsThere'
  <2>1. ASSUME ~wentBack, link' = "OK", NEW t \in Statements, t # s,
               Live(t), stmt[t].kind = "named", stmt[t].isPrepared
        PROVE  session'.prepared[stmt[t].name] = t
    <3>1. session.prepared[stmt[t].name] = t /\ stmt[t].name \in Names
      BY <1>6, <2>1, LiveNames DEF IInv, StatementOK, PreparedIsThere, Counters
    <3>2. CASE Closing(s) = "DEALLOCATE" /\ session'.prepared = [session.prepared EXCEPT ![n] = NoStatement]
      <4>1. stmt[t].name # n
        BY <1>1, <2>1, <3>2 DEF IInv, StatementOK, NamesOK, Named, Live, Counters, Closing
      <4>2. session.prepared \in [Names -> Statements \cup {NoStatement}]
        BY <1>2 DEF Session
      <4>3. QED
        BY <3>1, <3>2, <4>1, <4>2
    <3>3. CASE session'.prepared = session.prepared
      BY <3>1, <3>3
    <3>4. QED
      BY <1>6, <2>1, <3>2, <3>3
  <2>2. QED
    BY <1>1, <1>4, <2>1 DEF PreparedIsThere, Live
<1>11. RunningOK' /\ OwnQuery'
  BY <1>1, <1>2, <1>4 DEF RunningOK, OwnQuery
<1>12. QED
  BY <1>7, <1>8, <1>9, <1>10, <1>11 DEF StatementOK

-----------------------------------------------------------------------------
(* The invariant *)

\* The first statement finds nothing.
LEMMA InitIInv ==
  ASSUME Init
  PROVE  IInv
<1>1. 0 \in 0..MaxRows /\ 0 \in 0..MaxName /\ NoStatement \notin Statements
  BY ConnectionAssumption, StatementAssumption
<1>2. /\ NewSession \in Session /\ NewSession.txn = "IDLE"
      /\ \A n \in Names : NewSession.prepared[n] = NoStatement /\ NewSession.cursors[n] = NoStatement
  BY DEF NewSession, Session
<1>3. /\ Unused \in StatementRecord /\ Unused.phase = "unused" /\ Unused.result.of = NoStatement
  BY <1>1, AnswerTypes DEF Unused, StatementRecord
<1>4. stmt \in [Statements -> StatementRecord] /\ \A s \in Statements : stmt[s] = Unused
  BY <1>3 DEF Init
<1>5. TypeOK /\ GhostsOK
  BY <1>1, <1>2, <1>4 DEF Init, ConnectionInit, TypeOK, GhostsOK, StatementRecord
<1>6. TransactionOK
  BY <1>2 DEF Init, ConnectionInit, TransactionOK, TransactionKnown
<1>7. StatementOK
  BY <1>2, <1>3, <1>4
     DEF Init, ConnectionInit, StatementOK, NamesOK, RunningOK, SessionOK, PreparedIsThere,
         OwnQuery, Named, Live
<1>8. QED
  BY <1>5, <1>6, <1>7 DEF IInv

\* Every step keeps the invariant.
LEMMA NextIInv ==
  ASSUME IInv, [Next]_vars
  PROVE  IInv'
<1>1. ASSUME pc = "idle", ConnectionCall, UNCHANGED <<stmt, raceVars, leftBehind, pc, running>>
      PROVE  IInv'
  BY <1>1, ConnectionKeepsStatements, ConnectionKeepsTransaction DEF IInv
<1>2. ASSUME pc = "idle", NEW s \in Statements,
             \/ \E k \in Counters \cup {"plain"} : create(s, k)
             \/ createFails(s) \/ CallExecute(s) \/ fetcher(s) \/ getColumnMeta(s) \/ sweep(s)
      PROVE  IInv'
  <2>1. TransactionOK'
    BY <1>2, StatementKeepsTransaction
  <2>2. TypeOK' /\ GhostsOK' /\ StatementOK'
    BY <1>2, CreateKeepsStatements, CreateFailsKeeps, CallExecuteKeeps, FetcherKeeps, ColumnMetaKeeps, SweepKeeps
  <2>3. QED
    BY <2>1, <2>2 DEF IInv
<1>3. ASSUME NEW s \in Statements, running = s, ExecuteStep(s)
      PROVE  IInv'
  <2>1. TransactionOK'
    BY <1>3, ExecutionKeepsTransaction
  <2>2. TypeOK' /\ GhostsOK' /\ StatementOK'
    BY <1>3, CloseCursorKeeps, DeclareCursorKeeps, FetchNoneKeeps, PrepareKeeps, DeallocateKeeps,
       RunKeeps, ParametersMissingKeeps DEF ExecuteStep
  <2>3. QED
    BY <2>1, <2>2 DEF IInv
<1>4. CASE UNCHANGED vars
  BY <1>4 DEF vars, connectionVars, ghostVars, IInv, TypeOK, GhostsOK, TransactionOK,
              TransactionKnown, StatementOK, NamesOK, RunningOK, SessionOK, PreparedIsThere,
              OwnQuery, Named, Live
<1>5. QED
  BY <1>1, <1>2, <1>3, <1>4 DEF Next, Call, CallStep

\* The invariant holds in every state a connection and its statements reach.
THEOREM Invariance == Spec => []IInv
<1>1. Init => IInv
  BY InitIInv
<1>2. IInv /\ [Next]_vars => IInv'
  BY NextIInv
<1>3. QED
  BY <1>1, <1>2, PTL DEF Spec

\* Every variable keeps its type: rows and names stay within their bounds, and a
\* statement is being executed just when executer is in one of its places.
THEOREM StatementTypes == Spec => []TypeOK
<1>1. IInv => TypeOK
  BY DEF IInv
<1>2. QED
  BY <1>1, Invariance, PTL

\* PDO knows of every transaction the server has open on a good connection.
THEOREM TransactionsKnown == Spec => []TransactionKnown
<1>1. IInv => TransactionKnown
  BY DEF IInv, TransactionOK
<1>2. QED
  BY <1>1, Invariance, PTL

\* m_isPrepared agrees with the session.
THEOREM PreparedAgrees == Spec => []PreparedIsThere
<1>1. IInv => PreparedIsThere
  BY DEF IInv, StatementOK
<1>2. QED
  BY <1>1, Invariance, PTL

\* A statement gives the rows of its own query.
THEOREM RowsAreOwn == Spec => []OwnQuery
<1>1. IInv => OwnQuery
  BY DEF IInv, StatementOK
<1>2. QED
  BY <1>1, Invariance, PTL

\* The session holds nothing of a destroyed statement that its destructor did not
\* try to give back in vain.
THEOREM NothingLeft == Spec => []NothingLeftBehind
<1>1. IInv => NothingLeftBehind
  BY DEF IInv, StatementOK, SessionOK, NothingLeftBehind
<1>2. QED
  BY <1>1, Invariance, PTL

\* A commit that returns TRUE has kept what was reported as written.
THEOREM CommitKept == Spec => CommitKeeps
<1>1. ASSUME IInv, [Next]_vars, commit, ~inTxn', link' = "OK", told
      PROVE  session'.kept \/ failed \/ unnoticed
  <2>1. session \in Session /\ link \in {"OK", "BAD"} /\ TransactionOK
    BY <1>1 DEF IInv, TypeOK
  <2>2. PICK result \in Results :
          ExecEnd(result, TRUE) /\ inTxn' = ~transactionCommand(result)
    BY <1>1 DEF commit, EndTransaction
  <2>3. /\ link = "OK" /\ inTxn
        /\ session' = Ended(TRUE /\ session.txn = "INTRANS")
    BY <1>1, <2>2 DEF commit, EndTransaction, ExecEnd, Lost, transactionCommand
  <2>4. (TRUE /\ session.txn = "INTRANS") \in BOOLEAN
    OBVIOUS
  <2>5. session'.kept = ((TRUE /\ session.txn = "INTRANS") /\ session.pending)
    BY <2>1, <2>3, <2>4, EndedSession
  <2>6. session.txn \in {"IDLE", "INTRANS", "INERROR"}
    BY <2>1 DEF Session
  <2>7. pc \notin Retrying
    <3>1. ASSUME pc # "idle"
          PROVE  inTxn' = inTxn
      <4>1. CASE CallStep
        BY <4>1 DEF CallStep, ExecuteStep, CloseCursor, DeclareCursor, FetchNone, Prepare,
                    Deallocate, Run, ParametersMissing
      <4>2. CASE UNCHANGED vars
        BY <4>2 DEF vars, connectionVars
      <4>3. QED
        BY <1>1, <3>1, <4>1, <4>2 DEF Next, Call
    <3>2. QED
      BY <1>1, <2>3, <3>1 DEF Retrying
  <2>8. QED
    BY <1>1, <2>1, <2>3, <2>5, <2>6, <2>7 DEF TransactionOK
<1>2. QED
  BY <1>1, Invariance, PTL DEF Spec, CommitKeeps

=============================================================================

------------------------------ MODULE AsyncQuery ------------------------------
(***************************************************************************)
(* One persistent connection and the query functions that scripts call on  *)
(* it: pg_send_query, pg_send_query_params, pg_send_prepare,               *)
(* pg_send_execute, pg_connection_busy, pg_get_result, pg_cancel_query and *)
(* the blocking pg_query family.  The requests that borrow the connection  *)
(* from its pool follow each other; nothing resets it in between.          *)
(*                                                                         *)
(* The server answers a query with one result per statement and then with  *)
(* "ready".  libpq reads the answers from the socket into its buffer and   *)
(* hands them out one PQgetResult at a time.  A COPY FROM STDIN leaves the *)
(* connection in COPY_IN, where PQgetResult gives the same PGRES_COPY_IN   *)
(* result every time and reads nothing; no function of this extension      *)
(* sends copy data, so only PQexec gets the connection out of it.          *)
(***************************************************************************)
EXTENDS Naturals, Sequences

CONSTANTS
  Borrowers,   \* requests that use the connection
  NoBorrower,  \* the connection waits in its pool
  MaxQueries,  \* bound: queries sent over the connection
  MaxResults,  \* bound: results of one query
  CopyAllowed  \* whether scripts send COPY FROM STDIN

ASSUME AsyncAssumption ==
  /\ NoBorrower \notin Borrowers
  /\ MaxQueries \in Nat
  /\ MaxResults \in Nat \ {0}
  /\ CopyAllowed \in BOOLEAN

VARIABLES
  holder,   \* the request that holds the connection
  pc,       \* where its script is
  got,      \* what the last pg_get_result or pg_query gave the script
  current,  \* the query the script believes it reads the results of; 0: none
  async,    \* asyncStatus of libpq
  buffer,   \* messages libpq has read
  socket,   \* messages on their way from the server
  server,   \* what the server does: idle, run, copy
  left,     \* results the running query may still have
  owner     \* who sent each query

scriptVars == <<holder, pc, got, current>>
libpqVars  == <<async, buffer, socket>>
serverVars == <<server, left>>
vars       == <<scriptVars, libpqVars, serverVars, owner>>

-----------------------------------------------------------------------------
QueryId == 1..MaxQueries

Message == [query : QueryId, kind : {"result", "error", "copy", "ready"}]

NULL == [query |-> 0, kind |-> "none"]

TypeOK ==
  /\ holder \in Borrowers \cup {NoBorrower}
  /\ pc \in {"idle", "drain", "send", "cancelDrain", "getResult",
             "poll", "execStart", "execSend", "execFinish"}
  /\ got \in Message \cup {NULL}
  /\ current \in 0..MaxQueries
  /\ async \in {"IDLE", "BUSY", "COPY_IN"}
  /\ buffer \in Seq(Message)
  /\ socket \in Seq(Message)
  /\ server \in {"idle", "run", "copy"}
  /\ left \in 0..MaxResults
  /\ owner \in Seq(Borrowers)
  /\ Len(owner) <= MaxQueries

Init ==
  /\ holder = NoBorrower
  /\ pc = "idle"
  /\ got = NULL
  /\ current = 0
  /\ async = "IDLE"
  /\ buffer = <<>>
  /\ socket = <<>>
  /\ server = "idle"
  /\ left = 0
  /\ owner = <<>>

-----------------------------------------------------------------------------
(* The server *)

Answer(kind) == socket' = Append(socket, [query |-> Len(owner), kind |-> kind])

\* The running statement fails, and the statements after it are skipped.
Fail ==
  /\ Answer("error")
  /\ server' = "run"
  /\ left' = 0

\* A statement of the query is done.
ServerResult ==
  /\ server = "run"
  /\ left > 0
  /\ Answer("result")
  /\ left' = left - 1
  /\ UNCHANGED <<scriptVars, async, buffer, server, owner>>

ServerError ==
  /\ server = "run"
  /\ left > 0
  /\ Fail
  /\ UNCHANGED <<scriptVars, async, buffer, owner>>

ServerCopy ==
  /\ CopyAllowed
  /\ server = "run"
  /\ left > 0
  /\ Answer("copy")
  /\ server' = "copy"
  /\ UNCHANGED <<scriptVars, async, buffer, left, owner>>

\* At least one statement was answered.
ServerReady ==
  /\ server = "run"
  /\ left < MaxResults
  /\ Answer("ready")
  /\ server' = "idle"
  /\ left' = 0
  /\ UNCHANGED <<scriptVars, async, buffer, owner>>

Server == ServerResult \/ ServerError \/ ServerCopy \/ ServerReady

-----------------------------------------------------------------------------
(* libpq *)

\* What has arrived is moved to the buffer.
PQconsumeInput ==
  /\ buffer' = buffer \o socket
  /\ socket' = <<>>

\* PQgetResult gives r; while the connection is BUSY and nothing has arrived it
\* blocks, that is, no r fits.
PQgetResult(r) ==
  \/ /\ async = "IDLE"
     /\ r = NULL
     /\ UNCHANGED libpqVars
  \/ /\ async = "COPY_IN"
     /\ r = [query |-> Len(owner), kind |-> "copy"]
     /\ UNCHANGED libpqVars
  \/ LET arrived == buffer \o socket
     IN  /\ async = "BUSY"
         /\ arrived # <<>>
         /\ buffer' = Tail(arrived)
         /\ socket' = <<>>
         /\ r = IF Head(arrived).kind = "ready" THEN NULL ELSE Head(arrived)
         /\ async' = CASE Head(arrived).kind = "ready" -> "IDLE"
                       [] Head(arrived).kind = "copy"  -> "COPY_IN"
                       [] OTHER                        -> "BUSY"

PQisBusy == async' = "BUSY" /\ buffer' = <<>>

\* PQsendQuery and its relatives: refused while a command is in progress.
CanSend == async = "IDLE"

StartQuery ==
  /\ async' = "BUSY"
  /\ server' = "run"
  /\ left' = MaxResults
  /\ owner' = Append(owner, holder)
  /\ UNCHANGED <<buffer, socket>>

-----------------------------------------------------------------------------
(* The pool lends the connection and takes it back as it is *)

Borrow(b) ==
  /\ holder = NoBorrower
  /\ holder' = b
  /\ got' = NULL
  /\ current' = 0
  /\ UNCHANGED <<pc, libpqVars, serverVars, owner>>

ReleaseConnection ==
  /\ holder # NoBorrower
  /\ pc = "idle"
  /\ holder' = NoBorrower
  /\ got' = NULL
  /\ UNCHANGED <<pc, current, libpqVars, serverVars, owner>>

\* A script calls a function of the extension.
Call(label) ==
  /\ holder # NoBorrower
  /\ pc = "idle"
  /\ pc' = label
  /\ UNCHANGED <<holder, libpqVars, serverVars, owner>>

CanCallSend == Len(owner) < MaxQueries

\* Mutant: TRUE whatever libpq says.
MutantSend ==
  /\ got' = NULL
  /\ current' = Len(owner) + 1
  /\ IF CanSend THEN StartQuery ELSE UNCHANGED <<libpqVars, serverVars, owner>>

\* The functions that send return TRUE when libpq accepts the query; from then
\* on the script reads its results.
Send ==
  IF CanSend
  THEN /\ StartQuery
       /\ got' = NULL
       /\ current' = Len(owner) + 1
  ELSE UNCHANGED <<libpqVars, serverVars, owner, got, current>>

-----------------------------------------------------------------------------
(* pg_send_query, pg_send_query_params *)

CallSendQuery ==
  /\ CanCallSend
  /\ Call("drain")
  /\ UNCHANGED <<got, current>>

\* Mutant: the body of the loop does not ask for the next result.
MutantDrain(label, after) ==
  /\ pc = label
  /\ \/ PQgetResult(NULL) /\ pc' = after
     \/ UNCHANGED <<pc, libpqVars>>
  /\ UNCHANGED <<holder, got, current, serverVars, owner>>

\* One turn of the loop that throws away what is left of earlier queries.
Drain(label, after) ==
  /\ pc = label
  /\ \E r \in Message \cup {NULL} :
       /\ PQgetResult(r)
       /\ pc' = IF r = NULL THEN after ELSE label
  /\ UNCHANGED <<holder, got, current, serverVars, owner>>

DrainBeforeSend == Drain("drain", "send")

\* The connection never is in non-blocking mode (asNonBlocking leaves the mode
\* alone), so PQflush sends everything at once.
SendQuery ==
  /\ pc = "send"
  /\ Send
  /\ pc' = "idle"
  /\ UNCHANGED holder

-----------------------------------------------------------------------------
(* pg_send_prepare, pg_send_execute: nothing is drained *)

\* Mutant: without the test that the link is there.
MutantSendExecute ==
  /\ CanCallSend
  /\ pc = "idle"
  /\ Send
  /\ UNCHANGED <<holder, pc>>

SendExecute ==
  /\ CanCallSend
  /\ holder # NoBorrower
  /\ pc = "idle"
  /\ Send
  /\ UNCHANGED <<holder, pc>>

-----------------------------------------------------------------------------
(* pg_connection_busy, pg_get_result *)

\* Mutant: PQisBusy is asked without reading from the socket first.
MutantConnectionBusy(next) ==
  /\ UNCHANGED libpqVars
  /\ pc' = IF PQisBusy THEN next ELSE "idle"
  /\ UNCHANGED <<holder, got, current, serverVars, owner>>

\* Reads what has arrived, and says whether pg_get_result would block.
ConnectionBusy(next) ==
  /\ PQconsumeInput
  /\ UNCHANGED async
  /\ pc' = IF PQisBusy THEN next ELSE "idle"
  /\ UNCHANGED <<holder, got, current, serverVars, owner>>

\* A script asks once ...
AskBusy ==
  /\ holder # NoBorrower
  /\ pc = "idle"
  /\ ConnectionBusy("idle")

\* ... or in a loop, until it is told FALSE.
CallPoll ==
  /\ Call("poll")
  /\ UNCHANGED <<got, current>>

Poll ==
  /\ pc = "poll"
  /\ ConnectionBusy("poll")

CallGetResult ==
  /\ Call("getResult")
  /\ got' = NULL
  /\ UNCHANGED current

GetResult ==
  /\ pc = "getResult"
  /\ \E r \in Message \cup {NULL} : PQgetResult(r) /\ got' = r
  /\ pc' = "idle"
  /\ UNCHANGED <<holder, current, serverVars, owner>>

-----------------------------------------------------------------------------
(* pg_cancel_query *)

\* PQrequestCancel returns when the server has been told: the running query
\* fails, unless it is over.
CallCancelQuery ==
  /\ holder # NoBorrower
  /\ pc = "idle"
  /\ pc' = "cancelDrain"
  /\ \/ UNCHANGED <<socket, serverVars>>
     \/ ((server = "run" /\ left > 0) \/ server = "copy") /\ Fail
  /\ UNCHANGED <<holder, got, current, async, buffer, owner>>

DrainAfterCancel == Drain("cancelDrain", "idle")

-----------------------------------------------------------------------------
(* pg_query, pg_query_params, pg_prepare, pg_execute: PQexec *)

CallQuery ==
  /\ CanCallSend
  /\ Call("execStart")
  /\ UNCHANGED <<got, current>>

\* PQexecStart throws away pending results, and ends a COPY.
ExecStart ==
  /\ pc = "execStart"
  /\ \/ /\ async = "COPY_IN"
        /\ async' = "BUSY"
        /\ IF server = "copy" THEN Fail ELSE UNCHANGED <<socket, serverVars>>
        /\ UNCHANGED <<pc, buffer>>
     \/ /\ async # "COPY_IN"
        /\ \E r \in Message \cup {NULL} :
             /\ PQgetResult(r)
             /\ pc' = IF r = NULL THEN "execSend" ELSE pc
        /\ UNCHANGED serverVars
  /\ UNCHANGED <<holder, got, current, owner>>

ExecSend ==
  /\ pc = "execSend"
  /\ Send
  /\ pc' = "execFinish"
  /\ UNCHANGED holder

\* PQexecFinish keeps the last result, and stops at a COPY.
ExecFinish ==
  /\ pc = "execFinish"
  /\ \E r \in Message \cup {NULL} :
       /\ PQgetResult(r)
       /\ got' = IF r = NULL THEN got ELSE r
       /\ pc' = IF r = NULL \/ r.kind = "copy" THEN "idle" ELSE pc
  /\ UNCHANGED <<holder, current, serverVars, owner>>

-----------------------------------------------------------------------------
\* What goes on inside a call.
CallStep ==
  \/ DrainBeforeSend
  \/ SendQuery
  \/ Poll
  \/ GetResult
  \/ DrainAfterCancel
  \/ ExecStart
  \/ ExecSend
  \/ ExecFinish

ScriptStep ==
  \/ \E b \in Borrowers : Borrow(b)
  \/ ReleaseConnection
  \/ CallSendQuery
  \/ SendExecute
  \/ AskBusy
  \/ CallPoll
  \/ CallGetResult
  \/ CallCancelQuery
  \/ CallQuery

Next == Server \/ CallStep \/ ScriptStep

Spec == Init /\ [][Next]_vars

(***************************************************************************)
(* Fairness.  The server goes on with a query until it is ready, and a     *)
(* call goes on as long as libpq has something to give.  A script need not *)
(* make any call, but one that polls in a loop goes on polling.            *)
(***************************************************************************)
FairSpec == Spec /\ WF_vars(Server) /\ WF_vars(CallStep)

-----------------------------------------------------------------------------
(* Safety *)

\* ResultsOfLastSend: after a send that returned TRUE, what pg_get_result gives
\* is of that query, never a leftover of an earlier one or of an earlier borrower
\* of the connection.  (Before its first send a script is given what it finds.)
ResultsOfLastSend ==
  got # NULL /\ current # 0 => got.query = current /\ owner[current] = holder

-----------------------------------------------------------------------------
(* Liveness *)

\* DrainEnds: pg_send_query gets through the results that are left, whatever they
\* are, and sends; pg_cancel_query returns, whether or not it came too late.  Only
\* the unfinished COPY of async_copy can stop them.
DrainEnds ==
  (pc \in {"drain", "cancelDrain"}) ~> (pc = "idle" \/ async = "COPY_IN")

\* PollEnds: a script that waits for pg_connection_busy to say FALSE is told so in
\* the end, in whatever pieces the answer comes and whatever was left on the
\* connection, and pg_get_result does not block then.
PollEnds == (pc = "poll") ~> (pc = "idle" /\ (async # "BUSY" \/ buffer # <<>>))

-----------------------------------------------------------------------------
(* What the documentation says and the code does not do *)

\* SendReturns: "There are results on this connection. Call pg_get_result() until
\* it returns FALSE": throwing them away is meant to come to an end.
SendReturns == (pc = "drain") ~> (pc = "idle")

=============================================================================

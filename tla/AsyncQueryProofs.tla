-------------------------- MODULE AsyncQueryProofs --------------------------
(***************************************************************************)
(* What TLAPS proves of the query functions over one persistent            *)
(* connection, for any borrowers and any number of queries and results:    *)
(* pg_get_result gives results of the query that was sent last, although   *)
(* nothing resets the connection between two borrowers.                    *)
(***************************************************************************)
EXTENDS AsyncQuery, SequenceTheorems, TLAPS

-----------------------------------------------------------------------------
(* The inductive invariant *)

\* What libpq has not yet handed out, in order.
Arrived == buffer \o socket

\* Places of a call from which a query may still be sent.
Sending == {"drain", "send", "execStart", "execSend"}

\* ScriptOK: only a borrower makes calls, what it reads it was given since it
\* borrowed the connection, and what it sent is the last query over it.
ScriptOK ==
  /\ pc # "idle" => holder # NoBorrower
  /\ got # NULL => holder # NoBorrower
  /\ pc \in Sending => CanCallSend
  /\ holder # NoBorrower /\ current # 0 => current = Len(owner) /\ owner[current] = holder

\* AnswersOK: what is on its way answers the last query and ends with "ready" once
\* the server is done with it; libpq is idle only when nothing is on its way, so
\* no query is sent over the answers to another.
AnswersOK ==
  /\ server # "idle" => Len(owner) > 0
  /\ \A i \in 1..Len(Arrived) :
       /\ Arrived[i].query = Len(owner)
       /\ Arrived[i].kind = "ready" => i = Len(Arrived) /\ server = "idle"
  /\ async = "IDLE" => server = "idle" /\ Arrived = <<>>

IInv == TypeOK /\ ScriptOK /\ AnswersOK /\ ResultsOfLastSend

-----------------------------------------------------------------------------
(* What is on its way *)

\* Messages on their way are a sequence; a query that was sent is one of the bound.
LEMMA ArrivedTypes ==
  ASSUME TypeOK
  PROVE  /\ Arrived \in Seq(Message)
         /\ Len(Arrived) \in Nat
         /\ Len(owner) \in Nat
         /\ Len(owner) > 0 => Len(owner) \in QueryId
         /\ NULL \notin Message
<1>1. Arrived \in Seq(Message)
  BY ConcatProperties DEF TypeOK, Arrived
<1>2. Len(Arrived) \in Nat /\ Len(owner) \in Nat
  BY <1>1, LenProperties DEF TypeOK
<1>3. QED
  BY <1>1, <1>2, AsyncAssumption DEF TypeOK, QueryId, Message, NULL

\* The server answers the running query; "ready" is its last word.
LEMMA AnswerArrives ==
  ASSUME TypeOK, AnswersOK, server # "idle", NEW kind \in {"result", "error", "copy", "ready"},
         Answer(kind), UNCHANGED <<buffer, owner>>, async' \in {async, "BUSY"},
         server' = "idle" <=> kind = "ready"
  PROVE  socket' \in Seq(Message) /\ AnswersOK'
<1>1. PICK m : m = [query |-> Len(owner), kind |-> kind]
  OBVIOUS
<1>2. m \in Message /\ m.query = Len(owner) /\ m.kind = kind /\ Len(owner) > 0
  BY <1>1, ArrivedTypes DEF AnswersOK, Message
<1>3. socket' = Append(socket, m) /\ socket' \in Seq(Message)
  BY <1>1, <1>2, AppendProperties DEF Answer, TypeOK
<1>4. Arrived' = Append(Arrived, m)
  BY <1>2, <1>3 DEF Arrived, TypeOK
<1>5. /\ Len(Arrived') = Len(Arrived) + 1
      /\ \A i \in 1..Len(Arrived) : Arrived'[i] = Arrived[i]
      /\ Arrived'[Len(Arrived) + 1] = m
  BY <1>2, <1>4, ArrivedTypes, AppendProperties
<1>6. async' # "IDLE"
  BY DEF AnswersOK
<1>7. \A i \in 1..Len(Arrived') :
        /\ Arrived'[i].query = Len(owner)
        /\ Arrived'[i].kind = "ready" => i = Len(Arrived') /\ server' = "idle"
  <2>1. ASSUME NEW i \in 1..Len(Arrived'), i <= Len(Arrived)
        PROVE  Arrived'[i].query = Len(owner) /\ Arrived'[i].kind # "ready"
    <3>1. i \in 1..Len(Arrived)
      BY <2>1, <1>5, ArrivedTypes
    <3>2. QED
      BY <1>5, <3>1 DEF AnswersOK
  <2>2. \A i \in 1..Len(Arrived') : i <= Len(Arrived) \/ i = Len(Arrived) + 1
    BY <1>5, ArrivedTypes
  <2>3. QED
    BY <1>2, <1>5, <2>1, <2>2
<1>8. QED
  BY <1>2, <1>3, <1>6, <1>7 DEF AnswersOK

\* pg_connection_busy moves messages and hands out none.
LEMMA ConsumedInput ==
  ASSUME TypeOK, AnswersOK, PQconsumeInput, UNCHANGED <<async, server, owner>>
  PROVE  /\ buffer' \in Seq(Message) /\ socket' \in Seq(Message)
         /\ AnswersOK'
<1>1. buffer' = Arrived /\ socket' = <<>>
  BY DEF PQconsumeInput, Arrived
<1>2. Arrived' = Arrived
  <2>1. Arrived' = buffer' \o socket'
    BY DEF Arrived
  <2>2. Arrived \o <<>> = Arrived
    BY ArrivedTypes, ConcatEmptySeq
  <2>3. QED
    BY <1>1, <2>1, <2>2
<1>3. buffer' \in Seq(Message) /\ socket' \in Seq(Message)
  BY <1>1, ArrivedTypes
<1>4. QED
  BY <1>2, <1>3 DEF AnswersOK

\* PQgetResult gives results of the last query only.
LEMMA HandedOut ==
  ASSUME TypeOK, AnswersOK, NEW r, PQgetResult(r), UNCHANGED <<server, owner>>
  PROVE  /\ buffer' \in Seq(Message) /\ socket' \in Seq(Message)
         /\ async' \in {"IDLE", "BUSY", "COPY_IN"}
         /\ AnswersOK'
         /\ r # NULL => r.query = Len(owner)
<1>1. CASE async # "BUSY"
  <2>1. UNCHANGED libpqVars /\ (r = NULL \/ r.query = Len(owner))
    BY <1>1 DEF PQgetResult
  <2>2. Arrived' = Arrived
    BY <2>1 DEF Arrived, libpqVars
  <2>3. QED
    BY <2>1, <2>2 DEF TypeOK, AnswersOK, libpqVars
<1>2. CASE async = "BUSY"
  <2>1. /\ Arrived # <<>>
        /\ buffer' = Tail(Arrived)
        /\ socket' = <<>>
        /\ r = IF Head(Arrived).kind = "ready" THEN NULL ELSE Head(Arrived)
        /\ async' = CASE Head(Arrived).kind = "ready" -> "IDLE"
                      [] Head(Arrived).kind = "copy"  -> "COPY_IN"
                      [] OTHER                        -> "BUSY"
    BY <1>2 DEF PQgetResult, Arrived
  <2>2. /\ Tail(Arrived) \in Seq(Message)
        /\ Len(Tail(Arrived)) = Len(Arrived) - 1
        /\ \A i \in 1..Len(Tail(Arrived)) : Tail(Arrived)[i] = Arrived[i + 1]
    BY <2>1, ArrivedTypes, HeadTailProperties
  <2>3. Len(Arrived) > 0 /\ Head(Arrived) = Arrived[1]
    BY <2>1, ArrivedTypes
  <2>4. Arrived' = Tail(Arrived)
    <3>1. Arrived' = buffer' \o socket'
      BY DEF Arrived
    <3>2. Tail(Arrived) \o <<>> = Tail(Arrived)
      BY <2>2, ConcatEmptySeq
    <3>3. QED
      BY <2>1, <3>1, <3>2
  <2>5. /\ Head(Arrived).query = Len(owner)
        /\ Head(Arrived).kind = "ready" => Len(Arrived) = 1 /\ server = "idle"
    <3>1. 1 \in 1..Len(Arrived)
      BY <2>3, ArrivedTypes
    <3>2. QED
      BY <2>3, <3>1 DEF AnswersOK
  <2>6. ASSUME NEW i \in 1..Len(Arrived')
        PROVE  /\ Arrived'[i].query = Len(owner)
               /\ Arrived'[i].kind = "ready" => i = Len(Arrived') /\ server = "idle"
    <3>1. Arrived'[i] = Arrived[i + 1] /\ i + 1 \in 1..Len(Arrived)
      BY <2>2, <2>4, ArrivedTypes
    <3>2. /\ Arrived[i + 1].query = Len(owner)
          /\ Arrived[i + 1].kind = "ready" => i + 1 = Len(Arrived) /\ server = "idle"
      BY <3>1 DEF AnswersOK
    <3>3. i + 1 = Len(Arrived) => i = Len(Arrived')
      BY <2>2, <2>4, ArrivedTypes
    <3>4. QED
      BY <3>1, <3>2, <3>3
  <2>7. async' = "IDLE" => server = "idle" /\ Arrived' = <<>>
    <3>1. async' = "IDLE" => Head(Arrived).kind = "ready"
      BY <2>1
    <3>2. Len(Arrived) = 1 => Tail(Arrived) = <<>>
      <4>1. Tail(Arrived) # <<>> => Len(Tail(Arrived)) # 0
        BY <2>2, EmptySeq
      <4>2. Len(Arrived) = 1 => Len(Tail(Arrived)) = 0
        BY <2>2
      <4>3. QED
        BY <4>1, <4>2
    <3>3. QED
      BY <2>4, <2>5, <3>1, <3>2
  <2>8. AnswersOK'
    BY <2>6, <2>7 DEF AnswersOK
  <2>9. QED
    BY <2>1, <2>2, <2>5, <2>8
<1>3. QED
  BY <1>1, <1>2

\* A query is sent only when nothing is on its way, and is the last one then.
LEMMA QuerySent ==
  ASSUME TypeOK, AnswersOK, holder \in Borrowers, CanCallSend, Send
  PROVE  /\ \/ UNCHANGED <<libpqVars, serverVars, owner, got, current>>
            \/ /\ got' = NULL
               /\ current' = Len(owner') /\ current' > 0 /\ owner'[current'] = holder
         /\ current' \in 0..MaxQueries
         /\ owner' \in Seq(Borrowers) /\ Len(owner') <= MaxQueries
         /\ async' \in {"IDLE", "BUSY", "COPY_IN"}
         /\ server' \in {"idle", "run", "copy"} /\ left' \in 0..MaxResults
         /\ UNCHANGED <<buffer, socket>>
         /\ AnswersOK'
<1>1. CASE async # "IDLE"
  <2>1. UNCHANGED <<libpqVars, serverVars, owner, got, current>>
    BY <1>1 DEF Send, CanSend
  <2>2. QED
    BY <2>1 DEF TypeOK, AnswersOK, Arrived, libpqVars, serverVars
<1>2. CASE async = "IDLE"
  <2>1. /\ async' = "BUSY" /\ server' = "run" /\ left' = MaxResults
        /\ owner' = Append(owner, holder)
        /\ UNCHANGED <<buffer, socket>>
        /\ got' = NULL /\ current' = Len(owner) + 1
    BY <1>2 DEF Send, CanSend, StartQuery
  <2>2. /\ owner' \in Seq(Borrowers)
        /\ Len(owner') = Len(owner) + 1
        /\ owner'[Len(owner) + 1] = holder
    BY <2>1, AppendProperties DEF TypeOK
  <2>3. Arrived' = <<>>
    BY <1>2, <2>1 DEF AnswersOK, Arrived
  <2>4. AnswersOK'
    BY <2>1, <2>2, <2>3, ArrivedTypes DEF AnswersOK
  <2>5. current' \in 0..MaxQueries /\ Len(owner') <= MaxQueries /\ left' \in 0..MaxResults /\ current' > 0
    BY <2>1, <2>2, ArrivedTypes, AsyncAssumption DEF CanCallSend
  <2>6. QED
    BY <2>1, <2>2, <2>4, <2>5
<1>3. QED
  BY <1>1, <1>2

-----------------------------------------------------------------------------
(* The steps *)

\* The server's steps leave the script and what libpq has read alone.
LEMMA ServerKeeps ==
  ASSUME IInv, Server
  PROVE  IInv'
<1>1. /\ TypeOK /\ AnswersOK /\ server \in {"run", "copy"}
      /\ UNCHANGED <<scriptVars, async, buffer, owner>>
  BY DEF IInv, Server, ServerResult, ServerError, ServerCopy, ServerReady
<1>2. PICK kind \in {"result", "error", "copy", "ready"} :
        /\ Answer(kind)
        /\ server' \in {"idle", "run", "copy"}
        /\ server' = "idle" <=> kind = "ready"
  BY <1>1 DEF Server, ServerResult, ServerError, ServerCopy, ServerReady, Fail
<1>3. left' \in 0..MaxResults
  BY <1>1, AsyncAssumption
     DEF TypeOK, Server, ServerResult, ServerError, ServerCopy, ServerReady, Fail
<1>4. socket' \in Seq(Message) /\ AnswersOK'
  BY <1>1, <1>2, AnswerArrives
<1>5. QED
  BY <1>1, <1>2, <1>3, <1>4
     DEF IInv, TypeOK, ScriptOK, CanCallSend, ResultsOfLastSend, scriptVars

\* The pool lends the connection and takes it back.
LEMMA LoanKeeps ==
  ASSUME IInv, (\E b \in Borrowers : Borrow(b)) \/ ReleaseConnection
  PROVE  IInv'
<1>1. /\ UNCHANGED <<pc, libpqVars, serverVars, owner>> /\ got' = NULL
      /\ holder' \in Borrowers \cup {NoBorrower} /\ current' \in 0..MaxQueries
      /\ pc = "idle"
      /\ holder' # NoBorrower => current' = 0
  <2>1. CASE \E b \in Borrowers : Borrow(b)
    <3>1. PICK b \in Borrowers : Borrow(b)
      BY <2>1
    <3>2. pc = "idle" /\ MaxQueries \in Nat
      BY <3>1, AsyncAssumption DEF IInv, ScriptOK, Borrow
    <3>3. got' = NULL /\ current' = 0
      BY <3>1 DEF Borrow
    <3>4. current' \in 0..MaxQueries
      BY <3>2, <3>3
    <3>5. holder' = b /\ UNCHANGED <<pc, libpqVars, serverVars, owner>>
      BY <3>1 DEF Borrow
    <3>6. QED
      BY <3>2, <3>3, <3>4, <3>5
  <2>2. CASE ReleaseConnection
    BY <2>2 DEF IInv, TypeOK, ReleaseConnection
  <2>3. QED
    BY <2>1, <2>2
<1>2. AnswersOK'
  BY <1>1 DEF IInv, AnswersOK, Arrived, libpqVars, serverVars
<1>3. QED
  BY <1>1, <1>2
     DEF IInv, TypeOK, ScriptOK, ResultsOfLastSend, Sending, libpqVars, serverVars

\* The calls that do nothing yet.
LEMMA CallKeeps ==
  ASSUME IInv, CallSendQuery \/ CallGetResult \/ CallPoll \/ CallQuery
  PROVE  IInv'
<1>1. /\ holder # NoBorrower
      /\ pc' \in {"drain", "getResult", "poll", "execStart"}
      /\ got' \in {got, NULL}
      /\ pc' \in Sending => CanCallSend
      /\ UNCHANGED <<holder, current, libpqVars, serverVars, owner>>
  BY DEF CallSendQuery, CallGetResult, CallPoll, CallQuery, Call, Sending
<1>2. AnswersOK'
  BY <1>1 DEF IInv, AnswersOK, Arrived, libpqVars, serverVars
<1>3. QED
  BY <1>1, <1>2
     DEF IInv, TypeOK, ScriptOK, ResultsOfLastSend, CanCallSend, libpqVars, serverVars

\* pg_connection_busy.
LEMMA BusyKeeps ==
  ASSUME IInv, AskBusy \/ Poll
  PROVE  IInv'
<1>1. /\ TypeOK /\ AnswersOK /\ holder # NoBorrower
      /\ PQconsumeInput /\ pc' \in {"idle", "poll"}
      /\ UNCHANGED <<holder, got, current, async, serverVars, owner>>
  BY DEF IInv, ScriptOK, AskBusy, Poll, ConnectionBusy
<1>2. buffer' \in Seq(Message) /\ socket' \in Seq(Message) /\ AnswersOK'
  BY <1>1, ConsumedInput DEF serverVars
<1>3. QED
  BY <1>1, <1>2
     DEF IInv, TypeOK, ScriptOK, ResultsOfLastSend, Sending, CanCallSend, serverVars

\* pg_cancel_query tells the server, which may answer with an error.
LEMMA CancelKeeps ==
  ASSUME IInv, CallCancelQuery
  PROVE  IInv'
<1>1. /\ TypeOK /\ AnswersOK /\ holder # NoBorrower
      /\ pc' = "cancelDrain"
      /\ UNCHANGED <<holder, got, current, async, buffer, owner>>
  BY DEF IInv, CallCancelQuery
<1>2. /\ socket' \in Seq(Message) /\ server' \in {"idle", "run", "copy"} /\ left' \in 0..MaxResults
      /\ AnswersOK'
  <2>1. CASE UNCHANGED <<socket, serverVars>>
    BY <1>1, <2>1 DEF TypeOK, AnswersOK, Arrived, serverVars
  <2>2. CASE server # "idle" /\ Fail
    BY <1>1, <2>2, AnswerArrives, AsyncAssumption DEF Fail
  <2>3. QED
    BY <2>1, <2>2 DEF CallCancelQuery
<1>3. QED
  BY <1>1, <1>2 DEF IInv, TypeOK, ScriptOK, ResultsOfLastSend, Sending

\* The steps that ask libpq for a result: what they give the script is of the last
\* query, which is the script's own if it has sent one.
LEMMA ResultKeeps ==
  ASSUME IInv, pc # "idle", NEW r \in Message \cup {NULL}, PQgetResult(r),
         got' \in {got, r}, pc' \in {"idle", pc, "send", "execSend"},
         pc' \in Sending => pc \in Sending,
         UNCHANGED <<holder, current, serverVars, owner>>
  PROVE  IInv'
<1>1. /\ TypeOK /\ AnswersOK /\ holder # NoBorrower
  BY DEF IInv, ScriptOK
<1>2. /\ buffer' \in Seq(Message) /\ socket' \in Seq(Message)
      /\ async' \in {"IDLE", "BUSY", "COPY_IN"}
      /\ AnswersOK'
      /\ r # NULL => r.query = Len(owner)
  BY <1>1, HandedOut DEF serverVars
<1>3. TypeOK'
  BY <1>1, <1>2 DEF TypeOK, serverVars
<1>4. ScriptOK'
  BY <1>1 DEF IInv, ScriptOK, CanCallSend
<1>5. ResultsOfLastSend'
  BY <1>1, <1>2 DEF IInv, ScriptOK, ResultsOfLastSend
<1>6. QED
  BY <1>2, <1>3, <1>4, <1>5 DEF IInv

\* The steps that send.
LEMMA SendKeeps ==
  ASSUME IInv, holder # NoBorrower, CanCallSend, Send,
         pc' \in {"idle", "execFinish"}, UNCHANGED holder
  PROVE  IInv'
<1>1. TypeOK /\ AnswersOK /\ holder \in Borrowers
  BY DEF IInv, TypeOK
<1>2. /\ \/ UNCHANGED <<libpqVars, serverVars, owner, got, current>>
         \/ /\ got' = NULL
            /\ current' = Len(owner') /\ current' > 0 /\ owner'[current'] = holder
      /\ current' \in 0..MaxQueries
      /\ owner' \in Seq(Borrowers) /\ Len(owner') <= MaxQueries
      /\ async' \in {"IDLE", "BUSY", "COPY_IN"}
      /\ server' \in {"idle", "run", "copy"} /\ left' \in 0..MaxResults
      /\ UNCHANGED <<buffer, socket>>
      /\ AnswersOK'
  BY <1>1, QuerySent
<1>3. got' \in {got, NULL}
  BY <1>2
<1>4. TypeOK'
  BY <1>1, <1>2, <1>3 DEF TypeOK
<1>5. ScriptOK'
  BY <1>1, <1>2 DEF IInv, ScriptOK, Sending
<1>6. ResultsOfLastSend'
  BY <1>2 DEF IInv, ResultsOfLastSend
<1>7. QED
  BY <1>2, <1>4, <1>5, <1>6 DEF IInv

\* PQexecStart ends a COPY.
LEMMA EndCopyKeeps ==
  ASSUME IInv, pc = "execStart", async = "COPY_IN", async' = "BUSY",
         IF server = "copy" THEN Fail ELSE UNCHANGED <<socket, serverVars>>,
         UNCHANGED <<pc, buffer, holder, got, current, owner>>
  PROVE  IInv'
<1>1. TypeOK /\ AnswersOK
  BY DEF IInv, ScriptOK
<1>2. /\ socket' \in Seq(Message) /\ server' \in {"idle", "run", "copy"} /\ left' \in 0..MaxResults
      /\ AnswersOK'
  <2>1. CASE server = "copy"
    <3>1. Fail
      BY <2>1
    <3>2. QED
      BY <1>1, <2>1, <3>1, AnswerArrives, AsyncAssumption DEF Fail
  <2>2. CASE server # "copy"
    BY <1>1, <2>2 DEF TypeOK, AnswersOK, Arrived, serverVars
  <2>3. QED
    BY <2>1, <2>2
<1>3. QED
  BY <1>1, <1>2 DEF IInv, TypeOK, ScriptOK, ResultsOfLastSend, CanCallSend

\* What goes on inside a call.
LEMMA CallStepKeeps ==
  ASSUME IInv, CallStep
  PROVE  IInv'
<1>1. ASSUME NEW label, NEW after, Drain(label, after),
             \/ label = "drain" /\ after = "send"
             \/ label = "cancelDrain" /\ after = "idle"
      PROVE  IInv'
  <2>1. /\ pc = label
        /\ UNCHANGED <<holder, got, current, serverVars, owner>>
    BY <1>1 DEF Drain
  <2>2. PICK r \in Message \cup {NULL} :
          PQgetResult(r) /\ pc' = IF r = NULL THEN after ELSE label
    BY <1>1 DEF Drain
  <2>3. QED
    BY <1>1, <2>1, <2>2, ResultKeeps DEF Sending
<1>2. CASE GetResult
  <2>1. PICK r \in Message \cup {NULL} : PQgetResult(r) /\ got' = r
    BY <1>2 DEF GetResult
  <2>2. QED
    BY <1>2, <2>1, ResultKeeps DEF GetResult, Sending
<1>3. CASE ExecFinish
  <2>1. PICK r \in Message \cup {NULL} :
          /\ PQgetResult(r)
          /\ got' = IF r = NULL THEN got ELSE r
          /\ pc' = IF r = NULL \/ r.kind = "copy" THEN "idle" ELSE pc
    BY <1>3 DEF ExecFinish
  <2>2. QED
    BY <1>3, <2>1, ResultKeeps DEF ExecFinish, Sending
<1>4. CASE ExecStart
  <2>1. CASE async = "COPY_IN"
    BY <1>4, <2>1, EndCopyKeeps DEF ExecStart
  <2>2. CASE async # "COPY_IN"
    <3>1. PICK r \in Message \cup {NULL} :
            PQgetResult(r) /\ pc' = IF r = NULL THEN "execSend" ELSE pc
      BY <1>4, <2>2 DEF ExecStart
    <3>2. pc = "execStart" /\ UNCHANGED <<holder, got, current, serverVars, owner>>
      BY <1>4, <2>2 DEF ExecStart
    <3>3. QED
      BY <3>1, <3>2, ResultKeeps DEF Sending
  <2>3. QED
    BY <2>1, <2>2
<1>5. CASE SendQuery \/ ExecSend
  <2>1. /\ pc \in {"send", "execSend"} /\ pc' \in {"idle", "execFinish"}
        /\ Send /\ UNCHANGED holder
    BY <1>5 DEF SendQuery, ExecSend
  <2>2. holder # NoBorrower /\ CanCallSend
    BY <2>1 DEF IInv, TypeOK, ScriptOK, Sending
  <2>3. QED
    BY <2>1, <2>2, SendKeeps
<1>6. QED
  BY <1>1, <1>2, <1>3, <1>4, <1>5, BusyKeeps DEF CallStep, DrainBeforeSend, DrainAfterCancel

-----------------------------------------------------------------------------
(* The invariant *)

\* The invariant holds in every state the connection reaches.
THEOREM Invariance == Spec => []IInv
<1>1. Init => IInv
  <2> SUFFICES ASSUME Init PROVE IInv
    OBVIOUS
  <2>1. <<>> \in Seq(Message) /\ <<>> \in Seq(Borrowers) /\ Len(<<>>) = 0 /\ <<>> \o <<>> = <<>>
    OBVIOUS
  <2>2. Arrived = <<>>
    BY <2>1 DEF Init, Arrived
  <2>3. TypeOK
    <3>1. 0 \in 0..MaxQueries /\ 0 \in 0..MaxResults /\ 0 <= MaxQueries
      BY AsyncAssumption
    <3>2. Len(owner) <= MaxQueries
      BY <2>1, <3>1 DEF Init
    <3>3. QED
      BY <2>1, <3>1, <3>2 DEF Init, TypeOK
  <2>4. AnswersOK
    BY <2>1, <2>2 DEF Init, AnswersOK
  <2>5. QED
    BY <2>3, <2>4 DEF Init, IInv, ScriptOK, ResultsOfLastSend, Sending
<1>2. IInv /\ [Next]_vars => IInv'
  <2> SUFFICES ASSUME IInv, [Next]_vars PROVE IInv'
    OBVIOUS
  <2>1. CASE SendExecute
    BY <2>1, SendKeeps DEF SendExecute
  <2>2. CASE UNCHANGED vars
    BY <2>2
       DEF vars, scriptVars, libpqVars, serverVars, IInv, TypeOK, ScriptOK, AnswersOK, Arrived,
           CanCallSend, ResultsOfLastSend
  <2>3. QED
    BY <2>1, <2>2, ServerKeeps, LoanKeeps, CallKeeps, BusyKeeps, CancelKeeps, CallStepKeeps
       DEF Next, ScriptStep
<1>3. QED
  BY <1>1, <1>2, PTL DEF Spec

\* Every variable keeps its type; no more queries are sent than the bound, and a
\* message on its way is of a query that was sent.
THEOREM AsyncTypes == Spec => []TypeOK
<1>1. IInv => TypeOK
  BY DEF IInv
<1>2. QED
  BY <1>1, Invariance, PTL

\* After a send that returned TRUE, pg_get_result gives results of that query.
THEOREM LastSendAnswered == Spec => []ResultsOfLastSend
<1>1. IInv => ResultsOfLastSend
  BY DEF IInv
<1>2. QED
  BY <1>1, Invariance, PTL

=============================================================================

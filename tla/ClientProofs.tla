------------------------------ MODULE ClientProofs ------------------------------
(***************************************************************************)
(* Theorems about Client, for every set of requests, notifications and     *)
(* requests of the peer, and about what it keeps between requests          *)
(* (ClientTools and ClientRoots).                                          *)
(*                                                                         *)
(* The writer comes first: every step of the client is a step of           *)
(* SerializedWriter, so what SerializedWriterProofs proves of the wire     *)
(* holds of the client's.  Of one request the invariant then says how its  *)
(* coroutine, its entry and its spawned write hang together                *)
(* (TableMatchesCalls, WriteFollowsCall) and why a decided request that is *)
(* not on the wire cannot get there any more (UnsentStayUnsent).           *)
(***************************************************************************)
EXTENDS MCClient, TLAPS

WriterProofs == INSTANCE SerializedWriterProofs

---------------------------------------------------------------------------
\* The client and its writer

LEMMA EnqueueIsEnqueue ==
  ASSUME NEW o \in Ops, Writer!Enqueue(o) PROVE WriterProofs!Enqueue(o)
  BY DEF Writer!Enqueue, Writer!Pushed, WriterProofs!Enqueue, WriterProofs!Pushed

LEMMA ReturnIsReturn ==
  ASSUME NEW o \in Ops, Writer!Return(o) PROVE WriterProofs!Return(o)
  BY DEF Writer!Return, Writer!Finished, WriterProofs!Return, WriterProofs!Finished

LEMMA LoopIsLoop ==
  /\ Writer!DrainStart => WriterProofs!DrainStart
  /\ \A result \in {"ok", "failed"} : Writer!WriteDone(result) => WriterProofs!WriteDone(result)
<1> USE DEF Writer!Drain, Writer!Skips, Writer!WritesNextOrEnds,
            WriterProofs!Drain, WriterProofs!Skips, WriterProofs!WritesNextOrEnds
<1>1. Writer!DrainStart => WriterProofs!DrainStart
  BY Zenon DEF Writer!DrainStart, WriterProofs!DrainStart
<1>2. ASSUME NEW result \in {"ok", "failed"}, Writer!WriteDone(result) PROVE WriterProofs!WriteDone(result)
  BY <1>2, Zenon DEF Writer!WriteDone, Writer!Verdict, WriterProofs!WriteDone, WriterProofs!Verdict
<1> QED
  BY <1>1, <1>2

LEMMA InitIsInit == Init => WriterProofs!Init
  BY DEF Init, Writer!Init, WriterProofs!Init

\* Every step of the client is a step of its writer or leaves the writer alone: a
\* request that gives up sets its cancel flag, and a lost connection closes the
\* transport.
LEMMA StepIsStep ==
  ASSUME WriterProofs!IInv, [Next]_vars
  PROVE  [WriterProofs!Next]_(WriterProofs!vars)
<1>0. transportOpen \in BOOLEAN
  BY DEF WriterProofs!IInv, WriterProofs!Shape, WriterProofs!TypeOK
<1> SUFFICES WriterProofs!Next \/ UNCHANGED writerVars
  BY DEF WriterProofs!vars, writerVars
<1>1. ASSUME NEW o \in Ops, QueueWrite(o) PROVE WriterProofs!Next
  BY <1>1, EnqueueIsEnqueue DEF QueueWrite, WriterProofs!Next
<1>2. ASSUME NEW o \in Ops, WriteReturned(o) PROVE WriterProofs!Next
  BY <1>2, ReturnIsReturn DEF WriteReturned, WriterProofs!Next
<1>3. CASE DrainStart
  BY <1>3, LoopIsLoop DEF DrainStart, WriterProofs!Next
<1>4. CASE WriteDone
  BY <1>4, LoopIsLoop DEF WriteDone, WriterProofs!Next
<1>5. ASSUME NEW r \in Requests, Resume(r) PROVE WriterProofs!Next \/ UNCHANGED writerVars
  <2>1. r \in Ops
    BY DEF Ops
  <2>2. CASE entry[r].completed
    BY <1>5, <2>2 DEF Resume, WriteCancelled, writerVars
  <2>3. CASE ~ entry[r].completed
    <3>1. WriterProofs!SetCancel(r)
      BY <1>5, <2>3 DEF Resume, WriteCancelled, WriterProofs!SetCancel
    <3> QED
      BY <2>1, <3>1 DEF WriterProofs!Next
  <2> QED
    BY <2>2, <2>3
<1>6. CASE ReadFails \/ RunClosePost
  <2>1. /\ transportOpen' = FALSE
        /\ UNCHANGED <<queue, draining, drainer, cancel, status, returned, wire, accepted>>
    BY <1>6 DEF ReadFails, RunClosePost
  <2>2. CASE transportOpen
    BY <2>1, <2>2 DEF WriterProofs!CloseTransport, WriterProofs!Next
  <2> QED
    BY <1>0, <2>1, <2>2 DEF writerVars
<1>7. CASE \/ Connect \/ Close \/ FinishInitialize \/ FinishConnect
           \/ \E o \in Ops : Send(o) \/ Start(o)
           \/ \E r \in Requests : Expire(r)
           \/ \E r \in Requests, answer \in Answers \cup {"result"} : ReadAnswer(r, answer)
           \/ \E c \in Incoming : ReadRequest(c) \/ AnswerRequest(c)
  BY <1>7 DEF Connect, Close, FinishInitialize, FinishConnect, Send, Start, Expire, ReadAnswer,
              ReadRequest, AnswerRequest
<1>8. CASE UNCHANGED vars
  BY <1>8 DEF vars
<1> QED
  BY <1>1, <1>2, <1>3, <1>4, <1>5, <1>6, <1>7, <1>8 DEF Next

\* The invariant of the writer is one of the client.
THEOREM WriterInvariance == Safety => []WriterProofs!IInv
<1>1. Init => WriterProofs!IInv
  BY InitIsInit, WriterProofs!InitInv
<1>2. WriterProofs!IInv /\ [Next]_vars => WriterProofs!IInv'
  BY StepIsStep, WriterProofs!Step
<1> QED
  BY <1>1, <1>2, PTL DEF Safety

\* The client's writer behaves as SerializedWriter says, so everything proved of
\* the writer holds of the client's.
THEOREM WriterIsWriter == Safety => WriterProofs!Safety
<1>1. WriterProofs!IInv /\ [Next]_vars => [WriterProofs!Next]_(WriterProofs!vars)
  BY StepIsStep
<1> QED
  BY <1>1, InitIsInit, WriterInvariance, PTL DEF Safety, WriterProofs!Safety

---------------------------------------------------------------------------
\* Types

Places == {"idle", "spawned", "handling", "waiting", "done"}
Outcomes == Answers \cup Failures \cup {"none", "result", "sent"}

\* The values of the client's own variables; those of the writer's are in its
\* invariant.
Typed ==
    /\ closed \in BOOLEAN /\ closePosted \in BOOLEAN
    /\ readLoop \in {"off", "running", "stopped"}
    /\ connect \in {"none", "requesting", "notifying", "connected", "failed"}
    /\ call \in [Ops -> Places]
    /\ outcome \in [Ops -> Outcomes]
    /\ table \in SUBSET Requests /\ woken \in SUBSET Requests /\ expired \in SUBSET Requests
    /\ entry \in [Requests -> Entries]
    /\ spawnedWrites \in SUBSET Ops

LEMMA TypedIsTypeOK == Typed /\ WriterProofs!IInv => TypeOK
  BY DEF Typed, Places, Outcomes, TypeOK, WriterProofs!IInv, WriterProofs!Shape, WriterProofs!TypeOK,
         WriterProofs!Pending, WriterProofs!Finished, Writer!TypeOK, Writer!Pending, Writer!Finished

\* The ways an entry is completed.
LEMMA FailingCompletes ==
  ASSUME NEW e \in Entries, NEW why \in {"closed"}
  PROVE  /\ FailedWith(e, why) \in Entries /\ FailedWith(e, why).completed
         /\ e.completed => FailedWith(e, why) = e
  BY DEF FailedWith, Entries

LEMMA FailedWriteCompletes ==
  ASSUME NEW e \in Entries
  PROVE  LET f == [e EXCEPT !.writeError = TRUE, !.completed = TRUE]
         IN  f \in Entries /\ f.completed
  BY DEF Entries

LEMMA AnswerCompletes ==
  ASSUME NEW e \in Entries, NEW answer \in Answers \cup {"result"}
  PROVE  /\ Answered(e, answer) \in Entries /\ Answered(e, answer).completed
         /\ Answered(e, answer).writeError = e.writeError
         /\ Answered(e, answer).error \in {e.error} \cup Answers
  BY DEF Answered, Entries, Answers

LEMMA TimeoutDecides ==
  ASSUME NEW e \in Entries
  PROVE  /\ OutcomeOf(FailedWith(e, "timeout")) \in Outcomes
         /\ DecidedByPeer(e) => OutcomeOf(FailedWith(e, "timeout")) \notin Failures
  BY DEF OutcomeOf, FailedWith, Entries, Outcomes, Answers, Failures, DecidedByPeer

LEMMA NewEntry == NoEntry \in Entries /\ ~ NoEntry.completed
  BY DEF NoEntry, Entries, Answers

\* fail_pending_requests decides and wakes every entry of the table.
LEMMA FailPendingEffect ==
  ASSUME Typed, FailPending
  PROVE  /\ entry' \in [Requests -> Entries] /\ woken' \in SUBSET Requests
         /\ \A r \in Requests :
               /\ r \in table => entry'[r].completed /\ r \in woken'
               /\ r \notin table \/ entry[r].completed => entry'[r] = entry[r]
  BY FailingCompletes DEF Typed, FailPending

\* complete_request_write decides only what nothing else has.
LEMMA RequestWriteEffect ==
  ASSUME Typed, NEW r \in Requests, RequestWriteReturned(r)
  PROVE  /\ entry' \in [Requests -> Entries] /\ woken \subseteq woken' /\ woken' \in SUBSET Requests
         /\ \A s \in Requests : entry'[s] = entry[s]
                                \/ (s = r /\ ~ entry[s].completed /\ entry'[s].completed)
<1>1. CASE UNCHANGED <<entry, woken>>
  BY <1>1 DEF Typed
<1>2. CASE ~ UNCHANGED <<entry, woken>>
  <2> DEFINE new == IF closed THEN FailedWith(entry[r], "closed")
                    ELSE [entry[r] EXCEPT !.writeError = TRUE, !.completed = TRUE]
  <2>1. ~ entry[r].completed /\ entry' = [entry EXCEPT ![r] = new] /\ woken' = woken \cup {r}
    BY <1>2 DEF RequestWriteReturned
  <2>2. new \in Entries /\ new.completed
    BY FailingCompletes, FailedWriteCompletes DEF Typed
  <2> HIDE DEF new
  <2> QED
    BY <2>1, <2>2 DEF Typed
<1> QED
  BY <1>1, <1>2

LEMMA TypedInit == Init => Typed
  BY NewEntry DEF Init, Typed, Places, Outcomes

LEMMA TypedStep == Typed /\ [Next]_vars => Typed'
<1> SUFFICES ASSUME Typed, [Next]_vars PROVE Typed'
  OBVIOUS
<1>0. Initialize \in Ops /\ Initialized \in Ops /\ Requests \subseteq Ops /\ Notes \subseteq Ops /\ Incoming \subseteq Ops
  BY HandshakeAssumption DEF Ops
<1>1. CASE Connect
  BY <1>0, <1>1 DEF Connect, Typed, Places
<1>2. CASE Close
  BY <1>2 DEF Close, RequestClose, Typed
<1>3. CASE FinishInitialize
  BY <1>0, <1>3 DEF FinishInitialize, RequestClose, Typed, Places
<1>4. CASE FinishConnect
  BY <1>4 DEF FinishConnect, RequestClose, Typed
<1>5. CASE ReadFails
  BY <1>5, FailPendingEffect DEF ReadFails, Typed
<1>6. CASE RunClosePost
  BY <1>6, FailPendingEffect DEF RunClosePost, Typed
<1>7. CASE DrainStart \/ WriteDone
  BY <1>7 DEF DrainStart, WriteDone, clientVars, Typed
<1>8. ASSUME NEW o \in Ops, Send(o) PROVE Typed'
  BY <1>8 DEF Send, Typed, Places
<1>9. ASSUME NEW o \in Ops, Start(o) PROVE Typed'
  BY <1>9 DEF Start, Typed, Places, Outcomes, Failures
<1>10. ASSUME NEW o \in Ops, QueueWrite(o) PROVE Typed'
  BY <1>10 DEF QueueWrite, Typed
<1>11. ASSUME NEW o \in Ops, WriteReturned(o) PROVE Typed'
  <2>1. CASE o \in Requests
    <3>1. RequestWriteReturned(o) /\ UNCHANGED <<call, outcome>>
      BY <1>11, <2>1 DEF WriteReturned, RequestWriteReturned
    <3> QED
      BY <1>11, <2>1, <3>1, RequestWriteEffect DEF WriteReturned, Typed
  <2>2. CASE o \notin Requests
    BY <1>11, <2>2 DEF WriteReturned, OtherWriteReturned, Typed, Places, Outcomes, Failures
  <2> QED
    BY <2>1, <2>2
<1>12. ASSUME NEW r \in Requests, Expire(r) PROVE Typed'
  BY <1>12 DEF Expire, Typed
<1>13. ASSUME NEW r \in Requests, Resume(r) PROVE Typed'
  <2>1. OutcomeOf(FailedWith(entry[r], "timeout")) \in Outcomes
    BY TimeoutDecides DEF Typed
  <2> QED
    BY <1>0, <1>13, <2>1, NewEntry DEF Resume, Erased, Typed, Places
<1>14. ASSUME NEW r \in Requests, NEW answer \in Answers \cup {"result"}, ReadAnswer(r, answer) PROVE Typed'
  <2>1. Answered(entry[r], answer) \in Entries
    BY AnswerCompletes DEF Typed
  <2> QED
    BY <1>14, <2>1 DEF ReadAnswer, Typed
<1>15. ASSUME NEW c \in Incoming, ReadRequest(c) \/ AnswerRequest(c) PROVE Typed'
  BY <1>0, <1>15 DEF ReadRequest, AnswerRequest, Typed, Places
<1>16. CASE UNCHANGED vars
  BY <1>16 DEF vars, clientVars, Typed
<1> QED
  BY <1>1, <1>2, <1>3, <1>4, <1>5, <1>6, <1>7, <1>8, <1>9, <1>10, <1>11, <1>12, <1>13, <1>14,
     <1>15, <1>16 DEF Next

\* Type correctness of the client.
THEOREM TypeCorrect == Safety => []TypeOK
  BY TypedInit, TypedStep, TypedIsTypeOK, WriterInvariance, PTL DEF Safety

---------------------------------------------------------------------------
\* The inductive invariant

OnWire == WriterProofs!OnWire
Settled == {o \in Ops : status[o] \in WriterProofs!Finished}

\* No request is made before connect() started the read loop, so the initialize
\* request that connect() makes is a new one.
HandshakeFirst == readLoop = "off" => \A r \in Requests : call[r] = "idle"

\* The write of a request is spawned by its coroutine and queued once.
WriteFollowsCall ==
    \A r \in Requests :
        /\ r \in spawnedWrites => status[r] = "idle"
        /\ call[r] \in {"idle", "spawned"} => status[r] = "idle" /\ r \notin spawnedWrites

\* What keeps a request that is not on the wire from getting there: its cancel flag,
\* the closed transport, the verdict on its write, or that it is never written.
CannotBeSent(r) ==
    r \in cancel \/ ~transportOpen \/ r \in Settled \/ (status[r] = "idle" /\ r \notin spawnedWrites)

\* A request can be decided without having been sent only by what also stops its
\* write, so the one that returns sets the cancel flag exactly when it must.
UnsentStayUnsent ==
    \A r \in Requests \ OnWire :
        /\ entry[r].completed => ~transportOpen \/ r \in Settled
        /\ call[r] = "done" => CannotBeSent(r)

IInv == Typed /\ TableMatchesCalls /\ HandshakeFirst /\ WriteFollowsCall /\ UnsentStayUnsent

---------------------------------------------------------------------------
\* What a step may do to one request

LEMMA Kinds == /\ Initialize \in Requests /\ Initialized \in Notes /\ Requests \subseteq Ops
               /\ \A r \in Requests : r \notin Notes /\ r \notin Incoming
  BY HandshakeAssumption, DisjointAssumption DEF Ops

\* Its coroutine, its key in the table and its spawned write.
CallMoves(r) ==
    \/ /\ call'[r] = call[r] /\ (r \in table' <=> r \in table)
       /\ r \in spawnedWrites' => r \in spawnedWrites
    \/ /\ call[r] = "idle" /\ call'[r] = "spawned" /\ readLoop' # "off"
       /\ (r \in table' <=> r \in table) /\ (r \in spawnedWrites' <=> r \in spawnedWrites)
    \/ /\ call[r] = "spawned" /\ call'[r] = "done"
       /\ (r \in table' <=> r \in table) /\ (r \in spawnedWrites' <=> r \in spawnedWrites)
    \/ /\ call[r] = "spawned" /\ call'[r] = "waiting" /\ r \in table' /\ ~closed'
    \/ /\ call[r] = "waiting" /\ call'[r] = "done" /\ r \notin table'
       /\ entry[r].completed \/ r \in cancel'
       /\ (r \in spawnedWrites' <=> r \in spawnedWrites)

\* Its entry, and the signal to its coroutine.
EntryMoves(r) ==
    /\ \/ entry'[r] = entry[r]
       \/ entry'[r] = NoEntry /\ call[r] = "waiting" /\ r \notin table'
       \/ entry'[r].completed /\ (r \in OnWire \/ ~transportOpen' \/ r \in Settled)
    /\ r \in woken /\ r \in table' => r \in woken'

LEMMA CallStep ==
  ASSUME Typed, HandshakeFirst, [Next]_vars, NEW r \in Requests PROVE CallMoves(r)
<1> USE DEF CallMoves
<1>0. r \in Ops /\ r \notin Notes /\ r \notin Incoming /\ Initialize \in Requests /\ Initialized \in Notes
      /\ call \in [Ops -> Places]
  BY Kinds DEF Typed
<1>1. CASE Connect
  BY <1>0, <1>1 DEF Connect, HandshakeFirst
<1>2. CASE Close \/ FinishConnect
  BY <1>2 DEF Close, FinishConnect
<1>3. CASE FinishInitialize
  BY <1>0, <1>3 DEF FinishInitialize
<1>4. CASE ReadFails \/ RunClosePost
  BY <1>4 DEF ReadFails, RunClosePost
<1>5. CASE DrainStart \/ WriteDone
  BY <1>5 DEF DrainStart, WriteDone, clientVars
<1>6. ASSUME NEW o \in Ops, Send(o) PROVE CallMoves(r)
  BY <1>0, <1>6 DEF Send
<1>7. ASSUME NEW o \in Ops, Start(o) PROVE CallMoves(r)
  BY <1>0, <1>7 DEF Start, Refused, Typed
<1>8. ASSUME NEW o \in Ops, QueueWrite(o) PROVE CallMoves(r)
  BY <1>8 DEF QueueWrite
<1>9. ASSUME NEW o \in Ops, WriteReturned(o) PROVE CallMoves(r)
  BY <1>0, <1>9 DEF WriteReturned, RequestWriteReturned, OtherWriteReturned
<1>10. ASSUME NEW s \in Requests, Expire(s) PROVE CallMoves(r)
  BY <1>10 DEF Expire
<1>11. ASSUME NEW s \in Requests, Resume(s) PROVE CallMoves(r)
  BY <1>0, <1>11 DEF Resume, Erased, WriteCancelled
<1>12. ASSUME NEW s \in Requests, NEW answer \in Answers \cup {"result"}, ReadAnswer(s, answer)
       PROVE  CallMoves(r)
  BY <1>12 DEF ReadAnswer
<1>13. ASSUME NEW c \in Incoming, ReadRequest(c) \/ AnswerRequest(c) PROVE CallMoves(r)
  BY <1>0, <1>13 DEF ReadRequest, AnswerRequest
<1>14. CASE UNCHANGED vars
  BY <1>14 DEF vars, clientVars
<1> QED
  BY <1>1, <1>2, <1>3, <1>4, <1>5, <1>6, <1>7, <1>8, <1>9, <1>10, <1>11, <1>12, <1>13, <1>14 DEF Next

LEMMA EntryStep ==
  ASSUME Typed, [Next]_vars, NEW r \in Requests PROVE EntryMoves(r)
<1> USE DEF EntryMoves
<1>1. CASE Connect \/ Close \/ FinishInitialize \/ FinishConnect \/ DrainStart \/ WriteDone
  BY <1>1 DEF Connect, Close, FinishInitialize, FinishConnect, DrainStart, WriteDone, clientVars
<1>2. CASE ReadFails \/ RunClosePost
  <2>1. FailPending /\ transportOpen' = FALSE /\ UNCHANGED table
    BY <1>2 DEF ReadFails, RunClosePost
  <2> QED
    BY <2>1, FailPendingEffect
<1>3. ASSUME NEW o \in Ops, Send(o) \/ Start(o) \/ QueueWrite(o) PROVE EntryMoves(r)
  BY <1>3 DEF Send, Start, QueueWrite
<1>4. ASSUME NEW o \in Ops, WriteReturned(o) PROVE EntryMoves(r)
  <2>1. CASE o \in Requests
    <3>1. RequestWriteReturned(o) /\ o \in Settled
      BY <1>4, <2>1 DEF WriteReturned, Writer!Return, Writer!Finished, Settled, WriterProofs!Finished
    <3> QED
      BY <2>1, <3>1, RequestWriteEffect
  <2>2. CASE o \notin Requests
    BY <1>4, <2>2 DEF WriteReturned, OtherWriteReturned
  <2> QED
    BY <2>1, <2>2
<1>5. ASSUME NEW s \in Requests, Expire(s) PROVE EntryMoves(r)
  BY <1>5 DEF Expire
<1>6. ASSUME NEW s \in Requests, Resume(s) PROVE EntryMoves(r)
  BY <1>6 DEF Resume, Erased, Typed
<1>7. ASSUME NEW s \in Requests, NEW answer \in Answers \cup {"result"}, ReadAnswer(s, answer)
      PROVE  EntryMoves(r)
  <2>1. Answered(entry[s], answer).completed /\ s \in OnWire
    BY <1>7, AnswerCompletes DEF ReadAnswer, Typed, OnWire, WriterProofs!OnWire
  <2> QED
    BY <1>7, <2>1 DEF ReadAnswer, Typed
<1>8. ASSUME NEW c \in Incoming, ReadRequest(c) \/ AnswerRequest(c) PROVE EntryMoves(r)
  BY <1>8 DEF ReadRequest, AnswerRequest
<1>9. CASE UNCHANGED vars
  BY <1>9 DEF vars, clientVars
<1> QED
  BY <1>1, <1>2, <1>3, <1>4, <1>5, <1>6, <1>7, <1>8, <1>9 DEF Next

\* The client is closed by steps that post the job, or that fail the requests.
LEMMA CloseStep ==
  ASSUME Typed, [Next]_vars
  PROVE  /\ \/ closed' = closed /\ closePosted' = closePosted
            \/ closePosted'
            \/ FailPending /\ table' = table
         /\ closed => closed'
         /\ readLoop' = "off" => readLoop = "off"
<1> USE DEF Typed
<1>1. CASE Connect \/ DrainStart \/ WriteDone
  BY <1>1 DEF Connect, DrainStart, WriteDone, clientVars
<1>2. CASE Close \/ FinishInitialize \/ FinishConnect
  BY <1>2 DEF Close, FinishInitialize, FinishConnect, RequestClose
<1>3. CASE ReadFails \/ RunClosePost
  BY <1>3 DEF ReadFails, RunClosePost
<1>4. ASSUME NEW o \in Ops, Send(o) \/ Start(o) \/ QueueWrite(o) \/ WriteReturned(o)
      PROVE  UNCHANGED <<closed, closePosted, readLoop>>
  BY <1>4 DEF Send, Start, QueueWrite, WriteReturned
<1>5. ASSUME NEW s \in Requests,
             Expire(s) \/ Resume(s) \/ \E answer \in Answers \cup {"result"} : ReadAnswer(s, answer)
      PROVE  UNCHANGED <<closed, closePosted, readLoop>>
  BY <1>5 DEF Expire, Resume, ReadAnswer
<1>6. ASSUME NEW c \in Incoming, ReadRequest(c) \/ AnswerRequest(c)
      PROVE  UNCHANGED <<closed, closePosted, readLoop>>
  BY <1>6 DEF ReadRequest, AnswerRequest
<1>7. CASE UNCHANGED vars
  BY <1>7 DEF vars, clientVars
<1> QED
  BY <1>1, <1>2, <1>3, <1>4, <1>5, <1>6, <1>7 DEF Next

\* The writer's side of a step: what gets to the wire was queued on an open
\* transport without its cancel flag, and only queueing ends status "idle".
LEMMA WriterStep ==
  ASSUME WriterProofs!IInv, [Next]_vars
  PROVE  /\ OnWire \subseteq OnWire' /\ cancel \subseteq cancel' /\ (transportOpen' => transportOpen)
         /\ \A o \in OnWire' \ OnWire : o \notin cancel /\ transportOpen /\ status[o] = "queued"
         /\ \A o \in Ops : \/ status'[o] = status[o]
                           \/ status[o] = "queued" /\ o \in Settled'
                           \/ status[o] = "idle" /\ o \in spawnedWrites /\ o \notin spawnedWrites'
<1> USE DEF OnWire, Settled
<1>0. status \in [Ops -> WriterProofs!Pending \cup WriterProofs!Finished]
  BY DEF WriterProofs!IInv, WriterProofs!Shape, WriterProofs!TypeOK
<1>1. CASE DrainStart \/ WriteDone
  <2>1. \/ WriterProofs!DrainStart
        \/ \E result \in {"ok", "failed"} : WriterProofs!WriteDone(result)
    BY <1>1, LoopIsLoop DEF DrainStart, WriteDone
  <2>2. /\ OnWire \subseteq OnWire'
        /\ \A o \in OnWire' \ OnWire : o \in Ops \ cancel /\ transportOpen /\ status[o] = "queued"
        /\ \A o \in Ops : \/ status'[o] = status[o]
                          \/ status[o] = "queued" /\ status'[o] \in WriterProofs!Finished
    BY <2>1, WriterProofs!LoopMoves
  <2>3. UNCHANGED <<cancel, transportOpen>>
    BY <2>1 DEF WriterProofs!DrainStart, WriterProofs!WriteDone
  <2> HIDE DEF OnWire
  <2> QED
    BY <2>2, <2>3
<1>2. ASSUME UNCHANGED <<wire, status>>, cancel \subseteq cancel', transportOpen' => transportOpen
      PROVE  /\ OnWire' = OnWire /\ cancel \subseteq cancel' /\ (transportOpen' => transportOpen)
             /\ \A o \in Ops : status'[o] = status[o]
  BY <1>2 DEF WriterProofs!OnWire
<1>3. ASSUME NEW o \in Ops, QueueWrite(o)
      PROVE  /\ OnWire' = OnWire /\ cancel' = cancel /\ transportOpen' = transportOpen
             /\ \A p \in Ops : \/ status'[p] = status[p]
                               \/ status[p] = "idle" /\ p \in spawnedWrites /\ p \notin spawnedWrites'
  BY <1>0, <1>3 DEF QueueWrite, Writer!Enqueue, WriterProofs!OnWire
<1>4. CASE \/ Connect \/ Close \/ FinishInitialize \/ FinishConnect \/ ReadFails \/ RunClosePost
           \/ \E o \in Ops : Send(o) \/ Start(o)
           \/ \E r \in Requests : Expire(r) \/ Resume(r)
           \/ \E r \in Requests, answer \in Answers \cup {"result"} : ReadAnswer(r, answer)
           \/ \E c \in Incoming : ReadRequest(c) \/ AnswerRequest(c)
           \/ UNCHANGED vars
  <2>1. UNCHANGED <<wire, status>> /\ cancel \subseteq cancel' /\ (transportOpen' => transportOpen)
    BY <1>4 DEF Connect, Close, FinishInitialize, FinishConnect, ReadFails, RunClosePost, Send, Start,
                Expire, Resume, WriteCancelled, ReadAnswer, ReadRequest, AnswerRequest, writerVars, vars
  <2> HIDE DEF OnWire, Settled
  <2> QED
    BY <1>2, <2>1
<1>5. ASSUME NEW o \in Ops, WriteReturned(o)
      PROVE  UNCHANGED <<wire, status, cancel, transportOpen>>
  BY <1>5 DEF WriteReturned, Writer!Return
<1> HIDE DEF OnWire, Settled
<1> QED
  BY <1>1, <1>2, <1>3, <1>4, <1>5 DEF Next

---------------------------------------------------------------------------
\* The invariant is kept

LEMMA Init_IInv == Init => IInv
<1> SUFFICES ASSUME Init PROVE IInv
  OBVIOUS
<1>1. \A r \in Requests : /\ r \notin table /\ call[r] = "idle" /\ ~ entry[r].completed
                          /\ status[r] = "idle" /\ r \notin spawnedWrites
  BY Kinds, NewEntry DEF Init, Writer!Init
<1>2. TableMatchesCalls
  BY <1>1 DEF Init, TableMatchesCalls, NoRequestLeftBehind, TableIsWaiting
<1> QED
  BY <1>1, <1>2, TypedInit DEF IInv, HandshakeFirst, WriteFollowsCall, UnsentStayUnsent

LEMMA Next_IInv == WriterProofs!IInv /\ IInv /\ [Next]_vars => IInv'
<1> SUFFICES ASSUME WriterProofs!IInv, IInv, [Next]_vars PROVE IInv'
  OBVIOUS
<1>0. Typed /\ Typed' /\ NoRequestLeftBehind /\ TableIsWaiting /\ HandshakeFirst /\ WriteFollowsCall
      /\ UnsentStayUnsent
  BY TypedStep DEF IInv, TableMatchesCalls
<1>1. \A r \in Requests : CallMoves(r) /\ EntryMoves(r)
  BY <1>0, CallStep, EntryStep
<1>2. TableIsWaiting'
  <2>1. ASSUME NEW r \in Requests PROVE r \in table' <=> call'[r] = "waiting"
    BY <1>0, <1>1 DEF TableIsWaiting, CallMoves
  <2>2. table' \subseteq Requests
    BY <1>0 DEF Typed
  <2> QED
    BY <2>1, <2>2 DEF TableIsWaiting
<1>3. NoRequestLeftBehind'
  <2> SUFFICES ASSUME closed', ~closePosted', NEW r \in table'
               PROVE  entry'[r].completed /\ r \in woken'
    BY DEF NoRequestLeftBehind
  <2>1. r \in Requests
    BY <1>0 DEF Typed
  <2>2. CASE FailPending /\ table' = table
    BY <1>0, <2>1, <2>2, FailPendingEffect
  <2>3. CASE closed' = closed /\ closePosted' = closePosted
    <3>1. r \in table
      BY <1>1, <2>1, <2>3 DEF CallMoves, TableIsWaiting
    <3>2. entry[r].completed /\ r \in woken
      BY <1>0, <2>3, <3>1 DEF NoRequestLeftBehind
    <3> QED
      BY <1>1, <2>1, <3>2 DEF EntryMoves
  <2> QED
    BY <1>0, <2>2, <2>3, CloseStep
<1>4. HandshakeFirst'
  BY <1>0, <1>1, CloseStep DEF HandshakeFirst, CallMoves
<1>5. WriteFollowsCall'
  <2> SUFFICES ASSUME NEW r \in Requests
               PROVE  /\ r \in spawnedWrites' => status'[r] = "idle"
                      /\ call'[r] \in {"idle", "spawned"} => status'[r] = "idle" /\ r \notin spawnedWrites'
    BY DEF WriteFollowsCall
  <2>1. \/ status'[r] = status[r] \/ status[r] = "queued"
        \/ status[r] = "idle" /\ r \in spawnedWrites /\ r \notin spawnedWrites'
    BY WriterStep, Kinds
  <2>2. /\ r \in spawnedWrites => status[r] = "idle"
        /\ call[r] \in {"idle", "spawned"} => status[r] = "idle" /\ r \notin spawnedWrites
    BY <1>0 DEF WriteFollowsCall
  <2> QED
    BY <1>1, <2>1, <2>2 DEF CallMoves
<1>6. UnsentStayUnsent'
  <2> SUFFICES ASSUME NEW r \in Requests, r \notin OnWire'
               PROVE  /\ entry'[r].completed => ~transportOpen' \/ r \in Settled'
                      /\ call'[r] = "done" => CannotBeSent(r)'
    BY DEF UnsentStayUnsent
  <2>1. /\ r \notin OnWire /\ cancel \subseteq cancel' /\ (transportOpen' => transportOpen)
        /\ \/ status'[r] = status[r]
           \/ status[r] = "queued" /\ r \in Settled'
           \/ status[r] = "idle" /\ r \in spawnedWrites /\ r \notin spawnedWrites'
    BY WriterStep, Kinds
  <2>2. r \in Settled => r \in Settled'
    BY <2>1, Kinds DEF Settled, WriterProofs!Finished
  <2>3. /\ entry[r].completed => ~transportOpen \/ r \in Settled
        /\ call[r] = "done" => CannotBeSent(r)
    BY <1>0, <2>1 DEF UnsentStayUnsent
  <2>4. entry'[r].completed => ~transportOpen' \/ r \in Settled'
    BY <1>1, <2>1, <2>2, <2>3, NewEntry DEF EntryMoves
  <2>5. ASSUME call'[r] = "done" PROVE CannotBeSent(r)'
    <3>1. CASE call[r] = "done"
      <4>1. r \in spawnedWrites' => r \in spawnedWrites
        BY <1>1, <2>5, <3>1 DEF CallMoves
      <4> QED
        BY <2>1, <2>2, <2>3, <3>1, <4>1 DEF CannotBeSent
    <3>2. CASE call[r] = "spawned"
      <4>1. status[r] = "idle" /\ r \notin spawnedWrites
        BY <1>0, <3>2 DEF WriteFollowsCall
      <4>2. r \notin spawnedWrites'
        BY <1>1, <2>5, <3>2, <4>1 DEF CallMoves
      <4> QED
        BY <2>1, <4>1, <4>2 DEF CannotBeSent
    <3>3. CASE call[r] = "waiting"
      <4>1. entry[r].completed \/ r \in cancel'
        BY <1>1, <2>5, <3>3 DEF CallMoves
      <4> QED
        BY <2>1, <2>2, <2>3, <4>1 DEF CannotBeSent
    <3> QED
      BY <1>1, <2>5, <3>1, <3>2, <3>3 DEF CallMoves
  <2> QED
    BY <2>4, <2>5
<1> QED
  BY <1>0, <1>2, <1>3, <1>4, <1>5, <1>6 DEF IInv, TableMatchesCalls

THEOREM Invariance == Safety => []IInv
  BY Init_IInv, Next_IInv, WriterInvariance, PTL DEF Safety

\* pending_requests holds exactly the requests whose coroutines are suspended, and
\* once the client is closed and the posted job has run each of them is decided and
\* woken: no entry leaks and no caller is stranded.
THEOREM NoneLeaksOrIsStranded == Safety => []TableMatchesCalls
<1>1. IInv => TableMatchesCalls
  BY DEF IInv
<1> QED
  BY <1>1, Invariance, PTL

\* A request that returned to its caller without having been sent is never sent
\* afterwards, whichever of the five parties decided it.
THEOREM ReturnedIsNotSent == Safety => NoSendAfterReturn
<1> DEFINE Stays == \A r \in Requests :
                       call[r] = "done" /\ (\A i \in 1..Len(wire) : wire[i] # r)
                           => (\A i \in 1..Len(wire') : wire'[i] # r)
<1>1. WriterProofs!IInv /\ IInv /\ [Next]_vars => [Stays]_vars
  <2> SUFFICES ASSUME WriterProofs!IInv, IInv, [Next]_vars, NEW r \in Requests, call[r] = "done",
                      \A i \in 1..Len(wire) : wire[i] # r
               PROVE  \A i \in 1..Len(wire') : wire'[i] # r
    OBVIOUS
  <2>1. r \notin OnWire
    BY DEF OnWire, WriterProofs!OnWire
  <2>2. CannotBeSent(r) /\ (r \in spawnedWrites => status[r] = "idle")
    BY <2>1 DEF IInv, UnsentStayUnsent, WriteFollowsCall
  <2>3. r \in Settled => status[r] # "queued"
    BY DEF Settled, WriterProofs!Finished
  <2>4. r \notin OnWire'
    BY <2>1, <2>2, <2>3, WriterStep DEF CannotBeSent
  <2> QED
    BY <2>4 DEF OnWire, WriterProofs!OnWire
<1> QED
  BY <1>1, Invariance, WriterInvariance, PTL DEF Safety, NoSendAfterReturn

---------------------------------------------------------------------------
\* Completing an entry the peer decided leaves it as it is.
LEMMA DecidedStays ==
  ASSUME NEW e \in Entries, DecidedByPeer(e)
  PROVE  /\ \A why \in {"closed"} : FailedWith(e, why) = e
         /\ \A answer \in Answers \cup {"result"} : DecidedByPeer(Answered(e, answer))
<1>1. FailedWith(e, "closed") = e
  BY DEF DecidedByPeer, FailedWith
<1>2. ASSUME NEW answer \in Answers \cup {"result"} PROVE DecidedByPeer(Answered(e, answer))
  <2>1. \A a \in Answers : a \notin Failures
    BY DEF Answers, Failures
  <2> QED
    BY <2>1, AnswerCompletes DEF DecidedByPeer
<1> QED
  BY <1>1, <1>2

\* What the peer said before the deadline reaches the caller: neither a failing
\* write nor the end of the connection nor the timer replaces it.
THEOREM AnswerReachesCaller == Safety => AnswerSurvives
<1> DEFINE Kept(r) == IF r \in table' THEN DecidedByPeer(entry'[r]) ELSE outcome'[r] \notin Failures
           Reaches == \A r \in table : DecidedByPeer(entry[r]) => Kept(r)
<1>1. Typed /\ [Next]_vars => [Reaches]_vars
  <2> SUFFICES ASSUME Typed, Next, NEW r \in Requests, r \in table, DecidedByPeer(entry[r])
               PROVE  Kept(r)
    BY DEF Typed
  <2>0. entry[r] \in Entries /\ entry[r].completed
    BY DEF Typed, DecidedByPeer
  <2>1. ASSUME UNCHANGED entry, table \subseteq table' PROVE Kept(r)
    BY <2>1
  <2>2. Connect \/ Close \/ FinishInitialize \/ FinishConnect \/ DrainStart \/ WriteDone
            => UNCHANGED entry /\ table \subseteq table'
    BY DEF Connect, Close, FinishInitialize, FinishConnect, DrainStart, WriteDone, clientVars
  <2>3. (\E o \in Ops : Send(o) \/ Start(o) \/ QueueWrite(o)) => UNCHANGED entry /\ table \subseteq table'
    BY DEF Send, Start, QueueWrite
  <2>4. (\E s \in Requests : Expire(s)) \/ (\E c \in Incoming : ReadRequest(c) \/ AnswerRequest(c))
            => UNCHANGED entry /\ table \subseteq table'
    BY DEF Expire, ReadRequest, AnswerRequest
  <2>5. CASE ReadFails \/ RunClosePost
    <3>1. FailPending /\ UNCHANGED table
      BY <2>5 DEF ReadFails, RunClosePost
    <3> QED
      BY <2>0, <3>1, FailPendingEffect
  <2>6. ASSUME NEW o \in Ops, WriteReturned(o) PROVE Kept(r)
    <3>1. UNCHANGED table
      BY <2>6 DEF WriteReturned
    <3>2. CASE o \in Requests
      <4>1. RequestWriteReturned(o)
        BY <2>6, <3>2 DEF WriteReturned
      <4> QED
        BY <2>0, <3>1, <3>2, <4>1, RequestWriteEffect
    <3>3. CASE o \notin Requests
      BY <2>6, <3>1, <3>3 DEF WriteReturned, OtherWriteReturned
    <3> QED
      BY <3>2, <3>3
  <2>7. ASSUME NEW s \in Requests, Resume(s) PROVE Kept(r)
    <3>1. CASE s = r
      <4>1. OutcomeOf(FailedWith(entry[r], "timeout")) \notin Failures
        BY <2>0, TimeoutDecides
      <4>2. r \notin table' /\ outcome'[r] = OutcomeOf(FailedWith(entry[r], "timeout"))
        BY <2>7, <3>1, Kinds DEF Resume, Erased, Typed
      <4> QED
        BY <4>1, <4>2
    <3>2. CASE s # r
      BY <2>7, <3>2 DEF Resume, Erased, Typed
    <3> QED
      BY <3>1, <3>2
  <2>8. ASSUME NEW s \in Requests, NEW answer \in Answers \cup {"result"}, ReadAnswer(s, answer) PROVE Kept(r)
    <3>1. UNCHANGED table /\ entry' = [entry EXCEPT ![s] = Answered(@, answer)]
      BY <2>8 DEF ReadAnswer
    <3>2. DecidedByPeer(Answered(entry[r], answer))
      BY <2>0, DecidedStays
    <3> QED
      BY <3>1, <3>2 DEF Typed
  <2> QED
    BY <2>1, <2>2, <2>3, <2>4, <2>5, <2>6, <2>7, <2>8 DEF Next
<1>2. IInv => Typed
  BY DEF IInv
<1> QED
  BY <1>1, <1>2, Invariance, PTL DEF Safety, AnswerSurvives

---------------------------------------------------------------------------
\* The promise

\* The handshake: connect() makes the first call, and the initialized notification
\* is not called for before finish_connect has the answer.
HandshakeInOrder ==
    /\ readLoop = "off" => connect = "none" /\ \A o \in Ops : call[o] = "idle"
    /\ readLoop # "off" => call[Initialize] # "idle"
    /\ connect \in {"none", "requesting"} => call[Initialized] = "idle"
    /\ closePosted => closed

\* The coroutine of a notification or of an answer waits for its write and for
\* nothing else.
WaitsForWrite ==
    \A o \in Ops \ Requests :
        /\ o \in spawnedWrites => call[o] = "waiting" /\ status[o] = "idle"
        /\ status[o] = "queued" => call[o] = "waiting"
        /\ o \in Settled /\ o \notin returned => call[o] = "waiting"
        /\ o \in returned => call[o] = "done" /\ o \in Settled

\* Only a request in the table is decided, signalled or late; it is signalled only
\* when it is decided, and decided means more than the completed flag.
EntriesKept ==
    \A r \in Requests :
        /\ entry[r].completed \/ entry[r] = NoEntry
        /\ entry[r].completed \/ r \in woken \/ r \in expired => r \in table
        /\ r \in woken => entry[r].completed

PromiseInv == HandshakeInOrder /\ WaitsForWrite /\ EntriesKept

\* What a step may do to a message that is not a request.
MessageMoves(o) ==
    \/ /\ call'[o] = call[o]
       /\ (o \in spawnedWrites' => o \in spawnedWrites) /\ (o \in returned' <=> o \in returned)
    \/ /\ call[o] = "idle" /\ call'[o] \in {"spawned", "handling"} /\ readLoop' # "off"
       /\ o = Initialized => connect' = "notifying"
       /\ (o \in spawnedWrites' <=> o \in spawnedWrites) /\ (o \in returned' <=> o \in returned)
    \/ /\ call[o] = "spawned" /\ call'[o] = "done"
       /\ (o \in spawnedWrites' <=> o \in spawnedWrites) /\ (o \in returned' <=> o \in returned)
    \/ /\ call[o] \in {"spawned", "handling"} /\ call'[o] = "waiting"
       /\ (o \in returned' <=> o \in returned)
    \/ /\ o \in Settled /\ o \notin returned /\ call'[o] = "done" /\ o \in returned'
       /\ (o \in spawnedWrites' <=> o \in spawnedWrites)

LEMMA MessageStep ==
  ASSUME Typed, HandshakeInOrder, WriterProofs!IInv, [Next]_vars, NEW o \in Ops \ Requests
  PROVE  MessageMoves(o)
<1> USE DEF MessageMoves
<1>0. /\ call \in [Ops -> Places] /\ Initialize \in Requests /\ Initialized \in Notes
      /\ returned \in SUBSET Ops
  BY Kinds DEF Typed, WriterProofs!IInv, WriterProofs!Shape, WriterProofs!TypeOK
<1>1. CASE Connect \/ Close \/ FinishConnect \/ ReadFails \/ RunClosePost
  BY <1>0, <1>1 DEF Connect, Close, FinishConnect, ReadFails, RunClosePost, writerVars
<1>2. CASE FinishInitialize
  <2>1. readLoop' # "off"
    BY <1>0, <1>2, Kinds DEF FinishInitialize, HandshakeInOrder
  <2>2. CASE connect' = "notifying" /\ call' = [call EXCEPT ![Initialized] = "spawned"]
    <3>1. call[Initialized] = "idle"
      BY <1>2 DEF FinishInitialize, HandshakeInOrder
    <3> QED
      BY <1>0, <1>2, <2>1, <2>2, <3>1 DEF FinishInitialize, writerVars
  <2>3. CASE UNCHANGED call
    BY <1>2, <2>3 DEF FinishInitialize, writerVars
  <2> QED
    BY <1>2, <2>2, <2>3 DEF FinishInitialize
<1>3. CASE DrainStart \/ WriteDone
  BY <1>3 DEF DrainStart, WriteDone, clientVars, Writer!DrainStart, Writer!WriteDone
<1>4. ASSUME NEW p \in Ops, Send(p) PROVE MessageMoves(o)
  BY <1>0, <1>4 DEF Send, writerVars
<1>5. ASSUME NEW p \in Ops, Start(p) PROVE MessageMoves(o)
  BY <1>0, <1>5 DEF Start, Typed, writerVars
<1>6. ASSUME NEW p \in Ops, QueueWrite(p) PROVE MessageMoves(o)
  BY <1>6 DEF QueueWrite, Writer!Enqueue
<1>7. ASSUME NEW p \in Ops, WriteReturned(p) PROVE MessageMoves(o)
  <2>1. p \in Settled /\ p \notin returned /\ returned' = returned \cup {p} /\ UNCHANGED spawnedWrites
    BY <1>7 DEF WriteReturned, Writer!Return, Writer!Finished, Settled, WriterProofs!Finished
  <2>2. CASE p \in Requests
    BY <1>7, <2>1, <2>2 DEF WriteReturned, RequestWriteReturned
  <2>3. CASE p \notin Requests
    BY <1>0, <1>7, <2>1, <2>3 DEF WriteReturned, OtherWriteReturned
  <2> QED
    BY <2>2, <2>3
<1>8. ASSUME NEW r \in Requests,
             Expire(r) \/ Resume(r) \/ \E answer \in Answers \cup {"result"} : ReadAnswer(r, answer)
      PROVE  MessageMoves(o)
  BY <1>0, <1>8 DEF Expire, Resume, ReadAnswer, writerVars
<1>9. ASSUME NEW c \in Incoming, ReadRequest(c) \/ AnswerRequest(c) PROVE MessageMoves(o)
  <2>1. c # Initialized
    BY Kinds, DisjointAssumption
  <2> QED
    BY <1>0, <1>9, <2>1 DEF ReadRequest, AnswerRequest, writerVars
<1>10. CASE UNCHANGED vars
  BY <1>10 DEF vars, clientVars, writerVars
<1> QED
  BY <1>1, <1>2, <1>3, <1>4, <1>5, <1>6, <1>7, <1>8, <1>9, <1>10 DEF Next

LEMMA HandshakeStep ==
  ASSUME Typed, HandshakeFirst, HandshakeInOrder, WriterProofs!IInv, WaitsForWrite, [Next]_vars
  PROVE  HandshakeInOrder'
<1>0. /\ call \in [Ops -> Places] /\ Initialize \in Requests /\ Initialized \in Notes
      /\ Initialize \in Ops /\ Initialized \in Ops \ Requests /\ Initialize # Initialized
      /\ CallMoves(Initialize) /\ MessageMoves(Initialized)
  BY Kinds, CallStep, MessageStep DEF Typed, Ops
<1>1. ASSUME readLoop' = "off" PROVE connect' = "none" /\ \A o \in Ops : call'[o] = "idle"
  <2>1. readLoop = "off" /\ connect = "none" /\ \A o \in Ops : call[o] = "idle"
    BY <1>1, CloseStep DEF HandshakeInOrder
  <2>2. connect' = "none"
    BY <1>0, <1>1, <2>1 DEF Next, Connect, Close, FinishInitialize, FinishConnect, ReadFails, RunClosePost,
          DrainStart, WriteDone, Send, Start, QueueWrite, WriteReturned, Expire, Resume, ReadAnswer,
          ReadRequest, AnswerRequest, clientVars, vars
  <2>3. ASSUME NEW o \in Ops PROVE call'[o] = "idle"
    <3>1. CASE o \in Requests
      BY <1>1, <2>1, <3>1, CallStep DEF CallMoves
    <3>2. CASE o \notin Requests
      <4>1. ~ (o \in Settled /\ o \notin returned)
        BY <2>1, <3>2 DEF WaitsForWrite
      <4> QED
        BY <1>1, <2>1, <3>2, <4>1, MessageStep DEF MessageMoves
    <3> QED
      BY <3>1, <3>2
  <2> QED
    BY <2>2, <2>3
<1>2. ASSUME readLoop' # "off" PROVE call'[Initialize] # "idle"
  <2>1. CASE readLoop # "off"
    BY <1>0, <2>1 DEF HandshakeInOrder, CallMoves
  <2>2. CASE readLoop = "off"
    <3>1. Connect
      BY <1>2, <2>2 DEF Next, Connect, Close, FinishInitialize, FinishConnect, ReadFails, RunClosePost,
            DrainStart, WriteDone, Send, Start, QueueWrite, WriteReturned, Expire, Resume, ReadAnswer,
            ReadRequest, AnswerRequest, clientVars, vars
    <3> QED
      BY <1>0, <3>1 DEF Connect
  <2> QED
    BY <2>1, <2>2
<1>3. ASSUME connect' \in {"none", "requesting"} PROVE call'[Initialized] = "idle"
  <2>1. connect \in {"none", "requesting"}
    BY <1>3 DEF Next, Connect, Close, FinishInitialize, FinishConnect, ReadFails, RunClosePost,
          DrainStart, WriteDone, Send, Start, QueueWrite, WriteReturned, Expire, Resume, ReadAnswer,
          ReadRequest, AnswerRequest, clientVars, vars, HandshakeInOrder
  <2>2. call[Initialized] = "idle"
    BY <2>1 DEF HandshakeInOrder
  <2>3. ~ (Initialized \in Settled /\ Initialized \notin returned)
    BY <1>0, <2>2 DEF WaitsForWrite
  <2> QED
    BY <1>0, <1>3, <2>2, <2>3 DEF MessageMoves
<1>4. closePosted' => closed'
  <2>1. closePosted => closed
    BY DEF HandshakeInOrder
  <2>2. \/ UNCHANGED <<closed, closePosted>> \/ closed' = TRUE \/ closePosted' = FALSE
    BY DEF Next, Connect, Close, RequestClose, FinishInitialize, FinishConnect, ReadFails,
           RunClosePost, DrainStart, WriteDone, Send, Start, QueueWrite, WriteReturned, Expire, Resume,
           ReadAnswer, ReadRequest, AnswerRequest, clientVars, vars
  <2> QED
    BY <2>1, <2>2
<1> QED
  BY <1>1, <1>2, <1>3, <1>4 DEF HandshakeInOrder

LEMMA WaitsStep ==
  ASSUME Typed, HandshakeInOrder, WriterProofs!IInv, WaitsForWrite, [Next]_vars
  PROVE  WaitsForWrite'
<1> SUFFICES ASSUME NEW o \in Ops \ Requests
             PROVE  /\ o \in spawnedWrites' => call'[o] = "waiting" /\ status'[o] = "idle"
                    /\ status'[o] = "queued" => call'[o] = "waiting"
                    /\ o \in Settled' /\ o \notin returned' => call'[o] = "waiting"
                    /\ o \in returned' => call'[o] = "done" /\ o \in Settled'
  BY DEF WaitsForWrite
<1>1. /\ o \in spawnedWrites => call[o] = "waiting" /\ status[o] = "idle"
      /\ status[o] = "queued" => call[o] = "waiting"
      /\ o \in Settled /\ o \notin returned => call[o] = "waiting"
      /\ o \in returned => call[o] = "done" /\ o \in Settled
  BY DEF WaitsForWrite
<1>2. \/ status'[o] = status[o]
      \/ status[o] = "queued" /\ o \in Settled'
      \/ status[o] = "idle" /\ o \in spawnedWrites /\ o \notin spawnedWrites'
  BY WriterStep
<1>3. /\ o \in Settled <=> status[o] \in {"ok", "failed", "aborted"}
      /\ o \in Settled' <=> status'[o] \in {"ok", "failed", "aborted"}
  BY DEF Settled, WriterProofs!Finished
<1>4. status[o] \in {"idle", "queued", "ok", "failed", "aborted"}
  BY DEF WriterProofs!IInv, WriterProofs!Shape, WriterProofs!TypeOK, WriterProofs!Pending,
         WriterProofs!Finished
<1>5. MessageMoves(o)
  BY MessageStep
<1> HIDE DEF Settled
<1> QED
  BY <1>1, <1>2, <1>3, <1>4, <1>5 DEF MessageMoves

LEMMA EntriesStep ==
  ASSUME Typed, TableIsWaiting, WaitsForWrite, EntriesKept, [Next]_vars
  PROVE  EntriesKept'
<1> SUFFICES ASSUME NEW r \in Requests
             PROVE  /\ entry'[r].completed \/ entry'[r] = NoEntry
                    /\ entry'[r].completed \/ r \in woken' \/ r \in expired' => r \in table'
                    /\ r \in woken' => entry'[r].completed
  BY DEF EntriesKept
<1>0. /\ entry[r].completed \/ entry[r] = NoEntry
      /\ entry[r].completed \/ r \in woken \/ r \in expired => r \in table
      /\ r \in woken => entry[r].completed
      /\ entry \in [Requests -> Entries] /\ ~ NoEntry.completed
  BY NewEntry DEF EntriesKept, Typed
<1>1. CASE Connect \/ Close \/ FinishInitialize \/ FinishConnect \/ DrainStart \/ WriteDone
  BY <1>0, <1>1 DEF Connect, Close, FinishInitialize, FinishConnect, DrainStart, WriteDone, clientVars
<1>2. CASE ReadFails \/ RunClosePost
  <2>1. FailPending /\ UNCHANGED <<table, expired>> /\ woken' = woken \cup table
    BY <1>2 DEF ReadFails, RunClosePost, FailPending
  <2> QED
    BY <1>0, <2>1, FailPendingEffect
<1>3. ASSUME NEW o \in Ops, Send(o) \/ Start(o) \/ QueueWrite(o)
      PROVE  UNCHANGED <<entry, woken, expired>> /\ table \subseteq table'
  BY <1>3 DEF Send, Start, QueueWrite
<1>4. ASSUME NEW o \in Ops, WriteReturned(o)
      PROVE  /\ UNCHANGED <<table, expired>>
             /\ \/ entry'[r] = entry[r] /\ (r \in woken' => r \in woken)
                \/ entry'[r].completed /\ r \in table
  <2>1. UNCHANGED <<table, expired>>
    BY <1>4 DEF WriteReturned
  <2>2. CASE o \in Requests
    <3>1. RequestWriteReturned(o)
      BY <1>4, <2>2 DEF WriteReturned
    <3>2. \/ UNCHANGED <<entry, woken>>
          \/ o \in table /\ woken' = woken \cup {o}
      BY <3>1 DEF RequestWriteReturned
    <3>3. entry'[r] = entry[r] \/ (r = o /\ entry'[r].completed)
      BY <2>2, <3>1, RequestWriteEffect
    <3>4. (entry'[o].completed /\ ~ entry[o].completed) \/ UNCHANGED <<entry, woken>>
      <4> DEFINE new == IF closed THEN FailedWith(entry[o], "closed")
                        ELSE [entry[o] EXCEPT !.writeError = TRUE, !.completed = TRUE]
      <4>1. new.completed /\ entry \in [Requests -> Entries]
        BY <2>2, FailingCompletes, FailedWriteCompletes DEF Typed
      <4>2. \/ UNCHANGED <<entry, woken>>
            \/ ~ entry[o].completed /\ entry' = [entry EXCEPT ![o] = new]
        BY <3>1 DEF RequestWriteReturned
      <4> HIDE DEF new
      <4> QED
        BY <2>2, <4>1, <4>2
    <3> QED
      BY <2>1, <3>2, <3>3, <3>4
  <2>3. CASE o \notin Requests
    BY <1>4, <2>1, <2>3 DEF WriteReturned, OtherWriteReturned
  <2> QED
    BY <2>1, <2>2, <2>3
<1>5. ASSUME NEW s \in Requests, Expire(s) PROVE EntriesKept'
  BY <1>5 DEF Expire, EntriesKept
<1>6. ASSUME NEW s \in Requests, Resume(s) PROVE EntriesKept'
  BY <1>6, NewEntry DEF Resume, Erased, EntriesKept, Typed
<1>7. ASSUME NEW s \in Requests, NEW answer \in Answers \cup {"result"}, ReadAnswer(s, answer)
      PROVE  EntriesKept'
  <2>1. Answered(entry[s], answer).completed
    BY AnswerCompletes DEF Typed
  <2>2. entry' = [entry EXCEPT ![s] = Answered(entry[s], answer)] /\ woken' = woken \cup {s}
        /\ s \in table /\ UNCHANGED <<table, expired>>
    BY <1>7 DEF ReadAnswer
  <2> QED
    BY <2>1, <2>2 DEF EntriesKept, Typed
<1>8. ASSUME NEW c \in Incoming, ReadRequest(c) \/ AnswerRequest(c)
      PROVE  UNCHANGED <<entry, woken, expired, table>>
  BY <1>8 DEF ReadRequest, AnswerRequest
<1>9. CASE UNCHANGED vars
  BY <1>0, <1>9 DEF vars, clientVars
<1>10. EntriesKept' => /\ entry'[r].completed \/ entry'[r] = NoEntry
                       /\ entry'[r].completed \/ r \in woken' \/ r \in expired' => r \in table'
                       /\ r \in woken' => entry'[r].completed
  BY DEF EntriesKept
<1> QED
  BY <1>0, <1>1, <1>2, <1>3, <1>4, <1>5, <1>6, <1>7, <1>8, <1>9, <1>10 DEF Next

LEMMA PromiseInit == Init => PromiseInv
<1> SUFFICES ASSUME Init PROVE PromiseInv
  OBVIOUS
<1>1. HandshakeInOrder
  BY Kinds, HandshakeAssumption DEF Init, HandshakeInOrder, Ops
<1>2. WaitsForWrite
  BY DEF Init, Writer!Init, WaitsForWrite, Settled, WriterProofs!Finished
<1>3. EntriesKept
  BY NewEntry DEF Init, EntriesKept
<1> QED
  BY <1>1, <1>2, <1>3 DEF PromiseInv

THEOREM PromiseInvariance == Safety => []PromiseInv
<1>1. WriterProofs!IInv /\ IInv /\ PromiseInv /\ [Next]_vars => PromiseInv'
  BY HandshakeStep, WaitsStep, EntriesStep DEF IInv, PromiseInv, TableMatchesCalls
<1> QED
  BY <1>1, PromiseInit, Invariance, WriterInvariance, PTL DEF Safety

\* What the promise sees of one message, before and after a step.
LEMMA Seen ==
  ASSUME NEW o \in Ops
  PROVE  /\ Stage[o] = IF call[o] \in {"idle", "done"} THEN call[o] ELSE "asked"
         /\ Stage'[o] = IF call'[o] \in {"idle", "done"} THEN call'[o] ELSE "asked"
         /\ Told[o] = IF call[o] = "done" THEN outcome[o]
                      ELSE IF o \in Requests /\ entry[o].completed THEN OutcomeOf(entry[o]) ELSE "open"
         /\ Told'[o] = IF call'[o] = "done" THEN outcome'[o]
                       ELSE IF o \in Requests /\ entry'[o].completed THEN OutcomeOf(entry'[o]) ELSE "open"
  BY DEF Stage, Told, OutcomeOf

\* Functions of the messages that agree everywhere, or everywhere but at one.
LEMMA Agree ==
  /\ (\A p \in Ops : Stage'[p] = Stage[p]) => Stage' = Stage
  /\ (\A p \in Ops : Told'[p] = Told[p]) => Told' = Told
  /\ \A v : \A o \in Ops : Stage'[o] = v /\ (\A p \in Ops \ {o} : Stage'[p] = Stage[p])
                          => Stage' = [Stage EXCEPT ![o] = v]
  /\ \A v : \A o \in Ops : Told'[o] = v /\ (\A p \in Ops \ {o} : Told'[p] = Told[p])
                          => Told' = [Told EXCEPT ![o] = v]
<1> DEFINE stage(p) == IF call[p] \in {"idle", "done"} THEN call[p] ELSE "asked"
           told(p) == IF call[p] = "done" THEN outcome[p]
                      ELSE IF p \in Requests /\ entry[p].completed THEN OutcomeOf(entry[p]) ELSE "open"
<1>1. /\ Stage = [p \in Ops |-> stage(p)] /\ Stage' = [p \in Ops |-> stage(p)']
      /\ Told = [p \in Ops |-> told(p)] /\ Told' = [p \in Ops |-> told(p)']
  BY DEF Stage, Told, OutcomeOf
<1> HIDE DEF stage, told
<1> QED
  BY <1>1

\* The words a decided entry can give its caller.
LEMMA Words ==
  ASSUME NEW e \in Entries
  PROVE  /\ OutcomeOf(e) \in {"closed", "writeFailed"} \cup Answers \cup {"result"}
         /\ e.completed \/ e = NoEntry =>
               OutcomeOf(FailedWith(e, "timeout")) = IF e.completed THEN OutcomeOf(e) ELSE "timeout"
         /\ \A answer \in Answers \cup {"result"} :
               OutcomeOf(Answered(e, answer)) = answer
                  \/ (OutcomeOf(Answered(e, answer)) = OutcomeOf(e) /\ e # NoEntry)
  BY DEF Entries, OutcomeOf, FailedWith, Answered, NoEntry, Answers

LEMMA SameNames ==
  /\ Promise!Messages = Ops /\ Promise!PeersWord = Answers \cup {"result"} /\ Promise!Sent = OnWire
  BY DEF Promise!Messages, Ops, Promise!PeersWord, Answers, Promise!Sent, OnWire, WriterProofs!OnWire

\* A message is asked, a request by connect() or the application, an answer by the peer.
LEMMA AskRefines ==
  ASSUME Typed, NEW o \in Ops, call[o] = "idle", NEW place \in {"spawned", "handling"},
         call' = [call EXCEPT ![o] = place], UNCHANGED <<outcome, entry, expired, closed, wire>>,
         o # Initialize => call[Initialize] # "idle",
         o = Initialized => call[Initialize] = "done" /\ outcome[Initialize] = "result"
  PROVE  Promise!Ask(o)
<1>0. call \in [Ops -> Places] /\ Initialize \in Ops
  BY Kinds DEF Typed
<1>1. Stage[o] = "idle" /\ Stage'[o] = "asked" /\ \A p \in Ops \ {o} : Stage'[p] = Stage[p]
  BY <1>0, Seen
<1>2. \A p \in Ops : Told'[p] = Told[p]
  BY <1>0, Seen
<1>3. /\ o # Initialize => Stage[Initialize] # "idle"
      /\ o = Initialized => Stage[Initialize] = "done" /\ Told[Initialize] = "result"
  BY <1>0, Seen
<1> QED
  BY <1>1, <1>2, <1>3, Agree DEF Promise!Ask

\* The caller of a message is told.
LEMMA TellRefines ==
  ASSUME Typed, NEW o \in Ops, call[o] \notin {"idle", "done"}, call' = [call EXCEPT ![o] = "done"],
         \A p \in Ops \ {o} : outcome'[p] = outcome[p] /\ (p \in Requests => entry'[p] = entry[p]),
         \/ Told[o] # "open" /\ outcome'[o] = Told[o]
         \/ Told[o] = "open" /\ outcome'[o] \in Promise!Closing(o),
         expired' = expired \ {o}, UNCHANGED <<closed, wire>>
  PROVE  Promise!Tell(o)
<1>0. call \in [Ops -> Places]
  BY DEF Typed
<1>1. Stage[o] = "asked" /\ Stage'[o] = "done" /\ \A p \in Ops \ {o} : Stage'[p] = Stage[p]
  BY <1>0, Seen
<1>2. Told'[o] = outcome'[o] /\ \A p \in Ops \ {o} : Told'[p] = Told[p]
  BY <1>0, Seen
<1>3. Told[o] # "open" /\ outcome'[o] = Told[o] => Told' = Told
  BY <1>2, Agree
<1>4. Told[o] = "open" /\ outcome'[o] \in Promise!Closing(o)
        => \E v \in Promise!Closing(o) : Told' = [Told EXCEPT ![o] = v]
  BY <1>2, Agree
<1> QED
  BY <1>1, <1>3, <1>4, Agree DEF Promise!Tell

\* Steps the promise does not see, and close().
LEMMA NothingSeen ==
  ASSUME \A p \in Ops : Stage'[p] = Stage[p] /\ Told'[p] = Told[p], UNCHANGED <<expired, wire>>
  PROVE  /\ closed' = closed => UNCHANGED Promise!prom
         /\ closed' = TRUE => Promise!Close
  BY Agree DEF Promise!prom, Promise!Close

LEMMA HandshakeRefines ==
  ASSUME Typed, HandshakeInOrder, Connect \/ FinishInitialize \/ FinishConnect
  PROVE  Promise!Next \/ UNCHANGED Promise!prom
<1>0. /\ Initialize \in Ops /\ Initialized \in Ops /\ Initialize # Initialized
      /\ call \in [Ops -> Places] /\ closed \in BOOLEAN
  BY Kinds DEF Typed, Ops
<1> SUFFICES \/ Promise!Close \/ UNCHANGED Promise!prom
             \/ Promise!Ask(Initialize) \/ Promise!Ask(Initialized)
  BY <1>0, SameNames DEF Promise!Next
<1>1. CASE Connect
  <2>1. /\ call[Initialize] = "idle" /\ call' = [call EXCEPT ![Initialize] = "spawned"]
        /\ UNCHANGED <<outcome, entry, expired, closed, wire>>
    BY <1>0, <1>1 DEF Connect, HandshakeInOrder, writerVars
  <2> QED
    BY <1>0, <2>1, AskRefines
<1>2. ASSUME UNCHANGED <<call, outcome, entry, expired, wire>>, closed' \in {closed, TRUE}
      PROVE  Promise!Close \/ UNCHANGED Promise!prom
  <2>1. \A p \in Ops : Stage'[p] = Stage[p] /\ Told'[p] = Told[p]
    BY <1>2, Seen
  <2> QED
    BY <1>2, <2>1, NothingSeen
<1>3. CASE FinishInitialize
  <2>1. call[Initialize] = "done" /\ call[Initialized] = "idle"
    BY <1>3 DEF FinishInitialize, HandshakeInOrder
  <2>2. \/ /\ outcome[Initialize] = "result" /\ call' = [call EXCEPT ![Initialized] = "spawned"]
           /\ UNCHANGED closed
        \/ UNCHANGED call /\ closed' \in {closed, TRUE}
    BY <1>3 DEF FinishInitialize, RequestClose
  <2>3. UNCHANGED <<outcome, entry, expired, wire>>
    BY <1>3 DEF FinishInitialize, writerVars
  <2>4. CASE /\ outcome[Initialize] = "result" /\ call' = [call EXCEPT ![Initialized] = "spawned"]
             /\ UNCHANGED closed
    BY <1>0, <2>1, <2>3, <2>4, AskRefines
  <2> QED
    BY <1>2, <2>2, <2>3, <2>4
<1>4. CASE FinishConnect
  <2>1. UNCHANGED <<call, outcome, entry, expired, wire>> /\ closed' \in {closed, TRUE}
    BY <1>4 DEF FinishConnect, RequestClose, writerVars
  <2> QED
    BY <1>2, <2>1
<1> QED
  BY <1>1, <1>3, <1>4

\* The drain coroutine: what gets to the wire was called for by someone who waits.
LEMMA LoopRefines ==
  ASSUME IInv, WriterProofs!IInv, WaitsForWrite, DrainStart \/ WriteDone
  PROVE  Promise!Next \/ UNCHANGED Promise!prom
<1>0. Typed /\ [Next]_vars /\ UNCHANGED clientVars
  BY DEF IInv, DrainStart, WriteDone, Next
<1>1. UNCHANGED <<Stage, Told, expired, closed>>
  BY <1>0 DEF clientVars, Stage, Told, OutcomeOf
<1>2. CASE wire' = wire
  BY <1>1, <1>2 DEF Promise!prom
<1>3. ASSUME NEW o \in Ops \ OnWire, status[o] = "queued", wire' = Append(wire, o)
      PROVE  Promise!Deliver(o)
  <2>1. o \in OnWire'
    <3>1. wire \in Seq(Ops)
      BY DEF WriterProofs!IInv, WriterProofs!Shape, WriterProofs!TypeOK
    <3>2. Len(wire') \in 1..Len(wire') /\ wire'[Len(wire')] = o
      BY <1>3, <3>1
    <3> QED
      BY <3>2 DEF OnWire, WriterProofs!OnWire
  <2>2. o \notin cancel /\ transportOpen
    BY <1>0, <1>3, <2>1, WriterStep
  <2>3. call[o] \notin {"idle", "done"}
    <3>1. CASE o \in Requests
      <4>1. /\ call[o] = "idle" => status[o] = "idle"
            /\ call[o] = "done" => CannotBeSent(o)
        BY <1>3, <3>1 DEF IInv, WriteFollowsCall, UnsentStayUnsent
      <4>2. ~ CannotBeSent(o)
        BY <1>3, <2>2 DEF CannotBeSent, Settled, WriterProofs!Finished
      <4> QED
        BY <1>3, <4>1, <4>2
    <3>2. CASE o \notin Requests
      BY <1>3, <3>2 DEF WaitsForWrite
    <3> QED
      BY <3>1, <3>2
  <2> QED
    BY <1>1, <1>3, <2>3, Seen, SameNames DEF Promise!Deliver
<1> QED
  BY <1>0, <1>2, <1>3, SameNames, WriterProofs!WireMoves, StepIsStep DEF Promise!Next, OnWire

\* The end of the connection and the failed write: they decide what is undecided.
LEMMA FailRefines ==
  ASSUME Typed, TableIsWaiting, EntriesKept, NEW S \in SUBSET table,
         \A r \in S : ~ entry[r].completed,
         NEW why \in {"closed", "writeFailed"},
         \A r \in S : entry'[r].completed /\ OutcomeOf(entry'[r]) = why,
         \A r \in Requests \ S : entry'[r] = entry[r],
         UNCHANGED <<call, outcome, expired, wire>>, closed' \in {closed, TRUE},
         IF why = "writeFailed" THEN S \cap expired = {} ELSE closed'
  PROVE  Promise!Next
<1>0. table \in SUBSET Requests /\ \A r \in table : r \in Ops /\ call[r] = "waiting"
  BY Kinds DEF TableIsWaiting
<1>1. \A p \in Ops : Stage'[p] = Stage[p]
  BY Seen
<1>2. \A r \in S : Stage[r] = "asked" /\ Told[r] = "open"
  BY <1>0, Seen
<1>3. Told' = [p \in Ops |-> IF p \in S THEN why ELSE Told[p]]
  <2>1. \A p \in Ops : Told'[p] = IF p \in S THEN why ELSE Told[p]
    BY <1>0, Seen
  <2>2. Told' = [p \in Ops |-> Told'[p]]
    BY DEF Told
  <2> QED
    BY <2>1, <2>2
<1>4. Promise!Fail(S, why)
  BY <1>1, <1>2, <1>3, Agree, SameNames DEF Promise!Fail
<1>5. S \in SUBSET Requests
  BY <1>0
<1> QED
  BY <1>4, <1>5 DEF Promise!Next

LEMMA ClosingRefines ==
  ASSUME Typed, TableIsWaiting, EntriesKept, HandshakeInOrder, ReadFails \/ RunClosePost
  PROVE  Promise!Next
<1> DEFINE S == {r \in table : ~ entry[r].completed}
<1>1. /\ FailPending /\ closed' = TRUE /\ UNCHANGED <<call, outcome, expired, wire>>
  BY DEF ReadFails, RunClosePost, HandshakeInOrder, Typed
<1>2. entry' = [r \in Requests |-> IF r \in table THEN FailedWith(entry[r], "closed") ELSE entry[r]]
  BY <1>1 DEF FailPending
<1>3. table \in SUBSET Requests /\ entry \in [Requests -> Entries]
  BY DEF Typed
<1>4. ASSUME NEW r \in S PROVE entry'[r].completed /\ OutcomeOf(entry'[r]) = "closed"
  <2>1. entry'[r] = [entry[r] EXCEPT !.error = "closed", !.completed = TRUE] /\ entry[r] \in Entries
    BY <1>2, <1>3 DEF FailedWith
  <2> QED
    BY <2>1 DEF Entries, OutcomeOf
<1>5. \A r \in Requests \ S : entry'[r] = entry[r]
  BY <1>2, <1>3 DEF FailedWith
<1>6. S \in SUBSET table /\ \A r \in S : ~ entry[r].completed
  OBVIOUS
<1> HIDE DEF S
<1> QED
  BY <1>1, <1>4, <1>5, <1>6, FailRefines

\* A call made, made too late, and made in time.
LEMMA CallRefines ==
  ASSUME Typed, TableIsWaiting, EntriesKept, HandshakeInOrder, NEW o \in Ops,
         Send(o) \/ Start(o) \/ QueueWrite(o)
  PROVE  Promise!Next \/ UNCHANGED Promise!prom
<1>0. call \in [Ops -> Places] /\ outcome \in [Ops -> Outcomes] /\ table \in SUBSET Requests
  BY DEF Typed
<1> SUFFICES Promise!Ask(o) \/ Promise!Tell(o) \/ UNCHANGED Promise!prom
  BY SameNames DEF Promise!Next
<1>1. CASE Send(o)
  <2>1. /\ call[o] = "idle" /\ call' = [call EXCEPT ![o] = "spawned"]
        /\ UNCHANGED <<outcome, entry, expired, closed, wire>>
        /\ call[Initialize] # "idle" /\ o # Initialized
    BY <1>1 DEF Send, HandshakeInOrder, writerVars
  <2> QED
    BY <2>1, AskRefines
<1>2. CASE Start(o) /\ closed
  <2>1. /\ call[o] = "spawned" /\ call' = [call EXCEPT ![o] = "done"]
        /\ outcome' = [outcome EXCEPT ![o] = "closed"]
        /\ UNCHANGED <<entry, expired, closed, wire>>
    BY <1>2 DEF Start, Refused, writerVars
  <2>2. Told[o] = "open" /\ o \notin expired
    BY <1>0, <2>1, Seen DEF EntriesKept, TableIsWaiting, Typed
  <2>3. outcome'[o] = "closed" /\ \A p \in Ops \ {o} : outcome'[p] = outcome[p]
    BY <1>0, <2>1
  <2>4. "closed" \in Promise!Closing(o)
    BY <1>2 DEF Promise!Closing
  <2> QED
    BY <2>1, <2>2, <2>3, <2>4, TellRefines
<1>3. CASE (Start(o) /\ ~closed) \/ QueueWrite(o)
  <2>1. /\ (call' = [call EXCEPT ![o] = "waiting"] /\ call[o] = "spawned") \/ UNCHANGED call
        /\ UNCHANGED <<outcome, entry, expired, closed, wire>>
    BY <1>3 DEF Start, Refused, QueueWrite, Writer!Enqueue, writerVars
  <2>2. \A p \in Ops : Stage'[p] = Stage[p] /\ Told'[p] = Told[p]
    BY <1>0, <2>1, Seen
  <2> QED
    BY <2>1, <2>2, NothingSeen
<1> QED
  BY <1>1, <1>2, <1>3

\* The end of a write.
LEMMA ReturnRefines ==
  ASSUME IInv, WriterProofs!IInv, WaitsForWrite, EntriesKept, NEW o \in Ops, WriteReturned(o)
  PROVE  Promise!Next \/ UNCHANGED Promise!prom
<1>0. /\ Typed /\ TableIsWaiting /\ call \in [Ops -> Places] /\ outcome \in [Ops -> Outcomes]
      /\ entry \in [Requests -> Entries]
  BY DEF IInv, TableMatchesCalls, Typed
<1>1. /\ o \in Settled /\ o \notin returned /\ UNCHANGED <<closed, expired, wire>>
  BY DEF WriteReturned, Writer!Return, Writer!Finished, Settled, WriterProofs!Finished
<1>2. CASE o \in Requests
  <2>1. RequestWriteReturned(o) /\ UNCHANGED <<call, outcome>>
    BY <1>2 DEF WriteReturned, RequestWriteReturned
  <2>2. CASE UNCHANGED entry
    <3>1. \A p \in Ops : Stage'[p] = Stage[p] /\ Told'[p] = Told[p]
      BY <2>1, <2>2, Seen
    <3> QED
      BY <1>1, <3>1, NothingSeen
  <2>3. CASE entry' # entry
    <3> DEFINE new == IF closed THEN FailedWith(entry[o], "closed")
                      ELSE [entry[o] EXCEPT !.writeError = TRUE, !.completed = TRUE]
               why == IF closed THEN "closed" ELSE "writeFailed"
    <3>1. /\ o \in table /\ ~ entry[o].completed /\ o \notin expired
          /\ entry' = [entry EXCEPT ![o] = new]
      BY <2>1, <2>3 DEF RequestWriteReturned
    <3>2. entry[o] = NoEntry
      BY <1>2, <3>1 DEF EntriesKept
    <3>3. new.completed /\ OutcomeOf(new) = why
      BY <3>2 DEF NoEntry, FailedWith, OutcomeOf
    <3>4. why \in {"closed", "writeFailed"} /\ (why # "writeFailed" => closed)
      OBVIOUS
    <3> HIDE DEF new, why
    <3>5. entry'[o] = new /\ \A r \in Requests \ {o} : entry'[r] = entry[r]
      BY <1>0, <1>2, <3>1
    <3>6. \A r \in {o} : r \in table /\ ~ entry[r].completed /\ entry'[r].completed /\ OutcomeOf(entry'[r]) = why
      BY <3>1, <3>3, <3>5
    <3>7. {o} \in SUBSET table /\ {o} \cap expired = {} /\ closed' \in {closed, TRUE}
      BY <1>1, <3>1
    <3> QED
      BY <1>0, <1>1, <2>1, <3>4, <3>5, <3>6, <3>7, FailRefines
  <2> QED
    BY <2>2, <2>3
<1>3. CASE o \notin Requests
  <2>1. /\ call' = [call EXCEPT ![o] = "done"]
        /\ outcome' = [outcome EXCEPT ![o] = IF status[o] = "ok" THEN "sent"
                          ELSE IF closed /\ o \in Notes THEN "closed" ELSE "writeFailed"]
        /\ UNCHANGED entry
    BY <1>3 DEF WriteReturned, OtherWriteReturned
  <2>2. call[o] = "waiting"
    BY <1>1, <1>3 DEF WaitsForWrite
  <2>3. Told[o] = "open" /\ o \notin expired
    BY <1>0, <1>3, <2>2, Seen DEF Typed
  <2>4. status[o] = "ok" => o \in Promise!Sent
    BY SameNames DEF WriterProofs!IInv, WriterProofs!Order, WriterProofs!VerdictMatchesWire, OnWire,
                     WriterProofs!OnWire
  <2>5. outcome'[o] \in Promise!Closing(o) /\ \A p \in Ops \ {o} : outcome'[p] = outcome[p]
    BY <1>0, <1>3, <2>1, <2>4 DEF Promise!Closing
  <2>6. Promise!Tell(o)
    BY <1>0, <1>1, <2>1, <2>2, <2>3, <2>5, TellRefines
  <2> QED
    BY <2>6, SameNames DEF Promise!Next
<1> QED
  BY <1>2, <1>3

\* The caller of a request wakes.
LEMMA ResumeRefines ==
  ASSUME Typed, TableIsWaiting, EntriesKept, NEW r \in Requests, Resume(r)
  PROVE  Promise!Next
<1>0. /\ r \in Ops /\ call[r] = "waiting" /\ entry[r] \in Entries /\ outcome \in [Ops -> Outcomes]
      /\ entry \in [Requests -> Entries]
  BY Kinds DEF Resume, Typed
<1>1. /\ call' = [call EXCEPT ![r] = "done"]
      /\ outcome' = [outcome EXCEPT ![r] = OutcomeOf(FailedWith(entry[r], "timeout"))]
      /\ entry' = [entry EXCEPT ![r] = NoEntry]
      /\ expired' = expired \ {r} /\ UNCHANGED <<closed, wire>>
      /\ r \in woken \cup expired
  BY DEF Resume, Wakes
<1>2. /\ outcome'[r] = OutcomeOf(FailedWith(entry[r], "timeout"))
      /\ \A p \in Ops \ {r} : outcome'[p] = outcome[p] /\ (p \in Requests => entry'[p] = entry[p])
  BY <1>0, <1>1
<1>3. CASE entry[r].completed
  <2>1. Told[r] = OutcomeOf(entry[r]) /\ Told[r] # "open"
    BY <1>0, <1>3, Seen, Words DEF Answers
  <2>2. outcome'[r] = Told[r]
    BY <1>0, <1>2, <1>3, <2>1, Words
  <2>3. Promise!Tell(r)
    BY <1>0, <1>1, <1>2, <2>1, <2>2, TellRefines
  <2> QED
    BY <1>0, <2>3, SameNames DEF Promise!Next
<1>4. CASE ~ entry[r].completed
  <2>1. Told[r] = "open" /\ r \in expired /\ entry[r] = NoEntry
    BY <1>0, <1>1, <1>4, Seen DEF EntriesKept
  <2>2. outcome'[r] \in Promise!Closing(r)
    BY <1>0, <1>2, <1>4, <2>1, Words DEF Promise!Closing
  <2>3. Promise!Tell(r)
    BY <1>0, <1>1, <1>2, <2>1, <2>2, TellRefines
  <2> QED
    BY <1>0, <2>3, SameNames DEF Promise!Next
<1> QED
  BY <1>3, <1>4

\* The peer speaks, or the deadline passes.
LEMMA PeerRefines ==
  ASSUME Typed, TableIsWaiting, EntriesKept, NEW r \in Requests,
         Expire(r) \/ \E answer \in Answers \cup {"result"} : ReadAnswer(r, answer)
  PROVE  Promise!Next \/ UNCHANGED Promise!prom
<1>0. /\ r \in Ops /\ r \in table /\ call[r] = "waiting" /\ Stage[r] = "asked"
      /\ entry[r] \in Entries /\ entry \in [Requests -> Entries]
  BY Kinds, Seen DEF Expire, ReadAnswer, Typed, TableIsWaiting
<1>1. CASE Expire(r)
  <2>1. UNCHANGED <<Stage, Told, closed, wire>> /\ expired' = expired \cup {r}
    BY <1>1 DEF Expire, Stage, Told, OutcomeOf, writerVars
  <2>2. Promise!Expire(r)
    BY <1>0, <2>1 DEF Promise!Expire
  <2> QED
    BY <2>2 DEF Promise!Next
<1>2. ASSUME NEW answer \in Answers \cup {"result"}, ReadAnswer(r, answer)
      PROVE  Promise!Answer(r, answer) \/ UNCHANGED Promise!prom
  <2>1. /\ r \in OnWire /\ r \notin expired
        /\ entry' = [entry EXCEPT ![r] = Answered(entry[r], answer)]
        /\ UNCHANGED <<call, outcome, expired, closed, wire>>
    BY <1>2 DEF ReadAnswer, writerVars, OnWire, WriterProofs!OnWire
  <2>2. \A p \in Ops : Stage'[p] = Stage[p]
    BY <2>1, Seen
  <2>3. Told'[r] = OutcomeOf(Answered(entry[r], answer)) /\ \A p \in Ops \ {r} : Told'[p] = Told[p]
    BY <1>0, <2>1, Seen, AnswerCompletes
  <2>4. CASE Told'[r] = answer
    BY <1>0, <2>1, <2>2, <2>3, <2>4, Agree, SameNames DEF Promise!Answer
  <2>5. CASE Told'[r] # answer
    <3>1. Told'[r] = OutcomeOf(entry[r]) /\ entry[r] # NoEntry
      BY <1>0, <2>3, <2>5, Words
    <3>2. Told'[r] = Told[r]
      BY <1>0, <3>1, Seen DEF EntriesKept
    <3> QED
      BY <2>1, <2>2, <2>3, <3>2, NothingSeen
  <2> QED
    BY <2>4, <2>5
<1> QED
  BY <1>1, <1>2, SameNames DEF Promise!Next

LEMMA PromiseStep ==
  ASSUME IInv, WriterProofs!IInv, PromiseInv, [Next]_vars
  PROVE  [Promise!Next]_(Promise!prom)
<1> SUFFICES Promise!Next \/ UNCHANGED Promise!prom
  OBVIOUS
<1>0. /\ Typed /\ TableIsWaiting /\ HandshakeInOrder /\ WaitsForWrite /\ EntriesKept
      /\ call \in [Ops -> Places]
  BY DEF IInv, TableMatchesCalls, PromiseInv, Typed
<1>1. CASE Connect \/ FinishInitialize \/ FinishConnect
  BY <1>0, <1>1, HandshakeRefines
<1>2. CASE DrainStart \/ WriteDone
  BY <1>0, <1>2, LoopRefines
<1>3. CASE ReadFails \/ RunClosePost
  BY <1>0, <1>3, ClosingRefines
<1>4. ASSUME NEW o \in Ops, Send(o) \/ Start(o) \/ QueueWrite(o)
      PROVE  Promise!Next \/ UNCHANGED Promise!prom
  BY <1>0, <1>4, CallRefines
<1>5. ASSUME NEW o \in Ops, WriteReturned(o) PROVE Promise!Next \/ UNCHANGED Promise!prom
  BY <1>0, <1>5, ReturnRefines
<1>6. ASSUME NEW r \in Requests, Resume(r) PROVE Promise!Next
  BY <1>0, <1>6, ResumeRefines
<1>7. ASSUME NEW r \in Requests,
             Expire(r) \/ \E answer \in Answers \cup {"result"} : ReadAnswer(r, answer)
      PROVE  Promise!Next \/ UNCHANGED Promise!prom
  BY <1>0, <1>7, PeerRefines
<1>8. ASSUME NEW c \in Incoming, ReadRequest(c) PROVE Promise!Next
  <2>1. /\ c \in Ops /\ c # Initialize /\ c # Initialized /\ call[Initialize] # "idle"
        /\ call[c] = "idle" /\ call' = [call EXCEPT ![c] = "handling"]
        /\ UNCHANGED <<outcome, entry, expired, closed, wire>>
    BY <1>0, <1>8, Kinds, DisjointAssumption DEF ReadRequest, HandshakeInOrder, Ops, writerVars
  <2>2. Promise!Ask(c)
    BY <1>0, <2>1, AskRefines
  <2> QED
    BY <2>1, <2>2, SameNames DEF Promise!Next
<1>9. ASSUME UNCHANGED <<outcome, entry, expired, wire>>, closed' \in {closed, TRUE},
             \/ UNCHANGED call
             \/ \E c \in Incoming : call[c] = "handling" /\ call' = [call EXCEPT ![c] = "waiting"]
      PROVE  Promise!Next \/ UNCHANGED Promise!prom
  <2>1. \A p \in Ops : Stage'[p] = Stage[p] /\ Told'[p] = Told[p]
    BY <1>0, <1>9, Seen
  <2> QED
    BY <1>9, <2>1, NothingSeen DEF Promise!Next
<1>10. CASE Close
  BY <1>9, <1>10 DEF Close, RequestClose, writerVars
<1>11. ASSUME NEW c \in Incoming, AnswerRequest(c) PROVE Promise!Next \/ UNCHANGED Promise!prom
  BY <1>9, <1>11 DEF AnswerRequest, writerVars
<1>12. CASE UNCHANGED vars
  BY <1>9, <1>12 DEF vars, clientVars, writerVars
<1> QED
  BY <1>1, <1>2, <1>3, <1>4, <1>5, <1>6, <1>7, <1>8, <1>10, <1>11, <1>12 DEF Next

\* The client keeps its promise: what its callers and the transport see of any number
\* of requests, in every order of answers, cancellations, failed writes, deadlines and
\* close(), is a behaviour of ClientPromise.
THEOREM Implements == Safety => KeepsPromise
<1>1. Init => Promise!Init
  BY NewEntry, SameNames DEF Init, Writer!Init, Promise!Init, Stage, Told
<1> QED
  BY <1>1, PromiseStep, PromiseInvariance, Invariance, WriterInvariance, PTL
     DEF Safety, KeepsPromise, Promise!Spec

---------------------------------------------------------------------------
\* The schemas of the listed tools

Stages == {"idle", "asked", "looking", "compiling", "done"}
ListingStates == [pc : Stages, left : T!SomeAnswers, tool : Tools \cup {NoSchema}, kept : T!SomeAnswers]
ToolCallStates == [pc : {"idle", "sent", "returned", "refused"}, tool : Tools \cup {NoSchema},
                   schema : Schemas \cup {NoSchema}]

ToolsTyped ==
    /\ listed \in [Tools -> Schemas \cup {NoSchema}]
    /\ listing \in [Listings -> ListingStates]
    /\ rivals \in [Tools -> SUBSET Schemas]
    /\ toolCall \in [ToolCalls -> ToolCallStates]

\* What is still to be looked at of an answer is among the rivals of its tool, and
\* only an answer that is being handled has anything left.
ToolsUnderWay ==
    \A l \in Listings :
        /\ listing[l].pc \in {"idle", "asked", "done"} => DOMAIN listing[l].left = {}
        /\ listing[l].pc = "compiling" => listing[l].tool \in DOMAIN listing[l].left
        /\ \A t \in DOMAIN listing[l].left : listing[l].left[t] \in rivals[t]

ToolsInv == ToolsTyped /\ ToolsUnderWay /\ T!OnlyUsable /\ T!KnowsTheLatest

LEMMA AnswerIs ==
  ASSUME NEW a PROVE a \in T!SomeAnswers <=> DOMAIN a \subseteq Tools /\ a \in [DOMAIN a -> Schemas]
  BY DEF T!SomeAnswers

LEMMA NothingIs == T!Nothing \in T!SomeAnswers /\ DOMAIN T!Nothing = {}
<1>1. DOMAIN T!Nothing = {} /\ T!Nothing \in [DOMAIN T!Nothing -> Schemas]
  BY DEF T!Nothing
<1> QED
  BY <1>1, AnswerIs

\* The answer of a listing without t, and what it keeps with t.
LEMMA AnswersOf ==
  ASSUME ToolsTyped, NEW l \in Listings, NEW t \in DOMAIN listing[l].left
  PROVE  /\ t \in Tools /\ listing[l].left[t] \in Schemas
         /\ T!Rest(l, t) \in T!SomeAnswers /\ DOMAIN T!Rest(l, t) = DOMAIN listing[l].left \ {t}
         /\ \A u \in DOMAIN T!Rest(l, t) : T!Rest(l, t)[u] = listing[l].left[u]
         /\ T!Keeping(l, t) \in T!SomeAnswers
         /\ \A u \in DOMAIN T!Keeping(l, t) :
               \/ T!Keeping(l, t)[u] = listing[l].left[t]
               \/ u \in DOMAIN listing[l].kept /\ T!Keeping(l, t)[u] = listing[l].kept[u]
<1>1. listing[l].left \in T!SomeAnswers /\ listing[l].kept \in T!SomeAnswers
  BY DEF ToolsTyped, ListingStates
<1>2. /\ DOMAIN listing[l].left \subseteq Tools /\ listing[l].left \in [DOMAIN listing[l].left -> Schemas]
      /\ DOMAIN listing[l].kept \subseteq Tools /\ listing[l].kept \in [DOMAIN listing[l].kept -> Schemas]
  BY <1>1, AnswerIs
<1>3. /\ DOMAIN T!Rest(l, t) = DOMAIN listing[l].left \ {t}
      /\ T!Rest(l, t) \in [DOMAIN T!Rest(l, t) -> Schemas]
      /\ \A u \in DOMAIN T!Rest(l, t) : T!Rest(l, t)[u] = listing[l].left[u]
  BY <1>2 DEF T!Rest
<1>4. /\ DOMAIN T!Keeping(l, t) = DOMAIN listing[l].kept \cup {t}
      /\ T!Keeping(l, t) \in [DOMAIN T!Keeping(l, t) -> Schemas]
      /\ \A u \in DOMAIN T!Keeping(l, t) :
            T!Keeping(l, t)[u] = IF u = t THEN listing[l].left[t] ELSE listing[l].kept[u]
  BY <1>2 DEF T!Keeping
<1> QED
  BY <1>2, <1>3, <1>4, AnswerIs

LEMMA AdvanceEffect ==
  ASSUME ToolsTyped, NEW l \in Listings, NEW t \in DOMAIN listing[l].left, NEW kept \in T!SomeAnswers,
         T!Advance(l, t, kept)
  PROVE  /\ listing' \in [Listings -> ListingStates]
         /\ listing'[l].pc = "looking" /\ listing'[l].left = T!Rest(l, t) /\ listing'[l].kept = kept
         /\ \A m \in Listings \ {l} : listing'[m] = listing[m]
<1> DEFINE new == [listing[l] EXCEPT !.pc = "looking", !.left = T!Rest(l, t), !.kept = kept]
<1>1. listing' = [listing EXCEPT ![l] = new]
  BY DEF T!Advance
<1>2. T!Rest(l, t) \in T!SomeAnswers
  BY AnswersOf
<1>3. new \in ListingStates /\ new.pc = "looking" /\ new.left = T!Rest(l, t) /\ new.kept = kept
  <2>1. listing[l] \in ListingStates
    BY DEF ToolsTyped
  <2> QED
    BY <1>2, <2>1 DEF ListingStates, Stages
<1> HIDE DEF new
<1> QED
  BY <1>1, <1>3 DEF ToolsTyped

\* A listing that goes on without anything changing of its answer.
LEMMA StageEffect ==
  ASSUME ToolsTyped, NEW l \in Listings, NEW pc \in Stages, listing' = [listing EXCEPT ![l].pc = pc]
  PROVE  /\ listing' \in [Listings -> ListingStates] /\ listing'[l].pc = pc
         /\ \A m \in Listings : listing'[m].left = listing[m].left /\ listing'[m].kept = listing[m].kept
         /\ \A m \in Listings \ {l} : listing'[m] = listing[m]
<1> DEFINE new == [listing[l] EXCEPT !.pc = pc]
<1>1. listing' = [listing EXCEPT ![l] = new]
  OBVIOUS
<1>2. new \in ListingStates /\ new.pc = pc /\ new.left = listing[l].left /\ new.kept = listing[l].kept
  BY DEF ToolsTyped, ListingStates
<1> HIDE DEF new
<1> QED
  BY <1>1, <1>2 DEF ToolsTyped

LEMMA ToolsInit == T!Init => ToolsInv
<1> SUFFICES ASSUME T!Init PROVE ToolsInv
  OBVIOUS
<1>1. T!NewListing \in ListingStates /\ T!NewListing.pc = "idle" /\ T!NewListing.left = T!Nothing
      /\ T!NewListing.kept = T!Nothing
  BY NothingIs DEF T!NewListing, ListingStates, Stages
<1>2. /\ listing \in [Listings -> ListingStates]
      /\ \A l \in Listings : /\ listing[l].pc = "idle" /\ DOMAIN listing[l].left = {}
                             /\ DOMAIN listing[l].kept = {}
  <2> HIDE DEF ListingStates
  <2> QED
    BY <1>1, NothingIs DEF T!Init
<1>3. /\ listed \in [Tools -> Schemas \cup {NoSchema}] /\ \A t \in Tools : listed[t] = NoSchema
      /\ rivals \in [Tools -> SUBSET Schemas] /\ \A t \in Tools : rivals[t] = {}
      /\ \A c \in ToolCalls : toolCall[c].schema = NoSchema
      /\ toolCall \in [ToolCalls -> ToolCallStates]
  BY DEF T!Init, ToolCallStates
<1>4. ToolsTyped
  BY <1>2, <1>3 DEF ToolsTyped
<1>5. ToolsUnderWay
  BY <1>2 DEF ToolsUnderWay
<1>6. T!OnlyUsable /\ T!KnowsTheLatest
  BY <1>2, <1>3 DEF T!OnlyUsable, T!KnowsTheLatest
<1> QED
  BY <1>4, <1>5, <1>6 DEF ToolsInv

\* A step that leaves what is left, kept and remembered alone.
LEMMA SameAnswers ==
  ASSUME ToolsInv, UNCHANGED <<listed, rivals, toolCall>>, listing' \in [Listings -> ListingStates],
         \A m \in Listings : listing'[m].left = listing[m].left /\ listing'[m].kept = listing[m].kept,
         ToolsUnderWay'
  PROVE  ToolsInv'
<1>1. ToolsTyped'
  BY DEF ToolsInv, ToolsTyped
<1>2. T!OnlyUsable'
  BY DEF ToolsInv, T!OnlyUsable
<1>3. T!KnowsTheLatest'
  BY DEF ToolsInv, T!KnowsTheLatest, T!Handled
<1> QED
  BY <1>1, <1>2, <1>3 DEF ToolsInv

\* A step that is done with tool t of the answer of l.
LEMMA DoneWith ==
  ASSUME ToolsInv, NEW l \in Listings, NEW t \in DOMAIN listing[l].left, NEW kept \in T!SomeAnswers,
         T!Advance(l, t, kept), UNCHANGED <<rivals, toolCall>>,
         \A u \in DOMAIN kept : T!Compiles(kept[u]),
         NEW schemas \in Schemas \cup {NoSchema}, listed' = [listed EXCEPT ![t] = schemas],
         schemas = T!Remembered(listing[l].left[t]), schemas # NoSchema => T!Compiles(schemas)
  PROVE  ToolsInv'
<1>0. ToolsTyped /\ ToolsUnderWay /\ T!OnlyUsable /\ T!KnowsTheLatest
  BY DEF ToolsInv
<1>1. /\ t \in Tools /\ DOMAIN T!Rest(l, t) = DOMAIN listing[l].left \ {t}
      /\ \A u \in DOMAIN T!Rest(l, t) : T!Rest(l, t)[u] = listing[l].left[u]
  BY <1>0, AnswersOf
<1>2. /\ listing' \in [Listings -> ListingStates]
      /\ listing'[l].pc = "looking" /\ listing'[l].left = T!Rest(l, t) /\ listing'[l].kept = kept
      /\ \A m \in Listings \ {l} : listing'[m] = listing[m]
  BY <1>0, AdvanceEffect
<1>3. ToolsTyped'
  BY <1>0, <1>1, <1>2 DEF ToolsTyped
<1>4. ToolsUnderWay'
  <2> SUFFICES ASSUME NEW m \in Listings
               PROVE  /\ listing'[m].pc \in {"idle", "asked", "done"} => DOMAIN listing'[m].left = {}
                      /\ listing'[m].pc = "compiling" => listing'[m].tool \in DOMAIN listing'[m].left
                      /\ \A u \in DOMAIN listing'[m].left : listing'[m].left[u] \in rivals'[u]
    BY DEF ToolsUnderWay
  <2>1. CASE m = l
    BY <1>0, <1>1, <1>2, <2>1 DEF ToolsUnderWay
  <2>2. CASE m # l
    BY <1>0, <1>2, <2>2 DEF ToolsUnderWay
  <2> QED
    BY <2>1, <2>2
<1>5. T!OnlyUsable'
  <2>1. \A m \in Listings : \A u \in DOMAIN listing'[m].kept : T!Compiles(listing'[m].kept[u])
    BY <1>0, <1>2 DEF T!OnlyUsable
  <2>2. \A u \in Tools : listed'[u] # NoSchema => T!Compiles(listed'[u])
    BY <1>0 DEF T!OnlyUsable, ToolsTyped
  <2>3. \A c \in ToolCalls : toolCall'[c].schema # NoSchema => T!Compiles(toolCall'[c].schema)
    BY <1>0 DEF T!OnlyUsable
  <2> QED
    BY <2>1, <2>2, <2>3 DEF T!OnlyUsable
<1>6. T!KnowsTheLatest'
  <2> SUFFICES ASSUME NEW u \in Tools, \A m \in Listings : u \notin DOMAIN listing'[m].left
               PROVE  listed'[u] \in IF rivals[u] = {} THEN {NoSchema} ELSE {T!Remembered(s) : s \in rivals[u]}
    BY DEF T!KnowsTheLatest, T!Handled
  <2>1. CASE u = t
    <3>1. listed'[u] = T!Remembered(listing[l].left[t]) /\ listing[l].left[t] \in rivals[u]
      BY <1>0, <1>1, <2>1 DEF ToolsTyped, ToolsUnderWay
    <3> QED
      BY <3>1
  <2>2. CASE u # t
    <3>1. \A m \in Listings : u \notin DOMAIN listing[m].left
      BY <1>1, <1>2, <2>2
    <3>2. listed'[u] = listed[u]
      BY <1>0, <2>2 DEF ToolsTyped
    <3> QED
      BY <1>0, <3>1, <3>2 DEF T!KnowsTheLatest, T!Handled
  <2> QED
    BY <2>1, <2>2
<1> QED
  BY <1>3, <1>4, <1>5, <1>6 DEF ToolsInv

LEMMA ListStep ==
  ASSUME ToolsInv, NEW l \in Listings, T!List(l) \/ T!ListingFails(l) \/ T!Return(l) PROVE ToolsInv'
<1>0. ToolsTyped /\ ToolsUnderWay
  BY DEF ToolsInv
<1>1. PICK pc \in {"asked", "done"} :
         /\ listing' = [listing EXCEPT ![l].pc = pc] /\ UNCHANGED <<listed, toolCall, rivals>>
         /\ DOMAIN listing[l].left = {}
  BY <1>0, NothingIs DEF T!List, T!ListingFails, T!Return, ToolsUnderWay
<1>2. pc \in Stages
  BY DEF Stages
<1>3. /\ listing' \in [Listings -> ListingStates] /\ listing'[l].pc = pc
      /\ \A m \in Listings : listing'[m].left = listing[m].left /\ listing'[m].kept = listing[m].kept
      /\ \A m \in Listings \ {l} : listing'[m] = listing[m]
  BY <1>0, <1>1, <1>2, StageEffect
<1>4. ToolsUnderWay'
  <2> SUFFICES ASSUME NEW m \in Listings
               PROVE  /\ listing'[m].pc \in {"idle", "asked", "done"} => DOMAIN listing'[m].left = {}
                      /\ listing'[m].pc = "compiling" => listing'[m].tool \in DOMAIN listing'[m].left
                      /\ \A u \in DOMAIN listing'[m].left : listing'[m].left[u] \in rivals'[u]
    BY DEF ToolsUnderWay
  <2>1. CASE m = l
    BY <1>1, <1>3, <2>1
  <2>2. CASE m # l
    BY <1>0, <1>1, <1>3, <2>2 DEF ToolsUnderWay
  <2> QED
    BY <2>1, <2>2
<1> QED
  BY <1>1, <1>3, <1>4, SameAnswers

LEMMA ReceiveStep ==
  ASSUME ToolsInv, NEW l \in Listings, NEW answer \in T!SomeAnswers, T!Receive(l, answer) PROVE ToolsInv'
<1>0. ToolsTyped /\ ToolsUnderWay /\ T!OnlyUsable /\ T!KnowsTheLatest
  BY DEF ToolsInv
<1> DEFINE new == [listing[l] EXCEPT !.pc = "looking", !.left = answer]
<1>1. /\ listing[l].pc = "asked" /\ listing' = [listing EXCEPT ![l] = new]
      /\ rivals' = [t \in Tools |-> IF t \notin DOMAIN answer THEN rivals[t]
                                    ELSE {answer[t]} \cup (IF T!Handled(t) THEN rivals[t] ELSE {})]
      /\ UNCHANGED <<listed, toolCall>>
  BY DEF T!Receive
<1>2. new \in ListingStates /\ new.pc = "looking" /\ new.left = answer /\ new.kept = listing[l].kept
  <2>1. listing[l] \in ListingStates
    BY <1>0 DEF ToolsTyped
  <2> QED
    BY <2>1 DEF ListingStates, Stages
<1> HIDE DEF new
<1>3. /\ listing' \in [Listings -> ListingStates] /\ listing'[l] = new
      /\ \A m \in Listings \ {l} : listing'[m] = listing[m]
  BY <1>0, <1>1, <1>2 DEF ToolsTyped
<1>4. DOMAIN answer \subseteq Tools /\ answer \in [DOMAIN answer -> Schemas] /\ DOMAIN listing[l].left = {}
  BY <1>0, <1>1, AnswerIs DEF ToolsUnderWay
<1>5. ToolsTyped'
  <2>1. rivals' \in [Tools -> SUBSET Schemas]
    BY <1>0, <1>1, <1>4 DEF ToolsTyped
  <2> QED
    BY <1>0, <1>1, <1>3, <2>1 DEF ToolsTyped
<1>6. ToolsUnderWay'
  <2> SUFFICES ASSUME NEW m \in Listings
               PROVE  /\ listing'[m].pc \in {"idle", "asked", "done"} => DOMAIN listing'[m].left = {}
                      /\ listing'[m].pc = "compiling" => listing'[m].tool \in DOMAIN listing'[m].left
                      /\ \A u \in DOMAIN listing'[m].left : listing'[m].left[u] \in rivals'[u]
    BY DEF ToolsUnderWay
  <2>1. CASE m = l
    BY <1>1, <1>2, <1>3, <1>4, <2>1
  <2>2. CASE m # l
    <3>1. listing'[m] = listing[m] /\ listing[m].left \in T!SomeAnswers
      BY <1>0, <1>3, <2>2 DEF ToolsTyped, ListingStates
    <3>2. ASSUME NEW u \in DOMAIN listing[m].left PROVE listing[m].left[u] \in rivals'[u]
      <4>1. u \in Tools /\ T!Handled(u) /\ listing[m].left[u] \in rivals[u]
        BY <1>0, <3>1, <3>2, AnswerIs DEF T!Handled, ToolsUnderWay
      <4> QED
        BY <1>1, <4>1
    <3> QED
      BY <1>0, <3>1, <3>2 DEF ToolsUnderWay
  <2> QED
    BY <2>1, <2>2
<1>7. T!OnlyUsable'
  <2>1. \A m \in Listings : listing'[m].kept = listing[m].kept
    BY <1>2, <1>3
  <2> QED
    BY <1>0, <1>1, <2>1 DEF T!OnlyUsable
<1>8. T!KnowsTheLatest'
  <2> SUFFICES ASSUME NEW u \in Tools, \A m \in Listings : u \notin DOMAIN listing'[m].left
               PROVE  listed[u] \in IF rivals'[u] = {} THEN {NoSchema} ELSE {T!Remembered(s) : s \in rivals'[u]}
    BY <1>1 DEF T!KnowsTheLatest, T!Handled
  <2>1. u \notin DOMAIN answer /\ \A m \in Listings : u \notin DOMAIN listing[m].left
    BY <1>2, <1>3, <1>4
  <2>2. rivals'[u] = rivals[u]
    BY <1>1, <2>1
  <2> QED
    BY <1>0, <2>1, <2>2 DEF T!KnowsTheLatest, T!Handled
<1> QED
  BY <1>5, <1>6, <1>7, <1>8 DEF ToolsInv

\* The tools of an answer that are kept with t compile when those of t do.
LEMMA KeepingCompiles ==
  ASSUME ToolsInv, NEW l \in Listings, NEW t \in DOMAIN listing[l].left, T!Compiles(listing[l].left[t])
  PROVE  \A u \in DOMAIN T!Keeping(l, t) : T!Compiles(T!Keeping(l, t)[u])
<1>1. \A u \in DOMAIN T!Keeping(l, t) :
         \/ T!Keeping(l, t)[u] = listing[l].left[t]
         \/ u \in DOMAIN listing[l].kept /\ T!Keeping(l, t)[u] = listing[l].kept[u]
  BY AnswersOf DEF ToolsInv
<1>2. \A u \in DOMAIN listing[l].kept : T!Compiles(listing[l].kept[u])
  BY DEF ToolsInv, T!OnlyUsable
<1> QED
  BY <1>1, <1>2

LEMMA LookStep ==
  ASSUME ToolsInv, NEW l \in Listings, NEW t \in Tools, T!Look(l, t) PROVE ToolsInv'
<1>0. ToolsTyped /\ ToolsUnderWay /\ T!OnlyUsable
  BY DEF ToolsInv
<1>1. t \in DOMAIN listing[l].left /\ listing[l].left[t] \in Schemas /\ listing[l].left[t] # NoSchema
      /\ T!Keeping(l, t) \in T!SomeAnswers
  BY <1>0, AnswersOf, KeptAssumption DEF T!Look
<1>2. CASE listed[t] = listing[l].left[t]
  <2>1. T!Advance(l, t, T!Keeping(l, t)) /\ UNCHANGED <<listed, rivals, toolCall>>
    BY <1>2 DEF T!Look, T!Known
  <2>2. T!Compiles(listing[l].left[t])
    BY <1>0, <1>1, <1>2 DEF T!OnlyUsable
  <2>3. \A u \in DOMAIN T!Keeping(l, t) : T!Compiles(T!Keeping(l, t)[u])
    BY <1>1, <2>2, KeepingCompiles
  <2>4. listed' = [listed EXCEPT ![t] = listing[l].left[t]]
    BY <1>0, <1>2, <2>1 DEF ToolsTyped
  <2>5. listing[l].left[t] = T!Remembered(listing[l].left[t])
    BY <2>2 DEF T!Remembered
  <2> QED
    BY <1>1, <2>1, <2>2, <2>3, <2>4, <2>5, DoneWith
<1>3. CASE listed[t] # listing[l].left[t]
  <2> DEFINE new == [listing[l] EXCEPT !.pc = "compiling", !.tool = t]
  <2>1. listing' = [listing EXCEPT ![l] = new] /\ UNCHANGED <<listed, rivals, toolCall>>
    BY <1>3 DEF T!Look, T!Known, T!Unremembered
  <2>2. /\ new \in ListingStates /\ new.pc = "compiling" /\ new.tool = t
        /\ new.left = listing[l].left /\ new.kept = listing[l].kept
    <3>1. listing[l] \in ListingStates
      BY <1>0 DEF ToolsTyped
    <3> QED
      BY <3>1 DEF ListingStates, Stages
  <2> HIDE DEF new
  <2>3. /\ listing' \in [Listings -> ListingStates] /\ listing'[l] = new
        /\ \A m \in Listings \ {l} : listing'[m] = listing[m]
    BY <1>0, <2>1, <2>2 DEF ToolsTyped
  <2>4. \A m \in Listings : listing'[m].left = listing[m].left /\ listing'[m].kept = listing[m].kept
    BY <2>2, <2>3
  <2>5. ToolsUnderWay'
    <3> SUFFICES ASSUME NEW m \in Listings
                 PROVE  /\ listing'[m].pc \in {"idle", "asked", "done"} => DOMAIN listing'[m].left = {}
                        /\ listing'[m].pc = "compiling" => listing'[m].tool \in DOMAIN listing'[m].left
                        /\ \A u \in DOMAIN listing'[m].left : listing'[m].left[u] \in rivals'[u]
      BY DEF ToolsUnderWay
    <3>1. CASE m = l
      BY <1>0, <1>1, <2>1, <2>2, <2>3, <3>1 DEF ToolsUnderWay
    <3>2. CASE m # l
      BY <1>0, <2>1, <2>3, <3>2 DEF ToolsUnderWay
    <3> QED
      BY <3>1, <3>2
  <2> QED
    BY <2>1, <2>3, <2>4, <2>5, SameAnswers
<1> QED
  BY <1>2, <1>3

LEMMA StoreStep ==
  ASSUME ToolsInv, NEW l \in Listings, T!Store(l) PROVE ToolsInv'
<1> DEFINE t == listing[l].tool
           schemas == listing[l].left[t]
<1>0. ToolsTyped /\ ToolsUnderWay /\ T!OnlyUsable
  BY DEF ToolsInv
<1>1. t \in DOMAIN listing[l].left
  BY <1>0 DEF T!Store, ToolsUnderWay
<1>2. schemas \in Schemas /\ T!Keeping(l, t) \in T!SomeAnswers /\ listing[l].kept \in T!SomeAnswers
  BY <1>0, <1>1, AnswersOf DEF ToolsTyped, ListingStates
<1>3. UNCHANGED <<rivals, toolCall>>
  BY DEF T!Store
<1>4. CASE T!Compiles(schemas)
  <2>1. listed' = [listed EXCEPT ![t] = schemas] /\ T!Advance(l, t, T!Keeping(l, t))
    BY <1>4 DEF T!Store
  <2>2. \A u \in DOMAIN T!Keeping(l, t) : T!Compiles(T!Keeping(l, t)[u])
    BY <1>1, <1>4, KeepingCompiles
  <2>3. schemas = T!Remembered(listing[l].left[t])
    BY <1>4 DEF T!Remembered
  <2> QED
    BY <1>1, <1>2, <1>3, <1>4, <2>1, <2>2, <2>3, DoneWith
<1>5. CASE ~ T!Compiles(schemas)
  <2>1. listed' = [listed EXCEPT ![t] = NoSchema] /\ T!Advance(l, t, listing[l].kept)
    BY <1>5 DEF T!Store, T!Forgotten
  <2>2. \A u \in DOMAIN listing[l].kept : T!Compiles(listing[l].kept[u])
    BY <1>0 DEF T!OnlyUsable
  <2>3. NoSchema = T!Remembered(listing[l].left[t])
    BY <1>5 DEF T!Remembered
  <2> QED
    BY <1>1, <1>2, <1>3, <2>1, <2>2, <2>3, DoneWith
<1> QED
  BY <1>4, <1>5

LEMMA ToolCallStep ==
  ASSUME ToolsInv, NEW c \in ToolCalls,
         \/ \E t \in Tools : T!CallTool(c, t)
         \/ \E plain \in BOOLEAN, conforms \in SUBSET {s.output : s \in Schemas} : T!Answer(c, plain, conforms)
  PROVE  ToolsInv'
<1>0. ToolsTyped /\ ToolsUnderWay /\ T!OnlyUsable /\ T!KnowsTheLatest
  BY DEF ToolsInv
<1>1. UNCHANGED <<listed, listing, rivals>>
  BY DEF T!CallTool, T!Answer
<1>2. \E new \in ToolCallStates :
         /\ toolCall' = [toolCall EXCEPT ![c] = new]
         /\ new.schema = toolCall[c].schema \/ \E t \in Tools : new.schema = listed[t]
  <2>1. ASSUME NEW t \in Tools, T!CallTool(c, t)
        PROVE  LET new == [pc |-> "sent", tool |-> t, schema |-> listed[t]]
               IN  new \in ToolCallStates /\ toolCall' = [toolCall EXCEPT ![c] = new] /\ new.schema = listed[t]
    BY <1>0, <2>1 DEF T!CallTool, ToolsTyped, ToolCallStates
  <2>2. ASSUME NEW plain, NEW conforms, T!Answer(c, plain, conforms)
        PROVE  \E new \in ToolCallStates :
                  toolCall' = [toolCall EXCEPT ![c] = new] /\ new.schema = toolCall[c].schema
    <3>1. PICK pc \in {"refused", "returned"} : toolCall' = [toolCall EXCEPT ![c].pc = pc]
      BY <2>2 DEF T!Answer
    <3> DEFINE new == [toolCall[c] EXCEPT !.pc = pc]
    <3>2. toolCall[c] \in ToolCallStates
      BY <1>0 DEF ToolsTyped
    <3>3. new \in ToolCallStates /\ new.schema = toolCall[c].schema
      BY <3>2 DEF ToolCallStates
    <3>4. toolCall' = [toolCall EXCEPT ![c] = new]
      BY <3>1
    <3> HIDE DEF new
    <3> QED
      BY <3>3, <3>4
  <2> QED
    BY <2>1, <2>2
<1>3. /\ toolCall' \in [ToolCalls -> ToolCallStates]
      /\ \A d \in ToolCalls :
            toolCall'[d].schema = toolCall[d].schema \/ \E t \in Tools : toolCall'[d].schema = listed[t]
  BY <1>0, <1>2 DEF ToolsTyped
<1>4. ToolsTyped'
  BY <1>0, <1>1, <1>3 DEF ToolsTyped
<1>5. T!OnlyUsable'
  <2>1. \A d \in ToolCalls : toolCall'[d].schema # NoSchema => T!Compiles(toolCall'[d].schema)
    BY <1>0, <1>3 DEF T!OnlyUsable
  <2> QED
    BY <1>0, <1>1, <2>1 DEF T!OnlyUsable
<1>6. ToolsUnderWay' /\ T!KnowsTheLatest'
  BY <1>0, <1>1 DEF ToolsUnderWay, T!KnowsTheLatest, T!Handled
<1> QED
  BY <1>4, <1>5, <1>6 DEF ToolsInv

LEMMA ToolsStep == ToolsInv /\ (T!Next \/ UNCHANGED tvars) => ToolsInv'
<1>1. ToolsInv /\ T!Next => ToolsInv'
  BY ListStep, ReceiveStep, LookStep, StoreStep, ToolCallStep DEF T!Next
<1>2. ToolsInv /\ UNCHANGED tvars => ToolsInv'
  BY DEF tvars, ToolsInv, ToolsTyped, ToolsUnderWay, T!OnlyUsable, T!KnowsTheLatest, T!Handled
<1> QED
  BY <1>1, <1>2

---------------------------------------------------------------------------
\* The roots and their announcement

\* What the server believes once the answers under way have arrived.
LatestReply == IF replies = <<>> THEN followed ELSE replies[Len(replies)]

\* Roots that a ready session has not been told of are still announced: by a
\* notification, by the request it makes the server send, or by the last answer.
\* Without the capability there were no roots at connect().
RootsUnderWay ==
    /\ registered = R!NoRoots <=> roots = R!NoRoots
    /\ registered = R!NoRoots => replies = <<>> /\ followed = R!NoRoots
    /\ session # "none" /\ capability = "none" /\ ~silent => roots = R!NoRoots
    /\ session = "ready" /\ ~silent => spawned > 0 \/ notices > 0 \/ asked > 0 \/ LatestReply = roots

RootsInv == R!TypeOK /\ RootsUnderWay

LEMMA RootsInit == R!Init => RootsInv
<1> SUFFICES ASSUME R!Init PROVE RootsInv
  OBVIOUS
<1>1. R!NoRoots \in 0..MaxRoots /\ <<>> \in Seq(0..MaxRoots)
  BY KeptAssumption DEF R!NoRoots
<1>2. R!TypeOK
  BY <1>1 DEF R!Init, R!TypeOK
<1> QED
  BY <1>2 DEF R!Init, RootsInv, RootsUnderWay

LEMMA RootsTyped == R!TypeOK /\ R!Next => R!TypeOK'
<1> SUFFICES ASSUME R!TypeOK, R!Next PROVE R!TypeOK'
  OBVIOUS
<1> USE KeptAssumption DEF R!TypeOK
<1>1. ASSUME NEW notify \in BOOLEAN, R!SetRoots(notify) PROVE R!TypeOK'
  BY <1>1 DEF R!SetRoots
<1>2. ASSUME NEW passed \in {"none", "plain", "listChanged"}, R!Connect(passed) PROVE R!TypeOK'
  BY <1>2 DEF R!Connect, R!Advertised
<1>3. CASE R!SessionReady \/ R!Notify \/ R!ServerNoticed \/ R!Close
  BY <1>3 DEF R!SessionReady, R!Notify, R!ServerNoticed, R!Close
<1>4. CASE R!AnswerRoots
  <2>1. asked' \in Nat
    BY <1>4 DEF R!AnswerRoots
  <2>2. roots \in 0..MaxRoots /\ replies \in Seq(0..MaxRoots)
    OBVIOUS
  <2>3. Append(replies, roots) \in Seq(0..MaxRoots)
    BY <2>2
  <2>4. replies' = replies \/ replies' = Append(replies, roots)
    BY <1>4 DEF R!AnswerRoots, R!Current
  <2> QED
    BY <1>4, <2>1, <2>2, <2>3, <2>4 DEF R!AnswerRoots
<1>5. CASE R!ServerLearns
  <2>1. followed' \in 0..MaxRoots /\ replies' \in Seq(0..MaxRoots)
    BY <1>5 DEF R!ServerLearns
  <2> QED
    BY <1>5, <2>1 DEF R!ServerLearns
<1> QED
  BY <1>1, <1>2, <1>3, <1>4, <1>5 DEF R!Next

LEMMA RootsStep == RootsInv /\ (R!Next \/ UNCHANGED rvars) => RootsInv'
<1>u. R!TypeOK /\ UNCHANGED rvars => R!TypeOK'
  BY DEF rvars, R!TypeOK
<1> SUFFICES ASSUME RootsInv, R!Next \/ UNCHANGED rvars PROVE RootsUnderWay'
  BY <1>u, RootsTyped DEF RootsInv
<1>0. R!TypeOK /\ RootsUnderWay
  BY DEF RootsInv
<1>a. CASE UNCHANGED rvars
  BY <1>0, <1>a DEF rvars, RootsUnderWay, LatestReply
<1>b. ASSUME UNCHANGED <<replies, followed>> PROVE LatestReply' = LatestReply
  BY <1>b DEF LatestReply
<1> USE DEF RootsUnderWay, R!NoRoots
<1>1. ASSUME NEW notify \in BOOLEAN, R!SetRoots(notify) PROVE RootsUnderWay'
  <2>1. roots' = roots + 1 /\ roots' # 0 /\ registered' # 0 /\ UNCHANGED <<capability, session, notices, asked>>
    BY <1>0, <1>1 DEF R!SetRoots, R!TypeOK
  <2>2. session' # "none" /\ ~silent' => capability' = "listChanged" /\ notify
    BY <1>0, <1>1 DEF R!SetRoots
  <2>3. session' = "ready" /\ ~silent' => spawned' > 0
    BY <1>0, <1>1, <2>2 DEF R!SetRoots, R!ShouldNotify, R!TypeOK
  <2> QED
    BY <2>1, <2>2, <2>3
<1>2. ASSUME NEW passed \in {"none", "plain", "listChanged"}, R!Connect(passed) PROVE RootsUnderWay'
  BY <1>0, <1>2 DEF R!Connect, R!Advertised
<1>3. CASE R!SessionReady
  <2>1. session' = "ready" /\ ~silent' => asked' > 0 \/ LatestReply' = roots'
    BY <1>0, <1>3 DEF R!SessionReady, R!TypeOK, LatestReply
  <2> QED
    BY <1>0, <1>3, <1>b, <2>1 DEF R!SessionReady
<1>4. CASE R!Notify
  <2>1. session' = "ready" => notices' > 0
    BY <1>0, <1>4 DEF R!Notify, R!TypeOK
  <2> QED
    BY <1>0, <1>4, <1>b, <2>1 DEF R!Notify
<1>5. CASE R!ServerNoticed
  <2>1. session' = "ready" => asked' > 0
    BY <1>0, <1>5 DEF R!ServerNoticed, R!TypeOK
  <2> QED
    BY <1>0, <1>5, <1>b, <2>1 DEF R!ServerNoticed
<1>6. CASE R!AnswerRoots
  <2>1. CASE registered = 0
    <3>1. UNCHANGED <<roots, registered, replies, followed, session, silent, capability>>
      BY <1>6, <2>1 DEF R!AnswerRoots
    <3>2. LatestReply' = roots' /\ roots' = 0
      BY <1>0, <2>1, <3>1 DEF LatestReply
    <3> QED
      BY <1>0, <2>1, <3>1, <3>2
  <2>2. CASE registered # 0
    <3>1. replies' = Append(replies, roots) /\ UNCHANGED <<roots, registered>> /\ replies \in Seq(0..MaxRoots)
      BY <1>0, <1>6, <2>2 DEF R!AnswerRoots, R!Current, R!TypeOK
    <3>2. roots \in 0..MaxRoots
      BY <1>0 DEF R!TypeOK
    <3>3. replies' # <<>> /\ replies'[Len(replies')] = roots
      BY <3>1, <3>2
    <3>4. LatestReply' = roots'
      BY <3>1, <3>3 DEF LatestReply
    <3> QED
      BY <1>0, <1>6, <2>2, <3>1, <3>4 DEF R!AnswerRoots
  <2> QED
    BY <2>1, <2>2
<1>7. CASE R!ServerLearns
  <2>1. replies # <<>> /\ followed' = Head(replies) /\ replies' = Tail(replies) /\ replies \in Seq(0..MaxRoots)
    BY <1>0, <1>7 DEF R!ServerLearns, R!TypeOK
  <2>2. LatestReply' = LatestReply
    <3>1. Len(replies) \in Nat /\ Len(replies) > 0 /\ Len(replies') = Len(replies) - 1
      BY <2>1
    <3>2. CASE Len(replies) = 1
      <4>1. replies' = <<>> /\ followed' = replies[Len(replies)]
        BY <2>1, <3>1, <3>2
      <4> QED
        BY <2>1, <4>1 DEF LatestReply
    <3>3. CASE Len(replies) > 1
      <4>0. Len(replies') \in 1..Len(replies') /\ Len(replies') + 1 = Len(replies)
            /\ \A i \in 1..Len(replies') : replies'[i] = replies[i + 1]
        BY <2>1, <3>1, <3>3
      <4>1. replies' # <<>> /\ replies'[Len(replies')] = replies[Len(replies)]
        BY <3>1, <3>3, <4>0
      <4> QED
        BY <2>1, <4>1 DEF LatestReply
    <3> QED
      BY <3>1, <3>2, <3>3
  <2> QED
    BY <1>0, <1>7, <2>1, <2>2 DEF R!ServerLearns
<1>8. CASE R!Close
  BY <1>0, <1>8, <1>b DEF R!Close
<1> QED
  BY <1>0, <1>a, <1>1, <1>2, <1>3, <1>4, <1>5, <1>6, <1>7, <1>8 DEF R!Next

LEMMA RootsArrive == RootsInv => R!RootsReachServer
<1>1. R!TypeOK /\ RootsUnderWay => R!RootsReachServer
  BY DEF RootsUnderWay, LatestReply, R!RootsReachServer
<1> QED
  BY <1>1 DEF RootsInv

---------------------------------------------------------------------------
\* The three together

\* What the client keeps agrees with what is under way: no entry of pending_requests
\* leaks or is stranded, listed_tools holds the schemas of the latest listing and
\* only schemas that compile, and the server learns of the roots.
THEOREM KeptAgrees == MCSpec => []KeptStateAgrees
<1> DEFINE All == WriterProofs!IInv /\ IInv /\ ToolsInv /\ RootsInv
<1>1. MCInit => All
  BY InitIsInit, WriterProofs!InitInv, Init_IInv, ToolsInit, RootsInit DEF MCInit
<1>2. All /\ [MCNext]_<<part, vars, tvars, rvars>> => All'
  <2> SUFFICES ASSUME All, [MCNext]_<<part, vars, tvars, rvars>> PROVE All'
    OBVIOUS
  <2>1. [Next]_vars /\ (T!Next \/ UNCHANGED tvars) /\ (R!Next \/ UNCHANGED rvars)
    BY DEF MCNext
  <2>2. WriterProofs!IInv' /\ IInv'
    BY <2>1, StepIsStep, WriterProofs!Step, Next_IInv
  <2> QED
    BY <2>1, <2>2, ToolsStep, RootsStep
<1>3. All => KeptStateAgrees
  BY RootsArrive DEF IInv, ToolsInv, T!ToolsAsListed, KeptStateAgrees
<1> QED
  BY <1>1, <1>2, <1>3, PTL DEF MCSpec
=============================================================================

-------------------------- MODULE ServerSessionProofs --------------------------
(***************************************************************************)
(* Proofs that the Server's sessions (ServerSession) hold their invariants  *)
(* for every number of runs and requests: handlers are released at the end  *)
(* of a session, a session that is over leaves nothing behind, and answers  *)
(* stay in the session that asked.                                          *)
(*                                                                          *)
(* The inductive invariant adds to the properties of ServerSession what      *)
(* they rest on: where the entry of a reverse request is in the life of its  *)
(* dispatch, what a run has done before it ends, and who is registered.      *)
(***************************************************************************)
EXTENDS ServerSession, TLAPS

\* The values of the variables, and ~Server works on a session while it runs.
Typed ==
    /\ TypeOK
    /\ destroyer \notin {"none", "done"} => doomed \in Runs

\* The runs whose teardown has begun.
Over == {"draining", "done", "failed"}

\* pending_requests holds exactly the reverse requests whose handler is in
\* await_reverse_response_on_strand, each with the session it goes to; nobody
\* answers a reverse request that was never sent.
ReverseShape ==
    \A q \in Requests :
        /\ q \in pending <=> dispatch[q] \in {"askWriting", "askWaiting"}
        /\ dispatch[q] \in {"asking", "askWriting", "askWaiting"} => callee[q] \in Runs
        /\ answer[q] # "none" => callee[q] \in Runs

\* A run that is over said so before (Session::stopping), and every dispatch it
\* spawned has started.
OverShape ==
    /\ \A r \in Runs : run[r] \in Over => r \in stopping
    /\ \A q \in Requests : dispatch[q] = "spawned" =>
          /\ owner[q] \in Runs /\ run[owner[q]] \in {"reading", "reporting"}

\* A dispatch that has not started has neither a writer nor an answer.
UnstartedShape ==
    \A q \in Requests : dispatch[q] \in {"idle", "spawned"} =>
        writer[q] = NoRun /\ answeredOn[q] = NoRun

\* While the Server lives and teardowns succeed, whoever is in its read loop or
\* waits for its dispatches is the registered session, hence alone.
Registered ==
    /\ destroyer # "none" => gone
    /\ ~gone /\ threw = {} => \A r \in Runs : run[r] \in Live => session = r

\* What a dispatch writes its answer on is the session that read the request.
WritersStay ==
    ~gone /\ threw = {} => \A q \in Requests : writer[q] \in {NoRun, owner[q]}

\* No dispatch of run r is under way: Active(r) = {}, without the set.
Still(r) ==
    /\ \A q \in Requests : owner[q] = r => dispatch[q] \in {"idle", "done"}
    /\ \A q \in Requests : ~(callee[q] = r /\ answer[q] = "spawned")

\* run() returned after its last dispatch.
Quiet == \A r \in Runs : run[r] = "done" => Still(r)

IInv ==
    /\ Typed
    /\ ReverseShape /\ OverShape /\ UnstartedShape
    /\ Registered /\ WritersStay
    /\ NoReverseLeftBehind /\ HandlersAreTold
    /\ SessionIsLive /\ Quiet /\ AnswerStaysInSession

-------------------------------------------------------------------------------
\* A run is drained when none of its dispatches is under way: those of requests it
\* read and those of answers it read.
LEMMA ActiveEmpty ==
    ASSUME NEW r
    PROVE  Active(r) = {} <=> Still(r)
<1>1. ASSUME NEW q \in Requests, callee[q] = r, answer[q] = "spawned"
      PROVE  <<q>> \in Active(r)
  BY <1>1 DEF Active
<1>2. ASSUME NEW q \in Requests, owner[q] = r, dispatch[q] \notin {"idle", "done"}
      PROVE  q \in Active(r)
  BY <1>2 DEF Active
<1>3. ASSUME NEW x \in Active(r)
      PROVE  \/ \E q \in Requests : owner[q] = r /\ dispatch[q] \notin {"idle", "done"}
             \/ \E q \in Requests : callee[q] = r /\ answer[q] = "spawned"
  BY <1>3 DEF Active
<1> QED
  BY <1>1, <1>2, <1>3 DEF Still

-------------------------------------------------------------------------------
\* Every variable keeps its type through every step.
LEMMA TypeStep ==
    ASSUME Typed, [Next]_vars
    PROVE  Typed'
<1> USE NoRunAssumption DEF Typed, TypeOK, Live, Ended, serverVars, runVars, requestVars, reverseVars
<1>1. CASE UNCHANGED vars
  BY <1>1 DEF vars
<1>2. CASE Destroy
  BY <1>2 DEF Destroy, Unregistered
<1>3. ASSUME NEW r \in Runs, CallRun(r) PROVE Typed'
  BY <1>3 DEF CallRun
<1>4. ASSUME NEW r \in Runs, StartRun(r) PROVE Typed'
  BY <1>4 DEF StartRun, MayRegister
<1>5. ASSUME NEW r \in Runs, ReadGarbage(r) PROVE Typed'
  BY <1>5 DEF ReadGarbage
<1>6. ASSUME NEW r \in Runs, Reported(r) PROVE Typed'
  BY <1>6 DEF Reported
<1>7. ASSUME NEW r \in Runs, EndRead(r) PROVE Typed'
  BY <1>7 DEF EndRead, Reset, AbandonSessionWork, Unregistered
<1>8. ASSUME NEW r \in Runs, ResumeDrain(r) PROVE Typed'
  BY <1>8 DEF ResumeDrain, Reset, AbandonSessionWork, Unregistered
<1>9. ASSUME NEW r \in Runs, RunAbandon(r) PROVE Typed'
  BY <1>9 DEF RunAbandon, Reset, AbandonSessionWork, Unregistered
<1>10. ASSUME NEW r \in Runs, TransportEnds(r) PROVE Typed'
  BY <1>10 DEF TransportEnds
<1>11. ASSUME NEW r \in Runs, NEW q \in Requests, ReadRequest(r, q) PROVE Typed'
  BY <1>11 DEF ReadRequest
<1>12. ASSUME NEW r \in Runs, NEW q \in Requests, ReadAnswer(r, q) PROVE Typed'
  BY <1>12 DEF ReadAnswer
<1>13. ASSUME NEW q \in Requests, StartDispatch(q) PROVE Typed'
  BY <1>13 DEF StartDispatch, DispatchEnds, WakesDrain
<1>14. ASSUME NEW q \in Requests, HandlerReturns(q) PROVE Typed'
  BY <1>14 DEF HandlerReturns
<1>15. ASSUME NEW q \in Requests, AnswerWritten(q) PROVE Typed'
  BY <1>15 DEF AnswerWritten, DispatchEnds, WakesDrain
<1>16. ASSUME NEW q \in Requests, Ask(q) PROVE Typed'
  BY <1>16 DEF Ask
<1>17. ASSUME NEW q \in Requests, StartAsk(q) PROVE Typed'
  BY <1>17 DEF StartAsk
<1>18. ASSUME NEW q \in Requests, AskWritten(q) PROVE Typed'
  BY <1>18 DEF AskWritten, AskEnds
<1>19. ASSUME NEW q \in Requests, ResumeAsk(q) PROVE Typed'
  BY <1>19 DEF ResumeAsk, AskEnds
<1>20. ASSUME NEW q \in Requests, DispatchAnswer(q) PROVE Typed'
  BY <1>20 DEF DispatchAnswer, DispatchEnds, WakesDrain
<1> QED
  BY <1>1, <1>2, <1>3, <1>4, <1>5, <1>6, <1>7, <1>8, <1>9, <1>10, <1>11, <1>12, <1>13, <1>14, <1>15, <1>16, <1>17, <1>18, <1>19, <1>20 DEF Next

-------------------------------------------------------------------------------
\* A reverse request enters pending_requests on the strand, right before its write,
\* and leaves it when its handler goes on.
LEMMA ReverseStep ==
    ASSUME Typed, ReverseShape, [Next]_vars
    PROVE  ReverseShape'
<1> USE NoRunAssumption DEF ReverseShape, Typed, TypeOK, serverVars, runVars, requestVars, reverseVars
<1>1. CASE UNCHANGED vars
  BY <1>1 DEF vars
<1>2. CASE Destroy
  BY <1>2 DEF Destroy, Unregistered
<1>3. ASSUME NEW r \in Runs,
             CallRun(r) \/ StartRun(r) \/ ReadGarbage(r) \/ Reported(r) \/
             EndRead(r) \/ ResumeDrain(r) \/ RunAbandon(r) \/ TransportEnds(r)
      PROVE ReverseShape'
  BY <1>3 DEF CallRun, StartRun, MayRegister, ReadGarbage, Reported, EndRead, Reset,
     AbandonSessionWork, Unregistered, ResumeDrain, RunAbandon, TransportEnds
<1>4. ASSUME NEW r \in Runs, NEW q \in Requests, ReadAnswer(r, q) PROVE ReverseShape'
  BY <1>4 DEF ReadAnswer
<1>5. ASSUME NEW r \in Runs, NEW q \in Requests, ReadRequest(r, q) PROVE ReverseShape'
  BY <1>5 DEF ReadRequest
<1>6. ASSUME NEW q \in Requests, StartDispatch(q) PROVE ReverseShape'
  BY <1>6 DEF StartDispatch
<1>7. ASSUME NEW q \in Requests, HandlerReturns(q) PROVE ReverseShape'
  BY <1>7 DEF HandlerReturns
<1>8. ASSUME NEW q \in Requests, Ask(q) PROVE ReverseShape'
  BY <1>8 DEF Ask
<1>9. ASSUME NEW q \in Requests, StartAsk(q) PROVE ReverseShape'
  BY <1>9 DEF StartAsk, Refused
<1>10. ASSUME NEW q \in Requests, AskWritten(q) PROVE ReverseShape'
  BY <1>10 DEF AskWritten, AskEnds
<1>11. ASSUME NEW q \in Requests, ResumeAsk(q) PROVE ReverseShape'
  BY <1>11 DEF ResumeAsk, AskEnds
<1>12. ASSUME NEW q \in Requests, DispatchAnswer(q) PROVE ReverseShape'
  BY <1>12 DEF DispatchAnswer
<1>13. ASSUME NEW q \in Requests, AnswerWritten(q) PROVE ReverseShape'
  BY <1>13 DEF AnswerWritten
<1> QED
  BY <1>1, <1>2, <1>3, <1>4, <1>5, <1>6, <1>7, <1>8, <1>9, <1>10, <1>11, <1>12, <1>13 DEF Next

\* Every way into the teardown sets Session::stopping first, and the strand has run
\* what was spawned before.
LEMMA OverStep ==
    ASSUME Typed, OverShape, [Next]_vars
    PROVE  OverShape'
<1> USE NoRunAssumption DEF OverShape, Over, Typed, TypeOK, serverVars, runVars, requestVars, reverseVars
<1>1. CASE UNCHANGED vars
  BY <1>1 DEF vars
<1>2. CASE Destroy
  BY <1>2 DEF Destroy, Unregistered
<1>3. ASSUME NEW r \in Runs, StartRun(r) PROVE OverShape'
  BY <1>3 DEF StartRun, MayRegister
<1>4. ASSUME NEW r \in Runs, EndRead(r) PROVE OverShape'
  BY <1>4 DEF EndRead, Reset, AbandonSessionWork, Unregistered
<1>5. ASSUME NEW r \in Runs, ResumeDrain(r) PROVE OverShape'
  BY <1>5 DEF ResumeDrain, Reset, Unregistered
<1>6. ASSUME NEW r \in Runs,
             CallRun(r) \/ ReadGarbage(r) \/ Reported(r) \/ RunAbandon(r) \/
             TransportEnds(r)
      PROVE OverShape'
  BY <1>6 DEF CallRun, ReadGarbage, Reported, RunAbandon, Reset, AbandonSessionWork,
     Unregistered, TransportEnds
<1>7. ASSUME NEW r \in Runs, NEW q \in Requests, ReadRequest(r, q) PROVE OverShape'
  BY <1>7 DEF ReadRequest
<1>8. ASSUME NEW r \in Runs, NEW q \in Requests, ReadAnswer(r, q) PROVE OverShape'
  BY <1>8 DEF ReadAnswer
<1>9. ASSUME NEW q \in Requests, StartDispatch(q) PROVE OverShape'
  BY <1>9 DEF StartDispatch
<1>10. ASSUME NEW q \in Requests,
             HandlerReturns(q) \/ AnswerWritten(q) \/ Ask(q) \/ StartAsk(q) \/
             AskWritten(q) \/ ResumeAsk(q) \/ DispatchAnswer(q)
      PROVE OverShape'
  BY <1>10 DEF HandlerReturns, AnswerWritten, Ask, StartAsk, Refused, AskWritten,
     AskEnds, ResumeAsk, DispatchAnswer
<1> QED
  BY <1>1, <1>2, <1>3, <1>4, <1>5, <1>6, <1>7, <1>8, <1>9, <1>10 DEF Next

\* The writer is chosen when the dispatch starts, the answer when it ends.
LEMMA UnstartedStep ==
    ASSUME Typed, UnstartedShape, [Next]_vars
    PROVE  UnstartedShape'
<1> USE NoRunAssumption DEF UnstartedShape, Typed, TypeOK, serverVars, runVars, requestVars, reverseVars
<1>1. CASE UNCHANGED vars
  BY <1>1 DEF vars
<1>2. CASE Destroy
  BY <1>2 DEF Destroy, Unregistered
<1>3. ASSUME NEW r \in Runs,
             CallRun(r) \/ StartRun(r) \/ ReadGarbage(r) \/ Reported(r) \/
             EndRead(r) \/ ResumeDrain(r) \/ RunAbandon(r) \/ TransportEnds(r)
      PROVE UnstartedShape'
  BY <1>3 DEF CallRun, StartRun, MayRegister, ReadGarbage, Reported, EndRead, Reset,
     AbandonSessionWork, Unregistered, ResumeDrain, RunAbandon, TransportEnds
<1>4. ASSUME NEW r \in Runs, NEW q \in Requests, ReadRequest(r, q) PROVE UnstartedShape'
  BY <1>4 DEF ReadRequest
<1>5. ASSUME NEW r \in Runs, NEW q \in Requests, ReadAnswer(r, q) PROVE UnstartedShape'
  BY <1>5 DEF ReadAnswer
<1>6. ASSUME NEW q \in Requests, StartDispatch(q) PROVE UnstartedShape'
  BY <1>6 DEF StartDispatch
<1>7. ASSUME NEW q \in Requests, HandlerReturns(q) PROVE UnstartedShape'
  BY <1>7 DEF HandlerReturns
<1>8. ASSUME NEW q \in Requests,
             AnswerWritten(q) \/ Ask(q) \/ StartAsk(q) \/ AskWritten(q) \/
             ResumeAsk(q) \/ DispatchAnswer(q)
      PROVE UnstartedShape'
  BY <1>8 DEF AnswerWritten, Ask, StartAsk, Refused, AskWritten, AskEnds, ResumeAsk,
     DispatchAnswer
<1> QED
  BY <1>1, <1>2, <1>3, <1>4, <1>5, <1>6, <1>7, <1>8 DEF Next

\* run_session refuses a second session, and reset_session forgets its own only.
LEMMA RegisteredStep ==
    ASSUME Typed, Registered, [Next]_vars
    PROVE  Registered'
<1> USE NoRunAssumption DEF Registered, Live, Typed, TypeOK, serverVars, runVars, requestVars, reverseVars
<1>1. CASE UNCHANGED vars
  BY <1>1 DEF vars
<1>2. CASE Destroy
  BY <1>2 DEF Destroy, Unregistered
<1>3. ASSUME NEW r \in Runs, StartRun(r) PROVE Registered'
  BY <1>3 DEF StartRun, MayRegister
<1>4. ASSUME NEW r \in Runs, EndRead(r) PROVE Registered'
  BY <1>4 DEF EndRead, Reset, AbandonSessionWork, Unregistered
<1>5. ASSUME NEW r \in Runs, ResumeDrain(r) PROVE Registered'
  BY <1>5 DEF ResumeDrain, Reset, Unregistered
<1>6. ASSUME NEW r \in Runs,
             CallRun(r) \/ ReadGarbage(r) \/ Reported(r) \/ RunAbandon(r) \/
             TransportEnds(r)
      PROVE Registered'
  BY <1>6 DEF CallRun, ReadGarbage, Reported, RunAbandon, Reset, AbandonSessionWork,
     Unregistered, TransportEnds
<1>7. ASSUME NEW r \in Runs, NEW q \in Requests,
             ReadRequest(r, q) \/ ReadAnswer(r, q)
      PROVE Registered'
  BY <1>7 DEF ReadRequest, ReadAnswer
<1>8. ASSUME NEW q \in Requests,
             StartDispatch(q) \/ HandlerReturns(q) \/ AnswerWritten(q) \/ Ask(q) \/
             StartAsk(q) \/ AskWritten(q) \/ ResumeAsk(q) \/ DispatchAnswer(q)
      PROVE Registered'
  BY <1>8 DEF StartDispatch, HandlerReturns, AnswerWritten, Ask, StartAsk, Refused,
     AskWritten, AskEnds, ResumeAsk, DispatchAnswer
<1> QED
  BY <1>1, <1>2, <1>3, <1>4, <1>5, <1>6, <1>7, <1>8 DEF Next

\* A dispatch starts while the session that read its request is registered.
LEMMA WritersStep ==
    ASSUME Typed, OverShape, UnstartedShape, Registered, WritersStay, [Next]_vars
    PROVE  WritersStay'
<1> USE NoRunAssumption DEF OverShape, UnstartedShape, Registered, WritersStay, Live, Typed, TypeOK, serverVars, runVars, requestVars, reverseVars
<1>1. CASE UNCHANGED vars
  BY <1>1 DEF vars
<1>2. CASE Destroy
  BY <1>2 DEF Destroy, Unregistered
<1>3. ASSUME NEW r \in Runs,
             CallRun(r) \/ StartRun(r) \/ ReadGarbage(r) \/ Reported(r) \/
             EndRead(r) \/ ResumeDrain(r) \/ RunAbandon(r) \/ TransportEnds(r)
      PROVE WritersStay'
  BY <1>3 DEF CallRun, StartRun, MayRegister, ReadGarbage, Reported, EndRead, Reset,
     AbandonSessionWork, Unregistered, ResumeDrain, RunAbandon, TransportEnds
<1>4. ASSUME NEW r \in Runs, NEW q \in Requests, ReadRequest(r, q) PROVE WritersStay'
  BY <1>4 DEF ReadRequest
<1>5. ASSUME NEW r \in Runs, NEW q \in Requests, ReadAnswer(r, q) PROVE WritersStay'
  BY <1>5 DEF ReadAnswer
<1>6. ASSUME NEW q \in Requests, StartDispatch(q) PROVE WritersStay'
  BY <1>6 DEF StartDispatch
<1>7. ASSUME NEW q \in Requests,
             HandlerReturns(q) \/ AnswerWritten(q) \/ Ask(q) \/ StartAsk(q) \/
             AskWritten(q) \/ ResumeAsk(q) \/ DispatchAnswer(q)
      PROVE WritersStay'
  BY <1>7 DEF HandlerReturns, AnswerWritten, Ask, StartAsk, Refused, AskWritten,
     AskEnds, ResumeAsk, DispatchAnswer
<1> QED
  BY <1>1, <1>2, <1>3, <1>4, <1>5, <1>6, <1>7 DEF Next

\* The teardown completes what is pending, and afterwards the look at `stopping` on
\* the strand refuses what would become pending.
LEMMA ReverseLeftStep ==
    ASSUME Typed, ReverseShape, OverShape, NoReverseLeftBehind, [Next]_vars
    PROVE  NoReverseLeftBehind'
<1> USE NoRunAssumption DEF ReverseShape, OverShape, Over, NoReverseLeftBehind, Typed, TypeOK, serverVars, runVars, requestVars, reverseVars
<1>1. CASE UNCHANGED vars
  BY <1>1 DEF vars
<1>2. CASE Destroy
  BY <1>2 DEF Destroy, Unregistered
<1>3. ASSUME NEW r \in Runs, EndRead(r) PROVE NoReverseLeftBehind'
  BY <1>3 DEF EndRead, Reset, AbandonSessionWork, Unregistered
<1>4. ASSUME NEW r \in Runs, ResumeDrain(r) PROVE NoReverseLeftBehind'
  BY <1>4 DEF ResumeDrain, Reset, Unregistered
<1>5. ASSUME NEW r \in Runs, RunAbandon(r) PROVE NoReverseLeftBehind'
  BY <1>5 DEF RunAbandon, Reset, AbandonSessionWork, Unregistered
<1>6. ASSUME NEW r \in Runs,
             CallRun(r) \/ StartRun(r) \/ ReadGarbage(r) \/ Reported(r) \/
             TransportEnds(r)
      PROVE NoReverseLeftBehind'
  BY <1>6 DEF CallRun, StartRun, MayRegister, ReadGarbage, Reported, TransportEnds
<1>7. ASSUME NEW r \in Runs, NEW q \in Requests,
             ReadRequest(r, q) \/ ReadAnswer(r, q)
      PROVE NoReverseLeftBehind'
  BY <1>7 DEF ReadRequest, ReadAnswer
<1>8. ASSUME NEW q \in Requests, Ask(q) PROVE NoReverseLeftBehind'
  BY <1>8 DEF Ask
<1>9. ASSUME NEW q \in Requests, StartAsk(q) PROVE NoReverseLeftBehind'
  BY <1>9 DEF StartAsk, Refused
<1>10. ASSUME NEW q \in Requests, AskWritten(q) PROVE NoReverseLeftBehind'
  BY <1>10 DEF AskWritten, AskEnds
<1>11. ASSUME NEW q \in Requests, ResumeAsk(q) PROVE NoReverseLeftBehind'
  BY <1>11 DEF ResumeAsk, AskEnds
<1>12. ASSUME NEW q \in Requests, DispatchAnswer(q) PROVE NoReverseLeftBehind'
  BY <1>12 DEF DispatchAnswer
<1>13. ASSUME NEW q \in Requests,
             StartDispatch(q) \/ HandlerReturns(q) \/ AnswerWritten(q)
      PROVE NoReverseLeftBehind'
  BY <1>13 DEF StartDispatch, HandlerReturns, AnswerWritten
<1> QED
  BY <1>1, <1>2, <1>3, <1>4, <1>5, <1>6, <1>7, <1>8, <1>9, <1>10, <1>11, <1>12, <1>13 DEF Next

\* The teardown tells every handler in in_flight, and none enters it afterwards.
LEMMA HandlersToldStep ==
    ASSUME Typed, OverShape, HandlersAreTold, [Next]_vars
    PROVE  HandlersAreTold'
<1> USE NoRunAssumption DEF OverShape, HandlersAreTold, Typed, TypeOK, serverVars, runVars, requestVars, reverseVars
<1>1. CASE UNCHANGED vars
  BY <1>1 DEF vars
<1>2. CASE Destroy
  BY <1>2 DEF Destroy, Unregistered
<1>3. ASSUME NEW r \in Runs, EndRead(r) PROVE HandlersAreTold'
  BY <1>3 DEF EndRead, Reset, AbandonSessionWork, Unregistered
<1>4. ASSUME NEW r \in Runs, RunAbandon(r) PROVE HandlersAreTold'
  BY <1>4 DEF RunAbandon, Reset, AbandonSessionWork, Unregistered
<1>5. ASSUME NEW r \in Runs,
             CallRun(r) \/ StartRun(r) \/ ReadGarbage(r) \/ Reported(r) \/
             ResumeDrain(r) \/ TransportEnds(r)
      PROVE HandlersAreTold'
  BY <1>5 DEF CallRun, StartRun, MayRegister, ReadGarbage, Reported, ResumeDrain,
     Reset, Unregistered, TransportEnds
<1>6. ASSUME NEW r \in Runs, NEW q \in Requests, ReadRequest(r, q) PROVE HandlersAreTold'
  BY <1>6 DEF ReadRequest
<1>7. ASSUME NEW r \in Runs, NEW q \in Requests, ReadAnswer(r, q) PROVE HandlersAreTold'
  BY <1>7 DEF ReadAnswer
<1>8. ASSUME NEW q \in Requests, StartDispatch(q) PROVE HandlersAreTold'
  BY <1>8 DEF StartDispatch
<1>9. ASSUME NEW q \in Requests, HandlerReturns(q) PROVE HandlersAreTold'
  BY <1>9 DEF HandlerReturns
<1>10. ASSUME NEW q \in Requests,
             AnswerWritten(q) \/ Ask(q) \/ StartAsk(q) \/ AskWritten(q) \/
             ResumeAsk(q) \/ DispatchAnswer(q)
      PROVE HandlersAreTold'
  BY <1>10 DEF AnswerWritten, Ask, StartAsk, Refused, AskWritten, AskEnds, ResumeAsk,
     DispatchAnswer
<1> QED
  BY <1>1, <1>2, <1>3, <1>4, <1>5, <1>6, <1>7, <1>8, <1>9, <1>10 DEF Next

\* Whoever leaves the read loop for good unregisters its session in the same step
\* or stays in its drain.
LEMMA LiveStep ==
    ASSUME Typed, SessionIsLive, [Next]_vars
    PROVE  SessionIsLive'
<1> USE NoRunAssumption DEF SessionIsLive, Live, Typed, TypeOK, serverVars, runVars, requestVars, reverseVars
<1>1. CASE UNCHANGED vars
  BY <1>1 DEF vars
<1>2. CASE Destroy
  BY <1>2 DEF Destroy, Unregistered
<1>3. ASSUME NEW r \in Runs, StartRun(r) PROVE SessionIsLive'
  BY <1>3 DEF StartRun, MayRegister
<1>4. ASSUME NEW r \in Runs, EndRead(r) PROVE SessionIsLive'
  BY <1>4 DEF EndRead, Reset, AbandonSessionWork, Unregistered
<1>5. ASSUME NEW r \in Runs, ResumeDrain(r) PROVE SessionIsLive'
  BY <1>5 DEF ResumeDrain, Reset, Unregistered
<1>6. ASSUME NEW r \in Runs,
             CallRun(r) \/ ReadGarbage(r) \/ Reported(r) \/ RunAbandon(r) \/
             TransportEnds(r)
      PROVE SessionIsLive'
  BY <1>6 DEF CallRun, ReadGarbage, Reported, RunAbandon, Reset, AbandonSessionWork,
     Unregistered, TransportEnds
<1>7. ASSUME NEW r \in Runs, NEW q \in Requests,
             ReadRequest(r, q) \/ ReadAnswer(r, q)
      PROVE SessionIsLive'
  BY <1>7 DEF ReadRequest, ReadAnswer
<1>8. ASSUME NEW q \in Requests,
             StartDispatch(q) \/ HandlerReturns(q) \/ AnswerWritten(q) \/ Ask(q) \/
             StartAsk(q) \/ AskWritten(q) \/ ResumeAsk(q) \/ DispatchAnswer(q)
      PROVE SessionIsLive'
  BY <1>8 DEF StartDispatch, HandlerReturns, AnswerWritten, Ask, StartAsk, Refused,
     AskWritten, AskEnds, ResumeAsk, DispatchAnswer
<1> QED
  BY <1>1, <1>2, <1>3, <1>4, <1>5, <1>6, <1>7, <1>8 DEF Next

\* Nothing is read for a run that returned, and no handler can ask on its session.
LEMMA QuietStep ==
    ASSUME Typed, ReverseShape, OverShape, SessionIsLive, Quiet, [Next]_vars
    PROVE  Quiet'
<1> USE NoRunAssumption DEF ReverseShape, OverShape, Over, SessionIsLive, Live, Quiet, Still, Typed, TypeOK, serverVars, runVars, requestVars, reverseVars
<1>1. CASE UNCHANGED vars
  BY <1>1 DEF vars
<1>2. CASE Destroy
  BY <1>2 DEF Destroy, Unregistered
<1>3. ASSUME NEW r \in Runs, EndRead(r) PROVE Quiet'
  <2>1. Drained(r) <=> Still(r)
    BY ActiveEmpty DEF Drained
  <2> QED
    BY <1>3, <2>1 DEF EndRead, Reset, AbandonSessionWork, Unregistered, Still
<1>4. ASSUME NEW r \in Runs, ResumeDrain(r) PROVE Quiet'
  <2>1. Drained(r) <=> Still(r)
    BY ActiveEmpty DEF Drained
  <2> QED
    BY <1>4, <2>1 DEF ResumeDrain, Reset, Unregistered, Still
<1>5. ASSUME NEW r \in Runs,
             CallRun(r) \/ StartRun(r) \/ ReadGarbage(r) \/ Reported(r) \/
             RunAbandon(r) \/ TransportEnds(r)
      PROVE Quiet'
  BY <1>5 DEF CallRun, StartRun, MayRegister, ReadGarbage, Reported, RunAbandon, Reset,
     AbandonSessionWork, Unregistered, TransportEnds
<1>6. ASSUME NEW r \in Runs, NEW q \in Requests, ReadRequest(r, q) PROVE Quiet'
  BY <1>6 DEF ReadRequest
<1>7. ASSUME NEW r \in Runs, NEW q \in Requests, ReadAnswer(r, q) PROVE Quiet'
  BY <1>7 DEF ReadAnswer
<1>8. ASSUME NEW q \in Requests, StartDispatch(q) PROVE Quiet'
  BY <1>8 DEF StartDispatch
<1>9. ASSUME NEW q \in Requests, AnswerWritten(q) PROVE Quiet'
  BY <1>9 DEF AnswerWritten
<1>10. ASSUME NEW q \in Requests, Ask(q) PROVE Quiet'
  BY <1>10 DEF Ask
<1>11. ASSUME NEW q \in Requests, DispatchAnswer(q) PROVE Quiet'
  BY <1>11 DEF DispatchAnswer
<1>12. ASSUME NEW q \in Requests,
             HandlerReturns(q) \/ StartAsk(q) \/ AskWritten(q) \/ ResumeAsk(q)
      PROVE Quiet'
  BY <1>12 DEF HandlerReturns, StartAsk, Refused, AskWritten, AskEnds, ResumeAsk
<1> QED
  BY <1>1, <1>2, <1>3, <1>4, <1>5, <1>6, <1>7, <1>8, <1>9, <1>10, <1>11, <1>12 DEF Next

\* An answer is written on the writer its dispatch took when it started.
LEMMA AnswerStep ==
    ASSUME Typed, UnstartedShape, WritersStay, AnswerStaysInSession, [Next]_vars
    PROVE  AnswerStaysInSession'
<1> USE NoRunAssumption DEF UnstartedShape, WritersStay, AnswerStaysInSession, Typed, TypeOK, serverVars, runVars, requestVars, reverseVars
<1>1. CASE UNCHANGED vars
  BY <1>1 DEF vars
<1>2. CASE Destroy
  BY <1>2 DEF Destroy, Unregistered
<1>3. ASSUME NEW r \in Runs, EndRead(r) PROVE AnswerStaysInSession'
  BY <1>3 DEF EndRead, Reset, AbandonSessionWork, Unregistered
<1>4. ASSUME NEW r \in Runs,
             CallRun(r) \/ StartRun(r) \/ ReadGarbage(r) \/ Reported(r) \/
             ResumeDrain(r) \/ RunAbandon(r) \/ TransportEnds(r)
      PROVE AnswerStaysInSession'
  BY <1>4 DEF CallRun, StartRun, MayRegister, ReadGarbage, Reported, ResumeDrain,
     Reset, Unregistered, RunAbandon, AbandonSessionWork, TransportEnds
<1>5. ASSUME NEW r \in Runs, NEW q \in Requests, ReadRequest(r, q) PROVE AnswerStaysInSession'
  BY <1>5 DEF ReadRequest
<1>6. ASSUME NEW r \in Runs, NEW q \in Requests, ReadAnswer(r, q) PROVE AnswerStaysInSession'
  BY <1>6 DEF ReadAnswer
<1>7. ASSUME NEW q \in Requests, HandlerReturns(q) PROVE AnswerStaysInSession'
  BY <1>7 DEF HandlerReturns
<1>8. ASSUME NEW q \in Requests,
             StartDispatch(q) \/ AnswerWritten(q) \/ Ask(q) \/ StartAsk(q) \/
             AskWritten(q) \/ ResumeAsk(q) \/ DispatchAnswer(q)
      PROVE AnswerStaysInSession'
  BY <1>8 DEF StartDispatch, AnswerWritten, Ask, StartAsk, Refused, AskWritten,
     AskEnds, ResumeAsk, DispatchAnswer
<1> QED
  BY <1>1, <1>2, <1>3, <1>4, <1>5, <1>6, <1>7, <1>8 DEF Next

\* The initial states: no run has begun.
LEMMA InitIInv == Init => IInv
<1> SUFFICES ASSUME Init PROVE IInv
  OBVIOUS
<1> USE NoRunAssumption DEF Init
<1>1. Typed
  BY DEF Typed, TypeOK
<1>2. ReverseShape /\ OverShape /\ UnstartedShape /\ Registered /\ WritersStay
  BY DEF ReverseShape, OverShape, UnstartedShape, Registered, WritersStay, Over, Live
<1>3. NoReverseLeftBehind /\ HandlersAreTold /\ SessionIsLive /\ Quiet /\ AnswerStaysInSession
  BY DEF NoReverseLeftBehind, HandlersAreTold, SessionIsLive, Quiet, AnswerStaysInSession
<1> QED
  BY <1>1, <1>2, <1>3 DEF IInv

\* Every step of the Server keeps the inductive invariant.
LEMMA StepIInv == IInv /\ [Next]_vars => IInv'
<1> SUFFICES ASSUME IInv, [Next]_vars PROVE IInv'
  OBVIOUS
<1> QED
  BY TypeStep, ReverseStep, OverStep, UnstartedStep, RegisteredStep, WritersStep,
     ReverseLeftStep, HandlersToldStep, LiveStep, QuietStep, AnswerStep DEF IInv

\* The inductive invariant holds of every state of the Server.
THEOREM Invariance == Safety => []IInv
  BY InitIInv, StepIInv, PTL DEF Safety

\* The values of the variables of a Server (server.cpp:1040-1110, Impl::Session).
THEOREM TypeCorrect == Safety => []TypeOK
<1>1. IInv => TypeOK
  BY DEF IInv, Typed
<1> QED
  BY <1>1, Invariance, PTL

\* The teardown of a session releases every handler run() waits for: a reverse
\* request of a session that ends is decided, also one that was on its way to the
\* strand meanwhile, and every handler in in_flight is told to stop.
THEOREM TeardownReleasesHandlers == Safety => []HandlersReleased
<1>1. IInv => HandlersReleased
  BY DEF IInv, HandlersReleased
<1> QED
  BY <1>1, Invariance, PTL

\* The server is never left registered for a session that is over, whatever its
\* teardown ran into, and run() returns only when none of its messages is under way.
THEOREM EndedSessionLeavesNothing == Safety => []SessionEndsClean
<1>1. Quiet => DrainedBeforeReturn
  BY ActiveEmpty DEF Quiet, Still, DrainedBeforeReturn
<1>2. IInv => SessionEndsClean
  BY <1>1 DEF IInv, SessionEndsClean
<1> QED
  BY <1>2, Invariance, PTL

\* An answer is written to the client that asked, however many runs follow each
\* other on the Server, as long as teardowns succeed and the Server lives.
THEOREM AnswersStayHome == Safety => []AnswerStaysInSession
<1>1. IInv => AnswerStaysInSession
  BY DEF IInv
<1> QED
  BY <1>1, Invariance, PTL

===============================================================================

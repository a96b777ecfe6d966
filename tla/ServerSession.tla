----------------------------- MODULE ServerSession -----------------------------
(***************************************************************************)
(* The life of a Server's sessions (src/src/server/server.cpp): run() reads  *)
(* a transport, dispatches every message in a coroutine of its own, and at   *)
(* the end abandons what is under way, closes the transport and waits for    *)
(* the dispatches.  Handlers ask the client back (reverse requests).         *)
(*                                                                           *)
(* The coroutines of a run share its strand; ~Server runs on any thread,     *)
(* one statement at a time.  Handlers, transport and client are external.    *)
(***************************************************************************)
EXTENDS FiniteSets

CONSTANTS
    Runs,           \* calls of run(), each with a transport of its own
    Requests,       \* tools/call requests of the clients, each with another id
    NoRun

ASSUME NoRunAssumption == NoRun \notin Runs

VARIABLES
    session,        \* Impl::session
    gone,           \* Impl::server_gone
    destroyer,      \* how far ~Server is
    doomed,         \* the session ~Server works on
    run,            \* how far each run_session is
    threw,          \* history: runs whose teardown failed because close() threw
    stopping,       \* runs with Session::stopping
    abandonPosted,  \* runs on whose strand reset_session's job is posted
    open,           \* runs whose transport is open
    drainWoken,     \* runs whose wait on drain_timer was ended
    owner,          \* the run that read each request
    dispatch,       \* where the dispatch of each request is
    writer,         \* the session whose writer the dispatch answers on
    inFlight,       \* the session whose in_flight holds the request
    cancelled,      \* requests whose cancellation flag is set
    callee,         \* the session the reverse request of a handler goes to
    pending,        \* reverse requests in the pending_requests of their session
    completed,      \* PendingRequest::completed
    answer,         \* the client's answer to each reverse request
    answeredOn      \* history: the session each answer was written in

serverVars == <<session, gone, destroyer, doomed>>
runVars == <<run, threw, stopping, abandonPosted, open, drainWoken>>
requestVars == <<owner, writer, inFlight, cancelled, answeredOn>>
reverseVars == <<callee, pending, completed, answer>>
vars == <<serverVars, runVars, requestVars, dispatch, reverseVars>>

Live == {"reading", "reporting", "draining"}
Ended == {"done", "failed", "refused"}

\* The values each variable of the server can hold.
TypeOK ==
    /\ session \in Runs \cup {NoRun} /\ doomed \in Runs \cup {NoRun}
    /\ gone \in BOOLEAN
    /\ destroyer \in {"none", "begun", "stopped", "posted", "closed", "done"}
    /\ run \in [Runs -> {"idle", "spawned"} \cup Live \cup Ended]
    /\ threw \subseteq Runs /\ stopping \subseteq Runs /\ abandonPosted \subseteq Runs
    /\ open \subseteq Runs /\ drainWoken \subseteq Runs
    /\ dispatch \in [Requests -> {"idle", "spawned", "handling", "asking", "askWriting", "askWaiting",
                                  "answering", "done"}]
    /\ {owner, writer, inFlight, callee, answeredOn} \subseteq [Requests -> Runs \cup {NoRun}]
    /\ cancelled \subseteq Requests /\ pending \subseteq Requests /\ completed \subseteq pending
    /\ answer \in [Requests -> {"none", "spawned", "done"}]

Init ==
    /\ session = NoRun /\ gone = FALSE /\ destroyer = "none" /\ doomed = NoRun
    /\ run = [r \in Runs |-> "idle"]
    /\ threw = {} /\ stopping = {} /\ abandonPosted = {} /\ open = Runs /\ drainWoken = {}
    /\ dispatch = [q \in Requests |-> "idle"]
    /\ owner = [q \in Requests |-> NoRun] /\ writer = owner /\ inFlight = owner
    /\ callee = owner /\ answeredOn = owner
    /\ cancelled = {} /\ pending = {} /\ completed = {}
    /\ answer = [q \in Requests |-> "none"]

\* Session::active_dispatches: messages that were read and not dealt with.
Active(r) ==
    {q \in Requests : owner[q] = r /\ dispatch[q] \notin {"idle", "done"}}
        \cup {<<q>> : q \in {p \in Requests : callee[p] = r /\ answer[p] = "spawned"}}

---------------------------------------------------------------------------
\* The read loop

\* run(): the coroutine of run_session is spawned.
CallRun(r) ==
    /\ run[r] = "idle" /\ ~gone
    /\ run' = [run EXCEPT ![r] = "spawned"]
    /\ UNCHANGED <<serverVars, threw, stopping, abandonPosted, open, drainWoken, requestVars, dispatch,
                   reverseVars>>

\* Mutant: a second run takes the place of the first.
RegistersAnyway == TRUE

\* if (this->session) throw
MayRegister == session = NoRun

\* run_session registers its session, or is refused.
StartRun(r) ==
    /\ run[r] = "spawned"
    /\ IF MayRegister
       THEN run' = [run EXCEPT ![r] = "reading"] /\ session' = r
       ELSE run' = [run EXCEPT ![r] = "refused"] /\ UNCHANGED session
    /\ UNCHANGED <<gone, destroyer, doomed, threw, stopping, abandonPosted, open, drainWoken, requestVars,
                   dispatch, reverseVars>>

\* A request was read: its dispatch is spawned, whether or not the session stops.
ReadRequest(r, q) ==
    /\ run[r] = "reading" /\ r \in open
    /\ dispatch[q] = "idle"
    /\ owner' = [owner EXCEPT ![q] = r]
    /\ dispatch' = [dispatch EXCEPT ![q] = "spawned"]
    /\ UNCHANGED <<serverVars, runVars, writer, inFlight, cancelled, answeredOn, reverseVars>>

\* The client's answer to a reverse request was read.
ReadAnswer(r, q) ==
    /\ run[r] = "reading" /\ r \in open
    /\ callee[q] = r /\ dispatch[q] \notin {"handling", "asking"}
    /\ answer[q] = "none"
    /\ answer' = [answer EXCEPT ![q] = "spawned"]
    /\ UNCHANGED <<serverVars, runVars, requestVars, dispatch, callee, pending, completed>>

\* What was read is not JSON: the loop itself writes the error.
ReadGarbage(r) ==
    /\ run[r] = "reading" /\ r \in open
    /\ run' = [run EXCEPT ![r] = "reporting"]
    /\ UNCHANGED <<serverVars, threw, stopping, abandonPosted, open, drainWoken, requestVars, dispatch,
                   reverseVars>>

\* The error was written.
Reported(r) ==
    /\ run[r] = "reporting" /\ r \in open
    /\ run' = [run EXCEPT ![r] = "reading"]
    /\ UNCHANGED <<serverVars, threw, stopping, abandonPosted, open, drainWoken, requestVars, dispatch,
                   reverseVars>>

---------------------------------------------------------------------------
\* The end of a session

\* Mutant: only the reverse requests are abandoned.
AbandonedQuietly(r) ==
    /\ completed' = completed \cup {q \in pending : callee[q] = r}
    /\ UNCHANGED cancelled

\* abandon_session_work: the handlers are told to stop, their reverse requests fail.
AbandonSessionWork(r) ==
    /\ cancelled' = cancelled \cup {q \in Requests : inFlight[q] = r}
    /\ completed' = completed \cup {q \in pending : callee[q] = r}

\* Mutant: a session whose teardown failed stays registered.
StaysAfterThrow(r) == IF session = r /\ r \notin threw' THEN NoRun ELSE session

\* The end of reset_session: the server is free for the next run().
Unregistered(r) == IF session = r THEN NoRun ELSE session

\* Mutant: run() does not wait for its dispatches.
DrainedAtOnce(r) == TRUE

\* active_dispatches == 0
Drained(r) == Active(r) = {}

\* run_session is through: reset_session, on the strand.  close() may throw, which
\* reset_session swallows.
Reset(r, how) ==
    /\ run' = [run EXCEPT ![r] = how]
    /\ abandonPosted' = abandonPosted \cup {r}
    /\ session' = Unregistered(r)

\* The read, or the report, ends with an exception, of a closed transport or another
\* one.  The teardown follows at once, up to its wait.  The dispatches that were
\* spawned before have started: the strand runs them first.
EndRead(r) ==
    /\ run[r] \in {"reading", "reporting"}
    /\ \A q \in Requests : /\ owner[q] = r => dispatch[q] # "spawned"
                           /\ callee[q] = r => answer[q] # "spawned"
    /\ stopping' = stopping \cup {r}
    /\ AbandonSessionWork(r)
    /\ \/ /\ open' = open \ {r}
          /\ UNCHANGED threw
          /\ IF Drained(r)
             THEN Reset(r, "done")
             ELSE run' = [run EXCEPT ![r] = "draining"] /\ UNCHANGED <<abandonPosted, session>>
       \/ /\ threw' = threw \cup {r}
          /\ open' \in {open, open \ {r}}
          /\ Reset(r, "failed")
    /\ UNCHANGED <<gone, destroyer, doomed, drainWoken, owner, writer, inFlight, answeredOn, dispatch, callee,
                   pending, answer>>

\* The wait on drain_timer ends; the loop looks again.
ResumeDrain(r) ==
    /\ run[r] = "draining" /\ r \in drainWoken
    /\ drainWoken' = drainWoken \ {r}
    /\ IF Drained(r) THEN Reset(r, "done") ELSE UNCHANGED <<run, abandonPosted, session>>
    /\ UNCHANGED <<gone, destroyer, doomed, threw, stopping, open, requestVars, dispatch, reverseVars>>

\* The job reset_session posted runs on the strand.
RunAbandon(r) ==
    /\ r \in abandonPosted
    /\ abandonPosted' = abandonPosted \ {r}
    /\ AbandonSessionWork(r)
    /\ UNCHANGED <<serverVars, run, threw, stopping, open, drainWoken, owner, writer, inFlight, answeredOn,
                   dispatch, callee, pending, answer>>

\* The transport ends on its own, or by somebody who shares it.
TransportEnds(r) ==
    /\ r \in open
    /\ open' = open \ {r}
    /\ UNCHANGED <<serverVars, run, threw, stopping, abandonPosted, drainWoken, requestVars, dispatch,
                   reverseVars>>

\* ~Server: server_gone, then reset_session on the session of the moment: stopping,
\* the posted job, close() and the unregistering, each a statement of its own.
Destroy ==
    /\ \/ /\ destroyer = "none"
          /\ gone' = TRUE /\ doomed' = session
          /\ destroyer' = IF session = NoRun THEN "done" ELSE "begun"
          /\ UNCHANGED <<session, stopping, abandonPosted, open>>
       \/ /\ destroyer = "begun" /\ destroyer' = "stopped"
          /\ stopping' = stopping \cup {doomed}
          /\ UNCHANGED <<session, gone, doomed, abandonPosted, open>>
       \/ /\ destroyer = "stopped" /\ destroyer' = "posted"
          /\ abandonPosted' = abandonPosted \cup {doomed}
          /\ UNCHANGED <<session, gone, doomed, stopping, open>>
       \/ /\ destroyer = "posted" /\ destroyer' = "closed"
          /\ open' \in {open, open \ {doomed}}
          /\ UNCHANGED <<session, gone, doomed, stopping, abandonPosted>>
       \/ /\ destroyer = "closed" /\ destroyer' = "done"
          /\ session' = Unregistered(doomed)
          /\ UNCHANGED <<gone, doomed, stopping, abandonPosted, open>>
    /\ UNCHANGED <<run, threw, drainWoken, requestVars, dispatch, reverseVars>>

---------------------------------------------------------------------------
\* The dispatch of a request

\* Mutant: fetch_sub is taken for the number of dispatches that remain.
WakesNever(r, m) == Active(r) = {}

\* remaining == 0 && stopping: the last dispatch ends the wait of run_session.
WakesDrain(r, m) == Active(r) = {m} /\ r \in stopping

\* The dispatch m of run r is over.
DispatchEnds(r, m) == drainWoken' = IF WakesDrain(r, m) THEN drainWoken \cup {r} ELSE drainWoken

\* dispatch_request starts, up to the handler.  Each look at the session takes the
\* one of the moment: ~Server may unregister it between the two.
StartDispatch(q) ==
    /\ dispatch[q] = "spawned"
    /\ IF session = NoRun
       THEN /\ dispatch' = [dispatch EXCEPT ![q] = "done"]
            /\ DispatchEnds(owner[q], q)
            /\ UNCHANGED <<writer, inFlight>>
       ELSE /\ dispatch' = [dispatch EXCEPT ![q] = "handling"]
            /\ writer' = [writer EXCEPT ![q] = session]
            /\ \E s \in {session} \cup (IF destroyer = "closed" THEN {NoRun} ELSE {}) :
                  inFlight' = [inFlight EXCEPT ![q] = s]
            /\ UNCHANGED drainWoken
    /\ UNCHANGED <<serverVars, run, threw, stopping, abandonPosted, open, owner, cancelled, answeredOn,
                   reverseVars>>

\* The handler returns or throws, and the answer goes to the writer.
HandlerReturns(q) ==
    /\ dispatch[q] = "handling"
    /\ dispatch' = [dispatch EXCEPT ![q] = "answering"]
    /\ inFlight' = [inFlight EXCEPT ![q] = NoRun]
    /\ answeredOn' = [answeredOn EXCEPT ![q] = writer[q]]
    /\ UNCHANGED <<serverVars, runVars, owner, writer, cancelled, reverseVars>>

\* The answer is written, or the write fails; it does at the latest when the
\* transport is closed.
AnswerWritten(q) ==
    /\ dispatch[q] = "answering"
    /\ dispatch' = [dispatch EXCEPT ![q] = "done"]
    /\ DispatchEnds(owner[q], q)
    /\ UNCHANGED <<serverVars, run, threw, stopping, abandonPosted, open, requestVars, reverseVars>>

---------------------------------------------------------------------------
\* Reverse requests

\* Context::send_request of a handler, once each: refused when the Server is gone
\* or no session can take it, or spawned on the session's strand.
Ask(q) ==
    /\ dispatch[q] = "handling" /\ callee[q] = NoRun
    /\ ~gone /\ session # NoRun /\ session \notin stopping
    /\ callee' = [callee EXCEPT ![q] = session]
    /\ dispatch' = [dispatch EXCEPT ![q] = "asking"]
    /\ UNCHANGED <<serverVars, runVars, requestVars, pending, completed, answer>>

\* Mutant: `stopping` is not looked at again on the strand.
RefusedNever(q) == FALSE

\* The look at `stopping` on the strand.
Refused(q) == callee[q] \in stopping

\* await_reverse_response_on_strand up to its write.
StartAsk(q) ==
    /\ dispatch[q] = "asking"
    /\ IF Refused(q)
       THEN dispatch' = [dispatch EXCEPT ![q] = "handling"] /\ UNCHANGED pending
       ELSE dispatch' = [dispatch EXCEPT ![q] = "askWriting"] /\ pending' = pending \cup {q}
    /\ UNCHANGED <<serverVars, runVars, requestVars, callee, completed, answer>>

\* The reverse request leaves pending_requests and its handler goes on.
AskEnds(q) ==
    /\ dispatch' = [dispatch EXCEPT ![q] = "handling"]
    /\ pending' = pending \ {q}
    /\ completed' = completed \ {q}

\* The write of the reverse request ends: it failed, or was decided meanwhile, or
\* the wait begins.
AskWritten(q) ==
    /\ dispatch[q] = "askWriting"
    /\ \/ AskEnds(q)
       \/ /\ q \notin completed
          /\ dispatch' = [dispatch EXCEPT ![q] = "askWaiting"]
          /\ UNCHANGED <<pending, completed>>
    /\ UNCHANGED <<serverVars, runVars, requestVars, callee, answer>>

\* The wait ends: whoever completes a reverse request cancels its timer.
ResumeAsk(q) ==
    /\ dispatch[q] = "askWaiting" /\ q \in completed
    /\ AskEnds(q)
    /\ UNCHANGED <<serverVars, runVars, requestVars, callee, answer>>

\* dispatch_response: the answer is matched in the session of the moment.
DispatchAnswer(q) ==
    /\ answer[q] = "spawned"
    /\ answer' = [answer EXCEPT ![q] = "done"]
    /\ completed' = IF q \in pending /\ callee[q] = session THEN completed \cup {q} ELSE completed
    /\ DispatchEnds(callee[q], <<q>>)
    /\ UNCHANGED <<serverVars, run, threw, stopping, abandonPosted, open, requestVars, dispatch, callee,
                   pending>>

Next ==
    \/ Destroy
    \/ \E r \in Runs : \/ CallRun(r) \/ StartRun(r) \/ ReadGarbage(r) \/ Reported(r) \/ EndRead(r)
                       \/ ResumeDrain(r) \/ RunAbandon(r) \/ TransportEnds(r)
    \/ \E r \in Runs, q \in Requests : ReadRequest(r, q) \/ ReadAnswer(r, q)
    \/ \E q \in Requests : \/ StartDispatch(q) \/ HandlerReturns(q) \/ AnswerWritten(q)
                           \/ Ask(q) \/ StartAsk(q) \/ AskWritten(q) \/ ResumeAsk(q) \/ DispatchAnswer(q)

\* The strand runs what is posted, a handler that waits for nobody returns, and what
\* was begun on a closed transport ends.  The client owes no answer.
Fairness ==
    /\ \A r \in Runs : /\ WF_vars(StartRun(r)) /\ WF_vars(ResumeDrain(r)) /\ WF_vars(RunAbandon(r))
                       /\ WF_vars(r \notin open /\ EndRead(r))
    /\ \A q \in Requests : /\ WF_vars(StartDispatch(q)) /\ WF_vars(HandlerReturns(q))
                           /\ WF_vars(writer[q] \notin open /\ AnswerWritten(q))
                           /\ WF_vars(StartAsk(q)) /\ WF_vars(ResumeAsk(q)) /\ WF_vars(DispatchAnswer(q))
                           /\ WF_vars(callee[q] \notin open /\ AskWritten(q))

Safety == Init /\ [][Next]_vars
Spec == Safety /\ Fairness

---------------------------------------------------------------------------
\* A handler cannot wait for a client that is gone: once the teardown has begun its
\* wait, every reverse request of the session is decided, also one that was on its
\* way to the strand meanwhile.
NoReverseLeftBehind ==
    \A q \in pending : run[callee[q]] \in {"draining", "done", "failed"} => q \in completed

\* While run() waits for its handlers, each one it holds in in_flight has been told
\* to stop, whoever began the end of the session.
HandlersAreTold ==
    \A r \in Runs, q \in Requests :
        run[r] = "draining" /\ owner[q] = r /\ inFlight[q] = r => q \in cancelled

\* The teardown releases every handler it is going to wait for.
HandlersReleased == NoReverseLeftBehind /\ HandlersAreTold

\* The server is never left registered for a session that is over, whatever its
\* teardown ran into: the next run() is not refused.
SessionIsLive == session # NoRun => run[session] \in Live

\* run() returns only when no message it read is under way any more.
DrainedBeforeReturn == \A r \in Runs : run[r] = "done" => Active(r) = {}

\* A session that is over leaves nothing of itself behind (server.cpp:1040-1100).
SessionEndsClean == SessionIsLive /\ DrainedBeforeReturn

\* An answer goes to the client that asked, as long as teardowns succeed and the
\* Server lives.
AnswerStaysInSession ==
    ~gone /\ threw = {} => \A q \in Requests : answeredOn[q] \in {NoRun, owner[q]}

\* Once the transports are closed every run() ends, although no client answers the
\* reverse requests under way.
RunEnds == \A r \in Runs : run[r] \in Live /\ open = {} ~> run[r] \in Ended
=============================================================================

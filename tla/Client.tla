--------------------------------- MODULE Client ---------------------------------
(***************************************************************************)
(* mcp::Client (src/src/client/client.cpp) over a SerializedTransportWriter. *)
(*                                                                           *)
(* A request lives in pending_requests from send_request_wire until its      *)
(* coroutine wakes.  Five parties race to decide it: the answer, a           *)
(* notifications/cancelled of the peer, the failed write, the end of the     *)
(* connection, and the deadline.  All of them run on the client's strand,    *)
(* except close(), which any thread may call.                                *)
(***************************************************************************)
EXTENDS Naturals, Sequences

CONSTANTS
    Requests,       \* the requests the application makes
    Initialize,     \* the one connect() makes
    Notes,          \* the notifications the application sends
    Initialized,    \* the one connect() sends
    Incoming        \* the requests the peer makes of this client

ASSUME HandshakeAssumption == Initialize \in Requests /\ Initialized \in Notes

ASSUME DisjointAssumption ==
    /\ Requests \cap Notes = {}
    /\ Requests \cap Incoming = {}
    /\ Notes \cap Incoming = {}

VARIABLES
    closed,         \* Impl::closed
    closePosted,    \* request_close's job is posted and has not run
    readLoop,       \* "off" until connect() sets read_loop_started
    connect,        \* how far connect() and finish_connect are
    call,           \* where each call's coroutine is
    outcome,        \* what the call returned or threw
    table,          \* the keys of pending_requests
    entry,          \* the PendingRequest of each key
    woken,          \* entries whose timer was expired by signal_pending_request
    expired,        \* entries whose deadline has passed
    spawnedWrites,  \* write_message coroutines spawned and not yet queued
    queue, draining, drainer, cancel, status, returned, transportOpen, wire, accepted

clientVars == <<closed, closePosted, readLoop, connect, call, outcome, table, entry,
                woken, expired, spawnedWrites>>
writerVars == <<queue, draining, drainer, cancel, status, returned, transportOpen, wire, accepted>>
vars == <<clientVars, writerVars>>

Ops == Requests \cup Notes \cup Incoming

Writer == INSTANCE SerializedWriter

Answers == {"rpcError", "cancelled"}
Failures == {"timeout", "closed", "writeFailed"}
NoEntry == [completed |-> FALSE, result |-> FALSE, error |-> "none", writeError |-> FALSE]
Entries == [completed : BOOLEAN, result : BOOLEAN, writeError : BOOLEAN,
            error : Answers \cup {"none", "closed"}]

\* The values each variable of the client can hold.
TypeOK ==
    /\ closed \in BOOLEAN /\ closePosted \in BOOLEAN
    /\ readLoop \in {"off", "running", "stopped"}
    /\ connect \in {"none", "requesting", "notifying", "connected", "failed"}
    /\ call \in [Ops -> {"idle", "spawned", "handling", "waiting", "done"}]
    /\ outcome \in [Ops -> Answers \cup Failures \cup {"none", "result", "sent"}]
    /\ table \in SUBSET Requests /\ woken \in SUBSET Requests /\ expired \in SUBSET Requests
    /\ entry \in [Requests -> Entries]
    /\ spawnedWrites \in SUBSET Ops
    /\ Writer!TypeOK

Init ==
    /\ closed = FALSE /\ closePosted = FALSE
    /\ readLoop = "off" /\ connect = "none"
    /\ call = [o \in Ops |-> "idle"]
    /\ outcome = [o \in Ops |-> "none"]
    /\ table = {} /\ woken = {} /\ expired = {}
    /\ entry = [r \in Requests |-> NoEntry]
    /\ spawnedWrites = {}
    /\ Writer!Init

---------------------------------------------------------------------------
\* Completing an entry

\* Mutant: fail_pending_requests overwrites what is already decided.
FailedAnyway(e, why) == [e EXCEPT !.error = why, !.completed = TRUE]

\* What fail_pending_requests and complete_request_write leave of an entry.
FailedWith(e, why) ==
    IF e.completed THEN e ELSE [e EXCEPT !.error = why, !.completed = TRUE]

\* Mutant: the entries are failed but their coroutines are not signalled.
FailPendingSilently ==
    /\ entry' = [r \in Requests |->
                    IF r \in table THEN FailedWith(entry[r], "closed") ELSE entry[r]]
    /\ UNCHANGED woken

\* fail_pending_requests: every entry is decided and its coroutine woken.
FailPending ==
    /\ entry' = [r \in Requests |->
                    IF r \in table THEN FailedWith(entry[r], "closed") ELSE entry[r]]
    /\ woken' = woken \cup table

\* dispatch_response and the notifications/cancelled branch of
\* dispatch_notification: neither looks at `completed`.
Answered(e, answer) ==
    IF answer = "result"
    THEN [e EXCEPT !.result = TRUE, !.completed = TRUE]
    ELSE [e EXCEPT !.error = answer, !.completed = TRUE]

\* What send_request_wire returns or throws once its entry is decided.
OutcomeOf(e) ==
    IF e.error # "none" THEN e.error
    ELSE IF e.writeError THEN "writeFailed" ELSE "result"

\* Mutant: the flag is set but no job is posted.
RequestCloseFlagOnly ==
    /\ closed' = TRUE
    /\ closePosted' = closePosted

\* request_close: the first caller posts the job that fails the requests and
\* closes the transport.
RequestClose ==
    /\ closed' = TRUE
    /\ closePosted' = (closePosted \/ ~closed)

---------------------------------------------------------------------------
\* The application's calls

\* Client::connect: start the read loop and the initialize request.
Connect ==
    /\ ~closed
    /\ readLoop = "off"
    /\ readLoop' = "running"
    /\ connect' = "requesting"
    /\ call' = [call EXCEPT ![Initialize] = "spawned"]
    /\ UNCHANGED <<closed, closePosted, outcome, table, entry, woken, expired, spawnedWrites, writerVars>>

\* Client::send_request, ping and send_notification: refused before connect(),
\* otherwise a coroutine is spawned on the strand.
Send(o) ==
    /\ readLoop # "off"
    /\ o \in (Requests \cup Notes) \ {Initialize, Initialized}
    /\ call[o] = "idle"
    /\ call' = [call EXCEPT ![o] = "spawned"]
    /\ UNCHANGED <<closed, closePosted, readLoop, connect, outcome, table, entry, woken, expired,
                   spawnedWrites, writerVars>>

\* Client::close and ~Client, from any thread.
Close ==
    /\ ~closed
    /\ RequestClose
    /\ UNCHANGED <<readLoop, connect, call, outcome, table, entry, woken, expired, spawnedWrites, writerVars>>

---------------------------------------------------------------------------
\* The request and notification coroutines

\* Mutant: send_request_wire does not look at `closed` again on the strand.
RefusedNever == FALSE

\* The closed test at the top of send_request_wire and send_notification_wire.
Refused == closed

\* send_request_wire or send_notification_wire runs for the first time.
Start(o) ==
    /\ o \in Requests \cup Notes
    /\ call[o] = "spawned"
    /\ IF Refused
       THEN /\ call' = [call EXCEPT ![o] = "done"]
            /\ outcome' = [outcome EXCEPT ![o] = "closed"]
            /\ UNCHANGED <<table, spawnedWrites>>
       ELSE /\ call' = [call EXCEPT ![o] = "waiting"]
            /\ table' = table \cup ({o} \cap Requests)
            /\ spawnedWrites' = spawnedWrites \cup {o}
            /\ UNCHANGED outcome
    /\ UNCHANGED <<closed, closePosted, readLoop, connect, entry, woken, expired, writerVars>>

\* The spawned write_message reaches the writer's queue.
QueueWrite(o) ==
    /\ o \in spawnedWrites
    /\ spawnedWrites' = spawnedWrites \ {o}
    /\ Writer!Enqueue(o)
    /\ UNCHANGED <<closed, closePosted, readLoop, connect, call, outcome, table, entry, woken, expired>>

\* The deadline of a pending request passes.
Expire(r) ==
    /\ r \in table \ expired
    /\ expired' = expired \cup {r}
    /\ UNCHANGED <<closed, closePosted, readLoop, connect, call, outcome, table, entry, woken,
                   spawnedWrites, writerVars>>

\* Mutant: the entry of a request that timed out stays in the table.
ErasedIfDecided(r) == IF entry[r].completed THEN table \ {r} ELSE table

\* state->pending_requests.erase(iter)
Erased(r) == table \ {r}

\* Mutant: a timed out request leaves its queued write alone.
WriteLeftQueued(r) == cancel

\* The write of a request nothing else decided is cancelled unless it has begun.
WriteCancelled(r) == IF entry[r].completed THEN cancel ELSE cancel \cup {r}

\* Mutant: the timer is armed without the deadline.
WakesOnSignal(r) == r \in woken

\* timer.async_wait ends: signal_pending_request moved the expiry to now, or the
\* deadline the timer was set to has passed.
Wakes(r) == r \in woken \cup expired

\* send_request_wire wakes, by a signal or by the deadline: an entry nobody has
\* decided becomes a timeout, and the entry leaves the table.
Resume(r) ==
    /\ call[r] = "waiting"
    /\ Wakes(r)
    /\ call' = [call EXCEPT ![r] = "done"]
    /\ outcome' = [outcome EXCEPT ![r] = OutcomeOf(FailedWith(entry[r], "timeout"))]
    /\ cancel' = WriteCancelled(r)
    /\ table' = Erased(r)
    /\ entry' = [entry EXCEPT ![r] = NoEntry]
    /\ woken' = woken \ {r}
    /\ expired' = expired \ {r}
    /\ UNCHANGED <<closed, closePosted, readLoop, connect, spawnedWrites,
                   queue, draining, drainer, status, returned, transportOpen, wire, accepted>>

\* complete_request_write: a failed write decides its request unless something
\* else already has, or the deadline has passed.
RequestWriteReturned(r) ==
    /\ IF status[r] = "ok" \/ r \notin table \/ entry[r].completed \/ r \in expired
       THEN UNCHANGED <<entry, woken>>
       ELSE /\ entry' = [entry EXCEPT ![r] =
                            IF closed THEN FailedWith(@, "closed")
                            ELSE [@ EXCEPT !.writeError = TRUE, !.completed = TRUE]]
            /\ woken' = woken \cup {r}
    /\ UNCHANGED <<call, outcome>>

\* send_notification_wire and dispatch_incoming_request end with their write.
OtherWriteReturned(o) ==
    /\ call' = [call EXCEPT ![o] = "done"]
    /\ outcome' = [outcome EXCEPT ![o] =
                      IF status[o] = "ok" THEN "sent"
                      ELSE IF closed /\ o \in Notes THEN "closed" ELSE "writeFailed"]
    /\ UNCHANGED <<entry, woken>>

\* The writer reports the end of a write.
WriteReturned(o) ==
    /\ Writer!Return(o)
    /\ IF o \in Requests THEN RequestWriteReturned(o) ELSE OtherWriteReturned(o)
    /\ UNCHANGED <<closed, closePosted, readLoop, connect, table, expired, spawnedWrites>>

\* finish_connect: after the initialize answer, send notifications/initialized,
\* or close when the request failed or the version is not supported.
FinishInitialize ==
    /\ connect = "requesting"
    /\ call[Initialize] = "done"
    /\ \/ /\ outcome[Initialize] = "result"
          /\ connect' = "notifying"
          /\ call' = [call EXCEPT ![Initialized] = "spawned"]
          /\ UNCHANGED <<closed, closePosted>>
       \/ /\ connect' = "failed"
          /\ RequestClose
          /\ UNCHANGED call
    /\ UNCHANGED <<readLoop, outcome, table, entry, woken, expired, spawnedWrites, writerVars>>

\* finish_connect: the notification was sent, or its failure closes the client.
FinishConnect ==
    /\ connect = "notifying"
    /\ call[Initialized] = "done"
    /\ IF outcome[Initialized] = "sent"
       THEN connect' = "connected" /\ UNCHANGED <<closed, closePosted>>
       ELSE connect' = "failed" /\ RequestClose
    /\ UNCHANGED <<readLoop, call, outcome, table, entry, woken, expired, spawnedWrites, writerVars>>

---------------------------------------------------------------------------
\* The read loop

\* The peer answers a request it received; an answer to a request that is not
\* pending, or whose deadline has passed, is dropped and is not a step.
\* "rpcError" stands for an error response, for a response without exactly one of
\* result and error, and for one whose error cannot be decoded.
ReadAnswer(r, answer) ==
    /\ readLoop = "running"
    /\ \E i \in 1..Len(wire) : wire[i] = r
    /\ r \in table \ expired
    /\ entry' = [entry EXCEPT ![r] = Answered(@, answer)]
    /\ woken' = woken \cup {r}
    /\ UNCHANGED <<closed, closePosted, readLoop, connect, call, outcome, table, expired,
                   spawnedWrites, writerVars>>

\* A request of the peer is dispatched to a coroutine of its own.
ReadRequest(c) ==
    /\ readLoop = "running"
    /\ call[c] = "idle"
    /\ call' = [call EXCEPT ![c] = "handling"]
    /\ UNCHANGED <<closed, closePosted, readLoop, connect, outcome, table, entry, woken, expired,
                   spawnedWrites, writerVars>>

\* dispatch_incoming_request: the handler, ping or method-not-found gives one
\* result or error, which is written.
AnswerRequest(c) ==
    /\ call[c] = "handling"
    /\ call' = [call EXCEPT ![c] = "waiting"]
    /\ spawnedWrites' = spawnedWrites \cup {c}
    /\ UNCHANGED <<closed, closePosted, readLoop, connect, outcome, table, entry, woken, expired, writerVars>>

\* read_message fails: the loop ends, every request fails and the transport closes.
ReadFails ==
    /\ readLoop = "running"
    /\ readLoop' = "stopped"
    /\ closed' = TRUE
    /\ FailPending
    /\ transportOpen' = FALSE
    /\ UNCHANGED <<closePosted, connect, call, outcome, table, expired, spawnedWrites,
                   queue, draining, drainer, cancel, status, returned, wire, accepted>>

\* The job request_close posted runs on the strand.
RunClosePost ==
    /\ closePosted
    /\ closePosted' = FALSE
    /\ FailPending
    /\ transportOpen' = FALSE
    /\ UNCHANGED <<closed, readLoop, connect, call, outcome, table, expired, spawnedWrites,
                   queue, draining, drainer, cancel, status, returned, wire, accepted>>

\* The writer's own steps.
DrainStart == Writer!DrainStart /\ UNCHANGED clientVars
WriteDone == (\E result \in {"ok", "failed"} : Writer!WriteDone(result)) /\ UNCHANGED clientVars

---------------------------------------------------------------------------
Next ==
    \/ Connect \/ Close \/ FinishInitialize \/ FinishConnect
    \/ ReadFails \/ RunClosePost \/ DrainStart \/ WriteDone
    \/ \E o \in Ops : Send(o) \/ Start(o) \/ QueueWrite(o) \/ WriteReturned(o)
    \/ \E r \in Requests : Expire(r) \/ Resume(r)
    \/ \E r \in Requests, answer \in Answers \cup {"result"} : ReadAnswer(r, answer)
    \/ \E c \in Incoming : ReadRequest(c) \/ AnswerRequest(c)

\* The executor runs what is ready on the strand.  Nothing is assumed of the
\* transport (a write may hang for ever) or of the peer (it may stay silent).
StrandFairness ==
    /\ WF_vars(RunClosePost) /\ WF_vars(DrainStart)
    /\ WF_vars(FinishInitialize) /\ WF_vars(FinishConnect)
    /\ \A o \in Ops : WF_vars(Start(o)) /\ WF_vars(QueueWrite(o)) /\ WF_vars(WriteReturned(o))
    /\ \A r \in Requests : WF_vars(Resume(r))

\* Deadlines pass.
TimerFairness == \A r \in Requests : WF_vars(Expire(r))

Safety == Init /\ [][Next]_vars
SpecNoTimers == Safety /\ StrandFairness
Spec == SpecNoTimers /\ TimerFairness

---------------------------------------------------------------------------
\* Once the client is closed and the posted job has run, no request is left
\* undecided in pending_requests, however close(), the read loop's failure and
\* new requests interleave.
NoRequestLeftBehind ==
    closed /\ ~closePosted => \A r \in table : entry[r].completed /\ r \in woken

\* pending_requests holds exactly the requests whose coroutine is suspended: no
\* entry leaks on any of the ways out, and none vanishes under its coroutine.
TableIsWaiting == table = {r \in Requests : call[r] = "waiting"}

\* Table, entries and coroutines agree: none leaks, none is stranded (client.cpp:
\* 160-260, 550-560).
TableMatchesCalls == NoRequestLeftBehind /\ TableIsWaiting

\* An entry the peer decided: answered or cancelled before anything else.
DecidedByPeer(e) == e.completed /\ e.error \notin Failures /\ ~e.writeError

\* What the peer said before the deadline reaches the caller: a failing write, the
\* end of the connection or the timer that fires meanwhile do not replace it.
AnswerSurvives ==
    [][\A r \in table : DecidedByPeer(entry[r])
           => IF r \in table' THEN DecidedByPeer(entry'[r]) ELSE outcome'[r] \notin Failures]_vars

\* A request that returned to its caller without having been sent is never sent
\* afterwards: the server is not made to do work nobody waits for.
NoSendAfterReturn ==
    [][\A r \in Requests :
          call[r] = "done" /\ (\A i \in 1..Len(wire) : wire[i] # r)
              => (\A i \in 1..Len(wire') : wire'[i] # r)]_vars

\* What the promise sees of a message: whether its coroutine is under way, and what
\* its caller was told or would be told by now.
Stage == [o \in Ops |-> IF call[o] \in {"idle", "done"} THEN call[o] ELSE "asked"]

Told ==
    [o \in Ops |->
        IF call[o] = "done" THEN outcome[o]
        ELSE IF o \in Requests /\ entry[o].completed THEN OutcomeOf(entry[o]) ELSE "open"]

Promise == INSTANCE ClientPromise WITH
    stage <- Stage, verdict <- Told, late <- expired, over <- closed, sent <- wire

\* The client implements ClientPromise: in every order of the five parties a request
\* is put to the peer at most once and only while its caller waits, its deadline
\* beats a later answer or failed write, and its caller is told one verdict, the
\* peer's if the peer spoke in time (client.cpp:160-260, 473-560).
KeepsPromise == Promise!Spec

\* Every request returns, even if the peer never answers and a write never ends.  A
\* closed client fails its requests without waiting for their deadlines, and
\* closing, be it for a handshake that failed half way, reaches the transport.
EveryRequestReturns ==
    /\ TimerFairness => []<>(\A r \in Requests : call[r] \in {"idle", "done"})
    /\ []<>(/\ \A r \in Requests : ~(closed /\ call[r] = "waiting")
            /\ ~((closed \/ connect = "failed") /\ transportOpen))
=============================================================================

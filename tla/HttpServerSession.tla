---------------------------- MODULE HttpServerSession ----------------------------
(***************************************************************************)
(* One mcp::Server running on an HttpServerTransport, the only transport     *)
(* that ends a session (HTTP DELETE) and starts the next one while           *)
(* Server::run keeps reading (src/src/transport/http_server.cpp and          *)
(* src/src/server/server.cpp).                                               *)
(*                                                                           *)
(* A POST with a request waits in pending_responses under its request id     *)
(* while the message goes through the incoming queue, a dispatch coroutine   *)
(* on the server's strand, the SerializedTransportWriter and run_write.  The *)
(* two strands meet only in the queue, the writer and the count of ended     *)
(* sessions, which the Server reads as its session epoch.                    *)
(***************************************************************************)
EXTENDS Naturals, Sequences, FiniteSets

CONSTANTS
    Posts,         \* POSTs with a request: records [n, kind, id]
    Notes,         \* POSTs with a notification: records [n, kind, id]
    Tellings,      \* notifications the Server sends: records [n, kind, id]
    NoPost,        \* nobody
    MaxDiscovers,  \* g_max_pending_sessionless_discovers
    MaxDeletes,    \* bound: sessions the clients end
    RacingClients  \* TRUE if a client may send initialize while a session or another initialize is under way

ASSUME PostAssumption ==
    /\ \A p \in Posts : p.kind \in {"initialize", "call", "discover", "subscribe", "unsubscribe",
                                   "setLevel"}
    /\ \A m \in Notes : m.kind \in {"initialized", "cancelled"}
    /\ \A t \in Tellings : t.kind \in {"update", "report"}
    /\ Posts \cap Notes = {} /\ Posts \cap Tellings = {}
    /\ NoPost \notin Posts

ASSUME BoundAssumption == MaxDiscovers \in Nat /\ MaxDeletes \in Nat /\ RacingClients \in BOOLEAN

VARIABLES
    \* HttpServerTransport::Impl
    active,        \* session_id.has_value(), which is also session_active
    known,         \* the client has received the MCP-Session-Id of the session
    terminated,    \* terminated_sessions
    awaitingNext,  \* session_ended_awaiting_next
    queue,         \* SharedState::queue
    http,          \* where the handle_post of each POST is
    body,          \* PendingResponse::response_body: the request it answers
    events,        \* event_store: the requests whose answers it holds, and notifications
    closed,        \* SharedState::closed
    \* Server::Impl and Server::Session
    lifecycle,     \* Impl::lifecycle
    initEpoch,     \* terminated_sessions_at_initialize
    job,           \* where the dispatch_request of each POST is
    epoch,         \* the session epoch dispatch_request took at its start
    initResult,    \* initialize requests answered with a result
    began,         \* the session epoch its handler took: of the Context, or of the subscription
    subscription,  \* Session::subscriptions of one URI: the request that made it
    logLevel,      \* log_level: the request that set it
    inFlight,      \* Session::in_flight, by request id
    cancelled,     \* requests whose cancelled flag is set
    outbox,        \* answers and notifications in the SerializedTransportWriter
    \* history
    cause,         \* the request each notification is sent for
    origin,        \* the session each POST was admitted in, 0 for none
    outcome        \* the HTTP response of each POST

handlerVars == <<began, subscription, logLevel, cause>>
serverVars == <<lifecycle, initEpoch, job, epoch, initResult, inFlight, cancelled, outbox,
                handlerVars>>
vars == <<active, known, terminated, awaitingNext, queue, http, body, events, closed,
          serverVars, origin, outcome>>

Ids == {p.id : p \in Posts}
MaxSessions == MaxDeletes + 1

\* The number of the current session, 0 while there is none.
Session == IF active THEN terminated + 1 ELSE 0

\* The values each variable of the transport and the server can hold.
TypeOK ==
    /\ active \in BOOLEAN /\ known \in BOOLEAN /\ awaitingNext \in BOOLEAN /\ closed \in BOOLEAN
    /\ terminated \in 0..MaxDeletes /\ initEpoch \in 0..MaxDeletes
    /\ queue \in Seq(Posts \cup Notes) /\ outbox \in Seq(Posts \cup Tellings)
    /\ http \in [Posts \cup Notes -> {"idle", "waiting", "ready", "ended", "done"}]
    /\ body \in [Posts -> Posts \cup {NoPost}]
    /\ events \in SUBSET (Posts \cup Tellings) /\ initResult \in SUBSET Posts /\ cancelled \in SUBSET Posts
    /\ lifecycle \in {"uninitialized", "awaiting", "ready"}
    /\ job \in [Posts -> {"none", "queued", "admitted", "computed", "handling", "writing", "over"}]
    /\ epoch \in [Posts -> 0..MaxDeletes] /\ began \in [Posts -> 0..MaxDeletes]
    /\ subscription \in Posts \cup {NoPost} /\ logLevel \in Posts \cup {NoPost}
    /\ cause \in [Tellings -> Posts \cup {NoPost}]
    /\ origin \in [Posts -> 0..MaxSessions]
    /\ inFlight \in [Ids -> Posts \cup {NoPost}]
    /\ outcome \in [Posts -> {"none", "answered", "ended", "closed"}]

Init ==
    /\ active = FALSE /\ known = FALSE /\ awaitingNext = FALSE /\ closed = FALSE
    /\ terminated = 0 /\ initEpoch = 0
    /\ queue = <<>> /\ outbox = <<>>
    /\ http = [p \in Posts \cup Notes |-> "idle"]
    /\ body = [p \in Posts |-> NoPost]
    /\ events = {} /\ initResult = {} /\ cancelled = {}
    /\ lifecycle = "uninitialized"
    /\ job = [p \in Posts |-> "none"]
    /\ epoch = [p \in Posts |-> 0] /\ began = [p \in Posts |-> 0]
    /\ subscription = NoPost /\ logLevel = NoPost
    /\ cause = [t \in Tellings |-> NoPost]
    /\ origin = [p \in Posts |-> 0]
    /\ inFlight = [i \in Ids |-> NoPost]
    /\ outcome = [p \in Posts |-> "none"]

---------------------------------------------------------------------------
\* HttpServerTransport: HTTP requests

\* The POSTs with an entry in pending_responses, whose coroutine waits.
Registered == {p \in Posts : http[p] \in {"waiting", "ready", "ended"}}

\* The entries of sessionless_request_ids.
Discovers == {p \in Registered : p.kind = "discover"}

\* Mutant: a sessionless discover is registered under the id its sender chose.
SameKeyRaw(p, q) == p.id = q.id

\* Two requests share a key of pending_responses.  A sessionless discover has a
\* sentinel id of its own, the others the bytes the client sent.
SameKey(p, q) == p = q \/ (p.kind # "discover" /\ q.kind # "discover" /\ p.id = q.id)

\* sessionless_request_ids.size() is below its limit.
DiscoverRoom == Cardinality(Discovers) < MaxDiscovers

\* validate_post_session passes for a client that sends the id of the current
\* session, or no id while there is no session.
SessionGate == active => known

\* handle_post of a request, up to its wait.  A request that the gate, the limit
\* or the duplicate-id test refuses changes nothing and is not a step.
PostRequest(p) ==
    /\ ~closed
    /\ http[p] = "idle"
    /\ IF p.kind = "discover" THEN DiscoverRoom ELSE SessionGate
    /\ p.kind = "initialize" /\ (active \/ \E q \in Registered : q.kind = "initialize") => RacingClients
    /\ \A q \in Registered : ~SameKey(p, q)
    /\ http' = [http EXCEPT ![p] = "waiting"]
    /\ queue' = Append(queue, p)
    /\ job' = [job EXCEPT ![p] = "queued"]
    /\ origin' = [origin EXCEPT ![p] = IF p.kind = "discover" THEN 0 ELSE Session]
    /\ UNCHANGED <<active, known, terminated, awaitingNext, body, events, closed, lifecycle,
                   initEpoch, epoch, initResult, inFlight, cancelled, outbox, handlerVars,
                   outcome>>

\* handle_post of a notification: queued and answered 202 at once.
PostNote(m) ==
    /\ ~closed
    /\ http[m] = "idle"
    /\ SessionGate
    /\ http' = [http EXCEPT ![m] = "done"]
    /\ queue' = Append(queue, m)
    /\ UNCHANGED <<active, known, terminated, awaitingNext, body, events, closed, serverVars,
                   origin, outcome>>

\* Mutant: only the requests whose answer is there are marked, and woken.
EndedIfReady == {p \in Registered : http[p] = "ready"}

\* Mutant: an answer that is already there is still delivered as such.
EndedUnlessReady == {p \in Registered : http[p] = "waiting"}

\* The pending requests terminate_session marks as ended: all of them.
EndedByDelete == Registered

\* Mutant: the replay history survives the session.
HistoryKept == events

\* event_store.clear()
HistoryCleared == {}

\* handle_delete and terminate_session.  A DELETE with no session ends nothing.
Delete ==
    /\ ~closed
    /\ active /\ known
    /\ terminated < MaxDeletes
    /\ active' = FALSE
    /\ known' = FALSE
    /\ terminated' = terminated + 1
    /\ awaitingNext' = TRUE
    /\ events' = HistoryCleared
    /\ http' = [p \in Posts \cup Notes |-> IF p \in EndedByDelete THEN "ended" ELSE http[p]]
    /\ UNCHANGED <<queue, body, closed, serverVars, origin, outcome>>

\* The wait of handle_post ends, and the entry is consumed.
Respond(p) ==
    /\ p \in Registered
    /\ closed \/ http[p] # "waiting"
    /\ http' = [http EXCEPT ![p] = "done"]
    /\ outcome' = [outcome EXCEPT ![p] = IF closed THEN "closed"
                                         ELSE IF http[p] = "ended" THEN "ended" ELSE "answered"]
    /\ known' = (known \/ (active /\ ~closed /\ http[p] = "ready" /\ body[p] \in initResult))
    /\ UNCHANGED <<active, terminated, awaitingNext, queue, body, events, closed, serverVars, origin>>

\* close() from any thread, with the job it posts: every path checks `closed`
\* first, so nobody can tell when that job runs.
Close ==
    /\ ~closed
    /\ closed' = TRUE
    /\ active' = FALSE
    /\ known' = FALSE
    /\ UNCHANGED <<terminated, awaitingNext, queue, http, body, events, serverVars, origin, outcome>>

---------------------------------------------------------------------------
\* Server: reading and dispatching, on the session strand

\* A dispatch holds the strand until its handler waits or its answer is with the
\* writer.  The transport's strand may run between any two steps of it.
StrandFree == \A p \in Posts : job[p] \notin {"admitted", "computed"}

\* Mutant: a new client finds the lifecycle of the one before it.
LifecycleOfTransport == lifecycle

\* The lifecycle dispatch_request_wire goes by: a client that arrives after the
\* one before it ended its session starts uninitialized.
SessionState == IF terminated # initEpoch THEN "uninitialized" ELSE lifecycle

\* Mutant: the next client gets the level of the one before it.
LevelOfServer == logLevel

\* The log level an initialize leaves: the default one if it starts a new session.
LevelForSession == IF terminated # initEpoch THEN NoPost ELSE logLevel

\* handle_initialize_wire, or the refusal of a second initialize.
DispatchInitialize(p) ==
    /\ p.kind = "initialize"
    /\ job' = [job EXCEPT ![p] = "computed"]
    /\ IF SessionState = "uninitialized"
       THEN /\ lifecycle' = "awaiting"
            /\ initEpoch' = terminated
            /\ initResult' = initResult \cup {p}
            /\ logLevel' = LevelForSession
       ELSE UNCHANGED <<lifecycle, initEpoch, initResult, logLevel>>

\* server/discover is answered in any state.
DispatchDiscover(p) ==
    /\ p.kind = "discover"
    /\ job' = [job EXCEPT ![p] = "computed"]
    /\ UNCHANGED <<lifecycle, initEpoch, initResult, logLevel>>

\* Every other request is refused until the session is ready.
DispatchOther(p) ==
    /\ p.kind \notin {"initialize", "discover"}
    /\ job' = [job EXCEPT ![p] = IF SessionState = "ready" THEN "admitted" ELSE "computed"]
    /\ UNCHANGED <<lifecycle, initEpoch, initResult, logLevel>>

\* The read loop takes a request off the queue and its dispatch_request runs
\* until it suspends.
DispatchRequest(p) ==
    /\ queue # <<>> /\ Head(queue) = p
    /\ StrandFree
    /\ queue' = Tail(queue)
    /\ epoch' = [epoch EXCEPT ![p] = terminated]
    /\ DispatchInitialize(p) \/ DispatchDiscover(p) \/ DispatchOther(p)
    /\ UNCHANGED <<active, known, terminated, awaitingNext, http, body, events, closed, inFlight,
                   cancelled, outbox, began, subscription, cause, origin, outcome>>

\* resources/subscribe and resources/unsubscribe set and erase the entry of the URI.
SubscriptionAfter(p) ==
    CASE p.kind = "subscribe" -> p
      [] p.kind = "unsubscribe" -> NoPost
      [] OTHER -> subscription

\* logging/setLevel stores the level for the whole Server.
LevelAfter(p) == IF p.kind = "setLevel" THEN p ELSE logLevel

\* The handler of an admitted request, up to its wait or its answer: tools/call
\* registers its cancelled flag and makes a Context, the others do what they do at
\* once.  What is kept carries the epoch of this moment.
Begin(p) ==
    /\ job[p] = "admitted"
    /\ began' = [began EXCEPT ![p] = terminated]
    /\ job' = [job EXCEPT ![p] = IF p.kind = "call" THEN "handling" ELSE "computed"]
    /\ inFlight' = IF p.kind = "call" THEN [inFlight EXCEPT ![p.id] = p] ELSE inFlight
    /\ subscription' = SubscriptionAfter(p)
    /\ logLevel' = LevelAfter(p)
    /\ UNCHANGED <<active, known, terminated, awaitingNext, queue, http, body, events, closed,
                   lifecycle, initEpoch, epoch, initResult, cancelled, outbox, cause, origin,
                   outcome>>

\* dispatch_notification of notifications/initialized and notifications/cancelled.
DispatchNote(m) ==
    /\ queue # <<>> /\ Head(queue) = m
    /\ StrandFree
    /\ queue' = Tail(queue)
    /\ IF m.kind = "initialized"
       THEN /\ lifecycle' = IF lifecycle = "awaiting" THEN "ready" ELSE lifecycle
            /\ UNCHANGED cancelled
       ELSE /\ cancelled' = IF lifecycle = "ready" /\ m.id \in Ids
                            THEN cancelled \cup ({inFlight[m.id]} \ {NoPost}) ELSE cancelled
            /\ UNCHANGED lifecycle
    /\ UNCHANGED <<active, known, terminated, awaitingNext, http, body, events, closed, initEpoch,
                   job, epoch, initResult, inFlight, outbox, handlerVars, origin, outcome>>

\* Mutant: dispatch_request does not look at the epoch again.
StillWanted(p) == TRUE

\* The session of the request has not ended since its dispatch began.
SameSession(p) == epoch[p] = terminated

\* handle_tools_call_wire erases its entry of in_flight by request id.
CallForgotten(p) ==
    IF job[p] = "handling" THEN [inFlight EXCEPT ![p.id] = NoPost] ELSE inFlight

\* The answer is computed, by a handler that took its time or at once; it is
\* queued in the writer unless its session has ended.
Finish(p) ==
    /\ job[p] = "computed" \/ (job[p] = "handling" /\ StrandFree)
    /\ inFlight' = CallForgotten(p)
    /\ IF SameSession(p)
       THEN outbox' = Append(outbox, p) /\ job' = [job EXCEPT ![p] = "writing"]
       ELSE job' = [job EXCEPT ![p] = "over"] /\ UNCHANGED outbox
    /\ UNCHANGED <<active, known, terminated, awaitingNext, queue, http, body, events, closed,
                   lifecycle, initEpoch, epoch, initResult, cancelled, handlerVars, origin, outcome>>

\* Mutant: what a handler or a subscription has to say is said to whoever is there.
ConcernsAnybody(p) == TRUE

\* The session the handler or the subscription of the request took has not ended.
ConcernsSession(p) == began[p] = terminated

\* A notification enters the writer for the request it is sent for.
Send(t, p) ==
    /\ cause[t] = NoPost
    /\ outbox' = Append(outbox, t)
    /\ cause' = [cause EXCEPT ![t] = p]
    /\ UNCHANGED <<active, known, terminated, awaitingNext, queue, http, body, events, closed,
                   lifecycle, initEpoch, job, epoch, initResult, inFlight, cancelled, began,
                   logLevel, origin, outcome>>

\* A running handler sends a log message or its progress through its Context.
Report(t) ==
    /\ t.kind = "report"
    /\ StrandFree
    /\ \E p \in Posts : job[p] = "handling" /\ ConcernsSession(p) /\ Send(t, p)
    /\ UNCHANGED subscription

\* notify_resource_updated_on_strand, called by the application at any time.
Update(t) ==
    /\ t.kind = "update"
    /\ StrandFree
    /\ subscription # NoPost
    /\ IF ConcernsSession(subscription)
       THEN Send(t, subscription) /\ UNCHANGED subscription
       ELSE /\ subscription' = NoPost
            /\ UNCHANGED <<active, known, terminated, awaitingNext, queue, http, body, events, closed,
                           lifecycle, initEpoch, job, epoch, initResult, inFlight, cancelled,
                           outbox, began, logLevel, cause, origin, outcome>>

---------------------------------------------------------------------------
\* HttpServerTransport: the Server's writes

\* Mutant: the answer to a discover is recorded like any other.
RecordedAlways(p) == ~awaitingNext \/ p \in initResult

\* run_write records an answer for replay unless it answers a sessionless
\* discover, or nobody holds a session (an initialize result starts one).
Recorded(p) == p \notin Discovers /\ (~awaitingNext \/ p \in initResult)

\* run_write of the oldest answer: the entry registered under its id gets it,
\* and an initialize result that is delivered establishes the session.
RunWrite(p) ==
    /\ outbox # <<>> /\ Head(outbox) = p
    /\ outbox' = Tail(outbox)
    /\ job' = [job EXCEPT ![p] = "over"]
    /\ IF closed
       THEN UNCHANGED <<active, awaitingNext, http, body, events>>
       ELSE /\ events' = IF Recorded(p) THEN events \cup {p} ELSE events
            /\ \/ \E q \in Registered :
                     /\ SameKey(p, q)
                     /\ body' = [body EXCEPT ![q] = p]
                     /\ http' = [http EXCEPT ![q] = IF @ = "ended" THEN @ ELSE "ready"]
                     /\ active' = (active \/ p \in initResult)
                     /\ awaitingNext' = (awaitingNext /\ p \notin initResult)
               \/ /\ \A q \in Registered : ~SameKey(p, q)
                  /\ UNCHANGED <<active, awaitingNext, http, body>>
    /\ UNCHANGED <<known, terminated, queue, closed, lifecycle, initEpoch, epoch, initResult,
                   inFlight, cancelled, handlerVars, origin, outcome>>

\* run_write of a notification: it is recorded for replay, for nobody waits for it.
RunTelling(t) ==
    /\ outbox # <<>> /\ Head(outbox) = t
    /\ outbox' = Tail(outbox)
    /\ events' = IF closed \/ awaitingNext THEN events ELSE events \cup {t}
    /\ UNCHANGED <<active, known, terminated, awaitingNext, queue, http, body, closed, lifecycle,
                   initEpoch, job, epoch, initResult, inFlight, cancelled, handlerVars, origin,
                   outcome>>

Next ==
    \/ Delete \/ Close
    \/ \E p \in Posts : \/ PostRequest(p) \/ Respond(p) \/ DispatchRequest(p)
                        \/ Begin(p) \/ Finish(p) \/ RunWrite(p)
    \/ \E m \in Notes : PostNote(m) \/ DispatchNote(m)
    \/ \E t \in Tellings : Report(t) \/ Update(t) \/ RunTelling(t)

\* The executor runs both strands and every tool handler returns: the read loop
\* takes what is queued, the dispatch that holds the strand goes on, the writer
\* writes what it holds, and each waiting POST resumes.
ReadLoop == (\E p \in Posts : DispatchRequest(p)) \/ \E m \in Notes : DispatchNote(m)
Drain == (\E p \in Posts : RunWrite(p)) \/ \E t \in Tellings : RunTelling(t)
GoOn == \E p \in Posts : Begin(p) \/ (job[p] = "computed" /\ Finish(p))
Fairness ==
    /\ WF_vars(ReadLoop) /\ WF_vars(GoOn) /\ WF_vars(Drain)
    /\ \A p \in Posts : WF_vars(Respond(p))
    /\ \A p \in {q \in Posts : q.kind = "call"} : WF_vars(Finish(p))

Safety == Init /\ [][Next]_vars
Spec == Safety /\ Fairness

---------------------------------------------------------------------------
\* The history a session can read holds no answer to a request of an earlier
\* session, although such answers may still be on their way; between a DELETE and
\* the next initialize result nothing is recorded; and "responses to sessionless
\* pre-gate requests must never reach the replay store", also when a DELETE has
\* already taken the request out of sessionless_request_ids.
ReplayBelongsToSession ==
    /\ active => \A p \in events \cap Posts : origin[p] \in {0, Session}
    /\ awaitingNext => events = {}
    /\ \A p \in events : p.kind # "discover"

\* The session ended between the test of the lifecycle and the handler's own look
\* at the epoch, so what the handler keeps counts as the next session's.
CutShort(p) == epoch[p] # began[p]

\* A client reads no update of a resource that another session subscribed to and no
\* report of another session's handler, and once its initialize is accepted its
\* handlers do not log at the level another session set.
OnlyItsOwn ==
    /\ active => \A t \in events \cap Tellings :
                    origin[cause[t]] \in {0, Session} \/ CutShort(cause[t])
    /\ SessionState # "uninitialized" /\ logLevel # NoPost
          => origin[logLevel] \in {0, terminated + 1} \/ CutShort(logLevel)

\* "Nothing of the ended session carries over to the next client" (http_server.cpp,
\* terminate_session): neither answers, nor subscriptions, nor what its handlers
\* still report, nor its log level; except for a request whose dispatch the DELETE
\* cuts short.
NothingCarriesOver == ReplayBelongsToSession /\ OnlyItsOwn

\* A request of a session that was ended is answered 404, never with the answer
\* that was ready or that still arrives.
EndedIsFinal ==
    [][terminated' # terminated =>
          \A p \in Registered : http'[p] = "ended" /\ outcome'[p] = "none"]_vars

\* The Server holds a client to its own handshake: no handler starts in a session
\* unless an initialize was accepted since the session before it ended.
NoCallBeforeInitialize ==
    \A p \in Posts : job[p] = "handling" => \E q \in initResult : epoch[q] = epoch[p]

\* Every handler of the current session can be found by a cancellation.
CancelFindsHandler ==
    \A p \in Posts : job[p] = "handling" /\ SameSession(p) => inFlight[p.id] = p

\* A request is never given the answer to another request.
OwnAnswer == \A p \in Posts : body[p] \in {NoPost, p}

\* While no session is established and no initialize is on its way through the
\* Server, the Server accepts an initialize.
NextClientCanInitialize ==
    ~active /\ ~closed
        /\ (\A p \in Posts : p.kind = "initialize" => job[p] \in {"none", "over"})
    => SessionState = "uninitialized"

\* Every POST gets its HTTP response.
EveryPostAnswered == []<>(\A p \in Posts : http[p] \in {"idle", "done"})
=============================================================================

----------------------------- MODULE SessionManager -----------------------------
(***************************************************************************)
(* StreamableHttpSessionManager                                              *)
(* (src/src/transport/http_session_manager.cpp): one endpoint, many          *)
(* sessions.  Each session has a Server of its own behind a pair of memory   *)
(* transports, a table of the POSTs that wait for an answer, and a coroutine *)
(* that hands the Server's messages to them.                                 *)
(*                                                                           *)
(* Connections run on strands of their own and DELETE, close() and the       *)
(* session's reader on others, so they interleave between any two critical   *)
(* sections; a step here is one critical section, or what a coroutine does   *)
(* between two of them.                                                      *)
(***************************************************************************)
EXTENDS EventStore, FiniteSets

CONSTANTS
    Sessions,      \* generate_session_id()
    Posts,         \* POSTs with a request: records [n, id, kind]
    NoPost, NoSession,
    Capacity,      \* event_store_capacity
    MaxNotes,      \* bound: notifications the Servers send
    MaxFlips       \* bound: calls of set_json_only

ASSUME ManagerAssumption ==
    /\ \A p \in Posts : p.kind \in {"initialize", "call"}
    /\ NoPost \notin Posts /\ NoSession \notin Sessions
    /\ Capacity \in Nat /\ MaxNotes \in Nat /\ MaxFlips \in Nat

VARIABLES
    closed,        \* Impl::closed
    taken,         \* close() has emptied the map
    ending,        \* the sessions close() moved out of the map and has not ended yet
    sessions,      \* the keys of Impl::sessions
    used,          \* session ids generated so far
    link,          \* the pair of memory transports of each session
    deleting,      \* sessions destroy_session has erased and not closed yet
    marking,       \* sessions whose waiters are still to be marked by whoever ends them
    toServer,      \* messages on their way to each Server
    toClient,      \* messages of each Server: a post it answers, or NoPost for a notification
    reader,        \* read_outbound_messages of each session
    table,         \* SessionRuntime::pending_responses
    at,            \* where the handle_post of each POST is
    session,       \* the session of each POST
    ready,         \* entries with response_ready
    body,          \* PendingResponse::response_body: the request it answers
    stream,        \* PendingResponse::stream_events: [n, of]
    unassigned,    \* SessionRuntime::unassigned_stream_events
    store,         \* SessionRuntime::event_store
    woken,         \* timers with a posted cancel
    job,           \* what the Server has done with each request
    outcome,       \* the HTTP response of each POST
    jsonOnly, flips, notes

postVars == <<at, session, outcome>>
entryVars == <<table, ready, body, stream>>
sessionVars == <<sessions, used, link, deleting, marking, taken, ending>>
modeVars == <<jsonOnly, flips, notes>>
vars == <<closed, sessionVars, toServer, toClient, reader, entryVars, postVars,
          unassigned, store, woken, job, modeVars>>

Event == [n : Nat, of : Posts \cup {NoPost}]

\* The values each variable of the session manager can hold.
TypeOK ==
    /\ closed \in BOOLEAN /\ taken \in BOOLEAN /\ jsonOnly \in BOOLEAN
    /\ sessions \subseteq used /\ used \subseteq Sessions
    /\ ending \subseteq used /\ deleting \subseteq used /\ marking \subseteq used
    /\ link \in [Sessions -> {"none", "open", "closed"}]
    /\ toServer \in [Sessions -> Seq(Posts)] /\ toClient \in [Sessions -> Seq(Posts \cup {NoPost})]
    /\ reader \in [Sessions -> {"none", "running", "ended"}]
    /\ table \in [Sessions -> SUBSET Posts]
    /\ at \in [Posts -> {"idle", "creating", "resolved", "registered", "checking", "arming",
                         "waiting", "done"}]
    /\ session \in [Posts -> Sessions \cup {NoSession}]
    /\ ready \subseteq Posts /\ woken \subseteq Posts
    /\ body \in [Posts -> Posts \cup {NoPost}]
    /\ stream \in [Posts -> Seq(Event)] /\ unassigned \in [Sessions -> Seq(Event)]
    /\ job \in [Posts -> {"none", "handling", "answered"}]
    /\ outcome \in [Posts -> {"none", "json", "sse", "refused", "dropped", "ended", "closed"}]
    /\ notes \in 0..MaxNotes /\ flips \in 0..MaxFlips

Init ==
    /\ closed = FALSE /\ taken = FALSE /\ jsonOnly = FALSE /\ flips = 0 /\ notes = 0
    /\ sessions = {} /\ used = {} /\ ending = {} /\ deleting = {} /\ marking = {}
    /\ link = [s \in Sessions |-> "none"] /\ reader = [s \in Sessions |-> "none"]
    /\ toServer = [s \in Sessions |-> <<>>] /\ toClient = [s \in Sessions |-> <<>>]
    /\ table = [s \in Sessions |-> {}]
    /\ at = [p \in Posts |-> "idle"] /\ session = [p \in Posts |-> NoSession]
    /\ ready = {} /\ woken = {}
    /\ body = [p \in Posts |-> NoPost] /\ stream = [p \in Posts |-> <<>>]
    /\ unassigned = [s \in Sessions |-> <<>>] /\ store = [s \in Sessions |-> EmptyStore]
    /\ job = [p \in Posts |-> "none"] /\ outcome = [p \in Posts |-> "none"]

---------------------------------------------------------------------------
\* handle_post

\* handle_post ends: the connection writes this response, or none at all.
Answer(p, how) ==
    /\ at' = [at EXCEPT ![p] = "done"]
    /\ outcome' = [outcome EXCEPT ![p] = how]

\* create_session up to its critical section: an id and the pair of transports.
BeginCreate(p) ==
    /\ p.kind = "initialize" /\ at[p] = "idle"
    /\ ~closed
    /\ \E s \in Sessions \ used :
          /\ used' = used \cup {s}
          /\ link' = [link EXCEPT ![s] = "open"]
          /\ session' = [session EXCEPT ![p] = s]
    /\ at' = [at EXCEPT ![p] = "creating"]
    /\ UNCHANGED <<closed, sessions, deleting, marking, taken, ending, toServer, toClient, reader, entryVars,
                   unassigned, store, woken, job, outcome, modeVars>>

\* Mutant: `closed` is tested only before the session is built.
MayInsertAnyway == TRUE

\* The test of `closed` under sessions_mutex_.
MayInsert == ~closed

\* create_session's critical section: into the map, and the Server and the
\* reader start; a manager that was closed meanwhile keeps nothing.
Insert(p) ==
    /\ at[p] = "creating"
    /\ IF MayInsert
       THEN /\ sessions' = sessions \cup {session[p]}
            /\ reader' = [reader EXCEPT ![session[p]] = "running"]
            /\ at' = [at EXCEPT ![p] = "resolved"]
            /\ UNCHANGED <<link, outcome>>
       ELSE /\ link' = [link EXCEPT ![session[p]] = "closed"]
            /\ Answer(p, "refused")
            /\ UNCHANGED <<sessions, reader>>
    /\ UNCHANGED <<closed, used, deleting, marking, taken, ending, toServer, toClient, entryVars, session,
                   unassigned, store, woken, job, modeVars>>

\* find_session with the id a client got from an earlier reply.
Find(p, s) ==
    /\ p.kind = "call" /\ at[p] = "idle"
    /\ ~closed
    /\ \E q \in Posts : session[q] = s /\ outcome[q] \in {"json", "sse"}
    /\ IF s \in sessions
       THEN /\ at' = [at EXCEPT ![p] = "resolved"]
            /\ session' = [session EXCEPT ![p] = s]
            /\ UNCHANGED outcome
       ELSE Answer(p, "refused") /\ UNCHANGED session
    /\ UNCHANGED <<closed, sessionVars, toServer, toClient, reader, entryVars, unassigned, store, woken,
                   job, modeVars>>

\* Mutant: an id that is already pending is not refused.
IdPendingNever(p) == FALSE

\* pending_responses.contains(request_id_key)
IdPending(p) == \E q \in table[session[p]] : q.id = p.id

\* The entry of the request is made, unless its id has one already.
Register(p) ==
    /\ at[p] = "resolved"
    /\ IF IdPending(p)
       THEN Answer(p, "refused") /\ UNCHANGED table
       ELSE /\ table' = [table EXCEPT ![session[p]] = @ \cup {p}]
            /\ at' = [at EXCEPT ![p] = "registered"]
            /\ UNCHANGED outcome
    /\ UNCHANGED <<closed, sessionVars, toServer, toClient, reader, ready, body, stream, session,
                   unassigned, store, woken, job, modeVars>>

\* client_transport->write_json: the message is with the Server's transport, or
\* the exception of a closed one ends the connection without a response.
Write(p) ==
    /\ at[p] = "registered"
    /\ IF link[session[p]] = "open"
       THEN /\ toServer' = [toServer EXCEPT ![session[p]] = Append(@, p)]
            /\ at' = [at EXCEPT ![p] = "checking"]
            /\ UNCHANGED outcome
       ELSE Answer(p, "dropped") /\ UNCHANGED toServer
    /\ UNCHANGED <<closed, sessionVars, toClient, reader, entryVars, session, unassigned, store, woken,
                   job, modeVars>>

\* Mutant: the entry is read and not erased.
ConsumedNever(p) == {}

\* pending_responses.erase(pending_it)
Consumed(p) == {p}

\* One turn of the loop of wait_for_response: answer what is ready, or go to
\* sleep.  A closed manager answers nothing, ready or not.
Check(p) ==
    /\ at[p] = "checking"
    /\ IF closed \/ p \in ready
       THEN /\ table' = [table EXCEPT ![session[p]] = @ \ Consumed(p)]
            /\ Answer(p, IF closed THEN "closed"
                         ELSE IF body[p] = NoPost THEN "ended"
                         ELSE IF ~jsonOnly /\ stream[p] # <<>> THEN "sse" ELSE "json")
       ELSE /\ at' = [at EXCEPT ![p] = "arming"]
            /\ UNCHANGED <<table, outcome>>
    /\ UNCHANGED <<closed, sessionVars, toServer, toClient, reader, ready, body, stream, session,
                   unassigned, store, woken, job, modeVars>>

\* timer_signal->async_wait
Arm(p) ==
    /\ at[p] = "arming"
    /\ at' = [at EXCEPT ![p] = "waiting"]
    /\ UNCHANGED <<closed, sessionVars, toServer, toClient, reader, entryVars, session, outcome,
                   unassigned, store, woken, job, modeVars>>

\* Mutant: the timer is cancelled by the thread that has the answer.
CancelRunsAtOnce(p) == TRUE

\* signal_timer posts the cancel to the connection's strand, where it cannot run
\* between the test of response_ready and the wait.
CancelRuns(p) == at[p] # "arming"

\* The posted cancel runs; it wakes the wait if there is one.
RunCancel(p) ==
    /\ p \in woken
    /\ CancelRuns(p)
    /\ woken' = woken \ {p}
    /\ at' = [at EXCEPT ![p] = IF @ = "waiting" THEN "checking" ELSE @]
    /\ UNCHANGED <<closed, sessionVars, toServer, toClient, reader, entryVars, session, outcome,
                   unassigned, store, job, modeVars>>

---------------------------------------------------------------------------
\* The Server of a session

\* Its read loop takes the next request and starts its handler.
ServerReads(s) ==
    /\ link[s] = "open" /\ reader[s] # "none"
    /\ toServer[s] # <<>>
    /\ job' = [job EXCEPT ![Head(toServer[s])] = "handling"]
    /\ toServer' = [toServer EXCEPT ![s] = Tail(@)]
    /\ UNCHANGED <<closed, sessionVars, toClient, reader, entryVars, postVars, unassigned, store, woken,
                   modeVars>>

\* A handler's answer is written; a closed transport loses it.
ServerAnswers(p) ==
    /\ job[p] = "handling"
    /\ job' = [job EXCEPT ![p] = "answered"]
    /\ toClient' = IF link[session[p]] = "open"
                   THEN [toClient EXCEPT ![session[p]] = Append(@, p)] ELSE toClient
    /\ UNCHANGED <<closed, sessionVars, toServer, reader, entryVars, postVars, unassigned, store, woken,
                   modeVars>>

\* The Server sends a notification.
ServerNotifies(s) ==
    /\ link[s] = "open" /\ reader[s] # "none"
    /\ notes < MaxNotes
    /\ notes' = notes + 1
    /\ toClient' = [toClient EXCEPT ![s] = Append(@, NoPost)]
    /\ UNCHANGED <<closed, sessionVars, toServer, reader, entryVars, postVars, unassigned, store, woken,
                   job, jsonOnly, flips>>

---------------------------------------------------------------------------
\* read_outbound_messages

\* Mutant: an event that waits for its owner is also left for the next response.
UnassignedKept(s) == unassigned[s]

\* unassigned_stream_events.clear()
UnassignedTaken(s) == <<>>

\* dispatch_response_to_pending of a notification: to the only pending request,
\* to nobody yet when there are several, and only to the store when there is none.
RouteNote(s, event) ==
    /\ UNCHANGED <<ready, body, woken>>
    /\ \/ /\ jsonOnly \/ table[s] = {}
          /\ UNCHANGED <<stream, unassigned>>
       \/ /\ ~jsonOnly
          /\ \E p \in table[s] : table[s] = {p} /\ stream' = [stream EXCEPT ![p] = Append(@, event)]
          /\ UNCHANGED unassigned
       \/ /\ ~jsonOnly /\ Cardinality(table[s]) > 1
          /\ unassigned' = [unassigned EXCEPT ![s] = Append(@, event)]
          /\ UNCHANGED stream

\* Mutant: the response is only the body.
EventsBefore(p, s, event) == stream[p] \o unassigned[s]

\* What the stream of a request becomes with its response: behind the events
\* nobody owns yet.
EventsWith(p, s, event) == stream[p] \o unassigned[s] \o <<event>>

\* dispatch_response_to_pending of a response: the entry under its id gets it.
RouteResponse(s, answered, event) ==
    \/ /\ \A p \in table[s] : p.id # answered.id
       /\ unassigned' = [unassigned EXCEPT ![s] = <<>>]
       /\ UNCHANGED <<stream, ready, body, woken>>
    \/ \E p \in table[s] :
          /\ p.id = answered.id
          /\ stream' = IF jsonOnly THEN stream
                       ELSE [stream EXCEPT ![p] = EventsWith(p, s, event)]
          /\ unassigned' = IF jsonOnly THEN unassigned
                           ELSE [unassigned EXCEPT ![s] = UnassignedTaken(s)]
          /\ body' = [body EXCEPT ![p] = answered]
          /\ ready' = ready \cup {p}
          /\ woken' = woken \cup {p}

\* The reader takes one message and hands it on under response_mutex.
ReadOutbound(s) ==
    /\ reader[s] = "running"
    /\ link[s] = "open"
    /\ toClient[s] # <<>>
    /\ toClient' = [toClient EXCEPT ![s] = Tail(@)]
    /\ store' = IF jsonOnly THEN store ELSE [store EXCEPT ![s] = AppendEvent(@, Capacity)]
    /\ LET message == Head(toClient[s])
           event == [n |-> store[s].next + 1, of |-> message]
       IN IF message = NoPost THEN RouteNote(s, event) ELSE RouteResponse(s, message, event)
    /\ UNCHANGED <<closed, sessionVars, toServer, reader, table, postVars, job, modeVars>>

\* The entries the end of the reader marks as ready.
ReaderEnds(s) == table[s]

\* The transport is closed: the reader ends and releases every waiter.
EndReader(s) ==
    /\ reader[s] = "running"
    /\ link[s] = "closed"
    /\ reader' = [reader EXCEPT ![s] = "ended"]
    /\ ready' = ready \cup ReaderEnds(s)
    /\ woken' = woken \cup ReaderEnds(s)
    /\ UNCHANGED <<closed, sessionVars, toServer, toClient, table, body, stream, postVars, unassigned,
                   store, job, modeVars>>

---------------------------------------------------------------------------
\* Ending sessions

\* handle_delete and destroy_session: out of the map first.
Delete(s) ==
    /\ ~closed
    /\ s \in sessions
    /\ \E q \in Posts : session[q] = s /\ outcome[q] \in {"json", "sse"}
    /\ sessions' = sessions \ {s}
    /\ deleting' = deleting \cup {s}
    /\ marking' = marking \cup {s}
    /\ UNCHANGED <<closed, used, link, taken, ending, toServer, toClient, reader, entryVars, postVars,
                   unassigned, store, woken, job, modeVars>>

\* The waiters of an ended session are marked and signalled.
MarkWaiters(s) ==
    /\ s \in marking
    /\ marking' = marking \ {s}
    /\ ready' = ready \cup table[s]
    /\ woken' = woken \cup table[s]
    /\ UNCHANGED <<closed, sessions, used, link, deleting, taken, ending, toServer, toClient, reader,
                   table,
                   body, stream, postVars, unassigned, store, job, modeVars>>

\* client_transport->close(), which closes both ends.
LinkClosed(s) == [link EXCEPT ![s] = "closed"]

\* The transport of an ended session is closed.
CloseLink(s) ==
    /\ s \in deleting \cup ending
    /\ s \notin marking
    /\ link' = LinkClosed(s)
    /\ deleting' = deleting \ {s}
    /\ ending' = ending \ {s}
    /\ UNCHANGED <<closed, sessions, used, marking, taken, toServer, toClient, reader, entryVars, postVars,
                   unassigned, store, woken, job, modeVars>>

\* close(), from any thread: no request is accepted from here on.
Close ==
    /\ ~closed
    /\ closed' = TRUE
    /\ UNCHANGED <<sessionVars, toServer, toClient, reader, entryVars, postVars, unassigned, store,
                   woken, job, modeVars>>

\* close() moves every session out of the map.
TakeSessions ==
    /\ closed /\ ~taken
    /\ taken' = TRUE
    /\ sessions' = {}
    /\ ending' = ending \cup sessions
    /\ marking' = marking \cup sessions
    /\ UNCHANGED <<closed, used, link, deleting, toServer, toClient, reader, entryVars, postVars,
                   unassigned, store, woken, job, modeVars>>

\* set_json_only, at any time.
SetJsonOnly ==
    /\ flips < MaxFlips
    /\ flips' = flips + 1
    /\ jsonOnly' = ~jsonOnly
    /\ UNCHANGED <<closed, sessionVars, toServer, toClient, reader, entryVars, postVars, unassigned,
                   store, woken, job, notes>>

Next ==
    \/ Close \/ TakeSessions \/ SetJsonOnly
    \/ \E p \in Posts : \/ BeginCreate(p) \/ Insert(p) \/ Register(p) \/ Write(p) \/ Check(p)
                        \/ Arm(p) \/ RunCancel(p) \/ ServerAnswers(p)
    \/ \E p \in Posts, s \in Sessions : Find(p, s)
    \/ \E s \in Sessions : \/ ServerReads(s) \/ ServerNotifies(s) \/ ReadOutbound(s) \/ EndReader(s)
                           \/ Delete(s) \/ MarkWaiters(s) \/ CloseLink(s)

\* The executor runs every strand.  Nothing is assumed of the Server's handlers.
Fairness ==
    /\ WF_vars(TakeSessions)
    /\ \A p \in Posts : /\ WF_vars(Insert(p)) /\ WF_vars(Register(p)) /\ WF_vars(Write(p))
                        /\ WF_vars(Check(p)) /\ WF_vars(Arm(p)) /\ WF_vars(RunCancel(p))
    /\ \A s \in Sessions : /\ WF_vars(ReadOutbound(s)) /\ WF_vars(EndReader(s))
                           /\ WF_vars(MarkWaiters(s)) /\ WF_vars(CloseLink(s))

Safety == Init /\ [][Next]_vars
Spec == Safety /\ Fairness

---------------------------------------------------------------------------
\* close() misses no session, not even one that create_session was building
\* meanwhile: when it is through, every transport that was opened is closed.
NoSessionSurvivesClose ==
    (taken /\ ending = {} /\ deleting = {}
        /\ \A p \in Posts : at[p] # "creating")
    => \A s \in used : link[s] = "closed"

\* In a live session a reply holds the answer to the request it replies to, also
\* when the client uses an id again.
OwnAnswer ==
    \A p \in Posts :
        outcome[p] \in {"json", "sse"} /\ session[p] \in sessions => body[p] = p

\* An id of a live session is blocked only while somebody waits for its answer: no
\* entry is left behind in pending_responses.
TableHasWaiters ==
    \A s \in sessions : table[s] \subseteq
        {p \in Posts : session[p] = s /\ at[p] \in {"registered", "checking", "arming", "waiting"}}

\* Ids can be used again: nobody is given the answer to another's request, and no
\* entry of the pending table blocks its id for good.
RepliesOwned == OwnAnswer /\ TableHasWaiters

\* An event is sent on at most one stream.
EventSentOnce ==
    \A p, q \in Posts : \A i \in 1..Len(stream[p]), j \in 1..Len(stream[q]) :
        session[p] = session[q] /\ stream[p][i].n = stream[q][j].n => p = q /\ i = j

\* A request that is answered with an event stream finds the response it was given in it.
ReplyHoldsAnswer ==
    \A p \in Posts : outcome[p] = "sse" => \E i \in 1..Len(stream[p]) : stream[p][i].of = body[p]

\* A client that asks for what follows the last event it saw is told that this
\* event is gone or is given everything that followed it.
ReplayHasNoGap ==
    \A s \in Sessions : \A last \in 1..store[s].next :
        EventsAfter(store[s], last) \subseteq {Missed(store[s], last)}

\* What the Server sends reaches the client on one stream, before the response, or
\* by a replay without a gap.
EventsDelivered == EventSentOnce /\ ReplyHoldsAnswer /\ ReplayHasNoGap

\* A request that waits when its session is ended, or gets its answer, returns,
\* although handlers may never return.
EndReleasesWaiter ==
    []<>(\A p \in Posts :
            at[p] \in {"checking", "arming", "waiting"} =>
                p \notin ready /\ ~closed /\ link[session[p]] # "closed")
=============================================================================

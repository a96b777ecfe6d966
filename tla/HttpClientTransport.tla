--------------------------- MODULE HttpClientTransport ---------------------------
(***************************************************************************)
(* HttpClientTransport (src/src/transport/http_client.cpp): every write is   *)
(* one HTTP exchange, one at a time, whose response feeds the read queue;    *)
(* close() ends the session with a DELETE once the exchange under way has    *)
(* given up.                                                                 *)
(*                                                                           *)
(* Everything runs on one strand except close(), which sets its flag from    *)
(* any thread and spawns the rest.  Resolver, socket, deadline and server    *)
(* are external: an operation ends with success or an exception.             *)
(***************************************************************************)
EXTENDS Naturals, Sequences, FiniteSets

CONSTANTS
    Writes,       \* write_message calls, each made at most once
    Reads         \* read_message calls, each made at most once

VARIABLES
    closed,       \* SharedState::closed
    wakePosted,   \* close() has posted the cancel of the read timer
    closer,       \* where the coroutine close() spawned is
    stream,       \* SharedState::stream: "none", or its socket is "open" or "closed"
    active,       \* operation_active
    op,           \* where each write and read is
    opWoken,      \* waits on operation_timer that were cancelled
    readActive,   \* read_active
    readWoken,    \* the wait on the read timer was cancelled
    queue,        \* SharedState::queue, each message named after the write it answers
    hasSession,   \* ~session_id.empty()
    sent          \* history: writes whose request was put on an open socket

vars == <<closed, wakePosted, closer, stream, active, op, opWoken, readActive, readWoken, queue,
          hasSession, sent>>

Calls == Writes \cup Reads

\* The values each variable of the transport can hold.
TypeOK ==
    /\ closed \in BOOLEAN /\ wakePosted \in BOOLEAN /\ active \in BOOLEAN
    /\ closer \in {"none", "spawned", "waiting", "deleting", "done"}
    /\ stream \in {"none", "open", "closed"}
    /\ op \in [Calls -> {"idle", "spawned", "waiting", "resolving", "connecting", "exchanging",
                         "done", "failed"}]
    /\ opWoken \subseteq Writes \cup {"closer"}
    /\ readActive \in BOOLEAN /\ readWoken \in BOOLEAN
    /\ hasSession \in BOOLEAN
    /\ queue \in Seq(Writes) /\ sent \subseteq Writes

Init ==
    /\ closed = FALSE /\ wakePosted = FALSE /\ closer = "none"
    /\ stream = "none" /\ active = FALSE
    /\ op = [o \in Calls |-> "idle"]
    /\ opWoken = {} /\ readActive = FALSE /\ readWoken = FALSE
    /\ queue = <<>> /\ sent = {}
    /\ hasSession = FALSE

readVars == <<readActive, readWoken>>
closeVars == <<closed, closer>>

---------------------------------------------------------------------------
\* read_message or write_message: the coroutine is spawned on the strand.
Call(o) ==
    /\ op[o] = "idle"
    /\ op' = [op EXCEPT ![o] = "spawned"]
    /\ UNCHANGED <<closeVars, wakePosted, stream, active, opWoken, readVars, queue, hasSession, sent>>

\* The turn of the loop in run_read: a queued message even when closed, the
\* exception of a closed transport, or the wait for the timer.
ReadTurn(r) ==
    /\ IF queue # <<>>
       THEN /\ op' = [op EXCEPT ![r] = "done"]
            /\ queue' = Tail(queue)
       ELSE /\ op' = [op EXCEPT ![r] = IF closed THEN "failed" ELSE "waiting"]
            /\ UNCHANGED queue
    /\ readActive' = (queue = <<>> /\ ~closed)
    /\ readWoken' = FALSE
    /\ UNCHANGED <<closeVars, wakePosted, stream, active, opWoken, hasSession, sent>>

\* run_read runs for the first time; a second pending read is refused.
StartRead(r) ==
    /\ r \in Reads /\ op[r] = "spawned"
    /\ IF readActive
       THEN /\ op' = [op EXCEPT ![r] = "failed"]
            /\ UNCHANGED <<closeVars, wakePosted, stream, active, opWoken, readVars, queue, hasSession,
                           sent>>
       ELSE ReadTurn(r)

\* The cancelled wait on the read timer ends.
ResumeRead(r) ==
    /\ r \in Reads /\ op[r] = "waiting"
    /\ readWoken
    /\ ReadTurn(r)

\* Mutant: a wakeup for close() is skipped while nothing is queued.
WakesIfQueued == queue # <<>> /\ \E r \in Reads : op[r] = "waiting"

\* timer.cancel() wakes the read that waits, if there is one.
WakesRead == \E r \in Reads : op[r] = "waiting"

\* The cancel close() posted runs on the strand.
RunWake ==
    /\ wakePosted
    /\ wakePosted' = FALSE
    /\ readWoken' = (readWoken \/ WakesRead)
    /\ UNCHANGED <<closeVars, stream, active, op, opWoken, readActive, queue, hasSession, sent>>

---------------------------------------------------------------------------
\* Mutant: a write that has waited for its turn does not look at `closed` again.
RefusedNever == FALSE

\* closed, looked at when run_write starts and after every wait.
Refused == closed

\* run_write up to its first suspension on the network: refused, waiting while an
\* exchange is under way, or the next one to go.
WriteTurn(w) ==
    /\ op' = [op EXCEPT ![w] = IF Refused THEN "failed"
                               ELSE IF active THEN "waiting"
                               ELSE IF stream = "none" THEN "resolving" ELSE "exchanging"]
    /\ active' = (active \/ ~Refused)
    /\ sent' = IF ~Refused /\ ~active /\ stream = "open" THEN sent \cup {w} ELSE sent
    /\ UNCHANGED <<closeVars, wakePosted, stream, readVars, queue, hasSession>>

\* run_write runs for the first time.
StartWrite(w) ==
    /\ w \in Writes /\ op[w] = "spawned"
    /\ WriteTurn(w)
    /\ UNCHANGED opWoken

\* The cancelled wait on operation_timer ends.
ResumeWrite(w) ==
    /\ w \in Writes /\ op[w] = "waiting"
    /\ w \in opWoken
    /\ WriteTurn(w)
    /\ opWoken' = opWoken \ {w}

\* Mutant: only the next write is woken, not close().
WakesWrites == {w \in Writes : op[w] = "waiting"}

\* operation_timer.cancel() ends every wait on it.
WakesAll == {w \in Writes : op[w] = "waiting"} \cup (IF closer = "waiting" THEN {"closer"} ELSE {})

\* complete_operation
CompleteOperation ==
    /\ active' = FALSE
    /\ opWoken' = opWoken \cup WakesAll

\* run_write ends with an exception: reset_connection and complete_operation.  An
\* error response may name a session.
WriteFails(w) ==
    /\ op[w] \in {"resolving", "connecting", "exchanging"}
    /\ op' = [op EXCEPT ![w] = "failed"]
    /\ stream' = "none"
    /\ hasSession' \in {hasSession, hasSession \/ w \in sent}
    /\ CompleteOperation
    /\ UNCHANGED <<closeVars, wakePosted, readVars, queue, sent>>

\* Mutant: the connect goes ahead although close() has been called meanwhile.
ConnectsAnyway == TRUE

\* closed, looked at between the resolve and the connect.
MayConnect == ~closed

\* ensure_connected behind the resolve: the socket is opened by the connect.
Resolved(w) ==
    /\ op[w] = "resolving"
    /\ MayConnect
    /\ op' = [op EXCEPT ![w] = "connecting"]
    /\ stream' = "open"
    /\ UNCHANGED <<closeVars, wakePosted, active, opWoken, readVars, queue, hasSession, sent>>

\* The connect has succeeded: the request is written, which fails if close() has
\* closed the socket since.
Connected(w) ==
    /\ op[w] = "connecting"
    /\ op' = [op EXCEPT ![w] = "exchanging"]
    /\ sent' = IF stream = "open" THEN sent \cup {w} ELSE sent
    /\ UNCHANGED <<closeVars, wakePosted, stream, active, opWoken, readVars, queue, hasSession>>

\* The response is there: it may name a session, may close the connection and
\* holds no message, one, or the several events of a stream (two stand for them).
Responded(w) ==
    /\ op[w] = "exchanging"
    /\ w \in sent
    /\ op' = [op EXCEPT ![w] = "done"]
    /\ stream' \in {stream, "none"}
    /\ hasSession' \in {hasSession, TRUE}
    /\ \E n \in 0..2 :
          /\ queue' = queue \o [i \in 1..n |-> w]
          /\ readWoken' = (readWoken \/ (n > 0 /\ WakesRead))
    /\ CompleteOperation
    /\ UNCHANGED <<closeVars, wakePosted, readActive, sent>>

---------------------------------------------------------------------------
\* close(), from any thread.
Close ==
    /\ ~closed
    /\ closed' = TRUE
    /\ wakePosted' = TRUE
    /\ closer' = "spawned"
    /\ UNCHANGED <<stream, active, op, opWoken, readVars, queue, hasSession, sent>>

\* Mutant: the DELETE is not sent when its connection has to be made first.
MustDeleteConnected == hasSession /\ stream = "open"

\* !active_session_id->empty(), looked at behind the wait.
MustDelete == hasSession

\* Behind the wait for the exchange: the DELETE, if there is a session to end.
EndSession == closer' = IF MustDelete THEN "deleting" ELSE "done"

\* operation_active
WaitsForExchange == active

\* The coroutine of close() starts: it closes the socket under an exchange and
\* waits for it to give up.
StartCloser ==
    /\ closer = "spawned"
    /\ IF WaitsForExchange
       THEN /\ stream' = IF stream = "open" THEN "closed" ELSE stream
            /\ closer' = "waiting"
       ELSE /\ EndSession
            /\ stream' = IF hasSession THEN stream ELSE "none"
    /\ UNCHANGED <<closed, wakePosted, active, op, opWoken, readVars, queue, hasSession, sent>>

\* The wait for the exchange ends, or goes on if another exchange is under way.
ResumeCloser ==
    /\ closer = "waiting" /\ "closer" \in opWoken
    /\ opWoken' = opWoken \ {"closer"}
    /\ IF active
       THEN UNCHANGED <<closer, stream>>
       ELSE /\ EndSession
            /\ stream' = IF hasSession /\ stream = "open" THEN "open" ELSE "none"
    /\ UNCHANGED <<closed, wakePosted, active, op, readVars, queue, hasSession, sent>>

\* The DELETE ends, answered or not; the session is forgotten.
DeleteEnds ==
    /\ closer = "deleting"
    /\ closer' = "done"
    /\ stream' = "none"
    /\ hasSession' = FALSE
    /\ UNCHANGED <<closed, wakePosted, active, op, opWoken, readVars, queue, sent>>

Next ==
    \/ RunWake \/ Close \/ StartCloser \/ ResumeCloser \/ DeleteEnds
    \/ \E o \in Calls : Call(o)
    \/ \E r \in Reads : StartRead(r) \/ ResumeRead(r)
    \/ \E w \in Writes : \/ StartWrite(w) \/ ResumeWrite(w) \/ WriteFails(w) \/ Resolved(w) \/ Connected(w)
                         \/ Responded(w)

\* The executor runs the strand, and an exchange ends: every one runs under a
\* deadline that closes its socket.
Fairness ==
    /\ WF_vars(RunWake) /\ WF_vars(StartCloser) /\ WF_vars(ResumeCloser) /\ WF_vars(DeleteEnds)
    /\ \A w \in Writes : /\ WF_vars(StartWrite(w)) /\ WF_vars(ResumeWrite(w))
                         /\ WF_vars(WriteFails(w) \/ Resolved(w) \/ Connected(w) \/ Responded(w))
    /\ \A r \in Reads : WF_vars(StartRead(r)) /\ WF_vars(ResumeRead(r))

Safety == Init /\ [][Next]_vars
Spec == Safety /\ Fairness

---------------------------------------------------------------------------
\* One exchange is under way at a time, and none once close() has come to its
\* DELETE: nothing is sent in a session behind its end.
OneExchange ==
    LET exchanges == {w \in Writes : op[w] \in {"resolving", "connecting", "exchanging"}}
    IN /\ Cardinality(exchanges) <= 1
       /\ closer \in {"deleting", "done"} => exchanges = {}

\* An exchange close() waits for has lost its socket and cannot get another one,
\* wherever it was when close() came.
CloseCutsExchange == closer = "waiting" => stream # "open"

\* Whoever waits on operation_timer, close() included, waits for an exchange whose end
\* cancels it, or was woken: the timer has no expiry of its own.
NoTurnMissed ==
    (\E w \in Writes : op[w] = "waiting" /\ w \notin opWoken) \/ (closer = "waiting" /\ "closer" \notin opWoken)
        => \E w \in Writes : op[w] \in {"resolving", "connecting", "exchanging"}

\* A read sleeps only while there is nothing for it, and no close() it could miss.
NoReadStarves ==
    (\E r \in Reads : op[r] = "waiting") /\ ~readWoken => queue = <<>> /\ (closed => wakePosted)

\* close() forgets no session: the one the transport knows when close() is through
\* was ended by a DELETE, also if its id came with the last response.
SessionIsEnded == closer = "done" => ~hasSession

\* Every call returns, and close() comes to its end.
CloseEnds ==
    /\ \A o \in Calls : closed /\ op[o] # "idle" ~> op[o] \in {"done", "failed"}
    /\ closed ~> closer = "done"
=============================================================================

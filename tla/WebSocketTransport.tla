--------------------------- MODULE WebSocketTransport ---------------------------
(***************************************************************************)
(* WebSocketServerTransport and WebSocketClientTransport                     *)
(* (src/src/transport/websocket.cpp).  The two differ in how the connection  *)
(* is established (accepting an upgrade, or resolving, connecting and        *)
(* shaking hands under a deadline) and share everything else: the first      *)
(* operation establishes it while the others wait, one read is allowed at a  *)
(* time, and writes pass the SerializedWriteGate one by one.                 *)
(*                                                                           *)
(* Operations run on the strand; close() sets its flag from any thread and   *)
(* posts the rest.  The network is external.                                 *)
(***************************************************************************)
EXTENDS Naturals, Sequences, FiniteSets, SequencesExt

CONSTANTS
    Writes,      \* write_message calls, each made at most once
    Reads        \* read_message calls, each made at most once

VARIABLES
    closed,      \* Impl::closed
    closePosted, \* close_on_strand is posted and has not run
    socketOpen,  \* FALSE once close_socket ran
    state,       \* handshake_state of the server, connection_state of the client
    op,          \* where the coroutine of each call is
    hsWaiters,   \* handshake_waiters, connection_waiters
    active,      \* SerializedWriteGate::active_
    waiters,     \* SerializedWriteGate::waiters_
    granted,     \* waiters with OperationWaiter::granted
    readActive,  \* read_active
    queued,      \* history: writes in the order they came to the gate
    wire         \* history: writes in the order async_write was begun on an open socket

vars == <<closed, closePosted, socketOpen, state, op, hsWaiters, active, waiters, granted, readActive,
          queued, wire>>

Calls == Writes \cup Reads

\* The values each variable of the transport can hold.
TypeOK ==
    /\ closed \in BOOLEAN /\ closePosted \in BOOLEAN /\ socketOpen \in BOOLEAN
    /\ state \in {"pending", "establishing", "open", "failed"}
    /\ op \in [Calls -> {"idle", "spawned", "establishing", "hsWaiting", "hsWoken", "gateWaiting",
                         "gateWoken", "io", "done", "failed"}]
    /\ hsWaiters \subseteq Calls /\ granted \subseteq Writes
    /\ active \in BOOLEAN /\ readActive \in BOOLEAN
    /\ waiters \in Seq(Writes) /\ queued \in Seq(Writes) /\ wire \in Seq(Writes)

Init ==
    /\ closed = FALSE /\ closePosted = FALSE /\ socketOpen = TRUE
    /\ state = "pending"
    /\ op = [o \in Calls |-> "idle"]
    /\ hsWaiters = {} /\ granted = {}
    /\ active = FALSE /\ readActive = FALSE
    /\ waiters = <<>> /\ queued = <<>> /\ wire = <<>>

---------------------------------------------------------------------------
\* read_message or write_message: the coroutine is spawned on the strand.
Call(o) ==
    /\ op[o] = "idle"
    /\ op' = [op EXCEPT ![o] = "spawned"]
    /\ UNCHANGED <<closed, closePosted, socketOpen, state, hsWaiters, active, waiters, granted,
                   readActive, queued, wire>>

\* async_write of w begins; on a closed socket it reaches nobody.
BeginWrite(w) == wire' = IF socketOpen THEN Append(wire, w) ELSE wire

\* Behind ensure_handshake or ensure_connected: a read goes to the socket, a
\* write to the gate.  acquire: in at once, or in line, or refused when closed.
Proceed(o, ops) ==
    \/ /\ o \in Reads
       /\ op' = [ops EXCEPT ![o] = "io"]
       /\ UNCHANGED <<active, waiters, queued, wire>>
    \/ /\ o \in Writes /\ closed
       /\ op' = [ops EXCEPT ![o] = "failed"]
       /\ UNCHANGED <<active, waiters, queued, wire>>
    \/ /\ o \in Writes /\ ~closed /\ ~active
       /\ active' = TRUE
       /\ op' = [ops EXCEPT ![o] = "io"]
       /\ queued' = Append(queued, o)
       /\ BeginWrite(o)
       /\ UNCHANGED waiters
    \/ /\ o \in Writes /\ ~closed /\ active
       /\ waiters' = Append(waiters, o)
       /\ op' = [ops EXCEPT ![o] = "gateWaiting"]
       /\ queued' = Append(queued, o)
       /\ UNCHANGED <<active, wire>>

gateUnchanged == UNCHANGED <<active, waiters, queued, wire>>

\* The call ends with an exception; the reservation of a read ends with it.
Fails(o) ==
    /\ op' = [op EXCEPT ![o] = "failed"]
    /\ readActive' = (readActive /\ o \notin Reads)

\* Mutant: an operation that finds the handshake under way starts its own.
Unestablished == state \in {"pending", "establishing"}

\* The state in which an operation begins the handshake itself.
Establishes == state = "pending"

\* read or write runs for the first time, up to its first suspension.
Start(o) ==
    /\ op[o] = "spawned"
    /\ \/ /\ closed \/ (o \in Reads /\ readActive)
          /\ op' = [op EXCEPT ![o] = "failed"]
          /\ UNCHANGED <<state, hsWaiters, readActive>>
          /\ gateUnchanged
       \/ /\ ~closed /\ (o \in Reads => ~readActive)
          /\ state = "failed"
          /\ op' = [op EXCEPT ![o] = "failed"]
          /\ UNCHANGED <<state, hsWaiters, readActive>>
          /\ gateUnchanged
       \/ /\ ~closed /\ (o \in Reads => ~readActive)
          /\ readActive' = (readActive \/ o \in Reads)
          /\ \/ /\ state = "open"
                /\ Proceed(o, op)
                /\ UNCHANGED <<state, hsWaiters>>
             \/ /\ Establishes
                /\ state' = "establishing"
                /\ op' = [op EXCEPT ![o] = "establishing"]
                /\ UNCHANGED hsWaiters
                /\ gateUnchanged
             \/ /\ state = "establishing" /\ ~Establishes
                /\ op' = [op EXCEPT ![o] = "hsWaiting"]
                /\ hsWaiters' = hsWaiters \cup {o}
                /\ UNCHANGED state
                /\ gateUnchanged
    /\ UNCHANGED <<closed, closePosted, socketOpen, granted>>

\* Mutant: the connection counts as open without another look at `closed`.
OpensAnyway == TRUE

\* A handshake that succeeded is not taken if the transport was closed meanwhile.
MayOpen == ~closed

\* notify_handshake_waiters, notify_connection_waiters
HsWoken(ops) == [o \in Calls |-> IF o \in hsWaiters THEN "hsWoken" ELSE ops[o]]

\* The handshake of o ends: with success, or by the peer, the deadline or close().
\* The others are woken either way.
Established(o) ==
    /\ op[o] = "establishing"
    /\ hsWaiters' = {}
    /\ \/ /\ MayOpen
          /\ state' = "open"
          /\ Proceed(o, HsWoken(op))
          /\ UNCHANGED readActive
       \/ /\ state' = "failed"
          /\ op' = [HsWoken(op) EXCEPT ![o] = "failed"]
          /\ readActive' = (readActive /\ o \notin Reads)
          /\ gateUnchanged
    /\ UNCHANGED <<closed, closePosted, socketOpen, granted>>

\* wait_for_handshake, wait_for_connection: the wait ends.
HsResume(o) ==
    /\ op[o] = "hsWoken"
    /\ IF ~closed /\ state = "open"
       THEN Proceed(o, op) /\ UNCHANGED readActive
       ELSE Fails(o) /\ gateUnchanged
    /\ UNCHANGED <<closed, closePosted, socketOpen, state, hsWaiters, granted>>

---------------------------------------------------------------------------
\* The SerializedWriteGate

\* Mutant: the gate looks free while it is handed to the next write.
FreedOnHandover == FALSE

\* active_ while the gate is handed to the next write.
HeldOnHandover == TRUE

\* Mutant: a gate nobody waits at stays taken.
TakenWhenIdle == TRUE

\* active_ when nobody waits for the gate, or may have it.
ActiveWhenIdle == FALSE

\* release: the gate is handed to the write that has waited longest, or is free.
Release(ops) ==
    IF closed \/ waiters = <<>>
    THEN /\ active' = ActiveWhenIdle
         /\ op' = ops
         /\ UNCHANGED <<waiters, granted>>
    ELSE /\ active' = HeldOnHandover
         /\ waiters' = Tail(waiters)
         /\ granted' = granted \cup {Head(waiters)}
         /\ op' = [ops EXCEPT ![Head(waiters)] = "gateWoken"]

\* The wait in acquire ends.  With the gate in hand the write begins, unless the
\* transport was closed on the way.
GateResume(w) ==
    /\ op[w] = "gateWoken"
    /\ \/ /\ w \in granted /\ ~closed
          /\ op' = [op EXCEPT ![w] = "io"]
          /\ granted' = granted \ {w}
          /\ BeginWrite(w)
          /\ UNCHANGED <<active, waiters>>
       \/ /\ w \in granted /\ closed
          /\ Release([op EXCEPT ![w] = "failed"])
          /\ UNCHANGED wire
       \/ /\ w \notin granted
          /\ op' = [op EXCEPT ![w] = "failed"]
          /\ UNCHANGED <<active, waiters, granted, wire>>
    /\ UNCHANGED <<closed, closePosted, socketOpen, state, hsWaiters, readActive, queued>>

\* async_write ends, with success or not, and the gate is released.
WriteEnds(w) ==
    /\ w \in Writes /\ op[w] = "io"
    /\ \E result \in {"done", "failed"} :
          /\ result = "done" => Contains(wire, w)
          /\ Release([op EXCEPT ![w] = result])
    /\ UNCHANGED <<closed, closePosted, socketOpen, state, hsWaiters, readActive, queued, wire>>

\* async_read ends: a message, or the end of the connection.
ReadEnds(r) ==
    /\ r \in Reads /\ op[r] = "io"
    /\ \E result \in {"done", "failed"} : op' = [op EXCEPT ![r] = result]
    /\ readActive' = FALSE
    /\ UNCHANGED <<closed, closePosted, socketOpen, state, hsWaiters, active, waiters, granted, queued,
                   wire>>

---------------------------------------------------------------------------
\* close(), from any thread.
Close ==
    /\ ~closed
    /\ closed' = TRUE
    /\ closePosted' = TRUE
    /\ UNCHANGED <<socketOpen, state, op, hsWaiters, active, waiters, granted, readActive, queued, wire>>

\* Mutant: close_on_strand forgets the writes that wait at the gate.
GateForgotten(o) == FALSE

\* write_gate.cancel()
GateCancelled(o) == Contains(waiters, o)

\* close_on_strand: everyone who waits is woken, and the socket is closed.
RunClose ==
    /\ closePosted
    /\ closePosted' = FALSE
    /\ state' = "failed"
    /\ op' = [o \in Calls |-> IF o \in hsWaiters THEN "hsWoken"
                              ELSE IF GateCancelled(o) THEN "gateWoken" ELSE op[o]]
    /\ hsWaiters' = {}
    /\ waiters' = <<>>
    /\ socketOpen' = FALSE
    /\ UNCHANGED <<closed, active, granted, readActive, queued, wire>>

Next ==
    \/ Close \/ RunClose
    \/ \E o \in Calls : Call(o) \/ Start(o) \/ Established(o) \/ HsResume(o)
    \/ \E w \in Writes : GateResume(w) \/ WriteEnds(w)
    \/ \E r \in Reads : ReadEnds(r)

\* The executor runs the strand, and the socket ends what was begun on it once it
\* is closed.  The peer owes nothing: an open connection may be silent for ever.
Fairness ==
    /\ WF_vars(RunClose)
    /\ \A o \in Calls : /\ WF_vars(Start(o)) /\ WF_vars(HsResume(o))
                        /\ WF_vars(~socketOpen /\ Established(o))
    /\ \A w \in Writes : WF_vars(GateResume(w)) /\ WF_vars(~socketOpen /\ WriteEnds(w))
    /\ \A r \in Reads : WF_vars(~socketOpen /\ ReadEnds(r))

Safety == Init /\ [][Next]_vars
Spec == Safety /\ Fairness

---------------------------------------------------------------------------
\* Two writes are never under way on the socket at once, which the stream does not
\* allow, and writes are made in the order they came to the gate.
WritesSerialized ==
    /\ Cardinality({w \in Writes : op[w] = "io"}) <= 1
    /\ \A i, j \in 1..Len(wire) : \A a, b \in 1..Len(queued) :
           i < j /\ wire[i] = queued[a] /\ wire[j] = queued[b] => a < b

\* A write waits only while somebody will wake it: whoever holds the gate, or
\* close_on_strand.
NoWriteStranded ==
    waiters # <<>> => closePosted \/ granted # {} \/ \E w \in Writes : op[w] = "io"

\* The handshake is made once: no second one starts beside it or after it.
OneHandshake ==
    /\ Cardinality({o \in Calls : op[o] = "establishing"}) <= 1
    /\ (\E o \in Calls : op[o] = "establishing") => state = "establishing" \/ ~socketOpen

\* An operation waits for the handshake of another one only while that one is making
\* it, and is on the list the end of the handshake and close_on_strand go through.
NoHandshakeMissed ==
    \A o \in Calls : op[o] = "hsWaiting" => o \in hsWaiters /\ \E p \in Calls : op[p] = "establishing"

\* A transport whose socket was closed is never open again, whatever the handshake
\* that was under way says.
ClosedStaysClosed == ~socketOpen => state = "failed"

\* After close() every call returns, wherever it was waiting.
CloseEndsCalls == \A o \in Calls : closed /\ op[o] # "idle" ~> op[o] \in {"done", "failed"}
=============================================================================

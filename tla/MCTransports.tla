------------------------------ MODULE MCTransports ------------------------------
(***************************************************************************)
(* Model checking of the transports behind ITransport.  They do not interact *)
(* with one another, so each behaviour exercises one of them, picked in the  *)
(* initial state, while the others rest: the states add up instead of        *)
(* multiplying.                                                              *)
(***************************************************************************)
EXTENDS Naturals, Sequences

CONSTANTS Messages, MemoryReads, NoMessage,     \* the memory transport
          SocketWrites, SocketReads,            \* the WebSocket transports
          Writes, Reads,                        \* the HTTP client and stdio transports
          Closers, InnerClosers, MaxLines,      \* the stdio transport
          Connections                           \* the listeners of the HTTP servers

ASSUME TransportAssumption ==
    /\ NoMessage \notin Messages /\ MaxLines \in Nat
    /\ SocketWrites \cap SocketReads = {} /\ Writes \cap Reads = {} /\ "closer" \notin Writes
    /\ Closers \cap InnerClosers = {}

VARIABLES
    transport,   \* the one this behaviour exercises
    memClosed, memClosing, memWakePosted, memIncoming, memWaiters, memRead, memMessage,
    memCancelled, memWrite, memAccepted,
    wsClosed, wsClosePosted, wsSocketOpen, wsState, wsOp, wsHsWaiters, wsActive,
    wsWaiters, wsGranted, wsReadActive, wsQueued, wsWire,
    httpClosed, httpWakePosted, httpCloser, httpStream, httpActive, httpOp, httpOpWoken,
    httpReadActive, httpReadWoken, httpQueue, httpHasSession, httpSent,
    ioClosed, ioThread, ioLines, ioPosted, ioWakePosted, ioQueue, ioInputEnded,
    ioReadPending, ioReadWoken, ioCall, ioCloser,
    manager, closed, jobs, acceptorOpen, listener, conn, active, socketOpen, closing

memVars == <<memClosed, memClosing, memWakePosted, memIncoming, memWaiters, memRead,
             memMessage, memCancelled, memWrite, memAccepted>>
wsVars == <<wsClosed, wsClosePosted, wsSocketOpen, wsState, wsOp, wsHsWaiters, wsActive,
            wsWaiters, wsGranted, wsReadActive, wsQueued, wsWire>>
httpVars == <<httpClosed, httpWakePosted, httpCloser, httpStream, httpActive, httpOp,
              httpOpWoken, httpReadActive, httpReadWoken, httpQueue, httpHasSession, httpSent>>
ioVars == <<ioClosed, ioThread, ioLines, ioPosted, ioWakePosted, ioQueue, ioInputEnded,
            ioReadPending, ioReadWoken, ioCall, ioCloser>>

listenVars == <<manager, closed, jobs, acceptorOpen, listener, conn, active, socketOpen, closing>>

vars == <<transport, memVars, wsVars, httpVars, ioVars, listenVars>>

Memory == INSTANCE MemoryTransport WITH
    Reads <- MemoryReads, closed <- memClosed, closing <- memClosing,
    wakePosted <- memWakePosted, incoming <- memIncoming, waiters <- memWaiters,
    read <- memRead, message <- memMessage, cancelled <- memCancelled,
    write <- memWrite, accepted <- memAccepted

WebSocket == INSTANCE WebSocketTransport WITH
    Writes <- SocketWrites, Reads <- SocketReads, closed <- wsClosed, closePosted <- wsClosePosted,
    socketOpen <- wsSocketOpen, state <- wsState, op <- wsOp, hsWaiters <- wsHsWaiters, active <- wsActive,
    waiters <- wsWaiters, granted <- wsGranted, readActive <- wsReadActive,
    queued <- wsQueued, wire <- wsWire

HttpClient == INSTANCE HttpClientTransport WITH
    closed <- httpClosed, wakePosted <- httpWakePosted, closer <- httpCloser,
    stream <- httpStream, active <- httpActive, op <- httpOp,
    opWoken <- httpOpWoken, readActive <- httpReadActive,
    readWoken <- httpReadWoken, queue <- httpQueue, hasSession <- httpHasSession,
    sent <- httpSent

Stdio == INSTANCE StdioTransport WITH
    closed <- ioClosed, thread <- ioThread, lines <- ioLines, posted <- ioPosted,
    wakePosted <- ioWakePosted, queue <- ioQueue, inputEnded <- ioInputEnded,
    readPending <- ioReadPending, readWoken <- ioReadWoken, call <- ioCall,
    closer <- ioCloser

Listener == INSTANCE HttpListener

Init ==
    /\ transport \in {"memory", "websocket", "http", "stdio", "listener"}
    /\ Memory!Init /\ WebSocket!Init /\ HttpClient!Init /\ Stdio!Init /\ Listener!Init
    /\ transport # "listener" => ~manager

Next ==
    /\ UNCHANGED transport
    /\ \/ transport = "memory" /\ Memory!Next /\ UNCHANGED <<wsVars, httpVars, ioVars, listenVars>>
       \/ transport = "websocket" /\ WebSocket!Next /\ UNCHANGED <<memVars, httpVars, ioVars, listenVars>>
       \/ transport = "http" /\ HttpClient!Next /\ UNCHANGED <<memVars, wsVars, ioVars, listenVars>>
       \/ transport = "stdio" /\ Stdio!Next /\ UNCHANGED <<memVars, wsVars, httpVars, listenVars>>
       \/ transport = "listener" /\ Listener!Next /\ UNCHANGED <<memVars, wsVars, httpVars, ioVars>>

Spec == Init /\ [][Next]_vars

\* What a channel sees of the reads and writes of a memory transport: the calls that
\* are under way, wherever they are on the strand.
ReadsAsked == [r \in MemoryReads |-> IF memRead[r] \in {"spawned", "waiting", "woken"} THEN "asked" ELSE memRead[r]]
EndsOver == {e \in Memory!Ends : memClosed[e]}
WritesAsked == [m \in Messages |-> IF memWrite[m] = "spawned" THEN "asked" ELSE memWrite[m]]

Channel == INSTANCE MemoryChannel WITH
    Reads <- MemoryReads, Nothing <- NoMessage, line <- memIncoming, writing <- WritesAsked,
    reading <- ReadsAsked, holds <- memMessage, cancelled <- memCancelled,
    over <- EndsOver

\* A memory transport is a first-in-first-out channel: a read returns only with the
\* message it was handed or the oldest one, gives up only if it was cancelled before a
\* message reached it, and a write fails only on a closed end, whatever reads are
\* cancelled and ends are closed meanwhile (memory.cpp:88-151).
MemoryIsAChannel == Channel!Spec

\* WebSocket: writes are made one at a time in the order they came to the gate, and
\* none is left there; concurrent first calls share one handshake, whose end none of
\* them misses, and no handshake that was under way reopens a closed transport.
WebSocketInTurn ==
    /\ WebSocket!WritesSerialized /\ WebSocket!NoWriteStranded
    /\ WebSocket!OneHandshake /\ WebSocket!NoHandshakeMissed /\ WebSocket!ClosedStaysClosed

\* HTTP client: exchanges do not overlap and nobody misses the end of one; close() cuts
\* the one under way off and then ends the session, of which it knows although the id
\* came with that exchange.
\* Stdio: "a write that already acquired the output cannot outlive close()".
\* HTTP servers: no connection is accepted behind the back of close().
CloseIsOrderly ==
    /\ HttpClient!OneExchange /\ HttpClient!NoTurnMissed
    /\ HttpClient!CloseCutsExchange /\ HttpClient!SessionIsEnded
    /\ Stdio!CloseOutlivesWrites
    /\ Listener!CloseMissesNoConnection

\* No read of any transport sleeps next to a message or after an end it was not
\* told of, and none of the memory transport takes a message with it when it is cancelled.
ReadsAwake ==
    /\ Memory!NothingLost /\ Memory!NoReaderStarves /\ Memory!SleepersInLine
    /\ HttpClient!NoReadStarves /\ Stdio!NoReadStarves

\* close() of any transport ends every call that is under way, also a close() from
\* within a write of the stdio transport, and with those of the HTTP servers their
\* accept loop and connections.
CloseEndsCalls ==
    /\ Memory!Fairness => Memory!ReadsEndAfterClose
    /\ WebSocket!Fairness => WebSocket!CloseEndsCalls
    /\ HttpClient!Fairness => HttpClient!CloseEnds
    /\ Stdio!Fairness => Stdio!CloseEnds
    /\ Listener!Fairness => Listener!CloseEndsConnections
=============================================================================

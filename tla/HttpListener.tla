------------------------------ MODULE HttpListener ------------------------------
(***************************************************************************)
(* listen(), the connections it accepts and close(), for the two HTTP       *)
(* servers: HttpServerTransport (src/src/transport/http_server.cpp), where  *)
(* all of them run on one strand, and StreamableHttpSessionManager          *)
(* (http_session_manager.cpp), where every connection has a strand of its   *)
(* own and close() works on its caller's thread.                            *)
(*                                                                          *)
(* What a request does between its arrival and its answer is in             *)
(* HttpServerSession and SessionManager.                                    *)
(***************************************************************************)
EXTENDS FiniteSets

CONSTANTS Connections

VARIABLES
    manager,        \* which of the two servers this is
    closed,         \* Impl::closed
    jobs,           \* the parts of close() that have not run
    acceptorOpen,
    listener,       \* where the accept loop is
    conn,           \* where each connection's coroutine is
    active,         \* active_connections
    socketOpen,     \* the connections whose socket is open
    closing         \* connections with a posted close_connection_now

vars == <<manager, closed, jobs, acceptorOpen, listener, conn, active, socketOpen, closing>>
loop == <<closed, jobs, acceptorOpen, listener>>

\* The values each variable can hold.
TypeOK ==
    /\ manager \in BOOLEAN /\ closed \in BOOLEAN /\ acceptorOpen \in BOOLEAN
    /\ jobs \subseteq {"everything", "acceptor", "connections"}
    /\ listener \in {"off", "looking", "accepting", "accepted", "ended", "failed"}
    /\ conn \in [Connections -> {"away", "accepted", "reading", "refusing", "requested",
                                 "answering", "writing", "gone"}]
    /\ active \subseteq Connections /\ socketOpen \subseteq Connections /\ closing \subseteq Connections

Init ==
    /\ manager \in BOOLEAN
    /\ closed = FALSE /\ jobs = {} /\ acceptorOpen = TRUE /\ listener = "off"
    /\ conn = [c \in Connections |-> "away"]
    /\ active = {} /\ socketOpen = {} /\ closing = {}

-----------------------------------------------------------------------------
(* The accept loop.                                                        *)

\* begin_listening lets one caller in; after close() the loop ends at once.
Listen ==
    /\ listener = "off"
    /\ listener' = "looking"
    /\ UNCHANGED <<manager, closed, jobs, acceptorOpen, conn, active, socketOpen, closing>>

\* listen_impl, from the top of the loop into async_accept.
Look ==
    /\ listener = "looking"
    /\ listener' = IF closed THEN "ended" ELSE "accepting"
    /\ UNCHANGED <<manager, closed, jobs, acceptorOpen, conn, active, socketOpen, closing>>

PeerConnects(c) ==
    /\ listener = "accepting" /\ acceptorOpen /\ conn[c] = "away"
    /\ listener' = "accepted"
    /\ conn' = [conn EXCEPT ![c] = "accepted"]
    /\ socketOpen' = socketOpen \cup {c}
    /\ UNCHANGED <<manager, closed, jobs, acceptorOpen, active, closing>>

\* async_accept fails, by close() or for a reason of the system, which ends listen().
AcceptFails ==
    /\ listener = "accepting"
    /\ listener' = IF closed \/ ~acceptorOpen THEN "ended" ELSE "failed"
    /\ UNCHANGED <<manager, closed, jobs, acceptorOpen, conn, active, socketOpen, closing>>

\* Mutant: a connection is taken although the server was closed meanwhile.
AdmitsAll == TRUE
Admits == ~closed

Admitted(c) ==
    /\ listener' = "looking"
    /\ conn' = [conn EXCEPT ![c] = "reading"]
    /\ active' = active \cup {c}
    /\ UNCHANGED <<socketOpen, closing>>
Dismissed(c) ==
    /\ listener' = "ended"
    /\ conn' = [conn EXCEPT ![c] = "gone"]
    /\ UNCHANGED active

\* listen_impl of the transport, on its strand.
TransportAccepts(c) ==
    /\ ~manager /\ listener = "accepted" /\ conn[c] = "accepted"
    /\ \/ Admits /\ Admitted(c)
       \/ ~Admits /\ Dismissed(c) /\ socketOpen' = socketOpen \ {c} /\ UNCHANGED closing
    /\ UNCHANGED <<manager, closed, jobs, acceptorOpen>>

\* listen_impl of the manager; register_connection holds connections_mutex.
ManagerAccepts(c) ==
    /\ manager /\ listener = "accepted" /\ conn[c] = "accepted"
    /\ \/ Admits /\ Admitted(c)
       \/ ~Admits /\ Dismissed(c) /\ closing' = closing \cup {c} /\ UNCHANGED socketOpen
    /\ UNCHANGED <<manager, closed, jobs, acceptorOpen>>

-----------------------------------------------------------------------------
(* handle_connection.                                                      *)

At(c, pc) == conn[c] = pc
Goes(c, pc) ==
    /\ conn' = [conn EXCEPT ![c] = pc]
    /\ UNCHANGED <<manager, loop, active, socketOpen, closing>>

\* The coroutine ends and with it its connection.
Ends(c) ==
    /\ conn' = [conn EXCEPT ![c] = "gone"]
    /\ active' = active \ {c} /\ socketOpen' = socketOpen \ {c}
    /\ UNCHANGED <<manager, loop, closing>>

\* A request arrives, or a body over max_request_body_bytes, answered with 413.
Arrive(c) == At(c, "reading") /\ c \in socketOpen /\ (Goes(c, "requested") \/ Goes(c, "refusing"))

\* A finished read, a finished handle_request: `closed` is tested after each.
HandleRequest(c) == At(c, "requested") /\ IF closed THEN Ends(c) ELSE Goes(c, "answering")
Answer(c) == At(c, "answering") /\ IF closed THEN Ends(c) ELSE Goes(c, "writing")
HandleThrows(c) == At(c, "answering") /\ Ends(c)

\* The response is written, and the connection kept or not.
Wrote(c) == At(c, "writing") /\ c \in socketOpen /\ (Goes(c, "reading") \/ Ends(c))

\* The peer goes, or has its 413.
PeerLeaves(c) == conn[c] \in {"reading", "refusing", "writing"} /\ c \in socketOpen /\ Ends(c)

\* The pending read or write of a closed socket fails.
Cut(c) == conn[c] \in {"reading", "refusing", "writing"} /\ c \notin socketOpen /\ Ends(c)

-----------------------------------------------------------------------------
(* close().                                                                *)

Close ==
    /\ ~closed
    /\ closed' = TRUE
    /\ jobs' = IF manager THEN {"acceptor", "connections"} ELSE {"everything"}
    /\ UNCHANGED <<manager, acceptorOpen, listener, conn, active, socketOpen, closing>>

\* The job HttpServerTransport::close() posts to the strand.
CloseEverything ==
    /\ "everything" \in jobs
    /\ jobs' = jobs \ {"everything"}
    /\ acceptorOpen' = FALSE
    /\ socketOpen' = socketOpen \ active
    /\ UNCHANGED <<manager, closed, listener, conn, active, closing>>

\* The job the manager's close() posts to the strand of the accept loop.
CloseAcceptor ==
    /\ "acceptor" \in jobs
    /\ jobs' = jobs \ {"acceptor"}
    /\ acceptorOpen' = FALSE
    /\ UNCHANGED <<manager, closed, listener, conn, active, socketOpen, closing>>

\* Mutant: only the connections that wait for a request are closed.
IdleConnections == {c \in active : conn[c] = "reading"}
Swept == active
\* close_active_connections of the manager, on the thread of close().
CloseConnections ==
    /\ "connections" \in jobs
    /\ jobs' = jobs \ {"connections"}
    /\ closing' = closing \cup Swept
    /\ UNCHANGED <<manager, closed, acceptorOpen, listener, conn, active, socketOpen>>

\* close_connection_now, on the connection's strand.
CloseNow(c) ==
    /\ c \in closing
    /\ closing' = closing \ {c} /\ socketOpen' = socketOpen \ {c}
    /\ UNCHANGED <<manager, loop, conn, active>>

Next ==
    \/ Listen \/ Look \/ AcceptFails \/ Close \/ CloseEverything \/ CloseAcceptor \/ CloseConnections
    \/ \E c \in Connections :
          \/ PeerConnects(c) \/ TransportAccepts(c) \/ ManagerAccepts(c) \/ Arrive(c)
          \/ HandleRequest(c) \/ Answer(c) \/ HandleThrows(c) \/ Wrote(c) \/ PeerLeaves(c)
          \/ Cut(c) \/ CloseNow(c)

\* Posted jobs run, coroutines are resumed, an accept of a closed acceptor fails and
\* a request is answered; peers may be silent or slow for ever.
Fairness ==
    /\ WF_vars(Look) /\ WF_vars(~acceptorOpen /\ AcceptFails)
    /\ WF_vars(CloseEverything) /\ WF_vars(CloseAcceptor) /\ WF_vars(CloseConnections)
    /\ \A c \in Connections :
          /\ WF_vars(TransportAccepts(c)) /\ WF_vars(ManagerAccepts(c)) /\ WF_vars(HandleRequest(c))
          /\ WF_vars(Answer(c)) /\ WF_vars(Cut(c)) /\ WF_vars(CloseNow(c))

Spec == Init /\ [][Next]_vars /\ Fairness

-----------------------------------------------------------------------------
\* Once the posted parts of close() have run, nobody can connect any more, and every
\* socket that is still open has its close posted or is the one just accepted, which
\* the accept loop dismisses: no connection slips in between the look at `closed` in
\* listen_impl and the sweep of active_connections.
CloseMissesNoConnection ==
    closed /\ jobs = {} =>
        /\ ~acceptorOpen
        /\ \A c \in socketOpen : c \in closing \/ (listener = "accepted" /\ conn[c] = "accepted")

\* close() ends listen() and every connection, also one that is accepted, idle or
\* slow to take its answer at that moment (http_server.cpp:1094-1173,
\* http_session_manager.cpp:286-318, 1205-1301).
CloseEndsConnections ==
    <>[](closed => /\ listener \in {"off", "ended", "failed"}
                   /\ active = {} /\ socketOpen = {} /\ \A c \in Connections : conn[c] \in {"away", "gone"})
=============================================================================

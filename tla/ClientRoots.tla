------------------------------ MODULE ClientRoots ------------------------------
(***************************************************************************)
(* The roots of mcp::Client (src/src/client/client.cpp: set_roots and the   *)
(* roots capability in connect), next to a server that follows them: it     *)
(* asks with roots/list once the session is set up and again after every    *)
(* notifications/roots/list_changed.                                        *)
(*                                                                          *)
(* set_roots() runs on any thread, under handlers_mutex; the notification   *)
(* is a coroutine on the client's strand.                                   *)
(***************************************************************************)
EXTENDS Naturals, Sequences

CONSTANTS MaxRoots      \* bound: the changes of the roots, numbered from 1

NoRoots == 0

VARIABLES
    roots,          \* Impl::roots, as the number of the change
    registered,     \* the change that registered the roots/list handler, or NoRoots
    capability,     \* client_capabilities.roots: "none", "plain" or "listChanged"
    session,        \* "none", "requested" (connect), "ready" (initialized), "closed"
    spawned,        \* notification coroutines that have not run
    notices,        \* list_changed notifications on their way to the server
    asked,          \* roots/list requests on their way to the client
    replies,        \* the roots in the answers on their way to the server
    followed,       \* what the server believes the roots are
    silent          \* the last change came after connect() and is not to be announced

vars == <<roots, registered, capability, session, spawned, notices, asked, replies, followed, silent>>

\* The values each variable can hold.
TypeOK ==
    /\ roots \in 0..MaxRoots /\ registered \in 0..MaxRoots /\ followed \in 0..MaxRoots
    /\ capability \in {"none", "plain", "listChanged"}
    /\ session \in {"none", "requested", "ready", "closed"}
    /\ spawned \in Nat /\ notices \in Nat /\ asked \in Nat
    /\ replies \in Seq(0..MaxRoots) /\ silent \in BOOLEAN

Init ==
    /\ roots = NoRoots /\ registered = NoRoots /\ capability = "none" /\ session = "none"
    /\ spawned = 0 /\ notices = 0 /\ asked = 0 /\ replies = <<>>
    /\ followed = NoRoots /\ silent = FALSE

-----------------------------------------------------------------------------
\* Mutant: the first roots, which register the handler, are not announced.
OnceRegistered(notify) == notify /\ capability = "listChanged" /\ registered # NoRoots
\* should_notify
ShouldNotify(notify) == notify /\ capability = "listChanged"

\* set_roots()
SetRoots(notify) ==
    /\ roots < MaxRoots
    /\ roots' = roots + 1
    /\ registered' = IF registered = NoRoots THEN roots' ELSE registered
    /\ spawned' = IF ShouldNotify(notify) /\ session # "closed" THEN spawned + 1 ELSE spawned
    /\ silent' = (session # "none" /\ ~(notify /\ capability = "listChanged"))
    /\ UNCHANGED <<capability, session, notices, asked, replies, followed>>

\* Mutant: the capability is what the application passed.
AsPassed(passed) == passed
\* connect(): a handler for roots/list makes the capability known.
Advertised(passed) == IF passed = "none" /\ registered # NoRoots THEN "plain" ELSE passed

\* connect() with the application's capabilities, under handlers_mutex.
Connect(passed) ==
    /\ session = "none"
    /\ session' = "requested"
    /\ capability' = Advertised(passed)
    /\ UNCHANGED <<roots, registered, spawned, notices, asked, replies, followed, silent>>

\* finish_connect: a server that learned of the roots asks for them.
SessionReady ==
    /\ session = "requested"
    /\ session' = "ready"
    /\ asked' = IF capability # "none" THEN asked + 1 ELSE asked
    /\ UNCHANGED <<roots, registered, capability, spawned, notices, replies, followed, silent>>

\* send_notification_wire
Notify ==
    /\ spawned > 0
    /\ spawned' = spawned - 1
    /\ notices' = IF session = "closed" THEN notices ELSE notices + 1
    /\ UNCHANGED <<roots, registered, capability, session, asked, replies, followed, silent>>

\* The server reads a notification; before the session is ready it need not ask.
ServerNoticed ==
    /\ notices > 0
    /\ notices' = notices - 1
    /\ asked' = IF session = "ready" THEN asked + 1 ELSE asked
    /\ UNCHANGED <<roots, registered, capability, session, spawned, replies, followed, silent>>

\* Mutant: the handler answers with the roots it was registered with.
AsRegistered == registered
\* The handler of roots/list reads Impl::roots when it is asked; without a handler
\* the request fails and the server believes what it did.
Current == roots
AnswerRoots ==
    /\ asked > 0 /\ session = "ready"
    /\ asked' = asked - 1
    /\ replies' = IF registered = NoRoots THEN replies ELSE Append(replies, Current)
    /\ UNCHANGED <<roots, registered, capability, session, spawned, notices, followed, silent>>

\* The server reads an answer.
ServerLearns ==
    /\ replies # <<>>
    /\ followed' = Head(replies) /\ replies' = Tail(replies)
    /\ UNCHANGED <<roots, registered, capability, session, spawned, notices, asked, silent>>

\* close()
Close ==
    /\ session \in {"requested", "ready"}
    /\ session' = "closed"
    /\ UNCHANGED <<roots, registered, capability, spawned, notices, asked, replies, followed, silent>>

Next ==
    \/ SessionReady \/ Notify \/ ServerNoticed \/ AnswerRoots \/ ServerLearns \/ Close
    \/ \E notify \in BOOLEAN : SetRoots(notify)
    \/ \E passed \in {"none", "plain", "listChanged"} : Connect(passed)

Spec == Init /\ [][Next]_vars

-----------------------------------------------------------------------------
\* When nothing is under way the server knows the roots, whatever thread set them
\* before, during and after connect(): roots set before it are advertised, and
\* those set since with `notify` are announced after they can be read.
RootsReachServer ==
    session = "ready" /\ ~silent /\ spawned = 0 /\ notices = 0 /\ asked = 0 /\ replies = <<>>
    => followed = roots
=============================================================================

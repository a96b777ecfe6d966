---------------------------- MODULE OAuthHttpClient ----------------------------
(***************************************************************************)
(* OAuthHttpClient and the authenticators that share one                   *)
(* (src/src/auth/oauth.cpp).  Exchanges run on the client's strand and give *)
(* it up while they look a name up or wait for the network; an abort sets a *)
(* latch from any thread and posts the closing of the sockets to the       *)
(* strand.  A scope confines an abort to the exchanges issued under it.    *)
(***************************************************************************)
EXTENDS Naturals, FiniteSets

CONSTANTS Exchanges, Authenticators,
          MaxRedirects,   \* redirect budget of a fetch policy
          MaxSwaps,       \* bound: scopes an authenticator goes through
          None

Scopes == Authenticators \X (0..MaxSwaps)
Unscoped == <<None, 0>>     \* work of the client itself

VARIABLES
    latched,    \* scopes whose latch is set; Unscoped: the whole client
    exchanges,  \* pc, owner, scope, get, hops, result
    active,     \* active_exchanges
    closing,    \* exchanges whose close is posted to the strand
    holder,     \* the exchange that holds the strand, or None
    auth,       \* per authenticator: current scope, closed
    aborting    \* scopes an authenticator is about to abort
vars == <<latched, exchanges, active, closing, holder, auth, aborting>>

Waiting == {"resolving", "connected"}          \* suspended, reachable by a close
Holding == {"hop", "checked"}                  \* running on the strand
TypeOK ==
    /\ latched \subseteq Scopes \cup {Unscoped}
    /\ \A e \in Exchanges :
          /\ exchanges[e].pc \in {"idle", "spawned", "lookedUp", "answered", "cut",
                                  "done"} \cup Waiting \cup Holding
          /\ exchanges[e].scope \in Scopes \cup {Unscoped}
          /\ exchanges[e].hops \in 0..MaxRedirects
          /\ exchanges[e].result \in {"none", "ok", "failed", "aborted"}
    /\ active \subseteq Exchanges /\ closing \subseteq Exchanges
    /\ holder \in Exchanges \cup {None}
    /\ \A a \in Authenticators : auth[a].scope \in Scopes
    /\ aborting \subseteq Scopes

Init ==
    /\ latched = {} /\ active = {} /\ closing = {} /\ holder = None
    /\ exchanges = [e \in Exchanges |->
          [pc |-> "idle", scope |-> Unscoped, get |-> FALSE, hops |-> 0,
           result |-> "none"]]
    /\ auth = [a \in Authenticators |-> [scope |-> <<a, 0>>, closed |-> FALSE]]
    /\ aborting = {}

-----------------------------------------------------------------------------
(* Exchanges.                                                              *)

\* is_aborted_locked(): the client's latch ends everything.
Aborted(e) == latched \cap {Unscoped, exchanges[e].scope} # {}

Goto(e, pc) == exchanges' = [exchanges EXCEPT ![e].pc = pc]
End(e, result) ==
    /\ exchanges' = [exchanges EXCEPT ![e].pc = "done", ![e].result = result]
    /\ active' = active \ {e}
    /\ holder' = None

\* A discovery GET or registration POST of the client itself.
Issue(e) ==
    /\ exchanges[e].pc = "idle"
    /\ \E get \in BOOLEAN :
          exchanges' = [exchanges EXCEPT ![e].pc = "spawned", ![e].get = get]
    /\ UNCHANGED <<latched, active, closing, holder, auth, aborting>>

\* OAuthAuthenticator::try_refresh(): a POST under the scope current now.
Refresh(e, a) ==
    /\ exchanges[e].pc = "idle"
    /\ exchanges' = [exchanges EXCEPT ![e].pc = "spawned",
                                      ![e].scope = auth[a].scope]
    /\ UNCHANGED <<latched, active, closing, holder, auth, aborting>>

\* Mutant: the latch is not sticky.
NotLatched(e) == FALSE

\* throw_if_aborted() where an exchange starts, and before it has a socket.
StopsAtStart(e) == Aborted(e)
StopsBeforeSocket(e) == Aborted(e)

\* track_exchange(): registered, unless the abort came first.
Track(e) ==
    /\ exchanges[e].pc = "spawned" /\ holder = None
    /\ IF StopsAtStart(e) THEN End(e, "aborted")
       ELSE Goto(e, "hop") /\ active' = active \cup {e} /\ holder' = e
    /\ UNCHANGED <<latched, closing, auth, aborting>>

\* The start of a hop: a GET reads the latch again, the policy may refuse.
Hop(e) ==
    /\ exchanges[e].pc = "hop"
    /\ IF exchanges[e].get /\ Aborted(e)
       THEN End(e, "aborted")
       ELSE \/ End(e, "failed")
            \/ Goto(e, "resolving") /\ holder' = None /\ UNCHANGED active
    /\ UNCHANGED <<latched, closing, auth, aborting>>

LookUp(e) ==
    /\ exchanges[e].pc = "resolving"
    /\ Goto(e, "lookedUp")
    /\ UNCHANGED <<latched, active, closing, holder, auth, aborting>>

\* Last look at the abort before a socket exists.
LastLook(e) ==
    /\ exchanges[e].pc = "lookedUp" /\ holder = None
    /\ \/ End(e, "failed")
       \/ IF StopsBeforeSocket(e) THEN End(e, "aborted")
          ELSE Goto(e, "checked") /\ holder' = e /\ UNCHANGED active
    /\ UNCHANGED <<latched, closing, auth, aborting>>

\* async_connect() opens the socket before it gives the strand up.
Connect(e) ==
    /\ exchanges[e].pc = "checked"
    /\ Goto(e, "connected") /\ holder' = None
    /\ UNCHANGED <<latched, active, closing, auth, aborting>>

\* The network: the whole answer has arrived, or the exchange broke.
Respond(e) ==
    /\ exchanges[e].pc = "connected"
    /\ Goto(e, "answered") \/ Goto(e, "cut")
    /\ UNCHANGED <<latched, active, closing, holder, auth, aborting>>

\* Its handler: a redirect of a GET within the budget starts another hop.
Answered(e) ==
    /\ exchanges[e].pc = "answered" /\ holder = None
    /\ \/ End(e, "ok")
       \/ End(e, "failed")
       \/ /\ exchanges[e].get /\ exchanges[e].hops < MaxRedirects
          /\ exchanges' = [exchanges EXCEPT ![e].pc = "hop", ![e].hops = @ + 1]
          /\ holder' = e /\ UNCHANGED active
    /\ UNCHANGED <<latched, closing, auth, aborting>>

\* An operation whose socket or lookup was closed fails.
Cut(e) ==
    /\ exchanges[e].pc = "cut" /\ holder = None
    /\ End(e, IF Aborted(e) THEN "aborted" ELSE "failed")
    /\ UNCHANGED <<latched, closing, auth, aborting>>

-----------------------------------------------------------------------------
(* Aborts.                                                                 *)

\* abort_matching(): latch, and post a close to every exchange in scope.
AbortMatching(scope) ==
    /\ latched' = latched \cup {scope}
    /\ closing' = closing \cup {e \in active :
                      scope = Unscoped \/ exchanges[e].scope = scope}

AbortClient ==
    /\ Unscoped \notin latched
    /\ AbortMatching(Unscoped)
    /\ UNCHANGED <<exchanges, active, holder, auth, aborting>>

\* A posted close reaches a lookup or a socket that is waiting, else nothing.
RunClose(e) ==
    /\ e \in closing /\ holder = None
    /\ closing' = closing \ {e}
    /\ IF exchanges[e].pc \in Waiting THEN Goto(e, "cut") ELSE UNCHANGED exchanges
    /\ UNCHANGED <<latched, active, holder, auth, aborting>>

\* OAuthAuthenticator::cancel_pending(): later refreshes get a new scope.
CancelPending(a) ==
    /\ ~auth[a].closed /\ auth[a].scope[2] < MaxSwaps
    /\ auth' = [auth EXCEPT ![a].scope = <<a, @[2] + 1>>]
    /\ aborting' = aborting \cup {auth[a].scope}
    /\ UNCHANGED <<latched, exchanges, active, closing, holder>>

\* OAuthAuthenticator::close(): the scope is aborted and stays.
CloseAuthenticator(a) ==
    /\ ~auth[a].closed
    /\ auth' = [auth EXCEPT ![a].closed = TRUE]
    /\ aborting' = aborting \cup {auth[a].scope}
    /\ UNCHANGED <<latched, exchanges, active, closing, holder>>

AbortScope(s) ==
    /\ s \in aborting
    /\ aborting' = aborting \ {s}
    /\ AbortMatching(s)
    /\ UNCHANGED <<exchanges, active, holder, auth>>

-----------------------------------------------------------------------------
\* What runs on the strand, whatever the network does.
Handler(e) == Track(e) \/ Hop(e) \/ LastLook(e) \/ Connect(e) \/ Answered(e) \/ Cut(e)
Next ==
    \/ \E e \in Exchanges : \/ Issue(e) \/ Handler(e) \/ LookUp(e) \/ Respond(e)
                            \/ RunClose(e)
                            \/ \E a \in Authenticators : Refresh(e, a)
    \/ AbortClient
    \/ \E a \in Authenticators : CancelPending(a) \/ CloseAuthenticator(a)
    \/ \E s \in Scopes : AbortScope(s)

\* Strand handlers and aborts run; nothing is assumed of the network.
Fairness == WF_vars(\/ \E e \in Exchanges : Handler(e) \/ RunClose(e)
                    \/ \E s \in Scopes : AbortScope(s))

Spec == Init /\ [][Next]_vars
FairSpec == Spec /\ Fairness

-----------------------------------------------------------------------------
(* Properties.                                                             *)

\* An abort reaches every exchange it is for: one that waits on a lookup or a
\* socket after the latch was set has a close coming, wherever it was when the
\* abort ran; and an abort of one scope ends no exchange of another.
AbortReaches ==
    \A e \in Exchanges :
        /\ Aborted(e) /\ exchanges[e].pc \in Waiting => e \in closing
        /\ exchanges[e].result = "aborted" => Aborted(e)
        /\ exchanges[e].pc \in Holding <=> holder = e

\* Once close() of an authenticator has run, none of its refreshes, started
\* before or after, waits on the network unless a close is coming.
ClosedForGood ==
    \A a \in Authenticators, e \in Exchanges :
        /\ auth[a].closed /\ aborting = {} /\ exchanges[e].scope[1] = a
        /\ exchanges[e].pc \in Waiting
        => e \in closing

\* An aborted exchange ends even when the network never answers.
AbortEnds ==
    []<>(\A e \in Exchanges :
            Aborted(e) => exchanges[e].pc \in {"idle", "done"})
=============================================================================

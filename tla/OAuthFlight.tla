----------------------------- MODULE OAuthFlight -----------------------------
(***************************************************************************)
(* OAuthAuthorizationManager (src/src/auth/oauth.cpp): challenges and      *)
(* refreshes that arrive together share one attempt, a flight.  The call   *)
(* that opens a flight leads it; the others wait on its timer and report   *)
(* what it recorded.  close() ends the manager, cancel_pending() ends the  *)
(* attempts that run and lets later ones start on a new HTTP client.       *)
(*                                                                         *)
(* Every call is one invocation of try_handle_challenge() or of            *)
(* try_refresh_token(), and a flight is named by the call that leads it.   *)
(* Each action is one critical section of state_mutex, one handler of the  *)
(* flight strand or one network exchange; calls run on any thread.         *)
(***************************************************************************)
EXTENDS Naturals, FiniteSets

CONSTANTS Calls,        \* invocations
          Issuers,      \* authorization servers
          Earlier,      \* calls that authorized before the behaviour starts
          MaxCancels,   \* bound: how often cancel_pending() ends something
          NoCall, NoIssuer

ASSUME FlightAssumption ==
    /\ NoCall \notin Calls
    /\ NoIssuer \notin Issuers
    /\ MaxCancels \in Nat
    /\ Earlier \subseteq Calls

VARIABLES
    manager,   \* flight, refreshFlight, closed, client, config
    flights,   \* per flight: finished, cancelled, succeeded, failed, expired
    calls,     \* per call: pc, kind, flight, client, issuer, token, result
    store,     \* the TokenStore entry of this server
    known,     \* per client: the issuer its discovery cache holds
    aborted,   \* clients whose abort latch is set
    sweeps,    \* close() and cancel() that left the mutex and still sweep
    strand,    \* flights whose expiry is queued on flight_strand
    stale,     \* history: refreshes that sent a replaced refresh token
    replaced,  \* history: refresh tokens a refresh overwrote in the store
    kept       \* history: flights whose token reached the store

vars == <<manager, flights, calls, store, known, aborted, sweeps, strand,
          stale, replaced, kept>>

Clients == 0..MaxCancels
\* A stored token: the call that obtained its refresh token (NoCall: it has
\* none) and the server that issued it.
Token == [refresh : Calls \cup {NoCall}, issuer : Issuers \cup {NoIssuer}]
NoToken == [refresh |-> NoCall, issuer |-> NoIssuer]

Results == {"none", "granted", "refused", "failed", "cancelled", "closed"}
LeaderSteps == {"prepare", "record", "consent", "exchange", "keepConfig",
                "keepToken", "load", "present", "answer", "keepRenewed",
                "finish"}
FollowerSteps == {"joined", "parked", "woken"}

TypeOK ==
    /\ manager \in [flight : Calls \cup {NoCall},
                    refreshFlight : Calls \cup {NoCall},
                    closed : BOOLEAN, client : Clients,
                    config : Issuers \cup {NoIssuer}]
    /\ flights \in [Calls -> [finished : BOOLEAN, cancelled : BOOLEAN,
                              expired : BOOLEAN, result : Results]]
    /\ calls \in [Calls ->
          [pc : {"idle", "done"} \cup LeaderSteps \cup FollowerSteps,
           kind : {"none", "challenge", "refresh"},
           flight : Calls \cup {NoCall}, client : Clients,
           issuer : Issuers \cup {NoIssuer}, token : Token,
           result : Results]]
    /\ store \in Token
    /\ known \in [Clients -> Issuers \cup {NoIssuer}]
    /\ aborted \subseteq Clients
    /\ sweeps \subseteq [client : Clients, flights : SUBSET Calls]
    /\ strand \subseteq Calls
    /\ stale \subseteq Calls
    /\ replaced \subseteq Calls
    /\ kept \subseteq Calls

\* A new manager, or one whose call c authorized earlier at server i.
Idle == [pc |-> "idle", kind |-> "none", flight |-> NoCall, client |-> 0,
         issuer |-> NoIssuer, token |-> NoToken, result |-> "none"]
Init ==
    /\ \E c \in Earlier \cup {NoCall}, i \in Issuers :
          /\ manager = [flight |-> NoCall, refreshFlight |-> NoCall,
                        closed |-> FALSE, client |-> 0,
                        config |-> IF c = NoCall THEN NoIssuer ELSE i]
          /\ store = [refresh |-> c, issuer |-> IF c = NoCall THEN NoIssuer ELSE i]
          /\ calls = [d \in Calls |-> IF d # c THEN Idle
                       ELSE [Idle EXCEPT !.pc = "done"]]
    /\ flights = [f \in Calls |-> [finished |-> FALSE, cancelled |-> FALSE,
                                   expired |-> FALSE, result |-> "none"]]
    /\ known = [k \in Clients |-> NoIssuer]
    /\ aborted = {} /\ sweeps = {} /\ strand = {}
    /\ stale = {} /\ replaced = {} /\ kept = {}

history == <<stale, replaced, kept>>

-----------------------------------------------------------------------------
(* Steps shared by challenges and refreshes.                               *)

Becomes(c, new) == calls' = [calls EXCEPT ![c] = new]
Goto(c, pc) == Becomes(c, [calls[c] EXCEPT !.pc = pc])
\* The call goes on with the token it read or obtained.
Hold(c, pc, token) == Becomes(c, [calls[c] EXCEPT !.pc = pc, !.token = token])
\* run_challenge() or run_refresh() returns or throws `result`.
Conclude(c, result) ==
    Becomes(c, [calls[c] EXCEPT !.pc = "finish", !.result = result])
Return(c, kind, result) ==
    Becomes(c, [calls[c] EXCEPT !.pc = "done", !.kind = kind, !.result = result])
Join(c, kind, f) ==
    Becomes(c, [calls[c] EXCEPT !.pc = "joined", !.kind = kind, !.flight = f])
\* The leader keeps the client and the configuration current when it starts.
Lead(c, kind, pc) ==
    Becomes(c, [calls[c] EXCEPT !.pc = pc, !.kind = kind, !.flight = c,
                                !.client = manager.client,
                                !.issuer = IF kind = "refresh"
                                           THEN manager.config ELSE NoIssuer])

\* A network exchange of call c can still succeed.
Online(c) == calls[c].client \notin aborted

-----------------------------------------------------------------------------
(* Challenges.                                                             *)

\* handle_challenge(): refuse, join the flight or lead a new one, in one
\* critical section.
StartChallenge(c) ==
    /\ calls[c].pc = "idle"
    /\ \/ /\ manager.closed
          /\ Return(c, "challenge", "closed")
          /\ UNCHANGED manager
       \/ /\ ~manager.closed /\ manager.flight # NoCall
          /\ Join(c, "challenge", manager.flight)
          /\ UNCHANGED manager
       \/ /\ ~manager.closed /\ manager.flight = NoCall
          /\ manager' = [manager EXCEPT !.flight = c]
          /\ Lead(c, "challenge", "prepare")
    /\ UNCHANGED <<flights, store, known, aborted, sweeps, strand, history>>

\* Discovery and client identity: from the network while the client is not
\* aborted, from the discovery cache of this client otherwise.
Prepare(c) ==
    /\ calls[c].pc = "prepare"
    /\ \/ Conclude(c, "failed") /\ UNCHANGED known
       \/ \E i \in Issuers :
             /\ Online(c) \/ known[calls[c].client] = i
             /\ Becomes(c, [calls[c] EXCEPT !.pc = "record", !.issuer = i])
             /\ known' = [known EXCEPT ![calls[c].client] = i]
    /\ UNCHANGED <<manager, flights, store, aborted, sweeps, strand, history>>

\* Under the mutex, before the user is asked: a cancelled attempt stops.
Record(c) ==
    /\ calls[c].pc = "record"
    /\ IF flights[c].cancelled THEN Conclude(c, "failed") ELSE Goto(c, "consent")
    /\ UNCHANGED <<manager, flights, store, known, aborted, sweeps, strand,
                   history>>

\* The application's callback and the validation of its answer.
Consent(c) ==
    /\ calls[c].pc = "consent"
    /\ Goto(c, "exchange") \/ Conclude(c, "failed")
    /\ UNCHANGED <<manager, flights, store, known, aborted, sweeps, strand,
                   history>>

\* exchange_code(): the token may come without a refresh token.
Exchange(c) ==
    /\ calls[c].pc = "exchange"
    /\ \/ Conclude(c, "failed")
       \/ /\ Online(c)
          /\ \E r \in {c, NoCall} :
                Hold(c, "keepConfig", [refresh |-> r, issuer |-> calls[c].issuer])
    /\ UNCHANGED <<manager, flights, store, known, aborted, sweeps, strand,
                   history>>

KeepConfig(c) ==
    /\ calls[c].pc = "keepConfig"
    /\ manager' = [manager EXCEPT !.config = calls[c].issuer]
    /\ Goto(c, "keepToken")
    /\ UNCHANGED <<flights, store, known, aborted, sweeps, strand, history>>

KeepToken(c) ==
    /\ calls[c].pc = "keepToken"
    /\ store' = calls[c].token
    /\ kept' = kept \cup {c}
    /\ Conclude(c, "granted")
    /\ UNCHANGED <<manager, flights, known, aborted, sweeps, strand, stale,
                   replaced>>

-----------------------------------------------------------------------------
(* Refreshes.                                                              *)

\* Mutant: a second refresh does not see the first.
RefreshUnseen == FALSE

\* A refresh runs that this one joins.
RefreshRuns == manager.refreshFlight # NoCall

\* try_refresh(): nothing to renew with, join, or lead.
StartRefresh(c) ==
    /\ calls[c].pc = "idle"
    /\ \/ /\ manager.config = NoIssuer \/ manager.closed
          /\ Return(c, "refresh", "refused")
          /\ UNCHANGED manager
       \/ /\ manager.config # NoIssuer /\ ~manager.closed
          /\ RefreshRuns
          /\ Join(c, "refresh", manager.refreshFlight)
          /\ UNCHANGED manager
       \/ /\ manager.config # NoIssuer /\ ~manager.closed
          /\ ~RefreshRuns
          /\ manager' = [manager EXCEPT !.refreshFlight = c]
          /\ Lead(c, "refresh", "load")
    /\ UNCHANGED <<flights, store, known, aborted, sweeps, strand, history>>

\* The refresh token is read once the refresh leads.
Load(c) ==
    /\ calls[c].pc = "load"
    /\ IF store.refresh = NoCall
       THEN Conclude(c, "refused")
       ELSE Hold(c, "present", store)
    /\ UNCHANGED <<manager, flights, store, known, aborted, sweeps, strand,
                   history>>

\* The request leaves, or fails before it does (a refused target throws).
Present(c) ==
    /\ calls[c].pc = "present"
    /\ \/ \E r \in {"refused", "failed"} : Conclude(c, r) /\ UNCHANGED stale
       \/ /\ Online(c)
          /\ stale' = IF calls[c].token.refresh \in replaced
                      THEN stale \cup {c} ELSE stale
          /\ Goto(c, "answer")
    /\ UNCHANGED <<manager, flights, store, known, aborted, sweeps, strand,
                   replaced, kept>>

\* The server's answer: it may rotate the refresh token or leave it.
Answer(c) ==
    /\ calls[c].pc = "answer"
    /\ \/ Conclude(c, "refused")
       \/ /\ Online(c)
          /\ \E r \in {c, calls[c].token.refresh} :
                Hold(c, "keepRenewed", [refresh |-> r, issuer |-> calls[c].issuer])
    /\ UNCHANGED <<manager, flights, store, known, aborted, sweeps, strand,
                   history>>

KeepRenewed(c) ==
    /\ calls[c].pc = "keepRenewed"
    /\ store' = calls[c].token
    /\ replaced' = replaced \cup ({store.refresh} \ {calls[c].token.refresh, NoCall})
    /\ kept' = kept \cup {c}
    /\ Conclude(c, "granted")
    /\ UNCHANGED <<manager, flights, known, aborted, sweeps, strand, stale>>

-----------------------------------------------------------------------------
(* The end of a flight and its followers.                                  *)

\* Mutant: the leader ends whatever flight is running.
FlightCleared(f, c) == NoCall

\* What remains of the manager's flight when its leader or a former one ends.
FlightAfter(f, c) == IF f = c THEN NoCall ELSE f

\* run_leading_challenge(), run_leading_refresh(): record the result, leave a
\* newer flight alone, queue the expiry of the timer and return.
Finish(c) ==
    /\ calls[c].pc = "finish"
    /\ manager' = [manager EXCEPT
          !.flight = FlightAfter(@, c), !.refreshFlight = FlightAfter(@, c)]
    /\ flights' = [flights EXCEPT
          ![c] = [@ EXCEPT !.finished = TRUE, !.result = calls[c].result]]
    /\ strand' = strand \cup {c}
    /\ Goto(c, "done")
    /\ UNCHANGED <<store, known, aborted, sweeps, history>>

\* expire_flight() on the strand: the deadline moves to the past, so who waits
\* wakes and who has yet to wait will not park.
ExpireFlight(f) ==
    /\ f \in strand
    /\ strand' = strand \ {f}
    /\ flights' = [flights EXCEPT ![f].expired = TRUE]
    /\ calls' = [c \in Calls |->
          IF calls[c].pc = "parked" /\ calls[c].flight = f
          THEN [calls[c] EXCEPT !.pc = "woken"] ELSE calls[c]]
    /\ UNCHANGED <<manager, store, known, aborted, sweeps, history>>

\* Mutant: cancel() instead of expires_at() leaves the deadline where it was.
NeverPast(f) == FALSE

\* The deadline of the flight's timer is in the past.
Past(f) == flights[f].expired

\* async_wait() on the strand.
Park(c) ==
    /\ calls[c].pc = "joined"
    /\ Goto(c, IF Past(calls[c].flight) THEN "woken" ELSE "parked")
    /\ UNCHANGED <<manager, flights, store, known, aborted, sweeps, strand,
                   history>>

\* Mutant: a flight that ended counts as one that succeeded.
GrantedIfFinished(f) ==
    IF manager.closed THEN "closed"
    ELSE IF flights[f].finished THEN "granted" ELSE "cancelled"

\* What await_in_flight() reports of flight f, in the order of its checks.
ChallengeResult(f) ==
    CASE manager.closed -> "closed"
      [] ~manager.closed /\ flights[f].cancelled /\ ~flights[f].finished -> "cancelled"
      [] ~manager.closed /\ ~flights[f].cancelled /\ ~flights[f].finished -> "failed"
      [] ~manager.closed /\ flights[f].finished -> flights[f].result
\* What await_refresh() reports of flight f.
RefreshResult(f) == IF flights[f].finished THEN flights[f].result ELSE "refused"

Report(c) ==
    /\ calls[c].pc = "woken"
    /\ Return(c, calls[c].kind,
              IF calls[c].kind = "challenge" THEN ChallengeResult(calls[c].flight)
                                             ELSE RefreshResult(calls[c].flight))
    /\ UNCHANGED <<manager, flights, store, known, aborted, sweeps, strand,
                   history>>

-----------------------------------------------------------------------------
(* close() and cancel_pending().                                           *)

Running == {manager.flight, manager.refreshFlight} \ {NoCall}

Close ==
    /\ ~manager.closed
    /\ manager' = [manager EXCEPT !.closed = TRUE]
    /\ sweeps' = sweeps \cup {[client |-> manager.client, flights |-> Running]}
    /\ UNCHANGED <<flights, calls, store, known, aborted, strand, history>>

Cancel ==
    /\ ~manager.closed /\ Running # {}
    /\ manager.client < MaxCancels
    /\ flights' = [f \in Calls |->
          IF f \in Running THEN [flights[f] EXCEPT !.cancelled = TRUE]
                           ELSE flights[f]]
    /\ manager' = [manager EXCEPT !.flight = NoCall, !.refreshFlight = NoCall,
                                  !.client = @ + 1]
    /\ sweeps' = sweeps \cup {[client |-> manager.client, flights |-> Running]}
    /\ UNCHANGED <<calls, store, known, aborted, strand, history>>

\* After the mutex: abort the client and queue the expiries.
Sweep(s) ==
    /\ s \in sweeps
    /\ sweeps' = sweeps \ {s}
    /\ aborted' = aborted \cup {s.client}
    /\ strand' = strand \cup s.flights
    /\ UNCHANGED <<manager, flights, calls, store, known, history>>

-----------------------------------------------------------------------------
\* A step of a call that its executor, the network's timeouts or the strand
\* brings about; the application decides on starts, consent, close and cancel.
Proceed(c) ==
    \/ Prepare(c) \/ Record(c) \/ Exchange(c) \/ KeepConfig(c) \/ KeepToken(c)
    \/ Load(c) \/ Present(c) \/ Answer(c) \/ KeepRenewed(c)
    \/ Finish(c) \/ Park(c) \/ Report(c)

Internal ==
    \/ \E c \in Calls : Proceed(c) \/ ExpireFlight(c)
    \/ \E s \in sweeps : Sweep(s)

Next ==
    \/ \E c \in Calls : StartChallenge(c) \/ StartRefresh(c) \/ Consent(c)
    \/ Close \/ Cancel
    \/ Internal

\* Some internal step is taken while one can be; each call takes finitely many.
Fairness == WF_vars(Internal)

Spec == Init /\ [][Next]_vars
FairSpec == Spec /\ Fairness

-----------------------------------------------------------------------------
(* Properties.                                                             *)

Leads(c, kind) == calls[c].pc \in LeaderSteps /\ calls[c].kind = kind
Live(c, kind) == Leads(c, kind) /\ ~flights[c].cancelled

\* flight and refresh_flight are "non-null exactly while" one attempt runs:
\* each names the only running leader that was not cancelled, so no user is
\* asked twice at a time and a cancelled leader ends no newer flight.
OneFlight ==
    \A c \in Calls :
        /\ Live(c, "challenge") <=> manager.flight = c
        /\ Live(c, "refresh") <=> manager.refreshFlight = c

\* No refresh presents a refresh token that a refresh has replaced in the
\* store (oauth.hpp:755), as long as cancel_pending() cut none of them short.
NoReplacedTokenUncancelled ==
    (\A f \in Calls : ~flights[f].cancelled) => stale = {}

\* The same, whatever was cancelled: what the documentation states.
NoReplacedTokenSent == stale = {}

\* A call told that it was authorized finds the token of its flight kept, and
\* is told of the manager's end or of a cancellation only when there was one.
ReportsItsFlight ==
    \A c \in Calls : calls[c].pc = "done" =>
        /\ calls[c].result = "granted" => calls[c].flight \in kept
        /\ calls[c].result = "closed" => manager.closed
        /\ calls[c].result = "cancelled" => flights[calls[c].flight].cancelled
        /\ /\ calls[c].flight # NoCall
           /\ flights[calls[c].flight].finished
           /\ ~manager.closed /\ ~flights[calls[c].flight].cancelled
           => calls[c].result = flights[calls[c].flight].result

\* A call that waits for the user's consent, its own or its live flight's.
AwaitsUser(c) ==
    \/ calls[c].pc = "consent"
    \/ /\ calls[c].pc \in FollowerSteps
       /\ calls[calls[c].flight].pc = "consent"
       /\ ~manager.closed /\ ~flights[calls[c].flight].cancelled

\* Nobody is stranded: a call returns, unless the user has yet to answer the
\* attempt it takes part in; close() and cancel_pending() release followers
\* even then, and one that joins late is released too.
NobodyStranded ==
    []<>(\A c \in Calls : calls[c].pc \in {"idle", "done"} \/ AwaitsUser(c))
=============================================================================

------------------------------ MODULE OAuthProofs ------------------------------
(***************************************************************************)
(* Theorems about the OAuth client (MCOAuth): the authorization manager     *)
(* (OAuthFlight), the HTTP client it fetches with (OAuthHttpClient), and    *)
(* the transport that retries after a refusal (OAuthClientTransport), for   *)
(* every number of calls, servers, writers and bounds.                      *)
(*                                                                         *)
(* The manager's inductive invariant follows a flight from the call that    *)
(* leads it to the followers it wakes, and a refresh token from the call    *)
(* that mints it through the store to the refresh that presents it.         *)
(*                                                                         *)
(* The transport's retry table is bounded by the sum of its sizes, a        *)
(* recursive function (Recursion and Induction of FunctionProofs).  A table *)
(* whose sum is its byte count stays one when entries are kept, evicted,    *)
(* replaced or age (TableOf).  The invariant adds where each write is: what *)
(* it fails with leaves no entry (EntrySettled), what it waits for is       *)
(* registered and is cancelled after the sweep (AttemptKept), and each of   *)
(* its writes but the first follows an attempt (SendsCounted).              *)
(***************************************************************************)
EXTENDS MCOAuth, FunctionProofs

Steps == {"idle", "done"} \cup LeaderSteps \cup FollowerSteps
Manager == [flight : Calls \cup {NoCall}, refreshFlight : Calls \cup {NoCall},
            closed : BOOLEAN, client : Clients, config : Issuers \cup {NoIssuer}]
Flight == [finished : BOOLEAN, cancelled : BOOLEAN, expired : BOOLEAN, result : Results]
Call == [pc : Steps, kind : {"none", "challenge", "refresh"}, flight : Calls \cup {NoCall},
         client : Clients, issuer : Issuers \cup {NoIssuer}, token : Token, result : Results]

\* TypeOK, its records named.
Typed ==
    /\ manager \in Manager /\ flights \in [Calls -> Flight] /\ calls \in [Calls -> Call]
    /\ store \in Token /\ known \in [Clients -> Issuers \cup {NoIssuer}]
    /\ aborted \subseteq Clients /\ sweeps \subseteq [client : Clients, flights : SUBSET Calls]
    /\ strand \subseteq Calls /\ stale \subseteq Calls
    /\ replaced \subseteq Calls /\ kept \subseteq Calls

\* A step of call c leaves the other calls alone; c keeps its kind, flight and
\* client; c keeps its token and issuer.
Moved(c) == calls' \in [Calls -> Call] /\ \A d \in Calls \ {c} : calls'[d] = calls[d]
Stays(c) ==
    /\ calls'[c].kind = calls[c].kind /\ calls'[c].flight = calls[c].flight
    /\ calls'[c].client = calls[c].client
SameToken(c) == calls'[c].token = calls[c].token /\ calls'[c].issuer = calls[c].issuer

ChallengeSteps == {"prepare", "record", "consent", "exchange", "keepConfig", "keepToken"}
RefreshSteps == {"load", "present", "answer", "keepRenewed"}

\* A leader leads the flight of its own name and takes the steps of its kind; a
\* follower is in a flight of somebody; who has not begun is in none, and its own
\* flight is as it was created.
Roles ==
    \A c \in Calls :
        /\ calls[c].pc \in ChallengeSteps => calls[c].kind = "challenge"
        /\ calls[c].pc \in RefreshSteps => calls[c].kind = "refresh"
        /\ calls[c].pc \in LeaderSteps =>
              calls[c].flight = c /\ calls[c].kind \in {"challenge", "refresh"}
        /\ calls[c].pc \in FollowerSteps =>
              /\ calls[c].flight \in Calls \ {c}
              /\ calls[c].kind \in {"challenge", "refresh"}
        /\ calls[c].pc = "idle" => ~flights[c].cancelled /\ calls[c].flight = NoCall
        /\ flights[c].finished <=> calls[c].pc = "done" /\ calls[c].flight = c

\* The flights that told their result or that the manager has given up on.
Decided ==
    {f \in Calls : flights[f].finished \/ flights[f].cancelled \/ manager.closed}

\* Only a flight that is decided wakes its followers, and no call returns from
\* another.
WokenDecided ==
    /\ \A s \in sweeps : s.flights \subseteq Decided
    /\ strand \subseteq Decided
    /\ \A f \in Calls : flights[f].expired => f \in Decided
    /\ \A c \in Calls : calls[c].pc \in {"woken", "done"} /\ calls[c].flight # NoCall =>
          calls[c].flight \in Decided

\* What a leader is about to record, and what its flight recorded.
Outcomes ==
    \A c \in Calls :
        /\ calls[c].pc = "finish" =>
              /\ calls[c].result \in {"granted", "refused", "failed"}
              /\ calls[c].result = "granted" => c \in kept
        /\ flights[c].finished =>
              /\ flights[c].result \in {"granted", "refused", "failed"}
              /\ flights[c].result = "granted" => c \in kept
        /\ calls[c].pc = "done" /\ calls[c].flight = NoCall =>
              calls[c].result # "cancelled"

\* The calls whose token, if they obtained one, is theirs no more.
Minted == {c \in Calls : calls[c].pc \in {"finish", "done"}}

\* Where refresh tokens are: in the store, replaced, or with the leader that
\* obtained or presents one.
Tokens ==
    /\ store.refresh \in Minted \cup {NoCall}
    /\ replaced \subseteq Minted
    /\ \A c \in Calls :
          /\ calls[c].pc \in {"keepConfig", "keepToken"} =>
                calls[c].token.refresh \in {c, NoCall}
          /\ calls[c].pc \in {"present", "answer"} =>
                calls[c].token.refresh \in Minted
          /\ calls[c].pc = "keepRenewed" =>
                calls[c].token.refresh \in Minted \cup {c}

Uncancelled == \A f \in Calls : ~flights[f].cancelled

\* While nothing is cancelled, neither the stored refresh token nor the one a
\* refresh works with has been replaced.
FreshTokens ==
    Uncancelled =>
        /\ store.refresh \notin replaced
        /\ \A c \in Calls : calls[c].pc \in {"present", "answer", "keepRenewed"} =>
              calls[c].token.refresh \notin replaced
        /\ stale = {}

IInv ==
    /\ Typed
    /\ Roles /\ OneFlight
    /\ WokenDecided /\ Outcomes /\ ReportsItsFlight
    /\ Tokens /\ FreshTokens

-------------------------------------------------------------------------------
\* The named records are those of TypeOK.
LEMMA NamedTypes == Typed <=> TypeOK
  BY DEF Typed, TypeOK, Steps, Manager, Flight, Call

\* The names of steps and results.
LEMMA Names ==
    /\ {"idle", "done", "joined", "parked", "woken", "prepare", "record", "consent", "exchange",
        "keepConfig", "keepToken", "load", "present", "answer", "keepRenewed", "finish"} = Steps
    /\ {"none", "granted", "refused", "failed", "cancelled", "closed"} = Results
  BY DEF Steps, LeaderSteps, FollowerSteps, Results

\* A call that moves moves alone.
LEMMA Moves ==
    ASSUME Typed, NEW c \in Calls, NEW new \in Call, Becomes(c, new)
    PROVE  Moved(c) /\ calls'[c] = new
  BY DEF Typed, Becomes, Moved

\* Conclude: run_challenge() or run_refresh() is over, the leader is about to end
\* its flight.
LEMMA Conclusions ==
    ASSUME Typed, NEW c \in Calls, NEW result \in Results, Conclude(c, result)
    PROVE  /\ Moved(c) /\ Stays(c) /\ SameToken(c)
           /\ calls'[c].pc = "finish" /\ calls'[c].result = result
<1> DEFINE new == [calls[c] EXCEPT !.pc = "finish", !.result = result]
<1>0. "finish" \in Steps
  BY DEF Steps, LeaderSteps
<1>1. /\ new \in Call /\ new.pc = "finish" /\ new.result = result
      /\ new.kind = calls[c].kind /\ new.flight = calls[c].flight
      /\ new.client = calls[c].client /\ new.token = calls[c].token
      /\ new.issuer = calls[c].issuer
  BY <1>0 DEF Typed, Call
<1>2. Becomes(c, new)
  BY DEF Conclude
<1> HIDE DEF new
<1> QED
  BY <1>1, <1>2, Moves DEF Stays, SameToken

\* Goto moves a call and nothing else of it.
LEMMA Advances ==
    ASSUME Typed, NEW c \in Calls, NEW pc \in Steps, Goto(c, pc)
    PROVE  /\ Moved(c) /\ Stays(c) /\ SameToken(c)
           /\ calls'[c].pc = pc /\ calls'[c].result = calls[c].result
<1> DEFINE new == [calls[c] EXCEPT !.pc = pc]
<1>1. /\ new \in Call /\ new.pc = pc /\ new.result = calls[c].result
      /\ new.kind = calls[c].kind /\ new.flight = calls[c].flight
      /\ new.client = calls[c].client /\ new.token = calls[c].token
      /\ new.issuer = calls[c].issuer
  BY DEF Typed, Call
<1>2. Becomes(c, new)
  BY DEF Goto
<1> HIDE DEF new
<1> QED
  BY <1>1, <1>2, Moves DEF Stays, SameToken

\* Return ends a call without a flight of its own, or a follower.
LEMMA Returns ==
    ASSUME Typed, NEW c \in Calls, NEW kind \in {"challenge", "refresh"},
           NEW result \in Results, Return(c, kind, result)
    PROVE  /\ Moved(c) /\ SameToken(c)
           /\ calls'[c].pc = "done" /\ calls'[c].result = result
           /\ calls'[c].kind = kind /\ calls'[c].flight = calls[c].flight
<1> DEFINE new == [calls[c] EXCEPT !.pc = "done", !.kind = kind, !.result = result]
<1>0. "done" \in Steps
  BY DEF Steps
<1>1. /\ new \in Call /\ new.pc = "done" /\ new.result = result
      /\ new.kind = kind /\ new.flight = calls[c].flight /\ new.token = calls[c].token
      /\ new.issuer = calls[c].issuer
  BY <1>0 DEF Typed, Call
<1>2. Becomes(c, new)
  BY DEF Return
<1> HIDE DEF new
<1> QED
  BY <1>1, <1>2, Moves DEF SameToken

\* Join makes a call a follower of flight f.
LEMMA Joins ==
    ASSUME Typed, NEW c \in Calls, NEW kind \in {"challenge", "refresh"},
           NEW f \in Calls, Join(c, kind, f)
    PROVE  /\ Moved(c) /\ SameToken(c)
           /\ calls'[c].pc = "joined" /\ calls'[c].result = calls[c].result
           /\ calls'[c].kind = kind /\ calls'[c].flight = f
<1> DEFINE new == [calls[c] EXCEPT !.pc = "joined", !.kind = kind, !.flight = f]
<1>0. "joined" \in Steps
  BY DEF Steps, FollowerSteps
<1>1. /\ new \in Call /\ new.pc = "joined" /\ new.result = calls[c].result
      /\ new.kind = kind /\ new.flight = f /\ new.token = calls[c].token
      /\ new.issuer = calls[c].issuer
  BY <1>0 DEF Typed, Call
<1>2. Becomes(c, new)
  BY DEF Join
<1> HIDE DEF new
<1> QED
  BY <1>1, <1>2, Moves DEF SameToken

\* Lead makes a call the leader of the flight of its name.
LEMMA Leadings ==
    ASSUME Typed, NEW c \in Calls, NEW kind \in {"challenge", "refresh"},
           NEW pc \in Steps, Lead(c, kind, pc)
    PROVE  /\ Moved(c)
           /\ calls'[c].pc = pc /\ calls'[c].result = calls[c].result
           /\ calls'[c].kind = kind /\ calls'[c].flight = c
<1> DEFINE new == [calls[c] EXCEPT !.pc = pc, !.kind = kind, !.flight = c,
                                   !.client = manager.client,
                                   !.issuer = IF kind = "refresh"
                                              THEN manager.config ELSE NoIssuer]
<1>1. manager.client \in Clients /\ manager.config \in Issuers \cup {NoIssuer}
  BY DEF Typed, Manager
<1>2. /\ new \in Call /\ new.pc = pc /\ new.result = calls[c].result
      /\ new.kind = kind /\ new.flight = c
  BY <1>1 DEF Typed, Call
<1>3. Becomes(c, new)
  BY DEF Lead
<1> HIDE DEF new
<1> QED
  BY <1>2, <1>3, Moves

\* Hold gives a leader the token it read or obtained.
LEMMA Holds ==
    ASSUME Typed, NEW c \in Calls, NEW pc \in Steps, NEW t \in Token,
           Hold(c, pc, t)
    PROVE  /\ Moved(c) /\ Stays(c)
           /\ calls'[c].pc = pc /\ calls'[c].result = calls[c].result
           /\ calls'[c].token = t
<1> DEFINE new == [calls[c] EXCEPT !.pc = pc, !.token = t]
<1>1. /\ new \in Call /\ new.pc = pc /\ new.result = calls[c].result
      /\ new.kind = calls[c].kind /\ new.flight = calls[c].flight
      /\ new.client = calls[c].client /\ new.token = t
  BY DEF Typed, Call
<1>2. Becomes(c, new)
  BY DEF Hold
<1> HIDE DEF new
<1> QED
  BY <1>1, <1>2, Moves DEF Stays

\* Discovery tells the leader its authorization server.
LEMMA Prepares ==
    ASSUME Typed, NEW c \in Calls, NEW i \in Issuers,
           Becomes(c, [calls[c] EXCEPT !.pc = "record", !.issuer = i])
    PROVE  /\ Moved(c) /\ Stays(c)
           /\ calls'[c].pc = "record" /\ calls'[c].result = calls[c].result
           /\ calls'[c].token = calls[c].token
<1> DEFINE new == [calls[c] EXCEPT !.pc = "record", !.issuer = i]
<1>0. "record" \in Steps
  BY DEF Steps, LeaderSteps
<1>1. /\ new \in Call /\ new.pc = "record" /\ new.result = calls[c].result
      /\ new.kind = calls[c].kind /\ new.flight = calls[c].flight
      /\ new.client = calls[c].client /\ new.token = calls[c].token
  BY <1>0 DEF Typed, Call
<1>2. Becomes(c, new)
  OBVIOUS
<1> HIDE DEF new
<1> QED
  BY <1>1, <1>2, Moves DEF Stays

-------------------------------------------------------------------------------
(* What the actions do, field by field.                                       *)

\* The fields of the records, one by one.
LEMMA Fields ==
    ASSUME Typed
    PROVE  /\ manager.flight \in Calls \cup {NoCall}
           /\ manager.refreshFlight \in Calls \cup {NoCall}
           /\ manager.closed \in BOOLEAN /\ manager.client \in Clients
           /\ manager.config \in Issuers \cup {NoIssuer}
           /\ store.refresh \in Calls \cup {NoCall}
           /\ \A s \in sweeps : s.flights \subseteq Calls
           /\ \A c \in Calls :
                 /\ calls[c].pc \in Steps /\ calls[c].result \in Results
                 /\ calls[c].kind \in {"none", "challenge", "refresh"}
                 /\ calls[c].flight \in Calls \cup {NoCall}
                 /\ calls[c].client \in Clients /\ calls[c].token \in Token
                 /\ calls[c].token.refresh \in Calls \cup {NoCall}
                 /\ calls[c].issuer \in Issuers \cup {NoIssuer}
                 /\ flights[c].finished \in BOOLEAN /\ flights[c].cancelled \in BOOLEAN
                 /\ flights[c].expired \in BOOLEAN /\ flights[c].result \in Results
<1>1. /\ manager.flight \in Calls \cup {NoCall}
      /\ manager.refreshFlight \in Calls \cup {NoCall}
      /\ manager.closed \in BOOLEAN /\ manager.client \in Clients
      /\ manager.config \in Issuers \cup {NoIssuer}
  BY DEF Typed, Manager
<1>2. store.refresh \in Calls \cup {NoCall} /\ \A s \in sweeps : s.flights \subseteq Calls
  BY DEF Typed, Token
<1>3. ASSUME NEW c \in Calls
      PROVE  /\ calls[c].pc \in Steps /\ calls[c].result \in Results
             /\ calls[c].kind \in {"none", "challenge", "refresh"}
             /\ calls[c].flight \in Calls \cup {NoCall}
             /\ calls[c].client \in Clients /\ calls[c].token \in Token
             /\ calls[c].issuer \in Issuers \cup {NoIssuer}
  BY DEF Typed, Call
<1>4. ASSUME NEW c \in Calls PROVE calls[c].token.refresh \in Calls \cup {NoCall}
  BY <1>3 DEF Token
<1>5. ASSUME NEW c \in Calls
      PROVE  /\ flights[c].finished \in BOOLEAN /\ flights[c].cancelled \in BOOLEAN
             /\ flights[c].expired \in BOOLEAN /\ flights[c].result \in Results
  BY DEF Typed, Flight
<1> QED
  BY <1>1, <1>2, <1>3, <1>4, <1>5

\* handle_challenge(): refused, joined, or leading.
LEMMA StartChallengeEffect ==
    ASSUME Typed, NEW c \in Calls, StartChallenge(c)
    PROVE  /\ calls[c].pc = "idle" /\ Moved(c) /\ calls'[c].kind = "challenge"
           /\ UNCHANGED <<flights, store, known, aborted, sweeps, strand, history>>
           /\ manager' \in Manager /\ manager'.closed = manager.closed
           /\ manager'.refreshFlight = manager.refreshFlight
           /\ \/ /\ manager.closed /\ manager'.flight = manager.flight
                 /\ calls'[c].pc = "done" /\ calls'[c].result = "closed"
                 /\ calls'[c].flight = calls[c].flight
              \/ /\ manager.flight \in Calls /\ manager'.flight = manager.flight
                 /\ calls'[c].pc = "joined" /\ calls'[c].flight = manager.flight
              \/ /\ manager.flight = NoCall /\ manager'.flight = c
                 /\ calls'[c].pc = "prepare" /\ calls'[c].flight = c
<1> USE FlightAssumption, Names, Fields DEF StartChallenge
<1>1. CASE Return(c, "challenge", "closed") /\ UNCHANGED manager /\ manager.closed
  BY <1>1, Returns DEF Typed
<1>2. CASE Join(c, "challenge", manager.flight) /\ UNCHANGED manager /\ manager.flight # NoCall
  BY <1>2, Joins DEF Typed
<1>3. CASE /\ Lead(c, "challenge", "prepare") /\ manager' = [manager EXCEPT !.flight = c]
           /\ manager.flight = NoCall
  <2>1. /\ manager' \in Manager /\ manager'.flight = c /\ manager'.closed = manager.closed
        /\ manager'.refreshFlight = manager.refreshFlight
    BY <1>3 DEF Manager, Typed
  <2> QED
    BY <1>3, <2>1, Leadings
<1> QED
  BY <1>1, <1>2, <1>3

\* try_refresh(): nothing to renew with, joined, or leading.
LEMMA StartRefreshEffect ==
    ASSUME Typed, NEW c \in Calls, StartRefresh(c)
    PROVE  /\ calls[c].pc = "idle" /\ Moved(c) /\ calls'[c].kind = "refresh"
           /\ UNCHANGED <<flights, store, known, aborted, sweeps, strand, history>>
           /\ manager' \in Manager /\ manager'.closed = manager.closed
           /\ manager'.flight = manager.flight
           /\ \/ /\ manager'.refreshFlight = manager.refreshFlight
                 /\ calls'[c].pc = "done" /\ calls'[c].result = "refused"
                 /\ calls'[c].flight = calls[c].flight
              \/ /\ manager.refreshFlight \in Calls
                 /\ manager'.refreshFlight = manager.refreshFlight
                 /\ calls'[c].pc = "joined" /\ calls'[c].flight = manager.refreshFlight
              \/ /\ manager.refreshFlight = NoCall /\ manager'.refreshFlight = c
                 /\ calls'[c].pc = "load" /\ calls'[c].flight = c
<1> USE FlightAssumption, Names, Fields DEF StartRefresh, RefreshRuns
<1>1. CASE Return(c, "refresh", "refused") /\ UNCHANGED manager
  BY <1>1, Returns DEF Typed
<1>2. CASE Join(c, "refresh", manager.refreshFlight) /\ UNCHANGED manager /\ RefreshRuns
  BY <1>2, Joins DEF Typed
<1>3. CASE /\ Lead(c, "refresh", "load") /\ manager' = [manager EXCEPT !.refreshFlight = c]
           /\ ~RefreshRuns
  <2>1. /\ manager' \in Manager /\ manager'.refreshFlight = c
        /\ manager'.closed = manager.closed /\ manager'.flight = manager.flight
    BY <1>3 DEF Manager, Typed
  <2> QED
    BY <1>3, <2>1, Leadings
<1> QED
  BY <1>1, <1>2, <1>3

\* The steps of a leader between its start and its end: it keeps its kind, its
\* flight and its client, and the flights and the manager's flights stay.
LeaderMoves(c) ==
    /\ Moved(c) /\ Stays(c)
    /\ UNCHANGED <<flights, sweeps, strand, aborted>>
    /\ manager' \in Manager /\ manager'.closed = manager.closed
    /\ manager'.flight = manager.flight /\ manager'.refreshFlight = manager.refreshFlight

\* run_challenge() or run_refresh() ends without a token.
GivesUp(c) ==
    /\ calls'[c].pc = "finish" /\ calls'[c].result \in {"refused", "failed"}
    /\ SameToken(c) /\ UNCHANGED <<store, stale, replaced, kept>>

\* The steps of a challenge up to its exchange, and the one that keeps its
\* configuration.
LEMMA ChallengeEffect ==
    ASSUME Typed, NEW c \in Calls,
           Prepare(c) \/ Record(c) \/ Consent(c) \/ KeepConfig(c)
    PROVE  /\ LeaderMoves(c) /\ UNCHANGED <<store, stale, replaced, kept>>
           /\ \/ /\ calls[c].pc \in {"prepare", "record", "consent"} /\ GivesUp(c)
              \/ calls[c].pc = "prepare" /\ calls'[c].pc = "record"
              \/ calls[c].pc = "record" /\ calls'[c].pc = "consent"
              \/ calls[c].pc = "consent" /\ calls'[c].pc = "exchange"
              \/ calls[c].pc = "keepConfig" /\ calls'[c].pc = "keepToken" /\ SameToken(c)
           /\ known' \in [Clients -> Issuers \cup {NoIssuer}]
<1> USE Names, Fields DEF LeaderMoves, GivesUp, Stays, SameToken, history, Typed
<1>1. CASE Prepare(c)
  <2>1. CASE Conclude(c, "failed") /\ UNCHANGED known
    BY <1>1, <2>1, Conclusions DEF Prepare
  <2>2. ASSUME NEW i \in Issuers,
               Becomes(c, [calls[c] EXCEPT !.pc = "record", !.issuer = i]),
               known' = [known EXCEPT ![calls[c].client] = i]
        PROVE  /\ Moved(c) /\ Stays(c) /\ calls'[c].pc = "record"
               /\ known' \in [Clients -> Issuers \cup {NoIssuer}]
    BY <2>2, Prepares
  <2> QED
    BY <1>1, <2>1, <2>2 DEF Prepare
<1>2. CASE Record(c)
  BY <1>2, Conclusions, Advances DEF Record
<1>3. CASE Consent(c)
  BY <1>3, Conclusions, Advances DEF Consent
<1>4. CASE KeepConfig(c)
  <2>1. /\ manager' \in Manager /\ manager'.closed = manager.closed
        /\ manager'.flight = manager.flight /\ manager'.refreshFlight = manager.refreshFlight
    BY <1>4 DEF KeepConfig, Manager
  <2> QED
    BY <1>4, <2>1, Advances DEF KeepConfig
<1> QED
  BY <1>1, <1>2, <1>3, <1>4

\* The exchanges that yield a token: its refresh token is the call's own, the one
\* presented, or none.
LEMMA TokenEffect ==
    ASSUME Typed, NEW c \in Calls, Exchange(c) \/ Answer(c)
    PROVE  /\ LeaderMoves(c) /\ UNCHANGED <<known, store, stale, replaced, kept>>
           /\ \/ calls[c].pc \in {"exchange", "answer"} /\ GivesUp(c)
              \/ /\ calls[c].pc = "exchange" /\ calls'[c].pc = "keepConfig"
                 /\ calls'[c].token.refresh \in {c, NoCall}
              \/ /\ calls[c].pc = "answer" /\ calls'[c].pc = "keepRenewed"
                 /\ calls'[c].token.refresh \in {c, calls[c].token.refresh}
<1> USE Names, Fields DEF LeaderMoves, GivesUp, Stays, SameToken, history
<1>1. ASSUME NEW r \in Calls \cup {NoCall}
      PROVE  /\ [refresh |-> r, issuer |-> calls[c].issuer] \in Token
             /\ [refresh |-> r, issuer |-> calls[c].issuer].refresh = r
  BY DEF Token
<1>2. CASE Conclude(c, "failed") \/ Conclude(c, "refused")
  BY <1>2, Conclusions DEF Exchange, Answer, Typed
<1>3. ASSUME NEW r \in {c, NoCall}, Exchange(c),
             Hold(c, "keepConfig", [refresh |-> r, issuer |-> calls[c].issuer])
      PROVE  Moved(c) /\ Stays(c) /\ calls'[c].pc = "keepConfig" /\ calls'[c].token.refresh = r
  <2>1. /\ Moved(c) /\ Stays(c) /\ calls'[c].pc = "keepConfig"
        /\ calls'[c].token = [refresh |-> r, issuer |-> calls[c].issuer]
    <3>1. "keepConfig" \in Steps
      BY DEF Steps, LeaderSteps
    <3> QED
      BY <1>1, <1>3, <3>1, Holds
  <2> QED
    BY <1>1, <2>1
<1>4. ASSUME NEW r \in {c, calls[c].token.refresh}, Answer(c),
             Hold(c, "keepRenewed", [refresh |-> r, issuer |-> calls[c].issuer])
      PROVE  Moved(c) /\ Stays(c) /\ calls'[c].pc = "keepRenewed" /\ calls'[c].token.refresh = r
  <2>1. /\ Moved(c) /\ Stays(c) /\ calls'[c].pc = "keepRenewed"
        /\ calls'[c].token = [refresh |-> r, issuer |-> calls[c].issuer]
    <3>1. "keepRenewed" \in Steps
      BY DEF Steps, LeaderSteps
    <3> QED
      BY <1>1, <1>4, <3>1, Holds
  <2> QED
    BY <1>1, <2>1
<1> QED
  BY <1>2, <1>3, <1>4 DEF Exchange, Answer, Typed

\* A refresh reads the stored token and presents its refresh token.
LEMMA RefreshEffect ==
    ASSUME Typed, NEW c \in Calls, Load(c) \/ Present(c)
    PROVE  /\ LeaderMoves(c) /\ UNCHANGED <<known, store, replaced, kept>>
           /\ \/ calls[c].pc \in {"load", "present"} /\ GivesUp(c)
              \/ /\ calls[c].pc = "load" /\ calls'[c].pc = "present"
                 /\ store.refresh # NoCall /\ calls'[c].token = store /\ UNCHANGED stale
              \/ /\ calls[c].pc = "present" /\ calls'[c].pc = "answer" /\ SameToken(c)
                 /\ stale' = IF calls[c].token.refresh \in replaced
                             THEN stale \cup {c} ELSE stale
<1> USE Names, Fields DEF LeaderMoves, GivesUp, Stays, SameToken, history, Typed
<1>1. CASE Load(c)
  <2>1. CASE Conclude(c, "refused")
    BY <1>1, <2>1, Conclusions DEF Load
  <2>2. CASE Hold(c, "present", store) /\ store.refresh # NoCall
    <3>1. "present" \in Steps /\ store \in Token
      BY DEF Steps, LeaderSteps
    <3>2. /\ Moved(c) /\ Stays(c) /\ calls'[c].pc = "present"
          /\ calls'[c].token = store
      BY <2>2, <3>1, Holds
    <3> QED
      BY <1>1, <2>2, <3>2 DEF Load
  <2> QED
    BY <1>1, <2>1, <2>2 DEF Load
<1>2. CASE Present(c)
  BY <1>2, Conclusions, Advances DEF Present
<1> QED
  BY <1>1, <1>2

\* A token reaches the store; a refresh replaces what it finds there.
LEMMA KeepEffect ==
    ASSUME Typed, NEW c \in Calls, KeepToken(c) \/ KeepRenewed(c)
    PROVE  /\ LeaderMoves(c) /\ SameToken(c) /\ UNCHANGED <<known, stale>>
           /\ calls'[c].pc = "finish" /\ calls'[c].result = "granted"
           /\ store' = calls[c].token /\ kept' = kept \cup {c}
           /\ \/ calls[c].pc = "keepToken" /\ UNCHANGED replaced
              \/ /\ calls[c].pc = "keepRenewed"
                 /\ replaced' = replaced \cup
                       ({store.refresh} \ {calls[c].token.refresh, NoCall})
<1> USE Names, Fields, Conclusions DEF LeaderMoves, Typed
<1>1. CASE KeepToken(c)
  BY <1>1 DEF KeepToken
<1>2. CASE KeepRenewed(c)
  BY <1>2 DEF KeepRenewed
<1> QED
  BY <1>1, <1>2

\* The leader ends its flight, and the manager's if that is still the same.
LEMMA FinishEffect ==
    ASSUME Typed, NEW c \in Calls, Finish(c)
    PROVE  /\ calls[c].pc = "finish" /\ Moved(c) /\ Stays(c) /\ SameToken(c)
           /\ calls'[c].pc = "done" /\ calls'[c].result = calls[c].result
           /\ manager' \in Manager /\ manager'.closed = manager.closed
           /\ manager'.flight = (IF manager.flight = c THEN NoCall ELSE manager.flight)
           /\ manager'.refreshFlight =
                 (IF manager.refreshFlight = c THEN NoCall ELSE manager.refreshFlight)
           /\ flights' \in [Calls -> Flight]
           /\ \A f \in Calls \ {c} : flights'[f] = flights[f]
           /\ flights'[c].finished /\ flights'[c].result = calls[c].result
           /\ flights'[c].cancelled = flights[c].cancelled
           /\ flights'[c].expired = flights[c].expired
           /\ strand' = strand \cup {c}
           /\ UNCHANGED <<store, known, aborted, sweeps, history>>
<1> DEFINE new == [flights[c] EXCEPT !.finished = TRUE, !.result = calls[c].result]
<1>1. /\ new \in Flight /\ new.finished /\ new.result = calls[c].result
      /\ new.cancelled = flights[c].cancelled /\ new.expired = flights[c].expired
  BY Fields DEF Typed, Flight
<1>2. flights' = [flights EXCEPT ![c] = new]
  BY DEF Finish
<1> HIDE DEF new
<1>3. /\ flights' \in [Calls -> Flight] /\ flights'[c] = new
      /\ \A f \in Calls \ {c} : flights'[f] = flights[f]
  BY <1>1, <1>2 DEF Typed
<1>4. manager' = [manager EXCEPT !.flight = FlightAfter(manager.flight, c),
                                 !.refreshFlight = FlightAfter(manager.refreshFlight, c)]
  BY DEF Finish
<1>5. /\ manager' \in Manager /\ manager'.closed = manager.closed
      /\ manager'.flight = FlightAfter(manager.flight, c)
      /\ manager'.refreshFlight = FlightAfter(manager.refreshFlight, c)
  BY <1>4, Fields DEF FlightAfter, Typed, Manager
<1>6. /\ Moved(c) /\ Stays(c) /\ SameToken(c)
      /\ calls'[c].pc = "done" /\ calls'[c].result = calls[c].result
  BY Names, Advances DEF Finish
<1> QED
  BY <1>1, <1>3, <1>5, <1>6 DEF Finish, FlightAfter

\* The timer of flight f expires and wakes its parked followers.
LEMMA ExpireEffect ==
    ASSUME Typed, NEW f \in Calls, ExpireFlight(f)
    PROVE  /\ f \in strand /\ strand' = strand \ {f}
           /\ flights' \in [Calls -> Flight]
           /\ \A g \in Calls :
                 /\ flights'[g].finished = flights[g].finished
                 /\ flights'[g].cancelled = flights[g].cancelled
                 /\ flights'[g].result = flights[g].result
                 /\ flights'[g].expired => g = f \/ flights[g].expired
           /\ calls' \in [Calls -> Call]
           /\ \A c \in Calls :
                 /\ Stays(c) /\ SameToken(c) /\ calls'[c].result = calls[c].result
                 /\ \/ calls'[c].pc = calls[c].pc
                    \/ /\ calls[c].pc = "parked" /\ calls[c].flight = f
                       /\ calls'[c].pc = "woken"
           /\ UNCHANGED <<manager, store, known, aborted, sweeps, history>>
<1>1. ASSUME NEW c \in Calls
      PROVE  /\ [calls[c] EXCEPT !.pc = "woken"] \in Call
             /\ [calls[c] EXCEPT !.pc = "woken"].pc = "woken"
             /\ [calls[c] EXCEPT !.pc = "woken"].kind = calls[c].kind
             /\ [calls[c] EXCEPT !.pc = "woken"].flight = calls[c].flight
             /\ [calls[c] EXCEPT !.pc = "woken"].client = calls[c].client
             /\ [calls[c] EXCEPT !.pc = "woken"].token = calls[c].token
             /\ [calls[c] EXCEPT !.pc = "woken"].issuer = calls[c].issuer
             /\ [calls[c] EXCEPT !.pc = "woken"].result = calls[c].result
  BY Names DEF Typed, Call
<1>2. calls' = [c \in Calls |-> IF calls[c].pc = "parked" /\ calls[c].flight = f
                                THEN [calls[c] EXCEPT !.pc = "woken"] ELSE calls[c]]
  BY DEF ExpireFlight
<1>3. /\ calls' \in [Calls -> Call]
      /\ \A c \in Calls :
            /\ Stays(c) /\ SameToken(c) /\ calls'[c].result = calls[c].result
            /\ \/ calls'[c].pc = calls[c].pc
               \/ /\ calls[c].pc = "parked" /\ calls[c].flight = f
                  /\ calls'[c].pc = "woken"
  BY <1>1, <1>2 DEF Typed, Stays, SameToken
<1>4. flights' = [flights EXCEPT ![f].expired = TRUE]
  BY DEF ExpireFlight
<1>5. flights' \in [Calls -> Flight] /\ \A g \in Calls :
            /\ flights'[g].finished = flights[g].finished
            /\ flights'[g].cancelled = flights[g].cancelled
            /\ flights'[g].result = flights[g].result
            /\ flights'[g].expired => g = f \/ flights[g].expired
  BY <1>4 DEF Typed, Flight
<1> QED
  BY <1>3, <1>5 DEF ExpireFlight

\* A follower returns what its flight tells.
LEMMA ReportEffect ==
    ASSUME Typed, Roles, NEW c \in Calls, Report(c)
    PROVE  /\ calls[c].pc = "woken" /\ Moved(c)
           /\ calls[c].flight \in Calls
           /\ calls'[c].pc = "done" /\ calls'[c].kind = calls[c].kind
           /\ calls'[c].flight = calls[c].flight
           /\ calls'[c].result = (IF calls[c].kind = "challenge"
                                  THEN ChallengeResult(calls[c].flight)
                                  ELSE RefreshResult(calls[c].flight))
           /\ UNCHANGED <<manager, flights, store, known, aborted, sweeps, strand, history>>
<1>1. calls[c].flight \in Calls /\ calls[c].kind \in {"challenge", "refresh"}
  BY DEF Report, Roles, FollowerSteps
<1>2. ChallengeResult(calls[c].flight) \in Results
  BY <1>1, Fields, Names DEF ChallengeResult
<1>3. RefreshResult(calls[c].flight) \in Results
  BY <1>1, Fields, Names DEF RefreshResult
<1> QED
  BY <1>1, <1>2, <1>3, Returns DEF Report

\* cancel_pending() cancels what runs and makes room for newer attempts.
LEMMA CancelEffect ==
    ASSUME Typed, Cancel
    PROVE  /\ flights' \in [Calls -> Flight]
           /\ \A f \in Calls :
                 /\ flights'[f].finished = flights[f].finished
                 /\ flights'[f].expired = flights[f].expired
                 /\ flights'[f].result = flights[f].result
                 /\ flights'[f].cancelled <=> f \in Running \/ flights[f].cancelled
           /\ manager' \in Manager /\ manager'.closed = manager.closed /\ ~manager.closed
           /\ manager'.flight = NoCall /\ manager'.refreshFlight = NoCall
           /\ Running # {}
           /\ sweeps' \subseteq [client : Clients, flights : SUBSET Calls]
           /\ \A s \in sweeps' : s \in sweeps \/ s.flights = Running
           /\ UNCHANGED <<calls, store, known, aborted, strand, history>>
<1>1. manager.client \in Clients /\ manager.client + 1 \in Clients
  BY Fields, FlightAssumption DEF Cancel, Clients
<1>2. /\ manager' \in Manager /\ manager'.closed = manager.closed /\ ~manager.closed
      /\ manager'.flight = NoCall /\ manager'.refreshFlight = NoCall
  BY <1>1 DEF Cancel, Typed, Manager
<1>3. ASSUME NEW f \in Calls
      PROVE  /\ [flights[f] EXCEPT !.cancelled = TRUE] \in Flight
             /\ [flights[f] EXCEPT !.cancelled = TRUE].cancelled
             /\ [flights[f] EXCEPT !.cancelled = TRUE].finished = flights[f].finished
             /\ [flights[f] EXCEPT !.cancelled = TRUE].expired = flights[f].expired
             /\ [flights[f] EXCEPT !.cancelled = TRUE].result = flights[f].result
  BY DEF Typed, Flight
<1>4. flights' = [f \in Calls |-> IF f \in Running
                      THEN [flights[f] EXCEPT !.cancelled = TRUE] ELSE flights[f]]
  BY DEF Cancel
<1>5. /\ flights' \in [Calls -> Flight]
      /\ \A f \in Calls :
            /\ flights'[f].finished = flights[f].finished
            /\ flights'[f].expired = flights[f].expired
            /\ flights'[f].result = flights[f].result
            /\ flights'[f].cancelled <=> f \in Running \/ flights[f].cancelled
  BY <1>3, <1>4 DEF Typed
<1>6. Running \subseteq Calls
  BY Fields DEF Running
<1>7. sweeps' = sweeps \cup {[client |-> manager.client, flights |-> Running]}
  BY DEF Cancel
<1>8. /\ sweeps' \subseteq [client : Clients, flights : SUBSET Calls]
      /\ \A s \in sweeps' : s \in sweeps \/ s.flights = Running
  BY <1>1, <1>6, <1>7 DEF Typed
<1> QED
  BY <1>2, <1>5, <1>8 DEF Cancel

\* close() leaves what runs registered.
LEMMA CloseEffect ==
    ASSUME Typed, Close
    PROVE  /\ manager' \in Manager /\ manager'.closed
           /\ manager'.flight = manager.flight
           /\ manager'.refreshFlight = manager.refreshFlight
           /\ sweeps' \subseteq [client : Clients, flights : SUBSET Calls]
           /\ UNCHANGED <<flights, calls, store, known, aborted, strand, history>>
<1>1. /\ manager' \in Manager /\ manager'.closed /\ manager'.flight = manager.flight
      /\ manager'.refreshFlight = manager.refreshFlight
  BY DEF Close, Typed, Manager
<1>2. Running \subseteq Calls
  BY Fields DEF Running
<1> QED
  BY <1>1, <1>2, Fields DEF Close, Typed

-------------------------------------------------------------------------------
(* The steps and the parts of the inductive invariant.                        *)

\* What a step leaves as it is: kept tokens, the end of the manager, cancellations,
\* results, and what was returned.
Lasting ==
    /\ kept \subseteq kept'
    /\ manager.closed => manager'.closed
    /\ \A f \in Calls :
          /\ flights[f].cancelled => flights'[f].cancelled
          /\ flights[f].finished =>
                flights'[f].finished /\ flights'[f].result = flights[f].result
    /\ \A c \in Calls : calls[c].pc = "done" =>
          /\ calls'[c].pc = "done" /\ calls'[c].flight = calls[c].flight
          /\ calls'[c].result = calls[c].result

\* Every variable keeps its type through every step.
LEMMA TypeStep ==
    ASSUME Typed, Roles, [Next]_vars
    PROVE  Typed'
<1> USE FlightAssumption, Names, Fields DEF Typed, LeaderMoves, GivesUp, Moved, Stays,
     SameToken, history
<1>1. CASE UNCHANGED vars
  BY <1>1 DEF vars
<1>2. ASSUME NEW c \in Calls, StartChallenge(c) PROVE Typed'
  BY <1>2, StartChallengeEffect
<1>3. ASSUME NEW c \in Calls, StartRefresh(c) PROVE Typed'
  BY <1>3, StartRefreshEffect
<1>4. ASSUME NEW c \in Calls, Prepare(c) \/ Record(c) \/ Consent(c) \/ KeepConfig(c) PROVE Typed'
  BY <1>4, ChallengeEffect
<1>5. ASSUME NEW c \in Calls, Exchange(c) \/ Answer(c) PROVE Typed'
  BY <1>5, TokenEffect
<1>6. ASSUME NEW c \in Calls, Load(c) \/ Present(c) PROVE Typed'
  BY <1>6, RefreshEffect
<1>7. ASSUME NEW c \in Calls, KeepToken(c) \/ KeepRenewed(c) PROVE Typed'
  BY <1>7, KeepEffect
<1>8. ASSUME NEW c \in Calls, Finish(c) PROVE Typed'
  BY <1>8, FinishEffect
<1>9. ASSUME NEW f \in Calls, ExpireFlight(f) PROVE Typed'
  BY <1>9, ExpireEffect
<1>10. ASSUME NEW c \in Calls, Park(c) PROVE Typed'
  BY <1>10, Advances DEF Park, Past
<1>11. ASSUME NEW c \in Calls, Report(c) PROVE Typed'
  BY <1>11, ReportEffect
<1>12. ASSUME NEW s \in sweeps, Sweep(s) PROVE Typed'
  BY <1>12 DEF Sweep
<1>13. CASE Close
  BY <1>13, CloseEffect DEF Close
<1>14. CASE Cancel
  BY <1>14, CancelEffect DEF Running
<1> QED
  BY <1>1, <1>2, <1>3, <1>4, <1>5, <1>6, <1>7, <1>8, <1>9, <1>10, <1>11, <1>12,
     <1>13, <1>14 DEF Next, Internal, Proceed

\* A call leads the flight of its own name from its start to its end, or follows the
\* one it found.
LEMMA RolesStep ==
    ASSUME Typed, Roles, OneFlight, [Next]_vars
    PROVE  Roles'
<1> USE FlightAssumption, Names, Fields DEF Roles, OneFlight, Leads, Live, LeaderSteps,
     FollowerSteps, ChallengeSteps, RefreshSteps, LeaderMoves, GivesUp, Moved, Stays,
     SameToken, history
<1>1. CASE UNCHANGED vars
  BY <1>1 DEF vars
<1>2. ASSUME NEW c \in Calls, StartChallenge(c) PROVE Roles'
  BY <1>2, StartChallengeEffect
<1>3. ASSUME NEW c \in Calls, StartRefresh(c) PROVE Roles'
  BY <1>3, StartRefreshEffect
<1>4. ASSUME NEW c \in Calls, Prepare(c) \/ Record(c) \/ Consent(c) \/ KeepConfig(c) PROVE Roles'
  BY <1>4, ChallengeEffect
<1>5. ASSUME NEW c \in Calls, Exchange(c) \/ Answer(c) PROVE Roles'
  BY <1>5, TokenEffect
<1>6. ASSUME NEW c \in Calls, Load(c) \/ Present(c) PROVE Roles'
  BY <1>6, RefreshEffect
<1>7. ASSUME NEW c \in Calls, KeepToken(c) \/ KeepRenewed(c) PROVE Roles'
  BY <1>7, KeepEffect
<1>8. ASSUME NEW c \in Calls, Finish(c) PROVE Roles'
  BY <1>8, FinishEffect
<1>9. ASSUME NEW f \in Calls, ExpireFlight(f) PROVE Roles'
  BY <1>9, ExpireEffect
<1>10. ASSUME NEW c \in Calls, Park(c) PROVE Roles'
  BY <1>10, Advances DEF Park, Past
<1>11. ASSUME NEW c \in Calls, Report(c) PROVE Roles'
  BY <1>11, ReportEffect
<1>12. ASSUME NEW s \in sweeps, Sweep(s) PROVE Roles'
  BY <1>12 DEF Sweep
<1>13. CASE Close
  BY <1>13, CloseEffect DEF Close
<1>14. CASE Cancel
  BY <1>14, CancelEffect DEF Running
<1> QED
  BY <1>1, <1>2, <1>3, <1>4, <1>5, <1>6, <1>7, <1>8, <1>9, <1>10, <1>11, <1>12,
     <1>13, <1>14 DEF Next, Internal, Proceed

\* An attempt begins when none of its kind is registered; it leaves the register when
\* it ends, or when it is cancelled with everything that is registered.
LEMMA OneFlightStep ==
    ASSUME Typed, Roles, OneFlight, [Next]_vars
    PROVE  OneFlight'
<1> USE FlightAssumption, Names, Fields DEF OneFlight, Roles, Leads, Live, LeaderSteps,
     ChallengeSteps, RefreshSteps, LeaderMoves, GivesUp, Moved, Stays, SameToken,
     history
<1>1. CASE UNCHANGED vars
  BY <1>1 DEF vars
<1>2. ASSUME NEW c \in Calls, StartChallenge(c) PROVE OneFlight'
  BY <1>2, StartChallengeEffect
<1>3. ASSUME NEW c \in Calls, StartRefresh(c) PROVE OneFlight'
  BY <1>3, StartRefreshEffect
<1>4. ASSUME NEW c \in Calls, Prepare(c) \/ Record(c) \/ Consent(c) \/ KeepConfig(c) PROVE OneFlight'
  BY <1>4, ChallengeEffect
<1>5. ASSUME NEW c \in Calls, Exchange(c) \/ Answer(c) PROVE OneFlight'
  BY <1>5, TokenEffect
<1>6. ASSUME NEW c \in Calls, Load(c) \/ Present(c) PROVE OneFlight'
  BY <1>6, RefreshEffect
<1>7. ASSUME NEW c \in Calls, KeepToken(c) \/ KeepRenewed(c) PROVE OneFlight'
  BY <1>7, KeepEffect
<1>8. ASSUME NEW c \in Calls, Finish(c) PROVE OneFlight'
  BY <1>8, FinishEffect
<1>9. ASSUME NEW f \in Calls, ExpireFlight(f) PROVE OneFlight'
  BY <1>9, ExpireEffect
<1>10. ASSUME NEW c \in Calls, Park(c) PROVE OneFlight'
  BY <1>10, Advances DEF Park, Past
<1>11. ASSUME NEW c \in Calls, Report(c) PROVE OneFlight'
  BY <1>11, ReportEffect
<1>12. ASSUME NEW s \in sweeps, Sweep(s) PROVE OneFlight'
  BY <1>12 DEF Sweep
<1>13. CASE Close
  BY <1>13, CloseEffect DEF Close
<1>14. CASE Cancel
  BY <1>14, CancelEffect DEF Running
<1> QED
  BY <1>1, <1>2, <1>3, <1>4, <1>5, <1>6, <1>7, <1>8, <1>9, <1>10, <1>11, <1>12,
     <1>13, <1>14 DEF Next, Internal, Proceed

\* Nothing that a call can be told is ever taken back: a cancellation, the end of the
\* manager, a result, a kept token.
LEMMA NothingTakenBack ==
    ASSUME Typed, Roles, [Next]_vars
    PROVE  Lasting
<1> USE FlightAssumption, Names, Fields DEF Lasting, Roles, LeaderSteps, LeaderMoves,
     GivesUp, Moved, Stays, SameToken, history
<1>1. CASE UNCHANGED vars
  BY <1>1 DEF vars
<1>2. ASSUME NEW c \in Calls, StartChallenge(c) PROVE Lasting
  BY <1>2, StartChallengeEffect
<1>3. ASSUME NEW c \in Calls, StartRefresh(c) PROVE Lasting
  BY <1>3, StartRefreshEffect
<1>4. ASSUME NEW c \in Calls, Prepare(c) \/ Record(c) \/ Consent(c) \/ KeepConfig(c) PROVE Lasting
  BY <1>4, ChallengeEffect
<1>5. ASSUME NEW c \in Calls, Exchange(c) \/ Answer(c) PROVE Lasting
  BY <1>5, TokenEffect
<1>6. ASSUME NEW c \in Calls, Load(c) \/ Present(c) PROVE Lasting
  BY <1>6, RefreshEffect
<1>7. ASSUME NEW c \in Calls, KeepToken(c) \/ KeepRenewed(c) PROVE Lasting
  BY <1>7, KeepEffect
<1>8. ASSUME NEW c \in Calls, Finish(c) PROVE Lasting
  BY <1>8, FinishEffect
<1>9. ASSUME NEW f \in Calls, ExpireFlight(f) PROVE Lasting
  BY <1>9, ExpireEffect
<1>10. ASSUME NEW c \in Calls, Park(c) PROVE Lasting
  BY <1>10, Advances DEF Park, Past
<1>11. ASSUME NEW c \in Calls, Report(c) PROVE Lasting
  BY <1>11, ReportEffect
<1>12. ASSUME NEW s \in sweeps, Sweep(s) PROVE Lasting
  BY <1>12 DEF Sweep
<1>13. CASE Close
  BY <1>13, CloseEffect DEF Close
<1>14. CASE Cancel
  BY <1>14, CancelEffect DEF Running
<1> QED
  BY <1>1, <1>2, <1>3, <1>4, <1>5, <1>6, <1>7, <1>8, <1>9, <1>10, <1>11, <1>12,
     <1>13, <1>14 DEF Next, Internal, Proceed

\* A flight that is decided stays decided.
LEMMA DecidedStays ==
    ASSUME Typed, Roles, [Next]_vars
    PROVE  Decided \subseteq Decided'
  BY NothingTakenBack DEF Lasting, Decided

\* Flights end, are cancelled, or go down with the manager before their timer expires.
LEMMA WokenStep ==
    ASSUME Typed, Roles, OneFlight, WokenDecided, [Next]_vars
    PROVE  WokenDecided'
<1> USE FlightAssumption, Names, Fields, DecidedStays DEF WokenDecided, Roles,
     LeaderSteps, FollowerSteps, LeaderMoves, GivesUp, Moved, Stays, SameToken, history
<1>1. CASE UNCHANGED vars
  BY <1>1 DEF vars
<1>2. ASSUME NEW c \in Calls, StartChallenge(c) PROVE WokenDecided'
  BY <1>2, StartChallengeEffect
<1>3. ASSUME NEW c \in Calls, StartRefresh(c) PROVE WokenDecided'
  BY <1>3, StartRefreshEffect
<1>4. ASSUME NEW c \in Calls, Prepare(c) \/ Record(c) \/ Consent(c) \/ KeepConfig(c) PROVE WokenDecided'
  BY <1>4, ChallengeEffect
<1>5. ASSUME NEW c \in Calls, Exchange(c) \/ Answer(c) PROVE WokenDecided'
  BY <1>5, TokenEffect
<1>6. ASSUME NEW c \in Calls, Load(c) \/ Present(c) PROVE WokenDecided'
  BY <1>6, RefreshEffect
<1>7. ASSUME NEW c \in Calls, KeepToken(c) \/ KeepRenewed(c) PROVE WokenDecided'
  BY <1>7, KeepEffect
<1>8. ASSUME NEW c \in Calls, Finish(c) PROVE WokenDecided'
  <2>1. c \in Decided'
    BY <1>8, FinishEffect DEF Decided
  <2> QED
    BY <1>8, <2>1, FinishEffect
<1>9. ASSUME NEW f \in Calls, ExpireFlight(f) PROVE WokenDecided'
  BY <1>9, ExpireEffect
<1>10. ASSUME NEW c \in Calls, Park(c) PROVE WokenDecided'
  BY <1>10, Advances DEF Park, Past
<1>11. ASSUME NEW c \in Calls, Report(c) PROVE WokenDecided'
  BY <1>11, ReportEffect
<1>12. ASSUME NEW s \in sweeps, Sweep(s) PROVE WokenDecided'
  BY <1>12 DEF Sweep
<1>13. CASE Close
  <2>1. Decided' = Calls
    BY <1>13, CloseEffect DEF Decided
  <2>2. \A s \in sweeps' : s.flights \subseteq Calls
    BY <1>13, CloseEffect
  <2> QED
    BY <1>13, <2>1, <2>2, CloseEffect
<1>14. CASE Cancel
  <2>1. Running \subseteq Decided'
    BY <1>14, CancelEffect DEF Decided, Running
  <2> QED
    BY <1>14, <2>1, CancelEffect
<1> QED
  BY <1>1, <1>2, <1>3, <1>4, <1>5, <1>6, <1>7, <1>8, <1>9, <1>10, <1>11, <1>12,
     <1>13, <1>14 DEF Next, Internal, Proceed

\* A flight records what its leader ends with, and only a kept token grants.
LEMMA OutcomesStep ==
    ASSUME Typed, Roles, Outcomes, [Next]_vars
    PROVE  Outcomes'
<1> USE FlightAssumption, Names, Fields DEF Outcomes, Roles, LeaderSteps,
     FollowerSteps, LeaderMoves, GivesUp, Moved, Stays, SameToken, history
<1>1. CASE UNCHANGED vars
  BY <1>1 DEF vars
<1>2. ASSUME NEW c \in Calls, StartChallenge(c) PROVE Outcomes'
  BY <1>2, StartChallengeEffect
<1>3. ASSUME NEW c \in Calls, StartRefresh(c) PROVE Outcomes'
  BY <1>3, StartRefreshEffect
<1>4. ASSUME NEW c \in Calls, Prepare(c) \/ Record(c) \/ Consent(c) \/ KeepConfig(c) PROVE Outcomes'
  BY <1>4, ChallengeEffect
<1>5. ASSUME NEW c \in Calls, Exchange(c) \/ Answer(c) PROVE Outcomes'
  BY <1>5, TokenEffect
<1>6. ASSUME NEW c \in Calls, Load(c) \/ Present(c) PROVE Outcomes'
  BY <1>6, RefreshEffect
<1>7. ASSUME NEW c \in Calls, KeepToken(c) \/ KeepRenewed(c) PROVE Outcomes'
  BY <1>7, KeepEffect
<1>8. ASSUME NEW c \in Calls, Finish(c) PROVE Outcomes'
  BY <1>8, FinishEffect
<1>9. ASSUME NEW f \in Calls, ExpireFlight(f) PROVE Outcomes'
  BY <1>9, ExpireEffect
<1>10. ASSUME NEW c \in Calls, Park(c) PROVE Outcomes'
  BY <1>10, Advances DEF Park, Past
<1>11. ASSUME NEW c \in Calls, Report(c) PROVE Outcomes'
  BY <1>11, ReportEffect
<1>12. ASSUME NEW s \in sweeps, Sweep(s) PROVE Outcomes'
  BY <1>12 DEF Sweep
<1>13. CASE Close
  BY <1>13, CloseEffect DEF Close
<1>14. CASE Cancel
  BY <1>14, CancelEffect DEF Running
<1> QED
  BY <1>1, <1>2, <1>3, <1>4, <1>5, <1>6, <1>7, <1>8, <1>9, <1>10, <1>11, <1>12,
     <1>13, <1>14 DEF Next, Internal, Proceed

\* What call c was told is true of its flight.
Told(c) ==
    /\ calls[c].result = "granted" => calls[c].flight \in kept
    /\ calls[c].result = "closed" => manager.closed
    /\ calls[c].result = "cancelled" => flights[calls[c].flight].cancelled
    /\ /\ calls[c].flight # NoCall
       /\ flights[calls[c].flight].finished
       /\ ~manager.closed /\ ~flights[calls[c].flight].cancelled
       => calls[c].result = flights[calls[c].flight].result

Ending(c) == StartChallenge(c) \/ StartRefresh(c) \/ Finish(c) \/ Report(c)

\* A call returns at its start, at the end of its flight, or with its report.
LEMMA EndingStep ==
    ASSUME Typed, Roles, NEW d \in Calls, calls[d].pc # "done", calls'[d].pc = "done",
           [Next]_vars
    PROVE  Ending(d)
<1> USE FlightAssumption, Names, Fields DEF Ending, LeaderMoves, GivesUp, Moved, Stays,
     SameToken, history
<1>1. CASE UNCHANGED vars
  BY <1>1 DEF vars
<1>2. ASSUME NEW c \in Calls, StartChallenge(c) PROVE Ending(d)
  BY <1>2, StartChallengeEffect
<1>3. ASSUME NEW c \in Calls, StartRefresh(c) PROVE Ending(d)
  BY <1>3, StartRefreshEffect
<1>4. ASSUME NEW c \in Calls, Prepare(c) \/ Record(c) \/ Consent(c) \/ KeepConfig(c) PROVE Ending(d)
  BY <1>4, ChallengeEffect
<1>5. ASSUME NEW c \in Calls, Exchange(c) \/ Answer(c) PROVE Ending(d)
  BY <1>5, TokenEffect
<1>6. ASSUME NEW c \in Calls, Load(c) \/ Present(c) PROVE Ending(d)
  BY <1>6, RefreshEffect
<1>7. ASSUME NEW c \in Calls, KeepToken(c) \/ KeepRenewed(c) PROVE Ending(d)
  BY <1>7, KeepEffect
<1>8. ASSUME NEW c \in Calls, Finish(c) PROVE Ending(d)
  BY <1>8, FinishEffect
<1>9. ASSUME NEW f \in Calls, ExpireFlight(f) PROVE Ending(d)
  BY <1>9, ExpireEffect
<1>10. ASSUME NEW c \in Calls, Park(c) PROVE Ending(d)
  BY <1>10, Advances DEF Park, Past
<1>11. ASSUME NEW c \in Calls, Report(c) PROVE Ending(d)
  BY <1>11, ReportEffect
<1>12. ASSUME NEW s \in sweeps, Sweep(s) PROVE Ending(d)
  BY <1>12 DEF Sweep
<1>13. CASE Close
  BY <1>13, CloseEffect DEF Close
<1>14. CASE Cancel
  BY <1>14, CancelEffect DEF Running
<1> QED
  BY <1>1, <1>2, <1>3, <1>4, <1>5, <1>6, <1>7, <1>8, <1>9, <1>10, <1>11, <1>12,
     <1>13, <1>14 DEF Next, Internal, Proceed

\* What a call was told stays true.
LEMMA ToldStays ==
    ASSUME Typed, Roles, WokenDecided, Outcomes, [Next]_vars,
           NEW d \in Calls, calls[d].pc = "done", Told(d)
    PROVE  Told(d)'
<1>1. /\ calls'[d].flight = calls[d].flight /\ calls'[d].result = calls[d].result
      /\ kept \subseteq kept'
      /\ manager.closed => manager'.closed
  BY NothingTakenBack DEF Lasting
<1>2. CASE calls[d].flight = NoCall
  BY <1>1, <1>2 DEF Told, Outcomes
<1>3. CASE calls[d].flight \in Calls
  <2> DEFINE f == calls[d].flight
  <2>1. /\ flights[f].cancelled => flights'[f].cancelled
        /\ flights[f].finished => flights'[f].finished /\ flights'[f].result = flights[f].result
    BY <1>3, NothingTakenBack DEF Lasting
  <2>2. flights[f].finished \/ flights[f].cancelled \/ manager.closed
    BY <1>3, FlightAssumption DEF WokenDecided, Decided
  <2> QED
    BY <1>1, <2>1, <2>2 DEF Told
<1> QED
  BY <1>2, <1>3, Fields

\* A call that returns is told the truth, and what it was told stays true.
LEMMA ReportsStep ==
    ASSUME Typed, Roles, WokenDecided, Outcomes, ReportsItsFlight, [Next]_vars
    PROVE  ReportsItsFlight'
<1> SUFFICES ASSUME NEW d \in Calls, calls'[d].pc = "done" PROVE Told(d)'
  BY DEF ReportsItsFlight, Told
<1>1. CASE calls[d].pc = "done"
  BY <1>1, ToldStays DEF ReportsItsFlight, Told
<1>2. CASE calls[d].pc # "done" /\ StartChallenge(d)
  BY <1>2, FlightAssumption, StartChallengeEffect DEF Told, Roles
<1>3. CASE calls[d].pc # "done" /\ StartRefresh(d)
  BY <1>3, FlightAssumption, StartRefreshEffect DEF Told, Roles
<1>4. CASE calls[d].pc # "done" /\ Finish(d)
  BY <1>4, FinishEffect DEF Told, Roles, Outcomes, LeaderSteps, Stays, history
<1>5. CASE calls[d].pc # "done" /\ Report(d)
  <2>1. calls[d].flight \in Decided
    BY <1>5, ReportEffect, FlightAssumption DEF WokenDecided
  <2> QED
    BY <1>5, <2>1, ReportEffect, Fields
    DEF Told, Outcomes, Decided, ChallengeResult, RefreshResult, history
<1> QED
  BY <1>1, <1>2, <1>3, <1>4, <1>5, EndingStep DEF Ending

\* A call that stored its token does not hold it again.
LEMMA MintedStays ==
    ASSUME Typed, Roles, [Next]_vars
    PROVE  Minted \subseteq Minted'
<1> USE FlightAssumption, Names, Fields DEF Minted, LeaderMoves, GivesUp, Moved, Stays,
     SameToken, history
<1>1. CASE UNCHANGED vars
  BY <1>1 DEF vars
<1>2. ASSUME NEW c \in Calls, StartChallenge(c) PROVE Minted \subseteq Minted'
  BY <1>2, StartChallengeEffect
<1>3. ASSUME NEW c \in Calls, StartRefresh(c) PROVE Minted \subseteq Minted'
  BY <1>3, StartRefreshEffect
<1>4. ASSUME NEW c \in Calls, Prepare(c) \/ Record(c) \/ Consent(c) \/ KeepConfig(c) PROVE Minted \subseteq Minted'
  BY <1>4, ChallengeEffect
<1>5. ASSUME NEW c \in Calls, Exchange(c) \/ Answer(c) PROVE Minted \subseteq Minted'
  BY <1>5, TokenEffect
<1>6. ASSUME NEW c \in Calls, Load(c) \/ Present(c) PROVE Minted \subseteq Minted'
  BY <1>6, RefreshEffect
<1>7. ASSUME NEW c \in Calls, KeepToken(c) \/ KeepRenewed(c) PROVE Minted \subseteq Minted'
  BY <1>7, KeepEffect
<1>8. ASSUME NEW c \in Calls, Finish(c) PROVE Minted \subseteq Minted'
  BY <1>8, FinishEffect
<1>9. ASSUME NEW f \in Calls, ExpireFlight(f) PROVE Minted \subseteq Minted'
  BY <1>9, ExpireEffect
<1>10. ASSUME NEW c \in Calls, Park(c) PROVE Minted \subseteq Minted'
  BY <1>10, Advances DEF Park, Past
<1>11. ASSUME NEW c \in Calls, Report(c) PROVE Minted \subseteq Minted'
  BY <1>11, ReportEffect
<1>12. ASSUME NEW s \in sweeps, Sweep(s) PROVE Minted \subseteq Minted'
  BY <1>12 DEF Sweep
<1>13. CASE Close
  BY <1>13, CloseEffect DEF Close
<1>14. CASE Cancel
  BY <1>14, CancelEffect DEF Running
<1> QED
  BY <1>1, <1>2, <1>3, <1>4, <1>5, <1>6, <1>7, <1>8, <1>9, <1>10, <1>11, <1>12,
     <1>13, <1>14 DEF Next, Internal, Proceed

\* A refresh token leaves the call that obtained it when that call stores it.
LEMMA TokensStep ==
    ASSUME Typed, Roles, Tokens, [Next]_vars
    PROVE  Tokens'
<1> USE FlightAssumption, Names, Fields, MintedStays DEF Tokens, Roles, LeaderSteps,
     LeaderMoves, GivesUp, Moved, Stays, SameToken, history
<1>1. CASE UNCHANGED vars
  BY <1>1 DEF vars
<1>2. ASSUME NEW c \in Calls, StartChallenge(c) PROVE Tokens'
  BY <1>2, StartChallengeEffect
<1>3. ASSUME NEW c \in Calls, StartRefresh(c) PROVE Tokens'
  BY <1>3, StartRefreshEffect
<1>4. ASSUME NEW c \in Calls, Prepare(c) \/ Record(c) \/ Consent(c) \/ KeepConfig(c) PROVE Tokens'
  BY <1>4, ChallengeEffect
<1>5. ASSUME NEW c \in Calls, Exchange(c) \/ Answer(c) PROVE Tokens'
  BY <1>5, TokenEffect
<1>6. ASSUME NEW c \in Calls, Load(c) \/ Present(c) PROVE Tokens'
  BY <1>6, RefreshEffect
<1>7. ASSUME NEW c \in Calls, KeepToken(c) \/ KeepRenewed(c) PROVE Tokens'
  <2>1. c \in Minted'
    BY <1>7, KeepEffect DEF Minted
  <2>2. store'.refresh \in Minted' \cup {NoCall}
    BY <1>7, <2>1, KeepEffect
  <2>3. replaced' \subseteq Minted'
    BY <1>7, KeepEffect
  <2> QED
    BY <1>7, <2>2, <2>3, KeepEffect
<1>8. ASSUME NEW c \in Calls, Finish(c) PROVE Tokens'
  BY <1>8, FinishEffect
<1>9. ASSUME NEW f \in Calls, ExpireFlight(f) PROVE Tokens'
  BY <1>9, ExpireEffect
<1>10. ASSUME NEW c \in Calls, Park(c) PROVE Tokens'
  BY <1>10, Advances DEF Park, Past
<1>11. ASSUME NEW c \in Calls, Report(c) PROVE Tokens'
  BY <1>11, ReportEffect
<1>12. ASSUME NEW s \in sweeps, Sweep(s) PROVE Tokens'
  BY <1>12 DEF Sweep
<1>13. CASE Close
  BY <1>13, CloseEffect DEF Close
<1>14. CASE Cancel
  BY <1>14, CancelEffect DEF Running
<1> QED
  BY <1>1, <1>2, <1>3, <1>4, <1>5, <1>6, <1>7, <1>8, <1>9, <1>10, <1>11, <1>12,
     <1>13, <1>14 DEF Next, Internal, Proceed

\* The only refresh that runs replaces the stored token by the one it works with or by
\* its own, which nobody has replaced.
LEMMA FreshStep ==
    ASSUME Typed, Roles, OneFlight, Tokens, FreshTokens, [Next]_vars
    PROVE  FreshTokens'
<1> USE FlightAssumption, Names, Fields DEF FreshTokens, Uncancelled, LeaderMoves,
     GivesUp, Moved, Stays, SameToken, history
<1>1. CASE UNCHANGED vars
  BY <1>1 DEF vars
<1>2. ASSUME NEW c \in Calls, StartChallenge(c) PROVE FreshTokens'
  BY <1>2, StartChallengeEffect
<1>3. ASSUME NEW c \in Calls, StartRefresh(c) PROVE FreshTokens'
  BY <1>3, StartRefreshEffect
<1>4. ASSUME NEW c \in Calls, Prepare(c) \/ Record(c) \/ Consent(c) \/ KeepConfig(c) PROVE FreshTokens'
  BY <1>4, ChallengeEffect
<1>5. ASSUME NEW c \in Calls, Exchange(c) \/ Answer(c) PROVE FreshTokens'
  <2>1. c \notin replaced /\ calls[c].token.refresh \in Calls \cup {NoCall}
    BY <1>5, TokenEffect DEF Tokens, Minted
  <2> QED
    BY <1>5, <2>1, TokenEffect
<1>6. ASSUME NEW c \in Calls, Load(c) \/ Present(c) PROVE FreshTokens'
  BY <1>6, RefreshEffect
<1>7. ASSUME NEW c \in Calls, KeepToken(c) \/ KeepRenewed(c) PROVE FreshTokens'
  <2>1. SUFFICES ASSUME Uncancelled
        PROVE  /\ store'.refresh \notin replaced'
               /\ \A d \in Calls : calls'[d].pc \in {"present", "answer", "keepRenewed"} =>
                     calls'[d].token.refresh \notin replaced'
               /\ stale' = {}
    BY <1>7, KeepEffect
  <2>2. c \notin replaced /\ NoCall \notin replaced
    BY <1>7, KeepEffect DEF Tokens, Minted, Typed
  <2>3. CASE calls[c].pc = "keepToken"
    BY <1>7, <2>1, <2>2, <2>3, KeepEffect DEF Tokens
  <2>4. CASE calls[c].pc = "keepRenewed"
    <3>1. ASSUME NEW d \in Calls \ {c}
          PROVE  calls[d].pc \notin {"present", "answer", "keepRenewed"}
      BY <2>1, <2>4, <3>1 DEF OneFlight, Live, Leads, Roles, LeaderSteps, RefreshSteps
    <3>2. /\ store' = calls[c].token
          /\ replaced' = replaced \cup ({store.refresh} \ {calls[c].token.refresh, NoCall})
      BY <1>7, <2>4, KeepEffect
    <3>3. calls[c].token.refresh \notin replaced'
      BY <2>1, <2>4, <3>2
    <3> QED
      BY <1>7, <2>1, <3>1, <3>2, <3>3, KeepEffect
  <2> QED
    BY <1>7, <2>3, <2>4, KeepEffect
<1>8. ASSUME NEW c \in Calls, Finish(c) PROVE FreshTokens'
  BY <1>8, FinishEffect
<1>9. ASSUME NEW f \in Calls, ExpireFlight(f) PROVE FreshTokens'
  BY <1>9, ExpireEffect
<1>10. ASSUME NEW c \in Calls, Park(c) PROVE FreshTokens'
  BY <1>10, Advances DEF Park, Past
<1>11. ASSUME NEW c \in Calls, Report(c) PROVE FreshTokens'
  BY <1>11, ReportEffect
<1>12. ASSUME NEW s \in sweeps, Sweep(s) PROVE FreshTokens'
  BY <1>12 DEF Sweep
<1>13. CASE Close
  BY <1>13, CloseEffect DEF Close
<1>14. CASE Cancel
  BY <1>14, CancelEffect DEF Running
<1> QED
  BY <1>1, <1>2, <1>3, <1>4, <1>5, <1>6, <1>7, <1>8, <1>9, <1>10, <1>11, <1>12,
     <1>13, <1>14 DEF Next, Internal, Proceed


\* A new manager, and one that a call authorized before.
LEMMA InitIInv == Init => IInv
<1> SUFFICES ASSUME Init PROVE IInv
  OBVIOUS
<1> USE FlightAssumption
<1>1. 0 \in Clients
  BY DEF Clients
<1>2. PICK c \in Earlier \cup {NoCall}, i \in Issuers :
         /\ manager = [flight |-> NoCall, refreshFlight |-> NoCall, closed |-> FALSE,
                       client |-> 0, config |-> IF c = NoCall THEN NoIssuer ELSE i]
         /\ store = [refresh |-> c, issuer |-> IF c = NoCall THEN NoIssuer ELSE i]
         /\ calls = [d \in Calls |-> IF d # c THEN Idle ELSE [Idle EXCEPT !.pc = "done"]]
  BY DEF Init
<1>3. /\ Idle \in Call /\ Idle.pc = "idle" /\ Idle.flight = NoCall /\ Idle.result = "none"
      /\ Idle.kind = "none"
  BY <1>1, Names DEF Idle, Call, Token, NoToken
<1>4. /\ [Idle EXCEPT !.pc = "done"] \in Call /\ [Idle EXCEPT !.pc = "done"].pc = "done"
      /\ [Idle EXCEPT !.pc = "done"].flight = NoCall
      /\ [Idle EXCEPT !.pc = "done"].result = "none"
  BY <1>1, Names DEF Idle, Call, Token, NoToken
<1>5. /\ calls \in [Calls -> Call]
      /\ \A d \in Calls : /\ calls[d].pc = (IF d = c THEN "done" ELSE "idle")
                          /\ calls[d].flight = NoCall /\ calls[d].result = "none"
  BY <1>2, <1>3, <1>4
<1>6. /\ manager \in Manager /\ manager.flight = NoCall /\ manager.refreshFlight = NoCall
  BY <1>1, <1>2 DEF Manager
<1>7. store \in Token /\ store.refresh = c
  BY <1>2 DEF Token
<1>8. /\ flights \in [Calls -> Flight]
      /\ \A f \in Calls : ~flights[f].finished /\ ~flights[f].cancelled /\ ~flights[f].expired
  BY Names DEF Init, Flight
<1>9. Typed
  BY <1>5, <1>6, <1>7, <1>8 DEF Init, Typed
<1>10. Roles /\ OneFlight
  BY <1>5, <1>6, <1>8
  DEF Roles, OneFlight, Live, Leads, LeaderSteps, FollowerSteps, ChallengeSteps, RefreshSteps
<1>11. WokenDecided /\ Outcomes /\ ReportsItsFlight
  BY <1>5, <1>8 DEF Init, WokenDecided, Outcomes, ReportsItsFlight
<1>12. Tokens /\ FreshTokens
  BY <1>5, <1>7 DEF Init, Tokens, Minted, FreshTokens
<1> QED
  BY <1>9, <1>10, <1>11, <1>12 DEF IInv

\* Every step of the manager keeps the inductive invariant.
LEMMA StepIInv == IInv /\ [Next]_vars => IInv'
<1> SUFFICES ASSUME IInv, [Next]_vars PROVE IInv'
  OBVIOUS
<1> QED
  BY TypeStep, RolesStep, OneFlightStep, WokenStep, OutcomesStep, ReportsStep, TokensStep,
     FreshStep DEF IInv

\* The inductive invariant holds of every state of the manager.
THEOREM Invariance == Spec => []IInv
  BY InitIInv, StepIInv, PTL DEF Spec

\* The values of the fields of OAuthAuthorizationManager and of its flights.
THEOREM TypeCorrect == Spec => []TypeOK
<1>1. IInv => TypeOK
  BY NamedTypes DEF IInv
<1> QED
  BY <1>1, Invariance, PTL

\* flight and refresh_flight name the one attempt of their kind that runs and was
\* not cancelled: the user is asked once, and no cancelled leader ends a newer flight.
THEOREM OneAttemptAtATime == Spec => []OneFlight
<1>1. IInv => OneFlight
  BY DEF IInv
<1> QED
  BY <1>1, Invariance, PTL

\* While cancel_pending() cut nothing short, no refresh presents a refresh token
\* that a refresh replaced in the store (oauth.hpp:755), however challenges and
\* refreshes interleave.
THEOREM ReplacedTokensRest == Spec => []NoReplacedTokenUncancelled
<1>1. IInv => NoReplacedTokenUncancelled
  BY DEF IInv, FreshTokens, Uncancelled, NoReplacedTokenUncancelled
<1> QED
  BY <1>1, Invariance, PTL

\* A call is told what became of its flight: a granted call finds the token kept,
\* and the manager's end or a cancellation is reported only when there was one.
THEOREM CallsToldTheTruth == Spec => []ReportsItsFlight
<1>1. IInv => ReportsItsFlight
  BY DEF IInv
<1> QED
  BY <1>1, Invariance, PTL

-----------------------------------------------------------------------------
(* What the manager discovers and presents (OAuthDiscovery).               *)

\* The operation is a record of these fields, with these values of pc.
OperationShape ==
    /\ operation = [pc |-> operation.pc, key |-> operation.key, asked |-> operation.asked,
                    left |-> operation.left, resource |-> operation.resource,
                    auth |-> operation.auth, identity |-> operation.identity,
                    scope |-> operation.scope]
    /\ operation.pc \in {"idle", "resource", "server", "auth", "check", "register", "consent",
                         "exchange", "keep"}
    /\ operation.key \in D!Keys
    /\ setup \in Setups

\* A resource document is looked at before it is cached or acted on, and what a server
\* says of itself before an identity is picked for it.
ResourcesAccepted ==
    /\ resources \in [D!Keys -> ResourceDocuments \cup {Nobody}]
    /\ \A k \in D!Keys : resources[k] # Nobody => D!Accepts(resources[k])
    /\ operation.pc \notin {"idle", "resource"} =>
          operation.resource \in ResourceDocuments /\ D!Accepts(operation.resource)
ServersTrusted ==
    operation.pc \in {"register", "consent", "exchange", "keep"} =>
        D!Trusted(operation.auth, operation.resource.server)

\* Secrets that are stored, presented or kept for refreshes are of the server they are for.
Registrations == [issuer : AuthServers, secretOf : AuthServers \cup {Nobody}, expired : BOOLEAN]
RegistrationsOwned ==
    /\ credentials \in [AuthServers -> {Nobody} \cup Registrations]
    /\ \A i \in AuthServers :
          credentials[i] # Nobody => credentials[i].secretOf \in {Nobody, credentials[i].issuer}
IdentityOwned ==
    operation.pc \in {"consent", "exchange", "keep"} =>
        operation.identity.secretOf \in {Nobody, operation.auth.claims}

\* token_config and the stored token are of one server, but between the two writes of an
\* exchange.
ConfigOwned ==
    /\ config.secretOf \in {Nobody, config.issuer}
    /\ IF operation.pc = "keep" THEN config.issuer = operation.auth.claims
       ELSE token \in {Nobody, config.issuer}
StepUp ==
    operation.pc = "consent" /\ setup.scope = {} => granted \subseteq operation.scope

DiscoveryInv ==
    /\ OperationShape /\ ResourcesAccepted /\ ServersTrusted
    /\ RegistrationsOwned /\ IdentityOwned /\ ConfigOwned /\ StepUp
    /\ D!CredentialsGoHome

LEMMA DiscoveryInit == D!Init => DiscoveryInv
<1> SUFFICES ASSUME D!Init PROVE DiscoveryInv
  OBVIOUS
<1> USE DEF D!Init, D!Idle, D!NoIdentity, D!NoConfig, D!Keys
<1>1. OperationShape
  BY DEF OperationShape
<1>2. ResourcesAccepted /\ ServersTrusted
  BY DEF ResourcesAccepted, ServersTrusted
<1>3. RegistrationsOwned
  <2>1. \A i \in AuthServers : D!Registration(i, i) \in Registrations
    BY DEF D!Registration, Registrations
  <2>2. credentials \in [AuthServers -> {Nobody} \cup Registrations]
    BY <2>1
  <2>3. ASSUME NEW i \in AuthServers, credentials[i] # Nobody
        PROVE  credentials[i].secretOf = credentials[i].issuer
    BY <2>3 DEF D!Registration
  <2> QED
    BY <2>2, <2>3 DEF RegistrationsOwned
<1>4. IdentityOwned /\ ConfigOwned /\ StepUp /\ D!CredentialsGoHome
  BY DEF IdentityOwned, ConfigOwned, StepUp, D!CredentialsGoHome
<1> QED
  BY <1>1, <1>2, <1>3, <1>4 DEF DiscoveryInv

\* The steps up to the identity.
LEMMA DiscoverySteps ==
  ASSUME DiscoveryInv, sent' = Nobody,
         \/ \E named \in BOOLEAN, asked \in SUBSET ScopeNames : D!StartChallenge(named, asked)
         \/ D!Missed
         \/ \E document \in ResourceDocuments : D!FetchResource(document)
         \/ D!LookUpServer
         \/ \E document \in AuthDocuments : D!FetchServer(document)
  PROVE  DiscoveryInv'
<1> USE DiscoveryAssumption DEF DiscoveryInv, OperationShape, ResourcesAccepted, ServersTrusted, RegistrationsOwned,
        IdentityOwned, ConfigOwned, StepUp, D!CredentialsGoHome, D!At, D!Keys, D!Fail, D!Idle, D!NoIdentity
<1>1. ASSUME NEW named \in BOOLEAN, NEW asked \in SUBSET ScopeNames, D!StartChallenge(named, asked)
      PROVE  DiscoveryInv'
  BY <1>1 DEF D!StartChallenge
<1>2. CASE D!Missed
  BY <1>2 DEF D!Missed
<1>3. ASSUME NEW document \in ResourceDocuments, D!FetchResource(document) PROVE DiscoveryInv'
  <2>1. CASE D!Accepts(document)
    <3>1. /\ resources' = [resources EXCEPT ![operation.key] = document]
          /\ operation' = [operation EXCEPT !.pc = "server", !.resource = document]
          /\ UNCHANGED <<setup, servers, credentials, config, granted, token>>
          /\ operation.pc = "resource"
      BY <1>3, <2>1 DEF D!FetchResource
    <3>2. ResourcesAccepted'
      BY <2>1, <3>1 DEF D!Accepts
    <3>3. OperationShape' /\ ServersTrusted' /\ RegistrationsOwned'
      BY <3>1
    <3>4. IdentityOwned' /\ ConfigOwned' /\ StepUp' /\ D!CredentialsGoHome'
      BY <3>1
    <3> QED
      BY <3>2, <3>3, <3>4
  <2>2. CASE ~D!Accepts(document)
    <3>1. operation' = D!Idle /\ UNCHANGED <<setup, resources, servers, credentials, config, granted, token>>
          /\ operation.pc = "resource"
      BY <1>3, <2>2 DEF D!FetchResource
    <3> QED
      BY <3>1
  <2> QED
    BY <2>1, <2>2
<1>4. CASE D!LookUpServer
  BY <1>4 DEF D!LookUpServer
<1>5. ASSUME NEW document \in AuthDocuments, D!FetchServer(document) PROVE DiscoveryInv'
  BY <1>5 DEF D!FetchServer
<1> QED
  BY <1>1, <1>2, <1>3, <1>4, <1>5

\* The choice of an identity, by the branch taken.
LEMMA IdentifyStep == ASSUME DiscoveryInv, sent' = Nobody, D!Identify PROVE DiscoveryInv'
<1> USE DiscoveryAssumption DEF DiscoveryInv, OperationShape, ResourcesAccepted, ServersTrusted, RegistrationsOwned,
        IdentityOwned, ConfigOwned, StepUp, D!CredentialsGoHome, D!At, D!Keys, D!Idle, D!NoIdentity
<1> DEFINE issuer == operation.resource.server
<1>1. CASE operation' = D!Idle
  BY <1>1 DEF D!Identify
<1>2. CASE D!Trusted(operation.auth, issuer) /\ D!GoTo("register")
  BY <1>2 DEF D!Identify, D!GoTo
<1>3. ASSUME NEW identity, D!Trusted(operation.auth, issuer), D!Ask(identity),
             identity.secretOf \in {Nobody, operation.auth.claims}
      PROVE  DiscoveryInv'
  BY <1>3 DEF D!Identify, D!Ask, D!SelectScope, D!WithGranted
<1>4. CASE D!Decision(operation.auth) = "pre_registered"
  BY <1>4, <1>1, <1>3 DEF D!Identify, D!Decision, D!Presentable, D!Issuer, D!Fail
<1>5. CASE D!Decision(operation.auth) = "stored"
  <2>1. CASE D!Trusted(operation.auth, issuer)
    <3>1. operation.auth.claims \in AuthServers
      BY <2>1 DEF D!Identify, D!Trusted, D!Accepts
    <3>2. D!StoredIdentity(D!Issuer) # Nobody
      BY <1>5 DEF D!Decision, D!Issuer
    <3>3. D!StoredIdentity(D!Issuer).secretOf \in {Nobody, operation.auth.claims}
      BY <3>1, <3>2 DEF D!StoredIdentity, D!Issuer
    <3> QED
      BY <3>3, <2>1, <1>5, <1>3 DEF D!Identify
  <2> QED
    BY <2>1, <1>1 DEF D!Identify, D!Fail
<1>6. CASE D!Decision(operation.auth) = "document"
  BY <1>6, <1>1, <1>3 DEF D!Identify, D!Fail
<1> QED
  BY <1>1, <1>2, <1>3, <1>4, <1>5, <1>6 DEF D!Identify, D!Decision, D!Fail

\* Registration, consent and exchange, and the world's steps.
LEMMA PresentingSteps ==
  ASSUME DiscoveryInv, sent' = Nobody,
         \/ \E secret \in BOOLEAN : D!Register(secret)
         \/ D!Refused
         \/ \E iss \in AuthServers \cup {Nobody} : D!Consent(iss)
         \/ D!KeepToken
         \/ D!CacheExpires
         \/ \E i \in AuthServers : D!SecretExpires(i)
  PROVE  DiscoveryInv'
<1> USE DiscoveryAssumption DEF DiscoveryInv, OperationShape, ResourcesAccepted, ServersTrusted, RegistrationsOwned,
        IdentityOwned, ConfigOwned, StepUp, D!CredentialsGoHome, D!At, D!Keys, D!Fail, D!Idle, D!NoIdentity, D!GoTo, D!Issuer
<1>1. ASSUME NEW secret \in BOOLEAN, D!Register(secret) PROVE DiscoveryInv'
  BY <1>1 DEF D!Register, D!Ask, D!SelectScope, D!WithGranted, D!Registration, D!Trusted, D!Accepts, Registrations
<1>2. CASE D!Refused
  BY <1>2 DEF D!Refused
<1>3. ASSUME NEW iss \in AuthServers \cup {Nobody}, D!Consent(iss) PROVE DiscoveryInv'
  BY <1>3 DEF D!Consent
<1>4. CASE D!KeepToken
  BY <1>4 DEF D!KeepToken
<1>5. CASE D!CacheExpires
  BY <1>5 DEF D!CacheExpires
<1>6. ASSUME NEW i \in AuthServers, D!SecretExpires(i) PROVE DiscoveryInv'
  <2>0. credentials[i] \in Registrations
    BY <1>6 DEF D!SecretExpires
  <2>1. [credentials[i] EXCEPT !.expired = TRUE] \in Registrations
    BY <2>0 DEF Registrations
  <2>2. RegistrationsOwned'
    BY <1>6, <2>1 DEF D!SecretExpires, Registrations
  <2> QED
    BY <1>6, <2>2 DEF D!SecretExpires
<1> QED
  BY <1>1, <1>2, <1>3, <1>4, <1>5, <1>6

\* What is shown to a token endpoint.
LEMMA ShowingSteps ==
  ASSUME DiscoveryInv, (\E scope \in SUBSET ScopeNames : D!Exchange(scope)) \/ D!Refresh
  PROVE  DiscoveryInv'
<1> USE DiscoveryAssumption DEF DiscoveryInv, OperationShape, ResourcesAccepted, ServersTrusted, RegistrationsOwned,
        IdentityOwned, ConfigOwned, StepUp, D!CredentialsGoHome, D!At, D!Keys, D!GoTo, D!Issuer, D!Request, D!Shown
<1>1. ASSUME NEW scope \in SUBSET ScopeNames, D!Exchange(scope) PROVE DiscoveryInv'
  BY <1>1 DEF D!Exchange, D!TokenConfig
<1>2. CASE D!Refresh
  BY <1>2 DEF D!Refresh
<1> QED
  BY <1>1, <1>2

LEMMA DiscoveryStep == DiscoveryInv /\ [D!Next]_(D!vars) => DiscoveryInv'
<1> SUFFICES ASSUME DiscoveryInv, [D!Next]_(D!vars) PROVE DiscoveryInv'
  OBVIOUS
<1>1. CASE D!Next
  BY <1>1, DiscoverySteps, IdentifyStep, PresentingSteps, ShowingSteps DEF D!Next
<1>2. CASE UNCHANGED D!vars
  BY <1>2 DEF D!vars, DiscoveryInv, OperationShape, ResourcesAccepted, ServersTrusted,
              RegistrationsOwned, IdentityOwned, ConfigOwned, StepUp, D!CredentialsGoHome
<1> QED
  BY <1>1, <1>2

\* What a flight finds is accepted before it is acted on, and what it presents is of the
\* server it is for (run_challenge, exchange_code, run_refresh): inductive.
THEOREM DiscoveryInvariance == D!Spec => []DiscoveryInv
<1> QED
  BY DiscoveryInit, DiscoveryStep, PTL DEF D!Spec

\* apply_client_authentication, exchange_code, run_refresh: a secret, a code and a refresh
\* token are shown only to the server they are from, though servers change their documents,
\* caches expire and refreshes run beside an authorization.
THEOREM SecretsGoHome == D!Spec => []CredentialsGoHome
<1>1. DiscoveryInv => CredentialsGoHome
  BY DEF DiscoveryInv, CredentialsGoHome
<1> QED
  BY <1>1, DiscoveryInvariance, PTL

\* run_challenge's checks between discovery and consent: what is cached was accepted, what is
\* acted on is who it claims to be, and a step-up keeps what was granted.
THEOREM OnlyTheAcceptedIsActedOn == D!Spec => []ActsOnTheAccepted
<1>1. DiscoveryInv => ActsOnTheAccepted
  BY DEF DiscoveryInv, ActsOnTheAccepted, D!ActsOnTheAccepted, OperationShape, ResourcesAccepted,
         ServersTrusted, StepUp, D!Accepts, D!Trusted, D!At, D!Keys
<1> QED
  BY <1>1, DiscoveryInvariance, PTL

-----------------------------------------------------------------------------
(* The HTTP client and its aborts (OAuthHttpClient).                       *)

\* What an exchange is in, by its pc: once tracked it is in active_exchanges until it ends.
Exchanging == {"hop", "resolving", "lookedUp", "checked", "connected", "answered", "cut"}
ExchangeRecord == [pc : {"idle", "spawned", "done"} \cup Exchanging, scope : H!Scopes \cup {H!Unscoped},
             get : BOOLEAN, hops : Nat, result : {"none", "ok", "failed", "aborted"}]
ExchangeShape ==
    /\ exchanges \in [Exchanges -> ExchangeRecord]
    /\ \A e \in Exchanges :
          /\ exchanges[e].pc \in Exchanging => e \in active
          /\ exchanges[e].pc = "idle" => exchanges[e].result = "none"
    /\ active \subseteq Exchanges
HolderHolds ==
    \A e \in Exchanges : exchanges[e].pc \in H!Holding <=> holder = e

\* Who has looked at the latch and not yet given up the strand: a socket about to be opened,
\* or a first hop, which only a GET looks at again.
Looked(e) ==
    exchanges[e].pc \in {"resolving", "connected", "checked"}
    \/ (exchanges[e].pc = "hop" /\ ~exchanges[e].get)
ClosesUnderWay ==
    \A e \in Exchanges : H!Aborted(e) /\ Looked(e) => e \in closing
AbortedForCause ==
    \A e \in Exchanges : exchanges[e].result = "aborted" => H!Aborted(e)

\* The scopes an authenticator has left behind are aborted or about to be.
ScopesLeft ==
    /\ \A a \in Authenticators : auth[a] \in [scope : {a} \X (0..MaxSwaps), closed : BOOLEAN]
    /\ DOMAIN auth = Authenticators
    /\ \A a \in Authenticators, k \in 0..MaxSwaps :
          k < auth[a].scope[2] \/ (k = auth[a].scope[2] /\ auth[a].closed) =>
              <<a, k>> \in latched \cup aborting
    /\ \A a \in Authenticators, e \in Exchanges :
          exchanges[e].scope[1] = a => exchanges[e].scope[2] <= auth[a].scope[2]

HttpClientInv ==
    /\ ExchangeShape /\ HolderHolds /\ ClosesUnderWay /\ AbortedForCause /\ ScopesLeft

LEMMA HttpClientInit == H!Init => HttpClientInv
<1> SUFFICES ASSUME H!Init PROVE HttpClientInv
  OBVIOUS
<1> USE HttpAssumption DEF H!Init
<1>1. ExchangeShape
  BY DEF ExchangeShape, ExchangeRecord, Exchanging
<1>2. HolderHolds /\ ClosesUnderWay /\ AbortedForCause
  BY DEF HolderHolds, H!Holding, ClosesUnderWay, H!Aborted, AbortedForCause
<1>3. ScopesLeft
  BY DEF ScopesLeft, H!Unscoped
<1> QED
  BY <1>1, <1>2, <1>3 DEF HttpClientInv


\* What a step of one exchange does to its record.
LEMMA ExchangeMoves ==
  ASSUME ExchangeShape, NEW e \in Exchanges, NEW x \in ExchangeRecord,
         exchanges' = [exchanges EXCEPT ![e] = x]
  PROVE  /\ exchanges' \in [Exchanges -> ExchangeRecord] /\ exchanges'[e] = x
         /\ \A d \in Exchanges \ {e} : exchanges'[d] = exchanges[d]
BY DEF ExchangeShape

LEMMA ExchangeGoes ==
  ASSUME ExchangeShape, NEW e \in Exchanges, NEW pc \in Exchanging, exchanges[e].pc \in Exchanging,
         H!Goto(e, pc), active' = active
  PROVE  ExchangeShape'
<1> DEFINE x == [exchanges[e] EXCEPT !.pc = pc]
<1>1. x \in ExchangeRecord /\ x.pc = pc
  BY DEF ExchangeShape, ExchangeRecord
<1>2. exchanges' = [exchanges EXCEPT ![e] = x]
  BY DEF H!Goto
<1>3. pc # "idle"
  BY DEF Exchanging
<1> HIDE DEF x
<1> QED
  BY <1>1, <1>2, <1>3, ExchangeMoves DEF ExchangeShape

LEMMA ExchangeEnds ==
  ASSUME ExchangeShape, NEW e \in Exchanges, NEW result \in {"ok", "failed", "aborted"},
         H!End(e, result)
  PROVE  ExchangeShape'
<1> DEFINE x == [exchanges[e] EXCEPT !.pc = "done", !.result = result]
<1>1. x \in ExchangeRecord /\ x.pc = "done"
  BY DEF ExchangeShape, ExchangeRecord
<1>2. exchanges' = [exchanges EXCEPT ![e] = x]
  BY DEF H!End
<1> HIDE DEF x
<1> QED
  BY <1>1, <1>2, ExchangeMoves DEF ExchangeShape, Exchanging, H!End

LEMMA HandlerSteps ==
  ASSUME HttpClientInv, NEW e \in Exchanges, H!Handler(e) PROVE HttpClientInv'
<1>0. ASSUME H!Cut(e) PROVE ExchangeShape'
  <2>1. PICK r \in {"aborted", "failed"} : H!End(e, r)
    BY <1>0 DEF H!Cut
  <2>2. ExchangeShape
    BY DEF HttpClientInv
  <2> QED
    BY <2>1, <2>2, ExchangeEnds
<1> USE HttpAssumption DEF HttpClientInv, ExchangeShape, ExchangeRecord, Exchanging, HolderHolds, ClosesUnderWay,
      AbortedForCause, ScopesLeft, Looked, H!Aborted, H!Holding, H!Goto, H!End
<1>1. CASE H!Track(e)
  BY <1>1 DEF H!Track, H!StopsAtStart
<1>2. CASE H!Hop(e)
  BY <1>2 DEF H!Hop
<1>3. CASE H!LastLook(e)
  BY <1>3 DEF H!LastLook, H!StopsBeforeSocket
<1>4. CASE H!Connect(e)
  BY <1>4 DEF H!Connect
<1>5. CASE H!Answered(e)
  <2> USE <1>5 DEF H!Answered
  <2>1. ExchangeShape'
    OBVIOUS
  <2>2. HolderHolds'
    OBVIOUS
  <2>3. ClosesUnderWay'
    OBVIOUS
  <2>4. AbortedForCause'
    OBVIOUS
  <2>5. ScopesLeft'
    OBVIOUS
  <2> QED
    BY <2>1, <2>2, <2>3, <2>4, <2>5
<1>6. CASE H!Cut(e)
  <2> USE <1>6 DEF H!Cut
  <2>1. ExchangeShape'
    BY <1>6, <1>0
  <2>2. HolderHolds'
    OBVIOUS
  <2>3. ClosesUnderWay'
    OBVIOUS
  <2>4. AbortedForCause'
    OBVIOUS
  <2>5. ScopesLeft'
    OBVIOUS
  <2> QED
    BY <2>1, <2>2, <2>3, <2>4, <2>5
<1> QED
  BY <1>1, <1>2, <1>3, <1>4, <1>5, <1>6 DEF H!Handler

\* An exchange that is spawned, under a scope.
LEMMA Spawns ==
  ASSUME HttpClientInv, NEW e \in Exchanges, exchanges[e].pc = "idle",
         NEW get \in BOOLEAN, NEW scope \in H!Scopes \cup {H!Unscoped},
         \A a \in Authenticators : scope[1] = a => scope[2] <= auth[a].scope[2],
         exchanges' = [exchanges EXCEPT ![e] =
                          [exchanges[e] EXCEPT !.pc = "spawned", !.get = get, !.scope = scope]],
         UNCHANGED <<latched, active, closing, holder, auth, aborting>>
  PROVE  HttpClientInv'
<1> DEFINE x == [exchanges[e] EXCEPT !.pc = "spawned", !.get = get, !.scope = scope]
<1>1. exchanges[e] \in ExchangeRecord /\ exchanges[e].result = "none"
  BY DEF HttpClientInv, ExchangeShape
<1>2. /\ x \in ExchangeRecord /\ x.pc = "spawned" /\ x.scope = scope /\ x.result = "none"
  BY <1>1 DEF ExchangeRecord
<1>3. exchanges' = [exchanges EXCEPT ![e] = x]
  OBVIOUS
<1> HIDE DEF x
<1>4. /\ exchanges' \in [Exchanges -> ExchangeRecord] /\ exchanges'[e] = x
      /\ \A d \in Exchanges \ {e} : exchanges'[d] = exchanges[d]
  BY <1>2, <1>3, ExchangeMoves DEF HttpClientInv
<1>5. ExchangeShape'
  BY <1>2, <1>4 DEF HttpClientInv, ExchangeShape, Exchanging
<1>6. HolderHolds'
  BY <1>2, <1>4 DEF HttpClientInv, HolderHolds, H!Holding
<1>7. ClosesUnderWay' /\ AbortedForCause'
  BY <1>2, <1>4 DEF HttpClientInv, ClosesUnderWay, AbortedForCause, H!Aborted, Looked
<1>8. ScopesLeft'
  BY <1>2, <1>4 DEF HttpClientInv, ScopesLeft
<1> QED
  BY <1>5, <1>6, <1>7, <1>8 DEF HttpClientInv

LEMMA OutsideSteps ==
  ASSUME HttpClientInv, NEW e \in Exchanges,
         \/ H!Issue(e) \/ H!LookUp(e) \/ H!Respond(e) \/ H!RunClose(e)
         \/ \E a \in Authenticators : H!Refresh(e, a)
  PROVE HttpClientInv'
<1>1. CASE H!Issue(e)
  <2>1. PICK get \in BOOLEAN :
           exchanges' = [exchanges EXCEPT ![e].pc = "spawned", ![e].get = get]
    BY <1>1 DEF H!Issue
  <2>2. exchanges[e] \in ExchangeRecord /\ exchanges[e].pc = "idle"
    BY <1>1 DEF HttpClientInv, ExchangeShape, H!Issue
  <2>3. [exchanges[e] EXCEPT !.pc = "spawned", !.get = get] =
            [exchanges[e] EXCEPT !.pc = "spawned", !.get = get, !.scope = exchanges[e].scope]
    BY <2>2 DEF ExchangeRecord
  <2>4. exchanges' = [exchanges EXCEPT ![e] =
            [exchanges[e] EXCEPT !.pc = "spawned", !.get = get, !.scope = exchanges[e].scope]]
    BY <2>1, <2>3
  <2>5. /\ exchanges[e].scope \in H!Scopes \cup {H!Unscoped}
        /\ \A a \in Authenticators :
              exchanges[e].scope[1] = a => exchanges[e].scope[2] <= auth[a].scope[2]
    BY <2>2 DEF ExchangeRecord, HttpClientInv, ScopesLeft
  <2> QED
    BY <1>1, <2>2, <2>4, <2>5, Spawns DEF H!Issue
<1>2. ASSUME NEW a \in Authenticators, H!Refresh(e, a) PROVE HttpClientInv'
  <2>1. /\ exchanges' = [exchanges EXCEPT ![e].pc = "spawned", ![e].scope = auth[a].scope]
        /\ exchanges[e].pc = "idle" /\ UNCHANGED <<latched, active, closing, holder, auth, aborting>>
    BY <1>2 DEF H!Refresh
  <2>2. exchanges[e] \in ExchangeRecord
    BY DEF HttpClientInv, ExchangeShape
  <2>3. [exchanges[e] EXCEPT !.pc = "spawned", !.scope = auth[a].scope] =
            [exchanges[e] EXCEPT !.pc = "spawned", !.get = exchanges[e].get, !.scope = auth[a].scope]
    BY <2>2 DEF ExchangeRecord
  <2>4. exchanges' = [exchanges EXCEPT ![e] =
            [exchanges[e] EXCEPT !.pc = "spawned", !.get = exchanges[e].get, !.scope = auth[a].scope]]
    BY <2>1, <2>3
  <2>5. auth[a].scope \in H!Scopes /\ auth[a].scope[1] = a
    BY DEF H!Scopes, HttpClientInv, ScopesLeft
  <2>6. exchanges[e].get \in BOOLEAN
    BY <2>2 DEF ExchangeRecord
  <2>7. \A b \in Authenticators : auth[a].scope[1] = b => auth[a].scope[2] <= auth[b].scope[2]
    BY <2>5 DEF HttpClientInv, ScopesLeft
  <2> QED
    BY <2>1, <2>4, <2>5, <2>6, <2>7, Spawns
<1>6. ASSUME H!LookUp(e) \/ H!Respond(e) \/ H!RunClose(e) PROVE ExchangeShape'
  <2>1. active' = active /\ ExchangeShape
    BY <1>6 DEF H!LookUp, H!Respond, H!RunClose, HttpClientInv
  <2>2. CASE UNCHANGED exchanges
    BY <2>1, <2>2 DEF ExchangeShape
  <2>3. CASE \E pc \in Exchanging : exchanges[e].pc \in Exchanging /\ H!Goto(e, pc)
    BY <2>1, <2>3, ExchangeGoes
  <2> QED
    BY <1>6, <2>2, <2>3 DEF H!LookUp, H!Respond, H!RunClose, H!Waiting, Exchanging
<1> USE HttpAssumption DEF HttpClientInv, ExchangeShape, ExchangeRecord, Exchanging, HolderHolds, ClosesUnderWay,
      AbortedForCause, ScopesLeft, Looked, H!Aborted, H!Holding, H!Goto, H!Unscoped
<1>3. CASE H!LookUp(e)
  <2> USE <1>3 DEF H!LookUp
  <2>1. ExchangeShape'
    BY <1>6
  <2>2. HolderHolds'
    OBVIOUS
  <2>3. ClosesUnderWay'
    OBVIOUS
  <2>4. AbortedForCause'
    OBVIOUS
  <2>5. ScopesLeft'
    OBVIOUS
  <2> QED
    BY <2>1, <2>2, <2>3, <2>4, <2>5
<1>4. CASE H!Respond(e)
  <2> USE <1>4 DEF H!Respond
  <2>1. ExchangeShape'
    BY <1>6
  <2>2. HolderHolds'
    OBVIOUS
  <2>3. ClosesUnderWay'
    OBVIOUS
  <2>4. AbortedForCause'
    OBVIOUS
  <2>5. ScopesLeft'
    OBVIOUS
  <2> QED
    BY <2>1, <2>2, <2>3, <2>4, <2>5
<1>5. CASE H!RunClose(e)
  <2> USE <1>5 DEF H!RunClose, H!Waiting
  <2>1. ExchangeShape'
    BY <1>6
  <2>2. HolderHolds'
    OBVIOUS
  <2>3. ClosesUnderWay'
    OBVIOUS
  <2>4. AbortedForCause'
    OBVIOUS
  <2>5. ScopesLeft'
    OBVIOUS
  <2> QED
    BY <2>1, <2>2, <2>3, <2>4, <2>5
<1> QED
  BY <1>1, <1>2, <1>3, <1>4, <1>5

\* An authenticator leaves its scope, for the next one or for good.
LEMMA ScopeLeft ==
  ASSUME ScopesLeft, ExchangeShape, NEW a \in Authenticators, NEW n \in 0..MaxSwaps, NEW new,
         new \in [scope : {a} \X (0..MaxSwaps), closed : BOOLEAN], new.scope[2] = n,
         n = auth[a].scope[2] \/ (n = auth[a].scope[2] + 1 /\ ~new.closed),
         auth' = [auth EXCEPT ![a] = new],
         aborting' = aborting \cup {auth[a].scope}, UNCHANGED <<latched, exchanges>>
  PROVE  ScopesLeft'
<1> USE HttpAssumption
<1>1. auth[a].scope = <<a, auth[a].scope[2]>> /\ auth[a].scope[2] \in 0..MaxSwaps
  BY DEF ScopesLeft
<1>2. /\ DOMAIN auth' = Authenticators /\ auth'[a] = new
      /\ \A b \in Authenticators \ {a} : auth'[b] = auth[b]
  BY DEF ScopesLeft
<1>4. ASSUME NEW b \in Authenticators
      PROVE  auth'[b] \in [scope : {b} \X (0..MaxSwaps), closed : BOOLEAN]
  <2>1. CASE b = a
    BY <1>2, <2>1
  <2>2. CASE b # a
    BY <1>2, <2>2 DEF ScopesLeft
  <2> QED
    BY <2>1, <2>2
<1>5. ASSUME NEW b \in Authenticators, NEW k \in 0..MaxSwaps,
             k < auth'[b].scope[2] \/ (k = auth'[b].scope[2] /\ auth'[b].closed)
      PROVE  <<b, k>> \in (latched \cup aborting)'
  <2>1. CASE b = a
    <3>1. k < auth[a].scope[2] \/ k = auth[a].scope[2]
      BY <1>1, <1>2, <1>5, <2>1
    <3>2. CASE k = auth[a].scope[2]
      BY <1>1, <2>1, <3>2
    <3>3. CASE k < auth[a].scope[2]
      BY <2>1, <3>3 DEF ScopesLeft
    <3> QED
      BY <3>1, <3>2, <3>3
  <2>2. CASE b # a
    BY <1>2, <1>5, <2>2 DEF ScopesLeft
  <2> QED
    BY <2>1, <2>2
<1>6. ASSUME NEW b \in Authenticators, NEW e \in Exchanges, exchanges[e].scope[1] = b
      PROVE  exchanges[e].scope[2] <= auth'[b].scope[2]
  <2>1. exchanges[e].scope[2] <= auth[b].scope[2]
    BY <1>6 DEF ScopesLeft
  <2> exchanges[e].scope[2] \in Nat
    BY DEF ExchangeShape, ExchangeRecord, H!Scopes, H!Unscoped
  <2>2. CASE b = a
    <3>1. auth'[b].scope[2] = n
      BY <1>2, <2>2
    <3> QED
      BY <1>1, <2>1, <2>2, <3>1
  <2>3. CASE b # a
    BY <1>2, <2>1, <2>3
  <2> QED
    BY <2>2, <2>3
<1> QED
  BY <1>2, <1>4, <1>5, <1>6 DEF ScopesLeft

\* cancel_pending() and close() of an authenticator.
LEMMA ScopesStep ==
  ASSUME HttpClientInv, NEW a \in Authenticators, H!CancelPending(a) \/ H!CloseAuthenticator(a)
  PROVE  ScopesLeft'
<1>1. ExchangeShape /\ ScopesLeft
  BY DEF HttpClientInv
<1>2. /\ auth[a] \in [scope : {a} \X (0..MaxSwaps), closed : BOOLEAN]
      /\ auth[a].scope = <<a, auth[a].scope[2]>> /\ auth[a].scope[2] \in 0..MaxSwaps
  BY <1>1 DEF ScopesLeft
<1>3. CASE H!CancelPending(a)
  <2> DEFINE new == [auth[a] EXCEPT !.scope = <<a, auth[a].scope[2] + 1>>]
  <2>1. /\ auth' = [auth EXCEPT ![a] = new] /\ aborting' = aborting \cup {auth[a].scope}
        /\ UNCHANGED <<latched, exchanges>> /\ ~auth[a].closed /\ auth[a].scope[2] + 1 \in 0..MaxSwaps
    BY <1>2, <1>3, HttpAssumption DEF H!CancelPending
  <2>2. /\ new \in [scope : {a} \X (0..MaxSwaps), closed : BOOLEAN]
        /\ new.scope[2] = auth[a].scope[2] + 1 /\ ~new.closed
    BY <1>2, <2>1
  <2> HIDE DEF new
  <2> QED
    BY <1>1, <2>1, <2>2, ScopeLeft
<1>4. CASE H!CloseAuthenticator(a)
  <2> DEFINE new == [auth[a] EXCEPT !.closed = TRUE]
  <2>1. /\ auth' = [auth EXCEPT ![a] = new] /\ aborting' = aborting \cup {auth[a].scope}
        /\ UNCHANGED <<latched, exchanges>> /\ ~auth[a].closed /\ auth[a].scope[2] \in 0..MaxSwaps
    BY <1>2, <1>4, HttpAssumption DEF H!CloseAuthenticator
  <2>2. /\ new \in [scope : {a} \X (0..MaxSwaps), closed : BOOLEAN]
        /\ new.scope[2] = auth[a].scope[2]
    BY <1>2, <2>1
  <2> HIDE DEF new
  <2> QED
    BY <1>1, <2>1, <2>2, ScopeLeft
<1> QED
  BY <1>3, <1>4

LEMMA AbortSteps ==
  ASSUME HttpClientInv,
         \/ H!AbortClient
         \/ \E a \in Authenticators : H!CancelPending(a) \/ H!CloseAuthenticator(a)
         \/ \E s \in H!Scopes : H!AbortScope(s)
  PROVE HttpClientInv'
<1> USE HttpAssumption DEF HttpClientInv, ExchangeShape, HolderHolds, ClosesUnderWay,
      AbortedForCause, ScopesLeft, Looked, H!Aborted, H!Holding, Exchanging
<1>1. CASE H!AbortClient
  BY <1>1 DEF H!AbortClient, H!AbortMatching
<1>2. ASSUME NEW a \in Authenticators, H!CancelPending(a) PROVE HttpClientInv'
  <2> USE <1>2 DEF H!CancelPending
  <2>1. ExchangeShape'
    OBVIOUS
  <2>2. HolderHolds'
    OBVIOUS
  <2>3. ClosesUnderWay'
    OBVIOUS
  <2>4. AbortedForCause'
    OBVIOUS
  <2>5. ScopesLeft'
    BY <1>2, ScopesStep
  <2> QED
    BY <2>1, <2>2, <2>3, <2>4, <2>5
<1>3. ASSUME NEW a \in Authenticators, H!CloseAuthenticator(a) PROVE HttpClientInv'
  <2> USE <1>3 DEF H!CloseAuthenticator
  <2>1. ExchangeShape'
    OBVIOUS
  <2>2. HolderHolds'
    OBVIOUS
  <2>3. ClosesUnderWay'
    OBVIOUS
  <2>4. AbortedForCause'
    OBVIOUS
  <2>5. ScopesLeft'
    BY <1>3, ScopesStep
  <2> QED
    BY <2>1, <2>2, <2>3, <2>4, <2>5
<1>4. ASSUME NEW s \in H!Scopes, H!AbortScope(s) PROVE HttpClientInv'
  BY <1>4 DEF H!AbortScope, H!AbortMatching
<1> QED
  BY <1>1, <1>2, <1>3, <1>4

LEMMA HttpClientStep == HttpClientInv /\ [H!Next]_(H!vars) => HttpClientInv'
<1> SUFFICES ASSUME HttpClientInv, [H!Next]_(H!vars) PROVE HttpClientInv'
  OBVIOUS
<1>1. CASE H!Next
  BY <1>1, HandlerSteps, OutsideSteps, AbortSteps DEF H!Next
<1>2. CASE UNCHANGED H!vars
  BY <1>2 DEF H!vars, HttpClientInv, ExchangeShape, HolderHolds, ClosesUnderWay, AbortedForCause,
              ScopesLeft, H!Aborted, Looked
<1> QED
  BY <1>1, <1>2

\* What holds the strand, what is tracked and what has been aborted agree in every
\* behaviour of the HTTP client (oauth.cpp:626-743, 1503-1525): inductive.
THEOREM HttpClientInvariance == H!Spec => []HttpClientInv
<1> QED
  BY HttpClientInit, HttpClientStep, PTL DEF H!Spec

\* abort_scope and abort_all reach every exchange they are for, whenever it looks at the
\* latch, and no other; a closed authenticator's exchanges are all being closed.
THEOREM AbortsReachTheirs == H!Spec => []AbortsReach
<1>1. HttpClientInv => AbortsReach
  <2> SUFFICES ASSUME HttpClientInv PROVE AbortsReach
    OBVIOUS
  <2>1. H!AbortReaches
    BY DEF HttpClientInv, ClosesUnderWay, AbortedForCause, HolderHolds, H!AbortReaches, Looked, H!Waiting
  <2>2. ASSUME NEW a \in Authenticators, NEW e \in Exchanges, auth[a].closed, aborting = {},
               exchanges[e].scope[1] = a, exchanges[e].pc \in H!Waiting
        PROVE  e \in closing
    <3>1. exchanges[e].scope \in H!Scopes
      BY <2>2, HttpAssumption DEF HttpClientInv, ExchangeShape, ExchangeRecord, H!Unscoped
    <3>2. /\ exchanges[e].scope = <<a, exchanges[e].scope[2]>> /\ exchanges[e].scope[2] \in 0..MaxSwaps
          /\ exchanges[e].scope[2] <= auth[a].scope[2]
          /\ auth[a].scope[2] \in 0..MaxSwaps
      BY <2>2, <3>1 DEF H!Scopes, HttpClientInv, ScopesLeft
    <3>3. exchanges[e].scope \in latched
      BY <2>2, <3>2, HttpAssumption DEF HttpClientInv, ScopesLeft
    <3> QED
      BY <2>2, <3>3 DEF HttpClientInv, ClosesUnderWay, Looked, H!Aborted, H!Waiting
  <2> QED
    BY <2>1, <2>2 DEF AbortsReach, H!ClosedForGood
<1> QED
  BY <1>1, HttpClientInvariance, PTL

-----------------------------------------------------------------------------
(* The transport that retries: its table.                                  *)

\* The sizes of a table, summed up to each place.
Sums(p, f) ==
    /\ f \in [0..Len(p) -> Nat] /\ f[0] = 0
    /\ \A n \in 1..Len(p) : f[n] = f[n - 1] + p[n].size
LEMMA EntrySize == \A e \in T!Entry : e.size \in Nat
BY TransportAssumption DEF T!Entry
LEMMA Sized ==
  ASSUME NEW p \in Seq(T!Entry) PROVE \E f : Sums(p, f) /\ T!SizeOf(p) = f[Len(p)]
<1> DEFINE L == Len(p)
           g == [n \in 1..L |-> [v \in Nat |-> v + p[n].size]]
<1>1. \A n \in 1..L : p[n].size \in Nat
  <2>1. \A n \in 1..L : p[n] \in T!Entry
    OBVIOUS
  <2> QED
    BY <2>1, EntrySize
<1>2. g \in [1..L -> [Nat -> Nat]] /\ L \in Nat
  BY <1>1
<1>3. PICK f \in [0..L -> Nat] : f[0] = 0 /\ \A n \in 1..L : f[n] = g[n][f[n - 1]]
  <2> HIDE DEF g, L
  <2> DEFINE V == Nat
  <2>1. 0 \in V /\ g \in [1..L -> [V -> V]] /\ L \in Nat
    BY <1>2
  <2> HIDE DEF V
  <2>2. Recursive(V, 0, L, g)
    BY <2>1, Recursion
  <2> QED
    BY <2>2 DEF V, Recursive
<1>4. \A n \in 1..L : f[n] = f[n - 1] + p[n].size
  <2> TAKE n \in 1..L
  <2>1. f[n - 1] \in Nat
    BY <1>3
  <2> QED
    BY <1>3, <2>1
<1> DEFINE size == CHOOSE s : s = [n \in 0..L |-> IF n = 0 THEN 0 ELSE s[n - 1] + p[n].size]
<1>5. f = [n \in 0..L |-> IF n = 0 THEN 0 ELSE f[n - 1] + p[n].size]
  BY <1>3, <1>4
<1>6. size = [n \in 0..L |-> IF n = 0 THEN 0 ELSE size[n - 1] + p[n].size]
  BY <1>5
<1>7. T!SizeOf(p) = size[L]
  BY DEF T!SizeOf
<1> HIDE DEF size
<1>8. \A n \in 0..L : n \in {k \in 0..L : size[k] = f[k]}
  <2> DEFINE S == {k \in 0..L : size[k] = f[k]}
  <2>1. 0 \in S
    BY <1>3, <1>6
  <2>2. ASSUME NEW n \in 1..L, n - 1 \in S PROVE n \in S
    <3>1. n \in 0..L /\ n # 0 /\ size[n - 1] = f[n - 1]
      BY <1>2, <2>2
    <3>2. size[n] = size[n - 1] + p[n].size
      BY <1>6, <3>1
    <3>3. size[n] = f[n]
      BY <1>4, <3>1, <3>2
    <3> QED
      BY <3>1, <3>3
  <2> HIDE DEF S
  <2>3. \A n \in 0..L : n \in S
    BY <1>2, <2>1, <2>2, Induction
  <2> QED
    BY <2>3 DEF S
<1>9. T!SizeOf(p) = f[L]
  BY <1>2, <1>7, <1>8
<1> QED
  BY <1>3, <1>4, <1>9 DEF Sums

LEMMA SizeEmpty == T!SizeOf(<<>>) = 0
<1>1. PICK f : Sums(<<>>, f) /\ T!SizeOf(<<>>) = f[Len(<<>>)]
  <2>1. <<>> \in Seq(T!Entry)
    OBVIOUS
  <2> QED
    BY <2>1, Sized
<1> QED
  BY <1>1 DEF Sums

\* Tables of the same sizes up to n have the same sums up to n.
LEMMA SumsAgree ==
  ASSUME NEW p \in Seq(T!Entry), NEW q \in Seq(T!Entry), NEW f, NEW h, Sums(p, f), Sums(q, h),
         NEW n \in Nat, n <= Len(p), n <= Len(q), \A i \in 1..n : p[i].size = q[i].size
  PROVE  f[n] = h[n]
<1> DEFINE S == {k \in 0..n : f[k] = h[k]}
<1>1. 0 \in S
  BY DEF Sums
<1>2. ASSUME NEW k \in 1..n, k - 1 \in S PROVE k \in S
  BY <1>2 DEF Sums
<1> HIDE DEF S
<1>3. n \in S
  <2>1. \A k \in 0..n : k \in S
    BY <1>1, <1>2, Induction
  <2> QED
    BY <2>1
<1> QED
  BY <1>3 DEF S

LEMMA SizeSame ==
  ASSUME NEW p \in Seq(T!Entry), NEW q \in Seq(T!Entry), Len(p) = Len(q),
         \A i \in 1..Len(p) : p[i].size = q[i].size
  PROVE  T!SizeOf(p) = T!SizeOf(q)
<1>1. PICK f : Sums(p, f) /\ T!SizeOf(p) = f[Len(p)]
  BY Sized
<1>2. PICK h : Sums(q, h) /\ T!SizeOf(q) = h[Len(q)]
  BY Sized
<1> QED
  BY <1>1, <1>2, SumsAgree

LEMMA SizeAppend ==
  ASSUME NEW p \in Seq(T!Entry), NEW e \in T!Entry
  PROVE  T!SizeOf(Append(p, e)) = T!SizeOf(p) + e.size
<1> DEFINE q == Append(p, e)
<1>1. q \in Seq(T!Entry) /\ Len(q) = Len(p) + 1 /\ q[Len(p) + 1] = e /\ \A i \in 1..Len(p) : q[i] = p[i]
  OBVIOUS
<1> HIDE DEF q
<1>2. PICK f : Sums(p, f) /\ T!SizeOf(p) = f[Len(p)]
  BY Sized
<1>3. PICK h : Sums(q, h) /\ T!SizeOf(q) = h[Len(q)]
  BY <1>1, Sized
<1>4. f[Len(p)] = h[Len(p)]
  BY <1>1, <1>2, <1>3, SumsAgree
<1>5. h[Len(p) + 1] = h[Len(p)] + e.size
  BY <1>1, <1>3 DEF Sums
<1>6. T!SizeOf(q) = T!SizeOf(p) + e.size
  BY <1>1, <1>2, <1>3, <1>4, <1>5
<1> QED
  BY <1>6 DEF q

\* A table is as large as what is in front of a place and what is behind it.
LEMMA SizeSplit ==
  ASSUME NEW p \in Seq(T!Entry), NEW n \in 0..Len(p)
  PROVE  /\ T!SizeOf(SubSeq(p, 1, n)) \in Nat /\ T!SizeOf(SubSeq(p, n + 1, Len(p))) \in Nat
         /\ T!SizeOf(p) = T!SizeOf(SubSeq(p, 1, n)) + T!SizeOf(SubSeq(p, n + 1, Len(p)))
<1> DEFINE a == SubSeq(p, 1, n)
           c == SubSeq(p, n + 1, Len(p))
<1>1. /\ a \in Seq(T!Entry) /\ Len(a) = n /\ \A i \in 1..n : a[i] = p[i]
  OBVIOUS
<1>2. /\ c \in Seq(T!Entry) /\ Len(c) = Len(p) - n /\ \A i \in 1..Len(p) - n : c[i] = p[n + i]
  <2>1. n \in Nat /\ n <= Len(p) /\ Len(p) \in Nat
    OBVIOUS
  <2>2. Len(c) = Len(p) - n /\ \A i \in 1..Len(p) - n : c[i] = p[n + i]
    BY <2>1
  <2>3. c \in Seq(T!Entry)
    BY <2>1
  <2> QED
    BY <2>2, <2>3
<1> HIDE DEF a, c
<1>3. PICK f : Sums(p, f) /\ T!SizeOf(p) = f[Len(p)]
  BY Sized
<1>4. PICK h : Sums(a, h) /\ T!SizeOf(a) = h[Len(a)]
  BY <1>1, Sized
<1>5. PICK d : Sums(c, d) /\ T!SizeOf(c) = d[Len(c)]
  BY <1>2, Sized
<1>6. h[n] = f[n]
  BY <1>1, <1>3, <1>4, SumsAgree
<1> DEFINE S == {k \in 0..Len(p) - n : f[n + k] = f[n] + d[k]}
<1>7. 0 \in S
  <2>1. f[n] \in Nat /\ d[0] = 0 /\ n + 0 = n /\ 0 \in 0..Len(p) - n
    BY <1>3, <1>5 DEF Sums
  <2> QED
    BY <2>1
<1>8. ASSUME NEW k \in 1..Len(p) - n, k - 1 \in S PROVE k \in S
  <2>1. /\ n + k \in 1..Len(p) /\ f[n + k] = f[n + k - 1] + p[n + k].size
        /\ d[k] = d[k - 1] + c[k].size /\ c[k] = p[n + k]
    BY <1>2, <1>3, <1>5 DEF Sums
  <2>2. f[n + (k - 1)] = f[n] + d[k - 1]
    BY <1>8
  <2>3. f[n] \in Nat /\ d[k - 1] \in Nat /\ p[n + k].size \in Nat
    <3>1. p[n + k] \in T!Entry
      BY <2>1
    <3>2. n \in 0..Len(p) /\ k - 1 \in 0..Len(c)
      BY <1>2
    <3> QED
      BY <1>3, <1>5, <3>1, <3>2, EntrySize DEF Sums
  <2>4. f[n + k] = f[n] + d[k]
    BY <2>1, <2>2, <2>3
  <2> QED
    BY <2>4
<1> HIDE DEF S
<1>9. Len(p) - n \in S
  <2>1. Len(p) - n \in Nat
    OBVIOUS
  <2>2. \A k \in 0..Len(p) - n : k \in S
    BY <1>7, <1>8, <2>1, Induction
  <2> QED
    BY <2>1, <2>2
<1>10. f[Len(p)] = f[n] + d[Len(p) - n]
  BY <1>9 DEF S
<1>11. T!SizeOf(a) \in Nat /\ T!SizeOf(c) \in Nat /\ T!SizeOf(p) = T!SizeOf(a) + T!SizeOf(c)
  <2>1. h[n] \in Nat /\ d[Len(p) - n] \in Nat
    <3>1. n \in 0..Len(a) /\ Len(p) - n \in 0..Len(c)
      BY <1>1, <1>2
    <3> QED
      BY <1>4, <1>5, <3>1 DEF Sums
  <2> QED
    BY <1>1, <1>2, <1>3, <1>4, <1>5, <1>6, <1>10, <2>1
<1> QED
  BY <1>11 DEF a, c

\* What is kept of a table, up to each place.
Keeps(p, S, k) ==
    /\ k \in [0..Len(p) -> Seq(T!Entry)] /\ k[0] = <<>>
    /\ \A n \in 1..Len(p) : k[n] = IF p[n] \in S THEN Append(k[n - 1], p[n]) ELSE k[n - 1]
LEMMA Keeping ==
  ASSUME NEW p \in Seq(T!Entry), NEW S PROVE \E k : Keeps(p, S, k) /\ T!Kept(p, S) = k[Len(p)]
<1> DEFINE L == Len(p)
           V == Seq(T!Entry)
           g == [n \in 1..L |-> [v \in V |-> IF p[n] \in S THEN Append(v, p[n]) ELSE v]]
<1>1. \A n \in 1..L : p[n] \in T!Entry
  OBVIOUS
<1>2. g \in [1..L -> [V -> V]] /\ L \in Nat /\ <<>> \in V
  <2>1. \A n \in 1..L, v \in V : Append(v, p[n]) \in V
    BY <1>1
  <2> HIDE DEF V
  <2>2. g \in [1..L -> [V -> V]]
    BY <2>1
  <2> QED
    BY <2>2 DEF V
<1>3. PICK k \in [0..L -> V] : k[0] = <<>> /\ \A n \in 1..L : k[n] = g[n][k[n - 1]]
  <2> HIDE DEF g, L, V
  <2>1. Recursive(V, <<>>, L, g)
    BY <1>2, Recursion
  <2> QED
    BY <2>1 DEF Recursive
<1>4. \A n \in 1..L : k[n] = IF p[n] \in S THEN Append(k[n - 1], p[n]) ELSE k[n - 1]
  <2> TAKE n \in 1..L
  <2> HIDE DEF V
  <2>1. k[n - 1] \in V
    BY <1>3
  <2> QED
    BY <1>3, <2>1
<1> DEFINE keep == CHOOSE s : s = [n \in 0..L |-> IF n = 0 THEN <<>>
                                  ELSE IF p[n] \in S THEN Append(s[n - 1], p[n]) ELSE s[n - 1]]
<1>5. k = [n \in 0..L |-> IF n = 0 THEN <<>>
                          ELSE IF p[n] \in S THEN Append(k[n - 1], p[n]) ELSE k[n - 1]]
  <2> HIDE DEF V
  <2>1. k = [n \in 0..L |-> k[n]]
    BY <1>3
  <2>2. \A n \in 0..L : k[n] = IF n = 0 THEN <<>>
                               ELSE IF p[n] \in S THEN Append(k[n - 1], p[n]) ELSE k[n - 1]
    <3> TAKE n \in 0..L
    <3>1. CASE n = 0
      BY <1>3, <3>1
    <3>2. CASE n \in 1..L
      <4>1. k[n] = IF p[n] \in S THEN Append(k[n - 1], p[n]) ELSE k[n - 1]
        BY <1>4, <3>2
      <4>2. n # 0
        BY <3>2
      <4> QED
        BY <4>1, <4>2
    <3> QED
      BY <3>1, <3>2
  <2> QED
    BY <2>1, <2>2
<1>6. keep = [n \in 0..L |-> IF n = 0 THEN <<>>
                             ELSE IF p[n] \in S THEN Append(keep[n - 1], p[n]) ELSE keep[n - 1]]
  BY <1>5
<1>7. T!Kept(p, S) = keep[L]
  BY DEF T!Kept
<1> HIDE DEF keep
<1>8. \A n \in 0..L : keep[n] = k[n]
  <2> DEFINE E == {n \in 0..L : keep[n] = k[n]}
  <2>1. 0 \in E
    BY <1>3, <1>6
  <2>2. ASSUME NEW n \in 1..L, n - 1 \in E PROVE n \in E
    <3>1. n \in 0..L /\ n # 0 /\ n - 1 \in 0..L /\ keep[n - 1] = k[n - 1]
      BY <2>2
    <3>2. keep[n] = IF p[n] \in S THEN Append(keep[n - 1], p[n]) ELSE keep[n - 1]
      BY <1>6, <3>1
    <3>3. k[n] = IF p[n] \in S THEN Append(k[n - 1], p[n]) ELSE k[n - 1]
      BY <1>4
    <3>4. keep[n] = k[n]
      BY <3>1, <3>2, <3>3
    <3> QED
      BY <3>1, <3>4
  <2> HIDE DEF E
  <2>3. \A n \in 0..L : n \in E
    BY <1>2, <2>1, <2>2, Induction
  <2> QED
    BY <2>3 DEF E
<1>9. T!Kept(p, S) = k[L]
  BY <1>2, <1>7, <1>8
<1> QED
  BY <1>3, <1>4, <1>9 DEF Keeps

\* No two entries of a table have the same key.
Distinct(p) == \A i, j \in 1..Len(p) : p[i].key = p[j].key => i = j

\* What is kept of a table is a part of it, and all that is in S.
LEMMA KeptFacts ==
  ASSUME NEW p \in Seq(T!Entry), NEW S
  PROVE  LET q == T!Kept(p, S)
         IN  /\ q \in Seq(T!Entry) /\ Len(q) <= Len(p) /\ T!SizeOf(q) \in Nat /\ T!SizeOf(p) \in Nat
             /\ T!SizeOf(q) <= T!SizeOf(p)
             /\ \A i \in 1..Len(q) : q[i] \in S /\ \E j \in 1..Len(p) : q[i] = p[j]
             /\ \A j \in 1..Len(p) : p[j] \in S => \E i \in 1..Len(q) : q[i] = p[j]
             /\ Distinct(p) => Distinct(q)
<1>1. PICK k : Keeps(p, S, k) /\ T!Kept(p, S) = k[Len(p)]
  BY Keeping
<1>2. PICK f : Sums(p, f) /\ T!SizeOf(p) = f[Len(p)]
  BY Sized
<1> DEFINE Part(n) ==
             /\ Len(k[n]) <= n /\ T!SizeOf(k[n]) \in Nat /\ T!SizeOf(k[n]) <= f[n]
             /\ \A i \in 1..Len(k[n]) : k[n][i] \in S /\ \E j \in 1..n : k[n][i] = p[j]
             /\ \A j \in 1..n : p[j] \in S => \E i \in 1..Len(k[n]) : k[n][i] = p[j]
             /\ Distinct(p) => Distinct(k[n])
           E == {n \in 0..Len(p) : Part(n)}
<1>3. Part(0)
  BY <1>1, <1>2, SizeEmpty DEF Keeps, Sums, Distinct
<1>4. ASSUME NEW n \in 1..Len(p), Part(n - 1) PROVE Part(n)
  <2> DEFINE m == n - 1
             r == k[m]
             e == p[n]
  <2>1. /\ r \in Seq(T!Entry) /\ e \in T!Entry /\ m \in 0..Len(p)
        /\ k[n] = IF e \in S THEN Append(r, e) ELSE r
        /\ f[m] \in Nat /\ f[n] = f[m] + e.size /\ e.size \in Nat
    BY <1>1, <1>2, EntrySize DEF Keeps, Sums
  <2>2. CASE e \notin S
    <3>1. k[n] = r
      BY <2>1, <2>2
    <3>2. Len(r) <= m /\ T!SizeOf(r) \in Nat /\ T!SizeOf(r) <= f[m]
      BY <1>4
    <3>3. Len(k[n]) <= n /\ T!SizeOf(k[n]) \in Nat /\ T!SizeOf(k[n]) <= f[n]
      BY <2>1, <3>1, <3>2
    <3>4. \A i \in 1..Len(k[n]) : k[n][i] \in S /\ \E j \in 1..n : k[n][i] = p[j]
      BY <1>4, <3>1
    <3>5. \A j \in 1..n : p[j] \in S => \E i \in 1..Len(k[n]) : k[n][i] = p[j]
      BY <1>4, <2>2, <3>1
    <3> QED
      BY <1>4, <3>1, <3>3, <3>4, <3>5
  <2>3. CASE e \in S
    <3> DEFINE q == Append(r, e)
    <3>1. /\ k[n] = q /\ q \in Seq(T!Entry) /\ Len(q) = Len(r) + 1 /\ q[Len(r) + 1] = e
          /\ \A i \in 1..Len(r) : q[i] = r[i]
      BY <2>1, <2>3
    <3>2. T!SizeOf(q) = T!SizeOf(r) + e.size
      BY <2>1, SizeAppend
    <3> HIDE DEF q
    <3>3. Len(r) <= m /\ T!SizeOf(r) \in Nat /\ T!SizeOf(r) <= f[m]
      BY <1>4
    <3>4. Len(q) <= n /\ T!SizeOf(q) \in Nat /\ T!SizeOf(q) <= f[n]
      BY <2>1, <3>1, <3>2, <3>3
    <3>5. ASSUME NEW i \in 1..Len(q) PROVE q[i] \in S /\ \E j \in 1..n : q[i] = p[j]
      <4>1. CASE i = Len(r) + 1
        BY <2>3, <3>1, <4>1
      <4>2. CASE i # Len(r) + 1
        <5>1. i \in 1..Len(r) /\ q[i] = r[i]
          BY <3>1, <4>2
        <5>2. r[i] \in S /\ \E j \in 1..m : r[i] = p[j]
          BY <1>4, <5>1
        <5> QED
          BY <5>1, <5>2
      <4> QED
        BY <4>1, <4>2
    <3>6. ASSUME NEW j \in 1..n, p[j] \in S PROVE \E i \in 1..Len(q) : q[i] = p[j]
      <4>1. CASE j = n
        BY <3>1, <4>1
      <4>2. CASE j # n
        <5>1. j \in 1..m
          BY <4>2
        <5>2. PICK i \in 1..Len(r) : r[i] = p[j]
          BY <1>4, <3>6, <5>1
        <5> QED
          BY <3>1, <5>2
      <4> QED
        BY <4>1, <4>2
    <3>7. ASSUME Distinct(p), NEW a \in 1..Len(q), NEW b \in 1..Len(q), q[a].key = q[b].key
          PROVE  a = b
      <4>1. \A i \in 1..Len(r) : \E j \in 1..m : r[i] = p[j]
        BY <1>4
      <4>2. \A i \in 1..Len(r) : r[i].key # e.key
        <5> SUFFICES ASSUME NEW i \in 1..Len(r), r[i].key = e.key PROVE FALSE
          OBVIOUS
        <5>1. PICK j \in 1..m : r[i] = p[j]
          BY <4>1
        <5>2. j \in 1..Len(p) /\ n \in 1..Len(p) /\ j # n /\ p[j].key = p[n].key
          BY <5>1
        <5> QED
          BY <3>7, <5>2 DEF Distinct
      <4>3. Distinct(r)
        BY <1>4, <3>7
      <4>4. \A i \in 1..Len(q) : i \in 1..Len(r) \/ i = Len(r) + 1
        BY <3>1
      <4>5. CASE a \in 1..Len(r) /\ b \in 1..Len(r)
        BY <3>1, <3>7, <4>3, <4>5 DEF Distinct
      <4>6. CASE a = Len(r) + 1 /\ b \in 1..Len(r)
        BY <3>1, <3>7, <4>2, <4>6
      <4>7. CASE a \in 1..Len(r) /\ b = Len(r) + 1
        BY <3>1, <3>7, <4>2, <4>7
      <4> QED
        BY <4>4, <4>5, <4>6, <4>7
    <3> QED
      BY <3>1, <3>4, <3>5, <3>6, <3>7 DEF Distinct
  <2> QED
    BY <2>2, <2>3
<1>5. \A n \in 0..Len(p) : n \in E
  <2>1. 0 \in E
    BY <1>3
  <2>2. \A n \in 1..Len(p) : n - 1 \in E => n \in E
    BY <1>4
  <2>3. Len(p) \in Nat
    OBVIOUS
  <2> HIDE DEF E
  <2> QED
    BY <2>1, <2>2, <2>3, Induction
<1>6. Part(Len(p))
  BY <1>5
<1>7. k[Len(p)] \in Seq(T!Entry) /\ f[Len(p)] \in Nat
  BY <1>1, <1>2 DEF Keeps, Sums
<1> QED
  BY <1>1, <1>2, <1>6, <1>7

-----------------------------------------------------------------------------
(* The retry table.                                                        *)

\* A retry table of this many bytes, its generations up to g.
TableOf(p, b, g) ==
    /\ p \in Seq(T!Entry) /\ Len(p) <= MaxRequests /\ Distinct(p)
    /\ b = T!SizeOf(p) /\ b \in 0..MaxBytes
    /\ g \in Nat /\ \A i \in 1..Len(p) : p[i].gen \in 1..g
PartOf(q, p) == \A i \in 1..Len(q) : \E j \in 1..Len(p) : q[i] = p[j]

LEMMA TableKept ==
  ASSUME NEW p, NEW b, NEW g, TableOf(p, b, g), NEW S
  PROVE  /\ TableOf(T!Kept(p, S), b - (T!SizeOf(p) - T!SizeOf(T!Kept(p, S))), g)
         /\ PartOf(T!Kept(p, S), p)
<1> DEFINE q == T!Kept(p, S)
<1>1. /\ q \in Seq(T!Entry) /\ Len(q) <= Len(p) /\ T!SizeOf(q) \in Nat /\ T!SizeOf(p) \in Nat
      /\ T!SizeOf(q) <= T!SizeOf(p)
      /\ \A i \in 1..Len(q) : q[i] \in S /\ \E j \in 1..Len(p) : q[i] = p[j]
      /\ Distinct(p) => Distinct(q)
  BY KeptFacts DEF TableOf
<1> HIDE DEF q
<1>2. TableOf(q, b - (T!SizeOf(p) - T!SizeOf(q)), g)
  <2>1. /\ Len(q) <= MaxRequests /\ Distinct(q) /\ b - (T!SizeOf(p) - T!SizeOf(q)) = T!SizeOf(q)
        /\ T!SizeOf(q) \in 0..MaxBytes
    BY <1>1, TransportAssumption DEF TableOf
  <2>2. \A i \in 1..Len(q) : q[i].gen \in 1..g
    BY <1>1 DEF TableOf
  <2> QED
    BY <1>1, <2>1, <2>2 DEF TableOf
<1> QED
  BY <1>1, <1>2 DEF q, PartOf

\* evict_oldest_locked() makes room: a table without entries has it.
LEMMA Evicted ==
  ASSUME NEW p, NEW b, NEW g, TableOf(p, b, g), NEW size \in Nat, size <= MaxBytes, MaxRequests > 0
  PROVE  LET r == T!Evict(p, b, size)
         IN  /\ r \in Seq(T!Entry) /\ Len(r) < MaxRequests /\ Distinct(r) /\ PartOf(r, p)
             /\ T!SizeOf(r) \in Nat /\ T!SizeOf(r) + size <= MaxBytes
<1> USE TransportAssumption
<1> DEFINE Rest(n) == SubSeq(p, n + 1, Len(p))
           Used(n) == b - T!SizeOf(SubSeq(p, 1, n))
           enough == {n \in 0..Len(p) : T!Fits(Rest(n), Used(n), size)}
           n == CHOOSE n \in enough : \A k \in enough : n <= k
<1>1. p \in Seq(T!Entry) /\ b = T!SizeOf(p) /\ b \in Nat /\ Distinct(p)
  BY DEF TableOf
<1>2. \A k \in 0..Len(p) : Used(k) = T!SizeOf(Rest(k)) /\ T!SizeOf(Rest(k)) \in Nat
  BY <1>1, SizeSplit
<1>3. Len(p) \in enough
  <2>1. Rest(Len(p)) = <<>> /\ Len(p) \in 0..Len(p)
    BY <1>1
  <2>2. Used(Len(p)) = 0
    BY <1>2, <2>1, SizeEmpty
  <2> QED
    BY <2>1, <2>2 DEF T!Fits
<1>4. n \in enough
  <2>1. enough \in SUBSET Nat
    OBVIOUS
  <2> HIDE DEF enough
  <2>2. \E m \in enough : \A k \in enough : m <= k
    BY <1>3, <2>1, Least
  <2> QED
    BY <2>2
<1>5. T!Evict(p, b, size) = Rest(n)
  BY DEF T!Evict
<1> HIDE DEF n
<1>6. n \in 0..Len(p) /\ T!Fits(Rest(n), Used(n), size)
  BY <1>4
<1>7. /\ Rest(n) \in Seq(T!Entry) /\ Len(Rest(n)) = Len(p) - n
      /\ \A i \in 1..Len(p) - n : Rest(n)[i] = p[n + i] /\ n + i \in 1..Len(p)
  BY <1>1, <1>6
<1>8. T!SizeOf(Rest(n)) \in Nat /\ Used(n) = T!SizeOf(Rest(n))
  BY <1>2, <1>6
<1> HIDE DEF Rest, Used, enough
<1>9. Len(Rest(n)) < MaxRequests /\ size <= MaxBytes - Used(n)
  BY <1>6 DEF T!Fits
<1>10. Distinct(Rest(n))
  <2> SUFFICES ASSUME NEW i \in 1..Len(Rest(n)), NEW j \in 1..Len(Rest(n)),
                      Rest(n)[i].key = Rest(n)[j].key
               PROVE  i = j
    BY DEF Distinct
  <2>1. n + i = n + j
    BY <1>1, <1>7 DEF Distinct
  <2> QED
    BY <1>6, <1>7, <2>1
<1>11. PartOf(Rest(n), p)
  BY <1>7 DEF PartOf
<1> QED
  BY <1>5, <1>7, <1>8, <1>9, <1>10, <1>11

Table == TableOf(pending, bytes, generation)

\* remember_request(): the new entry is the newest, the others were there.
LEMMA Remembered ==
  ASSUME Table, NEW key \in Writers, NEW size \in Sizes, T!Remember(key, size)
  PROVE  /\ Table' /\ generation <= generation' /\ (transport.closed /\ pending = <<>> => pending' = <<>>)
         /\ T!Retainable(size) => generation' = generation + 1
         /\ \A i \in 1..Len(pending') :
               pending'[i].gen = generation + 1 \/ \E j \in 1..Len(pending) : pending'[i] = pending[j]
<1> USE TransportAssumption
<1> DEFINE pruned == T!Fresh(pending)
           left == bytes - (T!SizeOf(pending) - T!SizeOf(pruned))
           others == T!Without(pruned, key)
           used == left - (T!SizeOf(pruned) - T!SizeOf(others))
           room == T!Evict(others, used, size)
<1>1. TableOf(pruned, left, generation) /\ PartOf(pruned, pending)
  BY TableKept DEF T!Fresh, Table
<1> HIDE DEF pruned, left
<1>2. TableOf(others, used, generation) /\ PartOf(others, pruned)
  BY <1>1, TableKept DEF T!Without
<1>3. CASE ~T!Retainable(size)
  <2>1. pending' = pruned /\ bytes' = left /\ generation' = generation
    BY <1>3 DEF T!Remember, pruned, left
  <2>2. pending = <<>> => pruned = <<>>
    <3>1. pruned \in Seq(T!Entry) /\ (pending = <<>> => Len(pruned) = 0)
      BY <1>1 DEF PartOf, TableOf
    <3> QED
      BY <3>1
  <2> QED
    BY <1>1, <1>3, <2>1, <2>2 DEF Table, TableOf, PartOf
<1>4. CASE T!Retainable(size)
  <2> DEFINE e == [key |-> key, gen |-> generation + 1, size |-> size, late |-> FALSE]
  <2>1. /\ pending' = Append(room, e) /\ generation' = generation + 1
        /\ bytes' = used - (T!SizeOf(others) - T!SizeOf(room)) + size
    BY <1>4 DEF T!Remember, pruned, left
  <2>2. size \in Nat /\ size <= MaxBytes /\ MaxRequests > 0 /\ ~transport.closed
    BY <1>4 DEF T!Retainable
  <2> HIDE DEF others, used
  <2>3. /\ room \in Seq(T!Entry) /\ Len(room) < MaxRequests /\ Distinct(room) /\ PartOf(room, others)
        /\ T!SizeOf(room) \in Nat /\ T!SizeOf(room) + size <= MaxBytes
    BY <1>2, <2>2, Evicted
  <2>4. generation \in Nat /\ e \in T!Entry
    BY <1>2, <2>2 DEF TableOf, T!Entry
  <2>5. \A i \in 1..Len(room) : /\ room[i].key # key /\ room[i].gen \in 1..generation
                                /\ \E j \in 1..Len(pending) : room[i] = pending[j]
    <3>1. \A i \in 1..Len(others) : others[i].key # key
      <4>1. pruned \in Seq(T!Entry)
        BY <1>1 DEF TableOf
      <4> QED
        BY <4>1, KeptFacts DEF others, T!Without
    <3>2. \A j \in 1..Len(others) : /\ others[j].gen \in 1..generation
                                   /\ \E l \in 1..Len(pending) : others[j] = pending[l]
      BY <1>1, <1>2 DEF PartOf, TableOf
    <3>3. \A i \in 1..Len(room) : \E j \in 1..Len(others) : room[i] = others[j]
      BY <2>3 DEF PartOf
    <3> HIDE DEF room, others
    <3> SUFFICES ASSUME NEW i \in 1..Len(room)
                 PROVE  /\ room[i].key # key /\ room[i].gen \in 1..generation
                        /\ \E j \in 1..Len(pending) : room[i] = pending[j]
      OBVIOUS
    <3>4. PICK j \in 1..Len(others) : room[i] = others[j]
      BY <3>3
    <3>5. others[j].key # key /\ others[j].gen \in 1..generation
      BY <3>1, <3>2
    <3>6. \E l \in 1..Len(pending) : others[j] = pending[l]
      BY <3>2
    <3> QED
      BY <3>4, <3>5, <3>6
  <2>6. T!SizeOf(pending') = T!SizeOf(room) + size
    BY <2>1, <2>3, <2>4, SizeAppend
  <2> HIDE DEF room
  <2>7. /\ pending' \in Seq(T!Entry) /\ Len(pending') = Len(room) + 1 /\ pending'[Len(room) + 1] = e
        /\ \A i \in 1..Len(room) : pending'[i] = room[i]
    BY <2>1, <2>3, <2>4
  <2>8. bytes' = T!SizeOf(pending') /\ bytes' \in 0..MaxBytes
    <3>1. used = T!SizeOf(others) /\ used \in Nat
      BY <1>2 DEF TableOf
    <3>2. bytes' = T!SizeOf(room) + size
      BY <2>1, <2>2, <2>3, <3>1
    <3> QED
      BY <2>2, <2>3, <2>6, <3>2
  <2>9. \A i \in 1..Len(pending') : i \in 1..Len(room) \/ i = Len(room) + 1
    BY <2>3, <2>7
  <2>10. Distinct(pending')
    <3> SUFFICES ASSUME NEW i \in 1..Len(pending'), NEW j \in 1..Len(pending'),
                        pending'[i].key = pending'[j].key
                 PROVE  i = j
      BY DEF Distinct
    <3>1. CASE i \in 1..Len(room) /\ j \in 1..Len(room)
      BY <2>3, <2>7, <3>1 DEF Distinct
    <3>2. CASE i = Len(room) + 1 /\ j \in 1..Len(room)
      BY <2>5, <2>7, <3>2
    <3>3. CASE i \in 1..Len(room) /\ j = Len(room) + 1
      BY <2>5, <2>7, <3>3
    <3> QED
      BY <2>9, <3>1, <3>2, <3>3
  <2>11. \A i \in 1..Len(pending') :
            /\ pending'[i].gen \in 1..generation + 1
            /\ pending'[i].gen = generation + 1 \/ \E j \in 1..Len(pending) : pending'[i] = pending[j]
    BY <2>4, <2>5, <2>7, <2>9
  <2>12. Table'
    BY <2>1, <2>3, <2>4, <2>7, <2>8, <2>10, <2>11 DEF Table, TableOf
  <2> QED
    BY <2>1, <2>2, <2>4, <2>11, <2>12
<1> QED
  BY <1>3, <1>4

\* erase_pending() and take_retry_wire(): entries leave the table.
LEMMA Erased ==
  ASSUME Table, NEW o \in T!Ops, T!Erase(o), UNCHANGED generation
  PROVE  /\ Table' /\ PartOf(pending', pending)
         /\ \A i \in 1..Len(pending') : ~T!Mine(o, pending'[i])
         /\ \A j \in 1..Len(pending) :
               ~T!Mine(o, pending[j]) => \E i \in 1..Len(pending') : pending'[i] = pending[j]
<1> DEFINE S == {e \in T!Entry : ~T!Mine(o, e)}
<1>1. pending \in Seq(T!Entry)
  BY DEF Table, TableOf
<1>2. pending' = T!Kept(pending, S) /\ bytes' = bytes - (T!SizeOf(pending) - T!SizeOf(T!Kept(pending, S)))
  BY DEF T!Erase
<1>3. \A e \in T!Entry : e \in S <=> ~T!Mine(o, e)
  OBVIOUS
<1> HIDE DEF S
<1>4. Table' /\ PartOf(pending', pending)
  BY <1>2, TableKept DEF Table
<1>5. /\ \A i \in 1..Len(pending') : pending'[i] \in S
      /\ \A j \in 1..Len(pending) : pending[j] \in S => \E i \in 1..Len(pending') : pending'[i] = pending[j]
  BY <1>1, <1>2, KeptFacts
<1>6. \A j \in 1..Len(pending) : pending[j] \in T!Entry
  BY <1>1
<1>7. \A i \in 1..Len(pending') : pending'[i] \in T!Entry
  BY <1>4 DEF Table, TableOf
<1> QED
  BY <1>3, <1>4, <1>5, <1>6, <1>7

LEMMA Taken ==
  ASSUME Table, NEW key, T!Take(key), UNCHANGED generation
  PROVE  Table' /\ PartOf(pending', pending)
<1> DEFINE live == T!Fresh(pending)
           left == bytes - (T!SizeOf(pending) - T!SizeOf(live))
           rest == T!Without(live, key)
<1>1. TableOf(live, left, generation) /\ PartOf(live, pending)
  BY TableKept DEF T!Fresh, Table
<1>2. pending' = rest /\ bytes' = bytes - (T!SizeOf(pending) - T!SizeOf(rest))
  BY DEF T!Take
<1> HIDE DEF live
<1>3. TableOf(rest, left - (T!SizeOf(live) - T!SizeOf(rest)), generation) /\ PartOf(rest, live)
  BY <1>1, TableKept DEF T!Without
<1>4. bytes' = T!SizeOf(rest) /\ bytes' \in 0..MaxBytes
  <2>1. T!SizeOf(rest) \in 0..MaxBytes
    BY <1>3, TransportAssumption DEF TableOf
  <2> QED
    BY <1>2, <2>1, TransportAssumption DEF Table, TableOf
<1> HIDE DEF left, rest
<1>5. Table'
  BY <1>2, <1>3, <1>4 DEF Table, TableOf
<1> QED
  BY <1>1, <1>2, <1>3, <1>5 DEF PartOf

\* The oldest entry is late.
LEMMA Aged ==
  ASSUME Table, T!TimePasses
  PROVE  /\ Table' /\ Len(pending') = Len(pending)
         /\ \A i \in 1..Len(pending) : pending'[i].key = pending[i].key /\ pending'[i].gen = pending[i].gen
<1>1. PICK i \in DOMAIN pending : pending' = [pending EXCEPT ![i].late = TRUE]
  BY DEF T!TimePasses
<1> DEFINE e == [pending[i] EXCEPT !.late = TRUE]
<1>2. pending \in Seq(T!Entry) /\ i \in 1..Len(pending) /\ pending[i] \in T!Entry
  BY DEF Table, TableOf
<1>3. e \in T!Entry /\ e.key = pending[i].key /\ e.gen = pending[i].gen /\ e.size = pending[i].size
  BY <1>2 DEF T!Entry
<1> HIDE DEF e
<1>4. pending' = [pending EXCEPT ![i] = e]
  BY <1>1 DEF e
<1>5. /\ pending' \in Seq(T!Entry) /\ Len(pending') = Len(pending) /\ pending'[i] = e
      /\ \A j \in 1..Len(pending) : j # i => pending'[j] = pending[j]
  BY <1>2, <1>3, <1>4
<1>6. \A j \in 1..Len(pending) : /\ pending'[j].key = pending[j].key /\ pending'[j].gen = pending[j].gen
                                /\ pending'[j].size = pending[j].size
  BY <1>3, <1>5
<1>7. T!SizeOf(pending') = T!SizeOf(pending)
  BY <1>2, <1>5, <1>6, SizeSame
<1>8. Distinct(pending')
  BY <1>5, <1>6 DEF Table, TableOf, Distinct
<1>9. bytes' = bytes /\ generation' = generation
  BY DEF T!TimePasses
<1> QED
  BY <1>5, <1>6, <1>7, <1>8, <1>9 DEF Table, TableOf

-----------------------------------------------------------------------------
(* The writes, the reader and close().                                     *)

\* A write by its pc: what awaits an attempt, and what answers a refusal.
Awaiting == {"awaitRefresh", "awaitChallenge"}
Attempting == {"refreshing", "challenging"} \cup Awaiting
Answering == {"refresh", "challenge", "callRefresh", "callChallenge"} \cup Attempting
WriteOp == [pc : {"idle", "send", "done"} \cup Answering, key : Writers \cup {NoKey},
            size : Sizes \cup {0}, gen : Nat, attempts : 0..T!MaxChallenges, refreshed : BOOLEAN,
            authorized401 : BOOLEAN, refreshAllowed : BOOLEAN, challenge : BOOLEAN, cutOff : BOOLEAN,
            result : {"none", "ok", "failed"}]
WritesTyped ==
    /\ ops \in [T!Ops -> WriteOp] /\ sends \in [T!Ops -> Nat]
    /\ attempts \in [T!Ops -> {"none", "running", "cancelled"}]
    /\ transport \in [http : BOOLEAN, closed : BOOLEAN, swept : BOOLEAN, innerClosed : BOOLEAN]
    /\ wired \subseteq Writers

\* The entry of a write is at most as new as the table, and gone once it failed.
EntrySettled(o) ==
    /\ ops[o].gen <= generation
    /\ ops[o].pc # "idle" => ops[o].key \in Writers
    /\ ops[o].result # "none" => ops[o].pc = "done"
    /\ ops[o].result = "failed" => \A i \in 1..Len(pending) : ~T!EntryOf(o, pending[i])
\* A write that waits has an attempt, which is cancelled once close() has swept.
AttemptKept(o) ==
    /\ ops[o].pc \in Attempting => attempts[o] # "none"
    /\ transport.swept /\ ops[o].pc \in Awaiting => attempts[o] = "cancelled"
\* Every write but the first follows an attempt of its own.
SendsCounted(o) ==
    /\ sends[o] <= 1 + T!MaxChallenges
    /\ ops[o].pc = "send" => sends[o] <= 1 + ops[o].attempts
    /\ ops[o].pc \in Answering => sends[o] <= ops[o].attempts
WriteInv(o) == EntrySettled(o) /\ AttemptKept(o) /\ SendsCounted(o)

\* The reader's write is between replays while the reader looks for one.
ReaderTurn ==
    /\ reader \in [pc : {"read", "refreshing", "replay", "reread", "failed"},
                   key : Writers \cup {NoKey}, size : Sizes \cup {0}]
    /\ reader.pc = "refreshing" => reader.key \in Writers /\ reader.size \in Sizes
    /\ reader.pc \in {"read", "refreshing"} => ops[Reader].pc = "idle"
CloseInTurn ==
    /\ transport.swept => transport.closed
    /\ transport.closed => pending = <<>>

TransportInv ==
    /\ Table /\ WritesTyped /\ ReaderTurn /\ CloseInTurn /\ \A o \in T!Ops : WriteInv(o)

LEMMA IdleOp == T!Idle \in WriteOp
  BY DEF T!Idle, WriteOp, T!MaxChallenges

LEMMA TransportInit == T!Init => TransportInv
<1> SUFFICES ASSUME T!Init PROVE TransportInv
  OBVIOUS
<1> USE TransportAssumption DEF T!Init
<1>1. Table
  BY SizeEmpty DEF Table, TableOf, Distinct
<1>2. WritesTyped
  BY IdleOp DEF WritesTyped
<1>3. ReaderTurn /\ CloseInTurn
  BY DEF ReaderTurn, CloseInTurn, T!Idle, T!Ops
<1>4. \A o \in T!Ops : WriteInv(o)
  BY DEF WriteInv, EntrySettled, AttemptKept, SendsCounted, T!Idle, Attempting, Awaiting, Answering,
         T!MaxChallenges
<1> QED
  BY <1>1, <1>2, <1>3, <1>4 DEF TransportInv

\* What a step does to the table and to the attempts it is not about: the
\* entries are old ones or newer than all, and attempts at most end by a cancel.
Newer ==
    \A i \in 1..Len(pending') :
        \/ pending'[i].gen > generation
        \/ \E j \in 1..Len(pending) : pending'[i].key = pending[j].key /\ pending'[i].gen = pending[j].gen
CancelledFrom(o) == attempts'[o] = IF attempts[o] = "running" THEN "cancelled" ELSE attempts[o]
Bystander(o) ==
    /\ ops'[o] = ops[o] /\ sends'[o] = sends[o]
    /\ \/ attempts'[o] = attempts[o] /\ transport'.swept = transport.swept
       \/ CancelledFrom(o)

LEMMA Undisturbed ==
  ASSUME TransportInv, NEW o \in T!Ops, Bystander(o), Table', generation <= generation', Newer
  PROVE  WriteInv(o)'
<1>1. ops[o] \in WriteOp /\ WriteInv(o)
  BY DEF TransportInv, WritesTyped
<1>2. /\ ops[o].gen \in Nat /\ generation \in Nat /\ generation' \in Nat
      /\ \A i \in 1..Len(pending') : pending'[i].gen \in Nat
  <2>1. ops[o].gen \in Nat
    BY <1>1 DEF WriteOp
  <2>2. generation \in Nat /\ generation' \in Nat
    BY DEF TransportInv, Table, TableOf
  <2>3. \A i \in 1..Len(pending') : pending'[i].gen \in 1..generation'
    BY DEF Table, TableOf
  <2> QED
    BY <2>1, <2>2, <2>3
<1>3. EntrySettled(o)'
  <2>1. ops[o].gen <= generation' /\ ops[o].gen <= generation
    BY <1>1, <1>2 DEF WriteInv, EntrySettled
  <2>2. ASSUME ops[o].result = "failed", NEW i \in 1..Len(pending') PROVE ~T!EntryOf(o, pending[i])'
    BY <1>1, <1>2, <2>1, <2>2 DEF WriteInv, EntrySettled, T!EntryOf, Newer, Bystander
  <2> QED
    BY <1>1, <2>1, <2>2 DEF WriteInv, EntrySettled, Bystander
<1>4. AttemptKept(o)'
  <2>1. AttemptKept(o) /\ attempts[o] \in {"none", "running", "cancelled"}
    BY <1>1 DEF WriteInv, TransportInv, WritesTyped
  <2> QED
    BY <2>1 DEF AttemptKept, Bystander, CancelledFrom, Attempting
<1>5. SendsCounted(o)'
  BY <1>1 DEF WriteInv, SendsCounted, Bystander
<1> QED
  BY <1>3, <1>4, <1>5 DEF WriteInv

\* A step of one write.
LEMMA WriteMoves ==
  ASSUME TransportInv, NEW o \in T!Ops, NEW x \in WriteOp, ops' = [ops EXCEPT ![o] = x],
         Table', generation <= generation', Newer, pending = <<>> /\ transport.closed => pending' = <<>>,
         transport' = transport, sends' \in [T!Ops -> Nat], wired' \subseteq Writers,
         attempts' \in [T!Ops -> {"none", "running", "cancelled"}], ReaderTurn', WriteInv(o)',
         \A p \in T!Ops : p # o =>
             sends'[p] = sends[p] /\ (attempts'[p] = attempts[p] \/ CancelledFrom(p))
  PROVE  TransportInv'
<1>1. WritesTyped'
  BY DEF TransportInv, WritesTyped
<1>2. CloseInTurn'
  BY DEF TransportInv, CloseInTurn
<1>3. ASSUME NEW p \in T!Ops PROVE WriteInv(p)'
  <2>1. CASE p = o
    BY <2>1
  <2>2. CASE p # o
    <3>1. ops'[p] = ops[p]
      BY <2>2 DEF TransportInv, WritesTyped
    <3>2. Bystander(p)
      BY <2>2, <3>1 DEF Bystander
    <3> QED
      BY <3>2, Undisturbed
  <2> QED
    BY <2>1, <2>2
<1> QED
  BY <1>1, <1>2, <1>3 DEF TransportInv

\* A step of the reader or of close(), which moves no write.
LEMMA WritesStay ==
  ASSUME TransportInv, ops' = ops, sends' = sends, Table', generation <= generation', Newer,
         transport' \in [http : BOOLEAN, closed : BOOLEAN, swept : BOOLEAN, innerClosed : BOOLEAN],
         wired' \subseteq Writers, attempts' \in [T!Ops -> {"none", "running", "cancelled"}],
         ReaderTurn', CloseInTurn',
         \A o \in T!Ops : \/ attempts'[o] = attempts[o] /\ transport'.swept = transport.swept
                          \/ CancelledFrom(o)
                          \/ WriteInv(o)'
  PROVE  TransportInv'
<1>1. WritesTyped'
  BY DEF TransportInv, WritesTyped
<1>2. ASSUME NEW o \in T!Ops PROVE WriteInv(o)'
  <2>1. CASE Bystander(o)
    BY <2>1, Undisturbed
  <2> QED
    BY <2>1 DEF Bystander
<1> QED
  BY <1>1, <1>2 DEF TransportInv

\* A step of a write that leaves the table, the reader and close() alone.
LEMMA TableStays ==
  ASSUME TransportInv, UNCHANGED <<pending, bytes, generation>>
  PROVE  Table' /\ generation <= generation' /\ Newer /\ (pending = <<>> => pending' = <<>>)
  BY DEF TransportInv, Table, TableOf, Distinct, Newer

LEMMA TurnStays ==
  ASSUME TransportInv, NEW o \in T!Ops, NEW x \in WriteOp, ops' = [ops EXCEPT ![o] = x],
         reader' = reader, o # Reader \/ ops[o].pc # "idle"
  PROVE  ReaderTurn'
<1>1. Reader \in T!Ops /\ ops \in [T!Ops -> WriteOp]
  BY DEF T!Ops, TransportInv, WritesTyped
<1>2. o # Reader => ops'[Reader] = ops[Reader]
  BY <1>1
<1> QED
  BY <1>2 DEF TransportInv, ReaderTurn

\* Failing: the entry of the write is erased and no other.
LEMMA Fails ==
  ASSUME TransportInv, NEW o \in T!Ops, T!Fail(o), ops[o].pc # "idle",
         UNCHANGED <<transport, generation, reader, wired, sends>>,
         attempts' \in [T!Ops -> {"none", "running", "cancelled"}],
         \A p \in T!Ops : p # o => attempts'[p] = attempts[p]
  PROVE  TransportInv'
<1> DEFINE x == [ops[o] EXCEPT !.pc = "done", !.result = "failed"]
<1>1. ops \in [T!Ops -> WriteOp] /\ ops[o] \in WriteOp /\ WriteInv(o) /\ Table
  BY DEF TransportInv, WritesTyped
<1>2. x \in WriteOp
  BY <1>1 DEF WriteOp
<1>3. /\ x.pc = "done" /\ x.result = "failed" /\ x.key = ops[o].key /\ x.gen = ops[o].gen
  BY <1>1 DEF WriteOp
<1>4. ops' = [ops EXCEPT ![o] = x]
  BY <1>1 DEF T!Fail
<1> HIDE DEF x
<1>5. /\ Table' /\ PartOf(pending', pending)
      /\ \A i \in 1..Len(pending') : ~T!Mine(o, pending'[i])
  BY <1>1, Erased DEF T!Fail
<1>6. generation <= generation' /\ Newer /\ (pending = <<>> => pending' = <<>>)
  <2>1. generation \in Nat /\ pending' \in Seq(T!Entry)
    BY <1>1, <1>5 DEF Table, TableOf
  <2>2. Newer
    BY <1>5 DEF PartOf, Newer
  <2>3. pending = <<>> => Len(pending') = 0
    BY <1>5, <2>1 DEF PartOf
  <2> QED
    BY <2>1, <2>2, <2>3
<1>7. ops'[o] = x
  BY <1>1, <1>4
<1>8. WriteInv(o)'
  <2>1. EntrySettled(o)'
    BY <1>1, <1>3, <1>5, <1>7 DEF WriteInv, EntrySettled, T!EntryOf, T!Mine
  <2>2. AttemptKept(o)' /\ SendsCounted(o)'
    BY <1>1, <1>3, <1>7 DEF WriteInv, AttemptKept, SendsCounted, Attempting, Awaiting, Answering
  <2> QED
    BY <2>1, <2>2 DEF WriteInv
<1>9. ReaderTurn'
  BY <1>2, <1>4, TurnStays
<1>10. sends' \in [T!Ops -> Nat] /\ wired' \subseteq Writers
  BY DEF TransportInv, WritesTyped
<1> QED
  BY <1>2, <1>4, <1>5, <1>6, <1>8, <1>9, <1>10, WriteMoves

\* A write that moves on and keeps its entry.
GoesTo(o, x) ==
    /\ ops' = [ops EXCEPT ![o] = x] /\ ops[o].pc \notin {"idle", "done"} /\ x.pc # "idle"
    /\ x.key = ops[o].key /\ x.gen = ops[o].gen
    /\ x.result = "none" \/ (x.result = "ok" /\ x.pc = "done")
    /\ UNCHANGED <<transport, pending, bytes, generation, reader>>
    /\ sends' \in [T!Ops -> Nat] /\ wired' \subseteq Writers
    /\ attempts' \in [T!Ops -> {"none", "running", "cancelled"}]
    /\ \A p \in T!Ops : p # o =>
          sends'[p] = sends[p] /\ (attempts'[p] = attempts[p] \/ CancelledFrom(p))
\* A write goes on or fails.
Settles(o) == T!Fail(o) \/ \E x \in WriteOp : GoesTo(o, x)
LEMMA GoesOn ==
  ASSUME TransportInv, NEW o \in T!Ops, NEW x \in WriteOp, GoesTo(o, x),
         AttemptKept(o)', SendsCounted(o)'
  PROVE  TransportInv'
<1> USE DEF GoesTo
<1>1. ops'[o] = x /\ WriteInv(o)
  BY DEF TransportInv, WritesTyped
<1>2. Table' /\ generation <= generation' /\ Newer /\ (pending = <<>> => pending' = <<>>)
  BY TableStays
<1>3. WriteInv(o)'
  BY <1>1 DEF WriteInv, EntrySettled
<1>4. ReaderTurn'
  BY TurnStays
<1> QED
  BY <1>2, <1>3, <1>4, WriteMoves

\* What is known of a write that has begun and not ended.
LEMMA UnderWay ==
  ASSUME TransportInv, NEW o \in T!Ops, ops[o].pc \notin {"idle", "done"}
  PROVE  /\ ops \in [T!Ops -> WriteOp] /\ ops[o] \in WriteOp /\ ops[o].result = "none"
         /\ ops[o].key \in Writers /\ ops[o].attempts \in 0..3
         /\ wired \subseteq Writers /\ sends \in [T!Ops -> Nat] /\ sends[o] \in Nat
         /\ attempts \in [T!Ops -> {"none", "running", "cancelled"}]
         /\ AttemptKept(o) /\ SendsCounted(o)
<1>1. ops \in [T!Ops -> WriteOp] /\ ops[o] \in WriteOp /\ WriteInv(o)
  BY DEF TransportInv, WritesTyped
<1>2. ops[o].result = "none" /\ ops[o].key \in Writers
  BY <1>1 DEF WriteInv, EntrySettled
<1>3. ops[o].attempts \in 0..3
  BY <1>1 DEF WriteOp, T!MaxChallenges
<1> QED
  BY <1>1, <1>2, <1>3 DEF WriteInv, TransportInv, WritesTyped

LEMMA AcceptedStep ==
  ASSUME TransportInv, NEW o \in T!Ops, T!Accepted(o) PROVE TransportInv' /\ Settles(o)
<1> DEFINE x == [ops[o] EXCEPT !.pc = "done", !.result = "ok"]
<1>1. ops[o].pc = "send"
  BY DEF T!Accepted
<1>2. x \in WriteOp /\ x.pc = "done" /\ x.result = "ok" /\ x.key = ops[o].key /\ x.gen = ops[o].gen
  BY <1>1, UnderWay DEF WriteOp
<1>3. ops' = [ops EXCEPT ![o] = x]
  BY <1>1, UnderWay DEF T!Accepted
<1> HIDE DEF x
<1>4. ops'[o] = x
  BY <1>1, <1>3, UnderWay
<1>5. AttemptKept(o)' /\ SendsCounted(o)'
  BY <1>1, <1>2, <1>4, UnderWay DEF T!Accepted, AttemptKept, SendsCounted, Attempting, Awaiting, Answering
<1>20. GoesTo(o, x)
  BY <1>1, <1>2, <1>3, <1>5, UnderWay DEF T!Accepted, GoesTo
<1>21. TransportInv'
  BY <1>2, <1>5, <1>20, GoesOn
<1> QED
  BY <1>2, <1>5, <1>20, <1>21 DEF Settles

LEMMA RefusedStep ==
  ASSUME TransportInv, NEW o \in T!Ops, T!Refused(o) PROVE TransportInv' /\ Settles(o)
<1>1. ops[o].pc = "send" /\ UNCHANGED <<transport, generation, attempts, reader, wired, sends>>
  BY DEF T!Refused
<1>2. CASE T!Fail(o)
  BY <1>1, <1>2, UnderWay, Fails DEF Settles
<1>3. CASE ~T!Fail(o)
  <2>1. PICK r \in T!Refusals :
           /\ T!Honoured(o, r)
           /\ LET op == [ops[o] EXCEPT !.attempts = @ + 1,
                             !.refreshAllowed = r.status = "unauthorized", !.challenge = r.challenge]
              IN  \/ ops' = [ops EXCEPT ![o] = [op EXCEPT !.pc = "refresh", !.refreshed = TRUE]]
                  \/ ops' = [ops EXCEPT ![o] = [op EXCEPT !.pc = "challenge"]]
           /\ UNCHANGED <<pending, bytes>>
    BY <1>3 DEF T!Refused
  <2> DEFINE op == [ops[o] EXCEPT !.attempts = @ + 1,
                        !.refreshAllowed = r.status = "unauthorized", !.challenge = r.challenge]
  <2>2. op \in WriteOp /\ op.attempts = ops[o].attempts + 1 /\ op.key = ops[o].key
        /\ op.gen = ops[o].gen /\ op.result = "none"
    <3>1. ops[o].attempts + 1 \in 0..T!MaxChallenges
      BY <1>1, <2>1, UnderWay DEF T!Honoured, T!MaxChallenges
    <3>2. r.challenge \in BOOLEAN
      BY <2>1 DEF T!Refusals
    <3> DEFINE n == ops[o].attempts + 1
               bearer == r.status = "unauthorized"
               c == r.challenge
    <3>3. ops[o] \in WriteOp /\ ops[o].result = "none"
      BY <1>1, UnderWay
    <3>4. n \in 0..T!MaxChallenges /\ bearer \in BOOLEAN /\ c \in BOOLEAN
      BY <3>1, <3>2
    <3>5. op = [ops[o] EXCEPT !.attempts = n, !.refreshAllowed = bearer, !.challenge = c]
      OBVIOUS
    <3> HIDE DEF n, bearer, c, op
    <3>6. /\ op \in WriteOp /\ op.attempts = n /\ op.key = ops[o].key /\ op.gen = ops[o].gen
          /\ op.result = "none"
      BY <3>3, <3>4, <3>5 DEF WriteOp
    <3> QED
      BY <3>6 DEF n
  <2>3. \/ ops' = [ops EXCEPT ![o] = [op EXCEPT !.pc = "refresh", !.refreshed = TRUE]]
        \/ ops' = [ops EXCEPT ![o] = [op EXCEPT !.pc = "challenge"]]
    BY <2>1
  <2> HIDE DEF op
  <2>4. PICK x \in WriteOp :
           /\ ops' = [ops EXCEPT ![o] = x] /\ x.pc \in {"refresh", "challenge"}
           /\ x.attempts = op.attempts /\ x.key = op.key /\ x.gen = op.gen /\ x.result = op.result
    <3> DEFINE a == [op EXCEPT !.pc = "refresh", !.refreshed = TRUE]
               b == [op EXCEPT !.pc = "challenge"]
    <3>1. /\ a \in WriteOp /\ a.pc = "refresh"
          /\ a.attempts = op.attempts /\ a.key = op.key /\ a.gen = op.gen /\ a.result = op.result
      BY <2>2 DEF WriteOp, Answering
    <3>2. /\ b \in WriteOp /\ b.pc = "challenge"
          /\ b.attempts = op.attempts /\ b.key = op.key /\ b.gen = op.gen /\ b.result = op.result
      BY <2>2 DEF WriteOp, Answering
    <3>3. ops' = [ops EXCEPT ![o] = a] \/ ops' = [ops EXCEPT ![o] = b]
      BY <2>3
    <3> HIDE DEF a, b
    <3> QED
      BY <3>1, <3>2, <3>3
  <2>5. ops'[o] = x
    BY <1>1, <2>4, UnderWay
  <2>6. AttemptKept(o)'
    BY <2>4, <2>5 DEF AttemptKept, Attempting, Awaiting
  <2>7. SendsCounted(o)'
    BY <1>1, <2>2, <2>4, <2>5, UnderWay DEF SendsCounted
  <2>8. /\ x.pc # "idle" /\ x.key = ops[o].key /\ x.gen = ops[o].gen /\ x.result = "none"
        /\ ops[o].pc \notin {"idle", "done"}
    BY <1>1, <2>2, <2>4
  <2>9. /\ sends' \in [T!Ops -> Nat] /\ wired' \subseteq Writers /\ sends' = sends
        /\ attempts' \in [T!Ops -> {"none", "running", "cancelled"}] /\ attempts' = attempts
    BY <1>1, UnderWay
  <2>20. GoesTo(o, x)
    BY <1>1, <2>1, <2>4, <2>6, <2>7, <2>8, <2>9 DEF GoesTo
  <2>21. TransportInv'
    BY <2>4, <2>6, <2>7, <2>20, GoesOn
  <2> QED
    BY <2>4, <2>6, <2>7, <2>20, <2>21 DEF Settles
<1> QED
  BY <1>2, <1>3

LEMMA CheckOpenStep ==
  ASSUME TransportInv, NEW o \in T!Ops, T!TryRefresh(o) \/ T!TryChallenge(o) PROVE TransportInv' /\ Settles(o)
<1>1. PICK before, after :
         /\ T!CheckOpen(o, before, after)
         /\ before \in {"refresh", "challenge"} /\ after \in {"callRefresh", "callChallenge"}
  BY DEF T!TryRefresh, T!TryChallenge
<1>2. /\ ops[o].pc = before /\ ops[o].pc \in {"refresh", "challenge"}
      /\ UNCHANGED <<transport, generation, attempts, reader, wired, sends>>
  BY <1>1 DEF T!CheckOpen
<1>3. CASE transport.closed
  BY <1>1, <1>2, <1>3, UnderWay, Fails DEF Settles, T!CheckOpen
<1>4. CASE ~transport.closed
  <2> DEFINE first == ops[o].authorized401 \/ (before = "challenge" /\ ops[o].refreshAllowed)
             x == [ops[o] EXCEPT !.pc = after, !.authorized401 = first]
  <2>1. /\ ops' = [ops EXCEPT ![o] = x] /\ UNCHANGED <<pending, bytes>>
    BY <1>1, <1>2, <1>4, UnderWay DEF T!CheckOpen
  <2>3. /\ x \in WriteOp /\ x.pc = after /\ x.key = ops[o].key /\ x.gen = ops[o].gen
        /\ x.attempts = ops[o].attempts /\ x.result = "none"
    <3>1. first \in BOOLEAN
      BY <1>2, UnderWay DEF WriteOp
    <3> HIDE DEF first
    <3>2. ops[o] \in WriteOp /\ ops[o].result = "none"
      BY <1>2, UnderWay
    <3>3. after \in Answering
      BY <1>1 DEF Answering
    <3> QED
      BY <3>1, <3>2, <3>3 DEF WriteOp
  <2> HIDE DEF x
  <2>4. ops'[o] = x
    BY <1>2, <2>1, UnderWay
  <2>5. AttemptKept(o)' /\ SendsCounted(o)'
    BY <1>1, <1>2, <2>3, <2>4, UnderWay DEF AttemptKept, SendsCounted, Attempting, Awaiting, Answering
  <2>6. x.pc # "idle" /\ ops[o].pc \notin {"idle", "done"}
    BY <1>1, <1>2, <2>3
  <2>7. /\ sends' \in [T!Ops -> Nat] /\ wired' \subseteq Writers /\ sends' = sends
        /\ attempts' \in [T!Ops -> {"none", "running", "cancelled"}] /\ attempts' = attempts
    BY <1>2, UnderWay
  <2>20. GoesTo(o, x)
    BY <1>2, <2>1, <2>3, <2>6, <2>7 DEF GoesTo
  <2>21. TransportInv'
    BY <2>3, <2>5, <2>20, GoesOn
  <2> QED
    BY <2>3, <2>5, <2>20, <2>21 DEF Settles
<1> QED
  BY <1>3, <1>4

LEMMA RegisterStep ==
  ASSUME TransportInv, NEW o \in T!Ops, T!Register(o) PROVE TransportInv' /\ Settles(o)
<1> DEFINE next == IF ops[o].pc = "callRefresh" THEN "refreshing" ELSE "challenging"
           x == [ops[o] EXCEPT !.pc = next]
<1>1. /\ ops[o].pc \in {"callRefresh", "callChallenge"} /\ attempts' = [attempts EXCEPT ![o] = "running"]
      /\ UNCHANGED <<transport, pending, bytes, generation, reader, wired, sends>>
  BY DEF T!Register
<1>2. ops' = [ops EXCEPT ![o] = x]
  BY <1>1, UnderWay DEF T!Register
<1>3. /\ x \in WriteOp /\ x.pc \in {"refreshing", "challenging"} /\ x.key = ops[o].key
      /\ x.gen = ops[o].gen /\ x.attempts = ops[o].attempts /\ x.result = "none"
  BY <1>1, UnderWay DEF WriteOp, Answering, Attempting
<1> HIDE DEF x
<1>4. ops'[o] = x /\ attempts'[o] = "running" /\ \A p \in T!Ops : p # o => attempts'[p] = attempts[p]
  BY <1>1, <1>2, UnderWay
<1>5. AttemptKept(o)' /\ SendsCounted(o)'
  BY <1>1, <1>3, <1>4, UnderWay DEF AttemptKept, SendsCounted, Attempting, Awaiting, Answering
<1>6. x.pc # "idle" /\ ops[o].pc \notin {"idle", "done"}
  BY <1>1, <1>3
<1>7. /\ sends' \in [T!Ops -> Nat] /\ wired' \subseteq Writers /\ sends' = sends
      /\ attempts' \in [T!Ops -> {"none", "running", "cancelled"}]
  BY <1>1, UnderWay
<1>20. GoesTo(o, x)
  BY <1>1, <1>2, <1>3, <1>4, <1>5, <1>6, <1>7 DEF GoesTo
<1>21. TransportInv'
  BY <1>3, <1>5, <1>20, GoesOn
<1> QED
  BY <1>3, <1>5, <1>20, <1>21 DEF Settles

\* cancel_pending() cancels what runs and types as before.
LEMMA Cancelled ==
  ASSUME TransportInv, T!CancelAttempts
  PROVE  /\ attempts' \in [T!Ops -> {"none", "running", "cancelled"}]
         /\ \A o \in T!Ops : CancelledFrom(o)
  BY DEF TransportInv, WritesTyped, T!CancelAttempts, CancelledFrom

\* A write that finds the transport closed cancels its attempt, and one that
\* does not is in time for the sweep of close().
LEMMA RecheckStep ==
  ASSUME TransportInv, NEW o \in T!Ops, T!Recheck(o) PROVE TransportInv' /\ Settles(o)
<1> DEFINE next == IF ops[o].pc = "refreshing" THEN "awaitRefresh" ELSE "awaitChallenge"
           x == [ops[o] EXCEPT !.cutOff = transport.closed, !.pc = next]
<1>1. /\ ops[o].pc \in {"refreshing", "challenging"}
      /\ IF transport.closed THEN T!CancelAttempts ELSE UNCHANGED attempts
      /\ UNCHANGED <<transport, pending, bytes, generation, reader, wired, sends>>
  BY DEF T!Recheck, T!ClosedMeanwhile
<1>2. ops' = [ops EXCEPT ![o] = x]
  BY <1>1, UnderWay DEF T!Recheck, T!ClosedMeanwhile
<1>3. /\ x \in WriteOp /\ x.pc \in {"awaitRefresh", "awaitChallenge"} /\ x.key = ops[o].key
      /\ x.gen = ops[o].gen /\ x.attempts = ops[o].attempts /\ x.result = "none"
  <2>1. transport.closed \in BOOLEAN
    BY DEF TransportInv, WritesTyped
  <2>2. next \in {"awaitRefresh", "awaitChallenge"} /\ {"awaitRefresh", "awaitChallenge"} \subseteq Answering
    BY DEF Answering, Attempting, Awaiting
  <2>3. ops[o] \in WriteOp /\ ops[o].result = "none"
    BY <1>1, UnderWay
  <2> HIDE DEF next
  <2> QED
    BY <2>1, <2>2, <2>3 DEF WriteOp
<1> HIDE DEF x
<1>4. ops'[o] = x
  BY <1>1, <1>2, UnderWay
<1>5. /\ attempts' \in [T!Ops -> {"none", "running", "cancelled"}]
      /\ \A p \in T!Ops : attempts'[p] = attempts[p] \/ CancelledFrom(p)
      /\ transport.closed => CancelledFrom(o)
  BY <1>1, Cancelled, UnderWay
<1>6. AttemptKept(o)'
  <2>1. attempts[o] \in {"running", "cancelled"} /\ attempts'[o] \in {"running", "cancelled"}
    BY <1>1, <1>5, UnderWay DEF AttemptKept, Attempting, CancelledFrom
  <2>2. transport'.swept => transport.closed
    BY <1>1 DEF TransportInv, CloseInTurn
  <2> QED
    BY <1>5, <2>1, <2>2 DEF AttemptKept, CancelledFrom
<1>7. SendsCounted(o)'
  BY <1>1, <1>3, <1>4, UnderWay DEF SendsCounted, Attempting, Awaiting, Answering
<1>8. x.pc # "idle" /\ ops[o].pc \notin {"idle", "done"}
  BY <1>1, <1>3
<1>9. sends' \in [T!Ops -> Nat] /\ wired' \subseteq Writers /\ sends' = sends
  BY <1>1, UnderWay
<1>20. GoesTo(o, x)
  BY <1>1, <1>2, <1>3, <1>5, <1>6, <1>7, <1>8, <1>9 DEF GoesTo
<1>21. TransportInv'
  BY <1>3, <1>6, <1>7, <1>20, GoesOn
<1> QED
  BY <1>3, <1>6, <1>7, <1>20, <1>21 DEF Settles

\* A successful attempt is one more write, anything else moves on or fails.
LEMMA AttemptEndsStep ==
  ASSUME TransportInv, NEW o \in T!Ops, T!AttemptEnds(o) PROVE TransportInv' /\ Settles(o)
<1>1. /\ ops[o].pc \in {"awaitRefresh", "awaitChallenge"} /\ attempts' = [attempts EXCEPT ![o] = "none"]
      /\ UNCHANGED <<transport, generation, reader>>
  BY DEF T!AttemptEnds
<1>2. /\ attempts' \in [T!Ops -> {"none", "running", "cancelled"}]
      /\ \A p \in T!Ops : p # o => attempts'[p] = attempts[p]
  BY <1>1, UnderWay
<1>3. CASE T!Fail(o) /\ UNCHANGED <<wired, sends>>
  BY <1>1, <1>2, <1>3, Fails DEF Settles
<1>4. ASSUME NEW next \in {"send", "challenge"}, UNCHANGED <<pending, bytes>>,
             ops' = [ops EXCEPT ![o].pc = next],
             sends' = IF next = "send" THEN [sends EXCEPT ![o] = @ + 1] ELSE sends,
             wired' \subseteq Writers
      PROVE  TransportInv' /\ Settles(o)
  <2> DEFINE x == [ops[o] EXCEPT !.pc = next]
  <2>1. ops' = [ops EXCEPT ![o] = x]
    BY <1>1, <1>4, UnderWay
  <2>2. /\ x \in WriteOp /\ x.pc = next /\ x.key = ops[o].key /\ x.gen = ops[o].gen
        /\ x.attempts = ops[o].attempts /\ x.result = "none"
    BY <1>1, UnderWay DEF WriteOp, Answering
  <2> HIDE DEF x
  <2>3. ops'[o] = x
    BY <1>1, <2>1, UnderWay
  <2>4. /\ sends' \in [T!Ops -> Nat] /\ \A p \in T!Ops : p # o => sends'[p] = sends[p]
        /\ sends'[o] = IF next = "send" THEN sends[o] + 1 ELSE sends[o]
    BY <1>1, <1>4, UnderWay
  <2>5. AttemptKept(o)'
    BY <2>2, <2>3 DEF AttemptKept, Attempting, Awaiting
  <2>6. SendsCounted(o)'
    <3>1. sends[o] <= ops[o].attempts
      BY <1>1, UnderWay DEF SendsCounted, Answering, Attempting, Awaiting
    <3>2. ops[o].attempts \in 0..3 /\ sends[o] \in Nat /\ T!MaxChallenges = 3
      BY <1>1, UnderWay DEF T!MaxChallenges
    <3>3. next = "send" => x.pc \notin Answering
      BY <2>2 DEF Answering, Attempting, Awaiting
    <3> QED
      BY <2>2, <2>3, <2>4, <3>1, <3>2, <3>3 DEF SendsCounted
  <2>7. x.pc # "idle" /\ ops[o].pc \notin {"idle", "done"}
    BY <1>1, <2>2
  <2>20. GoesTo(o, x)
    BY <1>1, <1>2, <1>4, <2>1, <2>2, <2>4, <2>5, <2>6, <2>7 DEF GoesTo
  <2>21. TransportInv'
    BY <2>2, <2>5, <2>6, <2>20, GoesOn
  <2> QED
    BY <2>2, <2>5, <2>6, <2>20, <2>21 DEF Settles
<1>5. \/ /\ ops' = [ops EXCEPT ![o].pc = "send"] /\ wired' = wired \cup {ops[o].key}
         /\ sends' = [sends EXCEPT ![o] = @ + 1] /\ UNCHANGED <<pending, bytes>>
      \/ ops' = [ops EXCEPT ![o].pc = "challenge"] /\ UNCHANGED <<pending, bytes, wired, sends>>
      \/ T!Fail(o) /\ UNCHANGED <<wired, sends>>
  BY DEF T!AttemptEnds
<1>6. wired \cup {ops[o].key} \subseteq Writers /\ wired \subseteq Writers
  BY <1>1, UnderWay
<1> QED
  BY <1>3, <1>4, <1>5, <1>6

\* A write begins: its entry is newer than all there were.
LEMMA Begins ==
  ASSUME TransportInv, NEW o \in T!Ops, NEW key \in Writers, NEW size \in Sizes, T!Begin(o, key, size),
         transport' = transport, ReaderTurn',
         attempts' \in [T!Ops -> {"none", "running", "cancelled"}],
         \A p \in T!Ops : p # o => attempts'[p] = attempts[p]
  PROVE  TransportInv'
<1> DEFINE gen == IF T!Retainable(size) THEN generation + 1 ELSE 0
           x == [T!Idle EXCEPT !.pc = "send", !.key = key, !.size = size, !.gen = gen]
<1>1. Table /\ generation \in Nat /\ ops \in [T!Ops -> WriteOp] /\ sends \in [T!Ops -> Nat]
  BY DEF TransportInv, Table, TableOf, WritesTyped
<1>2. /\ Table' /\ generation <= generation' /\ (transport.closed /\ pending = <<>> => pending' = <<>>)
      /\ T!Retainable(size) => generation' = generation + 1
      /\ \A i \in 1..Len(pending') :
            pending'[i].gen = generation + 1 \/ \E j \in 1..Len(pending) : pending'[i] = pending[j]
  BY <1>1, Remembered DEF T!Begin
<1>3. Newer
  BY <1>1, <1>2 DEF Newer
<1>4. ops' = [ops EXCEPT ![o] = x]
  BY DEF T!Begin
<1>5. gen \in Nat /\ gen <= generation'
  BY <1>1, <1>2 DEF Table, TableOf
<1> HIDE DEF gen
<1>6. /\ x \in WriteOp /\ x.pc = "send" /\ x.key = key /\ x.gen = gen /\ x.result = "none"
      /\ x.attempts = 0
  BY <1>5, IdleOp DEF WriteOp, T!Idle
<1> HIDE DEF x
<1>7. ops'[o] = x
  BY <1>1, <1>4
<1>8. /\ sends' \in [T!Ops -> Nat] /\ sends'[o] = 1 /\ \A p \in T!Ops : p # o => sends'[p] = sends[p]
  BY <1>1 DEF T!Begin
<1>9. wired' \subseteq Writers
  BY DEF T!Begin, TransportInv, WritesTyped
<1>10. WriteInv(o)'
  <2>1. EntrySettled(o)'
    BY <1>5, <1>6, <1>7 DEF EntrySettled
  <2>2. AttemptKept(o)'
    BY <1>6, <1>7 DEF AttemptKept, Attempting, Awaiting
  <2>3. SendsCounted(o)'
    BY <1>6, <1>7, <1>8 DEF SendsCounted, T!MaxChallenges, Answering, Attempting, Awaiting
  <2> QED
    BY <2>1, <2>2, <2>3 DEF WriteInv
<1> QED
  BY <1>2, <1>3, <1>4, <1>6, <1>8, <1>9, <1>10, WriteMoves

LEMMA StartWriteStep ==
  ASSUME TransportInv, NEW w \in Writers, T!StartWrite(w) PROVE TransportInv'
<1>1. PICK size \in Sizes : T!Begin(w, w, size)
  BY DEF T!StartWrite
<1>2. w \in T!Ops /\ Reader \in T!Ops /\ w # Reader /\ UNCHANGED <<transport, attempts, reader>>
  BY TransportAssumption DEF T!Ops, T!StartWrite
<1>3. ops \in [T!Ops -> WriteOp] /\ attempts \in [T!Ops -> {"none", "running", "cancelled"}]
  BY DEF TransportInv, WritesTyped
<1>4. ops'[Reader] = ops[Reader]
  BY <1>1, <1>2, <1>3 DEF T!Begin
<1>5. ReaderTurn'
  BY <1>2, <1>4 DEF TransportInv, ReaderTurn
<1> QED
  BY <1>1, <1>2, <1>3, <1>5, Begins

LEMMA ReaderRefreshedStep ==
  ASSUME TransportInv, T!ReaderRefreshed PROVE TransportInv'
<1>1. /\ reader.pc = "refreshing" /\ reader.key \in Writers /\ reader.size \in Sizes
      /\ ops[Reader].pc = "idle" /\ attempts' = [attempts EXCEPT ![Reader] = "none"]
      /\ transport' = transport /\ Reader \in T!Ops
  BY DEF T!ReaderRefreshed, TransportInv, ReaderTurn, T!Ops
<1>2. /\ ops \in [T!Ops -> WriteOp] /\ attempts \in [T!Ops -> {"none", "running", "cancelled"}]
      /\ wired \subseteq Writers /\ sends \in [T!Ops -> Nat]
      /\ transport \in [http : BOOLEAN, closed : BOOLEAN, swept : BOOLEAN, innerClosed : BOOLEAN]
  BY DEF TransportInv, WritesTyped
<1>3. /\ attempts' \in [T!Ops -> {"none", "running", "cancelled"}]
      /\ \A p \in T!Ops : p # Reader => attempts'[p] = attempts[p]
  BY <1>1, <1>2
<1>4. /\ reader \in [pc : {"read", "refreshing", "replay", "reread", "failed"},
                     key : Writers \cup {NoKey}, size : Sizes \cup {0}]
  BY DEF TransportInv, ReaderTurn
<1>5. CASE reader' = [reader EXCEPT !.pc = "replay"] /\ T!Begin(Reader, reader.key, reader.size)
  <2>1. ReaderTurn'
    BY <1>4, <1>5 DEF ReaderTurn
  <2> QED
    BY <1>1, <1>3, <1>5, <2>1, Begins
<1>6. ASSUME NEW pc \in {"read", "failed"}, reader' = [reader EXCEPT !.pc = pc],
             UNCHANGED <<pending, bytes, generation, ops, wired, sends>>
      PROVE  TransportInv'
  <2>1. ReaderTurn'
    BY <1>1, <1>4, <1>6 DEF ReaderTurn
  <2>2. Table' /\ generation <= generation' /\ Newer
    BY <1>6, TableStays
  <2>3. CloseInTurn'
    BY <1>1, <1>6 DEF TransportInv, CloseInTurn
  <2>4. WriteInv(Reader)'
    <3>1. WriteInv(Reader)
      BY <1>1 DEF TransportInv
    <3>2. EntrySettled(Reader)'
      BY <1>6, <3>1 DEF WriteInv, EntrySettled, T!EntryOf
    <3>3. AttemptKept(Reader)' /\ SendsCounted(Reader)'
      BY <1>1, <1>6, <3>1 DEF WriteInv, AttemptKept, SendsCounted, Attempting, Awaiting
    <3> QED
      BY <3>2, <3>3 DEF WriteInv
  <2>5. transport' \in [http : BOOLEAN, closed : BOOLEAN, swept : BOOLEAN, innerClosed : BOOLEAN]
        /\ transport'.swept = transport.swept /\ ops' = ops /\ sends' = sends /\ wired' \subseteq Writers
    BY <1>1, <1>2, <1>6
  <2>6. \A o \in T!Ops : \/ attempts'[o] = attempts[o] /\ transport'.swept = transport.swept
                         \/ CancelledFrom(o)
                         \/ WriteInv(o)'
    BY <1>3, <2>4, <2>5
  <2> QED
    BY <1>3, <2>1, <2>2, <2>3, <2>5, <2>6, WritesStay
<1> QED
  BY <1>5, <1>6 DEF T!ReaderRefreshed

\* An entry that is one of those there were is not newer than they.
LEMMA PartNewer ==
  ASSUME TransportInv, Table', PartOf(pending', pending)
  PROVE  Newer /\ (pending = <<>> => pending' = <<>>)
<1>1. pending' \in Seq(T!Entry)
  BY DEF Table, TableOf
<1>2. pending = <<>> => Len(pending') = 0
  BY <1>1 DEF PartOf
<1> QED
  BY <1>1, <1>2 DEF PartOf, Newer

\* What the reader is, and what the invariant says of all there is.
ReaderShape == [pc : {"read", "refreshing", "replay", "reread", "failed"},
                key : Writers \cup {NoKey}, size : Sizes \cup {0}]
LEMMA Known ==
  ASSUME TransportInv
  PROVE  /\ ops \in [T!Ops -> WriteOp] /\ attempts \in [T!Ops -> {"none", "running", "cancelled"}]
         /\ wired \subseteq Writers /\ sends \in [T!Ops -> Nat] /\ Reader \in T!Ops
         /\ transport \in [http : BOOLEAN, closed : BOOLEAN, swept : BOOLEAN, innerClosed : BOOLEAN]
         /\ reader \in ReaderShape /\ Table /\ generation \in Nat
  BY DEF TransportInv, WritesTyped, ReaderTurn, ReaderShape, T!Ops, Table, TableOf

LEMMA ReadStep ==
  ASSUME TransportInv, T!Read PROVE TransportInv'
<1>1. /\ reader.pc = "read" /\ UNCHANGED <<transport, generation, ops, sends>>
  BY DEF T!Read
<1> DEFINE live == T!Fresh(pending)
<1>2. PICK k \in wired, unauthorized \in BOOLEAN :
        /\ T!Take(k) /\ wired' = wired \ {k}
        /\ \/ UNCHANGED <<reader, attempts>>
           \/ /\ \E e \in {live[i] : i \in DOMAIN live} :
                    reader' = [pc |-> "refreshing", key |-> k, size |-> e.size]
              /\ attempts' = [attempts EXCEPT ![Reader] = "running"]
  BY DEF T!Read
<1>3. \A e \in {live[i] : i \in DOMAIN live} : e.size \in Sizes
  <2>1. live \in Seq(T!Entry)
    BY Known, TableKept DEF T!Fresh, Table, TableOf
  <2> HIDE DEF live
  <2>2. \A i \in DOMAIN live : live[i] \in T!Entry
    BY <2>1
  <2>3. \A e \in T!Entry : e.size \in Sizes
    BY DEF T!Entry
  <2> QED
    BY <2>2, <2>3
<1> HIDE DEF live
<1>4. Table' /\ PartOf(pending', pending)
  BY <1>1, <1>2, Known, Taken
<1>5. Newer /\ (pending = <<>> => pending' = <<>>) /\ generation <= generation'
  BY <1>1, <1>4, Known, PartNewer
<1>6. CloseInTurn'
  BY <1>1, <1>5 DEF TransportInv, CloseInTurn
<1>7. ops[Reader].pc = "idle" /\ WriteInv(Reader)
  BY <1>1, Known DEF TransportInv, ReaderTurn
<1>8. ReaderTurn' /\ attempts' \in [T!Ops -> {"none", "running", "cancelled"}]
  <2>1. CASE UNCHANGED <<reader, attempts>>
    BY <1>1, <2>1, Known DEF TransportInv, ReaderTurn
  <2>2. CASE /\ \E e \in {live[i] : i \in DOMAIN live} :
                   reader' = [pc |-> "refreshing", key |-> k, size |-> e.size]
             /\ attempts' = [attempts EXCEPT ![Reader] = "running"]
    <3>1. PICK n \in Sizes : reader' = [pc |-> "refreshing", key |-> k, size |-> n]
      BY <1>3, <2>2
    <3>2. k \in Writers
      BY <1>2, Known
    <3>3. ReaderTurn'
      BY <1>1, <1>7, <3>1, <3>2 DEF ReaderTurn
    <3> QED
      BY <2>2, <3>3, Known
  <2> QED
    BY <1>2, <2>1, <2>2
<1>9. \A o \in T!Ops : \/ attempts'[o] = attempts[o] /\ transport'.swept = transport.swept
                       \/ CancelledFrom(o)
                       \/ WriteInv(o)'
  <2>1. ASSUME attempts' # attempts PROVE WriteInv(Reader)'
    <3>1. EntrySettled(Reader)'
      <4>1. ops[Reader].result = "none"
        BY <1>7, Known DEF WriteInv, EntrySettled, WriteOp
      <4> QED
        BY <1>1, <1>7, <4>1 DEF WriteInv, EntrySettled
    <3>2. AttemptKept(Reader)' /\ SendsCounted(Reader)'
      BY <1>1, <1>7 DEF WriteInv, AttemptKept, SendsCounted, Attempting, Awaiting
    <3> QED
      BY <3>1, <3>2 DEF WriteInv
  <2>2. \A o \in T!Ops : o # Reader => attempts'[o] = attempts[o]
    BY <1>2, Known
  <2>3. transport'.swept = transport.swept
    BY <1>1
  <2> QED
    BY <2>1, <2>2, <2>3
<1>10. wired' \subseteq Writers /\ transport' \in [http : BOOLEAN, closed : BOOLEAN, swept : BOOLEAN, innerClosed : BOOLEAN]
  BY <1>1, <1>2, Known
<1> QED
  BY <1>1, <1>4, <1>5, <1>6, <1>8, <1>9, <1>10, WritesStay

LEMMA RereadStep ==
  ASSUME TransportInv, T!Reread PROVE TransportInv'
<1>1. /\ reader.pc = "reread" /\ UNCHANGED <<transport, generation, attempts, sends>>
      /\ reader' = [reader EXCEPT !.pc = "read"] /\ ops' = [ops EXCEPT ![Reader] = T!Idle]
  BY DEF T!Reread
<1>2. PICK k \in wired : T!Take(k) /\ wired' = wired \ {k}
  BY DEF T!Reread
<1>3. Table' /\ PartOf(pending', pending)
  BY <1>1, <1>2, Known, Taken
<1>4. Newer /\ (pending = <<>> => pending' = <<>>) /\ generation <= generation'
  BY <1>1, <1>3, Known, PartNewer
<1>5. ops'[Reader] = T!Idle
  BY <1>1, Known
<1>6. ReaderTurn'
  BY <1>1, <1>5, Known DEF ReaderTurn, ReaderShape, T!Idle
<1>7. WriteInv(Reader)'
  <2>1. generation' \in Nat /\ SendsCounted(Reader)
    BY <1>1, Known DEF TransportInv, WriteInv
  <2> QED
    BY <1>1, <1>5, <2>1 DEF WriteInv, EntrySettled, AttemptKept, SendsCounted, T!Idle, Attempting, Awaiting,
                            Answering
<1>8. wired' \subseteq Writers
  BY <1>2, Known
<1> QED
  BY <1>1, <1>3, <1>4, <1>6, <1>7, <1>8, Known, IdleOp, WriteMoves

\* The reader gives up or reads on, and time passes.
LEMMA QuietSteps ==
  ASSUME TransportInv, T!ReplayWritten \/ T!ReadFails \/ T!TimePasses PROVE TransportInv'
<1>1. UNCHANGED <<transport, generation, ops, attempts, wired, sends>>
  BY DEF T!ReplayWritten, T!ReadFails, T!TimePasses
<1>2. Table' /\ Newer /\ (pending = <<>> => pending' = <<>>)
  <2>1. CASE T!TimePasses
    <3>1. /\ Table' /\ Len(pending') = Len(pending)
          /\ \A i \in 1..Len(pending) : pending'[i].key = pending[i].key /\ pending'[i].gen = pending[i].gen
      BY <2>1, Known, Aged
    <3>2. pending = <<>> => pending' = <<>>
      BY <2>1 DEF T!TimePasses
    <3> QED
      BY <3>1, <3>2 DEF Newer
  <2>2. CASE UNCHANGED <<pending, bytes>>
    BY <1>1, <2>2, TableStays
  <2> QED
    BY <2>1, <2>2 DEF T!ReplayWritten, T!ReadFails
<1>3. ReaderTurn'
  <2>1. ReaderTurn /\ reader \in ReaderShape
    BY Known DEF TransportInv
  <2>2. CASE reader' = reader
    BY <1>1, <2>1, <2>2 DEF ReaderTurn
  <2>3. CASE reader' # reader
    <3>1. PICK pc \in {"reread", "failed"} : reader' = [reader EXCEPT !.pc = pc]
      BY <2>3 DEF T!ReplayWritten, T!ReadFails, T!TimePasses
    <3> QED
      BY <2>1, <3>1 DEF ReaderTurn, ReaderShape
  <2> QED
    BY <2>2, <2>3
<1>4. CloseInTurn'
  BY <1>1, <1>2 DEF TransportInv, CloseInTurn
<1>5. generation <= generation'
  BY <1>1, Known
<1>6. \A o \in T!Ops : \/ attempts'[o] = attempts[o] /\ transport'.swept = transport.swept
                       \/ CancelledFrom(o)
                       \/ WriteInv(o)'
  BY <1>1
<1> QED
  BY <1>1, <1>2, <1>3, <1>4, <1>5, <1>6, Known, WritesStay

\* close(): the table is empty before the authenticator is swept.
LEMMA CloseSteps ==
  ASSUME TransportInv, T!Close \/ T!CloseCancels \/ T!CloseInner PROVE TransportInv'
<1>1. UNCHANGED <<generation, ops, reader, wired, sends>>
  BY DEF T!Close, T!CloseCancels, T!CloseInner
<1>2. Table' /\ Newer
  <2>1. CASE T!Close
    <3>1. pending' = <<>> /\ bytes' = 0
      BY <2>1 DEF T!Close
    <3> QED
      BY <1>1, <3>1, Known, SizeEmpty, TransportAssumption DEF Table, TableOf, Distinct, Newer
  <2>2. CASE UNCHANGED <<pending, bytes>>
    BY <1>1, <2>2, TableStays
  <2> QED
    BY <2>1, <2>2 DEF T!CloseCancels, T!CloseInner
<1>3. transport' \in [http : BOOLEAN, closed : BOOLEAN, swept : BOOLEAN, innerClosed : BOOLEAN]
  BY Known DEF T!Close, T!CloseCancels, T!CloseInner
<1>4. CloseInTurn'
  <2>1. CASE T!Close
    BY <2>1, Known DEF T!Close, CloseInTurn
  <2>2. CASE T!CloseCancels \/ T!CloseInner
    <3>1. pending' = pending /\ transport.closed /\ transport'.closed = transport.closed
      BY <2>2, Known DEF T!CloseCancels, T!CloseInner, TransportInv, CloseInTurn
    <3> QED
      BY <3>1 DEF TransportInv, CloseInTurn
  <2> QED
    BY <2>1, <2>2
<1>5. /\ attempts' \in [T!Ops -> {"none", "running", "cancelled"}]
      /\ \A o \in T!Ops : \/ attempts'[o] = attempts[o] /\ transport'.swept = transport.swept
                          \/ CancelledFrom(o)
  <2>1. CASE T!CloseCancels
    BY <2>1, Cancelled DEF T!CloseCancels
  <2>2. CASE T!Close \/ T!CloseInner
    <3>1. attempts' = attempts /\ transport'.swept = transport.swept
      BY <2>2, Known DEF T!Close, T!CloseInner
    <3> QED
      BY <3>1, Known
  <2> QED
    BY <2>1, <2>2
<1>6. ReaderTurn'
  BY <1>1 DEF TransportInv, ReaderTurn
<1>7. generation <= generation' /\ wired' \subseteq Writers
  BY <1>1, Known
<1> QED
  BY <1>1, <1>2, <1>3, <1>4, <1>5, <1>6, <1>7, WritesStay

LEMMA TransportStep == TransportInv /\ [T!Next]_(T!vars) => TransportInv'
<1> SUFFICES ASSUME TransportInv, [T!Next]_(T!vars) PROVE TransportInv'
  OBVIOUS
<1>1. CASE T!Next
  BY <1>1, StartWriteStep, AcceptedStep, RefusedStep, CheckOpenStep, RegisterStep, RecheckStep,
     AttemptEndsStep, ReadStep, ReaderRefreshedStep, QuietSteps, RereadStep, CloseSteps DEF T!Next
<1>2. CASE UNCHANGED T!vars
  <2>1. UNCHANGED <<transport, pending, bytes, generation, ops, attempts, reader, wired, sends>>
    BY <1>2 DEF T!vars
  <2>2. Table' /\ generation <= generation' /\ Newer
    BY <2>1, TableStays
  <2>3. ReaderTurn' /\ CloseInTurn'
    BY <2>1 DEF TransportInv, ReaderTurn, CloseInTurn
  <2>4. \A o \in T!Ops : \/ attempts'[o] = attempts[o] /\ transport'.swept = transport.swept
                         \/ CancelledFrom(o)
                         \/ WriteInv(o)'
    BY <2>1
  <2> QED
    BY <2>1, <2>2, <2>3, <2>4, Known, WritesStay
<1> QED
  BY <1>1, <1>2

\* The retry table, the writes' attempts and close() keep the invariant in
\* every behaviour of the transport (oauth.cpp:2514-2841).
THEOREM TransportInvariance == T!Spec => []TransportInv
<1> QED
  BY TransportInit, TransportStep, PTL DEF T!Spec

\* The retry table keeps within both bounds and counts its bytes, a server
\* drives at most three attempts per write, and after the sweep of close() no
\* attempt that is awaited goes on (oauth.cpp:2527-2606, 2639-2694, 2741-2841).
THEOREM TheTransportStaysInBounds == T!Spec => []TransportInBounds
<1>1. TransportInv => TransportInBounds
  <2> SUFFICES ASSUME TransportInv PROVE TransportInBounds
    OBVIOUS
  <2>1. pending \in Seq(T!Entry) /\ \A o \in T!Ops : WriteInv(o)
    BY DEF TransportInv, Table, TableOf
  <2>2. DOMAIN pending = 1..Len(pending)
    BY <2>1
  <2>3. Len(pending) <= MaxRequests /\ bytes <= MaxBytes /\ bytes = T!SizeOf(pending) /\ Distinct(pending)
    BY TransportAssumption DEF TransportInv, Table, TableOf
  <2>4. T!TableBounded
    BY <2>1, <2>2, <2>3 DEF T!TableBounded, Distinct, TransportInv, CloseInTurn, WriteInv, EntrySettled
  <2>5. T!AttemptsBounded /\ T!NoAttemptOutlivesClose
    BY <2>1 DEF T!AttemptsBounded, T!NoAttemptOutlivesClose, WriteInv, SendsCounted, AttemptKept, Awaiting
  <2> QED
    BY <2>4, <2>5 DEF TransportInBounds
<1> QED
  BY <1>1, TransportInvariance, PTL

\* A write fails by erasing its own entry.
LEMMA Failing ==
  ASSUME TransportInv, T!Next, NEW o \in T!Ops, ops[o].result = "none", ops'[o].result = "failed"
  PROVE  T!Erase(o) /\ UNCHANGED generation
<1>1. ops \in [T!Ops -> WriteOp] /\ Reader \in T!Ops /\ ops[o] \in WriteOp
  BY Known
<1>2. ops' # ops
  OBVIOUS
<1>3. ASSUME NEW p \in T!Ops, T!Fail(p) PROVE T!Erase(o)
  BY <1>1, <1>3 DEF T!Fail
<1>4. ASSUME NEW p \in T!Ops, NEW x, ops' = [ops EXCEPT ![p] = x] PROVE x.result = "failed"
  BY <1>1, <1>4
<1>5. ASSUME NEW p \in T!Ops, NEW key, NEW size PROVE ~T!Begin(p, key, size)
  <2> SUFFICES ASSUME T!Begin(p, key, size) PROVE FALSE
    OBVIOUS
  <2> DEFINE x == [T!Idle EXCEPT !.pc = "send", !.key = key, !.size = size,
                                 !.gen = IF T!Retainable(size) THEN generation + 1 ELSE 0]
  <2>1. ops' = [ops EXCEPT ![p] = x] /\ x.result = "none"
    BY DEF T!Begin, T!Idle
  <2> HIDE DEF x
  <2> QED
    BY <1>4, <2>1
<1>6. ASSUME NEW p \in T!Ops, Settles(p) PROVE T!Erase(o)
  <2>1. ASSUME NEW x, GoesTo(p, x) PROVE FALSE
    BY <1>4, <2>1 DEF GoesTo
  <2> QED
    BY <1>3, <1>6, <2>1 DEF Settles
<1>7. ASSUME NEW p \in T!Ops,
             \/ T!Accepted(p) \/ T!Refused(p) \/ T!TryRefresh(p) \/ T!TryChallenge(p)
             \/ T!Register(p) \/ T!Recheck(p) \/ T!AttemptEnds(p)
      PROVE  T!Erase(o) /\ UNCHANGED generation
  <2>1. Settles(p)
    BY <1>7, AcceptedStep, RefusedStep, CheckOpenStep, RegisterStep, RecheckStep, AttemptEndsStep
  <2>2. UNCHANGED generation
    BY <1>7 DEF T!Accepted, T!Refused, T!TryRefresh, T!TryChallenge, T!CheckOpen, T!Register, T!Recheck,
                T!AttemptEnds
  <2> QED
    BY <1>6, <2>1, <2>2
<1>8. ~T!Reread
  <2>1. T!Idle.result # "failed"
    BY DEF T!Idle
  <2> QED
    BY <1>1, <1>4, <2>1 DEF T!Reread
<1>9. ~(\E w \in Writers : T!StartWrite(w)) /\ ~T!ReaderRefreshed
  <2>1. ~(\E w \in Writers : T!StartWrite(w))
    BY <1>5 DEF T!StartWrite, T!Ops
  <2> QED
    BY <1>1, <1>2, <1>5, <2>1 DEF T!ReaderRefreshed
<1>10. ~(T!Read \/ T!ReplayWritten \/ T!ReadFails \/ T!TimePasses \/ T!Close \/ T!CloseCancels \/ T!CloseInner)
  BY <1>2 DEF T!Read, T!ReplayWritten, T!ReadFails, T!TimePasses, T!Close, T!CloseCancels, T!CloseInner
<1> QED
  BY <1>7, <1>8, <1>9, <1>10 DEF T!Next

\* A write that fails takes no other request out of the retry table: what it
\* erases is the entry of its key and generation (oauth.cpp:2675-2685).
THEOREM AFailureKeepsOthers == T!Spec => FailureKeepsOthers
<1> DEFINE Kept == \A o \in T!Ops, i \in DOMAIN pending :
                      /\ ops[o].result = "none" /\ ops'[o].result = "failed"
                      /\ ~T!EntryOf(o, pending[i])
                      => \E j \in DOMAIN pending' : pending'[j] = pending[i]
<1>1. TransportInv /\ [T!Next]_(T!vars) => [Kept]_(T!vars)
  <2> SUFFICES ASSUME TransportInv, T!Next, NEW o \in T!Ops, NEW i \in DOMAIN pending,
                      ops[o].result = "none", ops'[o].result = "failed", ~T!EntryOf(o, pending[i])
               PROVE  \E j \in DOMAIN pending' : pending'[j] = pending[i]
    OBVIOUS
  <2>1. T!Erase(o) /\ UNCHANGED generation
    BY Failing
  <2>2. pending \in Seq(T!Entry)
    BY Known DEF Table, TableOf
  <2>3. /\ Table'
        /\ \A k \in 1..Len(pending) :
              ~T!Mine(o, pending[k]) => \E j \in 1..Len(pending') : pending'[j] = pending[k]
    BY <2>1, Known, Erased
  <2>4. pending' \in Seq(T!Entry)
    BY <2>3 DEF Table, TableOf
  <2>5. i \in 1..Len(pending) /\ DOMAIN pending' = 1..Len(pending')
    BY <2>2, <2>4
  <2> QED
    BY <2>3, <2>5 DEF T!EntryOf, T!Mine
<1> QED
  BY <1>1, TransportInvariance, PTL DEF T!Spec, FailureKeepsOthers, T!FailureKeepsOthers
=============================================================================

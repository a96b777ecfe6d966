------------------------------- MODULE MCOAuth -------------------------------
(***************************************************************************)
(* Small instances of the four parts of the client's authorization: the    *)
(* authorization manager, what it discovers and presents, the transport    *)
(* that retries, and the HTTP client both use.  They share no state beyond *)
(* calls whose results the models leave open, so a behaviour exercises one *)
(* of them, picked by `part`.                                              *)
(***************************************************************************)
EXTENDS OAuthFlight

CONSTANTS Writers, Reader, Sizes, MaxRequests, MaxBytes, NoKey,
          Exchanges, Authenticators, MaxRedirects, MaxSwaps, None,
          AuthServers, Ours, Other, Nobody,   \* authorization servers, two of them, and none
          ScopeNames, ResourceDocuments, AuthDocuments, Setups      \* of OAuthDiscovery

ASSUME TransportAssumption ==
    /\ Reader \notin Writers /\ Sizes \subseteq Nat
    /\ MaxRequests \in Nat /\ MaxBytes \in Nat
ASSUME HttpAssumption ==
    /\ None \notin Exchanges \cup Authenticators
    /\ MaxRedirects \in Nat /\ MaxSwaps \in Nat
\* A document lists servers, and an application that says whose credentials it
\* configured configured those.
ASSUME DiscoveryAssumption ==
    /\ Nobody \notin AuthServers
    /\ \A d \in ResourceDocuments : d.server \in AuthServers \cup {Nobody}
    /\ \A s \in Setups : s.issuer # Nobody => s.secretOf \in {Nobody, s.issuer}

VARIABLES part,
          transport, pending, bytes, generation, ops, attempts, reader, wired, sends,
          latched, exchanges, active, closing, holder, auth, aborting,
          setup, resources, servers, credentials, operation, config, granted, token, sent

T == INSTANCE OAuthClientTransport
H == INSTANCE OAuthHttpClient

\* Documents of resources and of servers, and configurations of the manager.
Resource(ours, server, scopes) == [ours |-> ours, server |-> server, scopes |-> scopes]
Server(claims, s256, byUrl, iss, methods) ==
    [claims |-> claims, usable |-> TRUE, s256 |-> s256, byUrl |-> byUrl, registers |-> TRUE,
     iss |-> iss, methods |-> methods]
Setup(registered, issuer, secretOf, url) ==
    [registered |-> registered, issuer |-> issuer, secretOf |-> secretOf, url |-> url, scope |-> {}]
SomeResourceDocuments ==
    {Resource(TRUE, Ours, {"read"}), Resource(TRUE, Other, {}), Resource(FALSE, Other, {}),
     Resource(TRUE, Nobody, {})}
SomeAuthDocuments ==
    {Server(Ours, TRUE, FALSE, TRUE, {"basic", "none"}), Server(Other, TRUE, TRUE, FALSE, {}),
     Server(Other, FALSE, FALSE, FALSE, {"post"})}
SomeSetups ==
    {Setup(TRUE, Ours, Ours, FALSE), Setup(TRUE, Nobody, Ours, FALSE),
     Setup(FALSE, Nobody, Nobody, TRUE)}
D == INSTANCE OAuthDiscovery WITH None <- Nobody, Issuers <- AuthServers, Scopes <- ScopeNames

tvars == <<transport, pending, bytes, generation, ops, attempts, reader, wired, sends>>
hvars == <<latched, exchanges, active, closing, holder, auth, aborting>>
dvars == <<setup, resources, servers, credentials, operation, config, granted, token, sent>>
mcvars == <<part, vars, tvars, hvars, dvars>>

MCInit ==
    /\ part \in {"manager", "discovery", "transport", "http"}
    /\ Init /\ T!Init /\ H!Init /\ D!Init
    /\ part # "manager" => store = NoToken
    /\ part # "transport" => ~transport.http
    /\ part # "discovery" => setup.registered /\ setup.issuer = Nobody
    /\ credentials[Other] = Nobody
    /\ credentials[Ours] # Nobody => part = "discovery" /\ credentials[Ours].issuer = Other

-----------------------------------------------------------------------------
(* Bounds.                                                                 *)

\* Calls are alike, so they start in order: at most three, and after an
\* earlier authorization three refreshes or a challenge with a refresh.
Ran(kind) == {c \in Calls : calls[c].kind = kind}
AnEarlierCall == \E c \in Earlier : calls[c].pc = "done" /\ calls[c].kind = "none"
FewCalls ==
    /\ \A c \in Calls : calls[c].pc # "idle" /\ c > 1 => calls[c-1].pc # "idle"
    /\ Cardinality(Ran("challenge") \cup Ran("refresh")) <= 3
    /\ Ran("challenge") # {} => Cardinality(Ran("refresh")) <= 1
    /\ AnEarlierCall => Cardinality(Ran("challenge")) <= 1
    /\ ~AnEarlierCall => Ran("refresh") = {} \/ Cardinality(Ran("challenge")) <= 1

\* Over HTTP, where writes loop, one writer; otherwise all of them.
FewWrites ==
    \A w \in Writers : ops[w].pc # "idle" =>
        /\ w > 1 => ops[w-1].pc # "idle" /\ ~transport.http
        /\ ops[w].size = IF w = 1 THEN 1 ELSE 2

\* Authenticator 1 is cancelled and closed; the others share its client.
FewExchanges ==
    /\ \A e \in Exchanges : exchanges[e].pc # "idle" /\ e > 1 => exchanges[e-1].pc # "idle"
    /\ \A a \in Authenticators : a > 1 => ~auth[a].closed /\ auth[a].scope[2] = 0
    /\ exchanges[1].scope[1] # 2

\* Time passes between challenges, the challenges' own URL leads to the other
\* server, and what is cached of a server is what it may say.
TimePasses ==
    operation' = operation /\ <<resources, servers, credentials>>' # <<resources, servers, credentials>>
FewDocuments ==
    /\ TimePasses => operation.pc = "idle"
    /\ \A k \in D!Keys : resources'[k] # Nobody =>
          resources'[k].server = IF k = "server" THEN Ours ELSE Other
    /\ servers'[Ours] # Nobody => servers'[Ours].s256
    /\ servers'[Other] # Nobody => servers'[Other].claims = Other

MCNext ==
    \/ /\ part = "manager" /\ Next /\ FewCalls'
       /\ UNCHANGED <<part, tvars, hvars, dvars>>
    \/ /\ part = "transport" /\ T!Next /\ FewWrites'
       /\ UNCHANGED <<part, vars, hvars, dvars>>
    \/ /\ part = "http" /\ H!Next /\ FewExchanges'
       /\ UNCHANGED <<part, vars, tvars, dvars>>
    \/ /\ part = "discovery" /\ D!Next /\ FewDocuments
       /\ UNCHANGED <<part, vars, tvars, hvars>>

MCSpec == MCInit /\ [][MCNext]_mcvars

-----------------------------------------------------------------------------
(* Properties: those of the manager are OAuthFlight's own.                 *)

\* The retrying transport keeps its table, its attempts and its close in
\* bounds (oauth.cpp:2514-2841).
TransportInBounds ==
    T!TableBounded /\ T!AttemptsBounded /\ T!NoAttemptOutlivesClose

\* A failing write leaves the replays of other requests alone (2675-2685).
FailureKeepsOthers == T!FailureKeepsOthers

\* Aborts reach what they are for, and only that (626-743, 1503-1525).
AbortsReach == H!AbortReaches /\ H!ClosedForGood

\* Credentials, codes and refresh tokens reach the server they belong to, and
\* only accepted documents are acted on (client_identity.cpp:174-216,
\* oauth.cpp:1974-2068).
CredentialsGoHome == D!CredentialsGoHome
ActsOnTheAccepted == D!ActsOnTheAccepted

\* Under the fairness of each part alone: nobody is stranded in a flight, a
\* closed transport's writes return, and aborted exchanges end.
EverybodyIsReleased ==
    /\ Fairness => NobodyStranded
    /\ T!Fairness => T!CloseEndsWrites
    /\ H!Fairness => H!AbortEnds
=============================================================================

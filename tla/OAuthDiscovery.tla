----------------------------- MODULE OAuthDiscovery -----------------------------
(***************************************************************************)
(* What one authorization after another decides (src/src/auth/oauth.cpp,   *)
(* client_identity.cpp): which metadata documents are found, cached and    *)
(* acted on, which client identity and scope are presented to the server   *)
(* they name, and where a refresh goes afterwards.                         *)
(*                                                                         *)
(* A challenge leads its flight alone (OAuthFlight), so there is one       *)
(* operation at a time; refreshes run beside it.  What a server answers    *)
(* is chosen anew at each fetch: a server may change its documents.        *)
(***************************************************************************)
EXTENDS Naturals, FiniteSets

CONSTANTS Issuers,
          ResourceDocuments,    \* [ours, server, scopes]: server is the first one listed
          AuthDocuments,        \* [claims, usable, s256, byUrl, registers, iss, methods]
          Scopes,
          Setups,               \* [registered, issuer, secretOf, url, scope]: the configuration
          None

VARIABLES setup,         \* the configuration
          resources,     \* resource_cache: the document under each key, or None
          servers,       \* auth_cache: the document of each issuer, or None
          credentials,   \* the credential store
          operation,     \* ChallengeOperation
          config,        \* token_config
          granted,       \* granted_scope
          token,         \* the token store: the server that issued the token, or None
          sent           \* what this step shows to a token endpoint, or None

vars == <<setup, resources, servers, credentials, operation, config, granted, token, sent>>

Keys == {"server", "challenge"}
NoIdentity == [secretOf |-> None, source |-> "none"]
Idle == [pc |-> "idle", key |-> "server", asked |-> {}, left |-> 0, resource |-> None,
         auth |-> None, identity |-> NoIdentity, scope |-> {}]
NoConfig == [issuer |-> None, secretOf |-> None, method |-> "none"]

Registration(issuer, secretOf) == [issuer |-> issuer, secretOf |-> secretOf, expired |-> FALSE]

Init ==
    /\ setup \in Setups
    /\ resources = [k \in Keys |-> None]
    /\ servers = [i \in Issuers |-> None]
    /\ credentials \in [Issuers -> {None} \cup {Registration(i, i) : i \in Issuers}]
    /\ operation = Idle /\ config = NoConfig /\ granted = {} /\ token = None /\ sent = None

At(pc) == operation.pc = pc
Fail == operation' = Idle
GoTo(pc) == operation' = [operation EXCEPT !.pc = pc]

-----------------------------------------------------------------------------
(* Discovery.                                                              *)

\* Mutant: the document is looked at only after it is cached.
AcceptsAll(document) == TRUE

\* run_challenge()'s acceptor.
Accepts(document) == document.server # None /\ document.ours

\* discover_protected_resource(): the challenge's own URL is its own key and
\* the only candidate; a cached document is accepted like a fetched one.
StartChallenge(named, asked) ==
    /\ At("idle")
    /\ LET key == IF named THEN "challenge" ELSE "server"
           begun == [Idle EXCEPT !.key = key, !.asked = asked]
       IN  operation' =
             IF resources[key] = None
             THEN [begun EXCEPT !.pc = "resource", !.left = IF named THEN 1 ELSE 2]
             ELSE IF Accepts(resources[key])
             THEN [begun EXCEPT !.pc = "server", !.resource = resources[key]]
             ELSE Idle
    /\ UNCHANGED <<setup, resources, servers, credentials, config, granted, token>>

\* A candidate that fails makes room for the next one; a refused target ends
\* the discovery.
Missed ==
    /\ operation.pc \in {"resource", "auth"}
    /\ \/ operation' = IF operation.left > 1 THEN [operation EXCEPT !.left = @ - 1] ELSE Idle
       \/ Fail
    /\ UNCHANGED <<setup, resources, servers, credentials, config, granted, token>>

\* run_protected_discovery(): accepted, then cached.
FetchResource(document) ==
    /\ At("resource")
    /\ IF Accepts(document)
       THEN /\ resources' = [resources EXCEPT ![operation.key] = document]
            /\ operation' = [operation EXCEPT !.pc = "server", !.resource = document]
       ELSE Fail /\ UNCHANGED resources
    /\ UNCHANGED <<setup, servers, credentials, config, granted, token>>

\* discover_auth_server() at the first server listed.
LookUpServer ==
    /\ At("server")
    /\ LET cached == servers[operation.resource.server]
       IN  operation' = IF cached = None
                        THEN [operation EXCEPT !.pc = "auth", !.left = 3]
                        ELSE [operation EXCEPT !.pc = "check", !.auth = cached]
    /\ UNCHANGED <<setup, resources, servers, credentials, config, granted, token>>

\* run_auth_discovery(): whatever parses is cached.
FetchServer(document) ==
    /\ At("auth")
    /\ servers' = [servers EXCEPT ![operation.resource.server] = document]
    /\ operation' = [operation EXCEPT !.pc = "check", !.auth = document]
    /\ UNCHANGED <<setup, resources, credentials, config, granted, token>>

-----------------------------------------------------------------------------
(* Identity and scope.                                                     *)

Issuer == operation.auth.claims

\* Mutant: the document's claim is not compared with where it came from.
NotCompared(document, issuer) == document.usable /\ document.s256

\* The checks of run_challenge() between discovery and identity.
Trusted(document, issuer) ==
    document.claims = issuer /\ document.usable /\ document.s256

\* Mutant: an entry is used whatever issuer it records.
UnderItsKey(issuer) == credentials[issuer]

\* load_stored_identity()
StoredIdentity(issuer) ==
    IF credentials[issuer] = None THEN None
    ELSE IF credentials[issuer].issuer # issuer \/ credentials[issuer].expired THEN None
    ELSE credentials[issuer]

\* Mutant: credentials that name no issuer are bound to every one.
BoundToAny(issuer) == setup.issuer \in {None, issuer}

\* Whether pre-registered credentials may be presented to this issuer.
Presentable(issuer) ==
    IF setup.issuer = None THEN setup.secretOf = None ELSE setup.issuer = issuer

\* select_client_identity()
Decision(document) ==
    IF setup.registered
    THEN IF Presentable(document.claims) THEN "pre_registered" ELSE "unavailable"
    ELSE IF setup.url /\ document.byUrl THEN "document"
    ELSE IF StoredIdentity(document.claims) # None THEN "stored"
    ELSE IF document.registers THEN "register" ELSE "unavailable"

\* Mutant: a step-up asks only for what the challenge names.
AsSelected(selected, earlier) == selected
\* union_scopes()
WithGranted(selected, earlier) == selected \cup earlier

\* select_scope(); the challenge's scope, else all the resource supports.
SelectScope ==
    IF setup.scope # {} THEN setup.scope
    ELSE WithGranted(IF operation.asked # {} THEN operation.asked ELSE operation.resource.scopes,
                     granted)

\* build_request() and the record of it, for the identity it presents.
Ask(identity) ==
    operation' = [operation EXCEPT !.pc = "consent", !.identity = identity, !.scope = SelectScope]

Identify ==
    /\ At("check")
    /\ IF ~Trusted(operation.auth, operation.resource.server) THEN Fail
       ELSE CASE Decision(operation.auth) = "unavailable" -> Fail
              [] Decision(operation.auth) = "register" -> GoTo("register")
              [] Decision(operation.auth) = "pre_registered" ->
                    Ask([secretOf |-> setup.secretOf, source |-> "pre_registered"])
              [] Decision(operation.auth) = "document" ->
                    Ask([secretOf |-> None, source |-> "document"])
              [] Decision(operation.auth) = "stored" ->
                    Ask([secretOf |-> StoredIdentity(Issuer).secretOf, source |-> "stored"])
    /\ UNCHANGED <<setup, resources, servers, credentials, config, granted, token>>

\* resolve_identity()'s registration, which the server may refuse.
Register(secret) ==
    /\ At("register")
    /\ LET secretOf == IF secret THEN operation.resource.server ELSE None
       IN  /\ credentials' = [credentials EXCEPT ![Issuer] = Registration(Issuer, secretOf)]
           /\ Ask([secretOf |-> secretOf, source |-> "registered"])
    /\ UNCHANGED <<setup, resources, servers, config, granted, token>>

\* The registration, the consent or the exchange fails, or the answer to the
\* request is one validate_authorization_response() refuses.
Refused ==
    /\ operation.pc \in {"register", "consent", "exchange"}
    /\ Fail
    /\ UNCHANGED <<setup, resources, servers, credentials, config, granted, token>>

Consent(iss) ==
    /\ At("consent")
    /\ iss = Issuer \/ (iss = None /\ ~operation.auth.iss)
    /\ GoTo("exchange")
    /\ UNCHANGED <<setup, resources, servers, credentials, config, granted, token>>

-----------------------------------------------------------------------------
(* Tokens.                                                                 *)

\* select_token_endpoint_auth_method()
Method(methods, secret) ==
    IF secret /\ "basic" \in methods THEN "basic"
    ELSE IF secret /\ "post" \in methods THEN "post"
    ELSE IF "none" \in methods THEN "none" ELSE "unset"

\* apply_client_authentication(): whose secret a request carries.
Shown(c) == IF c.method = "none" THEN None ELSE c.secretOf
Request(c, code, refresh) ==
    [to |-> c.issuer, secretOf |-> Shown(c), codeOf |-> code, refreshOf |-> refresh]

TokenConfig ==
    [issuer |-> Issuer, secretOf |-> operation.identity.secretOf,
     method |-> Method(operation.auth.methods, operation.identity.secretOf # None)]

\* exchange_code(); a server silent about the scope granted what was asked.
Exchange(scope) ==
    /\ At("exchange")
    /\ sent' = Request(TokenConfig, Issuer, None)
    /\ GoTo("keep")
    /\ config' = TokenConfig /\ granted' = scope
    /\ UNCHANGED <<setup, resources, servers, credentials, token>>

KeepToken ==
    /\ At("keep")
    /\ token' = Issuer
    /\ Fail
    /\ UNCHANGED <<setup, resources, servers, credentials, config, granted>>

\* run_refresh(): the token of the store at the endpoint of token_config.  One
\* that runs between the two writes of an exchange is not recorded.
Refresh ==
    /\ config # NoConfig /\ token # None
    /\ sent' = IF At("keep") THEN None ELSE Request(config, None, token)
    /\ UNCHANGED <<setup, resources, servers, credentials, operation, config, granted, token>>

-----------------------------------------------------------------------------
(* The world: time, and another manager on the same credential store.      *)

CacheExpires ==
    /\ \/ \E k \in Keys : resources' = [resources EXCEPT ![k] = None] /\ UNCHANGED servers
       \/ \E i \in Issuers : servers' = [servers EXCEPT ![i] = None] /\ UNCHANGED resources
    /\ UNCHANGED <<setup, credentials, operation, config, granted, token>>

SecretExpires(i) ==
    /\ credentials[i] # None
    /\ credentials' = [credentials EXCEPT ![i].expired = TRUE]
    /\ UNCHANGED <<setup, resources, servers, operation, config, granted, token>>

Next ==
    \/ /\ sent' = None
       /\ \/ \E named \in BOOLEAN, asked \in SUBSET Scopes : StartChallenge(named, asked)
          \/ Missed
          \/ \E document \in ResourceDocuments : FetchResource(document)
          \/ LookUpServer
          \/ \E document \in AuthDocuments : FetchServer(document)
          \/ Identify
          \/ \E secret \in BOOLEAN : Register(secret)
          \/ Refused
          \/ \E iss \in Issuers \cup {None} : Consent(iss)
          \/ KeepToken
          \/ CacheExpires
          \/ \E i \in Issuers : SecretExpires(i)
    \/ \E scope \in SUBSET Scopes : Exchange(scope)
    \/ Refresh

Spec == Init /\ [][Next]_vars

-----------------------------------------------------------------------------
(* Properties.                                                             *)

\* A secret is shown only to the server it belongs to, a code and a refresh
\* token only to the one that issued them (client_identity.cpp:156-216,
\* oauth.cpp:1831-1914, 2045-2068).
CredentialsGoHome ==
    sent # None =>
        \A of \in {sent.secretOf, sent.codeOf, sent.refreshOf} : of \in {None, sent.to}

\* Consent is asked, and a document cached, only for a resource document that
\* names this server, and a server that is who it claims to be and uses PKCE;
\* a step-up that no configured scope overrides asks for all that is granted
\* (oauth.cpp:1625-1640, 1798-1815, 1978-2028).
ActsOnTheAccepted ==
    /\ \A k \in Keys : resources[k] # None => resources[k].ours /\ resources[k].server # None
    /\ operation.pc \in {"consent", "exchange", "keep"} =>
          /\ operation.resource.ours
          /\ operation.auth.claims = operation.resource.server
          /\ operation.auth.usable /\ operation.auth.s256
    /\ At("consent") /\ setup.scope = {} => granted \subseteq operation.scope
=============================================================================

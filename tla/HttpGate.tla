--------------------------------- MODULE HttpGate ---------------------------------
(***************************************************************************)
(* What stands between a request and the handlers of the two HTTP servers:   *)
(* the settings an application gives them before listen(), the order in      *)
(* which a request meets the checks of origin, path and bearer token, and    *)
(* the check of the protocol version.  HttpServerTransport                   *)
(* (src/src/transport/http_server.cpp) and StreamableHttpSessionManager      *)
(* (http_session_manager.cpp) have the same settings and a gate of their own.*)
(***************************************************************************)
EXTENDS HttpTypes

-----------------------------------------------------------------------------
(* Settings.                                                               *)

NoMetadata == [resource |-> <<>>, path |-> Derived]
NewSettings ==
    [sync |-> FALSE, async |-> FALSE, own |-> <<>>, shown |-> <<>>, metadata |-> NoMetadata,
     origins |-> {}, anyOrigin |-> FALSE, exempt |-> {}]

UrlOf(metadata) == MetadataUrl(metadata.resource, metadata.path)
\* Mutant: a challenge is rendered as it is given.
AsGiven(own, metadata) == own
\* render_challenge(): its own URL, or the one of the metadata.
Rendered(own, metadata) ==
    IF own = <<>> /\ metadata # NoMetadata THEN UrlOf(metadata) ELSE own

\* Mutant: each setter looks at its own validator only.
EachAlone(other, on) == FALSE
TwoValidators(other, on) == on /\ other

\* set_bearer_token_validator(), ...; one that throws changes nothing.
Configured(settings, call) ==
    CASE call.set = "validator" ->
            IF TwoValidators(settings.async, call.on) THEN settings ELSE [settings EXCEPT !.sync = call.on]
      [] call.set = "asyncValidator" ->
            IF TwoValidators(settings.sync, call.on) THEN settings ELSE [settings EXCEPT !.async = call.on]
      [] call.set = "challenge" ->
            IF ~IsQuotable(call.own) THEN settings
            ELSE [settings EXCEPT !.own = call.own, !.shown = Rendered(call.own, settings.metadata)]
      [] call.set = "metadata" ->
            IF MetadataRefused(call.to.resource, call.to.path) THEN settings
            ELSE [settings EXCEPT !.metadata = call.to, !.shown = Rendered(settings.own, call.to)]
      [] call.set = "origins" -> [settings EXCEPT !.origins = call.allow, !.anyOrigin = FALSE]
      [] call.set = "anyOrigin" -> [settings EXCEPT !.anyOrigin = call.on]
      [] call.set = "exempt" -> [settings EXCEPT !.exempt = call.paths]
SettingsAfter(calls) == FoldLeft(Configured, NewSettings, calls)

-----------------------------------------------------------------------------
(* The gates.  A request has a method, an origin (or none), a target and an *)
(* Authorization header; "served" is one that reaches its handler.          *)

OriginAllowed(settings, request) ==
    request.origin = "none" \/ settings.anyOrigin \/ request.origin \in settings.origins
IsDocument(settings, request) ==
    /\ settings.metadata # NoMetadata /\ request.method = "GET"
    /\ RequestPath(request.target) = MetadataPath(settings.metadata.resource, settings.metadata.path)
IsExempt(settings, request) == RequestPath(request.target) \in settings.exempt

\* What the application's validator makes of a token.
TokenVerdict(token) == CASE token = <<"good">> -> "served" [] token = <<"bad">> -> "unauthorized"
                    [] OTHER -> "failed"
\* Mutant: a validator that throws has refused.
ThrowRefuses(token) == IF token = <<"good">> THEN "served" ELSE "unauthorized"
Judged(token) == TokenVerdict(token)
\* check_authorization() and check_authorization_async()
Authorized(settings, request) ==
    CASE ~settings.sync /\ ~settings.async -> "served"
      [] BearerToken(request.authorization) = NoToken -> "unauthorized"
      [] OTHER -> Judged(BearerToken(request.authorization))

Methods == {"POST", "GET", "DELETE"}
\* handle_request() of the transport, with handle_post, handle_get and handle_delete up to
\* what they do with the message.
TransportGate(settings, request) ==
    LET forbidden == ~OriginAllowed(settings, request)
    IN  CASE IsDocument(settings, request) -> IF forbidden THEN "forbidden" ELSE "document"
          [] ~IsDocument(settings, request) /\ IsExempt(settings, request) -> "not found"
          [] OTHER -> IF request.method \notin Methods THEN "not allowed"
                      ELSE IF forbidden THEN "forbidden" ELSE Authorized(settings, request)

\* Mutant: an exempt path is only excused from the bearer check.
ServedUnchecked(settings, request) == FALSE
NobodyAnswers(settings, request) == IsExempt(settings, request)
\* handle_request() of the session manager; "takes" is what its custom handler answers.
ManagerGate(settings, stateless, takes, request) ==
    LET verdict == IF IsExempt(settings, request) THEN "served" ELSE Authorized(settings, request)
    IN  CASE ~OriginAllowed(settings, request) -> "forbidden"
          [] OriginAllowed(settings, request) /\ IsDocument(settings, request) -> "document"
          [] OTHER ->
                IF verdict # "served" THEN verdict
                ELSE IF takes THEN "custom"
                ELSE IF NobodyAnswers(settings, request) THEN "not found"
                ELSE IF request.method \in (IF stateless THEN {"POST"} ELSE Methods) THEN "served"
                ELSE "not allowed"

-----------------------------------------------------------------------------
(* The protocol version.                                                   *)

SupportedVersions == {"2024-11-05", "2025-03-26", "2025-06-18", "2025-11-25"}
Latest == "2025-11-25"
Discoverable == SupportedVersions \cup {"2026-07-28"}
Negotiated(requested) == IF requested \in SupportedVersions THEN requested ELSE Latest
\* The session of the manager negotiates by itself, the Server once more.
\* Mutant: the session takes the version that was asked for.
AsRequested(requested) == requested
SessionVersion(requested) == Negotiated(requested)
\* capture_negotiated_protocol_version()
ClientVersion(answered) == IF answered \in SupportedVersions THEN answered ELSE Latest

\* check_protocol_version(); a header "none" is not there.
TransportTakes(version, kind, header) ==
    \/ kind = "initialize" /\ header \in SupportedVersions \cup {"none"}
    \/ kind = "discover"
    \/ kind = "other" /\ header \in {version, "none"}
\* handle_post() and handle_stateless_post() of the manager
ManagerTakes(stateless, inSession, version, kind, header) ==
    CASE kind = "initialize" -> header \in SupportedVersions \cup {"none"}
      [] kind = "discover" /\ (stateless \/ ~inSession) -> TRUE
      [] OTHER -> header \in (IF stateless THEN SupportedVersions ELSE {version}) \cup {"none"}

-----------------------------------------------------------------------------
(* What the gates promise.                                                 *)

\* Whatever the order of the settings, the challenge names the application's
\* own document or else the one that is served, and one validator decides.
LastAccepted(calls, name, nothing) ==
    LET accepted == SelectSeq(calls, LAMBDA c : c.set = name
            /\ (name = "challenge" => IsQuotable(c.own))
            /\ (name = "metadata" => ~MetadataRefused(c.to.resource, c.to.path)))
    IN  IF accepted = <<>> THEN nothing ELSE Last(accepted)
SettingsInAnyOrder(calls) ==
    LET settings == SettingsAfter(calls)
        own == LastAccepted(calls, "challenge", [own |-> <<>>]).own
        metadata == LastAccepted(calls, "metadata", [to |-> NoMetadata]).to
    IN  /\ ~(settings.sync /\ settings.async)
        /\ settings.shown =
              IF own # <<>> THEN own ELSE IF metadata = NoMetadata THEN <<>> ELSE UrlOf(metadata)

\* Nothing is served but to an origin that is allowed, off the exempt paths and
\* with a token the validator accepted; only a missing or a refused token is
\* answered with the challenge.
ServesTheAdmitted(settings, request, answer) ==
    LET token == BearerToken(request.authorization)
        guarded == settings.sync \/ settings.async
    IN  /\ answer = "served" =>
              /\ OriginAllowed(settings, request) /\ ~IsExempt(settings, request)
              /\ guarded => token = <<"good">>
        /\ answer = "document" => OriginAllowed(settings, request)
        /\ answer = "unauthorized" => guarded /\ (token = NoToken \/ token = <<"bad">>)

\* Who is sent to the metadata finds it, without a token.  A configured path
\* with a query is accepted and published but no request can have it.
NeverRequested(path) == RequestPath(path) # path
ChallengeLeadsToDocument(settings, request, Gate(_, _)) ==
    /\ Gate(settings, request) = "unauthorized"
    /\ settings.own = <<>> /\ settings.metadata # NoMetadata /\ ~NeverRequested(settings.metadata.path)
    => Gate(settings, [request EXCEPT !.method = "GET", !.target = PathOf(settings.shown),
                                      !.authorization = <<>>]) = "document"

\* The two gates give one answer, but for a method neither knows, which the
\* transport refuses before it looks at anything, and for an exempt path, which
\* it does not know before it looks at the origin.
GatesAgree(settings, request) ==
    \/ TransportGate(settings, request) = ManagerGate(settings, FALSE, FALSE, request)
    \/ request.method \notin Methods /\ TransportGate(settings, request) \in {"not allowed", "not found"}
    \/ IsExempt(settings, request) /\ ManagerGate(settings, FALSE, FALSE, request) = "forbidden"

RequestsGated(settings, request) ==
    LET Manager(s, r) == ManagerGate(s, FALSE, FALSE, r)
    IN  /\ ServesTheAdmitted(settings, request, TransportGate(settings, request))
        /\ \A stateless, takes \in BOOLEAN :
              ServesTheAdmitted(settings, request, ManagerGate(settings, stateless, takes, request))
        /\ ChallengeLeadsToDocument(settings, request, TransportGate)
        /\ ChallengeLeadsToDocument(settings, request, Manager)
        /\ GatesAgree(settings, request)

\* After an initialize the client's header is the one that the session takes,
\* and another version is not.
VersionsAgree(requested) ==
    LET answered == Negotiated(requested)
        mine == ClientVersion(answered)
        session == SessionVersion(requested)
    IN  /\ \A kind \in {"discover", "other"} :
              /\ TransportTakes(answered, kind, mine)
              /\ \A stateless, inSession \in BOOLEAN :
                    ManagerTakes(stateless, inSession, session, kind, mine)
        /\ \A other \in Discoverable \ {mine} :
              ~TransportTakes(answered, "other", other) /\ ~ManagerTakes(FALSE, TRUE, session, "other", other)
================================================================================

------------------------------- MODULE OAuthPolicy -------------------------------
(***************************************************************************)
(* The decisions of the OAuth client that are made on text a peer sent:     *)
(* which URLs and addresses a metadata fetch may reach (src/src/auth/       *)
(* metadata_policy.cpp), what a WWW-Authenticate header and a redirect say  *)
(* (challenge.cpp), where a Location leads and which resource a server is   *)
(* (oauth.cpp).                                                             *)
(*                                                                          *)
(* A text is a sequence of tokens: a word, a digit or a delimiter.          *)
(***************************************************************************)
EXTENDS AddressPolicy, Integers, SequencesExt, FiniteSetsExt

CONSTANTS MaxPort, HttpsPort, HttpPort,  \* 65535 and the default ports
          MaxMessage                     \* max_length of a diagnostic

-----------------------------------------------------------------------------
(* Texts.                                                                  *)

Lower(token) == CASE token = "HTTPS" -> "https" [] token = "AS" -> "as" [] OTHER -> token
LowerText(text) == [k \in DOMAIN text |-> Lower(text[k])]
Digits == [t \in {"0", "1", "8"} |-> IF t = "0" THEN 0 ELSE IF t = "1" THEN 1 ELSE 8]
Delimiters == {":", "/", "?", "#", "[", "]", "@"}
PathStarts == {"/", "?", "#"}

Position(text, tokens) ==
    Min({k \in DOMAIN text : text[k] \in tokens} \cup {Len(text) + 1})
Before(text, tokens) == SubSeq(text, 1, Position(text, tokens) - 1)
After(text, tokens) == SubSeq(text, Position(text, tokens) + 1, Len(text))
Occurrences(text, token) == Cardinality({k \in DOMAIN text : text[k] = token})
From(text, k) == SubSeq(text, k, Len(text))

SchemeMark == <<":", "/", "/">>
MarkAt(text) ==
    Min({k \in 1..(Len(text) - 2) : SubSeq(text, k, k + 2) = SchemeMark} \cup {Len(text) + 1})

\* split_url(); an URL without a scheme or an authority has neither.
SplitUrl(url) ==
    IF MarkAt(url) \in 2..Len(url)
    THEN [scheme |-> SubSeq(url, 1, MarkAt(url) - 1),
          authority |-> Before(From(url, MarkAt(url) + 3), PathStarts)]
    ELSE [scheme |-> <<>>, authority |-> <<>>]
HasAuthority(url) == SplitUrl(url).authority # <<>>

\* metadata_url_origin()
OriginText(url) ==
    IF HasAuthority(url) THEN SplitUrl(url).scheme \o SchemeMark \o SplitUrl(url).authority
    ELSE <<>>

-----------------------------------------------------------------------------
(* Addresses.                                                              *)

\* The texts that are address literals, as their normal form, and its bytes.
Loopback6 == <<":", ":", "1">>
Literal(host) ==
    CASE host \in {<<"10.0.0.1">>, <<"1.1.1.1">>, <<"127.0.0.1">>} -> host
      [] host \in {Loopback6, <<"0", ":", ":", "1">>} -> Loopback6
      [] OTHER -> <<>>
BytesOf(literal) ==
    CASE literal = <<"10.0.0.1">> -> <<10, 0, 0, 1>>
      [] literal = <<"1.1.1.1">> -> <<1, 1, 1, 1>>
      [] literal = <<"127.0.0.1">> -> <<127, 0, 0, 1>>
      [] literal = Loopback6 -> Zeros(15) \o <<1>>

-----------------------------------------------------------------------------
(* Origins.                                                                *)

DefaultPort(scheme) ==
    IF scheme = <<"https">> THEN {HttpsPort} ELSE IF scheme = <<"http">> THEN {HttpPort} ELSE {}
NoPort == -1
BadPort == -2

Bracketed(authority) == authority[1] = "["
Closing(authority) == Position(authority, {"]"})

\* authority_host(); an authority without one has the empty host.
AuthorityHost(authority) ==
    IF Bracketed(authority)
    THEN IF Closing(authority) > Len(authority) THEN <<>>
         ELSE SubSeq(authority, 2, Closing(authority) - 1)
    ELSE IF Occurrences(authority, ":") > 1 THEN <<>>
    ELSE Before(authority, {":"})

ParsePort(text) ==
    LET value == FoldLeft(LAMBDA v, t : v * 10 + Digits[t], 0, text)
    IN  IF text = <<>> \/ ~ToSet(text) \subseteq DOMAIN Digits THEN BadPort
        ELSE IF value > MaxPort THEN BadPort ELSE value
PortOf(authority) ==
    LET tail == IF Bracketed(authority) THEN From(authority, Closing(authority) + 1)
                ELSE From(authority, Position(authority, {":"}))
    IN  IF tail = <<>> THEN NoPort
        ELSE IF tail[1] = ":" THEN ParsePort(Tail(tail)) ELSE NoPort

WithoutDots(host) ==
    LET named == {k \in DOMAIN host : host[k] # "."}
    IN  IF named = {} THEN <<>> ELSE SubSeq(host, 1, Max(named))

Nowhere == [scheme |-> <<>>, host |-> <<>>, port |-> BadPort, bracketed |-> FALSE]

\* canonicalize_origin_parts(); what is not a bare origin has none.
Canonical(origin) ==
    LET parts == SplitUrl(origin)
        host == AuthorityHost(parts.authority)
        name == IF Literal(host) # <<>> THEN Literal(host) ELSE WithoutDots(LowerText(host))
        port == PortOf(parts.authority)
        scheme == LowerText(parts.scheme)
    IN  IF OriginText(origin) # origin THEN Nowhere
        ELSE IF host = <<>> \/ name = <<>> \/ port = BadPort THEN Nowhere
        ELSE [scheme |-> scheme, host |-> name, bracketed |-> Bracketed(parts.authority),
              port |-> IF port \in DefaultPort(scheme) THEN NoPort ELSE port]

IsLoopbackHost(host) ==
    host = <<"localhost">>
    \/ (Literal(host) # <<>> /\ Classify(FALSE, BytesOf(Literal(host))) = "loopback")

\* Mutant: a deny entry that is no origin is skipped.
SkipsMalformed(entries) == FALSE
MalformedEntry(entries) == \E e \in ToSet(entries) : Canonical(e) = Nowhere
Lists(entries, origin) == \E e \in ToSet(entries) : Canonical(e) = origin

\* validate_metadata_url() with a policy's lists, opt-out and callback.
ValidateUrl(policy, url) ==
    LET authority == SplitUrl(url).authority
        origin == Canonical(OriginText(url))
        literal == Literal(AuthorityHost(authority))
        secure == \/ origin.scheme = <<"https">>
                  \/ policy.optOut /\ origin.scheme = <<"http">> /\ IsLoopbackHost(origin.host)
    IN  IF authority = <<>> THEN "malformed"
        ELSE IF "@" \in ToSet(authority) \/ origin = Nowhere THEN "malformed"
        ELSE IF MalformedEntry(policy.denied) THEN "deny entry malformed"
        ELSE IF Lists(policy.denied, origin) THEN "denied"
        ELSE IF ~Lists(policy.allowed, origin) /\ origin \notin policy.callback THEN "not allowed"
        ELSE IF ~secure THEN "scheme"
        ELSE IF literal # <<>> THEN Classify(policy.optOut, BytesOf(literal))
        ELSE "allowed"

-----------------------------------------------------------------------------
(* The HTTP client's own reading of an URL, and of a redirect.             *)

Unparsed == [scheme |-> <<>>]

\* parse_url(): what the client looks up, connects to and asks for.
ParseUrl(url) ==
    LET scheme == SubSeq(url, 1, MarkAt(url) - 1)
        rest == From(url, MarkAt(url) + 3)
        authority == Before(rest, PathStarts)
        path == Before(From(rest, Len(authority) + 1), {"#"})
        literal == authority # <<>> /\ Bracketed(authority)
        tail == From(authority, (IF literal THEN Closing(authority) + 1
                                 ELSE Position(authority, {":"})))
    IN  IF scheme \notin {<<"http">>, <<"https">>} THEN Unparsed
        ELSE IF literal /\ (Closing(authority) > Len(authority) \/ (tail # <<>> /\ tail[1] # ":"))
        THEN Unparsed
        ELSE [scheme |-> scheme,
              host |-> IF literal THEN SubSeq(authority, 2, Closing(authority) - 1)
                       ELSE Before(authority, {":"}),
              port |-> IF tail = <<>> THEN DefaultPort(scheme) ELSE {ParsePort(Tail(tail))},
              path |-> IF path = <<>> \/ path[1] # "/" THEN <<"/">> \o path ELSE path]

\* Mutant: "://" further on makes a reference absolute.
MarkAnywhere(reference) == MarkAt(reference) <= Len(reference)

\* has_uri_scheme()
HasUriScheme(reference) ==
    LET colon == Position(reference, {":", "/", "?", "#"})
    IN  /\ colon \in 2..Len(reference) /\ reference[colon] = ":"
        /\ reference[1] \notin DOMAIN Digits \cup {".", "@", "[", "]"}
        /\ ~\E k \in 1..(colon - 1) : reference[k] \in {"@", "[", "]"}

ResolveRedirect(base, location) ==
    LET origin == OriginText(base)
        directory == Before(base, {"?", "#"})
        slash == Max({0} \cup {k \in DOMAIN directory : directory[k] = "/"})
    IN  IF HasUriScheme(location) \/ origin = <<>> THEN location
        ELSE IF location # <<>> /\ location[1] = "/" THEN origin \o location
        ELSE IF slash <= Len(origin) THEN origin \o <<"/">> \o location
        ELSE SubSeq(directory, 1, slash) \o location

\* Mutant: a path is a prefix of another wherever it ends.
PrefixOfText(resource, server) == IsPrefix(resource, server)
PathPrefix(resource, server) ==
    \/ server = resource
    \/ /\ IsStrictPrefix(resource, server)
       /\ server[Len(resource) + 1] = "/"

\* resource_identifies_server()
ResourceIdentifies(resource, server) ==
    LET path == From(resource, Len(OriginText(resource)) + 1)
        trimmed == IF Last(path) = "/" THEN Front(path) ELSE path
    IN  \/ resource = server
        \/ /\ ~\E t \in ToSet(resource) : t \in {"?", "#"}
           /\ HasAuthority(resource) /\ OriginText(resource) = OriginText(server)
           /\ \/ path \in {<<>>, <<"/">>}
              \/ PathPrefix(trimmed, From(server, Len(OriginText(server)) + 1))

-----------------------------------------------------------------------------
(* WWW-Authenticate.  A quoted string is one token; "open" is one that      *)
(* never ends, "junk" a character no token has.                             *)

Words == {"Bearer", "BEARER", "Basic", "realm", "scope", "SCOPE", "error", "resource_metadata", "v"}
Unquoted(token) == IF token = "'v'" THEN "v" ELSE token
LowerName(name) == CASE name = "SCOPE" -> "scope" [] name \in {"Bearer", "BEARER"} -> "bearer"
                     [] OTHER -> name
RECURSIVE Skip(_, _, _)
Skip(text, i, tokens) ==
    IF i <= Len(text) /\ text[i] \in tokens THEN Skip(text, i + 1, tokens) ELSE i
At(text, i) == IF i <= Len(text) THEN text[i] ELSE "end"
Separators == {" ", ","}

Parameter(name, value) == <<LowerName(name), value>>
AddParameter(challenges, name, value) ==
    IF challenges = <<>> THEN <<>>
    ELSE [challenges EXCEPT ![Len(challenges)].parameters = Append(@, Parameter(name, value))]

\* Mutant: the padding of token68 credentials is read as an empty parameter.
NoPadding(text, equals) == equals + 1
\* The position after the equals signs of a padding.
AfterPadding(text, equals) == Skip(text, equals + 1, {"="})

\* parse_www_authenticate() from position i.
RECURSIVE ParseChallenges(_, _, _)
ParseChallenges(text, i, challenges) ==
    LET equals == Skip(text, i + 1, {" "})
        end == Skip(text, AfterPadding(text, equals), {" "})
        at == Skip(text, equals + 1, {" "})
        value == At(text, at)
    IN  IF At(text, i) \notin Words THEN challenges
        ELSE IF At(text, equals) # "="
        THEN ParseChallenges(text, Skip(text, i + 1, Separators),
                             Append(challenges, [scheme |-> text[i], parameters |-> <<>>]))
        ELSE IF At(text, end) \in {"end", ","}
        THEN ParseChallenges(text, Skip(text, end, Separators), challenges)
        ELSE IF value = "open" THEN challenges
        ELSE IF value \in Words \cup {"'v'"}
        THEN ParseChallenges(text, Skip(text, at + 1, Separators),
                             AddParameter(challenges, text[i], Unquoted(value)))
        ELSE AddParameter(challenges, text[i], "")
ParseHeader(text) == ParseChallenges(text, Skip(text, 1, Separators), <<>>)

\* Mutant: the last occurrence of a repeated name counts.
LastValue(fields, name) ==
    Last(SelectSeq(fields, LAMBDA f : f[1] = name))[2]
FirstValue(fields, name) ==
    SelectSeq(fields, LAMBDA f : f[1] = name)[1][2]
HasField(fields, name) == \E f \in ToSet(fields) : f[1] = name

\* select_bearer_challenge()
BearerChallenges(challenges) ==
    SelectSeq(challenges, LAMBDA c : LowerName(c.scheme) = "bearer")

-----------------------------------------------------------------------------
(* The authorization response.  A field of the redirect is a name as it is  *)
(* spelled and a value, or a name alone.                                    *)

\* form_decode() and lower case.
Decoded(name) == CASE name \in {"ISS", "%69ss"} -> "iss" [] OTHER -> name

\* parse_authorization_response()
ParseResponse(fields) ==
    LET named == SelectSeq(fields, LAMBDA f : Len(f) = 2)
    IN  [k \in DOMAIN named |-> <<Decoded(named[k][1]), named[k][2]>>]

\* Mutant: an issuer that is there is not compared.
AnyIssuer(request, response) == HasField(response, "iss") \/ ~request.issSupported
IssuerAuthentic(request, response) ==
    IF HasField(response, "iss") THEN FirstValue(response, "iss") = request.issuer
    ELSE ~request.issSupported

\* validate_authorization_response()
ValidateResponse(request, response) ==
    IF request.state # "" /\ ~HasField(response, "state") THEN "state missing"
    ELSE IF request.state # "" /\ FirstValue(response, "state") # request.state
    THEN "state mismatch"
    ELSE IF ~IssuerAuthentic(request, response) THEN "issuer"
    ELSE IF HasField(response, "error") THEN "server error"
    ELSE IF ~HasField(response, "code") THEN "code missing"
    ELSE IF FirstValue(response, "code") = "" THEN "code missing" ELSE "accepted"

-----------------------------------------------------------------------------
(* Diagnostics, random text and base64.                                    *)

\* sanitize_for_diagnostics(): characters with a width and a kind, "ill" for
\* a byte that begins none; the three dots of a cut are one element.
Shown(c) == IF c.kind = "plain" THEN c ELSE [width |-> 1, kind |-> "plain"]
\* Mutant: the last character may be cut in two.
FitsInPart(cleaned, c) == cleaned < MaxMessage
FitsWhole(cleaned, c) == cleaned + c.width <= MaxMessage
Width8(text) == FoldLeft(LAMBDA sum, c : sum + c.width, 0, text)
Dots == [width |-> 3, kind |-> "plain"]
RECURSIVE Sanitize(_, _)
Sanitize(text, cleaned) ==
    IF text = <<>> THEN cleaned
    ELSE IF ~FitsWhole(Width8(cleaned), Head(text)) THEN Append(cleaned, Dots)
    ELSE Sanitize(Tail(text), Append(cleaned, Shown(Head(text))))

\* base64_encode() as numbers of the alphabet; 64 is the padding.
Base64Group(b) ==
    LET padded == b \o Zeros(3 - Len(b))
        value == padded[1] * 65536 + padded[2] * 256 + padded[3]
    IN  <<value \div 262144, (value \div 4096) % 64,
          IF Len(b) > 1 THEN (value \div 64) % 64 ELSE 64,
          IF Len(b) > 2 THEN value % 64 ELSE 64>>
RECURSIVE Base64(_)
Base64(bytes) ==
    IF bytes = <<>> THEN <<>>
    ELSE Base64Group(SubSeq(bytes, 1, Min({3, Len(bytes)}))) \o Base64(SubSeq(bytes, 4, Len(bytes)))

\* Mutant: every random byte is used.
EveryByte(charset) == 256
\* generate_random_string(): the bytes that are used.
BiasLimit(charset) == (256 \div charset) * charset
CharsFrom(charset, i) == {b \in 0..255 : b < BiasLimit(charset) /\ b % charset = i}
-----------------------------------------------------------------------------
(* What it promises.                                                       *)

\* Where the client would go for an URL, however it is spelled.
Endpoint(url) ==
    LET target == ParseUrl(LowerText(url))
    IN  [scheme |-> target.scheme, port |-> target.port,
         bracketed |-> Bracketed(SplitUrl(url).authority),
         host |-> IF Literal(target.host) # <<>> THEN Literal(target.host)
                  ELSE WithoutDots(target.host)]
Reachable(url) == HasAuthority(url) /\ ParseUrl(LowerText(url)) # Unparsed
IsOrigin(entry) == Reachable(entry) /\ OriginText(entry) = entry
SameEndpoint(entries, url) ==
    LET endpoint == Endpoint(url)
    IN  \E e \in ToSet(entries) : IsOrigin(e) /\ Endpoint(e) = endpoint
EntryUnderstood(entry) == IsOrigin(entry) /\ Canonical(entry) # Nowhere

\* An URL is fetched only from an endpoint that an allowed origin names and
\* no denied one does, over https or on this host, at a routable address; and
\* an origin decides the same for every spelling of its endpoint.
RightlyDecided(policy, url, decision, denied, allowed) ==
    /\ decision = "allowed" =>
          /\ allowed /\ ~denied
          /\ \A e \in ToSet(policy.denied) : EntryUnderstood(e)
          /\ Endpoint(url).scheme = <<"https">> \/ policy.optOut
          /\ LET literal == Literal(ParseUrl(LowerText(url)).host)
             IN  literal # <<>> => Classify(policy.optOut, BytesOf(literal)) = "allowed"
    /\ decision \notin {"malformed", "deny entry malformed"} /\ denied => decision = "denied"
    /\ decision \notin {"malformed", "deny entry malformed", "denied"} /\ allowed =>
          decision # "not allowed"
FetchesOnlyTheAllowed(policy, url) ==
    Reachable(url) =>
        RightlyDecided(policy, url, ValidateUrl(policy, url),
                       SameEndpoint(policy.denied, url), SameEndpoint(policy.allowed, url))

\* A relative Location stays on the origin it came from; an absolute one is
\* taken as it is, to be validated like the first URL.
RedirectsStayOrAreAbsolute(base, location) ==
    LET target == ResolveRedirect(base, location)
        first == Position(location, Delimiters)
        absolute == first \in 2..Len(location) /\ location[first] = ":"
                    /\ location[1] \notin DOMAIN Digits \cup {"."}
    IN  IF absolute THEN target = location
        ELSE OriginText(target) = OriginText(base) /\ IsSuffix(location, target)

\* A resource identifies a server by its origin and whole segments of a path.
RECURSIVE Segments(_)
Segments(path) ==
    IF path = <<>> THEN <<>>
    ELSE <<Before(Tail(path), {"/"})>> \o Segments(From(path, Position(Tail(path), {"/"}) + 1))
PathAfter(url) == From(url, Len(OriginText(url)) + 1)
IdentifiesBySegments(resource, server) ==
    LET segments == Segments(PathAfter(resource))
        named == IF segments # <<>> /\ Last(segments) = <<>> THEN Front(segments) ELSE segments
        bare == \A t \in ToSet(resource) : t \notin {"?", "#"}
    IN  ResourceIdentifies(resource, server) =
            \/ resource = server
            \/ bare /\ OriginText(resource) = OriginText(server)
                    /\ IsPrefix(named, Segments(PathAfter(server)))

\* A header of schemes and their parameters is read back as they were
\* written, up to what no reader can understand.
Scheme(name) == [op |-> "scheme", text |-> <<name, " ">>, name |-> name]
Param(name, value, spaces) ==
    [op |-> "parameter", text |-> <<name>> \o spaces \o <<"=">> \o spaces \o <<value, ",", " ">>,
     name |-> name, value |-> value]
Token68(name, padding) == [op |-> "token68", text |-> <<name>> \o padding \o <<" ", ",">>]
Garbage(token) == [op |-> "garbage", text |-> <<"realm", "=", token>>]
ReadsWhatWasWritten(elements) ==
    LET text == FlattenSeq([k \in DOMAIN elements |-> elements[k].text])
        ops == [k \in DOMAIN elements |-> elements[k].op]
        readable == SubSeq(elements, 1, Position(ops, {"garbage"}) - 1)
        schemes == {k \in DOMAIN readable : readable[k].op = "scheme"}
        Following(k) == {j \in DOMAIN readable : j > k /\ ~\E s \in schemes : s \in (k + 1)..j}
        parsed == ParseHeader(text)
        Values(c, name) == SelectSeq(c.parameters, LAMBDA p : p[1] = name)
    IN  /\ Len(parsed) = Cardinality(schemes)
        /\ \A k \in schemes :
              LET c == parsed[Cardinality(schemes \cap 1..k)]
                  mine == {j \in Following(k) : readable[j].op = "parameter"}
              IN  /\ c.scheme = readable[k].name
                  /\ \A j \in mine :
                        LET name == LowerName(readable[j].name)
                        IN  HasField(c.parameters, name)
                            /\ (\A i \in mine : i < j => LowerName(readable[i].name) # name)
                                 => FirstValue(c.parameters, name) = Unquoted(readable[j].value)

\* A response is believed, in its error as in its code, only if it carries the
\* state of the request and names the issuer, or none where none is due.
Believable(request, fields) ==
    LET Values(name) == {f[2] : f \in {g \in ToSet(fields) : Len(g) = 2 /\ Decoded(g[1]) = name}}
    IN  /\ request.state = "" \/ request.state \in Values("state")
        /\ request.issuer \in Values("iss") \/ (Values("iss") = {} /\ ~request.issSupported)
BelievesTheAuthentic(request, fields) ==
    LET verdict == ValidateResponse(request, ParseResponse(fields))
    IN  /\ verdict \in {"accepted", "server error", "code missing"} => Believable(request, fields)
        /\ verdict = "accepted" => ~\E f \in ToSet(fields) : f[1] = "error" /\ Len(f) = 2
        /\ verdict \notin {"accepted", "server error", "code missing"}
              => \/ ~Believable(request, fields)
                 \/ \E i, j \in DOMAIN fields :          \* a second value does not count
                       i < j /\ Decoded(fields[i][1]) = Decoded(fields[j][1])

\* A diagnostic is bounded and shows no character that could forge a line.
DiagnosticsAreHarmless(text) ==
    LET shown == Sanitize(text, <<>>)
    IN  /\ \A c \in ToSet(shown) : c.kind = "plain"
        /\ Width8(shown) <= MaxMessage + 3
        /\ Width8(text) <= MaxMessage => Len(shown) = Len(text)
        /\ \A k \in DOMAIN text : k < Len(shown) /\ text[k].kind = "plain" => shown[k] = text[k]

\* What is encoded is what was there, in groups of four.
EncodesItsBytes(bytes) ==
    LET code == Base64(bytes)
        bits == FoldLeft(LAMBDA v, d : v * 64 + d, 0, SelectSeq(code, LAMBDA d : d < 64))
        Number(b) == FoldLeft(LAMBDA v, d : v * 256 + d, 0, b)
        extra == CASE Len(bytes) % 3 = 0 -> 1 [] Len(bytes) % 3 = 1 -> 16 [] OTHER -> 4
    IN  /\ Len(code) % 4 = 0 /\ Cardinality({k \in DOMAIN code : code[k] = 64}) \in 0..2
        /\ Len(bytes) <= 3 => bits = Number(bytes) * extra

\* Every character of a random text is as likely as every other.
Unbiased(charset) ==
    \A i, j \in 0..(charset - 1) :
        CharsFrom(charset, i) # {} /\ Cardinality(CharsFrom(charset, i)) = Cardinality(CharsFrom(charset, j))
=============================================================================

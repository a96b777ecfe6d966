------------------------------ MODULE MCFunctions ------------------------------
EXTENDS Regex, JsonSchema, HttpGate, PeerJson, ServerRequests, Paging

VARIABLES topic, trial

Char(c) == [op |-> "char", c |-> c]
Token(op) == [op |-> op]
Braces(min, max) == [op |-> "{", min |-> min, max |-> max]
Class(negated, body) == [op |-> "set", ranges |-> ParseClass(negated, body).ranges]

Grouping == {Char(2), Token("("), Token(")"), Token("|"), Token("*")}
Asserting == {Char(2), Token("any"), Token("^"), Token("$"), Token("b"), Token("B"),
              Token("*"), Token("("), Token(")")}
Repeating == {Char(2), Class(TRUE, <<Char(0), Token("-"), Char(2)>>), Token("?"), Token("+"),
              Braces(0, 2), Braces(2, 2), Braces(2, 1), Braces(1, Unbounded),
              Token("("), Token(")")}
Members == {Char(c) : c \in Codes} \cup {Token("-"), Class(FALSE, <<Char(0), Char(2)>>)}
Bytes == {127, 128, 143, 144, 159, 160, 191, 193, 194, 223, 224, 237, 240, 244, 247, 255}

Ints == {Signed(n) : n \in -4..3} \cup {Unsigned(n) : n \in 0..7}
Floats == {Float(h) : h \in {-18, -9, -8, -7, -1, 0, 1, 2, 5, 6, 7, 8, 13, 14, 15, 16, 17, 40}}

Keyword(name, argument) == [name |-> name, argument |-> argument]
Limit == [minLength |-> Unsigned(2)]
Pattern(compiles, language) == [compiles |-> compiles, language |-> language, cost |-> 2]
Keywords == <<
    Keyword("reject_all", TRUE),
    Keyword("type", {"integer"}), Keyword("type", {"string", "null"}), Keyword("type", {"object"}),
    Keyword("enum", {Unsigned(3), Float(-1), String(<<1>>)}),
    Keyword("const", Float(-2)), Keyword("const", Array(<<Float(2)>>)),
    Keyword("minimum", Float(-1)), Keyword("minimum", Signed(-1)),
    Keyword("maximum", Float(7)), Keyword("exclusiveMinimum", Float(-2)), Keyword("exclusiveMaximum", Unsigned(7)),
    Keyword("minLength", Float(4)), Keyword("maxLength", Signed(2)), Keyword("minLength", Float(-2)),
    Keyword("pattern", Pattern(TRUE, {<<1>>, <<2, 1>>})), Keyword("pattern", Pattern(FALSE, {})),
    Keyword("items", Limit), Keyword("items", [type |-> {"null"}]), Keyword("items", [not |-> Limit]),
    Keyword("items", [pattern |-> Pattern(TRUE, {<<1>>})]),
    Keyword("minItems", Float(2)), Keyword("maxItems", Unsigned(1)), Keyword("maxProperties", Signed(1)),
    Keyword("properties", [a |-> Limit]), Keyword("properties", [a |-> AnySchema, b |-> [type |-> {"integer"}]]),
    Keyword("required", {"a", "b"}), Keyword("minProperties", Unsigned(2)),
    Keyword("additionalProperties", [reject_all |-> TRUE]), Keyword("additionalProperties", Limit),
    Keyword("not", [type |-> {"integer"}]), Keyword("$ref", "elsewhere"),
    Keyword("$schema", "2020-12"), Keyword("$schema", "2019-09"), Keyword("title", "x")>>
SchemaOf(indices) ==
    [name \in {Keywords[k].name : k \in ToSet(indices)} |->
        Keywords[CHOOSE k \in ToSet(indices) : Keywords[k].name = name].argument]

Strings == {String(<<>>), String(<<1>>), String(<<2, 1>>), String(<<1, 1, 2>>)}
Scalars == {Null, Boolean(TRUE), Signed(-1), Unsigned(3), Unsigned(7), Float(-2), Float(-1), Float(NonFinite)} \cup Strings
Values == Scalars
    \cup {Array(s) : s \in SeqOf({Null, String(<<1>>), Float(2), Unsigned(1)}, 2)}
    \cup {Array(<<Float(NonFinite)>>), Array(<<Array(<<Null>>)>>), Array(<<Array(<<Array(<<>>)>>)>>)}
    \cup UNION {{Object(m) : m \in [names -> {Null, Unsigned(1), String(<<1>>), String(<<1, 2>>), Float(NonFinite)}]} :
                 names \in SUBSET {"a", "b"}}

Https == <<"https", ":", "/", "/">>
UrlStarts == {Https, <<"HTTPS", ":", "/", "/">>, <<"http", ":", "/", "/">>}
LoopbackUrl == <<"http", ":", "/", "/", "[", ":", ":", "1", "]">>
Policy(denied, allowed, optOut) ==
    [denied |-> denied, allowed |-> allowed, optOut |-> optOut, callback |-> {}]
Origins == <<Https \o <<"as">>, Https \o <<"AS", ".", ":", "0", "1">>, Https \o <<"10.0.0.1">>,
             Https \o <<"1.1.1.1", ":", "1", "1">>, LoopbackUrl, LoopbackUrl \o <<":", "1">>,
             <<"http", ":", "/", "/", "127.0.0.1">>>>
Policies ==
    {Policy(<<>>, Origins, TRUE), Policy(<<>>, Origins, FALSE),
     Policy(<<Https \o <<"as", ".", ".">>, LoopbackUrl>>, Origins, TRUE),
     Policy(<<Origins[1], Https \o <<"as", "/", "as">>>>, Origins, TRUE),
     [Policy(<<Origins[2]>>, <<>>, FALSE) EXCEPT !.callback = {Canonical(Origins[1]), Canonical(Origins[2])}]}
Bases == {Https \o <<"as">>, Https \o <<"as", "/", "1", "/", "as", "?", "/">>}
Servers == {Https \o path : path \in {<<"as">>, <<"as", "/", "as">>, <<"as", "/", "as", "/", "1">>,
                                       <<"as", "/", "as", "1">>, <<"as", "/", "as", "?", "1">>}}

Octets == <<
    {0, 1, 9, 10, 11, 99, 100, 101, 126, 127, 128, 168, 169, 170, 171, 172, 173, 191, 192, 193,
     197, 198, 199, 202, 203, 204, 223, 224, 239, 240, 255},
    {0, 1, 15, 16, 17, 18, 19, 20, 31, 32, 50, 51, 52, 63, 64, 127, 128, 167, 168, 169, 253, 254, 255},
    {0, 1, 2, 3, 99, 100, 101, 112, 113, 114, 255}, {0, 1, 255}>>
Heads == <<{0, 1, 32, 33, 100, 127, 251, 252, 253, 254, 255}, {0, 2, 127, 128, 191, 192, 255}, {0, 1, 2}>>

Elements == {Scheme("Bearer"), Scheme("Basic"), Param("scope", "v", <<>>), Param("SCOPE", "Basic", <<" ">>),
             Param("realm", "'v'", <<>>), Token68("v", <<"=">>), Token68("v", <<" ", "=", "=">>),
             Garbage("junk"), Garbage("open")}
Fields == {<<"state", "s">>, <<"state", "t">>, <<"iss", "as">>, <<"ISS", "evil">>, <<"%69ss", "as">>,
           <<"code", "c">>, <<"code", "">>, <<"code">>, <<"error", "denied">>}
Requests == [state : {"", "s"}, issuer : {"as"}, issSupported : BOOLEAN]
Glyphs == [width : 1..3, kind : {"plain"}] \cup {[width |-> 3, kind |-> "breaks"],
           [width |-> 2, kind |-> "reorders"], [width |-> 1, kind |-> "ill"]}

Types == Structures \o Documents
MemberOf(i) == DOMAIN Types[i].members
Strange == {"error", "result", "text", "id"}
Changes == {"dropped", "nulled", "swapped"}
Swapped(json) ==
    CASE json.kind = "string" -> JsonNumber(4)
      [] json.kind = "number" -> JsonNumber(13)
      [] OTHER -> JsonString("zz")
Changed(json, change) ==
    LET key == change[1]
    IN  CASE change[2] = "dropped" -> Without(json, key)
          [] change[2] = "nulled" -> With(json, key, JsonNull)
          [] change[2] = "swapped" ->
                With(json, key, IF HasMember(json, key) THEN Swapped(json.members[key]) ELSE JsonString("zz"))
\* trial[1] is the type, the rest what was done to its complete document.
Sent == FoldLeft(Changed, Complete(Types[trial[1]]), Tail(trial))
ChangedKeys == {trial[n][1] : n \in 2..Len(trial)}
Ids == {JsonString("1"), JsonNumber(2), JsonNumber(-2), JsonString("")}
Results == {MakeToolTextResult("t"), MakeToolErrorResult("t")}
    \cup {MakeToolStructuredResult(v, "t") : v \in {JsonNull, JsonArray(<<>>), JsonMembers("k" :> JsonNull)}}

Pieces == {UriLiteral(c) : c \in {"a", ".", "?"}} \cup {UriExpression(op) : op \in UriOperators \ {"&"}}
Uris == SeqOf({"a", "/", "?", "#", ".", ";"}, 3)

Tools == [validated : BOOLEAN, validateArguments : BOOLEAN, validateStructured : BOOLEAN, output : {"", "k"}]
OtherValues == {JsonNull, JsonString("t"), JsonArray(<<>>), JsonMembers(None), JsonMembers("k" :> JsonNull)}
Calls(values) ==
    [middleware : {"passes", "rejects", "throws"}, conforms : BOOLEAN, value : values \cup {Refused}]

Document(resource, path) == [resource |-> resource, path |-> path]
Published == {Document(<<"v">>, Derived), Document(Https \o <<"as">>, Derived), Document(Https \o <<"as">>, <<"v">>),
               Document(Https \o <<"as", "/", "v", "/", "?", "v">>, Derived), Document(Https \o <<"as">>, <<"/", "v">>),
               Document(Https \o <<"as">>, <<"/", "v", "?", "v">>), Document(Https \o <<"as">>, <<"/", ".">>)}
Settings ==
    [set : {"validator", "asyncValidator", "anyOrigin"}, on : BOOLEAN]
    \cup [set : {"challenge"}, own : {<<>>, <<"own">>, <<"control">>}]
    \cup [set : {"metadata"}, to : Published]
    \cup [set : {"origins"}, allow : {{}, {"as"}}] \cup [set : {"exempt"}, paths : {{}, {<<"/", "v">>}}]
Authorizations == {<<>>, <<"Basic", " ", "good">>, <<"BEARER", " ", "good">>}
    \cup {<<"Bearer", " ", token>> : token \in {"bad", "odd"}}
GatedRequests ==
    [method : {"POST", "GET", "PUT"}, origin : {"none", "as", "evil"},
     target : {<<"/">>, <<"/", "v">>, <<"/", "v", "?", "v">>}, authorization : Authorizations]

Alphabet ==
    [grouping |-> Grouping, asserting |-> Asserting, repeating |-> Repeating,
     members |-> Members, bytes |-> Bytes,
     numbers |-> Ints \cup Floats, schema |-> DOMAIN Keywords,
     urls |-> {"as", "AS", ".", ":", "1", "0", "/", "@", "10.0.0.1", "1.1.1.1"},
     brackets |-> {"[", "]", ":", "1", "0", "/"},
     references |-> {"as", "1", ":", "/", "?", "."},
     octets |-> UNION Range(Octets), heads |-> UNION Range(Heads),
     header |-> Elements, response |-> Fields, diagnostic |-> Glyphs,
     encoded |-> {0, 3, 63, 64, 170, 255},
     stream |-> {"data:", "id:", "LF", "CR", " ", "v"},
     quoted |-> {"quote", "backslash", "control", " ", "v"}, settings |-> Settings,
     envelope |-> StringTokens \cup Marks, template |-> Pieces, pages |-> 0..5,
     messages |-> (UNION {MemberOf(i) : i \in DOMAIN Types} \cup Strange) \X Changes]
MaxLength ==
    [grouping |-> 6, asserting |-> 4, repeating |-> 4, members |-> 4, bytes |-> 4,
     numbers |-> 2, schema |-> 3, urls |-> 4, brackets |-> 6, references |-> 5, octets |-> 4,
     heads |-> 3, header |-> 4, response |-> 4, diagnostic |-> 4, encoded |-> 3, envelope |-> 8,
     stream |-> 5, quoted |-> 4, settings |-> 3,
     template |-> 3, pages |-> 2, messages |-> 3]

Inputs == SeqOf({0, 1, 2}, 3)

Init == /\ topic \in DOMAIN Alphabet
        /\ trial \in IF topic = "messages" THEN {<<i>> : i \in DOMAIN Types} ELSE {<<>>}
Grow == /\ Len(trial) < MaxLength[topic]
        /\ \E x \in Alphabet[topic] :
              /\ topic = "schema" => \A k \in ToSet(trial) : k < x /\ Keywords[k].name # Keywords[x].name
              /\ topic = "brackets" /\ trial = <<>> => x = "["
              /\ topic = "octets" => x \in Octets[Len(trial) + 1]
              /\ topic = "heads" => x \in Heads[Len(trial) + 1]
              /\ topic = "envelope" =>
                    /\ x = " " => x \notin ToSet(trial)
                    /\ ParsedText(Append(trial, x)) # Malformed
              /\ topic = "messages" =>
                    /\ x[1] \in Strange \cup MemberOf(trial[1])
                    /\ x[1] \notin ChangedKeys
                    /\ x[2] = "dropped" => HasMember(Sent, x[1])
              /\ trial' = Append(trial, x)
        /\ UNCHANGED topic
Next == Grow
Spec == Init /\ [][Next]_<<topic, trial>>

PatternsMatchTheirLanguage ==
    /\ topic \in {"grouping", "asserting", "repeating"} => PatternIsItsLanguage(trial, Inputs)
    /\ topic = "members" => ClassIsItsSet(trial)
    /\ topic = "template" => TemplateIsItsLanguage(trial, Uris) /\ AdjacentDecidable(trial, Uris)
    /\ topic = "bytes" => DecodesWellFormed(trial)

SchemasMeanTheirKeywords ==
    /\ topic = "schema" => LET schema == SchemaOf(trial)
                           IN  \A v \in Values : ValidatesExactly(schema, v)
    /\ topic = "numbers" /\ Len(trial) = 2 => NumbersInOrder(trial[1], trial[2])

PoliciesHold ==
    /\ topic \in {"urls", "brackets"} =>
          \A start \in UrlStarts :
              LET url == start \o trial
              IN  \A policy \in Policies : FetchesOnlyTheAllowed(policy, url)
    /\ topic = "octets" /\ Len(trial) = 4 => AddressesClassified(trial)
    /\ topic = "heads" /\ Len(trial) = 3 => PrefixesClassified(trial)
    /\ topic = "references" =>
          /\ \A base \in Bases : \A head \in {<<>>} \cup UrlStarts :
                RedirectsStayOrAreAbsolute(base, head \o trial)
          /\ \A server \in Servers : IdentifiesBySegments(Https \o trial, server)
          /\ MetadataIsFound(Https \o trial)
    /\ topic = "quoted" => QuotedIsRead(trial) /\ (trial = <<>> => ChallengesAreRead)
    /\ topic = "settings" =>
          /\ SettingsInAnyOrder(trial)
          /\ LET settings == SettingsAfter(trial)
             IN  \A request \in GatedRequests : RequestsGated(settings, request)
          /\ trial = <<>> => \A requested \in Discoverable : VersionsAgree(requested)
    /\ topic = "header" => ReadsWhatWasWritten(trial)
    /\ topic = "response" => \A request \in Requests : BelievesTheAuthentic(request, trial)
    /\ topic = "diagnostic" => DiagnosticsAreHarmless(trial)
    /\ topic = "encoded" => EncodesItsBytes(trial) /\ (trial = <<>> => Unbiased(66))

MessagesSurvive ==
    /\ topic = "envelope" => RoutesAsParsed(trial) /\ DepthIsNesting(trial)
    /\ topic = "stream" => EventsReadAsWritten(trial) /\ BlocksKeptApart(trial)
    /\ topic = "pages" /\ Len(trial) = 2 => PagesCoverTheList(trial[1], trial[2])
    /\ topic = "messages" =>
        LET struct == Types[trial[1]]
            sent == Sent
            intact == DOMAIN sent.members \ ChangedKeys
        IN  /\ SameWhenReadAgain(struct, sent)
            /\ NothingIsLost(struct, sent, intact)
            /\ OthersIgnored(struct, sent)
            /\ NullErrorIsNoError(sent)
            /\ struct \in Range(JSONRPCMessage.alternatives) => RoutedAsMeant(sent) /\ NullsRouteAlike(sent)
            /\ struct = CallToolResult =>
                  \A tool \in Tools : \A call \in Calls({sent} \cup OtherValues) : ToolAnswersKept(tool, call)
            /\ ({"type", "mode"} \cap DOMAIN struct.members) \subseteq intact =>
                  \A variant \in Variants : \A kind \in DOMAIN variant.alternatives :
                      variant.alternatives[kind] = struct => KindSurvives(variant, kind, sent)
            /\ Len(trial) = 1 => /\ \A key \in DOMAIN struct.members : NullSaysNothing(struct, sent, key)
                                /\ \A result \in Results : ResultsSurvive(result)
                                /\ \A a, b \in Ids : IdsApart(a, b)
================================================================================

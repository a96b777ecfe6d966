----------------------------- MODULE ServerRequests -----------------------------
(***************************************************************************)
(* What mcp::Server makes of one message and of one tool result, whatever    *)
(* else is going on (src/src/server/server.cpp): the routing of a message    *)
(* by its envelope, the way of a tool call from the middleware to the        *)
(* result on the wire, and the template a URI is matched with.               *)
(***************************************************************************)
EXTENDS ProtocolMessages

-----------------------------------------------------------------------------
(* Envelopes: the keys JSON-RPC gives a meaning. *)

KindAt(message, key) == IF HasMember(message, key) THEN message.members[key].kind ELSE "absent"
IsVersion2(message) == TextAt(message, "jsonrpc") = "2.0"

\* A string or an integer.
HasValidRequestId(message) ==
    \/ KindAt(message, "id") = "string"
    \/ KindAt(message, "id") = "number" /\ message.members["id"].halves % 2 = 0

\* Mutant: a null error is an error.
ErrorByPresence(message) == HasMember(message, "error")
HasErrorMember(message) == HasJsonValue(message, "error")

\* validate_request_envelope has nothing to say.
IsRequestEnvelope(message) ==
    /\ message.kind = "object" /\ IsVersion2(message)
    /\ HasValidRequestId(message)
    /\ KindAt(message, "method") = "string"
    /\ ~HasMember(message, "result") /\ ~HasErrorMember(message)
    /\ KindAt(message, "params") \in {"absent", "object"}

IsNotificationEnvelope(message) ==
    /\ message.kind = "object" /\ IsVersion2(message)
    /\ ~HasMember(message, "id")
    /\ KindAt(message, "method") = "string"
    /\ ~HasMember(message, "result") /\ ~HasErrorMember(message)
    /\ KindAt(message, "params") \in {"absent", "null", "object"}

IsResponseEnvelope(message) ==
    /\ message.kind = "object" /\ IsVersion2(message)
    /\ HasValidRequestId(message)
    /\ ~HasMember(message, "method")
    /\ HasMember(message, "result") # HasErrorMember(message)
    /\ HasErrorMember(message) => Read(Error, message.members["error"]) # Refused

\* dispatch_on_strand and what it calls: a request that is not well formed is
\* answered with an error, everything else that is not well formed is dropped.
Route(message) ==
    IF IsNotificationEnvelope(message) THEN "notification"
    ELSE IF HasMember(message, "method") /\ ~HasMember(message, "id") THEN "dropped"
    ELSE IF ~HasMember(message, "method") /\ (HasMember(message, "result") \/ HasErrorMember(message))
    THEN IF IsResponseEnvelope(message) THEN "response" ELSE "dropped"
    ELSE IF IsRequestEnvelope(message) THEN "request" ELSE "refused"

-----------------------------------------------------------------------------
(* Tool results. *)

\* validate_call_tool_result does not throw.
IsCallToolResult(json) ==
    /\ json.kind = "object" /\ HasMember(json, "content")
    /\ KindAt(json, "structuredContent") \in {"absent", "object"}
    /\ KindAt(json, "_meta") \in {"absent", "object"}
    /\ Read(CallToolResult, json) # Refused

\* Mutant: the members are there, so it must be one.
LooksLikeResult(json) ==
    KindAt(json, "content") = "array"
        /\ DOMAIN json.members \subseteq {"content", "structuredContent", "isError", "_meta"}
IsSerializedCallToolResult(json) ==
    /\ KindAt(json, "content") = "array"
    /\ DOMAIN json.members \subseteq {"content", "structuredContent", "isError", "_meta"}
    /\ ~(json.members["content"].items = <<>> /\ DOMAIN json.members = {"content"})
    /\ IsCallToolResult(json)

\* normalize_structured_tool_result, where "t" stands for the text of a document.
NormalizeResult(json) ==
    IF json.kind = "object" /\ IsSerializedCallToolResult(json) THEN json
    ELSE Write(CallToolResult,
               CASE json.kind = "object" -> MakeToolStructuredResult(json, "t")
                 [] json.kind = "string" -> MakeToolTextResult(json.text)
                 [] OTHER -> MakeToolTextResult("t"))

Failure == Write(CallToolResult, MakeToolErrorResult("t"))

\* Middleware lets a call pass, rejects it or throws; the handler gives a value or
\* throws (Refused).  Arguments that do not conform never reach the handler.
Handled(tool, call) ==
    CASE call.middleware = "throws" -> Refused
      [] call.middleware = "rejects" -> Failure
      [] call.middleware = "passes" ->
            IF (tool.validateArguments => call.conforms) /\ call.value # Refused THEN call.value ELSE Failure

\* Mutant: an error is held to the output schema as well.
HeldToSchema(json) == FALSE
\* handler_result.value("isError", false)
IsErrorResult(json) == HasMember(json, "isError") /\ json.members["isError"] = JsonBoolean(TRUE)

\* The result of a handler's value.
ResultOf(tool, handled) ==
    IF handled = Refused THEN Refused
    ELSE IF ~tool.validated THEN NormalizeResult(handled)
    ELSE IF IsCallToolResult(handled) THEN handled ELSE Refused

\* An output schema is the member it requires, "" is none.
HeldToOutput(tool, result) ==
    IF result = Refused THEN Refused
    ELSE IF KindAt(result, "isError") \notin {"absent", "boolean"} THEN Refused
    ELSE IF tool.output = "" \/ IsErrorResult(result) THEN result
    ELSE IF ~HasMember(result, "structuredContent") THEN Refused
    ELSE IF tool.validateStructured /\ ~HasMember(result.members["structuredContent"], tool.output)
    THEN Refused ELSE result

\* invoke_tool_impl
InvokeTool(tool, call) == HeldToOutput(tool, ResultOf(tool, Handled(tool, call)))

-----------------------------------------------------------------------------
(* What the peer may rely on. *)

\* The Server takes every message that an SDK writes for what it was written as;
\* only an error that names no request is dropped, and params must be an object.
RoutedAsMeant(message) ==
    LET value == Read(JSONRPCMessage, message)
        sent == Write(JSONRPCMessage, value)
    IN  value # Refused /\ KindAt(message, "params") \in {"absent", "null", "object"} =>
            Route(sent) = CASE value[1] = "JSONRPCRequest" -> "request"
                            [] value[1] = "JSONRPCNotification" -> "notification"
                            [] value[1] = "JSONRPCResultResponse" -> "response"
                            [] value[1] = "JSONRPCErrorResponse" ->
                                  IF sent.members["id"] = JsonNull THEN "dropped" ELSE "response"

\* "A peer that serializes an absent optional as an explicit null means the member
\* is not there": so for an error, and for the params of a notification.
NullsRouteAlike(message) ==
    /\ Route(With(message, "error", JsonNull)) = Route(Without(message, "error"))
    /\ ~HasMember(message, "id") =>
          Route(With(message, "params", JsonNull)) = Route(Without(message, "params"))

\* A tool call is answered with a result the client can read or with an error of
\* the protocol; a tool that declares an output schema answers with structured
\* content, which conforms where that is checked, or says that it failed; a
\* handler's failure is reported as such; and what is a result is not wrapped again.
AnswerKept(tool, call, answer) ==
    /\ answer # Refused =>
          /\ Read(CallToolResult, answer) # Refused
          /\ tool.output # "" /\ ~IsErrorResult(answer) =>
                /\ KindAt(answer, "structuredContent") = "object"
                /\ tool.validateStructured =>
                      HasMember(answer.members["structuredContent"], tool.output)
    /\ (call.middleware = "rejects" \/ (call.middleware = "passes" /\ call.value = Refused)) =>
          answer # Refused /\ IsErrorResult(answer)
ToolAnswersKept(tool, call) ==
    /\ AnswerKept(tool, call, InvokeTool(tool, call))
    /\ call.value # Refused => NormalizeResult(NormalizeResult(call.value)) = NormalizeResult(call.value)

-----------------------------------------------------------------------------
(* URI templates (compile_uri_template and uri_template_matches).  A template *)
(* is a sequence of pieces: a literal character, or an expression with its    *)
(* operator, "" for none.  A URI is a sequence of characters.  A template is  *)
(* compiled into the states of an automaton, which is run on all its branches *)
(* at once.                                                                   *)

UriLiteral(c) == [kind |-> "literal", c |-> c]
UriExpression(operator) == [kind |-> "expression", operator |-> operator]
UriOperators == {"", "+", "#", ".", "/", ";", "?", "&"}

\* uri_expression_excluded_characters
ExcludedFrom(operator) ==
    CASE operator \in {"#", "?", "&"} -> {"#"}
      [] operator \in {"+", "/", ";"} -> {"?", "#"}
      [] OTHER -> {"/", "?", "#"}

-----------------------------------------------------------------------------
(* The automaton.  States are numbered from 1; `next` and `other` are numbers. *)

Consume(c, next) == [kind |-> "literal", c |-> c, next |-> next]
Except(excluded, next) == [kind |-> "except", excluded |-> excluded, next |-> next]
Fork(next, other) == [kind |-> "split", next |-> next, other |-> other]
Matched == [kind |-> "match"]

\* `[^excluded]+`
RunStates(first, excluded) == <<Except(excluded, first + 1), Fork(first, first + 2)>>

\* `(?:<prefix>[^excluded]+)?` when nonEmpty, else `(?:<prefix>[^excluded]*)?`.
PrefixedRunStates(first, prefix, excluded, nonEmpty) ==
    LET end == first + 4
    IN  <<Fork(first + 1, end), Consume(prefix, first + 2)>>
        \o IF nonEmpty THEN <<Except(excluded, first + 3), Fork(first + 2, end)>>
                       ELSE <<Fork(first + 3, end), Except(excluded, first + 2)>>

\* `(?:\.[^/?#]+)*`
LabelStates(first) ==
    <<Fork(first + 1, first + 4), Consume(".", first + 2),
      Except({"/", "?", "#"}, first + 3), Fork(first + 2, first)>>

\* Mutant: a path may be a slash and nothing.
MayBeEmpty(operator) == FALSE
\* The prefix of the expansion is followed by at least one character.
NeedsText(operator) == operator = "/"

\* append_uri_expression_pattern
ExpressionStates(operator, first) ==
    CASE operator \in {"", "+"} -> RunStates(first, ExcludedFrom(operator))
      [] operator = "." -> LabelStates(first)
      [] OTHER -> PrefixedRunStates(first, operator, ExcludedFrom(operator), NeedsText(operator))

\* Mutant: any leading literal separates two expressions.
HasLeadingLiteral(before, after) == after \notin {"", "+"}
\* Two expressions with nothing between them: the second begins with a character
\* that the first does not run over.
Separable(before, after) == after \notin {"", "+"} /\ after \in ExcludedFrom(before)

\* compile_uri_template throws: on an empty template or on adjacent expressions.
RefusesTemplate(template) ==
    \/ template = <<>>
    \/ \E i \in 1..(Len(template) - 1) :
          /\ template[i].kind = "expression" /\ template[i + 1].kind = "expression"
          /\ ~Separable(template[i].operator, template[i + 1].operator)

CompileTemplate(template) ==
    Append(FoldLeft(LAMBDA states, piece :
                        states \o IF piece.kind = "literal"
                                  THEN <<Consume(piece.c, Len(states) + 2)>>
                                  ELSE ExpressionStates(piece.operator, Len(states) + 1),
                    <<>>, template),
           Matched)

-----------------------------------------------------------------------------
(* uri_template_matches *)

\* The consuming states reachable from one of these without reading a character.
RECURSIVE Closure(_, _, _)
Closure(states, pending, seen) ==
    IF pending \subseteq seen THEN {i \in seen : states[i].kind # "split"}
    ELSE Closure(states,
                 UNION {{states[i].next, states[i].other} :
                           i \in {j \in pending \ seen : states[j].kind = "split"}},
                 seen \cup pending)

ConsumesUri(state, c) ==
    \/ state.kind = "literal" /\ state.c = c
    \/ state.kind = "except" /\ c \notin state.excluded

TemplateMatches(states, uri) ==
    LET step(current, c) ==
            Closure(states, {states[i].next : i \in {j \in current : ConsumesUri(states[j], c)}}, {})
    IN  \E i \in FoldLeft(step, Closure(states, {1}, {}), uri) : states[i].kind = "match"

-----------------------------------------------------------------------------
(* What a template means: the regular expression kept as its source. *)

Avoids(text, excluded) == \A k \in DOMAIN text : text[k] \notin excluded
PrefixedRun(text, prefix, excluded, least) ==
    text = <<>> \/ (text[1] = prefix /\ Len(text) > least /\ Avoids(Tail(text), excluded))
Expands(piece, text) ==
    IF piece.kind = "literal" THEN text = <<piece.c>>
    ELSE CASE piece.operator = "" -> text # <<>> /\ Avoids(text, {"/", "?", "#"})
           [] piece.operator = "+" -> text # <<>> /\ Avoids(text, {"?", "#"})
           [] piece.operator = "/" -> PrefixedRun(text, "/", {"?", "#"}, 1)
           [] piece.operator = ";" -> PrefixedRun(text, ";", {"?", "#"}, 0)
           [] piece.operator \in {"#", "?", "&"} -> PrefixedRun(text, piece.operator, {"#"}, 0)
           [] piece.operator = "." ->
                 text = <<>> \/ (text[1] = "." /\ Avoids(text, {"/", "?", "#"}) /\ Len(text) > 1)

RECURSIVE InTemplate(_, _)
InTemplate(template, uri) ==
    IF template = <<>> THEN uri = <<>>
    ELSE \E k \in 0..Len(uri) :
            /\ Expands(Head(template), SubSeq(uri, 1, k))
            /\ InTemplate(Tail(template), SubSeq(uri, k + 1, Len(uri)))

\* The template matches the URIs its expressions expand to, and no others.
TemplateIsItsLanguage(template, uris) ==
    ~RefusesTemplate(template) =>
        LET states == CompileTemplate(template)
        IN  \A uri \in uris : TemplateMatches(states, uri) <=> InTemplate(template, uri)

\* The boundary of two adjacent expressions is decidable: a text is cut between
\* them in one way only.  Two fragments are let through although they are not.
AdjacentDecidable(template, uris) ==
    ~RefusesTemplate(template) =>
        \A i \in 1..(Len(template) - 1) :
            LET before == template[i]
                after == template[i + 1]
                cuts(uri) == {k \in 0..Len(uri) : /\ Expands(before, SubSeq(uri, 1, k))
                                                  /\ Expands(after, SubSeq(uri, k + 1, Len(uri)))}
            IN  before.kind = "expression" /\ after.kind = "expression"
                    /\ <<before.operator, after.operator>> # <<"#", "#">>
                => \A uri \in uris : \A j, k \in cuts(uri) : j = k
=============================================================================

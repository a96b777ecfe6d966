---------------------------- MODULE ProtocolMessages ----------------------------
(***************************************************************************)
(* How the structures of the protocol (include/mcp/protocol, and those of    *)
(* the OAuth client) are written to JSON and read back.  A structure is a    *)
(* table: its members, the type of each, and what its from_json asks of the  *)
(* document before it reads one.  A value is what the C++ object holds:      *)
(* a function of the members that have a value.                              *)
(***************************************************************************)
EXTENDS Integers, Sequences, TLC, SequencesExt

CONSTANTS MaxInt,   \* INT_MAX
          Refused   \* what a from_json that throws is read as

ASSUME WidthAssumption == MaxInt \in Nat

None == <<>>
JsonNull == [kind |-> "null"]
JsonString(s) == [kind |-> "string", text |-> s]
\* A number, in halves.
JsonNumber(halves) == [kind |-> "number", halves |-> halves]
JsonBoolean(b) == [kind |-> "boolean", truth |-> b]
JsonArray(items) == [kind |-> "array", items |-> items]
JsonMembers(members) == [kind |-> "object", members |-> members]

-----------------------------------------------------------------------------
(* The types. *)

Json == [shape |-> "any"]
JsonObject == [shape |-> "object"]
\* A text, and what its member is initialised with.
Initially(usual) == [shape |-> "text", usual |-> usual]
Text == Initially("")
Flag == [shape |-> "flag"]
Real == [shape |-> "real"]
Whole == [shape |-> "whole"]       \* int64_t
Int32 == [shape |-> "int"]         \* int
RequestId == [shape |-> "id"]
\* A text that from_json compares with the only one allowed.
Exactly(text) == [shape |-> "constant", text |-> text]
Enum(names) == [shape |-> "enum", names |-> names]
List(item) == [shape |-> "list", item |-> item]
Map(item) == [shape |-> "map", item |-> item]
OneOf(name, alternatives) == [shape |-> "variant", name |-> name, alternatives |-> alternatives]

InMode(mode, types) == [k \in DOMAIN types |-> [mode |-> mode, type |-> types[k]]]
Required(types) == InMode("required", types)   \* at(key)
Valued(types) == InMode("valued", types)       \* if (has_json_value(json, key))
Present(types) == InMode("present", types)     \* if (json.contains(key))
Numeric(types) == InMode("numeric", types)     \* if (json.at(key).is_number())
Unread(types) == InMode("unread", types)       \* written, and never read
Struct(members) == [shape |-> "struct", members |-> members, defaults |-> None]
\* Members that always hold something and are always written.
WithDefaults(struct, defaults) == [struct EXCEPT !.defaults = defaults]

Meta == Present([_meta |-> Json])
Method(name) == Required([method |-> Initially(name)])
Call(name, params) == Struct(Method(name) @@ Required([params |-> params]))
CallMaybe(name, params) == Struct(Method(name) @@ Present([params |-> params]))
Page(key, item) == Struct(Required(key :> List(item)) @@ Valued([nextCursor |-> Text]) @@ Meta)
Cursor == Struct(Valued([cursor |-> Text]))

-----------------------------------------------------------------------------
(* JSON-RPC: base.hpp *)

Role == Enum(<<"user", "assistant">>)
TaskStatus == Enum(<<"cancelled", "completed", "failed", "input_required", "working">>)
JsonRpc == Required([jsonrpc |-> Exactly("2.0")])
Error == WithDefaults(Struct(Required([code |-> Int32]) @@ Valued([message |-> Text, data |-> Json])),
                      [message |-> ""])
RelatedTaskMetadata == Struct(Required([id |-> Text]) @@ Valued([title |-> Text]))
TaskMetadata == Struct(Valued([ttl |-> Whole, relatedTasks |-> List(RelatedTaskMetadata)]))
JSONRPCRequest ==
    Struct(Required([id |-> RequestId, method |-> Text]) @@ JsonRpc @@ Valued([params |-> Json]))
JSONRPCNotification == Struct(Required([method |-> Text]) @@ JsonRpc @@ Valued([params |-> Json]))
JSONRPCResultResponse == Struct(Required([id |-> RequestId, result |-> Json]) @@ JsonRpc)
IdByPresence == WithDefaults(Struct(Required([error |-> Error]) @@ JsonRpc @@ Present([id |-> RequestId])), [id |-> JsonNull])
\* The id is written as null when there is none.
JSONRPCErrorResponse ==
    WithDefaults(Struct(Required([error |-> Error]) @@ JsonRpc @@ Valued([id |-> RequestId])),
                 [id |-> JsonNull])
JSONRPCResponse == OneOf("JSONRPCResponse",
    [JSONRPCResultResponse |-> JSONRPCResultResponse, JSONRPCErrorResponse |-> JSONRPCErrorResponse])
JSONRPCMessage == OneOf("JSONRPCMessage",
    [JSONRPCRequest |-> JSONRPCRequest, JSONRPCNotification |-> JSONRPCNotification]
        @@ JSONRPCResponse.alternatives)

(* The handshake: capabilities.hpp *)

Icon == Struct(Required([src |-> Text]) @@ Valued([mimeType |-> Text, sizes |-> List(Text), theme |-> Text]))
Annotations == Struct(Valued([audience |-> List(Role), lastModified |-> Text, priority |-> Real]))
Implementation ==
    Struct(Required([name |-> Text, version |-> Text])
        @@ Valued([title |-> Text, description |-> Text, websiteUrl |-> Text, icons |-> List(Icon)]))
ElicitationCapability == Struct(Present([form |-> Json, url |-> Json]))
ListChangedCapability == Struct(Valued([listChanged |-> Flag]))
SamplingCapability == Struct(Present([context |-> Json, tools |-> Json]))
ElicitationTaskCapability == Struct(Present([create |-> Json]))
SamplingTaskCapability == Struct(Present([createMessage |-> Json]))
ClientTaskRequests ==
    Struct(Present([elicitation |-> ElicitationTaskCapability, sampling |-> SamplingTaskCapability]))
ClientTasksCapability == Struct(Present([cancel |-> Json, list |-> Json, requests |-> ClientTaskRequests]))
ClientCapabilities ==
    Struct(Present([elicitation |-> ElicitationCapability, experimental |-> Json,
                    roots |-> ListChangedCapability, sampling |-> SamplingCapability,
                    tasks |-> ClientTasksCapability])
        @@ Valued([extensions |-> Map(Json)]))
ResourcesCapability == Struct(Valued([listChanged |-> Flag, subscribe |-> Flag]))
ToolsTaskCapability == Struct(Present([call |-> Json]))
ServerTaskRequests == Struct(Present([tools |-> ToolsTaskCapability]))
ServerTasksCapability == Struct(Present([cancel |-> Json, list |-> Json, requests |-> ServerTaskRequests]))
ServerCapabilities ==
    Struct(Present([completions |-> Json, experimental |-> Json, logging |-> Json,
                    prompts |-> ListChangedCapability, resources |-> ResourcesCapability,
                    tasks |-> ServerTasksCapability, tools |-> ListChangedCapability])
        @@ Valued([extensions |-> Map(Json)]))
PingRequest == Struct(Method("ping"))
InitializeRequest ==
    Struct(Required([protocolVersion |-> Text, clientInfo |-> Implementation,
                     capabilities |-> ClientCapabilities]))
InitializeResult ==
    Struct(Required([protocolVersion |-> Text, capabilities |-> ServerCapabilities,
                     serverInfo |-> Implementation]) @@ Present([instructions |-> Text]))
DiscoverRequest == Struct(Meta)
CacheScope == Enum(<<"public", "private">>)
\* The server's identity is carried under _meta, where nothing else is read.
NoIdentity == [name |-> "", version |-> ""]
DiscoverMeta == WithDefaults(Struct(Present([serverInfo |-> Implementation])), [serverInfo |-> NoIdentity])
DiscoverResult ==
    WithDefaults(Struct(Required([resultType |-> Initially("complete"), supportedVersions |-> List(Text),
                                  capabilities |-> ServerCapabilities])
                     @@ Present([_meta |-> DiscoverMeta, cacheScope |-> CacheScope])
                     @@ Valued([instructions |-> Text, ttlMs |-> Whole])),
                 [_meta |-> [serverInfo |-> NoIdentity]])

(* Content: content.hpp *)

MimeType == Valued([mimeType |-> Text])
TextContent == Struct(Required([type |-> Exactly("text"), text |-> Text]))
ImageContent == Struct(Required([type |-> Exactly("image"), data |-> Text, mimeType |-> Text]))
AudioContent == Struct(Required([type |-> Exactly("audio"), data |-> Text, mimeType |-> Text]))
TextResourceContents == Struct(Required([uri |-> Text, text |-> Text]) @@ MimeType)
BlobResourceContents == Struct(Required([uri |-> Text, blob |-> Text]) @@ MimeType)
ResourceContents == OneOf("ResourceContents",
    [TextResourceContents |-> TextResourceContents, BlobResourceContents |-> BlobResourceContents])
ResourceLink ==
    Struct(Required([type |-> Exactly("resource_link"), uri |-> Text, name |-> Text]) @@ MimeType
        @@ Valued([description |-> Text, size |-> Whole, title |-> Text, icons |-> List(Icon)])
        @@ Present([annotations |-> Annotations]) @@ Meta)
EmbeddedResource ==
    Struct(Required([type |-> Exactly("resource"), resource |-> ResourceContents])
        @@ Present([annotations |-> Annotations]) @@ Meta)
ToolUseContent ==
    Struct(Required([type |-> Exactly("tool_use"), id |-> Text, name |-> Text, input |-> Json]) @@ Meta)
ToolResultContent ==
    Struct(Required([type |-> Exactly("tool_result"), toolUseId |-> Text, content |-> Json])
        @@ Valued([isError |-> Flag, structuredContent |-> Json, _meta |-> Json]))
ContentBlock == OneOf("ContentBlock",
    [text |-> TextContent, image |-> ImageContent, audio |-> AudioContent,
     resource_link |-> ResourceLink, resource |-> EmbeddedResource,
     tool_use |-> ToolUseContent, tool_result |-> ToolResultContent])

(* Tools: tools.hpp *)

ToolAnnotations ==
    Struct(Valued([destructiveHint |-> Flag, idempotentHint |-> Flag, openWorldHint |-> Flag,
                   readOnlyHint |-> Flag, title |-> Text]))
ToolExecution == Struct(Required([taskSupport |-> Text]))
Tool ==
    Struct(Required([name |-> Text, inputSchema |-> Json])
        @@ Valued([description |-> Text, _meta |-> Json, annotations |-> ToolAnnotations,
                   outputSchema |-> Json, title |-> Text, icons |-> List(Icon),
                   execution |-> ToolExecution]))
CallToolParams ==
    WithDefaults(Struct(Required([name |-> Text]) @@ Present([arguments |-> JsonObject])
                        @@ Valued([_meta |-> Json])),
                 [arguments |-> JsonMembers(None)])
CallToolResult ==
    Struct(Required([content |-> List(ContentBlock)])
        @@ Valued([isError |-> Flag, _meta |-> Json, structuredContent |-> Json]))
CallToolRequest == Call("tools/call", CallToolParams)
ListToolsRequestParams == Cursor
ListToolsRequest == CallMaybe("tools/list", ListToolsRequestParams)
ListToolsResult == Page("tools", Tool)

(* Resources, prompts, roots, completion *)

Described == Valued([description |-> Text, title |-> Text, icons |-> List(Icon)])
Resource ==
    Struct(Required([uri |-> Text, name |-> Text]) @@ MimeType @@ Described
        @@ Valued([_meta |-> Json, annotations |-> Annotations, size |-> Whole]))
ResourceTemplate ==
    Struct(Required([uriTemplate |-> Text, name |-> Text]) @@ MimeType @@ Described
        @@ Valued([_meta |-> Json, annotations |-> Annotations]))
ReadResourceResult == Struct(Required([contents |-> List(ResourceContents)]))
ListResourcesRequestParams == Cursor
ListResourcesRequest == CallMaybe("resources/list", ListResourcesRequestParams)
ListResourcesResult == Page("resources", Resource)
ListResourceTemplatesRequestParams == Cursor
ListResourceTemplatesRequest == CallMaybe("resources/templates/list", ListResourceTemplatesRequestParams)
ListResourceTemplatesResult == Page("resourceTemplates", ResourceTemplate)
OfUri == Struct(Required([uri |-> Text]))
ReadResourceRequest == Call("resources/read", OfUri)
SubscribeRequest == Call("resources/subscribe", OfUri)
UnsubscribeRequest == Call("resources/unsubscribe", OfUri)

PaginatedRequestParams == Struct(Valued([cursor |-> Text]) @@ Meta)
PromptArgument ==
    Struct(Required([name |-> Text]) @@ Valued([description |-> Text, required |-> Flag, title |-> Text]))
Prompt == Struct(Required([name |-> Text]) @@ Described @@ Valued([arguments |-> List(PromptArgument)]) @@ Meta)
PromptMessage == Struct(Required([role |-> Role, content |-> ContentBlock]))
GetPromptRequestParams == Struct(Required([name |-> Text]) @@ Valued([arguments |-> Map(Text)]) @@ Meta)
GetPromptRequest == Call("prompts/get", GetPromptRequestParams)
GetPromptResult == Struct(Required([messages |-> List(PromptMessage)]) @@ Valued([description |-> Text]) @@ Meta)
ListPromptsRequest == CallMaybe("prompts/list", PaginatedRequestParams)
ListPromptsResult == Page("prompts", Prompt)

Root == Struct(Required([uri |-> Text]) @@ Valued([name |-> Text]) @@ Meta)
ListRootsRequest == Struct(Method("roots/list"))
ListRootsResult == Struct(Required([roots |-> List(Root)]) @@ Meta)

PromptReference == Struct(Required([type |-> Initially("ref/prompt"), name |-> Text]))
ResourceTemplateReference == Struct(Required([type |-> Initially("ref/resource"), uri |-> Text]))
CompleteReference == OneOf("CompleteReference",
    [PromptReference |-> PromptReference, ResourceTemplateReference |-> ResourceTemplateReference])
CompleteParamsArgument == Struct(Required([name |-> Text, value |-> Text]))
CompleteContext == Struct(Valued([arguments |-> Map(Text)]))
CompleteParams ==
    Struct(Required([ref |-> CompleteReference, argument |-> CompleteParamsArgument])
        @@ Valued([context |-> CompleteContext]) @@ Meta)
CompletionResultDetails == Struct(Required([values |-> List(Text)]) @@ Valued([total |-> Whole, hasMore |-> Flag]))
CompleteResult == Struct(Required([completion |-> CompletionResultDetails]) @@ Meta)

(* Sampling and elicitation *)

ToolChoice == Struct(Valued([mode |-> Text]))
ModelHint == Struct(Valued([name |-> Text]))
ModelPreferences ==
    Struct(Valued([costPriority |-> Real, hints |-> List(ModelHint), intelligencePriority |-> Real,
                   speedPriority |-> Real]))
SamplingMessageContent == OneOf("SamplingMessageContent", [many |-> List(ContentBlock), one |-> ContentBlock])
SamplingMessage == Struct(Required([role |-> Role, content |-> SamplingMessageContent]) @@ Meta)
CreateMessageRequestParams ==
    Struct(Required([messages |-> List(SamplingMessage), maxTokens |-> Int32])
        @@ Valued([systemPrompt |-> Text, temperature |-> Real, stopSequences |-> List(Text),
                   includeContext |-> Text, tools |-> List(Tool)])
        @@ Present([modelPreferences |-> ModelPreferences, toolChoice |-> ToolChoice, metadata |-> Json])
        @@ Meta)
CreateMessageRequest == Call("sampling/createMessage", CreateMessageRequestParams)
CreateMessageResult ==
    Struct(Required([role |-> Role, content |-> SamplingMessageContent, model |-> Text])
        @@ Present([stopReason |-> Text]) @@ Meta)

PrimitiveSchemaDefinition == Struct(Required([type |-> Text]) @@ Valued([title |-> Text, description |-> Text]))
EnumSchema ==
    WithDefaults(Struct(PrimitiveSchemaDefinition.members @@ Valued([enum |-> List(Text)])), [enum |-> <<>>])
ElicitTask == Present([task |-> TaskMetadata])
ElicitRequestURLParams ==
    Struct(Required([mode |-> Initially("url"), message |-> Text, url |-> Text, elicitationId |-> Text]) @@ ElicitTask @@ Meta)
ElicitRequestFormParams ==
    Struct(Required([mode |-> Initially("form"), message |-> Text, requestedSchema |-> Json]) @@ ElicitTask @@ Meta)
ElicitRequestParams == OneOf("ElicitRequestParams",
    [url |-> ElicitRequestURLParams, form |-> ElicitRequestFormParams])
ElicitRequest == Call("elicitation/create", ElicitRequestParams)
ElicitAction == Enum(<<"accept", "decline", "cancel">>)
ElicitResult == Struct(Required([action |-> ElicitAction]) @@ Present([content |-> Json]) @@ Meta)

(* Notifications and tasks *)

LoggingLevel == Enum(<<"emergency", "alert", "critical", "error", "warning", "notice", "info", "debug">>)
SetLevelRequestParams == Struct(Required([level |-> LoggingLevel]) @@ Valued([_meta |-> Json]))
SetLevelRequest == Call("logging/setLevel", SetLevelRequestParams)
CancelledNotificationParams == Struct(Required([requestId |-> RequestId]) @@ Valued([reason |-> Text]))
CancelledNotification == Call("notifications/cancelled", CancelledNotificationParams)
ProgressNotificationParams ==
    Struct(Required([progressToken |-> RequestId, progress |-> Real]) @@ Valued([total |-> Real, message |-> Text]))
ProgressNotification == Call("notifications/progress", ProgressNotificationParams)
LoggingMessageNotificationParams ==
    Struct(Required([level |-> LoggingLevel, data |-> Json]) @@ Valued([logger |-> Text]))
LoggingMessageNotification == Call("notifications/message", LoggingMessageNotificationParams)
InitializedNotification == Struct(Method("notifications/initialized"))
PromptListChangedNotification == Struct(Method("notifications/prompts/list_changed"))
ResourceListChangedNotification == Struct(Method("notifications/resources/list_changed"))
ToolListChangedNotification == Struct(Method("notifications/tools/list_changed"))
RootsListChangedNotification == Struct(Method("notifications/roots/list_changed"))
ResourceUpdatedNotification == Call("notifications/resources/updated", OfUri)
TaskStatusNotificationParams ==
    Struct(Required([id |-> Text, status |-> TaskStatus])
        @@ Valued([metadata |-> TaskMetadata, message |-> Text]))
TaskStatusNotification == Call("notifications/tasks/status", TaskStatusNotificationParams)
ElicitationCompleteNotificationParams == Struct(Required([requestId |-> RequestId]))
ElicitationCompleteNotification == Call("notifications/elicitation/complete", ElicitationCompleteNotificationParams)

TaskData ==
    Struct(Required([taskId |-> Text, status |-> TaskStatus, createdAt |-> Text, lastUpdatedAt |-> Text,
                     ttl |-> Whole])
        @@ Valued([pollInterval |-> Whole, statusMessage |-> Text]))
CreateTaskResult == Struct(Required([task |-> TaskData]) @@ Meta)
GetTaskResult == Struct(TaskData.members @@ Meta)
ListTasksResult == Page("tasks", TaskData)
OfId == Struct(Required([id |-> Text]))
GetTaskRequest == Call("tasks/get", OfId)
CancelTaskRequest == Call("tasks/cancel", OfId)
CancelTaskResult == Struct(Meta)
ListTasksRequestParams == Cursor
ListTasksRequest == CallMaybe("tasks/list", ListTasksRequestParams)
GetTaskPayloadRequest == Call("tasks/getPayload", OfId)
GetTaskPayloadResult == Struct(Required([payload |-> Json]) @@ Meta)

(* The OAuth client: oauth.cpp, client_identity.cpp *)

TokenResponse ==
    WithDefaults(Struct(Required([access_token |-> Text])
                        @@ Present([token_type |-> Text, refresh_token |-> Text, expires_in |-> Int32,
                                    scope |-> Text])),
                 [token_type |-> "Bearer"])
\* RFC 7591 does not carry the issuer: the caller sets it again after reading.
OAuthClientInformation ==
    WithDefaults(Struct(Present([client_id |-> Text]) @@ Valued([client_secret |-> Text])
                        @@ Numeric([client_id_issued_at |-> Whole, client_secret_expires_at |-> Whole])
                        @@ Unread([issuer |-> Text])),
                 [client_id |-> "", issuer |-> ""])
Texts == List(Text)
ProtectedResourceMetadata ==
    WithDefaults(Struct(Present([resource |-> Text, authorization_servers |-> Texts, scopes_supported |-> Texts])),
                 [resource |-> "", authorization_servers |-> <<>>])
AuthServerMetadata ==
    WithDefaults(
        Struct(Present([issuer |-> Text, authorization_endpoint |-> Text, token_endpoint |-> Text,
                        revocation_endpoint |-> Text, registration_endpoint |-> Text, scopes_supported |-> Texts,
                        response_types_supported |-> Texts, grant_types_supported |-> Texts,
                        code_challenge_methods_supported |-> Texts,
                        authorization_response_iss_parameter_supported |-> Flag,
                        client_id_metadata_document_supported |-> Flag,
                        token_endpoint_auth_methods_supported |-> Texts])),
        [issuer |-> "", authorization_endpoint |-> "", token_endpoint |-> ""])

-----------------------------------------------------------------------------
(* Reading and writing. *)

\* A document that is not an object has no members, and find() says so.
MembersOf(json) == IF json.kind = "object" THEN json.members ELSE None
HasMember(json, key) == key \in DOMAIN MembersOf(json)
HasJsonValue(json, key) == HasMember(json, key) /\ json.members[key] # JsonNull
TextAt(json, key) ==
    IF HasMember(json, key) /\ json.members[key].kind = "string" THEN json.members[key].text ELSE Refused

\* The alternative a from_json picks: JSONRPCResponse, JSONRPCMessage, ...
ResponseKind(json) ==
    IF HasJsonValue(json, "error") THEN "JSONRPCErrorResponse" ELSE "JSONRPCResultResponse"
ByPresenceOfError(json) ==
    IF HasMember(json, "error") THEN "JSONRPCErrorResponse"
    ELSE IF HasMember(json, "result") THEN "JSONRPCResultResponse"
    ELSE IF HasMember(json, "id") THEN "JSONRPCRequest" ELSE "JSONRPCNotification"
MessageKind(json) ==
    CASE HasJsonValue(json, "error") -> "JSONRPCErrorResponse"
      [] ~HasJsonValue(json, "error") /\ HasMember(json, "result") -> "JSONRPCResultResponse"
      [] OTHER -> IF HasMember(json, "id") THEN "JSONRPCRequest" ELSE "JSONRPCNotification"
ContentsKind(json) ==
    IF HasMember(json, "text") THEN "TextResourceContents"
    ELSE IF HasMember(json, "blob") THEN "BlobResourceContents" ELSE Refused
ReferenceKind(json) ==
    IF ~HasMember(json, "type") THEN Refused
    ELSE IF TextAt(json, "type") = "ref/prompt" THEN "PromptReference" ELSE "ResourceTemplateReference"
KindOf(variant, json) ==
    CASE variant = "JSONRPCResponse" -> ResponseKind(json)
      [] variant = "JSONRPCMessage" -> MessageKind(json)
      [] variant = "ResourceContents" -> ContentsKind(json)
      [] variant = "CompleteReference" -> ReferenceKind(json)
      [] variant = "ContentBlock" -> TextAt(json, "type")
      [] variant = "ElicitRequestParams" -> TextAt(json, "mode")
      [] variant = "SamplingMessageContent" -> IF json.kind = "array" THEN "many" ELSE "one"

\* NLOHMANN_JSON_SERIALIZE_ENUM: a document that names no value is the first value.
EnumValue(names, json) ==
    LET named == {i \in DOMAIN names : json = JsonString(names[i])}
    IN  IF named = {} THEN 1 ELSE CHOOSE i \in named : TRUE

\* get<int64_t>() of a fraction, and get<int>() of what does not fit an int.
Truncated(halves) == IF halves >= 0 THEN halves \div 2 ELSE -(-halves \div 2)
Narrowed(n) == ((n + MaxInt + 1) % (2 * (MaxInt + 1))) - (MaxInt + 1)

ByPresence(mode, json, key) == mode = "required" \/ (mode # "unread" /\ HasMember(json, key))
Taken(mode, json, key) ==
    CASE mode = "required" -> TRUE
      [] mode = "valued" -> HasJsonValue(json, key)
      [] mode = "present" -> HasMember(json, key)
      [] mode = "numeric" -> HasMember(json, key) /\ json.members[key].kind = "number"
      [] mode = "unread" -> FALSE

RECURSIVE Read(_, _)
ReadMembers(struct, json) ==
    LET taken == {k \in DOMAIN struct.members : Taken(struct.members[k].mode, json, k)}
        values == [k \in taken |-> IF HasMember(json, k) THEN Read(struct.members[k].type, json.members[k])
                                   ELSE Refused]
    IN  IF \E k \in taken : values[k] = Refused THEN Refused ELSE values @@ struct.defaults
ReadAll(item, items) ==
    LET values == [k \in DOMAIN items |-> Read(item, items[k])]
    IN  IF \E k \in DOMAIN items : values[k] = Refused THEN Refused ELSE values
ReadVariant(type, json) ==
    LET kind == KindOf(type.name, json)
    IN  IF kind \notin DOMAIN type.alternatives THEN Refused
        ELSE LET value == Read(type.alternatives[kind], json)
             IN  IF value = Refused THEN Refused ELSE <<kind, value>>
Read(type, json) ==
    CASE type.shape = "any" -> json
      [] type.shape = "object" -> IF json.kind = "object" THEN json ELSE Refused
      [] type.shape = "text" -> IF json.kind = "string" THEN json.text ELSE Refused
      [] type.shape = "constant" ->
            IF json.kind = "string" /\ json.text = type.text THEN type.text ELSE Refused
      [] type.shape = "flag" -> IF json.kind = "boolean" THEN json.truth ELSE Refused
      [] type.shape = "real" -> IF json.kind = "number" THEN json.halves ELSE Refused
      [] type.shape = "whole" -> IF json.kind = "number" THEN Truncated(json.halves) ELSE Refused
      [] type.shape = "int" ->
            CASE json.kind = "number" -> Narrowed(Truncated(json.halves))
              [] json.kind = "boolean" -> IF json.truth THEN 1 ELSE 0
              [] OTHER -> Refused
      [] type.shape = "id" ->
            IF json.kind = "string" \/ (json.kind = "number" /\ json.halves % 2 = 0) THEN json ELSE Refused
      [] type.shape = "enum" -> EnumValue(type.names, json)
      [] type.shape = "list" -> IF json.kind = "array" THEN ReadAll(type.item, json.items) ELSE Refused
      [] type.shape = "map" -> IF json.kind = "object" THEN ReadAll(type.item, json.members) ELSE Refused
      [] type.shape = "variant" -> ReadVariant(type, json)
      [] type.shape = "struct" -> ReadMembers(type, json)

RECURSIVE Write(_, _)
Write(type, value) ==
    CASE type.shape \in {"any", "object", "id"} -> value
      [] type.shape \in {"text", "constant"} -> JsonString(value)
      [] type.shape = "flag" -> JsonBoolean(value)
      [] type.shape = "real" -> JsonNumber(value)
      [] type.shape \in {"whole", "int"} -> JsonNumber(2 * value)
      [] type.shape = "enum" -> JsonString(type.names[value])
      [] type.shape = "list" -> JsonArray([k \in DOMAIN value |-> Write(type.item, value[k])])
      [] type.shape = "map" -> JsonMembers([k \in DOMAIN value |-> Write(type.item, value[k])])
      [] type.shape = "variant" -> Write(type.alternatives[value[1]], value[2])
      [] type.shape = "struct" -> JsonMembers([k \in DOMAIN value |-> Write(type.members[k].type, value[k])])

SameForBoth(id) == IF id.kind = "string" THEN id.text ELSE ToString(id.halves \div 2)
\* The id of a request as the tables of the client and the server are keyed by it.
CorrelationKey(id) == IF id.kind = "string" THEN <<"s:", id.text>> ELSE <<"i:", ToString(id.halves \div 2)>>

\* make_tool_text_result, make_tool_error_result, make_tool_structured_result
MakeToolTextResult(text) == [content |-> <<<<"text", [type |-> "text", text |-> text]>>>>]
MakeToolErrorResult(message) == MakeToolTextResult(message) @@ [isError |-> TRUE]
MakeToolStructuredResult(content, text) ==
    IF content.kind = "object" THEN MakeToolTextResult(text) @@ [structuredContent |-> content] ELSE Refused

-----------------------------------------------------------------------------
(* What a reader may rely on. *)

\* Every structure the SDK both writes and reads.
Structures ==
    <<Error, RelatedTaskMetadata, TaskMetadata, JSONRPCRequest, JSONRPCNotification,
      JSONRPCResultResponse, JSONRPCErrorResponse, Icon, Annotations, Implementation,
      ElicitationCapability, ListChangedCapability, SamplingCapability,
      ElicitationTaskCapability, SamplingTaskCapability, ClientTaskRequests,
      ClientTasksCapability, ClientCapabilities, ResourcesCapability, ToolsTaskCapability,
      ServerTaskRequests, ServerTasksCapability, ServerCapabilities, PingRequest,
      InitializeRequest, InitializeResult, DiscoverRequest, DiscoverResult, TextContent,
      ImageContent, AudioContent, TextResourceContents, BlobResourceContents, ResourceLink,
      EmbeddedResource, ToolUseContent, ToolResultContent, ToolAnnotations, ToolExecution, Tool,
      CallToolParams, CallToolResult, CallToolRequest, ListToolsRequestParams, ListToolsRequest,
      ListToolsResult, Resource, ResourceTemplate, ReadResourceResult,
      ListResourcesRequestParams, ListResourcesRequest, ListResourcesResult,
      ListResourceTemplatesRequestParams, ListResourceTemplatesRequest,
      ListResourceTemplatesResult, OfUri, ReadResourceRequest, SubscribeRequest,
      UnsubscribeRequest, PaginatedRequestParams, PromptArgument, Prompt, PromptMessage,
      GetPromptRequestParams, GetPromptRequest, GetPromptResult, ListPromptsRequest,
      ListPromptsResult, Root, ListRootsRequest, ListRootsResult, PromptReference,
      ResourceTemplateReference, CompleteParamsArgument, CompleteContext, CompleteParams,
      CompletionResultDetails, CompleteResult, ToolChoice, ModelHint, ModelPreferences,
      SamplingMessage, CreateMessageRequestParams, CreateMessageRequest, CreateMessageResult,
      PrimitiveSchemaDefinition, EnumSchema, ElicitRequestURLParams, ElicitRequestFormParams,
      ElicitRequest, ElicitResult, SetLevelRequestParams, SetLevelRequest,
      CancelledNotificationParams, CancelledNotification, ProgressNotificationParams,
      ProgressNotification, LoggingMessageNotificationParams, LoggingMessageNotification,
      InitializedNotification, PromptListChangedNotification, ResourceListChangedNotification,
      ToolListChangedNotification, RootsListChangedNotification, ResourceUpdatedNotification,
      TaskStatusNotificationParams, TaskStatusNotification,
      ElicitationCompleteNotificationParams, ElicitationCompleteNotification, TaskData,
      CreateTaskResult, GetTaskResult, ListTasksResult, OfId, GetTaskRequest, CancelTaskRequest,
      CancelTaskResult, ListTasksRequestParams, ListTasksRequest, GetTaskPayloadRequest,
      GetTaskPayloadResult, TokenResponse, OAuthClientInformation>>
\* Those it only reads.
Documents == <<ProtectedResourceMetadata, AuthServerMetadata>>
Variants == {JSONRPCResponse, JSONRPCMessage, ResourceContents, CompleteReference, ContentBlock,
             ElicitRequestParams}

\* A complete document of a type.
RECURSIVE Complete(_)
Complete(type) ==
    CASE type.shape = "any" -> JsonArray(<<JsonNull>>)
      [] type.shape = "object" -> JsonMembers("k" :> JsonNull)
      [] type.shape = "text" -> JsonString(type.usual)
      [] type.shape = "constant" -> JsonString(type.text)
      [] type.shape = "flag" -> JsonBoolean(TRUE)
      [] type.shape = "real" -> JsonNumber(3)
      [] type.shape \in {"whole", "int"} -> JsonNumber(4)
      [] type.shape = "id" -> JsonString("1")
      [] type.shape = "enum" -> JsonString(Last(type.names))
      [] type.shape = "list" -> JsonArray(<<Complete(type.item), Complete(type.item)>>)
      [] type.shape = "map" -> JsonMembers("k" :> Complete(type.item))
      [] type.shape = "variant" -> Complete(type.alternatives[CHOOSE k \in DOMAIN type.alternatives : TRUE])
      [] type.shape = "struct" -> JsonMembers([k \in DOMAIN type.members |-> Complete(type.members[k].type)])

Without(json, key) == JsonMembers([k \in DOMAIN json.members \ {key} |-> json.members[k]])
With(json, key, value) == JsonMembers((key :> value) @@ json.members)

\* What was read and is sent on is read the same by the next peer, and a variant
\* is read as the alternative that was written.
SameWhenReadAgain(struct, json) ==
    LET value == Read(struct, json)
    IN  value # Refused => Read(struct, Write(struct, value)) = value
KindSurvives(variant, kind, json) ==
    LET value == Read(variant.alternatives[kind], json)
    IN  value # Refused => Read(variant, Write(variant, <<kind, value>>)) = <<kind, value>>

\* No member a peer sent as the protocol has it is lost or changed on the way,
\* whatever else in the message is missing, null or of another type.
NothingIsLost(struct, json, intact) ==
    LET value == Read(struct, json)
    IN  value # Refused =>
            \A k \in intact \cap DOMAIN struct.members :
                struct.members[k].mode # "unread" => Write(struct, value).members[k] = json.members[k]

\* A member the protocol does not have changes nothing.
OthersIgnored(type, json) == Read(type, With(json, "x", JsonString("zz"))) = Read(type, json)

\* "An absent optional and one serialized as an explicit null are the same
\* statement": the member is absent, or a json member that carries the null on, or
\* a structure none of whose members is there.  These members refuse the null.
RefusesNull(struct, key) ==
    \/ struct \in {TokenResponse, ProtectedResourceMetadata, AuthServerMetadata}
    \/ <<struct, key>> \in {<<InitializeResult, "instructions">>, <<CreateMessageResult, "stopReason">>,
                            <<CallToolParams, "arguments">>, <<OAuthClientInformation, "client_id">>}
\* A null scope is read as the first one.
NamesAnotherValue(struct, key) == <<struct, key>> = <<DiscoverResult, "cacheScope">>
NullSaysNothing(struct, json, key) ==
    LET read == Read(struct, With(json, key, JsonNull))
        absent == Read(struct, Without(json, key))
    IN  \/ struct.members[key].mode = "required" \/ NamesAnotherValue(struct, key)
        \/ RefusesNull(struct, key) /\ read = Refused
        \/ read = absent
        \/ /\ read # Refused
           /\ key \notin DOMAIN absent
           /\ Write(struct, read).members[key] \in {JsonNull, JsonMembers(None)}

\* A null error next to a result is no error.
NullErrorIsNoError(json) ==
    \A variant \in {JSONRPCResponse, JSONRPCMessage} :
        Read(variant, With(json, "error", JsonNull)) = Read(variant, Without(json, "error"))

\* Requests with different ids have different keys: the text "1" is not the number 1.
IdsApart(a, b) == CorrelationKey(a) = CorrelationKey(b) => a = b

\* What the helpers make of a handler's answer reaches the client.
ResultsSurvive(result) == result = Refused \/ Read(CallToolResult, Write(CallToolResult, result)) = result
=============================================================================

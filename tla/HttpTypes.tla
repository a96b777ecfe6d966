-------------------------------- MODULE HttpTypes --------------------------------
(***************************************************************************)
(* The texts that the two ends of an HTTP transport exchange, each as it is *)
(* written by one end and read by the other: event streams                  *)
(* (http_session_manager.cpp and http_server.cpp write them, http_client.cpp *)
(* reads them), the WWW-Authenticate challenge and the place of the          *)
(* protected-resource metadata (http_types.cpp writes them,                  *)
(* src/src/auth/challenge.cpp and oauth.cpp read them).                      *)
(***************************************************************************)
EXTENDS OAuthPolicy

-----------------------------------------------------------------------------
(* Event streams.  A token is a field name with its colon, a space, an end  *)
(* of line ("LF", "CR") or some other text.                                 *)

EventLines(event) == <<"id:", " ", event.id, "LF", "data:", " ">> \o event.data \o <<"LF", "LF">>
\* make_sse_response() and make_sse_replay_response()
WriteEvents(events) == FlattenSeq([k \in DOMAIN events |-> EventLines(events[k])])

WithoutReturn(line) == IF line # <<>> /\ Last(line) = "CR" THEN Front(line) ELSE line
\* Mutant: every space in front of the value is dropped.
RECURSIVE WithoutSpaces(_)
WithoutSpaces(value) == IF value # <<>> /\ value[1] = " " THEN WithoutSpaces(Tail(value)) ELSE value
\* One space after the colon belongs to the field and not to its value.
FieldValue(value) == IF value # <<>> /\ value[1] = " " THEN Tail(value) ELSE value

NewReader == [events |-> <<>>, data |-> <<>>, id |-> <<>>]
\* A blank line ends an event; one without data is none, and its id stays for the next.
EndEvent(reader) ==
    IF reader.data = <<>> THEN reader
    ELSE [NewReader EXCEPT !.events = Append(reader.events, [id |-> reader.id, data |-> reader.data])]
ReadLine(reader, line) ==
    LET joined == IF reader.data = <<>> THEN <<>> ELSE Append(reader.data, "LF")
    IN  CASE line = <<>> -> EndEvent(reader)
          [] line # <<>> /\ line[1] = "data:" ->
                [reader EXCEPT !.data = joined \o FieldValue(Tail(line))]
          [] line # <<>> /\ line[1] = "id:" -> [reader EXCEPT !.id = FieldValue(Tail(line))]
          [] OTHER -> reader
RECURSIVE ReadLines(_, _)
ReadLines(reader, text) ==
    LET read == ReadLine(reader, WithoutReturn(Before(text, {"LF"})))
    IN  IF \A t \in ToSet(text) : t # "LF" THEN EndEvent(read) ELSE ReadLines(read, After(text, {"LF"}))
\* parse_sse_messages()
ReadEvents(text) == ReadLines(NewReader, text).events

-----------------------------------------------------------------------------
(* The challenge.                                                          *)

\* Mutant: a backslash is not escaped.
EscapedQuotes == {"quote"}
Escaped == {"quote", "backslash"}
\* append_challenge_parameter() and is_quotable()
QuoteValue(value) ==
    <<"quote">> \o FlattenSeq([k \in DOMAIN value |->
        IF value[k] \in Escaped THEN <<"backslash", value[k]>> ELSE <<value[k]>>]) \o <<"quote">>
IsQuotable(value) == \A c \in ToSet(value) : c # "control"

NotClosed == [value |-> <<>>, rest |-> <<"open">>]
RECURSIVE ReadQuotedFrom(_, _)
ReadQuotedFrom(text, value) ==
    CASE text = <<>> \/ text = <<"backslash">> -> NotClosed
      [] Len(text) > 1 /\ text[1] = "backslash" ->
            ReadQuotedFrom(From(text, 3), Append(value, text[2]))
      [] text # <<>> /\ text[1] = "quote" -> [value |-> value, rest |-> Tail(text)]
      [] OTHER -> ReadQuotedFrom(Tail(text), Append(value, text[1]))
\* read_quoted_string(), from the opening quote.
ReadQuoted(text) == ReadQuotedFrom(Tail(text), <<>>)

ChallengeKeys == <<"realm", "error", "scope", "resource_metadata">>
\* format_www_authenticate(), of the parameters in "set".
FormatChallenge(set) ==
    LET written == SelectSeq(ChallengeKeys, LAMBDA key : key \in set)
    IN  <<"Bearer">> \o FlattenSeq([k \in DOMAIN written |->
            (IF k = 1 THEN <<" ">> ELSE <<",", " ">>) \o <<written[k], "=", "'v'">>])

\* http_bearer_token(): the scheme, one space, and what follows.
NoToken == <<>>
BearerToken(header) ==
    IF Len(header) > 2 /\ LowerName(header[1]) = "bearer" /\ header[2] = " " THEN From(header, 3)
    ELSE NoToken

-----------------------------------------------------------------------------
(* Where the metadata of a resource is.                                    *)

WellKnown == <<"/", ".well-known", "/", "oauth-protected-resource">>
\* split_resource()
ResourceText(resource) ==
    SubSeq(resource, 1, MarkAt(resource) + 2)
        \o Before(From(resource, MarkAt(resource) + 3), {"?", "#"})
HasHost(resource) ==
    LET rest == From(ResourceText(resource), MarkAt(resource) + 3) IN rest # <<>> /\ rest[1] # "/"
AuthorityEnd(url) == MarkAt(url) + 2 + Position(From(url, MarkAt(url) + 3), {"/"})
OriginOf(url) == SubSeq(url, 1, AuthorityEnd(url) - 1)
PathOf(url) == From(url, AuthorityEnd(url))

\* Mutant: the path is inserted as it is written.
KeepsSlashes(path) == path
RECURSIVE WithoutSlashes(_)
WithoutSlashes(path) ==
    IF path # <<>> /\ Last(path) = "/" THEN WithoutSlashes(Front(path)) ELSE path
TrimmedPath(path) == WithoutSlashes(path)

Derived == <<>>  \* no path was configured
\* validate_metadata_path()
UsablePath(path) ==
    /\ path[1] = "/"
    /\ \A segment \in ToSet(Segments(path)) : segment \notin {<<".">>, <<".", ".">>}
\* protected_resource_metadata_path() and protected_resource_metadata_url()
MetadataPath(resource, path) ==
    IF path # Derived THEN path ELSE WellKnown \o TrimmedPath(PathOf(ResourceText(resource)))
MetadataUrl(resource, path) == OriginOf(ResourceText(resource)) \o MetadataPath(resource, path)
\* What both throw on.
MetadataRefused(resource, path) ==
    \/ MarkAt(resource) > Len(resource) \/ ~HasHost(resource)
    \/ path # Derived /\ ~UsablePath(path)
\* http_request_path()
RequestPath(target) == Before(target, {"?", "#"})

\* discover_protected_resource(): the places a client without a challenge looks at.
Candidates(url) ==
    LET root == OriginOf(url) \o WellKnown
    IN  IF PathOf(url) \in {<<>>, <<"/">>} THEN <<root>> ELSE <<root \o PathOf(url), root>>

-----------------------------------------------------------------------------
(* What the two ends promise each other.                                   *)

\* Events are read as they were written, whatever their data says: also
\* when it begins with a space or looks like a field.  A line break in
\* the data would end it; JSON texts have none.
EventsReadAsWritten(data) ==
    LET events == <<[id |-> "event-1", data |-> data], [id |-> "event-2", data |-> <<"data:">>]>>
        read == ReadEvents(WriteEvents(events))
    IN  data # <<>> /\ "LF" \notin ToSet(data) /\ Last(data) # "CR" =>
            read = [k \in 1..2 |-> [id |-> <<events[k].id>>, data |-> events[k].data]]

\* A reader that is given another server's stream takes from every block of
\* lines the lines of data, and nothing from a block that has none.
RECURSIVE LinesOf(_)
LinesOf(text) ==
    IF "LF" \in ToSet(text) THEN <<Before(text, {"LF"})>> \o LinesOf(After(text, {"LF"})) ELSE <<text>>
BlocksKeptApart(text) ==
    LET lines == LinesOf(text)
        Blank(k) == WithoutReturn(lines[k]) = <<>>
        Says(k) == ~Blank(k) /\ Len(WithoutReturn(lines[k])) > 1 /\ lines[k][1] = "data:"
                    /\ FieldValue(Tail(WithoutReturn(lines[k]))) # <<>>
        \* The first line of data of its block.
        Opens(k) == Says(k) /\ \A j \in 1..(k - 1) : Says(j) => \E b \in (j + 1)..(k - 1) : Blank(b)
        opening == {k \in DOMAIN lines : Opens(k)}
        read == ReadEvents(text)
    IN  /\ Len(read) = Cardinality(opening)
        /\ \A k \in opening :
              IsPrefix(FieldValue(Tail(WithoutReturn(lines[k]))), read[Cardinality(opening \cap 1..k)].data)

\* What is quoted is read back, and the reader stops at its end.
QuotedIsRead(value) ==
    IsQuotable(value) => ReadQuoted(QuoteValue(value) \o <<"v", "quote">>) = [value |-> value, rest |-> <<"v", "quote">>]
\* The parameters that are set are the ones the client finds.
ChallengesAreRead ==
    \A set \in SUBSET ToSet(ChallengeKeys) :
        LET read == BearerChallenges(ParseHeader(FormatChallenge(set)))
        IN  /\ Len(read) = 1
            /\ ToSet(read[1].parameters) = {<<key, "v">> : key \in set}

\* A client that knows only the resource finds the document where the server
\* publishes it, unless the resource ends in a slash, which the server drops
\* and the client keeps, or has a query.
EndsInSlash(url) == TrimmedPath(PathOf(url)) \notin {<<>>, PathOf(url)}
MetadataIsFound(url) ==
    /\ ~MetadataRefused(url, Derived) /\ ~EndsInSlash(url) /\ ResourceText(url) = url
    => MetadataUrl(url, Derived) \in ToSet(Candidates(url))
================================================================================

------------------------------- MODULE PeerJson -------------------------------
(***************************************************************************)
(* The two places where the text of a message is read without parsing it:    *)
(* scan_jsonrpc_envelope, by which the session manager routes an answer to   *)
(* the request that waits for it, and exceeds_json_depth, which every        *)
(* document of a peer has to pass before it is parsed.                       *)
(***************************************************************************)
EXTENDS Integers, Sequences, SequencesExt, FiniteSetsExt

CONSTANT MaxPeerDepth   \* g_MAX_PEER_JSON_DEPTH

Quote == "'"            \* stands for the quotation mark
Escape == "\\"
Npos == 0
Unscanned == [id |-> <<>>, response |-> FALSE, delimited |-> FALSE]

SkipSpace(text, pos) == Min({k \in pos..Len(text) : text[k] # " "} \cup {Len(text) + 1})

AnyQuoteEnds(text, pos) ==
    LET ends == {k \in pos..Len(text) : text[k] = Quote} IN IF ends = {} THEN Npos ELSE Min(ends) + 1
\* From inside a string to the position after it.
RECURSIVE SkipString(_, _)
SkipString(text, pos) ==
    IF pos > Len(text) THEN Npos
    ELSE CASE text[pos] = Escape -> SkipString(text, pos + 2)
           [] text[pos] = Quote -> pos + 1
           [] OTHER -> SkipString(text, pos + 1)

\* What a character outside a string does to the depth.
Bracket(c) == IF c \in {"{", "["} THEN 1 ELSE IF c \in {"}", "]"} THEN -1 ELSE 0
RECURSIVE SkipNested(_, _, _)
SkipNested(text, pos, depth) ==
    IF pos = Npos \/ pos > Len(text) THEN Npos
    ELSE LET inside == depth + Bracket(text[pos])
         IN  IF text[pos] = Quote THEN SkipNested(text, SkipString(text, pos + 1), depth)
             ELSE IF text[pos] \in {"}", "]"} /\ inside = 0 THEN pos + 1
             ELSE SkipNested(text, pos + 1, inside)
SkipValue(text, pos) ==
    IF pos > Len(text) THEN Npos
    ELSE CASE text[pos] = Quote -> SkipString(text, pos + 1)
           [] text[pos] \in {"{", "["} -> SkipNested(text, pos, 0)
           [] OTHER -> Min({k \in pos..Len(text) : text[k] \in {",", "}", "]", " "}} \cup {Len(text) + 1})

AnyName(name) == TRUE
\* A name with an escape may be one of the three, written another way.
Legible(name) == Escape \notin Range(name)
CharAt(text, pos, c) == pos # Npos /\ pos <= Len(text) /\ text[pos] = c

RECURSIVE ScanMembers(_, _, _)
ScanMembers(text, pos, envelope) ==
    LET keyEnd == IF CharAt(text, pos, Quote) THEN SkipString(text, pos + 1) ELSE Npos
        key == SubSeq(text, pos + 1, keyEnd - 2)
        colon == SkipSpace(text, keyEnd)
        from == SkipSpace(text, colon + 1)
        end == SkipValue(text, from)
        next == SkipSpace(text, end)
        found == CASE key = <<"id">> -> [envelope EXCEPT !.id = SubSeq(text, from, end - 1)]
                   [] key \in {<<"result">>, <<"error">>} -> [envelope EXCEPT !.response = TRUE]
                   [] OTHER -> envelope
    IN  IF keyEnd = Npos \/ ~Legible(key) \/ ~CharAt(text, colon, ":") \/ end \in {Npos, from} THEN Unscanned
        ELSE CASE CharAt(text, next, "}") -> found
               [] CharAt(text, next, ",") -> ScanMembers(text, SkipSpace(text, next + 1), found)
               [] OTHER -> Unscanned
Scan(text) ==
    LET start == SkipSpace(text, 1)
        first == SkipSpace(text, start + 1)
        empty == [Unscanned EXCEPT !.delimited = TRUE]
    IN  IF ~CharAt(text, start, "{") THEN Unscanned
        ELSE IF CharAt(text, first, "}") THEN empty ELSE ScanMembers(text, first, empty)

EveryBracketCounts(state, c) ==
    LET depth == state.depth + Bracket(c)
    IN  [state EXCEPT !.depth = IF depth < 0 THEN 0 ELSE depth, !.over = @ \/ depth > MaxPeerDepth]
DepthStep(state, c) ==
    CASE state.inString ->
            [state EXCEPT !.escaped = ~@ /\ c = Escape, !.inString = state.escaped \/ c # Quote]
      [] ~state.inString /\ c = Quote -> [state EXCEPT !.inString = TRUE]
      [] OTHER -> EveryBracketCounts(state, c)
ExceedsDepth(text) ==
    FoldLeft(DepthStep, [depth |-> 0, inString |-> FALSE, escaped |-> FALSE, over |-> FALSE], text).over

-----------------------------------------------------------------------------
(* What a parser makes of the same text, given as tokens. *)

\* The characters of a token, and the text a string token stands for.
Spelling == [id |-> <<Quote, "id", Quote>>, result |-> <<Quote, "result", Quote>>,
             other |-> <<Quote, "}", "id", Quote>>, error |-> <<Quote, Escape, "u0065", "rror", Quote>>,
             quoted |-> <<Quote, Escape, Quote, "{", Escape, Escape, Quote>>]
StringTokens == DOMAIN Spelling
Marks == {"{", "}", "[", "]", ":", ",", " ", "7"}
Spelled(tokens) ==
    FlattenSeq([k \in DOMAIN tokens |-> IF tokens[k] \in StringTokens THEN Spelling[tokens[k]] ELSE <<tokens[k]>>])

Start == [stack |-> <<>>, expects |-> {"value"}, n |-> 0, key |-> "", from |-> 0, deepest |-> 0,
          object |-> FALSE, escapes |-> FALSE, id |-> <<>>, response |-> FALSE]
Malformed == [Start EXCEPT !.expects = {}]
AfterValue(s) ==
    CASE s.stack = <<>> -> [s EXCEPT !.expects = {"done"}]
      [] Len(s.stack) = 1 /\ s.object ->
            [s EXCEPT !.expects = {"comma"}, !.id = IF s.key = "id" THEN <<s.from, s.n>> ELSE @,
                      !.response = @ \/ s.key \in {"result", "error"}]
      [] OTHER -> [s EXCEPT !.expects = {"comma"}]
ParseStep(state, token) ==
    LET depth == Len(state.stack)
        s == [state EXCEPT !.n = @ + 1]
        starts == [s EXCEPT !.from = IF depth = 1 THEN s.n ELSE @]
    IN  CASE token = " " -> s
          [] token = ":" /\ "colon" \in s.expects -> [s EXCEPT !.expects = {"value"}]
          [] token = "," /\ "comma" \in s.expects ->
                [s EXCEPT !.expects = IF Last(s.stack) = "{" THEN {"key"} ELSE {"value"}]
          [] token \in StringTokens /\ "key" \in s.expects ->
                IF depth > 1 THEN [s EXCEPT !.expects = {"colon"}]
                ELSE [s EXCEPT !.expects = {"colon"}, !.key = token,
                               !.escapes = @ \/ Escape \in Range(Spelling[token])]
          [] token \in StringTokens \cup {"7"} /\ "value" \in s.expects -> AfterValue(starts)
          [] token \in {"{", "["} /\ "value" \in s.expects ->
                [starts EXCEPT !.stack = Append(@, token), !.object = IF depth = 0 THEN token = "{" ELSE @,
                               !.deepest = Max({@, depth + 1}),
                               !.expects = IF token = "{" THEN {"key", "end"} ELSE {"value", "end"}]
          [] token \in {"}", "]"} /\ s.expects \cap {"comma", "end"} # {}
                /\ Last(s.stack) = (IF token = "}" THEN "{" ELSE "[") ->
                AfterValue([s EXCEPT !.stack = Front(@)])
          [] OTHER -> Malformed
ParsedText(tokens) == FoldLeft(ParseStep, Start, tokens)

\* An answer is routed to the request it would be routed to if it were parsed, and
\* the scan gives up on no message but one that is not an object or has a name it
\* cannot read.
RoutesAsParsed(tokens) ==
    LET text == Spelled(tokens)
        parsed == ParsedText(tokens)
        scanned == Scan(text)
    IN  "done" \in parsed.expects =>
            /\ scanned.delimited = (parsed.object /\ ~parsed.escapes)
            /\ scanned.delimited =>
                  /\ (scanned.id # <<>> /\ scanned.response) = (parsed.id # <<>> /\ parsed.response)
                  /\ parsed.id # <<>> =>
                        scanned.id = Spelled(SubSeq(tokens, parsed.id[1], parsed.id[2]))

\* What is refused before it is parsed is what nests too deep.
DepthIsNesting(tokens) == ExceedsDepth(Spelled(tokens)) = (ParsedText(tokens).deepest > MaxPeerDepth)
===============================================================================

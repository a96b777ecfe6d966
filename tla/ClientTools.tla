------------------------------ MODULE ClientTools ------------------------------
(***************************************************************************)
(* What mcp::Client remembers of the tools the server lists                *)
(* (src/src/client/client.cpp, listed_tools): list_tools() compiles the    *)
(* schemas of each tool of an answer and call_tool() checks a result       *)
(* against the output schema remembered for its tool.                      *)
(*                                                                         *)
(* Each call runs on the executor of its caller, so the answers of two     *)
(* listings are handled at the same time; listed_tools_mutex is held for   *)
(* one look and for one store, and not while a schema is compiled.         *)
(***************************************************************************)
CONSTANTS
    Tools,          \* names
    Listings,       \* the calls of list_tools()
    ToolCalls,      \* the calls of call_tool()
    Schemas,        \* [input, output]: the two texts of a listed tool
    NoSchema,       \* no output schema, or nothing remembered
    UsableTexts     \* the texts that CompiledSchema accepts

VARIABLES
    listed,         \* listed_tools: the schemas remembered for a tool
    listing,        \* where each listing is, and the tools of its answer
    toolCall,       \* where each call is, and the schema it will check against
    rivals          \* per tool, the schemas of the last listing and of those handled with it

vars == <<listed, listing, toolCall, rivals>>

SomeAnswers == UNION {[S -> Schemas] : S \in SUBSET Tools}
Nothing == [t \in {} |-> NoSchema]
NewListing == [pc |-> "idle", left |-> Nothing, tool |-> NoSchema, kept |-> Nothing]

\* The values each variable can hold.
TypeOK ==
    /\ listed \in [Tools -> Schemas \cup {NoSchema}]
    /\ listing \in [Listings -> [pc : {"idle", "asked", "looking", "compiling", "done"},
                                 left : SomeAnswers, tool : Tools \cup {NoSchema}, kept : SomeAnswers]]
    /\ toolCall \in [ToolCalls -> [pc : {"idle", "sent", "returned", "refused"}, tool : Tools \cup {NoSchema},
                                   schema : Schemas \cup {NoSchema}]]
    /\ rivals \in [Tools -> SUBSET Schemas]

Init ==
    /\ listed = [t \in Tools |-> NoSchema]
    /\ listing = [l \in Listings |-> NewListing]
    /\ toolCall = [c \in ToolCalls |-> [pc |-> "idle", tool |-> NoSchema, schema |-> NoSchema]]
    /\ rivals = [t \in Tools |-> {}]

-----------------------------------------------------------------------------
\* list_tools() sends its request.
List(l) ==
    /\ listing[l].pc = "idle"
    /\ listing' = [listing EXCEPT ![l].pc = "asked"]
    /\ UNCHANGED <<listed, toolCall, rivals>>

Handled(t) == \E l \in Listings : t \in DOMAIN listing[l].left

\* accepted_tools: the request failed, or its answer is handled from here on.
Receive(l, answer) ==
    /\ listing[l].pc = "asked"
    /\ listing' = [listing EXCEPT ![l] = [@ EXCEPT !.pc = "looking", !.left = answer]]
    /\ rivals' = [t \in Tools |->
            IF t \notin DOMAIN answer THEN rivals[t]
            ELSE {answer[t]} \cup (IF Handled(t) THEN rivals[t] ELSE {})]
    /\ UNCHANGED <<listed, toolCall>>
ListingFails(l) ==
    /\ listing[l].pc = "asked"
    /\ listing' = [listing EXCEPT ![l].pc = "done"]
    /\ UNCHANGED <<listed, toolCall, rivals>>

Rest(l, t) == [u \in DOMAIN listing[l].left \ {t} |-> listing[l].left[u]]
Keeping(l, t) ==
    [u \in DOMAIN listing[l].kept \cup {t} |->
        IF u = t THEN listing[l].left[t] ELSE listing[l].kept[u]]
\* The next tool of the answer, this one returned to the application or left out.
Advance(l, t, kept) ==
    listing' = [listing EXCEPT ![l] = [@ EXCEPT !.pc = "looking", !.left = Rest(l, t), !.kept = kept]]

\* Mutant: a tool is known by its input schema.
SameInput(t, schemas) == listed[t] # NoSchema /\ listed[t].input = schemas.input
Known(t, schemas) == listed[t] = schemas

\* Mutant: the schemas are remembered before they are compiled.
RememberedFirst(t, schemas) == [listed EXCEPT ![t] = schemas]
\* What the first part of remember_tool leaves of listed_tools.
Unremembered(t, schemas) == listed

\* remember_tool: the first look, under the lock.
Look(l, t) ==
    /\ listing[l].pc = "looking"
    /\ t \in DOMAIN listing[l].left
    /\ IF Known(t, listing[l].left[t])
       THEN Advance(l, t, Keeping(l, t)) /\ UNCHANGED listed
       ELSE /\ listing' = [listing EXCEPT ![l] = [@ EXCEPT !.pc = "compiling", !.tool = t]]
            /\ listed' = Unremembered(t, listing[l].left[t])
    /\ UNCHANGED <<toolCall, rivals>>

Compiles(schemas) == {schemas.input, schemas.output} \subseteq UsableTexts \cup {NoSchema}

\* Mutant: what was remembered of a tool outlives schemas that cannot be used.
LeftAlone(t) == listed
Forgotten(t) == [listed EXCEPT ![t] = NoSchema]

\* remember_tool: both schemas compiled, or one cannot be used and the tool is left out.
Store(l) ==
    LET t == listing[l].tool
        schemas == listing[l].left[t]
    IN  /\ listing[l].pc = "compiling"
        /\ IF Compiles(schemas)
           THEN /\ listed' = [listed EXCEPT ![t] = schemas]
                /\ Advance(l, t, Keeping(l, t))
           ELSE /\ listed' = Forgotten(t)
                /\ Advance(l, t, listing[l].kept)
        /\ UNCHANGED <<toolCall, rivals>>

\* list_tools() returns the tools that are kept.
Return(l) ==
    /\ listing[l].pc = "looking" /\ listing[l].left = Nothing
    /\ listing' = [listing EXCEPT ![l].pc = "done"]
    /\ UNCHANGED <<listed, toolCall, rivals>>

\* call_tool_with: the schema is the one remembered when the call is made.
CallTool(c, t) ==
    /\ toolCall[c].pc = "idle"
    /\ toolCall' = [toolCall EXCEPT ![c] = [pc |-> "sent", tool |-> t, schema |-> listed[t]]]
    /\ UNCHANGED <<listed, listing, rivals>>

\* checked_call_result, for an answer that is an error or has no structured
\* content, or whose content conforms to the output schemas of a set.
Refuses(schema, plain, conforms) ==
    schema # NoSchema /\ schema.output # NoSchema /\ ~plain /\ schema.output \notin conforms
Answer(c, plain, conforms) ==
    /\ toolCall[c].pc = "sent"
    /\ toolCall' = [toolCall EXCEPT ![c].pc =
                        IF Refuses(toolCall[c].schema, plain, conforms) THEN "refused" ELSE "returned"]
    /\ UNCHANGED <<listed, listing, rivals>>

Next ==
    \/ \E l \in Listings :
          \/ List(l) \/ ListingFails(l) \/ Store(l) \/ Return(l)
          \/ \E answer \in SomeAnswers : Receive(l, answer)
          \/ \E t \in Tools : Look(l, t)
    \/ \E c \in ToolCalls :
          \/ \E t \in Tools : CallTool(c, t)
          \/ \E plain \in BOOLEAN, conforms \in SUBSET {s.output : s \in Schemas} : Answer(c, plain, conforms)

Spec == Init /\ [][Next]_vars

-----------------------------------------------------------------------------
\* A tool that list_tools() returned, and a schema a call will check against, has
\* compiled, also when another listing leaves the same tool out at that moment.
OnlyUsable ==
    /\ \A l \in Listings : \A t \in DOMAIN listing[l].kept : Compiles(listing[l].kept[t])
    /\ \A s \in {listed[t] : t \in Tools} \cup {toolCall[c].schema : c \in ToolCalls} :
          s # NoSchema => Compiles(s)

\* What a call is checked against is "the output schema from the most recent
\* list_tools() result that included the tool" (client.hpp:111), or one of those
\* that were handled at the same time; and nothing if it could not be used.
Remembered(schemas) == IF Compiles(schemas) THEN schemas ELSE NoSchema
KnowsTheLatest ==
    \A t \in Tools :
        ~Handled(t) => listed[t] \in IF rivals[t] = {} THEN {NoSchema} ELSE {Remembered(s) : s \in rivals[t]}

ToolsAsListed == OnlyUsable /\ KnowsTheLatest
=============================================================================

------------------------------- MODULE MCClient -------------------------------
(***************************************************************************)
(* Small instances of the client: its requests, against every order of     *)
(* answers, failures, deadlines and close(), and what it keeps between     *)
(* requests, the listed tools and the roots.  The three share no state     *)
(* beyond requests whose results the models leave open, so a behaviour     *)
(* exercises one of them, picked by `part`.                                *)
(***************************************************************************)
EXTENDS Client

CONSTANTS
    Tools, Listings, ToolCalls, Schemas, NoSchema, UsableTexts,     \* of ClientTools
    MaxRoots                                                        \* of ClientRoots

ASSUME KeptAssumption == NoSchema \notin Schemas /\ MaxRoots \in Nat

VARIABLES part,
          listed, listing, toolCall, rivals,
          roots, registered, capability, session, spawned, notices, asked, replies, followed, silent

\* A tool whose output schema changes, cannot be used, or is left out.
Listed(input, output) == [input |-> input, output |-> output]
SomeSchemas == {Listed("in", "out"), Listed("in", "other"), Listed("in", "bad"),
                Listed("bad", NoSchema), Listed("in", NoSchema)}

T == INSTANCE ClientTools
R == INSTANCE ClientRoots

tvars == <<listed, listing, toolCall, rivals>>
rvars == <<roots, registered, capability, session, spawned, notices, asked, replies, followed, silent>>

MCInit == part \in {"requests", "tools", "roots"} /\ Init /\ T!Init /\ R!Init

\* Bound: the peer's request shares only the writer with the second request.
OneAtATime ==
    \A r \in Requests \ {Initialize}, c \in Incoming : call'[r] = "idle" \/ call'[c] = "idle"

MCNext ==
    \/ part = "requests" /\ Next /\ OneAtATime /\ UNCHANGED <<part, tvars, rvars>>
    \/ part = "tools" /\ T!Next /\ UNCHANGED <<part, vars, rvars>>
    \/ part = "roots" /\ R!Next /\ UNCHANGED <<part, vars, tvars>>

MCSpec == MCInit /\ [][MCNext]_<<part, vars, tvars, rvars>> /\ StrandFairness

\* What the client keeps agrees with what is under way: its requests with their
\* coroutines (client.cpp:160-260, 550-560), the schemas with the tools it listed
\* (604-656), and the server's roots with its own (841-874).
KeptStateAgrees == TableMatchesCalls /\ T!ToolsAsListed /\ R!RootsReachServer
=============================================================================

---------------------------- MODULE MCSessionManager ----------------------------
\* Model checking of SessionManager: the initialize and two calls, with a scenario
\* that says which two.
EXTENDS SessionManager

VARIABLE scenario

Hello == [n |-> "h", id |-> 0, kind |-> "initialize"]
CallA == [n |-> "a", id |-> 1, kind |-> "call"]
CallB == [n |-> "b", id |-> 2, kind |-> "call"]
AgainA == [n |-> "c", id |-> 1, kind |-> "call"]
AllPosts == {Hello, CallA, CallB, AgainA}

Sends == [
    \* Two calls with different ids.
    routing |-> {Hello, CallA, CallB},
    \* Two calls with the same id.
    reuse |-> {Hello, CallA, AgainA}]

\* Bounds: close() meets the calls with one id, set_json_only those with two.
MCInit == Init /\ scenario \in DOMAIN Sends
MCNext ==
    /\ Next /\ UNCHANGED scenario
    /\ \A p \in Posts : at'[p] # "idle" => p \in Sends[scenario]
    /\ IF scenario = "routing" THEN ~closed' ELSE flips' = 0

MCSpec == MCInit /\ [][MCNext]_<<vars, scenario>> /\ Fairness
=============================================================================

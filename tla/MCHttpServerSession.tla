-------------------------- MODULE MCHttpServerSession --------------------------
\* Model checking of HttpServerSession: one transport, and a scenario that says
\* which POSTs the clients send.
EXTENDS HttpServerSession, TLC

CONSTANT Scenarios
VARIABLE scenario

Request(n, kind, id) == [n |-> n, kind |-> kind, id |-> id]
Initialize1 == Request(1, "initialize", 1)
Call2 == Request(2, "call", 2)
Initialized == {Request(11, "initialized", 0), Request(12, "initialized", 0)}

Sends == [
    \* A call of the first client and one of the second; all ids differ.
    distinct |-> {Initialize1, Call2, Request(3, "initialize", 3), Request(4, "call", 4)}
                 \cup Initialized,
    \* The first client subscribes, and leaves while the resource changes.
    watching |-> {Initialize1, Request(2, "subscribe", 2), Request(3, "initialize", 3),
                  Request(5, "unsubscribe", 5), Request(21, "update", 0),
                  Request(11, "initialized", 0)},
    \* The first client leaves while its call reports progress.
    reporting |-> {Initialize1, Call2, Request(3, "initialize", 3), Request(23, "report", 0)}
                  \cup Initialized,
    \* The first client sets the log level.
    levels |-> {Initialize1, Request(2, "setLevel", 2), Request(3, "initialize", 3),
                Request(11, "initialized", 0)},
    \* Two discovers that carry the id of a call compete for the room of one.
    discover |-> {Initialize1, Call2, Request(5, "discover", 2), Request(6, "discover", 2),
                  Request(11, "initialized", 0), Request(13, "cancelled", 2)},
    \* Both clients count their request ids from the same number.
    shared |-> {Initialize1, Call2, Request(3, "initialize", 1), Request(4, "call", 2)}
               \cup Initialized,
    \* The second client starts with the id the first used for its call.
    crossed |-> {Initialize1, Call2, Request(3, "initialize", 2)} \cup Initialized,
    \* Clients that do not know of each other.
    racing |-> {Initialize1, Request(2, "initialize", 2), Request(3, "initialize", 3)}
               \cup Initialized]

Sent == UNION {Sends[s] : s \in Scenarios}
SentNotes == {p \in Sent : p.kind \in {"initialized", "cancelled"}}
SentTellings == {p \in Sent : p.kind \in {"update", "report"}}
SentPosts == Sent \ (SentNotes \cup SentTellings)

\* Bound: close() races the discovers; with two clients it adds only states.
MCInit == Init /\ scenario \in Scenarios
MCNext == /\ Next /\ UNCHANGED scenario
          /\ \A p \in SentPosts \cup SentNotes : http'[p] # "idle" => p \in Sends[scenario]
          /\ \A t \in SentTellings : cause'[t] # NoPost => t \in Sends[scenario]
          /\ scenario # "discover" => ~closed'
MCSafety == MCInit /\ [][MCNext]_<<vars, scenario>>
MCSpec == MCSafety /\ Fairness
=============================================================================

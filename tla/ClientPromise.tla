------------------------------ MODULE ClientPromise ------------------------------
(***************************************************************************)
(* What mcp::Client promises of the messages it is given, without strand,    *)
(* table, timers or queue: a request is put to the peer at most once, only   *)
(* while its caller waits, and the caller is told one verdict, which is the  *)
(* peer's if the peer spoke before the deadline; a notification or an answer *)
(* is called sent only if it was; and the handshake comes first.             *)
(***************************************************************************)
EXTENDS Naturals, Sequences

CONSTANTS Requests, Initialize, Notes, Initialized, Incoming

VARIABLES stage,      \* where each message is: "idle", then "asked", then "done"
          verdict,    \* what its caller is told, or would be by now
          late,       \* the asked requests whose deadline has passed
          over,       \* TRUE once the client is closed
          sent        \* what reached the transport

prom == <<stage, verdict, late, over, sent>>

Messages == Requests \cup Notes \cup Incoming
PeersWord == {"result", "rpcError", "cancelled"}
Sent == {sent[i] : i \in 1..Len(sent)}

Init ==
    /\ stage = [o \in Messages |-> "idle"]
    /\ verdict = [o \in Messages |-> "open"]
    /\ late = {}
    /\ over = FALSE
    /\ sent = <<>>

\* The initialize request comes first, and the initialized notification waits for
\* its result.
Ask(o) ==
    /\ stage[o] = "idle"
    /\ o # Initialize => stage[Initialize] # "idle"
    /\ o = Initialized => stage[Initialize] = "done" /\ verdict[Initialize] = "result"
    /\ stage' = [stage EXCEPT ![o] = "asked"]
    /\ UNCHANGED <<verdict, late, over, sent>>

\* A message reaches the transport once, and only while its caller waits.
Deliver(o) ==
    /\ stage[o] = "asked"
    /\ o \notin Sent
    /\ sent' = Append(sent, o)
    /\ UNCHANGED <<stage, verdict, late, over>>

\* The peer answers or cancels a request that reached it in time.  Its word
\* replaces a failure and an earlier word of its own.
Answer(r, word) ==
    /\ stage[r] = "asked"
    /\ r \in Sent
    /\ r \notin late
    /\ verdict' = [verdict EXCEPT ![r] = word]
    /\ UNCHANGED <<stage, late, over, sent>>

\* Requests that nothing has decided yet fail: one with its write, unless it is
\* late, or all of them with the connection.
Fail(S, why) ==
    /\ \A r \in S : stage[r] = "asked" /\ verdict[r] = "open"
    /\ over' \in {over, TRUE}
    /\ IF why = "writeFailed" THEN S \cap late = {} ELSE over'
    /\ verdict' = [o \in Messages |-> IF o \in S THEN why ELSE verdict[o]]
    /\ UNCHANGED <<stage, late, sent>>

Expire(r) ==
    /\ stage[r] = "asked"
    /\ late' = late \cup {r}
    /\ UNCHANGED <<stage, verdict, over, sent>>

Close ==
    /\ over' = TRUE
    /\ UNCHANGED <<stage, verdict, late, sent>>

\* What a caller can be told when nothing decided before it wakes.
Closing(o) ==
    (IF over THEN {"closed"} ELSE {})
        \cup (IF o \in Requests THEN IF o \in late THEN {"timeout"} ELSE {}
              ELSE {"writeFailed"} \cup (IF o \in Sent THEN {"sent"} ELSE {}))

\* The caller is told, once.
Tell(o) ==
    /\ stage[o] = "asked"
    /\ stage' = [stage EXCEPT ![o] = "done"]
    /\ \/ verdict[o] # "open" /\ UNCHANGED verdict
       \/ verdict[o] = "open" /\ \E v \in Closing(o) : verdict' = [verdict EXCEPT ![o] = v]
    /\ late' = late \ {o}
    /\ UNCHANGED <<over, sent>>

Next ==
    \/ Close
    \/ \E o \in Messages : Ask(o) \/ Deliver(o) \/ Tell(o)
    \/ \E r \in Requests : Expire(r) \/ \E word \in PeersWord : Answer(r, word)
    \/ \E S \in SUBSET Requests : Fail(S, "closed") \/ Fail(S, "writeFailed")

Spec == Init /\ [][Next]_prom
=============================================================================

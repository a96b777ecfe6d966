------------------------------ MODULE WriteChannel ------------------------------
(***************************************************************************)
(* What SerializedTransportWriter promises its callers, without queue flags  *)
(* or coroutines: calls wait in line in call order; the line is settled from *)
(* its front, and at most one call is with the transport at a time.          *)
(***************************************************************************)
EXTENDS Naturals, Sequences

CONSTANT Ops

VARIABLES line,       \* the unsettled calls, oldest first
          inFlight,   \* TRUE while the first of them is with the transport
          verdict,    \* how each call was settled
          out         \* what reached the transport

chan == <<line, inFlight, verdict, out>>

Init ==
    /\ line = <<>>
    /\ inFlight = FALSE
    /\ verdict = [o \in Ops |-> "idle"]
    /\ out = <<>>

\* A call joins the end of the line.
Call(o) ==
    /\ verdict[o] = "idle"
    /\ line' = Append(line, o)
    /\ verdict' = [verdict EXCEPT ![o] = "queued"]
    /\ UNCHANGED <<inFlight, out>>

\* The first n calls of the line are settled: the one with the transport by
\* what the transport said, the others by an abort.  The next call may then be
\* handed to the transport, which takes it or, once closed, does not.
Settle(n) ==
    /\ n \in 0..Len(line)
    /\ inFlight => n > 0
    /\ \E result \in {"ok", "failed"} :
          verdict' = [o \in Ops |->
              IF \E i \in 1..n : line[i] = o
              THEN IF inFlight /\ line[1] = o THEN result ELSE "aborted"
              ELSE verdict[o]]
    /\ line' = SubSeq(line, n + 1, Len(line))
    /\ inFlight' = (n < Len(line))
    /\ \/ out' = out
       \/ n < Len(line) /\ out' = Append(out, line[n + 1])

Next == (\E o \in Ops : Call(o)) \/ (\E n \in 0..Len(line) : Settle(n))

Spec == Init /\ [][Next]_chan
=============================================================================

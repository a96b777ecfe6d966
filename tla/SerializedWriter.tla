---------------------------- MODULE SerializedWriter ----------------------------
(***************************************************************************)
(* SerializedTransportWriter (src/src/core/serialized_transport_writer.cpp): *)
(* every write_message call of a client or a server queues one Operation on  *)
(* a strand, and one drain coroutine hands the queued operations to the      *)
(* transport one after the other.                                            *)
(*                                                                           *)
(* A step is what a coroutine does on the strand between two suspension      *)
(* points.  The transport is external: a write begun on it ends some time    *)
(* later, with success or with an exception.                                 *)
(***************************************************************************)
EXTENDS Naturals, Sequences

CONSTANT Ops          \* the write_message calls, each made at most once

VARIABLES
    queue,            \* State::queue, the operations not yet finished
    draining,         \* State::draining
    drainer,          \* where the drain coroutine is suspended
    cancel,           \* the operations whose cancel_before_start flag is set
    status,           \* Operation::completed and Operation::error
    returned,         \* the calls enqueue_and_wait has returned from
    transportOpen,    \* FALSE once ITransport::close ran
    wire,             \* history: what was handed to the open transport
    accepted          \* history: the operations in the order they were queued

vars == <<queue, draining, drainer, cancel, status, returned, transportOpen, wire, accepted>>

Pending == {"idle", "queued"}
Finished == {"ok", "failed", "aborted"}

\* The values each variable of the writer can hold.
TypeOK ==
    /\ queue \in Seq(Ops)
    /\ draining \in BOOLEAN
    /\ drainer \in {"none", "spawned", "writing"}
    /\ cancel \in SUBSET Ops
    /\ status \in [Ops -> Pending \cup Finished]
    /\ returned \in SUBSET Ops
    /\ transportOpen \in BOOLEAN
    /\ wire \in Seq(Ops)
    /\ accepted \in Seq(Ops)

Init ==
    /\ queue = <<>>
    /\ draining = FALSE
    /\ drainer = "none"
    /\ cancel = {}
    /\ status = [o \in Ops |-> "idle"]
    /\ returned = {}
    /\ transportOpen = TRUE
    /\ wire = <<>>
    /\ accepted = <<>>

---------------------------------------------------------------------------
\* Mutant: the new operation overtakes the waiting ones.
PushedInFront(q, o) == IF q = <<>> THEN <<o>> ELSE <<Head(q), o>> \o Tail(q)

\* state->queue.push_back(operation)
Pushed(q, o) == Append(q, o)

\* write_message and enqueue_and_wait up to its wait: queue the operation and
\* spawn the drain coroutine unless one is already draining.
Enqueue(o) ==
    /\ status[o] = "idle"
    /\ queue' = Pushed(queue, o)
    /\ accepted' = Append(accepted, o)
    /\ status' = [status EXCEPT ![o] = "queued"]
    /\ draining' = TRUE
    /\ drainer' = IF draining THEN drainer ELSE "spawned"
    /\ UNCHANGED <<cancel, returned, transportOpen, wire>>

\* The owner of an operation sets its cancel_before_start flag, which it may do
\* at any time.
SetCancel(o) ==
    /\ cancel' = cancel \cup {o}
    /\ UNCHANGED <<queue, draining, drainer, status, returned, transportOpen, wire, accepted>>

\* Mutant: the flag is not looked at.
SkipsNothing(q, k) == k = 0

\* The loop of drain drops exactly the first k operations of q: they are all
\* cancelled and the next one, if there is one, is not.
Skips(q, k) ==
    /\ \A i \in 1..k : q[i] \in cancel
    /\ k < Len(q) => q[k + 1] \notin cancel

\* Mutant: drain returns without clearing the draining flag.
LeavesDraining(q, k) ==
    /\ draining' = TRUE
    /\ drainer' = IF k < Len(q) THEN "writing" ELSE "none"

\* drain goes on to the write of the next operation, or clears draining and ends.
WritesNextOrEnds(q, k) ==
    /\ draining' = (k < Len(q))
    /\ drainer' = IF k < Len(q) THEN "writing" ELSE "none"

\* One run of the drain loop from q up to the next write it begins, or to its
\* end.  A write begun on a closed transport does not reach the wire.
Drain(q, st) ==
    \E k \in 0..Len(q) :
        /\ Skips(q, k)
        /\ queue' = SubSeq(q, k + 1, Len(q))
        /\ status' = [o \in Ops |-> IF \E i \in 1..k : q[i] = o THEN "aborted" ELSE st[o]]
        /\ WritesNextOrEnds(q, k)
        /\ wire' = IF k < Len(q) /\ transportOpen THEN Append(wire, q[k + 1]) ELSE wire

\* The spawned drain coroutine runs for the first time.
DrainStart ==
    /\ drainer = "spawned"
    /\ Drain(queue, status)
    /\ UNCHANGED <<cancel, returned, transportOpen, accepted>>

\* Mutant: a flag set while the write was running turns its result into an abort.
AbortedIfCancelled(o, result) == IF o \in cancel THEN "aborted" ELSE result

\* complete(operation, error): the verdict is what the transport said.
Verdict(o, result) == result

\* The write of the front operation ends; drain pops it, completes it and goes on.
WriteDone(result) ==
    /\ drainer = "writing"
    /\ result = "ok" => \E i \in 1..Len(wire) : wire[i] = Head(queue)
    /\ Drain(Tail(queue), [status EXCEPT ![Head(queue)] = Verdict(Head(queue), result)])
    /\ UNCHANGED <<cancel, returned, transportOpen, accepted>>

\* enqueue_and_wait wakes with the operation completed and returns or throws.
Return(o) ==
    /\ status[o] \in Finished
    /\ o \notin returned
    /\ returned' = returned \cup {o}
    /\ UNCHANGED <<queue, draining, drainer, cancel, status, transportOpen, wire, accepted>>

\* ITransport::close, called by whoever owns the transport.
CloseTransport ==
    /\ transportOpen
    /\ transportOpen' = FALSE
    /\ UNCHANGED <<queue, draining, drainer, cancel, status, returned, wire, accepted>>

Next ==
    \/ \E o \in Ops : Enqueue(o) \/ SetCancel(o) \/ Return(o)
    \/ DrainStart
    \/ \E result \in {"ok", "failed"} : WriteDone(result)
    \/ CloseTransport

\* The executor runs what is posted to the strand, and every write begun on a
\* transport ends: with its close() at the latest, which fails it.
Fairness ==
    /\ WF_vars(DrainStart)
    /\ WF_vars(\E result \in {"ok", "failed"} : WriteDone(result))
    /\ \A o \in Ops : WF_vars(Return(o))

Safety == Init /\ [][Next]_vars
Spec == Safety /\ Fairness

---------------------------------------------------------------------------
\* No wakeup is lost between a drain coroutine that ends and a call that finds
\* draining set: while an operation waits, a drain coroutine is alive.
NoOperationStranded == queue # <<>> => drainer # "none"

\* Calls are written in the order they were queued, whatever is cancelled or
\* fails in between (the FIFO promise of serialized_transport_writer.hpp).
WrittenInOrder ==
    \A i, j \in 1..Len(wire) : \A a, b \in 1..Len(accepted) :
        i < j /\ wire[i] = accepted[a] /\ wire[j] = accepted[b] => a < b

\* An operation that completes with operation_aborted was never written, and
\* one that completes without error was: the caller's verdict is the truth.
VerdictMatchesWire ==
    \A o \in Ops :
        /\ status[o] = "aborted" => \A i \in 1..Len(wire) : wire[i] # o
        /\ status[o] = "ok" => \E i \in 1..Len(wire) : wire[i] = o

\* A cancel flag set before the write begins is honoured: an operation that is
\* not on the wire while its flag is set never gets there afterwards.
CancelStopsWrite ==
    [][\A o \in cancel : (\A i \in 1..Len(wire) : wire[i] # o)
                            => (\A i \in 1..Len(wire') : wire'[i] # o)]_vars

\* One failed or cancelled operation takes nobody with it: every queued call
\* returns (a failed write fails only its own call).
EveryCallReturns == \A o \in Ops : status[o] = "queued" ~> o \in returned
=============================================================================

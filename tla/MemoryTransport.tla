----------------------------- MODULE MemoryTransport -----------------------------
(***************************************************************************)
(* MemoryTransport (src/src/transport/memory.cpp), one direction of a pair:  *)
(* what is written on the sending end is read on the receiving end.  Reads   *)
(* and deliveries run on the receiver's strand; close() sets the flag of     *)
(* either end from any thread, so the two flags change one after the other.  *)
(***************************************************************************)
EXTENDS Sequences, SequencesExt

CONSTANTS
    Messages,    \* the writes of the sender, each made at most once
    Reads,       \* the reads of the receiver, each made at most once
    NoMessage

VARIABLES
    closed,      \* MemoryTransportState::closed of both ends
    closing,     \* ends whose close() has still to close its peer
    wakePosted,  \* close_endpoint's job is posted on the receiver's strand
    incoming,    \* incoming of the receiver
    waiters,     \* read_waiters of the receiver
    read,        \* where each read is
    message,     \* ReadWaiter::message, then what the read returns
    cancelled,   \* waiting reads whose caller was cancelled
    write,       \* where each write is
    accepted     \* history: the messages in the order the receiver's strand took them

vars == <<closed, closing, wakePosted, incoming, waiters, read, message, cancelled, write, accepted>>

Ends == {"sender", "receiver"}

\* Mutant: close() is content with its own end.
PeerForgotten(e) == e

\* lock_peer
Peer(e) == CHOOSE other \in Ends : other # e
Ended == {"returned", "closed", "aborted"}

\* The values each variable of the pair can hold.
TypeOK ==
    /\ closed \in [Ends -> BOOLEAN] /\ closing \subseteq Ends /\ wakePosted \in BOOLEAN
    /\ incoming \in Seq(Messages) /\ accepted \in Seq(Messages) /\ waiters \in Seq(Reads)
    /\ read \in [Reads -> {"idle", "spawned", "waiting", "woken"} \cup Ended]
    /\ message \in [Reads -> Messages \cup {NoMessage}]
    /\ cancelled \subseteq Reads
    /\ write \in [Messages -> {"idle", "spawned", "sent", "failed"}]

Init ==
    /\ closed = [e \in Ends |-> FALSE] /\ closing = {} /\ wakePosted = FALSE
    /\ incoming = <<>> /\ waiters = <<>> /\ accepted = <<>>
    /\ read = [r \in Reads |-> "idle"] /\ message = [r \in Reads |-> NoMessage]
    /\ cancelled = {}
    /\ write = [m \in Messages |-> "idle"]

---------------------------------------------------------------------------
\* read_message: next_message_or_closed is spawned on the strand.
CallRead(r) ==
    /\ read[r] = "idle"
    /\ read' = [read EXCEPT ![r] = "spawned"]
    /\ UNCHANGED <<closed, closing, wakePosted, incoming, waiters, message, cancelled, write, accepted>>

\* next_message_or_closed up to its wait: nothing once the receiver is closed,
\* the oldest message, or a place among the waiters.
StartRead(r) ==
    /\ read[r] = "spawned"
    /\ \/ /\ closed["receiver"]
          /\ read' = [read EXCEPT ![r] = "closed"]
          /\ UNCHANGED <<incoming, waiters, message>>
       \/ /\ ~closed["receiver"] /\ incoming # <<>>
          /\ read' = [read EXCEPT ![r] = "returned"]
          /\ message' = [message EXCEPT ![r] = Head(incoming)]
          /\ incoming' = Tail(incoming)
          /\ UNCHANGED waiters
       \/ /\ ~closed["receiver"] /\ incoming = <<>>
          /\ read' = [read EXCEPT ![r] = "waiting"]
          /\ waiters' = Append(waiters, r)
          /\ UNCHANGED <<incoming, message>>
    /\ UNCHANGED <<closed, closing, wakePosted, cancelled, write, accepted>>

\* The caller of a waiting read is cancelled, which aborts the wait.
CancelRead(r) ==
    /\ read[r] = "waiting"
    /\ read' = [read EXCEPT ![r] = "woken"]
    /\ cancelled' = cancelled \cup {r}
    /\ UNCHANGED <<closed, closing, wakePosted, incoming, waiters, message, write, accepted>>

\* Mutant: an aborted wait throws although a message arrived meanwhile.
AbortsFirst(r) == r \in cancelled

\* Mutant: a wait that was aborted counts as one that found a message.
NeverAborts(r) == FALSE

\* error && !waiter->message && !closed
Aborts(r) == r \in cancelled /\ message[r] = NoMessage

\* The wait ends: closed, aborted, or with the message of the waiter.
ResumeRead(r) ==
    /\ read[r] = "woken"
    /\ read' = [read EXCEPT ![r] = IF closed["receiver"] THEN "closed"
                                   ELSE IF Aborts(r) THEN "aborted" ELSE "returned"]
    /\ UNCHANGED <<closed, closing, wakePosted, incoming, waiters, message, cancelled, write, accepted>>

---------------------------------------------------------------------------
\* write_message on the caller's executor: the sender's flag is looked at and
\* the delivery is spawned on the receiver's strand.
CallWrite(m) ==
    /\ write[m] = "idle"
    /\ write' = [write EXCEPT ![m] = IF closed["sender"] THEN "failed" ELSE "spawned"]
    /\ UNCHANGED <<closed, closing, wakePosted, incoming, waiters, read, message, cancelled, accepted>>

\* weak_waiter.lock(): the coroutine of the read still exists.
LiveWaiter(r) == read[r] \notin Ended

\* deliver_message: to the first waiter that still exists, or to the queue.
DeliverMessage(m) ==
    \E k \in 0..Len(waiters) :
        /\ \A i \in 1..k : ~LiveWaiter(waiters[i])
        /\ IF k < Len(waiters)
           THEN /\ LiveWaiter(waiters[k + 1])
                /\ message' = [message EXCEPT ![waiters[k + 1]] = m]
                /\ read' = [read EXCEPT ![waiters[k + 1]] = IF @ = "waiting" THEN "woken" ELSE @]
                /\ waiters' = SubSeq(waiters, k + 2, Len(waiters))
                /\ UNCHANGED incoming
           ELSE /\ incoming' = Append(incoming, m)
                /\ waiters' = <<>>
                /\ UNCHANGED <<message, read>>

\* deliver on the receiver's strand, after a second look at both flags.
Deliver(m) ==
    /\ write[m] = "spawned"
    /\ IF \E e \in Ends : closed[e]
       THEN /\ write' = [write EXCEPT ![m] = "failed"]
            /\ UNCHANGED <<incoming, waiters, read, message, accepted>>
       ELSE /\ write' = [write EXCEPT ![m] = "sent"]
            /\ accepted' = Append(accepted, m)
            /\ DeliverMessage(m)
    /\ UNCHANGED <<closed, closing, wakePosted, cancelled>>

---------------------------------------------------------------------------
\* close_endpoint: the first to set the flag posts the job that wakes the reads.
CloseEndpoint(e) ==
    /\ closed' = [closed EXCEPT ![e] = TRUE]
    /\ wakePosted' = (wakePosted \/ (e = "receiver" /\ ~closed[e]))

\* close() closes its own end first.
Close(e) ==
    /\ ~closed[e]
    /\ CloseEndpoint(e)
    /\ closing' = closing \cup {e}
    /\ UNCHANGED <<incoming, waiters, read, message, cancelled, write, accepted>>

\* close() goes on to the peer.
ClosePeer(e) ==
    /\ e \in closing
    /\ CloseEndpoint(Peer(e))
    /\ closing' = closing \ {e}
    /\ UNCHANGED <<incoming, waiters, read, message, cancelled, write, accepted>>

\* The sending end is destroyed, which no write that is under way allows; its
\* destructor closes the receiver and nobody writes any more.
DestroySender ==
    /\ \A m \in Messages : write[m] # "spawned"
    /\ write' = [m \in Messages |-> IF write[m] = "idle" THEN "failed" ELSE write[m]]
    /\ ~closed["receiver"]
    /\ CloseEndpoint("receiver")
    /\ UNCHANGED <<closing, incoming, waiters, read, message, cancelled, accepted>>

\* Mutant: only one of the waiting reads is woken.
WakesFirst(r) == Len(waiters) > 0 /\ r = waiters[1] /\ read[r] = "waiting"

\* The reads close_endpoint's job wakes: every waiter that still exists.
WakesOnClose(r) == Contains(waiters, r) /\ read[r] = "waiting"

\* The job close_endpoint posted runs on the receiver's strand.
RunWake ==
    /\ wakePosted
    /\ wakePosted' = FALSE
    /\ read' = [r \in Reads |-> IF WakesOnClose(r) THEN "woken" ELSE read[r]]
    /\ waiters' = <<>>
    /\ UNCHANGED <<closed, closing, incoming, message, cancelled, write, accepted>>

Next ==
    \/ DestroySender \/ RunWake
    \/ \E e \in Ends : Close(e) \/ ClosePeer(e)
    \/ \E r \in Reads : CallRead(r) \/ StartRead(r) \/ CancelRead(r) \/ ResumeRead(r)
    \/ \E m \in Messages : CallWrite(m) \/ Deliver(m)

\* The executor runs what is posted, and a thread inside close() goes on.
Fairness ==
    /\ WF_vars(RunWake)
    /\ \A e \in Ends : WF_vars(ClosePeer(e))
    /\ \A r \in Reads : WF_vars(StartRead(r)) /\ WF_vars(ResumeRead(r))
    /\ \A m \in Messages : WF_vars(Deliver(m))

Safety == Init /\ [][Next]_vars
Spec == Safety /\ Fairness

---------------------------------------------------------------------------
\* The messages held by reads, whether the reads have resumed or not.
Held == {message[r] : r \in {r \in Reads : read[r] # "aborted"}} \ {NoMessage}

\* A message that was accepted is queued or with exactly one read that can return
\* it, even when reads are cancelled while messages arrive; the queue keeps the order.
NothingLost ==
    /\ IsSuffix(incoming, accepted)
    /\ \A m \in Messages : write[m] = "sent" => m \in Range(incoming) \cup Held
    /\ \A r, q \in Reads : message[r] = message[q] /\ message[r] # NoMessage => r = q

\* A read sleeps only while there is nothing for it: no message, and no end of the
\* connection whose wakeup it could have missed.
NoReaderStarves ==
    (\E r \in Reads : read[r] = "waiting") => incoming = <<>> /\ (closed["receiver"] => wakePosted)

\* deliver_message and the job of close_endpoint find it on their list.
SleepersInLine == \A r \in Reads : read[r] = "waiting" => Contains(waiters, r)

\* Closing either end, or destroying the other one, ends every read.
ReadsEndAfterClose ==
    \A r \in Reads : read[r] = "waiting" /\ (\E e \in Ends : closed[e]) ~> read[r] \in Ended
=============================================================================

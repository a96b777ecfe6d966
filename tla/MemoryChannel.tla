------------------------------ MODULE MemoryChannel ------------------------------
(***************************************************************************)
(* What one direction of a MemoryTransport pair promises, without strand,    *)
(* waiters, timers or jobs: a channel that hands each message it accepts to  *)
(* one read, in the order it accepted them; a read returns only with a       *)
(* message, fails only because the receiver is closed, and gives up only if  *)
(* it was cancelled before it was given one.                                 *)
(***************************************************************************)
EXTENDS Sequences

CONSTANTS Messages, Reads, Nothing

VARIABLES line,       \* the accepted messages no read was given, oldest first
          writing,    \* where each message is
          reading,    \* where each read is
          holds,      \* the message a read was given
          cancelled,  \* the reads whose caller gave up
          over        \* the ends that are closed

chan == <<line, writing, reading, holds, cancelled, over>>

Ends == {"sender", "receiver"}

Init ==
    /\ line = <<>>
    /\ writing = [m \in Messages |-> "idle"]
    /\ reading = [r \in Reads |-> "idle"]
    /\ holds = [r \in Reads |-> Nothing]
    /\ cancelled = {}
    /\ over = {}

\* Reads that can be given a message.
Open == {r \in Reads : reading[r] = "asked" /\ holds[r] = Nothing}

Write(m) ==
    /\ writing[m] = "idle"
    /\ writing' = [writing EXCEPT ![m] = "asked"]
    /\ UNCHANGED <<line, reading, holds, cancelled, over>>

\* While both ends are open a message is accepted: to a read if none is before it,
\* or to the end of the line.
Accept(m) ==
    /\ writing[m] = "asked"
    /\ over = {}
    /\ writing' = [writing EXCEPT ![m] = "sent"]
    /\ \/ line' = Append(line, m) /\ UNCHANGED holds
       \/ line = <<>> /\ UNCHANGED line /\ \E r \in Open : holds' = [holds EXCEPT ![r] = m]
    /\ UNCHANGED <<reading, cancelled, over>>

\* A write fails only on a closed channel.
Refuse(m) ==
    /\ writing[m] \in {"idle", "asked"}
    /\ over # {}
    /\ writing' = [writing EXCEPT ![m] = "failed"]
    /\ UNCHANGED <<line, reading, holds, cancelled, over>>

Read(r) ==
    /\ reading[r] = "idle"
    /\ reading' = [reading EXCEPT ![r] = "asked"]
    /\ UNCHANGED <<line, writing, holds, cancelled, over>>

\* A read returns with the oldest message or the one it was given.
Return(r) ==
    /\ reading[r] = "asked"
    /\ "receiver" \notin over
    /\ \/ holds[r] # Nothing /\ UNCHANGED <<line, holds>>
       \/ /\ r \in Open /\ line # <<>>
          /\ holds' = [holds EXCEPT ![r] = Head(line)]
          /\ line' = Tail(line)
    /\ reading' = [reading EXCEPT ![r] = "returned"]
    /\ UNCHANGED <<writing, cancelled, over>>

Cancel(r) ==
    /\ reading[r] = "asked"
    /\ cancelled' = cancelled \cup {r}
    /\ UNCHANGED <<line, writing, reading, holds, over>>

\* A read fails: cancelled without a message, or on a closed channel.
Fail(r) ==
    /\ reading[r] = "asked"
    /\ \/ r \in cancelled \cap Open /\ reading' = [reading EXCEPT ![r] = "aborted"]
       \/ "receiver" \in over /\ reading' = [reading EXCEPT ![r] = "closed"]
    /\ UNCHANGED <<line, writing, holds, cancelled, over>>

\* An end is closed.  When the sender goes with it, nothing more is written.
Close(e) ==
    /\ over' = over \cup {e}
    /\ \/ UNCHANGED writing
       \/ writing' = [m \in Messages |-> IF writing[m] = "idle" THEN "failed" ELSE writing[m]]
    /\ UNCHANGED <<line, reading, holds, cancelled>>

Next ==
    \/ \E e \in Ends : Close(e)
    \/ \E m \in Messages : Write(m) \/ Accept(m) \/ Refuse(m)
    \/ \E r \in Reads : Read(r) \/ Return(r) \/ Cancel(r) \/ Fail(r)

Spec == Init /\ [][Next]_chan
=============================================================================

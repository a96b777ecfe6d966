------------------------- MODULE SerializedWriterProofs -------------------------
(***************************************************************************)
(* Theorems about SerializedWriter, for every set of calls.                  *)
(*                                                                           *)
(* The inductive invariant says where the drain coroutine is (Wakeup), that  *)
(* the queue is the unsettled end of the accepted calls (Line, Unsettled),   *)
(* behind everything that is on the wire (Sent).  A run of the drain loop    *)
(* starts from the whole queue or from its tail, so the facts about the loop *)
(* are lemmas about Drain(q, st) for any line q.                             *)
(*                                                                           *)
(* Last, SerializedWriter implements WriteChannel: a call is a Call, one run *)
(* of the drain loop is a Settle of the operations it completes, and nothing *)
(* else is visible to the callers.                                           *)
(***************************************************************************)
EXTENDS MCSerializedWriter, TLAPS

\* A drain coroutine exists exactly while the draining flag is set, and it is
\* absent only when there is nothing to drain.
Wakeup ==
    /\ draining <=> drainer # "none"
    /\ drainer = "none" => queue = <<>>
    /\ drainer = "writing" => queue # <<>>

\* No call is accepted twice, and an accepted call has left status "idle".
Once ==
    /\ \A a, b \in 1..Len(accepted) : accepted[a] = accepted[b] => a = b
    /\ \A a \in 1..Len(accepted) : status[accepted[a]] # "idle"

\* How many accepted calls are in front of the line q.
Before(q) == Len(accepted) - Len(q)

\* The line q is the end of the accepted calls.
Line(q) ==
    /\ Before(q) \in Nat
    /\ \A i \in 1..Len(q) : q[i] = accepted[Before(q) + i]

\* The calls of the line q have no verdict yet.
Unsettled(q, st) == \A i \in 1..Len(q) : st[q[i]] = "queued"

\* Everything on the wire is among the first n accepted calls.
Sent(n) == \A i \in 1..Len(wire) : \E a \in 1..n : wire[i] = accepted[a]

\* The calls no longer in the line: those settled and the one being written.
Begun == IF drainer = "writing" THEN Before(queue) + 1 ELSE Before(queue)

\* TypeOK and Wakeup are inductive together: the tail of the queue that
\* WriteDone drains is a sequence of calls because the queue is not empty.
Shape == TypeOK /\ Wakeup

Order ==
    /\ Once
    /\ Line(queue)
    /\ Unsettled(queue, status)
    /\ Sent(Begun)
    /\ WrittenInOrder
    /\ VerdictMatchesWire

IInv == Shape /\ Order

---------------------------------------------------------------------------
\* The arithmetic of positions in the line.
LEMMA Sums == \A x, y \in Nat : x + (y + 1) = x + y + 1
  OBVIOUS

\* What one run of the drain loop does that drops k calls of the line q.
Dropped(q, st, k) ==
    /\ queue' = SubSeq(q, k + 1, Len(q))
    /\ status' = [o \in Ops |-> IF \E i \in 1..k : q[i] = o THEN "aborted" ELSE st[o]]
    /\ draining' = (k < Len(q))
    /\ drainer' = IF k < Len(q) THEN "writing" ELSE "none"
    /\ wire' = IF k < Len(q) /\ transportOpen THEN Append(wire, q[k + 1]) ELSE wire
    /\ queue' \in Seq(Ops)
    /\ Len(queue') = Len(q) - k
    /\ \A i \in 1..Len(q) - k : queue'[i] = q[k + i]

LEMMA DrainEffect ==
  ASSUME TypeOK, NEW q \in Seq(Ops), NEW st \in [Ops -> Pending \cup Finished], Drain(q, st)
  PROVE  \E k \in 0..Len(q) : Dropped(q, st, k)
<1>1. PICK k \in 0..Len(q) :
        /\ queue' = SubSeq(q, k + 1, Len(q))
        /\ status' = [o \in Ops |-> IF \E i \in 1..k : q[i] = o THEN "aborted" ELSE st[o]]
        /\ WritesNextOrEnds(q, k)
        /\ wire' = IF k < Len(q) /\ transportOpen THEN Append(wire, q[k + 1]) ELSE wire
  BY Zenon DEF Drain
<1>2. /\ queue' \in Seq(Ops)
      /\ Len(queue') = Len(q) - k
      /\ \A i \in 1..Len(q) - k : queue'[i] = q[k + i]
  BY <1>1
<1>3. /\ draining' = (k < Len(q))
      /\ drainer' = IF k < Len(q) THEN "writing" ELSE "none"
  BY <1>1 DEF WritesNextOrEnds
<1>4. Dropped(q, st, k)
  BY <1>1, <1>2, <1>3 DEF Dropped
<1> QED
  BY <1>4

\* A run of the drain loop keeps every type, and leaves a drain coroutine
\* behind exactly when it leaves work behind.
LEMMA DrainShape ==
  ASSUME TypeOK, NEW q \in Seq(Ops), NEW st \in [Ops -> Pending \cup Finished], Drain(q, st),
         UNCHANGED <<cancel, returned, transportOpen, accepted>>
  PROVE  Shape'
<1>0. PICK k \in 0..Len(q) : Dropped(q, st, k)
  BY DrainEffect
<1>1. /\ status' = [o \in Ops |-> IF \E i \in 1..k : q[i] = o THEN "aborted" ELSE st[o]]
      /\ draining' = (k < Len(q))
      /\ drainer' = IF k < Len(q) THEN "writing" ELSE "none"
      /\ wire' = IF k < Len(q) /\ transportOpen THEN Append(wire, q[k + 1]) ELSE wire
      /\ queue' \in Seq(Ops)
      /\ Len(queue') = Len(q) - k
  BY <1>0 DEF Dropped
<1>2. k < Len(q) => q[k + 1] \in Ops
  OBVIOUS
<1>3. wire' \in Seq(Ops)
  BY <1>1, <1>2 DEF TypeOK
<1>4. status' \in [Ops -> Pending \cup Finished]
  BY <1>1 DEF Finished
<1>5. TypeOK'
  BY <1>1, <1>3, <1>4 DEF TypeOK
<1>6. Wakeup'
  <2>1. Len(queue') = 0 <=> queue' = <<>>
    BY <1>1
  <2>2. Len(queue') = 0 <=> ~ (k < Len(q))
    BY <1>1
  <2>3. draining' <=> drainer' # "none"
    BY <1>1
  <2> QED
    BY <1>1, <2>1, <2>2, <2>3 DEF Wakeup
<1> QED
  BY <1>5, <1>6 DEF Shape

\* The line and the statuses WriteDone drains are of their types.
LEMMA TailOfQueue ==
  ASSUME Shape, drainer = "writing", NEW result \in {"ok", "failed"}
  PROVE  /\ queue # <<>>
         /\ Head(queue) \in Ops
         /\ Tail(queue) \in Seq(Ops)
         /\ [status EXCEPT ![Head(queue)] = Verdict(Head(queue), result)]
                \in [Ops -> Pending \cup Finished]
<1>1. queue # <<>> /\ queue \in Seq(Ops)
  BY DEF Shape, Wakeup, TypeOK
<1>2. Head(queue) \in Ops /\ Tail(queue) \in Seq(Ops)
  BY <1>1
<1> QED
  BY <1>1, <1>2 DEF Shape, TypeOK, Verdict, Finished

\* Shape is kept by every step.
LEMMA ShapeStep == Shape /\ [Next]_vars => Shape'
<1> SUFFICES ASSUME Shape, [Next]_vars PROVE Shape'
  OBVIOUS
<1> USE DEF Shape
<1>1. ASSUME NEW o \in Ops, Enqueue(o) PROVE Shape'
  BY <1>1 DEF Enqueue, Pushed, TypeOK, Wakeup, Pending
<1>2. ASSUME NEW o \in Ops, SetCancel(o) PROVE Shape'
  BY <1>2 DEF SetCancel, TypeOK, Wakeup
<1>3. ASSUME NEW o \in Ops, Return(o) PROVE Shape'
  BY <1>3 DEF Return, TypeOK, Wakeup
<1>4. CASE DrainStart
  <2>1. queue \in Seq(Ops) /\ status \in [Ops -> Pending \cup Finished]
    BY DEF TypeOK
  <2> QED
    BY <1>4, <2>1, DrainShape DEF DrainStart
<1>5. ASSUME NEW result \in {"ok", "failed"}, WriteDone(result) PROVE Shape'
  BY <1>5, TailOfQueue, DrainShape DEF WriteDone
<1>6. CASE CloseTransport
  BY <1>6 DEF CloseTransport, TypeOK, Wakeup
<1>7. CASE UNCHANGED vars
  BY <1>7 DEF vars, TypeOK, Wakeup
<1> QED
  BY <1>1, <1>2, <1>3, <1>4, <1>5, <1>6, <1>7 DEF Next

LEMMA ShapeInit == Init => Shape
<1>1. ASSUME Init PROVE TypeOK
  <2>1. <<>> \in Seq(Ops)
    OBVIOUS
  <2>2. status \in [Ops -> Pending \cup Finished]
    BY <1>1 DEF Init, Pending
  <2> QED
    BY <1>1, <2>1, <2>2 DEF Init, TypeOK
<1>2. Init => Wakeup
  BY DEF Init, Wakeup
<1> QED
  BY <1>1, <1>2 DEF Shape

\* Type correctness of the writer.
THEOREM TypeCorrect == Safety => []TypeOK
<1>1. Shape => TypeOK
  BY DEF Shape
<1> QED
  BY <1>1, ShapeInit, ShapeStep, PTL DEF Safety

\* No operation waits without a drain coroutine: the handover of the draining
\* flag between enqueue_and_wait and drain loses no wakeup.
THEOREM Wakes == Safety => []NoOperationStranded
<1>1. Shape => NoOperationStranded
  BY DEF Shape, Wakeup, NoOperationStranded
<1> QED
  BY <1>1, ShapeInit, ShapeStep, PTL DEF Safety

---------------------------------------------------------------------------
\* A run of the drain loop over a line q that stands behind everything on the
\* wire keeps the order, and drops only calls that were never written.
LEMMA DrainOrder ==
  ASSUME TypeOK, NEW q \in Seq(Ops), NEW st \in [Ops -> Pending \cup Finished], Drain(q, st),
         UNCHANGED accepted,
         \A a, b \in 1..Len(accepted) : accepted[a] = accepted[b] => a = b,
         \A a \in 1..Len(accepted) : st[accepted[a]] # "idle",
         Line(q), Unsettled(q, st), Sent(Before(q)), WrittenInOrder,
         \A o \in Ops : /\ st[o] = "aborted" => \A i \in 1..Len(wire) : wire[i] # o
                        /\ st[o] = "ok" => \E i \in 1..Len(wire) : wire[i] = o
  PROVE  Order'
<1>0. PICK k \in 0..Len(q) : Dropped(q, st, k)
  BY DrainEffect
<1>1. /\ status' = [o \in Ops |-> IF \E i \in 1..k : q[i] = o THEN "aborted" ELSE st[o]]
      /\ drainer' = IF k < Len(q) THEN "writing" ELSE "none"
      /\ wire' = IF k < Len(q) /\ transportOpen THEN Append(wire, q[k + 1]) ELSE wire
      /\ queue' \in Seq(Ops)
      /\ Len(queue') = Len(q) - k
      /\ \A i \in 1..Len(q) - k : queue'[i] = q[k + i]
  BY <1>0 DEF Dropped
<1> DEFINE n == Before(q)
<1>2. /\ Len(q) \in Nat /\ Len(wire) \in Nat /\ Len(accepted) \in Nat
      /\ n \in Nat /\ n + Len(q) = Len(accepted)
      /\ wire \in Seq(Ops) /\ accepted \in Seq(Ops)
  BY DEF TypeOK, Line, Before
<1>3. \A i \in 1..Len(q) : q[i] \in Ops /\ q[i] = accepted[n + i] /\ n + i \in 1..Len(accepted)
  BY <1>2 DEF Line
<1>4. \A i, j \in 1..Len(q) : q[i] = q[j] => i = j
  BY <1>2, <1>3
<1>5. \A i \in 1..Len(wire) : wire[i] \in Ops /\ \A j \in 1..Len(q) : wire[i] # q[j]
  <2> SUFFICES ASSUME NEW i \in 1..Len(wire)
               PROVE  wire[i] \in Ops /\ \A j \in 1..Len(q) : wire[i] # q[j]
    OBVIOUS
  <2>1. PICK a \in 1..n : wire[i] = accepted[a]
    BY DEF Sent
  <2>2. a \in 1..Len(accepted)
    BY <1>2
  <2>3. \A j \in 1..Len(q) : n + j \in 1..Len(accepted) /\ n + j # a
    BY <1>2
  <2>4. \A j \in 1..Len(q) : accepted[n + j] # accepted[a]
    BY <2>2, <2>3
  <2> QED
    BY <1>2, <1>3, <2>1, <2>4
<1>6. \/ wire' = wire
      \/ /\ k < Len(q)
         /\ Len(wire') = Len(wire) + 1
         /\ wire'[Len(wire) + 1] = q[k + 1]
         /\ \A i \in 1..Len(wire) : wire'[i] = wire[i]
  BY <1>1, <1>2, <1>3
<1>7. Once'
  BY <1>1, <1>2 DEF Once
<1>8. Line(queue)'
  <2>1. Before(queue)' = n + k
    BY <1>1, <1>2 DEF Before
  <2>2. \A i \in 1..Len(q) - k : queue'[i] = accepted[n + k + i]
    BY <1>1, <1>2, <1>3
  <2> QED
    BY <1>1, <1>2, <2>1, <2>2 DEF Line, Before
<1>9. Unsettled(queue, status)'
  <2> SUFFICES ASSUME NEW i \in 1..Len(q) - k PROVE status'[queue'[i]] = "queued"
    BY <1>1 DEF Unsettled
  <2>1. k + i \in 1..Len(q) /\ queue'[i] = q[k + i]
    BY <1>1, <1>2
  <2>2. \A j \in 1..k : j \in 1..Len(q) /\ j # k + i
    BY <1>2
  <2>3. \A j \in 1..k : q[j] # q[k + i]
    BY <1>4, <2>1, <2>2
  <2> QED
    BY <1>1, <1>3, <2>1, <2>3 DEF Unsettled
<1>10. Sent(Begun)'
  <2>1. Begun' = IF k < Len(q) THEN n + k + 1 ELSE n + k
    BY <1>1, <1>2 DEF Begun, Before
  <2>2. \A i \in 1..Len(wire) : \E a \in 1..n : wire[i] = accepted[a]
    BY DEF Sent
  <2>3. CASE wire' = wire
    BY <1>2, <2>1, <2>2, <2>3 DEF Sent
  <2>4. CASE /\ k < Len(q)
             /\ Len(wire') = Len(wire) + 1
             /\ wire'[Len(wire) + 1] = q[k + 1]
             /\ \A i \in 1..Len(wire) : wire'[i] = wire[i]
    <3>0. k \in Nat /\ k + 1 \in 1..Len(q)
      BY <1>2, <2>4
    <3>1. k + 1 \in 1..Len(q) /\ n + (k + 1) = n + k + 1
      BY <1>2, <3>0, Sums
    <3>2. q[k + 1] = accepted[n + k + 1]
      BY <1>3, <3>1
    <3>3. \A i \in 1..Len(wire) : \E a \in 1..(n + k + 1) : wire'[i] = accepted[a]
      BY <1>2, <2>2, <2>4
    <3>4. n + k + 1 \in 1..(n + k + 1)
      BY <1>2
    <3>5. \A i \in 1..Len(wire') : i \in 1..Len(wire) \/ i = Len(wire) + 1
      BY <1>2, <2>4
    <3>6. \A i \in 1..Len(wire') : \E a \in 1..(n + k + 1) : wire'[i] = accepted[a]
      BY <2>4, <3>2, <3>3, <3>4, <3>5
    <3> QED
      BY <2>1, <2>4, <3>6 DEF Sent
  <2> QED
    BY <1>6, <2>3, <2>4
<1>11. WrittenInOrder'
  <2>1. \A i \in 1..Len(wire), a \in 1..Len(accepted) : wire[i] = accepted[a] => a <= n
    <3> SUFFICES ASSUME NEW i \in 1..Len(wire), NEW a \in 1..Len(accepted),
                        wire[i] = accepted[a]
                 PROVE  a <= n
      OBVIOUS
    <3>1. PICK c \in 1..n : wire[i] = accepted[c]
      BY DEF Sent
    <3>2. c \in 1..Len(accepted)
      BY <1>2
    <3>3. a = c
      BY <3>1, <3>2
    <3> QED
      BY <1>2, <3>3
  <2>2. CASE wire' = wire
    BY <2>2 DEF WrittenInOrder
  <2>3. CASE /\ k < Len(q)
             /\ Len(wire') = Len(wire) + 1
             /\ wire'[Len(wire) + 1] = q[k + 1]
             /\ \A i \in 1..Len(wire) : wire'[i] = wire[i]
    <3> SUFFICES ASSUME NEW i \in 1..Len(wire'), NEW j \in 1..Len(wire'),
                        NEW a \in 1..Len(accepted), NEW b \in 1..Len(accepted),
                        i < j, wire'[i] = accepted[a], wire'[j] = accepted[b]
                 PROVE  a < b
      BY DEF WrittenInOrder
    <3>1. i \in 1..Len(wire) /\ wire[i] = accepted[a]
      BY <1>2, <2>3
    <3>2. CASE j \in 1..Len(wire)
      BY <2>3, <3>1, <3>2 DEF WrittenInOrder
    <3>3. CASE j = Len(wire) + 1
      <4>1. k + 1 \in 1..Len(q)
        BY <1>2, <2>3
      <4>2. accepted[b] = accepted[n + (k + 1)] /\ n + (k + 1) \in 1..Len(accepted)
        BY <1>3, <2>3, <3>3, <4>1
      <4>3. b = n + (k + 1)
        BY <4>2
      <4> QED
        BY <1>2, <2>1, <3>1, <4>3
    <3> QED
      BY <1>2, <2>3, <3>2, <3>3
  <2> QED
    BY <1>6, <2>2, <2>3
<1>12. VerdictMatchesWire'
  <2> SUFFICES ASSUME NEW o \in Ops
               PROVE  /\ status'[o] = "aborted" => \A i \in 1..Len(wire') : wire'[i] # o
                      /\ status'[o] = "ok" => \E i \in 1..Len(wire') : wire'[i] = o
    BY DEF VerdictMatchesWire
  <2>1. status'[o] = "ok" => \E i \in 1..Len(wire') : wire'[i] = o
    <3>1. status'[o] = "ok" => \E i \in 1..Len(wire) : wire[i] = o
      BY <1>1
    <3> QED
      BY <1>2, <1>6, <3>1
  <2>2. ASSUME status'[o] = "aborted" PROVE \A i \in 1..Len(wire') : wire'[i] # o
    <3>1. \A i \in 1..Len(wire) : wire[i] # o
      BY <1>1, <1>2, <1>5, <2>2
    <3>2. k < Len(q) => q[k + 1] # o
      <4>1. CASE \E i \in 1..k : q[i] = o
        <5> SUFFICES ASSUME k < Len(q), q[k + 1] = o PROVE FALSE
          OBVIOUS
        <5>1. PICK i \in 1..k : q[i] = o
          BY <4>1
        <5>2. i \in 1..Len(q) /\ k + 1 \in 1..Len(q) /\ i # k + 1
          BY <1>2
        <5> QED
          BY <1>4, <5>1, <5>2
      <4>2. CASE ~ \E i \in 1..k : q[i] = o
        BY <1>1, <1>2, <2>2, <4>2 DEF Unsettled
      <4> QED
        BY <4>1, <4>2
    <3> QED
      BY <1>2, <1>6, <3>1, <3>2
  <2> QED
    BY <2>1, <2>2
<1> QED
  BY <1>7, <1>8, <1>9, <1>10, <1>11, <1>12 DEF Order

\* What WriteDone leaves to the loop: the tail of the queue is the end of the
\* accepted calls, and the call whose write ended is not in it.
LEMMA TailOfLine ==
  ASSUME IInv, drainer = "writing", NEW result \in {"ok", "failed"}
  PROVE  /\ Before(Tail(queue)) = Begun
         /\ Line(Tail(queue))
         /\ Unsettled(Tail(queue), [status EXCEPT ![Head(queue)] = Verdict(Head(queue), result)])
         /\ status[Head(queue)] = "queued"
<1> DEFINE h == Head(queue)
           q == Tail(queue)
           st == [status EXCEPT ![h] = Verdict(h, result)]
<1>1. Shape /\ TypeOK /\ Order
  BY DEF IInv, Shape
<1>2. queue # <<>> /\ h \in Ops /\ q \in Seq(Ops)
  BY <1>1, TailOfQueue
<1>3. /\ queue \in Seq(Ops) /\ Len(queue) \in Nat /\ Len(accepted) \in Nat
      /\ Len(q) = Len(queue) - 1 /\ h = queue[1]
      /\ \A i \in 1..Len(q) : q[i] = queue[i + 1]
      /\ status \in [Ops -> Pending \cup Finished]
  BY <1>1, <1>2 DEF TypeOK
<1>4. Before(q) = Before(queue) + 1 /\ Begun = Before(q)
  <2> HIDE DEF q
  <2> QED
    BY <1>3 DEF Before, Begun
<1>5. Line(q)
  <2> HIDE DEF q, h, st
  <2>1. /\ Before(queue) \in Nat /\ Before(q) = Before(queue) + 1
        /\ \A i \in 1..Len(queue) : queue[i] = accepted[Before(queue) + i]
    BY <1>1, <1>4 DEF Order, Line
  <2>2. ASSUME NEW i \in 1..Len(q) PROVE q[i] = accepted[Before(q) + i]
    <3>1. i \in Nat /\ i + 1 \in 1..Len(queue) /\ q[i] = queue[i + 1]
      BY <1>3
    <3>2. Before(queue) + (i + 1) = Before(q) + i
      BY <2>1, <3>1
    <3> QED
      BY <2>1, <3>1, <3>2
  <2> QED
    BY <2>1, <2>2 DEF Line
<1>6. \A i \in 1..Len(q) : q[i] # h
  <2>1. Before(queue) \in Nat /\ Before(queue) + Len(queue) = Len(accepted)
    BY <1>1, <1>3 DEF Order, Line, Before
  <2> QED
    BY <1>1, <1>3, <2>1 DEF Order, Line, Once
<1>7. Unsettled(q, st)
  <2> SUFFICES ASSUME NEW i \in 1..Len(q) PROVE st[q[i]] = "queued"
    BY DEF Unsettled
  <2>1. status[q[i]] = "queued"
    BY <1>1, <1>3 DEF Order, Unsettled
  <2> QED
    BY <1>3, <1>6, <2>1
<1>8. status[h] = "queued"
  <2>1. 1 \in 1..Len(queue)
    BY <1>2, <1>3
  <2> QED
    BY <1>1, <1>3, <2>1 DEF Order, Unsettled
<1> QED
  BY <1>4, <1>5, <1>7, <1>8

\* The whole invariant is kept by every step.
LEMMA Step == IInv /\ [Next]_vars => IInv'
<1> SUFFICES ASSUME IInv, [Next]_vars PROVE Order'
  BY ShapeStep DEF IInv
<1>0. Shape /\ TypeOK /\ Wakeup /\ Order
  BY DEF IInv, Shape
<1>1. ASSUME NEW o \in Ops, Enqueue(o) PROVE Order'
  <2>1. /\ accepted' = Append(accepted, o) /\ queue' = Append(queue, o) /\ wire' = wire
        /\ status' = [status EXCEPT ![o] = "queued"] /\ status[o] = "idle"
    BY <1>1 DEF Enqueue, Pushed
  <2>2. /\ accepted \in Seq(Ops) /\ queue \in Seq(Ops) /\ wire \in Seq(Ops)
        /\ Len(accepted) \in Nat /\ Len(queue) \in Nat /\ Len(wire) \in Nat
        /\ status \in [Ops -> Pending \cup Finished]
    BY <1>0 DEF TypeOK
  <2>3. /\ Len(accepted') = Len(accepted) + 1 /\ accepted'[Len(accepted) + 1] = o
        /\ \A a \in 1..Len(accepted) : accepted'[a] = accepted[a] /\ accepted[a] # o
        /\ Len(queue') = Len(queue) + 1 /\ queue'[Len(queue) + 1] = o
        /\ \A i \in 1..Len(queue) : queue'[i] = queue[i]
    BY <1>0, <2>1, <2>2 DEF Order, Once
  <2>4. Before(queue)' = Before(queue) /\ Before(queue) \in Nat
        /\ Before(queue) + Len(queue) = Len(accepted)
    BY <1>0, <2>2, <2>3 DEF Before, Order, Line
  <2>5. Once'
    <3>1. \A a \in 1..Len(accepted') : status'[accepted'[a]] # "idle"
      BY <1>0, <2>1, <2>2, <2>3 DEF Order, Once
    <3>2. ASSUME NEW a \in 1..Len(accepted'), NEW b \in 1..Len(accepted'), accepted'[a] = accepted'[b]
          PROVE  a = b
      <4>1. /\ a \in 1..Len(accepted) \/ a = Len(accepted) + 1
            /\ b \in 1..Len(accepted) \/ b = Len(accepted) + 1
        BY <2>2, <2>3
      <4>2. CASE a \in 1..Len(accepted) /\ b \in 1..Len(accepted)
        <5>1. accepted[a] = accepted[b]
          BY <2>3, <3>2, <4>2
        <5> QED
          BY <1>0, <4>2, <5>1 DEF Order, Once
      <4> QED
        BY <2>3, <3>2, <4>1, <4>2
    <3> QED
      BY <3>1, <3>2 DEF Once
  <2>6. Line(queue)'
    <3>1. \A i \in 1..Len(queue') : queue'[i] = accepted'[Before(queue) + i]
      <4> SUFFICES ASSUME NEW i \in 1..Len(queue')
                   PROVE  queue'[i] = accepted'[Before(queue) + i]
        OBVIOUS
      <4>1. CASE i \in 1..Len(queue)
        <5>1. queue[i] = accepted[Before(queue) + i]
          BY <1>0, <4>1 DEF Order, Line
        <5>2. Before(queue) + i \in 1..Len(accepted)
          BY <2>2, <2>4, <4>1
        <5> QED
          BY <2>3, <4>1, <5>1, <5>2
      <4>2. CASE i = Len(queue) + 1
        <5>1. Before(queue) + i = Len(accepted) + 1
          BY <2>2, <2>4, <4>2, Sums
        <5> QED
          BY <2>3, <4>2, <5>1
      <4> QED
        BY <2>2, <2>3, <4>1, <4>2
    <3> QED
      BY <2>4, <3>1 DEF Line, Before
  <2>7. Unsettled(queue, status)'
    BY <1>0, <2>1, <2>2, <2>3 DEF Order, Unsettled
  <2>8. Begun' = Begun /\ Begun \in 0..Len(accepted)
    <3>1. drainer' = "writing" <=> drainer = "writing"
      BY <1>0, <1>1 DEF Enqueue, Wakeup
    <3>2. drainer = "writing" => Len(queue) > 0
      BY <1>0, <2>2 DEF Wakeup
    <3> QED
      BY <2>2, <2>4, <3>1, <3>2 DEF Begun
  <2>9. Sent(Begun)'
    <3>1. \A i \in 1..Len(wire) : \E a \in 1..Begun : wire[i] = accepted'[a]
      BY <1>0, <2>2, <2>3, <2>8 DEF Order, Sent
    <3> QED
      BY <2>1, <2>8, <3>1 DEF Sent
  <2>10. WrittenInOrder'
    <3>1. \A i \in 1..Len(wire) : wire[i] # o
      BY <1>0, <2>2, <2>3, <2>8 DEF Order, Sent
    <3> QED
      BY <1>0, <2>1, <2>2, <2>3, <3>1 DEF Order, WrittenInOrder
  <2>11. VerdictMatchesWire'
    BY <1>0, <2>1, <2>2 DEF Order, VerdictMatchesWire
  <2> QED
    BY <2>5, <2>6, <2>7, <2>9, <2>10, <2>11 DEF Order
<1>2. ASSUME NEW o \in Ops, SetCancel(o) PROVE Order'
  BY <1>0, <1>2 DEF SetCancel, Order, Once, Line, Before, Unsettled, Sent, Begun, WrittenInOrder, VerdictMatchesWire
<1>3. ASSUME NEW o \in Ops, Return(o) PROVE Order'
  BY <1>0, <1>3 DEF Return, Order, Once, Line, Before, Unsettled, Sent, Begun, WrittenInOrder, VerdictMatchesWire
<1>4. CASE DrainStart
  <2>1. Begun = Before(queue)
    BY <1>4 DEF DrainStart, Begun
  <2> QED
    BY <1>0, <1>4, <2>1, DrainOrder DEF DrainStart, Order, Once, TypeOK, VerdictMatchesWire
<1>5. ASSUME NEW result \in {"ok", "failed"}, WriteDone(result) PROVE Order'
  <2> DEFINE q == Tail(queue)
             st == [status EXCEPT ![Head(queue)] = Verdict(Head(queue), result)]
  <2>1. /\ drainer = "writing" /\ Drain(q, st) /\ UNCHANGED accepted
        /\ result = "ok" => \E i \in 1..Len(wire) : wire[i] = Head(queue)
    BY <1>5 DEF WriteDone
  <2>2. q \in Seq(Ops) /\ st \in [Ops -> Pending \cup Finished]
    BY <1>0, <2>1, TailOfQueue
  <2>3. Before(q) = Begun /\ Line(q) /\ Unsettled(q, st)
    BY <2>1, TailOfLine
  <2>4. \A a \in 1..Len(accepted) : st[accepted[a]] # "idle"
    BY <1>0 DEF TypeOK, Order, Once, Verdict
  <2>5. \A o \in Ops : /\ st[o] = "aborted" => \A i \in 1..Len(wire) : wire[i] # o
                       /\ st[o] = "ok" => \E i \in 1..Len(wire) : wire[i] = o
    BY <1>0, <2>1 DEF TypeOK, Order, VerdictMatchesWire, Verdict
  <2>6. Sent(Before(q)) /\ WrittenInOrder
         /\ \A a, b \in 1..Len(accepted) : accepted[a] = accepted[b] => a = b
    BY <1>0, <2>3 DEF Order, Once
  <2> HIDE DEF q, st
  <2> QED
    BY <1>0, <2>1, <2>2, <2>3, <2>4, <2>5, <2>6, DrainOrder
<1>6. CASE CloseTransport
  BY <1>0, <1>6 DEF CloseTransport, Order, Once, Line, Before, Unsettled, Sent, Begun, WrittenInOrder, VerdictMatchesWire
<1>7. CASE UNCHANGED vars
  BY <1>0, <1>7 DEF vars, Order, Once, Line, Before, Unsettled, Sent, Begun, WrittenInOrder, VerdictMatchesWire
<1> QED
  BY <1>1, <1>2, <1>3, <1>4, <1>5, <1>6, <1>7 DEF Next

LEMMA InitInv == Init => IInv
<1>1. Init => Order
  BY DEF Init, Order, Once, Line, Before, Unsettled, Sent, Begun, WrittenInOrder, VerdictMatchesWire
<1> QED
  BY <1>1, ShapeInit DEF IInv

THEOREM Invariance == Safety => []IInv
  BY InitInv, Step, PTL DEF Safety

\* The calls reach the wire in the order in which they were queued, however
\* cancellations, failing writes and close() fall between them.
THEOREM Fifo == Safety => []WrittenInOrder
<1>1. IInv => WrittenInOrder
  BY DEF IInv, Order
<1> QED
  BY <1>1, Invariance, PTL

\* A call that is told it was aborted is never on the wire, and one that is
\* told it succeeded is.
THEOREM Honest == Safety => []VerdictMatchesWire
<1>1. IInv => VerdictMatchesWire
  BY DEF IInv, Order
<1> QED
  BY <1>1, Invariance, PTL
---------------------------------------------------------------------------
\* The wire grows by at most one operation, and by none whose flag is set.
LEMMA DrainSkipsCancelled ==
  ASSUME TypeOK, NEW q \in Seq(Ops), NEW st \in [Ops -> Pending \cup Finished], Drain(q, st),
         NEW o \in cancel, \A i \in 1..Len(wire) : wire[i] # o
  PROVE  \A i \in 1..Len(wire') : wire'[i] # o
<1>1. PICK k \in 0..Len(q) :
        /\ k < Len(q) => q[k + 1] \notin cancel
        /\ wire' = IF k < Len(q) /\ transportOpen THEN Append(wire, q[k + 1]) ELSE wire
  BY Zenon DEF Drain, Skips
<1>2. CASE k < Len(q) /\ transportOpen
  <2>1. q[k + 1] \in Ops /\ q[k + 1] # o /\ wire \in Seq(Ops) /\ wire' = Append(wire, q[k + 1])
    BY <1>1, <1>2 DEF TypeOK
  <2> QED
    BY <2>1
<1>3. CASE ~ (k < Len(q) /\ transportOpen)
  BY <1>1, <1>3
<1> QED
  BY <1>2, <1>3

\* A cancel flag set before the write begins is honoured: the drain loop looks at
\* it in the same step in which it begins the write.
THEOREM Obeys == Safety => CancelStopsWrite
<1> DEFINE Stays(o) == (\A i \in 1..Len(wire) : wire[i] # o) => (\A i \in 1..Len(wire') : wire'[i] # o)
<1>1. Shape /\ [Next]_vars => [\A o \in cancel : Stays(o)]_vars
  <2> SUFFICES ASSUME Shape, Next, NEW o \in cancel, \A i \in 1..Len(wire) : wire[i] # o
               PROVE  \A i \in 1..Len(wire') : wire'[i] # o
    OBVIOUS
  <2>1. ASSUME DrainStart PROVE \A i \in 1..Len(wire') : wire'[i] # o
    <3>1. queue \in Seq(Ops) /\ status \in [Ops -> Pending \cup Finished] /\ TypeOK
      BY DEF Shape, TypeOK
    <3> QED
      BY <2>1, <3>1, DrainSkipsCancelled DEF DrainStart
  <2>2. ASSUME NEW result \in {"ok", "failed"}, WriteDone(result)
        PROVE  \A i \in 1..Len(wire') : wire'[i] # o
    <3>1. drainer = "writing"
          /\ Drain(Tail(queue), [status EXCEPT ![Head(queue)] = Verdict(Head(queue), result)])
      BY <2>2 DEF WriteDone
    <3>2. TypeOK
      BY DEF Shape
    <3> QED
      BY <3>1, <3>2, TailOfQueue, DrainSkipsCancelled
  <2>3. ASSUME UNCHANGED wire PROVE \A i \in 1..Len(wire') : wire'[i] # o
    BY <2>3
  <2>4. (\E a \in Ops : Enqueue(a) \/ SetCancel(a) \/ Return(a)) \/ CloseTransport => UNCHANGED wire
    BY DEF Enqueue, SetCancel, Return, CloseTransport
  <2> QED
    BY <2>1, <2>2, <2>3, <2>4 DEF Next
<1> QED
  BY <1>1, ShapeInit, ShapeStep, PTL DEF Safety, CancelStopsWrite

---------------------------------------------------------------------------
\* What a step may do to the wire and to the verdicts, for the programs that
\* write through a SerializedTransportWriter.

\* The calls that are on the wire.
OnWire == {wire[i] : i \in 1..Len(wire)}

LEMMA DrainMoves ==
  ASSUME TypeOK, NEW q \in Seq(Ops), NEW st \in [Ops -> Pending \cup Finished], Drain(q, st),
         Unsettled(q, st)
  PROVE  /\ OnWire \subseteq OnWire'
         /\ \A o \in OnWire' \ OnWire : o \in Ops \ cancel /\ transportOpen /\ st[o] = "queued"
         /\ \A o \in Ops : status'[o] = st[o] \/ (st[o] = "queued" /\ status'[o] = "aborted")
<1>1. PICK k \in 0..Len(q) :
        /\ k < Len(q) => q[k + 1] \notin cancel
        /\ status' = [o \in Ops |-> IF \E i \in 1..k : q[i] = o THEN "aborted" ELSE st[o]]
        /\ wire' = IF k < Len(q) /\ transportOpen THEN Append(wire, q[k + 1]) ELSE wire
  BY Zenon DEF Drain, Skips
<1>2. \A o \in Ops : status'[o] = st[o] \/ (st[o] = "queued" /\ status'[o] = "aborted")
  <2>1. \A i \in 1..k : i \in 1..Len(q)
    OBVIOUS
  <2> QED
    BY <1>1, <2>1 DEF Unsettled
<1>3. CASE k < Len(q) /\ transportOpen
  <2>1. /\ k + 1 \in 1..Len(q) /\ wire \in Seq(Ops) /\ Len(wire) \in Nat
        /\ wire' = Append(wire, q[k + 1])
    BY <1>1, <1>3 DEF TypeOK
  <2>2. q[k + 1] \in Ops \ cancel /\ st[q[k + 1]] = "queued"
    BY <1>1, <1>3, <2>1 DEF Unsettled
  <2>3. /\ \A i \in 1..Len(wire) : i \in 1..Len(wire') /\ wire'[i] = wire[i]
        /\ \A i \in 1..Len(wire') : i \in 1..Len(wire) \/ wire'[i] = q[k + 1]
    BY <2>1, <2>2
  <2>4. OnWire \subseteq OnWire' /\ OnWire' \subseteq OnWire \cup {q[k + 1]}
    BY <2>3 DEF OnWire
  <2> QED
    BY <1>2, <1>3, <2>2, <2>4
<1>4. CASE ~ (k < Len(q) /\ transportOpen)
  <2>1. OnWire' = OnWire
    BY <1>1, <1>4 DEF OnWire
  <2> QED
    BY <1>2, <2>1
<1> QED
  BY <1>3, <1>4

\* What the drain coroutine does between two suspensions: the wire only grows, by
\* a call that was queued on an open transport and whose cancel flag was not set,
\* and only calls in the queue get a verdict.
LEMMA LoopMoves ==
  ASSUME IInv, DrainStart \/ \E result \in {"ok", "failed"} : WriteDone(result)
  PROVE  /\ OnWire \subseteq OnWire'
         /\ \A o \in OnWire' \ OnWire : o \in Ops \ cancel /\ transportOpen /\ status[o] = "queued"
         /\ \A o \in Ops : status'[o] = status[o] \/ (status[o] = "queued" /\ status'[o] \in Finished)
<1>0. Shape /\ TypeOK /\ Order
  BY DEF IInv, Shape
<1>1. "aborted" \in Finished
  BY DEF Finished
<1>2. CASE DrainStart
  <2>1. queue \in Seq(Ops) /\ status \in [Ops -> Pending \cup Finished] /\ Unsettled(queue, status)
    BY <1>0 DEF TypeOK, Order
  <2>2. Drain(queue, status)
    BY <1>2 DEF DrainStart
  <2>3. /\ OnWire \subseteq OnWire'
        /\ \A o \in OnWire' \ OnWire : o \in Ops \ cancel /\ transportOpen /\ status[o] = "queued"
        /\ \A o \in Ops : status'[o] = status[o] \/ (status[o] = "queued" /\ status'[o] = "aborted")
    BY <1>0, <2>1, <2>2, DrainMoves
  <2> QED
    BY <1>1, <2>3
<1>3. ASSUME NEW result \in {"ok", "failed"}, WriteDone(result)
      PROVE  /\ OnWire \subseteq OnWire'
             /\ \A o \in OnWire' \ OnWire : o \in Ops \ cancel /\ transportOpen /\ status[o] = "queued"
             /\ \A o \in Ops : status'[o] = status[o] \/ (status[o] = "queued" /\ status'[o] \in Finished)
  <2> DEFINE q == Tail(queue)
             st == [status EXCEPT ![Head(queue)] = Verdict(Head(queue), result)]
  <2>1. drainer = "writing" /\ Drain(q, st)
    BY <1>3 DEF WriteDone
  <2>2. q \in Seq(Ops) /\ st \in [Ops -> Pending \cup Finished] /\ Head(queue) \in Ops
    BY <1>0, <2>1, TailOfQueue
  <2>3. Unsettled(q, st) /\ status[Head(queue)] = "queued"
    BY <2>1, TailOfLine
  <2>4. \A o \in Ops : st[o] = status[o] \/ (status[o] = "queued" /\ st[o] # "queued" /\ st[o] \in Finished)
    BY <1>0, <2>2, <2>3 DEF TypeOK, Verdict, Finished
  <2> HIDE DEF q, st
  <2>5. /\ OnWire \subseteq OnWire'
        /\ \A o \in OnWire' \ OnWire : o \in Ops \ cancel /\ transportOpen /\ st[o] = "queued"
        /\ \A o \in Ops : status'[o] = st[o] \/ (st[o] = "queued" /\ status'[o] = "aborted")
    BY <1>0, <2>1, <2>2, <2>3, DrainMoves
  <2>6. \A o \in Ops : st[o] = "queued" => status[o] = "queued"
    BY <2>4
  <2>7. \A o \in OnWire' \ OnWire : o \in Ops \ cancel /\ transportOpen /\ status[o] = "queued"
    BY <2>5, <2>6
  <2>8. ASSUME NEW o \in Ops
        PROVE  status'[o] = status[o] \/ (status[o] = "queued" /\ status'[o] \in Finished)
    BY <1>1, <2>4, <2>5, <2>6
  <2> QED
    BY <2>5, <2>7, <2>8
<1> QED
  BY <1>2, <1>3

-----------------------------------------------------------------------------
(* The refinement.                                                           *)

\* No call is twice in the queue, for the queue is part of the accepted calls.
LEMMA QueuedOnce ==
  ASSUME IInv
  PROVE  /\ queue \in Seq(Ops)
         /\ \A i, j \in 1..Len(queue) : queue[i] = queue[j] => i = j
<1>1. Once /\ Line(queue) /\ TypeOK
  BY DEF IInv, Order, Shape
<1> DEFINE n == Before(queue)
<1>2. /\ queue \in Seq(Ops) /\ accepted \in Seq(Ops) /\ n \in Nat
      /\ n + Len(queue) = Len(accepted)
  BY <1>1 DEF TypeOK, Line, Before
<1>3. \A i \in 1..Len(queue) : queue[i] = accepted[n + i] /\ n + i \in 1..Len(accepted)
  BY <1>1, <1>2 DEF Line
<1>4. \A a, b \in 1..Len(accepted) : accepted[a] = accepted[b] => a = b
  BY <1>1 DEF Once
<1>5. ASSUME NEW i \in 1..Len(queue), NEW j \in 1..Len(queue), queue[i] = queue[j] PROVE i = j
  <2> HIDE DEF n
  <2>1. accepted[n + i] = accepted[n + j] /\ n + i \in 1..Len(accepted) /\ n + j \in 1..Len(accepted)
    BY <1>3, <1>5
  <2>2. n + i = n + j
    BY <1>4, <2>1
  <2> QED
    BY <1>2, <2>2
<1> QED
  BY <1>2, <1>5

\* The initial states map to initial states.
LEMMA InitRefines == Init => Channel!Init
  BY DEF Init, Channel!Init

\* Queueing an operation is a Call.
LEMMA EnqueueRefines ==
  ASSUME IInv, NEW o \in Ops, Enqueue(o)
  PROVE  Channel!Call(o)
<1>1. Wakeup
  BY DEF IInv, Shape
<1>2. (drainer = "writing") = (drainer' = "writing")
  BY <1>1 DEF Enqueue, Wakeup
<1> QED
  BY <1>2 DEF Enqueue, Pushed, Channel!Call

\* The first run of a spawned drain coroutine settles what it drops.
LEMMA DrainStartRefines ==
  ASSUME IInv, DrainStart
  PROVE  \E n \in 0..Len(queue) : Channel!Settle(n)
<1>1. TypeOK /\ queue \in Seq(Ops) /\ status \in [Ops -> Pending \cup Finished]
  BY DEF IInv, Shape, TypeOK
<1>2. drainer = "spawned" /\ Drain(queue, status)
  BY DEF DrainStart
<1>3. PICK k \in 0..Len(queue) :
        /\ queue' = SubSeq(queue, k + 1, Len(queue))
        /\ status' = [o \in Ops |-> IF \E i \in 1..k : queue[i] = o THEN "aborted" ELSE status[o]]
        /\ drainer' = IF k < Len(queue) THEN "writing" ELSE "none"
        /\ wire' = IF k < Len(queue) /\ transportOpen THEN Append(wire, queue[k + 1]) ELSE wire
  BY <1>1, <1>2, DrainEffect DEF Dropped
<1>4. (drainer' = "writing") = (k < Len(queue))
  BY <1>3
<1>5. wire' = wire \/ (k < Len(queue) /\ wire' = Append(wire, queue[k + 1]))
  BY <1>3
<1>6. Channel!Settle(k)
  BY <1>2, <1>3, <1>4, <1>5 DEF Channel!Settle
<1> QED
  BY <1>6

\* The end of a write settles the operation that was written and those the drain
\* loop drops behind it.
LEMMA WriteDoneRefines ==
  ASSUME IInv, NEW result \in {"ok", "failed"}, WriteDone(result)
  PROVE  \E n \in 0..Len(queue) : Channel!Settle(n)
<1> DEFINE st == [status EXCEPT ![Head(queue)] = Verdict(Head(queue), result)]
<1>1. TypeOK /\ Shape /\ queue \in Seq(Ops) /\ status \in [Ops -> Pending \cup Finished]
  BY DEF IInv, Shape, TypeOK
<1>2. drainer = "writing" /\ Drain(Tail(queue), st)
  BY DEF WriteDone
<1>3. /\ queue # <<>> /\ Head(queue) \in Ops
      /\ Tail(queue) \in Seq(Ops) /\ st \in [Ops -> Pending \cup Finished]
  BY <1>1, <1>2, TailOfQueue
<1>4. PICK k \in 0..Len(Tail(queue)) :
        /\ queue' = SubSeq(Tail(queue), k + 1, Len(Tail(queue)))
        /\ status' = [o \in Ops |-> IF \E i \in 1..k : Tail(queue)[i] = o THEN "aborted" ELSE st[o]]
        /\ drainer' = IF k < Len(Tail(queue)) THEN "writing" ELSE "none"
        /\ wire' = IF k < Len(Tail(queue)) /\ transportOpen
                   THEN Append(wire, Tail(queue)[k + 1]) ELSE wire
        /\ queue' \in Seq(Ops)
        /\ Len(queue') = Len(Tail(queue)) - k
        /\ \A i \in 1..Len(Tail(queue)) - k : queue'[i] = Tail(queue)[k + i]
  <2> HIDE DEF st
  <2> QED
    BY <1>1, <1>2, <1>3, DrainEffect DEF Dropped
<1>5. /\ Len(queue) \in Nat /\ Len(Tail(queue)) = Len(queue) - 1 /\ Len(queue) > 0
      /\ \A i \in 1..Len(queue) - 1 : Tail(queue)[i] = queue[i + 1]
      /\ Head(queue) = queue[1]
      /\ k \in Nat /\ k + 1 \in 1..Len(queue)
  BY <1>1, <1>3, <1>4
<1>6. queue' = SubSeq(queue, k + 2, Len(queue))
  <2>1. SubSeq(queue, k + 2, Len(queue)) \in Seq(Ops)
        /\ Len(SubSeq(queue, k + 2, Len(queue))) = Len(queue) - (k + 1)
        /\ \A i \in 1..Len(queue) - (k + 1) : SubSeq(queue, k + 2, Len(queue))[i] = queue[k + 1 + i]
    BY <1>1, <1>5
  <2>2. Len(queue') = Len(queue) - (k + 1)
    BY <1>4, <1>5
  <2>3. \A i \in 1..Len(queue) - (k + 1) : queue'[i] = queue[k + 1 + i]
    BY <1>4, <1>5
  <2> QED
    BY <1>4, <2>1, <2>2, <2>3
<1>7. status' = [o \in Ops |->
                   IF \E i \in 1..k + 1 : queue[i] = o
                   THEN IF queue[1] = o THEN result ELSE "aborted"
                   ELSE status[o]]
  <2> DEFINE was(o) == IF \E i \in 1..k : Tail(queue)[i] = o THEN "aborted" ELSE st[o]
             now(o) == IF \E i \in 1..k + 1 : queue[i] = o
                       THEN IF queue[1] = o THEN result ELSE "aborted"
                       ELSE status[o]
  <2>0. status' = [o \in Ops |-> was(o)]
    BY <1>4
  <2>1. ASSUME NEW o \in Ops PROVE was(o) = now(o)
    <3>1. (\E i \in 1..k : Tail(queue)[i] = o) <=> (\E i \in 2..k + 1 : queue[i] = o)
      <4>1. ASSUME NEW i \in 1..k PROVE i + 1 \in 2..k + 1 /\ Tail(queue)[i] = queue[i + 1]
        BY <1>5
      <4>2. ASSUME NEW i \in 2..k + 1 PROVE i - 1 \in 1..k /\ Tail(queue)[i - 1] = queue[i]
        BY <1>5
      <4> QED
        BY <4>1, <4>2
    <3>2. st[o] = IF queue[1] = o THEN result ELSE status[o]
      BY <1>1, <1>5 DEF Verdict
    <3>3. ASSUME NEW i \in 2..k + 1 PROVE queue[i] # queue[1]
      <4>1. i \in 1..Len(queue) /\ 1 \in 1..Len(queue) /\ i # 1
        BY <1>5
      <4> QED
        BY <4>1, QueuedOnce
    <3>4. (\E i \in 1..k + 1 : queue[i] = o) <=> (queue[1] = o \/ \E i \in 2..k + 1 : queue[i] = o)
      BY <1>5
    <3> HIDE DEF st
    <3> QED
      BY <3>1, <3>2, <3>3, <3>4
  <2>2. status' = [o \in Ops |-> now(o)]
    <3> HIDE DEF was, now
    <3> QED
      BY <2>0, <2>1
  <2> QED
    BY <2>2
<1>8. (drainer' = "writing") = (k + 1 < Len(queue))
  BY <1>4, <1>5
<1>9. wire' = wire \/ (k + 1 < Len(queue) /\ wire' = Append(wire, queue[k + 1 + 1]))
  BY <1>4, <1>5
<1>10. Channel!Settle(k + 1)
  <2>1. k + 1 \in 0..Len(queue) /\ k + 1 > 0 /\ k + 2 = k + 1 + 1
    BY <1>5
  <2> QED
    BY <1>2, <1>6, <1>7, <1>8, <1>9, <2>1 DEF Channel!Settle
<1> QED
  BY <1>5, <1>10

\* A step puts at most one more call on the wire, one that was queued and is not
\* there already.
LEMMA WireMoves ==
  ASSUME IInv, [Next]_vars
  PROVE  \/ wire' = wire
         \/ \E o \in Ops \ OnWire : status[o] = "queued" /\ wire' = Append(wire, o)
<1>0. IInv' /\ TypeOK /\ queue \in Seq(Ops) /\ wire \in Seq(Ops)
  BY Step DEF IInv, Shape, TypeOK
<1>1. ASSUME NEW o \in Ops, wire' = Append(wire, o) PROVE o \notin OnWire
  <2> SUFFICES ASSUME NEW i \in 1..Len(wire), wire[i] = o PROVE FALSE
    BY DEF OnWire
  <2> DEFINE n == Len(wire) + 1
  <2>1. /\ i \in 1..Len(wire') /\ n \in 1..Len(wire') /\ i < n
        /\ wire'[i] = o /\ wire'[n] = o
    BY <1>0, <1>1
  <2>2. (Sent(Begun))' /\ WrittenInOrder'
    BY <1>0 DEF IInv, Order
  <2>3. Len(accepted') \in Nat /\ \A a \in 1..Begun' : a \in 1..Len(accepted')
    <3>1. (drainer = "writing" => queue # <<>>)' /\ (queue \in Seq(Ops))' /\ (accepted \in Seq(Ops))'
      BY <1>0 DEF IInv, Shape, TypeOK, Wakeup
    <3> QED
      BY <3>1 DEF Begun, Before
  <2>4. PICK a \in 1..Len(accepted') : wire'[i] = accepted'[a]
    BY <2>1, <2>2, <2>3 DEF Sent
  <2> HIDE DEF n
  <2> QED
    BY <2>1, <2>2, <2>4 DEF WrittenInOrder
<1>2. CASE DrainStart \/ \E result \in {"ok", "failed"} : WriteDone(result)
  <2>1. PICK n \in 0..Len(queue) : Channel!Settle(n)
    BY <1>2, DrainStartRefines, WriteDoneRefines
  <2>2. wire' = wire \/ (n < Len(queue) /\ wire' = Append(wire, queue[n + 1]))
    BY <2>1 DEF Channel!Settle
  <2>3. ASSUME n < Len(queue) PROVE queue[n + 1] \in Ops /\ status[queue[n + 1]] = "queued"
    <3>1. n + 1 \in 1..Len(queue)
      BY <1>0, <2>3
    <3> QED
      BY <1>0, <3>1 DEF IInv, Order, Unsettled
  <2> QED
    BY <1>1, <2>2, <2>3
<1>3. CASE UNCHANGED vars \/ CloseTransport \/ \E o \in Ops : Enqueue(o) \/ SetCancel(o) \/ Return(o)
  BY <1>3 DEF vars, CloseTransport, Enqueue, SetCancel, Return
<1> QED
  BY <1>2, <1>3 DEF Next

\* The writer keeps the promise of WriteChannel: its callers see calls that wait in
\* line and are settled from the front, and at most one at a time with the transport.
THEOREM Implements == Safety => ImplementsChannel
<1>1. IInv /\ [Next]_vars => [Channel!Next]_<<queue, drainer = "writing", status, wire>>
  <2> SUFFICES ASSUME IInv, [Next]_vars
               PROVE  Channel!Next \/ UNCHANGED <<queue, drainer = "writing", status, wire>>
    OBVIOUS
  <2>1. ASSUME NEW o \in Ops, Enqueue(o) PROVE Channel!Next
    BY <2>1, EnqueueRefines DEF Channel!Next
  <2>2. ASSUME DrainStart PROVE Channel!Next
    BY <2>2, DrainStartRefines DEF Channel!Next
  <2>3. ASSUME NEW result \in {"ok", "failed"}, WriteDone(result) PROVE Channel!Next
    BY <2>3, WriteDoneRefines DEF Channel!Next
  <2>4. ASSUME UNCHANGED vars \/ CloseTransport \/ \E o \in Ops : SetCancel(o) \/ Return(o)
        PROVE  UNCHANGED <<queue, drainer = "writing", status, wire>>
    BY <2>4 DEF vars, CloseTransport, SetCancel, Return
  <2> QED
    BY <2>1, <2>2, <2>3, <2>4 DEF Next
<1> QED
  BY <1>1, Invariance, InitRefines, PTL DEF Safety, ImplementsChannel, Channel!Spec, Channel!chan
=============================================================================

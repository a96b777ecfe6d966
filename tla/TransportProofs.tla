----------------------------- MODULE TransportProofs -----------------------------
(***************************************************************************)
(* Theorems about the transports behind ITransport and the listeners of the *)
(* HTTP servers, for every set of messages, reads, writes, closers and       *)
(* connections.  Each has an inductive invariant of its own (MemoryInv,      *)
(* SocketInv with Sharing, HttpInv, IoInv, ListenerInv); what the runs check *)
(* of it follows from that, and the composition only says that a step is one *)
(* of one transport and leaves the others alone.                             *)
(*                                                                         *)
(* The strengthenings are what a reader of the code has to know: a message  *)
(* is never queued beside a read that is in line (QueueInOrder), a read is   *)
(* woken for a message, a cancellation or the end (WokenForAReason), the write *)
(* gate of an open WebSocket is one line of writes of which those before    *)
(* Reached are on the wire (GateInOrder, WireInOrder), operation_active is  *)
(* held as long as an exchange is under way, and a close() that has begun   *)
(* has set `closed` before it reaches the barrier.                          *)
(***************************************************************************)
EXTENDS MCTransports, FiniteSets, FiniteSetTheorems, TLAPS

\* The actors of a kind do not get in each other's way.
AtMostOne(S) == \A x, y \in S : x = y

\* What happens to a queue at either end.
LEMMA TailSeq ==
  ASSUME NEW S, NEW s \in Seq(S), s # <<>>
  PROVE  /\ Head(s) \in S /\ Tail(s) \in Seq(S) /\ Len(s) > 0 /\ Len(Tail(s)) = Len(s) - 1
         /\ \A i \in 1..Len(s) - 1 : Tail(s)[i] = s[i + 1]
         /\ Head(s) = s[1]
  OBVIOUS

LEMMA AppendSeq ==
  ASSUME NEW S, NEW s \in Seq(S), NEW e \in S
  PROVE  /\ Append(s, e) \in Seq(S) /\ Len(Append(s, e)) = Len(s) + 1
         /\ \A i \in 1..Len(s) : Append(s, e)[i] = s[i]
         /\ Append(s, e)[Len(s) + 1] = e
  OBVIOUS

\* A place in a sequence that grew by one.
LEMMA LastOrBefore == \A n \in Nat : \A k \in 1..n + 1 : k = n + 1 \/ k \in 1..n
  OBVIOUS

---------------------------------------------------------------------------
\* The stdio transport

\* The reads that wait for a line.
IoWaiting == {r \in Reads : ioCall[r] = "waiting"}

\* A read that waits is the only one and is the pending one; a close() that has begun
\* has set `closed`.
IoInv ==
    /\ Stdio!TypeOK
    /\ \A c \in Closers \cup InnerClosers : ioCloser[c] # "idle" => ioClosed
    /\ Stdio!CloseOutlivesWrites
    /\ AtMostOne(IoWaiting) /\ (IoWaiting # {} => ioReadPending)
    /\ Stdio!NoReadStarves

\* A transport nobody has used.
LEMMA IoInit == Stdio!Init => IoInv
<1> SUFFICES ASSUME Stdio!Init PROVE IoInv
  OBVIOUS
<1> USE DEF Stdio!Init
<1>1. Stdio!TypeOK
  <2>1. <<>> \in Seq(0..MaxLines) /\ <<>> \in Seq(1..MaxLines) /\ 0 \in 0..MaxLines
    BY TransportAssumption
  <2> QED
    BY <2>1 DEF Stdio!TypeOK, Stdio!Calls, Stdio!AllClosers
<1>2. \A w \in Writes : ioCall[w] = "idle"
  BY DEF Stdio!Calls
<1>3. \A c \in Stdio!AllClosers : ioCloser[c] = "idle"
  BY DEF Stdio!AllClosers
<1>4. IoWaiting = {}
  BY DEF IoWaiting, Stdio!Calls
<1> QED
  BY <1>1, <1>2, <1>3, <1>4
  DEF IoInv, Stdio!AllClosers, Stdio!CloseOutlivesWrites, Stdio!OutputHeld, Stdio!NoReadStarves, AtMostOne, IoWaiting

\* A turn of read_on_strand: the read ends or is the one that waits.
LEMMA IoReadTurn ==
  ASSUME IoInv, NEW r \in Reads, Stdio!ReadTurn(r), IoWaiting \subseteq {r}
  PROVE  IoInv'
<1> USE TransportAssumption DEF IoInv, IoWaiting, Stdio!Calls
<1>0. UNCHANGED <<ioClosed, ioThread, ioLines, ioPosted, ioWakePosted, ioInputEnded, ioCloser>>
  BY DEF Stdio!ReadTurn, Stdio!inputVars
<1>1. PICK place \in {"failed", "done", "waiting"} :
          /\ ioCall' = [ioCall EXCEPT ![r] = place]
          /\ ioReadPending' \in BOOLEAN /\ (place = "waiting" => ioReadPending')
          /\ place = "waiting" => ioQueue' = <<>> /\ ~ioClosed /\ ~ioInputEnded
          /\ ioQueue' = ioQueue \/ (ioQueue # <<>> /\ ioQueue' = Tail(ioQueue))
  <2>1. CASE Stdio!GivesUp
    <3>1. ioCall' = [ioCall EXCEPT ![r] = "failed"] /\ ioReadPending' = FALSE /\ ioQueue' = ioQueue
      BY <2>1 DEF Stdio!ReadTurn
    <3>2. "failed" \in {"failed", "done", "waiting"} /\ "failed" # "waiting" /\ FALSE \in BOOLEAN
      OBVIOUS
    <3> QED
      BY <3>1, <3>2, Zenon
  <2>2. CASE ~Stdio!GivesUp /\ ioQueue # <<>>
    BY <2>2 DEF Stdio!ReadTurn
  <2>3. CASE ~Stdio!GivesUp /\ ioQueue = <<>>
    <3>1. ioCall' = [ioCall EXCEPT ![r] = "waiting"] /\ ioReadPending' = TRUE /\ ioQueue' = ioQueue
      BY <2>3 DEF Stdio!ReadTurn
    <3>2. ~ioClosed /\ ~ioInputEnded
      BY <2>3 DEF Stdio!GivesUp
    <3> QED
      BY <2>3, <3>1, <3>2
  <2> QED
    BY <2>1, <2>2, <2>3
<1>2. ioCall \in [Reads \cup Writes -> {"idle", "spawned", "waiting", "locking", "writing", "done", "failed"}]
  BY DEF Stdio!TypeOK
<1>3. Stdio!TypeOK'
  <2>1. ioQueue' \in Seq(1..MaxLines)
    <3>1. ioQueue \in Seq(1..MaxLines)
      BY DEF Stdio!TypeOK
    <3>2. CASE ioQueue # <<>> /\ ioQueue' = Tail(ioQueue)
      BY <3>1, <3>2, TailSeq, Zenon
    <3> QED
      BY <1>1, <3>1, <3>2, Zenon
  <2>2. ioCall' \in [Reads \cup Writes -> {"idle", "spawned", "waiting", "locking", "writing", "done", "failed"}]
    BY <1>1, <1>2
  <2>3. ioReadPending' \in BOOLEAN /\ ioReadWoken' \in BOOLEAN
    BY <1>1 DEF Stdio!ReadTurn
  <2> QED
    BY <1>0, <2>1, <2>2, <2>3 DEF Stdio!TypeOK, Stdio!AllClosers
<1>4. \A w \in Writes : ioCall'[w] = ioCall[w]
  BY <1>1, <1>2
<1>5. IoWaiting' \subseteq {r} /\ (IoWaiting' # {} => ioReadPending' /\ ioQueue' = <<>> /\ ~ioClosed /\ ~ioInputEnded)
  BY <1>1, <1>2
<1>6. AtMostOne(IoWaiting)' /\ (IoWaiting # {} => ioReadPending)' /\ Stdio!NoReadStarves'
  BY <1>0, <1>5 DEF AtMostOne, Stdio!NoReadStarves
<1>7. Stdio!CloseOutlivesWrites'
  BY <1>0, <1>4 DEF Stdio!CloseOutlivesWrites, Stdio!OutputHeld
<1> QED
  BY <1>0, <1>3, <1>6, <1>7

\* Every step of the stdio transport keeps its invariant.
LEMMA IoStep ==
  ASSUME IoInv, Stdio!Next \/ UNCHANGED ioVars
  PROVE  IoInv'
<1> USE TransportAssumption
<1> USE DEF IoInv, Stdio!TypeOK, Stdio!Calls, Stdio!AllClosers, Stdio!CloseOutlivesWrites,
            Stdio!NoReadStarves, Stdio!OutputHeld, Stdio!StrandFree, Stdio!inputVars, Stdio!readVars, AtMostOne, IoWaiting
<1>1. CASE Stdio!GetLine
  BY <1>1 DEF Stdio!GetLine
<1>2. CASE Stdio!PostLine
  <2>1. ioPosted' \in Seq(0..MaxLines)
    <3>1. ioPosted' = Append(ioPosted, 0) \/ ioPosted' = Append(ioPosted, ioLines)
      BY <1>2 DEF Stdio!PostLine
    <3>2. ioPosted \in Seq(0..MaxLines) /\ 0 \in 0..MaxLines /\ ioLines \in 0..MaxLines
      OBVIOUS
    <3>3. Append(ioPosted, 0) \in Seq(0..MaxLines) /\ Append(ioPosted, ioLines) \in Seq(0..MaxLines)
      BY <3>2, AppendSeq, Zenon
    <3> QED
      BY <3>1, <3>3, Zenon
  <2> QED
    BY <1>2, <2>1 DEF Stdio!PostLine
<1>3. CASE Stdio!EndInput
  BY <1>3 DEF Stdio!EndInput
<1>4. CASE Stdio!TakePosted
  <2>1. ioPosted' \in Seq(0..MaxLines) /\ Head(ioPosted) \in 0..MaxLines
    BY <1>4 DEF Stdio!TakePosted
  <2>2. ioQueue' \in Seq(1..MaxLines)
    <3>1. ioQueue' = ioQueue \/ (Head(ioPosted) # 0 /\ ioQueue' = Append(ioQueue, Head(ioPosted)))
      <4>1. CASE Stdio!IsLine
        BY <1>4, <4>1 DEF Stdio!TakePosted, Stdio!IsLine
      <4>2. CASE ~Stdio!IsLine
        BY <1>4, <4>2 DEF Stdio!TakePosted
      <4> QED
        BY <4>1, <4>2
    <3>2. ioQueue \in Seq(1..MaxLines) /\ (Head(ioPosted) # 0 => Head(ioPosted) \in 1..MaxLines)
      BY <2>1
    <3>3. CASE Head(ioPosted) # 0 /\ ioQueue' = Append(ioQueue, Head(ioPosted))
      BY <3>2, <3>3, AppendSeq, Zenon
    <3> QED
      BY <3>1, <3>2, <3>3, Zenon
  <2>3. ioInputEnded' \in BOOLEAN /\ ioReadWoken' \in BOOLEAN
    BY <1>4 DEF Stdio!TakePosted
  <2>4. UNCHANGED <<ioClosed, ioThread, ioLines, ioWakePosted, ioReadPending, ioCall, ioCloser>>
    BY <1>4 DEF Stdio!TakePosted
  <2>5. IoWaiting # {} => ioReadWoken'
    BY <1>4 DEF Stdio!TakePosted, Stdio!WakesReader
  <2> QED
    BY <2>1, <2>2, <2>3, <2>4, <2>5
<1>5. CASE Stdio!RunWake
  BY <1>5 DEF Stdio!RunWake, Stdio!WakesReader
<1>6. ASSUME NEW r \in Reads, Stdio!CallRead(r) PROVE IoInv'
  BY <1>6 DEF Stdio!CallRead
<1>7. ASSUME NEW r \in Reads, Stdio!StartRead(r) PROVE IoInv'
  <2>1. CASE ioReadPending
    BY <1>7, <2>1 DEF Stdio!StartRead
  <2>2. CASE ~ioReadPending
    <3>1. IoWaiting \subseteq {r} /\ Stdio!ReadTurn(r)
      BY <1>7, <2>2 DEF Stdio!StartRead
    <3> QED
      BY <3>1, IoReadTurn
  <2> QED
    BY <2>1, <2>2
<1>8. ASSUME NEW r \in Reads, Stdio!ResumeRead(r) PROVE IoInv'
  <2>1. IoWaiting \subseteq {r} /\ Stdio!ReadTurn(r)
    BY <1>8 DEF Stdio!ResumeRead
  <2> QED
    BY <2>1, IoReadTurn
<1>9. ASSUME NEW w \in Writes, Stdio!CallWrite(w) PROVE IoInv'
  BY <1>9 DEF Stdio!CallWrite
<1>10. ASSUME NEW w \in Writes, Stdio!StartWrite(w) PROVE IoInv'
  BY <1>10 DEF Stdio!StartWrite
<1>11. ASSUME NEW w \in Writes, Stdio!Lock(w) PROVE IoInv'
  BY <1>11 DEF Stdio!Lock, Stdio!StillOpen
<1>12. ASSUME NEW w \in Writes, Stdio!WriteEnds(w) PROVE IoInv'
  BY <1>12 DEF Stdio!WriteEnds
<1>13. ASSUME NEW c \in Stdio!AllClosers, Stdio!BeginClose(c) PROVE IoInv'
  BY <1>13 DEF Stdio!BeginClose
<1>14. ASSUME NEW c \in Stdio!AllClosers, Stdio!EndClose(c) PROVE IoInv'
  BY <1>14 DEF Stdio!EndClose, Stdio!Barrier
<1>15. CASE UNCHANGED ioVars
  BY <1>15 DEF ioVars
<1> QED
  BY <1>1, <1>2, <1>3, <1>4, <1>5, <1>6, <1>7, <1>8, <1>9, <1>10, <1>11, <1>12, <1>13, <1>14, <1>15 DEF Stdio!Next

---------------------------------------------------------------------------
\* The HTTP client transport

\* The writes with an exchange under way, and the reads that wait for a message.
Exchanges == {w \in Writes : httpOp[w] \in {"resolving", "connecting", "exchanging"}}
HttpWaiting == {r \in Reads : httpOp[r] = "waiting"}

\* operation_active says that an exchange is under way, to the end of which those who
\* wait for it are tied, and whoever waits for a message has read_active; the DELETE of close() has neither beside it.
HttpInv ==
    /\ HttpClient!TypeOK
    /\ AtMostOne(Exchanges) /\ (httpActive <=> Exchanges # {}) /\ HttpClient!NoTurnMissed
    /\ httpCloser # "none" => httpClosed
    /\ httpCloser \in {"deleting", "done"} => ~httpActive
    /\ HttpClient!CloseCutsExchange /\ HttpClient!SessionIsEnded
    /\ AtMostOne(HttpWaiting) /\ (HttpWaiting # {} => httpReadActive)
    /\ HttpClient!NoReadStarves

\* A client that has not connected.
LEMMA HttpInit == HttpClient!Init => HttpInv
<1> SUFFICES ASSUME HttpClient!Init PROVE HttpInv
  OBVIOUS
<1> USE DEF HttpClient!Init
<1>1. HttpClient!TypeOK
  <2>1. <<>> \in Seq(Writes)
    OBVIOUS
  <2> QED
    BY <2>1 DEF HttpClient!TypeOK, HttpClient!Calls
<1>2. Exchanges = {} /\ HttpWaiting = {}
  BY DEF Exchanges, HttpWaiting, HttpClient!Calls
<1>3. HttpClient!NoTurnMissed
  BY DEF HttpClient!NoTurnMissed, HttpClient!Calls
<1> QED
  BY <1>1, <1>2, <1>3 DEF HttpInv, AtMostOne, HttpClient!CloseCutsExchange, HttpClient!SessionIsEnded,
     HttpClient!NoReadStarves, HttpWaiting

\* Only what one call does changes.
LEMMA HttpMoves ==
  ASSUME HttpInv, NEW o \in HttpClient!Calls,
         NEW place \in {"idle", "spawned", "waiting", "resolving", "connecting", "exchanging", "done", "failed"},
         httpOp' = [httpOp EXCEPT ![o] = place]
  PROVE  /\ httpOp' \in [HttpClient!Calls -> {"idle", "spawned", "waiting", "resolving", "connecting",
                                              "exchanging", "done", "failed"}]
         /\ httpOp'[o] = place
         /\ \A p \in HttpClient!Calls : p # o => httpOp'[p] = httpOp[p]
<1>1. httpOp \in [HttpClient!Calls -> {"idle", "spawned", "waiting", "resolving", "connecting", "exchanging",
                                      "done", "failed"}]
  BY DEF HttpInv, HttpClient!TypeOK
<1> QED
  BY <1>1

\* A turn of run_read: the read ends or is the one that waits.
LEMMA HttpReadTurn ==
  ASSUME HttpInv, NEW r \in Reads, HttpClient!ReadTurn(r), HttpWaiting \subseteq {r}, httpOp[r] \in {"spawned", "waiting"}
  PROVE  HttpInv'
<1> USE DEF HttpInv
<1>0. UNCHANGED <<httpClosed, httpCloser, httpWakePosted, httpStream, httpActive, httpOpWoken, httpHasSession, httpSent>>
  BY DEF HttpClient!ReadTurn, HttpClient!closeVars
<1>1. r \in HttpClient!Calls /\ r \notin Writes
  BY TransportAssumption DEF HttpClient!Calls
<1>2. PICK place \in {"failed", "done", "waiting"} :
          /\ httpOp' = [httpOp EXCEPT ![r] = place]
          /\ place = "waiting" => httpQueue' = <<>> /\ ~httpClosed /\ httpReadActive'
          /\ httpQueue' \in Seq(Writes)
  <2>1. httpQueue \in Seq(Writes)
    BY DEF HttpClient!TypeOK
  <2>2. CASE httpQueue # <<>>
    BY <2>1, <2>2, TailSeq DEF HttpClient!ReadTurn
  <2>3. CASE httpQueue = <<>> /\ httpClosed
    BY <2>1, <2>3 DEF HttpClient!ReadTurn
  <2>4. CASE httpQueue = <<>> /\ ~httpClosed
    BY <2>1, <2>4 DEF HttpClient!ReadTurn
  <2> QED
    BY <2>2, <2>3, <2>4
<1>3. /\ httpOp' \in [HttpClient!Calls -> {"idle", "spawned", "waiting", "resolving", "connecting",
                                           "exchanging", "done", "failed"}]
      /\ httpOp'[r] = place
      /\ \A p \in HttpClient!Calls : p # r => httpOp'[p] = httpOp[p]
  BY <1>1, <1>2, HttpMoves
<1>4. HttpClient!TypeOK'
  <2>1. httpReadActive' \in BOOLEAN /\ httpReadWoken' \in BOOLEAN
    BY DEF HttpClient!ReadTurn
  <2> QED
    BY <1>0, <1>2, <1>3, <2>1 DEF HttpClient!TypeOK
<1>5. Exchanges' = Exchanges
  BY <1>1, <1>3 DEF Exchanges, HttpClient!Calls
<1>6. HttpWaiting' \subseteq {r} /\ (HttpWaiting' # {} => place = "waiting")
  BY <1>3 DEF HttpWaiting, HttpClient!Calls
<1>7. HttpClient!NoReadStarves'
  BY <1>0, <1>2, <1>6 DEF HttpClient!NoReadStarves, HttpWaiting
<1>8. AtMostOne(HttpWaiting)' /\ (HttpWaiting # {} => httpReadActive)'
  BY <1>2, <1>6 DEF AtMostOne
<1>9. HttpClient!NoTurnMissed'
  BY <1>0, <1>1, <1>3, <1>5 DEF HttpClient!NoTurnMissed, HttpClient!Calls, Exchanges
<1> QED
  BY <1>0, <1>4, <1>5, <1>7, <1>8, <1>9 DEF AtMostOne, HttpClient!CloseCutsExchange, HttpClient!SessionIsEnded

\* A turn of run_write: refused, behind the exchange under way, or the next one.
LEMMA HttpWriteTurn ==
  ASSUME HttpInv, NEW w \in Writes, HttpClient!WriteTurn(w),
         httpOpWoken' \subseteq httpOpWoken, httpOpWoken \subseteq httpOpWoken' \cup {w},
         httpOp[w] \in {"spawned", "waiting"}
  PROVE  HttpInv'
<1> USE DEF HttpInv, HttpClient!Refused
<1>0. UNCHANGED <<httpClosed, httpCloser, httpWakePosted, httpStream, httpReadActive, httpReadWoken, httpQueue,
                  httpHasSession>>
  BY DEF HttpClient!WriteTurn, HttpClient!closeVars, HttpClient!readVars
<1>1. w \in HttpClient!Calls /\ w \notin Reads
  BY TransportAssumption DEF HttpClient!Calls
<1>2. PICK place \in {"failed", "waiting", "resolving", "exchanging"} :
          /\ httpOp' = [httpOp EXCEPT ![w] = place]
          /\ place \in {"resolving", "exchanging"} <=> ~httpClosed /\ ~httpActive
          /\ place = "waiting" => httpActive
  BY DEF HttpClient!WriteTurn
<1>3. /\ httpOp' \in [HttpClient!Calls -> {"idle", "spawned", "waiting", "resolving", "connecting",
                                           "exchanging", "done", "failed"}]
      /\ httpOp'[w] = place
      /\ \A p \in HttpClient!Calls : p # w => httpOp'[p] = httpOp[p]
  BY <1>1, <1>2, HttpMoves
<1>4. httpActive' = (httpActive \/ ~httpClosed)
  BY DEF HttpClient!WriteTurn
<1>5. HttpClient!TypeOK'
  <2>1. httpSent' \subseteq Writes /\ httpActive' \in BOOLEAN
    BY <1>4 DEF HttpClient!WriteTurn, HttpClient!TypeOK
  <2> QED
    BY <1>0, <1>3, <2>1 DEF HttpClient!TypeOK
<1>6. HttpWaiting' = HttpWaiting
  BY <1>1, <1>3 DEF HttpWaiting, HttpClient!Calls
<1>7. IF httpClosed \/ httpActive THEN Exchanges' = Exchanges ELSE Exchanges' = {w} /\ httpActive'
  BY <1>2, <1>3, <1>4 DEF Exchanges, HttpClient!Calls
<1>8. HttpClient!NoReadStarves'
  BY <1>0, <1>6 DEF HttpClient!NoReadStarves, HttpWaiting
<1>9. AtMostOne(Exchanges)' /\ (httpActive <=> Exchanges # {})'
  BY <1>4, <1>7 DEF AtMostOne
<1>10. HttpClient!NoTurnMissed'
  <2>1. \A v \in Writes : v # w => (httpOp'[v] = httpOp[v])
    BY <1>3 DEF HttpClient!Calls
  <2>2. CASE httpActive'
    BY <1>9, <2>2 DEF HttpClient!NoTurnMissed, Exchanges
  <2>3. CASE ~httpActive'
    <3>1. ~httpActive /\ httpOp'[w] # "waiting"
      BY <1>2, <1>3, <1>4, <2>3
    <3>2. /\ \A v \in Writes : httpOp[v] = "waiting" => v \in httpOpWoken
          /\ httpCloser = "waiting" => "closer" \in httpOpWoken
      BY <3>1 DEF HttpClient!NoTurnMissed, Exchanges
    <3> QED
      BY <1>0, <2>1, <3>1, <3>2, TransportAssumption DEF HttpClient!NoTurnMissed
  <2> QED
    BY <2>2, <2>3
<1> QED
  BY <1>0, <1>4, <1>5, <1>6, <1>8, <1>9, <1>10 DEF AtMostOne, HttpClient!CloseCutsExchange, HttpClient!SessionIsEnded

\* An exchange that ends leaves operation_active to whoever comes next.
LEMMA HttpExchangeEnds ==
  ASSUME HttpInv, NEW w \in Writes, w \in Exchanges, NEW place \in {"done", "failed"},
         httpOp' = [httpOp EXCEPT ![w] = place],
         httpStream' \in {httpStream, "none"},
         httpHasSession' \in BOOLEAN,
         HttpClient!CompleteOperation,
         httpQueue' \in Seq(Writes),
         httpReadWoken' \in BOOLEAN, HttpWaiting # {} /\ ~httpReadWoken' => httpQueue' = httpQueue /\ ~httpReadWoken,
         UNCHANGED <<httpClosed, httpCloser, httpWakePosted, httpReadActive, httpSent>>
  PROVE  HttpInv'
<1> USE DEF HttpInv
<1>1. w \in HttpClient!Calls /\ w \notin Reads
  BY TransportAssumption DEF HttpClient!Calls
<1>2. /\ httpOp' \in [HttpClient!Calls -> {"idle", "spawned", "waiting", "resolving", "connecting",
                                           "exchanging", "done", "failed"}]
      /\ httpOp'[w] = place
      /\ \A p \in HttpClient!Calls : p # w => httpOp'[p] = httpOp[p]
  BY <1>1, HttpMoves
<1>3. HttpClient!TypeOK'
  <2>1. httpOpWoken' \subseteq Writes \cup {"closer"} /\ httpActive' \in BOOLEAN
    BY DEF HttpClient!TypeOK, HttpClient!CompleteOperation, HttpClient!WakesAll
  <2>2. httpStream' \in {"none", "open", "closed"}
    BY DEF HttpClient!TypeOK
  <2> QED
    BY <1>2, <2>1, <2>2 DEF HttpClient!TypeOK
<1>4. HttpWaiting' = HttpWaiting
  BY <1>1, <1>2 DEF HttpWaiting, HttpClient!Calls
<1>5. Exchanges' = {}
  BY <1>2 DEF Exchanges, AtMostOne, HttpClient!Calls
<1>6. ~httpActive' /\ httpCloser \notin {"deleting", "done"}
  BY DEF HttpClient!CompleteOperation
<1>7. HttpClient!NoReadStarves'
  BY <1>4 DEF HttpClient!NoReadStarves, HttpWaiting
<1>8. HttpClient!CloseCutsExchange' /\ HttpClient!SessionIsEnded'
  BY <1>6 DEF HttpClient!CloseCutsExchange, HttpClient!SessionIsEnded
<1>9. HttpClient!NoTurnMissed'
  BY <1>2 DEF HttpClient!NoTurnMissed, HttpClient!CompleteOperation, HttpClient!WakesAll, HttpClient!Calls
<1> QED
  BY <1>3, <1>4, <1>5, <1>6, <1>7, <1>8, <1>9 DEF AtMostOne

\* Every step of the HTTP client transport keeps its invariant.
LEMMA HttpStep ==
  ASSUME HttpInv, HttpClient!Next \/ UNCHANGED httpVars
  PROVE  HttpInv'
<1> USE TransportAssumption
<1> USE DEF HttpInv, HttpClient!TypeOK, HttpClient!Calls, HttpClient!CloseCutsExchange, HttpClient!SessionIsEnded,
            HttpClient!NoReadStarves, HttpClient!NoTurnMissed, HttpClient!readVars, HttpClient!closeVars, AtMostOne, Exchanges, HttpWaiting
<1>1. CASE HttpClient!RunWake
  BY <1>1 DEF HttpClient!RunWake, HttpClient!WakesRead
<1>2. CASE HttpClient!Close
  BY <1>2 DEF HttpClient!Close
<1>3. CASE HttpClient!StartCloser
  BY <1>3 DEF HttpClient!StartCloser, HttpClient!WaitsForExchange, HttpClient!EndSession, HttpClient!MustDelete
<1>4. CASE HttpClient!ResumeCloser
  BY <1>4 DEF HttpClient!ResumeCloser, HttpClient!EndSession, HttpClient!MustDelete
<1>5. CASE HttpClient!DeleteEnds
  BY <1>5 DEF HttpClient!DeleteEnds
<1>6. ASSUME NEW o \in HttpClient!Calls, HttpClient!Call(o) PROVE HttpInv'
  BY <1>6 DEF HttpClient!Call
<1>7. ASSUME NEW r \in Reads, HttpClient!StartRead(r) PROVE HttpInv'
  <2>1. CASE httpReadActive
    BY <1>7, <2>1 DEF HttpClient!StartRead
  <2>2. CASE ~httpReadActive
    <3>1. HttpWaiting \subseteq {r} /\ HttpClient!ReadTurn(r) /\ httpOp[r] \in {"spawned", "waiting"}
      BY <1>7, <2>2 DEF HttpClient!StartRead
    <3> QED
      BY <3>1, HttpReadTurn
  <2> QED
    BY <2>1, <2>2
<1>8. ASSUME NEW r \in Reads, HttpClient!ResumeRead(r) PROVE HttpInv'
  <2>1. HttpWaiting \subseteq {r} /\ HttpClient!ReadTurn(r) /\ httpOp[r] \in {"spawned", "waiting"}
    BY <1>8 DEF HttpClient!ResumeRead
  <2> QED
    BY <2>1, HttpReadTurn
<1>9. ASSUME NEW w \in Writes, HttpClient!StartWrite(w) PROVE HttpInv'
  <2>1. /\ HttpClient!WriteTurn(w) /\ httpOp[w] \in {"spawned", "waiting"}
        /\ httpOpWoken' \subseteq httpOpWoken /\ httpOpWoken \subseteq httpOpWoken' \cup {w}
    BY <1>9 DEF HttpClient!StartWrite
  <2> QED
    BY <2>1, HttpWriteTurn
<1>10. ASSUME NEW w \in Writes, HttpClient!ResumeWrite(w) PROVE HttpInv'
  <2>1. /\ HttpClient!WriteTurn(w) /\ httpOp[w] \in {"spawned", "waiting"}
        /\ httpOpWoken' \subseteq httpOpWoken /\ httpOpWoken \subseteq httpOpWoken' \cup {w}
    BY <1>10 DEF HttpClient!ResumeWrite
  <2> QED
    BY <2>1, HttpWriteTurn
<1>11. ASSUME NEW w \in Writes, HttpClient!WriteFails(w) PROVE HttpInv'
  <2>1. /\ w \in Exchanges /\ httpOp' = [httpOp EXCEPT ![w] = "failed"]
        /\ httpStream' \in {httpStream, "none"} /\ httpHasSession' \in BOOLEAN
        /\ HttpClient!CompleteOperation
        /\ httpQueue' = httpQueue /\ httpReadWoken' = httpReadWoken
        /\ UNCHANGED <<httpClosed, httpCloser, httpWakePosted, httpReadActive, httpSent>>
    BY <1>11 DEF HttpClient!WriteFails
  <2>2. "failed" \in {"done", "failed"}
    OBVIOUS
  <2> QED
    BY <2>1, <2>2, HttpExchangeEnds
<1>12. ASSUME NEW w \in Writes, HttpClient!Resolved(w) PROVE HttpInv'
  BY <1>12 DEF HttpClient!Resolved, HttpClient!MayConnect
<1>13. ASSUME NEW w \in Writes, HttpClient!Connected(w) PROVE HttpInv'
  BY <1>13 DEF HttpClient!Connected
<1>14. ASSUME NEW w \in Writes, HttpClient!Responded(w) PROVE HttpInv'
  <2>1. /\ w \in Exchanges /\ httpOp' = [httpOp EXCEPT ![w] = "done"]
        /\ httpStream' \in {httpStream, "none"} /\ httpHasSession' \in BOOLEAN
        /\ HttpClient!CompleteOperation
        /\ UNCHANGED <<httpClosed, httpCloser, httpWakePosted, httpReadActive, httpSent>>
    BY <1>14 DEF HttpClient!Responded
  <2>2. PICK n \in 0..2 : /\ httpQueue' = httpQueue \o [i \in 1..n |-> w]
                          /\ httpReadWoken' = (httpReadWoken \/ (n > 0 /\ HttpClient!WakesRead))
    BY <1>14 DEF HttpClient!Responded
  <2>3. [i \in 1..n |-> w] \in Seq(Writes) /\ (n = 0 => [i \in 1..n |-> w] = <<>>)
    OBVIOUS
  <2>4. httpQueue' \in Seq(Writes) /\ (n = 0 => httpQueue' = httpQueue)
    BY <2>2, <2>3
  <2>5. /\ httpReadWoken' \in BOOLEAN
        /\ HttpWaiting # {} /\ ~httpReadWoken' => httpQueue' = httpQueue /\ ~httpReadWoken
    BY <2>2, <2>4 DEF HttpClient!WakesRead
  <2>6. "done" \in {"done", "failed"}
    OBVIOUS
  <2> QED
    BY <2>1, <2>4, <2>5, <2>6, HttpExchangeEnds
<1>15. CASE UNCHANGED httpVars
  BY <1>15 DEF httpVars
<1> QED
  BY <1>1, <1>2, <1>3, <1>4, <1>5, <1>6, <1>7, <1>8, <1>9, <1>10, <1>11, <1>12, <1>13, <1>14, <1>15
  DEF HttpClient!Next

---------------------------------------------------------------------------
\* The WebSocket transports

\* The writes on the socket, and the calls that make the handshake.
Writing == {w \in SocketWrites : wsOp[w] = "io"}
Establishing == {o \in WebSocket!Calls : wsOp[o] = "establishing"}

\* How many of the writes that came to the gate are in front of those that wait.
Passed == Len(wsQueued) - Len(wsWaiters)

\* The gate of an open transport: taken by the one write that has it or was handed
\* it, behind which the others wait in the order they came.
GateInOrder ==
    /\ AtMostOne(Writing \cup wsGranted)
    /\ wsActive <=> Writing \cup wsGranted # {}
    /\ wsWaiters # <<>> => wsActive
    /\ Passed \in Nat
    /\ \A i \in 1..Len(wsWaiters) : wsWaiters[i] = wsQueued[Passed + i]
    /\ \A w \in wsGranted : wsOp[w] = "gateWoken" /\ Passed > 0 /\ w = wsQueued[Passed]

\* The writes in front of everything that is not on the wire yet.
Reached == IF wsGranted = {} THEN Passed ELSE Passed - 1

\* Nothing behind them is on the wire.
WireInOrder ==
    \A i \in 1..Len(wsWire) : \E a \in 1..Reached : wsWire[i] = wsQueued[a]

\* The calls that have not come to the gate.
Early == {"idle", "spawned", "establishing", "hsWaiting", "hsWoken"}

\* Where the calls before and in the gate are.
Places ==
    /\ \A o \in wsHsWaiters : wsOp[o] = "hsWaiting"
    /\ \A i \in 1..Len(wsWaiters) : wsOp[wsWaiters[i]] = "gateWaiting"
    /\ \A a, b \in 1..Len(wsQueued) : wsQueued[a] = wsQueued[b] => a = b
    /\ \A a \in 1..Len(wsQueued) : wsOp[wsQueued[a]] \notin Early

\* The handshake and the end of the connection.
Connection ==
    /\ AtMostOne(Establishing)
    /\ Establishing # {} => wsState = "establishing" \/ ~wsSocketOpen
    /\ WebSocket!ClosedStaysClosed
    /\ wsClosePosted \/ ~wsSocketOpen => wsClosed
    /\ wsClosed => wsClosePosted \/ wsWaiters = <<>>

\* The wire has the order of the gate.
WrittenInOrder ==
    \A i, j \in 1..Len(wsWire) : \A a, b \in 1..Len(wsQueued) :
        i < j /\ wsWire[i] = wsQueued[a] /\ wsWire[j] = wsQueued[b] => a < b

\* The gate: its order matters until close().
Gate == AtMostOne(Writing) /\ WrittenInOrder /\ (~wsClosed => GateInOrder /\ WireInOrder)

\* The invariant of the WebSocket transports.
SocketInv == WebSocket!TypeOK /\ Connection /\ Places /\ Gate

\* Where the coroutines of the calls can be.
OpShape ==
    [WebSocket!Calls -> {"idle", "spawned", "establishing", "hsWaiting", "hsWoken", "gateWaiting", "gateWoken",
                         "io", "done", "failed"}]

\* A connection nobody has used.
LEMMA SocketInit == WebSocket!Init => SocketInv
<1> SUFFICES ASSUME WebSocket!Init PROVE SocketInv
  OBVIOUS
<1> USE DEF WebSocket!Init
<1>1. WebSocket!TypeOK
  <2>1. <<>> \in Seq(SocketWrites)
    OBVIOUS
  <2> QED
    BY <2>1 DEF WebSocket!TypeOK, WebSocket!Calls
<1>2. Writing = {} /\ Establishing = {}
  BY DEF Writing, Establishing, WebSocket!Calls
<1>3. Connection /\ Places
  BY <1>2 DEF Connection, Places, AtMostOne, WebSocket!ClosedStaysClosed
<1>4. GateInOrder /\ WireInOrder /\ WrittenInOrder
  BY <1>2 DEF GateInOrder, WireInOrder, WrittenInOrder, AtMostOne, Passed
<1> QED
  BY <1>1, <1>2, <1>3, <1>4 DEF SocketInv, Gate, AtMostOne

\* A step that is not the gate's leaves its order alone.
LEMMA GateKept ==
  ASSUME SocketInv, UNCHANGED <<wsActive, wsWaiters, wsGranted, wsQueued, wsWire>>,
         wsClosed => wsClosed', Writing' \subseteq Writing,
         ~wsClosed' => /\ Writing \subseteq Writing'
                       /\ \A w \in wsGranted : wsOp'[w] = wsOp[w]
  PROVE  Gate'
<1>1. AtMostOne(Writing)' /\ WrittenInOrder'
  BY DEF SocketInv, Gate, AtMostOne, WrittenInOrder
<1>2. ASSUME ~wsClosed' PROVE GateInOrder' /\ WireInOrder'
  <2>1. Writing' = Writing /\ GateInOrder /\ WireInOrder
    BY <1>2 DEF SocketInv, Gate
  <2>2. Passed' = Passed /\ Reached' = Reached
    BY DEF Passed, Reached
  <2>3. WireInOrder'
    BY <2>1, <2>2 DEF WireInOrder
  <2>4. GateInOrder'
    BY <1>2, <2>1, <2>2 DEF GateInOrder, AtMostOne
  <2> QED
    BY <2>3, <2>4
<1> QED
  BY <1>1, <1>2 DEF Gate

\* Only what one call does changes.
LEMMA SocketMoves ==
  ASSUME NEW ops \in OpShape, NEW o \in WebSocket!Calls,
         NEW place \in {"idle", "spawned", "establishing", "hsWaiting", "hsWoken", "gateWaiting", "gateWoken", "io",
                        "done", "failed"},
         wsOp' = [ops EXCEPT ![o] = place]
  PROVE  wsOp' \in OpShape /\ wsOp'[o] = place /\ \A p \in WebSocket!Calls : p # o => wsOp'[p] = ops[p]
  BY DEF OpShape

\* A write that comes to the gate and goes on the wire at once is last on both.
LEMMA AppendedInOrder ==
  ASSUME WrittenInOrder, Len(wsQueued) \in Nat, Len(wsWire) \in Nat, NEW o,
         \A a \in 1..Len(wsQueued) : wsQueued[a] # o,
         \A i \in 1..Len(wsWire) : \E a \in 1..Len(wsQueued) : wsWire[i] = wsQueued[a],
         Len(wsQueued') = Len(wsQueued) + 1, wsQueued'[Len(wsQueued) + 1] = o,
         \A a \in 1..Len(wsQueued) : wsQueued'[a] = wsQueued[a],
         Len(wsWire') = Len(wsWire) + 1, wsWire'[Len(wsWire) + 1] = o,
         \A i \in 1..Len(wsWire) : wsWire'[i] = wsWire[i]
  PROVE  WrittenInOrder'
<1> SUFFICES ASSUME NEW i \in 1..Len(wsWire'), NEW j \in 1..Len(wsWire'), i < j,
                    NEW a \in 1..Len(wsQueued'), NEW b \in 1..Len(wsQueued'),
                    wsWire'[i] = wsQueued'[a], wsWire'[j] = wsQueued'[b]
             PROVE  a < b
  BY DEF WrittenInOrder
<1>0. a \in 1..Len(wsQueued) + 1 /\ b \in 1..Len(wsQueued) + 1 /\ j \in 1..Len(wsWire) + 1
  OBVIOUS
<1>1. i \in 1..Len(wsWire) /\ wsWire[i] # o /\ wsWire'[i] = wsWire[i]
  <2>1. i \in 1..Len(wsWire)
    OBVIOUS
  <2>2. PICK c \in 1..Len(wsQueued) : wsWire[i] = wsQueued[c]
    BY <2>1
  <2> QED
    BY <2>1, <2>2
<1>2. a \in 1..Len(wsQueued)
  <2>1. a # Len(wsQueued) + 1
    BY <1>1
  <2> QED
    BY <1>0, <2>1
<1>3. CASE j = Len(wsWire) + 1
  <2>1. b = Len(wsQueued) + 1
    <3>1. wsQueued'[b] = o
      BY <1>3
    <3>2. \A c \in 1..Len(wsQueued) : wsQueued'[c] # o
      OBVIOUS
    <3> QED
      BY <1>0, <3>1, <3>2
  <2> QED
    BY <1>2, <2>1
<1>4. CASE j \in 1..Len(wsWire)
  <2>1. wsWire[j] # o /\ wsWire'[j] = wsWire[j]
    BY <1>4
  <2>2. b \in 1..Len(wsQueued)
    <3>1. b # Len(wsQueued) + 1
      BY <2>1
    <3> QED
      BY <1>0, <3>1
  <2>3. wsWire[i] = wsQueued[a] /\ wsWire[j] = wsQueued[b]
    BY <1>1, <1>2, <2>1, <2>2
  <2> QED
    BY <1>1, <1>2, <1>4, <2>2, <2>3 DEF WrittenInOrder
<1>5. j = Len(wsWire) + 1 \/ j \in 1..Len(wsWire)
  BY <1>0, LastOrBefore, Zenon
<1> QED
  BY <1>3, <1>4, <1>5

\* A call that has not come to the gate is in none of its places.
LEMMA EarlyIsNowhere ==
  ASSUME SocketInv, NEW o \in WebSocket!Calls, wsOp[o] \in Early
  PROVE  /\ \A a \in 1..Len(wsQueued) : wsQueued[a] # o
         /\ \A i \in 1..Len(wsWaiters) : wsWaiters[i] # o
         /\ ~wsClosed => o \notin wsGranted
         /\ o \notin Writing
<1>1. wsOp[o] \notin {"gateWaiting", "gateWoken", "io"}
  BY DEF Early
<1> QED
  BY <1>1 DEF SocketInv, Places, Gate, GateInOrder, Writing

\* Behind the handshake a call goes to the socket, into the gate, in line or away.
LEMMA SocketProceeds ==
  ASSUME SocketInv, NEW o \in WebSocket!Calls, wsOp[o] \in Early, NEW ops \in OpShape, WebSocket!Proceed(o, ops),
         \A p \in WebSocket!Calls : p # o => (ops[p] = wsOp[p] \/ (p \in wsHsWaiters /\ ops[p] = "hsWoken")),
         wsHsWaiters' = {} \/ (wsHsWaiters' = wsHsWaiters /\ ops = wsOp /\ o \notin wsHsWaiters),
         UNCHANGED <<wsClosed, wsClosePosted, wsSocketOpen, wsGranted>>
  PROVE  /\ Places' /\ Gate' /\ Establishing' \subseteq Establishing \ {o}
         /\ wsOp' \in OpShape /\ wsActive' \in BOOLEAN
         /\ wsWaiters' \in Seq(SocketWrites) /\ wsQueued' \in Seq(SocketWrites) /\ wsWire' \in Seq(SocketWrites)
         /\ wsClosed => wsWaiters' = wsWaiters
<1>0. /\ wsWaiters \in Seq(SocketWrites) /\ wsQueued \in Seq(SocketWrites) /\ wsWire \in Seq(SocketWrites)
      /\ wsActive \in BOOLEAN /\ wsGranted \subseteq SocketWrites /\ wsHsWaiters \subseteq WebSocket!Calls
      /\ SocketWrites \subseteq WebSocket!Calls
  BY DEF SocketInv, WebSocket!TypeOK, WebSocket!Calls
<1>a. /\ \A a \in 1..Len(wsQueued) : wsQueued[a] # o
      /\ \A i \in 1..Len(wsWaiters) : wsWaiters[i] # o
      /\ ~wsClosed => o \notin wsGranted
      /\ o \notin Writing
  BY EarlyIsNowhere
<1>b. PICK place \in {"io", "failed", "gateWaiting"} : wsOp' = [ops EXCEPT ![o] = place]
  BY DEF WebSocket!Proceed
<1>1. wsOp' \in OpShape /\ wsOp'[o] = place /\ \A p \in WebSocket!Calls : p # o => wsOp'[p] = ops[p]
  BY <1>b, SocketMoves
<1>2. \A p \in WebSocket!Calls : wsOp[p] \notin Early => wsOp'[p] = wsOp[p]
  BY <1>1 DEF SocketInv, Places, Early
<1>3. Establishing' \subseteq Establishing \ {o}
  BY <1>1 DEF Establishing
<1>4. \A p \in wsHsWaiters' : wsOp'[p] = "hsWaiting"
  BY <1>0, <1>1 DEF SocketInv, Places
<1>5. /\ \A i \in 1..Len(wsWaiters) : wsOp'[wsWaiters[i]] = "gateWaiting"
      /\ \A a \in 1..Len(wsQueued) : wsOp'[wsQueued[a]] \notin Early
      /\ \A w \in wsGranted : ~wsClosed => wsOp'[w] = wsOp[w]
  <2>1. "gateWaiting" \notin Early /\ "gateWoken" \notin Early
    BY DEF Early
  <2>2. \A i \in 1..Len(wsWaiters) : wsWaiters[i] \in WebSocket!Calls
    BY <1>0
  <2>3. \A a \in 1..Len(wsQueued) : wsQueued[a] \in WebSocket!Calls
    BY <1>0
  <2>4. \A w \in wsGranted : ~wsClosed => wsOp[w] = "gateWoken"
    BY DEF SocketInv, Gate, GateInOrder
  <2> QED
    BY <1>0, <1>2, <2>1, <2>2, <2>3, <2>4 DEF SocketInv, Places
<1>6. Writing' \ {o} = Writing
  BY <1>0, <1>1, <1>2, <1>a DEF Writing, SocketInv, Places, Early
<1>7. CASE UNCHANGED <<wsActive, wsWaiters, wsQueued, wsWire>> /\ (o \in SocketReads \/ place = "failed")
  <2>1. o \notin Writing'
    BY <1>1, <1>7, TransportAssumption DEF Writing
  <2>2. Gate'
    BY <1>5, <1>6, <1>7, <2>1, GateKept
  <2>3. Places'
    BY <1>4, <1>5, <1>7 DEF Places, SocketInv
  <2> QED
    BY <1>0, <1>1, <1>3, <1>7, <2>2, <2>3
<1>8. CASE /\ o \in SocketWrites /\ ~wsClosed /\ ~wsActive /\ wsActive' = TRUE /\ place = "io"
           /\ wsQueued' = Append(wsQueued, o) /\ wsWire' = Append(wsWire, o) /\ wsWaiters' = wsWaiters
  <2>1. wsWaiters = <<>> /\ Writing = {} /\ wsGranted = {} /\ Passed = Len(wsQueued) /\ Reached = Len(wsQueued)
    BY <1>0, <1>8 DEF SocketInv, Gate, GateInOrder, Passed, Reached
  <2>2. Writing' = {o}
    BY <1>1, <1>6, <1>8, <2>1 DEF Writing
  <2>3. wsQueued' \in Seq(SocketWrites) /\ wsWire' \in Seq(SocketWrites)
    BY <1>0, <1>8, AppendSeq
  <2>4. /\ Len(wsQueued') = Len(wsQueued) + 1 /\ wsQueued'[Len(wsQueued) + 1] = o
        /\ \A a \in 1..Len(wsQueued) : wsQueued'[a] = wsQueued[a]
        /\ Len(wsWire') = Len(wsWire) + 1 /\ wsWire'[Len(wsWire) + 1] = o
        /\ \A i \in 1..Len(wsWire) : wsWire'[i] = wsWire[i]
    BY <1>0, <1>8, AppendSeq
  <2>5. Passed' = Len(wsQueued) + 1 /\ Reached' = Len(wsQueued) + 1 /\ Len(wsQueued) \in Nat
    BY <1>0, <1>8, <2>1, <2>4 DEF Passed, Reached
  <2>6. GateInOrder'
    BY <1>8, <2>1, <2>2, <2>5 DEF GateInOrder, AtMostOne
  <2>7. \A i \in 1..Len(wsWire) : \E a \in 1..Len(wsQueued) : wsWire[i] = wsQueued[a]
    BY <1>8, <2>1 DEF SocketInv, Gate, WireInOrder
  <2>8. WireInOrder'
    <3> SUFFICES ASSUME NEW i \in 1..Len(wsWire') PROVE \E a \in 1..Reached' : wsWire'[i] = wsQueued'[a]
      BY DEF WireInOrder
    <3>1. CASE i \in 1..Len(wsWire)
      <4>1. PICK a \in 1..Len(wsQueued) : wsWire[i] = wsQueued[a]
        BY <2>7, <3>1
      <4>2. a \in 1..Reached' /\ wsWire'[i] = wsQueued'[a]
        BY <2>4, <2>5, <3>1, <4>1
      <4> QED
        BY <4>2
    <3>2. CASE i = Len(wsWire) + 1
      <4>1. Len(wsQueued) + 1 \in 1..Reached' /\ wsWire'[i] = wsQueued'[Len(wsQueued) + 1]
        BY <2>4, <2>5, <3>2
      <4> QED
        BY <4>1
    <3> QED
      BY <1>0, <2>4, <3>1, <3>2
  <2>9. WrittenInOrder'
    BY <1>0, <1>a, <2>4, <2>5, <2>7, AppendedInOrder DEF SocketInv, Gate
  <2>10. Gate'
    BY <2>2, <2>6, <2>8, <2>9 DEF Gate, AtMostOne
  <2>11. Places'
    <3>1. \A a, b \in 1..Len(wsQueued') : wsQueued'[a] = wsQueued'[b] => a = b
      BY <1>a, <2>4, <2>5 DEF SocketInv, Places
    <3>2. \A a \in 1..Len(wsQueued') : wsOp'[wsQueued'[a]] \notin Early
      BY <1>1, <1>5, <1>8, <2>4, <2>5 DEF Early
    <3> QED
      BY <1>4, <1>8, <2>1, <3>1, <3>2 DEF Places
  <2> QED
    BY <1>0, <1>1, <1>3, <1>8, <2>3, <2>10, <2>11
<1>9. CASE /\ o \in SocketWrites /\ ~wsClosed /\ wsActive /\ place = "gateWaiting"
           /\ wsQueued' = Append(wsQueued, o) /\ wsWaiters' = Append(wsWaiters, o)
           /\ UNCHANGED <<wsActive, wsWire>>
  <2>2. Writing' = Writing
    BY <1>1, <1>6, <1>9 DEF Writing
  <2>3. wsQueued' \in Seq(SocketWrites) /\ wsWaiters' \in Seq(SocketWrites)
    BY <1>0, <1>9, AppendSeq
  <2>4. /\ Len(wsQueued') = Len(wsQueued) + 1 /\ wsQueued'[Len(wsQueued) + 1] = o
        /\ \A a \in 1..Len(wsQueued) : wsQueued'[a] = wsQueued[a]
        /\ Len(wsWaiters') = Len(wsWaiters) + 1 /\ wsWaiters'[Len(wsWaiters) + 1] = o
        /\ \A i \in 1..Len(wsWaiters) : wsWaiters'[i] = wsWaiters[i]
    BY <1>0, <1>9, AppendSeq
  <2>5. /\ Passed' = Passed /\ Reached' = Reached /\ Passed \in Nat
        /\ Len(wsQueued) \in Nat /\ Len(wsWaiters) \in Nat /\ Len(wsQueued) = Passed + Len(wsWaiters)
    BY <1>0, <1>9, <2>4 DEF Passed, Reached, SocketInv, Gate, GateInOrder
  <2>6. GateInOrder'
    <3>1. \A i \in 1..Len(wsWaiters') : wsWaiters'[i] = wsQueued'[Passed' + i]
      BY <1>9, <2>4, <2>5 DEF SocketInv, Gate, GateInOrder
    <3>2. \A w \in wsGranted : wsOp'[w] = "gateWoken" /\ Passed' > 0 /\ w = wsQueued'[Passed']
      BY <1>5, <1>9, <2>4, <2>5 DEF SocketInv, Gate, GateInOrder
    <3> QED
      BY <1>9, <2>2, <2>5, <3>1, <3>2 DEF SocketInv, Gate, GateInOrder, AtMostOne
  <2>7. Reached <= Len(wsQueued) /\ Reached \in Int
    BY <2>5 DEF Reached
  <2>8. WireInOrder'
    <3> SUFFICES ASSUME NEW i \in 1..Len(wsWire) PROVE \E a \in 1..Reached : wsWire[i] = wsQueued'[a]
      BY <1>9, <2>5 DEF WireInOrder
    <3>1. PICK a \in 1..Reached : wsWire[i] = wsQueued[a]
      BY <1>9 DEF WireInOrder, SocketInv, Gate
    <3>2. wsQueued'[a] = wsQueued[a]
      BY <2>4, <2>5, <2>7
    <3> QED
      BY <3>1, <3>2
  <2>9. WrittenInOrder'
    <3>1. \A i \in 1..Len(wsWire) : wsWire[i] # o
      BY <1>9, <1>a, <2>5, <2>7 DEF WireInOrder, SocketInv, Gate
    <3>a. wsWire' = wsWire /\ Len(wsQueued') = Len(wsQueued) + 1
      BY <1>9, <2>4
    <3> SUFFICES ASSUME NEW i \in 1..Len(wsWire)', NEW j \in 1..Len(wsWire)', i < j,
                        NEW a \in 1..Len(wsQueued)', NEW b \in 1..Len(wsQueued)',
                        wsWire'[i] = wsQueued'[a], wsWire'[j] = wsQueued'[b]
                 PROVE  a < b
      BY DEF WrittenInOrder
    <3>b. i \in 1..Len(wsWire) /\ j \in 1..Len(wsWire) /\ wsWire[i] = wsQueued'[a] /\ wsWire[j] = wsQueued'[b]
      BY <3>a
    <3>c. a \in 1..Len(wsQueued) + 1 /\ b \in 1..Len(wsQueued) + 1
      BY <3>a
    <3>2. a # Len(wsQueued) + 1 /\ b # Len(wsQueued) + 1
      BY <2>4, <3>1, <3>b
    <3>3. a \in 1..Len(wsQueued) /\ b \in 1..Len(wsQueued)
      BY <2>5, <3>2, <3>c, LastOrBefore, Zenon
    <3>4. wsWire[i] = wsQueued[a] /\ wsWire[j] = wsQueued[b] /\ WrittenInOrder
      BY <2>4, <3>3, <3>b DEF SocketInv, Gate
    <3> QED
      BY <3>3, <3>4, <3>b DEF WrittenInOrder
  <2>10. Gate'
    BY <2>2, <2>6, <2>8, <2>9 DEF Gate, AtMostOne, SocketInv
  <2>11. Places'
    <3>1. \A a, b \in 1..Len(wsQueued') : wsQueued'[a] = wsQueued'[b] => a = b
      BY <1>a, <2>4, <2>5 DEF SocketInv, Places
    <3>2. \A a \in 1..Len(wsQueued') : wsOp'[wsQueued'[a]] \notin Early
      BY <1>1, <1>5, <1>9, <2>4, <2>5 DEF Early
    <3>3. \A i \in 1..Len(wsWaiters') : wsOp'[wsWaiters'[i]] = "gateWaiting"
      BY <1>1, <1>5, <1>9, <2>4, <2>5
    <3> QED
      BY <1>4, <3>1, <3>2, <3>3 DEF Places
  <2> QED
    BY <1>0, <1>1, <1>3, <1>9, <2>3, <2>10, <2>11
<1>10. \/ UNCHANGED <<wsActive, wsWaiters, wsQueued, wsWire>> /\ (o \in SocketReads \/ place = "failed")
       \/ /\ o \in SocketWrites /\ ~wsClosed /\ ~wsActive /\ wsActive' = TRUE /\ place = "io"
          /\ wsQueued' = Append(wsQueued, o) /\ wsWire' = Append(wsWire, o) /\ wsWaiters' = wsWaiters
       \/ /\ o \in SocketWrites /\ ~wsClosed /\ wsActive /\ place = "gateWaiting"
          /\ wsQueued' = Append(wsQueued, o) /\ wsWaiters' = Append(wsWaiters, o)
          /\ UNCHANGED <<wsActive, wsWire>>
  <2>1. ASSUME NEW p \in {"io", "failed", "gateWaiting"}, wsOp' = [ops EXCEPT ![o] = p] PROVE place = p
    BY <1>1, <2>1 DEF OpShape
  <2>2. ~wsClosed => wsSocketOpen
    BY DEF SocketInv, Connection
  <2>3. CASE o \in SocketReads /\ wsOp' = [ops EXCEPT ![o] = "io"] /\ UNCHANGED <<wsActive, wsWaiters, wsQueued, wsWire>>
    BY <2>3
  <2>4. CASE wsOp' = [ops EXCEPT ![o] = "failed"] /\ UNCHANGED <<wsActive, wsWaiters, wsQueued, wsWire>>
    BY <2>1, <2>4
  <2>5. CASE /\ o \in SocketWrites /\ ~wsClosed /\ ~wsActive /\ wsActive' = TRUE /\ wsOp' = [ops EXCEPT ![o] = "io"]
             /\ wsQueued' = Append(wsQueued, o) /\ WebSocket!BeginWrite(o) /\ UNCHANGED wsWaiters
    BY <2>1, <2>2, <2>5 DEF WebSocket!BeginWrite
  <2>6. CASE /\ o \in SocketWrites /\ ~wsClosed /\ wsActive /\ wsOp' = [ops EXCEPT ![o] = "gateWaiting"]
             /\ wsQueued' = Append(wsQueued, o) /\ wsWaiters' = Append(wsWaiters, o) /\ UNCHANGED <<wsActive, wsWire>>
    BY <2>1, <2>6
  <2> QED
    BY <2>3, <2>4, <2>5, <2>6 DEF WebSocket!Proceed
<1> QED
  BY <1>7, <1>8, <1>9, <1>10

\* A call away from the gate moves; those that waited for its handshake may be woken.
LEMMA SocketTurn ==
  ASSUME SocketInv, NEW o \in WebSocket!Calls, wsOp[o] \in Early \/ o \in SocketReads,
         NEW place \in {"spawned", "establishing", "hsWaiting", "done", "failed"}, place = "done" => o \in SocketReads,
         wsOp' \in OpShape, wsOp'[o] = place,
         \A p \in WebSocket!Calls : p # o => (wsOp'[p] = wsOp[p] \/ (p \in wsHsWaiters /\ wsOp'[p] = "hsWoken")),
         UNCHANGED <<wsClosed, wsActive, wsWaiters, wsGranted, wsQueued, wsWire>>
  PROVE  /\ Gate'
         /\ Establishing' \subseteq Establishing \cup {o}
         /\ place # "establishing" => Establishing' \subseteq Establishing \ {o}
         /\ ((\A p \in wsHsWaiters' : wsOp'[p] = "hsWaiting") => Places')
<1>0. /\ wsWaiters \in Seq(SocketWrites) /\ wsQueued \in Seq(SocketWrites) /\ wsGranted \subseteq SocketWrites
      /\ wsHsWaiters \subseteq WebSocket!Calls /\ SocketWrites \subseteq WebSocket!Calls
      /\ SocketWrites \cap SocketReads = {}
  BY TransportAssumption DEF SocketInv, WebSocket!TypeOK, WebSocket!Calls
<1>1. /\ \A a \in 1..Len(wsQueued) : wsQueued[a] # o
      /\ \A i \in 1..Len(wsWaiters) : wsWaiters[i] # o
      /\ ~wsClosed => o \notin wsGranted
      /\ o \notin Writing
  <2>1. CASE wsOp[o] \in Early
    BY <2>1, EarlyIsNowhere
  <2>2. CASE o \in SocketReads
    BY <1>0, <2>2 DEF Writing
  <2> QED
    BY <2>1, <2>2
<1>3. \A p \in WebSocket!Calls : p # o /\ wsOp[p] \notin Early => wsOp'[p] = wsOp[p]
  BY DEF SocketInv, Places, Early
<1>4. Writing' = Writing
  <2>1. o \notin Writing'
    BY DEF Writing
  <2>2. \A p \in SocketWrites : p # o => (wsOp'[p] = "io" <=> wsOp[p] = "io")
    BY <1>0 DEF SocketInv, Places
  <2> QED
    BY <1>1, <2>1, <2>2 DEF Writing
<1>5. Gate'
  <2>1. \A w \in wsGranted : ~wsClosed => wsOp[w] = "gateWoken"
    BY DEF SocketInv, Gate, GateInOrder
  <2>2. \A w \in wsGranted : ~wsClosed => wsOp'[w] = wsOp[w]
    BY <1>0, <1>1, <1>3, <2>1 DEF Early
  <2> QED
    BY <1>4, <2>2, GateKept
<1>6. (\A p \in wsHsWaiters' : wsOp'[p] = "hsWaiting") => Places'
  <2>1. \A a \in 1..Len(wsQueued) : wsOp'[wsQueued[a]] \notin Early
    BY <1>0, <1>1, <1>3 DEF SocketInv, Places
  <2>2. \A i \in 1..Len(wsWaiters) : wsOp'[wsWaiters[i]] = "gateWaiting"
    <3>1. "gateWaiting" \notin Early
      BY DEF Early
    <3> QED
      BY <1>0, <1>1, <1>3, <3>1 DEF SocketInv, Places
  <2> QED
    BY <2>1, <2>2 DEF Places, SocketInv
<1>7. /\ Establishing' \subseteq Establishing \cup {o}
      /\ place # "establishing" => Establishing' \subseteq Establishing \ {o}
  BY DEF Establishing
<1> QED
  BY <1>5, <1>6, <1>7

\* The same of a call that moves alone.
LEMMA SocketAside ==
  ASSUME SocketInv, NEW o \in WebSocket!Calls, wsOp[o] \in Early \/ o \in SocketReads,
         NEW place \in {"spawned", "establishing", "hsWaiting", "done", "failed"}, place = "done" => o \in SocketReads,
         wsOp' = [wsOp EXCEPT ![o] = place],
         UNCHANGED <<wsClosed, wsActive, wsWaiters, wsGranted, wsQueued, wsWire>>
  PROVE  /\ Gate' /\ wsOp' \in OpShape
         /\ Establishing' \subseteq Establishing \cup {o}
         /\ place # "establishing" => Establishing' \subseteq Establishing \ {o}
         /\ ((\A p \in wsHsWaiters' : wsOp'[p] = "hsWaiting") => Places')
         /\ wsOp'[o] = place /\ \A p \in WebSocket!Calls : p # o => wsOp'[p] = wsOp[p]
<1>1. wsOp \in OpShape
  BY DEF SocketInv, WebSocket!TypeOK, OpShape
<1>2. wsOp' \in OpShape /\ wsOp'[o] = place /\ \A p \in WebSocket!Calls : p # o => wsOp'[p] = wsOp[p]
  BY <1>1, SocketMoves
<1> QED
  BY <1>2, SocketTurn

\* The end of a write, or of one that came too late, hands the gate on or frees it.
LEMMA GateReleased ==
  ASSUME SocketInv, NEW w \in SocketWrites, wsOp[w] \in {"io", "gateWoken"}, ~wsClosed => wsOp[w] = "io",
         NEW result \in {"done", "failed"}, WebSocket!Release([wsOp EXCEPT ![w] = result]),
         UNCHANGED <<wsClosed, wsClosePosted, wsSocketOpen, wsState, wsHsWaiters, wsReadActive, wsQueued, wsWire>>
  PROVE  SocketInv'
<1>0. /\ wsWaiters \in Seq(SocketWrites) /\ wsQueued \in Seq(SocketWrites) /\ wsGranted \subseteq SocketWrites
      /\ wsHsWaiters \subseteq WebSocket!Calls /\ SocketWrites \subseteq WebSocket!Calls /\ w \in WebSocket!Calls
      /\ wsOp \in OpShape
  BY DEF SocketInv, WebSocket!TypeOK, WebSocket!Calls, OpShape
<1> DEFINE ops == [wsOp EXCEPT ![w] = result]
<1>1. ops \in OpShape /\ ops[w] = result /\ \A p \in WebSocket!Calls : p # w => ops[p] = wsOp[p]
  BY <1>0 DEF OpShape
<1>2. w \notin wsHsWaiters /\ \A i \in 1..Len(wsWaiters) : wsWaiters[i] # w
  BY <1>0 DEF SocketInv, Places
<1>w. "done" \notin Early /\ "failed" \notin Early /\ "gateWoken" \notin Early /\ "gateWaiting" \notin Early
  BY DEF Early
<1>3. /\ \A p \in wsHsWaiters : ops[p] = "hsWaiting"
      /\ \A i \in 1..Len(wsWaiters) : ops[wsWaiters[i]] = "gateWaiting"
      /\ \A a \in 1..Len(wsQueued) : ops[wsQueued[a]] \notin Early
  BY <1>0, <1>1, <1>2, <1>w DEF SocketInv, Places
<1> HIDE DEF ops
<1>4. CASE wsClosed \/ wsWaiters = <<>>
  <2>1. wsActive' = FALSE /\ wsOp' = ops /\ UNCHANGED <<wsWaiters, wsGranted>>
    BY <1>4 DEF WebSocket!Release, WebSocket!ActiveWhenIdle, ops
  <2>2. Writing' = Writing \ {w} /\ Establishing' = Establishing
    <3>1. w \notin Establishing
      BY DEF Establishing
    <3> QED
      BY <1>0, <1>1, <2>1, <3>1 DEF Writing, Establishing
  <2>3. Places'
    BY <1>3, <2>1 DEF Places, SocketInv
  <2>4. WebSocket!TypeOK' /\ Connection'
    BY <1>1, <2>1, <2>2 DEF SocketInv, WebSocket!TypeOK, OpShape, Connection, AtMostOne, WebSocket!ClosedStaysClosed
  <2>5. Gate'
    <3>1. CASE wsClosed
      BY <2>1, <2>2, <3>1 DEF Gate, SocketInv, AtMostOne, WrittenInOrder
    <3>2. CASE ~wsClosed
      <4>1. wsWaiters = <<>> /\ GateInOrder /\ WireInOrder /\ w \in Writing /\ WrittenInOrder
        BY <1>4, <3>2 DEF SocketInv, Gate, Writing
      <4>2. Writing' = {} /\ wsGranted = {}
        <5>1. w \notin wsGranted
          BY <3>2, <4>1 DEF GateInOrder, Writing
        <5> QED
          BY <2>2, <4>1, <5>1 DEF GateInOrder, AtMostOne
      <4>3. Passed' = Passed /\ Reached' = Reached
        BY <2>1 DEF Passed, Reached
      <4>4. GateInOrder'
        BY <2>1, <4>1, <4>2, <4>3 DEF GateInOrder, AtMostOne
      <4>5. WireInOrder' /\ WrittenInOrder'
        BY <4>1, <4>3 DEF WireInOrder, WrittenInOrder
      <4> QED
        BY <4>2, <4>4, <4>5 DEF Gate, AtMostOne
    <3> QED
      BY <3>1, <3>2
  <2> QED
    BY <2>3, <2>4, <2>5 DEF SocketInv
<1>5. CASE ~wsClosed /\ wsWaiters # <<>>
  <2> DEFINE next == Head(wsWaiters)
  <2>1. /\ wsActive' = TRUE /\ wsWaiters' = Tail(wsWaiters) /\ wsGranted' = wsGranted \cup {next}
        /\ wsOp' = [ops EXCEPT ![next] = "gateWoken"]
    BY <1>5 DEF WebSocket!Release, WebSocket!HeldOnHandover, ops
  <2>2. /\ next \in SocketWrites /\ next = wsWaiters[1] /\ Tail(wsWaiters) \in Seq(SocketWrites)
        /\ Len(wsWaiters) > 0 /\ Len(Tail(wsWaiters)) = Len(wsWaiters) - 1
        /\ \A i \in 1..Len(wsWaiters) - 1 : Tail(wsWaiters)[i] = wsWaiters[i + 1]
    BY <1>0, <1>5, TailSeq
  <2> HIDE DEF next
  <2>3. wsOp' \in OpShape /\ wsOp'[next] = "gateWoken" /\ \A p \in WebSocket!Calls : p # next => wsOp'[p] = ops[p]
    <3>1. "gateWoken" \in {"idle", "spawned", "establishing", "hsWaiting", "hsWoken", "gateWaiting", "gateWoken",
                           "io", "done", "failed"}
      OBVIOUS
    <3>2. next \in WebSocket!Calls
      BY <1>0, <2>2
    <3> QED
      BY <1>1, <2>1, <3>1, <3>2, SocketMoves, Zenon
  <2>4. next # w /\ wsOp[next] = "gateWaiting" /\ ops[next] = "gateWaiting"
    BY <1>0, <1>2, <1>3, <2>2 DEF SocketInv, Places
  <2>5. /\ GateInOrder /\ WireInOrder /\ WrittenInOrder /\ w \in Writing /\ AtMostOne(Writing \cup wsGranted)
        /\ Passed \in Nat
    BY <1>5 DEF SocketInv, Gate, Writing, GateInOrder
  <2>6. wsGranted = {} /\ Writing = {w}
    <3>1. w \notin wsGranted
      BY <2>5 DEF GateInOrder, Writing
    <3> QED
      BY <2>5, <3>1 DEF AtMostOne
  <2>7. Writing' = {} /\ Establishing' = Establishing
    <3>1. w \notin Establishing /\ next \notin Establishing
      BY <2>4 DEF Establishing
    <3>2. \A p \in SocketWrites : wsOp'[p] # "io"
      BY <1>0, <1>1, <2>3, <2>6 DEF Writing
    <3> QED
      BY <1>0, <1>1, <2>3, <2>4, <3>1, <3>2 DEF Writing, Establishing
  <2>8. /\ Passed' = Passed + 1 /\ Reached' = Reached
        /\ Len(wsQueued) \in Nat /\ Len(wsWaiters) \in Nat /\ Len(wsQueued) = Passed + Len(wsWaiters)
    <3>1. Len(wsQueued) \in Nat /\ Len(wsWaiters) \in Nat
      BY <1>0
    <3>2. Passed' = Passed + 1 /\ Len(wsQueued) = Passed + Len(wsWaiters)
      BY <2>1, <2>2, <3>1 DEF Passed
    <3>3. Reached = Passed /\ Reached' = Passed' - 1
      BY <2>1, <2>6 DEF Reached
    <3> QED
      BY <2>5, <3>1, <3>2, <3>3
  <2>9. GateInOrder'
    <3>1. next = wsQueued[Passed + 1]
      BY <2>2, <2>5, <2>8 DEF GateInOrder
    <3>2. \A i \in 1..Len(wsWaiters') : wsWaiters'[i] = wsQueued[Passed + 1 + i]
      <4> SUFFICES ASSUME NEW i \in 1..Len(wsWaiters) - 1 PROVE wsWaiters'[i] = wsQueued[Passed + 1 + i]
        BY <2>1, <2>2
      <4>1. wsWaiters'[i] = wsWaiters[i + 1] /\ i + 1 \in 1..Len(wsWaiters) /\ Passed + (i + 1) = Passed + 1 + i
        BY <2>1, <2>2, <2>5
      <4> QED
        BY <2>5, <4>1 DEF GateInOrder
    <3> QED
      BY <2>1, <2>3, <2>5, <2>6, <2>7, <2>8, <3>1, <3>2 DEF GateInOrder, AtMostOne
  <2>10. Gate'
    <3>1. WireInOrder'
      BY <2>5, <2>8 DEF WireInOrder
    <3>2. WrittenInOrder'
      BY <2>5 DEF WrittenInOrder
    <3> QED
      BY <2>7, <2>9, <3>1, <3>2 DEF Gate, AtMostOne
  <2>11. Places'
    <3>1. next \notin wsHsWaiters
      BY <2>4 DEF SocketInv, Places
    <3>2. \A i \in 1..Len(wsWaiters') : wsWaiters'[i] # next
      <4>1. \A i \in 1..Len(wsWaiters) : wsQueued[Passed + i] = wsWaiters[i] /\ Passed + i \in 1..Len(wsQueued)
        BY <2>5, <2>8 DEF GateInOrder
      <4>2. \A i \in 1..Len(wsWaiters) : i # 1 => wsWaiters[i] # wsWaiters[1]
        BY <2>2, <2>5, <2>8, <4>1 DEF SocketInv, Places
      <4> QED
        BY <2>1, <2>2, <4>2
    <3>3. \A i \in 1..Len(wsWaiters') : wsOp'[wsWaiters'[i]] = "gateWaiting"
      <4>1. \A i \in 1..Len(wsWaiters') : ops[wsWaiters'[i]] = "gateWaiting" /\ wsWaiters'[i] \in WebSocket!Calls
        BY <1>0, <1>3, <2>1, <2>2
      <4> QED
        BY <2>3, <3>2, <4>1
    <3>4. \A a \in 1..Len(wsQueued) : wsOp'[wsQueued[a]] \notin Early
      BY <1>0, <1>3, <1>w, <2>3
    <3>5. \A p \in wsHsWaiters : wsOp'[p] = "hsWaiting"
      BY <1>0, <1>3, <2>3, <3>1
    <3> QED
      BY <3>3, <3>4, <3>5 DEF Places, SocketInv
  <2>12. WebSocket!TypeOK' /\ Connection'
    BY <1>0, <1>5, <2>1, <2>2, <2>3, <2>7
    DEF SocketInv, WebSocket!TypeOK, OpShape, Connection, AtMostOne, WebSocket!ClosedStaysClosed
  <2> QED
    BY <2>10, <2>11, <2>12 DEF SocketInv
<1> QED
  BY <1>4, <1>5

\* A handshake under way is the one of the state, or its socket is closed.
LEMMA Handshaking ==
  ASSUME SocketInv, NEW o \in WebSocket!Calls, wsOp[o] = "establishing"
  PROVE  Establishing = {o} /\ (wsState = "establishing" \/ ~wsSocketOpen)
  BY DEF SocketInv, Connection, AtMostOne, Establishing

\* Every step of the WebSocket transports keeps their invariant.
LEMMA SocketStep ==
  ASSUME SocketInv, WebSocket!Next \/ UNCHANGED wsVars
  PROVE  SocketInv'
<1>0. /\ wsOp \in OpShape /\ SocketWrites \subseteq WebSocket!Calls /\ SocketReads \subseteq WebSocket!Calls
      /\ wsHsWaiters \subseteq WebSocket!Calls /\ wsGranted \subseteq SocketWrites
      /\ wsWaiters \in Seq(SocketWrites) /\ wsQueued \in Seq(SocketWrites) /\ wsWire \in Seq(SocketWrites)
  BY DEF SocketInv, WebSocket!TypeOK, OpShape, WebSocket!Calls
<1>a. SocketWrites \cap SocketReads = {}
  BY TransportAssumption
<1>b. \A o \in wsHsWaiters : wsOp[o] = "hsWaiting"
  BY DEF SocketInv, Places
<1>c. {"idle", "spawned", "establishing", "hsWaiting", "hsWoken"} = Early
  BY DEF Early
<1>1. ASSUME NEW o \in WebSocket!Calls, WebSocket!Call(o) PROVE SocketInv'
  <2>1. /\ wsOp[o] = "idle" /\ wsOp' = [wsOp EXCEPT ![o] = "spawned"]
        /\ UNCHANGED <<wsClosed, wsClosePosted, wsSocketOpen, wsState, wsHsWaiters, wsActive, wsWaiters, wsGranted,
                       wsReadActive, wsQueued, wsWire>>
    BY <1>1 DEF WebSocket!Call
  <2>2. /\ Gate' /\ wsOp' \in OpShape /\ Establishing' \subseteq Establishing \ {o}
        /\ ((\A p \in wsHsWaiters' : wsOp'[p] = "hsWaiting") => Places')
        /\ \A p \in WebSocket!Calls : p # o => wsOp'[p] = wsOp[p]
    BY <1>0, <1>c, <2>1, SocketAside
  <2>3. Places'
    BY <1>0, <1>b, <2>1, <2>2
  <2> QED
    BY <2>1, <2>2, <2>3 DEF SocketInv, WebSocket!TypeOK, OpShape, Connection, AtMostOne, WebSocket!ClosedStaysClosed
<1>2. ASSUME NEW o \in WebSocket!Calls, WebSocket!Start(o) PROVE SocketInv'
  <2>1. wsOp[o] = "spawned" /\ UNCHANGED <<wsClosed, wsClosePosted, wsSocketOpen, wsGranted>>
    BY <1>2 DEF WebSocket!Start
  <2>2. wsOp[o] \in Early /\ o \notin wsHsWaiters /\ o \notin Establishing /\ wsReadActive \in BOOLEAN
    BY <1>b, <1>c, <2>1 DEF Establishing, SocketInv, WebSocket!TypeOK
  <2>3. CASE wsOp' = [wsOp EXCEPT ![o] = "failed"] /\ UNCHANGED <<wsState, wsHsWaiters, wsReadActive>>
             /\ WebSocket!gateUnchanged
    <3>1. /\ Gate' /\ wsOp' \in OpShape /\ Establishing' \subseteq Establishing \ {o}
          /\ ((\A p \in wsHsWaiters' : wsOp'[p] = "hsWaiting") => Places')
          /\ \A p \in WebSocket!Calls : p # o => wsOp'[p] = wsOp[p]
      BY <1>0, <2>1, <2>2, <2>3, SocketAside DEF WebSocket!gateUnchanged
    <3>2. Places'
      BY <1>0, <1>b, <2>2, <2>3, <3>1
    <3> QED
      BY <2>1, <2>3, <3>1, <3>2
      DEF SocketInv, WebSocket!TypeOK, OpShape, Connection, AtMostOne, WebSocket!ClosedStaysClosed,
          WebSocket!gateUnchanged
  <2>4. CASE WebSocket!Proceed(o, wsOp) /\ UNCHANGED <<wsState, wsHsWaiters>>
             /\ wsReadActive' = (wsReadActive \/ o \in SocketReads)
    <3>1. /\ Places' /\ Gate' /\ Establishing' \subseteq Establishing \ {o}
          /\ wsOp' \in OpShape /\ wsActive' \in BOOLEAN
          /\ wsWaiters' \in Seq(SocketWrites) /\ wsQueued' \in Seq(SocketWrites) /\ wsWire' \in Seq(SocketWrites)
          /\ wsClosed => wsWaiters' = wsWaiters
      BY <1>0, <2>1, <2>2, <2>4, SocketProceeds
    <3> QED
      BY <2>1, <2>2, <2>4, <3>1
      DEF SocketInv, WebSocket!TypeOK, OpShape, Connection, AtMostOne, WebSocket!ClosedStaysClosed
  <2>5. CASE /\ ~wsClosed /\ wsState = "pending" /\ wsState' = "establishing"
             /\ wsOp' = [wsOp EXCEPT ![o] = "establishing"]
             /\ UNCHANGED wsHsWaiters /\ WebSocket!gateUnchanged /\ wsReadActive' = (wsReadActive \/ o \in SocketReads)
    <3>1. /\ Gate' /\ wsOp' \in OpShape /\ Establishing' \subseteq Establishing \cup {o}
          /\ ((\A p \in wsHsWaiters' : wsOp'[p] = "hsWaiting") => Places')
          /\ \A p \in WebSocket!Calls : p # o => wsOp'[p] = wsOp[p]
      BY <1>0, <2>1, <2>2, <2>5, SocketAside DEF WebSocket!gateUnchanged
    <3>2. Places'
      BY <1>0, <1>b, <2>2, <2>5, <3>1
    <3>3. Establishing = {} /\ wsSocketOpen
      BY <2>5 DEF SocketInv, Connection
    <3> QED
      BY <2>1, <2>2, <2>5, <3>1, <3>2, <3>3
      DEF SocketInv, WebSocket!TypeOK, OpShape, Connection, AtMostOne, WebSocket!ClosedStaysClosed,
          WebSocket!gateUnchanged
  <2>6. CASE /\ wsOp' = [wsOp EXCEPT ![o] = "hsWaiting"] /\ wsHsWaiters' = wsHsWaiters \cup {o}
             /\ UNCHANGED wsState /\ WebSocket!gateUnchanged /\ wsReadActive' = (wsReadActive \/ o \in SocketReads)
    <3>1. /\ Gate' /\ wsOp' \in OpShape /\ Establishing' \subseteq Establishing \ {o}
          /\ ((\A p \in wsHsWaiters' : wsOp'[p] = "hsWaiting") => Places')
          /\ wsOp'[o] = "hsWaiting" /\ \A p \in WebSocket!Calls : p # o => wsOp'[p] = wsOp[p]
      BY <1>0, <2>1, <2>2, <2>6, SocketAside DEF WebSocket!gateUnchanged
    <3>2. Places'
      BY <1>0, <1>b, <2>2, <2>6, <3>1
    <3> QED
      BY <2>1, <2>2, <2>6, <3>1, <3>2
      DEF SocketInv, WebSocket!TypeOK, OpShape, Connection, AtMostOne, WebSocket!ClosedStaysClosed,
          WebSocket!gateUnchanged
  <2> QED
    BY <1>2, <2>3, <2>4, <2>5, <2>6, Zenon DEF WebSocket!Start, WebSocket!Establishes
<1>3. ASSUME NEW o \in WebSocket!Calls, WebSocket!Established(o) PROVE SocketInv'
  <2> DEFINE ops == WebSocket!HsWoken(wsOp)
  <2>1. /\ wsOp[o] = "establishing" /\ wsHsWaiters' = {}
        /\ UNCHANGED <<wsClosed, wsClosePosted, wsSocketOpen, wsGranted>>
    BY <1>3 DEF WebSocket!Established
  <2>2. wsOp[o] \in Early /\ o \notin wsHsWaiters /\ Establishing = {o} /\ wsReadActive \in BOOLEAN
    BY <1>b, <1>c, <2>1, Handshaking DEF SocketInv, WebSocket!TypeOK
  <2>3. /\ ops \in OpShape
        /\ \A p \in WebSocket!Calls : p # o => (ops[p] = wsOp[p] \/ (p \in wsHsWaiters /\ ops[p] = "hsWoken"))
    BY <1>0 DEF WebSocket!HsWoken, OpShape
  <2>4. CASE ~wsClosed /\ wsState' = "open" /\ WebSocket!Proceed(o, ops) /\ UNCHANGED wsReadActive
    <3> HIDE DEF ops
    <3>1. /\ Places' /\ Gate' /\ Establishing' \subseteq Establishing \ {o}
          /\ wsOp' \in OpShape /\ wsActive' \in BOOLEAN
          /\ wsWaiters' \in Seq(SocketWrites) /\ wsQueued' \in Seq(SocketWrites) /\ wsWire' \in Seq(SocketWrites)
          /\ wsClosed => wsWaiters' = wsWaiters
      BY <2>1, <2>2, <2>3, <2>4, SocketProceeds
    <3> QED
      BY <2>1, <2>2, <2>4, <3>1
      DEF SocketInv, WebSocket!TypeOK, OpShape, Connection, AtMostOne, WebSocket!ClosedStaysClosed
  <2>5. CASE /\ wsState' = "failed" /\ wsOp' = [ops EXCEPT ![o] = "failed"]
             /\ wsReadActive' = (wsReadActive /\ o \notin SocketReads) /\ WebSocket!gateUnchanged
    <3> HIDE DEF ops
    <3>0. /\ "failed" \in {"spawned", "establishing", "hsWaiting", "done", "failed"} /\ "failed" # "done"
          /\ "failed" # "establishing"
          /\ UNCHANGED <<wsClosed, wsActive, wsWaiters, wsGranted, wsQueued, wsWire>>
      BY <2>1, <2>5 DEF WebSocket!gateUnchanged
    <3>1. /\ Gate' /\ wsOp' \in OpShape /\ Establishing' \subseteq Establishing \ {o}
          /\ ((\A p \in wsHsWaiters' : wsOp'[p] = "hsWaiting") => Places')
      <4>1. wsOp' \in OpShape /\ wsOp'[o] = "failed" /\ \A p \in WebSocket!Calls : p # o => wsOp'[p] = ops[p]
        BY <2>3, <2>5, SocketMoves
      <4> QED
        BY <2>2, <2>3, <3>0, <4>1, SocketTurn
    <3> QED
      BY <2>1, <2>2, <2>5, <3>1
      DEF SocketInv, WebSocket!TypeOK, OpShape, Connection, AtMostOne, WebSocket!ClosedStaysClosed,
          WebSocket!gateUnchanged
  <2> QED
    BY <1>3, <2>4, <2>5 DEF WebSocket!Established, WebSocket!MayOpen
<1>4. ASSUME NEW o \in WebSocket!Calls, WebSocket!HsResume(o) PROVE SocketInv'
  <2>1. wsOp[o] = "hsWoken" /\ UNCHANGED <<wsClosed, wsClosePosted, wsSocketOpen, wsState, wsHsWaiters, wsGranted>>
    BY <1>4 DEF WebSocket!HsResume
  <2>2. wsOp[o] \in Early /\ o \notin wsHsWaiters /\ wsReadActive \in BOOLEAN
    BY <1>b, <1>c, <2>1 DEF SocketInv, WebSocket!TypeOK
  <2>3. CASE WebSocket!Proceed(o, wsOp) /\ UNCHANGED wsReadActive
    <3>1. /\ Places' /\ Gate' /\ Establishing' \subseteq Establishing \ {o}
          /\ wsOp' \in OpShape /\ wsActive' \in BOOLEAN
          /\ wsWaiters' \in Seq(SocketWrites) /\ wsQueued' \in Seq(SocketWrites) /\ wsWire' \in Seq(SocketWrites)
          /\ wsClosed => wsWaiters' = wsWaiters
      BY <1>0, <2>1, <2>2, <2>3, SocketProceeds
    <3> QED
      BY <2>1, <2>2, <2>3, <3>1
      DEF SocketInv, WebSocket!TypeOK, OpShape, Connection, AtMostOne, WebSocket!ClosedStaysClosed
  <2>4. CASE WebSocket!Fails(o) /\ WebSocket!gateUnchanged
    <3>1. /\ Gate' /\ wsOp' \in OpShape /\ Establishing' \subseteq Establishing \ {o}
          /\ ((\A p \in wsHsWaiters' : wsOp'[p] = "hsWaiting") => Places')
          /\ \A p \in WebSocket!Calls : p # o => wsOp'[p] = wsOp[p]
      BY <1>0, <2>1, <2>2, <2>4, SocketAside DEF WebSocket!gateUnchanged, WebSocket!Fails
    <3>2. Places'
      BY <1>0, <1>b, <2>1, <2>2, <3>1
    <3> QED
      BY <2>1, <2>2, <2>4, <3>1, <3>2
      DEF SocketInv, WebSocket!TypeOK, OpShape, Connection, AtMostOne, WebSocket!ClosedStaysClosed,
          WebSocket!gateUnchanged, WebSocket!Fails
  <2> QED
    BY <1>4, <2>3, <2>4 DEF WebSocket!HsResume
<1>5. ASSUME NEW w \in SocketWrites, WebSocket!GateResume(w) PROVE SocketInv'
  <2>1. wsOp[w] = "gateWoken"
        /\ UNCHANGED <<wsClosed, wsClosePosted, wsSocketOpen, wsState, wsHsWaiters, wsReadActive, wsQueued>>
    BY <1>5 DEF WebSocket!GateResume
  <2>2. w \in WebSocket!Calls /\ w \notin wsHsWaiters /\ w \notin Writing /\ w \notin Establishing
    BY <1>0, <1>b, <2>1 DEF Writing, Establishing
  <2>3. \A i \in 1..Len(wsWaiters) : wsWaiters[i] # w
    BY <2>1 DEF SocketInv, Places
  <2>4. ASSUME NEW place \in {"io", "failed"}, wsOp' = [wsOp EXCEPT ![w] = place], wsWaiters' = wsWaiters
        PROVE  /\ wsOp' \in OpShape /\ wsOp'[w] = place /\ \A p \in WebSocket!Calls : p # w => wsOp'[p] = wsOp[p]
               /\ Places' /\ Establishing' = Establishing
    <3>1. wsOp' \in OpShape /\ wsOp'[w] = place /\ \A p \in WebSocket!Calls : p # w => wsOp'[p] = wsOp[p]
      BY <1>0, <2>2, <2>4, SocketMoves
    <3>2. \A a \in 1..Len(wsQueued) : wsOp'[wsQueued[a]] \notin Early
      BY <1>0, <1>c, <3>1 DEF SocketInv, Places
    <3>3. \A i \in 1..Len(wsWaiters) : wsOp'[wsWaiters[i]] = "gateWaiting"
      BY <1>0, <2>3, <3>1 DEF SocketInv, Places
    <3>4. \A p \in wsHsWaiters : wsOp'[p] = "hsWaiting"
      BY <1>0, <1>b, <2>2, <3>1
    <3>5. Places'
      BY <2>1, <2>4, <3>2, <3>3, <3>4 DEF SocketInv, Places
    <3>6. Establishing' = Establishing
      BY <2>2, <3>1 DEF Establishing
    <3> QED
      BY <3>1, <3>5, <3>6
  <2>5. CASE /\ w \in wsGranted /\ ~wsClosed /\ wsOp' = [wsOp EXCEPT ![w] = "io"] /\ wsGranted' = wsGranted \ {w}
             /\ WebSocket!BeginWrite(w) /\ UNCHANGED <<wsActive, wsWaiters>>
    <3>1. /\ wsOp' \in OpShape /\ wsOp'[w] = "io" /\ \A p \in WebSocket!Calls : p # w => wsOp'[p] = wsOp[p]
          /\ Places' /\ Establishing' = Establishing
      BY <2>4, <2>5
    <3>2. wsWire' = Append(wsWire, w)
      BY <2>5 DEF WebSocket!BeginWrite, SocketInv, Connection
    <3>3. /\ wsWire' \in Seq(SocketWrites) /\ Len(wsWire') = Len(wsWire) + 1 /\ wsWire'[Len(wsWire) + 1] = w
          /\ \A i \in 1..Len(wsWire) : wsWire'[i] = wsWire[i]
      BY <1>0, <3>2, AppendSeq
    <3>4. GateInOrder /\ WireInOrder /\ WrittenInOrder
      BY <2>5 DEF SocketInv, Gate
    <3>5. wsGranted = {w} /\ Writing = {} /\ wsActive
      BY <2>2, <2>5, <3>4 DEF GateInOrder, AtMostOne
    <3>6. Writing' = {w} /\ wsGranted' = {}
      BY <1>0, <2>5, <3>1, <3>5 DEF Writing
    <3>7. /\ Passed' = Passed /\ Reached = Passed - 1 /\ Reached' = Passed /\ Passed \in Nat /\ Passed > 0
          /\ w = wsQueued[Passed] /\ Passed <= Len(wsQueued) /\ Len(wsQueued) \in Nat /\ Len(wsWire) \in Nat
      BY <1>0, <2>1, <2>5, <3>4, <3>5, <3>6 DEF GateInOrder, Passed, Reached
    <3>8. GateInOrder'
      BY <2>1, <2>5, <3>4, <3>5, <3>6, <3>7 DEF GateInOrder, AtMostOne
    <3>9. \A i \in 1..Len(wsWire) : \E a \in 1..Passed - 1 : wsWire[i] = wsQueued[a]
      BY <3>4, <3>7 DEF WireInOrder
    <3>10. WireInOrder'
      <4> SUFFICES ASSUME NEW i \in 1..Len(wsWire) + 1 PROVE \E a \in 1..Passed : wsWire'[i] = wsQueued[a]
        BY <2>1, <3>3, <3>7 DEF WireInOrder
      <4>1. CASE i \in 1..Len(wsWire)
        <5>1. PICK a \in 1..Passed - 1 : wsWire[i] = wsQueued[a]
          BY <3>9, <4>1
        <5>2. a \in 1..Passed /\ wsWire'[i] = wsQueued[a]
          BY <3>3, <3>7, <4>1, <5>1
        <5> QED
          BY <5>2
      <4>2. CASE i = Len(wsWire) + 1
        <5>1. Passed \in 1..Passed /\ wsWire'[i] = wsQueued[Passed]
          BY <3>3, <3>7, <4>2
        <5> QED
          BY <5>1
      <4> QED
        BY <3>7, <4>1, <4>2
    <3>11. WrittenInOrder'
      <4> SUFFICES ASSUME NEW i \in 1..Len(wsWire) + 1, NEW j \in 1..Len(wsWire) + 1, i < j,
                          NEW a \in 1..Len(wsQueued), NEW b \in 1..Len(wsQueued),
                          wsWire'[i] = wsQueued[a], wsWire'[j] = wsQueued[b]
                   PROVE  a < b
        BY <2>1, <3>3 DEF WrittenInOrder
      <4>0. i \in 1..Len(wsWire)
        BY <3>7
      <4>1. i \in 1..Len(wsWire) /\ wsWire[i] = wsQueued[a]
        BY <3>3, <4>0, Zenon
      <4>2. CASE j \in 1..Len(wsWire)
        BY <3>3, <3>4, <4>1, <4>2 DEF WrittenInOrder
      <4>3. CASE j = Len(wsWire) + 1
        <5>1. PICK c \in 1..Passed - 1 : wsWire[i] = wsQueued[c]
          BY <3>9, <4>1
        <5>2. c = a
          <6>1. c \in 1..Len(wsQueued) /\ wsQueued[c] = wsQueued[a]
            BY <3>7, <4>1, <5>1
          <6> QED
            BY <6>1 DEF SocketInv, Places
        <5>3. wsQueued[Passed] = wsQueued[b] /\ Passed \in 1..Len(wsQueued)
          BY <3>3, <3>7, <4>3
        <5>4. b = Passed
          BY <5>3 DEF SocketInv, Places
        <5> QED
          BY <3>7, <5>2, <5>4
      <4> QED
        BY <3>7, <4>2, <4>3
    <3>12. Gate'
      BY <3>6, <3>8, <3>10, <3>11 DEF Gate, AtMostOne
    <3> QED
      BY <2>1, <2>5, <3>1, <3>3, <3>12
      DEF SocketInv, WebSocket!TypeOK, OpShape, Connection, AtMostOne, WebSocket!ClosedStaysClosed
  <2>6. CASE wsClosed /\ WebSocket!Release([wsOp EXCEPT ![w] = "failed"]) /\ UNCHANGED wsWire
    <3>1. "failed" \in {"done", "failed"} /\ wsOp[w] \in {"io", "gateWoken"}
      BY <2>1
    <3> QED
      BY <2>1, <2>6, <3>1, GateReleased
  <2>7. CASE w \notin wsGranted /\ wsOp' = [wsOp EXCEPT ![w] = "failed"] /\ UNCHANGED <<wsActive, wsWaiters, wsGranted, wsWire>>
    <3>1. /\ wsOp' \in OpShape /\ wsOp'[w] = "failed" /\ \A p \in WebSocket!Calls : p # w => wsOp'[p] = wsOp[p]
          /\ Places' /\ Establishing' = Establishing
      BY <2>4, <2>7
    <3>2. Writing' = Writing /\ \A p \in wsGranted : wsOp'[p] = wsOp[p]
      BY <1>0, <2>2, <2>7, <3>1 DEF Writing
    <3>3. Gate'
      BY <2>1, <2>7, <3>2, GateKept
    <3> QED
      BY <2>1, <2>7, <3>1, <3>3
      DEF SocketInv, WebSocket!TypeOK, OpShape, Connection, AtMostOne, WebSocket!ClosedStaysClosed
  <2> QED
    BY <1>5, <2>5, <2>6, <2>7 DEF WebSocket!GateResume
<1>6. ASSUME NEW w \in SocketWrites, WebSocket!WriteEnds(w) PROVE SocketInv'
  <2>1. PICK result \in {"done", "failed"} : WebSocket!Release([wsOp EXCEPT ![w] = result])
    BY <1>6 DEF WebSocket!WriteEnds
  <2>2. wsOp[w] = "io"
        /\ UNCHANGED <<wsClosed, wsClosePosted, wsSocketOpen, wsState, wsHsWaiters, wsReadActive, wsQueued, wsWire>>
    BY <1>6 DEF WebSocket!WriteEnds
  <2> QED
    BY <2>1, <2>2, GateReleased
<1>7. ASSUME NEW r \in SocketReads, WebSocket!ReadEnds(r) PROVE SocketInv'
  <2>1. PICK result \in {"done", "failed"} : wsOp' = [wsOp EXCEPT ![r] = result]
    BY <1>7 DEF WebSocket!ReadEnds
  <2>2. /\ wsOp[r] = "io" /\ wsReadActive' = FALSE
        /\ UNCHANGED <<wsClosed, wsClosePosted, wsSocketOpen, wsState, wsHsWaiters, wsActive, wsWaiters, wsGranted,
                       wsQueued, wsWire>>
    BY <1>7 DEF WebSocket!ReadEnds
  <2>3. /\ Gate' /\ wsOp' \in OpShape /\ Establishing' \subseteq Establishing \ {r}
        /\ ((\A p \in wsHsWaiters' : wsOp'[p] = "hsWaiting") => Places')
        /\ \A p \in WebSocket!Calls : p # r => wsOp'[p] = wsOp[p]
    BY <1>0, <2>1, <2>2, SocketAside
  <2>4. Places'
    BY <1>0, <1>b, <2>2, <2>3
  <2> QED
    BY <2>2, <2>3, <2>4 DEF SocketInv, WebSocket!TypeOK, OpShape, Connection, AtMostOne, WebSocket!ClosedStaysClosed
<1>8. CASE WebSocket!Close
  <2>1. /\ wsClosed' = TRUE /\ wsClosePosted' = TRUE
        /\ UNCHANGED <<wsSocketOpen, wsState, wsOp, wsHsWaiters, wsActive, wsWaiters, wsGranted, wsReadActive,
                       wsQueued, wsWire>>
    BY <1>8 DEF WebSocket!Close
  <2>2. Writing' = Writing /\ Establishing' = Establishing
    BY <2>1 DEF Writing, Establishing
  <2>3. Gate'
    BY <2>1, <2>2, GateKept
  <2>4. Places'
    BY <2>1 DEF SocketInv, Places
  <2> QED
    BY <2>1, <2>2, <2>3, <2>4 DEF SocketInv, WebSocket!TypeOK, Connection, AtMostOne, WebSocket!ClosedStaysClosed
<1>9. CASE WebSocket!RunClose
  <2>1. /\ wsClosed /\ wsClosePosted' = FALSE /\ wsState' = "failed" /\ wsHsWaiters' = {} /\ wsWaiters' = <<>>
        /\ wsSocketOpen' = FALSE /\ UNCHANGED <<wsClosed, wsActive, wsGranted, wsReadActive, wsQueued, wsWire>>
    BY <1>9 DEF WebSocket!RunClose, SocketInv, Connection
  <2>2. /\ wsOp' \in OpShape
        /\ \A o \in WebSocket!Calls : IF o \in wsHsWaiters THEN wsOp'[o] = "hsWoken"
                                      ELSE wsOp'[o] \in {wsOp[o], "gateWoken"}
    BY <1>0, <1>9 DEF WebSocket!RunClose, WebSocket!GateCancelled, OpShape
  <2>3. Writing' \subseteq Writing /\ Establishing' \subseteq Establishing
    BY <1>0, <2>2 DEF Writing, Establishing
  <2>4. Places'
    <3>1. \A a \in 1..Len(wsQueued) : wsQueued[a] \in WebSocket!Calls /\ wsQueued[a] \notin wsHsWaiters
      BY <1>0, <1>b, <1>c DEF SocketInv, Places
    <3>2. \A a \in 1..Len(wsQueued) : wsOp'[wsQueued[a]] \notin Early
      BY <1>c, <2>2, <3>1 DEF SocketInv, Places
    <3> QED
      BY <2>1, <3>2 DEF SocketInv, Places
  <2>5. Gate'
    BY <2>1, <2>3 DEF SocketInv, Gate, AtMostOne, WrittenInOrder
  <2>6. <<>> \in Seq(SocketWrites)
    OBVIOUS
  <2> QED
    BY <2>1, <2>2, <2>3, <2>4, <2>5, <2>6
    DEF SocketInv, WebSocket!TypeOK, OpShape, Connection, AtMostOne, WebSocket!ClosedStaysClosed
<1>10. CASE UNCHANGED wsVars
  <2>1. UNCHANGED <<wsClosed, wsClosePosted, wsSocketOpen, wsState, wsOp, wsHsWaiters, wsActive, wsWaiters, wsGranted,
                    wsReadActive, wsQueued, wsWire>>
    BY <1>10 DEF wsVars
  <2>2. Writing' = Writing /\ Establishing' = Establishing
    BY <2>1 DEF Writing, Establishing
  <2>3. Gate'
    BY <2>1, <2>2, GateKept
  <2>4. Places'
    BY <2>1 DEF SocketInv, Places
  <2> QED
    BY <2>1, <2>2, <2>3, <2>4 DEF SocketInv, WebSocket!TypeOK, Connection, AtMostOne, WebSocket!ClosedStaysClosed
<1> QED
  BY <1>1, <1>2, <1>3, <1>4, <1>5, <1>6, <1>7, <1>8, <1>9, <1>10 DEF WebSocket!Next

\* Whoever waits for the handshake is on the list its end goes through, and somebody
\* makes it as long as the state says so or anyone is on the list.
Sharing ==
    /\ \A o \in WebSocket!Calls : wsOp[o] = "hsWaiting" => o \in wsHsWaiters
    /\ wsHsWaiters # {} \/ wsState = "establishing" => Establishing # {}

\* A handshake that ends, or is given up by close_on_strand, leaves nobody on the list.
LEMMA SharingStep ==
  ASSUME SocketInv, Sharing, WebSocket!Next \/ UNCHANGED wsVars
  PROVE  Sharing'
<1>0. wsOp \in OpShape /\ SocketWrites \subseteq WebSocket!Calls /\ wsHsWaiters \subseteq WebSocket!Calls
  BY DEF SocketInv, WebSocket!TypeOK, OpShape, WebSocket!Calls
<1>1. ASSUME NEW o \in WebSocket!Calls, wsOp[o] # "establishing", UNCHANGED <<wsState, wsHsWaiters>>,
             wsOp'[o] # "hsWaiting", \A p \in WebSocket!Calls : p # o /\ wsOp'[p] # "gateWoken" => wsOp'[p] = wsOp[p],
             \A p \in WebSocket!Calls : wsOp[p] = "establishing" => wsOp'[p] = wsOp[p]
      PROVE  Sharing'
  BY <1>1 DEF Sharing, Establishing
<1>2. ASSUME NEW o \in WebSocket!Calls, NEW ops \in OpShape, WebSocket!Proceed(o, ops)
      PROVE  wsOp'[o] \in {"io", "failed", "gateWaiting"} /\ \A p \in WebSocket!Calls : p # o => wsOp'[p] = ops[p]
  BY <1>2 DEF WebSocket!Proceed, OpShape
<1>3. ASSUME NEW o \in WebSocket!Calls, NEW result \in {"done", "failed"},
             wsOp[o] # "establishing", UNCHANGED <<wsState, wsHsWaiters>>,
             WebSocket!Release([wsOp EXCEPT ![o] = result])
      PROVE  Sharing'
  <2>1. CASE wsClosed \/ wsWaiters = <<>>
    <3>1. wsOp'[o] = result /\ \A p \in WebSocket!Calls : p # o => wsOp'[p] = wsOp[p]
      BY <1>0, <1>3, <2>1 DEF WebSocket!Release, OpShape
    <3> QED
      BY <1>1, <1>3, <3>1
  <2>2. CASE ~wsClosed /\ wsWaiters # <<>>
    <3>1. Head(wsWaiters) \in WebSocket!Calls /\ wsOp[Head(wsWaiters)] = "gateWaiting"
      <4>1. wsWaiters \in Seq(SocketWrites) /\ \A i \in 1..Len(wsWaiters) : wsOp[wsWaiters[i]] = "gateWaiting"
        BY DEF SocketInv, WebSocket!TypeOK, Places
      <4>2. Head(wsWaiters) \in SocketWrites /\ Head(wsWaiters) = wsWaiters[1] /\ 1 \in 1..Len(wsWaiters)
        BY <2>2, <4>1, TailSeq
      <4> QED
        BY <1>0, <4>1, <4>2
    <3>2. \A p \in WebSocket!Calls : \/ p = Head(wsWaiters) /\ wsOp'[p] = "gateWoken"
                                     \/ p # Head(wsWaiters) /\ p = o /\ wsOp'[p] = result
                                     \/ p # Head(wsWaiters) /\ p # o /\ wsOp'[p] = wsOp[p]
      BY <1>0, <2>2, <1>3, <3>1 DEF WebSocket!Release, OpShape
    <3> QED
      BY <1>1, <1>3, <3>1, <3>2
  <2> QED
    BY <2>1, <2>2
<1>4. ASSUME NEW o \in WebSocket!Calls, WebSocket!Call(o) PROVE Sharing'
  <2>1. wsOp[o] = "idle" /\ wsOp'[o] = "spawned" /\ UNCHANGED <<wsState, wsHsWaiters>>
        /\ \A p \in WebSocket!Calls : p # o => wsOp'[p] = wsOp[p]
    BY <1>0, <1>4 DEF WebSocket!Call, OpShape
  <2> QED
    BY <1>1, <2>1
<1>5. ASSUME NEW o \in WebSocket!Calls, WebSocket!Start(o) PROVE Sharing'
  <2>1. wsOp[o] = "spawned"
    BY <1>5 DEF WebSocket!Start
  <2>2. CASE wsOp' = [wsOp EXCEPT ![o] = "failed"] /\ UNCHANGED <<wsState, wsHsWaiters>>
    <3>1. wsOp'[o] = "failed" /\ \A p \in WebSocket!Calls : p # o => wsOp'[p] = wsOp[p]
      BY <1>0, <2>2 DEF OpShape
    <3> QED
      BY <1>1, <2>1, <2>2, <3>1
  <2>3. CASE WebSocket!Proceed(o, wsOp) /\ UNCHANGED <<wsState, wsHsWaiters>>
    BY <1>0, <1>1, <1>2, <2>1, <2>3
  <2>4. CASE wsState' = "establishing" /\ wsOp' = [wsOp EXCEPT ![o] = "establishing"] /\ UNCHANGED wsHsWaiters
    <3>1. wsOp'[o] = "establishing" /\ \A p \in WebSocket!Calls : p # o => wsOp'[p] = wsOp[p]
      BY <1>0, <2>4 DEF OpShape
    <3> QED
      BY <2>4, <3>1 DEF Sharing, Establishing
  <2>5. CASE /\ wsState = "establishing" /\ wsOp' = [wsOp EXCEPT ![o] = "hsWaiting"]
             /\ wsHsWaiters' = wsHsWaiters \cup {o}
    <3>1. wsOp'[o] = "hsWaiting" /\ \A p \in WebSocket!Calls : p # o => wsOp'[p] = wsOp[p]
      BY <1>0, <2>5 DEF OpShape
    <3> QED
      BY <2>1, <2>5, <3>1 DEF Sharing, Establishing
  <2> QED
    BY <1>5, <2>2, <2>3, <2>4, <2>5, Zenon DEF WebSocket!Start
<1>6. ASSUME NEW o \in WebSocket!Calls, WebSocket!Established(o) PROVE Sharing'
  <2> DEFINE ops == WebSocket!HsWoken(wsOp)
  <2>1. ops \in OpShape /\ \A p \in WebSocket!Calls : ops[p] # "hsWaiting"
    BY <1>0 DEF WebSocket!HsWoken, OpShape, Sharing
  <2> HIDE DEF ops
  <2>2. wsHsWaiters' = {} /\ wsState' \in {"open", "failed"}
    BY <1>6 DEF WebSocket!Established
  <2>3. wsOp'[o] # "hsWaiting" /\ \A p \in WebSocket!Calls : p # o => wsOp'[p] = ops[p]
    <3>1. CASE WebSocket!Proceed(o, ops)
      BY <1>2, <2>1, <3>1
    <3>2. CASE wsOp' = [ops EXCEPT ![o] = "failed"]
      BY <2>1, <3>2 DEF OpShape
    <3> QED
      BY <1>6, <3>1, <3>2 DEF WebSocket!Established, ops
  <2> QED
    BY <2>1, <2>2, <2>3 DEF Sharing
<1>7. ASSUME NEW o \in WebSocket!Calls, WebSocket!HsResume(o) PROVE Sharing'
  <2>1. wsOp[o] = "hsWoken" /\ UNCHANGED <<wsState, wsHsWaiters>>
    BY <1>7 DEF WebSocket!HsResume
  <2>2. wsOp'[o] \in {"io", "failed", "gateWaiting"} /\ \A p \in WebSocket!Calls : p # o => wsOp'[p] = wsOp[p]
    BY <1>0, <1>2, <1>7 DEF WebSocket!HsResume, WebSocket!Fails, OpShape
  <2> QED
    BY <1>1, <2>1, <2>2
<1>8. ASSUME NEW w \in SocketWrites, WebSocket!GateResume(w) PROVE Sharing'
  <2>1. wsOp[w] = "gateWoken" /\ UNCHANGED <<wsState, wsHsWaiters>>
    BY <1>8 DEF WebSocket!GateResume
  <2>2. CASE WebSocket!Release([wsOp EXCEPT ![w] = "failed"])
    BY <1>0, <1>3, <2>1, <2>2
  <2>3. CASE wsOp' \in {[wsOp EXCEPT ![w] = "io"], [wsOp EXCEPT ![w] = "failed"]}
    <3>1. wsOp'[w] \in {"io", "failed"} /\ \A p \in WebSocket!Calls : p # w => wsOp'[p] = wsOp[p]
      BY <1>0, <2>3 DEF OpShape
    <3> QED
      BY <1>0, <1>1, <2>1, <3>1
  <2> QED
    BY <1>8, <2>2, <2>3 DEF WebSocket!GateResume
<1>9. ASSUME NEW w \in SocketWrites, WebSocket!WriteEnds(w) PROVE Sharing'
  <2>1. wsOp[w] = "io" /\ UNCHANGED <<wsState, wsHsWaiters>>
    BY <1>9 DEF WebSocket!WriteEnds
  <2>2. PICK result \in {"done", "failed"} : WebSocket!Release([wsOp EXCEPT ![w] = result])
    BY <1>9 DEF WebSocket!WriteEnds
  <2> QED
    BY <1>0, <1>3, <2>1, <2>2
<1>10. ASSUME NEW r \in SocketReads, WebSocket!ReadEnds(r) PROVE Sharing'
  <2>1. wsOp[r] = "io" /\ UNCHANGED <<wsState, wsHsWaiters>> /\ r \in WebSocket!Calls
    BY <1>10 DEF WebSocket!ReadEnds, WebSocket!Calls
  <2>2. wsOp'[r] \in {"done", "failed"} /\ \A p \in WebSocket!Calls : p # r => wsOp'[p] = wsOp[p]
    BY <1>0, <1>10, <2>1 DEF WebSocket!ReadEnds, OpShape
  <2> QED
    BY <1>1, <2>1, <2>2
<1>11. CASE WebSocket!Close \/ UNCHANGED wsVars
  BY <1>11 DEF WebSocket!Close, wsVars, Sharing, Establishing
<1>12. CASE WebSocket!RunClose
  BY <1>0, <1>12 DEF WebSocket!RunClose, Sharing, OpShape
<1> QED
  BY <1>4, <1>5, <1>6, <1>7, <1>8, <1>9, <1>10, <1>11, <1>12 DEF WebSocket!Next

---------------------------------------------------------------------------
\* The listeners of the HTTP servers

\* What a connection is doing once the server has registered it.
Serving == {"reading", "refusing", "requested", "answering", "writing"}

\* Where a connection is says what is known of it: the accept loop has the one just
\* accepted in its hands, active_connections the ones that are served, and a socket
\* outlives its coroutine only until its close has run.
ConnectionsKnown ==
    /\ \A c, d \in Connections : conn[c] = "accepted" /\ conn[d] = "accepted" => c = d
    /\ \A c \in Connections :
          /\ c \in active <=> conn[c] \in Serving
          /\ conn[c] = "accepted" => listener = "accepted"
          /\ conn[c] = "away" => c \notin socketOpen
          /\ conn[c] = "gone" /\ c \in socketOpen => c \in closing

\* Each part of close() that has run has done its work, and nobody undoes it.
ClosePartsDone ==
    /\ ~closed => jobs = {}
    /\ manager => "everything" \notin jobs
    /\ closed /\ jobs \cap {"everything", "acceptor"} = {} => ~acceptorOpen
    /\ closed /\ jobs \cap {"everything", "connections"} = {} => active \cap socketOpen \subseteq closing

\* The invariant of the listeners.
ListenerInv == Listener!TypeOK /\ ConnectionsKnown /\ ClosePartsDone

\* A server nobody has connected to.
LEMMA ListenerInit == Listener!Init => ListenerInv
  BY DEF Listener!Init, ListenerInv, Listener!TypeOK, ConnectionsKnown, ClosePartsDone, Serving

\* Every step of the listeners keeps their invariant.
LEMMA ListenerStep ==
  ASSUME ListenerInv, Listener!Next \/ UNCHANGED listenVars
  PROVE  ListenerInv'
<1> USE DEF ListenerInv, Listener!TypeOK, ConnectionsKnown, ClosePartsDone, Serving, Listener!loop, Listener!At
<1>1. CASE Listener!Listen
  BY <1>1 DEF Listener!Listen
<1>2. CASE Listener!Look
  BY <1>2 DEF Listener!Look
<1>3. CASE Listener!AcceptFails
  BY <1>3 DEF Listener!AcceptFails
<1>4. CASE Listener!Close
  BY <1>4 DEF Listener!Close
<1>5. CASE Listener!CloseEverything
  BY <1>5 DEF Listener!CloseEverything
<1>6. CASE Listener!CloseAcceptor
  BY <1>6 DEF Listener!CloseAcceptor
<1>7. CASE Listener!CloseConnections
  BY <1>7 DEF Listener!CloseConnections, Listener!Swept
<1>8. ASSUME NEW c \in Connections, Listener!PeerConnects(c) PROVE ListenerInv'
  BY <1>8 DEF Listener!PeerConnects
<1>9. ASSUME NEW c \in Connections, Listener!TransportAccepts(c) PROVE ListenerInv'
  BY <1>9 DEF Listener!TransportAccepts, Listener!Admits, Listener!Admitted, Listener!Dismissed
<1>10. ASSUME NEW c \in Connections, Listener!ManagerAccepts(c) PROVE ListenerInv'
  BY <1>10 DEF Listener!ManagerAccepts, Listener!Admits, Listener!Admitted, Listener!Dismissed
<1>11. ASSUME NEW c \in Connections, conn[c] \in Serving, NEW pc \in Serving, Listener!Goes(c, pc) PROVE ListenerInv'
  BY <1>11 DEF Listener!Goes
<1>12. ASSUME NEW c \in Connections, conn[c] \in Serving, Listener!Ends(c) PROVE ListenerInv'
  BY <1>12 DEF Listener!Ends
<1>13. ASSUME NEW c \in Connections,
              \/ Listener!Arrive(c) \/ Listener!HandleRequest(c) \/ Listener!Answer(c) \/ Listener!HandleThrows(c)
              \/ Listener!Wrote(c) \/ Listener!PeerLeaves(c) \/ Listener!Cut(c)
       PROVE  ListenerInv'
  BY <1>11, <1>12, <1>13, Zenon
  DEF Listener!Arrive, Listener!HandleRequest, Listener!Answer, Listener!HandleThrows, Listener!Wrote,
      Listener!PeerLeaves, Listener!Cut
<1>14. ASSUME NEW c \in Connections, Listener!CloseNow(c) PROVE ListenerInv'
  BY <1>14 DEF Listener!CloseNow
<1>15. CASE UNCHANGED listenVars
  BY <1>15 DEF listenVars
<1> QED
  BY <1>1, <1>2, <1>3, <1>4, <1>5, <1>6, <1>7, <1>8, <1>9, <1>10, <1>13, <1>14, <1>15 DEF Listener!Next

---------------------------------------------------------------------------
\* The memory transport

\* The reads with a place in read_waiters, and those that have not ended.
InLine == {r \in MemoryReads : \E i \in 1..Len(memWaiters) : memWaiters[i] = r}
Alive == {r \in MemoryReads : memRead[r] \notin {"returned", "closed", "aborted"}}

\* A read that waits is in line, once, and has no message yet; neither has one that
\* has not begun or that was aborted.
ReadsInLine ==
    /\ \A i, j \in 1..Len(memWaiters) : memWaiters[i] = memWaiters[j] => i = j
    /\ \A r \in MemoryReads :
          /\ memRead[r] \in {"idle", "spawned"} => memMessage[r] = NoMessage /\ r \notin InLine
          /\ memRead[r] = "waiting" => r \in InLine
          /\ r \in InLine \cap Alive => memMessage[r] = NoMessage
          /\ memRead[r] = "aborted" => memMessage[r] = NoMessage

\* What a read holds or the queue holds was sent, and is in one place.
MessagesOnce ==
    /\ \A i, j \in 1..Len(memIncoming) : memIncoming[i] = memIncoming[j] => i = j
    /\ \A i \in 1..Len(memIncoming) :
          /\ memWrite[memIncoming[i]] = "sent"
          /\ \A r \in MemoryReads : memMessage[r] # memIncoming[i]
    /\ \A r \in MemoryReads : memMessage[r] # NoMessage => memWrite[memMessage[r]] = "sent"
    /\ \A r, q \in MemoryReads : memMessage[r] = memMessage[q] /\ memMessage[r] # NoMessage => r = q

\* The queue is the end of what was accepted, and nobody waits beside a message.
QueueInOrder ==
    /\ Len(memIncoming) <= Len(memAccepted)
    /\ \A i \in 1..Len(memIncoming) :
          memIncoming[i] = memAccepted[Len(memAccepted) - Len(memIncoming) + i]
    /\ memIncoming = <<>> \/ memWaiters = <<>>

\* What was sent is queued or with a read that was not aborted.
Kept ==
    \A m \in Messages : memWrite[m] = "sent" =>
        \/ \E i \in 1..Len(memIncoming) : memIncoming[i] = m
        \/ \E r \in MemoryReads : memRead[r] # "aborted" /\ memMessage[r] = m

\* The invariant of the memory transport.
MemoryInv ==
    Memory!TypeOK /\ ReadsInLine /\ MessagesOnce /\ QueueInOrder /\ Kept /\ Memory!NoReaderStarves

\* A new pair.
LEMMA MemoryInit == Memory!Init => MemoryInv
<1> SUFFICES ASSUME Memory!Init PROVE MemoryInv
  OBVIOUS
<1> USE DEF Memory!Init
<1>1. Memory!TypeOK
  <2>1. <<>> \in Seq(Messages) /\ <<>> \in Seq(MemoryReads)
    OBVIOUS
  <2> QED
    BY <2>1 DEF Memory!TypeOK, Memory!Ends
<1>2. ReadsInLine /\ MessagesOnce /\ QueueInOrder /\ Kept /\ Memory!NoReaderStarves
  BY DEF ReadsInLine, InLine, MessagesOnce, QueueInOrder, Kept, Memory!NoReaderStarves
<1> QED
  BY <1>1, <1>2 DEF MemoryInv

\* The places of the reads, and what they hold.
ReadShape == [MemoryReads -> {"idle", "spawned", "waiting", "woken"} \cup {"returned", "closed", "aborted"}]
MessageShape == [MemoryReads -> Messages \cup {NoMessage}]

\* A read that neither takes nor loses a place or a message.
LEMMA ReadMoves ==
  ASSUME MemoryInv, NEW r \in MemoryReads,
         NEW place \in {"spawned", "woken", "returned", "closed", "aborted"},
         memRead' = [memRead EXCEPT ![r] = place],
         place = "spawned" => memRead[r] = "idle",
         place = "woken" => memRead[r] = "waiting",
         place = "aborted" => memMessage[r] = NoMessage,
         memRead[r] \in {"idle", "spawned", "waiting", "woken"},
         memCancelled' \subseteq MemoryReads,
         UNCHANGED <<memClosed, memClosing, memWakePosted, memIncoming, memWaiters, memMessage, memWrite, memAccepted>>
  PROVE  MemoryInv'
<1>1. memRead \in ReadShape
  BY DEF MemoryInv, Memory!TypeOK, Memory!Ended, ReadShape
<1>2. memRead' \in ReadShape /\ memRead'[r] = place /\ \A q \in MemoryReads : q # r => memRead'[q] = memRead[q]
  BY <1>1 DEF ReadShape
<1>3. Memory!TypeOK'
  BY <1>2 DEF MemoryInv, Memory!TypeOK, Memory!Ended, ReadShape
<1>4. InLine' = InLine
  BY DEF InLine
<1>5. Alive' \subseteq Alive
  BY <1>2 DEF Alive
<1>6. ReadsInLine'
  BY <1>2, <1>4, <1>5 DEF ReadsInLine, MemoryInv
<1>7. MessagesOnce' /\ QueueInOrder'
  BY DEF MessagesOnce, QueueInOrder, MemoryInv
<1>8. Kept'
  <2> SUFFICES ASSUME NEW m \in Messages, memWrite[m] = "sent",
                      ~ \E i \in 1..Len(memIncoming) : memIncoming[i] = m
               PROVE  \E q \in MemoryReads : memRead'[q] # "aborted" /\ memMessage[q] = m
    BY DEF Kept
  <2>1. PICK q \in MemoryReads : memRead[q] # "aborted" /\ memMessage[q] = m
    BY DEF Kept, MemoryInv
  <2>2. memRead'[q] # "aborted"
    BY <1>2, <2>1, TransportAssumption
  <2> QED
    BY <2>1, <2>2
<1>9. Memory!NoReaderStarves'
  BY <1>2 DEF MemoryInv, Memory!NoReaderStarves
<1> QED
  BY <1>3, <1>6, <1>7, <1>8, <1>9 DEF MemoryInv

\* Who is in line is a read.
LEMMA InLineFacts ==
  ASSUME MemoryInv
  PROVE  /\ memRead \in ReadShape /\ memMessage \in MessageShape
         /\ memWaiters \in Seq(MemoryReads) /\ memIncoming \in Seq(Messages) /\ memAccepted \in Seq(Messages)
         /\ memWrite \in [Messages -> {"idle", "spawned", "sent", "failed"}]
         /\ \A r \in MemoryReads : memRead[r] = "waiting" => r \in InLine \cap Alive
  BY DEF MemoryInv, Memory!TypeOK, Memory!Ended, ReadShape, MessageShape, ReadsInLine, Alive

\* A read takes the oldest message of the queue.
LEMMA ReadTakes ==
  ASSUME MemoryInv, NEW r \in MemoryReads, memRead[r] = "spawned", memIncoming # <<>>,
         memRead' = [memRead EXCEPT ![r] = "returned"],
         memMessage' = [memMessage EXCEPT ![r] = Head(memIncoming)],
         memIncoming' = Tail(memIncoming),
         UNCHANGED <<memClosed, memClosing, memWakePosted, memWaiters, memCancelled, memWrite, memAccepted>>
  PROVE  MemoryInv'
<1>1. /\ memRead \in ReadShape /\ memMessage \in MessageShape
      /\ memIncoming \in Seq(Messages) /\ memAccepted \in Seq(Messages)
      /\ memWrite \in [Messages -> {"idle", "spawned", "sent", "failed"}]
  BY InLineFacts
<1>2. /\ Head(memIncoming) \in Messages /\ memIncoming' \in Seq(Messages) /\ Len(memIncoming) > 0
      /\ Len(memIncoming') = Len(memIncoming) - 1
      /\ \A i \in 1..Len(memIncoming) - 1 : memIncoming'[i] = memIncoming[i + 1]
      /\ Head(memIncoming) = memIncoming[1]
      /\ Len(memIncoming) \in Nat /\ Len(memAccepted) \in Nat
  BY <1>1, TailSeq
<1>3. /\ memRead' \in ReadShape /\ memRead'[r] = "returned"
      /\ \A q \in MemoryReads : q # r => memRead'[q] = memRead[q]
      /\ memMessage' \in MessageShape /\ memMessage'[r] = memIncoming[1]
      /\ \A q \in MemoryReads : q # r => memMessage'[q] = memMessage[q]
  BY <1>1, <1>2 DEF ReadShape, MessageShape
<1>4. Memory!TypeOK'
  BY <1>2, <1>3 DEF MemoryInv, Memory!TypeOK, Memory!Ended, ReadShape, MessageShape
<1>5. r \notin InLine /\ InLine' = InLine /\ Alive' \subseteq Alive /\ memMessage[r] = NoMessage
  BY <1>3 DEF InLine, Alive, MemoryInv, ReadsInLine
<1>6. ReadsInLine'
  BY <1>3, <1>5 DEF ReadsInLine, MemoryInv
<1>7. /\ \A i \in 1..Len(memIncoming') : i + 1 \in 1..Len(memIncoming) /\ memIncoming'[i] = memIncoming[i + 1]
                                         /\ memIncoming'[i] # memIncoming[1]
      /\ 1 \in 1..Len(memIncoming)
  <2>1. 1 \in 1..Len(memIncoming) /\ \A i \in 1..Len(memIncoming') : i + 1 \in 1..Len(memIncoming) /\ i + 1 # 1
    BY <1>2
  <2> QED
    BY <1>2, <2>1 DEF MemoryInv, MessagesOnce
<1>8. memWrite[memIncoming[1]] = "sent" /\ \A q \in MemoryReads : memMessage[q] # memIncoming[1]
  BY <1>7 DEF MemoryInv, MessagesOnce
<1>9. MessagesOnce'
  <2>1. \A i, j \in 1..Len(memIncoming') : memIncoming'[i] = memIncoming'[j] => i = j
    <3> SUFFICES ASSUME NEW i \in 1..Len(memIncoming'), NEW j \in 1..Len(memIncoming'),
                        memIncoming'[i] = memIncoming'[j]
                 PROVE  i = j
      OBVIOUS
    <3>1. i + 1 = j + 1
      BY <1>7 DEF MemoryInv, MessagesOnce
    <3> QED
      BY <3>1
  <2>2. \A i \in 1..Len(memIncoming') : /\ memWrite[memIncoming'[i]] = "sent"
                                        /\ \A q \in MemoryReads : memMessage'[q] # memIncoming'[i]
    BY <1>3, <1>7 DEF MemoryInv, MessagesOnce
  <2>3. \A q \in MemoryReads : memMessage'[q] # NoMessage => memWrite[memMessage'[q]] = "sent"
    BY <1>3, <1>8 DEF MemoryInv, MessagesOnce
  <2>4. \A p, q \in MemoryReads : memMessage'[p] = memMessage'[q] /\ memMessage'[p] # NoMessage => p = q
    BY <1>3, <1>8 DEF MemoryInv, MessagesOnce
  <2> QED
    BY <2>1, <2>2, <2>3, <2>4 DEF MessagesOnce
<1>10. QueueInOrder'
  <2>1. \A i \in 1..Len(memIncoming') : memIncoming'[i] = memAccepted[Len(memAccepted) - Len(memIncoming') + i]
    <3> SUFFICES ASSUME NEW i \in 1..Len(memIncoming')
                 PROVE  memIncoming'[i] = memAccepted[Len(memAccepted) - Len(memIncoming') + i]
      OBVIOUS
    <3>1. memIncoming'[i] = memAccepted[Len(memAccepted) - Len(memIncoming) + (i + 1)]
      BY <1>7 DEF MemoryInv, QueueInOrder
    <3>2. Len(memAccepted) - Len(memIncoming) + (i + 1) = Len(memAccepted) - Len(memIncoming') + i
      BY <1>2
    <3> QED
      BY <3>1, <3>2
  <2>2. memWaiters = <<>>
    BY DEF MemoryInv, QueueInOrder
  <2>3. Len(memIncoming') <= Len(memAccepted)
    BY <1>2 DEF MemoryInv, QueueInOrder
  <2> QED
    BY <2>1, <2>2, <2>3 DEF QueueInOrder
<1>11. Kept'
  <2> SUFFICES ASSUME NEW m \in Messages, memWrite[m] = "sent",
                      ~ \E q \in MemoryReads : memRead'[q] # "aborted" /\ memMessage'[q] = m
               PROVE  \E i \in 1..Len(memIncoming') : memIncoming'[i] = m
    BY DEF Kept
  <2>1. m # memIncoming[1] /\ m # NoMessage
    BY <1>3, TransportAssumption
  <2>2. ~ \E q \in MemoryReads : memRead[q] # "aborted" /\ memMessage[q] = m
    BY <1>3, <1>5, <2>1
  <2>3. PICK i \in 1..Len(memIncoming) : memIncoming[i] = m
    BY <2>2 DEF MemoryInv, Kept
  <2>4. i - 1 \in 1..Len(memIncoming') /\ memIncoming'[i - 1] = m
    BY <1>2, <2>1, <2>3
  <2> QED
    BY <2>4
<1>12. Memory!NoReaderStarves'
  BY <1>3 DEF MemoryInv, Memory!NoReaderStarves
<1> QED
  BY <1>4, <1>6, <1>9, <1>10, <1>11, <1>12 DEF MemoryInv

\* A read joins the line.
LEMMA ReadJoins ==
  ASSUME MemoryInv, NEW r \in MemoryReads, memRead[r] = "spawned", memIncoming = <<>>, ~memClosed["receiver"],
         memRead' = [memRead EXCEPT ![r] = "waiting"],
         memWaiters' = Append(memWaiters, r),
         UNCHANGED <<memClosed, memClosing, memWakePosted, memIncoming, memMessage, memCancelled, memWrite, memAccepted>>
  PROVE  MemoryInv'
<1>1. memRead \in ReadShape /\ memWaiters \in Seq(MemoryReads)
  BY InLineFacts
<1>2. /\ memWaiters' \in Seq(MemoryReads) /\ Len(memWaiters') = Len(memWaiters) + 1
      /\ \A i \in 1..Len(memWaiters) : memWaiters'[i] = memWaiters[i]
      /\ memWaiters'[Len(memWaiters) + 1] = r /\ Len(memWaiters) \in Nat
  BY <1>1, AppendSeq
<1>3. memRead' \in ReadShape /\ memRead'[r] = "waiting" /\ \A q \in MemoryReads : q # r => memRead'[q] = memRead[q]
  BY <1>1 DEF ReadShape
<1>4. Memory!TypeOK'
  BY <1>2, <1>3 DEF MemoryInv, Memory!TypeOK, Memory!Ended, ReadShape
<1>5. InLine' = InLine \cup {r} /\ Alive' = Alive /\ r \notin InLine /\ memMessage[r] = NoMessage
  <2>1. r \notin InLine /\ memMessage[r] = NoMessage
    BY DEF MemoryInv, ReadsInLine
  <2>2. InLine \subseteq InLine' /\ r \in InLine'
    BY <1>2 DEF InLine
  <2>3. InLine' \subseteq InLine \cup {r}
    BY <1>2 DEF InLine
  <2>4. Alive' = Alive
    BY <1>3 DEF Alive
  <2> QED
    BY <2>1, <2>2, <2>3, <2>4
<1>6. ReadsInLine'
  <2>1. \A i \in 1..Len(memWaiters) : memWaiters[i] # r
    BY <1>5 DEF InLine
  <2>2. \A i, j \in 1..Len(memWaiters') : memWaiters'[i] = memWaiters'[j] => i = j
    BY <1>2, <2>1 DEF MemoryInv, ReadsInLine
  <2> QED
    BY <1>3, <1>5, <2>2 DEF ReadsInLine, MemoryInv
<1>7. MessagesOnce' /\ QueueInOrder'
  BY DEF MessagesOnce, QueueInOrder, MemoryInv
<1>8. Kept'
  BY <1>3, <1>5, TransportAssumption DEF Kept, MemoryInv
<1>9. Memory!NoReaderStarves'
  BY DEF Memory!NoReaderStarves
<1> QED
  BY <1>4, <1>6, <1>7, <1>8, <1>9 DEF MemoryInv

\* A message goes to the first read in line that still exists.
LEMMA MessageHandedOver ==
  ASSUME MemoryInv, NEW m \in Messages, memWrite[m] = "spawned",
         memWrite' = [memWrite EXCEPT ![m] = "sent"], memAccepted' = Append(memAccepted, m),
         NEW k \in Nat, k < Len(memWaiters), memWaiters[k + 1] \in Alive,
         \A i \in 1..k : memWaiters[i] \notin Alive,
         memMessage' = [memMessage EXCEPT ![memWaiters[k + 1]] = m],
         memRead' = [memRead EXCEPT ![memWaiters[k + 1]] = IF @ = "waiting" THEN "woken" ELSE @],
         memWaiters' = SubSeq(memWaiters, k + 2, Len(memWaiters)),
         UNCHANGED <<memClosed, memClosing, memWakePosted, memIncoming, memCancelled>>
  PROVE  MemoryInv'
<1> DEFINE r == memWaiters[k + 1]
<1>1. /\ memRead \in ReadShape /\ memMessage \in MessageShape /\ memWaiters \in Seq(MemoryReads)
      /\ memAccepted \in Seq(Messages) /\ memWrite \in [Messages -> {"idle", "spawned", "sent", "failed"}]
      /\ Len(memWaiters) \in Nat
  BY InLineFacts
<1>2. r \in MemoryReads /\ r \in InLine /\ r \in Alive /\ k + 1 \in 1..Len(memWaiters)
  BY <1>1 DEF InLine
<1>3. memMessage[r] = NoMessage /\ memRead[r] \in {"waiting", "woken"}
  BY <1>1, <1>2 DEF MemoryInv, ReadsInLine, Alive, ReadShape
<1>4. /\ memRead' \in ReadShape /\ memRead'[r] = "woken"
      /\ \A q \in MemoryReads : q # r => memRead'[q] = memRead[q]
      /\ memMessage' \in MessageShape /\ memMessage'[r] = m
      /\ \A q \in MemoryReads : q # r => memMessage'[q] = memMessage[q]
      /\ memWrite' \in [Messages -> {"idle", "spawned", "sent", "failed"}] /\ memWrite'[m] = "sent"
      /\ \A n \in Messages : n # m => memWrite'[n] = memWrite[n]
  BY <1>1, <1>2, <1>3 DEF ReadShape, MessageShape
<1>5. /\ memWaiters' \in Seq(MemoryReads) /\ Len(memWaiters') = Len(memWaiters) - k - 1
      /\ \A i \in 1..Len(memWaiters) - k - 1 : memWaiters'[i] = memWaiters[k + 1 + i]
  BY <1>1
<1> HIDE DEF r
<1>6. Memory!TypeOK'
  <2>1. memAccepted' \in Seq(Messages)
    BY <1>1, AppendSeq
  <2> QED
    BY <1>4, <1>5, <2>1 DEF MemoryInv, Memory!TypeOK, Memory!Ended, ReadShape, MessageShape
<1>7. /\ InLine' \subseteq InLine \ {r} /\ Alive' = Alive
      /\ InLine \cap Alive \subseteq InLine' \cup {r}
  <2>1. Alive' = Alive
    BY <1>2, <1>3, <1>4 DEF Alive
  <2>2. \A i \in 1..Len(memWaiters') : k + 1 + i \in 1..Len(memWaiters) /\ k + 1 + i # k + 1
    BY <1>1, <1>5
  <2>3. InLine' \subseteq InLine \ {r}
    BY <1>2, <1>5, <2>2 DEF InLine, MemoryInv, ReadsInLine, r
  <2>4. ASSUME NEW q \in InLine \cap Alive, q # r PROVE q \in InLine'
    <3>1. PICK j \in 1..Len(memWaiters) : memWaiters[j] = q
      BY <2>4 DEF InLine
    <3>2. j \notin 1..k /\ j # k + 1
      BY <2>4, <3>1 DEF r
    <3>3. j - k - 1 \in 1..Len(memWaiters') /\ memWaiters'[j - k - 1] = q
      BY <1>1, <1>5, <3>1, <3>2
    <3> QED
      BY <2>4, <3>3 DEF InLine
  <2> QED
    BY <2>1, <2>3, <2>4
<1>8. ReadsInLine'
  <2>1. \A i, j \in 1..Len(memWaiters') : memWaiters'[i] = memWaiters'[j] => i = j
    <3> SUFFICES ASSUME NEW i \in 1..Len(memWaiters'), NEW j \in 1..Len(memWaiters'), memWaiters'[i] = memWaiters'[j]
                 PROVE  i = j
      OBVIOUS
    <3>1. k + 1 + i \in 1..Len(memWaiters) /\ k + 1 + j \in 1..Len(memWaiters)
      BY <1>1, <1>5
    <3>2. k + 1 + i = k + 1 + j
      BY <1>5, <3>1 DEF MemoryInv, ReadsInLine
    <3> QED
      BY <3>2
  <2>2. \A q \in MemoryReads : memRead'[q] = "waiting" => q \in InLine'
    BY <1>4, <1>7, InLineFacts
  <2>3. ASSUME NEW q \in MemoryReads
        PROVE  /\ memRead'[q] \in {"idle", "spawned"} => memMessage'[q] = NoMessage /\ q \notin InLine'
               /\ q \in InLine' \cap Alive' => memMessage'[q] = NoMessage
               /\ memRead'[q] = "aborted" => memMessage'[q] = NoMessage
    BY <1>4, <1>7 DEF MemoryInv, ReadsInLine
  <2> QED
    BY <2>1, <2>2, <2>3 DEF ReadsInLine
<1>9. memIncoming = <<>>
  BY <1>1, <1>2 DEF MemoryInv, QueueInOrder
<1>10. \A q \in MemoryReads : memMessage[q] # m
  BY TransportAssumption DEF MemoryInv, MessagesOnce
<1>11. MessagesOnce'
  <2>1. \A q \in MemoryReads : memMessage'[q] # NoMessage => memWrite'[memMessage'[q]] = "sent"
    BY <1>1, <1>4, <1>10 DEF MemoryInv, MessagesOnce, MessageShape
  <2>2. \A p, q \in MemoryReads : memMessage'[p] = memMessage'[q] /\ memMessage'[p] # NoMessage => p = q
    BY <1>4, <1>10 DEF MemoryInv, MessagesOnce
  <2> QED
    BY <1>9, <2>1, <2>2 DEF MessagesOnce
<1>12. QueueInOrder'
  <2>1. Len(memAccepted') \in Nat
    BY <1>1
  <2> QED
    BY <1>9, <2>1 DEF QueueInOrder
<1>13. Kept'
  <2> SUFFICES ASSUME NEW n \in Messages, memWrite'[n] = "sent"
               PROVE  \E q \in MemoryReads : memRead'[q] # "aborted" /\ memMessage'[q] = n
    BY DEF Kept
  <2>1. CASE n = m
    BY <1>2, <1>4, <2>1
  <2>2. CASE n # m
    <3>1. PICK q \in MemoryReads : memRead[q] # "aborted" /\ memMessage[q] = n
      BY <1>4, <1>9, <2>2 DEF MemoryInv, Kept
    <3>2. q # r
      BY <1>3, <3>1, TransportAssumption
    <3> QED
      BY <1>4, <3>1, <3>2
  <2> QED
    BY <2>1, <2>2
<1>14. Memory!NoReaderStarves'
  <2>1. \A q \in MemoryReads : memRead'[q] = "waiting" => memRead[q] = "waiting"
    BY <1>4
  <2> QED
    BY <2>1 DEF MemoryInv, Memory!NoReaderStarves
<1> QED
  BY <1>6, <1>8, <1>11, <1>12, <1>13, <1>14 DEF MemoryInv

\* A message nobody is in line for is queued.
LEMMA MessageQueued ==
  ASSUME MemoryInv, NEW m \in Messages, memWrite[m] = "spawned",
         memWrite' = [memWrite EXCEPT ![m] = "sent"], memAccepted' = Append(memAccepted, m),
         \A i \in 1..Len(memWaiters) : memWaiters[i] \notin Alive,
         memIncoming' = Append(memIncoming, m), memWaiters' = <<>>,
         UNCHANGED <<memClosed, memClosing, memWakePosted, memRead, memMessage, memCancelled>>
  PROVE  MemoryInv'
<1>1. /\ memRead \in ReadShape /\ memMessage \in MessageShape /\ memIncoming \in Seq(Messages)
      /\ memAccepted \in Seq(Messages) /\ memWrite \in [Messages -> {"idle", "spawned", "sent", "failed"}]
      /\ Len(memIncoming) \in Nat /\ Len(memAccepted) \in Nat
  BY InLineFacts
<1>2. /\ memWrite' \in [Messages -> {"idle", "spawned", "sent", "failed"}] /\ memWrite'[m] = "sent"
      /\ \A n \in Messages : n # m => memWrite'[n] = memWrite[n]
  BY <1>1
<1>3. /\ memIncoming' \in Seq(Messages) /\ Len(memIncoming') = Len(memIncoming) + 1
      /\ \A i \in 1..Len(memIncoming) : memIncoming'[i] = memIncoming[i]
      /\ memIncoming'[Len(memIncoming) + 1] = m
      /\ memAccepted' \in Seq(Messages) /\ Len(memAccepted') = Len(memAccepted) + 1
      /\ \A i \in 1..Len(memAccepted) : memAccepted'[i] = memAccepted[i]
      /\ memAccepted'[Len(memAccepted) + 1] = m
  BY <1>1, AppendSeq
<1>4. Memory!TypeOK'
  <2>1. <<>> \in Seq(MemoryReads)
    OBVIOUS
  <2> QED
    BY <1>2, <1>3, <2>1 DEF MemoryInv, Memory!TypeOK, Memory!Ended
<1>5. \A q \in MemoryReads : memRead[q] # "waiting"
  <2>1. InLine \cap Alive = {}
    BY DEF InLine
  <2> QED
    BY <2>1, InLineFacts
<1>6. ReadsInLine'
  <2>1. InLine' = {} /\ Len(memWaiters') = 0
    BY DEF InLine
  <2> QED
    BY <1>5, <2>1 DEF ReadsInLine, MemoryInv
<1>7. /\ \A q \in MemoryReads : memMessage[q] # m
      /\ \A i \in 1..Len(memIncoming) : memIncoming[i] # m
  BY TransportAssumption DEF MemoryInv, MessagesOnce
<1>8. MessagesOnce'
  <2>1. \A i, j \in 1..Len(memIncoming') : memIncoming'[i] = memIncoming'[j] => i = j
    BY <1>1, <1>3, <1>7 DEF MemoryInv, MessagesOnce
  <2>2. \A i \in 1..Len(memIncoming') : /\ memWrite'[memIncoming'[i]] = "sent"
                                        /\ \A q \in MemoryReads : memMessage[q] # memIncoming'[i]
    BY <1>1, <1>2, <1>3, <1>7 DEF MemoryInv, MessagesOnce
  <2>3. \A q \in MemoryReads : memMessage[q] # NoMessage => memWrite'[memMessage[q]] = "sent"
    BY <1>1, <1>2, <1>7 DEF MemoryInv, MessagesOnce, MessageShape
  <2> QED
    BY <2>1, <2>2, <2>3 DEF MessagesOnce, MemoryInv
<1>9. QueueInOrder'
  <2> SUFFICES ASSUME NEW i \in 1..Len(memIncoming')
               PROVE  memIncoming'[i] = memAccepted'[Len(memAccepted') - Len(memIncoming') + i]
    <3>1. Len(memIncoming') <= Len(memAccepted') /\ memWaiters' = <<>>
      BY <1>1, <1>3 DEF QueueInOrder, MemoryInv
    <3> QED
      BY <3>1 DEF QueueInOrder
  <2>1. /\ Len(memAccepted') - Len(memIncoming') + i = Len(memAccepted) - Len(memIncoming) + i
        /\ Len(memIncoming) <= Len(memAccepted)
    BY <1>1, <1>3 DEF QueueInOrder, MemoryInv
  <2>2. CASE i \in 1..Len(memIncoming)
    <3>1. Len(memAccepted) - Len(memIncoming) + i \in 1..Len(memAccepted)
      BY <1>1, <2>1, <2>2
    <3>2. memIncoming[i] = memAccepted[Len(memAccepted) - Len(memIncoming) + i]
      BY <2>2 DEF QueueInOrder, MemoryInv
    <3> QED
      BY <1>3, <2>1, <2>2, <3>1, <3>2
  <2>3. CASE i = Len(memIncoming) + 1
    BY <1>1, <1>3, <2>1, <2>3
  <2>4. i \in 1..Len(memIncoming) + 1
    BY <1>3
  <2> QED
    BY <1>1, <2>2, <2>3, <2>4, LastOrBefore, Zenon
<1>10. Kept'
  <2> SUFFICES ASSUME NEW n \in Messages, memWrite'[n] = "sent",
                      ~ \E q \in MemoryReads : memRead[q] # "aborted" /\ memMessage[q] = n
               PROVE  \E i \in 1..Len(memIncoming') : memIncoming'[i] = n
    BY DEF Kept
  <2>1. CASE n = m
    <3>1. Len(memIncoming) + 1 \in 1..Len(memIncoming') /\ memIncoming'[Len(memIncoming) + 1] = n
      BY <1>1, <1>3, <2>1
    <3> QED
      BY <3>1
  <2>2. CASE n # m
    <3>1. PICK i \in 1..Len(memIncoming) : memIncoming[i] = n
      BY <1>2, <2>2 DEF MemoryInv, Kept
    <3>2. i \in 1..Len(memIncoming') /\ memIncoming'[i] = n
      BY <1>1, <1>3, <3>1
    <3> QED
      BY <3>2
  <2> QED
    BY <2>1, <2>2
<1>11. Memory!NoReaderStarves'
  BY <1>5 DEF Memory!NoReaderStarves
<1> QED
  BY <1>4, <1>6, <1>8, <1>9, <1>10, <1>11 DEF MemoryInv

\* Every step of the memory transport keeps its invariant.
LEMMA MemoryStep ==
  ASSUME MemoryInv, Memory!Next \/ UNCHANGED memVars
  PROVE  MemoryInv'
<1>0. /\ memRead \in ReadShape /\ memMessage \in MessageShape
      /\ memWaiters \in Seq(MemoryReads) /\ memIncoming \in Seq(Messages) /\ memAccepted \in Seq(Messages)
      /\ memWrite \in [Messages -> {"idle", "spawned", "sent", "failed"}]
      /\ memClosed \in [{"sender", "receiver"} -> BOOLEAN] /\ memClosing \subseteq {"sender", "receiver"}
      /\ memWakePosted \in BOOLEAN /\ memCancelled \subseteq MemoryReads
  BY InLineFacts DEF MemoryInv, Memory!TypeOK, Memory!Ends
<1>a. ASSUME memClosed' \in [{"sender", "receiver"} -> BOOLEAN], memClosing' \subseteq {"sender", "receiver"},
             memWakePosted' \in BOOLEAN, memClosed'["receiver"] => memWakePosted' \/ (memClosed["receiver"] /\ ~memWakePosted),
             memWrite' \in [Messages -> {"idle", "spawned", "sent", "failed"}],
             \A m \in Messages : memWrite'[m] = "sent" <=> memWrite[m] = "sent",
             UNCHANGED <<memIncoming, memWaiters, memRead, memMessage, memCancelled, memAccepted>>
      PROVE  MemoryInv'
  <2>1. Memory!TypeOK'
    BY <1>a DEF MemoryInv, Memory!TypeOK, Memory!Ends
  <2>2. ReadsInLine'
    BY <1>a DEF MemoryInv, ReadsInLine, InLine, Alive
  <2>3. MessagesOnce'
    BY <1>0, <1>a DEF MemoryInv, MessagesOnce, MessageShape
  <2>4. QueueInOrder' /\ Kept'
    BY <1>a DEF MemoryInv, QueueInOrder, Kept
  <2>5. Memory!NoReaderStarves'
    BY <1>a DEF MemoryInv, Memory!NoReaderStarves
  <2> QED
    BY <2>1, <2>2, <2>3, <2>4, <2>5 DEF MemoryInv
<1>b. \A e \in {"sender", "receiver"} : Memory!Peer(e) \in {"sender", "receiver"}
  <2>1. \A e \in Memory!Ends : \E other \in Memory!Ends : other # e
    BY DEF Memory!Ends
  <2> QED
    BY <2>1 DEF Memory!Peer, Memory!Ends
<1>c. ASSUME NEW e \in {"sender", "receiver"}, Memory!CloseEndpoint(e)
      PROVE  /\ memClosed' \in [{"sender", "receiver"} -> BOOLEAN] /\ memWakePosted' \in BOOLEAN
             /\ memClosed'["receiver"] => memWakePosted' \/ (memClosed["receiver"] /\ ~memWakePosted)
  BY <1>0, <1>c DEF Memory!CloseEndpoint
<1>1. CASE Memory!DestroySender
  <2>1. "receiver" \in {"sender", "receiver"} /\ Memory!CloseEndpoint("receiver")
        /\ UNCHANGED <<memClosing, memIncoming, memWaiters, memRead, memMessage, memCancelled, memAccepted>>
        /\ memWrite' = [m \in Messages |-> IF memWrite[m] = "idle" THEN "failed" ELSE memWrite[m]]
    BY <1>1 DEF Memory!DestroySender
  <2>2. memWrite' \in [Messages -> {"idle", "spawned", "sent", "failed"}]
        /\ \A m \in Messages : memWrite'[m] = "sent" <=> memWrite[m] = "sent"
    BY <1>0, <2>1
  <2>3. /\ memClosed' \in [{"sender", "receiver"} -> BOOLEAN] /\ memWakePosted' \in BOOLEAN
        /\ memClosed'["receiver"] => memWakePosted' \/ (memClosed["receiver"] /\ ~memWakePosted)
    BY <1>c, <2>1
  <2> QED
    BY <1>0, <1>a, <2>1, <2>2, <2>3
<1>2. CASE Memory!RunWake
  <2>1. /\ memWakePosted' = FALSE /\ memWaiters' = <<>>
        /\ memRead' = [r \in MemoryReads |-> IF Memory!WakesOnClose(r) THEN "woken" ELSE memRead[r]]
        /\ UNCHANGED <<memClosed, memClosing, memIncoming, memMessage, memCancelled, memWrite, memAccepted>>
    BY <1>2 DEF Memory!RunWake
  <2>2. /\ memRead' \in ReadShape
        /\ \A r \in MemoryReads : /\ memRead'[r] # "waiting"
                                  /\ memRead'[r] = memRead[r] \/ (memRead[r] = "waiting" /\ memRead'[r] = "woken")
    BY <1>0, <2>1, InLineFacts DEF Memory!WakesOnClose, Memory!Contains, InLine, ReadShape
  <2>3. Memory!TypeOK'
    <3>1. <<>> \in Seq(MemoryReads)
      OBVIOUS
    <3> QED
      BY <2>1, <2>2, <3>1 DEF MemoryInv, Memory!TypeOK, Memory!Ended, ReadShape
  <2>4. ReadsInLine'
    <3>1. InLine' = {} /\ Len(memWaiters') = 0
      BY <2>1 DEF InLine
    <3> QED
      BY <2>1, <2>2, <3>1 DEF MemoryInv, ReadsInLine
  <2>5. MessagesOnce' /\ QueueInOrder'
    BY <2>1 DEF MemoryInv, MessagesOnce, QueueInOrder
  <2>6. Kept'
    BY <2>1, <2>2 DEF MemoryInv, Kept
  <2>7. Memory!NoReaderStarves'
    BY <2>2 DEF Memory!NoReaderStarves
  <2> QED
    BY <2>3, <2>4, <2>5, <2>6, <2>7 DEF MemoryInv
<1>3. ASSUME NEW e \in Memory!Ends, Memory!Close(e) PROVE MemoryInv'
  <2>1. e \in {"sender", "receiver"} /\ Memory!CloseEndpoint(e) /\ memClosing' = memClosing \cup {e}
        /\ UNCHANGED <<memIncoming, memWaiters, memRead, memMessage, memCancelled, memWrite, memAccepted>>
    BY <1>3 DEF Memory!Close, Memory!Ends
  <2>2. /\ memClosed' \in [{"sender", "receiver"} -> BOOLEAN] /\ memWakePosted' \in BOOLEAN
        /\ memClosed'["receiver"] => memWakePosted' \/ (memClosed["receiver"] /\ ~memWakePosted)
    BY <1>c, <2>1
  <2> QED
    BY <1>0, <1>a, <2>1, <2>2
<1>4. ASSUME NEW e \in Memory!Ends, Memory!ClosePeer(e) PROVE MemoryInv'
  <2>1. e \in {"sender", "receiver"} /\ Memory!CloseEndpoint(Memory!Peer(e)) /\ memClosing' = memClosing \ {e}
        /\ UNCHANGED <<memIncoming, memWaiters, memRead, memMessage, memCancelled, memWrite, memAccepted>>
    BY <1>4 DEF Memory!ClosePeer, Memory!Ends
  <2>2. /\ memClosed' \in [{"sender", "receiver"} -> BOOLEAN] /\ memWakePosted' \in BOOLEAN
        /\ memClosed'["receiver"] => memWakePosted' \/ (memClosed["receiver"] /\ ~memWakePosted)
    BY <1>b, <1>c, <2>1
  <2> QED
    BY <1>0, <1>a, <2>1, <2>2
<1>5. ASSUME NEW r \in MemoryReads, Memory!CallRead(r) PROVE MemoryInv'
  <2>1. memRead[r] = "idle" /\ memRead' = [memRead EXCEPT ![r] = "spawned"]
        /\ UNCHANGED <<memClosed, memClosing, memWakePosted, memIncoming, memWaiters, memMessage, memCancelled, memWrite,
                       memAccepted>>
    BY <1>5 DEF Memory!CallRead
  <2> QED
    BY <1>0, <2>1, ReadMoves
<1>6. ASSUME NEW r \in MemoryReads, Memory!StartRead(r) PROVE MemoryInv'
  <2>1. memRead[r] = "spawned" /\ UNCHANGED <<memClosed, memClosing, memWakePosted, memCancelled, memWrite, memAccepted>>
    BY <1>6 DEF Memory!StartRead
  <2>2. CASE memRead' = [memRead EXCEPT ![r] = "closed"] /\ UNCHANGED <<memIncoming, memWaiters, memMessage>>
    BY <1>0, <2>1, <2>2, ReadMoves
  <2>3. CASE /\ memIncoming # <<>> /\ memRead' = [memRead EXCEPT ![r] = "returned"]
             /\ memMessage' = [memMessage EXCEPT ![r] = Head(memIncoming)]
             /\ memIncoming' = Tail(memIncoming) /\ UNCHANGED memWaiters
    BY <2>1, <2>3, ReadTakes
  <2>4. CASE /\ ~memClosed["receiver"] /\ memIncoming = <<>> /\ memRead' = [memRead EXCEPT ![r] = "waiting"]
             /\ memWaiters' = Append(memWaiters, r) /\ UNCHANGED <<memIncoming, memMessage>>
    BY <2>1, <2>4, ReadJoins
  <2> QED
    BY <1>6, <2>2, <2>3, <2>4 DEF Memory!StartRead
<1>7. ASSUME NEW r \in MemoryReads, Memory!CancelRead(r) PROVE MemoryInv'
  <2>1. memRead[r] = "waiting" /\ memRead' = [memRead EXCEPT ![r] = "woken"] /\ memCancelled' = memCancelled \cup {r}
        /\ UNCHANGED <<memClosed, memClosing, memWakePosted, memIncoming, memWaiters, memMessage, memWrite, memAccepted>>
    BY <1>7 DEF Memory!CancelRead
  <2> QED
    BY <1>0, <2>1, ReadMoves
<1>8. ASSUME NEW r \in MemoryReads, Memory!ResumeRead(r) PROVE MemoryInv'
  <2>1. PICK place \in {"closed", "aborted", "returned"} :
           memRead' = [memRead EXCEPT ![r] = place] /\ (place = "aborted" => memMessage[r] = NoMessage)
    BY <1>8 DEF Memory!ResumeRead, Memory!Aborts
  <2>2. memRead[r] = "woken"
        /\ UNCHANGED <<memClosed, memClosing, memWakePosted, memIncoming, memWaiters, memMessage, memCancelled, memWrite,
                       memAccepted>>
    BY <1>8 DEF Memory!ResumeRead
  <2> QED
    BY <1>0, <2>1, <2>2, ReadMoves
<1>9. ASSUME NEW m \in Messages, Memory!CallWrite(m) PROVE MemoryInv'
  <2>1. PICK place \in {"failed", "spawned"} : memWrite' = [memWrite EXCEPT ![m] = place]
    BY <1>9 DEF Memory!CallWrite
  <2>2. memWrite[m] = "idle"
        /\ UNCHANGED <<memClosed, memClosing, memWakePosted, memIncoming, memWaiters, memRead, memMessage, memCancelled,
                       memAccepted>>
    BY <1>9 DEF Memory!CallWrite
  <2>3. memWrite' \in [Messages -> {"idle", "spawned", "sent", "failed"}]
        /\ \A n \in Messages : memWrite'[n] = "sent" <=> memWrite[n] = "sent"
    BY <1>0, <2>1, <2>2
  <2> QED
    BY <1>0, <1>a, <2>2, <2>3
<1>10. ASSUME NEW m \in Messages, Memory!Deliver(m) PROVE MemoryInv'
  <2>1. memWrite[m] = "spawned" /\ UNCHANGED <<memClosed, memClosing, memWakePosted, memCancelled>>
    BY <1>10 DEF Memory!Deliver
  <2>2. CASE memWrite' = [memWrite EXCEPT ![m] = "failed"]
             /\ UNCHANGED <<memIncoming, memWaiters, memRead, memMessage, memAccepted>>
    <3>1. memWrite' \in [Messages -> {"idle", "spawned", "sent", "failed"}]
          /\ \A n \in Messages : memWrite'[n] = "sent" <=> memWrite[n] = "sent"
      BY <1>0, <2>1, <2>2
    <3> QED
      BY <1>0, <1>a, <2>1, <2>2, <3>1
  <2>3. CASE /\ memWrite' = [memWrite EXCEPT ![m] = "sent"] /\ memAccepted' = Append(memAccepted, m)
             /\ Memory!DeliverMessage(m)
    <3>0. \A i \in 1..Len(memWaiters) : memWaiters[i] \in Alive <=> Memory!LiveWaiter(memWaiters[i])
      BY <1>0 DEF Memory!LiveWaiter, Memory!Ended, Alive
    <3>1. PICK k \in 0..Len(memWaiters) :
             /\ \A i \in 1..k : ~Memory!LiveWaiter(memWaiters[i])
             /\ IF k < Len(memWaiters)
                THEN /\ Memory!LiveWaiter(memWaiters[k + 1])
                     /\ memMessage' = [memMessage EXCEPT ![memWaiters[k + 1]] = m]
                     /\ memRead' = [memRead EXCEPT ![memWaiters[k + 1]] = IF @ = "waiting" THEN "woken" ELSE @]
                     /\ memWaiters' = SubSeq(memWaiters, k + 2, Len(memWaiters))
                     /\ UNCHANGED memIncoming
                ELSE /\ memIncoming' = Append(memIncoming, m)
                     /\ memWaiters' = <<>>
                     /\ UNCHANGED <<memMessage, memRead>>
      BY <2>3 DEF Memory!DeliverMessage
    <3>2. \A i \in 1..k : memWaiters[i] \notin Alive
      BY <1>0, <3>0, <3>1
    <3>3. CASE k < Len(memWaiters)
      <4>1. k \in Nat /\ memWaiters[k + 1] \in Alive
        BY <1>0, <3>0, <3>1, <3>3
      <4> QED
        BY <2>1, <2>3, <3>1, <3>2, <3>3, <4>1, MessageHandedOver
    <3>4. CASE ~(k < Len(memWaiters))
      <4>1. k = Len(memWaiters)
        BY <1>0, <3>1, <3>4
      <4> QED
        BY <2>1, <2>3, <3>1, <3>2, <3>4, <4>1, MessageQueued
    <3> QED
      BY <3>3, <3>4
  <2> QED
    BY <1>10, <2>2, <2>3 DEF Memory!Deliver
<1>11. CASE UNCHANGED memVars
  <2>1. UNCHANGED <<memClosed, memClosing, memWakePosted, memIncoming, memWaiters, memRead, memMessage, memCancelled,
                    memWrite, memAccepted>>
    BY <1>11 DEF memVars
  <2> QED
    BY <1>0, <1>a, <2>1
<1> QED
  BY <1>1, <1>2, <1>3, <1>4, <1>5, <1>6, <1>7, <1>8, <1>9, <1>10, <1>11 DEF Memory!Next

\* A read that was woken has a message, was cancelled, or is told of the end; the job
\* that wakes the reads runs only behind a close().
WokenForAReason ==
    /\ \A r \in MemoryReads :
          memRead[r] = "woken" /\ memMessage[r] = NoMessage => r \in memCancelled \/ memClosed["receiver"]
    /\ memWakePosted => memClosed["receiver"]

\* Every step of the memory transport keeps it.
LEMMA WokenStep ==
  ASSUME MemoryInv, WokenForAReason, Memory!Next \/ UNCHANGED memVars
  PROVE  WokenForAReason'
<1>0. /\ memRead \in ReadShape /\ memMessage \in MessageShape /\ memWaiters \in Seq(MemoryReads)
      /\ memClosed \in [{"sender", "receiver"} -> BOOLEAN] /\ memCancelled \subseteq MemoryReads
  BY InLineFacts DEF MemoryInv, Memory!TypeOK, Memory!Ends
<1>a. ASSUME NEW e, Memory!CloseEndpoint(e), UNCHANGED <<memRead, memMessage, memCancelled>>
      PROVE  WokenForAReason'
  <2>1. /\ memClosed["receiver"] => memClosed'["receiver"]
        /\ memWakePosted' => memClosed'["receiver"]
    BY <1>0, <1>a DEF Memory!CloseEndpoint, WokenForAReason
  <2> QED
    BY <1>a, <2>1 DEF WokenForAReason
<1>b. ASSUME NEW r \in MemoryReads, NEW place, memRead' = [memRead EXCEPT ![r] = place], place # "woken",
             \A q \in MemoryReads : q # r => memMessage'[q] = memMessage[q],
             UNCHANGED <<memClosed, memWakePosted, memCancelled>>
      PROVE  WokenForAReason'
  <2>1. memRead'[r] = place /\ \A q \in MemoryReads : q # r => memRead'[q] = memRead[q]
    BY <1>0, <1>b DEF ReadShape
  <2> QED
    BY <1>b, <2>1 DEF WokenForAReason
<1>1. CASE Memory!DestroySender
  BY <1>1, <1>a DEF Memory!DestroySender
<1>2. CASE Memory!RunWake
  <2>1. memClosed["receiver"] /\ memClosed'["receiver"] /\ memWakePosted' = FALSE
    BY <1>2 DEF Memory!RunWake, WokenForAReason
  <2> QED
    BY <2>1 DEF WokenForAReason
<1>3. ASSUME NEW e \in Memory!Ends, Memory!Close(e) \/ Memory!ClosePeer(e) PROVE WokenForAReason'
  BY <1>3, <1>a DEF Memory!Close, Memory!ClosePeer
<1>4. ASSUME NEW r \in MemoryReads, Memory!CallRead(r) PROVE WokenForAReason'
  BY <1>4, <1>b DEF Memory!CallRead
<1>5. ASSUME NEW r \in MemoryReads, Memory!StartRead(r) PROVE WokenForAReason'
  <2>1. /\ UNCHANGED <<memClosed, memWakePosted, memCancelled>>
        /\ \E place \in {"closed", "returned", "waiting"} : memRead' = [memRead EXCEPT ![r] = place]
        /\ memMessage' = memMessage \/ memMessage' = [memMessage EXCEPT ![r] = Head(memIncoming)]
    BY <1>5 DEF Memory!StartRead
  <2>2. \A q \in MemoryReads : q # r => memMessage'[q] = memMessage[q]
    BY <1>0, <2>1 DEF MessageShape
  <2> QED
    BY <1>b, <2>1, <2>2
<1>6. ASSUME NEW r \in MemoryReads, Memory!CancelRead(r) PROVE WokenForAReason'
  <2>1. /\ memRead'[r] = "woken" /\ r \in memCancelled' /\ memCancelled \subseteq memCancelled'
        /\ \A q \in MemoryReads : q # r => memRead'[q] = memRead[q]
        /\ UNCHANGED <<memClosed, memWakePosted, memMessage>>
    BY <1>0, <1>6 DEF Memory!CancelRead, ReadShape
  <2> QED
    BY <2>1 DEF WokenForAReason
<1>7. ASSUME NEW r \in MemoryReads, Memory!ResumeRead(r) PROVE WokenForAReason'
  <2>1. /\ \E place \in {"closed", "aborted", "returned"} : memRead' = [memRead EXCEPT ![r] = place]
        /\ UNCHANGED <<memClosed, memWakePosted, memMessage, memCancelled>>
    BY <1>7 DEF Memory!ResumeRead
  <2> QED
    BY <1>b, <2>1
<1>8. ASSUME NEW m \in Messages, Memory!CallWrite(m) PROVE WokenForAReason'
  BY <1>8 DEF Memory!CallWrite, WokenForAReason
<1>9. ASSUME NEW m \in Messages, Memory!Deliver(m) PROVE WokenForAReason'
  <2>1. UNCHANGED <<memClosed, memWakePosted, memCancelled>>
    BY <1>9 DEF Memory!Deliver
  <2>2. CASE UNCHANGED <<memRead, memMessage>>
    BY <2>1, <2>2 DEF WokenForAReason
  <2>3. ASSUME NEW r \in MemoryReads, memMessage' = [memMessage EXCEPT ![r] = m],
               memRead' = [memRead EXCEPT ![r] = IF @ = "waiting" THEN "woken" ELSE @]
        PROVE  WokenForAReason'
    <3>1. /\ memMessage'[r] # NoMessage
          /\ \A q \in MemoryReads : q # r => memRead'[q] = memRead[q] /\ memMessage'[q] = memMessage[q]
      BY <1>0, <2>3, TransportAssumption DEF ReadShape, MessageShape
    <3> QED
      BY <2>1, <3>1 DEF WokenForAReason
  <2>4. CASE Memory!DeliverMessage(m)
    <3>1. PICK k \in 0..Len(memWaiters) :
             IF k < Len(memWaiters)
             THEN /\ memMessage' = [memMessage EXCEPT ![memWaiters[k + 1]] = m]
                  /\ memRead' = [memRead EXCEPT ![memWaiters[k + 1]] = IF @ = "waiting" THEN "woken" ELSE @]
             ELSE UNCHANGED <<memMessage, memRead>>
      BY <2>4 DEF Memory!DeliverMessage
    <3>2. k < Len(memWaiters) => memWaiters[k + 1] \in MemoryReads
      BY <1>0
    <3> QED
      BY <2>2, <2>3, <3>1, <3>2
  <2> QED
    BY <1>9, <2>2, <2>4 DEF Memory!Deliver
<1>10. CASE UNCHANGED memVars
  BY <1>10 DEF memVars, WokenForAReason
<1> QED
  BY <1>1, <1>2, <1>3, <1>4, <1>5, <1>6, <1>7, <1>8, <1>9, <1>10 DEF Memory!Next

\* A call that moves on, as the channel sees it.
LEMMA ReadSeen ==
  ASSUME MemoryInv, NEW r \in MemoryReads,
         NEW place \in {"spawned", "waiting", "woken", "returned", "closed", "aborted"},
         memRead' = [memRead EXCEPT ![r] = place]
  PROVE  ReadsAsked' = [ReadsAsked EXCEPT ![r] = IF place \in {"spawned", "waiting", "woken"} THEN "asked" ELSE place]
  BY InLineFacts DEF ReadsAsked, ReadShape

LEMMA WriteSeen ==
  ASSUME MemoryInv, NEW m \in Messages, NEW place \in {"spawned", "sent", "failed"},
         memWrite' = [memWrite EXCEPT ![m] = place]
  PROVE  WritesAsked' = [WritesAsked EXCEPT ![m] = IF place = "spawned" THEN "asked" ELSE place]
  BY InLineFacts DEF WritesAsked

\* The steps of the calls that change no message, as steps of the channel.
LEMMA CallsSeen ==
  ASSUME MemoryInv, NEW r \in MemoryReads, WokenForAReason,
         Memory!CallRead(r) \/ Memory!CancelRead(r) \/ Memory!ResumeRead(r)
  PROVE  Channel!Next
<1>0. memRead \in ReadShape
  BY InLineFacts
<1>1. CASE Memory!CallRead(r)
  <2>1. /\ memRead[r] = "idle" /\ memRead' = [memRead EXCEPT ![r] = "spawned"]
        /\ UNCHANGED <<memIncoming, memMessage, memCancelled, memWrite, memClosed>>
    BY <1>1 DEF Memory!CallRead
  <2>2. ReadsAsked[r] = "idle" /\ ReadsAsked' = [ReadsAsked EXCEPT ![r] = "asked"]
    BY <2>1, ReadSeen DEF ReadsAsked
  <2>3. UNCHANGED <<WritesAsked, EndsOver>>
    BY <2>1 DEF WritesAsked, EndsOver
  <2>4. Channel!Read(r)
    BY <2>1, <2>2, <2>3 DEF Channel!Read
  <2> QED
    BY <2>4 DEF Channel!Next
<1>2. CASE Memory!CancelRead(r)
  <2>1. /\ memRead[r] = "waiting" /\ memRead' = [memRead EXCEPT ![r] = "woken"]
        /\ memCancelled' = memCancelled \cup {r}
        /\ UNCHANGED <<memIncoming, memMessage, memWrite, memClosed>>
    BY <1>2 DEF Memory!CancelRead
  <2>2. ReadsAsked[r] = "asked" /\ ReadsAsked' = ReadsAsked
    BY <1>0, <2>1 DEF ReadsAsked, ReadShape
  <2>3. UNCHANGED <<WritesAsked, EndsOver>>
    BY <2>1 DEF WritesAsked, EndsOver
  <2>4. Channel!Cancel(r)
    BY <2>1, <2>2, <2>3 DEF Channel!Cancel
  <2> QED
    BY <2>4 DEF Channel!Next
<1>3. CASE Memory!ResumeRead(r)
  <2>1. /\ memRead[r] = "woken"
        /\ memRead' = [memRead EXCEPT ![r] = IF memClosed["receiver"] THEN "closed"
                                             ELSE IF Memory!Aborts(r) THEN "aborted" ELSE "returned"]
        /\ UNCHANGED <<memIncoming, memMessage, memCancelled, memWrite, memClosed>>
    BY <1>3 DEF Memory!ResumeRead
  <2>2. ReadsAsked[r] = "asked" /\ UNCHANGED <<WritesAsked, EndsOver>>
    BY <2>1 DEF ReadsAsked, WritesAsked, EndsOver
  <2>3. "receiver" \in EndsOver <=> memClosed["receiver"]
    BY DEF EndsOver, Memory!Ends
  <2>4. CASE memClosed["receiver"]
    <3>1. ReadsAsked' = [ReadsAsked EXCEPT ![r] = "closed"]
      BY <2>1, <2>4, ReadSeen
    <3>2. Channel!Fail(r)
      BY <2>1, <2>2, <2>3, <2>4, <3>1 DEF Channel!Fail
    <3> QED
      BY <3>2 DEF Channel!Next
  <2>5. CASE ~memClosed["receiver"] /\ Memory!Aborts(r)
    <3>1. ReadsAsked' = [ReadsAsked EXCEPT ![r] = "aborted"]
      BY <2>1, <2>5, ReadSeen
    <3>2. r \in memCancelled \cap Channel!Open
      BY <2>2, <2>5 DEF Memory!Aborts, Channel!Open
    <3>3. Channel!Fail(r)
      BY <2>1, <2>2, <3>1, <3>2 DEF Channel!Fail
    <3> QED
      BY <3>3 DEF Channel!Next
  <2>6. CASE ~memClosed["receiver"] /\ ~Memory!Aborts(r)
    <3>1. ReadsAsked' = [ReadsAsked EXCEPT ![r] = "returned"]
      BY <2>1, <2>6, ReadSeen
    <3>2. memMessage[r] # NoMessage
      BY <2>1, <2>6 DEF WokenForAReason, Memory!Aborts
    <3>3. Channel!Return(r)
      BY <2>1, <2>2, <2>3, <2>6, <3>1, <3>2 DEF Channel!Return
    <3> QED
      BY <3>3 DEF Channel!Next
  <2> QED
    BY <2>4, <2>5, <2>6
<1> QED
  BY <1>1, <1>2, <1>3

\* A read that starts fails, takes the oldest message, or has only begun to wait.
LEMMA StartSeen ==
  ASSUME MemoryInv, NEW r \in MemoryReads, Memory!StartRead(r)
  PROVE  Channel!Next \/ UNCHANGED Channel!chan
<1>0. memRead \in ReadShape
  BY InLineFacts
<1>1. /\ memRead[r] = "spawned" /\ ReadsAsked[r] = "asked" /\ memMessage[r] = NoMessage
      /\ UNCHANGED <<memClosed, memCancelled, memWrite>>
  BY DEF Memory!StartRead, ReadsAsked, MemoryInv, ReadsInLine
<1>2. UNCHANGED <<WritesAsked, EndsOver>>
  BY <1>1 DEF WritesAsked, EndsOver
<1>3. "receiver" \in EndsOver <=> memClosed["receiver"]
  BY DEF EndsOver, Memory!Ends
<1>4. CASE memClosed["receiver"] /\ memRead' = [memRead EXCEPT ![r] = "closed"] /\ UNCHANGED <<memIncoming, memMessage>>
  <2>1. ReadsAsked' = [ReadsAsked EXCEPT ![r] = "closed"]
    BY <1>4, ReadSeen
  <2>2. Channel!Fail(r)
    BY <1>1, <1>2, <1>3, <1>4, <2>1 DEF Channel!Fail
  <2> QED
    BY <2>2 DEF Channel!Next
<1>5. CASE /\ ~memClosed["receiver"] /\ memIncoming # <<>> /\ memRead' = [memRead EXCEPT ![r] = "returned"]
           /\ memMessage' = [memMessage EXCEPT ![r] = Head(memIncoming)] /\ memIncoming' = Tail(memIncoming)
  <2>1. ReadsAsked' = [ReadsAsked EXCEPT ![r] = "returned"] /\ r \in Channel!Open
    BY <1>1, <1>5, ReadSeen DEF Channel!Open
  <2>2. Channel!Return(r)
    BY <1>1, <1>2, <1>3, <1>5, <2>1 DEF Channel!Return
  <2> QED
    BY <2>2 DEF Channel!Next
<1>6. CASE memRead' = [memRead EXCEPT ![r] = "waiting"] /\ UNCHANGED <<memIncoming, memMessage>>
  <2>1. ReadsAsked' = ReadsAsked
    BY <1>0, <1>1, <1>6 DEF ReadsAsked, ReadShape
  <2> QED
    BY <1>1, <1>2, <1>6, <2>1 DEF Channel!chan
<1> QED
  BY <1>4, <1>5, <1>6 DEF Memory!StartRead

\* What the delivery of a message is to the channel: it is handed to a read that can
\* take it, which it may because nothing is queued beside waiters, or queued.
LEMMA DeliverySeen ==
  ASSUME MemoryInv, NEW m \in Messages, Memory!Deliver(m)
  PROVE  Channel!Next
<1>0. /\ memRead \in ReadShape /\ memMessage \in MessageShape /\ memWaiters \in Seq(MemoryReads)
  BY InLineFacts
<1>1. memWrite[m] = "spawned" /\ WritesAsked[m] = "asked" /\ UNCHANGED <<memClosed, memCancelled>>
  BY DEF Memory!Deliver, WritesAsked
<1>2. UNCHANGED EndsOver
  BY <1>1 DEF EndsOver
<1>3. CASE /\ \E e \in Memory!Ends : memClosed[e]
           /\ memWrite' = [memWrite EXCEPT ![m] = "failed"] /\ UNCHANGED <<memIncoming, memRead, memMessage>>
  <2>1. WritesAsked' = [WritesAsked EXCEPT ![m] = "failed"] /\ EndsOver # {} /\ UNCHANGED ReadsAsked
    BY <1>3, WriteSeen DEF EndsOver, ReadsAsked
  <2>2. Channel!Refuse(m)
    BY <1>1, <1>2, <1>3, <2>1 DEF Channel!Refuse
  <2> QED
    BY <2>2 DEF Channel!Next
<1>4. CASE /\ ~\E e \in Memory!Ends : memClosed[e]
           /\ memWrite' = [memWrite EXCEPT ![m] = "sent"] /\ Memory!DeliverMessage(m)
  <2>1. WritesAsked' = [WritesAsked EXCEPT ![m] = "sent"] /\ EndsOver = {}
    BY <1>4, WriteSeen DEF EndsOver
  <2>2. PICK k \in 0..Len(memWaiters) :
           IF k < Len(memWaiters)
           THEN /\ Memory!LiveWaiter(memWaiters[k + 1])
                /\ memMessage' = [memMessage EXCEPT ![memWaiters[k + 1]] = m]
                /\ memRead' = [memRead EXCEPT ![memWaiters[k + 1]] = IF @ = "waiting" THEN "woken" ELSE @]
                /\ UNCHANGED memIncoming
           ELSE /\ memIncoming' = Append(memIncoming, m)
                /\ UNCHANGED <<memMessage, memRead>>
    BY <1>4 DEF Memory!DeliverMessage
  <2>3. CASE k < Len(memWaiters)
    <3> DEFINE r == memWaiters[k + 1]
    <3>1. r \in MemoryReads /\ r \in InLine /\ memRead[r] \notin {"returned", "closed", "aborted"} /\ k + 1 \in 1..Len(memWaiters)
      BY <1>0, <2>2, <2>3 DEF InLine, Memory!LiveWaiter, Memory!Ended
    <3>2. memRead[r] \in {"waiting", "woken"} /\ memMessage[r] = NoMessage
      BY <1>0, <3>1 DEF MemoryInv, ReadsInLine, Alive, ReadShape
    <3>3. memIncoming = <<>>
      BY <1>0, <3>1 DEF MemoryInv, QueueInOrder
    <3> HIDE DEF r
    <3>4. memMessage' = [memMessage EXCEPT ![r] = m] /\ UNCHANGED memIncoming
      BY <2>2, <2>3 DEF r
    <3>5. ReadsAsked' = ReadsAsked
      <4>1. memRead' = [memRead EXCEPT ![r] = IF @ = "waiting" THEN "woken" ELSE @]
        BY <2>2, <2>3 DEF r
      <4> QED
        BY <1>0, <3>1, <3>2, <4>1 DEF ReadsAsked, ReadShape
    <3>6. r \in Channel!Open
      BY <3>1, <3>2 DEF Channel!Open, ReadsAsked
    <3>7. Channel!Accept(m)
      BY <1>1, <1>2, <2>1, <3>3, <3>4, <3>5, <3>6 DEF Channel!Accept
    <3> QED
      BY <3>7 DEF Channel!Next
  <2>4. CASE ~(k < Len(memWaiters))
    <3>1. Channel!Accept(m)
      BY <1>1, <1>2, <2>1, <2>2, <2>4 DEF Channel!Accept, ReadsAsked
    <3> QED
      BY <3>1 DEF Channel!Next
  <2> QED
    BY <2>3, <2>4
<1> QED
  BY <1>3, <1>4 DEF Memory!Deliver

\* Every step of the memory transport is one of the channel, or none.
LEMMA ChannelStep ==
  ASSUME MemoryInv, WokenForAReason, Memory!Next \/ UNCHANGED memVars
  PROVE  Channel!Next \/ UNCHANGED Channel!chan
<1>0. /\ memClosed \in [{"sender", "receiver"} -> BOOLEAN] /\ memRead \in ReadShape
      /\ memWrite \in [Messages -> {"idle", "spawned", "sent", "failed"}]
  BY InLineFacts DEF MemoryInv, Memory!TypeOK, Memory!Ends
<1>a. ASSUME NEW e \in Memory!Ends, Memory!CloseEndpoint(e),
             UNCHANGED <<memIncoming, memRead, memMessage, memCancelled>>,
             memWrite' = memWrite \/ memWrite' = [m \in Messages |-> IF memWrite[m] = "idle" THEN "failed" ELSE memWrite[m]]
      PROVE  Channel!Next
  <2>1. EndsOver' = EndsOver \cup {e} /\ e \in Channel!Ends
    BY <1>0, <1>a DEF Memory!CloseEndpoint, EndsOver, Memory!Ends, Channel!Ends
  <2>2. \/ UNCHANGED WritesAsked
        \/ WritesAsked' = [m \in Messages |-> IF WritesAsked[m] = "idle" THEN "failed" ELSE WritesAsked[m]]
    <3>1. CASE memWrite' = memWrite
      BY <3>1 DEF WritesAsked
    <3>2. CASE memWrite' = [m \in Messages |-> IF memWrite[m] = "idle" THEN "failed" ELSE memWrite[m]]
      BY <1>0, <3>2 DEF WritesAsked
    <3> QED
      BY <1>a, <3>1, <3>2
  <2>3. Channel!Close(e)
    BY <1>a, <2>1, <2>2 DEF Channel!Close, ReadsAsked
  <2> QED
    BY <2>1, <2>3 DEF Channel!Next
<1>1. CASE Memory!DestroySender
  BY <1>1, <1>a DEF Memory!DestroySender, Memory!Ends
<1>2. CASE Memory!RunWake
  <2>1. /\ memRead' = [r \in MemoryReads |-> IF Memory!WakesOnClose(r) THEN "woken" ELSE memRead[r]]
        /\ UNCHANGED <<memClosed, memIncoming, memMessage, memCancelled, memWrite>>
    BY <1>2 DEF Memory!RunWake
  <2>2. ReadsAsked' = ReadsAsked
    BY <1>0, <2>1 DEF ReadsAsked, ReadShape, Memory!WakesOnClose
  <2> QED
    BY <2>1, <2>2 DEF Channel!chan, WritesAsked, EndsOver
<1>3. ASSUME NEW e \in Memory!Ends, Memory!Close(e) \/ Memory!ClosePeer(e) PROVE Channel!Next
  <2>1. Memory!Peer(e) \in Memory!Ends
    <3>1. \E other \in Memory!Ends : other # e
      BY <1>3 DEF Memory!Ends
    <3> QED
      BY <3>1 DEF Memory!Peer
  <2> QED
    BY <1>3, <1>a, <2>1 DEF Memory!Close, Memory!ClosePeer
<1>4. ASSUME NEW r \in MemoryReads, Memory!CallRead(r) \/ Memory!StartRead(r) \/ Memory!CancelRead(r) \/ Memory!ResumeRead(r)
      PROVE  Channel!Next \/ UNCHANGED Channel!chan
  BY <1>4, CallsSeen, StartSeen
<1>5. ASSUME NEW m \in Messages, Memory!CallWrite(m) PROVE Channel!Next
  <2>1. /\ memWrite[m] = "idle" /\ memWrite' = [memWrite EXCEPT ![m] = IF memClosed["sender"] THEN "failed" ELSE "spawned"]
        /\ UNCHANGED <<memClosed, memIncoming, memRead, memMessage, memCancelled>>
    BY <1>5 DEF Memory!CallWrite
  <2>2. WritesAsked[m] = "idle" /\ UNCHANGED <<ReadsAsked, EndsOver>>
    BY <2>1 DEF WritesAsked, ReadsAsked, EndsOver
  <2>3. CASE memClosed["sender"]
    <3>1. WritesAsked' = [WritesAsked EXCEPT ![m] = "failed"] /\ EndsOver # {}
      BY <2>1, <2>3, WriteSeen DEF EndsOver, Memory!Ends
    <3>2. Channel!Refuse(m)
      BY <2>1, <2>2, <3>1 DEF Channel!Refuse
    <3> QED
      BY <3>2 DEF Channel!Next
  <2>4. CASE ~memClosed["sender"]
    <3>1. WritesAsked' = [WritesAsked EXCEPT ![m] = "asked"]
      BY <2>1, <2>4, WriteSeen
    <3>2. Channel!Write(m)
      BY <2>1, <2>2, <3>1 DEF Channel!Write
    <3> QED
      BY <3>2 DEF Channel!Next
  <2> QED
    BY <2>3, <2>4
<1>6. ASSUME NEW m \in Messages, Memory!Deliver(m) PROVE Channel!Next
  BY <1>6, DeliverySeen
<1>7. CASE UNCHANGED memVars
  BY <1>7 DEF memVars, Channel!chan, ReadsAsked, WritesAsked, EndsOver
<1> QED
  BY <1>1, <1>2, <1>3, <1>4, <1>5, <1>6, <1>7 DEF Memory!Next

\* A suffix, element by element.
LEMMA SuffixIs ==
  ASSUME NEW S, NEW s \in Seq(S), NEW t \in Seq(S), Len(s) <= Len(t),
         \A i \in 1..Len(s) : s[i] = t[Len(t) - Len(s) + i]
  PROVE  Memory!IsSuffix(s, t)
<1>1. Len(s) \in Nat /\ Len(t) \in Nat
  OBVIOUS
<1>2. /\ Memory!Reverse(s) = [i \in 1..Len(s) |-> s[Len(s) - i + 1]]
      /\ Memory!Reverse(t) = [i \in 1..Len(t) |-> t[Len(t) - i + 1]]
  BY DEF Memory!Reverse
<1> DEFINE rs == Memory!Reverse(s)
           rt == Memory!Reverse(t)
<1>3. rs \in Seq(S) /\ rt \in Seq(S) /\ Len(rs) = Len(s) /\ Len(rt) = Len(t)
  BY <1>1, <1>2
<1>4. \A i \in 1..Len(s) : rs[i] = rt[i]
  <2> SUFFICES ASSUME NEW i \in 1..Len(s) PROVE rs[i] = rt[i]
    OBVIOUS
  <2>1. rs[i] = s[Len(s) - i + 1] /\ rt[i] = t[Len(t) - i + 1]
    BY <1>1, <1>2
  <2>2. Len(s) - i + 1 \in 1..Len(s) /\ Len(t) - Len(s) + (Len(s) - i + 1) = Len(t) - i + 1
    BY <1>1
  <2> QED
    BY <2>1, <2>2
<1> HIDE DEF rs, rt
<1>5. SubSeq(rs, 1, Len(rs)) = SubSeq(rt, 1, Len(rs))
  BY <1>1, <1>3, <1>4
<1> QED
  BY <1>3, <1>5 DEF Memory!IsSuffix, Memory!IsPrefix, rs, rt

---------------------------------------------------------------------------
\* The transports together

\* A set with at most one member, counted.
LEMMA CountsAtMostOne ==
  ASSUME NEW S, AtMostOne(S)
  PROVE  Cardinality(S) <= 1 /\ WebSocket!Cardinality(S) <= 1 /\ HttpClient!Cardinality(S) <= 1
<1>1. Cardinality(S) \in {0, 1}
  <2>1. CASE S = {}
    BY <2>1, FS_EmptySet
  <2>2. CASE S # {}
    <3>1. PICK x \in S : S = {x}
      BY <2>2 DEF AtMostOne
    <3>2. Cardinality({x}) = 1
      BY FS_Singleton
    <3> QED
      BY <3>1, <3>2
  <2> QED
    BY <2>1, <2>2
<1>2. WebSocket!Cardinality(S) = Cardinality(S) /\ HttpClient!Cardinality(S) = Cardinality(S)
  BY DEF Cardinality, WebSocket!Cardinality, HttpClient!Cardinality
<1> QED
  BY <1>1, <1>2

\* The inductive invariant: that of every transport.
IInv == MemoryInv /\ WokenForAReason /\ SocketInv /\ Sharing /\ HttpInv /\ IoInv /\ ListenerInv

\* Each transport keeps its invariant, whichever one a behaviour exercises.
THEOREM Invariance == Spec => []IInv
<1>1. Init => IInv
  <2>1. /\ WebSocket!Init => Sharing
        /\ Memory!Init => WokenForAReason
    BY DEF WebSocket!Init, Sharing, Memory!Init, WokenForAReason
  <2> QED
    BY <2>1, MemoryInit, SocketInit, HttpInit, IoInit, ListenerInit DEF Init, IInv
<1>2. IInv /\ [Next]_vars => IInv'
  <2> SUFFICES ASSUME IInv, [Next]_vars PROVE IInv'
    OBVIOUS
  <2>1. /\ Memory!Next \/ UNCHANGED memVars
        /\ WebSocket!Next \/ UNCHANGED wsVars
        /\ HttpClient!Next \/ UNCHANGED httpVars
        /\ Stdio!Next \/ UNCHANGED ioVars
        /\ Listener!Next \/ UNCHANGED listenVars
    BY Zenon DEF Next, vars
  <2> QED
    BY <2>1, MemoryStep, WokenStep, SocketStep, SharingStep, HttpStep, IoStep, ListenerStep DEF IInv
<1> QED
  BY <1>1, <1>2, PTL DEF Spec

\* What is queued is the end of what was accepted, and what was sent is there or with
\* one read.
LEMMA NothingKept ==
  ASSUME MemoryInv
  PROVE  Memory!NothingLost
<1>1. memIncoming \in Seq(Messages) /\ memAccepted \in Seq(Messages) /\ memMessage \in MessageShape
  BY InLineFacts
<1>2. Memory!IsSuffix(memIncoming, memAccepted)
  BY <1>1, SuffixIs DEF MemoryInv, QueueInOrder
<1>3. \A m \in Messages : memWrite[m] = "sent" => m \in Memory!Range(memIncoming) \cup Memory!Held
  BY <1>1, TransportAssumption DEF MemoryInv, Kept, Memory!Range, Memory!Held
<1> QED
  BY <1>2, <1>3 DEF Memory!NothingLost, MemoryInv, MessagesOnce

\* deliver_message and next_message_or_closed of the memory transport: an accepted
\* message is queued, in order, or with one read that can return it, whatever reads
\* are cancelled and whichever end is closed meanwhile.
THEOREM NothingIsLost == Spec => []Memory!NothingLost
  BY NothingKept, Invariance, PTL DEF IInv

\* MemoryTransport implements the channel its users see: deliver_message hands a message
\* to a read in line, which it may because nothing is queued beside one (QueueInOrder);
\* a read that was woken has a message, was cancelled or finds the transport closed
\* (WokenForAReason), so the message it moves out of its waiter is there.
THEOREM MemoryImplementsChannel == Spec => MemoryIsAChannel
<1>1. Init => Channel!Init
  <2> SUFFICES ASSUME Init PROVE Channel!Init
    OBVIOUS
  <2>1. Memory!Init
    BY DEF Init
  <2> QED
    BY <2>1 DEF Memory!Init, Memory!Ends, Channel!Init, ReadsAsked, WritesAsked, EndsOver
<1>2. IInv /\ [Next]_vars => [Channel!Next]_(Channel!chan)
  <2> SUFFICES ASSUME IInv, [Next]_vars PROVE Channel!Next \/ UNCHANGED Channel!chan
    OBVIOUS
  <2>1. Memory!Next \/ UNCHANGED memVars
    BY Zenon DEF Next, vars
  <2> QED
    BY <2>1, ChannelStep DEF IInv
<1> QED
  BY <1>1, <1>2, Invariance, PTL DEF Spec, MemoryIsAChannel, Channel!Spec

\* SerializedWriteGate, ensure_handshake and close_on_strand of the WebSocket
\* transports: writes are made one at a time in the order they came, none is left at
\* the gate, there is one handshake, whose end nobody misses, and it does not reopen a closed transport.
THEOREM WritesAndHandshakesInTurn == Spec => []WebSocketInTurn
<1>1. SocketInv /\ Sharing => WebSocketInTurn
  <2> SUFFICES ASSUME SocketInv, Sharing PROVE WebSocketInTurn
    OBVIOUS
  <2>1. WebSocket!WritesSerialized
    <3>1. WebSocket!Cardinality(Writing) <= 1
      BY CountsAtMostOne DEF SocketInv, Gate
    <3> QED
      BY <3>1 DEF SocketInv, Gate, Writing, WrittenInOrder, WebSocket!WritesSerialized
  <2>2. WebSocket!NoWriteStranded
    BY DEF SocketInv, Connection, Gate, GateInOrder, Writing, WebSocket!NoWriteStranded
  <2>3. WebSocket!OneHandshake
    <3>1. WebSocket!Cardinality(Establishing) <= 1
      BY CountsAtMostOne DEF SocketInv, Connection
    <3> QED
      BY <3>1 DEF SocketInv, Connection, Establishing, WebSocket!OneHandshake
  <2>4. WebSocket!ClosedStaysClosed
    BY DEF SocketInv, Connection
  <2>5. WebSocket!NoHandshakeMissed
    BY DEF Sharing, Establishing, WebSocket!NoHandshakeMissed
  <2> QED
    BY <2>1, <2>2, <2>3, <2>4, <2>5 DEF WebSocketInTurn
<1> QED
  BY <1>1, Invariance, PTL DEF IInv

\* close() of the HTTP client transport and close_state of the stdio transport: the
\* exchange under way is cut off and the session it may have named is ended before
\* close() is through, nobody misses the end of an exchange, and no write of the other
\* transport touches the stream once close() has returned.  close() of the HTTP servers:
\* no connection stays open that it has not reached.
THEOREM CloseInOrder == Spec => []CloseIsOrderly
<1>1. HttpInv /\ IoInv /\ ListenerInv => CloseIsOrderly
  <2> SUFFICES ASSUME HttpInv, IoInv, ListenerInv PROVE CloseIsOrderly
    OBVIOUS
  <2>1. HttpClient!OneExchange
    <3>1. HttpClient!Cardinality(Exchanges) <= 1
      BY CountsAtMostOne DEF HttpInv
    <3>2. httpCloser \in {"deleting", "done"} => Exchanges = {}
      BY DEF HttpInv
    <3> QED
      BY <3>1, <3>2 DEF HttpClient!OneExchange, Exchanges
  <2>2. Listener!CloseMissesNoConnection
    BY DEF ListenerInv, Listener!TypeOK, ConnectionsKnown, ClosePartsDone, Serving, Listener!CloseMissesNoConnection
  <2> QED
    BY <2>1, <2>2 DEF CloseIsOrderly, HttpInv, IoInv
<1> QED
  BY <1>1, Invariance, PTL DEF IInv

\* next_message_or_closed, run_read and read_on_strand: a read of these transports
\* sleeps only while there is nothing for it and its wakeup is still to come, and it is
\* where that wakeup looks for it.
THEOREM NoReadIsForgotten == Spec => []ReadsAwake
<1>1. IInv => ReadsAwake
  <2> SUFFICES ASSUME IInv PROVE ReadsAwake
    OBVIOUS
  <2>1. Memory!SleepersInLine
    BY DEF IInv, MemoryInv, ReadsInLine, InLine, Memory!SleepersInLine, Memory!Contains
  <2>2. Memory!NothingLost
    BY NothingKept DEF IInv
  <2> QED
    BY <2>1, <2>2 DEF IInv, MemoryInv, HttpInv, IoInv, ReadsAwake
<1> QED
  BY <1>1, Invariance, PTL
=============================================================================

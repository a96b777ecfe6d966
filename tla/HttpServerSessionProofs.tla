------------------------- MODULE HttpServerSessionProofs -------------------------
(***************************************************************************)
(* Theorems about HttpServerSession, for every set of requests,             *)
(* notifications and messages of the Server, and any number of DELETEs.     *)
(*                                                                         *)
(* The inductive invariant ties each accepted lifecycle to an initialize of *)
(* its epoch.  That nothing carries over to the next client is a matter of  *)
(* order: at a DELETE no initialize is under way, so whatever the ended     *)
(* session left in the queue, on the strand or in the writer stays in front *)
(* of the initialize that starts the next one, and until that is written    *)
(* nothing is recorded.                                                     *)
(***************************************************************************)
EXTENDS HttpServerSession, TLAPS

---------------------------------------------------------------------------
\* Sequences

\* What a queue holds, and that it holds no request twice.
Elems(q) == {q[i] : i \in 1..Len(q)}
OnceIn(q) == \A i, j \in 1..Len(q) : q[i] = q[j] /\ q[i] \in Posts => i = j

LEMMA AppendSeq ==
  ASSUME NEW S, NEW s \in Seq(S), NEW e \in S
  PROVE  /\ Append(s, e) \in Seq(S) /\ Len(Append(s, e)) = Len(s) + 1
         /\ \A i \in 1..Len(s) : Append(s, e)[i] = s[i]
         /\ Append(s, e)[Len(s) + 1] = e
  OBVIOUS

LEMMA TailSeq ==
  ASSUME NEW S, NEW s \in Seq(S), s # <<>>
  PROVE  /\ Head(s) \in S /\ Tail(s) \in Seq(S) /\ Len(s) > 0 /\ Len(Tail(s)) = Len(s) - 1
         /\ \A i \in 1..Len(s) - 1 : Tail(s)[i] = s[i + 1]
         /\ Head(s) = s[1]
  OBVIOUS

LEMMA ElemsIn == ASSUME NEW S, NEW q \in Seq(S) PROVE Elems(q) \subseteq S
  BY DEF Elems

\* A message that comes to the end of a queue, and one that leaves its front.
LEMMA QueueAppend ==
  ASSUME NEW S, NEW q \in Seq(S), NEW e \in S
  PROVE  /\ Elems(Append(q, e)) = Elems(q) \cup {e}
         /\ OnceIn(q) /\ (e \in Posts => e \notin Elems(q)) => OnceIn(Append(q, e))
<1> DEFINE new == Append(q, e)
<1>1. /\ Len(new) = Len(q) + 1 /\ new[Len(q) + 1] = e
      /\ \A i \in 1..Len(q) : new[i] = q[i]
  BY AppendSeq
<1>2. Len(q) \in Nat /\ 1..Len(q) + 1 = 1..Len(q) \cup {Len(q) + 1}
  OBVIOUS
<1> HIDE DEF new
<1>3. Elems(new) = Elems(q) \cup {e}
  BY <1>1, <1>2 DEF Elems
<1>4. ASSUME OnceIn(q), e \in Posts => e \notin Elems(q) PROVE OnceIn(new)
  <2> SUFFICES ASSUME NEW i \in 1..Len(q) + 1, NEW j \in 1..Len(q) + 1, new[i] = new[j], new[i] \in Posts
               PROVE  i = j
    BY <1>1 DEF OnceIn
  <2>1. CASE i \in 1..Len(q) /\ j \in 1..Len(q)
    BY <1>1, <1>4, <2>1 DEF OnceIn
  <2>2. CASE i = Len(q) + 1 \/ j = Len(q) + 1
    BY <1>1, <1>2, <1>4, <2>2 DEF Elems
  <2> QED
    BY <1>2, <2>1, <2>2
<1> QED
  BY <1>3, <1>4 DEF new

LEMMA QueueTail ==
  ASSUME NEW S, NEW q \in Seq(S), q # <<>>
  PROVE  /\ Head(q) \in Elems(q) /\ Elems(Tail(q)) \subseteq Elems(q)
         /\ OnceIn(q) => /\ OnceIn(Tail(q))
                         /\ Head(q) \in Elems(Tail(q)) => Head(q) \notin Posts
<1> DEFINE new == Tail(q)
<1>1. /\ Len(q) \in Nat \ {0} /\ Len(new) = Len(q) - 1 /\ Head(q) = q[1]
      /\ \A i \in 1..Len(q) - 1 : new[i] = q[i + 1] /\ i + 1 \in 1..Len(q) /\ i + 1 # 1
      /\ \A i, j \in 1..Len(q) - 1 : i + 1 = j + 1 => i = j
  BY TailSeq
<1> HIDE DEF new
<1>2. Head(q) \in Elems(q) /\ Elems(new) \subseteq Elems(q)
  BY <1>1 DEF Elems
<1>3. ASSUME OnceIn(q) PROVE OnceIn(new)
  BY <1>1, <1>3 DEF OnceIn
<1>4. ASSUME OnceIn(q), Head(q) \in Elems(new) PROVE Head(q) \notin Posts
  BY <1>1, <1>4 DEF OnceIn, Elems
<1> QED
  BY <1>2, <1>3, <1>4 DEF new

LEMMA NothingThere == Elems(<<>>) = {} /\ OnceIn(<<>>)
  BY DEF Elems, OnceIn

---------------------------------------------------------------------------
\* The inductive invariant

\* A POST on its way through the Server, and one that holds the strand.
Way == {"queued", "admitted", "computed", "handling", "writing"}
Strand == {"admitted", "computed"}

Https == {"idle", "waiting", "ready", "ended", "done"}
Jobs == {"none", "queued", "admitted", "computed", "handling", "writing", "over"}
Lifecycles == {"uninitialized", "awaiting", "ready"}
Outcomes == {"none", "answered", "ended", "closed"}

\* TypeOK, its sets named.
Typed ==
    /\ active \in BOOLEAN /\ known \in BOOLEAN /\ awaitingNext \in BOOLEAN /\ closed \in BOOLEAN
    /\ terminated \in 0..MaxDeletes /\ initEpoch \in 0..MaxDeletes
    /\ queue \in Seq(Posts \cup Notes) /\ outbox \in Seq(Posts \cup Tellings)
    /\ http \in [Posts \cup Notes -> Https]
    /\ body \in [Posts -> Posts \cup {NoPost}]
    /\ events \in SUBSET (Posts \cup Tellings) /\ initResult \in SUBSET Posts /\ cancelled \in SUBSET Posts
    /\ lifecycle \in Lifecycles /\ job \in [Posts -> Jobs]
    /\ epoch \in [Posts -> 0..MaxDeletes] /\ began \in [Posts -> 0..MaxDeletes]
    /\ subscription \in Posts \cup {NoPost} /\ logLevel \in Posts \cup {NoPost}
    /\ cause \in [Tellings -> Posts \cup {NoPost}]
    /\ origin \in [Posts -> 0..MaxSessions]
    /\ inFlight \in [Ids -> Posts \cup {NoPost}]
    /\ outcome \in [Posts -> Outcomes]

\* A POST leaves nothing behind before it is sent; entries have keys of their own; one
\* dispatch holds the strand.
PostsShape ==
    /\ \A p \in Posts : /\ http[p] = "idle" => job[p] = "none"
                        /\ outcome[p] = "none" <=> http[p] # "done"
    /\ \A p, q \in Registered : SameKey(p, q) => p = q
    /\ \A p, q \in Posts : job[p] \in Strand /\ job[q] \in Strand => p = q

\* A request is at most once in the queue and in the writer.
LineShape ==
    /\ OnceIn(queue) /\ \A p \in Elems(queue) \cap Posts : job[p] = "queued"
    /\ OnceIn(outbox) /\ \A p \in Elems(outbox) \cap Posts : job[p] = "writing"

\* A lifecycle that left "uninitialized" was left by an initialize of its epoch, and so
\* was that of any request admitted.
Accepted ==
    /\ initEpoch <= terminated /\ \A p \in Posts : epoch[p] <= terminated
    /\ \A q \in initResult : q.kind = "initialize" /\ job[q] \notin {"none", "queued"}
    /\ lifecycle # "uninitialized" => \E q \in initResult : epoch[q] = initEpoch
    /\ \A p \in Posts : job[p] \in {"admitted", "handling"} =>
          /\ lifecycle # "uninitialized"
          /\ \E q \in initResult : epoch[q] = epoch[p]

\* Until a first session ends, a request under way has its entry, and it waits.
FirstSession ==
    terminated = 0 =>
        /\ ~closed => \A p \in Posts : job[p] \in Way => http[p] = "waiting"
        /\ \A p \in Posts : body[p] \in {NoPost, p}

IInv == Typed /\ PostsShape /\ LineShape /\ Accepted /\ FirstSession

LEMMA NamedTypes == Typed => TypeOK
  BY DEF Typed, TypeOK, Https, Jobs, Lifecycles, Outcomes

\* The names of places and results.
LEMMA Names ==
    /\ "idle" \in Https /\ "waiting" \in Https /\ "ready" \in Https /\ "ended" \in Https
    /\ "done" \in Https
    /\ "none" \in Jobs /\ "queued" \in Jobs /\ "admitted" \in Jobs /\ "computed" \in Jobs
    /\ "handling" \in Jobs /\ "writing" \in Jobs /\ "over" \in Jobs
    /\ "uninitialized" \in Lifecycles /\ "awaiting" \in Lifecycles /\ "ready" \in Lifecycles
    /\ "none" \in Outcomes /\ "answered" \in Outcomes /\ "ended" \in Outcomes /\ "closed" \in Outcomes
  BY DEF Https, Jobs, Lifecycles, Outcomes

LEMMA Start == Init => IInv
<1> SUFFICES ASSUME Init PROVE IInv
  OBVIOUS
<1> USE DEF Init
<1>1. Typed
  <2>1. /\ \A p \in Posts : 0 \in 0..MaxSessions
        /\ 0 \in 0..MaxDeletes /\ <<>> \in Seq(Posts \cup Notes) /\ <<>> \in Seq(Posts \cup Tellings)
    BY BoundAssumption DEF MaxSessions
  <2> QED
    BY <2>1, Names DEF Typed
<1>2. PostsShape /\ FirstSession
  BY DEF PostsShape, FirstSession, Registered, Strand, Way
<1>3. LineShape
  BY NothingThere DEF LineShape
<1>4. Accepted
  BY DEF Accepted
<1> QED
  BY <1>1, <1>2, <1>3, <1>4 DEF IInv

---------------------------------------------------------------------------
\* The queue and the writer

\* A request that is dispatched was queued, once, and the strand was free.
LEMMA Dispatches ==
  ASSUME Typed, LineShape, NEW p \in Posts, DispatchRequest(p)
  PROVE  /\ job[p] = "queued" /\ \A q \in Posts : job[q] \notin Strand
         /\ p \in Elems(queue) /\ Elems(queue') \subseteq Elems(queue) \ {p} /\ OnceIn(queue')
         /\ \E j \in Strand : /\ job' = [job EXCEPT ![p] = j]
                              /\ j = "admitted" => /\ SessionState = "ready"
                                                   /\ p.kind \notin {"initialize", "discover"}
<1>1. /\ queue \in Seq(Posts \cup Notes) /\ queue # <<>> /\ Head(queue) = p /\ queue' = Tail(queue)
      /\ OnceIn(queue) /\ StrandFree
  BY DEF Typed, LineShape, DispatchRequest
<1>2. p \in Elems(queue) /\ Elems(queue') \subseteq Elems(queue) /\ OnceIn(queue') /\ p \notin Elems(queue')
  BY <1>1, QueueTail
<1>3. job[p] = "queued" /\ \A q \in Posts : job[q] \notin Strand
  BY <1>1, <1>2 DEF LineShape, StrandFree, Strand
<1>4. \E j \in Strand : /\ job' = [job EXCEPT ![p] = j]
                        /\ j = "admitted" => /\ SessionState = "ready"
                                             /\ p.kind \notin {"initialize", "discover"}
  <2>1. CASE DispatchInitialize(p) \/ DispatchDiscover(p)
    BY <2>1 DEF DispatchInitialize, DispatchDiscover, Strand
  <2>2. CASE DispatchOther(p) /\ SessionState = "ready"
    BY <2>2 DEF DispatchOther, Strand
  <2>3. CASE DispatchOther(p) /\ SessionState # "ready"
    BY <2>3 DEF DispatchOther, Strand
  <2> QED
    BY <2>1, <2>2, <2>3 DEF DispatchRequest
<1> QED
  BY <1>2, <1>3, <1>4

LEMMA NotesLeave ==
  ASSUME Typed, LineShape, NEW m \in Notes, DispatchNote(m)
  PROVE  Elems(queue') \subseteq Elems(queue) /\ OnceIn(queue')
<1>1. queue \in Seq(Posts \cup Notes) /\ queue # <<>> /\ queue' = Tail(queue) /\ OnceIn(queue)
  BY DEF Typed, LineShape, DispatchNote
<1> QED
  BY <1>1, QueueTail

\* An answer that is written was with the writer, once.
LEMMA Writes ==
  ASSUME Typed, LineShape, NEW p \in Posts, RunWrite(p)
  PROVE  /\ job[p] = "writing" /\ job' = [job EXCEPT ![p] = "over"]
         /\ p \in Elems(outbox) /\ Elems(outbox') \subseteq Elems(outbox) \ {p} /\ OnceIn(outbox')
<1>1. /\ outbox \in Seq(Posts \cup Tellings) /\ outbox # <<>> /\ Head(outbox) = p
      /\ outbox' = Tail(outbox) /\ OnceIn(outbox) /\ job' = [job EXCEPT ![p] = "over"]
  BY DEF Typed, LineShape, RunWrite
<1>2. p \in Elems(outbox) /\ Elems(outbox') \subseteq Elems(outbox) /\ OnceIn(outbox') /\ p \notin Elems(outbox')
  BY <1>1, QueueTail
<1> QED
  BY <1>1, <1>2 DEF LineShape

LEMMA TellingsLeave ==
  ASSUME Typed, LineShape, NEW t \in Tellings, RunTelling(t)
  PROVE  Elems(outbox') \subseteq Elems(outbox) /\ OnceIn(outbox')
<1>1. outbox \in Seq(Posts \cup Tellings) /\ outbox # <<>> /\ outbox' = Tail(outbox) /\ OnceIn(outbox)
  BY DEF Typed, LineShape, RunTelling
<1> QED
  BY <1>1, QueueTail

---------------------------------------------------------------------------
\* The steps, for each part of the invariant

\* POSTs.
LEMMA PostsKept ==
  ASSUME Typed, LineShape, PostsShape, Next PROVE PostsShape'
<1> USE DEF serverVars, handlerVars, PostsShape, Registered, SameKey
<1>t. /\ http \in [Posts \cup Notes -> Https] /\ job \in [Posts -> Jobs] /\ outcome \in [Posts -> Outcomes]
      /\ body \in [Posts -> Posts \cup {NoPost}] /\ lifecycle \in Lifecycles
      /\ terminated \in Nat /\ initEpoch \in Nat /\ epoch \in [Posts -> Nat]
      /\ initResult \subseteq Posts /\ Posts \cap Notes = {} /\ NoPost \notin Posts
  BY PostAssumption, BoundAssumption DEF Typed
<1>j. ASSUME NEW p \in Posts, NEW j \in Jobs, job' = [job EXCEPT ![p] = j], job[p] # "none",
             j \in Strand => (job[p] \in Strand \/ \A q \in Posts : job[q] \notin Strand),
             UNCHANGED <<http, outcome>>
      PROVE  PostsShape'
  <2>1. job'[p] = j /\ \A q \in Posts \ {p} : job'[q] = job[q]
    BY <1>t, <1>j
  <2>2. \A q, r \in Posts : job'[q] \in Strand /\ job'[r] \in Strand => q = r
    BY <1>j, <2>1
  <2> QED
    BY <1>j, <2>1, <2>2
<1>1. CASE Delete
  BY <1>1, <1>t DEF Delete, EndedByDelete, HistoryCleared
<1>2. CASE Close
  BY <1>2, <1>t DEF Close
<1>3. ASSUME NEW p \in Posts, PostRequest(p) PROVE PostsShape'
  <2>1. /\ http[p] = "idle" /\ http' = [http EXCEPT ![p] = "waiting"] /\ job' = [job EXCEPT ![p] = "queued"]
        /\ \A q \in Registered : ~ SameKey(p, q)
        /\ UNCHANGED outcome
    BY <1>3 DEF PostRequest
  <2>2. /\ http'[p] = "waiting" /\ job'[p] = "queued" /\ outcome[p] = "none"
        /\ \A q \in Posts \ {p} : http'[q] = http[q] /\ job'[q] = job[q]
    BY <1>t, <2>1
  <2>3. \A q, r \in Posts : job'[q] \in Strand /\ job'[r] \in Strand => q = r
    BY <2>2 DEF Strand
  <2>4. \A q, r \in Registered' : SameKey(q, r) => q = r
    BY <2>1, <2>2
  <2> QED
    BY <2>1, <2>2, <2>3, <2>4
<1>4. ASSUME NEW p \in Posts, Respond(p) PROVE PostsShape'
  BY <1>4, <1>t DEF Respond
<1>5. ASSUME NEW p \in Posts, DispatchRequest(p) PROVE PostsShape'
  <2>1. \E j \in Strand : job' = [job EXCEPT ![p] = j]
    BY <1>5, Dispatches
  <2>2. job[p] = "queued" /\ \A q \in Posts : job[q] \notin Strand
    BY <1>5, Dispatches
  <2>3. UNCHANGED <<http, outcome>>
    BY <1>5 DEF DispatchRequest
  <2> QED
    BY <1>j, <2>1, <2>2, <2>3, Names DEF Strand
<1>6. ASSUME NEW p \in Posts, Begin(p) PROVE PostsShape'
  <2>1. /\ job[p] = "admitted" /\ UNCHANGED <<http, outcome>>
        /\ job' = [job EXCEPT ![p] = IF p.kind = "call" THEN "handling" ELSE "computed"]
    BY <1>6 DEF Begin
  <2> QED
    BY <1>j, <2>1, Names DEF Strand
<1>7. ASSUME NEW p \in Posts, Finish(p) PROVE PostsShape'
  <2>1. /\ job[p] \in {"computed", "handling"} /\ UNCHANGED <<http, outcome>>
        /\ \E j \in {"writing", "over"} : job' = [job EXCEPT ![p] = j]
    BY <1>7 DEF Finish
  <2> QED
    BY <1>j, <2>1, Names DEF Strand
<1>8. ASSUME NEW p \in Posts, RunWrite(p) PROVE PostsShape'
  <2>1. job[p] = "writing" /\ job' = [job EXCEPT ![p] = "over"]
    BY <1>8, Writes
  <2>2. job'[p] = "over" /\ \A q \in Posts \ {p} : job'[q] = job[q]
    BY <1>t, <2>1
  <2>3. UNCHANGED outcome /\ \A q \in Posts : http'[q] = http[q] \/ (q \in Registered /\ http'[q] = "ready")
    BY <1>8, <1>t DEF RunWrite
  <2>4. \A q, r \in Posts : job'[q] \in Strand /\ job'[r] \in Strand => q = r
    BY <2>2 DEF Strand
  <2>5. \A q, r \in Registered' : SameKey(q, r) => q = r
    BY <2>3
  <2> QED
    BY <2>1, <2>2, <2>3, <2>4, <2>5
<1>9. ASSUME NEW m \in Notes, PostNote(m) PROVE PostsShape'
  BY <1>9, <1>t DEF PostNote
<1>10. ASSUME NEW m \in Notes, DispatchNote(m) PROVE PostsShape'
  <2>1. CASE m.kind = "initialized"
    BY <1>10, <2>1, <1>t DEF DispatchNote
  <2>2. CASE m.kind # "initialized"
    BY <1>10, <2>2, <1>t DEF DispatchNote
  <2> QED
    BY <2>1, <2>2
<1>11. ASSUME NEW t \in Tellings, Report(t) PROVE PostsShape'
  BY <1>11, <1>t DEF Report, ConcernsSession, Send
<1>12. ASSUME NEW t \in Tellings, Update(t) PROVE PostsShape'
  <2>1. CASE ConcernsSession(subscription)
    BY <1>12, <2>1, <1>t DEF Update, ConcernsSession, Send
  <2>2. CASE ~ ConcernsSession(subscription)
    BY <1>12, <2>2, <1>t DEF Update, ConcernsSession, Send
  <2> QED
    BY <2>1, <2>2
<1>13. ASSUME NEW t \in Tellings, RunTelling(t) PROVE PostsShape'
  BY <1>13, <1>t DEF RunTelling
<1> QED
  BY <1>1, <1>2, <1>3, <1>4, <1>5, <1>6, <1>7, <1>8, <1>9, <1>10, <1>11, <1>12, <1>13 DEF Next


\* The queue and the writer.
LEMMA LineKept ==
  ASSUME Typed, PostsShape, LineShape, Next PROVE LineShape'
<1> USE DEF serverVars, handlerVars, LineShape
<1>t. /\ http \in [Posts \cup Notes -> Https] /\ job \in [Posts -> Jobs] /\ outcome \in [Posts -> Outcomes]
      /\ body \in [Posts -> Posts \cup {NoPost}] /\ lifecycle \in Lifecycles
      /\ terminated \in Nat /\ initEpoch \in Nat /\ epoch \in [Posts -> Nat]
      /\ initResult \subseteq Posts /\ Posts \cap Notes = {} /\ NoPost \notin Posts
      /\ Posts \cap Tellings = {}
  BY PostAssumption, BoundAssumption DEF Typed
<1>s. ASSUME NEW t \in Tellings
      PROVE  Elems(Append(outbox, t)) = Elems(outbox) \cup {t} /\ OnceIn(Append(outbox, t))
  <2>1. outbox \in Seq(Posts \cup Tellings) /\ t \notin Posts
    BY <1>t DEF Typed
  <2> QED
    BY <2>1, QueueAppend
<1>1. CASE Delete
  BY <1>1, <1>t DEF Delete, EndedByDelete, HistoryCleared
<1>2. CASE Close
  BY <1>2, <1>t DEF Close
<1>3. ASSUME NEW p \in Posts, PostRequest(p) PROVE LineShape'
  <2>1. /\ http[p] = "idle" /\ job' = [job EXCEPT ![p] = "queued"] /\ queue' = Append(queue, p)
        /\ UNCHANGED outbox
    BY <1>3 DEF PostRequest
  <2>2. job[p] = "none" /\ p \notin Elems(queue) /\ p \notin Elems(outbox)
    BY <2>1 DEF PostsShape
  <2>3. queue \in Seq(Posts \cup Notes)
    BY DEF Typed
  <2>4. Elems(queue') = Elems(queue) \cup {p} /\ OnceIn(queue')
    BY <2>1, <2>2, <2>3, QueueAppend
  <2> QED
    BY <1>t, <2>1, <2>2, <2>4
<1>4. ASSUME NEW p \in Posts, Respond(p) PROVE LineShape'
  BY <1>4, <1>t DEF Respond
<1>5. ASSUME NEW p \in Posts, DispatchRequest(p) PROVE LineShape'
  <2>1. Elems(queue') \subseteq Elems(queue) \ {p} /\ OnceIn(queue') /\ job[p] = "queued"
    BY <1>5, Dispatches
  <2>0. \E j \in Strand : job' = [job EXCEPT ![p] = j]
    BY <1>5, Dispatches
  <2>2. UNCHANGED outbox /\ \A q \in Posts \ {p} : job'[q] = job[q]
    BY <1>5, <1>t, <2>0 DEF DispatchRequest
  <2>3. p \notin Elems(outbox)
    BY <2>1
  <2> QED
    BY <2>1, <2>2, <2>3
<1>6. ASSUME NEW p \in Posts, Begin(p) PROVE LineShape'
  <2>1. job[p] = "admitted" /\ UNCHANGED <<queue, outbox>> /\ \A q \in Posts \ {p} : job'[q] = job[q]
    BY <1>6, <1>t DEF Begin
  <2>2. p \notin Elems(queue) /\ p \notin Elems(outbox)
    BY <2>1
  <2> QED
    BY <2>1, <2>2
<1>7. ASSUME NEW p \in Posts, Finish(p) PROVE LineShape'
  <2>1. /\ job[p] \in {"computed", "handling"} /\ UNCHANGED queue
        /\ \A q \in Posts \ {p} : job'[q] = job[q]
        /\ (outbox' = Append(outbox, p) /\ job'[p] = "writing") \/ UNCHANGED outbox
    BY <1>7, <1>t DEF Finish
  <2>2. p \notin Elems(queue) /\ p \notin Elems(outbox)
    BY <2>1
  <2>3. ASSUME outbox' = Append(outbox, p) PROVE Elems(outbox') = Elems(outbox) \cup {p} /\ OnceIn(outbox')
    <3>1. outbox \in Seq(Posts \cup Tellings)
      BY DEF Typed
    <3> QED
      BY <2>2, <2>3, <3>1, QueueAppend
  <2> QED
    BY <2>1, <2>2, <2>3
<1>8. ASSUME NEW p \in Posts, RunWrite(p) PROVE LineShape'
  <2>1. Elems(outbox') \subseteq Elems(outbox) \ {p} /\ OnceIn(outbox') /\ job[p] = "writing"
    BY <1>8, Writes
  <2>2. UNCHANGED queue /\ \A q \in Posts \ {p} : job'[q] = job[q]
    BY <1>8, <1>t DEF RunWrite
  <2>3. p \notin Elems(queue)
    BY <2>1
  <2> QED
    BY <2>1, <2>2, <2>3
<1>9. ASSUME NEW m \in Notes, PostNote(m) PROVE LineShape'
  <2>1. queue' = Append(queue, m) /\ UNCHANGED <<outbox, job>>
    BY <1>9 DEF PostNote
  <2>2. queue \in Seq(Posts \cup Notes)
    BY DEF Typed
  <2>3. Elems(queue') = Elems(queue) \cup {m} /\ OnceIn(queue')
    BY <1>t, <2>1, <2>2, QueueAppend
  <2> QED
    BY <1>t, <2>1, <2>3
<1>10. ASSUME NEW m \in Notes, DispatchNote(m) PROVE LineShape'
  <2>1. Elems(queue') \subseteq Elems(queue) /\ OnceIn(queue')
    BY <1>10, NotesLeave
  <2>2. UNCHANGED <<outbox, job>>
    BY <1>10 DEF DispatchNote
  <2> QED
    BY <2>1, <2>2
<1>11. ASSUME NEW t \in Tellings, Report(t) PROVE LineShape'
  <2>1. outbox' = Append(outbox, t) /\ UNCHANGED <<queue, job>>
    BY <1>11 DEF Report, Send
  <2> QED
    BY <1>t, <1>s, <2>1
<1>12. ASSUME NEW t \in Tellings, Update(t) PROVE LineShape'
  <2>1. (outbox' = Append(outbox, t) \/ UNCHANGED outbox) /\ UNCHANGED <<queue, job>>
    BY <1>12 DEF Update, Send
  <2>2. CASE outbox' = Append(outbox, t)
    BY <1>t, <1>s, <2>1, <2>2
  <2>3. CASE UNCHANGED outbox
    BY <2>1, <2>3
  <2> QED
    BY <2>1, <2>2, <2>3
<1>13. ASSUME NEW t \in Tellings, RunTelling(t) PROVE LineShape'
  <2>1. Elems(outbox') \subseteq Elems(outbox) /\ OnceIn(outbox')
    BY <1>13, TellingsLeave
  <2>2. UNCHANGED <<queue, job>>
    BY <1>13 DEF RunTelling
  <2> QED
    BY <2>1, <2>2
<1> QED
  BY <1>1, <1>2, <1>3, <1>4, <1>5, <1>6, <1>7, <1>8, <1>9, <1>10, <1>11, <1>12, <1>13 DEF Next


\* Values.
LEMMA TypesKept ==
  ASSUME Typed, LineShape, Next PROVE Typed'
<1> USE DEF serverVars, handlerVars
<1>t. Typed
  OBVIOUS
<1>k. /\ http \in [Posts \cup Notes -> Https] /\ job \in [Posts -> Jobs] /\ outcome \in [Posts -> Outcomes]
      /\ queue \in Seq(Posts \cup Notes) /\ outbox \in Seq(Posts \cup Tellings)
      /\ body \in [Posts -> Posts \cup {NoPost}] /\ lifecycle \in Lifecycles
      /\ terminated \in 0..MaxDeletes /\ epoch \in [Posts -> 0..MaxDeletes] /\ began \in [Posts -> 0..MaxDeletes]
      /\ origin \in [Posts -> 0..MaxSessions] /\ inFlight \in [Ids -> Posts \cup {NoPost}]
      /\ events \in SUBSET (Posts \cup Tellings) /\ initResult \in SUBSET Posts /\ cancelled \in SUBSET Posts
      /\ subscription \in Posts \cup {NoPost} /\ logLevel \in Posts \cup {NoPost}
      /\ cause \in [Tellings -> Posts \cup {NoPost}] /\ MaxDeletes \in Nat /\ active \in BOOLEAN
  BY BoundAssumption DEF Typed
<1>a. \A x \in Posts \cup Tellings : Append(outbox, x) \in Seq(Posts \cup Tellings)
  BY <1>k
<1>1. CASE Delete
  <2>1. http' \in [Posts \cup Notes -> Https]
    BY <1>1, <1>k, Names DEF Delete
  <2>2. terminated' \in 0..MaxDeletes
    BY <1>1, <1>k, Names DEF Delete
  <2>3. events' \in SUBSET (Posts \cup Tellings)
    BY <1>1, <1>k, Names DEF Delete, HistoryCleared
  <2> QED
    BY <1>1, <2>1, <2>2, <2>3 DEF Typed, Delete
<1>2. CASE Close
  BY <1>2, Names DEF Close, Typed
<1>3. ASSUME NEW p \in Posts, PostRequest(p) PROVE Typed'
  <2>1. http' \in [Posts \cup Notes -> Https]
    BY <1>3, <1>k, Names DEF PostRequest
  <2>2. job' \in [Posts -> Jobs]
    BY <1>3, <1>k, Names DEF PostRequest
  <2>3. queue' \in Seq(Posts \cup Notes)
    BY <1>3, <1>k, Names DEF PostRequest
  <2>4. 0 \in 0..MaxSessions /\ Session \in 0..MaxSessions
    BY <1>3, <1>k, Names DEF Session, MaxSessions
  <2>5. origin' \in [Posts -> 0..MaxSessions]
    BY <1>3, <1>k, Names, <2>4 DEF PostRequest
  <2> QED
    BY <1>3, <2>1, <2>2, <2>3, <2>4, <2>5 DEF Typed, PostRequest
<1>4. ASSUME NEW p \in Posts, Respond(p) PROVE Typed'
  <2>1. http' \in [Posts \cup Notes -> Https]
    BY <1>4, <1>k, Names DEF Respond
  <2>2. outcome' \in [Posts -> Outcomes]
    BY <1>4, <1>k, Names DEF Respond
  <2>3. known' \in BOOLEAN
    BY <1>4, <1>k, Names DEF Respond
  <2> QED
    BY <1>4, <2>1, <2>2, <2>3 DEF Typed, Respond
<1>5. ASSUME NEW p \in Posts, DispatchRequest(p) PROVE Typed'
  <2>1. queue' \in Seq(Posts \cup Notes) /\ epoch' \in [Posts -> 0..MaxDeletes]
    BY <1>5, <1>k, TailSeq DEF DispatchRequest
  <2>2. job' \in [Posts -> Jobs]
    <3>1. \E j \in Strand : job' = [job EXCEPT ![p] = j]
      BY <1>5, Dispatches
    <3> QED
      BY <1>k, <3>1, Names DEF Strand
  <2>3. /\ lifecycle' \in Lifecycles /\ initEpoch' \in 0..MaxDeletes /\ initResult' \in SUBSET Posts
        /\ logLevel' \in Posts \cup {NoPost}
    <3>1. DispatchInitialize(p) \/ UNCHANGED <<lifecycle, initEpoch, initResult, logLevel>>
      BY <1>5 DEF DispatchRequest, DispatchDiscover, DispatchOther
    <3>2. CASE UNCHANGED <<lifecycle, initEpoch, initResult, logLevel>>
      BY <3>2 DEF Typed
    <3>3. CASE DispatchInitialize(p) /\ SessionState = "uninitialized"
      BY <1>k, <3>3, Names DEF DispatchInitialize, LevelForSession
    <3>4. CASE DispatchInitialize(p) /\ SessionState # "uninitialized"
      BY <3>4 DEF Typed, DispatchInitialize
    <3> QED
      BY <3>1, <3>2, <3>3, <3>4
  <2> QED
    BY <1>5, <2>1, <2>2, <2>3 DEF Typed, DispatchRequest
<1>6. ASSUME NEW p \in Posts, Begin(p) PROVE Typed'
  <2>1. job' \in [Posts -> Jobs]
    BY <1>6, <1>k, Names DEF Begin
  <2>2. began' \in [Posts -> 0..MaxDeletes]
    BY <1>6, <1>k, Names DEF Begin
  <2>3. inFlight' \in [Ids -> Posts \cup {NoPost}]
    BY <1>6, <1>k, Names DEF Begin
  <2>4. subscription' \in Posts \cup {NoPost}
    BY <1>6, <1>k, Names DEF Begin, SubscriptionAfter
  <2>5. logLevel' \in Posts \cup {NoPost}
    BY <1>6, <1>k, Names DEF Begin, LevelAfter
  <2> QED
    BY <1>6, <2>1, <2>2, <2>3, <2>4, <2>5 DEF Typed, Begin
<1>7. ASSUME NEW p \in Posts, Finish(p) PROVE Typed'
  <2>1. job' \in [Posts -> Jobs]
    BY <1>7, <1>k, Names DEF Finish
  <2>2. outbox' \in {outbox, Append(outbox, p)}
    BY <1>7, <1>k, Names DEF Finish
  <2>3. outbox' \in Seq(Posts \cup Tellings)
    BY <1>a, <2>2
  <2>4. inFlight' \in [Ids -> Posts \cup {NoPost}]
    BY <1>7, <1>k, Names DEF Finish, CallForgotten
  <2> QED
    BY <1>7, <2>1, <2>2, <2>3, <2>4 DEF Typed, Finish
<1>8. ASSUME NEW p \in Posts, RunWrite(p) PROVE Typed'
  <2>1. job' \in [Posts -> Jobs]
    BY <1>8, <1>k, Names DEF RunWrite
  <2>2. outbox' \in Seq(Posts \cup Tellings)
    BY <1>8, <1>k, Names, TailSeq DEF RunWrite
  <2>3. events' \in SUBSET (Posts \cup Tellings)
    BY <1>8, <1>k, Names DEF RunWrite
  <2>4. UNCHANGED <<http, body>> \/ \E q \in Posts : /\ body' = [body EXCEPT ![q] = p]
                                            /\ http' = [http EXCEPT ![q] = IF @ = "ended" THEN @ ELSE "ready"]
    BY <1>8, <1>k, Names DEF RunWrite, Registered
  <2>5. http' \in [Posts \cup Notes -> Https]
    <3>1. ASSUME NEW q \in Posts, http' = [http EXCEPT ![q] = IF @ = "ended" THEN @ ELSE "ready"]
          PROVE  http' \in [Posts \cup Notes -> Https]
      <4>1. (IF http[q] = "ended" THEN http[q] ELSE "ready") \in Https
        BY <1>k, Names
      <4> QED
        BY <1>k, <3>1, <4>1
    <3> QED
      BY <1>k, <2>4, <3>1
  <2>6. body' \in [Posts -> Posts \cup {NoPost}]
    BY <1>k, <2>4
  <2>7. active' \in BOOLEAN /\ awaitingNext' \in BOOLEAN
    BY <1>8, <1>k, Names, <1>t DEF RunWrite, Typed
  <2> QED
    BY <1>8, <2>1, <2>2, <2>3, <2>4, <2>5, <2>6, <2>7 DEF Typed, RunWrite
<1>9. ASSUME NEW m \in Notes, PostNote(m) PROVE Typed'
  <2>1. http' \in [Posts \cup Notes -> Https]
    BY <1>9, <1>k, Names DEF PostNote
  <2>2. queue' \in Seq(Posts \cup Notes)
    BY <1>9, <1>k, Names DEF PostNote
  <2> QED
    BY <1>9, <2>1, <2>2 DEF Typed, PostNote
<1>10. ASSUME NEW m \in Notes, DispatchNote(m) PROVE Typed'
  <2>1. queue' \in Seq(Posts \cup Notes)
    BY <1>10, <1>k, Names, TailSeq DEF DispatchNote
  <2>2. lifecycle' \in Lifecycles
    BY <1>10, <1>k, Names DEF DispatchNote
  <2>3. cancelled' \in SUBSET Posts
    BY <1>10, <1>k, Names DEF DispatchNote
  <2> QED
    BY <1>10, <2>1, <2>2, <2>3 DEF Typed, DispatchNote
<1>11. ASSUME NEW t \in Tellings, Report(t) PROVE Typed'
  <2>1. outbox' \in Seq(Posts \cup Tellings)
    BY <1>11, <1>k, Names DEF Report, Send
  <2>2. cause' \in [Tellings -> Posts \cup {NoPost}]
    BY <1>11, <1>k, Names DEF Report, Send
  <2> QED
    BY <1>11, <2>1, <2>2 DEF Typed, Report, Send
<1>12. ASSUME NEW t \in Tellings, Update(t) PROVE Typed'
  <2>1. outbox' \in {outbox, Append(outbox, t)}
    BY <1>12, <1>k, Names DEF Update, Send
  <2>2. outbox' \in Seq(Posts \cup Tellings)
    BY <1>12, <1>k, Names, <1>a, <2>1 DEF Update
  <2>3. cause' \in [Tellings -> Posts \cup {NoPost}]
    BY <1>12, <1>k, Names DEF Update, Send
  <2>4. subscription' \in Posts \cup {NoPost}
    BY <1>12, <1>k, Names DEF Update
  <2> QED
    BY <1>12, <2>1, <2>2, <2>3, <2>4 DEF Typed, Update, Send
<1>13. ASSUME NEW t \in Tellings, RunTelling(t) PROVE Typed'
  <2>1. outbox' \in Seq(Posts \cup Tellings)
    BY <1>13, <1>k, Names, TailSeq DEF RunTelling
  <2>2. events' \in SUBSET (Posts \cup Tellings)
    BY <1>13, <1>k, Names DEF RunTelling
  <2> QED
    BY <1>13, <2>1, <2>2 DEF Typed, RunTelling
<1> QED
  BY <1>1, <1>2, <1>3, <1>4, <1>5, <1>6, <1>7, <1>8, <1>9, <1>10, <1>11, <1>12, <1>13 DEF Next


\* Handshakes.
LEMMA AcceptedKept ==
  ASSUME Typed, PostsShape, LineShape, Accepted, Next PROVE Accepted'
<1> USE DEF serverVars, handlerVars, Accepted
<1>t. /\ http \in [Posts \cup Notes -> Https] /\ job \in [Posts -> Jobs] /\ outcome \in [Posts -> Outcomes]
      /\ body \in [Posts -> Posts \cup {NoPost}] /\ lifecycle \in Lifecycles
      /\ terminated \in Nat /\ initEpoch \in Nat /\ epoch \in [Posts -> Nat]
      /\ initResult \subseteq Posts /\ Posts \cap Notes = {} /\ NoPost \notin Posts
  BY PostAssumption, BoundAssumption DEF Typed
<1>f. ASSUME UNCHANGED <<lifecycle, initEpoch, initResult, epoch>>, terminated' = terminated,
             NEW p \in Posts, job[p] \in Way,
             \A q \in Posts \ {p} : job'[q] = job[q],
             job'[p] \notin {"none", "queued"},
             job'[p] \in {"admitted", "handling"} => job[p] = "admitted"
      PROVE  Accepted'
  BY <1>t, <1>f DEF Way
<1>1. CASE Delete
  <2>1. terminated' = terminated + 1 /\ UNCHANGED <<lifecycle, initEpoch, initResult, epoch, job>>
    BY <1>1 DEF Delete
  <2>2. initEpoch <= terminated' /\ \A p \in Posts : epoch[p] <= terminated'
    BY <1>t, <2>1
  <2> QED
    BY <2>1, <2>2
<1>2. CASE Close
  BY <1>2, <1>t DEF Close
<1>3. ASSUME NEW p \in Posts, PostRequest(p) PROVE Accepted'
  <2>1. http[p] = "idle" /\ job' = [job EXCEPT ![p] = "queued"] /\ UNCHANGED <<lifecycle, initEpoch, initResult, epoch, terminated>>
    BY <1>3 DEF PostRequest
  <2>2. job[p] = "none" /\ p \notin initResult /\ job'[p] = "queued" /\ \A q \in Posts \ {p} : job'[q] = job[q]
    BY <1>t, <2>1 DEF PostsShape
  <2> QED
    BY <2>1, <2>2
<1>4. ASSUME NEW p \in Posts, Respond(p) PROVE Accepted'
  BY <1>4, <1>t DEF Respond
<1>5. ASSUME NEW p \in Posts, DispatchRequest(p) PROVE Accepted'
  <2>1. /\ epoch' = [epoch EXCEPT ![p] = terminated] /\ UNCHANGED terminated
        /\ DispatchInitialize(p) \/ UNCHANGED <<lifecycle, initEpoch, initResult>>
    BY <1>5 DEF DispatchRequest, DispatchDiscover, DispatchOther
  <2>2. PICK j \in Strand : /\ job' = [job EXCEPT ![p] = j]
                            /\ j = "admitted" => /\ SessionState = "ready"
                                                 /\ p.kind \notin {"initialize", "discover"}
    BY <1>5, Dispatches
  <2>3. job[p] = "queued" /\ p \notin initResult
    BY <1>5, Dispatches
  <2>4. /\ epoch'[p] = terminated /\ job'[p] = j /\ j \notin {"none", "queued", "handling"}
        /\ \A q \in Posts \ {p} : epoch'[q] = epoch[q] /\ job'[q] = job[q]
    BY <1>t, <2>1, <2>2 DEF Strand
  <2>5. \A q \in Posts : epoch'[q] <= terminated
    BY <1>t, <2>4
  <2>6. \A q \in initResult : epoch'[q] = epoch[q] /\ job'[q] = job[q]
    BY <1>t, <2>3, <2>4
  <2>7. CASE UNCHANGED <<lifecycle, initEpoch, initResult>>
    <3>1. lifecycle # "uninitialized" => \E q \in initResult : epoch'[q] = initEpoch
      BY <2>6
    <3>2. SessionState = "ready" => initEpoch = terminated /\ lifecycle # "uninitialized"
      BY DEF SessionState
    <3>3. \A q \in Posts \ {p} : job[q] \in {"admitted", "handling"} =>
             lifecycle # "uninitialized" /\ \E r \in initResult : epoch'[r] = epoch'[q]
      BY <2>4, <2>6
    <3> QED
      BY <2>1, <2>2, <2>4, <2>5, <2>6, <2>7, <3>1, <3>2, <3>3
  <2>8. CASE DispatchInitialize(p) /\ SessionState = "uninitialized"
    <3>1. /\ p.kind = "initialize" /\ lifecycle' = "awaiting" /\ initEpoch' = terminated
          /\ initResult' = initResult \cup {p} /\ j # "admitted"
      BY <2>2, <2>8 DEF DispatchInitialize
    <3>2. \A q \in Posts \ {p} : job[q] \in {"admitted", "handling"} => \E r \in initResult : epoch'[r] = epoch'[q]
      BY <2>4, <2>6
    <3> QED
      BY <1>t, <2>1, <2>4, <2>5, <2>6, <3>1, <3>2
  <2>9. CASE DispatchInitialize(p) /\ SessionState # "uninitialized"
    BY <2>7, <2>9 DEF DispatchInitialize
  <2> QED
    BY <2>1, <2>7, <2>8, <2>9
<1>6. ASSUME NEW p \in Posts, Begin(p) PROVE Accepted'
  <2>1. /\ job[p] = "admitted" /\ UNCHANGED <<lifecycle, initEpoch, initResult, epoch, terminated>>
        /\ job' = [job EXCEPT ![p] = IF p.kind = "call" THEN "handling" ELSE "computed"]
    BY <1>6 DEF Begin
  <2>2. job'[p] \in {"handling", "computed"} /\ \A q \in Posts \ {p} : job'[q] = job[q]
    BY <1>t, <2>1
  <2> QED
    BY <1>f, <2>1, <2>2 DEF Way
<1>7. ASSUME NEW p \in Posts, Finish(p) PROVE Accepted'
  <2>1. /\ job[p] \in {"computed", "handling"} /\ UNCHANGED <<lifecycle, initEpoch, initResult, epoch, terminated>>
        /\ \E j \in {"writing", "over"} : job' = [job EXCEPT ![p] = j]
    BY <1>7 DEF Finish
  <2>2. job'[p] \in {"writing", "over"} /\ \A q \in Posts \ {p} : job'[q] = job[q]
    BY <1>t, <2>1
  <2> QED
    BY <1>f, <2>1, <2>2 DEF Way
<1>8. ASSUME NEW p \in Posts, RunWrite(p) PROVE Accepted'
  <2>1. job[p] = "writing" /\ job' = [job EXCEPT ![p] = "over"]
    BY <1>8, Writes
  <2>2. UNCHANGED <<lifecycle, initEpoch, initResult, epoch, terminated>>
    BY <1>8 DEF RunWrite
  <2>3. job'[p] = "over" /\ \A q \in Posts \ {p} : job'[q] = job[q]
    BY <1>t, <2>1
  <2> QED
    BY <1>f, <2>1, <2>2, <2>3 DEF Way
<1>9. ASSUME NEW m \in Notes, PostNote(m) PROVE Accepted'
  BY <1>9, <1>t DEF PostNote
<1>10. ASSUME NEW m \in Notes, DispatchNote(m) PROVE Accepted'
  <2>1. /\ UNCHANGED <<initEpoch, initResult, epoch, terminated, job>>
        /\ lifecycle' = lifecycle \/ (lifecycle = "awaiting" /\ lifecycle' = "ready")
    BY <1>10 DEF DispatchNote
  <2> QED
    BY <2>1
<1>11. ASSUME NEW t \in Tellings, Report(t) PROVE Accepted'
  BY <1>11, <1>t DEF Report, ConcernsSession, Send
<1>12. ASSUME NEW t \in Tellings, Update(t) PROVE Accepted'
  <2>1. CASE ConcernsSession(subscription)
    BY <1>12, <2>1, <1>t DEF Update, ConcernsSession, Send
  <2>2. CASE ~ ConcernsSession(subscription)
    BY <1>12, <2>2, <1>t DEF Update, ConcernsSession, Send
  <2> QED
    BY <2>1, <2>2
<1>13. ASSUME NEW t \in Tellings, RunTelling(t) PROVE Accepted'
  BY <1>13, <1>t DEF RunTelling
<1> QED
  BY <1>1, <1>2, <1>3, <1>4, <1>5, <1>6, <1>7, <1>8, <1>9, <1>10, <1>11, <1>12, <1>13 DEF Next


\* The first session.
LEMMA FirstKept ==
  ASSUME Typed, PostsShape, LineShape, FirstSession, Next PROVE FirstSession'
<1> USE DEF serverVars, handlerVars, FirstSession
<1>t. /\ http \in [Posts \cup Notes -> Https] /\ job \in [Posts -> Jobs] /\ outcome \in [Posts -> Outcomes]
      /\ body \in [Posts -> Posts \cup {NoPost}] /\ lifecycle \in Lifecycles
      /\ terminated \in Nat /\ initEpoch \in Nat /\ epoch \in [Posts -> Nat]
      /\ initResult \subseteq Posts /\ Posts \cap Notes = {} /\ NoPost \notin Posts
  BY PostAssumption, BoundAssumption DEF Typed
<1>f. ASSUME UNCHANGED <<terminated, closed, http, body>>,
             \A p \in Posts : job'[p] \in Way => job[p] \in Way
      PROVE  FirstSession'
  BY <1>f
<1>1. CASE Delete
  <2>1. terminated' # 0
    BY <1>1, <1>t DEF Delete
  <2> QED
    BY <2>1
<1>2. CASE Close
  BY <1>2, <1>t, <1>f DEF Close
<1>3. ASSUME NEW p \in Posts, PostRequest(p) PROVE FirstSession'
  <2>1. /\ http' = [http EXCEPT ![p] = "waiting"] /\ job' = [job EXCEPT ![p] = "queued"]
        /\ UNCHANGED <<terminated, closed, body>>
    BY <1>3 DEF PostRequest
  <2>2. http'[p] = "waiting" /\ \A q \in Posts \ {p} : http'[q] = http[q] /\ job'[q] = job[q]
    BY <1>t, <2>1
  <2> QED
    BY <2>1, <2>2
<1>4. ASSUME NEW p \in Posts, Respond(p) PROVE FirstSession'
  <2>1. closed \/ http[p] # "waiting"
    BY <1>4 DEF Respond
  <2>2. UNCHANGED <<terminated, closed, body, job>> /\ \A q \in Posts \ {p} : http'[q] = http[q]
    BY <1>4, <1>t DEF Respond
  <2> QED
    BY <2>1, <2>2
<1>5. ASSUME NEW p \in Posts, DispatchRequest(p) PROVE FirstSession'
  <2>1. job[p] = "queued" /\ UNCHANGED <<terminated, closed, http, body>>
    BY <1>5, Dispatches DEF DispatchRequest
  <2>2. \E j \in Strand : job' = [job EXCEPT ![p] = j]
    BY <1>5, Dispatches
  <2> QED
    BY <1>t, <1>f, <2>1, <2>2 DEF Way
<1>6. ASSUME NEW p \in Posts, Begin(p) PROVE FirstSession'
  <2>1. job[p] = "admitted" /\ UNCHANGED <<terminated, closed, http, body>> /\ \A q \in Posts \ {p} : job'[q] = job[q]
    BY <1>6, <1>t DEF Begin
  <2> QED
    BY <1>f, <2>1 DEF Way
<1>7. ASSUME NEW p \in Posts, Finish(p) PROVE FirstSession'
  <2>1. /\ job[p] \in {"computed", "handling"} /\ UNCHANGED <<terminated, closed, http, body>>
        /\ \A q \in Posts \ {p} : job'[q] = job[q]
    BY <1>7, <1>t DEF Finish
  <2> QED
    BY <1>f, <2>1 DEF Way
<1>8. ASSUME NEW p \in Posts, RunWrite(p) PROVE FirstSession'
  <2>1. job[p] = "writing" /\ job' = [job EXCEPT ![p] = "over"]
    BY <1>8, Writes
  <2>2. job'[p] = "over" /\ \A q \in Posts \ {p} : job'[q] = job[q]
    BY <1>t, <2>1
  <2>3. UNCHANGED <<terminated, closed>>
    BY <1>8 DEF RunWrite
  <2>4. CASE UNCHANGED <<http, body>>
    BY <2>2, <2>3, <2>4 DEF Way
  <2>5. ASSUME ~ closed, terminated = 0,
               NEW q \in Registered, SameKey(p, q), body' = [body EXCEPT ![q] = p],
               http' = [http EXCEPT ![q] = IF @ = "ended" THEN @ ELSE "ready"]
        PROVE  FirstSession'
    <3>1. http[p] = "waiting" /\ p \in Registered
      BY <2>1, <2>5 DEF Way, Registered
    <3>2. q = p
      BY <2>5, <3>1 DEF PostsShape
    <3>3. body'[p] = p /\ \A r \in Posts \ {p} : body'[r] = body[r] /\ http'[r] = http[r]
      BY <1>t, <2>5, <3>2
    <3> QED
      BY <2>2, <2>3, <3>3 DEF Way
  <2>6. closed \/ (\A q \in Registered : ~ SameKey(p, q)) => UNCHANGED <<http, body>>
    BY <1>8 DEF RunWrite
  <2>7. ~ closed => \/ UNCHANGED <<http, body>>
                    \/ \E q \in Registered : /\ SameKey(p, q) /\ body' = [body EXCEPT ![q] = p]
                                             /\ http' = [http EXCEPT ![q] = IF @ = "ended" THEN @ ELSE "ready"]
    BY <1>8 DEF RunWrite
  <2>8. terminated # 0 => FirstSession'
    BY <2>3
  <2> QED
    BY <2>4, <2>5, <2>6, <2>7, <2>8
<1>9. ASSUME NEW m \in Notes, PostNote(m) PROVE FirstSession'
  BY <1>9, <1>t, <1>f DEF PostNote
<1>10. ASSUME NEW m \in Notes, DispatchNote(m) PROVE FirstSession'
  <2>1. CASE m.kind = "initialized"
    BY <1>10, <2>1, <1>t, <1>f DEF DispatchNote
  <2>2. CASE m.kind # "initialized"
    BY <1>10, <2>2, <1>t, <1>f DEF DispatchNote
  <2> QED
    BY <2>1, <2>2
<1>11. ASSUME NEW t \in Tellings, Report(t) PROVE FirstSession'
  BY <1>11, <1>t, <1>f DEF Report, ConcernsSession, Send
<1>12. ASSUME NEW t \in Tellings, Update(t) PROVE FirstSession'
  <2>1. CASE ConcernsSession(subscription)
    BY <1>12, <2>1, <1>t, <1>f DEF Update, ConcernsSession, Send
  <2>2. CASE ~ ConcernsSession(subscription)
    BY <1>12, <2>2, <1>t, <1>f DEF Update, ConcernsSession, Send
  <2> QED
    BY <2>1, <2>2
<1>13. ASSUME NEW t \in Tellings, RunTelling(t) PROVE FirstSession'
  BY <1>13, <1>t, <1>f DEF RunTelling
<1> QED
  BY <1>1, <1>2, <1>3, <1>4, <1>5, <1>6, <1>7, <1>8, <1>9, <1>10, <1>11, <1>12, <1>13 DEF Next

---------------------------------------------------------------------------
\* What the end of a session leaves

\* The clients know of each other: none sends initialize in a session or next to another
\* initialize, nor under the id of one of its other requests.
OneClientAtATime ==
    /\ ~RacingClients
    /\ \A p, q \in Posts :
          p.kind = "initialize" /\ q.kind \notin {"initialize", "discover"} => p.id # q.id

\* It was sent in a session that is over, or is a discover nobody waits for.
Stale(p) ==
    \/ origin[p] \notin {0, terminated + 1}
    \/ ~closed /\ p.kind = "discover" /\ http[p] # "waiting"

\* The same of a notification: the session it was meant for is over.
StaleNews(t) ==
    cause[t] # NoPost /\ origin[cause[t]] \notin {0, terminated + 1} /\ ~ CutShort(cause[t])

\* An initialize is alone on its way, and nobody holds a session meanwhile.
OneInitialize ==
    /\ \A q \in Posts : q.kind = "initialize" => origin[q] = 0
    /\ ~closed => \A q \in Posts : q.kind = "initialize" /\ job[q] \in Way =>
          /\ ~active /\ http[q] = "waiting"
          /\ \A r \in Posts : r.kind = "initialize" /\ job[r] \in Way => r = q

\* What the Server keeps of a request is of the session it was admitted in.
Keeps(p) ==
    \/ job[p] \in {"admitted", "handling"} \/ subscription = p \/ logLevel = p
    \/ \E t \in Tellings : cause[t] = p
Kept ==
    /\ \A p \in Posts : Keeps(p) => /\ origin[p] \in {0, epoch[p] + 1} /\ job[p] \notin {"none", "queued"}
                                   /\ p.kind \notin {"initialize", "discover"}
    /\ lifecycle = "uninitialized" => logLevel = NoPost
    /\ logLevel # NoPost /\ SessionState # "uninitialized" => began[logLevel] = terminated

\* The history is of the session, or of nobody's.
History ==
    /\ awaitingNext => events = {}
    /\ \A p \in events \cap Posts :
          p.kind # "discover" /\ origin[p] \in {0, terminated + 1} /\ http[p] # "idle"
    /\ \A t \in events \cap Tellings : ~ StaleNews(t) /\ cause[t] # NoPost

\* What is left of sessions that are over.
Past == {p \in Posts : Stale(p)}
OldNews == {t \in Tellings : StaleNews(t)}
Leftover == Past \cup OldNews

\* No initialize is in front of what is left.
InFront(s, left) == \A i, j \in 1..Len(s) : j <= i /\ s[i] \in left => s[j].kind # "initialize"

\* Whatever of an ended session is still in the queue, on the strand or in the writer is
\* in front of the next initialize, and until that is written nothing is recorded.
StaleQueued ==
    /\ InFront(queue, Past)
    /\ Elems(queue) \cap Past # {} =>
        /\ SessionState = "uninitialized"
        /\ ~closed => /\ awaitingNext
                      /\ \A q \in Posts : q.kind = "initialize" => job[q] \notin {"computed", "writing"}
StaleComputed ==
    ~closed => \A p \in Past :
        job[p] \in {"admitted", "computed", "handling"} /\ epoch[p] = terminated =>
            /\ job[p] = "computed" /\ awaitingNext
            /\ \A q \in Posts : q.kind = "initialize" => job[q] # "writing"
StaleWritten ==
    /\ \A t \in Elems(outbox) \cap Tellings : cause[t] # NoPost
    /\ ~closed => /\ InFront(outbox, Leftover)
                  /\ Elems(outbox) \cap Leftover # {} => awaitingNext

CInv ==
    /\ OneInitialize /\ Kept /\ History
    /\ StaleQueued /\ StaleComputed /\ StaleWritten

---------------------------------------------------------------------------
\* Order

LEMMA OrderKept ==
  ASSUME NEW S, NEW q \in Seq(S), NEW r, r = q \/ (q # <<>> /\ r = Tail(q)),
         NEW A, NEW B, Elems(r) \cap B \subseteq A, InFront(q, A)
  PROVE  InFront(r, B)
<1>1. CASE r = q
  BY <1>1 DEF InFront, Elems
<1>2. CASE q # <<>> /\ r = Tail(q)
  <2>1. /\ Len(q) \in Nat \ {0} /\ Len(r) = Len(q) - 1
        /\ \A i \in 1..Len(q) - 1 : r[i] = q[i + 1] /\ i + 1 \in 1..Len(q)
        /\ \A i, j \in 1..Len(q) - 1 : j <= i => j + 1 <= i + 1
    BY <1>2, TailSeq
  <2>2. \A i \in 1..Len(q) - 1 : r[i] \in B => r[i] \in A
    BY <2>1 DEF Elems
  <2> SUFFICES ASSUME NEW i \in 1..Len(r), NEW j \in 1..Len(r), j <= i, r[i] \in B
               PROVE  r[j].kind # "initialize"
    BY DEF InFront
  <2> HIDE <1>2
  <2>3. q[i + 1] \in A /\ j + 1 <= i + 1 /\ i + 1 \in 1..Len(q) /\ j + 1 \in 1..Len(q) /\ r[j] = q[j + 1]
    BY <2>1, <2>2
  <2> QED
    BY <2>3 DEF InFront
<1> QED
  BY <1>1, <1>2

LEMMA OrderAppended ==
  ASSUME NEW S, NEW q \in Seq(S), NEW e \in S, NEW A, NEW B,
         Elems(q) \cap B \subseteq A, InFront(q, A),
         e \in B => \A x \in Elems(q) \cup {e} : x.kind # "initialize"
  PROVE  InFront(Append(q, e), B)
<1> DEFINE r == Append(q, e)
<1>1. /\ Len(q) \in Nat /\ Len(r) = Len(q) + 1 /\ r[Len(q) + 1] = e
      /\ \A i \in 1..Len(q) : r[i] = q[i]
  BY AppendSeq
<1>2. \A i \in 1..Len(q) : r[i] \in B => r[i] \in A
  BY <1>1 DEF Elems
<1>3. Elems(r) = Elems(q) \cup {e}
  BY QueueAppend
<1> HIDE DEF r
<1> SUFFICES ASSUME NEW i \in 1..Len(r), NEW j \in 1..Len(r), j <= i, r[i] \in B
             PROVE  r[j].kind # "initialize"
  BY DEF InFront, r
<1>5. CASE i = Len(q) + 1
  BY <1>1, <1>3, <1>5 DEF Elems
<1>4. CASE i # Len(q) + 1
  <2>1. i \in 1..Len(q) /\ j \in 1..Len(q) /\ r[j] = q[j] /\ q[i] \in A
    BY <1>1, <1>2, <1>4
  <2> QED
    BY <2>1 DEF InFront
<1> QED
  BY <1>4, <1>5

\* What is first in line leaves before an initialize, if anything is left behind it.
LEMMA FirstInLine ==
  ASSUME NEW S, NEW q \in Seq(S), q # <<>>, NEW A, InFront(q, A), Elems(q) \cap A # {}
  PROVE  Head(q).kind # "initialize"
<1>1. PICK i \in 1..Len(q) : q[i] \in A
  BY DEF Elems
<1>2. Len(q) \in Nat \ {0} /\ Head(q) = q[1] /\ 1 \in 1..Len(q) /\ 1 <= i
  BY TailSeq
<1> QED
  BY <1>1, <1>2 DEF InFront

\* In a session no initialize is under way.
LEMMA NoneUnderWay ==
  ASSUME Typed, LineShape, OneInitialize, active, ~closed
  PROVE  /\ \A q \in Posts : q.kind = "initialize" => job[q] \notin Way
         /\ \A x \in Elems(queue) \cup Elems(outbox) : x.kind # "initialize"
<1>1. \A q \in Posts : q.kind = "initialize" => job[q] \notin Way
  BY DEF OneInitialize
<1>2. Elems(queue) \subseteq Posts \cup Notes /\ Elems(outbox) \subseteq Posts \cup Tellings
  BY ElemsIn DEF Typed
<1>3. \A x \in (Elems(queue) \cup Elems(outbox)) \cap Posts : job[x] \in Way
  BY DEF LineShape, Way
<1>4. \A x \in Notes \cup Tellings : x.kind # "initialize"
  BY PostAssumption
<1> QED
  BY <1>1, <1>2, <1>3, <1>4

\* Short of a DELETE nothing on its way becomes old.
LEMMA Freshness ==
  ASSUME Typed, PostsShape, LineShape, Kept, Next, UNCHANGED terminated
  PROVE  /\ \A x \in Posts : job[x] \in Way /\ job'[x] \in Way /\ Stale(x)' => Stale(x)
         /\ \A t \in Tellings : cause[t] # NoPost => cause'[t] = cause[t] /\ (StaleNews(t)' => StaleNews(t))
<1> USE DEF serverVars, handlerVars
<1>t. /\ http \in [Posts \cup Notes -> Https] /\ job \in [Posts -> Jobs]
      /\ terminated \in Nat /\ epoch \in [Posts -> Nat] /\ began \in [Posts -> Nat]
      /\ origin \in [Posts -> Nat] /\ Posts \cap Notes = {} /\ NoPost \notin Posts
      /\ cause \in [Tellings -> Posts \cup {NoPost}]
  BY PostAssumption, BoundAssumption DEF Typed, MaxSessions
<1>n. \A t \in Tellings : cause[t] # NoPost =>
         /\ cause[t] \in Posts /\ job[cause[t]] \notin {"none", "queued"}
         /\ origin[cause[t]] \in {0, epoch[cause[t]] + 1}
  BY <1>t DEF Kept, Keeps
<1> DEFINE Fresh == \A x \in Posts : job[x] \in Way /\ job'[x] \in Way /\ Stale(x)' => Stale(x)
           News == \A t \in Tellings : cause[t] # NoPost => cause'[t] = cause[t] /\ (StaleNews(t)' => StaleNews(t))
\* The requests whose place or whose dispatch changes are not the cause of anything yet.
<1>a. ASSUME UNCHANGED <<http, origin, closed>> PROVE Fresh
  BY <1>a DEF Stale
<1>b. ASSUME UNCHANGED <<origin, epoch, began>>,
             \A t \in Tellings : cause[t] # NoPost => cause'[t] = cause[t]
      PROVE  News
  BY <1>b DEF StaleNews, CutShort
<1> HIDE DEF Fresh, News
<1>1. CASE Delete
  BY <1>1, <1>t DEF Delete
<1>2. CASE Close
  <2>1. Fresh
    BY <1>2 DEF Close, Fresh, Stale
  <2> QED
    BY <1>2, <1>b, <2>1 DEF Close, Fresh, News
<1>3. ASSUME NEW p \in Posts, PostRequest(p) PROVE Fresh /\ News
  <2>1. /\ http[p] = "idle" /\ job[p] = "none" /\ UNCHANGED <<closed, epoch, began, cause>>
        /\ \A x \in Posts \ {p} : http'[x] = http[x] /\ origin'[x] = origin[x]
    BY <1>3, <1>t DEF PostRequest, PostsShape
  <2>2. Fresh
    BY <2>1 DEF Fresh, Stale, Way
  <2>3. News
    <3> SUFFICES ASSUME NEW t \in Tellings, cause[t] # NoPost PROVE cause'[t] = cause[t] /\ (StaleNews(t)' => StaleNews(t))
      BY DEF News
    <3>1. cause[t] \in Posts \ {p}
      BY <1>n, <2>1
    <3> QED
      BY <2>1, <3>1 DEF StaleNews, CutShort
  <2> QED
    BY <2>2, <2>3
<1>4. ASSUME NEW p \in Posts, Respond(p) PROVE Fresh /\ News
  <2>1. UNCHANGED <<closed, origin, epoch, began, cause>> /\ (closed \/ http[p] # "waiting")
    BY <1>4 DEF Respond
  <2>2. \A x \in Posts \ {p} : http'[x] = http[x]
    BY <1>4, <1>t DEF Respond
  <2>3. Fresh
    BY <2>1, <2>2 DEF Fresh, Stale
  <2> QED
    BY <1>b, <2>1, <2>3
<1>5. ASSUME NEW p \in Posts, DispatchRequest(p) PROVE Fresh /\ News
  <2>1. /\ UNCHANGED <<http, closed, origin, began, cause>>
        /\ \A x \in Posts \ {p} : epoch'[x] = epoch[x]
    BY <1>5, <1>t DEF DispatchRequest
  <2>2. job[p] = "queued"
    BY <1>5, Dispatches
  <2>3. News
    <3> SUFFICES ASSUME NEW t \in Tellings, cause[t] # NoPost PROVE cause'[t] = cause[t] /\ (StaleNews(t)' => StaleNews(t))
      BY DEF News
    <3>1. cause[t] \in Posts \ {p}
      BY <1>n, <2>2
    <3> QED
      BY <2>1, <3>1 DEF StaleNews, CutShort
  <2> QED
    BY <1>a, <2>1, <2>3
<1>6. ASSUME NEW p \in Posts, Begin(p) PROVE Fresh /\ News
  <2>1. /\ UNCHANGED <<http, closed, origin, epoch, cause>> /\ began'[p] = terminated
        /\ \A x \in Posts \ {p} : began'[x] = began[x]
    BY <1>6, <1>t DEF Begin
  <2>3. News
    <3> SUFFICES ASSUME NEW t \in Tellings, cause[t] # NoPost, StaleNews(t)' PROVE StaleNews(t)
      BY <2>1 DEF News
    <3>1. cause'[t] = cause[t] /\ cause[t] \in Posts
      BY <1>n, <2>1
    <3>2. cause[t] # p
      <4> SUFFICES ASSUME cause[t] = p PROVE FALSE
        OBVIOUS
      <4>1. origin[p] \notin {0, terminated + 1} /\ epoch[p] = terminated
        BY <2>1, <3>1 DEF StaleNews, CutShort
      <4> QED
        BY <1>n, <4>1
    <3> QED
      BY <2>1, <3>1, <3>2 DEF StaleNews, CutShort
  <2> QED
    BY <1>a, <2>1, <2>3
<1>7. ASSUME NEW p \in Posts, Finish(p) PROVE Fresh /\ News
  BY <1>7, <1>a, <1>b DEF Finish
<1>8. ASSUME NEW p \in Posts, RunWrite(p) PROVE Fresh /\ News
  <2>1. UNCHANGED <<closed, origin, epoch, began, cause>>
    BY <1>8 DEF RunWrite
  <2>2. job'[p] = "over"
    BY <1>8, <1>t DEF RunWrite
  <2>3. \A x \in Posts : x.kind = "discover" /\ x # p => http'[x] = http[x]
    BY <1>8, <1>t DEF RunWrite, SameKey
  <2>4. Fresh
    BY <2>1, <2>2, <2>3 DEF Fresh, Stale, Way
  <2> QED
    BY <1>b, <2>1, <2>4
<1>9. ASSUME NEW m \in Notes, PostNote(m) PROVE Fresh /\ News
  <2>1. UNCHANGED <<closed, origin, epoch, began, cause>>
    BY <1>9 DEF PostNote
  <2>2. \A x \in Posts : http'[x] = http[x]
    BY <1>9, <1>t DEF PostNote
  <2>3. Fresh
    BY <2>1, <2>2 DEF Fresh, Stale
  <2> QED
    BY <1>b, <2>1, <2>3
<1>10. ASSUME NEW m \in Notes, DispatchNote(m) PROVE Fresh /\ News
  BY <1>10, <1>a, <1>b DEF DispatchNote
<1>11. ASSUME NEW t \in Tellings, Report(t) \/ Update(t) PROVE Fresh /\ News
  <2>1. /\ UNCHANGED <<http, closed, origin, epoch, began>>
        /\ UNCHANGED cause \/ \E p \in Posts : cause[t] = NoPost /\ cause' = [cause EXCEPT ![t] = p]
    BY <1>11, <1>t DEF Report, Update, Send, Typed
  <2>2. \A u \in Tellings : cause[u] # NoPost => cause'[u] = cause[u]
    BY <1>t, <2>1
  <2> QED
    BY <1>a, <1>b, <2>1, <2>2
<1>12. ASSUME NEW t \in Tellings, RunTelling(t) PROVE Fresh /\ News
  BY <1>12, <1>a, <1>b DEF RunTelling
<1> QED
  BY <1>1, <1>2, <1>3, <1>4, <1>5, <1>6, <1>7, <1>8, <1>9, <1>10, <1>11, <1>12 DEF Next, Fresh, News

---------------------------------------------------------------------------
\* The steps, for what the end of a session leaves

\* Who is on the way was on the way, or is sent by this step.
LEMMA OneInitializeKept ==
  ASSUME OneClientAtATime, Typed, PostsShape, LineShape, Accepted, OneInitialize, Next
  PROVE  OneInitialize'
<1> USE DEF serverVars, handlerVars
<1>t. /\ http \in [Posts \cup Notes -> Https] /\ job \in [Posts -> Jobs]
      /\ origin \in [Posts -> Nat] /\ Posts \cap Notes = {} /\ terminated \in Nat
      /\ initResult \subseteq Posts
  BY PostAssumption, BoundAssumption DEF Typed, MaxSessions
<1>f. ASSUME UNCHANGED <<origin, active, http>>, closed' = closed,
             \A q \in Posts : job'[q] \in Way => job[q] \in Way
      PROVE  OneInitialize'
  BY <1>f DEF OneInitialize
<1>1. CASE Delete
  <2>1. \A q \in Posts : q.kind = "initialize" => job[q] \notin Way
    BY <1>1, NoneUnderWay DEF Delete
  <2> QED
    BY <1>1, <2>1 DEF Delete, OneInitialize
<1>2. CASE Close
  BY <1>2 DEF Close, OneInitialize
<1>3. ASSUME NEW p \in Posts, PostRequest(p) PROVE OneInitialize'
  <2>1. /\ UNCHANGED <<active, closed>> /\ ~closed /\ http[p] = "idle"
        /\ http'[p] = "waiting" /\ \A q \in Posts \ {p} : http'[q] = http[q] /\ job'[q] = job[q] /\ origin'[q] = origin[q]
    BY <1>3, <1>t DEF PostRequest
  <2>2. p.kind = "initialize" => ~active /\ \A q \in Registered : q.kind # "initialize"
    BY <1>3 DEF PostRequest, OneClientAtATime
  <2>3. p.kind = "initialize" => origin'[p] = 0
    BY <1>3, <1>t, <2>2 DEF PostRequest, Session
  <2>4. p.kind = "initialize" => \A q \in Posts : q.kind = "initialize" => job[q] \notin Way
    BY <2>1, <2>2 DEF OneInitialize, Registered
  <2> QED
    BY <2>1, <2>2, <2>3, <2>4 DEF OneInitialize
<1>4. ASSUME NEW p \in Posts, Respond(p) PROVE OneInitialize'
  <2>1. /\ closed \/ http[p] # "waiting"
        /\ UNCHANGED <<active, closed, job, origin>> /\ \A q \in Posts \ {p} : http'[q] = http[q]
    BY <1>4, <1>t DEF Respond
  <2> QED
    BY <2>1 DEF OneInitialize
<1>5. ASSUME NEW p \in Posts, DispatchRequest(p) PROVE OneInitialize'
  <2>1. job[p] = "queued" /\ \E j \in Strand : job' = [job EXCEPT ![p] = j]
    BY <1>5, Dispatches
  <2>2. \A q \in Posts : job'[q] \in Way => job[q] \in Way
    BY <1>t, <2>1 DEF Way
  <2> QED
    BY <1>5, <1>f, <2>2 DEF DispatchRequest
<1>6. ASSUME NEW p \in Posts, Begin(p) PROVE OneInitialize'
  <2>1. \A q \in Posts : job'[q] \in Way => job[q] \in Way
    BY <1>6, <1>t DEF Begin, Way
  <2> QED
    BY <1>6, <1>f, <2>1 DEF Begin
<1>7. ASSUME NEW p \in Posts, Finish(p) PROVE OneInitialize'
  <2>1. \A q \in Posts : job'[q] \in Way => job[q] \in Way
    BY <1>7, <1>t DEF Finish, Way
  <2> QED
    BY <1>7, <1>f, <2>1 DEF Finish
<1>8. ASSUME NEW p \in Posts, RunWrite(p) PROVE OneInitialize'
  <2>1. /\ job[p] = "writing" /\ job'[p] = "over" /\ \A q \in Posts \ {p} : job'[q] = job[q]
    BY <1>8, <1>t, Writes
  <2>2. UNCHANGED <<origin, closed>> /\ (closed => UNCHANGED <<active, http>>)
    BY <1>8 DEF RunWrite
  <2>3. ~closed /\ active' => active \/ p.kind = "initialize"
    <3>1. ~closed /\ active' => active \/ p \in initResult
      BY <1>8 DEF RunWrite
    <3> QED
      BY <3>1 DEF Accepted
  <2>4. ASSUME ~closed, NEW q \in Posts, q.kind = "initialize", job'[q] \in Way
        PROVE  http'[q] = http[q] /\ p.kind # "initialize"
    <3>1. q # p /\ job[q] \in Way /\ job[p] \in Way
      BY <2>1, <2>4 DEF Way
    <3>2. p.kind # "initialize"
      BY <2>4, <3>1 DEF OneInitialize
    <3>3. ~ SameKey(p, q)
      BY <2>4, <3>1, <3>2 DEF SameKey, OneClientAtATime
    <3> QED
      BY <1>8, <1>t, <2>4, <3>2, <3>3 DEF RunWrite
  <2> QED
    BY <2>1, <2>2, <2>3, <2>4 DEF OneInitialize, Way
<1>9. ASSUME NEW m \in Notes, PostNote(m) PROVE OneInitialize'
  <2>1. UNCHANGED <<origin, active, closed, job>> /\ \A q \in Posts : http'[q] = http[q]
    BY <1>9, <1>t DEF PostNote
  <2> QED
    BY <2>1 DEF OneInitialize
<1>10. ASSUME NEW m \in Notes, DispatchNote(m) PROVE OneInitialize'
  BY <1>10, <1>f DEF DispatchNote
<1>11. ASSUME NEW t \in Tellings, Report(t) \/ Update(t) \/ RunTelling(t) PROVE OneInitialize'
  BY <1>11, <1>f DEF Report, Update, Send, RunTelling
<1> QED
  BY <1>1, <1>2, <1>3, <1>4, <1>5, <1>6, <1>7, <1>8, <1>9, <1>10, <1>11 DEF Next

LEMMA KeptKept ==
  ASSUME Typed, PostsShape, LineShape, Accepted, Kept, StaleQueued, Next
  PROVE  Kept'
<1> USE DEF serverVars, handlerVars
<1>t. /\ http \in [Posts \cup Notes -> Https] /\ job \in [Posts -> Jobs]
      /\ origin \in [Posts -> Nat] /\ epoch \in [Posts -> Nat] /\ began \in [Posts -> Nat]
      /\ subscription \in Posts \cup {NoPost} /\ logLevel \in Posts \cup {NoPost}
      /\ cause \in [Tellings -> Posts \cup {NoPost}] /\ NoPost \notin Posts
      /\ terminated \in Nat /\ initEpoch \in Nat
  BY PostAssumption, BoundAssumption DEF Typed, MaxSessions
<1> DEFINE Told(p) == \E t \in Tellings : cause[t] = p
           Sound == \A p \in Posts : Keeps(p) => /\ origin[p] \in {0, epoch[p] + 1} /\ job[p] \notin {"none", "queued"}
                                                 /\ p.kind \notin {"initialize", "discover"}
           Level == /\ lifecycle = "uninitialized" => logLevel = NoPost
                    /\ logLevel # NoPost /\ SessionState # "uninitialized" => began[logLevel] = terminated
<1>k. Sound /\ Level
  BY DEF Kept
<1>q. ASSUME Sound', Level' PROVE Kept'
  BY <1>q DEF Kept
<1>a. ASSUME UNCHANGED <<origin, epoch>>, \A p \in Posts : Keeps(p)' => Keeps(p) /\ job'[p] \notin {"none", "queued"}
      PROVE  Sound'
  BY <1>a, <1>k
<1>b. ASSUME UNCHANGED <<logLevel, lifecycle, initEpoch, terminated, began>> PROVE Level'
  BY <1>b, <1>k DEF SessionState
<1> HIDE DEF Sound, Level
<1>1. CASE Delete
  <2>1. Sound'
    BY <1>1, <1>k DEF Delete, Sound, Keeps
  <2>2. initEpoch # terminated'
    BY <1>1, <1>t DEF Delete, Accepted
  <2>3. Level'
    BY <1>1, <1>k, <2>2 DEF Delete, Level, SessionState
  <2> QED
    BY <1>q, <2>1, <2>3
<1>2. CASE Close
  <2>1. Sound' /\ Level'
    BY <1>2, <1>k DEF Close, Sound, Level, SessionState, Keeps
  <2> QED
    BY <1>q, <2>1
<1>3. ASSUME NEW p \in Posts, PostRequest(p) PROVE Kept'
  <2>1. /\ job[p] = "none" /\ job'[p] = "queued" /\ UNCHANGED <<epoch, subscription, logLevel, cause>>
        /\ \A x \in Posts \ {p} : job'[x] = job[x] /\ origin'[x] = origin[x]
    BY <1>3, <1>t DEF PostRequest, PostsShape
  <2>2. ~ Keeps(p) /\ ~ Keeps(p)'
    BY <1>k, <2>1 DEF Sound, Keeps
  <2>3. Sound'
    BY <1>k, <2>1, <2>2 DEF Sound, Keeps
  <2> QED
    BY <1>3, <1>b, <1>q, <2>3 DEF PostRequest
<1>4. ASSUME NEW p \in Posts, Respond(p) PROVE Kept'
  <2>1. Sound'
    BY <1>4, <1>k DEF Respond, Sound, Keeps
  <2> QED
    BY <1>4, <1>b, <1>q, <2>1 DEF Respond
<1>5. ASSUME NEW p \in Posts, DispatchRequest(p) PROVE Kept'
  <2>1. /\ UNCHANGED <<origin, subscription, cause, began, terminated>> /\ queue # <<>> /\ Head(queue) = p
        /\ epoch'[p] = terminated /\ \A x \in Posts \ {p} : epoch'[x] = epoch[x]
        /\ DispatchInitialize(p) \/ UNCHANGED <<logLevel, lifecycle, initEpoch>>
    BY <1>5, <1>t DEF DispatchRequest, DispatchDiscover, DispatchOther
  <2>2. /\ job[p] = "queued" /\ p \in Elems(queue)
    BY <1>5, Dispatches
  <2>3. PICK j \in Strand : /\ job' = [job EXCEPT ![p] = j]
                            /\ j = "admitted" => /\ SessionState = "ready"
                                                 /\ p.kind \notin {"initialize", "discover"}
    BY <1>5, Dispatches
  <2>4. job'[p] = j /\ j \notin {"none", "queued", "handling"} /\ \A x \in Posts \ {p} : job'[x] = job[x]
    BY <1>t, <2>3 DEF Strand
  <2>5. logLevel' \in {logLevel, NoPost}
    BY <2>1 DEF DispatchInitialize, LevelForSession
  <2>6. ~ Keeps(p)
    BY <1>k, <2>2 DEF Sound
  <2>7. Keeps(p)' => j = "admitted"
    BY <1>t, <2>1, <2>4, <2>5, <2>6 DEF Keeps
  <2>8. j = "admitted" => origin[p] \in {0, terminated + 1}
    BY <2>2, <2>3 DEF StaleQueued, Past, Stale
  <2>9. Sound'
    <3> SUFFICES ASSUME NEW x \in Posts, Keeps(x)'
                 PROVE  /\ origin'[x] \in {0, epoch'[x] + 1} /\ job'[x] \notin {"none", "queued"}
                        /\ x.kind \notin {"initialize", "discover"}
      BY DEF Sound
    <3>1. CASE x = p
      BY <2>1, <2>3, <2>4, <2>7, <2>8, <3>1
    <3>2. CASE x # p
      <4>1. Keeps(x)
        BY <1>t, <2>1, <2>4, <2>5, <3>2 DEF Keeps
      <4> QED
        BY <1>k, <2>1, <2>4, <3>2, <4>1 DEF Sound
    <3> QED
      BY <3>1, <3>2
  <2>10. Level'
    <3>1. CASE UNCHANGED <<logLevel, lifecycle, initEpoch>>
      BY <1>b, <2>1, <3>1
    <3>2. CASE DispatchInitialize(p) /\ SessionState = "uninitialized"
      <4>1. logLevel' = NoPost
        BY <1>k, <3>2 DEF DispatchInitialize, LevelForSession, SessionState, Level
      <4> QED
        BY <4>1 DEF Level
    <3>3. CASE DispatchInitialize(p) /\ SessionState # "uninitialized"
      BY <1>b, <2>1, <3>3 DEF DispatchInitialize
    <3> QED
      BY <2>1, <3>1, <3>2, <3>3
  <2> QED
    BY <1>q, <2>9, <2>10
<1>6. ASSUME NEW p \in Posts, Begin(p) PROVE Kept'
  <2>1. /\ job[p] = "admitted" /\ job'[p] \in {"handling", "computed"}
        /\ \A x \in Posts \ {p} : job'[x] = job[x] /\ began'[x] = began[x]
        /\ began'[p] = terminated /\ UNCHANGED <<origin, epoch, cause, lifecycle, initEpoch, terminated>>
    BY <1>6, <1>t DEF Begin
  <2>2. subscription' \in {subscription, NoPost, p} /\ logLevel' \in {logLevel, p}
    BY <1>6 DEF Begin, SubscriptionAfter, LevelAfter
  <2>3. Keeps(p) /\ lifecycle # "uninitialized"
    BY <2>1 DEF Keeps, Accepted
  <2>4. \A x \in Posts : Keeps(x)' => Keeps(x) /\ job'[x] \notin {"none", "queued"}
    <3> SUFFICES ASSUME NEW x \in Posts \ {p}, Keeps(x)' PROVE Keeps(x) /\ job'[x] \notin {"none", "queued"}
      BY <2>1, <2>3
    <3>1. Keeps(x)
      BY <1>t, <2>1, <2>2 DEF Keeps
    <3> QED
      BY <1>k, <2>1, <3>1 DEF Sound
  <2>5. Sound'
    BY <1>a, <2>1, <2>4
  <2>6. Level'
    BY <1>k, <1>t, <2>1, <2>2, <2>3 DEF Level, SessionState
  <2> QED
    BY <1>q, <2>5, <2>6
<1>7. ASSUME NEW p \in Posts, Finish(p) \/ RunWrite(p) PROVE Kept'
  <2>1. /\ job'[p] \in {"writing", "over"} /\ \A x \in Posts \ {p} : job'[x] = job[x]
    BY <1>7, <1>t DEF Finish, RunWrite
  <2>2. UNCHANGED <<origin, epoch, subscription, logLevel, cause, lifecycle, initEpoch, terminated, began>>
    BY <1>7 DEF Finish, RunWrite
  <2>3. \A x \in Posts : Keeps(x)' => Keeps(x) /\ job'[x] \notin {"none", "queued"}
    <3>1. \A x \in Posts : Keeps(x)' => Keeps(x)
      BY <2>1, <2>2 DEF Keeps
    <3> QED
      BY <1>k, <2>1, <3>1 DEF Sound
  <2> QED
    BY <1>a, <1>b, <1>q, <2>2, <2>3
<1>9. ASSUME NEW m \in Notes, PostNote(m) PROVE Kept'
  <2>1. Sound'
    BY <1>9, <1>k DEF PostNote, Sound, Keeps
  <2> QED
    BY <1>9, <1>b, <1>q, <2>1 DEF PostNote
<1>10. ASSUME NEW m \in Notes, DispatchNote(m) PROVE Kept'
  <2>1. Sound'
    BY <1>10, <1>k DEF DispatchNote, Sound, Keeps
  <2>2. /\ UNCHANGED <<logLevel, initEpoch, terminated, began>>
        /\ lifecycle' = lifecycle \/ (lifecycle = "awaiting" /\ lifecycle' = "ready")
    BY <1>10 DEF DispatchNote
  <2>3. Level'
    BY <1>k, <2>2 DEF Level, SessionState
  <2> QED
    BY <1>q, <2>1, <2>3
<1>11. ASSUME NEW t \in Tellings, Report(t) \/ Update(t) PROVE Kept'
  <2>1. /\ UNCHANGED <<origin, epoch, job, logLevel, lifecycle, initEpoch, terminated, began>>
        /\ subscription' \in {subscription, NoPost}
        /\ UNCHANGED cause \/ \E p \in Posts : Keeps(p) /\ cause' = [cause EXCEPT ![t] = p]
    BY <1>11, <1>t DEF Report, Update, Send, Keeps
  <2>2. \A x \in Posts : Keeps(x)' => Keeps(x)
    BY <1>t, <2>1 DEF Keeps
  <2>3. Sound'
    BY <1>k, <2>1, <2>2 DEF Sound
  <2> QED
    BY <1>b, <1>q, <2>1, <2>3
<1>12. ASSUME NEW t \in Tellings, RunTelling(t) PROVE Kept'
  <2>1. Sound'
    BY <1>12, <1>k DEF RunTelling, Sound, Keeps
  <2> QED
    BY <1>12, <1>b, <1>q, <2>1 DEF RunTelling
<1> QED
  BY <1>1, <1>2, <1>3, <1>4, <1>5, <1>6, <1>7, <1>9, <1>10, <1>11, <1>12 DEF Next

\* What is recorded is recorded for those who are there.
LEMMA RecordKept ==
  ASSUME Typed, PostsShape, LineShape, LineShape', Accepted, OneInitialize, Kept, StaleWritten, History, Next
  PROVE  History'
<1> USE DEF serverVars, handlerVars
<1>t. /\ http \in [Posts \cup Notes -> Https] /\ job \in [Posts -> Jobs]
      /\ origin \in [Posts -> Nat] /\ Posts \cap Notes = {} /\ Posts \cap Tellings = {}
      /\ events \subseteq Posts \cup Tellings /\ outbox \in Seq(Posts \cup Tellings)
      /\ terminated \in Nat /\ initResult \subseteq Posts
  BY PostAssumption, BoundAssumption DEF Typed, MaxSessions
<1>n. \A t \in Tellings : cause[t] # NoPost /\ UNCHANGED terminated /\ ~ StaleNews(t)
                          => cause'[t] # NoPost /\ ~ StaleNews(t)'
  BY Freshness
\* Nothing new is recorded, and the places of what is are kept.
<1>f. ASSUME UNCHANGED terminated, awaitingNext' => awaitingNext, UNCHANGED events,
             \A x \in Posts : http[x] # "idle" => http'[x] # "idle" /\ origin'[x] = origin[x]
      PROVE  History'
  <2>1. awaitingNext' => events' = {}
    BY <1>f DEF History
  <2>2. \A x \in events' \cap Posts : x.kind # "discover" /\ origin'[x] \in {0, terminated' + 1} /\ http'[x] # "idle"
    BY <1>f DEF History
  <2>3. \A t \in events' \cap Tellings : ~ StaleNews(t)' /\ cause'[t] # NoPost
    BY <1>f, <1>n DEF History
  <2> QED
    BY <2>1, <2>2, <2>3 DEF History
<1>1. CASE Delete
  BY <1>1 DEF Delete, HistoryCleared, History
<1>2. CASE Close
  BY <1>2, <1>f DEF Close
<1>3. ASSUME NEW p \in Posts, PostRequest(p) PROVE History'
  <2>1. /\ http[p] = "idle" /\ http'[p] = "waiting" /\ UNCHANGED <<terminated, awaitingNext, events>>
        /\ \A x \in Posts \ {p} : http'[x] = http[x] /\ origin'[x] = origin[x]
    BY <1>3, <1>t DEF PostRequest
  <2> QED
    BY <1>f, <2>1
<1>4. ASSUME NEW p \in Posts, Respond(p) PROVE History'
  <2>1. /\ http'[p] = "done" /\ UNCHANGED <<terminated, awaitingNext, events, origin>>
        /\ \A x \in Posts \ {p} : http'[x] = http[x]
    BY <1>4, <1>t DEF Respond
  <2> QED
    BY <1>f, <2>1
<1>5. ASSUME NEW p \in Posts, DispatchRequest(p) \/ Begin(p) \/ Finish(p) PROVE History'
  BY <1>5, <1>f DEF DispatchRequest, Begin, Finish
<1>8. ASSUME NEW p \in Posts, RunWrite(p) PROVE History'
  <2>1. job[p] = "writing" /\ p \in Elems(outbox) /\ Head(outbox) = p /\ outbox # <<>>
    BY <1>8, Writes DEF RunWrite
  <2>2. UNCHANGED <<terminated, origin>> /\ \A x \in Posts : http[x] # "idle" => http'[x] # "idle"
    BY <1>8, <1>t DEF RunWrite
  <2>3. CASE closed
    BY <1>8, <1>f, <2>2, <2>3 DEF RunWrite
  <2>4. CASE ~ closed /\ ~ Recorded(p)
    <3>1. UNCHANGED events
      BY <1>8, <2>4 DEF RunWrite
    <3>2. awaitingNext' => awaitingNext
      BY <1>8, <2>4 DEF RunWrite
    <3> QED
      BY <1>f, <2>2, <3>1, <3>2
  <2>5. CASE ~ closed /\ Recorded(p)
    <3>1. events' = events \cup {p}
      BY <1>8, <2>5 DEF RunWrite
    <3>2. /\ p \notin Discovers /\ (~ awaitingNext \/ p \in initResult)
          /\ p \in initResult => p.kind = "initialize"
      BY <2>5 DEF Recorded, Accepted
    \* An initialize result finds its entry, and ends the wait for the next client.
    <3>3. ~ awaitingNext'
      <4>1. CASE p \in initResult
        <5>1. p \in Registered /\ SameKey(p, p)
          BY <2>1, <2>5, <3>2, <4>1 DEF OneInitialize, Way, Registered, SameKey
        <5> QED
          BY <1>8, <2>5, <4>1, <5>1 DEF RunWrite
      <4>2. CASE ~ awaitingNext
        BY <1>8, <2>5, <4>2 DEF RunWrite
      <4> QED
        BY <3>2, <4>1, <4>2
    <3>4. ~ Stale(p)
      <4> SUFFICES ASSUME Stale(p) PROVE FALSE
        OBVIOUS
      <4>1. p \in Elems(outbox) \cap Leftover /\ InFront(outbox, Leftover) /\ awaitingNext
        BY <2>1, <2>5 DEF Past, Leftover, StaleWritten
      <4>2. p.kind # "initialize"
        BY <1>t, <2>1, <4>1, FirstInLine
      <4> QED
        BY <3>2, <4>1, <4>2
    <3>5. origin[p] \in {0, terminated + 1} /\ p.kind # "discover"
      BY <2>5, <3>2, <3>4 DEF Stale, Discovers, Registered
    <3>6. http[p] # "idle"
      BY <2>1 DEF PostsShape
    <3>7. \A x \in events' \cap Posts : x.kind # "discover" /\ origin'[x] \in {0, terminated' + 1} /\ http'[x] # "idle"
      BY <2>2, <3>1, <3>5, <3>6 DEF History
    <3>8. \A t \in events' \cap Tellings : ~ StaleNews(t)' /\ cause'[t] # NoPost
      BY <1>n, <1>t, <2>2, <3>1 DEF History
    <3> QED
      BY <3>3, <3>7, <3>8 DEF History
  <2> QED
    BY <2>3, <2>4, <2>5
<1>9. ASSUME NEW m \in Notes, PostNote(m) PROVE History'
  <2>1. UNCHANGED <<terminated, awaitingNext, events, origin>> /\ \A x \in Posts : http'[x] = http[x]
    BY <1>9, <1>t DEF PostNote
  <2> QED
    BY <1>f, <2>1
<1>10. ASSUME NEW m \in Notes, DispatchNote(m) PROVE History'
  BY <1>10, <1>f DEF DispatchNote
<1>11. ASSUME NEW t \in Tellings, Report(t) \/ Update(t) PROVE History'
  BY <1>11, <1>f DEF Report, Update, Send
<1>12. ASSUME NEW t \in Tellings, RunTelling(t) PROVE History'
  <2>1. /\ outbox # <<>> /\ Head(outbox) = t /\ t \in Elems(outbox) /\ UNCHANGED <<terminated, awaitingNext, http, origin>>
    BY <1>12, <1>t, QueueTail DEF RunTelling
  <2>2. CASE closed \/ awaitingNext
    BY <1>12, <1>f, <2>1, <2>2 DEF RunTelling
  <2>3. CASE ~ closed /\ ~ awaitingNext
    <3>1. events' = events \cup {t}
      BY <1>12, <2>3 DEF RunTelling
    <3>2. cause[t] # NoPost /\ ~ StaleNews(t)
      BY <2>1, <2>3 DEF StaleWritten, Leftover, OldNews
    <3>3. \A x \in events' \cap Posts : x.kind # "discover" /\ origin'[x] \in {0, terminated' + 1} /\ http'[x] # "idle"
      BY <1>t, <2>1, <3>1 DEF History
    <3>4. \A u \in events' \cap Tellings : ~ StaleNews(u)' /\ cause'[u] # NoPost
      BY <1>n, <2>1, <3>1, <3>2 DEF History
    <3> QED
      BY <2>1, <2>3, <3>3, <3>4 DEF History
  <2> QED
    BY <2>2, <2>3
<1> QED
  BY <1>1, <1>2, <1>3, <1>4, <1>5, <1>8, <1>9, <1>10, <1>11, <1>12 DEF Next

\* What is left in the queue.
LEMMA StaleQueuedKept ==
  ASSUME Typed, PostsShape, LineShape, LineShape', Accepted, OneInitialize, Kept, StaleQueued, Next
  PROVE  StaleQueued'
<1> USE DEF serverVars, handlerVars
<1>t. /\ http \in [Posts \cup Notes -> Https] /\ job \in [Posts -> Jobs]
      /\ origin \in [Posts -> Nat] /\ Posts \cap Notes = {}
      /\ terminated \in Nat /\ initEpoch \in Nat /\ initResult \subseteq Posts
      /\ queue \in Seq(Posts \cup Notes)
  BY PostAssumption, BoundAssumption DEF Typed, MaxSessions
<1> DEFINE Left == Elems(queue) \cap Past
           Alone == /\ SessionState = "uninitialized"
                    /\ ~closed => /\ awaitingNext
                                  /\ \A q \in Posts : q.kind = "initialize" => job[q] \notin {"computed", "writing"}
<1>a. InFront(queue, Past) /\ (Left # {} => Alone)
  BY DEF StaleQueued
<1>q. ASSUME InFront(queue, Past)', (Left # {} => Alone)' PROVE StaleQueued'
  BY <1>q DEF StaleQueued
<1> HIDE DEF Left, Alone
\* Nobody in the queue becomes old.
<1>p. ASSUME UNCHANGED terminated PROVE Elems(queue') \cap Elems(queue) \cap Past' \subseteq Past
  <2>1. \A x \in Elems(queue') \cap Elems(queue) \cap Posts : job[x] = "queued" /\ job'[x] = "queued"
    BY DEF LineShape
  <2>2. \A x \in Elems(queue') \cap Elems(queue) \cap Posts : Stale(x)' => Stale(x)
    BY <1>p, <2>1, Freshness DEF Way
  <2> QED
    BY <2>2 DEF Past
<1>f. ASSUME UNCHANGED terminated, queue' = queue \/ (queue # <<>> /\ queue' = Tail(queue)), Left # {} => Alone'
      PROVE  StaleQueued'
  <2>1. Elems(queue') \subseteq Elems(queue)
    BY <1>t, <1>f, QueueTail
  <2>2. Elems(queue') \cap Past' \subseteq Past
    BY <1>f, <1>p, <2>1
  <2>3. InFront(queue', Past')
    BY <1>a, <1>f, <1>t, <2>2, OrderKept
  <2>4. Left' # {} => Left # {}
    BY <2>1, <2>2 DEF Left
  <2> QED
    BY <1>f, <1>q, <2>3, <2>4
<1>g. ASSUME UNCHANGED terminated, NEW e \in Posts \cup Notes, queue' = Append(queue, e), e \notin Past', Left # {} => Alone'
      PROVE  StaleQueued'
  <2>1. Elems(queue') = Elems(queue) \cup {e}
    BY <1>t, <1>g, QueueAppend
  <2>2. Elems(queue) \cap Past' \subseteq Past
    BY <1>g, <1>p, <2>1
  <2>3. InFront(queue', Past')
    <3>1. queue \in Seq(Posts \cup Notes) /\ queue' = Append(queue, e) /\ InFront(queue, Past)
      BY <1>a, <1>g, <1>t
    <3> QED
      BY <1>g, <2>2, <3>1, OrderAppended
  <2>4. Left' # {} => Left # {}
    BY <1>g, <2>1, <2>2 DEF Left
  <2> QED
    BY <1>g, <1>q, <2>3, <2>4
\* A step that leaves all this alone.
<1>k. ASSUME UNCHANGED <<lifecycle, initEpoch, terminated, awaitingNext>>, closed => closed',
             \A q \in Posts : q.kind = "initialize" /\ job'[q] \in {"computed", "writing"}
                              => job[q] \in {"computed", "writing"}
      PROVE  Alone => Alone'
  BY <1>k DEF Alone, SessionState
<1>1. CASE Delete
  <2>1. /\ \A q \in Posts : q.kind = "initialize" => job[q] \notin Way
        /\ \A x \in Elems(queue) : x.kind # "initialize"
    BY <1>1, NoneUnderWay DEF Delete
  <2>2. InFront(queue', Past')
    BY <1>1, <2>1 DEF Delete, InFront, Elems
  <2>3. SessionState' = "uninitialized"
    BY <1>1, <1>t DEF Delete, SessionState, Accepted
  <2>4. Alone'
    BY <1>1, <2>1, <2>3 DEF Delete, Alone, Way
  <2> QED
    BY <1>q, <2>2, <2>4
<1>2. CASE Close
  BY <1>2, <1>a, <1>f, <1>k DEF Close
<1>3. ASSUME NEW p \in Posts, PostRequest(p) PROVE StaleQueued'
  <2>1. /\ http'[p] = "waiting" /\ job' = [job EXCEPT ![p] = "queued"] /\ queue' = Append(queue, p)
        /\ UNCHANGED <<lifecycle, initEpoch, terminated, awaitingNext, closed>>
        /\ origin'[p] \in {0, Session}
    BY <1>3, <1>t DEF PostRequest
  <2>2. p \notin Past'
    BY <2>1 DEF Past, Stale, Session
  <2>3. \A q \in Posts : job'[q] \in {"computed", "writing"} => job[q] \in {"computed", "writing"}
    BY <1>t, <2>1
  <2> QED
    BY <1>a, <1>g, <1>k, <2>1, <2>2, <2>3
<1>4. ASSUME NEW p \in Posts, Respond(p) PROVE StaleQueued'
  BY <1>4, <1>a, <1>f, <1>k DEF Respond
<1>5. ASSUME NEW p \in Posts, DispatchRequest(p) PROVE StaleQueued'
  <2>1. /\ queue # <<>> /\ Head(queue) = p /\ queue' = Tail(queue) /\ UNCHANGED <<terminated, awaitingNext, closed>>
        /\ DispatchInitialize(p) \/ UNCHANGED <<lifecycle, initEpoch>>
    BY <1>5 DEF DispatchRequest, DispatchDiscover, DispatchOther
  <2>2. \E j \in Strand : job' = [job EXCEPT ![p] = j]
    BY <1>5, Dispatches
  <2>3. ASSUME Left # {} PROVE Alone'
    <3>1. p.kind # "initialize"
      BY <1>a, <1>t, <2>1, <2>3, FirstInLine DEF Left
    <3>2. UNCHANGED <<lifecycle, initEpoch>> /\ \A q \in Posts : q.kind = "initialize" => job'[q] = job[q]
      BY <1>t, <2>1, <2>2, <3>1 DEF DispatchInitialize
    <3> QED
      BY <1>a, <1>k, <2>1, <2>3, <3>2
  <2> QED
    BY <1>f, <2>1, <2>3
<1>6. ASSUME NEW p \in Posts, Begin(p) PROVE StaleQueued'
  <2>1. p.kind # "initialize" /\ \A q \in Posts \ {p} : job'[q] = job[q]
    BY <1>6, <1>t DEF Begin, Kept, Keeps
  <2> QED
    BY <1>6, <1>a, <1>f, <1>k, <2>1 DEF Begin
<1>7. ASSUME NEW p \in Posts, Finish(p) PROVE StaleQueued'
  <2>1. p.kind = "initialize" => job[p] = "computed"
    BY <1>7 DEF Finish, Kept, Keeps
  <2>2. \A q \in Posts \ {p} : job'[q] = job[q]
    BY <1>7, <1>t DEF Finish
  <2> QED
    BY <1>7, <1>a, <1>f, <1>k, <2>1, <2>2 DEF Finish
<1>8. ASSUME NEW p \in Posts, RunWrite(p) PROVE StaleQueued'
  <2>1. job[p] = "writing" /\ job' = [job EXCEPT ![p] = "over"]
    BY <1>8, Writes
  <2>2. \A q \in Posts : job'[q] \in {"computed", "writing"} => job[q] \in {"computed", "writing"}
    BY <1>t, <2>1
  <2>3. UNCHANGED <<queue, lifecycle, initEpoch, terminated, closed>> /\ (closed => UNCHANGED awaitingNext)
    BY <1>8 DEF RunWrite
  <2>4. ~ closed /\ p \notin initResult => (awaitingNext => awaitingNext')
    BY <1>8 DEF RunWrite
  <2>5. ASSUME Left # {} PROVE Alone'
    <3>1. ~ closed => p.kind # "initialize" /\ awaitingNext
      BY <1>a, <2>1, <2>5 DEF Alone
    <3>2. ~ closed => awaitingNext'
      BY <2>4, <3>1 DEF Accepted
    <3> QED
      BY <1>a, <2>2, <2>3, <2>5, <3>2 DEF Alone, SessionState
  <2> QED
    BY <1>f, <2>3, <2>5
<1>9. ASSUME NEW m \in Notes, PostNote(m) PROVE StaleQueued'
  <2>1. m \notin Past' /\ m \in Posts \cup Notes
    BY <1>t DEF Past
  <2> QED
    BY <1>9, <1>a, <1>g, <1>k, <2>1 DEF PostNote
<1>10. ASSUME NEW m \in Notes, DispatchNote(m) PROVE StaleQueued'
  <2>1. /\ UNCHANGED <<initEpoch, terminated, awaitingNext, closed, job>>
        /\ lifecycle' = lifecycle \/ (lifecycle = "awaiting" /\ lifecycle' = "ready")
        /\ queue # <<>> /\ queue' = Tail(queue)
    BY <1>10 DEF DispatchNote
  <2>2. Left # {} => Alone'
    BY <1>a, <2>1 DEF Alone, SessionState
  <2> QED
    BY <1>f, <2>1, <2>2
<1>11. ASSUME NEW t \in Tellings, Report(t) \/ Update(t) \/ RunTelling(t) PROVE StaleQueued'
  BY <1>11, <1>a, <1>f, <1>k DEF Report, Update, Send, RunTelling
<1> QED
  BY <1>1, <1>2, <1>3, <1>4, <1>5, <1>6, <1>7, <1>8, <1>9, <1>10, <1>11 DEF Next

\* What is left on the strand.
LEMMA StaleComputedKept ==
  ASSUME Typed, PostsShape, LineShape, Accepted, OneInitialize, Kept, StaleQueued, StaleComputed, Next
  PROVE  StaleComputed'
<1> USE DEF serverVars, handlerVars
<1>t. /\ http \in [Posts \cup Notes -> Https] /\ job \in [Posts -> Jobs]
      /\ epoch \in [Posts -> Nat] /\ Posts \cap Notes = {}
      /\ terminated \in Nat /\ initResult \subseteq Posts
  BY PostAssumption, BoundAssumption DEF Typed
<1> DEFINE Held == {"admitted", "computed", "handling"}
           Alone == awaitingNext /\ \A q \in Posts : q.kind = "initialize" => job[q] # "writing"
\* Another dispatch under way is not left.
<1>c. ASSUME ~closed, NEW x \in Posts, Stale(x), job[x] \in Held, epoch[x] = terminated
      PROVE  job[x] = "computed" /\ Alone
  BY <1>c DEF StaleComputed, Past
<1>p. ASSUME UNCHANGED terminated PROVE \A x \in Posts : job[x] \in Held /\ job'[x] \in Held /\ Stale(x)' => Stale(x)
  <2>1. \A x \in Posts : job[x] \in Held /\ job'[x] \in Held => job[x] \in Way /\ job'[x] \in Way
    BY DEF Way
  <2> QED
    BY <1>p, <2>1, Freshness
<1>q. ASSUME ~closed' => \A x \in Posts : Stale(x)' /\ job'[x] \in Held /\ epoch'[x] = terminated'
                                           => job'[x] = "computed" /\ Alone'
      PROVE  StaleComputed'
  BY <1>q DEF StaleComputed, Past
<1>f. ASSUME UNCHANGED terminated, closed' = closed, UNCHANGED epoch, awaitingNext => awaitingNext',
             \A x \in Posts : /\ job'[x] \in Held => job[x] \in Held /\ (job[x] = "computed" => job'[x] = "computed")
                              /\ x.kind = "initialize" /\ job'[x] = "writing" => job[x] = "writing"
      PROVE  StaleComputed'
  <2> SUFFICES ASSUME ~closed', NEW x \in Posts, Stale(x)', job'[x] \in Held, epoch'[x] = terminated'
               PROVE  job'[x] = "computed" /\ Alone'
    BY <1>q
  <2>1. job[x] \in Held /\ Stale(x) /\ epoch[x] = terminated
    BY <1>f, <1>p
  <2>2. job[x] = "computed" /\ Alone
    BY <1>c, <1>f, <2>1
  <2> QED
    BY <1>f, <2>2
<1> HIDE DEF Held
<1>h. Held = {"admitted", "computed", "handling"}
  BY DEF Held
<1>1. CASE Delete
  <2>1. \A x \in Posts : epoch'[x] # terminated'
    BY <1>1, <1>t DEF Delete, Accepted
  <2> QED
    BY <1>q, <2>1
<1>2. CASE Close
  BY <1>2, <1>q DEF Close
<1>3. ASSUME NEW p \in Posts, PostRequest(p) PROVE StaleComputed'
  <2>1. /\ job' = [job EXCEPT ![p] = "queued"] /\ UNCHANGED <<terminated, closed, epoch, awaitingNext>>
    BY <1>3 DEF PostRequest
  <2>2. job'[p] = "queued" /\ \A x \in Posts \ {p} : job'[x] = job[x]
    BY <1>t, <2>1
  <2> QED
    BY <1>f, <1>h, <2>1, <2>2
<1>4. ASSUME NEW p \in Posts, Respond(p) PROVE StaleComputed'
  BY <1>4, <1>f DEF Respond
<1>5. ASSUME NEW p \in Posts, DispatchRequest(p) PROVE StaleComputed'
  <2>1. /\ epoch'[p] = terminated /\ \A x \in Posts \ {p} : epoch'[x] = epoch[x]
        /\ UNCHANGED <<terminated, closed, awaitingNext, origin, http>>
    BY <1>5, <1>t DEF DispatchRequest
  <2>2. PICK j \in Strand : /\ job' = [job EXCEPT ![p] = j]
                            /\ j = "admitted" => /\ SessionState = "ready"
                                                 /\ p.kind \notin {"initialize", "discover"}
    BY <1>5, Dispatches
  <2>3. job'[p] = j /\ j \in {"admitted", "computed"} /\ \A x \in Posts \ {p} : job'[x] = job[x]
    BY <1>t, <2>2 DEF Strand
  <2>4. p \in Elems(queue) /\ job[p] = "queued"
    BY <1>5, Dispatches
  <2> SUFFICES ASSUME ~closed', NEW x \in Posts, Stale(x)', job'[x] \in Held, epoch'[x] = terminated'
               PROVE  job'[x] = "computed" /\ Alone'
    BY <1>q
  <2>5. Stale(x) /\ ~closed
    BY <2>1 DEF Stale
  <2>6. CASE x = p
    <3>1. /\ SessionState = "uninitialized" /\ awaitingNext
          /\ \A q \in Posts : q.kind = "initialize" => job[q] \notin {"computed", "writing"}
      BY <2>4, <2>5, <2>6 DEF StaleQueued, Past
    <3> QED
      BY <2>1, <2>2, <2>3, <2>6, <3>1
  <2>7. CASE x # p
    <3>1. job[x] = "computed" /\ Alone
      BY <1>c, <2>1, <2>3, <2>5, <2>7
    <3> QED
      BY <2>1, <2>3, <2>7, <3>1
  <2> QED
    BY <2>6, <2>7
<1>6. ASSUME NEW p \in Posts, Begin(p) PROVE StaleComputed'
  <2>1. /\ job[p] = "admitted" /\ job'[p] \in {"handling", "computed"} /\ \A x \in Posts \ {p} : job'[x] = job[x]
        /\ UNCHANGED <<terminated, closed, epoch, awaitingNext>>
    BY <1>6, <1>t DEF Begin
  <2> QED
    BY <1>f, <1>h, <2>1
\* Nobody holds the strand when a handler comes back to it.
<1>7. ASSUME NEW p \in Posts, Finish(p) PROVE StaleComputed'
  <2>1. /\ job[p] = "computed" \/ StrandFree
        /\ job'[p] \in {"writing", "over"} /\ \A x \in Posts \ {p} : job'[x] = job[x]
        /\ UNCHANGED <<terminated, closed, epoch, awaitingNext>>
    BY <1>7, <1>t DEF Finish
  <2> SUFFICES ASSUME ~closed', NEW x \in Posts, Stale(x)', job'[x] \in Held, epoch'[x] = terminated'
               PROVE  FALSE
    BY <1>q
  <2>2. x # p /\ job[x] \in Held /\ Stale(x)
    BY <1>h, <1>p, <2>1
  <2>3. job[x] = "computed"
    BY <1>c, <2>1, <2>2
  <2> QED
    BY <2>1, <2>2, <2>3 DEF PostsShape, Strand, StrandFree
<1>8. ASSUME NEW p \in Posts, RunWrite(p) PROVE StaleComputed'
  <2>1. job[p] = "writing" /\ job'[p] = "over" /\ \A x \in Posts \ {p} : job'[x] = job[x]
    BY <1>8, <1>t, Writes
  <2>2. UNCHANGED <<terminated, closed, epoch>> /\ (~closed /\ p \notin initResult => (awaitingNext => awaitingNext'))
    BY <1>8 DEF RunWrite
  <2> SUFFICES ASSUME ~closed', NEW x \in Posts, Stale(x)', job'[x] \in Held, epoch'[x] = terminated'
               PROVE  job'[x] = "computed" /\ Alone'
    BY <1>q
  <2>3. x # p /\ job[x] \in Held /\ Stale(x)
    BY <1>h, <1>p, <2>1, <2>2
  <2>4. job[x] = "computed" /\ Alone
    BY <1>c, <2>1, <2>2, <2>3
  <2>5. p \notin initResult
    BY <2>1, <2>4 DEF Accepted
  <2> QED
    BY <2>1, <2>2, <2>3, <2>4, <2>5
<1>9. ASSUME NEW m \in Notes, PostNote(m) \/ DispatchNote(m) PROVE StaleComputed'
  BY <1>9, <1>f DEF PostNote, DispatchNote
<1>11. ASSUME NEW t \in Tellings, Report(t) \/ Update(t) \/ RunTelling(t) PROVE StaleComputed'
  BY <1>11, <1>f DEF Report, Update, Send, RunTelling
<1> QED
  BY <1>1, <1>2, <1>3, <1>4, <1>5, <1>6, <1>7, <1>8, <1>9, <1>11 DEF Next

\* What is left in the writer.
LEMMA StaleWrittenKept ==
  ASSUME Typed, PostsShape, LineShape, LineShape', Accepted, OneInitialize, Kept, Kept',
         StaleComputed, StaleWritten, Next
  PROVE  StaleWritten'
<1> USE DEF serverVars, handlerVars
<1>t. /\ http \in [Posts \cup Notes -> Https] /\ job \in [Posts -> Jobs]
      /\ origin \in [Posts -> Nat] /\ epoch \in [Posts -> Nat] /\ terminated \in Nat
      /\ Posts \cap Notes = {} /\ Posts \cap Tellings = {} /\ NoPost \notin Posts
      /\ outbox \in Seq(Posts \cup Tellings) /\ cause \in [Tellings -> Posts \cup {NoPost}]
      /\ initResult \subseteq Posts
  BY PostAssumption, BoundAssumption DEF Typed, MaxSessions
<1> DEFINE Caused == \A t \in Elems(outbox) \cap Tellings : cause[t] # NoPost
           Old == Elems(outbox) \cap Leftover
<1>a. Caused /\ (~closed => InFront(outbox, Leftover) /\ (Old # {} => awaitingNext))
  BY DEF StaleWritten
<1>q. ASSUME Caused', ~closed' => InFront(outbox', Leftover') /\ (Old' # {} => awaitingNext') PROVE StaleWritten'
  BY <1>q DEF StaleWritten
<1> HIDE DEF Caused, Old
\* Nobody in the writer becomes old.
<1>p. ASSUME UNCHANGED terminated
      PROVE  /\ Elems(outbox') \cap Elems(outbox) \cap Leftover' \subseteq Leftover
             /\ \A t \in Elems(outbox) \cap Tellings : cause'[t] # NoPost
  <2>1. \A x \in Elems(outbox') \cap Elems(outbox) \cap Posts : job[x] = "writing" /\ job'[x] = "writing"
    BY DEF LineShape
  <2>2. \A x \in Elems(outbox') \cap Elems(outbox) \cap Posts : Stale(x)' => Stale(x)
    BY <1>p, <2>1, Freshness DEF Way
  <2>3. \A t \in Elems(outbox) \cap Tellings : cause'[t] # NoPost /\ (StaleNews(t)' => StaleNews(t))
    BY <1>a, <1>p, Freshness DEF Caused
  <2> QED
    BY <2>2, <2>3 DEF Leftover, Past, OldNews
<1>f. ASSUME UNCHANGED terminated, outbox' = outbox \/ (outbox # <<>> /\ outbox' = Tail(outbox)), closed' = closed,
             ~closed /\ Old # {} => awaitingNext'
      PROVE  StaleWritten'
  <2>1. Elems(outbox') \subseteq Elems(outbox)
    BY <1>t, <1>f, QueueTail
  <2>2. Elems(outbox') \cap Leftover' \subseteq Leftover
    BY <1>f, <1>p, <2>1
  <2>3. ~closed => InFront(outbox', Leftover')
    BY <1>a, <1>f, <1>t, <2>2, OrderKept
  <2>4. Old' # {} => Old # {}
    BY <2>1, <2>2 DEF Old
  <2>5. Caused'
    BY <1>f, <1>p, <2>1 DEF Caused
  <2> QED
    BY <1>f, <1>q, <2>3, <2>4, <2>5
<1>g. ASSUME UNCHANGED <<terminated, awaitingNext, closed>>, NEW e \in Posts \cup Tellings, outbox' = Append(outbox, e),
             e \in Tellings => cause'[e] # NoPost,
             ~closed /\ e \in Leftover' => awaitingNext /\ \A x \in Elems(outbox) \cup {e} : x.kind # "initialize"
      PROVE  StaleWritten'
  <2>0. e \in Posts \cup Tellings /\ outbox \in Seq(Posts \cup Tellings) /\ outbox' = Append(outbox, e)
    BY <1>t, <1>g
  <2>1. Elems(outbox') = Elems(outbox) \cup {e}
    BY <2>0, QueueAppend
  <2>2. Elems(outbox) \cap Leftover' \subseteq Leftover
    BY <1>g, <1>p, <2>1
  <2>3. ASSUME ~closed PROVE InFront(outbox', Leftover')
    <3>1. InFront(outbox, Leftover)
      BY <1>a, <2>3
    <3>2. e \in Leftover' => \A x \in Elems(outbox) \cup {e} : x.kind # "initialize"
      BY <1>g, <2>3
    <3> QED
      BY <2>0, <2>2, <3>1, <3>2, OrderAppended
  <2>4. ~closed /\ Old' # {} => awaitingNext'
    BY <1>a, <1>g, <2>1, <2>2 DEF Old
  <2>5. Caused'
    BY <1>g, <1>p, <2>1 DEF Caused
  <2> QED
    BY <1>g, <1>q, <2>3, <2>4, <2>5
<1>1. CASE Delete
  <2>1. \A x \in Elems(outbox) : x.kind # "initialize"
    BY <1>1, NoneUnderWay DEF Delete
  <2>2. InFront(outbox', Leftover')
    BY <1>1, <2>1 DEF Delete, InFront, Elems
  <2>3. Caused'
    BY <1>1, <1>a DEF Delete, Caused
  <2> QED
    BY <1>1, <1>q, <2>2, <2>3 DEF Delete
<1>2. CASE Close
  <2>1. Caused'
    BY <1>2, <1>a DEF Close, Caused
  <2> QED
    BY <1>2, <1>q, <2>1 DEF Close
<1>3. ASSUME NEW p \in Posts, PostRequest(p) \/ Respond(p) \/ DispatchRequest(p) \/ Begin(p) PROVE StaleWritten'
  BY <1>3, <1>a, <1>f DEF PostRequest, Respond, DispatchRequest, Begin
<1>7. ASSUME NEW p \in Posts, Finish(p) PROVE StaleWritten'
  <2>1. job[p] \in {"computed", "handling"} /\ UNCHANGED <<terminated, closed, awaitingNext, epoch>>
    BY <1>7 DEF Finish
  <2>2. CASE ~ SameSession(p)
    BY <1>7, <1>a, <1>f, <2>1, <2>2 DEF Finish
  <2>3. CASE SameSession(p)
    <3>1. outbox' = Append(outbox, p) /\ job'[p] = "writing" /\ epoch[p] = terminated
      BY <1>7, <1>t, <2>3 DEF Finish, SameSession
    <3>2. p \notin Tellings
      BY <1>t
    <3>3. ASSUME ~closed, p \in Leftover' PROVE awaitingNext /\ \A x \in Elems(outbox) \cup {p} : x.kind # "initialize"
      <4>1. Stale(p)' /\ job[p] \in Way /\ job'[p] \in Way
        BY <2>1, <3>1, <3>2, <3>3 DEF Leftover, Past, OldNews, Way
      <4>2. Stale(p)
        BY <2>1, <4>1, Freshness
      <4>3. awaitingNext /\ \A q \in Posts : q.kind = "initialize" => job[q] # "writing"
        BY <2>1, <3>1, <3>3, <4>2 DEF StaleComputed, Past
      <4>4. \A x \in Elems(outbox) \cap Posts : x.kind # "initialize"
        BY <4>3 DEF LineShape
      <4>5. p.kind # "initialize"
        BY <3>3, <4>2 DEF OneInitialize, Stale
      <4>6. Elems(outbox) \subseteq Posts \cup Tellings
        BY <1>t, ElemsIn
      <4> QED
        BY <4>3, <4>4, <4>5, <4>6, PostAssumption
    <3> QED
      BY <1>g, <2>1, <3>1, <3>2, <3>3
  <2> QED
    BY <2>2, <2>3
<1>8. ASSUME NEW p \in Posts, RunWrite(p) PROVE StaleWritten'
  <2>1. /\ UNCHANGED <<terminated, closed>> /\ outbox # <<>> /\ Head(outbox) = p /\ outbox' = Tail(outbox)
        /\ (~closed /\ p \notin initResult => (awaitingNext => awaitingNext'))
    BY <1>8 DEF RunWrite
  <2>2. ASSUME ~closed, Old # {} PROVE awaitingNext'
    <3>1. p.kind # "initialize" /\ awaitingNext
      BY <1>a, <1>t, <2>1, <2>2, FirstInLine DEF Old
    <3> QED
      BY <2>1, <2>2, <3>1 DEF Accepted
  <2> QED
    BY <1>f, <2>1, <2>2
<1>9. ASSUME NEW m \in Notes, PostNote(m) \/ DispatchNote(m) PROVE StaleWritten'
  BY <1>9, <1>a, <1>f DEF PostNote, DispatchNote
\* A notification that enters the writer is meant for this session.
<1>s. ASSUME NEW t \in Tellings, NEW p \in Posts, Keeps(p), ConcernsSession(p), Send(t, p) PROVE StaleWritten'
  <2>1. /\ outbox' = Append(outbox, t) /\ cause'[t] = p /\ UNCHANGED <<terminated, closed, awaitingNext, origin, epoch, began>>
        /\ began[p] = terminated
    BY <1>s, <1>t DEF Send, ConcernsSession
  <2>2. origin[p] \in {0, epoch[p] + 1}
    BY <1>s DEF Kept
  <2>3. ~ StaleNews(t)'
    BY <2>1, <2>2 DEF StaleNews, CutShort
  <2>4. t \notin Leftover' /\ cause'[t] # NoPost
    BY <1>t, <2>1, <2>3 DEF Leftover, Past, OldNews
  <2> QED
    BY <1>g, <2>1, <2>4
<1>11. ASSUME NEW t \in Tellings, Report(t) PROVE StaleWritten'
  BY <1>11, <1>s DEF Report, Keeps
<1>12. ASSUME NEW t \in Tellings, Update(t) PROVE StaleWritten'
  <2>1. subscription \in Posts /\ Keeps(subscription)
    BY <1>12 DEF Update, Typed, Keeps
  <2>2. CASE ConcernsSession(subscription)
    BY <1>12, <1>s, <2>1, <2>2 DEF Update
  <2>3. CASE ~ ConcernsSession(subscription)
    BY <1>12, <1>a, <1>f, <2>3 DEF Update
  <2> QED
    BY <2>2, <2>3
<1>13. ASSUME NEW t \in Tellings, RunTelling(t) PROVE StaleWritten'
  BY <1>13, <1>a, <1>f DEF RunTelling
<1> QED
  BY <1>1, <1>2, <1>3, <1>7, <1>8, <1>9, <1>11, <1>12, <1>13 DEF Next

LEMMA CleanStart == Init => CInv
<1> SUFFICES ASSUME Init PROVE CInv
  OBVIOUS
<1> USE DEF Init
<1>1. OneInitialize /\ History
  BY DEF OneInitialize, History, Way
<1>2. Kept
  BY PostAssumption DEF Kept, Keeps
<1>3. StaleQueued /\ StaleWritten
  BY NothingThere DEF StaleQueued, StaleWritten, InFront
<1>4. StaleComputed
  BY DEF StaleComputed, Past
<1> QED
  BY <1>1, <1>2, <1>3, <1>4 DEF CInv

LEMMA CleanKept == ASSUME OneClientAtATime, IInv, IInv', CInv, Next PROVE CInv'
<1>1. /\ Typed /\ PostsShape /\ LineShape /\ LineShape' /\ Accepted
      /\ OneInitialize /\ Kept /\ History /\ StaleQueued /\ StaleComputed /\ StaleWritten
  BY DEF IInv, CInv
<1>2. OneInitialize' /\ Kept'
  BY <1>1, OneInitializeKept, KeptKept
<1>3. History'
  BY <1>1, RecordKept
<1>4. StaleQueued' /\ StaleComputed'
  BY <1>1, StaleQueuedKept, StaleComputedKept
<1>5. StaleWritten'
  BY <1>1, <1>2, StaleWrittenKept
<1> QED
  BY <1>2, <1>3, <1>4, <1>5 DEF CInv

---------------------------------------------------------------------------
\* The theorems

THEOREM Invariance == Safety => []IInv
<1>1. ASSUME IInv, [Next]_vars PROVE IInv'
  <2>1. CASE Next
    BY <1>1, <2>1, TypesKept, PostsKept, LineKept, AcceptedKept, FirstKept DEF IInv
  <2>2. CASE UNCHANGED vars
    <3> USE <2>2 DEF vars, serverVars, handlerVars
    <3>1. Typed'
      BY <1>1 DEF IInv, Typed
    <3>2. PostsShape' /\ LineShape'
      BY <1>1 DEF IInv, PostsShape, LineShape, Registered
    <3>3. Accepted' /\ FirstSession'
      BY <1>1 DEF IInv, Accepted, FirstSession
    <3> QED
      BY <3>1, <3>2, <3>3 DEF IInv
  <2> QED
    BY <1>1, <2>1, <2>2
<1> QED
  BY <1>1, Start, PTL DEF Safety

\* Every variable keeps to its values.
THEOREM TypeCorrect == Safety => []TypeOK
<1>1. IInv => TypeOK
  BY NamedTypes DEF IInv
<1> QED
  BY <1>1, Invariance, PTL

\* dispatch_request_wire holds each client to its own handshake: a handler runs only if
\* an initialize was accepted after the last session ended.
THEOREM HandshakeFirst == Safety => []NoCallBeforeInitialize
<1>1. IInv => NoCallBeforeInitialize
  BY DEF IInv, Accepted, NoCallBeforeInitialize
<1> QED
  BY <1>1, Invariance, PTL

\* Until a DELETE ends the first session every POST gets the answer to its own request,
\* however its ids are used again: pending_responses has an entry for each request under
\* way, and keys are refused while they are in use.  (An id used again across a DELETE
\* breaks this: MCHttpCrossed.)
THEOREM AnswersToTheirOwners == Safety => [](terminated = 0 => OwnAnswer)
<1>1. IInv => (terminated = 0 => OwnAnswer)
  BY DEF IInv, FirstSession, OwnAnswer
<1> QED
  BY <1>1, Invariance, PTL

\* A request that waits when terminate_session ends its session is answered 404, even if
\* its answer was there: no step that ends a session leaves an entry unmarked, or answers.
THEOREM EndedStaysEnded == Safety => EndedIsFinal
<1>1. ASSUME IInv, [Next]_vars
      PROVE  [terminated' # terminated =>
                \A p \in Registered : http'[p] = "ended" /\ outcome'[p] = "none"]_vars
  <2> SUFFICES ASSUME Next, terminated' # terminated, NEW p \in Registered
               PROVE  http'[p] = "ended" /\ outcome'[p] = "none"
    BY <1>1
  <2>1. Delete
    BY DEF Next, Close, PostRequest, Respond, DispatchRequest, Begin, Finish, RunWrite, PostNote,
       DispatchNote, Report, Update, Send, RunTelling
  <2>2. outcome[p] = "none"
    BY <1>1 DEF IInv, PostsShape, Registered
  <2> QED
    BY <2>1, <2>2 DEF Delete, EndedByDelete, Registered
<1> QED
  BY <1>1, Invariance, PTL DEF Safety, EndedIsFinal


\* "Nothing of the ended session carries over to the next client" (terminate_session in
\* http_server.cpp): neither answers nor subscriptions nor what its handlers still report
\* nor its log level, for clients that know of each other.
THEOREM CleanSessions ==
  ASSUME OneClientAtATime PROVE Safety => []NothingCarriesOver
<1>1. IInv /\ IInv' /\ CInv /\ [Next]_vars => CInv'
  <2> SUFFICES ASSUME IInv, IInv', CInv, [Next]_vars PROVE CInv'
    OBVIOUS
  <2>1. CASE Next
    BY <2>1, CleanKept
  <2>2. CASE UNCHANGED vars
    <3> USE <2>2 DEF vars, serverVars, handlerVars
    <3>1. UNCHANGED <<Past, Leftover, SessionState>>
      BY DEF Past, Leftover, OldNews, Stale, StaleNews, CutShort, SessionState
    <3>2. OneInitialize' /\ Kept'
      BY DEF CInv, OneInitialize, Kept, Keeps, SessionState
    <3>3. History'
      BY DEF CInv, History, StaleNews, CutShort
    <3>4. StaleQueued' /\ StaleComputed' /\ StaleWritten'
      BY <3>1 DEF CInv, StaleQueued, StaleComputed, StaleWritten, InFront, Elems
    <3> QED
      BY <3>2, <3>3, <3>4 DEF CInv
  <2> QED
    BY <2>1, <2>2
<1>2. IInv /\ CInv => NothingCarriesOver
  <2> SUFFICES ASSUME Typed, CInv PROVE NothingCarriesOver
    BY DEF IInv
  <2>1. events \subseteq Posts \cup Tellings /\ \A t \in Tellings : t.kind # "discover"
    BY PostAssumption DEF Typed
  <2>2. active => Session = terminated + 1
    BY DEF Session
  <2>3. ReplayBelongsToSession
    BY <2>1, <2>2 DEF CInv, History, ReplayBelongsToSession
  <2>4. active => \A t \in events \cap Tellings : origin[cause[t]] \in {0, Session} \/ CutShort(cause[t])
    BY <2>2 DEF CInv, History, StaleNews
  <2>5. ASSUME SessionState # "uninitialized", logLevel # NoPost
        PROVE  origin[logLevel] \in {0, terminated + 1} \/ CutShort(logLevel)
    <3>1. logLevel \in Posts /\ Keeps(logLevel) /\ Kept
      BY <2>5 DEF Typed, Keeps, CInv
    <3>2. began[logLevel] = terminated /\ origin[logLevel] \in {0, epoch[logLevel] + 1}
      BY <2>5, <3>1 DEF Kept
    <3> QED
      BY <3>2 DEF CutShort
  <2> QED
    BY <2>3, <2>4, <2>5 DEF NothingCarriesOver, OnlyItsOwn
<1> QED
  BY <1>1, <1>2, CleanStart, Invariance, PTL DEF Safety

=============================================================================

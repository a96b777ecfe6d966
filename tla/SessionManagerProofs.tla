-------------------------- MODULE SessionManagerProofs --------------------------
(***************************************************************************)
(* Theorems about SessionManager, for every set of sessions and requests:   *)
(* close() misses no session, replies go to those who asked and free their  *)
(* id, and every event reaches the client on one stream or by the replay.   *)
(*                                                                         *)
(* The inductive invariant says where a session is in its life, where the   *)
(* handle_post and the entry of a request are, that a request is at most    *)
(* once on its way through the Server of its session, and that while the    *)
(* session lives the entry of a request on its way is there and has not     *)
(* been given anything: it is what makes the id enough to find it by.       *)
(***************************************************************************)
EXTENDS SessionManager, TLAPS

---------------------------------------------------------------------------
\* Sequences

\* What a queue holds, and that it holds no request twice.
Elems(q) == {q[i] : i \in 1..Len(q)}
Once(q) == \A i, j \in 1..Len(q) : q[i] = q[j] => i = j \/ q[i] = NoPost

\* The numbers of the events in a stream, what they are, and that none is there twice.
Nums(q) == {q[i].n : i \in 1..Len(q)}
Ofs(q) == {q[i].of : i \in 1..Len(q)}
Distinct(q) == \A i, j \in 1..Len(q) : q[i].n = q[j].n => i = j

LEMMA AppendSeq ==
  ASSUME NEW S, NEW s \in Seq(S), NEW e \in S
  PROVE  /\ Append(s, e) \in Seq(S) /\ Len(Append(s, e)) = Len(s) + 1
         /\ \A i \in 1..Len(s) : Append(s, e)[i] = s[i]
         /\ Append(s, e)[Len(s) + 1] = e
  OBVIOUS

LEMMA TailSeq ==
  ASSUME NEW S, NEW s \in Seq(S), s # <<>>
  PROVE  /\ Head(s) \in S /\ Tail(s) \in Seq(S) /\ Len(s) > 0 /\ Len(Tail(s)) = Len(s) - 1
         /\ \A i \in 1..Len(s) - 1 : Tail(s)[i] = s[i + 1]
         /\ Head(s) = s[1]
  OBVIOUS

LEMMA ConcatSeq ==
  ASSUME NEW S, NEW s \in Seq(S), NEW t \in Seq(S)
  PROVE  /\ s \o t \in Seq(S) /\ Len(s \o t) = Len(s) + Len(t)
         /\ \A i \in 1..Len(s) : (s \o t)[i] = s[i]
         /\ \A i \in Len(s) + 1..Len(s) + Len(t) : (s \o t)[i] = t[i - Len(s)]
  OBVIOUS

LEMMA SuffixSeq ==
  ASSUME NEW S, NEW s \in Seq(S), NEW m \in 1..Len(s) + 1
  PROVE  /\ SubSeq(s, m, Len(s)) \in Seq(S) /\ Len(SubSeq(s, m, Len(s))) = Len(s) - m + 1
         /\ \A i \in 1..Len(s) - m + 1 : SubSeq(s, m, Len(s))[i] = s[m + i - 1]
  OBVIOUS

\* A sequence is the function of its places.
LEMMA SeqIsFunction ==
  ASSUME NEW S, NEW s \in Seq(S) PROVE s = [i \in 1..Len(s) |-> s[i]]
  OBVIOUS

\* A request that comes to the end of a queue, and one that leaves its front.
LEMMA QueueAppend ==
  ASSUME NEW S, NEW q \in Seq(S), NEW e \in S
  PROVE  /\ Elems(Append(q, e)) = Elems(q) \cup {e}
         /\ Once(q) /\ (e \in Elems(q) => e = NoPost) => Once(Append(q, e))
<1> DEFINE new == Append(q, e)
<1>1. /\ Len(new) = Len(q) + 1 /\ new[Len(q) + 1] = e
      /\ \A i \in 1..Len(q) : new[i] = q[i]
  BY AppendSeq
<1>2. Len(q) \in Nat /\ 1..Len(q) + 1 = 1..Len(q) \cup {Len(q) + 1}
  OBVIOUS
<1> HIDE DEF new
<1>3. Elems(new) = Elems(q) \cup {e}
  BY <1>1, <1>2 DEF Elems
<1>4. ASSUME Once(q), e \in Elems(q) => e = NoPost PROVE Once(new)
  <2> SUFFICES ASSUME NEW i \in 1..Len(q) + 1, NEW j \in 1..Len(q) + 1, new[i] = new[j]
               PROVE  i = j \/ new[i] = NoPost
    BY <1>1 DEF Once
  <2>1. CASE i \in 1..Len(q) /\ j \in 1..Len(q)
    BY <1>1, <1>4, <2>1 DEF Once
  <2>2. CASE i = Len(q) + 1 \/ j = Len(q) + 1
    BY <1>1, <1>2, <1>4, <2>2 DEF Elems
  <2> QED
    BY <1>2, <2>1, <2>2
<1> QED
  BY <1>3, <1>4 DEF new

LEMMA QueueTail ==
  ASSUME NEW S, NEW q \in Seq(S), q # <<>>
  PROVE  /\ Head(q) \in Elems(q) /\ Elems(Tail(q)) \subseteq Elems(q)
         /\ Once(q) => /\ Once(Tail(q))
                       /\ Head(q) \in Elems(Tail(q)) => Head(q) = NoPost
<1> DEFINE new == Tail(q)
<1>1. /\ Len(q) \in Nat \ {0} /\ Len(new) = Len(q) - 1 /\ Head(q) = q[1]
      /\ \A i \in 1..Len(q) - 1 : new[i] = q[i + 1] /\ i + 1 \in 1..Len(q) /\ i + 1 # 1
      /\ \A i, j \in 1..Len(q) - 1 : i + 1 = j + 1 => i = j
  BY TailSeq
<1> HIDE DEF new
<1>2. Head(q) \in Elems(q) /\ Elems(new) \subseteq Elems(q)
  BY <1>1 DEF Elems
<1>3. ASSUME Once(q) PROVE Once(new)
  BY <1>1, <1>3 DEF Once
<1>4. ASSUME Once(q), Head(q) \in Elems(new) PROVE Head(q) = NoPost
  BY <1>1, <1>4 DEF Once, Elems
<1> QED
  BY <1>2, <1>3, <1>4 DEF new

\* Two streams one behind the other.
LEMMA StreamConcat ==
  ASSUME NEW S, NEW q \in Seq(S), NEW r \in Seq(S)
  PROVE  /\ Nums(q \o r) = Nums(q) \cup Nums(r) /\ Ofs(q \o r) = Ofs(q) \cup Ofs(r)
         /\ Distinct(q) /\ Distinct(r) /\ Nums(q) \cap Nums(r) = {} => Distinct(q \o r)
<1> DEFINE new == q \o r
<1>1. /\ Len(q) \in Nat /\ Len(r) \in Nat /\ Len(new) = Len(q) + Len(r)
      /\ \A i \in 1..Len(q) : new[i] = q[i] /\ i \in 1..Len(new)
      /\ \A i \in 1..Len(r) : new[Len(q) + i] = r[i] /\ Len(q) + i \in 1..Len(new)
      /\ \A k \in 1..Len(new) : k \in 1..Len(q) \/ \E i \in 1..Len(r) : k = Len(q) + i
  <2>1. /\ Len(new) = Len(q) + Len(r) /\ Len(q) \in Nat /\ Len(r) \in Nat
        /\ \A i \in 1..Len(q) : new[i] = q[i]
        /\ \A i \in Len(q) + 1..Len(q) + Len(r) : new[i] = r[i - Len(q)]
    BY ConcatSeq
  <2> HIDE DEF new
  <2>3. ASSUME NEW k \in 1..Len(new), k \notin 1..Len(q) PROVE \E i \in 1..Len(r) : k = Len(q) + i
    <3>1. k - Len(q) \in 1..Len(r) /\ k = Len(q) + (k - Len(q))
      BY <2>1, <2>3
    <3> QED
      BY <3>1
  <2>4. ASSUME NEW i \in 1..Len(r) PROVE new[Len(q) + i] = r[i] /\ Len(q) + i \in 1..Len(new)
    <3> DEFINE k == Len(q) + i
    <3>1. k \in Len(q) + 1..Len(q) + Len(r) /\ k - Len(q) = i /\ k \in 1..Len(q) + Len(r)
      BY <2>1
    <3> HIDE DEF k
    <3>2. new[k] = r[i] /\ k \in 1..Len(new)
      BY <2>1, <3>1
    <3> QED
      BY <3>2 DEF k
  <2>5. \A i \in 1..Len(q) : i \in 1..Len(new)
    BY <2>1
  <2> QED
    BY <2>1, <2>3, <2>4, <2>5
<1> HIDE DEF new
<1>2. Nums(new) = Nums(q) \cup Nums(r) /\ Ofs(new) = Ofs(q) \cup Ofs(r)
  <2>1. ASSUME NEW k \in 1..Len(new)
        PROVE  new[k].n \in Nums(q) \cup Nums(r) /\ new[k].of \in Ofs(q) \cup Ofs(r)
    <3>1. CASE k \in 1..Len(q)
      BY <1>1, <3>1 DEF Nums, Ofs
    <3>2. CASE \E i \in 1..Len(r) : k = Len(q) + i
      BY <1>1, <3>2 DEF Nums, Ofs
    <3> QED
      BY <1>1, <3>1, <3>2
  <2>2. \A i \in 1..Len(q) : q[i].n \in Nums(new) /\ q[i].of \in Ofs(new)
    BY <1>1 DEF Nums, Ofs
  <2>3. \A i \in 1..Len(r) : r[i].n \in Nums(new) /\ r[i].of \in Ofs(new)
    BY <1>1 DEF Nums, Ofs
  <2>4. /\ \A n \in Nums(new) : n \in Nums(q) \cup Nums(r)
        /\ \A o \in Ofs(new) : o \in Ofs(q) \cup Ofs(r)
    BY <2>1 DEF Nums, Ofs
  <2>5. /\ \A n \in Nums(q) \cup Nums(r) : n \in Nums(new)
        /\ \A o \in Ofs(q) \cup Ofs(r) : o \in Ofs(new)
    BY <2>2, <2>3 DEF Nums, Ofs
  <2> QED
    BY <2>4, <2>5
<1>3. ASSUME Distinct(q), Distinct(r), Nums(q) \cap Nums(r) = {} PROVE Distinct(new)
  <2> SUFFICES ASSUME NEW k \in 1..Len(new), NEW l \in 1..Len(new), new[k].n = new[l].n PROVE k = l
    BY DEF Distinct
  <2>1. CASE k \in 1..Len(q) /\ l \in 1..Len(q)
    BY <1>1, <1>3, <2>1 DEF Distinct
  <2>2. ASSUME NEW i \in 1..Len(r), k = Len(q) + i, l \in 1..Len(q) PROVE FALSE
    <3>1. new[k].n \in Nums(r) /\ new[l].n \in Nums(q)
      BY <1>1, <2>2 DEF Nums
    <3> QED
      BY <1>3, <3>1
  <2>3. ASSUME NEW i \in 1..Len(r), l = Len(q) + i, k \in 1..Len(q) PROVE FALSE
    <3>1. new[l].n \in Nums(r) /\ new[k].n \in Nums(q)
      BY <1>1, <2>3 DEF Nums
    <3> QED
      BY <1>3, <3>1
  <2>4. ASSUME NEW i \in 1..Len(r), NEW j \in 1..Len(r), k = Len(q) + i, l = Len(q) + j PROVE k = l
    BY <1>1, <1>3, <2>4 DEF Distinct
  <2> QED
    BY <1>1, <2>1, <2>2, <2>3, <2>4
<1> QED
  BY <1>2, <1>3 DEF new

\* One event at the end of a stream.
LEMMA StreamAppend ==
  ASSUME NEW S, NEW q \in Seq(S), NEW e \in S
  PROVE  /\ Nums(Append(q, e)) = Nums(q) \cup {e.n} /\ Ofs(Append(q, e)) = Ofs(q) \cup {e.of}
         /\ Distinct(q) /\ e.n \notin Nums(q) => Distinct(Append(q, e))
         /\ Append(q, e) = q \o <<e>>
<1>1. Append(q, e) = q \o <<e>> /\ <<e>> \in Seq(S) /\ Len(<<e>>) = 1 /\ <<e>>[1] = e
  OBVIOUS
<1>2. Nums(<<e>>) = {e.n} /\ Ofs(<<e>>) = {e.of} /\ Distinct(<<e>>)
  BY <1>1 DEF Nums, Ofs, Distinct
<1>3. /\ Nums(q \o <<e>>) = Nums(q) \cup {e.n} /\ Ofs(q \o <<e>>) = Ofs(q) \cup {e.of}
      /\ Distinct(q) /\ Nums(q) \cap {e.n} = {} => Distinct(q \o <<e>>)
  <2> DEFINE r == <<e>>
  <2>1. r \in Seq(S) /\ Nums(r) = {e.n} /\ Ofs(r) = {e.of} /\ Distinct(r)
    BY <1>1, <1>2
  <2> HIDE DEF r
  <2>2. /\ Nums(q \o r) = Nums(q) \cup {e.n} /\ Ofs(q \o r) = Ofs(q) \cup {e.of}
        /\ Distinct(q) /\ Nums(q) \cap {e.n} = {} => Distinct(q \o r)
    BY <2>1, StreamConcat
  <2> QED
    BY <2>2 DEF r
<1> QED
  BY <1>1, <1>3

LEMMA ElemsIn == ASSUME NEW S, NEW q \in Seq(S) PROVE Elems(q) \subseteq S
  BY DEF Elems

LEMMA NumsIn == ASSUME NEW q \in Seq(Event) PROVE Nums(q) \subseteq Nat
<1>1. \A i \in 1..Len(q) : q[i] \in Event
  OBVIOUS
<1>2. \A e \in Event : e.n \in Nat
  BY DEF Event
<1> QED
  BY <1>1, <1>2 DEF Nums

LEMMA NothingThere ==
  /\ Elems(<<>>) = {} /\ Once(<<>>) /\ Nums(<<>>) = {} /\ Ofs(<<>>) = {} /\ Distinct(<<>>)
  BY DEF Elems, Once, Nums, Ofs, Distinct

---------------------------------------------------------------------------
\* The replay store

\* The stored events are the newest ones, without a gap.
Window(st) ==
    /\ st.next \in Nat /\ st.events \in Seq(Nat) /\ Len(st.events) <= st.next
    /\ \A i \in 1..Len(st.events) : st.events[i] = st.next - Len(st.events) + i
    /\ Capacity > 0 /\ st.next > 0 => st.events # <<>>

LEMMA EmptyWindow == Window(EmptyStore) /\ EmptyStore.next = 0
  BY DEF Window, EmptyStore

LEMMA AppendWindow ==
  ASSUME NEW st, Window(st)
  PROVE  /\ Window(AppendEvent(st, Capacity)) /\ AppendEvent(st, Capacity).next = st.next + 1
         /\ AppendEvent(st, Capacity) \in [events : Seq(Nat), next : Nat]
<1>0. Capacity \in Nat
  BY ManagerAssumption
<1> DEFINE events == Append(st.events, st.next + 1)
           new == AppendEvent(st, Capacity)
<1>1. /\ events \in Seq(Nat) /\ Len(events) = Len(st.events) + 1
      /\ \A i \in 1..Len(events) : events[i] = st.next + 1 - Len(events) + i
  <2>1. st.next + 1 \in Nat /\ st.events \in Seq(Nat)
    BY DEF Window
  <2> HIDE DEF events
  <2>2. /\ events \in Seq(Nat) /\ Len(events) = Len(st.events) + 1
        /\ \A i \in 1..Len(st.events) : events[i] = st.events[i]
        /\ events[Len(st.events) + 1] = st.next + 1
    BY <2>1, AppendSeq DEF events
  <2>3. ASSUME NEW i \in 1..Len(events) PROVE events[i] = st.next + 1 - Len(events) + i
    <3>1. CASE i \in 1..Len(st.events)
      <4>1. st.next \in Nat /\ Len(st.events) \in Nat /\ st.events[i] = st.next - Len(st.events) + i
        BY <3>1 DEF Window
      <4>2. st.next + 1 - (Len(st.events) + 1) + i = st.next - Len(st.events) + i
        BY <3>1, <4>1
      <4> QED
        BY <2>2, <3>1, <4>1, <4>2
    <3>2. CASE i = Len(st.events) + 1
      <4>1. st.next \in Nat /\ Len(st.events) \in Nat
        BY DEF Window
      <4>2. st.next + 1 - Len(events) + i = st.next + 1
        BY <2>2, <3>2, <4>1
      <4> QED
        BY <2>2, <3>2, <4>2
    <3> QED
      BY <2>1, <2>2, <3>1, <3>2
  <2> QED
    BY <2>2, <2>3
<1>2. ASSUME TooMany(events, Capacity) PROVE Window(new) /\ new.next = st.next + 1
  <2> DEFINE m == Len(events) - Capacity + 1
  <2>1. new.events = SubSeq(events, m, Len(events)) /\ new.next = st.next + 1
    BY <1>2 DEF AppendEvent
  <2> HIDE DEF events, new
  <2>2. m \in 1..Len(events) + 1 /\ Len(events) - m + 1 = Capacity
    BY <1>0, <1>1, <1>2 DEF TooMany
  <2>3. \A i \in 1..Capacity : m + i - 1 \in 1..Len(events) /\ m + i - 1 = Len(events) - Capacity + i
    BY <1>0, <1>1, <1>2 DEF TooMany
  <2> HIDE DEF m
  <2>4. /\ new.events \in Seq(Nat) /\ Len(new.events) = Capacity
        /\ \A i \in 1..Capacity : new.events[i] = events[m + i - 1]
    <3> DEFINE rest == SubSeq(events, m, Len(events))
    <3>1. events \in Seq(Nat) /\ m \in 1..Len(events) + 1
      BY <1>1, <2>2
    <3>2. /\ rest \in Seq(Nat) /\ Len(rest) = Len(events) - m + 1
          /\ \A i \in 1..Len(events) - m + 1 : rest[i] = events[m + i - 1]
      BY <3>1, SuffixSeq
    <3> QED
      BY <2>1, <2>2, <3>2
  <2>5. Capacity <= st.next + 1 /\ st.next \in Nat /\ Len(events) \in Nat
    BY <1>0, <1>1, <1>2 DEF Window, TooMany
  <2>6. ASSUME NEW i \in 1..Capacity PROVE new.events[i] = st.next + 1 - Capacity + i
    <3>1. events[m + i - 1] = st.next + 1 - Len(events) + (m + i - 1)
      BY <1>1, <2>3
    <3>2. st.next + 1 - Len(events) + (Len(events) - Capacity + i) = st.next + 1 - Capacity + i
      BY <1>0, <2>5
    <3> QED
      BY <2>3, <2>4, <3>1, <3>2
  <2>7. Capacity > 0 => new.events # <<>>
    BY <1>0, <2>4
  <2>8. \A i \in 1..Len(new.events) : new.events[i] = new.next - Len(new.events) + i
    BY <1>0, <2>1, <2>4, <2>5, <2>6
  <2>9. new.next \in Nat /\ Len(new.events) <= new.next
    BY <1>0, <2>1, <2>4, <2>5
  <2> QED
    BY <2>1, <2>4, <2>7, <2>8, <2>9 DEF Window
<1>3. ASSUME ~ TooMany(events, Capacity) PROVE Window(new) /\ new.next = st.next + 1
  <2>1. new.events = events /\ new.next = st.next + 1
    BY <1>3 DEF AppendEvent
  <2> HIDE DEF events, new
  <2>2. Len(st.events) <= st.next /\ st.next \in Nat /\ Len(st.events) \in Nat
    BY DEF Window
  <2>3. Len(events) <= st.next + 1 /\ events # <<>> /\ st.next + 1 \in Nat
    BY <1>1, <2>2
  <2>4. \A i \in 1..Len(new.events) : new.events[i] = new.next - Len(new.events) + i
    <3>1. Len(events) \in Nat /\ st.next \in Nat
      BY <1>1, <2>2
    <3>2. ASSUME NEW i \in 1..Len(events) PROVE events[i] = st.next + 1 - Len(events) + i
      BY <1>1
    <3> QED
      BY <2>1, <3>1, <3>2
  <2>5. new.next \in Nat /\ Len(new.events) <= new.next /\ new.events \in Seq(Nat)
    BY <1>1, <2>1, <2>3
  <2> QED
    BY <2>1, <2>3, <2>4, <2>5 DEF Window
<1>4. new \in [events : Seq(Nat), next : Nat]
  <2>1. new.events \in Seq(Nat) /\ new.next \in Nat
    BY <1>2, <1>3 DEF Window
  <2>2. new = [events |-> new.events, next |-> new.next]
    BY DEF AppendEvent
  <2> HIDE DEF new
  <2> QED
    BY <2>1, <2>2
<1> QED
  BY <1>2, <1>3, <1>4

LEMMA NoGap ==
  ASSUME NEW st, Window(st), Capacity > 0, NEW last \in 1..st.next
  PROVE  EventsAfter(st, last) \subseteq {Missed(st, last)}
<1> USE DEF Window
<1> SUFFICES ASSUME NEW i \in 1..Len(st.events), st.events[i] = last
             PROVE  SubSeq(st.events, i + 1, Len(st.events)) = Missed(st, last)
  <2>1. st.events # <<>> /\ DOMAIN st.events = 1..Len(st.events)
    OBVIOUS
  <2>2. EventsAfter(st, last) = {SubSeq(st.events, i + 1, Len(st.events)) :
                                    i \in {j \in 1..Len(st.events) : st.events[j] = last}}
    BY <2>1 DEF EventsAfter
  <2> QED
    BY <2>2
<1>1. /\ i + 1 \in 1..Len(st.events) + 1 /\ Len(st.events) - (i + 1) + 1 = st.next - last
      /\ \A k \in 1..st.next - last : i + 1 + k - 1 = i + k /\ i + k \in 1..Len(st.events)
      /\ st.next - Len(st.events) + i = last /\ st.events \in Seq(Nat)
  <2>1. /\ st.next - Len(st.events) + i = last /\ st.events \in Seq(Nat) /\ st.next \in Nat
        /\ Len(st.events) \in Nat
    OBVIOUS
  <2> HIDE DEF Window
  <2>2. i + 1 \in 1..Len(st.events) + 1 /\ Len(st.events) - (i + 1) + 1 = st.next - last
    BY <2>1
  <2>3. \A k \in 1..st.next - last : i + 1 + k - 1 = i + k /\ i + k \in 1..Len(st.events)
    BY <2>1
  <2> QED
    BY <2>1, <2>2, <2>3
<1> DEFINE m == i + 1
           rest == SubSeq(st.events, m, Len(st.events))
<1>2. /\ rest \in Seq(Nat) /\ Len(rest) = st.next - last
      /\ \A k \in 1..st.next - last : rest[k] = st.events[m + k - 1]
  <2>1. m \in 1..Len(st.events) + 1 /\ Len(st.events) - m + 1 = st.next - last
    BY <1>1
  <2> HIDE DEF m
  <2>2. /\ rest \in Seq(Nat) /\ Len(rest) = Len(st.events) - m + 1
        /\ \A k \in 1..Len(st.events) - m + 1 : rest[k] = st.events[m + k - 1]
    BY <1>1, <2>1, SuffixSeq
  <2> QED
    BY <2>1, <2>2
<1>3. ASSUME NEW k \in 1..st.next - last PROVE rest[k] = last + k
  <2>1. rest[k] = st.events[i + k]
    BY <1>1, <1>2
  <2>2. st.events[i + k] = st.next - Len(st.events) + (i + k)
    BY <1>1
  <2>3. st.next - Len(st.events) + (i + k) = last + k
    <3>1. st.next \in Nat /\ Len(st.events) \in Nat /\ st.next - Len(st.events) + i = last
      BY <1>1
    <3> HIDE DEF Window
    <3> QED
      BY <3>1
  <2> QED
    BY <2>1, <2>2, <2>3
<1> HIDE DEF rest
<1>4. rest = [k \in 1..st.next - last |-> rest[k]]
  BY <1>2, SeqIsFunction
<1>5. rest = [k \in 1..st.next - last |-> last + k]
  BY <1>3, <1>4
<1> QED
  BY <1>5 DEF Missed, rest

---------------------------------------------------------------------------
\* The inductive invariant

\* Where a POST's coroutine is before it has an entry, while its entry is in the table, and once its message
\* has been written.
Early == {"idle", "creating", "resolved"}
Begun == {"registered", "checking", "arming", "waiting"}
Past == {"checking", "arming", "waiting", "done"}
Steps == {"idle", "creating", "resolved", "registered", "checking", "arming", "waiting", "done"}
Links == {"none", "open", "closed"}
Readers == {"none", "running", "ended"}
Jobs == {"none", "handling", "answered"}
Outcomes == {"none", "json", "sse", "refused", "dropped", "ended", "closed"}

\* TypeOK, its sets named, and the store.
Typed ==
    /\ closed \in BOOLEAN /\ taken \in BOOLEAN /\ jsonOnly \in BOOLEAN
    /\ sessions \subseteq used /\ used \subseteq Sessions
    /\ ending \subseteq used /\ deleting \subseteq used /\ marking \subseteq used
    /\ link \in [Sessions -> Links] /\ reader \in [Sessions -> Readers]
    /\ toServer \in [Sessions -> Seq(Posts)] /\ toClient \in [Sessions -> Seq(Posts \cup {NoPost})]
    /\ table \in [Sessions -> SUBSET Posts]
    /\ at \in [Posts -> Steps] /\ session \in [Posts -> Sessions \cup {NoSession}]
    /\ ready \subseteq Posts /\ woken \subseteq Posts
    /\ body \in [Posts -> Posts \cup {NoPost}]
    /\ stream \in [Posts -> Seq(Event)] /\ unassigned \in [Sessions -> Seq(Event)]
    /\ job \in [Posts -> Jobs] /\ outcome \in [Posts -> Outcomes]
    /\ notes \in 0..MaxNotes /\ flips \in 0..MaxFlips
    /\ store \in [Sessions -> [events : Seq(Nat), next : Nat]]

\* A session that was made is being built, in the map, being ended, or its transport
\* is closed; one in the map is open and nobody is ending it.
SessionsShape ==
    /\ taken => closed /\ sessions = {}
    /\ \A s \in sessions : link[s] = "open" /\ s \notin marking \cup deleting \cup ending
    /\ \A s \in used : \/ s \in sessions \cup deleting \cup ending \/ link[s] = "closed"
                       \/ \E p \in Posts : at[p] = "creating" /\ session[p] = s

\* A POST has a session from the moment it made or found one; nobody else knows the
\* session that one is building.
PostsShape ==
    \A p \in Posts :
        /\ at[p] = "idle" => session[p] = NoSession
        /\ at[p] \in {"creating", "resolved"} \cup Begun => session[p] \in Sessions
        /\ session[p] \in used \cup {NoSession}
        /\ outcome[p] = "none" <=> at[p] # "done"
        /\ outcome[p] = "dropped" => session[p] \notin sessions
        /\ at[p] = "creating" =>
              /\ link[session[p]] = "open"
              /\ session[p] \notin sessions \cup deleting \cup ending \cup marking
              /\ \A q \in Posts : session[q] = session[p] => q = p

\* The table of a session has an entry, of its own id, for every POST that waits;
\* beyond those only what a write on a closed transport left there.
TableShape ==
    /\ \A s \in Sessions : \A p \in table[s] :
          session[p] = s /\ (at[p] \in Begun \/ outcome[p] = "dropped")
    /\ \A s \in Sessions : \A p, q \in table[s] : p.id = q.id => p = q
    /\ \A p \in Posts : at[p] \in Begun => p \in table[session[p]]
    /\ \A p \in ready : at[p] \in Begun \cup {"done"}

\* A request is at most once on its way through the Server, in its own session.
LineShape ==
    /\ \A s \in Sessions :
          /\ Once(toServer[s]) /\ Once(toClient[s])
          /\ \A p \in Elems(toServer[s]) : session[p] = s /\ at[p] \in Past /\ job[p] = "none"
          /\ \A p \in Elems(toClient[s]) \ {NoPost} : session[p] = s /\ job[p] = "answered"
    /\ \A p \in Posts : job[p] # "none" => at[p] \in Past /\ session[p] \in Sessions

\* The request or its answer is under way.
InLine(p) ==
    \/ p \in Elems(toServer[session[p]]) \/ job[p] = "handling"
    \/ p \in Elems(toClient[session[p]])

\* While a session lives, the entry of a request under way is there and has nothing,
\* and what an entry has is the answer to its own request.
Own ==
    \A p \in Posts : session[p] \in sessions =>
        /\ ~closed => /\ InLine(p) => p \in table[session[p]] /\ p \notin ready
                      /\ at[p] \notin Past => p \notin ready
                      /\ p \in ready => body[p] = p
        /\ outcome[p] \in {"json", "sse"} => body[p] = p

\* Event numbers are those the store has counted, each on one stream of the session
\* or among those without an owner.
Numbers ==
    /\ \A s \in Sessions : /\ Window(store[s]) /\ Distinct(unassigned[s])
                           /\ \A n \in Nums(unassigned[s]) : n <= store[s].next
    /\ \A p \in Posts :
          /\ Distinct(stream[p])
          /\ at[p] \in Early => stream[p] = <<>>
          /\ session[p] = NoSession => stream[p] = <<>>
          /\ session[p] \in Sessions =>
                /\ \A n \in Nums(stream[p]) : n <= store[session[p]].next
                /\ Nums(stream[p]) \cap Nums(unassigned[session[p]]) = {}
          /\ \A q \in Posts \ {p} :
                session[q] = session[p] => Nums(stream[p]) \cap Nums(stream[q]) = {}

\* The stream of a request holds the answer its entry has, as long as set_json_only
\* was not called; of a reply sent before that also afterwards.
Answers ==
    /\ flips = 0 => ~jsonOnly /\ \A p \in Posts : body[p] # NoPost => body[p] \in Ofs(stream[p])
    /\ flips = 1 => jsonOnly
    /\ flips < 2 => \A p \in Posts : outcome[p] = "sse" => body[p] \in Ofs(stream[p])

IInv ==
    /\ Typed
    /\ SessionsShape /\ PostsShape /\ TableShape
    /\ LineShape /\ Own
    /\ Numbers /\ Answers

LEMMA NamedTypes == Typed => TypeOK
  BY DEF Typed, TypeOK, Steps, Links, Readers, Jobs, Outcomes

\* The names of places and results.
LEMMA Names ==
    /\ "idle" \in Steps /\ "creating" \in Steps /\ "resolved" \in Steps /\ "registered" \in Steps
    /\ "checking" \in Steps /\ "arming" \in Steps /\ "waiting" \in Steps /\ "done" \in Steps
    /\ "none" \in Links /\ "open" \in Links /\ "closed" \in Links
    /\ "none" \in Readers /\ "running" \in Readers /\ "ended" \in Readers
    /\ "none" \in Jobs /\ "handling" \in Jobs /\ "answered" \in Jobs
    /\ "none" \in Outcomes /\ "json" \in Outcomes /\ "sse" \in Outcomes /\ "refused" \in Outcomes
    /\ "dropped" \in Outcomes /\ "ended" \in Outcomes /\ "closed" \in Outcomes
  BY DEF Steps, Links, Readers, Jobs, Outcomes

LEMMA Start == Init => IInv
<1> SUFFICES ASSUME Init PROVE IInv
  OBVIOUS
<1> USE DEF Init
<1>1. Typed
  <2>1. /\ \A s \in Sessions : <<>> \in Seq(Posts) /\ <<>> \in Seq(Posts \cup {NoPost}) /\ <<>> \in Seq(Event)
        /\ 0 \in 0..MaxNotes /\ 0 \in 0..MaxFlips /\ <<>> \in Seq(Event)
    BY ManagerAssumption
  <2>2. EmptyStore \in [events : Seq(Nat), next : Nat]
    BY DEF EmptyStore
  <2> QED
    BY <2>1, <2>2, Names DEF Typed
<1>2. SessionsShape /\ PostsShape /\ TableShape
  BY ManagerAssumption DEF SessionsShape, PostsShape, TableShape, Begun
<1>3. LineShape /\ Own
  BY NothingThere DEF LineShape, Own
<1>4. Numbers /\ Answers
  BY NothingThere, EmptyWindow, ManagerAssumption DEF Numbers, Answers
<1> QED
  BY <1>1, <1>2, <1>3, <1>4 DEF IInv

---------------------------------------------------------------------------
\* The steps, for each part of the invariant

\* Values.
LEMMA TypesKept == ASSUME Typed, PostsShape, LineShape, Numbers, Next PROVE Typed'
<1> USE DEF sessionVars, postVars, entryVars, modeVars, Typed, Begun
<1>t. /\ at \in [Posts -> Steps] /\ session \in [Posts -> Sessions \cup {NoSession}]
      /\ outcome \in [Posts -> Outcomes] /\ link \in [Sessions -> Links] /\ reader \in [Sessions -> Readers]
      /\ table \in [Sessions -> SUBSET Posts] /\ toServer \in [Sessions -> Seq(Posts)]
      /\ sessions \subseteq used /\ ready \subseteq Posts /\ woken \subseteq Posts
      /\ body \in [Posts -> Posts \cup {NoPost}]
      /\ stream \in [Posts -> Seq(Event)] /\ unassigned \in [Sessions -> Seq(Event)]
  OBVIOUS
<1>a. \A p \in Posts : /\ (at[p] \in {"creating", "resolved"} \cup Begun => session[p] \in Sessions /\ session[p] \in used)
                        /\ (job[p] # "none" => session[p] \in Sessions)
  BY ManagerAssumption DEF PostsShape, LineShape
<1>1. CASE Close
  BY <1>1, Names, ManagerAssumption DEF Close
<1>2. CASE TakeSessions
  BY <1>2, Names, ManagerAssumption DEF TakeSessions
<1>3. CASE SetJsonOnly
  BY <1>3, Names, ManagerAssumption DEF SetJsonOnly
<1>4. ASSUME NEW p \in Posts, BeginCreate(p) PROVE Typed'
  BY <1>4, Names, ManagerAssumption DEF BeginCreate
<1>5. ASSUME NEW p \in Posts, Insert(p) PROVE Typed'
  <2>0. session[p] \in Sessions /\ session[p] \in used
    BY <1>5, <1>a DEF Insert
  <2>1. CASE MayInsert
    <3> HIDE DEF Typed
    <3>1. sessions' \subseteq used' /\ used' = used
      BY <1>5, <2>1, <1>t, Names, <2>0 DEF Insert
    <3>2. reader' \in [Sessions -> Readers]
      BY <1>5, <2>1, <1>t, Names DEF Insert
    <3>3. at' \in [Posts -> Steps]
      BY <1>5, <2>1, <1>t, Names DEF Insert
    <3> QED
      BY <1>5, <2>1, <3>1, <3>2, <3>3 DEF Typed, Insert
  <2>2. CASE ~ (MayInsert)
    <3> HIDE DEF Typed
    <3>1. link' \in [Sessions -> Links]
      BY <1>5, <2>2, <1>t, Names DEF Insert
    <3>2. at' \in [Posts -> Steps]
      BY <1>5, <2>2, <1>t, Names DEF Insert, Answer
    <3>3. outcome' \in [Posts -> Outcomes]
      BY <1>5, <2>2, <1>t, Names DEF Insert, Answer
    <3> QED
      BY <1>5, <2>2, <3>1, <3>2, <3>3 DEF Typed, Insert
  <2> QED
    BY <2>1, <2>2
<1>6. ASSUME NEW p \in Posts, Register(p) PROVE Typed'
  <2>0. session[p] \in Sessions /\ session[p] \in used
    BY <1>6, <1>a DEF Register
  <2>1. CASE IdPending(p)
    <3> HIDE DEF Typed
    <3>1. at' \in [Posts -> Steps]
      BY <1>6, <2>1, <1>t, Names DEF Register, Answer
    <3>2. outcome' \in [Posts -> Outcomes]
      BY <1>6, <2>1, <1>t, Names DEF Register, Answer
    <3> QED
      BY <1>6, <2>1, <3>1, <3>2 DEF Typed, Register
  <2>2. CASE ~ (IdPending(p))
    <3> HIDE DEF Typed
    <3>1. at' \in [Posts -> Steps]
      BY <1>6, <2>2, <1>t, Names DEF Register
    <3>2. table[session[p]] \cup {p} \in SUBSET Posts /\ table' = [table EXCEPT ![session[p]] = table[session[p]] \cup {p}]
      BY <1>6, <2>2, <1>t, Names, <2>0 DEF Register
    <3>3. table' \in [Sessions -> SUBSET Posts]
      BY <1>6, <2>2, <1>t, Names, <2>0, <3>2 DEF Register
    <3> QED
      BY <1>6, <2>2, <3>1, <3>2, <3>3 DEF Typed, Register
  <2> QED
    BY <2>1, <2>2
<1>7. ASSUME NEW p \in Posts, Write(p) PROVE Typed'
  <2>0. session[p] \in Sessions /\ session[p] \in used
    BY <1>7, <1>a DEF Write
  <2>1. CASE link[session[p]] = "open"
    <3> HIDE DEF Typed
    <3>1. at' \in [Posts -> Steps]
      BY <1>7, <2>1, <1>t, Names DEF Write
    <3>2. Append(toServer[session[p]], p) \in Seq(Posts)
      BY <1>7, <2>1, <1>t, Names, <2>0, AppendSeq DEF Write
    <3>3. toServer' \in [Sessions -> Seq(Posts)]
      BY <1>7, <2>1, <1>t, Names, <3>2 DEF Write
    <3> QED
      BY <1>7, <2>1, <3>1, <3>2, <3>3 DEF Typed, Write
  <2>2. CASE ~ (link[session[p]] = "open")
    <3> HIDE DEF Typed
    <3>1. at' \in [Posts -> Steps]
      BY <1>7, <2>2, <1>t, Names DEF Write, Answer
    <3>2. outcome' \in [Posts -> Outcomes]
      BY <1>7, <2>2, <1>t, Names DEF Write, Answer
    <3> QED
      BY <1>7, <2>2, <3>1, <3>2 DEF Typed, Write
  <2> QED
    BY <2>1, <2>2
<1>8. ASSUME NEW p \in Posts, Check(p) PROVE Typed'
  <2>0. session[p] \in Sessions /\ session[p] \in used
    BY <1>8, <1>a DEF Check
  <2>1. CASE closed \/ p \in ready
    <3> HIDE DEF Typed
    <3>1. at' \in [Posts -> Steps]
      BY <1>8, <2>1, <1>t, Names DEF Check, Answer
    <3>2. outcome' \in [Posts -> Outcomes]
      BY <1>8, <2>1, <1>t, Names DEF Check, Answer
    <3>3. table[session[p]] \ {p} \in SUBSET Posts /\ table' = [table EXCEPT ![session[p]] = table[session[p]] \ {p}]
      BY <1>8, <2>1, <1>t, Names, <2>0 DEF Check, Consumed
    <3>4. table' \in [Sessions -> SUBSET Posts]
      BY <1>8, <2>1, <1>t, Names, <2>0, <3>3 DEF Check
    <3> QED
      BY <1>8, <2>1, <3>1, <3>2, <3>3, <3>4 DEF Typed, Check
  <2>2. CASE ~ (closed \/ p \in ready)
    <3> HIDE DEF Typed
    <3>1. at' \in [Posts -> Steps]
      BY <1>8, <2>2, <1>t, Names DEF Check
    <3> QED
      BY <1>8, <2>2, <3>1 DEF Typed, Check
  <2> QED
    BY <2>1, <2>2
<1>9. ASSUME NEW p \in Posts, Arm(p) PROVE Typed'
  BY <1>9, Names, ManagerAssumption DEF Arm
<1>10. ASSUME NEW p \in Posts, RunCancel(p) PROVE Typed'
  BY <1>10, Names, ManagerAssumption DEF RunCancel, CancelRuns
<1>11. ASSUME NEW p \in Posts, ServerAnswers(p) PROVE Typed'
  <2>0. session[p] \in Sessions
    BY <1>11, <1>a DEF ServerAnswers
  <2>1. CASE link[session[p]] = "open"
    BY <1>11, <2>1, <2>0, Names, ManagerAssumption DEF ServerAnswers
  <2>2. CASE ~ (link[session[p]] = "open")
    BY <1>11, <2>2, <2>0, Names, ManagerAssumption DEF ServerAnswers
  <2> QED
    BY <2>1, <2>2
<1>12. ASSUME NEW p \in Posts, NEW s \in Sessions, Find(p, s) PROVE Typed'
  <2>1. CASE s \in sessions
    <3> HIDE DEF Typed
    <3>1. at' \in [Posts -> Steps]
      BY <1>12, <2>1, <1>t, Names DEF Find
    <3>2. session' \in [Posts -> Sessions \cup {NoSession}]
      BY <1>12, <2>1, <1>t, Names DEF Find
    <3> QED
      BY <1>12, <2>1, <3>1, <3>2 DEF Typed, Find
  <2>2. CASE ~ (s \in sessions)
    <3> HIDE DEF Typed
    <3>1. at' \in [Posts -> Steps]
      BY <1>12, <2>2, <1>t, Names DEF Find, Answer
    <3>2. outcome' \in [Posts -> Outcomes]
      BY <1>12, <2>2, <1>t, Names DEF Find, Answer
    <3> QED
      BY <1>12, <2>2, <3>1, <3>2 DEF Typed, Find
  <2> QED
    BY <2>1, <2>2
<1>13. ASSUME NEW s \in Sessions, ServerReads(s) PROVE Typed'
  <2>1. /\ Head(toServer[s]) \in Posts /\ Tail(toServer[s]) \in Seq(Posts)
    BY <1>13, TailSeq DEF ServerReads
  <2>2. toServer' \in [Sessions -> Seq(Posts)] /\ job' \in [Posts -> Jobs]
    BY <1>13, <2>1, Names DEF ServerReads
  <2> QED
    BY <1>13, <2>2 DEF ServerReads
<1>14. ASSUME NEW s \in Sessions, ServerNotifies(s) PROVE Typed'
  <2>1. NoPost \in Posts \cup {NoPost} /\ toClient[s] \in Seq(Posts \cup {NoPost})
    OBVIOUS
  <2>2. Append(toClient[s], NoPost) \in Seq(Posts \cup {NoPost})
    BY <2>1, AppendSeq
  <2>3. notes' \in 0..MaxNotes
    BY <1>14, ManagerAssumption DEF ServerNotifies
  <2> QED
    BY <1>14, <2>2, <2>3 DEF ServerNotifies, Typed
<1>15. ASSUME NEW s \in Sessions, ReadOutbound(s) PROVE Typed'
  <2> DEFINE message == Head(toClient[s])
             event == [n |-> store[s].next + 1, of |-> message]
             Handed == /\ ready' \subseteq Posts /\ woken' \subseteq Posts
                       /\ body' \in [Posts -> Posts \cup {NoPost}]
                       /\ stream' \in [Posts -> Seq(Event)] /\ unassigned' \in [Sessions -> Seq(Event)]
  <2>1. message \in Posts \cup {NoPost} /\ toClient' \in [Sessions -> Seq(Posts \cup {NoPost})]
    <3>1. message \in Posts \cup {NoPost} /\ Tail(toClient[s]) \in Seq(Posts \cup {NoPost})
      BY <1>15, TailSeq DEF ReadOutbound
    <3> QED
      BY <1>15, <3>1 DEF ReadOutbound
  <2>2. event \in Event /\ event.of = message
    <3>1. store[s].next + 1 \in Nat
      OBVIOUS
    <3> QED
      BY <2>1, <3>1 DEF Event
  <2>3. store' \in [Sessions -> [events : Seq(Nat), next : Nat]]
    <3>1. AppendEvent(store[s], Capacity) \in [events : Seq(Nat), next : Nat]
      BY AppendWindow DEF Numbers
    <3> QED
      BY <1>15, <3>1 DEF ReadOutbound
  <2> HIDE DEF event, message
  <2>4. \A q \in Seq(Event) : Append(q, event) \in Seq(Event) /\ <<>> \in Seq(Event)
    BY <2>2
  <2>5. \A q, r \in Seq(Event) : q \o r \o <<event>> \in Seq(Event)
    BY <2>2
  <2>6. ASSUME RouteNote(s, event) PROVE Handed
    <3>1. \A p \in Posts : Append(stream[p], event) \in Seq(Event)
      BY <2>4
    <3>2. Append(unassigned[s], event) \in Seq(Event)
      BY <2>4
    <3> HIDE DEF Typed
    <3>3. stream' \in [Posts -> Seq(Event)]
      <4>1. ASSUME NEW p \in table[s], stream' = [stream EXCEPT ![p] = Append(@, event)]
            PROVE  stream' \in [Posts -> Seq(Event)]
        <5>1. p \in Posts
          BY <1>t
        <5> QED
          BY <1>t, <3>1, <4>1, <5>1
      <4> QED
        BY <1>t, <2>6, <4>1 DEF RouteNote
    <3>4. unassigned' \in [Sessions -> Seq(Event)]
      BY <1>t, <2>6, <3>2 DEF RouteNote
    <3> QED
      BY <1>t, <2>6, <3>3, <3>4 DEF RouteNote
  <2>7. ASSUME message \in Posts, RouteResponse(s, message, event) PROVE Handed
    <3>1. ASSUME NEW p \in table[s],
                 stream' = IF jsonOnly THEN stream ELSE [stream EXCEPT ![p] = EventsWith(p, s, event)]
          PROVE  stream' \in [Posts -> Seq(Event)]
      <4>1. p \in Posts /\ EventsWith(p, s, event) \in Seq(Event)
        BY <2>5 DEF EventsWith
      <4> QED
        BY <3>1, <4>1
    <3>2. stream' \in [Posts -> Seq(Event)]
      BY <2>7, <3>1 DEF RouteResponse
    <3>3. unassigned' \in [Sessions -> Seq(Event)]
      BY <2>4, <2>7 DEF RouteResponse, UnassignedTaken
    <3> HIDE DEF Typed
    <3>4. ready' \subseteq Posts /\ woken' \subseteq Posts
      BY <1>t, <2>7 DEF RouteResponse
    <3>5. body' \in [Posts -> Posts \cup {NoPost}]
      <4>1. ASSUME NEW p \in table[s], body' = [body EXCEPT ![p] = message]
            PROVE  body' \in [Posts -> Posts \cup {NoPost}]
        <5>1. p \in Posts
          BY <1>t
        <5> QED
          BY <1>t, <2>7, <4>1, <5>1
      <4> QED
        BY <1>t, <2>7, <4>1 DEF RouteResponse
    <3> QED
      BY <3>2, <3>3, <3>4, <3>5
  <2>8. Handed
    BY <1>15, <2>1, <2>6, <2>7 DEF ReadOutbound, event, message
  <2> QED
    BY <1>15, <2>1, <2>3, <2>8 DEF ReadOutbound
<1>16. ASSUME NEW s \in Sessions, EndReader(s) PROVE Typed'
  BY <1>16, Names, ManagerAssumption DEF EndReader, ReaderEnds
<1>17. ASSUME NEW s \in Sessions, Delete(s) PROVE Typed'
  BY <1>17, Names, ManagerAssumption DEF Delete
<1>18. ASSUME NEW s \in Sessions, MarkWaiters(s) PROVE Typed'
  BY <1>18, Names, ManagerAssumption DEF MarkWaiters
<1>19. ASSUME NEW s \in Sessions, CloseLink(s) PROVE Typed'
  BY <1>19, Names, ManagerAssumption DEF CloseLink, LinkClosed
<1> QED
  BY <1>1, <1>2, <1>3, <1>4, <1>5, <1>6, <1>7, <1>8, <1>9, <1>10, <1>11, <1>12, <1>13, <1>14, <1>15, <1>16, <1>17, <1>18, <1>19 DEF Next


\* Sessions.
LEMMA SessionsKept == ASSUME Typed, SessionsShape, PostsShape, Next PROVE SessionsShape'
<1> USE DEF sessionVars, postVars, entryVars, modeVars, PostsShape, SessionsShape
<1>t. /\ at \in [Posts -> Steps] /\ session \in [Posts -> Sessions \cup {NoSession}]
      /\ outcome \in [Posts -> Outcomes] /\ link \in [Sessions -> Links]
      /\ table \in [Sessions -> SUBSET Posts] /\ ready \subseteq Posts
      /\ sessions \subseteq used /\ used \subseteq Sessions /\ NoSession \notin Sessions
      /\ deleting \subseteq used /\ ending \subseteq used /\ marking \subseteq used
  BY ManagerAssumption DEF Typed
<1>1. CASE Close
  BY <1>1, <1>t DEF Close
<1>2. CASE TakeSessions
  BY <1>2, <1>t DEF TakeSessions
<1>3. CASE SetJsonOnly
  BY <1>3, <1>t DEF SetJsonOnly
<1>4. ASSUME NEW p \in Posts, BeginCreate(p) PROVE SessionsShape'
  BY <1>4, <1>t DEF BeginCreate
<1>5. ASSUME NEW p \in Posts, Insert(p) PROVE SessionsShape'
  <2>1. CASE MayInsert
    BY <1>5, <2>1, <1>t DEF Insert, MayInsert, Answer
  <2>2. CASE ~ (MayInsert)
    BY <1>5, <2>2, <1>t DEF Insert, MayInsert, Answer
  <2> QED
    BY <2>1, <2>2
<1>6. ASSUME NEW p \in Posts, Register(p) PROVE SessionsShape'
  <2>1. CASE IdPending(p)
    BY <1>6, <2>1, <1>t DEF Register, Answer, IdPending
  <2>2. CASE ~ (IdPending(p))
    BY <1>6, <2>2, <1>t DEF Register, Answer, IdPending
  <2> QED
    BY <2>1, <2>2
<1>7. ASSUME NEW p \in Posts, Write(p) PROVE SessionsShape'
  <2>1. CASE link[session[p]] = "open"
    BY <1>7, <2>1, <1>t DEF Write, Answer
  <2>2. CASE ~ (link[session[p]] = "open")
    BY <1>7, <2>2, <1>t DEF Write, Answer
  <2> QED
    BY <2>1, <2>2
<1>8. ASSUME NEW p \in Posts, Check(p) PROVE SessionsShape'
  <2>1. CASE closed \/ p \in ready
    BY <1>8, <2>1, <1>t DEF Check, Answer, Consumed
  <2>2. CASE ~ (closed \/ p \in ready)
    BY <1>8, <2>2, <1>t DEF Check, Answer, Consumed
  <2> QED
    BY <2>1, <2>2
<1>9. ASSUME NEW p \in Posts, Arm(p) PROVE SessionsShape'
  BY <1>9, <1>t DEF Arm
<1>10. ASSUME NEW p \in Posts, RunCancel(p) PROVE SessionsShape'
  BY <1>10, <1>t DEF RunCancel, CancelRuns
<1>11. ASSUME NEW p \in Posts, ServerAnswers(p) PROVE SessionsShape'
  <2>1. CASE link[session[p]] = "open"
    BY <1>11, <2>1, <1>t DEF ServerAnswers
  <2>2. CASE ~ (link[session[p]] = "open")
    BY <1>11, <2>2, <1>t DEF ServerAnswers
  <2> QED
    BY <2>1, <2>2
<1>12. ASSUME NEW p \in Posts, NEW s \in Sessions, Find(p, s) PROVE SessionsShape'
  <2>1. CASE s \in sessions
    BY <1>12, <2>1, <1>t DEF Find, Answer
  <2>2. CASE ~ (s \in sessions)
    BY <1>12, <2>2, <1>t DEF Find, Answer
  <2> QED
    BY <2>1, <2>2
<1>13. ASSUME NEW s \in Sessions, ServerReads(s) PROVE SessionsShape'
  BY <1>13, <1>t DEF ServerReads
<1>14. ASSUME NEW s \in Sessions, ServerNotifies(s) PROVE SessionsShape'
  BY <1>14, <1>t DEF ServerNotifies
<1>15. ASSUME NEW s \in Sessions, ReadOutbound(s) PROVE SessionsShape'
  BY <1>15, <1>t DEF ReadOutbound, RouteNote, RouteResponse, EventsWith, UnassignedTaken
<1>16. ASSUME NEW s \in Sessions, EndReader(s) PROVE SessionsShape'
  BY <1>16, <1>t DEF EndReader, ReaderEnds
<1>17. ASSUME NEW s \in Sessions, Delete(s) PROVE SessionsShape'
  BY <1>17, <1>t DEF Delete
<1>18. ASSUME NEW s \in Sessions, MarkWaiters(s) PROVE SessionsShape'
  BY <1>18, <1>t DEF MarkWaiters
<1>19. ASSUME NEW s \in Sessions, CloseLink(s) PROVE SessionsShape'
  BY <1>19, <1>t DEF CloseLink, LinkClosed
<1> QED
  BY <1>1, <1>2, <1>3, <1>4, <1>5, <1>6, <1>7, <1>8, <1>9, <1>10, <1>11, <1>12, <1>13, <1>14, <1>15, <1>16, <1>17, <1>18, <1>19 DEF Next


\* POSTs.
LEMMA PostsKept == ASSUME Typed, SessionsShape, PostsShape, Next PROVE PostsShape'
<1> USE DEF sessionVars, postVars, entryVars, modeVars, PostsShape, SessionsShape, Begun, Past
<1>t. /\ at \in [Posts -> Steps] /\ session \in [Posts -> Sessions \cup {NoSession}]
      /\ outcome \in [Posts -> Outcomes] /\ link \in [Sessions -> Links]
      /\ table \in [Sessions -> SUBSET Posts] /\ ready \subseteq Posts
      /\ sessions \subseteq used /\ used \subseteq Sessions /\ NoSession \notin Sessions
      /\ deleting \subseteq used /\ ending \subseteq used /\ marking \subseteq used
  BY ManagerAssumption DEF Typed
<1>1. CASE Close
  BY <1>1, <1>t DEF Close
<1>2. CASE TakeSessions
  BY <1>2, <1>t DEF TakeSessions
<1>3. CASE SetJsonOnly
  BY <1>3, <1>t DEF SetJsonOnly
<1>4. ASSUME NEW p \in Posts, BeginCreate(p) PROVE PostsShape'
  <2>1. PICK s \in Sessions \ used :
           /\ used' = used \cup {s} /\ link' = [link EXCEPT ![s] = "open"]
           /\ session' = [session EXCEPT ![p] = s]
    BY <1>4 DEF BeginCreate
  <2>2. /\ at[p] = "idle" /\ at' = [at EXCEPT ![p] = "creating"]
        /\ UNCHANGED <<sessions, deleting, marking, ending, outcome>>
    BY <1>4 DEF BeginCreate
  <2>3. s \notin sessions \cup deleting \cup ending \cup marking /\ \A q \in Posts : session[q] # s
    BY <1>t, <2>1
  <2> QED
    BY <1>t, <2>1, <2>2, <2>3
<1>5. ASSUME NEW p \in Posts, Insert(p) PROVE PostsShape'
  <2>1. CASE MayInsert
    BY <1>5, <2>1, <1>t DEF Insert, MayInsert, Answer
  <2>2. CASE ~ (MayInsert)
    BY <1>5, <2>2, <1>t DEF Insert, MayInsert, Answer
  <2> QED
    BY <2>1, <2>2
<1>6. ASSUME NEW p \in Posts, Register(p) PROVE PostsShape'
  <2>1. CASE IdPending(p)
    BY <1>6, <2>1, <1>t DEF Register, Answer, IdPending
  <2>2. CASE ~ (IdPending(p))
    BY <1>6, <2>2, <1>t DEF Register, Answer, IdPending
  <2> QED
    BY <2>1, <2>2
<1>7. ASSUME NEW p \in Posts, Write(p) PROVE PostsShape'
  <2>1. CASE link[session[p]] = "open"
    BY <1>7, <2>1, <1>t DEF Write, Answer
  <2>2. CASE ~ (link[session[p]] = "open")
    BY <1>7, <2>2, <1>t DEF Write, Answer
  <2> QED
    BY <2>1, <2>2
<1>8. ASSUME NEW p \in Posts, Check(p) PROVE PostsShape'
  <2>1. CASE closed \/ p \in ready
    BY <1>8, <2>1, <1>t DEF Check, Answer, Consumed
  <2>2. CASE ~ (closed \/ p \in ready)
    BY <1>8, <2>2, <1>t DEF Check, Answer, Consumed
  <2> QED
    BY <2>1, <2>2
<1>9. ASSUME NEW p \in Posts, Arm(p) PROVE PostsShape'
  BY <1>9, <1>t DEF Arm
<1>10. ASSUME NEW p \in Posts, RunCancel(p) PROVE PostsShape'
  BY <1>10, <1>t DEF RunCancel, CancelRuns
<1>11. ASSUME NEW p \in Posts, ServerAnswers(p) PROVE PostsShape'
  <2>1. CASE link[session[p]] = "open"
    BY <1>11, <2>1, <1>t DEF ServerAnswers
  <2>2. CASE ~ (link[session[p]] = "open")
    BY <1>11, <2>2, <1>t DEF ServerAnswers
  <2> QED
    BY <2>1, <2>2
<1>12. ASSUME NEW p \in Posts, NEW s \in Sessions, Find(p, s) PROVE PostsShape'
  <2>1. CASE s \in sessions
    BY <1>12, <2>1, <1>t DEF Find, Answer
  <2>2. CASE ~ (s \in sessions)
    BY <1>12, <2>2, <1>t DEF Find, Answer
  <2> QED
    BY <2>1, <2>2
<1>13. ASSUME NEW s \in Sessions, ServerReads(s) PROVE PostsShape'
  BY <1>13, <1>t DEF ServerReads
<1>14. ASSUME NEW s \in Sessions, ServerNotifies(s) PROVE PostsShape'
  BY <1>14, <1>t DEF ServerNotifies
<1>15. ASSUME NEW s \in Sessions, ReadOutbound(s) PROVE PostsShape'
  BY <1>15, <1>t DEF ReadOutbound, RouteNote, RouteResponse, EventsWith, UnassignedTaken
<1>16. ASSUME NEW s \in Sessions, EndReader(s) PROVE PostsShape'
  BY <1>16, <1>t DEF EndReader, ReaderEnds
<1>17. ASSUME NEW s \in Sessions, Delete(s) PROVE PostsShape'
  BY <1>17, <1>t DEF Delete
<1>18. ASSUME NEW s \in Sessions, MarkWaiters(s) PROVE PostsShape'
  BY <1>18, <1>t DEF MarkWaiters
<1>19. ASSUME NEW s \in Sessions, CloseLink(s) PROVE PostsShape'
  BY <1>19, <1>t DEF CloseLink, LinkClosed
<1> QED
  BY <1>1, <1>2, <1>3, <1>4, <1>5, <1>6, <1>7, <1>8, <1>9, <1>10, <1>11, <1>12, <1>13, <1>14, <1>15, <1>16, <1>17, <1>18, <1>19 DEF Next


\* Tables.
LEMMA TableKept == ASSUME Typed, SessionsShape, PostsShape, TableShape, Next PROVE TableShape'
<1> USE DEF sessionVars, postVars, entryVars, modeVars, PostsShape, TableShape, Begun, Past
<1>t. /\ at \in [Posts -> Steps] /\ session \in [Posts -> Sessions \cup {NoSession}]
      /\ outcome \in [Posts -> Outcomes] /\ link \in [Sessions -> Links]
      /\ table \in [Sessions -> SUBSET Posts] /\ ready \subseteq Posts
      /\ sessions \subseteq used /\ used \subseteq Sessions /\ NoSession \notin Sessions
      /\ deleting \subseteq used /\ ending \subseteq used /\ marking \subseteq used
  BY ManagerAssumption DEF Typed
<1>1. CASE Close
  BY <1>1, <1>t DEF Close
<1>2. CASE TakeSessions
  BY <1>2, <1>t DEF TakeSessions
<1>3. CASE SetJsonOnly
  BY <1>3, <1>t DEF SetJsonOnly
<1>4. ASSUME NEW p \in Posts, BeginCreate(p) PROVE TableShape'
  BY <1>4, <1>t DEF BeginCreate
<1>5. ASSUME NEW p \in Posts, Insert(p) PROVE TableShape'
  <2>1. CASE MayInsert
    BY <1>5, <2>1, <1>t DEF Insert, MayInsert, Answer
  <2>2. CASE ~ (MayInsert)
    BY <1>5, <2>2, <1>t DEF Insert, MayInsert, Answer
  <2> QED
    BY <2>1, <2>2
<1>6. ASSUME NEW p \in Posts, Register(p) PROVE TableShape'
  <2>1. CASE IdPending(p)
    BY <1>6, <2>1, <1>t DEF Register, Answer, IdPending
  <2>2. CASE ~ (IdPending(p))
    BY <1>6, <2>2, <1>t DEF Register, Answer, IdPending
  <2> QED
    BY <2>1, <2>2
<1>7. ASSUME NEW p \in Posts, Write(p) PROVE TableShape'
  <2>1. CASE link[session[p]] = "open"
    BY <1>7, <2>1, <1>t DEF Write, Answer
  <2>2. CASE ~ (link[session[p]] = "open")
    BY <1>7, <2>2, <1>t DEF Write, Answer
  <2> QED
    BY <2>1, <2>2
<1>8. ASSUME NEW p \in Posts, Check(p) PROVE TableShape'
  <2>1. CASE closed \/ p \in ready
    BY <1>8, <2>1, <1>t DEF Check, Answer, Consumed
  <2>2. CASE ~ (closed \/ p \in ready)
    BY <1>8, <2>2, <1>t DEF Check, Answer, Consumed
  <2> QED
    BY <2>1, <2>2
<1>9. ASSUME NEW p \in Posts, Arm(p) PROVE TableShape'
  BY <1>9, <1>t DEF Arm
<1>10. ASSUME NEW p \in Posts, RunCancel(p) PROVE TableShape'
  BY <1>10, <1>t DEF RunCancel, CancelRuns
<1>11. ASSUME NEW p \in Posts, ServerAnswers(p) PROVE TableShape'
  <2>1. CASE link[session[p]] = "open"
    BY <1>11, <2>1, <1>t DEF ServerAnswers
  <2>2. CASE ~ (link[session[p]] = "open")
    BY <1>11, <2>2, <1>t DEF ServerAnswers
  <2> QED
    BY <2>1, <2>2
<1>12. ASSUME NEW p \in Posts, NEW s \in Sessions, Find(p, s) PROVE TableShape'
  <2>1. CASE s \in sessions
    BY <1>12, <2>1, <1>t DEF Find, Answer
  <2>2. CASE ~ (s \in sessions)
    BY <1>12, <2>2, <1>t DEF Find, Answer
  <2> QED
    BY <2>1, <2>2
<1>13. ASSUME NEW s \in Sessions, ServerReads(s) PROVE TableShape'
  BY <1>13, <1>t DEF ServerReads
<1>14. ASSUME NEW s \in Sessions, ServerNotifies(s) PROVE TableShape'
  BY <1>14, <1>t DEF ServerNotifies
<1>15. ASSUME NEW s \in Sessions, ReadOutbound(s) PROVE TableShape'
  <2>1. ready' \subseteq ready \cup table[s]
    BY <1>15 DEF ReadOutbound, RouteNote, RouteResponse
  <2>2. UNCHANGED <<table, at, session, outcome>>
    BY <1>15 DEF ReadOutbound
  <2> QED
    BY <1>t, <2>1, <2>2
<1>16. ASSUME NEW s \in Sessions, EndReader(s) PROVE TableShape'
  BY <1>16, <1>t DEF EndReader, ReaderEnds
<1>17. ASSUME NEW s \in Sessions, Delete(s) PROVE TableShape'
  BY <1>17, <1>t DEF Delete
<1>18. ASSUME NEW s \in Sessions, MarkWaiters(s) PROVE TableShape'
  BY <1>18, <1>t DEF MarkWaiters
<1>19. ASSUME NEW s \in Sessions, CloseLink(s) PROVE TableShape'
  BY <1>19, <1>t DEF CloseLink, LinkClosed
<1> QED
  BY <1>1, <1>2, <1>3, <1>4, <1>5, <1>6, <1>7, <1>8, <1>9, <1>10, <1>11, <1>12, <1>13, <1>14, <1>15, <1>16, <1>17, <1>18, <1>19 DEF Next


\* Messages.
LEMMA LineKept == ASSUME Typed, PostsShape, LineShape, Next PROVE LineShape'
<1> USE DEF sessionVars, postVars, entryVars, modeVars, LineShape, Past
<1>u. /\ at \in [Posts -> Steps] /\ session \in [Posts -> Sessions \cup {NoSession}]
      /\ toServer \in [Sessions -> Seq(Posts)] /\ toClient \in [Sessions -> Seq(Posts \cup {NoPost})]
      /\ job \in [Posts -> Jobs] /\ NoPost \notin Posts /\ NoSession \notin Sessions
  BY ManagerAssumption DEF Typed
<1>v. \A s \in Sessions : Elems(toServer[s]) \subseteq Posts /\ Elems(toClient[s]) \subseteq Posts \cup {NoPost}
  BY <1>u, ElemsIn
<1>t. /\ at \in [Posts -> Steps] /\ session \in [Posts -> Sessions \cup {NoSession}]
      /\ toServer \in [Sessions -> Seq(Posts)] /\ toClient \in [Sessions -> Seq(Posts \cup {NoPost})]
      /\ job \in [Posts -> Jobs] /\ NoPost \notin Posts /\ NoSession \notin Sessions
      /\ \A s \in Sessions : Elems(toServer[s]) \subseteq Posts /\ Elems(toClient[s]) \subseteq Posts \cup {NoPost}
  BY <1>u, <1>v
<1>f. ASSUME UNCHANGED <<toServer, toClient, job>>,
             \A q \in Posts : at[q] \in Past => at'[q] \in Past /\ session'[q] = session[q]
      PROVE  LineShape'
  BY <1>t, <1>f
<1>1. CASE Close
  BY <1>1, <1>t, <1>f DEF Close
<1>2. CASE TakeSessions
  BY <1>2, <1>t, <1>f DEF TakeSessions
<1>3. CASE SetJsonOnly
  BY <1>3, <1>t, <1>f DEF SetJsonOnly
<1>4. ASSUME NEW p \in Posts, BeginCreate(p) PROVE LineShape'
  BY <1>4, <1>t, <1>f DEF BeginCreate
<1>5. ASSUME NEW p \in Posts, Insert(p) PROVE LineShape'
  <2>1. CASE MayInsert
    BY <1>5, <2>1, <1>t, <1>f DEF Insert, MayInsert, Answer
  <2>2. CASE ~ (MayInsert)
    BY <1>5, <2>2, <1>t, <1>f DEF Insert, MayInsert, Answer
  <2> QED
    BY <2>1, <2>2
<1>6. ASSUME NEW p \in Posts, Register(p) PROVE LineShape'
  <2>1. CASE IdPending(p)
    BY <1>6, <2>1, <1>t, <1>f DEF Register, Answer, IdPending
  <2>2. CASE ~ (IdPending(p))
    BY <1>6, <2>2, <1>t, <1>f DEF Register, Answer, IdPending
  <2> QED
    BY <2>1, <2>2
<1>7. ASSUME NEW p \in Posts, Write(p) PROVE LineShape'
  <2>1. CASE link[session[p]] = "open"
    <3> DEFINE s == session[p]
               line == toServer[s]
               new == Append(line, p)
    <3>1. /\ at[p] = "registered" /\ s \in Sessions /\ at' = [at EXCEPT ![p] = "checking"]
          /\ toServer' = [toServer EXCEPT ![s] = new] /\ job[p] = "none"
          /\ UNCHANGED <<toClient, session, job>>
      BY <1>7, <1>t, <2>1 DEF Write, PostsShape, Begun
    <3>2. line \in Seq(Posts) /\ p \notin Elems(line) /\ Once(line)
      BY <1>t, <3>1
    <3>3. Elems(new) = Elems(line) \cup {p} /\ Once(new)
      <4> HIDE DEF line
      <4> QED
        BY <3>2, QueueAppend
    <3>4. \A r \in Sessions : /\ Once(toServer'[r])
                               /\ \A q \in Elems(toServer'[r]) : q \in Elems(toServer[r]) \/ (q = p /\ r = s)
      <4> HIDE DEF new, s
      <4> QED
        BY <1>t, <3>1, <3>3
    <3>5. \A q \in Posts : at[q] \in Past => at'[q] \in Past
      BY <1>t, <3>1
    <3>6. at'[p] \in Past
      BY <1>t, <3>1
    <3> HIDE DEF new, s
    <3> QED
      BY <1>t, <3>1, <3>4, <3>5, <3>6 DEF s
  <2>2. CASE ~ (link[session[p]] = "open")
    BY <1>7, <2>2, <1>t, <1>f DEF Write, Answer
  <2> QED
    BY <2>1, <2>2
<1>8. ASSUME NEW p \in Posts, Check(p) PROVE LineShape'
  <2>1. CASE closed \/ p \in ready
    BY <1>8, <2>1, <1>t, <1>f DEF Check, Answer, Consumed
  <2>2. CASE ~ (closed \/ p \in ready)
    BY <1>8, <2>2, <1>t, <1>f DEF Check, Answer, Consumed
  <2> QED
    BY <2>1, <2>2
<1>9. ASSUME NEW p \in Posts, Arm(p) PROVE LineShape'
  BY <1>9, <1>t, <1>f DEF Arm
<1>10. ASSUME NEW p \in Posts, RunCancel(p) PROVE LineShape'
  BY <1>10, <1>t, <1>f DEF RunCancel, CancelRuns
<1>11. ASSUME NEW p \in Posts, ServerAnswers(p) PROVE LineShape'
  <2>1. CASE link[session[p]] = "open"
    <3> DEFINE s == session[p]
               line == toClient[s]
               new == Append(line, p)
    <3>1. /\ job[p] = "handling" /\ s \in Sessions /\ at[p] \in Past /\ job' = [job EXCEPT ![p] = "answered"]
          /\ toClient' = [toClient EXCEPT ![s] = new] /\ UNCHANGED <<toServer, session, at>>
      BY <1>11, <1>t, <2>1 DEF ServerAnswers
    <3>2. line \in Seq(Posts \cup {NoPost}) /\ p \notin Elems(line) /\ Once(line)
      BY <1>t, <3>1
    <3>3. Elems(new) = Elems(line) \cup {p} /\ Once(new)
      <4> HIDE DEF line
      <4> QED
        BY <3>2, QueueAppend
    <3>4. \A r \in Sessions : /\ Once(toClient'[r])
                               /\ \A q \in Elems(toClient'[r]) : q \in Elems(toClient[r]) \/ (q = p /\ r = s)
      <4> HIDE DEF new, s
      <4> QED
        BY <1>t, <3>1, <3>3
    <3>5. job'[p] = "answered" /\ \A q \in Posts \ {p} : job'[q] = job[q]
      BY <1>t, <3>1
    <3>6. \A r \in Sessions : p \notin Elems(toServer[r])
      BY <1>t, <3>1
    <3> HIDE DEF new, s
    <3> QED
      BY <1>t, <3>1, <3>4, <3>5, <3>6 DEF s
  <2>2. CASE ~ (link[session[p]] = "open")
    BY <1>11, <2>2, <1>t, <1>f DEF ServerAnswers
  <2> QED
    BY <2>1, <2>2
<1>12. ASSUME NEW p \in Posts, NEW s \in Sessions, Find(p, s) PROVE LineShape'
  <2>1. CASE s \in sessions
    BY <1>12, <2>1, <1>t, <1>f DEF Find, Answer
  <2>2. CASE ~ (s \in sessions)
    BY <1>12, <2>2, <1>t, <1>f DEF Find, Answer
  <2> QED
    BY <2>1, <2>2
<1>13. ASSUME NEW s \in Sessions, ServerReads(s) PROVE LineShape'
  <2> DEFINE line == toServer[s]
             p == Head(line)
             new == Tail(line)
  <2>1. /\ line \in Seq(Posts) /\ line # <<>> /\ Once(line)
        /\ job' = [job EXCEPT ![p] = "handling"] /\ toServer' = [toServer EXCEPT ![s] = new]
        /\ UNCHANGED <<toClient, session, at>>
    BY <1>13, <1>t DEF ServerReads
  <2>2. p \in Elems(line) /\ Elems(new) \subseteq Elems(line) /\ Once(new) /\ p \in Posts
        /\ (p \in Elems(new) => p = NoPost)
    <3>1. p \in Posts
      BY <2>1, TailSeq
    <3> HIDE DEF line
    <3> QED
      BY <2>1, <3>1, QueueTail
  <2>3. p \notin Elems(new) /\ session[p] = s /\ at[p] \in Past /\ job[p] = "none"
    BY <1>t, <2>2
  <2>4. \A r \in Sessions : r # s => p \notin Elems(toServer[r])
    BY <2>3
  <2> HIDE DEF new, p, line
  <2>5. \A r \in Sessions : Once(toServer'[r]) /\ \A q \in Elems(toServer'[r]) : q # p /\ q \in Elems(toServer[r])
    BY <1>t, <2>1, <2>2, <2>3, <2>4 DEF line
  <2>6. \A q : q # p => job'[q] = job[q]
    BY <1>t, <2>1
  <2>7. job'[p] = "handling" /\ \A r \in Sessions : p \notin Elems(toClient[r]) \ {NoPost}
    BY <1>t, <2>1, <2>2, <2>3
  <2> QED
    BY <1>t, <2>1, <2>2, <2>3, <2>5, <2>6, <2>7
<1>14. ASSUME NEW s \in Sessions, ServerNotifies(s) PROVE LineShape'
  <2> DEFINE line == toClient[s]
             new == Append(line, NoPost)
  <2>1. line \in Seq(Posts \cup {NoPost}) /\ Once(line)
        /\ toClient' = [toClient EXCEPT ![s] = new] /\ UNCHANGED <<toServer, session, at, job>>
    BY <1>14, <1>t DEF ServerNotifies
  <2>2. Elems(new) = Elems(line) \cup {NoPost} /\ Once(new)
    <3> HIDE DEF line
    <3> QED
      BY <2>1, QueueAppend
  <2> HIDE DEF new
  <2> QED
    BY <1>t, <2>1, <2>2
<1>15. ASSUME NEW s \in Sessions, ReadOutbound(s) PROVE LineShape'
  <2> DEFINE line == toClient[s]
             new == Tail(line)
  <2>1. line \in Seq(Posts \cup {NoPost}) /\ Once(line) /\ line # <<>>
        /\ toClient' = [toClient EXCEPT ![s] = new] /\ UNCHANGED <<toServer, session, at, job>>
    BY <1>15, <1>t DEF ReadOutbound
  <2>2. Elems(new) \subseteq Elems(line) /\ Once(new)
    <3> HIDE DEF line
    <3> QED
      BY <2>1, QueueTail
  <2> HIDE DEF new
  <2> QED
    BY <1>t, <2>1, <2>2
<1>16. ASSUME NEW s \in Sessions, EndReader(s) PROVE LineShape'
  BY <1>16, <1>t, <1>f DEF EndReader, ReaderEnds
<1>17. ASSUME NEW s \in Sessions, Delete(s) PROVE LineShape'
  BY <1>17, <1>t, <1>f DEF Delete
<1>18. ASSUME NEW s \in Sessions, MarkWaiters(s) PROVE LineShape'
  BY <1>18, <1>t, <1>f DEF MarkWaiters
<1>19. ASSUME NEW s \in Sessions, CloseLink(s) PROVE LineShape'
  BY <1>19, <1>t, <1>f DEF CloseLink, LinkClosed
<1> QED
  BY <1>1, <1>2, <1>3, <1>4, <1>5, <1>6, <1>7, <1>8, <1>9, <1>10, <1>11, <1>12, <1>13, <1>14, <1>15, <1>16, <1>17, <1>18, <1>19 DEF Next


\* Answers.
LEMMA OwnKept == ASSUME Typed, SessionsShape, PostsShape, TableShape, LineShape, Own, Next PROVE Own'
<1> USE DEF sessionVars, postVars, entryVars, modeVars, Own, Past, Begun
<1>u. /\ at \in [Posts -> Steps] /\ session \in [Posts -> Sessions \cup {NoSession}]
      /\ toServer \in [Sessions -> Seq(Posts)] /\ toClient \in [Sessions -> Seq(Posts \cup {NoPost})]
      /\ job \in [Posts -> Jobs] /\ outcome \in [Posts -> Outcomes]
      /\ table \in [Sessions -> SUBSET Posts] /\ body \in [Posts -> Posts \cup {NoPost}]
      /\ ready \subseteq Posts /\ sessions \subseteq used /\ used \subseteq Sessions /\ marking \subseteq used
      /\ NoPost \notin Posts /\ NoSession \notin Sessions
  BY ManagerAssumption DEF Typed
<1>v. \A s \in Sessions : Elems(toServer[s]) \subseteq Posts /\ Elems(toClient[s]) \subseteq Posts \cup {NoPost}
  BY <1>u, ElemsIn
<1>t. /\ at \in [Posts -> Steps] /\ session \in [Posts -> Sessions \cup {NoSession}]
      /\ toServer \in [Sessions -> Seq(Posts)] /\ toClient \in [Sessions -> Seq(Posts \cup {NoPost})]
      /\ job \in [Posts -> Jobs] /\ outcome \in [Posts -> Outcomes]
      /\ table \in [Sessions -> SUBSET Posts] /\ body \in [Posts -> Posts \cup {NoPost}]
      /\ ready \subseteq Posts /\ sessions \subseteq used /\ used \subseteq Sessions /\ marking \subseteq used
      /\ NoPost \notin Posts /\ NoSession \notin Sessions
      /\ \A s \in Sessions : Elems(toServer[s]) \subseteq Posts /\ Elems(toClient[s]) \subseteq Posts \cup {NoPost}
  BY <1>u, <1>v
<1>p. \A p \in Posts : /\ (session[p] \in Sessions /\ at[p] \notin Past => ~ InLine(p))
                        /\ (outcome[p] = "none" <=> at[p] # "done")
                        /\ (at[p] = "idle" => session[p] = NoSession)
                        /\ (at[p] \in {"idle", "creating", "resolved"} => p \notin ready)
                        /\ (at[p] \in {"creating", "resolved"} \cup Begun => session[p] \in Sessions)
                        /\ (at[p] \in Begun => p \in table[session[p]])
  <2>1. \A p \in Posts : session[p] \in Sessions /\ at[p] \notin Past => ~ InLine(p)
    BY <1>t DEF LineShape, InLine
  <2>2. \A p \in Posts : (at[p] \in {"idle", "creating", "resolved"} => p \notin ready)
    BY <1>t DEF TableShape, Begun
  <2>3. \A p \in Posts : at[p] \in Begun => p \in table[session[p]]
    BY DEF TableShape
  <2>4. \A p \in Posts : /\ (outcome[p] = "none" <=> at[p] # "done")
                         /\ (at[p] = "idle" => session[p] = NoSession)
                         /\ (at[p] \in {"creating", "resolved"} \cup Begun => session[p] \in Sessions)
    BY DEF PostsShape
  <2> QED
    BY <2>1, <2>2, <2>3, <2>4
<1>w. sessions \subseteq Sessions
  BY <1>t
<1>f. ASSUME UNCHANGED <<toServer, toClient, job, session>> PROVE \A p \in Posts : InLine(p)' = InLine(p)
  BY <1>f DEF InLine
<1>1. CASE Close
  BY <1>1, <1>t, <1>p, <1>f DEF Close
<1>2. CASE TakeSessions
  BY <1>2, <1>t, <1>p, <1>f DEF TakeSessions
<1>3. CASE SetJsonOnly
  BY <1>3, <1>t, <1>p, <1>f DEF SetJsonOnly
<1>4. ASSUME NEW p \in Posts, BeginCreate(p) PROVE Own'
  <2>1. PICK s \in Sessions \ used : session' = [session EXCEPT ![p] = s]
    BY <1>4 DEF BeginCreate
  <2>2. /\ at[p] = "idle" /\ at' = [at EXCEPT ![p] = "creating"]
        /\ UNCHANGED <<closed, sessions, toServer, toClient, job, table, ready, body, outcome>>
    BY <1>4 DEF BeginCreate
  <2>3. \A q \in Posts : session'[q] \in sessions => q # p /\ session'[q] = session[q] /\ at'[q] = at[q]
    BY <1>t, <2>1, <2>2
  <2>4. \A q \in Posts : q # p => (InLine(q)' <=> InLine(q))
    BY <1>t, <2>1, <2>2 DEF InLine
  <2> QED
    BY <2>2, <2>3, <2>4
<1>5. ASSUME NEW p \in Posts, Insert(p) PROVE Own'
  <2>1. CASE MayInsert
    <3>1. /\ at[p] = "creating" /\ at' = [at EXCEPT ![p] = "resolved"] /\ sessions' = sessions \cup {session[p]}
          /\ UNCHANGED <<closed, toServer, toClient, job, session, table, ready, body, outcome>>
      BY <1>5, <2>1 DEF Insert
    <3>2. /\ p \notin ready /\ ~ InLine(p) /\ outcome[p] = "none"
          /\ \A q \in Posts : session[q] = session[p] => q = p
      BY <1>t, <1>p, <3>1 DEF PostsShape
    <3>3. \A q \in Posts : q # p => at'[q] = at[q]
      BY <1>t, <3>1
    <3>4. \A q \in Posts : InLine(q)' <=> InLine(q)
      BY <1>f, <3>1
    <3> QED
      BY <3>1, <3>2, <3>3, <3>4
  <2>2. CASE ~ (MayInsert)
    BY <1>5, <2>2, <1>t, <1>p, <1>f DEF Insert, MayInsert, Answer
  <2> QED
    BY <2>1, <2>2
<1>6. ASSUME NEW p \in Posts, Register(p) PROVE Own'
  <2>1. CASE IdPending(p)
    BY <1>6, <2>1, <1>t, <1>p, <1>f DEF Register, Answer, IdPending
  <2>2. CASE ~ (IdPending(p))
    <3>1. /\ at[p] = "resolved" /\ at' = [at EXCEPT ![p] = "registered"]
          /\ table' = [table EXCEPT ![session[p]] = @ \cup {p}]
          /\ UNCHANGED <<closed, sessions, toServer, toClient, job, session, ready, body, outcome>>
      BY <1>6, <2>2 DEF Register
    <3>2. p \notin ready /\ \A q \in Posts : q # p => at'[q] = at[q]
      BY <1>t, <1>p, <3>1
    <3>3. \A q \in Posts : InLine(q)' <=> InLine(q)
      BY <1>f, <3>1
    <3>4. \A q \in Posts : session[q] \in Sessions /\ q \in table[session[q]] => q \in table'[session[q]]
      BY <1>t, <3>1
    <3> QED
      BY <1>t, <3>1, <3>2, <3>3, <3>4
  <2> QED
    BY <2>1, <2>2
<1>7. ASSUME NEW p \in Posts, Write(p) PROVE Own'
  <2>1. CASE link[session[p]] = "open"
    <3> DEFINE line == toServer[session[p]]
               new == Append(line, p)
    <3>1. /\ at[p] = "registered" /\ at' = [at EXCEPT ![p] = "checking"] /\ session[p] \in Sessions
          /\ toServer' = [toServer EXCEPT ![session[p]] = new] /\ line \in Seq(Posts)
          /\ UNCHANGED <<closed, sessions, toClient, job, session, table, ready, body, outcome>>
      BY <1>7, <1>t, <1>p, <2>1 DEF Write
    <3>2. Elems(new) = Elems(line) \cup {p}
      <4> HIDE DEF line
      <4> QED
        BY <3>1, QueueAppend
    <3> HIDE DEF new
    <3>3. \A r \in Sessions : Elems(toServer'[r]) \subseteq Elems(toServer[r]) \cup {p}
      BY <1>t, <3>1, <3>2
    <3>4. \A q \in Posts : session[q] \in Sessions /\ q # p => (InLine(q)' => InLine(q)) /\ at'[q] = at[q]
      BY <1>t, <3>1, <3>3 DEF InLine
    <3>5. p \in table[session[p]] /\ (session[p] \in sessions /\ ~ closed => p \notin ready)
      BY <1>p, <3>1
    <3> QED
      BY <1>t, <3>1, <3>4, <3>5
  <2>2. CASE ~ (link[session[p]] = "open")
    BY <1>7, <2>2, <1>t, <1>p, <1>f DEF Write, Answer
  <2> QED
    BY <2>1, <2>2
<1>8. ASSUME NEW p \in Posts, Check(p) PROVE Own'
  <2>1. CASE closed \/ p \in ready
    BY <1>8, <2>1, <1>t, <1>p, <1>f DEF Check, Answer, Consumed
  <2>2. CASE ~ (closed \/ p \in ready)
    BY <1>8, <2>2, <1>t, <1>p, <1>f DEF Check, Answer, Consumed
  <2> QED
    BY <2>1, <2>2
<1>9. ASSUME NEW p \in Posts, Arm(p) PROVE Own'
  BY <1>9, <1>t, <1>p, <1>f DEF Arm
<1>10. ASSUME NEW p \in Posts, RunCancel(p) PROVE Own'
  BY <1>10, <1>t, <1>p, <1>f DEF RunCancel, CancelRuns
<1>11. ASSUME NEW p \in Posts, ServerAnswers(p) PROVE Own'
  <2>1. /\ job[p] = "handling" /\ job' = [job EXCEPT ![p] = "answered"] /\ session[p] \in Sessions
        /\ UNCHANGED <<closed, sessions, toServer, session, at, table, ready, body, outcome>>
    BY <1>11, <1>t DEF ServerAnswers, LineShape
  <2>2. \A r \in Sessions : Elems(toClient'[r]) \subseteq Elems(toClient[r]) \cup {p}
    <3>1. CASE link[session[p]] = "open"
      <4> DEFINE line == toClient[session[p]]
                 new == Append(line, p)
      <4>1. line \in Seq(Posts \cup {NoPost}) /\ toClient' = [toClient EXCEPT ![session[p]] = new]
        BY <1>11, <1>t, <2>1, <3>1 DEF ServerAnswers
      <4>2. Elems(new) = Elems(line) \cup {p}
        <5> HIDE DEF line
        <5> QED
          BY <4>1, QueueAppend
      <4> HIDE DEF new
      <4> QED
        BY <1>t, <4>1, <4>2
    <3>2. CASE link[session[p]] # "open"
      BY <1>11, <3>2 DEF ServerAnswers
    <3> QED
      BY <3>1, <3>2
  <2>3. \A q \in Posts : session[q] \in Sessions => (InLine(q)' => InLine(q))
    BY <1>t, <2>1, <2>2 DEF InLine
  <2> QED
    BY <1>w, <2>1, <2>3
<1>12. ASSUME NEW p \in Posts, NEW s \in Sessions, Find(p, s) PROVE Own'
  <2>1. CASE s \in sessions
    <3>1. /\ at[p] = "idle" /\ at' = [at EXCEPT ![p] = "resolved"] /\ session' = [session EXCEPT ![p] = s]
          /\ UNCHANGED <<closed, sessions, toServer, toClient, job, table, ready, body, outcome>>
      BY <1>12, <2>1 DEF Find
    <3>2. p \notin ready /\ outcome[p] = "none" /\ job[p] = "none" /\ at'[p] \notin Past /\ session'[p] = s
      BY <1>t, <1>p, <3>1 DEF LineShape
    <3>3. ~ InLine(p)'
      BY <1>t, <3>1, <3>2 DEF InLine, LineShape
    <3>4. \A q \in Posts : q # p => (InLine(q)' <=> InLine(q)) /\ at'[q] = at[q] /\ session'[q] = session[q]
      BY <1>t, <3>1 DEF InLine
    <3> QED
      BY <1>t, <3>1, <3>2, <3>3, <3>4
  <2>2. CASE ~ (s \in sessions)
    BY <1>12, <2>2, <1>t, <1>p, <1>f DEF Find, Answer
  <2> QED
    BY <2>1, <2>2
<1>13. ASSUME NEW s \in Sessions, ServerReads(s) PROVE Own'
  <2> DEFINE line == toServer[s]
             p == Head(line)
             new == Tail(line)
  <2>1. /\ line \in Seq(Posts) /\ line # <<>>
        /\ job' = [job EXCEPT ![p] = "handling"] /\ toServer' = [toServer EXCEPT ![s] = new]
        /\ UNCHANGED <<closed, sessions, toClient, session, at, table, ready, body, outcome>>
    BY <1>13, <1>t DEF ServerReads
  <2>2. p \in Elems(line) /\ Elems(new) \subseteq Elems(line) /\ p \in Posts
    <3>1. p \in Posts
      BY <2>1, TailSeq
    <3> HIDE DEF line
    <3> QED
      BY <2>1, <3>1, QueueTail
  <2>3. p \in Elems(toServer[session[p]])
    BY <1>t, <2>2 DEF LineShape
  <2> HIDE DEF new, p
  <2>4. \A q \in Posts : session[q] \in Sessions => (InLine(q)' => InLine(q))
    BY <1>t, <2>1, <2>2, <2>3 DEF InLine
  <2> QED
    BY <1>w, <2>1, <2>4
<1>14. ASSUME NEW s \in Sessions, ServerNotifies(s) PROVE Own'
  <2>1. toClient[s] \in Seq(Posts \cup {NoPost}) /\ toClient' = [toClient EXCEPT ![s] = Append(@, NoPost)]
        /\ UNCHANGED <<closed, sessions, toServer, session, at, table, ready, body, outcome, job>>
    BY <1>14, <1>t DEF ServerNotifies
  <2>2. \A r \in Sessions : Elems(toClient'[r]) \subseteq Elems(toClient[r]) \cup {NoPost}
    BY <1>t, <2>1, QueueAppend
  <2>3. \A q \in Posts : session[q] \in Sessions => (InLine(q)' => InLine(q))
    BY <1>t, <2>1, <2>2 DEF InLine
  <2> QED
    BY <1>w, <2>1, <2>3
<1>15. ASSUME NEW s \in Sessions, ReadOutbound(s) PROVE Own'
  <2> DEFINE line == toClient[s]
             message == Head(line)
             new == Tail(line)
             event == [n |-> store[s].next + 1, of |-> message]
  <2>1. /\ line \in Seq(Posts \cup {NoPost}) /\ line # <<>> /\ Once(line)
        /\ toClient' = [toClient EXCEPT ![s] = new]
        /\ UNCHANGED <<closed, sessions, toServer, session, at, table, outcome, job>>
        /\ (message = NoPost => RouteNote(s, event))
        /\ (message # NoPost => RouteResponse(s, message, event))
    BY <1>15, <1>t DEF ReadOutbound, LineShape
  <2>2. /\ message \in Elems(line) /\ Elems(new) \subseteq Elems(line)
        /\ (message \in Elems(new) => message = NoPost)
    <3> HIDE DEF line
    <3> QED
      BY <2>1, QueueTail
  <2> HIDE DEF new, message, event
  <2>3. \A r \in Sessions : /\ Elems(toClient'[r]) \subseteq Elems(toClient[r])
                            /\ message # NoPost => (r = s => message \notin Elems(toClient'[r]))
    BY <1>t, <2>1, <2>2
  <2>4. \A q \in Posts : session[q] \in Sessions => (InLine(q)' => InLine(q))
    BY <1>t, <2>1, <2>3 DEF InLine
  <2>5. CASE message = NoPost
    BY <1>w, <2>1, <2>4, <2>5 DEF RouteNote
  <2>6. CASE message # NoPost
    <3>1. PICK m \in Posts : m = message /\ session[m] = s /\ job[m] = "answered" /\ at[m] \in Past
      BY <1>t, <2>2, <2>6 DEF LineShape
    <3>2. InLine(m) /\ ~ InLine(m)'
      <4>1. m \notin Elems(toServer[s])
        BY <1>t, <3>1 DEF LineShape
      <4>2. InLine(m)
        BY <2>2, <3>1 DEF InLine
      <4>3. /\ toServer' = toServer /\ session'[m] = s /\ job'[m] = "answered"
            /\ m \notin Elems(toClient'[s])
        BY <2>1, <2>3, <2>6, <3>1
      <4> QED
        BY <4>1, <4>2, <4>3 DEF InLine
    <3>3. CASE UNCHANGED <<ready, body>>
      BY <1>t, <2>1, <2>4, <3>3
    <3>4. ASSUME NEW p \in table[s], p.id = m.id, body' = [body EXCEPT ![p] = m], ready' = ready \cup {p}
          PROVE  Own'
      <4>1. p \in Posts /\ session[p] = s /\ outcome[p] \notin {"json", "sse"}
        BY <1>t, <1>p, <3>4 DEF TableShape, Begun
      <4>2. s \in sessions /\ ~ closed => p = m
        <5>1. s \in sessions /\ ~ closed => m \in table[s]
          BY <3>1, <3>2
        <5> QED
          BY <3>4, <5>1 DEF TableShape
      <4>3. body'[p] = m /\ \A q \in Posts \ {p} : body'[q] = body[q]
        BY <1>t, <3>4, <4>1
      <4>4. ASSUME NEW q \in Posts, q # p, session[q] \in sessions
            PROVE  /\ ~ closed => /\ (InLine(q)' => q \in table[session[q]] /\ q \notin ready')
                                  /\ (at[q] \notin Past => q \notin ready')
                                  /\ (q \in ready' => body'[q] = q)
                   /\ (outcome[q] \in {"json", "sse"} => body'[q] = q)
        BY <1>t, <2>4, <3>4, <4>3, <4>4
      <4>5. ASSUME session[p] \in sessions
            PROVE  /\ ~ closed => ~ InLine(p)' /\ at[p] \in Past /\ body'[p] = p
                   /\ outcome[p] \notin {"json", "sse"}
        BY <3>1, <3>2, <4>1, <4>2, <4>3, <4>5
      <4> QED
        BY <2>1, <4>4, <4>5
    <3> QED
      BY <2>1, <2>6, <3>1, <3>3, <3>4 DEF RouteResponse
  <2> QED
    BY <2>5, <2>6
<1>16. ASSUME NEW s \in Sessions, EndReader(s) PROVE Own'
  <2>1. /\ link[s] = "closed" /\ ready' = ready \cup table[s]
        /\ UNCHANGED <<closed, sessions, toServer, toClient, job, session, at, table, body, outcome>>
    BY <1>16 DEF EndReader, ReaderEnds
  <2>2. \A q \in Posts : session[q] \in sessions => (q \in ready' <=> q \in ready)
    BY <1>t, <2>1 DEF SessionsShape, TableShape
  <2> QED
    BY <1>f, <2>1, <2>2
<1>17. ASSUME NEW s \in Sessions, Delete(s) PROVE Own'
  BY <1>17, <1>t, <1>p, <1>f DEF Delete
<1>18. ASSUME NEW s \in Sessions, MarkWaiters(s) PROVE Own'
  <2>1. /\ s \in marking /\ ready' = ready \cup table[s]
        /\ UNCHANGED <<closed, sessions, toServer, toClient, job, session, at, table, body, outcome>>
    BY <1>18 DEF MarkWaiters
  <2>2. \A q \in Posts : session[q] \in sessions => (q \in ready' <=> q \in ready)
    BY <1>t, <2>1 DEF SessionsShape, TableShape
  <2> QED
    BY <1>f, <2>1, <2>2
<1>19. ASSUME NEW s \in Sessions, CloseLink(s) PROVE Own'
  BY <1>19, <1>t, <1>p, <1>f DEF CloseLink, LinkClosed
<1> QED
  BY <1>1, <1>2, <1>3, <1>4, <1>5, <1>6, <1>7, <1>8, <1>9, <1>10, <1>11, <1>12, <1>13, <1>14, <1>15, <1>16, <1>17, <1>18, <1>19 DEF Next


\* Events.
LEMMA NumbersKept == ASSUME Typed, PostsShape, TableShape, Numbers, Next PROVE Numbers'
<1> USE DEF sessionVars, postVars, entryVars, modeVars, Numbers, Early
<1>t. /\ at \in [Posts -> Steps] /\ session \in [Posts -> Sessions \cup {NoSession}]
      /\ toClient \in [Sessions -> Seq(Posts \cup {NoPost})] /\ table \in [Sessions -> SUBSET Posts]
      /\ stream \in [Posts -> Seq(Event)] /\ unassigned \in [Sessions -> Seq(Event)]
      /\ store \in [Sessions -> [events : Seq(Nat), next : Nat]] /\ outcome \in [Posts -> Outcomes]
      /\ NoPost \notin Posts /\ NoSession \notin Sessions
  BY ManagerAssumption DEF Typed
<1>i. /\ \A p \in Posts : at[p] = "idle" => session[p] = NoSession /\ stream[p] = <<>>
      /\ NoSession \notin Sessions /\ Nums(<<>>) = {} /\ Distinct(<<>>)
  BY <1>t, NothingThere DEF PostsShape
<1>p. \A r \in Sessions : \A p \in table[r] : session[p] = r /\ at[p] \notin Early
  <2>1. ASSUME NEW r \in Sessions, NEW p \in table[r] PROVE session[p] = r /\ at[p] \notin Early
    <3>1. /\ p \in Posts /\ session[p] = r /\ (at[p] \in Begun \/ outcome[p] = "dropped")
          /\ (outcome[p] = "none" <=> at[p] # "done") /\ outcome[p] \in Outcomes
      BY <1>t DEF TableShape, PostsShape
    <3> QED
      BY <3>1 DEF Begun
  <2> QED
    BY <2>1
<1>f. ASSUME UNCHANGED <<store, unassigned, stream, session>>,
             \A p \in Posts : at'[p] \in Early => at[p] \in Early
      PROVE  Numbers'
  BY <1>f
<1>1. CASE Close
  BY <1>1, <1>t, <1>f DEF Close
<1>2. CASE TakeSessions
  BY <1>2, <1>t, <1>f DEF TakeSessions
<1>3. CASE SetJsonOnly
  BY <1>3, <1>t, <1>f DEF SetJsonOnly
<1>4. ASSUME NEW p \in Posts, BeginCreate(p) PROVE Numbers'
  <2>1. PICK s \in Sessions \ used : session' = [session EXCEPT ![p] = s]
    BY <1>4 DEF BeginCreate
  <2>2. at[p] = "idle" /\ at' = [at EXCEPT ![p] = "creating"] /\ UNCHANGED <<stream, unassigned, store>>
    BY <1>4 DEF BeginCreate
  <2>3. session'[p] = s /\ \A q \in Posts \ {p} : session'[q] = session[q] /\ at'[q] = at[q]
    BY <1>t, <2>1, <2>2
  <2>4. stream[p] = <<>> /\ Nums(stream[p]) = {} /\ Distinct(stream[p])
    BY <1>i, <2>2
  <2> QED
    BY <1>i, <2>2, <2>3, <2>4
<1>5. ASSUME NEW p \in Posts, Insert(p) PROVE Numbers'
  <2>1. CASE MayInsert
    BY <1>5, <2>1, <1>t, <1>f DEF Insert, MayInsert, Answer
  <2>2. CASE ~ (MayInsert)
    BY <1>5, <2>2, <1>t, <1>f DEF Insert, MayInsert, Answer
  <2> QED
    BY <2>1, <2>2
<1>6. ASSUME NEW p \in Posts, Register(p) PROVE Numbers'
  <2>1. CASE IdPending(p)
    BY <1>6, <2>1, <1>t, <1>f DEF Register, Answer, IdPending
  <2>2. CASE ~ (IdPending(p))
    BY <1>6, <2>2, <1>t, <1>f DEF Register, Answer, IdPending
  <2> QED
    BY <2>1, <2>2
<1>7. ASSUME NEW p \in Posts, Write(p) PROVE Numbers'
  <2>1. CASE link[session[p]] = "open"
    BY <1>7, <2>1, <1>t, <1>f DEF Write, Answer
  <2>2. CASE ~ (link[session[p]] = "open")
    BY <1>7, <2>2, <1>t, <1>f DEF Write, Answer
  <2> QED
    BY <2>1, <2>2
<1>8. ASSUME NEW p \in Posts, Check(p) PROVE Numbers'
  <2>1. CASE closed \/ p \in ready
    BY <1>8, <2>1, <1>t, <1>f DEF Check, Answer, Consumed
  <2>2. CASE ~ (closed \/ p \in ready)
    BY <1>8, <2>2, <1>t, <1>f DEF Check, Answer, Consumed
  <2> QED
    BY <2>1, <2>2
<1>9. ASSUME NEW p \in Posts, Arm(p) PROVE Numbers'
  BY <1>9, <1>t, <1>f DEF Arm
<1>10. ASSUME NEW p \in Posts, RunCancel(p) PROVE Numbers'
  BY <1>10, <1>t, <1>f DEF RunCancel, CancelRuns
<1>11. ASSUME NEW p \in Posts, ServerAnswers(p) PROVE Numbers'
  <2>1. CASE link[session[p]] = "open"
    BY <1>11, <2>1, <1>t, <1>f DEF ServerAnswers
  <2>2. CASE ~ (link[session[p]] = "open")
    BY <1>11, <2>2, <1>t, <1>f DEF ServerAnswers
  <2> QED
    BY <2>1, <2>2
<1>12. ASSUME NEW p \in Posts, NEW s \in Sessions, Find(p, s) PROVE Numbers'
  <2>1. CASE s \in sessions
    <3>1. /\ at[p] = "idle" /\ at' = [at EXCEPT ![p] = "resolved"] /\ session' = [session EXCEPT ![p] = s]
          /\ UNCHANGED <<stream, unassigned, store>>
      BY <1>12, <2>1 DEF Find
    <3>2. session'[p] = s /\ \A q \in Posts \ {p} : session'[q] = session[q] /\ at'[q] = at[q]
      BY <1>t, <3>1
    <3>3. stream[p] = <<>> /\ Nums(stream[p]) = {} /\ Distinct(stream[p])
      BY <1>i, <3>1
    <3>4. /\ \A r \in Sessions : /\ Window(store'[r]) /\ Distinct(unassigned'[r])
                                 /\ \A n \in Nums(unassigned'[r]) : n <= store'[r].next
          /\ \A q \in Posts : Distinct(stream'[q])
      BY <3>1
    <3>5. \A q \in Posts : /\ at'[q] \in Early => stream'[q] = <<>>
                           /\ session'[q] = NoSession => stream'[q] = <<>>
      BY <3>1, <3>2, <3>3
    <3>6. \A q \in Posts : session'[q] \in Sessions =>
              /\ \A n \in Nums(stream'[q]) : n <= store'[session'[q]].next
              /\ Nums(stream'[q]) \cap Nums(unassigned'[session'[q]]) = {}
      BY <3>1, <3>2, <3>3
    <3>7. \A q, r \in Posts : q # r /\ session'[q] = session'[r] => Nums(stream'[q]) \cap Nums(stream'[r]) = {}
      BY <3>1, <3>2, <3>3
    <3> QED
      BY <3>4, <3>5, <3>6, <3>7
  <2>2. CASE ~ (s \in sessions)
    <3>1. at' = [at EXCEPT ![p] = "done"] /\ UNCHANGED <<session, stream, unassigned, store>>
      BY <1>12, <2>2 DEF Find, Answer
    <3>2. at'[p] = "done" /\ \A q \in Posts \ {p} : at'[q] = at[q]
      BY <1>t, <3>1
    <3> QED
      BY <1>f, <3>1, <3>2
  <2> QED
    BY <2>1, <2>2
<1>13. ASSUME NEW s \in Sessions, ServerReads(s) PROVE Numbers'
  BY <1>13, <1>t, <1>f DEF ServerReads
<1>14. ASSUME NEW s \in Sessions, ServerNotifies(s) PROVE Numbers'
  BY <1>14, <1>t, <1>f DEF ServerNotifies
<1>15. ASSUME NEW s \in Sessions, ReadOutbound(s) PROVE Numbers'
  <2> DEFINE message == Head(toClient[s])
             n == store[s].next + 1
             event == [n |-> n, of |-> message]
  <2>1. message \in Posts \cup {NoPost}
    BY <1>15, <1>t, TailSeq DEF ReadOutbound
  <2>2. event \in Event /\ event.n = n /\ n \in Nat /\ store[s].next \in Nat
    <3>1. store[s].next \in Nat
      BY DEF Window
    <3> HIDE DEF message
    <3> QED
      BY <2>1, <3>1 DEF Event
  <2>3. /\ UNCHANGED <<session, at, table>>
        /\ store' = IF jsonOnly THEN store ELSE [store EXCEPT ![s] = AppendEvent(@, Capacity)]
        /\ (message = NoPost => RouteNote(s, event))
        /\ (message # NoPost => RouteResponse(s, message, event))
    BY <1>15 DEF ReadOutbound
  <2> HIDE DEF message, event
  <2>4. /\ \A r \in Sessions : Window(store'[r]) /\ store[r].next <= store'[r].next /\ store[r].next \in Nat
        /\ ~ jsonOnly => store'[s].next = n
    <3>1. \A r \in Sessions : store[r].next \in Nat /\ Window(store[r])
      BY DEF Window
    <3>2. Window(AppendEvent(store[s], Capacity)) /\ AppendEvent(store[s], Capacity).next = n
      BY <3>1, AppendWindow
    <3> QED
      BY <1>t, <2>2, <2>3, <3>1, <3>2
  <2> HIDE DEF n
  <2>5. /\ \A r \in Sessions : Nums(unassigned[r]) \subseteq Nat
        /\ \A q \in Posts : Nums(stream[q]) \subseteq Nat
    BY <1>t, NumsIn
  <2>6. /\ n \notin Nums(unassigned[s])
        /\ \A q \in Posts : session[q] = s => n \notin Nums(stream[q])
    <3>1. ~ (n <= store[s].next)
      BY <2>2 DEF n
    <3> QED
      BY <1>t, <3>1
  <2>7. /\ \A r \in Sessions : \A m \in Nums(unassigned[r]) : m <= store'[r].next
        /\ \A q \in Posts : session[q] \in Sessions =>
              \A m \in Nums(stream[q]) : m <= store'[session[q]].next
    <3>1. \A r \in Sessions : store'[r].next \in Nat
      BY <2>4 DEF Window
    <3>2. ASSUME NEW r \in Sessions, NEW m \in Nat, m <= store[r].next PROVE m <= store'[r].next
      BY <2>4, <3>1, <3>2
    <3> QED
      BY <2>5, <3>2
  <2>8. ASSUME NEW p \in table[s] PROVE p \in Posts /\ session[p] = s /\ at[p] \notin Early
    BY <1>t, <1>p, <2>8
  <2>n. ASSUME NEW q \in Seq(Event), Distinct(q), n \notin Nums(q)
        PROVE  Nums(Append(q, event)) = Nums(q) \cup {n} /\ Distinct(Append(q, event))
    <3> HIDE DEF Numbers
    <3>1. Nums(Append(q, event)) = Nums(q) \cup {event.n}
      <4>1. \A e \in Event : Nums(Append(q, e)) = Nums(q) \cup {e.n} /\ Append(q, e) = q \o <<e>>
        BY StreamAppend
      <4> QED
        BY <2>2, <4>1
    <3>2. event.n \notin Nums(q) => Distinct(Append(q, event))
      BY <2>2, <2>n, StreamAppend
    <3> QED
      BY <2>2, <2>n, <3>1, <3>2
  \* Nothing is handed on.
  <2>9. ASSUME UNCHANGED stream, unassigned' \in {unassigned, [unassigned EXCEPT ![s] = <<>>]}
        PROVE  Numbers'
    <3>1. \A r \in Sessions : unassigned'[r] = unassigned[r] \/ unassigned'[r] = <<>>
      BY <1>t, <2>9
    <3>2. \A r \in Sessions : Nums(unassigned'[r]) \subseteq Nums(unassigned[r]) /\ Distinct(unassigned'[r])
      BY <1>i, <3>1
    <3>3. \A r \in Sessions : \A m \in Nums(unassigned'[r]) : m <= store'[r].next
      BY <2>7, <3>2
    <3>4. \A q \in Posts : session[q] \in Sessions => Nums(stream[q]) \cap Nums(unassigned'[session[q]]) = {}
      BY <3>2
    <3> QED
      BY <2>3, <2>4, <2>7, <2>9, <3>2, <3>3, <3>4
  \* Only this stream, and what waits for an owner, changes.
  <2>10. ASSUME NEW p \in table[s], ~ jsonOnly,
                \A q \in Posts \ {p} : stream'[q] = stream[q],
                \A r \in Sessions \ {s} : unassigned'[r] = unassigned[r],
                Distinct(stream'[p]), Distinct(unassigned'[s]),
                Nums(unassigned'[s]) \subseteq Nums(unassigned[s]),
                Nums(stream'[p]) \subseteq Nums(stream[p]) \cup Nums(unassigned[s]) \cup {n},
                Nums(stream'[p]) \cap Nums(unassigned'[s]) = {}
         PROVE  Numbers'
    <3>1. \A m \in Nums(stream'[p]) : m <= store'[s].next
      <4>1. n <= store'[s].next
        BY <2>2, <2>4, <2>10
      <4> QED
        BY <2>7, <2>8, <2>10, <4>1
    <3>2. \A q \in Posts \ {p} : session[q] = s => Nums(stream'[p]) \cap Nums(stream'[q]) = {}
      <4>1. ASSUME NEW q \in Posts \ {p}, session[q] = s
            PROVE  /\ Nums(stream'[q]) = Nums(stream[q]) /\ Nums(stream[p]) \cap Nums(stream[q]) = {}
                   /\ Nums(unassigned[s]) \cap Nums(stream[q]) = {} /\ n \notin Nums(stream[q])
        BY <2>6, <2>8, <2>10, <4>1
      <4> HIDE DEF Numbers
      <4> QED
        BY <2>10, <4>1
    <3>3. /\ p \in Posts /\ session[p] = s /\ at[p] \notin Early /\ s # NoSession
          /\ \A r \in Sessions : Distinct(unassigned'[r]) /\ Nums(unassigned'[r]) \subseteq Nums(unassigned[r])
          /\ \A q \in Posts : Distinct(stream'[q])
      BY <1>t, <2>8, <2>10
    <3>4. \A r \in Sessions : \A m \in Nums(unassigned'[r]) : m <= store'[r].next
      BY <2>7, <3>3
    <3>5. \A q \in Posts : session[q] \in Sessions =>
              /\ \A m \in Nums(stream'[q]) : m <= store'[session[q]].next
              /\ Nums(stream'[q]) \cap Nums(unassigned'[session[q]]) = {}
      BY <2>7, <2>10, <3>1, <3>3
    <3>6. \A q, r \in Posts :
              r # q /\ session[q] = session[r] => Nums(stream'[q]) \cap Nums(stream'[r]) = {}
      BY <2>10, <3>2, <3>3
    <3>7. \A q \in Posts : at[q] \in Early \/ session[q] = NoSession => stream'[q] = <<>>
      BY <2>10, <3>3
    <3> QED
      BY <2>3, <2>4, <3>3, <3>4, <3>5, <3>6, <3>7
  \* It waits for an owner.
  <2>11. ASSUME ~ jsonOnly, UNCHANGED stream, unassigned' = [unassigned EXCEPT ![s] = Append(@, event)]
         PROVE  Numbers'
    <3>1. /\ Nums(unassigned'[s]) = Nums(unassigned[s]) \cup {n} /\ Distinct(unassigned'[s])
          /\ \A r \in Sessions \ {s} : unassigned'[r] = unassigned[r]
      <4>1. unassigned[s] \in Seq(Event) /\ Distinct(unassigned[s])
        BY <1>t
      <4>2. /\ Nums(Append(unassigned[s], event)) = Nums(unassigned[s]) \cup {n}
            /\ Distinct(Append(unassigned[s], event))
        BY <2>6, <2>n, <4>1
      <4> QED
        BY <1>t, <2>11, <4>2
    <3>2. \A m \in Nums(unassigned'[s]) : m <= store'[s].next
      <4>1. n <= store'[s].next
        BY <2>2, <2>4, <2>11
      <4> QED
        BY <2>7, <3>1, <4>1
    <3>3. \A q \in Posts : session[q] = s => Nums(stream[q]) \cap Nums(unassigned'[s]) = {}
      BY <2>6, <3>1
    <3>4. \A r \in Sessions : Distinct(unassigned'[r]) /\ \A m \in Nums(unassigned'[r]) : m <= store'[r].next
      BY <2>7, <3>1, <3>2
    <3>5. \A q \in Posts : session[q] \in Sessions =>
              /\ \A m \in Nums(stream[q]) : m <= store'[session[q]].next
              /\ Nums(stream[q]) \cap Nums(unassigned'[session[q]]) = {}
      BY <2>7, <3>1, <3>3
    <3> QED
      BY <2>3, <2>4, <2>11, <3>4, <3>5
  <2>12. ASSUME NEW p \in table[s], ~ jsonOnly, stream' = [stream EXCEPT ![p] = Append(@, event)],
                UNCHANGED unassigned
         PROVE  Numbers'
    <3>1. /\ p \in Posts /\ session[p] = s /\ stream[p] \in Seq(Event) /\ Distinct(stream[p])
          /\ Nums(stream[p]) \cap Nums(unassigned[s]) = {} /\ Distinct(unassigned[s])
      BY <1>t, <2>8
    <3>2. Nums(Append(stream[p], event)) = Nums(stream[p]) \cup {n} /\ Distinct(Append(stream[p], event))
      BY <2>6, <2>n, <3>1
    <3>3. stream'[p] = Append(stream[p], event) /\ \A q \in Posts \ {p} : stream'[q] = stream[q]
      BY <1>t, <2>12, <3>1
    <3> HIDE DEF Numbers
    <3>4. Nums(stream'[p]) \cap Nums(unassigned[s]) = {}
      BY <2>6, <3>1, <3>2, <3>3
    <3> QED
      BY <2>10, <2>12, <3>1, <3>2, <3>3, <3>4
  <2>13. ASSUME NEW p \in table[s], ~ jsonOnly, stream' = [stream EXCEPT ![p] = EventsWith(p, s, event)],
                unassigned' = [unassigned EXCEPT ![s] = <<>>]
         PROVE  Numbers'
    <3> DEFINE front == stream[p] \o unassigned[s]
    <3>1. /\ p \in Posts /\ session[p] = s /\ stream[p] \in Seq(Event) /\ Distinct(stream[p])
          /\ unassigned[s] \in Seq(Event) /\ Distinct(unassigned[s])
          /\ Nums(stream[p]) \cap Nums(unassigned[s]) = {}
      BY <1>t, <2>8
    <3>2. front \in Seq(Event) /\ Nums(front) = Nums(stream[p]) \cup Nums(unassigned[s]) /\ Distinct(front)
      BY <3>1, ConcatSeq, StreamConcat
    <3>3. EventsWith(p, s, event) = front \o <<event>>
      BY DEF EventsWith
    <3> HIDE DEF front
    <3>4. Nums(EventsWith(p, s, event)) = Nums(front) \cup {n} /\ Distinct(EventsWith(p, s, event))
      <4>1. Nums(Append(front, event)) = Nums(front) \cup {n} /\ Distinct(Append(front, event))
            /\ Append(front, event) = front \o <<event>>
        BY <2>2, <2>6, <3>1, <3>2, StreamAppend
      <4> QED
        BY <3>3, <4>1
    <3>5. stream'[p] = EventsWith(p, s, event) /\ \A q \in Posts \ {p} : stream'[q] = stream[q]
      BY <1>t, <2>13, <3>1
    <3>6. unassigned'[s] = <<>> /\ \A r \in Sessions \ {s} : unassigned'[r] = unassigned[r]
      BY <1>t, <2>13
    <3>7. Nums(unassigned'[s]) = {} /\ Distinct(unassigned'[s])
      BY <3>6, NothingThere
    <3> HIDE DEF Numbers
    <3> QED
      BY <2>10, <2>13, <3>2, <3>4, <3>5, <3>6, <3>7
  <2>14. CASE message = NoPost
    BY <2>3, <2>9, <2>11, <2>12, <2>14 DEF RouteNote
  <2>15. CASE message # NoPost
    <3> HIDE DEF Numbers
    <3> QED
      BY <2>3, <2>9, <2>13, <2>15 DEF RouteResponse, UnassignedTaken
  <2> QED
    BY <2>14, <2>15
<1>16. ASSUME NEW s \in Sessions, EndReader(s) PROVE Numbers'
  BY <1>16, <1>t, <1>f DEF EndReader, ReaderEnds
<1>17. ASSUME NEW s \in Sessions, Delete(s) PROVE Numbers'
  BY <1>17, <1>t, <1>f DEF Delete
<1>18. ASSUME NEW s \in Sessions, MarkWaiters(s) PROVE Numbers'
  BY <1>18, <1>t, <1>f DEF MarkWaiters
<1>19. ASSUME NEW s \in Sessions, CloseLink(s) PROVE Numbers'
  BY <1>19, <1>t, <1>f DEF CloseLink, LinkClosed
<1> QED
  BY <1>1, <1>2, <1>3, <1>4, <1>5, <1>6, <1>7, <1>8, <1>9, <1>10, <1>11, <1>12, <1>13, <1>14, <1>15, <1>16, <1>17, <1>18, <1>19 DEF Next


\* Replies.
LEMMA AnswersKept == ASSUME Typed, PostsShape, TableShape, Answers, Next PROVE Answers'
<1> USE DEF sessionVars, postVars, entryVars, modeVars, Answers
<1>t. /\ toClient \in [Sessions -> Seq(Posts \cup {NoPost})] /\ table \in [Sessions -> SUBSET Posts]
      /\ stream \in [Posts -> Seq(Event)] /\ unassigned \in [Sessions -> Seq(Event)]
      /\ store \in [Sessions -> [events : Seq(Nat), next : Nat]] /\ body \in [Posts -> Posts \cup {NoPost}]
      /\ outcome \in [Posts -> Outcomes] /\ flips \in Nat /\ jsonOnly \in BOOLEAN
  BY ManagerAssumption DEF Typed
<1>p. \A r \in Sessions : \A p \in table[r] : outcome[p] # "sse"
  <2>1. ASSUME NEW r \in Sessions, NEW p \in table[r] PROVE outcome[p] # "sse"
    <3>1. p \in Posts /\ (at[p] \in Begun \/ outcome[p] = "dropped") /\ (outcome[p] = "none" <=> at[p] # "done")
      BY <1>t DEF TableShape, PostsShape
    <3> QED
      BY <3>1 DEF Begun
  <2> QED
    BY <2>1
<1>1. CASE Close
  BY <1>1, <1>t DEF Close
<1>2. CASE TakeSessions
  BY <1>2, <1>t DEF TakeSessions
<1>3. CASE SetJsonOnly
  <2>1. flips' = flips + 1 /\ jsonOnly' = ~ jsonOnly /\ UNCHANGED <<body, stream, outcome>>
    BY <1>3 DEF SetJsonOnly
  <2>2. CASE flips = 0
    <3>1. flips' = 1 /\ flips' # 0 /\ flips < 2
      BY <2>1, <2>2
    <3>2. jsonOnly'
      BY <2>1, <2>2
    <3> QED
      BY <2>1, <3>1, <3>2
  <2>3. CASE flips # 0
    <3>1. flips' # 0 /\ flips' # 1 /\ ~ (flips' < 2)
      BY <1>t, <2>1, <2>3
    <3> QED
      BY <3>1
  <2> QED
    BY <2>2, <2>3
<1>4. ASSUME NEW p \in Posts, BeginCreate(p) PROVE Answers'
  BY <1>4, <1>t DEF BeginCreate
<1>5. ASSUME NEW p \in Posts, Insert(p) PROVE Answers'
  <2>1. CASE MayInsert
    BY <1>5, <2>1, <1>t DEF Insert, MayInsert, Answer
  <2>2. CASE ~ (MayInsert)
    BY <1>5, <2>2, <1>t DEF Insert, MayInsert, Answer
  <2> QED
    BY <2>1, <2>2
<1>6. ASSUME NEW p \in Posts, Register(p) PROVE Answers'
  <2>1. CASE IdPending(p)
    BY <1>6, <2>1, <1>t DEF Register, Answer, IdPending
  <2>2. CASE ~ (IdPending(p))
    BY <1>6, <2>2, <1>t DEF Register, Answer, IdPending
  <2> QED
    BY <2>1, <2>2
<1>7. ASSUME NEW p \in Posts, Write(p) PROVE Answers'
  <2>1. CASE link[session[p]] = "open"
    BY <1>7, <2>1, <1>t DEF Write, Answer
  <2>2. CASE ~ (link[session[p]] = "open")
    BY <1>7, <2>2, <1>t DEF Write, Answer
  <2> QED
    BY <2>1, <2>2
<1>8. ASSUME NEW p \in Posts, Check(p) PROVE Answers'
  <2>1. CASE closed \/ p \in ready
    <3>1. /\ at[p] = "checking"
          /\ at' = [at EXCEPT ![p] = "done"]
          /\ outcome' = [outcome EXCEPT ![p] =
                           IF closed THEN "closed" ELSE IF body[p] = NoPost THEN "ended"
                           ELSE IF ~jsonOnly /\ stream[p] # <<>> THEN "sse" ELSE "json"]
          /\ UNCHANGED <<body, stream, jsonOnly, flips>>
      BY <1>8, <2>1 DEF Check, Answer
    <3>2. \A q \in Posts \ {p} : outcome'[q] = outcome[q]
      BY <1>t, <3>1
    <3>3. outcome'[p] = "sse" => ~ jsonOnly /\ body[p] # NoPost
      BY <1>t, <3>1
    <3>4. flips < 2 /\ flips # 1 => flips = 0
      BY <1>t
    <3> QED
      BY <1>t, <3>1, <3>2, <3>3, <3>4
  <2>2. CASE ~ (closed \/ p \in ready)
    BY <1>8, <2>2, <1>t DEF Check, Answer, Consumed
  <2> QED
    BY <2>1, <2>2
<1>9. ASSUME NEW p \in Posts, Arm(p) PROVE Answers'
  BY <1>9, <1>t DEF Arm
<1>10. ASSUME NEW p \in Posts, RunCancel(p) PROVE Answers'
  BY <1>10, <1>t DEF RunCancel, CancelRuns
<1>11. ASSUME NEW p \in Posts, ServerAnswers(p) PROVE Answers'
  <2>1. CASE link[session[p]] = "open"
    BY <1>11, <2>1, <1>t DEF ServerAnswers
  <2>2. CASE ~ (link[session[p]] = "open")
    BY <1>11, <2>2, <1>t DEF ServerAnswers
  <2> QED
    BY <2>1, <2>2
<1>12. ASSUME NEW p \in Posts, NEW s \in Sessions, Find(p, s) PROVE Answers'
  <2>1. CASE s \in sessions
    BY <1>12, <2>1, <1>t DEF Find, Answer
  <2>2. CASE ~ (s \in sessions)
    BY <1>12, <2>2, <1>t DEF Find, Answer
  <2> QED
    BY <2>1, <2>2
<1>13. ASSUME NEW s \in Sessions, ServerReads(s) PROVE Answers'
  BY <1>13, <1>t DEF ServerReads
<1>14. ASSUME NEW s \in Sessions, ServerNotifies(s) PROVE Answers'
  BY <1>14, <1>t DEF ServerNotifies
<1>15. ASSUME NEW s \in Sessions, ReadOutbound(s) PROVE Answers'
  <2> DEFINE message == Head(toClient[s])
             event == [n |-> store[s].next + 1, of |-> message]
  <2>1. message \in Posts \cup {NoPost}
    BY <1>15, <1>t, TailSeq DEF ReadOutbound
  <2>2. event \in Event /\ event.of = message
    <3>1. store[s].next + 1 \in Nat
      BY <1>t
    <3> HIDE DEF message
    <3> QED
      BY <2>1, <3>1 DEF Event
  <2>3. /\ UNCHANGED <<outcome, jsonOnly, flips>>
        /\ (message = NoPost => RouteNote(s, event))
        /\ (message # NoPost => RouteResponse(s, message, event))
    BY <1>15 DEF ReadOutbound
  <2> HIDE DEF message, event
  <2>4. \A q \in Seq(Event) : Ofs(Append(q, event)) = Ofs(q) \cup {message}
    <3>1. \A q \in Seq(Event) : \A e \in Event :
             Ofs(Append(q, e)) = Ofs(q) \cup {e.of} /\ Append(q, e) = q \o <<e>>
      BY StreamAppend
    <3> QED
      BY <2>2, <3>1
  \* The requests whose stream or body changes wait for their answer.
  <2>5. ASSUME NEW p \in table[s] PROVE p \in Posts /\ outcome[p] # "sse"
    BY <1>t, <1>p, <2>5
  <2>6. ASSUME NEW p \in table[s], \A q \in Posts \ {p} : stream'[q] = stream[q] /\ body'[q] = body[q],
               flips = 0 => (body'[p] # NoPost => body'[p] \in Ofs(stream'[p]))
        PROVE  Answers'
    BY <2>3, <2>5, <2>6
  <2>7. CASE message = NoPost
    <3>1. CASE UNCHANGED stream
      BY <2>3, <2>7, <3>1 DEF RouteNote
    <3>2. ASSUME NEW p \in table[s], stream' = [stream EXCEPT ![p] = Append(@, event)], UNCHANGED body
          PROVE  Answers'
      <4>1. p \in Posts /\ stream'[p] = Append(stream[p], event) /\ \A q \in Posts \ {p} : stream'[q] = stream[q]
        BY <1>t, <2>5, <3>2
      <4>2. Ofs(stream[p]) \subseteq Ofs(stream'[p])
        BY <1>t, <2>4, <4>1
      <4> QED
        BY <2>6, <3>2, <4>1, <4>2
    <3> HIDE DEF Answers
    <3> QED
      BY <2>3, <2>7, <3>1, <3>2 DEF RouteNote
  <2>8. CASE message # NoPost
    <3>1. CASE UNCHANGED <<stream, body>>
      BY <2>3, <3>1
    <3>2. ASSUME NEW p \in table[s], body' = [body EXCEPT ![p] = message],
                 stream' = IF jsonOnly THEN stream ELSE [stream EXCEPT ![p] = EventsWith(p, s, event)]
          PROVE  Answers'
      <4>1. /\ p \in Posts /\ body'[p] = message
            /\ \A q \in Posts \ {p} : stream'[q] = stream[q] /\ body'[q] = body[q]
        BY <1>t, <2>5, <3>2
      <4>2. ASSUME flips = 0 PROVE message \in Ofs(stream'[p])
        <5> DEFINE front == stream[p] \o unassigned[s]
        <5>1. stream'[p] = EventsWith(p, s, event)
          BY <1>t, <3>2, <4>1, <4>2
        <5>2. front \in Seq(Event)
          BY <1>t, <4>1, ConcatSeq
        <5>3. EventsWith(p, s, event) = front \o <<event>>
          BY DEF EventsWith
        <5> HIDE DEF front
        <5>4. Append(front, event) = front \o <<event>>
          BY <5>2
        <5> QED
          BY <2>4, <5>1, <5>2, <5>3, <5>4
      <4> QED
        BY <2>6, <4>1, <4>2
    <3> HIDE DEF Answers
    <3> QED
      BY <2>3, <2>8, <3>1, <3>2 DEF RouteResponse
  <2> QED
    BY <2>7, <2>8
<1>16. ASSUME NEW s \in Sessions, EndReader(s) PROVE Answers'
  BY <1>16, <1>t DEF EndReader, ReaderEnds
<1>17. ASSUME NEW s \in Sessions, Delete(s) PROVE Answers'
  BY <1>17, <1>t DEF Delete
<1>18. ASSUME NEW s \in Sessions, MarkWaiters(s) PROVE Answers'
  BY <1>18, <1>t DEF MarkWaiters
<1>19. ASSUME NEW s \in Sessions, CloseLink(s) PROVE Answers'
  BY <1>19, <1>t DEF CloseLink, LinkClosed
<1> QED
  BY <1>1, <1>2, <1>3, <1>4, <1>5, <1>6, <1>7, <1>8, <1>9, <1>10, <1>11, <1>12, <1>13, <1>14, <1>15, <1>16, <1>17, <1>18, <1>19 DEF Next

THEOREM Invariance == Safety => []IInv
<1>1. ASSUME IInv, [Next]_vars PROVE IInv'
  <2>1. CASE Next
    BY <1>1, <2>1, TypesKept, SessionsKept, PostsKept, TableKept, LineKept, OwnKept, NumbersKept,
       AnswersKept DEF IInv
  <2>2. CASE UNCHANGED vars
    <3> USE <2>2 DEF vars, sessionVars, entryVars, postVars, modeVars
    <3>1. Typed' /\ SessionsShape'
      BY <1>1 DEF IInv, Typed, SessionsShape
    <3>2. PostsShape' /\ TableShape'
      BY <1>1 DEF IInv, PostsShape, TableShape
    <3>3. LineShape' /\ Own'
      BY <1>1 DEF IInv, LineShape, Own, InLine
    <3>4. Numbers' /\ Answers'
      BY <1>1 DEF IInv, Numbers, Answers
    <3> QED
      BY <3>1, <3>2, <3>3, <3>4 DEF IInv
  <2> QED
    BY <1>1, <2>1, <2>2
<1> QED
  BY <1>1, Start, PTL DEF Safety

---------------------------------------------------------------------------
\* The theorems

\* Every variable keeps to its values.
THEOREM TypeCorrect == Safety => []TypeOK
<1>1. IInv => TypeOK
  BY NamedTypes DEF IInv
<1> QED
  BY <1>1, Invariance, PTL

\* StreamableHttpSessionManager::close() misses no session, not even one that
\* create_session is building on another strand: when all of them have been ended, every
\* transport pair that was ever opened is closed.
THEOREM CloseMissesNoSession == Safety => []NoSessionSurvivesClose
<1>1. IInv => NoSessionSurvivesClose
  BY DEF IInv, SessionsShape, NoSessionSurvivesClose
<1> QED
  BY <1>1, Invariance, PTL

\* dispatch_response_to_pending finds a request by its id alone; in a session that lives
\* the id is its own, also when the client uses it again, and handle_post leaves no entry
\* behind that would block it.
THEOREM RepliesToTheirOwners == Safety => []RepliesOwned
<1>1. IInv => RepliesOwned
  <2> SUFFICES ASSUME IInv PROVE RepliesOwned
    OBVIOUS
  <2>1. OwnAnswer
    BY DEF IInv, Own, OwnAnswer
  <2>2. ASSUME NEW s \in sessions, NEW p \in table[s]
        PROVE  p \in Posts /\ session[p] = s /\ at[p] \in Begun
    <3>1. s \in Sessions /\ p \in Posts
      BY DEF IInv, Typed
    <3>2. session[p] = s /\ (at[p] \in Begun \/ outcome[p] = "dropped")
      BY <3>1 DEF IInv, TableShape
    <3>3. outcome[p] = "dropped" => session[p] \notin sessions
      BY <3>1 DEF IInv, PostsShape
    <3> QED
      BY <3>1, <3>2, <3>3
  <2>3. TableHasWaiters
    BY <2>2 DEF TableHasWaiters, Begun
  <2> QED
    BY <2>1, <2>3 DEF RepliesOwned
<1> QED
  BY <1>1, Invariance, PTL

\* What the Server sends is on one stream only, the reply's stream holds the answer, and
\* EventStore::events_after leaves no gap: with a store that keeps anything at all, and
\* as long as set_json_only was not called twice (between the two calls an answer goes
\* into a stream that is never told of it).
THEOREM EventsReachTheClient ==
  ASSUME Capacity > 0 PROVE Safety => [](flips < 2 => EventsDelivered)
<1>1. ASSUME IInv, flips < 2 PROVE EventsDelivered
  <2>1. EventSentOnce
    <3> SUFFICES ASSUME NEW p \in Posts, NEW q \in Posts,
                        NEW i \in 1..Len(stream[p]), NEW j \in 1..Len(stream[q]),
                        session[p] = session[q], stream[p][i].n = stream[q][j].n
                 PROVE  p = q /\ i = j
      BY DEF EventSentOnce
    <3>1. stream[p][i].n \in Nums(stream[p]) /\ stream[q][j].n \in Nums(stream[q])
      BY DEF Nums
    <3>2. p = q
      BY <1>1, <3>1 DEF IInv, Numbers
    <3>3. Distinct(stream[p])
      BY <1>1 DEF IInv, Numbers
    <3> QED
      BY <3>2, <3>3 DEF Distinct
  <2>2. ReplyHoldsAnswer
    BY <1>1 DEF IInv, Answers, Ofs, ReplyHoldsAnswer
  <2>3. ReplayHasNoGap
    BY <1>1, NoGap DEF IInv, Numbers, ReplayHasNoGap
  <2> QED
    BY <2>1, <2>2, <2>3 DEF EventsDelivered
<1> QED
  BY <1>1, Invariance, PTL
=============================================================================

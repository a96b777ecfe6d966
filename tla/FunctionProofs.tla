----------------------------- MODULE FunctionProofs -----------------------------
(***************************************************************************)
(* Theorems about functions of the library that keep no state, for every    *)
(* argument: the order of JSON numbers (JsonNumbers), the pages of a list   *)
(* (Paging) and the addresses a metadata fetch may reach (AddressPolicy).   *)
(*                                                                         *)
(* A function defined by recursion over numbers exists, and computes what   *)
(* its equations say, by an argument about the least number at which it     *)
(* would not (Least, Recursion, Induction).                                 *)
(***************************************************************************)
EXTENDS JsonNumbers, Paging, AddressPolicy, WellFoundedInduction, TLAPS

-----------------------------------------------------------------------------
(* Induction over numbers.                                                 *)

\* A set of numbers has a least one.
LEMMA Least ==
  ASSUME NEW Z \in SUBSET Nat, Z # {}
  PROVE  \E m \in Z : \A k \in Z : m <= k
<1> DEFINE R == OpToRel(<, Nat)
<1>1. \E m \in Z : \A k \in Z : ~(<<k, m>> \in R)
  BY NatLessThanWellFounded, WFMin
<1>2. \A k, m \in Nat : k < m => <<k, m>> \in R
  BY DEF OpToRel
<1> HIDE DEF R
<1>3. PICK m \in Z : \A k \in Z : ~(<<k, m>> \in R)
  BY <1>1
<1>4. \A k \in Z : ~(k < m)
  BY <1>2, <1>3
<1> QED
  BY <1>4

\* A recursive function on 0..L exists: b at 0, and g[n] of its value at n - 1 at n.
Recursive(V, b, L, g) ==
    \E f \in [0..L -> V] : f[0] = b /\ \A n \in 1..L : f[n] = g[n][f[n - 1]]
LEMMA Recursion ==
  ASSUME NEW V, NEW b \in V, NEW L \in Nat, NEW g \in [1..L -> [V -> V]]
  PROVE  Recursive(V, b, L, g)
<1> USE DEF Recursive
<1> DEFINE Upto(m, f) == f[0] = b /\ \A n \in 1..m : f[n] = g[n][f[n - 1]]
           Z == {m \in 0..L : ~ \E f \in [0..m -> V] : Upto(m, f)}
<1>1. SUFFICES ASSUME Z # {} PROVE FALSE
  <2>1. Z = {} => L \notin Z
    OBVIOUS
  <2> QED
    BY <2>1
<1>2. PICK m \in Z : \A k \in Z : m <= k
  <2>1. Z \in SUBSET Nat
    OBVIOUS
  <2> QED
    BY <1>1, <2>1, Least
<1>3. CASE m = 0
  <2> DEFINE f == [n \in 0..0 |-> b]
  <2>1. f \in [0..0 -> V] /\ Upto(0, f)
    OBVIOUS
  <2> QED
    BY <1>2, <1>3, <2>1
<1>4. CASE m # 0
  <2>1. m - 1 \in 0..L /\ m \in 1..L /\ m - 1 \notin Z
    <3>1. m - 1 \in 0..L /\ m \in 1..L /\ ~(m <= m - 1)
      BY <1>4
    <3> HIDE DEF Z
    <3> QED
      BY <1>2, <3>1
  <2>2. PICK h \in [0..m - 1 -> V] : Upto(m - 1, h)
    BY <2>1
  <2> DEFINE f == [n \in 0..m |-> IF n = m THEN g[m][h[m - 1]] ELSE h[n]]
  <2>3. g[m][h[m - 1]] \in V
    BY <2>1, <2>2
  <2>4. f \in [0..m -> V]
    BY <2>1, <2>3
  <2>5. f[0] = b
    BY <2>1, <2>2
  <2>6. ASSUME NEW n \in 1..m PROVE f[n] = g[n][f[n - 1]]
    <3>1. CASE n = m
      BY <2>1, <3>1
    <3>2. CASE n # m
      BY <2>1, <2>2, <3>2
    <3> QED
      BY <3>1, <3>2
  <2> QED
    BY <1>2, <2>4, <2>5, <2>6
<1> QED
  BY <1>3, <1>4

\* Induction up to a number, for a set of numbers.
LEMMA Induction ==
  ASSUME NEW L \in Nat, NEW S, 0 \in S, \A n \in 1..L : n - 1 \in S => n \in S
  PROVE  \A n \in 0..L : n \in S
<1> DEFINE Z == {n \in 0..L : n \notin S}
<1> SUFFICES ASSUME Z # {} PROVE FALSE
  OBVIOUS
<1>1. Z \in SUBSET Nat
  OBVIOUS
<1>2. PICK m \in Z : \A k \in Z : m <= k
  BY <1>1, Least
<1>3. m \in 1..L /\ m - 1 \in 0..L /\ ~(m <= m - 1)
  OBVIOUS
<1>4. m - 1 \notin Z
  <2> HIDE DEF Z
  <2> QED
    BY <1>2, <1>3
<1> QED
  BY <1>3, <1>4

-----------------------------------------------------------------------------
(* Numbers.                                                                *)

\* The numbers a JSON value may hold: integers of their width, doubles that are
\* numbers.
JsonNumber ==
    [kind : {"signed"}, n : -SignedLimit..(SignedLimit - 1)]
        \cup [kind : {"unsigned"}, n : 0..(UnsignedLimit - 1)]
        \cup {v \in [kind : {"float"}, halves : Int] : v.halves # NonFinite}

\* An integer and a double are compared as the numbers they are, also where the
\* double is between two integers or beyond all of them.
LEMMA WithDoubleInOrder ==
  ASSUME NEW v \in JsonNumber, IsInteger(v), NEW h \in Int
  PROVE  CompareWithDouble(v, h) = CompareInts(2 * v.n, h)
<1> USE NumbersAssumption DEF CompareInts, UnsignedLimit
<1>1. v.n \in Int /\ h = 2 * (h \div 2) + (h % 2) /\ h % 2 \in {0, 1} /\ h \div 2 \in Int
  BY DEF JsonNumber, IsInteger
<1>2. WholeThenFraction(v.n, h) = CompareInts(2 * v.n, h)
  BY <1>1 DEF WholeThenFraction
<1>3. CASE v.kind = "unsigned"
  <2>1. v.n \in 0..(2 * SignedLimit - 1)
    BY <1>3 DEF JsonNumber
  <2> QED
    BY <1>2, <1>3, <2>1 DEF CompareWithDouble
<1>4. CASE v.kind = "signed"
  <2>1. v.n \in -SignedLimit..(SignedLimit - 1)
    BY <1>4 DEF JsonNumber
  <2> QED
    BY <1>2, <1>4, <2>1 DEF CompareWithDouble
<1> QED
  BY <1>3, <1>4 DEF IsInteger

\* compare_numbers() puts numbers of every two kinds in the order of the numbers they
\* stand for, for integers of any width (native_schema.cpp:245-317).
THEOREM ComparesNumbers ==
  ASSUME NEW a \in JsonNumber, NEW b \in JsonNumber
  PROVE  NumbersInOrder(a, b)
<1>1. CASE IsInteger(a) /\ IsInteger(b)
  <2>1. a.n \in Int /\ b.n \in Int /\ a.kind \in {"signed", "unsigned"} /\ b.kind \in {"signed", "unsigned"}
        /\ (a.kind = "unsigned" => a.n >= 0) /\ (b.kind = "unsigned" => b.n >= 0)
    BY <1>1, NumbersAssumption DEF JsonNumber, IsInteger, UnsignedLimit
  <2> QED
    BY <1>1, <2>1 DEF NumbersInOrder, CompareNumbers, UnsignedWithSigned, CompareInts, Halves
<1>2. CASE IsInteger(a) /\ ~IsInteger(b)
  <2>1. b.halves \in Int
    BY <1>2 DEF JsonNumber, IsInteger
  <2>2. CompareNumbers(a, b) = CompareWithDouble(a, b.halves)
    BY <1>2 DEF CompareNumbers
  <2> QED
    BY <1>2, <2>1, <2>2, WithDoubleInOrder DEF NumbersInOrder, Halves
<1>3. CASE ~IsInteger(a) /\ IsInteger(b)
  <2>1. a.halves \in Int /\ b.n \in Int
    BY <1>3, NumbersAssumption DEF JsonNumber, IsInteger, UnsignedLimit
  <2>2. CompareNumbers(a, b) = -CompareWithDouble(b, a.halves)
    BY <1>3 DEF CompareNumbers
  <2>3. CompareWithDouble(b, a.halves) = CompareInts(2 * b.n, a.halves)
    BY <1>3, <2>1, WithDoubleInOrder
  <2> QED
    BY <1>3, <2>1, <2>2, <2>3 DEF NumbersInOrder, Halves, CompareInts
<1>4. CASE ~IsInteger(a) /\ ~IsInteger(b)
  <2>1. ~IsNonFinite(a) /\ ~IsNonFinite(b)
    BY <1>4 DEF JsonNumber, IsInteger, IsNonFinite
  <2> QED
    BY <1>4, <2>1 DEF NumbersInOrder, CompareNumbers, Halves
<1> QED
  BY <1>1, <1>2, <1>3, <1>4

-----------------------------------------------------------------------------
(* Pages.                                                                  *)

\* A number below the modulus is its own remainder.
LEMMA SmallRemainder ==
  ASSUME NEW m \in Nat, NEW n \in 0..m PROVE n % (m + 1) = n
OBVIOUS

\* A page from a cursor inside the list, or from its beginning, is not empty unless the
\* list is, begins at the cursor and has a cursor behind it exactly if items are left.
LEMMA PageAt ==
  ASSUME NEW total \in Nat, NEW pageSize \in Nat, total + pageSize <= MaxSize, NEW k \in 0..total,
         k = 0 \/ (k < total /\ pageSize # 0)
  PROVE  \E e \in k..total : /\ e = total \/ e > k
                             /\ Paginate(total, pageSize, k) = [first |-> k, end |-> e, more |-> e < total]
<1> USE SizeAssumption
<1>1. CASE pageSize = 0 \/ total = 0
  <2>1. k = 0 /\ total \in k..total
    BY <1>1
  <2>2. Paginate(total, pageSize, k) = [first |-> k, end |-> total, more |-> total < total]
    <3>1. (total < total) = FALSE
      OBVIOUS
    <3> QED
      BY <1>1, <2>1, <3>1 DEF Paginate
  <2> QED
    BY <2>1, <2>2
<1>2. CASE ~(pageSize = 0 \/ total = 0)
  <2> DEFINE end == IF k + pageSize < total THEN k + pageSize ELSE total
  <2>1. k < total /\ (k + pageSize) % (MaxSize + 1) = k + pageSize
    BY <1>2, SmallRemainder
  <2>2. Paginate(total, pageSize, k) = [first |-> k, end |-> end, more |-> end < total]
    BY <1>2, <2>1 DEF Paginate, MoreFollow
  <2>3. end \in k..total /\ (end = total \/ end > k)
    BY <1>2, <2>1
  <2> QED
    BY <2>2, <2>3
<1> QED
  BY <1>1, <1>2

\* A client that has the first k items, and its next page from there.
Has(k, more) == [items |-> [i \in 1..k |-> i], cursor |-> k, more |-> more]
LEMMA NextPage ==
  ASSUME NEW total \in Nat, NEW pageSize \in Nat, total + pageSize <= MaxSize, NEW k \in 0..total,
         k = 0 \/ (k < total /\ pageSize # 0)
  PROVE  \E e \in k..total : /\ e = total \/ e > k
                             /\ TakePage(total, pageSize, Has(k, TRUE)) = Has(e, e < total)
                             /\ e < total => pageSize # 0
<1>1. PICK e \in k..total : /\ e = total \/ e > k
                            /\ Paginate(total, pageSize, k) = [first |-> k, end |-> e, more |-> e < total]
  BY PageAt
<1>2. e < total => pageSize # 0
  <2>1. pageSize = 0 => Paginate(total, pageSize, k).end = total
    BY DEF Paginate
  <2> QED
    BY <1>1, <2>1
<1>3. [i \in 1..k |-> i] \o [i \in 1..(e - k) |-> k + i] = [i \in 1..e |-> i]
  <2>1. e \in Nat /\ k \in Nat /\ k <= e
    OBVIOUS
  <2> QED
    BY <2>1
<1>4. TakePage(total, pageSize, Has(k, TRUE)) = Has(e, e < total)
  <2> DEFINE page == Paginate(total, pageSize, k)
  <2>1. page.first = k /\ page.end = e /\ page.more = (e < total)
    BY <1>1
  <2>2. Has(k, TRUE).items = [i \in 1..k |-> i] /\ Has(k, TRUE).cursor = k /\ Has(k, TRUE).more
    BY DEF Has
  <2> HIDE DEF page
  <2>3. TakePage(total, pageSize, Has(k, TRUE))
          = [items |-> [i \in 1..k |-> i] \o [i \in 1..(page.end - page.first) |-> page.first + i],
             cursor |-> page.end, more |-> page.more]
    BY <2>2 DEF TakePage, page
  <2> QED
    BY <1>3, <2>1, <2>3 DEF Has
<1> QED
  BY <1>1, <1>2, <1>4

\* What a client has after n pages: the first items, and as many as pages unless it is
\* through.
Well(total, pageSize, n, c) ==
    \E k \in 0..total : \E m \in BOOLEAN :
        /\ c = Has(k, m)
        /\ m => k >= n /\ (k = 0 \/ (k < total /\ pageSize # 0))
        /\ ~m => k = total

LEMMA WellStep ==
  ASSUME NEW total \in Nat, NEW pageSize \in Nat, total + pageSize <= MaxSize, NEW n \in Nat,
         NEW c, Well(total, pageSize, n, c)
  PROVE  Well(total, pageSize, n + 1, TakePage(total, pageSize, c))
<1>1. PICK k \in 0..total, m \in BOOLEAN :
          /\ c = Has(k, m)
          /\ m => k >= n /\ (k = 0 \/ (k < total /\ pageSize # 0))
          /\ ~m => k = total
  BY DEF Well
<1>2. CASE m
  <2>1. PICK e \in k..total : /\ e = total \/ e > k
                              /\ TakePage(total, pageSize, Has(k, TRUE)) = Has(e, e < total)
                              /\ e < total => pageSize # 0
    BY <1>1, <1>2, NextPage
  <2>2. c = Has(k, TRUE)
    BY <1>1, <1>2
  <2>3. e \in 0..total /\ (e < total) \in BOOLEAN /\ (e < total => e >= n + 1) /\ (~(e < total) => e = total)
    BY <1>1, <1>2, <2>1
  <2> QED
    BY <2>1, <2>2, <2>3 DEF Well
<1>3. CASE ~m
  <2>1. TakePage(total, pageSize, c) = c
    BY <1>1, <1>3 DEF TakePage, Has
  <2> QED
    BY <1>1, <1>3, <2>1 DEF Well
<1> QED
  BY <1>2, <1>3

\* The function Followed is defined by exists, and its value after n pages is well.
LEMMA FollowedWell ==
  ASSUME NEW total \in Nat, NEW pageSize \in Nat, total + pageSize <= MaxSize, NEW pages \in Nat
  PROVE  Well(total, pageSize, pages, Followed(total, pageSize, pages))
<1> DEFINE V == {c \in {Has(k, m) : k \in 0..total, m \in BOOLEAN} : Well(total, pageSize, 0, c)}
           g == [n \in 1..pages |-> [c \in V |-> TakePage(total, pageSize, c)]]
<1>1. ASSUME NEW n \in Nat, NEW c, Well(total, pageSize, n, c) PROVE c \in V
  <2>1. PICK k \in 0..total, m \in BOOLEAN :
          /\ c = Has(k, m)
          /\ m => k >= n /\ (k = 0 \/ (k < total /\ pageSize # 0))
          /\ ~m => k = total
    BY <1>1 DEF Well
  <2>2. Well(total, pageSize, 0, c)
    BY <2>1 DEF Well
  <2> QED
    BY <2>1, <2>2
<1>2. Well(total, pageSize, 0, NewClient)
  <2>1. [i \in 1..0 |-> i] = <<>>
    OBVIOUS
  <2>2. NewClient = Has(0, TRUE) /\ 0 \in 0..total
    BY <2>1 DEF NewClient, Has
  <2> SUFFICES \E k \in 0..total : \E m \in BOOLEAN :
                   /\ NewClient = Has(k, m)
                   /\ m => k >= 0 /\ (k = 0 \/ (k < total /\ pageSize # 0))
                   /\ ~m => k = total
    BY DEF Well
  <2> WITNESS 0 \in 0..total
  <2> WITNESS TRUE \in BOOLEAN
  <2> QED
    BY <2>2
<1>3. NewClient \in V
  BY <1>1, <1>2
<1>4. g \in [1..pages -> [V -> V]]
  <2>1. ASSUME NEW c \in V PROVE TakePage(total, pageSize, c) \in V
    <3>1. Well(total, pageSize, 0 + 1, TakePage(total, pageSize, c))
      BY WellStep
    <3> QED
      BY <1>1, <3>1
  <2> HIDE DEF V
  <2> QED
    BY <2>1
<1> HIDE DEF V
<1>5. PICK f \in [0..pages -> V] : f[0] = NewClient /\ \A n \in 1..pages : f[n] = g[n][f[n - 1]]
  <2> HIDE DEF g
  <2> QED
    <3>1. Recursive(V, NewClient, pages, g)
      BY <1>3, <1>4, Recursion
    <3> QED
      BY <3>1 DEF Recursive
<1>6. \A n \in 1..pages : f[n] = TakePage(total, pageSize, f[n - 1])
  <2> TAKE n \in 1..pages
  <2>1. f[n - 1] \in V
    BY <1>5
  <2> QED
    BY <1>5, <2>1
<1> HIDE DEF g
<1> DEFINE client == CHOOSE s : s = [n \in 0..pages |-> IF n = 0 THEN NewClient
                                                       ELSE TakePage(total, pageSize, s[n - 1])]
<1>7. f = [n \in 0..pages |-> IF n = 0 THEN NewClient ELSE TakePage(total, pageSize, f[n - 1])]
  BY <1>5, <1>6
<1>8. client = [n \in 0..pages |-> IF n = 0 THEN NewClient ELSE TakePage(total, pageSize, client[n - 1])]
  BY <1>7
<1>9. Followed(total, pageSize, pages) = client[pages]
  BY DEF Followed
<1> HIDE DEF client
<1>10. pages \in {n \in 0..pages : Well(total, pageSize, n, client[n])}
  <2> DEFINE S == {n \in 0..pages : Well(total, pageSize, n, client[n])}
  <2>1. 0 \in S
    BY <1>2, <1>8
  <2>2. ASSUME NEW n \in 1..pages, n - 1 \in S PROVE n \in S
    <3>1. n - 1 \in Nat /\ n \in 0..pages /\ n # 0 /\ (n - 1) + 1 = n
      OBVIOUS
    <3>2. client[n] = TakePage(total, pageSize, client[n - 1])
      BY <1>8, <3>1
    <3>3. Well(total, pageSize, n - 1, client[n - 1])
      BY <2>2
    <3>4. Well(total, pageSize, (n - 1) + 1, TakePage(total, pageSize, client[n - 1]))
      BY <3>1, <3>3, WellStep
    <3> QED
      BY <3>1, <3>2, <3>4
  <2> HIDE DEF S
  <2>3. \A n \in 0..pages : n \in S
    BY <2>1, <2>2, Induction
  <2>4. pages \in S
    BY <2>3
  <2> QED
    BY <2>4 DEF S
<1> QED
  BY <1>9, <1>10

\* A client that follows the cursors of Server's lists gets every item once and in order,
\* for lists and pages of every size whose sum is a size_t (server.cpp:1835-1866).
THEOREM PagesCover ==
  ASSUME NEW total \in Nat, NEW pageSize \in Nat PROVE PagesCoverTheList(total, pageSize)
<1> SUFFICES ASSUME total + pageSize <= MaxSize
             PROVE  /\ LET client == Followed(total, pageSize, total + 1)
                       IN  client.items = [i \in 1..total |-> i] /\ ~client.more
                    /\ \A cursor \in 0..MaxSize :
                          LET page == Paginate(total, pageSize, cursor)
                          IN  page.first <= page.end /\ page.end <= total
  BY DEF PagesCoverTheList
<1>1. Followed(total, pageSize, total + 1).items = [i \in 1..total |-> i]
      /\ ~Followed(total, pageSize, total + 1).more
  <2>1. PICK k \in 0..total, m \in BOOLEAN :
          /\ Followed(total, pageSize, total + 1) = Has(k, m)
          /\ m => k >= total + 1
          /\ ~m => k = total
    <3>1. total + 1 \in Nat
      OBVIOUS
    <3>2. Well(total, pageSize, total + 1, Followed(total, pageSize, total + 1))
      BY <3>1, FollowedWell
    <3> QED
      BY <3>2 DEF Well
  <2>2. ~m /\ k = total
    BY <2>1
  <2> QED
    BY <2>1, <2>2 DEF Has
<1>2. ASSUME NEW cursor \in 0..MaxSize
      PROVE  Paginate(total, pageSize, cursor).first <= Paginate(total, pageSize, cursor).end
             /\ Paginate(total, pageSize, cursor).end <= total
  <2> USE SizeAssumption
  <2>1. CASE pageSize = 0 \/ total = 0
    BY <2>1 DEF Paginate
  <2>2. CASE ~(pageSize = 0 \/ total = 0)
    <3> DEFINE k == IF cursor >= total THEN 0 ELSE cursor
    <3>1. Paginate(total, pageSize, cursor) = Paginate(total, pageSize, k)
      BY <2>2 DEF Paginate
    <3>2. k \in 0..total /\ k < total
      BY <2>2
    <3> HIDE DEF k
    <3>3. PICK e \in k..total : Paginate(total, pageSize, k) = [first |-> k, end |-> e, more |-> e < total]
      BY <2>2, <3>2, PageAt
    <3> QED
      BY <3>1, <3>2, <3>3
  <2> QED
    BY <2>1, <2>2
<1> QED
  BY <1>1, <1>2

-----------------------------------------------------------------------------
(* Addresses.                                                              *)

Bytes == 0..255
V4 == {b \in Seq(Bytes) : Len(b) = 4}
V6 == {b \in Seq(Bytes) : Len(b) = 16}

LEMMA ByteAt ==
  ASSUME NEW b \in Seq(Bytes), NEW k \in 1..Len(b) PROVE b[k] \in 0..255
<1>1. b[k] \in Bytes
  <2> HIDE DEF Bytes
  <2> QED
    OBVIOUS
<1> QED
  BY <1>1 DEF Bytes

LEMMA V4Bytes ==
  ASSUME NEW b \in V4
  PROVE  /\ b \in Seq(Bytes) /\ Len(b) = 4
         /\ b[1] \in 0..255 /\ b[2] \in 0..255 /\ b[3] \in 0..255 /\ b[4] \in 0..255
<1>1. b \in Seq(Bytes) /\ Len(b) = 4
  BY DEF V4
<1>2. 1 \in 1..Len(b) /\ 2 \in 1..Len(b) /\ 3 \in 1..Len(b) /\ 4 \in 1..Len(b)
  BY <1>1
<1>3. \A k \in 1..Len(b) : b[k] \in 0..255
  BY <1>1, ByteAt
<1> QED
  BY <1>1, <1>2, <1>3

\* What it is to be in a block given by one, two or three bytes.
LEMMA OneByteBlock ==
  ASSUME NEW b, NEW span \in Nat, NEW x \in Nat
  PROVE  InBlock(b, Block(<<x>>, span)) <=> b[1] \in x..(x + span - 1)
BY DEF InBlock, Block
LEMMA TwoByteBlock ==
  ASSUME NEW b, NEW span \in Nat, NEW x \in Nat, NEW y \in Nat
  PROVE  InBlock(b, Block(<<x, y>>, span)) <=> b[1] = x /\ b[2] \in y..(y + span - 1)
<1>1. InBlock(b, Block(<<x, y>>, span)) <=> b[1] \in x..(x + 0) /\ b[2] \in y..(y + span - 1)
  BY DEF InBlock, Block
<1> QED
  BY <1>1
LEMMA ThreeByteBlock ==
  ASSUME NEW b, NEW span \in Nat, NEW x \in Nat, NEW y \in Nat, NEW z \in Nat
  PROVE  InBlock(b, Block(<<x, y, z>>, span)) <=> b[1] = x /\ b[2] = y /\ b[3] \in z..(z + span - 1)
<1>1. InBlock(b, Block(<<x, y, z>>, span))
        <=> b[1] \in x..(x + 0) /\ b[2] \in y..(y + 0) /\ b[3] \in z..(z + span - 1)
  BY DEF InBlock, Block
<1> QED
  BY <1>1

\* The blocks of IPv4, byte by byte.
BlockedBytes(b) ==
    \/ b[1] = 0 \/ b[1] = 10 \/ b[1] >= 224
    \/ b[1] = 100 /\ b[2] \in 64..127
    \/ b[1] = 169 /\ b[2] = 254
    \/ b[1] = 172 /\ b[2] \in 16..31
    \/ b[1] = 192 /\ b[2] = 0 /\ b[3] \in {0, 2}
    \/ b[1] = 192 /\ b[2] = 168
    \/ b[1] = 198 /\ b[2] \in 18..19
    \/ b[1] = 198 /\ b[2] = 51 /\ b[3] = 100
    \/ b[1] = 203 /\ b[2] = 0 /\ b[3] = 113
\* A set of blocks is looked through block by block.
LEMMA BlocksByByte ==
  ASSUME NEW b \in V4
  PROVE  /\ Within(b, BlockedV4) <=> BlockedBytes(b)
         /\ Within(b, LoopbackV4) <=> b[1] = 127
<1>1. Len(b) = 4
  BY V4Bytes
<1>first. b[1] \in 0..255
  BY V4Bytes
<1> DEFINE In(block) == Len(block.bytes) <= Len(b) /\ InBlock(b, block)
<1>2. \A x \in Nat, span \in Nat : In(Block(<<x>>, span)) <=> b[1] \in x..(x + span - 1)
  <2> TAKE x \in Nat, span \in Nat
  <2> DEFINE size == Len(Block(<<x>>, span).bytes)
  <2>1. size = 1
    BY DEF Block
  <2>2. InBlock(b, Block(<<x>>, span)) <=> b[1] \in x..(x + span - 1)
    BY OneByteBlock
  <2> HIDE DEF size
  <2>3. size <= Len(b)
    BY <1>1, <2>1
  <2> QED
    BY <2>2, <2>3 DEF size
<1>3. \A x \in Nat, y \in Nat, span \in Nat :
         In(Block(<<x, y>>, span)) <=> b[1] = x /\ b[2] \in y..(y + span - 1)
  <2> TAKE x \in Nat, y \in Nat, span \in Nat
  <2> DEFINE size == Len(Block(<<x, y>>, span).bytes)
  <2>1. size = 2
    BY DEF Block
  <2>2. InBlock(b, Block(<<x, y>>, span)) <=> b[1] = x /\ b[2] \in y..(y + span - 1)
    BY TwoByteBlock
  <2> HIDE DEF size
  <2>3. size <= Len(b)
    BY <1>1, <2>1
  <2> QED
    BY <2>2, <2>3 DEF size
<1>4. \A x \in Nat, y \in Nat, z \in Nat, span \in Nat :
         In(Block(<<x, y, z>>, span)) <=> b[1] = x /\ b[2] = y /\ b[3] \in z..(z + span - 1)
  <2> TAKE x \in Nat, y \in Nat, z \in Nat, span \in Nat
  <2> DEFINE size == Len(Block(<<x, y, z>>, span).bytes)
  <2>1. size = 3
    BY DEF Block
  <2>2. InBlock(b, Block(<<x, y, z>>, span)) <=> b[1] = x /\ b[2] = y /\ b[3] \in z..(z + span - 1)
    BY ThreeByteBlock
  <2> HIDE DEF size
  <2>3. size <= Len(b)
    BY <1>1, <2>1
  <2> QED
    BY <2>2, <2>3 DEF size
<1> DEFINE One(x, span) == In(Block(<<x>>, span))
           Two(x, y, span) == In(Block(<<x, y>>, span))
           Three(x, y, z, span) == In(Block(<<x, y, z>>, span))
<1>5. Within(b, BlockedV4) <=>
         \/ One(0, 1) \/ One(10, 1) \/ Two(100, 64, 64) \/ Two(169, 254, 1) \/ Two(172, 16, 16)
         \/ Three(192, 0, 0, 1) \/ Three(192, 0, 2, 1) \/ Two(192, 168, 1) \/ Two(198, 18, 2)
         \/ Three(198, 51, 100, 1) \/ Three(203, 0, 113, 1) \/ One(224, 32)
  <2>1. Within(b, BlockedV4) <=> \E block \in BlockedV4 : In(block)
    BY DEF Within
  <2> HIDE DEF In
  <2> QED
    BY <2>1 DEF BlockedV4
<1>6. Within(b, LoopbackV4) <=> One(127, 1)
  <2>1. Within(b, LoopbackV4) <=> \E block \in LoopbackV4 : In(block)
    BY DEF Within
  <2> HIDE DEF In
  <2> QED
    BY <2>1 DEF LoopbackV4
<1> DEFINE R1(x, span) == b[1] \in x..(x + span - 1)
           R2(x, y, span) == b[1] = x /\ b[2] \in y..(y + span - 1)
           R3(x, y, z, span) == b[1] = x /\ b[2] = y /\ b[3] \in z..(z + span - 1)
<1>7. \A x \in Nat, span \in Nat : One(x, span) <=> R1(x, span)
  BY <1>2
<1>8. \A x \in Nat, y \in Nat, span \in Nat : Two(x, y, span) <=> R2(x, y, span)
  BY <1>3
<1>9. \A x \in Nat, y \in Nat, z \in Nat, span \in Nat : Three(x, y, z, span) <=> R3(x, y, z, span)
  BY <1>4
<1> HIDE DEF One, Two, Three, R1, R2, R3
<1>10. /\ One(0, 1) <=> R1(0, 1)
       /\ One(10, 1) <=> R1(10, 1)
       /\ One(127, 1) <=> R1(127, 1)
       /\ One(224, 32) <=> R1(224, 32)
  BY <1>7
<1>11. /\ Two(100, 64, 64) <=> R2(100, 64, 64)
       /\ Two(169, 254, 1) <=> R2(169, 254, 1)
       /\ Two(172, 16, 16) <=> R2(172, 16, 16)
       /\ Two(192, 168, 1) <=> R2(192, 168, 1)
       /\ Two(198, 18, 2) <=> R2(198, 18, 2)
  BY <1>8
<1>12. /\ Three(192, 0, 0, 1) <=> R3(192, 0, 0, 1)
       /\ Three(192, 0, 2, 1) <=> R3(192, 0, 2, 1)
       /\ Three(198, 51, 100, 1) <=> R3(198, 51, 100, 1)
       /\ Three(203, 0, 113, 1) <=> R3(203, 0, 113, 1)
  BY <1>9
<1>13. /\ R1(0, 1) <=> b[1] = 0
       /\ R1(10, 1) <=> b[1] = 10
       /\ R1(127, 1) <=> b[1] = 127
       /\ R1(224, 32) <=> b[1] >= 224
  BY <1>first DEF R1
<1>14. /\ R2(100, 64, 64) <=> b[1] = 100 /\ b[2] \in 64..127
       /\ R2(169, 254, 1) <=> b[1] = 169 /\ b[2] = 254
       /\ R2(172, 16, 16) <=> b[1] = 172 /\ b[2] \in 16..31
       /\ R2(192, 168, 1) <=> b[1] = 192 /\ b[2] = 168
       /\ R2(198, 18, 2) <=> b[1] = 198 /\ b[2] \in 18..19
  BY DEF R2
<1>15. /\ R3(192, 0, 0, 1) <=> b[1] = 192 /\ b[2] = 0 /\ b[3] = 0
       /\ R3(192, 0, 2, 1) <=> b[1] = 192 /\ b[2] = 0 /\ b[3] = 2
       /\ R3(198, 51, 100, 1) <=> b[1] = 198 /\ b[2] = 51 /\ b[3] = 100
       /\ R3(203, 0, 113, 1) <=> b[1] = 203 /\ b[2] = 0 /\ b[3] = 113
  BY DEF R3
<1> QED
  BY <1>5, <1>6, <1>10, <1>11, <1>12, <1>13, <1>14, <1>15 DEF BlockedBytes

LEMMA V4Classified ==
  ASSUME NEW b \in V4, NEW optOut \in BOOLEAN
  PROVE  (ClassifyV4(optOut, b) = "allowed") = V4IsRoutable(b, optOut)
<1>1. Len(b) = 4 /\ b[1] \in 0..255 /\ b[2] \in 0..255 /\ b[3] \in 0..255
  BY V4Bytes
<1>2. V4IsRoutable(b, optOut) <=> ~BlockedBytes(b) /\ (b[1] = 127 => optOut)
  BY BlocksByByte DEF V4IsRoutable
<1>3. b = <<255, 255, 255, 255>> => b[1] = 255
  OBVIOUS
<1>4. (ClassifyV4(optOut, b) = "allowed") <=> ~BlockedBytes(b) /\ (b[1] = 127 => optOut)
  BY <1>1, <1>3 DEF ClassifyV4, PrivateV4, ReservedV4, BlockedBytes
<1>5. V4IsRoutable(b, optOut) \in BOOLEAN
  BY DEF V4IsRoutable
<1> QED
  BY <1>2, <1>4, <1>5

\* Sixteen bytes with an IPv4 address in them, put together and taken apart.
LEMMA ZeroBytes ==
  ASSUME NEW n \in Nat
  PROVE  Zeros(n) \in Seq(Bytes) /\ Len(Zeros(n)) = n /\ \A k \in 1..n : Zeros(n)[k] = 0
BY DEF Zeros, Bytes
LEMMA Apart ==
  ASSUME NEW s \in Seq(Bytes), NEW t \in Seq(Bytes)
  PROVE  /\ s \o t \in Seq(Bytes) /\ Len(s \o t) = Len(s) + Len(t)
         /\ \A k \in 1..Len(s) : (s \o t)[k] = s[k]
         /\ SubSeq(s \o t, 1, Len(s)) = s /\ SubSeq(s \o t, Len(s) + 1, Len(s) + Len(t)) = t
<1> HIDE DEF Bytes
<1>1. s \o t \in Seq(Bytes) /\ Len(s \o t) = Len(s) + Len(t)
  OBVIOUS
<1>2. \A k \in 1..Len(s) : (s \o t)[k] = s[k]
  OBVIOUS
<1>3. SubSeq(s \o t, 1, Len(s)) = s
  OBVIOUS
<1>4. SubSeq(s \o t, Len(s) + 1, Len(s) + Len(t)) = t
  OBVIOUS
<1> QED
  BY <1>1, <1>2, <1>3, <1>4

Mapped == Zeros(10) \o <<255, 255>>
Relay == <<0, 100, 255, 155>> \o Zeros(8)
LEMMA MappedBytes ==
  Mapped \in Seq(Bytes) /\ Len(Mapped) = 12 /\ Mapped[1] = 0 /\ Mapped[2] = 0
<1> DEFINE z == Zeros(10)
           m == <<255, 255>>
<1>1. m \in Seq(Bytes) /\ Len(m) = 2
  BY DEF Bytes
<1>2. z \in Seq(Bytes) /\ Len(z) = 10 /\ z[1] = 0 /\ z[2] = 0
  <2>1. z \in Seq(Bytes) /\ Len(z) = 10 /\ \A k \in 1..10 : z[k] = 0
    BY ZeroBytes
  <2> QED
    BY <2>1
<1>3. Mapped = z \o m
  BY DEF Mapped
<1> HIDE DEF z, m
<1>4. (z \o m) \in Seq(Bytes) /\ Len(z \o m) = Len(z) + Len(m) /\ \A k \in 1..Len(z) : (z \o m)[k] = z[k]
  BY <1>1, <1>2, Apart
<1>5. Len(z \o m) = 12
  BY <1>1, <1>2, <1>4
<1>6. (z \o m)[1] = 0 /\ (z \o m)[2] = 0
  BY <1>2, <1>4
<1> QED
  BY <1>3, <1>4, <1>5, <1>6
LEMMA RelayBytes ==
  Relay \in Seq(Bytes) /\ Len(Relay) = 12 /\ Relay[1] = 0 /\ Relay[2] = 100
<1> DEFINE z == Zeros(8)
           m == <<0, 100, 255, 155>>
<1>1. m \in Seq(Bytes) /\ Len(m) = 4 /\ m[1] = 0 /\ m[2] = 100
  BY DEF Bytes
<1>2. z \in Seq(Bytes) /\ Len(z) = 8
  BY ZeroBytes
<1>3. Relay = m \o z
  BY DEF Relay
<1> HIDE DEF z, m
<1>4. (m \o z) \in Seq(Bytes) /\ Len(m \o z) = Len(m) + Len(z) /\ \A k \in 1..Len(m) : (m \o z)[k] = m[k]
  <2>1. m \in Seq(Bytes) /\ z \in Seq(Bytes)
    BY <1>1, <1>2
  <2> QED
    BY <2>1, Apart
<1>5. Len(m \o z) = 12
  BY <1>1, <1>2, <1>4
<1>6. (m \o z)[1] = 0 /\ (m \o z)[2] = 100
  BY <1>1, <1>4
<1> QED
  BY <1>3, <1>4, <1>5, <1>6

\* The 6to4 address of an IPv4 address begins with 2002 and has the address after it.
Prefix == <<32, 2>>
SixToFourOf(v4) == ((Prefix \o v4) \o Zeros(9)) \o <<1>>
MappedOf(v4) == Mapped \o v4
RelayOf(v4) == Relay \o v4
LEMMA KeepsBeginning ==
  ASSUME NEW s \in Seq(Bytes), NEW t \in Seq(Bytes), NEW i \in 1..Len(s), NEW j \in i..Len(s)
  PROVE  SubSeq(s \o t, i, j) = SubSeq(s, i, j)
<1> HIDE DEF Bytes
<1> QED
  OBVIOUS
LEMMA SixToFourBytes ==
  ASSUME NEW v4 \in V4
  PROVE  /\ SixToFourOf(v4) \in Seq(Bytes) /\ Len(SixToFourOf(v4)) = 16
         /\ SubSeq(SixToFourOf(v4), 1, 2) = Prefix /\ SubSeq(SixToFourOf(v4), 3, 6) = v4
         /\ SixToFourOf(v4)[1] = 32
<1> DEFINE p == Prefix
           z == Zeros(9)
           o == <<1>>
           a == p \o v4
           c == a \o z
           d == c \o o
<1>1. p \in Seq(Bytes) /\ Len(p) = 2 /\ p[1] = 32
  BY DEF Prefix, Bytes
<1>2. z \in Seq(Bytes) /\ Len(z) = 9
  BY ZeroBytes
<1>3. o \in Seq(Bytes) /\ Len(o) = 1
  BY DEF Bytes
<1>4. v4 \in Seq(Bytes) /\ Len(v4) = 4
  BY V4Bytes
<1>5. SixToFourOf(v4) = d
  BY DEF SixToFourOf
<1> HIDE DEF p, z, o
<1>6. a \in Seq(Bytes) /\ Len(a) = 6 /\ SubSeq(a, 1, 2) = p /\ SubSeq(a, 3, 6) = v4
  <2>1. /\ p \o v4 \in Seq(Bytes) /\ Len(p \o v4) = Len(p) + Len(v4)
        /\ SubSeq(p \o v4, 1, Len(p)) = p
        /\ SubSeq(p \o v4, Len(p) + 1, Len(p) + Len(v4)) = v4
    BY <1>1, <1>4, Apart
  <2> QED
    BY <1>1, <1>4, <2>1
<1>first. a[1] = 32
  <2>1. \A k \in 1..Len(p) : (p \o v4)[k] = p[k]
    BY <1>1, <1>4, Apart
  <2> QED
    BY <1>1, <2>1
<1> HIDE DEF a
<1>7. /\ c \in Seq(Bytes) /\ Len(c) = 15
      /\ SubSeq(c, 1, 2) = SubSeq(a, 1, 2) /\ SubSeq(c, 3, 6) = SubSeq(a, 3, 6) /\ c[1] = a[1]
  <2>1. /\ a \o z \in Seq(Bytes) /\ Len(a \o z) = Len(a) + Len(z)
        /\ \A k \in 1..Len(a) : (a \o z)[k] = a[k]
    BY <1>2, <1>6, Apart
  <2>2. \A i \in 1..Len(a) : \A j \in i..Len(a) : SubSeq(a \o z, i, j) = SubSeq(a, i, j)
    BY <1>2, <1>6, KeepsBeginning
  <2>3. 1 \in 1..Len(a) /\ 3 \in 1..Len(a) /\ 2 \in 1..Len(a) /\ 6 \in 3..Len(a) /\ Len(a) + Len(z) = 15
    BY <1>2, <1>6
  <2> QED
    BY <2>1, <2>2, <2>3
<1> HIDE DEF c
<1>8. /\ d \in Seq(Bytes) /\ Len(d) = 16
      /\ SubSeq(d, 1, 2) = SubSeq(c, 1, 2) /\ SubSeq(d, 3, 6) = SubSeq(c, 3, 6) /\ d[1] = c[1]
  <2>1. /\ c \o o \in Seq(Bytes) /\ Len(c \o o) = Len(c) + Len(o)
        /\ \A k \in 1..Len(c) : (c \o o)[k] = c[k]
    BY <1>3, <1>7, Apart
  <2>2. \A i \in 1..Len(c) : \A j \in i..Len(c) : SubSeq(c \o o, i, j) = SubSeq(c, i, j)
    BY <1>3, <1>7, KeepsBeginning
  <2>3. 1 \in 1..Len(c) /\ 3 \in 1..Len(c) /\ 2 \in 1..Len(c) /\ 6 \in 3..Len(c) /\ Len(c) + Len(o) = 16
    BY <1>3, <1>7
  <2> QED
    BY <2>1, <2>2, <2>3
<1> HIDE DEF d
<1> QED
  BY <1>5, <1>6, <1>first, <1>7, <1>8 DEF p

\* An IPv4 address as IPv6 writes it, and inside the two kinds of relay addresses.
LEMMA Embedded ==
  ASSUME NEW v4 \in V4, NEW optOut \in BOOLEAN
  PROVE  /\ Classify(optOut, v4) = ClassifyV4(optOut, v4)
         /\ Classify(optOut, MappedOf(v4)) = ClassifyV4(optOut, v4)
         /\ Classify(optOut, RelayOf(v4)) = ClassifyV4(FALSE, v4)
         /\ Classify(optOut, SixToFourOf(v4)) = ClassifyV4(FALSE, v4)
<1>1. v4 \in Seq(Bytes) /\ Len(v4) = 4
  BY V4Bytes
<1>2. Classify(optOut, v4) = ClassifyV4(optOut, v4)
  BY <1>1 DEF Classify
<1>3. Classify(optOut, MappedOf(v4)) = ClassifyV4(optOut, v4)
  <2> DEFINE b == Mapped \o v4
  <2>p. Mapped \in Seq(Bytes) /\ Len(Mapped) = 12
    BY MappedBytes
  <2>q. /\ Len(b) = Len(Mapped) + Len(v4) /\ SubSeq(b, 1, Len(Mapped)) = Mapped
        /\ SubSeq(b, Len(Mapped) + 1, Len(Mapped) + Len(v4)) = v4
    BY <1>1, <2>p, Apart
  <2> HIDE DEF b
  <2>1. Len(b) = 16 /\ SubSeq(b, 1, 12) = Mapped /\ SubSeq(b, 13, 16) = v4
    BY <1>1, <2>p, <2>q
  <2>2. MappedV4(b)
    BY <2>1 DEF MappedV4, Mapped
  <2> QED
    BY <2>1, <2>2 DEF Classify, ClassifyV6, MappedOf, b
<1>4. Classify(optOut, RelayOf(v4)) = ClassifyV4(FALSE, v4)
  <2> DEFINE b == Relay \o v4
  <2>p. Relay \in Seq(Bytes) /\ Len(Relay) = 12
    BY RelayBytes
  <2>q. /\ Len(b) = Len(Relay) + Len(v4) /\ SubSeq(b, 1, Len(Relay)) = Relay
        /\ SubSeq(b, Len(Relay) + 1, Len(Relay) + Len(v4)) = v4
    BY <1>1, <2>p, Apart
  <2> HIDE DEF b
  <2>1. Len(b) = 16 /\ SubSeq(b, 1, 12) = Relay /\ SubSeq(b, 13, 16) = v4
    BY <1>1, <2>p, <2>q
  <2>2. Nat64(b)
    BY <2>1 DEF Nat64, Relay
  <2>3. ~MappedV4(b)
    BY <2>1, MappedBytes, RelayBytes DEF MappedV4, Mapped
  <2> QED
    BY <2>1, <2>2, <2>3 DEF Classify, ClassifyV6, EmbeddedOptOut, RelayOf, b
<1>5. Classify(optOut, SixToFourOf(v4)) = ClassifyV4(FALSE, v4)
  <2> DEFINE b == SixToFourOf(v4)
  <2>1. /\ b \in Seq(Bytes) /\ Len(b) = 16 /\ SubSeq(b, 1, 2) = Prefix
        /\ SubSeq(b, 3, 6) = v4 /\ b[1] = 32
    BY SixToFourBytes
  <2> HIDE DEF b
  <2>2. SixToFour(b)
    BY <2>1 DEF SixToFour, Prefix
  <2>3. SubSeq(b, 1, 12)[1] = 32
    BY <2>1
  <2>4. ~MappedV4(b)
    BY <2>3, MappedBytes DEF MappedV4, Mapped
  <2>5. ~Nat64(b)
    BY <2>3, RelayBytes DEF Nat64, Relay
  <2> QED
    BY <2>1, <2>2, <2>4, <2>5 DEF Classify, ClassifyV6, EmbeddedOptOut, b
<1> QED
  BY <1>2, <1>3, <1>4, <1>5

\* The policy refuses an IPv4 address exactly if one of the blocks that are not routable
\* contains it, and a loopback address unless the configuration opts out of that, whether
\* it is written as four bytes or as an IPv6 address that stands for it; inside an address
\* of a relay (NAT64, 6to4) the opt-out does not count.  One refused answer of a lookup
\* refuses the fetch (metadata_policy.cpp, validate_metadata_address).
THEOREM ClassifiesIPv4 == \A v4 \in V4 : AddressesClassified(v4)
<1> SUFFICES ASSUME NEW v4 \in V4, NEW optOut \in BOOLEAN
             PROVE  /\ \A b \in Spellings(v4) :
                          (Classify(optOut, b) = "allowed") = V4IsRoutable(v4, optOut)
                    /\ \A b \in Embeddings(v4) :
                          (Classify(optOut, b) = "allowed") = V4IsRoutable(v4, FALSE)
                    /\ LookupAllowed(optOut, Spellings(v4) \cup {<<1, 1, 1, 1>>})
                         = V4IsRoutable(v4, optOut)
  BY DEF AddressesClassified
<1>1. \A b \in Spellings(v4) : Classify(optOut, b) = ClassifyV4(optOut, v4)
  <2>1. Spellings(v4) = {v4, MappedOf(v4)}
    BY DEF Spellings, MappedOf, Mapped
  <2> QED
    BY <2>1, Embedded
<1>2. \A b \in Embeddings(v4) : Classify(optOut, b) = ClassifyV4(FALSE, v4)
  <2>1. Embeddings(v4) = {RelayOf(v4), SixToFourOf(v4)}
    BY DEF Embeddings, RelayOf, Relay, SixToFourOf, Prefix
  <2> QED
    BY <2>1, Embedded
<1>3. /\ (ClassifyV4(optOut, v4) = "allowed") = V4IsRoutable(v4, optOut)
      /\ (ClassifyV4(FALSE, v4) = "allowed") = V4IsRoutable(v4, FALSE)
  BY V4Classified
<1>4. Classify(optOut, <<1, 1, 1, 1>>) = "allowed"
  <2> DEFINE one == <<1, 1, 1, 1>>
  <2>1. one \in V4 /\ one[1] = 1
    BY DEF V4, Bytes
  <2> HIDE DEF one
  <2>2. V4IsRoutable(one, optOut)
    BY <2>1, BlocksByByte DEF V4IsRoutable, BlockedBytes
  <2>3. ClassifyV4(optOut, one) = "allowed"
    BY <2>1, <2>2, V4Classified
  <2>4. Classify(optOut, one) = ClassifyV4(optOut, one)
    BY <2>1, Embedded
  <2> QED
    BY <2>3, <2>4 DEF one
<1>5. LookupAllowed(optOut, Spellings(v4) \cup {<<1, 1, 1, 1>>})
        <=> \A b \in Spellings(v4) : Classify(optOut, b) = "allowed"
  BY <1>4 DEF LookupAllowed
<1>6. v4 \in Spellings(v4)
  BY DEF Spellings
<1>7. LookupAllowed(optOut, Spellings(v4) \cup {<<1, 1, 1, 1>>}) <=> V4IsRoutable(v4, optOut)
  BY <1>1, <1>3, <1>5, <1>6
<1>8. /\ LookupAllowed(optOut, Spellings(v4) \cup {<<1, 1, 1, 1>>}) \in BOOLEAN
      /\ V4IsRoutable(v4, optOut) \in BOOLEAN
  BY DEF LookupAllowed, V4IsRoutable
<1> QED
  BY <1>1, <1>2, <1>3, <1>7, <1>8

LEMMA V6Bytes ==
  ASSUME NEW b \in V6
  PROVE  b \in Seq(Bytes) /\ Len(b) = 16 /\ b[1] \in 0..255 /\ b[2] \in 0..255
<1>1. b \in Seq(Bytes) /\ Len(b) = 16
  BY DEF V6
<1>2. 1 \in 1..Len(b) /\ 2 \in 1..Len(b)
  BY <1>1
<1>3. \A k \in 1..Len(b) : b[k] \in 0..255
  BY <1>1, ByteAt
<1> QED
  BY <1>1, <1>2, <1>3
\* A block that gives every byte contains one address.
LEMMA WholeBlock ==
  ASSUME NEW b \in Seq(Bytes), NEW s \in Seq(Bytes), Len(s) = Len(b)
  PROVE  InBlock(b, Block(s, 1)) <=> b = s
<1>1. InBlock(b, Block(s, 1)) <=> \A k \in 1..Len(s) : b[k] \in s[k]..(s[k] + 0)
  BY DEF InBlock, Block
<1>2. \A k \in 1..Len(s) : s[k] \in 0..255 /\ b[k] \in 0..255
  BY ByteAt
<1>3. InBlock(b, Block(s, 1)) <=> \A k \in 1..Len(s) : b[k] = s[k]
  <2>1. \A x \in 0..255, y \in 0..255 : x \in y..(y + 0) <=> x = y
    OBVIOUS
  <2>2. \A k \in 1..Len(s) : (b[k] \in s[k]..(s[k] + 0)) <=> (b[k] = s[k])
    BY <1>2, <2>1
  <2> QED
    BY <1>1, <2>2
<1> HIDE DEF Bytes
<1>4. (\A k \in 1..Len(s) : b[k] = s[k]) <=> b = s
  OBVIOUS
<1> QED
  BY <1>3, <1>4

Local == Zeros(15) \o <<1>>
LEMMA LocalBytes ==
  Local \in V6 /\ Local # Zeros(16) /\ Local[1] = 0
<1> DEFINE z == Zeros(15)
           o == <<1>>
           c == z \o o
           z16 == Zeros(16)
<1>1. z \in Seq(Bytes) /\ Len(z) = 15 /\ z[1] = 0
  <2>1. z \in Seq(Bytes) /\ Len(z) = 15 /\ \A k \in 1..15 : z[k] = 0
    BY ZeroBytes
  <2> QED
    BY <2>1
<1>2. o \in Seq(Bytes) /\ Len(o) = 1 /\ o[1] = 1
  BY DEF Bytes
<1>3. Local = c
  BY DEF Local
<1> HIDE DEF z, o
<1>4. /\ c \in Seq(Bytes) /\ Len(c) = Len(z) + Len(o) /\ \A k \in 1..Len(z) : c[k] = z[k]
      /\ SubSeq(c, Len(z) + 1, Len(z) + Len(o)) = o
  BY <1>1, <1>2, Apart
<1>5. z16 \in Seq(Bytes) /\ Len(z16) = 16 /\ z16[16] = 0
  <2>1. z16 \in Seq(Bytes) /\ Len(z16) = 16 /\ \A k \in 1..16 : z16[k] = 0
    BY ZeroBytes
  <2> QED
    BY <2>1
<1> HIDE DEF c, z16
<1>6. Len(c) = 16 /\ c[1] = 0 /\ SubSeq(c, 16, 16) = o
  BY <1>1, <1>2, <1>4
<1>7. SubSeq(c, 16, 16)[1] = 1 /\ SubSeq(z16, 16, 16)[1] = 0
  <2> HIDE DEF Bytes
  <2> QED
    BY <1>2, <1>5, <1>6
<1>8. c \in V6
  BY <1>4, <1>6 DEF V6
<1>9. c # z16
  <2>1. SubSeq(c, 16, 16)[1] # SubSeq(z16, 16, 16)[1]
    BY <1>7
  <2> QED
    BY <2>1, Zenon
<1> QED
  BY <1>3, <1>6, <1>8, <1>9 DEF z16
BlockedBytesV6(b) ==
    \/ b = Zeros(16) \/ b[1] \in 252..253 \/ b[1] = 255
    \/ b[1] = 254 /\ b[2] \in 128..255
LEMMA BlocksOfV6 ==
  ASSUME NEW b \in V6
  PROVE  /\ Within(b, BlockedV6) <=> BlockedBytesV6(b)
         /\ Within(b, LoopbackV6) <=> b = Local
<1>1. b \in Seq(Bytes) /\ Len(b) = 16 /\ b[1] \in 0..255 /\ b[2] \in 0..255
  BY V6Bytes
<1> DEFINE In(block) == Len(block.bytes) <= Len(b) /\ InBlock(b, block)
<1>2. \A x \in Nat, span \in Nat : In(Block(<<x>>, span)) <=> b[1] \in x..(x + span - 1)
  <2> TAKE x \in Nat, span \in Nat
  <2> DEFINE size == Len(Block(<<x>>, span).bytes)
  <2>1. size = 1
    BY DEF Block
  <2>2. InBlock(b, Block(<<x>>, span)) <=> b[1] \in x..(x + span - 1)
    BY OneByteBlock
  <2> HIDE DEF size
  <2>3. size <= Len(b)
    BY <1>1, <2>1
  <2> QED
    BY <2>2, <2>3 DEF size
<1>3. In(Block(<<254, 128>>, 128)) <=> b[1] = 254 /\ b[2] \in 128..(128 + 128 - 1)
  <2> DEFINE size == Len(Block(<<254, 128>>, 128).bytes)
  <2>1. size = 2
    BY DEF Block
  <2>2. InBlock(b, Block(<<254, 128>>, 128)) <=> b[1] = 254 /\ b[2] \in 128..(128 + 128 - 1)
    <3> DEFINE A(x, y, span) == InBlock(b, Block(<<x, y>>, span))
               B(x, y, span) == b[1] = x /\ b[2] \in y..(y + span - 1)
    <3>1. \A x \in Nat, y \in Nat, span \in Nat : A(x, y, span) <=> B(x, y, span)
      BY TwoByteBlock
    <3> HIDE DEF A, B
    <3>2. A(254, 128, 128) <=> B(254, 128, 128)
      BY <3>1
    <3> QED
      BY <3>2 DEF A, B
  <2> HIDE DEF size
  <2>3. size <= Len(b)
    BY <1>1, <2>1
  <2> QED
    BY <2>2, <2>3 DEF size
<1>4. \A s \in V6 : In(Block(s, 1)) <=> b = s
  <2> TAKE s \in V6
  <2>1. s \in Seq(Bytes) /\ Len(s) = Len(b)
    BY <1>1, V6Bytes
  <2>2. Block(s, 1).bytes = s
    BY DEF Block
  <2>3. InBlock(b, Block(s, 1)) <=> b = s
    BY <1>1, <2>1, WholeBlock
  <2> DEFINE size == Len(Block(s, 1).bytes)
  <2>4. size = 16
    BY <1>1, <2>1, <2>2
  <2> HIDE DEF size
  <2>5. size <= Len(b)
    BY <1>1, <2>4
  <2> QED
    BY <2>3, <2>5 DEF size
<1>5. Zeros(16) \in V6
  BY ZeroBytes DEF V6
<1>6. Local \in V6
  BY LocalBytes
<1>7. Within(b, BlockedV6) <=>
         \/ In(Block(Zeros(16), 1)) \/ In(Block(<<252>>, 2))
         \/ In(Block(<<254, 128>>, 128)) \/ In(Block(<<255>>, 1))
  <2>1. Within(b, BlockedV6) <=> \E block \in BlockedV6 : In(block)
    BY DEF Within
  <2> HIDE DEF In
  <2> QED
    BY <2>1 DEF BlockedV6
<1>8. Within(b, LoopbackV6) <=> In(Block(Local, 1))
  <2>1. Within(b, LoopbackV6) <=> \E block \in LoopbackV6 : In(block)
    BY DEF Within
  <2> HIDE DEF In
  <2> QED
    BY <2>1 DEF LoopbackV6, Local
<1> HIDE DEF In
<1>9. In(Block(Zeros(16), 1)) <=> b = Zeros(16)
  BY <1>4, <1>5
<1>10. In(Block(Local, 1)) <=> b = Local
  BY <1>4, <1>6
<1>11. In(Block(<<252>>, 2)) <=> b[1] \in 252..(252 + 2 - 1)
  BY <1>2
<1>12. In(Block(<<255>>, 1)) <=> b[1] \in 255..(255 + 1 - 1)
  BY <1>2
<1>13. /\ In(Block(<<252>>, 2)) <=> b[1] \in 252..253
       /\ In(Block(<<255>>, 1)) <=> b[1] = 255
       /\ In(Block(<<254, 128>>, 128)) <=> b[1] = 254 /\ b[2] \in 128..255
  BY <1>1, <1>3, <1>11, <1>12
<1>14. Within(b, BlockedV6) <=> BlockedBytesV6(b)
  BY <1>7, <1>9, <1>13 DEF BlockedBytesV6
<1>15. Within(b, LoopbackV6) <=> b = Local
  BY <1>8, <1>10
<1> QED
  BY <1>14, <1>15

\* An IPv6 address that stands for no IPv4 address is refused exactly if it is the
\* unspecified address, unique local, link-local or site-local, or multicast, and the
\* loopback address unless the configuration opts out of that
\* (metadata_policy.cpp, classify_ipv6).
THEOREM ClassifiesIPv6 == \A v6 \in V6 : V6Classified(v6)
<1> SUFFICES ASSUME NEW v6 \in V6, ~MappedV4(v6), ~Nat64(v6), ~SixToFour(v6), NEW optOut \in BOOLEAN
             PROVE  (Classify(optOut, v6) = "allowed")
                      = (~Within(v6, BlockedV6) /\ (Within(v6, LoopbackV6) => optOut))
  BY DEF V6Classified
<1>1. Len(v6) = 16 /\ v6[1] \in 0..255 /\ v6[2] \in 0..255
  BY V6Bytes
<1>2. Within(v6, BlockedV6) <=> BlockedBytesV6(v6)
  BY BlocksOfV6
<1>3. Within(v6, LoopbackV6) <=> v6 = Local
  BY BlocksOfV6
<1>4. /\ v6[1] \div 2 = 126 <=> v6[1] \in 252..253
      /\ v6[2] \div 64 = 2 <=> v6[2] \in 128..191
      /\ v6[2] \div 64 = 3 <=> v6[2] \in 192..255
  BY <1>1
<1>5. Local # Zeros(16) /\ Local[1] = 0
  BY LocalBytes
<1>6. (Classify(optOut, v6) = "allowed") <=> ~BlockedBytesV6(v6) /\ (v6 = Local => optOut)
  <2>1. Classify(optOut, v6) = ClassifyV6(optOut, v6)
    BY <1>1 DEF Classify
  <2>2. ClassifyV6(optOut, v6) =
          IF v6 = Zeros(16) THEN "reserved"
          ELSE IF v6 = Local THEN IF optOut THEN "allowed" ELSE "loopback"
          ELSE IF v6[1] = 254 /\ v6[2] \in 128..191 THEN "link-local"
          ELSE IF v6[1] = 255 THEN "multicast"
          ELSE IF v6[1] \in 252..253 \/ (v6[1] = 254 /\ v6[2] \in 192..255) THEN "private"
          ELSE "allowed"
    BY <1>4 DEF ClassifyV6, Local
  <2>3. (ClassifyV6(optOut, v6) = "allowed") <=>
          /\ v6 # Zeros(16) /\ (v6 = Local => optOut)
          /\ v6 # Local => ~(v6[1] = 254 /\ v6[2] \in 128..191) /\ v6[1] # 255
                          /\ v6[1] \notin 252..253 /\ ~(v6[1] = 254 /\ v6[2] \in 192..255)
    BY <1>5, <2>2
  <2>4. BlockedBytesV6(v6) <=>
          \/ v6 = Zeros(16) \/ v6[1] \in 252..253 \/ v6[1] = 255
          \/ v6[1] = 254 /\ (v6[2] \in 128..191 \/ v6[2] \in 192..255)
    BY <1>1 DEF BlockedBytesV6
  <2> QED
    BY <1>5, <2>1, <2>3, <2>4
<1>7. (~Within(v6, BlockedV6) /\ (Within(v6, LoopbackV6) => optOut)) \in BOOLEAN
  OBVIOUS
<1> QED
  BY <1>2, <1>3, <1>6, <1>7

=============================================================================

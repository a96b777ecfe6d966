------------------------------- MODULE JsonNumbers -------------------------------
(***************************************************************************)
(* The numbers of a JSON value, as nlohmann::json keeps them: signed and    *)
(* unsigned integers of one width and doubles, and their comparison by the  *)
(* schema validator (src/src/protocol/native_schema.cpp, compare_numbers).  *)
(* A double is counted in halves.                                           *)
(***************************************************************************)
EXTENDS Integers

CONSTANTS SignedLimit,   \* 2^63: what a signed integer stays below
          NonFinite      \* the halves of NaN

ASSUME NumbersAssumption == SignedLimit \in Nat \ {0}

UnsignedLimit == 2 * SignedLimit

Signed(n) == [kind |-> "signed", n |-> n]
Unsigned(n) == [kind |-> "unsigned", n |-> n]
Float(halves) == [kind |-> "float", halves |-> halves]

IsInteger(v) == v.kind \in {"signed", "unsigned"}
IsNumber(v) == IsInteger(v) \/ v.kind = "float"
IsNonFinite(v) == v.kind = "float" /\ v.halves = NonFinite

CompareInts(a, b) == IF a < b THEN -1 ELSE IF a > b THEN 1 ELSE 0

\* Mutant: -1 becomes the largest unsigned integer.
AsUnsigned(a, b) == CompareInts(a, b % UnsignedLimit)

\* An unsigned integer against a signed one.
UnsignedWithSigned(a, b) == IF b < 0 THEN 1 ELSE CompareInts(a, b)

\* Mutant: the part of the double after the point is dropped.
DropsFraction(n, halves) == CompareInts(n, halves \div 2)

\* The integer against the double's whole part, then its fraction.
WholeThenFraction(n, halves) ==
    IF n # halves \div 2 THEN CompareInts(n, halves \div 2)
    ELSE IF halves % 2 = 1 THEN -1 ELSE 0

\* compare_integer_with_double(): doubles no integer reaches come first.
CompareWithDouble(integer, halves) ==
    LET low == IF integer.kind = "unsigned" THEN 0 ELSE -SignedLimit
        high == IF integer.kind = "unsigned" THEN UnsignedLimit ELSE SignedLimit
    IN  IF halves >= 2 * high THEN -1
        ELSE IF halves < 2 * low THEN 1
        ELSE WholeThenFraction(integer.n, halves)

CompareNumbers(left, right) ==
    CASE IsInteger(left) /\ IsInteger(right) ->
            IF left.kind = right.kind THEN CompareInts(left.n, right.n)
            ELSE IF left.kind = "unsigned" THEN UnsignedWithSigned(left.n, right.n)
            ELSE -UnsignedWithSigned(right.n, left.n)
      [] IsInteger(left) /\ ~IsInteger(right) -> CompareWithDouble(left, right.halves)
      [] ~IsInteger(left) /\ IsInteger(right) -> -CompareWithDouble(right, left.halves)
      [] OTHER -> IF IsNonFinite(left) \/ IsNonFinite(right) THEN 0
                  ELSE CompareInts(left.halves, right.halves)

-----------------------------------------------------------------------------
(* What it promises.                                                       *)

Halves(v) == IF IsInteger(v) THEN 2 * v.n ELSE v.halves

\* Numbers of every two kinds are in the order of the numbers they stand for.
NumbersInOrder(a, b) ==
    CompareNumbers(a, b) = CompareInts(Halves(a), Halves(b))
=============================================================================

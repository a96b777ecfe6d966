--------------------------------- MODULE Regex ---------------------------------
(***************************************************************************)
(* mcp::detail::Regex (src/src/core/regex.cpp): a pattern is parsed into a *)
(* tree, compiled into a program and run by a breadth-first simulation of  *)
(* the program's threads, within a budget of steps.                        *)
(*                                                                         *)
(* Characters are small numbers; a token of a pattern is a character, an   *)
(* escape, a bracketed class or a quantifier as a whole.                   *)
(***************************************************************************)
EXTENDS Integers, SequencesExt, FiniteSetsExt

CONSTANTS MaxCode,                     \* the largest code point
          LineTerminators, WordChars, Hyphen,
          MaxNesting, MaxProgram,      \* max_nesting, max_program_size
          Unbounded                    \* the missing maximum of a quantifier

ASSUME RegexAssumption ==
    /\ MaxCode \in Nat /\ MaxNesting \in Nat /\ MaxProgram \in Nat
    /\ LineTerminators \subseteq 0..MaxCode /\ WordChars \subseteq 0..MaxCode
    /\ Hyphen \in 0..MaxCode /\ Unbounded \notin Nat

Codes == 0..MaxCode

-----------------------------------------------------------------------------
(* UTF-8.                                                                  *)

Replacement == 65533
MaxCodePoint == 1114111
Surrogates == 55296..57343
Continues(byte) == byte \div 64 = 2

\* Mutant: encodings longer than they need to be are accepted.
AnyLength(length) == 0

\* The smallest code point that needs an encoding of that length.
Smallest(length) == CASE length = 2 -> 128 [] length = 3 -> 2048 [] length = 4 -> 65536

\* decode_utf8() at position i: the code point and the position after it.
DecodeUtf8(bytes, i) ==
    LET lead == bytes[i]
        length == CASE lead \div 32 = 6 -> 2 [] lead \div 16 = 14 -> 3
                    [] lead \div 8 = 30 -> 4 [] OTHER -> 0
        value == FoldLeft(LAMBDA v, b : v * 64 + (b % 64),
                          lead % (2 ^ (7 - length)),
                          SubSeq(bytes, i + 1, i + length - 1))
    IN  IF lead < 128 THEN [code |-> lead, next |-> i + 1]
        ELSE IF /\ length # 0 /\ i + length - 1 <= Len(bytes)
                /\ \A k \in 1..(length - 1) : Continues(bytes[i + k])
                /\ value >= Smallest(length) /\ value <= MaxCodePoint
                /\ value \notin Surrogates
        THEN [code |-> value, next |-> i + length]
        ELSE [code |-> Replacement, next |-> i + 1]

\* The pair of \u escapes of a code point beyond the first plane.
SurrogatePair(high, low) == 65536 + (high - 55296) * 1024 + (low - 56320)

-----------------------------------------------------------------------------
(* Character classes: sequences of ranges.                                 *)

CodeRange(first, last) == [first |-> first, last |-> last]

\* Mutant: ranges that overlap replace each other's end.
LaterEnd(a, b) == b

\* The end of two ranges that are merged.
MergedEnd(a, b) == IF a > b THEN a ELSE b

Normalize(ranges) ==
    FoldLeft(LAMBDA merged, r :
                IF merged # <<>> /\ r.first <= Last(merged).last + 1
                THEN [merged EXCEPT ![Len(merged)].last = MergedEnd(@, r.last)]
                ELSE Append(merged, r),
             <<>>, SetToSortSeq(ToSet(ranges), LAMBDA a, b : a.first < b.first))

Complement(ranges) ==
    LET gaps == FoldLeft(LAMBDA g, r :
                    [next |-> r.last + 1,
                     found |-> IF r.first > g.next
                               THEN Append(g.found, CodeRange(g.next, r.first - 1))
                               ELSE g.found],
                    [next |-> 0, found |-> <<>>], Normalize(ranges))
    IN  IF gaps.next <= MaxCode THEN Append(gaps.found, CodeRange(gaps.next, MaxCode))
        ELSE gaps.found

\* Binary search for the last range that starts at c or before.
InRanges(ranges, c) ==
    LET before == Cardinality({k \in DOMAIN ranges : ranges[k].first <= c})
    IN  before # 0 /\ c <= ranges[before].last

\* The ranges a member of a class stands for: a character, the hyphen itself,
\* or a predefined set.
RangesOf(token) ==
    CASE token.op = "char" -> <<CodeRange(token.c, token.c)>>
      [] token.op = "-" -> <<CodeRange(Hyphen, Hyphen)>>
      [] token.op = "set" -> token.ranges

\* parse_class() between the brackets; a range that is out of order fails.
RECURSIVE ParseMembers(_)
ParseMembers(body) ==
    IF body = <<>> THEN [ok |-> TRUE, ranges |-> <<>>]
    ELSE IF Len(body) >= 3 /\ body[2].op = "-"
    THEN LET low == RangesOf(body[1])
             high == RangesOf(body[3])
             rest == ParseMembers(SubSeq(body, 4, Len(body)))
         IN  IF body[1].op # "set" /\ body[3].op # "set"
             THEN [ok |-> rest.ok /\ low[1].first <= high[1].first,
                   ranges |-> <<CodeRange(low[1].first, high[1].first)>> \o rest.ranges]
             ELSE [ok |-> rest.ok,
                   ranges |-> low \o high \o <<CodeRange(Hyphen, Hyphen)>> \o rest.ranges]
    ELSE LET rest == ParseMembers(Tail(body))
         IN  [ok |-> rest.ok, ranges |-> RangesOf(body[1]) \o rest.ranges]

ParseClass(negated, body) ==
    LET members == ParseMembers(body)
    IN  [ok |-> members.ok,
         ranges |-> IF ~members.ok THEN <<>>
                    ELSE Normalize(IF negated THEN Complement(members.ranges)
                                   ELSE members.ranges)]

-----------------------------------------------------------------------------
(* Parsing: every function returns the tree and the position after it.     *)

Assertions == {"^", "$", "b", "B"}
Bounds(token) ==
    CASE token.op = "*" -> <<0, Unbounded>> [] token.op = "+" -> <<1, Unbounded>>
      [] token.op = "?" -> <<0, 1>> [] token.op = "{" -> <<token.min, token.max>>
Quantifiers == {"*", "+", "?", "{"}

EmptyNode == [op |-> "empty"]
Parsed(tree, next) == [ok |-> TRUE, tree |-> tree, next |-> next]
Failed == [ok |-> FALSE]
OpAt(t, i) == IF i <= Len(t) THEN t[i].op ELSE "end"

\* Mutant: a lazy mark is not read with its quantifier.
NoLazyMark(t, i) == i + 1

\* The position after a quantifier at i, with or without the mark of the lazy form.
AfterQuantifier(t, i) == IF OpAt(t, i + 1) = "?" THEN i + 2 ELSE i + 1

RECURSIVE ParseAlternation(_, _, _), ParseConcat(_, _, _)

ParseAtom(t, i, depth) ==
    LET op == OpAt(t, i)
        inner == ParseAlternation(t, i + 1, depth + 1)
    IN  IF op = "("
        THEN IF depth + 1 > MaxNesting \/ ~inner.ok THEN Failed
             ELSE IF OpAt(t, inner.next) # ")" THEN Failed
             ELSE Parsed(inner.tree, inner.next + 1)
        ELSE IF op \in Quantifiers THEN Failed
        ELSE Parsed(t[i], i + 1)

ParseRepeat(t, i, depth) ==
    LET atom == ParseAtom(t, i, depth)
        bounds == Bounds(t[atom.next])
    IN  IF ~atom.ok \/ OpAt(t, atom.next) \notin Quantifiers THEN atom
        ELSE IF OpAt(t, i) \in Assertions \/ bounds[2] \in 0..(bounds[1] - 1) THEN Failed
        ELSE Parsed([op |-> "repeat", of |-> atom.tree, min |-> bounds[1], max |-> bounds[2]],
                    AfterQuantifier(t, atom.next))

ParseConcat(t, i, depth) ==
    LET first == ParseRepeat(t, i, depth)
        rest == ParseConcat(t, first.next, depth)
    IN  IF OpAt(t, i) \in {"end", "|", ")"} THEN Parsed(EmptyNode, i)
        ELSE IF ~first.ok \/ ~rest.ok THEN Failed
        ELSE Parsed([op |-> "concat", left |-> first.tree, right |-> rest.tree], rest.next)

ParseAlternation(t, i, depth) ==
    LET first == ParseConcat(t, i, depth)
        rest == ParseAlternation(t, first.next + 1, depth)
    IN  IF ~first.ok \/ OpAt(t, first.next) # "|" THEN first
        ELSE IF ~rest.ok THEN Failed
        ELSE Parsed([op |-> "alternation", left |-> first.tree, right |-> rest.tree], rest.next)

\* Whatever is left after a pattern is an error.
ToTheEnd(t, parsed) ==
    IF parsed.ok THEN IF parsed.next = Len(t) + 1 THEN parsed ELSE Failed ELSE Failed
Parse(t) == ToTheEnd(t, ParseAlternation(t, 1, 0))

-----------------------------------------------------------------------------
(* Compiling.  An instruction that consumes or asserts is its own node.    *)

Split(to, or) == [op |-> "split", to |-> to, or |-> or]
Jump(to) == [op |-> "jump", to |-> to]
Accept == [op |-> "match"]

RECURSIVE Compile(_, _)

\* Mutant: the loop skips its own test.
LoopBack(start) == start + 1

\* Where the jump at the end of an unbounded repetition leads.
LoopTo(start) == start

\* compile_repeat() at address `at`: the required copies, then a loop or the
\* optional copies, each of which may leave for the end.
CompileRepeat(n, at) ==
    LET size == Len(Compile(n.of, at))
        start == at + n.min * size
        optional == n.max - n.min
        end == start + optional * (size + 1)
        Copies(count) == FoldLeft(LAMBDA code, k : code \o Compile(n.of, at + (k - 1) * size),
                                  <<>>, [k \in 1..count |-> k])
        Choice(k) == start + (k - 1) * (size + 1)
    IN  Copies(n.min) \o
        IF n.max = Unbounded
        THEN <<Split(start + 1, start + size + 2)>> \o Compile(n.of, start + 1)
             \o <<Jump(LoopTo(start))>>
        ELSE FlattenSeq([k \in 1..optional |->
                <<Split(Choice(k) + 1, end)>> \o Compile(n.of, Choice(k) + 1)])

Compile(n, at) ==
    CASE n.op = "empty" -> <<>>
      [] n.op = "concat" ->
            LET left == Compile(n.left, at)
            IN  left \o Compile(n.right, at + Len(left))
      [] n.op = "alternation" ->
            LET left == Compile(n.left, at + 1)
                other == at + Len(left) + 2
                right == Compile(n.right, other)
            IN  <<Split(at + 1, other)>> \o left \o <<Jump(other + Len(right))>> \o right
      [] n.op = "repeat" -> CompileRepeat(n, at)
      [] OTHER -> <<n>>

Program(tree) == Append(Compile(tree, 1), Accept)
TooLarge(tree) == Len(Program(tree)) > MaxProgram

-----------------------------------------------------------------------------
(* Searching.                                                              *)

Consumes(instruction, c) ==
    CASE instruction.op = "char" -> instruction.c = c
      [] instruction.op = "any" -> c \notin LineTerminators
      [] instruction.op = "set" -> InRanges(instruction.ranges, c)
      [] OTHER -> FALSE

\* A zero-width instruction lets its thread on at position i of the input.
IsWord(input, i) == i \in DOMAIN input /\ input[i] \in WordChars
Holds(assertion, input, i) ==
    CASE assertion = "^" -> i = 0
      [] assertion = "$" -> i = Len(input)
      [] assertion = "b" -> IsWord(input, i) # IsWord(input, i + 1)
      [] assertion = "B" -> IsWord(input, i) = IsWord(input, i + 1)

\* Where a thread goes without consuming a character.
Onwards(program, pc, input, i) ==
    LET instruction == program[pc]
    IN  CASE instruction.op = "jump" -> {instruction.to}
          [] instruction.op = "split" -> {instruction.to, instruction.or}
          [] instruction.op \in Assertions ->
                IF Holds(instruction.op, input, i) THEN {pc + 1} ELSE {}
          [] OTHER -> {}

\* add_thread(): follows the zero-width instructions from the stacked ones.
RECURSIVE AddThreads(_, _, _, _, _)
AddThreads(program, list, stack, input, i) ==
    IF stack \subseteq list THEN list
    ELSE LET pc == CHOOSE pc \in stack \ list : TRUE
         IN  AddThreads(program, list \cup {pc},
                        (stack \ {pc}) \cup Onwards(program, pc, input, i), input, i)

\* Mutant: a match can only start where the input does.
NoRestart(program) == {}

\* Where a search starts again at each position: nowhere if it is anchored.
Restart(program) == IF program[1].op = "^" THEN {} ELSE {1}

\* What one position costs.
Cost(list) == Cardinality(list) + 1

\* search() at position i, with the threads of that position.
Outcome(found, left) == [found |-> found, left |-> left]
RECURSIVE Run(_, _, _, _, _)
Run(program, list, input, i, left) ==
    IF Len(program) \in list THEN Outcome("yes", left)
    ELSE IF i = Len(input) THEN Outcome("no", left)
    ELSE IF Cost(list) > left THEN Outcome("unknown", 0)
    ELSE LET moved == {pc + 1 : pc \in {q \in list : Consumes(program[q], input[i + 1])}}
             next == AddThreads(program, {}, moved \cup Restart(program), input, i + 1)
         IN  IF next = {} THEN Outcome("no", left - Cost(list))
             ELSE Run(program, next, input, i + 1, left - Cost(list))

Search(program, input, steps) ==
    IF Len(program) > steps THEN Outcome("unknown", 0)
    ELSE Run(program, AddThreads(program, {}, {1}, input, 0), input, 0,
             steps - Len(program))

-----------------------------------------------------------------------------
(* What it promises.  A character encoding is judged by the table of       *)
(* well-formed byte sequences, a class by the set it names, and a pattern  *)
(* by its language, read off the tokens without a tree or a program.       *)

WellFormedPairs ==
    {<<224, 160, 191>>, <<237, 128, 159>>, <<240, 144, 191>>, <<244, 128, 143>>}
    \cup ((225..236) \cup (238..239) \cup (241..243) \cup (194..223)) \X {128} \X {191}
WellFormedLength(lead) == IF lead < 224 THEN 2 ELSE IF lead < 240 THEN 3 ELSE 4
StartsWellFormed(bytes) ==
    /\ Len(bytes) >= 2
    /\ \E p \in WellFormedPairs : bytes[1] = p[1] /\ bytes[2] \in p[2]..p[3]
    /\ WellFormedLength(bytes[1]) <= Len(bytes)
    /\ \A k \in 3..WellFormedLength(bytes[1]) : bytes[k] \in 128..191

\* A character is decoded exactly when its encoding is the well-formed one,
\* and anything else costs one byte.
DecodesWellFormed(bytes) ==
    bytes # <<>> =>
        LET d == DecodeUtf8(bytes, 1)
        IN  IF bytes[1] < 128 THEN d = [code |-> bytes[1], next |-> 2]
            ELSE IF StartsWellFormed(bytes) THEN d.next = WellFormedLength(bytes[1]) + 1
            ELSE d = [code |-> Replacement, next |-> 2]

\* A class contains the characters its members name, or the others.
ClassIsItsSet(body) ==
    \A negated \in BOOLEAN :
        LET members == ParseMembers(body)
            ranges == ParseClass(negated, body).ranges
            Named(c) == \E r \in ToSet(members.ranges) : c \in r.first..r.last
        IN  members.ok => \A c \in Codes : InRanges(ranges, c) = (Named(c) # negated)

Opens(t, i) == Cardinality({k \in 1..i : t[k].op = "("})
Closes(t, i) == Cardinality({k \in 1..i : t[k].op = ")"})
LazyMarks(t) ==
    LET lazy[i \in 0..Len(t)] ==
            /\ i > 1 /\ t[i].op = "?" /\ t[i - 1].op \in Quantifiers /\ ~lazy[i - 1]
    IN  {i \in 1..Len(t) : lazy[i]}
WellFormed(t) ==
    /\ \A i \in 1..Len(t) : Opens(t, i) - Closes(t, i) \in 0..MaxNesting
    /\ Opens(t, Len(t)) = Closes(t, Len(t))
    /\ \A i \in {k \in 1..Len(t) : t[k].op \in Quantifiers} \ LazyMarks(t) :
          /\ i > 1 /\ t[i - 1].op \in {"char", "any", "set", ")"}
          /\ t[i].op = "{" => t[i].max = Unbounded \/ t[i].min <= t[i].max

\* Where the part a..b of a pattern may end when it starts at i.
RECURSIVE Ends(_, _, _, _, _), Iterate(_, _, _, _, _, _)
Iterate(t, a, b, input, from, count) ==
    IF count = 0 THEN from
    ELSE Iterate(t, a, b, input, UNION {Ends(t, a, b, input, i) : i \in from}, count - 1)
Ends(t, a, b, input, i) ==
    LET Level(k) == Opens(t, k) - Closes(t, k)
        bars == {k \in a..b : t[k].op = "|" /\ Level(k) = Level(a - 1)}
        close == Min({k \in a..b : t[k].op = ")" /\ Level(k) = Level(a - 1)})
        group == t[a].op = "("
        last == IF group THEN close ELSE a
        repeated == last < b /\ t[last + 1].op \in Quantifiers
        lazy == repeated /\ last + 2 \in LazyMarks(t)
        rest == last + (IF lazy THEN 3 ELSE IF repeated THEN 2 ELSE 1)
        bounds == IF repeated THEN Bounds(t[last + 1]) ELSE <<1, 1>>
        most == IF bounds[2] = Unbounded THEN bounds[1] + Len(input) ELSE bounds[2]
        items == IF group THEN UNION {Iterate(t, a + 1, close - 1, input, {i}, n) : n \in bounds[1]..most}
                 ELSE IF t[a].op \in Assertions
                 THEN IF Holds(t[a].op, input, i) THEN {i} ELSE {}
                 ELSE {i + n : n \in {m \in bounds[1]..most :
                          i + m <= Len(input)
                          /\ \A k \in (i + 1)..(i + m) : Consumes(t[a], input[k])}}
    IN  IF a > b THEN {i}
        ELSE IF bars # {}
        THEN Ends(t, a, Min(bars) - 1, input, i) \cup Ends(t, Min(bars) + 1, b, input, i)
        ELSE UNION {Ends(t, rest, b, input, j) : j \in items}

Occurs(t, input) == \E i \in 0..Len(input) : Ends(t, 1, Len(t), input, i) # {}

\* A search within the budget gives the answer of the language; what it may
\* cost is linear in the input; a smaller budget gives no answer at all.
SearchesItsLanguage(t, program, input) ==
    LET enough == Len(program) + Len(input) * (Len(program) + 1)
        result == Search(program, input, enough)
        spent == enough - result.left
    IN  /\ result.found = IF Occurs(t, input) THEN "yes" ELSE "no"
        /\ Search(program, input, spent) = [result EXCEPT !.left = 0]
        /\ Search(program, input, spent - 1) = Outcome("unknown", 0)

ParsedAsItsLanguage(t, parsed, inputs) ==
    /\ parsed.ok = WellFormed(t)
    /\ parsed.ok /\ ~TooLarge(parsed.tree) =>
          \A input \in inputs : SearchesItsLanguage(t, Program(parsed.tree), input)
PatternIsItsLanguage(t, inputs) == ParsedAsItsLanguage(t, Parse(t), inputs)
=============================================================================

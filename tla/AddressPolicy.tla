------------------------------ MODULE AddressPolicy ------------------------------
(***************************************************************************)
(* Which addresses a metadata fetch of the OAuth client may reach           *)
(* (src/src/auth/metadata_policy.cpp).  An address is the sequence of its   *)
(* bytes, four or sixteen.                                                  *)
(***************************************************************************)
EXTENDS Integers, Sequences

Zeros(n) == [k \in 1..n |-> 0]

\* Mutant: the range 172.16.0.0/12 is taken for a /16.
ShortPrivateRange(b) ==
    b[1] = 10 \/ (b[1] = 172 /\ b[2] = 16) \/ (b[1] = 192 /\ b[2] = 168)
PrivateV4(b) ==
    b[1] = 10 \/ (b[1] = 172 /\ b[2] \in 16..31) \/ (b[1] = 192 /\ b[2] = 168)
ReservedV4(b) ==
    \/ b[1] = 0 \/ b[1] >= 240
    \/ b[1] = 100 /\ b[2] \in 64..127
    \/ b[1] = 192 /\ b[2] = 0 /\ b[3] \in {0, 2}
    \/ b[1] = 198 /\ (b[2] \in {18, 19} \/ (b[2] = 51 /\ b[3] = 100))
    \/ b[1] = 203 /\ b[2] = 0 /\ b[3] = 113

ClassifyV4(optOut, b) ==
    IF b[1] = 127 THEN IF optOut THEN "allowed" ELSE "loopback"
    ELSE IF b[1] = 169 /\ b[2] = 254 THEN "link-local"
    ELSE IF PrivateV4(b) THEN "private"
    ELSE IF b = <<255, 255, 255, 255>> \/ b[1] \in 224..239 THEN "multicast"
    ELSE IF ReservedV4(b) THEN "reserved" ELSE "allowed"

MappedV4(b) == SubSeq(b, 1, 12) = Zeros(10) \o <<255, 255>>
Nat64(b) == SubSeq(b, 1, 12) = <<0, 100, 255, 155>> \o Zeros(8)
SixToFour(b) == SubSeq(b, 1, 2) = <<32, 2>>

\* Mutant: an embedded loopback address uses the opt-out.
EmbeddedAsItself(optOut) == optOut
\* Only a real loopback address may use the opt-out.
EmbeddedOptOut(optOut) == FALSE

ClassifyV6(optOut, b) ==
    IF MappedV4(b) THEN ClassifyV4(optOut, SubSeq(b, 13, 16))
    ELSE IF Nat64(b) THEN ClassifyV4(EmbeddedOptOut(optOut), SubSeq(b, 13, 16))
    ELSE IF SixToFour(b) THEN ClassifyV4(EmbeddedOptOut(optOut), SubSeq(b, 3, 6))
    ELSE IF b = Zeros(16) THEN "reserved"
    ELSE IF b = Zeros(15) \o <<1>> THEN IF optOut THEN "allowed" ELSE "loopback"
    ELSE IF b[1] = 254 /\ b[2] \div 64 = 2 THEN "link-local"
    ELSE IF b[1] = 255 THEN "multicast"
    ELSE IF b[1] \div 2 = 126 \/ (b[1] = 254 /\ b[2] \div 64 = 3) THEN "private" ELSE "allowed"

\* validate_metadata_address()
Classify(optOut, b) == IF Len(b) = 16 THEN ClassifyV6(optOut, b) ELSE ClassifyV4(optOut, b)
\* enforce_address_policy(): one refused answer of a lookup refuses the fetch.
LookupAllowed(optOut, answers) == \A b \in answers : Classify(optOut, b) = "allowed"

-----------------------------------------------------------------------------
(* What it promises.                                                       *)

\* The addresses that begin with these bytes, the last of which may be larger by less
\* than span.
Block(bytes, span) == [bytes |-> bytes, span |-> span]
InBlock(b, block) ==
    \A k \in 1..Len(block.bytes) :
        b[k] \in block.bytes[k]..(block.bytes[k] + (IF k = Len(block.bytes) THEN block.span - 1 ELSE 0))
Within(b, blocks) == \E block \in blocks : Len(block.bytes) <= Len(b) /\ InBlock(b, block)

\* An address is routable unless one of these blocks contains it.
LoopbackV4 == {Block(<<127>>, 1)}
LoopbackV6 == {Block(Zeros(15) \o <<1>>, 1)}
BlockedV4 ==
    {Block(<<0>>, 1), Block(<<10>>, 1), Block(<<100, 64>>, 64), Block(<<169, 254>>, 1),
     Block(<<172, 16>>, 16), Block(<<192, 0, 0>>, 1), Block(<<192, 0, 2>>, 1),
     Block(<<192, 168>>, 1), Block(<<198, 18>>, 2), Block(<<198, 51, 100>>, 1),
     Block(<<203, 0, 113>>, 1), Block(<<224>>, 32)}
BlockedV6 ==
    {Block(Zeros(16), 1), Block(<<252>>, 2), Block(<<254, 128>>, 128), Block(<<255>>, 1)}

\* The addresses that are delivered to an IPv4 host, in every way to write it.
Spellings(v4) == {v4, Zeros(10) \o <<255, 255>> \o v4}
Embeddings(v4) ==
    {<<0, 100, 255, 155>> \o Zeros(8) \o v4, <<32, 2>> \o v4 \o Zeros(9) \o <<1>>}
V4IsRoutable(v4, optOut) ==
    /\ ~Within(v4, BlockedV4)
    /\ Within(v4, LoopbackV4) => optOut

\* An IPv4 address is allowed exactly if it is routable, however it is written; the
\* opt-out for loopback addresses does not reach those that a relay would deliver.
AddressesClassified(v4) ==
    \A optOut \in BOOLEAN :
        /\ \A b \in Spellings(v4) : (Classify(optOut, b) = "allowed") = V4IsRoutable(v4, optOut)
        /\ \A b \in Embeddings(v4) : (Classify(optOut, b) = "allowed") = V4IsRoutable(v4, FALSE)
        /\ LookupAllowed(optOut, Spellings(v4) \cup {<<1, 1, 1, 1>>}) = V4IsRoutable(v4, optOut)

\* An IPv6 address that stands for itself is allowed exactly if it is routable.
V6Classified(v6) ==
    ~MappedV4(v6) /\ ~Nat64(v6) /\ ~SixToFour(v6) =>
        \A optOut \in BOOLEAN :
            (Classify(optOut, v6) = "allowed")
                = (~Within(v6, BlockedV6) /\ (Within(v6, LoopbackV6) => optOut))
PrefixesClassified(b) == V6Classified(SubSeq(b, 1, 2) \o Zeros(13) \o SubSeq(b, 3, 3))
=============================================================================

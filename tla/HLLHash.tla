------------------------------- MODULE HLLHash -------------------------------
(***************************************************************************)
(* How HyperLogLog turns a hash into a bucket and a rank (HLLHashFunctions:*)
(* HLLHashUtils and the end of MurmurHash3_64.hash), for words of Width    *)
(* bits instead of 64.  The two mixed words are any two words.             *)
(***************************************************************************)
EXTENDS Integers

CONSTANTS Width, Precision

ASSUME WidthAssumption == Width \in Nat /\ Precision \in 1..(Width - 1)

VARIABLES h1, h2, hash

hashVars == <<h1, h2, hash>>

Words == 0..(2^Width - 1)
Pending == -1

Bit(v, i) == (v \div 2^i) % 2

\* The loop over the mask; a mask that ran out answers maxBits.
CountLeadingZeros(value, maxBits) ==
  LET count[c \in 0..maxBits] ==
        IF c < maxBits /\ Bit(value, maxBits - 1 - c) = 0 THEN count[c + 1] ELSE c
  IN IF value = 0 THEN maxBits ELSE count[0]

ExtractBucket(h) == h % 2^Precision

ExtractValue(h) == h \div 2^Precision

\* Mutant: the rank of a value without a one bit is one too small.
GetLeadingZeroCountShort(h) ==
  LET value == ExtractValue(h)
      remainingBits == Width - Precision IN
  IF value = 0 THEN remainingBits ELSE CountLeadingZeros(value, remainingBits) + 1

GetLeadingZeroCount(h) ==
  LET value == ExtractValue(h)
      remainingBits == Width - Precision IN
  IF value = 0 THEN remainingBits + 1 ELSE CountLeadingZeros(value, remainingBits) + 1

HashInit == h1 \in Words /\ h2 \in Words /\ hash = Pending

\* The sum of the two words is returned as it is, without a mask.
Finalize ==
  /\ hash = Pending
  /\ hash' = h1 + h2
  /\ UNCHANGED <<h1, h2>>

HashNext == Finalize

HashSpec == HashInit /\ [][HashNext]_hashVars

-----------------------------------------------------------------------------
\* The rank by its definition, on the low Width bits: one more than the
\* number of leading zeros of the bits above the bucket.
RankValue(h) ==
  LET ones == {i \in Precision..(Width - 1) : Bit(h, i) = 1} IN
  CHOOSE r \in 1..(Width - Precision + 1) :
    /\ \A i \in ones : Width - i >= r
    /\ r <= Width - Precision => Width - r \in ones

\* A carry out of the final sum changes neither the bucket nor the rank of
\* add: both are those of the low Width bits (getLeadingZeroCount looks at
\* bits below the carry only and returns remainingBits + 1 when all are 0).
RankReference ==
  hash # Pending => GetLeadingZeroCount(hash) = RankValue(hash % 2^Width)
==============================================================================

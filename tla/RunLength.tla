------------------------------ MODULE RunLength -----------------------------
(***************************************************************************)
(* The compressor of src/compression/lz4.rs: a header with the length,     *)
(* then runs of more than three equal bytes as escape, count and byte, and *)
(* everything else as it is; a stream is compressed block by block.        *)
(* Inputs grow byte by byte, so that all of them up to a length are tried. *)
(***************************************************************************)
EXTENDS Naturals, Sequences, FiniteSetsExt

CONSTANTS
  Escape,             \* 0xFF
  OtherBytes,
  MaxRun,             \* what a count of one byte can say, 255
  BlockSize,          \* 64 KiB
  MaxInput            \* bound

ASSUME RunLengthAssumption ==
  /\ Escape \in Nat /\ OtherBytes \subseteq Nat \ {Escape}
  /\ MaxRun \in Nat \ 0..3 /\ BlockSize \in Nat \ {0} /\ MaxInput \in 0..255

VARIABLE input

Magic == <<76, 90, 52, 1>>
Header(data) == Magic \o <<Len(data), 0, 0, 0>>

\* Mutant: the count goes one past what its byte can say, and wraps.
RunAtWrapped(data, i) ==
  LET ends == {n \in 1..MaxRun + 1 : i + n - 1 <= Len(data) /\ \A k \in i..i + n - 1 : data[k] = data[i]}
  IN Max(ends)

\* The length of the run that starts at i.
RunAt(data, i) ==
  LET ends == {n \in 1..MaxRun : i + n - 1 <= Len(data) /\ \A k \in i..i + n - 1 : data[k] = data[i]}
  IN Max(ends)

SimpleCompress(data) ==
  LET From[i \in 1..Len(data) + 1] ==
        IF i > Len(data) THEN <<>>
        ELSE LET n == RunAt(data, i)
             IN (IF n > 3 THEN <<Escape, n % (MaxRun + 1), data[i]>> ELSE SubSeq(data, i, i + n - 1)) \o From[i + n]
  IN Header(data) \o From[1]

\* An escape with less than two bytes behind it is a byte like any other.
SimpleDecompress(data) ==
  LET From[i \in 9..Len(data) + 3] ==
        IF i > Len(data) THEN <<>>
        ELSE IF data[i] = Escape /\ i + 2 <= Len(data)
             THEN [k \in 1..data[i + 1] |-> data[i + 2]] \o From[i + 3]
             ELSE <<data[i]>> \o From[i + 1]
  IN IF Len(data) < 8 \/ SubSeq(data, 1, 4) # Magic THEN <<>> ELSE From[9]

Compress(data) == IF data = <<>> THEN <<>> ELSE SimpleCompress(data)
Decompress(data) == IF data = <<>> THEN <<>> ELSE SimpleDecompress(data)

\* compress_stream: every block has a header of its own.
CompressStream(data) ==
  LET Rest[n \in 0..Len(data)] ==
        IF n = 0 THEN <<>>
        ELSE LET size == Min({n, BlockSize})
             IN Compress(SubSeq(data, Len(data) - n + 1, Len(data) - n + size)) \o Rest[n - size]
  IN Rest[Len(data)]

InputInit == input = <<>>
InputNext == Len(input) < MaxInput /\ \E b \in OtherBytes \cup {Escape} : input' = Append(input, b)

-----------------------------------------------------------------------------

\* A chunk of escape bytes that is too short for a run of its own: nothing sets it
\* apart from the mark of a run, unless it ends the data.
PlainEscape(data) ==
  LET Starts[i \in 1..Len(data) + 1] ==
        IF i > Len(data) THEN FALSE
        ELSE \/ data[i] = Escape /\ RunAt(data, i) <= 3 /\ i < Len(data) - 1
             \/ Starts[i + RunAt(data, i)]
  IN Starts[1]

\* decompress gives back what compress was given, through runs that fill a count
\* and go on, unless the data has a chunk of fewer than four escape bytes before
\* its last two bytes; and so for a stream that fits one block.
RoundTrips ==
  ~PlainEscape(input) =>
    /\ Decompress(Compress(input)) = input
    /\ Len(input) <= BlockSize => Decompress(CompressStream(input)) = input
=============================================================================

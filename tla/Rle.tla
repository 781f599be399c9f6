--------------------------------- MODULE Rle ---------------------------------
(* compress_rle and decompress_rle (compression_rle.c), on the bytes they     *)
(* read and write.  A tag byte holds a flag and a length; its width is a      *)
(* parameter (7 bits in the code), so that small inputs reach every limit.    *)
(* A behaviour encodes one input and decodes the result, or decodes any       *)
(* bytes, as a damaged file would have it do.                                 *)
EXTENDS Integers, Sequences, SequencesExt

CONSTANTS Mask,          \* RLE_RUN_EXTRA_MASK, a power of two less one
          MinRun,        \* RLE_MIN_RUN
          Plaintexts,    \* inputs of compress_rle
          Damaged        \* inputs of decompress_rle that come from elsewhere

Flag == Mask + 1                       \* RLE_RUN_FLAG
LiteralMax == Mask + 1                 \* RLE_LITERAL_MAX
MaxRunChunk == MinRun + Mask           \* RLE_MAX_RUN_CHUNK
Byte == 0 .. 2 * Flag - 1

ASSUME RleAssumption ==
    /\ Mask \in Nat /\ MinRun \in Nat \ {0}
    /\ Plaintexts \subseteq Seq(Byte) /\ Damaged \subseteq Seq(Byte)

VARIABLES input,         \* what compress_rle is given
          pc,
          at,            \* i
          literal,       \* literal_buffer[0 .. literal_len - 1]
          remaining,     \* remaining, in the loop that cuts a run
          coded,         \* compressed[0 .. compressed_index - 1]
          size,          \* decompressed_size
          output,        \* decompressed[0 .. decompressed_index - 1]
          error          \* result.error

vars == <<input, pc, at, literal, remaining, coded, size, output, error>>

TypeOK ==
    /\ pc \in {"start", "scan", "run", "compressed", "measure", "decode", "done"}
    /\ at \in Nat
    /\ literal \in Seq(Byte) /\ remaining \in Nat
    /\ coded \in Seq(Byte) /\ output \in Seq(Byte)
    /\ size \in Nat
    /\ error \in {0, -1, -2, -3, -4}

Init ==
    /\ \/ pc = "start" /\ input \in Plaintexts /\ coded = <<>>
       \/ pc = "compressed" /\ input = <<>> /\ coded \in Damaged
    /\ at = 1
    /\ literal = <<>> /\ remaining = 0
    /\ size = 0 /\ output = <<>>
    /\ error = 0

Finish(code) == pc' = "done" /\ error' = code

(****************************** compress_rle *********************************)

(* No input is an error; so is a malloc that fails.                           *)
StartCompress ==
    /\ pc = "start"
    /\ \/ input = <<>> /\ Finish(-1)
       \/ input # <<>> /\ Finish(-2)
       \/ input # <<>> /\ pc' = "scan" /\ UNCHANGED error
    /\ UNCHANGED <<input, at, literal, remaining, coded, size, output>>

(* The number of equal bytes of s from k on.                                  *)
RunLength(s, k) ==
    CHOOSE n \in 1 .. Len(s) - k + 1 :
       /\ \A j \in k .. k + n - 1 : s[j] = s[k]
       /\ k + n <= Len(s) => s[k + n] # s[k]

(* flush_literal_buffer, which always finds room: see RoomForEverything.      *)
LiteralTag(n) == (n - 1) % Flag
Flushed(out, lit) == IF lit = <<>> THEN out ELSE out \o <<LiteralTag(Len(lit))>> \o lit

(* A run begins: the literals before it are flushed.                          *)
BeginRun ==
    /\ pc = "scan" /\ at <= Len(input)
    /\ RunLength(input, at) >= MinRun
    /\ coded' = Flushed(coded, literal)
    /\ literal' = <<>>
    /\ remaining' = RunLength(input, at)
    /\ pc' = "run"
    /\ UNCHANGED <<input, at, size, output, error>>

(* Part of a run is written.  chunk - RLE_MIN_RUN wraps around in a size_t    *)
(* when the last chunk is shorter than a run.                                 *)
(* Variant: every chunk is full.                                              *)
ChunkAlwaysFull(n) == MaxRunChunk
ChunkOf(n) == IF n > MaxRunChunk THEN MaxRunChunk ELSE n
RunTag(n) == Flag + ((n - MinRun) % Flag)

(* Variant: i++ after a run as after a literal.                               *)
NextByte(k) == k + 1
AfterRun(k) == k + RunLength(input, k)

CutRun ==
    /\ pc = "run"
    /\ LET chunk == ChunkOf(remaining)
       IN /\ coded' = coded \o <<RunTag(chunk), input[at]>>
          /\ remaining' = remaining - chunk
          /\ IF remaining = chunk
             THEN pc' = "scan" /\ at' = AfterRun(at)
             ELSE UNCHANGED <<pc, at>>
    /\ UNCHANGED <<input, literal, size, output, error>>

(* A byte joins the literals, which are flushed when the buffer is full.      *)
(* Variant: the buffer is flushed one byte late.                              *)
IsOverfull(lit) == Len(lit) > LiteralMax
IsFull(lit) == Len(lit) = LiteralMax

AddLiteral ==
    /\ pc = "scan" /\ at <= Len(input)
    /\ RunLength(input, at) < MinRun
    /\ LET lit == Append(literal, input[at])
       IN IF IsFull(lit)
          THEN coded' = Flushed(coded, lit) /\ literal' = <<>>
          ELSE literal' = lit /\ UNCHANGED coded
    /\ at' = at + 1
    /\ UNCHANGED <<input, pc, remaining, size, output, error>>

EndCompress ==
    /\ pc = "scan" /\ at > Len(input)
    /\ coded' = Flushed(coded, literal)
    /\ literal' = <<>>
    /\ pc' = "compressed"
    /\ UNCHANGED <<input, at, remaining, size, output, error>>

(***************************** decompress_rle ********************************)

StartDecompress ==
    /\ pc = "compressed"
    /\ IF coded = <<>> THEN Finish(-1) ELSE pc' = "measure" /\ UNCHANGED error
    /\ at' = 1
    /\ UNCHANGED <<input, literal, remaining, coded, size, output>>

(* The token at position k: its kind, the bytes it stands for and those it    *)
(* takes after the tag.                                                       *)
IsRun(k) == coded[k] >= Flag
RunTagLength(k) == (coded[k] % Flag) + MinRun
LiteralTagLength(k) == (coded[k] % Flag) + 1
TokenLength(k) == IF IsRun(k) THEN RunTagLength(k) ELSE LiteralTagLength(k)
TokenExtent(k) == IF IsRun(k) THEN 1 ELSE LiteralTagLength(k)
Truncated(k) == k + TokenExtent(k) > Len(coded)

(* Variant: the first pass forgets the bytes every run has.                   *)
MeasuredShort(k) == IF IsRun(k) THEN coded[k] % Flag ELSE TokenLength(k)
Measured(k) == TokenLength(k)

(* The first pass adds up the lengths and refuses a token cut short.          *)
Measure ==
    /\ pc = "measure" /\ at <= Len(coded)
    /\ IF Truncated(at)
       THEN Finish(-3) /\ UNCHANGED <<at, size>>
       ELSE /\ size' = size + Measured(at)
            /\ at' = at + 1 + TokenExtent(at)
            /\ UNCHANGED <<pc, error>>
    /\ UNCHANGED <<input, literal, remaining, coded, output>>

Allocate ==
    /\ pc = "measure" /\ at > Len(coded)
    /\ \/ Finish(-2) /\ UNCHANGED at
       \/ pc' = "decode" /\ at' = 1 /\ UNCHANGED error
    /\ UNCHANGED <<input, literal, remaining, coded, size, output>>

(* The second pass fills the buffer, and would refuse (-4) a token that does  *)
(* not fit in what the first one measured: see PassesAgree.                   *)
TokenBytes(k) ==
    IF IsRun(k) THEN [j \in 1 .. TokenLength(k) |-> coded[k + 1]]
    ELSE SubSeq(coded, k + 1, k + TokenLength(k))

Fits(k) == ~Truncated(k) /\ Len(output) + TokenLength(k) <= size

Decode ==
    /\ pc = "decode" /\ at <= Len(coded)
    /\ IF Fits(at)
       THEN /\ output' = output \o TokenBytes(at)
            /\ at' = at + 1 + TokenExtent(at)
            /\ UNCHANGED <<pc, error>>
       ELSE Finish(-4) /\ UNCHANGED <<at, output>>
    /\ UNCHANGED <<input, literal, remaining, coded, size>>

EndDecode ==
    /\ pc = "decode" /\ at > Len(coded)
    /\ Finish(0)
    /\ UNCHANGED <<input, at, literal, remaining, coded, size, output>>

Next ==
    \/ StartCompress \/ BeginRun \/ CutRun \/ AddLiteral \/ EndCompress
    \/ StartDecompress \/ Measure \/ Allocate \/ Decode \/ EndDecode

Spec == Init /\ [][Next]_vars

(***************************** what it promises ******************************)

(* The run of s that begins at k leaves, once cut in chunks of the longest    *)
(* length, a last chunk that is shorter than a run.                           *)
BeginsRun(s, k) == k = 1 \/ s[k - 1] # s[k]
ShortRemainder(s) ==
    \E k \in 1 .. Len(s) :
       /\ BeginsRun(s, k)
       /\ RunLength(s, k) > MaxRunChunk
       /\ RunLength(s, k) % MaxRunChunk \in 1 .. MinRun - 1

Returned(code) == pc = "done" /\ error = code

(* What compress_rle made is refused only for want of memory, and decoding it *)
(* gives back the input exactly when no run leaves a short remainder: the     *)
(* literal buffer, its flushes and the cuts of long runs lose nothing else,   *)
(* and the wrap-around of that remainder always shows.                        *)
LosslessUnlessShortRemainder ==
    (pc = "done" /\ input # <<>>) =>
       \/ error = 0 /\ (output = input <=> ~ShortRemainder(input))
       \/ error = -2

(* The buffer of compress_rle, twice its input, always has room for what is   *)
(* written and for the literals still held: its reallocs are never needed.    *)
RoomForEverything ==
    pc \in {"scan", "run", "compressed"} /\ input # <<>>
       => Len(coded) + (IF literal = <<>> THEN 0 ELSE 1 + Len(literal)) <= 2 * Len(input)

(* The two passes of decompress_rle agree on every input, damaged or not: the *)
(* second never finds a token the first let through too long, and it fills    *)
(* the buffer to the last byte.                                               *)
PassesAgree ==
    /\ error # -4
    /\ Returned(0) => Len(output) = size

(* Decompression gives back what was compressed (README: "Descomprimir un     *)
(* archivo"; test_compression.c asserts it of the longest run).               *)
Lossless == (Returned(0) /\ input # <<>>) => output = input
==============================================================================

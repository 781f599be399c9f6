--------------------------------- MODULE Lzw ---------------------------------
(* compress_lzw and decompress_lzw (compression_lzw.c).  A behaviour encodes  *)
(* one input and decodes the result, or decodes any header and codes, as a    *)
(* damaged file would have it do.  The size of the alphabet and that of the   *)
(* full dictionary are parameters (256 and 4096 in the code), so that short   *)
(* inputs fill the dictionary.                                                *)
EXTENDS Integers, Sequences

CONSTANTS Base,          \* 256: the codes below stand for themselves
          MaxDict,       \* LZW_MAX_DICT_SIZE
          Plaintexts,    \* inputs of compress_lzw
          Damaged        \* inputs of decompress_lzw that come from elsewhere

Byte == 0 .. Base - 1
Code == Nat                            \* read_u16: any code may be read
Entry == [prefix : Nat, value : Byte]
Dictionary == Seq(Entry)               \* dictionary[256 .. dict_size - 1]
Header == [magic : {"LZW1", "other", "short"}, original_size : Nat, code_count : Nat]

ASSUME LzwAssumption ==
    /\ Base \in Nat \ {0} /\ MaxDict \in Nat /\ MaxDict > Base
    /\ Plaintexts \subseteq Seq(Byte)
    /\ Damaged \subseteq [header : Header, codes : Seq(Code)]

VARIABLES input,         \* what compress_lzw is given
          pc,
          at,            \* i
          current,       \* current_code
          dict,          \* the encoder's dictionary
          header, codes, \* what it writes, and decompress_lzw reads
          old,           \* old_code
          known,         \* the decoder's dictionary
          output,        \* output[0 .. out_index - 1]
          error          \* result.error

vars == <<input, pc, at, current, dict, header, codes, old, known, output, error>>

DictSize(d) == Base + Len(d)

TypeOK ==
    /\ pc \in {"start", "scan", "compressed", "decode", "done"}
    /\ at \in Nat
    /\ dict \in Dictionary /\ known \in Dictionary
    /\ current \in 0 .. MaxDict - 1 /\ old \in 0 .. MaxDict - 1
    /\ header \in Header /\ codes \in Seq(Code)
    /\ output \in Seq(Byte)
    /\ error \in -12 .. 0

NoHeader == [magic |-> "short", original_size |-> 0, code_count |-> 0]

Init ==
    /\ \/ /\ pc = "start" /\ input \in Plaintexts
          /\ header = NoHeader /\ codes = <<>>
       \/ /\ pc = "compressed" /\ input = <<>>
          /\ \E file \in Damaged : header = file.header /\ codes = file.codes
    /\ at = 1 /\ current = 0 /\ old = 0
    /\ dict = <<>> /\ known = <<>>
    /\ output = <<>> /\ error = 0

Finish(code) == pc' = "done" /\ error' = code

(****************************** the dictionary *******************************)

(* Variant: a full dictionary takes one more entry.                           *)
HasRoomForOneMore(d) == DictSize(d) <= MaxDict
HasRoom(d) == DictSize(d) < MaxDict

Added(d, prefix, value) ==
    IF HasRoom(d) THEN Append(d, [prefix |-> prefix, value |-> value]) ELSE d

(* find_in_dict, which returns the first of these codes.                      *)
Found(d, prefix, value) ==
    {k \in Base .. DictSize(d) - 1 :
        d[k - Base + 1] = [prefix |-> prefix, value |-> value]}

(* build_sequence: the bytes a code stands for.                               *)
Sequence(d, code) ==
    LET bytes[k \in 0 .. DictSize(d) - 1] ==
          IF k < Base THEN <<k>>
          ELSE Append(bytes[d[k - Base + 1].prefix], d[k - Base + 1].value)
    IN bytes[code]

(****************************** compress_lzw *********************************)

(* Variant: the loop begins with the byte that is the current code already.   *)
FromTheFirst == 1
FromTheSecond == 2

(* No input is an error; so is a malloc that fails.                           *)
StartCompress ==
    /\ pc = "start"
    /\ \/ input = <<>> /\ Finish(-1) /\ UNCHANGED <<at, current>>
       \/ input # <<>> /\ Finish(-2) /\ UNCHANGED <<at, current>>
       \/ /\ input # <<>> /\ pc' = "scan"
          /\ current' = input[1] /\ at' = FromTheSecond
          /\ UNCHANGED error
    /\ UNCHANGED <<input, dict, header, codes, old, known, output>>

(* The current phrase with the next byte is in the dictionary.                *)
ExtendPhrase ==
    /\ pc = "scan" /\ at <= Len(input)
    /\ current' \in Found(dict, current, input[at])
    /\ \A k \in Found(dict, current, input[at]) : current' <= k
    /\ at' = at + 1
    /\ UNCHANGED <<input, pc, dict, header, codes, old, known, output, error>>

(* It is not: its code is written and the longer phrase becomes an entry.     *)
EmitCode ==
    /\ pc = "scan" /\ at <= Len(input)
    /\ Found(dict, current, input[at]) = {}
    /\ codes' = Append(codes, current)
    /\ dict' = Added(dict, current, input[at])
    /\ current' = input[at]
    /\ at' = at + 1
    /\ UNCHANGED <<input, pc, header, old, known, output, error>>

(* The last code, then the header, unless there is no memory for the output.  *)
EndCompress ==
    /\ pc = "scan" /\ at > Len(input)
    /\ codes' = Append(codes, current)
    /\ header' = [magic |-> "LZW1", original_size |-> Len(input),
                  code_count |-> Len(codes')]
    /\ \/ pc' = "compressed" /\ UNCHANGED error
       \/ Finish(-4)
    /\ UNCHANGED <<input, at, current, dict, old, known, output>>

(***************************** decompress_lzw ********************************)

(* What the checks of the header and of the first code make of the input.     *)
HeaderError ==
    CASE header.magic = "short" -> -1
      [] header.magic = "other" -> -2
      [] header.code_count > Len(codes) -> -3
      [] header.original_size = 0 \/ header.code_count = 0 -> -4
      [] codes[1] >= Base -> -6
      [] OTHER -> 0

StartDecompress ==
    /\ pc = "compressed"
    /\ IF HeaderError = 0
       THEN /\ pc' = "decode"
            /\ old' = codes[1] /\ output' = <<codes[1]>>
            /\ at' = 2
            /\ UNCHANGED error
       ELSE Finish(HeaderError) /\ UNCHANGED <<old, output, at>>
    /\ UNCHANGED <<input, current, dict, header, codes, known>>

(* malloc(original_size) fails, whether the first code is good or not.        *)
NoOutputBuffer ==
    /\ pc = "compressed" /\ HeaderError \in {0, -6}
    /\ Finish(-5)
    /\ UNCHANGED <<input, at, current, dict, header, codes, old, known, output>>

(* A code that is known, or is the next to become so: then it stands for the  *)
(* phrase before it and the first byte of that again.                         *)
(* Variant: the last byte of it.                                              *)
PhraseAndLast == LET s == Sequence(known, old) IN Append(s, s[Len(s)])
PhraseAndFirst == LET s == Sequence(known, old) IN Append(s, s[1])

(* Variant: also when the dictionary is full and the code is no entry of it.  *)
IsNextOrBeyond(code) == code = DictSize(known)
IsNext(code) == code = DictSize(known) /\ HasRoom(known)

Meaning(code) == IF code < DictSize(known) THEN Sequence(known, code) ELSE PhraseAndFirst

(* Variants: the size of the output is not checked; the entry takes the first *)
(* byte of the phrase before.                                                 *)
FitsAlways(s) == TRUE
Fits(s) == Len(output) + Len(s) <= header.original_size
EntryFromOld(s) == Added(known, old, Sequence(known, old)[1])
EntryFromNew(s) == Added(known, old, s[1])

DecodeCode ==
    /\ pc = "decode" /\ at <= header.code_count
    /\ LET code == codes[at]
       IN IF ~(code < DictSize(known) \/ IsNext(code))
          THEN Finish(-10) /\ UNCHANGED <<at, old, known, output>>
          ELSE IF ~Fits(Meaning(code))
          THEN Finish(-11) /\ UNCHANGED <<at, old, known, output>>
          ELSE /\ output' = output \o Meaning(code)
               /\ known' = EntryFromNew(Meaning(code))
               /\ old' = code
               /\ at' = at + 1
               /\ UNCHANGED <<pc, error>>
    /\ UNCHANGED <<input, current, dict, header, codes>>

EndDecode ==
    /\ pc = "decode" /\ at > header.code_count
    /\ Finish(IF Len(output) = header.original_size THEN 0 ELSE -12)
    /\ UNCHANGED <<input, at, current, dict, header, codes, old, known, output>>

Next ==
    \/ StartCompress \/ ExtendPhrase \/ EmitCode \/ EndCompress
    \/ StartDecompress \/ NoOutputBuffer \/ DecodeCode \/ EndDecode

Spec == Init /\ [][Next]_vars

(***************************** what it promises ******************************)

(* Decoding what compress_lzw made gives back its input, and is refused for   *)
(* want of memory only: also when the dictionary is full, and when a code is  *)
(* used by the encoder right after it was entered.                            *)
Lossless ==
    (pc = "done" /\ input # <<>>) =>
       \/ error = 0 /\ output = input
       \/ error \in {-2, -4, -5}

(* The decoder has the encoder's dictionary, one entry behind until both are  *)
(* full: they stop adding entries at the same code.                           *)
DictionariesInStep ==
    (pc = "decode" /\ input # <<>>) =>
       /\ known = SubSeq(dict, 1, Len(known))
       /\ Len(known) = IF at - 2 <= MaxDict - Base THEN at - 2 ELSE MaxDict - Base

(* codes[] is allocated for one code per byte of input and never needs more:  *)
(* with the code still to be written there are at most as many codes as bytes *)
(* read, so neither realloc of compress_lzw is ever reached.                  *)
RoomForCodes ==
    /\ pc = "scan" => Len(codes) + 1 <= at - 1
    /\ pc = "compressed" /\ input # <<>> => Len(codes) <= Len(input)

(* An entry leads to an earlier code, in both dictionaries and whatever is    *)
(* decoded, so build_sequence comes to an end; and there is never an entry    *)
(* beyond the last (dictionary[dict_size], while dict_size has room).         *)
EntriesLeadBack ==
    \A d \in {dict, known} :
       /\ DictSize(d) <= MaxDict
       /\ \A k \in 1 .. Len(d) : d[k].prefix < Base + k - 1

(* Whatever it is given, decompress_lzw stays inside its buffers: a sequence  *)
(* and a byte fit in MaxDict + 1, and the output in original_size, which it   *)
(* fills when it returns 0.                                                   *)
InsideBuffers ==
    /\ pc = "decode" => Len(Sequence(known, old)) <= MaxDict
    /\ pc = "decode" => Len(output) <= header.original_size
    /\ (pc = "done" /\ error = 0) => Len(output) = header.original_size
==============================================================================

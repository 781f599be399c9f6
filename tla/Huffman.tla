-------------------------------- MODULE Huffman --------------------------------
(* compress_huffman and decompress_huffman (compression_huffman.c).  A        *)
(* behaviour encodes one input and decodes the result, or decodes any file.   *)
(* A node of the tree is its frequency and the codes its leaves have below    *)
(* it, so that build_huffman_codes is part of building the tree; a code is a  *)
(* sequence of bits.  Where the sort leaves nodes of equal frequency in an    *)
(* order of its own, any is taken.                                            *)
EXTENDS Integers, Sequences, SequencesExt, FiniteSets, FiniteSetsExt

CONSTANTS Byte,
          SmallFile,     \* 10: shorter inputs are stored as they are
          MaxLength,     \* 32: the longest code that is built or looked for
          ByteBits,      \* 8
          Plaintexts,    \* inputs of compress_huffman
          Damaged        \* inputs of decompress_huffman that come from elsewhere

Bit == {0, 1}
Leaf == [byte : Byte, code : Seq(Bit)]
Entry == [byte : Byte, code_length : Nat, stored : Seq(Bit)]
File == [magic : {"HUFF", "SMAL", "other", "short"},
         original_size : Nat,
         whole : BOOLEAN,              \* as long as its header says
         table : SUBSET Entry,
         data : Seq(Bit \cup Byte)]    \* bits, or the bytes of a small file

ASSUME HuffmanAssumption ==
    /\ SmallFile \in Nat /\ MaxLength \in Nat \ {0} /\ ByteBits \in Nat \ {0}
    /\ Plaintexts \subseteq Seq(Byte) /\ Damaged \subseteq File
    /\ \A f \in Damaged : f.magic = "SMAL" /\ f.whole => f.original_size <= Len(f.data)

VARIABLES input,         \* what compress_huffman is given
          pc,
          nodes,         \* nodes[0 .. node_count - 1]
          table,         \* table.codes
          at,            \* the bytes encoded, the bits decoded
          bits,          \* compressed_data
          file,          \* what it makes, and decompress_huffman is given
          output,        \* decompressed_data[0 .. decompressed_index - 1]
          error          \* result.error

vars == <<input, pc, nodes, table, at, bits, file, output, error>>

Node == [frequency : Nat \ {0}, leaves : SUBSET Leaf]

TypeOK ==
    /\ pc \in {"start", "tree", "encode", "compressed", "decode", "done", "aborted"}
    /\ nodes \in SUBSET Node
    /\ table \in SUBSET Leaf
    /\ at \in Nat
    /\ bits \in Seq(Bit)
    /\ file \in File
    /\ output \in Seq(Bit \cup Byte)
    /\ error \in -8 .. 0

NoFile == [magic |-> "short", original_size |-> 0, whole |-> FALSE,
           table |-> {}, data |-> <<>>]

Init ==
    /\ \/ pc = "start" /\ input \in Plaintexts /\ file = NoFile
       \/ pc = "compressed" /\ input = <<>> /\ file \in Damaged
    /\ nodes = {} /\ table = {}
    /\ at = 0 /\ bits = <<>>
    /\ output = <<>> /\ error = 0

Finish(code) == pc' = "done" /\ error' = code

(**************************** compress_huffman *******************************)

Frequency(s, b) == Cardinality({i \in 1 .. Len(s) : s[i] = b})

(* Variant: a node for every byte value, whatever its frequency.              *)
AllSymbols(s) == Byte
Symbols(s) == {b \in Byte : Frequency(s, b) > 0}

LeafNode(s, b) == [frequency |-> Frequency(s, b),
                   leaves |-> {[byte |-> b, code |-> <<>>]}]

StartCompress ==
    /\ pc = "start"
    /\ \/ input = <<>> /\ Finish(-1) /\ UNCHANGED nodes
       \/ /\ input # <<>> /\ Len(input) >= SmallFile
          /\ nodes' = {LeafNode(input, b) : b \in Symbols(input)}
          /\ pc' = "tree"
          /\ UNCHANGED error
    /\ UNCHANGED <<input, table, at, bits, file, output>>

(* compress_small_file.                                                       *)
StoreSmallFile ==
    /\ pc = "start" /\ input # <<>> /\ Len(input) < SmallFile
    /\ \/ /\ file' = [magic |-> "SMAL", original_size |-> Len(input), whole |-> TRUE,
                      table |-> {}, data |-> input]
          /\ pc' = "compressed" /\ UNCHANGED error
       \/ Finish(-1) /\ UNCHANGED file
    /\ UNCHANGED <<input, nodes, table, at, bits, output>>

(* Variant: the code of a leaf does not say on which side it is.              *)
OneSided(bit, leaves) == {[leaf EXCEPT !.code = <<0>> \o @] : leaf \in leaves}
Side(bit, leaves) == {[leaf EXCEPT !.code = <<bit>> \o @] : leaf \in leaves}

Joined(a, b) == [frequency |-> a.frequency + b.frequency,
                 leaves |-> Side(0, a.leaves) \cup Side(1, b.leaves)]

(* Variant: the nodes are not sorted.                                         *)
AnyTwo(a, b) == a # b
LeastTwo(a, b) ==
    /\ a # b /\ a.frequency <= b.frequency
    /\ \A c \in nodes \ {a, b} : b.frequency <= c.frequency

(* One turn of the loop of build_huffman_tree.                                *)
JoinNodes ==
    /\ pc = "tree"
    /\ \E a, b \in nodes :
          /\ LeastTwo(a, b)
          /\ nodes' = (nodes \ {a, b}) \cup {Joined(a, b)}
    /\ UNCHANGED <<input, pc, table, at, bits, file, output, error>>

(* A node that cannot be allocated is used all the same; if it is the only    *)
(* one, it is a tree that could not be built.                                 *)
NoNode ==
    /\ pc = "tree"
    /\ \/ Cardinality(nodes) > 1 /\ pc' = "aborted" /\ UNCHANGED error
       \/ Cardinality(Symbols(input)) = 1 /\ Finish(-2)
    /\ UNCHANGED <<input, nodes, table, at, bits, file, output>>

(* build_huffman_codes, which passes over what is too deep; the table and the *)
(* buffers may not be allocated.                                              *)
BuildTable ==
    /\ pc = "tree" /\ Cardinality(nodes) = 1
    /\ \E root \in nodes :
          table' = {leaf \in root.leaves : Len(leaf.code) <= MaxLength}
    /\ \/ pc' = "encode" /\ UNCHANGED error
       \/ \E code \in {-3, -5, -6} : Finish(code)
    /\ UNCHANGED <<input, nodes, at, bits, file, output>>

(* Variant: the bits of a code are written from the last to the first.        *)
LastBitFirst(code) == Reverse(code)
FirstBitFirst(code) == code

EncodeByte ==
    /\ pc = "encode" /\ at < Len(input)
    /\ LET codes == {leaf \in table : leaf.byte = input[at + 1]}
       IN IF codes = {}
          THEN Finish(-7) /\ UNCHANGED <<bits, at>>
          ELSE /\ \E leaf \in codes : bits' = bits \o FirstBitFirst(leaf.code)
               /\ at' = at + 1
               /\ UNCHANGED <<pc, error>>
    /\ UNCHANGED <<input, nodes, table, file, output>>

(* What fills the last byte of n bits, or the first.                          *)
Padding(n) == [i \in 1 .. ((ByteBits - (n % ByteBits)) % ByteBits) |-> 0]

(* serialize_huffman_table: every code in whole bytes, after its length.      *)
Serialized(leaves) ==
    {[byte |-> leaf.byte, code_length |-> Len(leaf.code),
      stored |-> Padding(Len(leaf.code)) \o leaf.code] : leaf \in leaves}

EndCompress ==
    /\ pc = "encode" /\ at = Len(input)
    /\ \/ /\ file' = [magic |-> "HUFF", original_size |-> Len(input), whole |-> TRUE,
                      table |-> Serialized(table), data |-> bits \o Padding(Len(bits))]
          /\ pc' = "compressed" /\ UNCHANGED error
       \/ Finish(-8) /\ UNCHANGED file
    /\ UNCHANGED <<input, nodes, table, at, bits, output>>

(*************************** decompress_huffman ******************************)

HeaderError ==
    CASE file.magic = "short" -> -1
      [] file.magic = "other" -> -2
      [] file.magic \in {"HUFF", "SMAL"} /\ ~file.whole -> -3
      [] OTHER -> 0

RefuseHeader ==
    /\ pc = "compressed" /\ HeaderError # 0
    /\ Finish(HeaderError)
    /\ UNCHANGED <<input, nodes, table, at, bits, file, output>>

(* A table of less than two bytes, or no memory for it or for the output.     *)
NoTableOrBuffer ==
    /\ pc = "compressed" /\ HeaderError = 0
    /\ \/ Finish(-5)
       \/ file.magic = "HUFF" /\ Finish(-4)
    /\ UNCHANGED <<input, nodes, table, at, bits, file, output>>

TakeSmallFile ==
    /\ pc = "compressed" /\ HeaderError = 0 /\ file.magic = "SMAL"
    /\ output' = SubSeq(file.data, 1, file.original_size)
    /\ Finish(0)
    /\ UNCHANGED <<input, nodes, table, at, bits, file>>

StartDecompress ==
    /\ pc = "compressed" /\ HeaderError = 0 /\ file.magic = "HUFF"
    /\ pc' = "decode"
    /\ at' = 0
    /\ UNCHANGED <<input, nodes, table, bits, file, output, error>>

(* Variant: bits are decoded while there are any.                             *)
MoreBits == at < Len(file.data)
MoreToDecode == Len(output) < file.original_size /\ at < Len(file.data)

Left == Len(file.data) - at
Read(n) == SubSeq(file.data, at + 1, at + n)

(* The entries deserialize_huffman_table has read whose length and value are  *)
(* those of the next n bits.                                                  *)
Matching(n) ==
    {entry \in file.table :
        entry.code_length = n /\ entry.stored = Padding(n) \o Read(n)}
CodeLengths == {n \in 1 .. Min({MaxLength, Left}) : Matching(n) # {}}

(* Bits are read until they are a code of the table.                          *)
DecodeByte ==
    /\ pc = "decode" /\ MoreToDecode /\ CodeLengths # {}
    /\ \E entry \in Matching(Min(CodeLengths)) : output' = Append(output, entry.byte)
    /\ at' = at + Min(CodeLengths)
    /\ UNCHANGED <<input, pc, nodes, table, bits, file, error>>

(* They never are, in as many as a code may have or in all there are.         *)
NoCode ==
    /\ pc = "decode" /\ MoreToDecode /\ CodeLengths = {}
    /\ Finish(IF Left >= MaxLength THEN -7 ELSE -6)
    /\ UNCHANGED <<input, nodes, table, at, bits, file, output>>

EndDecode ==
    /\ pc = "decode" /\ ~MoreToDecode
    /\ Finish(IF Len(output) = file.original_size THEN 0 ELSE -6)
    /\ UNCHANGED <<input, nodes, table, at, bits, file, output>>

Next ==
    \/ StartCompress \/ StoreSmallFile \/ JoinNodes \/ NoNode \/ BuildTable
    \/ EncodeByte \/ EndCompress
    \/ RefuseHeader \/ NoTableOrBuffer \/ TakeSmallFile
    \/ StartDecompress \/ DecodeByte \/ NoCode \/ EndDecode

Spec == Init /\ [][Next]_vars

(***************************** what it promises ******************************)

OneSymbol(s) == Len(s) >= SmallFile /\ Cardinality(Symbols(s)) = 1

(* Decoding what compress_huffman made gives back its input, or fails for     *)
(* want of memory; of an input of one symbol, whose code has no bits, it      *)
(* always fails, and never returns anything else.                             *)
LosslessUnlessOneSymbol ==
    (pc = "done" /\ file.whole /\ input # <<>>) =>
       \/ error \in {-4, -5, -8}
       \/ ~OneSymbol(input) /\ error = 0 /\ output = input
       \/ OneSymbol(input) /\ error = -6

(* Every byte of the input has exactly one code, no deeper than is looked     *)
(* for, and no code begins another, whichever nodes the sort puts first: the  *)
(* inputs, at most a chunk, are too short for a tree deeper than MaxLength.   *)
CodesAreAPrefixCode ==
    pc \in {"encode", "compressed", "decode"} /\ nodes # {} =>
       /\ \A b \in Symbols(input) : \E leaf \in table : leaf.byte = b
       /\ \A a, b \in table :
             a # b => a.byte # b.byte /\ ~IsPrefix(a.code, b.code)

(* No prefix code takes fewer bits for the input: by Kraft's inequality one   *)
(* with given lengths exists when the sum of 2^-length is at most one.        *)
IsCode(lengths) ==
    MapThenSumSet(LAMBDA b : 2 ^ (MaxLength - lengths[b]), DOMAIN lengths) <= 2 ^ MaxLength
Cost(lengths) ==
    MapThenSumSet(LAMBDA b : Frequency(input, b) * lengths[b], DOMAIN lengths)

ShortestCode ==
    pc = "encode" /\ at = Len(input) =>
       \A lengths \in [Symbols(input) -> 1 .. MaxLength] :
          IsCode(lengths) => Len(bits) <= Cost(lengths)

(* Decoding any file never writes past original_size bytes, and returns 0     *)
(* with exactly as many.                                                      *)
InsideBuffer ==
    /\ pc = "decode" => Len(output) <= file.original_size
    /\ (pc = "done" /\ error = 0) => Len(output) = file.original_size

(* Decompression gives back what was compressed (README: "Descomprimir un     *)
(* archivo").                                                                 *)
Lossless ==
    (pc = "done" /\ file.whole /\ input # <<>>) =>
       error \in {-4, -5, -8} \/ (error = 0 /\ output = input)
==============================================================================

------------------------------- MODULE MCHuffman -------------------------------
(* Huffman with five byte values, bytes of three bits, codes of three bits at *)
(* most, and inputs stored as they are when shorter than three.               *)
EXTENDS Huffman

UpTo(set, n) == UNION {[1 .. k -> set] : k \in 0 .. n}
Sorted(s) == \A i \in 1 .. Len(s) - 1 : s[i] <= s[i + 1]

(* Every order of up to five bytes of three values, and every frequency of    *)
(* five values in up to seven bytes: eight would need a code of four bits.    *)
SmallPlaintexts ==
    UpTo(0 .. 2, 5) \cup {s \in UpTo(Byte, 7) : Sorted(s)}

Entries == [byte : {0, 1}, code_length : {1, 2}, stored : [1 .. 3 -> Bit]]
           \cup [byte : {0}, code_length : {0}, stored : {<<>>}]

(* Any table of two entries or less, with any bits, and small files.          *)
SmallDamaged ==
    [magic : {"HUFF"}, original_size : 0 .. 3, whole : {TRUE},
     table : {{}} \cup {{e, f} : e, f \in Entries},
     data : {<<>>} \cup [1 .. 3 -> Bit]]
    \cup [magic : {"HUFF", "SMAL", "other", "short"}, original_size : {2}, whole : {FALSE},
          table : {{}}, data : {<<0>>}]
    \cup [magic : {"SMAL"}, original_size : 0 .. 2, whole : {TRUE},
          table : {{}}, data : {<<3, 4>>}]
==============================================================================

--------------------------------- MODULE MCLzw ---------------------------------
(* Lzw with two byte values and a dictionary of five codes.                   *)
EXTENDS Lzw

UpTo(set, n) == UNION {[1 .. k -> set] : k \in 0 .. n}

(* Ten bytes of one value use every entry right after it was made; the others *)
(* fill the dictionary and go on with it full.                                *)
SmallPlaintexts == UpTo(Byte, 10)

(* Any four codes or less, and any claim about them; any five codes, by which *)
(* the dictionary is full.                                                    *)
SmallDamaged ==
    [header : [magic : {"LZW1"}, original_size : 0 .. 8, code_count : 0 .. 5]
              \cup [magic : {"short", "other"}, original_size : {1}, code_count : {1}],
     codes : UpTo(0 .. MaxDict + 1, 4)]
    \cup [header : {[magic |-> "LZW1", original_size |-> 8, code_count |-> 5]},
          codes : [1 .. 5 -> 0 .. MaxDict]]
==============================================================================

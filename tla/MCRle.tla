--------------------------------- MODULE MCRle ---------------------------------
(* Rle with two bits of length in a tag: eight byte values, literals of at    *)
(* most four bytes, runs of at most six.                                      *)
EXTENDS Rle

UpTo(set, n) == UNION {[1 .. k -> set] : k \in 0 .. n}

(* Every input of two symbols long enough to need a cut and a remainder of    *)
(* each length, and long runs that need two cuts.                             *)
SmallPlaintexts ==
    UpTo({0, 5}, 9) \cup {[k \in 1 .. n |-> 5] : n \in 10 .. 16}

(* Every sequence of four bytes or less.                                      *)
SmallDamaged == UpTo(Byte, 4)
==============================================================================

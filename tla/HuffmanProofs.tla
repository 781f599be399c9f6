------------------------------ MODULE HuffmanProofs ------------------------------
(* What holds of Huffman for every input, every table and every damaged file, *)
(* in whichever order the sort leaves nodes of equal frequency: the codes are *)
(* a prefix code of bounded depth, and decoding inverts encoding.             *)
EXTENDS Huffman, SequenceTheorems, FiniteSetTheorems, WellFoundedInduction, TLAPS

LEMMA Parameters ==
    /\ SmallFile \in Nat /\ MaxLength \in Nat \ {0} /\ ByteBits \in Nat \ {0}
    /\ Plaintexts \subseteq Seq(Byte) /\ Damaged \subseteq File
BY HuffmanAssumption

(* A set of naturals has a least element.                                     *)
LEMMA Least ==
    ASSUME NEW T, T \subseteq Nat, T # {}
    PROVE  \E x \in T : \A y \in T : x <= y
<1> DEFINE R == OpToRel(<, Nat)
<1>1. IsWellFoundedOn(R, Nat) BY NatLessThanWellFounded
<1>2. \A x, y \in Nat : y < x => <<y, x>> \in R BY DEF OpToRel
<1> HIDE DEF R
<1>3. PICK x \in T : \A y \in T : ~(<<y, x>> \in R) BY <1>1, WFMin
<1>4. \A y \in T : ~(y < x) BY <1>2, <1>3
<1> QED BY <1>3, <1>4

(***************************** Fibonacci numbers *****************************)

(* A node with a leaf at depth h is no rarer than the h + 2-nd of them.       *)
LastFib == MaxLength + 3
Fib[n \in 0 .. LastFib] == IF n <= 1 THEN n ELSE Fib[n - 1] + Fib[n - 2]

IsFib(m, f) == f = [n \in 0 .. m |-> IF n <= 1 THEN n ELSE f[n - 1] + f[n - 2]]

LEMMA FibExists == \E f : IsFib(LastFib, f)
<1> DEFINE T == {m \in Nat : ~(\E f : IsFib(m, f))}
<1>0. LastFib \in Nat BY Parameters DEF LastFib
<1>1. SUFFICES ASSUME T # {} PROVE FALSE BY <1>0
<1>2. PICK m \in T : \A k \in T : m <= k
  <2>1. T \subseteq Nat OBVIOUS
  <2> HIDE DEF T
  <2> QED BY <1>1, <2>1, Least
<1>3. m \in Nat /\ ~(\E f : IsFib(m, f)) OBVIOUS
<1>4. m > 1
  <2>1. ASSUME NEW k \in {0, 1} PROVE \E f : IsFib(k, f)
    <3>1. \A n \in 0 .. k : n <= 1 BY <2>1
    <3>2. IsFib(k, [n \in 0 .. k |-> n]) BY <3>1 DEF IsFib
    <3> QED BY <3>2
  <2> QED BY <1>3, <2>1
<1>5. PICK f : IsFib(m - 1, f)
  <2>1. m - 1 \in Nat /\ ~(m <= m - 1) BY <1>3, <1>4
  <2>2. m - 1 \notin T BY <1>2, <2>1
  <2> QED BY <2>1, <2>2
<1> DEFINE Rec(h, n) == IF n <= 1 THEN n ELSE h[n - 1] + h[n - 2]
           g == [n \in 0 .. m |-> IF n = m THEN f[m - 1] + f[m - 2] ELSE f[n]]
<1>6. ASSUME NEW n \in 0 .. m PROVE g[n] = Rec(g, n)
  <2>1. CASE n = m
    <3>1. /\ m - 1 \in 0 .. m /\ m - 1 # m /\ m - 2 \in 0 .. m /\ m - 2 # m
          /\ m \in 0 .. m /\ ~(m <= 1)
      BY <1>3, <1>4
    <3>2. g[m] = f[m - 1] + f[m - 2] /\ g[m - 1] = f[m - 1] /\ g[m - 2] = f[m - 2]
      BY <3>1
    <3> HIDE DEF g
    <3> QED BY <2>1, <3>1, <3>2
  <2>2. CASE n # m
    <3>1. n \in 0 .. m - 1 BY <1>3, <2>2
    <3>2. f[n] = Rec(f, n) BY <1>5, <3>1 DEF IsFib
    <3>3. ~(n <= 1) => n - 1 \in 0 .. m /\ n - 1 # m /\ n - 2 \in 0 .. m /\ n - 2 # m
      BY <1>3, <3>1
    <3>4. g[n] = f[n] /\ (~(n <= 1) => g[n - 1] = f[n - 1] /\ g[n - 2] = f[n - 2])
      BY <2>2, <3>3
    <3> HIDE DEF g
    <3> QED BY <3>2, <3>4
  <2> QED BY <2>1, <2>2
<1>7. g = [n \in 0 .. m |-> Rec(g, n)]
  <2>1. g = [n \in 0 .. m |-> g[n]] OBVIOUS
  <2> HIDE DEF g
  <2> QED BY <1>6, <2>1
<1>8. IsFib(m, g)
  <2> HIDE DEF g
  <2> QED BY <1>7 DEF IsFib
<1> QED BY <1>3, <1>8

LEMMA FibIs ==
    /\ Fib[1] = 1 /\ Fib[2] = 1
    /\ \A h \in 0 .. MaxLength : Fib[h + 3] = Fib[h + 2] + Fib[h + 1]
    /\ \A n \in 0 .. LastFib : Fib[n] \in Nat
<1>0. LastFib \in Nat /\ LastFib >= 4 /\ LastFib = MaxLength + 3 /\ MaxLength \in Nat
  BY Parameters DEF LastFib
<1>1. IsFib(LastFib, Fib)
  <2>1. Fib = CHOOSE f : IsFib(LastFib, f) BY Zenon DEF Fib, IsFib
  <2> QED BY <2>1, FibExists
<1>2. \A n \in 0 .. LastFib : Fib[n] = IF n <= 1 THEN n ELSE Fib[n - 1] + Fib[n - 2]
  BY <1>1 DEF IsFib
<1> HIDE DEF Fib
<1>3. Fib[0] = 0 /\ Fib[1] = 1 /\ Fib[2] = 1
  <2>1. 0 \in 0 .. LastFib /\ 1 \in 0 .. LastFib /\ 2 \in 0 .. LastFib BY <1>0
  <2>2. Fib[0] = 0 /\ Fib[1] = 1 BY <1>2, <2>1
  <2>3. Fib[2] = Fib[2 - 1] + Fib[2 - 2] BY <1>2, <2>1
  <2> QED BY <2>2, <2>3
<1>4. ASSUME NEW h \in 0 .. MaxLength PROVE Fib[h + 3] = Fib[h + 2] + Fib[h + 1]
  <2>1. /\ h + 3 \in 0 .. LastFib /\ ~(h + 3 <= 1)
        /\ (h + 3) - 1 = h + 2 /\ (h + 3) - 2 = h + 1
    BY <1>0
  <2>2. Fib[h + 3] = Fib[(h + 3) - 1] + Fib[(h + 3) - 2] BY <1>2, <2>1
  <2> QED BY <2>1, <2>2
<1>5. \A n \in 0 .. LastFib : Fib[n] \in Nat
  <2> DEFINE T == {n \in 0 .. LastFib : Fib[n] \notin Nat}
  <2>1. SUFFICES ASSUME T # {} PROVE FALSE OBVIOUS
  <2>2. PICK n \in T : \A k \in T : n <= k
    <3>1. T \subseteq Nat BY <1>0
    <3> HIDE DEF T
    <3> QED BY <2>1, <3>1, Least
  <2>3. n \in 0 .. LastFib /\ Fib[n] \notin Nat OBVIOUS
  <2>4. n \in Nat /\ n > 1
    <3>1. n \in Nat BY <1>0, <2>3
    <3>2. n <= 1 => Fib[n] = n BY <1>2, <2>3
    <3> QED BY <2>3, <3>1, <3>2
  <2>5. /\ n - 1 \in 0 .. LastFib /\ n - 2 \in 0 .. LastFib /\ ~(n <= n - 1) /\ ~(n <= n - 2)
        /\ ~(n <= 1)
    BY <1>0, <2>3, <2>4
  <2>6. Fib[n - 1] \in Nat /\ Fib[n - 2] \in Nat
    <3>1. n - 1 \notin T /\ n - 2 \notin T BY <2>2, <2>5
    <3> QED BY <2>5, <3>1
  <2>7. Fib[n] = Fib[n - 1] + Fib[n - 2] BY <1>2, <2>3, <2>5
  <2> QED BY <2>3, <2>6, <2>7
<1> QED BY <1>3, <1>4, <1>5

(*********************************** codes ***********************************)

(* When a code is the beginning of another.                                   *)
LEMMA PrefixIs ==
    ASSUME NEW s \in Seq(Bit), NEW t \in Seq(Bit)
    PROVE  IsPrefix(s, t) <=> Len(s) <= Len(t) /\ \A i \in 1 .. Len(s) : s[i] = t[i]
<1>1. Len(s) \in Nat /\ Len(t) \in Nat BY LenProperties
<1>2. SUFFICES ASSUME Len(s) <= Len(t)
               PROVE  SubSeq(s, 1, Len(s)) = SubSeq(t, 1, Len(s))
                      <=> \A i \in 1 .. Len(s) : s[i] = t[i]
  BY DEF IsPrefix
<1> DEFINE n == Len(s)
           u == SubSeq(t, 1, n)
<1>3. SubSeq(s, 1, Len(s)) = s BY SubSeqFull
<1>4. /\ u \in Seq(Bit) /\ Len(u) = IF 1 <= n THEN n - 1 + 1 ELSE 0
      /\ \A i \in 1 .. n - 1 + 1 : u[i] = t[1 + i - 1]
  <2>1. \A i \in 1 .. n : t[i] \in Bit BY <1>1, <1>2, ElementOfSeq
  <2>2. n \in Int /\ 1 \in Int BY <1>1
  <2> HIDE DEF n
  <2> QED BY <2>1, <2>2, SubSeqProperties
<1>5. Len(u) = n /\ \A i \in 1 .. n : u[i] = t[i]
  <2>1. n \in Nat BY <1>1
  <2> HIDE DEF n, u
  <2>2. \A i \in 1 .. n : i \in 1 .. n - 1 + 1 /\ 1 + i - 1 = i BY <2>1
  <2>3. Len(u) = n BY <1>4, <2>1
  <2> QED BY <1>4, <2>2, <2>3
<1>6. s = u <=> \A i \in 1 .. n : s[i] = t[i]
  <2>1. Len(s) = n OBVIOUS
  <2> HIDE DEF n, u
  <2>2. ASSUME \A i \in 1 .. n : s[i] = t[i] PROVE s = u
    BY <1>4, <1>5, <2>1, <2>2, SeqEqual
  <2> QED BY <1>5, <2>2
<1> QED BY <1>3, <1>6

(* A code with one more bit in front.                                         *)
LEMMA Deeper ==
    ASSUME NEW bit \in Bit, NEW c \in Seq(Bit)
    PROVE  /\ <<bit>> \o c \in Seq(Bit) /\ Len(<<bit>> \o c) = Len(c) + 1
           /\ (<<bit>> \o c)[1] = bit
           /\ \A i \in 1 .. Len(c) : (<<bit>> \o c)[i + 1] = c[i]
<1> DEFINE u == <<bit>>
           n == Len(c)
           e == u \o c
<1>1. u \in Seq(Bit) /\ Len(u) = 1 /\ u[1] = bit OBVIOUS
<1>2. n \in Nat BY LenProperties
<1>3. /\ e \in Seq(Bit) /\ Len(e) = Len(u) + n
      /\ \A i \in 1 .. Len(u) + n : e[i] = IF i <= Len(u) THEN u[i] ELSE c[i - Len(u)]
  BY <1>1, ConcatProperties
<1> HIDE DEF u, n, e
<1>4. \A i \in 1 .. n : i + 1 \in 1 .. 1 + n /\ ~(i + 1 <= 1) /\ (i + 1) - 1 = i BY <1>2
<1>5. 1 \in 1 .. 1 + n /\ 1 <= 1 /\ 1 + n = n + 1 BY <1>2
<1>6. e \in Seq(Bit) /\ Len(e) = n + 1 /\ e[1] = bit /\ \A i \in 1 .. n : e[i + 1] = c[i]
  BY <1>1, <1>3, <1>4, <1>5
<1> QED BY <1>6 DEF e, u, n

LEMMA PrefixDeeper ==
    ASSUME NEW a \in Bit, NEW b \in Bit, NEW c \in Seq(Bit), NEW d \in Seq(Bit)
    PROVE  IsPrefix(<<a>> \o c, <<b>> \o d) <=> a = b /\ IsPrefix(c, d)
<1> DEFINE e == <<a>> \o c
           f == <<b>> \o d
           m == Len(c)
           n == Len(d)
<1>1. m \in Nat /\ n \in Nat BY LenProperties
<1>2. e \in Seq(Bit) /\ Len(e) = m + 1 /\ e[1] = a /\ \A i \in 1 .. m : e[i + 1] = c[i]
  BY Deeper
<1>3. f \in Seq(Bit) /\ Len(f) = n + 1 /\ f[1] = b /\ \A i \in 1 .. n : f[i + 1] = d[i]
  BY Deeper
<1>4. IsPrefix(c, d) <=> m <= n /\ \A i \in 1 .. m : c[i] = d[i] BY PrefixIs
<1> HIDE DEF e, f, m, n
<1>5. IsPrefix(e, f) <=> m + 1 <= n + 1 /\ \A i \in 1 .. m + 1 : e[i] = f[i]
  <2>1. IsPrefix(e, f) <=> Len(e) <= Len(f) /\ \A i \in 1 .. Len(e) : e[i] = f[i]
    BY <1>2, <1>3, PrefixIs
  <2> QED BY <1>2, <1>3, <2>1
<1>6. m + 1 <= n + 1 <=> m <= n BY <1>1
<1>7. SUFFICES ASSUME m <= n
               PROVE  (\A i \in 1 .. m + 1 : e[i] = f[i])
                      <=> a = b /\ \A i \in 1 .. m : c[i] = d[i]
  BY <1>4, <1>5, <1>6 DEF e, f
<1>8. ASSUME \A i \in 1 .. m + 1 : e[i] = f[i]
      PROVE  a = b /\ \A i \in 1 .. m : c[i] = d[i]
  <2>1. 1 \in 1 .. m + 1 /\ \A i \in 1 .. m : i + 1 \in 1 .. m + 1 /\ i \in 1 .. n
    BY <1>1, <1>7
  <2> QED BY <1>2, <1>3, <1>8, <2>1
<1>9. ASSUME a = b, \A i \in 1 .. m : c[i] = d[i]
      PROVE  \A i \in 1 .. m + 1 : e[i] = f[i]
  <2> SUFFICES ASSUME NEW i \in 1 .. m + 1 PROVE e[i] = f[i] OBVIOUS
  <2>1. i = 1 \/ (i - 1 \in 1 .. m /\ i - 1 \in 1 .. n /\ (i - 1) + 1 = i) BY <1>1, <1>7
  <2> QED BY <1>2, <1>3, <1>9, <2>1
<1> QED BY <1>8, <1>9

(* What a set of leaves is for one tree.                                      *)
PrefixFree(leaves) ==
    \A x, y \in leaves : x # y => x.byte # y.byte /\ ~IsPrefix(x.code, y.code)

(* The leaves of a subtree, seen from the node above it.                      *)
LEMMA SideLeaves ==
    ASSUME NEW bit \in Bit, NEW L \in SUBSET Leaf
    PROVE  /\ Side(bit, L) \in SUBSET Leaf
           /\ \A x \in Side(bit, L) :
                 \E l \in L : x = [byte |-> l.byte, code |-> <<bit>> \o l.code]
           /\ \A l \in L : [byte |-> l.byte, code |-> <<bit>> \o l.code] \in Side(bit, L)
           /\ {x.byte : x \in Side(bit, L)} = {l.byte : l \in L}
<1>1. ASSUME NEW l \in L
      PROVE  /\ [l EXCEPT !.code = <<bit>> \o @]
                = [byte |-> l.byte, code |-> <<bit>> \o l.code]
             /\ [l EXCEPT !.code = <<bit>> \o @] \in Leaf
  <2>1. l.byte \in Byte /\ l.code \in Seq(Bit) BY DEF Leaf
  <2>2. <<bit>> \o l.code \in Seq(Bit) BY <2>1, Deeper
  <2>3. l = [byte |-> l.byte, code |-> l.code] BY DEF Leaf
  <2> DEFINE c == <<bit>> \o l.code
  <2>4. [l EXCEPT !.code = c] = [byte |-> l.byte, code |-> c]
    <3> HIDE DEF c
    <3> QED BY <2>3
  <2> QED BY <2>1, <2>2, <2>4 DEF Leaf
<1> DEFINE up(l) == [l EXCEPT !.code = <<bit>> \o @]
<1>2. Side(bit, L) = {up(l) : l \in L} BY DEF Side
<1>3. \A l \in L : up(l) = [byte |-> l.byte, code |-> <<bit>> \o l.code] /\ up(l) \in Leaf
  BY <1>1
<1> HIDE DEF up
<1>4. \A l \in L : up(l).byte = l.byte BY <1>3
<1>5. {x.byte : x \in Side(bit, L)} = {l.byte : l \in L} BY <1>2, <1>4
<1> QED BY <1>2, <1>3, <1>5

(* A join of two prefix codes for different bytes is one.                     *)
LEMMA JoinedFree ==
    ASSUME NEW L \in SUBSET Leaf, NEW M \in SUBSET Leaf, PrefixFree(L), PrefixFree(M),
           \A l \in L, m \in M : l.byte # m.byte
    PROVE  PrefixFree(Side(0, L) \cup Side(1, M))
<1> DEFINE up(bit, l) == [byte |-> l.byte, code |-> <<bit>> \o l.code]
<1>0. 0 \in Bit /\ 1 \in Bit BY DEF Bit
<1> SUFFICES ASSUME NEW x \in Side(0, L) \cup Side(1, M),
                    NEW y \in Side(0, L) \cup Side(1, M), x # y
             PROVE  x.byte # y.byte /\ ~IsPrefix(x.code, y.code)
  BY DEF PrefixFree
<1>1. PICK a \in Bit, l \in Leaf : x = up(a, l) /\ l \in (IF a = 0 THEN L ELSE M)
  <2>1. CASE x \in Side(0, L) BY <1>0, <2>1, SideLeaves
  <2>2. CASE x \in Side(1, M) BY <1>0, <2>2, SideLeaves
  <2> QED BY <2>1, <2>2
<1>2. PICK b \in Bit, m \in Leaf : y = up(b, m) /\ m \in (IF b = 0 THEN L ELSE M)
  <2>1. CASE y \in Side(0, L) BY <1>0, <2>1, SideLeaves
  <2>2. CASE y \in Side(1, M) BY <1>0, <2>2, SideLeaves
  <2> QED BY <2>1, <2>2
<1>3. l.code \in Seq(Bit) /\ m.code \in Seq(Bit) BY DEF Leaf
<1>4. x.byte = l.byte /\ y.byte = m.byte BY <1>1, <1>2
<1>5. IsPrefix(x.code, y.code) <=> a = b /\ IsPrefix(l.code, m.code)
  <2>1. x.code = <<a>> \o l.code /\ y.code = <<b>> \o m.code BY <1>1, <1>2
  <2> QED BY <1>3, <2>1, PrefixDeeper
<1>6. CASE a = b
  <2>1. l # m BY <1>1, <1>2, <1>6
  <2>2. (l \in L /\ m \in L) \/ (l \in M /\ m \in M) BY <1>1, <1>2, <1>6
  <2> QED BY <1>4, <1>5, <2>1, <2>2 DEF PrefixFree
<1>7. CASE a # b
  <2>1. (l \in L /\ m \in M) \/ (l \in M /\ m \in L) BY <1>1, <1>2, <1>7 DEF Bit
  <2> QED BY <1>4, <1>5, <1>7, <2>1
<1> QED BY <1>6, <1>7
(******************************** frequencies ********************************)

(* Where the bytes of B are in s.                                             *)
Places(s, B) == {i \in 1 .. Len(s) : s[i] \in B}

LEMMA PlacesCounted ==
    ASSUME NEW s \in Seq(Byte), NEW B
    PROVE  /\ IsFiniteSet(Places(s, B)) /\ Cardinality(Places(s, B)) \in Nat
           /\ Cardinality(Places(s, B)) <= Len(s)
           /\ Cardinality(Places(s, B)) > 0 <=> Places(s, B) # {}
<1> DEFINE P == Places(s, B)
           n == Len(s)
<1>1. n \in Nat BY LenProperties
<1>2. P \in SUBSET (1 .. n) BY DEF Places
<1> HIDE DEF P, n
<1>3. IsFiniteSet(1 .. n) /\ Cardinality(1 .. n) = IF 1 > n THEN 0 ELSE n - 1 + 1
  BY <1>1, FS_Interval
<1>4. IsFiniteSet(P) /\ Cardinality(P) <= Cardinality(1 .. n) BY <1>2, <1>3, FS_Subset
<1>5. Cardinality(P) \in Nat BY <1>4, FS_CardinalityType
<1>6. Cardinality(P) = 0 <=> P = {} BY <1>4, FS_EmptySet
<1>7. Cardinality(1 .. n) = n BY <1>1, <1>3
<1> QED BY <1>1, <1>4, <1>5, <1>6, <1>7 DEF P, n

(* Different bytes are in different places.                                   *)
LEMMA PlacesAdd ==
    ASSUME NEW s \in Seq(Byte), NEW B, NEW C, B \cap C = {}
    PROVE  Cardinality(Places(s, B \cup C))
              = Cardinality(Places(s, B)) + Cardinality(Places(s, C))
<1> DEFINE P == Places(s, B)
           Q == Places(s, C)
<1>1. P \cap Q = {} /\ Places(s, B \cup C) = P \cup Q BY DEF Places
<1>2. /\ IsFiniteSet(P) /\ Cardinality(P) \in Nat
      /\ IsFiniteSet(Q) /\ Cardinality(Q) \in Nat
  BY PlacesCounted
<1> HIDE DEF P, Q
<1>3. Cardinality(P \cup Q) = Cardinality(P) + Cardinality(Q) - Cardinality(P \cap Q)
  BY <1>2, FS_Union
<1>4. Cardinality(P \cap Q) = 0 BY <1>1, FS_EmptySet
<1>5. Cardinality(P \cup Q) = Cardinality(P) + Cardinality(Q) BY <1>2, <1>3, <1>4
<1> QED BY <1>1, <1>5 DEF P, Q

LEMMA FrequencyIs ==
    ASSUME NEW s \in Seq(Byte), NEW b
    PROVE  Frequency(s, b) = Cardinality(Places(s, {b}))
<1>1. {i \in 1 .. Len(s) : s[i] = b} = Places(s, {b}) BY DEF Places
<1> QED BY <1>1 DEF Frequency

LEMMA SymbolIs ==
    ASSUME NEW s \in Seq(Byte)
    PROVE  \A b : b \in Symbols(s) <=> b \in Byte /\ \E i \in 1 .. Len(s) : s[i] = b
<1> SUFFICES ASSUME NEW b
             PROVE  b \in Symbols(s) <=> b \in Byte /\ \E i \in 1 .. Len(s) : s[i] = b
  OBVIOUS
<1>1. Frequency(s, b) > 0 <=> Places(s, {b}) # {} BY FrequencyIs, PlacesCounted
<1>2. Places(s, {b}) # {} <=> \E i \in 1 .. Len(s) : s[i] = b BY DEF Places
<1> QED BY <1>1, <1>2 DEF Symbols

LEMMA SymbolsCounted ==
    ASSUME NEW s \in Seq(Byte)
    PROVE  /\ IsFiniteSet(Symbols(s))
           /\ \A i \in 1 .. Len(s) : s[i] \in Symbols(s)
           /\ Cardinality(Symbols(s)) = 1 <=> \E b : Symbols(s) = {b}
<1> DEFINE n == Len(s)
           f == [i \in 1 .. n |-> s[i]]
<1>1. n \in Nat BY LenProperties
<1>2. \A i \in 1 .. n : s[i] \in Symbols(s)
  <2>1. \A i \in 1 .. n : s[i] \in Byte BY ElementOfSeq
  <2> QED BY <2>1, SymbolIs
<1>3. IsFiniteSet(Symbols(s))
  <2>1. f \in [1 .. n -> Symbols(s)] BY <1>2
  <2>2. \A b \in Symbols(s) : \E i \in 1 .. n : f[i] = b BY SymbolIs
  <2>3. f \in Surjection(1 .. n, Symbols(s)) BY <2>1, <2>2 DEF Surjection
  <2> HIDE DEF f, n
  <2>4. IsFiniteSet(1 .. n) BY <1>1, FS_Interval
  <2> QED BY <2>3, <2>4, FS_Surjection
<1> QED BY <1>2, <1>3, FS_Singleton

(********************************** the tree *********************************)

BytesOf(node) == {leaf.byte : leaf \in node.leaves}

(* A node stands for some symbols of s, each with its code, and counts them.  *)
NodeOk(s, a) ==
    /\ a \in Node
    /\ BytesOf(a) # {} /\ BytesOf(a) \subseteq Symbols(s)
    /\ PrefixFree(a.leaves)
    /\ \A leaf : a.leaves = {leaf} => leaf.code = <<>>
    /\ a.frequency = Cardinality(Places(s, BytesOf(a)))

(* The nodes share the symbols of s between them.                             *)
Forest(s, N) ==
    /\ \A a \in N : NodeOk(s, a)
    /\ \A a, b \in N : a # b => BytesOf(a) \cap BytesOf(b) = {}
    /\ \A b \in Symbols(s) : \E a \in N : b \in BytesOf(a)

(* A deep leaf is under frequent nodes, and the other nodes are not rarer     *)
(* than what was joined above it.                                             *)
Deep(N) ==
    \A a \in N : \A leaf \in a.leaves : \A h \in 0 .. MaxLength + 1 :
       h <= Len(leaf.code) =>
          a.frequency >= Fib[h + 2] /\ \A b \in N \ {a} : b.frequency >= Fib[h + 1]

LEMMA FirstNodes ==
    ASSUME NEW s \in Seq(Byte)
    PROVE  LET N == {LeafNode(s, b) : b \in Symbols(s)} IN Forest(s, N) /\ Deep(N)
<1> DEFINE N == {LeafNode(s, b) : b \in Symbols(s)}
<1>1. ASSUME NEW b \in Symbols(s)
      PROVE  /\ NodeOk(s, LeafNode(s, b)) /\ BytesOf(LeafNode(s, b)) = {b}
             /\ \A leaf \in LeafNode(s, b).leaves : leaf.code = <<>>
  <2> DEFINE leaf == [byte |-> b, code |-> <<>>]
             a == LeafNode(s, b)
  <2>1. b \in Byte /\ Frequency(s, b) > 0 BY DEF Symbols
  <2>2. a.leaves = {leaf} /\ a.frequency = Frequency(s, b) BY DEF LeafNode
  <2>3. BytesOf(a) = {b} BY <2>2 DEF BytesOf
  <2>4. Frequency(s, b) = Cardinality(Places(s, {b})) /\ Frequency(s, b) \in Nat
    BY FrequencyIs, PlacesCounted
  <2>5. leaf \in Leaf BY <2>1 DEF Leaf
  <2>6. a \in Node BY <2>1, <2>4, <2>5 DEF Node, LeafNode
  <2>7. PrefixFree(a.leaves) BY <2>2 DEF PrefixFree
  <2> HIDE DEF a
  <2>8. \A l : a.leaves = {l} => l.code = <<>> BY <2>2
  <2>9. NodeOk(s, a) BY <2>2, <2>3, <2>4, <2>6, <2>7, <2>8 DEF NodeOk
  <2> QED BY <2>2, <2>3, <2>9 DEF a
<1>2. Forest(s, N) BY <1>1 DEF Forest
<1>3. Deep(N)
  <2> SUFFICES ASSUME NEW a \in N, NEW leaf \in a.leaves, NEW h \in 0 .. MaxLength + 1,
                      h <= Len(leaf.code)
               PROVE  /\ a.frequency >= Fib[h + 2]
                      /\ \A b \in N \ {a} : b.frequency >= Fib[h + 1]
    BY DEF Deep
  <2>1. leaf.code = <<>> BY <1>1
  <2>2. h = 0 BY <2>1, Parameters
  <2>3. \A b \in N : b.frequency \in Nat \ {0}
    <3> HIDE DEF N
    <3> QED BY <1>2 DEF Forest, NodeOk, Node
  <2> HIDE DEF N
  <2>4. \A b \in N : b.frequency >= 1 BY <2>3
  <2>5. Fib[h + 2] = 1 /\ Fib[h + 1] = 1 BY <2>2, FibIs
  <2> QED BY <2>4, <2>5
<1> QED BY <1>2, <1>3
(* One turn of the loop keeps both.                                           *)
LEMMA JoinedNode ==
    ASSUME NEW s \in Seq(Byte), NEW a, NEW b, NodeOk(s, a), NodeOk(s, b),
           BytesOf(a) \cap BytesOf(b) = {}
    PROVE  /\ NodeOk(s, Joined(a, b))
           /\ BytesOf(Joined(a, b)) = BytesOf(a) \cup BytesOf(b)
           /\ Joined(a, b).frequency = a.frequency + b.frequency
           /\ \A x \in Joined(a, b).leaves :
                 \E leaf \in a.leaves \cup b.leaves : Len(x.code) = Len(leaf.code) + 1
<1> DEFINE L == a.leaves
           M == b.leaves
           J == Joined(a, b)
<1>1. /\ L \in SUBSET Leaf /\ M \in SUBSET Leaf
      /\ a.frequency \in Nat \ {0} /\ b.frequency \in Nat \ {0}
  BY DEF NodeOk, Node
<1>2. J.leaves = Side(0, L) \cup Side(1, M) /\ J.frequency = a.frequency + b.frequency
  BY DEF Joined
<1>3. /\ Side(0, L) \in SUBSET Leaf /\ Side(1, M) \in SUBSET Leaf
      /\ {x.byte : x \in Side(0, L)} = {l.byte : l \in L}
      /\ {x.byte : x \in Side(1, M)} = {l.byte : l \in M}
  BY <1>1, SideLeaves DEF Bit
<1>4. BytesOf(a) = {l.byte : l \in L} /\ BytesOf(b) = {l.byte : l \in M} BY DEF BytesOf
<1>5. BytesOf(J) = BytesOf(a) \cup BytesOf(b)
  <2>1. BytesOf(J) = {x.byte : x \in Side(0, L) \cup Side(1, M)} BY <1>2 DEF BytesOf
  <2>2. @ = {x.byte : x \in Side(0, L)} \cup {x.byte : x \in Side(1, M)} OBVIOUS
  <2> QED BY <1>3, <1>4, <2>1, <2>2
<1>6. J \in Node BY <1>1, <1>3 DEF Node, Joined
<1>7. PrefixFree(J.leaves)
  <2>1. PrefixFree(L) /\ PrefixFree(M) BY DEF NodeOk
  <2>2. \A l \in L, m \in M : l.byte # m.byte BY <1>4
  <2> QED BY <1>1, <1>2, <2>1, <2>2, JoinedFree
<1>8. \A leaf : J.leaves # {leaf}
  <2> SUFFICES ASSUME NEW leaf, J.leaves = {leaf} PROVE FALSE OBVIOUS
  <2>1. Side(0, L) \subseteq {leaf} /\ Side(1, M) \subseteq {leaf} BY <1>2
  <2>2. {x.byte : x \in Side(0, L)} \subseteq {leaf.byte} BY <2>1
  <2>3. {x.byte : x \in Side(1, M)} \subseteq {leaf.byte} BY <2>1
  <2>4. BytesOf(a) # {} /\ BytesOf(b) # {} BY DEF NodeOk
  <2> QED BY <1>3, <1>4, <2>2, <2>3, <2>4
<1>9. J.frequency = Cardinality(Places(s, BytesOf(J)))
  BY <1>2, <1>5, PlacesAdd DEF NodeOk
<1>10. BytesOf(J) # {} /\ BytesOf(J) \subseteq Symbols(s) BY <1>5 DEF NodeOk
<1>11. ASSUME NEW x \in J.leaves
       PROVE  \E leaf \in L \cup M : Len(x.code) = Len(leaf.code) + 1
  <2>1. PICK bit \in Bit, l \in L \cup M : x = [byte |-> l.byte, code |-> <<bit>> \o l.code]
    <3>0. 0 \in Bit /\ 1 \in Bit BY DEF Bit
    <3>1. CASE x \in Side(0, L)
      <4>1. \E l \in L : x = [byte |-> l.byte, code |-> <<0>> \o l.code]
        BY <1>1, <3>0, <3>1, SideLeaves
      <4> QED BY <3>0, <4>1
    <3>2. CASE x \in Side(1, M)
      <4>1. \E l \in M : x = [byte |-> l.byte, code |-> <<1>> \o l.code]
        BY <1>1, <3>0, <3>2, SideLeaves
      <4> QED BY <3>0, <4>1
    <3> QED BY <1>2, <3>1, <3>2
  <2>2. l.code \in Seq(Bit) BY <1>1 DEF Leaf
  <2>3. x.code = <<bit>> \o l.code BY <2>1
  <2> QED BY <2>2, <2>3, Deeper
<1> HIDE DEF J, L, M
<1>12. NodeOk(s, J) BY <1>6, <1>7, <1>8, <1>9, <1>10 DEF NodeOk
<1> QED BY <1>2, <1>5, <1>11, <1>12 DEF J, L, M

LEMMA JoinKeeps ==
    ASSUME NEW s \in Seq(Byte), NEW N, Forest(s, N), Deep(N),
           NEW a \in N, NEW b \in N, a # b, a.frequency <= b.frequency,
           \A c \in N \ {a, b} : b.frequency <= c.frequency
    PROVE  /\ Forest(s, (N \ {a, b}) \cup {Joined(a, b)})
           /\ Deep((N \ {a, b}) \cup {Joined(a, b)})
<1> DEFINE J == Joined(a, b)
           N2 == (N \ {a, b}) \cup {J}
<1>1. \A c \in N : NodeOk(s, c) /\ c.frequency \in Nat \ {0} BY DEF Forest, NodeOk, Node
<1>2. /\ NodeOk(s, J) /\ BytesOf(J) = BytesOf(a) \cup BytesOf(b)
      /\ J.frequency = a.frequency + b.frequency
      /\ \A x \in J.leaves :
            \E leaf \in a.leaves \cup b.leaves : Len(x.code) = Len(leaf.code) + 1
  <2>1. BytesOf(a) \cap BytesOf(b) = {} BY DEF Forest
  <2> QED BY <1>1, <2>1, JoinedNode
<1> HIDE DEF J
<1>3. Forest(s, N2)
  <2>1. \A c \in N2 : NodeOk(s, c) BY <1>1, <1>2
  <2>2. \A c \in N \ {a, b} : BytesOf(c) \cap BytesOf(J) = {} BY <1>2 DEF Forest
  <2>3. ASSUME NEW c \in N2, NEW d \in N2, c # d PROVE BytesOf(c) \cap BytesOf(d) = {}
    BY <2>2, <2>3 DEF Forest
  <2>4. ASSUME NEW x \in Symbols(s) PROVE \E c \in N2 : x \in BytesOf(c)
    <3>1. PICK c \in N : x \in BytesOf(c) BY DEF Forest
    <3>2. CASE c \in {a, b} BY <1>2, <3>1, <3>2
    <3>3. CASE c \notin {a, b} BY <3>1, <3>3
    <3> QED BY <3>2, <3>3
  <2> HIDE DEF N2
  <2> QED BY <2>1, <2>3, <2>4 DEF Forest
<1>4. Deep(N2)
  <2> SUFFICES ASSUME NEW c \in N2, NEW x \in c.leaves, NEW h \in 0 .. MaxLength + 1,
                      h <= Len(x.code)
               PROVE  /\ c.frequency >= Fib[h + 2]
                      /\ \A d \in N2 \ {c} : d.frequency >= Fib[h + 1]
    BY DEF Deep
  <2>1. MaxLength \in Nat /\ h \in Nat /\ h + 1 \in 0 .. LastFib /\ h + 2 \in 0 .. LastFib
    BY Parameters DEF LastFib
  <2>2. Fib[h + 1] \in Nat /\ Fib[h + 2] \in Nat BY <2>1, FibIs
  <2>3. CASE c # J
    <3>1. c \in N \ {a, b} BY <2>3
    <3>2. c.frequency >= Fib[h + 2] /\ \A d \in N \ {c} : d.frequency >= Fib[h + 1]
      BY <3>1 DEF Deep
    <3>3. a.frequency >= Fib[h + 1] BY <3>1, <3>2
    <3>4. J.frequency >= Fib[h + 1] BY <1>1, <1>2, <2>2, <3>3
    <3> QED BY <3>2, <3>4
  <2>4. CASE c = J
    <3>1. PICK leaf \in a.leaves \cup b.leaves : Len(x.code) = Len(leaf.code) + 1
      BY <1>2, <2>4
    <3>2. PICK e \in {a, b}, f \in {a, b} : e # f /\ leaf \in e.leaves
      BY <3>1
    <3>3. e \in N /\ f \in N /\ {e, f} = {a, b} BY <3>2
    <3>4. /\ J.frequency = e.frequency + f.frequency
          /\ e.frequency \in Nat \ {0} /\ f.frequency \in Nat \ {0}
      BY <1>1, <1>2, <3>2, <3>3
    <3>5. \A d \in N2 \ {c} : d.frequency \in Nat /\ d.frequency >= e.frequency
      <4>1. \A d \in N2 \ {c} : d \in N \ {a, b} BY <2>4
      <4>2. \A d \in N \ {a, b} : d.frequency \in Nat /\ d.frequency >= b.frequency BY <1>1
      <4>3. b.frequency >= e.frequency BY <1>1
      <4> HIDE DEF N2
      <4> QED BY <1>1, <3>3, <4>1, <4>2, <4>3
    <3>6. CASE h = 0
      <4>1. Fib[h + 1] = 1 /\ Fib[h + 2] = 1 BY <3>6, FibIs
      <4>2. e.frequency >= 1 /\ J.frequency >= 1 BY <3>4
      <4> HIDE DEF N2
      <4> QED BY <2>4, <3>4, <3>5, <4>1, <4>2
    <3>7. CASE h # 0
      <4>1. leaf.code \in Seq(Bit)
        <5>1. e.leaves \in SUBSET Leaf BY <1>1, <3>3 DEF NodeOk, Node
        <5> QED BY <3>2, <5>1 DEF Leaf
      <4>2. Len(leaf.code) \in Nat BY <4>1, LenProperties
      <4>3. h - 1 \in 0 .. MaxLength + 1 /\ h - 1 <= Len(leaf.code) /\ h - 1 \in 0 .. MaxLength
        BY <2>1, <3>1, <3>7, <4>2
      <4>4. e.frequency >= Fib[(h - 1) + 2] /\ f.frequency >= Fib[(h - 1) + 1]
        <5>1. f \in N \ {e} BY <3>2, <3>3
        <5> QED BY <3>2, <3>3, <4>3, <5>1 DEF Deep
      <4>5. Fib[(h - 1) + 3] = Fib[(h - 1) + 2] + Fib[(h - 1) + 1] BY <4>3, FibIs
      <4>6. (h - 1) + 3 = h + 2 /\ (h - 1) + 2 = h + 1 /\ h - 1 + 1 = h /\ h \in 0 .. LastFib
        BY <2>1 DEF LastFib
      <4>7. Fib[(h - 1) + 1] \in Nat BY <4>6, FibIs
      <4>8. e.frequency >= Fib[h + 1] /\ J.frequency >= Fib[h + 2]
        BY <2>2, <3>4, <4>4, <4>5, <4>6, <4>7
      <4> HIDE DEF N2
      <4> QED BY <2>2, <2>4, <3>4, <3>5, <4>8
    <3> QED BY <3>6, <3>7
  <2> QED BY <2>3, <2>4
<1> QED BY <1>3, <1>4 DEF J

(* The tree is finished when one node is left.                                *)
LEMMA NodesCounted ==
    ASSUME NEW s \in Seq(Byte), NEW N, Forest(s, N), Cardinality(N) = 1
    PROVE  \E root : N = {root}
<1> DEFINE n == Len(s)
           f == [i \in 1 .. n |-> CHOOSE a \in N : s[i] \in BytesOf(a)]
<1>1. n \in Nat BY LenProperties
<1>2. \A i \in 1 .. n : f[i] \in N /\ s[i] \in BytesOf(f[i])
  <2>1. \A i \in 1 .. n : \E a \in N : s[i] \in BytesOf(a) BY SymbolsCounted DEF Forest
  <2> QED BY <2>1
<1>3. f \in [1 .. n -> N]
  <2>1. f = [i \in 1 .. n |-> f[i]] OBVIOUS
  <2> HIDE DEF f
  <2> QED BY <1>2, <2>1
<1> HIDE DEF f
<1>4. \A a \in N : \E i \in 1 .. n : f[i] = a
  <2> SUFFICES ASSUME NEW a \in N PROVE \E i \in 1 .. n : f[i] = a OBVIOUS
  <2>1. PICK b \in Symbols(s) : b \in BytesOf(a) BY DEF Forest, NodeOk
  <2>2. PICK i \in 1 .. n : s[i] = b BY SymbolIs
  <2> QED BY <1>2, <2>1, <2>2 DEF Forest
<1>5. f \in Surjection(1 .. n, N) BY <1>3, <1>4 DEF Surjection
<1>6. IsFiniteSet(1 .. n)
  <2> HIDE DEF n
  <2> QED BY <1>1, FS_Interval
<1>7. IsFiniteSet(N) BY <1>5, <1>6, FS_Surjection
<1> QED BY <1>7, FS_Singleton
(* The tree has a code for every symbol, and none of them for two.            *)
LEMMA RootIs ==
    ASSUME NEW s \in Seq(Byte), NEW root, Forest(s, {root})
    PROVE  /\ root.leaves \in SUBSET Leaf /\ PrefixFree(root.leaves)
           /\ {leaf.byte : leaf \in root.leaves} = Symbols(s)
           /\ root.frequency <= Len(s)
<1>1. NodeOk(s, root) BY DEF Forest
<1>2. root.leaves \in SUBSET Leaf /\ PrefixFree(root.leaves) BY <1>1 DEF NodeOk, Node
<1>3. BytesOf(root) = Symbols(s) BY <1>1 DEF Forest, NodeOk
<1>4. root.frequency <= Len(s) BY <1>1, PlacesCounted DEF NodeOk
<1> QED BY <1>2, <1>3, <1>4 DEF BytesOf

(* An input of one symbol is one whose code has no bits.                      *)
LEMMA EmptyCodes ==
    ASSUME NEW s \in Seq(Byte), NEW root, Forest(s, {root})
    PROVE  /\ Cardinality(Symbols(s)) = 1 => \A leaf \in root.leaves : leaf.code = <<>>
           /\ Cardinality(Symbols(s)) # 1 => \A leaf \in root.leaves : leaf.code # <<>>
<1>1. /\ root.leaves \in SUBSET Leaf /\ PrefixFree(root.leaves)
      /\ {leaf.byte : leaf \in root.leaves} = Symbols(s)
  BY RootIs
<1>2. \A leaf : root.leaves = {leaf} => leaf.code = <<>> BY DEF Forest, NodeOk
<1>3. ASSUME Cardinality(Symbols(s)) = 1, NEW leaf \in root.leaves PROVE leaf.code = <<>>
  <2>1. PICK b : Symbols(s) = {b} BY <1>3, SymbolsCounted
  <2>2. \A x \in root.leaves : x.byte = b BY <1>1, <2>1
  <2>3. root.leaves = {leaf} BY <1>1, <2>2 DEF PrefixFree
  <2> QED BY <1>2, <2>3
<1>4. ASSUME NEW leaf \in root.leaves, leaf.code = <<>> PROVE Cardinality(Symbols(s)) = 1
  <2>1. \A x \in root.leaves : IsPrefix(leaf.code, x.code)
    <3> SUFFICES ASSUME NEW x \in root.leaves PROVE IsPrefix(leaf.code, x.code) OBVIOUS
    <3>1. leaf.code \in Seq(Bit) /\ x.code \in Seq(Bit) BY <1>1 DEF Leaf
    <3>2. Len(leaf.code) = 0 /\ Len(x.code) \in Nat BY <1>4, <3>1, LenProperties
    <3>3. Len(leaf.code) <= Len(x.code) /\ 1 .. Len(leaf.code) = {} BY <3>2
    <3> QED BY <3>1, <3>3, PrefixIs
  <2>2. root.leaves = {leaf} BY <1>1, <2>1 DEF PrefixFree
  <2>3. Symbols(s) = {leaf.byte} BY <1>1, <2>2
  <2> QED BY <2>3, SymbolsCounted
<1> QED BY <1>3, <1>4

(* No leaf is deeper than MaxLength in a tree of less than so many bytes.     *)
LEMMA DepthBounded ==
    ASSUME NEW s \in Seq(Byte), NEW root, Forest(s, {root}), Deep({root}),
           Len(s) < Fib[MaxLength + 3], NEW leaf \in root.leaves
    PROVE  Len(leaf.code) <= MaxLength
<1> SUFFICES ASSUME ~(Len(leaf.code) <= MaxLength) PROVE FALSE OBVIOUS
<1>1. root.frequency <= Len(s) BY RootIs
<1>2. leaf.code \in Seq(Bit)
  <2>1. root.leaves \in SUBSET Leaf BY RootIs
  <2> QED BY <2>1 DEF Leaf
<1>3. Len(leaf.code) \in Nat /\ Len(s) \in Nat /\ MaxLength \in Nat
  BY <1>2, LenProperties, Parameters
<1>4. MaxLength + 1 \in 0 .. MaxLength + 1 /\ MaxLength + 1 <= Len(leaf.code) BY <1>3
<1>5. root.frequency >= Fib[(MaxLength + 1) + 2] BY <1>4 DEF Deep
<1>6. (MaxLength + 1) + 2 = MaxLength + 3 /\ MaxLength + 3 \in 0 .. LastFib
  BY <1>3 DEF LastFib
<1>7. Fib[MaxLength + 3] \in Nat BY <1>6, FibIs
<1>8. root.frequency \in Nat BY DEF Forest, NodeOk, Node
<1>9. root.frequency >= Fib[MaxLength + 3] BY <1>5, <1>6
<1> QED BY <1>1, <1>3, <1>7, <1>8, <1>9

(******************************* coded bytes *********************************)

LEMMA MinIs ==
    ASSUME NEW T, T \subseteq Nat, T # {}
    PROVE  Min(T) \in T /\ \A y \in T : Min(T) <= y
<1>1. \E x \in T : \A y \in T : x <= y BY Least
<1> QED BY <1>1 DEF Min

LEMMA MinOfTwo ==
    ASSUME NEW a \in Nat, NEW b \in Nat
    PROVE  Min({a, b}) \in Nat /\ \A i \in Nat : i <= Min({a, b}) <=> i <= a /\ i <= b
<1> DEFINE T == {a, b}
<1>1. Min(T) \in T /\ Min(T) <= a /\ Min(T) <= b
  <2>1. T \subseteq Nat /\ T # {} OBVIOUS
  <2>2. a \in T /\ b \in T OBVIOUS
  <2> HIDE DEF T
  <2> QED BY <2>1, <2>2, MinIs
<1>2. Min(T) = a \/ Min(T) = b BY <1>1
<1> HIDE DEF T
<1>3. Min(T) \in Nat BY <1>2
<1>4. \A i \in Nat : i <= Min(T) <=> i <= a /\ i <= b BY <1>1, <1>2
<1> QED BY <1>3, <1>4 DEF T

LEMMA PaddingIs ==
    /\ \A n \in Nat : Padding(n) \in Seq(Bit)
    /\ Padding(0) = <<>>
<1>1. ASSUME NEW x \in Int, NEW K \in Nat \ {0}
      PROVE  x % K \in 0 .. K - 1 /\ x = K * (x \div K) + (x % K) /\ x \div K \in Int
  OBVIOUS
<1>2. ByteBits \in Nat \ {0} BY Parameters
<1>3. ASSUME NEW n \in Nat PROVE Padding(n) \in Seq(Bit)
  <2> DEFINE k == (ByteBits - (n % ByteBits)) % ByteBits
  <2>1. k \in Nat BY <1>1, <1>2
  <2>2. [i \in 1 .. k |-> 0] \in [1 .. k -> Bit] BY DEF Bit
  <2> HIDE DEF k
  <2>3. [i \in 1 .. k |-> 0] \in Seq(Bit) BY <2>1, <2>2
  <2> QED BY <2>3 DEF Padding, k
<1>4. Padding(0) = <<>>
  <2> DEFINE K == ByteBits
  <2>1. 0 % K = 0
    <3>1. 0 % K \in 0 .. K - 1 /\ 0 = K * (0 \div K) + (0 % K) /\ 0 \div K \in Int
      BY <1>1, <1>2
    <3> DEFINE q == 0 \div K
               r == 0 % K
    <3> HIDE DEF K, q, r
    <3>2. q \in Int /\ r \in 0 .. K - 1 /\ 0 = K * q + r /\ K \in Nat \ {0}
      BY <1>2, <3>1 DEF K, q, r
    <3>3. q = 0
      <4>1. q >= 1 => K * q >= K BY <3>2
      <4>2. q <= 0 - 1 => K * q <= 0 - K BY <3>2
      <4>3. K * q \in Int BY <3>2
      <4> QED BY <3>2, <4>1, <4>2, <4>3
    <3>4. r = 0 BY <3>2, <3>3
    <3> QED BY <3>4 DEF r
  <2>2. K % K = 0
    <3>1. K % K \in 0 .. K - 1 /\ K = K * (K \div K) + (K % K) /\ K \div K \in Int
      BY <1>1, <1>2
    <3> DEFINE q == K \div K
               r == K % K
    <3> HIDE DEF K, q, r
    <3>2. q \in Int /\ r \in 0 .. K - 1 /\ K = K * q + r /\ K \in Nat \ {0}
      BY <1>2, <3>1 DEF K, q, r
    <3>3. q = 1
      <4>1. q >= 2 => K * q >= K + K BY <3>2
      <4>2. q <= 0 => K * q <= 0 BY <3>2
      <4>3. K * q \in Int BY <3>2
      <4> QED BY <3>2, <4>1, <4>2, <4>3
    <3>4. r = 0 BY <3>2, <3>3
    <3> QED BY <3>4 DEF r
  <2>3. (K - (0 % K)) % K = 0
    <3>1. K - (0 % K) = K BY <1>2, <2>1
    <3> QED BY <2>2, <3>1
  <2>4. Padding(0) = [i \in 1 .. 0 |-> 0] BY <2>3 DEF Padding
  <2> QED BY <2>4
<1> QED BY <1>3, <1>4

(* The first n bytes of s are coded in d with the codes of t; M[i] is where   *)
(* the code of s[i] starts, less one.                                         *)
Codes(s, t, d, n, M) ==
    /\ M \in [1 .. n + 1 -> Nat] /\ M[1] = 0
    /\ \A i \in 1 .. n : \E leaf \in t :
          /\ leaf.byte = s[i]
          /\ M[i + 1] = M[i] + Len(leaf.code) /\ M[i + 1] <= Len(d)
          /\ \A j \in 1 .. Len(leaf.code) : d[M[i] + j] = leaf.code[j]

(* What follows changes nothing.                                              *)
LEMMA CodesKept ==
    ASSUME NEW s, NEW t \in SUBSET Leaf, NEW d \in Seq(Bit), NEW p \in Seq(Bit),
           NEW n \in Nat, NEW M, Codes(s, t, d, n, M)
    PROVE  Codes(s, t, d \o p, n, M)
<1> DEFINE e == d \o p
<1>1. /\ Len(d) \in Nat /\ Len(p) \in Nat /\ Len(e) = Len(d) + Len(p)
      /\ \A i \in 1 .. Len(d) + Len(p) : e[i] = IF i <= Len(d) THEN d[i] ELSE p[i - Len(d)]
  BY LenProperties, ConcatProperties
<1>2. Len(d) <= Len(e) /\ \A i \in 1 .. Len(d) : e[i] = d[i]
  <2>1. \A i \in 1 .. Len(d) : i \in 1 .. Len(d) + Len(p) /\ i <= Len(d) BY <1>1
  <2> QED BY <1>1, <2>1
<1> HIDE DEF e
<1>3. ASSUME NEW i \in 1 .. n
      PROVE  \E leaf \in t :
                /\ leaf.byte = s[i]
                /\ M[i + 1] = M[i] + Len(leaf.code) /\ M[i + 1] <= Len(e)
                /\ \A j \in 1 .. Len(leaf.code) : e[M[i] + j] = leaf.code[j]
  <2>1. PICK leaf \in t : /\ leaf.byte = s[i]
                          /\ M[i + 1] = M[i] + Len(leaf.code) /\ M[i + 1] <= Len(d)
                          /\ \A j \in 1 .. Len(leaf.code) : d[M[i] + j] = leaf.code[j]
    BY DEF Codes
  <2>2. M[i] \in Nat /\ M[i + 1] \in Nat
    <3>1. i \in 1 .. n + 1 /\ i + 1 \in 1 .. n + 1 OBVIOUS
    <3> QED BY <3>1 DEF Codes
  <2>3. leaf.code \in Seq(Bit) BY DEF Leaf
  <2>4. Len(leaf.code) \in Nat BY <2>3, LenProperties
  <2>5. \A j \in 1 .. Len(leaf.code) : M[i] + j \in 1 .. Len(d)
    <3> DEFINE a == M[i]
               b == M[i + 1]
               c == Len(leaf.code)
    <3>1. b = a + c /\ b <= Len(d) /\ Len(d) \in Nat BY <1>1, <2>1
    <3>2. a \in Nat /\ b \in Nat /\ c \in Nat BY <2>2, <2>4
    <3> HIDE DEF a, b, c
    <3>3. \A j \in 1 .. c : a + j \in 1 .. Len(d) BY <3>1, <3>2
    <3> QED BY <3>3 DEF a, c
  <2>6. M[i + 1] <= Len(e) BY <1>1, <1>2, <2>1, <2>2
  <2>7. \A j \in 1 .. Len(leaf.code) : e[M[i] + j] = leaf.code[j] BY <1>2, <2>1, <2>5
  <2> QED BY <2>1, <2>6, <2>7
<1>4. Codes(s, t, e, n, M) BY <1>3 DEF Codes
<1> QED BY <1>4 DEF e

(* The code of the next byte goes behind what is coded.                       *)
LEMMA CodesGrow ==
    ASSUME NEW s, NEW t \in SUBSET Leaf, NEW d \in Seq(Bit), NEW n \in Nat, NEW M,
           Codes(s, t, d, n, M), M[n + 1] = Len(d), NEW leaf \in t, leaf.byte = s[n + 1]
    PROVE  \E M2 : Codes(s, t, d \o leaf.code, n + 1, M2)
                   /\ M2[n + 2] = Len(d \o leaf.code)
<1> DEFINE c == leaf.code
           e == d \o c
           m == n + 1
           M2 == [i \in 1 .. m + 1 |-> IF i = n + 2 THEN Len(e) ELSE M[i]]
<1>1. c \in Seq(Bit) BY DEF Leaf
<1>2. /\ e \in Seq(Bit) /\ Len(e) = Len(d) + Len(c) /\ Len(d) \in Nat /\ Len(c) \in Nat
      /\ \A i \in 1 .. Len(d) + Len(c) : e[i] = IF i <= Len(d) THEN d[i] ELSE c[i - Len(d)]
  BY <1>1, LenProperties, ConcatProperties
<1>3. Codes(s, t, e, n, M) BY <1>1, CodesKept
<1> HIDE DEF c, e
<1>4. M \in [1 .. n + 1 -> Nat] /\ M[1] = 0 BY <1>3 DEF Codes
<1>5. Len(e) \in Nat BY <1>2
<1>6. M2 \in [1 .. m + 1 -> Nat]
  <2>1. \A i \in 1 .. m + 1 : i # n + 2 => i \in 1 .. n + 1 OBVIOUS
  <2> QED BY <1>4, <1>5, <2>1
<1>7. M2[n + 2] = Len(e) OBVIOUS
<1>8. \A i \in 1 .. n + 1 : M2[i] = M[i]
  <2>1. \A i \in 1 .. n + 1 : i \in 1 .. m + 1 /\ i # n + 2 OBVIOUS
  <2> QED BY <2>1
<1> HIDE DEF M2
<1>9. ASSUME NEW i \in 1 .. m
      PROVE  \E l \in t : /\ l.byte = s[i]
                          /\ M2[i + 1] = M2[i] + Len(l.code) /\ M2[i + 1] <= Len(e)
                          /\ \A j \in 1 .. Len(l.code) : e[M2[i] + j] = l.code[j]
  <2>1. CASE i \in 1 .. n
    <3>1. i \in 1 .. n + 1 /\ i + 1 \in 1 .. n + 1 BY <2>1
    <3>2. M2[i] = M[i] /\ M2[i + 1] = M[i + 1] BY <1>8, <3>1
    <3>3. PICK l \in t : /\ l.byte = s[i]
                         /\ M[i + 1] = M[i] + Len(l.code) /\ M[i + 1] <= Len(e)
                         /\ \A j \in 1 .. Len(l.code) : e[M[i] + j] = l.code[j]
      BY <1>3, <2>1 DEF Codes
    <3> QED BY <3>2, <3>3
  <2>2. CASE i \notin 1 .. n
    <3>1. i = n + 1 /\ i + 1 = n + 2 /\ n + 1 \in 1 .. n + 1 BY <2>2
    <3>2. M2[i] = Len(d) /\ M2[i + 1] = Len(e) BY <1>7, <1>8, <3>1
    <3>3. \A j \in 1 .. Len(c) : /\ Len(d) + j \in 1 .. Len(d) + Len(c)
                                 /\ ~(Len(d) + j <= Len(d)) /\ Len(d) + j - Len(d) = j
      BY <1>2
    <3>4. \A j \in 1 .. Len(c) : e[M2[i] + j] = c[j] BY <1>2, <3>2, <3>3
    <3>5. M2[i + 1] = M2[i] + Len(c) /\ M2[i + 1] <= Len(e) BY <1>2, <3>2
    <3>6. leaf.byte = s[i] BY <3>1
    <3> QED BY <3>4, <3>5, <3>6 DEF c
  <2> QED BY <2>1, <2>2
<1>10. M2[1] = 0
  <2>1. 1 \in 1 .. n + 1 OBVIOUS
  <2> QED BY <1>4, <1>8, <2>1
<1> HIDE DEF m
<1>11. Codes(s, t, e, m, M2) BY <1>6, <1>9, <1>10 DEF Codes
<1> QED BY <1>7, <1>11 DEF e, c, m
(* What is left of the file, and its next m bits.                             *)
LEMMA ReadIs ==
    ASSUME NEW S, file.data \in Seq(S), at \in Nat, at <= Len(file.data)
    PROVE  /\ Left \in Nat /\ Left = Len(file.data) - at
           /\ \A m \in 0 .. Left : /\ Read(m) \in Seq(S) /\ Len(Read(m)) = m
                                   /\ \A j \in 1 .. m : Read(m)[j] = file.data[at + j]
<1> DEFINE d == file.data
<1>1. Len(d) \in Nat BY LenProperties
<1>2. Left \in Nat /\ Left = Len(d) - at BY <1>1 DEF Left
<1>3. ASSUME NEW m \in 0 .. Left
      PROVE  /\ Read(m) \in Seq(S) /\ Len(Read(m)) = m
             /\ \A j \in 1 .. m : Read(m)[j] = d[at + j]
  <2> DEFINE a == at + 1
             b == at + m
  <2>1. m \in Nat /\ a \in Int /\ b \in Int /\ a >= 1 /\ b <= Len(d) /\ b - a + 1 = m
    BY <1>1, <1>2
  <2>2. \A i \in a .. b : d[i] \in S
    <3>1. \A i \in a .. b : i \in 1 .. Len(d) BY <1>1, <2>1
    <3> QED BY <3>1, ElementOfSeq
  <2>3. \A j \in 1 .. m : a + j - 1 = at + j BY <2>1
  <2>4. a <= b <=> m # 0 BY <2>1
  <2> HIDE DEF a, b
  <2>5. /\ SubSeq(d, a, b) \in Seq(S) /\ Len(SubSeq(d, a, b)) = IF a <= b THEN b - a + 1 ELSE 0
        /\ \A j \in 1 .. b - a + 1 : SubSeq(d, a, b)[j] = d[a + j - 1]
    BY <2>1, <2>2, SubSeqProperties
  <2>6. Read(m) = SubSeq(d, a, b) BY DEF Read, a, b
  <2>7. Len(SubSeq(d, a, b)) = m BY <2>1, <2>4, <2>5
  <2>8. \A j \in 1 .. m : SubSeq(d, a, b)[j] = d[at + j] BY <2>1, <2>3, <2>5
  <2> QED BY <2>5, <2>6, <2>7, <2>8
<1> QED BY <1>2, <1>3

(* What the decoder reads as the code of a byte is its code: no shorter one   *)
(* of the table is there.                                                     *)
LEMMA DecodesNext ==
    ASSUME NEW s, NEW t \in SUBSET Leaf, PrefixFree(t),
           \A leaf \in t : leaf.code # <<>> /\ Len(leaf.code) <= MaxLength,
           file.data \in Seq(Bit), file.table = Serialized(t),
           NEW n \in Nat, NEW M, Codes(s, t, file.data, n, M),
           NEW k \in 0 .. n - 1, at = M[k + 1]
    PROVE  /\ at < Len(file.data) /\ CodeLengths # {}
           /\ \A entry \in Matching(Min(CodeLengths)) : entry.byte = s[k + 1]
           /\ at + Min(CodeLengths) = M[k + 2]
<1> DEFINE d == file.data
           i == k + 1
<1>1. i \in 1 .. n /\ i \in 1 .. n + 1 /\ i + 1 = k + 2 /\ k + 2 \in 1 .. n + 1 OBVIOUS
<1> HIDE DEF i
<1>2. PICK leaf \in t : /\ leaf.byte = s[i]
                        /\ M[i + 1] = M[i] + Len(leaf.code) /\ M[i + 1] <= Len(d)
                        /\ \A j \in 1 .. Len(leaf.code) : d[M[i] + j] = leaf.code[j]
  BY <1>1 DEF Codes
<1> DEFINE c == leaf.code
           n1 == Len(c)
<1>3. c \in Seq(Bit) /\ n1 \in Nat \ {0} /\ n1 <= MaxLength
  <2>1. c \in Seq(Bit) BY DEF Leaf
  <2> QED BY <2>1, EmptySeq
<1>4. /\ at \in Nat /\ at = M[i] /\ M[k + 2] = at + n1 /\ at + n1 <= Len(d)
      /\ \A j \in 1 .. n1 : d[at + j] = c[j]
  <2>1. M[k + 2] \in Nat /\ M[i] \in Nat BY <1>1 DEF Codes
  <2>2. at = M[i] BY DEF i
  <2> QED BY <1>1, <1>2, <2>1, <2>2
<1> HIDE DEF c
<1>5. Len(d) \in Nat BY LenProperties
<1>6. /\ Left \in Nat /\ Left = Len(d) - at
      /\ \A m \in 0 .. Left : /\ Read(m) \in Seq(Bit) /\ Len(Read(m)) = m
                              /\ \A j \in 1 .. m : Read(m)[j] = d[at + j]
  BY <1>3, <1>4, <1>5, ReadIs
<1> HIDE DEF d
<1>7. n1 \in 0 .. Left /\ Len(c) = n1 BY <1>3, <1>4, <1>5, <1>6
<1> HIDE DEF n1
<1>8. Read(n1) = c
  <2>1. \A j \in 1 .. n1 : Read(n1)[j] = c[j] BY <1>4, <1>6, <1>7
  <2> QED BY <1>3, <1>6, <1>7, <2>1, SeqEqual
<1>9. \A m \in Nat : m <= Min({MaxLength, Left}) <=> m <= MaxLength /\ m <= Left
  BY <1>6, Parameters, MinOfTwo
<1>10. Min({MaxLength, Left}) \in Nat BY <1>6, Parameters, MinOfTwo
<1> DEFINE form(l) == [byte |-> l.byte, code_length |-> Len(l.code),
                       stored |-> Padding(Len(l.code)) \o l.code]
<1>11. file.table = {form(l) : l \in t} BY DEF Serialized
<1>12. form(leaf) \in Matching(n1)
  <2>1. form(leaf) \in file.table BY <1>11
  <2>2. form(leaf).code_length = n1 /\ form(leaf).stored = Padding(n1) \o c BY <1>7 DEF c
  <2> HIDE DEF form
  <2> QED BY <1>8, <2>1, <2>2 DEF Matching
<1>13. n1 \in CodeLengths
  <2>1. n1 <= Min({MaxLength, Left}) /\ n1 \in Nat \ {0}
    <3>1. n1 \in Nat /\ n1 <= MaxLength /\ n1 <= Left BY <1>3, <1>6, <1>7
    <3> QED BY <1>3, <1>9, <3>1
  <2>2. n1 \in 1 .. Min({MaxLength, Left}) BY <1>10, <2>1
  <2> QED BY <1>12, <2>2 DEF CodeLengths
<1> DEFINE m == Min(CodeLengths)
<1>14. m \in CodeLengths /\ m <= n1
  <2>1. CodeLengths \subseteq Nat BY <1>10 DEF CodeLengths
  <2> QED BY <1>13, <2>1, MinIs
<1> HIDE DEF m
<1>15. m \in 0 .. Left /\ m \in 1 .. n1
  <2>1. m \in 1 .. Min({MaxLength, Left}) BY <1>14 DEF CodeLengths
  <2>2. m \in Nat \ {0} BY <1>10, <2>1
  <2> QED BY <1>3, <1>6, <1>7, <1>14, <2>2
<1>16. ASSUME NEW entry \in Matching(m) PROVE entry.byte = leaf.byte /\ m = n1
  <2>1. PICK l \in t : entry = form(l) BY <1>11 DEF Matching
  <2>2. entry.code_length = m /\ entry.stored = Padding(m) \o Read(m) BY DEF Matching
  <2>3. Len(l.code) = m /\ Padding(m) \o l.code = Padding(m) \o Read(m) /\ entry.byte = l.byte
    BY <2>1, <2>2
  <2>4. l.code \in Seq(Bit) BY DEF Leaf
  <2>5. l.code = Read(m)
    <3>1. Padding(m) \in Seq(Bit) /\ Read(m) \in Seq(Bit)
      <4>1. m \in Nat BY <1>15
      <4> QED BY <1>6, <1>15, <4>1, PaddingIs
    <3> QED BY <2>3, <2>4, <3>1, ConcatSimplifications
  <2>6. IsPrefix(l.code, c)
    <3>1. \A j \in 1 .. m : j \in 1 .. n1 BY <1>3, <1>15
    <3>2. \A j \in 1 .. m : l.code[j] = c[j] BY <1>4, <1>6, <1>15, <2>5, <3>1
    <3> QED BY <1>3, <1>7, <1>14, <2>3, <2>4, <3>2, PrefixIs
  <2>7. l = leaf BY <2>6 DEF PrefixFree, c
  <2> QED BY <1>7, <2>3, <2>7 DEF c
<1>17. m = n1
  <2>1. \E entry : entry \in Matching(m) BY <1>14 DEF CodeLengths
  <2> QED BY <1>16, <2>1
<1>18. at < Len(d)
  <2> QED BY <1>3, <1>4, <1>5, <1>7
<1> QED BY <1>1, <1>2, <1>4, <1>13, <1>16, <1>17, <1>18 DEF m, i, d
(********************************** types ************************************)

(* A small file holds as many bytes as its header says.                       *)
InputOk ==
    /\ input \in Seq(Byte)
    /\ file.magic = "SMAL" /\ file.whole => file.original_size <= Len(file.data)

LEMMA SerializedType ==
    ASSUME NEW t \in SUBSET Leaf
    PROVE  Serialized(t) \in SUBSET Entry
<1> SUFFICES ASSUME NEW l \in t
             PROVE  [byte |-> l.byte, code_length |-> Len(l.code),
                     stored |-> Padding(Len(l.code)) \o l.code] \in Entry
  BY DEF Serialized
<1>1. l.byte \in Byte /\ l.code \in Seq(Bit) BY DEF Leaf
<1>2. Len(l.code) \in Nat BY <1>1, LenProperties
<1>3. Padding(Len(l.code)) \in Seq(Bit) BY <1>2, PaddingIs
<1>4. Padding(Len(l.code)) \o l.code \in Seq(Bit) BY <1>1, <1>3, ConcatProperties
<1> QED BY <1>1, <1>2, <1>4 DEF Entry

LEMMA NextType ==
    ASSUME TypeOK, InputOk, Next
    PROVE  TypeOK'
<1>0. /\ Len(input) \in Nat
      /\ file.magic \in {"HUFF", "SMAL", "other", "short"} /\ file.original_size \in Nat
      /\ file.whole \in BOOLEAN /\ file.table \in SUBSET Entry
      /\ file.data \in Seq(Bit \cup Byte)
  BY LenProperties DEF TypeOK, InputOk, File
<1> DEFINE codes == -8 .. 0
<1>1. CASE StartCompress
  <2>1. CASE input = <<>> /\ Finish(-1) /\ UNCHANGED nodes
    BY <1>1, <2>1 DEF StartCompress, TypeOK, Finish
  <2>2. CASE nodes' = {LeafNode(input, b) : b \in Symbols(input)} /\ pc' = "tree"
             /\ UNCHANGED error
    <3>1. \A b \in Symbols(input) : LeafNode(input, b) \in Node
      <4> DEFINE N == {LeafNode(input, b) : b \in Symbols(input)}
      <4>1. Forest(input, N) BY FirstNodes DEF InputOk
      <4>2. \A a \in N : a \in Node
        <5> HIDE DEF N
        <5> QED BY <4>1 DEF Forest, NodeOk
      <4> QED BY <4>2
    <3>2. nodes' \in SUBSET Node BY <2>2, <3>1
    <3> QED BY <1>1, <2>2, <3>2 DEF StartCompress, TypeOK
  <2> QED BY <1>1, <2>1, <2>2 DEF StartCompress
<1>2. CASE StoreSmallFile
  <2>1. [magic |-> "SMAL", original_size |-> Len(input), whole |-> TRUE,
         table |-> {}, data |-> input] \in File
    <3>1. input \in Seq(Bit \cup Byte) BY SeqMonotonic DEF InputOk
    <3> QED BY <1>0, <3>1 DEF File
  <2>2. file' \in File BY <1>2, <2>1 DEF StoreSmallFile, TypeOK
  <2> QED BY <1>2, <2>2 DEF StoreSmallFile, TypeOK, Finish
<1>3. CASE JoinNodes
  <2>1. PICK a, b \in nodes : nodes' = (nodes \ {a, b}) \cup {Joined(a, b)}
    BY <1>3 DEF JoinNodes
  <2>2. /\ a.leaves \in SUBSET Leaf /\ b.leaves \in SUBSET Leaf
        /\ a.frequency \in Nat \ {0} /\ b.frequency \in Nat \ {0}
    BY DEF TypeOK, Node
  <2>3. Side(0, a.leaves) \in SUBSET Leaf /\ Side(1, b.leaves) \in SUBSET Leaf
    BY <2>2, SideLeaves DEF Bit
  <2>4. Joined(a, b) \in Node BY <2>2, <2>3 DEF Joined, Node
  <2>5. nodes' \in SUBSET Node BY <2>1, <2>4 DEF TypeOK
  <2> QED BY <1>3, <2>5 DEF JoinNodes, TypeOK
<1>4. CASE NoNode BY <1>4 DEF NoNode, Finish, TypeOK
<1>5. CASE BuildTable
  <2>1. PICK root \in nodes : table' = {leaf \in root.leaves : Len(leaf.code) <= MaxLength}
    BY <1>5 DEF BuildTable
  <2>2. root.leaves \in SUBSET Leaf BY DEF TypeOK, Node
  <2>3. table' \in SUBSET Leaf BY <2>1, <2>2
  <2> QED BY <1>5, <2>3 DEF BuildTable, TypeOK, Finish
<1>6. CASE EncodeByte
  <2> DEFINE cs == {leaf \in table : leaf.byte = input[at + 1]}
  <2>1. CASE cs = {} BY <1>6, <2>1 DEF EncodeByte, TypeOK, Finish
  <2>2. CASE cs # {}
    <3>1. PICK leaf \in cs : bits' = bits \o leaf.code
      BY <1>6, <2>2 DEF EncodeByte, FirstBitFirst
    <3>2. leaf.code \in Seq(Bit) BY DEF TypeOK, Leaf
    <3>3. bits' \in Seq(Bit) BY <3>1, <3>2, ConcatProperties DEF TypeOK
    <3>4. at' = at + 1 /\ UNCHANGED <<pc, error, input, nodes, table, file, output>>
      BY <1>6, <2>2 DEF EncodeByte
    <3> QED BY <3>3, <3>4 DEF TypeOK
  <2> QED BY <2>1, <2>2
<1>7. CASE EndCompress
  <2>1. [magic |-> "HUFF", original_size |-> Len(input), whole |-> TRUE,
         table |-> Serialized(table), data |-> bits \o Padding(Len(bits))] \in File
    <3>1. Len(bits) \in Nat /\ bits \in Seq(Bit) BY LenProperties DEF TypeOK
    <3>2. bits \o Padding(Len(bits)) \in Seq(Bit) BY <3>1, PaddingIs, ConcatProperties
    <3>3. bits \o Padding(Len(bits)) \in Seq(Bit \cup Byte) BY <3>2, SeqMonotonic
    <3>4. Serialized(table) \in SUBSET Entry BY SerializedType DEF TypeOK
    <3> QED BY <1>0, <3>3, <3>4 DEF File
  <2>2. file' \in File BY <1>7, <2>1 DEF EndCompress, TypeOK
  <2> QED BY <1>7, <2>2 DEF EndCompress, TypeOK, Finish
<1>8. CASE RefuseHeader
  <2>1. HeaderError \in codes BY <1>0 DEF HeaderError
  <2> QED BY <1>8, <2>1 DEF RefuseHeader, TypeOK, Finish
<1>9. CASE NoTableOrBuffer BY <1>9 DEF NoTableOrBuffer, TypeOK, Finish
<1>10. CASE TakeSmallFile
  <2>1. output' \in Seq(Bit \cup Byte)
    <3> DEFINE d == file.data
               n == file.original_size
    <3>1. HeaderError = 0 /\ file.magic = "SMAL" /\ output' = SubSeq(d, 1, n)
      BY <1>10 DEF TakeSmallFile
    <3>2. file.whole BY <3>1 DEF HeaderError
    <3>3. n <= Len(d) BY <3>1, <3>2 DEF InputOk
    <3>4. Len(d) \in Nat /\ n \in Nat BY <1>0, LenProperties
    <3>5. \A i \in 1 .. n : d[i] \in Bit \cup Byte
      <4>1. \A i \in 1 .. n : i \in 1 .. Len(d) BY <3>3, <3>4
      <4> QED BY <1>0, <4>1, ElementOfSeq
    <3> HIDE DEF d, n
    <3> QED BY <3>1, <3>4, <3>5, SubSeqProperties
  <2> QED BY <1>10, <2>1 DEF TakeSmallFile, TypeOK, Finish
<1>11. CASE StartDecompress BY <1>11 DEF StartDecompress, TypeOK
<1>12. CASE DecodeByte
  <2>1. CodeLengths # {} /\ at < Len(file.data) BY <1>12 DEF DecodeByte, MoreToDecode
  <2>2. Left \in Nat
    <3>1. Len(file.data) \in Nat BY <1>0, LenProperties
    <3> QED BY <2>1, <3>1 DEF Left, TypeOK
  <2>3. Min({MaxLength, Left}) \in Nat BY <2>2, Parameters, MinOfTwo
  <2>4. CodeLengths \subseteq Nat BY <2>3 DEF CodeLengths
  <2>5. Min(CodeLengths) \in Nat BY <2>1, <2>4, MinIs
  <2>6. PICK entry \in Matching(Min(CodeLengths)) : output' = Append(output, entry.byte)
    BY <1>12 DEF DecodeByte
  <2>7. entry.byte \in Byte BY <1>0 DEF Matching, Entry
  <2>8. output' \in Seq(Bit \cup Byte) BY <2>6, <2>7, AppendProperties DEF TypeOK
  <2>9. at' \in Nat BY <1>12, <2>5 DEF DecodeByte, TypeOK
  <2> QED BY <1>12, <2>8, <2>9 DEF DecodeByte, TypeOK
<1>13. CASE NoCode BY <1>13 DEF NoCode, TypeOK, Finish
<1>14. CASE EndDecode BY <1>14 DEF EndDecode, TypeOK, Finish
<1> QED BY <1>1, <1>2, <1>3, <1>4, <1>5, <1>6, <1>7, <1>8, <1>9, <1>10, <1>11, <1>12,
           <1>13, <1>14 DEF Next
(******************************* the invariant *******************************)

LongInput == input \in Plaintexts /\ input # <<>> /\ Len(input) >= SmallFile
Single == Cardinality(Symbols(input)) = 1

(* The table is made of the one tree of the symbols.                          *)
Built ==
    /\ Forest(input, nodes) /\ Deep(nodes)
    /\ \E root : /\ nodes = {root}
                 /\ table = {leaf \in root.leaves : Len(leaf.code) <= MaxLength}

(* The bits written spell the bytes encoded.                                  *)
Encoding ==
    /\ at <= Len(input)
    /\ \E M : Codes(input, table, bits, at, M) /\ M[at + 1] = Len(bits)
    /\ Single => bits = <<>>

(* Where a file to decompress comes from.                                     *)
Elsewhere == input = <<>> /\ nodes = {} /\ file \in Damaged
Stored ==
    /\ input \in Plaintexts /\ input # <<>> /\ Len(input) < SmallFile /\ nodes = {}
    /\ file = [magic |-> "SMAL", original_size |-> Len(input), whole |-> TRUE,
               table |-> {}, data |-> input]
Written ==
    /\ LongInput /\ Built
    /\ file.magic = "HUFF" /\ file.whole /\ file.original_size = Len(input)
    /\ file.table = Serialized(table) /\ file.data \in Seq(Bit)
    /\ \E M : Codes(input, table, file.data, Len(input), M)
    /\ Single => file.data = <<>>

(* What is decoded is the beginning of the input, and the bits read are what  *)
(* it was coded to.                                                           *)
Decoding ==
    /\ file.magic = "HUFF" /\ file.whole /\ Len(output) <= file.original_size
    /\ input # <<>> =>
          /\ \A i \in 1 .. Len(output) : output[i] = input[i]
          /\ \E M : /\ Codes(input, table, file.data, Len(input), M)
                    /\ at = M[Len(output) + 1]
          /\ file.data = <<>> => output = <<>>

Inv ==
    /\ TypeOK /\ InputOk
    /\ pc \in {"start", "tree", "encode"} => file = NoFile /\ output = <<>>
    /\ pc = "start" => input \in Plaintexts /\ nodes = {} /\ at = 0 /\ bits = <<>>
    /\ pc = "tree" => LongInput /\ Forest(input, nodes) /\ Deep(nodes) /\ at = 0 /\ bits = <<>>
    /\ pc = "encode" => LongInput /\ Built /\ Encoding
    /\ pc \in {"compressed", "decode"} => Elsewhere \/ Stored \/ Written
    /\ pc = "compressed" => output = <<>>
    /\ pc = "decode" => Decoding
    /\ LosslessUnlessOneSymbol
    /\ InsideBuffer

LEMMA InitInv == Init => Inv
<1> SUFFICES ASSUME Init PROVE Inv OBVIOUS
<1>1. NoFile \in File /\ ~NoFile.whole BY EmptySeq DEF NoFile, File
<1>2. /\ nodes = {} /\ table = {} /\ at = 0 /\ bits = <<>> /\ output = <<>> /\ error = 0
      /\ \/ pc = "start" /\ input \in Plaintexts /\ file = NoFile
         \/ pc = "compressed" /\ input = <<>> /\ file \in Damaged
  BY DEF Init
<1>3. file \in File BY <1>1, <1>2, Parameters
<1>4. TypeOK BY <1>2, <1>3, EmptySeq DEF TypeOK
<1>5. InputOk
  <2>1. input \in Seq(Byte) BY <1>2, Parameters, EmptySeq
  <2>2. file.magic = "SMAL" /\ file.whole => file.original_size <= Len(file.data)
    BY <1>1, <1>2, HuffmanAssumption
  <2> QED BY <2>1, <2>2 DEF InputOk
<1> QED BY <1>2, <1>4, <1>5 DEF Inv, Elsewhere, LosslessUnlessOneSymbol, InsideBuffer

(* The codes of the table.                                                    *)
LEMMA TableIs ==
    ASSUME Built, input \in Seq(Byte)
    PROVE  /\ table \in SUBSET Leaf /\ PrefixFree(table)
           /\ \A leaf \in table : Len(leaf.code) <= MaxLength
           /\ Single => \A leaf \in table : leaf.code = <<>>
           /\ ~Single => \A leaf \in table : leaf.code # <<>>
<1>1. PICK root : /\ nodes = {root}
                  /\ table = {leaf \in root.leaves : Len(leaf.code) <= MaxLength}
  BY DEF Built
<1>2. Forest(input, {root}) BY <1>1 DEF Built
<1>3. root.leaves \in SUBSET Leaf /\ PrefixFree(root.leaves) BY <1>2, RootIs
<1>4. table \subseteq root.leaves BY <1>1
<1> QED BY <1>1, <1>2, <1>3, <1>4, EmptyCodes DEF PrefixFree, Single

LEMMA EncodeByteKeeps ==
    ASSUME Inv, EncodeByte, TypeOK'
    PROVE  Inv'
<1>1. /\ pc = "encode" /\ at < Len(input) /\ LongInput /\ Built /\ Encoding
      /\ file = NoFile /\ output = <<>> /\ input \in Seq(Byte)
      /\ UNCHANGED <<input, nodes, table, file, output>>
  BY DEF EncodeByte, Inv, InputOk
<1> DEFINE cs == {leaf \in table : leaf.byte = input[at + 1]}
<1>2. CASE cs = {}
  <2>1. pc' = "done" /\ error' = -7 BY <1>2 DEF EncodeByte, Finish
  <2>2. InputOk' BY <1>1 DEF Inv, InputOk
  <2> QED BY <1>1, <2>1, <2>2
      DEF Inv, LosslessUnlessOneSymbol, InsideBuffer, NoFile
<1>3. CASE cs # {}
  <2>1. PICK leaf \in cs : bits' = bits \o leaf.code
    BY <1>3 DEF EncodeByte, FirstBitFirst
  <2>2. at' = at + 1 /\ UNCHANGED <<pc, error>> BY <1>3 DEF EncodeByte
  <2>3. LongInput' /\ Built' /\ InputOk' BY <1>1 DEF LongInput, Built, Inv, InputOk
  <2>4. leaf \in table /\ leaf.byte = input[at + 1] OBVIOUS
  <2>5. bits \in Seq(Bit) /\ at \in Nat /\ Len(input) \in Nat
    BY <1>1, LenProperties DEF Inv, TypeOK
  <2>6. PICK M : Codes(input, table, bits, at, M) /\ M[at + 1] = Len(bits)
    BY <1>1 DEF Encoding
  <2>7. table \in SUBSET Leaf BY <1>1, TableIs
  <2>8. \E M2 : Codes(input, table, bits \o leaf.code, at + 1, M2)
                /\ M2[at + 2] = Len(bits \o leaf.code)
    BY <2>4, <2>5, <2>6, <2>7, CodesGrow
  <2>9. Single => bits' = <<>>
    <3> SUFFICES ASSUME Single PROVE bits \o leaf.code = <<>> BY <2>1
    <3>1. bits = <<>> /\ leaf.code = <<>> BY <1>1, <2>4, TableIs DEF Encoding
    <3> QED BY <3>1
  <2>10. Encoding'
    <3>1. at + 1 <= Len(input) /\ (at + 1) + 1 = at + 2 BY <1>1, <2>5
    <3>2. \E M2 : Codes(input', table', bits', at', M2) /\ M2[at' + 1] = Len(bits')
      BY <1>1, <2>1, <2>2, <2>8, <3>1
    <3>3. Single' => bits' = <<>> BY <1>1, <2>9 DEF Single
    <3>4. at' <= Len(input') BY <1>1, <2>2, <3>1
    <3> QED BY <3>2, <3>3, <3>4 DEF Encoding
  <2> QED BY <1>1, <2>2, <2>3, <2>10
      DEF Inv, LosslessUnlessOneSymbol, InsideBuffer
<1> QED BY <1>2, <1>3

LEMMA EndCompressKeeps ==
    ASSUME Inv, EndCompress, TypeOK'
    PROVE  Inv'
<1>1. /\ pc = "encode" /\ at = Len(input) /\ LongInput /\ Built /\ Encoding
      /\ file = NoFile /\ output = <<>> /\ input \in Seq(Byte) /\ bits \in Seq(Bit)
      /\ UNCHANGED <<input, nodes, table, at, bits, output>>
  BY DEF EndCompress, Inv, InputOk, TypeOK
<1>2. CASE Finish(-8) /\ UNCHANGED file
  <2>1. pc' = "done" /\ file' = NoFile BY <1>1, <1>2 DEF Finish
  <2>2. InputOk' BY <1>1, <1>2 DEF Inv, InputOk
  <2>3. error' = -8 BY <1>2 DEF Finish
  <2> QED BY <1>1, <2>1, <2>2, <2>3
      DEF Inv, LosslessUnlessOneSymbol, InsideBuffer, NoFile
<1>3. CASE /\ file' = [magic |-> "HUFF", original_size |-> Len(input), whole |-> TRUE,
                       table |-> Serialized(table), data |-> bits \o Padding(Len(bits))]
           /\ pc' = "compressed"
  <2> DEFINE p == Padding(Len(bits))
  <2>1. p \in Seq(Bit) /\ Len(bits) \in Nat
    <3>1. Len(bits) \in Nat BY <1>1, LenProperties
    <3> QED BY <3>1, PaddingIs
  <2> HIDE DEF p
  <2>2. /\ file'.magic = "HUFF" /\ file'.whole /\ file'.original_size = Len(input)
        /\ file'.table = Serialized(table) /\ file'.data = bits \o p
    BY <1>3 DEF p
  <2>3. InputOk' BY <1>1, <2>2 DEF Inv, InputOk
  <2>4. LongInput' /\ Built' BY <1>1 DEF LongInput, Built
  <2>5. bits \o p \in Seq(Bit) BY <1>1, <2>1, ConcatProperties
  <2>6. \E M : Codes(input, table, bits \o p, Len(input), M)
    <3>1. PICK M : Codes(input, table, bits, at, M) BY <1>1 DEF Encoding
    <3>2. table \in SUBSET Leaf /\ at \in Nat BY <1>1, TableIs DEF Inv, TypeOK
    <3> QED BY <1>1, <2>1, <3>1, <3>2, CodesKept
  <2>7. Single => bits \o p = <<>>
    <3> SUFFICES ASSUME Single PROVE bits \o p = <<>> OBVIOUS
    <3>1. bits = <<>> BY <1>1 DEF Encoding
    <3>2. p = <<>> BY <3>1, PaddingIs DEF p
    <3> QED BY <3>1, <3>2
  <2>8. Written' BY <1>1, <2>2, <2>4, <2>5, <2>6, <2>7 DEF Written, Single
  <2> QED BY <1>1, <1>3, <2>3, <2>8 DEF Inv, LosslessUnlessOneSymbol, InsideBuffer
<1> QED BY <1>2, <1>3 DEF EndCompress
(* What is decoded next is the next byte of the input.                        *)
LEMMA NextDecoded ==
    ASSUME Inv, pc = "decode", input # <<>>, Len(output) < file.original_size
    PROVE  /\ Written /\ Decoding /\ Len(output) < Len(input)
           /\ Single => file.data = <<>> /\ output = <<>>
           /\ ~Single =>
                 /\ at < Len(file.data) /\ CodeLengths # {}
                 /\ \A entry \in Matching(Min(CodeLengths)) :
                       entry.byte = input[Len(output) + 1]
                 /\ \E M : /\ Codes(input, table, file.data, Len(input), M)
                           /\ at + Min(CodeLengths) = M[(Len(output) + 1) + 1]
<1>1. Decoding /\ input \in Seq(Byte) BY DEF Inv, InputOk
<1>2. Written BY <1>1 DEF Inv, Elsewhere, Stored, Decoding
<1>3. Len(input) \in Nat /\ Len(output) \in Nat BY <1>1, LenProperties DEF Inv, TypeOK
<1>4. Len(output) < Len(input) BY <1>2 DEF Written
<1>5. Single => file.data = <<>> /\ output = <<>> BY <1>1, <1>2 DEF Written, Decoding
<1>6. ASSUME ~Single
      PROVE  /\ at < Len(file.data) /\ CodeLengths # {}
             /\ \A entry \in Matching(Min(CodeLengths)) :
                   entry.byte = input[Len(output) + 1]
             /\ \E M : /\ Codes(input, table, file.data, Len(input), M)
                       /\ at + Min(CodeLengths) = M[(Len(output) + 1) + 1]
  <2> DEFINE k == Len(output)
             n == Len(input)
  <2>1. PICK M : Codes(input, table, file.data, n, M) /\ at = M[k + 1]
    BY <1>1 DEF Decoding
  <2>2. n \in Nat /\ k \in 0 .. n - 1 /\ (k + 1) + 1 = k + 2 BY <1>3, <1>4
  <2>3. /\ table \in SUBSET Leaf /\ PrefixFree(table)
        /\ \A leaf \in table : leaf.code # <<>> /\ Len(leaf.code) <= MaxLength
    BY <1>1, <1>2, <1>6, TableIs DEF Written
  <2>4. file.data \in Seq(Bit) /\ file.table = Serialized(table) BY <1>2 DEF Written
  <2> HIDE DEF k, n
  <2>5. /\ at < Len(file.data) /\ CodeLengths # {}
        /\ \A entry \in Matching(Min(CodeLengths)) : entry.byte = input[k + 1]
        /\ at + Min(CodeLengths) = M[k + 2]
    BY <2>1, <2>2, <2>3, <2>4, DecodesNext
  <2> QED BY <2>1, <2>2, <2>5 DEF k, n
<1> QED BY <1>1, <1>2, <1>4, <1>5, <1>6

LEMMA DecodeByteKeeps ==
    ASSUME Inv, DecodeByte, TypeOK'
    PROVE  Inv'
<1>1. /\ pc = "decode" /\ MoreToDecode /\ Decoding /\ pc' = pc
      /\ UNCHANGED <<input, nodes, table, bits, file, error>>
      /\ at' = at + Min(CodeLengths)
      /\ output \in Seq(Bit \cup Byte) /\ file \in File
  BY DEF DecodeByte, Inv, TypeOK
<1>2. PICK entry \in Matching(Min(CodeLengths)) : output' = Append(output, entry.byte)
  BY DEF DecodeByte
<1>3. entry.byte \in Bit \cup Byte BY <1>1 DEF Matching, File, Entry
<1> DEFINE k == Len(output)
<1>4. k \in Nat /\ k < file.original_size /\ at < Len(file.data) /\ file.original_size \in Nat
  BY <1>1, LenProperties DEF MoreToDecode, File
<1>5. /\ Len(output') = k + 1 /\ output'[k + 1] = entry.byte
      /\ \A i \in 1 .. k : output'[i] = output[i]
  BY <1>1, <1>2, <1>3, AppendProperties
<1> HIDE DEF k
<1>6. InputOk' BY <1>1 DEF Inv, InputOk
<1>7. (Elsewhere \/ Stored \/ Written)'
  <2>1. Elsewhere \/ Stored \/ Written BY <1>1 DEF Inv
  <2>2. Elsewhere => Elsewhere' BY <1>1 DEF Elsewhere
  <2>3. Stored => Stored' BY <1>1 DEF Stored
  <2>4. Written => Written' BY <1>1 DEF Written, LongInput, Built, Single
  <2> QED BY <2>1, <2>2, <2>3, <2>4
<1>8. Len(output') <= file'.original_size BY <1>1, <1>4, <1>5
<1>9. Decoding'
  <2>1. ASSUME input # <<>>
        PROVE  /\ \A i \in 1 .. k + 1 : output'[i] = input[i]
               /\ \E M : /\ Codes(input, table, file.data, Len(input), M)
                         /\ at' = M[(k + 1) + 1]
               /\ file.data # <<>>
    <3>1. file.data # <<>>
      <4>1. at \in Nat BY DEF Inv, TypeOK
      <4>2. Len(file.data) # 0 BY <1>1, <1>4, <4>1, LenProperties DEF File
      <4> QED BY <4>2
    <3>2. ~Single BY <1>1, <1>4, <2>1, <3>1, NextDecoded DEF k
    <3>3. /\ entry.byte = input[k + 1]
          /\ \E M : /\ Codes(input, table, file.data, Len(input), M)
                    /\ at + Min(CodeLengths) = M[(k + 1) + 1]
      BY <1>1, <1>4, <2>1, <3>2, NextDecoded DEF k
    <3>4. \A i \in 1 .. k : output[i] = input[i] BY <1>1, <2>1 DEF Decoding, k
    <3>5. \A i \in 1 .. k + 1 : i \in 1 .. k \/ i = k + 1 BY <1>4
    <3>6. \A i \in 1 .. k + 1 : output'[i] = input[i] BY <1>5, <3>3, <3>4, <3>5
    <3> QED BY <1>1, <3>1, <3>3, <3>6
  <2>2. file'.magic = "HUFF" /\ file'.whole BY <1>1 DEF Decoding
  <2>3. input' # <<>> =>
          /\ \A i \in 1 .. Len(output') : output'[i] = input'[i]
          /\ \E M : /\ Codes(input', table', file'.data, Len(input'), M)
                    /\ at' = M[Len(output') + 1]
          /\ file'.data = <<>> => output' = <<>>
    BY <1>1, <1>5, <2>1
  <2> QED BY <1>8, <2>2, <2>3 DEF Decoding
<1> QED BY <1>1, <1>6, <1>7, <1>8, <1>9
    DEF Inv, LosslessUnlessOneSymbol, InsideBuffer

LEMMA EndDecodeKeeps ==
    ASSUME Inv, EndDecode, TypeOK'
    PROVE  Inv'
<1>1. /\ pc = "decode" /\ ~MoreToDecode /\ Decoding /\ pc' = "done"
      /\ error' = (IF Len(output) = file.original_size THEN 0 ELSE -6)
      /\ UNCHANGED <<input, nodes, table, at, bits, file, output>>
      /\ output \in Seq(Bit \cup Byte) /\ file \in File
  BY DEF EndDecode, Inv, TypeOK, Finish
<1>2. InputOk' BY <1>1 DEF Inv, InputOk
<1>3. LosslessUnlessOneSymbol'
  <2> SUFFICES ASSUME input # <<>>
               PROVE  \/ ~OneSymbol(input) /\ error' = 0 /\ output = input
                      \/ OneSymbol(input) /\ error' = -6
    BY <1>1 DEF LosslessUnlessOneSymbol
  <2>1. Written BY <1>1 DEF Inv, Elsewhere, Stored, Decoding
  <2>2. /\ input \in Seq(Byte) /\ Len(input) >= SmallFile /\ file.original_size = Len(input)
        /\ Len(input) \in Nat \ {0} /\ Len(output) \in Nat
    <3>1. input \in Seq(Byte) BY DEF Inv, InputOk
    <3> QED BY <1>1, <2>1, <3>1, LenProperties, EmptySeq DEF Written, LongInput
  <2>3. OneSymbol(input) <=> Single BY <2>2 DEF OneSymbol, Single
  <2>4. CASE Single
    <3>1. output = <<>> BY <1>1, <2>1, <2>4 DEF Decoding, Written
    <3>2. Len(output) = 0 BY <3>1
    <3>3. error' = -6 BY <1>1, <2>2, <3>2
    <3> QED BY <2>3, <2>4, <3>3
  <2>5. CASE ~Single
    <3>1. ~(Len(output) < file.original_size)
      <4> SUFFICES ASSUME Len(output) < file.original_size PROVE FALSE OBVIOUS
      <4>1. at < Len(file.data) BY <1>1, <2>5, NextDecoded
      <4> QED BY <1>1, <4>1 DEF MoreToDecode
    <3>2. Len(output) = Len(input) BY <1>1, <2>2, <3>1 DEF Decoding
    <3>3. \A i \in 1 .. Len(output) : output[i] = input[i] BY <1>1 DEF Decoding
    <3>4. input \in Seq(Bit \cup Byte) BY <2>2, SeqMonotonic
    <3>5. output = input BY <1>1, <3>2, <3>3, <3>4, SeqEqual
    <3>6. error' = 0 BY <1>1, <2>2, <3>2
    <3> QED BY <2>3, <2>5, <3>5, <3>6
  <2> QED BY <2>4, <2>5
<1>4. InsideBuffer' BY <1>1 DEF InsideBuffer
<1> QED BY <1>1, <1>2, <1>3, <1>4 DEF Inv

LEMMA NoCodeKeeps ==
    ASSUME Inv, NoCode, TypeOK'
    PROVE  Inv'
<1>1. /\ pc = "decode" /\ MoreToDecode /\ CodeLengths = {} /\ pc' = "done"
      /\ error' = (IF Left >= MaxLength THEN -7 ELSE -6)
      /\ UNCHANGED <<input, nodes, table, at, bits, file, output>>
      /\ file \in File /\ at \in Nat
  BY DEF NoCode, Inv, TypeOK, Finish
<1>2. InputOk' BY <1>1 DEF Inv, InputOk
<1>3. input = <<>>
  <2> SUFFICES ASSUME input # <<>> PROVE FALSE OBVIOUS
  <2>1. Len(output) < file.original_size /\ at < Len(file.data) BY <1>1 DEF MoreToDecode
  <2>2. Len(file.data) # 0 BY <1>1, <2>1, LenProperties DEF File
  <2>3. file.data # <<>> BY <2>2
  <2> QED BY <1>1, <2>1, <2>3, NextDecoded
<1>4. error' # 0 BY <1>1
<1> QED BY <1>1, <1>2, <1>3, <1>4 DEF Inv, LosslessUnlessOneSymbol, InsideBuffer

LEMMA StartDecompressKeeps ==
    ASSUME Inv, StartDecompress, TypeOK'
    PROVE  Inv'
<1>1. /\ pc = "compressed" /\ HeaderError = 0 /\ file.magic = "HUFF" /\ pc' = "decode"
      /\ at' = 0 /\ UNCHANGED <<input, nodes, table, bits, file, output, error>>
      /\ output = <<>> /\ file \in File /\ (Elsewhere \/ Stored \/ Written)
  BY DEF StartDecompress, Inv, TypeOK
<1>2. file.whole BY <1>1 DEF HeaderError
<1>3. Len(output) = 0 /\ file.original_size \in Nat BY <1>1 DEF File
<1>4. InputOk' BY <1>1 DEF Inv, InputOk
<1>5. (Elsewhere \/ Stored \/ Written)'
  <2>1. Elsewhere => Elsewhere' BY <1>1 DEF Elsewhere
  <2>2. Stored => Stored' BY <1>1 DEF Stored
  <2>3. Written => Written' BY <1>1 DEF Written, LongInput, Built, Single
  <2> QED BY <1>1, <2>1, <2>2, <2>3
<1>6. Decoding'
  <2>1. ASSUME input # <<>>
        PROVE  \E M : Codes(input, table, file.data, Len(input), M) /\ 0 = M[0 + 1]
    <3>1. Written BY <1>1, <2>1 DEF Elsewhere, Stored
    <3>2. PICK M : Codes(input, table, file.data, Len(input), M) BY <3>1 DEF Written
    <3>3. M[0 + 1] = 0 BY <3>2 DEF Codes
    <3> QED BY <3>2, <3>3
  <2>2. file'.magic = "HUFF" /\ file'.whole /\ Len(output') <= file'.original_size
    BY <1>1, <1>2, <1>3
  <2>3. \A i \in 1 .. Len(output') : output'[i] = input'[i] BY <1>1, <1>3
  <2>4. input' # <<>> =>
           \E M : Codes(input', table', file'.data, Len(input'), M) /\ at' = M[Len(output') + 1]
    BY <1>1, <1>3, <2>1
  <2> QED BY <1>1, <2>2, <2>3, <2>4 DEF Decoding
<1>7. InsideBuffer' BY <1>1, <1>3 DEF InsideBuffer
<1> QED BY <1>1, <1>4, <1>5, <1>6, <1>7 DEF Inv, LosslessUnlessOneSymbol
LEMMA StartKeeps ==
    ASSUME Inv, StartCompress \/ StoreSmallFile, TypeOK'
    PROVE  Inv'
<1>1. /\ pc = "start" /\ input \in Plaintexts /\ input \in Seq(Byte) /\ nodes = {}
      /\ at = 0 /\ bits = <<>> /\ file = NoFile /\ output = <<>>
      /\ UNCHANGED <<input, table, at, bits, output>>
  BY DEF StartCompress, StoreSmallFile, Inv, InputOk
<1>2. ~NoFile.whole BY DEF NoFile
<1>3. ASSUME pc' = "done", error' = -1, file' = file PROVE Inv'
  BY <1>1, <1>2, <1>3 DEF Inv, InputOk, LosslessUnlessOneSymbol, InsideBuffer
<1>4. CASE StartCompress
  <2>1. CASE input = <<>> /\ Finish(-1) BY <1>3, <1>4, <2>1 DEF StartCompress, Finish
  <2>2. CASE /\ input # <<>> /\ Len(input) >= SmallFile
             /\ nodes' = {LeafNode(input, b) : b \in Symbols(input)}
             /\ pc' = "tree"
    <3>1. file' = file BY <1>4 DEF StartCompress
    <3>2. Forest(input, nodes') /\ Deep(nodes') BY <1>1, <2>2, FirstNodes
    <3>3. LongInput' BY <1>1, <2>2 DEF LongInput
    <3> QED BY <1>1, <2>2, <3>1, <3>2, <3>3
        DEF Inv, InputOk, LosslessUnlessOneSymbol, InsideBuffer
  <2> QED BY <1>4, <2>1, <2>2 DEF StartCompress
<1>5. CASE StoreSmallFile
  <2>1. CASE Finish(-1) /\ UNCHANGED file BY <1>3, <2>1 DEF Finish
  <2>2. CASE /\ file' = [magic |-> "SMAL", original_size |-> Len(input), whole |-> TRUE,
                         table |-> {}, data |-> input]
             /\ pc' = "compressed"
    <3>1. input # <<>> /\ Len(input) < SmallFile /\ UNCHANGED nodes
      BY <1>5 DEF StoreSmallFile
    <3>2. Stored' BY <1>1, <2>2, <3>1 DEF Stored
    <3>3. InputOk'
      <4>1. Len(input) \in Nat BY <1>1, LenProperties
      <4>2. file'.original_size <= Len(file'.data) BY <2>2, <4>1
      <4> QED BY <1>1, <4>2 DEF InputOk
    <3> QED BY <1>1, <2>2, <3>2, <3>3
        DEF Inv, LosslessUnlessOneSymbol, InsideBuffer
  <2> QED BY <1>5, <2>1, <2>2 DEF StoreSmallFile
<1> QED BY <1>4, <1>5

LEMMA JoinNodesKeeps ==
    ASSUME Inv, JoinNodes, TypeOK'
    PROVE  Inv'
<1>1. /\ pc = "tree" /\ LongInput /\ Forest(input, nodes) /\ Deep(nodes)
      /\ at = 0 /\ bits = <<>> /\ file = NoFile /\ output = <<>> /\ input \in Seq(Byte)
      /\ UNCHANGED <<input, pc, table, at, bits, file, output, error>>
  BY DEF JoinNodes, Inv, InputOk
<1>2. PICK a \in nodes, b \in nodes : /\ LeastTwo(a, b)
                                      /\ nodes' = (nodes \ {a, b}) \cup {Joined(a, b)}
  BY DEF JoinNodes
<1>3. /\ a # b /\ a.frequency <= b.frequency
      /\ \A c \in nodes \ {a, b} : b.frequency <= c.frequency
  BY <1>2 DEF LeastTwo
<1>4. Forest(input, nodes') /\ Deep(nodes') BY <1>1, <1>2, <1>3, JoinKeeps
<1>5. LongInput' /\ InputOk' BY <1>1 DEF LongInput, Inv, InputOk
<1> QED BY <1>1, <1>4, <1>5 DEF Inv, LosslessUnlessOneSymbol, InsideBuffer

LEMMA BuildTableKeeps ==
    ASSUME Inv, BuildTable, TypeOK'
    PROVE  Inv'
<1>1. /\ pc = "tree" /\ LongInput /\ Forest(input, nodes) /\ Deep(nodes)
      /\ Cardinality(nodes) = 1
      /\ at = 0 /\ bits = <<>> /\ file = NoFile /\ output = <<>> /\ input \in Seq(Byte)
      /\ UNCHANGED <<input, nodes, at, bits, file, output>>
  BY DEF BuildTable, Inv, InputOk
<1>2. LongInput' /\ InputOk' BY <1>1 DEF LongInput, Inv, InputOk
<1>3. PICK root : nodes = {root} BY <1>1, NodesCounted
<1>4. table' = {leaf \in root.leaves : Len(leaf.code) <= MaxLength} BY <1>3 DEF BuildTable
<1>5. CASE pc' = "encode"
  <2>1. Built' BY <1>1, <1>3, <1>4 DEF Built
  <2>2. Encoding'
    <3> DEFINE M == [i \in 1 .. 0 + 1 |-> 0]
    <3>1. Codes(input', table', <<>>, 0, M) /\ M[0 + 1] = Len(<<>>) BY DEF Codes
    <3>2. 0 <= Len(input) BY <1>1, LenProperties
    <3> HIDE DEF M
    <3> QED BY <1>1, <3>1, <3>2 DEF Encoding
  <2> QED BY <1>1, <1>2, <1>5, <2>1, <2>2 DEF Inv, LosslessUnlessOneSymbol, InsideBuffer
<1>6. CASE \E code \in {-3, -5, -6} : Finish(code)
  <2>1. pc' = "done" /\ error' \in {-3, -5, -6} BY <1>6 DEF Finish
  <2>2. ~file'.whole BY <1>1 DEF NoFile
  <2> QED BY <1>1, <1>2, <2>1, <2>2 DEF Inv, LosslessUnlessOneSymbol, InsideBuffer
<1> QED BY <1>5, <1>6 DEF BuildTable

(* A tree that cannot be built leaves nothing that was made.                  *)
LEMMA NoNodeKeeps ==
    ASSUME Inv, NoNode, TypeOK'
    PROVE  Inv'
<1>1. /\ pc = "tree" /\ LongInput /\ file = NoFile
      /\ pc' = "aborted" \/ (pc' = "done" /\ error' = -2)
      /\ UNCHANGED <<input, nodes, table, at, bits, file, output>>
  BY DEF NoNode, Finish, Inv
<1>2. InputOk' BY <1>1 DEF Inv, InputOk
<1>3. ~file'.whole BY <1>1 DEF NoFile
<1> QED BY <1>1, <1>2, <1>3 DEF Inv, LosslessUnlessOneSymbol, InsideBuffer

(* A file that was made here has no fault in its header.                      *)
LEMMA RefuseKeeps ==
    ASSUME Inv, RefuseHeader \/ NoTableOrBuffer, TypeOK'
    PROVE  Inv'
<1>1. /\ pc = "compressed" /\ pc' = "done"
      /\ UNCHANGED <<input, nodes, table, at, bits, file, output>>
      /\ Elsewhere \/ Stored \/ Written
      /\ file.magic \in {"HUFF", "SMAL", "other", "short"} /\ file.whole \in BOOLEAN
  BY DEF RefuseHeader, NoTableOrBuffer, Finish, Inv, TypeOK, File
<1>2. InputOk' BY <1>1 DEF Inv, InputOk
<1>3. error' # 0 /\ (input # <<>> => error' \in {-4, -5})
  <2>1. CASE RefuseHeader
    <3>1. HeaderError # 0 /\ error' = HeaderError BY <2>1 DEF RefuseHeader, Finish
    <3>2. input # <<>> => file.magic \in {"HUFF", "SMAL"} /\ file.whole
      BY <1>1 DEF Elsewhere, Stored, Written
    <3>3. file.magic \in {"HUFF", "SMAL"} /\ file.whole => HeaderError = 0
      BY DEF HeaderError
    <3> QED BY <3>1, <3>2, <3>3
  <2>2. CASE NoTableOrBuffer BY <2>2 DEF NoTableOrBuffer, Finish
  <2> QED BY <2>1, <2>2
<1> QED BY <1>1, <1>2, <1>3 DEF Inv, LosslessUnlessOneSymbol, InsideBuffer

LEMMA TakeSmallFileKeeps ==
    ASSUME Inv, TakeSmallFile, TypeOK'
    PROVE  Inv'
<1>1. /\ pc = "compressed" /\ pc' = "done" /\ error' = 0
      /\ HeaderError = 0 /\ file.magic = "SMAL"
      /\ output' = SubSeq(file.data, 1, file.original_size)
      /\ UNCHANGED <<input, nodes, table, at, bits, file>>
      /\ Elsewhere \/ Stored \/ Written
      /\ file \in File
  BY DEF TakeSmallFile, Finish, Inv, TypeOK
<1>2. InputOk' /\ input \in Seq(Byte) BY <1>1 DEF Inv, InputOk
<1>3. Len(output') = file.original_size
  <2> DEFINE d == file.data
             n == file.original_size
  <2>1. file.whole BY <1>1 DEF HeaderError
  <2>2. n <= Len(d) BY <1>1, <2>1 DEF Inv, InputOk
  <2>3. d \in Seq(Bit \cup Byte) /\ Len(d) \in Nat /\ n \in Nat
    BY <1>1, LenProperties DEF File
  <2>4. \A i \in 1 .. n : d[i] \in Bit \cup Byte
    <3>1. \A i \in 1 .. n : i \in 1 .. Len(d) BY <2>2, <2>3
    <3> QED BY <2>3, <3>1, ElementOfSeq
  <2> HIDE DEF d, n
  <2>5. Len(SubSeq(d, 1, n)) = IF 1 <= n THEN n - 1 + 1 ELSE 0
    BY <2>3, <2>4, SubSeqProperties
  <2>6. Len(SubSeq(d, 1, n)) = n BY <2>3, <2>5
  <2> QED BY <1>1, <2>6 DEF d, n
<1>4. input # <<>> => ~OneSymbol(input) /\ output' = input
  <2> SUFFICES ASSUME input # <<>> PROVE ~OneSymbol(input) /\ output' = input OBVIOUS
  <2>1. Stored BY <1>1 DEF Elsewhere, Written
  <2>2. Len(input) \in Nat BY <1>2, LenProperties
  <2>3. ~OneSymbol(input) BY <2>1, <2>2, Parameters DEF Stored, OneSymbol
  <2>4. output' = SubSeq(input, 1, Len(input)) BY <1>1, <2>1 DEF Stored
  <2> QED BY <1>2, <2>3, <2>4, SubSeqFull
<1> QED BY <1>1, <1>2, <1>3, <1>4 DEF Inv, LosslessUnlessOneSymbol, InsideBuffer

LEMMA NextInv == Inv /\ [Next]_vars => Inv'
<1> SUFFICES ASSUME Inv, [Next]_vars PROVE Inv' OBVIOUS
<1>1. CASE UNCHANGED vars
  <2>1. UNCHANGED <<input, pc, nodes, table, at, bits, file, output, error>> BY <1>1 DEF vars
  <2>2. TypeOK' BY <2>1 DEF Inv, TypeOK
  <2>3. (InputOk => InputOk') /\ (LongInput => LongInput') /\ (Built => Built')
    BY <2>1 DEF InputOk, LongInput, Built
  <2>4. (Encoding => Encoding') /\ (Decoding => Decoding')
    BY <2>1 DEF Encoding, Decoding, Single
  <2>5. (Elsewhere => Elsewhere') /\ (Stored => Stored') BY <2>1 DEF Elsewhere, Stored
  <2>6. Written => Written' BY <2>1, <2>3 DEF Written, Single
  <2>7. LosslessUnlessOneSymbol' /\ InsideBuffer'
    BY <2>1 DEF Inv, LosslessUnlessOneSymbol, InsideBuffer
  <2> QED BY <2>1, <2>2, <2>3, <2>4, <2>5, <2>6, <2>7 DEF Inv
<1>2. CASE Next
  <2>1. TypeOK' BY <1>2, NextType DEF Inv
  <2> QED BY <1>2, <2>1, NoNodeKeeps, StartKeeps, JoinNodesKeeps, BuildTableKeeps, EncodeByteKeeps,
             EndCompressKeeps, RefuseKeeps, TakeSmallFileKeeps, StartDecompressKeeps,
             DecodeByteKeeps, NoCodeKeeps, EndDecodeKeeps
      DEF Next
<1> QED BY <1>1, <1>2

LEMMA InvHolds == Spec => []Inv
<1> QED BY InitInv, NextInv, PTL DEF Spec

(********************************** theorems *********************************)

(* Every variable keeps its type, for any input, any file to decode and any   *)
(* order of nodes of equal frequency: no byte outside the alphabet is written *)
(* and no error outside those of compression_huffman.c is returned.           *)
THEOREM TypeCorrect == Spec => []TypeOK
<1>1. Inv => TypeOK BY DEF Inv
<1> QED BY <1>1, InvHolds, PTL

(* Decoding never writes past original_size, the length of the buffer that    *)
(* decompress_huffman allocates, whatever table and bits a file holds.        *)
THEOREM NothingPastTheBuffer == Spec => []InsideBuffer
<1>1. Inv => InsideBuffer BY DEF Inv
<1> QED BY <1>1, InvHolds, PTL

(* Decoding what compress_huffman made gives back its input or fails for want *)
(* of memory, except that what was made of an input of one symbol is always   *)
(* refused.                                                                   *)
THEOREM LosslessExactly == Spec => []LosslessUnlessOneSymbol
<1>1. Inv => LosslessUnlessOneSymbol BY DEF Inv
<1> QED BY <1>1, InvHolds, PTL

(* Inputs of fewer bytes than the Fibonacci number of MaxLength + 3: with 32, *)
(* 9227465, and a chunk has at most 1048576.                                  *)
ShortInputs == \A s \in Plaintexts : Len(s) < Fib[MaxLength + 3]

(* For such inputs every symbol has a code of at most MaxLength bits, so that *)
(* the depth at which build_huffman_codes gives up is never reached, and no   *)
(* code begins another.                                                       *)
THEOREM EverySymbolHasItsCode ==
    ASSUME ShortInputs
    PROVE  Spec => []CodesAreAPrefixCode
<1>1. Inv => CodesAreAPrefixCode
  <2> SUFFICES ASSUME Inv, pc \in {"encode", "compressed", "decode"}, nodes # {}
               PROVE  /\ \A b \in Symbols(input) : \E leaf \in table : leaf.byte = b
                      /\ \A a, b \in table :
                            a # b => a.byte # b.byte /\ ~IsPrefix(a.code, b.code)
    BY DEF CodesAreAPrefixCode
  <2>1. LongInput /\ Built /\ input \in Seq(Byte)
    BY DEF Inv, InputOk, Elsewhere, Stored, Written
  <2>2. PICK root : /\ nodes = {root}
                    /\ table = {leaf \in root.leaves : Len(leaf.code) <= MaxLength}
    BY <2>1 DEF Built
  <2>3. Forest(input, {root}) /\ Deep({root}) BY <2>1, <2>2 DEF Built
  <2>4. Len(input) < Fib[MaxLength + 3] BY <2>1 DEF LongInput, ShortInputs
  <2>5. table = root.leaves BY <2>1, <2>2, <2>3, <2>4, DepthBounded
  <2>6. {leaf.byte : leaf \in table} = Symbols(input) BY <2>1, <2>3, <2>5, RootIs
  <2>7. PrefixFree(table) BY <2>1, TableIs
  <2> QED BY <2>6, <2>7 DEF PrefixFree
<1> QED BY <1>1, InvHolds, PTL
==================================================================================

------------------------------- MODULE RleProofs -------------------------------
(* What holds of Rle for any width of a tag, any least run, every input and   *)
(* every damaged file: above all, which inputs come back (Lossless).  No      *)
(* induction over data is needed: the invariant carries a text that what is   *)
(* coded so far decodes to, and every step adds a token to both.              *)
EXTENDS Rle, SequenceTheorems, WellFoundedInduction, TLAPS

LEMMA Parameters ==
    /\ Mask \in Nat /\ MinRun \in Nat \ {0} /\ Flag \in Nat \ {0}
    /\ MaxRunChunk \in Nat /\ MaxRunChunk >= MinRun /\ LiteralMax = Flag
    /\ MaxRunChunk = MinRun + Flag - 1
    /\ \A b : b \in Byte <=> b \in Nat /\ b < 2 * Flag
BY RleAssumption DEF Flag, LiteralMax, MaxRunChunk, Byte

(********************************* numbers ***********************************)

(* A set of naturals has a least element.                                     *)
LEMMA Least ==
    ASSUME NEW T, T \subseteq Nat, T # {}
    PROVE  \E x \in T : \A y \in T : x <= y
<1> DEFINE R == OpToRel(<, Nat)
<1>1. IsWellFoundedOn(R, Nat) BY NatLessThanWellFounded
<1>2. \A x, y \in Nat : y < x => <<y, x>> \in R BY DEF OpToRel
<1> HIDE DEF R
<1>3. PICK x \in T : \A y \in T : ~(<<y, x>> \in R) BY <1>1, WFMin
<1>4. \A y \in T : ~(y < x) BY <1>2, <1>3
<1> QED BY <1>3, <1>4

(* The quotient and the remainder of a division.                              *)
LEMMA Euclid ==
    ASSUME NEW x \in Int, NEW K \in Nat \ {0}
    PROVE  /\ x = K * (x \div K) + (x % K)
           /\ x % K \in 0 .. K - 1
           /\ x \div K \in Int
OBVIOUS

(* Only one remainder leaves a multiple of the divisor.                       *)
LEMMA RemainderUnique ==
    ASSUME NEW K \in Nat \ {0}, NEW q \in Int, NEW r \in 0 .. K - 1
    PROVE  (K * q + r) % K = r
<1> DEFINE x == K * q + r
           m == (x \div K) - q
<1>1. x \in Int OBVIOUS
<1>2. x = K * (x \div K) + (x % K) /\ x % K \in 0 .. K - 1 BY <1>1, Euclid
<1>3. m \in Int BY <1>1, Euclid
<1>4. K * m = r - (x % K) BY <1>1, <1>2, SMT
<1>5. ~(m >= 1) BY <1>2, <1>3, <1>4, SMT
<1>6. ~(m <= -1) BY <1>2, <1>3, <1>4, SMT
<1>7. m = 0 BY <1>3, <1>5, <1>6
<1> QED BY <1>2, <1>4, <1>7

(* Remainders of small numbers, and of a number a whole divisor smaller.      *)
LEMMA Remainders ==
    ASSUME NEW K \in Nat \ {0}
    PROVE  /\ \A r \in 0 .. K - 1 : r % K = r /\ (K + r) % K = r
           /\ \A x \in Int : (x - K) % K = x % K
           /\ K % K = 0
<1>1. ASSUME NEW r \in 0 .. K - 1 PROVE r % K = r /\ (K + r) % K = r
  <2>1. (K * 0 + r) % K = r /\ (K * 1 + r) % K = r BY RemainderUnique
  <2>2. K * 0 + r = r /\ K * 1 + r = K + r OBVIOUS
  <2> QED BY <2>1, <2>2
<1>2. ASSUME NEW x \in Int PROVE (x - K) % K = x % K
  <2> DEFINE q == x \div K
             r == x % K
  <2>1. x = K * q + r /\ r \in 0 .. K - 1 /\ q \in Int BY Euclid
  <2>2. q - 1 \in Int /\ x - K = K * (q - 1) + r
    <3> HIDE DEF q, r
    <3> QED BY <2>1, SMT
  <2>3. (K * (q - 1) + r) % K = r
    <3> HIDE DEF q, r
    <3> QED BY <2>1, <2>2, RemainderUnique
  <2> QED BY <2>2, <2>3
<1>3. K % K = 0
  <2>1. 0 \in 0 .. K - 1 OBVIOUS
  <2>2. (K + 0) % K = 0 BY <1>1, <2>1
  <2>3. K + 0 = K OBVIOUS
  <2> QED BY <2>2, <2>3
<1> QED BY <1>1, <1>2, <1>3

(**************************** concatenated bytes *****************************)

(* Concatenation is associative on bytes.                                     *)
LEMMA ThreeParts ==
    ASSUME NEW r \in Seq(Byte), NEW s \in Seq(Byte), NEW t \in Seq(Byte)
    PROVE  (r \o s) \o t = r \o (s \o t)
BY ConcatAssociative

(* Where the bytes of a concatenation come from.                              *)
LEMMA Concatenated ==
    ASSUME NEW s \in Seq(Byte), NEW t \in Seq(Byte)
    PROVE  /\ s \o t \in Seq(Byte) /\ Len(s \o t) = Len(s) + Len(t)
           /\ Len(s) \in Nat /\ Len(t) \in Nat
           /\ \A i \in 1 .. Len(s) : (s \o t)[i] = s[i]
           /\ \A j \in 1 .. Len(t) : (s \o t)[Len(s) + j] = t[j]
<1> DEFINE m == Len(s)
           n == Len(t)
<1>1. s \o t \in Seq(Byte) /\ Len(s \o t) = m + n BY ConcatProperties
<1>2. m \in Nat /\ n \in Nat BY LenProperties
<1>3. \A i \in 1 .. m + n : (s \o t)[i] = IF i <= m THEN s[i] ELSE t[i - m]
  BY ConcatProperties
<1>4. \A i \in 1 .. m : (s \o t)[i] = s[i] BY <1>2, <1>3
<1>5. ASSUME NEW j \in 1 .. n PROVE (s \o t)[m + j] = t[j]
  <2>1. m + j \in 1 .. m + n /\ ~(m + j <= m) /\ (m + j) - m = j BY <1>2
  <2> QED BY <1>3, <2>1
<1> QED BY <1>1, <1>2, <1>4, <1>5

(********************************** runs *************************************)

(* n is the number of equal bytes of s from k on.                             *)
IsRunLength(s, k, n) ==
    /\ n \in 1 .. Len(s) - k + 1
    /\ \A j \in k .. k + n - 1 : s[j] = s[k]
    /\ k + n <= Len(s) => s[k + n] # s[k]

(* The inner loop of compress_rle ends with such a number.                    *)
LEMMA RunLengthIs ==
    ASSUME NEW s \in Seq(Byte), NEW k \in 1 .. Len(s)
    PROVE  IsRunLength(s, k, RunLength(s, k))
<1> DEFINE last == Len(s) - k + 1
           T == {n \in Nat : n >= 1 /\ (k + n > Len(s) \/ s[k + n] # s[k])}
<1>1. Len(s) \in Nat /\ last \in Nat /\ last >= 1 BY LenProperties
<1>2. last \in T /\ T \subseteq Nat BY <1>1
<1>3. PICK n \in T : \A m \in T : n <= m
  <2> HIDE DEF T
  <2> QED BY <1>2, Least
<1>4. n \in 1 .. last
  <2>1. n \in Nat /\ n >= 1 OBVIOUS
  <2>2. n <= last BY <1>2, <1>3
  <2> QED BY <1>1, <2>1, <2>2
<1>5. ASSUME NEW j \in k .. k + n - 1 PROVE s[j] = s[k]
  <2>1. CASE j = k BY <2>1
  <2>2. CASE j # k
    <3>1. j - k \in Nat /\ j - k >= 1 /\ j - k < n /\ k + (j - k) = j BY <1>1, <1>4, <2>2
    <3>2. j - k \notin T
      <4>1. ~(n <= j - k) BY <1>1, <1>4, <3>1
      <4> HIDE DEF T
      <4> QED BY <1>3, <4>1
    <3> QED BY <3>1, <3>2
  <2> QED BY <2>1, <2>2
<1>6. k + n <= Len(s) => s[k + n] # s[k]
  <2>1. k + n > Len(s) \/ s[k + n] # s[k] OBVIOUS
  <2> QED BY <1>1, <1>4, <2>1
<1>7. \E m \in 1 .. Len(s) - k + 1 :
         /\ \A j \in k .. k + m - 1 : s[j] = s[k]
         /\ k + m <= Len(s) => s[k + m] # s[k]
  BY <1>4, <1>5, <1>6
<1> QED BY <1>7 DEF RunLength, IsRunLength

(* There is only one.                                                         *)
LEMMA RunLengthUnique ==
    ASSUME NEW s \in Seq(Byte), NEW k \in 1 .. Len(s), NEW n, IsRunLength(s, k, n)
    PROVE  n = RunLength(s, k)
<1> DEFINE m == RunLength(s, k)
<1>1. IsRunLength(s, k, m) BY RunLengthIs
<1> HIDE DEF m
<1>2. Len(s) \in Nat BY LenProperties
<1>3. m \in Nat /\ n \in Nat BY <1>1, <1>2 DEF IsRunLength
<1>4. ASSUME NEW a \in Nat, NEW b \in Nat, IsRunLength(s, k, a), IsRunLength(s, k, b)
      PROVE  ~(a < b)
  <2> SUFFICES ASSUME a < b PROVE FALSE OBVIOUS
  <2>1. k + a \in k .. k + b - 1 /\ k + a <= Len(s) BY <1>2, <1>4 DEF IsRunLength
  <2>2. s[k + a] = s[k] BY <1>4, <2>1 DEF IsRunLength
  <2>3. s[k + a] # s[k] BY <1>4, <2>1 DEF IsRunLength
  <2> QED BY <2>2, <2>3
<1>5. ~(m < n) /\ ~(n < m) BY <1>1, <1>3, <1>4
<1>6. n = m BY <1>3, <1>5
<1> QED BY <1>6 DEF m

(* The next byte of a run is one byte nearer to its end.                      *)
LEMMA RunLengthNext ==
    ASSUME NEW s \in Seq(Byte), NEW k \in 1 .. Len(s), k + 1 <= Len(s), s[k + 1] = s[k]
    PROVE  RunLength(s, k + 1) = RunLength(s, k) - 1
<1> DEFINE m == RunLength(s, k)
<1>1. IsRunLength(s, k, m) BY RunLengthIs
<1> HIDE DEF m
<1>2. Len(s) \in Nat BY LenProperties
<1>3. m \in Nat /\ m # 1 BY <1>1, <1>2 DEF IsRunLength
<1>4. m - 1 \in 1 .. Len(s) - (k + 1) + 1 BY <1>1, <1>2, <1>3 DEF IsRunLength
<1>5. \A j \in k + 1 .. k + 1 + (m - 1) - 1 : s[j] = s[k + 1]
  <2> SUFFICES ASSUME NEW j \in k + 1 .. k + 1 + (m - 1) - 1 PROVE s[j] = s[k + 1] OBVIOUS
  <2>1. j \in k .. k + m - 1 BY <1>2, <1>3
  <2> QED BY <1>1, <2>1 DEF IsRunLength
<1>6. k + 1 + (m - 1) <= Len(s) => s[k + 1 + (m - 1)] # s[k + 1]
  <2>1. k + 1 + (m - 1) = k + m BY <1>2, <1>3
  <2> QED BY <1>1, <2>1 DEF IsRunLength
<1>7. IsRunLength(s, k + 1, m - 1) BY <1>4, <1>5, <1>6 DEF IsRunLength
<1>8. m - 1 = RunLength(s, k + 1) BY <1>2, <1>7, RunLengthUnique
<1> QED BY <1>8 DEF m

(********************************* tokens ************************************)

(* What decompress_rle reads at position k of c: as in Rle, of any bytes.     *)
TagLength(c, k) == (c[k] % Flag) + (IF c[k] >= Flag THEN MinRun ELSE 1)
TagExtent(c, k) == IF c[k] >= Flag THEN 1 ELSE (c[k] % Flag) + 1
TagByte(c, k, j) == IF c[k] >= Flag THEN c[k + 1] ELSE c[k + j]

(* P are the positions in c at which a token begins, and the end of c; M says *)
(* how much of the text d has been decoded at each.                           *)
Tokens(c, d, P, M) ==
    /\ P \subseteq 1 .. Len(c) + 1 /\ 1 \in P /\ Len(c) + 1 \in P
    /\ M \in [P -> 0 .. Len(d)] /\ M[1] = 0 /\ M[Len(c) + 1] = Len(d)
    /\ \A k \in P \ {Len(c) + 1} :
          /\ k + 1 + TagExtent(c, k) \in P
          /\ M[k + 1 + TagExtent(c, k)] = M[k] + TagLength(c, k)
          /\ \A j \in 1 .. TagLength(c, k) : d[M[k] + j] = TagByte(c, k, j)

Decodes(c, d) == \E P, M : Tokens(c, d, P, M)

(* t is one token, of the bytes b.                                            *)
IsToken(t, b) ==
    /\ Len(t) >= 1 /\ Len(t) = 1 + TagExtent(t, 1)
    /\ Len(b) = TagLength(t, 1)
    /\ \A j \in 1 .. Len(b) : b[j] = TagByte(t, 1, j)

(* The numbers a tag stands for, of any byte.                                 *)
LEMMA TagNumbers ==
    ASSUME NEW c \in Seq(Byte), NEW k \in 1 .. Len(c)
    PROVE  /\ c[k] \in Nat /\ c[k] % Flag \in 0 .. Flag - 1
           /\ TagExtent(c, k) \in Nat \ {0} /\ TagLength(c, k) \in Nat \ {0}
           /\ c[k] < Flag => TagLength(c, k) = TagExtent(c, k)
<1>1. c[k] \in Byte BY ElementOfSeq
<1>2. c[k] \in Nat BY <1>1, Parameters
<1>3. c[k] % Flag \in 0 .. Flag - 1
  <2>1. \A x \in Int, K \in Nat \ {0} : x % K \in 0 .. K - 1 BY Euclid
  <2>2. c[k] \in Int BY <1>2
  <2> QED BY <2>1, <2>2, Parameters
<1>4. ~(c[k] >= Flag /\ c[k] < Flag) BY <1>2, Parameters
<1> DEFINE low == c[k] % Flag
<1>5. low \in Nat /\ low >= 0 /\ MinRun \in Nat \ {0}
  <2>1. Flag \in Nat /\ MinRun \in Nat \ {0} BY Parameters
  <2>2. low \in 0 .. Flag - 1 BY <1>3
  <2> HIDE DEF low
  <2> QED BY <2>1, <2>2
<1>6. /\ TagExtent(c, k) = (IF c[k] >= Flag THEN 1 ELSE low + 1)
      /\ TagLength(c, k) = low + (IF c[k] >= Flag THEN MinRun ELSE 1)
  BY DEF TagExtent, TagLength
<1> HIDE DEF low
<1>7. TagExtent(c, k) \in Nat \ {0} /\ TagLength(c, k) \in Nat \ {0}
  BY <1>5, <1>6
<1>8. c[k] < Flag => TagLength(c, k) = TagExtent(c, k)
  BY <1>4, <1>6, Zenon
<1> QED BY <1>2, <1>3, <1>7, <1>8

(* Nothing decodes to nothing, and to nothing else.                           *)
LEMMA NothingDecodes ==
    /\ Decodes(<<>>, <<>>)
    /\ \A d \in Seq(Byte) : Decodes(<<>>, d) => Len(d) = 0
<1>1. Tokens(<<>>, <<>>, {1}, [p \in {1} |-> 0]) BY DEF Tokens
<1>2. ASSUME NEW d \in Seq(Byte), Decodes(<<>>, d) PROVE Len(d) = 0
  <2>1. PICK P, M : Tokens(<<>>, d, P, M) BY <1>2 DEF Decodes
  <2>2. Len(<<>>) + 1 = 1 OBVIOUS
  <2> QED BY <2>1, <2>2 DEF Tokens
<1> QED BY <1>1, <1>2 DEF Decodes

(* A token written behind what decodes to d adds its bytes.                   *)
LEMMA TokenAdded ==
    ASSUME NEW c \in Seq(Byte), NEW d \in Seq(Byte), NEW t \in Seq(Byte), NEW b \in Seq(Byte),
           Decodes(c, d), IsToken(t, b)
    PROVE  Decodes(c \o t, d \o b)
<1> DEFINE ct == c \o t
           db == d \o b
<1>1. PICK P, M : Tokens(c, d, P, M) BY DEF Decodes
<1> DEFINE old == Len(c) + 1
           new == Len(ct) + 1
           P2 == P \cup {new}
           M2 == [p \in P2 |-> IF p \in P THEN M[p] ELSE Len(db)]
<1>2. /\ ct \in Seq(Byte) /\ Len(ct) = Len(c) + Len(t)
      /\ Len(c) \in Nat /\ Len(t) \in Nat
      /\ \A i \in 1 .. Len(c) : ct[i] = c[i]
      /\ \A j \in 1 .. Len(t) : ct[Len(c) + j] = t[j]
  BY Concatenated
<1>3. /\ db \in Seq(Byte) /\ Len(db) = Len(d) + Len(b)
      /\ Len(d) \in Nat /\ Len(b) \in Nat
      /\ \A i \in 1 .. Len(d) : db[i] = d[i]
      /\ \A j \in 1 .. Len(b) : db[Len(d) + j] = b[j]
  BY Concatenated
<1> HIDE DEF ct, db
<1>0. /\ Len(c) \in Nat /\ Len(t) \in Nat /\ Len(ct) = Len(c) + Len(t)
      /\ Len(d) \in Nat /\ Len(b) \in Nat /\ Len(db) = Len(d) + Len(b)
  BY <1>2, <1>3
<1>4. 1 \in 1 .. Len(t) /\ Len(t) = 1 + TagExtent(t, 1) /\ Len(b) = TagLength(t, 1)
  BY <1>2 DEF IsToken
<1>5. /\ P \subseteq 1 .. old /\ 1 \in P /\ old \in P
      /\ M \in [P -> 0 .. Len(d)] /\ M[1] = 0 /\ M[old] = Len(d)
  BY <1>1 DEF Tokens
<1>6. new = old + Len(t) /\ old < new /\ new \notin P
  <2>1. new = old + Len(t) /\ old < new /\ old \in Nat BY <1>0, <1>4
  <2>2. \A p \in P : p <= old BY <1>5
  <2> HIDE DEF new, old
  <2> QED BY <2>1, <2>2
<1>7. P2 \subseteq 1 .. new /\ 1 \in P2 /\ new \in P2
  <2>1. old \in Nat /\ new \in Nat /\ new >= 1 BY <1>0
  <2>2. \A p \in P : p \in 1 .. old BY <1>5
  <2>3. \A p \in P : p \in 1 .. new
    <3> HIDE DEF new, old
    <3> QED BY <1>6, <2>1, <2>2
  <2>4. new \in 1 .. new BY <2>1
  <2> HIDE DEF new
  <2> QED BY <1>5, <2>3, <2>4
<1>8. \A p \in P : M[p] \in 0 .. Len(d) /\ M2[p] = M[p] BY <1>5
<1>9. M2[new] = Len(db) BY <1>6
<1>10. M2 \in [P2 -> 0 .. Len(db)]
  <2>1. ASSUME NEW p \in P2 PROVE M2[p] \in 0 .. Len(db)
    <3>1. CASE p \in P BY <1>3, <1>8, <3>1
    <3>2. CASE p = new BY <1>3, <1>9, <3>2
    <3> QED BY <3>1, <3>2
  <2> QED BY <2>1
<1>11. M2[1] = 0 BY <1>5, <1>8
<1>12. ASSUME NEW k \in P2 \ {new}
       PROVE  /\ k + 1 + TagExtent(ct, k) \in P2
              /\ M2[k + 1 + TagExtent(ct, k)] = M2[k] + TagLength(ct, k)
              /\ \A j \in 1 .. TagLength(ct, k) : db[M2[k] + j] = TagByte(ct, k, j)
  <2>1. k \in P /\ k \in 1 .. old BY <1>5
  <2> HIDE DEF P2, M2, new
  <2>2. CASE k # old
    <3> DEFINE e == TagExtent(c, k)
               n == TagLength(c, k)
    <3>1. k \in 1 .. Len(c) BY <1>2, <2>1, <2>2
    <3>2. c[k] \in Nat /\ e \in Nat \ {0} /\ n \in Nat \ {0} /\ (c[k] < Flag => n = e)
      BY <3>1, TagNumbers
    <3>3. /\ k + 1 + e \in P /\ M[k + 1 + e] = M[k] + n
          /\ \A j \in 1 .. n : d[M[k] + j] = TagByte(c, k, j)
      BY <1>1, <2>1, <2>2 DEF Tokens
    <3>4. ct[k] = c[k] BY <1>2, <3>1
    <3>5. TagExtent(ct, k) = e /\ TagLength(ct, k) = n BY <3>4 DEF TagExtent, TagLength
    <3> HIDE DEF e, n
    <3>6. k + e <= Len(c) BY <1>2, <1>5, <2>1, <3>2, <3>3
    <3>7. k + 1 + e \in P2 /\ M2[k + 1 + e] = M[k + 1 + e] /\ M2[k] = M[k]
      BY <1>8, <2>1, <3>3 DEF P2
    <3>8. ASSUME NEW j \in 1 .. n PROVE db[M2[k] + j] = TagByte(ct, k, j)
      <4>1. M[k] + j \in 1 .. Len(d)
        <5>1. M[k] \in 0 .. Len(d) /\ M[k] + n \in 0 .. Len(d) BY <1>8, <2>1, <3>3
        <5> DEFINE a == M[k]
        <5>2. j \in 1 .. n /\ n \in Nat /\ Len(d) \in Nat BY <1>0, <3>2
        <5> HIDE DEF a
        <5> QED BY <5>1, <5>2 DEF a
      <4>2. db[M[k] + j] = TagByte(c, k, j) BY <1>3, <3>3, <4>1
      <4>3. TagByte(c, k, j) = TagByte(ct, k, j)
        <5>1. CASE c[k] >= Flag
          <6>1. k + 1 \in 1 .. Len(c) BY <1>2, <2>1, <3>2, <3>6
          <6> QED BY <1>2, <3>4, <5>1, <6>1 DEF TagByte
        <5>2. CASE ~(c[k] >= Flag)
          <6>0. c[k] < Flag BY <3>2, <5>2, Parameters
          <6>1. k + j \in 1 .. Len(c) BY <1>0, <2>1, <3>2, <3>6, <6>0
          <6> QED BY <1>2, <3>4, <5>2, <6>1 DEF TagByte
        <5> QED BY <5>1, <5>2
      <4> QED BY <3>7, <4>2, <4>3
    <3> QED BY <3>3, <3>5, <3>7, <3>8
  <2>3. CASE k = old
    <3>1. ct[k] = t[1] BY <1>2, <1>4, <2>3
    <3>2. TagExtent(ct, k) = TagExtent(t, 1) /\ TagLength(ct, k) = TagLength(t, 1)
      BY <3>1 DEF TagExtent, TagLength
    <3>3. k + 1 + TagExtent(ct, k) = new
      <4>1. TagExtent(t, 1) = Len(t) - 1 BY <1>2, <1>4, TagNumbers
      <4> QED BY <1>2, <1>6, <2>3, <3>2, <4>1
    <3>4. M2[k] = Len(d) BY <1>5, <1>8, <2>3
    <3>5. M2[new] = M2[k] + TagLength(ct, k) BY <1>3, <1>4, <1>9, <3>2, <3>4
    <3>6. ASSUME NEW j \in 1 .. Len(b) PROVE db[Len(d) + j] = TagByte(ct, k, j)
      <4>1. db[Len(d) + j] = TagByte(t, 1, j) BY <1>3 DEF IsToken
      <4>2. /\ t[1] \in Nat /\ TagExtent(t, 1) \in Nat \ {0}
            /\ t[1] < Flag => TagLength(t, 1) = TagExtent(t, 1)
        BY <1>4, TagNumbers
      <4>3. CASE t[1] >= Flag
        <5>1. 2 \in 1 .. Len(t)
          <6>1. Len(t) = 1 + TagExtent(t, 1) BY DEF IsToken
          <6>2. TagExtent(t, 1) \in Nat /\ TagExtent(t, 1) >= 1 BY <4>2
          <6> QED BY <6>1, <6>2
        <5>2. ct[Len(c) + 2] = t[2] BY <1>2, <5>1
        <5>3. k + 1 = Len(c) + 2 /\ 1 + 1 = 2 BY <1>2, <2>3
        <5> QED BY <3>1, <4>1, <4>3, <5>2, <5>3 DEF TagByte
      <4>4. CASE ~(t[1] >= Flag)
        <5>0. t[1] < Flag BY <4>2, <4>4, Parameters
        <5>1. 1 + j \in 1 .. Len(t) BY <1>0, <1>4, <4>2, <5>0
        <5>2. ct[Len(c) + (1 + j)] = t[1 + j] BY <1>2, <5>1
        <5>3. k + j = Len(c) + (1 + j) BY <1>2, <1>3, <2>3
        <5> QED BY <3>1, <4>1, <4>4, <5>2, <5>3 DEF TagByte
      <4> QED BY <4>3, <4>4
    <3> QED BY <1>4, <1>7, <3>2, <3>3, <3>4, <3>5, <3>6
  <2> QED BY <2>2, <2>3
<1>13. Tokens(ct, db, P2, M2)
  <2> HIDE DEF P2, M2
  <2> QED BY <1>7, <1>9, <1>10, <1>11, <1>12 DEF Tokens
<1>14. Decodes(ct, db)
  <2> HIDE DEF P2, M2
  <2> QED BY <1>13 DEF Decodes
<1> QED BY <1>14 DEF ct, db

(* What flush_literal_buffer writes is a token of the literals.               *)
LEMMA LiteralsAreAToken ==
    ASSUME NEW lit \in Seq(Byte), Len(lit) \in 1 .. LiteralMax
    PROVE  /\ <<LiteralTag(Len(lit))>> \o lit \in Seq(Byte)
           /\ IsToken(<<LiteralTag(Len(lit))>> \o lit, lit)
<1> DEFINE n == Len(lit)
           tag == LiteralTag(n)
           t == <<tag>> \o lit
<1>1. n - 1 \in 0 .. Flag - 1 BY Parameters
<1>2. \A r \in 0 .. Flag - 1 : r % Flag = r BY Parameters, Remainders
<1>3. tag = n - 1 /\ tag % Flag = n - 1 BY <1>1, <1>2 DEF LiteralTag
<1>4. tag \in Byte /\ ~(tag >= Flag) BY <1>1, <1>3, Parameters
<1> HIDE DEF tag
<1>5. <<tag>> \in Seq(Byte) /\ Len(<<tag>>) = 1 /\ <<tag>>[1] = tag BY <1>4
<1>6. /\ t \in Seq(Byte) /\ Len(t) = 1 + n
      /\ t[1] = tag /\ \A j \in 1 .. n : t[1 + j] = lit[j]
  <2>1. /\ t \in Seq(Byte) /\ Len(t) = Len(<<tag>>) + n
        /\ \A i \in 1 .. Len(<<tag>>) : t[i] = <<tag>>[i]
        /\ \A j \in 1 .. n : t[Len(<<tag>>) + j] = lit[j]
    BY <1>5, Concatenated
  <2> HIDE DEF t
  <2> QED BY <1>5, <2>1
<1> HIDE DEF t
<1>7. TagExtent(t, 1) = n /\ TagLength(t, 1) = n
  BY <1>1, <1>3, <1>4, <1>6 DEF TagExtent, TagLength
<1>8. IsToken(t, lit)
  <2>1. \A j \in 1 .. n : lit[j] = TagByte(t, 1, j) BY <1>4, <1>6 DEF TagByte
  <2> QED BY <1>1, <1>6, <1>7, <2>1 DEF IsToken
<1> QED BY <1>6, <1>8 DEF t, tag

(* What is written for a part of a run is a token of n bytes, or of more when *)
(* n is less than a run.                                                      *)
LEMMA RunIsAToken ==
    ASSUME NEW x \in Byte, NEW n \in 1 .. MaxRunChunk
    PROVE  /\ <<RunTag(n), x>> \in Seq(Byte) /\ Len(<<RunTag(n), x>>) = 2
           /\ \E b \in Seq(Byte) :
                 /\ IsToken(<<RunTag(n), x>>, b)
                 /\ \A j \in 1 .. Len(b) : b[j] = x
                 /\ n >= MinRun => Len(b) = n
                 /\ n < MinRun => Len(b) > n
<1> DEFINE tag == RunTag(n)
           m == (n - MinRun) % Flag
           t == <<tag, x>>
           b == [j \in 1 .. m + MinRun |-> x]
<1>1. n \in Nat /\ n - MinRun \in Int BY Parameters
<1>2. m \in 0 .. Flag - 1
  <2>1. \A y \in Int, K \in Nat \ {0} : y % K \in 0 .. K - 1 BY Euclid
  <2> QED BY <1>1, <2>1, Parameters
<1>3. tag = Flag + m BY DEF RunTag
<1>4. n >= MinRun => m = n - MinRun
  <2>1. \A r \in 0 .. Flag - 1 : r % Flag = r BY Parameters, Remainders
  <2>2. n >= MinRun => n - MinRun \in 0 .. Flag - 1 BY <1>1, Parameters
  <2> QED BY <2>1, <2>2
<1> HIDE DEF m
<1>5. tag % Flag = m
  <2>1. \A r \in 0 .. Flag - 1 : (Flag + r) % Flag = r BY Parameters, Remainders
  <2> QED BY <1>2, <1>3, <2>1
<1>6. tag \in Byte /\ tag >= Flag BY <1>2, <1>3, Parameters
<1> HIDE DEF tag
<1>7. t \in Seq(Byte) /\ Len(t) = 2 /\ t[1] = tag /\ t[2] = x BY <1>6
<1>8. b \in Seq(Byte) /\ Len(b) = m + MinRun /\ \A j \in 1 .. Len(b) : b[j] = x
  <2>1. m + MinRun \in Nat BY <1>2, Parameters
  <2>2. \A j \in 1 .. m + MinRun : b[j] = x OBVIOUS
  <2>3. b \in [1 .. m + MinRun -> Byte] OBVIOUS
  <2>4. b \in Seq(Byte) BY <2>1, <2>3, SMT
  <2>5. DOMAIN b = 1 .. m + MinRun OBVIOUS
  <2>6. Len(b) \in Nat /\ DOMAIN b = 1 .. Len(b) BY <2>4, LenProperties
  <2>7. Len(b) = m + MinRun
    <3> HIDE DEF b
    <3> QED BY <2>1, <2>5, <2>6
  <2> QED BY <2>2, <2>4, <2>7
<1> HIDE DEF t, b
<1>9. TagExtent(t, 1) = 1 /\ TagLength(t, 1) = m + MinRun
  BY <1>5, <1>6, <1>7 DEF TagExtent, TagLength
<1>10. IsToken(t, b)
  <2>1. \A j \in 1 .. Len(b) : b[j] = TagByte(t, 1, j) BY <1>6, <1>7, <1>8 DEF TagByte
  <2> QED BY <1>7, <1>8, <1>9, <2>1 DEF IsToken
<1>11. (n >= MinRun => Len(b) = n) /\ (n < MinRun => Len(b) > n)
  BY <1>1, <1>2, <1>4, <1>8, Parameters
<1> QED BY <1>7, <1>8, <1>10, <1>11 DEF t, tag

(* What flushing the literals writes, and what it then decodes to.            *)
Held(lit) == IF lit = <<>> THEN 0 ELSE 1 + Len(lit)

LEMMA FlushedDecodes ==
    ASSUME NEW c \in Seq(Byte), NEW d \in Seq(Byte), NEW lit \in Seq(Byte),
           Decodes(c, d), Len(lit) <= LiteralMax
    PROVE  /\ Flushed(c, lit) \in Seq(Byte) /\ Len(Flushed(c, lit)) = Len(c) + Held(lit)
           /\ d \o lit \in Seq(Byte) /\ Decodes(Flushed(c, lit), d \o lit)
<1>1. Len(c) \in Nat /\ Len(lit) \in Nat /\ d \o lit \in Seq(Byte)
  BY LenProperties, ConcatProperties
<1>2. CASE lit = <<>>
  <2>1. d \o lit = d BY <1>2, ConcatEmptySeq
  <2> QED BY <1>1, <1>2, <2>1 DEF Flushed, Held
<1>3. CASE lit # <<>>
  <2> DEFINE tag == LiteralTag(Len(lit))
             t == <<tag>> \o lit
  <2>1. Len(lit) \in 1 .. LiteralMax
    <3>1. Len(lit) # 0 BY <1>3, EmptySeq
    <3> QED BY <1>1, <3>1, Parameters
  <2>2. t \in Seq(Byte) /\ IsToken(t, lit) BY <2>1, LiteralsAreAToken
  <2>3. tag \in Byte
    <3>1. \A r \in Int, K \in Nat \ {0} : r % K \in 0 .. K - 1 BY Euclid
    <3>2. Len(lit) - 1 \in Int BY <1>1
    <3>3. (Len(lit) - 1) % Flag \in 0 .. Flag - 1 BY <3>1, <3>2, Parameters
    <3>4. ASSUME NEW b \in 0 .. Flag - 1 PROVE b \in Byte
      <4>1. b \in Nat /\ b < 2 * Flag BY Parameters
      <4> QED BY <4>1, Parameters
    <3>5. tag = (Len(lit) - 1) % Flag BY DEF LiteralTag
    <3> HIDE DEF tag
    <3> QED BY <3>3, <3>4, <3>5
  <2>4. Flushed(c, lit) = c \o t
    <3>1. Flushed(c, lit) = (c \o <<tag>>) \o lit BY <1>3 DEF Flushed
    <3> HIDE DEF tag
    <3>2. <<tag>> \in Seq(Byte) BY <2>3
    <3>3. (c \o <<tag>>) \o lit = c \o (<<tag>> \o lit)
      <4>1. \A one \in Seq(Byte) : (c \o one) \o lit = c \o (one \o lit) BY ThreeParts
      <4> QED BY <3>2, <4>1, Zenon
    <3> QED BY <3>1, <3>3, Zenon
  <2>5. Len(t) = 1 + Len(lit)
    <3> HIDE DEF tag
    <3>1. <<tag>> \in Seq(Byte) /\ Len(<<tag>>) = 1 BY <2>3
    <3> QED BY <3>1, ConcatProperties
  <2> HIDE DEF t
  <2>6. c \o t \in Seq(Byte) /\ Len(c \o t) = Len(c) + Len(t) BY <2>2, ConcatProperties
  <2>7. Decodes(c \o t, d \o lit) BY <2>2, TokenAdded
  <2> QED BY <1>1, <1>3, <2>4, <2>5, <2>6, <2>7 DEF Held
<1> QED BY <1>2, <1>3

(* A token that is whole, where it stands.                                    *)
LEMMA TokenInPlace ==
    ASSUME NEW c \in Seq(Byte), NEW k \in 1 .. Len(c), k + TagExtent(c, k) <= Len(c)
    PROVE  /\ SubSeq(c, 1, k - 1) \in Seq(Byte)
           /\ SubSeq(c, k, k + TagExtent(c, k)) \in Seq(Byte)
           /\ SubSeq(c, 1, k - 1) \o SubSeq(c, k, k + TagExtent(c, k))
                = SubSeq(c, 1, k + TagExtent(c, k))
           /\ \E b \in Seq(Byte) :
                 /\ IsToken(SubSeq(c, k, k + TagExtent(c, k)), b)
                 /\ Len(b) = TagLength(c, k)
                 /\ \A j \in 1 .. Len(b) : b[j] = TagByte(c, k, j)
<1> DEFINE e == TagExtent(c, k)
           n == TagLength(c, k)
           t == SubSeq(c, k, k + e)
           b == [j \in 1 .. n |-> TagByte(c, k, j)]
<1>1. Len(c) \in Nat BY LenProperties
<1>2. c[k] \in Nat /\ e \in Nat \ {0} /\ n \in Nat \ {0} /\ (c[k] < Flag => n = e)
  BY TagNumbers
<1>3. k + e <= Len(c) OBVIOUS
<1> HIDE DEF e, n
<1>4. \A i \in 1 .. Len(c) : c[i] \in Byte BY ElementOfSeq
<1>5. SubSeq(c, 1, k - 1) \in Seq(Byte)
  <2>1. \A i \in 1 .. k - 1 : c[i] \in Byte BY <1>1, <1>4
  <2>2. 1 \in Int /\ k - 1 \in Int BY <1>1
  <2> QED BY <2>1, <2>2, SubSeqProperties
<1>6. /\ t \in Seq(Byte) /\ Len(t) = 1 + e
      /\ \A i \in 1 .. 1 + e : t[i] = c[k + i - 1]
  <2>1. \A i \in k .. k + e : c[i] \in Byte BY <1>1, <1>2, <1>3, <1>4
  <2>2. k \in Int /\ k + e \in Int /\ k <= k + e /\ (k + e) - k + 1 = 1 + e BY <1>1, <1>2
  <2>3. /\ t \in Seq(Byte)
        /\ Len(t) = IF k <= k + e THEN (k + e) - k + 1 ELSE 0
        /\ \A i \in 1 .. (k + e) - k + 1 : t[i] = c[k + i - 1]
    BY <2>1, <2>2, SubSeqProperties
  <2> HIDE DEF t
  <2> QED BY <2>2, <2>3
<1>7. SubSeq(c, 1, k - 1) \o t = SubSeq(c, 1, k + e)
  <2>1. 1 \in 1 .. Len(c) + 1 /\ k - 1 \in 1 - 1 .. Len(c) /\ k + e \in k - 1 .. Len(c)
    BY <1>1, <1>2, <1>3
  <2>2. SubSeq(c, 1, k - 1) \o SubSeq(c, (k - 1) + 1, k + e) = SubSeq(c, 1, k + e)
    BY <2>1, ConcatAdjacentSubSeq
  <2>3. (k - 1) + 1 = k BY <1>1
  <2> QED BY <2>2, <2>3
<1> HIDE DEF t
<1>8. ASSUME NEW j \in 1 .. n PROVE TagByte(c, k, j) \in Byte /\ TagByte(c, k, j) = TagByte(t, 1, j)
  <2>1. t[1] = c[k]
    <3>1. 1 \in 1 .. 1 + e /\ k + 1 - 1 = k BY <1>1, <1>2
    <3>2. t[1] = c[k + 1 - 1] BY <1>6, <3>1
    <3> QED BY <3>1, <3>2
  <2>2. CASE c[k] >= Flag
    <3>1. 1 + 1 \in 1 .. 1 + e /\ k + (1 + 1) - 1 = k + 1 /\ k + 1 \in 1 .. Len(c)
      BY <1>1, <1>2, <1>3
    <3>2. t[1 + 1] = c[k + (1 + 1) - 1] BY <1>6, <3>1
    <3> QED BY <1>4, <2>1, <2>2, <3>1, <3>2 DEF TagByte
  <2>3. CASE ~(c[k] >= Flag)
    <3>0. n = e BY <1>2, <2>3, Parameters
    <3>1. 1 + j \in 1 .. 1 + e /\ k + (1 + j) - 1 = k + j /\ k + j \in 1 .. Len(c)
      BY <1>1, <1>2, <1>3, <3>0
    <3>2. t[1 + j] = c[k + (1 + j) - 1] BY <1>6, <3>1
    <3> QED BY <1>4, <2>1, <2>3, <3>1, <3>2 DEF TagByte
  <2> QED BY <2>2, <2>3
<1>9. b \in Seq(Byte) /\ Len(b) = n /\ \A j \in 1 .. n : b[j] = TagByte(c, k, j)
  <2>1. \A j \in 1 .. n : b[j] = TagByte(c, k, j) OBVIOUS
  <2>2. b \in [1 .. n -> Byte] BY <1>8
  <2>3. b \in Seq(Byte) BY <1>2, <2>2, SMT
  <2>4. DOMAIN b = 1 .. n OBVIOUS
  <2>5. Len(b) \in Nat /\ DOMAIN b = 1 .. Len(b) BY <2>3, LenProperties
  <2>6. Len(b) = n
    <3> HIDE DEF b
    <3> QED BY <1>2, <2>4, <2>5
  <2> QED BY <2>1, <2>3, <2>6
<1> HIDE DEF b
<1>10. IsToken(t, b)
  <2>1. t[1] = c[k]
    <3>1. 1 \in 1 .. 1 + e /\ k + 1 - 1 = k BY <1>1, <1>2
    <3>2. t[1] = c[k + 1 - 1] BY <1>6, <3>1
    <3> QED BY <3>1, <3>2
  <2>2. TagExtent(t, 1) = e /\ TagLength(t, 1) = n BY <2>1 DEF TagExtent, TagLength, e, n
  <2>3. \A j \in 1 .. Len(b) : b[j] = TagByte(t, 1, j) BY <1>8, <1>9
  <2> QED BY <1>2, <1>6, <1>9, <2>2, <2>3 DEF IsToken
<1> QED BY <1>5, <1>6, <1>7, <1>9, <1>10 DEF e, n, t

(******************************** the image **********************************)

(* A run of s before k leaves a remainder that is shorter than a run: of the  *)
(* whole input, ShortRemainder.                                               *)
ShortAt(s, j) ==
    /\ BeginsRun(s, j)
    /\ RunLength(s, j) > MaxRunChunk
    /\ RunLength(s, j) % MaxRunChunk \in 1 .. MinRun - 1

ShortBefore(s, k) == \E j \in 1 .. Len(s) : j < k /\ ShortAt(s, j)

(* d is what becomes of the first n bytes of s: these bytes, or more than n   *)
(* when a run before k went wrong.                                            *)
Image(s, d, k, n) ==
    /\ ShortBefore(s, k) => Len(d) > n
    /\ ~ShortBefore(s, k) => Len(d) = n /\ \A j \in 1 .. n : d[j] = s[j]

(* Before the first byte.                                                     *)
LEMMA ImageOfNothing ==
    ASSUME NEW s \in Seq(Byte)
    PROVE  Image(s, <<>>, 1, 0)
BY DEF Image, ShortBefore

(* Bytes of the input make the image longer.                                  *)
LEMMA ImageExtended ==
    ASSUME NEW s \in Seq(Byte), NEW d \in Seq(Byte), NEW b \in Seq(Byte),
           NEW k \in Nat, NEW n \in Nat, Image(s, d, k, n),
           \A j \in 1 .. Len(b) : b[j] = s[n + j]
    PROVE  Image(s, d \o b, k, n + Len(b))
<1> DEFINE e == d \o b
           m == Len(b)
<1>1. /\ Len(e) = Len(d) + m /\ Len(d) \in Nat /\ m \in Nat
      /\ \A i \in 1 .. Len(d) : e[i] = d[i]
      /\ \A j \in 1 .. m : e[Len(d) + j] = b[j]
  BY Concatenated
<1> HIDE DEF e
<1>2. ShortBefore(s, k) => Len(e) > n + m
  <2>1. ShortBefore(s, k) => Len(d) > n BY DEF Image
  <2> QED BY <1>1, <2>1
<1>3. ASSUME ~ShortBefore(s, k)
      PROVE  Len(e) = n + m /\ \A j \in 1 .. n + m : e[j] = s[j]
  <2>1. Len(d) = n /\ \A j \in 1 .. n : d[j] = s[j] BY <1>3 DEF Image
  <2>2. ASSUME NEW j \in 1 .. n + m PROVE e[j] = s[j]
    <3>1. CASE j <= n
      <4>1. j \in 1 .. n BY <3>1
      <4> QED BY <1>1, <2>1, <4>1
    <3>2. CASE ~(j <= n)
      <4>1. j - n \in 1 .. m /\ n + (j - n) = j BY <1>1, <3>2
      <4>2. e[n + (j - n)] = b[j - n] /\ b[j - n] = s[n + (j - n)] BY <1>1, <2>1, <4>1
      <4> QED BY <4>1, <4>2
    <3> QED BY <3>1, <3>2
  <2> QED BY <1>1, <2>1, <2>2
<1> QED BY <1>2, <1>3 DEF Image, e

(* What is read next may be added to what is to be checked, when no run that  *)
(* went wrong begins there.                                                   *)
LEMMA ImageMoved ==
    ASSUME NEW s, NEW d, NEW k \in Nat, NEW l \in Nat, NEW n, k <= l, Image(s, d, k, n),
           \A j \in k .. l - 1 : ~ShortAt(s, j)
    PROVE  Image(s, d, l, n)
<1>1. ShortBefore(s, k) <=> ShortBefore(s, l)
  <2>1. ASSUME NEW j \in 1 .. Len(s), j < l, ShortAt(s, j) PROVE j < k
    <3>1. ~(j \in k .. l - 1) BY <2>1
    <3>2. j \in Int OBVIOUS
    <3> QED BY <2>1, <3>1, <3>2
  <2>2. ASSUME NEW j \in 1 .. Len(s), j < k PROVE j < l BY <2>2
  <2> QED BY <2>1, <2>2 DEF ShortBefore
<1> QED BY <1>1 DEF Image

(* The bytes of a run but the first begin no run, and after its last byte one *)
(* begins.                                                                    *)
LEMMA InsideARun ==
    ASSUME NEW s \in Seq(Byte), NEW k \in 1 .. Len(s)
    PROVE  /\ RunLength(s, k) \in 1 .. Len(s) - k + 1
           /\ \A j \in k .. k + RunLength(s, k) - 1 : s[j] = s[k]
           /\ \A j \in k + 1 .. k + RunLength(s, k) - 1 : ~BeginsRun(s, j)
           /\ k + RunLength(s, k) <= Len(s) => BeginsRun(s, k + RunLength(s, k))
<1> DEFINE n == RunLength(s, k)
<1>1. IsRunLength(s, k, n) BY RunLengthIs
<1> HIDE DEF n
<1>2. /\ Len(s) \in Nat /\ n \in 1 .. Len(s) - k + 1
      /\ \A j \in k .. k + n - 1 : s[j] = s[k]
      /\ k + n <= Len(s) => s[k + n] # s[k]
  BY <1>1, LenProperties DEF IsRunLength
<1>3. ASSUME NEW j \in k + 1 .. k + n - 1 PROVE ~BeginsRun(s, j)
  <2>1. j \in k .. k + n - 1 /\ j - 1 \in k .. k + n - 1 /\ j # 1 BY <1>2
  <2>2. s[j] = s[k] /\ s[j - 1] = s[k] BY <1>2, <2>1
  <2> QED BY <2>1, <2>2 DEF BeginsRun
<1>4. ASSUME k + n <= Len(s) PROVE BeginsRun(s, k + n)
  <2>1. k + n - 1 \in k .. k + n - 1 BY <1>2
  <2>2. s[k + n - 1] = s[k] BY <1>2, <2>1
  <2> QED BY <1>2, <1>4, <2>2 DEF BeginsRun
<1> QED BY <1>2, <1>3, <1>4 DEF n

(* A literal: a byte that begins less than a run.                             *)
LEMMA ImageOfByte ==
    ASSUME NEW s \in Seq(Byte), NEW d \in Seq(Byte), NEW k \in 1 .. Len(s),
           Image(s, d, k, k - 1), RunLength(s, k) < MinRun
    PROVE  /\ d \o <<s[k]>> \in Seq(Byte) /\ Image(s, d \o <<s[k]>>, k + 1, k)
           /\ k + 1 <= Len(s) /\ RunLength(s, k + 1) >= MinRun => BeginsRun(s, k + 1)
<1>1. s[k] \in Byte /\ Len(s) \in Nat /\ k \in Nat /\ k - 1 \in Nat
  BY ElementOfSeq, LenProperties
<1>2. /\ <<s[k]>> \in Seq(Byte) /\ Len(<<s[k]>>) = 1
      /\ \A j \in 1 .. Len(<<s[k]>>) : <<s[k]>>[j] = s[(k - 1) + j]
  BY <1>1
<1>3. Image(s, d \o <<s[k]>>, k, (k - 1) + Len(<<s[k]>>)) BY <1>1, <1>2, ImageExtended
<1>4. (k - 1) + Len(<<s[k]>>) = k BY <1>1, <1>2
<1>5. Image(s, d \o <<s[k]>>, k, k) BY <1>3, <1>4
<1>6. RunLength(s, k) \in Nat
  <2>1. RunLength(s, k) \in 1 .. Len(s) - k + 1 BY InsideARun
  <2> QED BY <1>1, <2>1
<1>7. ~ShortAt(s, k) BY <1>6, Parameters DEF ShortAt
<1>8. \A j \in k .. (k + 1) - 1 : j = k BY <1>1
<1>9. \A j \in k .. (k + 1) - 1 : ~ShortAt(s, j) BY <1>7, <1>8
<1>10. Image(s, d \o <<s[k]>>, k + 1, k)
  <2>1. k + 1 \in Nat /\ k <= k + 1 BY <1>1
  <2> QED BY <1>1, <1>5, <1>9, <2>1, ImageMoved
<1>11. ASSUME k + 1 <= Len(s), RunLength(s, k + 1) >= MinRun PROVE BeginsRun(s, k + 1)
  <2>1. CASE s[k + 1] = s[k]
    <3>1. RunLength(s, k + 1) = RunLength(s, k) - 1 BY <1>1, <1>11, <2>1, RunLengthNext
    <3> QED BY <1>6, <1>11, <3>1, Parameters
  <2>2. CASE s[k + 1] # s[k]
    <3>1. (k + 1) - 1 = k BY <1>1
    <3> QED BY <2>2, <3>1 DEF BeginsRun
  <2> QED BY <2>1, <2>2
<1> QED BY <1>2, <1>10, <1>11, ConcatProperties

(* A part of a run that is not its end.                                       *)
LEMMA ImageOfPart ==
    ASSUME NEW s \in Seq(Byte), NEW d \in Seq(Byte), NEW b \in Seq(Byte),
           NEW k \in 1 .. Len(s), NEW n \in Nat, Image(s, d, k, n),
           k - 1 <= n, n + Len(b) <= k - 1 + RunLength(s, k),
           \A j \in 1 .. Len(b) : b[j] = s[k]
    PROVE  Image(s, d \o b, k, n + Len(b))
<1>1. Len(s) \in Nat /\ Len(b) \in Nat /\ k \in Nat BY LenProperties
<1> DEFINE r == RunLength(s, k)
<1>2. r \in 1 .. Len(s) - k + 1 /\ \A j \in k .. k + r - 1 : s[j] = s[k] BY InsideARun
<1>3. n + Len(b) <= k - 1 + r OBVIOUS
<1> HIDE DEF r
<1>4. ASSUME NEW j \in 1 .. Len(b) PROVE b[j] = s[n + j]
  <2>1. n + j \in k .. k + r - 1 BY <1>1, <1>2, <1>3
  <2> QED BY <1>2, <2>1
<1> QED BY <1>1, <1>4, ImageExtended

(* The end of a run, which goes wrong exactly if what remains is less than a  *)
(* run.                                                                       *)
LEMMA ImageOfRunEnd ==
    ASSUME NEW s \in Seq(Byte), NEW d \in Seq(Byte), NEW b \in Seq(Byte),
           NEW k \in 1 .. Len(s), BeginsRun(s, k), RunLength(s, k) >= MinRun,
           NEW r \in 1 .. RunLength(s, k), r <= MaxRunChunk,
           r = RunLength(s, k) \/ RunLength(s, k) > MaxRunChunk,
           r % MaxRunChunk = RunLength(s, k) % MaxRunChunk,
           Image(s, d, k, k - 1 + RunLength(s, k) - r),
           \A j \in 1 .. Len(b) : b[j] = s[k],
           r >= MinRun => Len(b) = r,
           r < MinRun => Len(b) > r
    PROVE  /\ Image(s, d \o b, k + RunLength(s, k), k + RunLength(s, k) - 1)
           /\ k + RunLength(s, k) <= Len(s) => BeginsRun(s, k + RunLength(s, k))
<1> DEFINE n == RunLength(s, k)
           m == k - 1 + n - r
<1>1. /\ n \in 1 .. Len(s) - k + 1
      /\ \A j \in k + 1 .. k + n - 1 : ~BeginsRun(s, j)
      /\ k + n <= Len(s) => BeginsRun(s, k + n)
  BY InsideARun
<1>2. Len(s) \in Nat /\ Len(b) \in Nat /\ Len(d) \in Nat BY LenProperties
<1>3. n \in Nat /\ k \in Nat /\ r \in Nat /\ m \in Nat /\ r <= n /\ n >= 1 /\ r >= 1
  <2>1. n >= MinRun /\ r \in 1 .. n OBVIOUS
  <2> HIDE DEF n
  <2> QED BY <1>1, <1>2, <2>1
<1>4. ShortAt(s, k) <=> r < MinRun
  <2>0. MaxRunChunk \in Nat \ {0} BY Parameters
  <2>1. \A x \in 0 .. MaxRunChunk - 1 : x % MaxRunChunk = x BY <2>0, Remainders
  <2>2. MaxRunChunk % MaxRunChunk = 0 BY <2>0, Remainders
  <2>3. n >= MinRun /\ (r = n \/ n > MaxRunChunk) /\ r % MaxRunChunk = n % MaxRunChunk
        /\ r <= MaxRunChunk
    OBVIOUS
  <2>4. ShortAt(s, k) <=> n > MaxRunChunk /\ n % MaxRunChunk \in 1 .. MinRun - 1
    BY DEF ShortAt
  <2> HIDE DEF n
  <2>5. CASE r = MaxRunChunk
    <3>0. r % MaxRunChunk = n % MaxRunChunk BY <2>3
    <3>1. n % MaxRunChunk = 0 BY <2>2, <2>5, <3>0, Zenon
    <3>2. ~(r < MinRun) BY <2>5, Parameters
    <3>3. ~(0 \in 1 .. MinRun - 1) OBVIOUS
    <3> QED BY <2>4, <3>1, <3>2, <3>3, Zenon
  <2>6. CASE r # MaxRunChunk
    <3>1. r \in 0 .. MaxRunChunk - 1
      <4>1. r \in Nat BY <1>3
      <4>2. r <= MaxRunChunk BY <2>3
      <4> QED BY <2>0, <2>6, <4>1, <4>2
    <3>2. n % MaxRunChunk = r BY <2>1, <2>3, <3>1
    <3>3. r < MinRun => n > MaxRunChunk BY <1>3, <2>3, Parameters
    <3> QED BY <1>3, <2>4, <3>2, <3>3, Parameters
  <2> QED BY <2>5, <2>6
<1>5. CASE r >= MinRun
  <2>1. Len(b) = r /\ ~ShortAt(s, k) BY <1>3, <1>4, <1>5, Parameters
  <2>2. m + r = k + n - 1 /\ k - 1 <= m
    <3> HIDE DEF n
    <3> QED BY <1>3
  <2>3. Image(s, d, k, m) /\ m + Len(b) <= k - 1 + n BY <1>3, <2>1, <2>2
  <2>4. Image(s, d \o b, k, m + Len(b))
    <3> HIDE DEF m
    <3> QED BY <1>3, <2>2, <2>3, ImageOfPart
  <2>5. \A j \in k .. (k + n) - 1 : ~ShortAt(s, j)
    <3> HIDE DEF n
    <3> SUFFICES ASSUME NEW j \in k .. (k + n) - 1 PROVE ~ShortAt(s, j) OBVIOUS
    <3>1. CASE j = k BY <2>1, <3>1
    <3>2. CASE j # k
      <4>1. j \in k + 1 .. k + n - 1 BY <1>3, <3>2
      <4> QED BY <1>1, <4>1 DEF ShortAt
    <3> QED BY <3>1, <3>2
  <2>6. Image(s, d \o b, k + n, m + Len(b))
    <3>1. k + n \in Nat /\ k <= k + n BY <1>3
    <3> HIDE DEF n, m
    <3> QED BY <1>3, <2>4, <2>5, <3>1, ImageMoved
  <2>7. m + Len(b) = k + n - 1 BY <2>1, <2>2
  <2>8. Image(s, d \o b, k + n, k + n - 1)
    <3> HIDE DEF n, m
    <3> QED BY <2>6, <2>7
  <2> QED BY <1>1, <2>8
<1>6. CASE ~(r >= MinRun)
  <2>1. r < MinRun /\ Len(b) > r BY <1>3, <1>6, Parameters
  <2>2. k < k + n /\ ShortAt(s, k) BY <1>3, <1>4, <2>1
  <2>3. ShortBefore(s, k + n) BY <2>2 DEF ShortBefore
  <2>4. Len(d) >= m
    <3>1. Image(s, d, k, m) OBVIOUS
    <3> HIDE DEF m
    <3>2. Len(d) = m \/ Len(d) > m BY <3>1 DEF Image
    <3> QED BY <1>2, <1>3, <3>2
  <2>5. Len(d \o b) = Len(d) + Len(b) BY ConcatProperties
  <2>6. Len(d \o b) > k + n - 1
    <3> HIDE DEF n
    <3> QED BY <1>2, <1>3, <2>1, <2>4, <2>5
  <2> QED BY <1>1, <2>3, <2>6 DEF Image
<1> QED BY <1>5, <1>6

(******************************* the invariant *******************************)

Started ==
    /\ pc = "start" => coded = <<>> /\ literal = <<>> /\ at = 1
    /\ pc \in {"scan", "run"} => input # <<>>
    /\ pc \notin {"measure", "decode", "done"} => size = 0
    /\ pc \notin {"decode", "done"} => output = <<>>

(* The text that what is coded decodes to is, with the literals still held,   *)
(* the image of what has been read.                                           *)
Scanning ==
    pc = "scan" =>
       /\ at \in 1 .. Len(input) + 1 /\ Len(literal) < LiteralMax
       /\ at <= Len(input) /\ RunLength(input, at) >= MinRun => BeginsRun(input, at)
       /\ Len(coded) + Held(literal) <= 2 * (at - 1)
       /\ \E d \in Seq(Byte) :
             Decodes(coded, d) /\ Image(input, d \o literal, at, at - 1)

Running ==
    pc = "run" =>
       /\ at \in 1 .. Len(input) /\ literal = <<>>
       /\ BeginsRun(input, at) /\ RunLength(input, at) >= MinRun
       /\ remaining \in 1 .. RunLength(input, at)
       /\ remaining = RunLength(input, at) \/ RunLength(input, at) > MaxRunChunk
       /\ remaining % MaxRunChunk = RunLength(input, at) % MaxRunChunk
       /\ Len(coded) <= 2 * (at - 1 + RunLength(input, at) - remaining)
       /\ \E d \in Seq(Byte) :
             /\ Decodes(coded, d)
             /\ Image(input, d, at, at - 1 + RunLength(input, at) - remaining)

Kept ==
    input # <<>> =>
       /\ pc = "compressed" => literal = <<>> /\ Len(coded) <= 2 * Len(input)
       /\ pc \in {"compressed", "measure", "decode"} =>
             \E d \in Seq(Byte) :
                Decodes(coded, d) /\ Image(input, d, Len(input) + 1, Len(input))

(* The first pass has found tokens for as many bytes as it has counted, and   *)
(* is at the beginning of a token of any text.                                *)
Measuring ==
    pc = "measure" =>
       /\ at \in 1 .. Len(coded) + 1
       /\ \E d \in Seq(Byte) : Len(d) = size /\ Decodes(SubSeq(coded, 1, at - 1), d)
       /\ \A d \in Seq(Byte) : \A P, M : Tokens(coded, d, P, M) => at \in P

(* The second has written the beginning of any text that coded decodes to.    *)
Writes(d, P, M) ==
    at \in P /\ Len(output) = M[at] /\ \A j \in 1 .. Len(output) : output[j] = d[j]

Decoding ==
    pc = "decode" =>
       /\ at \in 1 .. Len(coded) + 1
       /\ \E d \in Seq(Byte) : Len(d) = size /\ Decodes(coded, d)
       /\ \A d \in Seq(Byte) : \A P, M : Tokens(coded, d, P, M) => Writes(d, P, M)

Finished ==
    /\ pc # "done" => error = 0
    /\ error # -4
    /\ pc = "done" /\ error = 0 => Len(output) = size
    /\ pc = "done" /\ input # <<>> =>
          error = -2 \/ (error = 0 /\ Image(input, output, Len(input) + 1, Len(input)))

Inv ==
    /\ TypeOK /\ input \in Seq(Byte)
    /\ Started /\ Scanning /\ Running /\ Kept
    /\ Measuring /\ Decoding /\ Finished

LEMMA InitInv == Init => Inv
<1> SUFFICES ASSUME Init PROVE Inv OBVIOUS
<1>1. Plaintexts \subseteq Seq(Byte) /\ Damaged \subseteq Seq(Byte) BY RleAssumption
<1>2. input \in Seq(Byte) /\ coded \in Seq(Byte)
  <2>1. <<>> \in Seq(Byte) BY EmptySeq
  <2>2. CASE pc = "start" /\ input \in Plaintexts /\ coded = <<>> BY <1>1, <2>1, <2>2
  <2>3. CASE pc = "compressed" /\ input = <<>> /\ coded \in Damaged BY <1>1, <2>1, <2>3
  <2> QED BY <2>2, <2>3 DEF Init
<1>3. TypeOK BY <1>2 DEF Init, TypeOK
<1> QED BY <1>2, <1>3
  DEF Init, Inv, Started, Scanning, Running, Kept, Measuring, Decoding, Finished

LEMMA StutterInv == ASSUME Inv, UNCHANGED vars PROVE Inv'
BY DEF Inv, vars, TypeOK, Started, Scanning, Running, Kept, Measuring, Decoding, Finished, Writes

(* The input is given, or there is none.                                      *)
LEMMA StartCompressInv == ASSUME Inv, StartCompress PROVE Inv'
<1>1. TypeOK /\ input \in Seq(Byte) /\ coded = <<>> /\ literal = <<>> /\ at = 1 /\ error = 0
      /\ size = 0 /\ output = <<>> /\ pc = "start"
  BY DEF Inv, StartCompress, Started, Finished
<1>2. UNCHANGED <<input, at, literal, remaining, coded, size, output>> BY DEF StartCompress
<1>3. CASE (input = <<>> /\ Finish(-1)) \/ (input # <<>> /\ Finish(-2))
  <2>1. pc' = "done" /\ (error' = -2 \/ (error' = -1 /\ input = <<>>)) BY <1>3 DEF Finish
  <2>2. TypeOK' BY <1>1, <1>2, <2>1 DEF TypeOK
  <2> QED BY <1>1, <1>2, <2>1, <2>2
    DEF Inv, Started, Scanning, Running, Kept, Measuring, Decoding, Finished
<1>4. CASE input # <<>> /\ pc' = "scan" /\ UNCHANGED error
  <2>1. TypeOK' BY <1>1, <1>2, <1>4 DEF TypeOK
  <2>2. Len(input) \in Nat BY <1>1, LenProperties
  <2>3. <<>> \o <<>> = <<>> BY ConcatEmptySeq
  <2>4. <<>> \in Seq(Byte) /\ Decodes(<<>>, <<>>) /\ Image(input, <<>>, 1, 0)
    BY <1>1, NothingDecodes, ImageOfNothing
  <2>5. Scanning'
    <3>1. at' = 1 /\ 1 - 1 = 0 /\ 1 \in 1 .. Len(input) + 1 BY <1>1, <1>2, <2>2
    <3>2. BeginsRun(input, 1) BY DEF BeginsRun
    <3>3. Len(<<>>) = 0 /\ 0 < LiteralMax /\ Held(<<>>) = 0 BY Parameters DEF Held
    <3>4. \E d \in Seq(Byte) : Decodes(coded', d) /\ Image(input', d \o literal', at', at' - 1)
      BY <1>1, <1>2, <2>3, <2>4, <3>1
    <3> QED BY <1>1, <1>2, <3>1, <3>2, <3>3, <3>4 DEF Scanning
  <2> QED BY <1>1, <1>2, <1>4, <2>1, <2>5
    DEF Inv, Started, Running, Kept, Measuring, Decoding, Finished
<1> QED BY <1>3, <1>4 DEF StartCompress

(* A byte joins the literals.                                                 *)
LEMMA AddLiteralInv == ASSUME Inv, AddLiteral PROVE Inv'
<1> DEFINE lit == Append(literal, input[at])
<1>1. /\ TypeOK /\ input \in Seq(Byte) /\ input # <<>> /\ error = 0 /\ pc = "scan"
      /\ size = 0 /\ output = <<>>
      /\ at \in 1 .. Len(input) /\ Len(literal) < LiteralMax
      /\ RunLength(input, at) < MinRun
      /\ Len(coded) + Held(literal) <= 2 * (at - 1)
      /\ literal \in Seq(Byte) /\ coded \in Seq(Byte)
  BY DEF Inv, TypeOK, AddLiteral, Started, Scanning, Finished
<1>2. PICK d \in Seq(Byte) : Decodes(coded, d) /\ Image(input, d \o literal, at, at - 1)
  BY DEF Inv, AddLiteral, Scanning
<1>3. /\ UNCHANGED <<input, pc, remaining, size, output, error>> /\ at' = at + 1
      /\ \/ IsFull(lit) /\ coded' = Flushed(coded, lit) /\ literal' = <<>>
         \/ ~IsFull(lit) /\ literal' = lit /\ coded' = coded
  BY DEF AddLiteral
<1>4. /\ Len(input) \in Nat /\ Len(coded) \in Nat /\ Len(literal) \in Nat
      /\ input[at] \in Byte /\ at \in Nat
  BY <1>1, LenProperties, ElementOfSeq
<1>5. /\ lit \in Seq(Byte) /\ Len(lit) = Len(literal) + 1
      /\ lit # <<>> /\ lit = literal \o <<input[at]>>
  BY <1>1, <1>4, AppendProperties, AppendIsConcat
<1> HIDE DEF lit
<1>6. /\ d \o lit \in Seq(Byte) /\ Image(input, d \o lit, at + 1, at)
      /\ at + 1 <= Len(input) /\ RunLength(input, at + 1) >= MinRun => BeginsRun(input, at + 1)
  <2>1. <<input[at]>> \in Seq(Byte) BY <1>4
  <2>2. d \o lit = (d \o literal) \o <<input[at]>>
    <3>2. literal \in Seq(Byte) /\ lit = literal \o <<input[at]>> BY <1>1, <1>5
    <3>3. (d \o literal) \o <<input[at]>> = d \o (literal \o <<input[at]>>)
      BY <2>1, <3>2, ThreeParts, Zenon
    <3> QED BY <3>2, <3>3, Zenon
  <2>3. d \o literal \in Seq(Byte) BY <1>1, ConcatProperties
  <2> QED BY <1>1, <1>2, <2>2, <2>3, ImageOfByte
<1>7. Len(lit) <= LiteralMax BY <1>1, <1>4, <1>5, Parameters
<1>8. Held(lit) = Len(lit) + 1 /\ Len(coded) + Held(lit) <= 2 * at
  <2>1. Held(lit) = 1 + Len(lit) BY <1>5 DEF Held
  <2>2. /\ Len(literal) <= Held(literal) /\ Held(literal) \in Nat
        /\ Len(literal) # 0 => Held(literal) = 1 + Len(literal)
    <3>1. literal = <<>> => Len(literal) = 0 OBVIOUS
    <3> QED BY <1>4, <3>1 DEF Held
  <2>3. Held(lit) <= Held(literal) + 2 BY <1>4, <1>5, <2>1, <2>2
  <2> QED BY <1>1, <1>4, <1>5, <2>1, <2>2, <2>3
<1>9. /\ literal' \in Seq(Byte) /\ coded' \in Seq(Byte) /\ Len(literal') < LiteralMax
      /\ Len(coded') + Held(literal') <= 2 * at
      /\ \E e \in Seq(Byte) : Decodes(coded', e) /\ Image(input, e \o literal', at + 1, at)
  <2>1. CASE IsFull(lit) /\ coded' = Flushed(coded, lit) /\ literal' = <<>>
    <3>1. /\ coded' \in Seq(Byte) /\ Len(coded') = Len(coded) + Held(lit)
          /\ Decodes(coded', d \o lit)
      BY <1>1, <1>2, <1>5, <1>7, <2>1, FlushedDecodes
    <3>2. (d \o lit) \o literal' = d \o lit BY <1>6, <2>1, ConcatEmptySeq
    <3>3. literal' \in Seq(Byte) /\ Len(literal') = 0 /\ Held(literal') = 0
      BY <2>1, EmptySeq DEF Held
    <3>4. Len(coded') + Held(literal') <= 2 * at BY <1>4, <1>5, <1>8, <3>1, <3>3
    <3>5. \E e \in Seq(Byte) : Decodes(coded', e) /\ Image(input, e \o literal', at + 1, at)
      BY <1>6, <3>1, <3>2, Zenon
    <3>6. Len(literal') < LiteralMax BY <3>3, Parameters
    <3> QED BY <3>1, <3>3, <3>4, <3>5, <3>6
  <2>2. CASE ~IsFull(lit) /\ literal' = lit /\ coded' = coded
    <3>1. Len(lit) < LiteralMax BY <1>4, <1>5, <1>7, <2>2, Parameters DEF IsFull
    <3> QED BY <1>1, <1>2, <1>5, <1>6, <1>8, <2>2, <3>1
  <2> QED BY <1>3, <2>1, <2>2
<1>10. TypeOK'
  <2>1. at + 1 \in Nat BY <1>4
  <2> QED BY <1>1, <1>3, <1>9, <2>1 DEF TypeOK
<1>11. Scanning'
  <2>1. at + 1 \in 1 .. Len(input) + 1 /\ (at + 1) - 1 = at BY <1>1, <1>4
  <2> QED BY <1>3, <1>6, <1>9, <2>1 DEF Scanning
<1> QED BY <1>1, <1>3, <1>10, <1>11
  DEF Inv, Started, Running, Kept, Measuring, Decoding, Finished

(* A run begins.                                                              *)
LEMMA BeginRunInv == ASSUME Inv, BeginRun PROVE Inv'
<1> DEFINE n == RunLength(input, at)
<1>1. /\ TypeOK /\ input \in Seq(Byte) /\ input # <<>> /\ error = 0 /\ pc = "scan"
      /\ size = 0 /\ output = <<>>
      /\ at \in 1 .. Len(input) /\ Len(literal) < LiteralMax
      /\ n >= MinRun /\ BeginsRun(input, at)
      /\ Len(coded) + Held(literal) <= 2 * (at - 1)
      /\ literal \in Seq(Byte) /\ coded \in Seq(Byte)
  BY DEF Inv, TypeOK, BeginRun, Started, Scanning, Finished
<1>2. PICK d \in Seq(Byte) : Decodes(coded, d) /\ Image(input, d \o literal, at, at - 1)
  BY DEF Inv, BeginRun, Scanning
<1>3. /\ UNCHANGED <<input, at, size, output, error>> /\ pc' = "run" /\ literal' = <<>>
      /\ coded' = Flushed(coded, literal) /\ remaining' = n
  BY DEF BeginRun
<1>4. /\ n \in 1 .. Len(input) - at + 1 /\ Len(input) \in Nat /\ Len(literal) \in Nat
      /\ at \in Nat
  BY <1>1, InsideARun, LenProperties
<1>5. n \in Nat /\ n >= 1 /\ at - 1 + n - n = at - 1
  <2> HIDE DEF n
  <2> QED BY <1>4
<1> HIDE DEF n
<1>6. /\ coded' \in Seq(Byte) /\ Len(coded') = Len(coded) + Held(literal)
      /\ d \o literal \in Seq(Byte) /\ Decodes(coded', d \o literal)
  <2>1. Len(literal) <= LiteralMax BY <1>1, <1>4, Parameters
  <2> QED BY <1>1, <1>2, <1>3, <2>1, FlushedDecodes
<1>7. TypeOK' BY <1>1, <1>3, <1>5, <1>6 DEF TypeOK
<1>8. Running'
  <2>1. n \in 1 .. n BY <1>5
  <2>2. RunLength(input', at') = n BY <1>3 DEF n
  <2> QED BY <1>1, <1>2, <1>3, <1>5, <1>6, <2>1, <2>2 DEF Running
<1> QED BY <1>1, <1>3, <1>7, <1>8
  DEF Inv, Started, Scanning, Kept, Measuring, Decoding, Finished

(* Part of a run is written.                                                  *)
LEMMA CutRunInv == ASSUME Inv, CutRun PROVE Inv'
<1> DEFINE n == RunLength(input, at)
           chunk == ChunkOf(remaining)
           m == at - 1 + n - remaining
<1>1. /\ TypeOK /\ input \in Seq(Byte) /\ input # <<>> /\ error = 0 /\ pc = "run"
      /\ size = 0 /\ output = <<>> /\ literal = <<>> /\ coded \in Seq(Byte)
      /\ at \in 1 .. Len(input) /\ BeginsRun(input, at) /\ n >= MinRun
      /\ remaining \in 1 .. n /\ (remaining = n \/ n > MaxRunChunk)
      /\ remaining % MaxRunChunk = n % MaxRunChunk
      /\ Len(coded) <= 2 * m
  BY DEF Inv, TypeOK, CutRun, Started, Running, Finished
<1>2. PICK d \in Seq(Byte) : Decodes(coded, d) /\ Image(input, d, at, m)
  BY DEF Inv, CutRun, Running
<1>3. /\ UNCHANGED <<input, literal, size, output, error>>
      /\ coded' = coded \o <<RunTag(chunk), input[at]>>
      /\ remaining' = remaining - chunk
      /\ \/ remaining = chunk /\ pc' = "scan" /\ at' = at + n
         \/ remaining # chunk /\ pc' = pc /\ at' = at
  BY DEF CutRun, AfterRun
<1>4. /\ n \in 1 .. Len(input) - at + 1 /\ Len(input) \in Nat /\ Len(coded) \in Nat
      /\ at \in Nat /\ input[at] \in Byte
      /\ \A j \in at .. at + n - 1 : input[j] = input[at]
  BY <1>1, InsideARun, LenProperties, ElementOfSeq
<1>5. /\ n \in Nat /\ remaining \in Nat /\ remaining >= 1 /\ remaining <= n
      /\ m \in Nat /\ at - 1 <= m /\ m + remaining = at + n - 1
  <2> HIDE DEF n
  <2> QED BY <1>1, <1>4
<1> HIDE DEF n
<1>6. /\ chunk \in 1 .. MaxRunChunk /\ chunk <= remaining
      /\ remaining > MaxRunChunk => chunk = MaxRunChunk
      /\ remaining <= MaxRunChunk => chunk = remaining
  BY <1>5, Parameters DEF ChunkOf
<1> HIDE DEF chunk
<1>7. PICK b \in Seq(Byte) :
         /\ IsToken(<<RunTag(chunk), input[at]>>, b)
         /\ \A j \in 1 .. Len(b) : b[j] = input[at]
         /\ chunk >= MinRun => Len(b) = chunk
         /\ chunk < MinRun => Len(b) > chunk
  BY <1>4, <1>6, RunIsAToken
<1>8. <<RunTag(chunk), input[at]>> \in Seq(Byte) /\ Len(<<RunTag(chunk), input[at]>>) = 2
  BY <1>4, <1>6, RunIsAToken
<1>9. /\ coded' \in Seq(Byte) /\ Len(coded') = Len(coded) + 2
      /\ d \o b \in Seq(Byte) /\ Decodes(coded', d \o b)
  <2> DEFINE t == <<RunTag(chunk), input[at]>>
  <2>1. t \in Seq(Byte) /\ Len(t) = 2 /\ IsToken(t, b) /\ coded' = coded \o t BY <1>3, <1>7, <1>8
  <2> HIDE DEF t
  <2>2. Decodes(coded \o t, d \o b) BY <1>1, <1>2, <2>1, TokenAdded
  <2>3. /\ coded \o t \in Seq(Byte) /\ Len(coded \o t) = Len(coded) + Len(t)
        /\ d \o b \in Seq(Byte)
    BY <1>1, <2>1, ConcatProperties
  <2> QED BY <2>1, <2>2, <2>3
<1>10. CASE remaining = chunk
  <2>1. pc' = "scan" /\ at' = at + n /\ remaining' = 0 BY <1>3, <1>5, <1>10
  <2>2. /\ Image(input, d \o b, at + n, at + n - 1)
        /\ at + n <= Len(input) => BeginsRun(input, at + n)
    BY <1>1, <1>2, <1>6, <1>7, <1>10, ImageOfRunEnd DEF n, m
  <2>3. at + n \in 1 .. Len(input) + 1 /\ at + n \in Nat BY <1>4, <1>5
  <2>4. TypeOK' BY <1>1, <1>3, <1>9, <2>1, <2>3 DEF TypeOK
  <2>5. Scanning'
    <3>1. (d \o b) \o <<>> = d \o b BY <1>9, ConcatEmptySeq
    <3>0. /\ at' - 1 = at + n - 1 /\ input' = input /\ literal' = <<>>
          /\ Len(<<>>) < LiteralMax
      <4>1. at' - 1 = at + n - 1 BY <1>4, <1>5, <2>1
      <4>2. Len(<<>>) = 0 /\ 0 < LiteralMax BY Parameters
      <4> QED BY <1>1, <1>3, <4>1, <4>2
    <3>2. \E e \in Seq(Byte) : Decodes(coded', e) /\ Image(input', e \o literal', at', at' - 1)
      <4>1. Image(input', (d \o b) \o literal', at', at' - 1) BY <2>1, <2>2, <3>0, <3>1
      <4> QED BY <1>9, <4>1
    <3>4. Len(coded') <= 2 * (at + n - 1)
      <4> HIDE DEF m
      <4> QED BY <1>1, <1>4, <1>5, <1>9
    <3>5. Len(coded') + Held(literal') <= 2 * (at' - 1)
      <4>1. Held(literal') = 0 BY <3>0 DEF Held
      <4>2. Len(coded') + 0 = Len(coded') BY <1>4, <1>9
      <4> QED BY <3>0, <3>4, <4>1, <4>2
    <3>6. /\ at' \in 1 .. Len(input') + 1
          /\ at' <= Len(input') /\ RunLength(input', at') >= MinRun => BeginsRun(input', at')
      BY <2>1, <2>2, <2>3, <3>0
    <3> QED BY <3>0, <3>2, <3>5, <3>6 DEF Scanning
  <2> QED BY <1>1, <1>3, <2>1, <2>4, <2>5
    DEF Inv, Started, Running, Kept, Measuring, Decoding, Finished
<1>11. CASE remaining # chunk
  <2>1. /\ pc' = pc /\ at' = at /\ chunk = MaxRunChunk /\ n > MaxRunChunk
        /\ remaining' \in 1 .. n /\ remaining' = remaining - MaxRunChunk
    BY <1>3, <1>5, <1>6, <1>11, Parameters
  <2>2. Len(b) = MaxRunChunk BY <1>7, <2>1, Parameters
  <2>3. m + Len(b) <= at - 1 + n 
    <3>1. Len(b) <= remaining /\ Len(b) \in Nat BY <1>6, <2>1, <2>2, Parameters
    <3> HIDE DEF m
    <3> QED BY <1>4, <1>5, <3>1
  <2>4. Image(input, d \o b, at, m + Len(b)) BY <1>1, <1>2, <1>5, <1>7, <2>3, ImageOfPart DEF n
  <2>5. m + Len(b) = at - 1 + n - remaining' BY <1>4, <1>5, <2>1, <2>2, Parameters
  <2>6. remaining' % MaxRunChunk = n % MaxRunChunk
    <3>1. MaxRunChunk \in Nat \ {0} BY Parameters
    <3>2. \A x \in Int : (x - MaxRunChunk) % MaxRunChunk = x % MaxRunChunk
      BY <3>1, Remainders
    <3>3. remaining \in Int BY <1>5
    <3> QED BY <1>1, <2>1, <3>2, <3>3
  <2>7. TypeOK'
    <3>1. remaining' \in Nat BY <1>5, <2>1
    <3> QED BY <1>1, <1>3, <1>9, <2>1, <3>1 DEF TypeOK
  <2>8. Running'
    <3>1. RunLength(input', at') = n BY <1>3, <2>1 DEF n
    <3>2. Len(coded') <= 2 * (at - 1 + n - remaining')
      <4>1. Len(coded') <= 2 * (m + Len(b))
        <5> HIDE DEF m
        <5> QED BY <1>1, <1>4, <1>5, <1>9, <2>2, Parameters
      <4> QED BY <2>5, <4>1
    <3>3. \E e \in Seq(Byte) :
             Decodes(coded', e) /\ Image(input, e, at, at - 1 + n - remaining')
      BY <1>9, <2>4, <2>5
    <3> QED BY <1>1, <1>3, <2>1, <2>6, <3>1, <3>2, <3>3 DEF Running
  <2> QED BY <1>1, <1>3, <2>1, <2>7, <2>8
    DEF Inv, Started, Scanning, Kept, Measuring, Decoding, Finished
<1> QED BY <1>10, <1>11

(* The last literals are flushed.                                             *)
LEMMA EndCompressInv == ASSUME Inv, EndCompress PROVE Inv'
<1>1. /\ TypeOK /\ input \in Seq(Byte) /\ input # <<>> /\ error = 0 /\ pc = "scan"
      /\ size = 0 /\ output = <<>>
      /\ at \in 1 .. Len(input) + 1 /\ Len(literal) < LiteralMax
      /\ Len(coded) + Held(literal) <= 2 * (at - 1)
      /\ literal \in Seq(Byte) /\ coded \in Seq(Byte) /\ at > Len(input)
  BY DEF Inv, TypeOK, EndCompress, Started, Scanning, Finished
<1>2. PICK d \in Seq(Byte) : Decodes(coded, d) /\ Image(input, d \o literal, at, at - 1)
  BY DEF Inv, EndCompress, Scanning
<1>3. /\ UNCHANGED <<input, at, remaining, size, output, error>>
      /\ coded' = Flushed(coded, literal) /\ literal' = <<>> /\ pc' = "compressed"
  BY DEF EndCompress
<1>4. /\ Len(input) \in Nat /\ Len(literal) \in Nat /\ at = Len(input) + 1
      /\ at - 1 = Len(input)
  <2>1. Len(input) \in Nat /\ Len(literal) \in Nat BY <1>1, LenProperties
  <2> QED BY <1>1, <2>1
<1>5. /\ coded' \in Seq(Byte) /\ Len(coded') = Len(coded) + Held(literal)
      /\ d \o literal \in Seq(Byte) /\ Decodes(coded', d \o literal)
  <2>1. Len(literal) <= LiteralMax BY <1>1, <1>4, Parameters
  <2> QED BY <1>1, <1>2, <1>3, <2>1, FlushedDecodes
<1>6. TypeOK' BY <1>1, <1>3, <1>5 DEF TypeOK
<1>7. Kept'
  <2>1. Image(input, d \o literal, Len(input) + 1, Len(input)) BY <1>2, <1>4
  <2>2. Len(coded') <= 2 * Len(input) BY <1>1, <1>4, <1>5
  <2> QED BY <1>3, <1>5, <2>1, <2>2 DEF Kept
<1> QED BY <1>1, <1>3, <1>6, <1>7
  DEF Inv, Started, Scanning, Running, Measuring, Decoding, Finished

(* What is decoded is not empty, unless it comes from elsewhere.              *)
LEMMA StartDecompressInv == ASSUME Inv, StartDecompress PROVE Inv'
<1>1. /\ TypeOK /\ input \in Seq(Byte) /\ error = 0 /\ pc = "compressed"
      /\ size = 0 /\ output = <<>> /\ coded \in Seq(Byte) /\ Kept
  BY DEF Inv, TypeOK, StartDecompress, Started, Finished
<1>2. UNCHANGED <<input, literal, remaining, coded, size, output>> /\ at' = 1
  BY DEF StartDecompress
<1>3. CASE coded = <<>>
  <2>1. pc' = "done" /\ error' = -1 BY <1>3 DEF StartDecompress, Finish
  <2>2. input = <<>>
    <3> SUFFICES ASSUME input # <<>> PROVE FALSE OBVIOUS
    <3>1. PICK d \in Seq(Byte) : Decodes(coded, d) /\ Image(input, d, Len(input) + 1, Len(input))
      BY <1>1 DEF Kept
    <3>2. Len(d) = 0 BY <1>3, <3>1, NothingDecodes
    <3>3. Len(input) \in Nat \ {0} BY <1>1, EmptySeq
    <3>4. Len(d) = Len(input) \/ Len(d) > Len(input) BY <3>1 DEF Image
    <3> QED BY <3>2, <3>3, <3>4
  <2>3. TypeOK' BY <1>1, <1>2, <2>1 DEF TypeOK
  <2> QED BY <1>1, <1>2, <2>1, <2>2, <2>3
    DEF Inv, Started, Scanning, Running, Kept, Measuring, Decoding, Finished
<1>4. CASE coded # <<>>
  <2>1. pc' = "measure" /\ error' = error BY <1>4 DEF StartDecompress
  <2>2. TypeOK' BY <1>1, <1>2, <2>1 DEF TypeOK
  <2>3. Kept' BY <1>1, <1>2, <2>1 DEF Kept
  <2>4. Measuring'
    <3>1. Len(coded) \in Nat /\ 1 \in 1 .. Len(coded) + 1 BY <1>1, LenProperties
    <3>2. SubSeq(coded, 1, 1 - 1) = <<>> BY SubSeqEmpty
    <3>3. <<>> \in Seq(Byte) /\ Len(<<>>) = 0 /\ Decodes(<<>>, <<>>) BY NothingDecodes, EmptySeq
    <3>4. \A d \in Seq(Byte) : \A P, M : Tokens(coded, d, P, M) => 1 \in P BY DEF Tokens
    <3>5. \E d \in Seq(Byte) : Len(d) = size' /\ Decodes(SubSeq(coded', 1, at' - 1), d)
      BY <1>1, <1>2, <3>2, <3>3
    <3> QED BY <1>2, <3>1, <3>4, <3>5 DEF Measuring
  <2> QED BY <1>1, <1>2, <2>1, <2>2, <2>3, <2>4
    DEF Inv, Started, Scanning, Running, Decoding, Finished
<1> QED BY <1>3, <1>4

(* What the token at a beginning of one means for any text.                   *)
LEMMA NextToken ==
    ASSUME NEW c \in Seq(Byte), NEW d \in Seq(Byte), NEW P, NEW M, Tokens(c, d, P, M),
           NEW k \in P, k <= Len(c)
    PROVE  /\ k \in 1 .. Len(c) /\ k + TagExtent(c, k) <= Len(c)
           /\ k + 1 + TagExtent(c, k) \in P
           /\ M[k] \in 0 .. Len(d) /\ M[k] + TagLength(c, k) <= Len(d)
           /\ M[k + 1 + TagExtent(c, k)] = M[k] + TagLength(c, k)
           /\ \A j \in 1 .. TagLength(c, k) : d[M[k] + j] = TagByte(c, k, j)
<1> DEFINE e == TagExtent(c, k)
           n == TagLength(c, k)
<1>1. Len(c) \in Nat /\ Len(d) \in Nat BY LenProperties
<1>2. P \subseteq 1 .. Len(c) + 1 /\ M \in [P -> 0 .. Len(d)] BY DEF Tokens
<1>3. k \in 1 .. Len(c) BY <1>1, <1>2
<1>4. k \in P \ {Len(c) + 1} BY <1>1, <1>3
<1>5. /\ k + 1 + e \in P /\ M[k + 1 + e] = M[k] + n
      /\ \A j \in 1 .. n : d[M[k] + j] = TagByte(c, k, j)
  BY <1>4 DEF Tokens
<1>6. e \in Nat \ {0} /\ n \in Nat \ {0} BY <1>3, TagNumbers
<1> HIDE DEF e, n
<1>7. k + 1 + e \in 1 .. Len(c) + 1 BY <1>2, <1>5
<1>8. M[k] \in 0 .. Len(d) /\ M[k + 1 + e] \in 0 .. Len(d) BY <1>2, <1>5
<1>9. k + e <= Len(c) BY <1>1, <1>3, <1>6, <1>7
<1>10. M[k] + n <= Len(d) BY <1>1, <1>5, <1>8
<1> QED BY <1>3, <1>5, <1>8, <1>9, <1>10 DEF e, n

(* The first pass goes to the next token.                                     *)
LEMMA MeasureInv == ASSUME Inv, Measure PROVE Inv'
<1> DEFINE e == TagExtent(coded, at)
           n == TagLength(coded, at)
<1>1. /\ TypeOK /\ input \in Seq(Byte) /\ error = 0 /\ pc = "measure" /\ output = <<>>
      /\ coded \in Seq(Byte) /\ Kept /\ at \in 1 .. Len(coded) /\ size \in Nat
      /\ \A d \in Seq(Byte) : \A P, M : Tokens(coded, d, P, M) => at \in P
  BY DEF Inv, TypeOK, Measure, Started, Finished, Measuring
<1>2. PICK d \in Seq(Byte) : Len(d) = size /\ Decodes(SubSeq(coded, 1, at - 1), d)
  BY DEF Inv, Measure, Measuring
<1>3. UNCHANGED <<input, literal, remaining, coded, output>> BY DEF Measure
<1>4. (Truncated(at) <=> at + e > Len(coded)) /\ Measured(at) = n /\ TokenExtent(at) = e
  <2>1. TokenExtent(at) = e
    BY DEF TokenExtent, IsRun, LiteralTagLength, TagExtent
  <2>2. Measured(at) = n
    BY DEF Measured, TokenLength, IsRun, RunTagLength, LiteralTagLength, TagLength
  <2> QED BY <2>1, <2>2 DEF Truncated
<1>5. e \in Nat \ {0} /\ n \in Nat \ {0} /\ Len(coded) \in Nat BY <1>1, TagNumbers, LenProperties
<1> HIDE DEF e, n
<1>6. CASE Truncated(at)
  <2>1. pc' = "done" /\ error' = -3 /\ at' = at /\ size' = size BY <1>6 DEF Measure, Finish
  <2>2. input = <<>>
    <3> SUFFICES ASSUME input # <<>> PROVE FALSE OBVIOUS
    <3>1. PICK t \in Seq(Byte) : Decodes(coded, t) BY <1>1 DEF Kept
    <3>2. PICK P, M : Tokens(coded, t, P, M) BY <3>1 DEF Decodes
    <3>3. at \in P /\ at <= Len(coded) BY <1>1, <1>5, <3>2
    <3>4. at + e <= Len(coded) BY <1>1, <3>2, <3>3, NextToken DEF e
    <3> QED BY <1>1, <1>4, <1>5, <1>6, <3>4
  <2>3. TypeOK' BY <1>1, <1>3, <2>1 DEF TypeOK
  <2> QED BY <1>1, <1>3, <2>1, <2>2, <2>3
    DEF Inv, Started, Scanning, Running, Kept, Measuring, Decoding, Finished
<1>7. CASE ~Truncated(at)
  <2>1. /\ pc' = "measure" /\ error' = error /\ size' = size + n /\ at' = at + 1 + e
        /\ at + e <= Len(coded)
    BY <1>1, <1>4, <1>5, <1>7 DEF Measure
  <2>2. at' \in Nat /\ at' \in 1 .. Len(coded) + 1 /\ size' \in Nat /\ at' - 1 = at + e
    BY <1>1, <1>5, <2>1
  <2>3. TypeOK' BY <1>1, <1>3, <2>1, <2>2 DEF TypeOK
  <2>4. \E t \in Seq(Byte) : Len(t) = size' /\ Decodes(SubSeq(coded', 1, at' - 1), t)
    <3> DEFINE before == SubSeq(coded, 1, at - 1)
               token == SubSeq(coded, at, at + e)
    <3>1. /\ before \in Seq(Byte) /\ token \in Seq(Byte)
          /\ before \o token = SubSeq(coded, 1, at + e)
          /\ \E b \in Seq(Byte) : IsToken(token, b) /\ Len(b) = n
      BY <1>1, <2>1, TokenInPlace DEF e, n
    <3> HIDE DEF before, token
    <3>2. PICK b \in Seq(Byte) : IsToken(token, b) /\ Len(b) = n BY <3>1
    <3>3. Decodes(before \o token, d \o b) BY <1>2, <3>1, <3>2, TokenAdded DEF before
    <3>4. d \o b \in Seq(Byte) /\ Len(d \o b) = size' BY <1>2, <2>1, <3>2, ConcatProperties
    <3>5. SubSeq(coded', 1, at' - 1) = before \o token BY <1>3, <2>2, <3>1
    <3> QED BY <3>3, <3>4, <3>5
  <2>5. \A t \in Seq(Byte) : \A P, M : Tokens(coded', t, P, M) => at' \in P
    <3> SUFFICES ASSUME NEW t \in Seq(Byte), NEW P, NEW M, Tokens(coded', t, P, M)
                 PROVE  at' \in P
      OBVIOUS
    <3>1. Tokens(coded, t, P, M) /\ at \in P /\ at <= Len(coded) BY <1>1, <1>3, <1>5
    <3>2. at + 1 + e \in P BY <1>1, <3>1, NextToken DEF e
    <3> QED BY <2>1, <3>2
  <2>6. Measuring' BY <1>3, <2>2, <2>4, <2>5 DEF Measuring
  <2>7. Kept' BY <1>1, <1>3, <2>1 DEF Kept
  <2> QED BY <1>1, <1>3, <2>1, <2>3, <2>6, <2>7
    DEF Inv, Started, Scanning, Running, Decoding, Finished
<1> QED BY <1>6, <1>7

(* The first pass is over; there may be no memory for the second.             *)
LEMMA AllocateInv == ASSUME Inv, Allocate PROVE Inv'
<1>1. /\ TypeOK /\ input \in Seq(Byte) /\ error = 0 /\ pc = "measure" /\ output = <<>>
      /\ coded \in Seq(Byte) /\ Kept /\ at \in 1 .. Len(coded) + 1 /\ at > Len(coded)
  BY DEF Inv, TypeOK, Allocate, Started, Finished, Measuring
<1>2. PICK d \in Seq(Byte) : Len(d) = size /\ Decodes(SubSeq(coded, 1, at - 1), d)
  BY DEF Inv, Allocate, Measuring
<1>3. UNCHANGED <<input, literal, remaining, coded, size, output>> BY DEF Allocate
<1>4. CASE Finish(-2) /\ UNCHANGED at
  <2>1. pc' = "done" /\ error' = -2 /\ at' = at BY <1>4 DEF Finish
  <2>2. TypeOK' BY <1>1, <1>3, <2>1 DEF TypeOK
  <2> QED BY <1>1, <1>3, <2>1, <2>2
    DEF Inv, Started, Scanning, Running, Kept, Measuring, Decoding, Finished
<1>5. CASE pc' = "decode" /\ at' = 1 /\ UNCHANGED error
  <2>1. TypeOK' BY <1>1, <1>3, <1>5 DEF TypeOK
  <2>2. Kept' BY <1>1, <1>3, <1>5 DEF Kept
  <2>3. Decodes(coded, d)
    <3>1. at - 1 = Len(coded)
      <4>1. Len(coded) \in Nat BY <1>1, LenProperties
      <4> QED BY <1>1, <4>1
    <3>2. SubSeq(coded, 1, at - 1) = coded BY <1>1, <3>1, SubSeqFull
    <3> QED BY <1>2, <3>2
  <2>4. Decoding'
    <3>1. Len(coded) \in Nat /\ 1 \in 1 .. Len(coded) + 1 BY <1>1, LenProperties
    <3>2. ASSUME NEW t \in Seq(Byte), NEW P, NEW M, Tokens(coded, t, P, M)
          PROVE  1 \in P /\ Len(<<>>) = M[1] /\ \A j \in 1 .. Len(<<>>) : <<>>[j] = t[j]
      <4>1. 1 \in P /\ M[1] = 0 BY <3>2 DEF Tokens
      <4>2. Len(<<>>) = 0 OBVIOUS
      <4> QED BY <4>1, <4>2
    <3>3. /\ coded' = coded /\ at' = 1 /\ output' = <<>> /\ size' = size
      BY <1>1, <1>3, <1>5
    <3>4. \A t \in Seq(Byte) : \A P, M : Tokens(coded', t, P, M) => Writes(t, P, M)'
      BY <3>2, <3>3 DEF Writes
    <3> QED BY <1>2, <2>3, <3>1, <3>3, <3>4 DEF Decoding
  <2> QED BY <1>1, <1>3, <1>5, <2>1, <2>2, <2>4
    DEF Inv, Started, Scanning, Running, Measuring, Finished
<1> QED BY <1>4, <1>5 DEF Allocate

(* The second pass writes the bytes of a token, which fit.                    *)
LEMMA DecodeInv == ASSUME Inv, Decode PROVE Inv'
<1> DEFINE e == TagExtent(coded, at)
           n == TagLength(coded, at)
<1>1. /\ TypeOK /\ input \in Seq(Byte) /\ error = 0 /\ pc = "decode" /\ output \in Seq(Byte)
      /\ coded \in Seq(Byte) /\ Kept /\ at \in 1 .. Len(coded) /\ size \in Nat
      /\ \A d \in Seq(Byte) : \A P, M : Tokens(coded, d, P, M) => Writes(d, P, M)
  BY DEF Inv, TypeOK, Decode, Started, Finished, Decoding
<1>2. PICK d0 \in Seq(Byte) : Len(d0) = size /\ Decodes(coded, d0)
  BY DEF Inv, Decode, Decoding
<1>3. UNCHANGED <<input, literal, remaining, coded, size>> BY DEF Decode
<1>4. /\ Truncated(at) <=> at + e > Len(coded)
      /\ TokenLength(at) = n /\ TokenExtent(at) = e /\ (IsRun(at) <=> coded[at] >= Flag)
  <2>1. TokenExtent(at) = e
    BY DEF TokenExtent, IsRun, LiteralTagLength, TagExtent
  <2>2. TokenLength(at) = n
    BY DEF TokenLength, IsRun, RunTagLength, LiteralTagLength, TagLength
  <2> QED BY <2>1, <2>2 DEF Truncated, IsRun
<1>5. /\ e \in Nat \ {0} /\ n \in Nat \ {0} /\ Len(coded) \in Nat /\ Len(output) \in Nat
      /\ coded[at] \in Nat /\ (coded[at] < Flag => n = e)
  BY <1>1, TagNumbers, LenProperties
<1>6. ASSUME NEW d \in Seq(Byte), NEW P, NEW M, Tokens(coded, d, P, M)
      PROVE  /\ at + e <= Len(coded) /\ at + 1 + e \in P
             /\ Len(output) + n <= Len(d) /\ M[at + 1 + e] = Len(output) + n
             /\ \A j \in 1 .. Len(output) : output[j] = d[j]
             /\ \A j \in 1 .. n : d[Len(output) + j] = TagByte(coded, at, j)
  <2>1. at \in P /\ Len(output) = M[at] /\ \A j \in 1 .. Len(output) : output[j] = d[j]
    BY <1>1, <1>6 DEF Writes
  <2>2. at <= Len(coded) BY <1>1, <1>5
  <2>3. /\ at + e <= Len(coded) /\ at + 1 + e \in P
        /\ M[at] + n <= Len(d) /\ M[at + 1 + e] = M[at] + n
        /\ \A j \in 1 .. n : d[M[at] + j] = TagByte(coded, at, j)
    <3>1. coded \in Seq(Byte) /\ Tokens(coded, d, P, M) /\ at \in P BY <1>1, <1>6, <2>1
    <3>2. /\ at + TagExtent(coded, at) <= Len(coded)
          /\ at + 1 + TagExtent(coded, at) \in P
          /\ M[at] + TagLength(coded, at) <= Len(d)
          /\ M[at + 1 + TagExtent(coded, at)] = M[at] + TagLength(coded, at)
          /\ \A j \in 1 .. TagLength(coded, at) : d[M[at] + j] = TagByte(coded, at, j)
      BY <2>2, <3>1, NextToken
    <3> QED BY <3>2, Zenon
  <2> HIDE DEF e, n
  <2> QED BY <2>1, <2>3
<1> HIDE DEF e, n
<1>7. at + e <= Len(coded) /\ Len(output) + n <= size BY <1>2, <1>6 DEF Decodes
<1>8. /\ output' = output \o TokenBytes(at) /\ at' = at + 1 + e
      /\ pc' = pc /\ error' = error
  <2>1. Fits(at) BY <1>1, <1>2, <1>4, <1>5, <1>7 DEF Fits
  <2> QED BY <1>4, <2>1 DEF Decode
<1>9. /\ TokenBytes(at) \in Seq(Byte) /\ Len(TokenBytes(at)) = n
      /\ \A j \in 1 .. n : TokenBytes(at)[j] = TagByte(coded, at, j)
  <2>1. CASE IsRun(at)
    <3> DEFINE b == [j \in 1 .. n |-> coded[at + 1]]
    <3>1. TokenBytes(at) = b BY <1>4, <2>1 DEF TokenBytes
    <3>2. at + 1 \in 1 .. Len(coded) BY <1>1, <1>5, <1>7
    <3>3. coded[at + 1] \in Byte BY <1>1, <3>2, ElementOfSeq
    <3>4. b \in [1 .. n -> Byte] BY <3>3
    <3>5. b \in Seq(Byte) BY <1>5, <3>4, SMT
    <3>6. DOMAIN b = 1 .. n OBVIOUS
    <3>7. Len(b) \in Nat /\ DOMAIN b = 1 .. Len(b) BY <3>5, LenProperties
    <3>8. Len(b) = n
      <4> HIDE DEF b
      <4> QED BY <1>5, <3>6, <3>7
    <3>9. \A j \in 1 .. n : b[j] = TagByte(coded, at, j) BY <1>4, <2>1 DEF TagByte
    <3> HIDE DEF b
    <3> QED BY <3>1, <3>5, <3>8, <3>9
  <2>2. CASE ~IsRun(at)
    <3>1. TokenBytes(at) = SubSeq(coded, at + 1, at + n) BY <1>4, <2>2 DEF TokenBytes
    <3>2. n = e BY <1>4, <1>5, <2>2, Parameters
    <3>3. \A i \in 1 .. Len(coded) : coded[i] \in Byte BY <1>1, ElementOfSeq
    <3>4. \A i \in at + 1 .. at + n : coded[i] \in Byte
      <4>1. \A i \in at + 1 .. at + n : i \in 1 .. Len(coded) BY <1>1, <1>5, <1>7, <3>2
      <4> QED BY <3>3, <4>1
    <3>5. /\ at + 1 \in Int /\ at + n \in Int /\ at + 1 <= at + n
          /\ (at + n) - (at + 1) + 1 = n
      BY <1>1, <1>5
    <3>6. /\ SubSeq(coded, at + 1, at + n) \in Seq(Byte)
          /\ Len(SubSeq(coded, at + 1, at + n)) = n
          /\ \A i \in 1 .. n : SubSeq(coded, at + 1, at + n)[i] = coded[(at + 1) + i - 1]
      <4>1. /\ SubSeq(coded, at + 1, at + n) \in Seq(Byte)
            /\ Len(SubSeq(coded, at + 1, at + n))
                 = IF at + 1 <= at + n THEN (at + n) - (at + 1) + 1 ELSE 0
            /\ \A i \in 1 .. (at + n) - (at + 1) + 1 :
                  SubSeq(coded, at + 1, at + n)[i] = coded[(at + 1) + i - 1]
        BY <3>4, <3>5, SubSeqProperties
      <4> QED BY <3>5, <4>1
    <3>7. ASSUME NEW j \in 1 .. n PROVE coded[(at + 1) + j - 1] = TagByte(coded, at, j)
      <4>1. (at + 1) + j - 1 = at + j BY <1>1, <1>5
      <4> QED BY <1>4, <2>2, <4>1 DEF TagByte
    <3> QED BY <3>1, <3>6, <3>7
  <2> QED BY <2>1, <2>2
<1>10. /\ output' \in Seq(Byte) /\ Len(output') = Len(output) + n
       /\ \A j \in 1 .. Len(output) : output'[j] = output[j]
       /\ \A j \in 1 .. n : output'[Len(output) + j] = TagByte(coded, at, j)
  <2> DEFINE b == TokenBytes(at)
  <2>1. b \in Seq(Byte) /\ Len(b) = n /\ \A j \in 1 .. n : b[j] = TagByte(coded, at, j) BY <1>9
  <2>2. output' = output \o b BY <1>8
  <2> HIDE DEF b
  <2>3. /\ output \o b \in Seq(Byte) /\ Len(output \o b) = Len(output) + Len(b)
        /\ \A j \in 1 .. Len(output) : (output \o b)[j] = output[j]
        /\ \A j \in 1 .. Len(b) : (output \o b)[Len(output) + j] = b[j]
    BY <1>1, <2>1, Concatenated
  <2> QED BY <2>1, <2>2, <2>3
<1>11. at' \in 1 .. Len(coded) + 1 /\ at' \in Nat BY <1>1, <1>5, <1>7, <1>8
<1>12. TypeOK' BY <1>1, <1>3, <1>8, <1>10, <1>11 DEF TypeOK
<1>13. ASSUME NEW d \in Seq(Byte), NEW P, NEW M, Tokens(coded, d, P, M)
       PROVE  /\ at' \in P /\ Len(output') = M[at']
              /\ \A j \in 1 .. Len(output') : output'[j] = d[j]
  <2>1. /\ at + 1 + e \in P /\ M[at + 1 + e] = Len(output) + n
        /\ \A j \in 1 .. Len(output) : output[j] = d[j]
        /\ \A j \in 1 .. n : d[Len(output) + j] = TagByte(coded, at, j)
    BY <1>6, <1>13
  <2>2. ASSUME NEW j \in 1 .. Len(output) + n PROVE output'[j] = d[j]
    <3>1. CASE j <= Len(output)
      <4>1. j \in 1 .. Len(output) BY <3>1
      <4> QED BY <1>10, <2>1, <4>1
    <3>2. CASE ~(j <= Len(output))
      <4>1. j - Len(output) \in 1 .. n /\ Len(output) + (j - Len(output)) = j BY <1>5, <3>2
      <4>2. /\ output'[Len(output) + (j - Len(output))] = TagByte(coded, at, j - Len(output))
            /\ d[Len(output) + (j - Len(output))] = TagByte(coded, at, j - Len(output))
        BY <1>10, <2>1, <4>1
      <4> QED BY <4>1, <4>2
    <3> QED BY <3>1, <3>2
  <2> QED BY <1>8, <1>10, <2>1, <2>2
<1>14. Decoding'
  <2>1. \A d \in Seq(Byte) : \A P, M : Tokens(coded', d, P, M) => Writes(d, P, M)'
    BY <1>3, <1>13 DEF Writes
  <2>2. \E d \in Seq(Byte) : Len(d) = size' /\ Decodes(coded', d) BY <1>2, <1>3
  <2> QED BY <1>3, <1>11, <2>1, <2>2 DEF Decoding
<1>15. Kept' BY <1>1, <1>3, <1>8 DEF Kept
<1> QED BY <1>1, <1>3, <1>8, <1>12, <1>14, <1>15
  DEF Inv, Started, Scanning, Running, Measuring, Finished

(* The second pass has written every byte of every text: there is only one.   *)
LEMMA EndDecodeInv == ASSUME Inv, EndDecode PROVE Inv'
<1>1. /\ TypeOK /\ input \in Seq(Byte) /\ error = 0 /\ pc = "decode" /\ output \in Seq(Byte)
      /\ coded \in Seq(Byte) /\ Kept /\ at \in 1 .. Len(coded) + 1 /\ at > Len(coded)
      /\ \A d \in Seq(Byte) : \A P, M : Tokens(coded, d, P, M) => Writes(d, P, M)
  BY DEF Inv, TypeOK, EndDecode, Started, Finished, Decoding
<1>2. PICK d0 \in Seq(Byte) : Len(d0) = size /\ Decodes(coded, d0)
  BY DEF Inv, EndDecode, Decoding
<1>3. /\ UNCHANGED <<input, at, literal, remaining, coded, size, output>>
      /\ pc' = "done" /\ error' = 0
  BY DEF EndDecode, Finish
<1>4. at = Len(coded) + 1
  <2>1. Len(coded) \in Nat BY <1>1, LenProperties
  <2> QED BY <1>1, <2>1
<1>5. ASSUME NEW d \in Seq(Byte), Decodes(coded, d) PROVE output = d
  <2>1. PICK P, M : Tokens(coded, d, P, M) BY <1>5 DEF Decodes
  <2>2. Len(output) = M[at] /\ \A j \in 1 .. Len(output) : output[j] = d[j]
    BY <1>1, <2>1 DEF Writes
  <2>3. M[at] = Len(d) BY <1>4, <2>1 DEF Tokens
  <2> QED BY <1>1, <2>2, <2>3, SeqEqual
<1>6. Len(output) = size BY <1>2, <1>5
<1>7. input # <<>> => Image(input, output, Len(input) + 1, Len(input)) BY <1>1, <1>5 DEF Kept
<1>8. TypeOK' BY <1>1, <1>3 DEF TypeOK
<1> QED BY <1>1, <1>3, <1>6, <1>7, <1>8
  DEF Inv, Started, Scanning, Running, Kept, Measuring, Decoding, Finished

LEMMA Invariance == Spec => []Inv
<1>1. ASSUME Inv, [Next]_vars PROVE Inv'
  BY <1>1, StutterInv, StartCompressInv, AddLiteralInv, BeginRunInv, CutRunInv, EndCompressInv,
     StartDecompressInv, MeasureInv, AllocateInv, DecodeInv, EndDecodeInv DEF Next
<1> QED BY InitInv, <1>1, PTL DEF Spec

(********************************* theorems **********************************)

(* Every variable keeps its type: no tag, no literal and no position leaves   *)
(* its range, for any width of a tag and any least run.                       *)
THEOREM TypeCorrect == Spec => []TypeOK
<1>1. Inv => TypeOK BY DEF Inv
<1> QED BY Invariance, <1>1, PTL

(* Whatever compress_rle is given, what it has written and what it holds fit  *)
(* in the buffer of twice the input that it allocates.                        *)
THEOREM BufferSuffices == Spec => []RoomForEverything
<1>1. Inv => RoomForEverything
  <2> SUFFICES ASSUME Inv, pc \in {"scan", "run", "compressed"}, input # <<>>
               PROVE  Len(coded) + Held(literal) <= 2 * Len(input)
    BY DEF RoomForEverything, Held
  <2>1. /\ input \in Seq(Byte) /\ coded \in Seq(Byte) /\ literal \in Seq(Byte)
    BY DEF Inv, TypeOK
  <2>2. Len(input) \in Nat /\ Len(coded) \in Nat /\ Len(literal) \in Nat BY <2>1, LenProperties
  <2>3. CASE pc = "scan"
    <3>1. at \in 1 .. Len(input) + 1 /\ Len(coded) + Held(literal) <= 2 * (at - 1)
      BY <2>3 DEF Inv, Scanning
    <3>2. Held(literal) \in Nat BY <2>2 DEF Held
    <3> QED BY <2>2, <3>1, <3>2
  <2>4. CASE pc = "run"
    <3> DEFINE n == RunLength(input, at)
    <3>1. /\ at \in 1 .. Len(input) /\ literal = <<>> /\ remaining \in 1 .. n
          /\ Len(coded) <= 2 * (at - 1 + n - remaining)
      BY <2>4 DEF Inv, Running
    <3>2. n \in 1 .. Len(input) - at + 1 BY <2>1, <3>1, InsideARun
    <3>3. Held(literal) = 0 BY <3>1 DEF Held
    <3> HIDE DEF n
    <3> QED BY <2>2, <3>1, <3>2, <3>3
  <2>5. CASE pc = "compressed"
    <3>1. literal = <<>> /\ Len(coded) <= 2 * Len(input) BY <2>5 DEF Inv, Kept
    <3>2. Held(literal) = 0 BY <3>1 DEF Held
    <3> QED BY <2>2, <3>1, <3>2
  <2> QED BY <2>3, <2>4, <2>5
<1> QED BY Invariance, <1>1, PTL

(* For any bytes, damaged or not, the second pass of decompress_rle accepts   *)
(* what the first has accepted and fills the buffer exactly.                  *)
THEOREM TwoPassesAgree == Spec => []PassesAgree
<1>1. Inv => PassesAgree BY DEF Inv, Finished, PassesAgree, Returned
<1> QED BY Invariance, <1>1, PTL

(* For any input, width of a tag and least run: what compress_rle made is     *)
(* decoded, and to the input exactly if none of its runs leaves a remainder   *)
(* shorter than a run.                                                        *)
THEOREM LosslessExactly == Spec => []LosslessUnlessShortRemainder
<1>1. Inv => LosslessUnlessShortRemainder
  <2> SUFFICES ASSUME Inv, pc = "done", input # <<>>, error # -2
               PROVE  error = 0 /\ (output = input <=> ~ShortRemainder(input))
    BY DEF LosslessUnlessShortRemainder
  <2>1. /\ input \in Seq(Byte) /\ output \in Seq(Byte) /\ error = 0
        /\ Image(input, output, Len(input) + 1, Len(input))
    BY DEF Inv, TypeOK, Finished
  <2>2. ShortRemainder(input) <=> ShortBefore(input, Len(input) + 1)
    <3>1. Len(input) \in Nat BY <2>1, LenProperties
    <3>2. \A j \in 1 .. Len(input) : j < Len(input) + 1 BY <3>1
    <3> QED BY <3>2 DEF ShortRemainder, ShortBefore, ShortAt
  <2>3. CASE ShortRemainder(input)
    <3>1. Len(output) > Len(input) BY <2>1, <2>2, <2>3 DEF Image
    <3>2. Len(input) \in Nat BY <2>1, LenProperties
    <3> QED BY <2>1, <2>3, <3>1, <3>2
  <2>4. CASE ~ShortRemainder(input)
    <3>1. Len(output) = Len(input) /\ \A j \in 1 .. Len(input) : output[j] = input[j]
      BY <2>1, <2>2, <2>4 DEF Image
    <3>2. output = input BY <2>1, <3>1, SeqEqual
    <3> QED BY <2>1, <2>4, <3>2
  <2> QED BY <2>3, <2>4
<1> QED BY Invariance, <1>1, PTL
==============================================================================

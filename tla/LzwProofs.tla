------------------------------- MODULE LzwProofs -------------------------------
(* What holds of Lzw for an alphabet and a dictionary of any size, for every  *)
(* input and every damaged file: above all, that every input comes back.      *)
(* What a code stands for is a recursive function over the dictionary; all    *)
(* that is said of it rests on a set of naturals having a least element.      *)
EXTENDS Lzw, SequenceTheorems, WellFoundedInduction, TLAPS

LEMMA Parameters ==
    /\ Base \in Nat \ {0} /\ MaxDict \in Nat /\ MaxDict > Base
    /\ \A b : b \in Byte <=> b \in Nat /\ b < Base
BY LzwAssumption DEF Byte

(* A set of naturals has a least element.                                     *)
LEMMA Least ==
    ASSUME NEW T, T \subseteq Nat, T # {}
    PROVE  \E x \in T : \A y \in T : x <= y
<1> DEFINE R == OpToRel(<, Nat)
<1>1. IsWellFoundedOn(R, Nat) BY NatLessThanWellFounded
<1>2. \A x, y \in Nat : y < x => <<y, x>> \in R BY DEF OpToRel
<1> HIDE DEF R
<1>3. PICK x \in T : \A y \in T : ~(<<y, x>> \in R) BY <1>1, WFMin
<1>4. \A y \in T : ~(y < x) BY <1>2, <1>3
<1> QED BY <1>3, <1>4

(**************************** what a code stands for *************************)

(* A dictionary whose entries lead back.                                      *)
IsDictionary(d) ==
    /\ d \in Dictionary
    /\ DictSize(d) <= MaxDict
    /\ \A k \in 1 .. Len(d) : d[k].prefix < Base + k - 1

(* The entry of a code that is no byte.                                       *)
Prefix(d, k) == d[k - Base + 1].prefix
Value(d, k) == d[k - Base + 1].value

LEMMA DictionaryFacts ==
    ASSUME NEW d, IsDictionary(d)
    PROVE  /\ Len(d) \in Nat /\ DictSize(d) \in Nat /\ DictSize(d) = Base + Len(d)
           /\ \A k \in Base .. DictSize(d) - 1 :
                 /\ k - Base + 1 \in 1 .. Len(d)
                 /\ Prefix(d, k) \in Nat /\ Prefix(d, k) < k /\ Value(d, k) \in Byte
<1>1. Len(d) \in Nat BY LenProperties DEF IsDictionary, Dictionary
<1>2. DictSize(d) \in Nat /\ DictSize(d) = Base + Len(d) BY <1>1, Parameters DEF DictSize
<1>3. ASSUME NEW k \in Base .. DictSize(d) - 1
      PROVE  /\ k - Base + 1 \in 1 .. Len(d)
             /\ Prefix(d, k) \in Nat /\ Prefix(d, k) < k /\ Value(d, k) \in Byte
  <2> DEFINE i == k - Base + 1
  <2>1. i \in 1 .. Len(d) /\ Base + i - 1 = k BY <1>1, <1>2, Parameters
  <2>2. d[i] \in Entry BY <2>1, ElementOfSeq DEF IsDictionary, Dictionary
  <2>3. d[i].prefix \in Nat /\ d[i].value \in Byte BY <2>2 DEF Entry
  <2>4. d[i].prefix < Base + i - 1 BY <2>1 DEF IsDictionary
  <2> HIDE DEF i
  <2>5. d[i].prefix < k BY <2>1, <2>4
  <2>6. Prefix(d, k) = d[i].prefix /\ Value(d, k) = d[i].value BY DEF i, Prefix, Value
  <2> QED BY <2>1, <2>3, <2>5, <2>6 DEF i
<1> QED BY <1>1, <1>2, <1>3

(* What the codes below n stand for, as build_sequence finds it.              *)
Bytes(d, n, f) ==
    f = [k \in 0 .. n - 1 |-> IF k < Base THEN <<k>> ELSE Append(f[Prefix(d, k)], Value(d, k))]

LEMMA BytesExist == ASSUME NEW d, IsDictionary(d) PROVE \E f : Bytes(d, DictSize(d), f)
<1> DEFINE T == {n \in 0 .. DictSize(d) : ~(\E f : Bytes(d, n, f))}
<1>0. DictSize(d) \in Nat BY DictionaryFacts
<1>1. SUFFICES ASSUME T # {} PROVE FALSE
  <2>1. DictSize(d) \in 0 .. DictSize(d) BY <1>0
  <2> QED BY <2>1
<1>2. PICK n \in T : \A m \in T : n <= m
  <2>1. T \subseteq Nat BY <1>0
  <2> HIDE DEF T
  <2> QED BY <1>1, <2>1, Least
<1>3. n \in 0 .. DictSize(d) /\ ~(\E f : Bytes(d, n, f)) OBVIOUS
<1>4. n # 0
  <2>1. Bytes(d, 0, [k \in {} |-> 0]) BY DEF Bytes
  <2> QED BY <1>3, <2>1
<1>5. PICK f : Bytes(d, n - 1, f)
  <2>1. n - 1 \in 0 .. DictSize(d) /\ ~(n <= n - 1) BY <1>0, <1>3, <1>4
  <2>2. n - 1 \notin T BY <1>2, <2>1
  <2> QED BY <2>1, <2>2
<1> DEFINE last == n - 1
           Rec(h, k) == IF k < Base THEN <<k>> ELSE Append(h[Prefix(d, k)], Value(d, k))
           g == [k \in 0 .. n - 1 |-> IF k = last THEN Rec(f, k) ELSE f[k]]
<1>6. ASSUME NEW k \in 0 .. n - 1 PROVE g[k] = Rec(g, k)
  <2>1. k < Base \/ (Prefix(d, k) \in 0 .. n - 1 /\ Prefix(d, k) # last)
    <3>1. CASE k < Base BY <3>1
    <3>2. CASE ~(k < Base)
      <4>1. k \in Base .. DictSize(d) - 1 BY <1>0, <1>3, <3>2, Parameters
      <4>2. Prefix(d, k) \in Nat /\ Prefix(d, k) < k BY <4>1, DictionaryFacts
      <4> QED BY <1>3, <4>2
    <3> QED BY <3>1, <3>2
  <2>2. k < Base \/ g[Prefix(d, k)] = f[Prefix(d, k)] BY <2>1
  <2>3. Rec(g, k) = Rec(f, k)
    <3> HIDE DEF g
    <3> QED BY <2>2
  <2>4. CASE k = last BY <2>3, <2>4
  <2>5. CASE k # last
    <3>1. k \in 0 .. (n - 1) - 1 BY <1>3, <2>5
    <3>2. f[k] = Rec(f, k) BY <1>5, <3>1 DEF Bytes
    <3> QED BY <2>3, <2>5, <3>2
  <2> QED BY <2>4, <2>5
<1>7. g = [k \in 0 .. n - 1 |-> Rec(g, k)]
  <2>1. DOMAIN g = 0 .. n - 1 /\ g = [k \in 0 .. n - 1 |-> g[k]] OBVIOUS
  <2> HIDE DEF g
  <2> QED BY <1>6, <2>1
<1>8. Bytes(d, n, g)
  <2> HIDE DEF g
  <2> QED BY <1>7 DEF Bytes
<1> QED BY <1>3, <1>8

(* build_sequence: a byte stands for itself, an entry for what its prefix     *)
(* does and its own byte.                                                     *)
LEMMA SequenceIs ==
    ASSUME NEW d, IsDictionary(d), NEW k \in 0 .. DictSize(d) - 1
    PROVE  /\ k < Base => Sequence(d, k) = <<k>>
           /\ ~(k < Base) => Sequence(d, k) = Append(Sequence(d, Prefix(d, k)), Value(d, k))
<1> DEFINE F == CHOOSE f : Bytes(d, DictSize(d), f)
<1>1. Bytes(d, DictSize(d), F) BY BytesExist
<1>2. \A j : Sequence(d, j) = F[j] BY Zenon DEF Sequence, Bytes, Prefix, Value
<1> HIDE DEF F
<1>3. F[k] = IF k < Base THEN <<k>> ELSE Append(F[Prefix(d, k)], Value(d, k))
  BY <1>1 DEF Bytes
<1> QED BY <1>2, <1>3

(* It is a string of bytes, no longer than the code is large, by which        *)
(* MAX_SEQUENCE_LENGTH suffices.                                              *)
IsWord(w, k) == w \in Seq(Byte) /\ Len(w) >= 1 /\ Len(w) <= k + 1

LEMMA SequenceIsWord ==
    ASSUME NEW d, IsDictionary(d)
    PROVE  \A k \in 0 .. DictSize(d) - 1 : IsWord(Sequence(d, k), k)
<1> DEFINE T == {k \in 0 .. DictSize(d) - 1 : ~IsWord(Sequence(d, k), k)}
<1>0. DictSize(d) \in Nat BY DictionaryFacts
<1>1. SUFFICES ASSUME T # {} PROVE FALSE OBVIOUS
<1>2. PICK n \in T : \A m \in T : n <= m
  <2>1. T \subseteq Nat BY <1>0
  <2> HIDE DEF T
  <2> QED BY <1>1, <2>1, Least
<1>3. n \in 0 .. DictSize(d) - 1 /\ ~IsWord(Sequence(d, n), n) OBVIOUS
<1>4. CASE n < Base
  <2>1. Sequence(d, n) = <<n>> BY <1>3, <1>4, SequenceIs
  <2>2. n \in Byte BY <1>0, <1>3, <1>4, Parameters
  <2>3. <<n>> \in Seq(Byte) /\ Len(<<n>>) = 1 /\ 1 <= n + 1 BY <1>3, <2>2
  <2> QED BY <1>3, <2>1, <2>3 DEF IsWord
<1>5. CASE ~(n < Base)
  <2> DEFINE p == Prefix(d, n)
             w == Sequence(d, p)
  <2>1. n \in Base .. DictSize(d) - 1 BY <1>0, <1>3, <1>5, Parameters
  <2>2. p \in Nat /\ p < n /\ Value(d, n) \in Byte BY <2>1, DictionaryFacts
  <2>3. p \in 0 .. DictSize(d) - 1 /\ ~(n <= p) BY <1>0, <1>3, <2>2
  <2>4. IsWord(w, p)
    <3>1. p \notin T BY <1>2, <2>3
    <3> QED BY <2>3, <3>1
  <2>5. Sequence(d, n) = Append(w, Value(d, n)) BY <1>3, <1>5, SequenceIs
  <2>6. /\ Append(w, Value(d, n)) \in Seq(Byte)
        /\ Len(Append(w, Value(d, n))) = Len(w) + 1
    BY <2>2, <2>4, AppendProperties DEF IsWord
  <2>7. Len(w) \in Nat /\ Len(w) <= p + 1 BY <2>4, LenProperties DEF IsWord
  <2>8. Len(w) + 1 >= 1 /\ Len(w) + 1 <= n + 1
    <3> HIDE DEF p, w
    <3> QED BY <2>2, <2>3, <2>7, <1>3
  <2> QED BY <1>3, <2>5, <2>6, <2>8 DEF IsWord
<1> QED BY <1>4, <1>5

(* A dictionary that grows does not change what its codes stand for.          *)
Extends(e, d) == Len(d) <= Len(e) /\ \A i \in 1 .. Len(d) : d[i] = e[i]

LEMMA SequenceKept ==
    ASSUME NEW d, NEW e, IsDictionary(d), IsDictionary(e), Extends(e, d)
    PROVE  \A k \in 0 .. DictSize(d) - 1 :
              k \in 0 .. DictSize(e) - 1 /\ Sequence(e, k) = Sequence(d, k)
<1> DEFINE T == {k \in 0 .. DictSize(d) - 1 : Sequence(e, k) # Sequence(d, k)}
<1>0. /\ DictSize(d) \in Nat /\ DictSize(e) \in Nat /\ DictSize(d) <= DictSize(e)
      /\ \A k \in 0 .. DictSize(d) - 1 : k \in 0 .. DictSize(e) - 1
  <2>1. /\ DictSize(d) \in Nat /\ DictSize(d) = Base + Len(d) /\ Len(d) \in Nat
        /\ DictSize(e) \in Nat /\ DictSize(e) = Base + Len(e) /\ Len(e) \in Nat
        /\ Len(d) <= Len(e) /\ Base \in Nat
    BY DictionaryFacts, Parameters DEF Extends
  <2>2. DictSize(d) <= DictSize(e) BY <2>1
  <2> QED BY <2>1, <2>2
<1>1. SUFFICES ASSUME T # {} PROVE FALSE BY <1>0
<1>2. PICK n \in T : \A m \in T : n <= m
  <2>1. T \subseteq Nat BY <1>0
  <2> HIDE DEF T
  <2> QED BY <1>1, <2>1, Least
<1>3. /\ n \in 0 .. DictSize(d) - 1 /\ n \in 0 .. DictSize(e) - 1
      /\ Sequence(e, n) # Sequence(d, n)
  BY <1>0
<1>4. CASE n < Base
  BY <1>3, <1>4, SequenceIs
<1>5. CASE ~(n < Base)
  <2> DEFINE p == Prefix(d, n)
  <2>1. n \in Base .. DictSize(d) - 1 BY <1>0, <1>3, <1>5, Parameters
  <2>2. p \in Nat /\ p < n /\ n - Base + 1 \in 1 .. Len(d) BY <2>1, DictionaryFacts
  <2>3. Prefix(e, n) = p /\ Value(e, n) = Value(d, n)
    BY <2>2 DEF Extends, Prefix, Value
  <2>4. p \in 0 .. DictSize(d) - 1 /\ ~(n <= p) BY <1>0, <1>3, <2>2
  <2>5. Sequence(e, p) = Sequence(d, p)
    <3>1. p \notin T BY <1>2, <2>4
    <3> QED BY <2>4, <3>1
  <2>6. /\ Sequence(d, n) = Append(Sequence(d, Prefix(d, n)), Value(d, n))
        /\ Sequence(e, n) = Append(Sequence(e, Prefix(e, n)), Value(e, n))
    BY <1>3, <1>5, SequenceIs
  <2> QED BY <1>3, <2>3, <2>5, <2>6
<1> QED BY <1>4, <1>5

(* The phrase of an entry is that of its prefix and one byte more.            *)
LEMMA SequenceOfEntry ==
    ASSUME NEW d, IsDictionary(d), NEW k \in Base .. DictSize(d) - 1
    PROVE  LET w == Sequence(d, Prefix(d, k))
               v == Sequence(d, k)
           IN /\ v = Append(w, Value(d, k)) /\ Len(v) = Len(w) + 1
              /\ Len(w) \in Nat /\ Len(w) >= 1
              /\ \A j \in 1 .. Len(w) : v[j] = w[j]
              /\ v[1] = w[1] /\ v[Len(w) + 1] = Value(d, k)
<1> DEFINE w == Sequence(d, Prefix(d, k))
           v == Sequence(d, k)
<1>0. DictSize(d) \in Nat /\ k \in Nat /\ k < DictSize(d) /\ ~(k < Base)
  BY DictionaryFacts, Parameters
<1>1. Prefix(d, k) \in 0 .. DictSize(d) - 1 /\ Value(d, k) \in Byte
  <2>1. Prefix(d, k) \in Nat /\ Prefix(d, k) < k /\ Value(d, k) \in Byte BY DictionaryFacts
  <2> QED BY <1>0, <2>1
<1>2. v = Append(w, Value(d, k)) BY <1>0, SequenceIs
<1>3. w \in Seq(Byte) /\ Len(w) >= 1 BY <1>1, SequenceIsWord DEF IsWord
<1> HIDE DEF w, v
<1>4. Len(w) \in Nat BY <1>3, LenProperties
<1>5. /\ Len(v) = Len(w) + 1 /\ v[Len(w) + 1] = Value(d, k)
      /\ \A j \in 1 .. Len(w) : v[j] = w[j]
  BY <1>1, <1>2, <1>3, AppendProperties
<1>6. 1 \in 1 .. Len(w) BY <1>3, <1>4
<1> QED BY <1>2, <1>3, <1>4, <1>5, <1>6 DEF w, v

(* The entries of a dictionary to which i of them were offered.               *)
Grown(i) == IF i <= MaxDict - Base THEN i ELSE MaxDict - Base

(* A dictionary that takes an entry leading to a code it has stays one, and   *)
(* loses no code.                                                             *)

LEMMA AddedIsDictionary ==
    ASSUME NEW d, NEW p \in Nat, NEW v \in Byte, IsDictionary(d), p < DictSize(d)
    PROVE  LET e == Added(d, p, v)
           IN /\ IsDictionary(e) /\ Extends(e, d)
              /\ \A i \in Nat : Len(d) = Grown(i) => Len(e) = Grown(i + 1)
              /\ \A i \in 1 .. Len(e) :
                    \/ i \in 1 .. Len(d)
                    \/ i = Len(d) + 1 /\ e[i].prefix = p /\ e[i].value = v
<1> DEFINE new == [prefix |-> p, value |-> v]
           e == Added(d, p, v)
<1>1. Len(d) \in Nat /\ DictSize(d) = Base + Len(d) BY DictionaryFacts
<1>2. CASE ~HasRoom(d)
  <2>1. e = d /\ DictSize(d) >= MaxDict BY <1>1, <1>2, Parameters DEF Added, HasRoom
  <2>2. Extends(d, d) BY <1>1 DEF Extends
  <2>3. \A i \in Nat : Len(d) = Grown(i) => Len(d) = Grown(i + 1)
    BY <1>1, <2>1, Parameters DEF Grown
  <2> QED BY <2>1, <2>2, <2>3
<1>3. CASE HasRoom(d)
  <2>1. e = Append(d, new) /\ Base + Len(d) < MaxDict BY <1>1, <1>3 DEF Added, HasRoom
  <2>2. new \in Entry /\ d \in Seq(Entry) BY DEF Entry, IsDictionary, Dictionary
  <2>3. /\ e \in Dictionary /\ Len(e) = Len(d) + 1 /\ e[Len(d) + 1] = new
        /\ \A i \in 1 .. Len(d) : e[i] = d[i]
    <3> HIDE DEF new, e
    <3> QED BY <2>1, <2>2, AppendProperties DEF Dictionary
  <2>4. new.prefix = p /\ new.value = v OBVIOUS
  <2> HIDE DEF e, new
  <2>5. DictSize(e) <= MaxDict BY <1>1, <2>1, <2>3, Parameters DEF DictSize
  <2>6. \A i \in 1 .. Len(e) : i \in 1 .. Len(d) \/ i = Len(d) + 1 BY <1>1, <2>3
  <2>7. ASSUME NEW i \in 1 .. Len(e) PROVE e[i].prefix < Base + i - 1
    <3>1. CASE i \in 1 .. Len(d) BY <2>3, <3>1 DEF IsDictionary
    <3>2. CASE i = Len(d) + 1 BY <1>1, <2>3, <2>4, <3>2, Parameters
    <3> QED BY <2>6, <3>1, <3>2
  <2>8. IsDictionary(e) BY <2>3, <2>5, <2>7 DEF IsDictionary
  <2>9. Extends(e, d) BY <1>1, <2>3 DEF Extends
  <2>10. \A i \in Nat : Len(d) = Grown(i) => Len(e) = Grown(i + 1)
    BY <1>1, <2>1, <2>3, Parameters DEF Grown
  <2> QED BY <2>3, <2>4, <2>6, <2>8, <2>9, <2>10 DEF e
<1> QED BY <1>2, <1>3

(**************************** what the codes spell ***************************)

(* The i-th of the codes cs stands for the bytes of s behind M[i], up to the  *)
(* next code, or to n behind the last; it was in the dictionary when written. *)
Spells(cs, d, s, n, M, i) ==
    LET w == Sequence(d, cs[i])
    IN /\ cs[i] \in Nat /\ cs[i] < Base + Grown(i - 1)
       /\ M[i] + Len(w) <= n
       /\ M[i] + Len(w) = IF i = Len(cs) THEN n ELSE M[i + 1]
       /\ \A j \in 1 .. Len(w) : s[M[i] + j] = w[j]

(* An entry is a code and the first byte of what the next code stands for.    *)
EntryIs(cs, d, i) == d[i].prefix = cs[i] /\ d[i].value = Sequence(d, cs[i + 1])[1]

(* The codes cs spell the first n bytes of s, and d is what they made.        *)
Encoded(cs, d, s, n, M) ==
    /\ cs \in Seq(Nat) /\ Len(cs) >= 1
    /\ IsDictionary(d) /\ Len(d) = Grown(Len(cs) - 1)
    /\ M \in [1 .. Len(cs) -> Nat] /\ M[1] = 0
    /\ \A i \in 1 .. Len(cs) : Spells(cs, d, s, n, M, i)
    /\ \A i \in 1 .. Len(d) : EntryIs(cs, d, i)

LEMMA GrownFacts ==
    /\ Grown(0) = 0
    /\ \A i \in Nat : Grown(i) \in Nat /\ Grown(i) <= i /\ Grown(i) <= Grown(i + 1)
    /\ \A i, j \in Nat : i <= j => Grown(i) <= Grown(j)
    /\ \A i, j \in Nat : j < Grown(i) => Grown(j) = j /\ Grown(j + 1) = j + 1
BY Parameters DEF Grown

(* Every code of them has a meaning.                                          *)
LEMMA EncodedCodes ==
    ASSUME NEW cs, NEW d, NEW s, NEW n \in Nat, NEW M, Encoded(cs, d, s, n, M),
           NEW i \in 1 .. Len(cs)
    PROVE  /\ cs[i] \in 0 .. DictSize(d) - 1
           /\ IsWord(Sequence(d, cs[i]), cs[i]) /\ Len(Sequence(d, cs[i])) \in Nat
<1>1. Len(cs) \in Nat BY LenProperties DEF Encoded
<1>2. /\ DictSize(d) \in Nat /\ DictSize(d) = Base + Len(d) /\ IsDictionary(d)
      /\ Len(d) = Grown(Len(cs) - 1)
  BY DictionaryFacts DEF Encoded
<1>3. cs[i] \in Nat /\ cs[i] < Base + Grown(i - 1) BY DEF Encoded, Spells
<1>4. /\ i - 1 \in Nat /\ Len(cs) - 1 \in Nat /\ i - 1 <= Len(cs) - 1 BY <1>1
<1>5. Grown(i - 1) <= Grown(Len(cs) - 1) /\ Grown(i - 1) \in Nat /\ Grown(Len(cs) - 1) \in Nat
  BY <1>4, GrownFacts
<1>6. cs[i] \in 0 .. DictSize(d) - 1 BY <1>2, <1>3, <1>5, Parameters
<1>7. IsWord(Sequence(d, cs[i]), cs[i]) BY <1>2, <1>6, SequenceIsWord
<1> QED BY <1>6, <1>7, LenProperties DEF IsWord

(* The first byte is the first code.                                          *)
LEMMA FirstCode ==
    ASSUME NEW s, s[1] \in Byte
    PROVE  Encoded(<<s[1]>>, <<>>, s, 1, [i \in {1} |-> 0])
<1> DEFINE b == s[1]
           cs == <<b>>
           M == [i \in {1} |-> 0]
<1>1. b \in Nat /\ b < Base BY Parameters
<1>2. cs \in Seq(Nat) /\ Len(cs) = 1 /\ cs[1] = b BY <1>1
<1>3. IsDictionary(<<>>) /\ Len(<<>>) = 0
  BY Parameters DEF IsDictionary, DictSize, Dictionary
<1>4. DictSize(<<>>) = Base BY Parameters DEF DictSize
<1>5. Sequence(<<>>, b) = <<b>>
  <2>1. b \in 0 .. DictSize(<<>>) - 1 BY <1>1, <1>4, Parameters
  <2> QED BY <1>1, <1>3, <2>1, SequenceIs
<1>6. M \in [1 .. 1 -> Nat] /\ M[1] = 0
  <2>1. 1 .. 1 = {1} OBVIOUS
  <2> QED BY <2>1
<1>7. Spells(cs, <<>>, s, 1, M, 1)
  <2>1. Len(<<b>>) = 1 /\ <<b>>[1] = b OBVIOUS
  <2>2. Grown(1 - 1) = 0 BY GrownFacts
  <2>3. \A j \in 1 .. 1 : s[0 + j] = <<b>>[j]
    <3>1. \A j \in 1 .. 1 : 0 + j = 1 /\ j = 1 OBVIOUS
    <3> QED BY <2>1, <3>1
  <2> DEFINE w == Sequence(<<>>, cs[1])
  <2>4. w = <<b>> BY <1>2, <1>5
  <2> HIDE DEF M, cs, w
  <2>5. Len(w) = 1 /\ \A j \in 1 .. Len(w) : s[M[1] + j] = w[j]
    BY <1>6, <2>1, <2>3, <2>4
  <2>6. cs[1] \in Nat /\ cs[1] < Base + Grown(1 - 1) BY <1>1, <1>2, <2>2, Parameters
  <2>7. M[1] + Len(w) = 1 /\ Len(cs) = 1 BY <1>2, <1>6, <2>5
  <2> QED BY <2>5, <2>6, <2>7 DEF Spells, w
<1>8. Grown(1 - 1) = 0 BY GrownFacts
<1> HIDE DEF M, cs
<1> QED BY <1>2, <1>3, <1>6, <1>7, <1>8 DEF Encoded

(* The last code is replaced by that of its phrase and the next byte.         *)
LEMMA LongerPhrase ==
    ASSUME NEW c \in Seq(Nat), NEW k \in Nat, NEW d, NEW s, NEW n \in Nat, NEW M,
           Encoded(Append(c, k), d, s, n, M),
           NEW l \in Base .. DictSize(d) - 1, Prefix(d, l) = k, Value(d, l) = s[n + 1]
    PROVE  Encoded(Append(c, l), d, s, n + 1, M)
<1> DEFINE a == Append(c, k)
           b == Append(c, l)
           m == Len(c) + 1
<1>1. /\ IsDictionary(d) /\ Len(d) = Grown(Len(a) - 1)
      /\ M \in [1 .. Len(a) -> Nat] /\ M[1] = 0
      /\ \A i \in 1 .. Len(a) : Spells(a, d, s, n, M, i)
      /\ \A i \in 1 .. Len(d) : EntryIs(a, d, i)
  BY DEF Encoded
<1>2. /\ l \in Nat /\ Len(c) \in Nat /\ Base \in Nat
      /\ DictSize(d) = Base + Len(d) /\ Len(d) \in Nat
  <2>1. DictSize(d) = Base + Len(d) /\ Len(d) \in Nat /\ DictSize(d) \in Nat /\ Base \in Nat
    BY <1>1, DictionaryFacts, Parameters
  <2>2. Len(c) \in Nat BY LenProperties
  <2> QED BY <2>1, <2>2
<1>3. /\ Len(a) = m /\ a[m] = k /\ a \in Seq(Nat) /\ \A i \in 1 .. Len(c) : a[i] = c[i]
      /\ Len(b) = m /\ b[m] = l /\ b \in Seq(Nat) /\ \A i \in 1 .. Len(c) : b[i] = c[i]
  BY <1>2, AppendProperties
<1>4. m \in Nat /\ m >= 1 /\ m - 1 = Len(c) /\ m \in 1 .. m BY <1>2
<1> DEFINE w == Sequence(d, k)
           v == Sequence(d, l)
<1>5. /\ Len(v) = Len(w) + 1 /\ Len(w) \in Nat /\ Len(w) >= 1
      /\ \A j \in 1 .. Len(w) : v[j] = w[j]
      /\ v[1] = w[1] /\ v[Len(w) + 1] = s[n + 1]
  BY <1>1, SequenceOfEntry
<1>6. /\ M[m] \in Nat /\ M[m] + Len(w) = n /\ \A j \in 1 .. Len(w) : s[M[m] + j] = w[j]
  <2>1. Spells(a, d, s, n, M, m) BY <1>1, <1>3, <1>4
  <2>2. M[m] \in Nat BY <1>1, <1>3, <1>4
  <2> HIDE DEF a
  <2> QED BY <1>3, <2>1, <2>2 DEF Spells
<1> HIDE DEF a, b, m, w, v
<1>0. M[m] \in Nat /\ Len(w) \in Nat /\ M[m] + Len(w) = n /\ Len(v) = Len(w) + 1
  BY <1>5, <1>6
<1>7. Spells(b, d, s, n + 1, M, m)
  <2>1. l < Base + Grown(m - 1)
    BY <1>1, <1>2, <1>3
  <2>2. M[m] + Len(v) = n + 1 BY <1>0
  <2>3. ASSUME NEW j \in 1 .. Len(v) PROVE s[M[m] + j] = v[j]
    <3>1. CASE j \in 1 .. Len(w) BY <1>5, <1>6, <3>1
    <3>2. CASE j = Len(w) + 1
      <4>1. M[m] + j = n + 1 BY <1>0, <3>2
      <4> QED BY <1>5, <3>2, <4>1
    <3>3. j \in 1 .. Len(w) \/ j = Len(w) + 1 BY <1>5
    <3> QED BY <3>1, <3>2, <3>3
  <2>4. n + 1 <= n + 1 OBVIOUS
  <2>5. b[m] = l /\ m = Len(b) BY <1>3
  <2> QED BY <1>2, <2>1, <2>2, <2>3, <2>4, <2>5 DEF Spells, v
<1>8. ASSUME NEW i \in 1 .. m, i # m PROVE Spells(b, d, s, n + 1, M, i)
  <2>0. i \in 1 .. Len(c) BY <1>2, <1>4, <1>8
  <2>1. a[i] = b[i] /\ i # Len(a) /\ i # Len(b) BY <1>3, <1>8, <2>0
  <2>2. Spells(a, d, s, n, M, i) BY <1>1, <1>3
  <2>3. M[i] \in Nat /\ Len(Sequence(d, a[i])) \in Nat
    BY <1>1, <1>3, EncodedCodes DEF a
  <2>4. M[i] + Len(Sequence(d, b[i])) <= n + 1 BY <2>1, <2>2, <2>3 DEF Spells
  <2> QED BY <2>1, <2>2, <2>4 DEF Spells
<1>9. ASSUME NEW i \in 1 .. Len(d) PROVE EntryIs(b, d, i)
  <2>1. Len(d) <= m - 1
    <3>1. m - 1 \in Nat /\ Len(a) - 1 = m - 1 BY <1>3, <1>4
    <3> QED BY <1>1, <3>1, GrownFacts
  <2>2. i \in 1 .. Len(c) /\ (i + 1 \in 1 .. Len(c) \/ i + 1 = m) BY <1>2, <1>4, <2>1
  <2>3. a[i] = b[i] BY <1>3, <2>2
  <2>4. EntryIs(a, d, i) BY <1>1
  <2>5. Sequence(d, a[i + 1])[1] = Sequence(d, b[i + 1])[1]
    <3>1. CASE i + 1 \in 1 .. Len(c) BY <1>3, <3>1
    <3>2. CASE i + 1 = m BY <1>3, <1>5, <3>2 DEF v, w
    <3> QED BY <2>2, <3>1, <3>2
  <2> QED BY <2>3, <2>4, <2>5 DEF EntryIs
<1>10. Encoded(b, d, s, n + 1, M)
  BY <1>1, <1>3, <1>4, <1>7, <1>8, <1>9 DEF Encoded
<1> QED BY <1>10 DEF b

(* The last code is written, and its phrase with the next byte entered.       *)
LEMMA NextCode ==
    ASSUME NEW c \in Seq(Nat), NEW k \in Nat, NEW d, NEW s, NEW n \in Nat, NEW M,
           Encoded(Append(c, k), d, s, n, M), s[n + 1] \in Byte
    PROVE  LET e == Added(d, k, s[n + 1])
               cs == Append(Append(c, k), s[n + 1])
           IN \E N : Encoded(cs, e, s, n + 1, N)
<1> DEFINE x == s[n + 1]
           a == Append(c, k)
           e == Added(d, k, x)
           b == Append(a, x)
           m == Len(a) + 1
           N == [i \in 1 .. m |-> IF i = m THEN n ELSE M[i]]
<1>1. /\ a \in Seq(Nat) /\ Len(a) >= 1
      /\ IsDictionary(d) /\ Len(d) = Grown(Len(a) - 1)
      /\ M \in [1 .. Len(a) -> Nat] /\ M[1] = 0
      /\ \A i \in 1 .. Len(a) : Spells(a, d, s, n, M, i)
      /\ \A i \in 1 .. Len(d) : EntryIs(a, d, i)
  BY DEF Encoded
<1>2. /\ x \in Nat /\ x < Base /\ Len(a) \in Nat /\ Base \in Nat
      /\ DictSize(d) = Base + Len(d) /\ Len(d) \in Nat
  BY <1>1, DictionaryFacts, Parameters, LenProperties
<1>3. /\ Len(b) = m /\ b[m] = x /\ b \in Seq(Nat) /\ \A i \in 1 .. Len(a) : b[i] = a[i]
  <2> HIDE DEF a, x
  <2> QED BY <1>1, <1>2, AppendProperties
<1>4. a[Len(a)] = k
  <2>1. Len(c) \in Nat BY LenProperties
  <2> QED BY <2>1, AppendProperties
<1>5. m \in Nat /\ m >= 2 /\ m - 1 = Len(a) /\ m \in 1 .. m /\ Len(a) \in 1 .. Len(a)
  BY <1>1, <1>2
<1> HIDE DEF a, x
<1>6. /\ \A i \in 1 .. Len(a) : a[i] \in 0 .. DictSize(d) - 1
      /\ \A i \in 1 .. Len(a) :
            IsWord(Sequence(d, a[i]), a[i]) /\ Len(Sequence(d, a[i])) \in Nat
  BY EncodedCodes DEF a
<1>7. k < DictSize(d)
  <2>1. k \in 0 .. DictSize(d) - 1 BY <1>4, <1>5, <1>6
  <2> QED BY <1>2, <2>1
<1>8. /\ IsDictionary(e) /\ Extends(e, d)
      /\ \A i \in Nat : Len(d) = Grown(i) => Len(e) = Grown(i + 1)
      /\ \A i \in 1 .. Len(e) :
            \/ i \in 1 .. Len(d)
            \/ i = Len(d) + 1 /\ e[i].prefix = k /\ e[i].value = x
  <2>1. x \in Byte BY DEF x
  <2> QED BY <1>1, <1>7, <2>1, AddedIsDictionary
<1> HIDE DEF e, b
<1>9. Len(e) = Grown(m - 1)
  <2>1. Len(a) - 1 \in Nat /\ (Len(a) - 1) + 1 = m - 1 BY <1>1, <1>2
  <2> QED BY <1>1, <1>8, <2>1
<1>10. /\ \A i \in 1 .. Len(a) : Sequence(e, a[i]) = Sequence(d, a[i])
       /\ Sequence(e, x) = <<x>>
  <2>1. \A j \in 0 .. DictSize(d) - 1 : Sequence(e, j) = Sequence(d, j)
    BY <1>1, <1>8, SequenceKept
  <2>2. x \in 0 .. DictSize(e) - 1
    <3>1. DictSize(e) \in Nat /\ DictSize(e) = Base + Len(e) /\ Len(e) \in Nat
      BY <1>8, DictionaryFacts
    <3> QED BY <1>2, <3>1
  <2> QED BY <1>2, <1>6, <1>8, <2>1, <2>2, SequenceIs
<1>11. /\ N \in [1 .. m -> Nat] /\ N[1] = 0 /\ N[m] = n
       /\ \A i \in 1 .. Len(a) : N[i] = M[i]
  <2>1. \A i \in 1 .. m : i = m \/ i \in 1 .. Len(a) BY <1>2, <1>5
  <2>2. \A i \in 1 .. Len(a) : i \in 1 .. m /\ i # m BY <1>2, <1>5
  <2>3. 1 \in 1 .. Len(a) BY <1>1, <1>2
  <2> HIDE DEF m
  <2> QED BY <1>1, <1>5, <2>1, <2>2, <2>3
<1> HIDE DEF N, m
<1>12. Spells(b, e, s, n + 1, N, m)
  <2>1. m - 1 \in Nat /\ Grown(m - 1) \in Nat
    <3>1. m - 1 \in Nat BY <1>5
    <3> QED BY <3>1, GrownFacts
  <2>2. x < Base + Grown(m - 1) BY <1>2, <2>1
  <2>3. Len(<<x>>) = 1 /\ <<x>>[1] = s[n + 1] BY DEF x
  <2>4. \A j \in 1 .. 1 : s[n + j] = <<x>>[j]
    <3>1. \A j \in 1 .. 1 : j = 1 OBVIOUS
    <3> QED BY <2>3, <3>1
  <2> DEFINE w == Sequence(e, b[m])
  <2>5. w = <<x>> BY <1>3, <1>10
  <2> HIDE DEF w
  <2>6. /\ Len(w) = 1 /\ N[m] + Len(w) = n + 1 /\ N[m] + Len(w) <= n + 1
        /\ \A j \in 1 .. Len(w) : s[N[m] + j] = w[j]
    BY <1>11, <2>3, <2>4, <2>5
  <2>7. b[m] \in Nat /\ b[m] < Base + Grown(m - 1) /\ m = Len(b) BY <1>2, <1>3, <2>2
  <2> QED BY <2>6, <2>7 DEF Spells, w
<1>13. ASSUME NEW i \in 1 .. m, i # m PROVE Spells(b, e, s, n + 1, N, i)
  <2>1. i \in 1 .. Len(a) BY <1>2, <1>5, <1>13
  <2>2. b[i] = a[i] /\ N[i] = M[i] /\ i # Len(b) BY <1>3, <1>11, <1>13, <2>1
  <2> DEFINE w == Sequence(d, a[i])
  <2>3. Sequence(e, b[i]) = w /\ Len(w) \in Nat /\ M[i] \in Nat
    BY <1>1, <1>6, <1>10, <2>1, <2>2
  <2>4. Spells(a, d, s, n, M, i) BY <1>1, <2>1
  <2>5. /\ a[i] \in Nat /\ a[i] < Base + Grown(i - 1) /\ M[i] + Len(w) <= n
        /\ M[i] + Len(w) = (IF i = Len(a) THEN n ELSE M[i + 1])
        /\ \A j \in 1 .. Len(w) : s[M[i] + j] = w[j]
    BY <2>4 DEF Spells
  <2> HIDE DEF w
  <2>6. M[i] + Len(w) = N[i + 1]
    <3>1. CASE i = Len(a)
      <4>1. i + 1 = m BY <1>2, <1>5, <3>1
      <4> QED BY <1>11, <2>5, <3>1, <4>1
    <3>2. CASE i # Len(a)
      <4>1. i + 1 \in 1 .. Len(a) BY <1>2, <2>1, <3>2
      <4> QED BY <1>11, <2>5, <3>2, <4>1
    <3> QED BY <3>1, <3>2
  <2>7. M[i] + Len(w) <= n + 1 BY <2>3, <2>5
  <2> QED BY <2>2, <2>3, <2>5, <2>6, <2>7 DEF Spells
<1>14. ASSUME NEW i \in 1 .. Len(e) PROVE EntryIs(b, e, i)
  <2>1. CASE i \in 1 .. Len(d)
    <3>1. i \in 1 .. Len(a) /\ i + 1 \in 1 .. Len(a)
      <4>1. Len(a) - 1 \in Nat BY <1>1, <1>2
      <4>2. Len(d) <= Len(a) - 1 BY <1>1, <4>1, GrownFacts
      <4> QED BY <1>2, <2>1, <4>2
    <3>2. EntryIs(a, d, i) /\ e[i] = d[i] BY <1>1, <1>8, <2>1 DEF Extends
    <3> QED BY <1>3, <1>10, <3>1, <3>2 DEF EntryIs
  <2>2. CASE ~(i \in 1 .. Len(d))
    <3>1. i = Len(d) + 1 /\ e[i].prefix = k /\ e[i].value = x BY <1>8, <2>2
    <3>2. i = Len(a)
      <4>1. Len(a) - 1 \in Nat /\ m - 1 \in Nat /\ (Len(a) - 1) + 1 = m - 1 BY <1>1, <1>2, <1>5
      <4>2. Len(d) < Len(e)
        <5>1. Len(e) \in Nat BY <1>8, DictionaryFacts
        <5> QED BY <1>2, <3>1, <5>1
      <4>3. Len(d) = Len(a) - 1
        <5>1. /\ Len(d) = Grown(Len(a) - 1) /\ Len(e) = Grown((Len(a) - 1) + 1)
          BY <1>1, <1>9, <4>1
        <5> QED BY <1>2, <4>1, <4>2, <5>1, Parameters DEF Grown
      <4> QED BY <1>2, <3>1, <4>3
    <3>3. b[i] = k BY <1>3, <1>4, <1>5, <3>2
    <3>4. b[i + 1] = x BY <1>3, <1>2, <1>5, <3>2
    <3>5. Sequence(e, b[i + 1])[1] = x BY <1>10, <3>4
    <3> QED BY <3>1, <3>3, <3>5 DEF EntryIs
  <2> QED BY <2>1, <2>2
<1>15. Encoded(b, e, s, n + 1, N)
  <2>1. Len(b) >= 1 BY <1>3, <1>5
  <2> QED BY <1>3, <1>8, <1>9, <1>11, <1>12, <1>13, <1>14, <2>1 DEF Encoded
<1> QED BY <1>15 DEF b, e, a, x

(* What a code means to a decoder, which knows the dictionary kn and has      *)
(* decoded o last.                                                            *)
MeaningFor(kn, o, c) ==
    IF c < DictSize(kn) THEN Sequence(kn, c)
    ELSE Append(Sequence(kn, o), Sequence(kn, o)[1])

(* The decoder does not have the entry that its next code may be of: but then *)
(* that is the one it is about to add, whose last byte is also its first.     *)
LEMMA DecoderFollows ==
    ASSUME NEW cs, NEW d, NEW s, NEW n \in Nat, NEW M, Encoded(cs, d, s, n, M),
           NEW i \in 2 .. Len(cs),
           NEW kn, IsDictionary(kn), Extends(d, kn), Len(kn) = Grown(i - 2)
    PROVE  /\ cs[i] < DictSize(kn) \/ (cs[i] = DictSize(kn) /\ HasRoom(kn))
           /\ MeaningFor(kn, cs[i - 1], cs[i]) = Sequence(d, cs[i])
           /\ Extends(d, Added(kn, cs[i - 1], Sequence(d, cs[i])[1]))
           /\ Len(Added(kn, cs[i - 1], Sequence(d, cs[i])[1])) = Grown(i - 1)
<1> DEFINE o == cs[i - 1]
           c == cs[i]
           w == Sequence(d, c)
           x == w[1]
           new == Added(kn, o, x)
           m == Len(cs)
<1>0. m \in Nat /\ i \in Nat /\ i >= 2 /\ i <= m /\ i \in 1 .. m /\ i - 1 \in 1 .. m
  BY LenProperties DEF Encoded
<1>1. /\ IsDictionary(d) /\ Len(d) = Grown(m - 1)
      /\ Spells(cs, d, s, n, M, i) /\ Spells(cs, d, s, n, M, i - 1)
      /\ \A j \in 1 .. Len(d) : EntryIs(cs, d, j)
  BY <1>0 DEF Encoded
<1>2. /\ c \in Nat /\ c < Base + Grown(i - 1)
      /\ o \in Nat /\ o < Base + Grown((i - 1) - 1)
  BY <1>1 DEF Spells
<1>3. /\ Len(d) \in Nat /\ DictSize(d) = Base + Len(d)
      /\ Len(kn) \in Nat /\ DictSize(kn) = Base + Len(kn) /\ Base \in Nat
  BY <1>1, DictionaryFacts, Parameters
<1>4. /\ (i - 1) - 1 = i - 2 /\ (i - 2) + 1 = i - 1 /\ i - 2 \in Nat /\ i - 1 \in Nat
      /\ m - 1 \in Nat /\ i - 1 <= m - 1 /\ (i - 1) + 1 = i
  BY <1>0
<1>5. /\ Grown(i - 2) \in Nat /\ Grown(i - 1) \in Nat /\ Grown(i - 1) <= Grown(m - 1)
      /\ Grown(i - 2) <= Grown(i - 1)
      /\ Grown(i - 2) < Grown(i - 1) =>
            Grown(i - 2) = i - 2 /\ Grown(i - 1) = i - 1 /\ i - 1 <= MaxDict - Base
  BY <1>4, Parameters DEF Grown
<1>6. o \in 0 .. DictSize(kn) - 1 /\ o < DictSize(kn)
  <2>1. o < Base + Grown(i - 2) BY <1>2, <1>4
  <2> HIDE DEF o
  <2> QED BY <1>2, <1>3, <1>5, <2>1
<1>7. /\ c \in 0 .. DictSize(d) - 1 /\ IsWord(w, c)
  BY <1>0, EncodedCodes
<1> HIDE DEF o, c, m
<1>8. x \in Byte
  <2>1. w \in Seq(Byte) /\ Len(w) >= 1 /\ Len(w) \in Nat BY <1>7, LenProperties DEF IsWord
  <2>2. 1 \in 1 .. Len(w) BY <2>1
  <2> HIDE DEF w
  <2> QED BY <2>1, <2>2, ElementOfSeq
<1>9. \A k \in 0 .. DictSize(kn) - 1 : Sequence(d, k) = Sequence(kn, k)
  BY <1>1, SequenceKept
<1>10. Grown(i - 2) < Grown(i - 1) =>
          /\ i - 1 \in 1 .. Len(d) /\ d[i - 1].prefix = o /\ d[i - 1].value = x
  <2>1. SUFFICES ASSUME Grown(i - 2) < Grown(i - 1)
        PROVE  i - 1 \in 1 .. Len(d) /\ d[i - 1].prefix = o /\ d[i - 1].value = x
    OBVIOUS
  <2>2. i - 1 \in 1 .. Len(d) BY <1>0, <1>1, <1>3, <1>4, <1>5, <2>1
  <2>3. EntryIs(cs, d, i - 1) BY <1>1, <2>2
  <2>4. d[i - 1].prefix = cs[i - 1] /\ d[i - 1].value = Sequence(d, cs[(i - 1) + 1])[1]
    BY <2>3 DEF EntryIs
  <2> QED BY <1>4, <2>2, <2>4 DEF o, c
<1>11. /\ c < DictSize(kn) \/ (c = DictSize(kn) /\ HasRoom(kn))
       /\ MeaningFor(kn, o, c) = w
  <2>1. CASE c < DictSize(kn)
    <3>1. c \in 0 .. DictSize(kn) - 1 BY <1>2, <1>3, <2>1
    <3>2. MeaningFor(kn, o, c) = w BY <1>9, <2>1, <3>1 DEF MeaningFor
    <3> QED BY <2>1, <3>2
  <2>2. CASE ~(c < DictSize(kn))
    <3>1. Grown(i - 2) < Grown(i - 1) BY <1>2, <1>3, <1>5, <2>2
    <3>2. c = Base + (i - 2) /\ DictSize(kn) = Base + (i - 2) /\ i - 1 <= MaxDict - Base
      <4>1. Grown(i - 2) = i - 2 /\ Grown(i - 1) = i - 1 /\ i - 1 <= MaxDict - Base
        BY <1>5, <3>1
      <4>2. DictSize(kn) = Base + (i - 2) BY <1>3, <4>1
      <4>3. c < Base + (i - 1) /\ ~(c < Base + (i - 2)) BY <1>2, <2>2, <4>1, <4>2
      <4> QED BY <1>2, <1>3, <1>4, <4>1, <4>2, <4>3
    <3>3. c = DictSize(kn) /\ HasRoom(kn)
      BY <1>3, <1>4, <3>2, Parameters DEF HasRoom
    <3>4. c \in Base .. DictSize(d) - 1 /\ c - Base + 1 = i - 1
      BY <1>2, <1>3, <1>4, <1>7, <3>2
    <3>5. Prefix(d, c) = o /\ Value(d, c) = x
      BY <1>10, <3>1, <3>4 DEF Prefix, Value
    <3>6. w = Append(Sequence(d, o), x) /\ x = Sequence(d, o)[1]
      BY <1>1, <3>4, <3>5, SequenceOfEntry
    <3>7. Sequence(d, o) = Sequence(kn, o) BY <1>6, <1>9
    <3>8. MeaningFor(kn, o, c) = Append(Sequence(kn, o), Sequence(kn, o)[1])
      BY <2>2 DEF MeaningFor
    <3> QED BY <3>3, <3>6, <3>7, <3>8
  <2> QED BY <2>1, <2>2
<1>13. /\ IsDictionary(new) /\ Extends(new, kn) /\ Len(new) = Grown(i - 1)
       /\ \A j \in 1 .. Len(new) :
             \/ j \in 1 .. Len(kn)
             \/ j = Len(kn) + 1 /\ new[j].prefix = o /\ new[j].value = x
  <2> HIDE DEF x
  <2>1. o \in Nat BY <1>2
  <2> QED BY <1>4, <1>6, <1>8, <2>1, AddedIsDictionary
<1> HIDE DEF new
<1>14. Extends(d, new)
  <2>1. Len(new) <= Len(d) BY <1>1, <1>3, <1>5, <1>13
  <2>2. ASSUME NEW j \in 1 .. Len(new) PROVE new[j] = d[j]
    <3>1. CASE j \in 1 .. Len(kn) BY <1>13, <3>1 DEF Extends
    <3>2. CASE ~(j \in 1 .. Len(kn))
      <4>1. j = Len(kn) + 1 /\ new[j].prefix = o /\ new[j].value = x BY <1>13, <3>2
      <4>2. Grown(i - 2) < Grown(i - 1)
        <5>1. j <= Len(new) BY <1>3
        <5> QED BY <1>3, <1>5, <1>13, <4>1, <5>1
      <4>3. j = i - 1 BY <1>3, <1>4, <1>5, <4>1, <4>2
      <4>4. j \in 1 .. Len(d) /\ d[j].prefix = o /\ d[j].value = x
        BY <1>10, <4>2, <4>3
      <4>5. new[j] \in Entry /\ d[j] \in Entry
        BY <1>1, <1>13, <4>4, ElementOfSeq DEF IsDictionary, Dictionary
      <4> QED BY <4>1, <4>4, <4>5 DEF Entry
    <3> QED BY <3>1, <3>2
  <2> QED BY <2>1, <2>2 DEF Extends
<1> QED BY <1>11, <1>13, <1>14 DEF o, c, new

(********************************* the invariant *****************************)

(* Before compress_lzw begins, and before decompress_lzw does.                *)
Fresh ==
    /\ pc = "start" => codes = <<>> /\ dict = <<>>
    /\ pc \in {"start", "scan", "compressed"} => known = <<>> /\ output = <<>>

(* With its current code, the encoder has spelled what it has read; and it    *)
(* has written at most a code for each byte before the last.                  *)
Scanning ==
    pc = "scan" =>
       /\ input # <<>> /\ at \in 2 .. Len(input) + 1
       /\ Len(codes) + 1 <= at - 1
       /\ \E M : Encoded(Append(codes, current), dict, input, at - 1, M)

(* The codes spell the whole input.                                           *)
Made(M) ==
    /\ header = [magic |-> "LZW1", original_size |-> Len(input), code_count |-> Len(codes)]
    /\ Encoded(codes, dict, input, Len(input), M)

Compressed ==
    pc = "compressed" /\ input # <<>> => Len(codes) <= Len(input) /\ \E M : Made(M)

(* The decoder has given back what the codes before at spell, and knows what  *)
(* the encoder knew one code earlier.                                         *)
Produced(M) ==
    /\ at \in 2 .. Len(codes) + 1 /\ old = codes[at - 1]
    /\ Extends(dict, known) /\ Len(known) = Grown(at - 2)
    /\ Len(output) = IF at = Len(codes) + 1 THEN Len(input) ELSE M[at]
    /\ \A i \in 1 .. Len(output) : output[i] = input[i]

Decoding ==
    pc = "decode" =>
       /\ at >= 2 /\ old < DictSize(known) /\ header.code_count <= Len(codes)
       /\ Len(output) <= header.original_size
       /\ input # <<>> => \E M : Made(M) /\ Produced(M)

Finished ==
    pc = "done" =>
       /\ error = 0 => Len(output) = header.original_size
       /\ input # <<>> => (error = 0 /\ output = input) \/ error \in {-2, -4, -5}

Inv ==
    /\ TypeOK /\ input \in Seq(Byte) /\ IsDictionary(dict) /\ IsDictionary(known)
    /\ Fresh /\ Scanning /\ Compressed /\ Decoding /\ Finished

LEMMA NoEntries == IsDictionary(<<>>) /\ Len(<<>>) = 0 /\ DictSize(<<>>) = Base
BY Parameters DEF IsDictionary, DictSize, Dictionary

LEMMA InitInv == Init => Inv
<1> SUFFICES ASSUME Init PROVE Inv OBVIOUS
<1>1. input \in Seq(Byte) /\ codes \in Seq(Code) /\ header \in Header
  <2>1. CASE pc = "start"
    <3>1. input \in Plaintexts /\ header = NoHeader /\ codes = <<>> BY <2>1 DEF Init
    <3>2. NoHeader \in Header BY DEF NoHeader, Header
    <3> QED BY <3>1, <3>2, LzwAssumption, EmptySeq
  <2>2. CASE pc = "compressed"
    <3>1. input = <<>> BY <2>2 DEF Init
    <3>2. PICK file \in Damaged : header = file.header /\ codes = file.codes
      BY <2>2 DEF Init
    <3>3. file \in [header : Header, codes : Seq(Code)] BY LzwAssumption
    <3>4. header \in Header /\ codes \in Seq(Code) BY <3>2, <3>3
    <3> QED BY <3>1, <3>4, EmptySeq
  <2> QED BY <2>1, <2>2 DEF Init
<1>2. 0 \in 0 .. MaxDict - 1 BY Parameters
<1>3. TypeOK BY <1>1, <1>2, NoEntries, EmptySeq DEF Init, TypeOK, IsDictionary
<1>4. /\ pc = "start" \/ (pc = "compressed" /\ input = <<>>)
      /\ pc = "start" => codes = <<>>
      /\ dict = <<>> /\ known = <<>> /\ output = <<>>
  BY DEF Init
<1> QED BY <1>1, <1>3, <1>4, NoEntries
     DEF Inv, Fresh, Scanning, Compressed, Decoding, Finished

LEMMA StartCompressInv == ASSUME Inv, StartCompress PROVE Inv'
<1>1. /\ TypeOK /\ input \in Seq(Byte) /\ dict = <<>> /\ codes = <<>> /\ known = <<>>
      /\ output = <<>> /\ pc = "start"
      /\ UNCHANGED <<input, dict, header, codes, old, known, output>>
      /\ IsDictionary(dict) /\ IsDictionary(known)
  BY DEF Inv, Fresh, StartCompress
<1>2. CASE pc' = "done" /\ error' \in {-1, -2} /\ (error' = -1 => input = <<>>)
           /\ UNCHANGED <<at, current>>
  <2>1. TypeOK' BY <1>1, <1>2 DEF TypeOK
  <2> QED BY <1>1, <1>2, <2>1 DEF Inv, Fresh, Scanning, Compressed, Decoding, Finished
<1>3. CASE input # <<>> /\ pc' = "scan" /\ current' = input[1] /\ at' = 2 /\ UNCHANGED error
  <2>1. Len(input) \in Nat /\ Len(input) >= 1
    <3>1. Len(input) \in Nat /\ Len(input) # 0 BY <1>1, <1>3, LenProperties, EmptySeq
    <3> QED BY <3>1
  <2>2. input[1] \in Byte /\ input[1] \in Nat /\ input[1] < Base
    <3>1. 1 \in 1 .. Len(input) BY <2>1
    <3>2. input[1] \in Byte BY <1>1, <3>1, ElementOfSeq
    <3> QED BY <3>2, Parameters
  <2>3. TypeOK'
    <3>1. input[1] \in 0 .. MaxDict - 1 BY <2>2, Parameters
    <3> QED BY <1>1, <1>3, <3>1 DEF TypeOK
  <2>4. Scanning'
    <3>1. Encoded(<<input[1]>>, <<>>, input, 1, [i \in {1} |-> 0]) BY <2>2, FirstCode
    <3>2. Append(codes', current') = <<input[1]>> /\ at' - 1 = 1 BY <1>1, <1>3
    <3>3. \E M : Encoded(Append(codes', current'), dict', input', at' - 1, M)
      BY <1>1, <3>1, <3>2
    <3>4. at' \in 2 .. Len(input') + 1 /\ Len(codes') + 1 <= at' - 1
      <4>1. Len(codes') = 0 BY <1>1
      <4> QED BY <1>1, <1>3, <2>1, <4>1
    <3> QED BY <1>1, <1>3, <3>3, <3>4 DEF Scanning
  <2> QED BY <1>1, <1>3, <2>3, <2>4 DEF Inv, Fresh, Compressed, Decoding, Finished
<1> QED BY <1>2, <1>3 DEF StartCompress, Finish, FromTheSecond

(* What the encoder knows while it reads.                                     *)
LEMMA ScanFacts ==
    ASSUME Inv, pc = "scan"
    PROVE  /\ input \in Seq(Byte) /\ input # <<>> /\ Len(input) \in Nat
           /\ at \in Nat /\ at - 1 \in Nat /\ (at - 1) + 1 = at /\ at >= 2
           /\ at <= Len(input) + 1
           /\ at <= Len(input) => input[at] \in Byte
           /\ codes \in Seq(Nat) /\ Len(codes) \in Nat /\ current \in Nat
           /\ IsDictionary(dict) /\ DictSize(dict) \in Nat /\ DictSize(dict) <= MaxDict
<1>1. input \in Seq(Byte) /\ input # <<>> /\ at \in 2 .. Len(input) + 1
  BY DEF Inv, Scanning
<1>2. Len(input) \in Nat BY <1>1, LenProperties
<1>3. at \in Nat /\ at >= 2 /\ at <= Len(input) + 1 BY <1>1, <1>2
<1>4. at <= Len(input) => input[at] \in Byte BY <1>1, <1>2, <1>3, ElementOfSeq
<1>5. codes \in Seq(Nat) /\ current \in Nat /\ Len(codes) \in Nat
  BY LenProperties DEF Inv, TypeOK, Code
<1>6. IsDictionary(dict) /\ DictSize(dict) \in Nat /\ DictSize(dict) <= MaxDict
  BY DictionaryFacts DEF Inv, IsDictionary
<1> QED BY <1>1, <1>2, <1>3, <1>4, <1>5, <1>6

LEMMA ExtendPhraseInv == ASSUME Inv, ExtendPhrase PROVE Inv'
<1>1. /\ pc = "scan" /\ pc' = "scan" /\ at <= Len(input) /\ at' = at + 1
      /\ current' \in Found(dict, current, input[at])
      /\ UNCHANGED <<input, dict, header, codes, old, known, output, error>>
  BY DEF ExtendPhrase
<1>2. PICK M : Encoded(Append(codes, current), dict, input, at - 1, M)
  BY <1>1 DEF Inv, Scanning
<1>3. /\ current' \in Base .. DictSize(dict) - 1
      /\ Prefix(dict, current') = current /\ Value(dict, current') = input[at]
  BY <1>1 DEF Found, Prefix, Value
<1>4. Encoded(Append(codes, current'), dict, input, (at - 1) + 1, M)
  <2>1. \A l \in Base .. DictSize(dict) - 1 :
           Prefix(dict, l) = current /\ Value(dict, l) = input[(at - 1) + 1]
           => Encoded(Append(codes, l), dict, input, (at - 1) + 1, M)
    BY <1>1, <1>2, ScanFacts, LongerPhrase
  <2>2. (at - 1) + 1 = at BY <1>1, ScanFacts
  <2> QED BY <1>3, <2>1, <2>2
<1>5. Scanning'
  <2>1. at' - 1 = (at - 1) + 1 /\ at' \in 2 .. Len(input) + 1 /\ Len(codes) + 1 <= at' - 1
    <3>1. Len(codes) + 1 <= at - 1 BY <1>1 DEF Inv, Scanning
    <3>2. /\ at \in Nat /\ at >= 2 /\ Len(input) \in Nat /\ Len(codes) \in Nat
          /\ at' = at + 1 /\ at <= Len(input)
      BY <1>1, ScanFacts
    <3> QED BY <3>1, <3>2
  <2>2. \E N : Encoded(Append(codes', current'), dict', input', at' - 1, N)
    BY <1>1, <1>4, <2>1
  <2> QED BY <1>1, <2>1, <2>2, ScanFacts DEF Scanning
<1>6. TypeOK'
  <2>1. current' \in 0 .. MaxDict - 1
    <3>1. DictSize(dict) \in Nat /\ DictSize(dict) <= MaxDict BY <1>1, ScanFacts
    <3> QED BY <1>3, <3>1, Parameters
  <2> QED BY <1>1, <2>1 DEF Inv, TypeOK
<1> QED BY <1>1, <1>5, <1>6 DEF Inv, Fresh, Compressed, Decoding, Finished

LEMMA EmitCodeInv == ASSUME Inv, EmitCode PROVE Inv'
<1>1. /\ pc = "scan" /\ pc' = "scan" /\ at <= Len(input) /\ at' = at + 1
      /\ codes' = Append(codes, current) /\ current' = input[at]
      /\ dict' = Added(dict, current, input[at])
      /\ UNCHANGED <<input, header, old, known, output, error>>
  BY DEF EmitCode
<1>2. PICK M : Encoded(Append(codes, current), dict, input, at - 1, M)
  BY <1>1 DEF Inv, Scanning
<1>3. PICK N : Encoded(Append(codes', current'), dict', input, (at - 1) + 1, N)
  <2>1. (at - 1) + 1 = at /\ input[at] \in Byte /\ at - 1 \in Nat BY <1>1, ScanFacts
  <2>2. codes \in Seq(Nat) /\ current \in Nat BY <1>1, ScanFacts
  <2>3. \E L : Encoded(Append(Append(codes, current), input[(at - 1) + 1]),
                       Added(dict, current, input[(at - 1) + 1]), input, (at - 1) + 1, L)
    BY <1>2, <2>1, <2>2, NextCode
  <2> QED BY <1>1, <2>1, <2>3
<1>4. codes' \in Seq(Nat) /\ Len(codes') = Len(codes) + 1
  BY <1>1, ScanFacts, AppendProperties
<1>5. Scanning'
  <2>1. at' - 1 = (at - 1) + 1 /\ at' \in 2 .. Len(input) + 1 /\ Len(codes') + 1 <= at' - 1
    <3>1. Len(codes) + 1 <= at - 1 BY <1>1 DEF Inv, Scanning
    <3>2. /\ at \in Nat /\ at >= 2 /\ Len(input) \in Nat /\ Len(codes) \in Nat
          /\ at' = at + 1 /\ at <= Len(input) /\ Len(codes') = Len(codes) + 1
      BY <1>1, <1>4, ScanFacts
    <3> QED BY <3>1, <3>2
  <2>2. \E L : Encoded(Append(codes', current'), dict', input', at' - 1, L)
    BY <1>1, <1>3, <2>1
  <2> QED BY <1>1, <2>1, <2>2, ScanFacts DEF Scanning
<1>6. IsDictionary(dict') BY <1>3 DEF Encoded
<1>7. TypeOK'
  <2>1. current' \in 0 .. MaxDict - 1
    <3>1. current' \in Nat /\ current' < Base BY <1>1, ScanFacts, Parameters
    <3> QED BY <3>1, Parameters
  <2>2. at' \in Nat /\ dict' \in Dictionary BY <1>1, <1>6, ScanFacts DEF IsDictionary
  <2> QED BY <1>1, <1>4, <2>1, <2>2 DEF Inv, TypeOK, Code
<1> QED BY <1>1, <1>5, <1>6, <1>7 DEF Inv, Fresh, Compressed, Decoding, Finished

LEMMA EndCompressInv == ASSUME Inv, EndCompress PROVE Inv'
<1>1. /\ pc = "scan" /\ at > Len(input) /\ codes' = Append(codes, current)
      /\ header' = [magic |-> "LZW1", original_size |-> Len(input), code_count |-> Len(codes')]
      /\ \/ pc' = "compressed" /\ UNCHANGED error
         \/ pc' = "done" /\ error' = -4
      /\ UNCHANGED <<input, at, current, dict, old, known, output>>
  BY DEF EndCompress, Finish
<1>2. PICK M : Encoded(Append(codes, current), dict, input, at - 1, M)
  BY <1>1 DEF Inv, Scanning
<1>3. at - 1 = Len(input) BY <1>1, ScanFacts
<1>4. codes' \in Seq(Nat) /\ Len(codes') = Len(codes) + 1 /\ Len(codes') \in Nat
  BY <1>1, ScanFacts, AppendProperties, LenProperties
<1>5. Compressed'
  <2>1. Made(M)' BY <1>1, <1>2, <1>3 DEF Made
  <2>2. Len(codes') <= Len(input)
    <3>1. Len(codes) + 1 <= at - 1 BY <1>1 DEF Inv, Scanning
    <3> QED BY <1>3, <1>4, <3>1
  <2> QED BY <1>1, <2>1, <2>2 DEF Compressed
<1>6. TypeOK'
  <2>1. header' \in Header BY <1>1, <1>4, ScanFacts DEF Header
  <2>2. TypeOK /\ pc' \in {"compressed", "done"} /\ error' \in {error, -4} /\ codes' \in Seq(Code)
    BY <1>1, <1>4 DEF Inv, Code
  <2>3. error' \in -12 .. 0 BY <2>2 DEF TypeOK
  <2> QED BY <1>1, <2>1, <2>2, <2>3 DEF TypeOK
<1> QED BY <1>1, <1>5, <1>6, ScanFacts DEF Inv, Fresh, Scanning, Decoding, Finished

(* What the header of an encoded input lets decompress_lzw do.                *)
LEMMA MadeIsAccepted ==
    ASSUME Inv, input # <<>>, NEW M, Made(M)
    PROVE  /\ HeaderError = 0 /\ codes[1] \in Byte
           /\ header.original_size = Len(input) /\ header.code_count = Len(codes)
           /\ Len(codes) \in Nat /\ Len(codes) >= 1 /\ Len(input) \in Nat
           /\ Sequence(dict, codes[1]) = <<codes[1]>>
           /\ Spells(codes, dict, input, Len(input), M, 1) /\ M[1] = 0
<1>1. /\ header.magic = "LZW1" /\ header.original_size = Len(input)
      /\ header.code_count = Len(codes)
      /\ Encoded(codes, dict, input, Len(input), M)
  BY DEF Made
<1>2. /\ codes \in Seq(Nat) /\ Len(codes) >= 1 /\ IsDictionary(dict) /\ M[1] = 0
      /\ \A i \in 1 .. Len(codes) : Spells(codes, dict, input, Len(input), M, i)
  BY <1>1 DEF Encoded
<1>3. Len(codes) \in Nat /\ Len(input) \in Nat /\ Len(input) # 0
  BY <1>2, LenProperties, EmptySeq DEF Inv
<1>4. Spells(codes, dict, input, Len(input), M, 1)
  <2>1. 1 \in 1 .. Len(codes) BY <1>2, <1>3
  <2> QED BY <1>2, <2>1
<1>5. codes[1] \in Nat /\ codes[1] < Base
  <2>1. codes[1] \in Nat /\ codes[1] < Base + Grown(1 - 1) BY <1>4 DEF Spells
  <2>2. Grown(1 - 1) = 0 BY GrownFacts
  <2> QED BY <2>1, <2>2, Parameters
<1>6. HeaderError = 0
  <2>1. ~(header.code_count > Len(codes)) /\ ~(header.original_size = 0 \/ header.code_count = 0)
    BY <1>1, <1>2, <1>3
  <2>2. ~(codes[1] >= Base) BY <1>5, Parameters
  <2> QED BY <1>1, <2>1, <2>2 DEF HeaderError
<1>7. Sequence(dict, codes[1]) = <<codes[1]>>
  <2>1. DictSize(dict) \in Nat /\ DictSize(dict) = Base + Len(dict) /\ Len(dict) \in Nat
    BY <1>2, DictionaryFacts
  <2>2. codes[1] \in 0 .. DictSize(dict) - 1 BY <1>5, <2>1, Parameters
  <2> QED BY <1>2, <1>5, <2>2, SequenceIs
<1>8. codes[1] \in Byte BY <1>5, Parameters
<1> QED BY <1>1, <1>2, <1>3, <1>4, <1>6, <1>7, <1>8

LEMMA StartDecompressInv == ASSUME Inv, StartDecompress PROVE Inv'
<1>1. /\ pc = "compressed" /\ known = <<>>
      /\ UNCHANGED <<input, current, dict, header, codes, known>>
      /\ TypeOK /\ IsDictionary(dict) /\ IsDictionary(known) /\ input \in Seq(Byte)
  BY DEF Inv, Fresh, StartDecompress
<1>2. header \in Header /\ codes \in Seq(Nat) /\ Len(codes) \in Nat
  BY <1>1, LenProperties DEF TypeOK, Code
<1>3. CASE HeaderError = 0
  <2>1. /\ pc' = "decode" /\ old' = codes[1] /\ output' = <<codes[1]>> /\ at' = 2
        /\ UNCHANGED error
    BY <1>3 DEF StartDecompress
  <2>2. /\ ~(header.code_count > Len(codes)) /\ ~(codes[1] >= Base)
        /\ header.code_count # 0 /\ header.original_size # 0
    BY <1>2, <1>3 DEF HeaderError, Header
  <2>3. header.code_count \in Nat /\ header.original_size \in Nat BY <1>2 DEF Header
  <2>4. codes[1] \in Nat /\ codes[1] < Base /\ codes[1] \in Byte
    <3>1. 1 \in 1 .. Len(codes) BY <1>2, <2>2, <2>3
    <3>2. codes[1] \in Nat BY <1>2, <3>1, ElementOfSeq
    <3> QED BY <2>2, <3>2, Parameters
  <2>5. output' \in Seq(Byte) /\ Len(output') = 1 /\ output'[1] = codes[1] BY <2>1, <2>4
  <2>6. TypeOK'
    <3>1. old' \in 0 .. MaxDict - 1 BY <2>1, <2>4, Parameters
    <3>2. at' \in Nat BY <2>1
    <3> QED BY <1>1, <2>1, <2>5, <3>1, <3>2 DEF TypeOK
  <2>7. ASSUME input # <<>> PROVE \E M : Made(M)' /\ Produced(M)'
    <3>1. PICK M : Made(M) BY <1>1, <2>7 DEF Inv, Compressed
    <3>2. Made(M)' BY <1>1, <3>1 DEF Made
    <3>3. /\ Spells(codes, dict, input, Len(input), M, 1) /\ M[1] = 0
          /\ Sequence(dict, codes[1]) = <<codes[1]>> /\ Len(codes) >= 1 /\ Len(input) \in Nat
      BY <2>7, <3>1, MadeIsAccepted
    <3>4. Len(<<codes[1]>>) = 1 /\ <<codes[1]>>[1] = codes[1] OBVIOUS
    <3>5. /\ M[1] + 1 = IF 1 = Len(codes) THEN Len(input) ELSE M[1 + 1]
          /\ \A j \in 1 .. 1 : input[M[1] + j] = <<codes[1]>>[j]
      BY <3>3, <3>4, Zenon DEF Spells
    <3>6. \A i \in 1 .. 1 : i = 1 /\ 0 + i = 1 OBVIOUS
    <3>7. input[1] = codes[1] BY <3>3, <3>4, <3>5, <3>6
    <3>8. 1 = IF 2 = Len(codes) + 1 THEN Len(input) ELSE M[2]
      <4>1. \A l \in Nat : (2 = l + 1 => 1 = l) /\ (1 = l => 2 = l + 1) OBVIOUS
      <4>2. 1 + 1 = 2 /\ 0 + 1 = 1 OBVIOUS
      <4>3. CASE 1 = Len(codes) BY <1>2, <3>3, <3>5, <4>1, <4>2, <4>3
      <4>4. CASE 1 # Len(codes) BY <1>2, <3>3, <3>5, <4>1, <4>2, <4>4
      <4> QED BY <4>3, <4>4
    <3>9. Len(output') = (IF at' = Len(codes) + 1 THEN Len(input) ELSE M[at'])
      BY <2>1, <2>5, <3>8
    <3>10. \A i \in 1 .. Len(output') : output'[i] = input[i]
      BY <2>5, <3>6, <3>7
    <3>11. at' \in 2 .. Len(codes) + 1 /\ at' - 1 = 1 /\ at' - 2 = 0 BY <1>2, <2>1, <3>3
    <3>12. Extends(dict, known) /\ Len(known) = Grown(at' - 2)
      <4>1. Len(dict) \in Nat BY <1>1, DictionaryFacts
      <4> QED BY <1>1, <3>11, <4>1, GrownFacts, NoEntries DEF Extends
    <3>13. Produced(M)' BY <1>1, <2>1, <3>9, <3>10, <3>11, <3>12 DEF Produced
    <3> QED BY <3>2, <3>13
  <2>8. Decoding'
    <3>1. at' >= 2 /\ header'.code_count <= Len(codes') BY <1>1, <1>2, <2>1, <2>2, <2>3
    <3>2. old' < DictSize(known') BY <1>1, <2>1, <2>4, NoEntries
    <3>3. Len(output') <= header'.original_size BY <1>1, <2>2, <2>3, <2>5
    <3> QED BY <1>1, <2>7, <3>1, <3>2, <3>3 DEF Decoding
  <2> QED BY <1>1, <2>1, <2>6, <2>8 DEF Inv, Fresh, Scanning, Compressed, Finished
<1>4. CASE HeaderError # 0
  <2>1. /\ pc' = "done" /\ error' = HeaderError /\ UNCHANGED <<old, output, at>>
    BY <1>4 DEF StartDecompress, Finish
  <2>2. input = <<>>
    <3>1. SUFFICES ASSUME input # <<>> PROVE FALSE OBVIOUS
    <3>2. PICK M : Made(M) BY <1>1, <3>1 DEF Inv, Compressed
    <3> QED BY <1>4, <3>1, <3>2, MadeIsAccepted
  <2>3. HeaderError \in {-1, -2, -3, -4, -6} BY <1>4 DEF HeaderError
  <2>4. TypeOK' BY <1>1, <2>1, <2>3 DEF TypeOK
  <2> QED BY <1>1, <1>4, <2>1, <2>2, <2>4
       DEF Inv, Fresh, Scanning, Compressed, Decoding, Finished
<1> QED BY <1>3, <1>4

LEMMA NoOutputBufferInv == ASSUME Inv, NoOutputBuffer PROVE Inv'
<1>1. /\ pc' = "done" /\ error' = -5
      /\ UNCHANGED <<input, at, current, dict, header, codes, old, known, output>>
  BY DEF NoOutputBuffer, Finish
<1>2. TypeOK' BY <1>1 DEF Inv, TypeOK
<1> QED BY <1>1, <1>2 DEF Inv, Fresh, Scanning, Compressed, Decoding, Finished

(* A code that the decoder accepts stands for a string of bytes.              *)
LEMMA MeaningIsBytes ==
    ASSUME NEW kn, IsDictionary(kn), NEW o \in 0 .. DictSize(kn) - 1, NEW c \in Nat
    PROVE  LET w == MeaningFor(kn, o, c)
           IN w \in Seq(Byte) /\ Len(w) \in Nat /\ Len(w) >= 1 /\ w[1] \in Byte
<1> DEFINE w == MeaningFor(kn, o, c)
           v == Sequence(kn, o)
<1>1. DictSize(kn) \in Nat BY DictionaryFacts
<1>2. v \in Seq(Byte) /\ Len(v) >= 1 /\ Len(v) \in Nat /\ v[1] \in Byte
  <2>1. IsWord(v, o) BY SequenceIsWord
  <2> HIDE DEF v
  <2>2. v \in Seq(Byte) /\ Len(v) >= 1 /\ Len(v) \in Nat BY <2>1, LenProperties DEF IsWord
  <2>3. 1 \in 1 .. Len(v) BY <2>2
  <2> QED BY <2>2, <2>3, ElementOfSeq
<1>3. w \in Seq(Byte) /\ Len(w) >= 1
  <2>1. CASE c < DictSize(kn)
    <3>1. c \in 0 .. DictSize(kn) - 1 BY <1>1, <2>1
    <3>2. w = Sequence(kn, c) BY <2>1 DEF MeaningFor
    <3> QED BY <3>1, <3>2, SequenceIsWord DEF IsWord
  <2>2. CASE ~(c < DictSize(kn))
    <3>1. w = Append(v, v[1]) BY <2>2 DEF MeaningFor
    <3> HIDE DEF v, w
    <3>2. Append(v, v[1]) \in Seq(Byte) /\ Len(Append(v, v[1])) = Len(v) + 1
      BY <1>2, AppendProperties
    <3> QED BY <1>2, <3>1, <3>2
  <2> QED BY <2>1, <2>2
<1> HIDE DEF w
<1>4. Len(w) \in Nat BY <1>3, LenProperties
<1>5. 1 \in 1 .. Len(w) BY <1>3, <1>4
<1> QED BY <1>3, <1>4, <1>5, ElementOfSeq DEF w

LEMMA DecodeCodeInv == ASSUME Inv, DecodeCode PROVE Inv'
<1> DEFINE c == codes[at]
           w == Meaning(c)
<1>1. /\ TypeOK /\ input \in Seq(Byte) /\ IsDictionary(dict) /\ IsDictionary(known)
      /\ pc = "decode" /\ at <= header.code_count /\ at >= 2 /\ old < DictSize(known)
      /\ header.code_count <= Len(codes) /\ Len(output) <= header.original_size
      /\ UNCHANGED <<input, current, dict, header, codes>>
  BY DEF Inv, DecodeCode, Decoding
<1>2. /\ \/ /\ ~(c < DictSize(known) \/ IsNext(c)) \/ ~Fits(w)
            /\ pc' = "done" /\ error' \in {-10, -11} /\ UNCHANGED <<at, old, known, output>>
         \/ /\ c < DictSize(known) \/ IsNext(c)
            /\ Fits(w)
            /\ output' = output \o w /\ known' = EntryFromNew(w) /\ old' = c /\ at' = at + 1
            /\ UNCHANGED <<pc, error>>
  BY DEF DecodeCode, Finish
<1>3. w = MeaningFor(known, old, c) BY DEF Meaning, PhraseAndFirst, MeaningFor
<1>4. /\ at \in Nat /\ header.code_count \in Nat /\ header.original_size \in Nat
      /\ Len(codes) \in Nat /\ codes \in Seq(Nat) /\ output \in Seq(Byte)
      /\ Len(output) \in Nat
  BY <1>1, LenProperties DEF TypeOK, Header, Code
<1>5. c \in Nat
  <2>1. at \in 1 .. Len(codes) BY <1>1, <1>4
  <2> QED BY <1>4, <2>1, ElementOfSeq
<1>6. old \in 0 .. DictSize(known) - 1 /\ old \in Nat /\ DictSize(known) \in Nat
  <2>1. old \in Nat /\ DictSize(known) \in Nat BY <1>1, DictionaryFacts DEF TypeOK
  <2> QED BY <1>1, <2>1
<1>7. w \in Seq(Byte) /\ Len(w) \in Nat /\ Len(w) >= 1 /\ w[1] \in Byte
  BY <1>1, <1>3, <1>5, <1>6, MeaningIsBytes
<1>8. /\ output \o w \in Seq(Byte) /\ Len(output \o w) = Len(output) + Len(w)
      /\ \A i \in 1 .. Len(output) : (output \o w)[i] = output[i]
      /\ \A j \in 1 .. Len(w) : (output \o w)[Len(output) + j] = w[j]
  <2> HIDE DEF w
  <2>1. /\ output \o w \in Seq(Byte) /\ Len(output \o w) = Len(output) + Len(w)
        /\ \A i \in 1 .. Len(output) + Len(w) :
              (output \o w)[i] = IF i <= Len(output) THEN output[i] ELSE w[i - Len(output)]
    BY <1>4, <1>7, ConcatProperties
  <2>2. \A i \in 1 .. Len(output) : (output \o w)[i] = output[i] BY <1>4, <1>7, <2>1
  <2>3. ASSUME NEW j \in 1 .. Len(w) PROVE (output \o w)[Len(output) + j] = w[j]
    <3>1. /\ Len(output) + j \in 1 .. Len(output) + Len(w) /\ ~(Len(output) + j <= Len(output))
          /\ (Len(output) + j) - Len(output) = j
      BY <1>4, <1>7
    <3> QED BY <2>1, <3>1
  <2> QED BY <2>1, <2>2, <2>3
<1>9. EntryFromNew(w) = Added(known, old, w[1]) BY DEF EntryFromNew
<1> HIDE DEF w
(* What holds if the decoder follows the encoder.                             *)
<1>10. ASSUME input # <<>>
       PROVE  \E M : /\ Made(M) /\ at \in 2 .. Len(codes) /\ old = codes[at - 1]
                     /\ Len(output) = M[at] /\ Len(input) \in Nat
                     /\ \A i \in 1 .. Len(output) : output[i] = input[i]
                     /\ Spells(codes, dict, input, Len(input), M, at)
                     /\ header.original_size = Len(input)
                     /\ c < DictSize(known) \/ IsNext(c)
                     /\ w = Sequence(dict, c)
                     /\ Extends(dict, EntryFromNew(w)) /\ Len(EntryFromNew(w)) = Grown(at - 1)
  <2>1. PICK M : Made(M) /\ Produced(M) BY <1>1, <1>10 DEF Inv, Decoding
  <2>2. Encoded(codes, dict, input, Len(input), M) BY <2>1 DEF Made
  <2>3. at \in 2 .. Len(codes) /\ at \in 1 .. Len(codes) BY <1>1, <1>4
  <2>4. Len(input) \in Nat /\ header.original_size = Len(input)
    BY <1>10, <2>1, MadeIsAccepted
  <2>5. /\ old = codes[at - 1] /\ Extends(dict, known) /\ Len(known) = Grown(at - 2)
        /\ Len(output) = M[at] /\ \A i \in 1 .. Len(output) : output[i] = input[i]
    <3>1. at # Len(codes) + 1 BY <1>4, <2>3
    <3> QED BY <2>1, <3>1 DEF Produced
  <2>6. /\ c < DictSize(known) \/ (c = DictSize(known) /\ HasRoom(known))
        /\ MeaningFor(known, codes[at - 1], c) = Sequence(dict, c)
        /\ Extends(dict, Added(known, codes[at - 1], Sequence(dict, c)[1]))
        /\ Len(Added(known, codes[at - 1], Sequence(dict, c)[1])) = Grown(at - 1)
    <3>1. IsDictionary(known) /\ Extends(dict, known) /\ Len(known) = Grown(at - 2)
      BY <1>1, <2>5
    <3>2. Len(input) \in Nat /\ at \in 2 .. Len(codes) BY <2>3, <2>4
    <3> QED BY <2>2, <3>1, <3>2, DecoderFollows
  <2>7. w = Sequence(dict, c) BY <1>3, <2>5, <2>6
  <2>8. Extends(dict, EntryFromNew(w)) /\ Len(EntryFromNew(w)) = Grown(at - 1)
    BY <1>9, <2>5, <2>6, <2>7
  <2>9. Spells(codes, dict, input, Len(input), M, at) BY <2>2, <2>3 DEF Encoded
  <2>10. c < DictSize(known) \/ IsNext(c) BY <2>6 DEF IsNext
  <2> QED BY <2>1, <2>3, <2>4, <2>5, <2>7, <2>8, <2>9, <2>10
<1>11. CASE /\ ~(c < DictSize(known) \/ IsNext(c)) \/ ~Fits(w)
            /\ pc' = "done" /\ error' \in {-10, -11} /\ UNCHANGED <<at, old, known, output>>
  <2>1. TypeOK' BY <1>1, <1>11 DEF TypeOK
  <2>2. input = <<>>
    <3>1. SUFFICES ASSUME input # <<>> PROVE FALSE OBVIOUS
    <3>2. PICK M : /\ Len(output) = M[at] /\ Spells(codes, dict, input, Len(input), M, at)
                   /\ header.original_size = Len(input)
                   /\ c < DictSize(known) \/ IsNext(c)
                   /\ w = Sequence(dict, c)
      BY <1>10, <3>1
    <3>3. M[at] + Len(w) <= Len(input) BY <3>2 DEF Spells
    <3>4. Fits(w) BY <3>2, <3>3 DEF Fits
    <3> QED BY <1>11, <3>2, <3>4
  <2> QED BY <1>1, <1>11, <2>1, <2>2
       DEF Inv, Fresh, Scanning, Compressed, Decoding, Finished
<1>12. CASE /\ c < DictSize(known) \/ IsNext(c)
            /\ Fits(w)
            /\ output' = output \o w /\ known' = EntryFromNew(w) /\ old' = c /\ at' = at + 1
            /\ UNCHANGED <<pc, error>>
  <2>1. /\ IsDictionary(known') /\ Extends(known', known)
        /\ \A i \in Nat : Len(known) = Grown(i) => Len(known') = Grown(i + 1)
    <3> DEFINE e == Added(known, old, w[1])
    <3>1. /\ IsDictionary(e) /\ Extends(e, known)
          /\ \A i \in Nat : Len(known) = Grown(i) => Len(e) = Grown(i + 1)
      BY <1>1, <1>6, <1>7, AddedIsDictionary
    <3>2. known' = e BY <1>9, <1>12
    <3> HIDE DEF e
    <3> QED BY <3>1, <3>2
  <2>2. old' < DictSize(known')
    <3>1. /\ DictSize(known) = Base + Len(known) /\ Len(known) \in Nat
          /\ DictSize(known') = Base + Len(known') /\ Len(known') \in Nat /\ Base \in Nat
      BY <1>1, <2>1, DictionaryFacts, Parameters
    <3>2. Len(known) <= Len(known') BY <2>1 DEF Extends
    <3>3. CASE c < DictSize(known) BY <1>5, <1>12, <3>1, <3>2, <3>3
    <3>4. CASE IsNext(c)
      <4>1. c = DictSize(known) /\ DictSize(known) < MaxDict BY <3>4 DEF IsNext, HasRoom
      <4>2. Len(known) = Grown(Len(known)) /\ Grown(Len(known) + 1) = Len(known) + 1
        BY <3>1, <4>1, Parameters DEF Grown
      <4>3. Len(known') = Len(known) + 1 BY <2>1, <3>1, <4>2
      <4> QED BY <1>12, <3>1, <4>1, <4>3
    <3> QED BY <1>12, <3>3, <3>4
  <2>3. TypeOK'
    <3>1. DictSize(known') \in Nat /\ DictSize(known') <= MaxDict
      BY <2>1, DictionaryFacts DEF IsDictionary
    <3>2. old' \in 0 .. MaxDict - 1 BY <1>5, <1>12, <2>2, <3>1, Parameters
    <3>3. at' \in Nat /\ known' \in Dictionary /\ output' \in Seq(Byte)
      BY <1>4, <1>8, <1>12, <2>1 DEF IsDictionary
    <3> QED BY <1>1, <1>12, <3>2, <3>3 DEF TypeOK
  <2>4. Len(output') <= header'.original_size
    <3>1. Len(output) + Len(w) <= header.original_size BY <1>12 DEF Fits
    <3> QED BY <1>1, <1>8, <1>12, <3>1
  <2>5. ASSUME input # <<>> PROVE \E M : Made(M)' /\ Produced(M)'
    <3>1. PICK M : /\ Made(M) /\ at \in 2 .. Len(codes)
                   /\ Len(output) = M[at] /\ Len(input) \in Nat
                   /\ \A i \in 1 .. Len(output) : output[i] = input[i]
                   /\ Spells(codes, dict, input, Len(input), M, at)
                   /\ w = Sequence(dict, c)
                   /\ Extends(dict, EntryFromNew(w)) /\ Len(EntryFromNew(w)) = Grown(at - 1)
      BY <1>10, <2>5
    <3>2. Made(M)' BY <1>1, <3>1 DEF Made
    <3>3. /\ M[at] + Len(w) = IF at = Len(codes) THEN Len(input) ELSE M[at + 1]
          /\ \A j \in 1 .. Len(w) : input[M[at] + j] = w[j]
      BY <3>1, Zenon DEF Spells
    <3>4. /\ at' \in 2 .. Len(codes) + 1 /\ at' - 1 = at /\ at' - 2 = at - 1
          /\ at' = Len(codes) + 1 => at = Len(codes)
          /\ at = Len(codes) => at' = Len(codes) + 1
      <4>1. at \in Nat /\ Len(codes) \in Nat /\ at' = at + 1 BY <1>4, <1>12
      <4>2. at \in 2 .. Len(codes) BY <3>1
      <4> QED BY <4>1, <4>2
    <3>5. Len(output') = IF at' = Len(codes) + 1 THEN Len(input) ELSE M[at']
      BY <1>8, <1>12, <3>1, <3>3, <3>4
    <3>6. ASSUME NEW i \in 1 .. Len(output') PROVE output'[i] = input[i]
      <4>1. CASE i \in 1 .. Len(output) BY <1>8, <1>12, <3>1, <4>1
      <4>2. CASE ~(i \in 1 .. Len(output))
        <5> DEFINE j == i - Len(output)
        <5>1. j \in 1 .. Len(w) /\ i = Len(output) + j BY <1>4, <1>7, <1>8, <1>12, <4>2
        <5> HIDE DEF j
        <5>2. output'[i] = w[j] /\ input[i] = w[j] BY <1>8, <1>12, <3>1, <3>3, <5>1
        <5> QED BY <5>2
      <4> QED BY <4>1, <4>2
    <3>7. old' = codes[at' - 1] BY <1>12, <3>4
    <3>8. Produced(M)' BY <1>1, <1>12, <3>1, <3>4, <3>5, <3>6, <3>7 DEF Produced
    <3> QED BY <3>2, <3>8
  <2>6. Decoding'
    <3>1. at' >= 2 /\ header'.code_count <= Len(codes') BY <1>1, <1>4, <1>12
    <3> QED BY <1>1, <1>12, <2>2, <2>4, <2>5, <3>1 DEF Decoding
  <2> QED BY <1>1, <1>12, <2>1, <2>3, <2>6 DEF Inv, Fresh, Scanning, Compressed, Finished
<1> QED BY <1>2, <1>11, <1>12

LEMMA EndDecodeInv == ASSUME Inv, EndDecode PROVE Inv'
<1>1. /\ TypeOK /\ pc = "decode" /\ at > header.code_count /\ pc' = "done"
      /\ error' = IF Len(output) = header.original_size THEN 0 ELSE -12
      /\ UNCHANGED <<input, at, current, dict, header, codes, old, known, output>>
  BY DEF Inv, EndDecode, Finish
<1>2. TypeOK' BY <1>1 DEF TypeOK
<1>3. ASSUME input # <<>> PROVE error' = 0 /\ output = input
  <2>1. PICK M : Made(M) /\ Produced(M) BY <1>1, <1>3 DEF Inv, Decoding
  <2>2. /\ header.original_size = Len(input) /\ header.code_count = Len(codes)
        /\ Len(codes) \in Nat
    BY <1>3, <2>1, MadeIsAccepted
  <2>3. at = Len(codes) + 1
    <3>1. at \in 2 .. Len(codes) + 1 BY <2>1 DEF Produced
    <3> QED BY <1>1, <2>2, <3>1
  <2>4. Len(output) = Len(input) /\ \A i \in 1 .. Len(output) : output[i] = input[i]
    BY <2>1, <2>3 DEF Produced
  <2>5. output \in Seq(Byte) /\ input \in Seq(Byte) BY DEF Inv, TypeOK
  <2>6. output = input BY <2>4, <2>5, SeqEqual
  <2> QED BY <1>1, <2>2, <2>6
<1>4. Finished' BY <1>1, <1>3 DEF Finished
<1> QED BY <1>1, <1>2, <1>4 DEF Inv, Fresh, Scanning, Compressed, Decoding

LEMMA NextInv == Inv /\ [Next]_vars => Inv'
<1> SUFFICES ASSUME Inv, [Next]_vars PROVE Inv' OBVIOUS
<1>1. CASE UNCHANGED vars
  BY <1>1 DEF vars, Inv, TypeOK, Fresh, Scanning, Compressed, Decoding, Finished, Made, Produced
<1> QED BY <1>1, StartCompressInv, ExtendPhraseInv, EmitCodeInv, EndCompressInv,
           StartDecompressInv, NoOutputBufferInv, DecodeCodeInv, EndDecodeInv DEF Next

LEMMA Invariance == Spec => []Inv
BY InitInv, NextInv, PTL DEF Spec

(********************************* the theorems ******************************)

(* Every value of the encoder and of the decoder has its type, the bytes of   *)
(* the entries included, for every input and every damaged file.              *)
THEOREM TypeCorrect == Spec => []TypeOK
<1>1. Inv => TypeOK BY DEF Inv
<1> QED BY <1>1, Invariance, PTL

(* decompress_lzw gives back what compress_lzw was given, or there was no     *)
(* memory: whatever the input, and however small the dictionary.              *)
THEOREM EveryInputComesBack == Spec => []Lossless
<1>1. Inv => Lossless BY DEF Inv, Finished, Lossless
<1> QED BY <1>1, Invariance, PTL

(* The decoder's dictionary is the encoder's of one code earlier.             *)
THEOREM DecoderKeepsPace == Spec => []DictionariesInStep
<1>1. ASSUME Inv, pc = "decode", input # <<>>
      PROVE  /\ known = SubSeq(dict, 1, Len(known))
             /\ Len(known) = IF at - 2 <= MaxDict - Base THEN at - 2 ELSE MaxDict - Base
  <2>1. PICK M : Produced(M) BY <1>1 DEF Inv, Decoding
  <2>2. Extends(dict, known) /\ Len(known) = Grown(at - 2) BY <2>1 DEF Produced
  <2>3. known \in Seq(Entry) /\ dict \in Seq(Entry)
    BY <1>1 DEF Inv, IsDictionary, Dictionary
  <2>4. Len(known) \in Nat /\ Len(dict) \in Nat BY <2>3, LenProperties
  <2>5. \A i \in 1 .. Len(known) : dict[i] \in Entry /\ known[i] = dict[i]
    <3>1. \A i \in 1 .. Len(known) : i \in 1 .. Len(dict) BY <2>2, <2>4 DEF Extends
    <3> QED BY <2>2, <2>3, <3>1, ElementOfSeq DEF Extends
  <2> DEFINE sub == SubSeq(dict, 1, Len(known))
  <2>6. /\ sub \in Seq(Entry)
        /\ Len(sub) = IF 1 <= Len(known) THEN Len(known) - 1 + 1 ELSE 0
        /\ \A i \in 1 .. Len(known) - 1 + 1 : sub[i] = dict[1 + i - 1]
    BY <2>4, <2>5, SubSeqProperties
  <2> HIDE DEF sub
  <2>7. Len(sub) = Len(known) BY <2>4, <2>6
  <2>8. \A i \in 1 .. Len(known) : known[i] = sub[i] BY <2>4, <2>5, <2>6
  <2>9. known = sub BY <2>3, <2>6, <2>7, <2>8, SeqEqual
  <2> QED BY <2>2, <2>9 DEF Grown, sub
<1>2. Inv => DictionariesInStep BY <1>1 DEF DictionariesInStep
<1> QED BY <1>2, Invariance, PTL

(* compress_lzw never needs more room for codes than it allocated, one for    *)
(* each byte of its input.                                                    *)
THEOREM CodesHaveRoom == Spec => []RoomForCodes
<1>1. Inv => RoomForCodes BY DEF Inv, Scanning, Compressed, RoomForCodes
<1> QED BY <1>1, Invariance, PTL

(* Following the prefixes of an entry always ends (build_sequence), and no    *)
(* entry is added beyond the last, in the encoder and in the decoder of any   *)
(* file.                                                                      *)
THEOREM DictionariesAreSound == Spec => []EntriesLeadBack
<1>1. Inv => EntriesLeadBack BY DEF Inv, IsDictionary, EntriesLeadBack
<1> QED BY <1>1, Invariance, PTL

(* A sequence fits in the buffer of MAX_SEQUENCE_LENGTH bytes and the output  *)
(* in the size that the header gives, whatever file is decoded.               *)
THEOREM BuffersSuffice == Spec => []InsideBuffers
<1>1. ASSUME Inv, pc = "decode" PROVE Len(Sequence(known, old)) <= MaxDict
  <2>1. /\ IsDictionary(known) /\ old \in Nat /\ old < DictSize(known)
        /\ DictSize(known) \in Nat /\ DictSize(known) <= MaxDict
    <3>1. IsDictionary(known) /\ old < DictSize(known) /\ TypeOK BY <1>1 DEF Inv, Decoding
    <3>2. old \in Nat BY <3>1 DEF TypeOK
    <3> QED BY <3>1, <3>2, DictionaryFacts DEF IsDictionary
  <2>2. old \in 0 .. DictSize(known) - 1 BY <2>1
  <2>3. IsWord(Sequence(known, old), old) BY <2>1, <2>2, SequenceIsWord
  <2>4. Len(Sequence(known, old)) \in Nat /\ Len(Sequence(known, old)) <= old + 1
    BY <2>3, LenProperties DEF IsWord
  <2> QED BY <2>1, <2>4, Parameters
<1>2. Inv => InsideBuffers BY <1>1 DEF Inv, Decoding, Finished, InsideBuffers
<1> QED BY <1>2, Invariance, PTL
================================================================================

------------------------------ MODULE WholeProofs ------------------------------
(* A run that exits with 0 on a directory has made an archive of the whole of *)
(* it, and one that exits with 0 on an archive has extracted the whole of     *)
(* that, if no other run gets in its way: for directories of any size, with   *)
(* any contents, and archives cut or damaged anywhere.                        *)
EXTENDS GseaProofs

(********************** archives, entry after entry **************************)

(* The sequences ss one after the other, as far as each.                      *)
Flattening(ss, n, f) ==
    f = [i \in 1 .. n |-> IF i = 1 THEN ss[i] ELSE f[i - 1] \o ss[i]]

LEMMA FlatteningExists == ASSUME NEW ss, NEW m \in Nat PROVE \E f : Flattening(ss, m, f)
<1> DEFINE T == {n \in 0 .. m : ~(\E f : Flattening(ss, n, f))}
<1>1. SUFFICES ASSUME T # {} PROVE FALSE
  OBVIOUS
<1>2. PICK n \in T : \A k \in T : n <= k
  <2>1. T \subseteq Nat OBVIOUS
  <2> HIDE DEF T
  <2> QED BY <1>1, <2>1, Least
<1>3. n \in 0 .. m /\ ~(\E f : Flattening(ss, n, f))
  OBVIOUS
<1>4. n # 0
  <2> DEFINE f == [i \in 1 .. 0 |-> ss[i]]
  <2>1. f = [i \in 1 .. 0 |-> IF i = 1 THEN ss[i] ELSE f[i - 1] \o ss[i]]
    OBVIOUS
  <2>2. Flattening(ss, 0, f)
    <3> HIDE DEF f
    <3> QED BY <2>1 DEF Flattening
  <2> QED BY <1>3, <2>2
<1>5. PICK f : Flattening(ss, n - 1, f)
  <2>1. n - 1 \in 0 .. m /\ ~(n <= n - 1) BY <1>3, <1>4
  <2>2. n - 1 \notin T BY <1>2, <2>1
  <2> QED BY <2>1, <2>2
<1> DEFINE More(h, i) == IF i = 1 THEN ss[i] ELSE h[i - 1] \o ss[i]
           g == [i \in 1 .. n |-> IF i = n THEN More(f, n) ELSE f[i]]
<1>6. ASSUME NEW i \in 1 .. n PROVE g[i] = More(g, i)
  <2>1. i = 1 \/ i - 1 \in 1 .. n - 1 BY <1>3
  <2>2. i = 1 \/ g[i - 1] = f[i - 1] BY <1>3, <2>1
  <2>3. More(g, i) = More(f, i)
    <3> HIDE DEF g
    <3> QED BY <2>2
  <2>4. CASE i = n BY <2>3, <2>4
  <2>5. CASE i # n
    <3>1. i \in 1 .. n - 1 BY <1>3, <2>5
    <3>2. f[i] = More(f, i) BY <1>5, <3>1 DEF Flattening
    <3> QED BY <2>3, <2>5, <3>2
  <2> QED BY <2>4, <2>5
<1>7. Flattening(ss, n, g)
  <2>1. g = [i \in 1 .. n |-> g[i]] OBVIOUS
  <2> HIDE DEF g
  <2>2. g = [i \in 1 .. n |-> More(g, i)] BY <1>6, <2>1
  <2> QED BY <2>2 DEF Flattening
<1> QED BY <1>3, <1>7

LEMMA FlattenIs ==
    ASSUME NEW ss, Len(ss) \in Nat \ {0}
    PROVE  \E f : Flattening(ss, Len(ss), f) /\ FlattenSeq(ss) = f[Len(ss)]
<1> DEFINE F == CHOOSE f : Flattening(ss, Len(ss), f)
<1>1. Flattening(ss, Len(ss), F) BY FlatteningExists
<1>2. F = CHOOSE f : f = [i \in 1 .. Len(ss) |-> IF i = 1 THEN ss[i] ELSE f[i - 1] \o ss[i]]
  BY Zenon DEF Flattening
<1> HIDE DEF F
<1>3. Len(ss) # 0 OBVIOUS
<1>4. FlattenSeq(ss) = F[Len(ss)] BY <1>2, <1>3, Zenon DEF FlattenSeq
<1> QED BY <1>1, <1>4

(* The first n of both are the same.                                          *)
SameUpTo(n, s, t) == \A i \in 1 .. n : s[i] = t[i]

(* As far as two sequences of sequences are the same, so is their sum.        *)
LEMMA FlatteningAgrees ==
    ASSUME NEW ss, NEW tt, NEW n \in Nat, NEW k \in Nat, NEW f, NEW g, n <= k,
           Flattening(ss, n, f), Flattening(tt, k, g), SameUpTo(n, ss, tt)
    PROVE  SameUpTo(n, f, g)
<1> DEFINE T == {i \in 1 .. n : f[i] # g[i]}
<1>1. SUFFICES ASSUME T # {} PROVE FALSE
  BY DEF SameUpTo
<1>2. PICK i \in T : \A j \in T : i <= j
  <2>1. T \subseteq Nat OBVIOUS
  <2> HIDE DEF T
  <2> QED BY <1>1, <2>1, Least
<1>3. i \in 1 .. n /\ f[i] # g[i] /\ i \in 1 .. k
  OBVIOUS
<1>4. f[i] = IF i = 1 THEN ss[i] ELSE f[i - 1] \o ss[i] BY <1>3 DEF Flattening
<1>5. g[i] = IF i = 1 THEN tt[i] ELSE g[i - 1] \o tt[i] BY <1>3 DEF Flattening
<1>6. i # 1 => f[i - 1] = g[i - 1]
  <2> SUFFICES ASSUME i # 1 PROVE f[i - 1] = g[i - 1]
    OBVIOUS
  <2>1. i - 1 \in 1 .. n /\ ~(i <= i - 1) BY <1>3
  <2>2. i - 1 \notin T BY <1>2, <2>1
  <2> QED BY <2>1, <2>2
<1>7. ss[i] = tt[i] BY <1>3 DEF SameUpTo
<1> QED BY <1>3, <1>4, <1>5, <1>6, <1>7

LEMMA JoinedThrice ==
    ASSUME NEW x \in Seq(Unit), NEW y \in Seq(Unit), NEW z \in Seq(Unit)
    PROVE  x \o (y \o z) = (x \o y) \o z
<1>1. (x \o y) \o z = x \o (y \o z) BY ConcatAssociative
<1> QED BY <1>1

(* Joined in either order they are the same.                                  *)
InEitherOrder(x, y, z) == x \o (y \o z) = (x \o y) \o z

LEMMA EitherOrder ==
    ASSUME NEW x \in Seq(Unit), NEW y \in Seq(Unit), NEW z \in Seq(Unit)
    PROVE  InEitherOrder(x, y, z)
BY JoinedThrice DEF InEitherOrder

(* One sequence more.                                                         *)
LEMMA FlattenMore ==
    ASSUME NEW ss, NEW tt, NEW n \in Nat, NEW k \in Nat, k = n + 1,
           Len(ss) = n, Len(tt) = k, n = 0 => ss = <<>>, tt[k] \in Seq(Unit),
           SameUpTo(n, ss, tt)
    PROVE  FlattenSeq(tt) = FlattenSeq(ss) \o tt[k]
<1>1. PICK g : Flattening(tt, k, g) /\ FlattenSeq(tt) = g[k]
  <2>1. Len(tt) \in Nat \ {0} OBVIOUS
  <2> QED BY <2>1, FlattenIs
<1>2. g[k] = IF k = 1 THEN tt[k] ELSE g[n] \o tt[k]
  <2>1. k \in 1 .. k /\ k - 1 = n OBVIOUS
  <2> QED BY <1>1, <2>1 DEF Flattening
<1>3. CASE n = 0
  <2>1. FlattenSeq(ss) = <<>>
    <3>1. Len(ss) = 0 /\ ss = <<>> BY <1>3
    <3> QED BY <3>1, Zenon DEF FlattenSeq
  <2>2. tt[k] = <<>> \o tt[k] BY ConcatEmptySeq
  <2>3. g[k] = tt[k] BY <1>2, <1>3
  <2> QED BY <1>1, <2>1, <2>2, <2>3, Zenon
<1>4. CASE n # 0
  <2>1. PICK f : Flattening(ss, n, f) /\ FlattenSeq(ss) = f[n]
    <3>1. Len(ss) \in Nat \ {0} BY <1>4
    <3> QED BY <3>1, FlattenIs
  <2>2. n \in 1 .. n /\ n <= k /\ k # 1 BY <1>4
  <2>3. SameUpTo(n, f, g) BY <1>1, <2>1, <2>2, FlatteningAgrees
  <2>4. g[k] = g[n] \o tt[k] BY <1>2, <2>2, Zenon
  <2>5. f[n] = g[n] BY <2>2, <2>3 DEF SameUpTo
  <2> QED BY <1>1, <2>1, <2>4, <2>5, Zenon
<1> QED BY <1>3, <1>4

(* An entry, and the archive up to the k-th.                                  *)
EntryOf(m, body) == <<U("path", m), U("size", Len(body))>> \o Bytes(body)
EntriesOf(list, got, k) == [i \in 1 .. k |-> EntryOf(list[i], got[list[i]])]
UnitsOf(list, got, k) == Header(Len(list)) \o FlattenSeq(EntriesOf(list, got, k))

LEMMA EntryType ==
    ASSUME NEW m \in Member, NEW body \in Seq(Nat)
    PROVE  /\ EntryOf(m, body) \in Seq(Unit) /\ Bytes(body) \in Seq(Unit)
           /\ <<U("path", m), U("size", Len(body))>> \in Seq(Unit)
           /\ Len(Bytes(body)) = Len(body) /\ Len(EntryOf(m, body)) = Len(body) + 2
<1>1. /\ U("path", m) \in Unit /\ U("size", Len(body)) \in Unit /\ Len(body) \in Nat
  BY UnitIs, ArchiveAssumption, LenProperties
<1>2. Bytes(body) \in Seq(Unit) /\ Len(Bytes(body)) = Len(body)
  <2>1. \A i \in 1 .. Len(body) : U("byte", body[i]) \in Unit BY UnitIs, ElementOfSeq
  <2> QED BY <1>1, <2>1 DEF Bytes
<1>3. <<U("path", m), U("size", Len(body))>> \in Seq(Unit) BY <1>1
<1> QED BY <1>1, <1>2, <1>3, ConcatProperties DEF EntryOf

LEMMA EntriesType ==
    ASSUME NEW list \in Seq(Member), NEW got \in [Member -> Seq(Nat)], NEW k \in 0 .. Len(list)
    PROVE  EntriesOf(list, got, k) \in Seq(Seq(Unit)) /\ Len(EntriesOf(list, got, k)) = k
<1>1. \A i \in 1 .. k : list[i] \in Member /\ got[list[i]] \in Seq(Nat)
  <2>1. \A i \in 1 .. Len(list) : list[i] \in Member BY ElementOfSeq
  <2> QED BY <2>1, LenProperties
<1>2. k \in Nat BY LenProperties
<1>3. \A i \in 1 .. k : EntryOf(list[i], got[list[i]]) \in Seq(Unit) BY <1>1, EntryType
<1> QED BY <1>2, <1>3 DEF EntriesOf

LEMMA NoUnitsYet ==
    ASSUME NEW list \in Seq(Member), NEW got
    PROVE  UnitsOf(list, got, 0) = Header(Len(list))
<1>1. EntriesOf(list, got, 0) = <<>> BY DEF EntriesOf
<1>2. FlattenSeq(<<>>) = <<>> BY DEF FlattenSeq
<1>3. Header(Len(list)) \in Seq(Unit)
  <2>1. Len(list) \in Nat BY LenProperties
  <2> QED BY <2>1, HeaderIsFine DEF Fine
<1>4. Header(Len(list)) \o <<>> = Header(Len(list)) BY <1>3, ConcatEmptySeq
<1> QED BY <1>1, <1>2, <1>4 DEF UnitsOf

LEMMA UnitsType ==
    ASSUME NEW list \in Seq(Member), NEW got \in [Member -> Seq(Nat)], NEW k \in 0 .. Len(list)
    PROVE  UnitsOf(list, got, k) \in Seq(Unit) /\ FlattenSeq(EntriesOf(list, got, k)) \in Seq(Unit)
<1> DEFINE T == {n \in 0 .. Len(list) : FlattenSeq(EntriesOf(list, got, n)) \notin Seq(Unit)}
<1>0. Len(list) \in Nat BY LenProperties
<1>1. T = {}
  <2> SUFFICES ASSUME T # {} PROVE FALSE
    OBVIOUS
  <2>1. PICK n \in T : \A j \in T : n <= j
    <3>1. T \subseteq Nat BY <1>0
    <3> HIDE DEF T
    <3> QED BY <3>1, Least
  <2>2. n \in 0 .. Len(list) /\ FlattenSeq(EntriesOf(list, got, n)) \notin Seq(Unit)
    OBVIOUS
  <2>3. n # 0
    <3>1. EntriesOf(list, got, 0) = <<>> BY DEF EntriesOf
    <3>2. FlattenSeq(<<>>) = <<>> /\ <<>> \in Seq(Unit) BY EmptySeq DEF FlattenSeq
    <3> QED BY <2>2, <3>1, <3>2
  <2>4. PICK j \in 0 .. Len(list) : n = j + 1 /\ ~(n <= j)
    <3>1. n - 1 \in 0 .. Len(list) /\ n = (n - 1) + 1 /\ ~(n <= n - 1) BY <1>0, <2>2, <2>3
    <3> QED BY <3>1
  <2>5. FlattenSeq(EntriesOf(list, got, j)) \in Seq(Unit) BY <2>1, <2>4
  <2> DEFINE ss == EntriesOf(list, got, j)
             tt == EntriesOf(list, got, j + 1)
  <2>6. /\ ss \in Seq(Seq(Unit)) /\ tt \in Seq(Seq(Unit)) /\ Len(ss) = j /\ Len(tt) = j + 1
    BY <2>2, <2>4, EntriesType
  <2>7. tt[j + 1] \in Seq(Unit)
    <3>1. j + 1 \in 1 .. Len(tt) BY <1>0, <2>4, <2>6
    <3> HIDE DEF tt
    <3> QED BY <2>6, <3>1, ElementOfSeq
  <2>8. SameUpTo(j, ss, tt) BY <1>0, <2>4 DEF EntriesOf, SameUpTo
  <2>9. j = 0 => ss = <<>>
    <3> HIDE DEF ss, tt
    <3> QED BY <2>6, EmptySeq
  <2>10. FlattenSeq(tt) = FlattenSeq(ss) \o tt[j + 1]
    <3>1. j \in Nat /\ j + 1 \in Nat BY <1>0
    <3> HIDE DEF T, ss, tt
    <3>2. /\ Len(ss) = j /\ Len(tt) = j + 1 /\ tt[j + 1] \in Seq(Unit) BY <2>6, <2>7
    <3> QED BY <2>8, <2>9, <3>1, <3>2, FlattenMore
  <2>11. FlattenSeq(tt) \in Seq(Unit)
    <3> HIDE DEF ss, tt
    <3>1. FlattenSeq(ss) \in Seq(Unit) BY <2>5 DEF ss
    <3> QED BY <2>7, <2>10, <3>1, ConcatProperties
  <2> QED BY <2>2, <2>4, <2>11
<1>2. FlattenSeq(EntriesOf(list, got, k)) \in Seq(Unit) BY <1>1
<1>3. Header(Len(list)) \in Seq(Unit) BY <1>0, HeaderIsFine DEF Fine
<1> QED BY <1>2, <1>3, ConcatProperties DEF UnitsOf

(* One entry more, if no member is listed twice.                              *)
LEMMA UnitsMore ==
    ASSUME NEW list \in Seq(Member), NEW got \in [Member -> Seq(Nat)], NEW k \in Nat,
           k < Len(list), NEW body \in Seq(Nat),
           \A i \in 1 .. k : list[i] # list[k + 1]
    PROVE  UnitsOf(list, [got EXCEPT ![list[k + 1]] = body], k + 1)
              = UnitsOf(list, got, k) \o EntryOf(list[k + 1], body)
<1> DEFINE m == list[k + 1]
           more == [got EXCEPT ![m] = body]
           ss == EntriesOf(list, got, k)
           tt == EntriesOf(list, more, k + 1)
<1>0. Len(list) \in Nat BY LenProperties
<1>1. k \in 0 .. Len(list) /\ k + 1 \in 1 .. Len(list) /\ k + 1 \in 0 .. Len(list) BY <1>0
<1>2. m \in Member BY <1>1, ElementOfSeq
<1>3. more \in [Member -> Seq(Nat)] BY <1>2
<1>4. \A i \in 1 .. k : list[i] \in Member
  <2>1. \A i \in 1 .. Len(list) : list[i] \in Member BY ElementOfSeq
  <2> QED BY <1>0, <2>1
<1>5. \A i \in 1 .. k : more[list[i]] = got[list[i]] BY <1>2, <1>4
<1>6. more[m] = body BY <1>2
<1> HIDE DEF more
<1>7. ss \in Seq(Seq(Unit)) /\ tt \in Seq(Seq(Unit)) /\ Len(ss) = k /\ Len(tt) = k + 1
  BY <1>1, <1>3, EntriesType
<1>8. SameUpTo(k, ss, tt)
  <2>1. \A i \in 1 .. k : i \in 1 .. k + 1 OBVIOUS
  <2> QED BY <1>5, <2>1 DEF EntriesOf, SameUpTo
<1>9. tt[k + 1] = EntryOf(m, body)
  <2>1. k + 1 \in 1 .. k + 1 OBVIOUS
  <2> QED BY <1>6, <2>1 DEF EntriesOf
<1>10. EntryOf(m, body) \in Seq(Unit) BY <1>2, EntryType
<1> HIDE DEF m
<1>11. FlattenSeq(tt) = FlattenSeq(ss) \o EntryOf(m, body)
  <2>1. (k = 0 => ss = <<>>) /\ k + 1 \in Nat BY <1>7, EmptySeq
  <2>2. tt[k + 1] \in Seq(Unit) BY <1>9, <1>10
  <2> HIDE DEF ss, tt
  <2>3. PICK j \in Nat : j = k + 1 BY <2>1
  <2>4. Len(ss) = k /\ Len(tt) = j /\ tt[j] \in Seq(Unit) BY <1>7, <2>2, <2>3
  <2>5. FlattenSeq(tt) = FlattenSeq(ss) \o tt[j] BY <1>7, <1>8, <2>1, <2>3, <2>4, FlattenMore, Zenon
  <2> QED BY <1>9, <2>3, <2>5, Zenon
<1>12. Header(Len(list)) \in Seq(Unit) BY <1>0, HeaderIsFine DEF Fine
<1>13. FlattenSeq(ss) \in Seq(Unit) BY <1>1, UnitsType
<1>14. Header(Len(list)) \o (FlattenSeq(ss) \o EntryOf(m, body))
         = (Header(Len(list)) \o FlattenSeq(ss)) \o EntryOf(m, body)
  <2> DEFINE h == Header(Len(list))
             x == FlattenSeq(ss)
             e == EntryOf(m, body)
  <2>1. h \in Seq(Unit) /\ x \in Seq(Unit) /\ e \in Seq(Unit) BY <1>10, <1>12, <1>13
  <2> HIDE DEF h, x, e, ss, tt
  <2>2. h \o (x \o e) = (h \o x) \o e BY <2>1, JoinedThrice
  <2> QED BY <2>2 DEF h, x, e
<1>15. UnitsOf(list, more, k + 1) = Header(Len(list)) \o FlattenSeq(tt) BY DEF UnitsOf
<1>16. UnitsOf(list, got, k) = Header(Len(list)) \o FlattenSeq(ss) BY DEF UnitsOf
<1>17. UnitsOf(list, more, k + 1) = UnitsOf(list, got, k) \o EntryOf(m, body)
  <2> HIDE DEF ss, tt
  <2> QED BY <1>11, <1>14, <1>15, <1>16, Zenon
<1> QED BY <1>17, Zenon DEF m, more

(********************* a packed directory is whole ***************************)

(* A list names each of its members once, all of them.                        *)
LEMMA ListFacts ==
    ASSUME NEW S \in SUBSET Member, NEW list \in SetToSeqs(S)
    PROVE  /\ list \in Seq(Member) /\ Len(list) \in Nat
           /\ \A i \in 1 .. Len(list) : list[i] \in S
           /\ \A i, j \in 1 .. Len(list) : i # j => list[i] # list[j]
           /\ \A m \in S : \E i \in 1 .. Len(list) : list[i] = m
<1> DEFINE D == 1 .. Cardinality(S)
<1>1. IsFiniteSet(S) BY ArchiveAssumption, FS_Subset
<1>2. Cardinality(S) \in Nat BY <1>1, FS_CardinalityType
<1>3. list \in [D -> S] /\ \A i, j \in D : i # j => list[i] # list[j] BY DEF SetToSeqs
<1>4. list \in Seq(Member) BY ListOfMembers
<1>5. Len(list) = Cardinality(S) /\ D = 1 .. Len(list)
  <2>1. list \in [1 .. Cardinality(S) -> Member] BY <1>3
  <2>2. DOMAIN list = 1 .. Len(list) /\ Len(list) \in Nat BY <1>4, LenProperties
  <2>3. 1 .. Cardinality(S) = 1 .. Len(list) BY <2>1, <2>2
  <2> QED BY <1>2, <2>2, <2>3
<1>6. \A m \in S : \E i \in D : list[i] = m
  <2>1. list \in Injection(D, S) BY <1>3 DEF Injection, IsInjective
  <2>2. IsFiniteSet(D) /\ Cardinality(D) = Cardinality(S) BY <1>2, FS_Interval
  <2>3. list \in Surjection(D, S) BY <1>1, <2>1, <2>2, FS_Injection
  <2> QED BY <2>3 DEF Surjection
<1> QED BY <1>2, <1>3, <1>4, <1>5, <1>6

(* The list of the directory n: what is there and not in it was changed, or   *)
(* could not be listed.                                                       *)
Listing(n, S, list) ==
    /\ S \in SUBSET Member /\ list \in SetToSeqs(S) /\ <<n, 0>> \in dirs
    /\ faults = 0 => \A m \in Member : tree[n][m] # NoFile => m \in S \/ <<n, m>> \in edited

(* The member is as it was read, unless it was changed.                       *)
AsItIs(n, m, body) == <<n, m>> \in edited \/ tree[n][m] = body

(* The first k of the list are in the archive, with what was read of them.    *)
Written(n, S, list, got, k) ==
    /\ Listing(n, S, list) /\ got \in [Member -> Seq(Nat)] /\ k \in 0 .. Len(list)
    /\ \A i \in 1 .. k : AsItIs(n, list[i], got[list[i]])

(* What is left of the list after the first k.                                *)
Remaining(entries, list, k) ==
    /\ Len(entries) = Len(list) - k
    /\ \A i \in 1 .. Len(entries) : entries[i] = list[k + i]

(* b is the beginning of a file that had that size.                           *)
PartRead(n, m, size, b) ==
    /\ b \in Seq(Nat) /\ Len(b) <= size
    /\ <<n, m>> \in edited
       \/ (tree[n][m] # NoFile /\ Len(tree[n][m]) = size /\ SameUpTo(Len(b), b, tree[n][m]))

(* Between two entries, within an entry, and after the last.                  *)
Entering(n, w) ==
    \E S, list, got, k :
       Written(n, S, list, got, k) /\ Remaining(w.entries, list, k) /\ w.units = UnitsOf(list, got, k)

Begins(m, size, b) == <<U("path", m), U("size", size)>> \o Bytes(b)

Copying(n, w) ==
    \E S, list, got, k, b :
       /\ Written(n, S, list, got, k) /\ Remaining(w.entries, list, k) /\ k < Len(list)
       /\ PartRead(n, list[k + 1], w.size, b) /\ Len(b) = w.size - w.left
       /\ w.units = UnitsOf(list, got, k) \o Begins(list[k + 1], w.size, b)

Archived(n, units) ==
    \E S, list, got :
       Written(n, S, list, got, Len(list)) /\ units = UnitsOf(list, got, Len(list))

(* A step in which nothing happens to the directory but what users do.        *)
Calm(n) ==
    /\ <<n, 0>> \in dirs => <<n, 0>> \in dirs'
    /\ faults' = 0 => faults = 0
    /\ edited \subseteq edited'
    /\ \A m \in Member : tree'[n][m] = tree[n][m] \/ <<n, m>> \in edited'

LEMMA CalmWritten ==
    ASSUME NEW n, Calm(n), NEW S, NEW list, NEW got, NEW k, Written(n, S, list, got, k)
    PROVE  Written(n, S, list, got, k)'
<1>1. Listing(n, S, list) /\ list \in Seq(Member) /\ Len(list) \in Nat
  BY ListFacts DEF Written, Listing
<1>2. Listing(n, S, list)' BY <1>1 DEF Listing, Calm
<1>3. \A i \in 1 .. k : AsItIs(n, list[i], got[list[i]])'
  <2> SUFFICES ASSUME NEW i \in 1 .. k PROVE AsItIs(n, list[i], got[list[i]])'
    OBVIOUS
  <2>1. AsItIs(n, list[i], got[list[i]]) BY DEF Written
  <2>2. list[i] \in Member
    <3>1. i \in 1 .. Len(list) BY <1>1 DEF Written
    <3> QED BY <1>1, <3>1, ElementOfSeq
  <2> QED BY <2>1, <2>2 DEF AsItIs, Calm
<1> QED BY <1>2, <1>3 DEF Written

LEMMA CalmPart ==
    ASSUME NEW n, Calm(n), NEW m \in Member, NEW size, NEW b, PartRead(n, m, size, b)
    PROVE  PartRead(n, m, size, b)'
BY DEF PartRead, Calm, SameUpTo

(* All that is known of the archive survives such a step.                     *)
LEMMA CalmKeeps ==
    ASSUME NEW n, Calm(n)
    PROVE  /\ \A w : Entering(n, w) => Entering(n, w)'
           /\ \A w : Copying(n, w) => Copying(n, w)'
           /\ \A units : Archived(n, units) => Archived(n, units)'
<1>1. ASSUME NEW w, Entering(n, w) PROVE Entering(n, w)'
  BY <1>1, CalmWritten DEF Entering
<1>2. ASSUME NEW units, Archived(n, units) PROVE Archived(n, units)'
  BY <1>2, CalmWritten DEF Archived
<1>3. ASSUME NEW w, Copying(n, w) PROVE Copying(n, w)'
  <2>1. PICK S, list, got, k, b :
          /\ Written(n, S, list, got, k) /\ Remaining(w.entries, list, k) /\ k < Len(list)
          /\ PartRead(n, list[k + 1], w.size, b) /\ Len(b) = w.size - w.left
          /\ w.units = UnitsOf(list, got, k) \o Begins(list[k + 1], w.size, b)
    BY <1>3 DEF Copying
  <2>2. list[k + 1] \in Member
    <3>1. list \in Seq(Member) /\ Len(list) \in Nat /\ k \in 0 .. Len(list)
      BY <2>1, ListFacts DEF Written, Listing
    <3>2. k + 1 \in 1 .. Len(list) BY <2>1, <3>1
    <3> QED BY <3>1, <3>2, ElementOfSeq
  <2>3. Written(n, S, list, got, k)' BY <2>1, CalmWritten
  <2>4. PartRead(n, list[k + 1], w.size, b)' BY <2>1, <2>2, CalmPart
  <2> QED BY <2>1, <2>3, <2>4 DEF Copying
<1> QED BY <1>1, <1>2, <1>3

(* The first of what remains, and the others.                                 *)
LEMMA RemainingFirst ==
    ASSUME NEW entries \in Seq(Member), NEW list \in Seq(Member), NEW k \in 0 .. Len(list),
           Remaining(entries, list, k)
    PROVE  /\ entries = <<>> => k = Len(list)
           /\ entries # <<>> => /\ k < Len(list) /\ Head(entries) = list[k + 1]
                                /\ Remaining(Tail(entries), list, k + 1)
<1>0. Len(list) \in Nat /\ Len(entries) \in Nat BY LenProperties
<1>1. Len(entries) = Len(list) - k /\ \A i \in 1 .. Len(entries) : entries[i] = list[k + i]
  BY DEF Remaining
<1>2. ASSUME entries # <<>>
      PROVE  /\ k < Len(list) /\ Head(entries) = list[k + 1]
             /\ Remaining(Tail(entries), list, k + 1)
  <2>1. Len(entries) # 0 BY <1>2, EmptySeq
  <2>2. k < Len(list) /\ 1 \in 1 .. Len(entries) BY <1>0, <1>1, <2>1
  <2>3. Head(entries) = list[k + 1] BY <1>1, <1>2, <2>2, HeadTailProperties
  <2>4. /\ Len(Tail(entries)) = Len(entries) - 1
        /\ \A i \in 1 .. Len(Tail(entries)) : Tail(entries)[i] = entries[i + 1]
    BY <1>2, HeadTailProperties
  <2>5. ASSUME NEW i \in 1 .. Len(Tail(entries)) PROVE Tail(entries)[i] = list[(k + 1) + i]
    <3>1. i + 1 \in 1 .. Len(entries) /\ k + (i + 1) = (k + 1) + i BY <1>0, <2>4
    <3> QED BY <1>1, <2>4, <2>5, <3>1
  <2>6. Len(Tail(entries)) = Len(list) - (k + 1) BY <1>0, <1>1, <2>4
  <2> QED BY <2>2, <2>3, <2>5, <2>6 DEF Remaining
<1>3. entries = <<>> => k = Len(list)
  <2>1. Len(<<>>) = 0 OBVIOUS
  <2> QED BY <1>0, <1>1, <2>1
<1> QED BY <1>2, <1>3

(* What is known of the list that is being written.                           *)
LEMMA WrittenFacts ==
    ASSUME NEW n, NEW S, NEW list, NEW got, NEW k, Written(n, S, list, got, k)
    PROVE  /\ list \in Seq(Member) /\ Len(list) \in Nat /\ got \in [Member -> Seq(Nat)]
           /\ k \in 0 .. Len(list) /\ k \in Nat
           /\ UnitsOf(list, got, k) \in Seq(Unit)
           /\ \A i, j \in 1 .. Len(list) : i # j => list[i] # list[j]
           /\ k < Len(list) => list[k + 1] \in Member /\ k + 1 \in 1 .. Len(list)
<1>1. /\ list \in Seq(Member) /\ Len(list) \in Nat /\ got \in [Member -> Seq(Nat)]
      /\ k \in 0 .. Len(list)
      /\ \A i, j \in 1 .. Len(list) : i # j => list[i] # list[j]
  BY ListFacts DEF Written, Listing
<1>2. UnitsOf(list, got, k) \in Seq(Unit) BY <1>1, UnitsType
<1>3. ASSUME k < Len(list) PROVE list[k + 1] \in Member /\ k + 1 \in 1 .. Len(list)
  <2>1. k + 1 \in 1 .. Len(list) BY <1>1, <1>3
  <2> QED BY <1>1, <2>1, ElementOfSeq
<1>4. k \in Nat BY <1>1
<1> QED BY <1>1, <1>2, <1>3, <1>4

(* OpenArchive: nothing but the header.                                       *)
LEMMA HeaderWritten ==
    ASSUME NEW n, NEW S, NEW w, Listing(n, S, w.entries), w.units = Header(Len(w.entries))
    PROVE  Entering(n, w)
<1> DEFINE list == w.entries
           got == [m \in Member |-> <<>>]
<1>1. list \in Seq(Member) /\ Len(list) \in Nat BY ListFacts DEF Listing
<1>2. got \in [Member -> Seq(Nat)] BY EmptySeq
<1>3. Written(n, S, list, got, 0)
  <2> HIDE DEF got
  <2> QED BY <1>1, <1>2 DEF Written
<1>4. Remaining(w.entries, list, 0) BY <1>1 DEF Remaining
<1>5. w.units = UnitsOf(list, got, 0)
  <2> HIDE DEF got
  <2> QED BY <1>1, NoUnitsYet
<1> HIDE DEF list, got
<1> QED BY <1>3, <1>4, <1>5 DEF Entering

(* StatEntry: the path and the size.                                          *)
LEMMA EntryBegun ==
    ASSUME NEW n, NEW w \in Work, Entering(n, w), w.entries # <<>>,
           NEW body \in Seq(Nat), tree[n][Head(w.entries)] = body,
           NEW v, v.entries = w.entries, v.size = Len(body), v.left = Len(body),
           v.units = w.units \o <<U("path", Head(w.entries)), U("size", Len(body))>>
    PROVE  Copying(n, v)
<1>1. PICK S, list, got, k :
        Written(n, S, list, got, k) /\ Remaining(w.entries, list, k) /\ w.units = UnitsOf(list, got, k)
  BY DEF Entering
<1> DEFINE m == list[k + 1]
           h == <<U("path", m), U("size", Len(body))>>
<1>2. /\ list \in Seq(Member) /\ k \in 0 .. Len(list) /\ w.units \in Seq(Unit)
      /\ w.entries \in Seq(Member)
  BY <1>1, WrittenFacts DEF Work
<1>3. k < Len(list) /\ Head(w.entries) = m BY <1>1, <1>2, RemainingFirst
<1>4. m \in Member BY <1>1, <1>3, WrittenFacts
<1>5. Len(body) \in Nat /\ body # NoFile BY ArchiveAssumption, LenProperties
<1>6. PartRead(n, m, Len(body), <<>>)
  <2>1. tree[n][m] = body BY <1>3
  <2>2. <<>> \in Seq(Nat) /\ Len(<<>>) = 0 /\ \A i \in 1 .. 0 : FALSE BY EmptySeq
  <2> HIDE DEF m
  <2> QED BY <1>5, <2>1, <2>2 DEF PartRead, SameUpTo
<1>7. Begins(m, Len(body), <<>>) = h
  <2>1. Bytes(<<>>) = <<>> BY DEF Bytes
  <2>2. h \in Seq(Unit) BY <1>4, EntryType
  <2>3. h \o <<>> = h
    <3> HIDE DEF h
    <3> QED BY <2>2, ConcatEmptySeq
  <2> QED BY <2>1, <2>3 DEF Begins
<1>8. v.units = UnitsOf(list, got, k) \o Begins(m, v.size, <<>>)
  BY <1>1, <1>3, <1>7
<1>9. Len(<<>>) = v.size - v.left BY <1>5
<1>10. Remaining(v.entries, list, k) /\ PartRead(n, m, v.size, <<>>)
  BY <1>1, <1>6
<1> HIDE DEF h
<1> QED BY <1>1, <1>3, <1>8, <1>9, <1>10 DEF Copying

(* A byte more of the file is one more in the archive.                        *)
Grows(m, size, b, x) ==
    /\ Begins(m, size, b) \in Seq(Unit)
    /\ Begins(m, size, Append(b, x)) = Append(Begins(m, size, b), U("byte", x))

LEMMA OneByteMore ==
    ASSUME NEW m \in Member, NEW size \in Nat, NEW b \in Seq(Nat), NEW x \in Nat
    PROVE  Grows(m, size, b, x)
<1> DEFINE h == <<U("path", m), U("size", size)>>
           s == Bytes(b)
           u == U("byte", x)
<1>1. h \in Seq(Unit) /\ u \in Unit BY UnitIs, ArchiveAssumption
<1>2. s \in Seq(Unit) BY EntryType
<1>3. Bytes(Append(b, x)) = Append(s, u)
  <2>0. Len(b) \in Nat /\ Len(s) = Len(b) BY LenProperties, EntryType
  <2>1. /\ Append(b, x) \in Seq(Nat) /\ Len(Append(b, x)) = Len(b) + 1
        /\ \A i \in 1 .. Len(b) : Append(b, x)[i] = b[i]
        /\ Append(b, x)[Len(b) + 1] = x
    BY AppendProperties
  <2>2. /\ Append(s, u) \in Seq(Unit) /\ Len(Append(s, u)) = Len(b) + 1
        /\ \A i \in 1 .. Len(b) : Append(s, u)[i] = s[i]
        /\ Append(s, u)[Len(b) + 1] = u
    <3> HIDE DEF s, u
    <3> QED BY <1>1, <1>2, <2>0, AppendProperties
  <2>3. /\ Bytes(Append(b, x)) \in Seq(Unit) /\ Len(Bytes(Append(b, x))) = Len(b) + 1
    BY <2>1, EntryType
  <2>4. ASSUME NEW i \in 1 .. Len(b) + 1 PROVE Bytes(Append(b, x))[i] = Append(s, u)[i]
    <3>1. Bytes(Append(b, x))[i] = U("byte", Append(b, x)[i]) BY <2>1 DEF Bytes
    <3>2. CASE i = Len(b) + 1 BY <2>1, <2>2, <3>1, <3>2
    <3>3. CASE i # Len(b) + 1
      <4>1. i \in 1 .. Len(b) BY <2>0, <3>3
      <4>2. s[i] = U("byte", b[i]) BY <4>1 DEF Bytes
      <4> HIDE DEF s, u
      <4> QED BY <2>1, <2>2, <3>1, <4>1, <4>2
    <3> QED BY <3>2, <3>3
  <2> HIDE DEF s, u
  <2> QED BY <2>2, <2>3, <2>4, SeqEqual
<1>4. h \o Append(s, u) = Append(h \o s, u) /\ h \o s \in Seq(Unit)
  <2> HIDE DEF h, s, u
  <2>1. h \o s \in Seq(Unit) BY <1>1, <1>2, ConcatProperties
  <2>2. h \o (s \o <<u>>) = (h \o s) \o <<u>>
    <3>1. <<u>> \in Seq(Unit) BY <1>1
    <3> QED BY <1>1, <1>2, <3>1, JoinedThrice
  <2>3. s \o <<u>> = Append(s, u) BY <1>1, <1>2, AppendIsConcat
  <2>4. (h \o s) \o <<u>> = Append(h \o s, u) BY <1>1, <2>1, AppendIsConcat
  <2> QED BY <2>1, <2>2, <2>3, <2>4
<1> QED BY <1>3, <1>4 DEF Begins, Grows

(* CopyEntry: another byte.                                                   *)
LEMMA ByteCopied ==
    ASSUME NEW n, NEW w \in Work, Copying(n, w), w.entries # <<>>, w.left # 0, w.left <= w.size,
           NEW body \in Seq(Nat), tree[n][Head(w.entries)] = body,
           NEW off \in Nat, off = w.size - w.left, off < Len(body),
           NEW v, v.entries = w.entries, v.size = w.size, v.left = w.left - 1,
           v.units = Append(w.units, U("byte", body[off + 1]))
    PROVE  Copying(n, v)
<1>1. PICK S, list, got, k, b :
        /\ Written(n, S, list, got, k) /\ Remaining(w.entries, list, k) /\ k < Len(list)
        /\ PartRead(n, list[k + 1], w.size, b) /\ Len(b) = w.size - w.left
        /\ w.units = UnitsOf(list, got, k) \o Begins(list[k + 1], w.size, b)
  BY DEF Copying
<1> DEFINE m == list[k + 1]
           x == body[off + 1]
           more == Append(b, x)
           u == UnitsOf(list, got, k)
<1>2. /\ list \in Seq(Member) /\ k \in 0 .. Len(list) /\ u \in Seq(Unit) /\ m \in Member
      /\ w.entries \in Seq(Member) /\ w.size \in Nat /\ w.left \in Nat /\ b \in Seq(Nat)
  BY <1>1, WrittenFacts DEF Work, PartRead
<1>3. Head(w.entries) = m BY <1>1, <1>2, RemainingFirst
<1>4. Len(body) \in Nat /\ off + 1 \in 1 .. Len(body) /\ body # NoFile
  <2>1. Len(body) \in Nat BY LenProperties
  <2> QED BY <2>1, ArchiveAssumption
<1>5. x \in Nat BY <1>4, ElementOfSeq
<1>6. /\ more \in Seq(Nat) /\ Len(more) = off + 1 /\ more[off + 1] = x
      /\ \A i \in 1 .. off : more[i] = b[i]
  <2>1. Len(b) = off BY <1>1
  <2>2. PICK y \in Nat : y = x BY <1>5
  <2>3. /\ Append(b, y) \in Seq(Nat) /\ Len(Append(b, y)) = Len(b) + 1
        /\ Append(b, y)[Len(b) + 1] = y
        /\ \A i \in 1 .. Len(b) : Append(b, y)[i] = b[i]
    BY <1>2, AppendProperties
  <2>4. more = Append(b, y) BY <2>2
  <2> HIDE DEF more, x
  <2> QED BY <2>1, <2>2, <2>3, <2>4
<1>7. off + 1 <= w.size
  <2>1. w.size \in Nat /\ w.left \in Nat BY <1>2
  <2> QED BY <2>1
<1>8. PartRead(n, m, w.size, more)
  <2>1. CASE <<n, m>> \in edited
    <3> HIDE DEF more, m
    <3> QED BY <1>6, <1>7, <2>1 DEF PartRead
  <2>2. CASE <<n, m>> \notin edited
    <3>1. Len(body) = w.size /\ SameUpTo(off, b, body) BY <1>1, <1>3, <2>2 DEF PartRead
    <3>2. ASSUME NEW i \in 1 .. off + 1 PROVE more[i] = body[i]
      <4>1. CASE i = off + 1 BY <1>6, <4>1
      <4>2. CASE i # off + 1
        <5>1. i \in 1 .. off BY <4>2
        <5> HIDE DEF more
        <5> QED BY <1>6, <3>1, <5>1 DEF SameUpTo
      <4> QED BY <4>1, <4>2
    <3>3. SameUpTo(Len(more), more, body)
      <4> HIDE DEF more
      <4> QED BY <1>6, <3>2 DEF SameUpTo
    <3>4. tree[n][m] = body BY <1>3
    <3> HIDE DEF more, m
    <3> QED BY <1>4, <1>6, <1>7, <3>1, <3>3, <3>4 DEF PartRead
  <2> QED BY <2>1, <2>2
<1>9. v.units = u \o Begins(m, w.size, more)
  <2> DEFINE g == Begins(m, w.size, b)
             e == U("byte", x)
  <2>1. g \in Seq(Unit) /\ Begins(m, w.size, more) = Append(g, e)
    <3>1. /\ m \in Member /\ w.size \in Nat /\ b \in Seq(Nat) /\ x \in Nat BY <1>2, <1>5
    <3> HIDE DEF m, x
    <3>2. Grows(m, w.size, b, x) BY <3>1, OneByteMore
    <3> QED BY <3>2 DEF Grows
  <2>2. v.units = Append(u \o g, e) BY <1>1
  <2>3. e \in Unit BY <1>5, UnitIs
  <2> HIDE DEF g, e, u, m, x, more
  <2>4. <<e>> \in Seq(Unit) /\ u \o g \in Seq(Unit) BY <1>2, <2>1, <2>3, ConcatProperties
  <2>5. u \o (g \o <<e>>) = (u \o g) \o <<e>>
    <3>1. InEitherOrder(u, g, <<e>>) BY <1>2, <2>1, <2>4, EitherOrder
    <3> QED BY <3>1 DEF InEitherOrder
  <2>6. g \o <<e>> = Append(g, e) /\ (u \o g) \o <<e>> = Append(u \o g, e)
    BY <2>1, <2>3, <2>4, AppendIsConcat
  <2> QED BY <2>1, <2>2, <2>5, <2>6
<1>10. Len(more) = v.size - v.left
  <2>1. v.size - v.left = off + 1
    <3>1. w.size \in Nat /\ w.left \in Nat BY <1>2
    <3> QED BY <3>1
  <2> HIDE DEF more
  <2> QED BY <1>6, <2>1
<1> HIDE DEF u, m, more
<1>11. /\ Remaining(v.entries, list, k) /\ PartRead(n, m, v.size, more)
       /\ v.units = UnitsOf(list, got, k) \o Begins(m, v.size, more)
  BY <1>1, <1>8, <1>9 DEF u
<1> QED BY <1>1, <1>10, <1>11 DEF Copying, m

(* CopyEntry: the whole entry is there.                                       *)
LEMMA EntryCopied ==
    ASSUME NEW n, NEW w \in Work, Copying(n, w), w.entries # <<>>, w.left = 0,
           \A m \in Member : tree[n][m] \in Seq(Nat) \cup {NoFile},
           NEW v, v.entries = Tail(w.entries), v.units = w.units
    PROVE  Entering(n, v)
<1>1. PICK S, list, got, k, b :
        /\ Written(n, S, list, got, k) /\ Remaining(w.entries, list, k) /\ k < Len(list)
        /\ PartRead(n, list[k + 1], w.size, b) /\ Len(b) = w.size - w.left
        /\ w.units = UnitsOf(list, got, k) \o Begins(list[k + 1], w.size, b)
  BY DEF Copying
<1> DEFINE m == list[k + 1]
           more == [got EXCEPT ![m] = b]
<1>2. /\ list \in Seq(Member) /\ k \in 0 .. Len(list) /\ k \in Nat /\ Len(list) \in Nat
      /\ got \in [Member -> Seq(Nat)] /\ m \in Member
      /\ w.entries \in Seq(Member) /\ w.size \in Nat /\ b \in Seq(Nat)
      /\ \A i, j \in 1 .. Len(list) : i # j => list[i] # list[j]
  <2>1. /\ list \in Seq(Member) /\ k \in 0 .. Len(list) /\ k \in Nat /\ Len(list) \in Nat
        /\ got \in [Member -> Seq(Nat)] /\ m \in Member
        /\ \A i, j \in 1 .. Len(list) : i # j => list[i] # list[j]
    BY <1>1, WrittenFacts
  <2>2. w.entries \in Seq(Member) /\ w.size \in Nat BY DEF Work
  <2>3. b \in Seq(Nat) BY <1>1 DEF PartRead
  <2> QED BY <2>1, <2>2, <2>3
<1>3. Len(b) = w.size BY <1>1, <1>2
<1>4. Remaining(v.entries, list, k + 1) BY <1>1, <1>2, RemainingFirst
<1>5. \A i \in 1 .. k : list[i] # m /\ list[i] \in Member
  <2> SUFFICES ASSUME NEW i \in 1 .. k PROVE list[i] # m /\ list[i] \in Member
    OBVIOUS
  <2>1. i \in 1 .. Len(list) /\ k + 1 \in 1 .. Len(list) /\ i # k + 1 BY <1>1, <1>2
  <2>2. list[i] # list[k + 1] BY <1>2, <2>1
  <2> QED BY <1>2, <2>1, <2>2, ElementOfSeq
<1>6. v.units = UnitsOf(list, more, k + 1)
  <2>1. UnitsOf(list, more, k + 1) = UnitsOf(list, got, k) \o EntryOf(m, b)
    <3>1. \A i \in 1 .. k : list[i] # list[k + 1] BY <1>5
    <3>2. k < Len(list) BY <1>1
    <3> HIDE DEF m, more
    <3>3. UnitsOf(list, [got EXCEPT ![list[k + 1]] = b], k + 1)
            = UnitsOf(list, got, k) \o EntryOf(list[k + 1], b)
      <4>1. /\ list \in Seq(Member) /\ got \in [Member -> Seq(Nat)]
            /\ k \in Nat /\ b \in Seq(Nat)
        BY <1>2
      <4> QED BY <3>1, <3>2, <4>1, UnitsMore, Zenon
    <3> QED BY <3>3 DEF m, more
  <2>2. EntryOf(m, b) = Begins(m, w.size, b) BY <1>3 DEF EntryOf, Begins
  <2> QED BY <1>1, <2>1, <2>2
<1>7. /\ more \in [Member -> Seq(Nat)] /\ more[m] = b
      /\ \A i \in 1 .. k : more[list[i]] = got[list[i]]
  BY <1>2, <1>5
<1> HIDE DEF more
<1>8. AsItIs(n, m, b)
  <2> SUFFICES ASSUME <<n, m>> \notin edited PROVE tree[n][m] = b
    BY DEF AsItIs
  <2>1. /\ tree[n][m] # NoFile /\ Len(tree[n][m]) = w.size
        /\ SameUpTo(Len(b), b, tree[n][m])
    BY <1>1 DEF PartRead
  <2>2. PICK t \in Seq(Nat) : t = tree[n][m] BY <1>2, <2>1
  <2>3. Len(b) = Len(t) /\ \A i \in 1 .. Len(b) : b[i] = t[i]
    BY <1>3, <2>1, <2>2 DEF SameUpTo
  <2>4. b = t BY <1>2, <2>3, SeqEqual
  <2> QED BY <2>2, <2>4
<1>9. Written(n, S, list, more, k + 1)
  <2>1. ASSUME NEW i \in 1 .. k + 1 PROVE AsItIs(n, list[i], more[list[i]])
    <3>1. CASE i = k + 1 BY <1>7, <1>8, <3>1
    <3>2. CASE i # k + 1
      <4>1. i \in 1 .. k BY <1>2, <3>2
      <4>2. AsItIs(n, list[i], got[list[i]]) BY <1>1, <4>1 DEF Written
      <4> QED BY <1>7, <4>1, <4>2
    <3> QED BY <3>1, <3>2
  <2>2. k + 1 \in 0 .. Len(list) BY <1>1, <1>2
  <2> QED BY <1>1, <1>7, <2>1, <2>2 DEF Written
<1> QED BY <1>4, <1>6, <1>9 DEF Entering

(* CloseArchive: no entry remains.                                            *)
LEMMA AllWritten ==
    ASSUME NEW n, NEW w \in Work, Entering(n, w), w.entries = <<>>
    PROVE  Archived(n, w.units)
<1>1. PICK S, list, got, k :
        Written(n, S, list, got, k) /\ Remaining(w.entries, list, k) /\ w.units = UnitsOf(list, got, k)
  BY DEF Entering
<1>2. list \in Seq(Member) /\ k \in 0 .. Len(list) /\ w.entries \in Seq(Member)
  BY <1>1, WrittenFacts DEF Work
<1>3. k = Len(list) BY <1>1, <1>2, RemainingFirst
<1> QED BY <1>1, <1>3 DEF Archived

(* What PackedIsWhole compares the archive with.                              *)
Changed(n) == {m \in Member : <<n, m>> \in edited}
KeptIn(n) == Present(n) \ Changed(n)
UnlistedIn(n) == IF faults = 0 THEN {{}} ELSE SUBSET KeptIn(n)
FilesOf(n, missed, more, read) ==
    [m \in (KeptIn(n) \ missed) \cup more |-> IF m \in more THEN read[m] ELSE tree[n][m]]

LEMMA ArchivedIsWhole ==
    ASSUME Seq(Nat) \subseteq ReadBody, NEW n, NEW units, Archived(n, units)
    PROVE  \E missed \in UnlistedIn(n), more \in SUBSET Changed(n) :
              \E read \in [more -> ReadBody] : units \in ArchivesOf(FilesOf(n, missed, more, read))
<1>1. PICK S, list, got :
        Written(n, S, list, got, Len(list)) /\ units = UnitsOf(list, got, Len(list))
  BY DEF Archived
<1>2. /\ S \in SUBSET Member /\ list \in SetToSeqs(S) /\ <<n, 0>> \in dirs
      /\ faults = 0 => \A m \in Member : tree[n][m] # NoFile => m \in S \/ <<n, m>> \in edited
      /\ got \in [Member -> Seq(Nat)]
      /\ \A i \in 1 .. Len(list) : AsItIs(n, list[i], got[list[i]])
  BY <1>1 DEF Written, Listing
<1>3. \A m \in S : m \in Changed(n) \/ (m \in KeptIn(n) /\ tree[n][m] = got[m])
  <2> SUFFICES ASSUME NEW m \in S, m \notin Changed(n)
               PROVE  m \in KeptIn(n) /\ tree[n][m] = got[m]
    OBVIOUS
  <2>1. PICK i \in 1 .. Len(list) : list[i] = m BY <1>2, ListFacts
  <2>2. AsItIs(n, m, got[m]) BY <1>2, <2>1
  <2>3. m \in Member /\ <<n, m>> \notin edited BY <1>2 DEF Changed
  <2>4. tree[n][m] = got[m] BY <2>2, <2>3 DEF AsItIs
  <2>5. got[m] \in Seq(Nat) /\ got[m] # NoFile BY <1>2, <2>3, ArchiveAssumption
  <2> QED BY <1>2, <2>3, <2>4, <2>5 DEF KeptIn, Present, Changed
<1> DEFINE missed == KeptIn(n) \ S
           more == S \cap Changed(n)
           read == [m \in more |-> got[m]]
           files == FilesOf(n, missed, more, read)
<1>4. missed \in UnlistedIn(n)
  <2>1. CASE faults = 0
    <3>1. missed = {} BY <1>2, <2>1 DEF KeptIn, Present, Changed
    <3> QED BY <2>1, <3>1 DEF UnlistedIn
  <2>2. CASE faults # 0 BY <2>2 DEF UnlistedIn
  <2> QED BY <2>1, <2>2
<1>5. more \in SUBSET Changed(n) OBVIOUS
<1>6. read \in [more -> ReadBody]
  <2>1. \A m \in more : got[m] \in ReadBody BY <1>2
  <2> QED BY <2>1
<1>7. (KeptIn(n) \ missed) \cup more = S BY <1>3
<1>8. /\ DOMAIN files = S
      /\ \A m \in S : files[m] = got[m]
  <2>1. files = [m \in S |-> IF m \in more THEN read[m] ELSE tree[n][m]]
    BY <1>7, Zenon DEF FilesOf
  <2>2. \A m \in S : (IF m \in more THEN read[m] ELSE tree[n][m]) = got[m]
    BY <1>3
  <2> HIDE DEF files, more, read
  <2> QED BY <2>1, <2>2
<1>9. units = ArchiveUnits(list, files)
  <2>1. \A i \in 1 .. Len(list) : list[i] \in S BY <1>2, ListFacts
  <2>2. EntriesOf(list, got, Len(list))
          = [i \in 1 .. Len(list) |->
               <<U("path", list[i]), U("size", Len(files[list[i]]))>> \o Bytes(files[list[i]])]
    <3> HIDE DEF files
    <3>1. \A i \in 1 .. Len(list) : EntryOf(list[i], got[list[i]])
            = <<U("path", list[i]), U("size", Len(files[list[i]]))>> \o Bytes(files[list[i]])
      BY <1>8, <2>1 DEF EntryOf
    <3> QED BY <3>1 DEF EntriesOf
  <2> HIDE DEF files
  <2> QED BY <1>1, <2>2, Zenon DEF UnitsOf, ArchiveUnits
<1>10. units \in ArchivesOf(files)
  <2> HIDE DEF files
  <2> QED BY <1>2, <1>8, <1>9 DEF ArchivesOf
<1> HIDE DEF missed, more, read
<1> QED BY <1>4, <1>5, <1>6, <1>10

(* A run that waits for another begins when that one has ended.               *)
Waits ==
    \A r \in Run :
       pc[r] # "idle" => r \in DOMAIN plan.does /\ \A s \in Run : s \in plan.waits[r] => pc[s] \in Ended

(* r has the machine for itself while it runs, and its names for ever.        *)
Sheltered(r) ==
    /\ Alone(r)
    /\ \A s \in Run \ {r} : MayWrite(call[s]) \cap {call[r].input, call[r].output} = {}

(* What has become of the archive, step by step.                              *)
Result(r, units) ==
    Results(call[r].operations, call[r].comp_alg, [Empty EXCEPT !.units = units])

Underway(r) ==
    LET n == call[r].input
        w == work[r]
    IN /\ pc[r] = "open" => \E S : Listing(n, S, w.entries)
       /\ pc[r] = "entry" => w.linked /\ Entering(n, w)
       /\ pc[r] \in {"openentry", "copy"} => w.linked /\ Copying(n, w)
       /\ pc[r] = "drop" => result[r] = -1

Finished(r) ==
    LET n == call[r].input
    IN /\ pc[r] = "pipe" =>
             \E units : Archived(n, units) /\ file[temp[r]] = [Empty EXCEPT !.units = units]
       /\ pc[r] = "writing" => \E units : Archived(n, units) /\ work[r].coded \in Result(r, units)
       /\ (pc[r] = "rmtemp" /\ result[r] = 0) \/ Returned(r, 0) =>
             \E units : Archived(n, units) /\ file[call[r].output] \in Result(r, units)

Recorded(r) == Packing(r) /\ Sheltered(r) /\ r \notin lost => Underway(r) /\ Finished(r)

WholeInv == DoneInv /\ Waits /\ \A r \in Run : Recorded(r)

LEMMA WritesWhatItMay ==
    ASSUME NameInv, NEW s \in Run
    PROVE  call[s].output \in MayWrite(call[s]) \cup {NoName}
BY DEF NameInv, OwnName, MayWrite

LEMMA WritesAreOld ==
    ASSUME DoneInv, [Next]_vars, NEW s \in Run
    PROVE  MayWrite(call'[s]) = MayWrite(call[s]) \/ MayWrite(call[s]) = {NoName}
<1>1. CASE \E q \in Run : Step(q) BY <1>1, StepsRequest
<1>2. CASE ~ \E q \in Run : Step(q)
  <2>1. call' = call BY <1>2 DEF Next, Kill, Edit, vars, avars, locals
  <2> QED BY <2>1
<1> QED BY <1>1, <1>2

LEMMA PlannedRuns == ASSUME DoneInv PROVE DOMAIN plan.does \subseteq Run
<1>1. plan \in Planned BY DEF DoneInv, TypeInv, Inv, Types
<1>2. PICK p \in Plans : plan = p.plan BY <1>1 DEF Planned
<1> QED BY <1>2, PlanAssumption

(* Ended runs take no step, and waiting ones none before the end of those they*)
(* wait for.                                                                  *)
LEMMA StepOfWhom ==
    ASSUME NEW r \in Run, DoneInv, Waits, Step(r)
    PROVE  /\ pc[r] \notin Ended
           /\ pc'[r] # "idle" /\ r \in DOMAIN plan.does
           /\ \A s \in Run : s \in plan.waits[r] => pc[s] \in Ended
           /\ plan' = plan /\ \A s \in Run \ {r} : pc'[s] = pc[s]
<1>0. TypeInv /\ pc \in [Run -> Label] BY DEF DoneInv, TypeInv, Inv, Types
<1>1. plan' = plan BY DEF Step, Main, Dispatch, NameOutput, CallLibrary
<1>2. \A s \in Run \ {r} : pc'[s] = pc[s]
  BY <1>0, ArchiveStepsSpare, StartStepsSpare DEF Step, Undisturbed
<1>3. CASE Main(r) \/ CallLibrary(r)
  <2>1. MayStart(r) /\ pc'[r] # "idle"
    BY <1>0, <1>3 DEF Main, CallLibrary, Ends, Goto
  <2> QED BY <1>1, <1>2, <2>1 DEF MayStart, Ended
<1>4. CASE Dispatch(r) \/ NameOutput(r)
  <2>1. pc[r] \in {"dispatch", "name"} /\ pc'[r] # "idle"
    BY <1>0, <1>4 DEF Dispatch, NameOutput, Goto
  <2> QED BY <1>1, <1>2, <2>1 DEF Waits, Ended
<1>5. CASE ArchiveStep(r)
  <2>1. pc[r] \notin {"idle", "dispatch", "name", "returned", "killed"} /\ pc'[r] # "idle"
    BY <1>0, <1>5, ArchiveStepsKeepCall
  <2> QED BY <1>1, <1>2, <2>1 DEF Waits, Ended
<1> QED BY <1>3, <1>4, <1>5 DEF Step

LEMMA NextKeepsWaits ==
    ASSUME DoneInv, Waits, [Next]_vars
    PROVE  Waits'
<1>0. pc \in [Run -> Label] BY DEF DoneInv, TypeInv, Inv, Types
<1>1. ASSUME plan' = plan, \A s \in Run : pc'[s] = pc[s] \/ (pc'[s] = "killed" /\ pc[s] # "idle")
      PROVE  Waits'
  BY <1>1 DEF Waits, Ended
<1>2. CASE \E r \in Run : Step(r)
  <2>1. PICK r \in Run : Step(r) BY <1>2
  <2> QED BY <2>1, StepOfWhom DEF Waits
<1>3. CASE \E r \in Run : Kill(r) /\ UNCHANGED plan
  <2>1. PICK r \in Run : Kill(r) /\ plan' = plan BY <1>3
  <2>2. pc[r] # "idle" /\ pc' = [pc EXCEPT ![r] = "killed"]
    BY <2>1 DEF Kill, Goto, Busy, PackLabels, UnpackLabels
  <2> QED BY <1>0, <1>1, <2>1, <2>2
<1>4. CASE \E n \in plan.changing, m \in Member, body \in Body \cup {NoFile} :
              Edit(n, m, body) /\ UNCHANGED plan
  <2>1. UNCHANGED <<pc, plan>> BY <1>4 DEF Edit
  <2> QED BY <1>1, <2>1
<1>5. CASE UNCHANGED vars
  <2>1. UNCHANGED <<pc, plan>> BY <1>5 DEF vars, avars
  <2> QED BY <1>1, <2>1
<1> QED BY <1>2, <1>3, <1>4, <1>5 DEF Next

(* While r runs and is alone, no other takes a step.                          *)
LEMMA OnlyOne ==
    ASSUME NEW r \in Run, NEW s \in Run \ {r}, DoneInv, Waits, Alone(r), pc[r] \in Busy, Step(s)
    PROVE  FALSE
<1>1. pc[r] # "idle" /\ pc[r] \notin Ended BY DEF Busy, PackLabels, UnpackLabels, Ended
<1>2. r \in DOMAIN plan.does /\ \A q \in Run : q \in plan.waits[r] => pc[q] \in Ended
  BY <1>1 DEF Waits
<1>3. /\ pc[s] \notin Ended /\ s \in DOMAIN plan.does
      /\ \A q \in Run : q \in plan.waits[s] => pc[q] \in Ended
  BY StepOfWhom
<1>4. r \in plan.waits[s] \/ s \in plan.waits[r] BY <1>3 DEF Alone
<1> QED BY <1>1, <1>2, <1>3, <1>4

PackSteps(r) ==
    \/ MakeTemp(r) \/ TempFails(r) \/ RemoveTemp(r)
    \/ ListDirectory(r) \/ OpenArchive(r) \/ StatEntry(r) \/ OpenEntry(r)
    \/ CopyEntry(r) \/ CloseArchive(r) \/ PackFault(r) \/ DropArchive(r)
    \/ PipelineOpens(r) \/ PipelineTruncates(r)
    \/ PipelineOk(r) \/ PipelineRefuses(r) \/ PipelineFails(r)

(* A step of a run that packs leaves the directories alone.                   *)
LEMMA PackingIsCalm ==
    ASSUME NEW r \in Run, TypeInv, ArchiveStep(r), Packing(r), NEW n
    PROVE  /\ PackSteps(r) /\ Calm(n) /\ lost \subseteq lost'
           /\ dirs' = dirs /\ tree' = tree /\ edited' = edited
<1>0. faults \in Nat /\ Placed(r) BY RunFacts, ArchiveAssumption DEF TypeInv, History
<1>1. PackSteps(r)
  <2>1. pc[r] \notin UnpackLabels BY <1>0 DEF Placed, Packing
  <2> QED BY <2>1 DEF ArchiveStep, PackSteps, ReadHeader, CheckDirectory, MakeDirectory,
         NextEntry, CreateMember, FillMember, FillFault, UnpackFault, UnpackLabels
<1>2. dirs' = dirs /\ tree' = tree /\ edited' = edited
  <2>1. CASE MakeTemp(r) \/ TempFails(r) \/ RemoveTemp(r)
    BY <2>1 DEF MakeTemp, TempFails, RemoveTemp, fs
  <2>2. CASE \/ ListDirectory(r) \/ OpenArchive(r) \/ StatEntry(r) \/ OpenEntry(r)
             \/ CopyEntry(r) \/ CloseArchive(r) \/ PackFault(r) \/ DropArchive(r)
    BY <2>2 DEF ListDirectory, OpenArchive, StatEntry, OpenEntry, CopyEntry, CloseArchive,
       PackFault, DropArchive, fs
  <2>3. CASE \/ PipelineOpens(r) \/ PipelineTruncates(r)
             \/ PipelineOk(r) \/ PipelineRefuses(r) \/ PipelineFails(r)
    BY <2>3 DEF PipelineOpens, PipelineTruncates, PipelineOk, PipelineRefuses, PipelineFails, fs
  <2> QED BY <1>1, <2>1, <2>2, <2>3 DEF PackSteps
<1>3. (faults' = faults \/ Fault) /\ (lost' = lost \/ lost' = lost \cup {r})
  <2>1. CASE MakeTemp(r) \/ TempFails(r) \/ RemoveTemp(r)
    BY <2>1 DEF MakeTemp, TempFails, RemoveTemp
  <2>2. CASE \/ ListDirectory(r) \/ OpenArchive(r) \/ StatEntry(r) \/ OpenEntry(r)
             \/ CopyEntry(r) \/ PackFault(r) \/ DropArchive(r)
    BY <2>2 DEF ListDirectory, OpenArchive, StatEntry, OpenEntry, CopyEntry,
       PackFault, DropArchive
  <2>3. CASE \/ PipelineOpens(r) \/ PipelineTruncates(r)
             \/ PipelineOk(r) \/ PipelineRefuses(r) \/ PipelineFails(r)
    BY <2>3 DEF PipelineOpens, PipelineTruncates, PipelineOk, PipelineRefuses, PipelineFails
  <2>4. CASE CloseArchive(r) BY <2>4 DEF CloseArchive
  <2> QED BY <1>1, <2>1, <2>2, <2>3, <2>4 DEF PackSteps
<1>4. faults' = 0 => faults = 0 BY <1>0, <1>3 DEF Fault
<1> QED BY <1>1, <1>2, <1>3, <1>4 DEF Calm

(* Names only come into a call from nothing, so that a shelter is one from the*)
(* beginning.                                                                 *)
LEMMA ShelterIsOld ==
    ASSUME NEW r \in Run, DoneInv, [Next]_vars, Packing(r),
           pc[r] \notin {"name", "killed"},
           call'[r].input = call[r].input, call'[r].output = call[r].output, Sheltered(r)'
    PROVE  Sheltered(r)
<1>0. call[r].input \in Path /\ call[r].output \in Path
  <2>1. TypeInv /\ call[r].mode = "pack" BY DEF DoneInv, Packing
  <2> QED BY <2>1, RunFacts DEF Addressed
<1>1. plan' = plan
  BY DEF Next, Step, Main, Dispatch, NameOutput, CallLibrary, vars
<1>2. Alone(r) BY <1>1 DEF Sheltered, Alone
<1>3. ASSUME NEW s \in Run \ {r} PROVE MayWrite(call[s]) \cap {call[r].input, call[r].output} = {}
  <2>1. MayWrite(call'[s]) = MayWrite(call[s]) \/ MayWrite(call[s]) = {NoName} BY WritesAreOld
  <2>2. NoName \notin Path BY ArchiveAssumption DEF Path
  <2>3. MayWrite(call'[s]) \cap {call'[r].input, call'[r].output} = {} BY DEF Sheltered
  <2> QED BY <1>0, <2>1, <2>2, <2>3
<1> QED BY <1>2, <1>3 DEF Sheltered

(* What is known of a run that packs.                                         *)
LEMMA PackFacts ==
    ASSUME NEW r \in Run, TypeInv, Packing(r), pc[r] \notin {"name", "killed"}
    PROVE  /\ pc \in [Run -> Label] /\ call \in [Run -> Call] /\ call[r] \in Call
           /\ result \in [Run -> {-1, 0}] /\ file = [n \in Name |-> file[n]]
           /\ work = [q \in Run |-> work[q]] /\ work[r] \in Work
           /\ work[r].entries \in Seq(Member) /\ work[r].size \in Nat /\ work[r].left \in Nat
           /\ work[r].units \in Seq(Unit)
           /\ call[r].input \in Path /\ call[r].output \in Path /\ call[r].output \in Name
           /\ pc[r] \in Busy \ Free => /\ temp[r] \in TempName /\ temp[r] \in Name
                                       /\ temp[r] # call[r].output
           /\ \A m \in Member : tree[call[r].input][m] \in Seq(Nat) \cup {NoFile}
<1>1. /\ call[r] \in Call /\ work[r] \in Work /\ Addressed(r) /\ Placed(r)
      /\ call[r].mode = "pack"
  BY RunFacts DEF Packing
<1>2. /\ pc \in [Run -> Label] /\ call \in [Run -> Call] /\ result \in [Run -> {-1, 0}]
      /\ file = [n \in Name |-> file[n]] /\ work = [q \in Run |-> work[q]]
      /\ tree \in [Name -> [Member -> Seq(Nat) \cup {NoFile}]]
  BY DEF TypeInv, Inv, Types, History, OnDisk
<1>3. call[r].input \in Path /\ call[r].output \in Path BY <1>1 DEF Addressed
<1>4. call[r].input \in Name /\ call[r].output \in Name BY <1>3 DEF Path
<1>5. pc[r] \in Busy \ Free => temp[r] \in TempName BY <1>1 DEF Placed
<1>6. TempName \subseteq Name BY ArchiveAssumption
<1>7. \A m \in Member : tree[call[r].input][m] \in Seq(Nat) \cup {NoFile} BY <1>2, <1>4
<1>8. pc[r] \in Busy \ Free => temp[r] \in Name /\ temp[r] # call[r].output
  BY <1>3, <1>5, <1>6 DEF Path
<1>9. work[r].entries \in Seq(Member) /\ work[r].size \in Nat /\ work[r].left \in Nat
      /\ work[r].units \in Seq(Unit)
  BY <1>1 DEF Work
<1> QED BY <1>1, <1>2, <1>3, <1>4, <1>5, <1>7, <1>8, <1>9

LEMMA ListIsListing ==
    ASSUME NEW r \in Run, TypeInv, Packing(r), ListDirectory(r)
    PROVE  Underway(r)'
<1> DEFINE n == call[r].input
<1>0. /\ pc \in [Run -> Label] /\ work = [q \in Run |-> work[q]] /\ n \in Name
      /\ faults \in Nat
  <2>1. pc[r] = "list" BY DEF ListDirectory
  <2> QED BY <2>1, PackFacts, ArchiveAssumption DEF Path, TypeInv, History
<1>1. /\ pc[r] = "list" /\ UNCHANGED <<file, dirs, tree, call, temp, lost, edited>>
  BY DEF ListDirectory, fs
<1>2. PICK passed :
        /\ IF passed = {} THEN UNCHANGED faults ELSE Fault
        /\ \E list \in SetToSeqs(Present(n) \ passed) :
              /\ work' = [work EXCEPT ![r] = [NoWork EXCEPT !.entries = list]]
              /\ IF list = <<>> THEN Ends(r, -1, "rmtemp") ELSE Goto(r, "open") /\ UNCHANGED result
  BY DEF ListDirectory
<1>3. PICK list \in SetToSeqs(Present(n) \ passed) :
        /\ work' = [work EXCEPT ![r] = [NoWork EXCEPT !.entries = list]]
        /\ IF list = <<>> THEN Ends(r, -1, "rmtemp") ELSE Goto(r, "open") /\ UNCHANGED result
  BY <1>2
<1>4. PICK S \in SUBSET Member : S = Present(n) \ passed
  BY DEF Present
<1>5. CASE list = <<>>
  <2>1. pc'[r] = "rmtemp" BY <1>0, <1>3, <1>5 DEF Ends, Goto
  <2> QED BY <2>1 DEF Underway
<1>6. CASE list # <<>>
  <2>1. pc'[r] = "open" BY <1>0, <1>3, <1>6 DEF Goto
  <2>2. work'[r].entries = list BY <1>0, <1>3 DEF NoWork
  <2>3. <<n, 0>> \in dirs
    <3>1. list \in Seq(Member) /\ Len(list) \in Nat /\ \A i \in 1 .. Len(list) : list[i] \in S
      BY <1>3, <1>4, ListFacts
    <3>2. Len(list) # 0 BY <1>6, <3>1, EmptySeq
    <3>3. list[1] \in S BY <3>1, <3>2
    <3> QED BY <1>4, <3>3 DEF Present
  <2>4. faults' = 0 => \A m \in Member : tree[n][m] # NoFile => m \in S
    <3>1. faults' = 0 => passed = {} BY <1>0, <1>2 DEF Fault
    <3> QED BY <1>4, <2>3, <3>1 DEF Present
  <2>5. PICK k : k = n OBVIOUS
  <2>6. call'[r].input = k BY <1>1, <2>5
  <2>7. Listing(k, S, list)'
    <3>1. list \in SetToSeqs(S) BY <1>3, <1>4
    <3>2. <<k, 0>> \in dirs' BY <1>1, <2>3, <2>5
    <3>3. faults' = 0 => \A m \in Member : tree'[k][m] # NoFile => m \in S \/ <<k, m>> \in edited'
      BY <1>1, <2>4, <2>5
    <3> QED BY <1>4, <3>1, <3>2, <3>3 DEF Listing
  <2>8. \E T : Listing(call[r].input, T, work[r].entries)'
    BY <2>2, <2>6, <2>7
  <2> QED BY <2>1, <2>8 DEF Underway
<1> QED BY <1>5, <1>6

(* Within create_directory_archive_file what is in the archive so far is known*)
(* and what is left to do.                                                    *)
LEMMA OwnStepUnderway ==
    ASSUME NEW r \in Run, TypeInv, ArchiveStep(r), Packing(r), Packing(r)', Underway(r)
    PROVE  Underway(r)'
<1> DEFINE n == call[r].input
           w == work[r]
           v == work'[r]
<1>0. /\ pc \in [Run -> Label] /\ work = [q \in Run |-> work[q]] /\ w \in Work
      /\ result \in [Run -> {-1, 0}] /\ Ready(r)
      /\ w.entries \in Seq(Member) /\ w.size \in Nat /\ w.left \in Nat /\ w.units \in Seq(Unit)
      /\ \A m \in Member : tree[n][m] \in Seq(Nat) \cup {NoFile}
  BY PackFacts, RunFacts, ArchiveStepsKeepCall
<1>1. PackSteps(r) /\ Calm(n) BY PackingIsCalm
<1>2. call'[r].input = n BY ArchiveStepsKeepCall DEF SameCall
<1>3. PICK k : k = n OBVIOUS
<1>4. Calm(k) /\ call'[r].input = k BY <1>1, <1>2, <1>3
<1>5. ASSUME pc'[r] \notin {"open", "entry", "openentry", "copy", "drop"} PROVE Underway(r)'
  BY <1>5 DEF Underway
<1>6. ASSUME pc'[r] = "entry", v.linked, Entering(k, v) PROVE Underway(r)'
  <2>1. PICK u : u = v OBVIOUS
  <2>2. Entering(k, u)' BY <1>4, <1>6, <2>1, CalmKeeps
  <2>3. Entering(call[r].input, work[r])' BY <1>4, <2>1, <2>2
  <2> QED BY <1>6, <2>3 DEF Underway
<1>7. ASSUME pc'[r] \in {"openentry", "copy"}, v.linked, Copying(k, v) PROVE Underway(r)'
  <2>1. PICK u : u = v OBVIOUS
  <2>2. Copying(k, u)' BY <1>4, <1>7, <2>1, CalmKeeps
  <2>3. Copying(call[r].input, work[r])' BY <1>4, <2>1, <2>2
  <2> QED BY <1>7, <2>3 DEF Underway
<1>8. ASSUME pc'[r] = "drop", result'[r] = -1 PROVE Underway(r)'
  BY <1>8 DEF Underway
<1>9. CASE MakeTemp(r) \/ TempFails(r) \/ RemoveTemp(r)
  <2>1. pc'[r] \in {"list", "pipe", "name", "returned"}
    BY <1>0, <1>9 DEF MakeTemp, TempFails, RemoveTemp, Return, Ends, Goto
  <2> QED BY <1>5, <2>1
<1>10. CASE \/ PipelineOpens(r) \/ PipelineTruncates(r)
            \/ PipelineOk(r) \/ PipelineRefuses(r) \/ PipelineFails(r)
  <2>1. pc'[r] \in {"writing", "growing", "rmtemp", "header", "name", "returned"}
    BY <1>0, <1>10 DEF PipelineOpens, PipelineTruncates, PipelineOk, PipelineRefuses,
       PipelineFails, PipelineReturns, Return, Ends, Goto
  <2> QED BY <1>5, <2>1
<1>11. CASE CloseArchive(r) \/ DropArchive(r)
  <2>1. pc'[r] \in {"pipe", "rmtemp"} BY <1>0, <1>11 DEF CloseArchive, DropArchive, Goto
  <2> QED BY <1>5, <2>1
<1>12. CASE PackFault(r)
  <2>1. pc'[r] = "rmtemp" \/ (pc'[r] = "drop" /\ result'[r] = -1)
    BY <1>0, <1>12 DEF PackFault, Ends, Goto
  <2> QED BY <1>5, <1>8, <2>1
<1>13. CASE ListDirectory(r) BY <1>13, ListIsListing
<1>14. CASE OpenArchive(r)
  <2>1. /\ pc[r] = "open" /\ pc'[r] = "entry"
        /\ work' = [work EXCEPT ![r].units = Header(Len(work[r].entries)), ![r].linked = TRUE]
    BY <1>0, <1>14 DEF OpenArchive, Goto
  <2>2. v.entries = w.entries /\ v.linked /\ v.units = Header(Len(w.entries))
    BY <1>0, <2>1 DEF Work
  <2>3. PICK S : Listing(k, S, w.entries) BY <1>3, <2>1 DEF Underway
  <2>4. Entering(k, v)
    <3> HIDE DEF v, w
    <3> QED BY <2>2, <2>3, HeaderWritten
  <2> QED BY <1>6, <2>1, <2>2, <2>4
<1>15. CASE StatEntry(r)
  <2>1. pc[r] = "entry" /\ w.entries # <<>> /\ w.linked /\ Entering(k, w)
    BY <1>3, <1>15 DEF StatEntry, Underway
  <2>2. CASE EntryBody(r) = NoFile
    BY <1>0, <1>8, <1>15, <2>2 DEF StatEntry, Ends, Goto
  <2>3. CASE EntryBody(r) # NoFile
    <3>1. Head(w.entries) \in Member BY <1>0, <2>1, HeadTailProperties
    <3>2. PICK body \in Seq(Nat) : body = tree[k][Head(w.entries)] /\ body = EntryBody(r)
      BY <1>0, <1>3, <2>3, <3>1 DEF EntryBody
    <3>3. /\ pc'[r] = "openentry"
          /\ work' = [work EXCEPT
                ![r].units = @ \o <<U("path", Head(work[r].entries)), U("size", Len(EntryBody(r)))>>,
                ![r].size = Len(EntryBody(r)), ![r].left = Len(EntryBody(r))]
      BY <1>0, <1>15, <2>3 DEF StatEntry, Goto
    <3>4. /\ v.entries = w.entries /\ v.linked = w.linked
          /\ v.size = Len(body) /\ v.left = Len(body)
          /\ v.units = w.units \o <<U("path", Head(w.entries)), U("size", Len(body))>>
      BY <1>0, <3>2, <3>3 DEF Work
    <3>5. Copying(k, v)
      <4> HIDE DEF v, w
      <4> QED BY <1>0, <2>1, <3>2, <3>4, EntryBegun
    <3> QED BY <1>7, <2>1, <3>3, <3>4, <3>5
  <2> QED BY <2>2, <2>3
<1>16. CASE OpenEntry(r)
  <2>1. /\ pc[r] = "openentry" /\ w.linked /\ Copying(k, w) /\ work' = work
        /\ (pc'[r] = "drop" /\ result'[r] = -1) \/ pc'[r] = "copy"
    BY <1>0, <1>3, <1>16 DEF OpenEntry, Underway, Ends, Goto
  <2> QED BY <1>7, <1>8, <2>1
<1>17. CASE CopyEntry(r)
  <2>1. pc[r] = "copy" /\ w.linked /\ Copying(k, w)
    BY <1>3, <1>17 DEF CopyEntry, Underway
  <2>2. w.entries # <<>> /\ w.left <= w.size /\ tree[n][Head(w.entries)] # NoFile
    BY <1>0, <2>1 DEF Ready
  <2>3. Head(w.entries) \in Member BY <1>0, <2>2, HeadTailProperties
  <2>4. PICK body \in Seq(Nat) : body = tree[k][Head(w.entries)] /\ body = EntryBody(r)
    BY <1>0, <1>3, <2>2, <2>3 DEF EntryBody
  <2>5. PICK off \in Nat : off = w.size - w.left BY <1>0, <2>2
  <2>6. CASE Copied(r)
    <3>1. /\ pc'[r] = "entry" /\ work' = [work EXCEPT ![r].entries = Tail(@)] /\ w.left = 0
      BY <1>0, <1>17, <2>6 DEF CopyEntry, Copied, Goto
    <3>2. v.entries = Tail(w.entries) /\ v.linked = w.linked /\ v.units = w.units
      BY <1>0, <3>1 DEF Work
    <3>3. \A m \in Member : tree[k][m] \in Seq(Nat) \cup {NoFile} BY <1>0, <1>3
    <3>4. Entering(k, v)
      <4> HIDE DEF v, w
      <4> QED BY <1>0, <2>1, <2>2, <3>1, <3>2, <3>3, EntryCopied
    <3> QED BY <1>6, <2>1, <3>1, <3>2, <3>4
  <2>7. CASE ~Copied(r) /\ off < Len(body)
    <3>1. /\ pc' = pc
          /\ work' = [work EXCEPT ![r].units = Append(@, U("byte", EntryBody(r)[off + 1])),
                                  ![r].left = @ - 1]
      <4>1. Len(body) \in Nat BY LenProperties
      <4>2. ~(off >= Len(EntryBody(r))) BY <2>4, <2>7, <4>1
      <4>3. off = work[r].size - work[r].left BY <2>5
      <4> HIDE DEF v, w
      <4> QED BY <1>17, <2>7, <4>2, <4>3, Zenon DEF CopyEntry
    <3>2. /\ v.entries = w.entries /\ v.linked = w.linked /\ v.size = w.size
          /\ v.left = w.left - 1 /\ v.units = Append(w.units, U("byte", body[off + 1]))
      BY <1>0, <2>4, <3>1 DEF Work
    <3>3. w.left # 0 BY <2>7 DEF Copied
    <3>4. Copying(k, v)
      <4> HIDE DEF v, w
      <4> QED BY <1>0, <2>1, <2>2, <2>4, <2>5, <2>7, <3>2, <3>3, ByteCopied
    <3> QED BY <1>7, <2>1, <3>1, <3>2, <3>4
  <2>8. CASE ~Copied(r) /\ ~(off < Len(body))
    <3>1. Ends(r, -1, "drop") BY <1>17, <2>4, <2>5, <2>8 DEF CopyEntry
    <3>2. pc'[r] = "drop" /\ result'[r] = -1 BY <1>0, <3>1 DEF Ends, Goto
    <3> QED BY <1>8, <3>2
  <2> QED BY <2>6, <2>7, <2>8
<1> QED BY <1>1, <1>9, <1>10, <1>11, <1>12, <1>13, <1>14, <1>15, <1>16, <1>17 DEF PackSteps

(* Once the archive is closed its contents are known, and so are those of what*)
(* the pipeline makes of it.                                                  *)
(* A short read of an archive's stream header makes of it what the decoder    *)
(* makes of it anyway: an archive that was just written is under no layer.    *)
LEMMA MisreadIsAResult ==
    ASSUME NEW r \in Run, NEW units, file[Source(r)] = [Empty EXCEPT !.units = units],
           NEW x \in Misread(r)
    PROVE  x \in ResultsOn(r, file[Source(r)])
<1> DEFINE c == file[Source(r)]
           y == XorUnit(c, 0)
           alg == call[r].comp_alg
<1>1. x = Garbage /\ Decompresses(r) /\ c # Empty BY DEF Misread
<1>2. c.layers = <<>> /\ y = Pushed(c, [kind |-> "xor", arg |-> 0])
  BY DEF Empty, XorUnit, Outermost
<1>3. ~IsStream(c) BY <1>2 DEF IsStream
<1>4. y.layers = <<[kind |-> "xor", arg |-> 0]>> \o c.layers /\ Empty.layers = <<>>
  BY <1>2 DEF Pushed, Empty
<1>5. y # Empty /\ ~IsStream(y)
  <2>1. y.layers = <<[kind |-> "xor", arg |-> 0]>>
    BY <1>2, <1>4
  <2> HIDE DEF y
  <2> QED BY <1>4, <2>1 DEF IsStream
<1> HIDE DEF c, y
<1>6. Decompressed(alg, c) = {Garbage} /\ Decompressed(alg, y) = {Garbage}
  BY <1>1, <1>3, <1>5 DEF Decompressed
<1>7. StageResults("STAGE_DECOMPRESS", alg, c) = {Garbage}
      /\ StageResults("STAGE_DECOMPRESS", alg, y) = {Garbage}
      /\ StageResults("STAGE_DECRYPT", alg, c) = {y}
  BY <1>1, <1>6 DEF StageResults, y
<1>8. \/ StagesOf(r) = <<"STAGE_DECOMPRESS">>
      \/ StagesOf(r) = <<"STAGE_DECRYPT", "STAGE_DECOMPRESS">>
  BY <1>1 DEF Decompresses, StagesOf, Stages, Last
<1>9. Garbage \in Results(call[r].operations, alg, c)
  <2>1. CASE StagesOf(r) = <<"STAGE_DECOMPRESS">>
    BY <1>7, <2>1 DEF Results, StagesOf
  <2>2. CASE StagesOf(r) = <<"STAGE_DECRYPT", "STAGE_DECOMPRESS">>
    BY <1>7, <2>2 DEF Results, StagesOf
  <2> QED BY <1>8, <2>1, <2>2
<1> QED BY <1>1, <1>9 DEF ResultsOn, c

LEMMA OwnStepFinished ==
    ASSUME NEW r \in Run, TypeInv, ArchiveStep(r), Packing(r), Packing(r)',
           Underway(r), Finished(r), r \notin lost'
    PROVE  Finished(r)'
<1> DEFINE n == call[r].input
           w == work[r]
           o == call[r].output
<1>0. /\ pc \in [Run -> Label] /\ work = [q \in Run |-> work[q]] /\ w \in Work
      /\ result \in [Run -> {-1, 0}] /\ file = [m \in Name |-> file[m]] /\ o \in Name
      /\ call \in [Run -> Call] /\ call[r] \in Call /\ w.units \in Seq(Unit)
      /\ pc[r] \in Busy \ Free => temp[r] \in TempName /\ temp[r] \in Name /\ temp[r] # o
  BY PackFacts, ArchiveStepsKeepCall
<1>1. PackSteps(r) /\ Calm(n) BY PackingIsCalm
<1>2. /\ call'[r].input = n /\ call'[r].output = o
      /\ call'[r].operations = call[r].operations /\ call'[r].comp_alg = call[r].comp_alg
  BY ArchiveStepsKeepCall DEF SameCall
<1>3. PICK k : k = n OBVIOUS
<1>4. /\ Calm(k) /\ call'[r].input = k
      /\ \A units : Result(r, units)' = Result(r, units)
  BY <1>1, <1>2, <1>3 DEF Result
<1>5. ASSUME pc'[r] \notin {"pipe", "writing", "rmtemp", "returned"} PROVE Finished(r)'
  BY <1>5 DEF Finished, Returned
<1>6. ASSUME pc'[r] \in {"rmtemp", "returned"}, result'[r] = -1 PROVE Finished(r)'
  BY <1>6 DEF Finished, Returned
<1>7. ASSUME NEW units, Archived(k, units),
             \/ pc'[r] = "pipe" /\ file'[temp'[r]] = [Empty EXCEPT !.units = units]
             \/ pc'[r] = "writing" /\ work'[r].coded \in Result(r, units)
             \/ pc'[r] \in {"rmtemp", "returned"} /\ file'[o] \in Result(r, units)
      PROVE  Finished(r)'
  <2>1. Archived(k, units)' BY <1>4, <1>7, CalmKeeps
  <2>2. Archived(call[r].input, units)' BY <1>4, <2>1
  <2>3. CASE pc'[r] = "pipe" /\ file'[temp'[r]] = [Empty EXCEPT !.units = units]
    BY <2>2, <2>3 DEF Finished, Returned
  <2>4. CASE pc'[r] = "writing" /\ work'[r].coded \in Result(r, units)
    <3>1. work'[r].coded \in Result(r, units)' BY <1>4, <2>4
    <3> QED BY <2>2, <2>4, <3>1 DEF Finished, Returned
  <2>5. CASE pc'[r] \in {"rmtemp", "returned"} /\ file'[o] \in Result(r, units)
    <3>1. file'[call'[r].output] \in Result(r, units)' BY <1>2, <1>4, <2>5
    <3> QED BY <2>2, <2>5, <3>1 DEF Finished, Returned
  <2> QED BY <1>7, <2>3, <2>4, <2>5
<1>8. ASSUME NEW status, Return(r, status)
      PROVE  pc'[r] = "returned" /\ result'[r] = status
  <2>1. call[r].fallback /\ status # 0 => call'[r].mode = "file"
    BY <1>0, <1>8 DEF Return, Call
  <2>2. call'[r].mode = "pack" BY DEF Packing
  <2> QED BY <1>0, <1>8, <2>1, <2>2 DEF Return, Ends, Goto
<1>9. CASE MakeTemp(r) \/ ListDirectory(r)
  <2>1. pc'[r] \in {"list", "open"} \/ (pc'[r] = "rmtemp" /\ result'[r] = -1)
    <3>1. CASE MakeTemp(r) BY <1>0, <3>1 DEF MakeTemp, Goto
    <3>2. CASE ListDirectory(r) BY <1>0, <3>2 DEF ListDirectory, Ends, Goto
    <3> QED BY <1>9, <3>1, <3>2
  <2> QED BY <1>5, <1>6, <2>1
<1>10. CASE TempFails(r)
  <2>1. Return(r, -1) BY <1>10 DEF TempFails
  <2> QED BY <1>6, <1>8, <2>1
<1>11. CASE RemoveTemp(r)
  <2>1. pc[r] = "rmtemp" /\ Return(r, result[r]) /\ file' = [file EXCEPT ![temp[r]] = NoFile]
    BY <1>11 DEF RemoveTemp, Unlink
  <2>2. pc'[r] = "returned" /\ result'[r] = result[r] BY <1>8, <2>1
  <2>3. CASE result[r] = 0
    <3>1. PICK units : Archived(k, units) /\ file[o] \in Result(r, units)
      BY <1>3, <2>1, <2>3 DEF Finished
    <3>2. file'[o] = file[o] BY <1>0, <2>1 DEF Busy, Free
    <3> QED BY <1>7, <2>2, <3>1, <3>2
  <2>4. CASE result[r] # 0
    <3>1. result[r] = -1 BY <1>0, <2>4
    <3> QED BY <1>6, <2>2, <3>1
  <2> QED BY <2>3, <2>4
<1>12. CASE OpenArchive(r) \/ StatEntry(r) \/ OpenEntry(r) \/ CopyEntry(r)
  <2>1. pc'[r] \notin {"pipe", "writing", "rmtemp", "returned"}
    BY <1>0, <1>12 DEF OpenArchive, StatEntry, OpenEntry, CopyEntry, Ends, Goto
  <2> QED BY <1>5, <2>1
<1>13. CASE PackFault(r)
  <2>1. pc'[r] = "drop" \/ (pc'[r] = "rmtemp" /\ result'[r] = -1)
    BY <1>0, <1>13 DEF PackFault, Ends, Goto
  <2> QED BY <1>5, <1>6, <2>1
<1>14. CASE DropArchive(r)
  <2>1. pc[r] = "drop" /\ pc'[r] = "rmtemp" /\ result' = result
    BY <1>0, <1>14 DEF DropArchive, Goto
  <2> QED BY <1>6, <2>1 DEF Underway
<1>15. CASE CloseArchive(r)
  <2>1. pc[r] = "entry" /\ w.entries = <<>> /\ pc'[r] = "pipe" /\ temp' = temp
    BY <1>0, <1>15 DEF CloseArchive, Goto
  <2>2. w.linked /\ Entering(k, w) BY <1>3, <2>1 DEF Underway
  <2>3. file' = [file EXCEPT ![temp[r]] = [Empty EXCEPT !.units = w.units]]
    BY <1>15, <2>2 DEF CloseArchive
  <2>4. file'[temp'[r]] = [Empty EXCEPT !.units = w.units]
    BY <1>0, <2>1, <2>3 DEF Busy, Free, PackLabels
  <2>5. PICK u : u = w.units OBVIOUS
  <2>6. Archived(k, u) BY <1>0, <2>1, <2>2, <2>5, AllWritten
  <2> QED BY <1>7, <2>1, <2>4, <2>5, <2>6
<1>16. CASE PipelineOpens(r)
  <2>1. pc[r] = "pipe" /\ (pc'[r] = "growing" \/ pc'[r] = "writing")
    BY <1>0, <1>16 DEF PipelineOpens, Goto
  <2>2. Source(r) = temp[r] /\ Target(r) = o /\ temp[r] # o
    BY <1>0, <2>1 DEF Source, Target, Packing, Busy, Free
  <2>3. PICK units : Archived(k, units) /\ file[temp[r]] = [Empty EXCEPT !.units = units]
    BY <1>3, <2>1 DEF Finished
  <2>4. PICK c \in Outcomes(r) \cup Misread(r) :
          work' = [work EXCEPT ![r].coded = c, ![r].linked = TRUE]
    BY <1>16 DEF PipelineOpens
  <2>5. c \in ResultsOn(r, file[temp[r]])
    <3>1. CASE c \in Outcomes(r) BY <2>2, <3>1 DEF Outcomes, OwnInput
    <3>2. CASE c \in Misread(r) BY <2>2, <2>3, <3>2, MisreadIsAResult
    <3> QED BY <2>4, <3>1, <3>2
  <2>6. work'[r].coded = c BY <1>0, <2>4 DEF Work
  <2>7. work'[r].coded \in Result(r, units) BY <2>3, <2>5, <2>6 DEF Result, ResultsOn
  <2> QED BY <1>5, <1>7, <2>1, <2>3, <2>7
<1>17. CASE PipelineOk(r)
  <2>1. /\ pc[r] = "writing" /\ PipelineReturns(r, 0)
        /\ file' = IF Target(r) = temp[r] /\ ~w.linked THEN file
                   ELSE [file EXCEPT ![Target(r)] = w.coded]
    BY <1>17 DEF PipelineOk, Writes
  <2>2. call[r].mode = "pack" BY DEF Packing
  <2>3. pc'[r] = "rmtemp" BY <1>0, <2>1, <2>2 DEF PipelineReturns, Ends, Goto
  <2>4. Target(r) = o /\ temp[r] # o BY <1>0, <2>1, <2>2 DEF Target, Busy, Free
  <2>5. file'[o] = w.coded BY <1>0, <2>1, <2>4
  <2>6. PICK units : Archived(k, units) /\ w.coded \in Result(r, units)
    BY <1>3, <2>1 DEF Finished
  <2> QED BY <1>7, <2>3, <2>5, <2>6
<1>18. CASE PipelineTruncates(r) \/ PipelineRefuses(r) \/ PipelineFails(r)
  <2>1. PipelineReturns(r, -1) BY <1>18 DEF PipelineTruncates, PipelineRefuses, PipelineFails
  <2>2. call[r].mode = "pack" BY DEF Packing
  <2>3. pc'[r] = "rmtemp" /\ result'[r] = -1
    BY <1>0, <2>1, <2>2 DEF PipelineReturns, Ends, Goto
  <2> QED BY <1>6, <2>3
<1> QED BY <1>1, <1>9, <1>10, <1>11, <1>12, <1>13, <1>14, <1>15, <1>16, <1>17, <1>18 DEF PackSteps

(* What a run does is settled after main has read its arguments.              *)
LEMMA MainSetsNoMode ==
    ASSUME NEW r \in Run, DoneInv, Main(r)
    PROVE  call'[r].mode = "none"
<1>0. call \in [Run -> Call] /\ Fresh(r) BY DEF DoneInv, TypeInv, Inv, Types
<1>1. pc[r] = "idle" /\ call[r].mode = "none" BY <1>0 DEF Main, MayStart, Fresh, NoCall
<1> DEFINE p == ParseArguments(plan.does[r].argv)
<1>2. CASE p.status = "go"
  <2>1. call' = [call EXCEPT ![r] =
                   [NoCall EXCEPT !.operations = p.operations, !.comp_alg = p.comp_alg,
                      !.input = p.input, !.output = p.output, !.named = p.output # NoName]]
    BY <1>2 DEF Main
  <2> HIDE DEF p
  <2>2. call'[r] = [NoCall EXCEPT !.operations = p.operations, !.comp_alg = p.comp_alg,
                      !.input = p.input, !.output = p.output, !.named = p.output # NoName]
    BY <1>0, <2>1
  <2> QED BY <2>2 DEF NoCall
<1>3. CASE p.status # "go" BY <1>1, <1>3 DEF Main
<1> QED BY <1>2, <1>3

LEMMA OwnStepRecorded ==
    ASSUME NEW r \in Run, WholeInv, Step(r)
    PROVE  Recorded(r)'
<1> SUFFICES ASSUME Packing(r)', Sheltered(r)', r \notin lost' PROVE (Underway(r) /\ Finished(r))'
  BY DEF Recorded
<1>0. /\ DoneInv /\ TypeInv /\ Fresh(r) /\ Recorded(r)
      /\ pc \in [Run -> Label] /\ call \in [Run -> Call] /\ call[r] \in Call
  BY DEF WholeInv, DoneInv, TypeInv, Inv, Types
<1>1. CASE Main(r) BY <1>0, <1>1, MainSetsNoMode DEF Packing
<1>2. CASE Dispatch(r) \/ NameOutput(r) \/ CallLibrary(r)
  <2>1. pc'[r] \in {"name", "mktemp"}
    <3>1. CASE Dispatch(r) BY <1>0, <3>1 DEF Dispatch, Goto
    <3>2. CASE NameOutput(r)
      <4>1. /\ pc' = [pc EXCEPT ![r] = IF call[r].mode = "file" THEN "pipe" ELSE "mktemp"]
            /\ \E output, seen : call' = [call EXCEPT ![r] =
                                            [call[r] EXCEPT !.output = output, !.seen = seen]]
        BY <1>0, <3>2, NameOutputIs DEF DoneInv, TypeInv, Inv
      <4>2. call'[r].mode = call[r].mode BY <1>0, <4>1 DEF Call
      <4> QED BY <1>0, <4>1, <4>2 DEF Packing
    <3>3. CASE CallLibrary(r) BY <1>0, <3>3 DEF CallLibrary, Goto
    <3> QED BY <1>2, <3>1, <3>2, <3>3
  <2> QED BY <2>1 DEF Underway, Finished, Returned
<1>3. CASE ArchiveStep(r)
  <2>1. Packing(r) /\ SameCall(r) /\ pc[r] \notin {"name", "killed"}
    BY <1>0, <1>3, ArchiveStepsKeepCall DEF Packing
  <2>2. r \notin lost BY <1>0, <1>3, <2>1, PackingIsCalm
  <2>3. Sheltered(r)
    <3>1. [Next]_vars BY DEF Next
    <3> QED BY <1>0, <2>1, <3>1, ShelterIsOld DEF SameCall
  <2>4. Underway(r) /\ Finished(r) BY <1>0, <2>1, <2>2, <2>3 DEF Recorded
  <2> QED BY <1>0, <1>3, <2>1, <2>4, OwnStepUnderway, OwnStepFinished
<1> QED BY <1>1, <1>2, <1>3 DEF Step

(* Directories stay, and so does what has happened.                           *)
LEMMA StepsOnlyAdd ==
    ASSUME NEW r \in Run, TypeInv, Step(r)
    PROVE  /\ dirs \subseteq dirs' /\ lost \subseteq lost' /\ edited' = edited
           /\ faults' = 0 => faults = 0
<1>0. faults \in Nat BY ArchiveAssumption DEF TypeInv, History
<1>1. CASE Main(r) \/ CallLibrary(r)
  BY <1>1 DEF Main, CallLibrary, fs
<1>2. CASE MakeTemp(r) \/ TempFails(r) \/ RemoveTemp(r)
  BY <1>0, <1>2 DEF MakeTemp, TempFails, RemoveTemp, fs, Fault
<1>3. CASE \/ ListDirectory(r) \/ OpenArchive(r) \/ StatEntry(r) \/ OpenEntry(r)
           \/ CopyEntry(r) \/ PackFault(r) \/ DropArchive(r)
  <2>1. UNCHANGED <<dirs, lost, edited>>
    BY <1>3 DEF ListDirectory, OpenArchive, StatEntry, OpenEntry, CopyEntry,
       PackFault, DropArchive, fs
  <2>2. faults' = faults \/ Fault
    BY <1>3 DEF ListDirectory, OpenArchive, StatEntry, OpenEntry, CopyEntry,
       PackFault, DropArchive
  <2> QED BY <1>0, <2>1, <2>2 DEF Fault
<1>4. CASE CloseArchive(r) BY <1>0, <1>4 DEF CloseArchive, Fault
<1>5. CASE \/ PipelineOpens(r) \/ PipelineTruncates(r)
           \/ PipelineOk(r) \/ PipelineRefuses(r) \/ PipelineFails(r)
  <2>1. UNCHANGED <<dirs, lost, edited>>
    BY <1>5 DEF PipelineOpens, PipelineTruncates, PipelineOk, PipelineRefuses, PipelineFails, fs
  <2>2. faults' = faults \/ Fault
    BY <1>5 DEF PipelineOpens, PipelineTruncates, PipelineOk, PipelineRefuses, PipelineFails
  <2> QED BY <1>0, <2>1, <2>2 DEF Fault
<1>6. CASE \/ ReadHeader(r) \/ CheckDirectory(r) \/ NextEntry(r)
           \/ CreateMember(r) \/ FillMember(r) \/ UnpackFault(r)
  BY <1>0, <1>6 DEF ReadHeader, CheckDirectory, NextEntry, CreateMember, FillMember,
     UnpackFault, fs, Fault
<1>7. CASE MakeDirectory(r) BY <1>7 DEF MakeDirectory
<1>8. CASE FillFault(r) BY <1>0, <1>8 DEF FillFault, Fault
<1>9. CASE Dispatch(r) \/ NameOutput(r)
  <2>1. Types BY DEF TypeInv, Inv
  <2>2. /\ UNCHANGED <<dirs, lost, edited>>
        /\ Fault \/ faults' = faults
    BY <1>9, <2>1, DispatchIs, NameOutputIs
  <2> QED BY <1>0, <2>2 DEF Fault
<1> QED BY <1>1, <1>2, <1>3, <1>4, <1>5, <1>6, <1>7, <1>8, <1>9 DEF Step, ArchiveStep

(* A step of another run: r has not begun, or has ended and is sheltered.     *)
LEMMA OthersKeepRecorded ==
    ASSUME NEW r \in Run, WholeInv, NEW q \in Run \ {r}, Step(q)
    PROVE  Recorded(r)'
<1> SUFFICES ASSUME Packing(r)', Sheltered(r)', r \notin lost' PROVE (Underway(r) /\ Finished(r))'
  BY DEF Recorded
<1> DEFINE n == call[r].input
           o == call[r].output
<1>0. /\ DoneInv /\ TypeInv /\ NameInv /\ Inv /\ TreeShape /\ Waits /\ Recorded(r)
      /\ pc \in [Run -> Label]
  BY DEF WholeInv, DoneInv, TypeInv, NameInv, Inv, Types
<1>1. UNCHANGED <<pc[r], call[r], result[r]>>
  <2>1. Undisturbed(r) BY <1>0, ArchiveStepsSpare, StartStepsSpare DEF Step
  <2>2. result'[r] = result[r] BY <1>0, ResultSpared
  <2> QED BY <2>1, <2>2 DEF Undisturbed
<1>2. Packing(r) BY <1>1 DEF Packing
<1> SUFFICES ASSUME pc[r] \notin {"name", "killed"} PROVE (Underway(r) /\ Finished(r))'
  BY <1>1 DEF Underway, Finished, Returned
<1>3. Sheltered(r)
  <2>1. [Next]_vars BY DEF Next
  <2> QED BY <1>0, <1>1, <1>2, <2>1, ShelterIsOld
<1>4. /\ dirs \subseteq dirs' /\ lost \subseteq lost' /\ edited' = edited
      /\ faults' = 0 => faults = 0
  BY <1>0, StepsOnlyAdd
<1>5. Underway(r) /\ Finished(r) BY <1>0, <1>2, <1>3, <1>4 DEF Recorded
<1>6. pc[r] \notin Busy
  <2> SUFFICES ASSUME pc[r] \in Busy PROVE FALSE
    OBVIOUS
  <2>1. Alone(r) BY <1>3 DEF Sheltered
  <2>2. q \in Run /\ r \in Run \ {q} /\ q \in Run \ {r} OBVIOUS
  <2> QED BY <1>0, <2>1, <2>2, OnlyOne
<1>7. CASE ~Returned(r, 0)
  <2>1. pc'[r] \notin {"open", "entry", "openentry", "copy", "drop", "pipe", "writing", "rmtemp"}
    BY <1>1, <1>6 DEF Busy, PackLabels
  <2>2. ~Returned(r, 0)' BY <1>1, <1>7 DEF Returned
  <2> QED BY <2>1, <2>2 DEF Underway, Finished
<1>8. CASE Returned(r, 0)
  <2>1. PICK units : Archived(n, units) /\ file[o] \in Result(r, units)
    BY <1>5, <1>8 DEF Finished
  <2>2. n \in Path /\ o \in Path BY <1>0, <1>2, PackFacts
  <2>3. n # call[q].output /\ o # call[q].output
    <3>1. MayWrite(call[q]) \cap {n, o} = {} BY <1>3 DEF Sheltered
    <3>2. call[q].output \in MayWrite(call[q]) \cup {NoName} BY <1>0, WritesWhatItMay
    <3>3. NoName \notin Path BY ArchiveAssumption DEF Path
    <3> QED BY <2>2, <3>1, <3>2, <3>3
  <2>4. tree'[n] = tree[n] /\ file'[o] = file[o]
    BY <1>0, <2>2, <2>3, StepsSpareNames DEF LeavesAlone
  <2>5. PICK k : k = n OBVIOUS
  <2>6. Calm(k) BY <1>4, <2>4, <2>5 DEF Calm
  <2>7. Archived(k, units)' BY <2>1, <2>5, <2>6, CalmKeeps
  <2>8. Archived(call[r].input, units)' BY <1>1, <2>5, <2>7
  <2>9. (file[call[r].output] \in Result(r, units))' BY <1>1, <2>1, <2>4 DEF Result
  <2>10. pc'[r] = "returned" BY <1>1, <1>8 DEF Returned
  <2> QED BY <2>8, <2>9, <2>10 DEF Underway, Finished
<1> QED BY <1>7, <1>8

(* What is known of the archive is kept by a step that changes nothing of r   *)
(* and is calm for its directory.                                             *)
LEMMA CalmStepKeeps ==
    ASSUME NEW r \in Run, NEW k, k = call[r].input, Calm(k),
           UNCHANGED <<file, call, temp, work, result>>, pc'[r] = pc[r],
           Underway(r), Finished(r)
    PROVE  (Underway(r) /\ Finished(r))'
<1>1. PICK w : w = work[r] OBVIOUS
<1>2. call'[r].input = k /\ work'[r] = w BY <1>1
<1>3. pc[r] = "open" => \E S : Listing(call[r].input, S, work[r].entries)'
  <2> SUFFICES ASSUME pc[r] = "open"
               PROVE  \E S : Listing(call[r].input, S, work[r].entries)'
    OBVIOUS
  <2>1. PICK S : Listing(k, S, w.entries) BY <1>1 DEF Underway
  <2>2. Listing(k, S, w.entries)' BY <2>1 DEF Listing, Calm
  <2> QED BY <1>2, <2>2
<1>4. pc[r] = "entry" => work'[r].linked /\ Entering(call[r].input, work[r])'
  <2> SUFFICES ASSUME pc[r] = "entry"
               PROVE  work'[r].linked /\ Entering(call[r].input, work[r])'
    OBVIOUS
  <2>1. work[r].linked /\ Entering(k, w) BY <1>1 DEF Underway
  <2>2. Entering(k, w)' BY <2>1, CalmKeeps
  <2> QED BY <1>1, <1>2, <2>1, <2>2
<1>5. pc[r] \in {"openentry", "copy"} => work'[r].linked /\ Copying(call[r].input, work[r])'
  <2> SUFFICES ASSUME pc[r] \in {"openentry", "copy"}
               PROVE  work'[r].linked /\ Copying(call[r].input, work[r])'
    OBVIOUS
  <2>1. work[r].linked /\ Copying(k, w) BY <1>1 DEF Underway
  <2>2. Copying(k, w)' BY <2>1, CalmKeeps
  <2> QED BY <1>1, <1>2, <2>1, <2>2
<1>6. pc[r] = "drop" => result'[r] = -1 BY DEF Underway
<1>7. Underway(r)' BY <1>3, <1>4, <1>5, <1>6 DEF Underway
<1>8. ASSUME NEW units, Archived(k, units) PROVE Archived(call[r].input, units)'
  <2>1. Archived(k, units)' BY <1>8, CalmKeeps
  <2> QED BY <1>2, <2>1
<1>9. \A units : Result(r, units)' = Result(r, units) BY DEF Result
<1>10. pc[r] = "pipe" =>
          \E units : Archived(call[r].input, units)' /\ file'[temp'[r]] = [Empty EXCEPT !.units = units]
  BY <1>8 DEF Finished
<1>11. pc[r] = "writing" =>
          \E units : Archived(call[r].input, units)' /\ work'[r].coded \in Result(r, units)'
  BY <1>8, <1>9 DEF Finished
<1>12. (pc[r] = "rmtemp" /\ result'[r] = 0) \/ Returned(r, 0) =>
          \E units : Archived(call[r].input, units)' /\ file'[call'[r].output] \in Result(r, units)'
  BY <1>8, <1>9 DEF Finished, Returned
<1>13. Finished(r)' BY <1>10, <1>11, <1>12 DEF Finished, Returned
<1> QED BY <1>7, <1>13

(* A user changes a file: it is one that may differ from now on.              *)
LEMMA EditKeepsRecorded ==
    ASSUME NEW r \in Run, WholeInv,
           NEW n \in plan.changing, NEW m \in Member, NEW body \in Body \cup {NoFile},
           Edit(n, m, body), plan' = plan
    PROVE  Recorded(r)'
<1>1. /\ UNCHANGED <<file, dirs, pc, call, temp, work, result, lost, faults>>
      /\ tree' = [tree EXCEPT ![n][m] = body] /\ edited' = edited \cup {<<n, m>>}
  BY DEF Edit, locals
<1> SUFFICES ASSUME Packing(r)', Sheltered(r)', r \notin lost' PROVE (Underway(r) /\ Finished(r))'
  BY DEF Recorded
<1>2. Packing(r) /\ Sheltered(r) /\ r \notin lost BY <1>1 DEF Packing, Sheltered, Alone
<1> SUFFICES ASSUME pc[r] \notin {"name", "killed"} PROVE (Underway(r) /\ Finished(r))'
  BY <1>1 DEF Underway, Finished, Returned
<1>3. Underway(r) /\ Finished(r) BY <1>2 DEF WholeInv, Recorded
<1>4. TypeInv /\ tree \in [Name -> [Member -> Seq(Nat) \cup {NoFile}]]
  BY DEF WholeInv, DoneInv, TypeInv, OnDisk
<1>5. PICK k \in Path : k = call[r].input BY <1>2, <1>4, PackFacts
<1>6. Calm(k)
  <2>1. k \in Name BY DEF Path
  <2>2. \A q \in Member : tree'[k][q] = tree[k][q] \/ <<k, q>> \in edited'
    BY <1>1, <1>4, <2>1
  <2> QED BY <1>1, <2>2 DEF Calm
<1> QED BY <1>1, <1>3, <1>5, <1>6, CalmStepKeeps

LEMMA NextKeepsRecorded ==
    ASSUME NEW r \in Run, WholeInv, [Next]_vars
    PROVE  Recorded(r)'
<1>1. CASE \E q \in Run : Step(q)
  <2>1. PICK q \in Run : Step(q) BY <1>1
  <2>2. CASE q = r BY <2>1, <2>2, OwnStepRecorded
  <2>3. CASE q # r
    <3>1. q \in Run \ {r} BY <2>3
    <3> QED BY <2>1, <3>1, OthersKeepRecorded
  <2> QED BY <2>2, <2>3
<1>2. CASE \E q \in Run : Kill(q) /\ UNCHANGED plan
  <2>1. PICK q \in Run : Kill(q) /\ plan' = plan BY <1>2
  <2>2. UNCHANGED <<file, dirs, tree, call, temp, work, result, lost, edited, plan>>
    BY <2>1 DEF Kill, fs, locals
  <2>3. faults' = 0 => faults = 0
    <3>1. faults \in Nat BY ArchiveAssumption DEF WholeInv, DoneInv, TypeInv, History
    <3> QED BY <2>1, <3>1 DEF Kill, Fault
  <2>4. pc'[r] = "killed" \/ pc'[r] = pc[r]
    <3>1. pc \in [Run -> Label] BY DEF WholeInv, DoneInv, TypeInv, Inv, Types
    <3> QED BY <2>1, <3>1 DEF Kill, Goto
  <2>5. SUFFICES ASSUME Packing(r)', Sheltered(r)', r \notin lost', pc'[r] # "killed"
                 PROVE (Underway(r) /\ Finished(r))'
    BY DEF Recorded, Underway, Finished, Returned
  <2>6. Underway(r) /\ Finished(r)
    BY <2>2, <2>5 DEF WholeInv, Recorded, Packing, Sheltered, Alone
  <2>7. PICK k : k = call[r].input OBVIOUS
  <2>8. Calm(k) BY <2>2, <2>3 DEF Calm
  <2> QED BY <2>2, <2>4, <2>5, <2>6, <2>7, <2>8, CalmStepKeeps
<1>3. CASE \E n \in plan.changing, m \in Member, body \in Body \cup {NoFile} :
              Edit(n, m, body) /\ UNCHANGED plan
  BY <1>3, EditKeepsRecorded
<1>4. CASE UNCHANGED vars
  <2>1. UNCHANGED <<file, dirs, tree, pc, call, temp, work, result, lost, edited, faults, plan>>
    BY <1>4 DEF vars, avars, fs, locals
  <2> SUFFICES ASSUME Packing(r)', Sheltered(r)', r \notin lost' PROVE (Underway(r) /\ Finished(r))'
    BY DEF Recorded
  <2>2. Underway(r) /\ Finished(r)
    BY <2>1 DEF WholeInv, Recorded, Packing, Sheltered, Alone
  <2>3. PICK k : k = call[r].input OBVIOUS
  <2>4. Calm(k) BY <2>1 DEF Calm
  <2> QED BY <2>1, <2>2, <2>3, <2>4, CalmStepKeeps
<1> QED BY <1>1, <1>2, <1>3, <1>4 DEF Next

LEMMA NextKeepsWhole ==
    ASSUME WholeInv, [Next]_vars
    PROVE  WholeInv'
BY NextKeepsDone, NextKeepsWaits, NextKeepsRecorded DEF WholeInv

LEMMA InitWhole ==
    ASSUME Init
    PROVE  WholeInv
<1>1. \A r \in Run : pc[r] = "idle" /\ call[r] = NoCall BY DEF Init
<1>2. NoCall.mode = "none" BY DEF NoCall
<1>3. \A r \in Run : Recorded(r) BY <1>1, <1>2 DEF Recorded, Packing
<1> QED BY <1>1, <1>3, InitDone DEF WholeInv, Waits

LEMMA WholeInvImplies ==
    ASSUME WholeInv, Seq(Nat) \subseteq ReadBody, \A r \in Run : Packing(r) => Sheltered(r)
    PROVE  PackedIsWhole
<1> SUFFICES ASSUME NEW r \in Run \ lost, Packing(r), Returned(r, 0)
             PROVE  LET n == call[r].input
                        changed == {m \in Member : <<n, m>> \in edited}
                        kept == Present(n) \ changed
                        unlisted == IF faults = 0 THEN {{}} ELSE SUBSET kept
                    IN \E missed \in unlisted, more \in SUBSET changed :
                          \E read \in [more -> ReadBody] :
                             LET files == [m \in (kept \ missed) \cup more |->
                                             IF m \in more THEN read[m] ELSE tree[n][m]]
                             IN \E units \in ArchivesOf(files) :
                                   file[call[r].output] \in
                                      ResultsOn(r, [Empty EXCEPT !.units = units])
  BY DEF PackedIsWhole
<1> DEFINE n == call[r].input
<1>1. Finished(r) BY DEF WholeInv, Recorded
<1>2. PICK units : Archived(n, units) /\ file[call[r].output] \in Result(r, units)
  BY <1>1 DEF Finished
<1>3. PICK missed \in UnlistedIn(n), more \in SUBSET Changed(n) :
        \E read \in [more -> ReadBody] : units \in ArchivesOf(FilesOf(n, missed, more, read))
  BY <1>2, ArchivedIsWhole
<1>4. PICK read \in [more -> ReadBody] : units \in ArchivesOf(FilesOf(n, missed, more, read))
  BY <1>3
<1>5. file[call[r].output] \in ResultsOn(r, [Empty EXCEPT !.units = units])
  BY <1>2 DEF Result, ResultsOn
<1> DEFINE kept == Present(n) \ {m \in Member : <<n, m>> \in edited}
           files == [m \in (kept \ missed) \cup more |-> IF m \in more THEN read[m] ELSE tree[n][m]]
<1>6. units \in ArchivesOf(files) BY <1>4, Zenon DEF FilesOf, KeptIn, Changed
<1>7. missed \in IF faults = 0 THEN {{}} ELSE SUBSET kept
  BY <1>3, Zenon DEF UnlistedIn, KeptIn, Changed
<1>8. more \in SUBSET {m \in Member : <<n, m>> \in edited} BY <1>3, Zenon DEF Changed
<1>9. \E u \in ArchivesOf(files) : file[call[r].output] \in ResultsOn(r, [Empty EXCEPT !.units = u])
  BY <1>5, <1>6, Zenon
<1>10. \E b \in SUBSET {m \in Member : <<n, m>> \in edited} :
         \E f \in [b -> ReadBody] :
            \E u \in ArchivesOf([m \in (kept \ missed) \cup b |-> IF m \in b THEN f[m] ELSE tree[n][m]]) :
               file[call[r].output] \in ResultsOn(r, [Empty EXCEPT !.units = u])
  BY <1>8, <1>9, Zenon
<1>11. \E a \in IF faults = 0 THEN {{}} ELSE SUBSET kept :
         \E b \in SUBSET {m \in Member : <<n, m>> \in edited} :
            \E f \in [b -> ReadBody] :
               \E u \in ArchivesOf([m \in (kept \ a) \cup b |-> IF m \in b THEN f[m] ELSE tree[n][m]]) :
                  file[call[r].output] \in ResultsOn(r, [Empty EXCEPT !.units = u])
  BY <1>7, <1>10, Zenon
<1> QED BY <1>11, Zenon

(* A pack that returns 0 made an archive of the whole directory, of any size  *)
(* and with any contents, whatever users change and wherever calls fail       *)
(* meanwhile, if no other run is at work while it is and none, before or      *)
(* after, has its output or its directory for an output, or could make up that*)
(* name (Spec implies PackedIsWhole; what users write is not bounded by       *)
(* ReadBody).                                                                 *)
THEOREM PackedWhole ==
    ASSUME Seq(Nat) \subseteq ReadBody
    PROVE  Spec => []((\A r \in Run : Packing(r) => Sheltered(r)) => PackedIsWhole)
<1>1. WholeInv => ((\A r \in Run : Packing(r) => Sheltered(r)) => PackedIsWhole)
  BY WholeInvImplies
<1> QED BY <1>1, InitWhole, NextKeepsWhole, PTL DEF Spec

(******************** an extracted archive is whole **************************)

(* What a write that stopped leaves in place of a unit.                       *)
Marks == {U("short", 0), U("torn", 0)}

(* What may be left of an archive.                                            *)
LeftOf(units, whole) ==
    /\ Len(units) <= Len(whole)
    /\ \A i \in 1 .. Len(units) : units[i] = whole[i] \/ units[i] \in Marks

LEMMA MarksAre ==
    ASSUME NEW x \in Marks
    PROVE  x.val = 0 /\ x.kind \in {"short", "torn"}
BY DEF Marks, U

(* After the same beginning the same may be left.                             *)
LEMMA LeftAfter ==
    ASSUME NEW x \in Seq(Unit), NEW y \in Seq(Unit), NEW z \in Seq(Unit), LeftOf(x \o y, x \o z)
    PROVE  LeftOf(y, z)
<1>1. Len(x) \in Nat /\ Len(y) \in Nat /\ Len(z) \in Nat BY LenProperties
<1>2. /\ Len(x \o y) = Len(x) + Len(y)
      /\ \A i \in 1 .. Len(x) + Len(y) : (x \o y)[i] = IF i <= Len(x) THEN x[i] ELSE y[i - Len(x)]
  BY ConcatProperties
<1>3. /\ Len(x \o z) = Len(x) + Len(z)
      /\ \A i \in 1 .. Len(x) + Len(z) : (x \o z)[i] = IF i <= Len(x) THEN x[i] ELSE z[i - Len(x)]
  BY ConcatProperties
<1>4. /\ Len(x \o y) <= Len(x \o z)
      /\ \A i \in 1 .. Len(x \o y) : (x \o y)[i] = (x \o z)[i] \/ (x \o y)[i] \in Marks
  BY DEF LeftOf
<1>5. Len(y) <= Len(z) BY <1>1, <1>2, <1>3, <1>4
<1>6. ASSUME NEW i \in 1 .. Len(y) PROVE y[i] = z[i] \/ y[i] \in Marks
  <2> DEFINE j == Len(x) + i
  <2>1. j \in 1 .. Len(x) + Len(y) /\ j \in 1 .. Len(x) + Len(z) /\ ~(j <= Len(x)) /\ j - Len(x) = i
    BY <1>1, <1>5
  <2> HIDE DEF j
  <2>2. (x \o y)[j] = y[i] BY <1>2, <2>1
  <2>3. (x \o z)[j] = z[i] BY <1>3, <2>1
  <2>4. j \in 1 .. Len(x \o y) BY <1>2, <2>1
  <2> QED BY <1>4, <2>2, <2>3, <2>4
<1> QED BY <1>5, <1>6 DEF LeftOf

LEMMA JoinIsSeq ==
    ASSUME NEW x \in Seq(Unit), NEW y \in Seq(Unit)
    PROVE  x \o y \in Seq(Unit)
BY ConcatProperties

JoinsTwo(x, h, b, z) == (x \o (h \o b)) \o z = x \o (h \o (b \o z))

LEMMA JoinedTwice ==
    ASSUME NEW x \in Seq(Unit), NEW h \in Seq(Unit), NEW b \in Seq(Unit), NEW z \in Seq(Unit)
    PROVE  JoinsTwo(x, h, b, z)
<1>1. PICK e \in Seq(Unit) : e = h \o b BY JoinIsSeq
<1>2. InEitherOrder(x, e, z) BY EitherOrder
<1>3. InEitherOrder(h, b, z) BY EitherOrder
<1> QED BY <1>1, <1>2, <1>3, Zenon DEF InEitherOrder, JoinsTwo

LEMMA LeftAfterTwo ==
    ASSUME NEW x \in Seq(Unit), NEW h \in Seq(Unit), NEW b \in Seq(Unit), NEW z \in Seq(Unit),
           NEW y \in Seq(Unit), LeftOf(x \o (h \o y), (x \o (h \o b)) \o z)
    PROVE  LeftOf(y, b \o z)
<1>1. PICK q \in Seq(Unit) : q = b \o z BY JoinIsSeq
<1>2. PICK t \in Seq(Unit) : t = h \o q BY JoinIsSeq
<1>3. PICK v \in Seq(Unit) : v = h \o y BY JoinIsSeq
<1>4. JoinsTwo(x, h, b, z) BY JoinedTwice
<1>5. LeftOf(x \o v, x \o t) BY <1>1, <1>2, <1>3, <1>4, Zenon DEF JoinsTwo
<1>6. LeftOf(v, t) BY <1>5, LeftAfter
<1>7. LeftOf(h \o y, h \o q) BY <1>2, <1>3, <1>6, Zenon
<1>8. LeftOf(y, q) BY <1>7, LeftAfter
<1> QED BY <1>1, <1>8

(* What is left begins as the archive does, up to a mark.                     *)
LEMMA LeftOfFirst ==
    ASSUME NEW y \in Seq(Unit), NEW e \in Seq(Unit), NEW z \in Seq(Unit), LeftOf(y, e \o z),
           NEW i \in 1 .. Len(e), i <= Len(y), y[i] \notin Marks
    PROVE  y[i] = e[i]
<1>1. Len(y) \in Nat /\ Len(e) \in Nat /\ Len(z) \in Nat BY LenProperties
<1>2. \A j \in 1 .. Len(e) + Len(z) : (e \o z)[j] = IF j <= Len(e) THEN e[j] ELSE z[j - Len(e)]
  BY ConcatProperties
<1>3. i \in 1 .. Len(e) + Len(z) /\ i <= Len(e) /\ i \in 1 .. Len(y) BY <1>1
<1>4. (e \o z)[i] = e[i] BY <1>2, <1>3
<1> QED BY <1>3, <1>4 DEF LeftOf

(* A sequence is what it begins with, and the rest.                           *)
LEMMA BeginsWith ==
    ASSUME NEW y \in Seq(Unit), NEW e \in Seq(Unit), NEW n \in Nat, Len(e) = n, n <= Len(y),
           SameUpTo(n, e, y)
    PROVE  /\ SubSeq(y, n + 1, Len(y)) \in Seq(Unit)
           /\ y = e \o SubSeq(y, n + 1, Len(y))
<1> DEFINE rest == SubSeq(y, n + 1, Len(y))
<1>1. Len(y) \in Nat BY LenProperties
<1>2. \A i \in 1 .. Len(y) : y[i] \in Unit BY ElementOfSeq
<1>3. /\ rest \in Seq(Unit) /\ Len(rest) = Len(y) - n
      /\ \A i \in 1 .. Len(rest) : rest[i] = y[n + i]
  <2>1. n + 1 \in Int /\ Len(y) \in Int BY <1>1
  <2>2. \A i \in n + 1 .. Len(y) : y[i] \in Unit BY <1>1, <1>2
  <2>3. /\ rest \in Seq(Unit)
        /\ Len(rest) = IF n + 1 <= Len(y) THEN Len(y) - (n + 1) + 1 ELSE 0
        /\ \A i \in 1 .. Len(y) - (n + 1) + 1 : rest[i] = y[(n + 1) + i - 1]
    BY <2>1, <2>2, SubSeqProperties
  <2>4. Len(rest) = Len(y) - n BY <1>1, <2>3
  <2>5. ASSUME NEW i \in 1 .. Len(rest) PROVE rest[i] = y[n + i]
    <3>1. i \in 1 .. Len(y) - (n + 1) + 1 /\ (n + 1) + i - 1 = n + i BY <1>1, <2>4
    <3> HIDE DEF rest
    <3> QED BY <2>3, <3>1
  <2> QED BY <2>3, <2>4, <2>5
<1> HIDE DEF rest
<1>4. /\ e \o rest \in Seq(Unit) /\ Len(e \o rest) = Len(y)
      /\ \A i \in 1 .. Len(y) : (e \o rest)[i] = IF i <= n THEN e[i] ELSE rest[i - n]
  <2>1. /\ e \o rest \in Seq(Unit) /\ Len(e \o rest) = Len(e) + Len(rest)
        /\ \A i \in 1 .. Len(e) + Len(rest) : (e \o rest)[i] = IF i <= Len(e) THEN e[i] ELSE rest[i - Len(e)]
    BY <1>3, ConcatProperties
  <2>2. Len(e) + Len(rest) = Len(y) BY <1>1, <1>3
  <2> QED BY <2>1, <2>2
<1>5. ASSUME NEW i \in 1 .. Len(y) PROVE (e \o rest)[i] = y[i]
  <2>1. CASE i <= n
    <3>1. i \in 1 .. n BY <2>1
    <3>2. e[i] = y[i] BY <3>1 DEF SameUpTo
    <3> QED BY <1>4, <2>1, <3>2
  <2>2. CASE ~(i <= n)
    <3>1. i - n \in 1 .. Len(rest) /\ n + (i - n) = i BY <1>1, <1>3, <2>2
    <3>2. rest[i - n] = y[i] BY <1>3, <3>1
    <3> QED BY <1>4, <2>2, <3>2
  <2> QED BY <2>1, <2>2
<1>6. y = e \o rest BY <1>4, <1>5, SeqEqual
<1> QED BY <1>3, <1>6 DEF rest

(* The files a list names, each once, and what they hold.                     *)
Listed(list, got) ==
    /\ list \in Seq(Member) /\ got \in [Member -> Seq(Nat)]
    /\ \A i, j \in 1 .. Len(list) : i # j => list[i] # list[j]

LEMMA NextUnits ==
    ASSUME NEW list, NEW got, Listed(list, got), NEW k \in Nat, k < Len(list)
    PROVE  UnitsOf(list, got, k + 1) = UnitsOf(list, got, k) \o EntryOf(list[k + 1], got[list[k + 1]])
<1>1. Len(list) \in Nat /\ list \in Seq(Member) /\ got \in [Member -> Seq(Nat)]
  BY LenProperties DEF Listed
<1>2. k + 1 \in 1 .. Len(list) /\ \A i \in 1 .. k : i \in 1 .. Len(list) /\ i # k + 1 BY <1>1
<1>3. list[k + 1] \in Member BY <1>1, <1>2, ElementOfSeq
<1>4. PICK m \in Member : m = list[k + 1] BY <1>3
<1>5. PICK body \in Seq(Nat) : body = got[m] BY <1>1
<1>6. [got EXCEPT ![list[k + 1]] = body] = got BY <1>1, <1>4, <1>5
<1>7. \A i \in 1 .. k : list[i] # list[k + 1] BY <1>2 DEF Listed
<1>8. UnitsOf(list, [got EXCEPT ![list[k + 1]] = body], k + 1)
        = UnitsOf(list, got, k) \o EntryOf(list[k + 1], body)
  BY <1>1, <1>7, UnitsMore, Zenon
<1> QED BY <1>4, <1>5, <1>6, <1>8

(* The archive goes on after each of its entries.                             *)
LEMMA UnitsGoOn ==
    ASSUME NEW list, NEW got, Listed(list, got), NEW k \in 0 .. Len(list)
    PROVE  \E z \in Seq(Unit) : UnitsOf(list, got, Len(list)) = UnitsOf(list, got, k) \o z
<1>0. Len(list) \in Nat /\ list \in Seq(Member) /\ got \in [Member -> Seq(Nat)]
  BY LenProperties DEF Listed
<1> DEFINE x == UnitsOf(list, got, k)
           Good(n) == \E z \in Seq(Unit) : UnitsOf(list, got, n) = x \o z
           T == {n \in k .. Len(list) : ~Good(n)}
<1>1. x \in Seq(Unit) BY <1>0, UnitsType
<1>2. SUFFICES ASSUME T # {} PROVE FALSE
  <2>1. Len(list) \in k .. Len(list) BY <1>0
  <2> QED BY <2>1
<1>3. PICK n \in T : \A j \in T : n <= j
  <2>1. T \subseteq Nat BY <1>0
  <2> HIDE DEF T
  <2> QED BY <1>2, <2>1, Least
<1>4. n \in k .. Len(list) /\ ~Good(n) OBVIOUS
<1>5. n # k
  <2>1. x \o <<>> = x /\ <<>> \in Seq(Unit)
    <3> HIDE DEF x
    <3> QED BY <1>1, ConcatEmptySeq, EmptySeq
  <2> QED BY <1>4, <2>1
<1>6. PICK j \in k .. Len(list) : n = j + 1 /\ ~(n <= j) /\ j \in Nat /\ j < Len(list) /\ k \in Nat
  <2>1. n - 1 \in k .. Len(list) /\ n = (n - 1) + 1 /\ ~(n <= n - 1) /\ n - 1 \in Nat
        /\ n - 1 < Len(list) /\ k \in Nat
    BY <1>0, <1>4, <1>5
  <2> QED BY <2>1
<1>7. Good(j)
  <2> HIDE DEF Good
  <2> QED BY <1>3, <1>6
<1>8. PICK z \in Seq(Unit) : UnitsOf(list, got, j) = x \o z BY <1>7
<1> DEFINE e == EntryOf(list[j + 1], got[list[j + 1]])
<1>9. e \in Seq(Unit)
  <2>1. j + 1 \in 1 .. Len(list) BY <1>0, <1>6
  <2>2. list[j + 1] \in Member BY <1>0, <2>1, ElementOfSeq
  <2>3. got[list[j + 1]] \in Seq(Nat) BY <1>0, <2>2
  <2> QED BY <2>2, <2>3, EntryType
<1>10. UnitsOf(list, got, j + 1) = (x \o z) \o e BY <1>6, <1>8, NextUnits
<1> HIDE DEF x, e
<1>11. (x \o z) \o e = x \o (z \o e) BY <1>1, <1>8, <1>9, JoinedThrice
<1>12. z \o e \in Seq(Unit) BY <1>8, <1>9, ConcatProperties
<1>13. Good(n) BY <1>6, <1>10, <1>11, <1>12
<1> QED BY <1>4, <1>13

(* Nothing else that begins as an archive does is given to the program.       *)
Archival(units) ==
    (Len(units) >= 2 /\ units[1].kind = "magic" /\ units[2].kind = "count") =>
       \E list, got : Listed(list, got) /\ LeftOf(units, UnitsOf(list, got, Len(list)))

(* The first k files of an archive are in the directory n; units are what is  *)
(* left of the archive.                                                       *)
Reached(n, units, list, got, k) ==
    /\ Listed(list, got) /\ LeftOf(units, UnitsOf(list, got, Len(list))) /\ k \in 0 .. Len(list)
    /\ <<n, 0>> \in dirs /\ \A i \in 1 .. k : tree[n][list[i]] = got[list[i]]

(* Before the directory is made, between two entries, within an entry, and    *)
(* after the last.                                                            *)
Starting(units, w) ==
    /\ w.making = <<0>>
    /\ \E list, got :
          /\ Listed(list, got) /\ LeftOf(units, UnitsOf(list, got, Len(list)))
          /\ w.left = Len(list) /\ units = UnitsOf(list, got, 0) \o w.units

Between(n, units, w) ==
    \E list, got, k :
       /\ Reached(n, units, list, got, k) /\ w.left = Len(list) - k
       /\ units = UnitsOf(list, got, k) \o w.units

Within(n, units, w) ==
    \E list, got, k :
       /\ Reached(n, units, list, got, k) /\ k < Len(list) /\ w.left = Len(list) - k
       /\ w.member = list[k + 1] /\ w.size = Len(got[list[k + 1]])
       /\ units = UnitsOf(list, got, k) \o (<<U("path", w.member), U("size", w.size)>> \o w.units)

Extracted(n, units) ==
    \E list, got : Reached(n, units, list, got, Len(list)) /\ units = UnitsOf(list, got, Len(list))

LEMMA ListedFacts ==
    ASSUME NEW list, NEW got, Listed(list, got), NEW k \in 0 .. Len(list)
    PROVE  /\ list \in Seq(Member) /\ Len(list) \in Nat /\ got \in [Member -> Seq(Nat)]
           /\ k \in Nat /\ UnitsOf(list, got, k) \in Seq(Unit)
           /\ k < Len(list) => /\ k + 1 \in 1 .. Len(list) /\ list[k + 1] \in Member
                               /\ got[list[k + 1]] \in Seq(Nat)
                               /\ \A i \in 1 .. k : list[i] \in Member /\ list[i] # list[k + 1]
<1>1. list \in Seq(Member) /\ Len(list) \in Nat /\ got \in [Member -> Seq(Nat)] /\ k \in Nat
  BY LenProperties DEF Listed
<1>2. UnitsOf(list, got, k) \in Seq(Unit) BY <1>1, UnitsType
<1>3. ASSUME k < Len(list)
      PROVE  /\ k + 1 \in 1 .. Len(list) /\ list[k + 1] \in Member /\ got[list[k + 1]] \in Seq(Nat)
             /\ \A i \in 1 .. k : list[i] \in Member /\ list[i] # list[k + 1]
  <2>1. k + 1 \in 1 .. Len(list) BY <1>1, <1>3
  <2>2. list[k + 1] \in Member BY <1>1, <2>1, ElementOfSeq
  <2>3. ASSUME NEW i \in 1 .. k PROVE list[i] \in Member /\ list[i] # list[k + 1]
    <3>1. i \in 1 .. Len(list) /\ i # k + 1 BY <1>1, <1>3
    <3>2. list[i] \in Member BY <1>1, <3>1, ElementOfSeq
    <3> QED BY <2>1, <3>1, <3>2 DEF Listed
  <2> QED BY <1>1, <2>1, <2>2, <2>3
<1> QED BY <1>1, <1>2, <1>3

(* ReadHeader: what begins as an archive does has its header.                 *)
LEMMA HeaderRead ==
    ASSUME NEW units \in Seq(Unit), Archival(units), Len(units) >= 2,
           units[1].kind = "magic", units[2].kind = "count",
           NEW v, v.making = << 0 >>, v.left = units[2].val,
           v.units = SubSeq(units, 3, Len(units))
    PROVE  Starting(units, v)
<1>1. PICK list, got : Listed(list, got) /\ LeftOf(units, UnitsOf(list, got, Len(list)))
  BY DEF Archival
<1> DEFINE h == Header(Len(list))
<1>2. list \in Seq(Member) /\ Len(list) \in Nat /\ 0 \in 0 .. Len(list)
  <2>1. list \in Seq(Member) BY <1>1 DEF Listed
  <2>2. Len(list) \in Nat BY <2>1, LenProperties
  <2> QED BY <2>1, <2>2
<1>3. UnitsOf(list, got, 0) = h BY <1>2, NoUnitsYet
<1>4. /\ h \in Seq(Unit) /\ Len(h) = 2 /\ h[1] = U("magic", 0) /\ h[2] = U("count", Len(list))
  <2>1. h \in Seq(Unit) BY <1>2, HeaderIsFine DEF Fine
  <2>2. Len(h) = 2 /\ h[1] = U("magic", 0) /\ h[2] = U("count", Len(list)) BY DEF Header
  <2> QED BY <2>1, <2>2
<1>5. PICK z \in Seq(Unit) : UnitsOf(list, got, Len(list)) = h \o z
  <2>1. \E z \in Seq(Unit) : UnitsOf(list, got, Len(list)) = UnitsOf(list, got, 0) \o z
    BY <1>1, <1>2, UnitsGoOn
  <2> QED BY <1>3, <2>1
<1> HIDE DEF h
<1>6. units[1] \notin Marks /\ units[2] \notin Marks BY MarksAre
<1>7. 1 \in 1 .. Len(h) /\ 2 \in 1 .. Len(h) /\ 1 <= Len(units) /\ 2 <= Len(units)
  <2>1. Len(units) \in Nat BY LenProperties
  <2> QED BY <1>4, <2>1
<1>8. units[1] = h[1] /\ units[2] = h[2]
  BY <1>1, <1>4, <1>5, <1>6, <1>7, LeftOfFirst
<1>9. SameUpTo(2, h, units)
  <2>1. \A i \in 1 .. 2 : i = 1 \/ i = 2 OBVIOUS
  <2> QED BY <1>8, <2>1 DEF SameUpTo
<1>10. units = h \o SubSeq(units, 2 + 1, Len(units))
  BY <1>4, <1>9, BeginsWith
<1>11. units = h \o v.units
  <2>1. 2 + 1 = 3 OBVIOUS
  <2> QED BY <1>10, <2>1, Zenon
<1>12. v.left = Len(list)
  <2>1. U("count", Len(list)).val = Len(list) BY DEF U
  <2> QED BY <1>4, <1>8, <2>1
<1> QED BY <1>1, <1>3, <1>11, <1>12 DEF Starting

(* The directory is there.                                                    *)
LEMMA DirectoryMade ==
    ASSUME NEW n, <<n, 0>> \in dirs, NEW units, NEW w, Starting(units, w),
           NEW v, v.left = w.left, v.units = w.units
    PROVE  Between(n, units, v)
<1>1. PICK list, got :
        /\ Listed(list, got) /\ LeftOf(units, UnitsOf(list, got, Len(list)))
        /\ w.left = Len(list) /\ units = UnitsOf(list, got, 0) \o w.units
  BY DEF Starting
<1>2. Len(list) \in Nat BY <1>1, LenProperties DEF Listed
<1>3. Reached(n, units, list, got, 0) BY <1>1, <1>2 DEF Reached
<1>4. v.left = Len(list) - 0 BY <1>1, <1>2
<1> QED BY <1>1, <1>3, <1>4 DEF Between

(* NextEntry: the path and the size.                                          *)
LEMMA EntryReached ==
    ASSUME NEW n, NEW units, NEW w, Between(n, units, w), w.left # 0,
           NEW rest \in Seq(Unit), rest = w.units, Len(rest) >= 2, rest[2].kind = "size",
           rest[1].val \in Member,
           NEW v, v.left = w.left, v.member = rest[1].val, v.size = rest[2].val,
           v.units = SubSeq(rest, 3, Len(rest))
    PROVE  Within(n, units, v)
<1>1. PICK list, got, k :
        /\ Reached(n, units, list, got, k) /\ w.left = Len(list) - k
        /\ units = UnitsOf(list, got, k) \o rest
  BY DEF Between
<1>2. Listed(list, got) /\ LeftOf(units, UnitsOf(list, got, Len(list))) /\ k \in 0 .. Len(list)
  BY <1>1 DEF Reached
<1>3. k < Len(list) /\ k + 1 \in 0 .. Len(list)
  <2>1. Len(list) \in Nat /\ k \in Nat BY <1>2, ListedFacts
  <2> QED BY <1>1, <1>2, <2>1
<1> DEFINE m == list[k + 1]
           body == got[m]
           x == UnitsOf(list, got, k)
           h == <<U("path", m), U("size", Len(body))>>
           b == Bytes(body)
<1>4. /\ x \in Seq(Unit) /\ m \in Member /\ body \in Seq(Nat) /\ k \in Nat
  BY <1>2, <1>3, ListedFacts
<1>5. /\ h \in Seq(Unit) /\ b \in Seq(Unit) /\ Len(h) = 2
      /\ h[1] = U("path", m) /\ h[2] = U("size", Len(body))
  BY <1>4, EntryType
<1>6. PICK z \in Seq(Unit) : UnitsOf(list, got, Len(list)) = UnitsOf(list, got, k + 1) \o z
  BY <1>2, <1>3, UnitsGoOn
<1>7. UnitsOf(list, got, k + 1) = x \o (h \o b)
  <2>1. k \in Nat /\ k < Len(list) BY <1>3, <1>4
  <2>2. UnitsOf(list, got, k + 1) = UnitsOf(list, got, k) \o EntryOf(list[k + 1], got[list[k + 1]])
    <3>1. Listed(list, got) BY <1>2
    <3> QED BY <2>1, <3>1, NextUnits
  <2> QED BY <2>2, Zenon DEF EntryOf
<1> HIDE DEF m, body, x, h, b
<1>8. LeftOf(rest, h \o (b \o z))
  <2>1. h \o b \in Seq(Unit) /\ b \o z \in Seq(Unit) /\ h \o (b \o z) \in Seq(Unit)
    BY <1>5, <1>6, ConcatProperties
  <2>2. (x \o (h \o b)) \o z = x \o (h \o (b \o z))
    <3>1. JoinsTwo(x, h, b, z) BY <1>4, <1>5, <1>6, JoinedTwice
    <3> QED BY <3>1, Zenon DEF JoinsTwo
  <2>3. LeftOf(x \o rest, x \o (h \o (b \o z)))
    BY <1>1, <1>2, <1>6, <1>7, <2>2 DEF x
  <2> QED BY <1>4, <2>1, <2>3, LeftAfter
<1>9. rest[1] \notin Marks /\ rest[2] \notin Marks
  <2>1. 0 \notin Member BY ArchiveAssumption DEF NoMember
  <2> QED BY <2>1, MarksAre
<1>10. rest[1] = h[1] /\ rest[2] = h[2]
  <2>1. 1 \in 1 .. Len(h) /\ 2 \in 1 .. Len(h) /\ 1 <= Len(rest) /\ 2 <= Len(rest)
    <3>1. Len(rest) \in Nat BY LenProperties
    <3> QED BY <1>5, <3>1
  <2>2. PICK t \in Seq(Unit) : t = b \o z BY <1>5, <1>6, JoinIsSeq
  <2>3. LeftOf(rest, h \o t) /\ h \in Seq(Unit) BY <1>5, <1>8, <2>2
  <2>4. \A i \in 1 .. Len(h) : i <= Len(rest) /\ rest[i] \notin Marks => rest[i] = h[i]
    BY <2>3, LeftOfFirst
  <2> QED BY <1>9, <2>1, <2>4
<1>11. rest = h \o v.units
  <2>1. SameUpTo(2, h, rest)
    <3>1. \A i \in 1 .. 2 : i = 1 \/ i = 2 OBVIOUS
    <3> QED BY <1>10, <3>1 DEF SameUpTo
  <2>2. rest = h \o SubSeq(rest, 2 + 1, Len(rest))
    <3>1. 2 <= Len(rest) /\ 2 \in Nat
      <4>1. Len(rest) \in Nat BY LenProperties
      <4> QED BY <4>1
    <3> QED BY <1>5, <2>1, <3>1, BeginsWith
  <2>3. 2 + 1 = 3 OBVIOUS
  <2> QED BY <2>2, <2>3, Zenon
<1>12. v.member = m /\ v.size = Len(body)
  <2>1. U("path", m).val = m /\ U("size", Len(body)).val = Len(body) BY DEF U
  <2> QED BY <1>5, <1>10, <2>1
<1>13. units = x \o (<<U("path", v.member), U("size", v.size)>> \o v.units)
  BY <1>1, <1>11, <1>12 DEF x, h
<1>14. Reached(n, units, list, got, k) /\ v.left = Len(list) - k BY <1>1
<1> QED BY <1>3, <1>12, <1>13, <1>14 DEF Within, m, body, x

(* Steps that add to the directory, and change no member that is done.        *)
LEMMA ReachedStays ==
    ASSUME NEW n, NEW units, NEW list, NEW got, NEW k, Reached(n, units, list, got, k),
           <<n, 0>> \in dirs => <<n, 0>> \in dirs',
           \A i \in 1 .. k : tree'[n][list[i]] = tree[n][list[i]]
    PROVE  Reached(n, units, list, got, k)'
BY DEF Reached

LEMMA QuietKeeps ==
    ASSUME NEW n, <<n, 0>> \in dirs => <<n, 0>> \in dirs',
           \A m \in Member : tree'[n][m] = tree[n][m]
    PROVE  \A units : /\ \A w : Starting(units, w) => Starting(units, w)'
                      /\ \A w : Between(n, units, w) => Between(n, units, w)'
                      /\ \A w : Within(n, units, w) => Within(n, units, w)'
                      /\ Extracted(n, units) => Extracted(n, units)'
<1>1. ASSUME NEW units, NEW list, NEW got, NEW k, Reached(n, units, list, got, k)
      PROVE  Reached(n, units, list, got, k)'
  <2>1. \A i \in 1 .. k : list[i] \in Member
    <3>1. list \in Seq(Member) /\ Len(list) \in Nat /\ k \in 0 .. Len(list)
      BY <1>1, LenProperties DEF Reached, Listed
    <3>2. \A i \in 1 .. k : i \in 1 .. Len(list) BY <3>1
    <3> QED BY <3>1, <3>2, ElementOfSeq
  <2> QED BY <1>1, <2>1, ReachedStays
<1>2. ASSUME NEW units, NEW w, Starting(units, w) PROVE Starting(units, w)'
  BY <1>2 DEF Starting
<1>3. ASSUME NEW units, NEW w, Between(n, units, w) PROVE Between(n, units, w)'
  BY <1>1, <1>3 DEF Between
<1>4. ASSUME NEW units, NEW w, Within(n, units, w) PROVE Within(n, units, w)'
  BY <1>1, <1>4 DEF Within
<1>5. ASSUME NEW units, Extracted(n, units) PROVE Extracted(n, units)'
  BY <1>1, <1>5 DEF Extracted
<1> QED BY <1>2, <1>3, <1>4, <1>5

(* CreateMember: the file is opened, and those before it stay as they are.    *)
LEMMA MemberCreated ==
    ASSUME NEW n, NEW units, NEW w, Within(n, units, w), <<n, 0>> \in dirs => <<n, 0>> \in dirs',
           \A m \in Member \ {w.member} : tree'[n][m] = tree[n][m]
    PROVE  Within(n, units, w)'
<1>1. PICK list, got, k :
        /\ Reached(n, units, list, got, k) /\ k < Len(list) /\ w.left = Len(list) - k
        /\ w.member = list[k + 1] /\ w.size = Len(got[list[k + 1]])
        /\ units = UnitsOf(list, got, k) \o (<<U("path", w.member), U("size", w.size)>> \o w.units)
  BY DEF Within
<1>2. \A i \in 1 .. k : list[i] \in Member /\ list[i] # list[k + 1]
  BY <1>1, ListedFacts DEF Reached
<1>3. Reached(n, units, list, got, k)' BY <1>1, <1>2, ReachedStays
<1> QED BY <1>1, <1>3 DEF Within

(* The bytes that an entry begins with.                                       *)
Carries(rest, body) ==
    /\ Len(body) <= Len(rest)
    /\ \A i \in 1 .. Len(body) : rest[i].kind = "byte" /\ body[i] = rest[i].val

(* FillMember: all the bytes of the entry were there.                         *)
LEMMA EntryFilled ==
    ASSUME NEW n, NEW units, NEW w, Within(n, units, w), <<n, 0>> \in dirs => <<n, 0>> \in dirs',
           NEW rest \in Seq(Unit), rest = w.units, NEW size \in Nat, size = w.size,
           NEW body \in Seq(Nat), Len(body) = size, Carries(rest, body),
           tree'[n][w.member] = body, \A m \in Member \ {w.member} : tree'[n][m] = tree[n][m],
           NEW v, v.left = w.left - 1, v.units = SubSeq(rest, size + 1, Len(rest))
    PROVE  Between(n, units, v)'
<1>0. size <= Len(rest) /\ \A i \in 1 .. size : rest[i].kind = "byte" /\ body[i] = rest[i].val
  BY DEF Carries
<1>1. PICK list, got, k :
        /\ Reached(n, units, list, got, k) /\ k < Len(list) /\ w.left = Len(list) - k
        /\ w.member = list[k + 1] /\ w.size = Len(got[list[k + 1]])
        /\ units = UnitsOf(list, got, k) \o (<<U("path", w.member), U("size", w.size)>> \o rest)
  BY DEF Within
<1>2. Listed(list, got) /\ LeftOf(units, UnitsOf(list, got, Len(list))) /\ k \in 0 .. Len(list)
  BY <1>1 DEF Reached
<1>3. /\ Len(list) \in Nat /\ k \in Nat /\ k < Len(list) /\ k + 1 \in 0 .. Len(list)
  <2>1. Len(list) \in Nat /\ k \in Nat BY <1>2, ListedFacts
  <2> QED BY <1>1, <2>1
<1> DEFINE m == list[k + 1]
           was == got[m]
           x == UnitsOf(list, got, k)
           h == <<U("path", m), U("size", Len(was))>>
           b == Bytes(was)
           e == h \o b
<1>4. /\ x \in Seq(Unit) /\ m \in Member /\ was \in Seq(Nat)
      /\ \A i \in 1 .. k : list[i] \in Member /\ list[i] # m
  BY <1>2, <1>3, ListedFacts
<1>5. h \in Seq(Unit) /\ b \in Seq(Unit) /\ Len(b) = Len(was) BY <1>4, EntryType
<1>6. PICK z \in Seq(Unit) : UnitsOf(list, got, Len(list)) = UnitsOf(list, got, k + 1) \o z
  BY <1>2, <1>3, UnitsGoOn
<1>7. UnitsOf(list, got, k + 1) = x \o e
  <2>1. UnitsOf(list, got, k + 1) = UnitsOf(list, got, k) \o EntryOf(list[k + 1], got[list[k + 1]])
    BY <1>2, <1>3, NextUnits
  <2> QED BY <2>1, Zenon DEF EntryOf
<1>8. e \in Seq(Unit) BY <1>5, ConcatProperties
<1>9. \A i \in 1 .. Len(was) : b[i] = U("byte", was[i]) BY DEF Bytes
<1>10. units = x \o (h \o rest) /\ size = Len(was) /\ w.member = m BY <1>1
<1>11. LeftOf(units, (x \o e) \o z) BY <1>2, <1>6, <1>7
<1>12. e = h \o b OBVIOUS
<1> HIDE DEF m, was, x, h, b, e
<1>13. LeftOf(rest, b \o z)
  <2>1. LeftOf(x \o (h \o rest), (x \o (h \o b)) \o z) BY <1>10, <1>11, <1>12, Zenon
  <2> QED BY <1>4, <1>5, <2>1, LeftAfterTwo
<1>14. ASSUME NEW i \in 1 .. size PROVE rest[i] = b[i]
  <2>1. rest[i].kind = "byte" BY <1>0
  <2>2. rest[i] \notin Marks BY <2>1, MarksAre
  <2>3. i \in 1 .. Len(b) /\ i <= Len(rest)
    <3>1. Len(rest) \in Nat BY LenProperties
    <3> QED BY <1>0, <1>5, <1>10, <3>1
  <2>4. PICK j \in 1 .. Len(b) : j = i BY <2>3
  <2>5. j <= Len(rest) /\ rest[j] \notin Marks BY <2>2, <2>3, <2>4
  <2>6. b \in Seq(Unit) /\ z \in Seq(Unit) BY <1>5
  <2>7. rest[j] = b[j] BY <1>13, <2>5, <2>6, LeftOfFirst
  <2> QED BY <2>4, <2>7
<1>15. body = was
  <2>1. ASSUME NEW i \in 1 .. Len(body) PROVE body[i] = was[i]
    <3>1. i \in 1 .. size /\ i \in 1 .. Len(was) BY <1>10
    <3>2. rest[i] = U("byte", was[i]) BY <1>9, <1>14, <3>1
    <3>3. body[i] = rest[i].val BY <1>0, <3>1
    <3> QED BY <3>2, <3>3 DEF U
  <2> QED BY <1>4, <1>10, <2>1, SeqEqual
<1>16. rest = b \o v.units /\ v.units \in Seq(Unit)
  <2>1. SameUpTo(size, b, rest) BY <1>14 DEF SameUpTo
  <2>2. Len(b) = size /\ b \in Seq(Unit) BY <1>5, <1>10
  <2>3. /\ SubSeq(rest, size + 1, Len(rest)) \in Seq(Unit)
        /\ rest = b \o SubSeq(rest, size + 1, Len(rest))
    BY <1>0, <2>1, <2>2, BeginsWith, Zenon
  <2> QED BY <2>3, Zenon
<1>17. units = (x \o e) \o v.units
  <2>1. PICK y \in Seq(Unit) : y = v.units BY <1>16
  <2>2. units = x \o (h \o (b \o y)) BY <1>10, <1>16, <2>1, Zenon
  <2>3. JoinsTwo(x, h, b, y) BY <1>4, <1>5, JoinedTwice
  <2> QED BY <1>12, <2>1, <2>2, <2>3, Zenon DEF JoinsTwo
<1>18. units = UnitsOf(list, got, k + 1) \o v.units BY <1>7, <1>17
<1>19. Reached(n, units, list, got, k + 1)'
  <2>1. ASSUME NEW i \in 1 .. k + 1 PROVE tree'[n][list[i]] = got[list[i]]
    <3>1. CASE i = k + 1 BY <1>10, <1>15, <3>1 DEF m, was
    <3>2. CASE i # k + 1
      <4>1. i \in 1 .. k BY <1>3, <3>2
      <4>2. tree[n][list[i]] = got[list[i]] BY <1>1, <4>1 DEF Reached
      <4>3. list[i] \in Member \ {w.member} BY <1>4, <1>10, <4>1
      <4> QED BY <4>2, <4>3
    <3> QED BY <3>1, <3>2
  <2>2. <<n, 0>> \in dirs' BY <1>1 DEF Reached
  <2> QED BY <1>2, <1>3, <2>1, <2>2 DEF Reached
<1>20. v.left = Len(list) - (k + 1) BY <1>1, <1>3
<1> QED BY <1>18, <1>19, <1>20 DEF Between

(* The stages code an archive, or make something of a file that is none.      *)
LEMMA StageKeepsUnits ==
    ASSUME NEW c, FineFile(c), NEW alg \in Nat, NEW stage, NEW x \in StageResults(stage, alg, c)
    PROVE  FineFile(x) /\ x.units \in {c.units, Garbage.units}
<1>1. FineFile(x) BY StageIsFine
<1>2. c \in Content BY DEF FineFile
<1>3. \A l : Pushed(c, l).units = c.units /\ Popped(c).units = c.units
  BY <1>2 DEF Pushed, Popped, Content
<1>4. \/ x = c \/ x = Garbage \/ x = Popped(c) \/ x = XorUnit(c, 0) \/ \E l : x = Pushed(c, l)
  BY DEF StageResults, Decompressed
<1>5. XorUnit(c, 0) = Popped(c) \/ \E l : XorUnit(c, 0) = Pushed(c, l) BY DEF XorUnit
<1> QED BY <1>1, <1>3, <1>4, <1>5

LEMMA ResultsKeepUnits ==
    ASSUME NEW c, FineFile(c), NEW alg \in Nat, NEW operations, NEW x \in Results(operations, alg, c)
    PROVE  x.units \in {c.units, Garbage.units}
<1> DEFINE stages == Stages(operations)
<1>1. \/ x \in StageResults(stages[1], alg, c)
      \/ \E y \in StageResults(stages[1], alg, c) : x \in StageResults(stages[2], alg, y)
  BY DEF Results
<1> HIDE DEF stages
<1>2. CASE x \in StageResults(stages[1], alg, c) BY <1>2, StageKeepsUnits
<1>3. CASE \E y \in StageResults(stages[1], alg, c) : x \in StageResults(stages[2], alg, y)
  <2>1. PICK y \in StageResults(stages[1], alg, c) : x \in StageResults(stages[2], alg, y)
    BY <1>3
  <2>2. FineFile(y) /\ y.units \in {c.units, Garbage.units} BY StageKeepsUnits
  <2>3. x.units \in {y.units, Garbage.units} BY <2>1, <2>2, StageKeepsUnits
  <2> QED BY <2>2, <2>3
<1> QED BY <1>1, <1>2, <1>3

(* All the bytes of the entry are in the archive, and go to an empty file.    *)
LEMMA WholeEntry ==
    ASSUME NEW r, work[r].size \in Nat, work[r].units \in Seq(Unit), IsWhole(r)
    PROVE  /\ Available(r) \in Seq(Nat) /\ Len(Available(r)) = work[r].size
           /\ work[r].size <= Len(work[r].units)
           /\ \A i \in 1 .. work[r].size :
                 work[r].units[i].kind = "byte" /\ Available(r)[i] = work[r].units[i].val
BY AvailableBytes DEF IsWhole

LEMMA PutInEmpty ==
    ASSUME NEW body \in Seq(Nat)
    PROVE  Put(body, <<>>) = body
<1>1. Len(body) \in Nat /\ Len(<<>>) = 0 /\ <<>> \in Seq(Nat) BY LenProperties, EmptySeq
<1>2. PICK n \in Nat : n = Len(body) BY <1>1
<1>3. SubSeq(<<>>, n + 1, 0) = <<>>
  <2>1. n + 1 \in Int /\ 0 \in Int /\ n + 1 > 0 OBVIOUS
  <2> QED BY <2>1, SubSeqEmpty
<1>4. body \o <<>> = body BY ConcatEmptySeq
<1> QED BY <1>1, <1>2, <1>3, <1>4 DEF Put

(* After the last entry nothing is left of the archive.                       *)
LEMMA AllExtracted ==
    ASSUME NEW n, NEW units, NEW w, Between(n, units, w), w.left = 0,
           NEW rest \in Seq(Unit), rest = w.units
    PROVE  Extracted(n, units)
<1>1. PICK list, got, k :
        /\ Reached(n, units, list, got, k) /\ w.left = Len(list) - k
        /\ units = UnitsOf(list, got, k) \o rest
  BY DEF Between
<1>2. Listed(list, got) /\ LeftOf(units, UnitsOf(list, got, Len(list))) /\ k \in 0 .. Len(list)
  BY <1>1 DEF Reached
<1>3. Len(list) \in Nat /\ k \in Nat /\ UnitsOf(list, got, k) \in Seq(Unit) BY <1>2, ListedFacts
<1>4. k = Len(list) BY <1>1, <1>3
<1>5. PICK whole \in Seq(Unit) : whole = UnitsOf(list, got, Len(list)) BY <1>3, <1>4
<1>6. Len(whole \o rest) <= Len(whole) BY <1>1, <1>2, <1>4, <1>5 DEF LeftOf
<1>7. Len(whole \o rest) = Len(whole) + Len(rest) BY ConcatProperties
<1>8. Len(rest) = 0
  <2>1. Len(whole) \in Nat /\ Len(rest) \in Nat BY LenProperties
  <2> QED BY <1>6, <1>7, <2>1
<1>9. rest = <<>> BY <1>8, EmptySeq
<1>10. whole \o <<>> = whole BY ConcatEmptySeq
<1>11. units = whole BY <1>1, <1>4, <1>5, <1>9, <1>10
<1> QED BY <1>1, <1>4, <1>5, <1>11 DEF Extracted

(* A list that names each of its members once lists the set of them.          *)
LEMMA ListOfItsMembers ==
    ASSUME NEW list \in Seq(Member), \A i, j \in 1 .. Len(list) : i # j => list[i] # list[j]
    PROVE  list \in SetToSeqs({list[i] : i \in 1 .. Len(list)})
<1> DEFINE ms == {list[i] : i \in 1 .. Len(list)}
<1>1. Len(list) \in Nat /\ DOMAIN list = 1 .. Len(list) BY LenProperties
<1>2. list \in [1 .. Len(list) -> ms] BY <1>1
<1>3. list \in Bijection(1 .. Len(list), ms)
  <2>1. \A m \in ms : \E i \in 1 .. Len(list) : list[i] = m OBVIOUS
  <2> HIDE DEF ms
  <2> QED BY <1>2, <2>1 DEF Bijection, Injection, IsInjective, Surjection
<1> HIDE DEF ms
<1>4. Cardinality(ms) = Len(list)
  <2>1. ExistsBijection(1 .. Len(list), ms) BY <1>3 DEF ExistsBijection
  <2>2. IsFiniteSet(1 .. Len(list)) /\ Cardinality(1 .. Len(list)) = Len(list) BY <1>1, FS_Interval
  <2> QED BY <2>1, <2>2, FS_Bijection
<1> QED BY <1>2, <1>4 DEF SetToSeqs, ms

LEMMA ExtractedIsWhole ==
    ASSUME NEW n, NEW units, Extracted(n, units)
    PROVE  \E ms \in SUBSET Present(n) : units \in ArchivesOf([m \in ms |-> tree[n][m]])
<1>1. PICK list, got : Reached(n, units, list, got, Len(list)) /\ units = UnitsOf(list, got, Len(list))
  BY DEF Extracted
<1>2. /\ list \in Seq(Member) /\ got \in [Member -> Seq(Nat)] /\ <<n, 0>> \in dirs
      /\ \A i, j \in 1 .. Len(list) : i # j => list[i] # list[j]
      /\ \A i \in 1 .. Len(list) : tree[n][list[i]] = got[list[i]]
  BY <1>1 DEF Reached, Listed
<1> DEFINE ms == {list[i] : i \in 1 .. Len(list)}
           files == [m \in ms |-> tree[n][m]]
<1>3. \A i \in 1 .. Len(list) : list[i] \in ms /\ list[i] \in Member BY <1>2, ElementOfSeq
<1>4. ms \in SUBSET Present(n)
  <2>1. \A i \in 1 .. Len(list) : tree[n][list[i]] # NoFile
    <3>1. \A i \in 1 .. Len(list) : got[list[i]] \in Seq(Nat) BY <1>2, <1>3
    <3> QED BY <1>2, <3>1, ArchiveAssumption
  <2> QED BY <1>2, <1>3, <2>1 DEF Present
<1>5. list \in SetToSeqs(ms) BY <1>2, ListOfItsMembers
<1>6. DOMAIN files = ms /\ \A i \in 1 .. Len(list) : files[list[i]] = got[list[i]]
  BY <1>2, <1>3
<1> HIDE DEF ms, files
<1>7. units = ArchiveUnits(list, files)
  <2>1. EntriesOf(list, got, Len(list))
          = [i \in 1 .. Len(list) |->
               <<U("path", list[i]), U("size", Len(files[list[i]]))>> \o Bytes(files[list[i]])]
    <3>1. \A i \in 1 .. Len(list) : EntryOf(list[i], got[list[i]])
            = <<U("path", list[i]), U("size", Len(files[list[i]]))>> \o Bytes(files[list[i]])
      BY <1>6 DEF EntryOf
    <3> QED BY <3>1 DEF EntriesOf
  <2> QED BY <1>1, <2>1, Zenon DEF UnitsOf, ArchiveUnits
<1>8. units \in ArchivesOf(files) BY <1>5, <1>6, <1>7 DEF ArchivesOf
<1> QED BY <1>4, <1>8 DEF files

(* r has the machine for itself while it runs; others had its archive or its  *)
(* directory for an output only before.                                       *)
Shielded(r) ==
    /\ Alone(r)
    /\ \A s \in Run \ {r} :
          MayWrite(call[s]) \cap {call[r].input, call[r].output} # {} => s \in plan.waits[r]

Unpacking(r) == call[r].mode = "unpack"
Untouched(r) == \A m \in Member : <<call[r].output, m>> \notin edited
Genuine(r) == file[call[r].input] # NoFile => Archival(file[call[r].input].units)

(* What has become of the units in the input n, step by step.                 *)
Decoded(r, units) ==
    /\ pc[r] = "writing" => work[r].linked /\ work[r].coded.units \in {units, Garbage.units}
    /\ pc[r] = "header" => file[temp[r]].units \in {units, Garbage.units}

Extracting(r, n, units) ==
    LET w == work[r]
    IN /\ pc[r] \in {"checkdir", "mkdir"} =>
             IF w.member = NoMember THEN Starting(units, w) ELSE Within(n, units, w)
       /\ pc[r] = "next" => Between(n, units, w)
       /\ pc[r] = "create" => Within(n, units, w)
       /\ pc[r] = "fill" => Within(n, units, w) /\ tree[n][w.member] = <<>>
       /\ (pc[r] = "rmtemp" /\ result[r] = 0) \/ Returned(r, 0) => Extracted(n, units)

(* There is an archive from the moment on when it is opened.                  *)
Followed(r, from) ==
    /\ pc[r] \in {"writing"} \cup UnpackLabels => from # NoFile
    /\ Decoded(r, from.units) /\ Extracting(r, call[r].output, from.units)

Unpacked(r) ==
    (Unpacking(r) /\ Shielded(r) /\ Untouched(r) /\ Genuine(r) /\ r \notin lost)
       => Followed(r, file[call[r].input])

UnpackInv == DoneInv /\ Waits /\ \A r \in Run : Unpacked(r)

(* What is known of a run that unpacks.                                       *)
LEMMA UnpackingFacts ==
    ASSUME NEW r \in Run, TypeInv, Unpacking(r), pc[r] \notin {"name", "killed"}
    PROVE  /\ pc \in [Run -> Label] /\ call \in [Run -> Call] /\ call[r] \in Call
           /\ result \in [Run -> {-1, 0}] /\ file = [n \in Name |-> file[n]]
           /\ work = [q \in Run |-> work[q]] /\ work[r] \in Work /\ Ready(r)
           /\ Fine(work[r].units) /\ work[r].units \in Seq(Unit)
           /\ work[r].size \in Nat /\ work[r].left \in Nat
           /\ work[r].making \in Seq(Sub) /\ work[r].member \in Member \cup {NoMember}
           /\ call[r].input \in Path /\ call[r].output \in Path
           /\ call[r].input \in Name /\ call[r].output \in Name /\ call[r].comp_alg \in Nat
           /\ pc[r] \notin PackLabels
           /\ pc[r] \in Busy \ Free => /\ temp[r] \in TempName /\ temp[r] \in Name
                                       /\ temp[r] # call[r].input
           /\ file[call[r].input] # NoFile => FineFile(file[call[r].input])
           /\ tree \in [Name -> [Member -> Seq(Nat) \cup {NoFile}]]
<1>1. /\ call[r] \in Call /\ work[r] \in Work /\ Addressed(r) /\ Placed(r) /\ Ready(r)
      /\ Fine(work[r].units) /\ call[r].mode = "unpack"
  BY RunFacts DEF Unpacking
<1>2. /\ pc \in [Run -> Label] /\ call \in [Run -> Call] /\ result \in [Run -> {-1, 0}]
      /\ file = [n \in Name |-> file[n]] /\ work = [q \in Run |-> work[q]]
      /\ tree \in [Name -> [Member -> Seq(Nat) \cup {NoFile}]]
      /\ \A n \in Name : file[n] # NoFile => FineFile(file[n])
  BY DEF TypeInv, Inv, Types, History, OnDisk
<1>3. call[r].input \in Path /\ call[r].output \in Path BY <1>1 DEF Addressed
<1>4. call[r].input \in Name /\ call[r].output \in Name BY <1>3 DEF Path
<1>5. pc[r] \in Busy \ Free => temp[r] \in TempName BY <1>1 DEF Placed
<1>6. TempName \subseteq Name BY ArchiveAssumption
<1>7. pc[r] \in Busy \ Free => temp[r] \in Name /\ temp[r] # call[r].input
  BY <1>3, <1>5, <1>6 DEF Path
<1>8. pc[r] \notin PackLabels BY <1>1 DEF Placed
<1>9. /\ work[r].units \in Seq(Unit) /\ work[r].size \in Nat /\ work[r].left \in Nat
      /\ work[r].making \in Seq(Sub) /\ work[r].member \in Member \cup {NoMember}
      /\ call[r].comp_alg \in Nat
  BY <1>1 DEF Work, Call
<1> QED BY <1>1, <1>2, <1>3, <1>4, <1>5, <1>7, <1>8, <1>9

(* Its steps leave what it is given, and the other members, alone.            *)
UnpackSteps(r) ==
    \/ MakeTemp(r) \/ TempFails(r) \/ RemoveTemp(r)
    \/ PipelineOpens(r) \/ PipelineTruncates(r)
    \/ PipelineOk(r) \/ PipelineRefuses(r) \/ PipelineFails(r)
    \/ ReadHeader(r) \/ CheckDirectory(r) \/ MakeDirectory(r) \/ NextEntry(r)
    \/ CreateMember(r) \/ FillMember(r) \/ FillFault(r) \/ UnpackFault(r)

LEMMA UnpackingSpares ==
    ASSUME NEW r \in Run, TypeInv, ArchiveStep(r), Unpacking(r)
    PROVE  UnpackSteps(r) /\ file'[call[r].input] = file[call[r].input]
<1>0. /\ file = [n \in Name |-> file[n]] /\ pc[r] \notin PackLabels
      /\ call[r].input \in Path /\ call[r].input \in Name
      /\ pc[r] \in Busy \ Free => temp[r] # call[r].input
      /\ temp[r] \in TempName \cup {NoName} /\ temp[r] # call[r].input
  <2>0. pc[r] \notin {"name", "killed"} BY ArchiveStepsKeepCall
  <2>1. temp[r] \in TempName \cup {NoName} BY RunFacts
  <2>2. call[r].input \in Path BY <2>0, UnpackingFacts
  <2>3. temp[r] # call[r].input BY <2>1, <2>2, ArchiveAssumption DEF Path
  <2> QED BY <2>0, <2>1, <2>3, UnpackingFacts
<1>1. UnpackSteps(r)
  BY <1>0 DEF ArchiveStep, UnpackSteps, ListDirectory, OpenArchive, StatEntry, OpenEntry,
     CopyEntry, CloseArchive, PackFault, DropArchive, PackLabels
<1>2. CASE MakeTemp(r)
  <2>1. PICK t \in TempName : file' = [file EXCEPT ![t] = Empty] BY <1>2 DEF MakeTemp
  <2> QED BY <1>0, <1>1, <2>1 DEF Path
<1>3. CASE RemoveTemp(r) BY <1>0, <1>1, <1>3 DEF RemoveTemp, Unlink
<1>4. CASE PipelineOpens(r) \/ PipelineTruncates(r) \/ PipelineOk(r)
  <2>1. Target(r) = temp[r] BY DEF Target, Unpacking
  <2>2. file' = file \/ \E c : file' = [file EXCEPT ![temp[r]] = c]
    BY <1>4, <2>1 DEF PipelineOpens, PipelineTruncates, PipelineOk, Writes
  <2> QED BY <1>0, <1>1, <2>2
<1>5. CASE ~(\/ MakeTemp(r) \/ RemoveTemp(r)
             \/ PipelineOpens(r) \/ PipelineTruncates(r) \/ PipelineOk(r))
  <2>1. file' = file
    BY <1>1, <1>5 DEF UnpackSteps, TempFails, PipelineRefuses, PipelineFails, ReadHeader,
       CheckDirectory, MakeDirectory, NextEntry, CreateMember, FillMember, FillFault,
       UnpackFault, fs
  <2> QED BY <1>1, <2>1
<1> QED BY <1>1, <1>2, <1>3, <1>4, <1>5

(* What has to be known after a step of r.                                    *)
LEMMA FollowedNow ==
    ASSUME NEW r \in Run, NEW n, NEW f, NEW v,
           call'[r].output = n, file'[call'[r].input] = f, work'[r] = v,
           pc'[r] \in {"writing"} \cup UnpackLabels => f # NoFile,
           pc'[r] = "writing" => v.linked /\ v.coded.units \in {f.units, Garbage.units},
           pc'[r] = "header" => file'[temp'[r]].units \in {f.units, Garbage.units},
           pc'[r] \in {"checkdir", "mkdir"} =>
              IF v.member = NoMember THEN Starting(f.units, v) ELSE Within(n, f.units, v)',
           pc'[r] = "next" => Between(n, f.units, v)',
           pc'[r] \in {"create", "fill"} => Within(n, f.units, v)',
           pc'[r] = "fill" => tree'[n][v.member] = <<>>,
           pc'[r] \in {"rmtemp", "returned"} /\ result'[r] = 0 => Extracted(n, f.units)'
    PROVE  Followed(r, file[call[r].input])'
<1>1. PICK u : u = f.units OBVIOUS
<1>2. file'[call'[r].input].units = u BY <1>1
<1>3. Decoded(r, file[call[r].input].units)'
  BY <1>1, <1>2 DEF Decoded
<1>4. Starting(u, v)' <=> Starting(u, v) BY DEF Starting
<1>5. Extracting(r, call[r].output, file[call[r].input].units)'
  BY <1>1, <1>2, <1>4 DEF Extracting, Returned
<1> QED BY <1>3, <1>5 DEF Followed

(* What a return is to a run that goes on unpacking.                          *)
LEMMA UnpackReturns ==
    ASSUME NEW r \in Run, TypeInv, Unpacking(r), Unpacking(r)', NEW status, Return(r, status)
    PROVE  pc'[r] = "returned" /\ result'[r] = status
<1>0. pc \in [Run -> Label] /\ call \in [Run -> Call] /\ result \in [Run -> {-1, 0}]
  BY DEF TypeInv, Inv, Types, History
<1>1. call[r].fallback /\ status # 0 => call'[r].mode = "file" BY <1>0 DEF Return, Call
<1>2. call'[r].mode = "unpack" BY DEF Unpacking
<1> QED BY <1>0, <1>1, <1>2 DEF Return, Ends, Goto

(* The steps before and after the extraction, and those that fail.            *)
LEMMA OuterStepsFollowed ==
    ASSUME NEW r \in Run, TypeInv, Unpacking(r), Unpacking(r)',
           NEW n, n = call[r].output, call'[r].output = n,
           NEW f, f = file[call[r].input], file'[call'[r].input] = f,
           Followed(r, f),
           \/ MakeTemp(r) \/ TempFails(r) \/ RemoveTemp(r)
           \/ PipelineTruncates(r) \/ PipelineRefuses(r) \/ PipelineFails(r) \/ UnpackFault(r)
    PROVE  Followed(r, file[call[r].input])'
<1>0. pc \in [Run -> Label] /\ result \in [Run -> {-1, 0}] BY DEF TypeInv, Inv, Types, History
<1>1. ASSUME pc'[r] \notin {"writing"} \cup UnpackLabels,
             pc'[r] \in {"rmtemp", "returned"} => result'[r] = -1
      PROVE  Followed(r, file[call[r].input])'
  <2>1. PICK v : v = work'[r] OBVIOUS
  <2>2. ~(pc'[r] \in {"rmtemp", "returned"} /\ result'[r] = 0) BY <1>1
  <2> QED BY <1>1, <2>1, <2>2, FollowedNow DEF UnpackLabels
<1>2. CASE MakeTemp(r)
  <2>1. pc'[r] = "pipe" BY <1>0, <1>2 DEF MakeTemp, Goto, Packing, Unpacking
  <2> QED BY <1>1, <2>1 DEF UnpackLabels
<1>3. CASE TempFails(r)
  <2>1. pc'[r] = "returned" /\ result'[r] = -1 BY <1>3, UnpackReturns DEF TempFails
  <2> QED BY <1>1, <2>1 DEF UnpackLabels
<1>4. CASE PipelineTruncates(r) \/ PipelineRefuses(r) \/ PipelineFails(r)
  <2>1. PipelineReturns(r, -1) /\ call[r].mode = "unpack"
    BY <1>4 DEF PipelineTruncates, PipelineRefuses, PipelineFails, Unpacking
  <2>2. pc'[r] = "rmtemp" /\ result'[r] = -1 BY <1>0, <2>1 DEF PipelineReturns, Ends, Goto
  <2> QED BY <1>1, <2>2 DEF UnpackLabels
<1>5. CASE UnpackFault(r)
  <2>1. pc'[r] = "rmtemp" /\ result'[r] = -1 BY <1>0, <1>5 DEF UnpackFault, Ends, Goto
  <2> QED BY <1>1, <2>1 DEF UnpackLabels
<1>6. CASE RemoveTemp(r)
  <2>1. /\ pc[r] = "rmtemp" /\ Return(r, result[r]) /\ dirs' = dirs /\ tree' = tree
    BY <1>6 DEF RemoveTemp
  <2>2. pc'[r] = "returned" /\ result'[r] = result[r] BY <2>1, UnpackReturns
  <2>3. CASE result[r] = 0
    <3>1. PICK u : u = f.units OBVIOUS
    <3>2. PICK v : v = work'[r] OBVIOUS
    <3>3. Extracted(n, u) BY <2>1, <2>3, <3>1 DEF Followed, Extracting
    <3>4. Extracted(n, u)' BY <2>1, <3>3, QuietKeeps
    <3>5. Extracted(n, f.units)' BY <3>1, <3>4
    <3> QED BY <2>2, <3>2, <3>5, FollowedNow DEF UnpackLabels
  <2>4. CASE result[r] # 0
    <3>1. result'[r] = -1 BY <1>0, <2>2, <2>4
    <3> QED BY <1>1, <2>2, <3>1 DEF UnpackLabels
  <2> QED BY <2>3, <2>4
<1> QED BY <1>2, <1>3, <1>4, <1>5, <1>6

(* The archive goes through the pipeline, and its header is read.             *)
LEMMA OpeningStepsFollowed ==
    ASSUME NEW r \in Run, TypeInv, Unpacking(r), Unpacking(r)',
           NEW n, n = call[r].output, call'[r].output = n,
           NEW f, f = file[call[r].input], file'[call'[r].input] = f,
           Followed(r, f), f # NoFile => Archival(f.units),
           PipelineOpens(r) \/ PipelineOk(r) \/ ReadHeader(r)
    PROVE  Followed(r, file[call[r].input])'
<1> DEFINE w == work[r]
<1>0. /\ pc \in [Run -> Label] /\ result \in [Run -> {-1, 0}] /\ call[r].mode = "unpack"
      /\ file = [m \in Name |-> file[m]] /\ work = [q \in Run |-> work[q]] /\ w \in Work
      /\ call[r].comp_alg \in Nat /\ (f # NoFile => FineFile(f))
      /\ pc[r] \in Busy \ Free => temp[r] \in Name /\ temp[r] # call[r].input
  <2>1. pc[r] \notin {"name", "killed"} BY DEF PipelineOpens, PipelineOk, ReadHeader
  <2> QED BY <2>1, UnpackingFacts DEF Unpacking
<1>1. CASE PipelineOpens(r)
  <2>1. pc[r] = "pipe" BY <1>1 DEF PipelineOpens
  <2>2. Source(r) = call[r].input /\ Target(r) = temp[r] /\ temp[r] # call[r].input
    BY <1>0, <2>1 DEF Source, Target, Packing, Busy, Free
  <2>3. ~OwnInput(r) /\ ~CompressesItself(r) BY <2>2 DEF OwnInput, CompressesItself
  <2>4. PICK c \in Outcomes(r) \cup Misread(r) :
          work' = [work EXCEPT ![r].coded = c, ![r].linked = TRUE]
    BY <1>1 DEF PipelineOpens
  <2>5. f # NoFile /\ (c = Garbage \/ c \in ResultsOn(r, f))
    <3>1. CASE c \in Outcomes(r) BY <2>2, <2>3, <3>1 DEF Outcomes
    <3>2. CASE c \in Misread(r) BY <2>2, <3>2 DEF Misread
    <3> QED BY <2>4, <3>1, <3>2
  <2>6. c.units \in {f.units, Garbage.units} BY <1>0, <2>5, ResultsKeepUnits DEF ResultsOn
  <2>7. work'[r].coded = c /\ work'[r].linked = TRUE BY <1>0, <2>4 DEF Work
  <2>8. pc'[r] = "writing" BY <1>0, <1>1, <2>3 DEF PipelineOpens, Goto
  <2>9. PICK v : v = work'[r] OBVIOUS
  <2> QED BY <2>5, <2>6, <2>7, <2>8, <2>9, FollowedNow DEF UnpackLabels
<1>2. CASE PipelineOk(r)
  <2>1. pc[r] = "writing" /\ PipelineReturns(r, 0) /\ temp' = temp /\ Writes(r, w.coded)
    BY <1>2 DEF PipelineOk
  <2>2. f # NoFile /\ w.linked /\ w.coded.units \in {f.units, Garbage.units}
    BY <2>1 DEF Followed, Decoded
  <2>3. pc'[r] = "header" BY <1>0, <2>1 DEF PipelineReturns, Ends, Goto
  <2>4. file' = [file EXCEPT ![temp[r]] = w.coded] BY <1>0, <2>1, <2>2 DEF Writes, Target
  <2>5. file'[temp'[r]] = w.coded BY <1>0, <2>1, <2>4 DEF Busy, Free
  <2>6. PICK v : v = work'[r] OBVIOUS
  <2> QED BY <2>2, <2>3, <2>5, <2>6, FollowedNow DEF UnpackLabels
<1>3. CASE ReadHeader(r)
  <2> DEFINE c == file[temp[r]]
             ok == /\ c # NoFile /\ c.layers = <<>> /\ Len(c.units) >= 2
                   /\ c.units[1].kind = "magic" /\ c.units[2].kind = "count"
  <2>1. pc[r] = "header" BY <1>3 DEF ReadHeader
  <2>2. f # NoFile /\ c.units \in {f.units, Garbage.units}
    BY <2>1 DEF Followed, Decoded, UnpackLabels
  <2>3. PICK v : v = work'[r] OBVIOUS
  <2>4. CASE ~ok
    <3>1. pc'[r] = "rmtemp" /\ result'[r] = -1 BY <1>0, <1>3, <2>4 DEF ReadHeader, Ends, Goto
    <3> QED BY <2>3, <3>1, FollowedNow DEF UnpackLabels
  <2>5. CASE ok
    <3>1. /\ pc'[r] = "checkdir"
          /\ work' = [work EXCEPT ![r] =
                [@ EXCEPT !.units = SubSeq(c.units, 3, Len(c.units)),
                          !.left = c.units[2].val, !.member = NoMember, !.making = <<0>>]]
      BY <1>0, <1>3, <2>5 DEF ReadHeader, Goto
    <3>2. c.units = f.units
      <4>1. Garbage.units[1].kind = "junk" BY DEF Garbage, U
      <4> QED BY <2>2, <2>5, <4>1
    <3>3. PICK u \in Seq(Unit) : u = f.units
      BY <1>0, <2>2 DEF FineFile, Fine
    <3> HIDE DEF c
    <3>4. /\ v.making = <<0>> /\ v.left = u[2].val /\ v.member = NoMember
          /\ v.units = SubSeq(u, 3, Len(u))
      BY <1>0, <2>3, <3>1, <3>2, <3>3 DEF Work
    <3>5. Archival(u) /\ Len(u) >= 2 /\ u[1].kind = "magic" /\ u[2].kind = "count"
      BY <2>2, <2>5, <3>2, <3>3
    <3>6. Starting(u, v) BY <3>4, <3>5, HeaderRead
    <3>7. Starting(f.units, v) BY <3>3, <3>6
    <3>8. v.member = NoMember BY <3>4
    <3>9. pc'[r] = "checkdir" BY <3>1
    <3> HIDE DEF ok
    <3> QED BY <2>2, <2>3, <3>7, <3>8, <3>9, FollowedNow DEF UnpackLabels
  <2> QED BY <2>4, <2>5
<1> QED BY <1>1, <1>2, <1>3

(* A directory is made, or was there: the stack of calls is one shorter.      *)
LEMMA DirectoryStepsFollowed ==
    ASSUME NEW r \in Run, TypeInv, Unpacking(r), Unpacking(r)',
           NEW n, n = call[r].output, call'[r].output = n,
           NEW f, f = file[call[r].input], file'[call'[r].input] = f,
           Followed(r, f), dirs \subseteq dirs',
           CheckDirectory(r) \/ MakeDirectory(r)
    PROVE  Followed(r, file[call[r].input])'
<1>0. /\ pc \in [Run -> Label] /\ result \in [Run -> {-1, 0}]
      /\ work = [q \in Run |-> work[q]] /\ work[r] \in Work
      /\ pc[r] \in {"checkdir", "mkdir"} /\ pc[r] \in UnpackLabels /\ tree' = tree
  <2>1. pc[r] \notin {"name", "killed"} BY DEF CheckDirectory, MakeDirectory
  <2> QED BY <2>1, UnpackingFacts DEF CheckDirectory, MakeDirectory, fs, UnpackLabels
<1>1. PICK u : u = f.units OBVIOUS
<1>2. PICK w \in Work : w = work[r] BY <1>0
<1>3. PICK v : v = work'[r] OBVIOUS
<1>4. f # NoFile /\ IF w.member = NoMember THEN Starting(u, w) ELSE Within(n, u, w)
  BY <1>0, <1>1, <1>2 DEF Followed, Extracting
<1>5. \A x : Within(n, u, x) => Within(n, u, x)'
  <2>1. <<n, 0>> \in dirs => <<n, 0>> \in dirs' OBVIOUS
  <2>2. \A m \in Member : tree'[n][m] = tree[n][m] BY <1>0
  <2> QED BY <2>1, <2>2, QuietKeeps
<1>6. ASSUME pc'[r] = "rmtemp", result'[r] = -1
      PROVE  Followed(r, file[call[r].input])'
  BY <1>3, <1>6, FollowedNow DEF UnpackLabels
<1>7. ASSUME pc'[r] \in {"checkdir", "mkdir"},
             v.member = w.member, v.left = w.left, v.size = w.size, v.units = w.units,
             w.member = NoMember => v.making = w.making
      PROVE  Followed(r, file[call[r].input])'
  <2>1. CASE w.member = NoMember
    <3>1. Starting(u, v) BY <1>4, <1>7, <2>1 DEF Starting
    <3>2. Starting(f.units, v) BY <1>1, <3>1
    <3> QED BY <1>3, <1>4, <1>7, <2>1, <3>2, FollowedNow DEF UnpackLabels
  <2>2. CASE w.member # NoMember
    <3>1. Within(n, u, v) BY <1>4, <1>7, <2>2 DEF Within
    <3>2. Within(n, u, v)' BY <1>5, <3>1
    <3>3. Within(n, f.units, v)' BY <1>1, <3>2
    <3> QED BY <1>3, <1>4, <1>7, <2>2, <3>3, FollowedNow DEF UnpackLabels
  <2> QED BY <2>1, <2>2
<1>8. ASSUME Made(r), Directory(r) \in dirs' PROVE Followed(r, file[call[r].input])'
  <2>1. /\ v.making = Tail(w.making) /\ v.member = w.member /\ v.left = w.left
        /\ v.size = w.size /\ v.units = w.units
    BY <1>0, <1>2, <1>3, <1>8 DEF Made, Work
  <2>2. pc'[r] = IF Len(w.making) > 1 THEN "mkdir"
                 ELSE IF w.member = NoMember THEN "next" ELSE "create"
    BY <1>0, <1>2, <1>8 DEF Made, Goto
  <2>3. CASE w.member = NoMember
    <3>1. Starting(u, w) /\ w.making = <<0>> BY <1>4, <2>3 DEF Starting
    <3>2. Len(w.making) = 1 /\ Head(w.making) = 0 BY <3>1
    <3>3. pc'[r] = "next" BY <2>2, <2>3, <3>2
    <3>4. <<n, 0>> \in dirs' BY <1>2, <1>8, <3>2 DEF Directory
    <3>5. Between(n, u, v)'
      <4>1. PICK list, got :
              /\ Listed(list, got) /\ LeftOf(u, UnitsOf(list, got, Len(list)))
              /\ w.left = Len(list) /\ u = UnitsOf(list, got, 0) \o w.units
        BY <3>1 DEF Starting
      <4>2. Len(list) \in Nat BY <4>1, LenProperties DEF Listed
      <4>3. Reached(n, u, list, got, 0)' BY <3>4, <4>1, <4>2 DEF Reached
      <4>4. v.left = Len(list) - 0 /\ u = UnitsOf(list, got, 0) \o v.units BY <2>1, <4>1, <4>2
      <4> QED BY <4>3, <4>4 DEF Between
    <3>6. Between(n, f.units, v)' BY <1>1, <3>5
    <3> QED BY <1>3, <1>4, <3>3, <3>6, FollowedNow DEF UnpackLabels
  <2>4. CASE w.member # NoMember
    <3>1. Within(n, u, v) BY <1>4, <2>1, <2>4 DEF Within
    <3>2. Within(n, u, v)' BY <1>5, <3>1
    <3>3. Within(n, f.units, v)' BY <1>1, <3>2
    <3>4. pc'[r] \in {"mkdir", "create"} BY <2>2, <2>4
    <3>5. v.member # NoMember BY <2>1, <2>4
    <3> QED BY <1>3, <1>4, <3>3, <3>4, <3>5, FollowedNow DEF UnpackLabels
  <2> QED BY <2>3, <2>4
<1>9. CASE CheckDirectory(r)
  <2>1. dirs' = dirs BY <1>9 DEF CheckDirectory, fs
  <2>2. CASE Directory(r) \in dirs /\ Made(r) BY <1>8, <2>1, <2>2
  <2>3. CASE Ends(r, -1, "rmtemp") BY <1>0, <1>6, <2>3 DEF Ends, Goto
  <2>4. CASE Goto(r, "mkdir") /\ work' = work
    <3>1. pc'[r] = "mkdir" /\ v = w BY <1>0, <1>2, <1>3, <2>4 DEF Goto
    <3> QED BY <1>7, <3>1
  <2> QED BY <1>9, <2>2, <2>3, <2>4 DEF CheckDirectory
<1>10. CASE MakeDirectory(r)
  <2>1. CASE Exists(r)
    <3>1. Ends(r, -1, "rmtemp") BY <1>10, <2>1 DEF MakeDirectory
    <3> QED BY <1>0, <1>6, <3>1 DEF Ends, Goto
  <2>2. CASE dirs' = dirs \cup {Directory(r)} /\ Made(r) BY <1>8, <2>2
  <2>3. CASE ~Exists(r) /\ ~(dirs' = dirs \cup {Directory(r)} /\ Made(r))
    <3>1. /\ work' = [work EXCEPT ![r].making = <<ParentSub[Directory(r)[2]]>> \o @]
          /\ Goto(r, "checkdir") /\ Directory(r)[2] # 0
      BY <1>10, <2>3 DEF MakeDirectory
    <3>2. Head(w.making) # 0 BY <1>2, <3>1 DEF Directory
    <3>3. w.member # NoMember
      <4>1. Head(<<0>>) = 0 OBVIOUS
      <4> QED BY <1>4, <3>2, <4>1 DEF Starting
    <3>4. /\ v.member = w.member /\ v.left = w.left /\ v.size = w.size /\ v.units = w.units
          /\ pc'[r] = "checkdir"
      BY <1>0, <1>2, <1>3, <3>1 DEF Work, Goto
    <3> QED BY <1>7, <3>3, <3>4
  <2> QED BY <2>1, <2>2, <2>3
<1> QED BY <1>9, <1>10

(* An entry is begun, or the last one was: it ends well with nothing left.    *)
LEMMA NextEntryFollowed ==
    ASSUME NEW r \in Run, TypeInv, Unpacking(r), Unpacking(r)',
           NEW n, n = call[r].output, call'[r].output = n,
           NEW f, f = file[call[r].input], file'[call'[r].input] = f,
           Followed(r, f), NextEntry(r)
    PROVE  Followed(r, file[call[r].input])'
<1>0. /\ pc \in [Run -> Label] /\ result \in [Run -> {-1, 0}]
      /\ work = [q \in Run |-> work[q]] /\ work[r] \in Work
      /\ pc[r] = "next" /\ pc[r] \in UnpackLabels /\ tree' = tree /\ dirs' = dirs
  <2>1. pc[r] \notin {"name", "killed"} BY DEF NextEntry
  <2> QED BY <2>1, UnpackingFacts DEF NextEntry, fs, UnpackLabels
<1>1. PICK u : u = f.units OBVIOUS
<1>2. PICK w \in Work : w = work[r] BY <1>0
<1>3. PICK v : v = work'[r] OBVIOUS
<1>4. f # NoFile /\ Between(n, u, w)
  BY <1>0, <1>1, <1>2 DEF Followed, Extracting
<1>5. /\ \A x : Within(n, u, x) => Within(n, u, x)'
      /\ Extracted(n, u) => Extracted(n, u)'
  <2>1. <<n, 0>> \in dirs => <<n, 0>> \in dirs' BY <1>0
  <2>2. \A m \in Member : tree'[n][m] = tree[n][m] BY <1>0
  <2> QED BY <2>1, <2>2, QuietKeeps
<1>6. PICK rest \in Seq(Unit) : rest = w.units /\ Fine(rest)
  <2>1. Fine(work[r].units) /\ work[r].units \in Seq(Unit) BY <1>0, UnpackingFacts
  <2> QED BY <1>2, <2>1
<1>7. CASE w.left = 0
  <2>1. pc'[r] = "rmtemp" BY <1>0, <1>2, <1>7 DEF NextEntry, EndOfEntries, Ends, Goto
  <2>2. Extracted(n, u) BY <1>4, <1>6, <1>7, AllExtracted
  <2>3. Extracted(n, f.units)' BY <1>1, <1>5, <2>2
  <2> QED BY <1>3, <2>1, <2>3, FollowedNow DEF UnpackLabels
<1>8. CASE w.left # 0 /\ (Len(rest) < 2 \/ rest[2].kind # "size")
  <2>1. pc'[r] = "rmtemp" /\ result'[r] = -1
    BY <1>0, <1>2, <1>6, <1>8 DEF NextEntry, EndOfEntries, Ends, Goto
  <2> QED BY <1>3, <2>1, FollowedNow DEF UnpackLabels
<1>9. CASE w.left # 0 /\ ~(Len(rest) < 2 \/ rest[2].kind # "size")
  <2>1. Len(rest) \in Nat BY LenProperties
  <2>2. Len(rest) >= 2 /\ rest[2].kind = "size" BY <1>9, <2>1
  <2>3. rest[1].val \in Member
    <3>1. 1 \in 1 .. Len(rest) - 1 /\ rest[1 + 1].kind = "size" BY <2>1, <2>2
    <3> QED BY <1>6, <3>1 DEF Fine, NamesMembers
  <2>4. /\ pc'[r] = "checkdir"
        /\ work' = [work EXCEPT ![r] =
              [@ EXCEPT !.member = rest[1].val, !.size = rest[2].val,
                        !.units = SubSeq(rest, 3, Len(rest)),
                        !.making = <<SubOf[rest[1].val]>>]]
    BY <1>0, <1>2, <1>6, <1>9 DEF NextEntry, EndOfEntries, Goto
  <2>5. /\ v.left = w.left /\ v.member = rest[1].val /\ v.size = rest[2].val
        /\ v.units = SubSeq(rest, 3, Len(rest))
    BY <1>0, <1>2, <1>3, <2>4 DEF Work
  <2>6. Within(n, u, v) BY <1>4, <1>6, <1>9, <2>2, <2>3, <2>5, EntryReached
  <2>7. Within(n, f.units, v)' BY <1>1, <1>5, <2>6
  <2>8. v.member # NoMember BY <2>3, <2>5, ArchiveAssumption
  <2> QED BY <1>3, <1>4, <2>4, <2>7, <2>8, FollowedNow DEF UnpackLabels
<1> QED BY <1>7, <1>8, <1>9

(* The file of the entry is made, and filled.                                 *)
LEMMA EntryStepsFollowed ==
    ASSUME NEW r \in Run, TypeInv, Unpacking(r), Unpacking(r)',
           NEW n, n = call[r].output, call'[r].output = n,
           NEW f, f = file[call[r].input], file'[call'[r].input] = f,
           Followed(r, f), r \notin lost',
           CreateMember(r) \/ FillMember(r) \/ FillFault(r)
    PROVE  Followed(r, file[call[r].input])'
<1>0. /\ pc \in [Run -> Label] /\ result \in [Run -> {-1, 0}]
      /\ work = [q \in Run |-> work[q]] /\ work[r] \in Work /\ Ready(r)
      /\ n \in Name /\ tree \in [Name -> [Member -> Seq(Nat) \cup {NoFile}]]
      /\ work[r].units \in Seq(Unit) /\ work[r].size \in Nat
      /\ work[r].member \in Member \cup {NoMember}
      /\ pc[r] \in {"create", "fill"} /\ pc[r] \in UnpackLabels /\ dirs' = dirs
  <2>1. pc[r] \notin {"name", "killed"} BY DEF CreateMember, FillMember, FillFault
  <2> QED BY <2>1, UnpackingFacts DEF CreateMember, FillMember, FillFault, UnpackLabels
<1>1. PICK u : u = f.units OBVIOUS
<1>2. PICK w \in Work : w = work[r] BY <1>0
<1>3. PICK v : v = work'[r] OBVIOUS
<1>4. f # NoFile /\ Within(n, u, w) /\ (pc[r] = "fill" => tree[n][w.member] = <<>>)
  BY <1>0, <1>1, <1>2 DEF Followed, Extracting
<1>5. PICK m \in Member : m = w.member BY <1>0, <1>2 DEF Ready
<1>6. ASSUME NEW body, SetMember(r, body)
      PROVE  tree'[n][m] = body /\ \A x \in Member \ {m} : tree'[n][x] = tree[n][x]
  <2>1. tree' = [tree EXCEPT ![n][m] = body] BY <1>2, <1>5, <1>6 DEF SetMember
  <2> QED BY <1>0, <2>1
<1>7. ASSUME pc'[r] = "rmtemp", result'[r] = -1
      PROVE  Followed(r, file[call[r].input])'
  BY <1>3, <1>7, FollowedNow DEF UnpackLabels
<1>8. CASE CreateMember(r)
  <2>1. SetMember(r, <<>>) /\ work' = work /\ pc'[r] = "fill"
    BY <1>0, <1>8 DEF CreateMember, Goto
  <2>2. tree'[n][m] = <<>> /\ \A x \in Member \ {m} : tree'[n][x] = tree[n][x]
    BY <1>6, <2>1
  <2>3. <<n, 0>> \in dirs => <<n, 0>> \in dirs' BY <1>0
  <2>4. Within(n, u, w)' BY <1>4, <1>5, <2>2, <2>3, MemberCreated
  <2>5. v = w BY <1>2, <1>3, <2>1
  <2>6. Within(n, f.units, v)' BY <1>1, <2>4, <2>5
  <2>7. tree'[n][v.member] = <<>> BY <1>5, <2>2, <2>5
  <2> QED BY <1>3, <1>4, <2>1, <2>6, <2>7, FollowedNow DEF UnpackLabels
<1>9. CASE FillMember(r)
  <2>1. pc[r] = "fill" /\ SetMember(r, Put(Available(r), tree[n][m]))
    BY <1>2, <1>5, <1>9 DEF FillMember
  <2>2. tree[n][m] = <<>> BY <1>4, <1>5, <2>1
  <2>3. CASE ~IsWhole(r)
    <3>1. pc'[r] = "rmtemp" /\ result'[r] = -1 BY <1>0, <1>9, <2>3 DEF FillMember, Ends, Goto
    <3> QED BY <1>7, <3>1
  <2>4. CASE IsWhole(r)
    <3>1. /\ pc'[r] = "next"
          /\ work' = [work EXCEPT ![r].left = @ - 1,
                          ![r].units = SubSeq(@, work[r].size + 1, Len(@))]
      BY <1>0, <1>9, <2>4 DEF FillMember, Goto
    <3>2. PICK rest \in Seq(Unit) : rest = w.units BY <1>0, <1>2
    <3>3. PICK size \in Nat : size = w.size BY <1>0, <1>2
    <3>4. /\ Available(r) \in Seq(Nat) /\ Len(Available(r)) = work[r].size
          /\ work[r].size <= Len(work[r].units)
          /\ \A i \in 1 .. work[r].size :
                work[r].units[i].kind = "byte" /\ Available(r)[i] = work[r].units[i].val
      BY <1>0, <2>4, WholeEntry
    <3>5. PICK body \in Seq(Nat) : body = Available(r) BY <3>4
    <3>6. Len(body) = size /\ Carries(rest, body)
      BY <1>2, <3>2, <3>3, <3>4, <3>5 DEF Carries
    <3>7. SetMember(r, body) BY <2>1, <2>2, <3>5, PutInEmpty
    <3>8. tree'[n][m] = body /\ \A x \in Member \ {m} : tree'[n][x] = tree[n][x]
      BY <1>6, <3>7
    <3>9. v.left = w.left - 1 /\ v.units = SubSeq(rest, size + 1, Len(rest))
      <4> DEFINE k == w.left - 1
                 more == SubSeq(rest, size + 1, Len(rest))
      <4>1. work' = [work EXCEPT ![r] = [@ EXCEPT !.left = k, !.units = more]]
        BY <1>2, <3>1, <3>2, <3>3
      <4> HIDE DEF k, more
      <4>2. v.left = k /\ v.units = more BY <1>0, <1>2, <1>3, <4>1 DEF Work
      <4> QED BY <4>2 DEF k, more
    <3>10. <<n, 0>> \in dirs => <<n, 0>> \in dirs' BY <1>0
    <3>11. tree'[n][w.member] = body /\ \A x \in Member \ {w.member} : tree'[n][x] = tree[n][x]
      BY <1>5, <3>8
    <3>12. Between(n, u, v)'
      BY <1>4, <3>2, <3>3, <3>6, <3>9, <3>10, <3>11, EntryFilled
    <3>13. Between(n, f.units, v)' BY <1>1, <3>12
    <3> QED BY <1>3, <1>4, <3>1, <3>13, FollowedNow DEF UnpackLabels
  <2> QED BY <2>3, <2>4
<1>10. CASE FillFault(r)
  <2>1. Ends(r, -1, "rmtemp") BY <1>10 DEF FillFault
  <2>2. pc'[r] = "rmtemp" /\ result'[r] = -1 BY <1>0, <2>1 DEF Ends, Goto
  <2> QED BY <1>7, <2>2
<1> QED BY <1>8, <1>9, <1>10

(* Names only come into a call from nothing, and the order stays.             *)
LEMMA ShieldIsOld ==
    ASSUME NEW r \in Run, DoneInv, [Next]_vars, Unpacking(r),
           pc[r] \notin {"name", "killed"},
           call'[r].input = call[r].input, call'[r].output = call[r].output, Shielded(r)'
    PROVE  Shielded(r)
<1>0. call[r].input \in Path /\ call[r].output \in Path
  <2>1. TypeInv BY DEF DoneInv
  <2> QED BY <2>1, UnpackingFacts
<1>1. plan' = plan
  BY DEF Next, Step, Main, Dispatch, NameOutput, CallLibrary, vars
<1>2. Alone(r) BY <1>1 DEF Shielded, Alone
<1>3. ASSUME NEW s \in Run \ {r}, MayWrite(call[s]) \cap {call[r].input, call[r].output} # {}
      PROVE  s \in plan.waits[r]
  <2>1. MayWrite(call'[s]) = MayWrite(call[s]) \/ MayWrite(call[s]) = {NoName} BY WritesAreOld
  <2>2. NoName \notin Path BY ArchiveAssumption DEF Path
  <2>3. MayWrite(call'[s]) \cap {call'[r].input, call'[r].output} # {} BY <1>0, <1>3, <2>1, <2>2
  <2> QED BY <1>1, <2>3 DEF Shielded
<1> QED BY <1>2, <1>3 DEF Shielded

LEMMA OwnStepUnpacked ==
    ASSUME NEW r \in Run, UnpackInv, Step(r)
    PROVE  Unpacked(r)'
<1> SUFFICES ASSUME Unpacking(r)', Shielded(r)', Untouched(r)', Genuine(r)', r \notin lost'
             PROVE  Followed(r, file[call[r].input])'
  BY DEF Unpacked
<1>0. /\ DoneInv /\ TypeInv /\ Unpacked(r)
      /\ pc \in [Run -> Label] /\ call \in [Run -> Call]
  BY DEF UnpackInv, DoneInv, TypeInv, Inv, Types
<1>1. CASE Main(r) BY <1>0, <1>1, MainSetsNoMode DEF Unpacking
<1>2. CASE Dispatch(r) \/ NameOutput(r) \/ CallLibrary(r)
  <2>1. pc'[r] \in {"name", "pipe", "mktemp"}
    BY <1>0, <1>2 DEF Dispatch, NameOutput, CallLibrary, Goto
  <2>2. PICK f : f = file'[call'[r].input] OBVIOUS
  <2>3. PICK n, v : n = call'[r].output /\ v = work'[r] OBVIOUS
  <2> QED BY <2>1, <2>2, <2>3, FollowedNow DEF UnpackLabels
<1>3. CASE ArchiveStep(r)
  <2>1. Unpacking(r) /\ SameCall(r) /\ pc[r] \notin {"name", "killed"}
    BY <1>0, <1>3, ArchiveStepsKeepCall DEF Unpacking
  <2>2. /\ call'[r].input = call[r].input /\ call'[r].output = call[r].output
        /\ UnpackSteps(r) /\ file'[call[r].input] = file[call[r].input]
    BY <1>0, <1>3, <2>1, UnpackingSpares DEF SameCall
  <2>3. dirs \subseteq dirs' /\ lost \subseteq lost' /\ edited' = edited
    BY <1>0, StepsOnlyAdd
  <2>4. Shielded(r)
    <3>1. [Next]_vars BY DEF Next
    <3> QED BY <1>0, <2>1, <2>2, <3>1, ShieldIsOld
  <2>5. Untouched(r) /\ Genuine(r) /\ r \notin lost
    BY <2>2, <2>3 DEF Untouched, Genuine
  <2>6. PICK n : n = call[r].output OBVIOUS
  <2>7. PICK f : f = file[call[r].input] OBVIOUS
  <2>8. /\ Followed(r, f) /\ (f # NoFile => Archival(f.units))
        /\ call'[r].output = n /\ file'[call'[r].input] = f
    BY <1>0, <2>1, <2>2, <2>4, <2>5, <2>6, <2>7 DEF Unpacked, Genuine
  <2>9. CASE \/ MakeTemp(r) \/ TempFails(r) \/ RemoveTemp(r)
             \/ PipelineTruncates(r) \/ PipelineRefuses(r) \/ PipelineFails(r) \/ UnpackFault(r)
    BY <1>0, <2>1, <2>6, <2>7, <2>8, <2>9, OuterStepsFollowed
  <2>10. CASE PipelineOpens(r) \/ PipelineOk(r) \/ ReadHeader(r)
    BY <1>0, <2>1, <2>6, <2>7, <2>8, <2>10, OpeningStepsFollowed
  <2>11. CASE CheckDirectory(r) \/ MakeDirectory(r)
    BY <1>0, <2>1, <2>3, <2>6, <2>7, <2>8, <2>11, DirectoryStepsFollowed
  <2>12. CASE NextEntry(r)
    BY <1>0, <2>1, <2>6, <2>7, <2>8, <2>12, NextEntryFollowed
  <2>13. CASE CreateMember(r) \/ FillMember(r) \/ FillFault(r)
    BY <1>0, <2>1, <2>6, <2>7, <2>8, <2>13, EntryStepsFollowed
  <2> QED BY <2>2, <2>9, <2>10, <2>11, <2>12, <2>13 DEF UnpackSteps
<1> QED BY <1>1, <1>2, <1>3 DEF Step

(* A step that changes nothing of r, nor of what it has to do with.           *)
LEMMA StillFollowed ==
    ASSUME NEW r \in Run, NEW n, n = call[r].output,
           UNCHANGED <<pc[r], call[r], temp[r], work[r], result[r]>>,
           file'[call[r].input] = file[call[r].input],
           pc[r] = "header" => file'[temp[r]] = file[temp[r]],
           <<n, 0>> \in dirs => <<n, 0>> \in dirs', tree'[n] = tree[n],
           Followed(r, file[call[r].input])
    PROVE  Followed(r, file[call[r].input])'
<1>1. PICK f : f = file[call[r].input] OBVIOUS
<1>2. PICK u : u = f.units OBVIOUS
<1>3. PICK v : v = work[r] OBVIOUS
<1>4. /\ call'[r].output = n /\ file'[call'[r].input] = f /\ work'[r] = v
      /\ pc'[r] = pc[r] /\ result'[r] = result[r] /\ temp'[r] = temp[r]
  BY <1>1, <1>3
<1>5. /\ Starting(u, v) => Starting(u, v)'
      /\ Between(n, u, v) => Between(n, u, v)'
      /\ Within(n, u, v) => Within(n, u, v)'
      /\ Extracted(n, u) => Extracted(n, u)'
  <2>1. \A m \in Member : tree'[n][m] = tree[n][m] OBVIOUS
  <2> QED BY <2>1, QuietKeeps
<1>6. /\ pc[r] \in {"writing"} \cup UnpackLabels => f # NoFile
      /\ Decoded(r, u) /\ Extracting(r, n, u)
  BY <1>1, <1>2 DEF Followed
<1>7. pc[r] \in {"checkdir", "mkdir"} =>
         IF v.member = NoMember THEN Starting(u, v) ELSE Within(n, u, v)'
  BY <1>3, <1>5, <1>6 DEF Extracting
<1>8. /\ pc[r] = "next" => Between(n, u, v)'
      /\ pc[r] \in {"create", "fill"} => Within(n, u, v)'
      /\ pc[r] = "fill" => tree'[n][v.member] = <<>>
  BY <1>3, <1>5, <1>6 DEF Extracting
<1>9. pc[r] \in {"rmtemp", "returned"} /\ result[r] = 0 => Extracted(n, u)'
  BY <1>5, <1>6 DEF Extracting, Returned
<1>10. /\ pc[r] = "writing" => v.linked /\ v.coded.units \in {u, Garbage.units}
       /\ pc[r] = "header" => file'[temp'[r]].units \in {u, Garbage.units}
  BY <1>3, <1>4, <1>6 DEF Decoded
<1>11. /\ pc'[r] \in {"checkdir", "mkdir"} =>
            IF v.member = NoMember THEN Starting(f.units, v) ELSE Within(n, f.units, v)'
       /\ pc'[r] = "next" => Between(n, f.units, v)'
       /\ pc'[r] \in {"create", "fill"} => Within(n, f.units, v)'
       /\ pc'[r] \in {"rmtemp", "returned"} /\ result'[r] = 0 => Extracted(n, f.units)'
  BY <1>2, <1>4, <1>7, <1>8, <1>9
<1>12. /\ pc'[r] = "writing" => v.linked /\ v.coded.units \in {f.units, Garbage.units}
       /\ pc'[r] = "header" => file'[temp'[r]].units \in {f.units, Garbage.units}
  BY <1>2, <1>4, <1>10
<1> QED BY <1>4, <1>6, <1>8, <1>11, <1>12, FollowedNow

(* A step of another run: r has not begun, or has ended and is shielded.      *)
LEMMA OthersKeepUnpacked ==
    ASSUME NEW r \in Run, UnpackInv, NEW q \in Run \ {r}, Step(q)
    PROVE  Unpacked(r)'
<1> SUFFICES ASSUME Unpacking(r)', Shielded(r)', Untouched(r)', Genuine(r)', r \notin lost'
             PROVE  Followed(r, file[call[r].input])'
  BY DEF Unpacked
<1>0. /\ DoneInv /\ TypeInv /\ NameInv /\ Inv /\ TreeShape /\ Waits /\ Unpacked(r)
      /\ pc \in [Run -> Label]
  BY DEF UnpackInv, DoneInv, TypeInv, NameInv, Inv, Types
<1>1. /\ pc'[r] = pc[r] /\ call'[r] = call[r] /\ temp'[r] = temp[r] /\ result'[r] = result[r]
      /\ work'[r] = work[r] \/ \E b \in BOOLEAN : work'[r] = [work[r] EXCEPT !.linked = b]
  <2>1. Undisturbed(r) BY <1>0, ArchiveStepsSpare, StartStepsSpare DEF Step
  <2>2. result'[r] = result[r] BY <1>0, ResultSpared
  <2> QED BY <2>1, <2>2 DEF Undisturbed
<1>2. Unpacking(r) BY <1>1 DEF Unpacking
<1> SUFFICES ASSUME pc[r] \notin {"name", "killed"} PROVE Followed(r, file[call[r].input])'
  <2>1. PICK f, n, v : f = file'[call'[r].input] /\ n = call'[r].output /\ v = work'[r] OBVIOUS
  <2>2. pc[r] \in {"name", "killed"} => Followed(r, file[call[r].input])'
    BY <1>1, <2>1, FollowedNow DEF UnpackLabels
  <2> QED BY <2>2
<1>3. Shielded(r)
  <2>1. [Next]_vars BY DEF Next
  <2> QED BY <1>0, <1>1, <1>2, <2>1, ShieldIsOld
<1>4. dirs \subseteq dirs' /\ lost \subseteq lost' /\ edited' = edited
  BY <1>0, StepsOnlyAdd
<1>5. pc[r] \notin Busy
  <2> SUFFICES ASSUME pc[r] \in Busy PROVE FALSE
    OBVIOUS
  <2>1. Alone(r) BY <1>3 DEF Shielded
  <2>2. q \in Run /\ r \in Run \ {q} /\ q \in Run \ {r} OBVIOUS
  <2> QED BY <1>0, <2>1, <2>2, OnlyOne
<1>6. pc'[r] \notin {"writing", "rmtemp"} \cup UnpackLabels
  BY <1>1, <1>5 DEF Busy, PackLabels, UnpackLabels
<1>7. PICK f : f = file'[call'[r].input] OBVIOUS
<1>8. PICK v : v = work'[r] OBVIOUS
<1>9. PICK n : n = call[r].output /\ n = call'[r].output BY <1>1
<1>10. CASE ~Returned(r, 0)
  <2>1. ~(pc'[r] \in {"rmtemp", "returned"} /\ result'[r] = 0)
    BY <1>1, <1>6, <1>10 DEF Returned
  <2> QED BY <1>6, <1>7, <1>8, <1>9, <2>1, FollowedNow DEF UnpackLabels
<1>11. CASE Returned(r, 0)
  <2>1. call[r].input \in Path /\ call[r].output \in Path BY <1>0, <1>2, UnpackingFacts
  <2>2. call[q].output \notin {call[r].input, call[r].output}
    <3>1. pc[q] \notin Ended BY <1>0, StepOfWhom
    <3>2. pc[r] # "idle" BY <1>11 DEF Returned
    <3>3. q \notin plan.waits[r] BY <1>0, <3>1, <3>2 DEF Waits
    <3>4. MayWrite(call[q]) \cap {call[r].input, call[r].output} = {} BY <1>3, <3>3 DEF Shielded
    <3>5. call[q].output \in MayWrite(call[q]) \cup {NoName} BY <1>0, WritesWhatItMay
    <3>6. NoName \notin Path BY ArchiveAssumption DEF Path
    <3> QED BY <2>1, <3>4, <3>5, <3>6
  <2>3. file'[call[r].input] = file[call[r].input] /\ tree'[n] = tree[n]
    BY <1>0, <1>9, <2>1, <2>2, StepsSpareNames DEF LeavesAlone
  <2>4. Untouched(r) /\ Genuine(r) /\ r \notin lost
    BY <1>1, <1>4, <2>3 DEF Untouched, Genuine
  <2>5. Followed(r, file[call[r].input]) BY <1>0, <1>2, <1>3, <2>4 DEF Unpacked
  <2>6. PICK u : u = file[call[r].input].units OBVIOUS
  <2>7. Extracted(n, u) BY <1>9, <1>11, <2>5, <2>6 DEF Followed, Extracting
  <2>8. Extracted(n, u)'
    <3>1. \A m \in Member : tree'[n][m] = tree[n][m] BY <2>3
    <3> QED BY <1>4, <2>7, <3>1, QuietKeeps
  <2>9. f.units = u BY <1>1, <1>7, <2>3, <2>6
  <2>10. Extracted(n, f.units)' BY <2>8, <2>9
  <2> QED BY <1>6, <1>7, <1>8, <1>9, <2>10, FollowedNow DEF UnpackLabels
<1> QED BY <1>10, <1>11

(* A user changes a file of another directory.                                *)
LEMMA EditKeepsUnpacked ==
    ASSUME NEW r \in Run, UnpackInv,
           NEW k \in plan.changing, NEW m \in Member, NEW body \in Body \cup {NoFile},
           Edit(k, m, body), plan' = plan
    PROVE  Unpacked(r)'
<1>1. /\ UNCHANGED <<file, dirs, pc, call, temp, work, result, lost, faults>>
      /\ tree' = [tree EXCEPT ![k][m] = body] /\ edited' = edited \cup {<<k, m>>}
  BY DEF Edit, locals
<1> SUFFICES ASSUME Unpacking(r)', Shielded(r)', Untouched(r)', Genuine(r)', r \notin lost'
             PROVE  Followed(r, file[call[r].input])'
  BY DEF Unpacked
<1>2. Unpacking(r) /\ Shielded(r) /\ Untouched(r) /\ Genuine(r) /\ r \notin lost
  BY <1>1 DEF Unpacking, Shielded, Alone, Untouched, Genuine
<1>3. Followed(r, file[call[r].input]) BY <1>2 DEF UnpackInv, Unpacked
<1> SUFFICES ASSUME pc[r] \notin {"name", "killed"} PROVE Followed(r, file[call[r].input])'
  <2>1. PICK f, n, v : f = file'[call'[r].input] /\ n = call'[r].output /\ v = work'[r] OBVIOUS
  <2>2. pc[r] \in {"name", "killed"} => Followed(r, file[call[r].input])'
    BY <1>1, <2>1, FollowedNow DEF UnpackLabels
  <2> QED BY <2>2
<1>4. k # call[r].output BY <1>1 DEF Untouched
<1>5. PICK n : n = call[r].output OBVIOUS
<1>6. tree'[n] = tree[n]
  <2>1. tree \in [Name -> [Member -> Seq(Nat) \cup {NoFile}]]
    BY DEF UnpackInv, DoneInv, TypeInv, OnDisk
  <2>2. call[r].output \in Name
    <3>1. TypeInv BY DEF UnpackInv, DoneInv
    <3> QED BY <1>2, <3>1, UnpackingFacts
  <2> QED BY <1>1, <1>4, <1>5, <2>1, <2>2
<1> QED BY <1>1, <1>3, <1>5, <1>6, StillFollowed

LEMMA NextKeepsUnpacked ==
    ASSUME NEW r \in Run, UnpackInv, [Next]_vars
    PROVE  Unpacked(r)'
<1>1. CASE \E q \in Run : Step(q)
  <2>1. PICK q \in Run : Step(q) BY <1>1
  <2>2. CASE q = r BY <2>1, <2>2, OwnStepUnpacked
  <2>3. CASE q # r
    <3>1. q \in Run \ {r} BY <2>3
    <3> QED BY <2>1, <3>1, OthersKeepUnpacked
  <2> QED BY <2>2, <2>3
<1>2. ASSUME UNCHANGED <<file, dirs, tree, call, temp, work, result, lost, edited, plan>>,
             pc'[r] = pc[r]
      PROVE  Unpacked(r)'
  <2> SUFFICES ASSUME Unpacking(r)', Shielded(r)', Untouched(r)', Genuine(r)', r \notin lost'
               PROVE  Followed(r, file[call[r].input])'
    BY DEF Unpacked
  <2>1. Unpacking(r) /\ Shielded(r) /\ Untouched(r) /\ Genuine(r) /\ r \notin lost
    BY <1>2 DEF Unpacking, Shielded, Alone, Untouched, Genuine
  <2>2. Followed(r, file[call[r].input]) BY <2>1 DEF UnpackInv, Unpacked
  <2>3. PICK n : n = call[r].output OBVIOUS
  <2> QED BY <1>2, <2>2, <2>3, StillFollowed
<1>3. CASE \E q \in Run : Kill(q) /\ UNCHANGED plan
  <2>1. PICK q \in Run : Kill(q) /\ plan' = plan BY <1>3
  <2>2. UNCHANGED <<file, dirs, tree, call, temp, work, result, lost, edited, plan>>
    BY <2>1 DEF Kill, fs, locals
  <2>3. pc'[r] = "killed" \/ pc'[r] = pc[r]
    <3>1. pc \in [Run -> Label] BY DEF UnpackInv, DoneInv, TypeInv, Inv, Types
    <3> QED BY <2>1, <3>1 DEF Kill, Goto
  <2>4. CASE pc'[r] = "killed"
    <3>1. PICK f : f = file'[call'[r].input] OBVIOUS
    <3>2. PICK n, v : n = call'[r].output /\ v = work'[r] OBVIOUS
    <3>3. Followed(r, file[call[r].input])' BY <2>4, <3>1, <3>2, FollowedNow DEF UnpackLabels
    <3> QED BY <3>3 DEF Unpacked
  <2> QED BY <1>2, <2>2, <2>3, <2>4
<1>4. CASE \E n \in plan.changing, m \in Member, body \in Body \cup {NoFile} :
              Edit(n, m, body) /\ UNCHANGED plan
  BY <1>4, EditKeepsUnpacked
<1>5. CASE UNCHANGED vars
  <2>1. UNCHANGED <<file, dirs, tree, pc, call, temp, work, result, lost, edited, faults, plan>>
    BY <1>5 DEF vars, avars, fs, locals
  <2> QED BY <1>2, <2>1
<1> QED BY <1>1, <1>3, <1>4, <1>5 DEF Next

LEMMA NextKeepsUnpackInv ==
    ASSUME UnpackInv, [Next]_vars
    PROVE  UnpackInv'
BY NextKeepsDone, NextKeepsWaits, NextKeepsUnpacked DEF UnpackInv

LEMMA InitUnpacked ==
    ASSUME Init
    PROVE  UnpackInv
<1>1. \A r \in Run : pc[r] = "idle" /\ call[r] = NoCall BY DEF Init
<1>2. NoCall.mode = "none" BY DEF NoCall
<1>3. \A r \in Run : Unpacked(r) BY <1>1, <1>2 DEF Unpacked, Unpacking
<1> QED BY <1>1, <1>3, InitDone DEF UnpackInv, Waits

LEMMA UnpackInvImplies ==
    ASSUME UnpackInv, \A r \in Run : Unpacking(r) => Shielded(r) /\ Untouched(r) /\ Genuine(r)
    PROVE  UnpackedIsWhole
<1> SUFFICES ASSUME NEW r \in Run \ lost, call[r].mode = "unpack",
                    \A s \in {s \in Run : call[s].mode = "unpack" /\ call[s].output = call[r].output} :
                       Returned(s, 0) /\ s \notin lost
             PROVE  LET n == call[r].output
                    IN \E ms \in SUBSET Present(n) :
                          file[call[r].input].units \in ArchivesOf([m \in ms |-> tree[n][m]])
  BY DEF UnpackedIsWhole
<1>1. Returned(r, 0) /\ Unpacking(r) BY DEF Unpacking
<1>2. Followed(r, file[call[r].input]) BY <1>1 DEF UnpackInv, Unpacked
<1>3. Extracted(call[r].output, file[call[r].input].units)
  BY <1>1, <1>2 DEF Followed, Extracting
<1> QED BY <1>3, ExtractedIsWhole

(* An unpack that returns 0 has extracted the whole of the archive, with any  *)
(* number of entries of any size: its directory holds all that the archive    *)
(* does, however the archive was damaged or shortened and wherever calls fail,*)
(* and whichever read comes back short, if no other run is at work while it   *)
(* is, none has its archive or its directory for an output, or could make up  *)
(* that name, but before, no user changes the directory, and what is no       *)
(* archive does not begin as one (Spec implies UnpackedIsWhole).              *)
THEOREM UnpackedWhole ==
    Spec => []((\A r \in Run : Unpacking(r) => Shielded(r) /\ Untouched(r) /\ Genuine(r))
                  => UnpackedIsWhole)
<1>1. UnpackInv => ((\A r \in Run : Unpacking(r) => Shielded(r) /\ Untouched(r) /\ Genuine(r))
                      => UnpackedIsWhole)
  BY UnpackInvImplies
<1> QED BY <1>1, InitUnpacked, NextKeepsUnpackInv, PTL DEF Spec
===============================================================================

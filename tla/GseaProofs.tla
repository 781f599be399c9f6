------------------------------ MODULE GseaProofs ------------------------------
(* For any number of runs, of command lines, of faults and of changes by      *)
(* users: every state has its types; temporaries never outlive the runs that  *)
(* made them, as every way out of the functions of archive.c and of the       *)
(* fallback in main.c removes what create_temp_archive_file made; a run that  *)
(* makes up the name of its output never writes to its input, in the usual    *)
(* directions, unless a call failed just when the name was made; and a run    *)
(* that exits with 0 on a single file has done what its command line asks, or *)
(* its part with the codec if that mixes directions.  The loop of             *)
(* parse_arguments is followed to its end first, by way of a least argument at*)
(* which it could go wrong.                                                   *)
EXTENDS Gsea, SequenceTheorems, FiniteSetTheorems, WellFoundedInduction, TLAPS

(* A set of naturals has a least element.                                     *)
LEMMA Least ==
    ASSUME NEW T, T \subseteq Nat, T # {}
    PROVE  \E x \in T : \A y \in T : x <= y
<1> DEFINE R == OpToRel(<, Nat)
<1>1. IsWellFoundedOn(R, Nat) BY NatLessThanWellFounded
<1>2. \A x, y \in Nat : y < x => <<y, x>> \in R BY DEF OpToRel
<1> HIDE DEF R
<1>3. PICK x \in T : \A y \in T : ~(<<y, x>> \in R) BY <1>1, WFMin
<1>4. \A y \in T : ~(y < x) BY <1>2, <1>3
<1> QED BY <1>3, <1>4

(***************************** the command line ******************************)

(* The loop over argv is a function of how far it has come.                   *)
Loop(argv, n, f) ==
    f = [k \in 0 .. n |-> IF k = 0 THEN Defaults ELSE ParseArgument(f[k - 1], argv[k])]

LEMMA LoopExists == ASSUME NEW argv, NEW m \in Nat PROVE \E f : Loop(argv, m, f)
<1> DEFINE T == {n \in 0 .. m : ~(\E f : Loop(argv, n, f))}
<1>1. SUFFICES ASSUME T # {} PROVE FALSE
  OBVIOUS
<1>2. PICK n \in T : \A k \in T : n <= k
  <2>1. T \subseteq Nat OBVIOUS
  <2> HIDE DEF T
  <2> QED BY <1>1, <2>1, Least
<1>3. n \in 0 .. m /\ ~(\E f : Loop(argv, n, f))
  OBVIOUS
<1>4. n # 0
  <2> DEFINE f == [k \in 0 .. 0 |-> Defaults]
  <2>1. f = [k \in 0 .. 0 |-> IF k = 0 THEN Defaults ELSE ParseArgument(f[k - 1], argv[k])]
    OBVIOUS
  <2>2. Loop(argv, 0, f)
    <3> HIDE DEF f
    <3> QED BY <2>1 DEF Loop
  <2> QED BY <1>3, <2>2
<1>5. PICK f : Loop(argv, n - 1, f)
  <2>1. n - 1 \in 0 .. m /\ ~(n <= n - 1) BY <1>3, <1>4
  <2>2. n - 1 \notin T BY <1>2, <2>1
  <2> QED BY <2>1, <2>2
<1> DEFINE Round(h, k) == IF k = 0 THEN Defaults ELSE ParseArgument(h[k - 1], argv[k])
           g == [k \in 0 .. n |-> IF k = n THEN Round(f, n) ELSE f[k]]
<1>6. ASSUME NEW k \in 0 .. n PROVE g[k] = Round(g, k)
  <2>1. k = 0 \/ k - 1 \in 0 .. n - 1 BY <1>3
  <2>2. k = 0 \/ g[k - 1] = f[k - 1] BY <1>3, <2>1
  <2>3. Round(g, k) = Round(f, k)
    <3> HIDE DEF g
    <3> QED BY <2>2
  <2>4. CASE k = n BY <2>3, <2>4
  <2>5. CASE k # n
    <3>1. k \in 0 .. n - 1 BY <1>3, <2>5
    <3>2. f[k] = Round(f, k) BY <1>5, <3>1 DEF Loop
    <3> QED BY <2>3, <2>5, <3>2
  <2> QED BY <2>4, <2>5
<1>7. Loop(argv, n, g)
  <2>1. g = [k \in 0 .. n |-> g[k]] OBVIOUS
  <2> HIDE DEF g
  <2>2. g = [k \in 0 .. n |-> Round(g, k)] BY <1>6, <2>1
  <2> QED BY <2>2 DEF Loop
<1> QED BY <1>3, <1>7

LEMMA ParsingIs ==
    ASSUME NEW argv \in Seq(Argument)
    PROVE  /\ Parsing(argv)[0] = Defaults
           /\ \A k \in 1 .. Len(argv) :
                 Parsing(argv)[k] = ParseArgument(Parsing(argv)[k - 1], argv[k])
<1>0. Len(argv) \in Nat BY LenProperties
<1> DEFINE F == CHOOSE f : Loop(argv, Len(argv), f)
<1>1. Loop(argv, Len(argv), F) BY <1>0, LoopExists
<1>2. Parsing(argv) = F BY Zenon DEF Parsing, Loop
<1> HIDE DEF F
<1>3. \A k \in 0 .. Len(argv) : F[k] = IF k = 0 THEN Defaults ELSE ParseArgument(F[k - 1], argv[k])
  BY <1>1 DEF Loop
<1>4. \A k \in 1 .. Len(argv) : k \in 0 .. Len(argv) /\ k # 0 BY <1>0
<1>5. 0 \in 0 .. Len(argv) BY <1>0
<1> QED BY <1>2, <1>3, <1>4, <1>5

(* What an operations argument asks for, alone.                               *)
Of(arg) == {Letters[l] : l \in ToSet(arg.value)}

(* One argument.                                                              *)
LEMMA ParseArgumentSound ==
    ASSUME NEW p \in Parsed, NEW arg \in Argument
    PROVE  /\ ParseArgument(p, arg) \in Parsed
           /\ ParseArgument(p, arg).status = "go" =>
                 /\ p.status = "go"
                 /\ ParseArgument(p, arg).operations =
                       IF arg.option = "ops" THEN Of(arg) ELSE p.operations
<1>1. CASE p.status # "go" BY <1>1 DEF ParseArgument
<1>2. CASE p.status = "go" /\ arg.option = "ops"
  <2>1. arg.value \in Seq(DOMAIN Letters) BY <1>2 DEF Argument
  <2>2. Of(arg) \subseteq Operation
    <3>1. \A l \in ToSet(arg.value) : l \in DOMAIN Letters BY <2>1 DEF ToSet
    <3>2. \A l \in DOMAIN Letters : Letters[l] \in Operation BY DEF Letters, Operation
    <3> QED BY <3>1, <3>2 DEF Of
  <2>3. \/ ParseArgument(p, arg) = [p EXCEPT !.operations = Of(arg)]
        \/ ParseArgument(p, arg) = [p EXCEPT !.status = "error"]
    BY <1>2 DEF ParseArgument, ParseOperations, Of
  <2> QED BY <1>2, <2>2, <2>3 DEF Parsed
<1>3. CASE p.status = "go" /\ arg.option # "ops"
  <2>1. \/ \E s \in {"help", "error"} : ParseArgument(p, arg) = [p EXCEPT !.status = s]
        \/ \E n \in Path : ParseArgument(p, arg) = [p EXCEPT !.input = n]
        \/ \E n \in Path : ParseArgument(p, arg) = [p EXCEPT !.output = n]
        \/ \E n \in Nat : ParseArgument(p, arg) = [p EXCEPT !.key = n]
        \/ \E n \in Nat, s \in {"go", "error"} :
              ParseArgument(p, arg) = [p EXCEPT !.comp_alg = n, !.status = s]
        \/ \E s \in {"go", "error"} : ParseArgument(p, arg) = [p EXCEPT !.status = s]
    <3>1. CASE arg.option \in {"-h", "bad"} \/ arg.value = NoName
      BY <1>3, <3>1 DEF ParseArgument
    <3>2. CASE arg.option \in {"-i", "-o"} /\ arg.value # NoName
      <4>1. arg.value \in Path BY <3>2 DEF Argument
      <4> QED BY <1>3, <3>2, <4>1 DEF ParseArgument
    <3>3. CASE arg.option \in {"-k", "--comp-alg", "--enc-alg"} /\ arg.value # NoName
      <4>1. arg.value \in Nat BY <3>3 DEF Argument
      <4> QED BY <1>3, <3>3, <4>1 DEF ParseArgument
    <3> QED BY <1>3, <3>1, <3>2, <3>3 DEF Argument
  <2> HIDE DEF ParseArgument
  <2> QED BY <1>3, <2>1 DEF Parsed
<1> QED BY <1>1, <1>2, <1>3

(* The operations are those of the last operations argument.                  *)
SaidLast(argv, n, operations) ==
    \/ operations = {} /\ \A i \in 1 .. n : argv[i].option # "ops"
    \/ \E i \in 1 .. n :
          /\ argv[i].option = "ops" /\ operations = Of(argv[i])
          /\ \A j \in i + 1 .. n : argv[j].option # "ops"

LEMMA ParsingSound ==
    ASSUME NEW argv \in Seq(Argument)
    PROVE  \A n \in 0 .. Len(argv) :
              /\ Parsing(argv)[n] \in Parsed
              /\ Parsing(argv)[n].status = "go" =>
                    SaidLast(argv, n, Parsing(argv)[n].operations)
<1> DEFINE Q(n) == /\ Parsing(argv)[n] \in Parsed
                   /\ Parsing(argv)[n].status = "go" =>
                        SaidLast(argv, n, Parsing(argv)[n].operations)
           T == {n \in 0 .. Len(argv) : ~Q(n)}
<1>0. Len(argv) \in Nat BY LenProperties
<1>1. SUFFICES ASSUME T # {} PROVE FALSE
  OBVIOUS
<1>2. PICK n \in T : \A k \in T : n <= k
  <2>1. T \subseteq Nat OBVIOUS
  <2> HIDE DEF T
  <2> QED BY <1>1, <2>1, Least
<1>3. n \in 0 .. Len(argv) /\ ~Q(n)
  OBVIOUS
<1>4. CASE n = 0
  <2>1. Parsing(argv)[0] = Defaults BY ParsingIs
  <2>2. Defaults \in Parsed /\ Defaults.operations = {} BY DEF Defaults, Parsed
  <2>3. SaidLast(argv, 0, {}) BY DEF SaidLast
  <2> QED BY <1>3, <1>4, <2>1, <2>2, <2>3
<1>5. CASE n # 0
  <2> DEFINE p == Parsing(argv)[n - 1]
             q == Parsing(argv)[n]
             arg == argv[n]
  <2>1. n - 1 \in 0 .. Len(argv) /\ n \in 1 .. Len(argv) /\ ~(n <= n - 1)
    BY <1>0, <1>3, <1>5
  <2>2. Q(n - 1)
    <3>1. n - 1 \notin T BY <1>2, <2>1
    <3> QED BY <2>1, <3>1
  <2>3. q = ParseArgument(p, arg) BY <2>1, ParsingIs
  <2>4. arg \in Argument BY <2>1, ElementOfSeq
  <2>5. p \in Parsed /\ (p.status = "go" => SaidLast(argv, n - 1, p.operations)) BY <2>2
  <2> HIDE DEF p, q
  <2>6. q \in Parsed /\ (q.status = "go" =>
           p.status = "go" /\ q.operations = IF arg.option = "ops" THEN Of(arg) ELSE p.operations)
    BY <2>3, <2>4, <2>5, ParseArgumentSound
  <2>7. ASSUME q.status = "go" PROVE SaidLast(argv, n, q.operations)
    <3>1. CASE arg.option = "ops"
      <4>1. \A j \in n + 1 .. n : FALSE BY <2>1
      <4> QED BY <2>1, <2>6, <2>7, <3>1, <4>1 DEF SaidLast
    <3>2. CASE arg.option # "ops"
      <4>1. SaidLast(argv, n - 1, q.operations) BY <2>5, <2>6, <2>7, <3>2
      <4>2. \A i \in 1 .. n : i = n \/ i \in 1 .. n - 1 BY <2>1
      <4>3. CASE q.operations = {} /\ \A i \in 1 .. n - 1 : argv[i].option # "ops"
        BY <3>2, <4>2, <4>3 DEF SaidLast
      <4>4. ASSUME NEW i \in 1 .. n - 1, argv[i].option = "ops", q.operations = Of(argv[i]),
                   \A j \in i + 1 .. n - 1 : argv[j].option # "ops"
            PROVE  SaidLast(argv, n, q.operations)
        <5>1. i \in 1 .. n BY <2>1, <4>4
        <5>2. \A j \in i + 1 .. n : j = n \/ j \in i + 1 .. n - 1 BY <2>1
        <5> QED BY <3>2, <4>4, <5>1, <5>2 DEF SaidLast
      <4> QED BY <4>1, <4>3, <4>4 DEF SaidLast
    <3> QED BY <3>1, <3>2
  <2> QED BY <1>3, <2>6, <2>7 DEF q
<1> QED BY <1>4, <1>5

LEMMA AskedIsLast ==
    ASSUME NEW argv \in Seq(Argument), NEW operations, operations # {},
           SaidLast(argv, Len(argv), operations)
    PROVE  operations = Asked(argv)
<1> DEFINE I == {i \in 1 .. Len(argv) : argv[i].option = "ops"}
<1>0. Len(argv) \in Nat BY LenProperties
<1>1. PICK i \in 1 .. Len(argv) :
         /\ argv[i].option = "ops" /\ operations = Of(argv[i])
         /\ \A j \in i + 1 .. Len(argv) : argv[j].option # "ops"
  BY DEF SaidLast
<1>2. i \in I /\ \A j \in I : i >= j
  <2>1. \A j \in I : j \notin i + 1 .. Len(argv) BY <1>1
  <2>2. \A j \in 1 .. Len(argv) : j \in i + 1 .. Len(argv) \/ i >= j BY <1>0
  <2> QED BY <1>1, <2>1, <2>2
<1>3. I \subseteq Nat OBVIOUS
<1>4. SelectLastInSeq(argv, LAMBDA arg : arg.option = "ops") = IF I # {} THEN Max(I) ELSE 0
  BY Zenon DEF SelectLastInSeq
<1> HIDE DEF I
<1>5. Max(I) = i
  <2>1. \A x \in I : (\A y \in I : x >= y) => x = i BY <1>2, <1>3
  <2> QED BY <1>2, <2>1 DEF Max
<1>6. SelectLastInSeq(argv, LAMBDA arg : arg.option = "ops") = i BY <1>2, <1>4, <1>5
<1> QED BY <1>1, <1>6 DEF Asked, Of

(* parse_arguments: what a line that is accepted asks for.                    *)
LEMMA CommandLine ==
    ASSUME NEW argv \in Seq(Argument)
    PROVE  LET p == ParseArguments(argv)
           IN /\ p \in Parsed
              /\ p.status = "go" =>
                    p.input \in Path /\ Valid(p) /\ p.operations = Asked(argv)
<1> DEFINE q == Parsing(argv)[Len(argv)]
           p == ParseArguments(argv)
<1>0. Len(argv) \in Nat /\ Len(argv) \in 0 .. Len(argv) BY LenProperties
<1>1. q \in Parsed /\ (q.status = "go" => SaidLast(argv, Len(argv), q.operations))
  BY <1>0, ParsingSound
<1>2. p = IF argv = <<>> THEN [q EXCEPT !.status = "help"]
          ELSE IF q.status = "go" /\ ~Valid(q) THEN [q EXCEPT !.status = "error"] ELSE q
  BY DEF ParseArguments
<1> HIDE DEF p, q
<1>3. p \in Parsed BY <1>1, <1>2 DEF Parsed
<1>4. ASSUME p.status = "go" PROVE p.input \in Path /\ Valid(p) /\ p.operations = Asked(argv)
  <2>1. p = q /\ Valid(q) BY <1>1, <1>2, <1>4 DEF Parsed
  <2>2. q.operations # {} /\ q.input # NoName BY <2>1 DEF Valid
  <2>3. q.operations = Asked(argv) BY <1>1, <1>4, <2>1, <2>2, AskedIsLast
  <2> QED BY <1>1, <2>1, <2>2, <2>3 DEF Parsed
<1> QED BY <1>3, <1>4 DEF p

(******************************* the contents ********************************)

(* What comes before a size is always the path of a member.                   *)
Fine(units) == units \in Seq(Unit) /\ NamesMembers(units)
FineFile(c) == c \in Content /\ Fine(c.units)

LEMMA UnitIs ==
    ASSUME NEW kind \in {"magic", "count", "path", "size", "byte", "short", "torn", "junk"},
           NEW val \in Nat
    PROVE  U(kind, val) \in Unit /\ U(kind, val).kind = kind /\ U(kind, val).val = val
BY DEF U, Unit

LEMMA ShortIsFine ==
    ASSUME NEW units \in Seq(Unit), Len(units) <= 1
    PROVE  Fine(units)
<1>1. Len(units) \in Nat BY LenProperties
<1>2. 1 .. Len(units) - 1 = {} BY <1>1
<1> QED BY <1>2 DEF Fine, NamesMembers

LEMMA EmptyIsFine == FineFile(Empty)
<1>1. <<>> \in Seq(Unit) /\ Len(<<>>) <= 1 /\ <<>> \in Seq(Layer) BY EmptySeq
<1>2. Fine(<<>>) BY <1>1, ShortIsFine
<1> QED BY <1>1, <1>2 DEF FineFile, Empty, Content

LEMMA GarbageIsFine == FineFile(Garbage)
<1> DEFINE s == <<U("junk", 0)>>
<1>1. U("junk", 0) \in Unit BY UnitIs
<1>2. s \in Seq(Unit) /\ Len(s) <= 1 BY <1>1
<1>3. <<>> \in Seq(Layer) BY EmptySeq
<1>4. Fine(s) BY <1>2, ShortIsFine
<1> QED BY <1>2, <1>3, <1>4 DEF FineFile, Garbage, Content

LEMMA JoinIsFine ==
    ASSUME NEW s, NEW t, Fine(s), Fine(t), t # <<>> => t[1].kind # "size"
    PROVE  Fine(s \o t)
<1> DEFINE w == s \o t
<1>1. s \in Seq(Unit) /\ t \in Seq(Unit) /\ Len(s) \in Nat /\ Len(t) \in Nat
  BY LenProperties DEF Fine
<1>2. /\ w \in Seq(Unit) /\ Len(w) = Len(s) + Len(t)
      /\ \A i \in 1 .. Len(s) + Len(t) : w[i] = IF i <= Len(s) THEN s[i] ELSE t[i - Len(s)]
  BY <1>1, ConcatProperties
<1>3. ASSUME NEW i \in 1 .. Len(w) - 1, w[i + 1].kind = "size" PROVE w[i].val \in Member
  <2>1. CASE i + 1 <= Len(s)
    <3>1. w[i] = s[i] /\ w[i + 1] = s[i + 1] /\ i \in 1 .. Len(s) - 1 BY <1>1, <1>2, <2>1
    <3> QED BY <1>3, <3>1 DEF Fine, NamesMembers
  <2>2. CASE i = Len(s)
    <3>1. w[i + 1] = t[1] /\ t # <<>> BY <1>1, <1>2, <2>2
    <3> QED BY <1>3, <3>1
  <2>3. CASE i > Len(s)
    <3> DEFINE j == i - Len(s)
    <3>1. w[i] = t[j] /\ w[i + 1] = t[j + 1] /\ j \in 1 .. Len(t) - 1 BY <1>1, <1>2, <2>3
    <3> HIDE DEF j
    <3> QED BY <1>3, <3>1 DEF Fine, NamesMembers
  <2> QED BY <1>1, <2>1, <2>2, <2>3
<1> HIDE DEF w
<1>4. Fine(w) BY <1>2, <1>3 DEF Fine, NamesMembers
<1> QED BY <1>4 DEF w

LEMMA AppendIsFine ==
    ASSUME NEW s, NEW u \in Unit, Fine(s), u.kind # "size"
    PROVE  Fine(s \o <<u>>) /\ Fine(Append(s, u))
<1>1. <<u>> \in Seq(Unit) /\ Len(<<u>>) <= 1 /\ <<u>>[1] = u OBVIOUS
<1>2. Fine(<<u>>) BY <1>1, ShortIsFine
<1>3. Fine(s \o <<u>>) BY <1>1, <1>2, JoinIsFine
<1>4. Append(s, u) = s \o <<u>>
  <2>1. s \in Seq(Unit) BY DEF Fine
  <2>2. u \in Unit OBVIOUS
  <2> QED BY <2>1, <2>2, AppendIsConcat
<1> QED BY <1>3, <1>4

LEMMA PartIsFine ==
    ASSUME NEW s, Fine(s), NEW m \in Nat \ {0}, NEW n \in Nat, n <= Len(s)
    PROVE  /\ Fine(SubSeq(s, m, n))
           /\ Len(SubSeq(s, m, n)) = IF m <= n THEN n - m + 1 ELSE 0
<1> DEFINE w == SubSeq(s, m, n)
<1>1. s \in Seq(Unit) /\ Len(s) \in Nat BY LenProperties DEF Fine
<1>2. \A i \in m .. n : s[i] \in Unit BY <1>1, ElementOfSeq
<1>3. /\ w \in Seq(Unit) /\ Len(w) = IF m <= n THEN n - m + 1 ELSE 0
      /\ \A i \in 1 .. n - m + 1 : w[i] = s[m + i - 1]
  <2>1. m \in Int /\ n \in Int OBVIOUS
  <2>2. w \in Seq(Unit) BY <1>2, <2>1, SubSeqProperties
  <2>3. Len(w) = IF m <= n THEN n - m + 1 ELSE 0 BY <1>2, <2>1, SubSeqProperties
  <2>4. \A i \in 1 .. n - m + 1 : w[i] = s[m + i - 1] BY <1>2, <2>1, SubSeqProperties
  <2> HIDE DEF w
  <2> QED BY <2>2, <2>3, <2>4
<1>4. ASSUME NEW i \in 1 .. Len(w) - 1, w[i + 1].kind = "size" PROVE w[i].val \in Member
  <2> DEFINE j == m + i - 1
  <2>1. w[i] = s[j] /\ w[i + 1] = s[j + 1] /\ j \in 1 .. Len(s) - 1 BY <1>1, <1>3
  <2> HIDE DEF j
  <2> QED BY <1>4, <2>1 DEF Fine, NamesMembers
<1> HIDE DEF w
<1>5. Fine(w) BY <1>3, <1>4 DEF Fine, NamesMembers
<1> QED BY <1>3, <1>5 DEF w

LEMMA CutIsFine ==
    ASSUME NEW s, Fine(s), NEW mark \in {"torn", "short"}, NEW cut \in CutUnits(s, mark)
    PROVE  Fine(cut)
<1>1. Len(s) \in Nat BY LenProperties DEF Fine
<1>2. PICK n \in 0 .. Len(s) - 1 : cut \in {SubSeq(s, 1, n), SubSeq(s, 1, n) \o <<U(mark, 0)>>}
  BY DEF CutUnits
<1>3. Fine(SubSeq(s, 1, n)) BY <1>1, PartIsFine
<1>4. U(mark, 0) \in Unit /\ U(mark, 0).kind # "size" BY UnitIs
<1> QED BY <1>2, <1>3, <1>4, AppendIsFine

LEMMA LayersAreFine ==
    ASSUME NEW c, FineFile(c), NEW l \in Layer
    PROVE  /\ FineFile(Pushed(c, l)) /\ Pushed(c, l) # Empty
           /\ c.layers # <<>> => FineFile(Popped(c))
           /\ FineFile([c EXCEPT !.units = <<>>])
<1>0. c \in Content /\ c.layers \in Seq(Layer) /\ c.units \in Seq(Unit)
  BY DEF FineFile, Content
<1>1. <<l>> \in Seq(Layer) /\ Len(<<l>>) = 1 OBVIOUS
<1>2. <<l>> \o c.layers \in Seq(Layer) /\ <<l>> \o c.layers # <<>>
  BY <1>0, <1>1, ConcatProperties, ConcatEqualIffEmpty
<1>3. FineFile(Pushed(c, l)) /\ Pushed(c, l) # Empty
  BY <1>0, <1>2 DEF Pushed, Empty, FineFile, Content
<1>4. ASSUME c.layers # <<>> PROVE FineFile(Popped(c))
  <2>1. Tail(c.layers) \in Seq(Layer) BY <1>0, <1>4, HeadTailProperties
  <2> QED BY <1>0, <2>1 DEF Popped, FineFile, Content
<1>5. FineFile([c EXCEPT !.units = <<>>])
  <2>1. Fine(<<>>) BY EmptyIsFine DEF FineFile, Empty
  <2> QED BY <1>0, <2>1 DEF FineFile, Content, Fine
<1> QED BY <1>3, <1>4, <1>5

LEMMA XorIsFine ==
    ASSUME NEW c, FineFile(c)
    PROVE  FineFile(XorUnit(c, 0))
<1> DEFINE l == [kind |-> "xor", arg |-> 0]
<1>1. l \in Layer BY DEF Layer
<1>2. XorUnit(c, 0) = Pushed(c, l) \/ (c.layers # <<>> /\ XorUnit(c, 0) = Popped(c))
  BY DEF XorUnit, Outermost
<1> HIDE DEF l
<1> QED BY <1>1, <1>2, LayersAreFine

LEMMA StageIsFine ==
    ASSUME NEW c, FineFile(c), NEW alg \in Nat, NEW stage, NEW x \in StageResults(stage, alg, c)
    PROVE  FineFile(x)
<1>1. CodecLayer(alg) \in Layer BY DEF CodecLayer, Layer
<1>2. CASE stage = "STAGE_COMPRESS"
  <2>1. x = Pushed(c, CodecLayer(alg)) BY <1>2 DEF StageResults
  <2> QED BY <1>1, <2>1, LayersAreFine
<1>3. CASE stage = "STAGE_DECOMPRESS"
  <2>1. (c.layers # <<>> /\ x = Popped(c)) \/ x = Garbage
    BY <1>3 DEF StageResults, Decompressed, IsStream
  <2> QED BY <1>1, <2>1, LayersAreFine, GarbageIsFine
<1>4. CASE stage \in {"STAGE_ENCRYPT", "STAGE_DECRYPT"}
  <2>1. x = c \/ x = XorUnit(c, 0) BY <1>4 DEF StageResults
  <2> QED BY <2>1, XorIsFine
<1>5. CASE stage \notin {"STAGE_COMPRESS", "STAGE_DECOMPRESS", "STAGE_ENCRYPT", "STAGE_DECRYPT"}
  <2>1. x = c BY <1>5 DEF StageResults
  <2> QED BY <2>1
<1> QED BY <1>2, <1>3, <1>4, <1>5

LEMMA ResultsAreFine ==
    ASSUME NEW c, FineFile(c), NEW alg \in Nat, NEW operations, NEW x \in Results(operations, alg, c)
    PROVE  FineFile(x)
<1> DEFINE stages == Stages(operations)
<1>1. \/ x \in StageResults(stages[1], alg, c)
      \/ \E y \in StageResults(stages[1], alg, c) : x \in StageResults(stages[2], alg, y)
  BY DEF Results
<1> HIDE DEF stages
<1> QED BY <1>1, StageIsFine

LEMMA BegunIsFine ==
    ASSUME NEW c, FineFile(c), NEW x \in Begun(c)
    PROVE  FineFile(x)
<1> DEFINE streams == {i \in 1 .. Len(c.layers) : c.layers[i].kind = "codec"}
           mark == IF streams = {} THEN "short" ELSE "torn"
           headers == {i \in streams : \A j \in streams : i <= j}
<1>0. CASE x = Empty BY <1>0, EmptyIsFine
<1>1. CASE \E cut \in CutUnits(c.units, mark) : x = [c EXCEPT !.units = cut]
  <2>1. PICK cut \in CutUnits(c.units, mark) : x = [c EXCEPT !.units = cut] BY <1>1
  <2>2. mark \in {"torn", "short"} OBVIOUS
  <2> HIDE DEF mark
  <2>3. Fine(cut) BY <2>1, <2>2, CutIsFine DEF FineFile
  <2> QED BY <2>1, <2>3 DEF FineFile, Content, Fine
<1>2. CASE \E i \in headers : x = [Garbage EXCEPT !.layers = SubSeq(c.layers, 1, i - 1)]
  <2>1. PICK i \in 1 .. Len(c.layers) : x = [Garbage EXCEPT !.layers = SubSeq(c.layers, 1, i - 1)]
    BY <1>2
  <2>2. c.layers \in Seq(Layer) /\ Len(c.layers) \in Nat BY LenProperties DEF FineFile, Content
  <2>3. \A j \in 1 .. i - 1 : c.layers[j] \in Layer BY <2>1, <2>2, ElementOfSeq
  <2>4. SubSeq(c.layers, 1, i - 1) \in Seq(Layer) BY <2>1, <2>2, <2>3, SubSeqProperties
  <2> QED BY <2>1, <2>4, GarbageIsFine DEF FineFile, Content, Garbage
<1>3. x \in {Empty} \cup {[c EXCEPT !.units = cut] : cut \in CutUnits(c.units, mark)}
          \cup {[Garbage EXCEPT !.layers = SubSeq(c.layers, 1, i - 1)] : i \in headers}
  BY DEF Begun
<1> QED BY <1>0, <1>1, <1>2, <1>3

(* What the archive still has of an entry are bytes.                          *)
LEMMA AvailableBytes ==
    ASSUME NEW r, work[r].size \in Nat, work[r].units \in Seq(Unit)
    PROVE  /\ Available(r) \in Seq(Nat)
           /\ Len(Available(r)) <= work[r].size /\ Len(Available(r)) <= Len(work[r].units)
           /\ \A i \in 1 .. Len(Available(r)) :
                 work[r].units[i].kind = "byte" /\ Available(r)[i] = work[r].units[i].val
<1> DEFINE rest == work[r].units
           size == work[r].size
           there == {n \in 0 .. size : n <= Len(rest) /\ \A i \in 1 .. n : rest[i].kind = "byte"}
           short == {size - n : n \in there}
           most == CHOOSE n \in there : \A k \in there : k <= n
<1>1. Len(rest) \in Nat BY LenProperties
<1>2. there \subseteq 0 .. size /\ 0 \in there /\ \A n \in there : n <= Len(rest) BY <1>1
<1> HIDE DEF there
<1>3. short \subseteq Nat /\ short # {} BY <1>2
<1>4. \E n \in there : \A k \in there : k <= n
  <2>1. PICK x \in short : \A y \in short : x <= y
    <3> HIDE DEF short
    <3> QED BY <1>3, Least
  <2>2. PICK n \in there : x = size - n BY <2>1
  <2>3. \A k \in there : size - n <= size - k BY <2>1, <2>2
  <2>4. \A k \in there : k <= n BY <1>2, <2>3
  <2> QED BY <2>4
<1>5. most \in there BY <1>4
<1>10. \A n \in there : \A i \in 1 .. n : rest[i].kind = "byte" BY DEF there
<1>6. Available(r) = [i \in 1 .. most |-> rest[i].val] BY Zenon DEF Available, there
<1> HIDE DEF most
<1>7. most \in Nat /\ most <= size /\ most <= Len(rest) BY <1>2, <1>5
<1>8. \A i \in 1 .. most : rest[i].val \in Nat
  <2>1. \A i \in 1 .. most : i \in 1 .. Len(rest) BY <1>1, <1>7
  <2>2. \A i \in 1 .. most : rest[i] \in Unit BY <2>1, ElementOfSeq
  <2> QED BY <2>2 DEF Unit
<1>9. Available(r) \in Seq(Nat) /\ Len(Available(r)) = most BY <1>6, <1>7, <1>8
<1>11. \A i \in 1 .. most : rest[i].kind = "byte" /\ Available(r)[i] = rest[i].val
  BY <1>5, <1>6, <1>10
<1> QED BY <1>7, <1>9, <1>11

LEMMA PutBytes ==
    ASSUME NEW body \in Seq(Nat), NEW old \in Seq(Nat)
    PROVE  Put(body, old) \in Seq(Nat)
<1>1. Len(body) \in Nat /\ Len(old) \in Nat BY LenProperties
<1>2. \A i \in Len(body) + 1 .. Len(old) : old[i] \in Nat BY <1>1, ElementOfSeq
<1>3. SubSeq(old, Len(body) + 1, Len(old)) \in Seq(Nat) BY <1>1, <1>2, SubSeqProperties
<1> QED BY <1>3, ConcatProperties DEF Put

Label == {"idle"} \cup Busy \cup Ended

(* Where a run has no temporary: before mkstemp, after its return, and all    *)
(* the time it handles a single file, the one it fell back to included.       *)
Free == {"idle", "dispatch", "name", "mktemp", "returned"}

Types ==
    /\ file = [n \in Name |-> file[n]]
    /\ pc \in [Run -> Label]
    /\ call \in [Run -> Call]
    /\ temp \in [Run -> TempName \cup {NoName}]
    /\ plan \in Planned

Held(r) == pc[r] \in Free \/ call[r].mode = "file" => temp[r] = NoName

(* Whatever name may have to be made up exists.                               *)
Nameable(c) ==
    ~c.named => /\ c.input \in Path
                /\ \A parts \in MadeUpParts(c.input, c.operations) :
                      \E n \in Path : IsNamed(n, parts)

Given(r) ==
    /\ call[r].output \notin TempName /\ Nameable(call[r])
    /\ pc[r] = "dispatch" => call[r].input \in Path
    /\ pc[r] = "name" => call[r].mode \in {"file", "pack", "unpack"}
    /\ pc[r] = "mktemp" => call[r].mode \in {"pack", "unpack"}

Inv == Types /\ (\A r \in Run : Held(r) /\ Given(r)) /\ TempsAreCleared

(* What most steps of r do to what Inv speaks of: they move to a label where  *)
(* r may have a temporary.                                                    *)
Moves(r, label) ==
    /\ label \in Label \ Free
    /\ pc' = [pc EXCEPT ![r] = label]
    /\ UNCHANGED <<call, temp, plan>>

Labels == {"idle", "dispatch", "name", "mktemp", "returned", "killed", "pipe", "writing",
           "growing", "rmtemp", "list", "open", "entry", "openentry", "copy", "drop",
           "header", "checkdir", "mkdir", "next", "create", "fill"}

LEMMA LabelsListed == Label = Labels
BY DEF Label, Labels, Busy, Ended, PackLabels, UnpackLabels

LEMMA NoNameIsNoTemp == NoName \notin TempName
BY ArchiveAssumption

(* Such a step, if it changes no temporary but its own, preserves Inv.        *)
LEMMA MovesPreserve ==
    ASSUME NEW r \in Run, NEW label, Inv, Moves(r, label),
           file' = [n \in Name |-> file'[n]],
           \A t \in TempName : t # temp[r] => file'[t] = file[t]
    PROVE  Inv'
<1>1. Types'
  BY DEF Inv, Types, Moves
<1>2. \A s \in Run : Held(s)' /\ Given(s)'
  <2> SUFFICES ASSUME NEW s \in Run PROVE Held(s)' /\ Given(s)'
    OBVIOUS
  <2>1. Held(s) /\ Given(s) /\ pc \in [Run -> Label]
    BY DEF Inv, Types
  <2>2. CASE s = r
    BY <2>1, <2>2 DEF Moves, Held, Given, Free
  <2>3. CASE s # r
    BY <2>1, <2>3 DEF Moves, Held, Given
  <2> QED BY <2>2, <2>3
<1>3. TempsAreCleared'
  <2> SUFFICES ASSUME NEW t \in TempName, file'[t] # NoFile
               PROVE  \E s \in Run : HasTemp(s)' /\ temp'[s] = t
    BY DEF TempsAreCleared
  <2>1. pc \in [Run -> Label] /\ temp' = temp /\ pc' = [pc EXCEPT ![r] = label]
    BY DEF Inv, Types, Moves
  <2>2. CASE t = temp[r]
    BY <2>1, <2>2 DEF Moves, HasTemp, Free
  <2>3. CASE t # temp[r]
    <3>1. PICK s \in Run : HasTemp(s) /\ temp[s] = t
      BY <2>3 DEF Inv, TempsAreCleared
    <3>2. HasTemp(s)'
      BY <2>1, <3>1, <2>3 DEF HasTemp
    <3> QED BY <2>1, <3>1, <3>2
  <2> QED BY <2>2, <2>3
<1> QED BY <1>1, <1>2, <1>3 DEF Inv

(* A return from a function of archive.c, or of execute_file_pipeline on a    *)
(* single file, that leaves r without a temporary.                            *)
LEMMA ReturnPreserves ==
    ASSUME NEW r \in Run, NEW status, Inv, Return(r, status),
           pc[r] \in Label \ {"idle", "dispatch", "name"},
           file' = [n \in Name |-> file'[n]],
           \A t \in TempName : t # temp[r] => file'[t] = file[t],
           temp[r] # NoName => file'[temp[r]] = NoFile,
           temp' = [temp EXCEPT ![r] = NoName],
           plan' = plan
    PROVE  Inv'
<1> USE DEF Ends, Goto
<1>1. Types /\ Held(r) /\ Given(r)
  BY DEF Inv
<1>2. \/ pc' = [pc EXCEPT ![r] = "name"] /\ call'[r].mode = "file"
      \/ pc' = [pc EXCEPT ![r] = "returned"]
  BY <1>1 DEF Return, Types, Call
<1>3. \/ call' = call
      \/ call' = [call EXCEPT ![r] = [call[r] EXCEPT !.mode = "file", !.fallback = FALSE]]
  BY <1>1 DEF Return, Types
<1>4. call' \in [Run -> Call] /\ call'[r].output = call[r].output
      /\ UNCHANGED <<call[r].input, call[r].operations, call[r].named>>
      /\ \A s \in Run : s # r => call'[s] = call[s]
  <2>1. call \in [Run -> Call] BY <1>1 DEF Types
  <2>2. CASE call' = call BY <2>1, <2>2
  <2>3. CASE call' = [call EXCEPT ![r] = [call[r] EXCEPT !.mode = "file", !.fallback = FALSE]]
    <3> DEFINE c == [call[r] EXCEPT !.mode = "file", !.fallback = FALSE]
    <3>1. call[r] \in Call BY <2>1
    <3>2. /\ c \in Call /\ c.output = call[r].output /\ c.input = call[r].input
          /\ c.operations = call[r].operations /\ c.named = call[r].named
      BY <3>1 DEF Call, Mode
    <3>3. call' = [call EXCEPT ![r] = c] BY <2>3
    <3> HIDE DEF c
    <3> QED BY <2>1, <3>2, <3>3
  <2> QED BY <1>3, <2>2, <2>3
<1>5. Types'
  <2>1. "name" \in Label /\ "returned" \in Label
    BY LabelsListed DEF Labels
  <2> QED BY <1>1, <1>2, <1>4, <2>1 DEF Types
<1>6. \A s \in Run : Held(s)' /\ Given(s)'
  <2> SUFFICES ASSUME NEW s \in Run PROVE Held(s)' /\ Given(s)'
    OBVIOUS
  <2>1. Held(s) /\ Given(s)
    BY DEF Inv
  <2>2. CASE s = r
    BY <1>1, <1>2, <1>4, <2>2 DEF Held, Given, Nameable, Types
  <2>3. CASE s # r
    BY <1>1, <1>2, <1>4, <2>1, <2>3 DEF Held, Given, Types
  <2> QED BY <2>2, <2>3
<1>7. TempsAreCleared'
  <2> SUFFICES ASSUME NEW t \in TempName, file'[t] # NoFile
               PROVE  \E s \in Run : HasTemp(s)' /\ temp'[s] = t
    BY DEF TempsAreCleared
  <2>1. t # temp[r]
    BY NoNameIsNoTemp
  <2>2. PICK s \in Run : HasTemp(s) /\ temp[s] = t
    BY <2>1 DEF Inv, TempsAreCleared
  <2>3. s # r
    BY <2>1, <2>2
  <2>4. HasTemp(s)' /\ temp'[s] = t
    BY <1>1, <1>2, <2>2, <2>3 DEF HasTemp, Types
  <2> QED BY <2>4
<1> QED BY <1>5, <1>6, <1>7 DEF Inv

(* Where a run that has no temporary takes up a call.                         *)
LEMMA StartPreserves ==
    ASSUME NEW r \in Run, NEW c \in Call, NEW label \in Label, Inv,
           pc[r] \in Free, c.output \notin TempName, Nameable(c),
           label = "dispatch" => c.input \in Path,
           label = "name" => c.mode \in {"file", "pack", "unpack"},
           label = "mktemp" => c.mode \in {"pack", "unpack"},
           call' = [call EXCEPT ![r] = c], pc' = [pc EXCEPT ![r] = label],
           UNCHANGED <<file, temp, plan>>
    PROVE  Inv'
<1>1. Types /\ Held(r) /\ temp[r] = NoName
  BY DEF Inv, Held
<1>2. Types'
  BY <1>1 DEF Types
<1>3. \A s \in Run : Held(s)' /\ Given(s)'
  <2> SUFFICES ASSUME NEW s \in Run PROVE Held(s)' /\ Given(s)'
    OBVIOUS
  <2>1. Held(s) /\ Given(s)
    BY DEF Inv
  <2>2. CASE s = r
    BY <1>1, <2>2 DEF Held, Given, Types
  <2>3. CASE s # r
    BY <1>1, <2>1, <2>3 DEF Held, Given, Types
  <2> QED BY <2>2, <2>3
<1>4. TempsAreCleared'
  <2> SUFFICES ASSUME NEW t \in TempName, file[t] # NoFile
               PROVE  \E s \in Run : HasTemp(s)' /\ temp[s] = t
    BY DEF TempsAreCleared
  <2>1. PICK s \in Run : HasTemp(s) /\ temp[s] = t
    BY DEF Inv, TempsAreCleared
  <2>2. s # r
    BY <1>1, <2>1, NoNameIsNoTemp
  <2>3. HasTemp(s)'
    BY <1>1, <2>1, <2>2 DEF HasTemp, Types
  <2> QED BY <2>1, <2>3
<1> QED BY <1>2, <1>3, <1>4 DEF Inv

(* mkstemp gives r a name that no file has.                                   *)
LEMMA MakeTempPreserves ==
    ASSUME NEW r \in Run, Inv, MakeTemp(r), plan' = plan
    PROVE  Inv'
<1>1. Types /\ Given(r) /\ pc[r] = "mktemp" /\ call' = call
  BY DEF Inv, MakeTemp
<1>2. PICK t \in TempName :
         file' = [file EXCEPT ![t] = Empty] /\ temp' = [temp EXCEPT ![r] = t]
  BY DEF MakeTemp
<1>3. pc' = [pc EXCEPT ![r] = "list"] \/ pc' = [pc EXCEPT ![r] = "pipe"]
  BY DEF MakeTemp, Goto
<1>4. Types'
  <2>1. "pipe" \in Label /\ "list" \in Label
    BY LabelsListed DEF Labels
  <2> QED BY <1>1, <1>2, <1>3, <2>1 DEF Types
<1>5. \A s \in Run : Held(s)' /\ Given(s)'
  <2> SUFFICES ASSUME NEW s \in Run PROVE Held(s)' /\ Given(s)'
    OBVIOUS
  <2>1. Held(s) /\ Given(s)
    BY DEF Inv
  <2>2. CASE s = r
    BY <1>1, <1>3, <2>2 DEF Held, Given, Types, Free
  <2>3. CASE s # r
    BY <1>1, <1>2, <1>3, <2>1, <2>3 DEF Held, Given, Types
  <2> QED BY <2>2, <2>3
<1>6. TempsAreCleared'
  <2> SUFFICES ASSUME NEW u \in TempName, file'[u] # NoFile
               PROVE  \E s \in Run : HasTemp(s)' /\ temp'[s] = u
    BY DEF TempsAreCleared
  <2>1. CASE u = t
    BY <1>1, <1>2, <1>3, <2>1 DEF HasTemp, Types
  <2>2. CASE u # t
    <3>1. PICK s \in Run : HasTemp(s) /\ temp[s] = u
      BY <1>2, <2>2 DEF Inv, TempsAreCleared
    <3>2. s # r
      BY <1>1, <3>1 DEF HasTemp
    <3> QED BY <1>1, <1>2, <1>3, <3>1, <3>2 DEF HasTemp, Types
  <2> QED BY <2>1, <2>2
<1> QED BY <1>4, <1>5, <1>6 DEF Inv

(* The steps that change no file, and go on with the call.                    *)
LEMMA QuietStepsPreserve ==
    ASSUME NEW r \in Run, Inv, plan' = plan,
           \/ ListDirectory(r)
           \/ StatEntry(r)
           \/ OpenEntry(r)
           \/ CopyEntry(r)
           \/ PackFault(r)
           \/ ReadHeader(r)
           \/ CheckDirectory(r)
           \/ MakeDirectory(r)
           \/ NextEntry(r)
           \/ CreateMember(r)
           \/ FillMember(r)
           \/ FillFault(r)
           \/ UnpackFault(r)
    PROVE  Inv'
<1> USE DEF fs, Ends, Goto, Made
<1>1. file' = file /\ UNCHANGED <<call, temp, plan>>
  BY DEF ListDirectory, StatEntry, OpenEntry, CopyEntry, PackFault, ReadHeader,
     CheckDirectory, MakeDirectory, NextEntry, CreateMember, FillMember, FillFault,
     UnpackFault, SetMember
<1>2. \E label \in Label \ Free : pc' = [pc EXCEPT ![r] = label]
  <2>1. CASE ListDirectory(r)
    BY <2>1, LabelsListed DEF ListDirectory, Labels, Free
  <2>2. CASE StatEntry(r)
    BY <2>2, LabelsListed DEF StatEntry, Labels, Free
  <2>3. CASE OpenEntry(r)
    BY <2>3, LabelsListed DEF OpenEntry, Labels, Free
  <2>4. CASE CopyEntry(r)
    <3>1. pc = [pc EXCEPT ![r] = pc[r]] /\ pc[r] = "copy"
      BY <2>4 DEF CopyEntry, Inv, Types
    <3> QED BY <2>4, <3>1, LabelsListed DEF CopyEntry, Labels, Free
  <2>5. CASE PackFault(r)
    BY <2>5, LabelsListed DEF PackFault, Labels, Free
  <2>6. CASE ReadHeader(r)
    BY <2>6, LabelsListed DEF ReadHeader, Labels, Free
  <2>7. CASE CheckDirectory(r)
    BY <2>7, LabelsListed DEF CheckDirectory, Labels, Free
  <2>8. CASE MakeDirectory(r)
    BY <2>8, LabelsListed DEF MakeDirectory, Labels, Free
  <2>9. CASE NextEntry(r)
    BY <2>9, LabelsListed DEF NextEntry, Labels, Free
  <2>10. CASE CreateMember(r)
    BY <2>10, LabelsListed DEF CreateMember, Labels, Free
  <2>11. CASE FillMember(r)
    BY <2>11, LabelsListed DEF FillMember, Labels, Free
  <2>12. CASE FillFault(r)
    BY <2>12, LabelsListed DEF FillFault, Labels, Free
  <2>13. CASE UnpackFault(r)
    BY <2>13, LabelsListed DEF UnpackFault, Labels, Free
  <2> QED BY <2>1, <2>2, <2>3, <2>4, <2>5, <2>6, <2>7, <2>8, <2>9, <2>10, <2>11, <2>12, <2>13
<1>3. file = [n \in Name |-> file[n]]
  BY DEF Inv, Types
<1> QED BY <1>1, <1>2, <1>3, MovesPreserve DEF Moves

(* The steps that write or remove their own temporary.                        *)
LEMMA TempStepsPreserve ==
    ASSUME NEW r \in Run, Inv, plan' = plan,
           OpenArchive(r) \/ CloseArchive(r) \/ DropArchive(r)
    PROVE  Inv'
<1> USE DEF fs, Goto
<1>1. UNCHANGED <<call, temp, plan>>
  BY DEF OpenArchive, CloseArchive, DropArchive
<1>2. \E c : file' = file \/ file' = [file EXCEPT ![temp[r]] = c]
  BY DEF OpenArchive, CloseArchive, DropArchive, Unlink
<1>3. file' = [n \in Name |-> file'[n]] /\ \A t \in TempName : t # temp[r] => file'[t] = file[t]
  BY <1>2, ArchiveAssumption DEF Inv, Types
<1>4. \E label \in Label \ Free : pc' = [pc EXCEPT ![r] = label]
  BY LabelsListed DEF OpenArchive, CloseArchive, DropArchive, Labels, Free
<1> QED BY <1>1, <1>3, <1>4, MovesPreserve DEF Moves

(* No call but an unpack writes a temporary, and that one writes its own.     *)
LEMMA TargetIsOwn ==
    ASSUME NEW r \in Run, Inv
    PROVE  Target(r) \in TempName => Target(r) = temp[r]
BY DEF Inv, Given, Target

(* PipelineReturns, after any of the three ends of a call.                    *)
LEMMA PipelineReturnPreserves ==
    ASSUME NEW r \in Run, NEW status, Inv, PipelineReturns(r, status),
           pc[r] \in {"pipe", "writing", "growing"},
           file' = [n \in Name |-> file'[n]],
           \A t \in TempName : t # temp[r] => file'[t] = file[t],
           temp' = temp, plan' = plan
    PROVE  Inv'
<1>1. CASE call[r].mode = "file"
  <2>1. temp[r] = NoName /\ temp' = [temp EXCEPT ![r] = NoName]
    BY <1>1 DEF Inv, Held, Types
  <2>2. pc[r] \in Label \ {"idle", "dispatch", "name"}
    BY LabelsListed DEF Labels
  <2>3. Return(r, status)
    BY <1>1 DEF PipelineReturns
  <2> QED BY <2>1, <2>2, <2>3, ReturnPreserves
<1>2. CASE call[r].mode # "file"
  <2>1. \E label \in Label \ Free : pc' = [pc EXCEPT ![r] = label]
    BY <1>2, LabelsListed DEF PipelineReturns, Ends, Goto, Labels, Free
  <2>2. call' = call
    BY <1>2 DEF PipelineReturns
  <2> QED BY <2>1, <2>2, MovesPreserve DEF Moves
<1> QED BY <1>1, <1>2

LEMMA PipelineStepsPreserve ==
    ASSUME NEW r \in Run, Inv, plan' = plan,
           \/ PipelineOpens(r) \/ PipelineTruncates(r)
           \/ PipelineOk(r) \/ PipelineRefuses(r) \/ PipelineFails(r)
    PROVE  Inv'
<1>1. file = [n \in Name |-> file[n]] /\ TempName \subseteq Name
  BY ArchiveAssumption DEF Inv, Types
<1>2. ASSUME NEW c, file' = file \/ file' = [file EXCEPT ![Target(r)] = c]
      PROVE  /\ file' = [n \in Name |-> file'[n]]
             /\ \A t \in TempName : t # temp[r] => file'[t] = file[t]
  BY <1>1, <1>2, TargetIsOwn
<1>3. CASE PipelineOpens(r)
  <2>1. \E c : file' = [file EXCEPT ![Target(r)] = c]
    BY <1>3 DEF PipelineOpens
  <2>2. \E label \in Label \ Free : pc' = [pc EXCEPT ![r] = label]
    BY <1>3, LabelsListed DEF PipelineOpens, Goto, Labels, Free
  <2>3. UNCHANGED <<call, temp, plan>>
    BY <1>3 DEF PipelineOpens
  <2> QED BY <1>2, <2>1, <2>2, <2>3, MovesPreserve DEF Moves
<1>4. CASE PipelineOk(r)
  <2>1. \E c : file' = file \/ file' = [file EXCEPT ![Target(r)] = c]
    BY <1>4 DEF PipelineOk, Writes
  <2>2. PipelineReturns(r, 0) /\ temp' = temp /\ pc[r] = "writing"
    BY <1>4 DEF PipelineOk
  <2> QED BY <1>2, <2>1, <2>2, PipelineReturnPreserves
<1>5. CASE PipelineRefuses(r) \/ PipelineFails(r)
  <2>1. file' = file /\ temp' = temp /\ PipelineReturns(r, -1)
        /\ pc[r] \in {"pipe", "writing", "growing"}
    BY <1>5 DEF PipelineRefuses, PipelineFails, fs
  <2> QED BY <1>1, <2>1, PipelineReturnPreserves
<1>6. CASE PipelineTruncates(r)
  <2>1. (\E c : file' = [file EXCEPT ![Target(r)] = c]) /\ temp' = temp
        /\ PipelineReturns(r, -1) /\ pc[r] = "pipe"
    BY <1>6 DEF PipelineTruncates
  <2> QED BY <1>2, <2>1, PipelineReturnPreserves
<1> QED BY <1>3, <1>4, <1>5, <1>6

(* The two steps that return to execute_operations without a temporary.       *)
LEMMA ReturnStepsPreserve ==
    ASSUME NEW r \in Run, Inv, plan' = plan, TempFails(r) \/ RemoveTemp(r)
    PROVE  Inv'
<1>1. Types /\ Held(r) /\ TempName \subseteq Name
  BY ArchiveAssumption DEF Inv
<1>2. pc[r] \in Label \ {"idle", "dispatch", "name"}
  BY LabelsListed DEF TempFails, RemoveTemp, Labels
<1>3. CASE TempFails(r)
  <2>1. file' = file /\ temp' = temp /\ Return(r, -1) /\ temp[r] = NoName
    BY <1>1, <1>3 DEF TempFails, fs, Held, Free
  <2>2. temp' = [temp EXCEPT ![r] = NoName] /\ file' = [n \in Name |-> file'[n]]
    BY <1>1, <2>1 DEF Types
  <2> QED BY <1>2, <2>1, <2>2, ReturnPreserves
<1>4. CASE RemoveTemp(r)
  <2>1. /\ file' = [file EXCEPT ![temp[r]] = NoFile]
        /\ temp' = [temp EXCEPT ![r] = NoName]
        /\ Return(r, result[r])
    BY <1>4 DEF RemoveTemp, Unlink
  <2>2. file' = [n \in Name |-> file'[n]]
    BY <1>1, <2>1 DEF Types
  <2>3. \A t \in TempName : t # temp[r] => file'[t] = file[t]
    BY <1>1, <2>1 DEF Types
  <2>4. temp[r] # NoName => file'[temp[r]] = NoFile
    BY <1>1, <2>1 DEF Types
  <2> QED BY <1>2, <2>1, <2>2, <2>3, <2>4, ReturnPreserves
<1> QED BY <1>3, <1>4

(* The names made up for an output are those of no temporaries.               *)
LEMMA NamedIsAName ==
    ASSUME NEW parts, \E n \in Path : IsNamed(n, parts)
    PROVE  IsNamed(Named(parts), parts) /\ Named(parts) \in Path
BY DEF Named, IsNamed

LEMMA MadeUpIsAName ==
    ASSUME NEW c, Nameable(c), ~c.named, NEW n \in MadeUpNames(c.input, c.operations)
    PROVE  n \in Path
<1>1. PICK parts \in MadeUpParts(c.input, c.operations) : n = Named(parts) BY DEF MadeUpNames
<1> QED BY <1>1, NamedIsAName DEF Nameable

(* What the two steps after parse_arguments change.                           *)
LEMMA DispatchIs ==
    ASSUME NEW r \in Run, Types, Dispatch(r)
    PROVE  /\ pc[r] = "dispatch" /\ pc' = [pc EXCEPT ![r] = "name"] /\ call[r] \in Call
           /\ \E mode \in {"file", "pack", "unpack"}, fallback \in BOOLEAN :
                 call' = [call EXCEPT ![r] = [call[r] EXCEPT !.mode = mode, !.fallback = fallback]]
           /\ Fault \/ UNCHANGED faults
           /\ UNCHANGED <<file, dirs, tree, temp, work, result, lost, edited, plan>>
<1>1. call \in [Run -> Call] /\ call[r] \in Call BY DEF Types
<1>2. PICK found :
         /\ call' = [call EXCEPT
                ![r].mode = IF found = "single" THEN "file" ELSE DirectoryOperation(call[r].operations),
                ![r].fallback = found = "archive"]
         /\ Fault \/ UNCHANGED faults
  BY DEF Dispatch
<1> DEFINE mode == IF found = "single" THEN "file" ELSE DirectoryOperation(call[r].operations)
           fallback == found = "archive"
<1>3. mode \in {"file", "pack", "unpack"} /\ fallback \in BOOLEAN
  BY DEF DirectoryOperation
<1>4. call' = [call EXCEPT ![r].mode = mode, ![r].fallback = fallback]
  BY <1>2
<1> HIDE DEF mode, fallback
<1>5. call' = [call EXCEPT ![r] = [call[r] EXCEPT !.mode = mode, !.fallback = fallback]]
  BY <1>1, <1>4
<1>6. pc[r] = "dispatch" /\ pc' = [pc EXCEPT ![r] = "name"]
      /\ UNCHANGED <<file, dirs, tree, temp, work, result, lost, edited, plan>>
  BY DEF Dispatch, Goto, fs
<1> QED BY <1>1, <1>2, <1>3, <1>5, <1>6

LEMMA NameOutputIs ==
    ASSUME NEW r \in Run, Types, NameOutput(r)
    PROVE  /\ pc[r] = "name" /\ call[r] \in Call
           /\ pc' = [pc EXCEPT ![r] = IF call[r].mode = "file" THEN "pipe" ELSE "mktemp"]
           /\ \E output, seen :
                 /\ seen \in BOOLEAN
                 /\ call' = [call EXCEPT ![r] = [call[r] EXCEPT !.output = output, !.seen = seen]]
                 /\ call[r].named => output = call[r].output
                 /\ ~call[r].named =>
                       /\ output \in MadeUpNames(call[r].input, call[r].operations)
                       /\ seen => output = AutoName(call[r].input, call[r].operations, TRUE)
           /\ Fault \/ UNCHANGED faults
           /\ UNCHANGED <<file, dirs, tree, temp, work, result, lost, edited, plan>>
<1>1. call \in [Run -> Call] /\ call[r] \in Call BY DEF Types
<1>2. pc[r] = "name" /\ pc' = [pc EXCEPT ![r] = IF call[r].mode = "file" THEN "pipe" ELSE "mktemp"]
      /\ UNCHANGED <<file, dirs, tree, temp, work, result, lost, edited, plan>>
  BY DEF NameOutput, Goto, fs
<1>3. CASE call[r].named /\ UNCHANGED <<call, faults>>
  <2>1. call[r] = [call[r] EXCEPT !.output = call[r].output, !.seen = call[r].seen]
        /\ call[r].seen \in BOOLEAN
    BY <1>1 DEF Call
  <2>2. call' = [call EXCEPT ![r] = [call[r] EXCEPT !.output = call[r].output, !.seen = call[r].seen]]
    BY <1>1, <1>3, <2>1
  <2>3. \E output, seen :
           /\ seen \in BOOLEAN
           /\ call' = [call EXCEPT ![r] = [call[r] EXCEPT !.output = output, !.seen = seen]]
           /\ call[r].named => output = call[r].output
           /\ ~call[r].named =>
                 /\ output \in MadeUpNames(call[r].input, call[r].operations)
                 /\ seen => output = AutoName(call[r].input, call[r].operations, TRUE)
    <3>1. /\ call[r].seen \in BOOLEAN
          /\ call' = [call EXCEPT ![r] = [call[r] EXCEPT !.output = call[r].output, !.seen = call[r].seen]]
          /\ call[r].named => call[r].output = call[r].output
          /\ ~call[r].named => FALSE
      BY <1>3, <2>1, <2>2
    <3> QED BY <3>1
  <2> QED BY <1>1, <1>2, <1>3, <2>3
<1>4. CASE ~(call[r].named /\ UNCHANGED <<call, faults>>)
  <2>1. PICK output, seen :
           /\ call' = [call EXCEPT ![r].output = output, ![r].seen = seen]
           /\ ~call[r].named /\ (Fault \/ UNCHANGED faults)
           /\ \/ /\ seen = (file[call[r].input] # NoFile)
                 /\ output = AutoName(call[r].input, call[r].operations, seen)
              \/ /\ seen = FALSE
                 /\ output \in {AutoName(call[r].input, call[r].operations, FALSE), DefaultName}
    BY <1>4 DEF NameOutput
  <2>2. seen \in BOOLEAN BY <2>1
  <2>3. output \in MadeUpNames(call[r].input, call[r].operations)
    BY <2>1, <2>2 DEF MadeUpNames, MadeUpParts, AutoName, DefaultName
  <2>4. call' = [call EXCEPT ![r] = [call[r] EXCEPT !.output = output, !.seen = seen]]
    BY <1>1, <2>1
  <2>5. seen => output = AutoName(call[r].input, call[r].operations, TRUE)
    BY <2>1, <2>2
  <2>6. /\ seen \in BOOLEAN
        /\ call' = [call EXCEPT ![r] = [call[r] EXCEPT !.output = output, !.seen = seen]]
        /\ call[r].named => output = call[r].output
        /\ ~call[r].named =>
              /\ output \in MadeUpNames(call[r].input, call[r].operations)
              /\ seen => output = AutoName(call[r].input, call[r].operations, TRUE)
    BY <2>1, <2>2, <2>3, <2>4, <2>5
  <2>7. \E output1, seen1 :
           /\ seen1 \in BOOLEAN
           /\ call' = [call EXCEPT ![r] = [call[r] EXCEPT !.output = output1, !.seen = seen1]]
           /\ call[r].named => output1 = call[r].output
           /\ ~call[r].named =>
                 /\ output1 \in MadeUpNames(call[r].input, call[r].operations)
                 /\ seen1 => output1 = AutoName(call[r].input, call[r].operations, TRUE)
    BY <2>6
  <2> QED BY <1>1, <1>2, <2>1, <2>7
<1> QED BY <1>3, <1>4

(* What a command line or a caller of the library may ask.                    *)
LEMMA PlansAreSound ==
    ASSUME plan \in Planned, NEW r \in DOMAIN plan.does
    PROVE  IF plan.does[r].entry = "main"
           THEN LET p == ParseArguments(plan.does[r].argv)
                IN /\ p \in Parsed /\ p.output \notin TempName
                   /\ p.status = "go" => /\ p.input \in Path /\ Valid(p)
                                         /\ p.operations = Asked(plan.does[r].argv)
                   /\ p.status = "go" /\ p.output = NoName =>
                         \A parts \in MadeUpParts(p.input, p.operations) :
                            \E n \in Path : IsNamed(n, parts)
           ELSE LET c == plan.does[r].call
                IN /\ c \in Call /\ c.mode \in {"pack", "unpack"}
                   /\ c.named /\ c.input \in Path /\ c.output \in Path
<1>1. PICK p \in Plans : plan = p.plan
  BY DEF Planned
<1>2. IF plan.does[r].entry = "main"
      THEN LET p1 == ParseArguments(plan.does[r].argv)
           IN /\ plan.does[r].argv \in Seq(Argument)
              /\ p1.status = "go" /\ p1.output = NoName =>
                    \A parts \in MadeUpParts(p1.input, p1.operations) :
                       \E n \in Path : IsNamed(n, parts)
      ELSE LET c == plan.does[r].call
           IN /\ c \in Call /\ c.mode \in {"pack", "unpack"}
              /\ c.named /\ c.input \in Path /\ c.output \in Path
  BY <1>1, PlanAssumption
<1>3. CASE plan.does[r].entry = "main"
  <2> DEFINE q == ParseArguments(plan.does[r].argv)
  <2>1. q \in Parsed /\ (q.status = "go" => /\ q.input \in Path /\ Valid(q)
                                            /\ q.operations = Asked(plan.does[r].argv))
    BY <1>2, <1>3, CommandLine
  <2>2. q.status = "go" /\ q.output = NoName =>
           \A parts \in MadeUpParts(q.input, q.operations) :
              \E n \in Path : IsNamed(n, parts)
    BY <1>2, <1>3
  <2> HIDE DEF q
  <2>3. q.output \notin TempName
    BY <2>1, NoNameIsNoTemp DEF Parsed, Path
  <2> QED BY <1>3, <2>1, <2>2, <2>3 DEF q
<1>4. CASE plan.does[r].entry # "main"
  BY <1>2, <1>4
<1> QED BY <1>3, <1>4

LEMMA StartStepsPreserve ==
    ASSUME NEW r \in Run, Inv, Main(r) \/ Dispatch(r) \/ NameOutput(r) \/ CallLibrary(r)
    PROVE  Inv'
<1>1. Types /\ Held(r) /\ Given(r)
  BY DEF Inv
<1>2. UNCHANGED <<file, temp, plan>>
  BY DEF Main, Dispatch, NameOutput, CallLibrary, fs
<1>3. CASE Main(r)
  <2> DEFINE p == ParseArguments(plan.does[r].argv)
  <2>1. pc[r] = "idle" /\ r \in DOMAIN plan.does /\ plan.does[r].entry = "main"
    BY <1>3 DEF Main, MayStart
  <2>2. /\ p \in Parsed /\ p.output \notin TempName
        /\ p.status = "go" => p.input \in Path
        /\ p.status = "go" /\ p.output = NoName =>
              \A parts \in MadeUpParts(p.input, p.operations) : \E n \in Path : IsNamed(n, parts)
    BY <1>1, <2>1, PlansAreSound DEF Types
  <2>3. CASE p.status = "go"
    <3> DEFINE c == [NoCall EXCEPT !.operations = p.operations, !.comp_alg = p.comp_alg,
                         !.input = p.input, !.output = p.output, !.named = p.output # NoName]
    <3>1. call' = [call EXCEPT ![r] = c] /\ pc' = [pc EXCEPT ![r] = "dispatch"]
      BY <1>3, <2>3 DEF Main, Goto
    <3>2. /\ c \in Call /\ c.input = p.input /\ c.output = p.output
          /\ c.operations = p.operations /\ (~c.named => p.output = NoName)
      BY <2>2 DEF Call, NoCall, Parsed, Mode, Path
    <3>3. "dispatch" \in Label
      BY LabelsListed DEF Labels
    <3> HIDE DEF c, p
    <3>4. Nameable(c)
      BY <2>2, <2>3, <3>2 DEF Nameable
    <3> QED BY <1>2, <2>1, <2>2, <2>3, <3>1, <3>2, <3>3, <3>4, StartPreserves DEF Free
  <2>4. CASE p.status # "go"
    <3>1. call' = call /\ pc' = [pc EXCEPT ![r] = "returned"]
      BY <1>3, <2>4 DEF Main, Ends, Goto
    <3>2. call' = [call EXCEPT ![r] = call[r]] /\ call[r] \in Call
      BY <1>1, <3>1 DEF Types
    <3>3. "returned" \in Label
      BY LabelsListed DEF Labels
    <3> QED BY <1>1, <1>2, <2>1, <3>1, <3>2, <3>3, StartPreserves DEF Free, Given
  <2> QED BY <2>3, <2>4
<1>4. CASE Dispatch(r)
  <2>1. PICK mode \in {"file", "pack", "unpack"}, fallback \in BOOLEAN :
           call' = [call EXCEPT ![r] = [call[r] EXCEPT !.mode = mode, !.fallback = fallback]]
    BY <1>1, <1>4, DispatchIs
  <2>2. pc[r] = "dispatch" /\ pc' = [pc EXCEPT ![r] = "name"] /\ call[r] \in Call
    BY <1>1, <1>4, DispatchIs
  <2> DEFINE c == [call[r] EXCEPT !.mode = mode, !.fallback = fallback]
  <2>3. /\ c \in Call /\ c.mode = mode /\ c.output = call[r].output
        /\ c.input = call[r].input /\ c.operations = call[r].operations /\ c.named = call[r].named
    BY <2>1, <2>2 DEF Call, Mode
  <2>4. "name" \in Label
    BY LabelsListed DEF Labels
  <2>5. call' = [call EXCEPT ![r] = c]
    BY <2>1
  <2> HIDE DEF c
  <2>6. Nameable(c) /\ c.output \notin TempName
    BY <1>1, <2>3 DEF Given, Nameable
  <2> QED BY <1>2, <2>1, <2>2, <2>3, <2>4, <2>5, <2>6, StartPreserves DEF Free
<1>6. CASE NameOutput(r)
  <2>1. PICK output, seen :
           /\ seen \in BOOLEAN
           /\ call' = [call EXCEPT ![r] = [call[r] EXCEPT !.output = output, !.seen = seen]]
           /\ call[r].named => output = call[r].output
           /\ ~call[r].named => output \in MadeUpNames(call[r].input, call[r].operations)
    BY <1>1, <1>6, NameOutputIs
  <2>2. pc[r] = "name" /\ call[r] \in Call /\ call[r].mode \in {"file", "pack", "unpack"}
    BY <1>1, <1>6, NameOutputIs DEF Given
  <2>3. pc' = [pc EXCEPT ![r] = IF call[r].mode = "file" THEN "pipe" ELSE "mktemp"]
    BY <1>1, <1>6, NameOutputIs
  <2> DEFINE c == [call[r] EXCEPT !.output = output, !.seen = seen]
  <2>4. output \in (Name \cup {NoName}) \ TempName
    BY <1>1, <2>1, <2>2, NoNameIsNoTemp, MadeUpIsAName DEF Given, Call, Path
  <2>5. /\ c \in Call /\ c.mode = call[r].mode /\ c.output = output
        /\ c.input = call[r].input /\ c.operations = call[r].operations /\ c.named = call[r].named
    BY <2>1, <2>2, <2>4 DEF Call
  <2>6. "pipe" \in Label /\ "mktemp" \in Label
    BY LabelsListed DEF Labels
  <2>7. call' = [call EXCEPT ![r] = c]
    BY <2>1
  <2> HIDE DEF c
  <2>8. Nameable(c)
    BY <1>1, <2>5 DEF Given, Nameable
  <2>9. CASE call[r].mode = "file"
    BY <1>2, <2>2, <2>3, <2>4, <2>5, <2>6, <2>7, <2>8, <2>9, StartPreserves DEF Free
  <2>10. CASE call[r].mode # "file"
    BY <1>2, <2>2, <2>3, <2>4, <2>5, <2>6, <2>7, <2>8, <2>10, StartPreserves DEF Free
  <2> QED BY <2>9, <2>10
<1>5. CASE CallLibrary(r)
  <2> DEFINE c == plan.does[r].call
  <2>1. pc[r] = "idle" /\ r \in DOMAIN plan.does /\ plan.does[r].entry = "library"
    BY <1>5 DEF CallLibrary, MayStart
  <2>2. c \in Call /\ c.mode \in {"pack", "unpack"} /\ c.output \notin TempName
    BY <1>1, <2>1, PlansAreSound DEF Types, Path
  <2>3. call' = [call EXCEPT ![r] = c] /\ pc' = [pc EXCEPT ![r] = "mktemp"]
    BY <1>5 DEF CallLibrary, Goto
  <2>4. "mktemp" \in Label
    BY LabelsListed DEF Labels
  <2>5. Nameable(c)
    BY <1>1, <2>1, PlansAreSound DEF Types, Nameable
  <2> HIDE DEF c
  <2> QED BY <1>2, <2>1, <2>2, <2>3, <2>4, <2>5, StartPreserves DEF Free
<1> QED BY <1>3, <1>4, <1>5, <1>6

(* A killed run keeps its temporary for ever; users touch no temporary.       *)
LEMMA KillPreserves ==
    ASSUME NEW r \in Run, Inv, Kill(r), plan' = plan
    PROVE  Inv'
<1>1. file' = file /\ UNCHANGED <<call, temp, plan>> /\ pc' = [pc EXCEPT ![r] = "killed"]
  BY DEF Kill, Goto, fs, locals
<1>2. "killed" \in Label \ Free
  BY LabelsListed DEF Labels, Free
<1>3. file = [n \in Name |-> file[n]]
  BY DEF Inv, Types
<1> QED BY <1>1, <1>2, <1>3, MovesPreserve DEF Moves

LEMMA StutterPreserves ==
    ASSUME Inv, UNCHANGED <<file, pc, call, temp, plan>>
    PROVE  Inv'
BY DEF Inv, Types, Held, Given, TempsAreCleared, HasTemp

LEMMA InitEstablishes ==
    ASSUME Init
    PROVE  Inv
<1>1. PICK p \in Plans : plan = p.plan /\ file = p.file
  BY DEF Init
<1>2. file \in [Name -> Content \cup {NoFile}] /\ \A t \in TempName : file[t] = NoFile
  BY <1>1, PlanAssumption
<1>3. plan \in Planned
  BY <1>1 DEF Planned
<1>4. NoCall \in Call /\ NoCall.output = NoName
  BY DEF NoCall, Call, Mode
<1>5. Types
  <2>1. "idle" \in Label
    BY LabelsListed DEF Labels
  <2> QED BY <1>2, <1>3, <1>4, <2>1 DEF Init, Types
<1>6. \A r \in Run : Held(r) /\ Given(r)
  BY <1>4, NoNameIsNoTemp DEF Init, Held, Given, Nameable, NoCall
<1>7. TempsAreCleared
  BY <1>2 DEF TempsAreCleared
<1> QED BY <1>5, <1>6, <1>7 DEF Inv

LEMMA NextPreserves ==
    ASSUME Inv, [Next]_vars
    PROVE  Inv'
<1>1. ASSUME NEW r \in Run, Step(r) PROVE Inv'
  <2>1. CASE Main(r) \/ Dispatch(r) \/ NameOutput(r) \/ CallLibrary(r)
    BY <2>1, StartStepsPreserve
  <2>2. CASE ArchiveStep(r) /\ UNCHANGED plan
    BY <2>2, MakeTempPreserves, ReturnStepsPreserve, QuietStepsPreserve,
       TempStepsPreserve, PipelineStepsPreserve DEF ArchiveStep
  <2> QED BY <1>1, <2>1, <2>2 DEF Step
<1>2. ASSUME NEW r \in Run, Kill(r), UNCHANGED plan PROVE Inv'
  BY <1>2, KillPreserves
<1>3. ASSUME NEW n, NEW m, NEW body, Edit(n, m, body), UNCHANGED plan PROVE Inv'
  BY <1>3, StutterPreserves DEF Edit, locals
<1>4. CASE UNCHANGED vars
  BY <1>4, StutterPreserves DEF vars, avars, fs, locals
<1> QED BY <1>1, <1>2, <1>3, <1>4 DEF Next

(* A temporary exists only while the run that made it is at work, or if it    *)
(* was killed: no return from archive.c leaves one (Spec implies that         *)
(* TempsAreCleared always holds).                                             *)
THEOREM TemporariesCleared == Spec => []TempsAreCleared
<1>1. Inv => TempsAreCleared
  BY DEF Inv
<1> QED BY <1>1, NextPreserves, InitEstablishes, PTL DEF Spec

(*************************** what a run writes to ****************************)

(* Once it is chosen, the output of a run without -o is a name made up of its *)
(* input; without the extension of that, if nothing was wrong.                *)
OwnName(c) ==
    ~c.named => /\ c.output \in {NoName} \cup MadeUpNames(c.input, c.operations)
                /\ c.seen => c.output = AutoName(c.input, c.operations, TRUE)

TreeShape == tree = [n \in Name |-> tree[n]]

NameInv == Inv /\ TreeShape /\ \A r \in Run : OwnName(call[r])

(* What a step of r leaves alone: a name that is no temporary, nor the output *)
(* of r, holds what it did, as a file and as a directory.                     *)
LeavesAlone(r, n) == file'[n] = file[n] /\ tree'[n] = tree[n]

(* The steps that work on the temporary, or on nothing.                       *)
LEMMA LocalStepsSpareNames ==
    ASSUME NEW r \in Run, Inv,
           \/ MakeTemp(r) \/ TempFails(r) \/ RemoveTemp(r)
           \/ ListDirectory(r) \/ OpenArchive(r) \/ StatEntry(r) \/ OpenEntry(r)
           \/ CopyEntry(r) \/ CloseArchive(r) \/ PackFault(r) \/ DropArchive(r)
           \/ PipelineRefuses(r) \/ PipelineFails(r)
           \/ ReadHeader(r) \/ CheckDirectory(r) \/ MakeDirectory(r) \/ NextEntry(r)
           \/ UnpackFault(r)
    PROVE  tree' = tree /\ \A n \in Path : LeavesAlone(r, n)
<1>1. file = [m \in Name |-> file[m]] /\ temp[r] \in TempName \cup {NoName}
  BY DEF Inv, Types
<1>2. NoName \notin Name
  BY ArchiveAssumption
<1>3. tree' = tree
  BY DEF fs, MakeTemp, TempFails, RemoveTemp, ListDirectory, OpenArchive, StatEntry,
     OpenEntry, CopyEntry, CloseArchive, PackFault, DropArchive, PipelineRefuses,
     PipelineFails, ReadHeader, CheckDirectory, MakeDirectory, NextEntry, UnpackFault
<1>4. \/ file' = file
      \/ \E t \in TempName \cup {NoName} : \E c : file' = [file EXCEPT ![t] = c]
  <2>1. CASE MakeTemp(r)
    BY <2>1 DEF MakeTemp
  <2>2. CASE RemoveTemp(r) \/ DropArchive(r)
    BY <1>1, <2>2 DEF RemoveTemp, DropArchive, Unlink
  <2>3. CASE OpenArchive(r) \/ CloseArchive(r)
    BY <1>1, <2>3 DEF OpenArchive, CloseArchive
  <2>4. CASE ~(MakeTemp(r) \/ RemoveTemp(r) \/ DropArchive(r) \/ OpenArchive(r) \/ CloseArchive(r))
    BY <2>4 DEF fs, TempFails, ListDirectory, StatEntry, OpenEntry, CopyEntry, PackFault,
       PipelineRefuses, PipelineFails, ReadHeader, CheckDirectory, MakeDirectory,
       NextEntry, UnpackFault
  <2> QED BY <2>1, <2>2, <2>3, <2>4
<1>5. \A n \in Path : file'[n] = file[n]
  BY <1>1, <1>2, <1>4 DEF Path
<1> QED BY <1>3, <1>5 DEF LeavesAlone

(* The steps of the pipeline that write, and those of the extraction.         *)
LEMMA OutputStepsSpareNames ==
    ASSUME NEW r \in Run, Inv, TreeShape,
           NEW n \in Path, n # call[r].output,
           \/ PipelineOpens(r) \/ PipelineOk(r) \/ PipelineTruncates(r)
           \/ CreateMember(r) \/ FillMember(r) \/ FillFault(r)
    PROVE  LeavesAlone(r, n)
<1>1. file = [m \in Name |-> file[m]] /\ temp[r] \in TempName \cup {NoName}
  BY DEF Inv, Types
<1>2. Target(r) # n
  BY <1>1, ArchiveAssumption DEF Target, Path
<1>3. CASE PipelineOpens(r) \/ PipelineOk(r) \/ PipelineTruncates(r)
  <2>1. tree' = tree
    BY <1>3 DEF PipelineOpens, PipelineOk, PipelineTruncates
  <2>2. \E c : file' = file \/ file' = [file EXCEPT ![Target(r)] = c]
    BY <1>3 DEF PipelineOpens, PipelineOk, PipelineTruncates, Writes
  <2> QED BY <1>1, <1>2, <2>1, <2>2 DEF LeavesAlone, Path
<1>4. CASE CreateMember(r) \/ FillMember(r) \/ FillFault(r)
  <2>1. file' = file
    BY <1>4 DEF CreateMember, FillMember, FillFault
  <2>2. \E body : SetMember(r, body)
    BY <1>4 DEF CreateMember, FillMember, FillFault
  <2>3. tree'[n] = tree[n]
    BY <2>2 DEF SetMember, TreeShape
  <2> QED BY <2>1, <2>3 DEF LeavesAlone
<1> QED BY <1>3, <1>4

LEMMA OutputStepsKeepShape ==
    ASSUME NEW r \in Run, TreeShape,
           \/ PipelineOpens(r) \/ PipelineOk(r) \/ PipelineTruncates(r)
           \/ CreateMember(r) \/ FillMember(r) \/ FillFault(r)
    PROVE  TreeShape'
<1>1. tree' = tree \/ \E body : SetMember(r, body)
  BY DEF PipelineOpens, PipelineOk, PipelineTruncates, CreateMember, FillMember, FillFault
<1> QED BY <1>1 DEF SetMember, TreeShape

(* Every step of a run: only its temporary and its output can change.         *)
LEMMA StepsSpareNames ==
    ASSUME NEW r \in Run, Inv, TreeShape, Step(r)
    PROVE  /\ TreeShape'
           /\ \A n \in Path : n # call[r].output => LeavesAlone(r, n)
<1>1. CASE Main(r) \/ Dispatch(r) \/ NameOutput(r) \/ CallLibrary(r)
  BY <1>1 DEF Main, Dispatch, NameOutput, CallLibrary, fs, LeavesAlone, TreeShape
<1>2. CASE ArchiveStep(r)
  <2> DEFINE Output == \/ PipelineOpens(r) \/ PipelineOk(r) \/ PipelineTruncates(r)
                       \/ CreateMember(r) \/ FillMember(r) \/ FillFault(r)
  <2>1. CASE Output
    BY <2>1, OutputStepsSpareNames, OutputStepsKeepShape
  <2>2. CASE ~Output
    <3>1. \/ MakeTemp(r) \/ TempFails(r) \/ RemoveTemp(r)
          \/ ListDirectory(r) \/ OpenArchive(r) \/ StatEntry(r) \/ OpenEntry(r)
          \/ CopyEntry(r) \/ CloseArchive(r) \/ PackFault(r) \/ DropArchive(r)
          \/ PipelineRefuses(r) \/ PipelineFails(r)
          \/ ReadHeader(r) \/ CheckDirectory(r) \/ MakeDirectory(r) \/ NextEntry(r)
          \/ UnpackFault(r)
      BY <1>2, <2>2 DEF ArchiveStep
    <3> QED BY <3>1, LocalStepsSpareNames DEF TreeShape
  <2> QED BY <2>1, <2>2
<1> QED BY <1>1, <1>2 DEF Step

(* Nothing but process_output_path and the start of a run says where it       *)
(* writes.                                                                    *)
LEMMA ReturnKeepsNames ==
    ASSUME NEW r \in Run, NEW status, Types, Return(r, status),
           NEW q \in Run, OwnName(call[q])
    PROVE  OwnName(call'[q])
<1>1. call' = call \/ call' = [call EXCEPT ![r].mode = "file", ![r].fallback = FALSE]
  BY DEF Return
<1>2. call \in [Run -> Call]
  BY DEF Types
<1>3. UNCHANGED <<call[q].named, call[q].input, call[q].output, call[q].operations, call[q].seen>>
  BY <1>1, <1>2 DEF Call
<1> QED BY <1>3 DEF OwnName

LEMMA ArchiveStepsKeepNames ==
    ASSUME NEW r \in Run, Inv, ArchiveStep(r), NEW q \in Run, OwnName(call[q])
    PROVE  OwnName(call'[q])
<1>1. Types
  BY DEF Inv
<1>2. CASE TempFails(r) \/ RemoveTemp(r)
  BY <1>1, <1>2, ReturnKeepsNames DEF TempFails, RemoveTemp
<1>3. CASE PipelineOk(r) \/ PipelineTruncates(r) \/ PipelineRefuses(r) \/ PipelineFails(r)
  <2>1. \E status : PipelineReturns(r, status)
    BY <1>3 DEF PipelineOk, PipelineTruncates, PipelineRefuses, PipelineFails
  <2>2. call' = call \/ \E status : Return(r, status)
    BY <2>1 DEF PipelineReturns
  <2> QED BY <1>1, <2>2, ReturnKeepsNames
<1>4. CASE \/ MakeTemp(r) \/ ListDirectory(r) \/ OpenArchive(r) \/ StatEntry(r)
           \/ OpenEntry(r) \/ CopyEntry(r) \/ CloseArchive(r) \/ PackFault(r)
           \/ DropArchive(r) \/ PipelineOpens(r) \/ ReadHeader(r)
           \/ CheckDirectory(r) \/ MakeDirectory(r) \/ NextEntry(r)
           \/ CreateMember(r) \/ FillMember(r) \/ FillFault(r) \/ UnpackFault(r)
  <2>1. call' = call
    BY <1>4 DEF MakeTemp, ListDirectory, OpenArchive, StatEntry, OpenEntry, CopyEntry,
       CloseArchive, PackFault, DropArchive, PipelineOpens, ReadHeader, CheckDirectory,
       MakeDirectory, NextEntry, CreateMember, FillMember, FillFault, UnpackFault
  <2> QED BY <2>1
<1> QED BY <1>2, <1>3, <1>4 DEF ArchiveStep

LEMMA StartStepsKeepNames ==
    ASSUME NEW r \in Run, Inv, Main(r) \/ Dispatch(r) \/ NameOutput(r) \/ CallLibrary(r),
           NEW q \in Run, OwnName(call[q])
    PROVE  OwnName(call'[q])
<1>1. Types /\ Given(r) /\ call \in [Run -> Call]
  BY DEF Inv, Types
<1>2. CASE call' = call
  BY <1>2
<1>3. ASSUME NEW c, call' = [call EXCEPT ![r] = c], OwnName(c)
      PROVE  OwnName(call'[q])
  BY <1>1, <1>3
<1>4. CASE Main(r)
  <2> DEFINE p == ParseArguments(plan.does[r].argv)
             c == [NoCall EXCEPT !.operations = p.operations, !.comp_alg = p.comp_alg,
                      !.input = p.input, !.output = p.output, !.named = p.output # NoName]
  <2>1. CASE p.status # "go"
    BY <1>2, <1>4, <2>1 DEF Main
  <2>2. CASE p.status = "go"
    <3>1. call' = [call EXCEPT ![r] = c]
      BY <1>4, <2>2 DEF Main
    <3> HIDE DEF p
    <3>2. OwnName(c)
      BY DEF OwnName, NoCall
    <3> QED BY <1>3, <3>1, <3>2
  <2> QED BY <2>1, <2>2
<1>5. CASE Dispatch(r) \/ NameOutput(r)
  <2>1. CASE q # r
    BY <1>1, <1>5, <2>1, DispatchIs, NameOutputIs
  <2>2. CASE q = r /\ Dispatch(r)
    <3>1. PICK mode \in {"file", "pack", "unpack"}, fallback \in BOOLEAN :
             call' = [call EXCEPT ![r] = [call[r] EXCEPT !.mode = mode, !.fallback = fallback]]
      BY <1>1, <2>2, DispatchIs
    <3>2. UNCHANGED <<call[r].named, call[r].input, call[r].output, call[r].operations, call[r].seen>>
      BY <1>1, <3>1 DEF Call
    <3> QED BY <2>2, <3>2 DEF OwnName
  <2>3. CASE q = r /\ NameOutput(r)
    <3>1. PICK output, seen :
             /\ seen \in BOOLEAN
             /\ call' = [call EXCEPT ![r] = [call[r] EXCEPT !.output = output, !.seen = seen]]
             /\ ~call[r].named =>
                   /\ output \in MadeUpNames(call[r].input, call[r].operations)
                   /\ seen => output = AutoName(call[r].input, call[r].operations, TRUE)
      BY <1>1, <2>3, NameOutputIs
    <3>2. /\ UNCHANGED <<call[r].named, call[r].input, call[r].operations>>
          /\ call'[r].output = output /\ call'[r].seen = seen
      BY <1>1, <3>1 DEF Call
    <3> QED BY <2>3, <3>1, <3>2 DEF OwnName
  <2> QED BY <1>5, <2>1, <2>2, <2>3
<1>6. CASE CallLibrary(r)
  <2>1. r \in DOMAIN plan.does /\ plan.does[r].entry = "library"
    BY <1>6 DEF CallLibrary, MayStart
  <2>2. plan.does[r].call.named
    BY <1>1, <2>1, PlansAreSound DEF Types
  <2>3. OwnName(plan.does[r].call)
    BY <2>2 DEF OwnName
  <2> QED BY <1>3, <1>6, <2>3 DEF CallLibrary
<1> QED BY <1>4, <1>5, <1>6

LEMMA InitNames ==
    ASSUME Init
    PROVE  NameInv
<1>1. PICK p \in Plans : tree = p.tree
  BY DEF Init
<1>2. TreeShape
  BY <1>1, PlanAssumption DEF TreeShape
<1>3. \A r \in Run : OwnName(call[r])
  BY DEF Init, OwnName, NoCall
<1> QED BY <1>2, <1>3, InitEstablishes DEF NameInv

LEMMA NextKeepsNames ==
    ASSUME NameInv, [Next]_vars
    PROVE  NameInv'
<1>1. Inv'
  BY NextPreserves DEF NameInv
<1>2. TreeShape' /\ \A q \in Run : OwnName(call'[q])
  <2>1. ASSUME NEW r \in Run, Step(r)
        PROVE  TreeShape' /\ \A q \in Run : OwnName(call'[q])
    BY <2>1, StepsSpareNames, ArchiveStepsKeepNames, StartStepsKeepNames DEF NameInv, Step
  <2>2. ASSUME NEW r \in Run, Kill(r)
        PROVE  TreeShape' /\ \A q \in Run : OwnName(call'[q])
    <3>1. UNCHANGED <<tree, call>>
      BY <2>2 DEF Kill, fs, locals
    <3> QED BY <3>1 DEF NameInv, TreeShape
  <2>3. ASSUME NEW n, NEW m, NEW body, Edit(n, m, body)
        PROVE  TreeShape' /\ \A q \in Run : OwnName(call'[q])
    <3>1. call' = call /\ tree' = [tree EXCEPT ![n][m] = body]
      BY <2>3 DEF Edit, locals
    <3> QED BY <3>1 DEF NameInv, TreeShape
  <2>4. CASE UNCHANGED vars
    <3>1. UNCHANGED <<tree, call>>
      BY <2>4 DEF vars, avars, fs, locals
    <3> QED BY <3>1 DEF NameInv, TreeShape
  <2> QED BY <2>1, <2>2, <2>3, <2>4 DEF Next
<1> QED BY <1>1, <1>2 DEF NameInv

(* The names made up have an extension of the program if the operations code  *)
(* anything; if they do not, a path loses the one it had.                     *)
LEMMA PathParts ==
    ASSUME NEW n \in Path
    PROVE  \E S : PathOf[n].parts \in Seq(S) \ {<<>>}
<1>1. PathOf[n].parts \in Seq(STRING) \ {<<>>}
  BY NameAssumption DEF PathType
<1> QED BY <1>1, Zenon

LEMMA PartsNamed ==
    ASSUME NEW n, NEW parts, IsNamed(n, parts)
    PROVE  PathOf[n].parts = parts
BY DEF IsNamed

LEMMA Lengths ==
    ASSUME NEW S, NEW s \in Seq(S) \ {<<>>}
    PROVE  Len(s) \in Nat \ {0} /\ s \in Seq(S)
BY EmptySeq, LenProperties

LEMMA FrontOfParts ==
    ASSUME NEW S, NEW s \in Seq(S) \ {<<>>}, Len(s) > 1
    PROVE  Front(s) \in Seq(S) \ {<<>>} /\ Len(Front(s)) = Len(s) - 1
<1>1. Len(s) \in Nat /\ s \in Seq(S) BY LenProperties
<1>2. \A i \in 1 .. Len(s) - 1 : s[i] \in S BY <1>1, ElementOfSeq
<1>3. SubSeq(s, 1, Len(s) - 1) \in Seq(S) /\ Len(SubSeq(s, 1, Len(s) - 1)) = Len(s) - 1
  BY <1>1, <1>2, SubSeqProperties
<1>4. Front(s) \in Seq(S) /\ Len(Front(s)) = Len(s) - 1
  BY <1>3 DEF Front
<1>5. Len(<<>>) = 0 BY EmptySeq
<1> QED BY <1>1, <1>4, <1>5

LEMMA AppendOfParts ==
    ASSUME NEW S, NEW s \in Seq(S) \ {<<>>}, NEW e
    PROVE  LET t == Append(s, e) IN Len(t) \in Nat /\ Len(t) > 1 /\ t[Len(t)] = e
<1>1. Len(s) \in Nat \ {0} /\ s \in Seq(S) BY Lengths
<1>2. s \in Seq(S \cup {e})
  <2>1. \A i \in 1 .. Len(s) : s[i] \in S \cup {e} BY <1>1, ElementOfSeq
  <2>2. s \in [1 .. Len(s) -> S \cup {e}] BY <1>1, <2>1, LenProperties
  <2> QED BY <1>1, <2>2, SeqDef
<1>3. Len(Append(s, e)) = Len(s) + 1 /\ Append(s, e)[Len(s) + 1] = e
  BY <1>2, AppendProperties
<1> QED BY <1>1, <1>3

LEMMA ExtensionPut ==
    ASSUME NEW n \in Path, NEW strips \in BOOLEAN, NEW operations, Extension(operations) # "",
           NEW m, IsNamed(m, AutoParts(n, operations, strips))
    PROVE  ExtOf(m) = Extension(operations)
<1>1. PICK S : PathOf[n].parts \in Seq(S) \ {<<>>} BY PathParts
<1>2. PICK parts \in {WithoutExtension(PathOf[n].parts), PathOf[n].parts} :
         AutoParts(n, operations, strips) = Append(parts, Extension(operations))
  BY DEF AutoParts, WithExtension
<1>3. parts \in Seq(S) \ {<<>>}
  <2>1. CASE Len(PathOf[n].parts) > 1
    <3>1. Front(PathOf[n].parts) \in Seq(S) \ {<<>>}
      BY <1>1, <2>1, FrontOfParts
    <3>2. parts \in {Front(PathOf[n].parts), PathOf[n].parts}
      BY <2>1 DEF WithoutExtension
    <3> QED BY <1>1, <3>1, <3>2
  <2>2. CASE ~(Len(PathOf[n].parts) > 1) BY <1>1, <2>2 DEF WithoutExtension
  <2> QED BY <2>1, <2>2
<1>4. PathOf[m].parts = Append(parts, Extension(operations))
  BY <1>2, PartsNamed
<1>5. /\ Len(PathOf[m].parts) > 1
      /\ PathOf[m].parts[Len(PathOf[m].parts)] = Extension(operations)
  BY <1>3, <1>4, AppendOfParts
<1> QED BY <1>5 DEF ExtOf, Last

LEMMA LessThanItself == ASSUME NEW k \in Nat PROVE k # k - 1
OBVIOUS

LEMMA ExtensionTaken ==
    ASSUME NEW n \in Path, ExtOf(n) # "", NEW operations, Extension(operations) = "",
           IsNamed(n, AutoParts(n, operations, TRUE))
    PROVE  FALSE
<1>1. PICK S : PathOf[n].parts \in Seq(S) \ {<<>>} BY PathParts
<1>2. Len(PathOf[n].parts) > 1 BY DEF ExtOf
<1>3. Len(Front(PathOf[n].parts)) = Len(PathOf[n].parts) - 1
  BY <1>1, <1>2, FrontOfParts
<1>4. AutoParts(n, operations, TRUE) = Front(PathOf[n].parts)
  BY <1>2 DEF AutoParts, WithExtension, WithoutExtension
<1>5. PathOf[n].parts = Front(PathOf[n].parts) BY <1>4, PartsNamed
<1>6. Len(PathOf[n].parts) \in Nat BY <1>1, Lengths
<1>7. Len(Front(PathOf[n].parts)) = Len(PathOf[n].parts) BY <1>5, Zenon
<1> QED BY <1>3, <1>6, <1>7, LessThanItself, Zenon

LEMMA OutputIsNotInput ==
    ASSUME NameInv, NEW r \in Run, Protected(r)
    PROVE  call[r].input \in Path /\ call[r].output # call[r].input
<1> DEFINE c == call[r]
<1>1. /\ c.output \in {NoName} \cup MadeUpNames(c.input, c.operations)
      /\ c.seen => c.output = AutoName(c.input, c.operations, TRUE)
      /\ c.input \in Path
      /\ \A parts \in MadeUpParts(c.input, c.operations) : \E n \in Path : IsNamed(n, parts)
  BY DEF NameInv, OwnName, Protected, Inv, Given, Nameable
<1>2. c.input # NoName
  BY <1>1, ArchiveAssumption DEF Path
<1> HIDE DEF c
<1>3. CASE c.operations \cap {"OP_COMPRESS", "OP_ENCRYPT"} # {}
  <2>1. Extension(c.operations) \in Extensions /\ Extension(c.operations) # ""
    BY <1>3 DEF Extension, Extensions
  <2>2. ExtOf(c.input) \notin Extensions BY <1>3 DEF Protected, c
  <2>3. ASSUME NEW parts \in MadeUpParts(c.input, c.operations)
        PROVE  ExtOf(Named(parts)) \in Extensions
    <3>1. IsNamed(Named(parts), parts) BY <1>1, NamedIsAName
    <3>2. CASE parts = DefaultParts
      <4>1. PathOf[Named(parts)].parts = <<"salida", "gsea">> BY <3>1, <3>2 DEF IsNamed, DefaultParts
      <4> QED BY <4>1 DEF ExtOf, Last, Extensions
    <3>3. CASE \E strips \in BOOLEAN : parts = AutoParts(c.input, c.operations, strips)
      <4>1. PICK strips \in BOOLEAN : parts = AutoParts(c.input, c.operations, strips) BY <3>3
      <4> QED BY <1>1, <2>1, <3>1, <4>1, ExtensionPut
    <3> QED BY <3>2, <3>3 DEF MadeUpParts
  <2>4. c.output = NoName \/ ExtOf(c.output) \in Extensions BY <1>1, <2>3 DEF MadeUpNames
  <2> QED BY <1>1, <1>2, <2>2, <2>4 DEF c
<1>4. CASE c.operations \cap {"OP_COMPRESS", "OP_ENCRYPT"} = {}
  <2>1. Extension(c.operations) = "" BY <1>4 DEF Extension
  <2>2. ExtOf(c.input) # "" /\ c.output = Named(AutoParts(c.input, c.operations, TRUE))
    BY <1>1, <1>4 DEF Protected, AutoName, c
  <2>3. AutoParts(c.input, c.operations, TRUE) \in MadeUpParts(c.input, c.operations)
    BY DEF MadeUpParts
  <2>4. IsNamed(c.output, AutoParts(c.input, c.operations, TRUE)) BY <1>1, <2>2, <2>3, NamedIsAName
  <2> QED BY <1>1, <2>1, <2>2, <2>4, ExtensionTaken DEF c
<1> QED BY <1>3, <1>4

LEMMA InputSpared ==
    ASSUME NameInv, [Next]_vars, NEW r \in Run, Protected(r)
    PROVE  /\ file'[call[r].input] = file[call[r].input]
           /\ pc' # pc => tree'[call[r].input] = tree[call[r].input]
<1>1. ASSUME NEW s \in Run, Step(s)
      PROVE  LeavesAlone(s, call[r].input)
  <2>1. call[s].output # call[r].input
    BY OutputIsNotInput DEF Protected
  <2> QED BY <1>1, <2>1, OutputIsNotInput, StepsSpareNames DEF NameInv
<1>2. ASSUME NEW s \in Run, Kill(s)
      PROVE  UNCHANGED <<file, tree>>
  BY <1>2 DEF Kill, fs
<1>3. ASSUME NEW n, NEW m, NEW body, Edit(n, m, body)
      PROVE  UNCHANGED <<file, pc>>
  BY <1>3 DEF Edit
<1>4. CASE UNCHANGED vars
  BY <1>4 DEF vars, avars, fs
<1> QED BY <1>1, <1>2, <1>3, <1>4 DEF Next, LeavesAlone

(* A run that makes up the name of its output never writes to its input, in   *)
(* the usual directions: whatever is asked of whichever path, and whatever the*)
(* other runs do, archives retried as single files and killed runs included;  *)
(* where it takes an extension off, if stat and strdup do not fail while the  *)
(* name is made up (Spec implies InputSurvives).                              *)
THEOREM InputLeftAlone == Spec => InputSurvives
<1>1. NameInv /\ [Next]_vars =>
        [\A r \in Run :
           Protected(r) =>
              /\ file'[call[r].input] = file[call[r].input]
              /\ pc' # pc => tree'[call[r].input] = tree[call[r].input]]_vars
  BY InputSpared
<1> QED BY <1>1, InitNames, NextKeepsNames, PTL DEF Spec, InputSurvives

(******************************** the types **********************************)

(* What a call is given, once it is known what it is.                         *)
Addressed(r) ==
    /\ call[r].mode # "none" =>
          /\ call[r].input \in Path
          /\ pc[r] \notin {"name", "killed"} => call[r].output \in Path
    /\ pc[r] \in {"dispatch", "name"} /\ call[r].named => call[r].output \in Path

(* Which call is at which label, and has a temporary.                         *)
Placed(r) ==
    /\ pc[r] \in PackLabels => call[r].mode = "pack"
    /\ pc[r] \in UnpackLabels => call[r].mode = "unpack"
    /\ pc[r] = "rmtemp" => call[r].mode \in {"pack", "unpack"}
    /\ pc[r] \in {"pipe", "writing", "growing"} => call[r].mode # "none"
    /\ pc[r] \in Busy \ Free /\ call[r].mode # "file" => temp[r] \in TempName

(* The locals have what the next step takes from them.                        *)
Ready(r) ==
    LET w == work[r]
    IN /\ pc[r] \in {"openentry", "copy"} => w.entries # <<>> /\ w.left <= w.size
       /\ pc[r] = "copy" => tree[call[r].input][Head(w.entries)] # NoFile
       /\ pc[r] \in {"checkdir", "mkdir"} =>
             w.making # <<>> /\ (w.member # NoMember => w.left # 0)
       /\ pc[r] \in {"create", "fill"} => w.member # NoMember /\ w.left # 0
       /\ pc[r] = "fill" => tree[call[r].output][w.member] # NoFile

Locals(r) ==
    /\ work[r] \in Work /\ Fine(work[r].units) /\ FineFile(work[r].coded)
    /\ Ready(r)

OnDisk ==
    /\ \A n \in Name : file[n] # NoFile => FineFile(file[n])
    /\ dirs \subseteq Path \X Sub
    /\ tree \in [Name -> [Member -> Seq(Nat) \cup {NoFile}]]

History ==
    /\ result \in [Run -> {-1, 0}]
    /\ lost \subseteq Run /\ edited \subseteq Name \X Member /\ faults \in 0 .. MaxFaults

TypeInv ==
    /\ Inv /\ OnDisk /\ History /\ work = [r \in Run |-> work[r]]
    /\ \A r \in Run : Addressed(r) /\ Placed(r) /\ Locals(r)

LEMMA LabelSets ==
    /\ Busy \ Free = {"pipe", "writing", "growing", "rmtemp"} \cup PackLabels \cup UnpackLabels
    /\ PackLabels \cap Free = {} /\ UnpackLabels \cap Free = {} /\ PackLabels \cap UnpackLabels = {}
BY DEF Busy, Free, PackLabels, UnpackLabels

(* What the invariant says of one run.                                        *)
LEMMA RunFacts ==
    ASSUME TypeInv, NEW r \in Run
    PROVE  /\ call[r] \in Call /\ pc[r] \in Label /\ temp[r] \in TempName \cup {NoName}
           /\ work[r] \in Work /\ Fine(work[r].units) /\ FineFile(work[r].coded)
           /\ Addressed(r) /\ Placed(r) /\ Ready(r) /\ Held(r) /\ Given(r)
BY DEF TypeInv, Inv, Types, Locals

(* What a step of one run does to what another sees of itself: it may remove  *)
(* the name of a temporary that the other has open too.                       *)
Undisturbed(s) ==
    /\ pc'[s] = pc[s] /\ call'[s] = call[s] /\ temp'[s] = temp[s]
    /\ work'[s] = work[s] \/ \E b \in BOOLEAN : work'[s] = [work[s] EXCEPT !.linked = b]

(* A file of a directory that is there stays there.                           *)
MembersStay == \A n \in Name, m \in Member : tree[n][m] # NoFile => tree'[n][m] # NoFile

LEMMA UndisturbedKeep ==
    ASSUME NEW s \in Run, TypeInv, Undisturbed(s), MembersStay
    PROVE  Addressed(s)' /\ Placed(s)' /\ Locals(s)'
<1> DEFINE w == work[s]
           v == work'[s]
<1>0. /\ call[s] \in Call /\ w \in Work /\ Fine(w.units) /\ FineFile(w.coded)
      /\ Addressed(s) /\ Placed(s) /\ Ready(s)
  BY RunFacts
<1>1. Addressed(s)' /\ Placed(s)' BY <1>0 DEF Undisturbed, Addressed, Placed
<1>2. v \in Work /\ v.entries = w.entries /\ v.units = w.units /\ v.size = w.size
      /\ v.left = w.left /\ v.member = w.member /\ v.making = w.making /\ v.coded = w.coded
  BY <1>0 DEF Undisturbed, Work
<1>3. pc[s] = "copy" => tree'[call[s].input][Head(w.entries)] # NoFile
  <2> SUFFICES ASSUME pc[s] = "copy" PROVE tree'[call[s].input][Head(w.entries)] # NoFile
    OBVIOUS
  <2>1. call[s].mode = "pack" BY <1>0 DEF Placed, PackLabels
  <2>2. call[s].input \in Name BY <1>0, <2>1 DEF Addressed, Path
  <2>3. w.entries \in Seq(Member) /\ w.entries # <<>> BY <1>0 DEF Ready, Work
  <2>4. Head(w.entries) \in Member BY <2>3, HeadTailProperties
  <2>5. tree[call[s].input][Head(w.entries)] # NoFile BY <1>0 DEF Ready
  <2> QED BY <2>2, <2>4, <2>5 DEF MembersStay
<1>4. pc[s] = "fill" => tree'[call[s].output][w.member] # NoFile
  <2> SUFFICES ASSUME pc[s] = "fill" PROVE tree'[call[s].output][w.member] # NoFile
    OBVIOUS
  <2>1. call[s].mode = "unpack" BY <1>0 DEF Placed, UnpackLabels
  <2>2. call[s].output \in Name BY <1>0, <2>1 DEF Addressed, Path
  <2>3. w.member \in Member BY <1>0 DEF Ready, Work
  <2>4. tree[call[s].output][w.member] # NoFile BY <1>0 DEF Ready
  <2> QED BY <2>2, <2>3, <2>4 DEF MembersStay
<1> HIDE DEF w, v
<1>5. Ready(s)'
  <2>1. pc'[s] = pc[s] /\ call'[s] = call[s] BY DEF Undisturbed
  <2> QED BY <1>0, <1>2, <1>3, <1>4, <2>1 DEF Ready, w, v
<1> QED BY <1>0, <1>1, <1>2, <1>5 DEF Locals, v, w

(* A step of r disturbs no other run.                                         *)
LEMMA StartStepsSpare ==
    ASSUME NEW r \in Run, TypeInv, Main(r) \/ Dispatch(r) \/ NameOutput(r) \/ CallLibrary(r),
           NEW s \in Run \ {r}
    PROVE  Undisturbed(s) /\ MembersStay
<1>1. pc \in [Run -> Label] /\ call \in [Run -> Call] /\ Types BY DEF TypeInv, Inv, Types
<1>2. CASE Main(r) \/ CallLibrary(r)
  BY <1>1, <1>2 DEF Main, CallLibrary, Undisturbed, MembersStay, Ends, Goto, fs
<1>3. CASE Dispatch(r)
  <2>1. /\ \E label : pc' = [pc EXCEPT ![r] = label]
        /\ \E c : call' = [call EXCEPT ![r] = c]
        /\ UNCHANGED <<tree, temp, work>>
    BY <1>1, <1>3, DispatchIs
  <2> QED BY <1>1, <2>1 DEF Undisturbed, MembersStay
<1>4. CASE NameOutput(r)
  <2>1. /\ \E label : pc' = [pc EXCEPT ![r] = label]
        /\ \E c : call' = [call EXCEPT ![r] = c]
        /\ UNCHANGED <<tree, temp, work>>
    BY <1>1, <1>4, NameOutputIs
  <2> QED BY <1>1, <2>1 DEF Undisturbed, MembersStay
<1> QED BY <1>2, <1>3, <1>4

LEMMA ReturnSpares ==
    ASSUME NEW r \in Run, TypeInv, NEW status, Return(r, status) \/ PipelineReturns(r, status),
           NEW s \in Run \ {r}
    PROVE  pc'[s] = pc[s] /\ call'[s] = call[s]
<1>1. pc \in [Run -> Label] /\ call \in [Run -> Call] BY DEF TypeInv, Inv, Types
<1> QED BY <1>1 DEF Return, PipelineReturns, Ends, Goto

LEMMA MemberSet ==
    ASSUME NEW r \in Run, NEW body \in Seq(Nat), SetMember(r, body),
           call[r].output \in Name, work[r].member \in Member, OnDisk
    PROVE  /\ MembersStay /\ tree' \in [Name -> [Member -> Seq(Nat) \cup {NoFile}]]
           /\ tree'[call[r].output][work[r].member] # NoFile
<1>1. body # NoFile BY ArchiveAssumption
<1>2. tree' = [tree EXCEPT ![call[r].output][work[r].member] = body] BY DEF SetMember
<1> QED BY <1>1, <1>2 DEF MembersStay, OnDisk

LEMMA ArchiveStepsSpare ==
    ASSUME NEW r \in Run, TypeInv, ArchiveStep(r), NEW s \in Run \ {r}
    PROVE  Undisturbed(s)
<1>1. /\ pc \in [Run -> Label] /\ call \in [Run -> Call]
      /\ temp \in [Run -> TempName \cup {NoName}] /\ work = [q \in Run |-> work[q]]
  BY DEF TypeInv, Inv, Types
<1>2. CASE TempFails(r) \/ RemoveTemp(r)
  <2>1. pc'[s] = pc[s] /\ call'[s] = call[s] /\ temp'[s] = temp[s]
    <3>1. \E status : Return(r, status) BY <1>2 DEF TempFails, RemoveTemp
    <3>2. temp' = temp \/ temp' = [temp EXCEPT ![r] = NoName]
      BY <1>2 DEF TempFails, RemoveTemp
    <3> QED BY <1>1, <3>1, <3>2, ReturnSpares
  <2>2. work' = work \/ Unlink(temp[r]) BY <1>2 DEF TempFails, RemoveTemp
  <2>3. work'[s] = work[s] \/ \E b \in BOOLEAN : work'[s] = [work[s] EXCEPT !.linked = b]
    BY <2>2, RunFacts DEF Unlink, Work
  <2> QED BY <2>1, <2>3 DEF Undisturbed
<1>3. CASE PipelineOk(r) \/ PipelineRefuses(r) \/ PipelineFails(r)
  <2>1. \E status : PipelineReturns(r, status)
    BY <1>3 DEF PipelineOk, PipelineRefuses, PipelineFails
  <2>2. UNCHANGED <<temp, work>> BY <1>3 DEF PipelineOk, PipelineRefuses, PipelineFails
  <2> QED BY <2>1, <2>2, ReturnSpares DEF Undisturbed
<1>7. CASE PipelineTruncates(r)
  <2>1. /\ PipelineReturns(r, -1) /\ temp' = temp
        /\ work' = [work EXCEPT ![r].linked = TRUE]
    BY <1>7 DEF PipelineTruncates
  <2> QED BY <1>1, <2>1, ReturnSpares DEF Undisturbed
<1>4. CASE \/ MakeTemp(r) \/ ListDirectory(r) \/ OpenArchive(r) \/ StatEntry(r)
           \/ OpenEntry(r) \/ CopyEntry(r) \/ CloseArchive(r) \/ PackFault(r)
           \/ PipelineOpens(r)
  <2>1. call' = call /\ temp'[s] = temp[s]
    BY <1>1, <1>4 DEF MakeTemp, ListDirectory, OpenArchive, StatEntry, OpenEntry, CopyEntry,
       CloseArchive, PackFault, PipelineOpens
  <2>2. pc'[s] = pc[s]
    BY <1>1, <1>4 DEF MakeTemp, ListDirectory, OpenArchive, StatEntry, OpenEntry, CopyEntry,
       CloseArchive, PackFault, PipelineOpens, Goto, Ends
  <2>3. work'[s] = work[s]
    BY <1>1, <1>4 DEF MakeTemp, ListDirectory, OpenArchive, StatEntry, OpenEntry, CopyEntry,
       CloseArchive, PackFault, PipelineOpens
  <2> QED BY <2>1, <2>2, <2>3 DEF Undisturbed
<1>5. CASE \/ ReadHeader(r) \/ CheckDirectory(r) \/ MakeDirectory(r) \/ NextEntry(r)
           \/ CreateMember(r) \/ FillMember(r) \/ FillFault(r) \/ UnpackFault(r)
  <2>1. call' = call /\ temp' = temp
    BY <1>5 DEF ReadHeader, CheckDirectory, MakeDirectory, NextEntry,
       CreateMember, FillMember, FillFault, UnpackFault
  <2>2. pc'[s] = pc[s]
    BY <1>1, <1>5 DEF ReadHeader, CheckDirectory, MakeDirectory, NextEntry,
       CreateMember, FillMember, FillFault, UnpackFault, Goto, Ends, Made
  <2>3. work'[s] = work[s]
    BY <1>1, <1>5 DEF ReadHeader, CheckDirectory, MakeDirectory, NextEntry,
       CreateMember, FillMember, FillFault, UnpackFault, Made
  <2> QED BY <2>1, <2>2, <2>3 DEF Undisturbed
<1>6. CASE DropArchive(r)
  <2>1. UNCHANGED <<call, temp>> /\ pc'[s] = pc[s] BY <1>1, <1>6 DEF DropArchive, Goto
  <2>2. work'[s] = work[s] \/ \E b \in BOOLEAN : work'[s] = [work[s] EXCEPT !.linked = b]
    BY <1>6, RunFacts DEF DropArchive, Unlink, Work
  <2> QED BY <2>1, <2>2 DEF Undisturbed
<1> QED BY <1>2, <1>3, <1>4, <1>5, <1>6, <1>7 DEF ArchiveStep

(* The names a run was given, and its mode, stay in place after a return.     *)
LEMMA ReturnKeepsCall ==
    ASSUME NEW r \in Run, NEW status \in {-1, 0}, TypeInv,
           Return(r, status) \/ PipelineReturns(r, status),
           pc[r] \in {"mktemp", "rmtemp", "pipe", "writing", "growing"}
    PROVE  /\ result' \in [Run -> {-1, 0}]
           /\ call'[r].input = call[r].input /\ call'[r].output = call[r].output
           /\ call'[r].mode \in {call[r].mode, "file"}
           /\ \/ pc'[r] \in {"name", "returned"}
              \/ pc'[r] \in {"rmtemp", "header"} /\ call' = call /\ call[r].mode # "file"
           /\ pc'[r] = "header" => call[r].mode = "unpack"
           /\ pc'[r] = "name" => call'[r].mode = "file"
<1>1. /\ pc \in [Run -> Label] /\ call \in [Run -> Call] /\ result \in [Run -> {-1, 0}]
  BY DEF TypeInv, Inv, Types, History
<1>2. CASE Return(r, status)
  <2>1. result' \in [Run -> {-1, 0}] /\ pc'[r] \in {"name", "returned"}
    BY <1>1, <1>2 DEF Return, Ends, Goto
  <2>2. /\ call'[r].input = call[r].input /\ call'[r].output = call[r].output
        /\ call'[r].mode \in {call[r].mode, "file"}
        /\ pc'[r] = "name" => call'[r].mode = "file"
    BY <1>1, <1>2 DEF Return, Ends, Goto, Call
  <2> QED BY <2>1, <2>2
<1>3. CASE PipelineReturns(r, status) /\ ~Return(r, status)
  <2>1. call' = call /\ call[r].mode # "file" /\ result' = [result EXCEPT ![r] = status]
    BY <1>3 DEF PipelineReturns, Ends
  <2>2. pc'[r] \in {"rmtemp", "header"} /\ (pc'[r] = "header" => call[r].mode = "unpack")
    BY <1>1, <1>3 DEF PipelineReturns, Ends, Goto
  <2> QED BY <1>1, <2>1, <2>2
<1> QED BY <1>2, <1>3

(* What every step of r must give.                                            *)
Demanding == {"openentry", "copy", "checkdir", "mkdir", "create", "fill"}

Kept(r) ==
    /\ OnDisk' /\ History' /\ work' = [q \in Run |-> work'[q]] /\ MembersStay
    /\ Addressed(r)' /\ Placed(r)' /\ Locals(r)'

LEMMA SameLocals ==
    ASSUME NEW r \in Run, TypeInv, pc'[r] \notin Demanding,
           work'[r] = work[r] \/ \E b \in BOOLEAN : work'[r] = [work[r] EXCEPT !.linked = b]
    PROVE  Locals(r)'
<1>1. work[r] \in Work /\ Fine(work[r].units) /\ FineFile(work[r].coded) BY RunFacts
<1>2. /\ work'[r] \in Work
      /\ work'[r].units = work[r].units /\ work'[r].coded = work[r].coded
  BY <1>1 DEF Work
<1>3. Ready(r)' BY DEF Ready, Demanding
<1> QED BY <1>1, <1>2, <1>3 DEF Locals

LEMMA SameAddress ==
    ASSUME NEW r \in Run, TypeInv, call' = call, pc'[r] \notin {"dispatch", "name"},
           pc[r] \notin {"name", "killed"} \/ pc'[r] = "killed"
    PROVE  Addressed(r)'
<1>1. Addressed(r) BY RunFacts
<1> QED BY <1>1 DEF Addressed

LEMMA SameFiles ==
    ASSUME TypeInv, UNCHANGED fs
    PROVE  OnDisk' /\ MembersStay
BY DEF TypeInv, OnDisk, MembersStay, fs

LEMMA SameHistory ==
    ASSUME TypeInv, UNCHANGED <<result, lost, edited, faults>>
    PROVE  History'
BY DEF TypeInv, History

LEMMA SameWork ==
    ASSUME TypeInv, work' = work
    PROVE  work' = [q \in Run |-> work'[q]]
BY DEF TypeInv

LEMMA FaultCounted == ASSUME TypeInv, Fault \/ UNCHANGED faults PROVE faults' \in 0 .. MaxFaults
BY ArchiveAssumption DEF TypeInv, History, Fault

LEMMA StartStepsKeep ==
    ASSUME NEW r \in Run, TypeInv, Main(r) \/ Dispatch(r) \/ NameOutput(r) \/ CallLibrary(r)
    PROVE  Kept(r)
<1>0. /\ UNCHANGED <<fs, temp, work, lost, edited>> /\ Types /\ (Fault \/ UNCHANGED faults)
      /\ pc \in [Run -> Label] /\ call \in [Run -> Call] /\ Given(r) /\ Addressed(r)
      /\ faults' \in 0 .. MaxFaults
  <2>1. /\ UNCHANGED <<fs, temp, work, lost, edited>> /\ (Fault \/ UNCHANGED faults)
        /\ Types
    BY RunFacts DEF TypeInv, Inv, Main, Dispatch, NameOutput, CallLibrary
  <2> QED BY <2>1, RunFacts, FaultCounted DEF TypeInv, Inv, Types
<1>1. CASE Main(r)
  <2> DEFINE p == ParseArguments(plan.does[r].argv)
             c == [NoCall EXCEPT !.operations = p.operations, !.comp_alg = p.comp_alg,
                      !.input = p.input, !.output = p.output, !.named = p.output # NoName]
  <2>1. r \in DOMAIN plan.does /\ plan.does[r].entry = "main" /\ pc[r] = "idle"
    BY <1>1 DEF Main, MayStart
  <2>2. p \in Parsed /\ (p.status = "go" => p.input \in Path)
    BY <1>0, <2>1, PlansAreSound DEF Types
  <2>3. CASE p.status = "go"
    <3>1. call'[r] = c /\ pc'[r] = "dispatch" /\ result' = result
      BY <1>0, <1>1, <2>3 DEF Main, Goto
    <3> HIDE DEF p
    <3>2. c.mode = "none" /\ (c.named => c.output \in Path)
      BY <2>2 DEF NoCall, Parsed
    <3> HIDE DEF c
    <3>3. Addressed(r)' BY <3>1, <3>2 DEF Addressed
    <3>4. Placed(r)' BY <3>1 DEF Placed, PackLabels, UnpackLabels, Busy, Free
    <3>5. History' BY <1>0, <3>1 DEF TypeInv, History
    <3>6. pc'[r] \notin Demanding BY <3>1 DEF Demanding
    <3> QED BY <1>0, <3>3, <3>4, <3>5, <3>6, SameLocals, SameFiles, SameWork DEF Kept
  <2>4. CASE p.status # "go"
    <3>1. call' = call /\ pc'[r] = "returned" /\ \E status \in {-1, 0} : result' = [result EXCEPT ![r] = status]
      BY <1>0, <1>1, <2>4 DEF Main, Ends, Goto
    <3>2. Addressed(r)' BY <2>1, <3>1, SameAddress
    <3>3. Placed(r)' BY <3>1 DEF Placed, PackLabels, UnpackLabels, Busy, Free
    <3>4. History' BY <1>0, <3>1 DEF TypeInv, History
    <3>5. pc'[r] \notin Demanding BY <3>1 DEF Demanding
    <3> QED BY <1>0, <3>2, <3>3, <3>4, <3>5, SameLocals, SameFiles, SameWork DEF Kept
  <2> QED BY <2>3, <2>4
<1>2. CASE Dispatch(r)
  <2>1. PICK mode \in {"file", "pack", "unpack"}, fallback \in BOOLEAN :
           call' = [call EXCEPT ![r] = [call[r] EXCEPT !.mode = mode, !.fallback = fallback]]
    BY <1>0, <1>2, DispatchIs
  <2>2. pc[r] = "dispatch" /\ pc' = [pc EXCEPT ![r] = "name"] /\ result' = result
    BY <1>0, <1>2, DispatchIs
  <2>3. call'[r].output = call[r].output /\ call'[r].input = call[r].input
        /\ call'[r].named = call[r].named
    BY <1>0, <2>1 DEF Call
  <2>4. pc'[r] = "name" BY <1>0, <2>2
  <2>5. Addressed(r)' BY <1>0, <2>2, <2>3, <2>4 DEF Addressed, Given
  <2>6. Placed(r)' BY <2>4 DEF Placed, PackLabels, UnpackLabels, Busy, Free
  <2>7. History' BY <1>0, <2>2 DEF TypeInv, History
  <2>8. pc'[r] \notin Demanding BY <2>4 DEF Demanding
  <2> QED BY <1>0, <2>5, <2>6, <2>7, <2>8, SameLocals, SameFiles, SameWork DEF Kept
<1>4. CASE NameOutput(r)
  <2>1. PICK output, seen :
           /\ seen \in BOOLEAN
           /\ call' = [call EXCEPT ![r] = [call[r] EXCEPT !.output = output, !.seen = seen]]
           /\ call[r].named => output = call[r].output
           /\ ~call[r].named => output \in MadeUpNames(call[r].input, call[r].operations)
    BY <1>0, <1>4, NameOutputIs
  <2>2. /\ pc[r] = "name" /\ result' = result
        /\ pc' = [pc EXCEPT ![r] = IF call[r].mode = "file" THEN "pipe" ELSE "mktemp"]
    BY <1>0, <1>4, NameOutputIs
  <2>3. call'[r].output = output /\ call'[r].input = call[r].input
        /\ call'[r].mode = call[r].mode /\ call[r].mode \in {"file", "pack", "unpack"}
    BY <1>0, <2>1, <2>2 DEF Call, Given
  <2>4. pc'[r] = IF call[r].mode = "file" THEN "pipe" ELSE "mktemp" BY <1>0, <2>2
  <2>5. output \in Path
    BY <1>0, <2>1, <2>2, MadeUpIsAName DEF Given, Addressed
  <2>6. Addressed(r)' BY <1>0, <2>3, <2>4, <2>5 DEF Addressed
  <2>7. Placed(r)' BY <2>3, <2>4 DEF Placed, PackLabels, UnpackLabels, Busy, Free
  <2>8. History' BY <1>0, <2>2 DEF TypeInv, History
  <2>9. pc'[r] \notin Demanding BY <2>4 DEF Demanding
  <2> QED BY <1>0, <2>6, <2>7, <2>8, <2>9, SameLocals, SameFiles, SameWork DEF Kept
<1>3. CASE CallLibrary(r)
  <2> DEFINE c == plan.does[r].call
  <2>1. r \in DOMAIN plan.does /\ plan.does[r].entry = "library"
    BY <1>3 DEF CallLibrary, MayStart
  <2>2. c.input \in Path /\ c.output \in Path BY <1>0, <2>1, PlansAreSound DEF Types
  <2>3. call'[r] = c /\ pc'[r] = "mktemp" /\ result' = result
    BY <1>0, <1>3 DEF CallLibrary, Goto
  <2> HIDE DEF c
  <2>4. Addressed(r)' BY <2>2, <2>3 DEF Addressed
  <2>5. Placed(r)' BY <2>3 DEF Placed, PackLabels, UnpackLabels, Busy, Free
  <2>6. History' BY <1>0, <2>3 DEF TypeInv, History
  <2>7. pc'[r] \notin Demanding BY <2>3 DEF Demanding
  <2> QED BY <1>0, <2>4, <2>5, <2>6, <2>7, SameLocals, SameFiles, SameWork DEF Kept
<1> QED BY <1>1, <1>2, <1>3, <1>4

(* After a return from archive.c or from the pipeline, the run that returns   *)
(* has what its next step takes.                                              *)
LEMMA ReturnKeeps ==
    ASSUME NEW r \in Run, NEW status \in {-1, 0}, TypeInv,
           \/ Return(r, status) /\ pc[r] \in {"mktemp", "rmtemp"}
           \/ PipelineReturns(r, status) /\ pc[r] \in {"pipe", "writing", "growing"} /\ temp' = temp,
           work'[r] = work[r] \/ \E b \in BOOLEAN : work'[r] = [work[r] EXCEPT !.linked = b],
           lost' \subseteq Run, faults' \in 0 .. MaxFaults, edited' = edited
    PROVE  History' /\ Addressed(r)' /\ Placed(r)' /\ Locals(r)'
<1>0. Addressed(r) /\ Placed(r) /\ Given(r) BY RunFacts
<1>1. /\ result' \in [Run -> {-1, 0}]
      /\ call'[r].input = call[r].input /\ call'[r].output = call[r].output
      /\ call'[r].mode \in {call[r].mode, "file"}
      /\ \/ pc'[r] \in {"name", "returned"}
         \/ pc'[r] \in {"rmtemp", "header"} /\ call' = call /\ call[r].mode # "file"
      /\ pc'[r] = "header" => call[r].mode = "unpack"
      /\ pc'[r] = "name" => call'[r].mode = "file"
  BY ReturnKeepsCall
<1>2. call[r].mode \in {"file", "pack", "unpack"}
  <2>1. call[r].mode \in Mode BY RunFacts DEF Call
  <2> QED BY <1>0, <2>1 DEF Given, Placed, Mode
<1>3. Addressed(r)' BY <1>0, <1>1, <1>2 DEF Addressed
<1>4. Placed(r)'
  <2>1. CASE pc'[r] \in {"name", "returned"}
    BY <1>1, <2>1 DEF Placed, PackLabels, UnpackLabels, Busy, Free
  <2>2. CASE pc'[r] \in {"rmtemp", "header"}
    <3>1. ~Return(r, status)
      <4>1. pc \in [Run -> Label] BY DEF TypeInv, Inv, Types
      <4> QED BY <2>2, <4>1 DEF Return, Ends, Goto
    <3>2. temp' = temp /\ call' = call /\ call[r].mode \in {"pack", "unpack"}
          /\ pc[r] \in {"pipe", "writing", "growing"}
      BY <1>1, <1>2, <2>2, <3>1
    <3> QED BY <1>0, <1>1, <2>2, <3>2 DEF Placed, PackLabels, UnpackLabels, Busy, Free
  <2> QED BY <1>1, <2>1, <2>2
<1>5. Locals(r)'
  <2>1. pc'[r] \notin Demanding BY <1>1 DEF Demanding
  <2> QED BY <2>1, SameLocals
<1>6. History' BY <1>1 DEF TypeInv, History
<1> QED BY <1>3, <1>4, <1>5, <1>6

(* One file that is set.                                                      *)
LEMMA SetFile ==
    ASSUME TypeInv, NEW n, NEW c, file' = [file EXCEPT ![n] = c] \/ file' = file,
           c = NoFile \/ FineFile(c), UNCHANGED <<dirs, tree>>
    PROVE  OnDisk' /\ MembersStay
<1>1. file = [m \in Name |-> file[m]] BY DEF TypeInv, Inv, Types
<1>2. \A m \in Name : file'[m] = file[m] \/ file'[m] = c BY <1>1
<1> QED BY <1>2 DEF TypeInv, OnDisk, MembersStay

LEMMA TempStepsKeep ==
    ASSUME NEW r \in Run, TypeInv, MakeTemp(r) \/ TempFails(r) \/ RemoveTemp(r) \/ DropArchive(r)
    PROVE  Kept(r)
<1>0. /\ pc \in [Run -> Label] /\ temp \in [Run -> TempName \cup {NoName}]
      /\ Given(r) /\ Placed(r) /\ Addressed(r)
      /\ lost \subseteq Run /\ faults \in 0 .. MaxFaults /\ result \in [Run -> {-1, 0}]
  BY RunFacts DEF TypeInv, Inv, Types, History
<1>1. CASE MakeTemp(r)
  <2>1. PICK t \in TempName : file' = [file EXCEPT ![t] = Empty] /\ temp' = [temp EXCEPT ![r] = t]
    BY <1>1 DEF MakeTemp
  <2>2. /\ UNCHANGED <<dirs, tree, call, work, result, lost, edited, faults>> /\ pc[r] = "mktemp"
        /\ pc'[r] = IF Packing(r) THEN "list" ELSE "pipe"
    BY <1>0, <1>1 DEF MakeTemp, Goto
  <2>3. OnDisk' /\ MembersStay BY <2>1, <2>2, SetFile, EmptyIsFine
  <2>4. History' BY <2>2, SameHistory
  <2>5. Addressed(r)' BY <2>2, SameAddress
  <2>6. Placed(r)'
    <3>1. call[r].mode \in {"pack", "unpack"} BY <1>0, <2>2 DEF Given
    <3>2. temp'[r] = t BY <1>0, <2>1
    <3> QED BY <2>2, <3>1, <3>2 DEF Placed, PackLabels, UnpackLabels, Packing
  <2>7. pc'[r] \notin Demanding BY <2>2 DEF Demanding
  <2> QED BY <2>2, <2>3, <2>4, <2>5, <2>6, <2>7, SameLocals, SameWork DEF Kept
<1>2. CASE TempFails(r)
  <2>1. UNCHANGED <<fs, work, lost, edited>> /\ Return(r, -1) /\ pc[r] = "mktemp"
        /\ (Fault \/ UNCHANGED faults)
    BY <1>2 DEF TempFails
  <2>2. History' /\ Addressed(r)' /\ Placed(r)' /\ Locals(r)'
    BY <1>0, <2>1, FaultCounted, ReturnKeeps
  <2> QED BY <2>1, <2>2, SameFiles, SameWork DEF Kept
<1>3. CASE RemoveTemp(r)
  <2>1. /\ UNCHANGED <<dirs, tree, lost, edited, faults>> /\ Return(r, result[r])
        /\ pc[r] = "rmtemp" /\ file' = [file EXCEPT ![temp[r]] = NoFile]
        /\ work' = [s \in Run |-> [work[s] EXCEPT !.linked = @ /\ temp[s] # temp[r]]]
    BY <1>3 DEF RemoveTemp, Unlink
  <2>2. \E b \in BOOLEAN : work'[r] = [work[r] EXCEPT !.linked = b] BY <2>1, RunFacts DEF Work
  <2>3. result[r] \in {-1, 0} BY <1>0
  <2>4. History' /\ Addressed(r)' /\ Placed(r)' /\ Locals(r)'
    BY <1>0, <2>1, <2>2, <2>3, ReturnKeeps
  <2>5. work' = [q \in Run |-> work'[q]] BY <2>1
  <2> QED BY <2>1, <2>4, <2>5, SetFile DEF Kept
<1>4. CASE DropArchive(r)
  <2>1. /\ UNCHANGED <<dirs, tree, call, temp, result, lost, edited, faults>>
        /\ pc[r] = "drop" /\ pc'[r] = "rmtemp" /\ file' = [file EXCEPT ![temp[r]] = NoFile]
        /\ work' = [s \in Run |-> [work[s] EXCEPT !.linked = @ /\ temp[s] # temp[r]]]
    BY <1>0, <1>4 DEF DropArchive, Unlink, Goto
  <2>2. \E b \in BOOLEAN : work'[r] = [work[r] EXCEPT !.linked = b] BY <2>1, RunFacts DEF Work
  <2>3. pc'[r] \notin Demanding BY <2>1 DEF Demanding
  <2>4. Locals(r)' BY <2>2, <2>3, SameLocals
  <2>5. Addressed(r)' /\ History' BY <2>1, SameAddress, SameHistory
  <2>6. Placed(r)' BY <1>0, <2>1 DEF Placed, PackLabels, UnpackLabels, Busy, Free
  <2>7. work' = [q \in Run |-> work'[q]] BY <2>1
  <2> QED BY <2>1, <2>4, <2>5, <2>6, <2>7, SetFile DEF Kept
<1> QED BY <1>1, <1>2, <1>3, <1>4

(* Any order of some members is a list of them.                               *)
LEMMA ListOfMembers ==
    ASSUME NEW S \in SUBSET Member, NEW list \in SetToSeqs(S)
    PROVE  list \in Seq(Member)
<1>1. IsFiniteSet(S) BY ArchiveAssumption, FS_Subset
<1>2. Cardinality(S) \in Nat BY <1>1, FS_CardinalityType
<1>3. list \in [1 .. Cardinality(S) -> S] BY DEF SetToSeqs
<1>4. list \in [1 .. Cardinality(S) -> Member] BY <1>3
<1> QED BY <1>2, <1>4

(* A step of r within create_directory_archive_file.                          *)
LEMMA PackMoves ==
    ASSUME NEW r \in Run, TypeInv, pc[r] \in PackLabels,
           pc'[r] \in PackLabels \cup {"pipe", "rmtemp"}, call' = call, temp' = temp
    PROVE  Addressed(r)' /\ Placed(r)'
<1>1. Placed(r) BY RunFacts
<1>2. Addressed(r)' BY SameAddress DEF PackLabels
<1>3. Placed(r)' BY <1>1 DEF Placed, PackLabels, UnpackLabels, Busy, Free
<1> QED BY <1>2, <1>3

LEMMA OwnWork ==
    ASSUME NEW r \in Run, TypeInv, NEW w, work' = [work EXCEPT ![r] = w]
    PROVE  work'[r] = w /\ work' = [q \in Run |-> work'[q]]
BY DEF TypeInv

LEMMA HeaderIsFine ==
    ASSUME NEW n \in Nat
    PROVE  Fine(Header(n))
<1>1. /\ U("magic", 0) \in Unit /\ U("count", n) \in Unit /\ U("count", n).kind = "count"
  BY UnitIs
<1>2. <<U("magic", 0)>> \in Seq(Unit) /\ Len(<<U("magic", 0)>>) <= 1 BY <1>1
<1>3. Fine(<<U("magic", 0)>>) BY <1>2, ShortIsFine
<1>4. Fine(<<U("magic", 0)>> \o <<U("count", n)>>) BY <1>1, <1>3, AppendIsFine
<1>5. Header(n) = <<U("magic", 0)>> \o <<U("count", n)>> BY <1>1 DEF Header
<1> QED BY <1>4, <1>5

LEMMA PackStepsKeep ==
    ASSUME NEW r \in Run, TypeInv,
           \/ ListDirectory(r) \/ OpenArchive(r) \/ CloseArchive(r) \/ PackFault(r) \/ OpenEntry(r)
    PROVE  Kept(r)
<1>0. /\ pc \in [Run -> Label] /\ call' = call /\ temp' = temp /\ pc[r] \in PackLabels
      /\ lost \subseteq Run /\ result \in [Run -> {-1, 0}] /\ faults \in 0 .. MaxFaults
      /\ work[r] \in Work /\ Fine(work[r].units) /\ FineFile(work[r].coded) /\ Ready(r)
      /\ work[r].entries \in Seq(Member) /\ work[r].units \in Seq(Unit) /\ edited' = edited
      /\ tree \in [Name -> [Member -> Seq(Nat) \cup {NoFile}]]
  BY RunFacts DEF TypeInv, Inv, Types, History, OnDisk, Work, PackLabels, ListDirectory,
     OpenArchive, CloseArchive, PackFault, OpenEntry
<1>1. CASE ListDirectory(r)
  <2>1. PICK passed \in {UNION S : S \in SUBSET Passed} :
          /\ IF passed = {} THEN UNCHANGED faults ELSE Fault
          /\ \E list \in SetToSeqs(Present(call[r].input) \ passed) :
                /\ work' = [work EXCEPT ![r] = [NoWork EXCEPT !.entries = list]]
                /\ IF list = <<>> THEN Ends(r, -1, "rmtemp")
                   ELSE Goto(r, "open") /\ UNCHANGED result
    BY <1>1 DEF ListDirectory
  <2>2. PICK list \in SetToSeqs(Present(call[r].input) \ passed) :
          /\ work' = [work EXCEPT ![r] = [NoWork EXCEPT !.entries = list]]
          /\ IF list = <<>> THEN Ends(r, -1, "rmtemp")
             ELSE Goto(r, "open") /\ UNCHANGED result
    BY <2>1
  <2>3. list \in Seq(Member)
    <3>1. Present(call[r].input) \ passed \in SUBSET Member BY DEF Present
    <3> QED BY <3>1, ListOfMembers
  <2> DEFINE w == [NoWork EXCEPT !.entries = list]
  <2>4. <<>> \in Seq(Unit) /\ <<>> \in Seq(Sub) /\ Fine(<<>>) /\ FineFile(Empty)
    <3>1. <<>> \in Seq(Unit) /\ <<>> \in Seq(Sub) /\ Len(<<>>) <= 1 BY EmptySeq
    <3> QED BY <3>1, EmptyIsFine, ShortIsFine
  <2>5. w \in Work /\ Fine(w.units) /\ FineFile(w.coded)
    BY <2>3, <2>4 DEF NoWork, Work, FineFile
  <2>6. work'[r] = w /\ work' = [q \in Run |-> work'[q]] BY <2>2, OwnWork
  <2> HIDE DEF w
  <2>7. pc'[r] \in {"rmtemp", "open"} /\ result' \in [Run -> {-1, 0}]
    BY <1>0, <2>2 DEF Ends, Goto
  <2>8. Locals(r)' BY <2>5, <2>6, <2>7 DEF Locals, Ready
  <2>9. UNCHANGED <<fs, lost>> BY <1>1 DEF ListDirectory
  <2>10. faults' \in 0 .. MaxFaults BY <2>1, FaultCounted
  <2>11. Addressed(r)' /\ Placed(r)' BY <1>0, <2>7, PackMoves DEF PackLabels
  <2>12. History' BY <1>0, <2>7, <2>9, <2>10 DEF TypeInv, History
  <2> QED BY <2>6, <2>8, <2>9, <2>11, <2>12, SameFiles DEF Kept
<1>2. CASE OpenArchive(r)
  <2> DEFINE w == [work[r] EXCEPT !.units = Header(Len(work[r].entries)), !.linked = TRUE]
  <2>1. work' = [work EXCEPT ![r] = w] BY <1>2 DEF OpenArchive
  <2>2. Fine(Header(Len(work[r].entries))) BY <1>0, LenProperties, HeaderIsFine
  <2>3. w \in Work /\ Fine(w.units) /\ FineFile(w.coded) BY <1>0, <2>2 DEF Work, Fine
  <2>4. work'[r] = w /\ work' = [q \in Run |-> work'[q]] BY <2>1, OwnWork
  <2> HIDE DEF w
  <2>5. /\ UNCHANGED <<dirs, tree, result, lost, faults>> /\ pc'[r] = "entry"
        /\ file' = [file EXCEPT ![temp[r]] = Empty]
    BY <1>0, <1>2 DEF OpenArchive, Goto
  <2>6. Locals(r)' BY <2>3, <2>4, <2>5 DEF Locals, Ready
  <2>7. Addressed(r)' /\ Placed(r)' BY <1>0, <2>5, PackMoves DEF PackLabels
  <2>8. History' BY <1>0, <2>5, SameHistory
  <2>9. OnDisk' /\ MembersStay BY <2>5, SetFile, EmptyIsFine
  <2> QED BY <2>4, <2>6, <2>7, <2>8, <2>9 DEF Kept
<1>3. CASE CloseArchive(r)
  <2>1. PICK stored \in {work[r].units} \cup CutUnits(work[r].units, "short") :
          /\ IF stored = work[r].units THEN UNCHANGED <<lost, faults>>
             ELSE Fault /\ lost' = lost \cup {r}
          /\ file' = IF work[r].linked
                     THEN [file EXCEPT ![temp[r]] = [Empty EXCEPT !.units = stored]]
                     ELSE file
    BY <1>3 DEF CloseArchive
  <2>2. Fine(stored) BY <1>0, <2>1, CutIsFine
  <2>3. FineFile([Empty EXCEPT !.units = stored])
    BY <2>2, EmptyIsFine DEF FineFile, Content, Empty, Fine
  <2>4. UNCHANGED <<dirs, tree, work, result>> /\ pc'[r] = "pipe"
    BY <1>0, <1>3 DEF CloseArchive, Goto
  <2>5. OnDisk' /\ MembersStay BY <2>1, <2>3, <2>4, SetFile
  <2>6. pc'[r] \notin Demanding BY <2>4 DEF Demanding
  <2>7. Addressed(r)' /\ Placed(r)' BY <1>0, <2>4, PackMoves
  <2>8. faults' \in 0 .. MaxFaults /\ lost' \subseteq Run BY <1>0, <2>1, FaultCounted
  <2>9. History' BY <1>0, <2>4, <2>8 DEF TypeInv, History
  <2> QED BY <2>4, <2>5, <2>6, <2>7, <2>9, SameLocals, SameWork DEF Kept
<1>4. CASE PackFault(r)
  <2>1. /\ UNCHANGED <<fs, work, lost>> /\ pc'[r] \in {"rmtemp", "drop"}
        /\ result' \in [Run -> {-1, 0}] /\ Fault
    BY <1>0, <1>4 DEF PackFault, Ends, Goto
  <2>2. pc'[r] \notin Demanding BY <2>1 DEF Demanding
  <2>3. Addressed(r)' /\ Placed(r)' BY <1>0, <2>1, PackMoves DEF PackLabels
  <2>4. faults' \in 0 .. MaxFaults BY <2>1, FaultCounted
  <2>5. History' BY <1>0, <2>1, <2>4 DEF TypeInv, History
  <2> QED BY <2>1, <2>2, <2>3, <2>5, SameFiles, SameLocals, SameWork DEF Kept
<1>5. CASE OpenEntry(r)
  <2>1. /\ UNCHANGED <<fs, work, lost, faults>> /\ pc[r] = "openentry"
        /\ pc'[r] \in {"drop", "copy"} /\ result' \in [Run -> {-1, 0}]
        /\ pc'[r] = "copy" => EntryBody(r) # NoFile
    BY <1>0, <1>5 DEF OpenEntry, Ends, Goto
  <2>2. Addressed(r)' /\ Placed(r)' BY <1>0, <2>1, PackMoves DEF PackLabels
  <2>3. History' BY <1>0, <2>1 DEF TypeInv, History
  <2>4. Ready(r)'
    <3>1. work' = work /\ tree' = tree BY <2>1 DEF fs
    <3> QED BY <1>0, <2>1, <3>1 DEF Ready, EntryBody
  <2>5. Locals(r)' BY <1>0, <2>1, <2>4 DEF Locals
  <2> QED BY <2>1, <2>2, <2>3, <2>5, SameFiles, SameWork DEF Kept
<1> QED BY <1>1, <1>2, <1>3, <1>4, <1>5

(* What StatEntry writes of a file.                                           *)
LEMMA EntryIsFine ==
    ASSUME NEW m \in Member, NEW n \in Nat, NEW units, Fine(units)
    PROVE  Fine(units \o <<U("path", m), U("size", n)>>)
<1> DEFINE t == <<U("path", m), U("size", n)>>
<1>1. /\ U("path", m) \in Unit /\ U("path", m).kind = "path" /\ U("path", m).val = m
      /\ U("size", n) \in Unit
  BY UnitIs, ArchiveAssumption
<1>2. t \in Seq(Unit) /\ Len(t) = 2 /\ t[1] = U("path", m) BY <1>1
<1>3. Fine(t)
  <2>1. \A i \in 1 .. Len(t) - 1 : i = 1 BY <1>2
  <2> QED BY <1>1, <1>2, <2>1 DEF Fine, NamesMembers
<1>4. t # <<>> => t[1].kind # "size" BY <1>1, <1>2
<1> HIDE DEF t
<1> QED BY <1>3, <1>4, JoinIsFine DEF t

LEMMA EntryStepsKeep ==
    ASSUME NEW r \in Run, TypeInv, StatEntry(r) \/ CopyEntry(r)
    PROVE  Kept(r)
<1> DEFINE w == work[r]
           body == EntryBody(r)
<1>0. /\ pc \in [Run -> Label] /\ pc[r] \in {"entry", "copy"}
      /\ UNCHANGED <<fs, call, temp, lost, edited, faults>> /\ result \in [Run -> {-1, 0}]
      /\ w \in Work /\ Fine(w.units) /\ FineFile(w.coded) /\ Ready(r)
      /\ w.entries \in Seq(Member) /\ w.left \in Nat /\ w.size \in Nat /\ work = [q \in Run |-> work[q]]
  BY RunFacts DEF TypeInv, Inv, Types, History, Work, StatEntry, CopyEntry
<1>1. w.entries # <<>>
  <2>1. CASE StatEntry(r) BY <2>1 DEF StatEntry
  <2>2. CASE CopyEntry(r)
    <3>1. pc[r] = "copy" BY <2>2 DEF CopyEntry
    <3> QED BY <1>0, <3>1 DEF Ready
  <2> QED BY <2>1, <2>2
<1>2. Head(w.entries) \in Member /\ Tail(w.entries) \in Seq(Member)
  BY <1>0, <1>1, HeadTailProperties
<1>3. body \in Seq(Nat) \cup {NoFile}
  <2>1. call[r].mode = "pack" /\ call[r].input \in Name
    BY <1>0, RunFacts DEF Placed, Addressed, PackLabels, Path
  <2> QED BY <1>2, <2>1 DEF TypeInv, OnDisk, EntryBody
<1>4. /\ pc'[r] \in PackLabels /\ result' \in [Run -> {-1, 0}]
      /\ pc'[r] \in Demanding => pc'[r] \in {"openentry", "copy"}
  BY <1>0 DEF StatEntry, CopyEntry, Ends, Goto, PackLabels, Demanding
<1>5. ASSUME NEW v \in Work, Fine(v.units), v.coded = w.coded, work' = [work EXCEPT ![r] = v],
             pc'[r] \in {"openentry", "copy"} => v.entries # <<>> /\ v.left <= v.size,
             pc'[r] = "copy" => tree[call[r].input][Head(v.entries)] # NoFile
      PROVE  Kept(r)
  <2>1. work'[r] = v /\ work' = [q \in Run |-> work'[q]] BY <1>5, OwnWork
  <2>2. Ready(r)'
    <3>1. call' = call /\ tree' = tree BY <1>0 DEF fs
    <3>2. pc'[r] \notin {"checkdir", "mkdir", "create", "fill"} BY <1>4 DEF PackLabels
    <3> QED BY <1>5, <2>1, <3>1, <3>2 DEF Ready
  <2>3. Locals(r)' BY <1>0, <1>5, <2>1, <2>2 DEF Locals
  <2>4. Addressed(r)' /\ Placed(r)' BY <1>0, <1>4, PackMoves DEF PackLabels
  <2>5. History' BY <1>0, <1>4 DEF TypeInv, History
  <2> QED BY <1>0, <2>1, <2>3, <2>4, <2>5, SameFiles DEF Kept
<1>6. CASE StatEntry(r)
  <2>1. CASE body = NoFile
    <3>1. work' = [work EXCEPT ![r] = w] /\ pc'[r] = "drop"
      BY <1>0, <1>6, <2>1 DEF StatEntry, Ends, Goto
    <3> QED BY <1>0, <1>5, <3>1
  <2>2. CASE body # NoFile
    <3> DEFINE units == w.units \o <<U("path", Head(w.entries)), U("size", Len(body))>>
               v == [w EXCEPT !.units = units, !.size = Len(body), !.left = Len(body)]
    <3>1. work' = [work EXCEPT ![r] = v] /\ pc'[r] = "openentry"
      BY <1>0, <1>6, <2>2 DEF StatEntry, Goto
    <3>2. Len(body) \in Nat BY <1>3, <2>2, LenProperties
    <3>3. Fine(units) /\ units \in Seq(Unit) BY <1>0, <1>2, <3>2, EntryIsFine DEF Fine
    <3> HIDE DEF units
    <3>4. /\ v \in Work /\ Fine(v.units) /\ v.coded = w.coded
          /\ v.entries # <<>> /\ v.left <= v.size
      <4>1. Len(body) <= Len(body) BY <3>2
      <4> HIDE DEF body
      <4> QED BY <1>0, <1>1, <3>2, <3>3, <4>1 DEF Work
    <3> HIDE DEF v
    <3> QED BY <1>5, <3>1, <3>4
  <2> QED BY <2>1, <2>2
<1>7. CASE CopyEntry(r)
  <2> DEFINE off == w.size - w.left
  <2>0. pc[r] = "copy" BY <1>7 DEF CopyEntry
  <2>1. /\ w.left <= w.size /\ off \in Nat /\ body \in Seq(Nat)
    BY <1>0, <1>3, <2>0 DEF Ready, EntryBody
  <2>2. CASE Copied(r)
    <3> DEFINE v == [w EXCEPT !.entries = Tail(@)]
    <3>1. work' = [work EXCEPT ![r] = v] /\ pc'[r] = "entry"
      BY <1>0, <1>7, <2>2 DEF CopyEntry, Goto
    <3>2. v \in Work /\ Fine(v.units) /\ v.coded = w.coded BY <1>0, <1>2 DEF Work
    <3> HIDE DEF v
    <3> QED BY <1>5, <3>1, <3>2
  <2>3. CASE ~Copied(r) /\ off < Len(body)
    <3> DEFINE u == U("byte", body[off + 1])
               v == [w EXCEPT !.units = Append(@, u), !.left = @ - 1]
    <3>1. work' = [work EXCEPT ![r] = v] /\ pc'[r] = pc[r]
      BY <1>0, <1>7, <2>3 DEF CopyEntry
    <3>2. Len(body) \in Nat BY <2>1, LenProperties
    <3>3. off + 1 \in 1 .. Len(body) BY <2>1, <2>3, <3>2
    <3>4. body[off + 1] \in Nat BY <2>1, <3>3, ElementOfSeq
    <3>5. u \in Unit /\ u.kind # "size" BY <3>4, UnitIs
    <3> HIDE DEF u
    <3>6. Fine(Append(w.units, u)) /\ Append(w.units, u) \in Seq(Unit)
      BY <1>0, <3>5, AppendIsFine DEF Fine
    <3>7. w.left \in Nat \ {0} BY <1>0, <2>3 DEF Copied
    <3>8. /\ v \in Work /\ Fine(v.units) /\ v.coded = w.coded
          /\ v.entries = w.entries /\ v.left <= v.size
      <4>1. w.left - 1 \in Nat /\ w.left - 1 <= w.size BY <1>0, <2>1, <3>7
      <4> QED BY <1>0, <3>6, <4>1 DEF Work
    <3>9. tree[call[r].input][Head(w.entries)] # NoFile BY <1>0, <2>0 DEF Ready
    <3> HIDE DEF v
    <3> QED BY <1>1, <1>5, <3>1, <3>8, <3>9
  <2>4. CASE ~Copied(r) /\ ~(off < Len(body))
    <3>1. work' = [work EXCEPT ![r] = w] /\ pc'[r] = "drop"
      BY <1>0, <1>7, <2>4 DEF CopyEntry, Ends, Goto
    <3> QED BY <1>0, <1>5, <3>1
  <2> QED BY <2>2, <2>3, <2>4
<1> QED BY <1>6, <1>7

(* Where the pipeline reads and what it may make of that.                     *)
LEMMA OutcomesAreFine ==
    ASSUME NEW r \in Run, TypeInv, pc[r] = "pipe", NEW c \in Outcomes(r)
    PROVE  FineFile(c)
<1> DEFINE source == file[Source(r)]
<1>1. call[r] \in Call /\ Addressed(r) /\ Placed(r) BY RunFacts
<1>2. Source(r) \in Name
  <2>1. call[r].mode # "none" /\ call[r].input \in Path BY <1>1 DEF Placed, Addressed
  <2>2. Packing(r) => temp[r] \in TempName BY <1>1 DEF Placed, Packing, Busy, Free
  <2> QED BY <2>1, <2>2, ArchiveAssumption DEF Source, Path
<1>3. \/ c = Empty
      \/ source # NoFile /\ c \in Results(call[r].operations, call[r].comp_alg, source)
  BY DEF Outcomes, ResultsOn
<1>4. source # NoFile => FineFile(source) BY <1>2 DEF TypeInv, OnDisk
<1>5. call[r].comp_alg \in Nat BY <1>1 DEF Call
<1> HIDE DEF source
<1> QED BY <1>3, <1>4, <1>5, EmptyIsFine, ResultsAreFine

LEMMA PipelineStepsKeep ==
    ASSUME NEW r \in Run, TypeInv,
           \/ PipelineOpens(r) \/ PipelineTruncates(r) \/ PipelineOk(r)
           \/ PipelineRefuses(r) \/ PipelineFails(r)
    PROVE  Kept(r)
<1> DEFINE w == work[r]
<1>0. /\ pc \in [Run -> Label] /\ lost \subseteq Run /\ faults \in 0 .. MaxFaults
      /\ w \in Work /\ Fine(w.units) /\ FineFile(w.coded) /\ Placed(r)
  BY RunFacts DEF TypeInv, Inv, Types, History
<1>1. CASE PipelineOpens(r)
  <2>1. pc[r] = "pipe" /\ UNCHANGED <<dirs, tree, call, temp, result, lost, edited>>
        /\ pc'[r] \in {"growing", "writing"}
    BY <1>0, <1>1 DEF PipelineOpens, Goto
  <2>2. PICK c \in Outcomes(r) \cup Misread(r) :
          /\ IF c \in Outcomes(r) THEN UNCHANGED faults ELSE Fault
          /\ work' = [work EXCEPT ![r].coded = c, ![r].linked = TRUE]
          /\ \E begun \in Begun(c) : file' = [file EXCEPT ![Target(r)] = begun]
    BY <1>1 DEF PipelineOpens
  <2>3. FineFile(c) BY <2>1, <2>2, OutcomesAreFine, GarbageIsFine DEF Misread
  <2>4. OnDisk' /\ MembersStay BY <2>1, <2>2, <2>3, BegunIsFine, SetFile
  <2> DEFINE v == [w EXCEPT !.coded = c, !.linked = TRUE]
  <2>5. work' = [work EXCEPT ![r] = v] BY <2>2
  <2>6. work'[r] = v /\ work' = [q \in Run |-> work'[q]] BY <2>5, OwnWork
  <2>7. v \in Work /\ Fine(v.units) /\ FineFile(v.coded)
    BY <1>0, <2>3 DEF Work, FineFile
  <2> HIDE DEF v
  <2>8. Locals(r)' BY <2>1, <2>6, <2>7 DEF Locals, Ready
  <2>9. Addressed(r)' /\ History'
    <3>1. faults' \in 0 .. MaxFaults BY <2>2, FaultCounted
    <3> QED BY <2>1, <3>1, SameAddress DEF TypeInv, History
  <2>10. Placed(r)' BY <1>0, <2>1 DEF Placed, PackLabels, UnpackLabels, Busy, Free
  <2> QED BY <2>4, <2>6, <2>8, <2>9, <2>10 DEF Kept
<1>2. CASE PipelineOk(r)
  <2>1. /\ pc[r] = "writing" /\ PipelineReturns(r, 0)
        /\ UNCHANGED <<dirs, tree, temp, work, lost, edited, faults>>
        /\ file' = file \/ file' = [file EXCEPT ![Target(r)] = w.coded]
    BY <1>2 DEF PipelineOk, Writes
  <2>2. OnDisk' /\ MembersStay BY <1>0, <2>1, SetFile
  <2>3. History' /\ Addressed(r)' /\ Placed(r)' /\ Locals(r)' BY <1>0, <2>1, ReturnKeeps
  <2> QED BY <2>1, <2>2, <2>3, SameWork DEF Kept
<1>3. CASE PipelineRefuses(r) \/ PipelineFails(r)
  <2>1. /\ pc[r] \in {"pipe", "writing", "growing"} /\ PipelineReturns(r, -1)
        /\ UNCHANGED <<fs, temp, work, lost, edited>> /\ (Fault \/ UNCHANGED faults)
    BY <1>3 DEF PipelineRefuses, PipelineFails
  <2>2. History' /\ Addressed(r)' /\ Placed(r)' /\ Locals(r)'
    BY <1>0, <2>1, FaultCounted, ReturnKeeps
  <2> QED BY <2>1, <2>2, SameFiles, SameWork DEF Kept
<1>4. CASE PipelineTruncates(r)
  <2>1. /\ pc[r] = "pipe" /\ PipelineReturns(r, -1)
        /\ UNCHANGED <<dirs, tree, temp, lost, edited, faults>>
        /\ work' = [work EXCEPT ![r] = [w EXCEPT !.linked = TRUE]]
    BY <1>4 DEF PipelineTruncates
  <2>2. OnDisk' /\ MembersStay
    <3>1. PICK c \in Results(call[r].operations, call[r].comp_alg, Empty) :
             file' = [file EXCEPT ![Target(r)] = c]
      BY <1>4 DEF PipelineTruncates, ResultsOn
    <3>2. call[r].comp_alg \in Nat BY RunFacts DEF Call
    <3>3. FineFile(c) BY <3>1, <3>2, EmptyIsFine, ResultsAreFine
    <3> QED BY <2>1, <3>1, <3>3, SetFile
  <2>3. work'[r] = [w EXCEPT !.linked = TRUE] /\ work' = [q \in Run |-> work'[q]]
    BY <2>1, OwnWork
  <2>4. History' /\ Addressed(r)' /\ Placed(r)' /\ Locals(r)'
    BY <1>0, <2>1, <2>3, ReturnKeeps
  <2> QED BY <2>2, <2>3, <2>4 DEF Kept
<1> QED BY <1>1, <1>2, <1>3, <1>4

(* A step of r within extract_directory_archive_file.                         *)
LEMMA UnpackMoves ==
    ASSUME NEW r \in Run, TypeInv, pc[r] \in UnpackLabels,
           pc'[r] \in UnpackLabels \cup {"rmtemp"}, call' = call, temp' = temp
    PROVE  Addressed(r)' /\ Placed(r)'
<1>1. Placed(r) BY RunFacts
<1>2. Addressed(r)' BY SameAddress DEF UnpackLabels
<1>3. Placed(r)' BY <1>1 DEF Placed, PackLabels, UnpackLabels, Busy, Free
<1> QED BY <1>2, <1>3

(* Such a step, with what it makes of the locals.                             *)
LEMMA UnpackStep ==
    ASSUME NEW r \in Run, TypeInv, pc[r] \in UnpackLabels,
           pc'[r] \in UnpackLabels \cup {"rmtemp"}, UNCHANGED <<file, call, temp, edited>>,
           OnDisk', MembersStay,
           result' \in [Run -> {-1, 0}], lost' \subseteq Run, Fault \/ UNCHANGED faults,
           NEW v \in Work, Fine(v.units), FineFile(v.coded), work' = [work EXCEPT ![r] = v],
           pc'[r] \in {"checkdir", "mkdir"} =>
              v.making # <<>> /\ (v.member # NoMember => v.left # 0),
           pc'[r] \in {"create", "fill"} => v.member # NoMember /\ v.left # 0,
           pc'[r] = "fill" => tree'[call[r].output][v.member] # NoFile
    PROVE  Kept(r)
<1>1. work'[r] = v /\ work' = [q \in Run |-> work'[q]] BY OwnWork
<1>2. Ready(r)'
  <2>1. pc'[r] \notin {"openentry", "copy"} BY DEF UnpackLabels
  <2> QED BY <1>1, <2>1 DEF Ready
<1>3. Locals(r)' BY <1>1, <1>2 DEF Locals
<1>4. Addressed(r)' /\ Placed(r)' BY UnpackMoves
<1>5. faults' \in 0 .. MaxFaults BY FaultCounted
<1>6. History' BY <1>5 DEF TypeInv, History
<1> QED BY <1>1, <1>3, <1>4, <1>6 DEF Kept

(* What an unpacking run knows.                                               *)
LEMMA UnpackFacts ==
    ASSUME NEW r \in Run, TypeInv, pc[r] \in UnpackLabels
    PROVE  /\ pc \in [Run -> Label] /\ result \in [Run -> {-1, 0}] /\ lost \subseteq Run
           /\ call[r].output \in Path /\ call[r].output \in Name /\ temp[r] \in Name
           /\ work = [work EXCEPT ![r] = work[r]]
           /\ work[r] \in Work /\ Fine(work[r].units) /\ FineFile(work[r].coded) /\ Ready(r)
           /\ work[r].size \in Nat /\ work[r].left \in Nat /\ work[r].units \in Seq(Unit)
           /\ work[r].making \in Seq(Sub) /\ work[r].member \in Member \cup {NoMember}
<1>1. /\ Addressed(r) /\ Placed(r) /\ work[r] \in Work /\ Fine(work[r].units)
      /\ FineFile(work[r].coded) /\ Ready(r)
  BY RunFacts
<1>2. call[r].mode = "unpack" BY <1>1 DEF Placed
<1>3. temp[r] \in TempName BY <1>1, <1>2 DEF Placed, UnpackLabels, Busy, Free
<1>4. call[r].output \in Path BY <1>1, <1>2 DEF Addressed, UnpackLabels
<1>5. work = [work EXCEPT ![r] = work[r]] BY DEF TypeInv
<1>6. pc \in [Run -> Label] /\ result \in [Run -> {-1, 0}] /\ lost \subseteq Run
  BY DEF TypeInv, Inv, Types, History
<1> QED BY <1>1, <1>3, <1>4, <1>5, <1>6, ArchiveAssumption DEF Path, Work

LEMMA HeaderStepsKeep ==
    ASSUME NEW r \in Run, TypeInv, ReadHeader(r) \/ NextEntry(r) \/ UnpackFault(r)
    PROVE  Kept(r)
<1> DEFINE w == work[r]
<1>0. pc[r] \in UnpackLabels BY DEF ReadHeader, NextEntry, UnpackFault, UnpackLabels
<1>1. /\ pc \in [Run -> Label] /\ result \in [Run -> {-1, 0}] /\ lost \subseteq Run
      /\ temp[r] \in Name /\ work = [work EXCEPT ![r] = w]
      /\ w \in Work /\ Fine(w.units) /\ FineFile(w.coded)
      /\ w.size \in Nat /\ w.left \in Nat /\ w.units \in Seq(Unit)
  BY <1>0, UnpackFacts
<1>2. UNCHANGED <<fs, call, temp, lost, edited>> /\ OnDisk' /\ MembersStay
      /\ UNCHANGED <<file, tree>>
  BY SameFiles DEF ReadHeader, NextEntry, UnpackFault, fs
<1>3. CASE pc'[r] = "rmtemp" /\ work' = work /\ (Fault \/ UNCHANGED faults)
           /\ result' \in [Run -> {-1, 0}]
  BY <1>0, <1>1, <1>2, <1>3, UnpackStep DEF UnpackLabels
<1>4. CASE UnpackFault(r)
  <2>1. pc'[r] = "rmtemp" /\ work' = work /\ Fault /\ result' \in [Run -> {-1, 0}]
    BY <1>1, <1>4 DEF UnpackFault, Ends, Goto
  <2> QED BY <1>3, <2>1
<1>5. CASE ReadHeader(r)
  <2> DEFINE c == file[temp[r]]
             ok == /\ c # NoFile /\ c.layers = <<>> /\ Len(c.units) >= 2
                   /\ c.units[1].kind = "magic" /\ c.units[2].kind = "count"
             v == [w EXCEPT !.units = SubSeq(c.units, 3, Len(c.units)),
                       !.left = c.units[2].val, !.member = NoMember, !.making = <<0>>]
  <2>1. CASE ~ok
    <3>1. pc'[r] = "rmtemp" /\ work' = work /\ UNCHANGED faults /\ result' \in [Run -> {-1, 0}]
      BY <1>1, <1>5, <2>1 DEF ReadHeader, Ends, Goto
    <3> QED BY <1>3, <3>1
  <2>2. CASE ok
    <3>1. work' = [work EXCEPT ![r] = v] /\ pc'[r] = "checkdir" /\ UNCHANGED <<faults, result>>
      BY <1>1, <1>5, <2>2 DEF ReadHeader, Goto
    <3>2. FineFile(c) BY <1>1, <2>2 DEF TypeInv, OnDisk
    <3>3. c.units \in Seq(Unit) /\ Fine(c.units) /\ Len(c.units) \in Nat
      BY <3>2, LenProperties DEF FineFile, Fine
    <3> DEFINE rest == SubSeq(c.units, 3, Len(c.units))
    <3>4. Fine(rest) /\ rest \in Seq(Unit)
      <4> DEFINE units == c.units
      <4>1. Len(units) \in Nat /\ Len(units) <= Len(units) /\ Fine(units) BY <3>3
      <4> HIDE DEF units
      <4>2. Fine(SubSeq(units, 3, Len(units))) BY <4>1, PartIsFine
      <4> QED BY <4>2 DEF Fine, units
    <3>5. c.units[2].val \in Nat
      <4>1. 2 \in 1 .. Len(c.units) BY <2>2, <3>3
      <4>2. c.units[2] \in Unit BY <3>3, <4>1, ElementOfSeq
      <4> QED BY <4>2 DEF Unit
    <3>6. <<0>> \in Seq(Sub) /\ <<0>> # <<>>
      <4>1. 0 \in Sub BY ArchiveAssumption
      <4> QED BY <4>1
    <3> DEFINE n == c.units[2].val
    <3>7. v = [w EXCEPT !.units = rest, !.left = n, !.member = NoMember, !.making = <<0>>]
      OBVIOUS
    <3> HIDE DEF v, rest, n, ok, c
    <3>8. /\ v \in Work /\ Fine(v.units) /\ FineFile(v.coded) /\ v.making # <<>>
          /\ v.member = NoMember
      BY <1>1, <3>4, <3>5, <3>6, <3>7 DEF Work, n
    <3> QED BY <1>0, <1>1, <1>2, <3>1, <3>8, UnpackStep DEF UnpackLabels
  <2> QED BY <2>1, <2>2
<1>6. CASE NextEntry(r)
  <2> DEFINE rest == w.units
             ok == ~EndOfEntries(r) /\ ~(Len(rest) < 2 \/ rest[2].kind # "size")
             v == [w EXCEPT !.member = rest[1].val, !.size = rest[2].val,
                      !.units = SubSeq(rest, 3, Len(rest)),
                      !.making = <<SubOf[rest[1].val]>>]
  <2>1. CASE ~ok
    <3>1. pc'[r] = "rmtemp" /\ work' = work /\ UNCHANGED faults /\ result' \in [Run -> {-1, 0}]
      BY <1>1, <1>6, <2>1 DEF NextEntry, Ends, Goto
    <3> QED BY <1>3, <3>1
  <2>2. CASE ok
    <3>1. work' = [work EXCEPT ![r] = v] /\ pc'[r] = "checkdir" /\ UNCHANGED <<faults, result>>
      BY <1>1, <1>6, <2>2 DEF NextEntry, Goto
    <3>2. Len(rest) \in Nat BY <1>1, LenProperties
    <3>3. 2 \in 1 .. Len(rest) /\ 1 \in 1 .. Len(rest) - 1 BY <2>2, <3>2
    <3> DEFINE m == rest[1].val
               n == rest[2].val
               more == SubSeq(rest, 3, Len(rest))
    <3>4. m \in Member
      <4>1. rest[1 + 1].kind = "size" BY <2>2
      <4> QED BY <1>1, <3>3, <4>1 DEF Fine, NamesMembers
    <3>5. n \in Nat
      <4>1. rest[2] \in Unit BY <1>1, <3>3, ElementOfSeq
      <4> QED BY <4>1 DEF Unit
    <3>6. Fine(more) /\ more \in Seq(Unit)
      <4>1. Len(rest) <= Len(rest) BY <3>2
      <4> HIDE DEF rest
      <4>2. Fine(rest) BY <1>1 DEF rest
      <4>3. Fine(SubSeq(rest, 3, Len(rest))) BY <3>2, <4>1, <4>2, PartIsFine
      <4> QED BY <4>3 DEF Fine
    <3> DEFINE up == <<SubOf[m]>>
    <3>7. up \in Seq(Sub) /\ up # <<>>
      <4>1. SubOf[m] \in Sub BY <3>4, ArchiveAssumption
      <4> QED BY <4>1
    <3>8. w.left # 0 BY <2>2 DEF EndOfEntries
    <3>9. v = [w EXCEPT !.member = m, !.size = n, !.units = more, !.making = up]
      OBVIOUS
    <3> HIDE DEF v, more, n, m, up, ok, rest
    <3>10. /\ v \in Work /\ Fine(v.units) /\ FineFile(v.coded) /\ v.making # <<>> /\ v.left # 0
      BY <1>1, <3>4, <3>5, <3>6, <3>7, <3>8, <3>9 DEF Work
    <3> QED BY <1>0, <1>1, <1>2, <3>1, <3>10, UnpackStep DEF UnpackLabels
  <2> QED BY <2>1, <2>2
<1> QED BY <1>4, <1>5, <1>6

LEMMA MadeKeeps ==
    ASSUME NEW r \in Run, TypeInv, pc[r] \in {"checkdir", "mkdir"}, Made(r),
           UNCHANGED <<file, call, temp, edited, lost, faults>>, OnDisk', MembersStay
    PROVE  Kept(r)
<1> DEFINE w == work[r]
           v == [w EXCEPT !.making = Tail(@)]
<1>0. pc[r] \in UnpackLabels BY DEF UnpackLabels
<1>1. /\ pc \in [Run -> Label] /\ result \in [Run -> {-1, 0}] /\ lost \subseteq Run
      /\ w \in Work /\ Fine(w.units) /\ FineFile(w.coded) /\ Ready(r)
      /\ w.making \in Seq(Sub) /\ w.member \in Member \cup {NoMember}
  BY <1>0, UnpackFacts
<1>2. w.making # <<>> /\ (w.member # NoMember => w.left # 0) BY <1>1 DEF Ready
<1>3. Tail(w.making) \in Seq(Sub) /\ Len(Tail(w.making)) = Len(w.making) - 1 /\ Len(w.making) \in Nat
  BY <1>1, <1>2, HeadTailProperties, LenProperties
<1>4. Len(w.making) > 1 => Tail(w.making) # <<>>
  <2> DEFINE rest == Tail(w.making)
  <2>1. rest = <<>> => Len(rest) = 0
    <3> HIDE DEF rest
    <3> QED BY EmptySeq
  <2>2. Len(rest) = Len(w.making) - 1 /\ Len(w.making) \in Nat BY <1>3
  <2> DEFINE n == Len(w.making)
             k == Len(rest)
  <2>3. k = n - 1 /\ n \in Nat /\ (rest = <<>> => k = 0) BY <2>1, <2>2
  <2> HIDE DEF n, k, rest
  <2>4. n > 1 => rest # <<>> BY <2>3
  <2> QED BY <2>4 DEF n, rest
<1>5. /\ work' = [work EXCEPT ![r] = v] /\ result' = result
      /\ pc'[r] = IF Len(w.making) > 1 THEN "mkdir"
                  ELSE IF w.member = NoMember THEN "next" ELSE "create"
  BY <1>1 DEF Made, Goto
<1>6. /\ v \in Work /\ Fine(v.units) /\ FineFile(v.coded) /\ v.making = Tail(w.making)
      /\ v.member = w.member /\ v.left = w.left
  BY <1>1, <1>3 DEF Work
<1> HIDE DEF v
<1>7. /\ pc'[r] \in {"mkdir", "next", "create"}
      /\ pc'[r] = "mkdir" => v.making # <<>> /\ (v.member # NoMember => v.left # 0)
      /\ pc'[r] = "create" => v.member # NoMember /\ v.left # 0
  BY <1>2, <1>4, <1>5, <1>6
<1> QED BY <1>0, <1>1, <1>5, <1>6, <1>7, UnpackStep DEF UnpackLabels

LEMMA DirectoryStepsKeep ==
    ASSUME NEW r \in Run, TypeInv, CheckDirectory(r) \/ MakeDirectory(r)
    PROVE  Kept(r)
<1> DEFINE w == work[r]
<1>0. pc[r] \in UnpackLabels /\ pc[r] \in {"checkdir", "mkdir"}
      /\ UNCHANGED <<file, tree, call, temp, lost, edited, faults>>
  BY DEF CheckDirectory, MakeDirectory, UnpackLabels, fs
<1>1. /\ pc \in [Run -> Label] /\ result \in [Run -> {-1, 0}] /\ lost \subseteq Run
      /\ call[r].output \in Path /\ work = [work EXCEPT ![r] = w]
      /\ w \in Work /\ Fine(w.units) /\ FineFile(w.coded) /\ Ready(r)
      /\ w.making \in Seq(Sub)
  BY <1>0, UnpackFacts
<1>2. w.making # <<>> /\ (w.member # NoMember => w.left # 0) BY <1>0, <1>1 DEF Ready
<1>3. Head(w.making) \in Sub BY <1>1, <1>2, HeadTailProperties
<1>4. dirs \subseteq Path \X Sub BY DEF TypeInv, OnDisk
<1>5. (dirs' = dirs \/ dirs' = dirs \cup {Directory(r)}) => OnDisk' /\ MembersStay
  <2> SUFFICES ASSUME dirs' = dirs \/ dirs' = dirs \cup {Directory(r)} PROVE OnDisk' /\ MembersStay
    OBVIOUS
  <2>1. dirs' \subseteq Path \X Sub BY <1>1, <1>3, <1>4 DEF Directory
  <2> QED BY <1>0, <2>1 DEF TypeInv, OnDisk, MembersStay
<1>6. CASE Made(r) /\ OnDisk' /\ MembersStay BY <1>0, <1>6, MadeKeeps
<1>7. CASE pc'[r] \in {"rmtemp", "mkdir"} /\ work' = work /\ result' \in [Run -> {-1, 0}]
           /\ OnDisk' /\ MembersStay
  BY <1>0, <1>1, <1>2, <1>7, UnpackStep DEF UnpackLabels
<1>8. CASE CheckDirectory(r)
  <2>1. OnDisk' /\ MembersStay BY <1>5, <1>8 DEF CheckDirectory, fs
  <2>2. CASE Made(r) BY <1>6, <2>1, <2>2
  <2>3. CASE ~Made(r)
    <3>1. pc'[r] \in {"rmtemp", "mkdir"} /\ work' = work /\ result' \in [Run -> {-1, 0}]
      BY <1>1, <1>8, <2>3 DEF CheckDirectory, Ends, Goto
    <3> QED BY <1>7, <2>1, <3>1
  <2> QED BY <2>2, <2>3
<1>9. CASE MakeDirectory(r)
  <2> DEFINE dir == Directory(r)
             parent == ParentSub[dir[2]]
             v == [w EXCEPT !.making = <<parent>> \o @]
  <2>1. OnDisk' /\ MembersStay BY <1>5, <1>9 DEF MakeDirectory
  <2>2. CASE Made(r) BY <1>6, <2>1, <2>2
  <2>3. CASE Exists(r)
    <3>1. pc'[r] = "rmtemp" /\ work' = work /\ result' \in [Run -> {-1, 0}]
      BY <1>1, <1>9, <2>3 DEF MakeDirectory, Ends, Goto
    <3> QED BY <1>7, <2>1, <3>1
  <2>4. CASE ~Made(r) /\ ~Exists(r)
    <3>1. /\ work' = [work EXCEPT ![r] = v] /\ pc'[r] = "checkdir" /\ result' = result
          /\ dir[2] # 0
      BY <1>1, <1>9, <2>4 DEF MakeDirectory, Goto
    <3>2. parent \in Sub
      <4>1. dir[2] \in Sub \ {0} BY <1>3, <3>1 DEF Directory
      <4> QED BY <4>1, ArchiveAssumption
    <3> DEFINE up == <<parent>> \o w.making
    <3>3. up \in Seq(Sub) /\ up # <<>>
      <4>1. <<parent>> \in Seq(Sub) /\ Len(<<parent>>) = 1 BY <3>2
      <4>2. up \in Seq(Sub) /\ Len(up) = 1 + Len(w.making) /\ Len(w.making) \in Nat
        BY <1>1, <4>1, ConcatProperties, LenProperties
      <4> QED BY <4>2
    <3>4. v = [w EXCEPT !.making = up] OBVIOUS
    <3> HIDE DEF v, up
    <3>5. /\ v \in Work /\ Fine(v.units) /\ FineFile(v.coded) /\ v.making # <<>>
          /\ v.member = w.member /\ v.left = w.left
      BY <1>1, <3>3, <3>4 DEF Work
    <3> QED BY <1>0, <1>1, <1>2, <2>1, <3>1, <3>5, UnpackStep DEF UnpackLabels
  <2> QED BY <2>2, <2>3, <2>4
<1> QED BY <1>8, <1>9

(* The file of a member is written, and the run goes on or gives up.          *)
LEMMA MemberStepsKeep ==
    ASSUME NEW r \in Run, TypeInv, CreateMember(r) \/ FillMember(r) \/ FillFault(r)
    PROVE  Kept(r)
<1> DEFINE w == work[r]
           old == tree[call[r].output][w.member]
           v == [w EXCEPT !.left = @ - 1, !.units = SubSeq(@, w.size + 1, Len(@))]
<1>0. /\ pc[r] \in UnpackLabels /\ pc[r] \in {"create", "fill"}
      /\ UNCHANGED <<file, dirs, call, temp, edited>> /\ (Fault \/ UNCHANGED faults)
  BY DEF CreateMember, FillMember, FillFault, UnpackLabels
<1>1. /\ pc \in [Run -> Label] /\ result \in [Run -> {-1, 0}] /\ lost \subseteq Run
      /\ call[r].output \in Name /\ work = [work EXCEPT ![r] = w]
      /\ w \in Work /\ Fine(w.units) /\ FineFile(w.coded) /\ Ready(r)
      /\ w.size \in Nat /\ w.left \in Nat /\ w.units \in Seq(Unit)
      /\ w.member \in Member \cup {NoMember}
  BY <1>0, UnpackFacts
<1>2. w.member \in Member /\ w.member # NoMember /\ w.left # 0
  BY <1>0, <1>1 DEF Ready
<1>3. OnDisk BY DEF TypeInv
<1>4. ASSUME NEW body \in Seq(Nat), SetMember(r, body)
      PROVE  OnDisk' /\ MembersStay /\ tree'[call[r].output][w.member] # NoFile
  <2>1. /\ MembersStay /\ tree' \in [Name -> [Member -> Seq(Nat) \cup {NoFile}]]
        /\ tree'[call[r].output][w.member] # NoFile
    BY <1>1, <1>2, <1>3, <1>4, MemberSet
  <2> QED BY <1>0, <1>3, <2>1 DEF OnDisk
<1>5. CASE CreateMember(r)
  <2>1. SetMember(r, <<>>) /\ pc'[r] = "fill" /\ UNCHANGED <<work, result, lost>>
    BY <1>1, <1>5 DEF CreateMember, Goto
  <2>2. <<>> \in Seq(Nat) BY EmptySeq
  <2>3. OnDisk' /\ MembersStay /\ tree'[call[r].output][w.member] # NoFile
    BY <1>4, <2>1, <2>2
  <2> QED BY <1>0, <1>1, <1>2, <2>1, <2>3, UnpackStep DEF UnpackLabels
<1>6. CASE FillMember(r) \/ FillFault(r)
  <2>1. pc[r] = "fill" BY <1>6 DEF FillMember, FillFault
  <2>2. old \in Seq(Nat)
    <3>1. old # NoFile BY <1>1, <2>1 DEF Ready
    <3> QED BY <1>1, <1>2, <1>3, <3>1 DEF OnDisk
  <2>3. /\ Available(r) \in Seq(Nat)
        /\ Len(Available(r)) <= w.size /\ Len(Available(r)) <= Len(w.units)
    BY <1>1, AvailableBytes
  <2>4. Len(Available(r)) \in Nat /\ Len(w.units) \in Nat BY <1>1, <2>3, LenProperties
  <2>5. OnDisk' /\ MembersStay
    <3>1. CASE FillMember(r)
      <4>1. Put(Available(r), old) \in Seq(Nat) BY <2>2, <2>3, PutBytes
      <4> QED BY <1>4, <3>1, <4>1 DEF FillMember
    <3>2. CASE FillFault(r)
      <4>1. IsWhole(r) BY <3>2 DEF FillFault
      <4>2. PICK n \in 0 .. w.size - 1 : SetMember(r, Put(SubSeq(Available(r), 1, n), old))
        BY <3>2 DEF FillFault
      <4>3. n \in Nat /\ n <= Len(Available(r)) BY <1>1, <4>1, <4>2 DEF IsWhole
      <4>4. SubSeq(Available(r), 1, n) \in Seq(Nat)
        <5>1. \A i \in 1 .. n : Available(r)[i] \in Nat
          <6>1. \A i \in 1 .. n : i \in 1 .. Len(Available(r)) BY <2>4, <4>3
          <6> QED BY <2>3, <6>1, ElementOfSeq
        <5>2. 1 \in Int /\ n \in Int BY <4>3
        <5> QED BY <5>1, <5>2, SubSeqProperties
      <4>5. Put(SubSeq(Available(r), 1, n), old) \in Seq(Nat) BY <2>2, <4>4, PutBytes
      <4> QED BY <1>4, <4>2, <4>5
    <3> QED BY <1>6, <3>1, <3>2
  <2>6. CASE pc'[r] = "rmtemp" /\ work' = work /\ result' \in [Run -> {-1, 0}] /\ lost' = lost
    BY <1>0, <1>1, <2>5, <2>6, UnpackStep DEF UnpackLabels
  <2>7. CASE /\ pc'[r] = "next" /\ work' = [work EXCEPT ![r] = v] /\ result' = result
             /\ lost' \subseteq Run /\ IsWhole(r)
    <3> DEFINE rest == SubSeq(w.units, w.size + 1, Len(w.units))
               n == w.left - 1
    <3>1. Fine(rest) /\ rest \in Seq(Unit)
      <4>1. w.size + 1 \in Nat \ {0} /\ Len(w.units) <= Len(w.units) BY <1>1, <2>4
      <4> QED BY <1>1, <2>4, <4>1, PartIsFine DEF Fine
    <3>2. n \in Nat BY <1>1, <1>2
    <3>3. v = [w EXCEPT !.left = n, !.units = rest] OBVIOUS
    <3> HIDE DEF v, rest, n
    <3>4. v \in Work /\ Fine(v.units) /\ FineFile(v.coded)
      BY <1>1, <3>1, <3>2, <3>3 DEF Work
    <3> QED BY <1>0, <1>1, <2>5, <2>7, <3>4, UnpackStep DEF UnpackLabels
  <2>8. CASE FillMember(r)
    <3>1. CASE IsWhole(r) BY <1>1, <2>7, <2>8, <3>1 DEF FillMember, Goto
    <3>2. CASE ~IsWhole(r) BY <1>1, <2>6, <2>8, <3>2 DEF FillMember, Ends, Goto
    <3> QED BY <3>1, <3>2
  <2>9. CASE FillFault(r)
    <3>1. IsWhole(r) BY <2>9 DEF FillFault
    <3>2. \/ Ends(r, -1, "rmtemp") /\ UNCHANGED <<work, lost>>
          \/ /\ work' = [work EXCEPT ![r] = v] /\ lost' = lost \cup {r}
             /\ Goto(r, "next") /\ UNCHANGED result
      BY <2>9 DEF FillFault
    <3> QED BY <1>1, <2>6, <2>7, <3>1, <3>2 DEF Ends, Goto
  <2> QED BY <1>6, <2>8, <2>9
<1> QED BY <1>5, <1>6

LEMMA ArchiveStepsKeep ==
    ASSUME NEW r \in Run, TypeInv, ArchiveStep(r)
    PROVE  Kept(r)
BY TempStepsKeep, PackStepsKeep, EntryStepsKeep, PipelineStepsKeep, HeaderStepsKeep,
   DirectoryStepsKeep, MemberStepsKeep DEF ArchiveStep

LEMMA StepKeepsTypes ==
    ASSUME NEW r \in Run, TypeInv, Step(r), Inv'
    PROVE  TypeInv'
<1>1. Kept(r)
  BY ArchiveStepsKeep, StartStepsKeep DEF Step
<1>2. \A s \in Run \ {r} : Undisturbed(s)
  BY ArchiveStepsSpare, StartStepsSpare DEF Step
<1>3. \A s \in Run : Addressed(s)' /\ Placed(s)' /\ Locals(s)'
  <2> SUFFICES ASSUME NEW s \in Run PROVE Addressed(s)' /\ Placed(s)' /\ Locals(s)'
    OBVIOUS
  <2>1. CASE s = r BY <1>1, <2>1 DEF Kept
  <2>2. CASE s # r BY <1>1, <1>2, <2>2, UndisturbedKeep DEF Kept
  <2> QED BY <2>1, <2>2
<1> QED BY <1>1, <1>3 DEF TypeInv, Kept

LEMMA KillKeepsTypes ==
    ASSUME NEW r \in Run, TypeInv, Kill(r), Inv'
    PROVE  TypeInv'
<1>1. /\ UNCHANGED <<fs, call, temp, work, result, lost, edited>> /\ Fault
      /\ pc' = [pc EXCEPT ![r] = "killed"] /\ pc \in [Run -> Label]
  BY DEF Kill, Goto, locals, TypeInv, Inv, Types
<1>2. OnDisk' /\ MembersStay /\ work' = [q \in Run |-> work'[q]]
  BY <1>1, SameFiles, SameWork
<1>3. History'
  <2>1. faults' \in 0 .. MaxFaults BY <1>1, FaultCounted
  <2> QED BY <1>1, <2>1 DEF TypeInv, History
<1>4. \A s \in Run : Addressed(s)' /\ Placed(s)' /\ Locals(s)'
  <2> SUFFICES ASSUME NEW s \in Run PROVE Addressed(s)' /\ Placed(s)' /\ Locals(s)'
    OBVIOUS
  <2>1. CASE s = r
    <3>1. pc'[s] = "killed" /\ UNCHANGED <<call, temp, work>> BY <1>1, <2>1
    <3>2. pc'[s] \notin Demanding BY <3>1 DEF Demanding
    <3>3. Placed(s)' BY <3>1 DEF Placed, PackLabels, UnpackLabels, Busy, Free
    <3> QED BY <3>1, <3>2, <3>3, SameLocals, SameAddress
  <2>2. CASE s # r
    <3>1. Undisturbed(s) BY <1>1, <2>2 DEF Undisturbed
    <3> QED BY <1>2, <3>1, UndisturbedKeep
  <2> QED BY <2>1, <2>2
<1> QED BY <1>2, <1>3, <1>4 DEF TypeInv

(* Users write to a file that is open, and remove none of those.              *)
LEMMA EditKeepsTypes ==
    ASSUME TypeInv, NEW n \in plan.changing, NEW m \in Member, NEW body \in Body \cup {NoFile},
           Edit(n, m, body), Inv'
    PROVE  TypeInv'
<1>1. /\ UNCHANGED <<file, dirs, pc, call, temp, work, result, lost, faults>>
      /\ tree' = [tree EXCEPT ![n][m] = body] /\ edited' = edited \cup {<<n, m>>}
      /\ body = NoFile => ~IsOpen(n, m)
  BY DEF Edit, locals
<1>2. n \in Name
  <2>1. plan \in Planned BY DEF TypeInv, Inv, Types
  <2>2. PICK p \in Plans : plan = p.plan BY <2>1 DEF Planned
  <2> QED BY <2>2, PlanAssumption DEF Path
<1>3. body \in Seq(Nat) \cup {NoFile} BY ArchiveAssumption
<1>4. OnDisk' BY <1>1, <1>3 DEF TypeInv, OnDisk
<1>5. History' BY <1>1, <1>2 DEF TypeInv, History
<1>6. \A s \in Run : Addressed(s)' /\ Placed(s)' /\ Locals(s)'
  <2> SUFFICES ASSUME NEW s \in Run PROVE Addressed(s)' /\ Placed(s)' /\ Locals(s)'
    OBVIOUS
  <2>1. /\ Addressed(s) /\ Placed(s) /\ Ready(s) /\ call[s] \in Call
        /\ work[s] \in Work /\ Fine(work[s].units) /\ FineFile(work[s].coded)
    BY RunFacts
  <2>2. Addressed(s)' /\ Placed(s)' BY <1>1, <2>1 DEF Addressed, Placed
  <2>3. tree \in [Name -> [Member -> Seq(Nat) \cup {NoFile}]] BY DEF TypeInv, OnDisk
  <2>4. \A k \in Name, q \in Member :
           tree'[k][q] = IF k = n /\ q = m THEN body ELSE tree[k][q]
    BY <1>1, <2>3
  <2>5. pc[s] = "copy" => tree'[call[s].input][Head(work[s].entries)] # NoFile
    <3> SUFFICES ASSUME pc[s] = "copy" PROVE tree'[call[s].input][Head(work[s].entries)] # NoFile
      OBVIOUS
    <3>1. call[s].input \in Name BY <2>1 DEF Placed, Addressed, PackLabels, Path
    <3>2. /\ work[s].entries \in Seq(Member) /\ work[s].entries # <<>>
          /\ tree[call[s].input][Head(work[s].entries)] # NoFile
      BY <2>1 DEF Ready, Work
    <3>3. Head(work[s].entries) \in Member BY <3>2, HeadTailProperties
    <3>4. call[s].input = n /\ Head(work[s].entries) = m => IsOpen(n, m) BY DEF IsOpen
    <3> QED BY <1>1, <2>4, <3>1, <3>2, <3>3, <3>4
  <2>6. pc[s] = "fill" => tree'[call[s].output][work[s].member] # NoFile
    <3> SUFFICES ASSUME pc[s] = "fill" PROVE tree'[call[s].output][work[s].member] # NoFile
      OBVIOUS
    <3>1. call[s].output \in Name BY <2>1 DEF Placed, Addressed, UnpackLabels, Path
    <3>2. work[s].member \in Member /\ tree[call[s].output][work[s].member] # NoFile
      BY <2>1 DEF Ready, Work
    <3>3. call[s].output = n /\ work[s].member = m => IsOpen(n, m) BY DEF IsOpen
    <3> QED BY <1>1, <2>4, <3>1, <3>2, <3>3
  <2>7. Ready(s)' BY <1>1, <2>1, <2>5, <2>6 DEF Ready
  <2> QED BY <1>1, <2>1, <2>2, <2>7 DEF Locals
<1> QED BY <1>1, <1>4, <1>5, <1>6 DEF TypeInv

LEMMA StutterKeepsTypes ==
    ASSUME TypeInv, UNCHANGED vars, Inv'
    PROVE  TypeInv'
<1>1. UNCHANGED <<file, dirs, tree, pc, call, temp, work, result, lost, edited, faults>>
  BY DEF vars, avars, fs, locals
<1>2. OnDisk' /\ History' BY <1>1 DEF TypeInv, OnDisk, History
<1>3. \A s \in Run : Addressed(s)' /\ Placed(s)' /\ Locals(s)'
  BY <1>1 DEF TypeInv, Addressed, Placed, Locals, Ready
<1> QED BY <1>1, <1>2, <1>3 DEF TypeInv

LEMMA NextKeepsTypes ==
    ASSUME TypeInv, [Next]_vars
    PROVE  TypeInv'
<1>1. Inv' BY NextPreserves DEF TypeInv
<1> QED BY <1>1, StepKeepsTypes, KillKeepsTypes, EditKeepsTypes, StutterKeepsTypes DEF Next

LEMMA InitTypes ==
    ASSUME Init
    PROVE  TypeInv
<1>1. PICK p \in Plans : plan = p.plan /\ file = p.file /\ dirs = p.dirs /\ tree = p.tree
  BY DEF Init
<1>2. OnDisk
  <2>1. \A n \in Name : file[n] # NoFile => FineFile(file[n])
    <3> SUFFICES ASSUME NEW n \in Name, file[n] # NoFile PROVE FineFile(file[n])
      OBVIOUS
    <3>1. n \in Path BY <1>1, PlanAssumption DEF Path
    <3>2. file[n] \in Content /\ NamesMembers(file[n].units) BY <1>1, <3>1, PlanAssumption
    <3> QED BY <3>2 DEF FineFile, Fine, Content
  <2> QED BY <1>1, <2>1, PlanAssumption DEF OnDisk
<1>3. /\ \A r \in Run : /\ pc[r] = "idle" /\ call[r] = NoCall /\ work[r] = NoWork
      /\ History /\ work = [r \in Run |-> work[r]]
  BY ArchiveAssumption DEF Init, History
<1>4. NoWork \in Work /\ Fine(NoWork.units) /\ FineFile(NoWork.coded)
  <2>1. /\ <<>> \in Seq(Unit) /\ <<>> \in Seq(Sub) /\ <<>> \in Seq(Member) /\ Len(<<>>) <= 1
    BY EmptySeq
  <2>2. Fine(<<>>) /\ FineFile(Empty) BY <2>1, ShortIsFine, EmptyIsFine
  <2> QED BY <2>1, <2>2 DEF NoWork, Work, FineFile
<1>5. \A r \in Run : Addressed(r) /\ Placed(r) /\ Locals(r)
  <2> SUFFICES ASSUME NEW r \in Run PROVE Addressed(r) /\ Placed(r) /\ Locals(r)
    OBVIOUS
  <2>1. Addressed(r) BY <1>3 DEF Addressed, NoCall
  <2>2. Placed(r) BY <1>3 DEF Placed, PackLabels, UnpackLabels, Busy, Free
  <2>3. Locals(r) BY <1>3, <1>4 DEF Locals, Ready
  <2> QED BY <2>1, <2>2, <2>3
<1> QED BY <1>2, <1>3, <1>5, InitEstablishes DEF TypeInv

LEMMA TypeInvImplies ==
    ASSUME TypeInv
    PROVE  TypeOK
<1>1. Inv /\ Types /\ OnDisk /\ History BY DEF TypeInv, Inv
<1>2. file \in [Name -> Content \cup {NoFile}] BY <1>1 DEF Types, OnDisk, FineFile
<1>3. work \in [Run -> Work] BY DEF TypeInv, Locals
<1> QED BY <1>1, <1>2, <1>3 DEF TypeOK, ArchiveTypeOK, Types, Label, OnDisk, History, Path

(* Types are kept, whatever is packed, extracted, coded, damaged or killed: a *)
(* list is read to its end and no further, the bytes left to copy never run   *)
(* below zero, every member that is created is one of the directory's (Spec   *)
(* implies TypeOK).                                                           *)
THEOREM TypeCorrect == Spec => []TypeOK
BY InitTypes, NextKeepsTypes, TypeInvImplies, PTL DEF Spec

(************************ what was asked for is done *************************)

(* A run that has not begun has no names.                                     *)
Fresh(r) ==
    /\ pc[r] = "idle" => call[r] = NoCall
    /\ pc[r] = "dispatch" => call[r].mode = "none"

(* The operations are those of the command line.                              *)
Requested(r) ==
    LET asked == call[r].operations
    IN (/\ r \in DOMAIN plan.does /\ plan.does[r].entry = "main"
        /\ pc[r] = "dispatch" \/ call[r].mode # "none")
       => /\ asked = Asked(plan.does[r].argv) /\ asked # {}
          /\ ~({"OP_COMPRESS", "OP_DECOMPRESS"} \subseteq asked)
          /\ ~({"OP_ENCRYPT", "OP_DECRYPT"} \subseteq asked)

(* Nobody else may have the input or the output of r for an output.           *)
Private(r) ==
    /\ call[r].mode = "file" /\ call[r].input # call[r].output
    /\ \A s \in Run \ {r} : MayWrite(call[s]) \cap {call[r].input, call[r].output} = {}

(* What is being written, and then what was, is a result of the input, or what*)
(* an old-format decoder makes of it.                                         *)
Coded(r) ==
    LET from == file[call[r].input]
    IN Private(r) =>
          /\ pc[r] = "writing" => from # NoFile /\ work[r].coded \in ResultsOn(r, from) \cup {Garbage}
          /\ Returned(r, 0) => from # NoFile /\ file[call[r].output] \in ResultsOn(r, from) \cup {Garbage}

DoneInv == TypeInv /\ NameInv /\ \A r \in Run : Fresh(r) /\ Requested(r) /\ Coded(r)

(* A step within archive.c or the pipeline keeps what the call was given.     *)
SameCall(r) ==
    /\ call'[r].input = call[r].input /\ call'[r].output = call[r].output
    /\ call'[r].operations = call[r].operations /\ call'[r].comp_alg = call[r].comp_alg
    /\ call'[r].named = call[r].named

LEMMA ArchiveStepsKeepCall ==
    ASSUME NEW r \in Run, TypeInv, ArchiveStep(r)
    PROVE  /\ SameCall(r) /\ (call'[r].mode = call[r].mode \/ call'[r].mode = "file")
           /\ pc[r] \notin {"idle", "dispatch", "name", "returned", "killed"}
           /\ pc'[r] \notin {"idle", "dispatch"}
<1>0. pc \in [Run -> Label] /\ call \in [Run -> Call] /\ call[r] \in Call
  BY DEF TypeInv, Inv, Types
<1>1. ASSUME NEW status, Return(r, status)
      PROVE  /\ SameCall(r) /\ (call'[r].mode = call[r].mode \/ call'[r].mode = "file")
             /\ pc'[r] \notin {"idle", "dispatch"}
  <2>1. \/ call' = call
        \/ call' = [call EXCEPT ![r] = [call[r] EXCEPT !.mode = "file", !.fallback = FALSE]]
    BY <1>0, <1>1 DEF Return
  <2>2. pc'[r] \in {"name", "returned"} BY <1>0, <1>1 DEF Return, Ends, Goto
  <2>3. \/ call'[r] = call[r] \/ call'[r] = [call[r] EXCEPT !.mode = "file", !.fallback = FALSE]
    BY <1>0, <2>1
  <2>4. SameCall(r) /\ (call'[r].mode = call[r].mode \/ call'[r].mode = "file")
    BY <1>0, <2>3 DEF SameCall, Call
  <2> QED BY <2>2, <2>4
<1>2. CASE TempFails(r) \/ RemoveTemp(r)
  BY <1>1, <1>2 DEF TempFails, RemoveTemp
<1>3. CASE PipelineTruncates(r) \/ PipelineOk(r) \/ PipelineRefuses(r) \/ PipelineFails(r)
  <2>1. /\ \E status : PipelineReturns(r, status)
        /\ pc[r] \in {"pipe", "writing", "growing"}
    BY <1>3 DEF PipelineTruncates, PipelineOk, PipelineRefuses, PipelineFails
  <2>2. CASE \E status : Return(r, status) BY <1>1, <2>1, <2>2
  <2>3. CASE ~ \E status : Return(r, status)
    <3>1. call' = call /\ pc'[r] \in {"header", "rmtemp"}
      BY <1>0, <2>1, <2>3 DEF PipelineReturns, Ends, Goto
    <3> QED BY <2>1, <3>1 DEF SameCall
  <2> QED BY <2>2, <2>3
<1>4. CASE \/ MakeTemp(r) \/ ListDirectory(r) \/ OpenArchive(r) \/ StatEntry(r)
           \/ OpenEntry(r) \/ CopyEntry(r) \/ CloseArchive(r) \/ PackFault(r)
           \/ DropArchive(r) \/ PipelineOpens(r)
  <2>1. call' = call
    BY <1>4 DEF MakeTemp, ListDirectory, OpenArchive, StatEntry, OpenEntry, CopyEntry,
       CloseArchive, PackFault, DropArchive, PipelineOpens
  <2>2. pc[r] \notin {"idle", "dispatch", "name", "returned", "killed"}
    BY <1>4 DEF MakeTemp, ListDirectory, OpenArchive, StatEntry, OpenEntry, CopyEntry,
       CloseArchive, PackFault, DropArchive, PipelineOpens, PackLabels
  <2>3. pc'[r] \notin {"idle", "dispatch"}
    BY <1>0, <1>4 DEF MakeTemp, ListDirectory, OpenArchive, StatEntry, OpenEntry, CopyEntry,
       CloseArchive, PackFault, DropArchive, PipelineOpens, Ends, Goto
  <2> QED BY <2>1, <2>2, <2>3 DEF SameCall
<1>5. CASE \/ ReadHeader(r) \/ CheckDirectory(r) \/ MakeDirectory(r) \/ NextEntry(r)
           \/ CreateMember(r) \/ FillMember(r) \/ FillFault(r) \/ UnpackFault(r)
  <2>1. call' = call
    BY <1>5 DEF ReadHeader, CheckDirectory, MakeDirectory, NextEntry,
       CreateMember, FillMember, FillFault, UnpackFault
  <2>2. pc[r] \notin {"idle", "dispatch", "name", "returned", "killed"}
    BY <1>5 DEF ReadHeader, CheckDirectory, MakeDirectory, NextEntry,
       CreateMember, FillMember, FillFault, UnpackFault
  <2>3. pc'[r] \notin {"idle", "dispatch"}
    BY <1>0, <1>5 DEF ReadHeader, CheckDirectory, MakeDirectory, NextEntry,
       CreateMember, FillMember, FillFault, UnpackFault, Ends, Goto, Made
  <2> QED BY <2>1, <2>2, <2>3 DEF SameCall
<1> QED BY <1>2, <1>3, <1>4, <1>5 DEF ArchiveStep

(* A step of r says nothing of the status of another.                         *)
LEMMA ResultSpared ==
    ASSUME NEW r \in Run, TypeInv, Step(r), NEW s \in Run \ {r}
    PROVE  result'[s] = result[s]
<1>1. \E status : result' = result \/ result' = [result EXCEPT ![r] = status]
  <2>1. CASE Main(r) \/ Dispatch(r) \/ NameOutput(r) \/ CallLibrary(r)
    BY <2>1 DEF Main, Dispatch, NameOutput, CallLibrary, Ends
  <2>2. CASE TempFails(r) \/ RemoveTemp(r)
    <3>1. \E status : Return(r, status) BY <2>2 DEF TempFails, RemoveTemp
    <3> QED BY <3>1 DEF Return, Ends
  <2>3. CASE PipelineTruncates(r) \/ PipelineOk(r) \/ PipelineRefuses(r) \/ PipelineFails(r)
    <3>1. \E status : PipelineReturns(r, status)
      BY <2>3 DEF PipelineTruncates, PipelineOk, PipelineRefuses, PipelineFails
    <3> QED BY <3>1 DEF PipelineReturns, Return, Ends
  <2>4. CASE \/ MakeTemp(r) \/ ListDirectory(r) \/ OpenArchive(r) \/ StatEntry(r)
             \/ OpenEntry(r) \/ CopyEntry(r) \/ CloseArchive(r) \/ PackFault(r)
             \/ DropArchive(r) \/ PipelineOpens(r)
    BY <2>4 DEF MakeTemp, ListDirectory, OpenArchive, StatEntry, OpenEntry, CopyEntry,
       CloseArchive, PackFault, DropArchive, PipelineOpens, Ends
  <2>5. CASE \/ ReadHeader(r) \/ CheckDirectory(r) \/ MakeDirectory(r) \/ NextEntry(r)
             \/ CreateMember(r) \/ FillMember(r) \/ FillFault(r) \/ UnpackFault(r)
    BY <2>5 DEF ReadHeader, CheckDirectory, MakeDirectory, NextEntry,
       CreateMember, FillMember, FillFault, UnpackFault, Ends, Made
  <2> QED BY <2>1, <2>2, <2>3, <2>4, <2>5 DEF Step, ArchiveStep
<1> QED BY <1>1 DEF TypeInv, History

(* Only the pipeline takes r where it writes, and only its success ends a     *)
(* single file with 0.                                                        *)
LEMMA HowToWrite ==
    ASSUME NEW r \in Run, DoneInv, Step(r)
    PROVE  /\ pc'[r] = "writing" => PipelineOpens(r)
           /\ pc'[r] = "returned" /\ result'[r] = 0 /\ call'[r].mode = "file" => PipelineOk(r)
<1>0. /\ pc \in [Run -> Label] /\ call \in [Run -> Call] /\ result \in [Run -> {-1, 0}]
      /\ Fresh(r) /\ Placed(r)
  BY DEF DoneInv, TypeInv, Inv, Types, History
<1>1. CASE Main(r)
  <2>1. call[r].mode = "none" BY <1>0, <1>1 DEF Main, MayStart, Fresh, NoCall
  <2>2. (call' = call /\ pc'[r] = "returned") \/ pc'[r] = "dispatch"
    <3> DEFINE p == ParseArguments(plan.does[r].argv)
    <3>1. CASE p.status = "go" BY <1>0, <1>1, <3>1 DEF Main, Goto
    <3>2. CASE p.status # "go" BY <1>0, <1>1, <3>2 DEF Main, Ends, Goto
    <3> QED BY <3>1, <3>2
  <2> QED BY <2>1, <2>2
<1>2. CASE Dispatch(r) \/ NameOutput(r) \/ CallLibrary(r)
  <2>1. pc'[r] \in {"name", "pipe", "mktemp"}
    BY <1>0, <1>2 DEF Dispatch, NameOutput, CallLibrary, Goto
  <2> QED BY <2>1
<1>3. CASE TempFails(r)
  <2>1. pc'[r] \in {"name", "returned"} /\ result'[r] = -1
    BY <1>0, <1>3 DEF TempFails, Return, Ends, Goto
  <2> QED BY <2>1
<1>4. CASE RemoveTemp(r)
  <2>1. call[r].mode \in {"pack", "unpack"} /\ Return(r, result[r])
    BY <1>0, <1>4 DEF RemoveTemp, Placed
  <2>2. pc'[r] = "name" \/ (pc'[r] = "returned" /\ call' = call)
    BY <1>0, <2>1 DEF Return, Ends, Goto
  <2> QED BY <2>1, <2>2
<1>5. CASE PipelineTruncates(r) \/ PipelineRefuses(r) \/ PipelineFails(r)
  <2>1. PipelineReturns(r, -1) BY <1>5 DEF PipelineTruncates, PipelineRefuses, PipelineFails
  <2>2. result'[r] = -1 /\ pc'[r] # "writing"
    BY <1>0, <2>1 DEF PipelineReturns, Return, Ends, Goto
  <2> QED BY <2>2
<1>6. CASE PipelineOk(r)
  <2>1. pc'[r] # "writing" BY <1>0, <1>6 DEF PipelineOk, PipelineReturns, Return, Ends, Goto
  <2> QED BY <1>6, <2>1
<1>7. CASE \/ MakeTemp(r) \/ ListDirectory(r) \/ OpenArchive(r) \/ StatEntry(r)
           \/ OpenEntry(r) \/ CopyEntry(r) \/ CloseArchive(r) \/ PackFault(r)
           \/ DropArchive(r)
  <2>1. pc'[r] \notin {"writing", "returned"}
    BY <1>0, <1>7 DEF MakeTemp, ListDirectory, OpenArchive, StatEntry, OpenEntry, CopyEntry,
       CloseArchive, PackFault, DropArchive, Ends, Goto
  <2> QED BY <2>1
<1>8. CASE \/ ReadHeader(r) \/ CheckDirectory(r) \/ MakeDirectory(r) \/ NextEntry(r)
           \/ CreateMember(r) \/ FillMember(r) \/ FillFault(r) \/ UnpackFault(r)
  <2>1. pc'[r] \notin {"writing", "returned"}
    BY <1>0, <1>8 DEF ReadHeader, CheckDirectory, MakeDirectory, NextEntry,
       CreateMember, FillMember, FillFault, UnpackFault, Ends, Goto, Made
  <2> QED BY <2>1
<1>9. CASE PipelineOpens(r)
  <2>1. pc'[r] # "returned" BY <1>0, <1>9 DEF PipelineOpens, Goto
  <2> QED BY <1>9, <2>1
<1> QED BY <1>1, <1>2, <1>3, <1>4, <1>5, <1>6, <1>7, <1>8, <1>9 DEF Step, ArchiveStep

(* What the starts of a run make of its call.                                 *)
LEMMA StartStepsRequest ==
    ASSUME NEW r \in Run, DoneInv,
           Main(r) \/ Dispatch(r) \/ NameOutput(r) \/ CallLibrary(r)
    PROVE  /\ Fresh(r)' /\ Requested(r)'
           /\ MayWrite(call'[r]) = MayWrite(call[r]) \/ MayWrite(call[r]) = {NoName}
<1>0. /\ pc \in [Run -> Label] /\ call \in [Run -> Call] /\ Fresh(r) /\ Requested(r) /\ Types
      /\ plan' = plan /\ Given(r)
  BY DEF DoneInv, TypeInv, Inv, Types, Main, Dispatch, NameOutput, CallLibrary
<1>1. CASE Main(r)
  <2> DEFINE p == ParseArguments(plan.does[r].argv)
             c == [NoCall EXCEPT !.operations = p.operations, !.comp_alg = p.comp_alg,
                      !.input = p.input, !.output = p.output, !.named = p.output # NoName]
  <2>1. /\ r \in DOMAIN plan.does /\ plan.does[r].entry = "main" /\ pc[r] = "idle"
        /\ call[r] = NoCall
    BY <1>0, <1>1 DEF Main, MayStart, Fresh
  <2>2. MayWrite(call[r]) = {NoName} /\ call[r].mode = "none" BY <2>1 DEF NoCall, MayWrite
  <2>3. CASE p.status = "go"
    <3>1. call'[r] = c /\ pc'[r] = "dispatch" BY <1>0, <1>1, <2>3 DEF Main, Goto
    <3>2. p.operations = Asked(plan.does[r].argv) /\ Valid(p)
      BY <1>0, <2>1, <2>3, PlansAreSound DEF Types
    <3> HIDE DEF p
    <3>3. c.mode = "none" /\ c.operations = p.operations BY DEF NoCall
    <3> HIDE DEF c
    <3>4. Fresh(r)' BY <3>1, <3>3 DEF Fresh
    <3>5. Requested(r)' BY <1>0, <3>1, <3>2, <3>3 DEF Requested, Valid
    <3> QED BY <2>2, <3>4, <3>5
  <2>4. CASE p.status # "go"
    <3>1. call' = call /\ pc'[r] = "returned" BY <1>0, <1>1, <2>4 DEF Main, Ends, Goto
    <3> QED BY <2>2, <3>1 DEF Fresh, Requested
  <2> QED BY <2>3, <2>4
<1>2. CASE Dispatch(r)
  <2>1. PICK mode \in {"file", "pack", "unpack"}, fallback \in BOOLEAN :
           call' = [call EXCEPT ![r] = [call[r] EXCEPT !.mode = mode, !.fallback = fallback]]
    BY <1>0, <1>2, DispatchIs
  <2>2. pc[r] = "dispatch" /\ call[r] \in Call /\ pc'[r] = "name" BY <1>0, <1>2, DispatchIs
  <2>3. /\ call'[r].operations = call[r].operations /\ call'[r].named = call[r].named
        /\ call'[r].input = call[r].input /\ call'[r].output = call[r].output
    BY <1>0, <2>1, <2>2 DEF Call
  <2>4. Fresh(r)' BY <2>2 DEF Fresh
  <2>5. Requested(r)' BY <1>0, <2>2, <2>3 DEF Requested
  <2> QED BY <2>3, <2>4, <2>5 DEF MayWrite
<1>4. CASE NameOutput(r)
  <2>1. PICK output, seen :
           /\ call' = [call EXCEPT ![r] = [call[r] EXCEPT !.output = output, !.seen = seen]]
           /\ call[r].named => output = call[r].output
    BY <1>0, <1>4, NameOutputIs
  <2>2. pc[r] = "name" /\ call[r] \in Call /\ pc'[r] \in {"pipe", "mktemp"}
    BY <1>0, <1>4, NameOutputIs
  <2>3. /\ call'[r].operations = call[r].operations /\ call'[r].named = call[r].named
        /\ call'[r].input = call[r].input /\ call'[r].mode = call[r].mode
        /\ call'[r].output = output
    BY <1>0, <2>1, <2>2 DEF Call
  <2>4. call[r].mode # "none" BY <1>0, <2>2 DEF Given
  <2>5. Fresh(r)' BY <2>2 DEF Fresh
  <2>6. Requested(r)' BY <1>0, <2>3, <2>4 DEF Requested
  <2>7. MayWrite(call'[r]) = MayWrite(call[r]) BY <2>1, <2>3 DEF MayWrite
  <2> QED BY <2>5, <2>6, <2>7
<1>3. CASE CallLibrary(r)
  <2>1. /\ plan.does[r].entry = "library" /\ pc[r] = "idle" /\ call[r] = NoCall
        /\ pc'[r] = "mktemp"
    BY <1>0, <1>3 DEF CallLibrary, MayStart, Fresh, Goto
  <2>2. MayWrite(call[r]) = {NoName} BY <2>1 DEF NoCall, MayWrite
  <2> QED BY <1>0, <2>1, <2>2 DEF Fresh, Requested
<1> QED BY <1>1, <1>2, <1>3, <1>4

LEMMA StepsRequest ==
    ASSUME NEW r \in Run, DoneInv, Step(r), NEW s \in Run
    PROVE  /\ Fresh(s)' /\ Requested(s)'
           /\ MayWrite(call'[s]) = MayWrite(call[s]) \/ MayWrite(call[s]) = {NoName}
<1>0. TypeInv /\ Fresh(s) /\ Requested(s) BY DEF DoneInv
<1>1. plan' = plan BY DEF Step, Main, Dispatch, NameOutput, CallLibrary
<1>2. CASE s # r
  <2>1. Undisturbed(s) BY <1>0, <1>2, ArchiveStepsSpare, StartStepsSpare DEF Step
  <2> QED BY <1>0, <1>1, <2>1 DEF Undisturbed, Fresh, Requested, MayWrite
<1>3. CASE s = r
  <2>1. CASE Main(r) \/ Dispatch(r) \/ NameOutput(r) \/ CallLibrary(r)
    BY <1>3, <2>1, StartStepsRequest
  <2>2. CASE ArchiveStep(r)
    <3>1. /\ SameCall(r) /\ (call'[r].mode = call[r].mode \/ call'[r].mode = "file")
          /\ pc[r] \notin {"idle", "dispatch", "name", "returned", "killed"}
          /\ pc'[r] \notin {"idle", "dispatch"}
      BY <1>0, <2>2, ArchiveStepsKeepCall
    <3>2. Fresh(s)' BY <1>3, <3>1 DEF Fresh
    <3>3. call[r].mode # "none"
      <4>1. Placed(r) /\ Given(r) /\ pc[r] \in Labels BY <1>0, LabelsListed, RunFacts
      <4> QED BY <3>1, <4>1 DEF Placed, Given, Labels, PackLabels, UnpackLabels
    <3>4. Requested(s)' BY <1>0, <1>1, <1>3, <3>1, <3>3 DEF Requested, SameCall
    <3> QED BY <1>3, <3>1, <3>2, <3>4 DEF SameCall, MayWrite
  <2> QED BY <2>1, <2>2 DEF Step
<1> QED BY <1>2, <1>3

(* The steps of others leave alone what is private to s.                      *)
LEMMA OthersKeepCoded ==
    ASSUME NEW r \in Run, DoneInv, Step(r), NEW s \in Run \ {r}
    PROVE  Coded(s)'
<1> DEFINE c == call[s]
<1>0. /\ TypeInv /\ NameInv /\ Coded(s) /\ Addressed(s)
      /\ UNCHANGED <<pc[s], call[s], result[s]>> /\ work'[s].coded = work[s].coded
  <2>1. TypeInv /\ NameInv /\ Coded(s) BY DEF DoneInv
  <2>2. Undisturbed(s) BY <2>1, ArchiveStepsSpare, StartStepsSpare DEF Step
  <2>3. result'[s] = result[s] BY <2>1, ResultSpared
  <2>4. work[s] \in Work /\ Addressed(s) BY <2>1, RunFacts
  <2>5. work'[s].coded = work[s].coded BY <2>2, <2>4 DEF Undisturbed, Work
  <2> QED BY <2>1, <2>2, <2>3, <2>4, <2>5 DEF Undisturbed
<1> SUFFICES ASSUME Private(s)', pc[s] \in {"writing", "returned"} PROVE Coded(s)'
  BY <1>0 DEF Coded, Returned
<1>1. c.mode = "file" /\ c.input # c.output /\ c.input \in Path /\ c.output \in Path
  BY <1>0 DEF Private, Addressed
<1>2. Private(s)
  <2> SUFFICES ASSUME NEW q \in Run \ {s}
               PROVE  MayWrite(call[q]) \cap {c.input, c.output} = {}
    BY <1>1 DEF Private
  <2>1. MayWrite(call'[q]) \cap {c.input, c.output} = {} BY <1>0 DEF Private
  <2>2. MayWrite(call'[q]) = MayWrite(call[q]) \/ MayWrite(call[q]) = {NoName} BY StepsRequest
  <2>3. NoName \notin Path BY ArchiveAssumption DEF Path
  <2> QED BY <1>1, <2>1, <2>2, <2>3
<1>3. call[r].output \notin {c.input, c.output}
  <2>1. call[r].output \in MayWrite(call[r]) \cup {NoName}
    BY <1>0 DEF NameInv, OwnName, MayWrite
  <2>2. NoName \notin Path BY ArchiveAssumption DEF Path
  <2> QED BY <1>1, <1>2, <2>1, <2>2 DEF Private
<1>4. file'[c.input] = file[c.input] /\ file'[c.output] = file[c.output]
  BY <1>0, <1>1, <1>3, StepsSpareNames DEF NameInv, LeavesAlone
<1>5. ResultsOn(s, file[c.input])' = ResultsOn(s, file[c.input])
  BY <1>0, <1>4 DEF ResultsOn
<1> QED BY <1>0, <1>2, <1>4, <1>5 DEF Coded, Returned

(* What r itself opens, and what it leaves when it is done.                   *)
LEMMA OwnStepKeepsCoded ==
    ASSUME NEW r \in Run, DoneInv, Step(r)
    PROVE  Coded(r)'
<1> DEFINE c == call[r]
<1>0. /\ TypeInv /\ Coded(r) /\ Addressed(r) /\ Held(r) /\ call \in [Run -> Call]
      /\ file = [n \in Name |-> file[n]] /\ pc \in [Run -> Label]
  BY RunFacts DEF DoneInv, TypeInv, Inv, Types
<1> SUFFICES ASSUME Private(r)' PROVE Coded(r)'
  BY DEF Coded
<1>1. CASE PipelineOpens(r)
  <2>1. call' = call /\ temp' = temp /\ pc'[r] \in {"writing", "growing"} /\ pc[r] = "pipe"
    BY <1>0, <1>1 DEF PipelineOpens, Goto
  <2>2. c.mode = "file" /\ c.input # c.output /\ c.input \in Path /\ c.output \in Path
    BY <1>0, <2>1 DEF Private, Addressed
  <2>3. Source(r) = c.input /\ Target(r) = c.output BY <2>2 DEF Source, Target, Packing
  <2>4. ~OwnInput(r) BY <2>2, <2>3 DEF OwnInput
  <2>5. PICK x \in Outcomes(r) \cup Misread(r) :
          /\ work' = [work EXCEPT ![r].coded = x, ![r].linked = TRUE]
          /\ \E begun \in Begun(x) : file' = [file EXCEPT ![c.output] = begun]
    BY <1>1, <2>3 DEF PipelineOpens
  <2>6. file[c.input] # NoFile /\ x \in ResultsOn(r, file[c.input]) \cup {Garbage}
    BY <2>3, <2>4, <2>5 DEF Outcomes, Misread
  <2>7. file'[c.input] = file[c.input] BY <1>0, <2>2, <2>5 DEF Path
  <2>8. work'[r].coded = x
    <3>1. work = [q \in Run |-> work[q]] /\ work[r] \in Work BY <1>0, RunFacts DEF TypeInv
    <3> QED BY <2>5, <3>1 DEF Work
  <2>9. ResultsOn(r, file[c.input])' = ResultsOn(r, file[c.input])
    BY <2>1, <2>7 DEF ResultsOn
  <2> QED BY <2>1, <2>6, <2>7, <2>8, <2>9 DEF Coded, Returned
<1>2. CASE PipelineOk(r)
  <2>1. /\ pc[r] = "writing" /\ PipelineReturns(r, 0) /\ temp' = temp
        /\ file' = IF Target(r) = temp[r] /\ ~work[r].linked THEN file
                   ELSE [file EXCEPT ![Target(r)] = work[r].coded]
    BY <1>2 DEF PipelineOk, Writes
  <2>2. /\ call' = call /\ pc'[r] # "writing"
        /\ pc'[r] = "returned" => c.mode = "file"
    BY <1>0, <2>1 DEF PipelineReturns, Return, Ends, Goto
  <2>3. CASE pc'[r] = "returned"
    <3>1. c.mode = "file" /\ c.input # c.output /\ c.input \in Path /\ c.output \in Path
          /\ Private(r)
      BY <1>0, <2>1, <2>2, <2>3 DEF Private, Addressed
    <3>2. temp[r] = NoName /\ Target(r) = c.output /\ c.output # NoName
      BY <1>0, <3>1, ArchiveAssumption DEF Held, Target, Path
    <3>3. file' = [file EXCEPT ![c.output] = work[r].coded] BY <2>1, <3>2
    <3>4. file'[c.input] = file[c.input] /\ file'[c.output] = work[r].coded
      BY <1>0, <3>1, <3>3 DEF Path
    <3>5. file[c.input] # NoFile /\ work[r].coded \in ResultsOn(r, file[c.input]) \cup {Garbage}
      BY <1>0, <2>1, <3>1 DEF Coded
    <3>6. ResultsOn(r, file[c.input])' = ResultsOn(r, file[c.input])
      BY <2>2, <3>4 DEF ResultsOn
    <3> QED BY <2>2, <2>3, <3>4, <3>5, <3>6 DEF Coded
  <2>4. CASE pc'[r] # "returned" BY <2>2, <2>4 DEF Coded, Returned
  <2> QED BY <2>3, <2>4
<1>3. CASE ~PipelineOpens(r) /\ ~PipelineOk(r)
  <2>1. call'[r].mode = "file" BY DEF Private
  <2> QED BY <1>3, <2>1, HowToWrite DEF Coded, Returned
<1> QED BY <1>1, <1>2, <1>3

LEMMA NextKeepsDone ==
    ASSUME DoneInv, [Next]_vars
    PROVE  DoneInv'
<1>1. TypeInv' /\ NameInv' BY NextKeepsTypes, NextKeepsNames DEF DoneInv
<1>2. ASSUME NEW r \in Run, Step(r), NEW s \in Run
      PROVE  Fresh(s)' /\ Requested(s)' /\ Coded(s)'
  <2>1. Fresh(s)' /\ Requested(s)' BY <1>2, StepsRequest
  <2>2. Coded(s)' BY <1>2, OthersKeepCoded, OwnStepKeepsCoded
  <2> QED BY <2>1, <2>2
<1>3. ASSUME NEW s \in Run, UNCHANGED <<file, call, work, result, plan>>, pc' \in [Run -> Label],
             pc'[s] = pc[s] \/ pc'[s] = "killed"
      PROVE  Fresh(s)' /\ Requested(s)' /\ Coded(s)'
  <2>1. Fresh(s) /\ Requested(s) /\ Coded(s) BY DEF DoneInv
  <2>2. Fresh(s)' /\ Requested(s)' BY <1>3, <2>1 DEF Fresh, Requested
  <2>3. Coded(s)' BY <1>3, <2>1 DEF Coded, Private, Returned, ResultsOn
  <2> QED BY <2>2, <2>3
<1>4. pc \in [Run -> Label] /\ pc' \in [Run -> Label] BY <1>1 DEF DoneInv, TypeInv, Inv, Types
<1>5. ASSUME NEW r \in Run, Kill(r), UNCHANGED plan, NEW s \in Run
      PROVE  Fresh(s)' /\ Requested(s)' /\ Coded(s)'
  <2>1. UNCHANGED <<file, call, work, result, plan>> /\ (pc'[s] = pc[s] \/ pc'[s] = "killed")
    BY <1>4, <1>5 DEF Kill, Goto, fs, locals
  <2> QED BY <1>3, <1>4, <2>1
<1>6. ASSUME NEW n, NEW m, NEW body, Edit(n, m, body), UNCHANGED plan, NEW s \in Run
      PROVE  Fresh(s)' /\ Requested(s)' /\ Coded(s)'
  <2>1. UNCHANGED <<file, call, work, result, plan, pc>> BY <1>6 DEF Edit, locals
  <2> QED BY <1>3, <1>4, <2>1
<1>7. ASSUME UNCHANGED vars, NEW s \in Run
      PROVE  Fresh(s)' /\ Requested(s)' /\ Coded(s)'
  <2>1. UNCHANGED <<file, call, work, result, plan, pc>> BY <1>7 DEF vars, avars, fs, locals
  <2> QED BY <1>3, <1>4, <2>1
<1> QED BY <1>1, <1>2, <1>5, <1>6, <1>7 DEF Next, DoneInv

LEMMA InitDone ==
    ASSUME Init
    PROVE  DoneInv
<1>1. \A r \in Run : pc[r] = "idle" /\ call[r] = NoCall BY DEF Init
<1>2. \A r \in Run : Fresh(r) /\ Requested(r) /\ Coded(r)
  <2> SUFFICES ASSUME NEW r \in Run PROVE Fresh(r) /\ Requested(r) /\ Coded(r)
    OBVIOUS
  <2>0. NoCall.mode = "none" BY DEF NoCall
  <2>1. pc[r] = "idle" /\ call[r] = NoCall /\ call[r].mode = "none" BY <1>1, <2>0
  <2>2. Fresh(r) BY <2>1 DEF Fresh
  <2>3. Requested(r) BY <2>1 DEF Requested
  <2>4. Coded(r) BY <2>1 DEF Coded, Private
  <2> QED BY <2>2, <2>3, <2>4
<1> QED BY <1>2, InitTypes, InitNames DEF DoneInv

(* What the stages chosen from the operations make of a file is what was      *)
(* asked of it: of the codec alone, if the two directions are mixed.          *)
LEMMA ResultIsExpected ==
    ASSUME NEW asked \in SUBSET Operation, NEW alg \in Nat, NEW c, FineFile(c), c # Empty,
           NEW x \in Results(asked, alg, c), x # Garbage, asked # {},
           ~({"OP_COMPRESS", "OP_DECOMPRESS"} \subseteq asked),
           ~({"OP_ENCRYPT", "OP_DECRYPT"} \subseteq asked)
    PROVE  LET mixed == \/ {"OP_COMPRESS", "OP_DECRYPT"} \subseteq asked
                        \/ {"OP_DECOMPRESS", "OP_ENCRYPT"} \subseteq asked
               done == IF mixed THEN asked \cap {"OP_COMPRESS", "OP_DECOMPRESS"} ELSE asked
           IN x = Expected(done, alg, c)
<1> DEFINE pushed == Pushed(c, CodecLayer(alg))
<1>1. pushed # Empty
  <2>1. CodecLayer(alg) \in Layer BY DEF CodecLayer, Layer
  <2> QED BY <2>1, LayersAreFine
<1>2. asked \in {{"OP_COMPRESS"}, {"OP_DECOMPRESS"}, {"OP_ENCRYPT"}, {"OP_DECRYPT"},
                 {"OP_COMPRESS", "OP_ENCRYPT"}, {"OP_DECOMPRESS", "OP_DECRYPT"},
                 {"OP_COMPRESS", "OP_DECRYPT"}, {"OP_DECOMPRESS", "OP_ENCRYPT"}}
  <2>1. CASE "OP_COMPRESS" \in asked
    <3>1. \/ asked \subseteq {"OP_COMPRESS", "OP_ENCRYPT"}
          \/ asked \subseteq {"OP_COMPRESS", "OP_DECRYPT"}
      BY <2>1 DEF Operation
    <3> QED BY <2>1, <3>1
  <2>2. CASE "OP_DECOMPRESS" \in asked
    <3>1. \/ asked \subseteq {"OP_DECOMPRESS", "OP_DECRYPT"}
          \/ asked \subseteq {"OP_DECOMPRESS", "OP_ENCRYPT"}
      BY <2>2 DEF Operation
    <3> QED BY <2>2, <3>1
  <2>3. CASE "OP_COMPRESS" \notin asked /\ "OP_DECOMPRESS" \notin asked
    <3>1. asked \subseteq {"OP_ENCRYPT"} \/ asked \subseteq {"OP_DECRYPT"}
      BY <2>3 DEF Operation
    <3> QED BY <3>1
  <2> QED BY <2>1, <2>2, <2>3
<1>3. ASSUME NEW y, NEW z \in Decompressed(alg, y), z # Garbage
      PROVE  z = Popped(y)
  BY <1>3 DEF Decompressed
<1>4. CASE asked = {"OP_COMPRESS"}
  <2>1. Stages(asked) = <<"STAGE_COMPRESS">> BY <1>4 DEF Stages
  <2>2. x = pushed BY <2>1 DEF Results, StageResults
  <2>3. Expected({"OP_COMPRESS"}, alg, c) = pushed BY DEF Expected
  <2> QED BY <1>4, <2>2, <2>3
<1>5. CASE asked = {"OP_DECOMPRESS"}
  <2>1. Stages(asked) = <<"STAGE_DECOMPRESS">> BY <1>5 DEF Stages
  <2>2. x \in Decompressed(alg, c) BY <2>1 DEF Results, StageResults
  <2>3. Expected({"OP_DECOMPRESS"}, alg, c) = Popped(c) BY DEF Expected
  <2> QED BY <1>3, <1>5, <2>2, <2>3
<1>6. CASE asked = {"OP_ENCRYPT"} \/ asked = {"OP_DECRYPT"}
  <2>1. Stages(asked) = <<"STAGE_ENCRYPT">> \/ Stages(asked) = <<"STAGE_DECRYPT">>
    BY <1>6 DEF Stages
  <2>2. x = XorUnit(c, 0) BY <2>1 DEF Results, StageResults
  <2>3. Expected(asked, alg, c) = XorUnit(c, 0) BY <1>6 DEF Expected
  <2> QED BY <1>6, <2>2, <2>3
<1>7. CASE asked = {"OP_COMPRESS", "OP_ENCRYPT"}
  <2>1. Stages(asked) = <<"STAGE_COMPRESS", "STAGE_ENCRYPT">> BY <1>7 DEF Stages
  <2>2. x \in StageResults("STAGE_ENCRYPT", alg, pushed) BY <2>1 DEF Results, StageResults
  <2>3. x = XorUnit(pushed, 0) BY <1>1, <2>2 DEF StageResults
  <2>4. Expected(asked, alg, c) = XorUnit(pushed, 0) BY <1>7 DEF Expected
  <2> QED BY <1>7, <2>3, <2>4
<1>8. CASE asked = {"OP_DECOMPRESS", "OP_DECRYPT"}
  <2>1. Stages(asked) = <<"STAGE_DECRYPT", "STAGE_DECOMPRESS">> BY <1>8 DEF Stages
  <2>2. StageResults("STAGE_DECRYPT", alg, c) = {XorUnit(c, 0)} BY DEF StageResults
  <2>3. x \in StageResults("STAGE_DECOMPRESS", alg, XorUnit(c, 0)) BY <2>1, <2>2 DEF Results
  <2>4. x \in Decompressed(alg, XorUnit(c, 0)) BY <2>3 DEF StageResults
  <2>5. Expected(asked, alg, c) = Popped(XorUnit(c, 0)) BY <1>8 DEF Expected
  <2> QED BY <1>3, <1>8, <2>4, <2>5
<1>9. CASE asked = {"OP_COMPRESS", "OP_DECRYPT"}
  <2>1. Stages(asked) = <<"STAGE_COMPRESS">> BY <1>9 DEF Stages
  <2>2. x = pushed BY <2>1 DEF Results, StageResults
  <2>3. Expected({"OP_COMPRESS"}, alg, c) = pushed BY DEF Expected
  <2>4. asked \cap {"OP_COMPRESS", "OP_DECOMPRESS"} = {"OP_COMPRESS"} BY <1>9
  <2> QED BY <1>9, <2>2, <2>3, <2>4
<1>10. CASE asked = {"OP_DECOMPRESS", "OP_ENCRYPT"}
  <2>1. Stages(asked) = <<"STAGE_DECOMPRESS">> BY <1>10 DEF Stages
  <2>2. x \in Decompressed(alg, c) BY <2>1 DEF Results, StageResults
  <2>3. Expected({"OP_DECOMPRESS"}, alg, c) = Popped(c) BY DEF Expected
  <2>4. asked \cap {"OP_COMPRESS", "OP_DECOMPRESS"} = {"OP_DECOMPRESS"} BY <1>10
  <2> QED BY <1>3, <1>10, <2>2, <2>3, <2>4
<1> QED BY <1>2, <1>4, <1>5, <1>6, <1>7, <1>8, <1>9, <1>10

LEMMA DoneInvImplies ==
    ASSUME DoneInv
    PROVE  OperationsDone
<1> SUFFICES ASSUME NEW r \in DOMAIN plan.does,
                    plan.does[r].entry = "main", call[r].mode = "file", Returned(r, 0),
                    call[r].input # call[r].output,
                    file[call[r].input] # Empty, file[call[r].output] # Garbage,
                    \A s \in Run \ {r} :
                       MayWrite(call[s]) \cap {call[r].input, call[r].output} = {}
             PROVE  LET c == call[r]
                        asked == Asked(plan.does[r].argv)
                        mixed == \/ {"OP_COMPRESS", "OP_DECRYPT"} \subseteq asked
                                 \/ {"OP_DECOMPRESS", "OP_ENCRYPT"} \subseteq asked
                        done == IF mixed THEN asked \cap {"OP_COMPRESS", "OP_DECOMPRESS"} ELSE asked
                    IN file[c.output] = Expected(done, c.comp_alg, file[c.input])
  BY DEF OperationsDone
<1> DEFINE asked == call[r].operations
           from == file[call[r].input]
           to == file[call[r].output]
           mixed == \/ {"OP_COMPRESS", "OP_DECRYPT"} \subseteq asked
                    \/ {"OP_DECOMPRESS", "OP_ENCRYPT"} \subseteq asked
           done == IF mixed THEN asked \cap {"OP_COMPRESS", "OP_DECOMPRESS"} ELSE asked
<1>1. r \in Run
  <2>1. plan \in Planned BY DEF DoneInv, TypeInv, Inv, Types
  <2>2. PICK p \in Plans : plan = p.plan BY <2>1 DEF Planned
  <2> QED BY <2>2, PlanAssumption
<1>2. TypeInv /\ Requested(r) /\ Coded(r) /\ Addressed(r) /\ call[r] \in Call
  BY <1>1, RunFacts DEF DoneInv
<1>3. /\ asked = Asked(plan.does[r].argv) /\ asked # {}
      /\ ~({"OP_COMPRESS", "OP_DECOMPRESS"} \subseteq asked)
      /\ ~({"OP_ENCRYPT", "OP_DECRYPT"} \subseteq asked)
  BY <1>2 DEF Requested
<1>4. from # NoFile /\ to \in Results(asked, call[r].comp_alg, from) \cup {Garbage}
  BY <1>2 DEF Coded, Private, ResultsOn
<1>5. FineFile(from)
  <2>1. call[r].input \in Name BY <1>2 DEF Addressed, Path
  <2> QED BY <1>2, <1>4, <2>1 DEF TypeInv, OnDisk
<1>6. asked \in SUBSET Operation /\ call[r].comp_alg \in Nat BY <1>2 DEF Call
<1>7. from # Empty /\ to # Garbage OBVIOUS
<1> HIDE DEF from, to
<1>8. to = Expected(done, call[r].comp_alg, from)
  BY <1>3, <1>4, <1>5, <1>6, <1>7, ResultIsExpected
<1> QED BY <1>3, <1>8 DEF from, to

(* A run from the command line that exits with 0 on a single file has done to *)
(* it what its last operations option asks, each operation once and in the    *)
(* right order, or what it asks of the codec alone if it mixes the directions,*)
(* whatever the other runs and users did meanwhile to other files: the command*)
(* line, the choice of the stages and the file that is left in the end agree, *)
(* unless an old-format decoder wrote it (Spec implies OperationsDone).       *)
THEOREM AskedIsDone == Spec => []OperationsDone
BY InitDone, NextKeepsDone, DoneInvImplies, PTL DEF Spec
===============================================================================

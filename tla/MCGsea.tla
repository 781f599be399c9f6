-------------------------------- MODULE MCGsea --------------------------------
(* Instances of Gsea for TLC.                                                 *)
EXTENDS Gsea

CONSTANTS r1, r2, t1, t2

(* Users change d; x is empty or missing.                                     *)
d == "d"
s == "s"
x == "x"
a == "a"
dRle == "d.rle"
dEnc == "d.enc"
dGsea == "d.gsea"
sRle == "s.rle"
sEnc == "s.enc"
xEnc == "x.enc"
aRle == "a.rle"
aEnc == "a.enc"
aGsea == "a.gsea"
aHuff == "a.huff"
far == "/a.txt"

Here(parts) == [here |-> TRUE, parts |-> parts]
Text(path) ==
    (IF path.here THEN "" ELSE "/")
    \o FoldLeft(LAMBDA text, part : text \o "." \o part, Head(path.parts), Tail(path.parts))

(* The inputs of runs without -o, and all that such a run may make up.        *)
Inputs ==
    {Here(<<n>>) : n \in {"a", "d", "s", "x"}}
    \cup {Here(<<"a", ext>>) : ext \in {"rle", "enc", "gsea", "huff"}}
    \cup {Here(<<"s", "rle">>), Here(<<"s", "enc">>), Here(<<"x", "enc">>),
          [here |-> FALSE, parts |-> <<"a", "txt">>]}
MadeUp == {Here(WithExtension(parts, ext)) :
              parts \in UNION {{n.parts, WithoutExtension(n.parts)} : n \in Inputs},
              ext \in {"", "rle", "enc", "gsea"}}
Known == Inputs \cup MadeUp \cup {Here(DefaultParts)}
Paths == [n \in {Text(path) : path \in Known} |-> CHOOSE path \in Known : Text(path) = n]
Names == DOMAIN Paths \cup {t1, t2}

(* Two files, one of them two directories down.                               *)
Files == {1, 2}
SubOfFile == <<0, 2>>
Parents == (1 :> 0) @@ (2 :> 1)
NoFiles == [m \in Files |-> NoFile]
TwoFiles == (1 :> <<1, 2>>) @@ (2 :> <<3>>)
OneFile == (1 :> <<2>>) @@ (2 :> NoFile)
SomeBodies == {<<>>, <<2, 2>>}
Mixtures == UNION {[1 .. n -> 1 .. 3] : n \in 0 .. 2}

Raw(units) == [Empty EXCEPT !.units = units]
Whole == ArchiveUnits(<<2, 1>>, TwoFiles)
Plain == [Empty EXCEPT !.units = <<U("byte", 7)>>]
Stream(c) == Pushed(c, CodecLayer(1))
Secret(c) == XorUnit(c, 0)

(******************************* arguments ***********************************)

Arg(option, value) == [option |-> option, value |-> value]
Ops(letters) == Arg("ops", letters)
I(n) == Arg("-i", n)
O(n) == Arg("-o", n)
K == Arg("-k", 1)

Runs(argvs) == [r \in DOMAIN argvs |-> [entry |-> "main", argv |-> argvs[r]]]
Library(mode, ops, input, output) ==
    [entry |-> "library",
     call |-> [NoCall EXCEPT !.mode = mode, !.operations = ops, !.comp_alg = 1,
                             !.input = input, !.output = output]]

(******************************* file systems ********************************)

Stored(files) == [n \in Names |-> IF n \in DOMAIN files THEN files[n] ELSE NoFile]
Trees == [n \in Names |-> IF n = d THEN TwoFiles ELSE IF n = s THEN OneFile ELSE NoFiles]
Dirs == {d, s} \X {0, 1, 2}

Instance(does, waits, changing, files) ==
    [plan |-> [does |-> does, waits |-> waits, changing |-> changing],
     file |-> Stored(files), dirs |-> Dirs, tree |-> Trees]

Nothing == [n \in {} |-> NoFile]
Together == [r \in Run |-> {}]
InTurn == (r1 :> {}) @@ (r2 :> {r1})

C == "OP_COMPRESS"
DE == "OP_DECOMPRESS"
E == "OP_ENCRYPT"
DC == "OP_DECRYPT"

(* A library caller packs a directory, then another unpacks the result.       *)
LibraryPlans ==
    {Instance((r1 :> Library("pack", {C, E}, d, aGsea))
           @@ (r2 :> Library("unpack", {DE, DC}, aGsea, x)), InTurn, {d}, Nothing)}

(* Two runs pack at once; two extract one archive to one directory.           *)
PairPlans ==
    {Instance(Runs((r1 :> <<Ops(<<"c">>), I(s)>>) @@ (r2 :> <<K, Ops(<<"e">>), I(s)>>)),
          Together, {}, Nothing)}
    \cup {Instance((r1 :> Library("unpack", {DC}, sEnc, n))
               @@ (r2 :> Library("unpack", {DC}, sEnc, n)),
               Together, {}, sEnc :> Secret(Raw(Whole))) : n \in {x, s}}

(* Two command lines at once: of one file, and of a file and its result.      *)
Shelf == (a :> Plain) @@ (aRle :> Stream(Plain)) @@ (aEnc :> Secret(Plain))
         @@ (aGsea :> Secret(Stream(Plain))) @@ (far :> Plain)
         @@ (sRle :> Raw(Whole)) @@ (sEnc :> Secret(Raw(Whole))) @@ (xEnc :> Raw(Whole))
         @@ (aHuff :> Stream(Plain))
LinesAtOnce ==
    {Instance(Runs((r1 :> <<Ops(<<"c">>), I(a)>>) @@ (r2 :> <<K, Ops(<<"e">>), I(n)>>)),
          Together, {}, Shelf) : n \in {a, aRle}}

(* The unpacking of what is not, or no longer, a whole archive.               *)
DamagedPlans ==
    {Instance(r1 :> Library("unpack", {DE}, aRle, x), Together, {}, aRle :> c) :
        c \in {Stream(Raw(SubSeq(Whole, 1, n))) : n \in 0 .. Len(Whole)}
              \cup {Stream(Plain), Raw(Whole), Empty, Secret(Stream(Raw(Whole))),
                    Pushed(Raw(Whole), CodecLayer(2))}}
    \cup {Instance(r1 :> Library("unpack", {DC}, aEnc, x), Together, {}, aEnc :> Secret(Raw(units))) :
        units \in CutUnits(Whole, "short")}
    \cup {Instance(r1 :> Library("pack", {C}, x, aRle), Together, {}, Nothing),
          Instance(r1 :> Library("unpack", {DE}, aRle, a), Together, {},
               (aRle :> Stream(Raw(Whole))) @@ (a :> Plain))}

(* A directory packed and unpacked from the command line.                     *)
MainPlans ==
    {Instance(Runs((r1 :> <<Ops(v[1]), I(d), K>>) @@ (r2 :> <<Ops(v[2]), I(v[3]), O(x), K>>)),
             InTurn, {}, Nothing) :
        v \in {<<<<"c">>, <<"d">>, dRle>>, <<<<"e">>, <<"u">>, dEnc>>,
               <<<<"c", "e">>, <<"d", "u">>, dGsea>>}}

(* Single command lines over a file system with a file of each kind.          *)
Lines ==
    {<<Ops(o), I(n), K>> : o \in {<<"c">>, <<"d">>, <<"e">>, <<"u">>, <<"c", "e">>,
                                  <<"u", "d">>, <<"d", "e">>, <<"c", "u">>},
                           n \in {a, aRle, aEnc, aGsea, aHuff, far,
                                  sRle, sEnc, xEnc, s, x}}
    \cup {<<Ops(o), I(xEnc), O(aHuff), K>> : o \in {<<"u">>, <<"u", "d">>}}
    \cup {<<Ops(o), I(a), O(a), K>> : o \in {<<"c">>, <<"e">>}}
    \cup {<<Ops(<<"c">>), Ops(<<"e">>), I(a), K>>,
          <<Ops(<<"e">>), Ops(<<"c">>), I(a), O(dRle), K>>,
          <<Ops(<<"c", "c">>), I(a)>>,
          <<Ops(<<"c", "d">>), I(a)>>,
          <<Ops(<<"e", "u">>), I(a), K>>,
          <<Ops(<<"e">>), I(a)>>,
          <<Ops(<<"c">>), Arg("-i", NoName)>>,
          <<Ops(<<"c">>)>>,
          <<I(a)>>,
          <<Ops(<<"c">>), I(a), Arg("-h", NoName)>>,
          <<Ops(<<"c">>), Arg("bad", NoName), I(a)>>,
          <<Ops(<<"c">>), I(a), Arg("--comp-alg", 2), Arg("--enc-alg", 1)>>,
          <<Ops(<<"c">>), I(a), Arg("--comp-alg", 0)>>,
          <<Ops(<<"c">>), I(a), Arg("--enc-alg", 0)>>,
          <<>>}

LinePlans == {Instance(Runs(r1 :> argv), Together, {}, Shelf) : argv \in Lines}

AllPlans ==
    LibraryPlans \cup PairPlans \cup LinesAtOnce \cup DamagedPlans \cup MainPlans \cup LinePlans
==============================================================================

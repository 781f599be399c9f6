---------------------------- MODULE MCFilePipeline ----------------------------
(* Instances of FilePipeline for TLC.                                         *)
EXTENDS FilePipeline

CONSTANTS w1, w2, p1, p2, a, b, c, d, t1, t2, none

Bytes(n) == [i \in 1 .. n |-> Plain("data", i)]
Old == <<Plain("data", 9)>>
Conf(ops, alg, len) == [operations |-> ops, comp_alg |-> alg, keyLen |-> len]

C == "OP_COMPRESS"
D == "OP_DECOMPRESS"
E == "OP_ENCRYPT"
U == "OP_DECRYPT"

(* Chain: w1 makes b from a, and when it has ended, another run of the        *)
(* program makes c from b.                                                    *)
TwoProcesses == (w1 :> p1) @@ (w2 :> p2)
ChainInput == (w1 :> a) @@ (w2 :> b)
ChainOutput == (w1 :> b) @@ (w2 :> c)
ChainWaits == (w1 :> {}) @@ (w2 :> {w1})
ChainConfigs ==
    (w1 :> {Conf({}, 1, 0), Conf({C}, 1, 0), Conf({E}, 1, 2), Conf({C, E}, 1, 2)})
    @@ (w2 :> {Conf({}, 1, 0), Conf({D}, 1, 0), Conf({D}, 2, 0),
               Conf({U}, 1, 2), Conf({D, U}, 1, 2)})
ChainStored ==
    {(a :> Bytes(3)), (a :> Bytes(2)) @@ (b :> Old) @@ (c :> Old),
     a :> <<Plain("data", 1), Plain("record", 0)>>}
(* Pool: two threads of one process, each with files of its own, one packing  *)
(* and one unpacking whatever it finds under the name b.                      *)
OneProcess == (w1 :> p1) @@ (w2 :> p1)
PoolInput == (w1 :> a) @@ (w2 :> b)
PoolOutput == (w1 :> c) @@ (w2 :> d)
NoWaits == (w1 :> {}) @@ (w2 :> {})
PoolConfigs ==
    (w1 :> {Conf({C, E}, 1, 2)})
    @@ (w2 :> {Conf({D, U}, 1, 2), Conf({D}, 1, 2), Conf({D, U}, 1, 0)})

StreamFile == <<StreamHeader(1)>> \o ChunkRecord(1, Bytes(2)) \o ChunkRecord(1, Bytes(1))
PoolStored ==
    {(a :> Bytes(2)) @@ (d :> Old) @@ sb :
        sb \in {b :> StreamFile,                       \* a stream
                b :> Encrypted(StreamFile, 2),         \* an encrypted one
                b :> SubSeq(StreamFile, 1, 5),         \* one cut in a chunk
                b :> Coded(1, Bytes(2)),               \* a file of the old format
                b :> <<Plain("future", 0)>>,           \* another version
                b :> <<>>,                             \* an empty file
                c :> Old}}                             \* no such file
==============================================================================

-------------------------- MODULE FilePipelineProofs --------------------------
(* Theorems about FilePipeline for any number of calls, files, temporaries    *)
(* and faults, and any chunk size, and what its operators compute, for files  *)
(* of any length: the ciphers work unit by unit and undo themselves, a stream *)
(* grows by whole records, and it determines what it was made of.  No         *)
(* induction over a file is needed: the steps of a call extend what it has    *)
(* read and what it has written, and these lemmas say that the one stays the  *)
(* image of the other.                                                        *)
EXTENDS FilePipeline, SequenceTheorems, FiniteSetTheorems, TLAPS

(****************************** the operators ********************************)

(* A function on 1 .. n is a sequence.                                        *)
LEMMA FunctionIsSeq ==
    ASSUME NEW S, NEW n \in Nat, NEW f \in [1 .. n -> S]
    PROVE  f \in Seq(S) /\ Len(f) = n
<1>1. f \in Seq(S) BY SMT
<1>2. 1 .. n = 1 .. Len(f) BY <1>1, LenProperties
<1>3. Len(f) \in Nat BY <1>1, LenProperties
<1> QED BY <1>1, <1>2, <1>3

(* What is put in front of a sequence is what Head and Tail take off again.   *)
LEMMA SequencePushed ==
    ASSUME NEW S, NEW e \in S, NEW s \in Seq(S)
    PROVE  /\ <<e>> \o s \in Seq(S) /\ Len(<<e>> \o s) = 1 + Len(s)
           /\ \A i \in 1 .. Len(s) : (<<e>> \o s)[i + 1] = s[i]
           /\ (<<e>> \o s)[1] = e
           /\ <<e>> \o s # <<>>
           /\ Head(<<e>> \o s) = e
           /\ Tail(<<e>> \o s) = s
<1> DEFINE c == <<e>> \o s
<1>1. c \in Seq(S) /\ Len(c) = 1 + Len(s) /\ Len(s) \in Nat OBVIOUS
<1>2. c # <<>> BY <1>1
<1>3. c[1] = e OBVIOUS
<1>4. Head(c) = e BY <1>1, <1>2, <1>3
<1>5. Tail(c) \in Seq(S) /\ Len(Tail(c)) = Len(s) BY <1>1, <1>2
<1>6. ASSUME NEW i \in 1 .. Len(s) PROVE c[i + 1] = s[i] /\ Tail(c)[i] = s[i]
  <2>1. c[i + 1] = s[i] BY <1>1
  <2>2. Tail(c)[i] = c[i + 1] BY <1>1, <1>2
  <2> QED BY <2>1, <2>2
<1>7. Tail(c) = s BY <1>5, <1>6, SeqEqual
<1> QED BY <1>1, <1>2, <1>3, <1>4, <1>6, <1>7

(* Layers stay free of cancelling pairs when one is put on that does not      *)
(* cancel the outermost, and when one is taken off.                           *)
LEMMA LayersType ==
    ASSUME NEW s \in Layers, NEW l \in Layer
    PROVE  /\ (l.kind = "xor" /\ s # <<>> => Head(s) # l) => <<l>> \o s \in Layers
           /\ s # <<>> => Tail(s) \in Layers
<1>1. s \in Seq(Layer) /\ Len(s) \in Nat BY LenProperties DEF Layers
<1>2. ASSUME l.kind = "xor" /\ s # <<>> => Head(s) # l
      PROVE  <<l>> \o s \in Layers
  <2> DEFINE c == <<l>> \o s
  <2>1. /\ c \in Seq(Layer) /\ Len(c) = 1 + Len(s) /\ c[1] = l
        /\ \A i \in 1 .. Len(s) : c[i + 1] = s[i]
    BY <1>1, SequencePushed
  <2>2. ASSUME NEW i \in 1 .. Len(c) - 1, c[i].kind = "xor" PROVE c[i] # c[i + 1]
    <3>1. i \in 1 .. Len(s) /\ c[i + 1] = s[i] BY <1>1, <2>1
    <3>2. CASE i = 1
      <4>1. s # <<>> BY <1>1, <3>1
      <4>2. Head(s) = s[1] BY <1>1, <4>1
      <4> QED BY <1>2, <2>1, <2>2, <3>1, <3>2, <4>1, <4>2
    <3>3. CASE i # 1
      <4>1. i - 1 \in 1 .. Len(s) - 1 /\ i - 1 \in 1 .. Len(s) /\ (i - 1) + 1 = i
        BY <1>1, <3>1, <3>3
      <4>2. c[i] = s[i - 1] BY <2>1, <4>1
      <4>3. s[i - 1].kind = "xor" => s[i - 1] # s[(i - 1) + 1]
        BY <4>1 DEF Layers, Reduced
      <4> QED BY <2>2, <3>1, <4>1, <4>2, <4>3
    <3> QED BY <3>2, <3>3
  <2> QED BY <2>1, <2>2 DEF Layers, Reduced
<1>3. ASSUME s # <<>> PROVE Tail(s) \in Layers
  <2>1. /\ Tail(s) \in Seq(Layer) /\ Len(Tail(s)) = Len(s) - 1
        /\ \A i \in 1 .. Len(Tail(s)) : Tail(s)[i] = s[i + 1]
    BY <1>1, <1>3, HeadTailProperties
  <2>2. ASSUME NEW i \in 1 .. Len(Tail(s)) - 1, Tail(s)[i].kind = "xor"
        PROVE  Tail(s)[i] # Tail(s)[i + 1]
    <3>1. /\ i \in 1 .. Len(Tail(s)) /\ i + 1 \in 1 .. Len(Tail(s))
          /\ i + 1 \in 1 .. Len(s) - 1
      BY <1>1, <2>1
    <3>2. Tail(s)[i] = s[i + 1] /\ Tail(s)[i + 1] = s[(i + 1) + 1] BY <2>1, <3>1
    <3>3. s[i + 1].kind = "xor" => s[i + 1] # s[(i + 1) + 1]
      BY <3>1 DEF Layers, Reduced
    <3> QED BY <2>2, <3>2, <3>3
  <2> QED BY <2>1, <2>2 DEF Layers, Reduced
<1> QED BY <1>2, <1>3

(* A codec's layer put on a unit, or any taken off, gives a unit.             *)
LEMMA UnitLayers ==
    ASSUME NEW u \in Unit
    PROVE  /\ \A l \in Layer : ~(l.kind = "xor" /\ Outermost(u, l)) => Pushed(u, l) \in Unit
           /\ u.layers # <<>> => Popped(u) \in Unit
<1>1. u.layers \in Layers BY DEF Unit
<1>2. ASSUME NEW l \in Layer, ~(l.kind = "xor" /\ Outermost(u, l))
      PROVE  Pushed(u, l) \in Unit
  <2>1. <<l>> \o u.layers \in Layers BY <1>1, <1>2, LayersType DEF Outermost
  <2> QED BY <2>1 DEF Pushed, Unit
<1>3. ASSUME u.layers # <<>> PROVE Popped(u) \in Unit
  <2>1. [kind |-> "xor", arg |-> 0] \in Layer BY DEF Layer
  <2>2. Tail(u.layers) \in Layers BY <1>1, <1>3, <2>1, LayersType
  <2> QED BY <2>2 DEF Popped, Unit
<1> QED BY <1>2, <1>3

(* The layer of a codec is no layer of a cipher.                              *)
LEMMA CodecLayerType ==
    ASSUME NEW alg \in Nat
    PROVE  CodecLayer(alg) \in Layer /\ CodecLayer(alg).kind = "codec"
BY DEF CodecLayer, Layer

LEMMA XorUnitType ==
    ASSUME NEW u \in Unit, NEW k \in Nat
    PROVE  XorUnit(u, k) \in Unit
<1>1. [kind |-> "xor", arg |-> k] \in Layer BY DEF Layer
<1> QED BY <1>1, UnitLayers DEF XorUnit, Outermost

(* The cipher and the codec keep the length of what they are given.           *)
LEMMA XorFromType ==
    ASSUME NEW s \in Seq(Unit), NEW first \in Nat, NEW keyLen \in Nat \ {0}
    PROVE  XorFrom(s, first, keyLen) \in Seq(Unit) /\ Len(XorFrom(s, first, keyLen)) = Len(s)
<1>1. ASSUME NEW i \in 1 .. Len(s)
      PROVE  XorUnit(s[i], (first + i - 1) % keyLen) \in Unit
  <2>1. s[i] \in Unit BY ElementOfSeq
  <2>2. (first + i - 1) % keyLen \in Nat OBVIOUS
  <2> QED BY <2>1, <2>2, XorUnitType
<1>2. XorFrom(s, first, keyLen) \in [1 .. Len(s) -> Unit] BY <1>1 DEF XorFrom
<1> QED BY <1>2, FunctionIsSeq

LEMMA CodedType ==
    ASSUME NEW s \in Seq(Unit), NEW alg \in Nat
    PROVE  Coded(alg, s) \in Seq(Unit) /\ Len(Coded(alg, s)) = Len(s)
<1>1. CodecLayer(alg) \in Layer /\ CodecLayer(alg).kind # "xor" BY CodecLayerType
<1>2. \A i \in 1 .. Len(s) : Pushed(s[i], CodecLayer(alg)) \in Unit
  BY <1>1, ElementOfSeq, UnitLayers
<1>3. Coded(alg, s) \in [1 .. Len(s) -> Unit] BY <1>2 DEF Coded
<1> QED BY <1>3, FunctionIsSeq

LEMMA DecodedType ==
    ASSUME NEW s \in Seq(Unit), NEW alg \in Nat, Decodable(alg, s)
    PROVE  Decoded(s) \in Seq(Unit) /\ Len(Decoded(s)) = Len(s)
<1>2. \A i \in 1 .. Len(s) : s[i] \in Unit /\ s[i].layers # <<>>
  BY ElementOfSeq DEF Decodable, Outermost
<1>3. \A i \in 1 .. Len(s) : Popped(s[i]) \in Unit BY <1>2, UnitLayers
<1>4. Decoded(s) \in [1 .. Len(s) -> Unit] BY <1>3 DEF Decoded
<1> QED BY <1>4, FunctionIsSeq

LEMMA PlainType ==
    ASSUME NEW kind \in UnitKind, NEW val \in Nat
    PROVE  Plain(kind, val) \in Unit
<1>1. <<>> \in Layers BY EmptySeq DEF Layers, Reduced
<1> QED BY <1>1 DEF Plain, Unit

LEMMA ChunkRecordType ==
    ASSUME NEW s \in Seq(Unit), NEW alg \in Nat
    PROVE  ChunkRecord(alg, s) \in Seq(Unit)
<1>1. Plain("record", Len(s)) \in Unit BY PlainType, LenProperties DEF UnitKind
<1>2. <<Plain("record", Len(s))>> \in Seq(Unit) BY <1>1
<1> QED BY <1>2, CodedType, ConcatProperties DEF ChunkRecord

(* A write leaves a file of units.                                            *)
LEMMA WriteAtType ==
    ASSUME NEW s \in Seq(Unit), NEW off \in Nat, NEW units \in Seq(Unit)
    PROVE  WriteAt(s, off, units) \in Seq(Unit)
<1> DEFINE end == off + Len(units)
           len == IF Len(s) > end THEN Len(s) ELSE end
<1>1. Len(s) \in Nat /\ Len(units) \in Nat BY LenProperties
<1>2. Plain("hole", 0) \in Unit BY PlainType DEF UnitKind
<1>3. ASSUME NEW i \in 1 .. len
      PROVE  (IF i > off /\ i <= end THEN units[i - off]
              ELSE IF i <= Len(s) THEN s[i] ELSE Plain("hole", 0)) \in Unit
  <2>1. CASE i > off /\ i <= end
    <3>1. i - off \in 1 .. Len(units) BY <1>1, <2>1
    <3> QED BY <2>1, <3>1, ElementOfSeq
  <2>2. CASE ~(i > off /\ i <= end) /\ i <= Len(s) BY <1>1, <2>2, ElementOfSeq
  <2>3. CASE ~(i > off /\ i <= end) /\ ~(i <= Len(s)) BY <1>2, <2>3
  <2> QED BY <2>1, <2>2, <2>3
<1>4. WriteAt(s, off, units) \in [1 .. len -> Unit] BY <1>3 DEF WriteAt
<1>5. len \in Nat BY <1>1
<1> QED BY <1>4, <1>5, FunctionIsSeq

(* There are one or two stages.                                               *)
LEMMA StagesType ==
    ASSUME NEW ops
    PROVE  Len(Stages(ops)) \in Nat /\ Len(Stages(ops)) >= 1 /\ Len(Stages(ops)) <= 2
BY DEF Stages

(************************* the inductive invariant ***************************)

(* A stage is being run.                                                      *)
InStage == Busy \ {"stage"}

(* What the control state of a call says of its stage, its key and the calls  *)
(* it had to wait for.                                                        *)
Control(w) ==
    /\ stage[w] <= Len(Stages(config[w].operations))
    /\ pc[w] \in {"header", "legacy"} => Stage(w) = "STAGE_DECOMPRESS"
    /\ pc[w] \in {"create", "loop"} /\ Ciphering(w) => config[w].keyLen > 0
    /\ pc[w] \in Busy => \A v \in Waits[w] : pc[v] \in Ended

(* Which temporaries it holds: the one it reads from since the stage before,  *)
(* the one it writes to in any stage but the last.                            *)
Holds(w) ==
    /\ pc[w] \in {"idle", "done", "failed"} => temp[w] = NoTemp
    /\ pc[w] \in {"idle", "stage", "done", "failed"} => next[w] = NoTemp
    /\ pc[w] \in InStage => (next[w] = NoTemp <=> IsLast(w))

(* A temporary exists exactly when some call holds it, and one call holds it  *)
(* in one place.                                                              *)
Accounted ==
    /\ \A t \in TempName : t \in files <=> \E w \in Worker : t \in {temp[w], next[w]}
    /\ \A w \in Worker : temp[w] = next[w] => temp[w] = NoTemp
    /\ \A v, w \in Worker : v # w => Owned(v) \cap Owned(w) = {}

Inv ==
    /\ TypeOK
    /\ \A w \in Worker : Control(w)
    /\ \A w \in Worker : Holds(w)
    /\ Accounted

(* The file a stage reads from and the one it writes to are file names.       *)
LEMMA SourceAndTarget ==
    ASSUME Inv, NEW w \in Worker
    PROVE  /\ Source(w) \in FileName
           /\ pc[w] \in InStage => Target(w) \in FileName
           /\ data[Source(w)] \in Seq(Unit)
           /\ Len(data[Source(w)]) \in Nat
           /\ config[w] \in Config
<1>1. Source(w) \in FileName
  BY PipelineAssumption DEF Inv, TypeOK, Source, FileName
<1>2. pc[w] \in InStage => Target(w) \in FileName
  BY PipelineAssumption DEF Inv, TypeOK, Target, FileName, Holds
<1>3. data[Source(w)] \in Seq(Unit) BY <1>1 DEF Inv, TypeOK
<1> QED BY <1>1, <1>2, <1>3, LenProperties DEF Inv, TypeOK

(* What a stage makes of a chunk is a sequence of units.                      *)
LEMMA StageOutputType ==
    ASSUME Inv, NEW w \in Worker, pc[w] = "loop", NEW chunk \in Seq(Unit)
    PROVE  StageOutput(w, chunk) \in Seq(Unit)
<1>1. config[w].comp_alg \in Nat /\ config[w].keyLen \in Nat
  BY SourceAndTarget DEF Config
<1>2. CASE Stage(w) = "STAGE_COMPRESS"
  BY <1>1, <1>2, ChunkRecordType DEF StageOutput, Ciphering
<1>3. CASE Ciphering(w)
  <2>1. config[w].keyLen \in Nat \ {0} BY <1>1, <1>3 DEF Inv, Control
  <2>2. keyIndex[w] \in Nat BY DEF Inv, TypeOK
  <2> QED BY <1>3, <2>1, <2>2, XorFromType DEF StageOutput, Ciphering
<1>4. CASE Stage(w) # "STAGE_COMPRESS" /\ ~Ciphering(w)
  BY <1>4 DEF StageOutput
<1> QED BY <1>2, <1>3, <1>4

LEMMA NextKeyIndexType ==
    ASSUME Inv, NEW w \in Worker, pc[w] = "loop", NEW n \in Nat
    PROVE  NextKeyIndex(w, n) \in Nat
<1>1. keyIndex[w] \in Nat /\ config[w].keyLen \in Nat
  BY SourceAndTarget DEF Config, Inv, TypeOK
<1>2. Ciphering(w) => config[w].keyLen \in Nat \ {0} BY <1>1 DEF Inv, Control
<1> QED BY <1>1, <1>2 DEF NextKeyIndex

(* The payload of a whole record is there to be decoded.                      *)
LEMMA RecordPayloadType ==
    ASSUME NEW s \in Seq(Unit), NEW off \in Nat, NEW alg \in Nat,
           off < Len(s), WholeRecord(alg, s, off)
    PROVE  Decoded(RecordPayload(s, off)) \in Seq(Unit) /\ s[off + 1].val \in Nat
<1>1. off + 1 \in 1 .. Len(s) BY LenProperties
<1>0. s[off + 1] \in Unit BY <1>1, ElementOfSeq
<1>2. s[off + 1].val \in Nat BY <1>0 DEF Unit
<1>3. \A i \in off + 2 .. off + 1 + s[off + 1].val : s[i] \in Unit
  BY <1>2, ElementOfSeq, LenProperties DEF WholeRecord
<1>4. RecordPayload(s, off) \in Seq(Unit)
  BY <1>2, <1>3, SubSeqProperties DEF RecordPayload
<1> QED BY <1>2, <1>4, DecodedType DEF WholeRecord

(***************************** the initial states ****************************)

LEMMA InitInv == Init => Inv
<1> SUFFICES ASSUME Init PROVE Inv OBVIOUS
<1>1. PICK stored \in StoredFiles : start = FileSystem(stored) BY DEF Init
<1>2. files \subseteq Path /\ files \in SUBSET FileName
  BY <1>1, PipelineAssumption DEF Init, FileSystem, FileName
<1>3. data \in [FileName -> Seq(Unit)]
  BY <1>1, PipelineAssumption, EmptySeq DEF Init, FileSystem
<1>4. config \in [Worker -> Config]
  BY PipelineAssumption DEF Init
<1>5. TypeOK
  BY <1>2, <1>3, <1>4, PipelineAssumption, EmptySeq DEF Init, TypeOK
<1>6. ASSUME NEW w \in Worker PROVE Control(w) /\ Holds(w)
  <2>2. stage[w] = 1 /\ pc[w] = "idle" /\ temp[w] = NoTemp /\ next[w] = NoTemp
    BY DEF Init
  <2>3. stage[w] <= Len(Stages(config[w].operations)) BY <2>2, StagesType
  <2> QED BY <2>2, <2>3 DEF Control, Holds, InStage, Busy
<1>7. Accounted
  BY <1>2, PipelineAssumption DEF Init, Accounted, Owned, FileName
<1> QED BY <1>5, <1>6, <1>7 DEF Inv

(******************************** the steps **********************************)

(* Removing temporaries leaves a file system.                                 *)
LEMMA UnlinkType ==
    ASSUME Inv, NEW names, Unlink(names)
    PROVE  files' \in SUBSET FileName /\ data' \in [FileName -> Seq(Unit)]
BY EmptySeq DEF Unlink, Inv, TypeOK

(* Every step keeps the types.                                                *)
LEMMA StepTypes == Inv /\ [Next]_vars => TypeOK'
<1> SUFFICES ASSUME Inv, [Next]_vars PROVE TypeOK' OBVIOUS
<1> USE DEF Goto
<1>1. TypeOK BY DEF Inv
<1>2. ASSUME NEW w \in Worker, Step(w) \/ TornWrite(w) \/ StageFault(w) PROVE TypeOK'
  <2> USE <1>1 DEF TypeOK, Busy
  <2>0. Source(w) \in FileName /\ data[Source(w)] \in Seq(Unit)
        /\ Len(data[Source(w)]) \in Nat /\ config[w] \in Config
    BY SourceAndTarget
  <2>1. CASE Call(w) BY <2>1 DEF Call
  <2>2. CASE ChooseOutput(w) BY <2>2 DEF ChooseOutput
  <2>3. CASE CreateTemp(w)
    <3>1. <<>> \in Seq(Unit) BY EmptySeq
    <3> QED BY <2>3, <3>1 DEF CreateTemp, FreshName, FileName
  <2>4. CASE TempFails(w)
    <3>1. files' \in SUBSET FileName /\ data' \in [FileName -> Seq(Unit)]
      BY <2>4, UnlinkType DEF TempFails
    <3>2. faults' \in 0 .. MaxFaults BY <2>4, PipelineAssumption DEF TempFails
    <3>3. temp' \in [Worker -> TempName \cup {NoTemp}] BY <2>4 DEF TempFails
    <3>4. pc' \in [Worker -> {"idle"} \cup Busy \cup Ended] BY <2>4 DEF TempFails, Ended
    <3>5. UNCHANGED <<config, misread, stage, next, inOff, outOff, keyIndex, pending>>
      BY <2>4 DEF TempFails
    <3> QED BY <3>1, <3>2, <3>3, <3>4, <3>5
  <2>5. CASE OpenInput(w) BY <2>5 DEF OpenInput
  <2>6. CASE ReadStreamHeader(w) BY <2>6 DEF ReadStreamHeader, HeaderVerdict
  <2>7. CASE DecodeLegacy(w)
    <3>1. \A r \in LegacyResults(config[w].comp_alg, data[Source(w)]) : r \in Seq(Unit)
      <4>1. config[w].comp_alg \in Nat BY <2>0 DEF Config
      <4>2. <<Plain("junk", 0)>> \in Seq(Unit) BY PlainType DEF UnitKind
      <4> QED BY <2>0, <4>1, <4>2, DecodedType DEF LegacyResults
    <3> QED BY <2>0, <2>7, <3>1 DEF DecodeLegacy
  <2>8. CASE RefuseLegacy(w) BY <2>8 DEF RefuseLegacy
  <2>9. CASE CreateOutput(w)
    <3>1. Target(w) \in FileName
      BY <2>9, SourceAndTarget DEF CreateOutput, InStage
    <3>2. <<StreamHeader(config[w].comp_alg)>> \in Seq(Unit)
      BY <2>0, PlainType DEF StreamHeader, UnitKind, Config
    <3>3. <<>> \in Seq(Unit) BY EmptySeq
    <3> QED BY <2>9, <3>1, <3>2, <3>3 DEF CreateOutput
  <2>10. CASE ReadChunk(w)
    <3>1. PICK n \in 1 .. ChunkSize :
             /\ inOff[w] + n <= Len(data[Source(w)])
             /\ LET chunk == SubSeq(data[Source(w)], inOff[w] + 1, inOff[w] + n)
                IN pending' = [pending EXCEPT ![w] = StageOutput(w, chunk)]
             /\ inOff' = [inOff EXCEPT ![w] = @ + n]
             /\ keyIndex' = [keyIndex EXCEPT ![w] = NextKeyIndex(w, n)]
      BY <2>10 DEF ReadChunk
    <3> DEFINE chunk == SubSeq(data[Source(w)], inOff[w] + 1, inOff[w] + n)
    <3>2. n \in Nat /\ inOff[w] \in Nat BY PipelineAssumption
    <3>3. chunk \in Seq(Unit)
      <4>1. \A k \in inOff[w] + 1 .. inOff[w] + n : data[Source(w)][k] \in Unit
        BY <2>0, <3>1, <3>2, ElementOfSeq
      <4> QED BY <3>2, <4>1, SubSeqProperties
    <3>4. StageOutput(w, chunk) \in Seq(Unit)
      BY <2>10, <3>3, StageOutputType DEF ReadChunk
    <3>5. NextKeyIndex(w, n) \in Nat BY <2>10, <3>2, NextKeyIndexType DEF ReadChunk
    <3>6. pending' \in [Worker -> Seq(Unit)] BY <3>1, <3>4
    <3>7. inOff' \in [Worker -> Nat] BY <3>1, <3>2
    <3>8. keyIndex' \in [Worker -> Nat] BY <3>1, <3>5
    <3>9. UNCHANGED <<files, data, config, misread, pc, stage, temp, next, outOff, faults>>
      BY <2>10 DEF ReadChunk
    <3> QED BY <3>6, <3>7, <3>8, <3>9
  <2>11. CASE ReadRecord(w)
    <3>1. config[w].comp_alg \in Nat BY <2>0 DEF Config
    <3>2. inOff[w] < Len(data[Source(w)]) BY <2>11 DEF ReadRecord
    <3>3. CASE WholeRecord(config[w].comp_alg, data[Source(w)], inOff[w])
      <4>1. /\ Decoded(RecordPayload(data[Source(w)], inOff[w])) \in Seq(Unit)
            /\ data[Source(w)][inOff[w] + 1].val \in Nat
        BY <2>0, <3>1, <3>2, <3>3, RecordPayloadType
      <4>2. pending' \in [Worker -> Seq(Unit)] BY <2>11, <3>3, <4>1 DEF ReadRecord
      <4>a. inOff' = [inOff EXCEPT ![w] = @ + 1 + data[Source(w)][inOff[w] + 1].val]
        BY <2>11, <3>3 DEF ReadRecord
      <4>b. inOff \in [Worker -> Nat] OBVIOUS
      <4>3. inOff' \in [Worker -> Nat]
        <5> DEFINE length == data[Source(w)][inOff[w] + 1].val
        <5>1. length \in Nat BY <4>1
        <5>2. inOff' = [inOff EXCEPT ![w] = @ + 1 + length] BY <4>a
        <5> HIDE DEF length
        <5>3. inOff[w] + 1 + length \in Nat BY ONLY <4>b, <5>1
        <5> QED BY ONLY <4>b, <5>2, <5>3
      <4>4. UNCHANGED <<files, data, config, misread, pc, stage, temp, next, outOff, keyIndex, faults>>
        BY <2>11, <3>3 DEF ReadRecord
      <4> QED BY <4>2, <4>3, <4>4
    <3>4. CASE ~WholeRecord(config[w].comp_alg, data[Source(w)], inOff[w])
      BY <2>11, <3>4 DEF ReadRecord
    <3> QED BY <3>3, <3>4
  <2>12. CASE Write(w)
    <3>1. PICK n \in 1 .. Len(pending[w]) :
             /\ data' = [data EXCEPT ![Target(w)] =
                           WriteAt(@, outOff[w], SubSeq(pending[w], 1, n))]
             /\ outOff' = [outOff EXCEPT ![w] = @ + n]
             /\ pending' = [pending EXCEPT ![w] = SubSeq(@, n + 1, Len(@))]
      BY <2>12 DEF Write
    <3>2. pending[w] \in Seq(Unit) /\ outOff[w] \in Nat
          /\ Len(pending[w]) \in Nat /\ n \in Nat
      BY LenProperties
    <3>3. /\ SubSeq(pending[w], 1, n) \in Seq(Unit)
          /\ SubSeq(pending[w], n + 1, Len(pending[w])) \in Seq(Unit)
      <4>1. \A k \in 1 .. Len(pending[w]) : pending[w][k] \in Unit
        BY <3>2, ElementOfSeq
      <4>2. \A k \in 1 .. n : pending[w][k] \in Unit BY <3>2, <4>1
      <4>3. \A k \in n + 1 .. Len(pending[w]) : pending[w][k] \in Unit BY <3>2, <4>1
      <4> QED BY <3>2, <4>2, <4>3, SubSeqProperties
    <3>4. Target(w) \in FileName
      BY <2>12, SourceAndTarget DEF Write, InStage
    <3>5. WriteAt(data[Target(w)], outOff[w], SubSeq(pending[w], 1, n)) \in Seq(Unit)
      BY <3>2, <3>3, <3>4, WriteAtType
    <3>6. data' \in [FileName -> Seq(Unit)] BY <3>1, <3>5
    <3>7. outOff' \in [Worker -> Nat] BY <3>1, <3>2
    <3>8. pending' \in [Worker -> Seq(Unit)] BY <3>1, <3>3
    <3>9. UNCHANGED <<files, config, misread, pc, stage, temp, next, inOff, keyIndex, faults>>
      BY <2>12 DEF Write
    <3> QED BY <3>6, <3>7, <3>8, <3>9
  <2>13. CASE TornWrite(w)
    <3> DEFINE torn == Torn(Head(pending[w]))
    <3>0. pending[w] \in Seq(Unit) /\ pending[w] # <<>>
      BY <2>13 DEF TornWrite
    <3>1. torn \in Unit
      <4>1. Head(pending[w]) \in Unit
        BY <3>0, HeadTailProperties
      <4> QED BY <4>1 DEF Torn, Unit, UnitKind
    <3>2. <<torn>> \in Seq(Unit) BY <3>1
    <3>3. Target(w) \in FileName
      BY <2>13, SourceAndTarget DEF TornWrite, InStage
    <3>4. WriteAt(data[Target(w)], outOff[w], <<torn>>) \in Seq(Unit)
      BY <3>2, <3>3, WriteAtType
    <3>5. faults' \in 0 .. MaxFaults BY <2>13, PipelineAssumption DEF TornWrite
    <3>6. data' \in [FileName -> Seq(Unit)] BY <2>13, <3>4 DEF TornWrite
    <3>7. outOff' \in [Worker -> Nat] BY <2>13 DEF TornWrite
    <3>8. pc' \in [Worker -> {"idle"} \cup Busy \cup Ended] BY <2>13 DEF TornWrite
    <3>9. UNCHANGED <<files, config, misread, stage, temp, next, inOff, keyIndex, pending>>
      BY <2>13 DEF TornWrite
    <3> QED BY <3>5, <3>6, <3>7, <3>8, <3>9
  <2>14. CASE StageFault(w)
    BY <2>14, PipelineAssumption DEF StageFault
  <2>15. CASE EndOfInput(w) BY <2>15 DEF EndOfInput
  <2>16. CASE StageOk(w)
    <3>1. files' \in SUBSET FileName /\ data' \in [FileName -> Seq(Unit)]
      BY <2>16, UnlinkType DEF StageOk
    <3>2. ~IsLast(w) => stage[w] + 1 \in 1 .. 2
      <4>1. stage[w] <= Len(Stages(config[w].operations)) BY DEF Inv, Control
      <4>2. stage[w] \in Nat /\ stage[w] >= 1 OBVIOUS
      <4> QED BY <4>1, <4>2, StagesType DEF IsLast
    <3>3. stage' \in [Worker -> 1 .. 2] BY <2>16, <3>2 DEF StageOk
    <3>4. /\ temp' \in [Worker -> TempName \cup {NoTemp}]
          /\ next' \in [Worker -> TempName \cup {NoTemp}]
      BY <2>16 DEF StageOk
    <3>5. pc' \in [Worker -> {"idle"} \cup Busy \cup Ended] BY <2>16 DEF StageOk, Ended
    <3>6. UNCHANGED <<config, misread, inOff, outOff, keyIndex, pending, faults>>
      BY <2>16 DEF StageOk
    <3> QED BY <3>1, <3>3, <3>4, <3>5, <3>6
  <2>17. CASE StageFail(w)
    <3>1. files' \in SUBSET FileName /\ data' \in [FileName -> Seq(Unit)]
      BY <2>17, UnlinkType DEF StageFail
    <3>2. /\ temp' \in [Worker -> TempName \cup {NoTemp}]
          /\ next' \in [Worker -> TempName \cup {NoTemp}]
      BY <2>17 DEF StageFail
    <3>3. pc' \in [Worker -> {"idle"} \cup Busy \cup Ended] BY <2>17 DEF StageFail, Ended
    <3>4. pending' \in [Worker -> Seq(Unit)] BY <2>17, EmptySeq DEF StageFail
    <3>5. UNCHANGED <<config, misread, stage, inOff, outOff, keyIndex, faults>>
      BY <2>17 DEF StageFail
    <3> QED BY <3>1, <3>2, <3>3, <3>4, <3>5
  <2> QED BY <1>2, <2>1, <2>2, <2>3, <2>4, <2>5, <2>6, <2>7, <2>8, <2>9, <2>10, <2>11,
             <2>12, <2>13, <2>14, <2>15, <2>16, <2>17 DEF Step
<1>3. ASSUME NEW p \in Process, Crash(p) PROVE TypeOK'
  BY <1>1, <1>3 DEF Crash, TypeOK, Ended
<1>4. CASE UNCHANGED vars BY <1>1, <1>4 DEF vars, TypeOK
<1> QED BY <1>2, <1>3, <1>4 DEF Next

(* A step of one call.                                                        *)
CallStep(w) == Step(w) \/ TornWrite(w) \/ StageFault(w)

(* A call moves by its own steps and by the death of its process only, and    *)
(* the configuration and the past never change; it can be misled about its    *)
(* own stream header only.                                                    *)
LEMMA OthersUnmoved ==
    ASSUME TypeOK, NEW w \in Worker, CallStep(w)
    PROVE  /\ \A u \in Worker \ {w} :
                /\ pc'[u] = pc[u] /\ stage'[u] = stage[u]
                /\ temp'[u] = temp[u] /\ next'[u] = next[u]
           /\ config' = config /\ start' = start
           /\ pc[w] \notin Ended
           /\ misread \subseteq misread' /\ misread' \subseteq misread \cup {w}
<1> USE DEF TypeOK, Goto
<1>1. CASE Call(w) \/ ChooseOutput(w) \/ OpenInput(w) \/ ReadStreamHeader(w)
  BY <1>1 DEF Call, ChooseOutput, OpenInput, ReadStreamHeader, Ended
<1>2. CASE CreateTemp(w) \/ TempFails(w) BY <1>2 DEF CreateTemp, TempFails, Ended
<1>3. CASE DecodeLegacy(w) \/ RefuseLegacy(w) \/ CreateOutput(w)
  BY <1>3 DEF DecodeLegacy, RefuseLegacy, CreateOutput, Ended
<1>4. CASE ReadChunk(w) \/ Write(w) \/ TornWrite(w)
  BY <1>4 DEF ReadChunk, Write, TornWrite, Ended
<1>5. CASE ReadRecord(w) BY <1>5 DEF ReadRecord, Ended
<1>6. CASE StageFault(w) \/ EndOfInput(w) BY <1>6 DEF StageFault, EndOfInput, Ended
<1>7. CASE StageOk(w) \/ StageFail(w) BY <1>7 DEF StageOk, StageFail, Ended
<1> QED BY <1>1, <1>2, <1>3, <1>4, <1>5, <1>6, <1>7 DEF CallStep, Step

(* What the call that moves becomes.                                          *)
LEMMA MoverControl ==
    ASSUME Inv, NEW w \in Worker, CallStep(w)
    PROVE  Control(w)' /\ Holds(w)'
<1> USE DEF Goto, InStage, Busy, Ended
<1>1. TypeOK /\ Control(w) /\ Holds(w) BY DEF Inv
<1>2. config' = config BY <1>1, OthersUnmoved
<1>3. \A v \in Worker : pc[v] \in Ended => pc'[v] = pc[v]
  BY <1>1, OthersUnmoved
<1>4. Waits[w] \subseteq Worker BY PipelineAssumption
<1>5. CASE Call(w)
  BY <1>1, <1>2, <1>3, <1>4, <1>5 DEF Call, TypeOK, Control, Holds, Stage, Ciphering, IsLast
<1>6. CASE ChooseOutput(w) \/ OpenInput(w) \/ ReadStreamHeader(w)
  <2>1. CASE ChooseOutput(w)
    BY <1>1, <1>2, <1>3, <1>4, <2>1
       DEF ChooseOutput, TypeOK, Control, Holds, Stage, Ciphering, IsLast
  <2>2. CASE OpenInput(w)
    <3>1. config[w].keyLen \in Nat BY <1>1 DEF TypeOK, Config
    <3> QED BY <1>1, <1>2, <1>3, <1>4, <2>2, <3>1
            DEF OpenInput, TypeOK, Control, Holds, Stage, Ciphering, IsLast
  <2>3. CASE ReadStreamHeader(w)
    BY <1>1, <1>2, <1>3, <1>4, <2>3
       DEF ReadStreamHeader, HeaderVerdict, TypeOK, Control, Holds, Stage, Ciphering, IsLast
  <2> QED BY <1>6, <2>1, <2>2, <2>3
<1>7. CASE CreateTemp(w)
  <2>1. PICK t \in TempName : FreshName(t) /\ next' = [next EXCEPT ![w] = t]
    BY <1>7 DEF CreateTemp
  <2>2. next'[w] # NoTemp BY <1>1, <2>1, PipelineAssumption DEF TypeOK, FileName
  <2> QED BY <1>1, <1>2, <1>3, <1>4, <1>7, <2>2
          DEF CreateTemp, TypeOK, Control, Holds, Stage, Ciphering, IsLast
<1>8. CASE TempFails(w)
  BY <1>1, <1>2, <1>3, <1>4, <1>8
     DEF TempFails, TypeOK, Control, Holds, Stage, Ciphering, IsLast
<1>9. CASE DecodeLegacy(w) \/ RefuseLegacy(w)
  BY <1>1, <1>2, <1>3, <1>4, <1>9
     DEF DecodeLegacy, RefuseLegacy, TypeOK, Control, Holds, Stage, Ciphering, IsLast
<1>10. CASE CreateOutput(w)
  BY <1>1, <1>2, <1>3, <1>4, <1>10
     DEF CreateOutput, TypeOK, Control, Holds, Stage, Ciphering, IsLast
<1>11. CASE ReadChunk(w) \/ Write(w)
  BY <1>1, <1>2, <1>3, <1>4, <1>11
     DEF ReadChunk, Write, TypeOK, Control, Holds, Stage, Ciphering, IsLast
<1>12. CASE ReadRecord(w)
  <2>1. pc'[w] \in {"loop", "stagefail"} /\ UNCHANGED <<stage, temp, next>>
    BY <1>1, <1>12 DEF ReadRecord, TypeOK
  <2>2. pc[w] = "loop" BY <1>12 DEF ReadRecord
  <2> QED BY <1>1, <1>2, <1>3, <1>4, <2>1, <2>2
          DEF TypeOK, Control, Holds, Stage, Ciphering, IsLast
<1>13. CASE TornWrite(w) \/ StageFault(w) \/ EndOfInput(w)
  BY <1>1, <1>2, <1>3, <1>4, <1>13
     DEF TornWrite, StageFault, EndOfInput, TypeOK, Control, Holds, Stage, Ciphering, IsLast
<1>14. CASE StageOk(w)
  <2>1. CASE IsLast(w)
    BY <1>1, <1>2, <1>3, <1>4, <1>14, <2>1
       DEF StageOk, TypeOK, Control, Holds, Stage, Ciphering, IsLast
  <2>2. CASE ~IsLast(w)
    <3>1. stage'[w] <= Len(Stages(config'[w].operations))
      <4>1. stage'[w] = stage[w] + 1 BY <1>1, <1>14, <2>2 DEF StageOk, TypeOK
      <4>2. stage[w] \in 1 .. 2 BY <1>1 DEF TypeOK
      <4>3. stage[w] <= Len(Stages(config[w].operations)) BY <1>1 DEF Control
      <4> QED BY <1>2, <2>2, <4>1, <4>2, <4>3, StagesType DEF IsLast
    <3>2. pc'[w] = "stage" /\ next'[w] = NoTemp
      BY <1>1, <1>14, <2>2 DEF StageOk, TypeOK
    <3>3. pc[w] \in Busy BY <1>14 DEF StageOk
    <3> QED BY <1>1, <1>3, <1>4, <3>1, <3>2, <3>3 DEF Control, Holds
  <2> QED BY <2>1, <2>2
<1>15. CASE StageFail(w)
  BY <1>1, <1>2, <1>3, <1>4, <1>15
     DEF StageFail, TypeOK, Control, Holds, Stage, Ciphering, IsLast
<1> QED BY <1>5, <1>6, <1>7, <1>8, <1>9, <1>10, <1>11, <1>12, <1>13, <1>14, <1>15
        DEF CallStep, Step

LEMMA StepControl ==
    ASSUME Inv, [Next]_vars, NEW u \in Worker
    PROVE  Control(u)' /\ Holds(u)'
<1>1. TypeOK /\ Control(u) /\ Holds(u) BY DEF Inv
<1>2. Waits[u] \subseteq Worker BY PipelineAssumption
<1>3. ASSUME NEW w \in Worker, CallStep(w) PROVE Control(u)' /\ Holds(u)'
  <2>1. CASE u = w BY <1>3, <2>1, MoverControl
  <2>2. CASE u # w
    <3>1. \A v \in Worker : pc[v] \in Ended => pc'[v] = pc[v]
      BY <1>1, <1>3, OthersUnmoved
    <3>2. /\ pc'[u] = pc[u] /\ stage'[u] = stage[u] /\ temp'[u] = temp[u]
          /\ next'[u] = next[u] /\ config' = config
      BY <1>1, <1>3, <2>2, OthersUnmoved
    <3> QED BY <1>1, <1>2, <3>1, <3>2
            DEF Control, Holds, Stage, Ciphering, IsLast
  <2> QED BY <2>1, <2>2
<1>4. ASSUME NEW p \in Process, Crash(p) PROVE Control(u)' /\ Holds(u)'
  <2>1. \A v \in Worker : pc[v] \in Ended => pc'[v] = pc[v] BY <1>4 DEF Crash
  <2>2. pc'[u] \in {pc[u], "crashed"} BY <1>4 DEF Crash
  <2>3. UNCHANGED <<config, stage, temp, next>> BY <1>4 DEF Crash
  <2> QED BY <1>1, <1>2, <2>1, <2>2, <2>3
          DEF Control, Holds, Stage, Ciphering, IsLast, InStage, Busy
<1>5. CASE UNCHANGED vars
  BY <1>1, <1>5 DEF vars, Control, Holds, Stage, Ciphering, IsLast
<1> QED BY <1>3, <1>4, <1>5 DEF Next, CallStep

(* The temporaries stay accounted for.                                        *)
LEMMA StepAccounted == Inv /\ [Next]_vars => Accounted'
<1> SUFFICES ASSUME Inv, [Next]_vars PROVE Accounted' OBVIOUS
<1>1. TypeOK /\ Accounted /\ \A u \in Worker : Holds(u) BY DEF Inv
<1>2. NoTemp \notin TempName /\ Path \cap TempName = {} /\ OutputOf \in [Worker -> Path]
  BY PipelineAssumption DEF FileName
<1>3. ASSUME NEW w \in Worker, CallStep(w) PROVE Accounted'
  <2> USE DEF Goto
  <2>1. CASE UNCHANGED <<temp, next>> /\ files' = files
    BY <1>1, <2>1 DEF Accounted, Owned
  <2>2. CASE CreateOutput(w)
    <3>1. Target(w) \in TempName => Target(w) \in files
      <4>1. IsLast(w) => Target(w) \notin TempName BY <1>2 DEF Target
      <4>2. ~IsLast(w) => Target(w) = next[w] BY DEF Target
      <4> QED BY <1>1, <4>1, <4>2 DEF Accounted
    <3>2. \A t \in TempName : t \in files' <=> t \in files
      BY <2>2, <3>1 DEF CreateOutput
    <3>3. UNCHANGED <<temp, next>> BY <2>2 DEF CreateOutput
    <3> QED BY <1>1, <3>2, <3>3 DEF Accounted, Owned
  <2>3. CASE CreateTemp(w)
    <3>1. PICK t \in TempName : /\ t \notin files /\ files' = files \cup {t}
                               /\ next' = [next EXCEPT ![w] = t]
      BY <2>3 DEF CreateTemp, FreshName
    <3>2. temp' = temp /\ next[w] = NoTemp BY <1>1, <2>3 DEF CreateTemp, Holds
    <3>3. \A u \in Worker : t \notin {temp[u], next[u]} BY <1>1, <3>1 DEF Accounted
    <3>4. next'[w] = t /\ \A u \in Worker \ {w} : next'[u] = next[u]
      BY <1>1, <3>1 DEF TypeOK
    <3>5. \A x \in TempName : x \in files' <=> \E u \in Worker : x \in {temp'[u], next'[u]}
      <4>1. ASSUME NEW x \in TempName, x \in files'
            PROVE  \E u \in Worker : x \in {temp'[u], next'[u]}
        <5>1. CASE x = t BY <3>4, <5>1
        <5>2. CASE x # t
          <6>1. PICK u \in Worker : x \in {temp[u], next[u]}
            BY <1>1, <3>1, <4>1, <5>2 DEF Accounted
          <6> QED BY <1>2, <3>2, <3>4, <6>1
        <5> QED BY <5>1, <5>2
      <4>2. ASSUME NEW x \in TempName, NEW u \in Worker, x \in {temp'[u], next'[u]}
            PROVE  x \in files'
        BY <1>1, <3>1, <3>2, <3>4, <4>2 DEF Accounted
      <4> QED BY <4>1, <4>2
    <3>6. \A u \in Worker : temp'[u] = next'[u] => temp'[u] = NoTemp
      BY <1>1, <3>2, <3>3, <3>4 DEF Accounted
    <3>7. \A u, v \in Worker : u # v => Owned(u)' \cap Owned(v)' = {}
      BY <1>1, <3>2, <3>3, <3>4 DEF Accounted, Owned
    <3> QED BY <3>5, <3>6, <3>7 DEF Accounted
  <2>4. CASE TempFails(w) \/ StageOk(w) \/ StageFail(w)
    <3> DEFINE gone == IF StageFail(w) THEN Discarded(w) ELSE {temp[w]} \ {NoTemp}
    <3>1. files' = files \ gone
      BY <2>4 DEF TempFails, StageOk, StageFail, Unlink, Goto
    <3>2. \A u \in Worker \ {w} : temp'[u] = temp[u] /\ next'[u] = next[u]
      BY <1>1, <1>3, OthersUnmoved
    <3>3. \A t \in TempName : t \in {temp'[w], next'[w]}
                               <=> t \in {temp[w], next[w]} /\ t \notin gone
      <4>1. CASE TempFails(w) /\ ~StageFail(w)
        BY <1>1, <1>2, <4>1 DEF TempFails, TypeOK, Holds
      <4>2. CASE StageOk(w) /\ ~StageFail(w)
        <5>1. IsLast(w) => next[w] = NoTemp
          BY <1>1, <4>2 DEF StageOk, Holds, InStage, Busy
        <5>2. temp'[w] = (IF IsLast(w) THEN NoTemp ELSE next[w]) /\ next'[w] = NoTemp
          BY <1>1, <4>2 DEF StageOk, TypeOK
        <5>3. temp[w] = next[w] => temp[w] = NoTemp BY <1>1 DEF Accounted
        <5> QED BY <1>2, <4>2, <5>1, <5>2, <5>3
      <4>3. CASE StageFail(w)
        <5>1. IsLast(w) => next[w] = NoTemp
          BY <1>1, <4>3 DEF StageFail, Holds, InStage, Busy
        <5>2. temp'[w] = NoTemp /\ next'[w] = NoTemp
          BY <1>1, <4>3 DEF StageFail, TypeOK
        <5> QED BY <1>2, <4>3, <5>1, <5>2 DEF Discarded, Owned
      <4> QED BY <2>4, <4>1, <4>2, <4>3
    <3>4. gone \subseteq Owned(w)
      BY DEF Discarded, Owned
    <3>5. \A u \in Worker \ {w}, t \in TempName : t \in {temp[u], next[u]} => t \notin gone
      BY <1>1, <1>2, <3>4 DEF Accounted, Owned
    <3>6. \A t \in TempName : t \in files' <=> \E u \in Worker : t \in {temp'[u], next'[u]}
      BY <1>1, <3>1, <3>2, <3>3, <3>5 DEF Accounted
    <3>7. temp'[w] = next'[w] => temp'[w] = NoTemp
      BY <1>1, <2>4 DEF TempFails, StageOk, StageFail, TypeOK, Holds
    <3>8. \A u \in Worker : temp'[u] = next'[u] => temp'[u] = NoTemp
      BY <1>1, <3>2, <3>7 DEF Accounted
    <3>9. Owned(w)' \subseteq Owned(w)
      BY <1>1, <2>4 DEF TempFails, StageOk, StageFail, TypeOK, Owned
    <3>10. \A u, v \in Worker : u # v => Owned(u)' \cap Owned(v)' = {}
      <4>1. \A u \in Worker : Owned(u)' \subseteq Owned(u) BY <3>2, <3>9 DEF Owned
      <4> QED BY <1>1, <4>1 DEF Accounted
    <3> QED BY <3>6, <3>8, <3>10 DEF Accounted
  <2>5. CASE Call(w) \/ ChooseOutput(w) \/ OpenInput(w) \/ ReadStreamHeader(w)
    BY <2>1, <2>5 DEF Call, ChooseOutput, OpenInput, ReadStreamHeader
  <2>6. CASE DecodeLegacy(w) \/ RefuseLegacy(w) \/ ReadChunk(w) \/ ReadRecord(w)
    BY <2>1, <2>6 DEF DecodeLegacy, RefuseLegacy, ReadChunk, ReadRecord
  <2>7. CASE Write(w) \/ TornWrite(w) \/ StageFault(w) \/ EndOfInput(w)
    BY <2>1, <2>7 DEF Write, TornWrite, StageFault, EndOfInput
  <2> QED BY <1>3, <2>2, <2>3, <2>4, <2>5, <2>6, <2>7 DEF CallStep, Step
<1>4. ASSUME NEW p \in Process, Crash(p) PROVE Accounted'
  BY <1>1, <1>4 DEF Crash, Accounted, Owned
<1>5. CASE UNCHANGED vars BY <1>1, <1>5 DEF vars, Accounted, Owned
<1> QED BY <1>3, <1>4, <1>5 DEF Next, CallStep

LEMMA InvStep == Inv /\ [Next]_vars => Inv'
<1> SUFFICES ASSUME Inv, [Next]_vars PROVE Inv' OBVIOUS
<1>1. TypeOK' BY StepTypes
<1>2. \A u \in Worker : Control(u)' /\ Holds(u)' BY StepControl
<1>3. Accounted' BY StepAccounted
<1> QED BY <1>1, <1>2, <1>3 DEF Inv

LEMMA Invariance == Spec => []Inv
<1>1. Init => Inv BY InitInv
<1>2. Inv /\ [Next]_vars => Inv' BY InvStep
<1> QED BY <1>1, <1>2, PTL DEF Spec

(******************************* the theorems ********************************)

(* Every variable always has its type: in particular the files hold units     *)
(* only, a stage is never left with an undefined target, and a call never     *)
(* goes past its last stage.                                                  *)
THEOREM TypeCorrect == Spec => []TypeOK
<1>1. Inv => TypeOK BY DEF Inv
<1> QED BY <1>1, Invariance, PTL

(* For any number of concurrent calls: every temporary in /tmp belongs to     *)
(* exactly one call that is running or was killed, and a call that returned,  *)
(* with 0 or with -1, has left none.                                          *)
THEOREM TemporariesAccounted == Spec => []TempsAccountedFor
<1>1. Inv => TempsAccountedFor
  <2> SUFFICES ASSUME Inv PROVE TempsAccountedFor OBVIOUS
  <2>1. NoTemp \notin TempName BY PipelineAssumption DEF FileName
  <2>2. \A w \in Worker : Owned(w) \subseteq TempName
    BY DEF Inv, TypeOK, Owned
  <2>3. files \cap TempName = UNION {Owned(w) : w \in Worker}
    <3>1. \A t \in TempName : t \in files <=> \E w \in Worker : t \in Owned(w)
      BY <2>1 DEF Inv, Accounted, Owned
    <3>2. \A t : t \in UNION {Owned(w) : w \in Worker} <=> \E w \in Worker : t \in Owned(w)
      OBVIOUS
    <3> QED BY <2>2, <3>1, <3>2
  <2>4. \A w \in Worker : pc[w] \in {"idle", "done", "failed"} => Owned(w) = {}
    BY DEF Inv, Holds, Owned
  <2> QED BY <2>3, <2>4 DEF Inv, Accounted, TempsAccountedFor
<1> QED BY <1>1, Invariance, PTL

(**************************** what a step touches ****************************)

Unchanged(f) == data'[f] = data[f] /\ (f \in files' => f \in files)

(* A call creates or changes a file only as the target of a stage that has    *)
(* got as far as opening it, as a new temporary, or by removing one of its    *)
(* own temporaries.                                                           *)
LEMMA Confinement ==
    ASSUME Inv, NEW w \in Worker, CallStep(w), NEW f \in FileName
    PROVE  \/ Unchanged(f)
           \/ /\ f = Target(w) /\ pc[w] \in {"create", "loop"}
              /\ pc'[w] \in {"loop", "stagefail"} /\ stage'[w] = stage[w]
           \/ f \in TempName /\ f \notin files /\ pc[w] = "stage"
           \/ f \in Owned(w) /\ (pc[w] = "stageok" \/ pc'[w] = "failed")
<1> USE DEF Goto
<1>1. TypeOK BY DEF Inv
<1>2. CASE UNCHANGED <<files, data>> BY <1>2 DEF Unchanged
<1>3. CASE CreateTemp(w)
  BY <1>1, <1>3 DEF CreateTemp, FreshName, TypeOK, FileName, Unchanged
<1>4. CASE CreateOutput(w) BY <1>1, <1>4 DEF CreateOutput, TypeOK, Unchanged
<1>5. CASE Write(w)
  <2>1. PICK new : data' = [data EXCEPT ![Target(w)] = new] BY <1>5 DEF Write
  <2>2. files' = files /\ pc' = pc /\ stage' = stage /\ pc[w] = "loop"
    BY <1>5 DEF Write
  <2> QED BY <1>1, <2>1, <2>2 DEF TypeOK, Unchanged
<1>6. CASE TornWrite(w)
  <2>1. PICK new : data' = [data EXCEPT ![Target(w)] = new] BY <1>6 DEF TornWrite
  <2>2. /\ files' = files /\ stage' = stage /\ pc[w] = "loop"
        /\ pc' = [pc EXCEPT ![w] = "stagefail"]
    BY <1>6 DEF TornWrite
  <2> QED BY <1>1, <2>1, <2>2 DEF TypeOK, Unchanged
<1>7. CASE TempFails(w) \/ StageOk(w) \/ StageFail(w)
  <2>1. \/ Unlink({temp[w]} \ {NoTemp}) \/ Unlink(Discarded(w))
    BY <1>7 DEF TempFails, StageOk, StageFail
  <2>2. {temp[w]} \ {NoTemp} \subseteq Owned(w) /\ Discarded(w) \subseteq Owned(w)
    BY DEF Owned, Discarded
  <2>3. f \in Owned(w) \/ Unchanged(f) BY <2>1, <2>2 DEF Unlink, Unchanged
  <2>4. pc[w] = "stageok" \/ pc'[w] = "failed"
    BY <1>1, <1>7 DEF TempFails, StageOk, StageFail, TypeOK
  <2> QED BY <2>3, <2>4
<1>8. CASE Call(w) \/ ChooseOutput(w) \/ OpenInput(w) \/ ReadStreamHeader(w)
  BY <1>2, <1>8 DEF Call, ChooseOutput, OpenInput, ReadStreamHeader
<1>9. CASE DecodeLegacy(w) \/ RefuseLegacy(w) \/ ReadChunk(w) \/ ReadRecord(w)
  BY <1>2, <1>9 DEF DecodeLegacy, RefuseLegacy, ReadChunk, ReadRecord
<1>10. CASE StageFault(w) \/ EndOfInput(w)
  BY <1>2, <1>10 DEF StageFault, EndOfInput
<1> QED BY <1>3, <1>4, <1>5, <1>6, <1>7, <1>8, <1>9, <1>10 DEF CallStep, Step

(* The output of a call that has opened it stays opened.                      *)
LEMMA OpenedStays ==
    ASSUME Inv, NEW w \in Worker, CallStep(w), OutputOpened(w)
    PROVE  OutputOpened(w)'
<1> USE DEF Goto
<1>1. TypeOK /\ config' = config /\ pc[w] \in {"loop", "stageok", "stagefail"}
  BY OthersUnmoved DEF Inv, OutputOpened, Ended
<1>2. IsLast(w) BY DEF OutputOpened
<1>3. CASE ReadChunk(w) \/ Write(w) BY <1>1, <1>2, <1>3 DEF ReadChunk, Write, OutputOpened, IsLast
<1>4. CASE ReadRecord(w)
  <2>1. pc'[w] \in {"loop", "stagefail"} /\ stage' = stage
    BY <1>1, <1>4 DEF ReadRecord, TypeOK
  <2> QED BY <1>1, <1>2, <2>1 DEF OutputOpened, IsLast
<1>5. CASE TornWrite(w) \/ StageFault(w) \/ EndOfInput(w)
  BY <1>1, <1>2, <1>5 DEF TornWrite, StageFault, EndOfInput, TypeOK, OutputOpened, IsLast
<1>6. CASE StageOk(w) BY <1>1, <1>2, <1>6 DEF StageOk, TypeOK, OutputOpened, IsLast
<1>7. CASE StageFail(w) BY <1>1, <1>2, <1>7 DEF StageFail, TypeOK, OutputOpened, IsLast
<1> QED BY <1>1, <1>3, <1>4, <1>5, <1>6, <1>7
        DEF CallStep, Step, Call, ChooseOutput, CreateTemp, TempFails, OpenInput,
            ReadStreamHeader, DecodeLegacy, RefuseLegacy, CreateOutput

(* Whatever the stages and the faults, an output that exists is left as it    *)
(* was by a call that has not opened it in its last stage.                    *)
THEOREM OutputOpenedLate == Spec => []LateOutput
<1>1. Init => LateOutput
  BY DEF Init, LateOutput, Touched
<1>2. Inv /\ LateOutput /\ [Next]_vars => LateOutput'
  <2> SUFFICES ASSUME Inv, LateOutput, [Next]_vars, NEW u \in Worker, Touched(u)'
               PROVE  OutputOpened(u)'
    BY DEF LateOutput
  <2>1. OutputOf[u] \in Path /\ OutputOf[u] \in FileName /\ Path \cap TempName = {}
        /\ NoTemp \notin FileName
    BY PipelineAssumption DEF FileName
  <2>2. ASSUME NEW w \in Worker, CallStep(w) PROVE OutputOpened(u)'
    <3>1. config' = config /\ start' = start BY <2>2, OthersUnmoved DEF Inv
    <3>2. CASE Unchanged(OutputOf[u])
      <4>1. Touched(u) BY <3>1, <3>2 DEF Touched, Unchanged
      <4>2. OutputOpened(u) BY <4>1 DEF LateOutput
      <4>3. CASE u = w BY <2>2, <4>2, <4>3, OpenedStays
      <4>4. CASE u # w
        <5>1. pc'[u] = pc[u] /\ stage'[u] = stage[u] BY <2>2, <4>4, OthersUnmoved DEF Inv
        <5> QED BY <3>1, <4>2, <5>1 DEF OutputOpened, IsLast
      <4> QED BY <4>3, <4>4
    <3>3. CASE /\ OutputOf[u] = Target(w) /\ pc[w] \in {"create", "loop"}
               /\ pc'[w] \in {"loop", "stagefail"} /\ stage'[w] = stage[w]
      <4>1. next[w] \in TempName \cup {NoTemp} BY DEF Inv, TypeOK
      <4>2. IsLast(w) BY <2>1, <3>3, <4>1 DEF Target, FileName
      <4>3. u = w BY <3>3, <4>2, SeparationAssumption DEF Target
      <4> QED BY <3>1, <3>3, <4>2, <4>3 DEF OutputOpened, IsLast
    <3>4. OutputOf[u] \notin TempName /\ OutputOf[u] \notin Owned(w)
      BY <2>1 DEF Owned, Inv, TypeOK, FileName
    <3> QED BY <2>1, <2>2, <3>2, <3>3, <3>4, Confinement
  <2>3. ASSUME NEW p \in Process, Crash(p) PROVE OutputOpened(u)'
    <3>1. UNCHANGED <<data, files, start, config, stage>> BY <2>3 DEF Crash
    <3>2. OutputOpened(u) BY <3>1 DEF LateOutput, Touched
    <3>3. pc'[u] \in {pc[u], "crashed"} BY <2>3 DEF Crash
    <3> QED BY <3>1, <3>2, <3>3 DEF OutputOpened, IsLast
  <2>4. CASE UNCHANGED vars
    BY <2>4 DEF vars, LateOutput, Touched, OutputOpened, IsLast
  <2> QED BY <2>2, <2>3, <2>4 DEF Next, CallStep
<1> QED BY <1>1, <1>2, Invariance, PTL DEF Spec

(* Nobody writes to, truncates or removes the file a call is reading: not the *)
(* call itself, not another one, in any interleaving.                         *)
THEOREM SourcesStable == Spec => SourceIsStable
<1>1. Inv /\ [Next]_vars =>
         [\A w \in Worker :
             pc[w] \in Busy /\ pc'[w] \in Busy /\ Source(w)' = Source(w)
                => data'[Source(w)] = data[Source(w)]]_vars
  <2> SUFFICES ASSUME Inv, Next, NEW u \in Worker,
                      pc[u] \in Busy, pc'[u] \in Busy, Source(u)' = Source(u)
               PROVE  data'[Source(u)] = data[Source(u)]
    OBVIOUS
  <2>1. /\ Path \cap TempName = {} /\ NoTemp \notin TempName
        /\ InputOf \in [Worker -> Path] /\ OutputOf \in [Worker -> Path]
    BY PipelineAssumption DEF FileName
  <2>2. ASSUME NEW p \in Process, Crash(p) PROVE data'[Source(u)] = data[Source(u)]
    BY <2>2 DEF Crash
  <2>3. ASSUME NEW w \in Worker, CallStep(w) PROVE data'[Source(u)] = data[Source(u)]
    <3>1. Source(u) \in FileName BY SourceAndTarget
    <3>2. temp[u] \in TempName \cup {NoTemp} /\ next[w] \in TempName \cup {NoTemp}
      BY DEF Inv, TypeOK
    <3>3. ~(Source(u) = Target(w) /\ pc[w] \in {"create", "loop"})
      <4> SUFFICES ASSUME Source(u) = Target(w), pc[w] \in {"create", "loop"} PROVE FALSE
        OBVIOUS
      <4>1. CASE IsLast(w)
        <5>1. Source(u) = OutputOf[w] BY <4>1 DEF Target
        <5>2. Source(u) = InputOf[u] BY <2>1, <3>2, <5>1 DEF Source
        <5>3. w \in Waits[u] BY <5>1, <5>2, SeparationAssumption
        <5>4. pc[w] \in Ended BY <5>3 DEF Inv, Control
        <5> QED BY <5>4 DEF Ended
      <4>2. CASE ~IsLast(w)
        <5>1. next[w] # NoTemp BY <4>2 DEF Inv, Holds, InStage, Busy
        <5>2. Source(u) = next[w] BY <4>2 DEF Target
        <5>3. temp[u] = next[w] BY <2>1, <3>2, <5>1, <5>2 DEF Source
        <5> QED BY <5>1, <5>3 DEF Inv, Accounted, Owned
      <4> QED BY <4>1, <4>2
    <3>4. ~(Source(u) \in TempName /\ Source(u) \notin files)
      <4>1. Source(u) \in TempName => Source(u) = temp[u] BY <2>1 DEF Source
      <4> QED BY <4>1 DEF Inv, Accounted
    <3>5. ~(Source(u) \in Owned(w) /\ (pc[w] = "stageok" \/ pc'[w] = "failed"))
      <4> SUFFICES ASSUME Source(u) \in Owned(w), pc[w] = "stageok" \/ pc'[w] = "failed"
                   PROVE FALSE
        OBVIOUS
      <4>1. Source(u) = temp[u] /\ temp[u] # NoTemp
        <5>1. Source(u) \in TempName
          BY <3>2 DEF Owned, Inv, TypeOK
        <5> QED BY <2>1, <5>1 DEF Source
      <4>2. u = w BY <4>1 DEF Inv, Accounted, Owned
      <4>3. pc[u] = "stageok" /\ StageOk(u)
        BY <2>3, <4>2 DEF Busy, CallStep, Step, Call, ChooseOutput, CreateTemp, TempFails,
              OpenInput, ReadStreamHeader, DecodeLegacy, RefuseLegacy, CreateOutput,
              ReadChunk, ReadRecord, Write, TornWrite, StageFault, EndOfInput, StageFail
      <4>4. ~IsLast(u) /\ temp'[u] = next[u]
        BY <4>3 DEF StageOk, Goto, Inv, TypeOK, Busy
      <4>5. next[u] # NoTemp /\ next[u] # temp[u]
        BY <4>1, <4>3, <4>4 DEF Inv, Holds, Accounted, InStage, Busy
      <4>6. Source(u)' = next[u] BY <4>4, <4>5 DEF Source
      <4> QED BY <4>1, <4>5, <4>6
    <3> QED BY <2>3, <3>1, <3>3, <3>4, <3>5, Confinement DEF Unchanged
  <2> QED BY <2>2, <2>3 DEF Next, CallStep
<1> QED BY <1>1, Invariance, PTL DEF Spec, SourceIsStable

(**************************** units and streams ******************************)

(* Where the parts of a concatenation are.                                    *)
Joined(s, t, st) ==
    /\ st \in Seq(Unit) /\ Len(st) = Len(s) + Len(t)
    /\ Len(s) \in Nat /\ Len(t) \in Nat
    /\ \A i \in 1 .. Len(s) : st[i] = s[i]
    /\ \A i \in Len(s) + 1 .. Len(s) + Len(t) : st[i] = t[i - Len(s)]
    /\ \A j \in 1 .. Len(t) : st[Len(s) + j] = t[j]

LEMMA ConcatParts ==
    ASSUME NEW s \in Seq(Unit), NEW t \in Seq(Unit)
    PROVE  Joined(s, t, s \o t)
<1> DEFINE m == Len(s)
           n == Len(t)
<1>1. s \o t \in Seq(Unit) /\ Len(s \o t) = m + n BY ConcatProperties
<1>2. m \in Nat /\ n \in Nat BY LenProperties
<1>3. \A i \in 1 .. m + n : (s \o t)[i] = IF i <= m THEN s[i] ELSE t[i - m]
  BY ConcatProperties
<1>4. \A i \in 1 .. m : (s \o t)[i] = s[i] BY <1>2, <1>3
<1>5. \A i \in m + 1 .. m + n : (s \o t)[i] = t[i - m] BY <1>2, <1>3
<1>6. ASSUME NEW j \in 1 .. n PROVE (s \o t)[m + j] = t[j]
  <2>1. m + j \in m + 1 .. m + n /\ (m + j) - m = j BY <1>2
  <2> QED BY <1>5, <2>1
<1> QED BY <1>1, <1>2, <1>4, <1>5, <1>6 DEF Joined

(******************************* the remainder *******************************)

(* The quotient and the remainder of a division by the key's length.          *)
LEMMA Euclid ==
    ASSUME NEW x \in Int, NEW K \in Nat \ {0}
    PROVE  /\ x = K * (x \div K) + (x % K)
           /\ x % K \in 0 .. K - 1
           /\ x \div K \in Int
OBVIOUS

(* Only one remainder leaves a multiple of the key's length.                  *)
LEMMA RemainderUnique ==
    ASSUME NEW K \in Nat \ {0}, NEW q \in Int, NEW r \in 0 .. K - 1
    PROVE  (K * q + r) % K = r
<1> DEFINE x == K * q + r
           m == (x \div K) - q
<1>1. x \in Int OBVIOUS
<1>2. x = K * (x \div K) + (x % K) /\ x % K \in 0 .. K - 1 BY <1>1, Euclid
<1>3. m \in Int BY <1>1, Euclid
<1>4. K * m = r - (x % K) BY <1>1, <1>2, SMT
<1>5. ~(m >= 1) BY <1>2, <1>3, <1>4, SMT
<1>6. ~(m <= -1) BY <1>2, <1>3, <1>4, SMT
<1>7. m = 0 BY <1>3, <1>5, <1>6
<1> QED BY <1>2, <1>4, <1>7

(* The key position may be reduced after every read or once.                  *)
LEMMA RemainderOfSum ==
    ASSUME NEW K \in Nat \ {0}, NEW a \in Nat, NEW b \in Nat
    PROVE  ((a % K) + b) % K = (a + b) % K
<1> DEFINE y == (a % K) + b
<1>1. a = K * (a \div K) + (a % K) /\ a % K \in 0 .. K - 1 /\ a \div K \in Int BY Euclid
<1>2. y \in Int BY <1>1
<1>3. y = K * (y \div K) + (y % K) /\ y % K \in 0 .. K - 1 /\ y \div K \in Int
  BY <1>2, Euclid
<1>4. a + b = K * ((a \div K) + (y \div K)) + (y % K) BY <1>1, <1>3, SMT
<1>5. (a \div K) + (y \div K) \in Int BY <1>1, <1>3
<1>6. (K * ((a \div K) + (y \div K)) + (y % K)) % K = y % K
  BY <1>3, <1>5, RemainderUnique
<1> QED BY <1>4, <1>6

(********************************* the units *********************************)

(* A layer put on comes off, and one that was taken off can be put back.      *)
LEMMA LayerUndone ==
    ASSUME NEW u \in Unit, NEW l \in Layer
    PROVE  /\ Outermost(Pushed(u, l), l) /\ Popped(Pushed(u, l)) = u
           /\ Pushed(u, l).layers # <<>>
           /\ Outermost(u, l) => Pushed(Popped(u), l) = u
<1>1. u.layers \in Seq(Layer) BY DEF Unit, Layers
<1>2. /\ <<l>> \o u.layers # <<>> /\ Head(<<l>> \o u.layers) = l
      /\ Tail(<<l>> \o u.layers) = u.layers
  BY <1>1, SequencePushed
<1>3. Pushed(u, l).layers = <<l>> \o u.layers BY DEF Pushed, Unit
<1>4. Popped(Pushed(u, l)) = u BY <1>2, <1>3 DEF Popped, Pushed, Unit
<1>5. ASSUME Outermost(u, l) PROVE Pushed(Popped(u), l) = u
  <2>1. u.layers # <<>> /\ Head(u.layers) = l BY <1>5 DEF Outermost
  <2>2. Tail(u.layers) \in Seq(Layer) BY <1>1, <2>1
  <2>3. /\ <<l>> \o Tail(u.layers) \in Seq(Layer)
        /\ Len(<<l>> \o Tail(u.layers)) = 1 + Len(Tail(u.layers))
        /\ (<<l>> \o Tail(u.layers))[1] = l
        /\ \A i \in 1 .. Len(Tail(u.layers)) :
              (<<l>> \o Tail(u.layers))[i + 1] = Tail(u.layers)[i]
    BY <2>2, SequencePushed
  <2>4. /\ Len(Tail(u.layers)) = Len(u.layers) - 1 /\ Len(u.layers) \in Nat \ {0}
        /\ \A i \in 1 .. Len(Tail(u.layers)) : Tail(u.layers)[i] = u.layers[i + 1]
        /\ Head(u.layers) = u.layers[1]
    BY <1>1, <2>1, HeadTailProperties, EmptySeq
  <2>5. ASSUME NEW i \in 1 .. Len(u.layers)
        PROVE  (<<l>> \o Tail(u.layers))[i] = u.layers[i]
    <3>1. CASE i = 1 BY <2>1, <2>3, <2>4, <3>1
    <3>2. CASE i # 1
      <4>1. i - 1 \in 1 .. Len(Tail(u.layers)) /\ (i - 1) + 1 = i BY <2>4, <3>2
      <4>2. (<<l>> \o Tail(u.layers))[(i - 1) + 1] = Tail(u.layers)[i - 1]
        BY <2>3, <4>1
      <4>3. Tail(u.layers)[i - 1] = u.layers[(i - 1) + 1] BY <2>4, <4>1
      <4> QED BY <4>1, <4>2, <4>3
    <3> QED BY <3>1, <3>2
  <2>6. <<l>> \o Tail(u.layers) = u.layers
    <3>1. Len(<<l>> \o Tail(u.layers)) = Len(u.layers) BY <2>3, <2>4
    <3> QED BY <1>1, <2>3, <2>5, <3>1, SeqEqual
  <2> QED BY <2>6 DEF Pushed, Popped, Unit
<1> QED BY <1>2, <1>3, <1>4, <1>5 DEF Outermost

(* The cipher is its own inverse (operations.c:560-566).                      *)
LEMMA XorTwice ==
    ASSUME NEW x \in Unit, NEW k \in Nat
    PROVE  XorUnit(XorUnit(x, k), k) = x
<1> DEFINE l == [kind |-> "xor", arg |-> k]
<1>1. l \in Layer BY DEF Layer
<1> HIDE DEF l
<1>2. CASE ~Outermost(x, l)
  <2>1. XorUnit(x, k) = Pushed(x, l) BY <1>2 DEF XorUnit, l
  <2>2. Outermost(Pushed(x, l), l) /\ Popped(Pushed(x, l)) = x BY <1>1, LayerUndone
  <2> QED BY <2>1, <2>2 DEF XorUnit, l
<1>3. CASE Outermost(x, l)
  <2>1. XorUnit(x, k) = Popped(x) BY <1>3 DEF XorUnit, l
  <2>2. Pushed(Popped(x), l) = x BY <1>1, <1>3, LayerUndone
  <2>3. ~Outermost(Popped(x), l)
    <3>1. x.layers # <<>> /\ Head(x.layers) = l /\ x.layers \in Seq(Layer)
      BY <1>3 DEF Outermost, Unit, Layers
    <3>2. Popped(x).layers = Tail(x.layers) BY DEF Popped, Unit
    <3> SUFFICES ASSUME Tail(x.layers) # <<>>, Head(Tail(x.layers)) = l PROVE FALSE
      BY <3>2 DEF Outermost
    <3>3. /\ Tail(x.layers) \in Seq(Layer) /\ Len(Tail(x.layers)) = Len(x.layers) - 1
          /\ \A i \in 1 .. Len(Tail(x.layers)) : Tail(x.layers)[i] = x.layers[i + 1]
          /\ Head(x.layers) = x.layers[1] /\ Len(x.layers) \in Nat
      BY <3>1, HeadTailProperties, EmptySeq
    <3>4. Len(Tail(x.layers)) \in Nat \ {0} BY <3>3, EmptySeq
    <3>5. Tail(x.layers)[1] = x.layers[1 + 1] /\ Head(Tail(x.layers)) = Tail(x.layers)[1]
      BY <3>3, <3>4
    <3>6. 1 \in 1 .. Len(x.layers) - 1 BY <3>3, <3>4
    <3>7. x.layers[1].kind = "xor" => x.layers[1] # x.layers[1 + 1]
      BY <3>6 DEF Unit, Layers, Reduced
    <3> QED BY <3>1, <3>3, <3>5, <3>7 DEF l
  <2> QED BY <2>1, <2>2, <2>3 DEF XorUnit, l
<1> QED BY <1>2, <1>3

(* Decrypting with the key that encrypted gives the file back.                *)
LEMMA EncryptedTwice ==
    ASSUME NEW s \in Seq(Unit), NEW K \in Nat \ {0}
    PROVE  Encrypted(Encrypted(s, K), K) = s
<1> DEFINE e == Encrypted(s, K)
           d == Encrypted(e, K)
<1>1. e \in Seq(Unit) /\ Len(e) = Len(s) BY XorFromType DEF Encrypted
<1>2. d \in Seq(Unit) /\ Len(d) = Len(s) BY <1>1, XorFromType DEF Encrypted
<1>3. ASSUME NEW i \in 1 .. Len(s) PROVE d[i] = s[i]
  <2>1. e[i] = XorUnit(s[i], (0 + i - 1) % K) BY DEF Encrypted, XorFrom
  <2>2. d[i] = XorUnit(e[i], (0 + i - 1) % K) BY <1>1 DEF Encrypted, XorFrom
  <2>3. s[i] \in Unit /\ (0 + i - 1) % K \in Nat BY ElementOfSeq
  <2> QED BY <2>1, <2>2, <2>3, XorTwice
<1> QED BY <1>2, <1>3, SeqEqual

(* Encrypting a file chunk by chunk, each with the key position the chunks    *)
(* before it left, is encrypting it in one pass.                              *)
LEMMA EncryptedChunk ==
    ASSUME NEW a \in Seq(Unit), NEW b \in Seq(Unit), NEW K \in Nat \ {0}
    PROVE  Encrypted(a \o b, K) = Encrypted(a, K) \o XorFrom(b, Len(a) % K, K)
<1> DEFINE whole == Encrypted(a \o b, K)
           first == Encrypted(a, K)
           second == XorFrom(b, Len(a) % K, K)
<1>1. /\ a \o b \in Seq(Unit) /\ Len(a \o b) = Len(a) + Len(b)
      /\ Len(a) \in Nat /\ Len(b) \in Nat /\ Len(a) % K \in Nat
  BY LenProperties, ConcatProperties
<1>2. first \in Seq(Unit) /\ Len(first) = Len(a) BY XorFromType DEF Encrypted
<1>3. second \in Seq(Unit) /\ Len(second) = Len(b) BY <1>1, XorFromType
<1>4. whole \in Seq(Unit) /\ Len(whole) = Len(a) + Len(b)
  BY <1>1, XorFromType DEF Encrypted
<1> HIDE DEF whole, first, second
<1>5. /\ first \o second \in Seq(Unit) /\ Len(first \o second) = Len(a) + Len(b)
      /\ \A i \in 1 .. Len(a) : (first \o second)[i] = first[i]
      /\ \A i \in Len(a) + 1 .. Len(a) + Len(b) :
            (first \o second)[i] = second[i - Len(a)]
  <2>1. Joined(first, second, first \o second) BY <1>2, <1>3, ConcatParts
  <2> QED BY <1>2, <1>3, <2>1 DEF Joined
<1>6. ASSUME NEW i \in 1 .. Len(a) + Len(b) PROVE whole[i] = (first \o second)[i]
  <2>1. whole[i] = XorUnit((a \o b)[i], (0 + i - 1) % K)
    BY <1>1 DEF Encrypted, XorFrom, whole
  <2>2. CASE i <= Len(a)
    <3>1. i \in 1 .. Len(a) BY <1>1, <2>2
    <3>2. (a \o b)[i] = a[i] BY <3>1, ConcatParts DEF Joined
    <3>3. first[i] = XorUnit(a[i], (0 + i - 1) % K)
      BY <3>1 DEF Encrypted, XorFrom, first
    <3> QED BY <1>5, <2>1, <3>1, <3>2, <3>3
  <2>3. CASE i > Len(a)
    <3>1. /\ i \in Len(a) + 1 .. Len(a) + Len(b)
          /\ i - Len(a) \in 1 .. Len(b) /\ (i - Len(a)) - 1 \in Nat
      BY <1>1, <2>3
    <3>2. (a \o b)[i] = b[i - Len(a)] BY <3>1, ConcatParts DEF Joined
    <3>3. second[i - Len(a)]
             = XorUnit(b[i - Len(a)], ((Len(a) % K) + (i - Len(a)) - 1) % K)
      BY <3>1 DEF XorFrom, second
    <3>4. ((Len(a) % K) + ((i - Len(a)) - 1)) % K = (Len(a) + ((i - Len(a)) - 1)) % K
      BY <1>1, <3>1, RemainderOfSum
    <3>5. /\ (Len(a) % K) + ((i - Len(a)) - 1) = (Len(a) % K) + (i - Len(a)) - 1
          /\ Len(a) + ((i - Len(a)) - 1) = 0 + i - 1
      BY <1>1
    <3>6. (first \o second)[i] = second[i - Len(a)] BY <1>5, <3>1
    <3> QED BY <2>1, <3>2, <3>3, <3>4, <3>5, <3>6
  <2>4. i <= Len(a) \/ i > Len(a) BY <1>1
  <2> QED BY <2>2, <2>3, <2>4
<1>7. whole = first \o second BY <1>4, <1>5, <1>6, SeqEqual
<1> QED BY <1>7 DEF whole, first, second

(******************************** the streams ********************************)

(* The two halves of IsStreamOf: the headers, and the units between them.     *)
Framed(out, alg) ==
    /\ IsStream(out) /\ out[1].val = alg
    /\ Len(out) > 1 => IsRecord(out[2])
    /\ \A i \in 2 .. Len(out) :
          IsRecord(out[i]) =>
             LET end == i + out[i].val
             IN /\ end <= Len(out)
                /\ \A j \in i + 1 .. end : Outermost(out[j], CodecLayer(alg))
                /\ end < Len(out) => IsRecord(out[end + 1])

Carries(out, alg, in) ==
    /\ {Rank(alg, out, i) : i \in Payload(alg, out)} = 1 .. Len(in)
    /\ \A i \in Payload(alg, out) :
          out[i] = Pushed(in[Rank(alg, out, i)], CodecLayer(alg))

(* As many coded units as there are units: with it, a stream can grow.        *)
StreamSoFar(out, alg, in) ==
    Framed(out, alg) /\ Carries(out, alg, in) /\ Cardinality(Payload(alg, out)) = Len(in)

LEMMA StreamHalves ==
    ASSUME NEW out, NEW alg, NEW in
    PROVE  IsStreamOf(out, alg, in) <=> Framed(out, alg) /\ Carries(out, alg, in)
BY DEF IsStreamOf, Framed, Carries

(* A stream header is the stream of nothing.                                  *)
LEMMA EmptyStream ==
    ASSUME NEW s, Len(s) = 1, s # <<>>, IsHeader(s[1]), NEW alg, s[1].val = alg
    PROVE  StreamSoFar(s, alg, <<>>)
<1>1. Payload(alg, s) = {}
  <2>1. ~Outermost(s[1], CodecLayer(alg)) BY DEF IsHeader, Outermost
  <2>2. 1 .. Len(s) = {1} OBVIOUS
  <2> QED BY <2>1, <2>2 DEF Payload
<1>2. Framed(s, alg) BY DEF Framed, IsStream
<1>3. Carries(s, alg, <<>>)
  <2>1. 1 .. Len(<<>>) = {} OBVIOUS
  <2>2. {Rank(alg, s, i) : i \in Payload(alg, s)} = {} BY <1>1
  <2> QED BY <1>1, <2>1, <2>2 DEF Carries
<1>4. Cardinality(Payload(alg, s)) = 0 BY <1>1, FS_EmptySet
<1> QED BY <1>2, <1>3, <1>4 DEF StreamSoFar

(* A record is its header and then the coded units.                           *)
LEMMA RecordParts ==
    ASSUME NEW alg \in Nat, NEW chunk \in Seq(Unit)
    PROVE  LET r == ChunkRecord(alg, chunk)
               l == CodecLayer(alg)
           IN /\ r \in Seq(Unit) /\ Len(r) = 1 + Len(chunk)
              /\ IsRecord(r[1]) /\ r[1].val = Len(chunk) /\ ~Outermost(r[1], l)
              /\ \A j \in 1 .. Len(chunk) :
                    r[1 + j] = Pushed(chunk[j], l) /\ Outermost(r[1 + j], l)
                    /\ ~IsRecord(r[1 + j])
<1> DEFINE l == CodecLayer(alg)
           h == Plain("record", Len(chunk))
           c == Coded(alg, chunk)
           r == <<h>> \o c
<1>1. Len(chunk) \in Nat /\ h \in Unit BY LenProperties, PlainType DEF UnitKind
<1>2. c \in Seq(Unit) /\ Len(c) = Len(chunk) BY CodedType
<1>3. \A j \in 1 .. Len(chunk) : c[j] = Pushed(chunk[j], l) BY DEF Coded
<1>4. \A j \in 1 .. Len(chunk) : Outermost(Pushed(chunk[j], l), l)
                                  /\ Pushed(chunk[j], l).layers # <<>>
  BY CodecLayerType, ElementOfSeq, LayerUndone
<1>5. h.kind = "record" /\ h.layers = <<>> /\ h.val = Len(chunk) BY DEF Plain
<1> HIDE DEF c, h, l
<1>6. /\ r \in Seq(Unit) /\ Len(r) = 1 + Len(c) /\ r[1] = h
      /\ \A i \in 1 .. Len(c) : r[i + 1] = c[i]
  BY <1>1, <1>2, SequencePushed
<1>7. \A j \in 1 .. Len(chunk) : r[1 + j] = Pushed(chunk[j], l)
  <2> SUFFICES ASSUME NEW j \in 1 .. Len(chunk) PROVE r[1 + j] = Pushed(chunk[j], l)
    OBVIOUS
  <2>1. 1 + j = j + 1 OBVIOUS
  <2>2. r[j + 1] = c[j] BY <1>2, <1>6
  <2> QED BY <1>3, <2>1, <2>2
<1>8. ChunkRecord(alg, chunk) = r BY DEF ChunkRecord, h, c
<1>9. \A j \in 1 .. Len(chunk) : Outermost(r[1 + j], l) /\ ~IsRecord(r[1 + j])
  BY <1>4, <1>7 DEF IsRecord
<1>10. IsRecord(r[1]) /\ r[1].val = Len(chunk) /\ ~Outermost(r[1], l)
  BY <1>5, <1>6 DEF IsRecord, Outermost
<1> HIDE DEF r
<1>11. r \in Seq(Unit) /\ Len(r) = 1 + Len(chunk) BY <1>2, <1>6
<1> QED BY <1>7, <1>8, <1>9, <1>10, <1>11 DEF l

(* Where the parts of a stream t that is s and one more record are.           *)
Grown(s, alg, chunk, t) ==
    LET n == Len(s)
        m == Len(chunk)
        l == CodecLayer(alg)
    IN /\ t \in Seq(Unit) /\ Len(t) = n + 1 + m /\ n \in Nat /\ m \in Nat
       /\ \A i \in 1 .. n : t[i] = s[i]
       /\ IsRecord(t[n + 1]) /\ t[n + 1].val = m /\ ~Outermost(t[n + 1], l)
       /\ \A j \in 1 .. m :
             t[n + 1 + j] = Pushed(chunk[j], l) /\ Outermost(t[n + 1 + j], l)
             /\ ~IsRecord(t[n + 1 + j])

LEMMA GrownParts ==
    ASSUME NEW s \in Seq(Unit), NEW alg \in Nat, NEW chunk \in Seq(Unit)
    PROVE  Grown(s, alg, chunk, s \o ChunkRecord(alg, chunk))
<1> DEFINE n == Len(s)
           m == Len(chunk)
           r == ChunkRecord(alg, chunk)
           l == CodecLayer(alg)
           t == s \o r
<1>1. /\ r \in Seq(Unit) /\ Len(r) = 1 + m
      /\ IsRecord(r[1]) /\ r[1].val = m /\ ~Outermost(r[1], l)
      /\ \A j \in 1 .. m : r[1 + j] = Pushed(chunk[j], l) /\ Outermost(r[1 + j], l)
                            /\ ~IsRecord(r[1 + j])
  BY RecordParts
<1> HIDE DEF r, l, n, m
<1>2. n \in Nat /\ m \in Nat /\ Len(s) = n BY LenProperties DEF n, m
<1>3. /\ t \in Seq(Unit) /\ Len(t) = n + (1 + m)
      /\ \A i \in 1 .. n : t[i] = s[i]
      /\ \A j \in 1 .. 1 + m : t[n + j] = r[j]
  <2> DEFINE k == 1 + m
  <2>1. Len(r) = k BY <1>1
  <2> HIDE DEF k
  <2>2. /\ t \in Seq(Unit) /\ Len(t) = n + k
        /\ \A i \in 1 .. n : t[i] = s[i]
        /\ \A j \in 1 .. k : t[n + j] = r[j]
    <3>1. Joined(s, r, t) BY <1>1, ConcatParts
    <3> QED BY <1>2, <2>1, <3>1 DEF Joined
  <2> QED BY <2>2 DEF k
<1>4. t[n + 1] = r[1] BY <1>2, <1>3
<1>5. \A j \in 1 .. m : t[n + 1 + j] = r[1 + j]
  <2> SUFFICES ASSUME NEW j \in 1 .. m PROVE t[n + 1 + j] = r[1 + j] OBVIOUS
  <2>1. 1 + j \in 1 .. 1 + m /\ n + (1 + j) = n + 1 + j BY <1>2
  <2>2. t[n + (1 + j)] = r[1 + j] BY <1>3, <2>1
  <2> QED BY <2>1, <2>2
<1>6. Len(t) = n + 1 + m BY <1>2, <1>3
<1>7. Grown(s, alg, chunk, t)
  BY <1>1, <1>2, <1>3, <1>4, <1>5, <1>6 DEF n, m, l, Grown
<1> QED BY <1>7 DEF r

(* One more record keeps the headers in order.                                *)
LEMMA FramedGrows ==
    ASSUME NEW s \in Seq(Unit), NEW alg \in Nat, NEW chunk \in Seq(Unit), Framed(s, alg)
    PROVE  Framed(s \o ChunkRecord(alg, chunk), alg)
<1> DEFINE t == s \o ChunkRecord(alg, chunk)
           n == Len(s)
           m == Len(chunk)
           l == CodecLayer(alg)
<1>1. /\ t \in Seq(Unit) /\ Len(t) = n + 1 + m /\ n \in Nat /\ m \in Nat
      /\ \A i \in 1 .. n : t[i] = s[i]
      /\ IsRecord(t[n + 1]) /\ t[n + 1].val = m /\ ~Outermost(t[n + 1], l)
      /\ \A j \in 1 .. m :
            t[n + 1 + j] = Pushed(chunk[j], l) /\ Outermost(t[n + 1 + j], l)
            /\ ~IsRecord(t[n + 1 + j])
  BY GrownParts DEF Grown
<1>2. n \in Nat \ {0}
  <2>1. s # <<>> BY DEF Framed, IsStream
  <2> QED BY <2>1, EmptySeq
<1> HIDE DEF t, m, n
<1>3. t # <<>> /\ t[1] = s[1]
  <2>1. Len(t) # 0 /\ 1 \in 1 .. n BY <1>1, <1>2
  <2>2. t # <<>> BY <1>1, <2>1, EmptySeq
  <2> QED BY <1>1, <2>1, <2>2
<1>4. IsStream(t) /\ t[1].val = alg BY <1>3 DEF Framed, IsStream
<1>5. IsRecord(t[2])
  <2>1. CASE n = 1 BY <1>1, <2>1
  <2>2. CASE n # 1
    <3>1. 2 \in 1 .. n /\ n > 1 BY <1>2, <2>2
    <3>2. IsRecord(s[2]) BY <3>1 DEF Framed, n
    <3>3. t[2] = s[2] BY <1>1, <3>1
    <3> QED BY <3>2, <3>3
  <2> QED BY <2>1, <2>2
<1>6. ASSUME NEW i \in 2 .. Len(t), IsRecord(t[i])
      PROVE  /\ i + t[i].val <= Len(t)
             /\ \A j \in i + 1 .. i + t[i].val : Outermost(t[j], l)
             /\ i + t[i].val < Len(t) => IsRecord(t[i + t[i].val + 1])
  <2>1. CASE i <= n
    <3>1. i \in 2 .. n /\ i \in 1 .. n BY <1>1, <2>1
    <3>2. t[i] = s[i] BY <1>1, <3>1
    <3>3. s[i] \in Unit BY <3>1, ElementOfSeq DEF n
    <3> DEFINE end == i + s[i].val
    <3>4. end \in Nat /\ end >= i BY <3>1, <3>3 DEF Unit
    <3>5. /\ end <= n
          /\ \A j \in i + 1 .. end : Outermost(s[j], l)
          /\ end < n => IsRecord(s[end + 1])
      BY <1>6, <3>1, <3>2 DEF Framed, n
    <3> HIDE DEF end
    <3>6. \A j \in i + 1 .. end : Outermost(t[j], l)
      <4>1. \A j \in i + 1 .. end : j \in 1 .. n BY <1>1, <3>1, <3>4, <3>5
      <4> QED BY <1>1, <3>5, <4>1
    <3>7. IsRecord(t[end + 1])
      <4>1. CASE end < n
        <5>1. end + 1 \in 1 .. n BY <1>1, <3>4, <4>1
        <5> QED BY <1>1, <3>5, <4>1, <5>1
      <4>2. CASE end = n BY <1>1, <4>2
      <4> QED BY <1>1, <3>4, <3>5, <4>1, <4>2
    <3>8. end <= Len(t) BY <1>1, <3>4, <3>5
    <3>9. i + t[i].val = end BY <3>2 DEF end
    <3> QED BY <3>6, <3>7, <3>8, <3>9
  <2>2. CASE i > n
    <3>1. i = n + 1
      <4> SUFFICES ASSUME i # n + 1 PROVE FALSE OBVIOUS
      <4>1. i - (n + 1) \in 1 .. m /\ n + 1 + (i - (n + 1)) = i BY <1>1, <2>2
      <4>2. ~IsRecord(t[n + 1 + (i - (n + 1))]) BY <1>1, <4>1
      <4> QED BY <1>6, <4>1, <4>2
    <3>2. i + t[i].val = n + 1 + m BY <1>1, <3>1
    <3>3. \A j \in i + 1 .. n + 1 + m : Outermost(t[j], l)
      <4> SUFFICES ASSUME NEW j \in i + 1 .. n + 1 + m PROVE Outermost(t[j], l) OBVIOUS
      <4>1. j - (n + 1) \in 1 .. m /\ n + 1 + (j - (n + 1)) = j BY <1>1, <3>1
      <4>2. Outermost(t[n + 1 + (j - (n + 1))], l) BY <1>1, <4>1
      <4> QED BY <4>1, <4>2
    <3>4. ~(n + 1 + m < Len(t)) /\ n + 1 + m <= Len(t) BY <1>1
    <3> QED BY <3>2, <3>3, <3>4
  <2> QED BY <1>1, <2>1, <2>2
<1>7. Framed(t, alg) BY <1>4, <1>5, <1>6 DEF Framed
<1> QED BY <1>7 DEF t

(* One more record carries its units on.                                      *)
LEMMA CarriesGrows ==
    ASSUME NEW s \in Seq(Unit), NEW alg \in Nat, NEW chunk \in Seq(Unit),
           NEW in \in Seq(Unit), Carries(s, alg, in),
           Cardinality(Payload(alg, s)) = Len(in)
    PROVE  LET t == s \o ChunkRecord(alg, chunk)
           IN /\ Carries(t, alg, in \o chunk)
              /\ Cardinality(Payload(alg, t)) = Len(in \o chunk)
<1> DEFINE t == s \o ChunkRecord(alg, chunk)
           n == Len(s)
           m == Len(chunk)
           l == CodecLayer(alg)
<1>1. /\ t \in Seq(Unit) /\ Len(t) = n + 1 + m /\ n \in Nat /\ m \in Nat
      /\ \A i \in 1 .. n : t[i] = s[i]
      /\ IsRecord(t[n + 1]) /\ t[n + 1].val = m /\ ~Outermost(t[n + 1], l)
      /\ \A j \in 1 .. m : t[n + 1 + j] = Pushed(chunk[j], l)
                            /\ Outermost(t[n + 1 + j], l)
                            /\ ~IsRecord(t[n + 1 + j])
  BY GrownParts DEF Grown
<1> DEFINE p == Len(in)
           all == in \o chunk
           P == Payload(alg, s)
           Q == Payload(alg, t)
<1>2. n \in Nat /\ m \in Nat /\ p \in Nat BY LenProperties
<1>3. /\ all \in Seq(Unit) /\ Len(all) = p + m
      /\ \A i \in 1 .. p : all[i] = in[i]
      /\ \A j \in 1 .. m : all[p + j] = chunk[j]
  BY ConcatParts DEF Joined
<1> HIDE DEF t, all, n, m, p, l
<1>4. P = {i \in 1 .. n : Outermost(s[i], l)} /\ P \subseteq 1 .. n
  BY DEF Payload, l, n
<1>5. Q = {i \in 1 .. Len(t) : Outermost(t[i], l)} BY DEF Payload, l
<1>6. Q = P \cup (n + 2 .. n + 1 + m)
  <2>1. ASSUME NEW i \in 1 .. n PROVE i \in Q <=> i \in P
    <3>1. i \in 1 .. Len(t) BY <1>1, <1>2
    <3>2. t[i] = s[i] BY <1>1
    <3> QED BY <1>4, <1>5, <3>1, <3>2
  <2>2. n + 1 \notin Q BY <1>1, <1>5
  <2>3. ASSUME NEW i \in n + 2 .. n + 1 + m PROVE i \in Q
    <3>1. i - (n + 1) \in 1 .. m /\ n + 1 + (i - (n + 1)) = i /\ i \in 1 .. n + 1 + m
      BY <1>2
    <3>2. Outermost(t[n + 1 + (i - (n + 1))], l) BY <1>1, <3>1
    <3> QED BY <1>1, <1>5, <3>1, <3>2
  <2>4. ASSUME NEW i \in 1 .. n + 1 + m
        PROVE  i \in 1 .. n \/ i = n + 1 \/ i \in n + 2 .. n + 1 + m
    BY <1>2
  <2>5. Q \subseteq 1 .. n + 1 + m BY <1>1, <1>5
  <2>6. P \cup (n + 2 .. n + 1 + m) \subseteq Q BY <1>4, <2>1, <2>3
  <2>7. ASSUME NEW i \in Q PROVE i \in P \cup (n + 2 .. n + 1 + m)
    BY <2>1, <2>2, <2>4, <2>5
  <2> QED BY <2>6, <2>7
<1>7. IsFiniteSet(P)
  <2>1. IsFiniteSet(1 .. n) BY <1>2, FS_Interval
  <2> QED BY <1>4, <2>1, FS_Subset
<1>8. Cardinality(P) = p BY DEF p
<1>9. ASSUME NEW j \in 0 .. m
      PROVE  Cardinality(P \cup (n + 2 .. n + 1 + j)) = p + j
  <2> DEFINE new == n + 2 .. n + 1 + j
  <2>1. n + 2 \in Int /\ n + 1 + j \in Int /\ j \in Nat BY <1>2
  <2>2. IsFiniteSet(new) /\ Cardinality(new) = IF n + 2 > n + 1 + j THEN 0
                                               ELSE (n + 1 + j) - (n + 2) + 1
    BY <2>1, FS_Interval
  <2>3. Cardinality(new) = j BY <1>2, <2>1, <2>2
  <2>4. P \cap new = {} BY <1>2, <1>4
  <2> HIDE DEF new
  <2>5. Cardinality(P \cap new) = 0 BY <2>4, FS_EmptySet
  <2>6. Cardinality(P \cup new) = Cardinality(P) + Cardinality(new) - Cardinality(P \cap new)
    BY <1>7, <2>2, FS_Union
  <2>7. Cardinality(P \cup new) = p + j BY <1>2, <1>8, <2>1, <2>3, <2>5, <2>6
  <2> QED BY <2>7 DEF new
<1>10. Cardinality(Q) = p + m
  <2>1. m \in 0 .. m BY <1>2
  <2>2. Cardinality(P \cup (n + 2 .. n + 1 + m)) = p + m BY <1>9, <2>1
  <2> QED BY <1>6, <2>2
<1>11. ASSUME NEW i \in P PROVE Rank(alg, t, i) = Rank(alg, s, i)
  <2>1. \A h \in Q : h <= i <=> h \in P /\ h <= i
    <3>1. i \in 1 .. n BY <1>4
    <3>2. \A h \in n + 2 .. n + 1 + m : ~(h <= i) BY <1>2, <3>1
    <3> QED BY <1>6, <3>2
  <2>2. {h \in Q : h <= i} = {h \in P : h <= i} BY <1>6, <2>1
  <2> QED BY <2>2 DEF Rank
<1>12. ASSUME NEW j \in 1 .. m PROVE Rank(alg, t, n + 1 + j) = p + j
  <2>1. {h \in Q : h <= n + 1 + j} = P \cup (n + 2 .. n + 1 + j)
    <3>1. \A h \in 1 .. n : h <= n + 1 + j BY <1>2
    <3>2. \A h \in n + 2 .. n + 1 + m : h <= n + 1 + j <=> h \in n + 2 .. n + 1 + j
      BY <1>2
    <3>3. n + 2 .. n + 1 + j \subseteq n + 2 .. n + 1 + m BY <1>2
    <3> QED BY <1>4, <1>6, <3>1, <3>2, <3>3
  <2>2. Rank(alg, t, n + 1 + j) = Cardinality({h \in Q : h <= n + 1 + j}) BY DEF Rank
  <2>3. j \in 0 .. m OBVIOUS
  <2> QED BY <1>9, <2>1, <2>2, <2>3
<1>13. ASSUME NEW i \in n + 2 .. n + 1 + m
       PROVE  \E j \in 1 .. m : i = n + 1 + j
  <2>1. i - (n + 1) \in 1 .. m /\ i = n + 1 + (i - (n + 1)) BY <1>2
  <2> QED BY <2>1
<1>14. ASSUME NEW i \in P
       PROVE  Rank(alg, s, i) \in 1 .. p /\ s[i] = Pushed(in[Rank(alg, s, i)], l)
  BY DEF Carries, l, p
<1>15. \A i \in Q : t[i] = Pushed(all[Rank(alg, t, i)], l) /\ Rank(alg, t, i) \in 1 .. p + m
  <2>1. ASSUME NEW i \in P
        PROVE  t[i] = Pushed(all[Rank(alg, t, i)], l) /\ Rank(alg, t, i) \in 1 .. p + m
    <3>1. t[i] = s[i] BY <1>1, <1>4
    <3>2. Rank(alg, t, i) \in 1 .. p BY <1>11, <1>14
    <3>3. Rank(alg, t, i) \in 1 .. p + m BY <1>2, <3>2
    <3> QED BY <1>3, <1>11, <1>14, <3>1, <3>2, <3>3
  <2>2. ASSUME NEW j \in 1 .. m
        PROVE  /\ t[n + 1 + j] = Pushed(all[Rank(alg, t, n + 1 + j)], l)
               /\ Rank(alg, t, n + 1 + j) \in 1 .. p + m
    <3>1. p + j \in 1 .. p + m BY <1>2
    <3>2. t[n + 1 + j] = Pushed(chunk[j], l) BY <1>1
    <3>3. all[p + j] = chunk[j] BY <1>3
    <3>4. Rank(alg, t, n + 1 + j) = p + j BY <1>12
    <3> QED BY <3>1, <3>2, <3>3, <3>4
  <2>3. ASSUME NEW i \in Q, i \notin P
        PROVE  t[i] = Pushed(all[Rank(alg, t, i)], l) /\ Rank(alg, t, i) \in 1 .. p + m
    <3>1. i \in n + 2 .. n + 1 + m BY <1>6, <2>3
    <3>2. PICK j \in 1 .. m : i = n + 1 + j BY <1>13, <3>1
    <3> QED BY <2>2, <3>2
  <2> QED BY <2>1, <2>3
<1>16. ASSUME NEW k \in 1 .. p + m PROVE \E i \in Q : Rank(alg, t, i) = k
  <2>1. CASE k <= p
    <3>1. k \in 1 .. p BY <1>2, <2>1
    <3>2. PICK i \in P : Rank(alg, s, i) = k BY <3>1 DEF Carries, p
    <3> QED BY <1>6, <1>11, <3>2
  <2>2. CASE k > p
    <3>1. /\ k - p \in 1 .. m /\ p + (k - p) = k
          /\ n + 1 + (k - p) \in n + 2 .. n + 1 + m
      BY <1>2, <2>2
    <3>2. Rank(alg, t, n + 1 + (k - p)) = p + (k - p) BY <1>12, <3>1
    <3> QED BY <1>6, <3>1, <3>2
  <2> QED BY <1>2, <2>1, <2>2
<1>17. Carries(t, alg, all)
  <2>1. {Rank(alg, t, i) : i \in Q} = 1 .. p + m BY <1>15, <1>16
  <2> QED BY <1>3, <1>15, <2>1 DEF Carries, l
<1> QED BY <1>3, <1>10, <1>17 DEF t, all

(* Compressing one more chunk, or reading one more record.                    *)
LEMMA StreamGrows ==
    ASSUME NEW s \in Seq(Unit), NEW alg \in Nat, NEW chunk \in Seq(Unit),
           NEW in \in Seq(Unit), StreamSoFar(s, alg, in)
    PROVE  StreamSoFar(s \o ChunkRecord(alg, chunk), alg, in \o chunk)
BY FramedGrows, CarriesGrows DEF StreamSoFar

(* What was made of it determines what a stream was made of.                  *)
LEMMA StreamDetermines ==
    ASSUME NEW s, NEW alg \in Nat, NEW x \in Seq(Unit), NEW y \in Seq(Unit),
           IsStreamOf(s, alg, x), IsStreamOf(s, alg, y)
    PROVE  x = y
<1> DEFINE l == CodecLayer(alg)
           P == Payload(alg, s)
<1>1. l \in Layer BY CodecLayerType
<1>2. Len(x) \in Nat /\ Len(y) \in Nat BY LenProperties
<1>3. /\ {Rank(alg, s, i) : i \in P} = 1 .. Len(x)
      /\ {Rank(alg, s, i) : i \in P} = 1 .. Len(y)
      /\ \A i \in P : s[i] = Pushed(x[Rank(alg, s, i)], l)
      /\ \A i \in P : s[i] = Pushed(y[Rank(alg, s, i)], l)
  BY DEF IsStreamOf
<1> HIDE DEF l, P
<1>4. 1 .. Len(x) = 1 .. Len(y) BY <1>3
<1>5. Len(x) = Len(y)
  <2>1. CASE Len(x) < Len(y)
    <3>1. Len(y) \in 1 .. Len(y) /\ Len(y) \notin 1 .. Len(x) BY <1>2, <2>1
    <3> QED BY <1>4, <3>1
  <2>2. CASE Len(y) < Len(x)
    <3>1. Len(x) \in 1 .. Len(x) /\ Len(x) \notin 1 .. Len(y) BY <1>2, <2>2
    <3> QED BY <1>4, <3>1
  <2> QED BY <1>2, <2>1, <2>2
<1>6. ASSUME NEW k \in 1 .. Len(x) PROVE x[k] = y[k]
  <2>1. PICK i \in P : Rank(alg, s, i) = k BY <1>3
  <2>2. Pushed(x[k], l) = Pushed(y[k], l) BY <1>3, <2>1
  <2>3. x[k] \in Unit /\ y[k] \in Unit BY <1>4, ElementOfSeq
  <2>4. Popped(Pushed(x[k], l)) = x[k] /\ Popped(Pushed(y[k], l)) = y[k]
    BY <1>1, <2>3, LayerUndone
  <2> QED BY <2>2, <2>4
<1> QED BY <1>5, <1>6, SeqEqual

(******************************* reading a file ******************************)

(* Reading on extends what has been read.                                     *)
LEMMA ReadOn ==
    ASSUME NEW s \in Seq(Unit), NEW off \in Nat, NEW n \in Nat, off + n <= Len(s)
    PROVE  /\ SubSeq(s, 1, off) \in Seq(Unit) /\ Len(SubSeq(s, 1, off)) = off
           /\ SubSeq(s, off + 1, off + n) \in Seq(Unit)
           /\ Len(SubSeq(s, off + 1, off + n)) = n
           /\ SubSeq(s, 1, off + n) = SubSeq(s, 1, off) \o SubSeq(s, off + 1, off + n)
<1>1. Len(s) \in Nat BY LenProperties
<1>2. \A i \in 1 .. off + n : s[i] \in Unit BY <1>1, ElementOfSeq
<1>3. SubSeq(s, 1, off) \in Seq(Unit) /\ Len(SubSeq(s, 1, off)) = off
  <2>1. \A i \in 1 .. off : s[i] \in Unit BY <1>2
  <2>2. Len(SubSeq(s, 1, off)) = IF 1 <= off THEN off - 1 + 1 ELSE 0
    BY <2>1, SubSeqProperties
  <2> QED BY <2>1, <2>2, SubSeqProperties
<1>4. /\ SubSeq(s, off + 1, off + n) \in Seq(Unit)
      /\ Len(SubSeq(s, off + 1, off + n)) = n
  <2>1. \A i \in off + 1 .. off + n : s[i] \in Unit BY <1>2
  <2>2. off + 1 \in Int /\ off + n \in Int OBVIOUS
  <2>3. Len(SubSeq(s, off + 1, off + n))
           = IF off + 1 <= off + n THEN (off + n) - (off + 1) + 1 ELSE 0
    BY <2>1, <2>2, SubSeqProperties
  <2>4. Len(SubSeq(s, off + 1, off + n)) = n BY <2>3
  <2>5. SubSeq(s, off + 1, off + n) \in Seq(Unit) BY <2>1, <2>2, SubSeqProperties
  <2> QED BY <2>4, <2>5
<1>5. 1 \in 1 .. Len(s) + 1 /\ off \in 1 - 1 .. Len(s) /\ off + n \in off .. Len(s)
  BY <1>1
<1>6. SubSeq(s, 1, off) \o SubSeq(s, off + 1, off + n) = SubSeq(s, 1, off + n)
  BY <1>5, ConcatAdjacentSubSeq
<1> QED BY <1>3, <1>4, <1>6

(* A chunk that decodes is the code of what it decodes to.                    *)
LEMMA DecodedCoded ==
    ASSUME NEW s \in Seq(Unit), NEW alg \in Nat, Decodable(alg, s)
    PROVE  Coded(alg, Decoded(s)) = s
<1>1. Decoded(s) \in Seq(Unit) /\ Len(Decoded(s)) = Len(s) BY DecodedType
<1>2. Coded(alg, Decoded(s)) \in Seq(Unit) /\ Len(Coded(alg, Decoded(s))) = Len(s)
  BY <1>1, CodedType
<1>3. ASSUME NEW i \in 1 .. Len(s) PROVE Coded(alg, Decoded(s))[i] = s[i]
  <2>1. Coded(alg, Decoded(s))[i] = Pushed(Decoded(s)[i], CodecLayer(alg))
    BY <1>1 DEF Coded
  <2>2. Decoded(s)[i] = Popped(s[i]) BY DEF Decoded
  <2>3. Outermost(s[i], CodecLayer(alg)) BY DEF Decodable
  <2>4. s[i] \in Unit BY ElementOfSeq
  <2>5. Pushed(Popped(s[i]), CodecLayer(alg)) = s[i]
    BY <2>3, <2>4, CodecLayerType, LayerUndone
  <2> QED BY <2>1, <2>2, <2>5
<1> QED BY <1>2, <1>3, SeqEqual

(* Reading a record extends what has been read by the record of what it       *)
(* decodes to.                                                                *)
LEMMA ReadRecordOn ==
    ASSUME NEW s \in Seq(Unit), NEW off \in Nat, NEW alg \in Nat,
           off < Len(s), WholeRecord(alg, s, off)
    PROVE  LET v == s[off + 1].val
               chunk == Decoded(RecordPayload(s, off))
           IN /\ v \in Nat /\ off + 1 + v <= Len(s)
              /\ chunk \in Seq(Unit)
              /\ SubSeq(s, 1, off + 1 + v) = SubSeq(s, 1, off) \o ChunkRecord(alg, chunk)
<1> DEFINE u == s[off + 1]
           v == u.val
           q == RecordPayload(s, off)
           chunk == Decoded(q)
<1>1. Len(s) \in Nat /\ off + 1 \in 1 .. Len(s) BY LenProperties
<1>2. u \in Unit BY <1>1, ElementOfSeq
<1>3. v \in Nat /\ off + 1 + v <= Len(s) BY <1>2 DEF Unit, WholeRecord
<1>4. IsRecord(u) /\ Decodable(alg, q) BY DEF WholeRecord
<1>5. u = Plain("record", v) BY <1>2, <1>4 DEF IsRecord, Plain, Unit
<1> HIDE DEF u, v
<1>6. q = SubSeq(s, off + 2, off + 1 + v) BY DEF RecordPayload, u, v
<1>7. q \in Seq(Unit) /\ Len(q) = v
  <2>1. (off + 1) + 1 = off + 2 /\ (off + 1) + v = off + 1 + v /\ off + 1 \in Nat
    BY <1>3
  <2>2. /\ SubSeq(s, (off + 1) + 1, (off + 1) + v) \in Seq(Unit)
        /\ Len(SubSeq(s, (off + 1) + 1, (off + 1) + v)) = v
    BY <1>3, <2>1, ReadOn
  <2> QED BY <1>6, <2>1, <2>2
<1> HIDE DEF q
<1>8. chunk \in Seq(Unit) /\ Len(chunk) = v /\ Coded(alg, chunk) = q
  BY <1>4, <1>7, DecodedType, DecodedCoded
<1>9. ChunkRecord(alg, chunk) = <<u>> \o q BY <1>5, <1>8 DEF ChunkRecord
<1>10. SubSeq(s, off + 1, off + 1 + v) = <<u>> \o q
  <2>1. off + 1 + v \in off + 1 .. Len(s) /\ (off + 1) + 1 = off + 2 BY <1>1, <1>3
  <2>2. SubSeq(s, off + 1, off + 1 + v)
           = <<s[off + 1]>> \o SubSeq(s, (off + 1) + 1, off + 1 + v)
    BY <1>1, <2>1, SubSeqRecursiveFirst
  <2> QED BY <1>6, <2>1, <2>2 DEF u
<1>11. off + (1 + v) = off + 1 + v /\ 1 + v \in Nat BY <1>3
<1>12. SubSeq(s, 1, off + (1 + v))
         = SubSeq(s, 1, off) \o SubSeq(s, off + 1, off + (1 + v))
  BY <1>3, <1>11, ReadOn
<1>13. SubSeq(s, 1, off + 1 + v) = SubSeq(s, 1, off) \o ChunkRecord(alg, chunk)
  BY <1>9, <1>10, <1>11, <1>12
<1> QED BY <1>3, <1>8, <1>13 DEF u, v, q

(******************************* writing a file ******************************)

(* A write at the end of a file appends.                                      *)
LEMMA WriteAtEnd ==
    ASSUME NEW s \in Seq(Unit), NEW units \in Seq(Unit)
    PROVE  WriteAt(s, Len(s), units) = s \o units
<1> DEFINE out == WriteAt(s, Len(s), units)
           n == Len(s) + Len(units)
<1>1. Len(s) \in Nat /\ Len(units) \in Nat /\ n \in Nat /\ (Len(s) > n <=> FALSE)
  BY LenProperties
<1>2. out = [i \in 1 .. n |-> IF i > Len(s) /\ i <= n THEN units[i - Len(s)]
                              ELSE IF i <= Len(s) THEN s[i] ELSE Plain("hole", 0)]
  BY <1>1 DEF WriteAt
<1>3. out \in Seq(Unit) BY <1>1, WriteAtType
<1>4. Len(out) = n
  <2>1. DOMAIN out = 1 .. n BY <1>2
  <2>2. DOMAIN out = 1 .. Len(out) /\ Len(out) \in Nat BY <1>3, LenProperties
  <2> QED BY <1>1, <2>1, <2>2
<1>5. Joined(s, units, s \o units) BY ConcatParts
<1> HIDE DEF out
<1>6. ASSUME NEW i \in 1 .. n PROVE out[i] = (s \o units)[i]
  <2>1. CASE i <= Len(s)
    <3>1. i \in 1 .. Len(s) BY <1>1, <2>1
    <3>2. out[i] = s[i] BY <1>1, <1>2, <3>1
    <3> QED BY <1>5, <3>1, <3>2 DEF Joined
  <2>2. CASE i > Len(s)
    <3>1. i \in Len(s) + 1 .. Len(s) + Len(units) BY <1>1, <2>2
    <3>2. out[i] = units[i - Len(s)] BY <1>1, <1>2, <2>2
    <3> QED BY <1>5, <3>1, <3>2 DEF Joined
  <2> QED BY <1>1, <2>1, <2>2
<1>7. out = s \o units
  <2>1. s \o units \in Seq(Unit) /\ Len(s \o units) = n BY <1>5 DEF Joined
  <2> QED BY <1>3, <1>4, <1>6, <2>1, SeqEqual
<1> QED BY <1>7 DEF out

(* Concatenation of files is associative.                                     *)
LEMMA ConcatUnits ==
    \A a, b, c \in Seq(Unit) : (a \o b) \o c = a \o (b \o c)
<1> SUFFICES ASSUME NEW a \in Seq(Unit), NEW b \in Seq(Unit), NEW c \in Seq(Unit)
             PROVE  (a \o b) \o c = a \o (b \o c)
  OBVIOUS
<1> QED OBVIOUS

(* A write, whole or partial, moves units from what is pending to the file:   *)
(* the two together stay the same.                                            *)
LEMMA WriteMoves ==
    ASSUME NEW s \in Seq(Unit), NEW units \in Seq(Unit), NEW n \in 1 .. Len(units)
    PROVE  LET t == WriteAt(s, Len(s), SubSeq(units, 1, n))
               rest == SubSeq(units, n + 1, Len(units))
           IN /\ t \in Seq(Unit) /\ Len(t) = Len(s) + n
              /\ rest \in Seq(Unit)
              /\ t \o rest = s \o units
<1> DEFINE a == SubSeq(units, 1, n)
           rest == SubSeq(units, n + 1, Len(units))
           t == WriteAt(s, Len(s), a)
           k == Len(units) - n
<1>1. n \in Nat /\ k \in Nat /\ n + k = Len(units) /\ n + k <= Len(units)
  BY LenProperties
<1> HIDE DEF k
<1>2. /\ a \in Seq(Unit) /\ Len(a) = n
      /\ SubSeq(units, n + 1, n + k) \in Seq(Unit)
      /\ SubSeq(units, 1, n + k) = a \o SubSeq(units, n + 1, n + k)
  BY <1>1, ReadOn
<1>3. rest \in Seq(Unit) /\ units = a \o rest
  <2>1. SubSeq(units, 1, Len(units)) = units BY SubSeqFull
  <2> QED BY <1>1, <1>2, <2>1
<1>4. t = s \o a BY <1>2, WriteAtEnd
<1> HIDE DEF a, rest, t
<1>5. t \in Seq(Unit) /\ Len(t) = Len(s) + n
  <2>1. Joined(s, a, s \o a) BY <1>2, ConcatParts
  <2> QED BY <1>2, <1>4, <2>1 DEF Joined
<1>6. t \o rest = s \o units
  <2>1. a \in Seq(Unit) /\ rest \in Seq(Unit) BY <1>2, <1>3
  <2>2. (s \o a) \o rest = s \o (a \o rest) BY <2>1, ConcatUnits, Zenon
  <2> QED BY <1>3, <1>4, <2>2
<1> QED BY <1>3, <1>5, <1>6 DEF a, rest, t
===============================================================================

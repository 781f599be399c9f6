---------------------------- MODULE FaithfulProofs ----------------------------
(* A call of execute_file_pipeline that returned 0 has produced the whole     *)
(* transformation of its input, two such calls undo each other, a refused     *)
(* input costs no output, and the pipeline implements FileTransform: for any  *)
(* number of concurrent calls, any files, keys, chunk sizes and faults.       *)
EXTENDS FilePipelineProofs

(******************************* the invariant *******************************)

(* A stage makes out of in.                                                   *)
Makes(kind, c, in, out) ==
    CASE kind = "STAGE_COMPRESS" -> IsStreamOf(out, c.comp_alg, in)
      [] kind = "STAGE_DECOMPRESS" -> Decompresses(in, c.comp_alg, out)
      [] kind = "STAGE_COPY" -> out = in
      [] OTHER -> c.keyLen > 0 /\ out = Encrypted(in, c.keyLen)

(* It has made out of what it read so far.                                    *)
MakesSoFar(kind, c, in, out) ==
    CASE kind = "STAGE_COMPRESS" -> StreamSoFar(out, c.comp_alg, in)
      [] kind = "STAGE_DECOMPRESS" -> StreamSoFar(in, c.comp_alg, out)
      [] kind = "STAGE_COPY" -> out = in
      [] OTHER -> out = Encrypted(in, c.keyLen)

(* The file of the old format s decodes to out, if it is one.                 *)
LegacyDecodes(c, s, out) == Decodable(c.comp_alg, s) => out = Decoded(s)

(* The loop of a stage that reads s: what is in the output and what is        *)
(* pending are together what the stage makes of the units before inOff.       *)
LoopOf(kind, c, s, at, key, out) ==
    /\ at <= Len(s)
    /\ kind \in CipherStages => key = at % c.keyLen
    /\ IF kind = "STAGE_DECOMPRESS" /\ ~IsStream(s)
       THEN at = Len(s) /\ LegacyDecodes(c, s, out)
       ELSE MakesSoFar(kind, c, SubSeq(s, 1, at), out)

(* The output is about to be created: nothing is pending, but for a file of   *)
(* the old format, which is decoded as a whole.                               *)
ReadyOf(kind, c, s, at, units) ==
    IF kind # "STAGE_DECOMPRESS" THEN at = 0 /\ units = <<>>
    ELSE IF IsStream(s) THEN s[1].val = c.comp_alg /\ at = 1 /\ units = <<>>
    ELSE at = Len(s) /\ LegacyDecodes(c, s, units)

Emptied == {"idle", "stage", "open", "header", "legacy", "stageok"}
Reading == {"header", "legacy", "create", "loop", "stageok"}
Working == Busy \ {"stagefail"}

(* A call in its second stage reads what the first has made of its input.     *)
Staged(w) ==
    /\ pc[w] = "idle" => stage[w] = 1
    /\ stage[w] = 1 => temp[w] = NoTemp
    /\ stage[w] = 2 /\ pc[w] \in Working =>
          /\ temp[w] # NoTemp
          /\ InputOf[w] \in files
          /\ Makes(Stages(config[w].operations)[1], config[w],
                   data[InputOf[w]], data[temp[w]])

(* It has opened its source, and a decompression has accepted the header.     *)
Opened(w) ==
    /\ pc[w] \in Reading => Source(w) \in files
    /\ pc[w] \in {"legacy", "create", "loop"} /\ Stage(w) = "STAGE_DECOMPRESS"
          => HeaderVerdict(data[Source(w)], config[w].comp_alg) # "stagefail"
    /\ pc[w] = "legacy" => ~IsStream(data[Source(w)])

(* How far the stage is.                                                      *)
Advanced(w) ==
    /\ pc[w] \in Emptied => pending[w] = <<>>
    /\ pc[w] = "create" =>
          ReadyOf(Stage(w), config[w], data[Source(w)], inOff[w], pending[w])
    /\ pc[w] \in {"loop", "stageok"} => Target(w) \in files
    /\ pc[w] = "loop" =>
          /\ outOff[w] = Len(data[Target(w)])
          /\ LoopOf(Stage(w), config[w], data[Source(w)], inOff[w], keyIndex[w],
                    data[Target(w)] \o pending[w])
    /\ pc[w] = "stageok" =>
          Makes(Stage(w), config[w], data[Source(w)], data[Target(w)])

(* It has returned 0.                                                         *)
Done(w) ==
    pc[w] = "done" => Transformed(w) /\ \A v \in Waits[w] : pc[v] \in Ended

(* A call that changed its output had an input, and one it did not refuse.    *)
Accepted(w) ==
    Touched(w) =>
       /\ InputOf[w] \in files /\ ~Refused(w)
       /\ \A v \in Waits[w] : pc[v] \in Ended

Progress(w) == Staged(w) /\ Opened(w) /\ Advanced(w) /\ Done(w) /\ Accepted(w)

(* A call whose read of the stream header came short decompresses something.  *)
Misled(w) ==
    w \in misread =>
       /\ "OP_DECOMPRESS" \in config[w].operations
       /\ InputOf[w] \in files
       /\ \A v \in Waits[w] : pc[v] \in Ended

(* Of any other call all of this is known.                                    *)
Known(w) == Misled(w) /\ (w \notin misread => Progress(w))

FaithfulInv == Inv /\ \A w \in Worker : Known(w)

(*************************** what others leave alone *************************)

(* A file is as it was, and exists as it did.                                 *)
Same(f) == data'[f] = data[f] /\ (f \in files' <=> f \in files)

(* Only temporaries are removed, each by the call that holds it.              *)
LEMMA FilesStay ==
    ASSUME Inv, NEW w \in Worker, CallStep(w), NEW f \in files, f \notin Owned(w)
    PROVE  f \in files'
<1>1. CASE TempFails(w) \/ StageOk(w) \/ StageFail(w)
  <2>1. \/ Unlink({temp[w]} \ {NoTemp}) \/ Unlink(Discarded(w))
    BY <1>1 DEF TempFails, StageOk, StageFail
  <2>2. {temp[w]} \ {NoTemp} \subseteq Owned(w) /\ Discarded(w) \subseteq Owned(w)
    BY DEF Owned, Discarded
  <2> QED BY <2>1, <2>2 DEF Unlink
<1>2. CASE CreateTemp(w) \/ CreateOutput(w)
  BY <1>2 DEF CreateTemp, CreateOutput
<1>3. CASE \/ Call(w) \/ ChooseOutput(w) \/ OpenInput(w) \/ ReadStreamHeader(w)
           \/ DecodeLegacy(w) \/ RefuseLegacy(w)
  BY <1>3 DEF Call, ChooseOutput, OpenInput, ReadStreamHeader, DecodeLegacy, RefuseLegacy
<1>4. CASE \/ ReadChunk(w) \/ ReadRecord(w) \/ Write(w) \/ TornWrite(w) \/ StageFault(w)
           \/ EndOfInput(w)
  BY <1>4 DEF ReadChunk, ReadRecord, Write, TornWrite, StageFault, EndOfInput
<1> QED BY <1>1, <1>2, <1>3, <1>4 DEF CallStep, Step

(* The names a call uses, and the places they are taken from.                 *)
LEMMA Names ==
    ASSUME Inv, NEW w \in Worker
    PROVE  /\ InputOf[w] \in Path /\ OutputOf[w] \in Path /\ InputOf[w] # OutputOf[w]
           /\ InputOf[w] \in FileName /\ OutputOf[w] \in FileName
           /\ \A f \in Path : f \notin TempName /\ f # NoTemp
           /\ temp[w] \in TempName \cup {NoTemp} /\ next[w] \in TempName \cup {NoTemp}
           /\ TempName \subseteq FileName /\ NoTemp \notin TempName
           /\ Owned(w) \subseteq TempName
           /\ Waits[w] \subseteq Worker
<1>1. temp[w] \in TempName \cup {NoTemp} /\ next[w] \in TempName \cup {NoTemp}
  BY DEF Inv, TypeOK
<1>2. /\ InputOf[w] \in Path /\ OutputOf[w] \in Path /\ Waits[w] \subseteq Worker
      /\ \A f \in Path : f \notin TempName /\ f # NoTemp
      /\ TempName \subseteq FileName /\ NoTemp \notin TempName /\ Path \subseteq FileName
  BY PipelineAssumption DEF FileName
<1>3. Owned(w) \subseteq TempName BY <1>1 DEF Owned
<1> QED BY <1>1, <1>2, <1>3, SeparationAssumption

(* Who waited for the writer of its input finds nobody writing to it.         *)
LEMMA InputStays ==
    ASSUME Inv, NEW u \in Worker, NEW w \in Worker, CallStep(w),
           \A v \in Waits[u] : pc[v] \in Ended
    PROVE  Same(InputOf[u])
<1>1. /\ InputOf[u] \in Path /\ InputOf[u] \notin TempName /\ InputOf[u] # NoTemp
      /\ InputOf[u] \in FileName /\ InputOf[u] \notin Owned(w)
      /\ next[w] \in TempName \cup {NoTemp}
  BY Names
<1>2. ~(InputOf[u] = Target(w) /\ pc[w] \in {"create", "loop"})
  <2> SUFFICES ASSUME InputOf[u] = Target(w), pc[w] \in {"create", "loop"} PROVE FALSE
    OBVIOUS
  <2>1. InputOf[u] = OutputOf[w] BY <1>1 DEF Target
  <2>2. pc[w] \in Ended BY <2>1, SeparationAssumption
  <2> QED BY <2>2 DEF Ended
<1>3. Unchanged(InputOf[u]) BY <1>1, <1>2, Confinement
<1>4. InputOf[u] \in files => InputOf[u] \in files' BY <1>1, FilesStay
<1> QED BY <1>3, <1>4 DEF Unchanged, Same

(* The output and the temporaries of a call are changed by that call only.    *)
LEMMA OwnFilesStay ==
    ASSUME Inv, NEW u \in Worker, NEW w \in Worker \ {u}, CallStep(w),
           NEW f \in Owned(u) \cup {OutputOf[u]}
    PROVE  Same(f)
<1>1. f \in FileName /\ f # NoTemp BY Names DEF Owned
<1>2. f \notin Owned(w)
  <2>1. CASE f \in Owned(u) BY <2>1 DEF Inv, Accounted
  <2>2. CASE f = OutputOf[u] BY <2>2, Names
  <2> QED BY <2>1, <2>2
<1>3. ~(f = Target(w) /\ pc[w] \in {"create", "loop"})
  <2> SUFFICES ASSUME f = Target(w), pc[w] \in {"create", "loop"} PROVE FALSE
    OBVIOUS
  <2>1. CASE IsLast(w)
    <3>1. f = OutputOf[w] BY <2>1 DEF Target
    <3>2. f = OutputOf[u]
      <4>1. OutputOf[w] \in Path /\ OutputOf[w] \notin TempName BY Names
      <4>2. Owned(u) \subseteq TempName BY Names
      <4> QED BY <3>1, <4>1, <4>2
    <3> QED BY <3>1, <3>2, SeparationAssumption
  <2>2. CASE ~IsLast(w)
    <3>1. f = next[w] BY <2>2 DEF Target
    <3>2. f \in Owned(w) BY <1>1, <3>1 DEF Owned
    <3> QED BY <1>2, <3>2
  <2> QED BY <2>1, <2>2
<1>4. ~(f \in TempName /\ f \notin files)
  <2> SUFFICES ASSUME f \in TempName PROVE f \in files OBVIOUS
  <2>1. OutputOf[u] \notin TempName BY Names
  <2>2. f \in {temp[u], next[u]} BY <2>1 DEF Owned
  <2> QED BY <2>2 DEF Inv, Accounted
<1>5. Unchanged(f) BY <1>1, <1>2, <1>3, <1>4, Confinement
<1>6. f \in files => f \in files' BY <1>2, FilesStay
<1> QED BY <1>5, <1>6 DEF Unchanged, Same

(* The descriptors and buffers of a call are its own.                         *)
LEMMA OthersKeep ==
    ASSUME Inv, NEW w \in Worker, CallStep(w), NEW u \in Worker \ {w}
    PROVE  /\ inOff'[u] = inOff[u] /\ outOff'[u] = outOff[u]
           /\ keyIndex'[u] = keyIndex[u] /\ pending'[u] = pending[u]
<1> USE DEF TypeOK
<1>0. TypeOK BY DEF Inv
<1>1. CASE \/ Call(w) \/ ChooseOutput(w) \/ CreateTemp(w) \/ TempFails(w) \/ StageOk(w)
           \/ TornWrite(w) \/ StageFault(w) \/ EndOfInput(w) \/ RefuseLegacy(w)
  BY <1>0, <1>1 DEF Call, ChooseOutput, CreateTemp, TempFails, StageOk, TornWrite,
                    StageFault, EndOfInput, RefuseLegacy
<1>2. CASE OpenInput(w) \/ ReadStreamHeader(w) \/ DecodeLegacy(w) \/ StageFail(w)
  BY <1>0, <1>2 DEF OpenInput, ReadStreamHeader, DecodeLegacy, StageFail
<1>3. CASE CreateOutput(w) BY <1>0, <1>3 DEF CreateOutput
<1>4. CASE ReadChunk(w) BY <1>0, <1>4 DEF ReadChunk
<1>5. CASE ReadRecord(w) BY <1>0, <1>5 DEF ReadRecord
<1>6. CASE Write(w) BY <1>0, <1>6 DEF Write
<1> QED BY <1>1, <1>2, <1>3, <1>4, <1>5, <1>6 DEF CallStep, Step

(* What a call does not know of the steps of others: its variables and files  *)
(* stay as they are.                                                          *)
Undisturbed(u) ==
    /\ pc'[u] \in {pc[u], "crashed"} /\ config' = config /\ start' = start
    /\ stage'[u] = stage[u] /\ temp'[u] = temp[u] /\ next'[u] = next[u]
    /\ inOff'[u] = inOff[u] /\ outOff'[u] = outOff[u]
    /\ keyIndex'[u] = keyIndex[u] /\ pending'[u] = pending[u]
    /\ (u \in misread' <=> u \in misread)
    /\ \A v \in Waits[u] : pc[v] \in Ended => pc'[v] \in Ended
    /\ Same(OutputOf[u])
    /\ \A f \in Owned(u) : Same(f)
    /\ (\A v \in Waits[u] : pc[v] \in Ended) => Same(InputOf[u])

LEMMA OthersUndisturbed ==
    ASSUME Inv, NEW u \in Worker, NEW w \in Worker \ {u}, CallStep(w)
    PROVE  Undisturbed(u)
<1>1. /\ pc'[u] = pc[u] /\ stage'[u] = stage[u] /\ temp'[u] = temp[u]
      /\ next'[u] = next[u] /\ config' = config /\ start' = start
      /\ \A v \in Worker : pc[v] \in Ended => pc'[v] \in Ended
      /\ (u \in misread' <=> u \in misread)
  BY OthersUnmoved DEF Inv
<1>2. \A v \in Waits[u] : pc[v] \in Ended => pc'[v] \in Ended BY <1>1, Names
<1> QED BY <1>1, <1>2, OthersKeep, OwnFilesStay, InputStays DEF Undisturbed

LEMMA CrashUndisturbed ==
    ASSUME Inv, NEW p \in Process, Crash(p), NEW u \in Worker
    PROVE  Undisturbed(u)
<1>1. /\ UNCHANGED <<files, data, config, start, misread, stage, temp, next,
                     inOff, outOff, keyIndex, pending>>
      /\ \A v \in Worker : pc'[v] \in {pc[v], "crashed"}
      /\ \A v \in Worker : pc[v] \in Ended => pc'[v] \in Ended
  BY DEF Crash
<1>2. Waits[u] \subseteq Worker BY Names
<1> QED BY <1>1, <1>2 DEF Undisturbed, Same

(* Then so does what is known of it.                                          *)
LEMMA UndisturbedProgress ==
    ASSUME Inv, NEW u \in Worker, Progress(u), Undisturbed(u)
    PROVE  Progress(u)'
<1>1. /\ pc'[u] \in {pc[u], "crashed"} /\ config' = config /\ start' = start
      /\ stage'[u] = stage[u] /\ temp'[u] = temp[u] /\ next'[u] = next[u]
      /\ inOff'[u] = inOff[u] /\ outOff'[u] = outOff[u]
      /\ keyIndex'[u] = keyIndex[u] /\ pending'[u] = pending[u]
  BY DEF Undisturbed
<1>2. Stage(u)' = Stage(u) /\ IsLast(u)' = IsLast(u) /\ Source(u)' = Source(u)
      /\ Target(u)' = Target(u)
  BY <1>1 DEF Stage, IsLast, Source, Target
<1>3. pc[u] \in Busy \cup {"done"} \/ Touched(u) => \A v \in Waits[u] : pc[v] \in Ended
  BY DEF Inv, Control, Progress, Done, Accepted
<1>4. pc[u] \in Busy \cup {"done"} \/ Touched(u) => Same(InputOf[u])
  BY <1>3 DEF Undisturbed
<1>5. Same(OutputOf[u]) /\ \A f \in Owned(u) : Same(f) BY DEF Undisturbed
<1>6. pc[u] \in Busy => Same(Source(u))
  <2>1. temp[u] # NoTemp => temp[u] \in Owned(u) BY DEF Owned
  <2> QED BY <1>4, <1>5, <2>1 DEF Source
<1>7. pc[u] \in InStage => Same(Target(u))
  <2>1. pc[u] \in InStage /\ ~IsLast(u) => next[u] \in Owned(u)
    BY DEF Inv, Holds, Owned
  <2> QED BY <1>5, <2>1 DEF Target
<1>8. Staged(u)'
  <2>1. Staged(u) BY DEF Progress
  <2>2. temp[u] # NoTemp => Same(temp[u]) BY <1>5 DEF Owned
  <2>3. pc[u] \in Working => Same(InputOf[u]) BY <1>4 DEF Working
  <2>4. pc'[u] \in Working => pc[u] \in Working BY <1>1 DEF Working, Busy
  <2>5. pc'[u] = "idle" => pc[u] = "idle" BY <1>1
  <2> QED BY <1>1, <2>1, <2>2, <2>3, <2>4, <2>5 DEF Staged, Same
<1>9. Opened(u)'
  <2>1. Opened(u) BY DEF Progress
  <2>2. \A l \in Reading \cup {"legacy", "create", "loop"} :
           pc'[u] = l => pc[u] = l /\ Same(Source(u))
    BY <1>1, <1>6 DEF Reading, Busy
  <2> QED BY <1>1, <1>2, <2>1, <2>2 DEF Opened, Same
<1>10. Advanced(u)'
  <2>1. Advanced(u) BY DEF Progress
  <2>2. pc'[u] \in {"create", "loop", "stageok"} =>
           pc[u] = pc'[u] /\ Same(Source(u)) /\ Same(Target(u))
    BY <1>1, <1>6, <1>7 DEF InStage, Busy
  <2>3. pc'[u] \in Emptied => pc[u] = pc'[u] BY <1>1 DEF Emptied
  <2>4. pc'[u] = "create" => data'[Source(u)] = data[Source(u)] BY <2>2 DEF Same
  <2>5. pc'[u] \in {"loop", "stageok"} =>
           /\ data'[Source(u)] = data[Source(u)] /\ data'[Target(u)] = data[Target(u)]
           /\ (Target(u) \in files => Target(u) \in files')
    BY <2>2 DEF Same
  <2>6. pc'[u] \in {"create", "loop", "stageok"} => pc[u] = pc'[u] BY <2>2
  <2> QED BY <1>1, <1>2, <2>1, <2>3, <2>4, <2>5, <2>6 DEF Advanced
<1>11. Done(u)'
  <2> SUFFICES ASSUME pc'[u] = "done" PROVE Transformed(u)' /\ (\A v \in Waits[u] : pc[v] \in Ended)'
    BY DEF Done
  <2>1. pc[u] = "done" BY <1>1
  <2>2. Same(InputOf[u]) /\ Same(OutputOf[u]) BY <1>4, <1>5, <2>1
  <2>3. Transformed(u) /\ \A v \in Waits[u] : pc[v] \in Ended BY <2>1 DEF Progress, Done
  <2>4. Transformed(u)' BY <1>1, <2>2, <2>3 DEF Transformed, Same, Keyed
  <2>5. \A v \in Waits[u] : pc'[v] \in Ended BY <2>3 DEF Undisturbed
  <2> QED BY <2>4, <2>5
<1>12. Accepted(u)'
  <2> SUFFICES ASSUME Touched(u)'
               PROVE  /\ InputOf[u] \in files' /\ ~Refused(u)'
                      /\ \A v \in Waits[u] : pc'[v] \in Ended
    BY DEF Accepted
  <2>1. Touched(u) BY <1>1, <1>5 DEF Touched, Same
  <2>2. InputOf[u] \in files /\ ~Refused(u) /\ \A v \in Waits[u] : pc[v] \in Ended
    BY <2>1 DEF Progress, Accepted
  <2>3. Same(InputOf[u]) BY <1>4, <2>1
  <2>4. ~Refused(u)' BY <1>1, <2>2, <2>3 DEF Refused, Same
  <2> QED BY <2>2, <2>3, <2>4 DEF Undisturbed, Same
<1> QED BY <1>8, <1>9, <1>10, <1>11, <1>12 DEF Progress

LEMMA MisledStays ==
    ASSUME NEW u \in Worker, Misled(u), Undisturbed(u)
    PROVE  Misled(u)'
BY DEF Misled, Undisturbed, Same

(******************************* its own steps *******************************)

(* What a call in a stage has at hand.                                        *)
LEMMA AtHand ==
    ASSUME Inv, NEW u \in Worker, pc[u] \in InStage
    PROVE  /\ Source(u) \in FileName /\ Target(u) \in FileName
           /\ Source(u) # Target(u) /\ InputOf[u] # Target(u)
           /\ temp[u] # NoTemp => Source(u) = temp[u] /\ temp[u] # Target(u)
           /\ data[Source(u)] \in Seq(Unit) /\ data[Target(u)] \in Seq(Unit)
           /\ Len(data[Source(u)]) \in Nat /\ Len(data[Target(u)]) \in Nat
           /\ pending[u] \in Seq(Unit)
           /\ inOff[u] \in Nat /\ outOff[u] \in Nat /\ keyIndex[u] \in Nat
           /\ config[u].keyLen \in Nat /\ config[u].comp_alg \in Nat
<1>1. Source(u) \in FileName /\ Target(u) \in FileName BY SourceAndTarget
<1>2. /\ data[Source(u)] \in Seq(Unit) /\ data[Target(u)] \in Seq(Unit)
      /\ pending[u] \in Seq(Unit)
      /\ inOff[u] \in Nat /\ outOff[u] \in Nat /\ keyIndex[u] \in Nat
      /\ config[u].keyLen \in Nat /\ config[u].comp_alg \in Nat
  BY <1>1 DEF Inv, TypeOK, Config
<1>3. IsLast(u) \/ next[u] # NoTemp BY DEF Inv, Holds
<1>4. temp[u] = next[u] => temp[u] = NoTemp BY DEF Inv, Accounted
<1>5. /\ Source(u) # Target(u) /\ InputOf[u] # Target(u)
      /\ temp[u] # NoTemp => Source(u) = temp[u] /\ temp[u] # Target(u)
  BY <1>3, <1>4, Names DEF Source, Target
<1> QED BY <1>1, <1>2, <1>5, LenProperties

(* A call that has opened its source has an input.                            *)
LEMMA InputThere ==
    ASSUME Inv, NEW u \in Worker, Progress(u), pc[u] \in {"header", "create", "loop"}
    PROVE  InputOf[u] \in files /\ \A v \in Waits[u] : pc[v] \in Ended
<1>1. \A v \in Waits[u] : pc[v] \in Ended BY DEF Inv, Control, Busy
<1>2. stage[u] \in 1 .. 2 BY DEF Inv, TypeOK
<1>3. Source(u) \in files BY DEF Progress, Opened, Reading
<1>4. InputOf[u] \in files
  <2>1. CASE stage[u] = 1 BY <1>3, <2>1 DEF Progress, Staged, Source
  <2>2. CASE stage[u] = 2 BY <2>2 DEF Progress, Staged, Working, Busy
  <2> QED BY <1>2, <2>1, <2>2
<1> QED BY <1>1, <1>4

(* A call that has got as far as opening its output has an input, and has not *)
(* refused it.                                                                *)
LEMMA AcceptedBefore ==
    ASSUME Inv, NEW u \in Worker, Progress(u), pc[u] \in {"create", "loop"}
    PROVE  /\ InputOf[u] \in files /\ ~Refused(u)
           /\ \A v \in Waits[u] : pc[v] \in Ended
<1>1. InputOf[u] \in files /\ \A v \in Waits[u] : pc[v] \in Ended BY InputThere
<1>2. stage[u] \in 1 .. 2 BY DEF Inv, TypeOK
<1>5. ~Refused(u)
  <2> SUFFICES ASSUME Stages(config[u].operations) = <<"STAGE_DECOMPRESS">>, Refused(u)
               PROVE  FALSE
    BY DEF Refused
  <2>1. Len(Stages(config[u].operations)) = 1 OBVIOUS
  <2>2. stage[u] = 1
    <3>1. stage[u] <= Len(Stages(config[u].operations)) BY DEF Inv, Control
    <3> QED BY <1>2, <2>1, <3>1
  <2>3. Stage(u) = "STAGE_DECOMPRESS" BY <2>2 DEF Stage
  <2>4. Source(u) = InputOf[u] BY <2>2 DEF Progress, Staged, Source
  <2>5. HeaderVerdict(data[InputOf[u]], config[u].comp_alg) # "stagefail"
    BY <2>3, <2>4 DEF Progress, Opened
  <2> QED BY <2>5 DEF HeaderVerdict, Refused
<1> QED BY <1>1, <1>5

(* The call's own steps keep Accepted.                                        *)
LEMMA OwnAccepted ==
    ASSUME Inv, NEW u \in Worker, Progress(u), CallStep(u)
    PROVE  Accepted(u)'
<1> SUFFICES ASSUME Touched(u)'
             PROVE  /\ InputOf[u] \in files' /\ ~Refused(u)'
                    /\ \A v \in Waits[u] : pc'[v] \in Ended
  BY DEF Accepted
<1>1. /\ config' = config /\ start' = start /\ pc[u] \notin Ended
      /\ \A v \in Worker \ {u} : pc'[v] = pc[v]
  BY OthersUnmoved DEF Inv
<1>2. /\ InputOf[u] \in files /\ ~Refused(u)
      /\ \A v \in Waits[u] : pc[v] \in Ended
  <2>1. CASE Unchanged(OutputOf[u])
    <3>1. Touched(u) BY <1>1, <2>1 DEF Touched, Unchanged
    <3> QED BY <3>1 DEF Progress, Accepted
  <2>2. CASE ~Unchanged(OutputOf[u])
    <3>1. pc[u] \in {"create", "loop"}
      <4>1. OutputOf[u] \in FileName /\ OutputOf[u] \notin TempName
            /\ OutputOf[u] \notin Owned(u)
        BY Names
      <4> QED BY <2>2, <4>1, Confinement
    <3> QED BY <3>1, AcceptedBefore
  <2> QED BY <2>1, <2>2
<1>3. Same(InputOf[u]) BY <1>2, InputStays
<1>4. \A v \in Waits[u] : pc'[v] \in Ended BY <1>1, <1>2, Names
<1> QED BY <1>1, <1>2, <1>3, <1>4 DEF Refused, Same

(* A step that changes no file and stays in the stage.                        *)
Quiet(u) ==
    /\ UNCHANGED <<files, data, config, start, stage, temp, next>>
    /\ pc[u] \in Working \cup {"idle"} /\ pc'[u] # "idle"

LEMMA QuietParts ==
    ASSUME NEW u \in Worker, Progress(u), Quiet(u)
    PROVE  /\ Stage(u)' = Stage(u) /\ IsLast(u)' = IsLast(u) /\ Source(u)' = Source(u)
           /\ Target(u)' = Target(u)
           /\ Staged(u)'
<1>1. UNCHANGED <<files, data, config, start, stage, temp, next>> BY DEF Quiet
<1>2. pc[u] \in Working \cup {"idle"} /\ pc'[u] # "idle" BY DEF Quiet
<1>3. Staged(u) BY DEF Progress
<1>4. Staged(u)' BY <1>1, <1>2, <1>3 DEF Staged
<1>5. /\ Stage(u)' = Stage(u) /\ IsLast(u)' = IsLast(u) /\ Source(u)' = Source(u)
      /\ Target(u)' = Target(u)
  BY <1>1 DEF Stage, IsLast, Source, Target
<1> QED BY <1>4, <1>5

(* It is called, it chooses the output, or a system call fails.               *)
LEMMA OwnBegins ==
    ASSUME Inv, NEW u \in Worker, Progress(u),
           Call(u) \/ ChooseOutput(u) \/ RefuseLegacy(u) \/ StageFault(u)
    PROVE  Staged(u)' /\ Opened(u)' /\ Advanced(u)' /\ Done(u)'
<1> USE DEF Goto
<1>1. TypeOK /\ Advanced(u) BY DEF Inv, Progress
<1>2. CASE Call(u) \/ ChooseOutput(u)
  <2>1. /\ pc[u] \in {"idle", "stage"} /\ pc'[u] \in {"stage", "open"}
        /\ UNCHANGED <<files, data, config, start, stage, temp, next, pending>>
    BY <1>1, <1>2 DEF Call, ChooseOutput, TypeOK
  <2>2. Quiet(u) BY <2>1 DEF Quiet, Working, Busy
  <2>3. Opened(u)' BY <2>1 DEF Opened, Reading
  <2>4. Advanced(u)' BY <1>1, <2>1 DEF Advanced, Emptied
  <2>5. Done(u)' BY <2>1 DEF Done
  <2> QED BY <2>2, <2>3, <2>4, <2>5, QuietParts
<1>3. CASE RefuseLegacy(u) \/ StageFault(u)
  <2>1. /\ pc[u] \in {"open", "header", "legacy", "create", "loop"} /\ pc'[u] = "stagefail"
        /\ UNCHANGED <<files, data, config, start, stage, temp, next>>
    BY <1>1, <1>3 DEF RefuseLegacy, StageFault, TypeOK
  <2>2. Quiet(u) BY <2>1 DEF Quiet, Working, Busy
  <2>3. Opened(u)' BY <2>1 DEF Opened, Reading
  <2>4. Advanced(u)' BY <2>1 DEF Advanced, Emptied
  <2>5. Done(u)' BY <2>1 DEF Done
  <2> QED BY <2>2, <2>3, <2>4, <2>5, QuietParts
<1> QED BY <1>2, <1>3

(* It opens its source and sees the header.                                   *)
LEMMA OwnOpens ==
    ASSUME Inv, NEW u \in Worker, Progress(u), OpenInput(u) \/ ReadStreamHeader(u),
           u \notin misread'
    PROVE  Staged(u)' /\ Opened(u)' /\ Advanced(u)' /\ Done(u)'
<1> USE DEF Goto
<1>1. TypeOK /\ Advanced(u) /\ Opened(u) BY DEF Inv, Progress
<1>2. CASE OpenInput(u)
  <2>1. /\ pc[u] = "open" /\ inOff'[u] = 0
        /\ UNCHANGED <<files, data, config, start, stage, temp, next, pending>>
    BY <1>1, <1>2 DEF OpenInput, TypeOK
  <2>2. \/ pc'[u] = "stagefail"
        \/ Source(u) \in files /\ pc'[u] = "header" /\ Stage(u) = "STAGE_DECOMPRESS"
        \/ Source(u) \in files /\ pc'[u] = "create" /\ Stage(u) # "STAGE_DECOMPRESS"
    BY <1>1, <1>2 DEF OpenInput, TypeOK
  <2>3. Quiet(u) BY <2>1, <2>2 DEF Quiet, Working, Busy
  <2>4. /\ Stage(u)' = Stage(u) /\ Source(u)' = Source(u) /\ Staged(u)'
    BY <2>3, QuietParts
  <2>5. Opened(u)' BY <2>1, <2>2, <2>4 DEF Opened, Reading
  <2>6. pending[u] = <<>> BY <1>1, <2>1 DEF Advanced, Emptied
  <2>7. Advanced(u)' BY <2>1, <2>2, <2>4, <2>6 DEF Advanced, ReadyOf
  <2>8. Done(u)' BY <2>2 DEF Done
  <2> QED BY <2>4, <2>5, <2>7, <2>8
<1>3. CASE ReadStreamHeader(u)
  <2> DEFINE s == data[Source(u)]
             alg == config[u].comp_alg
  <2>1. /\ pc[u] = "header" /\ inOff'[u] = 1 /\ pc'[u] = HeaderVerdict(s, alg)
        /\ UNCHANGED <<files, data, config, start, stage, temp, next, pending>>
    BY <1>1, <1>3 DEF ReadStreamHeader, TypeOK
  <2>2. Stage(u) = "STAGE_DECOMPRESS" BY <2>1 DEF Inv, Control
  <2>3. \/ pc'[u] = "stagefail"
        \/ pc'[u] = "legacy" /\ ~IsStream(s)
        \/ pc'[u] = "create" /\ IsStream(s) /\ s[1].val = alg
    BY <2>1 DEF HeaderVerdict, IsStream, IsHeader
  <2>4. Quiet(u) BY <2>1, <2>3 DEF Quiet, Working, Busy
  <2>5. /\ Stage(u)' = Stage(u) /\ Source(u)' = Source(u) /\ Staged(u)'
    BY <2>4, QuietParts
  <2>6. Source(u) \in files BY <1>1, <2>1 DEF Opened, Reading
  <2>7. Opened(u)' BY <2>1, <2>3, <2>5, <2>6 DEF Opened, Reading
  <2>8. pending[u] = <<>> BY <1>1, <2>1 DEF Advanced, Emptied
  <2>9. Advanced(u)' BY <2>1, <2>2, <2>3, <2>5, <2>8 DEF Advanced, ReadyOf
  <2>10. Done(u)' BY <2>3 DEF Done
  <2> QED BY <2>5, <2>7, <2>9, <2>10
<1> QED BY <1>2, <1>3

(* It decodes a file of the old format.                                       *)
LEMMA OwnDecodes ==
    ASSUME Inv, NEW u \in Worker, Progress(u), DecodeLegacy(u)
    PROVE  Staged(u)' /\ Opened(u)' /\ Advanced(u)' /\ Done(u)'
<1> USE DEF Goto
<1>1. TypeOK /\ Advanced(u) /\ Opened(u) BY DEF Inv, Progress
<1> DEFINE s == data[Source(u)]
           alg == config[u].comp_alg
<1>2. /\ pc[u] = "legacy" /\ inOff'[u] = Len(s) /\ pc'[u] = "create"
      /\ pending'[u] \in LegacyResults(alg, s)
      /\ UNCHANGED <<files, data, config, start, stage, temp, next>>
  BY <1>1 DEF DecodeLegacy, TypeOK
<1>3. Stage(u) = "STAGE_DECOMPRESS" BY <1>2 DEF Inv, Control
<1>4. Quiet(u) BY <1>2 DEF Quiet, Working, Busy
<1>5. /\ Stage(u)' = Stage(u) /\ Source(u)' = Source(u) /\ Staged(u)'
  BY <1>4, QuietParts
<1>6. /\ Source(u) \in files /\ ~IsStream(s)
      /\ HeaderVerdict(s, alg) # "stagefail"
  BY <1>1, <1>2, <1>3 DEF Opened, Reading
<1>7. Opened(u)' BY <1>2, <1>3, <1>5, <1>6 DEF Opened, Reading
<1>8. LegacyDecodes(config[u], s, pending'[u]) BY <1>2 DEF LegacyResults, LegacyDecodes
<1>9. Advanced(u)' BY <1>2, <1>3, <1>5, <1>6, <1>8 DEF Advanced, Emptied, ReadyOf
<1>10. Done(u)' BY <1>2 DEF Done
<1> QED BY <1>5, <1>7, <1>9, <1>10

(* It opens its output: nothing is made yet, but for the stream header a      *)
(* compression owes and what a file of the old format decoded to.             *)
LEMMA OwnCreates ==
    ASSUME Inv, NEW u \in Worker, Progress(u), CreateOutput(u)
    PROVE  Staged(u)' /\ Opened(u)' /\ Advanced(u)' /\ Done(u)'
<1> USE DEF Goto
<1> DEFINE s == data[Source(u)]
           c == config[u]
           kind == Stage(u)
           t == Target(u)
<1>1. TypeOK /\ Advanced(u) /\ Opened(u) /\ Staged(u) BY DEF Inv, Progress
<1>2. /\ pc[u] = "create" /\ pc'[u] = "loop"
      /\ files' = files \cup {t} /\ data' = [data EXCEPT ![t] = <<>>]
      /\ outOff'[u] = 0 /\ keyIndex'[u] = 0
      /\ UNCHANGED <<config, start, stage, temp, next, inOff>>
      /\ kind = "STAGE_COMPRESS" => pending'[u] = <<StreamHeader(c.comp_alg)>>
      /\ kind # "STAGE_COMPRESS" => pending'[u] = pending[u]
  BY <1>1 DEF CreateOutput, TypeOK
<1>3. pc[u] \in InStage BY <1>2 DEF InStage, Busy
<1>4. /\ Source(u) \in FileName /\ t \in FileName /\ Source(u) # t /\ InputOf[u] # t
      /\ temp[u] # NoTemp => Source(u) = temp[u] /\ temp[u] # t
      /\ s \in Seq(Unit) /\ Len(s) \in Nat /\ pending[u] \in Seq(Unit)
      /\ c.keyLen \in Nat /\ c.comp_alg \in Nat
  BY <1>3, AtHand
<1>5. /\ Stage(u)' = kind /\ Source(u)' = Source(u) /\ Target(u)' = t
  BY <1>2 DEF Stage, IsLast, Source, Target
<1>6. /\ data' \in [FileName -> Seq(Unit)] /\ data'[t] = <<>>
      /\ \A f \in FileName \ {t} : data'[f] = data[f]
  BY <1>1, <1>2, <1>4, EmptySeq DEF TypeOK
<1>7. data'[Source(u)] = s /\ data'[InputOf[u]] = data[InputOf[u]]
      /\ (temp[u] # NoTemp => data'[temp[u]] = data[temp[u]])
  BY <1>4, <1>6, Names
<1>8. Staged(u)' BY <1>1, <1>2, <1>7 DEF Staged, Working, Busy
<1>9. Opened(u)' BY <1>1, <1>2, <1>5, <1>7 DEF Opened, Reading
<1>10. pending'[u] \in Seq(Unit)
  <2>1. StreamHeader(c.comp_alg) \in Unit BY <1>4, PlainType DEF StreamHeader, UnitKind
  <2>2. <<StreamHeader(c.comp_alg)>> \in Seq(Unit) BY <2>1
  <2> QED BY <1>2, <1>4, <2>2
<1>11. ReadyOf(kind, c, s, inOff[u], pending[u]) BY <1>1, <1>2 DEF Advanced
<1>12. SubSeq(s, 1, 0) = <<>> BY SubSeqEmpty
<1>13. LoopOf(kind, c, s, inOff[u], 0, pending'[u])
  <2>1. CASE kind = "STAGE_COMPRESS"
    <3>1. inOff[u] = 0 BY <1>11, <2>1 DEF ReadyOf
    <3> DEFINE h == StreamHeader(c.comp_alg)
    <3>2. h.val = c.comp_alg /\ IsHeader(h) BY DEF StreamHeader, Plain, IsHeader
    <3> HIDE DEF h
    <3>3. Len(<<h>>) = 1 /\ <<h>> # <<>> /\ <<h>>[1] = h OBVIOUS
    <3>4. StreamSoFar(<<h>>, c.comp_alg, <<>>) BY <3>2, <3>3, EmptyStream
    <3>5. pending'[u] = <<h>> BY <1>2, <2>1 DEF h
    <3>6. MakesSoFar(kind, c, SubSeq(s, 1, 0), pending'[u])
      BY <1>12, <2>1, <3>4, <3>5 DEF MakesSoFar
    <3> QED BY <1>4, <2>1, <3>1, <3>6 DEF LoopOf, CipherStages
  <2>2. CASE kind = "STAGE_DECOMPRESS" /\ IsStream(s)
    <3>1. s[1].val = c.comp_alg /\ inOff[u] = 1 /\ pending'[u] = <<>>
      BY <1>2, <1>11, <2>2 DEF ReadyOf
    <3>2. s # <<>> /\ IsHeader(s[1]) /\ 1 <= Len(s)
      <4>1. s # <<>> /\ IsHeader(s[1]) BY <2>2 DEF IsStream
      <4>2. Len(s) \in Nat \ {0} BY <1>4, <4>1, EmptySeq
      <4> QED BY <4>1, <4>2
    <3> DEFINE a == SubSeq(s, 1, 1)
    <3>3. Len(a) = 1 /\ a[1] = s[1]
      <4>1. \A i \in 1 .. 1 : s[i] \in Unit BY <1>4, <3>2, ElementOfSeq
      <4>2. Len(a) = IF 1 <= 1 THEN 1 - 1 + 1 ELSE 0 BY <4>1, SubSeqProperties
      <4>3. 1 \in 1 .. 1 - 1 + 1 OBVIOUS
      <4>4. a[1] = s[1 + 1 - 1] BY <4>1, <4>3, SubSeqProperties
      <4> QED BY <4>2, <4>4
    <3> HIDE DEF a
    <3>4. a # <<>>
      <4>1. Len(a) # Len(<<>>) BY <3>3
      <4> QED BY <4>1, Zenon
    <3>5. StreamSoFar(a, c.comp_alg, <<>>) BY <3>1, <3>2, <3>3, <3>4, EmptyStream
    <3>6. MakesSoFar(kind, c, SubSeq(s, 1, 1), pending'[u])
      BY <2>2, <3>1, <3>5 DEF MakesSoFar, a
    <3> QED BY <2>2, <3>1, <3>2, <3>6 DEF LoopOf, CipherStages
  <2>3. CASE kind = "STAGE_DECOMPRESS" /\ ~IsStream(s)
    <3>1. inOff[u] = Len(s) /\ LegacyDecodes(c, s, pending'[u])
      BY <1>2, <1>11, <2>3 DEF ReadyOf
    <3> QED BY <1>4, <2>3, <3>1 DEF LoopOf, CipherStages
  <2>4. CASE kind # "STAGE_COMPRESS" /\ kind # "STAGE_DECOMPRESS"
    <3>1. inOff[u] = 0 /\ pending'[u] = <<>> BY <1>2, <1>11, <2>4 DEF ReadyOf
    <3>2. kind \in CipherStages => 0 = 0 % c.keyLen
      <4>1. kind \in CipherStages => c.keyLen > 0
        BY <1>2 DEF Inv, Control, Ciphering, CipherStages
      <4> QED BY <1>4, <4>1
    <3>3. Encrypted(<<>>, c.keyLen) = <<>> BY DEF Encrypted, XorFrom
    <3>4. MakesSoFar(kind, c, SubSeq(s, 1, 0), pending'[u])
      BY <1>12, <2>4, <3>1, <3>3 DEF MakesSoFar
    <3> QED BY <1>4, <2>4, <3>1, <3>2, <3>4 DEF LoopOf
  <2> QED BY <2>1, <2>2, <2>3, <2>4
<1>14. <<>> \o pending'[u] = pending'[u] BY <1>10, ConcatEmptySeq
<1>15. Advanced(u)'
  <2>1. Len(data'[t]) = 0 BY <1>6
  <2>2. Target(u)' \in files' BY <1>2, <1>5
  <2> QED BY <1>2, <1>5, <1>6, <1>7, <1>13, <1>14, <2>1, <2>2 DEF Advanced, Emptied
<1>16. Done(u)' BY <1>2 DEF Done
<1> QED BY <1>8, <1>9, <1>15, <1>16

(* The stages there are.                                                      *)
LEMMA StageKinds ==
    ASSUME Inv, NEW u \in Worker
    PROVE  /\ Stage(u) \in {"STAGE_COMPRESS", "STAGE_DECOMPRESS", "STAGE_COPY"}
                              \cup CipherStages
           /\ Ciphering(u) <=> Stage(u) \in CipherStages
<1>1. stage[u] \in 1 .. 2 /\ stage[u] <= Len(Stages(config[u].operations))
  BY DEF Inv, TypeOK, Control
<1>2. Stage(u) \in {"STAGE_COMPRESS", "STAGE_DECOMPRESS", "STAGE_COPY"} \cup CipherStages
  BY <1>1 DEF Stage, Stages, CipherStages
<1> QED BY <1>2 DEF Ciphering, CipherStages

(* What the invariant says in the loop when everything made is written.       *)
LEMMA InLoop ==
    ASSUME Inv, NEW u \in Worker, Progress(u), pc[u] = "loop", pending[u] = <<>>
    PROVE  /\ outOff[u] = Len(data[Target(u)]) /\ Target(u) \in files
           /\ LoopOf(Stage(u), config[u], data[Source(u)], inOff[u], keyIndex[u],
                     data[Target(u)])
           /\ Stage(u) \in CipherStages => config[u].keyLen \in Nat \ {0}
<1>1. pc[u] \in InStage BY DEF InStage, Busy
<1>2. data[Target(u)] \in Seq(Unit) /\ config[u].keyLen \in Nat BY <1>1, AtHand
<1>3. data[Target(u)] \o <<>> = data[Target(u)] BY <1>2, ConcatEmptySeq
<1>4. Advanced(u) BY DEF Progress
<1>5. Stage(u) \in CipherStages => config[u].keyLen > 0
  BY StageKinds DEF Inv, Control
<1> QED BY <1>2, <1>3, <1>4, <1>5 DEF Advanced

(* A step of the loop that changes no file.                                   *)
LEMMA LoopGoesOn ==
    ASSUME Inv, NEW u \in Worker, Progress(u), pc[u] = "loop", pc'[u] = "loop",
           UNCHANGED <<files, data, config, start, stage, temp, next>>,
           outOff'[u] = outOff[u],
           LoopOf(Stage(u), config[u], data[Source(u)], inOff'[u], keyIndex'[u],
                  data[Target(u)] \o pending'[u])
    PROVE  Staged(u)' /\ Opened(u)' /\ Advanced(u)' /\ Done(u)'
<1>1. Advanced(u) /\ Opened(u) BY DEF Progress
<1>2. Quiet(u) BY DEF Quiet, Working, Busy
<1>3. /\ Stage(u)' = Stage(u) /\ Source(u)' = Source(u) /\ Target(u)' = Target(u)
      /\ Staged(u)'
  BY <1>2, QuietParts
<1>4. Opened(u)' BY <1>1, <1>3 DEF Opened
<1>5. Advanced(u)' BY <1>1, <1>3 DEF Advanced, Emptied
<1>6. Done(u)' BY DEF Done
<1> QED BY <1>3, <1>4, <1>5, <1>6

(* It reads a chunk of any size and codes it: what the stage makes of all it  *)
(* has read, the key position included, grows by what it makes of the chunk.  *)
LEMMA OwnReads ==
    ASSUME Inv, NEW u \in Worker, Progress(u), ReadChunk(u)
    PROVE  Staged(u)' /\ Opened(u)' /\ Advanced(u)' /\ Done(u)'
<1> USE DEF Goto
<1> DEFINE s == data[Source(u)]
           o == data[Target(u)]
           c == config[u]
           kind == Stage(u)
           at == inOff[u]
           a == SubSeq(s, 1, at)
<1>1. TypeOK BY DEF Inv
<1>2. PICK n \in 1 .. ChunkSize :
         /\ at + n <= Len(s)
         /\ pending'[u] = StageOutput(u, SubSeq(s, at + 1, at + n))
         /\ inOff'[u] = at + n
         /\ keyIndex'[u] = NextKeyIndex(u, n)
  BY <1>1 DEF ReadChunk, TypeOK
<1>3. /\ pc[u] = "loop" /\ pending[u] = <<>> /\ kind # "STAGE_DECOMPRESS"
      /\ UNCHANGED <<files, data, config, start, pc, stage, temp, next, outOff>>
  BY DEF ReadChunk
<1>4. pc[u] \in InStage BY <1>3 DEF InStage, Busy
<1>5. /\ s \in Seq(Unit) /\ o \in Seq(Unit) /\ Len(s) \in Nat /\ at \in Nat
      /\ c.keyLen \in Nat /\ c.comp_alg \in Nat /\ n \in Nat
  BY <1>4, AtHand, PipelineAssumption
<1> DEFINE chunk == SubSeq(s, at + 1, at + n)
<1>5a. at + n <= Len(s) BY <1>2
<1> HIDE DEF s, at
<1>6. /\ a \in Seq(Unit) /\ Len(a) = at /\ chunk \in Seq(Unit)
      /\ SubSeq(s, 1, at + n) = a \o chunk
  BY <1>5, <1>5a, ReadOn
<1>7. /\ LoopOf(kind, c, s, at, keyIndex[u], o)
      /\ kind \in CipherStages => c.keyLen \in Nat \ {0}
  BY <1>3, InLoop DEF s, at
<1>8. MakesSoFar(kind, c, a, o) /\ (kind \in CipherStages => keyIndex[u] = at % c.keyLen)
  BY <1>3, <1>7 DEF LoopOf
<1>9. /\ kind \in {"STAGE_COMPRESS", "STAGE_DECOMPRESS", "STAGE_COPY"} \cup CipherStages
      /\ Ciphering(u) <=> kind \in CipherStages
  BY StageKinds
<1> HIDE DEF a, chunk, s, o, kind, at, c
<1>10. MakesSoFar(kind, c, a \o chunk, o \o pending'[u])
  <2>1. CASE kind = "STAGE_COMPRESS"
    <3>1. StreamSoFar(o, c.comp_alg, a) BY <1>8, <2>1 DEF MakesSoFar
    <3>2. pending'[u] = ChunkRecord(c.comp_alg, chunk)
      <4>1. ~Ciphering(u) BY <1>9, <2>1 DEF CipherStages
      <4> QED BY <1>2, <2>1, <4>1 DEF StageOutput, chunk, kind, s, at, c
    <3>3. StreamSoFar(o \o ChunkRecord(c.comp_alg, chunk), c.comp_alg, a \o chunk)
      BY <1>5, <1>6, <3>1, StreamGrows
    <3> QED BY <2>1, <3>2, <3>3 DEF MakesSoFar
  <2>2. CASE kind = "STAGE_COPY"
    <3>1. o = a BY <1>8, <2>2 DEF MakesSoFar
    <3>2. ~Ciphering(u) BY <1>9, <2>2 DEF CipherStages
    <3>3. pending'[u] = chunk BY <1>2, <2>2, <3>2 DEF StageOutput, chunk, kind, s, at
    <3> QED BY <2>2, <3>1, <3>3 DEF MakesSoFar
  <2>3. CASE kind \in CipherStages
    <3>1. /\ kind # "STAGE_COMPRESS" /\ kind # "STAGE_COPY" /\ kind # "STAGE_DECOMPRESS"
          /\ Ciphering(u)
      BY <1>9, <2>3 DEF CipherStages
    <3>2. o = Encrypted(a, c.keyLen) BY <1>8, <3>1 DEF MakesSoFar
    <3>3. pending'[u] = XorFrom(chunk, keyIndex[u], c.keyLen)
      BY <1>2, <3>1 DEF StageOutput, chunk, kind, s, at, c
    <3>4. keyIndex[u] = Len(a) % c.keyLen /\ c.keyLen \in Nat \ {0}
      BY <1>6, <1>7, <1>8, <2>3
    <3>5. Encrypted(a \o chunk, c.keyLen)
             = Encrypted(a, c.keyLen) \o XorFrom(chunk, Len(a) % c.keyLen, c.keyLen)
      BY <1>6, <3>4, EncryptedChunk
    <3> QED BY <3>1, <3>2, <3>3, <3>4, <3>5 DEF MakesSoFar
  <2> QED BY <1>3, <1>9, <2>1, <2>2, <2>3 DEF kind
<1>11. kind \in CipherStages => keyIndex'[u] = (at + n) % c.keyLen
  <2> SUFFICES ASSUME kind \in CipherStages PROVE keyIndex'[u] = (at + n) % c.keyLen
    OBVIOUS
  <2>1. Ciphering(u) BY <1>9
  <2>2. keyIndex'[u] = (keyIndex[u] + n) % c.keyLen BY <1>2, <2>1 DEF NextKeyIndex, c
  <2>3. keyIndex[u] = at % c.keyLen /\ c.keyLen \in Nat \ {0} BY <1>7, <1>8
  <2>4. ((at % c.keyLen) + n) % c.keyLen = (at + n) % c.keyLen
    BY <1>5, <2>3, RemainderOfSum
  <2> QED BY <2>2, <2>3, <2>4
<1>12. LoopOf(kind, c, s, at + n, keyIndex'[u], o \o pending'[u])
  <2>1. kind # "STAGE_DECOMPRESS" /\ at + n <= Len(s) BY <1>2, <1>3 DEF kind, at, s
  <2> QED BY <1>6, <1>10, <1>11, <2>1 DEF LoopOf
<1>13. LoopOf(Stage(u), config[u], data[Source(u)], inOff'[u], keyIndex'[u],
              data[Target(u)] \o pending'[u])
  BY <1>2, <1>12 DEF kind, c, s, at, o
<1> QED BY <1>3, <1>13, LoopGoesOn

(* A step into the failure of the stage: nothing is claimed of its output.    *)
LEMMA FailureClaimsNothing ==
    ASSUME NEW u \in Worker, Progress(u), pc'[u] \in {"stagefail", "failed"},
           stage'[u] = stage[u], temp'[u] \in {temp[u], NoTemp}
    PROVE  Staged(u)' /\ Opened(u)' /\ Advanced(u)' /\ Done(u)'
<1>1. Staged(u)' BY DEF Progress, Staged, Working, Busy
<1>2. Opened(u)' BY DEF Opened, Reading
<1>3. Advanced(u)' BY DEF Advanced, Emptied
<1>4. Done(u)' BY DEF Done
<1> QED BY <1>1, <1>2, <1>3, <1>4

(* It reads a record, whole and of its codec, or fails.                       *)
LEMMA OwnReadsRecord ==
    ASSUME Inv, NEW u \in Worker, Progress(u), ReadRecord(u)
    PROVE  Staged(u)' /\ Opened(u)' /\ Advanced(u)' /\ Done(u)'
<1> USE DEF Goto
<1> DEFINE s == data[Source(u)]
           o == data[Target(u)]
           c == config[u]
           at == inOff[u]
           a == SubSeq(s, 1, at)
           chunk == Decoded(RecordPayload(s, at))
           v == s[at + 1].val
<1>1. TypeOK BY DEF Inv
<1>2. /\ pc[u] = "loop" /\ pending[u] = <<>> /\ Stage(u) = "STAGE_DECOMPRESS"
      /\ at < Len(s)
      /\ UNCHANGED <<files, data, config, start, stage, temp, next, outOff, keyIndex>>
  BY DEF ReadRecord
<1>3. \/ pc'[u] = "stagefail"
      \/ /\ WholeRecord(c.comp_alg, s, at)
         /\ pc'[u] = pc[u] /\ pending'[u] = chunk /\ inOff'[u] = at + 1 + v
  BY <1>1 DEF ReadRecord, TypeOK
<1>4. CASE pc'[u] = "stagefail" BY <1>2, <1>4, FailureClaimsNothing
<1>5. CASE /\ WholeRecord(c.comp_alg, s, at)
           /\ pc'[u] = pc[u] /\ pending'[u] = chunk /\ inOff'[u] = at + 1 + v
  <2>1. pc[u] \in InStage BY <1>2 DEF InStage, Busy
  <2>2. /\ s \in Seq(Unit) /\ o \in Seq(Unit) /\ Len(s) \in Nat /\ at \in Nat
        /\ c.comp_alg \in Nat
    BY <2>1, AtHand
  <2>3. LoopOf(Stage(u), c, s, at, keyIndex[u], o) BY <1>2, InLoop
  <2>4. at <= Len(s) BY <2>3 DEF LoopOf
  <2> HIDE DEF s, at, o
  <2>5. IsStream(s) /\ MakesSoFar("STAGE_DECOMPRESS", c, a, o)
    <3>1. at # Len(s) BY <1>2, <2>2 DEF s, at
    <3> QED BY <1>2, <2>3, <3>1 DEF LoopOf
  <2>6. StreamSoFar(a, c.comp_alg, o) BY <2>5 DEF MakesSoFar
  <2>7. a \in Seq(Unit)
    <3>1. 0 \in Nat /\ at + 0 = at BY <2>2
    <3> QED BY <2>2, <2>4, <3>1, ReadOn
  <2>8. at < Len(s) BY <1>2 DEF s, at
  <2>9. WholeRecord(c.comp_alg, s, at) BY <1>5 DEF s, at
  <2>10. /\ v \in Nat /\ at + 1 + v <= Len(s) /\ chunk \in Seq(Unit)
         /\ SubSeq(s, 1, at + 1 + v) = a \o ChunkRecord(c.comp_alg, chunk)
    BY <2>2, <2>8, <2>9, ReadRecordOn
  <2> HIDE DEF a, chunk, v, c
  <2>11. StreamSoFar(a \o ChunkRecord(c.comp_alg, chunk), c.comp_alg, o \o chunk)
    BY <2>2, <2>6, <2>7, <2>10, StreamGrows
  <2>12. MakesSoFar("STAGE_DECOMPRESS", c, SubSeq(s, 1, at + 1 + v), o \o chunk)
    BY <2>10, <2>11 DEF MakesSoFar
  <2>13. LoopOf("STAGE_DECOMPRESS", c, s, at + 1 + v, keyIndex'[u], o \o chunk)
    BY <2>5, <2>10, <2>12 DEF LoopOf, CipherStages
  <2>14. LoopOf(Stage(u), config[u], data[Source(u)], inOff'[u], keyIndex'[u],
                data[Target(u)] \o pending'[u])
    BY <1>2, <1>5, <2>13 DEF c, s, at, o, v, chunk
  <2>15. pc'[u] = "loop" BY <1>2, <1>5
  <2> QED BY <1>2, <2>14, <2>15, LoopGoesOn
<1> QED BY <1>3, <1>4, <1>5

(* It writes some of what is pending, and nothing is lost or repeated.        *)
LEMMA OwnWrites ==
    ASSUME Inv, NEW u \in Worker, Progress(u), Write(u)
    PROVE  Staged(u)' /\ Opened(u)' /\ Advanced(u)' /\ Done(u)'
<1> DEFINE s == data[Source(u)]
           o == data[Target(u)]
           c == config[u]
           t == Target(u)
           units == pending[u]
<1>1. TypeOK /\ Advanced(u) /\ Opened(u) /\ Staged(u) BY DEF Inv, Progress
<1>2. PICK n \in 1 .. Len(units) :
         /\ data' = [data EXCEPT ![t] = WriteAt(o, outOff[u], SubSeq(units, 1, n))]
         /\ outOff'[u] = outOff[u] + n
         /\ pending'[u] = SubSeq(units, n + 1, Len(units))
  <2>1. PICK n \in 1 .. Len(units) :
           /\ data' = [data EXCEPT ![t] = WriteAt(@, outOff[u], SubSeq(units, 1, n))]
           /\ outOff' = [outOff EXCEPT ![u] = @ + n]
           /\ pending' = [pending EXCEPT ![u] = SubSeq(@, n + 1, Len(@))]
    BY DEF Write
  <2> QED BY <1>1, <2>1 DEF TypeOK
<1>3. /\ pc[u] = "loop"
      /\ UNCHANGED <<files, config, start, pc, stage, temp, next, inOff, keyIndex>>
  BY DEF Write
<1>4. pc[u] \in InStage BY <1>3 DEF InStage, Busy
<1>5. /\ Source(u) \in FileName /\ t \in FileName /\ Source(u) # t /\ InputOf[u] # t
      /\ temp[u] # NoTemp => Source(u) = temp[u] /\ temp[u] # t
      /\ o \in Seq(Unit) /\ units \in Seq(Unit)
  BY <1>4, AtHand
<1>6. /\ outOff[u] = Len(o) /\ t \in files
      /\ LoopOf(Stage(u), c, s, inOff[u], keyIndex[u], o \o units)
  BY <1>1, <1>3 DEF Advanced
<1> DEFINE out == WriteAt(o, Len(o), SubSeq(units, 1, n))
           rest == SubSeq(units, n + 1, Len(units))
<1>7. out \in Seq(Unit) /\ Len(out) = Len(o) + n /\ out \o rest = o \o units
  BY <1>5, WriteMoves
<1>8. data' = [data EXCEPT ![t] = out] BY <1>2, <1>6
<1> HIDE DEF out, rest
<1>9. data'[t] = out /\ \A f \in FileName \ {t} : data'[f] = data[f]
  BY <1>1, <1>5, <1>8 DEF TypeOK
<1>10. /\ Stage(u)' = Stage(u) /\ Source(u)' = Source(u) /\ Target(u)' = t
  BY <1>3 DEF Stage, IsLast, Source, Target
<1>11. data'[Source(u)] = s /\ data'[InputOf[u]] = data[InputOf[u]]
       /\ (temp[u] # NoTemp => data'[temp[u]] = data[temp[u]])
  BY <1>5, <1>9, Names
<1>12. Staged(u)' BY <1>1, <1>3, <1>11 DEF Staged
<1>13. Opened(u)' BY <1>1, <1>3, <1>10, <1>11 DEF Opened
<1>14. Advanced(u)'
  <2>1. pending'[u] = rest BY <1>2 DEF rest
  <2>2. data'[t] \o pending'[u] = o \o units BY <1>7, <1>9, <2>1
  <2>3. outOff'[u] = Len(data'[t]) BY <1>2, <1>6, <1>7, <1>9
  <2>4. LoopOf(Stage(u), c, s, inOff[u], keyIndex[u], data'[t] \o pending'[u])
    BY <1>6, <2>2
  <2>5. pc'[u] = "loop" BY <1>3
  <2> HIDE DEF s, o, c, units
  <2>6. LoopOf(Stage(u), config[u], data[Source(u)], inOff[u], keyIndex[u],
               data'[t] \o pending'[u])
    BY <2>4 DEF s, c
  <2> QED BY <1>3, <1>6, <1>10, <1>11, <2>3, <2>5, <2>6 DEF Advanced, Emptied, s
<1>15. Done(u)' BY <1>3 DEF Done
<1> QED BY <1>12, <1>13, <1>14, <1>15

(* A write is torn, a temporary cannot be made, or a failed stage is cleared. *)
LEMMA OwnFails ==
    ASSUME Inv, NEW u \in Worker, Progress(u),
           TornWrite(u) \/ TempFails(u) \/ StageFail(u)
    PROVE  Staged(u)' /\ Opened(u)' /\ Advanced(u)' /\ Done(u)'
<1>1. TypeOK BY DEF Inv
<1>2. /\ pc'[u] \in {"stagefail", "failed"} /\ stage'[u] = stage[u]
      /\ temp'[u] \in {temp[u], NoTemp}
  BY <1>1 DEF TornWrite, TempFails, StageFail, Goto, TypeOK
<1> QED BY <1>2, FailureClaimsNothing

(* At the end of the input the stage has made the whole of it.                *)
LEMMA OwnFinishes ==
    ASSUME Inv, NEW u \in Worker, Progress(u), EndOfInput(u)
    PROVE  Staged(u)' /\ Opened(u)' /\ Advanced(u)' /\ Done(u)'
<1> DEFINE s == data[Source(u)]
           o == data[Target(u)]
           c == config[u]
           kind == Stage(u)
           at == inOff[u]
<1>1. TypeOK /\ Advanced(u) /\ Opened(u) BY DEF Inv, Progress
<1>2. /\ pc[u] = "loop" /\ pending[u] = <<>> /\ at >= Len(s) /\ pc'[u] = "stageok"
      /\ UNCHANGED <<files, data, config, start, stage, temp, next, pending>>
  BY <1>1 DEF EndOfInput, AtEnd, Goto, TypeOK
<1>3. pc[u] \in InStage BY <1>2 DEF InStage, Busy
<1>4. s \in Seq(Unit) /\ o \in Seq(Unit) /\ Len(s) \in Nat /\ at \in Nat BY <1>3, AtHand
<1>5. /\ Target(u) \in files /\ LoopOf(kind, c, s, at, keyIndex[u], o)
      /\ kind \in CipherStages => c.keyLen \in Nat \ {0}
  BY <1>2, InLoop
<1>6. at = Len(s)
  <2>1. at <= Len(s) BY <1>5 DEF LoopOf
  <2> QED BY <1>2, <1>4, <2>1
<1>7. SubSeq(s, 1, at) = s BY <1>4, <1>6, SubSeqFull
<1>8. kind \in {"STAGE_COMPRESS", "STAGE_DECOMPRESS", "STAGE_COPY"} \cup CipherStages
  BY StageKinds
<1>9. Makes(kind, c, s, o)
  <2> HIDE DEF kind, c, s, o, at
  <2>1. CASE kind = "STAGE_COMPRESS"
    <3>1. MakesSoFar(kind, c, s, o) BY <1>5, <1>7, <2>1 DEF LoopOf
    <3>2. StreamSoFar(o, c.comp_alg, s) BY <2>1, <3>1 DEF MakesSoFar
    <3>3. IsStreamOf(o, c.comp_alg, s) BY <3>2, StreamHalves DEF StreamSoFar
    <3> QED BY <2>1, <3>3 DEF Makes
  <2>2. CASE kind = "STAGE_DECOMPRESS" /\ IsStream(s)
    <3>1. MakesSoFar(kind, c, s, o) BY <1>5, <1>7, <2>2 DEF LoopOf
    <3>2. StreamSoFar(s, c.comp_alg, o) BY <2>2, <3>1 DEF MakesSoFar
    <3>3. IsStreamOf(s, c.comp_alg, o) BY <3>2, StreamHalves DEF StreamSoFar
    <3> QED BY <2>2, <3>3 DEF Makes, Decompresses
  <2>3. CASE kind = "STAGE_DECOMPRESS" /\ ~IsStream(s)
    <3>1. LegacyDecodes(c, s, o) BY <1>5, <2>3 DEF LoopOf
    <3> QED BY <2>3, <3>1 DEF Makes, Decompresses, LegacyDecodes
  <2>4. CASE kind = "STAGE_COPY"
    <3>1. MakesSoFar(kind, c, s, o) BY <1>5, <1>7, <2>4 DEF LoopOf
    <3> QED BY <2>4, <3>1 DEF Makes, MakesSoFar
  <2>5. CASE kind \in CipherStages
    <3>1. kind # "STAGE_COMPRESS" /\ kind # "STAGE_COPY" /\ kind # "STAGE_DECOMPRESS"
      BY <2>5 DEF CipherStages
    <3>2. MakesSoFar(kind, c, s, o) BY <1>5, <1>7, <3>1 DEF LoopOf
    <3>3. c.keyLen > 0 BY <1>5, <2>5
    <3> QED BY <3>1, <3>2, <3>3 DEF Makes, MakesSoFar
  <2> QED BY <1>8, <2>1, <2>2, <2>3, <2>4, <2>5
<1>10. Quiet(u) BY <1>2 DEF Quiet, Working, Busy
<1>11. /\ Stage(u)' = kind /\ Source(u)' = Source(u) /\ Target(u)' = Target(u)
       /\ Staged(u)'
  BY <1>10, QuietParts
<1>12. Opened(u)' BY <1>1, <1>2, <1>11 DEF Opened, Reading
<1>13. Advanced(u)' BY <1>2, <1>5, <1>9, <1>11 DEF Advanced, Emptied
<1>14. Done(u)' BY <1>2 DEF Done
<1> QED BY <1>11, <1>12, <1>13, <1>14

(* The first stage of two gets a temporary.                                   *)
LEMMA OwnTemp ==
    ASSUME Inv, NEW u \in Worker, Progress(u), CreateTemp(u)
    PROVE  Staged(u)' /\ Opened(u)' /\ Advanced(u)' /\ Done(u)'
<1>1. TypeOK /\ Advanced(u) /\ Staged(u) BY DEF Inv, Progress
<1>2. /\ pc[u] = "stage" /\ pc'[u] = "open" /\ ~IsLast(u)
      /\ UNCHANGED <<config, stage, temp, pending>>
  BY <1>1 DEF CreateTemp, Goto, TypeOK
<1>3. stage[u] = 1
  <2>1. stage[u] \in 1 .. 2 /\ stage[u] <= Len(Stages(config[u].operations))
    BY <1>1 DEF TypeOK, Inv, Control
  <2> QED BY <1>2, <2>1, StagesType DEF IsLast
<1>4. Staged(u)' BY <1>1, <1>2, <1>3 DEF Staged
<1>5. Opened(u)' BY <1>2 DEF Opened, Reading
<1>6. Advanced(u)' BY <1>1, <1>2 DEF Advanced, Emptied
<1>7. Done(u)' BY <1>2 DEF Done
<1> QED BY <1>4, <1>5, <1>6, <1>7

(* What the stages make one after the other is the transformation asked for.  *)
LEMMA StagesTransform ==
    ASSUME Inv, NEW u \in Worker, Progress(u), pc[u] = "stageok", IsLast(u)
    PROVE  Transformed(u)
<1> DEFINE c == config[u]
           in == data[InputOf[u]]
           mid == data[Source(u)]
           out == data[OutputOf[u]]
           all == Stages(c.operations)
<1>1. TypeOK /\ Staged(u) /\ Opened(u) /\ Advanced(u) BY DEF Inv, Progress
<1>2. stage[u] \in 1 .. 2 /\ Len(all) = stage[u] BY <1>1 DEF TypeOK, IsLast
<1>3. Target(u) = OutputOf[u] BY DEF Target
<1>4. Source(u) \in files /\ OutputOf[u] \in files
  BY <1>1, <1>3 DEF Opened, Advanced, Reading
<1>5. Makes(all[stage[u]], c, mid, out) BY <1>1, <1>3 DEF Advanced, Stage
<1>6. InputOf[u] \in FileName /\ OutputOf[u] \in FileName BY Names
<1>7. in \in Seq(Unit) /\ out \in Seq(Unit) BY <1>1, <1>6 DEF TypeOK
<1>8. c.keyLen \in Nat BY SourceAndTarget DEF Config
<1>9. CASE stage[u] = 1
  <2>1. mid = in /\ InputOf[u] \in files BY <1>1, <1>4, <1>9 DEF Staged, Source
  <2> HIDE DEF c, in, mid, out
  <2>2. Makes(all[1], c, in, out) /\ Len(all) = 1 BY <1>2, <1>5, <1>9, <2>1
  <2>3. \/ all = <<"STAGE_COMPRESS">> \/ all = <<"STAGE_DECOMPRESS">>
        \/ all = <<"STAGE_ENCRYPT">> \/ all = <<"STAGE_DECRYPT">>
        \/ all = <<"STAGE_COPY">>
    BY <2>2 DEF Stages
  <2> HIDE DEF all
  <2>4. all[1] \in CipherStages => c.keyLen > 0 BY <2>2 DEF Makes, CipherStages
  <2>5. TransformedBy(c, in, out)
    <3>1. CASE all = <<"STAGE_COMPRESS">>
      <4>1. IsStreamOf(out, c.comp_alg, in) BY <2>2, <3>1 DEF Makes
      <4> QED BY <3>1, <4>1 DEF TransformedBy, all
    <3>2. CASE all = <<"STAGE_DECOMPRESS">>
      <4>1. Decompresses(in, c.comp_alg, out) BY <2>2, <3>2 DEF Makes
      <4> QED BY <3>2, <4>1 DEF TransformedBy, all
    <3>3. CASE all = <<"STAGE_ENCRYPT">> \/ all = <<"STAGE_DECRYPT">>
      <4>1. out = Encrypted(in, c.keyLen) BY <2>2, <3>3 DEF Makes
      <4> QED BY <3>3, <4>1 DEF TransformedBy, all
    <3>4. CASE all = <<"STAGE_COPY">>
      <4>1. out = in BY <2>2, <3>4 DEF Makes
      <4> QED BY <3>4, <4>1 DEF TransformedBy, all
    <3> QED BY <2>3, <3>1, <3>2, <3>3, <3>4
  <2>6. Keyed(c)
    <3>1. \A i \in 1 .. Len(all) : i = 1 BY <2>2
    <3> QED BY <2>4, <3>1 DEF Keyed, all
  <2> QED BY <1>4, <2>1, <2>5, <2>6 DEF Transformed, c, in, out
<1>10. CASE stage[u] = 2
  <2>1. /\ InputOf[u] \in files /\ temp[u] # NoTemp
        /\ Makes(all[1], c, in, data[temp[u]])
    BY <1>1, <1>10 DEF Staged, Working, Busy
  <2>2. Makes(all[1], c, in, mid) BY <2>1 DEF Source
  <2>3. Makes(all[2], c, mid, out) /\ Len(all) = 2 BY <1>2, <1>5, <1>10
  <2>4. mid \in Seq(Unit) BY SourceAndTarget
  <2> HIDE DEF c, in, mid, out
  <2>5. \/ all = <<"STAGE_COMPRESS", "STAGE_ENCRYPT">>
        \/ all = <<"STAGE_DECRYPT", "STAGE_DECOMPRESS">>
    BY <2>3 DEF Stages
  <2> HIDE DEF all
  <2>6. CASE all = <<"STAGE_COMPRESS", "STAGE_ENCRYPT">>
    <3>1. IsStreamOf(mid, c.comp_alg, in) BY <2>2, <2>6 DEF Makes
    <3>2. c.keyLen > 0 /\ out = Encrypted(mid, c.keyLen) BY <2>3, <2>6 DEF Makes
    <3>3. c.keyLen \in Nat \ {0} BY <1>8, <3>2 DEF c
    <3>4. Encrypted(out, c.keyLen) = mid BY <2>4, <3>2, <3>3, EncryptedTwice
    <3>5. TransformedBy(c, in, out) BY <2>6, <3>1, <3>4 DEF TransformedBy, all
    <3>6. Keyed(c) BY <3>2 DEF Keyed
    <3> QED BY <1>4, <2>1, <3>5, <3>6 DEF Transformed, c, in, out
  <2>7. CASE all = <<"STAGE_DECRYPT", "STAGE_DECOMPRESS">>
    <3>1. c.keyLen > 0 /\ mid = Encrypted(in, c.keyLen) BY <2>2, <2>7 DEF Makes
    <3>2. Decompresses(mid, c.comp_alg, out) BY <2>3, <2>7 DEF Makes
    <3>3. TransformedBy(c, in, out) BY <2>7, <3>1, <3>2 DEF TransformedBy, all
    <3>4. Keyed(c) BY <3>1 DEF Keyed
    <3> QED BY <1>4, <2>1, <3>3, <3>4 DEF Transformed, c, in, out
  <2> QED BY <2>5, <2>6, <2>7
<1> QED BY <1>2, <1>9, <1>10

(* A stage has succeeded: what it made is the input of the next, or the       *)
(* output of the call.                                                        *)
LEMMA OwnStageOk ==
    ASSUME Inv, NEW u \in Worker, Progress(u), StageOk(u)
    PROVE  Staged(u)' /\ Opened(u)' /\ Advanced(u)' /\ Done(u)'
<1> USE DEF Goto
<1>1. TypeOK /\ Staged(u) /\ Opened(u) /\ Advanced(u) BY DEF Inv, Progress
<1>2. /\ pc[u] = "stageok" /\ Unlink({temp[u]} \ {NoTemp})
      /\ next' = [next EXCEPT ![u] = NoTemp]
      /\ temp'[u] = IF IsLast(u) THEN NoTemp ELSE next[u]
      /\ UNCHANGED <<config, start, pending>>
  BY <1>1 DEF StageOk, TypeOK
<1>3. pending[u] = <<>> /\ Source(u) \in files /\ Target(u) \in files
  BY <1>1, <1>2 DEF Advanced, Opened, Emptied, Reading
<1>4. stage[u] \in 1 .. 2 /\ stage[u] <= Len(Stages(config[u].operations))
  BY <1>1 DEF TypeOK, Inv, Control
<1>5. data' = [f \in FileName |-> IF f \in {temp[u]} \ {NoTemp} THEN <<>> ELSE data[f]]
      /\ files' = files \ ({temp[u]} \ {NoTemp})
  BY <1>2 DEF Unlink
<1>6. \A f \in FileName : f # temp[u] => data'[f] = data[f] BY <1>5
<1>7. \A f \in files : f # temp[u] => f \in files' BY <1>5
<1>8. CASE IsLast(u)
  <2>1. pc'[u] = "done" /\ stage'[u] = stage[u] /\ temp'[u] = NoTemp
    BY <1>1, <1>2, <1>8 DEF StageOk, TypeOK
  <2>2. Staged(u)' BY <2>1 DEF Staged, Working, Busy
  <2>3. Opened(u)' BY <2>1 DEF Opened, Reading
  <2>4. Advanced(u)' BY <2>1 DEF Advanced, Emptied
  <2>5. Transformed(u) BY <1>2, <1>8, StagesTransform
  <2>6. /\ InputOf[u] \in FileName /\ OutputOf[u] \in FileName
        /\ InputOf[u] # temp[u] /\ OutputOf[u] # temp[u]
    BY Names
  <2>7. /\ data'[InputOf[u]] = data[InputOf[u]] /\ data'[OutputOf[u]] = data[OutputOf[u]]
        /\ (InputOf[u] \in files => InputOf[u] \in files')
        /\ (OutputOf[u] \in files => OutputOf[u] \in files')
    BY <1>6, <1>7, <2>6
  <2>8. Transformed(u)' BY <1>2, <2>5, <2>7 DEF Transformed, Keyed
  <2>9. \A v \in Waits[u] : pc'[v] \in Ended
    <3>1. \A v \in Waits[u] : pc[v] \in Ended BY <1>2 DEF Inv, Control, Busy
    <3>2. \A v \in Worker \ {u} : pc'[v] = pc[v] BY OthersUnmoved, <1>1 DEF CallStep, Step
    <3>3. Waits[u] \subseteq Worker /\ pc[u] \notin Ended BY <1>2, Names DEF Ended
    <3> QED BY <3>1, <3>2, <3>3
  <2> QED BY <2>2, <2>3, <2>4, <2>8, <2>9 DEF Done
<1>9. CASE ~IsLast(u)
  <2>1. pc'[u] = "stage" /\ stage'[u] = stage[u] + 1 /\ temp'[u] = next[u]
    BY <1>1, <1>2, <1>9 DEF StageOk, TypeOK
  <2>2. stage[u] = 1 /\ stage'[u] = 2 BY <1>4, <1>9, <2>1, StagesType DEF IsLast
  <2>3. temp[u] = NoTemp BY <1>1, <2>2 DEF Staged
  <2>4. Target(u) = next[u] /\ next[u] # NoTemp /\ next[u] \in FileName
    <3>1. next[u] # NoTemp BY <1>2, <1>9 DEF Inv, Holds, InStage, Busy
    <3>2. next[u] \in TempName \cup {NoTemp} /\ TempName \subseteq FileName BY Names
    <3> QED BY <1>9, <3>1, <3>2 DEF Target
  <2>5. Source(u) = InputOf[u] BY <2>3 DEF Source
  <2>6. Makes(Stages(config[u].operations)[1], config[u], data[InputOf[u]], data[next[u]])
    BY <1>1, <1>2, <2>2, <2>4, <2>5 DEF Advanced, Stage
  <2>7. InputOf[u] \in FileName /\ InputOf[u] # NoTemp BY Names
  <2>8. data'[InputOf[u]] = data[InputOf[u]] /\ data'[next[u]] = data[next[u]]
        /\ InputOf[u] \in files'
    BY <1>3, <1>6, <1>7, <2>3, <2>4, <2>5, <2>7
  <2>9. Staged(u)' BY <1>2, <2>1, <2>2, <2>4, <2>6, <2>8 DEF Staged
  <2>10. Opened(u)' BY <2>1 DEF Opened, Reading
  <2>11. Advanced(u)' BY <1>2, <1>3, <2>1 DEF Advanced
  <2>12. Done(u)' BY <2>1 DEF Done
  <2> QED BY <2>9, <2>10, <2>11, <2>12
<1> QED BY <1>8, <1>9

(* Every step a call makes keeps what is known of it.                         *)
LEMMA OwnProgress ==
    ASSUME Inv, NEW u \in Worker, Progress(u), CallStep(u), u \notin misread'
    PROVE  Progress(u)'
<1>1. Staged(u)' /\ Opened(u)' /\ Advanced(u)' /\ Done(u)'
  <2>1. CASE Call(u) \/ ChooseOutput(u) \/ RefuseLegacy(u) \/ StageFault(u)
    BY <2>1, OwnBegins
  <2>2. CASE OpenInput(u) \/ ReadStreamHeader(u) BY <2>2, OwnOpens
  <2>3. CASE DecodeLegacy(u) BY <2>3, OwnDecodes
  <2>4. CASE CreateOutput(u) BY <2>4, OwnCreates
  <2>5. CASE ReadChunk(u) BY <2>5, OwnReads
  <2>6. CASE ReadRecord(u) BY <2>6, OwnReadsRecord
  <2>7. CASE Write(u) BY <2>7, OwnWrites
  <2>8. CASE TornWrite(u) \/ TempFails(u) \/ StageFail(u) BY <2>8, OwnFails
  <2>9. CASE EndOfInput(u) BY <2>9, OwnFinishes
  <2>10. CASE CreateTemp(u) BY <2>10, OwnTemp
  <2>11. CASE StageOk(u) BY <2>11, OwnStageOk
  <2> QED BY <2>1, <2>2, <2>3, <2>4, <2>5, <2>6, <2>7, <2>8, <2>9, <2>10, <2>11
          DEF CallStep, Step
<1>2. Accepted(u)' BY OwnAccepted
<1> QED BY <1>1, <1>2 DEF Progress

(* Being misled takes a header to read, and an input to take it from.         *)
LEMMA OwnMisled ==
    ASSUME Inv, NEW u \in Worker, Known(u), CallStep(u)
    PROVE  Misled(u)'
<1> SUFFICES ASSUME u \in misread'
             PROVE  /\ "OP_DECOMPRESS" \in config'[u].operations
                    /\ InputOf[u] \in files'
                    /\ \A v \in Waits[u] : pc'[v] \in Ended
  BY DEF Misled
<1>1. /\ config' = config /\ pc[u] \notin Ended
      /\ \A v \in Worker \ {u} : pc'[v] = pc[v]
  BY OthersUnmoved DEF Inv
<1>2. /\ "OP_DECOMPRESS" \in config[u].operations /\ InputOf[u] \in files
      /\ \A v \in Waits[u] : pc[v] \in Ended
  <2>1. CASE u \in misread BY <2>1 DEF Known, Misled
  <2>2. CASE u \notin misread
    <3>1. Progress(u) BY <2>2 DEF Known
    <3>2. ReadStreamHeader(u)
      <4>1. CASE \/ Call(u) \/ ChooseOutput(u) \/ CreateTemp(u) \/ TempFails(u)
                 \/ OpenInput(u) \/ DecodeLegacy(u) \/ RefuseLegacy(u)
        BY <2>2, <4>1 DEF Call, ChooseOutput, CreateTemp, TempFails, OpenInput,
                          DecodeLegacy, RefuseLegacy
      <4>2. CASE \/ CreateOutput(u) \/ ReadChunk(u) \/ ReadRecord(u) \/ Write(u)
                 \/ EndOfInput(u) \/ StageOk(u) \/ StageFail(u)
        BY <2>2, <4>2 DEF CreateOutput, ReadChunk, ReadRecord, Write, EndOfInput,
                          StageOk, StageFail
      <4>3. CASE TornWrite(u) \/ StageFault(u) BY <2>2, <4>3 DEF TornWrite, StageFault
      <4> QED BY <4>1, <4>2, <4>3 DEF CallStep, Step
    <3>3. pc[u] = "header" BY <3>2 DEF ReadStreamHeader
    <3>4. Stage(u) = "STAGE_DECOMPRESS" BY <3>3 DEF Inv, Control
    <3>5. "OP_DECOMPRESS" \in config[u].operations
      <4>1. stage[u] \in 1 .. 2 BY DEF Inv, TypeOK
      <4>2. stage[u] <= Len(Stages(config[u].operations)) BY DEF Inv, Control
      <4> QED BY <3>4, <4>1, <4>2 DEF Stage, Stages
    <3> QED BY <3>1, <3>3, <3>5, InputThere
  <2> QED BY <2>1, <2>2
<1>3. Same(InputOf[u]) BY <1>2, InputStays
<1>4. \A v \in Waits[u] : pc'[v] \in Ended BY <1>1, <1>2, Names
<1> QED BY <1>1, <1>2, <1>3, <1>4 DEF Same

(* Nothing has begun.                                                         *)
LEMMA InitFaithful == Init => FaithfulInv
<1> SUFFICES ASSUME Init, NEW w \in Worker PROVE Progress(w) /\ w \notin misread
  BY InitInv DEF FaithfulInv, Known, Misled
<1>0. misread = {} BY DEF Init
<1>1. /\ pc[w] = "idle" /\ stage[w] = 1 /\ temp[w] = NoTemp /\ pending[w] = <<>>
      /\ files = start.files /\ data = start.data
  BY DEF Init
<1>2. Staged(w) BY <1>1 DEF Staged
<1>3. Opened(w) BY <1>1 DEF Opened, Reading
<1>4. Advanced(w) BY <1>1 DEF Advanced
<1>5. Done(w) BY <1>1 DEF Done
<1>6. Accepted(w) BY <1>1 DEF Accepted, Touched
<1> QED BY <1>0, <1>2, <1>3, <1>4, <1>5, <1>6 DEF Progress

(* A step of a call keeps what is known of it, and of every other.            *)
LEMMA FaithfulStep == FaithfulInv /\ [Next]_vars => FaithfulInv'
<1> SUFFICES ASSUME FaithfulInv, [Next]_vars, NEW u \in Worker PROVE Known(u)'
  BY InvStep DEF FaithfulInv
<1>1. Inv /\ Known(u) BY DEF FaithfulInv
<1>0. ASSUME Undisturbed(u) PROVE Known(u)'
  BY <1>0, <1>1, UndisturbedProgress, MisledStays DEF Known, Undisturbed
<1>2. ASSUME NEW w \in Worker, CallStep(w) PROVE Known(u)'
  <2>1. CASE u = w
    <3>1. Misled(u)' BY <1>1, <1>2, <2>1, OwnMisled
    <3>2. misread \subseteq misread' BY <1>1, <1>2, OthersUnmoved DEF Inv
    <3>3. ASSUME u \notin misread' PROVE Progress(u)'
      <4>1. Progress(u) BY <1>1, <3>2, <3>3 DEF Known
      <4> QED BY <1>1, <1>2, <2>1, <3>3, <4>1, OwnProgress
    <3> QED BY <3>1, <3>3 DEF Known
  <2>2. CASE u # w
    <3>1. w \in Worker \ {u} BY <2>2
    <3>2. Undisturbed(u) BY <1>1, <1>2, <3>1, OthersUndisturbed
    <3> QED BY <1>0, <3>2
  <2> QED BY <2>1, <2>2
<1>3. ASSUME NEW p \in Process, Crash(p) PROVE Known(u)'
  BY <1>0, <1>1, <1>3, CrashUndisturbed
<1>4. CASE UNCHANGED vars
  <2>1. Undisturbed(u) BY <1>4 DEF vars, Undisturbed, Same
  <2> QED BY <1>0, <2>1
<1> QED BY <1>2, <1>3, <1>4 DEF Next, CallStep

LEMMA FaithfulInvariance == Spec => []FaithfulInv
<1>1. Init => FaithfulInv BY InitFaithful
<1>2. FaithfulInv /\ [Next]_vars => FaithfulInv' BY FaithfulStep
<1> QED BY <1>1, <1>2, PTL DEF Spec

(******************************** the theorems *******************************)

(* For any number of concurrent calls, any files, key lengths, chunk sizes,   *)
(* short reads and writes of data, faults and kills: a call that returned 0   *)
(* has made the whole transformation of its input, and nobody undoes it       *)
(* afterwards; unless its one read of the stream header came short, which the *)
(* code takes for a file of the old format.                                   *)
THEOREM SuccessFaithful == Spec => []SuccessIsFaithful
<1>1. FaithfulInv => SuccessIsFaithful
  BY DEF FaithfulInv, Known, Progress, Done, SuccessIsFaithful
<1> QED BY <1>1, FaithfulInvariance, PTL

(* An input that is missing, or a stream of another version or codec whose    *)
(* header is read as a whole, costs the caller nothing: the output is as it   *)
(* was, however the call ended.                                               *)
THEOREM RefusalCostsNothing == Spec => []RefusalLeavesOutput
<1>1. FaithfulInv => RefusalLeavesOutput
  <2> SUFFICES ASSUME FaithfulInv, NEW w \in Worker, Touched(w),
                      InputOf[w] \notin files \/ (Refused(w) /\ w \notin misread)
               PROVE  FALSE
    BY DEF RefusalLeavesOutput
  <2>1. w \notin misread BY DEF FaithfulInv, Known, Misled
  <2> QED BY <2>1 DEF FaithfulInv, Known, Progress, Accepted
<1> QED BY <1>1, FaithfulInvariance, PTL

(* What packing configurations, and their inverses, do.                       *)
LEMMA PackedAndUndone ==
    ASSUME NEW c \in Config, Packs(c), NEW in \in Seq(Unit), NEW mid \in Seq(Unit),
           NEW out \in Seq(Unit), Keyed(c),
           TransformedBy(c, in, mid), TransformedBy(InverseOf(c), mid, out)
    PROVE  out = in
<1> DEFINE d == InverseOf(c)
           K == c.keyLen
           alg == c.comp_alg
           Inverted(op) == CASE op = "OP_COMPRESS" -> "OP_DECOMPRESS"
                             [] op = "OP_ENCRYPT" -> "OP_DECRYPT"
                             [] op = "OP_DECOMPRESS" -> "OP_COMPRESS"
                             [] OTHER -> "OP_ENCRYPT"
<1>1. alg \in Nat /\ K \in Nat BY DEF Config
<1>2. d.operations = {Inverted(op) : op \in c.operations} BY DEF InverseOf, Config
<1>2a. d.keyLen = K /\ d.comp_alg = alg BY DEF InverseOf, Config
<1>3. Inverted("OP_COMPRESS") = "OP_DECOMPRESS" /\ Inverted("OP_ENCRYPT") = "OP_DECRYPT"
  OBVIOUS
<1> HIDE DEF d, K, alg, Inverted
<1>4. TransformedBy(c, in, mid) /\ TransformedBy(d, mid, out) /\ Keyed(c) BY DEF d
<1>5. \/ c.operations = {} \/ c.operations = {"OP_COMPRESS"} \/ c.operations = {"OP_ENCRYPT"}
      \/ c.operations = {"OP_COMPRESS", "OP_ENCRYPT"}
  BY DEF Packs
<1>6. CASE c.operations = {}
  <2>1. d.operations = {} BY <1>2, <1>6
  <2>2. Stages({}) = <<"STAGE_COPY">> BY DEF Stages
  <2>3. mid = in BY <1>4, <1>6, <2>2 DEF TransformedBy
  <2>4. out = mid BY <1>4, <2>1, <2>2 DEF TransformedBy
  <2> QED BY <2>3, <2>4
<1>7. CASE c.operations = {"OP_COMPRESS"}
  <2>1. d.operations = {"OP_DECOMPRESS"} BY <1>2, <1>3, <1>7
  <2>2. /\ Stages({"OP_COMPRESS"}) = <<"STAGE_COMPRESS">>
        /\ Stages({"OP_DECOMPRESS"}) = <<"STAGE_DECOMPRESS">>
    BY DEF Stages
  <2>3. IsStreamOf(mid, alg, in) BY <1>4, <1>7, <2>2 DEF TransformedBy, alg
  <2>4. Decompresses(mid, alg, out) BY <1>2a, <1>4, <2>1, <2>2 DEF TransformedBy
  <2>5. IsStreamOf(mid, alg, out) BY <2>3, <2>4 DEF IsStreamOf, Decompresses
  <2> QED BY <1>1, <2>3, <2>5, StreamDetermines
<1>8. CASE c.operations = {"OP_ENCRYPT"}
  <2>1. d.operations = {"OP_DECRYPT"} BY <1>2, <1>3, <1>8
  <2>2. /\ Stages({"OP_ENCRYPT"}) = <<"STAGE_ENCRYPT">>
        /\ Stages({"OP_DECRYPT"}) = <<"STAGE_DECRYPT">>
    BY DEF Stages
  <2>3. mid = Encrypted(in, K)
    <3>1. Stages(c.operations) = <<"STAGE_ENCRYPT">> BY <1>8, <2>2
    <3> QED BY <1>4, <3>1 DEF TransformedBy, K
  <2>4. out = Encrypted(mid, K)
    <3>1. Stages(d.operations) = <<"STAGE_DECRYPT">> BY <2>1, <2>2
    <3> QED BY <1>2a, <1>4, <3>1 DEF TransformedBy
  <2>5. K > 0
    <3>1. 1 \in 1 .. Len(Stages(c.operations)) /\ Stages(c.operations)[1] = "STAGE_ENCRYPT"
      BY <1>8, <2>2
    <3> QED BY <1>4, <3>1 DEF Keyed, CipherStages, K
  <2>6. K \in Nat \ {0} BY <1>1, <2>5
  <2> QED BY <2>3, <2>4, <2>6, EncryptedTwice
<1>9. CASE c.operations = {"OP_COMPRESS", "OP_ENCRYPT"}
  <2>1. d.operations = {"OP_DECOMPRESS", "OP_DECRYPT"} BY <1>2, <1>3, <1>9
  <2>2. /\ Stages({"OP_COMPRESS", "OP_ENCRYPT"}) = <<"STAGE_COMPRESS", "STAGE_ENCRYPT">>
        /\ Stages({"OP_DECOMPRESS", "OP_DECRYPT"}) = <<"STAGE_DECRYPT", "STAGE_DECOMPRESS">>
    BY DEF Stages
  <2>3. IsStreamOf(Encrypted(mid, K), alg, in)
    <3>1. Stages(c.operations) = <<"STAGE_COMPRESS", "STAGE_ENCRYPT">> BY <1>9, <2>2
    <3> QED BY <1>4, <3>1 DEF TransformedBy, alg, K
  <2>4. Decompresses(Encrypted(mid, K), alg, out)
    <3>1. Stages(d.operations) = <<"STAGE_DECRYPT", "STAGE_DECOMPRESS">> BY <2>1, <2>2
    <3> QED BY <1>2a, <1>4, <3>1 DEF TransformedBy
  <2>5. IsStreamOf(Encrypted(mid, K), alg, out) BY <2>3, <2>4 DEF IsStreamOf, Decompresses
  <2> QED BY <1>1, <2>3, <2>5, StreamDetermines
<1> QED BY <1>5, <1>6, <1>7, <1>8, <1>9

(* A call that packs is never misled.                                         *)
LEMMA PacksKnown ==
    ASSUME FaithfulInv, NEW w \in Worker, Packs(config[w])
    PROVE  w \notin misread /\ Progress(w)
BY DEF FaithfulInv, Known, Misled, Packs

(* Undoing what a successful call made, with the same key and codec, gives    *)
(* back its input, whatever chunks the two calls cut their files into and     *)
(* whatever else happened in between, if the second has seen the header.      *)
THEOREM RoundTripFaithful == Spec => []RoundTrip
<1>1. FaithfulInv => RoundTrip
  <2> SUFFICES ASSUME FaithfulInv, NEW v \in Worker, NEW w \in Worker,
                      Undoes(w, v), pc[v] = "done", pc[w] = "done", w \notin misread
               PROVE  data[OutputOf[w]] = data[InputOf[v]]
    BY DEF RoundTrip
  <2>0. v \notin misread BY PacksKnown DEF Undoes
  <2>1. Transformed(v) /\ Transformed(w) /\ Inv
    BY <2>0 DEF FaithfulInv, Known, Progress, Done
  <2>2. /\ InputOf[v] \in FileName /\ OutputOf[v] \in FileName /\ OutputOf[w] \in FileName
    BY <2>1, Names
  <2>3. /\ data[InputOf[v]] \in Seq(Unit) /\ data[OutputOf[v]] \in Seq(Unit)
        /\ data[OutputOf[w]] \in Seq(Unit)
    BY <2>1, <2>2 DEF Inv, TypeOK
  <2>4. config[v] \in Config BY <2>1, SourceAndTarget
  <2>5. /\ InputOf[w] = OutputOf[v] /\ Packs(config[v]) /\ config[w] = InverseOf(config[v])
    BY DEF Undoes
  <2>6. /\ TransformedBy(config[v], data[InputOf[v]], data[OutputOf[v]]) /\ Keyed(config[v])
        /\ TransformedBy(InverseOf(config[v]), data[OutputOf[v]], data[OutputOf[w]])
    BY <2>1, <2>5 DEF Transformed
  <2> QED BY <2>3, <2>4, <2>5, <2>6, PackedAndUndone
<1> QED BY <1>1, FaithfulInvariance, PTL

(****************************** the damaged files ****************************)

(* What a call that packs has put in its output so far: the beginning of what *)
(* it would have made, with the cipher taken off it again.                    *)
Deciphered(c, s) == IF "OP_ENCRYPT" \in c.operations THEN Encrypted(s, c.keyLen) ELSE s

PartMade(c, in, out) ==
    /\ "OP_ENCRYPT" \in c.operations => c.keyLen > 0
    /\ IF "OP_COMPRESS" \in c.operations
       THEN \E whole \in Seq(Unit), n \in 0 .. Len(in) :
               /\ Carries(whole, c.comp_alg, SubSeq(in, 1, n))
               /\ Beginning(Deciphered(c, out), whole)
       ELSE Beginning(Deciphered(c, out), in)

Begun(w) ==
    Touched(w) /\ Packs(config[w])
       => PartMade(config[w], data[InputOf[w]], data[OutputOf[w]])

DamageInv == FaithfulInv /\ \A w \in Worker : Begun(w)

(* Ciphering keeps headers headers: only the cipher's layer comes or goes.    *)
LEMMA XorKeepsHeaders ==
    ASSUME NEW u \in Unit, NEW k \in Nat
    PROVE  /\ Tearable(XorUnit(u, k)) => Tearable(u)
           /\ XorUnit(Torn(u), k) = Torn(XorUnit(u, k))
<1> DEFINE l == [kind |-> "xor", arg |-> k]
<1>1. u.layers \in Seq(Layer) /\ l \in Layer BY DEF Unit, Layers, Layer
<1>2. l.kind = "xor" OBVIOUS
<1> HIDE DEF l
<1>3. CASE Outermost(u, l)
  <2>1. XorUnit(u, k) = Popped(u) BY <1>3 DEF XorUnit, l
  <2>2. Outermost(Torn(u), l) BY <1>3 DEF Torn, Outermost, Unit
  <2>3. XorUnit(Torn(u), k) = Popped(Torn(u)) BY <2>2 DEF XorUnit, l
  <2>4. Popped(Torn(u)) = Torn(Popped(u)) BY DEF Popped, Torn, Unit
  <2>5. u.layers # <<>> /\ Head(u.layers) = l BY <1>3 DEF Outermost
  <2>6. ASSUME Tearable(Popped(u)) PROVE Tearable(u)
    <3>1. Popped(u).kind = u.kind /\ Popped(u).layers = Tail(u.layers)
      BY DEF Popped, Unit
    <3>2. /\ Len(u.layers) \in Nat \ {0} /\ Len(Tail(u.layers)) = Len(u.layers) - 1
          /\ \A i \in 1 .. Len(Tail(u.layers)) : Tail(u.layers)[i] = u.layers[i + 1]
          /\ Head(u.layers) = u.layers[1]
      BY <1>1, <2>5, HeadTailProperties, EmptySeq
    <3>3. ASSUME NEW i \in 1 .. Len(u.layers) PROVE u.layers[i].kind # "codec"
      <4>1. CASE i = 1 BY <1>2, <2>5, <3>2, <4>1
      <4>2. CASE i # 1
        <5>1. i - 1 \in 1 .. Len(Tail(u.layers)) /\ (i - 1) + 1 = i BY <3>2, <4>2
        <5>2. Tail(u.layers)[i - 1] = u.layers[i] BY <3>2, <5>1
        <5>3. Tail(u.layers)[i - 1].kind # "codec" BY <2>6, <3>1, <5>1 DEF Tearable
        <5> QED BY <5>2, <5>3
      <4> QED BY <4>1, <4>2
    <3> QED BY <2>6, <3>1, <3>3 DEF Tearable
  <2> QED BY <2>1, <2>3, <2>4, <2>6
<1>4. CASE ~Outermost(u, l)
  <2>1. XorUnit(u, k) = Pushed(u, l) BY <1>4 DEF XorUnit, l
  <2>2. ~Outermost(Torn(u), l) BY <1>4 DEF Torn, Outermost, Unit
  <2>3. XorUnit(Torn(u), k) = Pushed(Torn(u), l) BY <2>2 DEF XorUnit, l
  <2>4. Pushed(Torn(u), l) = Torn(Pushed(u, l)) BY DEF Pushed, Torn, Unit
  <2>5. ASSUME Tearable(Pushed(u, l)) PROVE Tearable(u)
    <3>1. Pushed(u, l).kind = u.kind /\ Pushed(u, l).layers = <<l>> \o u.layers
      BY DEF Pushed, Unit
    <3>2. /\ Len(<<l>> \o u.layers) = 1 + Len(u.layers) /\ Len(u.layers) \in Nat
          /\ \A i \in 1 .. Len(u.layers) : (<<l>> \o u.layers)[i + 1] = u.layers[i]
      BY <1>1, SequencePushed, LenProperties
    <3>3. ASSUME NEW i \in 1 .. Len(u.layers) PROVE u.layers[i].kind # "codec"
      <4>1. i + 1 \in 1 .. Len(<<l>> \o u.layers) BY <3>2
      <4>2. (<<l>> \o u.layers)[i + 1].kind # "codec" BY <2>5, <3>1, <4>1 DEF Tearable
      <4> QED BY <3>2, <4>2
    <3> QED BY <2>5, <3>1, <3>3 DEF Tearable
  <2> QED BY <2>1, <2>3, <2>4, <2>5
<1> QED BY <1>3, <1>4

(* The beginning of a beginning, when the shorter is whole units.             *)
LEMMA BeginningOn ==
    ASSUME NEW s \in Seq(Unit), NEW in \in Seq(Unit), NEW n \in 0 .. Len(in),
           Beginning(s, SubSeq(in, 1, n))
    PROVE  Beginning(s, in)
<1>1. Len(in) \in Nat /\ n \in Nat /\ Len(s) \in Nat BY LenProperties
<1>2. \A i \in 1 .. n : in[i] \in Unit BY <1>1, ElementOfSeq
<1>3. Len(SubSeq(in, 1, n)) = n /\ \A i \in 1 .. n : SubSeq(in, 1, n)[i] = in[i]
  BY <1>1, <1>2, SubSeqProperties
<1> QED BY <1>1, <1>3 DEF Beginning

(* What is written of a file that is being made, and what a torn write leaves *)
(* of it, is its beginning.                                                   *)
LEMMA WrittenBegins ==
    ASSUME NEW o \in Seq(Unit), NEW units \in Seq(Unit)
    PROVE  /\ \A n \in 1 .. Len(units) :
                 Beginning(WriteAt(o, Len(o), SubSeq(units, 1, n)), o \o units)
           /\ units # <<>> /\ Tearable(Head(units))
                 => Beginning(WriteAt(o, Len(o), <<Torn(Head(units))>>), o \o units)
<1> DEFINE whole == o \o units
<1>1. /\ Len(o) \in Nat /\ Len(units) \in Nat /\ Len(whole) = Len(o) + Len(units)
      /\ \A i \in 1 .. Len(o) : whole[i] = o[i]
      /\ \A j \in 1 .. Len(units) : whole[Len(o) + j] = units[j]
  BY ConcatParts DEF Joined
<1> HIDE DEF whole
<1>2. ASSUME NEW n \in 1 .. Len(units)
      PROVE  Beginning(WriteAt(o, Len(o), SubSeq(units, 1, n)), whole)
  <2> DEFINE t == WriteAt(o, Len(o), SubSeq(units, 1, n))
             rest == SubSeq(units, n + 1, Len(units))
  <2>1. t \in Seq(Unit) /\ Len(t) = Len(o) + n /\ rest \in Seq(Unit) /\ t \o rest = whole
    BY WriteMoves DEF whole
  <2> HIDE DEF t, rest
  <2>2. \A i \in 1 .. Len(t) : whole[i] = t[i] BY <2>1, ConcatParts DEF Joined
  <2>3. Len(t) <= Len(whole) BY <1>1, <2>1
  <2> QED BY <2>2, <2>3 DEF Beginning, t
<1>3. ASSUME units # <<>>, Tearable(Head(units))
      PROVE  Beginning(WriteAt(o, Len(o), <<Torn(Head(units))>>), whole)
  <2> DEFINE u == Head(units)
             x == <<Torn(u)>>
             t == WriteAt(o, Len(o), x)
  <2>1. Len(units) >= 1 /\ units[1] = u /\ u \in Unit BY <1>1, <1>3, HeadTailProperties, EmptySeq
  <2>2. Torn(u) \in Unit BY <2>1 DEF Torn, Unit, UnitKind
  <2>3. x \in Seq(Unit) /\ Len(x) = 1 /\ x[1] = Torn(u) BY <2>2
  <2> HIDE DEF x
  <2>4. t = o \o x BY <2>3, WriteAtEnd
  <2>5. /\ Len(t) = Len(o) + 1
        /\ \A i \in 1 .. Len(o) : t[i] = o[i]
        /\ t[Len(o) + 1] = Torn(u)
    <3>1. /\ Len(o \o x) = Len(o) + Len(x)
          /\ \A i \in 1 .. Len(o) : (o \o x)[i] = o[i]
          /\ \A j \in 1 .. Len(x) : (o \o x)[Len(o) + j] = x[j]
      BY <2>3, ConcatParts DEF Joined
    <3>2. (o \o x)[Len(o) + 1] = x[1] BY <2>3, <3>1
    <3> QED BY <2>3, <2>4, <3>1, <3>2
  <2> HIDE DEF t
  <2>6. whole[Len(o) + 1] = u BY <1>1, <2>1
  <2>7. ASSUME NEW i \in 1 .. Len(t)
        PROVE  \/ t[i] = whole[i]
               \/ i = Len(t) /\ Tearable(whole[i]) /\ t[i] = Torn(whole[i])
    <3>1. CASE i \in 1 .. Len(o) BY <1>1, <2>5, <3>1
    <3>2. CASE i = Len(o) + 1 BY <1>3, <2>5, <2>6, <3>2
    <3> QED BY <1>1, <2>5, <3>1, <3>2
  <2>8. Len(t) <= Len(whole) BY <1>1, <2>1, <2>5
  <2> QED BY <2>7, <2>8 DEF Beginning, t, x
<1> QED BY <1>2, <1>3 DEF whole

(* Taking the cipher off the beginning of a ciphered file gives the beginning *)
(* of the file.                                                               *)
LEMMA DecipheredBeginning ==
    ASSUME NEW s \in Seq(Unit), NEW in \in Seq(Unit), NEW K \in Nat \ {0},
           Beginning(s, Encrypted(in, K))
    PROVE  Beginning(Encrypted(s, K), in)
<1> DEFINE e == Encrypted(in, K)
           d == Encrypted(s, K)
<1>1. Len(e) = Len(in) /\ Len(d) = Len(s) /\ Len(in) \in Nat /\ Len(s) \in Nat
  BY XorFromType, LenProperties DEF Encrypted
<1>2. Len(s) <= Len(in) BY <1>1 DEF Beginning
<1>3. ASSUME NEW i \in 1 .. Len(s)
      PROVE  \/ d[i] = in[i]
             \/ i = Len(d) /\ Tearable(in[i]) /\ d[i] = Torn(in[i])
  <2> DEFINE k == (0 + i - 1) % K
  <2>1. i \in 1 .. Len(in) /\ in[i] \in Unit /\ s[i] \in Unit
    BY <1>1, <1>2, ElementOfSeq
  <2>2. k \in Nat OBVIOUS
  <2>3. e[i] = XorUnit(in[i], k) /\ d[i] = XorUnit(s[i], k)
    BY <2>1 DEF Encrypted, XorFrom
  <2>4. e[i] \in Unit BY <2>1, <2>2, <2>3, XorUnitType
  <2> HIDE DEF k, e, d
  <2>5. XorUnit(e[i], k) = in[i] BY <2>1, <2>2, <2>3, XorTwice
  <2>6. CASE s[i] = e[i] BY <2>3, <2>5, <2>6
  <2>7. CASE i = Len(s) /\ Tearable(e[i]) /\ s[i] = Torn(e[i])
    <3>1. Tearable(in[i]) BY <2>1, <2>2, <2>3, <2>7, XorKeepsHeaders
    <3>2. d[i] = Torn(in[i]) BY <2>2, <2>3, <2>4, <2>5, <2>7, XorKeepsHeaders
    <3> QED BY <1>1, <2>7, <3>1, <3>2
  <2> QED BY <2>6, <2>7 DEF Beginning, e
<1> QED BY <1>1, <1>2, <1>3 DEF Beginning

(* Nothing is the beginning of anything.                                      *)
LEMMA NothingMade ==
    ASSUME NEW c \in Config, NEW in \in Seq(Unit), "OP_ENCRYPT" \in c.operations => c.keyLen > 0
    PROVE  PartMade(c, in, <<>>)
<1>1. Deciphered(c, <<>>) = <<>> BY DEF Deciphered, Encrypted, XorFrom
<1>2. Len(in) \in Nat /\ Len(<<>>) = 0 /\ <<>> \in Seq(Unit) BY LenProperties, EmptySeq
<1>3. Beginning(<<>>, in) /\ Beginning(<<>>, <<>>) BY <1>2 DEF Beginning
<1>4. SubSeq(in, 1, 0) = <<>> BY SubSeqEmpty
<1>5. Payload(c.comp_alg, <<>>) = {} BY <1>2 DEF Payload
<1>6. Carries(<<>>, c.comp_alg, <<>>)
  <2>1. 1 .. Len(<<>>) = {} BY <1>2
  <2>2. {Rank(c.comp_alg, <<>>, i) : i \in Payload(c.comp_alg, <<>>)} = {} BY <1>5
  <2> QED BY <1>5, <2>1, <2>2 DEF Carries
<1>7. 0 \in 0 .. Len(in) BY <1>2
<1> QED BY <1>1, <1>2, <1>3, <1>4, <1>6, <1>7 DEF PartMade

(* A call that packs has been given a key for its cipher by the time it       *)
(* touches its output, and then writes what its stages have made so far.      *)
LEMMA PackStages ==
    ASSUME Inv, NEW u \in Worker, Packs(config[u]), IsLast(u)
    PROVE  LET c == config[u]
           IN /\ c.operations = {} => Stage(u) = "STAGE_COPY" /\ stage[u] = 1
              /\ c.operations = {"OP_COMPRESS"} => Stage(u) = "STAGE_COMPRESS" /\ stage[u] = 1
              /\ c.operations = {"OP_ENCRYPT"} => Stage(u) = "STAGE_ENCRYPT" /\ stage[u] = 1
              /\ c.operations = {"OP_COMPRESS", "OP_ENCRYPT"}
                    => /\ Stage(u) = "STAGE_ENCRYPT" /\ stage[u] = 2
                       /\ Stages(c.operations)[1] = "STAGE_COMPRESS"
              /\ \/ c.operations = {} \/ c.operations = {"OP_COMPRESS"}
                 \/ c.operations = {"OP_ENCRYPT"} \/ c.operations = {"OP_COMPRESS", "OP_ENCRYPT"}
<1>1. stage[u] = Len(Stages(config[u].operations)) BY DEF IsLast
<1>2. /\ Stages({}) = <<"STAGE_COPY">>
      /\ Stages({"OP_COMPRESS"}) = <<"STAGE_COMPRESS">>
      /\ Stages({"OP_ENCRYPT"}) = <<"STAGE_ENCRYPT">>
      /\ Stages({"OP_COMPRESS", "OP_ENCRYPT"}) = <<"STAGE_COMPRESS", "STAGE_ENCRYPT">>
  BY DEF Stages
<1>3. \/ config[u].operations = {} \/ config[u].operations = {"OP_COMPRESS"}
      \/ config[u].operations = {"OP_ENCRYPT"}
      \/ config[u].operations = {"OP_COMPRESS", "OP_ENCRYPT"}
  BY DEF Packs
<1>4. /\ {"OP_COMPRESS"} # {} /\ {"OP_ENCRYPT"} # {} /\ {"OP_COMPRESS", "OP_ENCRYPT"} # {}
      /\ {"OP_COMPRESS"} # {"OP_ENCRYPT"}
      /\ {"OP_COMPRESS", "OP_ENCRYPT"} # {"OP_COMPRESS"}
      /\ {"OP_COMPRESS", "OP_ENCRYPT"} # {"OP_ENCRYPT"}
  <2>1. "OP_ENCRYPT" \notin {"OP_COMPRESS"} /\ "OP_COMPRESS" \notin {"OP_ENCRYPT"} OBVIOUS
  <2> QED BY <2>1
<1>5. Stage(u) = Stages(config[u].operations)[Len(Stages(config[u].operations))]
  BY <1>1 DEF Stage
<1> DEFINE ops == config[u].operations
<1> HIDE DEF ops
<1>6. CASE ops = {}
  <2>1. Stages(ops) = <<"STAGE_COPY">> BY <1>2, <1>6
  <2>2. Stage(u) = "STAGE_COPY" /\ stage[u] = 1 BY <1>1, <1>5, <2>1 DEF ops
  <2> QED BY <1>4, <1>6, <2>2 DEF ops
<1>7. CASE ops = {"OP_COMPRESS"}
  <2>1. Stages(ops) = <<"STAGE_COMPRESS">> BY <1>2, <1>7
  <2>2. Stage(u) = "STAGE_COMPRESS" /\ stage[u] = 1 BY <1>1, <1>5, <2>1 DEF ops
  <2> QED BY <1>4, <1>7, <2>2 DEF ops
<1>8. CASE ops = {"OP_ENCRYPT"}
  <2>1. Stages(ops) = <<"STAGE_ENCRYPT">> BY <1>2, <1>8
  <2>2. Stage(u) = "STAGE_ENCRYPT" /\ stage[u] = 1 BY <1>1, <1>5, <2>1 DEF ops
  <2> QED BY <1>4, <1>8, <2>2 DEF ops
<1>9. CASE ops = {"OP_COMPRESS", "OP_ENCRYPT"}
  <2>1. Stages(ops) = <<"STAGE_COMPRESS", "STAGE_ENCRYPT">> BY <1>2, <1>9
  <2>2. Stage(u) = "STAGE_ENCRYPT" /\ stage[u] = 2 /\ Stages(ops)[1] = "STAGE_COMPRESS"
    BY <1>1, <1>5, <2>1 DEF ops
  <2> QED BY <1>4, <1>9, <2>2 DEF ops
<1> QED BY <1>3, <1>6, <1>7, <1>8, <1>9 DEF ops

(* Everything a call that packs has made so far, in its output or still to be *)
(* written to it, is such that any beginning of it is a part made.            *)
LEMMA LoopMakesPart ==
    ASSUME Inv, NEW u \in Worker, Progress(u), pc[u] = "loop", IsLast(u),
           Packs(config[u]), NEW out \in Seq(Unit),
           Beginning(out, data[OutputOf[u]] \o pending[u])
    PROVE  PartMade(config[u], data[InputOf[u]], out)
<1> DEFINE c == config[u]
           in == data[InputOf[u]]
           s == data[Source(u)]
           at == inOff[u]
           read == SubSeq(s, 1, at)
           whole == data[OutputOf[u]] \o pending[u]
           K == c.keyLen
<1>1. pc[u] \in InStage BY DEF InStage, Busy
<1>2. Target(u) = OutputOf[u] BY DEF Target
<1>3. /\ s \in Seq(Unit) /\ data[OutputOf[u]] \in Seq(Unit) /\ pending[u] \in Seq(Unit)
      /\ at \in Nat /\ K \in Nat /\ c.comp_alg \in Nat /\ Len(s) \in Nat
  BY <1>1, <1>2, AtHand
<1>4. in \in Seq(Unit) BY Names DEF Inv, TypeOK
<1>5. whole \in Seq(Unit) BY <1>3, ConcatProperties
<1>6. LoopOf(Stage(u), c, s, at, keyIndex[u], whole)
  BY <1>2 DEF Progress, Advanced
<1>7. at <= Len(s) BY <1>6 DEF LoopOf
<1>8. Stage(u) # "STAGE_DECOMPRESS" => MakesSoFar(Stage(u), c, read, whole)
  BY <1>6 DEF LoopOf
<1>9. Stage(u) = "STAGE_ENCRYPT" => K \in Nat \ {0}
  BY <1>3 DEF Inv, Control, Ciphering
<1>10. Staged(u) BY DEF Progress
<1>11. read \in Seq(Unit) BY <1>3, <1>7, ReadOn
<1>12. at \in 0 .. Len(s) BY <1>3, <1>7
<1>13. Beginning(out, whole) OBVIOUS
<1>14. stage[u] = 1 => s = in BY <1>10 DEF Staged, Source
<1>15. stage[u] = 2 => Makes(Stages(c.operations)[1], c, in, s)
  BY <1>10 DEF Staged, Working, Busy, Source
<1>16. /\ c.operations = {} => Stage(u) = "STAGE_COPY" /\ stage[u] = 1
       /\ c.operations = {"OP_COMPRESS"} => Stage(u) = "STAGE_COMPRESS" /\ stage[u] = 1
       /\ c.operations = {"OP_ENCRYPT"} => Stage(u) = "STAGE_ENCRYPT" /\ stage[u] = 1
       /\ c.operations = {"OP_COMPRESS", "OP_ENCRYPT"}
             => /\ Stage(u) = "STAGE_ENCRYPT" /\ stage[u] = 2
                /\ Stages(c.operations)[1] = "STAGE_COMPRESS"
       /\ \/ c.operations = {} \/ c.operations = {"OP_COMPRESS"}
          \/ c.operations = {"OP_ENCRYPT"} \/ c.operations = {"OP_COMPRESS", "OP_ENCRYPT"}
  BY PackStages
<1> HIDE DEF c, in, s, at, whole, K
<1>17. CASE c.operations = {}
  <2>1. whole = read BY <1>8, <1>16, <1>17 DEF MakesSoFar
  <2>2. Beginning(out, in) BY <1>4, <1>12, <1>13, <1>14, <1>16, <1>17, <2>1, BeginningOn
  <2>3. Deciphered(c, out) = out BY <1>17 DEF Deciphered
  <2> QED BY <1>17, <2>2, <2>3 DEF PartMade, c, in
<1>18. CASE c.operations = {"OP_COMPRESS"}
  <2>1. StreamSoFar(whole, c.comp_alg, read) BY <1>8, <1>16, <1>18 DEF MakesSoFar
  <2>2. Carries(whole, c.comp_alg, SubSeq(in, 1, at)) /\ at \in 0 .. Len(in)
    BY <1>12, <1>14, <1>16, <1>18, <2>1 DEF StreamSoFar
  <2>3. Deciphered(c, out) = out BY <1>18 DEF Deciphered
  <2> QED BY <1>5, <1>13, <1>18, <2>2, <2>3 DEF PartMade, c, in
<1>19. CASE c.operations = {"OP_ENCRYPT"} \/ c.operations = {"OP_COMPRESS", "OP_ENCRYPT"}
  <2>1. Stage(u) = "STAGE_ENCRYPT" /\ K \in Nat \ {0} BY <1>9, <1>16, <1>19
  <2>2. whole = Encrypted(read, K) BY <1>8, <2>1 DEF MakesSoFar, K
  <2>3. Beginning(Encrypted(out, K), read)
    BY <1>11, <1>13, <2>1, <2>2, DecipheredBeginning
  <2>4. Encrypted(out, K) \in Seq(Unit) BY <2>1, XorFromType DEF Encrypted
  <2>5. Beginning(Encrypted(out, K), s) BY <1>3, <1>12, <2>3, <2>4, BeginningOn
  <2>6. Deciphered(c, out) = Encrypted(out, K) BY <1>19 DEF Deciphered, K
  <2>7. c.keyLen > 0 BY <2>1 DEF K
  <2>8. CASE c.operations = {"OP_ENCRYPT"}
    <3>1. Beginning(Deciphered(c, out), in) BY <1>14, <1>16, <2>5, <2>6, <2>8
    <3> QED BY <2>7, <2>8, <3>1 DEF PartMade, c, in
  <2>9. CASE c.operations = {"OP_COMPRESS", "OP_ENCRYPT"}
    <3>1. IsStreamOf(s, c.comp_alg, in) BY <1>15, <1>16, <2>9 DEF Makes
    <3>2. SubSeq(in, 1, Len(in)) = in /\ Len(in) \in 0 .. Len(in)
      BY <1>4, SubSeqFull, LenProperties
    <3>3. Carries(s, c.comp_alg, SubSeq(in, 1, Len(in))) BY <3>1, <3>2, StreamHalves
    <3> QED BY <1>3, <2>5, <2>6, <2>7, <2>9, <3>2, <3>3 DEF PartMade, c, in
  <2> QED BY <1>19, <2>8, <2>9
<1> QED BY <1>16, <1>17, <1>18, <1>19

(* What its own steps do to the output.                                       *)
LEMMA OwnBegun ==
    ASSUME FaithfulInv, NEW u \in Worker, Progress(u), Begun(u), CallStep(u)
    PROVE  Begun(u)'
<1> USE DEF Goto
<1> DEFINE c == config[u]
           in == data[InputOf[u]]
           t == OutputOf[u]
<1>1. Inv /\ TypeOK /\ Progress(u) BY DEF FaithfulInv, Inv
<1>2. config' = config /\ start' = start BY <1>1, OthersUnmoved
<1>3. t \in FileName /\ t \notin TempName /\ t \notin Owned(u) BY <1>1, Names
<1>4. CASE Unchanged(t)
  <2> SUFFICES ASSUME Touched(u)', Packs(c) PROVE PartMade(c, data'[InputOf[u]], data'[t])
    BY <1>2 DEF Begun
  <2>1. Touched(u) BY <1>2, <1>4 DEF Touched, Unchanged
  <2>2. PartMade(c, in, data[t]) BY <2>1 DEF Begun
  <2>3. \A v \in Waits[u] : pc[v] \in Ended BY <1>1, <2>1 DEF Progress, Accepted
  <2>4. data'[InputOf[u]] = in BY <1>1, <2>3, InputStays DEF Same
  <2> QED BY <1>4, <2>2, <2>4 DEF Unchanged
<1>5. CASE ~Unchanged(t)
  <2>1. t = Target(u) /\ pc[u] \in {"create", "loop"} /\ pc'[u] \in {"loop", "stagefail"}
    BY <1>1, <1>3, <1>5, Confinement
  <2>2. \A v \in Waits[u] : pc[v] \in Ended BY <1>1, <2>1, AcceptedBefore
  <2>3. data'[InputOf[u]] = in BY <1>1, <2>2, InputStays DEF Same
  <2>4. IsLast(u)
    <3>1. pc[u] \in InStage BY <2>1 DEF InStage, Busy
    <3>2. next[u] \in TempName \cup {NoTemp} /\ t # NoTemp BY <1>1, Names
    <3> QED BY <1>3, <2>1, <3>1, <3>2 DEF Target, Owned
  <2> SUFFICES ASSUME Packs(c) PROVE PartMade(c, in, data'[t])
    BY <1>2, <2>3 DEF Begun
  <2>5. in \in Seq(Unit) /\ c \in Config BY <1>1, Names, SourceAndTarget DEF TypeOK
  <2>6. pending[u] \in Seq(Unit) /\ data[t] \in Seq(Unit) BY <1>1, <1>3 DEF TypeOK
  <2>7. data' \in [FileName -> Seq(Unit)]
    <3>1. [Next]_vars BY DEF Next, CallStep
    <3> QED BY <1>1, <3>1, StepTypes DEF TypeOK
  <2>8. pc[u] = "loop" => outOff[u] = Len(data[t])
    BY <1>1, <2>1 DEF Progress, Advanced
  <2>9. CASE CreateOutput(u)
    <3>1. data'[t] = <<>> BY <1>1, <1>3, <2>1, <2>9 DEF CreateOutput, TypeOK
    <3>2. "OP_ENCRYPT" \in c.operations => c.keyLen > 0
      <4>1. "OP_ENCRYPT" \in c.operations => Stage(u) = "STAGE_ENCRYPT"
        BY <1>1, <2>4, PackStages
      <4> QED BY <1>1, <2>1, <4>1 DEF Inv, Control, Ciphering
    <3> QED BY <2>5, <3>1, <3>2, NothingMade
  <2>10. CASE Write(u)
    <3>1. PICK n \in 1 .. Len(pending[u]) :
             data' = [data EXCEPT ![Target(u)] =
                        WriteAt(@, outOff[u], SubSeq(pending[u], 1, n))]
      BY <2>10 DEF Write
    <3>2. pc[u] = "loop" BY <2>10 DEF Write
    <3>3. data'[t] = WriteAt(data[t], Len(data[t]), SubSeq(pending[u], 1, n))
      BY <1>1, <1>3, <2>1, <2>8, <3>1, <3>2 DEF TypeOK
    <3>4. Beginning(data'[t], data[t] \o pending[u]) BY <2>6, <3>3, WrittenBegins
    <3>5. data'[t] \in Seq(Unit) BY <1>3, <2>7
    <3> QED BY <1>1, <2>4, <3>2, <3>4, <3>5, LoopMakesPart
  <2>11. CASE TornWrite(u)
    <3>1. /\ pc[u] = "loop" /\ pending[u] # <<>> /\ Tearable(Head(pending[u]))
          /\ data' = [data EXCEPT ![Target(u)] =
                        WriteAt(@, outOff[u], <<Torn(Head(pending[u]))>>)]
      BY <2>11 DEF TornWrite
    <3>2. data'[t] = WriteAt(data[t], Len(data[t]), <<Torn(Head(pending[u]))>>)
      BY <1>1, <1>3, <2>1, <2>8, <3>1 DEF TypeOK
    <3>3. Beginning(data'[t], data[t] \o pending[u]) BY <2>6, <3>1, <3>2, WrittenBegins
    <3>4. data'[t] \in Seq(Unit) BY <1>3, <2>7
    <3> QED BY <1>1, <2>4, <3>1, <3>3, <3>4, LoopMakesPart
  <2>12. ~(UNCHANGED <<files, data>>) BY <1>5 DEF Unchanged
  <2>13. CASE Call(u) \/ ChooseOutput(u) \/ CreateTemp(u) \/ TempFails(u) \/ OpenInput(u)
    BY <2>1, <2>13 DEF Call, ChooseOutput, CreateTemp, TempFails, OpenInput
  <2>14. CASE ReadStreamHeader(u) \/ DecodeLegacy(u) \/ RefuseLegacy(u) \/ ReadChunk(u)
    BY <2>12, <2>14 DEF ReadStreamHeader, DecodeLegacy, RefuseLegacy, ReadChunk
  <2>15. CASE ReadRecord(u) BY <2>12, <2>15 DEF ReadRecord
  <2>16. CASE EndOfInput(u) \/ StageFault(u) BY <2>12, <2>16 DEF EndOfInput, StageFault
  <2>17. CASE StageOk(u) \/ StageFail(u) BY <2>1, <2>17 DEF StageOk, StageFail
  <2> QED BY <2>9, <2>10, <2>11, <2>13, <2>14, <2>15, <2>16, <2>17 DEF CallStep, Step
<1> QED BY <1>4, <1>5

(* Steps of others do not matter.                                             *)
LEMMA UndisturbedBegun ==
    ASSUME Inv, NEW u \in Worker, Progress(u), Begun(u), Undisturbed(u)
    PROVE  Begun(u)'
<1>1. config' = config /\ start' = start /\ Same(OutputOf[u]) BY DEF Undisturbed
<1>2. Touched(u)' <=> Touched(u) BY <1>1 DEF Touched, Same
<1>3. Touched(u) => Same(InputOf[u]) BY DEF Undisturbed, Progress, Accepted
<1> QED BY <1>1, <1>2, <1>3 DEF Begun, Same

LEMMA DamageInvariance == Spec => []DamageInv
<1>1. Init => DamageInv
  <2> SUFFICES ASSUME Init, NEW w \in Worker PROVE Begun(w)
    BY InitFaithful DEF DamageInv
  <2>1. ~Touched(w) BY DEF Init, Touched
  <2> QED BY <2>1 DEF Begun
<1>2. DamageInv /\ [Next]_vars => DamageInv'
  <2> SUFFICES ASSUME DamageInv, [Next]_vars, NEW u \in Worker, Packs(config[u])'
               PROVE  Begun(u)'
    BY FaithfulStep DEF DamageInv, Begun
  <2>0. config' = config
    <3>1. Inv /\ TypeOK BY DEF DamageInv, FaithfulInv, Inv
    <3>2. CASE \E w \in Worker : CallStep(w) BY <3>1, <3>2, OthersUnmoved
    <3>3. CASE \E p \in Process : Crash(p) BY <3>3 DEF Crash
    <3>4. CASE UNCHANGED vars BY <3>4 DEF vars
    <3> QED BY <3>2, <3>3, <3>4 DEF Next, CallStep
  <2>1. FaithfulInv /\ Inv /\ Progress(u) /\ Begun(u)
    BY <2>0, PacksKnown DEF DamageInv, FaithfulInv
  <2>2. ASSUME NEW w \in Worker, CallStep(w) PROVE Begun(u)'
    <3>1. CASE u = w BY <2>1, <2>2, <3>1, OwnBegun
    <3>2. CASE u # w
      <4>1. w \in Worker \ {u} BY <3>2
      <4>2. Undisturbed(u) BY <2>1, <2>2, <4>1, OthersUndisturbed
      <4> QED BY <2>1, <4>2, UndisturbedBegun
    <3> QED BY <3>1, <3>2
  <2>3. ASSUME NEW p \in Process, Crash(p) PROVE Begun(u)'
    BY <2>1, <2>3, CrashUndisturbed, UndisturbedBegun
  <2>4. CASE UNCHANGED vars
    <3>1. Undisturbed(u) BY <2>4 DEF vars, Undisturbed, Same
    <3> QED BY <2>1, <3>1, UndisturbedBegun
  <2> QED BY <2>2, <2>3, <2>4 DEF Next, CallStep
<1> QED BY <1>1, <1>2, PTL DEF Spec

(* What the inverse of a packing configuration does.                          *)
LEMMA InverseUndoes ==
    ASSUME NEW c \in Config, Packs(c), NEW mid, NEW out,
           TransformedBy(InverseOf(c), mid, out)
    PROVE  IF "OP_COMPRESS" \in c.operations
           THEN Decompresses(Deciphered(c, mid), c.comp_alg, out)
           ELSE out = Deciphered(c, mid)
<1> DEFINE d == InverseOf(c)
           Inverted(op) == CASE op = "OP_COMPRESS" -> "OP_DECOMPRESS"
                             [] op = "OP_ENCRYPT" -> "OP_DECRYPT"
                             [] op = "OP_DECOMPRESS" -> "OP_COMPRESS"
                             [] OTHER -> "OP_ENCRYPT"
<1>1. d.operations = {Inverted(op) : op \in c.operations} BY DEF InverseOf, Config
<1>2. d.keyLen = c.keyLen /\ d.comp_alg = c.comp_alg BY DEF InverseOf, Config
<1>3. Inverted("OP_COMPRESS") = "OP_DECOMPRESS" /\ Inverted("OP_ENCRYPT") = "OP_DECRYPT"
  OBVIOUS
<1> HIDE DEF d, Inverted
<1>4. TransformedBy(d, mid, out) BY DEF d
<1>5. \/ c.operations = {} \/ c.operations = {"OP_COMPRESS"} \/ c.operations = {"OP_ENCRYPT"}
      \/ c.operations = {"OP_COMPRESS", "OP_ENCRYPT"}
  BY DEF Packs
<1>6. CASE c.operations = {}
  <2>1. d.operations = {} BY <1>1, <1>6
  <2>2. Stages(d.operations) = <<"STAGE_COPY">> BY <2>1 DEF Stages
  <2>3. out = mid BY <1>4, <2>2 DEF TransformedBy
  <2> QED BY <1>6, <2>3 DEF Deciphered
<1>7. CASE c.operations = {"OP_COMPRESS"}
  <2>1. d.operations = {"OP_DECOMPRESS"} BY <1>1, <1>3, <1>7
  <2>2. Stages(d.operations) = <<"STAGE_DECOMPRESS">> BY <2>1 DEF Stages
  <2>3. Decompresses(mid, c.comp_alg, out) BY <1>2, <1>4, <2>2 DEF TransformedBy
  <2> QED BY <1>7, <2>3 DEF Deciphered
<1>8. CASE c.operations = {"OP_ENCRYPT"}
  <2>1. d.operations = {"OP_DECRYPT"} BY <1>1, <1>3, <1>8
  <2>2. Stages(d.operations) = <<"STAGE_DECRYPT">> BY <2>1 DEF Stages
  <2>3. out = Encrypted(mid, c.keyLen) BY <1>2, <1>4, <2>2 DEF TransformedBy
  <2> QED BY <1>8, <2>3 DEF Deciphered
<1>9. CASE c.operations = {"OP_COMPRESS", "OP_ENCRYPT"}
  <2>1. d.operations = {"OP_DECOMPRESS", "OP_DECRYPT"} BY <1>1, <1>3, <1>9
  <2>2. Stages(d.operations) = <<"STAGE_DECRYPT", "STAGE_DECOMPRESS">>
    BY <2>1 DEF Stages
  <2>3. Decompresses(Encrypted(mid, c.keyLen), c.comp_alg, out)
    BY <1>2, <1>4, <2>2 DEF TransformedBy
  <2> QED BY <1>9, <2>3 DEF Deciphered
<1> QED BY <1>5, <1>6, <1>7, <1>8, <1>9

(* A stream that is the beginning of one that was being made of x, cut        *)
(* anywhere, is a stream of a beginning of x.                                 *)
LEMMA DamagedStream ==
    ASSUME NEW whole \in Seq(Unit), NEW mid \in Seq(Unit), NEW x \in Seq(Unit),
           NEW out \in Seq(Unit), NEW alg \in Nat,
           Carries(whole, alg, x), Beginning(mid, whole), IsStreamOf(mid, alg, out)
    PROVE  Beginning(out, x)
<1> DEFINE l == CodecLayer(alg)
           P == Payload(alg, mid)
           W == Payload(alg, whole)
<1>1. l \in Layer /\ l.kind = "codec" BY CodecLayerType DEF CodecLayer
<1>2. Len(mid) \in Nat /\ Len(whole) \in Nat /\ Len(mid) <= Len(whole)
      /\ Len(out) \in Nat /\ Len(x) \in Nat
  BY LenProperties DEF Beginning
<1> HIDE DEF l
<1>3. ASSUME NEW u \in Unit, Outermost(u, l) PROVE ~Tearable(u)
  <2>1. u.layers \in Seq(Layer) BY DEF Unit, Layers
  <2>2. u.layers # <<>> /\ Head(u.layers) = l BY <1>3 DEF Outermost
  <2>3. Len(u.layers) \in Nat \ {0} /\ u.layers[1] = l
    BY <2>1, <2>2, HeadTailProperties, EmptySeq
  <2>4. 1 \in 1 .. Len(u.layers) /\ u.layers[1].kind = "codec" BY <1>1, <2>3
  <2> QED BY <2>4 DEF Tearable
<1>4. ASSUME NEW i \in 1 .. Len(mid)
      PROVE  /\ i \in P <=> i \in W
             /\ i \in P => mid[i] = whole[i]
  <2>1. i \in 1 .. Len(whole) /\ mid[i] \in Unit /\ whole[i] \in Unit
    BY <1>2, ElementOfSeq
  <2>2. CASE mid[i] = whole[i] BY <2>1, <2>2 DEF Payload
  <2>3. CASE Tearable(whole[i]) /\ mid[i] = Torn(whole[i])
    <3>1. mid[i].layers = whole[i].layers BY <2>1, <2>3 DEF Torn, Unit
    <3>2. ~Outermost(whole[i], l) BY <1>3, <2>1, <2>3
    <3>3. ~Outermost(mid[i], l) BY <3>1, <3>2 DEF Outermost
    <3> QED BY <2>1, <3>2, <3>3 DEF Payload, l
  <2> QED BY <2>2, <2>3 DEF Beginning
<1>5. P \subseteq 1 .. Len(mid) BY DEF Payload
<1>6. ASSUME NEW i \in P PROVE Rank(alg, mid, i) = Rank(alg, whole, i)
  <2>1. ASSUME NEW h, h <= i PROVE h \in P <=> h \in W
    <3>1. h \in P \cup W => h \in 1 .. Len(whole) BY <1>2 DEF Payload
    <3>2. h \in P \cup W => h \in 1 .. Len(mid) BY <1>2, <1>5, <2>1, <3>1
    <3> QED BY <1>4, <3>2
  <2>2. {h \in P : h <= i} = {h \in W : h <= i} BY <2>1
  <2> QED BY <2>2 DEF Rank
<1>7. /\ {Rank(alg, mid, i) : i \in P} = 1 .. Len(out)
      /\ \A i \in P : mid[i] = Pushed(out[Rank(alg, mid, i)], l)
      /\ {Rank(alg, whole, i) : i \in W} = 1 .. Len(x)
      /\ \A i \in W : whole[i] = Pushed(x[Rank(alg, whole, i)], l)
  BY DEF IsStreamOf, Carries, l
<1> HIDE DEF P, W
<1>8. ASSUME NEW r \in 1 .. Len(out) PROVE r \in 1 .. Len(x) /\ out[r] = x[r]
  <2>1. PICK i \in P : Rank(alg, mid, i) = r BY <1>7
  <2>2. i \in W /\ mid[i] = whole[i] BY <1>4, <1>5
  <2>3. Rank(alg, whole, i) = r BY <1>6, <2>1
  <2>4. r \in 1 .. Len(x) BY <1>7, <2>2, <2>3
  <2>5. Pushed(out[r], l) = Pushed(x[r], l) BY <1>7, <2>1, <2>2, <2>3
  <2>6. out[r] \in Unit /\ x[r] \in Unit BY <2>4, ElementOfSeq
  <2>7. Popped(Pushed(out[r], l)) = out[r] /\ Popped(Pushed(x[r], l)) = x[r]
    BY <1>1, <2>6, LayerUndone
  <2> QED BY <2>4, <2>5, <2>7
<1>9. Len(out) <= Len(x)
  <2>1. CASE Len(out) = 0 BY <1>2, <2>1
  <2>2. CASE Len(out) # 0
    <3>1. Len(out) \in 1 .. Len(out) BY <1>2, <2>2
    <3> QED BY <1>8, <3>1
  <2> QED BY <2>1, <2>2
<1> QED BY <1>8, <1>9 DEF Beginning

(* Undoing what a call left when it failed or was killed, wherever that was,  *)
(* gives a beginning of the original if there is enough to be recognised: the *)
(* header of the stream, read as a whole, for a compression, nothing for the  *)
(* others.                                                                    *)
THEOREM DamagedGivesBeginning == Spec => []DamagedGivesPrefix
<1>1. DamageInv => DamagedGivesPrefix
  <2> SUFFICES ASSUME DamageInv, NEW v \in Worker, NEW w \in Worker,
                      Undoes(w, v), pc[w] = "done", w \notin misread, Touched(v),
                      Recognised(config[v], data[OutputOf[v]])
               PROVE  Beginning(data[OutputOf[w]], data[InputOf[v]])
    BY DEF DamagedGivesPrefix
  <2> DEFINE c == config[v]
             in == data[InputOf[v]]
             mid == data[OutputOf[v]]
             out == data[OutputOf[w]]
             plain == Deciphered(c, mid)
  <2>1. Inv /\ Begun(v) /\ Transformed(w)
    BY DEF DamageInv, FaithfulInv, Known, Progress, Done
  <2>2. /\ InputOf[v] \in FileName /\ OutputOf[v] \in FileName /\ OutputOf[w] \in FileName
    BY <2>1, Names
  <2>3. in \in Seq(Unit) /\ mid \in Seq(Unit) /\ out \in Seq(Unit)
    BY <2>1, <2>2 DEF Inv, TypeOK
  <2>4. c \in Config /\ c.comp_alg \in Nat /\ c.keyLen \in Nat
    BY <2>1, SourceAndTarget DEF Config
  <2>5. Packs(c) /\ TransformedBy(InverseOf(c), mid, out)
    BY <2>1 DEF Undoes, Transformed
  <2>6. PartMade(c, in, mid) BY <2>1, <2>5 DEF Begun
  <2>7. Recognised(c, mid) OBVIOUS
  <2> HIDE DEF c, in, mid, out
  <2>8. plain \in Seq(Unit)
    <3>1. "OP_ENCRYPT" \in c.operations => c.keyLen \in Nat \ {0}
      BY <2>4, <2>6 DEF PartMade
    <3> QED BY <2>3, <3>1, XorFromType DEF Deciphered, Encrypted
  <2>9. CASE "OP_COMPRESS" \in c.operations
    <3>1. PICK whole \in Seq(Unit), n \in 0 .. Len(in) :
             Carries(whole, c.comp_alg, SubSeq(in, 1, n)) /\ Beginning(plain, whole)
      BY <2>6, <2>9 DEF PartMade
    <3>2. IsStream(plain) BY <2>7, <2>9 DEF Recognised, Deciphered
    <3>3. Decompresses(plain, c.comp_alg, out) BY <2>4, <2>5, <2>9, InverseUndoes
    <3>4. IsStreamOf(plain, c.comp_alg, out) BY <3>2, <3>3 DEF Decompresses
    <3>5. n \in Nat /\ 0 + n <= Len(in) /\ 0 + n = n BY <2>3, LenProperties
    <3>6. SubSeq(in, 1, n) \in Seq(Unit) BY <2>3, <3>5, ReadOn
    <3>7. Beginning(out, SubSeq(in, 1, n))
      BY <2>3, <2>4, <2>8, <3>1, <3>4, <3>6, DamagedStream
    <3>8. Beginning(out, in) BY <2>3, <3>7, BeginningOn
    <3> QED BY <3>8 DEF out, in
  <2>10. CASE "OP_COMPRESS" \notin c.operations
    <3>1. out = plain BY <2>4, <2>5, <2>10, InverseUndoes
    <3>2. Beginning(out, in) BY <2>6, <2>10, <3>1 DEF PartMade
    <3> QED BY <3>2 DEF out, in
  <2> QED BY <2>9, <2>10
<1> QED BY <1>1, DamageInvariance, PTL

(**************************** the abstract promise ***************************)

(* What the abstract specification sees of a call.                            *)
StatusSeen(w) == StatusOf(pc[w])
CompleteSeen(w) ==
    StatusOf(pc[w]) \in {"running", "ok"} /\ (Transformed(w) \/ w \in misread)

(* The steps of a call are not seen of the others.                            *)
LEMMA OthersUnseen ==
    ASSUME Inv, NEW u \in Worker, Known(u), Undisturbed(u)
    PROVE  /\ Touched(u)' <=> Touched(u)
           /\ pc'[u] = pc[u] => (CompleteSeen(u)' <=> CompleteSeen(u))
<1>1. config' = config /\ start' = start /\ Same(OutputOf[u]) BY DEF Undisturbed
<1>2. Touched(u)' <=> Touched(u) BY <1>1 DEF Touched, Same
<1>3. ASSUME pc'[u] = pc[u] PROVE CompleteSeen(u)' <=> CompleteSeen(u)
  <2>0. u \in misread' <=> u \in misread BY DEF Undisturbed
  <2>1. CASE StatusOf(pc[u]) \in {"running", "ok"}
    <3>1. pc[u] \in {"idle"} \cup Busy \cup Ended BY DEF Inv, TypeOK
    <3>2. pc[u] \in Busy \cup {"done"} BY <2>1, <3>1 DEF StatusOf, Ended
    <3>3. \A v \in Waits[u] : pc[v] \in Ended
      BY <3>2 DEF Inv, Control, Known, Misled, Progress, Done
    <3>4. Same(InputOf[u]) BY <3>3 DEF Undisturbed
    <3>5. Transformed(u)' <=> Transformed(u) BY <1>1, <3>4 DEF Transformed, Same, Keyed
    <3> QED BY <1>3, <2>0, <3>5 DEF CompleteSeen
  <2>2. CASE StatusOf(pc[u]) \notin {"running", "ok"} BY <1>3, <2>2 DEF CompleteSeen
  <2> QED BY <2>1, <2>2
<1> QED BY <1>2, <1>3

(* What a step of a call is to the abstract specification.                    *)
LEMMA OwnSeen ==
    ASSUME FaithfulInv, FaithfulInv', NEW w \in Worker, CallStep(w)
    PROVE  \/ /\ StatusSeen(w) = "idle" /\ StatusSeen(w)' = "running"
              /\ Touched(w)' <=> Touched(w)
           \/ StatusSeen(w) = "running" /\ StatusSeen(w)' = "running"
           \/ /\ StatusSeen(w) = "running" /\ StatusSeen(w)' = "ok"
              /\ CompleteSeen(w) /\ CompleteSeen(w)' /\ (Touched(w)' <=> Touched(w))
           \/ /\ StatusSeen(w) = "running" /\ StatusSeen(w)' = "failed"
              /\ ~CompleteSeen(w)' /\ (Touched(w)' <=> Touched(w))
<1> USE DEF Goto
<1>1. Inv /\ TypeOK /\ Known(w) BY DEF FaithfulInv, Inv
<1>2. config' = config /\ start' = start BY <1>1, OthersUnmoved
<1>3. CASE Call(w)
  <2>1. pc[w] = "idle" /\ pc'[w] = "stage" /\ files' = files /\ data' = data
    BY <1>1, <1>3 DEF Call, TypeOK
  <2> QED BY <1>2, <2>1 DEF StatusSeen, StatusOf, Touched
<1>4. CASE TempFails(w) \/ StageFail(w) \/ StageOk(w)
  <2>1. \/ Unlink({temp[w]} \ {NoTemp}) \/ Unlink(Discarded(w))
    BY <1>4 DEF TempFails, StageOk, StageFail
  <2>2. {temp[w]} \ {NoTemp} \subseteq Owned(w) /\ Discarded(w) \subseteq Owned(w)
    BY DEF Owned, Discarded
  <2>3. /\ OutputOf[w] \in FileName /\ OutputOf[w] \notin TempName
        /\ Owned(w) \subseteq TempName
    BY <1>1, Names
  <2>4. data'[OutputOf[w]] = data[OutputOf[w]] /\ (OutputOf[w] \in files' <=> OutputOf[w] \in files)
    BY <2>1, <2>2, <2>3 DEF Unlink
  <2>5. Touched(w)' <=> Touched(w) BY <1>2, <2>4 DEF Touched
  <2>6. CASE TempFails(w) \/ StageFail(w)
    <3>1. pc[w] \in {"stage", "stagefail"} /\ pc'[w] = "failed"
      BY <1>1, <2>6 DEF TempFails, StageFail, TypeOK
    <3> QED BY <2>5, <3>1 DEF StatusSeen, StatusOf, CompleteSeen
  <2>7. CASE StageOk(w) /\ IsLast(w)
    <3>1. pc[w] = "stageok" /\ pc'[w] = "done" BY <1>1, <2>7 DEF StageOk, TypeOK
    <3>2. misread' = misread BY <2>7 DEF StageOk
    <3>3. Transformed(w) \/ w \in misread
      BY <1>1, <2>7, <3>1, StagesTransform DEF Known
    <3>4. Transformed(w)' \/ w \in misread'
      BY <3>1 DEF FaithfulInv, Known, Progress, Done
    <3> QED BY <2>5, <3>1, <3>2, <3>3, <3>4 DEF StatusSeen, StatusOf, CompleteSeen
  <2>8. CASE StageOk(w) /\ ~IsLast(w)
    <3>1. pc[w] = "stageok" /\ pc'[w] = "stage" BY <1>1, <2>8 DEF StageOk, TypeOK
    <3> QED BY <3>1 DEF StatusSeen, StatusOf
  <2> QED BY <1>4, <2>6, <2>7, <2>8
<1>5. CASE ~Call(w) /\ ~TempFails(w) /\ ~StageFail(w) /\ ~StageOk(w)
  <2>1. pc[w] \in Busy /\ pc'[w] \in Busy
    <3>1. CASE ChooseOutput(w) \/ CreateTemp(w) \/ OpenInput(w)
      BY <1>1, <3>1 DEF ChooseOutput, CreateTemp, OpenInput, TypeOK, Busy
    <3>2. CASE ReadStreamHeader(w) \/ DecodeLegacy(w) \/ RefuseLegacy(w) \/ CreateOutput(w)
      BY <1>1, <3>2 DEF ReadStreamHeader, HeaderVerdict, DecodeLegacy, RefuseLegacy,
                        CreateOutput, TypeOK, Busy
    <3>3. CASE ReadChunk(w) \/ Write(w) BY <1>1, <3>3 DEF ReadChunk, Write, Busy
    <3>4. CASE ReadRecord(w) BY <1>1, <3>4 DEF ReadRecord, TypeOK, Busy
    <3>5. CASE TornWrite(w) \/ StageFault(w) \/ EndOfInput(w)
      BY <1>1, <3>5 DEF TornWrite, StageFault, EndOfInput, TypeOK, Busy
    <3> QED BY <1>5, <3>1, <3>2, <3>3, <3>4, <3>5 DEF CallStep, Step
  <2>2. \A l \in Busy : StatusOf(l) = "running" BY DEF StatusOf, Busy
  <2> QED BY <2>1, <2>2 DEF StatusSeen
<1> QED BY <1>3, <1>4, <1>5

(* A step of a call is one of its steps in the abstract specification.        *)
LEMMA StepRefines ==
    ASSUME FaithfulInv, FaithfulInv', NEW w \in Worker, CallStep(w)
    PROVE  Abstract!TransformNext
<1> DEFINE status == [u \in Worker |-> StatusOf(pc[u])]
           touched == [u \in Worker |-> Touched(u)]
           complete == [u \in Worker |->
                          /\ StatusOf(pc[u]) \in {"running", "ok"}
                          /\ Transformed(u) \/ u \in misread]
<1>1. ASSUME NEW u \in Worker \ {w}
      PROVE  /\ status'[u] = status[u] /\ touched'[u] = touched[u]
             /\ complete'[u] = complete[u]
  <2>1. Inv /\ Known(u) BY DEF FaithfulInv
  <2>2. Undisturbed(u) BY <2>1, OthersUndisturbed
  <2>3. pc'[u] = pc[u] BY <2>1, OthersUnmoved DEF Inv
  <2>4. (Touched(u)' <=> Touched(u)) /\ (CompleteSeen(u)' <=> CompleteSeen(u))
    BY <2>1, <2>2, <2>3, OthersUnseen
  <2>5. touched'[u] = touched[u] BY <2>4 DEF Touched
  <2>6. complete'[u] = complete[u] BY <2>4 DEF CompleteSeen
  <2> QED BY <2>3, <2>5, <2>6
<1>2. /\ StatusSeen(w) = status[w] /\ StatusSeen(w)' = status'[w]
      /\ Touched(w) = touched[w] /\ Touched(w)' = touched'[w]
      /\ CompleteSeen(w) = complete[w] /\ CompleteSeen(w)' = complete'[w]
      /\ touched[w] \in BOOLEAN /\ touched'[w] \in BOOLEAN /\ complete'[w] \in BOOLEAN
  BY DEF StatusSeen, CompleteSeen, Touched
<1>3. /\ status' = [status EXCEPT ![w] = status'[w]]
      /\ touched' = [touched EXCEPT ![w] = touched'[w]]
      /\ complete' = [complete EXCEPT ![w] = complete'[w]]
  <2>1. status' = [status EXCEPT ![w] = status'[w]] BY <1>1
  <2>2. touched' = [touched EXCEPT ![w] = touched'[w]] BY <1>1
  <2>3. complete' = [complete EXCEPT ![w] = complete'[w]] BY <1>1
  <2> QED BY <2>1, <2>2, <2>3
<1>4. /\ touched'[w] = touched[w] => touched' = touched
      /\ status'[w] = status[w] => status' = status
      /\ complete'[w] = complete[w] => complete' = complete
  BY <1>3
<1> HIDE DEF status, touched, complete
<1>5. CASE /\ StatusSeen(w) = "idle" /\ StatusSeen(w)' = "running"
           /\ Touched(w)' <=> Touched(w)
  <2>1. /\ status[w] = "idle" /\ status' = [status EXCEPT ![w] = "running"]
        /\ touched' = touched
    BY <1>2, <1>3, <1>4, <1>5
  <2>2. Abstract!Begin(w) BY <1>2, <1>3, <2>1 DEF Abstract!Begin, status, touched, complete
  <2> QED BY <2>2 DEF Abstract!TransformNext
<1>6. CASE StatusSeen(w) = "running" /\ StatusSeen(w)' = "running"
  <2>1. status[w] = "running" /\ status' = status BY <1>2, <1>4, <1>6
  <2>2. Abstract!Produce(w)
    BY <1>2, <1>3, <2>1 DEF Abstract!Produce, status, touched, complete
  <2> QED BY <2>2 DEF Abstract!TransformNext
<1>7. CASE /\ StatusSeen(w) = "running" /\ StatusSeen(w)' = "ok"
           /\ CompleteSeen(w) /\ CompleteSeen(w)' /\ (Touched(w)' <=> Touched(w))
  <2>1. /\ status[w] = "running" /\ status' = [status EXCEPT ![w] = "ok"]
        /\ complete[w] /\ touched' = touched
    BY <1>2, <1>3, <1>4, <1>7
  <2>2. complete' = complete
    <3>1. complete[w] = TRUE /\ complete'[w] = TRUE BY <1>7 DEF CompleteSeen, complete
    <3> QED BY <1>4, <3>1
  <2>3. Abstract!Succeed(w) BY <2>1, <2>2 DEF Abstract!Succeed, status, touched, complete
  <2> QED BY <2>3 DEF Abstract!TransformNext
<1>8. CASE /\ StatusSeen(w) = "running" /\ StatusSeen(w)' = "failed"
           /\ ~CompleteSeen(w)' /\ (Touched(w)' <=> Touched(w))
  <2>1. /\ status[w] = "running" /\ status' = [status EXCEPT ![w] = "failed"]
        /\ touched' = touched
    BY <1>2, <1>3, <1>4, <1>8
  <2>2. complete' = [complete EXCEPT ![w] = FALSE]
    <3>1. complete'[w] = FALSE BY <1>8 DEF CompleteSeen, complete
    <3> QED BY <1>3, <3>1
  <2>3. Abstract!Fail(w) BY <2>1, <2>2 DEF Abstract!Fail, status, touched, complete
  <2> QED BY <2>3 DEF Abstract!TransformNext
<1> QED BY <1>5, <1>6, <1>7, <1>8, OwnSeen

(* The death of a process is its death in the abstract specification.         *)
LEMMA CrashRefines ==
    ASSUME FaithfulInv, NEW p \in Process, Crash(p)
    PROVE  Abstract!TransformNext
<1> DEFINE status == [u \in Worker |-> StatusOf(pc[u])]
           touched == [u \in Worker |-> Touched(u)]
           complete == [u \in Worker |->
                          /\ StatusOf(pc[u]) \in {"running", "ok"}
                          /\ Transformed(u) \/ u \in misread]
           never == {u \in Worker : ProcessOf[u] = p /\ status[u] = "idle"}
<1>1. /\ UNCHANGED <<files, data, config, start, misread>>
      /\ pc' = [u \in Worker |-> IF ProcessOf[u] = p /\ pc[u] \notin Ended
                                 THEN "crashed" ELSE pc[u]]
      /\ \E u \in Worker : ProcessOf[u] = p /\ pc[u] \in Busy
  BY DEF Crash
<1>2. \A u \in Worker : pc[u] \in {"idle"} \cup Busy \cup Ended BY DEF FaithfulInv, Inv, TypeOK
<1>3. /\ \A l \in Busy : StatusOf(l) = "running" /\ l \notin Ended
      /\ \A l \in Ended : StatusOf(l) \in {"ok", "failed", "crashed"}
      /\ StatusOf("idle") = "idle" /\ StatusOf("crashed") = "crashed" /\ "idle" \notin Ended
  BY DEF StatusOf, Busy, Ended
<1>4. \E u \in Worker : ProcessOf[u] = p /\ status[u] = "running"
  <2>1. PICK u \in Worker : ProcessOf[u] = p /\ pc[u] \in Busy BY <1>1
  <2> QED BY <1>3, <2>1
<1>5. ASSUME NEW u \in Worker
      PROVE  status'[u] = IF (ProcessOf[u] = p /\ status[u] = "running") \/ u \in never
                          THEN "crashed" ELSE status[u]
  <2>1. status'[u] = StatusOf(pc'[u]) /\ status[u] = StatusOf(pc[u]) OBVIOUS
  <2>2. pc'[u] = IF ProcessOf[u] = p /\ pc[u] \notin Ended THEN "crashed" ELSE pc[u]
    BY <1>1
  <2>3. pc[u] \notin Ended <=> status[u] = "idle" \/ status[u] = "running"
    BY <1>2, <1>3, <2>1
  <2> QED BY <1>3, <2>1, <2>2, <2>3
<1>6. ASSUME NEW u \in Worker
      PROVE  /\ touched'[u] = touched[u]
             /\ complete'[u] = (complete[u] /\ status'[u] # "crashed")
  <2>1. Inv /\ Known(u) BY DEF FaithfulInv
  <2>2. Undisturbed(u) BY <2>1, CrashUndisturbed
  <2>3. /\ Touched(u)' <=> Touched(u)
        /\ pc'[u] = pc[u] => (CompleteSeen(u)' <=> CompleteSeen(u))
    BY <2>1, <2>2, OthersUnseen
  <2>4. touched'[u] = touched[u] BY <2>3 DEF Touched
  <2>5. CASE pc'[u] = pc[u] /\ pc'[u] # "crashed"
    <3>1. CompleteSeen(u)' <=> CompleteSeen(u) BY <2>3, <2>5
    <3>2. status'[u] # "crashed"
      <4>1. pc'[u] \in {"idle"} \cup Busy \cup Ended BY <1>2, <2>5
      <4> QED BY <2>5, <4>1 DEF StatusOf, Busy, Ended
    <3> QED BY <2>4, <3>1, <3>2 DEF CompleteSeen
  <2>6. CASE pc'[u] = "crashed"
    <3>1. status'[u] = "crashed" BY <1>3, <2>6
    <3> QED BY <2>4, <3>1
  <2>7. pc'[u] = pc[u] \/ pc'[u] = "crashed" BY <1>1
  <2> QED BY <2>5, <2>6, <2>7
<1>7. /\ status' = [u \in Worker |->
                      IF (ProcessOf[u] = p /\ status[u] = "running") \/ u \in never
                      THEN "crashed" ELSE status[u]]
      /\ complete' = [u \in Worker |-> complete[u] /\ status'[u] # "crashed"]
      /\ touched' = touched
  <2>1. status' = [u \in Worker |->
                      IF (ProcessOf[u] = p /\ status[u] = "running") \/ u \in never
                      THEN "crashed" ELSE status[u]]
    BY <1>5
  <2>2. complete' = [u \in Worker |-> complete[u] /\ status'[u] # "crashed"] BY <1>6
  <2>3. touched' = touched BY <1>6
  <2> QED BY <2>1, <2>2, <2>3
<1>8. never \in SUBSET {u \in Worker : ProcessOf[u] = p /\ status[u] = "idle"} OBVIOUS
<1> HIDE DEF status, touched, complete, never
<1>9. Abstract!Die(p) BY <1>4, <1>7, <1>8 DEF Abstract!Die, status, touched, complete
<1> QED BY <1>9 DEF Abstract!TransformNext

(* Whatever stages, chunks, temporaries, descriptors and partial writes it    *)
(* goes through, a call does to its caller's files what FileTransform says:   *)
(* it changes no output but its own, returns 0 only when its output is the    *)
(* whole of what it took its input for, transformed, and no other call and no *)
(* death of another process takes that back.                                  *)
THEOREM PipelineRefines == Spec => Abstract!TransformSafety
<1>1. Init => Abstract!TransformInit
  <2> SUFFICES ASSUME Init PROVE Abstract!TransformInit OBVIOUS
  <2>1. \A w \in Worker : pc[w] = "idle" /\ ~Touched(w) BY DEF Init, Touched
  <2>2. StatusOf("idle") = "idle" BY DEF StatusOf
  <2>3. \A w \in Worker : Touched(w) = FALSE BY <2>1 DEF Touched
  <2> QED BY <2>1, <2>2, <2>3 DEF Abstract!TransformInit
<1>2. FaithfulInv /\ FaithfulInv' /\ [Next]_vars
         => [Abstract!TransformNext]_(Abstract!tvars)
  <2> SUFFICES ASSUME FaithfulInv, FaithfulInv', [Next]_vars
               PROVE  [Abstract!TransformNext]_(Abstract!tvars)
    OBVIOUS
  <2>1. CASE \E w \in Worker : CallStep(w) BY <2>1, StepRefines
  <2>2. CASE \E p \in Process : Crash(p) BY <2>2, CrashRefines
  <2>3. CASE UNCHANGED vars
    BY <2>3 DEF vars, Abstract!tvars, Touched, Transformed, Keyed
  <2> QED BY <2>1, <2>2, <2>3 DEF Next, CallStep
<1> QED BY <1>1, <1>2, FaithfulInvariance, PTL DEF Spec, Abstract!TransformSafety
==============================================================================

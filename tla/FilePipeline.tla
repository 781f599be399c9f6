----------------------------- MODULE FilePipeline -----------------------------
(* execute_file_pipeline (operations.c): the calls that compress, decompress, *)
(* encrypt, decrypt or copy one file into another, in one or two stages with  *)
(* a temporary file between them.  Several calls run at once, as threads of   *)
(* one process (the directory pool) or as separate processes (two runs of the *)
(* program), over one file system.  One action per system call or per group   *)
(* of them that no other call can observe; every one may fail, and a process  *)
(* may be killed between any two.                                             *)
(*                                                                            *)
(* A file is a sequence of units.  A data unit is a byte of somebody's file;  *)
(* a "magic" unit is the 12-byte stream header, a "record" unit an 8-byte     *)
(* chunk header.  Coding a byte is abstracted to a layer put on its unit and  *)
(* taken off by the inverse: the codecs work chunk by chunk and are taken to  *)
(* be lossless here (the codec modules look into them).                       *)
EXTENDS PipelineStages, Integers, Sequences, SequencesExt, FiniteSets

CONSTANTS Worker,        \* the calls of execute_file_pipeline
          Process,       \* the processes they run in
          ProcessOf,     \* the process of each worker
          Path,          \* the names callers use
          TempName,      \* the names mkstemp draws from
          NoTemp,        \* no temporary file
          InputOf,       \* input_path of each worker
          OutputOf,      \* output_path of each worker
          Waits,         \* the workers whose call must have ended before
          Configs,       \* the configurations each worker may be given
          StoredFiles,   \* the file systems the workers may find
          ChunkSize,     \* DEFAULT_STREAM_CHUNK_SIZE, in units
          MaxFaults      \* bound: system calls that fail in one behaviour

(******************************** the data ***********************************)

UnitKind == {"data", "magic", "future", "record", "junk", "hole", "torn"}

(* No two layers of a unit cancel: the second would have taken the first off. *)
Reduced(layers) ==
    \A i \in 1 .. Len(layers) - 1 :
       layers[i].kind = "xor" => layers[i] # layers[i + 1]
Layers == {s \in Seq(Layer) : Reduced(s)}

Unit == [kind : UnitKind, val : Nat, layers : Layers]

Plain(kind, val) == [kind |-> kind, val |-> val, layers |-> <<>>]

XorFrom(s, first, keyLen) ==
    [i \in 1 .. Len(s) |-> XorUnit(s[i], (first + i - 1) % keyLen)]

Coded(alg, s) == [i \in 1 .. Len(s) |-> Pushed(s[i], CodecLayer(alg))]
Decoded(s) == [i \in 1 .. Len(s) |-> Popped(s[i])]
Decodable(alg, s) ==
    s # <<>> /\ \A i \in 1 .. Len(s) : Outermost(s[i], CodecLayer(alg))

StreamHeader(alg) == Plain("magic", alg)
ChunkRecord(alg, chunk) == <<Plain("record", Len(chunk))>> \o Coded(alg, chunk)

IsHeader(u) == u.kind = "magic" /\ u.layers = <<>>
IsRecord(u) == u.kind = "record" /\ u.layers = <<>>

FileName == Path \cup TempName

Config == [operations : SUBSET Operation, comp_alg : Nat, keyLen : Nat]

FileSystem(stored) ==
    [files |-> DOMAIN stored,
     data  |-> [f \in FileName |->
                  IF f \in DOMAIN stored THEN stored[f] ELSE <<>>]]

ASSUME PipelineAssumption ==
    /\ ProcessOf \in [Worker -> Process]
    /\ Path \cap TempName = {} /\ NoTemp \notin FileName
    /\ InputOf \in [Worker -> Path]
    /\ OutputOf \in [Worker -> Path]
    /\ Waits \in [Worker -> SUBSET Worker]
    /\ Configs \in [Worker -> SUBSET Config]
    /\ \A stored \in StoredFiles :
          /\ DOMAIN stored \subseteq Path
          /\ \A f \in DOMAIN stored : stored[f] \in Seq(Unit)
    /\ ChunkSize \in Nat \ {0}
    /\ MaxFaults \in Nat

(* Callers give every call an output of its own, which is not its input; a    *)
(* file that is one call's output and another's input is read only after the  *)
(* first call has ended.                                                      *)
ASSUME SeparationAssumption ==
    /\ \A v, w \in Worker : v # w => OutputOf[v] # OutputOf[w]
    /\ \A w \in Worker : InputOf[w] # OutputOf[w]
    /\ \A v, w \in Worker : InputOf[w] = OutputOf[v] => v \in Waits[w]

(******************************** the state **********************************)

VARIABLES files,         \* the names that exist
          data,          \* what each holds (<<>> for a name that does not)
          config,        \* the program_config_t of each call
          start,         \* the file system at the beginning (history)
          misread,       \* the calls whose read of a stream header that is there
                         \* returned less than the whole of it (history)
          pc,            \* where each call is
          stage,         \* i + 1, the stage it is in
          temp,          \* temp_path while temp_active, NoTemp otherwise
          next,          \* next_temp while a stage writes to it
          inOff, outOff, \* the offsets of in_fd and out_fd
          keyIndex,      \* key_index
          pending,       \* what is coded and not written yet
          faults         \* system calls that failed so far

vars == <<files, data, config, start, misread, pc, stage, temp, next,
          inOff, outOff, keyIndex, pending, faults>>

Ended == {"done", "failed", "crashed"}
Busy == {"stage", "open", "header", "legacy", "create", "loop", "stageok", "stagefail"}

TypeOK ==
    /\ files \in SUBSET FileName
    /\ data \in [FileName -> Seq(Unit)]
    /\ config \in [Worker -> Config]
    /\ misread \in SUBSET Worker
    /\ pc \in [Worker -> {"idle"} \cup Busy \cup Ended]
    /\ stage \in [Worker -> 1 .. 2]
    /\ temp \in [Worker -> TempName \cup {NoTemp}]
    /\ next \in [Worker -> TempName \cup {NoTemp}]
    /\ inOff \in [Worker -> Nat]
    /\ outOff \in [Worker -> Nat]
    /\ keyIndex \in [Worker -> Nat]
    /\ pending \in [Worker -> Seq(Unit)]
    /\ faults \in 0 .. MaxFaults

Stage(w) == Stages(config[w].operations)[stage[w]]
IsLast(w) == stage[w] = Len(Stages(config[w].operations))
Ciphering(w) == Stage(w) \in {"STAGE_ENCRYPT", "STAGE_DECRYPT"}

Source(w) == IF temp[w] = NoTemp THEN InputOf[w] ELSE temp[w]    \* current_input

(* Variants: every stage, or none, writes to the output.                      *)
TargetAlwaysOutput(w) == OutputOf[w]
TargetAlwaysTemp(w) == next[w]
Target(w) == IF IsLast(w) THEN OutputOf[w] ELSE next[w]          \* target_path

Owned(w) == {temp[w], next[w]} \ {NoTemp}

Init ==
    /\ \E stored \in StoredFiles : start = FileSystem(stored)
    /\ files = start.files
    /\ data = start.data
    /\ config \in [Worker -> UNION {Configs[w] : w \in Worker}]
    /\ \A w \in Worker : config[w] \in Configs[w]
    /\ misread = {}
    /\ pc = [w \in Worker |-> "idle"]
    /\ stage = [w \in Worker |-> 1]
    /\ temp = [w \in Worker |-> NoTemp]
    /\ next = [w \in Worker |-> NoTemp]
    /\ inOff = [w \in Worker |-> 0]
    /\ outOff = [w \in Worker |-> 0]
    /\ keyIndex = [w \in Worker |-> 0]
    /\ pending = [w \in Worker |-> <<>>]
    /\ faults = 0

Goto(w, label) == pc' = [pc EXCEPT ![w] = label]

(* unlink.                                                                    *)
Unlink(names) ==
    /\ files' = files \ names
    /\ data' = [f \in FileName |-> IF f \in names THEN <<>> ELSE data[f]]

(* Variant: every write goes to the beginning of the file.                    *)
WriteAtStart(s, off, units) ==
    [i \in 1 .. (IF Len(s) > Len(units) THEN Len(s) ELSE Len(units)) |->
        IF i <= Len(units) THEN units[i] ELSE s[i]]

(* write at the offset of the descriptor; a gap left by a truncation reads as *)
(* zeros.                                                                     *)
WriteAt(s, off, units) ==
    LET end == off + Len(units)
    IN [i \in 1 .. (IF Len(s) > end THEN Len(s) ELSE end) |->
          IF i > off /\ i <= end THEN units[i - off]
          ELSE IF i <= Len(s) THEN s[i] ELSE Plain("hole", 0)]

(******************************** the steps **********************************)

(* execute_file_pipeline is called.                                           *)
Call(w) ==
    /\ pc[w] = "idle"
    /\ \A v \in Waits[w] : pc[v] \in Ended
    /\ Goto(w, "stage")
    /\ UNCHANGED <<files, data, config, start, misread, stage, temp, next,
                   inOff, outOff, keyIndex, pending, faults>>

(* The last stage writes to the output.                                       *)
ChooseOutput(w) ==
    /\ pc[w] = "stage" /\ IsLast(w)
    /\ Goto(w, "open")
    /\ UNCHANGED <<files, data, config, start, misread, stage, temp, next,
                   inOff, outOff, keyIndex, pending, faults>>

(* Variant: a name made up without creating it exclusively (mktemp).          *)
AnyName(t) == t \in TempName

(* mkstemp creates a name that did not exist.                                 *)
FreshName(t) == t \in TempName /\ t \notin files

(* Any other stage writes to a temporary.                                     *)
CreateTemp(w) ==
    /\ pc[w] = "stage" /\ ~IsLast(w)
    /\ \E t \in TempName :
          /\ FreshName(t)
          /\ files' = files \cup {t}
          /\ data' = [data EXCEPT ![t] = <<>>]
          /\ next' = [next EXCEPT ![w] = t]
    /\ Goto(w, "open")
    /\ UNCHANGED <<config, start, misread, stage, temp, inOff, outOff, keyIndex,
                   pending, faults>>

(* mkstemp fails: the temporary of the stage before is removed, return -1.    *)
TempFails(w) ==
    /\ pc[w] = "stage" /\ ~IsLast(w)
    /\ faults < MaxFaults \/ TempName \subseteq files
    /\ faults' = IF faults < MaxFaults THEN faults + 1 ELSE faults
    /\ Unlink({temp[w]} \ {NoTemp})
    /\ temp' = [temp EXCEPT ![w] = NoTemp]
    /\ Goto(w, "failed")
    /\ UNCHANGED <<config, start, misread, stage, next, inOff, outOff, keyIndex, pending>>

(* ensure_parent_directory, the check of the key and open(input_path).  A     *)
(* decompression goes on to read the stream header, the others create their   *)
(* output at once.                                                            *)
OpenInput(w) ==
    /\ pc[w] = "open"
    /\ IF \/ Source(w) \notin files
          \/ Ciphering(w) /\ config[w].keyLen = 0
       THEN Goto(w, "stagefail")
       ELSE Goto(w, IF Stage(w) = "STAGE_DECOMPRESS" THEN "header" ELSE "create")
    /\ inOff' = [inOff EXCEPT ![w] = 0]
    /\ UNCHANGED <<files, data, config, start, misread, stage, temp, next,
                   outOff, keyIndex, pending, faults>>

(* Variant: the version is not compared.                                      *)
AnyVersion(s, alg) ==
    IF s = <<>> \/ s[1].layers # <<>> THEN "legacy"
    ELSE IF s[1].kind = "magic" THEN (IF s[1].val = alg THEN "create" ELSE "stagefail")
    ELSE IF s[1].kind = "future" THEN "create" ELSE "legacy"

(* read_stream_header, when its read returns as much as there is: anything    *)
(* but a whole header with the magic is a file of the old format; another     *)
(* version, or another codec than the one configured, is refused before the   *)
(* output is opened.                                                          *)
HeaderVerdict(s, alg) ==
    IF s = <<>> \/ s[1].layers # <<>> THEN "legacy"
    ELSE IF s[1].kind = "magic" THEN (IF s[1].val = alg THEN "create" ELSE "stagefail")
    ELSE IF s[1].kind = "future" THEN "stagefail" ELSE "legacy"

(* A stream header of any version begins s.                                   *)
HasHeader(s) == s # <<>> /\ s[1].layers = <<>> /\ s[1].kind \in {"magic", "future"}

(* There is one read of the 12 bytes.  One that returns fewer of them turns   *)
(* the file, whatever it is, into one of the old format.                      *)
ReadStreamHeader(w) ==
    /\ pc[w] = "header"
    /\ \/ /\ Goto(w, HeaderVerdict(data[Source(w)], config[w].comp_alg))
          /\ UNCHANGED misread
       \/ /\ HasHeader(data[Source(w)])
          /\ Goto(w, "legacy")
          /\ misread' = misread \cup {w}
    /\ inOff' = [inOff EXCEPT ![w] = 1]
    /\ UNCHANGED <<files, data, config, start, stage, temp, next,
                   outOff, keyIndex, pending, faults>>

(* decompress_legacy_file: the whole input through the decoder.  What is not  *)
(* a file of that codec is refused, or decoded into something.                *)
LegacyResults(alg, s) ==
    IF Decodable(alg, s) THEN {Decoded(s)}
    ELSE IF s = <<>> THEN {} ELSE {<<Plain("junk", 0)>>}

DecodeLegacy(w) ==
    /\ pc[w] = "legacy"
    /\ \E result \in LegacyResults(config[w].comp_alg, data[Source(w)]) :
          pending' = [pending EXCEPT ![w] = result]
    /\ inOff' = [inOff EXCEPT ![w] = Len(data[Source(w)])]
    /\ Goto(w, "create")
    /\ UNCHANGED <<files, data, config, start, misread, stage, temp, next,
                   outOff, keyIndex, faults>>

RefuseLegacy(w) ==
    /\ pc[w] = "legacy"
    /\ ~Decodable(config[w].comp_alg, data[Source(w)])
    /\ Goto(w, "stagefail")
    /\ UNCHANGED <<files, data, config, start, misread, stage, temp, next,
                   inOff, outOff, keyIndex, pending, faults>>

(* open(output_path, O_CREAT | O_TRUNC); a compression owes the stream header *)
(* and a cipher starts at the first key byte.                                 *)
CreateOutput(w) ==
    /\ pc[w] = "create"
    /\ files' = files \cup {Target(w)}
    /\ data' = [data EXCEPT ![Target(w)] = <<>>]
    /\ outOff' = [outOff EXCEPT ![w] = 0]
    /\ keyIndex' = [keyIndex EXCEPT ![w] = 0]
    /\ pending' = IF Stage(w) = "STAGE_COMPRESS"
                  THEN [pending EXCEPT ![w] = <<StreamHeader(config[w].comp_alg)>>]
                  ELSE pending
    /\ Goto(w, "loop")
    /\ UNCHANGED <<config, start, misread, stage, temp, next, inOff, faults>>

(* What a stage makes of a chunk it has read, and where the key then is.      *)
StageOutput(w, chunk) ==
    CASE Stage(w) = "STAGE_COMPRESS" -> ChunkRecord(config[w].comp_alg, chunk)
      [] Ciphering(w) -> XorFrom(chunk, keyIndex[w], config[w].keyLen)
      [] OTHER -> chunk

(* Variants: the key starts again with every chunk, or moves once per chunk.  *)
KeyRestarts(w, n) == 0
KeyPerChunk(w, n) ==
    IF Ciphering(w) THEN (keyIndex[w] + 1) % config[w].keyLen ELSE keyIndex[w]

NextKeyIndex(w, n) ==
    IF Ciphering(w) THEN (keyIndex[w] + n) % config[w].keyLen ELSE keyIndex[w]

(* One turn of the loop of compress_file_chunked, encrypt_file_stream and     *)
(* copy_file_stream: read returns between one unit and a chunk.               *)
ReadChunk(w) ==
    /\ pc[w] = "loop" /\ pending[w] = <<>>
    /\ Stage(w) # "STAGE_DECOMPRESS"
    /\ \E n \in 1 .. ChunkSize :
          /\ inOff[w] + n <= Len(data[Source(w)])
          /\ LET chunk == SubSeq(data[Source(w)], inOff[w] + 1, inOff[w] + n)
             IN pending' = [pending EXCEPT ![w] = StageOutput(w, chunk)]
          /\ inOff' = [inOff EXCEPT ![w] = @ + n]
          /\ keyIndex' = [keyIndex EXCEPT ![w] = NextKeyIndex(w, n)]
    /\ UNCHANGED <<files, data, config, start, misread, pc, stage, temp, next,
                   outOff, faults>>

(* The payload of the record at offset off of s, and whether it is all there  *)
(* and decodes.                                                               *)
RecordPayload(s, off) == SubSeq(s, off + 2, off + 1 + s[off + 1].val)
WholeRecord(alg, s, off) ==
    /\ IsRecord(s[off + 1])
    /\ off + 1 + s[off + 1].val <= Len(s)
    /\ Decodable(alg, RecordPayload(s, off))

(* One turn of the loop of decompress_file_chunked: read_chunk_header, the    *)
(* payload, run_decompress_chunk.                                             *)
ReadRecord(w) ==
    LET s == data[Source(w)]
        off == inOff[w]
    IN /\ pc[w] = "loop" /\ pending[w] = <<>>
       /\ Stage(w) = "STAGE_DECOMPRESS" /\ off < Len(s)
       /\ IF WholeRecord(config[w].comp_alg, s, off)
          THEN /\ pending' = [pending EXCEPT ![w] = Decoded(RecordPayload(s, off))]
               /\ inOff' = [inOff EXCEPT ![w] = @ + 1 + s[off + 1].val]
               /\ UNCHANGED pc
          ELSE /\ Goto(w, "stagefail")
               /\ UNCHANGED <<pending, inOff>>
       /\ UNCHANGED <<files, data, config, start, misread, stage, temp, next,
                      outOff, keyIndex, faults>>

(* write_all: each write takes some of what is pending.                       *)
Write(w) ==
    /\ pc[w] = "loop"
    /\ \E n \in 1 .. Len(pending[w]) :
          /\ data' = [data EXCEPT ![Target(w)] =
                        WriteAt(@, outOff[w], SubSeq(pending[w], 1, n))]
          /\ outOff' = [outOff EXCEPT ![w] = @ + n]
          /\ pending' = [pending EXCEPT ![w] = SubSeq(@, n + 1, Len(@))]
    /\ UNCHANGED <<files, config, start, misread, pc, stage, temp, next, inOff, keyIndex, faults>>

(* A header is several bytes, of which a part may be written.  One that is in *)
(* a compressed chunk is not: without some of its bytes none of a chunk is    *)
(* decoded.                                                                   *)
Tearable(u) ==
    u.kind \in {"magic", "record"} /\ \A i \in 1 .. Len(u.layers) : u.layers[i].kind # "codec"
Torn(u) == [u EXCEPT !.kind = "torn"]

(* write fails after part of a header has been written.                       *)
TornWrite(w) ==
    /\ pc[w] = "loop" /\ pending[w] # <<>>
    /\ Tearable(Head(pending[w]))
    /\ faults < MaxFaults /\ faults' = faults + 1
    /\ data' = [data EXCEPT ![Target(w)] =
                  WriteAt(@, outOff[w], <<Torn(Head(pending[w]))>>)]
    /\ outOff' = [outOff EXCEPT ![w] = @ + 1]
    /\ Goto(w, "stagefail")
    /\ UNCHANGED <<files, config, start, misread, stage, temp, next, inOff, keyIndex, pending>>

(* Any other open, read, write or malloc of the stage fails.                  *)
StageFault(w) ==
    /\ pc[w] \in {"open", "header", "legacy", "create", "loop"}
    /\ faults < MaxFaults /\ faults' = faults + 1
    /\ Goto(w, "stagefail")
    /\ UNCHANGED <<files, data, config, start, misread, stage, temp, next,
                   inOff, outOff, keyIndex, pending>>

(* Variant: a byte more is waited for.                                        *)
PastEnd(w) == inOff[w] > Len(data[Source(w)])
AtEnd(w) == inOff[w] >= Len(data[Source(w)])

(* End of the input: run_stage returns 0.                                     *)
EndOfInput(w) ==
    /\ pc[w] = "loop" /\ pending[w] = <<>>
    /\ AtEnd(w)
    /\ Goto(w, "stageok")
    /\ UNCHANGED <<files, data, config, start, misread, stage, temp, next,
                   inOff, outOff, keyIndex, pending, faults>>

(* After a stage that succeeded the temporary it read from is removed, and    *)
(* the one it wrote becomes the input of the next.                            *)
StageOk(w) ==
    /\ pc[w] = "stageok"
    /\ Unlink({temp[w]} \ {NoTemp})
    /\ temp' = [temp EXCEPT ![w] = IF IsLast(w) THEN NoTemp ELSE next[w]]
    /\ next' = [next EXCEPT ![w] = NoTemp]
    /\ IF IsLast(w)
       THEN Goto(w, "done") /\ UNCHANGED stage
       ELSE Goto(w, "stage") /\ stage' = [stage EXCEPT ![w] = @ + 1]
    /\ UNCHANGED <<config, start, misread, inOff, outOff, keyIndex, pending, faults>>

(* Variant: the input of a last stage that failed is forgotten.               *)
DiscardTargetOnly(w) == {next[w]} \ {NoTemp}

(* What a stage that failed leaves behind is removed, except the output.      *)
Discarded(w) == IF IsLast(w) THEN {temp[w]} \ {NoTemp} ELSE Owned(w)

StageFail(w) ==
    /\ pc[w] = "stagefail"
    /\ Unlink(Discarded(w))
    /\ temp' = [temp EXCEPT ![w] = NoTemp]
    /\ next' = [next EXCEPT ![w] = NoTemp]
    /\ pending' = [pending EXCEPT ![w] = <<>>]
    /\ Goto(w, "failed")
    /\ UNCHANGED <<config, start, misread, stage, inOff, outOff, keyIndex, faults>>

(* The process is killed, with every call in it.                              *)
Crash(p) ==
    /\ \E w \in Worker : ProcessOf[w] = p /\ pc[w] \in Busy
    /\ pc' = [w \in Worker |-> IF ProcessOf[w] = p /\ pc[w] \notin Ended
                               THEN "crashed" ELSE pc[w]]
    /\ UNCHANGED <<files, data, config, start, misread, stage, temp, next,
                   inOff, outOff, keyIndex, pending, faults>>

(* What a call does by itself.                                                *)
Step(w) ==
    \/ Call(w) \/ ChooseOutput(w) \/ CreateTemp(w) \/ TempFails(w)
    \/ OpenInput(w) \/ ReadStreamHeader(w) \/ DecodeLegacy(w) \/ RefuseLegacy(w)
    \/ CreateOutput(w) \/ ReadChunk(w) \/ ReadRecord(w) \/ Write(w)
    \/ EndOfInput(w) \/ StageOk(w) \/ StageFail(w)

Next ==
    \/ \E w \in Worker : Step(w) \/ TornWrite(w) \/ StageFault(w)
    \/ \E p \in Process : Crash(p)

(* A thread or process that can run is run: each call keeps making steps.     *)
Fairness == \A w \in Worker : WF_vars(Step(w))

Spec == Init /\ [][Next]_vars /\ Fairness

(***************************** what it promises ******************************)

Encrypted(s, keyLen) == XorFrom(s, 0, keyLen)
IsStream(s) == s # <<>> /\ IsHeader(s[1])

(* Where the coded units of a stream are, and the how-manieth each is.        *)
Payload(alg, s) == {i \in 1 .. Len(s) : Outermost(s[i], CodecLayer(alg))}
Rank(alg, s, i) == Cardinality({h \in Payload(alg, s) : h <= i})

(* out is a stream with the units of in: a header, then chunk after chunk,    *)
(* with the coded units of in, one after the other, in the chunks.            *)
IsStreamOf(out, alg, in) ==
    /\ IsStream(out) /\ out[1].val = alg
    /\ Len(out) > 1 => IsRecord(out[2])
    /\ \A i \in 2 .. Len(out) :
          IsRecord(out[i]) =>
             LET end == i + out[i].val
             IN /\ end <= Len(out)
                /\ \A j \in i + 1 .. end : Outermost(out[j], CodecLayer(alg))
                /\ end < Len(out) => IsRecord(out[end + 1])
    /\ {Rank(alg, out, i) : i \in Payload(alg, out)} = 1 .. Len(in)
    /\ \A i \in Payload(alg, out) :
          out[i] = Pushed(in[Rank(alg, out, i)], CodecLayer(alg))

(* Decompressing in gives out.  A file that has no stream header is taken for *)
(* one of the old format, of which nothing is known unless it really is one.  *)
Decompresses(in, alg, out) ==
    IF IsStream(in) THEN IsStreamOf(in, alg, out)
    ELSE Decodable(alg, in) => out = Decoded(in)

TransformedBy(c, in, out) ==
    LET stages == Stages(c.operations)
    IN CASE stages = <<"STAGE_COMPRESS", "STAGE_ENCRYPT">> ->
              IsStreamOf(Encrypted(out, c.keyLen), c.comp_alg, in)
         [] stages = <<"STAGE_DECRYPT", "STAGE_DECOMPRESS">> ->
              Decompresses(Encrypted(in, c.keyLen), c.comp_alg, out)
         [] stages = <<"STAGE_COMPRESS">> -> IsStreamOf(out, c.comp_alg, in)
         [] stages = <<"STAGE_DECOMPRESS">> -> Decompresses(in, c.comp_alg, out)
         [] stages = <<"STAGE_COPY">> -> out = in
         [] OTHER -> out = Encrypted(in, c.keyLen)

(* A stage that ciphers has a key to do it with.                              *)
CipherStages == {"STAGE_ENCRYPT", "STAGE_DECRYPT"}
Keyed(c) ==
    \A i \in 1 .. Len(Stages(c.operations)) :
       Stages(c.operations)[i] \in CipherStages => c.keyLen > 0

Transformed(w) ==
    /\ InputOf[w] \in files /\ OutputOf[w] \in files
    /\ Keyed(config[w])
    /\ TransformedBy(config[w], data[InputOf[w]], data[OutputOf[w]])

Touched(w) ==
    \/ data[OutputOf[w]] # start.data[OutputOf[w]]
    \/ OutputOf[w] \in files /\ OutputOf[w] \notin start.files

(* A call that returned 0 has produced the whole transformation of its input, *)
(* whatever the sizes of the other reads and of the writes, whatever the      *)
(* other calls did, and it stays so (execute_file_pipeline, return 0); unless *)
(* the one read of a stream header that is there came short, after which 0    *)
(* says nothing (read_stream_header).                                         *)
SuccessIsFaithful ==
    \A w \in Worker : pc[w] = "done" /\ w \notin misread => Transformed(w)

InverseOf(c) ==
    [c EXCEPT !.operations =
       {CASE op = "OP_COMPRESS" -> "OP_DECOMPRESS" [] op = "OP_ENCRYPT" -> "OP_DECRYPT"
          [] op = "OP_DECOMPRESS" -> "OP_COMPRESS" [] OTHER -> "OP_ENCRYPT" : op \in @}]

Packs(c) == c.operations \subseteq {"OP_COMPRESS", "OP_ENCRYPT"}

(* w undoes v.                                                                *)
Undoes(w, v) ==
    /\ InputOf[w] = OutputOf[v]
    /\ Packs(config[v]) /\ config[w] = InverseOf(config[v])

(* Undoing with the same key and codec what a successful call made gives back *)
(* its input, although the two calls cut the file in different chunks (but    *)
(* not the stream header).                                                    *)
RoundTrip ==
    \A v, w \in Worker :
       (Undoes(w, v) /\ pc[v] = "done" /\ pc[w] = "done" /\ w \notin misread)
          => data[OutputOf[w]] = data[InputOf[v]]

(* s is a beginning of full; it may end within a header.                      *)
Beginning(s, full) ==
    /\ Len(s) <= Len(full)
    /\ \A i \in 1 .. Len(s) :
          \/ s[i] = full[i]
          \/ i = Len(s) /\ Tearable(full[i]) /\ s[i] = Torn(full[i])

(* Undoing what a call left when it failed or was killed: if there is enough  *)
(* of it to be recognised, a whole stream header that is read as one, what    *)
(* comes out is a beginning of the original, and never anything else.  A torn *)
(* stream header makes a file of the old format.                              *)
Recognised(c, s) ==
    "OP_COMPRESS" \in c.operations =>
       IsStream(IF "OP_ENCRYPT" \in c.operations THEN Encrypted(s, c.keyLen) ELSE s)

DamagedGivesPrefix ==
    \A v, w \in Worker :
       (/\ Undoes(w, v) /\ pc[v] \in {"failed", "crashed"}
        /\ pc[w] = "done" /\ w \notin misread
        /\ Touched(v) /\ Recognised(config[v], data[OutputOf[v]]))
          => Beginning(data[OutputOf[w]], data[InputOf[v]])

(* Every temporary that exists belongs to exactly one call that is running or *)
(* was killed: a call that returns, with 0 or -1, has removed its own, and no *)
(* two calls ever use the same one (create_temp_path, the unlinks).           *)
TempsAccountedFor ==
    /\ files \cap TempName = UNION {Owned(w) : w \in Worker}
    /\ \A w \in Worker : pc[w] \in {"idle", "done", "failed"} => Owned(w) = {}
    /\ \A w \in Worker : temp[w] = next[w] => temp[w] = NoTemp
    /\ \A v, w \in Worker : v # w => Owned(v) \cap Owned(w) = {}

(* The output is not opened before the last stage has a readable input that   *)
(* it accepts: a call that fails or dies earlier, in its first stage, on a    *)
(* missing input, on a header of another codec that it has read as a whole,   *)
(* leaves an existing file of that name alone.                                *)
OutputOpened(w) == IsLast(w) /\ pc[w] \in {"loop", "stageok", "stagefail", "done", "failed", "crashed"}

LateOutput == \A w \in Worker : Touched(w) => OutputOpened(w)

Refused(w) ==
    /\ Stages(config[w].operations) = <<"STAGE_DECOMPRESS">>
    /\ data[InputOf[w]] # <<>>
    /\ LET u == data[InputOf[w]][1]
       IN /\ u.layers = <<>>
          /\ u.kind = "future" \/ (u.kind = "magic" /\ u.val # config[w].comp_alg)

RefusalLeavesOutput ==
    \A w \in Worker :
       (/\ pc[w] \in Ended
        /\ InputOf[w] \notin files \/ (Refused(w) /\ w \notin misread)) => ~Touched(w)

(* A call changes no file but its output and its own temporary; in particular *)
(* a running call's source never changes under it.                            *)
SourceIsStable ==
    [][\A w \in Worker :
          pc[w] \in Busy /\ pc'[w] \in Busy /\ Source(w)' = Source(w)
             => data'[Source(w)] = data[Source(w)]]_vars

(* Every call that is made returns, unless its process dies.                  *)
EveryCallReturns == \A w \in Worker : (pc[w] = "stage") ~> (pc[w] \in Ended)

(* The pipeline implements its abstract specification.  Of the output of a    *)
(* call that has not seen its stream header the specification hears only that *)
(* it is done.                                                                *)
StatusOf(label) ==
    CASE label = "idle" -> "idle" [] label = "done" -> "ok"
      [] label = "failed" -> "failed" [] label = "crashed" -> "crashed"
      [] OTHER -> "running"

Abstract == INSTANCE FileTransform WITH
    status <- [w \in Worker |-> StatusOf(pc[w])],
    touched <- [w \in Worker |-> Touched(w)],
    complete <- [w \in Worker |->
                   /\ StatusOf(pc[w]) \in {"running", "ok"}
                   /\ Transformed(w) \/ w \in misread]

ImplementsTransform == Abstract!TransformSpec
=============================================================================

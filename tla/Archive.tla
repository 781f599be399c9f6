------------------------------- MODULE Archive -------------------------------
(* The directory archives (archive.c): a directory is packed in a temporary,  *)
(* on which the pipeline is run; an archive goes through the pipeline into a  *)
(* temporary, which is extracted.  Several runs of the program are at work on *)
(* one file system while users edit the directories; each action is a system  *)
(* or stdio call, or a group of them that no other run can observe; every one *)
(* may fail and a run may be killed between any two.  Gsea composes this with *)
(* the command line.                                                          *)
(*                                                                            *)
(* A file is what it holds and how that is coded: the units of an archive, a  *)
(* number or a byte each, under a stack of layers.  execute_file_pipeline is  *)
(* what FileTransform promises: its output goes through any beginning of the  *)
(* result, and is the result when it returns 0.                               *)
EXTENDS PipelineStages, Integers, Sequences, SequencesExt, FiniteSets

CONSTANTS Run,           \* the runs of the program
          Name,          \* the paths they are given, temporaries included
          TempName,      \* what mkstemp draws from
          NoName,        \* no path
          NoFile,        \* what a name holds that is no regular file
          Sub,           \* the subdirectories of a directory; 0 is itself
          ParentSub,     \* the one each is in
          Member,        \* the relative paths of files in a directory
          SubOf,         \* the subdirectory each file is in
          Body,          \* what they write in a file
          MaxFaults,     \* bound: calls that fail, runs that are killed
          MaxEdits       \* bound: files that users change or remove

NoMember == 0

ASSUME ArchiveAssumption ==
    /\ TempName \subseteq Name /\ NoName \notin Name
    /\ 0 \in Sub /\ ParentSub \in [Sub \ {0} -> Sub]
    /\ Member \subseteq Nat \ {NoMember} /\ IsFiniteSet(Member)
    /\ SubOf \in [Member -> Sub]
    /\ Body \subseteq Seq(Nat) /\ NoFile \notin Seq(Nat)
    /\ MaxFaults \in Nat /\ MaxEdits \in Nat

(******************************** the data ***********************************)

Unit == [kind : {"magic", "count", "path", "size", "byte", "short", "torn", "junk"}, val : Nat]
U(k, v) == [kind |-> k, val |-> v]

Content == [layers : Seq(Layer), units : Seq(Unit)]
Empty == [layers |-> <<>>, units |-> <<>>]
Garbage == [layers |-> <<>>, units |-> <<U("junk", 0)>>]

Bytes(body) == [i \in 1 .. Len(body) |-> U("byte", body[i])]
Header(count) == <<U("magic", 0), U("count", count)>>

(* What a write that stops half way leaves of s: it may stop inside a unit,   *)
(* "short", inside a record of a compressed stream, "torn", or inside the      *)
(* header of the stream: then what is under its layer is not there yet.       *)
CutUnits(s, mark) ==
    UNION {{SubSeq(s, 1, n), SubSeq(s, 1, n) \o <<U(mark, 0)>>} : n \in 0 .. Len(s) - 1}

Begun(c) ==
    LET streams == {i \in 1 .. Len(c.layers) : c.layers[i].kind = "codec"}
        mark == IF streams = {} THEN "short" ELSE "torn"
    IN {Empty} \cup {[c EXCEPT !.units = cut] : cut \in CutUnits(c.units, mark)}
       \cup {[Garbage EXCEPT !.layers = SubSeq(c.layers, 1, i - 1)] :
                i \in {i \in streams : \A j \in streams : i <= j}}

(* What one stage makes of c; the empty set if it refuses c.  An old-format   *)
(* file decodes to something or to nothing (decompress_legacy_file).          *)
IsStream(c) == c.layers # <<>> /\ Head(c.layers).kind = "codec"

Decompressed(alg, c) ==
    IF IsStream(c)
    THEN IF Outermost(c, CodecLayer(alg)) THEN {Popped(c)} ELSE {}
    ELSE IF c = Empty THEN {} ELSE {Garbage}

StageResults(stage, alg, c) ==
    CASE stage = "STAGE_COMPRESS" -> {Pushed(c, CodecLayer(alg))}
      [] stage = "STAGE_DECOMPRESS" -> Decompressed(alg, c)
      [] stage \in {"STAGE_ENCRYPT", "STAGE_DECRYPT"} ->
            {IF c = Empty THEN c ELSE XorUnit(c, 0)}
      [] OTHER -> {c}

(* One stage or two.                                                          *)
Results(operations, alg, c) ==
    LET stages == Stages(operations)
        first == StageResults(stages[1], alg, c)
    IN IF Len(stages) = 1 THEN first
       ELSE UNION {StageResults(stages[2], alg, x) : x \in first}

(******************************** the state **********************************)

VARIABLES file,          \* what each name holds
          dirs,          \* the directories: <<name, subdirectory>>
          tree,          \* what the files of a directory hold
          pc,            \* where each run is
          call,          \* its mode, configuration and paths
          temp,          \* temp_path, NoName if there is none
          work,          \* the other locals of the functions in archive.c
          result,        \* the status returned, or about to be
          lost,          \* runs for which an fclose failed unseen (history)
          edited,        \* <<name, member>> that users changed (history)
          faults         \* calls that failed and runs killed so far

fs == <<file, dirs, tree>>
locals == <<call, temp, work, result>>
avars == <<fs, pc, locals, lost, edited, faults>>

Ended == {"returned", "killed"}
PackLabels == {"list", "open", "entry", "openentry", "copy", "drop"}
UnpackLabels == {"header", "checkdir", "mkdir", "next", "create", "fill"}
Busy == {"dispatch", "name", "mktemp", "pipe", "writing", "growing", "rmtemp"}
           \cup PackLabels \cup UnpackLabels

(* `seen': when the name of the output was made up, the input was a regular   *)
(* file and no call failed (history).                                         *)
Mode == {"none", "file", "pack", "unpack"}
Call == [mode : Mode, operations : SUBSET Operation, comp_alg : Nat,
         input : Name \cup {NoName}, output : Name \cup {NoName},
         named : BOOLEAN, fallback : BOOLEAN, seen : BOOLEAN]
Work == [entries : Seq(Member), units : Seq(Unit), size : Nat, left : Nat,
         member : Member \cup {NoMember}, making : Seq(Sub),
         linked : BOOLEAN, coded : Content]
NoWork == [entries |-> <<>>, units |-> <<>>, size |-> 0, left |-> 0,
           member |-> NoMember, making |-> <<>>, linked |-> TRUE, coded |-> Empty]

ArchiveTypeOK ==
    /\ file \in [Name -> Content \cup {NoFile}]
    /\ dirs \subseteq (Name \ TempName) \X Sub
    /\ tree \in [Name -> [Member -> Seq(Nat) \cup {NoFile}]]
    /\ pc \in [Run -> {"idle"} \cup Busy \cup Ended]
    /\ call \in [Run -> Call]
    /\ temp \in [Run -> TempName \cup {NoName}]
    /\ work \in [Run -> Work]
    /\ result \in [Run -> {-1, 0}]
    /\ lost \subseteq Run
    /\ edited \subseteq Name \X Member
    /\ faults \in 0 .. MaxFaults

Fault == faults < MaxFaults /\ faults' = faults + 1

Goto(r, label) == pc' = [pc EXCEPT ![r] = label]
Ends(r, status, label) ==
    /\ result' = [result EXCEPT ![r] = status]
    /\ Goto(r, label)

(* A variant: what failed as a single file is tried again too.                *)
RetriesForEver(r, status) ==
    IF call[r].fallback /\ status # 0
    THEN Ends(r, status, "name") /\ call' = [call EXCEPT ![r].mode = "file"]
    ELSE Ends(r, status, "returned") /\ UNCHANGED call

(* Back in execute_operations, which tries once more, as a single file, what  *)
(* it took for an archive and could not extract; execute_single_file_operations*)
(* asks for the output's name again.                                          *)
Return(r, status) ==
    IF call[r].fallback /\ status # 0
    THEN /\ Ends(r, status, "name")
         /\ call' = [call EXCEPT ![r].mode = "file", ![r].fallback = FALSE]
    ELSE Ends(r, status, "returned") /\ UNCHANGED call

(* unlink: whoever has the file open goes on with a file without a name.      *)
Unlink(n) ==
    /\ file' = [file EXCEPT ![n] = NoFile]
    /\ work' = [s \in Run |-> [work[s] EXCEPT !.linked = @ /\ temp[s] # n]]

(************************* process_..._with_pipeline *************************)

Packing(r) == call[r].mode = "pack"

(* create_temp_archive_file                                                   *)
MakeTemp(r) ==
    /\ pc[r] = "mktemp"
    /\ \E t \in TempName :
          /\ file[t] = NoFile
          /\ file' = [file EXCEPT ![t] = Empty]
          /\ temp' = [temp EXCEPT ![r] = t]
    /\ Goto(r, IF Packing(r) THEN "list" ELSE "pipe")
    /\ UNCHANGED <<dirs, tree, call, work, result, lost, edited, faults>>

TempFails(r) ==
    /\ pc[r] = "mktemp"
    /\ IF \A t \in TempName : file[t] # NoFile THEN UNCHANGED faults ELSE Fault
    /\ Return(r, -1)
    /\ UNCHANGED <<fs, temp, work, lost, edited>>

(* The caller's unlink, and its return.                                       *)
RemoveTemp(r) ==
    /\ pc[r] = "rmtemp"
    /\ Unlink(temp[r])
    /\ temp' = [temp EXCEPT ![r] = NoName]
    /\ Return(r, result[r])
    /\ UNCHANGED <<dirs, tree, lost, edited, faults>>

(************************ create_directory_archive_file **********************)

Present(n) == {m \in Member : <<n, 0>> \in dirs /\ tree[n][m] # NoFile}

(* read_directory_recursive passes over what it can not stat, and a directory *)
(* that it can not open, with everything below it.                            *)
IsBelow[s \in Sub, top \in Sub] ==
    s = top \/ (s # 0 /\ IsBelow[ParentSub[s], top])
Below(top) == {m \in Member : IsBelow[SubOf[m], top]}
Passed == {Below(s) : s \in Sub} \cup {{m} : m \in Member}

(* The list is in the order of readdir.  An empty one is an error.  What fails*)
(* during one listing, once or more often, counts as one fault.               *)
ListDirectory(r) ==
    /\ pc[r] = "list"
    /\ \E passed \in {UNION S : S \in SUBSET Passed} :
          /\ IF passed = {} THEN UNCHANGED faults ELSE Fault
          /\ \E list \in SetToSeqs(Present(call[r].input) \ passed) :
                /\ work' = [work EXCEPT ![r] = [NoWork EXCEPT !.entries = list]]
                /\ IF list = <<>> THEN Ends(r, -1, "rmtemp")
                   ELSE Goto(r, "open") /\ UNCHANGED result
    /\ UNCHANGED <<fs, call, temp, lost, edited>>

(* fopen(archive_path, "wb") opens the temporary by its name, and creates it  *)
(* again if it is gone.  The stream keeps what is written until it is closed. *)
OpenArchive(r) ==
    /\ pc[r] = "open"
    /\ file' = [file EXCEPT ![temp[r]] = Empty]
    /\ work' = [work EXCEPT ![r].units = Header(Len(work[r].entries)),
                            ![r].linked = TRUE]
    /\ Goto(r, "entry")
    /\ UNCHANGED <<dirs, tree, call, temp, result, lost, edited, faults>>

EntryBody(r) == tree[call[r].input][Head(work[r].entries)]

(* write_archive_entry: the path and the size that stat gives; it fails on a  *)
(* file that is gone by now.                                                  *)
StatEntry(r) ==
    /\ pc[r] = "entry" /\ work[r].entries # <<>>
    /\ IF EntryBody(r) = NoFile
       THEN Ends(r, -1, "drop") /\ UNCHANGED work
       ELSE /\ work' = [work EXCEPT
                ![r].units = @ \o <<U("path", Head(work[r].entries)), U("size", Len(EntryBody(r)))>>,
                ![r].size = Len(EntryBody(r)), ![r].left = Len(EntryBody(r))]
            /\ Goto(r, "openentry") /\ UNCHANGED result
    /\ UNCHANGED <<fs, call, temp, lost, edited, faults>>

OpenEntry(r) ==
    /\ pc[r] = "openentry"
    /\ IF EntryBody(r) = NoFile THEN Ends(r, -1, "drop")
       ELSE Goto(r, "copy") /\ UNCHANGED result
    /\ UNCHANGED <<fs, call, temp, work, lost, edited, faults>>

(* Variants: a file that ends early is all copied, and one byte too many.     *)
CopiedToTheEnd(r) == work[r].left = 0 \/ work[r].size - work[r].left >= Len(EntryBody(r))
CopiedAndOne(r) == work[r].left < 0
Copied(r) == work[r].left = 0                          \* while (remaining > 0)

(* copy_stream: the file may have changed since stat.  It ends early in a file*)
(* that became shorter, and takes the beginning of one that became longer.    *)
CopyEntry(r) ==
    /\ pc[r] = "copy"
    /\ LET off == work[r].size - work[r].left
       IN \/ /\ Copied(r)
             /\ work' = [work EXCEPT ![r].entries = Tail(@)]
             /\ Goto(r, "entry") /\ UNCHANGED result
          \/ /\ ~Copied(r) /\ off < Len(EntryBody(r))
             /\ work' = [work EXCEPT ![r].units = Append(@, U("byte", EntryBody(r)[off + 1])),
                                     ![r].left = @ - 1]
             /\ UNCHANGED <<pc, result>>
          \/ /\ ~Copied(r) /\ off >= Len(EntryBody(r))
             /\ Ends(r, -1, "drop") /\ UNCHANGED work
    /\ UNCHANGED <<fs, call, temp, lost, edited, faults>>

(* fclose writes what is buffered; whether it could is not looked at.         *)
CloseArchive(r) ==
    /\ pc[r] = "entry" /\ work[r].entries = <<>>
    /\ \E stored \in {work[r].units} \cup CutUnits(work[r].units, "short") :
          /\ IF stored = work[r].units THEN UNCHANGED <<lost, faults>>
             ELSE Fault /\ lost' = lost \cup {r}
          /\ file' = IF work[r].linked
                     THEN [file EXCEPT ![temp[r]] = [Empty EXCEPT !.units = stored]]
                     ELSE file
    /\ Goto(r, "pipe")
    /\ UNCHANGED <<dirs, tree, call, temp, work, result, edited>>

PackFault(r) ==
    /\ pc[r] \in PackLabels \ {"list", "drop"}
    /\ Fault
    /\ Ends(r, -1, IF pc[r] = "open" THEN "rmtemp" ELSE "drop")
    /\ UNCHANGED <<fs, call, temp, work, lost, edited>>

(* The unlink of create_directory_archive_file, before the caller's: between  *)
(* the two the name may become another run's temporary.                       *)
DropArchive(r) ==
    /\ pc[r] = "drop"
    /\ Unlink(temp[r])
    /\ Goto(r, "rmtemp")
    /\ UNCHANGED <<dirs, tree, call, temp, result, lost, edited, faults>>

(**************************** execute_file_pipeline **************************)

Source(r) == IF Packing(r) THEN temp[r] ELSE call[r].input
Target(r) == IF call[r].mode = "unpack" THEN temp[r] ELSE call[r].output

StagesOf(r) == Stages(call[r].operations)
OwnInput(r) == Source(r) = Target(r) /\ Len(StagesOf(r)) = 1
CompressesItself(r) == OwnInput(r) /\ StagesOf(r) = <<"STAGE_COMPRESS">>
Decompresses(r) == Last(StagesOf(r)) = "STAGE_DECOMPRESS"

ResultsOn(r, c) == Results(call[r].operations, call[r].comp_alg, c)

(* What the call makes of its source as it is now.  Opening the output        *)
(* truncates it: a call on its own input then reads an end of file, unless it *)
(* is of the old format, which is read as a whole before.                     *)
Outcomes(r) ==
    LET c == file[Source(r)]
    IN IF c = NoFile \/ <<Target(r), 0>> \in dirs THEN {}
       ELSE IF OwnInput(r) /\ (~Decompresses(r) \/ IsStream(c))
       THEN {Empty : x \in ResultsOn(r, [c EXCEPT !.units = <<>>])}
       ELSE ResultsOn(r, c)

(* The output changes, which for a temporary that was removed nobody sees.    *)
Writes(r, c) ==
    file' = IF Target(r) = temp[r] /\ ~work[r].linked THEN file
            ELSE [file EXCEPT ![Target(r)] = c]

(* A variant: a pipeline that failed leaves its temporary behind.             *)
ReturnsAtOnce(r, status) ==
    IF call[r].mode = "file" \/ status # 0 THEN Return(r, status)
    ELSE Ends(r, status, IF Packing(r) THEN "rmtemp" ELSE "header") /\ UNCHANGED call

PipelineReturns(r, status) ==
    IF call[r].mode = "file" THEN Return(r, status)
    ELSE /\ Ends(r, status, IF call[r].mode = "unpack" /\ status = 0
                            THEN "header" ELSE "rmtemp")
         /\ UNCHANGED call

(* A short read of the header of a stream makes decompress_file_chunked take  *)
(* it for a file of the old format, whatever it is (read_stream_header); one  *)
(* of no bytes leaves the decoder nothing.                                    *)
Misread(r) ==
    IF /\ Decompresses(r) /\ <<Target(r), 0>> \notin dirs
       /\ file[Source(r)] \notin {NoFile, Empty}
    THEN {Garbage} ELSE {}

(* The last stage opens its output and writes a part of it.                   *)
PipelineOpens(r) ==
    /\ pc[r] = "pipe"
    /\ \E c \in Outcomes(r) \cup Misread(r) :
          /\ IF c \in Outcomes(r) THEN UNCHANGED faults ELSE Fault
          /\ work' = [work EXCEPT ![r].coded = c, ![r].linked = TRUE]
          /\ \E begun \in Begun(c) : file' = [file EXCEPT ![Target(r)] = begun]
    /\ IF CompressesItself(r) THEN Goto(r, "growing") ELSE Goto(r, "writing")
    /\ UNCHANGED <<dirs, tree, call, temp, result, lost, edited>>

(* A directory opens like a file, and only the first read fails: a stage that *)
(* does not have to read before it opens its output has truncated that, and a *)
(* compression has begun a stream.                                            *)
TruncatesFirst(r) ==
    /\ <<Source(r), 0>> \in dirs /\ <<Target(r), 0>> \notin dirs
    /\ Len(StagesOf(r)) = 1 /\ ~Decompresses(r)

PipelineTruncates(r) ==
    /\ pc[r] = "pipe" /\ TruncatesFirst(r)
    /\ \E c \in ResultsOn(r, Empty) : file' = [file EXCEPT ![Target(r)] = c]
    /\ work' = [work EXCEPT ![r].linked = TRUE]
    /\ PipelineReturns(r, -1)
    /\ UNCHANGED <<dirs, tree, temp, lost, edited, faults>>

(* decompress_file_chunked meets the end of its input inside a record.        *)
InTornRecord(r) == Decompresses(r) /\ U("torn", 0) \in ToSet(work[r].coded.units)

PipelineOk(r) ==
    /\ pc[r] = "writing" /\ ~InTornRecord(r)
    /\ Writes(r, work[r].coded)
    /\ PipelineReturns(r, 0)
    /\ UNCHANGED <<dirs, tree, temp, work, lost, edited, faults>>

(* return -1 before the output is opened: there is no input, it is not one    *)
(* that the stages accept, or an old-format decoder gives up.  A NULL for the *)
(* name of the output comes to the same.                                      *)
PipelineRefuses(r) ==
    /\ pc[r] = "pipe"
    /\ IF Outcomes(r) \subseteq {Garbage} /\ ~TruncatesFirst(r)
       THEN UNCHANGED faults ELSE Fault
    /\ PipelineReturns(r, -1)
    /\ UNCHANGED <<fs, temp, work, lost, edited>>

(* return -1 afterwards, for ever growing until the disk is full included.    *)
PipelineFails(r) ==
    /\ pc[r] \in {"writing", "growing"}
    /\ IF InTornRecord(r) THEN UNCHANGED faults ELSE Fault
    /\ PipelineReturns(r, -1)
    /\ UNCHANGED <<fs, temp, work, lost, edited>>

(*********************** extract_directory_archive_file **********************)

ReadHeader(r) ==
    /\ pc[r] = "header"
    /\ LET c == file[temp[r]]
       IN IF c # NoFile /\ c.layers = <<>> /\ Len(c.units) >= 2
             /\ c.units[1].kind = "magic" /\ c.units[2].kind = "count"
          THEN /\ work' = [work EXCEPT ![r] =
                    [@ EXCEPT !.units = SubSeq(c.units, 3, Len(c.units)),
                              !.left = c.units[2].val, !.member = NoMember,
                              !.making = <<0>>]]
               /\ Goto(r, "checkdir") /\ UNCHANGED result
          ELSE Ends(r, -1, "rmtemp") /\ UNCHANGED work
    /\ UNCHANGED <<fs, call, temp, lost, edited, faults>>

(* create_directory: the stat and the mkdir are two steps.  Without its parent*)
(* mkdir fails, the parent is created in the same way, and mkdir tried again. *)
(* `making' is the stack of these calls.                                      *)
Directory(r) == <<call[r].output, Head(work[r].making)>>
Exists(r) == Directory(r) \in dirs \/ (Directory(r)[2] = 0 /\ file[call[r].output] # NoFile)

Made(r) ==
    /\ work' = [work EXCEPT ![r].making = Tail(@)]
    /\ Goto(r, IF Len(work[r].making) > 1 THEN "mkdir"
               ELSE IF work[r].member = NoMember THEN "next" ELSE "create")
    /\ UNCHANGED result

CheckDirectory(r) ==
    /\ pc[r] = "checkdir"
    /\ \/ ~Exists(r) /\ Goto(r, "mkdir") /\ UNCHANGED <<work, result>>
       \/ Exists(r) /\ Directory(r) \in dirs /\ Made(r)
       \/ Exists(r) /\ Directory(r) \notin dirs /\ Ends(r, -1, "rmtemp") /\ UNCHANGED work
    /\ UNCHANGED <<fs, call, temp, lost, edited, faults>>

MakeDirectory(r) ==
    /\ pc[r] = "mkdir"
    /\ LET dir == Directory(r)
           parent == ParentSub[dir[2]]
       IN IF Exists(r)
          THEN Ends(r, -1, "rmtemp") /\ UNCHANGED <<dirs, work>>
          ELSE IF dir[2] = 0 \/ <<dir[1], parent>> \in dirs
          THEN dirs' = dirs \cup {dir} /\ Made(r)
          ELSE /\ work' = [work EXCEPT ![r].making = <<parent>> \o @]
               /\ Goto(r, "checkdir") /\ UNCHANGED <<dirs, result>>
    /\ UNCHANGED <<file, tree, call, temp, lost, edited, faults>>

(* Variants: as many entries as the file has, and one more than it says.      *)
EndOfArchive(r) == work[r].units = <<>>
OneMore(r) == work[r].left < 0

(* extract_archive_entry: what comes before the bytes.                        *)
EndOfEntries(r) == work[r].left = 0

NextEntry(r) ==
    /\ pc[r] = "next"
    /\ LET rest == work[r].units
       IN IF EndOfEntries(r) THEN Ends(r, 0, "rmtemp") /\ UNCHANGED work
          ELSE IF Len(rest) < 2 \/ rest[2].kind # "size"
          THEN Ends(r, -1, "rmtemp") /\ UNCHANGED work
          ELSE /\ work' = [work EXCEPT ![r] =
                    [@ EXCEPT !.member = rest[1].val, !.size = rest[2].val,
                              !.units = SubSeq(rest, 3, Len(rest)),
                              !.making = <<SubOf[rest[1].val]>>]]
               /\ Goto(r, "checkdir") /\ UNCHANGED result
    /\ UNCHANGED <<fs, call, temp, lost, edited, faults>>

SetMember(r, body) == tree' = [tree EXCEPT ![call[r].output][work[r].member] = body]

(* fopen(full_path, "wb") truncates a file that is there.                     *)
CreateMember(r) ==
    /\ pc[r] = "create"
    /\ SetMember(r, <<>>)
    /\ Goto(r, "fill")
    /\ UNCHANGED <<file, dirs, call, temp, work, result, lost, edited, faults>>

(* The bytes from the start of the file, where another run may have written.  *)
Put(body, old) == body \o SubSeq(old, Len(body) + 1, Len(old))

(* What the archive still has of the bytes that the entry claims.             *)
Available(r) ==
    LET rest == work[r].units
        there == {n \in 0 .. work[r].size :
                    n <= Len(rest) /\ \A i \in 1 .. n : rest[i].kind = "byte"}
        most == CHOOSE n \in there : \A k \in there : k <= n
    IN [i \in 1 .. most |-> rest[i].val]
IsWhole(r) == Len(Available(r)) = work[r].size

FillMember(r) ==
    /\ pc[r] = "fill"
    /\ SetMember(r, Put(Available(r), tree[call[r].output][work[r].member]))
    /\ IF IsWhole(r)
       THEN /\ work' = [work EXCEPT ![r].left = @ - 1,
                   ![r].units = SubSeq(@, work[r].size + 1, Len(@))]
            /\ Goto(r, "next") /\ UNCHANGED result
       ELSE Ends(r, -1, "rmtemp") /\ UNCHANGED work
    /\ UNCHANGED <<file, dirs, call, temp, lost, edited, faults>>

(* A write that fails is noticed, unless it is the one that fclose makes.     *)
FillFault(r) ==
    /\ pc[r] = "fill" /\ IsWhole(r)
    /\ Fault
    /\ \E n \in 0 .. work[r].size - 1 :
          SetMember(r, Put(SubSeq(Available(r), 1, n), tree[call[r].output][work[r].member]))
    /\ \/ Ends(r, -1, "rmtemp") /\ UNCHANGED <<work, lost>>
       \/ /\ work' = [work EXCEPT ![r].left = @ - 1,
                   ![r].units = SubSeq(@, work[r].size + 1, Len(@))]
          /\ lost' = lost \cup {r}
          /\ Goto(r, "next") /\ UNCHANGED result
    /\ UNCHANGED <<file, dirs, call, temp, edited>>

UnpackFault(r) ==
    /\ pc[r] \in {"header", "mkdir", "next", "create"}
    /\ Fault
    /\ Ends(r, -1, "rmtemp")
    /\ UNCHANGED <<fs, call, temp, work, lost, edited>>

(******************************** the steps **********************************)

ArchiveStep(r) ==
    \/ MakeTemp(r) \/ TempFails(r) \/ RemoveTemp(r)
    \/ ListDirectory(r) \/ OpenArchive(r) \/ StatEntry(r) \/ OpenEntry(r)
    \/ CopyEntry(r) \/ CloseArchive(r) \/ PackFault(r) \/ DropArchive(r)
    \/ PipelineOpens(r) \/ PipelineTruncates(r)
    \/ PipelineOk(r) \/ PipelineRefuses(r) \/ PipelineFails(r)
    \/ ReadHeader(r) \/ CheckDirectory(r) \/ MakeDirectory(r) \/ NextEntry(r)
    \/ CreateMember(r) \/ FillMember(r) \/ FillFault(r) \/ UnpackFault(r)

(* A user changes a file of a directory in place, or removes it: not while it *)
(* is being read or written (who has it open would not see the difference),   *)
(* and only while the directory is being packed (before and after, it makes no*)
(* difference).                                                               *)
BeingPacked(n) == \E r \in Run : pc[r] \in PackLabels /\ call[r].input = n
IsOpen(n, m) ==
    \E r \in Run :
       \/ pc[r] = "copy" /\ call[r].input = n /\ Head(work[r].entries) = m
       \/ pc[r] = "fill" /\ call[r].output = n /\ work[r].member = m

Edit(n, m, body) ==
    /\ Cardinality(edited) < MaxEdits
    /\ BeingPacked(n) /\ tree[n][m] \notin {NoFile, body}
    /\ body = NoFile => ~IsOpen(n, m)
    /\ tree' = [tree EXCEPT ![n][m] = body]
    /\ edited' = edited \cup {<<n, m>>}
    /\ UNCHANGED <<file, dirs, pc, locals, lost, faults>>

Kill(r) ==
    /\ pc[r] \in Busy
    /\ Fault
    /\ Goto(r, "killed")
    /\ UNCHANGED <<fs, locals, lost, edited>>
==============================================================================

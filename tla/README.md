# A TLA+ model of CLI-GSEA

CLI-GSEA is a command-line program in C that compresses, decompresses,
encrypts and decrypts files and whole directories. Files are handled by a
pipeline of one or two streaming stages, directories by packing them in an
archive first; a library function also runs the pipeline over the files of a
directory with one thread each. This directory holds a TLA+ model of it, the
TLC configurations that check it on small instances, and proofs for every
instance.

Paths below are those of the repository, with its root called `src/`.

## 1. Inventory

| Component | Source | State it keeps | Operations |
|---|---|---|---|
| File pipeline | `src/src/operations.c` | open descriptors and their offsets, `temp_path`/`temp_active`, `next_temp`, `key_index`, the chunk buffers | `execute_file_pipeline`; `compress_file_chunked`, `decompress_file_chunked`, `decompress_legacy_file`, `encrypt_file_stream` (both directions), `copy_file_stream`; headers, temporaries |
| Directory pool | `src/src/concurrency.c` | the list of paths, `threads[]`, `thread_data[]`, the counters | `process_directory_concurrent`, `init_thread_pool`, `process_single_file`, `generate_output_path` |
| Directory listing | `src/src/dir_utils.c` | none | `read_directory_recursive` |
| RLE codec | `src/src/compression_rle.c` | position, literal buffer, output buffer | `compress_rle`, `decompress_rle` |
| LZW codec | `src/src/compression_lzw.c` | dictionary, bit buffer | `compress_lzw`, `decompress_lzw` |
| Huffman codec | `src/src/compression_huffman.c` | frequencies, tree, code table, bit buffer | `compress_huffman`, `decompress_huffman` |
| Directory archives | `src/src/archive.c` | the temporary and its stream, the list of entries, `remaining` | `create_directory_archive_file`, `extract_directory_archive_file`, `is_gsea_archive_file`; `process_directory_with_pipeline` and `process_archive_to_directory` join them to the pipeline; `generate_auto_output_path` |
| Command line and dispatch | `src/src/args_parser.c`, `src/src/main.c` | `program_config_t` | parse, validate, choose a mode, execute |
| In-memory cipher | `src/src/encryption_vigenere.c` | none | `vigenere_encrypt`, `vigenere_decrypt` |
| File helpers | `src/src/file_manager.c` | none | `read_file`, `write_file`, `create_directory`, predicates |

### How they interact

`main` parses the arguments into a `program_config_t`, looks at the input path
and calls `execute_file_pipeline` for a file; for a directory,
`create_directory_archive_file` writes an archive in a temporary, on which the
pipeline is then run; for what it recognises as an archive, the pipeline runs into a
temporary, which `extract_directory_archive_file` turns into a directory. If that
fails, `execute_operations` tries the input once more as a single file.
`process_directory_concurrent` starts one thread per file, and every thread
calls `execute_file_pipeline`. The pipeline calls the codecs on one chunk (1
MiB) at a time. All state that calls share is the file system, with `/tmp`
where temporaries are made, and, inside the pool, the heap.

### What is hard in it

* **Interleaving.** Pipeline calls run at once in threads, and in separate
  runs of the program, over one file system and one `/tmp`. The pool's main
  thread allocates, frees and reads what its threads use; only the joins order
  the two.
* **Partial failure.** Any of the dozens of system calls of a stage may fail, and
  every exit must release what it holds: the temporary of this stage, the one of
  the stage before, but never the output.
* **Short reads and writes.** `read` returns what it likes; records and the key
  position must not depend on how a file is cut. The stream header does: it is taken by
  one `read`, and one that returns less than its 12 bytes makes the file, whatever it
  is, one of the old format.
* **Killed processes.** A stream has no end mark. What a killed run leaves must be
  refused or be decoded to a beginning of the original.
* **A file system others use.** A directory changes while it is packed: an entry's
  size is taken before it is opened. `create_directory` looks before it creates. The
  input is looked at when the mode is chosen and used later; the name made up for the
  output may be that of the input.
* **Format recognition.** A file without the stream header is given to the decoder
  of the old format; another version or codec must be refused before the output
  is truncated.
* **Arithmetic.** Lengths in a byte of seven bits with a minimum of three, a
  dictionary that is full at 4096 codes, `size_t` subtraction that wraps around.

`PROJECT.json` lists every hazard at its line, with the properties that cover it.

### What makes each component correct

* *Pipeline*: 0 is returned only if the output is the whole transformation of the
  input; undoing gives the original back; temporaries are exclusive and never
  leaked; a refused call leaves an existing output alone; every call returns.
* *Pool*: what a thread was given outlives it; 0 means that every listed file was
  transformed; only created threads are joined; every file has its result.
* *Codecs*: decoding inverts encoding; buffers have room; damaged input is refused
  or decoded inside the buffer.
* *Archives*: a pack that returns 0 made an archive that can be extracted, of files as
  they were; an unpack that returns 0 extracted all of its archive; no return leaves a
  temporary; nothing is refused without a reason.
* *Command line*: exit status 0 means that what was asked was done; the input survives;
  every run ends.

## 2. Modules

| Module | Models | Lines of code it stands for |
|---|---|---|
| `PipelineStages` | the stages chosen, and coding as a stack of layers; shared by the next two | `operations.c` 174-206, 563-566, 674-700 |
| `FileTransform` | what `execute_file_pipeline` promises: a call runs, its output goes through any state, it returns 0 only with a complete output, returns -1, or dies | `operations.c` 671-754, from the caller's side |
| `FilePipeline` | the pipeline itself; implements `FileTransform` | `operations.c` 57-754 |
| `FilePipelineProofs` | its theorems, and lemmas about units, keys and streams | |
| `FaithfulProofs` | its theorems about what a call computes, and that it implements `FileTransform` | |
| `DirectoryPool` | the thread pool; each thread's call implements `FileTransform` | `concurrency.c`, `dir_utils.c` |
| `DirectoryPoolProofs` | its theorems | |
| `Archive` | packing and unpacking directories, several runs and users on one file system | `archive.c`, `file_manager.c` 160-226 |
| `Gsea` | command lines, the choice of mode, names of outputs, the fallback; composes them with `Archive` | `args_parser.c`, `main.c`, `archive.c` 260-329, 402-421, 458-486 |
| `GseaProofs` | its theorems | |
| `WholeProofs` | its theorems about what an archive holds and what is extracted from one; extends `GseaProofs` | |
| `Rle` | the RLE codec byte by byte | `compression_rle.c` |
| `RleProofs` | its theorems | |
| `Lzw` | the LZW codec code by code | `compression_lzw.c` |
| `LzwProofs` | its theorems | |
| `Huffman` | the Huffman codec: tree, codes, bits | `compression_huffman.c` |
| `HuffmanProofs` | its theorems | |
| `MC...` | instances for TLC | |

`FileTransform` is what composes them: `FilePipeline` is shown to implement it,
and `DirectoryPool`, which replaces the pipeline by three steps, is shown to use
it as its threads' behaviour (`Calls!TransformSpec`). In `Archive` a call of the pipeline
is that promise with the result worked out: the output is opened and holds some beginning
of the result, then the call returns 0 with all of it, or -1. `Gsea` extends `Archive`: a run
of the program is a command line or the call of a function of `archive.h`, and goes
through both modules' actions.

### FilePipeline

A *worker* is one call of `execute_file_pipeline`, in a process. Its variables are
the C locals: `stage` is `i + 1`, `temp` is `temp_path` while `temp_active`, `next`
is `next_temp`, `inOff`/`outOff` the offsets of the descriptors, `keyIndex` is
`key_index`, `pending` what is coded and not yet written. `files` and `data` are the
file system. One action is a system call, or a group of them no other call can
see:

| Action | Code |
|---|---|
| `Call`, `ChooseOutput`, `CreateTemp`, `TempFails` | the head of the loop over stages, `create_temp_path` |
| `OpenInput` | `open(input_path)`, the key check |
| `ReadStreamHeader`, `DecodeLegacy`, `RefuseLegacy` | `read_stream_header`, whose one `read` may return less than the header, and its verdicts; `decompress_legacy_file` |
| `CreateOutput` | `open(output_path, O_TRUNC)`, the stream header owed, `key_index = 0` |
| `ReadChunk` | one turn of the copy, cipher and compression loops |
| `ReadRecord` | one turn of the decompression loop |
| `Write`, `TornWrite` | `write_all`, whose writes may be short and may fail inside a header |
| `StageFault` | any other failing system call or `malloc` |
| `EndOfInput`, `StageOk`, `StageFail` | the returns of a stage and what `execute_file_pipeline` does with them |
| `Crash` | a killed process takes all of its calls with it |

**Data.** A file is a sequence of *units*. A data unit is a byte; the 12-byte stream
header is one unit and an 8-byte chunk header another; a header of which a failing write
left a part is a `torn` unit. A chunk header that is not read whole is read on or refused. A
stream header that is not read whole sends the call to the decoder of the old format, and
`misread` is the set of the calls to which that happened with a header that is there (of any
version): no fault is counted for it, as `read` may return less at any time. What such a call
returns 0 with is any junk, and the properties that speak of results except just these calls. Coding puts a *layer* on
each unit, named after the codec or the key byte used. Xor with the same key byte
twice takes the layer off; xor with another leaves two, so a wrong key position
shows. No two layers of one key byte lie next to each other (`Reduced`), as xor
leaves none. What a stream contains is stated without a parser (`IsStreamOf`): every
record's payload has the codec's layer outermost, no header has, and the payload's
units in their order are the input's. Codecs are lossless layers here; the codec modules look inside them (and
find that RLE and Huffman are not always lossless, below). The key moves by one for a header
unit as for a byte, where the code moves by twelve or eight: both directions
count alike, so nothing a property tells apart depends on it. `ReadRecord` reads a
chunk header and its payload in one step: nobody may change a file that a call is
reading, which `SourceIsStable` establishes in the same model.

**Assumption on callers.** `SeparationAssumption`: two calls have different outputs,
a call's input is not its output, and a file that one call makes and another
reads is read after the first has ended. The code checks none of this; without it
`compress_file_chunked` may read what it writes for ever. `DirectoryPool` shows that
the pool itself breaks the first part when base names collide.

### DirectoryPool

The main thread's variables are those of `process_directory_concurrent`:
`paths` (in any order, as `readdir` has none), the loop index `i`, `threads[]` as `handle`, `thread_data[i].output_file` and
`.success`, the two counters. `handle` starts as *any* function, since `threads[]` comes
from `malloc`. Freed memory is tracked: `outputFile` is `live`, `null` or `dangling`,
`freed` says which tables are gone. A thread opens its output (truncating it),
writes it, and returns; another thread with the same output path can do the same in
between. `pthread_join` of a handle that no `pthread_create` filled, and the double
`free` that follows, are undefined: the process aborts or goes on.

### Archive and Gsea

`pc` is where a run is in `archive.c` (or in `main`), `call` its mode, configuration and
paths, `temp` is `temp_path`, `work` the other locals of the function it is in: the list
still to be packed, the units in the stream's buffer or still to be read, an entry's
`size` and how many bytes are `left`, the stack of `create_directory` calls. A label is
between two system or stdio calls that another run or a user can come between:

| Action | Code |
|---|---|
| `Main` | `parse_arguments` with `validate_config`; on an error or `-h` the exit |
| `Dispatch` | `execute_operations`: the rule on `.huff`, `detect_operation_mode` (a call of which fails: a single file), the conditions of `execute_directory_operations` |
| `NameOutput` | `process_output_path` with `generate_auto_output_path`: the `stat` and `strdup` without which the extension stays, the `malloc` without which the name is `salida.gsea` |
| `CallLibrary` | `compress_directory_only` and its five siblings, called by another program |
| `MakeTemp`, `TempFails`, `RemoveTemp` | `create_temp_archive_file`; the caller's `unlink` and return |
| `ListDirectory` | `read_directory_recursive` |
| `OpenArchive`, `CloseArchive` | `fopen`, the header; `fclose`, which writes what is buffered and whose status is not looked at |
| `StatEntry`, `OpenEntry`, `CopyEntry` | `write_archive_entry` with `copy_stream`, byte by byte |
| `DropArchive`, `PackFault` | the error exits, with the first of the two `unlink`s |
| `PipelineOpens`, `PipelineOk`, `PipelineRefuses`, `PipelineFails` | `execute_file_pipeline`; among what it makes is `Misread`, after a short read of the stream header, counted as a fault here |
| `PipelineTruncates` | the same on a directory, which opens but can not be read, by a stage that opens its output first |
| `ReadHeader`, `NextEntry`, `CreateMember`, `FillMember`, `FillFault`, `UnpackFault` | `extract_directory_archive_file`, `extract_archive_entry` |
| `CheckDirectory`, `MakeDirectory` | `create_directory`: its `stat`, its `mkdir`, and the recursion for a parent that is missing |
| `Return` (in several) | back in `execute_operations`, with the fallback, which asks for the output's name once more |
| `Edit`, `Kill` | users; a killed process |

**Data.** A file is a sequence of units (magic, count, path, size, byte) under a stack of
layers. Here a layer covers the whole file, since a call of the pipeline is not looked
into; `FilePipeline` has shown what becomes of it unit by unit. A cut inside a unit is a
`short` unit, inside a record of a stream a `torn` one; inside the stream's header it leaves `Garbage`. A directory is its members' bodies
(`tree`) and its subdirectories (`dirs`). A path is whether it is in the working
directory and its last part, divided at the dots (names that begin with a dot are left out);
`PathOf` gives it for each name, and `PlanAssumption` says that what a command line may make
up is a name. Temporaries'
names are distinct from all others, as those of `/tmp` are. What a file of the old
format decodes to is nothing or `Garbage`.

A run that writes to its own input is modelled: opening the output truncates it, so a
cipher reads an end of file and a compressor reads what it writes ("growing"), which ends
only when the disk is full (`PipelineFails`).

Users edit a directory only while it is packed, since before and after an edit makes
no difference to any run. Left out: the lengths of paths and keys (`MAX_PATH_LENGTH`), and changes of the
directory during the listing, which is one step. Failures that meet in one listing, any files and
subdirectories passed over, count as one fault; so do those of one making of a name, and of one choice of a mode.

### Rle

One behaviour encodes an input and decodes the result, or decodes any bytes. The
actions are the turns of the loops. The tag's length field has `Mask` as parameter
(127 in the code), so that short inputs reach the full literal buffer, the longest
run, and the remainder of a cut run; `chunk - RLE_MIN_RUN` is computed modulo the
width as the code's unsigned arithmetic and mask do.

### Lzw

As `Rle`: a behaviour encodes an input and decodes the result, or decodes a header
and any codes. `dict` is the encoder's `dictionary[256 .. dict_size - 1]`, `known` the
decoder's, as sequences of entries, so that `dict_size` is `DictSize`. The size of the
alphabet (256) and of the full dictionary (4096) are parameters. `build_sequence`, which
follows prefixes and reverses, is the recursive function `Sequence`; `find_in_dict`
is the least of `Found`. `Header` holds what a header claims, which for a damaged file
need not be true.

### Huffman

`Init` to `BuildTable` are `build_huffman_tree` and `build_huffman_codes` together: a node
carries the codes its leaves have below it, so a tree that is joined to another
gets one more bit in front of each. The selection sort is not stable and moves nodes
of equal frequency about; `LeastTwo` takes any two least nodes, so what is checked
holds for every such order. A code is a sequence of bits, in the table that is
stored (`Serialized`) filled up with zeros to whole bytes as in the code. `DecodeByte` is a
turn of the outer loop: the shortest next bits that are a code; where a damaged table
has one code twice any of its bytes is taken, of which the code takes the first. The
limits 10 (small files), 32 (length of a code) and 8 are parameters. A node that
`create_node` could not allocate is used all the same: the process ends (`NoNode`).

## 3. Runs

| Run | Instance | States | Shows |
|---|---|---|---|
| `pipeline_chain` | two runs of the program, the second reading what the first made; 4 configurations for the first, 5 for the second; an input that holds a header among its bytes | 184 786 | `TypeOK`, `SuccessIsFaithful`, `RoundTrip`, `DamagedGivesPrefix`, `LateOutput`, `EveryCallReturns`, and the refinement of `FileTransform` |
| `pipeline_pool` | two threads, one packing, one unpacking streams, encrypted streams, truncated streams, old-format, future, empty and missing files | 183 069 | `TempsAccountedFor`, `RefusalLeavesOutput`, `SourceIsStable` |
| `pool` | three files, up to two failing library calls | 14 925 | `WorkersKeepTheirData`, `ZeroMeansAllSucceeded`, `NothingLeftBehind`, `SuccessesAreCounted`, `PoolReturns`, refinement |
| `pool_join` | the same, one fault | | `OnlyCreatedAreJoined` is violated |
| `pool_same_name` | two files of one base name, no fault | | `EveryFileHasItsOutput` is violated |
| `rle` | all inputs of two symbols to 9 bytes, runs to 16, all damaged streams of 4 bytes | 48 376 | `LosslessUnlessShortRemainder`, `RoomForEverything`, `PassesAgree` |
| `rle_long_runs` | the same | | `Lossless` is violated |
| `lzw` | all inputs of two symbols to 10 bytes, a dictionary of 5 codes, damaged files | 506 260 | `Lossless`, `DictionariesInStep`, `RoomForCodes`, `EntriesLeadBack`, `InsideBuffers` |
| `huffman` | five symbols in up to 7 bytes, all orders of up to 5 bytes of three, damaged files | 207 717 | `LosslessUnlessOneSymbol`, `CodesAreAPrefixCode`, `ShortestCode`, `InsideBuffer` |
| `huffman_one_symbol` | the same | | `Lossless` is violated |
| `gsea` | all plans below | 163 993 | `PackedIsWhole`, `UnpackedIsWhole`, `RefusedForCause`, `TempsAreCleared`, `OperationsDone`, `InputSurvives`, `EveryRunEnds` |
| `gsea_directory` | `MainPlans` | | `DirectoryComesBack` is violated |

**Bounds.** Pipeline: chunks of two units and inputs of two or three give a full
chunk, a partial one and an end; a key of two bytes makes the key position after a
read of one unit differ from the one after a read of two; three units with a header
leave the key at an odd position. One failing call (`MaxFaults = 1`) together with a
kill of each process covers every exit, since a call that fails once returns; two
temporaries suffice for two calls, and `pipeline_chain` also uses them up by
killing. Pool: three slots make a first, a middle and a last; two faults make two
bad slots or a bad slot and a failing pipeline. RLE: two bits of length give
literals of four and runs of six, so nine bytes hold a full literal buffer and a
run, or a run that is cut with each possible remainder; 13 to 16 are cut twice.
Two symbols are enough since the code only compares a byte with its neighbour. LZW:
three entries fill the dictionary; up to ten equal bytes use each of them right
after it was entered, the last one included, and go on with a full dictionary; the
damaged files are all sequences of up to four codes with any claims in the header, and
sequences of five that fill the decoder's dictionary. Huffman: the code depends on the
frequencies alone, so sorted inputs give every tree of five symbols, those of one and
of two included, and the shorter unsorted ones the order of the bits; with at most
seven bytes no code is longer than three bits, as with a chunk of 1 MiB none is longer
than 32. Damaged tables have up to two entries, codes that are equal, that begin
one another, that have no bits, and padding that is not zero.

`Gsea`: a plan says what each run is (a command line or a library call), which waits for
which, whose directory users change, and what files there are. `LibraryPlans`: one packs
a directory of two files, one of them two directories down, while users change it, the
next unpacks the result. `PairPlans`: two runs pack one directory at once, or extract
one archive to one directory, missing or existing. `DamagedPlans`: an unpack of every
beginning of an archive, cut between units or inside one, of no archive, of one that is
coded in another way; a missing directory, an output that is of the other kind.
`MainPlans`: packed and unpacked from the command line under each operation. `LinesAtOnce`: two command lines at once, the second of the
same file or of what the first makes. `LinePlans`:
eight combinations of operations on eleven inputs, with and without each extension, inside
and outside the working directory, file, archive, directory and missing, and lines that name an
output, are wrong or have several options. An archive in `x.enc` that can not be extracted
under `-u` is tried again as a single file, and that succeeds; the fallback of `s.rle` and `s.enc`, whose
made-up name is a directory, can not. One file that is changed and one failing
call or kill meet every step of every plan; two temporaries suffice for two runs, and with one
that a killed run left there is still one. Bodies of one and two bytes, emptied or
replaced, make a file longer, shorter and equal; `ReadBody` bounds what `PackedIsWhole`
supposes that was read of a file while it changed.

**Deadlock** is not checked (`CHECK_DEADLOCK FALSE`): every behaviour ends when all
calls have returned. `EveryCallReturns`, `PoolReturns` and `EveryRunEnds` say that they do not end
earlier; the codecs' loops are bounded by their input.

**Fairness.** Weak fairness of the steps of each call, of the main thread and of each
thread: the scheduler runs what can run, and no step of one waits for a lock. It is
assumed of nothing that fails: faults and kills may happen or not. A call's steps
are fair together, not one by one, so a read may return one unit each time. In `Gsea`
the steps of each run are fair, with the same reason; `EveryRunEnds` excepts the run that
compresses a file into itself, whose end depends on the size of the disk.

## 4. What is proved

`FilePipelineProofs` proves, for any number of calls, processes, files, temporaries,
faults, any chunk size and any configurations that satisfy `PipelineAssumption` (and
for `SourcesStable` also `SeparationAssumption`):

| Theorem | States |
|---|---|
| `TypeCorrect` | `Spec => []TypeOK` |
| `TemporariesAccounted` | `Spec => []TempsAccountedFor` |
| `OutputOpenedLate` | `Spec => []LateOutput` |
| `SourcesStable` | `Spec => SourceIsStable` |

The inductive invariant is `Inv == TypeOK /\ Control /\ Holds /\ Accounted`. None of
`TypeOK` and `TempsAccountedFor` is inductive alone: that a key has a length when a
cipher runs, and that `Target` is a file name, need `Control` (the label says what
stage the call is in and that its checks were passed); that a stage that fails
removes exactly what the call holds needs `Holds` (label by label, which of `temp`
and `next` are set), and that a new temporary is nobody else's needs `Accounted` (a
temporary exists exactly when one call holds it), for `mkstemp` promises only that
the name did not exist. `LateOutput` then needs that a stage other than the last
writes to a temporary, which is not a path of a caller; `SourcesStable` needs
`Control`'s last part (a call runs only after those it waits for), by which the
source of a running call is no other running call's target.

Lemmas give the type of what each helper returns (`XorFrom`, `Coded`, `Decoded`,
`WriteAt`, `ChunkRecord`, ...) and are used in the proof of `TypeCorrect`.

`FaithfulProofs` proves, for the same parameters with `SeparationAssumption`, what a call
computes, for each of the configurations of one or two stages, any length of the key
and however the reads and writes cut the file, if the stream header is not cut by the one
read that is for it (`misread`):

| Theorem | States |
|---|---|
| `SuccessFaithful` | `Spec => []SuccessIsFaithful` |
| `RefusalCostsNothing` | `Spec => []RefusalLeavesOutput` |
| `RoundTripFaithful` | `Spec => []RoundTrip` |
| `DamagedGivesBeginning` | `Spec => []DamagedGivesPrefix` |
| `PipelineRefines` | `Spec => Abstract!TransformSafety`: the refinement `pipeline_chain` checks, without its liveness |

Its invariant `FaithfulInv` adds to `Inv` what is known of each call (`Known`): of one that misread a
header, that it decompresses a file that is there, and after the calls it waits for have ended (`Misled`), by which it is
never one that packs; of any other `Progress`, five parts
by where the call is: in its second stage, that the temporary is what the first stage
made of the input (`Staged`); that the source exists and its header was accepted
(`Opened`); in a loop, that what is written together with what is pending is what the
stage makes of the units read so far, and that `keyIndex` is `inOff` modulo the key's
length (`Advanced`); behind it, that it is all of it (`Done`); and that an output which was
touched was touched by a call whose input was accepted (`Accepted`). The invariant is
needed in this form because a short write leaves any part pending, and because the
second stage knows its input only as what the first has made. `RemainderOfSum` is the
arithmetic by which the code's reductions of the key's position after every read come to the one
remainder of `Transformed`; `StreamGrows` says that one more record makes a stream of as many
more units. That nobody else changes a file meanwhile (`OthersUndisturbed`) is what
`SeparationAssumption` is needed for. `RoundTripFaithful` follows from two facts about
data: a stream is a stream of one sequence only (`StreamDetermines`), and enciphering twice
changes nothing (`EncryptedTwice`), both in `FilePipelineProofs`.

`DamagedGivesBeginning` needs what a call leaves at any moment, not only at its end: `DamageInv` adds to
`FaithfulInv` that the output of a call that has touched it is a beginning of what `Makes` allows,
whole units but for a last header that a failing write tore (`PartMade`, with `Tearable` and `Torn`). It is
kept because a stage only ever appends what it has made of the units read. The rest is data: a beginning of a stream,
decoded chunk by chunk, is a beginning of what was coded, the cipher works unit by unit, and
a torn header is refused, or, behind a cipher alone, comes out as torn as it went in. What is left of a stream that does not begin with a
whole stream header is excepted (`Recognised`): it is a file of the old format for the code.

`PipelineRefines` is a simulation step by step: `complete` of `FileTransform` is mapped to
"runs or has returned 0, and the output is the whole transformation", or anything for a call that misread its header: of
that one the abstract specification hears only that it is done. A step of a call is
its `Work`, `Finish`, `Fail` or a stutter; the return of 0 needs `SuccessFaithful`'s invariant,
and that no other call's step takes the completeness back needs `OthersUndisturbed`.

`RleProofs` proves, for any input, damaged bytes, width of a tag and least run that satisfy
`RleAssumption`:

| Theorem | States |
|---|---|
| `LosslessExactly` | `Spec => []LosslessUnlessShortRemainder` |
| `TwoPassesAgree` | `Spec => []PassesAgree` |
| `BufferSuffices` | `Spec => []RoomForEverything` |
| `TypeCorrect` | `Spec => []TypeOK` |

The decoder's meaning is stated on its own: `Tokens(c, d, P, M)` says that the bytes `c` are tokens
which begin at `P` and decode to `d`, of which `M` counts what those before a place make. While
encoding, what is written and the literals that are held decode to an `Image` of the bytes read: these
bytes if no run before was cut with a short remainder, and more bytes than were read if one was, since a
length that wrapped around is too long. So the input comes back exactly
when there is no such remainder. Both passes of the decoder walk the same tokens, which is
why the second never meets an error or the end of the buffer. `RunLength` is a least
element, which exists by the well-foundedness of the naturals (`Least`).

`LzwProofs` proves, for every alphabet, size of the dictionary, input and damaged file
that satisfy `LzwAssumption`:

| Theorem | States |
|---|---|
| `EveryInputComesBack` | `Spec => []Lossless` |
| `DecoderKeepsPace` | `Spec => []DictionariesInStep` |
| `DictionariesAreSound` | `Spec => []EntriesLeadBack`: `build_sequence` always ends, and no entry is made beyond the last |
| `CodesHaveRoom` | `Spec => []RoomForCodes`: `compress_lzw` never enlarges `codes[]` |
| `BuffersSuffice` | `Spec => []InsideBuffers` |
| `TypeCorrect` | `Spec => []TypeOK` |

`Sequence` is a recursive function of an entry's number. That it exists and satisfies its
equation (`SequenceIs`) is proved from the least number for which it would not, since entries lead to
earlier ones. The heart of the invariant is `Encoded(cs, d, s, n, M)`: the codes `cs` spell
the first `n` bytes of `s`, each code the longest phrase of the dictionary of its time, and `d` is the
dictionary they made. The encoder keeps it (`LongerPhrase`, `NextCode`), the decoder, for whom `cs`
is what it has read, rebuilds `d` one code later (`DecoderFollows`); the case of a code that is not
entered yet is where the phrase begins and ends with the same byte, and is the last
entry of the encoder's dictionary and no other.

`HuffmanProofs` proves, for every input, file and order of nodes of equal frequency, under
`HuffmanAssumption`:

| Theorem | States |
|---|---|
| `EverySymbolHasItsCode` | `ShortInputs` implies `Spec => []CodesAreAPrefixCode` |
| `LosslessExactly` | `Spec => []LosslessUnlessOneSymbol` |
| `NothingPastTheBuffer` | `Spec => []InsideBuffer` |
| `TypeCorrect` | `Spec => []TypeOK` |

The invariant of the loop that joins nodes is `Forest` and `Deep`. `Forest`: each node stands
for some symbols, has a prefix code for them, and its frequency counts their places
in the input; the nodes share all symbols between them. `Deep`: a node with a leaf `h` bits
below it has a frequency of at least the Fibonacci number of `h + 2`, and every other node
one of at least that of `h + 1`. The second half is what makes it inductive: the two that
are joined are the least, so the rarer one bounds all the others. The root's
frequency is the length of the input, so an input shorter than the Fibonacci number of
`MaxLength + 3` has no leaf below `MaxLength`: `ShortInputs`. In the code this is
9 227 465 bytes for a depth of 32, and a chunk has at most 1 048 576; longer inputs given to `compress_huffman`
by another caller could lose a symbol's code, and are then refused with -7.
`huffman` runs at the bound, with seven bytes where eight would be too many. `LosslessExactly` does not need it. Encoding
keeps a map of where each byte's code begins in the bits (`Codes`); decoding is at such a
place, and the shortest bits that are a code are the code of the next byte because no
code begins another (`DecodesNext`). `HuffmanAssumption` says of a file from elsewhere what `whole` means: a small
file whose header was accepted has as many bytes as it says.

`DirectoryPoolProofs` proves, for any number of files, unreadable ones, output names,
faults and any garbage in `threads[]` (`PoolAssumption`):

| Theorem | States |
|---|---|
| `TypeCorrect` | `Spec => []TypeOK` |
| `WorkersSafe` | `Spec => []WorkersKeepTheirData` |
| `ZeroIsHonest` | `Spec => []ZeroMeansAllSucceeded` |
| `NothingLeft` | `Spec => []NothingLeftBehind` |
| `SuccessCountRight` | `Spec => []SuccessesAreCounted` |
| `PoolRefines` | `DistinctNames` implies `Spec => Calls!TransformSafety`: the refinement `pool` checks, without its liveness |

Its invariant is `TypeOK /\ Loops /\ Slots /\ Faultless /\ Counted`. `Loops` bounds the counters
by the loop index, without which `errorCount` has no type. `Slots` relates what the two
sides know of a slot: a running thread's output path is live, its handle is set, and
once the second loop is past the slot nothing of it runs. `Faultless` carries
"no error was counted" through both loops, by which 0 means what it says. `Counted` says
that what the second loop has counted are the successes of the slots it is past; a
thread changes `success` only before its join, so no later step disturbs it. `PoolRefines`
maps a slot to a call of `FileTransform`, step by step; that another thread's write
never takes back what a thread has completed needs `DistinctNames`, which `pool_same_name`
shows that the program does not establish. That a list has
no more entries than there are slots follows from the directory having each path once.

`GseaProofs` proves `TemporariesCleared == Spec => []TempsAreCleared` for any number of runs,
plans, faults, kills, edits and any sets of names and members that satisfy
`ArchiveAssumption`, `NameAssumption` (each name is a path) and `PlanAssumption` (no
temporary is given to the program or there at first, and what is made up without `-o` is a name). Its invariant adds to
`TempsAreCleared` the types of what it speaks of, `Held` (a run that handles a single file,
or is before or behind its temporary, has none: so the fallback can not lose one), and
`Given` (no output is a temporary's name, nor could one be made up (`Nameable`), so no run creates what another would have
to remove). Nothing is proved of who else has the temporary open: `DropArchive` may
remove another run's.

It further proves `TypeCorrect == Spec => []TypeOK`. `TypeInv` adds to the first invariant the types of
the file system (`OnDisk`, by which no directory has a temporary's name), of the history (`History`),
of each run's call (`Addressed`: what is extracted goes to a name of the user's), of its temporary
and of its locals (`Placed`, `Locals`: label by label, what is left to copy, that the entry at hand is a
member's, and that a stack of directories to make is not empty). None follows from the types of the variables
alone: that the copy's offset `size - left` is a natural number needs `left <= size`, and that it is read in a file
that is there needs that users remove none that is open. The loop
of `parse_arguments` is the recursive function `Parsing`; that it is a function that satisfies its equation,
and has a record of the right type at each argument, is proved from the least argument for which it
would not be so (`LoopExists`), and `AskedIsLast` says that it ends with the operations of the last
operations option.

From these comes `AskedIsDone == Spec => []OperationsDone`. `DoneInv` adds that a run has the configuration
that its command line asks for (`Requested`, until and after the fallback), that what it is about to write is what
the stages make of its input as it is, or that of a decoder of the old format (`Coded`), and that a run which has not begun has no paths
(`Fresh`), so that no other run is at work on its two files before it names them: what another may write is what `-o` says,
or any of the names it may come to make up (`MayWrite`). `Results` of one or two stages is `Expected` in each of the
cases, of the codec alone where the directions are mixed. The input must not be empty, nor the result that of the old format: an empty
file stays empty under the cipher, and an old-format decoder may return anything, after a short read of a header also of a stream.

`GseaProofs` also proves `InputLeftAlone == Spec => InputSurvives`: a run without `-o` never writes to
its input, nor does another run whose output is not that very name, in the usual directions
(`Protected`); the archive a run makes may of course be one that another reads. Where it packs, any failure of `stat`, `strdup` or `malloc`
is covered: each name it may then get has an extension of the program's. Where it unpacks, the run is protected if `stat`
found a regular file and neither `strdup` nor `malloc` failed as the name was made up (`seen`): the code leaves the extension on
if they do, and in the working directory the name is then the input's own (section 5). `NameInv` adds to the first invariant `OwnName` (the output of such a run
is unset or one of the names that `process_output_path` may make of its input, and if `seen` the one without the old extension, through the fallback
of `main.c` too) and `TreeShape`. `StepsSpareNames` is the fact about the code: any step of a run
changes nothing but its temporary and its output, as a file or as a directory. That the two names differ is then
`AutoNameExtension`: the name made up has one of the program's extensions exactly if something is
coded, and `salida.gsea` has one too. A library caller always says into what (`PlanAssumption`).

`WholeProofs` goes on from there. Its `PackedWhole` states, if `Seq(Nat) \subseteq ReadBody` (what users write while a file is read is not
bounded, as it is for TLC),

    Spec => []((\A r \in Run : Packing(r) => Sheltered(r)) => PackedIsWhole)

where a run is `Sheltered` if it is `Alone` (each other run waits for it, or it for them) and no other
run has its directory or its own output for an output, or could make up that name (`MayWrite`). Both are needed. The second, because what a run made does not
outlast a later one that is told to write there. The first, because only the plan keeps others
from its temporary: `DropArchive` unlinks a name that `RemoveTemp` unlinks again, and a
third run can be given the name between the two, as any number of runs and names may be at work here. The runs checked keep to
plans where neither arises but for the directory one run packs and another has for an output. `Kill`, faults and
users' edits of the directory, before and while its files are read, are as `Spec` has them. `WholeInv` adds
`Waits` (a run begins after those it waits for have ended, so that a sheltered run
that is at work is the only one, `OnlyOne`) and `Recorded`: `Underway`, what the units in the stream's buffer are
at each label of `write_archive_entry` (the list `S` was listed in, what was read of each of its first `k` files, and of the
file at hand the first bytes; a file that no user edited is read as it is now), and `Finished`, what
has been made of them since (`Archived`, in the temporary, in the pipeline, in the output). `ArchivedIsWhole` then says what an archive with that
history holds. The concatenation of the entries is again a recursive function, of which `FlattenMore` gives the step.

`UnpackedWhole` is the other direction:

    Spec => []((\A r \in Run : Unpacking(r) => Shielded(r) /\ Untouched(r) /\ Genuine(r)) => UnpackedIsWhole)

A run is `Shielded` if it is `Alone` and the runs that have, or could make up, its archive or its directory for an
output are among those it waits for (the archive may be what one of them has just made). `Untouched` says that no user edited the
directory, where an edit after the end would be one more difference. `Genuine` says
what the input may be: whatever its layers, if its contents begin as an archive does, they are what is left (`LeftOf`) of
an archive (`UnitsOf`) that names each member once: cut at any place, at an entry or within one, with marks where a write
or a record of a coded stream stopped half way. Without it the property
is false: an archive made elsewhere that has the same path twice, or bytes behind its last entry, is extracted with
status 0 too. `UnpackInv` adds `Unpacked`: what the stages made of
the archive is its units or garbage (`Decoded`, `StageKeepsUnits`), and at each label of
`extract_archive_entry` the first `k` files of the list are in the directory, as the list has them, while the
units read so far and those that are left make up the archive (`Extracting`: `Starting`, `Between` two entries, `Within`
one). As these hold of what is left of an archive, not of a whole one, `EntryReached` and
`EntryFilled` have to show that what was read is what the archive was made of: `LeftOfFirst`, a unit
that is there and is not a mark is the one that was written. `AllExtracted` then gives that nothing was missing.

**Only model-checked:** `ShortestCode` (that no prefix code is shorter than Huffman's is an induction over
the symbols with Kraft's inequality); of `Gsea`, `RefusedForCause`, which supposes that a temporary name is to be had, and `PackedIsWhole` and
`UnpackedIsWhole` of runs that are at work at the same time; and everything that is liveness: `EveryCallReturns`, `PoolReturns`, `EveryRunEnds` and the fair part of the two refinements. The induction theorems
of the library take an operator as parameter, which no installed prover instantiates;
where a proof here needs induction over data, it takes the least number for which a
statement fails (`Least` in four modules), which needs a set only.

## 5. What disagrees with the documentation

* `pool_join`: "Solo unir hilos que fueron creados" (`concurrency.c:181`). `threads[]` is
  never initialised, so a slot whose thread was not created is joined with whatever
  `malloc` left there; its output path may be freed twice.
* `pool_same_name`: files of the same base name in different subdirectories get one
  output path (`generate_output_path`); two threads write it, both succeed, 0 is
  returned, and one result is lost, where the README promises whole directories.
* `rle_long_runs`: a run longer than 130 bytes that leaves a remainder of one or two is
  coded with a length that wrapped around, and decodes to 128 bytes more without
  an error, against the round trip that the tests assert.
* `huffman_one_symbol`: an input of ten or more equal bytes gets a tree that is a single
  leaf, whose code has no bits; it compresses without an error and decompression
  always ends with error -6, against "Descomprimir un archivo" of the README.

* `gsea_directory`: a directory packed from the command line is not unpacked from it.
  The magic of an archive is looked for in the file as given (`main.c:41`), which after
  `-c`, `-e` or `-ce` is coded; the run exits with 0 and leaves the archive, decoded, in a file
  where the directory should be. `test_archive.c` calls the library, where it works.

What the models contain beside these, though no documentation contradicts it: `-de` and
`-cu` are accepted and only what they ask of the codec is executed (`Stages`; `OperationsDone` says just that of them); of
several operations options the last one counts; a read of a stream header that returns
less than its 12 bytes sends a good stream, or one of a version to come, to the decoder of the old format, which may
return 0 with something else (`misread` and `Misread`; `SuccessIsFaithful`, `RoundTrip`, `DamagedGivesPrefix`
and `RefusalLeavesOutput` state what holds otherwise); `-u` or `-d` without `-o` on a file without
an extension in the working directory truncates its own input, and so it does on one with an extension if
`stat` or `strdup` fails just when the name is made up; compressing a file
into itself never ends (`InputSurvives` and `EveryRunEnds` state where this can not happen; no property demands
that it end); a `.huff` directory is opened like a file, its output truncated before
the first read fails; a subdirectory that can not be opened is passed over and 0 returned; an `fclose` that
could not write is not noticed (`lost`); a packing that fails removes its temporary by
name twice.

## 6. Not modelled

* `encryption_vigenere.c` is the cipher over one buffer; the program only uses the
  streaming form, which is in `FilePipeline`.
* Messages, progress output, ratios, permissions and time stamps.
* In `DirectoryPool`, `create_directory` is a call that may fail; in `Archive` it has its steps.
* `read_directory_recursive` step by step; it is one step, without changes meanwhile.
* The other functions of `file_manager.c`, which only ask the file system.
* Tests and build files.
* `serialize_huffman_table_optimized`, which nothing calls.
* Sums of sizes that overflow `size_t` in a damaged Huffman header: a header's sizes
  either fit the file or do not.

## 7. Plan

1. *Done*: `FileTransform`, `FilePipeline` and `DirectoryPool` with their invariants and both
   refinements proved; `Rle`, `Lzw` and `Huffman` with every invariant proved but `ShortestCode`;
   `Archive` and `Gsea`, with `TypeOK`, `TempsAreCleared`, `InputSurvives`, `OperationsDone`, `PackedIsWhole` and
   `UnpackedIsWhole` proved.
2. Proofs: `RefusedForCause`, for runs that get a temporary name.
3. `read_directory_recursive` over a tree that changes while it is walked.

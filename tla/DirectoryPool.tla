---------------------------- MODULE DirectoryPool ----------------------------
(* process_directory_concurrent (concurrency.c): the main thread lists a      *)
(* directory, starts one thread per file, joins them and sums up.  The heap   *)
(* is shared with the threads: the list of paths, the thread table, the       *)
(* thread_data_t of each file and its output path.  threads[] comes from      *)
(* malloc, so a slot that no pthread_create filled holds anything.            *)
(*                                                                            *)
(* A call of execute_file_pipeline is three steps here: it truncates its      *)
(* output, writes it, returns; FilePipeline models what is left out.          *)
EXTENDS Integers, Sequences, SequencesExt, FiniteSets

CONSTANTS N,             \* files in the directory tree
          Unreadable,    \* those in directories that opendir may refuse
          OutName,       \* generate_output_path: the output of each file
          MaxFaults      \* bound: library calls that fail in one behaviour

File == 1 .. N
Slot == 1 .. N
Name == {OutName[f] : f \in File}

ASSUME PoolAssumption ==
    /\ N \in Nat \ {0}
    /\ Unreadable \subseteq File
    /\ DOMAIN OutName = File
    /\ MaxFaults \in Nat

VARIABLES pc,            \* the main thread
          paths,         \* file_list
          i,             \* the index of the loop it is in
          handle,        \* threads[i]: "thread", or what malloc left there
          outputFile,    \* thread_data[i].output_file
          success,       \* thread_data[i].success
          thread,        \* the thread of each slot
          content,       \* whose bytes each output holds
          freed,         \* "paths", "pool": what has been freed
          joined,        \* slots pthread_join was called on (history)
          successCount, errorCount, result, faults

vars == <<pc, paths, i, handle, outputFile, success, thread, content, freed,
          joined, successCount, errorCount, result, faults>>

Labels == {"list", "mkdir", "init", "spawn", "join", "free", "returned", "aborted"}

Count == Len(paths)

TypeOK ==
    /\ pc \in Labels
    /\ paths \in Seq(File)
    /\ i = 1 \/ i \in 1 .. Count
    /\ handle \in [Slot -> {"zero", "junk", "thread"}]
    /\ outputFile \in [Slot -> {"unset", "null", "live", "dangling"}]
    /\ success \in [Slot -> BOOLEAN]
    /\ thread \in [Slot -> {"none", "created", "writing", "written", "ended"}]
    /\ content \in [Name -> SUBSET File]
    /\ freed \subseteq {"paths", "pool"}
    /\ joined \subseteq Slot
    /\ successCount \in 0 .. N /\ errorCount \in 0 .. 2 * N
    /\ result \in {-1, 0, 1}
    /\ faults \in 0 .. MaxFaults

OutputOf(s) == OutName[paths[s]]

Init ==
    /\ pc = "list"
    /\ paths = <<>>
    /\ i = 1
    /\ handle = [s \in Slot |-> "zero"]
    /\ outputFile = [s \in Slot |-> "unset"]
    /\ success = [s \in Slot |-> FALSE]
    /\ thread = [s \in Slot |-> "none"]
    /\ content = [n \in Name |-> {}]
    /\ freed = {}
    /\ joined = {}
    /\ successCount = 0 /\ errorCount = 0
    /\ result = 1
    /\ faults = 0

Fault == faults < MaxFaults /\ faults' = faults + 1

Return(value) == pc' = "returned" /\ result' = value

(****************************** the main thread ******************************)

(* read_directory_recursive lists the files in the order of readdir, which is *)
(* any; a directory that opendir refuses, and a file that stat refuses, are   *)
(* passed over with a message.                                                *)
ListFiles ==
    /\ pc = "list"
    /\ \E skipped \in SUBSET Unreadable : paths' \in SetToSeqs(File \ skipped)
    /\ IF paths' = <<>> THEN Return(0) ELSE pc' = "mkdir" /\ UNCHANGED result
    /\ UNCHANGED <<i, handle, outputFile, success, thread, content, freed,
                   joined, successCount, errorCount, faults>>

CreateOutputDir ==
    /\ pc = "mkdir"
    /\ \/ pc' = "init" /\ UNCHANGED <<freed, result, faults>>
       \/ Fault /\ Return(-1) /\ freed' = {"paths"}
    /\ UNCHANGED <<paths, i, handle, outputFile, success, thread, content,
                   joined, successCount, errorCount>>

(* init_thread_pool: threads[] is not initialised.                            *)
InitThreadPool ==
    /\ pc = "init"
    /\ \/ /\ pc' = "spawn"
          /\ handle' \in [Slot -> {"zero", "junk"}]
          /\ UNCHANGED <<freed, result, faults>>
       \/ Fault /\ Return(-1) /\ freed' = {"paths"} /\ UNCHANGED handle
    /\ UNCHANGED <<paths, i, outputFile, success, thread, content,
                   joined, successCount, errorCount>>

(* Variant: one turn too many.                                                *)
AdvancePast(n) ==
    IF n <= Count THEN i' = n + 1 /\ UNCHANGED pc
    ELSE i' = 1 /\ pc' = (IF pc = "spawn" THEN "join" ELSE "free")

(* The next turn of the loop, or the end of it.                               *)
Advance(n) ==
    IF n < Count THEN i' = n + 1 /\ UNCHANGED pc
    ELSE i' = 1 /\ pc' = (IF pc = "spawn" THEN "join" ELSE "free")

(* One turn of the first loop, with its three ends.                           *)
SpawnThread ==
    /\ pc = "spawn"
    /\ outputFile' = [outputFile EXCEPT ![i] = "live"]
    /\ handle' = [handle EXCEPT ![i] = "thread"]
    /\ thread' = [thread EXCEPT ![i] = "created"]
    /\ UNCHANGED <<errorCount, faults>>

NoOutputPath ==
    /\ pc = "spawn" /\ Fault
    /\ outputFile' = [outputFile EXCEPT ![i] = "null"]
    /\ errorCount' = errorCount + 1
    /\ UNCHANGED <<handle, thread>>

CreateFails ==
    /\ pc = "spawn" /\ Fault
    /\ outputFile' = [outputFile EXCEPT ![i] = "dangling"]
    /\ handle' \in {handle, [handle EXCEPT ![i] = "junk"]}
    /\ errorCount' = errorCount + 1
    /\ UNCHANGED thread

Spawn ==
    /\ SpawnThread \/ NoOutputPath \/ CreateFails
    /\ Advance(i)
    /\ success' = [success EXCEPT ![i] = FALSE]
    /\ UNCHANGED <<paths, content, freed, joined, successCount, result>>

(* Variants: every slot is joined; or only those whose work is done.          *)
JoinEverySlot(s) == TRUE
JoinIfDone(s) == handle[s] # "zero" /\ success[s]

(* threads[i] != 0: the slots the second loop joins.                          *)
Joinable(s) == handle[s] # "zero"

SkipSlot ==
    /\ pc = "join" /\ ~Joinable(i)
    /\ Advance(i)
    /\ UNCHANGED <<paths, handle, outputFile, success, thread, content, freed,
                   joined, successCount, errorCount, result, faults>>

(* Variant: the join does not wait.                                           *)
JoinAtOnce(s) == TRUE
JoinReturns(s) == thread[s] = "ended"

(* pthread_join of a thread returns when it has ended.                        *)
JoinThread ==
    /\ pc = "join" /\ Joinable(i) /\ handle[i] = "thread"
    /\ JoinReturns(i)
    /\ joined' = joined \cup {i}
    /\ IF success[i]
       THEN successCount' = successCount + 1 /\ UNCHANGED errorCount
       ELSE errorCount' = errorCount + 1 /\ UNCHANGED successCount
    /\ outputFile' = [outputFile EXCEPT ![i] = "dangling"]
    /\ Advance(i)
    /\ UNCHANGED <<paths, handle, success, thread, content, freed, result, faults>>

(* pthread_join of anything else, and the second free of an output path, are  *)
(* undefined: the process is aborted, or an error is counted and it goes on.  *)
JoinJunk ==
    /\ pc = "join" /\ Joinable(i) /\ handle[i] = "junk"
    /\ joined' = joined \cup {i}
    /\ \/ pc' = "aborted" /\ UNCHANGED <<i, errorCount>>
       \/ Advance(i) /\ errorCount' = errorCount + 1
    /\ UNCHANGED <<paths, handle, outputFile, success, thread, content, freed,
                   successCount, result, faults>>

(* Variant: one file that went well is enough.                                *)
AnySuccess == IF successCount > 0 THEN 0 ELSE -1
Verdict == IF errorCount > 0 THEN -1 ELSE 0

FreeAndReturn ==
    /\ pc = "free"
    /\ freed' = {"paths", "pool"}
    /\ Return(Verdict)
    /\ UNCHANGED <<paths, i, handle, outputFile, success, thread, content,
                   joined, successCount, errorCount, faults>>

Main == \/ ListFiles \/ CreateOutputDir \/ InitThreadPool \/ Spawn
        \/ SkipSlot \/ JoinThread \/ JoinJunk \/ FreeAndReturn

(******************************** a thread ***********************************)

Running(s) == thread[s] \in {"created", "writing", "written"}

(* The pipeline opens the output with O_TRUNC.                                *)
OpenOutput(s) ==
    /\ thread[s] = "created"
    /\ content' = [content EXCEPT ![OutputOf(s)] = {}]
    /\ thread' = [thread EXCEPT ![s] = "writing"]
    /\ UNCHANGED <<success, faults>>

(* It writes it; bytes another thread has put there meanwhile stay.           *)
WriteOutput(s) ==
    /\ thread[s] = "writing"
    /\ content' = [content EXCEPT ![OutputOf(s)] = @ \cup {paths[s]}]
    /\ thread' = [thread EXCEPT ![s] = "written"]
    /\ UNCHANGED <<success, faults>>

(* Variant: the pipeline returns 0 before it has written everything.          *)
AlmostWritten(s) == thread[s] \in {"writing", "written"}
AllWritten(s) == thread[s] = "written"

(* process_single_file: the pipeline returns, and with it the thread.         *)
ThreadSucceeds(s) ==
    /\ AllWritten(s)
    /\ success' = [success EXCEPT ![s] = TRUE]
    /\ thread' = [thread EXCEPT ![s] = "ended"]
    /\ UNCHANGED <<content, faults>>

ThreadFails(s) ==
    /\ Running(s) /\ Fault
    /\ success' = [success EXCEPT ![s] = FALSE]
    /\ thread' = [thread EXCEPT ![s] = "ended"]
    /\ UNCHANGED content

Thread(s) ==
    /\ pc # "aborted"
    /\ OpenOutput(s) \/ WriteOutput(s) \/ ThreadSucceeds(s) \/ ThreadFails(s)
    /\ UNCHANGED <<pc, paths, i, handle, outputFile, freed, joined,
                   successCount, errorCount, result>>

Next == Main \/ \E s \in Slot : Thread(s)

(* The scheduler runs the main thread and every other thread.                 *)
Fairness == WF_vars(Main) /\ \A s \in Slot : WF_vars(Thread(s))

Spec == Init /\ [][Next]_vars /\ Fairness

(***************************** what it promises ******************************)

(* While a thread runs, everything it was given is there: its output path,    *)
(* its input path and its thread_data_t are freed only after its join.        *)
WorkersKeepTheirData ==
    pc # "aborted" =>
       \A s \in Slot : Running(s) => outputFile[s] = "live" /\ freed = {}

(* The pool returns 0 only if every file it listed had a thread, was joined   *)
(* and was transformed; a failure of one of them is never swallowed.          *)
ZeroMeansAllSucceeded ==
    (pc = "returned" /\ result = 0) =>
       \A s \in 1 .. Count : s \in joined /\ thread[s] = "ended" /\ success[s]

(* When it returns no thread is left and no output path is leaked.            *)
NothingLeftBehind ==
    pc = "returned" =>
       \A s \in Slot : ~Running(s) /\ outputFile[s] # "live"

(* The count of successes printed is the number of files transformed.         *)
SuccessesAreCounted ==
    pc = "free" => successCount = Cardinality({s \in Slot : success[s]})

(* The directory is processed to the end: the pool returns, or what it has    *)
(* undefined has aborted it.                                                  *)
PoolReturns == <>(pc \in {"returned", "aborted"})

(* Each thread's use of its file is a call of FileTransform.                  *)
SlotOf(f) == {s \in 1 .. Count : paths[s] = f}
StatusOf(f) ==
    IF \E s \in SlotOf(f) : Running(s)
    THEN (IF pc = "aborted" THEN "crashed" ELSE "running")
    ELSE IF \E s \in SlotOf(f) : thread[s] = "ended"
    THEN (IF \E s \in SlotOf(f) : success[s] THEN "ok" ELSE "failed")
    ELSE "idle"

Calls == INSTANCE FileTransform WITH
    Worker <- File,
    Process <- {"gsea"},
    ProcessOf <- [f \in File |-> "gsea"],
    status <- [f \in File |-> StatusOf(f)],
    touched <- [f \in File |-> content[OutName[f]] # {}],
    complete <- [f \in File |->
                   StatusOf(f) \in {"running", "ok"} /\ content[OutName[f]] = {f}]

ImplementsTransform == Calls!TransformSpec

(* "Solo unir hilos que fueron creados" (concurrency.c:181): pthread_join is  *)
(* called on threads that were created and on nothing else.                   *)
OnlyCreatedAreJoined == \A s \in joined : thread[s] # "none"

(* Every file of the directory, of those listed or not, has its result when   *)
(* the pool returns 0 (README: "directorios completos").                      *)
EveryFileHasItsOutput ==
    (pc = "returned" /\ result = 0) => \A f \in File : content[OutName[f]] = {f}
==============================================================================

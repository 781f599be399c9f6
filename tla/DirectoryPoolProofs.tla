-------------------------- MODULE DirectoryPoolProofs --------------------------
(* What the pool promises, for any number of files, with any base names, in   *)
(* directories of which any may be unreadable, and for any number of library  *)
(* calls that fail: the main thread and the threads it starts are ordered by  *)
(* the joins alone.                                                           *)
EXTENDS DirectoryPool, FiniteSetTheorems, TLAPS

Early == {"list", "mkdir", "init"}
Looping == {"mkdir", "init", "spawn", "join", "free"}

(* The two loops: where the index is, and how much was counted so far.        *)
Loops ==
    /\ Count \in 0 .. N
    /\ pc \in Looping => i \in 1 .. Count
    /\ pc \in Early => i = 1 /\ errorCount = 0 /\ joined = {}
    /\ pc \in Early \cup {"spawn"} => successCount = 0
    /\ pc = "list" => Count = 0
    /\ pc = "spawn" => errorCount <= i - 1
    /\ pc = "join" => errorCount <= Count + i - 1 /\ successCount <= i - 1
    /\ successCount <= Count /\ errorCount <= 2 * Count
    /\ pc # "returned" => freed = {}
    /\ (pc = "returned" /\ result = 0 /\ Count > 0) => errorCount = 0

(* Slots the first loop has not come to, and those the second is done with.   *)
Unstarted(s) == pc \in Early \/ (pc = "spawn" /\ s >= i) \/ s > Count
Settled(s) == pc \in {"free", "returned"} \/ (pc = "join" /\ s < i)

(* What the parts of a slot say of one another: the main thread writes handle *)
(* and outputFile, the thread its own state and success.                      *)
SlotOk(s) ==
    /\ Unstarted(s) => thread[s] = "none" /\ outputFile[s] = "unset" /\ handle[s] # "thread"
    /\ Running(s) => outputFile[s] = "live"
    /\ outputFile[s] = "live" => handle[s] = "thread"
    /\ thread[s] # "none" => handle[s] = "thread"
    /\ success[s] => thread[s] = "ended"
    /\ Settled(s) => ~Running(s) /\ outputFile[s] # "live"

Slots == \A s \in Slot : SlotOk(s)

(* As long as no error was counted, all went well with every slot.            *)
Done(s) == s \in joined /\ thread[s] = "ended" /\ success[s]

FaultlessSlot(s) ==
    /\ (pc = "spawn" /\ s < i) \/ (pc = "join" /\ s <= Count) => handle[s] = "thread"
    /\ Settled(s) /\ s <= Count /\ (pc = "returned" => result = 0) => Done(s)

Faultless == errorCount = 0 => \A s \in Slot : FaultlessSlot(s)

Counted ==
    /\ pc = "join" => successCount = Cardinality({s \in Slot : s < i /\ success[s]})
    /\ pc = "free" => successCount = Cardinality({s \in Slot : success[s]})

Inv == TypeOK /\ Loops /\ Slots /\ Faultless /\ Counted

(* A list without repetition is no longer than the directory.                 *)
LEMMA ListIsShort ==
    ASSUME NEW S \in SUBSET File, NEW list \in SetToSeqs(S)
    PROVE  list \in Seq(File) /\ Len(list) \in 0 .. N /\ (list # <<>> => Len(list) # 0)
<1>1. N \in Nat
  BY PoolAssumption
<1>2. IsFiniteSet(File) /\ Cardinality(File) = N
  BY <1>1, FS_Interval DEF File
<1>3. IsFiniteSet(S) /\ Cardinality(S) <= N
  BY <1>2, FS_Subset
<1>4. Cardinality(S) \in Nat
  BY <1>3, FS_CardinalityType
<1>5. list \in [1 .. Cardinality(S) -> S]
  BY DEF SetToSeqs
<1>6. list \in Seq(File) /\ Len(list) = Cardinality(S)
  BY <1>4, <1>5
<1>7. list # <<>> => Len(list) # 0
  BY <1>6
<1> QED BY <1>1, <1>3, <1>4, <1>6, <1>7

(* The list has each file at most once, so there are slots for all of it.     *)
LEMMA ListFilesPreserves ==
    ASSUME Inv, ListFiles
    PROVE  Inv'
<1>0. N \in Nat \ {0} /\ Slot = 1 .. N /\ MaxFaults \in Nat /\ Unreadable \subseteq File
  BY PoolAssumption DEF Slot
<1>1. TypeOK'
  <2>1. paths' \in Seq(File) /\ Len(paths') \in 0 .. N
    BY ListIsShort DEF ListFiles
  <2> QED BY <1>0, <2>1 DEF Inv, TypeOK, Loops, Count, Labels, Looping, Early, ListFiles, Return
<1>2. Loops'
  <2>1. Len(paths') \in 0 .. N /\ (paths' # <<>> => Len(paths') # 0) /\ (paths' = <<>> => Len(paths') = 0)
    BY ListIsShort DEF ListFiles
  <2> QED BY <1>0, <2>1 DEF Inv, TypeOK, Loops, Count, Looping, Early, ListFiles, Return
<1>3. Slots'
  <2> SUFFICES ASSUME NEW s \in Slot PROVE SlotOk(s)'
    BY DEF Slots
  <2> QED BY <1>0 DEF Inv, TypeOK, Loops, Slots, SlotOk, Unstarted, Settled, Running, Count, Early, Looping, Slot, ListFiles, Return
<1>4. Faultless'
  <2> SUFFICES ASSUME NEW s \in Slot, errorCount' = 0 PROVE FaultlessSlot(s)'
    BY DEF Faultless
  <2>1. paths' = <<>> => Len(paths') = 0
    OBVIOUS
  <2> QED BY <1>0, <2>1 DEF FaultlessSlot, Settled, Slot, Count, ListFiles, Return
<1>5. Counted'
  BY DEF Counted, ListFiles, Return
<1> QED BY <1>1, <1>2, <1>3, <1>4, <1>5 DEF Inv

(* A directory that can not be created: return before anything is started.    *)
LEMMA CreateOutputDirPreserves ==
    ASSUME Inv, CreateOutputDir
    PROVE  Inv'
<1>0. N \in Nat \ {0} /\ Slot = 1 .. N /\ MaxFaults \in Nat /\ Unreadable \subseteq File
  BY PoolAssumption DEF Slot
<1>1. TypeOK'
  <2>1. faults' \in 0 .. MaxFaults
    BY <1>0 DEF Inv, TypeOK, CreateOutputDir, Fault
  <2>2. freed' \subseteq {"paths", "pool"} /\ pc' \in Labels /\ result' \in {-1, 0, 1}
    BY DEF Inv, TypeOK, CreateOutputDir, Return, Labels
  <2> QED BY <2>1, <2>2 DEF Inv, TypeOK, Count, CreateOutputDir
<1>2. Loops'
  BY <1>0 DEF Inv, TypeOK, Loops, Slots, Count, Looping, Early, Labels, CreateOutputDir, Fault, Return
<1>3. Slots'
  <2> SUFFICES ASSUME NEW s \in Slot PROVE SlotOk(s)'
    BY DEF Slots
  <2> QED BY <1>0 DEF Inv, TypeOK, Loops, Slots, SlotOk, Unstarted, Settled, Running, Count, Early, Looping, Slot, CreateOutputDir, Fault, Return
<1>4. Faultless'
  <2> SUFFICES ASSUME NEW s \in Slot, errorCount' = 0 PROVE FaultlessSlot(s)'
    BY DEF Faultless
  <2> QED BY <1>0 DEF Inv, TypeOK, Loops, Slots, SlotOk, Faultless, FaultlessSlot, Unstarted, Settled, Done, Running, Count, Early, Looping, Slot, CreateOutputDir, Fault, Return
<1>5. Counted'
  BY DEF Counted, CreateOutputDir, Fault, Return
<1> QED BY <1>1, <1>2, <1>3, <1>4, <1>5 DEF Inv

(* Whatever malloc left in threads[], it is no thread.                        *)
LEMMA InitThreadPoolPreserves ==
    ASSUME Inv, InitThreadPool
    PROVE  Inv'
<1>0. N \in Nat \ {0} /\ Slot = 1 .. N /\ MaxFaults \in Nat /\ Unreadable \subseteq File
  BY PoolAssumption DEF Slot
<1>1. TypeOK'
  <2>1. faults' \in 0 .. MaxFaults
    BY <1>0 DEF Inv, TypeOK, InitThreadPool, Fault
  <2>2. freed' \subseteq {"paths", "pool"} /\ pc' \in Labels /\ result' \in {-1, 0, 1}
    BY DEF Inv, TypeOK, InitThreadPool, Return, Labels
  <2>3. handle' \in [Slot -> {"zero", "junk", "thread"}]
    BY DEF Inv, TypeOK, InitThreadPool
  <2> QED BY <2>1, <2>2, <2>3 DEF Inv, TypeOK, Count, InitThreadPool
<1>2. Loops'
  <2>1. \/ pc' = "spawn" /\ freed' = freed
        \/ pc' = "returned" /\ result' = -1
    BY DEF InitThreadPool, Return
  <2>2. /\ pc = "init" /\ i = 1 /\ i \in 1 .. Count /\ Count \in 0 .. N
        /\ errorCount = 0 /\ successCount = 0 /\ joined = {} /\ freed = {}
    BY <1>0 DEF Inv, Loops, Looping, Early, InitThreadPool
  <2>3. UNCHANGED <<i, errorCount, successCount, joined, Count>>
    BY DEF Count, InitThreadPool
  <2>4. CASE pc' = "spawn" /\ freed' = freed
    BY <1>0, <2>2, <2>3, <2>4 DEF Loops, Looping, Early
  <2>5. CASE pc' = "returned" /\ result' = -1
    BY <1>0, <2>2, <2>3, <2>5 DEF Loops, Looping, Early
  <2> QED BY <2>1, <2>4, <2>5
<1>3. Slots'
  <2> SUFFICES ASSUME NEW s \in Slot PROVE SlotOk(s)'
    BY DEF Slots
  <2> QED BY <1>0 DEF Inv, TypeOK, Loops, Slots, SlotOk, Unstarted, Settled, Running, Count, Early, Looping, Slot, InitThreadPool, Fault, Return
<1>4. Faultless'
  <2> SUFFICES ASSUME NEW s \in Slot, errorCount' = 0 PROVE FaultlessSlot(s)'
    BY DEF Faultless
  <2> QED BY <1>0 DEF Inv, TypeOK, Loops, Slots, SlotOk, Faultless, FaultlessSlot, Unstarted, Settled, Done, Running, Count, Early, Looping, Slot, InitThreadPool, Fault, Return
<1>5. Counted'
  BY DEF Counted, InitThreadPool, Fault, Return
<1> QED BY <1>1, <1>2, <1>3, <1>4, <1>5 DEF Inv

(* One slot is filled, or an error is counted.                                *)
LEMMA SpawnPreserves ==
    ASSUME Inv, Spawn
    PROVE  Inv'
<1>0. N \in Nat \ {0} /\ Slot = 1 .. N /\ MaxFaults \in Nat /\ Unreadable \subseteq File
  BY PoolAssumption DEF Slot
<1>1. TypeOK'
  <2>1. i \in Slot /\ i \in 1 .. Count /\ Count \in 0 .. N /\ pc = "spawn"
    BY <1>0 DEF Inv, Loops, Looping, Spawn, SpawnThread, NoOutputPath, CreateFails
  <2>2. /\ handle' \in [Slot -> {"zero", "junk", "thread"}]
        /\ outputFile' \in [Slot -> {"unset", "null", "live", "dangling"}]
        /\ thread' \in [Slot -> {"none", "created", "writing", "written", "ended"}]
    BY <2>1 DEF Inv, TypeOK, Spawn, SpawnThread, NoOutputPath, CreateFails
  <2>3. faults' \in 0 .. MaxFaults /\ errorCount' \in 0 .. 2 * N
    <3>1. errorCount \in Nat /\ errorCount <= i - 1 /\ faults \in 0 .. MaxFaults
      BY <1>0, <2>1 DEF Inv, TypeOK, Loops
    <3>2. \/ errorCount' = errorCount /\ faults' = faults
          \/ errorCount' = errorCount + 1 /\ Fault
      BY DEF Spawn, SpawnThread, NoOutputPath, CreateFails
    <3> QED BY <1>0, <2>1, <3>1, <3>2 DEF Fault
  <2>4. (i' = 1 \/ i' \in 1 .. Count) /\ pc' \in Labels
    BY <1>0, <2>1 DEF Inv, TypeOK, Spawn, Advance, Labels
  <2>5. success' \in [Slot -> BOOLEAN]
    BY <2>1 DEF Inv, TypeOK, Spawn
  <2> QED BY <2>2, <2>3, <2>4, <2>5 DEF Inv, TypeOK, Count, Spawn
<1>2. Loops'
  BY <1>0 DEF Inv, TypeOK, Loops, Slots, Count, Looping, Early, Labels, Spawn, SpawnThread, NoOutputPath, CreateFails, Advance, Fault
<1>3. Slots'
  <2> SUFFICES ASSUME NEW s \in Slot PROVE SlotOk(s)'
    BY DEF Slots
  <2>1. i \in Slot /\ i \in 1 .. Count /\ Count \in 0 .. N /\ Count' = Count /\ pc = "spawn"
    BY <1>0 DEF Inv, Loops, Looping, Count, Spawn, SpawnThread, NoOutputPath, CreateFails
  <2>2. \/ i < Count /\ i' = i + 1 /\ pc' = "spawn"
        \/ i = Count /\ i' = 1 /\ pc' = "join"
    BY <2>1 DEF Spawn, Advance
  <2>3. SlotOk(s) BY DEF Inv, Slots
  <2>4. CASE s = i
    <3>1. thread[i] = "none" /\ outputFile[i] = "unset" /\ handle[i] # "thread"
      BY <2>1, <2>3, <2>4 DEF SlotOk, Unstarted
    <3>2. success'[i] = FALSE BY <2>1 DEF Inv, TypeOK, Spawn
    <3>3. \/ outputFile'[i] = "live" /\ handle'[i] = "thread" /\ thread'[i] = "created"
          \/ outputFile'[i] \in {"null", "dangling"} /\ thread'[i] = "none"
      BY <2>1, <3>1 DEF Inv, TypeOK, Spawn, SpawnThread, NoOutputPath, CreateFails
    <3>4. ~Unstarted(s)' BY <1>0, <2>1, <2>2, <2>4 DEF Unstarted, Early
    <3>5. ~Settled(s)' BY <1>0, <2>1, <2>2, <2>4 DEF Settled
    <3> QED BY <2>4, <3>2, <3>3, <3>4, <3>5 DEF SlotOk, Running
  <2>5. CASE s # i
    <3>1. /\ outputFile'[s] = outputFile[s] /\ handle'[s] = handle[s]
          /\ thread'[s] = thread[s] /\ success'[s] = success[s]
      BY <2>1, <2>5 DEF Inv, TypeOK, Spawn, SpawnThread, NoOutputPath, CreateFails
    <3>2. Unstarted(s)' => Unstarted(s) BY <1>0, <2>1, <2>2 DEF Unstarted, Early
    <3>3. ~Settled(s)' BY <1>0, <2>1, <2>2 DEF Settled
    <3> QED BY <2>3, <3>1, <3>2, <3>3 DEF SlotOk, Running
  <2> QED BY <2>4, <2>5
<1>4. Faultless'
  <2> SUFFICES ASSUME NEW s \in Slot, errorCount' = 0 PROVE FaultlessSlot(s)'
    BY DEF Faultless
  <2> QED BY <1>0 DEF Inv, TypeOK, Loops, Slots, SlotOk, Faultless, FaultlessSlot, Unstarted, Settled, Done, Running, Count, Early, Looping, Slot, Spawn, SpawnThread, NoOutputPath, CreateFails, Advance, Fault
<1>5. Counted'
  <2>1. CASE pc' = "join"
    <3>1. i' = 1 /\ successCount' = 0
      BY <2>1 DEF Inv, Loops, TypeOK, Labels, Early, Spawn, SpawnThread, NoOutputPath, CreateFails, Advance, Fault
    <3>2. {s \in Slot : s < i' /\ success'[s]} = {}
      BY <3>1, <1>0
    <3> QED BY <2>1, <3>1, <3>2, FS_EmptySet DEF Counted
  <2>2. CASE pc' # "join"
    BY <2>2 DEF Counted, Spawn, SpawnThread, NoOutputPath, CreateFails, Advance, Fault
  <2> QED BY <2>1, <2>2
<1> QED BY <1>1, <1>2, <1>3, <1>4, <1>5 DEF Inv

(* The successes counted when the second loop is done with slot i.            *)
LEMMA CountedSoFar ==
    ASSUME Inv, pc = "join", Advance(i), success' = success, thread' = thread,
           paths' = paths,
           successCount' = IF success[i] THEN successCount + 1 ELSE successCount
    PROVE  Counted'
<1> DEFINE S == {s \in Slot : s < i /\ success[s]}
           T == {s \in Slot : s <= i /\ success[s]}
<1>1. N \in Nat /\ Slot = 1 .. N /\ i \in Slot /\ Count \in 0 .. N /\ i <= Count
  BY PoolAssumption DEF Slot, Inv, Loops, Looping
<1>2. IsFiniteSet(Slot)
  BY <1>1, FS_Interval
<1>3. IsFiniteSet(S) /\ successCount = Cardinality(S) /\ i \notin S
  BY <1>1, <1>2, FS_Subset DEF Inv, Counted
<1>4. successCount' = Cardinality(T)
  <2>1. CASE success[i]
    <3>1. T = S \cup {i}
      BY <1>1, <2>1
    <3> QED BY <1>3, <2>1, <3>1, FS_AddElement
  <2>2. CASE ~success[i]
    <3>1. T = S
      BY <1>1, <2>2
    <3> QED BY <1>3, <2>2, <3>1
  <2> QED BY <2>1, <2>2
<1>5. CASE i < Count
  <2>1. pc' = "join" /\ i' = i + 1
    BY <1>5 DEF Advance
  <2>2. T = {s \in Slot : s < i' /\ success'[s]}
    BY <1>1, <2>1
  <2> QED BY <1>4, <2>1, <2>2 DEF Counted
<1>6. CASE ~(i < Count)
  <2>1. pc' = "free" /\ i = Count
    BY <1>1, <1>6 DEF Advance
  <2>2. \A s \in Slot : success[s] => s <= i
    BY <1>1, <2>1 DEF Inv, Slots, SlotOk, Unstarted, TypeOK
  <2>3. T = {s \in Slot : success'[s]}
    BY <2>2
  <2> QED BY <1>4, <2>1, <2>3 DEF Counted
<1> QED BY <1>5, <1>6

(* Where the second loop is, and where its next turn will be.                 *)
LEMMA JoinLoop ==
    ASSUME Inv, pc = "join"
    PROVE  /\ i \in Slot /\ i \in 1 .. Count /\ Count \in 0 .. N /\ SlotOk(i)
           /\ errorCount \in Nat /\ errorCount <= Count + i - 1
           /\ successCount \in Nat /\ successCount <= i - 1
           /\ freed = {}
           /\ Advance(i) => \/ i < Count /\ i' = i + 1 /\ pc' = "join"
                            \/ i = Count /\ i' = 1 /\ pc' = "free"
<1>1. N \in Nat /\ Slot = 1 .. N BY PoolAssumption DEF Slot
<1>2. i \in 1 .. Count /\ Count \in 0 .. N /\ freed = {}
      /\ errorCount <= Count + i - 1 /\ successCount <= i - 1
  BY DEF Inv, Loops, Looping
<1>3. errorCount \in Nat /\ successCount \in Nat BY <1>1 DEF Inv, TypeOK
<1>4. i \in Slot BY <1>1, <1>2
<1>5. SlotOk(i) BY <1>4 DEF Inv, Slots
<1> QED BY <1>2, <1>3, <1>4, <1>5 DEF Advance

(* A turn of the second loop that counts at most one thing keeps the bounds.  *)
LEMMA JoinKeepsLoops ==
    ASSUME Inv, pc = "join", paths' = paths, freed' = freed,
           Advance(i) \/ (pc' = "aborted" /\ errorCount' = errorCount),
           \/ errorCount' = errorCount /\ successCount' \in {successCount, successCount + 1}
           \/ errorCount' = errorCount + 1 /\ successCount' = successCount
    PROVE  Loops'
<1>1. N \in Nat BY PoolAssumption
<1>2. Count' = Count BY DEF Count
<1>3. \/ i < Count /\ i' = i + 1 /\ pc' = "join"
      \/ i = Count /\ i' = 1 /\ pc' = "free"
      \/ pc' = "aborted"
  BY JoinLoop
<1>4. successCount' <= i /\ errorCount' <= Count + i BY JoinLoop
<1> QED BY <1>1, <1>2, <1>3, <1>4, JoinLoop DEF Loops, Looping, Early

(* A slot without a thread has nothing to join.                               *)
LEMMA SkipSlotPreserves ==
    ASSUME Inv, SkipSlot
    PROVE  Inv'
<1>0. N \in Nat \ {0} /\ Slot = 1 .. N /\ MaxFaults \in Nat /\ Unreadable \subseteq File
  BY PoolAssumption DEF Slot
<1>1. TypeOK'
  BY <1>0 DEF Inv, TypeOK, Loops, Count, Labels, Looping, Early, SkipSlot, Joinable, Advance
<1>2. Loops'
  BY JoinKeepsLoops DEF SkipSlot
<1>3. Slots'
  <2> SUFFICES ASSUME NEW s \in Slot PROVE SlotOk(s)'
    BY DEF Slots
  <2> QED BY <1>0 DEF Inv, TypeOK, Loops, Slots, SlotOk, Unstarted, Settled, Running, Count, Early, Looping, Slot, SkipSlot, Joinable, Advance
<1>4. Faultless'
  <2> SUFFICES ASSUME NEW s \in Slot, errorCount' = 0 PROVE FaultlessSlot(s)'
    BY DEF Faultless
  <2> QED BY <1>0 DEF Inv, TypeOK, Loops, Slots, SlotOk, Faultless, FaultlessSlot, Unstarted, Settled, Done, Running, Count, Early, Looping, Slot, SkipSlot, Joinable, Advance
<1>5. Counted'
  <2>1. i \in Slot /\ ~success[i]
    BY JoinLoop DEF SkipSlot, Joinable, SlotOk
  <2> QED BY <2>1, CountedSoFar DEF SkipSlot
<1> QED BY <1>1, <1>2, <1>3, <1>4, <1>5 DEF Inv

(* The join of a thread: it has ended, and nothing of it changes any more.    *)
LEMMA JoinThreadPreserves ==
    ASSUME Inv, JoinThread
    PROVE  Inv'
<1>0. N \in Nat \ {0} /\ Slot = 1 .. N /\ MaxFaults \in Nat /\ Unreadable \subseteq File
  BY PoolAssumption DEF Slot
<1>1. TypeOK'
  <2>1. i \in Slot /\ i \in 1 .. Count /\ Count \in 0 .. N /\ pc = "join"
    BY <1>0 DEF Inv, Loops, Looping, JoinThread
  <2>2. successCount' \in 0 .. N /\ errorCount' \in 0 .. 2 * N
    BY <1>0, <2>1 DEF Inv, TypeOK, Loops, JoinThread
  <2>3. (i' = 1 \/ i' \in 1 .. Count) /\ pc' \in Labels
    BY <1>0, <2>1 DEF Inv, TypeOK, JoinThread, Advance, Labels
  <2>4. outputFile' \in [Slot -> {"unset", "null", "live", "dangling"}] /\ joined' \subseteq Slot
    BY <2>1 DEF Inv, TypeOK, JoinThread
  <2> QED BY <2>2, <2>3, <2>4 DEF Inv, TypeOK, Count, JoinThread
<1>2. Loops'
  BY JoinKeepsLoops DEF JoinThread
<1>3. Slots'
  <2> SUFFICES ASSUME NEW s \in Slot PROVE SlotOk(s)'
    BY DEF Slots
  <2> QED BY <1>0 DEF Inv, TypeOK, Loops, Slots, SlotOk, Unstarted, Settled, Running, Count, Early, Looping, Slot, JoinThread, Joinable, JoinReturns, Advance
<1>4. Faultless'
  <2> SUFFICES ASSUME NEW s \in Slot, errorCount' = 0 PROVE FaultlessSlot(s)'
    BY DEF Faultless
  <2> QED BY <1>0 DEF Inv, TypeOK, Loops, Slots, SlotOk, Faultless, FaultlessSlot, Unstarted, Settled, Done, Running, Count, Early, Looping, Slot, JoinThread, Joinable, JoinReturns, Advance
<1>5. Counted'
  BY CountedSoFar DEF JoinThread, Inv, TypeOK
<1> QED BY <1>1, <1>2, <1>3, <1>4, <1>5 DEF Inv

(* The join of what is no thread counts an error, if the process survives it. *)
LEMMA JoinJunkPreserves ==
    ASSUME Inv, JoinJunk
    PROVE  Inv'
<1>0. N \in Nat \ {0} /\ Slot = 1 .. N /\ MaxFaults \in Nat /\ Unreadable \subseteq File
  BY PoolAssumption DEF Slot
<1>1. TypeOK'
  <2>1. i \in Slot /\ i \in 1 .. Count /\ Count \in 0 .. N /\ pc = "join"
    BY <1>0 DEF Inv, Loops, Looping, JoinJunk
  <2>2. errorCount' \in 0 .. 2 * N
    BY <1>0, <2>1 DEF Inv, TypeOK, Loops, JoinJunk
  <2>3. (i' = 1 \/ i' \in 1 .. Count) /\ pc' \in Labels
    BY <1>0, <2>1 DEF Inv, TypeOK, JoinJunk, Advance, Labels
  <2>4. joined' \subseteq Slot
    BY <2>1 DEF Inv, TypeOK, JoinJunk
  <2> QED BY <2>2, <2>3, <2>4 DEF Inv, TypeOK, Count, JoinJunk
<1>2. Loops'
  BY JoinKeepsLoops DEF JoinJunk
<1>3. Slots'
  <2> SUFFICES ASSUME NEW s \in Slot PROVE SlotOk(s)'
    BY DEF Slots
  <2> QED BY <1>0 DEF Inv, TypeOK, Loops, Slots, SlotOk, Unstarted, Settled, Running, Count, Early, Looping, Slot, JoinJunk, Joinable, Advance
<1>4. Faultless'
  <2> SUFFICES ASSUME NEW s \in Slot, errorCount' = 0 PROVE FaultlessSlot(s)'
    BY DEF Faultless
  <2> QED BY <1>0 DEF Inv, TypeOK, Loops, Slots, SlotOk, Faultless, FaultlessSlot, Unstarted, Settled, Done, Running, Count, Early, Looping, Slot, JoinJunk, Joinable, Advance
<1>5. Counted'
  <2>1. i \in Slot /\ ~success[i]
    BY JoinLoop DEF JoinJunk, SlotOk
  <2>2. CASE pc' = "aborted"
    BY <2>2 DEF Counted
  <2>3. CASE pc' # "aborted"
    BY <2>1, <2>3, CountedSoFar DEF JoinJunk
  <2> QED BY <2>2, <2>3
<1> QED BY <1>1, <1>2, <1>3, <1>4, <1>5 DEF Inv

(* Everything is freed when every thread has ended.                           *)
LEMMA FreeAndReturnPreserves ==
    ASSUME Inv, FreeAndReturn
    PROVE  Inv'
<1>0. N \in Nat \ {0} /\ Slot = 1 .. N /\ MaxFaults \in Nat /\ Unreadable \subseteq File
  BY PoolAssumption DEF Slot
<1>1. TypeOK'
  BY <1>0 DEF Inv, TypeOK, Loops, Count, Labels, Looping, Early, FreeAndReturn, Return, Verdict
<1>2. Loops'
  BY <1>0 DEF Inv, TypeOK, Loops, Slots, Count, Looping, Early, Labels, FreeAndReturn, Return, Verdict
<1>3. Slots'
  <2> SUFFICES ASSUME NEW s \in Slot PROVE SlotOk(s)'
    BY DEF Slots
  <2> QED BY <1>0 DEF Inv, TypeOK, Loops, Slots, SlotOk, Unstarted, Settled, Running, Count, Early, Looping, Slot, FreeAndReturn, Return, Verdict
<1>4. Faultless'
  <2> SUFFICES ASSUME NEW s \in Slot, errorCount' = 0 PROVE FaultlessSlot(s)'
    BY DEF Faultless
  <2> QED BY <1>0 DEF Inv, TypeOK, Loops, Slots, SlotOk, Faultless, FaultlessSlot, Unstarted, Settled, Done, Running, Count, Early, Looping, Slot, FreeAndReturn, Return, Verdict
<1>5. Counted'
  BY DEF Counted, FreeAndReturn, Return, Verdict
<1> QED BY <1>1, <1>2, <1>3, <1>4, <1>5 DEF Inv

(* A step of a thread: it runs, so the main thread has not come to its join.  *)
LEMMA ThreadPreserves ==
    ASSUME Inv, NEW t \in Slot, Thread(t)
    PROVE  Inv'
<1>0. N \in Nat \ {0} /\ Slot = 1 .. N /\ MaxFaults \in Nat /\ Unreadable \subseteq File
  BY PoolAssumption DEF Slot
<1>1. TypeOK'
  <2>1. thread' \in [Slot -> {"none", "created", "writing", "written", "ended"}]
        /\ success' \in [Slot -> BOOLEAN]
    BY DEF Inv, TypeOK, Thread, OpenOutput, WriteOutput, ThreadSucceeds, ThreadFails
  <2>2. faults' \in 0 .. MaxFaults
    BY <1>0 DEF Inv, TypeOK, Thread, OpenOutput, WriteOutput, ThreadSucceeds, ThreadFails, Fault
  <2>3. content' \in [Name -> SUBSET File]
    <3>1. thread[t] # "none" => paths[t] \in File
      BY <1>0 DEF Inv, TypeOK, Slots, SlotOk, Unstarted, Count
    <3> QED BY <3>1 DEF Inv, TypeOK, Thread, OpenOutput, WriteOutput, ThreadSucceeds, ThreadFails, OutputOf, Name
  <2> QED BY <2>1, <2>2, <2>3 DEF Inv, TypeOK, Count, Thread
<1>2. Loops'
  BY <1>0 DEF Inv, TypeOK, Loops, Slots, Count, Looping, Early, Labels, Thread, OpenOutput, WriteOutput, ThreadSucceeds, ThreadFails, AllWritten, Running, Fault
<1>3. Slots'
  <2> SUFFICES ASSUME NEW s \in Slot PROVE SlotOk(s)'
    BY DEF Slots
  <2> QED BY <1>0 DEF Inv, TypeOK, Loops, Slots, SlotOk, Unstarted, Settled, Running, Count, Early, Looping, Slot, Thread, OpenOutput, WriteOutput, ThreadSucceeds, ThreadFails, AllWritten, Running, Fault
<1>4. Faultless'
  <2> SUFFICES ASSUME NEW s \in Slot, errorCount' = 0 PROVE FaultlessSlot(s)'
    BY DEF Faultless
  <2> QED BY <1>0 DEF Inv, TypeOK, Loops, Slots, SlotOk, Faultless, FaultlessSlot, Unstarted, Settled, Done, Running, Count, Early, Looping, Slot, Thread, OpenOutput, WriteOutput, ThreadSucceeds, ThreadFails, AllWritten, Running, Fault
<1>5. Counted'
  <2>1. Running(t) /\ \A s \in Slot : s # t => success'[s] = success[s]
    BY DEF Inv, TypeOK, Thread, OpenOutput, WriteOutput, ThreadSucceeds, ThreadFails, AllWritten, Running
  <2>2. ~Settled(t)
    BY <2>1 DEF Inv, Slots, SlotOk
  <2>3. UNCHANGED <<pc, i, successCount>>
    BY DEF Thread
  <2>4. CASE pc = "join"
    <3>1. {s \in Slot : s < i /\ success'[s]} = {s \in Slot : s < i /\ success[s]}
      BY <2>1, <2>2, <2>4 DEF Settled
    <3> QED BY <2>3, <2>4, <3>1 DEF Inv, Counted
  <2>5. CASE pc # "join"
    BY <2>2, <2>3, <2>5 DEF Counted, Settled
  <2> QED BY <2>4, <2>5
<1> QED BY <1>1, <1>2, <1>3, <1>4, <1>5 DEF Inv

(* Nothing has been started and nothing counted.                               *)
LEMMA InitEstablishes ==
    ASSUME Init
    PROVE  Inv
<1>0. N \in Nat \ {0} /\ Slot = 1 .. N /\ MaxFaults \in Nat
  BY PoolAssumption DEF Slot
<1>1. TypeOK
  BY <1>0 DEF Init, TypeOK, Labels
<1>2. Loops
  BY <1>0 DEF Init, Loops, Count, Looping, Early
<1>3. Slots
  BY <1>0 DEF Init, Slots, SlotOk, Running, Settled
<1>4. Faultless
  BY <1>0 DEF Init, Faultless, FaultlessSlot, Settled
<1>5. Counted
  BY DEF Init, Counted
<1> QED BY <1>1, <1>2, <1>3, <1>4, <1>5 DEF Inv

(* Inv speaks of nothing but the variables.                                   *)
LEMMA StutterPreserves ==
    ASSUME Inv, UNCHANGED vars
    PROVE  Inv'
<1>1. TypeOK' /\ Loops'
  BY DEF Inv, TypeOK, Loops, Count, vars
<1>2. Slots'
  BY DEF Inv, Slots, SlotOk, Unstarted, Settled, Running, Count, vars
<1>3. Faultless' /\ Counted'
  BY DEF Inv, Faultless, FaultlessSlot, Settled, Done, Counted, Count, vars
<1> QED BY <1>1, <1>2, <1>3 DEF Inv

(* Inv holds of every reachable state.                                        *)
THEOREM Invariance == Spec => []Inv
<1>1. ASSUME Inv, [Next]_vars PROVE Inv'
  <2>1. CASE Main
    BY <1>1, <2>1, ListFilesPreserves, CreateOutputDirPreserves, InitThreadPoolPreserves,
       SpawnPreserves, SkipSlotPreserves, JoinThreadPreserves, JoinJunkPreserves,
       FreeAndReturnPreserves DEF Main
  <2>2. CASE \E s \in Slot : Thread(s)
    BY <1>1, <2>2, ThreadPreserves
  <2>3. CASE UNCHANGED vars
    BY <1>1, <2>3, StutterPreserves
  <2> QED BY <1>1, <2>1, <2>2, <2>3 DEF Next
<1> QED BY <1>1, InitEstablishes, PTL DEF Spec

(* Every variable keeps its type; in particular no more is counted than there *)
(* are slots.                                                                 *)
THEOREM TypeCorrect == Spec => []TypeOK
<1>1. Inv => TypeOK
  BY DEF Inv
<1> QED BY <1>1, Invariance, PTL

(* What a thread was given is freed only after its join: WorkersKeepTheirData *)
(* (free of output_file, thread_data and the list, concurrency.c:195-211).    *)
THEOREM WorkersSafe == Spec => []WorkersKeepTheirData
<1>1. Inv => WorkersKeepTheirData
  BY DEF Inv, Loops, Slots, SlotOk, Settled, WorkersKeepTheirData
<1> QED BY <1>1, Invariance, PTL

(* 0 is returned only if every listed file had a thread, which was joined and *)
(* succeeded: ZeroMeansAllSucceeded (error_count, concurrency.c:213).         *)
THEOREM ZeroIsHonest == Spec => []ZeroMeansAllSucceeded
<1>1. Inv => ZeroMeansAllSucceeded
  <2> SUFFICES ASSUME Inv, pc = "returned", result = 0, NEW s \in 1 .. Count
               PROVE  s \in joined /\ thread[s] = "ended" /\ success[s]
    BY DEF ZeroMeansAllSucceeded
  <2>1. N \in Nat /\ Count \in 0 .. N /\ errorCount = 0
    BY PoolAssumption DEF Inv, Loops
  <2>2. s \in Slot /\ s <= Count
    BY <2>1 DEF Slot
  <2> QED BY <2>1, <2>2 DEF Inv, Faultless, FaultlessSlot, Settled, Done
<1> QED BY <1>1, Invariance, PTL

(* No thread and no output path outlives the call: NothingLeftBehind (the     *)
(* join loop, concurrency.c:180-198).                                         *)
THEOREM NothingLeft == Spec => []NothingLeftBehind
<1>1. Inv => NothingLeftBehind
  BY DEF Inv, Slots, SlotOk, Settled, NothingLeftBehind
<1> QED BY <1>1, Invariance, PTL

(* The number of successes reported is that of the files transformed:         *)
(* SuccessesAreCounted (data->success, read after the join).                  *)
THEOREM SuccessCountRight == Spec => []SuccessesAreCounted
<1>1. Inv => SuccessesAreCounted
  BY DEF Inv, Counted, SuccessesAreCounted
<1> QED BY <1>1, Invariance, PTL

(**************************** the abstract promise ***************************)

(* No file is listed twice (read_directory_recursive).                        *)
Once == \A s, t \in 1 .. Count : paths[s] = paths[t] => s = t

(* How far a thread is tells what its output holds.                           *)
Contents ==
    \A s \in 1 .. Count :
       /\ thread[s] = "writing" => content[OutputOf(s)] = {}
       /\ thread[s] = "written" => content[OutputOf(s)] = {paths[s]}

(* generate_output_path gives every file an output of its own.                *)
DistinctNames == \A f, g \in File : OutName[f] = OutName[g] => f = g

CallsInv == Inv /\ Once /\ Contents

(* The slots in use, and the files in them.                                   *)
LEMMA SlotsInUse ==
    ASSUME Inv
    PROVE  /\ 1 .. Count \subseteq Slot
           /\ \A s \in 1 .. Count :
                 /\ paths[s] \in File /\ OutputOf(s) \in Name
                 /\ OutputOf(s) = OutName[paths[s]]
           /\ \A s \in Slot : thread[s] # "none" => s \in 1 .. Count
<1>1. N \in Nat /\ Slot = 1 .. N /\ Count \in 0 .. N
  BY PoolAssumption DEF Slot, Inv, Loops
<1>2. paths \in Seq(File) BY DEF Inv, TypeOK
<1>3. \A s \in 1 .. Count : paths[s] \in File BY <1>2 DEF Count
<1>4. ASSUME NEW s \in Slot, thread[s] # "none" PROVE s \in 1 .. Count
  <2>1. ~Unstarted(s) BY <1>4 DEF Inv, Slots, SlotOk
  <2> QED BY <1>1, <2>1 DEF Unstarted
<1> QED BY <1>1, <1>3, <1>4 DEF OutputOf, Name

(* The abstract status of a file is that of the one thread that works on it.  *)
LEMMA StatusOfSlot ==
    ASSUME Inv, Once, NEW s \in 1 .. Count
    PROVE  /\ Running(s) => StatusOf(paths[s]) = IF pc = "aborted" THEN "crashed" ELSE "running"
           /\ thread[s] = "ended" => StatusOf(paths[s]) = IF success[s] THEN "ok" ELSE "failed"
           /\ thread[s] = "none" => StatusOf(paths[s]) = "idle"
           /\ \A f \in File : (\A t \in 1 .. Count : paths[t] # f) => StatusOf(f) = "idle"
<1>1. SlotOf(paths[s]) = {s} BY DEF SlotOf, Once
<1>2. \A f : (\A t \in 1 .. Count : paths[t] # f) => SlotOf(f) = {} BY DEF SlotOf
<1> QED BY <1>1, <1>2 DEF StatusOf, Running

(* The main thread writes no output and stops no thread.                      *)
LEMMA MainKeeps ==
    ASSUME Inv, Main
    PROVE  /\ content' = content /\ success' \in [Slot -> BOOLEAN]
           /\ paths' = paths \/ (Count = 0 /\ pc = "list" /\ thread' = thread)
           /\ \/ thread' = thread /\ success' = success
              \/ /\ i \in 1 .. Count /\ thread[i] = "none" /\ ~success[i]
                 /\ paths' = paths /\ pc # "aborted" /\ pc' # "aborted"
                 /\ \A s \in Slot \ {i} : thread'[s] = thread[s] /\ success'[s] = success[s]
                 /\ thread'[i] \in {"none", "created"} /\ ~success'[i]
           /\ pc # "aborted"
<1>1. N \in Nat /\ Slot = 1 .. N /\ Count \in 0 .. N
  BY PoolAssumption DEF Slot, Inv, Loops
<1>2. thread \in [Slot -> {"none", "created", "writing", "written", "ended"}]
      /\ success \in [Slot -> BOOLEAN]
  BY DEF Inv, TypeOK
<1>3. CASE ListFiles
  BY <1>2, <1>3 DEF ListFiles, Inv, Loops
<1>4. CASE CreateOutputDir \/ InitThreadPool
  BY <1>2, <1>4 DEF CreateOutputDir, InitThreadPool
<1>5. CASE Spawn
  <2>1. /\ pc = "spawn" /\ pc' # "aborted" /\ paths' = paths /\ content' = content
        /\ success' = [success EXCEPT ![i] = FALSE]
        /\ thread' \in {thread, [thread EXCEPT ![i] = "created"]}
    BY <1>5 DEF Spawn, SpawnThread, NoOutputPath, CreateFails, Advance
  <2>2. i \in 1 .. Count /\ i \in Slot BY <1>1, <2>1 DEF Inv, Loops, Looping
  <2>3. thread[i] = "none" /\ ~success[i]
    <3>1. Unstarted(i) BY <1>1, <2>1, <2>2 DEF Unstarted
    <3> QED BY <2>2, <3>1 DEF Inv, Slots, SlotOk
  <2> QED BY <1>2, <2>1, <2>2, <2>3
<1>6. CASE SkipSlot \/ JoinThread \/ JoinJunk \/ FreeAndReturn
  BY <1>2, <1>6 DEF SkipSlot, JoinThread, JoinJunk, FreeAndReturn
<1> QED BY <1>3, <1>4, <1>5, <1>6 DEF Main

(* A listing has no file twice, and only its thread writes a file's output.   *)
LEMMA CallsStep ==
    ASSUME DistinctNames, CallsInv, [Next]_vars
    PROVE  Once' /\ Contents'
<1>1. Inv /\ Once /\ Contents BY DEF CallsInv
<1>2. CASE Main
  <2>1. CASE ListFiles
    <3>1. PICK S \in SUBSET File : paths' \in SetToSeqs(S) BY <2>1 DEF ListFiles
    <3>2. paths' \in [1 .. Cardinality(S) -> S] BY <3>1 DEF SetToSeqs
    <3>3. Len(paths') \in 0 .. N /\ paths' \in Seq(File) BY <3>1, ListIsShort
    <3>4. 1 .. Len(paths') = 1 .. Cardinality(S)
      <4>1. DOMAIN paths' = 1 .. Len(paths') BY <3>3
      <4> QED BY <3>2, <4>1
    <3>5. \A s, t \in 1 .. Cardinality(S) : s # t => paths'[s] # paths'[t]
      BY <3>1 DEF SetToSeqs
    <3>6. Once' BY <3>4, <3>5 DEF Once, Count
    <3>7. \A s \in Slot : thread'[s] = "none"
      BY <1>1, <2>1 DEF ListFiles, Inv, Slots, SlotOk, Unstarted, Early
    <3>8. 1 .. Len(paths') \subseteq Slot BY <3>3, PoolAssumption DEF Slot
    <3> QED BY <3>6, <3>7, <3>8 DEF Contents, Count
  <2>2. CASE ~ListFiles
    <3>1. paths' = paths
      BY <1>2, <2>2 DEF Main, CreateOutputDir, InitThreadPool, Spawn, SkipSlot, JoinThread,
                        JoinJunk, FreeAndReturn
    <3>2. content' = content BY <1>1, <1>2, MainKeeps
    <3>3. \A s \in Slot : thread'[s] = thread[s] \/ thread'[s] \in {"none", "created"}
      BY <1>1, <1>2, MainKeeps
    <3>4. 1 .. Count \subseteq Slot BY <1>1, SlotsInUse
    <3> QED BY <1>1, <3>1, <3>2, <3>3, <3>4 DEF Once, Contents, Count, OutputOf
  <2> QED BY <2>1, <2>2
<1>3. ASSUME NEW t \in Slot, Thread(t) PROVE Once' /\ Contents'
  <2>1. paths' = paths BY <1>3 DEF Thread
  <2>2. Running(t) /\ thread[t] # "none"
    BY <1>3 DEF Thread, OpenOutput, WriteOutput, ThreadSucceeds, ThreadFails, AllWritten, Running
  <2>3. t \in 1 .. Count /\ 1 .. Count \subseteq Slot BY <1>1, <2>2, SlotsInUse
  <2>4. ASSUME NEW s \in 1 .. Count, s # t
        PROVE  /\ OutputOf(s) # OutputOf(t) /\ thread'[s] = thread[s]
               /\ content'[OutputOf(s)] = content[OutputOf(s)]
    <3>1. /\ OutputOf(s) = OutName[paths[s]] /\ OutputOf(t) = OutName[paths[t]]
          /\ paths[s] \in File /\ paths[t] \in File /\ OutputOf(s) \in Name
      BY <1>1, <2>3, SlotsInUse
    <3>2. paths[s] # paths[t] BY <1>1, <2>3, <2>4 DEF Once
    <3>3. OutputOf(s) # OutputOf(t) BY <3>1, <3>2 DEF DistinctNames
    <3>4. content \in [Name -> SUBSET File]
          /\ thread \in [Slot -> {"none", "created", "writing", "written", "ended"}]
      BY <1>1 DEF Inv, TypeOK
    <3> QED BY <1>3, <2>3, <2>4, <3>1, <3>3, <3>4
            DEF Thread, OpenOutput, WriteOutput, ThreadSucceeds, ThreadFails
  <2>5. /\ thread'[t] = "writing" => content'[OutputOf(t)] = {}
        /\ thread'[t] = "written" => content'[OutputOf(t)] = {paths[t]}
    <3>1. OutputOf(t) \in Name BY <1>1, <2>3, SlotsInUse
    <3>2. content \in [Name -> SUBSET File]
          /\ thread \in [Slot -> {"none", "created", "writing", "written", "ended"}]
      BY <1>1 DEF Inv, TypeOK
    <3>3. thread[t] = "writing" => content[OutputOf(t)] = {} BY <1>1, <2>3 DEF Contents
    <3>4. CASE OpenOutput(t) BY <3>1, <3>2, <3>4 DEF OpenOutput
    <3>5. CASE WriteOutput(t) BY <3>1, <3>2, <3>3, <3>5 DEF WriteOutput
    <3>6. CASE ThreadSucceeds(t) \/ ThreadFails(t)
      BY <3>2, <3>6 DEF ThreadSucceeds, ThreadFails
    <3> QED BY <1>3, <3>4, <3>5, <3>6 DEF Thread
  <2>6. Contents'
    <3> SUFFICES ASSUME NEW s \in 1 .. Count
                 PROVE  /\ thread'[s] = "writing" => content'[OutputOf(s)] = {}
                        /\ thread'[s] = "written" => content'[OutputOf(s)] = {paths[s]}
      BY <2>1 DEF Contents, Count, OutputOf
    <3>1. CASE s = t BY <2>5, <3>1
    <3>2. CASE s # t
      <4>1. thread'[s] = thread[s] /\ content'[OutputOf(s)] = content[OutputOf(s)]
        BY <2>4, <3>2
      <4> QED BY <1>1, <4>1 DEF Contents
    <3> QED BY <3>1, <3>2
  <2> QED BY <1>1, <2>1, <2>6 DEF Once, Count
<1>4. CASE UNCHANGED vars BY <1>1, <1>4 DEF vars, Once, Contents, Count, OutputOf
<1> QED BY <1>2, <1>3, <1>4 DEF Next

(* What a step means to the file of one slot, when it means nothing to the    *)
(* others, is a step of FileTransform.                                        *)
LEMMA StepOfOneFile ==
    ASSUME NEW f \in File,
           \A g \in File \ {f} : /\ StatusOf(g)' = StatusOf(g)
                                 /\ content'[OutName[g]] = content[OutName[g]],
           \/ /\ StatusOf(f) = "idle" /\ StatusOf(f)' = "running"
              /\ content'[OutName[f]] = content[OutName[f]]
           \/ StatusOf(f) = "running" /\ StatusOf(f)' = "running"
           \/ /\ StatusOf(f) = "running" /\ StatusOf(f)' = "ok"
              /\ content[OutName[f]] = {f} /\ content'[OutName[f]] = content[OutName[f]]
           \/ /\ StatusOf(f) = "running" /\ StatusOf(f)' = "failed"
              /\ content'[OutName[f]] = content[OutName[f]]
    PROVE  Calls!TransformNext
<1> DEFINE status == [g \in File |-> StatusOf(g)]
           touched == [g \in File |-> content[OutName[g]] # {}]
           complete == [g \in File |-> StatusOf(g) \in {"running", "ok"}
                                       /\ content[OutName[g]] = {g}]
<1>1. /\ status[f] = StatusOf(f) /\ status'[f] = StatusOf(f)'
      /\ touched[f] = (content[OutName[f]] # {}) /\ touched'[f] = (content'[OutName[f]] # {})
      /\ complete[f] = (StatusOf(f) \in {"running", "ok"} /\ content[OutName[f]] = {f})
      /\ complete'[f] = (StatusOf(f)' \in {"running", "ok"} /\ content'[OutName[f]] = {f})
      /\ touched'[f] \in BOOLEAN /\ complete'[f] \in BOOLEAN
  OBVIOUS
<1>2. ASSUME NEW g \in File \ {f}
      PROVE  /\ status'[g] = status[g] /\ touched'[g] = touched[g]
             /\ complete'[g] = complete[g]
  OBVIOUS
<1>3. /\ status' = [status EXCEPT ![f] = status'[f]]
      /\ touched' = [touched EXCEPT ![f] = touched'[f]]
      /\ complete' = [complete EXCEPT ![f] = complete'[f]]
  <2>1. status' = [status EXCEPT ![f] = status'[f]] BY <1>2
  <2>2. touched' = [touched EXCEPT ![f] = touched'[f]] BY <1>2
  <2>3. complete' = [complete EXCEPT ![f] = complete'[f]] BY <1>2
  <2> QED BY <2>1, <2>2, <2>3
<1>4. /\ status'[f] = status[f] => status' = status
      /\ touched'[f] = touched[f] => touched' = touched
      /\ complete'[f] = complete[f] => complete' = complete
  BY <1>3
<1> HIDE DEF status, touched, complete
<1>5. CASE /\ StatusOf(f) = "idle" /\ StatusOf(f)' = "running"
           /\ content'[OutName[f]] = content[OutName[f]]
  <2>1. /\ status[f] = "idle" /\ status' = [status EXCEPT ![f] = "running"]
        /\ touched' = touched
    BY <1>1, <1>3, <1>4, <1>5
  <2>2. Calls!Begin(f) BY <1>1, <1>3, <2>1 DEF Calls!Begin, status, touched, complete
  <2> QED BY <2>2 DEF Calls!TransformNext
<1>6. CASE StatusOf(f) = "running" /\ StatusOf(f)' = "running"
  <2>1. status[f] = "running" /\ status' = status BY <1>1, <1>4, <1>6
  <2>2. Calls!Produce(f) BY <1>1, <1>3, <2>1 DEF Calls!Produce, status, touched, complete
  <2> QED BY <2>2 DEF Calls!TransformNext
<1>7. CASE /\ StatusOf(f) = "running" /\ StatusOf(f)' = "ok"
           /\ content[OutName[f]] = {f} /\ content'[OutName[f]] = content[OutName[f]]
  <2>1. complete[f] = TRUE /\ complete'[f] = TRUE BY <1>1, <1>7
  <2>2. /\ status[f] = "running" /\ status' = [status EXCEPT ![f] = "ok"]
        /\ complete[f] /\ complete' = complete /\ touched' = touched
    BY <1>1, <1>3, <1>4, <1>7, <2>1
  <2>3. Calls!Succeed(f) BY <2>2 DEF Calls!Succeed, status, touched, complete
  <2> QED BY <2>3 DEF Calls!TransformNext
<1>8. CASE /\ StatusOf(f) = "running" /\ StatusOf(f)' = "failed"
           /\ content'[OutName[f]] = content[OutName[f]]
  <2>1. complete'[f] = FALSE BY <1>1, <1>8
  <2>2. /\ status[f] = "running" /\ status' = [status EXCEPT ![f] = "failed"]
        /\ complete' = [complete EXCEPT ![f] = FALSE] /\ touched' = touched
    BY <1>1, <1>3, <1>4, <1>8, <2>1
  <2>3. Calls!Fail(f) BY <2>2 DEF Calls!Fail, status, touched, complete
  <2> QED BY <2>3 DEF Calls!TransformNext
<1> QED BY <1>5, <1>6, <1>7, <1>8

(* A step that means nothing to any file.                                     *)
LEMMA StepOfNoFile ==
    ASSUME \A g \in File : StatusOf(g)' = StatusOf(g), content' = content
    PROVE  UNCHANGED Calls!tvars
BY DEF Calls!tvars

(* A thread's step means something to its own file only.                      *)
LEMMA ThreadRefines ==
    ASSUME DistinctNames, CallsInv, CallsInv', NEW t \in Slot, Thread(t)
    PROVE  Calls!TransformNext
<1>1. Inv /\ Once /\ Contents /\ Inv' /\ Once' BY DEF CallsInv
<1>2. paths' = paths /\ pc' = pc /\ pc # "aborted" BY DEF Thread
<1>3. Running(t)
  BY DEF Thread, OpenOutput, WriteOutput, ThreadSucceeds, ThreadFails, AllWritten, Running
<1>4. /\ t \in 1 .. Count /\ paths[t] \in File /\ OutputOf(t) \in Name
      /\ OutputOf(t) = OutName[paths[t]] /\ 1 .. Count \subseteq Slot
  BY <1>1, <1>3, SlotsInUse DEF Running
<1>5. /\ content \in [Name -> SUBSET File] /\ success \in [Slot -> BOOLEAN]
      /\ thread \in [Slot -> {"none", "created", "writing", "written", "ended"}]
  BY <1>1 DEF Inv, TypeOK
<1>5a. PICK f \in File : paths[t] = f BY <1>4
<1>6. \A s \in Slot \ {t} : thread'[s] = thread[s] /\ success'[s] = success[s]
  BY <1>5 DEF Thread, OpenOutput, WriteOutput, ThreadSucceeds, ThreadFails
<1>7. \A n \in Name : n # OutputOf(t) => content'[n] = content[n]
  BY <1>5 DEF Thread, OpenOutput, WriteOutput, ThreadSucceeds, ThreadFails
<1>8. ASSUME NEW g \in File \ {f}
      PROVE  StatusOf(g)' = StatusOf(g) /\ content'[OutName[g]] = content[OutName[g]]
  <2>1. SlotOf(g)' = SlotOf(g) /\ SlotOf(g) \subseteq Slot \ {t}
    BY <1>2, <1>4, <1>5a DEF SlotOf, Count
  <2>2. \A s \in SlotOf(g) : thread'[s] = thread[s] /\ success'[s] = success[s]
    BY <1>6, <2>1
  <2>3. StatusOf(g)' = StatusOf(g) BY <1>2, <2>1, <2>2 DEF StatusOf, Running
  <2>4. OutName[g] \in Name /\ OutName[g] # OutputOf(t) BY <1>4, <1>5a DEF DistinctNames, Name
  <2> QED BY <1>7, <2>3, <2>4
<1>9. StatusOf(f) = "running" BY <1>1, <1>2, <1>3, <1>4, <1>5a, StatusOfSlot
<1>10. /\ Running(t)' => StatusOf(f)' = "running"
       /\ thread'[t] = "ended" => StatusOf(f)' = IF success'[t] THEN "ok" ELSE "failed"
  <2>1. SlotOf(f)' = {t} BY <1>1, <1>2, <1>4, <1>5a DEF SlotOf, Once, Count
  <2> QED BY <1>2, <2>1 DEF StatusOf, Running
<1>11. CASE OpenOutput(t) \/ WriteOutput(t)
  <2>1. Running(t)' BY <1>5, <1>11 DEF OpenOutput, WriteOutput, Running
  <2>2. StatusOf(f)' = "running" BY <1>10, <2>1
  <2> QED BY <1>8, <1>9, <2>2, StepOfOneFile
<1>12. CASE ThreadSucceeds(t)
  <2>1. /\ thread[t] = "written" /\ thread'[t] = "ended" /\ success'[t] /\ content' = content
    BY <1>5, <1>12 DEF ThreadSucceeds, AllWritten
  <2>2. content[OutName[f]] = {f} BY <1>1, <1>4, <1>5a, <2>1 DEF Contents
  <2>3. StatusOf(f)' = "ok" BY <1>10, <2>1
  <2>4. content'[OutName[f]] = content[OutName[f]] BY <2>1
  <2> QED BY <1>8, <1>9, <2>2, <2>3, <2>4, StepOfOneFile
<1>13. CASE ThreadFails(t)
  <2>1. thread'[t] = "ended" /\ ~success'[t] /\ content' = content
    BY <1>5, <1>13 DEF ThreadFails
  <2>2. StatusOf(f)' = "failed" BY <1>10, <2>1
  <2>3. content'[OutName[f]] = content[OutName[f]] BY <2>1
  <2> QED BY <1>8, <1>9, <2>2, <2>3, StepOfOneFile
<1> QED BY <1>11, <1>12, <1>13 DEF Thread

(* The abort of the process, by a join of what is no thread, is its death.    *)
LEMMA AbortRefines ==
    ASSUME CallsInv, pc # "aborted", pc' = "aborted",
           UNCHANGED <<paths, content, thread, success>>
    PROVE  [Calls!TransformNext]_(Calls!tvars)
<1> DEFINE status == [g \in File |-> StatusOf(g)]
           touched == [g \in File |-> content[OutName[g]] # {}]
           complete == [g \in File |-> StatusOf(g) \in {"running", "ok"}
                                       /\ content[OutName[g]] = {g}]
           one == [g \in File |-> "gsea"]
           never == {g \in File : FALSE}
<1>1. ASSUME NEW g \in File
      PROVE  StatusOf(g)' = IF StatusOf(g) = "running" THEN "crashed" ELSE StatusOf(g)
  <2>1. SlotOf(g)' = SlotOf(g) BY DEF SlotOf, Count
  <2>2. \A s \in SlotOf(g) : (Running(s)' <=> Running(s)) /\ thread'[s] = thread[s]
                              /\ success'[s] = success[s]
    BY DEF Running
  <2>3. CASE \E s \in SlotOf(g) : Running(s)
    <3>1. StatusOf(g) = "running" BY <2>3 DEF StatusOf
    <3>2. \E s \in SlotOf(g)' : Running(s)' BY <2>1, <2>2, <2>3
    <3>3. StatusOf(g)' = "crashed" BY <3>2 DEF StatusOf
    <3> QED BY <3>1, <3>3
  <2>4. CASE ~\E s \in SlotOf(g) : Running(s)
    <3>1. StatusOf(g) # "running" BY <2>4 DEF StatusOf
    <3>2. StatusOf(g)' = StatusOf(g) BY <2>1, <2>2, <2>4 DEF StatusOf
    <3> QED BY <3>1, <3>2
  <2> QED BY <2>3, <2>4
<1>2. CASE \E g \in File : StatusOf(g) = "running"
  <2>1. /\ \A g \in File : one[g] = "gsea"
        /\ \A g \in File : status[g] = StatusOf(g) /\ status'[g] = StatusOf(g)'
        /\ \A g \in File : touched'[g] = touched[g]
    OBVIOUS
  <2>2. \E g \in File : one[g] = "gsea" /\ status[g] = "running" BY <1>2, <2>1
  <2>3. status' = [g \in File |-> IF \/ one[g] = "gsea" /\ status[g] = "running"
                                     \/ g \in never
                                  THEN "crashed" ELSE status[g]]
    BY <1>1, <2>1
  <2>4. complete' = [g \in File |-> complete[g] /\ status'[g] # "crashed"]
    <3>1. ASSUME NEW g \in File PROVE complete'[g] = (complete[g] /\ status'[g] # "crashed")
      <4>1. complete[g] = (StatusOf(g) \in {"running", "ok"} /\ content[OutName[g]] = {g})
        OBVIOUS
      <4>2. complete'[g] = (StatusOf(g)' \in {"running", "ok"} /\ content[OutName[g]] = {g})
        OBVIOUS
      <4> HIDE DEF complete
      <4> QED BY <1>1, <2>1, <4>1, <4>2
    <3> QED BY <3>1
  <2>5. touched' = touched OBVIOUS
  <2>6. never \in SUBSET {g \in File : one[g] = "gsea" /\ status[g] = "idle"} OBVIOUS
  <2> HIDE DEF status, touched, complete, never, one
  <2>7. Calls!Die("gsea")
    BY <2>2, <2>3, <2>4, <2>5, <2>6 DEF Calls!Die, status, touched, complete, one
  <2> QED BY <2>7 DEF Calls!TransformNext
<1>3. CASE ~\E g \in File : StatusOf(g) = "running"
  <2>1. \A g \in File : StatusOf(g)' = StatusOf(g) BY <1>1, <1>3
  <2> QED BY <2>1, StepOfNoFile
<1> QED BY <1>2, <1>3

(* The main thread begins a file's transformation when it starts its thread,  *)
(* and is otherwise not seen.                                                 *)
LEMMA MainRefines ==
    ASSUME DistinctNames, CallsInv, CallsInv', Main
    PROVE  [Calls!TransformNext]_(Calls!tvars)
<1>1. Inv /\ Once /\ Inv' /\ Once' BY DEF CallsInv
<1>2. content' = content /\ pc # "aborted" BY <1>1, MainKeeps
<1>3. 1 .. Count \subseteq Slot BY <1>1, SlotsInUse
<1>4. CASE pc' = "aborted"
  <2>1. UNCHANGED <<paths, thread, success>>
    BY <1>2, <1>4 DEF Main, ListFiles, CreateOutputDir, InitThreadPool, Spawn, SkipSlot,
                      JoinThread, JoinJunk, FreeAndReturn, Advance, Return
  <2> QED BY <1>2, <1>4, <2>1, AbortRefines
<1>5. CASE paths' # paths
  <2>1. Count = 0 /\ thread' = thread /\ pc = "list" BY <1>1, <1>5, MainKeeps
  <2>2. \A s \in Slot : thread[s] = "none"
    BY <1>1, <2>1 DEF Inv, Slots, SlotOk, Unstarted, Early
  <2>3. (1 .. Count)' \subseteq Slot BY <1>1, PoolAssumption DEF Slot, Inv, Loops
  <2>4. ASSUME NEW g \in File PROVE StatusOf(g)' = StatusOf(g)
    <3>1. SlotOf(g) \subseteq Slot /\ SlotOf(g)' \subseteq Slot BY <1>3, <2>3 DEF SlotOf
    <3>2. StatusOf(g) = "idle" BY <2>2, <3>1 DEF StatusOf, Running
    <3>3. StatusOf(g)' = "idle" BY <2>1, <2>2, <3>1 DEF StatusOf, Running
    <3> QED BY <3>2, <3>3
  <2> QED BY <1>2, <2>4, StepOfNoFile
<1>6. CASE pc' # "aborted" /\ paths' = paths /\ thread' = thread /\ success' = success
  <2>1. \A g \in File : StatusOf(g)' = StatusOf(g)
    BY <1>2, <1>6 DEF StatusOf, SlotOf, Count, Running
  <2> QED BY <1>2, <2>1, StepOfNoFile
<1>7. CASE /\ i \in 1 .. Count /\ thread[i] = "none" /\ ~success[i]
           /\ paths' = paths /\ pc # "aborted" /\ pc' # "aborted"
           /\ \A s \in Slot \ {i} : thread'[s] = thread[s] /\ success'[s] = success[s]
           /\ thread'[i] \in {"none", "created"} /\ ~success'[i]
  <2>1. PICK f \in File : paths[i] = f BY <1>1, <1>7, SlotsInUse
  <2>2. PICK s \in 1 .. Count : s = i BY <1>7
  <2>3. SlotOf(f) = {s} /\ SlotOf(f)' = {s}
    BY <1>1, <1>7, <2>1, <2>2 DEF SlotOf, Once, Count
  <2>4. ASSUME NEW g \in File \ {f} PROVE StatusOf(g)' = StatusOf(g)
    <3>1. SlotOf(g)' = SlotOf(g) /\ SlotOf(g) \subseteq Slot \ {i}
      BY <1>3, <1>7, <2>1 DEF SlotOf, Count
    <3>2. \A t \in SlotOf(g) : thread'[t] = thread[t] /\ success'[t] = success[t]
      BY <1>7, <3>1
    <3> QED BY <1>7, <3>1, <3>2 DEF StatusOf, Running
  <2>5. StatusOf(f) = "idle" BY <1>7, <2>2, <2>3 DEF StatusOf, Running
  <2>6. CASE thread'[i] = "none"
    <3>1. StatusOf(f)' = "idle" BY <2>2, <2>3, <2>6 DEF StatusOf, Running
    <3>2. \A g \in File : StatusOf(g)' = StatusOf(g) BY <2>4, <2>5, <3>1
    <3> QED BY <1>2, <3>2, StepOfNoFile
  <2>7. CASE thread'[i] = "created"
    <3>1. StatusOf(f)' = "running" BY <1>7, <2>2, <2>3, <2>7 DEF StatusOf, Running
    <3>2. \A g \in File : content'[OutName[g]] = content[OutName[g]] BY <1>2
    <3>3. Calls!TransformNext BY <2>4, <2>5, <3>1, <3>2, StepOfOneFile
    <3> QED BY <3>3
  <2> QED BY <1>7, <2>6, <2>7
<1> QED BY <1>1, <1>4, <1>5, <1>6, <1>7, MainKeeps

(* When base names do not collide, each thread's use of its file is a call of *)
(* FileTransform: for any number of files, in any order of the threads, with  *)
(* any failures, and also if a bad join aborts the process.                   *)
THEOREM PoolRefines == DistinctNames => (Spec => Calls!TransformSafety)
<1> SUFFICES ASSUME DistinctNames PROVE Spec => Calls!TransformSafety OBVIOUS
<1>1. Init => CallsInv
  <2> SUFFICES ASSUME Init PROVE CallsInv OBVIOUS
  <2>1. Count = 0 BY DEF Init, Count
  <2>2. Once /\ Contents BY <2>1 DEF Once, Contents
  <2> QED BY <2>2, InitEstablishes DEF CallsInv
<1>2. Init => Calls!TransformInit
  <2> SUFFICES ASSUME Init PROVE Calls!TransformInit OBVIOUS
  <2>1. \A g \in File : SlotOf(g) = {} BY DEF Init, SlotOf, Count
  <2>2. \A g \in File : StatusOf(g) = "idle" BY <2>1 DEF StatusOf
  <2>3. \A g \in File : content[OutName[g]] = {} BY DEF Init, Name
  <2> QED BY <2>2, <2>3 DEF Calls!TransformInit
<1>3. Inv /\ Inv' /\ CallsInv /\ [Next]_vars => CallsInv' BY CallsStep DEF CallsInv
<1>4. CallsInv /\ CallsInv' /\ [Next]_vars => [Calls!TransformNext]_(Calls!tvars)
  <2> SUFFICES ASSUME CallsInv, CallsInv', [Next]_vars
               PROVE  [Calls!TransformNext]_(Calls!tvars)
    OBVIOUS
  <2>1. CASE Main BY <2>1, MainRefines
  <2>2. CASE \E s \in Slot : Thread(s) BY <2>2, ThreadRefines
  <2>3. CASE UNCHANGED vars
    <3>1. \A g \in File : StatusOf(g)' = StatusOf(g)
      BY <2>3 DEF vars, StatusOf, SlotOf, Count, Running
    <3> QED BY <2>3, <3>1, StepOfNoFile DEF vars
  <2> QED BY <2>1, <2>2, <2>3 DEF Next
<1> QED BY <1>1, <1>2, <1>3, <1>4, Invariance, PTL DEF Spec, Calls!TransformSafety
==============================================================================

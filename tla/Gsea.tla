--------------------------------- MODULE Gsea ---------------------------------
(* Runs of the program from their command lines: parse_arguments              *)
(* (args_parser.c), the choice between single file, directory and archive     *)
(* (main.c) and the names of outputs (archive.c), over Archive.  A run may    *)
(* also be a program that calls a function of archive.h itself, as            *)
(* test_archive.c does.                                                       *)
EXTENDS Archive

CONSTANTS PathOf,        \* each name as a path
          Plans,         \* what the runs of a behaviour are, and begin with
          ReadBody       \* bound: what may be read of a file while it changes

(* What a user may name.  A path is whether it is in the working directory,   *)
(* and its last part, divided at the dots (hidden files are left out).        *)
Path == Name \ TempName
PathType == [here : BOOLEAN, parts : Seq(STRING) \ {<<>>}]
IsNamed(n, parts) == n \in Path /\ PathOf[n] = [here |-> TRUE, parts |-> parts]
Named(parts) == CHOOSE n \in Path : IsNamed(n, parts)
ExtOf(n) == IF Len(PathOf[n].parts) > 1 THEN Last(PathOf[n].parts) ELSE ""

(***************************** parse_arguments *******************************)

(* An argument and, if the option takes one, the value after it: a path, the  *)
(* number of an algorithm (0 if unknown), the length of the key; NoName if    *)
(* there is none.                                                             *)
Letters == [c |-> "OP_COMPRESS", d |-> "OP_DECOMPRESS", e |-> "OP_ENCRYPT", u |-> "OP_DECRYPT"]

Argument ==
    [option : {"ops"}, value : Seq(DOMAIN Letters)]
    \cup [option : {"-i", "-o"}, value : Path \cup {NoName}]
    \cup [option : {"-k", "--comp-alg", "--enc-alg"}, value : Nat \cup {NoName}]
    \cup [option : {"-h", "bad"}, value : {NoName}]

Parsed == [status : {"go", "help", "error"}, operations : SUBSET Operation,
           comp_alg : Nat, key : Nat, input : Path \cup {NoName}, output : Path \cup {NoName}]
Defaults == [status |-> "go", operations |-> {}, comp_alg |-> 1, key |-> 0,
             input |-> NoName, output |-> NoName]

(* A variant: options add up.                                                 *)
AddOperations(p, letters) ==
    [p EXCEPT !.operations = @ \cup {Letters[l] : l \in ToSet(letters)}]

(* parse_operations: the letters of one argument, each at most once.  Every   *)
(* such argument starts from OP_NONE.                                         *)
ParseOperations(p, letters) ==
    IF Cardinality(ToSet(letters)) = Len(letters)
    THEN [p EXCEPT !.operations = {Letters[l] : l \in ToSet(letters)}]
    ELSE [p EXCEPT !.status = "error"]

ParseArgument(p, arg) ==
    IF p.status # "go" THEN p
    ELSE IF arg.option = "ops" THEN ParseOperations(p, arg.value)
    ELSE IF arg.option = "-h" THEN [p EXCEPT !.status = "help"]
    ELSE IF arg.option = "bad" \/ arg.value = NoName THEN [p EXCEPT !.status = "error"]
    ELSE CASE arg.option = "-i" -> [p EXCEPT !.input = arg.value]
           [] arg.option = "-o" -> [p EXCEPT !.output = arg.value]
           [] arg.option = "-k" -> [p EXCEPT !.key = arg.value]
           [] arg.option = "--comp-alg" ->
                 [p EXCEPT !.comp_alg = arg.value,
                           !.status = IF arg.value = 0 THEN "error" ELSE "go"]
           [] arg.option = "--enc-alg" ->
                 [p EXCEPT !.status = IF arg.value = 0 THEN "error" ELSE "go"]

(* validate_config; -d with -e, and -c with -u, are accepted.                 *)
Valid(p) ==
    /\ p.operations # {}
    /\ ~({"OP_COMPRESS", "OP_DECOMPRESS"} \subseteq p.operations)
    /\ ~({"OP_ENCRYPT", "OP_DECRYPT"} \subseteq p.operations)
    /\ p.input # NoName
    /\ p.operations \cap {"OP_ENCRYPT", "OP_DECRYPT"} # {} => p.key > 0

(* The loop over argv, up to the n-th argument.                               *)
Parsing(argv) ==
    LET after[n \in 0 .. Len(argv)] ==
            IF n = 0 THEN Defaults ELSE ParseArgument(after[n - 1], argv[n])
    IN after

ParseArguments(argv) ==
    LET p == Parsing(argv)[Len(argv)]
    IN IF argv = <<>> THEN [p EXCEPT !.status = "help"]
       ELSE IF p.status = "go" /\ ~Valid(p) THEN [p EXCEPT !.status = "error"] ELSE p

(***************************** execute_operations ****************************)

(* get_auto_extension                                                         *)
Extension(operations) ==
    IF {"OP_COMPRESS", "OP_ENCRYPT"} \subseteq operations THEN "gsea"
    ELSE IF "OP_COMPRESS" \in operations THEN "rle"
    ELSE IF "OP_ENCRYPT" \in operations THEN "enc"
    ELSE ""

WithoutExtension(parts) == IF Len(parts) > 1 THEN Front(parts) ELSE parts
WithExtension(parts, ext) == IF ext = "" THEN parts ELSE Append(parts, ext)

(* generate_auto_output_path: the last part of the path, without the extension*)
(* it has if strips, with that of the operations.                             *)
AutoParts(input, operations, strips) ==
    LET parts == PathOf[input].parts
    IN WithExtension(IF strips THEN WithoutExtension(parts) ELSE parts, Extension(operations))

(* A variant: if there is no extension to put, the name stays as it is.       *)
KeepsName(input, operations, strips) ==
    Named(IF Extension(operations) = "" THEN PathOf[input].parts
          ELSE AutoParts(input, operations, strips))

AutoName(input, operations, strips) == Named(AutoParts(input, operations, strips))

(* What process_output_path takes instead if there is no memory for the name. *)
DefaultParts == <<"salida", "gsea">>
DefaultName == Named(DefaultParts)

MadeUpParts(input, operations) ==
    {AutoParts(input, operations, strips) : strips \in BOOLEAN} \cup {DefaultParts}
MadeUpNames(input, operations) == {Named(parts) : parts \in MadeUpParts(input, operations)}

(* is_gsea_archive_file                                                       *)
IsArchiveFile(n) ==
    /\ file[n] # NoFile
    /\ file[n].layers = <<>> /\ file[n].units # <<>> /\ file[n].units[1].kind = "magic"

(* detect_operation_mode, and the rule on .huff before it.                    *)
Detected(input, operations) ==
    IF ExtOf(input) = "huff" THEN "single"
    ELSE IF <<input, 0>> \in dirs THEN "directory"
    ELSE IF /\ operations \cap {"OP_DECOMPRESS", "OP_DECRYPT"} # {}
            /\ ExtOf(input) \in {"gsea", "rle", "enc"}
            /\ IsArchiveFile(input)
    THEN "archive" ELSE "single"

(* execute_directory_operations: what the first condition that holds calls.   *)
DirectoryOperation(operations) ==
    IF {"OP_COMPRESS", "OP_ENCRYPT"} \subseteq operations THEN "pack"
    ELSE IF {"OP_DECRYPT", "OP_DECOMPRESS"} \subseteq operations THEN "unpack"
    ELSE IF "OP_COMPRESS" \in operations THEN "pack"
    ELSE IF "OP_DECOMPRESS" \in operations THEN "unpack"
    ELSE IF "OP_ENCRYPT" \in operations THEN "pack"
    ELSE "unpack"

(* Nobody gives a temporary to the program, and none is there at first.  What *)
(* a command line may make up are names.  Who calls archive.h itself packs or *)
(* unpacks, and says what and into what.  In the files there are, what comes  *)
(* before a size is the path of a member: other paths are not modelled.       *)
ASSUME NameAssumption == PathOf \in [Path -> PathType]

NamesMembers(units) ==
    \A i \in 1 .. Len(units) - 1 : units[i + 1].kind = "size" => units[i].val \in Member

ASSUME PlanAssumption ==
    \A p \in Plans :
       /\ p.file \in [Name -> Content \cup {NoFile}]
       /\ \A t \in TempName : p.file[t] = NoFile
       /\ \A n \in Path : p.file[n] # NoFile => NamesMembers(p.file[n].units)
       /\ p.dirs \subseteq Path \X Sub
       /\ p.tree \in [Name -> [Member -> Seq(Nat) \cup {NoFile}]]
       /\ p.plan.changing \subseteq Path /\ DOMAIN p.plan.does \subseteq Run
       /\ \A r \in DOMAIN p.plan.does :
             IF p.plan.does[r].entry = "main"
             THEN LET parsed == ParseArguments(p.plan.does[r].argv)
                  IN /\ p.plan.does[r].argv \in Seq(Argument)
                     /\ parsed.status = "go" /\ parsed.output = NoName =>
                           \A parts \in MadeUpParts(parsed.input, parsed.operations) :
                              \E n \in Path : IsNamed(n, parts)
             ELSE LET c == p.plan.does[r].call
                  IN /\ c \in Call /\ c.mode \in {"pack", "unpack"}
                     /\ c.named /\ c.input \in Path /\ c.output \in Path

(******************************** the state **********************************)

VARIABLE plan            \* argv of each run, or what it calls, and its order

vars == <<avars, plan>>

NoCall == [mode |-> "none", operations |-> {}, comp_alg |-> 0, input |-> NoName,
           output |-> NoName, named |-> TRUE, fallback |-> FALSE, seen |-> FALSE]

Planned == {p.plan : p \in Plans}
TypeOK == ArchiveTypeOK /\ plan \in Planned

Init ==
    /\ \E p \in Plans :
          plan = p.plan /\ file = p.file /\ dirs = p.dirs /\ tree = p.tree
    /\ pc = [r \in Run |-> "idle"]
    /\ call = [r \in Run |-> NoCall]
    /\ temp = [r \in Run |-> NoName]
    /\ work = [r \in Run |-> NoWork]
    /\ result = [r \in Run |-> 0]
    /\ lost = {} /\ edited = {} /\ faults = 0

MayStart(r) ==
    /\ pc[r] = "idle" /\ r \in DOMAIN plan.does
    /\ \A s \in plan.waits[r] : pc[s] \in Ended

(* main up to execute_operations; the exit status is result.                  *)
Main(r) ==
    /\ MayStart(r) /\ plan.does[r].entry = "main"
    /\ LET p == ParseArguments(plan.does[r].argv)
       IN IF p.status = "go"
          THEN /\ call' = [call EXCEPT ![r] =
                    [NoCall EXCEPT !.operations = p.operations, !.comp_alg = p.comp_alg,
                        !.input = p.input, !.output = p.output, !.named = p.output # NoName]]
               /\ Goto(r, "dispatch") /\ UNCHANGED result
          ELSE Ends(r, IF p.status = "help" THEN 0 ELSE -1, "returned") /\ UNCHANGED call
    /\ UNCHANGED <<fs, temp, work, lost, edited, faults, plan>>

(* execute_operations: the input is looked at here and used later.  A stat or *)
(* an open that fails, or a short read of the magic, makes it a single file.  *)
Dispatch(r) ==
    /\ pc[r] = "dispatch"
    /\ LET c == call[r]
           detected == Detected(c.input, c.operations)
       IN \E found \in {detected, "single"} :
             /\ IF found = detected THEN UNCHANGED faults ELSE Fault
             /\ call' = [call EXCEPT
                   ![r].mode = IF found = "single" THEN "file"
                               ELSE DirectoryOperation(c.operations),
                   ![r].fallback = found = "archive"]
    /\ Goto(r, "name")
    /\ UNCHANGED <<fs, temp, work, result, lost, edited, plan>>

(* process_output_path: without -o it makes up a name, from which it takes the*)
(* extension if stat finds a regular file and strdup succeeds.  If malloc does*)
(* not, it takes the default.                                                 *)
NameOutput(r) ==
    /\ pc[r] = "name"
    /\ LET c == call[r]
           regular == file[c.input] # NoFile
           Called(name, seen) ==
               call' = [call EXCEPT ![r].output = name, ![r].seen = seen]
       IN \/ c.named /\ UNCHANGED <<call, faults>>
          \/ /\ ~c.named /\ UNCHANGED faults
             /\ Called(AutoName(c.input, c.operations, regular), regular)
          \/ /\ ~c.named /\ Fault
             /\ \E name \in {AutoName(c.input, c.operations, FALSE), DefaultName} :
                   Called(name, FALSE)
    /\ Goto(r, IF call[r].mode = "file" THEN "pipe" ELSE "mktemp")
    /\ UNCHANGED <<fs, temp, work, result, lost, edited, plan>>

(* compress_directory_only and the others, called by another program.         *)
CallLibrary(r) ==
    /\ MayStart(r) /\ plan.does[r].entry = "library"
    /\ call' = [call EXCEPT ![r] = plan.does[r].call]
    /\ Goto(r, "mktemp")
    /\ UNCHANGED <<fs, temp, work, result, lost, edited, faults, plan>>

Step(r) ==
    \/ Main(r) \/ Dispatch(r) \/ NameOutput(r) \/ CallLibrary(r)
    \/ ArchiveStep(r) /\ UNCHANGED plan

Next ==
    \/ \E r \in Run : Step(r)
    \/ \E r \in Run : Kill(r) /\ UNCHANGED plan
    \/ \E n \in plan.changing, m \in Member, body \in Body \cup {NoFile} :
          Edit(n, m, body) /\ UNCHANGED plan

Fairness == \A r \in Run : WF_vars(Step(r))

Spec == Init /\ [][Next]_vars /\ Fairness

(******************************* properties **********************************)

Returned(r, status) == pc[r] = "returned" /\ result[r] = status

(* The archives of some files, in any order.                                  *)
ArchiveUnits(list, files) ==
    Header(Len(list)) \o
    FlattenSeq([i \in 1 .. Len(list) |->
        <<U("path", list[i]), U("size", Len(files[list[i]]))>> \o Bytes(files[list[i]])])
ArchivesOf(files) == {ArchiveUnits(list, files) : list \in SetToSeqs(DOMAIN files)}

(* A pack that returns 0 made an archive that can be extracted, of files that *)
(* are as they are in the directory unless a user changed them meanwhile, and *)
(* of all that were there all the time unless one could not be listed.  Only  *)
(* what fclose did not write is never missed (write_archive_entry).           *)
PackedIsWhole ==
    \A r \in Run \ lost :
       (Packing(r) /\ Returned(r, 0)) =>
          LET n == call[r].input
              changed == {m \in Member : <<n, m>> \in edited}
              kept == Present(n) \ changed
              unlisted == IF faults = 0 THEN {{}} ELSE SUBSET kept
          IN \E missed \in unlisted, more \in SUBSET changed :
                \E read \in [more -> ReadBody] :
                   LET files == [m \in (kept \ missed) \cup more |->
                                   IF m \in more THEN read[m] ELSE tree[n][m]]
                   IN \E units \in ArchivesOf(files) :
                         file[call[r].output] \in
                            ResultsOn(r, [Empty EXCEPT !.units = units])

(* When an unpack returns 0, and so does every other that extracts to the same*)
(* directory, the directory holds all that the archive does: a damaged or     *)
(* shortened one is never extracted in part with status 0.                    *)
UnpackedIsWhole ==
    \A r \in Run \ lost :
       LET n == call[r].output
           others == {s \in Run : call[s].mode = "unpack" /\ call[s].output = n}
       IN (/\ call[r].mode = "unpack"
           /\ \A s \in others : Returned(s, 0) /\ s \notin lost)
          => \E ms \in SUBSET Present(n) :
                file[call[r].input].units \in ArchivesOf([m \in ms |-> tree[n][m]])

(* A run that has the machine for itself, where nothing fails, returns -1 only*)
(* for a reason: an empty directory, a file that is no archive or not coded   *)
(* as asked, an output that is of the other kind.  In particular existing and *)
(* missing directories of the output are both right (create_directory).       *)
Alone(r) ==
    \A s \in DOMAIN plan.does \ {r} : r \in plan.waits[s] \/ s \in plan.waits[r]

IsDirectory(n) == <<n, 0>> \in dirs
Directories == {n \in Name : IsDirectory(n)}

Sound(r) ==
    LET c == call[r]
        made == IF file[c.input] = NoFile THEN {} ELSE ResultsOn(r, file[c.input])
    IN CASE c.mode = "pack" -> Present(c.input) # {} /\ ~IsDirectory(c.output)
         [] c.mode = "unpack" ->
              /\ file[c.output] = NoFile
              /\ \E x \in made, n \in Directories :
                    x.units \in ArchivesOf([m \in Present(n) |-> tree[n][m]])
         [] c.mode = "file" ->
              /\ made # {} /\ Garbage \notin made
              /\ c.input # c.output /\ ~IsDirectory(c.output)
         [] OTHER -> FALSE

RefusedForCause ==
    \A r \in Run :
       (Returned(r, -1) /\ Alone(r) /\ faults = 0 /\ edited = {}) => ~Sound(r)

(* A temporary that exists is that of a run which has not ended, or was       *)
(* killed: every way out removes it (archive.c:361, 431, 436, 449, 454).      *)
HasTemp(r) == pc[r] \notin {"idle", "dispatch", "name", "mktemp", "returned"}

TempsAreCleared ==
    \A t \in TempName :
       file[t] # NoFile => \E r \in Run : HasTemp(r) /\ temp[r] = t

(* Without -o a run leaves its input alone, whatever fails later, if it packs *)
(* something that does not have one of the program's extensions, or if it     *)
(* unpacks something that has an extension and was a regular file when the    *)
(* name was made up, and no call failed just then: nothing but the name that  *)
(* generate_auto_output_path makes up keeps it from truncating its own input, *)
(* and where strdup fails there that is the input's own.  Nor does another run*)
(* touch it whose output is not that very name; only users change a file of   *)
(* the directory (no step of theirs moves a run).                             *)
Extensions == {"gsea", "rle", "enc"}

Protected(r) ==
    /\ pc[r] \in Busy \ {"dispatch", "name"} /\ ~call[r].named
    /\ IF call[r].operations \cap {"OP_COMPRESS", "OP_ENCRYPT"} # {}
       THEN ExtOf(call[r].input) \notin Extensions
       ELSE ExtOf(call[r].input) # "" /\ call[r].seen
    /\ \A s \in Run \ {r} : call[s].output # call[r].input

InputSurvives ==
    [][\A r \in Run :
          Protected(r) =>
             /\ file'[call[r].input] = file[call[r].input]
             /\ pc' # pc => tree'[call[r].input] = tree[call[r].input]]_vars

(* A run from the command line that exits with 0 on a single file has done    *)
(* all that its last operations option asks, each operation once, the cipher  *)
(* on the outside.  If it mixes the two directions (test_parser.c:101 has that*)
(* accepted) it has done what the codec is asked, and nothing else            *)
(* (validate_config against execute_file_pipeline).  Excepted: a run on its   *)
(* own input, and what an old-format decoder makes of a file it can not know, *)
(* or of a stream of which a read gave too little (Misread).  No other run may*)
(* have the file or the result for its output.                                *)
Asked(argv) ==
    LET last == SelectLastInSeq(argv, LAMBDA arg : arg.option = "ops")
    IN {Letters[l] : l \in ToSet(argv[last].value)}

Expected(asked, alg, c) ==
    LET decrypted == IF "OP_DECRYPT" \in asked THEN XorUnit(c, 0) ELSE c
        decoded == IF "OP_DECOMPRESS" \in asked THEN Popped(decrypted) ELSE decrypted
        coded == IF "OP_COMPRESS" \in asked THEN Pushed(decoded, CodecLayer(alg)) ELSE decoded
    IN IF "OP_ENCRYPT" \in asked THEN XorUnit(coded, 0) ELSE coded

MayWrite(c) == IF c.named THEN {c.output} ELSE MadeUpNames(c.input, c.operations)

OperationsDone ==
    \A r \in DOMAIN plan.does :
       LET c == call[r]
       IN (/\ plan.does[r].entry = "main" /\ c.mode = "file" /\ Returned(r, 0)
           /\ c.input # c.output /\ file[c.input] # Empty /\ file[c.output] # Garbage
           /\ \A s \in Run \ {r} : MayWrite(call[s]) \cap {c.input, c.output} = {}) =>
             LET asked == Asked(plan.does[r].argv)
                 mixed == \/ {"OP_COMPRESS", "OP_DECRYPT"} \subseteq asked
                          \/ {"OP_DECOMPRESS", "OP_ENCRYPT"} \subseteq asked
                 done == IF mixed THEN asked \cap {"OP_COMPRESS", "OP_DECOMPRESS"} ELSE asked
             IN file[c.output] = Expected(done, c.comp_alg, file[c.input])

(* Every run ends, unless it is killed or gets to compress a file into itself:*)
(* that one reads what it writes until the disk is full.                      *)
EveryRunEnds ==
    \A r \in Run : (pc[r] \in Busy) ~> (pc[r] \in Ended \cup {"growing"})

(* What main announces as "Extrayendo a directorio" (main.c:152): a directory *)
(* packed by the program, given to the program to be unpacked, is the         *)
(* directory again when both have exited with 0.                              *)
InverseOf(operations) ==
    {IF o = "OP_COMPRESS" THEN "OP_DECOMPRESS" ELSE "OP_DECRYPT" : o \in operations}

DirectoryComesBack ==
    \A r, s \in DOMAIN plan.does :
       (/\ plan.does[r].entry = "main" /\ plan.does[s].entry = "main"
        /\ call[r].mode = "pack" /\ Returned(r, 0) /\ Returned(s, 0)
        /\ r \in plan.waits[s] /\ call[s].input = call[r].output
        /\ call[s].operations = InverseOf(call[r].operations)
        /\ lost = {} /\ edited = {} /\ faults = 0)
       => IsDirectory(call[s].output) /\ tree[call[s].output] = tree[call[r].input]
==============================================================================

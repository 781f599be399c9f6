---------------------------- MODULE FileTransform ----------------------------
(* What execute_file_pipeline (operations.c) promises to its callers, stated  *)
(* without stages, chunks, temporaries or file descriptors.  A call runs in a *)
(* worker; while it runs, the file it produces may go through any state; it   *)
(* ends in one of three ways, and only a call that returns 0 vouches for its  *)
(* output.  FilePipeline is shown to implement this module, and DirectoryPool *)
(* uses it in place of the pipeline.                                          *)
CONSTANTS Worker,      \* the calls of execute_file_pipeline
          Process,     \* the processes they run in
          ProcessOf    \* the process of each worker

VARIABLES status,      \* how far the call of each worker is
          touched,     \* the output file is no longer what it was at the start
          complete     \* the call runs or has returned 0, and the output file
                       \* holds the whole of what it took its input for,
                       \* transformed

tvars == <<status, touched, complete>>

TransformStatus == {"idle", "running", "ok", "failed", "crashed"}

TransformTypeOK ==
    /\ status \in [Worker -> TransformStatus]
    /\ touched \in [Worker -> BOOLEAN]
    /\ complete \in [Worker -> BOOLEAN]

TransformInit ==
    /\ status = [w \in Worker |-> "idle"]
    /\ touched = [w \in Worker |-> FALSE]
    /\ complete = [w \in Worker |-> FALSE]

(* The call begins.  The output may hold by chance what the call would make.  *)
Begin(w) ==
    /\ status[w] = "idle"
    /\ status' = [status EXCEPT ![w] = "running"]
    /\ \E c \in BOOLEAN : complete' = [complete EXCEPT ![w] = c]
    /\ UNCHANGED touched

(* A running call changes its own output file, and nobody else's.             *)
Produce(w) ==
    /\ status[w] = "running"
    /\ \E t, c \in BOOLEAN :
          /\ touched' = [touched EXCEPT ![w] = t]
          /\ complete' = [complete EXCEPT ![w] = c]
    /\ UNCHANGED status

(* return 0: the output is complete, and was before the return.               *)
Succeed(w) ==
    /\ status[w] = "running"
    /\ complete[w]
    /\ status' = [status EXCEPT ![w] = "ok"]
    /\ UNCHANGED <<touched, complete>>

(* return -1: whatever the output is, the caller is told not to trust it.     *)
Fail(w) ==
    /\ status[w] = "running"
    /\ status' = [status EXCEPT ![w] = "failed"]
    /\ complete' = [complete EXCEPT ![w] = FALSE]
    /\ UNCHANGED touched

(* A process dies: its running calls stop; its idle ones need not be heard of *)
(* again.                                                                     *)
Die(p) ==
    /\ \E w \in Worker : ProcessOf[w] = p /\ status[w] = "running"
    /\ \E never \in SUBSET {w \in Worker : ProcessOf[w] = p /\ status[w] = "idle"} :
          status' = [w \in Worker |->
                       IF \/ ProcessOf[w] = p /\ status[w] = "running"
                          \/ w \in never
                       THEN "crashed" ELSE status[w]]
    /\ complete' = [w \in Worker |-> complete[w] /\ status'[w] # "crashed"]
    /\ UNCHANGED touched

TransformNext ==
    \/ \E w \in Worker : Begin(w) \/ Produce(w) \/ Succeed(w) \/ Fail(w)
    \/ \E p \in Process : Die(p)

(* A call that began returns, unless its process dies.                        *)
TransformFairness == \A w \in Worker : WF_tvars(Succeed(w) \/ Fail(w))

TransformSafety == TransformInit /\ [][TransformNext]_tvars
TransformSpec == TransformSafety /\ TransformFairness
==============================================================================

-------------------------- MODULE SingleProcessor --------------------------
(***************************************************************************)
(* The processor of an engine without a worker pool (processor/single.cpp) *)
(* runs the kernels of a method one after the other in the caller's        *)
(* thread: iteration i sees what the iterations before it have written.    *)
(*                                                                         *)
(* CKKSCore calls this processor or the parallel one through the same      *)
(* methods (parallel_enabled_, core_allocate.cpp and core_calculate.cpp),  *)
(* so both must compute the same.                                          *)
(***************************************************************************)
EXTENDS ProcessorCalls, CoreCalls

(* The function calls of a method, in the order of its loop. *)
SingleTasks(c) ==
    [i \in 1 .. SingleIterations(c) |-> SingleTask(c, i - 1)]

(***************************************************************************)
(* The order of the tasks does not matter: none reads or writes what       *)
(* another one writes.  In-place calls are like that as long as the two    *)
(* offsets agree, and tiled ones as long as the tile is not written.       *)
(***************************************************************************)
OrderFree(tasks) ==
    \A i, j \in DOMAIN tasks : i # j =>
        /\ tasks[i].destination # tasks[j].destination
        /\ \A k \in DOMAIN tasks[i].sources :
              tasks[i].sources[k] # tasks[j].destination

ASSUME CoreCallAssumption == MethodCall \subseteq CoreCall
ASSUME LoopCallAssumption ==
    \A c \in MethodCall : \A i \in DOMAIN SingleTasks(c) :
        LET task == SingleTasks(c)[i]
        IN  /\ task.destination \in Chain
            /\ \A k \in DOMAIN task.sources : task.sources[k] \in Chain

VARIABLE chain_index     \* the method's loop counter

loopVars == <<memory, call, chain_index, calls, before>>

LoopInit ==
    /\ memory = InitialMemory
    /\ call = <<>>
    /\ chain_index = 0
    /\ calls = 0
    /\ before = InitialMemory

Enter(c) ==
    /\ call = <<>>
    /\ calls < MaxCalls
    /\ call' = <<c>>
    /\ chain_index' = 0
    /\ calls' = calls + 1
    /\ before' = memory
    /\ UNCHANGED memory

(* One iteration: the kernel reads and writes the memory as it is now. *)
Iterate ==
    /\ call # <<>>
    /\ chain_index < SingleIterations(call[1])
    /\ LET task == SingleTask(call[1], chain_index)
       IN  memory' = [memory EXCEPT ![task.destination] =
                        Eval(task.kernel, [k \in DOMAIN task.sources |->
                                             memory[task.sources[k]]])]
    /\ chain_index' = chain_index + 1
    /\ UNCHANGED <<call, calls, before>>

LoopReturn ==
    /\ call # <<>>
    /\ chain_index = SingleIterations(call[1])
    /\ call' = <<>>
    /\ UNCHANGED <<memory, chain_index, calls, before>>

LoopNext == (\E c \in MethodCall : Enter(c)) \/ Iterate \/ LoopReturn

(* The caller's thread does not stop inside a method. *)
LoopSpec ==
    LoopInit /\ [][LoopNext]_loopVars /\ WF_loopVars(Iterate \/ LoopReturn)

-----------------------------------------------------------------------------
(***************************************************************************)
(* Whatever method is called, the loop over the chains leaves in them what *)
(* the tasks that ParallelProcessor builds for the same call would: the    *)
(* same function, chains and offsets, computed from the contents at entry  *)
(* although iterations overwrite chains (in place, x = y) as they go.      *)
(***************************************************************************)
SameAsParallel == Calls!Spec

(***************************************************************************)
(* Whatever the core calls, in place or tiled, no task reads or writes a   *)
(* chain that another task of the call writes.  The loop may therefore     *)
(* overwrite chains as it goes, and the threads of a pool, which promises  *)
(* an order to tasks of one destination only, may run the tasks as they    *)
(* come (the assumptions on a batch in WorkerPool).                        *)
(***************************************************************************)
TasksIndependent ==
    call # <<>> => /\ OrderFree(SingleTasks(call[1]))
                   /\ OrderFree(ParallelTasks(call[1]))

(* The loop has computed, at its end, what its tasks make of the memory at *)
(* entry, whatever chains they have overwritten.                           *)
LoopComputesBatch ==
    call # <<>> /\ chain_index = SingleIterations(call[1]) =>
        memory = Calls!Result(before, SingleTasks(call[1]))

-----------------------------------------------------------------------------
(***************************************************************************)
(* The inductive invariant: the destinations of the finished iterations    *)
(* hold the result, every other chain is as it was.                        *)
(***************************************************************************)
Written(c, n) == {SingleTasks(c)[i].destination : i \in 1 .. n}

LoopInv ==
    /\ memory = [ch \in Chain |-> memory[ch]]
    /\ call # <<>> => \E c \in MethodCall :
         /\ call = <<c>>
         /\ chain_index \in 0 .. SingleIterations(c)
         /\ memory = [ch \in Chain |->
              IF ch \in Written(c, chain_index)
                THEN Calls!Result(before, SingleTasks(c))[ch]
                ELSE before[ch]]
=============================================================================

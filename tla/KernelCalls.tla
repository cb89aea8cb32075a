---------------------------- MODULE KernelCalls ----------------------------
(***************************************************************************)
(* What a processor promises its caller, whichever processor it is: a call *)
(* computes one batch of kernels, each from the contents its sources had   *)
(* when the call was made, and returns when all of them are written.       *)
(*                                                                         *)
(* The batches that the methods of the processors build have one task for  *)
(* each destination (see ProcessorMethods); a pool also takes batches that *)
(* write a destination more than once.                                     *)
(***************************************************************************)
EXTENDS Naturals, Sequences

CONSTANTS Chain, Eval(_, _), InitialMemory, Batch

VARIABLES
    memory,      \* contents of the chains, as the caller sees them
    pending      \* the call being executed, <<>> if there is none

(***************************************************************************)
(* Memory after the tasks: each destination holds what the kernel of its   *)
(* last task computed from the memory of the call, every other chain is as *)
(* it was.                                                                 *)
(***************************************************************************)
IsLastTaskOf(tasks, c, i) ==
    /\ tasks[i].destination = c
    /\ \A j \in DOMAIN tasks : tasks[j].destination = c => j =< i

Result(mem, tasks) ==
    [c \in Chain |->
        IF \E i \in DOMAIN tasks : tasks[i].destination = c
        THEN LET task == tasks[CHOOSE i \in DOMAIN tasks :
                                 IsLastTaskOf(tasks, c, i)]
             IN  Eval(task.kernel, [k \in DOMAIN task.sources |->
                                      mem[task.sources[k]]])
        ELSE mem[c]]

Init == memory = InitialMemory /\ pending = <<>>

Call(tasks) ==
    /\ pending = <<>>
    /\ pending' = <<tasks>>
    /\ UNCHANGED memory

Return ==
    /\ pending # <<>>
    /\ memory' = Result(memory, pending[1])
    /\ pending' = <<>>

Next == (\E tasks \in Batch : Call(tasks)) \/ Return

vars == <<memory, pending>>

(* What a processor may do, without the promise that calls return. *)
Safety == Init /\ [][Next]_vars

Spec == Safety /\ WF_vars(Return)
=============================================================================

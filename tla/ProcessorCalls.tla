--------------------------- MODULE ProcessorCalls ---------------------------
(***************************************************************************)
(* What the core shares with the processor that it calls, be it the        *)
(* parallel one or the single one: the chains of its polynomials, and the  *)
(* method that is being executed on them.                                  *)
(***************************************************************************)
EXTENDS ProcessorMethods, FiniteSets

CONSTANTS
    Chain,           \* the chains <<polynomial, index>>
    Eval(_, _),      \* Eval(kernel, arguments): what a kernel writes
    InitialMemory,   \* contents of the chains
    MethodCall,      \* the calls the core may make
    MaxCalls         \* bound on the number of calls, of any kind

ASSUME MemoryAssumption ==
    InitialMemory = [c \in Chain |-> InitialMemory[c]]
ASSUME MethodCallAssumption == \A c \in MethodCall : c.count \in Nat
ASSUME MaxCallsAssumption == MaxCalls \in Nat

VARIABLES
    memory,          \* contents of every chain
    call,            \* the method being executed, <<>> outside of one
    before,          \* history: the memory when the method was entered
    calls            \* number of calls made

ParallelBatch == {ParallelTasks(c) : c \in MethodCall}

(* Memory as the caller sees it, and the tasks that a method stands for. *)
Calls == INSTANCE KernelCalls WITH
    Batch <- ParallelBatch,
    memory <- IF call = <<>> THEN memory ELSE before,
    pending <- IF call = <<>> THEN <<>> ELSE <<ParallelTasks(call[1])>>
=============================================================================

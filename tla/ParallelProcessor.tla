------------------------- MODULE ParallelProcessor -------------------------
(***************************************************************************)
(* The scheduler of the parallel processor (processor/parallel.cpp): tasks *)
(* and releases are put in stages, find_stage chooses the stage from what  *)
(* was scheduled before, and run executes the stages in order, each        *)
(* COMPUTE stage as one batch of the worker pool.                          *)
(*                                                                         *)
(* find_stage puts a task behind the stages that write its sources, but    *)
(* not behind those that read or write its destination, and a release only *)
(* behind the last write.  The schedule is right all the same, because     *)
(* register_compute and release call run() at once.                        *)
(*                                                                         *)
(* The pool is what module WorkerPool shows it to be: a batch is executed  *)
(* as KernelCalls says.                                                    *)
(***************************************************************************)
EXTENDS ProcessorCalls, FiniteSetsExt

CONSTANTS
    Resource,        \* the polynomials the core may release
    Stream           \* the arguments of set_stream

(* A method is given one source for each that its kernel reads. *)
ASSUME SourcesAssumption ==
    \A c \in MethodCall :
        LET reads == ParallelRow(c.method).reads
        IN  reads \in Seq({Each, EachFrom, Tile, TileFrom})
              /\ DOMAIN c.x = DOMAIN reads

VARIABLES
    released,        \* the resources that were deleted
    stages,          \* stages_; the order_ of a stage is its position - 1
    destination_to_stage_map,
    stream_barriers,
    stream_last_stage_indices,
    stream_index,
    start_index,
    pc,              \* where the caller is: outside, in run, returning
    cursor           \* the stage that run has reached

schedulerVars == <<stages, destination_to_stage_map, stream_barriers,
                   stream_last_stage_indices, stream_index, start_index>>
dataVars == <<memory, released>>
controlVars == <<pc, cursor, call, before, calls>>
vars == <<schedulerVars, dataVars, controlVars>>

(* std::map::operator[] on the left of an assignment. *)
Assign(map, key, value) ==
    [k \in DOMAIN map \union {key} |-> IF k = key THEN value ELSE map[k]]

EmptyMap == <<>>

Init ==
    /\ memory = InitialMemory
    /\ released = {}
    /\ stages = <<>>
    /\ destination_to_stage_map = EmptyMap
    /\ stream_barriers = EmptyMap
    /\ stream_last_stage_indices = EmptyMap
    /\ stream_index = 0
    /\ start_index = 0
    /\ pc = "outside"
    /\ cursor = 1
    /\ call = <<>>
    /\ before = InitialMemory
    /\ calls = 0

-----------------------------------------------------------------------------
(***************************************************************************)
(* find_stage: the first stage of the type that is not before the stream's *)
(* barrier nor before the stages that write the sources; else a new one.   *)
(***************************************************************************)
StartIndex(sources, dest) ==
    Max({start_index} \union
        {destination_to_stage_map[s] + (IF s = dest THEN 0 ELSE 1) :
            s \in sources \intersect DOMAIN destination_to_stage_map})

FindStage(sources, dest, type) ==
    LET candidates == {order \in StartIndex(sources, dest) .. Len(stages) - 1 :
                         stages[order + 1].type = type}
    IN  IF candidates = {} THEN Len(stages) ELSE Min(candidates)

(* The stages, the last one created if it is new. *)
StagesWith(order, type) ==
    IF order < Len(stages) THEN stages
    ELSE Append(stages, [type |-> type, tasks |-> <<>>, releases |-> <<>>])

Extend(stage, tasks, releases) ==
    [type |-> stage.type, tasks |-> stage.tasks \o tasks,
     releases |-> stage.releases \o releases]

(* What register_compute and release do to the scheduler's state. *)
Schedule(sources, dest, type, tasks, releases) ==
    LET order == FindStage(sources, dest, type)
    IN  /\ stages' = [StagesWith(order, type) EXCEPT
                        ![order + 1] = Extend(@, tasks, releases)]
        /\ destination_to_stage_map' =
              Assign(destination_to_stage_map, dest, order)
        /\ stream_last_stage_indices' =
              IF stream_index \in DOMAIN stream_last_stage_indices
                   /\ order =< stream_last_stage_indices[stream_index]
                THEN stream_last_stage_indices
                ELSE Assign(stream_last_stage_indices, stream_index, order)
        /\ UNCHANGED <<stream_barriers, stream_index, start_index>>

Polynomials(c) == {c.x[k] : k \in DOMAIN c.x} \union {c.y}

Count == calls < MaxCalls /\ calls' = calls + 1

(* Variant: the tasks wait for the next run(). *)
RegisterDeferred(c) ==
    /\ pc = "outside"
    /\ Count
    /\ Polynomials(c) \intersect released = {}
    /\ Schedule({c.x[k] : k \in DOMAIN c.x}, c.y, "COMPUTE",
                ParallelTasks(c), <<>>)
    /\ pc' = "return"
    /\ call' = <<c>>
    /\ before' = memory
    /\ UNCHANGED <<dataVars, cursor>>

(* A method: it builds its tasks and calls register_compute. *)
RegisterCompute(c) ==
    /\ pc = "outside"
    /\ Count
    /\ Polynomials(c) \intersect released = {}
    /\ Schedule({c.x[k] : k \in DOMAIN c.x}, c.y, "COMPUTE",
                ParallelTasks(c), <<>>)
    /\ pc' = "run"
    /\ call' = <<c>>
    /\ before' = memory
    /\ UNCHANGED <<dataVars, cursor>>

(* release: it schedules the delete, and runs it. *)
Release(resource) ==
    /\ pc = "outside"
    /\ Count
    /\ resource \notin released
    /\ Schedule({resource}, resource, "RELEASE", <<>>, <<resource>>)
    /\ pc' = "run"
    /\ UNCHANGED <<dataVars, cursor, call, before>>

-----------------------------------------------------------------------------
(***************************************************************************)
(* run: one stage after the other, then everything is cleared.             *)
(***************************************************************************)
Batches == INSTANCE KernelCalls WITH
    Batch <- {}, pending <- <<>>

(* Variant: every other stage is left out. *)
RunComputeStageSkipping ==
    /\ pc = "run"
    /\ cursor =< Len(stages)
    /\ stages[cursor].type = "COMPUTE"
    /\ memory' = Batches!Result(memory, stages[cursor].tasks)
    /\ cursor' = cursor + 2
    /\ UNCHANGED <<schedulerVars, released, pc, call, before, calls>>

RunComputeStage ==
    /\ pc = "run"
    /\ cursor =< Len(stages)
    /\ stages[cursor].type = "COMPUTE"
    /\ memory' = Batches!Result(memory, stages[cursor].tasks)
    /\ cursor' = cursor + 1
    /\ UNCHANGED <<schedulerVars, released, pc, call, before, calls>>

RunReleaseStage ==
    /\ pc = "run"
    /\ cursor =< Len(stages)
    /\ stages[cursor].type = "RELEASE"
    /\ released' = released \union
         {stages[cursor].releases[k] : k \in DOMAIN stages[cursor].releases}
    /\ cursor' = cursor + 1
    /\ UNCHANGED <<schedulerVars, memory, pc, call, before, calls>>

(* Variant: the stages and their tasks stay for the next run. *)
ClearMapsOnly ==
    /\ pc = "run"
    /\ cursor > Len(stages)
    /\ destination_to_stage_map' = EmptyMap
    /\ stream_barriers' = EmptyMap
    /\ stream_last_stage_indices' = EmptyMap
    /\ stream_index' = 0
    /\ start_index' = 0
    /\ cursor' = 1
    /\ pc' = "return"
    /\ UNCHANGED <<stages, dataVars, call, before, calls>>

Clear ==
    /\ pc = "run"
    /\ cursor > Len(stages)
    /\ stages' = <<>>
    /\ destination_to_stage_map' = EmptyMap
    /\ stream_barriers' = EmptyMap
    /\ stream_last_stage_indices' = EmptyMap
    /\ stream_index' = 0
    /\ start_index' = 0
    /\ cursor' = 1
    /\ pc' = "return"
    /\ UNCHANGED <<dataVars, call, before, calls>>

Return ==
    /\ pc = "return"
    /\ pc' = "outside"
    /\ call' = <<>>
    /\ UNCHANGED <<schedulerVars, dataVars, cursor, before, calls>>

-----------------------------------------------------------------------------
(***************************************************************************)
(* The operations on streams that CKKSCore makes public.                   *)
(***************************************************************************)
(* set_stream; barriers and start_index are orders of stages. *)
SetStreamTo(barriers, start, stream) ==
    LET saved == Assign(barriers, stream_index, start)
    IN  /\ stream_barriers' = saved
        /\ stream_index' = stream
        /\ start_index' = IF stream \in DOMAIN saved THEN saved[stream] ELSE 0

SetStream(stream) ==
    /\ pc = "outside"
    /\ Count
    /\ SetStreamTo(stream_barriers, start_index, stream)
    /\ UNCHANGED <<stages, destination_to_stage_map,
                   stream_last_stage_indices, dataVars, pc, cursor, call,
                   before>>

(* reset_stream of the core: add_barrier, every barrier moved, stream 0. *)
ResetStream ==
    /\ pc = "outside"
    /\ Count
    /\ SetStreamTo([s \in DOMAIN stream_barriers |-> Len(stages)],
                   Len(stages), 0)
    /\ UNCHANGED <<stages, destination_to_stage_map,
                   stream_last_stage_indices, dataVars, pc, cursor, call,
                   before>>

(* run of the core, before its reset_stream. *)
Run ==
    /\ pc = "outside"
    /\ Count
    /\ pc' = "run"
    /\ UNCHANGED <<schedulerVars, dataVars, cursor, call, before>>

Next ==
    \/ \E c \in MethodCall : RegisterCompute(c)
    \/ \E resource \in Resource : Release(resource)
    \/ RunComputeStage
    \/ RunReleaseStage
    \/ Clear
    \/ Return
    \/ \E stream \in Stream : SetStream(stream)
    \/ ResetStream
    \/ Run

(* The caller's thread does not stop inside a call. *)
Spec ==
    /\ Init
    /\ [][Next]_vars
    /\ WF_vars(RunComputeStage \/ RunReleaseStage \/ Clear \/ Return)

-----------------------------------------------------------------------------
TypeOK ==
    /\ DOMAIN memory = Chain
    /\ released \subseteq Resource
    /\ \A k \in DOMAIN stages : stages[k].type \in {"COMPUTE", "RELEASE"}
    /\ pc \in {"outside", "run", "return"}
    /\ cursor \in 1 .. Len(stages) + 1
    /\ calls \in 0 .. MaxCalls

(***************************************************************************)
(* find_stage looks at writers only, so two operations must never be in    *)
(* stages_ together: the scheduler holds one stage while it runs, and      *)
(* nothing at all, barriers included, while the core is outside.           *)
(***************************************************************************)
OneOperationAtATime ==
    /\ pc = "run" => Len(stages) =< 1
    /\ pc # "run" => stages = <<>> /\ destination_to_stage_map = EmptyMap
    /\ start_index = 0
    /\ \A s \in DOMAIN stream_barriers : stream_barriers[s] = 0

(***************************************************************************)
(* No task is executed on a polynomial that has been deleted.              *)
(***************************************************************************)
NoUseAfterRelease ==
    pc = "run" /\ cursor =< Len(stages) =>
        \A i \in DOMAIN stages[cursor].tasks :
            LET task == stages[cursor].tasks[i]
            IN  /\ task.destination[1] \notin released
                /\ \A k \in DOMAIN task.sources :
                      task.sources[k][1] \notin released

(***************************************************************************)
(* Every method has executed its tasks, once and with the contents that    *)
(* their sources had at the call, by the time it returns: no schedule, no  *)
(* stream and no barrier can delay, repeat or reorder them.                *)
(***************************************************************************)
ExecutedAtReturn == Calls!Spec

-----------------------------------------------------------------------------
(***************************************************************************)
(* The inductive invariant: what is scheduled is the call in progress, and *)
(* the memory is that of the call until its only stage has been executed.  *)
(***************************************************************************)
Pending(c) == [type |-> "COMPUTE", tasks |-> ParallelTasks(c),
               releases |-> <<>>]

OutsideInv ==
    pc # "run" => /\ stages = <<>>
                  /\ destination_to_stage_map = EmptyMap
                  /\ cursor = 1

BarrierInv ==
    /\ start_index = 0
    /\ \A s \in DOMAIN stream_barriers : stream_barriers[s] = 0

CallInv ==
    /\ pc = "outside" => call = <<>>
    /\ call # <<>> => \E c \in MethodCall :
         /\ call = <<c>>
         /\ \/ /\ pc = "run"
               /\ stages = <<Pending(c)>>
               /\ \/ cursor = 1 /\ memory = before
                  \/ /\ cursor = 2
                     /\ memory = Batches!Result(before, ParallelTasks(c))
            \/ /\ pc = "return"
               /\ memory = Batches!Result(before, ParallelTasks(c))

(* A run without a call executes no task. *)
ReleaseInv ==
    pc = "run" /\ call = <<>> =>
        \/ stages = <<>> /\ cursor = 1
        \/ /\ \E resource \in Resource : stages =
                 <<[type |-> "RELEASE", tasks |-> <<>>,
                    releases |-> <<resource>>]>>
           /\ cursor \in 1 .. 2

(* What a call works on is there until it returns. *)
OperandsInv ==
    \A c \in MethodCall :
        call = <<c>> => Polynomials(c) \intersect released = {}

SchedulerInv ==
    /\ pc \in {"outside", "run", "return"}
    /\ OutsideInv /\ BarrierInv /\ CallInv /\ ReleaseInv
=============================================================================

-------------------------- MODULE ProcessorProofs --------------------------
(***************************************************************************)
(* Proofs about the two processors.  The scheduler of the parallel one     *)
(* never holds two operations, and so, seen from its caller, a method      *)
(* executes its tasks as KernelCalls says.  The single one executes the    *)
(* same tasks, and for no call of the core does one of them disturb        *)
(* another: its loop computes what the batch does.                         *)
(***************************************************************************)
EXTENDS ParallelProcessor, SingleProcessor, TLAPS

-----------------------------------------------------------------------------
(* The parallel processor. *)

(* The tasks that a method builds are a sequence. *)
LEMMA TasksAreSequence ==
    ASSUME NEW c \in MethodCall
    PROVE  \E S : ParallelTasks(c) \in Seq(S)
<1> DEFINE row == ParallelRow(c.method)
           n == Iterations(row, c)
           f(i) == KernelTask(row, Process(row.kernel), c, i - 1)
<1>1. n \in Nat
  BY MethodCallAssumption DEF Iterations
<1>2. ParallelTasks(c) = [i \in 1 .. n |-> f(i)]
  BY DEF ParallelTasks
<1> HIDE DEF n, f
<1>3. [i \in 1 .. n |-> f(i)] \in Seq({f(i) : i \in 1 .. n})
  BY <1>1
<1> QED
  BY <1>2, <1>3

(* With nothing scheduled, an operation becomes the one stage. *)
LEMMA ScheduleAlone ==
    ASSUME NEW sources, NEW dest, NEW type, NEW tasks, NEW releases,
           <<>> \o tasks = tasks, <<>> \o releases = releases,
           stages = <<>>, destination_to_stage_map = EmptyMap,
           start_index = 0, Schedule(sources, dest, type, tasks, releases)
    PROVE  stages' = <<[type |-> type, tasks |-> tasks,
                        releases |-> releases]>>
<1>1. sources \intersect DOMAIN destination_to_stage_map = {}
  BY DEF EmptyMap
<1>2. StartIndex(sources, dest) = 0
  <2>1. StartIndex(sources, dest) = Max({0})
    BY <1>1 DEF StartIndex
  <2>2. Max({0}) = 0
    BY DEF Max
  <2> QED
    BY <2>1, <2>2
<1>3. FindStage(sources, dest, type) = 0
  BY <1>2 DEF FindStage
<1>4. StagesWith(0, type) =
        <<[type |-> type, tasks |-> <<>>, releases |-> <<>>]>>
  BY DEF StagesWith
<1>5. stages' = [StagesWith(0, type) EXCEPT
                   ![0 + 1] = Extend(@, tasks, releases)]
  BY <1>3 DEF Schedule
<1>6. Extend(StagesWith(0, type)[1], tasks, releases) =
        [type |-> type, tasks |-> tasks, releases |-> releases]
  <2> DEFINE stage == StagesWith(0, type)[1]
  <2>1. stage.type = type /\ stage.tasks = <<>> /\ stage.releases = <<>>
    BY <1>4
  <2> HIDE DEF stage
  <2>2. Extend(stage, tasks, releases) =
          [type |-> type, tasks |-> <<>> \o tasks,
           releases |-> <<>> \o releases]
    BY <2>1 DEF Extend
  <2>3. Extend(stage, tasks, releases) =
          [type |-> type, tasks |-> tasks, releases |-> releases]
    BY <2>2, Zenon
  <2> QED
    BY <2>3 DEF stage
<1>7. stages' = [StagesWith(0, type) EXCEPT
                   ![1] = Extend(StagesWith(0, type)[1], tasks, releases)]
  BY <1>5
<1>8. \A a, b : [<<a>> EXCEPT ![1] = b] = <<b>>
  OBVIOUS
<1> QED
  BY <1>4, <1>6, <1>7, <1>8

(* SchedulerInv holds initially. *)
LEMMA SchedulerInit == Init => SchedulerInv
BY DEF Init, SchedulerInv, OutsideInv, BarrierInv, CallInv, ReleaseInv,
       EmptyMap

(* Moving the barriers of an empty scheduler leaves them at its start. *)
LEMMA BarriersStay ==
    ASSUME NEW barriers, NEW stream,
           \A s \in DOMAIN barriers : barriers[s] = 0,
           SetStreamTo(barriers, 0, stream)
    PROVE  /\ start_index' = 0
           /\ \A s \in DOMAIN stream_barriers' : stream_barriers'[s] = 0
<1>1. \A s \in DOMAIN Assign(barriers, stream_index, 0) :
        Assign(barriers, stream_index, 0)[s] = 0
  BY DEF Assign
<1> QED
  BY <1>1 DEF SetStreamTo

(* Every step keeps SchedulerInv. *)
LEMMA SchedulerNext == SchedulerInv /\ [Next]_vars => SchedulerInv'
<1> SUFFICES ASSUME SchedulerInv, [Next]_vars PROVE SchedulerInv'
  OBVIOUS
<1> USE DEF SchedulerInv
<1>1. ASSUME NEW c \in MethodCall, RegisterCompute(c) PROVE SchedulerInv'
  <2>1. PICK S : ParallelTasks(c) \in Seq(S)
    BY TasksAreSequence
  <2>2. stages' = <<Pending(c)>>
    <3>1. stages = <<>> /\ destination_to_stage_map = EmptyMap
            /\ start_index = 0
      BY <1>1 DEF RegisterCompute, OutsideInv, BarrierInv
    <3>2. Schedule({c.x[k] : k \in DOMAIN c.x}, c.y, "COMPUTE",
                   ParallelTasks(c), <<>>)
      BY <1>1 DEF RegisterCompute
    <3>3. /\ <<>> \o ParallelTasks(c) = ParallelTasks(c)
          /\ <<>> \o <<>> = <<>>
      BY <2>1
    <3> QED
      BY <3>1, <3>2, <3>3, ScheduleAlone DEF Pending
  <2>3. pc' = "run" /\ cursor' = 1 /\ memory' = before' /\ call' = <<c>>
    BY <1>1 DEF RegisterCompute, OutsideInv, dataVars
  <2>4. BarrierInv'
    BY <1>1 DEF RegisterCompute, Schedule, BarrierInv
  <2>5. CallInv'
    BY <2>2, <2>3 DEF CallInv, Pending
  <2> QED
    BY <2>3, <2>4, <2>5 DEF OutsideInv, ReleaseInv
<1>2. ASSUME NEW resource \in Resource, Release(resource)
      PROVE  SchedulerInv'
  <2>1. stages' = <<[type |-> "RELEASE", tasks |-> <<>>,
                     releases |-> <<resource>>]>>
    <3>1. stages = <<>> /\ destination_to_stage_map = EmptyMap
            /\ start_index = 0
      BY <1>2 DEF Release, OutsideInv, BarrierInv
    <3>2. Schedule({resource}, resource, "RELEASE", <<>>, <<resource>>)
      BY <1>2 DEF Release
    <3>3. <<>> \o <<>> = <<>> /\ <<>> \o <<resource>> = <<resource>>
      OBVIOUS
    <3> QED
      BY <3>1, <3>2, <3>3, ScheduleAlone
  <2>2. pc' = "run" /\ cursor' = 1 /\ call' = <<>>
    BY <1>2 DEF Release, OutsideInv, CallInv
  <2>3. BarrierInv'
    BY <1>2 DEF Release, Schedule, BarrierInv
  <2> QED
    BY <2>1, <2>2, <2>3 DEF OutsideInv, CallInv, ReleaseInv
<1>3. ASSUME RunComputeStage PROVE SchedulerInv'
  <2>1. call # <<>>
    BY <1>3 DEF RunComputeStage, ReleaseInv
  <2>2. PICK c \in MethodCall :
          /\ call = <<c>> /\ stages = <<Pending(c)>>
          /\ cursor = 1 /\ memory = before
    BY <1>3, <2>1 DEF RunComputeStage, CallInv
  <2>3. memory' = Batches!Result(before, ParallelTasks(c)) /\ cursor' = 2
    BY <1>3, <2>2 DEF RunComputeStage, Pending
  <2>4. UNCHANGED <<schedulerVars, pc, call, before>> /\ pc = "run"
    BY <1>3 DEF RunComputeStage
  <2>5. CallInv'
    BY <2>2, <2>3, <2>4 DEF CallInv, schedulerVars, Batches!Result
  <2> QED
    BY <2>1, <2>4, <2>5
       DEF OutsideInv, BarrierInv, ReleaseInv, schedulerVars
<1>4. ASSUME RunReleaseStage PROVE SchedulerInv'
  <2>1. call = <<>>
    BY <1>4 DEF RunReleaseStage, CallInv, Pending
  <2>2. UNCHANGED <<schedulerVars, pc, call>> /\ pc = "run"
           /\ cursor' = cursor + 1 /\ cursor =< Len(stages)
    BY <1>4 DEF RunReleaseStage
  <2>3. PICK resource \in Resource :
          /\ stages = <<[type |-> "RELEASE", tasks |-> <<>>,
                         releases |-> <<resource>>]>>
          /\ cursor \in 1 .. 2
    BY <2>1, <2>2 DEF ReleaseInv
  <2>4. Len(stages) = 1
    BY <2>3
  <2>5. cursor' \in 1 .. 2 /\ stages' = stages
    BY <2>2, <2>3, <2>4 DEF schedulerVars
  <2>6. ReleaseInv'
    BY <2>3, <2>5 DEF ReleaseInv
  <2> QED
    BY <2>1, <2>2, <2>6 DEF OutsideInv, BarrierInv, CallInv, schedulerVars
<1>5. ASSUME Clear PROVE SchedulerInv'
  <2>1. OutsideInv' /\ BarrierInv' /\ ReleaseInv' /\ pc' = "return"
    BY <1>5 DEF Clear, OutsideInv, BarrierInv, ReleaseInv, EmptyMap
  <2>2. CallInv'
    <3>1. CASE call = <<>>
      BY <1>5, <2>1, <3>1 DEF Clear, CallInv
    <3>2. CASE call # <<>>
      <4>1. PICK c \in MethodCall :
              /\ call = <<c>>
              /\ stages = <<Pending(c)>>
              /\ \/ cursor = 1
                 \/ memory = Batches!Result(before, ParallelTasks(c))
        BY <1>5, <3>2 DEF Clear, CallInv
      <4>2. memory = Batches!Result(before, ParallelTasks(c))
        BY <1>5, <4>1 DEF Clear
      <4>3. UNCHANGED <<memory, call, before>>
        BY <1>5 DEF Clear, dataVars
      <4> QED
        BY <2>1, <4>1, <4>2, <4>3 DEF CallInv
    <3> QED
      BY <3>1, <3>2
  <2> QED
    BY <2>1, <2>2
<1>6. ASSUME Return PROVE SchedulerInv'
  BY <1>6 DEF Return, OutsideInv, BarrierInv, CallInv, ReleaseInv,
              schedulerVars
<1>7. ASSUME NEW stream \in Stream, SetStream(stream) PROVE SchedulerInv'
  <2>1. BarrierInv'
    BY <1>7, BarriersStay DEF SetStream, BarrierInv
  <2> QED
    BY <1>7, <2>1 DEF SetStream, OutsideInv, CallInv, ReleaseInv
<1>8. ASSUME ResetStream PROVE SchedulerInv'
  <2>1. stages = <<>>
    BY <1>8 DEF ResetStream, OutsideInv
  <2>2. BarrierInv'
    BY <1>8, <2>1, BarriersStay DEF ResetStream, BarrierInv
  <2> QED
    BY <1>8, <2>2 DEF ResetStream, OutsideInv, CallInv, ReleaseInv
<1>9. ASSUME Run PROVE SchedulerInv'
  <2>1. stages = <<>> /\ cursor = 1 /\ call = <<>>
    BY <1>9 DEF Run, OutsideInv, CallInv
  <2> QED
    BY <1>9, <2>1
       DEF Run, OutsideInv, BarrierInv, CallInv, ReleaseInv, schedulerVars
<1>10. CASE UNCHANGED vars
  <2>1. UNCHANGED <<pc, cursor, stages, call, before, memory, start_index,
                    stream_barriers, destination_to_stage_map>>
    BY <1>10 DEF vars, schedulerVars, dataVars, controlVars
  <2>2. CallInv'
    BY <2>1 DEF CallInv
  <2>3. OutsideInv' /\ BarrierInv' /\ ReleaseInv'
    BY <2>1 DEF OutsideInv, BarrierInv, ReleaseInv
  <2> QED
    BY <2>1, <2>2, <2>3
<1> QED
  BY <1>1, <1>2, <1>3, <1>4, <1>5, <1>6, <1>7, <1>8, <1>9, <1>10 DEF Next

(* The scheduler's invariant holds in every reachable state. *)
THEOREM SchedulerCorrect == Spec => []SchedulerInv
BY SchedulerInit, SchedulerNext, PTL DEF Spec

(***************************************************************************)
(* stages_ never holds two operations, so the dependences that find_stage  *)
(* does not track cannot reorder anything.                                 *)
(***************************************************************************)
THEOREM OneOperation == Spec => []OneOperationAtATime
<1>1. SchedulerInv => OneOperationAtATime
  <2> SUFFICES ASSUME SchedulerInv PROVE OneOperationAtATime
    OBVIOUS
  <2>1. pc = "run" => Len(stages) =< 1
    <3> SUFFICES ASSUME pc = "run" PROVE Len(stages) =< 1
      OBVIOUS
    <3>1. stages = <<>> \/ \E stage : stages = <<stage>>
      BY DEF SchedulerInv, ReleaseInv, CallInv
    <3> QED
      BY <3>1
  <2> QED
    BY <2>1 DEF SchedulerInv, OneOperationAtATime, OutsideInv, BarrierInv
<1> QED
  BY <1>1, SchedulerCorrect, PTL

(***************************************************************************)
(* Seen from the caller, the methods of the processor execute their tasks  *)
(* as KernelCalls says: completely, once, and from the contents at entry.  *)
(***************************************************************************)
THEOREM ExecutesCalls == Spec => Calls!Safety
<1>1. Init => Calls!Init
  BY DEF Init, Calls!Init
<1>2. SchedulerInv /\ [Next]_vars => [Calls!Next]_(Calls!vars)
  <2> SUFFICES ASSUME SchedulerInv, [Next]_vars
               PROVE  Calls!Next \/ UNCHANGED Calls!vars
    OBVIOUS
  <2>1. ASSUME NEW c \in MethodCall, RegisterCompute(c) PROVE Calls!Next
    <3>1. call = <<>> /\ call' = <<c>> /\ before' = memory
      BY <2>1 DEF RegisterCompute, SchedulerInv, CallInv
    <3>2. ParallelTasks(c) \in ParallelBatch
      BY DEF ParallelBatch
    <3>3. Calls!Call(ParallelTasks(c))
      BY <3>1 DEF Calls!Call
    <3> QED
      BY <3>2, <3>3 DEF Calls!Next
  <2>2. ASSUME RunComputeStage PROVE UNCHANGED Calls!vars
    <3>1. call # <<>> /\ UNCHANGED <<call, before>>
      BY <2>2 DEF RunComputeStage, SchedulerInv, ReleaseInv
    <3> QED
      BY <3>1 DEF Calls!vars
  <2>3. ASSUME Return PROVE Calls!Next \/ UNCHANGED Calls!vars
    <3>1. CASE call = <<>>
      BY <2>3, <3>1 DEF Return, dataVars, Calls!vars
    <3>2. CASE call # <<>>
      <4>1. PICK c \in MethodCall :
              /\ call = <<c>>
              /\ memory = Batches!Result(before, ParallelTasks(c))
        BY <2>3, <3>2 DEF Return, SchedulerInv, CallInv
      <4>2. memory' = memory /\ call' = <<>>
        BY <2>3 DEF Return, dataVars
      <4>3. Calls!Return
        BY <4>1, <4>2 DEF Calls!Return, Calls!Result, Batches!Result,
                          Calls!IsLastTaskOf, Batches!IsLastTaskOf
      <4> QED
        BY <4>3 DEF Calls!Next
    <3> QED
      BY <3>1, <3>2
  <2>4. CASE UNCHANGED vars
    BY <2>4 DEF vars, dataVars, controlVars, Calls!vars
  <2>5. ASSUME UNCHANGED <<memory, call, before>> PROVE UNCHANGED Calls!vars
    BY <2>5 DEF Calls!vars
  <2>6. ASSUME NEW resource \in Resource, Release(resource)
        PROVE  UNCHANGED Calls!vars
    BY <2>5, <2>6 DEF Release, dataVars
  <2>7. ASSUME RunReleaseStage PROVE UNCHANGED Calls!vars
    BY <2>5, <2>7 DEF RunReleaseStage
  <2>8. ASSUME Clear PROVE UNCHANGED Calls!vars
    BY <2>5, <2>8 DEF Clear, dataVars
  <2>9. ASSUME NEW stream \in Stream, SetStream(stream)
        PROVE  UNCHANGED Calls!vars
    BY <2>5, <2>9 DEF SetStream, dataVars
  <2>10. ASSUME ResetStream \/ Run PROVE UNCHANGED Calls!vars
    BY <2>5, <2>10 DEF ResetStream, Run, dataVars
  <2> QED
    BY <2>1, <2>2, <2>3, <2>4, <2>6, <2>7, <2>8, <2>9, <2>10 DEF Next
<1> QED
  BY <1>1, <1>2, SchedulerCorrect, PTL DEF Spec, Calls!Safety

-----------------------------------------------------------------------------
(* A task touches the polynomials that its method was given, no other. *)
LEMMA TasksTouchOperands ==
    ASSUME NEW c \in MethodCall, NEW i \in DOMAIN ParallelTasks(c)
    PROVE  LET task == ParallelTasks(c)[i]
           IN  /\ task.destination[1] \in Polynomials(c)
               /\ \A k \in DOMAIN task.sources :
                     task.sources[k][1] \in Polynomials(c)
<1> DEFINE row == ParallelRow(c.method)
           function == Process(row.kernel)
           destination == ChainOf(c.y, row.writes, c.yOffset, i - 1)
           reads == [k \in DOMAIN row.reads |->
                       ChainOf(c.x[k], row.reads[k], c.xOffset[k], i - 1)]
           task == ParallelTasks(c)[i]
<1>1. task = KernelTask(row, function, c, i - 1)
  BY DEF ParallelTasks
<1>2. /\ task.destination = destination
      /\ task.sources = IF function \in UpdatesDestination
                          THEN Append(reads, destination) ELSE reads
  BY <1>1 DEF KernelTask
<1>3. destination[1] = c.y /\ destination[1] \in Polynomials(c)
  BY DEF ChainOf, Polynomials
<1>4. \A k \in DOMAIN reads : reads[k][1] \in Polynomials(c)
  <2>1. DOMAIN reads = DOMAIN c.x
    BY SourcesAssumption
  <2>2. \A k \in DOMAIN reads : reads[k][1] = c.x[k]
    BY DEF ChainOf
  <2> QED
    BY <2>1, <2>2 DEF Polynomials
<1>5. \E S : reads \in Seq(S)
  <2>1. PICK n \in Nat : DOMAIN row.reads = 1 .. n
    <3>1. row.reads \in Seq({Each, EachFrom, Tile, TileFrom})
      BY SourcesAssumption
    <3> QED
      BY <3>1
  <2>2. reads \in Seq({reads[k] : k \in 1 .. n})
    BY <2>1
  <2> QED
    BY <2>2
<1> HIDE DEF reads, destination, task
<1>6. \A k \in DOMAIN task.sources : task.sources[k][1] \in Polynomials(c)
  <2>1. CASE function \in UpdatesDestination
    <3>1. PICK S : reads \in Seq(S)
      BY <1>5
    <3>2. task.sources = Append(reads, destination)
      BY <1>2, <2>1
    <3>3. \A k \in DOMAIN task.sources :
            \/ task.sources[k] = destination
            \/ k \in DOMAIN reads /\ task.sources[k] = reads[k]
      BY <3>1, <3>2
    <3> QED
      BY <3>3, <1>3, <1>4
  <2>2. CASE function \notin UpdatesDestination
    BY <1>2, <1>4, <2>2
  <2> QED
    BY <2>1, <2>2
<1> QED
  BY <1>2, <1>3, <1>6 DEF task

(* A release is a run without a call: it takes nothing from a call. *)
LEMMA OperandsNext ==
    SchedulerInv /\ OperandsInv /\ [Next]_vars => OperandsInv'
<1> SUFFICES ASSUME SchedulerInv, OperandsInv, [Next]_vars,
                    NEW c \in MethodCall, call' = <<c>>
             PROVE  Polynomials(c) \intersect released' = {}
  BY DEF OperandsInv
<1>1. ASSUME NEW d \in MethodCall, RegisterCompute(d)
      PROVE  Polynomials(c) \intersect released' = {}
  BY <1>1 DEF RegisterCompute, dataVars
<1>2. ASSUME call' = call, released' = released
      PROVE  Polynomials(c) \intersect released' = {}
  BY <1>2 DEF OperandsInv
<1>3. ASSUME NEW resource \in Resource, Release(resource)
      PROVE  Polynomials(c) \intersect released' = {}
  BY <1>2, <1>3 DEF Release, dataVars
<1>4. ASSUME RunComputeStage PROVE Polynomials(c) \intersect released' = {}
  BY <1>2, <1>4 DEF RunComputeStage
<1>5. ASSUME RunReleaseStage PROVE FALSE
  BY <1>5 DEF RunReleaseStage, SchedulerInv, CallInv, Pending
<1>6. ASSUME Clear PROVE Polynomials(c) \intersect released' = {}
  BY <1>2, <1>6 DEF Clear, dataVars
<1>7. ASSUME Return PROVE FALSE
  BY <1>7 DEF Return
<1>8. ASSUME NEW stream \in Stream, SetStream(stream)
      PROVE  Polynomials(c) \intersect released' = {}
  BY <1>2, <1>8 DEF SetStream, dataVars
<1>9. ASSUME ResetStream \/ Run
      PROVE  Polynomials(c) \intersect released' = {}
  BY <1>2, <1>9 DEF ResetStream, Run, dataVars
<1>10. CASE UNCHANGED vars
  BY <1>2, <1>10 DEF vars, dataVars, controlVars
<1> QED
  BY <1>1, <1>3, <1>4, <1>5, <1>6, <1>7, <1>8, <1>9, <1>10 DEF Next

(***************************************************************************)
(* No task is executed on a polynomial that has been deleted, although     *)
(* find_stage puts a release behind the last writer only: by the time the  *)
(* caller releases a polynomial, whatever reads it has been executed.      *)
(***************************************************************************)
THEOREM NothingUsedAfterRelease == Spec => []NoUseAfterRelease
<1>1. Init => OperandsInv
  BY DEF Init, OperandsInv
<1>2. SchedulerInv /\ OperandsInv => NoUseAfterRelease
  <2> SUFFICES ASSUME SchedulerInv, OperandsInv, pc = "run", cursor =< Len(stages),
                      NEW i \in DOMAIN stages[cursor].tasks
               PROVE  LET task == stages[cursor].tasks[i]
                      IN  /\ task.destination[1] \notin released
                          /\ \A k \in DOMAIN task.sources :
                                task.sources[k][1] \notin released
    BY DEF NoUseAfterRelease
  <2>1. call # <<>>
    BY DEF SchedulerInv, ReleaseInv
  <2>2. PICK c \in MethodCall : call = <<c>> /\ stages = <<Pending(c)>> /\ cursor = 1
    BY <2>1 DEF SchedulerInv, CallInv
  <2>3. stages[cursor].tasks = ParallelTasks(c)
    BY <2>2 DEF Pending
  <2>4. Polynomials(c) \intersect released = {}
    BY <2>2 DEF OperandsInv
  <2>5. i \in DOMAIN ParallelTasks(c)
    BY <2>3
  <2> QED
    BY <2>3, <2>4, <2>5, TasksTouchOperands
<1> QED
  BY <1>1, <1>2, OperandsNext, SchedulerCorrect, PTL DEF Spec

-----------------------------------------------------------------------------
(* What a step may change, by type; the stages follow from SchedulerInv. *)
LEMMA TypesNext ==
    SchedulerInv /\ SchedulerInv' /\ TypeOK /\ [Next]_vars => TypeOK'
<1> SUFFICES ASSUME SchedulerInv, SchedulerInv', TypeOK, [Next]_vars
             PROVE  TypeOK'
  OBVIOUS
<1>1. \/ stages' = <<>> /\ cursor' = 1
      \/ \E stage : /\ stages' = <<stage>> /\ cursor' \in 1 .. 2
                    /\ stage.type \in {"COMPUTE", "RELEASE"}
  <2>1. CASE pc' # "run"
    BY <2>1 DEF SchedulerInv, OutsideInv
  <2>2. CASE pc' = "run" /\ call' = <<>>
    BY <2>2 DEF SchedulerInv, ReleaseInv
  <2>3. CASE pc' = "run" /\ call' # <<>>
    BY <2>3 DEF SchedulerInv, CallInv, Pending
  <2> QED
    BY <2>1, <2>2, <2>3
<1>2. /\ \A k \in DOMAIN stages' : stages'[k].type \in {"COMPUTE", "RELEASE"}
      /\ cursor' \in 1 .. Len(stages') + 1
  BY <1>1
<1>3. pc' \in {"outside", "run", "return"}
  BY DEF SchedulerInv
<1>4. DOMAIN memory' = Chain
  <2>1. ASSUME RunComputeStage PROVE DOMAIN memory' = Chain
    BY <2>1 DEF RunComputeStage, Batches!Result
  <2>2. ASSUME memory' = memory PROVE DOMAIN memory' = Chain
    BY <2>2 DEF TypeOK
  <2>3. RunComputeStage \/ memory' = memory
    BY DEF Next, RegisterCompute, Release, RunReleaseStage, Clear, Return,
           SetStream, ResetStream, Run, dataVars, vars
  <2> QED
    BY <2>1, <2>2, <2>3
<1>5. released' \subseteq Resource
  <2>1. ASSUME RunReleaseStage PROVE released' \subseteq Resource
    <3>1. call = <<>>
      BY <2>1 DEF RunReleaseStage, SchedulerInv, CallInv, Pending
    <3>2. PICK resource \in Resource : stages =
             <<[type |-> "RELEASE", tasks |-> <<>>, releases |-> <<resource>>]>>
      BY <2>1, <3>1 DEF RunReleaseStage, SchedulerInv, ReleaseInv
    <3>3. cursor = 1
      BY <2>1, <3>2 DEF RunReleaseStage, TypeOK
    <3>4. released' = released \union
            {stages[1].releases[k] : k \in DOMAIN stages[1].releases}
      BY <2>1, <3>3 DEF RunReleaseStage
    <3>5. stages[1].releases = <<resource>>
      BY <3>2
    <3>6. released' = released \union {resource}
      BY <3>4, <3>5
    <3> QED
      BY <3>6 DEF TypeOK
  <2>2. RunReleaseStage \/ released' = released
    BY DEF Next, RegisterCompute, Release, RunComputeStage, Clear, Return,
           SetStream, ResetStream, Run, dataVars, vars
  <2> QED
    BY <2>1, <2>2 DEF TypeOK
<1>6. calls' \in 0 .. MaxCalls
  <2>1. Count \/ calls' = calls
    BY DEF Next, RegisterCompute, Release, RunComputeStage, RunReleaseStage,
           Clear, Return, SetStream, ResetStream, Run, controlVars, vars
  <2> QED
    BY <2>1, MaxCallsAssumption DEF Count, TypeOK
<1> QED
  BY <1>2, <1>3, <1>4, <1>5, <1>6 DEF TypeOK

(* Every state of the scheduler has its types, run never runs past its end. *)
THEOREM TypeCorrect == Spec => []TypeOK
<1>1. Init => TypeOK
  BY MemoryAssumption, MaxCallsAssumption DEF Init, TypeOK
<1> QED
  BY <1>1, TypesNext, SchedulerCorrect, PTL DEF Spec

-----------------------------------------------------------------------------
(* The tables of both processors. *)

(* A method is in one group only, and has the row that is there. *)
LEMMA RowFrom ==
    ASSUME NEW groups, NEW method, NEW g \in DOMAIN groups,
           \A k \in DOMAIN groups : method \in DOMAIN groups[k] <=> k = g
    PROVE  RowOf(groups, method) = groups[g][method]
<1>1. (CHOOSE k \in DOMAIN groups : method \in DOMAIN groups[k]) = g
  OBVIOUS
<1> QED
  BY <1>1 DEF RowOf

(* The methods in each group of rows. *)
LEMMA ParallelDomains ==
    /\ DOMAIN ParallelUnits =
         {"mont_enter", "make_signed", "mont_add", "mont_mult",
          "reduce_2q_to_q", "add_tiled", "sub_tiled", "get_rounder"}
    /\ DOMAIN ParallelTiled =
         {"mont_enter_tiled", "mont_enter_tiled_add",
          "mont_enter_tiled_add_reduce_2q_to_q", "mont_mult_add",
          "mont_sub_enter_reduce_2q_to_q", "mont_sub_tiled_enter",
          "mont_enter_exit"}
    /\ DOMAIN ParallelReduced =
         {"mont_enter_exit_reduce_2q_to_q", "mont_add_reduce_2q_to_q",
          "mont_sub_reduce_2q_to_q", "make_unsigned_reduce_2q_to_q",
          "tile_unsigned_reduce_2q_to_q", "negate_make_unsigned",
          "concatenate_tile_unsigned"}
    /\ DOMAIN ParallelCopies =
         {"ntt", "intt", "zero_fill", "copy", "copy_to_polynomial",
          "compress_polynomial", "decompress_polynomial", "round",
          "max_absolute"}
    /\ DOMAIN ParallelCodec =
         {"cast_int64_to_double", "rotate_polynomial", "permute_polynomial",
          "add_scalar", "apply_skewer", "fft", "ifft"}
BY DEF ParallelUnits, ParallelTiled, ParallelReduced, ParallelCopies,
       ParallelCodec

LEMMA SingleDomains ==
    /\ DOMAIN SingleUnits = DOMAIN ParallelUnits
    /\ DOMAIN SingleTiled = DOMAIN ParallelTiled
    /\ DOMAIN SingleReduced = DOMAIN ParallelReduced
    /\ DOMAIN SingleCodec = {"apply_skewer", "fft", "ifft"}
    /\ DOMAIN SingleCopies =
         {"ntt", "intt", "rotate_polynomial", "permute_polynomial",
          "add_scalar", "zero_fill", "copy", "decompress_polynomial",
          "compress_polynomial", "copy_to_polynomial", "round",
          "max_absolute", "cast_int64_to_double"}
BY ParallelDomains
   DEF SingleUnits, SingleTiled, SingleReduced, SingleCodec, SingleCopies

(* The row of a method in the table of the parallel processor. *)
LEMMA ParallelRows ==
    /\ \A m \in DOMAIN ParallelUnits : ParallelRow(m) = ParallelUnits[m]
    /\ \A m \in DOMAIN ParallelTiled : ParallelRow(m) = ParallelTiled[m]
    /\ \A m \in DOMAIN ParallelReduced : ParallelRow(m) = ParallelReduced[m]
    /\ \A m \in DOMAIN ParallelCopies : ParallelRow(m) = ParallelCopies[m]
    /\ \A m \in DOMAIN ParallelCodec : ParallelRow(m) = ParallelCodec[m]
<1> DEFINE groups == <<ParallelUnits, ParallelTiled, ParallelReduced,
                       ParallelCopies, ParallelCodec>>
<1>1. /\ DOMAIN groups = 1 .. 5
      /\ groups[1] = ParallelUnits /\ groups[2] = ParallelTiled
      /\ groups[3] = ParallelReduced /\ groups[4] = ParallelCopies
      /\ groups[5] = ParallelCodec
  OBVIOUS
<1>2. \A m : ParallelRow(m) = RowOf(groups, m)
  BY DEF ParallelRow
<1> HIDE DEF groups
<1>3. ASSUME NEW g \in 1 .. 5, NEW m \in DOMAIN groups[g]
      PROVE  ParallelRow(m) = groups[g][m]
  <2>1. \A k \in DOMAIN groups : m \in DOMAIN groups[k] <=> k = g
    <3>1. g = 1 \/ g = 2 \/ g = 3 \/ g = 4 \/ g = 5
      OBVIOUS
    <3> QED
      BY <1>1, <1>3, <3>1, ParallelDomains
  <2> QED
    BY <1>1, <1>2, <2>1, RowFrom
<1> QED
  BY <1>1, <1>3

(* The row of a method in the table of the single processor. *)
LEMMA SingleRows ==
    /\ \A m \in DOMAIN SingleUnits : SingleRow(m) = SingleUnits[m]
    /\ \A m \in DOMAIN SingleTiled : SingleRow(m) = SingleTiled[m]
    /\ \A m \in DOMAIN SingleReduced : SingleRow(m) = SingleReduced[m]
    /\ \A m \in DOMAIN SingleCodec : SingleRow(m) = SingleCodec[m]
    /\ \A m \in DOMAIN SingleCopies : SingleRow(m) = SingleCopies[m]
<1> DEFINE groups == <<SingleUnits, SingleTiled, SingleReduced, SingleCodec,
                       SingleCopies>>
<1>1. /\ DOMAIN groups = 1 .. 5
      /\ groups[1] = SingleUnits /\ groups[2] = SingleTiled
      /\ groups[3] = SingleReduced /\ groups[4] = SingleCodec
      /\ groups[5] = SingleCopies
  OBVIOUS
<1>2. \A m : SingleRow(m) = RowOf(groups, m)
  BY DEF SingleRow
<1> HIDE DEF groups
<1>3. ASSUME NEW g \in 1 .. 5, NEW m \in DOMAIN groups[g]
      PROVE  SingleRow(m) = groups[g][m]
  <2>1. \A k \in DOMAIN groups : m \in DOMAIN groups[k] <=> k = g
    <3>1. g = 1 \/ g = 2 \/ g = 3 \/ g = 4 \/ g = 5
      OBVIOUS
    <3> QED
      BY <1>1, <1>3, <3>1, ParallelDomains, SingleDomains
  <2> QED
    BY <1>1, <1>2, <2>1, RowFrom
<1> QED
  BY <1>1, <1>3

(* The function that a row of the parallel processor ends in. *)
Applied(row) == Row(Process(row.kernel), row.reads, row.writes)

LEMMA UnitRowsAgree ==
    \A m \in DOMAIN ParallelUnits : Applied(ParallelUnits[m]) = SingleUnits[m]
<1>1. /\ Process("MontEnterTask") = "mont_enter"
      /\ Process("MakeSignedTask") = "make_signed"
      /\ Process("MontAddTask") = "mont_add"
      /\ Process("MontMultTask") = "mont_mult"
  BY DEF Process, ProcessUnits
<1>2. /\ Process("Reduce2QToQTask") = "reduce_2q_to_q"
      /\ Process("MontSubtractTask") = "mont_subtract"
      /\ Process("GetRounderTask") = "get_rounder"
  BY DEF Process, ProcessUnits
<1> QED
  BY <1>1, <1>2, ParallelDomains DEF Applied, Row, ParallelUnits, SingleUnits

LEMMA TiledRowsAgree ==
    \A m \in DOMAIN ParallelTiled : Applied(ParallelTiled[m]) = SingleTiled[m]
BY ParallelDomains
   DEF Applied, Row, Process, ParallelTiled, SingleTiled, ProcessUnits

LEMMA ReducedRowsAgree ==
    \A m \in DOMAIN ParallelReduced :
        Applied(ParallelReduced[m]) = SingleReduced[m]
BY ParallelDomains
   DEF Applied, Row, Process, ParallelReduced, SingleReduced, ProcessUnits

LEMMA CopyRowsAgree ==
    \A m \in DOMAIN ParallelCopies :
        Applied(ParallelCopies[m]) = SingleCopies[m]
BY ParallelDomains
   DEF Applied, Row, Process, ParallelCopies, SingleCopies, ProcessUnits,
       ProcessCodec

LEMMA CodecRowsAgree ==
    \A m \in DOMAIN ParallelCodec : Applied(ParallelCodec[m]) = SingleRow(m)
<1>1. \A m \in {"apply_skewer", "fft", "ifft"} :
        Applied(ParallelCodec[m]) = SingleCodec[m]
  BY DEF Applied, Row, Process, ParallelCodec, SingleCodec, ProcessUnits,
         ProcessCodec
<1>2. \A m \in {"cast_int64_to_double", "rotate_polynomial",
                "permute_polynomial", "add_scalar"} :
        Applied(ParallelCodec[m]) = SingleCopies[m]
  BY DEF Applied, Row, Process, ParallelCodec, SingleCopies, ProcessUnits,
         ProcessCodec
<1> QED
  BY <1>1, <1>2, ParallelDomains, SingleDomains, SingleRows

LEMMA RowsAgree == \A m \in Method : Applied(ParallelRow(m)) = SingleRow(m)
<1> SUFFICES ASSUME NEW m \in Method
             PROVE  Applied(ParallelRow(m)) = SingleRow(m)
  OBVIOUS
<1>1. CASE m \in DOMAIN ParallelUnits
  BY <1>1, ParallelRows, SingleDomains, SingleRows, UnitRowsAgree
<1>2. CASE m \in DOMAIN ParallelTiled
  BY <1>2, ParallelRows, SingleDomains, SingleRows, TiledRowsAgree
<1>3. CASE m \in DOMAIN ParallelReduced
  BY <1>3, ParallelRows, SingleDomains, SingleRows, ReducedRowsAgree
<1>4. CASE m \in DOMAIN ParallelCopies
  <2>1. m \in DOMAIN SingleCopies
    BY <1>4, ParallelDomains, SingleDomains
  <2> QED
    BY <1>4, <2>1, ParallelRows, SingleRows, CopyRowsAgree
<1>5. CASE m \in DOMAIN ParallelCodec
  BY <1>5, ParallelRows, CodecRowsAgree
<1> QED
  BY <1>1, <1>2, <1>3, <1>4, <1>5 DEF Method

(***************************************************************************)
(* For every call of every method the parallel processor makes the tasks   *)
(* that the loop of the single one executes: the same functions, on the    *)
(* same chains, in the same order.                                         *)
(***************************************************************************)
THEOREM SameTasks ==
    ASSUME NEW c, c.method \in Method
    PROVE  ParallelTasks(c) = SingleTasks(c)
<1> DEFINE p == ParallelRow(c.method)
           s == SingleRow(c.method)
<1>1. /\ s.kernel = Process(p.kernel)
      /\ s.reads = p.reads /\ s.writes = p.writes
  <2>1. Applied(p) = s
    BY RowsAgree
  <2> HIDE DEF p, s
  <2> QED
    BY <2>1 DEF Applied, Row
<1>2. Iterations(p, c) = SingleIterations(c)
  BY <1>1 DEF Iterations, SingleIterations
<1>3. \A i : KernelTask(p, Process(p.kernel), c, i) = SingleTask(c, i)
  BY <1>1 DEF KernelTask, SingleTask
<1> QED
  BY <1>2, <1>3 DEF ParallelTasks, SingleTasks

-----------------------------------------------------------------------------
(* The tasks of a call do not disturb one another. *)

(* How a call writes one chain after the other, and what it may then read. *)
Undisturbed(c, row, k) ==
    \/ c.x[k] # c.y
    \/ /\ row.reads[k].stride = 1
       /\ row.reads[k].from * c.xOffset[k] = row.writes.from * c.yOffset
    \/ /\ row.reads[k].stride = 0
       /\ row.reads[k].from * c.xOffset[k] \notin
            row.writes.from * c.yOffset ..
              (row.writes.from * c.yOffset + c.count) - 1

(***************************************************************************)
(* A call whose operands are other polynomials, the chains it writes, or a *)
(* tile outside of them, has tasks that do not disturb one another.        *)
(***************************************************************************)
LEMMA UndisturbedTasks ==
    ASSUME NEW c, NEW row, row = SingleRow(c.method), c.count \in Nat,
           row.writes.stride \in {0, 1}, row.writes.from \in {0, 1},
           c.yOffset \in Nat, \E S : row.reads \in Seq(S),
           \A k \in DOMAIN row.reads :
             /\ row.reads[k].from * c.xOffset[k] \in Nat
             /\ Undisturbed(c, row, k),
           row.writes.stride = 1
    PROVE  OrderFree(SingleTasks(c))
<1> DEFINE tasks == SingleTasks(c)
           w == row.writes.from * c.yOffset
<1>1. w \in Nat
  OBVIOUS
<1>2. DOMAIN tasks = 1 .. c.count
  BY DEF SingleTasks, SingleIterations, Iterations
<1>3. ASSUME NEW i \in 1 .. c.count
      PROVE  /\ tasks[i].destination = <<c.y, w + (i - 1)>>
             /\ \A k \in DOMAIN tasks[i].sources :
                  \/ tasks[i].sources[k] = tasks[i].destination
                  \/ /\ k \in DOMAIN row.reads
                     /\ tasks[i].sources[k] =
                          ChainOf(c.x[k], row.reads[k], c.xOffset[k], i - 1)
  <2> DEFINE destination == ChainOf(c.y, row.writes, c.yOffset, i - 1)
             reads == [k \in DOMAIN row.reads |->
                         ChainOf(c.x[k], row.reads[k], c.xOffset[k], i - 1)]
  <2>1. tasks[i] = SingleTask(c, i - 1)
    BY DEF SingleTasks, SingleIterations, Iterations
  <2>2. /\ tasks[i].destination = destination
        /\ tasks[i].sources = IF row.kernel \in UpdatesDestination
                                THEN Append(reads, destination) ELSE reads
    BY <2>1 DEF SingleTask, KernelTask
  <2>3. destination = <<c.y, w + (i - 1)>>
    BY DEF ChainOf
  <2>4. ASSUME NEW k \in DOMAIN tasks[i].sources
        PROVE  \/ tasks[i].sources[k] = destination
               \/ /\ k \in DOMAIN row.reads
                  /\ tasks[i].sources[k] = reads[k]
    <3>1. CASE row.kernel \in UpdatesDestination
      <4>1. PICK S : row.reads \in Seq(S)
        OBVIOUS
      <4>2. \E n \in Nat : DOMAIN reads = 1 .. n
        BY <4>1
      <4>3. reads \in Seq({reads[j] : j \in DOMAIN reads})
        BY <4>2
      <4> HIDE DEF reads, destination
      <4>4. tasks[i].sources = Append(reads, destination)
        BY <2>2, <3>1
      <4>5. DOMAIN reads = DOMAIN row.reads
        BY DEF reads
      <4> QED
        BY <4>3, <4>4, <4>5
    <3>2. CASE row.kernel \notin UpdatesDestination
      BY <2>2, <3>2
    <3> QED
      BY <3>1, <3>2
  <2> QED
    BY <2>2, <2>3, <2>4
<1>4. ASSUME NEW i \in DOMAIN tasks, NEW j \in DOMAIN tasks, i # j
      PROVE  tasks[i].destination # tasks[j].destination
  <2>1. w + (i - 1) # w + (j - 1)
    BY <1>1, <1>2, <1>4
  <2> QED
    BY <1>2, <1>3, <2>1
<1>5. ASSUME NEW i \in DOMAIN tasks, NEW j \in DOMAIN tasks, i # j,
             NEW k \in DOMAIN tasks[i].sources
      PROVE  tasks[i].sources[k] # tasks[j].destination
  <2>1. CASE tasks[i].sources[k] = tasks[i].destination
    BY <1>4, <1>5, <2>1
  <2>2. CASE tasks[i].sources[k] # tasks[i].destination
    <3> DEFINE r == row.reads[k].from * c.xOffset[k]
               place == r + row.reads[k].stride * (i - 1)
    <3>1. /\ k \in DOMAIN row.reads
          /\ tasks[i].sources[k] = <<c.x[k], place>>
      BY <1>2, <1>3, <2>2 DEF ChainOf
    <3>2. tasks[j].destination = <<c.y, w + (j - 1)>>
      BY <1>2, <1>3
    <3>3. r \in Nat /\ Undisturbed(c, row, k)
      BY <3>1
    <3>4. CASE c.x[k] # c.y
      BY <3>1, <3>2, <3>4
    <3>5. CASE row.reads[k].stride = 1 /\ r = w
      <4>1. place # w + (j - 1)
        BY <1>1, <1>2, <1>5, <3>5
      <4> HIDE DEF place, w
      <4> QED
        BY <3>1, <3>2, <4>1
    <3>6. CASE row.reads[k].stride = 0 /\ r \notin w .. (w + c.count) - 1
      <4>1. j \in 1 .. c.count /\ i \in 1 .. c.count
        BY <1>2
      <4>2. w + (j - 1) \in w .. (w + c.count) - 1
        BY <1>1, <4>1
      <4>3. place = r
        BY <3>3, <3>6, <4>1
      <4>4. place # w + (j - 1)
        BY <3>6, <4>2, <4>3
      <4> HIDE DEF place, w
      <4> QED
        BY <3>1, <3>2, <4>4
    <3> QED
      BY <3>3, <3>4, <3>5, <3>6 DEF Undisturbed
  <2> QED
    BY <2>1, <2>2
<1> QED
  BY <1>4, <1>5 DEF OrderFree

(* A single task disturbs no other one. *)
LEMMA OneTask ==
    ASSUME NEW c, SingleRow(c.method).writes.stride = 0
    PROVE  OrderFree(SingleTasks(c))
<1>1. DOMAIN SingleTasks(c) = 1 .. 1
  BY DEF SingleTasks, SingleIterations, Iterations
<1>2. 1 .. 1 = {1}
  OBVIOUS
<1> QED
  BY <1>1, <1>2 DEF OrderFree

(* Both processors read and write the same operands. *)
LEMMA SameOperands ==
    \A m \in Method : /\ SingleRow(m).reads = ParallelRow(m).reads
                      /\ SingleRow(m).writes = ParallelRow(m).writes
<1> SUFFICES ASSUME NEW m \in Method
             PROVE  /\ SingleRow(m).reads = ParallelRow(m).reads
                    /\ SingleRow(m).writes = ParallelRow(m).writes
  OBVIOUS
<1>1. SingleRow(m) = Row(Process(ParallelRow(m).kernel),
                         ParallelRow(m).reads, ParallelRow(m).writes)
  BY RowsAgree DEF Applied
<1> QED
  BY <1>1 DEF Row

Operand == {Each, EachFrom, Tile, TileFrom}

(* What the methods read, and what they write. *)
ReadLists == {<<>>, <<Each>>, <<EachFrom>>, <<Tile>>, <<TileFrom>>,
              <<Each, Each>>, <<EachFrom, EachFrom>>, <<Each, Tile>>,
              <<EachFrom, Tile>>, <<EachFrom, TileFrom>>, <<Tile, Tile>>}

RowShape(row) ==
    row.reads \in ReadLists /\ row.writes \in {Each, EachFrom, Tile}

LEMMA ReadListsShort ==
    \A reads \in ReadLists :
        reads \in Seq(Operand) /\ DOMAIN reads \subseteq {1, 2}
<1>1. \A r \in Operand :
        <<r>> \in Seq(Operand) /\ DOMAIN <<r>> \subseteq {1, 2}
  OBVIOUS
<1>2. \A r, s \in Operand :
        <<r, s>> \in Seq(Operand) /\ DOMAIN <<r, s>> \subseteq {1, 2}
  OBVIOUS
<1>3. <<>> \in Seq(Operand) /\ DOMAIN <<>> \subseteq {1, 2}
  OBVIOUS
<1>4. /\ Each \in Operand /\ EachFrom \in Operand
      /\ Tile \in Operand /\ TileFrom \in Operand
  BY DEF Operand
<1> QED
  BY <1>1, <1>2, <1>3, <1>4 DEF ReadLists

LEMMA RowShapes == \A m \in Method : RowShape(ParallelRow(m))
<1>1. \A m \in DOMAIN ParallelUnits : RowShape(ParallelUnits[m])
  BY ParallelDomains DEF ParallelUnits, Row, RowShape, ReadLists
<1>2. \A m \in DOMAIN ParallelTiled : RowShape(ParallelTiled[m])
  BY ParallelDomains DEF ParallelTiled, Row, RowShape, ReadLists
<1>3. \A m \in DOMAIN ParallelReduced : RowShape(ParallelReduced[m])
  BY ParallelDomains DEF ParallelReduced, Row, RowShape, ReadLists
<1>4. \A m \in DOMAIN ParallelCopies : RowShape(ParallelCopies[m])
  BY ParallelDomains DEF ParallelCopies, Row, RowShape, ReadLists
<1>5. \A m \in DOMAIN ParallelCodec : RowShape(ParallelCodec[m])
  BY ParallelDomains DEF ParallelCodec, Row, RowShape, ReadLists
<1> QED
  BY <1>1, <1>2, <1>3, <1>4, <1>5, ParallelRows DEF Method

(* Every operand starts at its offset or at chain 0. *)
LEMMA OperandStarts ==
    \A a \in Operand : /\ a.from \in {0, 1} /\ a.stride \in {0, 1}
                       /\ \A o \in Nat : a.from * o \in Nat
                       /\ a.from * 0 = 0
<1>1. \A a \in Operand : a.from \in {0, 1} /\ a.stride \in {0, 1}
  BY DEF Operand, Each, EachFrom, Tile, TileFrom
<1>2. \A n \in {0, 1} : n * 0 = 0 /\ \A o \in Nat : n * o \in Nat
  OBVIOUS
<1> QED
  BY <1>1, <1>2

(***************************************************************************)
(* Tasks of a call with the shape of its method's row, and offsets that    *)
(* are natural numbers: only operands in the polynomial written matter.    *)
(***************************************************************************)
LEMMA CallUndisturbed ==
    ASSUME NEW c, c.method \in Method, c.count \in Nat, c.yOffset \in Nat,
           NEW row, row = SingleRow(c.method),
           \A k \in DOMAIN row.reads : c.xOffset[k] \in Nat,
           row.writes.stride = 1 =>
             \A k \in DOMAIN row.reads : Undisturbed(c, row, k)
    PROVE  OrderFree(SingleTasks(c))
<1>1. RowShape(row)
  <2>1. RowShape(ParallelRow(c.method))
    BY RowShapes
  <2>2. /\ row.reads = ParallelRow(c.method).reads
        /\ row.writes = ParallelRow(c.method).writes
    BY SameOperands
  <2> QED
    BY <2>1, <2>2 DEF RowShape
<1>2. row.writes \in Operand
  BY <1>1 DEF RowShape, Operand
<1>3. row.writes.stride \in {0, 1} /\ row.writes.from \in {0, 1}
  BY <1>2, OperandStarts
<1>4. CASE row.writes.stride = 0
  BY <1>4, OneTask
<1>5. CASE row.writes.stride = 1
  <2>1. \A k \in DOMAIN row.reads : row.reads[k] \in Operand
    BY <1>1, ReadListsShort DEF RowShape
  <2>2. \A k \in DOMAIN row.reads : row.reads[k].from * c.xOffset[k] \in Nat
    BY <2>1, OperandStarts
  <2>3. \E S : row.reads \in Seq(S)
    BY <1>1, ReadListsShort DEF RowShape
  <2> QED
    BY <1>3, <1>5, <2>2, <2>3, UndisturbedTasks
<1> QED
  BY <1>3, <1>4, <1>5

(* With operands of its own a call is undisturbed, whatever the offsets. *)
LEMMA SeparateFree ==
    ASSUME NEW m \in Method, NEW c \in SeparateCalls(m)
    PROVE  OrderFree(SingleTasks(c))
<1> DEFINE row == ParallelRow(m)
           reads == DOMAIN row.reads
<1>1. PICK start \in [reads -> 0 .. MaxOffset],
           s \in OffsetsOf(row.writes), n \in ChainCount :
         c = Invoke(m, [k \in reads |-> <<"x", "z">>[k]], start, "y", s, n)
  BY DEF SeparateCalls
<1>2. RowShape(row)
  BY RowShapes
<1>3. row.writes \in Operand /\ reads \subseteq {1, 2}
  BY <1>2, ReadListsShort DEF RowShape, Operand
<1>4. s \in Nat
  BY MaxOffsetAssumption, <1>3, OperandStarts DEF OffsetsOf
<1>5. n \in Nat
  BY ChainCountsAssumption DEF ChainCount
<1>6. \A k \in reads : <<"x", "z">>[k] # "y"
  BY <1>3
<1> HIDE DEF row, reads
<1>7. /\ c.method = m /\ c.count = n /\ c.yOffset = s /\ c.xOffset = start
      /\ c.y = "y" /\ \A k \in reads : c.x[k] = <<"x", "z">>[k]
  BY <1>1 DEF Invoke
<1>8. \A k \in reads : c.xOffset[k] \in Nat
  BY <1>1, <1>7, MaxOffsetAssumption
<1>9. DOMAIN SingleRow(m).reads = reads
  BY SameOperands DEF row, reads
<1>10. \A k \in DOMAIN SingleRow(m).reads : Undisturbed(c, SingleRow(m), k)
  BY <1>6, <1>7, <1>9 DEF Undisturbed
<1> QED
  BY <1>4, <1>5, <1>7, <1>8, <1>9, <1>10, CallUndisturbed

(* In place, each iteration reads what it writes, or another polynomial. *)
LEMMA WholeFree ==
    ASSUME NEW m \in Method, NEW operands, NEW c \in Whole(m, operands),
           \A x \in operands : \A k \in DOMAIN SingleRow(m).reads :
             /\ k \in DOMAIN x
             /\ \/ x[k] # "y"
                \/ SingleRow(m).reads[k].stride = 1
                \/ SingleRow(m).writes.stride = 0
    PROVE  OrderFree(SingleTasks(c))
<1> DEFINE row == SingleRow(m)
<1>1. PICK x \in operands, n \in ChainCount :
         c = Invoke(m, x, [k \in DOMAIN x |-> 0], "y", 0, n)
  BY DEF Whole
<1>2. n \in Nat
  BY ChainCountsAssumption DEF ChainCount
<1>3. /\ c.method = m /\ c.count = n /\ c.yOffset = 0 /\ c.x = x /\ c.y = "y"
      /\ \A k \in DOMAIN row.reads : c.xOffset[k] = 0
  BY <1>1 DEF Invoke
<1>4. RowShape(row)
  <2>1. RowShape(ParallelRow(m))
    BY RowShapes
  <2> QED
    BY <2>1, SameOperands DEF RowShape
<1>5. /\ row.writes \in Operand
      /\ \A k \in DOMAIN row.reads : row.reads[k] \in Operand
  BY <1>4, ReadListsShort DEF RowShape, Operand
<1>6. /\ row.writes.from * 0 = 0
      /\ \A k \in DOMAIN row.reads : row.reads[k].from * 0 = 0
  BY <1>5, OperandStarts
<1> HIDE DEF row
<1>7. row.writes.stride = 1 =>
        \A k \in DOMAIN row.reads : Undisturbed(c, row, k)
  <2> SUFFICES ASSUME row.writes.stride = 1, NEW k \in DOMAIN row.reads
               PROVE  Undisturbed(c, row, k)
    OBVIOUS
  <2>1. x[k] # "y" \/ row.reads[k].stride = 1
    BY DEF row
  <2> QED
    BY <1>3, <1>6, <2>1 DEF Undisturbed
<1> QED
  BY <1>2, <1>3, <1>7, CallUndisturbed DEF row

-----------------------------------------------------------------------------
(* The calls of the core, function by function. *)

Unary == {"mont_enter", "ntt", "intt", "mont_enter_exit", "reduce_2q_to_q",
          "add_scalar", "negate_make_unsigned", "make_signed",
          "make_unsigned_reduce_2q_to_q", "fft", "ifft"}

Binary == {"mont_mult", "mont_add", "mont_add_reduce_2q_to_q",
           "mont_sub_reduce_2q_to_q"}

LEMMA UnaryRows ==
    \A m \in Unary :
        LET row == SingleRow(m)
        IN  /\ m \in Method /\ DOMAIN row.reads = {1}
            /\ row.reads[1].stride = 1 \/ row.writes.stride = 0
<1> DEFINE Fits(row) == /\ DOMAIN row.reads = {1}
                        /\ row.reads[1].stride = 1 \/ row.writes.stride = 0
<1>1. \A m \in {"mont_enter", "reduce_2q_to_q", "make_signed"} :
        m \in DOMAIN SingleUnits /\ Fits(SingleUnits[m])
  BY ParallelDomains, SingleDomains DEF SingleUnits, Row, Each, EachFrom
<1>2. /\ "mont_enter_exit" \in DOMAIN SingleTiled
      /\ Fits(SingleTiled["mont_enter_exit"])
  BY ParallelDomains, SingleDomains DEF SingleTiled, Row, Each
<1>3. \A m \in {"negate_make_unsigned", "make_unsigned_reduce_2q_to_q"} :
        m \in DOMAIN SingleReduced /\ Fits(SingleReduced[m])
  BY ParallelDomains, SingleDomains DEF SingleReduced, Row, Each
<1>4. \A m \in {"ntt", "intt", "add_scalar"} :
        m \in DOMAIN SingleCopies /\ Fits(SingleCopies[m])
  BY SingleDomains DEF SingleCopies, Row, Each, EachFrom
<1>5. \A m \in {"fft", "ifft"} :
        m \in DOMAIN SingleCodec /\ Fits(SingleCodec[m])
  BY SingleDomains DEF SingleCodec, Row, Tile
<1>6. Unary \subseteq Method
  BY ParallelDomains DEF Unary, Method
<1> HIDE DEF Fits
<1>7. \A m \in Unary : Fits(SingleRow(m))
  BY <1>1, <1>2, <1>3, <1>4, <1>5, SingleRows DEF Unary
<1> QED
  BY <1>6, <1>7 DEF Fits

LEMMA BinaryRows ==
    \A m \in Binary :
        LET row == SingleRow(m)
        IN  /\ m \in Method /\ DOMAIN row.reads = {1, 2}
            /\ row.reads[1].stride = 1 /\ row.reads[2].stride = 1
<1> DEFINE Fits(row) == /\ DOMAIN row.reads = {1, 2}
                        /\ row.reads[1].stride = 1 /\ row.reads[2].stride = 1
<1>1. \A m \in {"mont_mult", "mont_add"} :
        m \in DOMAIN SingleUnits /\ Fits(SingleUnits[m])
  BY ParallelDomains, SingleDomains DEF SingleUnits, Row, Each, EachFrom
<1>2. \A m \in {"mont_add_reduce_2q_to_q", "mont_sub_reduce_2q_to_q"} :
        m \in DOMAIN SingleReduced /\ Fits(SingleReduced[m])
  BY ParallelDomains, SingleDomains DEF SingleReduced, Row, Each, EachFrom
<1>3. Binary \subseteq Method
  BY ParallelDomains DEF Binary, Method
<1> HIDE DEF Fits
<1>4. \A m \in Binary : Fits(SingleRow(m))
  BY <1>1, <1>2, SingleRows DEF Binary
<1> QED
  BY <1>3, <1>4 DEF Fits

(* What the methods that read a tile, or from another chain on, touch. *)
LEMMA TiledRows ==
    /\ {"sub_tiled", "add_tiled", "mont_enter", "mont_add_reduce_2q_to_q",
        "mont_sub_tiled_enter", "mont_sub_enter_reduce_2q_to_q",
        "mont_enter_tiled_add_reduce_2q_to_q"} \subseteq Method
    /\ SingleRow("sub_tiled") =
         Row("mont_subtract", <<EachFrom, Tile>>, EachFrom)
    /\ SingleRow("add_tiled") = Row("mont_add", <<Each, Tile>>, Each)
    /\ SingleRow("mont_enter") = Row("mont_enter", <<EachFrom>>, EachFrom)
    /\ SingleRow("mont_add_reduce_2q_to_q") =
         Row("mont_add_reduce_2q_to_q", <<EachFrom, EachFrom>>, EachFrom)
    /\ SingleRow("mont_sub_tiled_enter") =
         Row("mont_sub_enter", <<EachFrom, TileFrom>>, EachFrom)
    /\ SingleRow("mont_sub_enter_reduce_2q_to_q") =
         Row("mont_sub_enter_reduce_2q_to_q", <<EachFrom, EachFrom>>, EachFrom)
    /\ SingleRow("mont_enter_tiled_add_reduce_2q_to_q") =
         Row("mont_enter_add_reduce_2q_to_q", <<TileFrom>>, EachFrom)
<1>1. /\ SingleRow("sub_tiled") = SingleUnits["sub_tiled"]
      /\ SingleRow("add_tiled") = SingleUnits["add_tiled"]
      /\ SingleRow("mont_enter") = SingleUnits["mont_enter"]
  BY ParallelDomains, SingleDomains, SingleRows
<1>2. SingleRow("mont_add_reduce_2q_to_q") =
        SingleReduced["mont_add_reduce_2q_to_q"]
  BY ParallelDomains, SingleDomains, SingleRows
<1>3. /\ SingleRow("mont_sub_tiled_enter") =
           SingleTiled["mont_sub_tiled_enter"]
      /\ SingleRow("mont_sub_enter_reduce_2q_to_q") =
           SingleTiled["mont_sub_enter_reduce_2q_to_q"]
      /\ SingleRow("mont_enter_tiled_add_reduce_2q_to_q") =
           SingleTiled["mont_enter_tiled_add_reduce_2q_to_q"]
  BY ParallelDomains, SingleDomains, SingleRows
<1>4. {"sub_tiled", "add_tiled", "mont_enter", "mont_add_reduce_2q_to_q",
       "mont_sub_tiled_enter", "mont_sub_enter_reduce_2q_to_q",
       "mont_enter_tiled_add_reduce_2q_to_q"} \subseteq Method
  BY ParallelDomains DEF Method
<1> QED
  BY <1>1, <1>2, <1>3, <1>4 DEF SingleUnits, SingleReduced, SingleTiled

(* A method of one operand, or of two, on the polynomial it writes. *)
LEMMA UnaryFree ==
    ASSUME NEW m \in Unary, NEW c \in Whole(m, {<<"y">>})
    PROVE  OrderFree(SingleTasks(c))
<1>1. \A k \in DOMAIN SingleRow(m).reads :
        /\ k \in DOMAIN <<"y">>
        /\ SingleRow(m).reads[k].stride = 1 \/ SingleRow(m).writes.stride = 0
  BY UnaryRows
<1>2. m \in Method
  BY UnaryRows
<1> QED
  BY <1>1, <1>2, WholeFree

LEMMA BinaryFree ==
    ASSUME NEW m \in Binary, NEW operands, NEW c \in Whole(m, operands),
           \A x \in operands : DOMAIN x = {1, 2}
    PROVE  OrderFree(SingleTasks(c))
<1>1. \A x \in operands : \A k \in DOMAIN SingleRow(m).reads :
        k \in DOMAIN x /\ SingleRow(m).reads[k].stride = 1
  BY BinaryRows
<1>2. m \in Method
  BY BinaryRows
<1> QED
  BY <1>1, <1>2, WholeFree

(* The chain that rescaling takes from the others is in another polynomial. *)
LEMMA RescaleFree ==
    ASSUME NEW c \in RescaleOnce PROVE OrderFree(SingleTasks(c))
<1>1. ASSUME NEW n \in ChainCount,
             c = Invoke("sub_tiled", <<"x", "x">>, <<1, 0>>, "y", 0, n)
      PROVE  OrderFree(SingleTasks(c))
  <2> DEFINE row == SingleRow("sub_tiled")
  <2>1. /\ c.method = "sub_tiled" /\ c.count = n /\ c.yOffset = 0
        /\ c.x = <<"x", "x">> /\ c.y = "y" /\ c.xOffset = <<1, 0>>
    BY <1>1 DEF Invoke
  <2>2. n \in Nat
    BY ChainCountsAssumption DEF ChainCount
  <2>3. DOMAIN row.reads = {1, 2}
    BY TiledRows DEF Row
  <2>4. \A k \in DOMAIN row.reads :
          c.xOffset[k] \in Nat /\ Undisturbed(c, row, k)
    BY <2>1, <2>3 DEF Undisturbed
  <2> QED
    BY <2>1, <2>2, <2>4, TiledRows, CallUndisturbed
<1>2. ASSUME c \in Whole("add_tiled", {<<"y", "z">>})
      PROVE  OrderFree(SingleTasks(c))
  <2> DEFINE row == SingleRow("add_tiled")
  <2>1. DOMAIN row.reads = {1, 2} /\ row.reads[1].stride = 1
    BY TiledRows DEF Row, Each
  <2>2. \A x \in {<<"y", "z">>} : \A k \in DOMAIN row.reads :
          k \in DOMAIN x /\ (x[k] # "y" \/ row.reads[k].stride = 1)
    BY <2>1
  <2> QED
    BY <1>2, <2>2, TiledRows, WholeFree
<1>3. "reduce_2q_to_q" \in Unary /\ "mont_enter" \in Unary
  BY DEF Unary
<1> QED
  BY <1>1, <1>2, <1>3, UnaryFree DEF RescaleOnce

(* A digit is finished in its place and carried into later ones only. *)
LEMMA DigitsFree ==
    ASSUME NEW c \in RnsToMrs PROVE OrderFree(SingleTasks(c))
<1>1. PICK p \in Partition : c \in FinishDigit(p) \union CarryDigit(p)
  BY DEF RnsToMrs
<1>2. p.start \in Nat /\ p.size \in Nat /\ p.size > 0
  BY ChainCountsAssumption DEF Partition
<1>3. \A i \in Digit(p) : i \in Nat /\ i + 1 =< p.size
  BY <1>2 DEF Digit
<1>4. ASSUME NEW i \in Digit(p),
             c = Invoke("mont_sub_enter_reduce_2q_to_q", <<"x", "y">>,
                        <<p.start + i, i>>, "y", i, 1)
      PROVE  OrderFree(SingleTasks(c))
  <2> DEFINE row == SingleRow("mont_sub_enter_reduce_2q_to_q")
  <2>1. /\ c.method = "mont_sub_enter_reduce_2q_to_q" /\ c.count = 1
        /\ c.yOffset = i /\ c.x = <<"x", "y">> /\ c.y = "y"
        /\ c.xOffset = <<p.start + i, i>>
    BY <1>4 DEF Invoke
  <2>2. /\ DOMAIN row.reads = {1, 2} /\ row.writes = EachFrom
        /\ row.reads[2] = EachFrom
    BY TiledRows DEF Row
  <2>3. i \in Nat /\ p.start + i \in Nat
    BY <1>2, <1>3
  <2>4. \A k \in DOMAIN row.reads :
          c.xOffset[k] \in Nat /\ Undisturbed(c, row, k)
    BY <2>1, <2>2, <2>3 DEF Undisturbed, EachFrom
  <2> QED
    BY <2>1, <2>3, <2>4, TiledRows, CallUndisturbed
<1>5. ASSUME NEW i \in Digit(p) \ {p.size - 1},
             c = Invoke("mont_enter_tiled_add_reduce_2q_to_q", <<"y">>, <<i>>,
                        "y", i + 1, p.size - (i + 1))
      PROVE  OrderFree(SingleTasks(c))
  <2> DEFINE row == SingleRow("mont_enter_tiled_add_reduce_2q_to_q")
             n == p.size - (i + 1)
  <2>1. n \in Nat /\ i \in Nat /\ i + 1 \in Nat
    BY <1>2, <1>3
  <2>2. /\ c.method = "mont_enter_tiled_add_reduce_2q_to_q" /\ c.count = n
        /\ c.yOffset = i + 1 /\ c.x = <<"y">> /\ c.y = "y"
        /\ c.xOffset = <<i>>
    BY <1>5 DEF Invoke
  <2>3. /\ DOMAIN row.reads = {1} /\ row.writes = EachFrom
        /\ row.reads[1] = TileFrom
    BY TiledRows DEF Row
  <2> HIDE DEF n
  <2>4. 1 * i \notin 1 * (i + 1) .. (1 * (i + 1) + n) - 1
    BY <2>1
  <2>5. \A k \in DOMAIN row.reads :
          c.xOffset[k] \in Nat /\ Undisturbed(c, row, k)
    BY <2>1, <2>2, <2>3, <2>4 DEF Undisturbed, EachFrom, TileFrom
  <2> QED
    BY <2>1, <2>2, <2>5, TiledRows, CallUndisturbed
<1> QED
  BY <1>1, <1>4, <1>5 DEF FinishDigit, CarryDigit

(* The special chain that is dropped is behind those it is taken from. *)
LEMMA ModDownFree ==
    ASSUME NEW c \in ModDown PROVE OrderFree(SingleTasks(c))
<1>1. ASSUME NEW last \in 1 .. TextChainCount + SpecialPrimeCount - 1,
             c = DropChain(last)
      PROVE  OrderFree(SingleTasks(c))
  <2> DEFINE row == SingleRow("mont_sub_tiled_enter")
  <2>1. last \in Nat
    BY ChainCountsAssumption
  <2>2. /\ c.method = "mont_sub_tiled_enter" /\ c.count = last
        /\ c.yOffset = 0 /\ c.x = <<"y", "y">> /\ c.y = "y"
        /\ c.xOffset = <<0, last>>
    BY <1>1 DEF DropChain, Invoke
  <2>3. /\ DOMAIN row.reads = {1, 2} /\ row.writes = EachFrom
        /\ row.reads[1] = EachFrom /\ row.reads[2] = TileFrom
    BY TiledRows DEF Row
  <2>4. 1 * last \notin 1 * 0 .. (1 * 0 + last) - 1
    BY <2>1
  <2>5. \A k \in DOMAIN row.reads :
          c.xOffset[k] \in Nat /\ Undisturbed(c, row, k)
    BY <2>1, <2>2, <2>3, <2>4 DEF Undisturbed, EachFrom, TileFrom
  <2> QED
    BY <2>1, <2>2, <2>5, TiledRows, CallUndisturbed
<1>2. "reduce_2q_to_q" \in Unary
  BY DEF Unary
<1> QED
  BY <1>1, <1>2, UnaryFree DEF ModDown

(* The secret is added to the chains of a partition, each in its place. *)
LEMMA SwitchingKeyFree ==
    ASSUME NEW c \in SwitchingKey PROVE OrderFree(SingleTasks(c))
<1>1. ASSUME NEW p \in Partition,
             c = Invoke("mont_add_reduce_2q_to_q", <<"x", "y">>,
                        <<p.start, p.start>>, "y", p.start, p.size)
      PROVE  OrderFree(SingleTasks(c))
  <2> DEFINE row == SingleRow("mont_add_reduce_2q_to_q")
  <2>1. p.start \in Nat /\ p.size \in Nat
    BY ChainCountsAssumption DEF Partition
  <2>2. /\ c.method = "mont_add_reduce_2q_to_q" /\ c.count = p.size
        /\ c.yOffset = p.start /\ c.x = <<"x", "y">> /\ c.y = "y"
        /\ c.xOffset = <<p.start, p.start>>
    BY <1>1 DEF Invoke
  <2>3. /\ DOMAIN row.reads = {1, 2} /\ row.writes = EachFrom
        /\ row.reads[2] = EachFrom
    BY TiledRows DEF Row
  <2>4. \A k \in DOMAIN row.reads :
          c.xOffset[k] \in Nat /\ Undisturbed(c, row, k)
    BY <2>1, <2>2, <2>3 DEF Undisturbed, EachFrom
  <2> QED
    BY <2>1, <2>2, <2>4, TiledRows, CallUndisturbed
<1>2. "mont_sub_reduce_2q_to_q" \in Binary /\ "mont_mult" \in Binary
  BY DEF Binary
<1>3. DOMAIN <<"x", "y">> = {1, 2} /\ DOMAIN <<"x", "x">> = {1, 2}
  OBVIOUS
<1> QED
  BY <1>1, <1>2, <1>3, BinaryFree DEF SwitchingKey

(* The scaled coefficients are entered in their place. *)
LEMMA CodecFree ==
    ASSUME NEW c \in Codec PROVE OrderFree(SingleTasks(c))
<1>1. ASSUME NEW s \in 0 .. 2, NEW n \in ChainCount,
             c = Invoke("mont_enter", <<"y">>, <<s>>, "y", s, n)
      PROVE  OrderFree(SingleTasks(c))
  <2> DEFINE row == SingleRow("mont_enter")
  <2>1. s \in Nat /\ n \in Nat
    BY ChainCountsAssumption DEF ChainCount
  <2>2. /\ c.method = "mont_enter" /\ c.count = n /\ c.yOffset = s
        /\ c.x = <<"y">> /\ c.y = "y" /\ c.xOffset = <<s>>
    BY <1>1 DEF Invoke
  <2>3. /\ DOMAIN row.reads = {1} /\ row.writes = EachFrom
        /\ row.reads[1] = EachFrom
    BY TiledRows DEF Row
  <2>4. \A k \in DOMAIN row.reads :
          c.xOffset[k] \in Nat /\ Undisturbed(c, row, k)
    BY <2>1, <2>2, <2>3 DEF Undisturbed, EachFrom
  <2> QED
    BY <2>1, <2>2, <2>4, TiledRows, CallUndisturbed
<1>2. /\ "fft" \in Unary /\ "ifft" \in Unary /\ "make_signed" \in Unary
      /\ "make_unsigned_reduce_2q_to_q" \in Unary
  BY DEF Unary
<1> QED
  BY <1>1, <1>2, UnaryFree DEF Codec

(* Conversions, encryption, sums and rotations work on whole polynomials. *)
LEMMA TextsFree ==
    ASSUME NEW c \in ToNtt \union ToIntt \union KeyProducts
                       \union Encryption \union TextSums \union Rotation
    PROVE  OrderFree(SingleTasks(c))
<1>1. /\ DOMAIN <<"x", "x">> = {1, 2} /\ DOMAIN <<"x", "y">> = {1, 2}
      /\ DOMAIN <<"y", "x">> = {1, 2} /\ DOMAIN <<"y", "y">> = {1, 2}
  OBVIOUS
<1>2. \A m \in {"mont_enter", "ntt", "intt", "mont_enter_exit",
                "reduce_2q_to_q", "add_scalar", "negate_make_unsigned",
                "make_unsigned_reduce_2q_to_q"} : m \in Unary
  BY DEF Unary
<1>3. \A m \in {"mont_mult", "mont_add", "mont_add_reduce_2q_to_q",
                "mont_sub_reduce_2q_to_q"} : m \in Binary
  BY DEF Binary
<1>4. CASE c \in ToNtt \union ToIntt \union KeyProducts
  BY <1>2, <1>4, UnaryFree DEF ToNtt, ToIntt, KeyProducts
<1>5. CASE c \in Encryption
  BY <1>1, <1>2, <1>3, <1>5, UnaryFree, BinaryFree DEF Encryption
<1>6. CASE c \in TextSums
  BY <1>1, <1>2, <1>3, <1>6, UnaryFree, BinaryFree DEF TextSums
<1>7. CASE c \in Rotation
  BY <1>1, <1>2, <1>3, <1>7, UnaryFree, BinaryFree DEF Rotation
<1> QED
  BY <1>4, <1>5, <1>6, <1>7

(***************************************************************************)
(* At every level, for every partition, and for any number of chains and   *)
(* special primes: no call of the core has a task that reads or writes     *)
(* what another task of the call writes.                                   *)
(***************************************************************************)
THEOREM CoreCallsIndependent ==
    \A c \in CoreCall : OrderFree(SingleTasks(c))
<1> SUFFICES ASSUME NEW c \in CoreCall PROVE OrderFree(SingleTasks(c))
  OBVIOUS
<1>1. \/ \E m \in Method : c \in SeparateCalls(m)
      \/ c \in ToNtt \union ToIntt \union KeyProducts
               \union Encryption \union TextSums \union Rotation
      \/ c \in RescaleOnce \/ c \in RnsToMrs \/ c \in ModDown
      \/ c \in SwitchingKey \/ c \in Codec
  BY DEF CoreCall
<1> QED
  BY <1>1, SeparateFree, TextsFree, RescaleFree, DigitsFree, ModDownFree,
     SwitchingKeyFree, CodecFree

(* The core calls methods that the processors have. *)
LEMMA CoreMethods == \A c \in CoreCall : c.method \in Method
<1> SUFFICES ASSUME NEW c \in CoreCall PROVE c.method \in Method
  OBVIOUS
<1>1. Unary \subseteq Method /\ Binary \subseteq Method
  BY UnaryRows, BinaryRows
<1>2. \A m, operands : c \in Whole(m, operands) => c.method = m
  BY DEF Whole, Invoke
<1>3. \A m : c \in SeparateCalls(m) => c.method = m
  BY DEF SeparateCalls, Invoke
<1>4. \A m \in {"mont_enter", "ntt", "intt", "mont_enter_exit",
                "reduce_2q_to_q", "add_scalar", "negate_make_unsigned",
                "make_signed", "make_unsigned_reduce_2q_to_q", "fft", "ifft",
                "mont_mult", "mont_add", "mont_add_reduce_2q_to_q",
                "mont_sub_reduce_2q_to_q", "sub_tiled", "add_tiled",
                "mont_sub_tiled_enter", "mont_sub_enter_reduce_2q_to_q",
                "mont_enter_tiled_add_reduce_2q_to_q"} : m \in Method
  BY <1>1, TiledRows DEF Unary, Binary
<1>5. c \in RnsToMrs => c.method \in Method
  BY <1>4 DEF RnsToMrs, FinishDigit, CarryDigit, Invoke
<1>6. c \in ModDown => c.method \in Method
  BY <1>2, <1>4 DEF ModDown, DropChain, Invoke
<1>7. c \in RescaleOnce => c.method \in Method
  BY <1>2, <1>4 DEF RescaleOnce, Invoke
<1>8. c \in SwitchingKey \union Codec => c.method \in Method
  BY <1>2, <1>4 DEF SwitchingKey, Codec, Invoke
<1>9. c \in ToNtt \union ToIntt \union KeyProducts => c.method \in Method
  BY <1>2, <1>4 DEF ToNtt, ToIntt, KeyProducts
<1>10. c \in Encryption \union TextSums \union Rotation =>
         c.method \in Method
  BY <1>2, <1>4 DEF Encryption, TextSums, Rotation
<1> QED
  BY <1>3, <1>5, <1>6, <1>7, <1>8, <1>9, <1>10 DEF CoreCall

(***************************************************************************)
(* Whatever the core calls, the tasks of the call in progress do not       *)
(* disturb one another, in the loop and in the batch for the pool.         *)
(***************************************************************************)
THEOREM TasksAlwaysIndependent == LoopSpec => []TasksIndependent
<1> DEFINE Calling == call # <<>> => \E c \in MethodCall : call = <<c>>
<1>1. LoopInit => Calling
  BY DEF LoopInit
<1>2. Calling /\ [LoopNext]_loopVars => Calling'
  BY DEF LoopNext, Enter, Iterate, LoopReturn, loopVars
<1>3. Calling => TasksIndependent
  <2> SUFFICES ASSUME NEW c \in MethodCall, call = <<c>>
               PROVE  /\ OrderFree(SingleTasks(c))
                      /\ OrderFree(ParallelTasks(c))
    BY DEF TasksIndependent
  <2>1. OrderFree(SingleTasks(c))
    BY CoreCallAssumption, CoreCallsIndependent
  <2>2. ParallelTasks(c) = SingleTasks(c)
    BY CoreCallAssumption, CoreMethods, SameTasks
  <2> QED
    BY <2>1, <2>2
<1> QED
  BY <1>1, <1>2, <1>3, PTL DEF LoopSpec

-----------------------------------------------------------------------------
(* The loop of the single processor. *)

(* The number of iterations, and what is at a position of the loop. *)
LEMMA TaskFacts ==
    ASSUME NEW c \in MethodCall
    PROVE  /\ SingleIterations(c) \in Nat
           /\ DOMAIN SingleTasks(c) = 1 .. SingleIterations(c)
           /\ \A n \in Nat : n < SingleIterations(c) =>
                /\ n + 1 \in DOMAIN SingleTasks(c)
                /\ SingleTasks(c)[n + 1] = SingleTask(c, n)
<1>1. SingleIterations(c) \in Nat
  BY MethodCallAssumption DEF SingleIterations, Iterations
<1>2. DOMAIN SingleTasks(c) = 1 .. SingleIterations(c)
  BY DEF SingleTasks
<1>3. ASSUME NEW n \in Nat, n < SingleIterations(c)
      PROVE  /\ n + 1 \in DOMAIN SingleTasks(c)
             /\ SingleTasks(c)[n + 1] = SingleTask(c, n)
  <2>1. n + 1 \in 1 .. SingleIterations(c) /\ (n + 1) - 1 = n
    BY <1>1, <1>3
  <2> QED
    BY <1>2, <2>1 DEF SingleTasks
<1> QED
  BY <1>1, <1>2, <1>3

(* What a batch leaves in the destination of one of its tasks. *)
LEMMA ResultAtTask ==
    ASSUME NEW c \in MethodCall, NEW mem, NEW i \in DOMAIN SingleTasks(c)
    PROVE  LET task == SingleTasks(c)[i]
           IN  Calls!Result(mem, SingleTasks(c))[task.destination] =
                 Eval(task.kernel, [k \in DOMAIN task.sources |->
                                      mem[task.sources[k]]])
<1> DEFINE tasks == SingleTasks(c)
           d == tasks[i].destination
           j == CHOOSE j \in DOMAIN tasks : Calls!IsLastTaskOf(tasks, d, j)
<1>1. OrderFree(tasks) /\ d \in Chain
  BY CoreCallAssumption, CoreCallsIndependent, LoopCallAssumption
<1>2. Calls!IsLastTaskOf(tasks, d, i)
  <2>1. i \in Nat
    BY TaskFacts
  <2>2. \A k \in DOMAIN tasks : tasks[k].destination = d => k = i
    BY <1>1 DEF OrderFree
  <2> QED
    BY <2>1, <2>2 DEF Calls!IsLastTaskOf
<1>3. j = i
  <2>1. j \in DOMAIN tasks /\ tasks[j].destination = d
    BY <1>2 DEF Calls!IsLastTaskOf
  <2> QED
    BY <1>1, <2>1 DEF OrderFree
<1>4. Calls!Result(mem, tasks)[d] =
        LET task == tasks[j]
        IN  Eval(task.kernel, [k \in DOMAIN task.sources |->
                                 mem[task.sources[k]]])
  BY <1>1 DEF Calls!Result
<1> HIDE DEF j
<1> QED
  BY <1>3, <1>4

(* Chains that no task writes keep their contents. *)
LEMMA ResultElsewhere ==
    ASSUME NEW c \in MethodCall, NEW mem, NEW ch \in Chain,
           \A i \in DOMAIN SingleTasks(c) : SingleTasks(c)[i].destination # ch
    PROVE  Calls!Result(mem, SingleTasks(c))[ch] = mem[ch]
BY DEF Calls!Result

(* LoopInv holds initially. *)
LEMMA LoopInvInit == LoopInit => LoopInv
BY MemoryAssumption DEF LoopInit, LoopInv

(* Every step keeps LoopInv. *)
LEMMA LoopInvNext == LoopInv /\ [LoopNext]_loopVars => LoopInv'
<1> SUFFICES ASSUME LoopInv, [LoopNext]_loopVars PROVE LoopInv'
  OBVIOUS
<1>1. ASSUME NEW c \in MethodCall, Enter(c) PROVE LoopInv'
  <2>1. /\ call' = <<c>> /\ chain_index' = 0
        /\ before' = memory /\ memory' = memory
    BY <1>1 DEF Enter
  <2>2. 0 \in 0 .. SingleIterations(c) /\ Written(c, 0) = {}
    BY TaskFacts DEF Written
  <2>3. memory' = [ch \in Chain |->
          IF ch \in Written(c, chain_index')
            THEN Calls!Result(before', SingleTasks(c))[ch]
            ELSE before'[ch]]
    BY <2>1, <2>2 DEF LoopInv
  <2> QED
    BY <2>1, <2>2, <2>3 DEF LoopInv
<1>2. ASSUME Iterate PROVE LoopInv'
  <2>1. PICK c \in MethodCall :
          /\ call = <<c>>
          /\ chain_index \in 0 .. SingleIterations(c)
          /\ memory = [ch \in Chain |->
               IF ch \in Written(c, chain_index)
                 THEN Calls!Result(before, SingleTasks(c))[ch]
                 ELSE before[ch]]
    BY <1>2 DEF Iterate, LoopInv
  <2> DEFINE n == chain_index
             task == SingleTask(c, n)
             result == Calls!Result(before, SingleTasks(c))
  <2>2. /\ n \in Nat /\ n < SingleIterations(c)
        /\ SingleIterations(c) \in Nat
        /\ n + 1 \in DOMAIN SingleTasks(c) /\ SingleTasks(c)[n + 1] = task
        /\ DOMAIN SingleTasks(c) = 1 .. SingleIterations(c)
    BY <1>2, <2>1, TaskFacts DEF Iterate
  <2>3. /\ memory' = [memory EXCEPT ![task.destination] =
                        Eval(task.kernel, [k \in DOMAIN task.sources |->
                                             memory[task.sources[k]]])]
        /\ chain_index' = n + 1 /\ UNCHANGED <<call, before>>
    BY <1>2, <2>1 DEF Iterate
  <2>4. task.destination \in Chain
    BY <2>2, LoopCallAssumption
  <2>5. ASSUME NEW k \in DOMAIN task.sources
        PROVE  memory[task.sources[k]] = before[task.sources[k]]
    (* An earlier iteration has not written a source: OrderFree. *)
    <3>1. task.sources[k] \notin Written(c, n)
      <4> SUFFICES ASSUME NEW i \in 1 .. n,
                          SingleTasks(c)[i].destination = task.sources[k]
                   PROVE  FALSE
        BY DEF Written
      <4>1. i \in DOMAIN SingleTasks(c) /\ i # n + 1
        BY <2>2
      <4> QED
        BY <2>2, <4>1, CoreCallAssumption, CoreCallsIndependent
           DEF OrderFree
    <3>2. task.sources[k] \in Chain
      BY <2>2, LoopCallAssumption
    <3> QED
      BY <2>1, <3>1, <3>2
  <2>6. Eval(task.kernel, [k \in DOMAIN task.sources |->
                             memory[task.sources[k]]])
          = result[task.destination]
    <3>1. [k \in DOMAIN task.sources |-> memory[task.sources[k]]] =
            [k \in DOMAIN task.sources |-> before[task.sources[k]]]
      BY <2>5
    <3>2. result[task.destination] =
            Eval(task.kernel, [k \in DOMAIN task.sources |->
                                 before[task.sources[k]]])
      <4> HIDE DEF task
      <4>1. SingleTasks(c)[n + 1] = task /\ n + 1 \in DOMAIN SingleTasks(c)
        BY <2>2 DEF task
      <4> QED
        BY <4>1, ResultAtTask
    <3> QED
      BY <3>1, <3>2
  <2>7. Written(c, n + 1) = Written(c, n) \union {task.destination}
    <3>1. 1 .. n + 1 = (1 .. n) \union {n + 1}
      BY <2>2
    <3> QED
      BY <2>2, <3>1 DEF Written
  <2>8. memory' = [ch \in Chain |->
          IF ch \in Written(c, n + 1) THEN result[ch] ELSE before[ch]]
    <3> HIDE DEF task, result
    <3> QED
      BY <2>1, <2>3, <2>4, <2>6, <2>7 DEF result
  <2>9. chain_index' \in 0 .. SingleIterations(c)
    BY <2>2, <2>3
  <2>10. memory' = [ch \in Chain |->
           IF ch \in Written(c, chain_index')
             THEN Calls!Result(before', SingleTasks(c))[ch]
             ELSE before'[ch]]
    BY <2>3, <2>8
  <2>11. call' = <<c>> /\ memory' = [ch \in Chain |-> memory'[ch]]
    BY <2>1, <2>3, <2>10
  <2> HIDE DEF n, task, result
  <2> QED
    BY <2>9, <2>10, <2>11 DEF LoopInv
<1>3. ASSUME LoopReturn PROVE LoopInv'
  BY <1>3 DEF LoopReturn, LoopInv
<1>4. CASE UNCHANGED loopVars
  <2>1. UNCHANGED <<memory, call, chain_index, before>>
    BY <1>4 DEF loopVars
  <2> QED
    BY <2>1 DEF LoopInv
<1> QED
  BY <1>1, <1>2, <1>3, <1>4 DEF LoopNext

(***************************************************************************)
(* When the loop of a method ends, the chains hold what its kernels give   *)
(* on the contents at entry, in whatever order they might have run.        *)
(***************************************************************************)
THEOREM LoopCorrect == LoopSpec => []LoopComputesBatch
<1>1. LoopInv => LoopComputesBatch
  <2> SUFFICES ASSUME LoopInv, call # <<>>,
                      chain_index = SingleIterations(call[1])
               PROVE  memory = Calls!Result(before, SingleTasks(call[1]))
    BY DEF LoopComputesBatch
  <2>1. PICK c \in MethodCall :
          /\ call = <<c>>
          /\ memory = [ch \in Chain |->
               IF ch \in Written(c, chain_index)
                 THEN Calls!Result(before, SingleTasks(c))[ch]
                 ELSE before[ch]]
    BY DEF LoopInv
  <2> DEFINE result == Calls!Result(before, SingleTasks(c))
  <2>2. chain_index = SingleIterations(c)
    BY <2>1
  <2>3. ASSUME NEW ch \in Chain, ch \notin Written(c, chain_index)
        PROVE  before[ch] = result[ch]
    <3>1. \A i \in DOMAIN SingleTasks(c) :
            SingleTasks(c)[i].destination # ch
      BY <2>2, <2>3, TaskFacts DEF Written
    <3> QED
      BY <3>1, ResultElsewhere
  <2>4. memory = [ch \in Chain |-> result[ch]]
    BY <2>1, <2>3
  <2>5. result = [ch \in Chain |-> result[ch]]
    BY DEF Calls!Result
  <2> QED
    BY <2>1, <2>4, <2>5
<1> QED
  BY <1>1, LoopInvInit, LoopInvNext, PTL DEF LoopSpec
=============================================================================

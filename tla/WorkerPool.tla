----------------------------- MODULE WorkerPool -----------------------------
(***************************************************************************)
(* The worker pool of the parallel processor: parallel/worker.cpp,         *)
(* parallel/task_balancer.cpp and the access pattern of the kernels in     *)
(* parallel/task.h.                                                        *)
(*                                                                         *)
(* One caller thread hands a batch of tasks to the pool (send_tasks),      *)
(* waits for it (wait), and finally destroys the pool.  Every worker is a  *)
(* thread of its own.  Caller and worker meet in two binary semaphores     *)
(* and in the vector tasks_, which neither side locks.                     *)
(*                                                                         *)
(* A kernel reads whole chains and writes one chain, element by element.   *)
(* It is split into a read and a write step, so that the accesses of two   *)
(* workers overlap here whenever they may overlap in the program.          *)
(***************************************************************************)
EXTENDS Naturals, Sequences, FiniteSets

CONSTANTS
    WorkerCount,     \* thread_count of the pool
    Chain,           \* the residue arrays that kernels read and write
    Kernel,          \* what a task computes (the subclasses of Task)
    Eval(_, _),      \* Eval(kernel, arguments): what the kernel writes
    InitialMemory,   \* contents of the chains when the pool is created
    Batch,           \* the batches the caller may send
    MaxCalls         \* bound on the number of batches sent

Worker == 0 .. WorkerCount - 1

Task == [kernel : Kernel, sources : Seq(Chain), destination : Chain]

Sources(task) == {task.sources[k] : k \in DOMAIN task.sources}

(***************************************************************************)
(* No task reads a chain that a task with another destination writes: the  *)
(* tasks of the batch may run in any order that keeps tasks with one       *)
(* destination in sequence.                                                *)
(***************************************************************************)
Independent(tasks) ==
    \A i, j \in DOMAIN tasks :
        tasks[j].destination \in Sources(tasks[i])
            => tasks[i].destination = tasks[j].destination

ASSUME WorkerCountAssumption == WorkerCount \in Nat \ {0}
ASSUME MaxCallsAssumption == MaxCalls \in Nat
ASSUME MemoryAssumption ==
    InitialMemory = [c \in Chain |-> InitialMemory[c]]
ASSUME BatchAssumption ==
    \A batch \in Batch : batch \in Seq(Task) /\ Independent(batch)

(***************************************************************************)
(* No task reads what an earlier one has written, so that each computes    *)
(* from the contents at entry.  The processors build batches with one task *)
(* for each destination, which may be among its own sources.               *)
(***************************************************************************)
ASSUME OrderAssumption ==
    \A tasks \in Batch : \A i, j \in DOMAIN tasks :
        tasks[j].destination \in Sources(tasks[i]) => i =< j

VARIABLES
    \* the caller thread
    pc,          \* where the caller is in send_tasks, wait or ~WorkerPool
    target,      \* the worker its loop has reached
    buckets,     \* worker_tasks: what send_tasks has still to assign
    assigned,    \* Worker::assigned_
    calls,       \* number of batches sent so far
    \* shared by the caller and the worker
    start,       \* Worker::semaphore_start_
    done,        \* Worker::semaphore_done_
    mailbox,     \* Worker::tasks_
    \* the worker threads
    wpc,         \* where the worker is in Worker::run
    queue,       \* its local vector tasks
    args,        \* what its current kernel has read
    \* the data
    memory,      \* contents of every chain
    \* history: the batch being executed and the memory it started from
    batch,
    before

callerVars == <<pc, target, buckets, assigned, calls>>
sharedVars == <<start, done, mailbox>>
workerVars == <<wpc, queue, args>>
historyVars == <<batch, before>>
vars == <<callerVars, sharedVars, workerVars, memory, historyVars>>

(***************************************************************************)
(* A vector of tasks: its entries, each with its position in the batch     *)
(* (vectors keep that order), and whether a StopTask ends it.              *)
(***************************************************************************)
Empty == [work |-> {}, stop |-> FALSE]

IsEmpty(v) == v.work = {} /\ ~v.stop

First(v) == CHOOSE e \in v.work : \A f \in v.work : e[1] =< f[1]

(***************************************************************************)
(* TaskBalancer::add gives a destination the number of destinations seen   *)
(* before it; send_tasks assigns the affinities to the workers in turn.    *)
(***************************************************************************)
FirstUse(tasks, d) ==
    CHOOSE i \in DOMAIN tasks :
        /\ tasks[i].destination = d
        /\ \A j \in 1 .. i - 1 : tasks[j].destination # d

Affinity(tasks, d) ==
    Cardinality({tasks[j].destination : j \in 1 .. FirstUse(tasks, d) - 1})

(* Variant: tasks dealt out by their position, not by destination. *)
BucketByPosition(tasks, w) ==
    {<<i, tasks[i]>> : i \in {j \in DOMAIN tasks : j % WorkerCount = w}}

Bucket(tasks, w) ==
    {<<i, tasks[i]>> : i \in {j \in DOMAIN tasks :
        Affinity(tasks, tasks[j].destination) % WorkerCount = w}}

(***************************************************************************)
(* Every worker starts blocked on its semaphore: no task, no token.        *)
(***************************************************************************)
Init ==
    /\ pc = "idle"
    /\ target = 0
    /\ buckets = [w \in Worker |-> {}]
    /\ assigned = [w \in Worker |-> FALSE]
    /\ calls = 0
    /\ start = [w \in Worker |-> 0]
    /\ done = [w \in Worker |-> 0]
    /\ mailbox = [w \in Worker |-> Empty]
    /\ wpc = [w \in Worker |-> "acquire"]
    /\ queue = [w \in Worker |-> Empty]
    /\ args = [w \in Worker |-> <<>>]
    /\ memory = InitialMemory
    /\ batch = <<>>
    /\ before = InitialMemory

-----------------------------------------------------------------------------
(***************************************************************************)
(* The caller.  Its loops over the workers advance through "target"; Goto  *)
(* leaves the loop for the program point "exit" after the last worker.     *)
(***************************************************************************)
(* Variant: one worker too many. *)
AdvancePastEnd(again, exit) ==
    IF target < WorkerCount
      THEN pc' = again /\ target' = target + 1
      ELSE pc' = exit /\ target' = 0

Advance(again, exit) ==
    IF target + 1 < WorkerCount
      THEN pc' = again /\ target' = target + 1
      ELSE pc' = exit /\ target' = 0

(* send_tasks: the caller-local part, up to the loop over the workers. *)
SendTasks(tasks) ==
    /\ pc = "idle"
    /\ calls < MaxCalls
    /\ calls' = calls + 1
    /\ buckets' = [w \in Worker |-> Bucket(tasks, w)]
    /\ batch' = tasks
    /\ before' = memory
    /\ pc' = "assign"
    /\ target' = 0
    /\ UNCHANGED <<assigned, sharedVars, workerVars, memory>>

(* Variant: assigned_ is set for a worker that got no task. *)
SkipWorkerAssigned ==
    /\ pc = "assign"
    /\ buckets[target] = {}
    /\ assigned' = [assigned EXCEPT ![target] = TRUE]
    /\ Advance("assign", "wait")
    /\ UNCHANGED <<buckets, calls, sharedVars, workerVars, memory,
                   historyVars>>

(* A worker without tasks is left alone: no token, assigned_ untouched. *)
SkipWorker ==
    /\ pc = "assign"
    /\ buckets[target] = {}
    /\ Advance("assign", "wait")
    /\ UNCHANGED <<buckets, assigned, calls, sharedVars, workerVars, memory,
                   historyVars>>

(* assign_tasks: std::swap(tasks_, tasks), not protected by any lock. *)
SwapTasks ==
    /\ pc = "assign"
    /\ buckets[target] # {}
    /\ mailbox' = [mailbox EXCEPT ![target] =
                     [work |-> buckets[target], stop |-> FALSE]]
    /\ buckets' = [buckets EXCEPT ![target] = mailbox[target].work]
    /\ pc' = "release"
    /\ UNCHANGED <<target, assigned, calls, start, done, workerVars, memory,
                   historyVars>>

(* assign_tasks: semaphore_start_.release(). *)
ReleaseStart ==
    /\ pc = "release"
    /\ start' = [start EXCEPT ![target] = @ + 1]
    /\ pc' = "mark"
    /\ UNCHANGED <<target, buckets, assigned, calls, done, mailbox,
                   workerVars, memory, historyVars>>

(* Variant: assigned_ is never set. *)
MarkNothing ==
    /\ pc = "mark"
    /\ Advance("assign", "wait")
    /\ UNCHANGED <<buckets, assigned, calls, sharedVars, workerVars, memory,
                   historyVars>>

(* assigned_ is set only after the worker may already be running. *)
MarkAssigned ==
    /\ pc = "mark"
    /\ assigned' = [assigned EXCEPT ![target] = TRUE]
    /\ Advance("assign", "wait")
    /\ UNCHANGED <<buckets, calls, sharedVars, workerVars, memory,
                   historyVars>>

(* Variant: the loop ends with the first worker it has waited for. *)
WaitForOne ==
    /\ pc = "wait"
    /\ \/ /\ assigned[target]
          /\ done[target] > 0
          /\ done' = [done EXCEPT ![target] = @ - 1]
          /\ assigned' = [assigned EXCEPT ![target] = FALSE]
          /\ pc' = "idle"
          /\ target' = 0
       \/ /\ ~assigned[target]
          /\ UNCHANGED <<done, assigned>>
          /\ Advance("wait", "idle")
    /\ UNCHANGED <<buckets, calls, start, mailbox, workerVars, memory,
                   historyVars>>

(* Variant: the flag is reset but the token stays. *)
WaitWithoutAcquire ==
    /\ pc = "wait"
    /\ assigned' = [assigned EXCEPT ![target] = FALSE]
    /\ Advance("wait", "idle")
    /\ UNCHANGED <<buckets, calls, sharedVars, workerVars, memory,
                   historyVars>>

(* wait: one worker; blocks until the worker has released its token. *)
Wait ==
    /\ pc = "wait"
    /\ \/ /\ assigned[target]
          /\ done[target] > 0
          /\ done' = [done EXCEPT ![target] = @ - 1]
          /\ assigned' = [assigned EXCEPT ![target] = FALSE]
       \/ /\ ~assigned[target]
          /\ UNCHANGED <<done, assigned>>
    /\ Advance("wait", "idle")
    /\ UNCHANGED <<buckets, calls, start, mailbox, workerVars, memory,
                   historyVars>>

(* ~WorkerPool: entered with no call in progress. *)
Destroy ==
    /\ pc = "idle"
    /\ pc' = "stop"
    /\ target' = 0
    /\ UNCHANGED <<buckets, assigned, calls, sharedVars, workerVars, memory,
                   historyVars>>

(* send_stop: tasks_.emplace_back(StopTask). *)
EmplaceStop ==
    /\ pc = "stop"
    /\ mailbox' = [mailbox EXCEPT ![target].stop = TRUE]
    /\ pc' = "releaseStop"
    /\ UNCHANGED <<target, buckets, assigned, calls, start, done, workerVars,
                   memory, historyVars>>

(* send_stop: semaphore_start_.release(), then the next worker. *)
ReleaseStop ==
    /\ pc = "releaseStop"
    /\ start' = [start EXCEPT ![target] = @ + 1]
    /\ Advance("stop", "join")
    /\ UNCHANGED <<buckets, assigned, calls, done, mailbox, workerVars,
                   memory, historyVars>>

(* ~WorkerPool: thread_.join() of one worker after the other. *)
Join ==
    /\ pc = "join"
    /\ wpc[target] = "exited"
    /\ Advance("join", "destroyed")
    /\ UNCHANGED <<buckets, assigned, calls, sharedVars, workerVars, memory,
                   historyVars>>

CallerStep ==
    \/ SkipWorker \/ SwapTasks \/ ReleaseStart \/ MarkAssigned \/ Wait
    \/ EmplaceStop \/ ReleaseStop \/ Join

-----------------------------------------------------------------------------
(***************************************************************************)
(* The worker threads: one iteration of Worker::run.                       *)
(***************************************************************************)
AcquireStart(w) ==
    /\ wpc[w] = "acquire"
    /\ start[w] > 0
    /\ start' = [start EXCEPT ![w] = @ - 1]
    /\ wpc' = [wpc EXCEPT ![w] = "take"]
    /\ UNCHANGED <<callerVars, done, mailbox, queue, args, memory,
                   historyVars>>

(* Variant: the vector is copied, tasks_ keeps its tasks. *)
CopyTasks(w) ==
    /\ wpc[w] = "take"
    /\ queue' = [queue EXCEPT ![w] = mailbox[w]]
    /\ wpc' = [wpc EXCEPT ![w] = "process"]
    /\ UNCHANGED <<callerVars, sharedVars, args, memory, historyVars>>

(* tasks = std::move(tasks_), not protected by any lock. *)
TakeTasks(w) ==
    /\ wpc[w] = "take"
    /\ queue' = [queue EXCEPT ![w] = mailbox[w]]
    /\ mailbox' = [mailbox EXCEPT ![w] = Empty]
    /\ wpc' = [wpc EXCEPT ![w] = "process"]
    /\ UNCHANGED <<callerVars, start, done, args, memory, historyVars>>

(* task->process(): the kernel reads its source chains ... *)
ReadSources(w) ==
    /\ wpc[w] = "process"
    /\ queue[w].work # {}
    /\ LET task == First(queue[w])[2]
       IN  args' = [args EXCEPT ![w] =
             [k \in DOMAIN task.sources |-> memory[task.sources[k]]]]
    /\ wpc' = [wpc EXCEPT ![w] = "compute"]
    /\ UNCHANGED <<callerVars, sharedVars, queue, memory, historyVars>>

(* ... and writes its destination chain. *)
WriteDestination(w) ==
    /\ wpc[w] = "compute"
    /\ LET entry == First(queue[w])
       IN  /\ memory' = [memory EXCEPT ![entry[2].destination] =
                           Eval(entry[2].kernel, args[w])]
           /\ queue' = [queue EXCEPT ![w].work = @ \ {entry}]
    /\ args' = [args EXCEPT ![w] = <<>>]
    /\ wpc' = [wpc EXCEPT ![w] = "process"]
    /\ UNCHANGED <<callerVars, sharedVars, historyVars>>

(* Variant: the loop may end before the last task. *)
ReleaseDoneEarly(w) ==
    /\ wpc[w] = "process"
    /\ done' = [done EXCEPT ![w] = @ + 1]
    /\ wpc' = [wpc EXCEPT ![w] = "clear"]
    /\ UNCHANGED <<callerVars, start, mailbox, queue, args, memory,
                   historyVars>>

(* The loop over the tasks ends; a StopTask has made process() false. *)
ReleaseDone(w) ==
    /\ wpc[w] = "process"
    /\ queue[w].work = {}
    /\ done' = [done EXCEPT ![w] = @ + 1]
    /\ wpc' = [wpc EXCEPT ![w] = "clear"]
    /\ UNCHANGED <<callerVars, start, mailbox, queue, args, memory,
                   historyVars>>

(* tasks.clear(), then the next iteration, or the end of the thread. *)
ClearTasks(w) ==
    /\ wpc[w] = "clear"
    /\ queue' = [queue EXCEPT ![w] = Empty]
    /\ wpc' = [wpc EXCEPT ![w] = IF queue[w].stop THEN "exited" ELSE "acquire"]
    /\ UNCHANGED <<callerVars, sharedVars, args, memory, historyVars>>

WorkerStep(w) ==
    \/ AcquireStart(w) \/ TakeTasks(w) \/ ReadSources(w)
    \/ WriteDestination(w) \/ ReleaseDone(w) \/ ClearTasks(w)

-----------------------------------------------------------------------------
(* The pool is gone; nothing is left to do. *)
Destroyed == pc = "destroyed" /\ UNCHANGED vars

Next ==
    \/ \E tasks \in Batch : SendTasks(tasks)
    \/ Destroy
    \/ CallerStep
    \/ \E w \in Worker : WorkerStep(w)
    \/ Destroyed

(***************************************************************************)
(* The operating system schedules every runnable thread eventually: a      *)
(* worker that can step does, and so does a caller inside a call.  Whether *)
(* the caller makes another call, or destroys the pool, is up to it.       *)
(***************************************************************************)
Fairness ==
    /\ WF_vars(CallerStep)
    /\ \A w \in Worker : WF_vars(WorkerStep(w))

Spec == Init /\ [][Next]_vars /\ Fairness

-----------------------------------------------------------------------------
(* The kinds of value the variables hold. *)
TypeOK ==
    /\ pc \in {"idle", "assign", "release", "mark", "wait", "stop",
               "releaseStop", "join", "destroyed"}
    /\ target \in Worker
    /\ buckets \in [Worker -> SUBSET (Nat \X Task)]
    /\ assigned \in [Worker -> BOOLEAN]
    /\ calls \in 0 .. MaxCalls
    /\ start \in [Worker -> Nat]
    /\ done \in [Worker -> Nat]
    /\ mailbox \in [Worker -> [work : SUBSET (Nat \X Task), stop : BOOLEAN]]
    /\ wpc \in [Worker -> {"acquire", "take", "process", "compute", "clear",
                           "exited"}]
    /\ queue \in [Worker -> [work : SUBSET (Nat \X Task), stop : BOOLEAN]]
    /\ DOMAIN memory = Chain
    /\ batch \in Batch \union {<<>>}

(***************************************************************************)
(* Releasing a std::binary_semaphore that already holds its only token is  *)
(* undefined: neither semaphore of a worker may ever hold two.             *)
(***************************************************************************)
SemaphoresBinary ==
    \A w \in Worker : start[w] =< 1 /\ done[w] =< 1

(***************************************************************************)
(* tasks_ has no lock: the semaphores alone must keep the caller's swap    *)
(* or emplace_back and the worker's move of it apart.                      *)
(***************************************************************************)
CallerTouchesTasks(w) ==
    /\ target = w
    /\ \/ pc = "assign" /\ buckets[w] # {}
       \/ pc = "stop"

MailboxExclusive ==
    \A w \in Worker : ~(CallerTouchesTasks(w) /\ wpc[w] = "take")

(***************************************************************************)
(* No data race on the chains: while a kernel runs, no other worker writes *)
(* a chain that it reads or writes.                                        *)
(***************************************************************************)
Running(w) == First(queue[w])[2]

NoDataRace ==
    \A v, w \in Worker :
        (v # w /\ wpc[v] = "compute" /\ wpc[w] = "compute") =>
            Running(v).destination \notin
                Sources(Running(w)) \union {Running(w).destination}

(* The caller is outside send_tasks and wait. *)
Between == pc \in {"idle", "stop", "releaseStop", "join", "destroyed"}

(***************************************************************************)
(* Once wait has returned, nothing of the batch is left anywhere: no       *)
(* worker is about to touch a chain that the caller now uses or frees.     *)
(***************************************************************************)
QuiescentBetweenCalls ==
    Between =>
        \A w \in Worker :
            /\ wpc[w] # "compute"
            /\ queue[w].work = {}
            /\ mailbox[w].work = {}

(***************************************************************************)
(* Tasks with one destination run in the order of the batch: a task starts *)
(* only when every earlier task with its destination has finished.         *)
(***************************************************************************)
Pending == UNION {buckets[w] \union mailbox[w].work \union queue[w].work :
                    w \in Worker}

SameDestinationInOrder ==
    \A w \in Worker : wpc[w] = "compute" =>
        \A e \in Pending :
            e[2].destination = Running(w).destination
                => First(queue[w])[1] =< e[1]

(***************************************************************************)
(* A call of the pool, or its destructor, returns.                         *)
(***************************************************************************)
CallsReturn == pc \notin {"idle", "destroyed"} ~> pc \in {"idle", "destroyed"}

(* The memory as the caller sees it, and the call being executed. *)
Calls == INSTANCE KernelCalls WITH
    memory <- IF Between THEN memory ELSE before,
    pending <- IF Between THEN <<>> ELSE <<batch>>

(***************************************************************************)
(* Seen from its caller the pool executes each batch as one atomic call,   *)
(* and every call returns: however the workers interleave, the chains end  *)
(* up with what the kernels compute from the contents they had when        *)
(* send_tasks was entered.                                                 *)
(***************************************************************************)
ImplementsKernelCalls == Calls!Spec

-----------------------------------------------------------------------------
(***************************************************************************)
(* The inductive invariant behind the safety properties.  A worker holds   *)
(* exactly one token while the caller counts on it: in its start           *)
(* semaphore, in its own hands, or in its done semaphore.                  *)
(***************************************************************************)
Busy(w) == wpc[w] \in {"take", "process", "compute"}

Sent(w) == assigned[w] \/ (pc = "mark" /\ target = w)

StopSent(w) ==
    \/ pc \in {"join", "destroyed"}
    \/ pc \in {"stop", "releaseStop"} /\ w < target

Token(w) ==
    \/ start[w] = 1 /\ done[w] = 0 /\ wpc[w] \in {"acquire", "clear"}
    \/ start[w] = 0 /\ done[w] = 0 /\ Busy(w)
    \/ start[w] = 0 /\ done[w] = 1 /\ wpc[w] \in
          (IF StopSent(w) THEN {"clear", "exited"} ELSE {"acquire", "clear"})

TokenInv ==
    \A w \in Worker :
        IF Sent(w) \/ StopSent(w)
          THEN Token(w)
          ELSE start[w] = 0 /\ done[w] = 0 /\ wpc[w] \in {"acquire", "clear"}

(* Which flags the caller has set, by where it is in its loops. *)
AssignedInv ==
    \A w \in Worker : assigned[w] =>
        \/ pc \in {"assign", "release", "mark"} /\ w < target
        \/ pc = "wait" /\ target =< w

(* Tasks are in tasks_ only while the token is on its way to the worker... *)
MailboxInv ==
    \A w \in Worker :
        /\ mailbox[w].work # {} =>
             \/ pc = "release" /\ target = w
             \/ Sent(w) /\ (start[w] = 1 \/ wpc[w] = "take")
        /\ mailbox[w].stop =>
             \/ pc = "releaseStop" /\ target = w
             \/ StopSent(w)
        /\ pc = "releaseStop" /\ target = w => mailbox[w].stop
        /\ StopSent(w) /\ (start[w] = 1 \/ wpc[w] = "take")
             => mailbox[w].stop

(* ... and in its local vector only while the worker holds it. *)
QueueInv ==
    \A w \in Worker :
        /\ queue[w].work # {} => Sent(w) /\ wpc[w] \in {"process", "compute"}
        /\ wpc[w] = "compute" => queue[w].work # {}
        /\ queue[w].stop => StopSent(w) /\ start[w] = 0
        /\ StopSent(w) /\ start[w] = 0 /\ (Busy(w) \/ wpc[w] = "clear")
             => queue[w].stop \/ wpc[w] = "take"

(* Every task is an entry of the batch, with the worker of its affinity. *)
EntryInv ==
    \A w \in Worker :
        buckets[w] \union mailbox[w].work \union queue[w].work
            \subseteq Bucket(batch, w)

(* The caller holds back only the tasks of workers it has yet to reach. *)
BucketsInv ==
    \A w \in Worker : buckets[w] # {} =>
        \/ pc = "assign" /\ target =< w
        \/ pc \in {"release", "mark"} /\ target < w

HandoffInv ==
    TokenInv /\ AssignedInv /\ MailboxInv /\ QueueInv /\ EntryInv

(***************************************************************************)
(* The inductive invariant behind the refinement: during a call, a chain   *)
(* holds what it held at entry until the first task that writes it is      *)
(* done, and then the result of the last such task that is done.           *)
(***************************************************************************)
Unfinished(i) == <<i, batch[i]>> \in Pending

AtEntry(task) == [k \in DOMAIN task.sources |-> before[task.sources[k]]]

HoldsEntry(c) ==
    /\ \A j \in DOMAIN batch : batch[j].destination = c => Unfinished(j)
    /\ memory[c] = before[c]

HoldsResult(c, i) ==
    /\ batch[i].destination = c
    /\ \A j \in DOMAIN batch : batch[j].destination = c => (Unfinished(j) <=> i < j)
    /\ memory[c] = Eval(batch[i].kernel, AtEntry(batch[i]))

MemoryInv ==
    /\ memory = [c \in Chain |-> memory[c]]
    /\ ~Between => \A c \in Chain :
         HoldsEntry(c) \/ \E i \in DOMAIN batch : HoldsResult(c, i)

(* A kernel that runs has read the contents at entry. *)
ArgsInv ==
    /\ DOMAIN args = Worker
    /\ \A w \in Worker : wpc[w] = "compute" => args[w] = AtEntry(Running(w))
=============================================================================

-------------------------- MODULE WorkerPoolProofs --------------------------
(***************************************************************************)
(* Safety of the worker pool for every number of workers, every set of     *)
(* batches and every bound on the calls.                                   *)
(***************************************************************************)
EXTENDS WorkerPool, FiniteSetTheorems, WellFoundedInduction, TLAPS

(***************************************************************************)
(* Every nonempty set of natural numbers has a least element.              *)
(***************************************************************************)
LEMMA LeastNatural ==
    ASSUME NEW S \in SUBSET Nat, S # {}
    PROVE  \E m \in S : \A k \in S : m =< k
<1> DEFINE R == {ss \in Nat \X Nat : ss[1] < ss[2]}
<1>1. IsWellFoundedOn(R, Nat)
  BY NatLessThanWellFounded DEF OpToRel
<1> HIDE DEF R
<1>2. \E x \in S : \A y \in S : ~(<<y, x>> \in R)
  BY <1>1, WFMin
<1>3. PICK x \in S : \A y \in S : ~(<<y, x>> \in R)
  BY <1>2
<1>4. ASSUME NEW y \in S
      PROVE  x =< y
  <2>1. ~(y < x)
    BY <1>3 DEF R
  <2> QED
    BY <2>1
<1> QED
  BY <1>4

(***************************************************************************)
(* The worker's next task is one of its tasks, and no later than any other *)
(* of them: what iterating over the vector of Worker::run relies on.       *)
(***************************************************************************)
LEMMA FirstIsLeast ==
    ASSUME NEW v, v.work \in SUBSET (Nat \X Task), v.work # {}
    PROVE  /\ First(v) \in v.work
           /\ \A f \in v.work : First(v)[1] =< f[1]
<1> DEFINE S == {e[1] : e \in v.work}
<1>1. S \in SUBSET Nat /\ S # {}
  OBVIOUS
<1>2. PICK m \in S : \A k \in S : m =< k
  BY <1>1, LeastNatural
<1>3. PICK e \in v.work : e[1] = m
  BY <1>2
<1>4. \A f \in v.work : e[1] =< f[1]
  BY <1>2, <1>3
<1> QED
  BY <1>4 DEF First

(* Workers are the integers of an interval; the loops stay inside it. *)
LEMMA WorkerFacts ==
    /\ Worker \subseteq Nat
    /\ 0 \in Worker
    /\ \A w \in Worker : w + 1 < WorkerCount => w + 1 \in Worker
    /\ \A w \in Worker : w < WorkerCount
BY WorkerCountAssumption DEF Worker

LEMMA BucketType ==
    ASSUME NEW tasks \in Batch \union {<<>>}, NEW w \in Worker
    PROVE  Bucket(tasks, w) \in SUBSET (Nat \X Task)
<1>1. tasks \in Seq(Task)
  <2>1. <<>> \in Seq(Task)
    OBVIOUS
  <2> QED
    BY <2>1, BatchAssumption
<1> QED
  BY <1>1 DEF Bucket

(* A StopTask, or the removal of an entry, keeps a vector of tasks one. *)
LEMMA StopVectors ==
    ASSUME NEW S, NEW I,
           NEW f \in [I -> [work : SUBSET S, stop : BOOLEAN]], NEW i \in I
    PROVE  [f EXCEPT ![i].stop = TRUE]
               \in [I -> [work : SUBSET S, stop : BOOLEAN]]
OBVIOUS

LEMMA ShorterVectors ==
    ASSUME NEW S, NEW I, NEW e,
           NEW f \in [I -> [work : SUBSET S, stop : BOOLEAN]], NEW i \in I
    PROVE  [f EXCEPT ![i].work = @ \ {e}]
               \in [I -> [work : SUBSET S, stop : BOOLEAN]]
OBVIOUS

-----------------------------------------------------------------------------
(* The program state has the types of the source, whatever the pool does. *)
LEMMA TypeInit == Init => TypeOK
<1> SUFFICES ASSUME Init PROVE TypeOK
  OBVIOUS
<1>1. DOMAIN InitialMemory = Chain
  BY MemoryAssumption
<1>2. Empty \in [work : SUBSET (Nat \X Task), stop : BOOLEAN]
  BY DEF Empty
<1> QED
  BY <1>1, <1>2, WorkerFacts, MaxCallsAssumption, Z3 DEF Init, TypeOK

LEMMA TypeNext == TypeOK /\ [Next]_vars => TypeOK'
<1> SUFFICES ASSUME TypeOK, [Next]_vars PROVE TypeOK'
  OBVIOUS
<1> USE DEF TypeOK, callerVars, sharedVars, workerVars, historyVars
<1> USE WorkerFacts, MaxCallsAssumption
<1>1. ASSUME NEW tasks \in Batch, SendTasks(tasks)
      PROVE  TypeOK'
  <2>1. \A w \in Worker : Bucket(tasks, w) \in SUBSET (Nat \X Task)
    BY BucketType
  <2> QED
    BY <1>1, <2>1 DEF SendTasks
<1>2. CASE SkipWorker
  BY <1>2, SMTT(60) DEF SkipWorker, Advance
<1>3. CASE SwapTasks
  BY <1>3, SMTT(60) DEF SwapTasks
<1>4. CASE ReleaseStart
  BY <1>4, SMTT(60) DEF ReleaseStart
<1>5. CASE MarkAssigned
  BY <1>5, SMTT(60) DEF MarkAssigned, Advance
<1>6. CASE Wait
  <2>1. pc' \in {"wait", "idle"} /\ target' \in Worker
    BY <1>6, SMTT(60) DEF Wait, Advance
  <2>2. CASE assigned[target]
    <3>1. done' = [done EXCEPT ![target] = done[target] - 1]
          /\ done[target] > 0
      BY <1>6, <2>2 DEF Wait
    <3>2. done' \in [Worker -> Nat]
      BY <3>1
    <3>3. assigned' \in [Worker -> BOOLEAN]
      BY <1>6, <2>2 DEF Wait
    <3> QED
      BY <1>6, <2>1, <3>2, <3>3 DEF Wait
  <2>3. CASE ~assigned[target]
    BY <1>6, <2>1, <2>3 DEF Wait
  <2> QED
    BY <2>2, <2>3
<1>7. CASE Destroy
  BY <1>7, SMTT(60) DEF Destroy
<1>8. CASE EmplaceStop
  <2>1. mailbox' \in [Worker -> [work : SUBSET (Nat \X Task), stop : BOOLEAN]]
    <3>1. mailbox' = [mailbox EXCEPT ![target].stop = TRUE]
      BY <1>8, Zenon DEF EmplaceStop
    <3>2. [mailbox EXCEPT ![target].stop = TRUE]
             \in [Worker -> [work : SUBSET (Nat \X Task), stop : BOOLEAN]]
      BY StopVectors, Zenon
    <3> QED
      BY <3>1, <3>2, Zenon
  <2>2. pc' = "releaseStop"
        /\ UNCHANGED <<target, buckets, assigned, calls, start, done,
                       workerVars, memory, historyVars>>
    BY <1>8, Zenon DEF EmplaceStop
  <2> QED
    BY <2>1, <2>2, SMTT(60)
<1>9. CASE ReleaseStop
  BY <1>9, SMTT(60) DEF ReleaseStop, Advance
<1>10. CASE Join
  BY <1>10, SMTT(60) DEF Join, Advance
<1>11. ASSUME NEW w \in Worker, AcquireStart(w)
       PROVE  TypeOK'
  BY <1>11, SMTT(60) DEF AcquireStart
<1>12. ASSUME NEW w \in Worker, TakeTasks(w)
       PROVE  TypeOK'
  BY <1>12, SMTT(60) DEF TakeTasks, Empty
<1>13. ASSUME NEW w \in Worker, ReadSources(w)
       PROVE  TypeOK'
  BY <1>13, SMTT(60) DEF ReadSources
<1>14. ASSUME NEW w \in Worker, WriteDestination(w)
       PROVE  TypeOK'
  <2>1. queue' \in [Worker -> [work : SUBSET (Nat \X Task), stop : BOOLEAN]]
    BY <1>14, ShorterVectors DEF WriteDestination
  <2>2. wpc' \in [Worker -> {"acquire", "take", "process", "compute", "clear",
                            "exited"}]
    BY <1>14, SMTT(60) DEF WriteDestination
  <2>3. DOMAIN memory' = Chain
    BY <1>14 DEF WriteDestination
  <2> QED
    BY <1>14, <2>1, <2>2, <2>3, SMTT(60) DEF WriteDestination
<1>15. ASSUME NEW w \in Worker, ReleaseDone(w)
       PROVE  TypeOK'
  BY <1>15, SMTT(60) DEF ReleaseDone
<1>16. ASSUME NEW w \in Worker, ClearTasks(w)
       PROVE  TypeOK'
  BY <1>16, SMTT(60) DEF ClearTasks, Empty
<1>17. CASE UNCHANGED vars
  BY <1>17, SMTT(60) DEF vars
<1> QED
  BY <1>1, <1>2, <1>3, <1>4, <1>5, <1>6, <1>7, <1>8, <1>9, <1>10, <1>11,
     <1>12, <1>13, <1>14, <1>15, <1>16, <1>17
  DEF Next, CallerStep, WorkerStep, Destroyed

(***************************************************************************)
(* Type correctness: in particular the caller's loop index never leaves    *)
(* the range of the workers.                                               *)
(***************************************************************************)
THEOREM TypeCorrect == Spec => []TypeOK
BY TypeInit, TypeNext, PTL DEF Spec

-----------------------------------------------------------------------------
LEMMA HandoffInit == Init => HandoffInv
<1> SUFFICES ASSUME Init PROVE HandoffInv
  OBVIOUS
<1> USE WorkerFacts DEF Init
<1>1. TokenInv
  BY DEF TokenInv, Sent, StopSent
<1>2. AssignedInv
  BY DEF AssignedInv
<1>3. MailboxInv
  BY DEF MailboxInv, Empty, StopSent
<1>4. QueueInv
  BY DEF QueueInv, Empty, StopSent
<1>5. EntryInv
  BY DEF EntryInv, Empty
<1> QED
  BY <1>1, <1>2, <1>3, <1>4, <1>5 DEF HandoffInv

LEMMA HandoffNext == TypeOK /\ HandoffInv /\ [Next]_vars => HandoffInv'
<1> SUFFICES ASSUME TypeOK, HandoffInv, [Next]_vars PROVE HandoffInv'
  OBVIOUS
<1> USE WorkerFacts
<1> USE DEF HandoffInv, TypeOK, callerVars, sharedVars, workerVars,
            historyVars
<1>1. ASSUME NEW tasks \in Batch, SendTasks(tasks)
      PROVE  HandoffInv'
  <2>1. TokenInv'
    BY <1>1 DEF SendTasks, TokenInv, Token, Busy, Sent, StopSent, AssignedInv
  <2>2. AssignedInv'
    BY <1>1 DEF SendTasks, AssignedInv
  <2>3. MailboxInv'
    BY <1>1 DEF SendTasks, MailboxInv, TokenInv, Token, Busy, Sent, StopSent, AssignedInv
  <2>4. QueueInv'
    BY <1>1, SMTT(60) DEF SendTasks, QueueInv, TokenInv, Token, Busy, Sent, StopSent, AssignedInv, MailboxInv
  <2>5. EntryInv'
    <3>1. \A w \in Worker : mailbox[w].work = {} /\ queue[w].work = {}
      BY <1>1, SMTT(60) DEF SendTasks, TokenInv, Token, Sent, StopSent, AssignedInv,
                  MailboxInv, QueueInv
    <3> QED
      BY <1>1, <3>1 DEF SendTasks, EntryInv
  <2> QED
    BY <2>1, <2>2, <2>3, <2>4, <2>5
<1>2. CASE SkipWorker
  <2>1. TokenInv'
    BY <1>2, SMTT(60) DEF SkipWorker, Advance, TokenInv, Token, Busy, Sent, StopSent, AssignedInv
  <2>2. AssignedInv'
    BY <1>2 DEF SkipWorker, Advance, AssignedInv
  <2>3. MailboxInv'
    BY <1>2, SMTT(60) DEF SkipWorker, Advance, MailboxInv, TokenInv, Token, Busy, Sent, StopSent, AssignedInv
  <2>4. QueueInv'
    BY <1>2, SMTT(60) DEF SkipWorker, Advance, QueueInv, TokenInv, Token, Busy, Sent, StopSent, AssignedInv, MailboxInv
  <2>5. EntryInv'
    BY <1>2 DEF SkipWorker, Advance, EntryInv
  <2> QED
    BY <2>1, <2>2, <2>3, <2>4, <2>5
<1>3. CASE SwapTasks
  <2>1. TokenInv'
    BY <1>3, SMTT(60) DEF SwapTasks, TokenInv, Token, Busy, Sent, StopSent, AssignedInv
  <2>2. AssignedInv'
    BY <1>3 DEF SwapTasks, AssignedInv
  <2>3. MailboxInv'
    BY <1>3, SMTT(60) DEF SwapTasks, MailboxInv, TokenInv, Token, Busy, Sent, StopSent, AssignedInv
  <2>4. QueueInv'
    BY <1>3, SMTT(60) DEF SwapTasks, QueueInv, TokenInv, Token, Busy, Sent, StopSent, AssignedInv, MailboxInv
  <2>5. EntryInv'
    BY <1>3 DEF SwapTasks, EntryInv
  <2> QED
    BY <2>1, <2>2, <2>3, <2>4, <2>5
<1>4. CASE ReleaseStart
  <2>1. TokenInv'
    BY <1>4, SMTT(60) DEF ReleaseStart, TokenInv, Token, Busy, Sent, StopSent, AssignedInv
  <2>2. AssignedInv'
    BY <1>4 DEF ReleaseStart, AssignedInv
  <2>3. MailboxInv'
    BY <1>4, SMTT(60) DEF ReleaseStart, MailboxInv, TokenInv, Token, Busy, Sent, StopSent, AssignedInv
  <2>4. QueueInv'
    BY <1>4, SMTT(60) DEF ReleaseStart, QueueInv, TokenInv, Token, Busy, Sent, StopSent, AssignedInv, MailboxInv
  <2>5. EntryInv'
    BY <1>4 DEF ReleaseStart, EntryInv
  <2> QED
    BY <2>1, <2>2, <2>3, <2>4, <2>5
<1>5. CASE MarkAssigned
  <2>1. TokenInv'
    BY <1>5, SMTT(60) DEF MarkAssigned, Advance, TokenInv, Token, Busy, Sent, StopSent, AssignedInv
  <2>2. AssignedInv'
    BY <1>5 DEF MarkAssigned, Advance, AssignedInv
  <2>3. MailboxInv'
    BY <1>5, SMTT(60) DEF MarkAssigned, Advance, MailboxInv, TokenInv, Token, Busy, Sent, StopSent, AssignedInv
  <2>4. QueueInv'
    BY <1>5, SMTT(60) DEF MarkAssigned, Advance, QueueInv, TokenInv, Token, Busy, Sent, StopSent, AssignedInv, MailboxInv
  <2>5. EntryInv'
    BY <1>5 DEF MarkAssigned, Advance, EntryInv
  <2> QED
    BY <2>1, <2>2, <2>3, <2>4, <2>5
<1>6. CASE Wait
  <2>1. TokenInv'
    BY <1>6, SMTT(60) DEF Wait, Advance, TokenInv, Token, Busy, Sent, StopSent, AssignedInv
  <2>2. AssignedInv'
    <3> SUFFICES ASSUME NEW w \in Worker, assigned'[w]
                 PROVE  pc' = "wait" /\ target' =< w
      BY DEF AssignedInv
    <3>1. assigned[w] /\ w # target /\ target =< w
      <4>1. CASE assigned[target]
        BY <1>6, <4>1 DEF Wait, AssignedInv
      <4>2. CASE ~assigned[target]
        BY <1>6, <4>2 DEF Wait, AssignedInv
      <4> QED
        BY <4>1, <4>2
    <3>2. target + 1 =< w
      BY <3>1
    <3> QED
      BY <1>6, <3>2, WorkerCountAssumption DEF Wait, Advance
  <2>3. MailboxInv'
    BY <1>6, SMTT(60) DEF Wait, Advance, MailboxInv, TokenInv, Token, Busy, Sent, StopSent, AssignedInv
  <2>4. QueueInv'
    <3>1. \A w \in Worker : ~StopSent(w) /\ ~StopSent(w)'
      BY <1>6, SMTT(60) DEF Wait, Advance, StopSent
    <3>2. \A w \in Worker : queue[w].work # {} => Sent(w) /\ Sent(w)'
      <4>1. CASE assigned[target]
        <5>1. queue[target].work = {}
          BY <1>6, <3>1, <4>1 DEF Wait, QueueInv, TokenInv, Token, Busy, Sent
        <5> QED
          BY <1>6, <4>1, <5>1 DEF Wait, QueueInv, Sent
      <4>2. CASE ~assigned[target]
        BY <1>6, <4>2 DEF Wait, QueueInv, Sent
      <4> QED
        BY <4>1, <4>2
    <3> QED
      BY <1>6, <3>1, <3>2 DEF Wait, QueueInv
  <2>5. EntryInv'
    BY <1>6 DEF Wait, Advance, EntryInv
  <2> QED
    BY <2>1, <2>2, <2>3, <2>4, <2>5
<1>7. CASE Destroy
  <2>1. TokenInv'
    BY <1>7, SMTT(60) DEF Destroy, TokenInv, Token, Busy, Sent, StopSent, AssignedInv
  <2>2. AssignedInv'
    BY <1>7 DEF Destroy, AssignedInv
  <2>3. MailboxInv'
    BY <1>7, SMTT(60) DEF Destroy, MailboxInv, TokenInv, Token, Busy, Sent, StopSent, AssignedInv
  <2>4. QueueInv'
    BY <1>7, SMTT(60) DEF Destroy, QueueInv, TokenInv, Token, Busy, Sent, StopSent, AssignedInv, MailboxInv
  <2>5. EntryInv'
    BY <1>7 DEF Destroy, EntryInv
  <2> QED
    BY <2>1, <2>2, <2>3, <2>4, <2>5
<1>8. CASE EmplaceStop
  <2>1. TokenInv'
    BY <1>8, SMTT(60) DEF EmplaceStop, TokenInv, Token, Busy, Sent, StopSent, AssignedInv
  <2>2. AssignedInv'
    BY <1>8 DEF EmplaceStop, AssignedInv
  <2>3. MailboxInv'
    BY <1>8, SMTT(60) DEF EmplaceStop, MailboxInv, TokenInv, Token, Busy, Sent, StopSent, AssignedInv
  <2>4. QueueInv'
    BY <1>8, SMTT(60) DEF EmplaceStop, QueueInv, TokenInv, Token, Busy, Sent, StopSent, AssignedInv, MailboxInv
  <2>5. EntryInv'
    BY <1>8 DEF EmplaceStop, EntryInv
  <2> QED
    BY <2>1, <2>2, <2>3, <2>4, <2>5
<1>9. CASE ReleaseStop
  <2>1. \A w \in Worker : StopSent(w)' <=> (StopSent(w) \/ w = target)
    <3>1. CASE target + 1 < WorkerCount
      <4>1. pc' = "stop" /\ target' = target + 1
        BY <1>9, <3>1 DEF ReleaseStop, Advance
      <4>2. \A w \in Worker : w < target + 1 <=> (w < target \/ w = target)
        OBVIOUS
      <4> QED
        BY <1>9, <4>1, <4>2, SMTT(60) DEF ReleaseStop, StopSent
    <3>2. CASE ~(target + 1 < WorkerCount)
      <4>1. pc' = "join"
        BY <1>9, <3>2 DEF ReleaseStop, Advance
      <4>2. \A w \in Worker : w < target \/ w = target
        BY <3>2, WorkerCountAssumption
      <4> QED
        BY <1>9, <4>1, <4>2, SMTT(60) DEF ReleaseStop, StopSent
    <3> QED
      BY <3>1, <3>2
  <2>2. \A w \in Worker : ~Sent(w) /\ ~Sent(w)'
    BY <1>9 DEF ReleaseStop, Advance, Sent, AssignedInv
  <2>3. ~StopSent(target) /\ mailbox[target].stop
    BY <1>9, SMTT(60) DEF ReleaseStop, StopSent, MailboxInv
  <2>4. TokenInv'
    BY <1>9, <2>1, <2>2, <2>3 DEF ReleaseStop, TokenInv, Token, Busy
  <2>5. AssignedInv'
    BY <1>9 DEF ReleaseStop, Advance, AssignedInv
  <2>6. MailboxInv'
    BY <1>9, <2>1, <2>2, <2>3 DEF ReleaseStop, Advance, MailboxInv
  <2>7. QueueInv'
    <3>1. wpc[target] \in {"acquire", "clear"} /\ start[target] = 0
      BY <1>9, <2>2, <2>3 DEF ReleaseStop, TokenInv
    <3>2. start'[target] = 1 /\ \A w \in Worker \ {target} : start'[w] = start[w]
      BY <1>9, <3>1 DEF ReleaseStop
    <3>3. ~queue[target].stop /\ queue' = queue /\ wpc' = wpc
      BY <1>9, <2>3 DEF ReleaseStop, QueueInv
    <3> QED
      BY <2>1, <2>2, <3>1, <3>2, <3>3 DEF QueueInv, Busy
  <2>8. EntryInv'
    BY <1>9 DEF ReleaseStop, EntryInv
  <2> QED
    BY <2>4, <2>5, <2>6, <2>7, <2>8
<1>10. CASE Join
  <2>1. TokenInv'
    BY <1>10, SMTT(60) DEF Join, Advance, TokenInv, Token, Busy, Sent, StopSent, AssignedInv
  <2>2. AssignedInv'
    BY <1>10 DEF Join, Advance, AssignedInv
  <2>3. MailboxInv'
    BY <1>10, SMTT(60) DEF Join, Advance, MailboxInv, TokenInv, Token, Busy, Sent, StopSent, AssignedInv
  <2>4. QueueInv'
    BY <1>10, SMTT(60) DEF Join, Advance, QueueInv, TokenInv, Token, Busy, Sent, StopSent, AssignedInv, MailboxInv
  <2>5. EntryInv'
    BY <1>10 DEF Join, Advance, EntryInv
  <2> QED
    BY <2>1, <2>2, <2>3, <2>4, <2>5
<1>11. ASSUME NEW w \in Worker, AcquireStart(w)
      PROVE  HandoffInv'
  <2>1. TokenInv'
    BY <1>11, SMTT(60) DEF AcquireStart, TokenInv, Token, Busy, Sent, StopSent, AssignedInv
  <2>2. AssignedInv'
    BY <1>11 DEF AcquireStart, AssignedInv
  <2>3. MailboxInv'
    BY <1>11, SMTT(60) DEF AcquireStart, MailboxInv, TokenInv, Token, Busy, Sent, StopSent, AssignedInv
  <2>4. QueueInv'
    BY <1>11, SMTT(60) DEF AcquireStart, QueueInv, TokenInv, Token, Busy, Sent, StopSent, AssignedInv, MailboxInv
  <2>5. EntryInv'
    BY <1>11 DEF AcquireStart, EntryInv
  <2> QED
    BY <2>1, <2>2, <2>3, <2>4, <2>5
<1>12. ASSUME NEW w \in Worker, TakeTasks(w)
      PROVE  HandoffInv'
  <2>1. TokenInv'
    BY <1>12, SMTT(60) DEF TakeTasks, TokenInv, Token, Busy, Sent, StopSent, AssignedInv
  <2>2. AssignedInv'
    BY <1>12 DEF TakeTasks, AssignedInv
  <2>3. MailboxInv'
    BY <1>12, SMTT(60) DEF TakeTasks, MailboxInv, TokenInv, Token, Busy, Sent, StopSent, AssignedInv, Empty
  <2>4. QueueInv'
    BY <1>12, SMTT(60) DEF TakeTasks, QueueInv, TokenInv, Token, Busy, Sent, StopSent, AssignedInv, MailboxInv, Empty
  <2>5. EntryInv'
    BY <1>12 DEF TakeTasks, EntryInv, Empty
  <2> QED
    BY <2>1, <2>2, <2>3, <2>4, <2>5
<1>13. ASSUME NEW w \in Worker, ReadSources(w)
      PROVE  HandoffInv'
  <2>1. TokenInv'
    BY <1>13, SMTT(60) DEF ReadSources, TokenInv, Token, Busy, Sent, StopSent, AssignedInv
  <2>2. AssignedInv'
    BY <1>13 DEF ReadSources, AssignedInv
  <2>3. MailboxInv'
    BY <1>13, SMTT(60) DEF ReadSources, MailboxInv, TokenInv, Token, Busy, Sent, StopSent, AssignedInv
  <2>4. QueueInv'
    BY <1>13, SMTT(60) DEF ReadSources, QueueInv, TokenInv, Token, Busy, Sent, StopSent, AssignedInv, MailboxInv
  <2>5. EntryInv'
    BY <1>13 DEF ReadSources, EntryInv
  <2> QED
    BY <2>1, <2>2, <2>3, <2>4, <2>5
<1>14. ASSUME NEW w \in Worker, WriteDestination(w)
      PROVE  HandoffInv'
  <2>1. TokenInv'
    BY <1>14, SMTT(60) DEF WriteDestination, TokenInv, Token, Busy, Sent, StopSent, AssignedInv
  <2>2. AssignedInv'
    BY <1>14 DEF WriteDestination, AssignedInv
  <2>3. MailboxInv'
    BY <1>14, SMTT(60) DEF WriteDestination, MailboxInv, TokenInv, Token, Busy, Sent, StopSent, AssignedInv
  <2>4. QueueInv'
    BY <1>14, SMTT(60) DEF WriteDestination, QueueInv, TokenInv, Token, Busy, Sent, StopSent, AssignedInv, MailboxInv
  <2>5. EntryInv'
    BY <1>14 DEF WriteDestination, EntryInv
  <2> QED
    BY <2>1, <2>2, <2>3, <2>4, <2>5
<1>15. ASSUME NEW w \in Worker, ReleaseDone(w)
      PROVE  HandoffInv'
  <2>1. TokenInv'
    BY <1>15, SMTT(60) DEF ReleaseDone, TokenInv, Token, Busy, Sent, StopSent, AssignedInv
  <2>2. AssignedInv'
    BY <1>15 DEF ReleaseDone, AssignedInv
  <2>3. MailboxInv'
    BY <1>15, SMTT(60) DEF ReleaseDone, MailboxInv, TokenInv, Token, Busy, Sent, StopSent, AssignedInv
  <2>4. QueueInv'
    BY <1>15, SMTT(60) DEF ReleaseDone, QueueInv, TokenInv, Token, Busy, Sent, StopSent, AssignedInv, MailboxInv
  <2>5. EntryInv'
    BY <1>15 DEF ReleaseDone, EntryInv
  <2> QED
    BY <2>1, <2>2, <2>3, <2>4, <2>5
<1>16. ASSUME NEW w \in Worker, ClearTasks(w)
      PROVE  HandoffInv'
  <2>1. TokenInv'
    BY <1>16, SMTT(60) DEF ClearTasks, TokenInv, Token, Busy, Sent, StopSent, QueueInv
  <2>2. AssignedInv'
    BY <1>16 DEF ClearTasks, AssignedInv
  <2>3. MailboxInv'
    BY <1>16, SMTT(60) DEF ClearTasks, MailboxInv, TokenInv, Token, Busy, Sent, StopSent, AssignedInv, Empty
  <2>4. QueueInv'
    BY <1>16, SMTT(60) DEF ClearTasks, QueueInv, TokenInv, Token, Busy, Sent, StopSent, AssignedInv, MailboxInv, Empty
  <2>5. EntryInv'
    BY <1>16 DEF ClearTasks, EntryInv, Empty
  <2> QED
    BY <2>1, <2>2, <2>3, <2>4, <2>5
<1>17. CASE UNCHANGED vars
  <2>1. TokenInv'
    BY <1>17 DEF vars, TokenInv, Token, Busy, Sent, StopSent, AssignedInv
  <2>2. AssignedInv'
    BY <1>17 DEF vars, AssignedInv
  <2>3. MailboxInv'
    BY <1>17 DEF vars, MailboxInv, TokenInv, Token, Busy, Sent, StopSent, AssignedInv
  <2>4. QueueInv'
    BY <1>17 DEF vars, QueueInv, TokenInv, Token, Busy, Sent, StopSent, AssignedInv, MailboxInv
  <2>5. EntryInv'
    BY <1>17 DEF vars, EntryInv
  <2> QED
    BY <2>1, <2>2, <2>3, <2>4, <2>5
<1> QED
  BY <1>1, <1>2, <1>3, <1>4, <1>5, <1>6, <1>7, <1>8, <1>9, <1>10, <1>11, <1>12, <1>13, <1>14, <1>15, <1>16, <1>17
  DEF Next, CallerStep, WorkerStep, Destroyed

(***************************************************************************)
(* The handoff between the caller and each worker: who holds the token and *)
(* where its tasks are, at every program point of the two.                 *)
(***************************************************************************)
THEOREM HandoffCorrect == Spec => [](TypeOK /\ HandoffInv)
<1>1. Init => TypeOK /\ HandoffInv
  BY TypeInit, HandoffInit
<1>2. TypeOK /\ HandoffInv /\ [Next]_vars => (TypeOK /\ HandoffInv)'
  BY TypeNext, HandoffNext
<1> QED
  BY <1>1, <1>2, PTL DEF Spec

-----------------------------------------------------------------------------
(***************************************************************************)
(* No semaphore of the pool is ever released while it holds its token.     *)
(***************************************************************************)
THEOREM SemaphoresStayBinary == Spec => []SemaphoresBinary
<1>1. HandoffInv => SemaphoresBinary
  BY DEF HandoffInv, TokenInv, Token, SemaphoresBinary
<1> QED
  BY <1>1, HandoffCorrect, PTL

(***************************************************************************)
(* The unlocked tasks_ is never swapped or extended by the caller while    *)
(* its worker is moving it away.                                           *)
(***************************************************************************)
THEOREM MailboxIsExclusive == Spec => []MailboxExclusive
<1>1. TypeOK /\ HandoffInv => MailboxExclusive
  <2> SUFFICES ASSUME TypeOK, HandoffInv, NEW w \in Worker,
                      CallerTouchesTasks(w)
               PROVE  wpc[w] # "take"
    BY DEF MailboxExclusive
  <2>1. ~Sent(w) /\ ~StopSent(w)
    BY WorkerFacts
    DEF TypeOK, HandoffInv, AssignedInv, CallerTouchesTasks, Sent, StopSent
  <2> QED
    BY <2>1 DEF HandoffInv, TokenInv
<1> QED
  BY <1>1, HandoffCorrect, PTL

LEMMA QuiescentStep == TypeOK /\ HandoffInv => QuiescentBetweenCalls
<1> SUFFICES ASSUME TypeOK, HandoffInv, Between, NEW w \in Worker
             PROVE  /\ wpc[w] # "compute"
                    /\ queue[w].work = {}
                    /\ mailbox[w].work = {}
  BY DEF QuiescentBetweenCalls
<1>1. ~Sent(w) /\ pc # "release"
  BY DEF HandoffInv, AssignedInv, Between, Sent
<1>2. mailbox[w].work = {}
  BY <1>1 DEF HandoffInv, MailboxInv
<1>3. queue[w].work = {}
  BY <1>1 DEF HandoffInv, QueueInv
<1> QED
  BY <1>2, <1>3 DEF HandoffInv, QueueInv

(***************************************************************************)
(* When the caller is outside the pool, no worker has a task of a batch.   *)
(***************************************************************************)
THEOREM QuiescentWhenReturned == Spec => []QuiescentBetweenCalls
BY QuiescentStep, HandoffCorrect, PTL

(***************************************************************************)
(* A worker runs tasks of the batch that the balancer assigned to it.      *)
(***************************************************************************)
LEMMA RunningIsAssigned ==
    ASSUME TypeOK, HandoffInv, NEW w \in Worker, wpc[w] = "compute"
    PROVE  \E i \in DOMAIN batch :
              /\ Running(w) = batch[i]
              /\ Affinity(batch, batch[i].destination) % WorkerCount = w
<1>1. queue[w].work # {} /\ queue[w].work \in SUBSET (Nat \X Task)
  BY DEF TypeOK, HandoffInv, QueueInv
<1>2. First(queue[w]) \in queue[w].work
  BY <1>1, FirstIsLeast
<1>3. First(queue[w]) \in Bucket(batch, w)
  BY <1>2 DEF HandoffInv, EntryInv
<1> QED
  BY <1>3 DEF Bucket, Running

(***************************************************************************)
(* Two kernels that run at the same time never conflict: the balancer puts *)
(* different destinations on the two workers, and the tasks of a batch do  *)
(* not read each other's destinations.                                     *)
(***************************************************************************)
THEOREM NoRace == Spec => []NoDataRace
<1>1. TypeOK /\ HandoffInv => NoDataRace
  <2> SUFFICES ASSUME TypeOK, HandoffInv,
                      NEW v \in Worker, NEW w \in Worker, v # w,
                      wpc[v] = "compute", wpc[w] = "compute"
               PROVE  Running(v).destination \notin
                        Sources(Running(w)) \union {Running(w).destination}
    BY DEF NoDataRace
  <2>1. PICK i \in DOMAIN batch :
          /\ Running(v) = batch[i]
          /\ Affinity(batch, batch[i].destination) % WorkerCount = v
    BY RunningIsAssigned
  <2>2. PICK j \in DOMAIN batch :
          /\ Running(w) = batch[j]
          /\ Affinity(batch, batch[j].destination) % WorkerCount = w
    BY RunningIsAssigned
  <2>3. batch[i].destination # batch[j].destination
    BY <2>1, <2>2
  <2>4. Independent(batch)
    BY <2>1, BatchAssumption DEF TypeOK
  <2>5. batch[i].destination \notin Sources(batch[j])
    BY <2>3, <2>4 DEF Independent
  <2> QED
    BY <2>1, <2>2, <2>3, <2>5
<1> QED
  BY <1>1, HandoffCorrect, PTL

-----------------------------------------------------------------------------
LEMMA BucketsNext ==
    TypeOK /\ HandoffInv /\ BucketsInv /\ [Next]_vars => BucketsInv'
<1> SUFFICES ASSUME TypeOK, HandoffInv, BucketsInv, [Next]_vars
             PROVE  BucketsInv'
  OBVIOUS
<1> USE WorkerFacts
<1> USE DEF TypeOK, BucketsInv, callerVars, sharedVars, workerVars,
            historyVars
<1>1. ASSUME NEW tasks \in Batch, SendTasks(tasks)
      PROVE  BucketsInv'
  BY <1>1 DEF SendTasks
<1>2. CASE SkipWorker
  <2>1. \A w \in Worker : buckets[w] # {} => target + 1 =< w
    BY <1>2 DEF SkipWorker
  <2> QED
    BY <1>2, <2>1, WorkerCountAssumption DEF SkipWorker, Advance
<1>3. CASE SwapTasks
  <2>1. mailbox[target].work = {}
    BY <1>3 DEF SwapTasks, HandoffInv, MailboxInv, AssignedInv, Sent
  <2>2. \A w \in Worker : buckets'[w] # {} => target < w
    BY <1>3, <2>1 DEF SwapTasks
  <2> QED
    BY <1>3, <2>2 DEF SwapTasks
<1>4. CASE ReleaseStart
  BY <1>4 DEF ReleaseStart
<1>5. CASE MarkAssigned
  <2>1. \A w \in Worker : buckets[w] # {} => target + 1 =< w
    BY <1>5 DEF MarkAssigned
  <2> QED
    BY <1>5, <2>1, WorkerCountAssumption DEF MarkAssigned, Advance
<1>6. CASE Wait
  BY <1>6 DEF Wait
<1>7. CASE Destroy \/ EmplaceStop \/ ReleaseStop \/ Join
  BY <1>7 DEF Destroy, EmplaceStop, ReleaseStop, Join
<1>8. ASSUME NEW w \in Worker, WorkerStep(w)
      PROVE  BucketsInv'
  <2>1. UNCHANGED <<pc, target, buckets>>
    BY <1>8, ZenonT(60) DEF WorkerStep, AcquireStart, TakeTasks, ReadSources,
              WriteDestination, ReleaseDone, ClearTasks
  <2> QED
    BY <2>1
<1>9. CASE UNCHANGED vars
  BY <1>9 DEF vars
<1> QED
  BY <1>1, <1>2, <1>3, <1>4, <1>5, <1>6, <1>7, <1>8, <1>9
  DEF Next, CallerStep, Destroyed

(* While a worker runs, all its unfinished tasks are in its local vector. *)
LEMMA RunnerHoldsAll ==
    ASSUME TypeOK, HandoffInv, BucketsInv, NEW w \in Worker, wpc[w] = "compute"
    PROVE  /\ buckets[w] = {} /\ mailbox[w].work = {}
           /\ First(queue[w]) \in queue[w].work
           /\ \A f \in queue[w].work : First(queue[w])[1] =< f[1]
<1>1. Sent(w) /\ queue[w].work # {}
  BY DEF HandoffInv, QueueInv
<1>2. buckets[w] = {}
  BY <1>1 DEF Sent, BucketsInv, HandoffInv, AssignedInv, TypeOK, Worker
<1>3. mailbox[w].work = {}
  BY <1>1 DEF HandoffInv, MailboxInv, TokenInv, Token, Busy, AssignedInv,
              Sent, TypeOK, Worker
<1> QED
  BY <1>1, <1>2, <1>3, FirstIsLeast DEF TypeOK

LEMMA DestinationOrderStep ==
    TypeOK /\ HandoffInv /\ BucketsInv => SameDestinationInOrder
<1> SUFFICES ASSUME TypeOK, HandoffInv, BucketsInv,
                    NEW w \in Worker, wpc[w] = "compute", NEW e \in Pending,
                    e[2].destination = Running(w).destination
             PROVE  First(queue[w])[1] =< e[1]
  BY DEF SameDestinationInOrder
<1>1. PICK v \in Worker :
        e \in buckets[v] \union mailbox[v].work \union queue[v].work
  BY DEF Pending
<1>2. e \in Bucket(batch, v)
  BY <1>1 DEF HandoffInv, EntryInv
<1>3. v = w
  BY <1>2, RunningIsAssigned DEF Bucket
<1>4. e \in queue[w].work
  BY <1>1, <1>3, RunnerHoldsAll
<1> QED
  BY <1>4, RunnerHoldsAll

(***************************************************************************)
(* Tasks that accumulate in one chain run in the order they were           *)
(* registered in: while one runs, the unfinished ones all come after it.   *)
(***************************************************************************)
THEOREM DestinationOrder == Spec => []SameDestinationInOrder
<1>1. Init => BucketsInv
  BY DEF Init, BucketsInv
<1> QED
  BY <1>1, DestinationOrderStep, BucketsNext, HandoffCorrect, PTL DEF Spec

-----------------------------------------------------------------------------
(***************************************************************************)
(* Which tasks are unfinished, and who has them.                           *)
(***************************************************************************)
LEMMA AffinityType ==
    ASSUME NEW tasks \in Batch \union {<<>>}, NEW i \in DOMAIN tasks
    PROVE  Affinity(tasks, tasks[i].destination) \in Nat
<1> DEFINE d == tasks[i].destination
           uses == {j \in DOMAIN tasks : tasks[j].destination = d}
<1>1. tasks \in Seq(Task) /\ DOMAIN tasks = 1 .. Len(tasks) /\ Len(tasks) \in Nat
  BY BatchAssumption
<1>2. uses \in SUBSET Nat /\ uses # {}
  BY <1>1
<1>3. PICK m \in uses : \A k \in uses : m =< k
  BY <1>2, LeastNatural
<1>4. FirstUse(tasks, d) \in DOMAIN tasks
  <2>1. \A j \in 1 .. m - 1 : tasks[j].destination # d
    BY <1>1, <1>3
  <2> QED
    BY <1>3, <2>1 DEF FirstUse
<1>5. IsFiniteSet(1 .. FirstUse(tasks, d) - 1)
  BY <1>1, <1>4, FS_Interval
<1>6. IsFiniteSet({tasks[j].destination : j \in 1 .. FirstUse(tasks, d) - 1})
  <2> DEFINE S == 1 .. FirstUse(tasks, d) - 1
             f == [j \in S |-> tasks[j].destination]
  <2>1. f \in Surjection(S, {tasks[j].destination : j \in S})
    BY DEF Surjection
  <2> QED
    BY <1>5, <2>1, FS_Surjection
<1> QED
  BY <1>6, FS_CardinalityType DEF Affinity

(* The balancer hands every task of a batch to some worker. *)
LEMMA AllHanded ==
    ASSUME NEW tasks \in Batch
    PROVE  UNION {Bucket(tasks, w) : w \in Worker} = {<<i, tasks[i]>> : i \in DOMAIN tasks}
<1>1. ASSUME NEW i \in DOMAIN tasks
      PROVE  \E w \in Worker : <<i, tasks[i]>> \in Bucket(tasks, w)
  <2> DEFINE a == Affinity(tasks, tasks[i].destination)
  <2>1. a \in Nat
    BY AffinityType
  <2> HIDE DEF a
  <2>2. a % WorkerCount \in Worker
    BY <2>1, WorkerCountAssumption DEF Worker
  <2> QED
    BY <2>2 DEF Bucket, a
<1> QED
  BY <1>1 DEF Bucket

(* No task has two workers. *)
LEMMA OneHolder ==
    ASSUME HandoffInv, NEW v \in Worker, NEW w \in Worker,
           NEW e \in buckets[v] \union mailbox[v].work \union queue[v].work,
           e \in buckets[w] \union mailbox[w].work \union queue[w].work
    PROVE  v = w
<1>1. e \in Bucket(batch, v) /\ e \in Bucket(batch, w)
  BY DEF HandoffInv, EntryInv
<1> QED
  BY <1>1 DEF Bucket

(***************************************************************************)
(* Tasks change hands, and nothing but the end of a kernel finishes one:   *)
(* all steps but the start of a call and the end of a kernel.              *)
(***************************************************************************)
KeepsTasks ==
    /\ Pending' = Pending
    /\ UNCHANGED <<memory, batch, before>>
    /\ Between => Between'
    /\ DOMAIN args' = DOMAIN args
    /\ \A w \in Worker : wpc'[w] = "compute" =>
         wpc[w] = "compute" /\ queue'[w] = queue[w] /\ args'[w] = args[w]

LEMMA SamePending ==
    ASSUME \A w \in Worker : buckets'[w] \union mailbox'[w].work \union queue'[w].work
                               = buckets[w] \union mailbox[w].work \union queue[w].work
    PROVE  Pending' = Pending
BY DEF Pending

LEMMA CallerKeepsTasks ==
    ASSUME TypeOK, HandoffInv, CallerStep \/ Destroy \/ UNCHANGED vars
    PROVE  KeepsTasks
<1> USE DEF TypeOK, callerVars, sharedVars, workerVars, historyVars
<1>1. CASE SwapTasks
  <2>1. mailbox'[target].work = buckets[target] /\ buckets'[target] = mailbox[target].work
    BY <1>1 DEF SwapTasks
  <2>2. \A w \in Worker \ {target} : mailbox'[w] = mailbox[w] /\ buckets'[w] = buckets[w]
    BY <1>1 DEF SwapTasks
  <2>3. UNCHANGED <<queue, memory, batch, before, wpc, args>>
    BY <1>1 DEF SwapTasks
  <2>4. \A w \in Worker : buckets'[w] \union mailbox'[w].work \union queue'[w].work
                            = buckets[w] \union mailbox[w].work \union queue[w].work
    BY <2>1, <2>2, <2>3
  <2>5. Pending' = Pending
    BY <2>4, SamePending
  <2> QED
    BY <1>1, <2>3, <2>5 DEF SwapTasks, KeepsTasks, Between
<1>2. CASE EmplaceStop
  <2>1. \A w \in Worker : mailbox'[w].work = mailbox[w].work
    BY <1>2 DEF EmplaceStop
  <2>2. UNCHANGED <<buckets, queue, memory, batch, before, wpc, args>>
    BY <1>2 DEF EmplaceStop
  <2>3. Pending' = Pending
    BY <2>1, <2>2, SamePending
  <2> QED
    BY <1>2, <2>2, <2>3 DEF EmplaceStop, KeepsTasks, Between
<1>3. CASE SkipWorker \/ ReleaseStart \/ MarkAssigned \/ Wait \/ Destroy \/ ReleaseStop \/ Join
             \/ UNCHANGED vars
  <2>1. UNCHANGED <<buckets, mailbox, queue, memory, batch, before, wpc, args>>
    BY <1>3, ZenonT(60) DEF SkipWorker, ReleaseStart, MarkAssigned, Wait, Destroy, ReleaseStop, Join, vars
  <2>2. Pending' = Pending
    BY <2>1 DEF Pending
  <2>3. Between => Between'
    BY <1>3 DEF SkipWorker, ReleaseStart, MarkAssigned, Wait, Destroy, ReleaseStop, Join, vars,
                Advance, Between
  <2> QED
    BY <2>1, <2>2, <2>3 DEF KeepsTasks
<1> QED
  BY <1>1, <1>2, <1>3 DEF CallerStep

LEMMA WorkerKeepsTasks ==
    ASSUME TypeOK, HandoffInv, NEW v \in Worker,
           AcquireStart(v) \/ TakeTasks(v) \/ ReleaseDone(v) \/ ClearTasks(v)
    PROVE  KeepsTasks
<1> USE DEF TypeOK, callerVars, sharedVars, workerVars, historyVars
<1>1. UNCHANGED <<pc, buckets, memory, batch, before, args>>
  BY DEF AcquireStart, TakeTasks, ReleaseDone, ClearTasks
<1>2. /\ wpc'[v] # "compute"
      /\ \A w \in Worker \ {v} : wpc'[w] = wpc[w] /\ queue'[w] = queue[w] /\ mailbox'[w] = mailbox[w]
  BY DEF AcquireStart, TakeTasks, ReleaseDone, ClearTasks
<1>3. mailbox'[v].work \union queue'[v].work = mailbox[v].work \union queue[v].work
  <2>1. CASE AcquireStart(v) \/ ReleaseDone(v)
    BY <2>1 DEF AcquireStart, ReleaseDone
  <2>2. CASE TakeTasks(v)
    <3>1. queue[v].work = {}
      BY <2>2 DEF TakeTasks, HandoffInv, QueueInv
    <3> QED
      BY <2>2, <3>1 DEF TakeTasks, Empty
  <2>3. CASE ClearTasks(v)
    <3>1. queue[v].work = {}
      BY <2>3 DEF ClearTasks, HandoffInv, QueueInv
    <3> QED
      BY <2>3, <3>1 DEF ClearTasks, Empty
  <2> QED
    BY <2>1, <2>2, <2>3
<1>4. \A w \in Worker : buckets'[w] \union mailbox'[w].work \union queue'[w].work
                          = buckets[w] \union mailbox[w].work \union queue[w].work
  BY <1>1, <1>2, <1>3
<1>5. Pending' = Pending
  BY <1>4, SamePending
<1> QED
  BY <1>1, <1>2, <1>5 DEF KeepsTasks, Between

LEMMA KeptMemory ==
    ASSUME MemoryInv, ArgsInv, KeepsTasks
    PROVE  MemoryInv' /\ ArgsInv'
<1>1. \A i : Unfinished(i)' <=> Unfinished(i)
  BY DEF KeepsTasks, Unfinished
<1>2. \A c : HoldsEntry(c)' <=> HoldsEntry(c)
  BY <1>1 DEF KeepsTasks, HoldsEntry
<1>3. \A task : AtEntry(task)' = AtEntry(task)
  BY DEF KeepsTasks, AtEntry
<1>4. \A c, i : HoldsResult(c, i)' <=> HoldsResult(c, i)
  BY <1>1, <1>3 DEF KeepsTasks, HoldsResult
<1>5. MemoryInv'
  BY <1>2, <1>4 DEF MemoryInv, KeepsTasks
<1>6. ArgsInv'
  BY <1>3 DEF ArgsInv, KeepsTasks, Running
<1> QED
  BY <1>5, <1>6

(* A kernel ends: its task is finished, and no other. *)
LEMMA WriteFinishes ==
    ASSUME TypeOK, HandoffInv, BucketsInv, NEW v \in Worker, WriteDestination(v)
    PROVE  Pending' = Pending \ {First(queue[v])}
<1> DEFINE e == First(queue[v])
<1>1. wpc[v] = "compute" /\ UNCHANGED <<buckets, mailbox>>
  BY DEF WriteDestination, callerVars, sharedVars
<1>2. buckets[v] = {} /\ mailbox[v].work = {} /\ e \in queue[v].work
  BY <1>1, RunnerHoldsAll
<1>3. queue'[v].work = queue[v].work \ {e}
      /\ \A w \in Worker \ {v} : queue'[w] = queue[w]
  BY DEF WriteDestination, TypeOK
<1> HIDE DEF e
<1>4. \A w \in Worker \ {v} : e \notin buckets[w] \union mailbox[w].work \union queue[w].work
  BY <1>2, OneHolder
<1>5. \A w \in Worker : buckets'[w] \union mailbox'[w].work \union queue'[w].work
                          = (buckets[w] \union mailbox[w].work \union queue[w].work) \ {e}
  BY <1>1, <1>2, <1>3, <1>4
<1> QED
  BY <1>5 DEF Pending, e

(* What a worker runs, and that it is the next task for its destination. *)
LEMMA RunningTask ==
    ASSUME TypeOK, HandoffInv, BucketsInv, NEW v \in Worker, wpc[v] = "compute" \/ wpc[v] = "process",
           queue[v].work # {}
    PROVE  \E i \in DOMAIN batch :
             /\ First(queue[v]) = <<i, batch[i]>> /\ Unfinished(i)
             /\ i \in Nat /\ DOMAIN batch \subseteq Nat /\ batch \in Batch
             /\ batch[i] \in Task
<1>1. First(queue[v]) \in queue[v].work
  BY FirstIsLeast DEF TypeOK
<1>2. First(queue[v]) \in Bucket(batch, v)
  BY <1>1 DEF HandoffInv, EntryInv
<1>3. PICK i \in DOMAIN batch : First(queue[v]) = <<i, batch[i]>>
  BY <1>2 DEF Bucket
<1>4. batch \in Batch /\ batch \in Seq(Task)
  BY <1>3, BatchAssumption DEF TypeOK
<1>5. Unfinished(i)
  BY <1>1, <1>3 DEF Unfinished, Pending
<1> QED
  BY <1>3, <1>4, <1>5

LEMMA ReadMemory ==
    ASSUME TypeOK, HandoffInv, BucketsInv, MemoryInv, ArgsInv, NEW v \in Worker, ReadSources(v)
    PROVE  MemoryInv' /\ ArgsInv'
<1>1. PICK i \in DOMAIN batch :
        /\ First(queue[v]) = <<i, batch[i]>> /\ Unfinished(i)
        /\ i \in Nat /\ DOMAIN batch \subseteq Nat /\ batch \in Batch
        /\ batch[i] \in Task
  BY RunningTask DEF ReadSources
<1>2. UNCHANGED <<pc, buckets, mailbox, queue, memory, batch, before>>
  BY DEF ReadSources, callerVars, sharedVars, historyVars
<1>3. ~Between
  BY <1>1, <1>2, QuiescentStep DEF ReadSources, QuiescentBetweenCalls
<1>4. ASSUME NEW k \in DOMAIN batch[i].sources
      PROVE  memory[batch[i].sources[k]] = before[batch[i].sources[k]]
  <2> DEFINE c == batch[i].sources[k]
  <2>1. c \in Chain /\ c \in Sources(batch[i])
    BY <1>1 DEF Task, Sources
  <2>2. \A j \in DOMAIN batch : batch[j].destination = c => i =< j
    BY <1>1, <2>1, OrderAssumption
  <2>3. \A j \in DOMAIN batch : batch[j].destination = c => batch[i].destination = c
    BY <1>1, <2>1, BatchAssumption DEF Independent
  <2>4. CASE HoldsEntry(c)
    BY <2>4 DEF HoldsEntry
  <2>5. ASSUME NEW j \in DOMAIN batch, HoldsResult(c, j) PROVE FALSE
    <3>1. batch[j].destination = c /\ (Unfinished(i) <=> j < i)
      BY <2>3, <2>5 DEF HoldsResult
    <3> QED
      BY <1>1, <2>2, <3>1
  <2> QED
    BY <1>3, <2>1, <2>4, <2>5 DEF MemoryInv
<1>5. args'[v] = AtEntry(batch[i])
  <2>1. args'[v] = [k \in DOMAIN batch[i].sources |-> memory[batch[i].sources[k]]]
    BY <1>1 DEF ReadSources, ArgsInv
  <2> QED
    BY <1>4, <2>1 DEF AtEntry
<1>6. /\ DOMAIN args' = Worker
      /\ \A w \in Worker \ {v} : wpc'[w] = wpc[w] /\ args'[w] = args[w]
  BY DEF ReadSources, TypeOK, ArgsInv
<1>7. ArgsInv'
  <2>1. \A task : AtEntry(task)' = AtEntry(task)
    BY <1>2 DEF AtEntry
  <2> QED
    BY <1>1, <1>2, <1>5, <1>6, <2>1 DEF ArgsInv, Running
<1>8. MemoryInv'
  BY <1>2 DEF MemoryInv, HoldsEntry, HoldsResult, AtEntry, Unfinished, Pending, Between
<1> QED
  BY <1>7, <1>8

LEMMA WriteMemory ==
    ASSUME TypeOK, HandoffInv, BucketsInv, MemoryInv, ArgsInv, NEW v \in Worker, WriteDestination(v)
    PROVE  MemoryInv' /\ ArgsInv'
<1>1. wpc[v] = "compute" /\ queue[v].work # {}
  BY DEF WriteDestination, HandoffInv, QueueInv
<1>2. PICK i \in DOMAIN batch :
        /\ First(queue[v]) = <<i, batch[i]>> /\ Unfinished(i)
        /\ i \in Nat /\ DOMAIN batch \subseteq Nat /\ batch \in Batch
        /\ batch[i] \in Task
  BY <1>1, RunningTask
<1> DEFINE d == batch[i].destination
<1>3. UNCHANGED <<pc, buckets, mailbox, batch, before>>
  BY DEF WriteDestination, callerVars, sharedVars, historyVars
<1>4. d \in Chain /\ memory' = [memory EXCEPT ![d] = Eval(batch[i].kernel, AtEntry(batch[i]))]
  <2>1. d \in Chain
    BY <1>2 DEF Task
  <2>2. args[v] = AtEntry(batch[i])
    BY <1>1, <1>2 DEF ArgsInv, Running
  <2>3. memory' = [memory EXCEPT ![d] = Eval(batch[i].kernel, args[v])]
    BY <1>2 DEF WriteDestination
  <2> QED
    BY <2>1, <2>2, <2>3
<1>5. \A j : Unfinished(j)' <=> Unfinished(j) /\ j # i
  BY <1>2, <1>3, WriteFinishes DEF Unfinished
<1>6. \A j \in DOMAIN batch : Unfinished(j) /\ batch[j].destination = d => i =< j
  <2>1. SameDestinationInOrder
    BY DestinationOrderStep
  <2> QED
    BY <1>1, <1>2, <2>1 DEF SameDestinationInOrder, Running, Unfinished
<1>7. \A task : AtEntry(task)' = AtEntry(task)
  BY <1>3 DEF AtEntry
<1>8. ASSUME ~Between, NEW c \in Chain
      PROVE  HoldsEntry(c)' \/ \E j \in DOMAIN batch' : HoldsResult(c, j)'
  <2>1. HoldsEntry(c) \/ \E j \in DOMAIN batch : HoldsResult(c, j)
    BY <1>8 DEF MemoryInv
  <2>2. CASE c # d
    <3>1. memory'[c] = memory[c]
      BY <1>4, <2>2, <1>8 DEF MemoryInv
    <3>2. \A j \in DOMAIN batch : batch[j].destination = c => (Unfinished(j)' <=> Unfinished(j))
      BY <1>5, <2>2
    <3>3. HoldsEntry(c) => HoldsEntry(c)'
      BY <1>3, <3>1, <3>2 DEF HoldsEntry
    <3>4. \A j \in DOMAIN batch : HoldsResult(c, j) => HoldsResult(c, j)'
      BY <1>3, <1>7, <3>1, <3>2 DEF HoldsResult
    <3> QED
      BY <1>3, <2>1, <3>3, <3>4
  <2>3. CASE c = d
    <3>1. memory'[c] = Eval(batch[i].kernel, AtEntry(batch[i]))
      BY <1>4, <2>3, <1>8 DEF MemoryInv
    <3>2. \A j \in DOMAIN batch : batch[j].destination = d /\ i < j => Unfinished(j)
      <4>1. CASE HoldsEntry(c)
        BY <2>3, <4>1 DEF HoldsEntry
      <4>2. ASSUME NEW n \in DOMAIN batch, HoldsResult(c, n)
            PROVE  \A j \in DOMAIN batch : batch[j].destination = d /\ i < j => Unfinished(j)
        <5>1. n < i
          BY <1>2, <2>3, <4>2 DEF HoldsResult
        <5> QED
          BY <1>2, <2>3, <4>2, <5>1 DEF HoldsResult
      <4> QED
        BY <2>1, <4>1, <4>2
    <3>3. \A j \in DOMAIN batch : batch[j].destination = d => (Unfinished(j)' <=> i < j)
      BY <1>2, <1>5, <1>6, <3>2
    <3>4. HoldsResult(c, i)'
      BY <1>3, <1>7, <2>3, <3>1, <3>3 DEF HoldsResult
    <3> QED
      BY <1>3, <3>4
  <2> QED
    BY <2>2, <2>3
<1>9. MemoryInv'
  <2>1. memory' = [c \in Chain |-> memory'[c]]
    BY <1>4 DEF MemoryInv
  <2> QED
    BY <1>3, <1>8, <2>1 DEF MemoryInv, Between
<1>10. ArgsInv'
  <2>1. /\ wpc'[v] # "compute" /\ DOMAIN args' = Worker
        /\ \A w \in Worker \ {v} : wpc'[w] = wpc[w] /\ args'[w] = args[w] /\ queue'[w] = queue[w]
    BY DEF WriteDestination, TypeOK, ArgsInv
  <2> QED
    BY <1>7, <2>1 DEF ArgsInv, Running
<1> QED
  BY <1>9, <1>10

LEMMA SendMemory ==
    ASSUME TypeOK, HandoffInv, MemoryInv, ArgsInv, NEW tasks \in Batch, SendTasks(tasks)
    PROVE  MemoryInv' /\ ArgsInv'
<1>1. Between /\ UNCHANGED <<mailbox, queue, memory, wpc, args>>
  BY DEF SendTasks, Between, sharedVars, workerVars
<1>2. \A w \in Worker : mailbox[w].work = {} /\ queue[w].work = {} /\ wpc[w] # "compute"
  BY <1>1, QuiescentStep DEF QuiescentBetweenCalls
<1>3. \A w \in Worker : buckets'[w] = Bucket(tasks, w)
  BY DEF SendTasks
<1>4. Pending' = UNION {Bucket(tasks, w) : w \in Worker}
  BY <1>1, <1>2, <1>3 DEF Pending
<1>5. Pending' = {<<i, tasks[i]>> : i \in DOMAIN tasks}
  BY <1>4, AllHanded
<1>6. batch' = tasks /\ before' = memory
  BY DEF SendTasks
<1>7. \A c \in Chain : HoldsEntry(c)'
  BY <1>1, <1>5, <1>6 DEF HoldsEntry, Unfinished
<1>8. MemoryInv'
  <2>1. memory' = [c \in Chain |-> memory'[c]]
    BY <1>1 DEF MemoryInv
  <2> QED
    BY <1>7, <2>1 DEF MemoryInv
<1>9. ArgsInv'
  <2>1. DOMAIN args' = Worker
    BY <1>1 DEF ArgsInv
  <2>2. \A w \in Worker : wpc'[w] # "compute"
    BY <1>1, <1>2
  <2> QED
    BY <2>1, <2>2 DEF ArgsInv
<1> QED
  BY <1>8, <1>9

(***************************************************************************)
(* During a call every chain holds its contents at entry or the result of  *)
(* its last finished task, and every running kernel has read contents at   *)
(* entry.                                                                  *)
(***************************************************************************)
LEMMA MemoryNext ==
    TypeOK /\ HandoffInv /\ BucketsInv /\ MemoryInv /\ ArgsInv /\ [Next]_vars
      => MemoryInv' /\ ArgsInv'
<1> SUFFICES ASSUME TypeOK, HandoffInv, BucketsInv, MemoryInv, ArgsInv, [Next]_vars
             PROVE  MemoryInv' /\ ArgsInv'
  OBVIOUS
<1>1. ASSUME NEW tasks \in Batch, SendTasks(tasks)
      PROVE  MemoryInv' /\ ArgsInv'
  BY <1>1, SendMemory
<1>2. CASE CallerStep \/ Destroy \/ UNCHANGED vars
  BY <1>2, CallerKeepsTasks, KeptMemory
<1>3. ASSUME NEW w \in Worker, WorkerStep(w)
      PROVE  MemoryInv' /\ ArgsInv'
  <2>1. CASE ReadSources(w)
    BY <2>1, ReadMemory
  <2>2. CASE WriteDestination(w)
    BY <2>2, WriteMemory
  <2>3. CASE AcquireStart(w) \/ TakeTasks(w) \/ ReleaseDone(w) \/ ClearTasks(w)
    BY <2>3, WorkerKeepsTasks, KeptMemory
  <2> QED
    BY <1>3, <2>1, <2>2, <2>3 DEF WorkerStep
<1> QED
  BY <1>1, <1>2, <1>3 DEF Next, Destroyed

LEMMA MemoryInit == Init => BucketsInv /\ MemoryInv /\ ArgsInv
BY MemoryAssumption DEF Init, BucketsInv, MemoryInv, ArgsInv, Between

LEMMA BatchDone ==
    ASSUME TypeOK, MemoryInv, ~Between, Pending = {}
    PROVE  memory = Calls!Result(before, batch)
<1>1. ASSUME NEW c \in Chain
      PROVE  memory[c] = Calls!Result(before, batch)[c]
  <2>1. CASE \A j \in DOMAIN batch : batch[j].destination # c
    BY <2>1 DEF MemoryInv, HoldsEntry, HoldsResult, Calls!Result
  <2>2. CASE \E j \in DOMAIN batch : batch[j].destination = c
    <3>1. PICK i \in DOMAIN batch : HoldsResult(c, i)
      BY <2>2 DEF MemoryInv, HoldsEntry, Unfinished
    <3>2. DOMAIN batch \subseteq Nat
      BY BatchAssumption DEF TypeOK
    <3>3. \A n \in DOMAIN batch : Calls!IsLastTaskOf(batch, c, n) <=> n = i
      BY <3>1, <3>2 DEF HoldsResult, Unfinished, Calls!IsLastTaskOf
    <3>4. (CHOOSE n \in DOMAIN batch : Calls!IsLastTaskOf(batch, c, n)) = i
      BY <3>3
    <3> QED
      BY <2>2, <3>1, <3>4 DEF HoldsResult, AtEntry, Calls!Result
  <2> QED
    BY <2>1, <2>2
<1>2. Calls!Result(before, batch) = [c \in Chain |-> Calls!Result(before, batch)[c]]
  BY DEF Calls!Result
<1> QED
  BY <1>1, <1>2 DEF MemoryInv

(***************************************************************************)
(* Seen from its caller the pool executes each batch as one atomic call,   *)
(* as KernelCalls says, however many workers there are and however they    *)
(* interleave: the safety part of ImplementsKernelCalls.                   *)
(***************************************************************************)
THEOREM ExecutesBatches == Spec => Calls!Safety
<1>1. Init => Calls!Init
  BY DEF Init, Calls!Init, Between
<1> DEFINE Inv == TypeOK /\ HandoffInv /\ BucketsInv /\ MemoryInv /\ ArgsInv
<1>2. Inv /\ Inv' /\ [Next]_vars => [Calls!Next]_(Calls!vars)
  <2> SUFFICES ASSUME Inv, Inv', [Next]_vars
               PROVE  Calls!Next \/ UNCHANGED Calls!vars
    OBVIOUS
  <2>1. ASSUME NEW tasks \in Batch, SendTasks(tasks)
        PROVE  Calls!Next
    <3>1. Between /\ ~Between' /\ batch' = tasks /\ before' = memory
      BY <2>1 DEF SendTasks, Between
    <3>2. Calls!Call(tasks)
      BY <3>1 DEF Calls!Call
    <3> QED
      BY <3>2 DEF Calls!Next
  <2>2. CASE Wait
    <3>1. ~Between /\ UNCHANGED <<batch, before, memory, mailbox, queue, buckets, wpc>>
      BY <2>2 DEF Wait, Between, workerVars, historyVars
    <3>2. CASE ~Between'
      BY <3>1, <3>2 DEF Calls!vars
    <3>3. CASE Between'
      <4>1. \A w \in Worker : buckets[w] = {} /\ mailbox[w].work = {} /\ queue[w].work = {}
        <5>1. QuiescentBetweenCalls'
          BY QuiescentStep, PTL
        <5>2. \A w \in Worker : buckets[w] = {}
          BY <2>2 DEF Wait, BucketsInv
        <5> QED
          BY <3>1, <3>3, <5>1, <5>2 DEF QuiescentBetweenCalls
      <4>2. Pending = {}
        BY <4>1 DEF Pending
      <4>3. memory = Calls!Result(before, batch)
        BY <3>1, <4>2, BatchDone
      <4>4. Calls!Return
        BY <3>1, <3>3, <4>3 DEF Calls!Return, Calls!Result, Calls!IsLastTaskOf
      <4> QED
        BY <4>4 DEF Calls!Next
    <3> QED
      BY <3>2, <3>3
  <2>3. CASE (CallerStep /\ ~Wait) \/ Destroy \/ UNCHANGED vars
    <3>1. UNCHANGED <<memory, before, batch>>
      BY <2>3, CallerKeepsTasks DEF KeepsTasks
    <3>2. Between' <=> Between
      BY <2>3 DEF CallerStep, SkipWorker, SwapTasks, ReleaseStart, MarkAssigned, Destroy,
                  EmplaceStop, ReleaseStop, Join, vars, callerVars, Advance, Between
    <3> QED
      BY <3>1, <3>2 DEF Calls!vars
  <2>4. ASSUME NEW w \in Worker, WorkerStep(w)
        PROVE  UNCHANGED Calls!vars
    <3>1. UNCHANGED <<pc, batch, before>>
      BY <2>4, ZenonT(60) DEF WorkerStep, AcquireStart, TakeTasks, ReadSources,
              WriteDestination, ReleaseDone, ClearTasks, callerVars, historyVars
    <3>2. CASE Between
      <4>1. wpc[w] # "compute"
        BY <3>2, QuiescentStep DEF QuiescentBetweenCalls
      <4>2. UNCHANGED memory
        BY <2>4, <4>1 DEF WorkerStep, AcquireStart, TakeTasks, ReadSources,
              WriteDestination, ReleaseDone, ClearTasks
      <4> QED
        BY <3>1, <4>2 DEF Calls!vars, Between
    <3> QED
      BY <3>1, <3>2 DEF Calls!vars, Between
  <2> QED
    BY <2>1, <2>2, <2>3, <2>4 DEF Next, Destroyed
<1>3. Init => Inv
  BY TypeInit, HandoffInit, MemoryInit
<1>4. Inv /\ [Next]_vars => Inv'
  BY TypeNext, HandoffNext, BucketsNext, MemoryNext
<1> QED
  BY <1>1, <1>2, <1>3, <1>4, PTL DEF Spec, Calls!Safety

=============================================================================

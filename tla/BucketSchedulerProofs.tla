----------------------- MODULE BucketSchedulerProofs -----------------------
(***************************************************************************)
(* Proofs about BucketScheduler for every set of chats, conversations and  *)
(* tasks, every bound and every setting.                                   *)
(*                                                                         *)
(* The row lemmas say that each way the program builds or updates a row    *)
(* yields a row of its table; the ...Type and ...Linked lemmas then take   *)
(* the actions one by one.  TypeOK alone is not inductive: a queued row    *)
(* must name a conversation (to be run) and a bucket that exists, which is *)
(* RowsLinked.  Together they are, and OneRunPerChat rests on both.        *)
(***************************************************************************)
EXTENDS BucketScheduler, TLAPS

USE DEF InvIds

\* Every way the program writes a row of table buckets yields such a row.
LEMMA BucketRow ==
    /\ NoBucket \in Bucket
    /\ \A c \in Conversations, st \in BucketState, d \in BOOLEAN :
          [state |-> st, conversation |-> c, due |-> d] \in Bucket
    /\ \A r \in Bucket, st \in BucketState : [r EXCEPT !.state = st] \in Bucket
    /\ \A r \in Bucket, d \in BOOLEAN : [r EXCEPT !.due = d] \in Bucket
    /\ \A r \in Bucket, st \in BucketState :
          [r EXCEPT !.state = st, !.due = FALSE] \in Bucket
BY DEF NoBucket, Bucket, BucketState

\* Likewise for table invocations: insert, a change of state, the side-effect mark.
LEMMA InvocationRow ==
    /\ NoInvocation \in Invocation
    /\ \A c \in Conversations \cup {None}, b \in BucketIds :
          [state |-> "queued", conversation |-> c, bucket |-> b, sideEffect |-> FALSE]
              \in Invocation
    /\ \A r \in Invocation, st \in InvState : [r EXCEPT !.state = st] \in Invocation
    /\ \A r \in Invocation : [r EXCEPT !.sideEffect = TRUE] \in Invocation
    /\ \A r \in Invocation, st \in InvState :
          [r EXCEPT !.state = st, !.sideEffect = FALSE] \in Invocation
BY DEF NoInvocation, Invocation, InvState, BucketState

\* Likewise for table task_receipts: claims, their move to another invocation, settling.
LEMMA ReceiptRow ==
    /\ NoReceipt \in Receipt
    /\ \A i \in InvIds, b \in BucketIds :
          [state |-> "claimed", invocation |-> i, bucket |-> b] \in Receipt
    /\ \A r \in Receipt, st \in ReceiptState : [r EXCEPT !.state = st] \in Receipt
    /\ \A r \in Receipt, i \in InvIds : [r EXCEPT !.invocation = i] \in Receipt
BY DEF NoReceipt, Receipt, ReceiptState

\* pendingBuckets stays a pair of lists under queueInjection, takeInjections and
\* takeNextInjections.
LEMMA PendingRow ==
    /\ NonePending \in Pending
    /\ \A r \in Pending, b \in BucketIds :
          /\ [r EXCEPT !.messages = Append(r.messages, b)] \in Pending
          /\ [r EXCEPT !.completions = Append(r.completions, b)] \in Pending
    /\ \A r \in Pending : [r EXCEPT !.messages = <<>>] \in Pending
    /\ \A r \in Pending :
          r.completions # <<>> =>
              [r EXCEPT !.completions = Tail(r.completions)] \in Pending
<1>1. \A r \in Pending : r.messages \in Seq(BucketIds) /\ r.completions \in Seq(BucketIds)
  BY DEF Pending
<1>2. ASSUME NEW q \in Seq(BucketIds), NEW b \in BucketIds PROVE Append(q, b) \in Seq(BucketIds)
  OBVIOUS
<1>3. ASSUME NEW q \in Seq(BucketIds), q # <<>> PROVE Tail(q) \in Seq(BucketIds)  BY <1>3
<1>4. ASSUME NEW r \in Pending, NEW q \in Seq(BucketIds)
      PROVE  [r EXCEPT !.messages = q] \in Pending /\ [r EXCEPT !.completions = q] \in Pending
  BY DEF Pending
<1>5. NonePending \in Pending /\ <<>> \in Seq(BucketIds)  BY DEF NonePending, Pending
<1> QED BY <1>1, <1>2, <1>3, <1>4, <1>5

\* The bookkeeping of a synchronous block keeps its type.
LEMMA StepRow ==
    /\ Idle \in Step
    /\ \A T \in SUBSET Tasks, th \in {"idle", "vet"} :
          [at |-> "tasks", tasks |-> T, buckets |-> {}, then |-> th, inv |-> 0] \in Step
    /\ \A s \in Step, a \in StepName : [s EXCEPT !.at = a] \in Step
    /\ \A s \in Step, B \in SUBSET BucketIds : [s EXCEPT !.buckets = B] \in Step
    /\ \A s \in Step, T \in SUBSET Tasks : [s EXCEPT !.tasks = T] \in Step
    /\ \A s \in Step, B \in SUBSET BucketIds, i \in InvIds \cup {0} :
          [s EXCEPT !.at = "release", !.buckets = B, !.inv = i] \in Step
    /\ \A s \in Step : s.buckets \in SUBSET BucketIds /\ s.tasks \in SUBSET Tasks
                       /\ s.then \in StepName
BY DEF Idle, Step, StepName

\* The in-memory state of a run keeps its type under each update a hook makes.
LEMMA RunRow ==
    /\ NoRun \in Run
    /\ \A r \in Run, p \in Phase : [r EXCEPT !.phase = p] \in Run
    /\ \A r \in Run, i \in InvIds \cup {0} : [r EXCEPT !.inv = i] \in Run
    /\ \A r \in Run, q \in Seq(BucketIds) : [r EXCEPT !.handed = q] \in Run
    /\ \A r \in Run, n \in Nat : [r EXCEPT !.turns = n] \in Run
    /\ \A r \in Run, v \in BOOLEAN :
          /\ [r EXCEPT !.nudged = v] \in Run
          /\ [r EXCEPT !.barrierSpent = v] \in Run
          /\ [r EXCEPT !.granted = v] \in Run
          /\ [r EXCEPT !.aborted = v] \in Run
    /\ \A r \in Run, t \in Tasks \cup {None} : [r EXCEPT !.completion = t] \in Run
    /\ \A r \in Run, o \in Outcome : [r EXCEPT !.outcome = o] \in Run
    /\ \A r \in Run : /\ r.phase \in Phase
                       /\ r.inv \in InvIds \cup {0}
                       /\ r.handed \in Seq(BucketIds)
                       /\ r.turns \in Nat
                       /\ r.completion \in Tasks \cup {None}
                       /\ r.outcome \in Outcome
                       /\ r.aborted \in BOOLEAN
BY SMTT(60) DEF NoRun, Run, Phase, Outcome

\* The empty database and the fresh process are well typed.
LEMMA InitType == Init => TypeOK
<1> SUFFICES ASSUME Init PROVE TypeOK  OBVIOUS
<1>1. QueueTypeOK
  BY BucketRow, InvocationRow, ReceiptRow, PendingRow, StepRow
  DEF Init, QueueInit, QueueTypeOK
<1>2. RunTypeOK  BY RunRow DEF Init, RunInit, RunTypeOK
<1> QED BY <1>1, <1>2 DEF Init, TypeOK

\* #insertInvocation writes a well-typed invocation and join row.
LEMMA InsertType ==
    ASSUME QueueTypeOK, NEW i \in InvIds, NEW b \in BucketIds,
           NEW c \in Conversations \cup {None}, InsertInvocation(i, b, c)
    PROVE  invocations' \in [InvIds -> Invocation] /\ attached' \in [InvIds -> SUBSET BucketIds]
BY InvocationRow DEF QueueTypeOK, InsertInvocation

\* Every transition of InvocationQueueService preserves the types.
LEMMA QueueStepType ==
    ASSUME TypeOK, QueueStep, UNCHANGED <<runVars, active, woken>>
    PROVE  TypeOK'
<1> USE DEF TypeOK, QueueTypeOK, RunTypeOK, tables, policy, handover, runVars
<1>1. ASSUME NEW b \in BucketIds, DeferBucket(b) PROVE TypeOK'
  BY <1>1, BucketRow, StepRow DEF DeferBucket, NextDue
<1>2. ASSUME NEW b \in BucketIds, LeaveBucket(b) PROVE TypeOK'
  BY <1>2, StepRow DEF LeaveBucket, NextDue
<1>3. ASSUME NEW b \in BucketIds, SkipBucket(b) PROVE TypeOK'
  BY <1>3, BucketRow, StepRow DEF SkipBucket, CloseBucket, NextDue, BucketState
<1>4. ASSUME NEW b \in BucketIds, AttachBucket(b) PROVE TypeOK'
 <2> DEFINE c == buckets[b].conversation
 <2>1. PICK i \in RunningInvocation(c) : AttachBucketTo(i, b, c)  BY <1>4 DEF AttachBucket
 <2>2. buckets' \in [BucketIds -> Bucket]  BY <2>1, BucketRow DEF AttachBucketTo, BucketState
 <2>3. attached' \in [InvIds -> SUBSET BucketIds]  BY <2>1 DEF AttachBucketTo, RunningInvocation
 <2>4. pending' \in [Conversations -> Pending]  BY <2>1, PendingRow DEF AttachBucketTo
 <2>5. step' \in Step  BY <1>4, StepRow DEF AttachBucket, NextDue
 <2> QED BY <1>4, <2>2, <2>3, <2>4, <2>5 DEF AttachBucket
<1>5. ASSUME NEW b \in BucketIds, QueueBucket(b) PROVE TypeOK'
 <2> DEFINE c == buckets[b].conversation
 <2>1. PICK i \in InvIds : InsertInvocation(i, b, c)  BY <1>5 DEF QueueBucket
 <2>2. invocations' \in [InvIds -> Invocation] /\ attached' \in [InvIds -> SUBSET BucketIds]
   BY <2>1, InsertType DEF Bucket
 <2>3. buckets' \in [BucketIds -> Bucket]  BY <1>5, BucketRow DEF QueueBucket, BucketState
 <2>4. step' \in Step  BY <1>5, StepRow DEF QueueBucket, NextDue
 <2> QED BY <1>5, <2>2, <2>3, <2>4, SMTT(60) DEF QueueBucket
<1>6. ASSUME NEW b \in BucketIds, ReleaseBucket(b) PROVE TypeOK'
 <2> DEFINE c == buckets[b].conversation
 <2>1. step' \in Step  BY <1>6, StepRow DEF ReleaseBucket
 <2>2. CASE buckets[b].state # "running"
   BY <1>6, <2>1, <2>2, ReceiptRow, ZenonT(60) DEF ReleaseBucket, ReceiptState
 <2>3. CASE buckets[b].state = "running"
  <3>1. buckets' \in [BucketIds -> Bucket]
   <4>1. buckets' = [buckets EXCEPT ![b].state = "queued"]
     BY <1>6, <2>3 DEF ReleaseBucket, Requeue
   <4> QED BY <4>1, BucketRow DEF BucketState
  <3>2. PICK j \in InvIds :
           /\ InsertInvocation(j, b, c)
           /\ receipts' = [t \in Tasks |->
                 IF t \in {u \in ClaimedBy(step.inv) : receipts[u].bucket = b}
                 THEN [receipts[t] EXCEPT !.invocation = j] ELSE receipts[t]]
    BY <1>6, <2>3 DEF ReleaseBucket, Requeue
  <3>3. invocations' \in [InvIds -> Invocation] /\ attached' \in [InvIds -> SUBSET BucketIds]
    BY <3>2, InsertType DEF Bucket
  <3>4. receipts' \in [Tasks -> Receipt]  BY <3>2, ReceiptRow
  <3> QED BY <1>6, <2>1, <3>1, <3>3, <3>4 DEF ReleaseBucket
 <2> QED BY <2>2, <2>3
<1>7. ASSUME NEW t \in Tasks, SuppressReceipt(t) PROVE TypeOK'
  BY <1>7, ReceiptRow, StepRow DEF SuppressReceipt, NextReceipt, ReceiptState
<1>8. ASSUME NEW t \in Tasks, KeepReceipt(t) PROVE TypeOK'
  BY <1>8, StepRow DEF KeepReceipt, NextReceipt
<1>9. ASSUME NEW t \in Tasks, AttachReceipt(t) PROVE TypeOK'
 <2> DEFINE c == TaskConv[t]
 <2>1. PICK i \in RunningInvocation(c), b \in BucketIds :
         /\ buckets' = [buckets EXCEPT ![b] =
               [state |-> "running", conversation |-> c, due |-> TRUE]]
         /\ attached' = [attached EXCEPT ![i] = @ \cup {b}]
         /\ receipts' = [receipts EXCEPT ![t] =
               [state |-> "claimed", invocation |-> i, bucket |-> b]]
         /\ pending' = [pending EXCEPT ![c].completions = Append(@, b)]
   BY <1>9 DEF AttachReceipt
 <2>2. c \in Conversations /\ i \in InvIds  BY QueueAssumptions DEF RunningInvocation
 <2>3. buckets' \in [BucketIds -> Bucket]  BY <2>1, <2>2, BucketRow DEF BucketState
 <2>4. attached' \in [InvIds -> SUBSET BucketIds]  BY <2>1, <2>2
 <2>5. receipts' \in [Tasks -> Receipt]  BY <2>1, <2>2, ReceiptRow
 <2>6. pending' \in [Conversations -> Pending]  BY <2>1, PendingRow
 <2>7. step' \in Step  BY <1>9, StepRow DEF AttachReceipt, NextReceipt
 <2> QED BY <1>9, <2>3, <2>4, <2>5, <2>6, <2>7 DEF AttachReceipt
<1>10. ASSUME NEW t \in Tasks, QueueReceipt(t) PROVE TypeOK'
 <2> DEFINE c == TaskConv[t]
 <2>1. PICK i \in InvIds, b \in BucketIds :
         /\ buckets' = [buckets EXCEPT ![b] =
               [state |-> "queued", conversation |-> c, due |-> TRUE]]
         /\ InsertInvocation(i, b, c)
         /\ receipts' = [receipts EXCEPT ![t] =
               [state |-> "claimed", invocation |-> i, bucket |-> b]]
   BY <1>10 DEF QueueReceipt
 <2>2. c \in Conversations  BY QueueAssumptions
 <2>3. buckets' \in [BucketIds -> Bucket]  BY <2>1, <2>2, BucketRow DEF BucketState
 <2>4. invocations' \in [InvIds -> Invocation] /\ attached' \in [InvIds -> SUBSET BucketIds]
   BY <2>1, <2>2, InsertType
 <2>5. receipts' \in [Tasks -> Receipt]  BY <2>1, ReceiptRow
 <2>6. step' \in Step  BY <1>10, StepRow DEF QueueReceipt, NextReceipt
 <2> QED BY <1>10, <2>3, <2>4, <2>5, <2>6 DEF QueueReceipt
<1>11. CASE StartDue  BY <1>11, StepRow DEF StartDue, DueBuckets, StepName
<1>12. CASE EndDue  BY <1>12, StepRow DEF EndDue
<1>13. CASE VetQueued
 <2>1. step' \in Step  BY <1>13, StepRow DEF VetQueued, StepName
 <2>2. buckets' \in [BucketIds -> Bucket]
   BY <1>13, BucketRow DEF VetQueued, CloseBucket, BucketState
 <2>3. invocations' \in [InvIds -> Invocation]
   BY <1>13, InvocationRow DEF VetQueued, CloseInvocation, InvState, BucketState
 <2>4. receipts' \in [Tasks -> Receipt]  BY <1>13, ReceiptRow DEF VetQueued, ReceiptState
 <2> QED BY <1>13, <2>1, <2>2, <2>3, <2>4 DEF VetQueued
<1> QED BY <1>1, <1>2, <1>3, <1>4, <1>5, <1>6, <1>7, <1>8, <1>9, <1>10, <1>11, <1>12, <1>13 DEF QueueStep

\* Messages, passing windows and finished tasks preserve the types.
LEMMA ArrivalType ==
    ASSUME TypeOK, Arrival \/ (\E b \in BucketIds : DeadlinePasses(b)),
           UNCHANGED <<runVars, active, woken>>
    PROVE  TypeOK'
<1> USE DEF TypeOK, QueueTypeOK, RunTypeOK, policy, handover, runVars
<1>1. ASSUME NEW c \in Conversations, AppendToBucket(c) PROVE TypeOK'
 <2>1. PICK b \in BucketIds : buckets' = [buckets EXCEPT ![b] =
               [state |-> "collecting", conversation |-> c, due |-> ~WindowOpen]]
   BY <1>1 DEF AppendToBucket
 <2>2. (~WindowOpen) \in BOOLEAN  BY Zenon
 <2>3. [state |-> "collecting", conversation |-> c, due |-> ~WindowOpen] \in Bucket
  <3>1. "collecting" \in BucketState  BY DEF BucketState
  <3> QED BY <2>2, <3>1, BucketRow, Zenon
 <2>4. buckets' \in [BucketIds -> Bucket]  BY <2>1, <2>3
 <2> QED BY <1>1, <2>4 DEF AppendToBucket
<1>2. ASSUME NEW t \in Tasks, FinishTask(t) PROVE TypeOK'
  BY <1>2, ReceiptRow DEF FinishTask, ReceiptState
<1>3. ASSUME NEW b \in BucketIds, DeadlinePasses(b) PROVE TypeOK'
  BY <1>3, BucketRow DEF DeadlinePasses
<1> QED BY <1>1, <1>2, <1>3 DEF Arrival

\* Moving the collecting deadlines of a set of conversations keeps table buckets typed.
LEMMA DeferredType ==
    ASSUME QueueTypeOK, NEW C PROVE Deferred(C) \in [BucketIds -> Bucket]
BY BucketRow DEF QueueTypeOK, Deferred

\* getCompletion returns a task or nothing.
LEMMA CompletionType ==
    ASSUME NEW i, NEW b PROVE CompletionOf(i, b) \in Tasks \cup {None}
BY DEF CompletionOf

\* stop(reason) keeps the types of what it writes.
LEMMA StopType ==
    ASSUME TypeOK, NEW c \in Conversations, Stop(c)
    PROVE  /\ buckets' \in [BucketIds -> Bucket]
           /\ pending' \in [Conversations -> Pending]
           /\ closing' \in SUBSET Conversations
           /\ round' \in SUBSET Conversations
           /\ run' \in [Conversations -> Run]
BY DeferredType, RunRow DEF Stop, FreeAgent, TypeOK, QueueTypeOK, RunTypeOK, Phase

\* injectBatch keeps the types of what it writes.
LEMMA InjectType ==
    ASSUME TypeOK, NEW c \in Conversations, NEW all \in BOOLEAN, Inject(c, all)
    PROVE  /\ pending' \in [Conversations -> Pending]
           /\ round' \in SUBSET Conversations
           /\ run' \in [Conversations -> Run]
<1> USE DEF TypeOK, QueueTypeOK, RunTypeOK
<1>1. pending[c].messages \in Seq(BucketIds) /\ pending[c].completions \in Seq(BucketIds)
  BY DEF Pending
<1>2. ASSUME NEW batch \in Seq(BucketIds), InjectBatch(c, batch)
      PROVE  round' \in SUBSET Conversations /\ run' \in [Conversations -> Run]
  BY <1>2, RunRow, CompletionType, ZenonT(60) DEF InjectBatch, Phase
<1>3. CASE pending[c].messages # <<>>
 <2>1. /\ InjectBatch(c, pending[c].messages)
       /\ pending' = [pending EXCEPT ![c].messages = <<>>]
   BY <1>3 DEF Inject
 <2>2. pending' \in [Conversations -> Pending]  BY <2>1, PendingRow
 <2> QED BY <1>1, <1>2, <2>1, <2>2
<1>4. CASE pending[c].messages = <<>>
 <2>1. /\ pending[c].completions # <<>>
       /\ InjectBatch(c, <<Head(pending[c].completions)>>)
       /\ pending' = [pending EXCEPT ![c].completions = Tail(@)]
   BY <1>4 DEF Inject
 <2>2. <<Head(pending[c].completions)>> \in Seq(BucketIds)  BY <1>1, <2>1
 <2>3. pending' \in [Conversations -> Pending]  BY <2>1, PendingRow
 <2> QED BY <1>2, <2>1, <2>2, <2>3
<1> QED BY <1>3, <1>4

\* Every step of a run preserves the types.
LEMMA RunStepType ==
    ASSUME TypeOK, NEW c \in Conversations, RunStep(c), UNCHANGED <<active, woken>>
    PROVE  TypeOK'
<1> USE DEF TypeOK, QueueTypeOK, RunTypeOK, tables, policy, handover, runVars
<1>0. run[c] \in Run /\ run[c].inv \in InvIds \cup {0}
      /\ run[c].handed \in Seq(BucketIds) /\ run[c].turns + 1 \in Nat
  BY RunRow
<1>1. CASE LoadImages(c)  BY <1>1, RunRow DEF LoadImages, Phase
<1>2. CASE MessageEnd(c)
 <2>1. Head(run[c].handed) \in BucketIds /\ Tail(run[c].handed) \in Seq(BucketIds)
   BY <1>0, <1>2 DEF MessageEnd
 <2>2. run' \in [Conversations -> Run]  BY <1>2, <2>1, RunRow DEF MessageEnd
 <2>3. injected' \in [InvIds -> SUBSET BucketIds]  BY <1>2, <2>1 DEF MessageEnd
 <2>4. shown' \in [BucketIds -> 0..2]  BY <1>2, <2>1 DEF MessageEnd
 <2> QED BY <1>2, <2>2, <2>3, <2>4 DEF MessageEnd
<1>3. CASE HoldSend(c)
 <2>1. PICK b \in BucketIds : AttachBucketTo(run[c].inv, b, c)  BY <1>3 DEF HoldSend, Collecting
 <2>2. buckets' \in [BucketIds -> Bucket]  BY <2>1, BucketRow DEF AttachBucketTo, BucketState
 <2>3. attached' \in [InvIds -> SUBSET BucketIds]  BY <2>1 DEF AttachBucketTo
 <2>4. pending' \in [Conversations -> Pending]  BY <2>1, PendingRow DEF AttachBucketTo
 <2>5. run' \in [Conversations -> Run]  BY <1>3, RunRow DEF HoldSend
 <2> QED BY <1>3, <2>2, <2>3, <2>4, <2>5 DEF HoldSend
<1>4. CASE StartSend(c)  BY <1>4, InvocationRow DEF StartSend
<1>5. CASE StopForSleepOrBudget(c)  BY <1>5, StopType DEF StopForSleepOrBudget
<1>6. CASE GrantClosingTurn(c)
 <2>1. PICK phase \in {"model", "ending"} :
         run' = [run EXCEPT ![c].phase = phase, ![c].granted = TRUE,
                            ![c].turns = @ + 1]
   BY <1>6 DEF GrantClosingTurn
 <2>2. run' \in [Conversations -> Run]  BY <1>0, <2>1, RunRow DEF Phase
 <2> QED BY <1>6, <2>2 DEF GrantClosingTurn
<1>7. CASE StopForContextOrTurns(c)  BY <1>7, StopType DEF StopForContextOrTurns
<1>8. CASE Nudge(c)  BY <1>0, <1>8, RunRow DEF Nudge
<1>9. CASE ContinueTools(c)  BY <1>0, <1>9, RunRow DEF ContinueTools
<1>10. CASE InjectBetweenTools(c)  BY <1>10, InjectType DEF InjectBetweenTools
<1>11. CASE StopAfterReceipt(c)  BY <1>11, StopType DEF StopAfterReceipt
<1>12. CASE InjectAfterRound(c)  BY <1>12, InjectType DEF InjectAfterRound
<1>13. CASE EndRound(c)
 <2>1. buckets' \in [BucketIds -> Bucket] /\ round' \in SUBSET Conversations
   BY <1>13, DeferredType DEF EndRound, FreeAgent
 <2>2. closing' \in SUBSET Conversations  BY <1>13 DEF EndRound
 <2>3. run' \in [Conversations -> Run]
  <3>1. CASE run' = [run EXCEPT ![c].phase = "grace", ![c].completion = None,
                                ![c].barrierSpent = FALSE, ![c].turns = @ + 1]
    BY <1>0, <3>1, RunRow DEF Phase
  <3>2. CASE run' = [run EXCEPT ![c].phase = "ending", ![c].completion = None,
                                ![c].barrierSpent = FALSE]
    BY <3>2, RunRow DEF Phase
  <3> QED BY <1>13, <3>1, <3>2 DEF EndRound
 <2> QED BY <1>13, <2>1, <2>2, <2>3 DEF EndRound
<1>14. CASE GraceWakes(c)  BY <1>14, InjectType DEF GraceWakes
<1>15. CASE GraceTimesOut(c)  BY <1>15, RunRow DEF GraceTimesOut, Phase
<1>16. CASE EndAfterGrace(c)  BY <1>16, RunRow DEF EndAfterGrace, Phase
<1>17. CASE StopForWallClock(c)  BY <1>17, StopType DEF StopForWallClock
<1>18. CASE AbortForWallClock(c)  BY <1>18, RunRow DEF AbortForWallClock
<1>19. CASE RunFinally(c)
 <2>1. PICK o \in Outcomes(c) :
         run' = [run EXCEPT ![c] =
             [NoRun EXCEPT !.phase = "dead", !.inv = run[c].inv,
                           !.aborted = run[c].aborted, !.outcome = o]]
   BY <1>19 DEF RunFinally
 <2>2. o \in Outcome  BY DEF Outcomes, Outcome
 <2>3. run' \in [Conversations -> Run]  BY <1>0, <2>1, <2>2, RunRow DEF Phase
 <2>4. pending' \in [Conversations -> Pending]  BY <1>19, PendingRow DEF RunFinally, DropPending
 <2> QED BY <1>19, <2>3, <2>4 DEF RunFinally
<1> QED BY <1>1, <1>2, <1>3, <1>4, <1>5, <1>6, <1>7, <1>8, <1>9, <1>10, <1>11, <1>12,
           <1>13, <1>14, <1>15, <1>16, <1>17, <1>18, <1>19 DEF RunStep

\* A run that settled with an outcome closes its rows in a state of both tables.
LEMMA FinalStateType ==
    ASSUME TypeOK, NEW c \in Conversations
    PROVE  FinalState(c) \in InvState \cap BucketState
BY RunRow DEF FinalState, TypeOK, RunTypeOK, Outcome, InvState, BucketState

\* An abort signal keeps the runs typed.
LEMMA AbortType ==
    ASSUME TypeOK, NEW C, Abort(C) PROVE run' \in [Conversations -> Run]
BY RunRow DEF Abort, TypeOK, RunTypeOK

\* /pause and "cancel ongoing" keep the three tables typed.
LEMMA CloseUnstartedType ==
    ASSUME TypeOK, NEW C, CloseUnstarted(C)
    PROVE  /\ buckets' \in [BucketIds -> Bucket]
           /\ receipts' \in [Tasks -> Receipt]
           /\ invocations' \in [InvIds -> Invocation]
<1> USE DEF TypeOK, QueueTypeOK
<1>1. buckets' \in [BucketIds -> Bucket]
  BY BucketRow DEF CloseUnstarted, CloseBucket, BucketState
<1>2. receipts' \in [Tasks -> Receipt]
  BY ReceiptRow DEF CloseUnstarted, SuppressClaims, ReceiptState
<1>3. invocations' \in [InvIds -> Invocation]
  BY InvocationRow DEF CloseUnstarted, CloseInvocation, InvState, BucketState
<1> QED BY <1>1, <1>2, <1>3

\* recover() keeps the three tables typed.
LEMMA RecoverType ==
    ASSUME TypeOK, NEW old, Recover(old)
    PROVE  /\ buckets' \in [BucketIds -> Bucket]
           /\ receipts' \in [Tasks -> Receipt]
           /\ invocations' \in [InvIds -> Invocation]
<1> USE DEF TypeOK, QueueTypeOK
<1>1. buckets' \in [BucketIds -> Bucket]  BY BucketRow DEF Recover, CloseBucket, BucketState
<1>2. receipts' \in [Tasks -> Receipt]  BY ReceiptRow DEF Recover, ReceiptState
<1>3. invocations' \in [InvIds -> Invocation]
  BY InvocationRow DEF Recover, RecoveredInvocation, CloseInvocation, InvState, BucketState
<1> QED BY <1>1, <1>2, <1>3

\* Entering processTasksDue keeps the block typed.
LEMMA StartTasksType ==
    ASSUME NEW then \in {"idle", "vet"}, StartTasks(then) PROVE step' \in Step
BY StepRow DEF StartTasks

\* Every step of the system preserves the types.
LEMMA SchedulerType ==
    ASSUME TypeOK, RowsLinked,
           \/ Tick \/ EndTick \/ CancelOngoing \/ ToggleSleep \/ CrashAndRestart
           \/ \E i \in InvIds : Launch(i)
           \/ \E c \in Conversations : BeginFinish(c) \/ FailFinish(c) \/ AbortConversation(c)
           \/ \E c \in Conversations, w \in BOOLEAN : EndFinish(c, w)
           \/ \E k \in Chats : Pause(k) \/ Resume(k)
    PROVE  TypeOK'
<1> USE DEF TypeOK, QueueTypeOK, RunTypeOK, tables, policy, handover, runVars
<1>1. CASE Tick  BY <1>1, StartTasksType DEF Tick
<1>2. CASE EndTick  BY <1>2, StepRow DEF EndTick
<1>3. CASE CancelOngoing  BY <1>3, CloseUnstartedType, AbortType DEF CancelOngoing
<1>4. CASE ToggleSleep
 <2>1. asleep' \in BOOLEAN  BY <1>4, Zenon DEF ToggleSleep
 <2> QED BY <1>4, <2>1 DEF ToggleSleep
<1>5. CASE CrashAndRestart
 <2>1. removed' \in SUBSET (Chats \cup Conversations)
   BY <1>5, SchedulerAssumptions DEF CrashAndRestart
 <2>2. pending' \in [Conversations -> Pending]  BY <1>5, PendingRow DEF CrashAndRestart
 <2>3. run' \in [Conversations -> Run] /\ step' \in Step
   BY <1>5, RunRow, StepRow DEF CrashAndRestart
 <2>4. /\ buckets' \in [BucketIds -> Bucket]
       /\ receipts' \in [Tasks -> Receipt]
       /\ invocations' \in [InvIds -> Invocation]
   BY <1>5, RecoverType DEF CrashAndRestart
 <2> QED BY <1>5, <2>1, <2>2, <2>3, <2>4 DEF CrashAndRestart
<1>6. ASSUME NEW i \in InvIds, Launch(i) PROVE TypeOK'
 <2> DEFINE c == invocations[i].conversation
            b == invocations[i].bucket
 <2>1. invocations' \in [InvIds -> Invocation]
   BY <1>6, InvocationRow DEF Launch, InvState, BucketState
 <2>2. buckets' \in [BucketIds -> Bucket]  BY <1>6, BucketRow DEF Launch, BucketState
 <2>3. step' \in Step  BY <1>6, StepRow DEF Launch, StepName
 <2>4. b \in BucketIds /\ c \in Conversations
   BY <1>6 DEF Launch, Launchable, Candidates, QueuedInvocations, RowsLinked
 <2>5. CASE OpenRun(i, c)
  <3>1. <<b>> \in Seq(BucketIds)  BY <2>4
  <3>2. [NoRun EXCEPT !.phase = "loading", !.inv = i, !.handed = <<b>>,
                      !.completion = CompletionOf(i, b)] \in Run
    BY <3>1, RunRow, CompletionType DEF Phase
  <3>3. run' \in [Conversations -> Run] /\ round' \in SUBSET Conversations
    BY <2>4, <2>5, <3>2 DEF OpenRun
  <3> QED BY <1>6, <2>1, <2>2, <2>3, <3>3 DEF Launch
 <2>6. CASE FailToOpen(i, c)
  <3>1. [NoRun EXCEPT !.phase = "dead", !.inv = i, !.outcome = "thrown"] \in Run
    BY RunRow DEF Phase, Outcome
  <3>2. run' \in [Conversations -> Run] /\ round' = round  BY <2>6, <3>1 DEF FailToOpen
  <3> QED BY <1>6, <2>1, <2>2, <2>3, <3>2 DEF Launch
 <2> QED BY <1>6, <2>5, <2>6 DEF Launch
<1>7. ASSUME NEW c \in Conversations, BeginFinish(c) PROVE TypeOK'
 <2> DEFINE i == run[c].inv
 <2>1. i \in InvIds  BY <1>7 DEF BeginFinish, RowsLinked
 <2>2. invocations' \in [InvIds -> Invocation]
   BY <1>7, <2>1, FinalStateType, InvocationRow DEF BeginFinish, CloseInvocation
 <2>3. step' \in Step  BY <1>7, <2>1, StepRow DEF BeginFinish, Uninjected
 <2> QED BY <1>7, <2>2, <2>3 DEF BeginFinish
<1>8. ASSUME NEW c \in Conversations, FailFinish(c) PROVE TypeOK'
  BY <1>8, RunRow DEF FailFinish, FreeSlot
<1>9. ASSUME NEW c \in Conversations, AbortConversation(c) PROVE TypeOK'
  BY <1>9, AbortType DEF AbortConversation
<1>10. ASSUME NEW c \in Conversations, NEW w \in BOOLEAN, EndFinish(c, w) PROVE TypeOK'
 <2>1. buckets' \in [BucketIds -> Bucket]
   BY <1>10, FinalStateType, DeferredType, BucketRow DEF EndFinish, CloseBucket
 <2>2. receipts' \in [Tasks -> Receipt]
   BY <1>10, ReceiptRow DEF EndFinish, SettleClaims, ReceiptState
 <2>3. step' \in Step  BY <1>10, StartTasksType DEF EndFinish
 <2>4. run' \in [Conversations -> Run] /\ active' \in SUBSET InvIds
   BY <1>10, RunRow DEF EndFinish, FreeSlot
 <2> QED BY <1>10, <2>1, <2>2, <2>3, <2>4 DEF EndFinish
<1>11. ASSUME NEW k \in Chats, Pause(k) PROVE TypeOK'
  BY <1>11, CloseUnstartedType, AbortType DEF Pause
<1>12. ASSUME NEW k \in Chats, Resume(k) PROVE TypeOK'  BY <1>12 DEF Resume
<1> QED BY <1>1, <1>2, <1>3, <1>4, <1>5, <1>6, <1>7, <1>8, <1>9, <1>10, <1>11, <1>12

\* Every transition of InvocationQueueService keeps the references of rows and runs.
LEMMA QueueStepLinked ==
    ASSUME TypeOK, RowsLinked, QueueStep, UNCHANGED <<runVars, active, woken>>
    PROVE  RowsLinked'
<1> USE DEF TypeOK, QueueTypeOK, RunTypeOK, RowsLinked, tables, policy, handover, runVars
<1>1. ASSUME NEW b \in BucketIds, DeferBucket(b) PROVE RowsLinked'
  BY <1>1 DEF DeferBucket, NextDue, Bucket, Step
<1>2. ASSUME NEW b \in BucketIds, LeaveBucket(b) PROVE RowsLinked'
  BY <1>2 DEF LeaveBucket, NextDue, Step
<1>3. ASSUME NEW b \in BucketIds, SkipBucket(b) PROVE RowsLinked'
  BY <1>3 DEF SkipBucket, CloseBucket, NextDue, Bucket, Step
<1>4. ASSUME NEW b \in BucketIds, AttachBucket(b) PROVE RowsLinked'
  BY <1>4 DEF AttachBucket, AttachBucketTo, RunningInvocation, NextDue, Bucket, Step
<1>5. ASSUME NEW b \in BucketIds, QueueBucket(b) PROVE RowsLinked'
  BY <1>5 DEF QueueBucket, InsertInvocation, FreshInvocation, NextDue, Bucket, Invocation, Step
<1>6. ASSUME NEW b \in BucketIds, ReleaseBucket(b) PROVE RowsLinked'
 <2>1. step' = [step EXCEPT !.buckets = @ \ {b}] /\ b \in step.buckets
   BY <1>6 DEF ReleaseBucket
 <2>2. CASE buckets[b].state # "running"  BY <1>6, <2>1, <2>2 DEF ReleaseBucket, Step
 <2>3. CASE buckets[b].state = "running"
  <3>1. /\ buckets' = [buckets EXCEPT ![b].state = "queued"]
        /\ \E j \in InvIds : InsertInvocation(j, b, buckets[b].conversation)
    BY <1>6, <2>3 DEF ReleaseBucket, Requeue
  <3> QED BY <2>1, <2>3, <3>1 DEF InsertInvocation, FreshInvocation, Bucket, Invocation, Step
 <2> QED BY <2>2, <2>3
<1>7. ASSUME NEW t \in Tasks, SuppressReceipt(t) PROVE RowsLinked'
  BY <1>7 DEF SuppressReceipt, NextReceipt, Step
<1>8. ASSUME NEW t \in Tasks, KeepReceipt(t) PROVE RowsLinked'
  BY <1>8 DEF KeepReceipt, NextReceipt, Step
<1>9. ASSUME NEW t \in Tasks, AttachReceipt(t) PROVE RowsLinked'
  BY <1>9, QueueAssumptions DEF AttachReceipt, NextReceipt, RunningInvocation, FreshBucket, Bucket, Step
<1>10. ASSUME NEW t \in Tasks, QueueReceipt(t) PROVE RowsLinked'
 <2>1. PICK i \in InvIds, b \in BucketIds :
         /\ FreshBucket(b)
         /\ buckets' = [buckets EXCEPT ![b] =
               [state |-> "queued", conversation |-> TaskConv[t], due |-> TRUE]]
         /\ InsertInvocation(i, b, TaskConv[t])
   BY <1>10 DEF QueueReceipt
 <2>2. step'.buckets = step.buckets  BY <1>10 DEF QueueReceipt, NextReceipt, Step
 <2> QED BY <2>1, <2>2, QueueAssumptions
         DEF InsertInvocation, FreshInvocation, FreshBucket, Bucket, Invocation
<1>11. CASE StartDue  BY <1>11 DEF StartDue, DueBuckets, Step
<1>12. CASE EndDue  BY <1>12 DEF EndDue, Idle
<1>13. CASE VetQueued
 <2>1. ASSUME NEW i \in InvIds
       PROVE  /\ invocations'[i].conversation = invocations[i].conversation
              /\ invocations'[i].bucket = invocations[i].bucket
              /\ invocations[i].state = "none" => invocations'[i].state = "none"
   BY <1>13, ZenonT(60) DEF VetQueued, QueuedInvocations, DroppedInvocations, InvalidClaims,
                          SleepSkips, CloseInvocation, Invocation
 <2>2. ASSUME NEW I, I \subseteq QueuedInvocations, NEW b \in JoinedTo(I)
       PROVE  buckets[b].state # "none"
   BY <2>2 DEF JoinedTo, QueuedInvocations
 <2>3. ASSUME NEW b \in BucketIds
       PROVE  /\ buckets'[b].conversation = buckets[b].conversation
              /\ buckets'[b].state = "none" <=> buckets[b].state = "none"
  <3>1. buckets'[b] = IF b \in JoinedTo(SleepSkips) THEN CloseBucket(b, "skipped_budget")
                      ELSE IF b \in JoinedTo(DroppedInvocations) THEN CloseBucket(b, "aborted")
                      ELSE buckets[b]
    BY <1>13 DEF VetQueued
  <3>2. DroppedInvocations \subseteq QueuedInvocations /\ SleepSkips \subseteq QueuedInvocations
    BY DEF DroppedInvocations, InvalidClaims, SleepSkips
  <3> QED BY <2>2, <3>1, <3>2 DEF CloseBucket, Bucket
 <2> QED BY <1>13, <2>1, <2>3 DEF VetQueued, Step
<1> QED BY <1>1, <1>2, <1>3, <1>4, <1>5, <1>6, <1>7, <1>8, <1>9, <1>10, <1>11, <1>12, <1>13 DEF QueueStep

\* Messages, passing windows and finished tasks keep the references.
LEMMA ArrivalLinked ==
    ASSUME TypeOK, RowsLinked, Arrival \/ (\E b \in BucketIds : DeadlinePasses(b)),
           UNCHANGED <<runVars, active, woken>>
    PROVE  RowsLinked'
<1> USE DEF TypeOK, QueueTypeOK, RunTypeOK, RowsLinked, policy, handover, runVars
<1>1. ASSUME NEW c \in Conversations, AppendToBucket(c) PROVE RowsLinked'
  BY <1>1 DEF AppendToBucket, FreshBucket, Bucket
<1>2. ASSUME NEW t \in Tasks, FinishTask(t) PROVE RowsLinked'  BY <1>2 DEF FinishTask
<1>3. ASSUME NEW b \in BucketIds, DeadlinePasses(b) PROVE RowsLinked'
  BY <1>3 DEF DeadlinePasses, Bucket
<1> QED BY <1>1, <1>2, <1>3 DEF Arrival

\* Moving collecting deadlines changes neither the state nor the conversation of a batch.
LEMMA DeferredRows ==
    ASSUME QueueTypeOK, NEW C, NEW b \in BucketIds
    PROVE  /\ Deferred(C)[b].state = buckets[b].state
           /\ Deferred(C)[b].conversation = buckets[b].conversation
BY DEF QueueTypeOK, Deferred, Bucket

\* The block under way and the join table name bucket ids only.
LEMMA QueueRefs ==
    ASSUME QueueTypeOK
    PROVE  step.buckets \subseteq BucketIds /\ \A i \in InvIds : attached[i] \subseteq BucketIds
BY StepRow DEF QueueTypeOK

\* stop(reason) keeps the references.
LEMMA StopLinked ==
    ASSUME TypeOK, RowsLinked, NEW c \in Conversations, Stop(c), run[c].phase # "off",
           UNCHANGED <<invocations, attached, step>>
    PROVE  RowsLinked'
<1>1. ASSUME NEW d \in Conversations
      PROVE  /\ run'[d].inv = run[d].inv
             /\ run'[d].phase = IF d = c THEN "ending" ELSE run[d].phase
             /\ run'[d].outcome = run[d].outcome
  BY DEF Stop, TypeOK, RunTypeOK, Run
<1>2. ASSUME NEW b \in BucketIds
      PROVE  /\ buckets'[b].state = buckets[b].state
             /\ buckets'[b].conversation = buckets[b].conversation
  BY DeferredRows DEF Stop, FreeAgent, TypeOK
<1> QED BY <1>1, <1>2, QueueRefs DEF RowsLinked, TypeOK

\* injectBatch keeps the references: the run goes on under the same invocation.
LEMMA InjectLinked ==
    ASSUME TypeOK, RowsLinked, NEW c \in Conversations, NEW all \in BOOLEAN, Inject(c, all),
           run[c].phase # "off", UNCHANGED <<buckets, invocations, attached, step>>
    PROVE  RowsLinked'
<1>1. ASSUME NEW batch, InjectBatch(c, batch), NEW d \in Conversations
      PROVE  /\ run'[d].inv = run[d].inv
             /\ run'[d].phase = IF d = c THEN "loading" ELSE run[d].phase
             /\ run'[d].outcome = run[d].outcome
  BY <1>1 DEF InjectBatch, TypeOK, RunTypeOK, Run
<1>2. \E batch : InjectBatch(c, batch)  BY DEF Inject
<1> QED BY <1>1, <1>2 DEF RowsLinked

\* Every step of a run keeps the references, and a settled run has an outcome.
LEMMA RunStepLinked ==
    ASSUME TypeOK, RowsLinked, NEW c \in Conversations, RunStep(c), UNCHANGED <<active, woken>>
    PROVE  RowsLinked'
<1> USE DEF TypeOK, QueueTypeOK, RunTypeOK, RowsLinked, tables, policy, handover, runVars,
            Live, TurnEnd, MayContinue, Sending
<1>1. CASE LoadImages(c)  BY <1>1 DEF LoadImages, Run
<1>2. CASE MessageEnd(c)  BY <1>2 DEF MessageEnd, Run
<1>3. CASE HoldSend(c)  BY <1>3 DEF HoldSend, AttachBucketTo, Collecting, Bucket, Run
<1>4. CASE StartSend(c)  BY <1>4 DEF StartSend, Invocation
<1>5. CASE StopForSleepOrBudget(c)  BY <1>5, StopLinked DEF StopForSleepOrBudget
<1>6. CASE GrantClosingTurn(c)  BY <1>6 DEF GrantClosingTurn, Run
<1>7. CASE StopForContextOrTurns(c)  BY <1>7, StopLinked DEF StopForContextOrTurns
<1>8. CASE Nudge(c)  BY <1>8 DEF Nudge, Run
<1>9. CASE ContinueTools(c)  BY <1>9 DEF ContinueTools, Run
<1>10. CASE InjectBetweenTools(c)  BY <1>10, InjectLinked DEF InjectBetweenTools
<1>11. CASE StopAfterReceipt(c)  BY <1>11, StopLinked DEF StopAfterReceipt
<1>12. CASE InjectAfterRound(c)  BY <1>12, InjectLinked DEF InjectAfterRound
<1>13. CASE EndRound(c)
 <2>1. ASSUME NEW d \in Conversations
       PROVE  /\ run'[d].inv = run[d].inv
              /\ d # c => run'[d].phase = run[d].phase
              /\ run'[c].phase \in {"grace", "ending"}
              /\ run'[d].outcome = run[d].outcome
  <3>1. CASE IdleGrace  BY <1>13, <3>1 DEF EndRound, Run
  <3>2. CASE ~IdleGrace  BY <1>13, <3>2 DEF EndRound, Run
  <3> QED BY <3>1, <3>2
 <2>2. ASSUME NEW b \in BucketIds
       PROVE  /\ buckets'[b].state = buckets[b].state
              /\ buckets'[b].conversation = buckets[b].conversation
   BY <1>13, DeferredRows DEF EndRound, FreeAgent
 <2>3. UNCHANGED <<invocations, attached, step>> /\ run[c].phase = "model"
   BY <1>13 DEF EndRound
 <2>4. step.buckets \subseteq BucketIds /\ \A i \in InvIds : attached[i] \subseteq BucketIds
   BY QueueRefs
 <2> HIDE DEF TypeOK, QueueTypeOK, RunTypeOK
 <2> QED BY <2>1, <2>2, <2>3, <2>4
<1>14. CASE GraceWakes(c)  BY <1>14, InjectLinked DEF GraceWakes
<1>15. CASE GraceTimesOut(c)  BY <1>15 DEF GraceTimesOut, Run
<1>16. CASE EndAfterGrace(c)  BY <1>16 DEF EndAfterGrace, Run
<1>17. CASE StopForWallClock(c)  BY <1>17, StopLinked DEF StopForWallClock
<1>18. CASE AbortForWallClock(c)  BY <1>18 DEF AbortForWallClock, Run
<1>19. CASE RunFinally(c)  BY <1>19 DEF RunFinally, Outcomes, NoRun, Run
<1> QED BY <1>1, <1>2, <1>3, <1>4, <1>5, <1>6, <1>7, <1>8, <1>9, <1>10, <1>11, <1>12,
           <1>13, <1>14, <1>15, <1>16, <1>17, <1>18, <1>19 DEF RunStep

\* An abort signal changes neither phase, invocation nor outcome of a run.
LEMMA AbortLinked ==
    ASSUME TypeOK, NEW C, Abort(C), NEW c \in Conversations
    PROVE  /\ run'[c].phase = run[c].phase
           /\ run'[c].inv = run[c].inv
           /\ run'[c].outcome = run[c].outcome
BY DEF Abort, TypeOK, RunTypeOK, Run

\* /pause and "cancel ongoing" create no row and change no reference.
LEMMA CloseUnstartedRows ==
    ASSUME TypeOK, NEW C, CloseUnstarted(C)
    PROVE  /\ \A b \in BucketIds :
                 /\ buckets'[b].conversation = buckets[b].conversation
                 /\ buckets'[b].state = "none" <=> buckets[b].state = "none"
           /\ \A i \in InvIds :
                 /\ invocations'[i].conversation = invocations[i].conversation
                 /\ invocations'[i].bucket = invocations[i].bucket
                 /\ invocations'[i].state = "none" <=> invocations[i].state = "none"
<1> USE DEF TypeOK, QueueTypeOK
<1>1. ASSUME NEW b \in BucketIds
      PROVE  /\ buckets'[b].conversation = buckets[b].conversation
             /\ buckets'[b].state = "none" <=> buckets[b].state = "none"
 <2>1. buckets[b] \in Bucket  OBVIOUS
 <2>2. \/ b \in Unstarted(C) /\ buckets'[b] = CloseBucket(b, "expired")
       \/ buckets'[b] = buckets[b]
   BY DEF CloseUnstarted
 <2>3. b \in Unstarted(C) => buckets[b].state # "none"  BY DEF Unstarted
 <2> QED BY <2>1, <2>2, <2>3 DEF CloseBucket, Bucket
<1>2. ASSUME NEW i \in InvIds
      PROVE  /\ invocations'[i].conversation = invocations[i].conversation
             /\ invocations'[i].bucket = invocations[i].bucket
             /\ invocations'[i].state = "none" <=> invocations[i].state = "none"
 <2>1. invocations[i] \in Invocation  OBVIOUS
 <2>2. \/ i \in QueuedInvocations /\ invocations'[i] = CloseInvocation(i, "aborted")
       \/ invocations'[i] = invocations[i]
   BY DEF CloseUnstarted, UnstartedInvocations
 <2> QED BY <2>1, <2>2 DEF QueuedInvocations, CloseInvocation, Invocation
<1> QED BY <1>1, <1>2

\* recover() creates no row and changes no reference.
LEMMA RecoverRows ==
    ASSUME TypeOK, RowsLinked, NEW old, Recover(old)
    PROVE  /\ \A b \in BucketIds :
                 /\ buckets'[b].conversation = buckets[b].conversation
                 /\ buckets'[b].state = "none" <=> buckets[b].state = "none"
           /\ \A i \in InvIds :
                 /\ invocations'[i].conversation = invocations[i].conversation
                 /\ invocations'[i].bucket = invocations[i].bucket
                 /\ invocations'[i].state = "none" <=> invocations[i].state = "none"
<1> USE DEF TypeOK, QueueTypeOK
<1>1. ASSUME NEW i \in InvIds
      PROVE  /\ invocations'[i].conversation = invocations[i].conversation
             /\ invocations'[i].bucket = invocations[i].bucket
             /\ invocations'[i].state = "none" <=> invocations[i].state = "none"
 <2>1. invocations[i] \in Invocation  OBVIOUS
 <2>2. \/ /\ invocations[i].state \in {"running", "queued"}
          /\ \E st \in {"outcome_unknown", "aborted"} : invocations'[i] = CloseInvocation(i, st)
       \/ invocations'[i] = invocations[i]
   BY SMTT(60) DEF Recover, QueuedInvocations, RecoveredInvocation
 <2> QED BY <2>1, <2>2 DEF CloseInvocation, Invocation
<1>2. ASSUME NEW b \in BucketIds
      PROVE  /\ buckets'[b].conversation = buckets[b].conversation
             /\ buckets'[b].state = "none" <=> buckets[b].state = "none"
 <2> DEFINE replayed == {receipts[t].invocation : t \in {u \in Tasks : receipts[u].state = "claimed"}}
                            \cap QueuedInvocations
 <2>1. b \in JoinedTo(replayed) => buckets[b].state # "none"
   BY DEF JoinedTo, QueuedInvocations, RowsLinked
 <2>2. \/ b \in JoinedTo(replayed) /\ buckets'[b] = CloseBucket(b, "aborted")
       \/ buckets[b].state # "none" /\ \E st \in {"outcome_unknown", "aborted", "expired"} :
                                           buckets'[b] = CloseBucket(b, st)
       \/ buckets'[b] = buckets[b]
   BY DEF Recover
 <2> HIDE DEF replayed
 <2> QED BY <2>1, <2>2 DEF CloseBucket, Bucket
<1> QED BY <1>1, <1>2

\* Every step of the system keeps the references of rows and runs.
LEMMA SchedulerLinked ==
    ASSUME TypeOK, RowsLinked,
           \/ Tick \/ EndTick \/ CancelOngoing \/ ToggleSleep \/ CrashAndRestart
           \/ \E i \in InvIds : Launch(i)
           \/ \E c \in Conversations : BeginFinish(c) \/ FailFinish(c) \/ AbortConversation(c)
           \/ \E c \in Conversations, w \in BOOLEAN : EndFinish(c, w)
           \/ \E k \in Chats : Pause(k) \/ Resume(k)
    PROVE  RowsLinked'
<1> USE DEF RowsLinked, tables, policy, handover, runVars
<1>0. step.buckets \subseteq BucketIds /\ \A i \in InvIds : attached[i] \subseteq BucketIds
  BY QueueRefs DEF TypeOK
<1>1. CASE Tick  BY <1>1 DEF Tick, StartTasks
<1>2. CASE EndTick  BY <1>2 DEF EndTick, Idle
<1>3. CASE CancelOngoing  BY <1>0, <1>3, CloseUnstartedRows, AbortLinked DEF CancelOngoing
<1>4. CASE ToggleSleep  BY <1>4 DEF ToggleSleep
<1>5. CASE CrashAndRestart
 <2>1. \E old : Recover(old)  BY <1>5 DEF CrashAndRestart
 <2>2. step'.buckets = {} /\ attached' = attached
       /\ \A c \in Conversations : run'[c].phase = "off"
   BY <1>5 DEF CrashAndRestart, Idle, NoRun
 <2> QED BY <1>0, <2>1, <2>2, RecoverRows
<1>6. ASSUME NEW i \in InvIds, Launch(i) PROVE RowsLinked'
 <2> DEFINE b == invocations[i].bucket
 <2>1. invocations[i].state = "queued" /\ b \in attached[i]
   BY <1>6 DEF Launch, Launchable, Candidates, QueuedInvocations
 <2>2. ASSUME NEW d \in BucketIds
       PROVE  /\ buckets'[d].conversation = buckets[d].conversation
              /\ buckets[d].state # "none" => buckets'[d].state # "none"
              /\ buckets[d].state = "none" => buckets'[d].state = "none"
   BY <1>0, <1>6, <2>1 DEF Launch, TypeOK, QueueTypeOK, Bucket
 <2>3. ASSUME NEW j \in InvIds
       PROVE  /\ invocations'[j].conversation = invocations[j].conversation
              /\ invocations'[j].bucket = invocations[j].bucket
              /\ invocations[j].state = "none" => invocations'[j].state = "none"
   BY <1>6, <2>1 DEF Launch, TypeOK, QueueTypeOK, Invocation
 <2>4. ASSUME NEW c \in Conversations
       PROVE  /\ run'[c].phase # "off" => run'[c].inv \in InvIds
              /\ run'[c].phase = "dead" => run'[c].outcome # "none"
  <3>1. CASE OpenRun(i, invocations[i].conversation)
    BY <3>1 DEF OpenRun, NoRun, TypeOK, RunTypeOK
  <3>2. CASE FailToOpen(i, invocations[i].conversation)
    BY <3>2 DEF FailToOpen, NoRun, TypeOK, RunTypeOK
  <3> QED BY <1>6, <3>1, <3>2 DEF Launch
 <2>5. step'.buckets = step.buckets /\ attached' = attached
   BY <1>6 DEF Launch, TypeOK, QueueTypeOK, Step
 <2> QED BY <1>0, <2>2, <2>3, <2>4, <2>5
<1>7. ASSUME NEW c \in Conversations, BeginFinish(c) PROVE RowsLinked'
 <2>1. run[c].inv \in InvIds /\ step'.buckets \subseteq attached[run[c].inv]
   BY <1>7 DEF BeginFinish, Idle, Uninjected
 <2>2. ASSUME NEW j \in InvIds
       PROVE  /\ invocations'[j].conversation = invocations[j].conversation
              /\ invocations'[j].bucket = invocations[j].bucket
              /\ invocations[j].state = "none" => invocations'[j].state = "none"
   BY <1>7 DEF BeginFinish, CloseInvocation, TypeOK, QueueTypeOK, Invocation
 <2> QED BY <1>7, <2>1, <2>2 DEF BeginFinish
<1>8. ASSUME NEW c \in Conversations, FailFinish(c) PROVE RowsLinked'
  BY <1>8 DEF FailFinish, NoRun, TypeOK, RunTypeOK
<1>9. ASSUME NEW c \in Conversations, AbortConversation(c) PROVE RowsLinked'
  BY <1>9, AbortLinked DEF AbortConversation
<1>10. ASSUME NEW c \in Conversations, NEW w \in BOOLEAN, EndFinish(c, w) PROVE RowsLinked'
 <2>1. FinalState(c) # "none"  BY <1>10 DEF EndFinish, FinalState
 <2>2. ASSUME NEW d \in BucketIds
       PROVE  /\ buckets'[d].conversation = buckets[d].conversation
              /\ buckets[d].state # "none" <=> buckets'[d].state # "none"
  <3>1. \/ buckets[d].state = "running" /\ buckets'[d] = CloseBucket(d, FinalState(c))
        \/ buckets'[d] = Deferred({v \in Conversations : ChatOf[v] = ChatOf[c]})[d]
        \/ buckets'[d] = buckets[d]
    BY <1>10 DEF EndFinish
  <3>2. CASE buckets[d].state = "running" /\ buckets'[d] = CloseBucket(d, FinalState(c))
    BY <2>1, <3>2 DEF CloseBucket, TypeOK, QueueTypeOK, Bucket
  <3>3. CASE buckets'[d] = Deferred({v \in Conversations : ChatOf[v] = ChatOf[c]})[d]
    BY <3>3, DeferredRows DEF TypeOK
  <3> QED BY <3>1, <3>2, <3>3
 <2>3. step'.buckets = {} /\ invocations' = invocations /\ attached' = attached
   BY <1>10 DEF EndFinish, StartTasks
 <2>4. ASSUME NEW d \in Conversations
       PROVE  /\ run'[d].phase # "off" => run'[d].inv \in InvIds
              /\ run'[d].phase = "dead" => run'[d].outcome # "none"
   BY <1>10 DEF EndFinish, NoRun, TypeOK, RunTypeOK
 <2> QED BY <1>0, <2>2, <2>3, <2>4
<1>11. ASSUME NEW k \in Chats, Pause(k) PROVE RowsLinked'
  BY <1>0, <1>11, CloseUnstartedRows, AbortLinked DEF Pause
<1>12. ASSUME NEW k \in Chats, Resume(k) PROVE RowsLinked'  BY <1>12 DEF Resume
<1> QED BY <1>1, <1>2, <1>3, <1>4, <1>5, <1>6, <1>7, <1>8, <1>9, <1>10, <1>11, <1>12

\* The tables and the in-memory state keep their types, and no row or run of the
\* program ever names a row that does not exist, in any instance: InvocationQueueService,
\* #runInvocation, #execute, the operator commands and recover() together.
THEOREM TypeCorrect == Spec => [](TypeOK /\ RowsLinked)
<1>1. Init => TypeOK /\ RowsLinked
 <2>1. Init => RowsLinked
   BY DEF Init, QueueInit, RunInit, RowsLinked, NoBucket, NoInvocation, Idle, NoRun
 <2> QED BY <2>1, InitType
<1>2. TypeOK /\ RowsLinked /\ [Next]_vars => (TypeOK /\ RowsLinked)'
 <2> SUFFICES ASSUME TypeOK, RowsLinked, [Next]_vars
              PROVE  TypeOK' /\ RowsLinked'
   OBVIOUS
 <2>1. CASE UNCHANGED vars  BY <2>1 DEF vars, TypeOK, QueueTypeOK, RunTypeOK, RowsLinked
 <2>2. CASE /\ Arrival \/ (\E b \in BucketIds : DeadlinePasses(b))
            /\ UNCHANGED <<runVars, active, woken>>
   BY <2>2, ArrivalType, ArrivalLinked
 <2>3. CASE QueueStep /\ UNCHANGED <<runVars, active, woken>>
   BY <2>3, QueueStepType, QueueStepLinked
 <2>4. CASE \E c \in Conversations : RunStep(c) /\ UNCHANGED <<active, woken>>
   BY <2>4, RunStepType, RunStepLinked
 <2>5. CASE \/ Tick \/ EndTick \/ CancelOngoing \/ ToggleSleep \/ CrashAndRestart
            \/ \E i \in InvIds : Launch(i)
            \/ \E c \in Conversations : BeginFinish(c) \/ FailFinish(c) \/ AbortConversation(c)
            \/ \E c \in Conversations, w \in BOOLEAN : EndFinish(c, w)
            \/ \E k \in Chats : Pause(k) \/ Resume(k)
   BY <2>5, SchedulerType, SchedulerLinked
 <2> QED BY <2>1, <2>2, <2>3, <2>4, <2>5 DEF Next
<1> QED BY <1>1, <1>2, PTL DEF Spec

\* A step that starts no invocation.
NoneStarts ==
    \A i \in InvIds :
        invocations'[i].state = "running" =>
            /\ invocations[i].state = "running"
            /\ invocations'[i].conversation = invocations[i].conversation

\* #insertInvocation starts nothing: the new row is queued.
LEMMA InsertNotRunning ==
    ASSUME TypeOK, NEW i \in InvIds, NEW b, NEW c, InsertInvocation(i, b, c)
    PROVE  NoneStarts
BY DEF InsertInvocation, FreshInvocation, NoneStarts, TypeOK, QueueTypeOK, Invocation

\* #launchQueued is the only place where an invocation turns running.
LEMMA OnlyLaunchStarts ==
    ASSUME TypeOK, RowsLinked, [Next]_vars, \A i \in InvIds : ~Launch(i)
    PROVE  NoneStarts
<1> USE DEF TypeOK, QueueTypeOK, tables
<1>1. CASE invocations' = invocations  BY <1>1 DEF NoneStarts
<1>2. ASSUME NEW b \in BucketIds, QueueBucket(b) PROVE NoneStarts
  BY <1>2, InsertNotRunning DEF QueueBucket
<1>3. ASSUME NEW b \in BucketIds, ReleaseBucket(b) PROVE NoneStarts
 <2>1. CASE \E j \in InvIds : InsertInvocation(j, b, buckets[b].conversation)
   BY <2>1, InsertNotRunning
 <2> QED BY <1>1, <1>3, <2>1 DEF ReleaseBucket, Requeue
<1>4. ASSUME NEW t \in Tasks, QueueReceipt(t) PROVE NoneStarts
  BY <1>4, InsertNotRunning DEF QueueReceipt
<1>5. CASE VetQueued  BY <1>5, ZenonT(60) DEF VetQueued, CloseInvocation, NoneStarts, Invocation
<1>6. ASSUME NEW c \in Conversations, StartSend(c) PROVE NoneStarts
  BY <1>6 DEF StartSend, NoneStarts, Invocation
<1>7. ASSUME NEW c \in Conversations, BeginFinish(c) PROVE NoneStarts
 <2>1. FinalState(c) # "running"  BY <1>7, RunRow DEF RunTypeOK, FinalState, Outcome
 <2> QED BY <1>7, <2>1 DEF BeginFinish, CloseInvocation, NoneStarts, Invocation
<1>8. ASSUME NEW C, CloseUnstarted(C) PROVE NoneStarts
  BY <1>8 DEF CloseUnstarted, CloseInvocation, NoneStarts, Invocation
<1>9. ASSUME NEW old, Recover(old) PROVE NoneStarts
 <2>1. ASSUME NEW i \in InvIds, invocations'[i] # invocations[i]
       PROVE  invocations'[i].state \in {"outcome_unknown", "aborted"}
  <3>1. \E st \in {"outcome_unknown", "aborted"} : invocations'[i] = CloseInvocation(i, st)
    BY <1>9, <2>1 DEF Recover, RecoveredInvocation
  <3> QED BY <3>1 DEF CloseInvocation, Invocation
 <2> QED BY <2>1 DEF NoneStarts
<1>10. ASSUME NEW c \in Conversations, RunStep(c) PROVE StartSend(c) \/ invocations' = invocations
  BY <1>10
  DEF RunStep, LoadImages, MessageEnd, HoldSend, StopForSleepOrBudget, GrantClosingTurn,
      StopForContextOrTurns, Nudge, ContinueTools, InjectBetweenTools, StopAfterReceipt,
      InjectAfterRound, EndRound, GraceWakes, GraceTimesOut, EndAfterGrace,
      StopForWallClock, AbortForWallClock, RunFinally
<1>11. CASE QueueStep
  BY <1>1, <1>2, <1>3, <1>4, <1>5, <1>11
  DEF QueueStep, DeferBucket, LeaveBucket, SkipBucket, AttachBucket, SuppressReceipt,
      KeepReceipt, AttachReceipt, StartDue, EndDue
<1> QED BY <1>1, <1>6, <1>7, <1>8, <1>9, <1>10, <1>11
        DEF Next, vars, Arrival, AppendToBucket, FinishTask, DeadlinePasses, Tick, EndTick,
            FailFinish, AbortConversation, EndFinish, Pause, Resume, CancelOngoing,
            ToggleSleep, CrashAndRestart

\* Agent sessions are serialized per chat in every instance: a new run starts only in
\* #launchQueued, from a query taken when no invocation of the chat runs, and nothing
\* else of the program makes an invocation running.
THEOREM SerializedPerChat == Spec => []OneRunPerChat
<1>1. Init => OneRunPerChat  BY DEF Init, QueueInit, NoInvocation, OneRunPerChat
<1>2. TypeOK /\ RowsLinked /\ OneRunPerChat /\ [Next]_vars => OneRunPerChat'
 <2> SUFFICES ASSUME TypeOK, RowsLinked, OneRunPerChat, [Next]_vars
              PROVE  OneRunPerChat'
   OBVIOUS
 <2>1. CASE \A i \in InvIds : ~Launch(i)
  <3>1. NoneStarts  BY <2>1, OnlyLaunchStarts
  <3> QED BY <3>1 DEF NoneStarts, OneRunPerChat
 <2>2. ASSUME NEW i \in InvIds, Launch(i) PROVE OneRunPerChat'
  <3>1. ChatInvocations(ChatOf[invocations[i].conversation], "running") = {}
    BY <2>2 DEF Launch, Launchable, Candidates
  <3>2. ASSUME NEW j \in InvIds, invocations'[j].state = "running"
        PROVE  /\ invocations'[j].conversation = invocations[j].conversation
               /\ j # i => invocations[j].state = "running"
    BY <2>2, <3>2 DEF Launch, TypeOK, QueueTypeOK, Invocation
  <3> QED BY <3>1, <3>2 DEF ChatInvocations, OneRunPerChat
 <2> QED BY <2>1, <2>2
<1> QED BY <1>1, <1>2, TypeCorrect, PTL DEF Spec

HIDE DEF InvIds

-----------------------------------------------------------------------------
(***************************************************************************)
(* Who answers for a batch.                                                *)
(*                                                                         *)
(* The properties proved here (a batch has one live invocation, a pause is *)
(* quiet, what reads completed was injected, closed rows stay closed) are  *)
(* not inductive: they speak of rows, and the rows are kept by blocks of   *)
(* several steps and by runs in memory.  The inductive invariant adds      *)
(*   BlockInv   what the list of the block under way still means,          *)
(*   RunsHeld   the running row behind every run in memory,                *)
(*   ReleaseList  that a release has only unsettled batches to go,         *)
(*   OwnInv     that the batches an invocation has to account for (Holds)  *)
(*              are nobody else's, from insert to the last release.        *)
(* On top of it: QuietInv for the pause (what a paused chat's blocks and   *)
(* runs still hold), OpeningShown for completed batches (the opening ones  *)
(* of a run that has shown nothing yet), and ActiveInv, which makes rows   *)
(* and runs agree exactly when no terminal transaction throws.             *)
(***************************************************************************)

\* The terminal transaction of invocation i is under way.
Releasing(i) == step.at = "release" /\ step.inv = i

\* The batches invocation i has still to account for: all it was joined to while
\* it waits or runs, those not yet released once it has ended.
Holds(i) ==
    IF invocations[i].state \in {"queued", "running"} THEN attached[i]
    ELSE IF Releasing(i) THEN step.buckets ELSE {}

\* What the lists of a synchronous block still mean: nothing moved under them.
BlockInv ==
    /\ step.at = "tasks" => \A t \in step.tasks : receipts[t].state = "pending"
    /\ step.at = "due" => \A b \in step.buckets : buckets[b].state = "collecting"
    /\ step.at \notin {"due", "release"} => step.buckets = {}
    /\ step.at = "release" =>
          \E c \in Conversations : run[c].phase = "dead" /\ run[c].inv = step.inv

\* Every run in memory has its running row, of its own conversation; once its
\* terminal transaction has begun, the row reads what the run ended with.
RunsHeld ==
    \A c \in Conversations :
        run[c].phase # "off" =>
            LET i == run[c].inv IN
            /\ invocations[i].conversation = c
            /\ \/ invocations[i].state = "running" /\ ~Releasing(i)
               \/ /\ Releasing(i)
                  /\ run[c].phase = "dead"
                  /\ invocations[i].state = FinalState(c)

\* A row of table invocations that was never inserted is empty.
FreshRows ==
    \A i \in InvIds :
        invocations[i].state = "none" => invocations[i].bucket = 0 /\ attached[i] = {}

\* A queued invocation waits with the batch it will open and nothing else.
QueuedRows ==
    \A i \in InvIds :
        invocations[i].state = "queued" =>
            /\ attached[i] = {invocations[i].bucket}
            /\ buckets[invocations[i].bucket].state = "queued"

\* A queued batch has such an invocation.
QueuedBatches ==
    \A b \in BucketIds :
        buckets[b].state = "queued" =>
            \E i \in InvIds : invocations[i].state = "queued" /\ invocations[i].bucket = b

\* No batch opens two invocations.
OneOpening ==
    \A i, j \in InvIds :
        (invocations[i].bucket # 0 /\ invocations[i].bucket = invocations[j].bucket) => i = j

\* A batch is held by one invocation.
HeldOnce == \A i, j \in InvIds : i # j => Holds(i) \cap Holds(j) = {}

\* ... which is joined to it, and no other invocation opens with it.
HeldJoined ==
    \A i, j \in InvIds : \A b \in Holds(i) :
        b \in attached[i] /\ (invocations[j].bucket = b => i = j)

\* A collecting batch has never been joined to an invocation.
CollectingFree ==
    \A b \in BucketIds :
        buckets[b].state = "collecting" => \A i \in InvIds : b \notin attached[i]

\* A running batch is joined to an invocation that runs or is ending.
RunningHeld ==
    \A b \in BucketIds :
        buckets[b].state = "running" =>
            \E i \in InvIds : /\ invocations[i].state = "running" \/ Releasing(i)
                              /\ b \in attached[i]

\* A batch joins invocations of its own conversation only.
SameConversation ==
    \A i \in InvIds : \A b \in attached[i] :
        buckets[b].conversation = invocations[i].conversation

\* The list of a terminal transaction: the batches its invocation was joined to and
\* did not inject, the opening one apart, of which those off the list have moved.
ReleaseList ==
    step.at = "release" =>
        /\ step.buckets \subseteq Uninjected(step.inv)
        /\ \A b \in Uninjected(step.inv) :
              buckets[b].state = "running" => b \in step.buckets

OwnInv ==
    /\ FreshRows /\ QueuedRows /\ QueuedBatches /\ OneOpening
    /\ HeldOnce /\ HeldJoined /\ CollectingFree /\ RunningHeld /\ SameConversation

-----------------------------------------------------------------------------
(* What the steps leave alone.                                             *)

\* No row changes but for deadlines and side-effect marks.
RowsKept ==
    /\ \A b \in BucketIds : /\ buckets'[b].state = buckets[b].state
                            /\ buckets'[b].conversation = buckets[b].conversation
    /\ \A i \in InvIds : /\ invocations'[i].state = invocations[i].state
                         /\ invocations'[i].conversation = invocations[i].conversation
                         /\ invocations'[i].bucket = invocations[i].bucket
    /\ attached' = attached

\* The run of c is alive and goes on under its invocation; other runs are not
\* touched, and no block is under way.
RunGoesOn(c) ==
    /\ step.at = "idle"
    /\ UNCHANGED <<step, receipts, policy>>
    /\ run[c].phase \notin {"off", "dead"}
    /\ run'[c].phase # "off"
    /\ run'[c].inv = run[c].inv
    /\ \A d \in Conversations : d # c => run'[d] = run[d]

\* stop(reason) changes deadlines and its own run only.
LEMMA StopFrame ==
    ASSUME TypeOK, NEW c \in Conversations, Stop(c),
           UNCHANGED <<invocations, attached>>
    PROVE  /\ RowsKept
           /\ run'[c].phase = "ending"
           /\ run'[c].inv = run[c].inv
           /\ \A d \in Conversations : d # c => run'[d] = run[d]
<1>1. ASSUME NEW b \in BucketIds
      PROVE  /\ buckets'[b].state = buckets[b].state
             /\ buckets'[b].conversation = buckets[b].conversation
  BY DeferredRows DEF Stop, FreeAgent, TypeOK
<1>2. /\ run'[c].phase = "ending"
      /\ run'[c].inv = run[c].inv
      /\ \A d \in Conversations : d # c => run'[d] = run[d]
  BY DEF Stop, TypeOK, RunTypeOK, Run
<1> QED BY <1>1, <1>2 DEF RowsKept

\* injectBatch goes on under the same invocation.
LEMMA InjectFrame ==
    ASSUME TypeOK, NEW c \in Conversations, NEW all \in BOOLEAN, Inject(c, all)
    PROVE  /\ run'[c].phase = "loading"
           /\ run'[c].inv = run[c].inv
           /\ \A d \in Conversations : d # c => run'[d] = run[d]
<1>1. PICK batch : InjectBatch(c, batch)  BY DEF Inject
<1> QED BY <1>1 DEF InjectBatch, TypeOK, RunTypeOK, Run

\* A step of a run changes no row, unless the send barrier attaches a batch.
LEMMA RunStepFrame ==
    ASSUME TypeOK, NEW c \in Conversations, RunStep(c)
    PROVE  RunGoesOn(c) /\ (HoldSend(c) \/ RowsKept)
<1> USE DEF TypeOK, QueueTypeOK, RunTypeOK, tables, policy, handover, runVars,
            Live, TurnEnd, MayContinue, Sending
<1>1. CASE LoadImages(c)  BY <1>1 DEF LoadImages, RunGoesOn, RowsKept, Run
<1>2. CASE MessageEnd(c)  BY <1>2 DEF MessageEnd, RunGoesOn, RowsKept, Run
<1>3. CASE HoldSend(c)  BY <1>3 DEF HoldSend, RunGoesOn, Run
<1>4. CASE StartSend(c)  BY <1>4 DEF StartSend, RunGoesOn, RowsKept, Run, Invocation
<1>5. CASE StopForSleepOrBudget(c)  BY <1>5, StopFrame DEF StopForSleepOrBudget, RunGoesOn
<1>6. CASE GrantClosingTurn(c)  BY <1>6 DEF GrantClosingTurn, RunGoesOn, RowsKept, Run
<1>7. CASE StopForContextOrTurns(c)  BY <1>7, StopFrame DEF StopForContextOrTurns, RunGoesOn
<1>8. CASE Nudge(c)  BY <1>8 DEF Nudge, RunGoesOn, RowsKept, Run
<1>9. CASE ContinueTools(c)  BY <1>9 DEF ContinueTools, RunGoesOn, RowsKept, Run
<1>10. CASE InjectBetweenTools(c)
  BY <1>10, InjectFrame DEF InjectBetweenTools, RunGoesOn, RowsKept
<1>11. CASE StopAfterReceipt(c)  BY <1>11, StopFrame DEF StopAfterReceipt, RunGoesOn
<1>12. CASE InjectAfterRound(c)  BY <1>12, InjectFrame DEF InjectAfterRound, RunGoesOn, RowsKept
<1>13. CASE EndRound(c)
 <2>1. /\ run'[c].inv = run[c].inv
       /\ run'[c].phase \in {"grace", "ending"}
       /\ \A d \in Conversations : d # c => run'[d] = run[d]
  <3>1. CASE IdleGrace  BY <1>13, <3>1 DEF EndRound, Run
  <3>2. CASE ~IdleGrace  BY <1>13, <3>2 DEF EndRound, Run
  <3> QED BY <3>1, <3>2
 <2>2. ASSUME NEW b \in BucketIds
       PROVE  /\ buckets'[b].state = buckets[b].state
              /\ buckets'[b].conversation = buckets[b].conversation
   BY <1>13, DeferredRows DEF EndRound, FreeAgent
 <2>3. UNCHANGED <<invocations, attached, step, receipts, policy>>
       /\ run[c].phase = "model" /\ step.at = "idle"
   BY <1>13 DEF EndRound
 <2> HIDE DEF TypeOK, QueueTypeOK, RunTypeOK
 <2> QED BY <2>1, <2>2, <2>3 DEF RunGoesOn, RowsKept
<1>14. CASE GraceWakes(c)  BY <1>14, InjectFrame DEF GraceWakes, RunGoesOn, RowsKept
<1>15. CASE GraceTimesOut(c)  BY <1>15 DEF GraceTimesOut, RunGoesOn, RowsKept, Run
<1>16. CASE EndAfterGrace(c)  BY <1>16 DEF EndAfterGrace, RunGoesOn, RowsKept, Run
<1>17. CASE StopForWallClock(c)  BY <1>17, StopFrame DEF StopForWallClock, RunGoesOn
<1>18. CASE AbortForWallClock(c)  BY <1>18 DEF AbortForWallClock, RunGoesOn, RowsKept, Run
<1>19. CASE RunFinally(c)  BY <1>19 DEF RunFinally, RunGoesOn, RowsKept, NoRun, Run
<1> QED BY <1>1, <1>2, <1>3, <1>4, <1>5, <1>6, <1>7, <1>8, <1>9, <1>10, <1>11, <1>12,
           <1>13, <1>14, <1>15, <1>16, <1>17, <1>18, <1>19 DEF RunStep

-----------------------------------------------------------------------------
(* Blocks and runs.                                                        *)

\* The actions of InvocationQueueService keep what the lists of a block mean: an
\* item is taken off its list when its row moves, and nobody else moves it.
LEMMA QueueStepBlock ==
    ASSUME TypeOK, RowsLinked, BlockInv, QueueStep, UNCHANGED runVars
    PROVE  BlockInv'
<1> USE DEF TypeOK, QueueTypeOK, BlockInv, tables, runVars
<1>1. ASSUME NEW b \in BucketIds,
             DeferBucket(b) \/ LeaveBucket(b) \/ SkipBucket(b) \/ QueueBucket(b)
      PROVE  BlockInv'
  BY <1>1 DEF DeferBucket, LeaveBucket, SkipBucket, QueueBucket, CloseBucket, NextDue, Bucket, Step
<1>2. ASSUME NEW b \in BucketIds, AttachBucket(b) PROVE BlockInv'
  BY <1>2 DEF AttachBucket, AttachBucketTo, NextDue, Bucket, Step
<1>3. ASSUME NEW b \in BucketIds, ReleaseBucket(b) PROVE BlockInv'
  BY <1>3 DEF ReleaseBucket, Step
<1>4. ASSUME NEW t \in Tasks,
             SuppressReceipt(t) \/ KeepReceipt(t) \/ AttachReceipt(t) \/ QueueReceipt(t)
      PROVE  BlockInv'
 <2>1. /\ step.at = "tasks" /\ step' = [step EXCEPT !.tasks = @ \ {t}]
       /\ \A u \in Tasks : u # t => receipts'[u] = receipts[u]
  <3>1. CASE SuppressReceipt(t) \/ KeepReceipt(t)
    BY <3>1 DEF SuppressReceipt, KeepReceipt, NextReceipt
  <3>2. CASE AttachReceipt(t)  BY <3>2 DEF AttachReceipt, NextReceipt
  <3>3. CASE QueueReceipt(t)  BY <3>3 DEF QueueReceipt, NextReceipt
  <3> QED BY <1>4, <3>1, <3>2, <3>3
 <2> QED BY <2>1 DEF Step
<1>5. CASE StartDue  BY <1>5 DEF StartDue, DueBuckets, Step
<1>6. CASE EndDue  BY <1>6 DEF EndDue, Idle, Step
<1>7. CASE VetQueued  BY <1>7 DEF VetQueued, Step
<1> QED BY <1>1, <1>2, <1>3, <1>4, <1>5, <1>6, <1>7 DEF QueueStep

\* Every step keeps what the lists of a block mean.
LEMMA BlockKept ==
    ASSUME TypeOK, RowsLinked, BlockInv, [Next]_vars
    PROVE  BlockInv'
<1> USE DEF tables, policy, handover, runVars
<1>1. CASE step' = step /\ step.at = "idle"  BY <1>1 DEF BlockInv
<1>2. CASE UNCHANGED vars  BY <1>2 DEF vars, BlockInv
<1>3. CASE QueueStep /\ UNCHANGED <<runVars, active, woken>>  BY <1>3, QueueStepBlock
<1>4. CASE \E c \in Conversations : RunStep(c)  BY <1>1, <1>4, RunStepFrame DEF RunGoesOn
<1>5. CASE Tick  BY <1>5 DEF Tick, StartTasks, BlockInv
<1>6. ASSUME NEW i \in InvIds, Launch(i) PROVE BlockInv'
  BY <1>6 DEF Launch, BlockInv, TypeOK, QueueTypeOK, Step
<1>7. CASE EndTick \/ CrashAndRestart  BY <1>7 DEF EndTick, CrashAndRestart, Idle, BlockInv
<1>8. ASSUME NEW c \in Conversations, BeginFinish(c) PROVE BlockInv'
  BY <1>8 DEF BeginFinish, Idle, BlockInv
<1>9. ASSUME NEW c \in Conversations, NEW w \in BOOLEAN, EndFinish(c, w) PROVE BlockInv'
  BY <1>9 DEF EndFinish, StartTasks, SettleClaims, ClaimedBy, BlockInv
<1> QED BY <1>1, <1>2, <1>3, <1>4, <1>5, <1>6, <1>7, <1>8, <1>9
        DEF Next, Arrival, AppendToBucket, FinishTask, DeadlinePasses, FailFinish,
            AbortConversation, Pause, Resume, CancelOngoing, ToggleSleep

\* A run ends with a state that closes its row.
LEMMA FinalStateClosed ==
    ASSUME TypeOK, RowsLinked, NEW c \in Conversations, run[c].phase = "dead"
    PROVE  FinalState(c) \in {"completed", "failed", "aborted", "outcome_unknown"}
BY RunRow DEF FinalState, TypeOK, RunTypeOK, RowsLinked, Outcome

\* Rows in memory are kept by a step that changes neither a running row nor a run,
\* nor enters or leaves a terminal transaction.
LEMMA RunsHeldFrame ==
    ASSUME TypeOK, RowsLinked, RunsHeld,
           \A c \in Conversations :
              /\ run'[c].phase = run[c].phase
              /\ run'[c].inv = run[c].inv
              /\ run[c].phase = "dead" => FinalState(c)' = FinalState(c),
           \A i \in InvIds :
              invocations[i].state = "running" \/ Releasing(i) =>
                 /\ invocations'[i].conversation = invocations[i].conversation
                 /\ invocations'[i].state = invocations[i].state,
           \A i \in InvIds : Releasing(i)' <=> Releasing(i)
    PROVE  RunsHeld'
BY DEF RunsHeld, RowsLinked, Releasing

\* An invocation whose terminal transaction is under way is closed, in its run's
\* conversation.
LEMMA ReleasingRow ==
    ASSUME TypeOK, RowsLinked, BlockInv, RunsHeld, NEW i \in InvIds, Releasing(i)
    PROVE  /\ invocations[i].state \in {"completed", "failed", "aborted", "outcome_unknown"}
           /\ \E c \in Conversations :
                 /\ run[c].phase = "dead"
                 /\ run[c].inv = i
                 /\ invocations[i].conversation = c
                 /\ invocations[i].state = FinalState(c)
<1>1. PICK c \in Conversations : run[c].phase = "dead" /\ run[c].inv = i
  BY DEF Releasing, BlockInv
<1>2. invocations[i].conversation = c /\ invocations[i].state = FinalState(c)
  BY <1>1 DEF RunsHeld
<1> QED BY <1>1, <1>2, FinalStateClosed

\* The actions of InvocationQueueService close queued rows and insert fresh ones.
LEMMA QueueStepRows ==
    ASSUME TypeOK, RowsLinked, BlockInv, RunsHeld, QueueStep
    PROVE  /\ \A i \in InvIds :
                 invocations[i].state = "running" \/ Releasing(i) =>
                    /\ invocations'[i].conversation = invocations[i].conversation
                    /\ invocations'[i].state = invocations[i].state
           /\ step'.at = "release" <=> step.at = "release"
           /\ step.at = "release" => step'.inv = step.inv
<1> USE DEF TypeOK, QueueTypeOK, tables
<1> DEFINE Kept == \A i \in InvIds :
                      invocations[i].state = "running" \/ Releasing(i) =>
                         /\ invocations'[i].conversation = invocations[i].conversation
                         /\ invocations'[i].state = invocations[i].state
           Block == /\ step'.at = "release" <=> step.at = "release"
                    /\ step.at = "release" => step'.inv = step.inv
<1>1. ASSUME NEW i \in InvIds, invocations[i].state = "running" \/ Releasing(i)
      PROVE  invocations[i].state \notin {"none", "queued"}
  BY <1>1, ReleasingRow
<1>2. ASSUME NEW j \in InvIds, NEW b, NEW c, InsertInvocation(j, b, c) PROVE Kept
  BY <1>1, <1>2 DEF InsertInvocation, FreshInvocation
<1>3. ASSUME NEW b \in BucketIds,
             DeferBucket(b) \/ LeaveBucket(b) \/ SkipBucket(b) \/ AttachBucket(b)
      PROVE  Kept /\ Block
  BY <1>3 DEF DeferBucket, LeaveBucket, SkipBucket, AttachBucket, NextDue, Step
<1>4. ASSUME NEW b \in BucketIds, QueueBucket(b) PROVE Kept /\ Block
  BY <1>2, <1>4 DEF QueueBucket, NextDue, Step
<1>5. ASSUME NEW b \in BucketIds, ReleaseBucket(b) PROVE Kept /\ Block
 <2>1. Block  BY <1>5 DEF ReleaseBucket, Step
 <2>2. invocations' = invocations \/ \E j \in InvIds : InsertInvocation(j, b, buckets[b].conversation)
   BY <1>5 DEF ReleaseBucket, Requeue
 <2> QED BY <1>2, <2>1, <2>2
<1>6. ASSUME NEW t \in Tasks, SuppressReceipt(t) \/ KeepReceipt(t) \/ AttachReceipt(t)
      PROVE  Kept /\ Block
  BY <1>6 DEF SuppressReceipt, KeepReceipt, AttachReceipt, NextReceipt, Step
<1>7. ASSUME NEW t \in Tasks, QueueReceipt(t) PROVE Kept /\ Block
  BY <1>2, <1>7 DEF QueueReceipt, NextReceipt, Step
<1>8. CASE StartDue \/ EndDue  BY <1>8 DEF StartDue, EndDue, Idle, Step
<1>9. CASE VetQueued
 <2>1. Block  BY <1>9 DEF VetQueued, Step
 <2>2. ASSUME NEW i \in InvIds, i \notin QueuedInvocations PROVE invocations'[i] = invocations[i]
   BY <1>9, <2>2 DEF VetQueued, DroppedInvocations, InvalidClaims, SleepSkips
 <2> QED BY <1>1, <2>1, <2>2 DEF QueuedInvocations
<1> QED BY <1>3, <1>4, <1>5, <1>6, <1>7, <1>8, <1>9 DEF QueueStep

\* /pause and "cancel ongoing" close queued rows only.
LEMMA CloseUnstartedKeeps ==
    ASSUME TypeOK, NEW C, CloseUnstarted(C), NEW i \in InvIds, invocations[i].state # "queued"
    PROVE  invocations'[i] = invocations[i]
BY DEF CloseUnstarted, UnstartedInvocations, QueuedInvocations

\* Every step keeps a running row behind every run.
LEMMA RunsHeldKept ==
    ASSUME TypeOK, RowsLinked, BlockInv, RunsHeld, [Next]_vars
    PROVE  RunsHeld'
<1> USE DEF tables, policy, handover, runVars
<1>1. CASE run' = run /\ invocations' = invocations
           /\ (step'.at = "release" <=> step.at = "release") /\ step'.inv = step.inv
  BY <1>1 DEF RunsHeld, Releasing, FinalState
<1>2. CASE QueueStep /\ UNCHANGED <<runVars, active, woken>>
 <2>1. \A i \in InvIds : Releasing(i)' <=> Releasing(i)  BY <1>2, QueueStepRows DEF Releasing
 <2> QED BY <1>2, <2>1, QueueStepRows, RunsHeldFrame DEF FinalState
<1>3. ASSUME NEW c \in Conversations, RunStep(c) PROVE RunsHeld'
 <2>1. RunGoesOn(c) /\ \A i \in InvIds :
          /\ invocations'[i].state = invocations[i].state
          /\ invocations'[i].conversation = invocations[i].conversation
   BY <1>3, RunStepFrame DEF RowsKept, HoldSend
 <2> QED BY <2>1 DEF RunGoesOn, RunsHeld, RowsLinked, Releasing
<1>4. CASE Tick \/ EndTick
 <2>1. run' = run /\ invocations' = invocations /\ step.at # "release" /\ step'.at # "release"
   BY <1>4 DEF Tick, EndTick, StartTasks, Idle
 <2> QED BY <2>1 DEF RunsHeld, Releasing
<1>5. ASSUME NEW i \in InvIds, Launch(i) PROVE RunsHeld'
 <2> DEFINE c == invocations[i].conversation
 <2>1. /\ step.at # "release" /\ step'.at # "release"
       /\ invocations[i].state = "queued" /\ c \in Conversations
       /\ ChatInvocations(ChatOf[c], "running") = {}
   BY <1>5 DEF Launch, Launchable, Candidates, QueuedInvocations, TypeOK, QueueTypeOK, Step, RowsLinked
 <2>2. \A j \in InvIds : /\ invocations'[j].conversation = invocations[j].conversation
                         /\ invocations'[j].state = IF j = i THEN "running" ELSE invocations[j].state
   BY <1>5 DEF Launch, TypeOK, QueueTypeOK, Invocation
 <2>3. run'[c].inv = i /\ \A d \in Conversations : d # c => run'[d] = run[d]
  <3>1. CASE OpenRun(i, c)  BY <2>1, <3>1 DEF OpenRun, NoRun, TypeOK, RunTypeOK
  <3>2. CASE FailToOpen(i, c)  BY <2>1, <3>2 DEF FailToOpen, NoRun, TypeOK, RunTypeOK
  <3> QED BY <1>5, <3>1, <3>2 DEF Launch
 <2> QED BY <2>1, <2>2, <2>3 DEF RunsHeld, RowsLinked, Releasing
<1>6. ASSUME NEW c \in Conversations, BeginFinish(c) PROVE RunsHeld'
 <2> DEFINE i == run[c].inv
 <2>1. /\ step.at = "idle" /\ run[c].phase = "dead" /\ run' = run
       /\ step'.at = "release" /\ step'.inv = i /\ i \in InvIds
   BY <1>6 DEF BeginFinish, Idle, RowsLinked
 <2>2. invocations[i].state = "running" /\ invocations[i].conversation = c
   BY <2>1 DEF RunsHeld, Releasing
 <2>3. \A j \in InvIds : /\ invocations'[j].conversation = invocations[j].conversation
                         /\ invocations'[j].state = IF j = i THEN FinalState(c) ELSE invocations[j].state
   BY <1>6, <2>2 DEF BeginFinish, CloseInvocation, TypeOK, QueueTypeOK, Invocation
 <2> QED BY <2>1, <2>2, <2>3 DEF RunsHeld, RowsLinked, Releasing, FinalState
<1>7. ASSUME NEW c \in Conversations, NEW w \in BOOLEAN, EndFinish(c, w) PROVE RunsHeld'
 <2>1. /\ step.at = "release" /\ step'.at # "release" /\ run[c].inv = step.inv /\ run[c].phase = "dead"
       /\ invocations' = invocations
   BY <1>7 DEF EndFinish, StartTasks
 <2>2. run'[c].phase = "off" /\ \A d \in Conversations : d # c => run'[d] = run[d]
   BY <1>7 DEF EndFinish, NoRun, TypeOK, RunTypeOK
 <2> QED BY <2>1, <2>2 DEF RunsHeld, Releasing
<1>8. ASSUME NEW c \in Conversations, FailFinish(c) PROVE RunsHeld'
 <2>1. run'[c].phase = "off" /\ \A d \in Conversations : d # c => run'[d] = run[d]
   BY <1>8 DEF FailFinish, NoRun, TypeOK, RunTypeOK
 <2> QED BY <1>8, <2>1 DEF FailFinish, RunsHeld, Releasing
<1>9. ASSUME NEW C, Abort(C), Drained, step' = step, step.at = "idle",
             \A i \in InvIds : invocations[i].state # "queued" => invocations'[i] = invocations[i]
      PROVE  RunsHeld'
 <2>1. \A c \in Conversations : run[c].phase # "dead"  BY <1>9 DEF Drained, Settled
 <2> QED BY <1>9, <2>1, AbortLinked DEF RunsHeld, RowsLinked, Releasing
<1>10. CASE CancelOngoing \/ \E k \in Chats : Pause(k)
  BY <1>9, <1>10, CloseUnstartedKeeps DEF CancelOngoing, Pause
<1>11. ASSUME NEW c \in Conversations, AbortConversation(c) PROVE RunsHeld'
  BY <1>9, <1>11 DEF AbortConversation
<1>12. CASE CrashAndRestart  BY <1>12 DEF CrashAndRestart, NoRun, RunsHeld
<1> QED BY <1>1, <1>2, <1>3, <1>4, <1>5, <1>6, <1>7, <1>8, <1>10, <1>11, <1>12
        DEF Next, vars, Arrival, AppendToBucket, FinishTask, DeadlinePasses, Resume, ToggleSleep

-----------------------------------------------------------------------------
(* Who holds a batch: one lemma for each way the rows move.                *)

\* A batch that collects, or a row that does not exist yet, is nobody's.
LEMMA Unclaimed ==
    ASSUME TypeOK, RowsLinked, OwnInv, NEW b \in BucketIds,
           buckets[b].state \in {"none", "collecting"}, NEW i \in InvIds
    PROVE  b \notin attached[i] /\ b \notin Holds(i) /\ invocations[i].bucket # b
<1>1. b \notin attached[i]  BY DEF RowsLinked, OwnInv, CollectingFree
<1>2. b # 0  BY DEF BucketIds
<1> QED BY <1>1, <1>2 DEF RowsLinked, OwnInv, FreshRows, HeldJoined

\* Deadlines and side-effect marks have no part in it.
LEMMA OwnFrame ==
    ASSUME TypeOK, OwnInv, RowsKept,
           step' = step \/ (step.at # "release" /\ step'.at # "release")
    PROVE  OwnInv'
<1>1. \A i \in InvIds : /\ Releasing(i)' <=> Releasing(i)
                        /\ Holds(i)' = Holds(i)
                        /\ attached'[i] = attached[i]
                        /\ attached[i] \subseteq BucketIds
  BY DEF RowsKept, Releasing, Holds, TypeOK, QueueTypeOK
<1>2. FreshRows' /\ OneOpening'  BY <1>1 DEF RowsKept, OwnInv, FreshRows, OneOpening
<1>3. QueuedRows' /\ QueuedBatches'  BY <1>1 DEF RowsKept, OwnInv, QueuedRows, QueuedBatches
<1>4. HeldOnce' /\ HeldJoined'  BY <1>1 DEF RowsKept, OwnInv, HeldOnce, HeldJoined
<1>5. CollectingFree' /\ SameConversation'
  BY <1>1 DEF RowsKept, OwnInv, CollectingFree, SameConversation
<1>6. RunningHeld'  BY <1>1 DEF RowsKept, OwnInv, RunningHeld
<1> QED BY <1>2, <1>3, <1>4, <1>5, <1>6 DEF OwnInv

\* A batch joins a running invocation of its conversation: #attachBucket, the send
\* barrier, and a receipt's batch.
LEMMA OwnJoin ==
    ASSUME TypeOK, RowsLinked, OwnInv,
           NEW i \in InvIds, invocations[i].state = "running",
           NEW b \in BucketIds, buckets[b].state \in {"none", "collecting"},
           buckets'[b].state = "running",
           buckets'[b].conversation = invocations[i].conversation,
           \A d \in BucketIds : d # b => buckets'[d] = buckets[d],
           attached' = [attached EXCEPT ![i] = @ \cup {b}],
           invocations' = invocations, step.at # "release", step'.at # "release"
    PROVE  OwnInv'
<1>1. \A j \in InvIds : b \notin attached[j] /\ b \notin Holds(j) /\ invocations[j].bucket # b
  BY Unclaimed
<1>2. /\ \A j \in InvIds : /\ ~Releasing(j) /\ ~Releasing(j)'
                           /\ j # i => attached'[j] = attached[j] /\ Holds(j)' = Holds(j)
                           /\ attached[j] \subseteq BucketIds
      /\ attached'[i] = attached[i] \cup {b} /\ Holds(i)' = Holds(i) \cup {b}
  BY DEF Releasing, Holds, TypeOK, QueueTypeOK
<1>3. FreshRows' /\ OneOpening'  BY <1>2 DEF OwnInv, FreshRows, OneOpening
<1>4. QueuedRows' /\ QueuedBatches'
  BY <1>1, <1>2 DEF OwnInv, QueuedRows, QueuedBatches, RowsLinked
<1>5. HeldOnce' /\ HeldJoined'  BY <1>1, <1>2 DEF OwnInv, HeldOnce, HeldJoined
<1>6. CollectingFree' /\ SameConversation'
  BY <1>1, <1>2 DEF OwnInv, CollectingFree, SameConversation
<1>7. RunningHeld'  BY <1>2 DEF OwnInv, RunningHeld
<1> QED BY <1>3, <1>4, <1>5, <1>6, <1>7 DEF OwnInv

\* An invocation is inserted for a batch that nobody holds any more.
LEMMA OwnInsert ==
    ASSUME TypeOK, RowsLinked, OwnInv,
           NEW j \in InvIds, NEW b \in BucketIds, NEW c, InsertInvocation(j, b, c),
           \A i \in InvIds : invocations[i].bucket # b,
           \A i \in InvIds : ~Releasing(j) /\ (Releasing(i)' <=> Releasing(i)),
           \A i \in InvIds : i # j => Holds(i)' = Holds(i) \ {b},
           buckets[b].state # "queued",
           buckets'[b].state = "queued", buckets'[b].conversation = c,
           buckets[b].state # "none" => buckets[b].conversation = c,
           \A d \in BucketIds : d # b => buckets'[d] = buckets[d]
    PROVE  OwnInv'
<1>1. /\ invocations[j].state = "none" /\ attached[j] = {} /\ Holds(j) = {}
      /\ invocations'[j].state = "queued" /\ invocations'[j].bucket = b
      /\ invocations'[j].conversation = c /\ attached'[j] = {b} /\ Holds(j)' = {b}
  BY DEF InsertInvocation, FreshInvocation, OwnInv, FreshRows, Holds, TypeOK, QueueTypeOK
<1>2. \A i \in InvIds : i # j => invocations'[i] = invocations[i] /\ attached'[i] = attached[i]
  BY DEF InsertInvocation, TypeOK, QueueTypeOK
<1> \A i \in InvIds : attached[i] \subseteq BucketIds  BY DEF TypeOK, QueueTypeOK
<1>3. FreshRows' /\ OneOpening'  BY <1>1, <1>2 DEF OwnInv, FreshRows, OneOpening
<1>4. QueuedRows' /\ QueuedBatches'
  BY <1>1, <1>2 DEF OwnInv, QueuedRows, QueuedBatches, RowsLinked
<1>5. HeldOnce'  BY <1>1, <1>2 DEF OwnInv, HeldOnce
<1>6. HeldJoined'  BY <1>1, <1>2 DEF OwnInv, HeldJoined
<1>7. CollectingFree' /\ SameConversation'
  BY <1>1, <1>2 DEF OwnInv, CollectingFree, SameConversation, RowsLinked
<1>8. RunningHeld'  BY <1>1, <1>2 DEF OwnInv, RunningHeld
<1> QED BY <1>3, <1>4, <1>5, <1>6, <1>7, <1>8 DEF OwnInv

\* Rows are closed outside a terminal transaction: a skip, sleep, an invalid receipt,
\* /pause, "cancel ongoing" and recover().  An invocation goes with its queued batch,
\* and a running invocation with all it holds.
LEMMA OwnClose ==
    ASSUME TypeOK, RowsLinked, OwnInv, attached' = attached,
           step.at # "release", step'.at # "release",
           \A i \in InvIds :
              /\ invocations'[i].bucket = invocations[i].bucket
              /\ invocations'[i].conversation = invocations[i].conversation
              /\ \/ invocations'[i].state = invocations[i].state
                 \/ /\ invocations[i].state \in {"queued", "running"}
                    /\ invocations'[i].state \notin {"none", "queued", "running"},
           \A b \in BucketIds :
              /\ buckets'[b].conversation = buckets[b].conversation
              /\ \/ buckets'[b].state = buckets[b].state
                 \/ buckets'[b].state \notin {"none", "collecting", "queued", "running"},
           \A i \in InvIds :
              invocations[i].state = "queued" =>
                 (invocations'[i].state = "queued" <=>
                     buckets'[invocations[i].bucket].state = "queued"),
           \A i \in InvIds : \A b \in attached[i] :
              invocations[i].state = "running" /\ invocations'[i].state # "running" =>
                 buckets'[b].state # "running"
    PROVE  OwnInv'
<1>1. \A i \in InvIds : /\ ~Releasing(i) /\ ~Releasing(i)'
                        /\ Holds(i)' \subseteq Holds(i)
  BY DEF Releasing, Holds
<1>2. FreshRows' /\ OneOpening'  BY DEF OwnInv, FreshRows, OneOpening
<1>3. QueuedRows'  BY DEF OwnInv, QueuedRows
<1>4. QueuedBatches'  BY DEF OwnInv, QueuedBatches
<1>5. HeldOnce' /\ HeldJoined'  BY <1>1 DEF OwnInv, HeldOnce, HeldJoined
<1>6. CollectingFree' /\ SameConversation'
 <2>1. ASSUME NEW i \in InvIds PROVE attached[i] \subseteq BucketIds  BY DEF TypeOK, QueueTypeOK
 <2> QED BY <2>1 DEF OwnInv, CollectingFree, SameConversation
<1>7. RunningHeld'  BY <1>1 DEF OwnInv, RunningHeld
<1> QED BY <1>2, <1>3, <1>4, <1>5, <1>6, <1>7 DEF OwnInv

\* A collecting batch opens.
LEMMA OwnAppend ==
    ASSUME TypeOK, RowsLinked, OwnInv, NEW c \in Conversations, AppendToBucket(c)
    PROVE  OwnInv'
<1>1. PICK b \in BucketIds :
         /\ FreshBucket(b)
         /\ buckets' = [buckets EXCEPT ![b] =
               [state |-> "collecting", conversation |-> c, due |-> ~WindowOpen]]
  BY DEF AppendToBucket
<1>2. UNCHANGED <<invocations, attached, step>>  BY DEF AppendToBucket
<1>3. /\ buckets'[b].state = "collecting"
      /\ \A d \in BucketIds : d # b => buckets'[d] = buckets[d]
      /\ \A i \in InvIds : b \notin attached[i]
      /\ \A i \in InvIds : attached[i] \subseteq BucketIds
  BY <1>1, Unclaimed DEF FreshBucket, TypeOK, QueueTypeOK
<1>4. \A i \in InvIds : (Releasing(i)' <=> Releasing(i)) /\ Holds(i)' = Holds(i)
  BY <1>2 DEF Releasing, Holds
<1>5. FreshRows' /\ OneOpening' /\ HeldOnce' /\ HeldJoined'
  BY <1>2, <1>4 DEF OwnInv, FreshRows, OneOpening, HeldOnce, HeldJoined
<1>6. QueuedRows' /\ QueuedBatches'
  BY <1>2, <1>3 DEF OwnInv, QueuedRows, QueuedBatches, RowsLinked
<1>7. CollectingFree' /\ SameConversation' /\ RunningHeld'
  BY <1>2, <1>3, <1>4 DEF OwnInv, CollectingFree, SameConversation, RunningHeld
<1> QED BY <1>5, <1>6, <1>7 DEF OwnInv

\* An invocation and its opening batch turn running together.
LEMMA OwnLaunch ==
    ASSUME TypeOK, RowsLinked, OwnInv, NEW i \in InvIds, Launch(i)
    PROVE  OwnInv'
<1> DEFINE o == invocations[i].bucket
<1>1. /\ invocations[i].state = "queued" /\ o \in BucketIds /\ buckets[o].state = "queued"
      /\ attached[i] = {o} /\ attached' = attached
      /\ step.at # "release" /\ step'.at # "release"
  BY DEF Launch, Launchable, Candidates, QueuedInvocations, OwnInv, QueuedRows,
         TypeOK, QueueTypeOK, Step, Invocation
<1>2. \A j \in InvIds :
         /\ invocations'[j].state = IF j = i THEN "running" ELSE invocations[j].state
         /\ invocations'[j].bucket = invocations[j].bucket
         /\ invocations'[j].conversation = invocations[j].conversation
         /\ attached[j] \subseteq BucketIds
  BY DEF Launch, TypeOK, QueueTypeOK, Invocation
<1>3. \A d \in BucketIds :
         /\ buckets'[d].state = IF d = o THEN "running" ELSE buckets[d].state
         /\ buckets'[d].conversation = buckets[d].conversation
  BY <1>1 DEF Launch, TypeOK, QueueTypeOK, Bucket
<1>4. \A j \in InvIds : ~Releasing(j) /\ ~Releasing(j)' /\ Holds(j)' = Holds(j)
  BY <1>1, <1>2 DEF Releasing, Holds
<1>5. FreshRows' /\ OneOpening' /\ HeldOnce' /\ HeldJoined'
  BY <1>1, <1>2, <1>4 DEF OwnInv, FreshRows, OneOpening, HeldOnce, HeldJoined
<1>6. QueuedRows' /\ QueuedBatches'
 <2> o # 0  BY <1>1 DEF BucketIds
 <2> QED BY <1>1, <1>2, <1>3 DEF OwnInv, QueuedRows, QueuedBatches, OneOpening, RowsLinked
<1>7. CollectingFree' /\ SameConversation'
  BY <1>1, <1>2, <1>3 DEF OwnInv, CollectingFree, SameConversation
<1>8. RunningHeld'  BY <1>1, <1>2, <1>3, <1>4 DEF OwnInv, RunningHeld
<1> QED BY <1>5, <1>6, <1>7, <1>8 DEF OwnInv

\* The terminal transaction begins with the row of its invocation.
LEMMA OwnBegin ==
    ASSUME TypeOK, RowsLinked, BlockInv, RunsHeld, OwnInv,
           NEW c \in Conversations, BeginFinish(c)
    PROVE  OwnInv' /\ ReleaseList'
<1>0. PICK i \in InvIds : i = run[c].inv  BY DEF BeginFinish, RowsLinked
<1>1. /\ step.at = "idle" /\ run[c].phase = "dead"
      /\ invocations[i].state = "running"
  BY <1>0 DEF BeginFinish, RunsHeld, Releasing
<1>2. /\ step'.at = "release" /\ step'.inv = i /\ step'.buckets = Uninjected(i)
      /\ UNCHANGED <<buckets, attached, injected>>
  BY <1>0 DEF BeginFinish, Idle
<1>3. FinalState(c) \notin {"none", "queued", "running"}  BY <1>1, FinalStateClosed
<1>4. \A j \in InvIds :
         /\ invocations'[j].state = IF j = i THEN FinalState(c) ELSE invocations[j].state
         /\ invocations'[j].bucket = invocations[j].bucket
         /\ invocations'[j].conversation = invocations[j].conversation
         /\ attached[j] \subseteq BucketIds
  BY <1>0, <1>1 DEF BeginFinish, CloseInvocation, TypeOK, QueueTypeOK, Invocation
<1>5. \A j \in InvIds : ~Releasing(j) /\ (Releasing(j)' <=> j = i)  BY <1>1, <1>2 DEF Releasing
<1>6. FreshRows' /\ OneOpening'  BY <1>1, <1>2, <1>3, <1>4 DEF OwnInv, FreshRows, OneOpening
<1>7. HeldOnce' /\ HeldJoined'
 <2>1. \A j \in InvIds : j # i => Holds(j)' = Holds(j)  BY <1>2, <1>4, <1>5 DEF Holds
 <2>2. Holds(i) = attached[i] /\ Holds(i)' = Uninjected(i)
   BY <1>1, <1>2, <1>3, <1>4, <1>5 DEF Holds
 <2>3. Uninjected(i) \subseteq attached[i]  BY DEF Uninjected
 <2>4. HeldOnce'  BY <2>1, <2>2, <2>3 DEF OwnInv, HeldOnce
 <2>5. HeldJoined'  BY <1>2, <1>4, <2>1, <2>2, <2>3 DEF OwnInv, HeldJoined
 <2> QED BY <2>4, <2>5
<1>8. QueuedRows' /\ QueuedBatches'
  BY <1>1, <1>2, <1>3, <1>4 DEF OwnInv, QueuedRows, QueuedBatches
<1>9. CollectingFree' /\ SameConversation' /\ RunningHeld'
  BY <1>1, <1>2, <1>4, <1>5 DEF OwnInv, CollectingFree, SameConversation, RunningHeld
<1>10. ReleaseList'  BY <1>1, <1>2, <1>4 DEF ReleaseList, Uninjected
<1> QED BY <1>6, <1>7, <1>8, <1>9, <1>10 DEF OwnInv

\* ... and ends with all that is still held.
LEMMA OwnEnd ==
    ASSUME TypeOK, RowsLinked, BlockInv, RunsHeld, OwnInv,
           NEW c \in Conversations, NEW w \in BOOLEAN, EndFinish(c, w)
    PROVE  OwnInv'
<1> DEFINE i == step.inv
<1>1. /\ step.at = "release" /\ step.buckets = {} /\ step'.at # "release" /\ i \in InvIds
      /\ run[c].phase = "dead" /\ run[c].inv = i
      /\ UNCHANGED <<invocations, attached>>
  BY DEF EndFinish, StartTasks, RowsLinked
<1>2. invocations[i].state \notin {"none", "queued", "running"}
  BY <1>1, ReleasingRow DEF Releasing
<1>3. FinalState(c) \notin {"none", "collecting", "queued", "running"}
  BY <1>1, FinalStateClosed
<1>4. ASSUME NEW b \in BucketIds
      PROVE  /\ buckets'[b].conversation = buckets[b].conversation
             /\ IF b \in attached[i] /\ buckets[b].state = "running"
                THEN buckets'[b].state \notin {"none", "collecting", "queued", "running"}
                ELSE buckets'[b].state = buckets[b].state
 <2>1. CASE b \in attached[i] /\ buckets[b].state = "running"
  <3>1. buckets'[b] = CloseBucket(b, FinalState(c))  BY <2>1 DEF EndFinish
  <3> QED BY <1>3, <2>1, <3>1 DEF CloseBucket, TypeOK, QueueTypeOK, Bucket
 <2>2. CASE ~(b \in attached[i] /\ buckets[b].state = "running")
  <3>1. buckets'[b] \in {Deferred({v \in Conversations : ChatOf[v] = ChatOf[c]})[b], buckets[b]}
    BY <2>2 DEF EndFinish
  <3> QED BY <2>2, <3>1, DeferredRows DEF TypeOK
 <2> QED BY <2>1, <2>2
<1>5. \A j \in InvIds : /\ attached[j] \subseteq BucketIds
                        /\ Releasing(j) <=> j = i
                        /\ ~Releasing(j)'
                        /\ Holds(j)' = Holds(j)
  BY <1>1, <1>2 DEF Releasing, Holds, TypeOK, QueueTypeOK
<1>6. FreshRows' /\ OneOpening' /\ HeldOnce' /\ HeldJoined'
  BY <1>1, <1>5 DEF OwnInv, FreshRows, OneOpening, HeldOnce, HeldJoined
<1>7. QueuedRows' /\ QueuedBatches'  BY <1>1, <1>4, <1>5 DEF OwnInv, QueuedRows, QueuedBatches
<1>8. CollectingFree' /\ SameConversation'
  BY <1>1, <1>4, <1>5 DEF OwnInv, CollectingFree, SameConversation
<1>9. RunningHeld'  BY <1>1, <1>4, <1>5 DEF OwnInv, RunningHeld
<1> QED BY <1>6, <1>7, <1>8, <1>9 DEF OwnInv

-----------------------------------------------------------------------------
(* Who holds a batch: the actions.                                         *)

\* The join table of queued invocations: their opening batches, which are queued.
LEMMA JoinedQueued ==
    ASSUME TypeOK, OwnInv, RowsLinked, NEW I, I \subseteq QueuedInvocations
    PROVE  /\ \A i \in QueuedInvocations : invocations[i].bucket \in JoinedTo(I) <=> i \in I
           /\ \A b \in JoinedTo(I) : b \in BucketIds /\ buckets[b].state = "queued"
<1>1. \A i \in QueuedInvocations :
         /\ attached[i] = {invocations[i].bucket}
         /\ invocations[i].bucket \in BucketIds \ {0}
         /\ buckets[invocations[i].bucket].state = "queued"
  BY DEF QueuedInvocations, OwnInv, QueuedRows, TypeOK, QueueTypeOK, BucketIds
<1>2. \A b : b \in JoinedTo(I) <=> \E i \in I : b = invocations[i].bucket  BY <1>1 DEF JoinedTo
<1> QED BY <1>1, <1>2 DEF OwnInv, OneOpening, QueuedInvocations

\* Vetting closes an invocation together with its batch.
LEMMA OwnVet ==
    ASSUME TypeOK, RowsLinked, OwnInv, VetQueued
    PROVE  OwnInv'
<1>1. DroppedInvocations \subseteq QueuedInvocations /\ SleepSkips \subseteq QueuedInvocations
  BY DEF DroppedInvocations, InvalidClaims, SleepSkips
<1> DEFINE gone == DroppedInvocations \cup SleepSkips
<1>2. ASSUME NEW i \in InvIds
      PROVE  /\ invocations'[i].bucket = invocations[i].bucket
             /\ invocations'[i].conversation = invocations[i].conversation
             /\ i \notin gone => invocations'[i] = invocations[i]
             /\ i \in gone => /\ invocations[i].state = "queued"
                              /\ invocations'[i].state \notin {"none", "queued", "running"}
 <2>1. invocations[i] \in Invocation  BY DEF TypeOK, QueueTypeOK
 <2>2. /\ i \notin gone => invocations'[i] = invocations[i]
       /\ i \in gone => \E st \in {"aborted", "skipped_budget"} : invocations'[i] = CloseInvocation(i, st)
   BY DEF VetQueued
 <2>3. i \in gone => invocations[i].state = "queued"  BY <1>1 DEF QueuedInvocations
 <2> HIDE DEF gone
 <2> QED BY <2>1, <2>2, <2>3 DEF CloseInvocation, Invocation
<1> DEFINE closed == JoinedTo(DroppedInvocations) \cup JoinedTo(SleepSkips)
<1>3. ASSUME NEW b \in BucketIds
      PROVE  /\ buckets'[b].conversation = buckets[b].conversation
             /\ b \notin closed => buckets'[b].state = buckets[b].state
             /\ b \in closed => buckets'[b].state \notin {"none", "collecting", "queued", "running"}
 <2>1. buckets[b] \in Bucket  BY DEF TypeOK, QueueTypeOK
 <2>2. /\ b \notin closed => buckets'[b] = buckets[b]
       /\ b \in closed => \E st \in {"aborted", "skipped_budget"} : buckets'[b] = CloseBucket(b, st)
   BY DEF VetQueued
 <2> HIDE DEF closed
 <2> QED BY <2>1, <2>2 DEF CloseBucket, Bucket
<1>4. \A i \in InvIds : invocations[i].state = "queued" =>
         /\ invocations[i].bucket \in BucketIds
         /\ buckets[invocations[i].bucket].state = "queued"
         /\ invocations[i].bucket \in closed <=> i \in gone
  BY <1>1, JoinedQueued DEF QueuedInvocations, OwnInv, QueuedRows, TypeOK, QueueTypeOK
<1>5. step.at # "release" /\ step'.at # "release" /\ attached' = attached
  BY DEF VetQueued, TypeOK, QueueTypeOK, Step
<1> HIDE DEF gone, closed
<1>6. \A i \in InvIds :
         invocations[i].state = "queued" =>
            (invocations'[i].state = "queued" <=> buckets'[invocations[i].bucket].state = "queued")
  BY <1>2, <1>3, <1>4
<1>7. \A i \in InvIds : invocations[i].state = "running" => invocations'[i].state = "running"
  BY <1>2
<1> QED BY <1>2, <1>3, <1>5, <1>6, <1>7, OwnClose

\* So do /pause and "cancel ongoing"; the batch of a queued invocation is of its
\* conversation.
LEMMA OwnCloseUnstarted ==
    ASSUME TypeOK, RowsLinked, OwnInv, NEW C, CloseUnstarted(C), attached' = attached,
           step' = step, step.at = "idle"
    PROVE  OwnInv'
<1>1. ASSUME NEW i \in InvIds
      PROVE  /\ invocations'[i].bucket = invocations[i].bucket
             /\ invocations'[i].conversation = invocations[i].conversation
             /\ IF invocations[i].state = "queued" /\ invocations[i].conversation \in C
                THEN invocations'[i].state = "aborted"
                ELSE invocations'[i].state = invocations[i].state
  BY DEF CloseUnstarted, UnstartedInvocations, QueuedInvocations, CloseInvocation,
         TypeOK, QueueTypeOK, Invocation
<1>2. ASSUME NEW b \in BucketIds
      PROVE  /\ buckets'[b].conversation = buckets[b].conversation
             /\ IF b \in Unstarted(C) THEN buckets'[b].state = "expired"
                ELSE buckets'[b].state = buckets[b].state
             /\ buckets[b].state = "queued" =>
                   (b \in Unstarted(C) <=> buckets[b].conversation \in C)
 <2>1. IF b \in Unstarted(C) THEN buckets'[b] = CloseBucket(b, "expired")
       ELSE buckets'[b] = buckets[b]
   BY DEF CloseUnstarted
 <2>2. buckets[b].state = "queued" => (b \in Unstarted(C) <=> buckets[b].conversation \in C)
   BY DEF Unstarted
 <2> QED BY <2>1, <2>2 DEF CloseBucket, TypeOK, QueueTypeOK, Bucket
<1>3. \A i \in InvIds : invocations[i].state = "queued" =>
         /\ invocations[i].bucket \in BucketIds
         /\ buckets[invocations[i].bucket].state = "queued"
         /\ buckets[invocations[i].bucket].conversation = invocations[i].conversation
  BY DEF OwnInv, QueuedRows, SameConversation, TypeOK, QueueTypeOK
<1> QED BY <1>1, <1>2, <1>3, OwnClose

\* recover() closes every running row, and a queued invocation together with its batch.
LEMMA OwnRecover ==
    ASSUME TypeOK, RowsLinked, OwnInv, NEW old, Recover(old), attached' = attached,
           step.at # "release", step'.at # "release"
    PROVE  OwnInv'
<1> DEFINE claimed == {t \in Tasks : receipts[t].state = "claimed"}
           replayed == {receipts[t].invocation : t \in claimed} \cap QueuedInvocations
           stale == {b \in 1..old : /\ buckets[b].state \in {"collecting", "queued"}
                                    /\ b \notin JoinedTo(replayed)}
           Closed == {"completed", "failed", "aborted", "outcome_unknown", "expired"}
<1>1. ASSUME NEW i \in InvIds
      PROVE  /\ invocations'[i].bucket = invocations[i].bucket
             /\ invocations'[i].conversation = invocations[i].conversation
             /\ IF \/ invocations[i].state = "running"
                   \/ i \in replayed
                   \/ invocations[i].state = "queued" /\ invocations[i].bucket \in stale
                THEN /\ invocations[i].state \in {"queued", "running"}
                     /\ invocations'[i].state \in Closed
                ELSE invocations'[i].state = invocations[i].state
 <2>1. invocations[i] \in Invocation  BY DEF TypeOK, QueueTypeOK
 <2>2. /\ invocations[i].state = "running" => 
             invocations'[i] = CloseInvocation(i, RecoveredInvocation(i))
       /\ invocations[i].state # "running" =>
             invocations'[i] = IF i \in replayed \/ (i \in QueuedInvocations /\ invocations[i].bucket \in stale)
                               THEN CloseInvocation(i, "aborted") ELSE invocations[i]
   BY DEF Recover
 <2>3. /\ RecoveredInvocation(i) \in Closed
       /\ i \in replayed => i \in QueuedInvocations
       /\ i \in QueuedInvocations <=> invocations[i].state = "queued"
   BY DEF RecoveredInvocation, QueuedInvocations
 <2> HIDE DEF replayed, stale
 <2> QED BY <2>1, <2>2, <2>3 DEF CloseInvocation, Invocation
<1>2. ASSUME NEW b \in BucketIds
      PROVE  /\ buckets'[b].conversation = buckets[b].conversation
             /\ IF b \in JoinedTo(replayed) \/ buckets[b].state = "running" \/ b \in stale
                THEN buckets'[b].state \in Closed
                ELSE buckets'[b].state = buckets[b].state
 <2>1. buckets[b] \in Bucket  BY DEF TypeOK, QueueTypeOK
 <2>2. IF b \in JoinedTo(replayed) \/ buckets[b].state = "running" \/ b \in stale
       THEN \E st \in Closed : buckets'[b] = CloseBucket(b, st)
       ELSE buckets'[b] = buckets[b]
   BY DEF Recover
 <2> HIDE DEF replayed, stale
 <2> QED BY <2>1, <2>2 DEF CloseBucket, Bucket
<1>3. \A i \in InvIds : invocations[i].state = "queued" =>
         /\ invocations[i].bucket \in BucketIds
         /\ buckets[invocations[i].bucket].state = "queued"
         /\ invocations[i].bucket \in JoinedTo(replayed) <=> i \in replayed
  BY JoinedQueued DEF QueuedInvocations, OwnInv, QueuedRows, TypeOK, QueueTypeOK
<1>4. \A i \in InvIds : attached[i] \subseteq BucketIds  BY DEF TypeOK, QueueTypeOK
<1> HIDE DEF replayed, stale
<1> QED BY <1>1, <1>2, <1>3, <1>4, OwnClose

\* The actions of InvocationQueueService hand a batch from one holder to the next.
LEMMA OwnQueueStep ==
    ASSUME TypeOK, RowsLinked, BlockInv, RunsHeld, ReleaseList, OwnInv, QueueStep
    PROVE  OwnInv'
<1> USE DEF TypeOK, QueueTypeOK, tables
<1>1. ASSUME NEW b \in BucketIds, DeferBucket(b) \/ LeaveBucket(b) PROVE OwnInv'
 <2>1. CASE DeferBucket(b)
  <3>1. step.at # "release" /\ step'.at # "release"  BY <2>1 DEF DeferBucket, NextDue, Step
  <3>2. RowsKept  BY <2>1 DEF DeferBucket, RowsKept, Bucket
  <3> QED BY <3>1, <3>2, OwnFrame
 <2>2. CASE LeaveBucket(b)
  <3>1. step.at # "release" /\ step'.at # "release"  BY <2>2 DEF LeaveBucket, NextDue, Step
  <3>2. RowsKept  BY <2>2 DEF LeaveBucket, RowsKept
  <3> QED BY <3>1, <3>2, OwnFrame
 <2> QED BY <1>1, <2>1, <2>2
<1>2. ASSUME NEW b \in BucketIds, SkipBucket(b) PROVE OwnInv'
 <2>1. buckets[b].state = "collecting" /\ step.at # "release" /\ step'.at # "release"
   BY <1>2 DEF SkipBucket, NextDue, BlockInv, Step
 <2>2. \A d \in BucketIds :
          /\ buckets'[d].conversation = buckets[d].conversation
          /\ buckets'[d].state = IF d = b THEN "skipped_budget" ELSE buckets[d].state
   BY <1>2 DEF SkipBucket, CloseBucket, Bucket
 <2>3. \A i \in InvIds : invocations[i].state = "queued" =>
          invocations[i].bucket \in BucketIds /\ invocations[i].bucket # b
   BY <2>1 DEF OwnInv, QueuedRows
 <2>4. UNCHANGED <<invocations, attached>>  BY <1>2 DEF SkipBucket
 <2>5. \A i \in InvIds : invocations[i].state = "queued" => 
          buckets[invocations[i].bucket].state = "queued"
   BY DEF OwnInv, QueuedRows
 <2> HIDE DEF TypeOK, QueueTypeOK
 <2> QED BY <2>1, <2>2, <2>3, <2>4, <2>5, OwnClose
<1>3. ASSUME NEW b \in BucketIds, AttachBucket(b) PROVE OwnInv'
 <2>1. PICK i \in RunningInvocation(buckets[b].conversation) :
          AttachBucketTo(i, b, buckets[b].conversation)
   BY <1>3 DEF AttachBucket
 <2>2. /\ buckets[b].state = "collecting" /\ step.at # "release" /\ step'.at # "release"
       /\ invocations' = invocations
   BY <1>3 DEF AttachBucket, NextDue, BlockInv, Step
 <2>3. /\ i \in InvIds /\ invocations[i].state = "running"
       /\ invocations[i].conversation = buckets[b].conversation
   BY <2>1 DEF RunningInvocation
 <2>4. /\ buckets'[b].state = "running"
       /\ buckets'[b].conversation = buckets[b].conversation
       /\ \A d \in BucketIds : d # b => buckets'[d] = buckets[d]
       /\ attached' = [attached EXCEPT ![i] = @ \cup {b}]
   BY <2>1 DEF AttachBucketTo, Bucket
 <2> HIDE DEF TypeOK, QueueTypeOK
 <2> QED BY <2>2, <2>3, <2>4, OwnJoin
<1>4. ASSUME NEW b \in BucketIds, QueueBucket(b) PROVE OwnInv'
 <2>1. PICK j \in InvIds : InsertInvocation(j, b, buckets[b].conversation)
   BY <1>4 DEF QueueBucket
 <2>2. /\ buckets[b].state = "collecting" /\ step.at # "release" /\ step'.at # "release"
   BY <1>4 DEF QueueBucket, NextDue, BlockInv, Step
 <2>3. /\ buckets'[b].state = "queued"
       /\ buckets'[b].conversation = buckets[b].conversation
       /\ \A d \in BucketIds : d # b => buckets'[d] = buckets[d]
   BY <1>4 DEF QueueBucket, Bucket
 <2>4. \A i \in InvIds : b \notin Holds(i) /\ invocations[i].bucket # b  BY <2>2, Unclaimed
 <2>5. \A i \in InvIds : ~Releasing(i) /\ ~Releasing(i)'  BY <2>2 DEF Releasing
 <2>6. \A i \in InvIds : i # j => Holds(i)' = Holds(i) \ {b}
   BY <2>1, <2>4, <2>5 DEF Holds, InsertInvocation
 <2> HIDE DEF TypeOK, QueueTypeOK
 <2> QED BY <2>1, <2>2, <2>3, <2>4, <2>5, <2>6, OwnInsert
<1>5. ASSUME NEW b \in BucketIds, ReleaseBucket(b) PROVE OwnInv'
 <2>1. PICK r \in InvIds : r = step.inv /\ Releasing(r)
   BY <1>5 DEF ReleaseBucket, Releasing, BlockInv, RowsLinked
 <2>2. /\ step.at = "release" /\ step'.at = "release" /\ step'.inv = r
       /\ step'.buckets = step.buckets \ {b} /\ b \in step.buckets
   BY <1>5, <2>1 DEF ReleaseBucket, Step
 <2>3. invocations[r].state \notin {"none", "queued", "running"}  BY <2>1, ReleasingRow
 <2>4. \A i \in InvIds : (Releasing(i) <=> i = r) /\ (Releasing(i)' <=> i = r)
   BY <2>1, <2>2 DEF Releasing
 <2>5. Holds(r) = step.buckets /\ b \in attached[r] /\ b # invocations[r].bucket
   BY <2>1, <2>2, <2>3 DEF Holds, ReleaseList, Uninjected
 <2>6. \A i \in InvIds : i # r => b \notin Holds(i) /\ invocations[i].bucket # b
   BY <2>2, <2>5 DEF OwnInv, HeldOnce, HeldJoined
 <2>7. CASE buckets[b].state = "running"
  <3>1. PICK j \in InvIds : InsertInvocation(j, b, buckets[b].conversation)
    BY <1>5, <2>7 DEF ReleaseBucket, Requeue
  <3>2. j # r  BY <2>3, <3>1 DEF InsertInvocation, FreshInvocation
  <3>3. buckets' = [buckets EXCEPT ![b].state = "queued"]
    BY <1>5, <2>7 DEF ReleaseBucket, Requeue
  <3>4. /\ buckets'[b].state = "queued"
        /\ buckets'[b].conversation = buckets[b].conversation
        /\ \A d \in BucketIds : d # b => buckets'[d] = buckets[d]
    BY <3>3 DEF Bucket
  <3>5. ASSUME NEW i \in InvIds, i # j PROVE Holds(i)' = Holds(i) \ {b}
   <4>1. invocations'[i] = invocations[i] /\ attached'[i] = attached[i]
     BY <3>1, <3>5 DEF InsertInvocation
   <4>2. CASE i = r  BY <2>2, <2>3, <2>4, <2>5, <4>1, <4>2 DEF Holds
   <4>3. CASE i # r  BY <2>4, <2>6, <4>1, <4>3 DEF Holds
   <4> QED BY <4>2, <4>3
  <3>6. \A i \in InvIds : ~Releasing(j) /\ (Releasing(i)' <=> Releasing(i))  BY <2>4, <3>2
  <3>7. \A i \in InvIds : invocations[i].bucket # b  BY <2>5, <2>6
  <3> HIDE DEF TypeOK, QueueTypeOK
  <3> QED BY <2>7, <3>1, <3>4, <3>5, <3>6, <3>7, OwnInsert
 <2>8. CASE buckets[b].state # "running"
  <3>1. UNCHANGED <<buckets, invocations, attached>>  BY <1>5, <2>8 DEF ReleaseBucket
  <3>2. \A i \in InvIds : Holds(i)' \subseteq Holds(i)  BY <2>2, <2>4, <3>1 DEF Holds
  <3>3. FreshRows' /\ QueuedRows' /\ QueuedBatches' /\ OneOpening'
    BY <3>1 DEF OwnInv, FreshRows, QueuedRows, QueuedBatches, OneOpening
  <3>4. HeldOnce' /\ HeldJoined'  BY <3>1, <3>2 DEF OwnInv, HeldOnce, HeldJoined
  <3>5. CollectingFree' /\ RunningHeld' /\ SameConversation'
    BY <2>4, <3>1 DEF OwnInv, CollectingFree, RunningHeld, SameConversation
  <3> QED BY <3>3, <3>4, <3>5 DEF OwnInv
 <2> QED BY <2>7, <2>8
<1>6. ASSUME NEW t \in Tasks, SuppressReceipt(t) \/ KeepReceipt(t) PROVE OwnInv'
 <2> RowsKept /\ step.at # "release" /\ step'.at # "release"
   BY <1>6 DEF SuppressReceipt, KeepReceipt, NextReceipt, RowsKept, Step
 <2> QED BY OwnFrame
<1>7. ASSUME NEW t \in Tasks, AttachReceipt(t) PROVE OwnInv'
 <2>1. PICK i \in RunningInvocation(TaskConv[t]), b \in BucketIds :
         /\ FreshBucket(b)
         /\ buckets' = [buckets EXCEPT ![b] =
               [state |-> "running", conversation |-> TaskConv[t], due |-> TRUE]]
         /\ attached' = [attached EXCEPT ![i] = @ \cup {b}]
   BY <1>7 DEF AttachReceipt
 <2>2. /\ buckets[b].state = "none" /\ step.at # "release" /\ step'.at # "release"
       /\ invocations' = invocations
   BY <1>7, <2>1 DEF AttachReceipt, NextReceipt, FreshBucket, Step
 <2>3. /\ i \in InvIds /\ invocations[i].state = "running"
       /\ invocations[i].conversation = TaskConv[t]
   BY <2>1 DEF RunningInvocation
 <2>4. /\ buckets'[b].state = "running"
       /\ buckets'[b].conversation = TaskConv[t]
       /\ \A d \in BucketIds : d # b => buckets'[d] = buckets[d]
   BY <2>1
 <2> HIDE DEF TypeOK, QueueTypeOK
 <2> QED BY <2>1, <2>2, <2>3, <2>4, OwnJoin
<1>8. ASSUME NEW t \in Tasks, QueueReceipt(t) PROVE OwnInv'
 <2>1. PICK j \in InvIds, b \in BucketIds :
         /\ FreshBucket(b)
         /\ buckets' = [buckets EXCEPT ![b] =
               [state |-> "queued", conversation |-> TaskConv[t], due |-> TRUE]]
         /\ InsertInvocation(j, b, TaskConv[t])
   BY <1>8 DEF QueueReceipt
 <2>2. /\ buckets[b].state = "none" /\ step.at # "release" /\ step'.at # "release"
   BY <1>8, <2>1 DEF QueueReceipt, NextReceipt, FreshBucket, Step
 <2>3. /\ buckets'[b].state = "queued"
       /\ buckets'[b].conversation = TaskConv[t]
       /\ \A d \in BucketIds : d # b => buckets'[d] = buckets[d]
   BY <2>1
 <2>4. \A i \in InvIds : b \notin Holds(i) /\ invocations[i].bucket # b  BY <2>2, Unclaimed
 <2>5. \A i \in InvIds : ~Releasing(i) /\ ~Releasing(i)'  BY <2>2 DEF Releasing
 <2>6. \A i \in InvIds : i # j => Holds(i)' = Holds(i) \ {b}
   BY <2>1, <2>4, <2>5 DEF Holds, InsertInvocation
 <2> HIDE DEF TypeOK, QueueTypeOK
 <2> QED BY <2>1, <2>2, <2>3, <2>4, <2>5, <2>6, OwnInsert
<1>9. CASE StartDue \/ EndDue
 <2> RowsKept /\ step.at # "release" /\ step'.at # "release"
   BY <1>9 DEF StartDue, EndDue, Idle, RowsKept, Step
 <2> QED BY OwnFrame
<1>10. CASE VetQueued  BY <1>10, OwnVet
<1> QED BY <1>1, <1>2, <1>3, <1>4, <1>5, <1>6, <1>7, <1>8, <1>9, <1>10 DEF QueueStep

\* The send barrier joins the collecting batch to its own run's invocation.
LEMMA OwnHoldSend ==
    ASSUME TypeOK, RowsLinked, RunsHeld, OwnInv, NEW c \in Conversations, HoldSend(c)
    PROVE  OwnInv'
<1> DEFINE i == run[c].inv
<1>1. PICK b \in Collecting(c) : AttachBucketTo(i, b, c)  BY DEF HoldSend
<1>2. /\ step.at = "idle" /\ step' = step /\ invocations' = invocations
      /\ i \in InvIds /\ invocations[i].state = "running" /\ invocations[i].conversation = c
  BY DEF HoldSend, Sending, Live, RowsLinked, RunsHeld
<1>3. b \in BucketIds /\ buckets[b].state = "collecting" /\ buckets[b].conversation = c
  BY <1>1 DEF Collecting
<1>4. /\ buckets'[b].state = "running"
      /\ buckets'[b].conversation = c
      /\ \A d \in BucketIds : d # b => buckets'[d] = buckets[d]
      /\ attached' = [attached EXCEPT ![i] = @ \cup {b}]
  BY <1>1, <1>3 DEF AttachBucketTo, TypeOK, QueueTypeOK, Bucket
<1> HIDE DEF i
<1> QED BY <1>2, <1>3, <1>4, OwnJoin

\* Every step keeps who holds what.
LEMMA OwnKept ==
    ASSUME TypeOK, RowsLinked, BlockInv, RunsHeld, ReleaseList, OwnInv, [Next]_vars
    PROVE  OwnInv'
<1> USE DEF tables, policy, handover, runVars
<1>1. CASE UNCHANGED vars  BY <1>1, OwnFrame DEF vars, RowsKept
<1>2. CASE QueueStep  BY <1>2, OwnQueueStep
<1>3. ASSUME NEW c \in Conversations, RunStep(c) PROVE OwnInv'
  BY <1>3, RunStepFrame, OwnFrame, OwnHoldSend DEF RunGoesOn
<1>4. ASSUME NEW c \in Conversations, AppendToBucket(c) PROVE OwnInv'  BY <1>4, OwnAppend
<1>5. ASSUME NEW b \in BucketIds, DeadlinePasses(b) PROVE OwnInv'
 <2> RowsKept /\ step' = step  BY <1>5 DEF DeadlinePasses, RowsKept, TypeOK, QueueTypeOK, Bucket
 <2> QED BY OwnFrame
<1>6. CASE UNCHANGED <<buckets, invocations, attached, step>>  BY <1>6, OwnFrame DEF RowsKept
<1>7. CASE Tick \/ EndTick
 <2> RowsKept /\ step.at # "release" /\ step'.at # "release"
   BY <1>7 DEF Tick, EndTick, StartTasks, Idle, RowsKept
 <2> QED BY OwnFrame
<1>8. ASSUME NEW i \in InvIds, Launch(i) PROVE OwnInv'  BY <1>8, OwnLaunch
<1>9. ASSUME NEW c \in Conversations, BeginFinish(c) PROVE OwnInv'  BY <1>9, OwnBegin
<1>10. ASSUME NEW c \in Conversations, NEW w \in BOOLEAN, EndFinish(c, w) PROVE OwnInv'
  BY <1>10, OwnEnd
<1>11. CASE CancelOngoing \/ \E k \in Chats : Pause(k)
  BY <1>11, OwnCloseUnstarted DEF CancelOngoing, Pause
<1>12. CASE CrashAndRestart  BY <1>12, OwnRecover DEF CrashAndRestart, BetweenTransactions, Idle
<1> QED BY <1>1, <1>2, <1>3, <1>4, <1>5, <1>6, <1>7, <1>8, <1>9, <1>10, <1>11, <1>12
        DEF Next, Arrival, FinishTask, FailFinish, AbortConversation, Resume, ToggleSleep

\* The list of a terminal transaction loses a batch only when its row moves.
LEMMA ReleaseListKept ==
    ASSUME TypeOK, RowsLinked, BlockInv, RunsHeld, ReleaseList, OwnInv, [Next]_vars
    PROVE  ReleaseList'
<1> USE DEF tables, policy, handover, runVars
<1>1. CASE UNCHANGED vars  BY <1>1 DEF vars, ReleaseList, Uninjected
<1>2. CASE step'.at # "release"  BY <1>2 DEF ReleaseList
<1>3. ASSUME NEW b \in BucketIds, ReleaseBucket(b) PROVE ReleaseList'
 <2>1. PICK r \in InvIds : r = step.inv /\ Releasing(r)
   BY <1>3 DEF ReleaseBucket, Releasing, BlockInv, RowsLinked
 <2>2. /\ step.at = "release" /\ step'.inv = r
       /\ step'.buckets = step.buckets \ {b} /\ b \in step.buckets
       /\ injected' = injected
   BY <1>3, <2>1 DEF ReleaseBucket, TypeOK, QueueTypeOK, Step
 <2>3. invocations[r].state # "none"  BY <2>1, ReleasingRow
 <2>4. invocations'[r].bucket = invocations[r].bucket /\ attached'[r] = attached[r]
   BY <1>3, <2>3 DEF ReleaseBucket, Requeue, InsertInvocation, FreshInvocation, TypeOK, QueueTypeOK
 <2>5. buckets'[b].state # "running" /\ \A d \in BucketIds : d # b => buckets'[d] = buckets[d]
   BY <1>3 DEF ReleaseBucket, Requeue, TypeOK, QueueTypeOK, Bucket
 <2>6. attached[r] \subseteq BucketIds  BY DEF TypeOK, QueueTypeOK
 <2> QED BY <2>1, <2>2, <2>4, <2>5, <2>6 DEF ReleaseList, Uninjected
<1>4. ASSUME NEW c \in Conversations, BeginFinish(c) PROVE ReleaseList'  BY <1>4, OwnBegin
<1>5. CASE QueueStep /\ \A b \in BucketIds : ~ReleaseBucket(b)
  BY <1>2, <1>5
  DEF QueueStep, DeferBucket, LeaveBucket, SkipBucket, AttachBucket, QueueBucket, NextDue,
      SuppressReceipt, KeepReceipt, AttachReceipt, QueueReceipt, NextReceipt, StartDue, EndDue,
      VetQueued, Idle, TypeOK, QueueTypeOK, Step
<1>6. CASE \E c \in Conversations : RunStep(c)  BY <1>2, <1>6, RunStepFrame DEF RunGoesOn
<1>7. CASE Tick \/ EndTick \/ CrashAndRestart
  BY <1>2, <1>7 DEF Tick, EndTick, CrashAndRestart, StartTasks, Idle
<1>8. ASSUME NEW i \in InvIds, Launch(i) PROVE ReleaseList'
  BY <1>2, <1>8 DEF Launch, TypeOK, QueueTypeOK, Step
<1>9. ASSUME NEW c \in Conversations, NEW w \in BOOLEAN, EndFinish(c, w) PROVE ReleaseList'
  BY <1>2, <1>9 DEF EndFinish, StartTasks
<1> QED BY <1>1, <1>2, <1>3, <1>4, <1>5, <1>6, <1>7, <1>8, <1>9
        DEF Next, Arrival, AppendToBucket, FinishTask, DeadlinePasses, FailFinish,
            AbortConversation, Pause, Resume, CancelOngoing, ToggleSleep

\* In every reachable state each batch that waits or runs has exactly one invocation
\* that answers for it, every run in memory has its running row, and the list of a
\* terminal transaction names what that invocation still holds.
THEOREM Ownership == Spec => [](BlockInv /\ RunsHeld /\ ReleaseList /\ OwnInv)
<1> DEFINE Inv == BlockInv /\ RunsHeld /\ ReleaseList /\ OwnInv
<1>1. Init => Inv
 <2> SUFFICES ASSUME Init PROVE Inv  OBVIOUS
 <2> USE DEF Init, QueueInit, RunInit, NoBucket, NoInvocation, NoReceipt, NoRun, Idle
 <2>1. BlockInv /\ RunsHeld /\ ReleaseList  BY DEF BlockInv, RunsHeld, ReleaseList
 <2>2. FreshRows /\ QueuedRows /\ QueuedBatches /\ OneOpening
   BY DEF FreshRows, QueuedRows, QueuedBatches, OneOpening
 <2>3. HeldOnce /\ HeldJoined /\ CollectingFree /\ RunningHeld /\ SameConversation
   BY DEF HeldOnce, HeldJoined, CollectingFree, RunningHeld, SameConversation, Holds, Releasing
 <2> QED BY <2>1, <2>2, <2>3 DEF OwnInv
<1>2. TypeOK /\ RowsLinked /\ Inv /\ [Next]_vars => Inv'
  BY BlockKept, RunsHeldKept, ReleaseListKept, OwnKept
<1> QED BY <1>1, <1>2, TypeCorrect, PTL DEF Spec

\* No batch is stranded or run twice: #attachBucket, the send barrier, the release of
\* batches that were not injected, /pause, "cancel ongoing" and recover() agree on who
\* answers for it, in whatever order they come.
THEOREM BatchesHaveOneRun == Spec => []BatchesOwned
<1>1. TypeOK /\ RowsLinked /\ OwnInv => BatchesOwned
 <2> SUFFICES ASSUME TypeOK, RowsLinked, OwnInv PROVE BatchesOwned  OBVIOUS
 <2>1. \A b \in BucketIds : buckets[b].state = "queued" =>
          \E i \in QueuedInvocations : invocations[i].bucket = b
   BY DEF OwnInv, QueuedBatches, QueuedInvocations
 <2>2. \A i \in QueuedInvocations : buckets[invocations[i].bucket].state = "queued"
   BY DEF OwnInv, QueuedRows, QueuedInvocations
 <2>3. \A i, j \in InvIds :
          (invocations[i].bucket # 0 /\ invocations[i].bucket = invocations[j].bucket) => i = j
   BY DEF OwnInv, OneOpening
 <2>4. step.at # "release" => \A b \in BucketIds : buckets[b].state = "running" =>
          \E i \in InvIds : invocations[i].state = "running" /\ b \in attached[i]
   BY DEF OwnInv, RunningHeld, Releasing
 <2> QED BY <2>1, <2>2, <2>3, <2>4 DEF BatchesOwned
<1> QED BY <1>1, TypeCorrect, Ownership, PTL

-----------------------------------------------------------------------------
(* How rows move: closed rows stay closed.                                 *)

\* What one step does to batch b, which keeps its conversation for ever.
BatchMoves(b) ==
    LET st == buckets[b].state
        new == buckets'[b].state
    IN
    /\ st # "none" => buckets'[b].conversation = buckets[b].conversation
    /\ \/ new = st
       \/ /\ st = "none" /\ new \in OpenState
          /\ buckets'[b].conversation \in Conversations
          /\ ChatOf[buckets'[b].conversation] \notin paused
       \/ st = "collecting" /\ new \in {"queued", "running"}
       \/ st = "queued" /\ new = "running"
       \/ st = "running" /\ new = "queued" /\ step.at = "release" /\ b \in step.buckets
       \/ st \in OpenState /\ new \in ClosedState \ {"completed"}
       \/ /\ st = "running" /\ new \in ClosedState
          /\ step.at = "release" /\ step.buckets = {} /\ b \in attached[step.inv]
          /\ new = invocations[step.inv].state

\* What one step does to the row of invocation i.
InvocationMoves(i) ==
    LET st == invocations[i].state
        new == invocations'[i].state
    IN
    /\ st # "none" => /\ invocations'[i].conversation = invocations[i].conversation
                      /\ invocations'[i].bucket = invocations[i].bucket
    /\ \/ new = st
       \/ st = "none" /\ new = "queued"
       \/ st = "queued" /\ new = "running"
       \/ st \in {"queued", "running"} /\ new \in ClosedState

\* The actions of InvocationQueueService move a batch on.
LEMMA QueueStepMoves ==
    ASSUME TypeOK, RowsLinked, BlockInv, OwnInv, QueueStep, NEW d \in BucketIds
    PROVE  BatchMoves(d)
<1> USE DEF TypeOK, QueueTypeOK, tables, BatchMoves
<1>1. CASE buckets' = buckets  BY <1>1
<1>2. ASSUME NEW b \in BucketIds, DeferBucket(b) PROVE BatchMoves(d)
  BY <1>2 DEF DeferBucket, Bucket
<1>3. ASSUME NEW b \in BucketIds, SkipBucket(b) PROVE BatchMoves(d)
  BY <1>3 DEF SkipBucket, NextDue, BlockInv, CloseBucket, Bucket, OpenState, ClosedState, BucketState
<1>4. ASSUME NEW b \in BucketIds, AttachBucket(b) PROVE BatchMoves(d)
  BY <1>4 DEF AttachBucket, AttachBucketTo, NextDue, BlockInv, Bucket
<1>5. ASSUME NEW b \in BucketIds, QueueBucket(b) PROVE BatchMoves(d)
  BY <1>5 DEF QueueBucket, NextDue, BlockInv, Bucket
<1>6. ASSUME NEW b \in BucketIds, ReleaseBucket(b) PROVE BatchMoves(d)
  BY <1>6 DEF ReleaseBucket, Requeue, Bucket
<1>7. ASSUME NEW t \in Tasks, AttachReceipt(t) PROVE BatchMoves(d)
 <2>1. PICK b \in BucketIds :
         /\ FreshBucket(b)
         /\ buckets' = [buckets EXCEPT ![b] =
               [state |-> "running", conversation |-> TaskConv[t], due |-> TRUE]]
   BY <1>7 DEF AttachReceipt
 <2>2. ChatOf[TaskConv[t]] \notin paused /\ TaskConv[t] \in Conversations
   BY <1>7, QueueAssumptions DEF AttachReceipt, ReceiptMayGo, ReceiptCancelled
 <2> QED BY <2>1, <2>2 DEF FreshBucket, OpenState
<1>8. ASSUME NEW t \in Tasks, QueueReceipt(t) PROVE BatchMoves(d)
 <2>1. PICK b \in BucketIds :
         /\ FreshBucket(b)
         /\ buckets' = [buckets EXCEPT ![b] =
               [state |-> "queued", conversation |-> TaskConv[t], due |-> TRUE]]
   BY <1>8 DEF QueueReceipt
 <2>2. ChatOf[TaskConv[t]] \notin paused /\ TaskConv[t] \in Conversations
   BY <1>8, QueueAssumptions DEF QueueReceipt, ReceiptMayGo, ReceiptCancelled
 <2> QED BY <2>1, <2>2 DEF FreshBucket, OpenState
<1>9. CASE VetQueued
 <2>1. DroppedInvocations \subseteq QueuedInvocations /\ SleepSkips \subseteq QueuedInvocations
   BY DEF DroppedInvocations, InvalidClaims, SleepSkips
 <2>2. d \in JoinedTo(DroppedInvocations) \cup JoinedTo(SleepSkips) => buckets[d].state = "queued"
   BY <2>1, JoinedQueued
 <2>3. \/ buckets'[d] = buckets[d]
       \/ /\ d \in JoinedTo(DroppedInvocations) \cup JoinedTo(SleepSkips)
          /\ \E st \in {"aborted", "skipped_budget"} : buckets'[d] = CloseBucket(d, st)
   BY <1>9 DEF VetQueued
 <2> QED BY <2>2, <2>3 DEF CloseBucket, Bucket, OpenState, ClosedState, BucketState
<1>10. ASSUME NEW b \in BucketIds, LeaveBucket(b) PROVE buckets' = buckets
  BY <1>10 DEF LeaveBucket
<1>11. ASSUME NEW t \in Tasks, SuppressReceipt(t) \/ KeepReceipt(t) PROVE buckets' = buckets
  BY <1>11 DEF SuppressReceipt, KeepReceipt
<1>12. CASE StartDue \/ EndDue  BY <1>12 DEF StartDue, EndDue
<1> QED BY <1>1, <1>2, <1>3, <1>4, <1>5, <1>6, <1>7, <1>8, <1>9, <1>10, <1>11, <1>12 DEF QueueStep

\* A batch moves forward, or back from a run to the queue during a release.
LEMMA BatchMovesOn ==
    ASSUME TypeOK, RowsLinked, BlockInv, RunsHeld, OwnInv, [Next]_vars, NEW d \in BucketIds
    PROVE  BatchMoves(d)
<1> USE DEF tables, policy, handover, runVars
<1>1. CASE buckets' = buckets  BY <1>1 DEF BatchMoves
<1>2. CASE RowsKept  BY <1>2 DEF RowsKept, BatchMoves
<1>3. CASE QueueStep  BY <1>3, QueueStepMoves
<1>4. ASSUME NEW c \in Conversations, HoldSend(c) PROVE BatchMoves(d)
  BY <1>4 DEF HoldSend, AttachBucketTo, Collecting, BatchMoves, TypeOK, QueueTypeOK, Bucket
<1>5. ASSUME NEW c \in Conversations, AppendToBucket(c) PROVE BatchMoves(d)
 <2>1. PICK b \in BucketIds :
         /\ FreshBucket(b)
         /\ buckets' = [buckets EXCEPT ![b] =
               [state |-> "collecting", conversation |-> c, due |-> ~WindowOpen]]
   BY <1>5 DEF AppendToBucket
 <2>2. ChatOf[c] \notin paused  BY <1>5 DEF AppendToBucket
 <2> QED BY <2>1, <2>2 DEF FreshBucket, BatchMoves, OpenState, TypeOK, QueueTypeOK
<1>6. ASSUME NEW b \in BucketIds, DeadlinePasses(b) PROVE BatchMoves(d)
  BY <1>6 DEF DeadlinePasses, BatchMoves, TypeOK, QueueTypeOK, Bucket
<1>7. ASSUME NEW i \in InvIds, Launch(i) PROVE BatchMoves(d)
 <2>1. PICK o \in BucketIds : o = invocations[i].bucket /\ buckets[o].state = "queued"
   BY <1>7 DEF Launch, Launchable, Candidates, QueuedInvocations, OwnInv, QueuedRows,
               TypeOK, QueueTypeOK
 <2> QED BY <1>7, <2>1 DEF Launch, BatchMoves, TypeOK, QueueTypeOK, Bucket
<1>8. ASSUME NEW c \in Conversations, NEW w \in BOOLEAN, EndFinish(c, w) PROVE BatchMoves(d)
 <2>1. /\ step.at = "release" /\ step.buckets = {} /\ run[c].phase = "dead"
       /\ run[c].inv = step.inv /\ step.inv \in InvIds
   BY <1>8 DEF EndFinish, RowsLinked
 <2>2. FinalState(c) = invocations[step.inv].state  BY <2>1 DEF RunsHeld, Releasing
 <2>3. FinalState(c) \in ClosedState
   BY <2>1, FinalStateClosed DEF ClosedState, BucketState, OpenState
 <2>4. CASE d \in attached[step.inv] /\ buckets[d].state = "running"
  <3>1. buckets'[d] = CloseBucket(d, FinalState(c))  BY <1>8, <2>4 DEF EndFinish
  <3> QED BY <2>1, <2>2, <2>3, <2>4, <3>1 DEF CloseBucket, BatchMoves, TypeOK, QueueTypeOK, Bucket
 <2>5. CASE ~(d \in attached[step.inv] /\ buckets[d].state = "running")
  <3>1. buckets'[d] \in {Deferred({v \in Conversations : ChatOf[v] = ChatOf[c]})[d], buckets[d]}
    BY <1>8, <2>5 DEF EndFinish
  <3> QED BY <3>1, DeferredRows DEF BatchMoves, TypeOK
 <2> QED BY <2>4, <2>5
<1>9. ASSUME NEW C, CloseUnstarted(C) PROVE BatchMoves(d)
 <2>1. \/ buckets'[d] = buckets[d]
       \/ /\ buckets[d].state \in OpenState
          /\ buckets'[d] = CloseBucket(d, "expired")
   BY <1>9 DEF CloseUnstarted, Unstarted, OpenState
 <2> QED BY <2>1 DEF CloseBucket, BatchMoves, ClosedState, BucketState, OpenState,
                     TypeOK, QueueTypeOK, Bucket
<1>10. ASSUME NEW old, Recover(old) PROVE BatchMoves(d)
 <2> DEFINE replayed == {receipts[t].invocation :
                            t \in {u \in Tasks : receipts[u].state = "claimed"}} \cap QueuedInvocations
 <2>1. d \in JoinedTo(replayed) => buckets[d].state = "queued"  BY JoinedQueued
 <2>2. \/ buckets'[d] = buckets[d]
       \/ /\ \/ d \in JoinedTo(replayed)
             \/ buckets[d].state \in OpenState
          /\ \E st \in {"aborted", "outcome_unknown", "expired"} : buckets'[d] = CloseBucket(d, st)
   BY <1>10 DEF Recover, OpenState
 <2> HIDE DEF replayed
 <2> QED BY <2>1, <2>2 DEF CloseBucket, BatchMoves, ClosedState, BucketState, OpenState,
                           TypeOK, QueueTypeOK, Bucket
<1>11. ASSUME NEW c \in Conversations, RunStep(c), ~HoldSend(c) PROVE RowsKept
  BY <1>11, RunStepFrame
<1> QED BY <1>1, <1>2, <1>3, <1>4, <1>5, <1>6, <1>7, <1>8, <1>9, <1>10, <1>11
        DEF Next, vars, Arrival, FinishTask, Tick, EndTick, BeginFinish, FailFinish,
            AbortConversation, Pause, Resume, CancelOngoing, ToggleSleep, CrashAndRestart

\* The row of an invocation moves forward only.
LEMMA InvocationMovesOn ==
    ASSUME TypeOK, RowsLinked, BlockInv, RunsHeld, OwnInv, [Next]_vars, NEW i \in InvIds
    PROVE  InvocationMoves(i)
<1> USE DEF tables, policy, handover, runVars
<1> invocations[i] \in Invocation  BY DEF TypeOK, QueueTypeOK
<1>1. CASE invocations' = invocations  BY <1>1 DEF InvocationMoves
<1>2. CASE RowsKept  BY <1>2 DEF RowsKept, InvocationMoves
<1>3. CASE \E st \in ClosedState : invocations'[i] = CloseInvocation(i, st)
           /\ invocations[i].state \in {"queued", "running"}
  BY <1>3 DEF CloseInvocation, Invocation, InvocationMoves
<1>4. ASSUME NEW j \in InvIds, NEW b, NEW c, InsertInvocation(j, b, c) PROVE InvocationMoves(i)
  BY <1>4 DEF InsertInvocation, FreshInvocation, InvocationMoves, TypeOK, QueueTypeOK
<1>5. ASSUME NEW b \in BucketIds, QueueBucket(b) PROVE InvocationMoves(i)
  BY <1>4, <1>5 DEF QueueBucket
<1>6. ASSUME NEW b \in BucketIds, ReleaseBucket(b) PROVE InvocationMoves(i)
  BY <1>1, <1>4, <1>6 DEF ReleaseBucket, Requeue
<1>7. ASSUME NEW t \in Tasks, QueueReceipt(t) PROVE InvocationMoves(i)
  BY <1>4, <1>7 DEF QueueReceipt
<1>8. CASE VetQueued
 <2>1. DroppedInvocations \subseteq QueuedInvocations /\ SleepSkips \subseteq QueuedInvocations
   BY DEF DroppedInvocations, InvalidClaims, SleepSkips
 <2>2. \/ invocations'[i] = invocations[i]
       \/ /\ i \in DroppedInvocations \cup SleepSkips
          /\ \E st \in {"aborted", "skipped_budget"} : invocations'[i] = CloseInvocation(i, st)
   BY <1>8 DEF VetQueued
 <2>3. i \in QueuedInvocations => invocations[i].state = "queued"  BY DEF QueuedInvocations
 <2>4. {"aborted", "skipped_budget"} \subseteq ClosedState
   BY DEF ClosedState, BucketState, OpenState
 <2> QED BY <1>3, <2>1, <2>2, <2>3, <2>4 DEF InvocationMoves
<1>9. CASE QueueStep
  BY <1>1, <1>5, <1>6, <1>7, <1>8, <1>9
  DEF QueueStep, DeferBucket, LeaveBucket, SkipBucket, AttachBucket, SuppressReceipt,
      KeepReceipt, AttachReceipt, StartDue, EndDue
<1>10. ASSUME NEW j \in InvIds, Launch(j) PROVE InvocationMoves(i)
  BY <1>10 DEF Launch, Launchable, Candidates, QueuedInvocations, InvocationMoves,
               TypeOK, QueueTypeOK, Invocation
<1>11. ASSUME NEW c \in Conversations, BeginFinish(c) PROVE InvocationMoves(i)
 <2>1. FinalState(c) \in ClosedState
   BY <1>11, FinalStateClosed DEF BeginFinish, ClosedState, BucketState, OpenState
 <2>2. \/ invocations'[i] = invocations[i]
       \/ /\ invocations[i].state = "running"
          /\ invocations'[i] = CloseInvocation(i, FinalState(c))
   BY <1>11 DEF BeginFinish, TypeOK, QueueTypeOK
 <2> QED BY <1>3, <2>1, <2>2 DEF InvocationMoves
<1>12. ASSUME NEW C, CloseUnstarted(C) PROVE InvocationMoves(i)
 <2>1. \/ invocations'[i] = invocations[i]
       \/ invocations[i].state = "queued" /\ invocations'[i] = CloseInvocation(i, "aborted")
   BY <1>12 DEF CloseUnstarted, UnstartedInvocations, QueuedInvocations
 <2>2. "aborted" \in ClosedState  BY DEF ClosedState, BucketState, OpenState
 <2> QED BY <1>3, <2>1, <2>2 DEF InvocationMoves
<1>13. ASSUME NEW old, Recover(old) PROVE InvocationMoves(i)
 <2>1. \/ invocations'[i] = invocations[i]
       \/ /\ invocations[i].state \in {"queued", "running"}
          /\ \E st \in {"aborted", "outcome_unknown"} : invocations'[i] = CloseInvocation(i, st)
  <3>1. invocations[i].state = "running" =>
           invocations'[i] = CloseInvocation(i, RecoveredInvocation(i))
    BY <1>13 DEF Recover
  <3>2. invocations[i].state # "running" =>
           \/ invocations'[i] = invocations[i]
           \/ i \in QueuedInvocations /\ invocations'[i] = CloseInvocation(i, "aborted")
    BY <1>13 DEF Recover
  <3> QED BY <3>1, <3>2 DEF RecoveredInvocation, QueuedInvocations
 <2>2. {"aborted", "outcome_unknown"} \subseteq ClosedState
   BY DEF ClosedState, BucketState, OpenState
 <2> QED BY <1>3, <2>1, <2>2 DEF InvocationMoves
<1>14. ASSUME NEW c \in Conversations, RunStep(c) PROVE RowsKept \/ invocations' = invocations
  BY <1>14, RunStepFrame DEF HoldSend
<1> QED BY <1>1, <1>2, <1>9, <1>10, <1>11, <1>12, <1>13, <1>14
        DEF Next, vars, Arrival, AppendToBucket, FinishTask, DeadlinePasses, Tick, EndTick,
            FailFinish, EndFinish, AbortConversation, Pause, Resume, CancelOngoing, ToggleSleep,
            CrashAndRestart

\* What a step does to receipt t: settled receipts stay settled.
LEMMA SettledReceiptStays ==
    ASSUME TypeOK, BlockInv, [Next]_vars,
           NEW t \in Tasks, receipts[t].state \in {"handled", "suppressed"}
    PROVE  receipts'[t].state = receipts[t].state
<1> USE DEF tables, policy, handover, runVars, TypeOK, QueueTypeOK
<1>1. CASE receipts' = receipts  BY <1>1
<1>2. ASSUME NEW u \in Tasks,
             SuppressReceipt(u) \/ KeepReceipt(u) \/ AttachReceipt(u) \/ QueueReceipt(u)
      PROVE  receipts'[t].state = receipts[t].state
 <2>1. u \in step.tasks /\ step.at = "tasks"
   BY <1>2 DEF SuppressReceipt, KeepReceipt, AttachReceipt, QueueReceipt, NextReceipt
 <2>2. u # t  BY <2>1 DEF BlockInv, Step
 <2> QED BY <1>2, <2>2 DEF SuppressReceipt, KeepReceipt, AttachReceipt, QueueReceipt
<1>3. ASSUME NEW b \in BucketIds, ReleaseBucket(b) PROVE receipts'[t].state = receipts[t].state
  BY <1>3 DEF ReleaseBucket, Requeue, ClaimedBy
<1>4. CASE VetQueued  BY <1>4 DEF VetQueued, InvalidClaims, ClaimedBy
<1>5. CASE QueueStep
  BY <1>1, <1>2, <1>3, <1>4, <1>5
  DEF QueueStep, DeferBucket, LeaveBucket, SkipBucket, AttachBucket, QueueBucket, StartDue, EndDue
<1>6. ASSUME NEW u \in Tasks, FinishTask(u) PROVE receipts'[t].state = receipts[t].state
  BY <1>6 DEF FinishTask
<1>7. ASSUME NEW c \in Conversations, NEW w \in BOOLEAN, EndFinish(c, w)
      PROVE  receipts'[t].state = receipts[t].state
  BY <1>7 DEF EndFinish, SettleClaims, ClaimedBy
<1>8. ASSUME NEW C, CloseUnstarted(C) PROVE receipts'[t].state = receipts[t].state
  BY <1>8 DEF CloseUnstarted, SuppressClaims
<1>9. ASSUME NEW old, Recover(old) PROVE receipts'[t].state = receipts[t].state
  BY <1>9 DEF Recover
<1>10. ASSUME NEW c \in Conversations, RunStep(c) PROVE receipts' = receipts
 <2> HIDE DEF TypeOK, QueueTypeOK
 <2> QED BY <1>10, RunStepFrame DEF RunGoesOn
<1> QED BY <1>1, <1>5, <1>6, <1>7, <1>8, <1>9, <1>10
        DEF Next, vars, Arrival, AppendToBucket, DeadlinePasses, Tick, EndTick, Launch, BeginFinish,
            FailFinish, AbortConversation, Pause, Resume, CancelOngoing, ToggleSleep,
            CrashAndRestart

\* A cancelled, expired or finished batch, invocation or receipt never starts again,
\* although several of the UPDATEs behind it put no condition on the state they
\* overwrite: whoever holds a list holds it for rows nobody else moves.
THEOREM ClosedRowsAreFinal == Spec => ClosedIsFinal
<1> DEFINE Kept == TypeOK /\ RowsLinked /\ BlockInv /\ RunsHeld /\ OwnInv
           Final == /\ \A b \in BucketIds :
                          buckets[b].state \in ClosedState => buckets'[b].state = buckets[b].state
                    /\ \A i \in InvIds :
                          invocations[i].state \in ClosedState =>
                             invocations'[i].state = invocations[i].state
                    /\ \A t \in Tasks :
                          receipts[t].state \in {"handled", "suppressed"} =>
                             receipts'[t].state = receipts[t].state
<1>1. Kept /\ [Next]_vars => [Final]_vars
 <2> SUFFICES ASSUME Kept, [Next]_vars PROVE Final  OBVIOUS
 <2>1. ASSUME NEW b \in BucketIds, buckets[b].state \in ClosedState
       PROVE  buckets'[b].state = buckets[b].state
   BY <2>1, BatchMovesOn DEF BatchMoves, ClosedState, BucketState, OpenState
 <2>2. ASSUME NEW i \in InvIds, invocations[i].state \in ClosedState
       PROVE  invocations'[i].state = invocations[i].state
   BY <2>2, InvocationMovesOn DEF InvocationMoves, ClosedState, BucketState, OpenState
 <2> QED BY <2>1, <2>2, SettledReceiptStays
<1>2. Spec => [][Final]_vars  BY <1>1, TypeCorrect, Ownership, PTL DEF Spec
<1> QED BY <1>2 DEF ClosedIsFinal

-----------------------------------------------------------------------------
(* A pause is quiet.                                                       *)

\* The batches invocation i has still to show its model or to give back.
Unshown(i) == Holds(i) \ (injected[i] \cup {invocations[i].bucket})

\* Nothing of a paused chat waits, and no run will put a batch of it back in the
\* queue: what it has not shown by then was closed under it.
QuietInv ==
    /\ PausedIsQuiet
    /\ \A i \in InvIds : \A b \in Unshown(i) :
          buckets[b].state = "running" => ChatOf[buckets[b].conversation] \notin paused

\* message_end marks batches injected, and nothing takes the mark away.
LEMMA InjectedGrows ==
    ASSUME TypeOK, [Next]_vars, NEW i \in InvIds
    PROVE  injected[i] \subseteq injected'[i]
<1> USE DEF tables
<1>1. CASE QueueStep
  BY <1>1
  DEF QueueStep, DeferBucket, LeaveBucket, SkipBucket, AttachBucket, QueueBucket, ReleaseBucket,
      SuppressReceipt, KeepReceipt, AttachReceipt, QueueReceipt, StartDue, EndDue, VetQueued
<1>2. ASSUME NEW c \in Conversations, RunStep(c) PROVE injected[i] \subseteq injected'[i]
 <2>1. CASE MessageEnd(c)  BY <2>1 DEF MessageEnd, TypeOK, QueueTypeOK
 <2> QED BY <1>2, <2>1
     DEF RunStep, LoadImages, HoldSend, StartSend, StopForSleepOrBudget, GrantClosingTurn,
         StopForContextOrTurns, Nudge, ContinueTools, InjectBetweenTools, StopAfterReceipt,
         InjectAfterRound, EndRound, GraceWakes, GraceTimesOut, EndAfterGrace,
         StopForWallClock, AbortForWallClock, RunFinally
<1> QED BY <1>1, <1>2
    DEF Next, vars, Arrival, AppendToBucket, FinishTask, DeadlinePasses, Tick, EndTick, Launch,
        BeginFinish, EndFinish, FailFinish, AbortConversation, Pause, Resume, CancelOngoing,
        ToggleSleep, CrashAndRestart


\* A batch that comes to be joined to an invocation was collecting or new, or opens it.
LEMMA JoinsAreNew ==
    ASSUME TypeOK, RowsLinked, BlockInv, [Next]_vars,
           NEW i \in InvIds, NEW b \in attached'[i]
    PROVE  \/ b \in attached[i]
           \/ b = invocations'[i].bucket
           \/ b \in BucketIds /\ buckets[b].state \in {"none", "collecting"}
<1> USE DEF tables, policy, handover, runVars
<1> DEFINE New == \/ b \in attached[i]
                  \/ b = invocations'[i].bucket
                  \/ b \in BucketIds /\ buckets[b].state \in {"none", "collecting"}
<1>1. CASE attached' = attached  BY <1>1
<1>2. ASSUME NEW j \in InvIds, NEW d, NEW c, InsertInvocation(j, d, c) PROVE New
  BY <1>2 DEF InsertInvocation, TypeOK, QueueTypeOK
<1>3. ASSUME NEW d \in BucketIds, AttachBucket(d) PROVE New
  BY <1>3 DEF AttachBucket, AttachBucketTo, NextDue, BlockInv, RunningInvocation, TypeOK, QueueTypeOK
<1>4. ASSUME NEW t \in Tasks, AttachReceipt(t) PROVE New
  BY <1>4 DEF AttachReceipt, FreshBucket, RunningInvocation, TypeOK, QueueTypeOK
<1>5. CASE QueueStep
  BY <1>1, <1>2, <1>3, <1>4, <1>5
  DEF QueueStep, DeferBucket, LeaveBucket, SkipBucket, QueueBucket, ReleaseBucket, Requeue,
      SuppressReceipt, KeepReceipt, QueueReceipt, StartDue, EndDue, VetQueued
<1>6. ASSUME NEW c \in Conversations, RunStep(c) PROVE New
 <2>1. CASE HoldSend(c)  BY <2>1 DEF HoldSend, AttachBucketTo, Collecting, TypeOK, QueueTypeOK
 <2> QED BY <1>1, <1>6, <2>1, RunStepFrame DEF RowsKept
<1> QED BY <1>1, <1>5, <1>6
    DEF Next, vars, Arrival, AppendToBucket, FinishTask, DeadlinePasses, Tick, EndTick, Launch,
        BeginFinish, EndFinish, FailFinish, AbortConversation, Pause, Resume, CancelOngoing,
        ToggleSleep, CrashAndRestart

\* A terminal transaction is under way for a row that was running, with all it did not
\* inject, or goes on with what is left.
LEMMA ReleaseGoesOn ==
    ASSUME TypeOK, RowsLinked, BlockInv, RunsHeld, OwnInv, [Next]_vars,
           NEW i \in InvIds, Releasing(i)'
    PROVE  \/ Releasing(i) /\ step'.buckets \subseteq step.buckets
           \/ invocations[i].state = "running" /\ step'.buckets = Uninjected(i)
<1> USE DEF tables, policy, handover, runVars
<1> step'.at = "release" /\ step'.inv = i  BY DEF Releasing
<1>1. CASE step' = step  BY <1>1 DEF Releasing
<1>2. ASSUME NEW b \in BucketIds, ReleaseBucket(b) PROVE Releasing(i) /\ step'.buckets \subseteq step.buckets
  BY <1>2 DEF ReleaseBucket, Releasing, TypeOK, QueueTypeOK, Step
<1>3. CASE QueueStep /\ \A b \in BucketIds : ~ReleaseBucket(b)
  BY <1>3
  DEF QueueStep, DeferBucket, LeaveBucket, SkipBucket, AttachBucket, QueueBucket, NextDue,
      SuppressReceipt, KeepReceipt, AttachReceipt, QueueReceipt, NextReceipt, StartDue, EndDue,
      VetQueued, Idle, TypeOK, QueueTypeOK, Step
<1>4. ASSUME NEW c \in Conversations, BeginFinish(c)
      PROVE  invocations[i].state = "running" /\ step'.buckets = Uninjected(i)
  BY <1>4 DEF BeginFinish, Idle, RunsHeld, Releasing
<1>5. CASE \E c \in Conversations : RunStep(c)  BY <1>1, <1>5, RunStepFrame DEF RunGoesOn
<1>6. ASSUME NEW j \in InvIds, Launch(j) PROVE FALSE
  BY <1>6 DEF Launch, TypeOK, QueueTypeOK, Step
<1>7. CASE \/ Tick \/ EndTick \/ CrashAndRestart
           \/ \E c \in Conversations, w \in BOOLEAN : EndFinish(c, w)
  BY <1>7 DEF Tick, EndTick, StartTasks, EndFinish, CrashAndRestart, Idle
<1>8. CASE \/ Arrival \/ CancelOngoing \/ ToggleSleep \/ UNCHANGED vars
           \/ \E b \in BucketIds : DeadlinePasses(b)
           \/ \E c \in Conversations : FailFinish(c) \/ AbortConversation(c)
           \/ \E k \in Chats : Pause(k) \/ Resume(k)
  BY <1>1, <1>8 DEF vars, Arrival, AppendToBucket, FinishTask, DeadlinePasses, FailFinish,
                    AbortConversation, Pause, Resume, CancelOngoing, ToggleSleep
<1> QED BY <1>2, <1>3, <1>4, <1>5, <1>6, <1>7, <1>8 DEF Next

\* A batch an invocation comes to hold was collecting or new, or opens it; what it gave
\* up it never holds again.
LEMMA HoldsAreNew ==
    ASSUME TypeOK, RowsLinked, BlockInv, RunsHeld, OwnInv, [Next]_vars,
           NEW i \in InvIds, NEW b \in Holds(i)'
    PROVE  \/ b \in Holds(i)
           \/ b = invocations'[i].bucket
           \/ b \in BucketIds /\ buckets[b].state \in {"none", "collecting"}
<1>1. InvocationMoves(i)  BY InvocationMovesOn
<1>2. CASE invocations'[i].state \in {"queued", "running"}
 <2>1. b \in attached'[i]  BY <1>2 DEF Holds
 <2>2. invocations[i].state \in {"none", "queued", "running"}
   BY <1>1, <1>2 DEF InvocationMoves, ClosedState, BucketState, OpenState
 <2>3. attached[i] \subseteq Holds(i)  BY <2>2 DEF OwnInv, FreshRows, Holds
 <2> QED BY <2>1, <2>3, JoinsAreNew
<1>3. CASE invocations'[i].state \notin {"queued", "running"}
 <2>1. Releasing(i)' /\ b \in step'.buckets  BY <1>3 DEF Holds
 <2>2. CASE Releasing(i) /\ step'.buckets \subseteq step.buckets
   BY <2>1, <2>2, ReleasingRow DEF Holds
 <2>3. CASE invocations[i].state = "running" /\ step'.buckets = Uninjected(i)
   BY <2>1, <2>3 DEF Holds, Uninjected
 <2> QED BY <2>1, <2>2, <2>3, ReleaseGoesOn
<1> QED BY <1>2, <1>3

\* A step that pauses no further chat disturbs nobody's quiet.
LEMMA QuietFrame ==
    ASSUME TypeOK, RowsLinked, BlockInv, RunsHeld, ReleaseList, OwnInv, QuietInv, TypeOK',
           [Next]_vars, paused' \subseteq paused
    PROVE  QuietInv'
<1>1. ASSUME NEW b \in BucketIds, buckets'[b].state \in {"collecting", "queued"}
      PROVE  ChatOf[buckets'[b].conversation] \notin paused
 <2>1. BatchMoves(b)  BY BatchMovesOn
 <2>2. CASE buckets[b].state \in {"none", "collecting", "queued"}
   BY <1>1, <2>1, <2>2 DEF BatchMoves, QuietInv, PausedIsQuiet,
                                 ClosedState, BucketState, OpenState
 <2>3. CASE buckets[b].state = "running"
  <3>1. step.at = "release" /\ b \in step.buckets
    BY <1>1, <2>1, <2>3 DEF BatchMoves, ClosedState, BucketState, OpenState
  <3>2. PICK r \in InvIds : r = step.inv /\ Releasing(r)
    BY <3>1 DEF Releasing, BlockInv, RowsLinked
  <3>3. b \in Unshown(r)
    BY <3>1, <3>2, ReleasingRow DEF ReleaseList, Uninjected, Unshown, Holds
  <3> QED BY <2>1, <2>3, <3>3 DEF QuietInv, BatchMoves
 <2>4. CASE buckets[b].state \in ClosedState
   BY <1>1, <2>1, <2>4 DEF BatchMoves, ClosedState, BucketState, OpenState
 <2> QED BY <2>2, <2>3, <2>4 DEF TypeOK, QueueTypeOK, Bucket, ClosedState, BucketState, OpenState
<1>2. ASSUME NEW i \in InvIds, NEW b \in Unshown(i)', buckets'[b].state = "running"
      PROVE  ChatOf[buckets'[b].conversation] \notin paused
 <2>1. b \in BucketIds  BY <1>2 DEF Unshown, Holds, TypeOK, QueueTypeOK, Step
 <2>2. BatchMoves(b)  BY <2>1, BatchMovesOn
 <2>3. CASE buckets[b].state \in {"none", "collecting"}
   BY <1>2, <2>1, <2>2, <2>3 DEF BatchMoves, QuietInv, PausedIsQuiet,
                                 ClosedState, BucketState, OpenState
 <2>4. CASE b \in Holds(i) /\ buckets[b].state \notin {"none", "collecting"}
  <3>1. buckets[b].state = "running" \/ buckets[b].state = "queued"
    BY <1>2, <2>1, <2>2 , <2>4 DEF BatchMoves, ClosedState, BucketState, OpenState
  <3>2. buckets'[b].conversation = buckets[b].conversation  BY <2>2, <3>1 DEF BatchMoves
  <3>3. CASE buckets[b].state = "queued"  BY <2>1, <3>2, <3>3 DEF QuietInv, PausedIsQuiet
  <3>4. CASE buckets[b].state = "running"
   <4>1. invocations'[i].bucket = invocations[i].bucket \/ invocations[i].state = "none"
     BY InvocationMovesOn DEF InvocationMoves
   <4>2. invocations[i].state # "none"  BY <2>4, ReleasingRow DEF Holds
   <4>3. b \in Unshown(i)  BY <1>2, <2>4, <4>1, <4>2, InjectedGrows DEF Unshown
   <4> QED BY <3>2, <3>4, <4>3 DEF QuietInv
  <3> QED BY <3>1, <3>3, <3>4
 <2> QED BY <1>2, <2>3, <2>4, HoldsAreNew DEF Unshown
<1> QED BY <1>1, <1>2 DEF QuietInv, PausedIsQuiet

\* /pause closes in one transaction all of the chat that waits, and all its runs hold
\* and have not shown.
LEMMA PauseIsQuiet ==
    ASSUME TypeOK, RowsLinked, OwnInv, QuietInv, TypeOK', NEW k \in Chats, Pause(k)
    PROVE  QuietInv'
<1> DEFINE C == {c \in Conversations : ChatOf[c] = k}
<1>1. /\ step.at = "idle" /\ step' = step /\ paused' = paused \cup {k}
      /\ CloseUnstarted(C) /\ attached' = attached /\ injected' = injected
  BY DEF Pause
<1>2. ASSUME NEW b \in BucketIds
      PROVE  /\ buckets'[b].conversation = buckets[b].conversation
             /\ IF b \in Unstarted(C) THEN buckets'[b].state = "expired"
                ELSE buckets'[b].state = buckets[b].state
  BY <1>1 DEF CloseUnstarted, CloseBucket, TypeOK, QueueTypeOK, Bucket
<1>3. ASSUME NEW b \in BucketIds, buckets[b].state # "none", ChatOf[buckets[b].conversation] = k
      PROVE  buckets[b].conversation \in C
  BY <1>3 DEF RowsLinked
<1>4. ASSUME NEW b \in BucketIds, buckets'[b].state \in {"collecting", "queued"}
      PROVE  ChatOf[buckets'[b].conversation] \notin paused'
  BY <1>1, <1>2, <1>3, <1>4 DEF QuietInv, PausedIsQuiet, Unstarted
<1>5. ASSUME NEW i \in InvIds, NEW b \in Unshown(i)', buckets'[b].state = "running"
      PROVE  ChatOf[buckets'[b].conversation] \notin paused'
 <2>1. b \in BucketIds  BY <1>5 DEF Unshown, Holds, TypeOK, QueueTypeOK, Step
 <2>2. /\ invocations'[i].bucket = invocations[i].bucket
       /\ invocations'[i].state = invocations[i].state \/ invocations'[i].state = "aborted"
   BY <1>1 DEF CloseUnstarted, CloseInvocation, TypeOK, QueueTypeOK, Invocation
 <2>3. b \in Unshown(i) /\ b \in attached[i] /\ invocations[i].state \in {"queued", "running"}
   BY <1>1, <1>5, <2>2 DEF Unshown, Holds, Releasing
 <2>4. invocations[i].state = "running"  BY <2>3 DEF OwnInv, QueuedRows, Unshown
 <2>5. buckets[b].state = "running"  BY <1>2, <1>5, <2>1
 <2>6. b \in Uninjected(i)  BY <2>3 DEF Unshown, Uninjected
 <2>7. buckets[b].conversation \notin C  BY <1>2, <1>5, <2>1, <2>4, <2>5, <2>6 DEF Unstarted
 <2>8. ChatOf[buckets[b].conversation] # k  BY <1>3, <2>1, <2>5, <2>7
 <2> QED BY <1>1, <1>2, <2>1, <2>3, <2>5, <2>8 DEF QuietInv
<1> HIDE DEF C
<1> QED BY <1>4, <1>5 DEF QuietInv, PausedIsQuiet

\* /pause takes a chat out of service at once: nothing of it waits any more, and no run
\* that is still winding down puts a batch back in the queue, where it would answer
\* after /resume.
THEOREM PauseIsFinal == Spec => []PausedIsQuiet
<1> DEFINE Inv == BlockInv /\ RunsHeld /\ ReleaseList /\ OwnInv
<1>1. Init => QuietInv
  BY DEF Init, QueueInit, RunInit, QuietInv, PausedIsQuiet, Unshown, NoBucket, NoInvocation, Idle
<1>2. TypeOK /\ RowsLinked /\ Inv /\ QuietInv /\ TypeOK' /\ [Next]_vars => QuietInv'
 <2> SUFFICES ASSUME TypeOK, RowsLinked, Inv, QuietInv, TypeOK', [Next]_vars PROVE QuietInv'
   OBVIOUS
 <2>1. CASE \E k \in Chats : Pause(k)  BY <2>1, PauseIsQuiet
 <2>2. ASSUME \A k \in Chats : ~Pause(k) PROVE paused' \subseteq paused
  <3>1. CASE QueueStep
    BY <3>1
    DEF QueueStep, DeferBucket, LeaveBucket, SkipBucket, AttachBucket, QueueBucket,
        ReleaseBucket, SuppressReceipt, KeepReceipt, AttachReceipt, QueueReceipt, StartDue,
        EndDue, VetQueued, policy
  <3>2. CASE \E c \in Conversations : RunStep(c)  BY <3>2, RunStepFrame DEF RunGoesOn, policy
  <3> QED BY <2>2, <3>1, <3>2
      DEF Next, vars, Arrival, AppendToBucket, FinishTask, DeadlinePasses, Tick, EndTick,
          Launch, BeginFinish, EndFinish, FailFinish, AbortConversation, Resume,
          CancelOngoing, ToggleSleep, CrashAndRestart, policy
 <2> QED BY <2>1, <2>2, QuietFrame
<1>3. QuietInv => PausedIsQuiet  BY DEF QuietInv
<1> QED BY <1>1, <1>2, <1>3, TypeCorrect, Ownership, PTL DEF Spec

-----------------------------------------------------------------------------
(* What reads completed was shown to the model.                            *)

\* The opening batch of a run is the first thing its model is handed; the run passes
\* its first turn boundary only when the batch is in the transcript.
OpeningShown ==
    \A c \in Conversations :
        LET o == invocations[run[c].inv].bucket
            in == o \in injected[run[c].inv]
        IN
        /\ run[c].phase \in {"loading", "model"} =>
              in \/ (run[c].handed # <<>> /\ Head(run[c].handed) = o)
        /\ run[c].phase \in {"grace", "graceOver", "ending"} => in
        /\ run[c].phase = "dead" /\ run[c].outcome = "completed" => in


\* A run's own steps keep it.
LEMMA OpeningRunStep ==
    ASSUME TypeOK, RowsLinked, OpeningShown, NEW c \in Conversations, RunStep(c), [Next]_vars,
           BlockInv, RunsHeld, OwnInv
    PROVE  OpeningShown'
<1> USE DEF TypeOK, QueueTypeOK, RunTypeOK, Run
<1>1. PICK i \in InvIds : i = run[c].inv  BY RunStepFrame DEF RunGoesOn, RowsLinked
<1> DEFINE o == invocations[i].bucket
           Fits(r, in) == /\ r.phase \in {"loading", "model"} =>
                                in \/ (r.handed # <<>> /\ Head(r.handed) = o)
                          /\ r.phase \in {"grace", "graceOver", "ending"} => in
                          /\ r.phase = "dead" /\ r.outcome = "completed" => in
<1>2. Fits(run[c], o \in injected[i])  BY <1>1 DEF OpeningShown
<1>3. /\ \A d \in Conversations : d # c => run'[d] = run[d]
      /\ run'[c].inv = i
  BY <1>1, RunStepFrame DEF RunGoesOn
<1>4. \A d \in Conversations : run[d].phase # "off" =>
         /\ invocations'[run[d].inv].bucket = invocations[run[d].inv].bucket
         /\ injected[run[d].inv] \subseteq injected'[run[d].inv]
 <2> HIDE DEF TypeOK, QueueTypeOK, RunTypeOK
 <2>1. ASSUME NEW d \in Conversations, run[d].phase # "off"
       PROVE  /\ run[d].inv \in InvIds
              /\ invocations[run[d].inv].state # "none"
   BY <2>1, FinalStateClosed DEF RowsLinked, RunsHeld
 <2> QED BY <2>1, InvocationMovesOn, InjectedGrows DEF InvocationMoves
<1>5. /\ run[c].phase \in Phase \ {"off", "dead"}
      /\ invocations[i].state = "running"
 <2> run[c].phase \in Phase  OBVIOUS
 <2> HIDE DEF TypeOK, QueueTypeOK, RunTypeOK
 <2> QED BY <1>1, RunStepFrame DEF RunGoesOn, RunsHeld, Releasing
<1>6. Fits(run'[c], o \in injected'[i])
 <2>1. CASE o \in injected[i] /\ o \in injected'[i]  BY <2>1
 <2>2. CASE o \notin injected[i]
  <3>1. /\ run[c].phase \in {"loading", "model", "dead", "off"}
        /\ run[c].phase \in {"loading", "model"} =>
              run[c].handed # <<>> /\ Head(run[c].handed) = o
        /\ run[c].phase # "dead"
    BY <1>2, <1>5, <2>2 DEF Phase
  <3>2. CASE LoadImages(c)  BY <3>1, <3>2 DEF LoadImages, Live
  <3>3. CASE MessageEnd(c)
   <4>1. o \in attached[i]  BY <1>1, <1>5 DEF RowsLinked
   <4> QED BY <1>1, <3>1, <3>3, <4>1 DEF MessageEnd, Live
  <3>4. CASE AbortForWallClock(c)  BY <3>1, <3>4 DEF AbortForWallClock
  <3>5. CASE RunFinally(c)  BY <3>1, <3>5 DEF RunFinally, Outcomes, NoRun
  <3> QED BY <3>1, <3>2, <3>3, <3>4, <3>5
      DEF RunStep, HoldSend, StartSend, Sending, StopForSleepOrBudget, GrantClosingTurn,
          StopForContextOrTurns, Nudge, ContinueTools, InjectBetweenTools, StopAfterReceipt,
          InjectAfterRound, EndRound, GraceWakes, GraceTimesOut, EndAfterGrace,
          StopForWallClock, MayContinue, TurnEnd, Live
 <2>3. o \in injected[i] => o \in injected'[i]  BY <1>1, <1>4, <1>5
 <2> QED BY <2>1, <2>2, <2>3
<1>7. invocations'[run'[c].inv].bucket = o  BY <1>1, <1>3, <1>4, <1>5
<1> HIDE DEF TypeOK, QueueTypeOK, RunTypeOK
<1>8. ASSUME NEW d \in Conversations
      PROVE  LET p == invocations'[run'[d].inv].bucket
                 in == p \in injected'[run'[d].inv]
             IN  /\ run'[d].phase \in {"loading", "model"} =>
                       in \/ (run'[d].handed # <<>> /\ Head(run'[d].handed) = p)
                 /\ run'[d].phase \in {"grace", "graceOver", "ending"} => in
                 /\ run'[d].phase = "dead" /\ run'[d].outcome = "completed" => in
 <2>1. CASE d = c  BY <1>3, <1>6, <1>7, <2>1
 <2>2. CASE d # c
  <3>1. run'[d] = run[d]  BY <1>3, <2>2
  <3> QED BY <1>4, <3>1 DEF OpeningShown
 <2> QED BY <2>1, <2>2
<1> QED BY <1>8 DEF OpeningShown

\* What the run of d has to show is not disturbed by a step that leaves the run alone.
LEMMA OpeningFrame ==
    ASSUME TypeOK, RowsLinked, BlockInv, RunsHeld, OwnInv, OpeningShown, [Next]_vars,
           NEW d \in Conversations,
           run'[d].phase # "off" =>
              /\ run'[d].phase = run[d].phase
              /\ run'[d].inv = run[d].inv
              /\ run'[d].handed = run[d].handed
              /\ run'[d].outcome = run[d].outcome
    PROVE  LET o == invocations'[run'[d].inv].bucket
               in == o \in injected'[run'[d].inv]
           IN  /\ run'[d].phase \in {"loading", "model"} =>
                     in \/ (run'[d].handed # <<>> /\ Head(run'[d].handed) = o)
               /\ run'[d].phase \in {"grace", "graceOver", "ending"} => in
               /\ run'[d].phase = "dead" /\ run'[d].outcome = "completed" => in
<1>1. CASE run'[d].phase = "off"  BY <1>1
<1>2. CASE run'[d].phase # "off"
 <2>1. run[d].inv \in InvIds /\ invocations[run[d].inv].state # "none"
   BY <1>2, FinalStateClosed DEF RowsLinked, RunsHeld
 <2>2. /\ invocations'[run[d].inv].bucket = invocations[run[d].inv].bucket
       /\ injected[run[d].inv] \subseteq injected'[run[d].inv]
   BY <2>1, InvocationMovesOn, InjectedGrows DEF InvocationMoves
 <2> QED BY <1>2, <2>2 DEF OpeningShown
<1> QED BY <1>1, <1>2

\* Every step keeps it.
LEMMA OpeningKept ==
    ASSUME TypeOK, RowsLinked, BlockInv, RunsHeld, OwnInv, OpeningShown, [Next]_vars
    PROVE  OpeningShown'
<1> USE DEF tables, policy, handover, runVars
<1>1. CASE run' = run  BY <1>1, OpeningFrame DEF OpeningShown
<1>2. CASE \E c \in Conversations : RunStep(c)  BY <1>2, OpeningRunStep
<1>3. ASSUME NEW C, Abort(C) PROVE OpeningShown'
 <2> \A d \in Conversations : /\ run'[d].phase = run[d].phase
                              /\ run'[d].inv = run[d].inv
                              /\ run'[d].handed = run[d].handed
                              /\ run'[d].outcome = run[d].outcome
   BY <1>3 DEF Abort, TypeOK, RunTypeOK, Run
 <2> QED BY OpeningFrame DEF OpeningShown
<1>4. CASE \/ \E c \in Conversations : FailFinish(c)
           \/ \E c \in Conversations, w \in BOOLEAN : EndFinish(c, w)
           \/ CrashAndRestart
 <2> \A d \in Conversations : run'[d] = run[d] \/ run'[d].phase = "off"
   BY <1>4 DEF FailFinish, EndFinish, CrashAndRestart, NoRun, TypeOK, RunTypeOK
 <2> QED BY OpeningFrame DEF OpeningShown
<1>5. ASSUME NEW i \in InvIds, Launch(i) PROVE OpeningShown'
 <2>1. PICK c \in Conversations : c = invocations[i].conversation
   BY <1>5 DEF Launch, Launchable, Candidates, QueuedInvocations, RowsLinked
 <2>2. invocations'[i].bucket = invocations[i].bucket
   BY <1>5 DEF Launch, TypeOK, QueueTypeOK, Invocation
 <2>3. \/ /\ run'[c].phase = "loading" /\ run'[c].inv = i
          /\ run'[c].handed = <<invocations[i].bucket>>
       \/ run'[c].phase = "dead" /\ run'[c].outcome = "thrown"
  <3>1. OpenRun(i, c) \/ FailToOpen(i, c)  BY <1>5, <2>1 DEF Launch
  <3>2. CASE OpenRun(i, c)  BY <3>2 DEF OpenRun, NoRun, TypeOK, RunTypeOK
  <3>3. CASE FailToOpen(i, c)  BY <3>3 DEF FailToOpen, NoRun, TypeOK, RunTypeOK
  <3> QED BY <3>1, <3>2, <3>3
 <2>4. \A d \in Conversations : d # c => run'[d] = run[d]
   BY <1>5, <2>1 DEF Launch, OpenRun, FailToOpen, TypeOK, RunTypeOK
 <2>5. ASSUME NEW d \in Conversations
       PROVE LET o == invocations'[run'[d].inv].bucket
                 in == o \in injected'[run'[d].inv]
             IN  /\ run'[d].phase \in {"loading", "model"} =>
                       in \/ (run'[d].handed # <<>> /\ Head(run'[d].handed) = o)
                 /\ run'[d].phase \in {"grace", "graceOver", "ending"} => in
                 /\ run'[d].phase = "dead" /\ run'[d].outcome = "completed" => in
  <3>1. CASE d = c  BY <2>2, <2>3, <3>1
  <3>2. CASE d # c  BY <2>4, <3>2, OpeningFrame
  <3> QED BY <3>1, <3>2
 <2> QED BY <2>5 DEF OpeningShown
<1> QED BY <1>1, <1>2, <1>3, <1>4, <1>5
        DEF Next, vars, Arrival, AppendToBucket, FinishTask, DeadlinePasses, Tick, EndTick,
            BeginFinish, AbortConversation, Pause, Resume, CancelOngoing, ToggleSleep

\* A batch comes to read completed only at the end of a run that showed it.
LEMMA CompletedKept ==
    ASSUME TypeOK, RowsLinked, BlockInv, RunsHeld, ReleaseList, OwnInv, OpeningShown,
           CompletedWasInjected, [Next]_vars
    PROVE  CompletedWasInjected'
<1>1. \A i \in InvIds : invocations[i].state = "completed" =>
         invocations'[i].state = "completed" /\ injected[i] \subseteq injected'[i]
  BY InvocationMovesOn, InjectedGrows DEF InvocationMoves
<1>2. ASSUME NEW b \in BucketIds, buckets'[b].state = "completed"
      PROVE  \E i \in InvIds : invocations[i].state = "completed" /\ b \in injected[i]
 <2>1. BatchMoves(b)  BY BatchMovesOn
 <2>2. CASE buckets[b].state = "completed"  BY <2>2 DEF CompletedWasInjected
 <2>3. CASE buckets[b].state # "completed"
  <3>1. /\ step.at = "release" /\ step.buckets = {} /\ b \in attached[step.inv]
        /\ buckets[b].state = "running" /\ invocations[step.inv].state = "completed"
    BY <1>2, <2>1, <2>3 DEF BatchMoves, OpenState
  <3>2. PICK c \in Conversations : run[c].phase = "dead" /\ run[c].inv = step.inv
    BY <3>1 DEF BlockInv
  <3>3. step.inv \in InvIds /\ FinalState(c) = "completed"
    BY <3>1, <3>2 DEF RowsLinked, RunsHeld, Releasing
  <3>4. run[c].outcome = "completed"  BY <3>3 DEF FinalState
  <3>5. invocations[step.inv].bucket \in injected[step.inv]  BY <3>2, <3>4 DEF OpeningShown
  <3>6. b \notin Uninjected(step.inv)  BY <3>1 DEF ReleaseList
  <3> QED BY <3>1, <3>3, <3>5, <3>6 DEF Uninjected
 <2> QED BY <2>2, <2>3
<1> QED BY <1>1, <1>2 DEF CompletedWasInjected

\* A batch reads completed only if a completed invocation showed it to the model:
\* batches attached to a run it never injected are released before the rest is closed,
\* and the opening batch is in the transcript before a run can end well.
THEOREM CompletedMeansShown == Spec => []CompletedWasInjected
<1> DEFINE Inv == BlockInv /\ RunsHeld /\ ReleaseList /\ OwnInv
<1>1. Init => OpeningShown /\ CompletedWasInjected
  BY DEF Init, QueueInit, RunInit, OpeningShown, CompletedWasInjected, NoRun, NoBucket
<1>2. TypeOK /\ RowsLinked /\ Inv /\ OpeningShown /\ CompletedWasInjected /\ [Next]_vars
         => OpeningShown' /\ CompletedWasInjected'
  BY OpeningKept, CompletedKept
<1> QED BY <1>1, <1>2, TypeCorrect, Ownership, PTL DEF Spec

-----------------------------------------------------------------------------
(* Rows and runs.                                                          *)

\* A slot of the scheduler is taken by every running row until its terminal
\* transaction is over, and a running row has its run in memory.
ActiveInv ==
    /\ \A i \in InvIds :
          invocations[i].state = "running" =>
             \E c \in Conversations : run[c].phase # "off" /\ run[c].inv = i
    /\ \A i \in InvIds : i \in active <=> invocations[i].state = "running" \/ Releasing(i)

\* It is about starts and ends only.
LEMMA ActiveFrame ==
    ASSUME ActiveInv, active' = active,
           \A c \in Conversations : run[c].phase # "off" =>
              run'[c].phase # "off" /\ run'[c].inv = run[c].inv,
           \A i \in InvIds : invocations'[i].state = "running" <=> invocations[i].state = "running",
           \A i \in InvIds : Releasing(i)' <=> Releasing(i)
    PROVE  ActiveInv'
BY DEF ActiveInv

\* Every step keeps it, unless a terminal transaction throws.
LEMMA ActiveKept ==
    ASSUME "persist" \notin Disturbances,
           TypeOK, RowsLinked, BlockInv, RunsHeld, OwnInv, ActiveInv, [Next]_vars
    PROVE  ActiveInv'
<1> USE DEF tables, policy, handover, runVars
<1>1. ASSUME UNCHANGED <<run, invocations, active>>, step.at # "release", step'.at # "release"
      PROVE  ActiveInv'
  BY <1>1, ActiveFrame DEF Releasing
<1>2. ASSUME UNCHANGED <<run, invocations, active, step>> PROVE ActiveInv'
  BY <1>2, ActiveFrame DEF Releasing
<1>3. CASE QueueStep /\ UNCHANGED <<runVars, active, woken>>
 <2>1. \A i \in InvIds : invocations[i].state = "running" => invocations'[i].state = "running"
   BY <1>3, QueueStepRows
 <2>2. \A i \in InvIds : ~Launch(i)
   BY <1>3 DEF QueueStep, Launch, DeferBucket, LeaveBucket, SkipBucket, AttachBucket,
               QueueBucket, ReleaseBucket, NextDue, SuppressReceipt, KeepReceipt, AttachReceipt,
               QueueReceipt, NextReceipt, StartDue, EndDue, VetQueued
 <2>3. \A i \in InvIds : invocations'[i].state = "running" => invocations[i].state = "running"
   BY <2>2, OnlyLaunchStarts DEF NoneStarts
 <2>4. \A i \in InvIds : Releasing(i)' <=> Releasing(i)  BY <1>3, QueueStepRows DEF Releasing
 <2> QED BY <1>3, <2>1, <2>3, <2>4, ActiveFrame
<1>4. ASSUME NEW c \in Conversations, RunStep(c), UNCHANGED <<active, woken>> PROVE ActiveInv'
 <2>1. \A i \in InvIds : invocations'[i].state = invocations[i].state
   BY <1>4, RunStepFrame DEF RowsKept, HoldSend
 <2> QED BY <1>4, <2>1, RunStepFrame, ActiveFrame DEF RunGoesOn, Releasing
<1>5. ASSUME NEW i \in InvIds, Launch(i) PROVE ActiveInv'
 <2>1. PICK c \in Conversations : c = invocations[i].conversation
   BY <1>5 DEF Launch, Launchable, Candidates, QueuedInvocations, RowsLinked
 <2>2. /\ step.at # "release" /\ step'.at # "release" /\ active' = active \cup {i}
       /\ ChatInvocations(ChatOf[c], "running") = {}
   BY <1>5, <2>1 DEF Launch, Launchable, Candidates, TypeOK, QueueTypeOK, Step
 <2>3. \A j \in InvIds : invocations'[j].state = IF j = i THEN "running" ELSE invocations[j].state
   BY <1>5 DEF Launch, TypeOK, QueueTypeOK, Invocation
 <2>4. /\ run'[c].phase # "off" /\ run'[c].inv = i
       /\ \A d \in Conversations : d # c => run'[d] = run[d]
  <3>1. OpenRun(i, c) \/ FailToOpen(i, c)  BY <1>5, <2>1 DEF Launch
  <3>2. CASE OpenRun(i, c)  BY <3>2 DEF OpenRun, NoRun, TypeOK, RunTypeOK
  <3>3. CASE FailToOpen(i, c)  BY <3>3 DEF FailToOpen, NoRun, TypeOK, RunTypeOK
  <3> QED BY <3>1, <3>2, <3>3
 <2>5. run[c].phase = "off"  BY <2>2 DEF RunsHeld, RowsLinked, Releasing, ChatInvocations
 <2> QED BY <2>2, <2>3, <2>4, <2>5 DEF ActiveInv, Releasing
<1>6. ASSUME NEW c \in Conversations, BeginFinish(c) PROVE ActiveInv'
 <2>1. PICK i \in InvIds : i = run[c].inv  BY <1>6 DEF BeginFinish, RowsLinked
 <2>2. /\ step.at = "idle" /\ step'.at = "release" /\ step'.inv = i
       /\ run[c].phase = "dead" /\ run' = run /\ active' = active
   BY <1>6, <2>1 DEF BeginFinish, Idle
 <2>3. invocations[i].state = "running" /\ FinalState(c) # "running"
   BY <2>1, <2>2, FinalStateClosed DEF RunsHeld, Releasing
 <2>4. \A j \in InvIds : invocations'[j].state = IF j = i THEN FinalState(c) ELSE invocations[j].state
   BY <1>6, <2>1, <2>3 DEF BeginFinish, CloseInvocation, TypeOK, QueueTypeOK, Invocation
 <2> QED BY <2>2, <2>3, <2>4 DEF ActiveInv, Releasing
<1>7. ASSUME NEW c \in Conversations, NEW w \in BOOLEAN, EndFinish(c, w) PROVE ActiveInv'
 <2>1. PICK i \in InvIds : i = step.inv  BY <1>7 DEF EndFinish, RowsLinked
 <2>2. /\ step.at = "release" /\ step'.at # "release" /\ invocations' = invocations
       /\ run[c].phase = "dead" /\ run[c].inv = i /\ active' = active \ {i}
       /\ \A d \in Conversations : d # c => run'[d] = run[d]
   BY <1>7, <2>1 DEF EndFinish, StartTasks, FreeSlot, TypeOK, RunTypeOK
 <2>3. invocations[i].state # "running"  BY <2>1, <2>2, ReleasingRow DEF Releasing
 <2> QED BY <2>1, <2>2, <2>3 DEF ActiveInv, Releasing
<1>8. ASSUME NEW C, Abort(C), step' = step, active' = active,
             \A i \in InvIds : invocations[i].state # "queued" => invocations'[i] = invocations[i],
             [Next]_vars, \A i \in InvIds : ~Launch(i)
      PROVE  ActiveInv'
 <2>1. \A i \in InvIds : invocations'[i].state = "running" <=> invocations[i].state = "running"
   BY <1>8, OnlyLaunchStarts DEF NoneStarts
 <2> QED BY <1>8, <2>1, AbortLinked, ActiveFrame DEF Releasing
<1>9. CASE CancelOngoing \/ (\E k \in Chats : Pause(k)) \/ \E c \in Conversations : AbortConversation(c)
 <2> \A i \in InvIds : ~Launch(i)  BY <1>9 DEF CancelOngoing, Pause, AbortConversation, Launch
 <2> QED BY <1>8, <1>9, CloseUnstartedKeeps DEF CancelOngoing, Pause, AbortConversation
<1>10. CASE CrashAndRestart
 <2>1. PICK old : Recover(old)  BY <1>10 DEF CrashAndRestart
 <2>2. \A i \in InvIds : invocations[i].state = "running" =>
          invocations'[i] = CloseInvocation(i, RecoveredInvocation(i))
   BY <2>1 DEF Recover
 <2>3. \A i \in InvIds : invocations[i].state = "running" => invocations'[i].state # "running"
  <3> TAKE i \in InvIds
  <3>1. invocations[i] \in Invocation  BY DEF TypeOK, QueueTypeOK
  <3>2. RecoveredInvocation(i) # "running"  BY DEF RecoveredInvocation
  <3> QED BY <2>2, <3>1, <3>2 DEF CloseInvocation, Invocation
 <2>4. \A i \in InvIds : ~Launch(i)
   BY <1>10 DEF CrashAndRestart, Launch, BetweenTransactions, Idle, TypeOK, QueueTypeOK, Step
 <2>5. \A i \in InvIds : invocations'[i].state # "running"
   BY <2>3, <2>4, OnlyLaunchStarts DEF NoneStarts
 <2> QED BY <1>10, <2>5 DEF CrashAndRestart, ActiveInv, Releasing, Idle
<1> QED BY <1>1, <1>2, <1>3, <1>4, <1>5, <1>6, <1>7, <1>9, <1>10
        DEF Next, vars, Arrival, AppendToBucket, FinishTask, DeadlinePasses, Tick, EndTick,
            StartTasks, Idle, FailFinish, Resume, ToggleSleep

\* Every running row has its run in memory and every run its running row, so that the
\* row is closed in the end and its chat is not blocked, as long as no terminal
\* transaction throws: what #execute does then, dropping the run and leaving the row
\* to the next start, is the one step of the program that breaks it.
THEOREM RunsFollowRows ==
    ASSUME "persist" \notin Disturbances
    PROVE  Spec => []RunsMatchRows
<1> DEFINE Inv == BlockInv /\ RunsHeld /\ ReleaseList /\ OwnInv
<1>1. Init => ActiveInv
  BY DEF Init, QueueInit, RunInit, ActiveInv, Releasing, NoInvocation, Idle
<1>2. TypeOK /\ RowsLinked /\ Inv /\ ActiveInv /\ [Next]_vars => ActiveInv'  BY ActiveKept
<1>3. TypeOK /\ RowsLinked /\ Inv /\ ActiveInv => RunsMatchRows
  BY DEF ActiveInv, RunsMatchRows, RunsHeld, RowsLinked, Releasing
<1> QED BY <1>1, <1>2, <1>3, TypeCorrect, Ownership, PTL DEF Spec

------------------------------------------------------------------------------
(***************************************************************************)
(* Completion receipts: a claim has an invocation that will settle it, a   *)
(* receipt's exemption from sleep and budget is for its own batch, and     *)
(* nothing else starts while the bot sleeps.                               *)
(*                                                                         *)
(* A receipt names its invocation and its batch, and getCompletion looks   *)
(* it up by both.  ReceiptInv says that a batch is the batch of at most    *)
(* one receipt, is fixed once there is one, and is never a message batch.  *)
(***************************************************************************)

\* A receipt that has a batch is past pending, and its batch past collecting.
ReceiptRows ==
    \A t \in Tasks :
        receipts[t].bucket # 0 =>
            /\ receipts[t].state \notin {"none", "pending"}
            /\ buckets[receipts[t].bucket].state \notin {"none", "collecting"}

\* No two receipts share a batch.
ReceiptsApart ==
    \A t, u \in Tasks :
        (receipts[t].bucket # 0 /\ receipts[t].bucket = receipts[u].bucket) => t = u

\* A claim is on an invocation that waits, runs or is ending, and that is joined to
\* the receipt's batch.
ClaimsHeld ==
    \A t \in Tasks :
        receipts[t].state = "claimed" =>
            \E i \in InvIds :
                /\ receipts[t].invocation = i
                /\ invocations[i].state \in {"queued", "running"} \/ Releasing(i)
                /\ receipts[t].bucket \in attached[i] \ {0}

ReceiptInv == ReceiptRows /\ ReceiptsApart /\ ClaimsHeld

\* What one step does to receipt t: it falls due, is suppressed, gets a new batch and
\* claims its invocation, moves with its batch to the invocation that takes over, or
\* is settled.
ReceiptMoves(t) ==
    LET old == receipts[t]
        new == receipts'[t]
    IN
    \/ new = old
    \/ old.state = "none" /\ new.bucket = old.bucket /\ new.state = "pending"
    \/ old.state = "pending" /\ new.bucket = old.bucket /\ new.state = "suppressed"
    \/ /\ old.state = "pending" /\ new.state = "claimed"
       /\ \E i \in InvIds, b \in BucketIds :
             /\ new.invocation = i /\ new.bucket = b
             /\ buckets[b].state = "none" /\ buckets'[b].state \in {"queued", "running"}
             /\ invocations'[i].state \in {"queued", "running"} /\ b \in attached'[i]
       /\ \A u \in Tasks : u # t => receipts'[u] = receipts[u]
    \/ /\ old.state = "claimed" /\ new.state = "claimed" /\ new.bucket = old.bucket
       /\ \E i \in InvIds : /\ new.invocation = i
                            /\ invocations'[i].state = "queued" /\ old.bucket \in attached'[i]
    \/ /\ old.state = "claimed" /\ new.bucket = old.bucket
       /\ new.state \in {"handled", "suppressed"}

\* The actions of InvocationQueueService move a receipt on.
LEMMA QueueStepReceipts ==
    ASSUME TypeOK, RowsLinked, BlockInv, QueueStep, NEW t \in Tasks
    PROVE  ReceiptMoves(t)
<1> USE DEF TypeOK, QueueTypeOK, tables
<1>1. CASE receipts' = receipts  BY <1>1 DEF ReceiptMoves
<1>2. ASSUME NEW u \in Tasks, SuppressReceipt(u) PROVE ReceiptMoves(t)
  BY <1>2 DEF SuppressReceipt, NextReceipt, BlockInv, Step, Receipt, ReceiptMoves
<1>3. ASSUME NEW u \in Tasks, AttachReceipt(u) PROVE ReceiptMoves(t)
 <2>1. receipts[u].state = "pending"  BY <1>3 DEF AttachReceipt, NextReceipt, BlockInv
 <2>2. PICK i \in RunningInvocation(TaskConv[u]), b \in BucketIds :
         /\ FreshBucket(b)
         /\ buckets' = [buckets EXCEPT ![b] =
               [state |-> "running", conversation |-> TaskConv[u], due |-> TRUE]]
         /\ attached' = [attached EXCEPT ![i] = @ \cup {b}]
         /\ receipts' = [receipts EXCEPT ![u] =
               [state |-> "claimed", invocation |-> i, bucket |-> b]]
   BY <1>3 DEF AttachReceipt
 <2>3. i \in InvIds /\ invocations'[i].state = "running"
   BY <1>3, <2>2 DEF AttachReceipt, RunningInvocation
 <2>4. buckets[b].state = "none" /\ buckets'[b].state = "running" /\ b \in attached'[i]
   BY <2>2, <2>3 DEF FreshBucket
 <2>5. CASE u = t  BY <2>1, <2>2, <2>3, <2>4, <2>5 DEF ReceiptMoves
 <2>6. CASE u # t  BY <2>2, <2>6 DEF ReceiptMoves
 <2> QED BY <2>5, <2>6
<1>4. ASSUME NEW u \in Tasks, QueueReceipt(u) PROVE ReceiptMoves(t)
 <2>1. receipts[u].state = "pending"  BY <1>4 DEF QueueReceipt, NextReceipt, BlockInv
 <2>2. PICK i \in InvIds, b \in BucketIds :
         /\ FreshBucket(b)
         /\ buckets' = [buckets EXCEPT ![b] =
               [state |-> "queued", conversation |-> TaskConv[u], due |-> TRUE]]
         /\ InsertInvocation(i, b, TaskConv[u])
         /\ receipts' = [receipts EXCEPT ![u] =
               [state |-> "claimed", invocation |-> i, bucket |-> b]]
   BY <1>4 DEF QueueReceipt
 <2>3. /\ invocations'[i].state = "queued" /\ b \in attached'[i]
       /\ buckets[b].state = "none" /\ buckets'[b].state = "queued"
   BY <2>2 DEF InsertInvocation, FreshBucket
 <2>4. CASE u = t  BY <2>1, <2>2, <2>3, <2>4 DEF ReceiptMoves
 <2>5. CASE u # t  BY <2>2, <2>5 DEF ReceiptMoves
 <2> QED BY <2>4, <2>5
<1>5. ASSUME NEW b \in BucketIds, ReleaseBucket(b) PROVE ReceiptMoves(t)
 <2>1. CASE buckets[b].state = "running"
  <3> DEFINE mine == {u \in ClaimedBy(step.inv) : receipts[u].bucket = b}
  <3>1. PICK j \in InvIds :
          /\ InsertInvocation(j, b, buckets[b].conversation)
          /\ receipts' = [u \in Tasks |->
                IF u \in mine THEN [receipts[u] EXCEPT !.invocation = j] ELSE receipts[u]]
    BY <1>5, <2>1 DEF ReleaseBucket, Requeue
  <3>2. invocations'[j].state = "queued" /\ b \in attached'[j]  BY <3>1 DEF InsertInvocation
  <3>3. receipts[t] \in Receipt  OBVIOUS
  <3>4. CASE t \in mine
   <4>1. receipts[t].state = "claimed" /\ receipts[t].bucket = b  BY <3>4 DEF ClaimedBy
   <4>2. receipts'[t] = [receipts[t] EXCEPT !.invocation = j]  BY <3>1, <3>4
   <4> HIDE DEF mine
   <4> QED BY <3>2, <3>3, <4>1, <4>2 DEF ReceiptMoves, Receipt
  <3>5. CASE t \notin mine
   <4> receipts'[t] = receipts[t]  BY <3>1, <3>5
   <4> QED BY DEF ReceiptMoves
  <3> QED BY <3>4, <3>5
 <2>2. CASE buckets[b].state # "running"
   BY <1>5, <2>2 DEF ReleaseBucket, ClaimedBy, Receipt, ReceiptMoves
 <2> QED BY <2>1, <2>2
<1>6. CASE VetQueued  BY <1>6 DEF VetQueued, InvalidClaims, ClaimedBy, Receipt, ReceiptMoves
<1> QED BY <1>1, <1>2, <1>3, <1>4, <1>5, <1>6
        DEF QueueStep, DeferBucket, LeaveBucket, SkipBucket, AttachBucket, QueueBucket, KeepReceipt,
            StartDue, EndDue

\* So does every other step.
LEMMA ReceiptMovesOn ==
    ASSUME TypeOK, RowsLinked, BlockInv, [Next]_vars, NEW t \in Tasks
    PROVE  ReceiptMoves(t)
<1> USE DEF tables, policy, handover, runVars
<1> receipts[t] \in Receipt  BY DEF TypeOK, QueueTypeOK
<1>1. CASE receipts' = receipts  BY <1>1 DEF ReceiptMoves
<1>2. CASE QueueStep  BY <1>2, QueueStepReceipts
<1>3. ASSUME NEW u \in Tasks, FinishTask(u) PROVE ReceiptMoves(t)
  BY <1>3 DEF FinishTask, TypeOK, QueueTypeOK, Receipt, ReceiptMoves
<1>4. ASSUME NEW c \in Conversations, NEW w \in BOOLEAN, EndFinish(c, w) PROVE ReceiptMoves(t)
  BY <1>4 DEF EndFinish, SettleClaims, ClaimedBy, Receipt, ReceiptMoves
<1>5. ASSUME NEW C, CloseUnstarted(C) PROVE ReceiptMoves(t)
  BY <1>5 DEF CloseUnstarted, SuppressClaims, Receipt, ReceiptMoves
<1>6. ASSUME NEW old, Recover(old) PROVE ReceiptMoves(t)
  BY <1>6 DEF Recover, Receipt, ReceiptMoves
<1>7. ASSUME NEW c \in Conversations, RunStep(c) PROVE receipts' = receipts
  BY <1>7, RunStepFrame DEF RunGoesOn
<1> QED BY <1>1, <1>2, <1>3, <1>4, <1>5, <1>6, <1>7
        DEF Next, vars, Arrival, AppendToBucket, DeadlinePasses, Tick, EndTick, Launch, BeginFinish,
            FailFinish, AbortConversation, Pause, Resume, CancelOngoing, ToggleSleep,
            CrashAndRestart

\* A receipt's batch is its own, for good.
LEMMA ReceiptRowsKept ==
    ASSUME TypeOK, RowsLinked, BlockInv, RunsHeld, OwnInv, ReceiptRows, ReceiptsApart, [Next]_vars
    PROVE  ReceiptRows' /\ ReceiptsApart'
<1>1. ASSUME NEW t \in Tasks, receipts[t].bucket # 0
      PROVE  /\ receipts'[t].bucket = receipts[t].bucket
             /\ receipts'[t].state \notin {"none", "pending"}
  BY <1>1, ReceiptMovesOn DEF ReceiptMoves, ReceiptRows
<1>2. ASSUME NEW t \in Tasks, receipts[t].bucket = 0, receipts'[t].bucket # 0
      PROVE  /\ receipts'[t].state \notin {"none", "pending"}
             /\ receipts'[t].bucket \in BucketIds
             /\ buckets[receipts'[t].bucket].state = "none"
             /\ buckets'[receipts'[t].bucket].state \in {"queued", "running"}
             /\ \A u \in Tasks : u # t => receipts'[u] = receipts[u]
 <2> ReceiptMoves(t)  BY ReceiptMovesOn
 <2> QED BY <1>2 DEF ReceiptMoves
<1>3. ASSUME NEW b \in BucketIds, buckets[b].state \notin {"none", "collecting"}
      PROVE  buckets'[b].state \notin {"none", "collecting"}
  BY <1>3, BatchMovesOn DEF BatchMoves, ClosedState, BucketState, OpenState
<1>4. ASSUME NEW t \in Tasks PROVE receipts[t].bucket \in BucketIds \cup {0}
  BY DEF TypeOK, QueueTypeOK, Receipt
<1>5. ReceiptRows'  BY <1>1, <1>2, <1>3, <1>4 DEF ReceiptRows
<1>6. ReceiptsApart'  BY <1>1, <1>2, <1>4 DEF ReceiptsApart, ReceiptRows
<1> QED BY <1>5, <1>6

\* What is joined to an invocation stays joined to it.
LEMMA JoinsStay ==
    ASSUME TypeOK, RowsLinked, OwnInv, [Next]_vars, NEW i \in InvIds
    PROVE  attached[i] \subseteq attached'[i]
<1> USE DEF tables, policy, handover, runVars
<1>1. CASE attached' = attached  BY <1>1
<1>2. ASSUME NEW j \in InvIds, NEW d, NEW c, InsertInvocation(j, d, c)
      PROVE  attached[i] \subseteq attached'[i]
  BY <1>2 DEF InsertInvocation, FreshInvocation, OwnInv, FreshRows, TypeOK, QueueTypeOK
<1>3. ASSUME NEW b \in BucketIds, AttachBucket(b) PROVE attached[i] \subseteq attached'[i]
  BY <1>3 DEF AttachBucket, AttachBucketTo, TypeOK, QueueTypeOK
<1>4. ASSUME NEW t \in Tasks, AttachReceipt(t) PROVE attached[i] \subseteq attached'[i]
  BY <1>4 DEF AttachReceipt, TypeOK, QueueTypeOK
<1>5. CASE QueueStep
  BY <1>1, <1>2, <1>3, <1>4, <1>5
  DEF QueueStep, DeferBucket, LeaveBucket, SkipBucket, QueueBucket, ReleaseBucket, Requeue,
      SuppressReceipt, KeepReceipt, QueueReceipt, StartDue, EndDue, VetQueued
<1>6. ASSUME NEW c \in Conversations, RunStep(c) PROVE attached[i] \subseteq attached'[i]
 <2>1. CASE HoldSend(c)  BY <2>1 DEF HoldSend, AttachBucketTo, TypeOK, QueueTypeOK
 <2> QED BY <1>1, <1>6, <2>1, RunStepFrame DEF RowsKept
<1> QED BY <1>1, <1>5, <1>6
    DEF Next, vars, Arrival, AppendToBucket, FinishTask, DeadlinePasses, Tick, EndTick, Launch,
        BeginFinish, EndFinish, FailFinish, AbortConversation, Pause, Resume, CancelOngoing,
        ToggleSleep, CrashAndRestart

\* A claim outlives a step that leaves its invocation open or its terminal transaction
\* under way.
LEMMA ClaimsFrame ==
    ASSUME TypeOK, RowsLinked, BlockInv, OwnInv, ClaimsHeld, [Next]_vars,
           \A t \in Tasks : \A i \in InvIds :
              /\ receipts'[t].state = "claimed" /\ receipts'[t] = receipts[t]
              /\ receipts[t].invocation = i
              /\ invocations[i].state \in {"queued", "running"} \/ Releasing(i)
              => invocations'[i].state \in {"queued", "running"} \/ Releasing(i)'
    PROVE  ClaimsHeld'
<1> SUFFICES ASSUME NEW t \in Tasks, receipts'[t].state = "claimed"
             PROVE  \E i \in InvIds :
                       /\ receipts'[t].invocation = i
                       /\ invocations'[i].state \in {"queued", "running"} \/ Releasing(i)'
                       /\ receipts'[t].bucket \in attached'[i] \ {0}
  BY DEF ClaimsHeld
<1>1. CASE receipts'[t] = receipts[t]
 <2>1. PICK i \in InvIds :
          /\ receipts[t].invocation = i
          /\ invocations[i].state \in {"queued", "running"} \/ Releasing(i)
          /\ receipts[t].bucket \in attached[i] \ {0}
   BY <1>1 DEF ClaimsHeld
 <2> QED BY <1>1, <2>1, JoinsStay
<1>2. CASE receipts'[t] # receipts[t]
 <2>1. receipts[t].state = "claimed" => receipts[t].bucket # 0  BY DEF ClaimsHeld
 <2>2. 0 \notin BucketIds  BY DEF BucketIds
 <2> QED BY <1>2, <2>1, <2>2, ReceiptMovesOn DEF ReceiptMoves
<1> QED BY <1>1, <1>2

\* Vetting settles the claims of every invocation it closes.
LEMMA ClaimsVet ==
    ASSUME TypeOK, RowsLinked, BlockInv, OwnInv, ReceiptInv, VetQueued, [Next]_vars
    PROVE  ClaimsHeld'
<1>1. ASSUME NEW t \in Tasks, NEW i \in InvIds, receipts'[t].state = "claimed",
             receipts'[t] = receipts[t], receipts[t].invocation = i,
             invocations[i].state \in {"queued", "running"} \/ Releasing(i)
      PROVE  invocations'[i].state \in {"queued", "running"}
 <2>1. receipts[t] \in Receipt  BY DEF TypeOK, QueueTypeOK
 <2>2. t \notin InvalidClaims  BY <1>1, <2>1 DEF VetQueued, Receipt
 <2>3. t \in ClaimedBy(i)  BY <1>1 DEF ClaimedBy
 <2>4. i \notin SleepSkips  BY <1>1, <2>1, <2>2, <2>3 DEF VetQueued, Receipt
 <2>5. i \notin DroppedInvocations
  <3> SUFFICES ASSUME NEW u \in InvalidClaims, receipts[u].invocation = i PROVE FALSE
    BY DEF DroppedInvocations
  <3>1. u \in Tasks /\ receipts[u].state = "claimed" /\ invocations[i].state = "queued"
    BY DEF InvalidClaims, QueuedInvocations
  <3>2. receipts[u].bucket \in attached[i] \ {0} /\ receipts[t].bucket \in attached[i] \ {0}
    BY <1>1, <3>1 DEF ReceiptInv, ClaimsHeld
  <3>3. receipts[u].bucket = receipts[t].bucket  BY <3>1, <3>2 DEF OwnInv, QueuedRows
  <3> QED BY <2>2, <3>1, <3>2, <3>3 DEF ReceiptInv, ReceiptsApart
 <2>6. invocations'[i] = invocations[i]  BY <2>4, <2>5 DEF VetQueued
 <2>7. ~Releasing(i)  BY DEF VetQueued, Releasing
 <2> QED BY <1>1, <2>6, <2>7
<1> QED BY <1>1, ClaimsFrame DEF ReceiptInv

\* Every step keeps a claim settled or held.
LEMMA ClaimsKept ==
    ASSUME TypeOK, RowsLinked, BlockInv, RunsHeld, OwnInv, ReceiptInv, [Next]_vars
    PROVE  ClaimsHeld'
<1> USE DEF tables, policy, handover, runVars
<1> DEFINE Joined(i) == invocations[i].state \in {"queued", "running"} \/ Releasing(i)
<1>1. ASSUME \A i \in InvIds : Joined(i) => Joined(i)' PROVE ClaimsHeld'
  BY <1>1, ClaimsFrame DEF ReceiptInv
<1>2. CASE UNCHANGED <<invocations, step>>  BY <1>1, <1>2 DEF Releasing
<1>3. CASE QueueStep /\ ~VetQueued
 <2>1. ASSUME NEW i \in InvIds, Releasing(i) PROVE Releasing(i)'
   BY <1>3, <2>1, QueueStepRows DEF Releasing
 <2>2. ASSUME NEW i \in InvIds, invocations[i].state \in {"queued", "running"}
       PROVE  invocations'[i].state = invocations[i].state
  <3>1. ASSUME NEW j \in InvIds, NEW d, NEW c, InsertInvocation(j, d, c)
        PROVE  invocations'[i].state = invocations[i].state
    BY <2>2, <3>1 DEF InsertInvocation, FreshInvocation, TypeOK, QueueTypeOK
  <3> QED BY <1>3, <3>1
      DEF QueueStep, DeferBucket, LeaveBucket, SkipBucket, AttachBucket, QueueBucket,
          ReleaseBucket, Requeue, SuppressReceipt, KeepReceipt, AttachReceipt, QueueReceipt,
          StartDue, EndDue
 <2> QED BY <1>1, <2>1, <2>2
<1>4. CASE VetQueued  BY <1>4, ClaimsVet
<1>5. ASSUME NEW c \in Conversations, RunStep(c) PROVE ClaimsHeld'
 <2> /\ step' = step
     /\ \A i \in InvIds : invocations'[i].state = invocations[i].state
   BY <1>5, RunStepFrame DEF RunGoesOn, RowsKept, HoldSend
 <2> QED BY <1>1 DEF Releasing
<1>6. CASE Tick \/ EndTick
 <2> invocations' = invocations /\ step.at # "release"  BY <1>6 DEF Tick, EndTick
 <2> QED BY <1>1 DEF Releasing
<1>7. ASSUME NEW j \in InvIds, Launch(j) PROVE ClaimsHeld'
 <2> step.at # "release" /\ \A i \in InvIds :
        invocations'[i].state = IF i = j THEN "running" ELSE invocations[i].state
   BY <1>7 DEF Launch, TypeOK, QueueTypeOK, Invocation
 <2> QED BY <1>1 DEF Releasing
<1>8. ASSUME NEW c \in Conversations, BeginFinish(c) PROVE ClaimsHeld'
 <2> /\ step.at # "release" /\ step'.at = "release" /\ step'.inv = run[c].inv
     /\ \A i \in InvIds : i # run[c].inv => invocations'[i] = invocations[i]
   BY <1>8 DEF BeginFinish, Idle, TypeOK, QueueTypeOK
 <2> QED BY <1>1 DEF Releasing
<1>9. ASSUME NEW c \in Conversations, NEW w \in BOOLEAN, EndFinish(c, w) PROVE ClaimsHeld'
 <2>1. invocations' = invocations /\ receipts' = SettleClaims(step.inv)  BY <1>9 DEF EndFinish
 <2>2. ASSUME NEW t \in Tasks, receipts'[t].state = "claimed"
       PROVE  receipts[t].invocation # step.inv
   BY <2>1, <2>2 DEF SettleClaims, ClaimedBy, TypeOK, QueueTypeOK, Receipt
 <2>3. ASSUME NEW i \in InvIds, i # step.inv, Joined(i) PROVE Joined(i)'
   BY <2>1, <2>3 DEF Releasing
 <2> QED BY <2>2, <2>3, ClaimsFrame DEF ReceiptInv
<1>10. ASSUME NEW C, CloseUnstarted(C), step' = step PROVE ClaimsHeld'
 <2>1. ASSUME NEW t \in Tasks, NEW i \in InvIds, receipts'[t].state = "claimed",
              receipts'[t] = receipts[t], receipts[t].invocation = i, Joined(i)
       PROVE  Joined(i)'
  <3>1. i \notin UnstartedInvocations(C)
    BY <1>10, <2>1 DEF CloseUnstarted, SuppressClaims, TypeOK, QueueTypeOK, Receipt
  <3>2. invocations'[i] = invocations[i]  BY <1>10, <3>1 DEF CloseUnstarted
  <3> QED BY <1>10, <2>1, <3>2 DEF Releasing
 <2> QED BY <2>1, ClaimsFrame DEF ReceiptInv
<1>11. CASE CrashAndRestart
 <2> \A t \in Tasks : receipts'[t].state # "claimed"
   BY <1>11 DEF CrashAndRestart, Recover, TypeOK, QueueTypeOK, Receipt
 <2> QED BY DEF ClaimsHeld
<1> QED BY <1>2, <1>3, <1>4, <1>5, <1>6, <1>7, <1>8, <1>9, <1>10, <1>11
        DEF Next, vars, Arrival, AppendToBucket, FinishTask, DeadlinePasses, FailFinish,
            AbortConversation, Pause, Resume, CancelOngoing, ToggleSleep

\* Each receipt has a batch of its own and each claim an invocation that answers for it.
LEMMA ReceiptsKept == Spec => []ReceiptInv
<1> DEFINE Inv == BlockInv /\ RunsHeld /\ ReleaseList /\ OwnInv
<1>1. Init => ReceiptInv
  BY DEF Init, QueueInit, ReceiptInv, ReceiptRows, ReceiptsApart, ClaimsHeld, NoReceipt
<1>2. TypeOK /\ RowsLinked /\ Inv /\ ReceiptInv /\ [Next]_vars => ReceiptInv'
  BY ReceiptRowsKept, ClaimsKept DEF ReceiptInv
<1> QED BY <1>1, <1>2, TypeCorrect, Ownership, PTL DEF Spec

\* A claimed receipt has a live invocation that will settle it, and its batch is joined
\* to that invocation: no claim is left hanging by a release, a skip, a pause, a cancel
\* or a restart.
THEOREM ClaimsHaveRuns == Spec => []ClaimsSettle
<1>1. ReceiptInv => ClaimsSettle  BY DEF ReceiptInv, ClaimsHeld, ClaimsSettle, Releasing
<1> QED BY <1>1, ReceiptsKept, PTL

-----------------------------------------------------------------------------
(* Sleep.                                                                  *)

\* Between the vetting of the queue and the launches of a tick, what waits while the
\* bot sleeps waits for a receipt that bypasses the budget.
VetInv ==
    step.at = "pick" /\ asleep =>
        \A i \in QueuedInvocations : ClaimedBy(i) \cap Bypass # {}

\* Vetting leaves nothing else in the queue.
LEMMA VettedQueue ==
    ASSUME TypeOK, VetQueued
    PROVE  VetInv'
<1> SUFFICES ASSUME asleep', NEW i \in InvIds, invocations'[i].state = "queued"
             PROVE  (ClaimedBy(i) \cap Bypass # {})'
  BY DEF VetInv, QueuedInvocations
<1>1. asleep  BY DEF VetQueued, policy
<1>2. i \notin DroppedInvocations \cup SleepSkips /\ invocations[i].state = "queued"
  BY DEF VetQueued, CloseInvocation, TypeOK, QueueTypeOK, Invocation
<1>3. PICK t \in ClaimedBy(i) : t \in Bypass  BY <1>1, <1>2 DEF SleepSkips, QueuedInvocations
<1>4. t \notin InvalidClaims  BY <1>2, <1>3 DEF DroppedInvocations, ClaimedBy
<1>5. ~\E j \in SleepSkips : t \in ClaimedBy(j)  BY <1>2, <1>3 DEF ClaimedBy
<1>6. receipts'[t] = receipts[t]  BY <1>3, <1>4, <1>5 DEF VetQueued, ClaimedBy
<1> QED BY <1>3, <1>6 DEF ClaimedBy

\* Nothing but launches happens between the two.
LEMMA VetKept ==
    ASSUME TypeOK, RowsLinked, VetInv, [Next]_vars
    PROVE  VetInv'
<1> USE DEF tables, policy, handover, runVars
<1>1. CASE step'.at # "pick"  BY <1>1 DEF VetInv
<1>2. CASE UNCHANGED vars  BY <1>2 DEF vars, VetInv, QueuedInvocations, ClaimedBy
<1>3. CASE VetQueued  BY <1>3, VettedQueue
<1>4. CASE QueueStep /\ ~VetQueued
 <2>1. step.at # "pick"
   BY <1>4
   DEF QueueStep, DeferBucket, LeaveBucket, SkipBucket, AttachBucket, QueueBucket, NextDue,
       ReleaseBucket, SuppressReceipt, KeepReceipt, AttachReceipt, QueueReceipt, NextReceipt,
       StartDue, EndDue
 <2>2. step'.at \in {"idle", "vet"} \/ step'.at = step.at \/ step'.at = "due"
   BY <1>4
   DEF QueueStep, DeferBucket, LeaveBucket, SkipBucket, AttachBucket, QueueBucket, NextDue,
       ReleaseBucket, SuppressReceipt, KeepReceipt, AttachReceipt, QueueReceipt, NextReceipt,
       StartDue, EndDue, Idle, TypeOK, QueueTypeOK, Step
 <2> QED BY <1>1, <2>1, <2>2
<1>5. CASE \E c \in Conversations : RunStep(c)  BY <1>1, <1>5, RunStepFrame DEF RunGoesOn
<1>6. ASSUME NEW i \in InvIds, Launch(i) PROVE VetInv'
  BY <1>1, <1>6 DEF Launch, TypeOK, QueueTypeOK, Step
<1>7. CASE \/ Tick \/ EndTick \/ CrashAndRestart
           \/ \E c \in Conversations : BeginFinish(c)
           \/ \E c \in Conversations, w \in BOOLEAN : EndFinish(c, w)
 <2>1. ASSUME NEW c \in Conversations, BeginFinish(c) PROVE step'.at # "pick"
   BY <2>1 DEF BeginFinish, Idle
 <2>2. ASSUME NEW c \in Conversations, NEW w \in BOOLEAN, EndFinish(c, w) PROVE step'.at # "pick"
   BY <2>2 DEF EndFinish, StartTasks
 <2>3. CASE Tick \/ EndTick \/ CrashAndRestart
   BY <1>1, <2>3 DEF Tick, EndTick, CrashAndRestart, StartTasks, Idle
 <2> QED BY <1>1, <1>7, <2>1, <2>2, <2>3
<1>8. CASE step.at = "idle" /\ step' = step  BY <1>1, <1>8
<1> QED BY <1>2, <1>3, <1>4, <1>5, <1>6, <1>7, <1>8
        DEF Next, Arrival, AppendToBucket, FinishTask, DeadlinePasses, FailFinish,
            AbortConversation, Pause, Resume, CancelOngoing, ToggleSleep

\* While the bot sleeps, no run starts but for a receipt that bypasses the budget:
\* whatever was queued before, the queue is vetted in the block that launches.
THEOREM SleepHoldsRuns == Spec => SleepGatesRuns
<1> DEFINE Gate == asleep => \A i \in InvIds :
                      (invocations[i].state # "running" /\ invocations'[i].state = "running")
                         => ClaimedBy(i) \cap Bypass # {}
<1>1. Init => VetInv  BY DEF Init, QueueInit, VetInv, Idle
<1>2. TypeOK /\ RowsLinked /\ VetInv /\ [Next]_vars => VetInv'  BY VetKept
<1>3. TypeOK /\ RowsLinked /\ VetInv /\ [Next]_vars => [Gate]_vars
 <2> SUFFICES ASSUME TypeOK, RowsLinked, VetInv, [Next]_vars, asleep,
                     NEW i \in InvIds,
                     invocations[i].state # "running", invocations'[i].state = "running"
              PROVE  ClaimedBy(i) \cap Bypass # {}
   OBVIOUS
 <2>1. PICK j \in InvIds : Launch(j)  BY OnlyLaunchStarts DEF NoneStarts
 <2>2. step.at = "pick" /\ j \in QueuedInvocations  BY <2>1 DEF Launch, Launchable, Candidates
 <2>3. i = j  BY <2>1 DEF Launch, TypeOK, QueueTypeOK
 <2> QED BY <2>2, <2>3 DEF VetInv
<1>4. Spec => [][Gate]_vars  BY <1>1, <1>2, <1>3, TypeCorrect, PTL DEF Spec
<1> QED BY <1>4 DEF SleepGatesRuns

-----------------------------------------------------------------------------
(* The exemption of a receipt.                                             *)

\* Message batches handed over to a run, past collecting and no receipt's.
PendingRows ==
    \A c \in Conversations : \A n \in DOMAIN pending[c].messages :
        LET b == pending[c].messages[n] IN
        /\ buckets[b].state \notin {"none", "collecting"}
        /\ \A t \in Tasks : receipts[t].bucket # b

\* The receipt a run answers to has its batch, which is all the run holds.
RoundInv ==
    \A c \in Conversations :
        run[c].completion # None =>
            /\ run[c].completion \in Tasks
            /\ receipts[run[c].completion].bucket # 0
            /\ \A n \in DOMAIN run[c].handed :
                  run[c].handed[n] = receipts[run[c].completion].bucket

\* getCompletion finds the receipt of that batch, or none.
LEMMA CompletionFound ==
    ASSUME NEW i, NEW b
    PROVE  CompletionOf(i, b) # None =>
              /\ CompletionOf(i, b) \in Tasks
              /\ receipts[CompletionOf(i, b)].bucket = b
BY DEF CompletionOf

\* What is handed to a model while an exemption lasts is the receipt's batch.
LEMMA InjectOwns ==
    ASSUME TypeOK, RowsLinked, PendingRows, NEW c \in Conversations, NEW all \in BOOLEAN,
           Inject(c, all)
    PROVE  run'[c].completion # None =>
              /\ run'[c].completion \in Tasks
              /\ receipts[run'[c].completion].bucket # 0
              /\ \A n \in DOMAIN run'[c].handed :
                    run'[c].handed[n] = receipts[run'[c].completion].bucket
<1>1. /\ pending[c].messages \in Seq(BucketIds)
      /\ pending[c].completions \in Seq(BucketIds)
  BY DEF TypeOK, QueueTypeOK, Pending
<1>2. ASSUME NEW batch \in Seq(BucketIds), InjectBatch(c, batch)
      PROVE  /\ run'[c].handed = batch
             /\ run'[c].completion = CompletionOf(run[c].inv, batch[Len(batch)])
  BY <1>2 DEF InjectBatch, TypeOK, RunTypeOK, Run
<1>3. CASE pending[c].messages # <<>> /\ InjectBatch(c, pending[c].messages)
 <2>1. Len(pending[c].messages) \in DOMAIN pending[c].messages  BY <1>1, <1>3
 <2>2. \A t \in Tasks : receipts[t].bucket # pending[c].messages[Len(pending[c].messages)]
   BY <2>1 DEF PendingRows
 <2> QED BY <1>1, <1>2, <1>3, <2>2, CompletionFound
<1>4. CASE pending[c].completions # <<>> /\ InjectBatch(c, <<Head(pending[c].completions)>>)
 <2>1. PICK b \in BucketIds : b = Head(pending[c].completions)  BY <1>1, <1>4
 <2>2. run'[c].handed = <<b>> /\ run'[c].completion = CompletionOf(run[c].inv, b)
  <3>1. <<b>> \in Seq(BucketIds) /\ <<b>>[Len(<<b>>)] = b  OBVIOUS
  <3> QED BY <1>2, <1>4, <2>1, <3>1
 <2>3. b # 0  BY DEF BucketIds
 <2> QED BY <2>2, <2>3, CompletionFound
<1> QED BY <1>3, <1>4 DEF Inject

\* A run keeps what it answers to, while its model takes what it was handed, or ends
\* its round, or is handed the next.
LEMMA RunStepRound ==
    ASSUME TypeOK, NEW c \in Conversations, RunStep(c)
    PROVE  \/ /\ run'[c].completion = run[c].completion
              /\ \/ run'[c].handed = run[c].handed
                 \/ run[c].handed # <<>> /\ run'[c].handed = Tail(run[c].handed)
           \/ run'[c].completion = None
           \/ \E all \in BOOLEAN : Inject(c, all)
<1> USE DEF TypeOK, RunTypeOK, runVars
<1>1. CASE LoadImages(c) \/ MessageEnd(c) \/ HoldSend(c) \/ StartSend(c)
  BY <1>1 DEF LoadImages, MessageEnd, Live, HoldSend, StartSend, Run
<1>2. CASE StopForSleepOrBudget(c) \/ StopForContextOrTurns(c) \/ StopAfterReceipt(c) \/ StopForWallClock(c)
  BY <1>2 DEF StopForSleepOrBudget, StopForContextOrTurns, StopAfterReceipt, StopForWallClock, Stop, Run
<1>3. CASE GrantClosingTurn(c) \/ Nudge(c) \/ ContinueTools(c)
  BY <1>3 DEF GrantClosingTurn, Nudge, ContinueTools, Run
<1>4. CASE EndRound(c)  BY <1>4 DEF EndRound, Run
<1>5. CASE GraceTimesOut(c) \/ EndAfterGrace(c) \/ AbortForWallClock(c) \/ RunFinally(c)
  BY <1>5 DEF GraceTimesOut, EndAfterGrace, AbortForWallClock, RunFinally, NoRun, Run
<1>6. CASE InjectBetweenTools(c) \/ InjectAfterRound(c) \/ GraceWakes(c)
  BY <1>6 DEF InjectBetweenTools, InjectAfterRound, GraceWakes
<1> QED BY <1>1, <1>2, <1>3, <1>4, <1>5, <1>6 DEF RunStep

\* What is left of a list was in it.
LEMMA TailElements ==
    ASSUME NEW S, NEW q \in Seq(S), q # <<>>, NEW n \in DOMAIN Tail(q)
    PROVE  n + 1 \in DOMAIN q /\ Tail(q)[n] = q[n + 1]
OBVIOUS

\* Every step keeps what a run answers to.
LEMMA RoundKept ==
    ASSUME TypeOK, RowsLinked, BlockInv, RunsHeld, OwnInv, ReceiptInv, PendingRows, RoundInv,
           [Next]_vars
    PROVE  RoundInv'
<1> USE DEF tables, policy, handover, runVars
<1>1. ASSUME NEW t \in Tasks, receipts[t].bucket # 0
      PROVE  receipts'[t].bucket = receipts[t].bucket
  BY <1>1, ReceiptMovesOn DEF ReceiptMoves, ReceiptInv, ReceiptRows
<1> DEFINE Round(c) ==
              run[c].completion # None =>
                 /\ run[c].completion \in Tasks
                 /\ receipts[run[c].completion].bucket # 0
                 /\ \A n \in DOMAIN run[c].handed :
                       run[c].handed[n] = receipts[run[c].completion].bucket
<1>2. ASSUME NEW c \in Conversations,
             run'[c].completion # None =>
                 run'[c].completion = run[c].completion /\ run'[c].handed = run[c].handed
      PROVE  Round(c)'
  BY <1>1, <1>2 DEF RoundInv
<1>3. CASE run' = run  BY <1>2, <1>3 DEF RoundInv
<1>4. ASSUME NEW c \in Conversations, RunStep(c) PROVE RoundInv'
 <2>1. receipts' = receipts /\ \A d \in Conversations : d # c => run'[d] = run[d]
   BY <1>4, RunStepFrame DEF RunGoesOn
 <2>2. Round(c)'
  <3>1. CASE run'[c].completion = None  BY <3>1
  <3>2. CASE \E all \in BOOLEAN : Inject(c, all)  BY <2>1, <3>2, InjectOwns
  <3>3. CASE run'[c].completion = run[c].completion /\ run'[c].handed = run[c].handed
    BY <1>2, <3>3
  <3>4. CASE /\ run'[c].completion = run[c].completion
             /\ run[c].handed # <<>> /\ run'[c].handed = Tail(run[c].handed)
   <4>1. run[c].handed \in Seq(BucketIds)  BY DEF TypeOK, RunTypeOK, Run
   <4> QED BY <2>1, <3>4, <4>1, TailElements DEF RoundInv
  <3> QED BY <1>4, <3>1, <3>2, <3>3, <3>4, RunStepRound
 <2> QED BY <1>2, <2>1, <2>2 DEF RoundInv
<1>5. ASSUME NEW C, Abort(C) PROVE RoundInv'
 <2> \A c \in Conversations : run'[c].completion = run[c].completion /\ run'[c].handed = run[c].handed
   BY <1>5 DEF Abort, TypeOK, RunTypeOK, Run
 <2> QED BY <1>2 DEF RoundInv
<1>6. CASE \/ \E c \in Conversations : FailFinish(c)
           \/ \E c \in Conversations, w \in BOOLEAN : EndFinish(c, w)
           \/ CrashAndRestart
 <2> \A d \in Conversations : run'[d] = run[d] \/ run'[d].completion = None
   BY <1>6 DEF FailFinish, EndFinish, CrashAndRestart, NoRun, TypeOK, RunTypeOK
 <2> QED BY <1>2 DEF RoundInv
<1>7. ASSUME NEW i \in InvIds, Launch(i) PROVE RoundInv'
 <2>1. PICK c \in Conversations : c = invocations[i].conversation
   BY <1>7 DEF Launch, Launchable, Candidates, QueuedInvocations, RowsLinked
 <2>2. PICK b \in BucketIds : b = invocations[i].bucket
   BY <1>7 DEF Launch, Launchable, Candidates, QueuedInvocations, OwnInv, QueuedRows,
               TypeOK, QueueTypeOK
 <2>3. /\ \A d \in Conversations : d # c => run'[d] = run[d]
       /\ \/ run'[c].completion = None
          \/ run'[c].completion = CompletionOf(i, b) /\ run'[c].handed = <<b>>
  <3>1. OpenRun(i, c) \/ FailToOpen(i, c)  BY <1>7, <2>1 DEF Launch
  <3>2. CASE OpenRun(i, c)  BY <2>2, <3>2 DEF OpenRun, NoRun, TypeOK, RunTypeOK
  <3>3. CASE FailToOpen(i, c)  BY <3>3 DEF FailToOpen, NoRun, TypeOK, RunTypeOK
  <3> QED BY <3>1, <3>2, <3>3
 <2>4. receipts' = receipts /\ b # 0  BY <1>7 DEF Launch, BucketIds
 <2>5. Round(c)'  BY <2>3, <2>4, CompletionFound
 <2> QED BY <1>2, <2>3, <2>5 DEF RoundInv
<1> QED BY <1>3, <1>4, <1>5, <1>6, <1>7
        DEF Next, vars, Arrival, AppendToBucket, FinishTask, DeadlinePasses, Tick, EndTick,
            BeginFinish, AbortConversation, Pause, Resume, CancelOngoing, ToggleSleep

\* A list of waiting batches grows by a batch that was collecting, or is taken whole.
LEMMA PendingGrows ==
    ASSUME TypeOK, RowsLinked, BlockInv, [Next]_vars, NEW c \in Conversations
    PROVE  \/ pending'[c].messages = pending[c].messages
           \/ pending'[c].messages = <<>>
           \/ \E b \in BucketIds :
                 /\ buckets[b].state = "collecting" /\ buckets'[b].state = "running"
                 /\ receipts' = receipts
                 /\ pending'[c].messages = Append(pending[c].messages, b)
<1> USE DEF tables, policy, handover, runVars, TypeOK, QueueTypeOK, Pending
<1>1. CASE pending' = pending  BY <1>1
<1>2. ASSUME NEW b \in BucketIds, AttachBucket(b)
      PROVE  \/ pending'[c].messages = pending[c].messages
             \/ \E d \in BucketIds :
                   /\ buckets[d].state = "collecting" /\ buckets'[d].state = "running"
                   /\ receipts' = receipts
                   /\ pending'[c].messages = Append(pending[c].messages, d)
 <2> DEFINE v == buckets[b].conversation
 <2>1. /\ buckets[b].state = "collecting" /\ receipts' = receipts
       /\ buckets' = [buckets EXCEPT ![b].state = "running"]
       /\ pending' = [pending EXCEPT ![v].messages = Append(@, b)]
   BY <1>2 DEF AttachBucket, AttachBucketTo, NextDue, BlockInv
 <2>2. buckets'[b].state = "running"  BY <2>1
 <2>3. CASE c = v  BY <2>1, <2>2, <2>3
 <2>4. CASE c # v  BY <2>1, <2>4
 <2> QED BY <2>3, <2>4
<1>3. ASSUME NEW t \in Tasks, AttachReceipt(t) PROVE pending'[c].messages = pending[c].messages
  BY <1>3 DEF AttachReceipt
<1>4. ASSUME NEW d \in Conversations, HoldSend(d)
      PROVE  \/ pending'[c].messages = pending[c].messages
             \/ \E b \in BucketIds :
                   /\ buckets[b].state = "collecting" /\ buckets'[b].state = "running"
                   /\ receipts' = receipts
                   /\ pending'[c].messages = Append(pending[c].messages, b)
 <2>1. PICK b \in BucketIds :
          /\ buckets[b].state = "collecting" /\ receipts' = receipts
          /\ buckets' = [buckets EXCEPT ![b].state = "running"]
          /\ pending' = [pending EXCEPT ![d].messages = Append(@, b)]
   BY <1>4 DEF HoldSend, AttachBucketTo, Collecting
 <2>2. buckets'[b].state = "running"  BY <2>1
 <2>3. CASE c = d  BY <2>1, <2>2, <2>3
 <2>4. CASE c # d  BY <2>1, <2>4
 <2> QED BY <2>3, <2>4
<1>5. ASSUME NEW d \in Conversations, NEW all \in BOOLEAN, Inject(d, all)
      PROVE  pending'[c].messages = pending[c].messages \/ pending'[c].messages = <<>>
  BY <1>5 DEF Inject
<1>6. ASSUME NEW d \in Conversations, RunFinally(d)
      PROVE  pending'[c].messages = pending[c].messages \/ pending'[c].messages = <<>>
  BY <1>6 DEF RunFinally, DropPending, NonePending
<1>7. ASSUME NEW d \in Conversations, RunStep(d), ~HoldSend(d), ~RunFinally(d),
             \A all \in BOOLEAN : ~Inject(d, all)
      PROVE  pending' = pending
  BY <1>7
  DEF RunStep, LoadImages, MessageEnd, StartSend, StopForSleepOrBudget, GrantClosingTurn,
      StopForContextOrTurns, Nudge, ContinueTools, InjectBetweenTools, StopAfterReceipt,
      InjectAfterRound, EndRound, GraceWakes, GraceTimesOut, EndAfterGrace,
      StopForWallClock, AbortForWallClock, Stop
<1>8. CASE QueueStep
  BY <1>1, <1>2, <1>3, <1>8
  DEF QueueStep, DeferBucket, LeaveBucket, SkipBucket, QueueBucket, ReleaseBucket,
      SuppressReceipt, KeepReceipt, QueueReceipt, StartDue, EndDue, VetQueued
<1>9. CASE CrashAndRestart  BY <1>9 DEF CrashAndRestart, NonePending
<1> QED BY <1>1, <1>4, <1>5, <1>6, <1>7, <1>8, <1>9
    DEF Next, vars, Arrival, AppendToBucket, FinishTask, DeadlinePasses, Tick, EndTick, Launch,
        BeginFinish, EndFinish, FailFinish, AbortConversation, Pause, Resume, CancelOngoing,
        ToggleSleep

\* So a message batch handed over is never a receipt's.
LEMMA PendingKept ==
    ASSUME TypeOK, RowsLinked, BlockInv, RunsHeld, OwnInv, ReceiptInv, PendingRows, [Next]_vars
    PROVE  PendingRows'
<1> SUFFICES ASSUME NEW c \in Conversations, NEW n \in DOMAIN pending'[c].messages
             PROVE  LET b == pending'[c].messages[n] IN
                    /\ buckets'[b].state \notin {"none", "collecting"}
                    /\ \A t \in Tasks : receipts'[t].bucket # b
  BY DEF PendingRows
<1>1. pending[c].messages \in Seq(BucketIds)  BY DEF TypeOK, QueueTypeOK, Pending
<1>2. ASSUME NEW b \in BucketIds, buckets[b].state \notin {"none", "collecting"},
             \A t \in Tasks : receipts[t].bucket # b
      PROVE  /\ buckets'[b].state \notin {"none", "collecting"}
             /\ \A t \in Tasks : receipts'[t].bucket # b
 <2>1. buckets'[b].state \notin {"none", "collecting"}
   BY <1>2, BatchMovesOn DEF BatchMoves, ClosedState, BucketState, OpenState
 <2>2. ASSUME NEW t \in Tasks PROVE receipts'[t].bucket # b
   BY <1>2, ReceiptMovesOn DEF ReceiptMoves
 <2> QED BY <2>1, <2>2
<1>3. CASE pending'[c].messages = pending[c].messages  BY <1>1, <1>2, <1>3 DEF PendingRows
<1>4. ASSUME NEW b \in BucketIds,
             buckets[b].state = "collecting", buckets'[b].state = "running", receipts' = receipts,
             pending'[c].messages = Append(pending[c].messages, b)
      PROVE  LET d == pending'[c].messages[n] IN
             /\ buckets'[d].state \notin {"none", "collecting"}
             /\ \A t \in Tasks : receipts'[t].bucket # d
 <2>1. \A t \in Tasks : receipts[t].bucket # b  BY <1>4 DEF ReceiptInv, ReceiptRows, BucketIds
 <2>2. \/ pending'[c].messages[n] = b
       \/ n \in DOMAIN pending[c].messages /\ pending'[c].messages[n] = pending[c].messages[n]
   BY <1>1, <1>4
 <2> QED BY <1>1, <1>2, <1>4, <2>1, <2>2 DEF PendingRows
<1> QED BY <1>3, <1>4, PendingGrows

\* A receipt's exemption from sleep and budget is for its own batch: no message batch is
\* handed to the model while it lasts, and the receipt a run answers to stays the one it
\* was launched or injected for.
THEOREM ExemptionIsOwn == Spec => []ExemptionOwnsRound
<1> DEFINE Inv == BlockInv /\ RunsHeld /\ ReleaseList /\ OwnInv
<1>1. Init => PendingRows /\ RoundInv
  BY DEF Init, QueueInit, RunInit, PendingRows, RoundInv, NonePending, NoRun
<1>2. TypeOK /\ RowsLinked /\ Inv /\ ReceiptInv /\ PendingRows /\ RoundInv /\ [Next]_vars
         => PendingRows' /\ RoundInv'
  BY PendingKept, RoundKept
<1>3. RoundInv => ExemptionOwnsRound  BY DEF RoundInv, ExemptionOwnsRound
<1> QED BY <1>1, <1>2, <1>3, TypeCorrect, Ownership, ReceiptsKept, PTL DEF Spec

=============================================================================

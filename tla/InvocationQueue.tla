--------------------------- MODULE InvocationQueue ---------------------------
(***************************************************************************)
(* The persistent work queue of the bot: message batches ("buckets"),      *)
(* invocations, the join table between them, and completion receipts, with *)
(* the synchronous transitions of InvocationQueueService, and the          *)
(* in-memory hand-over state of ConversationRuntime.                       *)
(*                                                                         *)
(* The program is one Node.js process.  A synchronous block runs without   *)
(* interleaving, so a loop inside a block is modelled as one step per      *)
(* iteration, and the variable step says which block is under way: every   *)
(* other actor waits until step.at = "idle".  Deadlines are abstracted to  *)
(* "has the deadline passed" (the field due).                              *)
(***************************************************************************)
EXTENDS Naturals, FiniteSets, Sequences

CONSTANTS
    Conversations,     \* (chat, forum topic) pairs
    Chats,
    ChatOf,            \* the chat of a conversation
    Tasks,             \* long tasks that will complete and owe a receipt
    TaskConv,          \* the conversation of a task
    Bypass,            \* tasks whose delivery bypasses the daily budget
    None,              \* "no conversation" / "no completion in progress"
    MaxBatches,        \* bound: message batches that ever open
    WindowOpen         \* telegram.bucket_window_seconds > 0

BucketIds == 1..(MaxBatches + Cardinality(Tasks))
InvIds == BucketIds

ASSUME QueueAssumptions ==
    /\ ChatOf \in [Conversations -> Chats]
    /\ TaskConv \in [Tasks -> Conversations]
    /\ Bypass \subseteq Tasks
    /\ None \notin Conversations \cup Tasks
    /\ MaxBatches \in Nat
    /\ WindowOpen \in BOOLEAN
    /\ IsFiniteSet(Tasks)

VARIABLES
    buckets,           \* table buckets
    invocations,       \* table invocations
    attached,          \* table invocation_buckets: the buckets joined to an invocation
    injected,          \* ... and those of them with injected_at set
    receipts,          \* table task_receipts
    paused,            \* table chat_pause
    removed,           \* chats and forum topics the configuration no longer lists
    asleep,            \* app_state.bot_sleep_until lies in the future
    pending,           \* ConversationState.pendingBuckets, one list per kind
    closing,           \* ConversationState.closing
    round,             \* ConversationState.roundInProgress
    step               \* the synchronous block under way

tables == <<buckets, invocations, attached, injected, receipts>>
policy == <<paused, removed, asleep>>
handover == <<pending, closing, round>>

BucketState == {"none", "collecting", "queued", "running", "completed",
                "failed", "aborted", "outcome_unknown", "expired",
                "skipped_budget"}
OpenState == {"collecting", "queued", "running"}
ClosedState == BucketState \ (OpenState \cup {"none"})
InvState == BucketState \ {"collecting", "expired"}
ReceiptState == {"none", "pending", "claimed", "handled", "suppressed"}

Bucket == [state : BucketState, conversation : Conversations \cup {None},
           due : BOOLEAN]
Invocation == [state : InvState, conversation : Conversations \cup {None},
               bucket : BucketIds \cup {0}, sideEffect : BOOLEAN]
Receipt == [state : ReceiptState, invocation : InvIds \cup {0},
            bucket : BucketIds \cup {0}]
\* No reader of pendingBuckets depends on the order between the two kinds.
Pending == [messages : Seq(BucketIds), completions : Seq(BucketIds)]
StepName == {"idle", "tasks", "due", "vet", "pick", "release"}
Step == [at : StepName, tasks : SUBSET Tasks, buckets : SUBSET BucketIds,
         then : {"idle", "vet"}, inv : InvIds \cup {0}]

NoBucket == [state |-> "none", conversation |-> None, due |-> FALSE]
NoInvocation == [state |-> "none", conversation |-> None, bucket |-> 0,
                 sideEffect |-> FALSE]
NoReceipt == [state |-> "none", invocation |-> 0, bucket |-> 0]
NonePending == [messages |-> <<>>, completions |-> <<>>]
Idle == [at |-> "idle", tasks |-> {}, buckets |-> {}, then |-> "idle", inv |-> 0]

QueueTypeOK ==
    /\ buckets \in [BucketIds -> Bucket]
    /\ invocations \in [InvIds -> Invocation]
    /\ attached \in [InvIds -> SUBSET BucketIds]
    /\ injected \in [InvIds -> SUBSET BucketIds]
    /\ receipts \in [Tasks -> Receipt]
    /\ paused \in SUBSET Chats
    /\ removed \in SUBSET (Chats \cup Conversations)
    /\ asleep \in BOOLEAN
    /\ pending \in [Conversations -> Pending]
    /\ closing \in SUBSET Conversations
    /\ round \in SUBSET Conversations
    /\ step \in Step

QueueInit ==
    /\ buckets = [b \in BucketIds |-> NoBucket]
    /\ invocations = [i \in InvIds |-> NoInvocation]
    /\ attached = [i \in InvIds |-> {}]
    /\ injected = [i \in InvIds |-> {}]
    /\ receipts = [t \in Tasks |-> NoReceipt]
    /\ paused = {}
    /\ removed = {}
    /\ asleep = FALSE
    /\ pending = [c \in Conversations |-> NonePending]
    /\ closing = {}
    /\ round = {}
    /\ step = Idle

-----------------------------------------------------------------------------
(* Queries                                                                 *)

\* AUTOINCREMENT: the next row id.
FreshBucket(b) ==
    /\ buckets[b].state = "none"
    /\ \A a \in BucketIds : a < b => buckets[a].state # "none"

FreshInvocation(i) ==
    /\ invocations[i].state = "none"
    /\ \A j \in InvIds : j < i => invocations[j].state # "none"

Collecting(c) ==
    {b \in BucketIds : /\ buckets[b].state = "collecting"
                       /\ buckets[b].conversation = c}

\* The invocations of chat k in state st.
ChatInvocations(k, st) ==
    {i \in InvIds : /\ invocations[i].state = st
                    /\ ChatOf[invocations[i].conversation] = k}

RunningInvocation(c) ==
    {i \in InvIds : /\ invocations[i].state = "running"
                    /\ invocations[i].conversation = c}

\* Faulty: nothing counts as not injected, so nothing is released.
UninjectedNone(i) == {}

\* invocation_buckets rows of i with injected_at null, the opening bucket apart.
Uninjected(i) == (attached[i] \ injected[i]) \ {invocations[i].bucket}

ReceiptCancelled(t) ==
    \/ ChatOf[TaskConv[t]] \in removed \cup paused
    \/ TaskConv[t] \in removed

\* Buckets that may open a run or join one: see processDue's query.
DueBuckets ==
    {b \in BucketIds :
        /\ buckets[b].state = "collecting"
        /\ buckets[b].due
        /\ LET c == buckets[b].conversation
               k == ChatOf[c]
           IN /\ k \notin paused
              /\ ChatInvocations(k, "queued") = {}
              /\ ChatInvocations(k, "running") \subseteq RunningInvocation(c)}

\* A row in its terminal state st.  Its deadline and its side-effect mark are
\* never read again, so the model keeps them for open rows only.
CloseBucket(b, st) == [buckets[b] EXCEPT !.state = st, !.due = FALSE]
\* Faulty: an aborted invocation gets a state only buckets have.
CloseInvocationExpired(i, st) ==
    [invocations[i] EXCEPT !.state = IF st = "aborted" THEN "expired" ELSE st,
                           !.sideEffect = FALSE]
CloseInvocation(i, st) == [invocations[i] EXCEPT !.state = st, !.sideEffect = FALSE]

\* The collecting batches of conversations C get a deadline one window ahead.
Deferred(C) ==
    [b \in BucketIds |->
        IF /\ buckets[b].state = "collecting"
           /\ buckets[b].conversation \in C
           /\ WindowOpen
        THEN [buckets[b] EXCEPT !.due = FALSE] ELSE buckets[b]]

-----------------------------------------------------------------------------
(* Ingress: Telegram messages, the passing of a window, task completions.  *)

MessageBatches ==
    Cardinality({b \in BucketIds : buckets[b].state # "none"})
        - Cardinality({t \in Tasks : receipts[t].bucket # 0})

\* #appendToBucket for a message that opens a batch; a message that joins the
\* collecting batch changes nothing here.
AppendToBucket(c) ==
    /\ step.at = "idle"
    /\ ChatOf[c] \notin paused \cup removed
    /\ c \notin removed
    /\ Collecting(c) = {}
    /\ MessageBatches < MaxBatches
    /\ \E b \in BucketIds :
          /\ FreshBucket(b)
          /\ buckets' = [buckets EXCEPT ![b] =
                [state |-> "collecting", conversation |-> c, due |-> ~WindowOpen]]
    /\ UNCHANGED <<invocations, attached, injected, receipts, policy, handover, step>>

DeadlinePasses(b) ==
    /\ step.at = "idle"
    /\ buckets[b].state \in OpenState
    /\ ~buckets[b].due
    /\ buckets' = [buckets EXCEPT ![b].due = TRUE]
    /\ UNCHANGED <<invocations, attached, injected, receipts, policy, handover, step>>

\* LongTaskService completes or fails a waiting task and records its receipt.
FinishTask(t) ==
    /\ step.at = "idle"
    /\ receipts[t].state = "none"
    /\ receipts' = [receipts EXCEPT ![t].state = "pending"]
    /\ UNCHANGED <<buckets, invocations, attached, injected, policy, handover, step>>

-----------------------------------------------------------------------------
(* processTasksDue: one step per pending receipt.                          *)

\* Enter processTasksDue; processDue follows it in the same block.
StartTasks(then) ==
    step' = [at |-> "tasks",
             tasks |-> {t \in Tasks : receipts[t].state = "pending"},
             buckets |-> {}, then |-> then, inv |-> 0]

NextReceipt(t) ==
    /\ step.at = "tasks"
    /\ t \in step.tasks
    /\ step' = [step EXCEPT !.tasks = @ \ {t}]

SuppressReceipt(t) ==
    /\ NextReceipt(t)
    /\ ReceiptCancelled(t)
    /\ receipts' = [receipts EXCEPT ![t].state = "suppressed"]
    /\ UNCHANGED <<buckets, invocations, attached, injected, policy, handover>>

ReceiptMayGo(t) == ~ReceiptCancelled(t) /\ (asleep => t \in Bypass)

\* Ordinary sleep, a closing run, or another run of the chat: try again later.
KeepReceipt(t) ==
    /\ NextReceipt(t)
    /\ ~ReceiptCancelled(t)
    /\ \/ asleep /\ t \notin Bypass
       \/ RunningInvocation(TaskConv[t]) # {} /\ TaskConv[t] \in closing
       \/ /\ RunningInvocation(TaskConv[t]) = {}
          /\ ChatInvocations(ChatOf[TaskConv[t]], "running") # {}
    /\ UNCHANGED <<tables, policy, handover>>

AttachReceipt(t) ==
    LET c == TaskConv[t] IN
    /\ NextReceipt(t)
    /\ ReceiptMayGo(t)
    /\ c \notin closing
    /\ \E i \in RunningInvocation(c), b \in BucketIds :
          /\ FreshBucket(b)
          /\ buckets' = [buckets EXCEPT ![b] =
                [state |-> "running", conversation |-> c, due |-> TRUE]]
          /\ attached' = [attached EXCEPT ![i] = @ \cup {b}]
          /\ receipts' = [receipts EXCEPT ![t] =
                [state |-> "claimed", invocation |-> i, bucket |-> b]]
          /\ pending' = [pending EXCEPT ![c].completions = Append(@, b)]
    /\ UNCHANGED <<invocations, injected, policy, closing, round>>

\* #insertInvocation: row i opens with bucket b and is joined to it.
InsertInvocation(i, b, c) ==
    /\ FreshInvocation(i)
    /\ invocations' = [invocations EXCEPT ![i] =
          [state |-> "queued", conversation |-> c, bucket |-> b, sideEffect |-> FALSE]]
    /\ attached' = [attached EXCEPT ![i] = {b}]

QueueReceipt(t) ==
    LET c == TaskConv[t] IN
    /\ NextReceipt(t)
    /\ ReceiptMayGo(t)
    /\ ChatInvocations(ChatOf[c], "running") = {}
    /\ \E i \in InvIds, b \in BucketIds :
          /\ FreshBucket(b)
          /\ buckets' = [buckets EXCEPT ![b] =
                [state |-> "queued", conversation |-> c, due |-> TRUE]]
          /\ InsertInvocation(i, b, c)
          /\ receipts' = [receipts EXCEPT ![t] =
                [state |-> "claimed", invocation |-> i, bucket |-> b]]
    /\ UNCHANGED <<injected, policy, handover>>

-----------------------------------------------------------------------------
(* processDue: the query once, then one step per due bucket.               *)

StartDue ==
    /\ step.at = "tasks"
    /\ step.tasks = {}
    /\ step' = [step EXCEPT !.at = "due", !.buckets = DueBuckets]
    /\ UNCHANGED <<tables, policy, handover>>

NextDue(b) ==
    /\ step.at = "due"
    /\ b \in step.buckets
    /\ step' = [step EXCEPT !.buckets = @ \ {b}]

DeferBucket(b) ==
    LET c == buckets[b].conversation IN
    /\ NextDue(b)
    /\ RunningInvocation(c) # {}
    /\ c \in round
    /\ buckets' = [buckets EXCEPT ![b].due = FALSE]     \* MINIMUM_DEFER_MS > 0
    /\ UNCHANGED <<invocations, attached, injected, receipts, policy, handover>>

\* The run is closing: the batch stays collecting for the next invocation.
LeaveBucket(b) ==
    LET c == buckets[b].conversation IN
    /\ NextDue(b)
    /\ RunningInvocation(c) # {}
    /\ c \notin round
    /\ c \in closing
    /\ UNCHANGED <<tables, policy, handover>>

BucketSkips(b) == ChatOf[buckets[b].conversation] \in removed \/ asleep

\* #markBucketSkipped, from #attachBucket or #queueBucket.
SkipBucket(b) ==
    LET c == buckets[b].conversation IN
    /\ NextDue(b)
    /\ RunningInvocation(c) # {} => c \notin round \cup closing
    /\ BucketSkips(b)
    /\ buckets' = [buckets EXCEPT ![b] = CloseBucket(b, "skipped_budget")]
    /\ UNCHANGED <<invocations, attached, injected, receipts, policy, handover>>

\* Faulty: the bucket runs without being joined to the invocation.
AttachBucketUnjoined(i, b, c) ==
    /\ buckets' = [buckets EXCEPT ![b].state = "running"]
    /\ pending' = [pending EXCEPT ![c].messages = Append(@, b)]
    /\ UNCHANGED attached

\* attachBucketToInvocation and queueInjection: shared with the send barrier.
AttachBucketTo(i, b, c) ==
    /\ buckets' = [buckets EXCEPT ![b].state = "running"]
    /\ attached' = [attached EXCEPT ![i] = @ \cup {b}]
    /\ pending' = [pending EXCEPT ![c].messages = Append(@, b)]

AttachBucket(b) ==
    LET c == buckets[b].conversation IN
    /\ NextDue(b)
    /\ c \notin round \cup closing
    /\ ~BucketSkips(b)
    /\ \E i \in RunningInvocation(c) : AttachBucketTo(i, b, c)
    /\ UNCHANGED <<invocations, injected, receipts, policy, closing, round>>

QueueBucket(b) ==
    LET c == buckets[b].conversation IN
    /\ NextDue(b)
    /\ RunningInvocation(c) = {}
    /\ ~BucketSkips(b)
    /\ buckets' = [buckets EXCEPT ![b].state = "queued"]
    /\ \E i \in InvIds : InsertInvocation(i, b, c)
    /\ UNCHANGED <<injected, receipts, policy, handover>>

\* The block goes on to #launchQueued, or ends.
EndDue ==
    /\ step.at = "due"
    /\ step.buckets = {}
    /\ step' = [Idle EXCEPT !.at = step.then]
    /\ UNCHANGED <<tables, policy, handover>>

-----------------------------------------------------------------------------
(* #launchQueued, first half: suppressInvalidQueuedReceipts, then          *)
(* skipQueuedInvocations while the bot sleeps.                             *)

QueuedInvocations == {i \in InvIds : invocations[i].state = "queued"}

ClaimedBy(i) ==
    {t \in Tasks : receipts[t].state = "claimed" /\ receipts[t].invocation = i}

JoinedTo(I) == UNION {attached[i] \cup {invocations[i].bucket} : i \in I}

\* Claims that no longer hold, and the queued invocations they drop.
InvalidClaims ==
    {t \in Tasks : /\ receipts[t].state = "claimed"
                   /\ receipts[t].invocation \in QueuedInvocations
                   /\ ReceiptCancelled(t)}

DroppedInvocations == {receipts[t].invocation : t \in InvalidClaims}

\* Faulty: sleep skips nothing.
SleepSkipsNone == {}

SleepSkips ==
    IF asleep
    THEN {i \in QueuedInvocations \ DroppedInvocations : ClaimedBy(i) \cap Bypass = {}}
    ELSE {}

VetQueued ==
    /\ step.at = "vet"
    /\ step' = [step EXCEPT !.at = "pick"]
    /\ invocations' = [i \in InvIds |->
          IF i \in DroppedInvocations THEN CloseInvocation(i, "aborted")
          ELSE IF i \in SleepSkips THEN CloseInvocation(i, "skipped_budget")
          ELSE invocations[i]]
    /\ buckets' = [b \in BucketIds |->
          IF b \in JoinedTo(SleepSkips) THEN CloseBucket(b, "skipped_budget")
          ELSE IF b \in JoinedTo(DroppedInvocations) THEN CloseBucket(b, "aborted")
          ELSE buckets[b]]
    /\ receipts' = [t \in Tasks |->
          IF t \in InvalidClaims THEN [receipts[t] EXCEPT !.state = "suppressed"]
          ELSE IF \E i \in SleepSkips : t \in ClaimedBy(i)
               THEN [receipts[t] EXCEPT !.state = "handled"]
          ELSE receipts[t]]
    /\ UNCHANGED <<attached, injected, policy, handover>>

-----------------------------------------------------------------------------
(* releaseUninjectedBuckets: one step per row of the finished invocation.  *)

\* The bucket gets an invocation of its own, which takes over its receipt.
Requeue(b, moved) ==
    /\ buckets' = [buckets EXCEPT ![b].state = "queued"]
    /\ \E j \in InvIds :
          /\ InsertInvocation(j, b, buckets[b].conversation)
          /\ receipts' = [t \in Tasks |->
                IF t \in moved THEN [receipts[t] EXCEPT !.invocation = j] ELSE receipts[t]]

ReleaseBucket(b) ==
    LET mine == {t \in ClaimedBy(step.inv) : receipts[t].bucket = b} IN
    /\ step.at = "release"
    /\ b \in step.buckets
    /\ step' = [step EXCEPT !.buckets = @ \ {b}]
    /\ \/ buckets[b].state = "running" /\ Requeue(b, mine)
       \/ /\ buckets[b].state # "running"
          /\ receipts' = [t \in Tasks |->
                IF t \in mine THEN [receipts[t] EXCEPT !.state = "suppressed"]
                ELSE receipts[t]]
          /\ UNCHANGED <<buckets, invocations, attached>>
    /\ UNCHANGED <<injected, policy, handover>>

=============================================================================

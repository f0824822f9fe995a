--------------------------- MODULE BucketScheduler ---------------------------
(***************************************************************************)
(* The event loop that drives the queue and the runs (BucketScheduler),    *)
(* the operator commands that cut across them (/pause, /resume,            *)
(* /cut_topic, the admin panel's "cancel ongoing", sleep), and a crash     *)
(* followed by recover().                                                  *)
(***************************************************************************)
EXTENDS AgentRun

CONSTANTS
    MaxConcurrency,    \* agent.max_concurrency
    Disturbances,      \* which of the disturbances below happen in a model
    Removable          \* chats and topics that may leave the configuration

DisturbanceKind ==
    {"pause", "cancel", "abort", "sleep", "crash", "persist"}

ASSUME SchedulerAssumptions ==
    /\ MaxConcurrency \in Nat \ {0}
    /\ Disturbances \subseteq DisturbanceKind
    /\ Removable \subseteq Chats \cup Conversations

VARIABLES
    active,            \* BucketScheduler.#active
    woken              \* #execute has woken the loop, which has not resumed yet

vars == <<buckets, invocations, attached, injected, receipts, paused, removed,
          asleep, pending, closing, round, step, run, shown, active, woken>>

TypeOK ==
    /\ QueueTypeOK
    /\ RunTypeOK
    /\ active \in SUBSET InvIds
    /\ woken \in BOOLEAN

Init ==
    /\ QueueInit
    /\ RunInit
    /\ active = {}
    /\ woken = FALSE

\* A settled run's continuation and a woken loop wait in the microtask queue,
\* which is drained before the next timer, Telegram update or HTTP request:
\* until then only other continuations run.
Settled == {c \in Conversations : run[c].phase = "dead"}
Drained == Settled = {} /\ ~woken

-----------------------------------------------------------------------------
(* One iteration of #loop: processTasksDue, processDue, #launchQueued.     *)

Tick ==
    /\ step.at = "idle"
    /\ Settled = {} \/ woken
    /\ woken' = FALSE
    /\ StartTasks("vet")
    /\ UNCHANGED <<tables, policy, handover, runVars, active>>

\* Faulty: sessions are serialized per conversation instead of per chat.
CandidatesPerTopic ==
    {i \in QueuedInvocations :
        /\ buckets[invocations[i].bucket].due
        /\ RunningInvocation(invocations[i].conversation) = {}}

Candidates ==
    {i \in QueuedInvocations :
        /\ buckets[invocations[i].bucket].due
        /\ ChatInvocations(ChatOf[invocations[i].conversation], "running") = {}}

\* Receipts first, then row order.
Launchable(i) ==
    /\ i \in Candidates
    /\ \A j \in Candidates :
          IF ClaimedBy(j) # {} THEN ClaimedBy(i) # {} /\ i <= j
          ELSE ClaimedBy(i) # {} \/ i <= j

\* The invocation and its opening bucket turn running; then the handler runs
\* synchronously to its first await, or throws.
Launch(i) ==
    LET c == invocations[i].conversation IN
    /\ step.at = "pick"
    /\ Cardinality(active) < MaxConcurrency
    /\ Launchable(i)
    /\ invocations' = [invocations EXCEPT ![i].state = "running"]
    /\ buckets' = [buckets EXCEPT ![invocations[i].bucket].state = "running"]
    /\ active' = active \cup {i}
    /\ \/ ChatOf[c] \notin removed /\ OpenRun(i, c)
       \/ FailToOpen(i, c)
    /\ step' = [step EXCEPT !.at = "vet"]
    /\ UNCHANGED <<attached, injected, receipts, policy, pending, closing, shown, woken>>

EndTick ==
    /\ step.at = "pick"
    /\ Cardinality(active) >= MaxConcurrency \/ Candidates = {}
    /\ step' = Idle
    /\ UNCHANGED <<tables, policy, handover, runVars, active, woken>>

-----------------------------------------------------------------------------
(* #execute, once the handler's promise has settled.                       *)

FinalState(c) ==
    IF run[c].outcome = "thrown"
    THEN IF run[c].aborted THEN "aborted" ELSE "failed"
    ELSE run[c].outcome

\* The terminal transaction begins: the invocation row, then the releases.
BeginFinish(c) ==
    LET i == run[c].inv IN
    /\ step.at = "idle"
    /\ run[c].phase = "dead"
    /\ invocations' = [invocations EXCEPT ![i] =
          IF @.state = "running" THEN CloseInvocation(i, FinalState(c)) ELSE @]
    /\ step' = [Idle EXCEPT !.at = "release", !.buckets = Uninjected(i), !.inv = i]
    /\ UNCHANGED <<buckets, attached, injected, receipts, policy, handover, runVars, active, woken>>

\* Faulty: a finished invocation leaves its receipts claimed.
LeaveClaims(i) == receipts

\* The receipts invocation i has claimed are handled with it.
SettleClaims(i) ==
    [t \in Tasks |-> IF t \in ClaimedBy(i) THEN [receipts[t] EXCEPT !.state = "handled"]
                    ELSE receipts[t]]

\* Faulty: the slot of a finished run is not given back.
KeepSlot(i) == UNCHANGED active

\* The run leaves #active, and its slot is free again.
FreeSlot(i) == active' = active \ {i}

\* ... it closes the consumed buckets, moves the chat's collecting deadlines to
\* the later of now and one window after the start, and settles the receipts;
\* the block goes on to processTasksDue and processDue.  The loop is woken.
EndFinish(c, withinWindow) ==
    LET i == step.inv
        k == ChatOf[c]
        state == FinalState(c)
    IN
    /\ step.at = "release"
    /\ step.buckets = {}
    /\ run[c].phase = "dead"
    /\ run[c].inv = i
    /\ buckets' = [b \in BucketIds |->
          IF b \in attached[i] /\ buckets[b].state = "running"
          THEN CloseBucket(b, state)
          ELSE IF withinWindow
          THEN Deferred({v \in Conversations : ChatOf[v] = k})[b]
          ELSE buckets[b]]
    /\ receipts' = SettleClaims(i)
    /\ run' = [run EXCEPT ![c] = NoRun]
    /\ FreeSlot(i)
    /\ woken' = TRUE
    /\ StartTasks("idle")
    /\ UNCHANGED <<invocations, attached, injected, policy, handover, shown>>

\* The terminal transaction throws: nothing is persisted.
FailFinish(c) ==
    /\ "persist" \in Disturbances
    /\ step.at = "idle"
    /\ run[c].phase = "dead"
    /\ run' = [run EXCEPT ![c] = NoRun]
    /\ FreeSlot(run[c].inv)
    /\ woken' = TRUE
    /\ UNCHANGED <<tables, policy, handover, step, shown>>

-----------------------------------------------------------------------------
(* Operator commands                                                       *)

\* The abort signal reaches the active runs of conversations C.
Abort(C) ==
    run' = [c \in Conversations |->
        IF c \in C /\ run[c].inv \in active
        THEN [run[c] EXCEPT !.aborted = TRUE] ELSE run[c]]

\* Faulty: batches attached to a run that has not injected them are forgotten.
UnstartedWaiting(C) ==
    {b \in BucketIds : /\ buckets[b].conversation \in C
                       /\ buckets[b].state \in {"collecting", "queued"}}

\* Faulty: the update carries no condition on the state it overwrites.
UnstartedAny(C) == {b \in BucketIds : buckets[b].conversation \in C}

\* Batches that have not reached a model: waiting, or attached and not injected.
Unstarted(C) ==
    {b \in BucketIds :
        /\ buckets[b].conversation \in C
        /\ \/ buckets[b].state \in {"collecting", "queued"}
           \/ /\ buckets[b].state = "running"
              /\ \E i \in InvIds : /\ invocations[i].state = "running"
                                   /\ b \in Uninjected(i)}

\* Faulty: running invocations are closed as well, under their runs.
UnstartedInvocationsOpen(C) ==
    {i \in InvIds : /\ invocations[i].state \in {"queued", "running"}
                    /\ invocations[i].conversation \in C}

UnstartedInvocations(C) == {i \in QueuedInvocations : invocations[i].conversation \in C}

\* Faulty: the receipts of cancelled invocations stay claimed.
KeepClaims(I) == receipts

SuppressClaims(I) ==
    [t \in Tasks |->
        IF receipts[t].state = "claimed" /\ receipts[t].invocation \in I
        THEN [receipts[t] EXCEPT !.state = "suppressed"] ELSE receipts[t]]

\* Close the database side of everything of conversations C that has not started.
CloseUnstarted(C) ==
    /\ buckets' = [b \in BucketIds |->
          IF b \in Unstarted(C) THEN CloseBucket(b, "expired") ELSE buckets[b]]
    /\ receipts' = SuppressClaims(UnstartedInvocations(C))
    /\ invocations' = [i \in InvIds |->
          IF i \in UnstartedInvocations(C) THEN CloseInvocation(i, "aborted")
          ELSE invocations[i]]

Pause(k) ==
    LET C == {c \in Conversations : ChatOf[c] = k} IN
    /\ "pause" \in Disturbances
    /\ step.at = "idle"
    /\ Drained
    /\ paused' = paused \cup {k}
    /\ CloseUnstarted(C)
    /\ Abort(C)
    /\ UNCHANGED <<attached, injected, removed, asleep, handover, step, shown, active, woken>>

Resume(k) ==
    /\ step.at = "idle"
    /\ Drained
    /\ k \in paused
    /\ paused' = paused \ {k}
    /\ UNCHANGED <<tables, removed, asleep, handover, step, runVars, active, woken>>

\* cancelOngoingSessions, then abortAll.
CancelOngoing ==
    /\ "cancel" \in Disturbances
    /\ step.at = "idle"
    /\ Drained
    /\ CloseUnstarted(Conversations)
    /\ Abort(Conversations)
    /\ UNCHANGED <<attached, injected, policy, handover, step, shown, active, woken>>

\* /cut_topic, as far as the queue sees it; a shutdown aborts the same way.
AbortConversation(c) ==
    /\ "abort" \in Disturbances
    /\ step.at = "idle"
    /\ Drained
    /\ run[c].inv \in active
    /\ Abort({c})
    /\ UNCHANGED <<tables, policy, handover, step, shown, active, woken>>

\* The zzz tool or an admin puts the bot to sleep; it wakes by time or command.
ToggleSleep ==
    /\ "sleep" \in Disturbances
    /\ step.at = "idle"
    /\ Drained
    /\ asleep' = ~asleep
    /\ UNCHANGED <<tables, paused, removed, handover, step, runVars, active, woken>>

-----------------------------------------------------------------------------
(* Crash and restart.  No transaction is half done: a crash inside one is  *)
(* a crash before it.  recover() runs before anything else touches the     *)
(* queue; chats and topics can only leave the configuration at a restart.  *)

BetweenTransactions == step.tasks = {} /\ step.buckets = {} /\ step.at # "release"

\* The state recover() gives a running invocation.
RecoveredInvocation(i) == IF invocations[i].sideEffect THEN "outcome_unknown" ELSE "aborted"

\* Buckets 1..old are older than RECOVERY_MAX_AGE_MS: rows are numbered by age.
Recover(old) ==
    LET claimed == {t \in Tasks : receipts[t].state = "claimed"}
        replayed == {receipts[t].invocation : t \in claimed} \cap QueuedInvocations
        unknown == {i \in InvIds :
                       \/ invocations[i].state = "outcome_unknown"
                       \/ invocations[i].state = "running" /\ invocations[i].sideEffect}
        stale == {b \in 1..old : /\ buckets[b].state \in {"collecting", "queued"}
                                 /\ b \notin JoinedTo(replayed)}
    IN
    /\ invocations' = [i \in InvIds |->
          IF invocations[i].state = "running"
          THEN CloseInvocation(i, RecoveredInvocation(i))
          ELSE IF \/ i \in replayed
                  \/ i \in QueuedInvocations /\ invocations[i].bucket \in stale
          THEN CloseInvocation(i, "aborted")
          ELSE invocations[i]]
    /\ buckets' = [b \in BucketIds |->
          IF b \in JoinedTo(replayed) THEN CloseBucket(b, "aborted")
          ELSE IF buckets[b].state = "running"
          THEN CloseBucket(b, IF \E i \in unknown : b \in attached[i]
                              THEN "outcome_unknown" ELSE "aborted")
          ELSE IF b \in stale THEN CloseBucket(b, "expired")
          ELSE buckets[b]]
    /\ receipts' = [t \in Tasks |->
          IF t \in claimed THEN [receipts[t] EXCEPT !.state = "handled"] ELSE receipts[t]]

CrashAndRestart ==
    /\ "crash" \in Disturbances
    /\ BetweenTransactions
    /\ \E old \in 0..(MaxBatches + Cardinality(Tasks)) : Recover(old)
    /\ removed' \in SUBSET Removable
    /\ pending' = [c \in Conversations |-> NonePending]
    /\ closing' = {}
    /\ round' = {}
    /\ step' = Idle
    /\ run' = [c \in Conversations |-> NoRun]
    /\ active' = {}
    /\ woken' = FALSE
    /\ UNCHANGED <<attached, injected, paused, asleep, shown>>

-----------------------------------------------------------------------------

Arrival ==
    \/ \E c \in Conversations : AppendToBucket(c)
    \/ \E t \in Tasks : FinishTask(t)

QueueStep ==
    \/ \E b \in BucketIds :
          \/ DeferBucket(b) \/ LeaveBucket(b) \/ SkipBucket(b)
          \/ AttachBucket(b) \/ QueueBucket(b) \/ ReleaseBucket(b)
    \/ \E t \in Tasks :
          \/ SuppressReceipt(t) \/ KeepReceipt(t)
          \/ AttachReceipt(t) \/ QueueReceipt(t)
    \/ StartDue
    \/ EndDue
    \/ VetQueued

Next ==
    \/ Arrival /\ Drained /\ UNCHANGED <<runVars, active, woken>>
    \/ \E b \in BucketIds : DeadlinePasses(b) /\ UNCHANGED <<runVars, active, woken>>
    \/ QueueStep /\ UNCHANGED <<runVars, active, woken>>
    \/ \E c \in Conversations : RunStep(c) /\ UNCHANGED <<active, woken>>
    \/ Tick
    \/ \E i \in InvIds : Launch(i)
    \/ EndTick
    \/ \E c \in Conversations : BeginFinish(c) \/ FailFinish(c) \/ AbortConversation(c)
    \/ \E c \in Conversations, w \in BOOLEAN : EndFinish(c, w)
    \/ \E k \in Chats : Pause(k) \/ Resume(k)
    \/ CancelOngoing
    \/ ToggleSleep
    \/ CrashAndRestart

Spec == Init /\ [][Next]_vars

-----------------------------------------------------------------------------
(* Fairness.  A ready continuation, timer or poll of the event loop is     *)
(* eventually run; it is strong because our steps of a synchronous block   *)
(* interrupt the enabledness that the event loop itself never withdraws.   *)
(* A run's steps end: turns are capped and the wall clock aborts the rest. *)

BlockStep ==
    \/ QueueStep /\ UNCHANGED <<runVars, active, woken>>
    \/ \E i \in InvIds : Launch(i)
    \/ EndTick
    \/ \E c \in Conversations, w \in BOOLEAN : EndFinish(c, w)

Fairness ==
    /\ WF_vars(BlockStep)
    /\ SF_vars(Tick)
    /\ \A b \in BucketIds : SF_vars(DeadlinePasses(b) /\ UNCHANGED <<runVars, active, woken>>)
    /\ \A c \in Conversations :
          SF_vars(RunStep(c) /\ UNCHANGED <<active, woken>>) /\ SF_vars(BeginFinish(c))

FairSpec == Spec /\ Fairness

-----------------------------------------------------------------------------
(* Safety                                                                  *)

\* No reference dangles: every row and every run of the program names rows that
\* exist, whatever block is under way (the database has no foreign key from the
\* in-memory side), and a settled run has an outcome for #execute to record.
RowsLinked ==
    /\ \A b \in BucketIds :
          buckets[b].state # "none" => buckets[b].conversation \in Conversations
    /\ \A i \in InvIds :
          invocations[i].state # "none" =>
              /\ invocations[i].conversation \in Conversations
              /\ invocations[i].bucket \in attached[i]
    /\ \A i \in InvIds : \A b \in attached[i] : buckets[b].state # "none"
    /\ \A b \in step.buckets : buckets[b].state # "none"
    /\ \A c \in Conversations :
          /\ run[c].phase # "off" => run[c].inv \in InvIds
          /\ run[c].phase = "dead" => run[c].outcome # "none"

\* Agent sessions are serialized per chat, across its forum topics, whatever
\* the order of ticks, finishing runs and crashes: #launchQueued is the only
\* place that looks, and processDue queues from a query taken once.
OneRunPerChat ==
    \A i, j \in InvIds :
        /\ invocations[i].state = "running"
        /\ invocations[j].state = "running"
        /\ ChatOf[invocations[i].conversation] = ChatOf[invocations[j].conversation]
        => i = j

\* No batch is stranded or run twice: a queued bucket is opened by exactly one
\* invocation, a queued one, and a running bucket belongs to a running
\* invocation.  #attachBucket, the send barrier, the release of un-injected
\* batches, /pause, cancel and recover() must agree on it.
BatchesOwned ==
    /\ \A b \in BucketIds :
          buckets[b].state = "queued" =>
              \E i \in QueuedInvocations : invocations[i].bucket = b
    /\ \A i \in QueuedInvocations : buckets[invocations[i].bucket].state = "queued"
    /\ \A i, j \in InvIds :
          (invocations[i].bucket # 0 /\ invocations[i].bucket = invocations[j].bucket)
              => i = j
    /\ step.at # "release" =>
          \A b \in BucketIds :
             buckets[b].state = "running" =>
                 \E i \in InvIds : invocations[i].state = "running" /\ b \in attached[i]

\* A batch reads completed only if a completed invocation showed it to the
\* model: un-injected batches are released before the rest is closed.
CompletedWasInjected ==
    \A b \in BucketIds :
        buckets[b].state = "completed" =>
            \E i \in InvIds : /\ invocations[i].state = "completed"
                              /\ b \in injected[i]

\* A claimed receipt has a live invocation that will settle it, and its bucket
\* is joined to that invocation: no claim is left hanging by a release, a
\* skip, a pause or a restart.
ClaimsSettle ==
    step.at # "release" =>
        \A t \in Tasks :
            receipts[t].state = "claimed" =>
                LET i == receipts[t].invocation IN
                /\ invocations[i].state \in {"queued", "running"}
                /\ receipts[t].bucket \in attached[i]

\* Every running row has its run in memory and every run its running row, so
\* the row is closed in the end and the chat is not blocked.
RunsMatchRows ==
    step.at # "release" =>
        /\ \A i \in InvIds :
              invocations[i].state = "running" <=>
                  \E c \in Conversations : run[c].phase # "off" /\ run[c].inv = i
        /\ \A i \in InvIds : i \in active <=> invocations[i].state = "running"

\* A receipt's budget exemption covers its own batch only: no message batch is
\* handed to the model while it lasts.
ExemptionOwnsRound ==
    \A c \in Conversations :
        run[c].completion # None =>
            \A n \in DOMAIN run[c].handed :
                run[c].handed[n] = receipts[run[c].completion].bucket

\* /pause takes a chat out of service at once: nothing of it waits any more, and
\* no run that is still winding down puts a batch back in the queue, where it
\* would answer after /resume.
PausedIsQuiet ==
    \A b \in BucketIds :
        buckets[b].state \in {"collecting", "queued"} =>
            ChatOf[buckets[b].conversation] \notin paused

\* While the bot sleeps, no run starts but for a receipt that bypasses the
\* budget: the queue is vetted again before every launch of a tick.
SleepGatesRuns ==
    [][ asleep => \A i \in InvIds :
            (invocations[i].state # "running" /\ invocations'[i].state = "running")
                => ClaimedBy(i) \cap Bypass # {} ]_vars

\* Terminal rows are final: a cancelled, expired or finished batch, invocation
\* or receipt never starts again.  Several UPDATEs behind it carry no guard on
\* the state they overwrite.
ClosedIsFinal ==
    [][ /\ \A b \in BucketIds :
              buckets[b].state \in ClosedState => buckets'[b].state = buckets[b].state
        /\ \A i \in InvIds :
              invocations[i].state \in ClosedState =>
                  invocations'[i].state = invocations[i].state
        /\ \A t \in Tasks :
              receipts[t].state \in {"handled", "suppressed"} =>
                  receipts'[t].state = receipts[t].state ]_vars

\* A batch enters the transcript at most once.
ShownOnce == \A b \in BucketIds : shown[b] <= 1

-----------------------------------------------------------------------------
(* Liveness                                                                *)

\* Every batch is closed in the end: deferrals, closing runs, the idle grace
\* and the per-chat serialization never postpone it for ever.
BatchesClose ==
    \A b \in BucketIds : buckets[b].state \in OpenState ~> buckets[b].state \in ClosedState

\* Every receipt is handled or suppressed in the end.
ReceiptsSettle ==
    \A t \in Tasks :
        receipts[t].state = "pending" ~> receipts[t].state \in {"handled", "suppressed"}

=============================================================================

------------------------------ MODULE AgentRun ------------------------------
(***************************************************************************)
(* One run of the agent for a conversation, AgentRuntime.#runInvocation:   *)
(* the opening batch, the model turns, the injection of batches that       *)
(* arrive meanwhile, the send barrier, the idle grace, and the teardown.   *)
(* The model itself is external: a turn ends with or without tool calls.   *)
(***************************************************************************)
EXTENDS InvocationQueue

CONSTANTS
    TurnsPerInjection, \* agent.rate_limits.turns_per_injection
    IdleGrace,         \* agent.context.idle_grace_seconds > 0
    SendBarrier        \* agent.send_barrier_enabled

ASSUME RunAssumptions ==
    /\ TurnsPerInjection \in Nat \ {0}
    /\ IdleGrace \in BOOLEAN
    /\ SendBarrier \in BOOLEAN

VARIABLES
    run,               \* the run of a conversation, if any
    shown              \* how often a batch entered the transcript (capped at 2)

runVars == <<run, shown>>

Phase == {"off",       \* no run
          "loading",   \* injectBatch awaits the image loader
          "model",     \* a model turn is under way
          "grace",     \* waitForInjection
          "graceOver", \* ... has settled as a timeout, the run not resumed yet
          "ending",    \* the agent loop is over
          "dead"}      \* the promise is settled, #execute not resumed yet

Outcome == {"none", "thrown", "completed", "failed", "aborted", "outcome_unknown"}

Run == [phase : Phase, inv : InvIds \cup {0}, handed : Seq(BucketIds),
        turns : Nat, nudged : BOOLEAN, barrierSpent : BOOLEAN,
        completion : Tasks \cup {None}, granted : BOOLEAN,
        aborted : BOOLEAN, outcome : Outcome]

NoRun == [phase |-> "off", inv |-> 0, handed |-> <<>>, turns |-> 0,
          nudged |-> FALSE, barrierSpent |-> FALSE, completion |-> None,
          granted |-> FALSE, aborted |-> FALSE, outcome |-> "none"]

RunTypeOK ==
    /\ run \in [Conversations -> Run]
    /\ shown \in [BucketIds -> 0..2]

RunInit ==
    /\ run = [c \in Conversations |-> NoRun]
    /\ shown = [b \in BucketIds |-> 0]

-----------------------------------------------------------------------------
(* Queries                                                                 *)

\* Faulty: the receipt is looked up by the invocation alone.
CompletionOfRun(i, b) ==
    IF \E t \in Tasks : receipts[t].invocation = i
    THEN CHOOSE t \in Tasks : receipts[t].invocation = i
    ELSE None

\* LongTaskService.getCompletion: the receipt a batch of invocation i carries.
CompletionOf(i, b) ==
    IF \E t \in Tasks : receipts[t].invocation = i /\ receipts[t].bucket = b
    THEN CHOOSE t \in Tasks : receipts[t].invocation = i /\ receipts[t].bucket = b
    ELSE None

\* The run is subject to sleep: its current batch has no budget exemption.
Sleepy(c) == asleep /\ run[c].completion \notin Bypass

-----------------------------------------------------------------------------
(* Effects shared by the hooks of a run.                                   *)

\* injectBatch, up to the await of the image loader.
InjectBatch(c, batch) ==
    /\ round' = round \cup {c}
    /\ run' = [run EXCEPT ![c].phase = "loading",
                          ![c].handed = batch,
                          ![c].turns = 0,
                          ![c].nudged = FALSE,
                          ![c].completion = CompletionOf(run[c].inv, batch[Len(batch)])]

\* takeNextInjections: all message batches, else one receipt.
Inject(c, includeCompletion) ==
    \/ /\ pending[c].messages # <<>>
       /\ pending' = [pending EXCEPT ![c].messages = <<>>]
       /\ InjectBatch(c, pending[c].messages)
    \/ /\ includeCompletion
       /\ pending[c].messages = <<>>
       /\ pending[c].completions # <<>>
       /\ pending' = [pending EXCEPT ![c].completions = Tail(@)]
       /\ InjectBatch(c, <<Head(pending[c].completions)>>)

\* freeAgent: the round is over and the collecting batch gets a full window.
FreeAgent(c) ==
    /\ round' = round \ {c}
    /\ buckets' = Deferred({c})

\* stop(reason)
Stop(c) ==
    /\ FreeAgent(c)
    /\ closing' = closing \cup {c}
    /\ run' = [run EXCEPT ![c].phase = "ending", ![c].barrierSpent = FALSE]
    /\ UNCHANGED pending

-----------------------------------------------------------------------------
(* Start of a run, in the same synchronous block as its launch.            *)

\* Everything up to the await in the opening injectBatch.
OpenRun(i, c) ==
    LET b == invocations[i].bucket IN
    /\ run' = [run EXCEPT ![c] =
          [NoRun EXCEPT !.phase = "loading", !.inv = i, !.handed = <<b>>,
                        !.completion = CompletionOf(i, b)]]
    /\ round' = round \cup {c}

\* An error before the run's try block: no finally clears the hand-over state.
FailToOpen(i, c) ==
    /\ run' = [run EXCEPT ![c] =
          [NoRun EXCEPT !.phase = "dead", !.inv = i, !.outcome = "thrown"]]
    /\ UNCHANGED round

-----------------------------------------------------------------------------
(* Steps of a run                                                          *)

Live(c, phase) == step.at = "idle" /\ run[c].phase = phase

\* The images are loaded; the batch is prompted or steered.
LoadImages(c) ==
    /\ Live(c, "loading")
    /\ run' = [run EXCEPT ![c].phase = "model"]
    /\ UNCHANGED <<tables, policy, handover, step, shown>>

\* message_end of a user message: persist it, then mark its bucket injected.
MessageEnd(c) ==
    LET b == Head(run[c].handed)
        i == run[c].inv
    IN
    /\ Live(c, "model")
    /\ run[c].handed # <<>>
    /\ shown' = [shown EXCEPT ![b] = IF @ = 2 THEN 2 ELSE @ + 1]
    /\ injected' = [injected EXCEPT ![i] = @ \cup ({b} \cap attached[i])]
    /\ run' = [run EXCEPT ![c].handed = Tail(@)]
    /\ UNCHANGED <<buckets, invocations, attached, receipts, policy, handover, step>>

\* holdForNewMessages: may the barrier hold a send of this run back?
BarrierArmed(c) ==
    /\ SendBarrier
    /\ ~run[c].granted
    /\ c \notin closing
    /\ run[c].completion = None

Sending(c) ==
    /\ Live(c, "model")
    /\ run[c].handed = <<>>
    /\ ~run[c].aborted
    /\ ~Sleepy(c)

\* The collecting batch joins this run, whatever its deadline; the send waits.
HoldSend(c) ==
    /\ Sending(c)
    /\ BarrierArmed(c)
    /\ pending[c].messages = <<>>
    /\ ~run[c].barrierSpent
    /\ \E b \in Collecting(c) : AttachBucketTo(run[c].inv, b, c)
    /\ run' = [run EXCEPT ![c].barrierSpent = TRUE]
    /\ UNCHANGED <<invocations, injected, receipts, policy, closing, round, step, shown>>

\* A send goes out: the invocation is marked before the request.
StartSend(c) ==
    /\ Sending(c)
    /\ BarrierArmed(c) =>
          /\ pending[c].messages = <<>>
          /\ run[c].barrierSpent \/ Collecting(c) = {}
    /\ ~invocations[run[c].inv].sideEffect
    /\ invocations' = [invocations EXCEPT ![run[c].inv].sideEffect = TRUE]
    /\ UNCHANGED <<buckets, attached, injected, receipts, policy, handover, step, runVars>>

-----------------------------------------------------------------------------
(* The turn boundary, shouldStopAfterTurn.  The disjuncts follow its       *)
(* order: sleep or budget, context limit, turn budget, nudge, end of a     *)
(* receipt's round, injection, end of the round.                           *)

TurnEnd(c) == Live(c, "model") /\ run[c].handed = <<>>

\* Sleep, or the daily budget is spent (an input here).
StopForSleepOrBudget(c) ==
    /\ TurnEnd(c)
    /\ run[c].completion \notin Bypass
    /\ Stop(c)
    /\ UNCHANGED <<invocations, attached, injected, receipts, policy, step, shown>>

\* prepareNextTurn found the context nearly full: one closing turn, which does
\* not happen when the turn called no tools and the agent loop ends by itself.
GrantClosingTurn(c) ==
    /\ TurnEnd(c)
    /\ ~Sleepy(c)
    /\ ~run[c].granted
    /\ closing' = closing \cup {c}
    /\ \E phase \in {"model", "ending"} :
          run' = [run EXCEPT ![c].phase = phase, ![c].granted = TRUE,
                             ![c].turns = @ + 1]
    /\ UNCHANGED <<tables, policy, pending, round, step, shown>>

StopForContextOrTurns(c) ==
    /\ TurnEnd(c)
    /\ ~Sleepy(c)
    /\ run[c].granted \/ run[c].turns + 1 >= TurnsPerInjection
    /\ Stop(c)
    /\ UNCHANGED <<invocations, attached, injected, receipts, policy, step, shown>>

\* None of the stops applies.
MayContinue(c) ==
    /\ TurnEnd(c)
    /\ ~Sleepy(c)
    /\ ~run[c].granted
    /\ run[c].turns + 1 < TurnsPerInjection

\* A draft without a send: one reminder per batch, and the round goes on.
Nudge(c) ==
    /\ MayContinue(c)
    /\ ~run[c].nudged
    /\ run' = [run EXCEPT ![c].nudged = TRUE, ![c].turns = @ + 1]
    /\ UNCHANGED <<tables, policy, handover, step, shown>>

\* The turn called tools and the receipt's round, if any, goes on.
ContinueTools(c) ==
    /\ MayContinue(c)
    /\ run[c].completion # None \/ pending[c].messages = <<>>
    /\ run' = [run EXCEPT ![c].turns = @ + 1]
    /\ UNCHANGED <<tables, policy, handover, step, shown>>

InjectBetweenTools(c) ==
    /\ MayContinue(c)
    /\ run[c].completion = None
    /\ Inject(c, FALSE)
    /\ UNCHANGED <<tables, policy, closing, step, shown>>

\* A receipt's round ends while the bot sleeps or has no budget left.
StopAfterReceipt(c) ==
    /\ MayContinue(c)
    /\ run[c].completion # None
    /\ Stop(c)
    /\ UNCHANGED <<invocations, attached, injected, receipts, policy, step, shown>>

\* No tool calls (finishCompletion included), and batches wait.
InjectAfterRound(c) ==
    /\ MayContinue(c)
    /\ ~asleep
    /\ Inject(c, TRUE)
    /\ UNCHANGED <<tables, policy, closing, step, shown>>

\* No tool calls and nothing waits: the agent is free.
EndRound(c) ==
    /\ MayContinue(c)
    /\ ~asleep
    /\ pending[c] = NonePending
    /\ FreeAgent(c)
    /\ \/ /\ IdleGrace
          /\ run' = [run EXCEPT ![c].phase = "grace", ![c].completion = None,
                                ![c].barrierSpent = FALSE, ![c].turns = @ + 1]
          /\ UNCHANGED closing
       \/ /\ ~IdleGrace
          /\ run' = [run EXCEPT ![c].phase = "ending", ![c].completion = None,
                                ![c].barrierSpent = FALSE]
          /\ closing' = closing \cup {c}
    /\ UNCHANGED <<invocations, attached, injected, receipts, policy, pending, step, shown>>

-----------------------------------------------------------------------------
(* waitForInjection                                                        *)

GraceWakes(c) ==
    /\ Live(c, "grace")
    /\ Inject(c, TRUE)
    /\ UNCHANGED <<tables, policy, closing, step, shown>>

GraceTimesOut(c) ==
    /\ Live(c, "grace")
    /\ pending[c] = NonePending
    /\ run' = [run EXCEPT ![c].phase = "graceOver"]
    /\ UNCHANGED <<tables, policy, handover, step, shown>>

\* The run resumes from its wait and marks itself closing.
EndAfterGrace(c) ==
    /\ Live(c, "graceOver")
    /\ closing' = closing \cup {c}
    /\ run' = [run EXCEPT ![c].phase = "ending"]
    /\ UNCHANGED <<tables, policy, pending, round, step, shown>>

\* The deadline has passed at a boundary that neither stopped nor injected.
StopForWallClock(c) ==
    /\ \/ Live(c, "graceOver")
       \/ /\ MayContinue(c)
          /\ run[c].completion # None \/ pending[c].messages = <<>>
    /\ Stop(c)
    /\ UNCHANGED <<invocations, attached, injected, receipts, policy, step, shown>>

-----------------------------------------------------------------------------
(* The end of a run.                                                       *)

\* The wall clock limit of a run aborts it like the scheduler does.
AbortForWallClock(c) ==
    /\ step.at = "idle"
    /\ run[c].phase \in {"loading", "model", "grace"}
    /\ ~run[c].aborted
    /\ run' = [run EXCEPT ![c].aborted = TRUE]
    /\ UNCHANGED <<tables, policy, handover, step, shown>>

\* The outcomes the run can report from its present state.  An aborted run whose
\* model was prompted may have left a send or an MCP call with unknown outcome.
Outcomes(c) ==
    LET i == run[c].inv IN
    IF run[c].aborted
    THEN {"aborted"} \cup
         (IF invocations[i].bucket \in injected[i] THEN {"outcome_unknown"} ELSE {})
    ELSE IF run[c].phase = "ending" THEN {"completed"}
    ELSE IF run[c].phase \in {"loading", "model"} THEN {"failed", "thrown"}
    ELSE {}

\* Faulty: what was attached and not injected stays for the next run.
KeepPending(c) == pending

\* takeInjections
DropPending(c) == [pending EXCEPT ![c] = NonePending]

\* The finally block: drop the hand-over state; the promise settles.
RunFinally(c) ==
    /\ step.at = "idle"
    /\ run[c].phase \in {"loading", "model", "grace", "graceOver", "ending"}
    /\ \E o \in Outcomes(c) :
          run' = [run EXCEPT ![c] =
              [NoRun EXCEPT !.phase = "dead", !.inv = run[c].inv,
                            !.aborted = run[c].aborted, !.outcome = o]]
    /\ pending' = DropPending(c)
    /\ closing' = closing \ {c}
    /\ round' = round \ {c}
    /\ UNCHANGED <<tables, policy, step, shown>>

RunStep(c) ==
    \/ LoadImages(c)
    \/ MessageEnd(c)
    \/ HoldSend(c)
    \/ StartSend(c)
    \/ StopForSleepOrBudget(c)
    \/ GrantClosingTurn(c)
    \/ StopForContextOrTurns(c)
    \/ Nudge(c)
    \/ ContinueTools(c)
    \/ InjectBetweenTools(c)
    \/ StopAfterReceipt(c)
    \/ InjectAfterRound(c)
    \/ EndRound(c)
    \/ GraceWakes(c)
    \/ GraceTimesOut(c)
    \/ EndAfterGrace(c)
    \/ StopForWallClock(c)
    \/ AbortForWallClock(c)
    \/ RunFinally(c)

=============================================================================

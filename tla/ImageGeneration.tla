--------------------------- MODULE ImageGeneration ---------------------------
(***************************************************************************)
(* Image generation: the generation service and the durable worker of      *)
(* packages/image-service, and the bridge of src/image that ties one       *)
(* generation to one long task of a conversation.                          *)
(*                                                                         *)
(* The database (gen, attempts, outputs, keys, task) survives a crash; the *)
(* rest is the memory of one process.  The program is single threaded, so  *)
(* a step here is what runs between two awaits.  Where such a stretch      *)
(* holds several autocommitted statements it is cut at each of them, and   *)
(* Free keeps every other handler out while it is under way: only a crash  *)
(* can come between.                                                       *)
(***************************************************************************)
EXTENDS Integers, Sequences, FiniteSets

CONSTANTS
    MaxGenerations,    \* bound: rows of image_generations
    OutputCount,       \* snapshot.authored.outputCount, the items of a round
    Concurrency,       \* permits of the worker's semaphore
    Invocations,       \* invocations whose agent calls image_generate
    MaxPerInvocation,  \* MAX_PER_INVOCATION of the bridge
    Keys,              \* idempotency keys of one actor
    MaxRound,          \* bound: rounds of one generation
    MaxRestarts,       \* bound: exits of the process
    MaxPublishes       \* bound: configuration publishes after startup

ASSUME ImageAssumption ==
    /\ {MaxGenerations, OutputCount, Concurrency, MaxPerInvocation, MaxRound} \subseteq Nat \ {0}
    /\ {MaxRestarts, MaxPublishes} \subseteq Nat
    /\ {"admin", "nobody"} \cap Invocations = {}

VARIABLES
    gen,         \* image_generations: [status, round, by]; by "nobody" before creation
    attempts,    \* image_generation_attempts: status per generation, round, item
    outputs,     \* image_assets of source 'generation': [gen, round, item]
    keys,        \* image_idempotency_keys: [op, key, gen]
    task,        \* the image rows of long_tasks: [state, told], told in the receipt
    calls,       \* history: provider calls per generation, round, item
    phase,       \* life of the process
    config,      \* the published snapshot: none, without the model, with it
    queue,       \* GenerationWorker.queue (the set `queued` has its elements)
    pump,        \* where pump() stands
    current,     \* the generation and round runGeneration works on
    item,        \* where runItem stands, per item of that round
    permits,     \* Semaphore.permits
    waiters,     \* Semaphore.waiters
    affected,    \* recoverInterrupted: generations still to recompute
    submitting,  \* bridge.submit between create and tasks.create, 0 when not
    restarts,
    publishes

database == <<gen, attempts, outputs, keys, task, calls>>
semaphore == <<permits, waiters>>
worker == <<queue, pump, current, item, semaphore>>
process == <<phase, config, affected, submitting, restarts, publishes>>
vars == <<database, worker, process>>

Gens == 1..MaxGenerations
Items == 1..OutputCount
Rounds == 1..MaxRound
NoRound == [gen |-> 0, round |-> 1]

Settled == {"succeeded", "partial", "failed", "interrupted"}
ItemOutcomes == {"succeeded", "failed", "interrupted"}
AttemptStatus == {"none", "running"} \cup ItemOutcomes
ItemSteps == {"idle", "waiting", "granted", "calling", "image", "done"} \cup ItemOutcomes

Generation == [status : {"queued", "running"} \cup Settled, round : Rounds,
               by : Invocations \cup {"admin", "nobody"}]

Output == [gen : Gens, round : Rounds, item : Items]

IdempotencyKey == [op : {"create", "retry"}, key : Keys, gen : Gens]

Task == [state : {"none", "waiting", "completed", "failed"},
         told : {"none", "queued", "running"} \cup Settled]

Exists(g) == gen[g].by # "nobody"

\* Rows and memory have their types.
TypeOK ==
    /\ gen \in [Gens -> Generation]
    /\ attempts \in [Gens -> [Rounds -> [Items -> AttemptStatus]]]
    /\ outputs \subseteq Output
    /\ keys \subseteq IdempotencyKey
    /\ task \in [Gens -> Task]
    /\ calls \in [Gens -> [Rounds -> [Items -> Nat]]]
    /\ phase \in {"down", "recovering", "recomputing", "loading", "starting", "up", "stopping"}
    /\ config \in {"none", "without", "with"}
    /\ queue \in Seq(Gens)
    /\ pump \in {"idle", "called", "refused", "awaiting", "resumed"}
    /\ current \in [gen : Gens \cup {0}, round : Rounds]
    /\ item \in [Items -> ItemSteps]
    /\ permits \in 0..Concurrency
    /\ waiters \in Seq(Items)
    /\ affected \subseteq Gens
    /\ submitting \in Gens \cup {0}
    /\ restarts \in 0..MaxRestarts
    /\ publishes \in 0..MaxPublishes

-----------------------------------------------------------------------------
(* The verdict of a round.                                                 *)

ComputeStatus(statuses) ==
    IF "running" \in statuses THEN "running"
    ELSE IF statuses = {"succeeded"} THEN "succeeded"
    ELSE IF "succeeded" \in statuses THEN "partial"
    ELSE IF "interrupted" \in statuses THEN "interrupted"
    ELSE "failed"

Recorded(round) == {i \in Items : round[i] # "none"}

\* An item without an attempt was never sent, and counts as interrupted; a
\* round without any attempt can be resumed.
RoundVerdict(round) ==
    LET status == ComputeStatus({round[i] : i \in Recorded(round)})
    IN  IF Recorded(round) = {} THEN "queued"
        ELSE IF Recorded(round) = Items THEN status
        ELSE IF status = "succeeded" THEN "partial"
        ELSE IF status = "failed" THEN "interrupted"
        ELSE status

-----------------------------------------------------------------------------
Init ==
    /\ gen = [g \in Gens |-> [status |-> "queued", round |-> 1, by |-> "nobody"]]
    /\ attempts = [g \in Gens |-> [r \in Rounds |-> [i \in Items |-> "none"]]]
    /\ outputs = {} /\ keys = {}
    /\ task = [g \in Gens |-> [state |-> "none", told |-> "none"]]
    /\ calls = [g \in Gens |-> [r \in Rounds |-> [i \in Items |-> 0]]]
    /\ phase = "down" /\ config = "none"
    /\ queue = <<>> /\ pump = "idle"
    /\ current = NoRound
    /\ item = [i \in Items |-> "idle"]
    /\ permits = Concurrency /\ waiters = <<>>
    /\ affected = {} /\ submitting = 0
    /\ restarts = 0 /\ publishes = 0

\* No handler is in the middle of a synchronous stretch.
Free == submitting = 0 /\ pump \notin {"called", "refused"}

\* The worker accepts work: started and not stopping.
Started == phase \in {"loading", "starting", "up"}

\* pump() called from enqueue or from wake: only one loop runs at a time.
Pumped == IF pump = "idle" THEN "called" ELSE pump

\* enqueue, which pumps at once.
Enqueue(g) ==
    /\ queue' = IF \E n \in DOMAIN queue : queue[n] = g THEN queue ELSE Append(queue, g)
    /\ pump' = Pumped

-----------------------------------------------------------------------------
(* Startup: recovery, configuration, bridge.                               *)

StartWorker ==
    /\ phase = "down"
    /\ phase' = "recovering"
    /\ UNCHANGED <<database, worker, config, affected, submitting, restarts, publishes>>

\* Faulty: all attempts of a running generation are interrupted.
RecoverAllAttempts(g, r, i) ==
    /\ phase = "recovering"
    /\ gen[g].status = "running"
    /\ attempts[g][r][i] \in {"running", "succeeded", "failed"}
    /\ attempts' = [attempts EXCEPT ![g][r][i] = "interrupted"]
    /\ affected' = affected \cup {g}
    /\ UNCHANGED <<gen, outputs, keys, task, calls, worker, phase, config, submitting,
                   restarts, publishes>>

\* The first loop of recoverInterrupted: attempts that were in flight.
RecoverAttempt(g, r, i) ==
    /\ phase = "recovering"
    /\ attempts[g][r][i] = "running"
    /\ attempts' = [attempts EXCEPT ![g][r][i] = "interrupted"]
    /\ affected' = affected \cup {g}
    /\ UNCHANGED <<gen, outputs, keys, task, calls, worker, phase, config, submitting,
                   restarts, publishes>>

\* Faulty: only generations with an interrupted attempt are recomputed.
ListAffected ==
    /\ phase = "recovering"
    /\ \A g \in Gens, r \in Rounds, i \in Items : attempts[g][r][i] # "running"
    /\ phase' = "recomputing"
    /\ UNCHANGED <<database, worker, config, affected, submitting, restarts, publishes>>

\* ... and every generation that claims to be running.
ListClaimed ==
    /\ phase = "recovering"
    /\ \A g \in Gens, r \in Rounds, i \in Items : attempts[g][r][i] # "running"
    /\ phase' = "recomputing"
    /\ affected' = affected \cup {g \in Gens : Exists(g) /\ gen[g].status = "running"}
    /\ UNCHANGED <<database, worker, config, submitting, restarts, publishes>>

RecomputeGeneration(g) ==
    /\ phase = "recomputing"
    /\ g \in affected
    /\ gen' = [gen EXCEPT ![g].status = RoundVerdict(attempts[g][gen[g].round])]
    /\ affected' = affected \ {g}
    /\ UNCHANGED <<attempts, outputs, keys, task, calls, worker, phase, config, submitting,
                   restarts, publishes>>

\* Faulty: queued work is left in the database.
ResumeNothing ==
    /\ phase = "recomputing"
    /\ affected = {}
    /\ phase' = "loading"
    /\ UNCHANGED <<database, worker, config, affected, submitting, restarts, publishes>>

\* Every resumable generation, the oldest first.
Resumable == {g \in Gens : Exists(g) /\ gen[g].status = "queued"}

InOrder(list) ==
    /\ \A i, j \in DOMAIN list : i < j => list[i] < list[j]
    /\ \A g \in Resumable : \E i \in DOMAIN list : list[i] = g

\* start() enqueues what is queued, oldest first; no configuration is
\* published yet, so each pump() returns at once.
ResumeQueued ==
    /\ phase = "recomputing"
    /\ affected = {}
    /\ phase' = "loading"
    /\ \E n \in 0..MaxGenerations :
           queue' \in {list \in [1..n -> Resumable] : InOrder(list)}
    /\ UNCHANGED <<database, pump, current, item, semaphore, config, affected, submitting,
                   restarts, publishes>>

\* serve() publishes the image section, or finds none or an unusable one.
StartupPublish(c) ==
    /\ phase = "loading"
    /\ phase' = "starting"
    /\ config' = c
    /\ pump' = Pumped
    /\ UNCHANGED <<database, queue, current, item, semaphore, affected, submitting,
                   restarts, publishes>>

\* reconcileOne, called for g: the waiting task of g gets its receipt.
ReconcileOne(g, t, row) ==
    IF t.state # "waiting" THEN t
    ELSE IF row.status \in {"succeeded", "partial"} /\ \A o \in outputs : o.gen # g
    THEN [state |-> "failed", told |-> row.status]
    ELSE [state |-> "completed", told |-> row.status]

\* createImageBridge subscribes to onFinished, then reconcile().
OpenBridge ==
    /\ phase = "starting" /\ Free
    /\ phase' = "up"
    /\ task' = [g \in Gens |-> ReconcileOne(g, task[g], gen[g])]
    /\ UNCHANGED <<gen, attempts, outputs, keys, calls, worker, config, affected, submitting,
                   restarts, publishes>>

-----------------------------------------------------------------------------
(* Requests.                                                               *)

\* Keys belong to an actor: the panel's user, or the agent of the conversation
\* all Invocations are of.
Used(k, actor) ==
    \E e \in keys : /\ e.op = "create" /\ e.key = k
                   /\ (gen[e.gen].by = "admin") = (actor = "admin")

\* create: a key of this actor that is known is answered with its old
\* generation; else the model must be in the snapshot.
CreateGeneration(g, k, actor) ==
    /\ phase = "up" /\ Free
    /\ config = "with"
    /\ ~Exists(g) /\ \A h \in 1..(g - 1) : Exists(h)
    /\ ~Used(k, actor)
    /\ gen' = [gen EXCEPT ![g].by = actor]
    /\ keys' = keys \cup {[op |-> "create", key |-> k, gen |-> g]}
    /\ Enqueue(g)
    /\ UNCHANGED <<attempts, outputs, task, calls, current, item, semaphore,
                   phase, config, affected, restarts, publishes>>

AdminCreate(g, k) ==
    /\ CreateGeneration(g, k, "admin")
    /\ UNCHANGED submitting

\* bridge.submit for an image_generate call k of invocation v.
Submit(g, k, v) ==
    /\ CreateGeneration(g, k, v)
    /\ submitting' = g

\* The pump that create() started has reached its first await by now; then
\* tasks.create counts the tasks of the invocation and may refuse.
SubmitTask ==
    /\ submitting # 0 /\ pump \notin {"called", "refused"}
    /\ submitting' = 0
    /\ LET mine == {g \in Gens : gen[g].by = gen[submitting].by /\ task[g].state # "none"}
       IN  task' = IF Cardinality(mine) >= MaxPerInvocation THEN task
                   ELSE [task EXCEPT ![submitting].state = "waiting"]
    /\ UNCHANGED <<gen, attempts, outputs, keys, calls, worker, phase, config, affected,
                   restarts, publishes>>

\* retry, from the panel: a known key replays, a queued or running
\* generation and a missing credential are refused.
Retry(g, k) ==
    /\ phase = "up" /\ Free
    /\ Exists(g) /\ gen[g].status \in Settled
    /\ \A e \in keys : ~(e.op = "retry" /\ e.key = k)
    /\ config = "with"
    /\ gen[g].round < MaxRound
    /\ gen' = [gen EXCEPT ![g].status = "queued", ![g].round = @ + 1]
    /\ keys' = keys \cup {[op |-> "retry", key |-> k, gen |-> g]}
    /\ Enqueue(g)
    /\ UNCHANGED <<attempts, outputs, task, calls, current, item, semaphore, process>>

\* Faulty: a publish does not wake the worker.
PublishSilently(c) ==
    /\ phase = "up" /\ Free
    /\ publishes < MaxPublishes
    /\ publishes' = publishes + 1
    /\ config' = c
    /\ UNCHANGED <<database, worker, phase, affected, submitting, restarts>>

\* A reload republishes the image section; every publish wakes the worker.
Publish(c) ==
    /\ phase = "up" /\ Free
    /\ publishes < MaxPublishes
    /\ publishes' = publishes + 1
    /\ config' = c
    /\ pump' = Pumped
    /\ UNCHANGED <<database, queue, current, item, semaphore, phase, affected, submitting,
                   restarts>>

-----------------------------------------------------------------------------
(* The worker.                                                             *)

PumpRuns == pump = "called" \/ (pump = "resumed" /\ Free)

\* The loop of pump() ends: stopping, no configuration, or nothing queued.
PumpStops ==
    /\ PumpRuns
    /\ ~Started \/ config = "none" \/ queue = <<>>
    /\ pump' = "idle"
    /\ UNCHANGED <<database, queue, current, item, semaphore, process>>

\* Semaphore.acquire by every runItem of the round, in order.
AcquireAll ==
    /\ item' = [i \in Items |-> IF i <= permits THEN "granted" ELSE "waiting"]
    /\ waiters' = [n \in 1..(OutputCount - permits) |-> n + permits]
    /\ permits' = IF OutputCount < permits THEN permits - OutputCount ELSE 0

\* runGeneration up to its first await: claim the row, resolve the
\* credential once, start every item.
RunGeneration ==
    /\ PumpRuns
    /\ Started /\ config # "none" /\ queue # <<>>
    /\ LET g == Head(queue)
       IN  /\ queue' = Tail(queue)
           /\ IF gen[g].status # "queued"
              THEN pump' = "resumed" /\ UNCHANGED <<gen, current, item, semaphore>>
              ELSE /\ gen' = [gen EXCEPT ![g].status = "running"]
                   /\ current' = [gen |-> g, round |-> gen[g].round]
                   /\ IF config = "with"
                      THEN pump' = "awaiting" /\ AcquireAll
                      ELSE pump' = "refused" /\ UNCHANGED <<item, semaphore>>
    /\ UNCHANGED <<attempts, outputs, keys, task, calls, process>>

\* finalize, once the items are done: the verdict, and the bridge's listener.
Finalize(g, round) ==
    LET verdict == RoundVerdict(attempts[g][round])
        row == [gen[g] EXCEPT !.status = verdict]
    IN  /\ IF gen[g].status = "running"
           THEN /\ gen' = [gen EXCEPT ![g] = row]
                /\ task' = IF verdict \in Settled /\ phase = "up"
                           THEN [task EXCEPT ![g] = ReconcileOne(g, @, row)]
                           ELSE task
           ELSE UNCHANGED <<gen, task>>
        /\ current' = NoRound

\* recordCredentialFailure for the next item, then finalize.
RefuseItem ==
    /\ pump = "refused"
    /\ LET open == Items \ Recorded(attempts[current.gen][current.round])
       IN  IF open # {}
           THEN /\ attempts' = [attempts EXCEPT ![current.gen][current.round]
                                 [CHOOSE i \in open : \A j \in open : i <= j] = "failed"]
                /\ UNCHANGED <<gen, task, current, pump>>
           ELSE /\ Finalize(current.gen, current.round)
                /\ pump' = "resumed"
                /\ UNCHANGED attempts
    /\ UNCHANGED <<outputs, keys, calls, queue, item, semaphore, process>>

\* Semaphore.release: the permit goes to the first waiter, or back.
ReleaseFrom(i, step) ==
    IF waiters # <<>>
    THEN /\ item' = [item EXCEPT ![i] = step, ![Head(waiters)] = "granted"]
         /\ waiters' = Tail(waiters)
         /\ UNCHANGED permits
    ELSE /\ item' = [item EXCEPT ![i] = step]
         /\ permits' = permits + 1
         /\ UNCHANGED waiters

\* runItem after acquire: nothing is sent once the worker stops.
SkipItem(i) ==
    /\ Free /\ item[i] = "granted"
    /\ phase = "stopping"
    /\ ReleaseFrom(i, "done")
    /\ UNCHANGED <<database, queue, pump, current, process>>

\* The attempt is recorded before the provider is called; the unique index
\* refuses a second attempt, and an input image that cannot be read fails the
\* item without a call.
StartItem(i, readable) ==
    /\ Free /\ item[i] = "granted"
    /\ phase # "stopping"
    /\ IF attempts[current.gen][current.round][i] # "none"
       THEN ReleaseFrom(i, "done") /\ UNCHANGED <<attempts, calls>>
       ELSE /\ attempts' = [attempts EXCEPT ![current.gen][current.round][i] = "running"]
            /\ item' = [item EXCEPT ![i] = IF readable THEN "calling" ELSE "failed"]
            /\ calls' = IF readable
                        THEN [calls EXCEPT ![current.gen][current.round][i] = @ + 1]
                        ELSE calls
            /\ UNCHANGED semaphore
    /\ UNCHANGED <<gen, outputs, keys, task, queue, pump, current, process>>

\* The provider answers, fails, times out or is aborted by stop().
ProviderAnswers(i, answer) ==
    /\ Free /\ item[i] = "calling"
    /\ item' = [item EXCEPT ![i] = answer]
    /\ UNCHANGED <<database, queue, pump, current, semaphore, process>>

\* storeOutput: the picture is verified, written and persisted, or refused.
StoreOutput(i, stored) ==
    /\ Free /\ item[i] = "image"
    /\ outputs' = IF stored
                  THEN outputs \cup {[gen |-> current.gen, round |-> current.round, item |-> i]}
                  ELSE outputs
    /\ item' = [item EXCEPT ![i] = IF stored THEN "succeeded" ELSE "failed"]
    /\ UNCHANGED <<gen, attempts, keys, task, calls, queue, pump, current, semaphore, process>>

\* runItem records the outcome and gives its permit back.
RecordAttempt(i) ==
    /\ Free /\ item[i] \in ItemOutcomes
    /\ attempts' = [attempts EXCEPT ![current.gen][current.round][i] = item[i]]
    /\ ReleaseFrom(i, "done")
    /\ UNCHANGED <<gen, outputs, keys, task, calls, queue, pump, current, process>>

FinishRound ==
    /\ Free /\ pump = "awaiting"
    /\ \A i \in Items : item[i] = "done"
    /\ Finalize(current.gen, current.round)
    /\ item' = [i \in Items |-> "idle"]
    /\ pump' = "resumed"
    /\ UNCHANGED <<attempts, outputs, keys, calls, queue, semaphore, process>>

-----------------------------------------------------------------------------
(* The end of the process.                                                 *)

\* Shutdown: the bridge unsubscribes, the worker drops its queue and aborts
\* the calls in flight.
Stop ==
    /\ phase \in {"starting", "up"} /\ Free
    /\ phase' = "stopping"
    /\ queue' = <<>>
    /\ UNCHANGED <<database, pump, current, item, semaphore, config, affected, submitting,
                   restarts, publishes>>

\* A crash, the end of a stop, or its 30 s running out: memory is gone.
Exit ==
    /\ phase # "down"
    /\ restarts < MaxRestarts
    /\ restarts' = restarts + 1
    /\ phase' = "down" /\ config' = "none"
    /\ queue' = <<>> /\ pump' = "idle" /\ current' = NoRound
    /\ item' = [i \in Items |-> "idle"]
    /\ permits' = Concurrency /\ waiters' = <<>>
    /\ affected' = {} /\ submitting' = 0
    /\ UNCHANGED <<database, publishes>>

Recover ==
    \/ ListClaimed
    \/ \E g \in Gens : RecomputeGeneration(g) \/ \E r \in Rounds, i \in Items : RecoverAttempt(g, r, i)
    \/ ResumeQueued

StepItem(i) ==
    \/ SkipItem(i)
    \/ \E readable \in BOOLEAN : StartItem(i, readable)
    \/ \E answer \in {"image", "failed", "interrupted"} : ProviderAnswers(i, answer)
    \/ \E stored \in BOOLEAN : StoreOutput(i, stored)
    \/ RecordAttempt(i)

Work == SubmitTask \/ PumpStops \/ RunGeneration \/ RefuseItem \/ FinishRound
        \/ \E i \in Items : StepItem(i)

Next ==
    \/ StartWorker \/ Recover \/ OpenBridge \/ Work \/ Stop \/ Exit
    \/ \E c \in {"none", "without", "with"} : StartupPublish(c) \/ Publish(c)
    \/ \E g \in Gens, k \in Keys :
         \/ AdminCreate(g, k)
         \/ Retry(g, k)
         \/ \E v \in Invocations : Submit(g, k, v)

Spec == Init /\ [][Next]_vars

\* A supervisor starts the process again, synchronous code and microtasks
\* run, every provider call ends by its 120 s timeout.
FairSpec ==
    /\ Spec
    /\ WF_vars(StartWorker) /\ WF_vars(Recover) /\ WF_vars(OpenBridge)
    /\ WF_vars(\E c \in {"none", "without", "with"} : StartupPublish(c))
    /\ WF_vars(SubmitTask \/ PumpStops \/ RunGeneration \/ RefuseItem \/ FinishRound)
    /\ \A i \in Items : WF_vars(StepItem(i))

-----------------------------------------------------------------------------
(* Properties.                                                             *)

RoundOf(g) == attempts[g][gen[g].round]

\* "One upstream call per output item per round, no implicit retries": an item
\* is sent at most once in a round, and in no more rounds than there were
\* accepted requests (create and retry keys), whatever crashes.
CallsRequested ==
    \A g \in Gens, i \in Items :
        /\ \A r \in Rounds : calls[g][r][i] <= 1
        /\ Cardinality({r \in Rounds : calls[g][r][i] > 0})
             <= Cardinality({e \in keys : e.gen = g})

\* roundVerdict: a queued round has sent nothing, so running it later (after a
\* stop, a crash, a missing configuration) repeats no paid call.
QueuedIsUnsent ==
    \A g \in Gens : gen[g].status = "queued" =>
        \A i \in Items : RoundOf(g)[i] = "none" /\ calls[g][gen[g].round][i] = 0

\* The status a settled generation shows is the truth about its last round:
\* succeeded means every picture is stored, partial means some and not all
\* attempts delivered, failed means that no item is in doubt.
HonestVerdict ==
    \A g \in Gens :
        LET status == gen[g].status
            done == {i \in Items : RoundOf(g)[i] = "succeeded"}
        IN  /\ status = "succeeded" => done = Items
            /\ status = "partial" => done \notin {{}, Items}
            /\ status = "interrupted" =>
                 done = {} /\ \E i \in Items : RoundOf(g)[i] # "failed"
            /\ status = "failed" => \A i \in Items : RoundOf(g)[i] = "failed"
            /\ \A i \in done : [gen |-> g, round |-> gen[g].round, item |-> i] \in outputs

\* A paid call is made when it was asked for, and once, and what the round is
\* said to have brought is what the calls brought.
CallsArePaidOnce == TypeOK /\ CallsRequested /\ QueuedIsUnsent /\ HonestVerdict

\* Wake-up is event driven and nothing polls: while the worker accepts work,
\* every queued generation is in its queue, and a queue that could be served
\* has a pump.
QueuedIsWoken ==
    Started /\ Free =>
        /\ \A g \in Gens : Exists(g) /\ gen[g].status = "queued" =>
              \E n \in DOMAIN queue : queue[n] = g
        /\ queue # <<>> /\ config # "none" => pump # "idle"

\* recoverInterrupted leaves no generation running that nobody runs, also when
\* an earlier recovery was cut short.
NoStrandedRound ==
    phase \in {"loading", "starting", "up", "stopping"} =>
        \A g \in Gens : gen[g].status = "running" => current.gen = g

\* While the bridge is there, the long task of a generation does not wait once
\* the generation has settled: settled before the bridge, during a stop, or at
\* the moment of the submission.
WaitingIsUnsettled ==
    phase = "up" /\ Free =>
        \A g \in Gens : task[g].state = "waiting" => gen[g].status \notin Settled

\* Nothing that could go on is forgotten, on either side of the bridge.
NoLostWakeup == QueuedIsWoken /\ WaitingIsUnsettled

\* The permits of the semaphore and the items that hold one add up, on every
\* path out of runItem.
PermitsHeld ==
    permits + Cardinality({i \in Items : item[i] \notin {"idle", "waiting", "done"}})
      = Concurrency

\* No round and no permit is left to nobody.
NothingStranded == NoStrandedRound /\ PermitsHeld

\* What a generation was asked, paid and said to bring, and what it holds.
GenerationsKeepFaith == CallsArePaidOnce /\ NothingStranded

\* What a round has established stays: its attempts once finished, and the
\* verdict of the generation until a retry opens the next round.
RoundsAreFinal ==
    [][\A g \in Gens :
         /\ gen[g].status \in Settled =>
              gen'[g].status = gen[g].status \/ gen'[g].round = gen[g].round + 1
         /\ \A r \in Rounds, i \in Items :
              attempts[g][r][i] \in ItemOutcomes => attempts'[g][r][i] = attempts[g][r][i]]_vars

\* Once the process stays up with some configuration, every generation settles,
\* whatever it lived through before.
GenerationsSettle ==
    <>[](phase = "up" /\ config # "none") =>
        \A g \in Gens : Exists(g) ~> gen[g].status \in Settled

\* agent-doc/telegram-agent-flow.md:346: a restart does not affect unfinished
\* generations, late results are delivered as usual.  So a receipt tells the
\* outcome of a generation that has one.
ReceiptsReportOutcomes ==
    \A g \in Gens : task[g].state = "completed" => task[g].told \in Settled

\* agent-doc/telegram-agent-flow.md:345: at most MAX_PER_INVOCATION submissions
\* per invocation.
SubmissionsWithinQuota ==
    Free => \A v \in Invocations : Cardinality({g \in Gens : gen[g].by = v}) <= MaxPerInvocation

=============================================================================

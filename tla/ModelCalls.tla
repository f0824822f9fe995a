------------------------------ MODULE ModelCalls ------------------------------
(* Who may call a model, when, and on whose budget:                            *)
(*   - agents, whose requests pass the daily token budget and the per-chat     *)
(*     model gate (AgentRuntime's streamFunction, agent-runtime.ts);           *)
(*   - image analyses, one per media at a time, that take a vision permit and  *)
(*     then their chat's gate (MediaService, media.ts);                        *)
(*   - the sticker index worker, which waits behind the chats;                 *)
(*   - the bot's sleep, entered when the budget runs low (sleep.ts).           *)
EXTENDS Semaphores, FiniteSets, FiniteSetsExt

CONSTANTS Agents,        \* agent runs, one request in flight each
          Exempt,        \* agents that answer a bypassing task receipt
          Readers,       \* read_image tool calls
          Media,         \* media (file_unique_id), the index's stickers among them
          Indexed,       \* stickers the index worker analyses
          ChatAt,        \* [Agents \cup Readers -> chat]
          MediaOf,       \* [Readers -> Media]
          VisionLimit,   \* vision.max_concurrency
          MaxTokens,     \* agent.daily_budget.max_tokens
          IndexImages,   \* vision.daily_budget.max_images
          IndexTokens,   \* vision.daily_budget.max_tokens
          DayHours,      \* hours of a day
          MinimumSleep,  \* MINIMUM_SLEEP_MILLISECONDS, in hours
          LastHour,      \* bound on the clock
          ExemptBound,   \* bound on the exempt agents' tokens of a day
          Nobody         \* no job, no sleep

CallChats == {ChatAt[x] : x \in Agents \cup Readers}

Job == [stage: {"prepare", "queue", "granted", "gate", "call"},
        scope: CallChats \cup {"index"}, owner: Readers \cup {"index"},
        aborted: BOOLEAN]

Sleep == [since: Nat, until: Nat]

ASSUME CallsAssumption ==
    /\ IsFiniteSet(Agents) /\ IsFiniteSet(Readers) /\ IsFiniteSet(Media)
    /\ Agents \cap Media = {} /\ "index" \notin CallChats \cup Readers
    /\ Nobody \notin Media /\ Nobody \notin Job /\ Nobody \notin Sleep
    /\ Exempt \subseteq Agents /\ Indexed \subseteq Media
    /\ MediaOf \in [Readers -> Media]
    /\ {VisionLimit, MaxTokens, DayHours, MinimumSleep} \subseteq Nat \ {0}
    /\ {IndexImages, IndexTokens, LastHour, ExemptBound} \subseteq Nat

VARIABLES hour,     \* the clock
          spent,    \* daily_usage, scope chat: [day -> tokens], see Charge
          indexed,  \* daily_usage, scope system: [day -> images and tokens]
          sleep,    \* app_state bot_sleep_until, with the hour it was entered
          agents,   \* [Agents -> idle, waiting, calling, blocked]
          readers,  \* [Readers -> idle, waiting, done, failed]
          worker,   \* the sticker the index worker is at, or Nobody
          jobs,     \* #inflight: [Media -> the analysis under way, or Nobody]
          cached,   \* media_analyses in state success
          gates,    \* KeyedSemaphore: [chat -> semaphore of limit 1]
          vision    \* #visionSemaphore

callVars == <<hour, spent, indexed, sleep, agents, readers, worker, jobs, cached,
              gates, vision>>

Day(h) == h \div DayHours
Days == 0..Day(LastHour)

CallsTypeOK ==
    /\ hour \in 0..LastHour
    /\ spent \in [Days -> [metered: Nat, exempt: Nat]]
    /\ indexed \in [Days -> [images: Nat, tokens: Nat]]
    /\ sleep \in {Nobody} \cup Sleep
    /\ agents \in [Agents -> {"idle", "waiting", "calling", "blocked"}]
    /\ readers \in [Readers -> {"idle", "waiting", "done", "failed"}]
    /\ worker \in Indexed \cup {Nobody}
    /\ jobs \in [Media -> Job \cup {Nobody}]
    /\ cached \subseteq Media
    /\ gates \in [CallChats -> Semaphore(Agents \cup Media)]
    /\ \A c \in CallChats : gates[c].active <= 1
    /\ vision \in Semaphore(Media) /\ vision.active <= VisionLimit

CallsInit ==
    /\ hour = 0 /\ sleep = Nobody /\ worker = Nobody /\ cached = {}
    /\ spent = [d \in Days |-> [metered |-> 0, exempt |-> 0]]
    /\ indexed = [d \in Days |-> [images |-> 0, tokens |-> 0]]
    /\ agents = [a \in Agents |-> "idle"]
    /\ readers = [r \in Readers |-> "idle"]
    /\ jobs = [m \in Media |-> Nobody]
    /\ gates = [c \in CallChats |-> FreeSemaphore]
    /\ vision = FreeSemaphore

------------------------------------------------------------------------------
(* The daily token budget.                                                     *)

Today == Day(hour)
UsedTokens == spent[Today].metered + spent[Today].exempt

IsDailyTokenBudgetReached == UsedTokens >= MaxTokens

\* Less than a twentieth of the budget is left.
IsLowDailyTokenBudget ==
    LET remaining == IF UsedTokens >= MaxTokens THEN 0 ELSE MaxTokens - UsedTokens
    IN remaining * 100 < MaxTokens * 5

\* A finished call is charged to the day it finishes on.  The account is one
\* amount in the code; the exempt agents' share is told apart here.
Charge(exempt, tokens) ==
    spent' = IF exempt THEN [spent EXCEPT ![Today].exempt = @ + tokens]
             ELSE [spent EXCEPT ![Today].metered = @ + tokens]

------------------------------------------------------------------------------
(* The gate of a chat: agents and analyses of one chat, in order of arrival.   *)

FirstCome == [client \in Agents \cup Media |-> 0]

\* MUTANT of AgentsAfter: the gate's next waiter is not told.
AgentsUntold(handed) == agents

AgentsAfter(handed) == [a \in Agents |->
    IF a \in handed THEN "calling" ELSE agents[a]]

JobsAfter(js, handed) == [m \in Media |->
    IF m \in handed THEN [js[m] EXCEPT !.stage = "call"] ELSE js[m]]

\* An agent's request: refused on a spent budget, else into the chat's gate.
\* The gate is passed after the check, however long the wait is.
RequestModel(a) ==
    /\ agents[a] = "idle"
    /\ a \in Exempt => spent[Today].exempt < ExemptBound
    /\ IF a \notin Exempt /\ IsDailyTokenBudgetReached
       THEN /\ agents' = [agents EXCEPT ![a] = "blocked"]
            /\ UNCHANGED gates
       ELSE /\ agents' = [agents EXCEPT ![a] =
                   IF HasRoom(gates[ChatAt[a]], 1) THEN "calling" ELSE "waiting"]
            /\ gates' = [gates EXCEPT ![ChatAt[a]] = Acquire(@, a, 1, FirstCome)]
    /\ UNCHANGED <<hour, spent, indexed, sleep, readers, worker, jobs, cached, vision>>

\* The stream ends, with a message or an error: charged, and the gate released.
FinishModelCall(a) ==
    LET handed == HandedTo(gates[ChatAt[a]]) IN
    /\ agents[a] = "calling"
    /\ \E tokens \in 0..1 : Charge(a \in Exempt, tokens)
    /\ gates' = [gates EXCEPT ![ChatAt[a]] = Release(@)]
    /\ agents' = [AgentsAfter(handed) EXCEPT ![a] = "idle"]
    /\ jobs' = JobsAfter(jobs, handed)
    /\ UNCHANGED <<hour, indexed, sleep, readers, worker, cached, vision>>

\* A run refused for the budget ends; a later run takes its place.
NextRun(a) ==
    /\ agents[a] = "blocked"
    /\ agents' = [agents EXCEPT ![a] = "idle"]
    /\ UNCHANGED <<hour, spent, indexed, sleep, readers, worker, jobs, cached,
                   gates, vision>>

\* The run is aborted while its request waits: the waiter leaves the queue.
AbortWaitingAgent(a) ==
    /\ agents[a] = "waiting"
    /\ agents' = [agents EXCEPT ![a] = "idle"]
    /\ gates' = [gates EXCEPT ![ChatAt[a]] = Withdraw(@, a)]
    /\ UNCHANGED <<hour, spent, indexed, sleep, readers, worker, jobs, cached, vision>>

------------------------------------------------------------------------------
(* Analyses.                                                                   *)

\* Chats before the sticker index.
VisionPriority == [m \in {x \in Media : jobs[x] # Nobody} |->
    IF jobs[m].scope = "index" THEN 1 ELSE 0]

NewJob(scope, owner) ==
    [stage |-> "prepare", scope |-> scope, owner |-> owner, aborted |-> FALSE]

\* read_image: from the cache, or by joining the analysis under way, or by
\* starting one under the chat's token budget.
ReadImage(r) ==
    LET m == MediaOf[r] IN
    /\ readers[r] = "idle"
    /\ \/ /\ m \in cached
          /\ readers' = [readers EXCEPT ![r] = "done"]
          /\ UNCHANGED jobs
       \/ /\ m \notin cached /\ jobs[m] # Nobody
          /\ readers' = [readers EXCEPT ![r] = "waiting"]
          /\ UNCHANGED jobs
       \/ /\ m \notin cached /\ jobs[m] = Nobody /\ IsDailyTokenBudgetReached
          /\ readers' = [readers EXCEPT ![r] = "failed"]
          /\ UNCHANGED jobs
       \/ /\ m \notin cached /\ jobs[m] = Nobody /\ ~IsDailyTokenBudgetReached
          /\ readers' = [readers EXCEPT ![r] = "waiting"]
          /\ jobs' = [jobs EXCEPT ![m] = NewJob(ChatAt[r], r)]
    /\ UNCHANGED <<hour, spent, indexed, sleep, agents, worker, cached, gates, vision>>

\* MUTANT of ReserveStickerImage: the count is read but the limit is off by one.
ReserveOneMore ==
    /\ indexed[Today].images <= IndexImages
    /\ indexed[Today].tokens < IndexTokens

\* #reserveStickerImage: the index may start one more analysis today.
ReserveStickerImage ==
    /\ indexed[Today].images < IndexImages
    /\ indexed[Today].tokens < IndexTokens

\* The index worker, one sticker at a time: an analysis kept from before, a
\* reserved image and a new or a joined analysis, or a refusal.
IndexSticker(m) ==
    /\ worker = Nobody /\ m \notin cached
    /\ ReserveStickerImage
    /\ indexed' = [indexed EXCEPT ![Today].images = @ + 1]
    /\ worker' = m
    /\ jobs' = IF jobs[m] = Nobody
               THEN [jobs EXCEPT ![m] = NewJob("index", "index")] ELSE jobs
    /\ UNCHANGED <<hour, spent, sleep, agents, readers, cached, gates, vision>>

\* What the end of an analysis settles: everyone waiting for it.
Settle(m, outcome) ==
    /\ readers' = [r \in Readers |->
           IF MediaOf[r] = m /\ readers[r] = "waiting" THEN outcome ELSE readers[r]]
    /\ worker' = IF worker = m THEN Nobody ELSE worker

\* The analysis ends without a result, before its model call.
Fail(m) ==
    /\ Settle(m, "failed")
    /\ jobs' = [jobs EXCEPT ![m] = Nobody]
    /\ UNCHANGED <<hour, spent, indexed, sleep, cached>>

\* The download and the conversion end; then the vision semaphore.
Prepared(m) ==
    /\ jobs[m] # Nobody /\ jobs[m].stage = "prepare"
    /\ \/ /\ Fail(m)
          /\ UNCHANGED vision
       \/ /\ ~jobs[m].aborted
          /\ vision' = Acquire(vision, m, VisionLimit, VisionPriority)
          /\ jobs' = [jobs EXCEPT ![m].stage =
                 IF HasRoom(vision, VisionLimit) THEN "granted" ELSE "queue"]
          /\ UNCHANGED <<hour, spent, indexed, sleep, readers, worker, cached>>
    /\ UNCHANGED <<agents, gates>>

\* With the vision permit in hand: a chat's analysis takes the chat's gate, the
\* index goes straight to the model.  A signal aborted by now rejects the gate,
\* and nothing gives the vision permit back.
EnterGate(m) ==
    LET c == jobs[m].scope IN
    /\ jobs[m] # Nobody /\ jobs[m].stage = "granted"
    /\ \/ /\ c = "index"
          /\ jobs' = [jobs EXCEPT ![m].stage = "call"]
          /\ UNCHANGED <<hour, spent, indexed, sleep, cached, readers, worker, gates>>
       \/ /\ c # "index" /\ jobs[m].aborted
          /\ Fail(m)
          /\ UNCHANGED gates
       \/ /\ c # "index" /\ ~jobs[m].aborted
          /\ gates' = [gates EXCEPT ![c] = Acquire(@, m, 1, FirstCome)]
          /\ jobs' = [jobs EXCEPT ![m].stage =
                 IF HasRoom(gates[c], 1) THEN "call" ELSE "gate"]
          /\ UNCHANGED <<hour, spent, indexed, sleep, cached, readers, worker>>
    /\ UNCHANGED <<agents, vision>>

\* The vision permit passes on to the first analysis in the queue.
AfterVision(js) == [m \in Media |->
    IF m \in HandedTo(vision) THEN [js[m] EXCEPT !.stage = "granted"] ELSE js[m]]

\* The model answers, or fails: charged to the chat or to the index, the gate
\* and the permit released, and everyone waiting settled.
FinishVisionCall(m) ==
    LET c == jobs[m].scope
        handed == IF c = "index" THEN {} ELSE HandedTo(gates[c])
    IN
    /\ jobs[m] # Nobody /\ jobs[m].stage = "call"
    /\ \E tokens \in 0..1 :
           IF c = "index"
           THEN /\ indexed' = [indexed EXCEPT ![Today].tokens = @ + tokens]
                /\ UNCHANGED spent
           ELSE Charge(FALSE, tokens) /\ UNCHANGED indexed
    /\ gates' = IF c = "index" THEN gates ELSE [gates EXCEPT ![c] = Release(@)]
    /\ vision' = Release(vision)
    /\ agents' = AgentsAfter(handed)
    /\ jobs' = [AfterVision(JobsAfter(jobs, handed)) EXCEPT ![m] = Nobody]
    /\ \/ /\ ~jobs[m].aborted
          /\ cached' = cached \cup {m} /\ Settle(m, "done")
       \/ UNCHANGED cached /\ Settle(m, "failed")
    /\ UNCHANGED <<hour, sleep>>

\* The first caller's signal fires (its 30 s, its run, the worker's stop).  A
\* waiting analysis fails at once; elsewhere the signal is seen later.
AbortAnalysis(m) ==
    /\ jobs[m] # Nobody /\ ~jobs[m].aborted
    /\ jobs[m].owner \in Readers
    /\ \/ /\ jobs[m].stage = "queue"
          /\ vision' = Withdraw(vision, m)
          /\ Fail(m)
          /\ UNCHANGED gates
       \/ /\ jobs[m].stage = "gate"
          /\ gates' = [gates EXCEPT ![jobs[m].scope] = Withdraw(@, m)]
          /\ Fail(m)
          /\ UNCHANGED vision
       \/ /\ jobs[m].stage \in {"prepare", "granted", "call"}
          /\ jobs' = [jobs EXCEPT ![m].aborted = TRUE]
          /\ UNCHANGED <<hour, spent, indexed, sleep, cached, readers, worker,
                         gates, vision>>
    /\ UNCHANGED agents

------------------------------------------------------------------------------
(* Sleep.                                                                      *)

Asleep == sleep # Nobody /\ sleep.until > hour

NextReset == (Today + 1) * DayHours

WakeHour == IF hour + MinimumSleep > NextReset THEN hour + MinimumSleep
            ELSE NextReset

\* zzz: at least the minimum and past the next budget reset; a sleep under way
\* stays as it is.  (The tool is offered once the budget is low.)
EnterSleep ==
    /\ ~Asleep
    /\ sleep' = [since |-> hour, until |-> WakeHour]
    /\ UNCHANGED <<hour, spent, indexed, agents, readers, worker, jobs, cached,
                   gates, vision>>

CallZzz == \E a \in Agents : agents[a] = "idle" /\ IsLowDailyTokenBudget /\ EnterSleep

\* activeSleepUntil removes a lapsed sleep when it is next asked; an
\* administrator may wake the bot before.
LeaveSleep ==
    /\ sleep # Nobody
    /\ sleep' = Nobody
    /\ UNCHANGED <<hour, spent, indexed, agents, readers, worker, jobs, cached,
                   gates, vision>>

HourPasses ==
    /\ hour < LastHour
    /\ hour' = hour + 1
    /\ UNCHANGED <<spent, indexed, sleep, agents, readers, worker, jobs, cached,
                   gates, vision>>

CallsNext ==
    \/ \E a \in Agents : \/ RequestModel(a) \/ FinishModelCall(a)
                         \/ NextRun(a) \/ AbortWaitingAgent(a)
    \/ \E r \in Readers : ReadImage(r)
    \/ \E m \in Indexed : IndexSticker(m)
    \/ \E m \in Media : \/ Prepared(m) \/ EnterGate(m) \/ FinishVisionCall(m)
                        \/ AbortAnalysis(m)
    \/ CallZzz \/ LeaveSleep \/ HourPasses

CallsSpec == CallsInit /\ [][CallsNext]_callVars

------------------------------------------------------------------------------
(* Properties.                                                                 *)

GateHolders(c) ==
    {a \in Agents : ChatAt[a] = c /\ agents[a] = "calling"}
        \cup {m \in Media : jobs[m] # Nobody /\ jobs[m].scope = c
                            /\ jobs[m].stage = "call"}

VisionHolders == {m \in Media : jobs[m] # Nobody
                                /\ jobs[m].stage \in {"granted", "gate", "call"}}

\* concurrency.ts KeyedSemaphore, agent-runtime.ts:589, media.ts:459: a chat has
\* at most one model call, its gate is out exactly while one runs, and nobody
\* waits at a free gate or at a free vision permit.
GateFollowsCalls ==
    /\ \A c \in CallChats : /\ gates[c].active = Cardinality(GateHolders(c))
                        /\ gates[c].active <= 1
                        /\ gates[c].waiters # <<>> => gates[c].active = 1
    /\ vision.waiters # <<>> => vision.active = VisionLimit

\* The queues and the clients agree: whoever is queued knows it waits, so that
\* the permit handed to it is used.
QueuesFollowClients ==
    /\ \A c \in CallChats, a \in Agents :
           a \in ToSet(gates[c].waiters) <=> agents[a] = "waiting" /\ ChatAt[a] = c
    /\ \A c \in CallChats, m \in Media :
           m \in ToSet(gates[c].waiters) <=>
               jobs[m] # Nobody /\ jobs[m].stage = "gate" /\ jobs[m].scope = c
    /\ \A m \in Media :
           m \in ToSet(vision.waiters) <=> jobs[m] # Nobody /\ jobs[m].stage = "queue"
    /\ Cardinality(VisionHolders) <= vision.active

\* media.ts #analyzeDeduplicated: whoever waits for an analysis waits for one
\* that is under way, whichever caller's signal ended the one it joined.
NobodyWaitsForNothing ==
    /\ \A r \in Readers : readers[r] = "waiting" => jobs[MediaOf[r]] # Nobody
    /\ worker # Nobody => jobs[worker] # Nobody

\* "chat read_image takes the global vision slots first": no sticker of the
\* index waits ahead of a chat's image.
ChatsBeforeIndex ==
    \A i, j \in DOMAIN vision.waiters :
        /\ jobs[vision.waiters[i]].scope = "index"
        /\ jobs[vision.waiters[j]].scope # "index"
        => j < i

\* "may be slightly exceeded by the concurrent calls already let through": the
\* day's account never exceeds the budget by more than one call of every agent
\* and analysis, waits at the gate and midnight included.
OverrunBounded ==
    \A d \in Days :
        spent[d].metered <= MaxTokens - 1 + Cardinality(Agents \ Exempt)
                                          + Cardinality({MediaOf[r] : r \in Readers})

\* #reserveStickerImage: the index's own daily budget, exact in images and one
\* call over in tokens.
IndexBudgetKept ==
    \A d \in Days : /\ indexed[d].images <= IndexImages
                    /\ indexed[d].tokens <= IndexTokens

\* sleep.ts: a sleep that has lapsed on its own lapsed on a later day, so that
\* the bot wakes to a fresh budget.
WakesToFreshBudget ==
    sleep # Nobody /\ ~Asleep => Today > Day(sleep.since)

\* Whoever wants a call is queued where its permit will find it, and in its order.
CallersAreServed ==
    /\ CallsTypeOK /\ GateFollowsCalls /\ QueuesFollowClients
    /\ NobodyWaitsForNothing /\ ChatsBeforeIndex

\* No day's budget is overrun by more than what was let through, and no sleep
\* ends in a day whose budget is spent.
BudgetsHold == OverrunBounded /\ IndexBudgetKept /\ WakesToFreshBudget

\* Model calls are admitted in order, within the day's budget (concurrency.ts, sleep.ts,
\* media.ts).
CallsAreAdmitted == CallersAreServed /\ BudgetsHold

\* media.ts:457-459: a vision permit that is out belongs to an analysis under way.
VisionPermitsHeld == vision.active = Cardinality(VisionHolders)

=============================================================================

--------------------------- MODULE StartupCatchUp ---------------------------
(***************************************************************************)
(* Start of the process: drain the updates Telegram kept while the bot was *)
(* down (runStartupCatchUp), turn them into one batch per conversation     *)
(* (finishStartupCatchUp), and only then start the scheduler, whose        *)
(* recover() expires old work.  The process may crash between any two      *)
(* transactions and be started again at any later time.                    *)
(***************************************************************************)
EXTENDS Naturals, FiniteSets, FiniteSetsExt

CONSTANTS
    Updates,           \* 1..n: messages sent to the bot, in update_id order
    Conv,              \* the conversation of an update
    Limit,             \* getUpdates limit
    HistoryMessages,   \* agent.history_messages
    MaxAge,            \* RECOVERY_MAX_AGE_MS, in clock units
    MaxTime            \* bound: clock, and so process starts

Conversations == {Conv[u] : u \in Updates}
Times == 0..MaxTime
NoTime == MaxTime + 1

ASSUME CatchUpAssumptions ==
    /\ IsFiniteSet(Updates)
    /\ Updates = 1..Cardinality(Updates)
    /\ DOMAIN Conv = Updates
    /\ {Limit, HistoryMessages} \subseteq Nat \ {0}
    /\ {MaxAge, MaxTime} \subseteq Nat

VARIABLES
    clock,
    sent,              \* updates Telegram has accepted so far are 1..sent
    confirmed,         \* ... of which it has forgotten 1..confirmed
    phase,             \* the process: down, draining, ready (caught up), serving
    startedAt,         \* app_state.telegram_startup_catch_up, or NoTime
    offset,            \* the offset of the next getUpdates
    fetched,           \* updates of the last response not ingested yet
    answered,          \* the last response was empty
    received,          \* received_at of a stored update, or NoTime
    batches,           \* catch-up buckets
    realtime           \* updates that got an ordinary bucket

vars == <<clock, sent, confirmed, phase, startedAt, offset, fetched, answered,
          received, batches, realtime>>

Batch == [conversation : Conversations, messages : SUBSET Updates,
          firstReceivedAt : Times, finishedAt : Times \cup {NoTime},
          state : {"queued", "skipped_budget", "expired", "closed"}]

TypeOK ==
    /\ clock \in Times
    /\ {sent, confirmed} \subseteq Updates \cup {0}
    /\ phase \in {"down", "draining", "ready", "serving"}
    /\ startedAt \in Times \cup {NoTime}
    /\ offset \in 0..(Cardinality(Updates) + 1)
    /\ fetched \subseteq Updates
    /\ answered \in BOOLEAN
    /\ received \in [Updates -> Times \cup {NoTime}]
    /\ batches \subseteq Batch
    /\ realtime \subseteq Updates

Init ==
    /\ clock = 0 /\ sent = 0 /\ confirmed = 0 /\ phase = "down"
    /\ startedAt = NoTime /\ offset = 0 /\ fetched = {} /\ answered = FALSE
    /\ received = [u \in Updates |-> NoTime]
    /\ batches = {} /\ realtime = {}

-----------------------------------------------------------------------------
(* Environment                                                             *)

PassTime ==
    /\ clock < MaxTime
    /\ clock' = clock + 1
    /\ UNCHANGED <<sent, confirmed, phase, startedAt, offset, fetched, answered,
                   received, batches, realtime>>

SendUpdate ==
    /\ sent < Cardinality(Updates)
    /\ sent' = sent + 1
    /\ UNCHANGED <<clock, confirmed, phase, startedAt, offset, fetched, answered,
                   received, batches, realtime>>

Crash ==
    /\ phase # "down"
    /\ phase' = "down" /\ offset' = 0 /\ fetched' = {} /\ answered' = FALSE
    /\ UNCHANGED <<clock, sent, confirmed, startedAt, received, batches, realtime>>

-----------------------------------------------------------------------------
(* runStartupCatchUp                                                       *)

\* The start time of an interrupted catch-up is kept.  A process start takes
\* longer than the resolution of the clock (a millisecond).
BeginCatchUp ==
    /\ phase = "down"
    /\ clock < MaxTime
    /\ clock' = clock + 1
    /\ phase' = "draining"
    /\ startedAt' = IF startedAt = NoTime THEN clock + 1 ELSE startedAt
    /\ UNCHANGED <<sent, confirmed, offset, fetched, answered, received,
                   batches, realtime>>

Pending(after) == {u \in 1..sent : u > after}
Earliest(S) == {u \in S : Cardinality({v \in S : v < u}) < Limit}

\* Faulty: the next request goes out while updates of the last one wait.
GetUpdatesEarly ==
    LET forgotten == IF offset > confirmed THEN offset - 1 ELSE confirmed
        response == Earliest(Pending(forgotten))
    IN
    /\ phase \in {"draining", "serving"}
    /\ ~answered
    /\ confirmed' = forgotten
    /\ fetched' = fetched \cup response
    /\ answered' = (phase = "draining" /\ response = {})
    /\ offset' = IF response = {} THEN offset ELSE Max(response) + 1
    /\ UNCHANGED <<clock, sent, phase, startedAt, received, batches, realtime>>

\* getUpdates, called by the drain and then by the long polling of grammY: an
\* offset confirms everything below it.  An empty response ends the drain.
GetUpdates ==
    LET forgotten == IF offset > confirmed THEN offset - 1 ELSE confirmed
        response == Earliest(Pending(forgotten))
    IN
    /\ phase \in {"draining", "serving"}
    /\ fetched = {}
    /\ ~answered
    /\ confirmed' = forgotten
    /\ fetched' = response
    /\ answered' = (phase = "draining" /\ response = {})
    /\ offset' = IF response = {} THEN offset ELSE Max(response) + 1
    /\ UNCHANGED <<clock, sent, phase, startedAt, received, batches, realtime>>

\* The next update of the response is stored, once per update_id.
Store(u) ==
    /\ u = Min(fetched)
    /\ received' = [received EXCEPT ![u] = IF @ = NoTime THEN clock ELSE @]
    /\ fetched' = fetched \ {u}

\* ingestCatchUp: no bucket opens.
IngestCatchUp ==
    /\ phase = "draining"
    /\ \E u \in fetched : Store(u)
    /\ UNCHANGED <<clock, sent, confirmed, phase, startedAt, offset, answered,
                   batches, realtime>>

SessionMessages(c) ==
    {u \in Updates : Conv[u] = c /\ received[u] # NoTime /\ received[u] >= startedAt}

Latest(S) == {u \in S : Cardinality({v \in S : v > u}) < HistoryMessages}

\* finishStartupCatchUp: one batch per conversation; skip says which of them the
\* policy (removed or paused chat, sleep, participation) turns away.
FinishCatchUp(skip) ==
    /\ phase = "draining"
    /\ answered
    /\ batches' = batches \cup
          {[conversation |-> c, messages |-> Latest(SessionMessages(c)),
            firstReceivedAt |-> startedAt,
            finishedAt |-> IF c \in skip THEN clock ELSE NoTime,
            state |-> IF c \in skip THEN "skipped_budget" ELSE "queued"]
              : c \in {c \in Conversations : SessionMessages(c) # {}}}
    /\ startedAt' = NoTime
    /\ phase' = "ready"
    /\ UNCHANGED <<clock, sent, confirmed, offset, fetched, answered, received,
                   realtime>>

-----------------------------------------------------------------------------
(* Serving                                                                 *)

\* BucketScheduler.start: recover() first.  Then polling starts, without offset.
StartScheduler ==
    /\ phase = "ready"
    /\ phase' = "serving"
    /\ batches' =
          {IF b.state = "queued" /\ b.firstReceivedAt + MaxAge < clock
           THEN [b EXCEPT !.state = "expired", !.finishedAt = clock] ELSE b : b \in batches}
    /\ offset' = 0
    /\ answered' = FALSE
    /\ UNCHANGED <<clock, sent, confirmed, startedAt, fetched, received, realtime>>

\* An update that is new opens, or joins, an ordinary bucket.
Ingest ==
    /\ phase = "serving"
    /\ \E u \in fetched :
          /\ Store(u)
          /\ realtime' = IF received[u] = NoTime THEN realtime \cup {u} ELSE realtime
    /\ UNCHANGED <<clock, sent, confirmed, phase, startedAt, offset, answered, batches>>

\* A queued batch is run and closed.
RunBatch ==
    /\ phase = "serving"
    /\ \E b \in batches :
          /\ b.state = "queued"
          /\ batches' = (batches \ {b})
                \cup {[b EXCEPT !.state = "closed", !.finishedAt = clock]}
    /\ UNCHANGED <<clock, sent, confirmed, phase, startedAt, offset, fetched,
                   answered, received, realtime>>

Next ==
    \/ PassTime \/ SendUpdate \/ Crash
    \/ BeginCatchUp \/ GetUpdates \/ IngestCatchUp
    \/ \E skip \in SUBSET Conversations : FinishCatchUp(skip)
    \/ StartScheduler \/ Ingest \/ RunBatch

Spec == Init /\ [][Next]_vars

-----------------------------------------------------------------------------

\* Telegram never forgets an update the bot has not stored, wherever the
\* process stops: an offset is only sent after everything below it is stored.
ConfirmedIsStored == \A u \in Updates : u <= confirmed => received[u] # NoTime

\* Once a catch-up is finished, every stored message either has an ordinary
\* bucket or its conversation has a catch-up batch of the session it was stored
\* in, across any number of interrupted attempts.
StoredIsScheduled ==
    phase \in {"ready", "serving"} =>
        \A u \in Updates :
            (received[u] # NoTime /\ u \notin realtime) =>
                \E b \in batches : /\ b.conversation = Conv[u]
                                   /\ b.firstReceivedAt <= received[u]
                                   /\ \E v \in b.messages : v >= u

\* No message is scheduled twice: not by two catch-ups, and not by a catch-up
\* and an ordinary bucket after a redelivery.
ScheduledOnce ==
    /\ \A a, b \in batches : a # b => a.messages \cap b.messages = {}
    /\ \A b \in batches : b.messages \cap realtime = {}

\* What Telegram was told is stored reaches the model in one batch.
UpdatesReachOneBatch == TypeOK /\ ConfirmedIsStored /\ StoredIsScheduled /\ ScheduledOnce

\* Restart recovery runs waiting work whose oldest message is at most five
\* minutes old and expires the rest.
OnlyOldBatchesExpire ==
    \A b \in batches :
        b.state = "expired" => \E u \in b.messages : received[u] + MaxAge < b.finishedAt

=============================================================================

---------------------------- MODULE ProcessProofs ----------------------------
(***************************************************************************)
(* The process: what its start does with the updates that waited for it    *)
(* (StartupCatchUp), that only one process at a time serves a data         *)
(* directory (ServeProcess), whom it lets call a model (ModelCalls), and   *)
(* what it makes of the updates it is given (MessageIngestion).            *)
(* The four share nothing but this module.                                 *)
(***************************************************************************)
EXTENDS StartupCatchUp, ServeProcess, ModelCalls, MessageIngestion,
        FiniteSetTheorems, SequenceTheorems, WellFoundedInduction, TLAPS

(***************************************************************************)
(* Every update reaches the model in one batch, for every instance of      *)
(* StartupCatchUp: any number of updates, conversations, limits and        *)
(* crashes.  The invariant that carries it dates every stored message:     *)
(* those older than the catch-up under way (Old) are exactly the ones that *)
(* earlier catch-ups or the serving process have scheduled, and an offset  *)
(* is never ahead of what is stored or in hand.                            *)
(***************************************************************************)

\* A set of natural numbers that is not empty has a least element.
LEMMA LeastNat ==
    ASSUME NEW T \in SUBSET Nat, T # {}
    PROVE  \E x \in T : \A y \in T : x <= y
<1>1. PICK x \in T : \A y \in T : ~ (<<y, x>> \in OpToRel(<, Nat))
  BY WFMin, NatLessThanWellFounded
<1>2. \A y \in T : ~ (y < x)  BY <1>1 DEF OpToRel
<1> QED BY <1>2

\* Below a bound it has a greatest one.
LEMMA GreatestNat ==
    ASSUME NEW N \in Nat, NEW T \in SUBSET 0..N, T # {}
    PROVE  \E x \in T : \A y \in T : x >= y
<1> DEFINE D == {n \in Nat : N - n \in T}
<1>1. D # {} /\ D \in SUBSET Nat
 <2>1. PICK y \in T : TRUE  OBVIOUS
 <2>2. N - y \in D  BY <2>1
 <2> QED BY <2>2
<1>2. PICK d \in D : \A e \in D : d <= e  BY <1>1, LeastNat
<1>3. ASSUME NEW y \in T PROVE N - d >= y
 <2>1. N - y \in D  OBVIOUS
 <2> QED BY <1>2, <2>1
<1> QED BY <1>2, <1>3

-----------------------------------------------------------------------------
(* The invariant.                                                          *)

\* Update u was stored before the catch-up under way, if any, began.
Old(u) == received[u] # NoTime /\ (startedAt # NoTime => received[u] < startedAt)

\* Nothing is dated later than now, and a drain knows when it began.
Dated ==
    /\ \A u \in Updates : received[u] # NoTime => received[u] <= clock
    /\ startedAt # NoTime => startedAt <= clock
    /\ phase = "draining" => startedAt # NoTime
    /\ phase \in {"ready", "serving"} => startedAt = NoTime

\* The offset of the next request confirms nothing that is not stored or in hand.
OffsetInHand == \A u \in Updates : u < offset => received[u] # NoTime \/ u \in fetched

\* A catch-up batch answers for update u.
BatchedIn(u, b) ==
    /\ b.conversation = Conv[u]
    /\ b.firstReceivedAt <= received[u]
    /\ \E v \in b.messages : v >= u

\* What is old has been scheduled, and what has been scheduled is old.
OldIsScheduled ==
    /\ \A u \in Updates : Old(u) => u \in realtime \/ \E b \in batches : BatchedIn(u, b)
    /\ \A u \in realtime : Old(u)
    /\ \A b \in batches : \A u \in b.messages : Old(u)

CatchUpInv ==
    TypeOK /\ Dated /\ OffsetInHand /\ ConfirmedIsStored /\ OldIsScheduled /\ ScheduledOnce

\* The updates are numbered from 1.
LEMMA Numbered ==
    /\ Cardinality(Updates) \in Nat
    /\ Updates = 1..Cardinality(Updates)
    /\ MaxTime \in Nat /\ MaxAge \in Nat
    /\ Limit \in Nat \ {0} /\ HistoryMessages \in Nat \ {0}
    /\ NoTime \notin Times
BY FS_CardinalityType, CatchUpAssumptions DEF Times, NoTime

\* The greatest of a set of updates.
LEMMA MaxUpdate ==
    ASSUME NEW S \in SUBSET Updates, S # {}
    PROVE  Max(S) \in S /\ \A y \in S : Max(S) >= y
<1>1. S \in SUBSET 0..Cardinality(Updates)  BY Numbered
<1> QED BY <1>1, Numbered, GreatestNat DEF Max

\* A response leaves out nothing older than what it holds.
LEMMA EarliestIsPrefix ==
    ASSUME NEW S \in SUBSET Updates, NEW u \in Earliest(S), NEW v \in S, v < u
    PROVE  v \in Earliest(S)
<1> DEFINE Before(x) == {w \in S : w < x}
<1>1. \A x \in S : IsFiniteSet(Before(x))  BY FS_Subset, CatchUpAssumptions
<1>2. Before(v) \subseteq Before(u)
 <2>2. ASSUME NEW w \in S, w < v PROVE w < u  BY <2>2, Numbered DEF Earliest
 <2> QED BY <2>2
<1>5. Cardinality(Before(u)) < Limit  BY DEF Earliest
<1>6. Cardinality(Before(v)) < Limit
  BY <1>5, Numbered, <1>1, <1>2, FS_Subset, FS_CardinalityType DEF Earliest
<1> QED BY <1>6 DEF Earliest

\* The messages shown of a conversation include its last one.
LEMMA LatestIsShown ==
    ASSUME NEW S \in SUBSET Updates, NEW u \in S
    PROVE  \E v \in Latest(S) : v >= u
<1>1. Max(S) \in S /\ \A y \in S : Max(S) >= y  BY MaxUpdate
<1>4. Max(S) \in Latest(S)  BY <1>1, Numbered, FS_EmptySet DEF Latest
<1> QED BY <1>1, <1>4

-----------------------------------------------------------------------------
(* The actions.                                                            *)

\* Batches that change their state only.
Restated(f) ==
    /\ batches' = {f[b] : b \in batches}
    /\ \A b \in batches : /\ f[b] \in Batch
                          /\ f[b].conversation = b.conversation
                          /\ f[b].messages = b.messages
                          /\ f[b].firstReceivedAt = b.firstReceivedAt

\* ... answer for the same updates.
LEMMA RestatedKept ==
    ASSUME CatchUpInv, NEW f, Restated(f), UNCHANGED <<received, startedAt, realtime>>
    PROVE  OldIsScheduled' /\ ScheduledOnce' /\ batches' \subseteq Batch
<1> USE DEF Restated, CatchUpInv
<1>4. \A b \in batches' : \A u \in b.messages : Old(u)'  BY DEF Old, OldIsScheduled
<1>5. \A u \in realtime' : Old(u)'  BY DEF Old, OldIsScheduled
<1>6. ASSUME NEW u \in Updates, Old(u)'
      PROVE  u \in realtime' \/ \E b \in batches' : BatchedIn(u, b)'
 <2>2. CASE u \in realtime  BY <2>2
 <2>3. ASSUME NEW b \in batches, BatchedIn(u, b) PROVE \E d \in batches' : BatchedIn(u, d)'
  <3> QED BY <2>3 DEF BatchedIn
 <2> QED BY <2>2, <2>3, <1>6 DEF OldIsScheduled, Old
<1> QED BY <1>4, <1>5, <1>6 DEF OldIsScheduled, ScheduledOnce

\* getUpdates: what the offset confirms was stored, what it skips is in hand.
LEMMA GetUpdatesKept ==
    ASSUME CatchUpInv, GetUpdates
    PROVE  CatchUpInv'
<1> DEFINE forgotten == IF offset > confirmed THEN offset - 1 ELSE confirmed
           response == Earliest(Pending(forgotten))
<1> USE DEF CatchUpInv
<1>1. /\ offset \in 0..(Cardinality(Updates) + 1) /\ confirmed \in 0..Cardinality(Updates)
      /\ sent \in 0..Cardinality(Updates)
  BY Numbered DEF TypeOK
<1>2. /\ forgotten \in 0..Cardinality(Updates)
      /\ \A u \in Updates : u <= forgotten => received[u] # NoTime
  BY <1>1, Numbered DEF GetUpdates, OffsetInHand, ConfirmedIsStored
<1>3. /\ confirmed' = forgotten /\ fetched' = response
      /\ offset' = IF response = {} THEN offset ELSE Max(response) + 1
      /\ UNCHANGED <<clock, sent, phase, startedAt, received, batches, realtime>>
      /\ answered' \in BOOLEAN /\ fetched = {}
  BY DEF GetUpdates
<1>4. Pending(forgotten) \in SUBSET Updates /\ response \in SUBSET Pending(forgotten)
  BY <1>1, Numbered DEF Pending, Earliest
<1> HIDE DEF forgotten, response
<1>5. ASSUME response # {}
      PROVE  /\ Max(response) \in response /\ Max(response) \in Updates
             /\ \A u \in Updates : u <= Max(response) => received[u] # NoTime \/ u \in response
 <2>1. Max(response) \in response  BY <1>4, <1>5, MaxUpdate
 <2>2. ASSUME NEW u \in Updates, u <= Max(response), u > forgotten PROVE u \in response
  <3>1. u \in Pending(forgotten)
   <4>1. Max(response) \in 1..sent  BY <1>4, <2>1 DEF Pending
   <4> QED BY <2>2, <1>1, <4>1, Numbered DEF Pending
  <3>2. CASE u = Max(response)  BY <2>1, <3>2
  <3>3. CASE u < Max(response)  BY <1>4, <2>1, <3>1, <3>3, EarliestIsPrefix DEF response
  <3> QED BY <1>4, <2>1, <2>2, <3>2, <3>3, Numbered
 <2> QED BY <1>2, <1>4, <2>1, <2>2, Numbered
<1>9. ConfirmedIsStored'  BY <1>2, <1>3 DEF ConfirmedIsStored
<1> QED
  BY <1>3, <1>9, <1>1, <1>5, Numbered, <1>2, <1>4 DEF Dated, OldIsScheduled,
    Old, BatchedIn, ScheduledOnce, OffsetInHand, TypeOK

\* An update is stored once.
LEMMA StoreKept ==
    ASSUME CatchUpInv, NEW u \in fetched, Store(u), UNCHANGED <<clock, offset, confirmed, startedAt>>
    PROVE  /\ received' \in [Updates -> Times \cup {NoTime}]
           /\ fetched' \subseteq Updates
           /\ \A v \in Updates : received[v] # NoTime => received'[v] = received[v]
           /\ \A v \in Updates : received'[v] # NoTime => received'[v] <= clock
           /\ \A v \in Updates : v # u => received'[v] = received[v]
           /\ received'[u] = IF received[u] = NoTime THEN clock ELSE received[u]
           /\ OffsetInHand' /\ ConfirmedIsStored'
<1> USE DEF CatchUpInv, TypeOK
<1>1. u \in Updates /\ clock \in Times /\ clock # NoTime /\ clock <= clock
  BY Numbered DEF Times
<1>2. received' = [received EXCEPT ![u] = IF @ = NoTime THEN clock ELSE @]  BY DEF Store
<1>3. \A v \in Updates : /\ v # u => received'[v] = received[v]
                         /\ v = u => received'[v] = IF received[u] = NoTime THEN clock ELSE received[u]
  BY <1>2
<1>5. fetched' = fetched \ {u}  BY DEF Store
<1> QED BY <1>1, <1>3, <1>5, <1>2 DEF Dated, OffsetInHand, ConfirmedIsStored

\* A drained update is stored for the catch-up under way.
LEMMA IngestCatchUpKept ==
    ASSUME CatchUpInv, IngestCatchUp
    PROVE  CatchUpInv'
<1> USE DEF CatchUpInv
<1>1. PICK u \in fetched : Store(u)  BY DEF IngestCatchUp
<1>2. /\ UNCHANGED <<clock, sent, confirmed, phase, startedAt, offset, answered, batches, realtime>>
      /\ phase = "draining" /\ startedAt # NoTime
  BY DEF IngestCatchUp, Dated
<1>3. /\ received' \in [Updates -> Times \cup {NoTime}]
      /\ fetched' \subseteq Updates
      /\ \A v \in Updates : received[v] # NoTime => received'[v] = received[v]
      /\ \A v \in Updates : received'[v] # NoTime => received'[v] <= clock
      /\ \A v \in Updates : v # u => received'[v] = received[v]
      /\ received'[u] = IF received[u] = NoTime THEN clock ELSE received[u]
      /\ OffsetInHand' /\ ConfirmedIsStored'
  BY <1>1, <1>2, StoreKept
<1>6. ASSUME NEW v \in Updates
      PROVE  (Old(v)' <=> Old(v)) /\ (Old(v) => received'[v] = received[v])
  BY <1>2, <1>3, Numbered DEF Old, TypeOK, Dated, Times
<1>9. ScheduledOnce'  BY <1>2 DEF ScheduledOnce
<1> QED BY <1>3, <1>9, <1>2, <1>6 DEF TypeOK, Dated, OldIsScheduled, BatchedIn, Batch

\* A served update is stored with a bucket of its own, unless it came again.
LEMMA IngestKept ==
    ASSUME CatchUpInv, Ingest
    PROVE  CatchUpInv'
<1> USE DEF CatchUpInv
<1>1. PICK u \in fetched : /\ Store(u)
                           /\ realtime' = IF received[u] = NoTime THEN realtime \cup {u} ELSE realtime
  BY DEF Ingest
<1>2. /\ UNCHANGED <<clock, sent, confirmed, phase, startedAt, offset, answered, batches>>
      /\ startedAt = NoTime
  BY DEF Ingest, Dated
<1>3. /\ received' \in [Updates -> Times \cup {NoTime}]
      /\ fetched' \subseteq Updates
      /\ \A v \in Updates : received[v] # NoTime => received'[v] = received[v]
      /\ \A v \in Updates : received'[v] # NoTime => received'[v] <= clock
      /\ \A v \in Updates : v # u => received'[v] = received[v]
      /\ received'[u] = IF received[u] = NoTime THEN clock ELSE received[u]
      /\ OffsetInHand' /\ ConfirmedIsStored'
  BY <1>1, <1>2, StoreKept
<1>4. u \in Updates /\ clock # NoTime  BY Numbered DEF TypeOK
<1>6. /\ realtime \subseteq Updates
      /\ \A b \in batches : b.messages \subseteq Updates
  BY DEF TypeOK, Batch
<1>7. \A v \in Updates : /\ Old(v)' <=> received'[v] # NoTime
                         /\ Old(v) <=> received[v] # NoTime
  BY <1>2 DEF Old
<1>8. OldIsScheduled'
 <2>1. ASSUME NEW v \in Updates, Old(v)' PROVE v \in realtime' \/ \E b \in batches' : BatchedIn(v, b)'
  <3>1. CASE Old(v)  BY <1>1, <1>2, <1>3, <1>7, <3>1 DEF OldIsScheduled, BatchedIn
  <3>2. CASE ~Old(v)  BY <1>1, <1>3, <1>7, <2>1, <3>2
  <3> QED BY <3>1, <3>2
 <2> QED BY <2>1, <1>1, <1>3, <1>4, <1>6, <1>7, <1>2 DEF OldIsScheduled
<1> QED BY <1>3, <1>8, <1>1, <1>2, <1>4, <1>7 DEF TypeOK, Dated, ScheduledOnce, OldIsScheduled

\* The end of a catch-up turns what it stored into one batch per conversation.
LEMMA FinishKept ==
    ASSUME CatchUpInv, NEW skip \in SUBSET Conversations, FinishCatchUp(skip)
    PROVE  CatchUpInv'
<1> USE DEF CatchUpInv
<1> DEFINE New(c) == [conversation |-> c, messages |-> Latest(SessionMessages(c)),
                      firstReceivedAt |-> startedAt,
                      finishedAt |-> IF c \in skip THEN clock ELSE NoTime,
                      state |-> IF c \in skip THEN "skipped_budget" ELSE "queued"]
           Spoken == {c \in Conversations : SessionMessages(c) # {}}
           NewBatches == {New(c) : c \in Spoken}
<1>1. /\ batches' = batches \cup NewBatches
      /\ startedAt' = NoTime /\ phase' = "ready"
      /\ UNCHANGED <<clock, sent, confirmed, offset, fetched, answered, received, realtime>>
      /\ startedAt # NoTime
  BY DEF FinishCatchUp, Dated
<1>2. startedAt \in Times /\ clock \in Times  BY <1>1 DEF TypeOK
<1>3. \A c \in Conversations : /\ SessionMessages(c) \in SUBSET Updates
                               /\ Latest(SessionMessages(c)) \subseteq SessionMessages(c)
  BY DEF SessionMessages, Latest
<1>4. ASSUME NEW c \in Conversations, NEW u \in SessionMessages(c)
      PROVE Conv[u] = c /\ received[u] # NoTime /\ ~Old(u)
 <2> QED BY <1>1, <1>2, Numbered DEF Old, TypeOK, Times, SessionMessages
<1>5. ASSUME NEW c \in Spoken PROVE New(c) \in Batch  BY <1>2, <1>3 DEF Batch
<1>6. \A c \in Spoken : New(c).conversation = c /\ New(c).messages = Latest(SessionMessages(c))
                        /\ New(c).firstReceivedAt = startedAt
  OBVIOUS
<1> HIDE DEF New
<1>9. \A u \in Updates : Old(u)' <=> received[u] # NoTime  BY <1>1 DEF Old
<1>10. /\ realtime \subseteq Updates
       /\ \A b \in batches : b.messages \subseteq Updates
  BY DEF TypeOK, Batch
<1>11. OldIsScheduled'
 <2>1. ASSUME NEW u \in Updates, Old(u)' PROVE u \in realtime' \/ \E b \in batches' : BatchedIn(u, b)'
  <3>1. CASE Old(u)  BY <1>1, <3>1 DEF OldIsScheduled, BatchedIn
  <3>2. CASE ~Old(u)
   <4>1. received[u] \in Times /\ received[u] >= startedAt
    <5> QED BY <1>2, Numbered, <1>1, <1>9, <2>1, <3>2 DEF Times, TypeOK, Old
   <4>2. Conv[u] \in Conversations /\ u \in SessionMessages(Conv[u])
     BY <1>9, <2>1, <4>1 DEF SessionMessages, Conversations
   <4>3. PICK v \in Latest(SessionMessages(Conv[u])) : v >= u  BY <1>3, <4>2, LatestIsShown
   <4>4. PICK b \in batches' : b = New(Conv[u])  BY <1>1, <4>2
   <4> QED BY <1>1, <1>6, <4>2, <4>3, <4>4, <1>2, <4>1, Numbered DEF BatchedIn, Times
  <3> QED BY <3>1, <3>2
 <2> QED BY <2>1, <1>1, <1>9, <1>10, <1>3, <1>4, <1>6 DEF OldIsScheduled, Old
<1>12. ScheduledOnce'
 <2>1. ASSUME NEW c \in Spoken, NEW d \in Spoken, New(c) # New(d)
       PROVE  New(c).messages \cap New(d).messages = {}
   BY <1>3, <1>4, <1>6, <2>1
 <2>2. ASSUME NEW c \in Spoken, NEW b \in batches
       PROVE  New(c).messages \cap b.messages = {}
   BY <1>3, <1>4, <1>6 DEF OldIsScheduled
 <2>3. ASSUME NEW c \in Spoken PROVE New(c).messages \cap realtime = {}
   BY <1>3, <1>4, <1>6 DEF OldIsScheduled
 <2> QED BY <1>1, <2>1, <2>2, <2>3 DEF ScheduledOnce
<1> QED BY <1>11, <1>12, <1>1, <1>5 DEF Dated, OffsetInHand, ConfirmedIsStored, TypeOK

\* Every step keeps the invariant.
LEMMA CatchUpKept ==
    ASSUME CatchUpInv, [Next]_vars
    PROVE  CatchUpInv'
<1> USE DEF CatchUpInv
<1>1. CASE UNCHANGED vars
  BY <1>1 DEF vars, TypeOK, Dated, OffsetInHand, ConfirmedIsStored, OldIsScheduled, Old, BatchedIn,
              ScheduledOnce
<1>2. ASSUME UNCHANGED <<received, batches, realtime>> /\ startedAt' = startedAt
      PROVE  OldIsScheduled' /\ ScheduledOnce'
  BY <1>2 DEF OldIsScheduled, Old, BatchedIn, ScheduledOnce
<1>3. CASE PassTime \/ SendUpdate \/ Crash
 <2>1. /\ UNCHANGED <<received, batches, realtime>> /\ startedAt' = startedAt
       /\ clock' \in Times /\ clock' >= clock
       /\ sent' \in Updates \cup {0} /\ confirmed' = confirmed
       /\ phase' \in {phase, "down"}
       /\ fetched' \subseteq Updates /\ answered' \in BOOLEAN
       /\ (offset' = offset /\ fetched' = fetched) \/ offset' = 0
  <3>1. CASE PassTime  BY <3>1, Numbered DEF PassTime, TypeOK, Times
  <3>2. CASE SendUpdate  BY <3>2, Numbered DEF SendUpdate, TypeOK, Times
  <3>3. CASE Crash
   <4>1. clock \in Times /\ clock >= clock /\ sent \in Updates \cup {0}
     BY Numbered DEF TypeOK, Times
   <4> QED BY <3>3, <4>1 DEF Crash
  <3> QED BY <1>3, <3>1, <3>2, <3>3
 <2>3. Dated'  BY <2>1, Numbered DEF Dated, TypeOK, Times
 <2>5. OldIsScheduled' /\ ScheduledOnce'  BY <1>2, <2>1
 <2> QED BY <2>3, <2>5, <2>1, Numbered DEF OffsetInHand, ConfirmedIsStored, TypeOK
<1>4. CASE BeginCatchUp
 <2>1. /\ clock \in Nat /\ clock' = clock + 1 /\ clock' \in Times
       /\ phase' = "draining"
       /\ startedAt' = IF startedAt = NoTime THEN clock + 1 ELSE startedAt
       /\ UNCHANGED <<sent, confirmed, offset, fetched, answered, received, batches, realtime>>
   BY <1>4, Numbered DEF BeginCatchUp, TypeOK, Times
 <2>3. startedAt' # NoTime /\ startedAt' <= clock'  BY <2>1, Numbered DEF TypeOK, Dated, Times
 <2>7. OldIsScheduled' /\ ScheduledOnce'
   BY <2>1, <2>3, Numbered DEF OldIsScheduled, BatchedIn, ScheduledOnce, Old,
     Dated, TypeOK, Times, Batch
 <2> QED BY <2>1, <2>3, <2>7, Numbered DEF Dated, OffsetInHand, ConfirmedIsStored, TypeOK, Times
<1>5. CASE StartScheduler
 <2> DEFINE f == [b \in batches |->
                     IF b.state = "queued" /\ b.firstReceivedAt + MaxAge < clock
                     THEN [b EXCEPT !.state = "expired", !.finishedAt = clock] ELSE b]
 <2>1. Restated(f)
  <3>1. ASSUME NEW b \in batches
        PROVE  /\ f[b] \in Batch /\ f[b].conversation = b.conversation
               /\ f[b].messages = b.messages /\ f[b].firstReceivedAt = b.firstReceivedAt
   <4> QED BY DEF Batch, TypeOK
  <3> QED BY <3>1, <1>5 DEF Restated, StartScheduler
 <2>2. UNCHANGED <<clock, sent, confirmed, startedAt, fetched, received, realtime>>
       /\ phase' = "serving" /\ startedAt = NoTime /\ offset' = 0 /\ answered' = FALSE
   BY <1>5 DEF StartScheduler, Dated
 <2>3. OldIsScheduled' /\ ScheduledOnce' /\ batches' \subseteq Batch
   BY <2>1, <2>2, RestatedKept
 <2>4. TypeOK'
  <3>1. 0 \in 0..(Cardinality(Updates) + 1)  BY Numbered
  <3> QED BY <2>2, <2>3, <3>1 DEF TypeOK
 <2> QED BY <2>3, <2>4, <2>2, Numbered DEF Dated, OffsetInHand, ConfirmedIsStored
<1>6. CASE RunBatch
 <2>1. PICK b \in batches :
          batches' = (batches \ {b}) \cup {[b EXCEPT !.state = "closed", !.finishedAt = clock]}
   BY <1>6 DEF RunBatch
 <2> DEFINE f == [d \in batches |->
                     IF d = b THEN [b EXCEPT !.state = "closed", !.finishedAt = clock] ELSE d]
 <2>2. Restated(f)  BY <2>1 DEF Restated, TypeOK, Batch
 <2>3. UNCHANGED <<clock, sent, confirmed, phase, startedAt, offset, fetched, answered,
                   received, realtime>>
   BY <1>6 DEF RunBatch
 <2> QED BY <2>3, <2>2, RestatedKept DEF TypeOK, Dated, OffsetInHand, ConfirmedIsStored
<1>7. CASE GetUpdates  BY <1>7, GetUpdatesKept
<1>8. CASE IngestCatchUp \/ Ingest  BY <1>8, IngestCatchUpKept, IngestKept
<1>9. ASSUME NEW skip \in SUBSET Conversations, FinishCatchUp(skip) PROVE CatchUpInv'
  BY <1>9, FinishKept
<1> QED BY <1>1, <1>3, <1>4, <1>5, <1>6, <1>7, <1>8, <1>9 DEF Next

\* What Telegram was told is stored reaches the model in one batch, wherever the process
\* stops and however often it starts again.
THEOREM UpdatesAreBatchedOnce == Spec => []UpdatesReachOneBatch
<1>1. Init => CatchUpInv
 <2> SUFFICES ASSUME Init PROVE CatchUpInv  OBVIOUS
 <2> USE Numbered DEF Init
 <2>1. TypeOK
  <3>1. 0 \in Times /\ 0 \in 0..(Cardinality(Updates) + 1)  BY DEF Times
  <3> QED BY <3>1 DEF TypeOK
 <2> QED
   BY <2>1 DEF CatchUpInv, Dated, OffsetInHand, ConfirmedIsStored,
     OldIsScheduled, Old, ScheduledOnce
<1>2. CatchUpInv /\ [Next]_vars => CatchUpInv'  BY CatchUpKept
<1>3. CatchUpInv => UpdatesReachOneBatch
 <2> SUFFICES ASSUME CatchUpInv PROVE UpdatesReachOneBatch  OBVIOUS
 <2> QED
   BY DEF CatchUpInv, UpdatesReachOneBatch, Dated, OldIsScheduled, Old,
     BatchedIn, StoredIsScheduled
<1> QED BY <1>1, <1>2, <1>3, PTL DEF Spec

-----------------------------------------------------------------------------
(***************************************************************************)
(* One process serves a data directory, for any number of processes, kills *)
(* and takeovers.  What carries it: the handle of the lock and the file    *)
(* agree as long as no two starts were inside acquire() at once (OwnLock), *)
(* and what a process runs follows from where it is (Sound).               *)
(***************************************************************************)

StageNames == {Stages[i] : i \in DOMAIN Stages}
InAcquire == {"open", "write", "read", "unlink"}
Waiting == {"new", "secrets", "look", "ask", "await"} \cup InAcquire
Process == [at : Places, takeover : BOOLEAN, again : BOOLEAN, stopping : BOOLEAN,
            held : BOOLEAN, runs : SUBSET ({"watcher"} \cup Services)]

\* What a process holds and runs, where it is.
Sound(process) ==
    /\ process.at \in Waiting \cup {"watch", "gone"} => process.runs = {}
    /\ process.at \in Waiting \cup {"gone"} => ~process.held
    /\ process.at = "watch" => process.held
    /\ process.at \in StageNames => process.held
    /\ process.at = "store" => process.runs \subseteq {"watcher"}
    /\ process.at \in StageNames \ {"store"} => "store" \in process.runs
    /\ process.runs \subseteq {"watcher"} \/ "store" \in process.runs
    /\ "store" \in process.runs => process.held

AllSound == \A p \in Processes : Sound(procs[p])

\* The file is the one that the process in acquire() created, or that its holder has.
OwnLock ==
    ~overlap =>
        /\ \A p, q \in Processes : Acquiring(p) /\ Acquiring(q) => p = q
        /\ \A p \in Processes : procs[p].at = "write" => lock = [by |-> p, pid |-> FALSE]
        /\ \A p \in Processes : procs[p].held => lock = [by |-> p, pid |-> TRUE]
        /\ \A p, q \in Processes : procs[p].at = "unlink" => ~procs[q].held

ServeInv == ServeTypeOK /\ AllSound /\ OwnLock

-----------------------------------------------------------------------------
(* Where a process is.                                                     *)

\* The stages, in their order.
LEMMA StageOrder ==
    /\ DOMAIN Stages = 1..10 /\ Len(Stages) = 10
    /\ Stages[1] = "store" /\ Stages[2] = "images" /\ Stages[3] = "telegram"
    /\ Stages[4] = "stickers" /\ Stages[5] = "bridge" /\ Stages[6] = "catch-up"
    /\ Stages[7] = "mcp" /\ Stages[8] = "scheduler" /\ Stages[9] = "admin"
    /\ Stages[10] = "polling"
BY DEF Stages

\* As a set they are these ten names.
LEMMA StageNamesAre ==
    StageNames = {"store", "images", "telegram", "stickers", "bridge",
                  "catch-up", "mcp", "scheduler", "admin", "polling"}
<1>2. ASSUME NEW x \in StageNames
      PROVE  x \in {"store", "images", "telegram", "stickers", "bridge",
                    "catch-up", "mcp", "scheduler", "admin", "polling"}
 <2>1. PICK i \in 1..10 : x = Stages[i]  BY StageOrder DEF StageNames
 <2> QED BY <2>1, StageOrder
<1>4. /\ "store" \in StageNames /\ "images" \in StageNames /\ "telegram" \in StageNames
      /\ "stickers" \in StageNames /\ "bridge" \in StageNames /\ "catch-up" \in StageNames
      /\ "mcp" \in StageNames /\ "scheduler" \in StageNames /\ "admin" \in StageNames
      /\ "polling" \in StageNames
 <2> QED BY StageOrder DEF StageNames
<1> QED BY <1>2, <1>4

\* The store is opened by the first stage only.
LEMMA StoreIsFirst ==
    ASSUME NEW i \in 1..(Len(Stages) - 1)
    PROVE  /\ Stages[i] \in StageNames /\ Stages[i + 1] \in StageNames
           /\ Stages[i + 1] # "store"
<1> QED BY StageOrder, StageNamesAre

\* In acquire() or at a stage is a matter of the place alone.
LEMMA AcquiringPlace ==
    ASSUME NEW p \in Processes
    PROVE  Acquiring(p) <=> procs[p].at \in InAcquire
BY DEF Acquiring, InAcquire

-----------------------------------------------------------------------------
(* A step of one process.                                                  *)

\* What a step leaves of the others, and what it tells of the starts.
LEMMA StepOfOne ==
    ASSUME ServeInv, NEW p \in Processes, NEW process \in Process, Becomes(p, process)
    PROVE  /\ procs' \in [Processes -> Process]
           /\ overlap' \in BOOLEAN
           /\ procs'[p] = process
           /\ \A q \in Processes \ {p} : procs'[q] = procs[q]
           /\ ~overlap' => ~overlap
           /\ ~overlap' /\ process.at \in InAcquire =>
                 \A q \in Processes \ {p} : procs[q].at \notin InAcquire
<1>3. overlap' = (overlap \/ \E q \in Processes \ {p} :
                      Acquiring(q) /\ process.at \in {"open", "write", "read", "unlink"})
  BY DEF Becomes
<1>4. overlap' \in BOOLEAN  BY <1>3, Zenon
<1>5. ~overlap' => ~overlap  BY <1>3
<1>6. ~overlap' /\ process.at \in InAcquire =>
                 \A q \in Processes \ {p} : procs[q].at \notin InAcquire
  BY <1>3, AcquiringPlace DEF InAcquire
<1> QED BY <1>4, <1>5, <1>6 DEF ServeInv, ServeTypeOK, Process, Becomes

\* A sound process stays among sound ones.
LEMMA SoundStep ==
    ASSUME ServeInv, NEW p \in Processes, NEW process \in Process, Becomes(p, process),
           Sound(process)
    PROVE  AllSound'
<1>1. ASSUME NEW q \in Processes PROVE Sound(procs'[q])
 <2>1. CASE q = p  BY <2>1, StepOfOne
 <2>2. CASE q # p
  <3> QED BY <2>2, StepOfOne DEF ServeInv, AllSound
 <2> QED BY <2>1, <2>2
<1> QED BY <1>1 DEF AllSound

\* Nobody is in acquire() beside the process that moves there.
LEMMA AloneStep ==
    ASSUME ServeInv, NEW p \in Processes, NEW process \in Process, Becomes(p, process),
           ~overlap'
    PROVE  \A q, r \in Processes : Acquiring(q)' /\ Acquiring(r)' => q = r
<1> SUFFICES ASSUME NEW q \in Processes, NEW r \in Processes, q # r,
                    procs'[q].at \in InAcquire, procs'[r].at \in InAcquire
             PROVE  FALSE
  BY DEF Acquiring, InAcquire
<1>3. CASE q = p  BY <1>3, StepOfOne
<1>4. CASE r = p  BY <1>4, StepOfOne
<1>5. CASE q # p /\ r # p  BY <1>5, StepOfOne, AcquiringPlace DEF ServeInv, OwnLock
<1> QED BY <1>3, <1>4, <1>5

\* A step that leaves the file alone: nobody gets the handle by it, and whoever goes to
\* unlink it knows that nobody has it.
LEMMA LockStays ==
    ASSUME ServeInv, NEW p \in Processes, NEW process \in Process, Becomes(p, process),
           lock' = lock, process.at # "write",
           process.held => procs[p].held,
           process.at = "unlink" =>
               (~overlap => (~process.held /\ \A q \in Processes : ~procs[q].held))
    PROVE  OwnLock'
<1> SUFFICES ASSUME ~overlap' PROVE
        /\ \A q, r \in Processes : Acquiring(q)' /\ Acquiring(r)' => q = r
        /\ \A q \in Processes : procs'[q].at = "write" => lock' = [by |-> q, pid |-> FALSE]
        /\ \A q \in Processes : procs'[q].held => lock' = [by |-> q, pid |-> TRUE]
        /\ \A q, r \in Processes : procs'[q].at = "unlink" => ~procs'[r].held
  BY DEF OwnLock
<1>1. ~overlap  BY StepOfOne
<1>2. \A q \in Processes \ {p} : procs'[q] = procs[q]  BY StepOfOne
<1>3. procs'[p] = process  BY StepOfOne
<1>8. \A q \in Processes : procs'[q].held => procs[q].held  BY <1>2, <1>3
<1>9. \A q, r \in Processes : procs'[q].at = "unlink" => ~procs'[r].held
  BY <1>1, <1>2, <1>3, <1>8 DEF ServeInv, OwnLock
<1> QED BY <1>8, <1>9, AloneStep, <1>1, <1>2, <1>3 DEF ServeInv, OwnLock

-----------------------------------------------------------------------------
(* A step that leaves the lock file alone.                                 *)

\* What the invariant asks of such a step is about the process alone.
LEMMA Keeps ==
    ASSUME ServeInv, NEW p \in Processes, NEW process \in Process, Becomes(p, process),
           Sound(process), UNCHANGED <<lock, foreign>>,
           request' \in Processes \cup {Nothing},
           process.at # "write", process.held => procs[p].held,
           process.at = "unlink" =>
               (~overlap => (~process.held /\ \A q \in Processes : ~procs[q].held))
    PROVE  ServeInv'
<1>1. AllSound'  BY SoundStep
<1>2. OwnLock'  BY LockStays
<1> QED BY <1>1, <1>2, StepOfOne DEF ServeInv, ServeTypeOK, Process

\* The record of a process.
LEMMA ProcessIs ==
    ASSUME ServeInv, NEW p \in Processes
    PROVE  procs[p] \in Process /\ Sound(procs[p])
BY DEF ServeInv, ServeTypeOK, AllSound, Process

\* What Go changes.
LEMMA GoIs ==
    ASSUME ServeInv, NEW p \in Processes, NEW at \in Places
    PROVE  /\ Go(p, at) \in Process
           /\ Go(p, at).at = at
           /\ Go(p, at).held = procs[p].held
           /\ Go(p, at).runs = procs[p].runs
BY ProcessIs DEF Go, Process

\* What Leave changes.
LEMMA LeaveIs ==
    ASSUME ServeInv, NEW p \in Processes, NEW runs \in SUBSET ({"watcher"} \cup Services)
    PROVE  /\ Leave(p, runs) \in Process
           /\ Leave(p, runs).at = "cleanup"
           /\ Leave(p, runs).held = procs[p].held
           /\ Leave(p, runs).runs = runs
<1> QED BY ProcessIs DEF Leave, Process, Places

\* The places of the steps before and after the stages.
LEMMA PlacesAre ==
    /\ Waiting \cup {"watch", "cleanup", "gone"} \subseteq Places
    /\ StageNames \subseteq Places
    /\ (Waiting \cup {"watch", "cleanup", "gone"}) \cap StageNames = {}
<1>3. (Waiting \cup {"watch", "cleanup", "gone"}) \cap StageNames = {}
  BY StageNamesAre DEF Waiting, InAcquire
<1> QED BY <1>3 DEF StageNames, Places, Waiting, InAcquire

\* A process that waits for the lock goes on waiting.
LEMMA WaitingGoes ==
    ASSUME ServeInv, NEW p \in Processes, procs[p].at \in Waiting,
           NEW at \in Waiting
    PROVE  Go(p, at) \in Process /\ Sound(Go(p, at)) /\ ~Go(p, at).held /\ Go(p, at).at = at
<1>3. procs[p].runs = {} /\ ~procs[p].held  BY ProcessIs DEF Sound
<1> HIDE DEF Waiting
<1> QED BY <1>3, GoIs, PlacesAre, StageNamesAre DEF Sound, Waiting, InAcquire

\* Whoever leaves with what it runs, and perhaps what a stage has just started, is sound.
LEMMA LeavesSound ==
    ASSUME ServeInv, NEW p \in Processes,
           NEW runs \in SUBSET ({"watcher"} \cup Services),
           runs \subseteq {"watcher"} \/ "store" \in runs,
           "store" \in runs => procs[p].held
    PROVE  Sound(Leave(p, runs))
<1> QED BY LeaveIs, StageNamesAre DEF Sound, Waiting, InAcquire

\* A process leaves with what it runs.
LEMMA LeavesAsItIs ==
    ASSUME ServeInv, NEW p \in Processes, Becomes(p, Leave(p, procs[p].runs)),
           UNCHANGED <<lock, foreign>>, request' \in Processes \cup {Nothing}
    PROVE  ServeInv'
<1> DEFINE L == Leave(p, procs[p].runs)
<1>1. procs[p].runs \in SUBSET ({"watcher"} \cup Services)  BY ProcessIs DEF Process
<1> QED BY Keeps, <1>1, LeaveIs, LeavesSound, ProcessIs DEF Sound

-----------------------------------------------------------------------------
(* From the command line to the lock.                                      *)

\* A process that waits and goes on waiting, outside write and unlink.
LEMMA GoesWaiting ==
    ASSUME ServeInv, NEW p \in Processes, procs[p].at \in Waiting,
           NEW at \in Waiting, at \notin {"write", "unlink"}, Becomes(p, Go(p, at)),
           UNCHANGED <<lock, foreign>>, request' \in Processes \cup {Nothing}
    PROVE  ServeInv'
<1> HIDE DEF Waiting
<1> QED BY Keeps, WaitingGoes

\* The request is a takeover or none.
LEMMA RequestIs == ServeInv => request \in Processes \cup {Nothing}
BY DEF ServeInv, ServeTypeOK

\* serve begins.
LEMMA StartServeKeeps ==
    ASSUME ServeInv, NEW p \in Processes, NEW takeover \in BOOLEAN, StartServe(p, takeover)
    PROVE  ServeInv'
<1> DEFINE s == [procs[p] EXCEPT !.at = "secrets", !.takeover = takeover]
<1>1. procs[p] \in Process /\ Sound(procs[p]) /\ procs[p].at = "new" /\ Becomes(p, s)
      /\ UNCHANGED <<lock, request, foreign>>
  BY ProcessIs DEF StartServe
<1>3. s \in Process /\ s.at = "secrets" /\ s.held = procs[p].held /\ s.runs = procs[p].runs
  BY <1>1 DEF Process, Places
<1>4. procs[p].runs = {} /\ ~procs[p].held  BY <1>1 DEF Sound, Waiting
<1> HIDE DEF s
<1> QED BY <1>1, <1>3, <1>4, RequestIs, Keeps, StageNamesAre DEF Sound

\* The token is there, or not.
LEMMA ResolveTokenKeeps ==
    ASSUME ServeInv, NEW p \in Processes, ResolveToken(p)
    PROVE  ServeInv'
<1>1. procs[p].at \in Waiting /\ UNCHANGED <<lock, request, foreign>>
  BY DEF ResolveToken, Waiting
<1>2. "look" \in Waiting /\ "open" \in Waiting  BY DEF Waiting, InAcquire
<1>4. CASE Becomes(p, Go(p, "look"))  BY <1>1, <1>2, <1>4, RequestIs, GoesWaiting
<1>5. CASE Becomes(p, Go(p, "open"))  BY <1>1, <1>2, <1>5, RequestIs, GoesWaiting
<1>6. CASE Becomes(p, Leave(p, procs[p].runs))  BY <1>1, <1>6, RequestIs, LeavesAsItIs
<1> QED BY <1>4, <1>5, <1>6 DEF ResolveToken

\* A takeover looks who serves.
LEMMA LookForInstanceKeeps ==
    ASSUME ServeInv, NEW p \in Processes, LookForInstance(p)
    PROVE  ServeInv'
<1>1. procs[p].at \in Waiting /\ UNCHANGED <<lock, request, foreign>>
  BY DEF LookForInstance, Waiting
<1>2. "ask" \in Waiting /\ "open" \in Waiting  BY DEF Waiting, InAcquire
<1>4. CASE Becomes(p, Go(p, "ask"))  BY <1>1, <1>2, <1>4, RequestIs, GoesWaiting
<1>5. CASE Becomes(p, Go(p, "open"))  BY <1>1, <1>2, <1>5, RequestIs, GoesWaiting
<1> QED BY <1>4, <1>5 DEF LookForInstance

\* It writes the request, and waits.
LEMMA AskToStopKeeps ==
    ASSUME ServeInv, NEW p \in Processes, AskToStop(p)
    PROVE  ServeInv'
<1> QED BY GoesWaiting DEF AskToStop, Waiting

\* It sees the lock go.
LEMMA InstanceStoppedKeeps ==
    ASSUME ServeInv, NEW p \in Processes, InstanceStopped(p)
    PROVE  ServeInv'
<1> QED BY GoesWaiting DEF InstanceStopped, Waiting, InAcquire

\* It gives up.
LEMMA GiveUpTakeoverKeeps ==
    ASSUME ServeInv, NEW p \in Processes, GiveUpTakeover(p)
    PROVE  ServeInv'
<1> QED BY LeavesAsItIs DEF GiveUpTakeover

\* A lock whose process does not live has no holder: whoever has the handle runs.
LEMMA HolderRuns ==
    ASSUME ServeInv, NEW p \in Processes, MayUnlink(p), ~overlap, NEW q \in Processes
    PROVE  ~procs[q].held
<1> SUFFICES ASSUME procs[q].held PROVE FALSE  OBVIOUS
<1>4. q \in Holder  BY DEF Holder, MayUnlink, ServeInv, OwnLock
<1> QED BY <1>4, ProcessIs DEF MayUnlink, isProcessAlive, Running, Sound, Waiting

\* It reads whose lock it is.
LEMMA ReadLockKeeps ==
    ASSUME ServeInv, NEW p \in Processes, ReadLock(p)
    PROVE  ServeInv'
<1>1. procs[p].at \in Waiting /\ UNCHANGED <<lock, request, foreign>>
  BY DEF ReadLock, Waiting, InAcquire
<1>3. CASE MayUnlink(p)
 <2>3. ~overlap => \A q \in Processes : ~procs[q].held  BY <1>3, HolderRuns
 <2> QED BY <1>1, <2>3, RequestIs, Keeps, <1>3, WaitingGoes DEF ReadLock, Waiting, InAcquire
<1>4. CASE ~MayUnlink(p)
 <2> QED BY <1>1, RequestIs, LeavesAsItIs, <1>4 DEF ReadLock
<1> QED BY <1>3, <1>4

-----------------------------------------------------------------------------
(* The lock file.                                                          *)

\* The file that it creates belongs to nobody yet.
LEMMA OpenLockKeeps ==
    ASSUME ServeInv, NEW p \in Processes, OpenLock(p)
    PROVE  ServeInv'
<1>1. /\ procs[p].at = "open" /\ UNCHANGED <<request, foreign>>  BY DEF OpenLock
<1>2. procs[p].at \in Waiting  BY <1>1 DEF Waiting, InAcquire
<1>3. CASE lock = Nothing
 <2>1. lock' = [by |-> p, pid |-> FALSE] /\ Becomes(p, Go(p, "write"))  BY <1>3 DEF OpenLock
 <2>3. /\ Go(p, "write") \in Process /\ Sound(Go(p, "write"))
       /\ ~Go(p, "write").held /\ Go(p, "write").at = "write"
   BY <1>2, WaitingGoes DEF Waiting, InAcquire
 <2>6. OwnLock'
  <3> SUFFICES ASSUME ~overlap' PROVE
          /\ \A q, r \in Processes : Acquiring(q)' /\ Acquiring(r)' => q = r
          /\ \A q \in Processes : procs'[q].at = "write" => lock' = [by |-> q, pid |-> FALSE]
          /\ \A q \in Processes : procs'[q].held => lock' = [by |-> q, pid |-> TRUE]
          /\ \A q, r \in Processes : procs'[q].at = "unlink" => ~procs'[r].held
    BY DEF OwnLock
  <3>1. ~overlap /\ (\A q \in Processes \ {p} : procs'[q] = procs[q])
        /\ procs'[p] = Go(p, "write")
    BY <2>1, <2>3, StepOfOne
  <3>2. \A q \in Processes : ~procs[q].held
   <4>2. \A q \in Processes : [by |-> q, pid |-> TRUE] \in [by : Processes, pid : BOOLEAN]
     OBVIOUS
   <4>3. Nothing \notin [by : Processes, pid : BOOLEAN]  BY NothingIsNoLock
   <4> HIDE DEF ServeInv
   <4>4. \A q \in Processes : [by |-> q, pid |-> TRUE] # Nothing  BY <4>2, <4>3, Zenon
   <4> QED BY <4>4, <1>3, <3>1 DEF ServeInv, OwnLock
  <3>5. \A q \in Processes : procs'[q].at = "write" => q = p
    BY <3>1, <2>1, <2>3, StepOfOne DEF InAcquire
  <3>6. \A q, r \in Processes : Acquiring(q)' /\ Acquiring(r)' => q = r
    BY <2>1, <2>3, AloneStep
  <3> QED BY <3>5, <3>6, <2>1, <3>1, <3>2, <2>3
 <2> QED BY <2>6, <1>1, <2>1, <2>3, StepOfOne, SoundStep DEF ServeInv, ServeTypeOK, Process
<1>4. CASE lock # Nothing
 <2>1. lock' = lock  BY <1>4 DEF OpenLock
 <2>3. CASE Becomes(p, Leave(p, procs[p].runs))  BY <1>1, <2>1, <2>3, RequestIs, LeavesAsItIs
 <2>4. CASE Becomes(p, Go(p, "read"))
  <3> QED BY <1>1, <1>2, <2>1, <2>4, RequestIs, GoesWaiting DEF Waiting, InAcquire
 <2> QED BY <2>3, <2>4, <1>4 DEF OpenLock
<1> QED BY <1>3, <1>4

\* Its creator takes the handle.
LEMMA WriteLockKeeps ==
    ASSUME ServeInv, NEW p \in Processes, WriteLock(p)
    PROVE  ServeInv'
<1> DEFINE w == [Go(p, "watch") EXCEPT !.held = TRUE]
<1>1. /\ procs[p].at = "write" /\ UNCHANGED <<request, foreign>> /\ Becomes(p, w)
  BY DEF WriteLock
<1>3. w \in Process /\ w.at = "watch" /\ w.held /\ w.runs = procs[p].runs
 <2> DEFINE g == Go(p, "watch")
 <2>1. g \in Process /\ g.at = "watch" /\ g.runs = procs[p].runs  BY GoIs DEF Places
 <2> HIDE DEF g
 <2> QED BY <2>1 DEF g, Process
<1> HIDE DEF w
<1>6. Sound(w)  BY <1>3, <1>1, ProcessIs, StageNamesAre DEF Sound, Waiting, InAcquire
<1>8. lock' \in [by : Processes, pid : BOOLEAN] \cup {Nothing}
 <2>1. lock \in [by : Processes, pid : BOOLEAN] \cup {Nothing}  BY DEF ServeInv, ServeTypeOK
 <2>2. CASE lock # Nothing /\ lock.by = p
  <3> QED BY <2>1, <2>2 DEF WriteLock
 <2>3. CASE ~(lock # Nothing /\ lock.by = p)
  <3> QED BY <2>1, <2>3 DEF WriteLock
 <2> QED BY <2>2, <2>3
<1>10. OwnLock'
 <2> SUFFICES ASSUME ~overlap' PROVE
           /\ \A q, r \in Processes : Acquiring(q)' /\ Acquiring(r)' => q = r
           /\ \A q \in Processes : procs'[q].at = "write" => lock' = [by |-> q, pid |-> FALSE]
           /\ \A q \in Processes : procs'[q].held => lock' = [by |-> q, pid |-> TRUE]
           /\ \A q, r \in Processes : procs'[q].at = "unlink" => ~procs'[r].held
   BY DEF OwnLock
 <2>1. ~overlap /\ (\A q \in Processes \ {p} : procs'[q] = procs[q]) /\ procs'[p] = w
   BY <1>1, <1>3, StepOfOne
 <2>2. lock = [by |-> p, pid |-> FALSE]  BY <1>1, <2>1 DEF ServeInv, OwnLock
 <2>3. lock # Nothing /\ lock.by = p
  <3>1. [by |-> p, pid |-> FALSE] \in [by : Processes, pid : BOOLEAN]  OBVIOUS
  <3>3. lock # Nothing  BY <3>1, <2>2, NothingIsNoLock
  <3> QED BY <2>2, <3>3
 <2>4. lock' = [by |-> p, pid |-> TRUE]
  <3> QED BY <2>2, <2>3 DEF WriteLock
 <2>5. \A q \in Processes : ~procs[q].held
  <3> QED BY <2>2, <2>1 DEF ServeInv, OwnLock
 <2>7. \A q \in Processes : procs'[q].at \notin InAcquire
   BY <2>1, <1>3, <1>1, AcquiringPlace DEF InAcquire, ServeInv, OwnLock
 <2> QED BY <2>4, <2>7, <2>1, <2>5 DEF InAcquire, Acquiring
<1> QED
  BY <1>10, <1>1, <1>3, <1>8, StepOfOne, <1>6, SoundStep DEF ServeInv,
    ServeTypeOK, Process

\* A stale file goes, and nobody held it.
LEMMA UnlinkLockKeeps ==
    ASSUME ServeInv, NEW p \in Processes, UnlinkLock(p)
    PROVE  ServeInv'
<1>1. /\ procs[p].at = "unlink" /\ UNCHANGED <<request, foreign>> /\ lock' = Nothing
  BY DEF UnlinkLock
<1>2. PICK u \in Process : /\ Becomes(p, u) /\ Sound(u) /\ ~u.held
                           /\ u.at \in {"cleanup", "open"}
 <2>1. procs[p].runs = {} /\ ~procs[p].held  BY <1>1, ProcessIs DEF Sound, Waiting, InAcquire
 <2>2. CASE lock = Nothing
  <3>3. Sound(Leave(p, procs[p].runs))  BY <2>1, LeavesSound
  <3> QED BY <3>3, <2>2, <2>1, LeaveIs DEF UnlinkLock
 <2>3. CASE lock # Nothing
  <3> DEFINE g == Go(p, "open")
  <3>1. Becomes(p, [g EXCEPT !.again = TRUE])  BY <2>3 DEF UnlinkLock
  <3>3. g \in Process /\ Sound(g) /\ ~g.held /\ g.at = "open"
    BY WaitingGoes, <1>1 DEF Waiting, InAcquire
  <3> HIDE DEF g
  <3>4. /\ [g EXCEPT !.again = TRUE] \in Process /\ [g EXCEPT !.again = TRUE].at = g.at
        /\ [g EXCEPT !.again = TRUE].held = g.held /\ [g EXCEPT !.again = TRUE].runs = g.runs
    BY <3>3 DEF Process
  <3> QED BY <3>1, <3>3, <3>4 DEF Sound
 <2> QED BY <2>2, <2>3
<1>5. OwnLock'
 <2> SUFFICES ASSUME ~overlap' PROVE
           /\ \A q, r \in Processes : Acquiring(q)' /\ Acquiring(r)' => q = r
           /\ \A q \in Processes : procs'[q].at = "write" => lock' = [by |-> q, pid |-> FALSE]
           /\ \A q \in Processes : procs'[q].held => lock' = [by |-> q, pid |-> TRUE]
           /\ \A q, r \in Processes : procs'[q].at = "unlink" => ~procs'[r].held
   BY DEF OwnLock
 <2>1. ~overlap /\ (\A q \in Processes \ {p} : procs'[q] = procs[q]) /\ procs'[p] = u
   BY <1>2, StepOfOne
 <2>5. \A q \in Processes : procs'[q].at # "write"
   BY <1>2, <2>1, <1>1, AcquiringPlace DEF InAcquire, ServeInv, OwnLock
 <2> QED BY <2>5, <1>2, AloneStep, <2>1, <1>1 DEF ServeInv, OwnLock
<1> QED BY <1>5, <1>1, <1>2, StepOfOne, SoundStep DEF ServeInv, ServeTypeOK, Process

\* At the end the file goes with the handle, and with nobody else's.
LEMMA ReleaseLockKeeps ==
    ASSUME ServeInv, NEW p \in Processes, ReleaseLock(p)
    PROVE  ServeInv'
<1> DEFINE g == [procs[p] EXCEPT !.at = "gone", !.held = FALSE]
<1>1. /\ procs[p].at = "cleanup" /\ procs[p].runs = {} /\ UNCHANGED <<request, foreign>>
      /\ Becomes(p, g)
  BY DEF ReleaseLock
<1>3. g \in Process /\ g.at = "gone" /\ ~g.held /\ g.runs = {}
  BY <1>1, ProcessIs DEF Process, Places
<1> HIDE DEF g
<1>5. Sound(g)  BY <1>3, StageNamesAre DEF Sound
<1>6. CASE ~procs[p].held
 <2>1. lock' = lock  BY <1>6 DEF ReleaseLock
 <2> QED BY <1>1, <1>3, <1>5, <2>1, RequestIs, Keeps
<1>7. CASE procs[p].held
 <2>1. lock' = Nothing  BY <1>7 DEF ReleaseLock
 <2>4. OwnLock'
  <3> SUFFICES ASSUME ~overlap' PROVE
          /\ \A q, r \in Processes : Acquiring(q)' /\ Acquiring(r)' => q = r
          /\ \A q \in Processes : procs'[q].at = "write" => lock' = [by |-> q, pid |-> FALSE]
          /\ \A q \in Processes : procs'[q].held => lock' = [by |-> q, pid |-> TRUE]
          /\ \A q, r \in Processes : procs'[q].at = "unlink" => ~procs'[r].held
    BY DEF OwnLock
  <3>1. ~overlap /\ (\A q \in Processes \ {p} : procs'[q] = procs[q]) /\ procs'[p] = g
    BY <1>1, <1>3, StepOfOne
  <3>2. \A q \in Processes : procs[q].held => lock = [by |-> q, pid |-> TRUE]
    BY <3>1 DEF ServeInv, OwnLock
  <3>3. lock = [by |-> p, pid |-> TRUE]  BY <1>7, <3>2
  <3>4. \A q \in Processes : procs[q].held => q = p
   <4> SUFFICES ASSUME NEW q \in Processes, procs[q].held PROVE q = p  OBVIOUS
   <4> QED BY <3>3, <3>2
  <3>6. \A q \in Processes : procs'[q].at # "write"
   <4>3. \A q \in Processes : procs[q].at # "write"
    <5> SUFFICES ASSUME NEW q \in Processes, procs[q].at = "write" PROVE FALSE  OBVIOUS
    <5>2. lock.pid = FALSE  BY <3>1 DEF ServeInv, OwnLock
    <5> QED BY <5>2, <3>3
   <4> QED BY <4>3, <3>1, <1>3
  <3> QED BY <3>6, <3>1, <3>4, <1>3, <1>1, AloneStep
 <2> QED
   BY <2>4, <1>1, <1>3, <2>1, StepOfOne, <1>5, SoundStep DEF ServeInv,
     ServeTypeOK, Process
<1> QED BY <1>6, <1>7

-----------------------------------------------------------------------------
(* Startup and its end.                                                    *)

\* With the lock in hand it drops an old request, and watches for new ones.
LEMMA WatchRequestsKeeps ==
    ASSUME ServeInv, NEW p \in Processes, WatchRequests(p)
    PROVE  ServeInv'
<1> DEFINE g == Go(p, "store")
           w == [g EXCEPT !.runs = {"watcher"}]
<1>1. procs[p].at = "watch" /\ UNCHANGED <<lock, foreign>> /\ request' = Nothing /\ Becomes(p, w)
  BY DEF WatchRequests
<1>3. g \in Process /\ g.at = "store" /\ g.held = procs[p].held
  BY GoIs, StageNamesAre, PlacesAre
<1> HIDE DEF g
<1>4. w \in Process /\ w.at = "store" /\ w.held = procs[p].held /\ w.runs = {"watcher"}
  BY <1>3 DEF Process
<1> HIDE DEF w
<1>7. Sound(w)  BY <1>4, <1>1, ProcessIs DEF Sound, Waiting, InAcquire
<1> QED BY <1>1, <1>4, <1>7, Keeps

\* A stage hands over to the next, and none but the first goes without the store.
LEMMA FinishStageKeeps ==
    ASSUME ServeInv, NEW p \in Processes, FinishStage(p)
    PROVE  ServeInv'
<1>2. PICK i \in 1..(Len(Stages) - 1), started \in SUBSET ({procs[p].at} \cap Services) :
          /\ procs[p].at = Stages[i]
          /\ started = {} => procs[p].at \notin Services \ {"admin"}
          /\ Becomes(p, [Go(p, Stages[i + 1]) EXCEPT !.runs = @ \cup started])
  BY DEF FinishStage
<1>3. /\ Stages[i] \in StageNames /\ Stages[i + 1] \in StageNames
      /\ Stages[i + 1] # "store"
  BY StoreIsFirst
<1> DEFINE next == Stages[i + 1]
           g == Go(p, next)
           f == [g EXCEPT !.runs = @ \cup started]
<1>5. g \in Process /\ g.at = next /\ g.held = procs[p].held /\ g.runs = procs[p].runs
  BY GoIs, <1>3, PlacesAre
<1> HIDE DEF g
<1>7. /\ f \in Process /\ f.at = next /\ f.held = procs[p].held
      /\ f.runs = procs[p].runs \cup started
  BY <1>5 DEF Process
<1>8. procs[p].held  BY <1>2, <1>3, ProcessIs DEF Sound
<1>9. "store" \in procs[p].runs \cup started
 <2>1. CASE procs[p].at = "store"  BY <1>2, <2>1 DEF Services
 <2>2. CASE procs[p].at # "store"  BY <1>2, <1>3, <2>2, ProcessIs DEF Sound
 <2> QED BY <2>1, <2>2
<1>10. next \notin Waiting \cup {"watch", "gone", "cleanup"} /\ next # "store"
  BY <1>3, PlacesAre
<1>11. Becomes(p, f)  BY <1>2 DEF g
<1> HIDE DEF f, next
<1>12. Sound(f)  BY <1>7, <1>8, <1>9, <1>10 DEF Sound
<1>13. f.at # "write" /\ f.at # "unlink"  BY <1>7, <1>10 DEF Waiting, InAcquire
<1> QED BY <1>7, <1>8, <1>11, <1>12, <1>13, RequestIs, Keeps DEF FinishStage

\* A stage that throws leaves with what it has started.
LEMMA FailStageKeeps ==
    ASSUME ServeInv, NEW p \in Processes, FailStage(p)
    PROVE  ServeInv'
<1>1. /\ procs[p].at \in StageNames /\ UNCHANGED <<lock, request, foreign>>
  BY DEF FailStage, StageNames
<1>2. PICK started \in SUBSET ({procs[p].at} \cap (Services \ {"store"})) :
          Becomes(p, Leave(p, procs[p].runs \cup started))
  BY DEF FailStage
<1> DEFINE runs == procs[p].runs \cup started
<1>3. runs \in SUBSET ({"watcher"} \cup Services)  BY ProcessIs DEF Process
<1>4. procs[p].held  BY <1>1, ProcessIs DEF Sound
<1>5. runs \subseteq {"watcher"} \/ "store" \in runs
 <2>1. CASE procs[p].at = "store"
  <3> QED BY <2>1, ProcessIs DEF Sound
 <2>2. CASE procs[p].at # "store"  BY <1>1, <2>2, ProcessIs DEF Sound
 <2> QED BY <2>1, <2>2
<1>6. Becomes(p, Leave(p, runs))  BY <1>2
<1> HIDE DEF runs
<1>8. Sound(Leave(p, runs))  BY <1>3, <1>4, <1>5, LeavesSound
<1> QED BY <1>1, <1>4, <1>6, <1>8, RequestIs, Keeps, <1>3, LeaveIs

\* shutdown() ends the polling and the drain, and is a note anywhere else.
LEMMA StoppedKeeps ==
    ASSUME ServeInv, NEW p \in Processes, Stoppable(p), Becomes(p, Stopped(p)),
           UNCHANGED <<lock, request, foreign>>
    PROVE  ServeInv'
<1>1. procs[p] \in Process /\ Sound(procs[p])  BY ProcessIs
<1>2. CASE procs[p].at \in {"catch-up", "polling"}
 <2> DEFINE runs == procs[p].runs
            l == Leave(p, runs)
            s == [l EXCEPT !.stopping = TRUE]
 <2>1. Becomes(p, s)  BY <1>2 DEF Stopped
 <2>2. runs \in SUBSET ({"watcher"} \cup Services)  BY <1>1 DEF Process
 <2>3. l \in Process /\ l.at = "cleanup" /\ l.held = procs[p].held /\ l.runs = runs
   BY <2>2, LeaveIs
 <2>4. Sound(l)  BY <1>1, <2>2, LeavesSound DEF Sound
 <2> HIDE DEF l
 <2>5. s \in Process /\ s.at = l.at /\ s.held = l.held /\ s.runs = l.runs  BY <2>3 DEF Process
 <2> HIDE DEF s
 <2> QED BY <2>1, <2>3, <2>5, RequestIs, Keeps, <2>4 DEF Sound
<1>3. CASE procs[p].at \notin {"catch-up", "polling"}
 <2> DEFINE s == [procs[p] EXCEPT !.stopping = TRUE]
 <2>1. Becomes(p, s)  BY <1>3 DEF Stopped
 <2>2. /\ s \in Process /\ s.at = procs[p].at /\ s.held = procs[p].held
       /\ s.runs = procs[p].runs
   BY <1>1 DEF Process
 <2> HIDE DEF s
 <2>6. OwnLock'
  <3> SUFFICES ASSUME ~overlap' PROVE
          /\ \A q, r \in Processes : Acquiring(q)' /\ Acquiring(r)' => q = r
          /\ \A q \in Processes : procs'[q].at = "write" => lock' = [by |-> q, pid |-> FALSE]
          /\ \A q \in Processes : procs'[q].held => lock' = [by |-> q, pid |-> TRUE]
          /\ \A q, r \in Processes : procs'[q].at = "unlink" => ~procs'[r].held
    BY DEF OwnLock
  <3>1. ~overlap /\ (\A q \in Processes \ {p} : procs'[q] = procs[q]) /\ procs'[p] = s
    BY <2>1, <2>2, StepOfOne
  <3>4. /\ \A q \in Processes : procs[q].at = "write" => lock = [by |-> q, pid |-> FALSE]
        /\ \A q \in Processes : procs[q].held => lock = [by |-> q, pid |-> TRUE]
        /\ \A q, r \in Processes : procs[q].at = "unlink" => ~procs[r].held
    BY <3>1 DEF ServeInv, OwnLock
  <3> QED BY <3>4, <3>1, <2>2, <2>1, AloneStep
 <2> QED
   BY <2>6, <2>1, <2>2, StepOfOne, SoundStep, <1>1 DEF ServeInv, ServeTypeOK,
     Process, Sound
<1> QED BY <1>2, <1>3

\* The cleanup stops its parts in an order that ends with the store.
LEMMA StopPartKeeps ==
    ASSUME ServeInv, NEW p \in Processes, StopPart(p)
    PROVE  ServeInv'
<1>1. procs[p].at = "cleanup" /\ UNCHANGED <<lock, request, foreign>>  BY DEF StopPart
<1>2. PICK i \in DOMAIN Cleanup :
          /\ Cleanup[i] \in procs[p].runs
          /\ \A j \in 1..i - 1 : Cleanup[j] \notin procs[p].runs
          /\ Becomes(p, [procs[p] EXCEPT !.runs = @ \ {Cleanup[i]}])
  BY DEF StopPart
<1> DEFINE runs == procs[p].runs \ {Cleanup[i]}
           s == [procs[p] EXCEPT !.runs = @ \ {Cleanup[i]}]
<1>3. procs[p] \in Process /\ Sound(procs[p])  BY ProcessIs
<1>4. s \in Process /\ s.at = "cleanup" /\ s.held = procs[p].held /\ s.runs = runs
  BY <1>1, <1>3 DEF Process
<1>6. runs \subseteq {"watcher"} \/ "store" \in runs
 <2>2. CASE i = 8
  <3>3. procs[p].runs \subseteq {"store"}  BY <1>3, <1>2, <2>2 DEF Cleanup, Services, Process
  <3> QED BY <3>3, <2>2 DEF Cleanup
 <2>3. CASE i # 8
  <3> QED BY <1>3, <2>3 DEF Sound, Cleanup
 <2> QED BY <2>2, <2>3
<1>7. Becomes(p, s)  BY <1>2
<1>9. "store" \in runs => procs[p].held  BY <1>3 DEF Sound
<1> HIDE DEF s, runs
<1>10. Sound(s)  BY <1>4, <1>6, <1>9, StageNamesAre DEF Sound, Waiting, InAcquire
<1> QED BY <1>1, <1>4, <1>7, <1>10, RequestIs, Keeps

\* A kill takes the process and leaves the file.
LEMMA KillServeKeeps ==
    ASSUME ServeInv, NEW p \in Processes, KillServe(p)
    PROVE  ServeInv'
<1> DEFINE k == [Unborn EXCEPT !.at = "gone"]
<1>1. UNCHANGED <<lock, request, foreign>> /\ Becomes(p, k)  BY DEF KillServe
<1>2. "gone" \in Places /\ "gone" \notin StageNames  BY StageNamesAre DEF Places
<1>3. k \in Process /\ k.at = "gone" /\ ~k.held /\ k.runs = {}  BY <1>2 DEF Unborn, Process
<1> HIDE DEF k
<1> QED BY <1>1, <1>3, RequestIs, Keeps, <1>2 DEF Sound

\* A pid that another program gets changes nothing here.
LEMMA ReusePidKeeps ==
    ASSUME ServeInv, NEW p \in Processes, ReusePid(p)
    PROVE  ServeInv'
<1>1. UNCHANGED <<lock, request, procs, overlap>> /\ foreign' = foreign \cup {p}
  BY DEF ReusePid
<1>4. OwnLock'  BY <1>1 DEF ServeInv, OwnLock, Acquiring
<1> QED BY <1>4, <1>1 DEF ServeInv, ServeTypeOK, AllSound

-----------------------------------------------------------------------------
(* The theorem.                                                            *)

\* Before the first start nobody is anywhere.
LEMMA ServeInvInit == ASSUME ServeInit PROVE ServeInv
<1>1. "new" \in Places /\ "new" \notin StageNames  BY StageNamesAre DEF Places
<1>2. Unborn \in Process /\ Unborn.at = "new" /\ ~Unborn.held /\ Unborn.runs = {}
  BY <1>1 DEF Unborn, Process
<1>3. \A p \in Processes : procs[p] = Unborn  BY DEF ServeInit
<1>4. ServeTypeOK
 <2> QED BY <1>2 DEF ServeInit, ServeTypeOK, Process
<1>6. AllSound  BY <1>3, <1>1, <1>2 DEF AllSound, Sound
<1>7. OwnLock  BY <1>2, <1>3 DEF OwnLock, Acquiring
<1> QED BY <1>4, <1>6, <1>7 DEF ServeInv

\* Every step of every process keeps the invariant.
LEMMA ServeInvNext == ASSUME ServeInv, [ServeNext]_serveVars PROVE ServeInv'
<1>1. CASE UNCHANGED serveVars
 <2>1. UNCHANGED <<lock, request, procs, foreign, overlap>>  BY <1>1 DEF serveVars
 <2> QED BY <2>1 DEF ServeInv, ServeTypeOK, AllSound, OwnLock, Acquiring
<1>2. ASSUME NEW p \in Processes,
             \/ \E takeover \in BOOLEAN : StartServe(p, takeover)
             \/ ResolveToken(p) \/ LookForInstance(p) \/ AskToStop(p) \/ InstanceStopped(p)
             \/ GiveUpTakeover(p) \/ OpenLock(p) \/ WriteLock(p) \/ ReadLock(p) \/ UnlinkLock(p)
             \/ WatchRequests(p) \/ FinishStage(p) \/ FailStage(p) \/ NoticeRequest(p)
             \/ StopServe(p) \/ StopPart(p) \/ ReleaseLock(p) \/ KillServe(p) \/ ReusePid(p)
      PROVE  ServeInv'
 <2>1. CASE \E takeover \in BOOLEAN : StartServe(p, takeover)  BY <2>1, StartServeKeeps
 <2>2. CASE ResolveToken(p) \/ LookForInstance(p) \/ AskToStop(p) \/ InstanceStopped(p)
   BY <2>2, ResolveTokenKeeps, LookForInstanceKeeps, AskToStopKeeps, InstanceStoppedKeeps
 <2>3. CASE GiveUpTakeover(p) \/ OpenLock(p) \/ WriteLock(p) \/ ReadLock(p) \/ UnlinkLock(p)
   BY <2>3, GiveUpTakeoverKeeps, OpenLockKeeps, WriteLockKeeps, ReadLockKeeps, UnlinkLockKeeps
 <2>4. CASE WatchRequests(p) \/ FinishStage(p) \/ FailStage(p)
   BY <2>4, WatchRequestsKeeps, FinishStageKeeps, FailStageKeeps
 <2>5. CASE NoticeRequest(p) \/ StopServe(p)  BY <2>5, StoppedKeeps DEF NoticeRequest, StopServe
 <2>6. CASE StopPart(p) \/ ReleaseLock(p) \/ KillServe(p) \/ ReusePid(p)
   BY <2>6, StopPartKeeps, ReleaseLockKeeps, KillServeKeeps, ReusePidKeeps
 <2> QED BY <1>2, <2>1, <2>2, <2>3, <2>4, <2>5, <2>6
<1> QED BY <1>1, <1>2 DEF ServeNext

\* What it says of the store and of the lock.
LEMMA ServeInvIsSingle == ASSUME ServeInv PROVE ServeIsSingle
<1>2. ~overlap => \A p \in Processes : procs[p].held => lock = [by |-> p, pid |-> TRUE]
  BY DEF ServeInv, OwnLock
<1>3. \A p \in Processes : [by |-> p, pid |-> TRUE] \in [by : Processes, pid : BOOLEAN]  OBVIOUS
<1>4. Nothing \notin [by : Processes, pid : BOOLEAN]  BY NothingIsNoLock
<1>5. \A p \in Processes : [by |-> p, pid |-> TRUE] # Nothing  BY <1>3, <1>4, Zenon
<1>6. \A p \in Processes : [by |-> p, pid |-> TRUE].by = p  OBVIOUS
<1>8. \A p \in Processes : Sound(procs[p])  BY DEF ServeInv, AllSound
<1>9. OneServes
 <2> SUFFICES ASSUME ~overlap, NEW p \in Processes, NEW q \in Processes,
                     "store" \in procs[p].runs, "store" \in procs[q].runs
              PROVE  p = q
   BY DEF OneServes
 <2> QED BY <1>2, <1>6, <1>8 DEF Sound
<1>10. StoreClosesLast  BY <1>8 DEF Sound, StoreClosesLast
<1> QED BY <1>9, <1>10, <1>2, <1>5, <1>6 DEF ServeIsSingle, ServeInv, RefusedLeavesLock

\* operations.md:70 and application.ts: whatever starts, takeovers, failures and kills
\* follow one another, at most one process has the store open as long as no two starts
\* were inside acquire() at once; what uses the store stops before the store closes;
\* and a start that is refused does not take the lock of the one that serves.
THEOREM OneProcessServes == ServeSpec => []ServeIsSingle
<1>1. ServeInit => ServeInv  BY ServeInvInit
<1>2. ServeInv /\ [ServeNext]_serveVars => ServeInv'  BY ServeInvNext
<1>3. ServeInv => ServeIsSingle  BY ServeInvIsSingle
<1> QED BY <1>1, <1>2, <1>3, PTL DEF ServeSpec

(***************************************************************************)
(* Who may call a model and when, for every instance of ModelCalls.        *)
(*                                                                         *)
(* CallsAreAdmitted is not inductive.  The inductive invariant CallsInv    *)
(* says what each semaphore IS, as a function of its clients' states:      *)
(*   GatesInv     the queue of a chat's gate holds exactly the agents and  *)
(*                analyses that wait there, each once, and whoever calls   *)
(*                is alone inside,                                         *)
(*   VisionInv    the same for the vision semaphore, whose permits may be  *)
(*                lost, with the index's analyses behind the chats',       *)
(*   JobsInv      whose analysis a job is, and that the index's is its     *)
(*                worker's,                                                *)
(*   SpendingInv  that a day's account and the calls let through but not   *)
(*                charged yet fit the overrun together,                    *)
(*   IndexInv, SleepInv  the index's budget, and how far a sleep reaches.  *)
(* Sequences enter in three lemmas: a client Inserted, Served and Left.    *)
(***************************************************************************)

------------------------------------------------------------------------------
(* Numbers.                                                                    *)

\* Days: an hour lies in its day, later hours in no earlier one.
LEMMA DayFacts ==
    /\ \A h \in Nat : Day(h) \in Nat
    /\ \A h, g \in Nat : h <= g => Day(h) <= Day(g)
    /\ \A h, k \in Nat : (k + 1) * DayHours <= h => Day(h) > k
<1>1. DayHours \in Nat \ {0}  BY CallsAssumption
<1>2. ASSUME NEW h \in Nat
      PROVE  /\ Day(h) \in Nat /\ Day(h) * DayHours <= h
             /\ h < (Day(h) + 1) * DayHours
  BY <1>1 DEF Day
<1>3. \A a, b \in Nat : a <= b => a * DayHours <= b * DayHours  BY <1>1
<1>4. ASSUME NEW h \in Nat, NEW g \in Nat, h <= g, Day(g) < Day(h) PROVE FALSE
 <2>2. (Day(g) + 1) * DayHours <= Day(h) * DayHours  BY <1>2, <1>3, <1>4
 <2> DEFINE u == (Day(g) + 1) * DayHours
            v == Day(h) * DayHours
 <2> HIDE DEF u, v
 <2> QED BY <1>4, <1>1, <1>2, <2>2
<1>5. ASSUME NEW h \in Nat, NEW k \in Nat, (k + 1) * DayHours <= h, Day(h) <= k PROVE FALSE
 <2> DEFINE u == (Day(h) + 1) * DayHours
            v == (k + 1) * DayHours
 <2>3. h < u /\ v <= h /\ u <= v /\ u \in Int /\ v \in Int  BY <1>1, <1>2, <1>5, <1>3
 <2> HIDE DEF u, v
 <2> QED BY <2>3
<1> QED BY <1>2, <1>4, <1>5

------------------------------------------------------------------------------
(* A queue: its clients are W, each once.                                      *)

Queues(w, W) ==
    /\ \A i, j \in DOMAIN w : w[i] = w[j] => i = j
    /\ ToSet(w) = W

\* v is w with x at place k.
PlacedAt(v, w, k, x) ==
    /\ Len(v) = Len(w) + 1
    /\ \A i \in 1..Len(w) + 1 : v[i] = IF i < k THEN w[i] ELSE IF i = k THEN x ELSE w[i - 1]

\* A client is inserted.
LEMMA Inserted ==
    ASSUME NEW C, NEW w \in Seq(C), NEW W, Queues(w, W), NEW x \in C, x \notin W,
           NEW k \in 1..Len(w) + 1
    PROVE  LET v == InsertAt(w, k, x) IN
           v \in Seq(C) /\ Queues(v, W \cup {x}) /\ PlacedAt(v, w, k, x)
<1> DEFINE n == Len(w)
           a == SubSeq(w, 1, k - 1)
           b == SubSeq(w, k, n)
           v == InsertAt(w, k, x)
<1>1. /\ n \in Nat /\ k \in Nat /\ 1 <= k /\ k <= n + 1 /\ DOMAIN w = 1..n
      /\ \A i \in 1..n : w[i] \in C
  OBVIOUS
<1>2. a \in Seq(C) /\ Len(a) = k - 1 /\ \A i \in 1..k - 1 : a[i] = w[i]  BY <1>1
<1>3. b \in Seq(C) /\ Len(b) = n - k + 1 /\ \A i \in 1..n - k + 1 : b[i] = w[k + i - 1]
 <2>2. /\ b \in Seq(C) /\ Len(b) = (IF k <= n THEN n - k + 1 ELSE 0)
       /\ \A i \in 1..n - k + 1 : b[i] = w[k + i - 1]
   BY SubSeqProperties, <1>1
 <2> HIDE DEF b, n
 <2> QED BY <1>1, <2>2
<1> HIDE DEF a, b, n
<1>5. /\ v \in Seq(C) /\ Len(v) = n + 1 /\ DOMAIN v = 1..n + 1
      /\ \A i \in 1..n + 1 : v[i] = IF i < k THEN w[i] ELSE IF i = k THEN x ELSE w[i - 1]
 <2> DEFINE c == a \o <<x>>
 <2>1. /\ c \in Seq(C) /\ Len(c) = k /\ DOMAIN c = 1..k /\ c[k] = x
       /\ \A i \in 1..k - 1 : c[i] = w[i]
   BY <1>1, <1>2
 <2>2. v = c \o b  BY DEF v, a, b, n, InsertAt
 <2> HIDE DEF c, v
 <2>3. /\ v \in Seq(C) /\ Len(v) = k + (n - k + 1)
       /\ \A i \in 1..k + (n - k + 1) : v[i] = IF i <= k THEN c[i] ELSE b[i - k]
  <3>1. /\ c \o b \in Seq(C) /\ Len(c \o b) = Len(c) + Len(b)
        /\ \A i \in 1..Len(c) + Len(b) : (c \o b)[i] = IF i <= Len(c) THEN c[i] ELSE b[i - Len(c)]
    BY <1>3, <2>1, ConcatProperties
  <3> QED BY <1>3, <2>1, <2>2, <3>1
 <2>4. Len(v) = n + 1 /\ \A i \in 1..n + 1 : v[i] = IF i <= k THEN c[i] ELSE b[i - k]
  <3> QED BY <2>3, <1>1
 <2>5. ASSUME NEW i \in 1..n + 1
       PROVE  v[i] = IF i < k THEN w[i] ELSE IF i = k THEN x ELSE w[i - 1]
  <3>1. CASE i <= k  BY <1>1, <2>1, <2>4, <3>1
  <3>2. CASE i > k
   <4>1. i - k \in 1..n - k + 1 /\ k + (i - k) - 1 = i - 1  BY <1>1, <3>2
   <4> QED BY <1>1, <1>3, <2>4, <3>2, <4>1
  <3> QED BY <1>1, <3>1, <3>2
 <2> QED BY <2>3, <2>4, <2>5
<1> HIDE DEF v
<1>6. ToSet(v) = W \cup {x}
 <2>1. ASSUME NEW i \in DOMAIN v PROVE v[i] \in W \cup {x}
  <3> QED BY <1>1, <1>5 DEF Queues, ToSet
 <2>2. ASSUME NEW i \in DOMAIN w PROVE w[i] \in ToSet(v)
  <3>1. CASE i < k  BY <3>1, <1>1, <1>5 DEF ToSet
  <3>2. CASE i >= k
   <4>1. i + 1 \in DOMAIN v /\ v[i + 1] = w[i]  BY <3>2, <1>1, <1>5
   <4> QED BY <4>1 DEF ToSet
  <3> QED BY <3>1, <3>2, <1>1
 <2> QED BY <2>1, <2>2, <1>1, <1>5 DEF Queues, ToSet
<1>7. ASSUME NEW i \in DOMAIN v, NEW j \in DOMAIN v, v[i] = v[j], i < j PROVE FALSE
 <2>1. \A l \in DOMAIN w : w[l] # x  BY DEF Queues, ToSet
 <2>2. i \in Nat /\ j \in Nat /\ i <= n + 1 /\ j <= n + 1 /\ 1 <= i  BY <1>1, <1>5
 <2>3. CASE i < k /\ j < k
  <3> QED BY <1>7, <2>2, <1>1, <1>5, <2>3 DEF Queues
 <2>4. CASE i < k /\ j = k
  <3> QED BY <1>7, <2>1, <1>1, <1>5, <2>2, <2>4
 <2>5. CASE i < k /\ j > k
  <3>1. v[i] = w[i] /\ v[j] = w[j - 1] /\ i \in DOMAIN w /\ j - 1 \in DOMAIN w /\ i # j - 1
    BY <1>1, <1>5, <2>2, <2>5
  <3> QED BY <1>7, <3>1 DEF Queues
 <2>6. CASE i = k
  <3>1. v[i] = x /\ v[j] = w[j - 1] /\ j - 1 \in DOMAIN w  BY <1>1, <1>5, <1>7, <2>2, <2>6
  <3> QED BY <1>7, <3>1, <2>1
 <2>7. CASE i > k
  <3>1. /\ v[i] = w[i - 1] /\ v[j] = w[j - 1]
        /\ i - 1 \in DOMAIN w /\ j - 1 \in DOMAIN w /\ i - 1 # j - 1
    BY <1>1, <1>5, <1>7, <2>2, <2>7
  <3> QED BY <1>7, <3>1 DEF Queues
 <2> QED BY <1>1, <2>2, <2>3, <2>4, <2>5, <2>6, <2>7
<1>8. Queues(v, W \cup {x})
 <2> QED BY <1>6, <1>7, <1>1, <1>5 DEF Queues
<1> QED BY <1>5, <1>8 DEF v, PlacedAt, n

\* The first client leaves.
LEMMA Served ==
    ASSUME NEW C, NEW w \in Seq(C), NEW W, Queues(w, W), w # <<>>
    PROVE  /\ Tail(w) \in Seq(C) /\ Head(w) \in W /\ Head(w) \in C
           /\ Queues(Tail(w), W \ {Head(w)})
           /\ Head(w) = w[1] /\ Len(Tail(w)) = Len(w) - 1
           /\ \A i \in 1..Len(w) - 1 : Tail(w)[i] = w[i + 1]
<1> DEFINE v == Tail(w)
           n == Len(w)
<1>1. /\ v \in Seq(C) /\ Len(v) = n - 1 /\ Head(w) = w[1] /\ Head(w) \in C
      /\ DOMAIN w = 1..n /\ DOMAIN v = 1..n - 1 /\ n \in Nat /\ n >= 1
      /\ \A i \in 1..n - 1 : v[i] = w[i + 1]
  OBVIOUS
<1> HIDE DEF v, n
<1>2. 1 \in DOMAIN w  BY <1>1
<1>3. ASSUME NEW i \in DOMAIN v
      PROVE  i + 1 \in DOMAIN w /\ v[i] = w[i + 1] /\ i + 1 # 1 /\ i \in Nat
  BY <1>1
<1>4. ASSUME NEW i \in DOMAIN w, i # 1 PROVE i - 1 \in DOMAIN v /\ v[i - 1] = w[i]
  BY <1>1, <1>4
<1>5. ToSet(v) = W \ {Head(w)}  BY <1>1, <1>2, <1>3, <1>4 DEF ToSet, Queues
<1> QED BY <1>1, <1>2, <1>5, <1>3 DEF Queues, ToSet, v, n

\* A client leaves from wherever it is.
LEMMA Left ==
    ASSUME NEW C, NEW w \in Seq(C), NEW W, Queues(w, W), NEW x \in W
    PROVE  LET v == RemoveFirst(w, x) IN
           /\ v \in Seq(C) /\ Queues(v, W \ {x})
           /\ \E k \in 1..Len(w) :
                  /\ Len(v) = Len(w) - 1
                  /\ \A i \in 1..Len(w) - 1 : v[i] = IF i < k THEN w[i] ELSE w[i + 1]
<1> DEFINE n == Len(w)
           v == RemoveFirst(w, x)
<1>1. n \in Nat /\ DOMAIN w = 1..n /\ \A i \in 1..n : w[i] \in C  OBVIOUS
<1>2. PICK k \in 1..n : w[k] = x  BY <1>1 DEF Queues, ToSet
<1>3. v = RemoveAt(w, k)
 <2>3. SelectInSeq(w, LAMBDA z : z = x) = k  BY <1>1, <1>2 DEF SelectInSeq, Queues, Min
 <2> QED BY <1>2, <2>3 DEF RemoveFirst
<1> DEFINE a == SubSeq(w, 1, k - 1)
           b == SubSeq(w, k + 1, n)
<1>4. a \in Seq(C) /\ Len(a) = k - 1 /\ \A i \in 1..k - 1 : a[i] = w[i]  BY <1>1
<1>5. b \in Seq(C) /\ Len(b) = n - k /\ \A i \in 1..n - k : b[i] = w[k + i]
 <2>2. /\ b \in Seq(C) /\ Len(b) = (IF k + 1 <= n THEN n - (k + 1) + 1 ELSE 0)
       /\ \A i \in 1..n - (k + 1) + 1 : b[i] = w[(k + 1) + i - 1]
   BY SubSeqProperties, <1>1
 <2> HIDE DEF b, n
 <2>4. ASSUME NEW i \in 1..n - k PROVE b[i] = w[k + i]
  <3>1. i \in 1..n - (k + 1) + 1 /\ (k + 1) + i - 1 = k + i  BY <1>1
  <3> QED BY <2>2, <3>1
 <2> QED BY <2>2, <2>4, <1>1
<1>6. v = a \o b  BY <1>3 DEF RemoveAt
<1> HIDE DEF a, b, n, v
<1>7. /\ v \in Seq(C) /\ Len(v) = n - 1 /\ DOMAIN v = 1..n - 1
      /\ \A i \in 1..n - 1 : v[i] = IF i < k THEN w[i] ELSE w[i + 1]
 <2>1. /\ v \in Seq(C) /\ Len(v) = (k - 1) + (n - k)
       /\ \A i \in 1..(k - 1) + (n - k) : v[i] = IF i <= k - 1 THEN a[i] ELSE b[i - (k - 1)]
  <3> QED BY <1>4, <1>5, <1>6, ConcatProperties
 <2>2. /\ Len(v) = n - 1
       /\ \A i \in 1..n - 1 : v[i] = IF i <= k - 1 THEN a[i] ELSE b[i - (k - 1)]
   BY <1>1, <2>1
 <2>3. ASSUME NEW i \in 1..n - 1 PROVE v[i] = IF i < k THEN w[i] ELSE w[i + 1]
  <3>1. CASE i < k
   <4> QED BY <1>4, <2>2, <3>1, <1>1
  <3>2. CASE i >= k
   <4> QED BY <1>5, <2>2, <1>1, <3>2
  <3> QED BY <1>1, <3>1, <3>2
 <2> QED BY <2>1, <2>2, <2>3
<1>8. ASSUME NEW i \in DOMAIN v
      PROVE  \E l \in DOMAIN w : /\ l # k /\ v[i] = w[l]
                                 /\ l = IF i < k THEN i ELSE i + 1
 <2>1. CASE i < k  BY <2>1, <1>1, <1>7
 <2>2. CASE i >= k  BY <2>2, <1>1, <1>7
 <2> QED BY <2>1, <2>2, <1>1, <1>7
<1>9. ASSUME NEW l \in DOMAIN w, l # k PROVE \E i \in DOMAIN v : v[i] = w[l]
 <2>1. CASE l < k  BY <2>1, <1>1, <1>7
 <2>2. CASE l > k
  <3>1. l - 1 \in DOMAIN v /\ v[l - 1] = w[l]  BY <2>2, <1>1, <1>7
  <3> QED BY <3>1
 <2> QED BY <2>1, <2>2, <1>9, <1>1
<1>10. ToSet(v) = W \ {x}  BY <1>1, <1>2, <1>8, <1>9 DEF ToSet, Queues
<1>11. \A i, j \in DOMAIN v : v[i] = v[j] => i = j
 <2> SUFFICES ASSUME NEW i \in DOMAIN v, NEW j \in DOMAIN v, v[i] = v[j] PROVE i = j  OBVIOUS
 <2>2. i \in Nat /\ j \in Nat /\ k \in Nat  BY <1>1, <1>7
 <2> QED BY <2>2, <1>8 DEF Queues
<1> QED BY <1>7, <1>10, <1>11 DEF Queues, v, n

------------------------------------------------------------------------------
(* Semaphores, as values: W waits, H holds a permit.                           *)

\* The gate of a chat.
GateIs(sem, W, H) ==
    /\ sem \in Semaphore(Agents \cup Media) /\ Queues(sem.waiters, W)
    /\ \/ sem.active = 0 /\ W = {} /\ H = {}
       \/ sem.active = 1 /\ \E h \in H : H = {h}

\* The vision semaphore, whose permits may be lost.
VisionIs(sem, W, H) ==
    /\ sem \in Semaphore(Media) /\ Queues(sem.waiters, W)
    /\ sem.active <= VisionLimit
    /\ W # {} => sem.active = VisionLimit
    /\ IsFiniteSet(H) /\ Cardinality(H) <= sem.active

\* Whoever is in I waits behind all the others.
Behind(w, I) == \A i, j \in DOMAIN w : i < j /\ w[i] \in I => w[j] \in I

\* A semaphore's fields, and when its queue is empty.
LEMMA SemaphoreFacts ==
    ASSUME NEW C, NEW sem \in Semaphore(C), NEW W, Queues(sem.waiters, W)
    PROVE  /\ sem.active \in Nat /\ sem.waiters \in Seq(C)
           /\ sem.waiters = <<>> <=> W = {}
           /\ W \subseteq C
           /\ sem = [active |-> sem.active, waiters |-> sem.waiters]
<1> DEFINE w == sem.waiters
<1>1. /\ sem.active \in Nat /\ w \in Seq(C)
      /\ sem = [active |-> sem.active, waiters |-> w]
  BY DEF Semaphore
<1> HIDE DEF w
<1>2. /\ DOMAIN w = 1..Len(w) /\ Len(w) \in Nat /\ \A i \in DOMAIN w : w[i] \in C
      /\ w = <<>> <=> Len(w) = 0
  BY <1>1
<1>3. Queues(w, W)  BY DEF w
<1>5. w # <<>> => W # {}
 <2> SUFFICES ASSUME w # <<>> PROVE W # {}  OBVIOUS
 <2> QED BY <1>3, <1>2 DEF Queues, ToSet
<1> QED BY <1>1, <1>5, <1>2, <1>3 DEF w, Queues, ToSet

\* A semaphore from its fields.
LEMMA SemaphoreOf ==
    ASSUME NEW C, NEW n \in Nat, NEW q \in Seq(C)
    PROVE  /\ [active |-> n, waiters |-> q] \in Semaphore(C)
           /\ [active |-> n, waiters |-> q].active = n
           /\ [active |-> n, waiters |-> q].waiters = q
BY DEF Semaphore

\* Where EnterQueue puts a client.
LEMMA PlaceInQueue ==
    ASSUME NEW C, NEW w \in Seq(C), NEW W, Queues(w, W), NEW x \in C, x \notin W, NEW rank,
           \A y \in W \cup {x} : rank[y] \in Nat
    PROVE  /\ EnterQueue(w, x, rank) \in Seq(C)
           /\ Queues(EnterQueue(w, x, rank), W \cup {x})
           /\ \E k \in 1..Len(w) + 1 :
                  /\ \A i \in 1..Len(w) : i < k => rank[w[i]] <= rank[x]
                  /\ k <= Len(w) => rank[w[k]] > rank[x]
                  /\ PlacedAt(EnterQueue(w, x, rank), w, k, x)
<1> DEFINE later == {i \in DOMAIN w : rank[w[i]] > rank[x]}
           k == IF later = {} THEN Len(w) + 1 ELSE Min(later)
<1>1. DOMAIN w = 1..Len(w) /\ Len(w) \in Nat /\ \A i \in DOMAIN w : w[i] \in W
  BY DEF Queues, ToSet
<1>2. EnterQueue(w, x, rank) = InsertAt(w, k, x)  BY DEF EnterQueue
<1>3. later # {} => Min(later) \in later /\ \A i \in later : Min(later) <= i
 <2> HIDE DEF later
 <2> SUFFICES ASSUME later # {} PROVE \E i \in later : \A j \in later : i <= j  BY DEF Min
 <2>1. later \in SUBSET Nat  BY <1>1 DEF later
 <2> QED BY <2>1, LeastNat
<1>0. later \subseteq 1..Len(w)  BY <1>1
<1> HIDE DEF later
<1>4. /\ k \in 1..Len(w) + 1
      /\ \A i \in 1..Len(w) : i < k => i \notin later
      /\ k <= Len(w) => k \in later
 <2>1. CASE later = {}
  <3>1. k = Len(w) + 1  BY <2>1
  <3> HIDE DEF k
  <3> QED BY <2>1, <3>1, <1>1
 <2>2. CASE later # {}
  <3>1. k = Min(later)  BY <2>2
  <3> HIDE DEF k
  <3>2. k \in later /\ \A i \in later : k <= i  BY <1>3, <2>2, <3>1
  <3> QED BY <3>2, <1>1, <1>0
 <2> QED BY <2>1, <2>2
<1> HIDE DEF k
<1>7. /\ \A i \in 1..Len(w) : i < k => rank[w[i]] <= rank[x]
      /\ k <= Len(w) => rank[w[k]] > rank[x]
 <2>1. ASSUME NEW i \in 1..Len(w), i < k PROVE rank[w[i]] <= rank[x]
  <3> QED BY <1>1, <1>4, <2>1 DEF later
 <2> QED BY <2>1, <1>4 DEF later
<1>8. /\ InsertAt(w, k, x) \in Seq(C) /\ Queues(InsertAt(w, k, x), W \cup {x})
      /\ PlacedAt(InsertAt(w, k, x), w, k, x)
 <2> HIDE DEF k
 <2> QED BY Inserted, <1>4
<1> HIDE DEF k
<1> QED BY <1>2, <1>4, <1>7, <1>8

\* At a gate: a client comes, and is let in or waits ...
LEMMA GateEntered ==
    ASSUME NEW sem, NEW W, NEW H, GateIs(sem, W, H), NEW x \in Agents \cup Media, x \notin W
    PROVE  /\ HasRoom(sem, 1) => GateIs(Acquire(sem, x, 1, FirstCome), W, {x})
           /\ HasRoom(sem, 1) => H = {}
           /\ ~HasRoom(sem, 1) => GateIs(Acquire(sem, x, 1, FirstCome), W \cup {x}, H)
<1> DEFINE C == Agents \cup Media
           g == Acquire(sem, x, 1, FirstCome)
<1>1. /\ sem.active \in Nat /\ sem.waiters \in Seq(C) /\ W \subseteq C
      /\ sem = [active |-> sem.active, waiters |-> sem.waiters] /\ sem \in Semaphore(C)
      /\ Queues(sem.waiters, W)
  BY SemaphoreFacts DEF GateIs
<1>2. CASE HasRoom(sem, 1)
 <2>1. sem.active = 0 /\ W = {} /\ H = {}  BY <1>1, <1>2 DEF HasRoom, GateIs
 <2>2. g = [active |-> 1, waiters |-> sem.waiters]  BY <1>1, <1>2, <2>1 DEF Acquire
 <2> HIDE DEF g
 <2>3. g \in Semaphore(C) /\ g.active = 1 /\ g.waiters = sem.waiters  BY <1>1, <2>2, SemaphoreOf
 <2> QED BY <1>2, <2>1, <1>1, <2>3 DEF g, GateIs
<1>3. CASE ~HasRoom(sem, 1)
 <2>1. sem.active = 1 /\ \E h \in H : H = {h}
  <3> QED BY <1>3 DEF GateIs, HasRoom
 <2> DEFINE q == EnterQueue(sem.waiters, x, FirstCome)
 <2>3. q \in Seq(C) /\ Queues(q, W \cup {x})  BY <1>1, PlaceInQueue DEF FirstCome
 <2>4. g = [active |-> 1, waiters |-> q]  BY <1>1, <1>3, <2>1 DEF Acquire
 <2> HIDE DEF q, g
 <2>5. g \in Semaphore(C) /\ g.active = 1 /\ g.waiters = q  BY <2>3, <2>4, SemaphoreOf
 <2> QED BY <1>3, <2>1, <2>3, <2>5 DEF g, GateIs
<1> QED BY <1>2, <1>3

\* ... the one inside leaves, and the first who waits is let in ...
LEMMA GateReleased ==
    ASSUME NEW sem, NEW W, NEW H, GateIs(sem, W, H), NEW x \in H
    PROVE  /\ H = {x} /\ HandedTo(sem) \subseteq W
           /\ GateIs(Release(sem), W \ HandedTo(sem), HandedTo(sem))
<1> DEFINE C == Agents \cup Media
           g == Release(sem)
<1>1. /\ sem.active \in Nat /\ sem.waiters \in Seq(C) /\ W \subseteq C
      /\ sem = [active |-> sem.active, waiters |-> sem.waiters] /\ sem \in Semaphore(C)
      /\ Queues(sem.waiters, W) /\ (sem.waiters = <<>> <=> W = {})
  BY SemaphoreFacts DEF GateIs
<1>2. sem.active = 1 /\ H = {x}  BY DEF GateIs
<1>3. CASE sem.waiters = <<>>
 <2>1. HandedTo(sem) = {} /\ g = [active |-> 0, waiters |-> sem.waiters]
   BY <1>1, <1>2, <1>3 DEF HandedTo, Release
 <2> HIDE DEF g
 <2>3. GateIs(g, {}, {}) /\ W = {}  BY <1>1, <1>3, <2>1, SemaphoreOf DEF GateIs
 <2> QED BY <1>2, <2>1, <2>3 DEF g
<1>4. CASE sem.waiters # <<>>
 <2> DEFINE q == Tail(sem.waiters)
            h == Head(sem.waiters)
 <2>1. HandedTo(sem) = {h} /\ g = [active |-> 1, waiters |-> q]
   BY <1>1, <1>2, <1>4 DEF HandedTo, Release
 <2>2. q \in Seq(C) /\ h \in W /\ Queues(q, W \ {h})  BY <1>1, <1>4, Served
 <2> HIDE DEF q, h, g
 <2>4. GateIs(g, W \ {h}, {h})  BY <2>2, <2>1, SemaphoreOf DEF GateIs
 <2> QED BY <1>2, <2>1, <2>2, <2>4 DEF g
<1> QED BY <1>3, <1>4

\* ... or one of those who wait goes.
LEMMA GateLeft ==
    ASSUME NEW sem, NEW W, NEW H, GateIs(sem, W, H), NEW x \in W
    PROVE  GateIs(Withdraw(sem, x), W \ {x}, H)
<1> DEFINE C == Agents \cup Media
           q == RemoveFirst(sem.waiters, x)
           g == Withdraw(sem, x)
<1>1. /\ sem.active \in Nat /\ sem.waiters \in Seq(C)
      /\ sem = [active |-> sem.active, waiters |-> sem.waiters] /\ sem \in Semaphore(C)
      /\ Queues(sem.waiters, W) /\ sem.active = 1 /\ \E h \in H : H = {h}
  BY SemaphoreFacts DEF GateIs
<1>2. q \in Seq(C) /\ Queues(q, W \ {x})  BY <1>1, Left
<1>3. g = [active |-> 1, waiters |-> q]  BY <1>1 DEF Withdraw
<1> HIDE DEF q, g
<1>4. g \in Semaphore(C) /\ g.active = 1 /\ g.waiters = q  BY <1>2, <1>3, SemaphoreOf
<1> QED BY <1>1, <1>2, <1>4 DEF g, GateIs

\* At the vision semaphore: I are the index's analyses.
LEMMA VisionEntered ==
    ASSUME NEW sem, NEW W, NEW H, VisionIs(sem, W, H), NEW x \in Media, x \notin W, x \notin H,
           NEW rank, NEW I, Behind(sem.waiters, I),
           \A y \in W \cup {x} : rank[y] = IF y \in I THEN 1 ELSE 0
    PROVE  /\ HasRoom(sem, VisionLimit) =>
                  VisionIs(Acquire(sem, x, VisionLimit, rank), W, H \cup {x})
           /\ ~HasRoom(sem, VisionLimit) =>
                  VisionIs(Acquire(sem, x, VisionLimit, rank), W \cup {x}, H)
           /\ Behind(Acquire(sem, x, VisionLimit, rank).waiters, I)
<1> DEFINE g == Acquire(sem, x, VisionLimit, rank)
           w == sem.waiters
<1>1. /\ sem.active \in Nat /\ w \in Seq(Media) /\ W \subseteq Media
      /\ sem = [active |-> sem.active, waiters |-> w] /\ sem \in Semaphore(Media)
      /\ Queues(w, W) /\ sem.active <= VisionLimit /\ VisionLimit \in Nat
      /\ (W # {} => sem.active = VisionLimit)
      /\ IsFiniteSet(H) /\ Cardinality(H) <= sem.active /\ Cardinality(H) \in Nat
  BY SemaphoreFacts, CallsAssumption, FS_CardinalityType DEF VisionIs
<1>2. CASE HasRoom(sem, VisionLimit)
 <2>2. g = [active |-> sem.active + 1, waiters |-> w]  BY <1>1, <1>2 DEF Acquire
 <2>3. IsFiniteSet(H \cup {x}) /\ Cardinality(H \cup {x}) = Cardinality(H) + 1
   BY <1>1, FS_AddElement
 <2> HIDE DEF g, w
 <2>4. g \in Semaphore(Media) /\ g.active = sem.active + 1 /\ g.waiters = w
  <3>1. sem.active + 1 \in Nat  BY <1>1
  <3> QED BY <1>1, <2>2, <3>1, SemaphoreOf
 <2>5. VisionIs(g, W, H \cup {x})  BY <1>1, <2>3, <2>4, <1>2 DEF VisionIs, HasRoom
 <2> QED BY <1>2, <2>5, <2>4 DEF g, w
<1>3. CASE ~HasRoom(sem, VisionLimit)
 <2>1. sem.active = VisionLimit  BY <1>1, <1>3 DEF HasRoom
 <2> DEFINE q == EnterQueue(w, x, rank)
 <2>2. \A y \in W \cup {x} : rank[y] \in Nat  OBVIOUS
 <2> HIDE DEF w
 <2>3. /\ q \in Seq(Media) /\ Queues(q, W \cup {x})
       /\ \E k \in 1..Len(w) + 1 :
              /\ \A i \in 1..Len(w) : i < k => rank[w[i]] <= rank[x]
              /\ k <= Len(w) => rank[w[k]] > rank[x]
              /\ PlacedAt(q, w, k, x)
  <3> QED BY <2>2, PlaceInQueue, <1>1
 <2>4. g = [active |-> VisionLimit, waiters |-> q]  BY <1>1, <1>3, <2>1 DEF Acquire, w
 <2> HIDE DEF q, g
 <2>7. Behind(q, I)
  <3>1. PICK k \in 1..Len(w) + 1 :
            /\ \A i \in 1..Len(w) : i < k => rank[w[i]] <= rank[x]
            /\ k <= Len(w) => rank[w[k]] > rank[x]
            /\ \A i \in 1..Len(w) + 1 :
                   q[i] = IF i < k THEN w[i] ELSE IF i = k THEN x ELSE w[i - 1]
    BY <2>3 DEF PlacedAt
  <3>2. /\ DOMAIN w = 1..Len(w) /\ Len(w) \in Nat /\ DOMAIN q = 1..Len(w) + 1
        /\ \A i \in DOMAIN w : w[i] \in W
    BY <1>1, <2>3 DEF Queues, ToSet, PlacedAt
  <3>3. Behind(w, I)  BY DEF w
  <3> SUFFICES ASSUME NEW i \in DOMAIN q, NEW j \in DOMAIN q, i < j, q[i] \in I
               PROVE  q[j] \in I
    BY DEF Behind
  <3>4. ASSUME NEW l \in DOMAIN w, l < k, w[l] \in I PROVE x \in I
   <4> QED BY <3>1, <3>2, <3>4
  <3>5. k <= Len(w) => w[k] \in I /\ x \notin I
   <4> SUFFICES ASSUME k <= Len(w) PROVE w[k] \in I /\ x \notin I  OBVIOUS
   <4> QED BY <3>1, <3>2
  <3>6. CASE i < k /\ j < k
   <4> QED BY <3>3, <3>1, <3>2, <3>6 DEF Behind
  <3>7. CASE i < k /\ j = k
   <4> QED BY <3>4, <3>7, <3>1, <3>2
  <3>8. CASE i < k /\ j > k
   <4> QED BY <3>3, <3>1, <3>2, <3>8 DEF Behind
  <3>9. CASE i = k
   <4> QED BY <3>5, <3>1, <3>2, <3>9
  <3>10. CASE i > k
   <4> QED BY <3>3, <3>1, <3>2, <3>10 DEF Behind
  <3> QED BY <3>1, <3>2, <3>6, <3>7, <3>8, <3>9, <3>10
 <2> QED BY <1>3, <2>7, <1>1, <2>1, <2>3, <2>4, SemaphoreOf DEF g, VisionIs
<1> QED BY <1>2, <1>3

\* ... the permit of one inside goes to the first who waits ...
LEMMA VisionReleased ==
    ASSUME NEW sem, NEW W, NEW H, VisionIs(sem, W, H), NEW x \in H, W \cap H = {},
           NEW I, Behind(sem.waiters, I)
    PROVE  /\ HandedTo(sem) \subseteq W
           /\ VisionIs(Release(sem), W \ HandedTo(sem), (H \ {x}) \cup HandedTo(sem))
           /\ Behind(Release(sem).waiters, I)
<1> DEFINE g == Release(sem)
           w == sem.waiters
<1>1. /\ sem.active \in Nat /\ w \in Seq(Media) /\ W \subseteq Media
      /\ sem = [active |-> sem.active, waiters |-> w] /\ sem \in Semaphore(Media)
      /\ Queues(w, W) /\ sem.active <= VisionLimit /\ VisionLimit \in Nat
      /\ (W # {} => sem.active = VisionLimit) /\ (w = <<>> <=> W = {})
      /\ IsFiniteSet(H) /\ Cardinality(H) <= sem.active /\ Cardinality(H) \in Nat
  BY SemaphoreFacts, CallsAssumption, FS_CardinalityType DEF VisionIs
<1>2. /\ IsFiniteSet(H \ {x}) /\ Cardinality(H \ {x}) = Cardinality(H) - 1
      /\ Cardinality(H \ {x}) \in Nat
  BY <1>1, FS_RemoveElement, FS_CardinalityType
<1>3. CASE w = <<>>
 <2>1. HandedTo(sem) = {} /\ g = [active |-> sem.active - 1, waiters |-> w]
   BY <1>1, <1>3 DEF HandedTo, Release
 <2>2. sem.active - 1 \in Nat /\ W = {}  BY <1>1, <1>2, <1>3
 <2> HIDE DEF g, w
 <2>3. g \in Semaphore(Media) /\ g.active = sem.active - 1 /\ g.waiters = w
   BY <1>1, <2>1, <2>2, SemaphoreOf
 <2> QED BY <2>1, <2>2, <1>1, <1>2, <2>3 DEF g, VisionIs, w
<1>4. CASE w # <<>>
 <2> DEFINE q == Tail(w)
            h == Head(w)
 <2>1. HandedTo(sem) = {h} /\ g = [active |-> sem.active, waiters |-> q]
   BY <1>1, <1>4 DEF HandedTo, Release
 <2>2. /\ q \in Seq(Media) /\ h \in W /\ Queues(q, W \ {h}) /\ Len(q) = Len(w) - 1
       /\ \A i \in 1..Len(w) - 1 : q[i] = w[i + 1]
   BY <1>1, <1>4, Served
 <2>3. DOMAIN w = 1..Len(w) /\ Len(w) \in Nat /\ DOMAIN q = 1..Len(q) /\ Len(w) >= 1
   BY <1>1, <1>4, <2>2
 <2> HIDE DEF q, h, g
 <2>5. /\ IsFiniteSet((H \ {x}) \cup {h})
       /\ Cardinality((H \ {x}) \cup {h}) = Cardinality(H)
  <3> QED BY <1>1, <1>2, FS_AddElement, <2>2
 <2>7. Behind(q, I)
  <3> SUFFICES ASSUME NEW i \in DOMAIN q, NEW j \in DOMAIN q, i < j, q[i] \in I
               PROVE  q[j] \in I
    BY DEF Behind
  <3>1. /\ q[i] = w[i + 1] /\ q[j] = w[j + 1] /\ i + 1 < j + 1
        /\ i + 1 \in DOMAIN w /\ j + 1 \in DOMAIN w
    BY <2>2, <2>3
  <3> QED BY <3>1 DEF Behind, w
 <2> QED BY <2>1, <2>2, <2>7, <1>1, <2>5, SemaphoreOf DEF g, VisionIs
<1> QED BY <1>3, <1>4

\* ... or one of those who wait goes.
LEMMA VisionLeft ==
    ASSUME NEW sem, NEW W, NEW H, VisionIs(sem, W, H), NEW x \in W,
           NEW I, Behind(sem.waiters, I)
    PROVE  /\ VisionIs(Withdraw(sem, x), W \ {x}, H)
           /\ Behind(Withdraw(sem, x).waiters, I)
<1> DEFINE g == Withdraw(sem, x)
           w == sem.waiters
           q == RemoveFirst(w, x)
<1>1. /\ sem.active \in Nat /\ w \in Seq(Media)
      /\ sem = [active |-> sem.active, waiters |-> w] /\ sem \in Semaphore(Media)
      /\ Queues(w, W) /\ sem.active = VisionLimit
      /\ IsFiniteSet(H) /\ Cardinality(H) <= sem.active
  BY SemaphoreFacts DEF VisionIs
<1> HIDE DEF w
<1>2. /\ q \in Seq(Media) /\ Queues(q, W \ {x})
      /\ \E k \in 1..Len(w) :
             /\ Len(q) = Len(w) - 1
             /\ \A i \in 1..Len(w) - 1 : q[i] = IF i < k THEN w[i] ELSE w[i + 1]
  BY <1>1, Left
<1>3. g = [active |-> sem.active, waiters |-> q]  BY <1>1 DEF Withdraw, w
<1> HIDE DEF q, g
<1>6. Behind(q, I)
 <2>1. PICK k \in 1..Len(w) :
           /\ Len(q) = Len(w) - 1
           /\ \A i \in 1..Len(w) - 1 : q[i] = IF i < k THEN w[i] ELSE w[i + 1]
   BY <1>2
 <2>2. DOMAIN w = 1..Len(w) /\ Len(w) \in Nat /\ DOMAIN q = 1..Len(w) - 1  BY <1>1, <1>2, <2>1
 <2> SUFFICES ASSUME NEW i \in DOMAIN q, NEW j \in DOMAIN q, i < j, q[i] \in I
              PROVE  q[j] \in I
   BY DEF Behind
 <2>3. ASSUME NEW l \in DOMAIN q
       PROVE \E n \in DOMAIN w : q[l] = w[n] /\ n = IF l < k THEN l ELSE l + 1
  <3>1. CASE l < k  BY <2>1, <2>2, <3>1
  <3>2. CASE ~ (l < k)  BY <2>1, <2>2, <3>2
  <3> QED BY <3>1, <3>2
 <2>4. PICK n \in DOMAIN w : q[i] = w[n] /\ n = IF i < k THEN i ELSE i + 1  BY <2>3
 <2>5. PICK m \in DOMAIN w : q[j] = w[m] /\ m = IF j < k THEN j ELSE j + 1  BY <2>3
 <2> QED BY <2>4, <2>5, <2>2 DEF Behind, w
<1> QED BY <1>6, <1>1, <1>2, <1>3, SemaphoreOf DEF g, VisionIs

------------------------------------------------------------------------------
(* The invariant.                                                              *)

GateWaiters(c) ==
    {a \in Agents : ChatAt[a] = c /\ agents[a] = "waiting"}
        \cup {m \in Media : jobs[m] # Nobody /\ jobs[m].scope = c
                            /\ jobs[m].stage = "gate"}

VisionWaiters == {m \in Media : jobs[m] # Nobody /\ jobs[m].stage = "queue"}

IndexJobs == {m \in Media : jobs[m] # Nobody /\ jobs[m].scope = "index"}

\* Each gate and the vision semaphore know who waits and who is inside.
GatesInv == \A c \in CallChats : GateIs(gates[c], GateWaiters(c), GateHolders(c))

VisionInv ==
    /\ VisionIs(vision, VisionWaiters, VisionHolders)
    /\ Behind(vision.waiters, IndexJobs)

\* An analysis has the scope of its first caller; the one of the index is that
\* of its worker, which nothing aborts.
JobSound(m) ==
    /\ jobs[m].scope = "index" <=> jobs[m].owner = "index"
    /\ jobs[m].owner \in Readers => MediaOf[jobs[m].owner] = m
    /\ jobs[m].scope = "index" =>
           worker = m /\ ~jobs[m].aborted /\ jobs[m].stage # "gate"

JobsInv == \A m \in Media : jobs[m] # Nobody => JobSound(m)

\* Calls that passed the budget and have not been charged yet.
Through(as, js) ==
    {a \in Agents \ Exempt : as[a] \in {"waiting", "calling"}}
        \cup {m \in Media : js[m] # Nobody /\ js[m].scope # "index"}

LetThrough == Through(agents, jobs)

Overrun == Cardinality(Agents \ Exempt) + Cardinality({MediaOf[r] : r \in Readers})

\* Whoever is let through is paid for by the room it leaves.
SpendingInv ==
    /\ OverrunBounded
    /\ spent[Today].metered + Cardinality(LetThrough) <= MaxTokens - 1 + Overrun
    /\ \A d \in Days : d > Today =>
           spent[d].metered = 0 /\ indexed[d].images = 0 /\ indexed[d].tokens = 0

IndexInv ==
    /\ IndexBudgetKept
    /\ IndexJobs # {} => indexed[Today].tokens < IndexTokens

SleepInv ==
    sleep # Nobody => /\ sleep.since <= hour
                      /\ (Day(sleep.since) + 1) * DayHours <= sleep.until

CallsInv ==
    /\ CallsTypeOK /\ GatesInv /\ VisionInv /\ JobsInv /\ NobodyWaitsForNothing
    /\ SpendingInv /\ IndexInv /\ SleepInv

\* What the types say.
LEMMA CallTypes ==
    ASSUME CallsTypeOK
    PROVE  /\ hour \in Nat /\ hour <= LastHour /\ Today \in Nat /\ Today \in Days
           /\ \A d \in Days : /\ d \in Nat
                              /\ spent[d] \in [metered: Nat, exempt: Nat]
                              /\ spent[d].metered \in Nat /\ spent[d].exempt \in Nat
                              /\ indexed[d] \in [images: Nat, tokens: Nat]
                              /\ indexed[d].images \in Nat /\ indexed[d].tokens \in Nat
           /\ \A d \in Nat : d <= Today => d \in Days
           /\ sleep # Nobody => sleep.since \in Nat /\ sleep.until \in Nat
           /\ {MaxTokens, IndexImages, IndexTokens, LastHour, DayHours, VisionLimit} \subseteq Nat
<1>1. /\ hour \in 0..LastHour /\ {MaxTokens, IndexImages, IndexTokens, LastHour} \subseteq Nat
      /\ {DayHours, VisionLimit} \subseteq Nat
  BY CallsAssumption DEF CallsTypeOK
<1>2. hour \in Nat /\ hour <= LastHour  BY <1>1
<1>3. Day(hour) \in Nat /\ Day(LastHour) \in Nat /\ Day(hour) <= Day(LastHour)
  BY <1>1, <1>2, DayFacts
<1>5. ASSUME NEW d \in Days
      PROVE  /\ d \in Nat
             /\ spent[d] \in [metered: Nat, exempt: Nat]
             /\ spent[d].metered \in Nat /\ spent[d].exempt \in Nat
             /\ indexed[d] \in [images: Nat, tokens: Nat]
             /\ indexed[d].images \in Nat /\ indexed[d].tokens \in Nat
  BY <1>5, <1>3 DEF CallsTypeOK, Days
<1>6. sleep # Nobody => sleep.since \in Nat /\ sleep.until \in Nat  BY DEF CallsTypeOK, Sleep
<1> QED BY <1>1, <1>2, <1>5, <1>6, <1>3 DEF Today, Days

\* The fields of an analysis.
LEMMA JobFields ==
    ASSUME NEW j \in Job
    PROVE  /\ j # Nobody
           /\ j.stage \in {"prepare", "queue", "granted", "gate", "call"}
           /\ j.scope \in CallChats \cup {"index"}
           /\ j.owner \in Readers \cup {"index"} /\ j.aborted \in BOOLEAN
           /\ [j EXCEPT !.aborted = TRUE] \in Job
           /\ [j EXCEPT !.aborted = TRUE].stage = j.stage
           /\ [j EXCEPT !.aborted = TRUE].scope = j.scope
           /\ [j EXCEPT !.aborted = TRUE].owner = j.owner
BY CallsAssumption DEF Job

\* The fields of one that has moved on.
LEMMA StageSet ==
    ASSUME NEW o \in Job, NEW s \in {"prepare", "queue", "granted", "gate", "call"}
    PROVE  /\ [o EXCEPT !.stage = s] \in Job /\ [o EXCEPT !.stage = s] # Nobody
           /\ [o EXCEPT !.stage = s].stage = s
           /\ [o EXCEPT !.stage = s].scope = o.scope
           /\ [o EXCEPT !.stage = s].owner = o.owner
           /\ [o EXCEPT !.stage = s].aborted = o.aborted
<1> QED BY CallsAssumption DEF Job

\* The fields of the analysis of m.
LEMMA JobTypes ==
    ASSUME CallsTypeOK, NEW m \in Media, jobs[m] # Nobody
    PROVE  /\ jobs[m] \in Job
           /\ jobs[m].stage \in {"prepare", "queue", "granted", "gate", "call"}
           /\ jobs[m].scope \in CallChats \cup {"index"}
           /\ jobs[m].owner \in Readers \cup {"index"} /\ jobs[m].aborted \in BOOLEAN
<1> QED BY JobFields DEF CallsTypeOK

\* No more is let through than there are callers.
LEMMA ThroughBounded ==
    ASSUME NEW as, NEW js,
           \A m \in Media : js[m] # Nobody /\ js[m].scope # "index" =>
               /\ js[m].owner \in Readers
               /\ MediaOf[js[m].owner] = m
    PROVE  /\ IsFiniteSet(Through(as, js)) /\ Cardinality(Through(as, js)) \in Nat
           /\ Cardinality(Through(as, js)) <= Overrun /\ Overrun \in Nat
<1> DEFINE A == Agents \ Exempt
           M == {MediaOf[r] : r \in Readers}
<1>1. IsFiniteSet(A) /\ Cardinality(A) \in Nat
  BY CallsAssumption, FS_Difference, FS_CardinalityType
<1>2. IsFiniteSet(M) /\ Cardinality(M) \in Nat
 <2> QED BY FS_CardinalityType, FS_Subset, CallsAssumption
<1>3. A \cap M = {}  BY CallsAssumption
<1>4. Through(as, js) \subseteq A \cup M  BY DEF Through
<1>5. Overrun = Cardinality(A) + Cardinality(M)  BY DEF Overrun
<1> HIDE DEF A, M
<1>6. IsFiniteSet(A \cup M) /\ Cardinality(A \cup M) = Cardinality(A) + Cardinality(M)
 <2>1. IsFiniteSet(A \cup M)
       /\ Cardinality(A \cup M) = Cardinality(A) + Cardinality(M) - Cardinality(A \cap M)
   BY <1>1, <1>2, FS_Union
 <2> QED BY <1>1, <1>2, <2>1, <1>3, FS_EmptySet
<1>9. Overrun \in Nat /\ Cardinality(A \cup M) = Overrun  BY <1>1, <1>2, <1>5, <1>6
<1> QED BY <1>9, FS_CardinalityType, <1>4, <1>6, FS_Subset

\* The overrun as the property writes it.
LEMMA OverrunIs ==
    /\ Cardinality(Agents \ Exempt) \in Nat
    /\ Cardinality({MediaOf[r] : r \in Readers}) \in Nat
    /\ MaxTokens - 1 + Overrun = MaxTokens - 1 + Cardinality(Agents \ Exempt)
                                     + Cardinality({MediaOf[r] : r \in Readers})
<1>1. IsFiniteSet(Agents \ Exempt) /\ IsFiniteSet(Readers) /\ MaxTokens \in Nat
  BY CallsAssumption, FS_Difference
<1>2. IsFiniteSet({MediaOf[r] : r \in Readers})
 <2> QED BY FS_Subset, CallsAssumption
<1> QED BY <1>1, <1>2, FS_CardinalityType DEF Overrun

\* No more is let through now than there are callers.
LEMMA LetThroughFacts ==
    ASSUME CallsTypeOK, JobsInv
    PROVE  /\ IsFiniteSet(LetThrough) /\ Cardinality(LetThrough) \in Nat
           /\ Cardinality(LetThrough) <= Overrun /\ Overrun \in Nat
<1>1. ASSUME NEW m \in Media, jobs[m] # Nobody, jobs[m].scope # "index"
      PROVE  jobs[m].owner \in Readers /\ MediaOf[jobs[m].owner] = m
  BY <1>1, JobTypes DEF JobsInv, JobSound
<1> HIDE DEF JobsInv
<1> QED BY <1>1, ThroughBounded DEF LetThrough

------------------------------------------------------------------------------
(* The accounts.                                                               *)

\* They stay while nobody is let through and nothing is charged ...
LEMMA AccountsStay ==
    ASSUME CallsInv, UNCHANGED <<hour, spent, indexed, sleep>>,
           LetThrough' \subseteq LetThrough, IndexJobs' \subseteq IndexJobs
    PROVE  SpendingInv' /\ IndexInv' /\ SleepInv'
<1>1. CallsTypeOK /\ JobsInv /\ SpendingInv /\ IndexInv /\ SleepInv  BY DEF CallsInv
<1>2. Today' = Today  BY DEF Today
<1>4. SpendingInv'
 <2>1. spent[Today].metered \in Nat /\ Cardinality(LetThrough) \in Nat /\ Overrun \in Nat
       /\ MaxTokens \in Nat
   BY <1>1, CallTypes, LetThroughFacts
 <2>2. Overrun' = Overrun  BY DEF Overrun
 <2>4. spent[Today].metered + Cardinality(LetThrough) <= MaxTokens - 1 + Overrun
   BY <1>1 DEF SpendingInv
 <2>5. (spent[Today].metered + Cardinality(LetThrough) <= MaxTokens - 1 + Overrun)'
   BY <1>2, <2>1, <2>2, <2>4, <1>1, LetThroughFacts, FS_Subset,
     FS_CardinalityType
 <2> QED BY <1>1, <1>2, <2>5 DEF SpendingInv, OverrunBounded
<1>5. IndexInv'  BY <1>1, <1>2 DEF IndexInv, IndexBudgetKept
<1>6. SleepInv'  BY <1>1 DEF SleepInv
<1> QED BY <1>4, <1>5, <1>6

\* ... when someone is let through who found the budget unspent ...
LEMMA AccountsAdmit ==
    ASSUME CallsInv, UNCHANGED <<hour, spent, indexed, sleep>>, ~IsDailyTokenBudgetReached,
           CallsTypeOK', JobsInv', IndexJobs' \subseteq IndexJobs
    PROVE  SpendingInv' /\ IndexInv' /\ SleepInv'
<1>1. CallsTypeOK /\ SpendingInv /\ IndexInv /\ SleepInv  BY DEF CallsInv
<1>2. Today' = Today  BY DEF Today
<1>3. /\ Cardinality(LetThrough') \in Nat /\ Cardinality(LetThrough') <= Overrun
      /\ Overrun \in Nat
 <2>1. ASSUME NEW m \in Media, jobs'[m] # Nobody, jobs'[m].scope # "index"
       PROVE  jobs'[m].owner \in Readers /\ MediaOf[jobs'[m].owner] = m
  <3> QED BY <2>1, JobFields DEF JobSound, CallsTypeOK, JobsInv
 <2>2. /\ Cardinality(Through(agents', jobs')) \in Nat
       /\ Cardinality(Through(agents', jobs')) <= Overrun /\ Overrun \in Nat
   BY <2>1, ThroughBounded
 <2> QED BY <2>2 DEF LetThrough, Through
<1>4. SpendingInv'
 <2>3. Overrun' = Overrun  BY DEF Overrun
 <2>5. (spent[Today].metered + Cardinality(LetThrough) <= MaxTokens - 1 + Overrun)'
   BY <1>2, <1>3, <2>3, <1>1, CallTypes DEF IsDailyTokenBudgetReached,
     UsedTokens
 <2> QED BY <1>1, <1>2, <2>5 DEF SpendingInv, OverrunBounded
<1>5. IndexInv'  BY <1>1, <1>2 DEF IndexInv, IndexBudgetKept
<1>6. SleepInv'  BY <1>1 DEF SleepInv
<1> QED BY <1>4, <1>5, <1>6

\* What a charge writes.
LEMMA ChargeWrites ==
    ASSUME CallsTypeOK, NEW exempt \in BOOLEAN, NEW tokens \in 0..1, Charge(exempt, tokens)
    PROVE  /\ spent' \in [Days -> [metered: Nat, exempt: Nat]]
           /\ \A d \in Days \ {Today} : spent'[d] = spent[d]
           /\ exempt => spent'[Today].metered = spent[Today].metered
           /\ spent'[Today].metered \in Nat
           /\ spent'[Today].metered <= spent[Today].metered + 1
<1>1. /\ Today \in Days /\ spent \in [Days -> [metered: Nat, exempt: Nat]]
      /\ spent[Today] \in [metered: Nat, exempt: Nat]
      /\ spent[Today].metered \in Nat /\ spent[Today].exempt \in Nat
  BY CallTypes DEF CallsTypeOK
<1>2. CASE exempt
 <2> DEFINE row == [spent[Today] EXCEPT !.exempt = @ + tokens]
 <2> HIDE DEF row
 <2> QED BY <1>1, <1>2 DEF Charge
<1>3. CASE ~exempt
 <2> DEFINE row == [spent[Today] EXCEPT !.metered = @ + tokens]
 <2> HIDE DEF row
 <2> QED BY <1>1, <1>3 DEF Charge
<1> QED BY <1>2, <1>3

\* ... and when the call of x, let through before, is charged.
LEMMA AccountsCharge ==
    ASSUME CallsInv, UNCHANGED <<hour, indexed, sleep>>,
           NEW exempt \in BOOLEAN, NEW tokens \in 0..1, Charge(exempt, tokens),
           NEW x, exempt \/ x \in LetThrough,
           LetThrough' \subseteq (IF exempt THEN LetThrough ELSE LetThrough \ {x}),
           IndexJobs' \subseteq IndexJobs
    PROVE  SpendingInv' /\ IndexInv' /\ SleepInv'
<1>1. CallsTypeOK /\ JobsInv /\ SpendingInv /\ IndexInv /\ SleepInv  BY DEF CallsInv
<1>2. Today' = Today /\ Overrun' = Overrun  BY DEF Today, Overrun
<1>3. /\ \A d \in Days \ {Today} : spent'[d] = spent[d]
      /\ exempt => spent'[Today].metered = spent[Today].metered
      /\ spent'[Today].metered \in Nat /\ spent[Today].metered \in Nat
      /\ spent'[Today].metered <= spent[Today].metered + 1
  BY <1>1, ChargeWrites, CallTypes
<1>4. /\ IsFiniteSet(LetThrough) /\ Cardinality(LetThrough) \in Nat
      /\ Overrun \in Nat /\ MaxTokens \in Nat
      /\ Today \in Days /\ Today \in Nat
  BY <1>1, LetThroughFacts, CallTypes
<1>5. /\ Cardinality(LetThrough') \in Nat
      /\ spent'[Today].metered + Cardinality(LetThrough')
             <= spent[Today].metered + Cardinality(LetThrough)
 <2>1. CASE exempt
  <3> QED BY <1>3, <1>4, <2>1, FS_Subset, FS_CardinalityType
 <2>2. CASE ~exempt
  <3>1. /\ IsFiniteSet(LetThrough \ {x})
        /\ Cardinality(LetThrough \ {x}) = Cardinality(LetThrough) - 1
    BY <1>4, <2>2, FS_RemoveElement
  <3>2. /\ Cardinality(LetThrough') <= Cardinality(LetThrough \ {x})
        /\ Cardinality(LetThrough') \in Nat
    BY <2>2, <3>1, FS_Subset, FS_CardinalityType
  <3> QED BY <1>3, <1>4, <3>1, <3>2
 <2> QED BY <2>1, <2>2
<1>7. spent'[Today].metered + Cardinality(LetThrough') <= MaxTokens - 1 + Overrun
  BY <1>3, <1>4, <1>5, <1>1 DEF SpendingInv
<1>0. MaxTokens - 1 + Overrun = MaxTokens - 1 + Cardinality(Agents \ Exempt)
                                    + Cardinality({MediaOf[r] : r \in Readers})
  BY <1>4, OverrunIs
<1>8. OverrunBounded'
 <2> SUFFICES ASSUME NEW d \in Days
              PROVE  spent'[d].metered <= MaxTokens - 1 + Overrun
   BY <1>0 DEF OverrunBounded, Days
 <2>1. CASE d = Today  BY <2>1, <1>3, <1>4, <1>5, <1>7
 <2>2. CASE d # Today  BY <2>2, <1>0, <1>1, <1>3 DEF SpendingInv, OverrunBounded
 <2> QED BY <2>1, <2>2
<1>9. ASSUME NEW d \in Days, d > Today
      PROVE  spent'[d].metered = 0 /\ indexed'[d].images = 0 /\ indexed'[d].tokens = 0
 <2> QED BY <1>1, <1>3, <1>9, <1>4 DEF SpendingInv
<1>12. SleepInv'  BY <1>1 DEF SleepInv
<1> QED BY <1>12, <1>2, <1>7, <1>8, <1>9, <1>1 DEF SpendingInv, Days, IndexInv, IndexBudgetKept

------------------------------------------------------------------------------
(* The semaphores.                                                             *)

PlainTypes ==
    /\ hour \in 0..LastHour
    /\ spent \in [Days -> [metered: Nat, exempt: Nat]]
    /\ indexed \in [Days -> [images: Nat, tokens: Nat]]
    /\ sleep \in {Nobody} \cup Sleep
    /\ agents \in [Agents -> {"idle", "waiting", "calling", "blocked"}]
    /\ readers \in [Readers -> {"idle", "waiting", "done", "failed"}]
    /\ worker \in Indexed \cup {Nobody}
    /\ jobs \in [Media -> Job \cup {Nobody}]
    /\ cached \subseteq Media

\* The types of the semaphores follow from what they are.
LEMMA TypesFollow ==
    ASSUME CallsTypeOK, PlainTypes', GatesInv', VisionInv',
           \/ gates' = gates
           \/ \E c \in CallChats : gates' = [gates EXCEPT ![c] = gates'[c]]
    PROVE  CallsTypeOK'
<1>1. /\ DOMAIN gates' = CallChats /\ gates' = [c \in CallChats |-> gates'[c]]
 <2>1. CASE gates' = gates  BY <2>1 DEF CallsTypeOK
 <2>2. CASE \E c \in CallChats : gates' = [gates EXCEPT ![c] = gates'[c]]
  <3>1. PICK c \in CallChats : gates' = [gates EXCEPT ![c] = gates'[c]]  BY <2>2
  <3> DEFINE v == gates'[c]
  <3> HIDE DEF v
  <3> QED BY <3>1 DEF CallsTypeOK, v
 <2> QED BY <2>1, <2>2
<1>2. ASSUME NEW c \in CallChats
      PROVE  gates'[c] \in Semaphore(Agents \cup Media) /\ gates'[c].active <= 1
 <2>2. /\ gates'[c] \in Semaphore(Agents \cup Media)
       /\ gates'[c].active = 0 \/ gates'[c].active = 1
   BY DEF GateIs, GatesInv
 <2> QED BY <2>2
<1> QED BY <1>2, <1>1 DEF CallsTypeOK, PlainTypes, CallChats, Days, Day, VisionInv, VisionIs

\* A vision semaphore that does not move, while analyses may end or go on.
LEMMA VisionStays ==
    ASSUME CallsInv, vision' = vision,
           VisionWaiters' = VisionWaiters, VisionHolders' \subseteq VisionHolders,
           \A m \in VisionWaiters : m \in IndexJobs' <=> m \in IndexJobs
    PROVE  VisionInv'
<1>1. VisionIs(vision, VisionWaiters, VisionHolders) /\ Behind(vision.waiters, IndexJobs)
  BY DEF CallsInv, VisionInv
<1>2. /\ IsFiniteSet(VisionHolders) /\ Cardinality(VisionHolders) <= vision.active
      /\ vision \in Semaphore(Media) /\ Queues(vision.waiters, VisionWaiters)
  BY <1>1 DEF VisionIs
<1>4. /\ IsFiniteSet(VisionHolders')
      /\ Cardinality(VisionHolders') <= Cardinality(VisionHolders)
      /\ Cardinality(VisionHolders) \in Nat /\ Cardinality(VisionHolders') \in Nat
  BY <1>2, FS_Subset, FS_CardinalityType
<1> DEFINE V == VisionWaiters'
           H == VisionHolders'
           I == IndexJobs'
<1> HIDE DEF V, H, I
<1>7. Behind(vision.waiters, I)
 <2> QED BY <1>1, <1>2 DEF Behind, I, Queues, ToSet
<1> QED BY <1>7, <1>1, <1>4, <1>2 DEF VisionInv, V, H, I, VisionIs, Semaphore

\* The gates other than that of chat d, which is now sem.
LEMMA GatesOther ==
    ASSUME CallsInv, NEW d \in CallChats, NEW sem, gates' = [gates EXCEPT ![d] = sem],
           \A c \in CallChats \ {d} :
               GateWaiters(c)' = GateWaiters(c) /\ GateHolders(c)' = GateHolders(c),
           GateIs(sem, GateWaiters(d)', GateHolders(d)')
    PROVE  GatesInv' /\ \E c \in CallChats : gates' = [gates EXCEPT ![c] = gates'[c]]
<1>2. gates'[d] = sem /\ \A c \in CallChats \ {d} : gates'[c] = gates[c]
  BY DEF CallsInv, CallsTypeOK
<1>3. ASSUME NEW c \in CallChats PROVE GateIs(gates'[c], GateWaiters(c)', GateHolders(c)')
 <2>1. CASE c = d  BY <2>1, <1>2
 <2>2. CASE c # d  BY <2>2, <1>2 DEF CallsInv, GatesInv
 <2> QED BY <2>1, <2>2
<1>4. GatesInv'  BY <1>3 DEF GatesInv, CallChats
<1> QED BY <1>2, <1>4

\* Gates that do not move.
LEMMA GatesStay ==
    ASSUME CallsInv, gates' = gates,
           \A c \in CallChats :
               GateWaiters(c)' = GateWaiters(c) /\ GateHolders(c)' = GateHolders(c)
    PROVE  GatesInv'
<1>1. ASSUME NEW c \in CallChats PROVE GateIs(gates'[c], GateWaiters(c)', GateHolders(c)')
  BY DEF CallsInv, GatesInv
<1> QED BY <1>1 DEF GatesInv, CallChats

\* Who waits at a gate, and who is inside.
LEMMA AtGate ==
    ASSUME CallsTypeOK, NEW c \in CallChats
    PROVE  /\ GateIs(gates[c], GateWaiters(c), GateHolders(c)) =>
                  GateWaiters(c) \cap GateHolders(c) = {}
           /\ \A a \in Agents :
                  /\ a \in GateWaiters(c) <=> ChatAt[a] = c /\ agents[a] = "waiting"
                  /\ a \in GateHolders(c) <=> ChatAt[a] = c /\ agents[a] = "calling"
           /\ \A m \in Media :
                  /\ m \in GateWaiters(c) <=>
                         jobs[m] # Nobody /\ jobs[m].scope = c /\ jobs[m].stage = "gate"
                  /\ m \in GateHolders(c) <=>
                         jobs[m] # Nobody /\ jobs[m].scope = c /\ jobs[m].stage = "call"
           /\ GateWaiters(c) \subseteq Agents \cup Media
           /\ GateHolders(c) \subseteq Agents \cup Media
<1> QED BY CallsAssumption DEF GateWaiters, GateHolders

------------------------------------------------------------------------------
(* The actions of the agents.                                                  *)

\* Nothing of the analyses has changed.
LEMMA JobsStay ==
    ASSUME CallsInv, UNCHANGED <<jobs, readers, worker>>
    PROVE  /\ JobsInv' /\ NobodyWaitsForNothing' /\ IndexJobs' = IndexJobs
           /\ vision' = vision => VisionInv'
<1> QED
  BY VisionStays DEF IndexJobs, VisionWaiters, VisionHolders, JobsInv,
    JobSound, NobodyWaitsForNothing, CallsInv

\* An agent's request keeps the invariant.
LEMMA RequestModelKeeps ==
    ASSUME CallsInv, NEW a \in Agents, RequestModel(a)
    PROVE  CallsInv'
<1> DEFINE d == ChatAt[a]
<1>1. /\ CallsTypeOK /\ GatesInv /\ agents[a] = "idle" /\ d \in CallChats
      /\ UNCHANGED <<hour, spent, indexed, sleep, readers, worker, jobs, cached, vision>>
      /\ agents \in [Agents -> {"idle", "waiting", "calling", "blocked"}]
  BY DEF RequestModel, CallsInv, CallsTypeOK, CallChats
<1>2. JobsInv' /\ NobodyWaitsForNothing' /\ IndexJobs' = IndexJobs /\ VisionInv'
  BY <1>1, JobsStay
<1>4. /\ \A c \in CallChats : a \notin GateWaiters(c) /\ a \notin GateHolders(c)
  BY <1>1, AtGate, CallsAssumption
<1>5. CASE agents' = [agents EXCEPT ![a] = "blocked"] /\ gates' = gates
 <2>2. GatesInv'  BY <1>5, GatesStay, <1>1 DEF GateWaiters, GateHolders
 <2>6. CallsTypeOK'
   BY <1>1, <1>2, <1>5, <2>2, TypesFollow DEF PlainTypes, CallsTypeOK, Days,
     Day
 <2> QED BY <1>2, <2>2, <2>6, <1>1, AccountsStay, <1>5 DEF CallsInv, LetThrough, Through
<1>6. CASE /\ ~ (a \notin Exempt /\ IsDailyTokenBudgetReached)
           /\ agents' = [agents EXCEPT ![a] =
                  IF HasRoom(gates[d], 1) THEN "calling" ELSE "waiting"]
           /\ gates' = [gates EXCEPT ![d] = Acquire(gates[d], a, 1, FirstCome)]
 <2> DEFINE sem == Acquire(gates[d], a, 1, FirstCome)
 <2>2. /\ HasRoom(gates[d], 1) =>
              GateIs(sem, GateWaiters(d), {a}) /\ GateHolders(d) = {}
       /\ ~HasRoom(gates[d], 1) => GateIs(sem, GateWaiters(d) \cup {a}, GateHolders(d))
   BY <1>1, <1>4, GateEntered DEF GatesInv
 <2>3. \A c \in CallChats \ {d} :
           GateWaiters(c)' = GateWaiters(c) /\ GateHolders(c)' = GateHolders(c)
   BY <1>1, <1>6 DEF GateWaiters, GateHolders
 <2> HIDE DEF sem
 <2>5. GateIs(sem, GateWaiters(d)', GateHolders(d)')
   BY <2>2, <1>1, <1>6 DEF GateWaiters, GateHolders
 <2>6. gates' = [gates EXCEPT ![d] = sem]  BY <1>6 DEF sem
 <2>7. GatesInv' /\ \E c \in CallChats : gates' = [gates EXCEPT ![c] = gates'[c]]
   BY <1>1, <2>3, <2>5, <2>6, GatesOther
 <2>8. PlainTypes'  BY <1>1, <1>6 DEF PlainTypes, CallsTypeOK, Days, Day
 <2>9. CallsTypeOK'  BY <1>1, <1>2, <2>7, <2>8, TypesFollow
 <2>10. SpendingInv' /\ IndexInv' /\ SleepInv'
  <3>1. CASE a \in Exempt
   <4> QED BY <1>1, <1>2, AccountsStay, <1>6, <3>1 DEF LetThrough, Through
  <3>2. CASE a \notin Exempt  BY <1>1, <1>2, <1>6, <2>9, <3>2, AccountsAdmit
  <3> QED BY <3>1, <3>2
 <2> QED BY <1>2, <2>7, <2>9, <2>10 DEF CallsInv
<1> QED BY <1>5, <1>6 DEF RequestModel

\* The run after a refused one keeps it.
LEMMA NextRunKeeps ==
    ASSUME CallsInv, NEW a \in Agents, NextRun(a)
    PROVE  CallsInv'
<1>1. /\ CallsTypeOK /\ agents[a] = "blocked" /\ agents' = [agents EXCEPT ![a] = "idle"]
      /\ UNCHANGED <<hour, spent, indexed, sleep, readers, worker, jobs, cached,
                     gates, vision>>
      /\ agents \in [Agents -> {"idle", "waiting", "calling", "blocked"}]
  BY DEF NextRun, CallsInv, CallsTypeOK
<1>2. JobsInv' /\ NobodyWaitsForNothing' /\ IndexJobs' = IndexJobs /\ VisionInv'
  BY <1>1, JobsStay
<1>4. GatesInv'  BY <1>1, GatesStay DEF GateWaiters, GateHolders
<1>8. CallsTypeOK'  BY <1>1, <1>2, <1>4, TypesFollow DEF PlainTypes, CallsTypeOK, Days, Day
<1> QED BY <1>2, <1>4, <1>8, <1>1, AccountsStay DEF CallsInv, LetThrough, Through

\* An agent that stops waiting keeps it.
LEMMA AbortWaitingAgentKeeps ==
    ASSUME CallsInv, NEW a \in Agents, AbortWaitingAgent(a)
    PROVE  CallsInv'
<1> DEFINE d == ChatAt[a]
           sem == Withdraw(gates[d], a)
<1>1. /\ CallsTypeOK /\ GatesInv /\ agents[a] = "waiting" /\ d \in CallChats
      /\ agents' = [agents EXCEPT ![a] = "idle"]
      /\ UNCHANGED <<hour, spent, indexed, sleep, readers, worker, jobs, cached, vision>>
      /\ agents \in [Agents -> {"idle", "waiting", "calling", "blocked"}]
      /\ gates' = [gates EXCEPT ![d] = sem]
  BY DEF AbortWaitingAgent, CallsInv, CallsTypeOK, CallChats
<1>2. JobsInv' /\ NobodyWaitsForNothing' /\ IndexJobs' = IndexJobs /\ VisionInv'
  BY <1>1, JobsStay
<1>5. GateIs(sem, GateWaiters(d) \ {a}, GateHolders(d))  BY GateLeft, <1>1, AtGate DEF GatesInv
<1>6. \A c \in CallChats \ {d} :
          GateWaiters(c)' = GateWaiters(c) /\ GateHolders(c)' = GateHolders(c)
  BY <1>1 DEF GateWaiters, GateHolders
<1>7. GateWaiters(d)' = GateWaiters(d) \ {a} /\ GateHolders(d)' = GateHolders(d)
  BY <1>1, CallsAssumption DEF GateWaiters, GateHolders
<1> HIDE DEF sem
<1>8. GatesInv' /\ \E c \in CallChats : gates' = [gates EXCEPT ![c] = gates'[c]]
  BY <1>1, <1>5, <1>6, <1>7, GatesOther
<1>12. CallsTypeOK'  BY <1>1, <1>2, <1>8, TypesFollow DEF PlainTypes, CallsTypeOK, Days, Day
<1> QED BY <1>2, <1>8, <1>12, <1>1, AccountsStay DEF CallsInv, LetThrough, Through

\* The analyses that a gate lets in call the model; the others stay as they are.
LEMMA JobsHanded ==
    ASSUME CallsTypeOK, NEW handed,
           \A m \in Media : m \in handed => jobs[m] # Nobody
    PROVE  /\ JobsAfter(jobs, handed) \in [Media -> Job \cup {Nobody}]
           /\ \A m \in Media :
                  /\ m \notin handed => JobsAfter(jobs, handed)[m] = jobs[m]
                  /\ m \in handed =>
                         /\ JobsAfter(jobs, handed)[m] \in Job
                         /\ JobsAfter(jobs, handed)[m] # Nobody
                         /\ JobsAfter(jobs, handed)[m].stage = "call"
                         /\ JobsAfter(jobs, handed)[m].scope = jobs[m].scope
                         /\ JobsAfter(jobs, handed)[m].owner = jobs[m].owner
                         /\ JobsAfter(jobs, handed)[m].aborted = jobs[m].aborted
<1> DEFINE js == JobsAfter(jobs, handed)
<1>1. ASSUME NEW m \in Media, m \notin handed
      PROVE  js[m] = jobs[m] /\ js[m] \in Job \cup {Nobody}
  BY <1>1 DEF JobsAfter, CallsTypeOK
<1>2. ASSUME NEW m \in Media, m \in handed
      PROVE  /\ js[m] \in Job /\ js[m] # Nobody /\ js[m].stage = "call"
             /\ js[m].scope = jobs[m].scope /\ js[m].owner = jobs[m].owner
             /\ js[m].aborted = jobs[m].aborted
 <2> DEFINE o == jobs[m]
            v == js[m]
 <2>2. v = [o EXCEPT !.stage = "call"] /\ o \in Job  BY <1>2, JobTypes DEF JobsAfter
 <2> HIDE DEF o, v
 <2>3. /\ v \in Job /\ v # Nobody /\ v.stage = "call" /\ v.scope = o.scope
       /\ v.owner = o.owner /\ v.aborted = o.aborted
   BY <2>2, StageSet
 <2> QED BY <2>3 DEF o, v
<1>3. js = [m \in Media |-> js[m]]  BY DEF JobsAfter
<1> HIDE DEF js
<1> QED BY <1>1, <1>2, <1>3 DEF js

\* Analyses that go on keep their caller; the one of the index keeps its worker.
LEMMA JobsGoOn ==
    ASSUME CallsInv,
           \A m \in Media : jobs'[m] # Nobody =>
               /\ jobs[m] # Nobody
               /\ jobs'[m].scope = jobs[m].scope /\ jobs'[m].owner = jobs[m].owner
               /\ jobs[m].scope = "index" =>
                      /\ jobs'[m].aborted = jobs[m].aborted /\ worker' = worker
                      /\ jobs'[m].stage # "gate"
    PROVE  JobsInv' /\ IndexJobs' \subseteq IndexJobs
<1>1. ASSUME NEW m \in Media, jobs'[m] # Nobody PROVE JobSound(m)'
 <2> QED BY <1>1 DEF JobSound, CallsInv, JobsInv
<1> QED BY <1>1 DEF JobsInv, IndexJobs

\* The end of an agent's call keeps it: its gate is handed on.
LEMMA FinishModelCallKeeps ==
    ASSUME CallsInv, NEW a \in Agents, FinishModelCall(a)
    PROVE  CallsInv'
<1> DEFINE d == ChatAt[a]
           sem == Release(gates[d])
           handed == HandedTo(gates[d])
<1>1. /\ CallsTypeOK /\ GatesInv /\ agents[a] = "calling" /\ d \in CallChats
      /\ agents' = [AgentsAfter(handed) EXCEPT ![a] = "idle"]
      /\ jobs' = JobsAfter(jobs, handed)
      /\ UNCHANGED <<hour, indexed, sleep, readers, worker, cached, vision>>
      /\ agents \in [Agents -> {"idle", "waiting", "calling", "blocked"}]
      /\ gates' = [gates EXCEPT ![d] = sem]
  BY DEF FinishModelCall, CallsInv, CallsTypeOK, CallChats
<1>2. PICK tokens \in 0..1 : Charge(a \in Exempt, tokens)  BY DEF FinishModelCall
<1>3. a \notin Media  BY CallsAssumption
<1> HIDE DEF sem, handed
<1>5. /\ GateHolders(d) = {a} /\ handed \subseteq GateWaiters(d)
      /\ GateIs(sem, GateWaiters(d) \ handed, handed)
  BY GateReleased, <1>1, AtGate DEF sem, handed, GatesInv
<1>6. /\ \A b \in Agents : b \in handed => ChatAt[b] = d /\ agents[b] = "waiting"
      /\ \A m \in Media : m \in handed =>
             jobs[m] # Nobody /\ jobs[m].scope = d /\ jobs[m].stage = "gate"
      /\ a \notin handed
      /\ handed \subseteq Agents \cup Media
  BY <1>1, <1>5, AtGate
<1>7. /\ \A b \in Agents :
             agents'[b] = IF b = a THEN "idle" ELSE IF b \in handed THEN "calling" ELSE agents[b]
      /\ agents' \in [Agents -> {"idle", "waiting", "calling", "blocked"}]
  BY <1>1 DEF AgentsAfter
<1>8. /\ jobs' \in [Media -> Job \cup {Nobody}]
      /\ \A m \in Media :
             /\ m \notin handed => jobs'[m] = jobs[m]
             /\ m \in handed => /\ jobs'[m] # Nobody /\ jobs'[m].stage = "call"
                                /\ jobs'[m].scope = jobs[m].scope
                                /\ jobs'[m].owner = jobs[m].owner
                                /\ jobs'[m].aborted = jobs[m].aborted
  BY <1>1, <1>6, JobsHanded
<1>9. ASSUME NEW c \in CallChats \ {d}
      PROVE GateWaiters(c)' = GateWaiters(c) /\ GateHolders(c)' = GateHolders(c)
 <2> QED BY <1>6, <1>7, <1>8 DEF GateWaiters, GateHolders
<1>10. GateWaiters(d)' = GateWaiters(d) \ handed
 <2> QED BY <1>1, <1>7, <1>8 DEF GateWaiters
<1>11. GateHolders(d)' = handed
 <2>1. \A b \in Agents : (ChatAt[b] = d /\ agents'[b] = "calling") <=> b \in handed
  <3> QED BY <1>6, <1>7, <1>1, <1>5, AtGate
 <2>2. \A m \in Media :
           (jobs'[m] # Nobody /\ jobs'[m].scope = d /\ jobs'[m].stage = "call") <=> m \in handed
  <3> QED BY <1>6, <1>8, <1>1, <1>3, <1>5, AtGate
 <2> QED BY <1>6, <2>1, <2>2 DEF GateHolders
<1>12. GatesInv' /\ \E c \in CallChats : gates' = [gates EXCEPT ![c] = gates'[c]]
  BY <1>1, <1>5, <1>9, <1>10, <1>11, GatesOther
<1>13. JobsInv' /\ IndexJobs' \subseteq IndexJobs
 <2>1. d # "index"  BY <1>1, CallsAssumption
 <2>2. ASSUME NEW m \in Media, jobs'[m] # Nobody
       PROVE  /\ jobs[m] # Nobody
              /\ jobs'[m].scope = jobs[m].scope /\ jobs'[m].owner = jobs[m].owner
              /\ jobs[m].scope = "index" =>
                     /\ jobs'[m].aborted = jobs[m].aborted /\ worker' = worker
                     /\ jobs'[m].stage # "gate"
  <3>1. CASE m \in handed  BY <1>6, <1>8, <2>1, <3>1
  <3>2. CASE m \notin handed
   <4> QED BY <1>1, <2>2, <1>8, <3>2 DEF JobSound, CallsInv, JobsInv
  <3> QED BY <3>1, <3>2
 <2> QED BY <2>2, JobsGoOn
<1>14. NobodyWaitsForNothing'
 <2>3. worker # Nobody => worker \in Media  BY <1>1, CallsAssumption DEF CallsTypeOK
 <2> QED BY <1>1, <2>3, <1>8, CallsAssumption DEF NobodyWaitsForNothing, CallsInv
<1>15. VisionInv'
 <2> QED BY <1>1, VisionStays, <1>6, <1>8 DEF VisionWaiters, VisionHolders, IndexJobs
<1>16. SpendingInv' /\ IndexInv' /\ SleepInv'
 <2>1. (a \in Exempt) \in BOOLEAN  OBVIOUS
 <2>3. LetThrough' \subseteq (IF a \in Exempt THEN LetThrough ELSE LetThrough \ {a})
  <3>1. ASSUME NEW b \in Agents \ Exempt, agents'[b] \in {"waiting", "calling"}
        PROVE  b # a /\ agents[b] \in {"waiting", "calling"}
    BY <1>6, <1>7, <3>1
  <3>2. ASSUME NEW m \in Media, jobs'[m] # Nobody, jobs'[m].scope # "index"
        PROVE  m # a /\ jobs[m] # Nobody /\ jobs[m].scope # "index"
    BY <1>3, <1>8, <1>6, <3>2
  <3> QED BY <3>1, <3>2 DEF LetThrough, Through
 <2> QED BY <1>1, <1>2, <1>13, <2>1, <2>3, AccountsCharge DEF LetThrough, Through
<1>17. PlainTypes'
 <2>1. spent' \in [Days -> [metered: Nat, exempt: Nat]]
  <3> DEFINE ex == a \in Exempt
  <3>1. ex \in BOOLEAN /\ Charge(ex, tokens)  BY <1>2
  <3> HIDE DEF ex
  <3> QED BY <1>1, <3>1, ChargeWrites
 <2> QED BY <1>1, <1>7, <1>8, <2>1 DEF PlainTypes, CallsTypeOK, Days, Day
<1> QED BY <1>12, <1>13, <1>14, <1>15, <1>16, <1>1, <1>17, TypesFollow DEF CallsInv

------------------------------------------------------------------------------
(* The actions of the analyses.                                                *)

\* A reader has its media and its chat.
LEMMA MediaOfReader == \A r \in Readers : MediaOf[r] \in Media /\ ChatAt[r] \in CallChats
BY CallsAssumption DEF CallChats

\* A new analysis.
LEMMA NewJobFacts ==
    ASSUME NEW scope \in CallChats \cup {"index"}, NEW owner \in Readers \cup {"index"}
    PROVE  /\ NewJob(scope, owner) \in Job /\ NewJob(scope, owner) # Nobody
           /\ NewJob(scope, owner).stage = "prepare"
           /\ NewJob(scope, owner).scope = scope
           /\ NewJob(scope, owner).owner = owner
           /\ NewJob(scope, owner).aborted = FALSE
<1> QED BY JobFields DEF NewJob, Job

\* A read_image call keeps it.
LEMMA ReadImageKeeps ==
    ASSUME CallsInv, NEW r \in Readers, ReadImage(r)
    PROVE  CallsInv'
<1> DEFINE m == MediaOf[r]
           new == NewJob(ChatAt[r], r)
<1>1. /\ CallsTypeOK /\ m \in Media /\ readers[r] = "idle" /\ ChatAt[r] \in CallChats
      /\ UNCHANGED <<hour, spent, indexed, sleep, agents, worker, cached, gates, vision>>
      /\ readers \in [Readers -> {"idle", "waiting", "done", "failed"}]
      /\ jobs \in [Media -> Job \cup {Nobody}]
      /\ \A q \in Readers : MediaOf[q] \in Media
  BY MediaOfReader DEF ReadImage, CallsInv, CallsTypeOK
<1>2. NobodyWaitsForNothing /\ JobsInv  BY DEF CallsInv
<1>3. CASE /\ jobs' = jobs
           /\ \E s \in {"done", "failed", "waiting"} :
                  /\ readers' = [readers EXCEPT ![r] = s]
                  /\ s = "waiting" => jobs[m] # Nobody
 <2>1. PICK s \in {"done", "failed", "waiting"} :
                 /\ readers' = [readers EXCEPT ![r] = s]
                 /\ s = "waiting" => jobs[m] # Nobody
   BY <1>3
 <2>3. /\ IndexJobs' = IndexJobs /\ VisionWaiters' = VisionWaiters
       /\ VisionHolders' = VisionHolders /\ LetThrough' = LetThrough
       /\ \A c \in CallChats :
              GateWaiters(c)' = GateWaiters(c) /\ GateHolders(c)' = GateHolders(c)
   BY <1>1, <1>3 DEF IndexJobs, VisionWaiters, VisionHolders, GateWaiters, GateHolders,
                     LetThrough, Through
 <2>4. GatesInv' /\ VisionInv'  BY <1>1, <2>3, GatesStay, VisionStays
 <2>6. SpendingInv' /\ IndexInv' /\ SleepInv'  BY <1>1, <2>3, AccountsStay
 <2>7. PlainTypes'  BY <1>1, <1>3, <2>1 DEF PlainTypes, CallsTypeOK, Days, Day
 <2>8. CallsTypeOK'  BY <1>1, <2>4, <2>7, TypesFollow
 <2> QED
   BY <2>4, <2>6, <2>8, <1>1, <1>2, <1>3, <2>1 DEF CallsInv,
     NobodyWaitsForNothing, JobsInv, JobSound
<1>4. CASE /\ jobs[m] = Nobody /\ ~IsDailyTokenBudgetReached
           /\ readers' = [readers EXCEPT ![r] = "waiting"]
           /\ jobs' = [jobs EXCEPT ![m] = new]
 <2>1. /\ new \in Job /\ new # Nobody /\ new.stage = "prepare"
       /\ new.scope = ChatAt[r] /\ new.owner = r /\ new.aborted = FALSE
       /\ ChatAt[r] # "index" /\ r # "index"
  <3>1. ChatAt[r] \in CallChats \cup {"index"} /\ r \in Readers \cup {"index"}  BY <1>1
  <3>3. /\ NewJob(ChatAt[r], r) \in Job /\ NewJob(ChatAt[r], r) # Nobody
        /\ NewJob(ChatAt[r], r).stage = "prepare"
        /\ NewJob(ChatAt[r], r).scope = ChatAt[r]
        /\ NewJob(ChatAt[r], r).owner = r
        /\ NewJob(ChatAt[r], r).aborted = FALSE
    BY <3>1, NewJobFacts
  <3> QED BY <3>3, <1>1, CallsAssumption
 <2> HIDE DEF new
 <2>2. /\ jobs'[m] = new /\ \A k \in Media \ {m} : jobs'[k] = jobs[k]
       /\ jobs' \in [Media -> Job \cup {Nobody}]
   BY <1>1, <1>4, <2>1
 <2>3. JobsInv'
  <3>2. ASSUME NEW k \in Media \ {m}, jobs'[k] # Nobody PROVE JobSound(k)'
    BY <1>1, <1>2, <2>2, <3>2 DEF JobsInv, JobSound
  <3> QED BY <3>2, <2>1, <2>2 DEF JobsInv, JobSound
 <2>4. /\ IndexJobs' = IndexJobs /\ VisionWaiters' = VisionWaiters
       /\ VisionHolders' = VisionHolders
   BY <1>4, <2>1, <2>2 DEF IndexJobs, VisionWaiters, VisionHolders
 <2>6. GatesInv' /\ VisionInv'
   BY <1>1, <2>4, GatesStay, VisionStays, <1>4, <2>1, <2>2 DEF GateWaiters,
     GateHolders
 <2>7. NobodyWaitsForNothing'
  <3>3. worker # Nobody => worker \in Media  BY <1>1, CallsAssumption DEF CallsTypeOK
  <3> QED BY <1>1, <1>2, <2>1, <2>2, <3>3, <1>4 DEF NobodyWaitsForNothing
 <2>8. PlainTypes'  BY <1>1, <1>4, <2>2 DEF PlainTypes, CallsTypeOK, Days, Day
 <2> QED BY <2>3, <2>6, <2>7, <1>1, <1>4, <2>4, AccountsAdmit, <2>8, TypesFollow DEF CallsInv
<1> QED BY <1>1, <1>3, <1>4 DEF ReadImage

\* The index worker keeps it.
LEMMA IndexStickerKeeps ==
    ASSUME CallsInv, NEW m \in Indexed, IndexSticker(m)
    PROVE  CallsInv'
<1> DEFINE new == NewJob("index", "index")
           row == [indexed[Today] EXCEPT !.images = @ + 1]
<1>1. /\ CallsTypeOK /\ m \in Media /\ worker = Nobody /\ worker' = m /\ m # Nobody
      /\ UNCHANGED <<hour, spent, sleep, agents, readers, cached, gates, vision>>
      /\ jobs \in [Media -> Job \cup {Nobody}]
      /\ indexed \in [Days -> [images: Nat, tokens: Nat]]
      /\ indexed[Today].images < IndexImages /\ indexed[Today].tokens < IndexTokens
      /\ indexed' = [indexed EXCEPT ![Today] = row]
  BY CallsAssumption DEF IndexSticker, ReserveStickerImage, CallsInv, CallsTypeOK
<1>2. NobodyWaitsForNothing /\ JobsInv /\ SpendingInv /\ IndexInv /\ SleepInv  BY DEF CallsInv
<1>3. /\ new \in Job /\ new # Nobody /\ new.stage = "prepare"
      /\ new.scope = "index" /\ new.owner = "index" /\ new.aborted = FALSE
 <2>1. "index" \in CallChats \cup {"index"} /\ "index" \in Readers \cup {"index"}  OBVIOUS
 <2> QED BY <2>1, NewJobFacts
<1> HIDE DEF new
<1>4. /\ \A k \in Media \ {m} : jobs'[k] = jobs[k]
      /\ jobs[m] = Nobody => jobs'[m] = new
      /\ jobs[m] # Nobody => jobs'[m] = jobs[m]
      /\ jobs' \in [Media -> Job \cup {Nobody}]
 <2> QED BY <1>1, <1>3 DEF IndexSticker, new
<1>5. \A k \in Media : jobs[k] # Nobody => jobs[k].scope # "index"
 <2> SUFFICES ASSUME NEW k \in Media, jobs[k] # Nobody, jobs[k].scope = "index" PROVE FALSE
   OBVIOUS
 <2> QED BY <1>1, <1>2, CallsAssumption DEF JobsInv, JobSound
<1>6. JobsInv'
 <2>1. ASSUME NEW k \in Media, jobs'[k] # Nobody, jobs'[k] = jobs[k] PROVE JobSound(k)'
   BY <1>2, <1>5, <2>1 DEF JobsInv, JobSound
 <2>2. ASSUME jobs[m] = Nobody PROVE JobSound(m)'
   BY <1>1, <1>3, <1>4, <2>2, CallsAssumption DEF JobSound
 <2> QED BY <1>4, <2>1, <2>2 DEF JobsInv
<1>9. GatesInv' /\ VisionInv'
  BY <1>1, GatesStay, VisionStays, <1>3, <1>4, <1>5 DEF IndexJobs,
    VisionWaiters, VisionHolders, GateWaiters, GateHolders
<1>10. NobodyWaitsForNothing'
 <2> QED BY <1>1, <1>2, MediaOfReader, <1>3, <1>4 DEF NobodyWaitsForNothing
<1>11. /\ Today' = Today /\ Today \in Days /\ Today \in Nat
       /\ indexed[Today] \in [images: Nat, tokens: Nat]
       /\ row \in [images: Nat, tokens: Nat]
       /\ row.images = indexed[Today].images + 1 /\ row.tokens = indexed[Today].tokens
       /\ IndexImages \in Nat /\ indexed[Today].images \in Nat
  BY <1>1, CallTypes DEF Today
<1> HIDE DEF row
<1>12. /\ indexed'[Today] = row /\ \A d \in Days \ {Today} : indexed'[d] = indexed[d]
       /\ indexed' \in [Days -> [images: Nat, tokens: Nat]]
  BY <1>1, <1>11
<1>13. SpendingInv'
 <2>1. LetThrough' = LetThrough /\ Overrun' = Overrun
   BY <1>1, <1>3, <1>4 DEF LetThrough, Through, Overrun
 <2>3. OverrunBounded'  BY <1>1, <1>2 DEF SpendingInv, OverrunBounded, Days
 <2> QED BY <1>1, <1>2, <1>11, <1>12, <2>1, <2>3 DEF SpendingInv, Days
<1>14. IndexInv'
 <2>1. ASSUME NEW d \in Days
       PROVE  indexed'[d].images <= IndexImages /\ indexed'[d].tokens <= IndexTokens
  <3>1. CASE d = Today  BY <1>1, <1>2, <1>11, <1>12, <3>1 DEF IndexInv, IndexBudgetKept
  <3>2. CASE d # Today  BY <1>2, <1>12, <3>2 DEF IndexInv, IndexBudgetKept
  <3> QED BY <3>1, <3>2
 <2> QED BY <2>1, <1>1, <1>11, <1>12 DEF IndexInv, IndexBudgetKept, Days
<1>17. CallsTypeOK'
  BY <1>1, <1>9, TypesFollow, <1>4, <1>12 DEF PlainTypes, CallsTypeOK, Days,
    Day
<1> QED BY <1>6, <1>9, <1>10, <1>13, <1>14, <1>17, <1>1, <1>2 DEF CallsInv, SleepInv

\* An analysis goes on: its stage or its signal changes.
LEMMA JobMoves ==
    ASSUME CallsInv, NEW m \in Media, jobs[m] # Nobody, NEW j \in Job,
           j.scope = jobs[m].scope, j.owner = jobs[m].owner,
           j.scope = "index" => j.aborted = jobs[m].aborted /\ j.stage # "gate",
           jobs' = [jobs EXCEPT ![m] = j],
           UNCHANGED <<hour, spent, indexed, sleep, agents, readers, worker, cached>>
    PROVE  /\ JobsInv' /\ NobodyWaitsForNothing' /\ IndexJobs' = IndexJobs
           /\ SpendingInv' /\ IndexInv' /\ SleepInv' /\ PlainTypes'
           /\ jobs'[m] = j /\ \A k \in Media \ {m} : jobs'[k] = jobs[k]
<1>1. /\ CallsTypeOK /\ JobsInv /\ NobodyWaitsForNothing
      /\ jobs \in [Media -> Job \cup {Nobody}] /\ j # Nobody
  BY JobFields DEF CallsInv, CallsTypeOK
<1>2. /\ jobs'[m] = j /\ \A k \in Media \ {m} : jobs'[k] = jobs[k]
      /\ jobs' \in [Media -> Job \cup {Nobody}]
  BY <1>1
<1>3. JobsInv' /\ IndexJobs' \subseteq IndexJobs
 <2>1. ASSUME NEW k \in Media, jobs'[k] # Nobody
       PROVE  /\ jobs[k] # Nobody
              /\ jobs'[k].scope = jobs[k].scope /\ jobs'[k].owner = jobs[k].owner
              /\ jobs[k].scope = "index" =>
                     /\ jobs'[k].aborted = jobs[k].aborted /\ worker' = worker
                     /\ jobs'[k].stage # "gate"
  <3>1. CASE k = m  BY <3>1, <1>2
  <3>2. CASE k # m
   <4> QED BY <2>1, <1>1, <1>2, <3>2 DEF JobSound, JobsInv
  <3> QED BY <3>1, <3>2
 <2> QED BY <2>1, JobsGoOn
<1>6. NobodyWaitsForNothing'
 <2> QED BY <1>1, MediaOfReader, <1>2, CallsAssumption DEF NobodyWaitsForNothing, CallsTypeOK
<1>7. PlainTypes'  BY <1>1, <1>2 DEF PlainTypes, CallsTypeOK, Days, Day
<1> QED BY <1>2, <1>3, <1>6, <1>7, AccountsStay, <1>1 DEF IndexJobs, LetThrough, Through

\* An analysis ends: nobody waits for it any more.
LEMMA Settled ==
    ASSUME CallsInv, NEW m \in Media, NEW outcome \in {"done", "failed"}, Settle(m, outcome),
           \A k \in Media \ {m} : jobs[k] # Nobody => jobs'[k] # Nobody
    PROVE  /\ NobodyWaitsForNothing'
           /\ readers' \in [Readers -> {"idle", "waiting", "done", "failed"}]
           /\ worker' \in Indexed \cup {Nobody}
           /\ worker # m => worker' = worker
<1>1. /\ NobodyWaitsForNothing
      /\ readers \in [Readers -> {"idle", "waiting", "done", "failed"}]
      /\ worker \in Indexed \cup {Nobody} /\ Indexed \subseteq Media /\ Nobody \notin Media
  BY CallsAssumption DEF CallsInv, CallsTypeOK
<1>2. /\ \A r \in Readers : readers'[r] = IF MediaOf[r] = m /\ readers[r] = "waiting"
                                          THEN outcome ELSE readers[r]
      /\ readers' \in [Readers -> {"idle", "waiting", "done", "failed"}]
      /\ worker' = IF worker = m THEN Nobody ELSE worker
  BY <1>1 DEF Settle
<1>5. NobodyWaitsForNothing'  BY <1>1, MediaOfReader, <1>2 DEF NobodyWaitsForNothing
<1> QED BY <1>1, <1>2, <1>5

\* An analysis fails.
LEMMA Failed ==
    ASSUME CallsInv, NEW m \in Media, Fail(m), agents' = agents
    PROVE  /\ JobsInv' /\ NobodyWaitsForNothing' /\ IndexJobs' = IndexJobs \ {m}
           /\ SpendingInv' /\ IndexInv' /\ SleepInv' /\ PlainTypes'
           /\ jobs'[m] = Nobody /\ \A k \in Media \ {m} : jobs'[k] = jobs[k]
<1>1. /\ CallsTypeOK /\ JobsInv /\ jobs \in [Media -> Job \cup {Nobody}]
      /\ jobs' = [jobs EXCEPT ![m] = Nobody]
      /\ UNCHANGED <<hour, spent, indexed, sleep, cached>>
      /\ Settle(m, "failed")
  BY DEF CallsInv, CallsTypeOK, Fail
<1>2. /\ jobs'[m] = Nobody /\ \A k \in Media \ {m} : jobs'[k] = jobs[k]
      /\ jobs' \in [Media -> Job \cup {Nobody}]
  BY <1>1
<1>3. /\ NobodyWaitsForNothing'
      /\ readers' \in [Readers -> {"idle", "waiting", "done", "failed"}]
      /\ worker' \in Indexed \cup {Nobody}
      /\ worker # m => worker' = worker
  BY <1>1, <1>2, Settled
<1>4. JobsInv' /\ IndexJobs' \subseteq IndexJobs
 <2>1. ASSUME NEW k \in Media, jobs'[k] # Nobody
       PROVE  /\ jobs[k] # Nobody
              /\ jobs'[k].scope = jobs[k].scope /\ jobs'[k].owner = jobs[k].owner
              /\ jobs[k].scope = "index" =>
                     /\ jobs'[k].aborted = jobs[k].aborted /\ worker' = worker
                     /\ jobs'[k].stage # "gate"
  <3> QED BY <1>3, <2>1, <1>1, <1>2 DEF JobSound, JobsInv
 <2> QED BY <2>1, JobsGoOn
<1>8. IndexJobs' = IndexJobs \ {m}  BY <1>2 DEF IndexJobs
<1> QED
  BY <1>2, <1>3, <1>4, <1>8, <1>1, AccountsStay DEF PlainTypes, CallsTypeOK,
    Days, Day, LetThrough, Through

\* An analysis that comes to the vision semaphore keeps it.
LEMMA PreparedKeeps ==
    ASSUME CallsInv, NEW m \in Media, Prepared(m)
    PROVE  CallsInv'
<1>1. /\ CallsTypeOK /\ jobs[m] # Nobody /\ jobs[m].stage = "prepare"
      /\ jobs[m] \in Job /\ jobs[m].scope \in CallChats \cup {"index"}
      /\ UNCHANGED <<agents, gates>> /\ VisionInv
  BY JobTypes DEF Prepared, CallsInv
<1>2. CASE Fail(m) /\ vision' = vision
 <2>1. /\ JobsInv' /\ NobodyWaitsForNothing' /\ IndexJobs' = IndexJobs \ {m}
       /\ SpendingInv' /\ IndexInv' /\ SleepInv' /\ PlainTypes'
       /\ jobs'[m] = Nobody /\ \A k \in Media \ {m} : jobs'[k] = jobs[k]
   BY <1>1, <1>2, Failed
 <2>4. m \notin VisionWaiters  BY <1>1 DEF VisionWaiters
 <2>5. GatesInv' /\ VisionInv'
   BY <1>1, <1>2, <2>1, <2>4, GatesStay, VisionStays DEF GateWaiters,
     GateHolders, VisionWaiters, VisionHolders
 <2> QED BY <2>1, <2>5, <1>1, TypesFollow DEF CallsInv
<1>3. CASE /\ vision' = Acquire(vision, m, VisionLimit, VisionPriority)
           /\ jobs' = [jobs EXCEPT ![m].stage =
                  IF HasRoom(vision, VisionLimit) THEN "granted" ELSE "queue"]
           /\ UNCHANGED <<hour, spent, indexed, sleep, readers, worker, cached>>
 <2> DEFINE s == IF HasRoom(vision, VisionLimit) THEN "granted" ELSE "queue"
            j == [jobs[m] EXCEPT !.stage = s]
 <2>2. s \in {"prepare", "queue", "granted", "gate", "call"} /\ s # "gate" /\ s # "call"
   OBVIOUS
 <2>3. jobs' = [jobs EXCEPT ![m] = j]  BY <1>3
 <2>4. HasRoom(vision, VisionLimit) => s = "granted"  OBVIOUS
 <2>5. ~HasRoom(vision, VisionLimit) => s = "queue"  OBVIOUS
 <2> HIDE DEF s
 <2>6. /\ j \in Job /\ j # Nobody /\ j.stage = s /\ j.scope = jobs[m].scope
       /\ j.owner = jobs[m].owner /\ j.aborted = jobs[m].aborted
  <3> DEFINE o == jobs[m]
  <3>1. o \in Job /\ j = [o EXCEPT !.stage = s]  BY <1>1
  <3> HIDE DEF o, j
  <3> QED BY <2>2, <3>1, StageSet DEF o
 <2> HIDE DEF j
 <2>7. /\ JobsInv' /\ NobodyWaitsForNothing' /\ IndexJobs' = IndexJobs
       /\ SpendingInv' /\ IndexInv' /\ SleepInv' /\ PlainTypes'
       /\ jobs'[m] = j /\ \A k \in Media \ {m} : jobs'[k] = jobs[k]
   BY <1>1, <1>3, <2>2, <2>3, <2>6, JobMoves
 <2>10. /\ s = "granted" => /\ VisionWaiters' = VisionWaiters
                            /\ VisionHolders' = VisionHolders \cup {m}
        /\ s = "queue" => /\ VisionWaiters' = VisionWaiters \cup {m}
                          /\ VisionHolders' = VisionHolders
        /\ m \notin VisionWaiters /\ m \notin VisionHolders
   BY <1>1, <2>6, <2>7 DEF VisionWaiters, VisionHolders
 <2>11. \A y \in VisionWaiters \cup {m} : VisionPriority[y] = IF y \in IndexJobs THEN 1 ELSE 0
   BY <1>1 DEF VisionPriority, IndexJobs, VisionWaiters
 <2> DEFINE sem == Acquire(vision, m, VisionLimit, VisionPriority)
 <2>12. /\ HasRoom(vision, VisionLimit) => VisionIs(sem, VisionWaiters, VisionHolders \cup {m})
        /\ ~HasRoom(vision, VisionLimit) =>
               VisionIs(sem, VisionWaiters \cup {m}, VisionHolders)
        /\ Behind(sem.waiters, IndexJobs)
   BY <1>1, <2>10, <2>11, VisionEntered DEF VisionInv
 <2>13. vision' = sem  BY <1>3
 <2> HIDE DEF sem
 <2>14. VisionIs(sem, VisionWaiters', VisionHolders')  BY <2>4, <2>5, <2>10, <2>12
 <2>15. VisionInv'  BY <2>7, <2>12, <2>13, <2>14 DEF VisionInv
 <2> QED
   BY <2>7, <2>15, <1>1, TypesFollow, GatesStay, <2>2, <2>6 DEF CallsInv,
     GateWaiters, GateHolders
<1> QED BY <1>2, <1>3 DEF Prepared

\* An analysis that comes to its gate keeps it.
LEMMA EnterGateKeeps ==
    ASSUME CallsInv, NEW m \in Media, EnterGate(m)
    PROVE  CallsInv'
<1> PICK d \in CallChats \cup {"index"} : d = jobs[m].scope  BY JobTypes DEF EnterGate, CallsInv
<1>1. /\ CallsTypeOK /\ jobs[m] # Nobody /\ jobs[m].stage = "granted"
      /\ jobs[m] \in Job /\ d = jobs[m].scope /\ d \in CallChats \cup {"index"} /\ "index" \notin CallChats
      /\ UNCHANGED <<agents, vision>> /\ GatesInv /\ JobsInv
  BY JobTypes, CallsAssumption DEF EnterGate, CallsInv
<1>2. CASE /\ jobs' = [jobs EXCEPT ![m].stage = "call"] /\ d = "index" /\ gates' = gates
           /\ UNCHANGED <<hour, spent, indexed, sleep, cached, readers, worker>>
 <2> DEFINE j == [jobs[m] EXCEPT !.stage = "call"]
 <2>1. jobs' = [jobs EXCEPT ![m] = j]  BY <1>2
 <2>2. /\ j \in Job /\ j # Nobody /\ j.stage = "call" /\ j.scope = jobs[m].scope
       /\ j.owner = jobs[m].owner /\ j.aborted = jobs[m].aborted
   BY <1>1, StageSet
 <2> HIDE DEF j
 <2>3. /\ JobsInv' /\ NobodyWaitsForNothing' /\ IndexJobs' = IndexJobs
       /\ SpendingInv' /\ IndexInv' /\ SleepInv' /\ PlainTypes'
       /\ jobs'[m] = j /\ \A k \in Media \ {m} : jobs'[k] = jobs[k]
   BY <1>1, <1>2, <2>1, <2>2, JobMoves
 <2>4. \A c \in CallChats :
           GateWaiters(c)' = GateWaiters(c) /\ GateHolders(c)' = GateHolders(c)
  <3>1. /\ jobs'[m].scope = "index" /\ jobs[m].scope = "index"
        /\ \A k \in Media \ {m} : jobs'[k] = jobs[k]
        /\ agents' = agents /\ "index" \notin CallChats
    BY <1>1, <1>2, <2>2, <2>3
  <3> QED BY <3>1 DEF GateWaiters, GateHolders
 <2> QED
   BY <2>3, <1>1, <1>2, TypesFollow, <2>4, GatesStay, VisionStays, <2>2 DEF
     CallsInv, VisionWaiters, VisionHolders
<1>3. CASE Fail(m) /\ gates' = gates
 <2>1. /\ JobsInv' /\ NobodyWaitsForNothing' /\ IndexJobs' = IndexJobs \ {m}
       /\ SpendingInv' /\ IndexInv' /\ SleepInv' /\ PlainTypes'
       /\ jobs'[m] = Nobody /\ \A k \in Media \ {m} : jobs'[k] = jobs[k]
   BY <1>1, <1>3, Failed
 <2>4. m \notin VisionWaiters  BY <1>1 DEF VisionWaiters
 <2>5. GatesInv' /\ VisionInv'
   BY <1>1, <1>3, <2>1, <2>4, GatesStay, VisionStays DEF GateWaiters,
     GateHolders, VisionWaiters, VisionHolders
 <2> QED BY <2>1, <2>5, <1>1, <1>3, TypesFollow DEF CallsInv
<1>4. CASE /\ d # "index"
           /\ gates' = [gates EXCEPT ![d] = Acquire(gates[d], m, 1, FirstCome)]
           /\ jobs' = [jobs EXCEPT ![m].stage =
                  IF HasRoom(gates[d], 1) THEN "call" ELSE "gate"]
           /\ UNCHANGED <<hour, spent, indexed, sleep, cached, readers, worker>>
 <2> DEFINE s == IF HasRoom(gates[d], 1) THEN "call" ELSE "gate"
            j == [jobs[m] EXCEPT !.stage = s]
 <2>1. s \in {"call", "gate"}  OBVIOUS
 <2>2. s \in {"prepare", "queue", "granted", "gate", "call"} /\ d \in CallChats
   BY <1>1, <1>4, <2>1
 <2>3. jobs' = [jobs EXCEPT ![m] = j]  BY <1>4
 <2>4. HasRoom(gates[d], 1) => s = "call"  OBVIOUS
 <2>5. ~HasRoom(gates[d], 1) => s = "gate"  OBVIOUS
 <2> HIDE DEF s
 <2>6. /\ j \in Job /\ j # Nobody /\ j.stage = s /\ j.scope = jobs[m].scope
       /\ j.owner = jobs[m].owner /\ j.aborted = jobs[m].aborted
  <3> DEFINE o == jobs[m]
  <3>1. o \in Job /\ j = [o EXCEPT !.stage = s]  BY <1>1
  <3> HIDE DEF o, j
  <3> QED BY <2>2, <3>1, StageSet DEF o
 <2> HIDE DEF j
 <2>7. /\ JobsInv' /\ NobodyWaitsForNothing' /\ IndexJobs' = IndexJobs
       /\ SpendingInv' /\ IndexInv' /\ SleepInv' /\ PlainTypes'
       /\ jobs'[m] = j /\ \A k \in Media \ {m} : jobs'[k] = jobs[k]
   BY <1>1, <1>4, <2>3, <2>6, JobMoves
 <2> DEFINE sem == Acquire(gates[d], m, 1, FirstCome)
 <2>8. /\ gates' = [gates EXCEPT ![d] = sem]
       /\ GateIs(gates[d], GateWaiters(d), GateHolders(d))
   BY <1>1, <1>4, <2>2 DEF GatesInv
 <2>10. /\ HasRoom(gates[d], 1) => GateIs(sem, GateWaiters(d), {m}) /\ GateHolders(d) = {}
        /\ ~HasRoom(gates[d], 1) => GateIs(sem, GateWaiters(d) \cup {m}, GateHolders(d))
   BY <1>1, <2>8, GateEntered, <2>2, AtGate
 <2> HIDE DEF sem
 <2>11. \A c \in CallChats \ {d} :
           GateWaiters(c)' = GateWaiters(c) /\ GateHolders(c)' = GateHolders(c)
   BY <1>1, <2>6, <2>7 DEF GateWaiters, GateHolders
 <2>12. \A k \in Media : k # m =>
            /\ jobs'[k] # Nobody <=> jobs[k] # Nobody
            /\ jobs'[k].scope = jobs[k].scope /\ jobs'[k].stage = jobs[k].stage
   BY <2>7
 <2>13. /\ jobs'[m] # Nobody /\ jobs'[m].scope = d /\ jobs'[m].stage = s
        /\ jobs[m] # Nobody /\ jobs[m].scope = d /\ jobs[m].stage = "granted"
   BY <1>1, <2>6, <2>7
 <2>14. /\ s = "call" => /\ GateWaiters(d)' = GateWaiters(d)
                         /\ GateHolders(d)' = GateHolders(d) \cup {m}
        /\ s = "gate" => /\ GateWaiters(d)' = GateWaiters(d) \cup {m}
                         /\ GateHolders(d)' = GateHolders(d)
   BY <1>1, <2>2, <2>12, <2>13 DEF GateWaiters, GateHolders
 <2>15. GateIs(sem, GateWaiters(d)', GateHolders(d)')  BY <2>4, <2>5, <2>10, <2>14
 <2>18. VisionInv'
   BY <1>1, <2>7, VisionStays, <2>1, <2>12, <2>13 DEF VisionWaiters,
     VisionHolders
 <2> QED BY <2>7, <2>18, <1>1, TypesFollow, <2>2, <2>8, <2>11, <2>15, GatesOther DEF CallsInv
<1> QED BY <1>1, <1>2, <1>3, <1>4 DEF EnterGate

\* A signal keeps it.
LEMMA AbortAnalysisKeeps ==
    ASSUME CallsInv, NEW m \in Media, AbortAnalysis(m)
    PROVE  CallsInv'
<1>0. jobs[m].scope \in CallChats
 <2> QED BY CallsAssumption, JobTypes DEF JobSound, CallsInv, AbortAnalysis, JobsInv
<1> PICK d \in CallChats : d = jobs[m].scope  BY <1>0
<1>1. /\ CallsTypeOK /\ jobs[m] # Nobody /\ jobs[m] \in Job /\ d = jobs[m].scope
      /\ d # "index" /\ agents' = agents /\ GatesInv /\ VisionInv
  BY JobTypes, CallsAssumption DEF AbortAnalysis, CallsInv
<1>2. CASE /\ jobs[m].stage = "queue" /\ vision' = Withdraw(vision, m)
           /\ Fail(m) /\ gates' = gates
 <2>1. /\ JobsInv' /\ NobodyWaitsForNothing' /\ IndexJobs' = IndexJobs \ {m}
       /\ SpendingInv' /\ IndexInv' /\ SleepInv' /\ PlainTypes'
       /\ jobs'[m] = Nobody /\ \A k \in Media \ {m} : jobs'[k] = jobs[k]
   BY <1>1, <1>2, Failed
 <2>3. /\ VisionWaiters' = VisionWaiters \ {m} /\ VisionHolders' = VisionHolders
       /\ m \in VisionWaiters /\ m \notin IndexJobs
   BY <1>1, <1>2, <2>1 DEF VisionWaiters, VisionHolders, IndexJobs
 <2> DEFINE sem == Withdraw(vision, m)
 <2>4. VisionIs(sem, VisionWaiters \ {m}, VisionHolders) /\ Behind(sem.waiters, IndexJobs)
   BY <1>1, <2>3, VisionLeft DEF VisionInv
 <2>5. vision' = sem  BY <1>2
 <2> HIDE DEF sem
 <2>6. IndexJobs' = IndexJobs  BY <2>1, <2>3
 <2>7. VisionInv'  BY <2>3, <2>4, <2>5, <2>6 DEF VisionInv
 <2> QED
   BY <2>1, <2>7, <1>1, <1>2, TypesFollow, GatesStay DEF CallsInv, GateWaiters,
     GateHolders
<1>3. CASE /\ jobs[m].stage = "gate" /\ gates' = [gates EXCEPT ![d] = Withdraw(gates[d], m)]
           /\ Fail(m) /\ vision' = vision
 <2>1. /\ JobsInv' /\ NobodyWaitsForNothing' /\ IndexJobs' = IndexJobs \ {m}
       /\ SpendingInv' /\ IndexInv' /\ SleepInv' /\ PlainTypes'
       /\ jobs'[m] = Nobody /\ \A k \in Media \ {m} : jobs'[k] = jobs[k]
   BY <1>1, <1>3, Failed
 <2>2. \A c \in CallChats \ {d} :
           GateWaiters(c)' = GateWaiters(c) /\ GateHolders(c)' = GateHolders(c)
   BY <1>1, <1>3, <2>1 DEF GateWaiters, GateHolders
 <2>4. GateWaiters(d)' = GateWaiters(d) \ {m} /\ GateHolders(d)' = GateHolders(d)
  <3> QED BY <1>1, <1>3, <2>1, CallsAssumption DEF GateWaiters, GateHolders
 <2> DEFINE sem == Withdraw(gates[d], m)
 <2>5. GateIs(sem, GateWaiters(d) \ {m}, GateHolders(d)) /\ gates' = [gates EXCEPT ![d] = sem]
   BY <1>3, GateLeft, <1>1, AtGate DEF GatesInv
 <2> HIDE DEF sem
 <2>6. GatesInv' /\ \E c \in CallChats : gates' = [gates EXCEPT ![c] = gates'[c]]
   BY <2>2, <2>4, <2>5, GatesOther
 <2> QED
   BY <2>1, <2>6, <1>1, TypesFollow, <1>3, VisionStays DEF CallsInv,
     VisionWaiters, VisionHolders
<1>4. CASE /\ jobs' = [jobs EXCEPT ![m].aborted = TRUE]
           /\ UNCHANGED <<hour, spent, indexed, sleep, cached, readers, worker, gates, vision>>
 <2> DEFINE j == [jobs[m] EXCEPT !.aborted = TRUE]
 <2>1. jobs' = [jobs EXCEPT ![m] = j]  BY <1>4
 <2>2. /\ j \in Job /\ j.stage = jobs[m].stage /\ j.scope = jobs[m].scope
       /\ j.owner = jobs[m].owner
   BY <1>1, JobFields
 <2> HIDE DEF j
 <2>3. j # Nobody /\ j.scope # "index"  BY <1>1, <2>2, CallsAssumption
 <2>4. /\ JobsInv' /\ NobodyWaitsForNothing' /\ IndexJobs' = IndexJobs
       /\ SpendingInv' /\ IndexInv' /\ SleepInv' /\ PlainTypes'
       /\ jobs'[m] = j /\ \A k \in Media \ {m} : jobs'[k] = jobs[k]
   BY <1>1, <1>4, <2>1, <2>2, <2>3, JobMoves
 <2>5. /\ agents' = agents
       /\ \A k \in Media : /\ jobs'[k] # Nobody <=> jobs[k] # Nobody
                           /\ jobs'[k].scope = jobs[k].scope /\ jobs'[k].stage = jobs[k].stage
   BY <1>1, <2>2, <2>3, <2>4
 <2>8. GatesInv' /\ VisionInv'
   BY <1>4, <2>4, GatesStay, VisionStays, <2>5 DEF GateWaiters, GateHolders,
     VisionWaiters, VisionHolders
 <2> QED BY <2>4, <2>8, <1>1, <1>4, TypesFollow DEF CallsInv
<1> QED BY <1>1, <1>2, <1>3, <1>4 DEF AbortAnalysis

\* The analyses that the vision semaphore (viewed) and a gate (handed) let in go on,
\* that of m ends.
PassedOn(m, handed, viewed) ==
    /\ jobs' \in [Media -> Job \cup {Nobody}] /\ jobs'[m] = Nobody
    /\ \A k \in Media \ {m} :
           /\ k \notin handed \cup viewed => jobs'[k] = jobs[k]
           /\ k \in handed \cup viewed =>
                  /\ jobs'[k] # Nobody
                  /\ jobs'[k].stage = IF k \in viewed THEN "granted" ELSE "call"
                  /\ jobs'[k].scope = jobs[k].scope
                  /\ jobs'[k].owner = jobs[k].owner
                  /\ jobs'[k].aborted = jobs[k].aborted

\* They do when a call ends.
LEMMA JobsAfterCall ==
    ASSUME CallsTypeOK, NEW m \in Media, NEW handed, NEW viewed,
           \A k \in handed \cap Media : jobs[k] # Nobody /\ jobs[k].stage = "gate",
           \A k \in viewed \cap Media : jobs[k] # Nobody /\ jobs[k].stage = "queue",
           HandedTo(vision) = viewed,
           jobs' = [AfterVision(JobsAfter(jobs, handed)) EXCEPT ![m] = Nobody]
    PROVE  PassedOn(m, handed, viewed)
<1> DEFINE js == JobsAfter(jobs, handed)
           vs == AfterVision(js)
<1>2. /\ js \in [Media -> Job \cup {Nobody}]
      /\ \A k \in Media :
             /\ k \notin handed => js[k] = jobs[k]
             /\ k \in handed => /\ js[k] \in Job /\ js[k] # Nobody
                                /\ js[k].stage = "call" /\ js[k].scope = jobs[k].scope
                                /\ js[k].owner = jobs[k].owner
                                /\ js[k].aborted = jobs[k].aborted
  BY JobsHanded
<1> HIDE DEF js
<1>3. vs = [k \in Media |-> IF k \in viewed THEN [js[k] EXCEPT !.stage = "granted"] ELSE js[k]]
  BY DEF AfterVision
<1> HIDE DEF vs
<1>4. ASSUME NEW k \in Media, k \in viewed
      PROVE  /\ k \notin handed /\ vs[k] \in Job /\ vs[k] # Nobody
             /\ vs[k].stage = "granted" /\ vs[k].scope = jobs[k].scope
             /\ vs[k].owner = jobs[k].owner /\ vs[k].aborted = jobs[k].aborted
 <2>1. k \notin handed /\ jobs[k] \in Job  BY <1>4 DEF CallsTypeOK
 <2> DEFINE o == jobs[k]
            v == vs[k]
 <2>2. v = [o EXCEPT !.stage = "granted"] /\ o \in Job  BY <1>2, <1>3, <1>4, <2>1
 <2> HIDE DEF o, v
 <2>3. /\ v \in Job /\ v # Nobody /\ v.stage = "granted" /\ v.scope = o.scope
       /\ v.owner = o.owner /\ v.aborted = o.aborted
   BY <2>2, StageSet
 <2> QED BY <2>1, <2>3 DEF o, v
<1>5. ASSUME NEW k \in Media, k \notin viewed
      PROVE  vs[k] = js[k]
  BY <1>3, <1>5
<1>6. vs \in [Media -> Job \cup {Nobody}]
 <2>2. vs = [k \in Media |-> vs[k]]
  <3> DEFINE f(k) == IF k \in viewed THEN [js[k] EXCEPT !.stage = "granted"] ELSE js[k]
  <3> HIDE DEF f
  <3> QED BY <1>3
 <2> QED BY <2>2, <1>2, <1>4, <1>5
<1>8. /\ jobs' \in [Media -> Job \cup {Nobody}] /\ jobs'[m] = Nobody
      /\ \A k \in Media \ {m} : jobs'[k] = vs[k]
  BY <1>6 DEF vs, js
<1>9. ASSUME NEW k \in Media \ {m}
      PROVE  /\ k \notin handed \cup viewed => jobs'[k] = jobs[k]
             /\ k \in handed \cup viewed =>
                    /\ jobs'[k] # Nobody
                    /\ jobs'[k].stage = IF k \in viewed THEN "granted" ELSE "call"
                    /\ jobs'[k].scope = jobs[k].scope
                    /\ jobs'[k].owner = jobs[k].owner
                    /\ jobs'[k].aborted = jobs[k].aborted
 <2>1. CASE k \in viewed  BY <1>4, <1>8, <2>1
 <2>2. CASE k \notin viewed  BY <1>2, <1>5, <1>8, <2>2
 <2> QED BY <2>1, <2>2
<1> QED BY <1>8, <1>9 DEF PassedOn

\* The end of an analysis keeps it: permit and gate are handed on.
LEMMA FinishVisionCallKeeps ==
    ASSUME CallsInv, NEW m \in Media, FinishVisionCall(m)
    PROVE  CallsInv'
<1>0. /\ CallsTypeOK /\ GatesInv /\ VisionInv /\ JobsInv /\ SpendingInv /\ IndexInv /\ SleepInv
      /\ jobs[m] # Nobody /\ jobs[m].stage = "call" /\ JobSound(m)
      /\ jobs[m].scope \in CallChats \cup {"index"} /\ "index" \notin CallChats
      /\ UNCHANGED <<hour, sleep>> /\ vision' = Release(vision)
  BY JobTypes, CallsAssumption DEF FinishVisionCall, CallsInv, JobsInv
<1> PICK d \in CallChats \cup {"index"} : d = jobs[m].scope  BY <1>0
<1> PICK handed : handed = IF d = "index" THEN {} ELSE HandedTo(gates[d])  OBVIOUS
<1> PICK viewed : viewed = HandedTo(vision)  OBVIOUS
<1> PICK outcome \in {"done", "failed"} :
        /\ Settle(m, outcome)
        /\ cached' = cached \/ cached' = cached \cup {m}
  BY DEF FinishVisionCall
<1>1. /\ d = jobs[m].scope
      /\ gates' = IF d = "index" THEN gates ELSE [gates EXCEPT ![d] = Release(gates[d])]
      /\ agents' = AgentsAfter(handed)
      /\ jobs' = [AfterVision(JobsAfter(jobs, handed)) EXCEPT ![m] = Nobody]
      /\ viewed = HandedTo(vision)
  BY DEF FinishVisionCall
<1>2. /\ viewed \subseteq VisionWaiters /\ m \in VisionHolders
      /\ VisionIs(vision', VisionWaiters \ viewed, (VisionHolders \ {m}) \cup viewed)
      /\ Behind(vision'.waiters, IndexJobs)
 <2>1. m \in VisionHolders /\ VisionWaiters \cap VisionHolders = {}
   BY <1>0 DEF VisionHolders, VisionWaiters
 <2> HIDE DEF VisionHolders, VisionWaiters, IndexJobs
 <2> QED BY <1>0, <1>1, <2>1, VisionReleased DEF VisionInv
<1>3. d # "index" => /\ GateHolders(d) = {m} /\ handed \subseteq GateWaiters(d)
                     /\ GateIs(Release(gates[d]), GateWaiters(d) \ handed, handed)
 <2> SUFFICES ASSUME d # "index"
              PROVE  /\ GateHolders(d) = {m} /\ handed \subseteq GateWaiters(d)
                     /\ GateIs(Release(gates[d]), GateWaiters(d) \ handed, handed)
   OBVIOUS
 <2>1. d \in CallChats /\ handed = HandedTo(gates[d])  BY <1>0
 <2> DEFINE sem == gates[d]
            W == GateWaiters(d)
            H == GateHolders(d)
 <2> HIDE DEF sem, W, H
 <2>3. m \in H /\ GateIs(sem, W, H)  BY <1>0, <1>1, <2>1, AtGate DEF sem, W, H, GatesInv
 <2> QED BY <2>1, <2>3, GateReleased DEF sem, W, H
<1>4. /\ handed \subseteq Agents \cup Media
      /\ \A b \in Agents : b \in handed =>
             d # "index" /\ ChatAt[b] = d /\ agents[b] = "waiting"
      /\ \A k \in Media : k \in handed =>
             d # "index" /\ jobs[k] # Nobody /\ jobs[k].scope = d /\ jobs[k].stage = "gate"
      /\ m \notin handed
 <2>1. CASE d = "index"
  <3>1. handed = {}  BY <2>1
  <3> QED BY <3>1
 <2>2. CASE d # "index"  BY <1>0, <1>3, <2>2, AtGate
 <2> QED BY <2>1, <2>2
<1>5. \A k \in viewed : k \in Media /\ jobs[k] # Nobody /\ jobs[k].stage = "queue"
  BY <1>2 DEF VisionWaiters
<1>6. /\ jobs' \in [Media -> Job \cup {Nobody}] /\ jobs'[m] = Nobody
      /\ \A k \in Media \ {m} :
             /\ k \notin handed \cup viewed => jobs'[k] = jobs[k]
             /\ k \in handed \cup viewed =>
                    /\ jobs'[k] # Nobody
                    /\ jobs'[k].stage = IF k \in viewed THEN "granted" ELSE "call"
                    /\ jobs'[k].scope = jobs[k].scope
                    /\ jobs'[k].owner = jobs[k].owner
                    /\ jobs'[k].aborted = jobs[k].aborted
 <2>3. PassedOn(m, handed, viewed)  BY JobsAfterCall, <1>1, <1>4, <1>5, <1>0
 <2> QED BY <2>3 DEF PassedOn
<1>7. /\ \A b \in Agents : agents'[b] = IF b \in handed THEN "calling" ELSE agents[b]
      /\ agents' \in [Agents -> {"idle", "waiting", "calling", "blocked"}]
  BY <1>0, <1>1 DEF AgentsAfter, CallsTypeOK
<1>8. \A k \in Media \ {m} :
          /\ jobs'[k] # Nobody <=> jobs[k] # Nobody
          /\ jobs[k] # Nobody =>
                 /\ jobs'[k].scope = jobs[k].scope /\ jobs'[k].owner = jobs[k].owner
                 /\ jobs'[k].aborted = jobs[k].aborted
                 /\ jobs'[k].stage = IF k \in viewed THEN "granted"
                                     ELSE IF k \in handed THEN "call" ELSE jobs[k].stage
  BY <1>4, <1>5, <1>6
<1>9. /\ NobodyWaitsForNothing'
      /\ readers' \in [Readers -> {"idle", "waiting", "done", "failed"}]
      /\ worker' \in Indexed \cup {Nobody}
      /\ worker # m => worker' = worker
  BY <1>8, Settled
<1>10. JobsInv' /\ IndexJobs' \subseteq IndexJobs
 <2>1. ASSUME NEW k \in Media, jobs'[k] # Nobody
       PROVE  /\ jobs[k] # Nobody
              /\ jobs'[k].scope = jobs[k].scope /\ jobs'[k].owner = jobs[k].owner
              /\ jobs[k].scope = "index" =>
                     /\ jobs'[k].aborted = jobs[k].aborted /\ worker' = worker
                     /\ jobs'[k].stage # "gate"
  <3> QED BY <1>8, <1>9, <1>0, <1>6, <2>1 DEF JobSound, JobsInv
 <2> QED BY <2>1, JobsGoOn
<1>11. VisionInv'
 <2>1. VisionWaiters' = VisionWaiters \ viewed  BY <1>0, <1>4, <1>5, <1>6, <1>8 DEF VisionWaiters
 <2>2. VisionHolders' = (VisionHolders \ {m}) \cup viewed
   BY <1>0, <1>4, <1>5, <1>6, <1>8 DEF VisionHolders
 <2> DEFINE I == IndexJobs'
            v == vision'
            V == VisionWaiters'
            H == VisionHolders'
 <2> HIDE DEF I, v, V, H
 <2>4. VisionIs(v, V, H) /\ V \subseteq VisionWaiters  BY <1>2, <2>1, <2>2 DEF v, V, H
 <2>6. Behind(v.waiters, I)
   BY <1>2, <1>0, <1>6, <1>8, <2>4 DEF Behind, v, I, IndexJobs, VisionWaiters,
     VisionIs, Queues, ToSet
 <2> QED BY <2>4, <2>6 DEF VisionInv, v, V, H, I
<1>12. /\ GatesInv'
       /\ \/ gates' = gates
          \/ \E c \in CallChats : gates' = [gates EXCEPT ![c] = gates'[c]]
 <2>1. ASSUME NEW c \in CallChats \ {d}
       PROVE GateWaiters(c)' = GateWaiters(c) /\ GateHolders(c)' = GateHolders(c)
  <3>2. ASSUME NEW k \in Media
        PROVE  /\ (jobs'[k] # Nobody /\ jobs'[k].scope = c /\ jobs'[k].stage = "gate") <=>
                  (jobs[k] # Nobody /\ jobs[k].scope = c /\ jobs[k].stage = "gate")
               /\ (jobs'[k] # Nobody /\ jobs'[k].scope = c /\ jobs'[k].stage = "call") <=>
                  (jobs[k] # Nobody /\ jobs[k].scope = c /\ jobs[k].stage = "call")
   <4>1. CASE k = m  BY <1>1, <1>6, <4>1
   <4>2. CASE k # m /\ k \in viewed  BY <1>5, <1>8, <4>2
   <4>3. CASE k # m /\ k \notin viewed  BY <1>4, <1>8, <4>3
   <4> QED BY <4>1, <4>2, <4>3
  <3> QED BY <3>2, <1>4, <1>7 DEF GateWaiters, GateHolders
 <2>2. CASE d = "index"
  <3> QED BY <2>1, GatesStay, <1>0, <1>1, <2>2
 <2>3. CASE d # "index"
  <3>1. d \in CallChats /\ gates' = [gates EXCEPT ![d] = Release(gates[d])]  BY <1>1, <2>3
  <3>2. GateWaiters(d)' = GateWaiters(d) \ handed
   <4> QED BY <1>7, <1>0, <1>5, <1>6, <1>8 DEF GateWaiters
  <3>3. GateHolders(d)' = handed
   <4>0. GateHolders(d) = {m} /\ m \notin Agents  BY <1>3, <2>3, CallsAssumption
   <4>1. \A b \in Agents : (ChatAt[b] = d /\ agents'[b] = "calling") <=> b \in handed
    <5> QED BY <1>4, <1>7, <1>0, <3>1, <4>0, AtGate
   <4>2. \A k \in Media :
             (jobs'[k] # Nobody /\ jobs'[k].scope = d /\ jobs'[k].stage = "call") <=> k \in handed
    <5> QED BY <1>4, <1>5, <1>6, <1>8, <1>0, <3>1, <4>0, AtGate
   <4> QED BY <1>4, <4>1, <4>2 DEF GateHolders
  <3> DEFINE sem == Release(gates[d])
  <3> HIDE DEF sem
  <3> QED BY <2>1, <3>1, GatesOther, <1>3, <2>3, <3>2, <3>3
 <2> QED BY <2>2, <2>3
<1>13. LetThrough' \subseteq LetThrough \ {m}
 <2>1. ASSUME NEW b \in Agents \ Exempt, agents'[b] \in {"waiting", "calling"}
       PROVE  b # m /\ agents[b] \in {"waiting", "calling"}
   BY <1>4, <1>7, <2>1, CallsAssumption
 <2>2. ASSUME NEW k \in Media, jobs'[k] # Nobody, jobs'[k].scope # "index"
       PROVE  k # m /\ jobs[k] # Nobody /\ jobs[k].scope # "index"
   BY <1>6, <1>8, <2>2
 <2> QED BY <2>1, <2>2 DEF LetThrough, Through
<1>14. /\ SpendingInv' /\ IndexInv' /\ SleepInv'
       /\ spent' \in [Days -> [metered: Nat, exempt: Nat]]
       /\ indexed' \in [Days -> [images: Nat, tokens: Nat]]
 <2>0. /\ spent \in [Days -> [metered: Nat, exempt: Nat]]
       /\ indexed \in [Days -> [images: Nat, tokens: Nat]]
   BY <1>0 DEF CallsTypeOK
 <2>1. CASE d # "index"
  <3>1. PICK tokens \in 0..1 : Charge(FALSE, tokens) /\ indexed' = indexed
    BY <1>1, <2>1 DEF FinishVisionCall
  <3> QED
    BY <2>0, <3>1, <1>0, ChargeWrites, <1>10, <1>13, AccountsCharge, <1>1, <2>1
      DEF LetThrough, Through
 <2>2. CASE d = "index"
  <3> DEFINE old == indexed[Today]
  <3>1. PICK tokens \in 0..1 :
            /\ indexed' = [indexed EXCEPT ![Today].tokens = @ + tokens] /\ spent' = spent
    BY <1>1, <2>2 DEF FinishVisionCall
  <3> DEFINE row == [old EXCEPT !.tokens = @ + tokens]
  <3>2. /\ Today' = Today /\ Today \in Days /\ Today \in Nat
        /\ old \in [images: Nat, tokens: Nat] /\ old.images \in Nat /\ old.tokens \in Nat
        /\ IndexTokens \in Nat /\ indexed' = [indexed EXCEPT ![Today] = row]
    BY <1>0, <3>1, CallTypes DEF Today
  <3>3. m \in IndexJobs /\ old.tokens < IndexTokens  BY <1>0, <1>1, <2>2 DEF IndexJobs, IndexInv
  <3>4. row \in [images: Nat, tokens: Nat] /\ row.images = old.images
        /\ row.tokens <= IndexTokens
    BY <3>2, <3>3
  <3> HIDE DEF row
  <3>5. /\ indexed'[Today] = row /\ \A e \in Days \ {Today} : indexed'[e] = indexed[e]
        /\ indexed' \in [Days -> [images: Nat, tokens: Nat]]
    BY <2>0, <3>2, <3>4
  <3>6. IndexJobs' = {}
   <4> SUFFICES ASSUME NEW k \in IndexJobs' PROVE FALSE  OBVIOUS
   <4>2. k \in Media /\ k # m /\ jobs[k] # Nobody /\ jobs[k].scope = "index"
     BY <1>6, <1>8 DEF IndexJobs
   <4> QED BY <4>2, <1>0, <1>1, <2>2 DEF JobsInv, JobSound
  <3>7. IndexInv'
   <4>1. ASSUME NEW e \in Days
         PROVE  indexed'[e].images <= IndexImages /\ indexed'[e].tokens <= IndexTokens
    <5>1. CASE e = Today  BY <1>0, <3>4, <3>5, <5>1 DEF IndexInv, IndexBudgetKept
    <5>2. CASE e # Today  BY <1>0, <3>5, <5>2 DEF IndexInv, IndexBudgetKept
    <5> QED BY <5>1, <5>2
   <4> QED BY <3>6, <4>1 DEF IndexInv, IndexBudgetKept, Days
  <3>8. SpendingInv'
   <4>1. /\ Cardinality(LetThrough') <= Cardinality(LetThrough)
         /\ Cardinality(LetThrough') \in Nat /\ Cardinality(LetThrough) \in Nat
         /\ Overrun \in Nat /\ MaxTokens \in Nat /\ spent[Today].metered \in Nat
     BY <1>0, <1>13, <3>2, LetThroughFacts, CallTypes, FS_Subset, FS_CardinalityType
   <4>4. spent[Today].metered + Cardinality(LetThrough) <= MaxTokens - 1 + Overrun
     BY <1>0 DEF SpendingInv
   <4>5. (spent[Today].metered + Cardinality(LetThrough) <= MaxTokens - 1 + Overrun)'
     BY <3>1, <3>2, <4>1, <4>4 DEF Overrun
   <4>7. \A e \in Days : e > Today =>
             spent'[e].metered = 0 /\ indexed'[e].images = 0 /\ indexed'[e].tokens = 0
     BY <1>0, <3>1, <3>5, <3>2 DEF SpendingInv
   <4> QED BY <3>2, <4>5, <4>7, <1>0, <3>1 DEF SpendingInv, Days, OverrunBounded
  <3>9. SleepInv'  BY <1>0 DEF SleepInv
  <3> QED BY <2>0, <3>1, <3>5, <3>7, <3>8, <3>9
 <2> QED BY <2>1, <2>2
<1> QED
  BY <1>9, <1>10, <1>11, <1>12, <1>14, <1>0, TypesFollow, <1>6, <1>7 DEF
    CallsInv, PlainTypes, CallsTypeOK, Days, Day

------------------------------------------------------------------------------
(* Sleep and the clock.                                                        *)

\* Nothing of the calls changes.
LEMMA CallsStay ==
    ASSUME CallsInv, UNCHANGED <<agents, readers, worker, jobs, cached, gates, vision>>
    PROVE  /\ GatesInv' /\ VisionInv' /\ JobsInv' /\ NobodyWaitsForNothing'
           /\ LetThrough' = LetThrough /\ IndexJobs' = IndexJobs /\ Overrun' = Overrun
<1>3. GatesInv'  BY GatesStay DEF GateWaiters, GateHolders
<1> QED BY <1>3, JobsStay DEF LetThrough, Through, Overrun

\* Falling asleep keeps it.
LEMMA CallZzzKeeps ==
    ASSUME CallsInv, CallZzz
    PROVE  CallsInv'
<1>1. /\ CallsTypeOK /\ sleep' = [since |-> hour, until |-> WakeHour]
      /\ UNCHANGED <<hour, spent, indexed, agents, readers, worker, jobs, cached,
                     gates, vision>>
      /\ SpendingInv /\ IndexInv
  BY DEF CallZzz, EnterSleep, CallsInv
<1>2. /\ GatesInv' /\ VisionInv' /\ JobsInv' /\ NobodyWaitsForNothing'
      /\ LetThrough' = LetThrough /\ IndexJobs' = IndexJobs /\ Overrun' = Overrun
  BY <1>1, CallsStay
<1>3. /\ WakeHour \in Nat /\ NextReset <= WakeHour /\ hour \in Nat
      /\ NextReset = (Day(hour) + 1) * DayHours
 <2> QED BY <1>1, CallTypes, CallsAssumption DEF WakeHour, NextReset, Today
<1>4. sleep' \in Sleep /\ sleep'.since = hour /\ sleep'.until = WakeHour
  BY <1>1, <1>3 DEF Sleep
<1>5. SleepInv'  BY <1>1, <1>3, <1>4 DEF SleepInv, Day
<1>7. SpendingInv' /\ IndexInv'
 <2> QED BY <1>1, <1>2 DEF SpendingInv, IndexInv, Today, OverrunBounded, IndexBudgetKept
<1> QED BY <1>2, <1>5, <1>7, <1>1, <1>4 DEF CallsInv, CallsTypeOK

\* Waking keeps it.
LEMMA LeaveSleepKeeps ==
    ASSUME CallsInv, LeaveSleep
    PROVE  CallsInv'
<1>1. /\ CallsTypeOK /\ sleep' = Nobody
      /\ UNCHANGED <<hour, spent, indexed, agents, readers, worker, jobs, cached,
                     gates, vision>>
      /\ SpendingInv /\ IndexInv
  BY DEF LeaveSleep, CallsInv
<1>2. /\ GatesInv' /\ VisionInv' /\ JobsInv' /\ NobodyWaitsForNothing'
      /\ LetThrough' = LetThrough /\ IndexJobs' = IndexJobs /\ Overrun' = Overrun
  BY <1>1, CallsStay
<1>5. SpendingInv' /\ IndexInv'
 <2> QED BY <1>1, <1>2 DEF SpendingInv, IndexInv, Today, OverrunBounded, IndexBudgetKept
<1> QED BY <1>2, <1>5, <1>1 DEF CallsInv, CallsTypeOK, SleepInv

\* A new day starts with an empty account, so that whoever was let through on the
\* old one fits the new one's overrun.
LEMMA HourPassesKeeps ==
    ASSUME CallsInv, HourPasses
    PROVE  CallsInv'
<1>1. /\ CallsTypeOK /\ hour < LastHour /\ hour' = hour + 1 /\ JobsInv
      /\ UNCHANGED <<spent, indexed, sleep, agents, readers, worker, jobs, cached,
                     gates, vision>>
      /\ SpendingInv /\ IndexInv /\ SleepInv
  BY DEF HourPasses, CallsInv
<1>2. /\ GatesInv' /\ VisionInv' /\ JobsInv' /\ NobodyWaitsForNothing'
      /\ LetThrough' = LetThrough /\ IndexJobs' = IndexJobs /\ Overrun' = Overrun
  BY <1>1, CallsStay
<1>3. /\ hour \in Nat /\ LastHour \in Nat /\ MaxTokens \in Nat /\ MaxTokens >= 1
      /\ Today \in Nat /\ IndexTokens \in Nat
      /\ \A d \in Days : /\ d \in Nat /\ spent[d].metered \in Nat
                         /\ indexed[d].tokens \in Nat
  BY <1>1, CallTypes, CallsAssumption
<1>4. hour' \in 0..LastHour  BY <1>1, <1>3
<1>6. /\ Today' \in Nat /\ Today' \in Days /\ Today <= Today'
 <2>1. Today' \in Nat /\ Today <= Today'
  <3> QED BY <1>1, <1>3, DayFacts DEF Today, Day
 <2> QED BY <2>1, <1>1, DayFacts, <1>3 DEF Days, Today, Day
<1>8. SpendingInv'
 <2>2. spent[Today'].metered + Cardinality(LetThrough) <= MaxTokens - 1 + Overrun
  <3>1. CASE Today' = Today  BY <1>1, <3>1 DEF SpendingInv
  <3>2. CASE Today' # Today
   <4> QED BY <1>3, <1>1, LetThroughFacts, <1>6, <3>2 DEF SpendingInv
  <3> QED BY <3>1, <3>2
 <2>3. \A d \in Days : d > Today' =>
           spent[d].metered = 0 /\ indexed[d].images = 0 /\ indexed[d].tokens = 0
  <3> QED BY <1>1, <1>3, <1>6 DEF SpendingInv
 <2> QED BY <1>1, <1>2, <2>2, <2>3 DEF SpendingInv, Days, Day, OverrunBounded
<1>9. IndexInv'
 <2>2. IndexJobs # {} => indexed[Today'].tokens < IndexTokens
  <3>1. CASE Today' = Today  BY <1>1, <3>1 DEF IndexInv
  <3>2. CASE Today' # Today
   <4>3. IndexJobs # {} => IndexTokens > 0
    <5> QED BY <1>1, <1>3, CallTypes DEF IndexInv
   <4> QED BY <4>3, <1>1, <1>6, <1>3, <3>2 DEF SpendingInv
  <3> QED BY <3>1, <3>2
 <2> QED BY <1>1, <1>2, <2>2 DEF IndexInv, IndexBudgetKept, Days, Day
<1>10. SleepInv'
 <2> QED BY <1>1, <1>3, CallTypes DEF SleepInv, Day
<1> QED BY <1>2, <1>8, <1>9, <1>10, <1>1, <1>4 DEF CallsInv, CallsTypeOK

------------------------------------------------------------------------------
(* The theorem.                                                                *)

\* The invariant at first,
LEMMA CallsInvAtFirst == CallsInit => CallsInv
<1> SUFFICES ASSUME CallsInit PROVE CallsInv  OBVIOUS
<1>1. /\ hour = 0 /\ sleep = Nobody /\ worker = Nobody /\ cached = {}
      /\ \A d \in Days : /\ spent[d].metered = 0
                         /\ indexed[d].images = 0 /\ indexed[d].tokens = 0
      /\ \A a \in Agents : agents[a] = "idle"
      /\ \A r \in Readers : readers[r] = "idle"
      /\ \A m \in Media : jobs[m] = Nobody
      /\ \A c \in CallChats : gates[c] = FreeSemaphore
      /\ vision = FreeSemaphore
  BY DEF CallsInit
<1>2. \A C : /\ FreeSemaphore \in Semaphore(C) /\ FreeSemaphore.active = 0
             /\ FreeSemaphore.waiters = <<>>
  BY DEF FreeSemaphore, Semaphore
<1>3. Queues(<<>>, {})  BY DEF Queues, ToSet
<1>4. CallsTypeOK
 <2>3. gates \in [CallChats -> Semaphore(Agents \cup Media)]  BY <1>2 DEF CallsInit
 <2>6. PlainTypes  BY <1>1, CallsAssumption DEF CallsInit, PlainTypes
 <2> QED BY <2>3, <2>6, <1>1, <1>2, CallsAssumption DEF CallsTypeOK, PlainTypes
<1>5. GatesInv
 <2> SUFFICES ASSUME NEW c \in CallChats
              PROVE  GateIs(gates[c], GateWaiters(c), GateHolders(c))
   BY DEF GatesInv
 <2> QED BY <1>1, <1>2, <1>3 DEF GateIs, GateWaiters, GateHolders
<1>6. VisionInv
 <2>4. VisionIs(vision, {}, {})  BY <1>1, <1>2, <1>3, FS_EmptySet, CallsAssumption DEF VisionIs
 <2>5. Behind(vision.waiters, IndexJobs)  BY <1>1, <1>2 DEF Behind
 <2> QED BY <2>4, <2>5, <1>1 DEF VisionInv, VisionWaiters, VisionHolders
<1>7. JobsInv /\ NobodyWaitsForNothing  BY <1>1 DEF JobsInv, NobodyWaitsForNothing
<1>8. LetThrough = {} /\ IndexJobs = {}  BY <1>1 DEF LetThrough, Through, IndexJobs
<1>9. SpendingInv
 <2>1. MaxTokens \in Nat /\ MaxTokens >= 1 /\ Today \in Days
   BY <1>4, CallTypes, CallsAssumption
 <2>4. 0 <= MaxTokens - 1 + Overrun  BY <2>1, <1>4, <1>7, LetThroughFacts
 <2>6. spent[Today].metered + Cardinality(LetThrough) <= MaxTokens - 1 + Overrun
   BY <1>1, <2>1, <2>4, <1>8, FS_EmptySet
 <2> QED BY <1>1, <2>6, <2>4, OverrunIs DEF SpendingInv, OverrunBounded
<1>10. IndexInv  BY <1>1, <1>8, CallsAssumption DEF IndexInv, IndexBudgetKept
<1>11. SleepInv  BY <1>1 DEF SleepInv
<1> QED BY <1>4, <1>5, <1>6, <1>7, <1>9, <1>10, <1>11 DEF CallsInv

\* while nothing happens,
LEMMA CallsInvStutters == ASSUME CallsInv, UNCHANGED callVars PROVE CallsInv'
<1>1. /\ CallsTypeOK /\ SpendingInv /\ IndexInv /\ SleepInv
      /\ UNCHANGED <<hour, spent, indexed, sleep, agents, readers, worker, jobs, cached,
                     gates, vision>>
  BY DEF CallsInv, callVars
<1>4. CallsTypeOK'  BY <1>1 DEF CallsTypeOK
<1> QED BY <1>4, <1>1, AccountsStay, CallsStay DEF CallsInv

\* and through every step.
LEMMA CallsInvKept == CallsInv /\ [CallsNext]_callVars => CallsInv'
<1> SUFFICES ASSUME CallsInv, [CallsNext]_callVars PROVE CallsInv'  OBVIOUS
<1>1. ASSUME NEW a \in Agents, RequestModel(a) \/ FinishModelCall(a)
                               \/ NextRun(a) \/ AbortWaitingAgent(a)
      PROVE  CallsInv'
  BY <1>1, RequestModelKeeps, FinishModelCallKeeps, NextRunKeeps, AbortWaitingAgentKeeps
<1>2. ASSUME NEW r \in Readers, ReadImage(r) PROVE CallsInv'  BY <1>2, ReadImageKeeps
<1>3. ASSUME NEW m \in Indexed, IndexSticker(m) PROVE CallsInv'  BY <1>3, IndexStickerKeeps
<1>4. ASSUME NEW m \in Media, Prepared(m) \/ EnterGate(m) \/ FinishVisionCall(m)
                              \/ AbortAnalysis(m)
      PROVE  CallsInv'
  BY <1>4, PreparedKeeps, EnterGateKeeps, FinishVisionCallKeeps, AbortAnalysisKeeps
<1>5. CASE CallZzz \/ LeaveSleep \/ HourPasses
  BY <1>5, CallZzzKeeps, LeaveSleepKeeps, HourPassesKeeps
<1>6. CASE UNCHANGED callVars  BY <1>6, CallsInvStutters
<1> QED BY <1>1, <1>2, <1>3, <1>4, <1>5, <1>6 DEF CallsNext

\* It says what the property says.
LEMMA CallsInvAdmits == CallsInv => CallsAreAdmitted
<1> SUFFICES ASSUME CallsInv PROVE CallsAreAdmitted  OBVIOUS
<1>1. /\ CallsTypeOK /\ GatesInv /\ VisionInv /\ JobsInv /\ NobodyWaitsForNothing
      /\ SpendingInv /\ IndexInv /\ SleepInv
  BY DEF CallsInv
<1>2. GateFollowsCalls
 <2>1. ASSUME NEW c \in CallChats
       PROVE  /\ gates[c].active = Cardinality(GateHolders(c))
              /\ gates[c].active <= 1
              /\ gates[c].waiters # <<>> => gates[c].active = 1
  <3> DEFINE sem == gates[c]
             W == GateWaiters(c)
             H == GateHolders(c)
  <3> HIDE DEF sem, W, H
  <3>1. GateIs(sem, W, H)  BY <1>1 DEF GatesInv, sem, W, H
  <3>4. CASE sem.active = 0 /\ W = {} /\ H = {}
    BY <3>4, FS_EmptySet, SemaphoreFacts, <3>1 DEF sem, W, H, GateIs
  <3>5. CASE sem.active = 1 /\ \E h \in H : H = {h}
   <4>1. Cardinality(H) = 1  BY <3>5, FS_Singleton
   <4> QED BY <3>5, <4>1 DEF sem, W, H
  <3> QED BY <3>1, <3>4, <3>5 DEF GateIs
 <2>2. vision.waiters # <<>> => vision.active = VisionLimit
  <3>1. VisionIs(vision, VisionWaiters, VisionHolders)  BY <1>1 DEF VisionInv
  <3> QED BY <3>1, SemaphoreFacts DEF VisionIs
 <2> QED BY <2>1, <2>2 DEF GateFollowsCalls
<1>3. QueuesFollowClients
 <2>1. ASSUME NEW c \in CallChats PROVE ToSet(gates[c].waiters) = GateWaiters(c)
  <3> QED BY <1>1 DEF GateIs, Queues, GatesInv
 <2>3. /\ ToSet(vision.waiters) = VisionWaiters
       /\ Cardinality(VisionHolders) <= vision.active
   BY <1>1 DEF VisionIs, Queues, VisionInv
 <2>6. \A m \in Media :
           m \in ToSet(vision.waiters) <=> jobs[m] # Nobody /\ jobs[m].stage = "queue"
   BY <2>3 DEF VisionWaiters
 <2> QED BY <2>3, <2>6, <1>1, <2>1, AtGate DEF QueuesFollowClients
<1>4. ChatsBeforeIndex
 <2>1. VisionIs(vision, VisionWaiters, VisionHolders) /\ Behind(vision.waiters, IndexJobs)
   BY <1>1 DEF VisionInv
 <2> SUFFICES ASSUME NEW i \in DOMAIN vision.waiters, NEW j \in DOMAIN vision.waiters,
                     jobs[vision.waiters[i]].scope = "index",
                     jobs[vision.waiters[j]].scope # "index"
              PROVE  j < i
   BY DEF ChatsBeforeIndex
 <2>3. vision.waiters[i] \in IndexJobs /\ vision.waiters[j] \notin IndexJobs
   BY <2>1 DEF VisionWaiters, IndexJobs, VisionIs, Queues, ToSet
 <2>4. i \in Nat /\ j \in Nat
  <3> QED BY <1>1 DEF CallsTypeOK, Semaphore
 <2>5. ~ (i < j)  BY <2>1, <2>3 DEF Behind
 <2>6. i # j  BY <2>3
 <2> QED BY <2>4, <2>5, <2>6
<1>5. WakesToFreshBudget
 <2> SUFFICES ASSUME sleep # Nobody, ~Asleep PROVE Today > Day(sleep.since)
   BY DEF WakesToFreshBudget
 <2>1. sleep.since \in Nat /\ sleep.until \in Nat /\ hour \in Nat /\ DayHours \in Nat
   BY <1>1, CallTypes, CallsAssumption
 <2>2. sleep.until <= hour /\ (Day(sleep.since) + 1) * DayHours <= sleep.until
   BY <1>1, <2>1 DEF Asleep, SleepInv
 <2>3. Day(sleep.since) \in Nat  BY <2>1, DayFacts
 <2> DEFINE k == Day(sleep.since)
            u == (k + 1) * DayHours
 <2>4. u \in Int  BY <2>1, <2>3
 <2>5. u <= hour
  <3> HIDE DEF u
  <3> QED BY <2>1, <2>2, <2>4 DEF u
 <2> QED BY <2>1, <2>3, <2>5, DayFacts DEF Today
<1> QED
  BY <1>1, <1>2, <1>3, <1>4, <1>5 DEF CallsAreAdmitted, CallersAreServed,
    BudgetsHold, SpendingInv, IndexInv

\* Model calls are admitted in order and within the day's budget, whatever the
\* interleaving of agents, image analyses and the sticker index: a chat has at most one
\* call and its gate is out exactly while it runs, whoever waits stands in the queue its
\* permit is handed from, chats before the index, and no day is overrun by more than one
\* call of each caller, waits over midnight included (concurrency.ts AsyncSemaphore,
\* media.ts #analyzeDeduplicated, agent-runtime.ts streamFunction, sleep.ts).
THEOREM ModelCallsAdmitted == CallsSpec => []CallsAreAdmitted
<1>1. CallsSpec => []CallsInv  BY CallsInvAtFirst, CallsInvKept, PTL DEF CallsSpec
<1> QED BY <1>1, CallsInvAdmits, PTL

-----------------------------------------------------------------------------
(* Message ingestion: what a batch shows, for every instance of the model.     *)

-----------------------------------------------------------------------------
(* The participation calendar.                                                 *)

\* Days follow one another.
LEMMA DaysFollow ==
    ASSUME NEW a \in Int, NEW b \in Int, a < b
    PROVE  a * DayMinutes + DayMinutes <= b * DayMinutes
<1> QED BY DayAssumption

\* An instant is a minute of a day.
LEMMA MinuteOfDay ==
    ASSUME NEW t \in Nat
    PROVE  \E q \in Nat, r \in 0..(DayMinutes - 1) :
               t \div DayMinutes = q /\ t % DayMinutes = r /\ t = q * DayMinutes + r
<1>1. DayMinutes \in Int /\ DayMinutes > 0  BY DayAssumption
<1>4. PICK q \in Nat, r \in 0..(DayMinutes - 1) : t \div DayMinutes = q /\ t % DayMinutes = r
  BY <1>1
<1>5. t - (t % DayMinutes) = DayMinutes * (t \div DayMinutes)  BY <1>1, Z3
<1> QED BY <1>4, <1>1, <1>5

\* The day before, on the calendar and in the week.
LEMMA DayBefore ==
    ASSUME NEW d \in Nat
    PROVE  PreviousWeekday((d % 7) + 1) = ((d - 1) % 7) + 1
BY DEF PreviousWeekday

\* A window covers an instant exactly if it does so on the day, or from the day before.
LEMMA WindowCovers ==
    ASSUME NEW w \in Window, NEW t \in Nat
    PROVE  IsWithinActiveWindows({w}, t) <=> CoveredByCalendar({w}, t)
<1>1. PICK q \in Nat, r \in 0..(DayMinutes - 1) :
          t \div DayMinutes = q /\ t % DayMinutes = r /\ t = q * DayMinutes + r
  BY MinuteOfDay
<1> DEFINE Begins(day) == day * DayMinutes + w.start
           Lasts == IF w.end > w.start THEN w.end - w.start ELSE DayMinutes - w.start + w.end
           Opens(day) == w.days = Unset \/ (day % 7) + 1 \in w.days
           Covers(day) == Begins(day) <= t /\ t < Begins(day) + Lasts
<1>2. w.start \in 0..(DayMinutes - 1) /\ w.end \in 0..DayMinutes  BY DEF Window
<1>3. IsWithinActiveWindows({w}, t) <=>
        IF w.end > w.start THEN r >= w.start /\ r < w.end /\ Opens(q)
        ELSE (r >= w.start /\ Opens(q)) \/ (r < w.end /\ Opens(q - 1))
  BY <1>1, DayBefore DEF IsWithinActiveWindows, LocalTime, MatchesDay
<1>4. CoveredByCalendar({w}, t) <=> \E day \in -1..q : Opens(day) /\ Covers(day)
  BY <1>1 DEF CoveredByCalendar
<1>5. \A day \in Int : day * DayMinutes \in Int  BY DayAssumption
<1>6. (q - 1) * DayMinutes + DayMinutes = q * DayMinutes  BY <1>1, DayAssumption
<1>9. CASE w.end > w.start
 <2>1. \A day \in -1..q : Covers(day) => day = q
  <3> SUFFICES ASSUME NEW day \in -1..q, Covers(day), day # q PROVE FALSE  OBVIOUS
  <3>1. day * DayMinutes + DayMinutes <= q * DayMinutes /\ day * DayMinutes \in Int /\ q * DayMinutes \in Int
    BY <1>1, <1>5, DaysFollow
  <3> QED BY <1>1, <1>2, <1>9, <3>1, DayAssumption
 <2> QED BY <1>1, <1>3, <1>4, <1>9, <2>1, <1>2, <1>5, DayAssumption
<1>10. CASE ~(w.end > w.start)
 <2>1. \A day \in -1..q : Covers(day) => day = q \/ day = q - 1
   BY <1>1, <1>2, <1>5, <1>6, <1>10, DayAssumption, DaysFollow
 <2>2. Covers(q) <=> r >= w.start  BY <1>1, <1>2, <1>5, <1>10, DayAssumption
 <2>3. Covers(q - 1) <=> r < w.end
  <3>1. PICK p \in Int, z \in Int : p = (q - 1) * DayMinutes /\ z = q * DayMinutes
    BY <1>1, <1>5
  <3>2. p + DayMinutes = z /\ t = z + r /\ r \in 0..(DayMinutes - 1) /\ Lasts = DayMinutes - w.start + w.end
    BY <1>1, <1>6, <1>10, <3>1
  <3>3. Covers(q - 1) <=> p + w.start <= t /\ t < p + w.start + Lasts  BY <3>1
  <3> HIDE DEF Lasts, Covers
  <3> QED BY <1>2, <3>2, <3>3, DayAssumption
 <2> HIDE DEF Opens, Covers
 <2> QED BY <1>3, <1>4, <1>10, <2>1, <2>2, <2>3, <1>1
<1> QED BY <1>9, <1>10

\* The code's window test is the calendar.
LEMMA CalendarIsFollowed ==
    ASSUME NEW t \in Nat
    PROVE  IsWithinActiveWindows(Windows, t) = CoveredByCalendar(Windows, t)
<1> QED BY WindowCovers, IngestionAssumption DEF IsWithinActiveWindows, CoveredByCalendar

-----------------------------------------------------------------------------
(* The bot messages that a batch takes in.                                     *)

\* The newest of a set of message ids are some of them, in ascending order.
LEMMA NewestAscend ==
    ASSUME NEW ids \in SUBSET MessageIds, NEW limit
    PROVE  /\ NewestOf(ids, limit) \in Seq(ids)
           /\ \A a, b \in DOMAIN NewestOf(ids, limit) :
                  a < b => NewestOf(ids, limit)[a] < NewestOf(ids, limit)[b]
<1> DEFINE kept == {i \in ids : Cardinality({j \in ids : j > i}) < limit}
           Below(i) == {j \in kept : j <= i}
           n == Cardinality(kept)
           rank == [i \in kept |-> Cardinality(Below(i))]
           picked == [k \in 1..n |-> CHOOSE i \in kept : Cardinality(Below(i)) = k]
<1>1. NewestOf(ids, limit) = picked  BY DEF NewestOf
<1>2. kept \subseteq Nat /\ kept \subseteq ids /\ IsFiniteSet(kept) /\ n \in Nat
 <2>1. IsFiniteSet(MessageIds) /\ MessageIds \subseteq Nat
   BY IngestionAssumption, FS_Interval DEF MessageIds
 <2> QED BY <2>1, FS_Subset, FS_CardinalityType
<1> HIDE DEF kept
<1>3. ASSUME NEW i \in kept
      PROVE /\ IsFiniteSet(Below(i)) /\ Cardinality(Below(i)) \in 1..n
            /\ i \in Below(i) /\ Below(i) \subseteq kept
 <2> QED BY <1>2, FS_CardinalityType, FS_EmptySet, FS_Subset
<1>4. ASSUME NEW i \in kept, NEW j \in kept, i < j
      PROVE  Cardinality(Below(i)) < Cardinality(Below(j))
 <2>1. Below(i) \in SUBSET Below(j) /\ j \notin Below(i) /\ j \in Below(j)
  <3>1. i \in Nat /\ j \in Nat /\ \A k \in kept : k \in Nat  BY <1>2
  <3>2. \A k \in kept : k <= i => k <= j  BY <1>4, <3>1
  <3>3. ~(j <= i) /\ j <= j  BY <1>4, <3>1
  <3> QED BY <3>2, <3>3
 <2> QED BY <1>3, <2>1, FS_Subset
<1>5. \A k \in 1..n : \E i \in kept : Cardinality(Below(i)) = k
 <2>2. \A i, j \in kept : i # j => rank[i] # rank[j]  BY <1>2, <1>3, <1>4
 <2>3. rank \in Injection(kept, 1..n)  BY <2>2, <1>3 DEF Injection, IsInjective
 <2>5. rank \in Surjection(kept, 1..n)  BY <2>3, FS_Injection, <1>2, FS_Interval
 <2> QED BY <2>5 DEF Surjection
<1>6. \A k \in 1..n : picked[k] \in kept /\ Cardinality(Below(picked[k])) = k  BY <1>5
<1>7. picked \in Seq(ids) /\ DOMAIN picked = 1..n
 <2>1. picked \in [1..n -> ids]  BY <1>2, <1>6
 <2> HIDE DEF picked
 <2> QED BY <1>2, <2>1, SeqDef
<1> HIDE DEF picked, n, Below
<1>9. \A k \in 1..n : picked[k] \in Nat  BY <1>2, <1>6
<1>8. \A a, b \in 1..n : a < b => picked[a] < picked[b]
 <2> SUFFICES ASSUME NEW a \in 1..n, NEW b \in 1..n, a < b, ~(picked[a] < picked[b])
              PROVE  FALSE
   OBVIOUS
 <2>2. CASE picked[b] < picked[a]
  <3>1. Cardinality(Below(picked[b])) < Cardinality(Below(picked[a]))  BY <1>4, <1>6, <2>2
  <3> QED BY <1>2, <1>6, <3>1
 <2> QED BY <1>2, <1>6, <2>2, <1>9
<1> QED BY <1>1, <1>7, <1>8

-----------------------------------------------------------------------------
(* The invariant.                                                              *)

\* Who migrates has a chat to go to, or to come from.
UpdateFits(u) ==
    /\ u \in Update
    /\ u.migrate = "to" => Targets[u.chat] # Unset
    /\ u.migrate = "from" => \E c \in Chats : Targets[c] = u.chat
LogInv ==
    /\ log \in Seq(Update) /\ Len(log) <= MaxUpdates
    /\ seen \subseteq DOMAIN log
    /\ \A n \in DOMAIN log : UpdateFits(log[n])

\* A chat is recorded to have migrated to where it did.
MovedFits(moved) ==
    /\ moved \in [Chats -> Chats \cup {Unset}]
    /\ \A c \in Chats : moved[c] # Unset => moved[c] = Targets[c]

\* What may be said in a chat, itself or the one it came from.
Allowed(c, thread) ==
    \E origin \in Configured : (origin = c \/ Targets[origin] = c) /\ thread \in TopicsOf[origin]

MessageFits(c, m, date, count) ==
    m \in Message /\ m.at <= date /\ m.revisions <= count /\ Allowed(c, m.thread)
MessagesFit(stored, date, count) ==
    /\ stored \in [Chats \X MessageIds -> Message \cup {Unset}]
    /\ \A c \in Chats, i \in MessageIds :
           stored[<<c, i>>] # Unset => MessageFits(c, stored[<<c, i>>], date, count)

\* A message addresses the bot outside the windows, in a chat that is not paused.
Woke(m, thread) ==
    /\ m # Unset /\ m.thread = thread /\ m.class \in {"call", "keyword"}
    /\ ~m.edit /\ m.awake /\ ~CoveredByCalendar(Windows, m.at)

\* An attention window is that of such a message.
AttentionFits(open, stored) ==
    /\ open \in [Topics -> Nat]
    /\ \A v \in Topics : open[v] # 0 =>
           \E i \in MessageIds :
               /\ Woke(stored[<<v[1], i>>], v[2])
               /\ open[v] = stored[<<v[1], i>>].at + AttentionTicks

\* What opened a bucket.
MayHaveOpened(b, stored) ==
    \/ b.conversation[1] \in Private \/ CoveredByCalendar(Windows, b.first)
    \/ \E i \in MessageIds :
           LET m == stored[<<b.conversation[1], i>>]
           IN Woke(m, b.conversation[2]) /\ m.at <= b.first /\ b.first < m.at + AttentionTicks

\* What comes before the opener at place k was taken in.
TakenIn(b, k, stored) ==
    /\ b.messages[k] = b.opener
    /\ \A i \in 1..(k - 1) : /\ stored[b.messages[i]].class = "bot"
                             /\ b.messages[i][2] > b.cut
                             /\ i > 1 => b.messages[i - 1][2] < b.messages[i][2]

BucketFits(b, stored) ==
    /\ b \in Bucket
    /\ \A i \in DOMAIN b.messages : stored[b.messages[i]] # Unset
    /\ stored[b.opener].class \in {"talk", "call", "keyword"}
    /\ \E k \in DOMAIN b.messages : TakenIn(b, k, stored)
    /\ MayHaveOpened(b, stored)

\* A message is in one place.
ApartIn(list) ==
    \A a, b \in DOMAIN list : \A i \in DOMAIN list[a].messages, j \in DOMAIN list[b].messages :
        list[a].messages[i] = list[b].messages[j] => a = b /\ i = j
OneCollects(list) ==
    \A a, b \in DOMAIN list :
        list[a].collecting /\ list[b].collecting /\ list[a].conversation = list[b].conversation => a = b
BucketsFit(list, stored) ==
    /\ list \in Seq(Bucket)
    /\ \A a \in DOMAIN list : BucketFits(list[a], stored)
    /\ ApartIn(list) /\ OneCollects(list)

IngestInv ==
    /\ LogInv /\ MovedFits(migrations)
    /\ minute \in Instants /\ paused \subseteq Chats /\ cutoffs \in [Topics -> 0..MaxMessageId]
    /\ MessagesFit(messages, minute, Cardinality(seen))
    /\ AttentionFits(attention, messages)
    /\ BucketsFit(buckets, messages)

-----------------------------------------------------------------------------
(* Scope and rule.                                                             *)

\* What is in scope may be said there.
LEMMA ScopeAllows ==
    ASSUME NEW moved, MovedFits(moved), NEW u \in Update, InScope(moved, u)
    PROVE  Allowed(u.chat, u.thread) /\ ResolveChat(moved, u.chat) # Unset
<1>2. ResolveChat(moved, u.chat) # Unset /\ u.thread \in TopicsOf[ResolveChat(moved, u.chat)]
  BY DEF InScope, TopicsFor
<1>3. CASE u.chat \in Configured  BY <1>2, <1>3 DEF ResolveChat, Allowed
<1>4. CASE u.chat \notin Configured
 <2> DEFINE rows == {c \in Chats : moved[c] = u.chat}
            old == CHOOSE c \in rows : TRUE
 <2> QED BY <1>2, UnsetAssumption, <1>4 DEF Allowed, MovedFits, Update, ResolveChat
<1> QED BY <1>2, <1>3, <1>4

\* Only a private chat in scope has no rule.
LEMMA RuleIs ==
    ASSUME NEW moved, NEW chat, ResolveChat(moved, chat) # Unset
    PROVE  RuleFor(moved, chat) = IF chat \in Private THEN Unset ELSE GlobalSettings
<1> QED BY UnsetAssumption DEF RuleFor, GlobalSettings, CompileParticipation

\* A migration is recorded as the notice has it.
LEMMA RecordFits ==
    ASSUME MovedFits(migrations), NEW u, UpdateFits(u)
    PROVE  MovedFits(RecordMigration(u))
<1>1. u.chat \in Chats /\ u.migrate \in {"no", "to", "from"} /\ Targets \in [Chats -> Chats \cup {Unset}]
  BY IngestionAssumption DEF UpdateFits, Update
<1>2. CASE u.migrate = "to"
  BY <1>1, <1>2, UnsetAssumption DEF RecordMigration, MigrationOf, MovedFits, UpdateFits
<1>3. CASE u.migrate = "from"
 <2> DEFINE c == CHOOSE c \in Chats : Targets[c] = u.chat
 <2> HIDE DEF c
 <2> QED BY <1>1, <1>3 DEF RecordMigration, MovedFits, MigrationOf, UpdateFits
<1>4. CASE u.migrate = "no"  BY <1>4 DEF RecordMigration, MigrationOf
<1> QED BY <1>1, <1>2, <1>3, <1>4

-----------------------------------------------------------------------------
(* Messages are kept.                                                          *)

\* What is stored stays what it was.
StillStored(stored, after) ==
    \A m \in Chats \X MessageIds : stored[m] # Unset =>
        /\ after[m] # Unset
        /\ after[m].thread = stored[m].thread /\ after[m].class = stored[m].class
        /\ after[m].at = stored[m].at /\ after[m].awake = stored[m].awake
        /\ after[m].edit = stored[m].edit

\* What opened a bucket is still stored, for the reason it was.
LEMMA KeepsOpener ==
    ASSUME NEW stored, NEW after, StillStored(stored, after), NEW b \in Bucket, MayHaveOpened(b, stored)
    PROVE  MayHaveOpened(b, after)
<1>1. CASE b.conversation[1] \in Private \/ CoveredByCalendar(Windows, b.first)
  BY <1>1 DEF MayHaveOpened
<1>2. ASSUME NEW i \in MessageIds, Woke(stored[<<b.conversation[1], i>>], b.conversation[2]),
             stored[<<b.conversation[1], i>>].at <= b.first,
             b.first < stored[<<b.conversation[1], i>>].at + AttentionTicks
      PROVE  MayHaveOpened(b, after)
 <2> QED BY <1>2 DEF StillStored, Woke, MayHaveOpened, Bucket, Topics
<1> QED BY <1>1, <1>2 DEF MayHaveOpened

\* A bucket of the stored messages is one of those that are stored after.
LEMMA KeepsBucket ==
    ASSUME NEW stored, NEW after, StillStored(stored, after), NEW b, BucketFits(b, stored)
    PROVE  BucketFits(b, after)
<1>1. /\ b \in Bucket /\ b.messages \in Seq(Chats \X MessageIds) /\ b.opener \in Chats \X MessageIds
      /\ \A i \in DOMAIN b.messages : b.messages[i] \in Chats \X MessageIds
  BY DEF BucketFits, Bucket
<1>2. \A i \in DOMAIN b.messages : stored[b.messages[i]] # Unset  BY DEF BucketFits
<1>3. PICK k \in DOMAIN b.messages : TakenIn(b, k, stored)  BY DEF BucketFits
<1>6. TakenIn(b, k, after)  BY <1>1, <1>2, <1>3 DEF TakenIn, StillStored
<1>9. MayHaveOpened(b, after)  BY <1>1, KeepsOpener DEF BucketFits
<1> QED BY <1>1, <1>3, <1>6, <1>9, <1>2 DEF BucketFits, StillStored, TakenIn

-----------------------------------------------------------------------------
(* Lists of buckets.                                                           *)

\* A message that is in no bucket joins one.
LEMMA JoinFits ==
    ASSUME NEW stored, NEW after, StillStored(stored, after), NEW list, BucketsFit(list, stored),
           NEW c \in DOMAIN list, NEW m \in Chats \X MessageIds, stored[m] = Unset, after[m] # Unset
    PROVE  BucketsFit([list EXCEPT ![c].messages = Append(@, m)], after)
<1> DEFINE joined == [list EXCEPT ![c].messages = Append(@, m)]
<1>1. /\ list \in Seq(Bucket) /\ DOMAIN joined = DOMAIN list /\ list[c] \in Bucket
      /\ \A a \in DOMAIN list : BucketFits(list[a], after) /\ list[a] \in Bucket
  BY KeepsBucket DEF BucketsFit, BucketFits
<1>2. /\ joined[c] = [list[c] EXCEPT !.messages = Append(@, m)]
      /\ \A a \in DOMAIN list \ {c} : joined[a] = list[a]
  BY <1>1
<1>3. list[c].messages \in Seq(Chats \X MessageIds)  BY <1>1 DEF Bucket
<1>10. /\ list[c] = [f \in {"conversation", "collecting", "first", "opener", "cut", "messages"} |-> list[c][f]]
       /\ Append(list[c].messages, m) \in Seq(Chats \X MessageIds)
  BY <1>1, <1>3 DEF Bucket
<1>4. /\ joined[c] \in Bucket /\ joined[c].messages = Append(list[c].messages, m)
      /\ joined[c].opener = list[c].opener /\ joined[c].cut = list[c].cut
      /\ joined[c].first = list[c].first /\ joined[c].conversation = list[c].conversation
      /\ joined[c].collecting = list[c].collecting
 <2> HIDE DEF joined
 <2> QED BY <1>2, <1>10, <1>1 DEF Bucket
<1>5. /\ DOMAIN joined[c].messages = 1..(Len(list[c].messages) + 1)
      /\ DOMAIN list[c].messages = 1..Len(list[c].messages) /\ Len(list[c].messages) \in Nat
      /\ joined[c].messages[Len(list[c].messages) + 1] = m
      /\ \A i \in DOMAIN list[c].messages : joined[c].messages[i] = list[c].messages[i]
 <2>1. PICK s \in Seq(Chats \X MessageIds) : s = list[c].messages  BY <1>3
 <2>2. /\ DOMAIN Append(s, m) = 1..(Len(s) + 1) /\ DOMAIN s = 1..Len(s) /\ Len(s) \in Nat
       /\ Append(s, m)[Len(s) + 1] = m /\ \A i \in DOMAIN s : Append(s, m)[i] = s[i]
   BY AppendProperties
 <2> QED BY <2>1, <2>2, <1>4
<1> HIDE DEF joined
<1>6. joined \in Seq(Bucket)
 <2> QED BY <1>1, SeqDef, <1>2, <1>4 DEF joined
<1>7. BucketFits(joined[c], after)
 <2>1. ASSUME NEW i \in DOMAIN joined[c].messages PROVE after[joined[c].messages[i]] # Unset
  <3>2. CASE i \in DOMAIN list[c].messages
   <4> QED BY <1>5, <3>2, <1>1 DEF BucketFits
  <3>3. CASE i = Len(list[c].messages) + 1  BY <1>5, <3>3
  <3> QED BY <3>2, <3>3, <1>5
 <2>2. PICK k \in DOMAIN list[c].messages : TakenIn(list[c], k, after)  BY <1>1 DEF BucketFits
 <2>3. k \in DOMAIN joined[c].messages /\ \A i \in 1..(k - 1) :
           i \in DOMAIN list[c].messages /\ (i > 1 => i - 1 \in DOMAIN list[c].messages)
   BY <1>5
 <2>5. MayHaveOpened(joined[c], after) /\ after[joined[c].opener].class \in {"talk", "call", "keyword"}
   BY <1>1, <1>4 DEF BucketFits, MayHaveOpened
 <2> QED BY <1>4, <2>1, <2>3, <2>5, <1>5, <2>2 DEF BucketFits, TakenIn
<1>8. ApartIn(joined)
 <2> SUFFICES ASSUME NEW a \in DOMAIN list, NEW b \in DOMAIN list,
                     NEW i \in DOMAIN joined[a].messages, NEW j \in DOMAIN joined[b].messages,
                     joined[a].messages[i] = joined[b].messages[j]
              PROVE  a = b /\ i = j
   BY <1>1 DEF ApartIn
 <2>2. ASSUME NEW d \in DOMAIN list, NEW n \in DOMAIN joined[d].messages
       PROVE \/ d = c /\ n = Len(list[c].messages) + 1 /\ joined[d].messages[n] = m
             \/ n \in DOMAIN list[d].messages /\ joined[d].messages[n] = list[d].messages[n]
  <3>1. CASE d = c  BY <1>5, <3>1
  <3>2. CASE d # c  BY <1>2, <3>2
  <3> QED BY <3>1, <3>2
 <2> QED BY <2>2 DEF ApartIn, BucketsFit, BucketFits
<1>9. OneCollects(joined)
 <2>1. \A a \in DOMAIN list : /\ joined[a].collecting = list[a].collecting
                              /\ joined[a].conversation = list[a].conversation
   BY <1>2, <1>4
 <2> QED BY <1>1, <2>1 DEF BucketsFit, OneCollects
<1> QED BY <1>1, <1>2, <1>6, <1>7, <1>8, <1>9 DEF BucketsFit, joined

\* A bucket whose messages are in no other one opens where none collects.
LEMMA OpenFits ==
    ASSUME NEW stored, NEW after, StillStored(stored, after), NEW list, BucketsFit(list, stored),
           NEW b, BucketFits(b, after),
           \A i, j \in DOMAIN b.messages : b.messages[i] = b.messages[j] => i = j,
           \A a \in DOMAIN list : \A i \in DOMAIN list[a].messages, j \in DOMAIN b.messages :
               list[a].messages[i] # b.messages[j],
           \A a \in DOMAIN list : list[a].collecting => list[a].conversation # b.conversation
    PROVE  BucketsFit(Append(list, b), after)
<1> DEFINE longer == Append(list, b)
<1> HIDE DEF longer
<1> QED BY KeepsBucket DEF BucketsFit, longer, ApartIn, OneCollects, BucketFits

\* Buckets that stop collecting stay what they are.
LEMMA CloseFits ==
    ASSUME NEW stored, NEW list, BucketsFit(list, stored), NEW closed,
           closed = [a \in DOMAIN list |-> closed[a]],
           \A a \in DOMAIN list : closed[a] \in {list[a], [list[a] EXCEPT !.collecting = FALSE]}
    PROVE  BucketsFit(closed, stored)
<1>1. list \in Seq(Bucket) /\ DOMAIN closed = DOMAIN list /\ \A a \in DOMAIN list : list[a] \in Bucket
  BY DEF BucketsFit, BucketFits
<1>2. ASSUME NEW a \in DOMAIN list
      PROVE /\ closed[a] \in Bucket /\ (closed[a].collecting => list[a].collecting)
            /\ closed[a].messages = list[a].messages /\ closed[a].opener = list[a].opener
            /\ closed[a].cut = list[a].cut /\ closed[a].first = list[a].first
            /\ closed[a].conversation = list[a].conversation
 <2>1. CASE closed[a] = list[a]  BY <1>1, <2>1
 <2>2. CASE closed[a] = [list[a] EXCEPT !.collecting = FALSE]  BY <1>1, <2>2 DEF Bucket
 <2> QED BY <2>1, <2>2
<1>3. closed \in Seq(Bucket)
 <2> QED BY <1>1, SeqDef, <1>2
<1>4. ASSUME NEW a \in DOMAIN list PROVE BucketFits(closed[a], stored)
 <2>2. MayHaveOpened(closed[a], stored) <=> MayHaveOpened(list[a], stored)
   BY <1>2 DEF MayHaveOpened
 <2>3. \A k \in DOMAIN list[a].messages : TakenIn(list[a], k, stored) => TakenIn(closed[a], k, stored)
   BY <1>2 DEF TakenIn
 <2> QED BY <1>2, <2>2, <2>3 DEF BucketFits, BucketsFit
<1> QED BY <1>1, <1>3, <1>4, <1>2 DEF BucketsFit, ApartIn, OneCollects

-----------------------------------------------------------------------------
(* One update.                                                                 *)

\* A message is stored once, and revised.
LEMMA StoreIs ==
    ASSUME NEW count \in Nat, count < MaxUpdates, minute \in Instants,
           MessagesFit(messages, minute, count),
           NEW u \in Update, Storable(u), Allowed(u.chat, u.thread)
    PROVE  /\ MessagesFit(StoreMessage(u), minute, count + 1)
           /\ StillStored(messages, StoreMessage(u))
           /\ PlaceOf(u) \in Chats \X MessageIds
           /\ ~u.edited => /\ messages[PlaceOf(u)] = Unset
                           /\ StoreMessage(u)[PlaceOf(u)] = MessageOf(u)
                           /\ MessageOf(u) \in Message /\ MessageOf(u) # Unset
<1> DEFINE m == PlaceOf(u)
           next == StoreMessage(u)[m]
           Fields == {"thread", "class", "revisions", "at", "awake", "edit"}
<1>1. /\ m \in Chats \X MessageIds /\ u.thread \in Threads /\ u.class \in Classes
      /\ u.edited \in BOOLEAN /\ u.chat \in Chats /\ u.id \in MessageIds
      /\ m = <<u.chat, u.id>>
  BY DEF Update, PlaceOf
<1>2. /\ MaxUpdates \in Nat /\ Instants \subseteq Nat
      /\ messages \in [Chats \X MessageIds -> Message \cup {Unset}]
  BY IngestionAssumption DEF MessagesFit
<1>3. Stored(u) <=> messages[m] # Unset  BY DEF Stored, PlaceOf
<1>4. MessageOf(u) \in Message /\ MessageOf(u) # Unset
 <2>2. MessageOf(u) \in Message  BY <1>1, <1>2 DEF MessageOf, Message
 <2> QED BY <2>2, UnsetAssumption
<1>5. /\ StoreMessage(u) = [messages EXCEPT ![m] = next]
      /\ next = IF Stored(u) THEN Revised(messages[m]) ELSE MessageOf(u)
 <2> QED BY <1>1, <1>2 DEF StoreMessage
<1>7. /\ next \in Message /\ next.at <= minute /\ next.revisions <= count + 1
      /\ Allowed(u.chat, next.thread)
      /\ Stored(u) => /\ next.thread = messages[m].thread /\ next.class = messages[m].class
                      /\ next.at = messages[m].at /\ next.awake = messages[m].awake
                      /\ next.edit = messages[m].edit
 <2>1. CASE Stored(u)
  <3>1. /\ messages[m] \in Message /\ messages[m] = [f \in Fields |-> messages[m][f]]
        /\ messages[m].revisions \in Nat /\ messages[m].revisions >= 1
        /\ messages[m].revisions <= count /\ messages[m].at <= minute
        /\ Allowed(u.chat, messages[m].thread)
    BY <1>2, <2>1, <1>1, <1>3 DEF MessageFits, Message, MessagesFit
  <3> HIDE DEF next
  <3> QED BY <3>1, <1>2, <1>5, <2>1 DEF Message, Revised
 <2>2. CASE ~Stored(u)
  <3> HIDE DEF next
  <3> QED BY <1>4, <2>2, <1>5, <1>2 DEF MessageOf
 <2> QED BY <2>1, <2>2
<1> HIDE DEF m, next
<1>8. MessagesFit(StoreMessage(u), minute, count + 1)
 <2>2. ASSUME NEW c \in Chats, NEW i \in MessageIds, StoreMessage(u)[<<c, i>>] # Unset
       PROVE  MessageFits(c, StoreMessage(u)[<<c, i>>], minute, count + 1)
  <3>1. CASE <<c, i>> = m  BY <1>1, <1>2, <1>5, <1>7, <3>1 DEF MessageFits
  <3>2. CASE <<c, i>> # m
   <4> QED BY <1>2, <2>2, <1>5, <3>2 DEF MessageFits, Message, MessagesFit
  <3> QED BY <3>1, <3>2
 <2> QED BY <2>2, <1>1, <1>2, <1>5, <1>7 DEF MessagesFit
<1> QED BY <1>1, <1>4, <1>8, <1>2, <1>3, <1>5, <1>7, UnsetAssumption DEF m, StillStored, Storable

\* What addresses the bot opens the attention window of its conversation.
LEMMA AttentionIs ==
    ASSUME NEW after, StillStored(messages, after), minute \in Instants, AttentionFits(attention, messages),
           NEW u \in Update, ~u.edited, after[PlaceOf(u)] = MessageOf(u), MessageOf(u) # Unset,
           NEW rule, rule = IF u.chat \in Private THEN Unset ELSE GlobalSettings
    PROVE  LET v == <<u.chat, u.thread>> IN
           /\ AttentionFits(attention, after)
           /\ Triggers(u, v, rule) =>
                 /\ Woke(after[PlaceOf(u)], u.thread) /\ after[PlaceOf(u)].at = minute
                 /\ AttentionFits([attention EXCEPT ![v] = minute + rule.attention], after)
<1> DEFINE v == <<u.chat, u.thread>>
<1>2. attention \in [Topics -> Nat] /\ minute \in Nat /\ AttentionTicks \in Nat
  BY IngestionAssumption DEF AttentionFits
<1>3. ASSUME NEW w \in Topics, attention[w] # 0
      PROVE  \E i \in MessageIds : /\ Woke(after[<<w[1], i>>], w[2])
                                   /\ attention[w] = after[<<w[1], i>>].at + AttentionTicks
 <2>1. PICK i \in MessageIds : /\ Woke(messages[<<w[1], i>>], w[2])
                               /\ attention[w] = messages[<<w[1], i>>].at + AttentionTicks
   BY <1>3 DEF AttentionFits
 <2> QED BY <2>1 DEF StillStored, Woke, Topics
<1>5. ASSUME Triggers(u, v, rule)
      PROVE  /\ Woke(after[PlaceOf(u)], u.thread) /\ after[PlaceOf(u)].at = minute
             /\ AttentionFits([attention EXCEPT ![v] = minute + rule.attention], after)
 <2>1. rule.windows = Windows /\ rule.attention = AttentionTicks
   BY <1>5 DEF Triggers, GlobalSettings
 <2>3. u.chat \notin paused /\ u.class \in {"call", "keyword"}
   BY <1>5 DEF Triggers, EligibleHuman, MatchTriggerKind
 <2>4. Woke(after[PlaceOf(u)], u.thread) /\ after[PlaceOf(u)].at = minute
  <3>1. MessageOf(u).awake = (u.chat \notin paused) /\ MessageOf(u).edit = u.edited
    BY Zenon DEF MessageOf
  <3>2. MessageOf(u).awake /\ ~MessageOf(u).edit  BY <2>3, <3>1, Zenon
  <3> QED BY <2>3, <3>2, <1>2, <1>5, <2>1, CalendarIsFollowed DEF Woke, Triggers, MessageOf
 <2> QED BY <1>2, <1>3, <2>1, <2>4 DEF AttentionFits, Update, Topics, PlaceOf
<1> QED BY <1>5, <1>2, <1>3 DEF AttentionFits

\* The gate lets a bucket open when its message, or one before it, addressed the bot.
LEMMA GateOpens ==
    ASSUME NEW after, StillStored(messages, after), minute \in Instants, AttentionFits(attention, after),
           NEW count, MessagesFit(after, minute, count),
           NEW u \in Update, after[PlaceOf(u)] = MessageOf(u), ~u.edited, MessageOf(u) # Unset,
           AttentionFits(attention, messages), u.chat \notin paused,
           NEW rule, rule = IF u.chat \in Private THEN Unset ELSE GlobalSettings,
           EvaluateParticipation(u, <<u.chat, u.thread>>, rule),
           NEW b, b.conversation = <<u.chat, u.thread>>, b.first = minute
    PROVE  MayHaveOpened(b, after)
<1> DEFINE v == <<u.chat, u.thread>>
<1>1. /\ v \in Topics /\ u.id \in MessageIds /\ PlaceOf(u) = <<u.chat, u.id>> /\ u.chat \in Chats
      /\ b.conversation[1] = u.chat /\ b.conversation[2] = u.thread
  BY DEF Update, Topics, PlaceOf
<1>2. minute \in Nat /\ AttentionTicks \in Nat \ {0}  BY IngestionAssumption
<1>3. CASE rule = Unset  BY <1>1, <1>3, UnsetAssumption DEF MayHaveOpened
<1>4. CASE rule # Unset /\ IsWithinActiveWindows(rule.windows, minute)
  BY <1>2, <1>4, CalendarIsFollowed DEF MayHaveOpened, GlobalSettings
<1>5. CASE Triggers(u, v, rule)
 <2>1. Woke(after[PlaceOf(u)], u.thread) /\ after[PlaceOf(u)].at = minute  BY <1>5, AttentionIs
 <2> QED BY <1>1, <1>2, <2>1 DEF MayHaveOpened
<1>6. CASE AttentionOpen(v)
 <2>1. attention[v] > minute /\ attention[v] # 0  BY <1>2, <1>6 DEF AttentionOpen
 <2>2. PICK i \in MessageIds : /\ Woke(after[<<v[1], i>>], v[2])
                               /\ attention[v] = after[<<v[1], i>>].at + AttentionTicks
   BY <1>1, <2>1 DEF AttentionFits
 <2> QED BY <1>1, <2>1, <2>2 DEF MayHaveOpened, MessagesFit, MessageFits, Woke
<1> QED BY <1>3, <1>4, <1>5, <1>6 DEF EvaluateParticipation

\* A new message joins a bucket, opens one, or does neither.
LEMMA AppendKeeps ==
    ASSUME BucketsFit(buckets, messages), minute \in Instants, cutoffs \in [Topics -> 0..MaxMessageId],
           AttentionFits(attention, messages),
           NEW after, StillStored(messages, after), NEW count, MessagesFit(after, minute, count),
           NEW u \in Update, ~u.edited, u.class # "command", PlaceOf(u) \in Chats \X MessageIds,
           messages[PlaceOf(u)] = Unset, after[PlaceOf(u)] = MessageOf(u),
           MessageOf(u) \in Message, MessageOf(u) # Unset,
           NEW rule, rule = IF u.chat \in Private THEN Unset ELSE GlobalSettings
    PROVE  BucketsFit(AppendToBucket(u, <<u.chat, u.thread>>, after,
                          EvaluateParticipation(u, <<u.chat, u.thread>>, rule)), after)
<1> DEFINE v == <<u.chat, u.thread>>
           m == PlaceOf(u)
           gate == EvaluateParticipation(u, v, rule)
           joined == AppendToBucket(u, v, after, gate)
<1>1. v \in Topics /\ m = <<u.chat, u.id>> /\ v[1] = u.chat /\ v[2] = u.thread /\ u.chat \in Chats
  BY DEF Update, Topics, PlaceOf
<1>2. buckets \in Seq(Bucket) /\ \A b \in DOMAIN buckets : BucketFits(buckets[b], after)
  BY KeepsBucket DEF BucketsFit
<1>3. CASE joined = buckets  BY <1>2, <1>3 DEF BucketsFit
<1>4. CASE u.chat \notin paused /\ CollectingBucket(v) # {}
 <2>1. PICK c \in DOMAIN buckets : CollectingBucket(v) = {c}
   BY <1>4 DEF CollectingBucket, BucketsFit, OneCollects
 <2>2. joined = [buckets EXCEPT ![c].messages = Append(@, m)]
   BY <1>1, <1>2, <1>4, <2>1 DEF AppendToBucket
 <2> QED BY <2>2, JoinFits
<1>5. CASE u.chat \notin paused /\ CollectingBucket(v) = {} /\ MayOpen(u, gate)
 <2> DEFINE ids == PendingBotMessages(v, after)
            s == NewestOf(ids, RecentMessages)
            n == Len(s)
            taken == [i \in DOMAIN s |-> <<v[1], s[i]>>]
            b == NewBucket(u, v, after)
 <2>1. joined = Append(buckets, b)  BY <1>5 DEF AppendToBucket
 <2>2. /\ ids \in SUBSET MessageIds
       /\ \A x \in ids : /\ after[<<u.chat, x>>] # Unset /\ after[<<u.chat, x>>].class = "bot"
                         /\ ~InBucket(<<u.chat, x>>) /\ x > cutoffs[v]
   BY <1>1 DEF PendingBotMessages
 <2> HIDE DEF ids
 <2>3. /\ s \in Seq(ids) /\ n \in Nat /\ DOMAIN s = 1..n
       /\ \A i, j \in 1..n : i < j => s[i] < s[j]
  <3>1. s \in Seq(ids) /\ \A i, j \in DOMAIN s : i < j => s[i] < s[j]  BY <2>2, NewestAscend
  <3> HIDE DEF s
  <3> QED BY <3>1
 <2> HIDE DEF s, n
 <2>4. \A i \in 1..n : /\ s[i] \in MessageIds /\ after[<<u.chat, s[i]>>] # Unset
                       /\ after[<<u.chat, s[i]>>].class = "bot"
                       /\ ~InBucket(<<u.chat, s[i]>>) /\ s[i] > cutoffs[v]
  <3> QED BY <2>2, <2>3
 <2>5. taken \in Seq(Chats \X MessageIds) /\ Len(taken) = n /\ \A i \in 1..n : taken[i] = <<u.chat, s[i]>>
  <3> QED BY <1>1, <2>3, SeqDef, <2>4
 <2>6. /\ b.conversation = v /\ b.first = minute /\ b.opener = m /\ b.cut = cutoffs[v]
       /\ b.messages = Append(taken, m)
       /\ b = [conversation |-> v, collecting |-> TRUE, first |-> minute, opener |-> m,
               cut |-> cutoffs[v], messages |-> Append(taken, m)]
   BY <1>1 DEF NewBucket, AdoptPendingBotMessages, s, ids
 <2> HIDE DEF b, taken, m
 <2>7. /\ Append(taken, m) \in Seq(Chats \X MessageIds) /\ DOMAIN Append(taken, m) = 1..(n + 1)
       /\ Append(taken, m)[n + 1] = m /\ \A i \in 1..n : Append(taken, m)[i] = taken[i]
   BY <2>3, <2>5, AppendProperties DEF m
 <2>8. b \in Bucket
  <3> QED BY <1>1, <2>6, <2>7 DEF Bucket, m
 <2>9. u.class \in {"talk", "call", "keyword"} /\ MessageOf(u).class = u.class
   BY <1>5 DEF MayOpen, EligibleHuman, MessageOf
 <2>10. after[m] = MessageOf(u) /\ messages[m] = Unset  BY DEF m
 <2>12. TakenIn(b, n + 1, after)
  <3>1. (n + 1) - 1 = n /\ \A i \in 1..n : i > 1 => i - 1 \in 1..n /\ i - 1 < i  BY <2>3
  <3>2. b.messages[n + 1] = b.opener /\ \A i \in 1..n : b.messages[i] = <<u.chat, s[i]>>
    BY <2>5, <2>6, <2>7
  <3>4. ASSUME NEW i \in 1..n
        PROVE  /\ after[b.messages[i]].class = "bot" /\ b.messages[i][2] > b.cut
               /\ i > 1 => b.messages[i - 1][2] < b.messages[i][2]
   <4>1. b.messages[i] = <<u.chat, s[i]>> /\ b.cut = cutoffs[v]  BY <2>6, <3>2
   <4>5. b.messages[i][2] = s[i]  BY <4>1
   <4>6. i > 1 => b.messages[i - 1][2] < b.messages[i][2]  BY <4>5, <2>3, <3>1, <3>2
   <4> QED BY <4>6, <2>4, <4>1, <4>5
  <3> QED BY <3>1, <3>2, <3>4 DEF TakenIn
 <2>13. MayHaveOpened(b, after)
  <3> QED BY <1>5, <2>6, GateOpens, AttentionIs DEF MayOpen
 <2>14. BucketFits(b, after)
  <3>1. n + 1 \in 1..(n + 1) /\ 1..(n + 1) = 1..n \cup {n + 1}  BY <2>3
  <3>2. \A i \in 1..(n + 1) : after[b.messages[i]] # Unset
    BY <2>4, <2>5, <2>6, <2>7, <2>10, <3>1
  <3> QED BY <2>6, <2>7, <2>8, <2>9, <2>10, <2>12, <2>13, <3>1, <3>2 DEF BucketFits
 <2>15. \A i, j \in DOMAIN b.messages : b.messages[i] = b.messages[j] => i = j
  <3> SUFFICES ASSUME NEW i \in 1..(n + 1), NEW j \in 1..(n + 1), i < j, b.messages[i] = b.messages[j]
               PROVE  FALSE
    BY <2>3, <2>6, <2>7
  <3>1. i \in 1..n  BY <2>3
  <3>2. CASE j = n + 1  BY <2>6, <2>7, <3>1, <3>2, <2>4, <2>5, <2>9, <2>10
  <3>3. CASE j \in 1..n
   <4> QED BY IngestionAssumption, <2>3, <2>4, <2>5, <2>6, <2>7, <3>1, <3>3 DEF MessageIds
  <3> QED BY <2>3, <3>2, <3>3
 <2>16. \A a \in DOMAIN buckets : \A i \in DOMAIN buckets[a].messages, j \in DOMAIN b.messages :
            buckets[a].messages[i] # b.messages[j]
  <3>2. \A j \in DOMAIN b.messages : b.messages[j] = m \/ ~InBucket(b.messages[j])
    BY <2>3, <2>4, <2>5, <2>6, <2>7
  <3> QED BY <3>2, <2>10 DEF InBucket, BucketsFit, BucketFits
 <2>18. BucketsFit(Append(buckets, b), after)
   BY <2>14, <2>15, <2>16, OpenFits, <1>5, <2>6 DEF CollectingBucket
 <2> QED BY <2>1, <2>18
<1> QED BY <1>3, <1>4, <1>5 DEF AppendToBucket

\* An update changes what its message may change.
LEMMA IngestKeeps ==
    ASSUME NEW count \in Nat, count < MaxUpdates,
           MovedFits(migrations), minute \in Instants, paused \subseteq Chats,
           cutoffs \in [Topics -> 0..MaxMessageId], MessagesFit(messages, minute, count),
           AttentionFits(attention, messages), BucketsFit(buckets, messages),
           NEW u, UpdateFits(u), NEW n, NEW schedule \in BOOLEAN, IngestUpdate(u, n, schedule)
    PROVE  /\ MovedFits(migrations)' /\ (minute \in Instants)' /\ (paused \subseteq Chats)'
           /\ cutoffs' \in [Topics -> 0..MaxMessageId]
           /\ \/ MessagesFit(messages', minute', count)
              \/ n \notin seen /\ MessagesFit(messages', minute', count + 1)
           /\ AttentionFits(attention', messages') /\ BucketsFit(buckets', messages')
           /\ seen' = seen \cup {n}
<1>1. /\ migrations' = RecordMigration(u) /\ seen' = seen \cup {n}
      /\ UNCHANGED <<minute, cutoffs, paused>>
      /\ IngestWithout(u, n, schedule) \/ IngestMessage(u, n, schedule)
  BY DEF IngestUpdate
<1>2. MovedFits(migrations')  BY <1>1, RecordFits
<1>3. CASE IngestWithout(u, n, schedule)
 <2> QED BY <1>1, <1>2, <1>3 DEF MovedFits, IngestWithout
<1>4. CASE IngestMessage(u, n, schedule)
 <2> DEFINE v == <<u.chat, u.thread>>
            rule == RuleFor(migrations', u.chat)
 <2>1. /\ n \notin seen /\ Accepted(u, schedule) /\ messages' = StoreMessage(u)
       /\ attention' = IF ~u.edited /\ Triggers(u, v, rule)
                       THEN [attention EXCEPT ![v] = minute + rule.attention] ELSE attention
       /\ buckets' = IF u.edited \/ ~schedule THEN buckets
                     ELSE AppendToBucket(u, v, messages', EvaluateParticipation(u, v, rule))
   BY <1>4 DEF IngestMessage
 <2>2. /\ u \in Update /\ InScope(migrations', u) /\ Storable(u)
       /\ ~(u.class = "command" /\ schedule /\ ~u.edited)
   BY <2>1 DEF Accepted, UpdateFits
 <2>3. Allowed(u.chat, u.thread) /\ ResolveChat(migrations', u.chat) # Unset
   BY <1>2, <2>2, ScopeAllows
 <2>4. rule = IF u.chat \in Private THEN Unset ELSE GlobalSettings  BY <2>3, RuleIs
 <2> HIDE DEF rule
 <2>5. /\ MessagesFit(messages', minute, count + 1) /\ StillStored(messages, messages')
       /\ PlaceOf(u) \in Chats \X MessageIds
       /\ ~u.edited => /\ messages[PlaceOf(u)] = Unset /\ messages'[PlaceOf(u)] = MessageOf(u)
                       /\ MessageOf(u) \in Message /\ MessageOf(u) # Unset
   BY <2>1, <2>2, <2>3, StoreIs
 <2>6. PICK after : after = messages'  OBVIOUS
 <2>7. AttentionFits(attention', after)
  <3>1. CASE ~u.edited  BY <2>1, <2>2, <2>4, <2>5, <2>6, <3>1, AttentionIs
  <3>2. CASE u.edited
   <4>2. \A w \in Topics, i \in MessageIds : Woke(messages[<<w[1], i>>], w[2]) =>
             /\ Woke(after[<<w[1], i>>], w[2])
             /\ after[<<w[1], i>>].at = messages[<<w[1], i>>].at
    <5> SUFFICES ASSUME NEW w \in Topics, NEW i \in MessageIds, Woke(messages[<<w[1], i>>], w[2])
                 PROVE  /\ Woke(after[<<w[1], i>>], w[2])
                        /\ after[<<w[1], i>>].at = messages[<<w[1], i>>].at
      OBVIOUS
    <5> QED BY <2>5, <2>6 DEF StillStored, Woke, Topics
   <4> QED BY <4>2, <2>1, <3>2 DEF AttentionFits
  <3> QED BY <3>1, <3>2
 <2>8. BucketsFit(buckets', after)
  <3>1. CASE buckets' = buckets  BY <2>5, <2>6, <3>1, KeepsBucket DEF BucketsFit
  <3>2. CASE buckets' = AppendToBucket(u, v, after, EvaluateParticipation(u, v, rule)) /\ ~u.edited /\ schedule
    BY <2>2, <2>4, <2>5, <2>6, <3>2, AppendKeeps
  <3> QED BY <2>1, <2>2, <2>6, <3>1, <3>2 DEF Update
 <2> QED BY <1>1, <1>2, <2>1, <2>5, <2>6, <2>7, <2>8 DEF MovedFits
<1> QED BY <1>1, <1>3, <1>4

\* Ingestion keeps the invariant, for a new update and for one delivered again.
LEMMA UpdateKeeps ==
    ASSUME IngestInv, NEW u, UpdateFits(u), NEW n \in DOMAIN log', NEW schedule \in BOOLEAN,
           IngestUpdate(u, n, schedule), log' \in Seq(Update), Len(log') <= MaxUpdates,
           DOMAIN log \subseteq DOMAIN log', \A k \in DOMAIN log' : UpdateFits(log'[k])
    PROVE  IngestInv'
<1> DEFINE count == Cardinality(seen)
<1>1. /\ seen \subseteq DOMAIN log' /\ MaxUpdates \in Nat /\ IsFiniteSet(seen) /\ count \in Nat
      /\ IsFiniteSet(DOMAIN log') /\ Cardinality(DOMAIN log') <= MaxUpdates
 <2>1. DOMAIN log' = 1..Len(log') /\ Len(log') \in Nat /\ MaxUpdates \in Nat
   BY IngestionAssumption
 <2>2. IsFiniteSet(DOMAIN log') /\ Cardinality(DOMAIN log') <= MaxUpdates  BY <2>1, FS_Interval
 <2> QED BY <2>1, <2>2, FS_Subset, FS_CardinalityType DEF IngestInv, LogInv
<1>2. CASE n \in seen
 <2> QED
   BY <1>1, RecordFits, <1>2 DEF IngestInv, LogInv, MovedFits, IngestUpdate,
     IngestWithout, IngestMessage
<1>3. CASE n \notin seen
 <2>1. /\ IsFiniteSet(seen \cup {n}) /\ Cardinality(seen \cup {n}) = count + 1
       /\ seen \cup {n} \in SUBSET DOMAIN log'
   BY <1>1, <1>3, FS_AddElement
 <2>2. count < MaxUpdates
  <3> QED BY <1>1, <2>1, FS_CardinalityType, FS_Subset
 <2> HIDE DEF count
 <2>3. /\ MovedFits(migrations)' /\ (minute \in Instants)' /\ (paused \subseteq Chats)'
       /\ cutoffs' \in [Topics -> 0..MaxMessageId] /\ seen' = seen \cup {n}
       /\ MessagesFit(messages', minute', count) \/ MessagesFit(messages', minute', count + 1)
       /\ AttentionFits(attention', messages') /\ BucketsFit(buckets', messages')
   BY <1>1, <2>2, IngestKeeps DEF IngestInv, count
 <2>4. MessagesFit(messages', minute', count) => MessagesFit(messages', minute', count + 1)
  <3> SUFFICES ASSUME MessagesFit(messages', minute', count), NEW c \in Chats, NEW i \in MessageIds,
                      messages'[<<c, i>>] # Unset
               PROVE  MessageFits(c, messages'[<<c, i>>], minute', count + 1)
    BY DEF MessagesFit
  <3> QED BY <1>1 DEF MessageFits, Message, MessagesFit
 <2> QED BY <2>3, <2>1, <2>4 DEF IngestInv, LogInv
<1> QED BY <1>2, <1>3

-----------------------------------------------------------------------------
(* The steps.                                                                  *)

\* A new update, and one that is delivered again.
LEMMA DeliverKeeps == ASSUME IngestInv, Deliver PROVE IngestInv'
<1>1. PICK kind \in Inputs, i \in MessageIds, schedule \in BOOLEAN :
          LET u == [chat |-> kind.chat, thread |-> kind.thread, id |-> i,
                    class |-> kind.class, edited |-> kind.edited, migrate |-> kind.migrate]
          IN /\ Len(log) < MaxUpdates /\ log' = Append(log, u)
             /\ IngestUpdate(u, Len(log) + 1, schedule)
  BY DEF Deliver
<1>2. PICK u : /\ u = [chat |-> kind.chat, thread |-> kind.thread, id |-> i, class |-> kind.class,
                       edited |-> kind.edited, migrate |-> kind.migrate]
               /\ Len(log) < MaxUpdates /\ log' = Append(log, u)
               /\ IngestUpdate(u, Len(log) + 1, schedule)
  BY <1>1
<1>3. UpdateFits(u)  BY <1>2, IngestionAssumption DEF UpdateFits, Update
<1>4. /\ log \in Seq(Update) /\ u \in Update /\ MaxUpdates \in Nat
      /\ \A k \in DOMAIN log : UpdateFits(log[k])
  BY <1>3, IngestionAssumption DEF IngestInv, LogInv, UpdateFits
<1> QED BY <1>2, <1>3, <1>4, UpdateKeeps, AppendProperties

LEMMA RedeliverKeeps == ASSUME IngestInv, Redeliver PROVE IngestInv'
<1>1. PICK n \in DOMAIN log, schedule \in BOOLEAN : IngestUpdate(log[n], n, schedule) /\ UNCHANGED log
  BY DEF Redeliver
<1> QED BY <1>1, UpdateKeeps DEF IngestInv, LogInv

\* What closes, pauses or cuts leaves the messages alone.
LEMMA AroundKeeps ==
    ASSUME IngestInv, CloseBucket \/ Pause \/ Resume \/ CutTopic PROVE IngestInv'
<1>1. BucketsFit(buckets, messages) /\ buckets = [a \in DOMAIN buckets |-> buckets[a]]
  BY DEF IngestInv, BucketsFit
<1>2. CASE CloseBucket
 <2>1. PICK b \in DOMAIN buckets :
           /\ buckets' = [buckets EXCEPT ![b].collecting = FALSE]
           /\ UNCHANGED <<minute, log, seen, migrations, messages, attention, cutoffs, paused>>
   BY <1>2 DEF CloseBucket
 <2>2. BucketsFit(buckets', messages)  BY <1>1, <2>1, CloseFits
 <2> QED BY <2>1, <2>2 DEF IngestInv, LogInv, MovedFits
<1>3. CASE Pause
 <2>1. PICK c \in Chats :
           /\ paused' = paused \cup {c}
           /\ buckets' = [b \in DOMAIN buckets |->
                  IF buckets[b].conversation[1] = c
                  THEN [buckets[b] EXCEPT !.collecting = FALSE] ELSE buckets[b]]
           /\ UNCHANGED <<minute, log, seen, migrations, messages, attention, cutoffs>>
   BY <1>3 DEF Pause
 <2> QED BY <2>1, <1>1, CloseFits DEF IngestInv, LogInv, MovedFits
<1>4. CASE Resume  BY <1>4 DEF Resume, IngestInv, LogInv, MovedFits
<1>5. CASE CutTopic
 <2>1. PICK v \in Topics, at \in MessageIds :
           /\ cutoffs' = [cutoffs EXCEPT ![v] = IF at > @ THEN at ELSE @]
           /\ UNCHANGED <<minute, log, seen, migrations, messages, attention, buckets, paused>>
   BY <1>5 DEF CutTopic
 <2> QED BY <2>1, IngestionAssumption DEF IngestInv, LogInv, MovedFits, MessageIds
<1> QED BY <1>2, <1>3, <1>4, <1>5

\* Time only rises.
LEMMA MinutePassesKeeps == ASSUME IngestInv, MinutePasses PROVE IngestInv'
<1>1. /\ minute' \in Instants /\ minute' > minute /\ minute \in Nat /\ minute' \in Nat
      /\ UNCHANGED <<log, seen, migrations, messages, attention, buckets, cutoffs, paused>>
  BY IngestionAssumption DEF MinutePasses, IngestInv
<1>2. MessagesFit(messages', minute', Cardinality(seen'))
 <2> SUFFICES ASSUME NEW c \in Chats, NEW i \in MessageIds, messages[<<c, i>>] # Unset
              PROVE  MessageFits(c, messages[<<c, i>>], minute', Cardinality(seen))
   BY <1>1 DEF MessagesFit, IngestInv
 <2>1. MessageFits(c, messages[<<c, i>>], minute, Cardinality(seen))
   BY DEF MessagesFit, IngestInv
 <2>2. messages[<<c, i>>].at \in Nat  BY <2>1, IngestionAssumption DEF MessageFits, Message
 <2> QED BY <1>1, <2>1, <2>2 DEF MessageFits
<1> QED BY <1>1, <1>2 DEF IngestInv, LogInv, MovedFits

\* At the start.
LEMMA IngestStarts == IngestInit => IngestInv
<1> SUFFICES ASSUME IngestInit PROVE IngestInv  OBVIOUS
<1>2. minute \in Instants
 <2> QED BY LeastNat, IngestionAssumption DEF IngestInit
<1> QED
  BY <1>2, IngestionAssumption DEF IngestInv, LogInv, MovedFits, MessagesFit,
    AttentionFits, BucketsFit, ApartIn, OneCollects, IngestInit

\* The invariant says what the property says.
LEMMA IngestSays == IngestInv => BatchesAreFaithful
<1> SUFFICES ASSUME IngestInv PROVE BatchesAreFaithful  OBVIOUS
<1>2. StoredInScope  BY DEF IngestInv, MessagesFit, MessageFits, Allowed, StoredInScope
<1>3. BatchedOnce  BY DEF IngestInv, BucketsFit, ApartIn, BatchedOnce
<1>5. HumansOpenBuckets  BY DEF IngestInv, BucketsFit, BucketFits, HumansOpenBuckets
<1>6. ASSUME NEW b \in DOMAIN buckets
      PROVE  /\ buckets[b] \in Bucket /\ MayHaveOpened(buckets[b], messages)
             /\ \E k \in DOMAIN buckets[b].messages : TakenIn(buckets[b], k, messages)
             /\ \A i, j \in DOMAIN buckets[b].messages :
                    buckets[b].messages[i] = buckets[b].messages[j] => i = j
  BY DEF IngestInv, BucketsFit, BucketFits, ApartIn
<1>7. AdoptedInOrder
 <2> SUFFICES ASSUME NEW b \in DOMAIN buckets
              PROVE  LET ms == buckets[b].messages
                         k == CHOOSE i \in DOMAIN ms : ms[i] = buckets[b].opener
                     IN \A i \in 1..(k - 1) : /\ messages[ms[i]].class = "bot"
                                              /\ ms[i][2] > buckets[b].cut
                                              /\ i > 1 => ms[i - 1][2] < ms[i][2]
   BY DEF AdoptedInOrder
 <2> DEFINE ms == buckets[b].messages
            k == CHOOSE i \in DOMAIN ms : ms[i] = buckets[b].opener
 <2>1. PICK p \in DOMAIN ms : TakenIn(buckets[b], p, messages)  BY <1>6
 <2>3. k = p  BY <1>6, <2>1 DEF TakenIn
 <2>4. \A i \in 1..(p - 1) : /\ messages[ms[i]].class = "bot" /\ ms[i][2] > buckets[b].cut
                             /\ i > 1 => ms[i - 1][2] < ms[i][2]
   BY <2>1 DEF TakenIn
 <2>5. \A i \in 1..(k - 1) : /\ messages[ms[i]].class = "bot" /\ ms[i][2] > buckets[b].cut
                             /\ i > 1 => ms[i - 1][2] < ms[i][2]
  <3> HIDE DEF k, ms
  <3> QED BY <2>3, <2>4
 <2> QED BY <2>5
<1>8. QuietNeedsTrigger  BY <1>6 DEF QuietNeedsTrigger, MayHaveOpened, Woke
<1> QED
  BY <1>2, <1>3, <1>5, <1>7, <1>8, CalendarIsFollowed, IngestionAssumption DEF
    BatchesAreFaithful, IngestInv, WindowsFollowCalendar, IngestTypeOK, LogInv,
    MovedFits, MessagesFit, AttentionFits, BucketsFit

\* BatchesAreFaithful (telegram-ingestion.ts, participation.ts): however updates are repeated,
\* chats migrate, pause and are cut, what a batch shows was said in scope, once and in order,
\* and the batch was opened by a human when the rule of its chat let it.
THEOREM BatchesStayFaithful == IngestSpec => []BatchesAreFaithful
<1>1. IngestInv /\ [IngestNext]_ingestVars => IngestInv'
 <2>1. ASSUME IngestInv, UNCHANGED ingestVars PROVE IngestInv'
   BY <2>1 DEF ingestVars, IngestInv, LogInv, MovedFits
 <2> QED BY <2>1, DeliverKeeps, RedeliverKeeps, AroundKeeps, MinutePassesKeeps DEF IngestNext
<1> QED BY <1>1, IngestStarts, IngestSays, PTL DEF IngestSpec

=============================================================================

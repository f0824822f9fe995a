-------------------------- MODULE CapabilityProofs --------------------------
(***************************************************************************)
(* Pictures are paid for once, for every number of generations, items,     *)
(* rounds, permits, restarts and publishes.  The invariant ties the three  *)
(* places that speak of a round to each other: its row, its attempts and   *)
(* the item that the worker has in hand (CurrentInv, ItemInv, AttemptInv), *)
(* and says what each phase of the process may leave unfinished (PhaseInv).*)
(* After it, what one fetch gives the model (FetchInv), what the file, its *)
(* jar and the published snapshot have to do with each other (SettingsInv),*)
(* what the assets, their files and the accepted requests (AssetInv), and  *)
(* what an injection shows and a run reads back from it (PromptInv).       *)
(***************************************************************************)
EXTENDS ImageGeneration, WebFetch, ImageSettings, ImageAssets,
        PromptInjection, FiniteSetTheorems, SequenceTheorems, WellFoundedInduction, TLAPS

-----------------------------------------------------------------------------
(* The inductive invariant.                                                *)

Flying == {"calling", "image"} \cup ItemOutcomes
OffPhases == {"down", "recovering", "recomputing"}

\* A round is under way: its generation is the current one.
Busy == pump \in {"refused", "awaiting"}

\* What the phase says of the configuration, the recovery and the submission.
PhaseInv ==
    /\ phase \in OffPhases \cup {"loading"} => pump = "idle" /\ config = "none"
    /\ phase \notin {"recovering", "recomputing"} => affected = {}
    /\ \A g \in affected : Exists(g) /\ gen[g].status = "running"
    /\ phase = "recomputing" =>
          /\ \A g \in Gens : gen[g].status = "running" => g \in affected
          /\ \A g \in Gens, r \in Rounds, i \in Items : attempts[g][r][i] # "running"
    /\ submitting # 0 =>
          /\ phase = "up" /\ config = "with" /\ pump # "refused"
          /\ Exists(submitting) /\ gen[submitting].status \in {"queued", "running"}

\* The current generation is the one that runs.
CurrentInv ==
    /\ ~Busy => current.gen = 0
    /\ Busy =>
          /\ current.gen \in Gens
          /\ Exists(current.gen) /\ gen[current.gen].status = "running"
          /\ gen[current.gen].round = current.round
    /\ phase \notin OffPhases => \A g \in Gens : gen[g].status = "running" => current.gen = g

\* The items of a round and its attempts.
ItemInv ==
    /\ pump # "awaiting" => item = [i \in Items |-> "idle"] /\ permits = Concurrency /\ waiters = <<>>
    /\ pump = "awaiting" => \A i \in Items :
          /\ item[i] # "idle"
          /\ attempts[current.gen][current.round][i] = "running" <=> item[i] \in Flying
          /\ item[i] \in {"waiting", "granted"} => attempts[current.gen][current.round][i] = "none"
          /\ item[i] = "succeeded" =>
                [gen |-> current.gen, round |-> current.round, item |-> i] \in outputs
          /\ item[i] = "done" /\ phase # "stopping" =>
                attempts[current.gen][current.round][i] # "none"
    /\ pump = "refused" => \A i \in Items :
          attempts[current.gen][current.round][i] \in {"none", "failed"}

\* Who waits for a permit waits once.
WaitersInv ==
    /\ \A n \in 1..Len(waiters) : item[waiters[n]] = "waiting"
    /\ \A m, n \in 1..Len(waiters) : waiters[m] = waiters[n] => m = n

\* An attempt is in flight in the round under way only; a call has its attempt, and a
\* success its picture.
AttemptSound(g, r, i) ==
    /\ attempts[g][r][i] = "running" => r = gen[g].round /\ gen[g].status = "running"
    /\ calls[g][r][i] <= 1
    /\ calls[g][r][i] > 0 => attempts[g][r][i] # "none"
    /\ r > gen[g].round => attempts[g][r][i] = "none"
    /\ attempts[g][r][i] = "succeeded" => [gen |-> g, round |-> r, item |-> i] \in outputs

AttemptInv == \A g \in Gens, r \in Rounds, i \in Items : AttemptSound(g, r, i)

\* A queued round has sent nothing.
QueuedInv ==
    \A g \in Gens :
        /\ gen[g].status = "queued" => \A i \in Items : attempts[g][gen[g].round][i] = "none"
        /\ ~Exists(g) => gen[g].status = "queued" /\ gen[g].round = 1

\* The verdict of a round that has settled.
Verdict(status, round) ==
    /\ status = "succeeded" => \A i \in Items : round[i] = "succeeded"
    /\ status = "partial" =>
          /\ \E i \in Items : round[i] = "succeeded"
          /\ \E i \in Items : round[i] # "succeeded"
    /\ status = "interrupted" =>
          /\ \A i \in Items : round[i] # "succeeded"
          /\ \E i \in Items : round[i] # "failed"
    /\ status = "failed" => \A i \in Items : round[i] = "failed"

VerdictInv == \A g \in Gens : Verdict(gen[g].status, RoundOf(g))

\* Every round was asked for.
KeysOf(g) == {e \in keys : e.gen = g}
KeyInv ==
    \A g \in Gens :
        /\ IsFiniteSet(KeysOf(g))
        /\ Exists(g) => gen[g].round <= Cardinality(KeysOf(g))

\* What is queued is in the queue, and the queue has its pump.
QueueInv ==
    /\ \A n \in 1..Len(queue) : Exists(queue[n])
    /\ Started => \A g \in Resumable : \E n \in 1..Len(queue) : queue[n] = g
    /\ Started /\ queue # <<>> /\ config # "none" => pump # "idle"

\* With the bridge there, a task that waits has a generation that will settle.
TaskInv ==
    phase = "up" => \A g \in Gens : task[g].state = "waiting" => gen[g].status \notin Settled

GenInv ==
    /\ TypeOK
    /\ PhaseInv
    /\ CurrentInv
    /\ ItemInv
    /\ PermitsHeld
    /\ WaitersInv
    /\ AttemptInv
    /\ QueuedInv
    /\ VerdictInv
    /\ KeyInv
    /\ QueueInv
    /\ TaskInv

-----------------------------------------------------------------------------
(* Tables and lists.                                                       *)

\* The constants are numbers, and a round has an item.
LEMMA Numbers ==
    /\ MaxGenerations \in Nat /\ OutputCount \in Nat /\ Concurrency \in Nat
    /\ MaxPerInvocation \in Nat /\ MaxRound \in Nat /\ MaxRestarts \in Nat /\ MaxPublishes \in Nat
    /\ OutputCount >= 1 /\ Concurrency >= 1 /\ MaxRound >= 1
    /\ "admin" \notin Invocations /\ "nobody" \notin Invocations
BY ImageAssumption

\* A set of natural numbers that is not empty has a least element.
LEMMA LeastNat ==
    ASSUME NEW T \in SUBSET Nat, T # {}
    PROVE  \E x \in T : \A y \in T : x <= y
<1>1. PICK x \in T : \A y \in T : ~ (<<y, x>> \in OpToRel(<, Nat))
  BY WFMin, NatLessThanWellFounded
<1>2. \A y \in T : ~ (y < x)  BY <1>1 DEF OpToRel
<1> QED BY <1>2

\* What an update of one attempt does to the table of attempts.
LEMMA AttemptUpdate ==
    ASSUME NEW f \in [Gens -> [Rounds -> [Items -> AttemptStatus]]],
           NEW g \in Gens, NEW r \in Rounds, NEW i \in Items, NEW s \in AttemptStatus,
           NEW t, t = [f EXCEPT ![g][r][i] = s]
    PROVE  /\ t \in [Gens -> [Rounds -> [Items -> AttemptStatus]]]
           /\ t[g][r][i] = s
           /\ \A h \in Gens, q \in Rounds, j \in Items :
                 <<h, q, j>> # <<g, r, i>> => t[h][q][j] = f[h][q][j]
<1> HIDE DEF AttemptStatus, Gens, Rounds, Items
<1> QED OBVIOUS

\* The same for the calls of an item.
LEMMA CallUpdate ==
    ASSUME NEW f \in [Gens -> [Rounds -> [Items -> Nat]]],
           NEW g \in Gens, NEW r \in Rounds, NEW i \in Items, NEW s \in Nat,
           NEW t, t = [f EXCEPT ![g][r][i] = s]
    PROVE  /\ t \in [Gens -> [Rounds -> [Items -> Nat]]]
           /\ t[g][r][i] = s
           /\ \A h \in Gens, q \in Rounds, j \in Items :
                 <<h, q, j>> # <<g, r, i>> => t[h][q][j] = f[h][q][j]
<1> HIDE DEF Gens, Rounds, Items
<1> QED OBVIOUS

\* The verdict of a round without an attempt in flight.
LEMMA VerdictIs ==
    ASSUME NEW round \in [Items -> AttemptStatus], \A i \in Items : round[i] # "running"
    PROVE  /\ RoundVerdict(round) \in Settled \cup {"queued"}
           /\ RoundVerdict(round) = "queued" <=> \A i \in Items : round[i] = "none"
           /\ Verdict(RoundVerdict(round), round)
<1> DEFINE S == {round[i] : i \in Recorded(round)}
           status == ComputeStatus(S)
<1>1. Recorded(round) = {} <=> \A i \in Items : round[i] = "none"  BY DEF Recorded
<1>2. Recorded(round) = Items <=> \A i \in Items : round[i] # "none"  BY DEF Recorded
<1>3. "running" \notin S  BY DEF Recorded
<1>4. \A s \in S : \E i \in Items : round[i] = s /\ s # "none"  BY DEF Recorded
<1>5. \A i \in Items : round[i] # "none" => round[i] \in S  BY DEF Recorded
<1>7. CASE Recorded(round) = {}
 <2> QED BY <1>1, <1>7 DEF Verdict, RoundVerdict
<1>8. CASE Recorded(round) # {}
 <2>2. PICK k \in Items : round[k] # "none"  BY <1>8, <1>1
 <2>3. CASE S = {"succeeded"}
  <3>1. status = "succeeded"  BY <2>3 DEF ComputeStatus
  <3>2. \A i \in Items : round[i] = "none" \/ round[i] = "succeeded"  BY <2>3, <1>5
  <3>3. CASE Recorded(round) = Items
   <4> QED BY <3>2, <3>3, <1>2, Numbers, <1>8, <3>1 DEF Verdict, Settled, Items, RoundVerdict
  <3>4. CASE Recorded(round) # Items
   <4> QED BY <3>2, <2>2, <1>8, <3>1, <3>4, <1>2 DEF Verdict, Settled, RoundVerdict
  <3> QED BY <3>3, <3>4
 <2>4. CASE S # {"succeeded"} /\ "succeeded" \in S
  <3>3. PICK s \in S : s # "succeeded"  BY <2>4
  <3>5. \E i \in Items : round[i] = "succeeded"  BY <2>4, <1>4
  <3> QED
    BY <3>5, <2>2, <3>3, <1>4, <1>8, <2>4, <1>3 DEF Verdict, Settled,
      RoundVerdict, ComputeStatus
 <2>5. CASE "succeeded" \notin S /\ "interrupted" \in S
  <3>4. \A i \in Items : round[i] # "succeeded"  BY <2>5, <1>5
  <3> QED
    BY <3>4, <2>2, <2>5, <1>4, <1>8, <1>3 DEF Verdict, Settled, RoundVerdict,
      ComputeStatus
 <2>6. CASE "succeeded" \notin S /\ "interrupted" \notin S
  <3>1. status = "failed"  BY <2>6, <1>3 DEF ComputeStatus
  <3>3. \A i \in Items : round[i] = "none" \/ round[i] = "failed"
    BY <1>5, <2>6, <1>8, <1>3, <1>4 DEF ItemOutcomes, AttemptStatus, Recorded
  <3>4. CASE Recorded(round) = Items
   <4> QED BY <3>3, <3>4, <1>2, <2>2, <1>8, <3>1 DEF Verdict, Settled, RoundVerdict
  <3>5. CASE Recorded(round) # Items
   <4> QED BY <3>3, <2>2, <1>8, <3>1, <3>5, <1>2 DEF Verdict, Settled, RoundVerdict
  <3> QED BY <3>4, <3>5
 <2> QED BY <2>3, <2>4, <2>5, <2>6
<1> QED BY <1>7, <1>8

\* What is in a list stays when another element leaves its head.
LEMMA TailKeeps ==
    ASSUME NEW s \in Seq(Gens), s # <<>>
    PROVE  /\ Tail(s) \in Seq(Gens) /\ Len(Tail(s)) = Len(s) - 1
           /\ \A n \in 1..Len(Tail(s)) : n + 1 \in 1..Len(s) /\ Tail(s)[n] = s[n + 1]
           /\ \A n \in 1..Len(s) : n # 1 => n - 1 \in 1..Len(Tail(s)) /\ Tail(s)[n - 1] = s[n]
           /\ Head(s) = s[1] /\ 1 \in 1..Len(s) /\ Head(s) \in Gens
OBVIOUS

\* Enqueue loses nothing, adds g, and leaves a pump.
LEMMA EnqueueIs ==
    ASSUME TypeOK, NEW g \in Gens, Enqueue(g)
    PROVE  /\ queue' \in Seq(Gens)
           /\ \A n \in 1..Len(queue') :
                 queue'[n] = g \/ \E m \in 1..Len(queue) : queue'[n] = queue[m]
           /\ \A n \in 1..Len(queue) : \E m \in 1..Len(queue') : queue'[m] = queue[n]
           /\ \E m \in 1..Len(queue') : queue'[m] = g
           /\ pump' = (IF pump = "idle" THEN "called" ELSE pump)
<1>1. queue \in Seq(Gens)  BY DEF TypeOK
<1>2. pump' = (IF pump = "idle" THEN "called" ELSE pump)  BY DEF Enqueue, Pumped
<1>3. CASE \E n \in DOMAIN queue : queue[n] = g
 <2> QED BY <1>1, <1>2, <1>3 DEF Enqueue
<1>4. CASE ~\E n \in DOMAIN queue : queue[n] = g
 <2> QED BY <1>1, <1>2, <1>4 DEF Enqueue
<1> QED BY <1>3, <1>4

-----------------------------------------------------------------------------
(* What a step leaves as it is.                                            *)

rowVars == <<gen, attempts, outputs, keys, calls>>

\* The rows say what they said.
LEMMA RowsStay ==
    ASSUME GenInv, UNCHANGED rowVars
    PROVE  AttemptInv' /\ QueuedInv' /\ VerdictInv' /\ KeyInv'
<1>1. UNCHANGED <<gen, attempts, outputs, keys, calls>>  BY DEF rowVars
<1>2. AttemptInv'
 <2> SUFFICES ASSUME NEW h \in Gens, NEW q \in Rounds, NEW j \in Items
              PROVE  AttemptSound(h, q, j)'
   BY DEF AttemptInv
 <2> QED BY <1>1 DEF AttemptSound, GenInv, AttemptInv
<1>3. QueuedInv'  BY <1>1 DEF GenInv, QueuedInv, Exists
<1>4. VerdictInv'  BY <1>1 DEF GenInv, VerdictInv, RoundOf, Verdict
<1>5. KeyInv'  BY <1>1 DEF GenInv, KeyInv, KeysOf, Exists
<1> QED BY <1>2, <1>3, <1>4, <1>5

\* The round under way is where it was; the pump may go to another place between rounds.
LEMMA ItemsStay ==
    ASSUME GenInv, UNCHANGED <<attempts, outputs, current, item, permits, waiters>>,
           pump' = pump \/ (~Busy /\ ~Busy'),
           phase' # "stopping" => phase # "stopping"
    PROVE  ItemInv' /\ PermitsHeld' /\ WaitersInv'
<1>1. ItemInv'
 <2>3. ItemInv  BY DEF GenInv
 <2> QED BY <2>3 DEF ItemInv, Busy
<1>2. PermitsHeld'  BY DEF GenInv, PermitsHeld
<1>3. WaitersInv'  BY DEF GenInv, WaitersInv
<1> QED BY <1>1, <1>2, <1>3

\* No round is under way in the phases before the worker accepts work.
LEMMA OffIsIdle ==
    ASSUME GenInv, phase \in OffPhases \cup {"loading"}
    PROVE  pump = "idle" /\ ~Busy /\ config = "none" /\ submitting = 0 /\ current.gen = 0
BY DEF GenInv, PhaseInv, CurrentInv, Busy, OffPhases

\* In particular none of recovery and configuration touches one.
LEMMA Idle ==
    ASSUME GenInv, pump # "awaiting"
    PROVE  item = [i \in Items |-> "idle"] /\ permits = Concurrency /\ waiters = <<>>
BY DEF GenInv, ItemInv

\* The parts, by name.
LEMMA Parts ==
    ASSUME GenInv
    PROVE  /\ TypeOK /\ PhaseInv /\ CurrentInv /\ ItemInv /\ PermitsHeld /\ WaitersInv
           /\ AttemptInv /\ QueuedInv /\ VerdictInv /\ KeyInv /\ QueueInv /\ TaskInv
BY DEF GenInv

-----------------------------------------------------------------------------
(* Startup.                                                                *)

\* The process starts.
LEMMA StartWorkerKeeps ==
    ASSUME GenInv, StartWorker
    PROVE  GenInv'
<1>1. /\ phase = "down" /\ phase' = "recovering"
      /\ UNCHANGED <<gen, attempts, outputs, keys, task, calls>>
      /\ UNCHANGED <<queue, pump, current, item, permits, waiters>>
      /\ UNCHANGED <<config, affected, submitting, restarts, publishes>>
  BY DEF StartWorker, database, worker, semaphore
<1>4. CurrentInv'  BY <1>1 DEF GenInv, CurrentInv, Busy, OffPhases, Exists
<1>5. ItemInv' /\ PermitsHeld' /\ WaitersInv'  BY <1>1, ItemsStay
<1>6. AttemptInv' /\ QueuedInv' /\ VerdictInv' /\ KeyInv'  BY <1>1, RowsStay DEF rowVars
<1>7. QueueInv'  BY <1>1 DEF GenInv, QueueInv, Exists, Started
<1>8. TaskInv'  BY <1>1 DEF TaskInv
<1> QED BY <1>4, <1>5, <1>6, <1>7, <1>8, <1>1 DEF GenInv, TypeOK, PhaseInv, OffPhases, Exists

\* An attempt in flight is the last one of a running generation.
LEMMA RecoverAttemptKeeps ==
    ASSUME GenInv, NEW g \in Gens, NEW r \in Rounds, NEW i \in Items, RecoverAttempt(g, r, i)
    PROVE  GenInv'
<1>1. /\ phase = "recovering" /\ attempts[g][r][i] = "running"
      /\ attempts' = [attempts EXCEPT ![g][r][i] = "interrupted"]
      /\ affected' = affected \cup {g}
      /\ UNCHANGED <<gen, outputs, keys, task, calls>>
      /\ UNCHANGED <<queue, pump, current, item, permits, waiters>>
      /\ UNCHANGED <<phase, config, submitting, restarts, publishes>>
  BY DEF RecoverAttempt, worker, semaphore
<1>2. attempts \in [Gens -> [Rounds -> [Items -> AttemptStatus]]]  BY DEF GenInv, TypeOK
<1>3. /\ attempts' \in [Gens -> [Rounds -> [Items -> AttemptStatus]]]
      /\ attempts'[g][r][i] = "interrupted"
      /\ \A h \in Gens, q \in Rounds, j \in Items :
            <<h, q, j>> # <<g, r, i>> => attempts'[h][q][j] = attempts[h][q][j]
 <2> QED BY <1>1, <1>2, AttemptUpdate DEF AttemptStatus, ItemOutcomes
<1>4. gen[g].status = "running" /\ r = gen[g].round
  BY <1>1 DEF GenInv, AttemptInv, AttemptSound
<1>6. pump = "idle" /\ ~Busy /\ config = "none" /\ submitting = 0 /\ current.gen = 0
  BY <1>1, OffIsIdle DEF OffPhases
<1>7. TypeOK'  BY <1>1, <1>3 DEF GenInv, TypeOK
<1>8. PhaseInv'  BY <1>1, <1>4, <1>6 DEF GenInv, PhaseInv, OffPhases, Exists, QueuedInv
<1>9. CurrentInv'  BY <1>1, <1>6 DEF GenInv, CurrentInv, Busy, OffPhases, Exists
<1>10. ItemInv' /\ PermitsHeld' /\ WaitersInv'
  BY <1>1, <1>6 DEF GenInv, ItemInv, PermitsHeld, WaitersInv
<1>11. AttemptInv'
 <2> SUFFICES ASSUME NEW h \in Gens, NEW q \in Rounds, NEW j \in Items
              PROVE  AttemptSound(h, q, j)'
   BY DEF AttemptInv
 <2> SUFFICES /\ attempts'[h][q][j] = "running" => q = gen[h].round /\ gen[h].status = "running"
              /\ calls[h][q][j] <= 1
              /\ calls[h][q][j] > 0 => attempts'[h][q][j] # "none"
              /\ q > gen[h].round => attempts'[h][q][j] = "none"
              /\ attempts'[h][q][j] = "succeeded" => [gen |-> h, round |-> q, item |-> j] \in outputs
   BY <1>1 DEF AttemptSound
 <2>1. AttemptInv  BY DEF GenInv
 <2>2. CASE <<h, q, j>> = <<g, r, i>>
  <3>3. attempts'[h][q][j] = "interrupted" /\ ~(q > gen[h].round)
    BY <1>3, <1>4, <2>2 DEF GenInv, TypeOK, Generation, Rounds
  <3> QED BY <3>3, <2>1 DEF AttemptInv, AttemptSound
 <2>3. CASE <<h, q, j>> # <<g, r, i>>  BY <2>1, <2>3, <1>3 DEF AttemptInv, AttemptSound
 <2> QED BY <2>2, <2>3
<1>12. QueuedInv'
 <2>2. \A h \in Gens, j \in Items : h # g => attempts'[h][gen[h].round][j] = attempts[h][gen[h].round][j]
   BY <1>3 DEF GenInv, TypeOK, Generation
 <2> QED BY <1>1, <1>4, <2>2 DEF GenInv, QueuedInv, Exists
<1>13. VerdictInv'
 <2>1. ASSUME NEW h \in Gens PROVE Verdict(gen[h].status, attempts'[h][gen[h].round])
  <3>2. CASE h = g  BY <3>2, <1>4 DEF Verdict
  <3>3. CASE h # g
   <4>1. \A j \in Items : attempts'[h][gen[h].round][j] = attempts[h][gen[h].round][j]
     BY <1>3, <3>3 DEF GenInv, TypeOK, Generation
   <4> QED BY <4>1 DEF Verdict, GenInv, VerdictInv, RoundOf
  <3> QED BY <3>2, <3>3
 <2> QED BY <2>1, <1>1 DEF VerdictInv, RoundOf
<1>14. KeyInv'  BY <1>1 DEF GenInv, KeyInv, KeysOf, Exists
<1>15. QueueInv'  BY <1>1 DEF GenInv, QueueInv, Exists, Started
<1>16. TaskInv'  BY <1>1 DEF TaskInv
<1> QED BY <1>7, <1>8, <1>9, <1>10, <1>11, <1>12, <1>13, <1>14, <1>15, <1>16 DEF GenInv

\* The generations that claim to run are all to be recomputed.
LEMMA ListClaimedKeeps ==
    ASSUME GenInv, ListClaimed
    PROVE  GenInv'
<1>1. /\ phase = "recovering" /\ phase' = "recomputing"
      /\ \A g \in Gens, r \in Rounds, i \in Items : attempts[g][r][i] # "running"
      /\ affected' = affected \cup {g \in Gens : Exists(g) /\ gen[g].status = "running"}
      /\ UNCHANGED <<gen, attempts, outputs, keys, task, calls>>
      /\ UNCHANGED <<queue, pump, current, item, permits, waiters>>
      /\ UNCHANGED <<config, submitting, restarts, publishes>>
  BY DEF ListClaimed, database, worker, semaphore
<1>2. pump = "idle" /\ ~Busy /\ config = "none" /\ submitting = 0 /\ current.gen = 0
  BY <1>1, OffIsIdle DEF OffPhases
<1>4. PhaseInv'
 <2>4. \A g \in Gens : gen[g].status = "running" => g \in affected'
   BY <1>1 DEF GenInv, QueuedInv
 <2> QED BY <1>1, <1>2, <2>4 DEF PhaseInv, OffPhases, Exists, GenInv
<1>6. ItemInv' /\ PermitsHeld' /\ WaitersInv'  BY <1>1, ItemsStay
<1>7. AttemptInv' /\ QueuedInv' /\ VerdictInv' /\ KeyInv'  BY <1>1, RowsStay DEF rowVars
<1>8. QueueInv'  BY <1>1 DEF GenInv, QueueInv, Exists, Started
<1>9. TaskInv'  BY <1>1 DEF TaskInv
<1> QED
  BY <1>4, <1>6, <1>7, <1>8, <1>9, <1>1, <1>2 DEF GenInv, TypeOK, CurrentInv,
    Busy, OffPhases, Exists

\* A generation that nobody runs gets the verdict of its attempts.
LEMMA RecomputeKeeps ==
    ASSUME GenInv, NEW g \in Gens, RecomputeGeneration(g)
    PROVE  GenInv'
<1> DEFINE verdict == RoundVerdict(attempts[g][gen[g].round])
<1>1. /\ phase = "recomputing" /\ g \in affected
      /\ gen' = [gen EXCEPT ![g].status = verdict]
      /\ affected' = affected \ {g}
      /\ UNCHANGED <<attempts, outputs, keys, task, calls>>
      /\ UNCHANGED <<queue, pump, current, item, permits, waiters>>
      /\ UNCHANGED <<phase, config, submitting, restarts, publishes>>
  BY DEF RecomputeGeneration, worker, semaphore
<1>2. /\ gen \in [Gens -> Generation]
      /\ attempts \in [Gens -> [Rounds -> [Items -> AttemptStatus]]]
      /\ gen[g].round \in Rounds
  BY DEF GenInv, TypeOK, Generation
<1>3. \A h \in Gens, r \in Rounds, i \in Items : attempts[h][r][i] # "running"
  BY <1>1 DEF GenInv, PhaseInv
<1>4. /\ verdict \in Settled \cup {"queued"}
      /\ verdict = "queued" <=> \A i \in Items : attempts[g][gen[g].round][i] = "none"
      /\ Verdict(verdict, attempts[g][gen[g].round])
 <2> QED BY VerdictIs, <1>2, <1>3
<1> HIDE DEF verdict
<1>5. /\ gen' \in [Gens -> Generation]
      /\ gen'[g].status = verdict /\ gen'[g].round = gen[g].round /\ gen'[g].by = gen[g].by
      /\ \A h \in Gens : h # g => gen'[h] = gen[h]
 <2> DEFINE row == [gen[g] EXCEPT !.status = verdict]
 <2>2. /\ row \in Generation /\ row.status = verdict
       /\ row.round = gen[g].round /\ row.by = gen[g].by
   BY <1>2, <1>4 DEF Generation
 <2>3. gen' = [gen EXCEPT ![g] = row]  BY <1>1
 <2> HIDE DEF row
 <2> QED BY <1>2, <2>2, <2>3
<1>6. \A h \in Gens : gen'[h].round = gen[h].round /\ gen'[h].by = gen[h].by  BY <1>5
<1>8. \A h \in Gens : Exists(h)' <=> Exists(h)  BY <1>6 DEF Exists
<1>9. pump = "idle" /\ ~Busy /\ config = "none" /\ submitting = 0 /\ current.gen = 0
  BY <1>1, OffIsIdle DEF OffPhases
<1>11. TypeOK'  BY <1>1, <1>5 DEF GenInv, TypeOK
<1>12. PhaseInv'
 <2>3. \A h \in affected' : Exists(h)' /\ gen'[h].status = "running"
   BY <1>1, <1>5, <1>8 DEF GenInv, PhaseInv, TypeOK
 <2>5. \A h \in Gens : gen'[h].status = "running" => h \in affected'
   BY <1>1, <1>5, <1>4 DEF Settled, GenInv, PhaseInv
 <2> QED BY <1>1, <1>3, <1>9, <2>3, <2>5 DEF PhaseInv, OffPhases
<1>13. CurrentInv'  BY <1>1, <1>9 DEF CurrentInv, Busy, OffPhases
<1>14. ItemInv' /\ PermitsHeld' /\ WaitersInv'  BY <1>1, ItemsStay
<1>15. AttemptInv'
 <2> SUFFICES ASSUME NEW h \in Gens, NEW q \in Rounds, NEW j \in Items
              PROVE  AttemptSound(h, q, j)'
   BY DEF AttemptInv
 <2> QED BY <1>1, <1>3, <1>6 DEF AttemptSound, GenInv, AttemptInv
<1>16. QueuedInv'  BY <1>1, <1>4, <1>5, <1>8 DEF GenInv, QueuedInv, PhaseInv
<1>17. VerdictInv'
 <2>1. ASSUME NEW h \in Gens PROVE Verdict(gen'[h].status, attempts[h][gen'[h].round])
  <3>1. CASE h = g  BY <3>1, <1>4, <1>5
  <3>2. CASE h # g  BY <3>2, <1>5 DEF GenInv, VerdictInv, RoundOf
  <3> QED BY <3>1, <3>2
 <2> QED BY <2>1, <1>1 DEF VerdictInv, RoundOf
<1>18. KeyInv'  BY <1>1, <1>6, <1>8 DEF GenInv, KeyInv, KeysOf
<1>19. QueueInv'
 <2> QED BY <1>1, <1>8 DEF GenInv, QueueInv, Started, TypeOK
<1>20. TaskInv'  BY <1>1 DEF TaskInv
<1> QED BY <1>11, <1>12, <1>13, <1>14, <1>15, <1>16, <1>17, <1>18, <1>19, <1>20 DEF GenInv

\* What is queued is resumed, with no generation left running.
LEMMA ResumeQueuedKeeps ==
    ASSUME GenInv, ResumeQueued
    PROVE  GenInv'
<1>1. /\ phase = "recomputing" /\ affected = {} /\ phase' = "loading"
      /\ UNCHANGED <<gen, attempts, outputs, keys, task, calls>>
      /\ UNCHANGED <<pump, current, item, permits, waiters>>
      /\ UNCHANGED <<config, affected, submitting, restarts, publishes>>
  BY DEF ResumeQueued, database, semaphore
<1>2. PICK n \in 0..MaxGenerations :
          /\ queue' \in [1..n -> Resumable]
          /\ \A g \in Resumable : \E i \in DOMAIN queue' : queue'[i] = g
  BY DEF ResumeQueued, InOrder
<1>3. n \in Nat  BY Numbers
<1>4. queue' \in Seq(Gens) /\ Len(queue') = n  BY <1>2, <1>3 DEF Resumable
<1>5. pump = "idle" /\ ~Busy /\ config = "none" /\ submitting = 0 /\ current.gen = 0
  BY <1>1, OffIsIdle DEF OffPhases
<1>8. PhaseInv'  BY <1>1, <1>5 DEF PhaseInv, OffPhases
<1>10. ItemInv' /\ PermitsHeld' /\ WaitersInv'  BY <1>1, ItemsStay
<1>11. AttemptInv' /\ QueuedInv' /\ VerdictInv' /\ KeyInv'  BY <1>1, RowsStay DEF rowVars
<1>12. QueueInv'
 <2>3. \A g \in Resumable : \E m \in 1..Len(queue') : queue'[m] = g  BY <1>2, <1>4
 <2> QED BY <1>1, <1>5, <2>3, <1>2, <1>4 DEF QueueInv, Exists, Resumable
<1>13. TaskInv'  BY <1>1 DEF TaskInv
<1> QED
  BY <1>8, <1>10, <1>11, <1>12, <1>13, <1>1, <1>4, <1>5 DEF GenInv, TypeOK,
    CurrentInv, Busy, OffPhases, PhaseInv

\* The configuration is there, and the queue is pumped.
LEMMA StartupPublishKeeps ==
    ASSUME GenInv, NEW c \in {"none", "without", "with"}, StartupPublish(c)
    PROVE  GenInv'
<1>1. /\ phase = "loading" /\ phase' = "starting" /\ config' = c /\ pump' = Pumped
      /\ UNCHANGED <<gen, attempts, outputs, keys, task, calls>>
      /\ UNCHANGED <<queue, current, item, permits, waiters>>
      /\ UNCHANGED <<affected, submitting, restarts, publishes>>
  BY DEF StartupPublish, database, semaphore
<1>2. pump = "idle" /\ ~Busy /\ config = "none" /\ submitting = 0 /\ current.gen = 0
  BY <1>1, OffIsIdle DEF OffPhases
<1>3. pump' = "called"  BY <1>1, <1>2 DEF Pumped
<1>6. CurrentInv'  BY <1>1, <1>2, <1>3 DEF GenInv, CurrentInv, Busy, OffPhases
<1>7. ItemInv' /\ PermitsHeld' /\ WaitersInv'  BY <1>1, <1>2, <1>3, ItemsStay DEF Busy
<1>8. AttemptInv' /\ QueuedInv' /\ VerdictInv' /\ KeyInv'  BY <1>1, RowsStay DEF rowVars
<1>9. QueueInv'  BY <1>1, <1>3 DEF GenInv, QueueInv, Exists, Started, Resumable
<1>10. TaskInv'  BY <1>1 DEF TaskInv
<1> QED
  BY <1>6, <1>7, <1>8, <1>9, <1>10, <1>1, <1>3, <1>2 DEF GenInv, TypeOK,
    PhaseInv, OffPhases

\* What reconcileOne makes of a task.
LEMMA ReconcileIs ==
    ASSUME NEW g, NEW t \in Task, NEW row \in Generation
    PROVE  ReconcileOne(g, t, row) \in Task /\ ReconcileOne(g, t, row).state # "waiting"
<1> HIDE DEF Task
<1> QED BY DEF ReconcileOne, Task, Generation

\* With the bridge every waiting task is settled.
LEMMA OpenBridgeKeeps ==
    ASSUME GenInv, OpenBridge
    PROVE  GenInv'
<1>1. /\ phase = "starting" /\ phase' = "up"
      /\ task' = [g \in Gens |-> ReconcileOne(g, task[g], gen[g])]
      /\ UNCHANGED <<gen, attempts, outputs, keys, calls>>
      /\ UNCHANGED <<queue, pump, current, item, permits, waiters>>
      /\ UNCHANGED <<config, affected, submitting, restarts, publishes>>
      /\ submitting = 0
  BY DEF OpenBridge, worker, semaphore, Free
<1>2. \A g \in Gens : task'[g] \in Task /\ task'[g].state # "waiting"
  BY <1>1, ReconcileIs DEF GenInv, TypeOK
<1>3. TypeOK'
 <2> QED BY <1>1, <1>2 DEF GenInv, TypeOK
<1>6. ItemInv' /\ PermitsHeld' /\ WaitersInv'  BY <1>1, ItemsStay
<1>7. AttemptInv' /\ QueuedInv' /\ VerdictInv' /\ KeyInv'  BY <1>1, RowsStay DEF rowVars
<1>8. QueueInv'  BY <1>1 DEF GenInv, QueueInv, Exists, Started, Resumable
<1>9. TaskInv'  BY <1>2 DEF TaskInv
<1> QED
  BY <1>3, <1>6, <1>7, <1>8, <1>9, <1>1 DEF GenInv, PhaseInv, OffPhases,
    Exists, CurrentInv, Busy

-----------------------------------------------------------------------------
(* Requests.                                                               *)

\* One more key for generation g.
LEMMA KeyAdded ==
    ASSUME GenInv, NEW g \in Gens, NEW e, e \notin keys, e.gen = g, keys' = keys \cup {e}
    PROVE  \A h \in Gens :
              /\ IsFiniteSet(KeysOf(h)')
              /\ Cardinality(KeysOf(h)') =
                    IF h = g THEN Cardinality(KeysOf(h)) + 1 ELSE Cardinality(KeysOf(h))
<1> SUFFICES ASSUME NEW h \in Gens
             PROVE  /\ IsFiniteSet(KeysOf(h)')
                    /\ Cardinality(KeysOf(h)') =
                          IF h = g THEN Cardinality(KeysOf(h)) + 1 ELSE Cardinality(KeysOf(h))
  OBVIOUS
<1>1. IsFiniteSet(KeysOf(h))  BY DEF GenInv, KeyInv
<1>2. CASE h = g
 <2> QED BY <1>1, <1>2, FS_AddElement DEF KeysOf
<1>3. CASE h # g
 <2> QED BY <1>1, <1>3 DEF KeysOf
<1> QED BY <1>2, <1>3

\* A pump that is called where none was leaves the round under way alone.
LEMMA PumpedKeeps ==
    ASSUME GenInv, pump' = (IF pump = "idle" THEN "called" ELSE pump),
           UNCHANGED <<attempts, outputs, current, item, permits, waiters, phase>>
    PROVE  /\ ItemInv' /\ PermitsHeld' /\ WaitersInv'
           /\ pump' \in {"idle", "called", "refused", "awaiting", "resumed"} \ {"idle"}
           /\ Busy' <=> Busy
           /\ pump' = "refused" <=> pump = "refused"
<1>3. pump \in {"idle", "called", "refused", "awaiting", "resumed"}  BY DEF GenInv, TypeOK
<1> QED BY <1>3, ItemsStay DEF Busy

\* A generation is created: it is queued in the database, in the queue, and asked for
\* by one key.
LEMMA CreateKeeps ==
    ASSUME GenInv, NEW g \in Gens, NEW k \in Keys, NEW actor \in Invocations \cup {"admin"},
           CreateGeneration(g, k, actor), submitting' \in {submitting, g}
    PROVE  GenInv'
<1> DEFINE e == [op |-> "create", key |-> k, gen |-> g]
<1>1. /\ phase = "up" /\ submitting = 0 /\ config = "with" /\ ~Exists(g)
      /\ pump \notin {"called", "refused"}
      /\ gen' = [gen EXCEPT ![g].by = actor]
      /\ keys' = keys \cup {e}
      /\ Enqueue(g)
      /\ UNCHANGED <<attempts, outputs, task, calls, current, item, permits, waiters>>
      /\ UNCHANGED <<phase, config, affected, restarts, publishes>>
  BY DEF CreateGeneration, Free, semaphore
<1>2. gen \in [Gens -> Generation]  BY DEF GenInv, TypeOK
<1>3. /\ gen' \in [Gens -> Generation]
      /\ gen'[g].by = actor /\ gen'[g].status = gen[g].status /\ gen'[g].round = gen[g].round
      /\ \A h \in Gens : h # g => gen'[h] = gen[h]
 <2> DEFINE row == [gen[g] EXCEPT !.by = actor]
 <2>2. /\ row \in Generation /\ row.by = actor
       /\ row.round = gen[g].round /\ row.status = gen[g].status
   BY <1>2 DEF Generation
 <2>3. gen' = [gen EXCEPT ![g] = row]  BY <1>1
 <2> HIDE DEF row
 <2> QED BY <1>2, <2>2, <2>3
<1>4. gen[g].status = "queued" /\ gen[g].round = 1  BY <1>1 DEF GenInv, QueuedInv
<1>5. \A h \in Gens : gen'[h].status = gen[h].status /\ gen'[h].round = gen[h].round  BY <1>3
<1>6. Exists(g)' /\ \A h \in Gens : Exists(h) => Exists(h)'  BY <1>3, Numbers DEF Exists
<1>7. \A h \in Gens : h # g => (Exists(h)' <=> Exists(h))  BY <1>3 DEF Exists
<1>8. /\ queue' \in Seq(Gens)
      /\ \A n \in 1..Len(queue') :
            queue'[n] = g \/ \E m \in 1..Len(queue) : queue'[n] = queue[m]
      /\ \A n \in 1..Len(queue) : \E m \in 1..Len(queue') : queue'[m] = queue[n]
      /\ \E m \in 1..Len(queue') : queue'[m] = g
      /\ pump' = (IF pump = "idle" THEN "called" ELSE pump)
  BY <1>1, EnqueueIs DEF GenInv
<1>9. /\ ItemInv' /\ PermitsHeld' /\ WaitersInv'
      /\ pump' \in {"idle", "called", "refused", "awaiting", "resumed"} \ {"idle"}
      /\ Busy' <=> Busy
      /\ pump' = "refused" <=> pump = "refused"
  BY <1>1, <1>8, PumpedKeeps
<1>11. TypeOK'  BY <1>1, <1>3, <1>8, <1>9 DEF GenInv, TypeOK, IdempotencyKey
<1>12. PhaseInv'
 <2> QED BY <1>1, <1>3, <1>4, <1>6, <1>9 DEF PhaseInv, OffPhases, GenInv
<1>13. CurrentInv'  BY <1>1, <1>5, <1>6, <1>9 DEF GenInv, CurrentInv, OffPhases
<1>14. AttemptInv'
 <2> SUFFICES ASSUME NEW h \in Gens, NEW q \in Rounds, NEW j \in Items
              PROVE  AttemptSound(h, q, j)'
   BY DEF AttemptInv
 <2> QED BY <1>1, <1>5 DEF AttemptSound, GenInv, AttemptInv
<1>15. QueuedInv'  BY <1>1, <1>5, <1>6, <1>7 DEF GenInv, QueuedInv
<1>16. VerdictInv'
 <2>1. ASSUME NEW h \in Gens PROVE Verdict(gen'[h].status, attempts'[h][gen'[h].round])
  <3> QED BY <1>1, <1>5 DEF GenInv, VerdictInv, RoundOf
 <2> QED BY <2>1 DEF VerdictInv, RoundOf
<1>17. KeyInv'
 <2>1. CASE e \notin keys
  <3> QED BY <1>4, <1>5, <1>7, <1>1, <2>1, KeyAdded, FS_CardinalityType DEF GenInv, KeyInv
 <2>2. CASE e \in keys
  <3>3. Cardinality(KeysOf(g)) >= 1
   <4>1. e \in KeysOf(g)  BY <2>2 DEF KeysOf
   <4> QED BY <4>1, FS_EmptySet, FS_CardinalityType DEF GenInv, KeyInv
  <3> QED BY <3>3, <1>4, <1>5, <1>7, <1>1, <2>2 DEF GenInv, KeyInv, KeysOf
 <2> QED BY <2>1, <2>2
<1>18. QueueInv'
 <2>1. ASSUME NEW n \in 1..Len(queue') PROVE queue'[n] \in Gens /\ gen'[queue'[n]].by # "nobody"
  <3>1. queue'[n] \in Gens  BY <1>8
  <3>2. queue \in Seq(Gens)  BY DEF GenInv, TypeOK
  <3>4. CASE queue'[n] = g  BY <3>1, <3>4, <1>6 DEF Exists
  <3>5. CASE queue'[n] # g
   <4>1. PICK m \in 1..Len(queue) : queue'[n] = queue[m]  BY <3>5, <1>8
   <4> QED BY <3>1, <4>1, <3>5, <1>3 DEF Exists, GenInv, QueueInv
  <3> QED BY <3>4, <3>5
 <2>2. \A h \in Gens : gen'[h].by # "nobody" /\ gen'[h].status = "queued" =>
           \E n \in 1..Len(queue') : queue'[n] = h
  <3> SUFFICES ASSUME NEW h \in Gens, gen'[h].by # "nobody", gen'[h].status = "queued"
               PROVE  \E n \in 1..Len(queue') : queue'[n] = h
    OBVIOUS
  <3>1. CASE h = g  BY <3>1, <1>8
  <3>2. CASE h # g
   <4> QED BY <1>8, <1>1, <3>2, <1>3 DEF GenInv, QueueInv, Started, Resumable, Exists
  <3> QED BY <3>1, <3>2
 <2> QED BY <2>1, <2>2, <1>9 DEF QueueInv, Exists, Resumable
<1>19. TaskInv'  BY <1>1, <1>5 DEF GenInv, TaskInv
<1> QED BY <1>9, <1>11, <1>12, <1>13, <1>14, <1>15, <1>16, <1>17, <1>18, <1>19 DEF GenInv

\* The task of a submission waits for a generation that is queued or runs.
LEMMA SubmitTaskKeeps ==
    ASSUME GenInv, SubmitTask
    PROVE  GenInv'
<1>1. /\ submitting # 0 /\ submitting' = 0
      /\ UNCHANGED <<gen, attempts, outputs, keys, calls>>
      /\ UNCHANGED <<queue, pump, current, item, permits, waiters>>
      /\ UNCHANGED <<phase, config, affected, restarts, publishes>>
  BY DEF SubmitTask, worker, semaphore
<1>3. submitting \in Gens /\ gen[submitting].status \in {"queued", "running"}
  BY <1>1 DEF GenInv, PhaseInv, TypeOK
<1>4. /\ task' \in [Gens -> Task]
      /\ \A h \in Gens : h # submitting => task'[h] = task[h]
 <2>1. task \in [Gens -> Task]  BY DEF GenInv, TypeOK
 <2>2. CASE task' = task  BY <2>1, <2>2
 <2>3. CASE task' = [task EXCEPT ![submitting].state = "waiting"]
  <3> DEFINE row == [task[submitting] EXCEPT !.state = "waiting"]
  <3>2. row \in Task  BY <2>1, <1>3 DEF Task
  <3>3. task' = [task EXCEPT ![submitting] = row]  BY <2>3
  <3> HIDE DEF row
  <3> QED BY <2>1, <3>2, <3>3, <1>3
 <2> QED BY <2>2, <2>3 DEF SubmitTask
<1>7. CurrentInv'  BY <1>1 DEF GenInv, CurrentInv, Busy, OffPhases, Exists
<1>8. ItemInv' /\ PermitsHeld' /\ WaitersInv'  BY <1>1, ItemsStay
<1>9. AttemptInv' /\ QueuedInv' /\ VerdictInv' /\ KeyInv'  BY <1>1, RowsStay DEF rowVars
<1>10. QueueInv'  BY <1>1 DEF GenInv, QueueInv, Exists, Started, Resumable
<1>11. TaskInv'  BY <1>1, <1>3, <1>4 DEF GenInv, TaskInv, Settled
<1> QED
  BY <1>7, <1>8, <1>9, <1>10, <1>11, <1>1, <1>4 DEF GenInv, TypeOK, PhaseInv,
    OffPhases, Exists

\* A retry opens the next round, which nothing has touched, with a key of its own.
LEMMA RetryKeeps ==
    ASSUME GenInv, NEW g \in Gens, NEW k \in Keys, Retry(g, k)
    PROVE  GenInv'
<1> DEFINE e == [op |-> "retry", key |-> k, gen |-> g]
<1>1. /\ phase = "up" /\ submitting = 0 /\ config = "with"
      /\ Exists(g) /\ gen[g].status \in Settled
      /\ \A d \in keys : ~(d.op = "retry" /\ d.key = k)
      /\ gen[g].round < MaxRound
      /\ gen' = [gen EXCEPT ![g].status = "queued", ![g].round = @ + 1]
      /\ keys' = keys \cup {e}
      /\ Enqueue(g)
      /\ UNCHANGED <<attempts, outputs, task, calls, current, item, permits, waiters>>
      /\ UNCHANGED <<phase, config, affected, submitting, restarts, publishes>>
  BY DEF Retry, Free, semaphore, process
<1>2. gen \in [Gens -> Generation]  BY DEF GenInv, TypeOK
<1>3. /\ gen' \in [Gens -> Generation]
      /\ gen'[g].by = gen[g].by /\ gen'[g].status = "queued" /\ gen'[g].round = gen[g].round + 1
      /\ \A h \in Gens : h # g => gen'[h] = gen[h]
 <2> DEFINE row == [gen[g] EXCEPT !.status = "queued", !.round = @ + 1]
 <2>1. gen[g] \in Generation  BY <1>2
 <2>2. gen[g].round + 1 \in Rounds  BY <2>1, <1>1, Numbers DEF Generation, Rounds
 <2>3. /\ row \in Generation /\ row.by = gen[g].by
       /\ row.round = gen[g].round + 1 /\ row.status = "queued"
   BY <2>1, <2>2 DEF Generation
 <2>4. gen' = [gen EXCEPT ![g] = row]  BY <1>1
 <2> HIDE DEF row
 <2> QED BY <1>2, <2>3, <2>4
<1>4. gen[g].round \in Nat /\ gen'[g].round \in Rounds  BY <1>2, <1>3 DEF Generation, Rounds
<1>5. \A h \in Gens : Exists(h)' <=> Exists(h)  BY <1>3 DEF Exists
<1>6. /\ queue' \in Seq(Gens)
      /\ \A n \in 1..Len(queue') :
            queue'[n] = g \/ \E m \in 1..Len(queue) : queue'[n] = queue[m]
      /\ \A n \in 1..Len(queue) : \E m \in 1..Len(queue') : queue'[m] = queue[n]
      /\ \E m \in 1..Len(queue') : queue'[m] = g
      /\ pump' = (IF pump = "idle" THEN "called" ELSE pump)
  BY <1>1, EnqueueIs DEF GenInv
<1>7. /\ ItemInv' /\ PermitsHeld' /\ WaitersInv'
      /\ pump' \in {"idle", "called", "refused", "awaiting", "resumed"} \ {"idle"}
      /\ Busy' <=> Busy
      /\ pump' = "refused" <=> pump = "refused"
  BY <1>1, <1>6, PumpedKeeps
<1>8. e \in IdempotencyKey /\ e \notin keys  BY <1>1 DEF IdempotencyKey
<1>9. TypeOK'  BY <1>1, <1>3, <1>6, <1>7, <1>8 DEF GenInv, TypeOK
<1>10. PhaseInv'
 <2> QED BY <1>1 DEF PhaseInv, OffPhases, GenInv
<1>11. gen[g].status # "running" /\ gen[g].status # "queued"  BY <1>1 DEF Settled
<1>12. CurrentInv'
 <2> QED BY <1>1, <1>5, <1>7, <1>3, <1>11 DEF GenInv, CurrentInv, OffPhases
<1>13. AttemptInv'
 <2> SUFFICES ASSUME NEW h \in Gens, NEW q \in Rounds, NEW j \in Items
              PROVE  AttemptSound(h, q, j)'
   BY DEF AttemptInv
 <2> SUFFICES /\ attempts[h][q][j] = "running" => q = gen'[h].round /\ gen'[h].status = "running"
              /\ calls[h][q][j] <= 1
              /\ calls[h][q][j] > 0 => attempts[h][q][j] # "none"
              /\ q > gen'[h].round => attempts[h][q][j] = "none"
              /\ attempts[h][q][j] = "succeeded" => [gen |-> h, round |-> q, item |-> j] \in outputs
   BY <1>1 DEF AttemptSound
 <2>1. /\ attempts[h][q][j] = "running" => q = gen[h].round /\ gen[h].status = "running"
       /\ calls[h][q][j] <= 1
       /\ calls[h][q][j] > 0 => attempts[h][q][j] # "none"
       /\ q > gen[h].round => attempts[h][q][j] = "none"
       /\ attempts[h][q][j] = "succeeded" => [gen |-> h, round |-> q, item |-> j] \in outputs
   BY DEF GenInv, AttemptInv, AttemptSound
 <2>2. CASE h = g
  <3>1. q \in Nat  BY DEF Rounds
  <3> QED BY <2>1, <2>2, <3>1, <1>3, <1>4, <1>11
 <2>3. CASE h # g  BY <2>1, <2>3, <1>3
 <2> QED BY <2>2, <2>3
<1>14. QueuedInv'
 <2> SUFFICES ASSUME NEW h \in Gens
              PROVE  /\ gen'[h].status = "queued" => \A i \in Items : attempts[h][gen'[h].round][i] = "none"
                     /\ ~(gen'[h].by # "nobody") => gen'[h].status = "queued" /\ gen'[h].round = 1
  <3>1. attempts' = attempts  BY <1>1
  <3> HIDE DEF e
  <3> QED BY <3>1 DEF QueuedInv, Exists
 <2>1. CASE h = g
  <3> DEFINE next == gen'[g].round
  <3>1. next \in Rounds /\ next > gen[g].round  BY <1>3, <1>4
  <3> HIDE DEF next
  <3>2. \A i \in Items : attempts[g][next][i] = "none"
    BY <3>1 DEF GenInv, AttemptInv, AttemptSound
  <3> QED BY <2>1, <3>2, <1>1, <1>3 DEF next, Exists
 <2>2. CASE h # g  BY <2>2, <1>3 DEF GenInv, QueuedInv, Exists
 <2> QED BY <2>1, <2>2
<1>15. VerdictInv'
 <2>1. ASSUME NEW h \in Gens PROVE Verdict(gen'[h].status, attempts[h][gen'[h].round])
  <3>1. CASE h = g  BY <3>1, <1>3 DEF Verdict
  <3>2. CASE h # g  BY <3>2, <1>3 DEF GenInv, VerdictInv, RoundOf
  <3> QED BY <3>1, <3>2
 <2> QED BY <2>1, <1>1 DEF VerdictInv, RoundOf
<1>16. KeyInv'
 <2> QED BY <1>1, <1>3, <1>4, <1>5, <1>8, KeyAdded, FS_CardinalityType DEF GenInv, KeyInv
<1>17. QueueInv'
 <2>1. ASSUME NEW n \in 1..Len(queue') PROVE queue'[n] \in Gens /\ gen'[queue'[n]].by # "nobody"
  <3>1. queue'[n] \in Gens  BY <1>6
  <3>3. CASE queue'[n] = g  BY <3>1, <3>3, <1>1, <1>3 DEF Exists
  <3>4. CASE queue'[n] # g
   <4>1. PICK m \in 1..Len(queue) : queue'[n] = queue[m]  BY <3>4, <1>6
   <4> QED BY <3>1, <4>1, <3>4, <1>3 DEF Exists, GenInv, QueueInv
  <3> QED BY <3>3, <3>4
 <2>2. \A h \in Gens : gen'[h].by # "nobody" /\ gen'[h].status = "queued" =>
           \E n \in 1..Len(queue') : queue'[n] = h
  <3> SUFFICES ASSUME NEW h \in Gens, gen'[h].by # "nobody", gen'[h].status = "queued"
               PROVE  \E n \in 1..Len(queue') : queue'[n] = h
    OBVIOUS
  <3>1. CASE h = g  BY <3>1, <1>6
  <3>2. CASE h # g
   <4> QED BY <1>6, <1>1, <3>2, <1>3 DEF GenInv, QueueInv, Started, Resumable, Exists
  <3> QED BY <3>1, <3>2
 <2> QED BY <2>1, <2>2, <1>7 DEF QueueInv, Exists, Resumable
<1>18. TaskInv'
 <2> QED BY <1>1, <1>3 DEF GenInv, TaskInv, Settled
<1> QED BY <1>7, <1>9, <1>10, <1>12, <1>13, <1>14, <1>15, <1>16, <1>17, <1>18 DEF GenInv

\* A publish wakes the worker.
LEMMA PublishKeeps ==
    ASSUME GenInv, NEW c \in {"none", "without", "with"}, Publish(c)
    PROVE  GenInv'
<1>1. /\ phase = "up" /\ submitting = 0 /\ publishes < MaxPublishes
      /\ publishes' = publishes + 1 /\ config' = c /\ pump' = Pumped
      /\ UNCHANGED <<gen, attempts, outputs, keys, task, calls>>
      /\ UNCHANGED <<queue, current, item, permits, waiters>>
      /\ UNCHANGED <<phase, affected, submitting, restarts>>
  BY DEF Publish, Free, database, semaphore
<1>2. /\ ItemInv' /\ PermitsHeld' /\ WaitersInv'
      /\ pump' \in {"idle", "called", "refused", "awaiting", "resumed"} \ {"idle"}
      /\ Busy' <=> Busy
      /\ pump' = "refused" <=> pump = "refused"
  BY <1>1, PumpedKeeps DEF Pumped
<1>3. TypeOK'
 <2> QED BY <1>1, <1>2, Numbers DEF GenInv, TypeOK
<1>6. AttemptInv' /\ QueuedInv' /\ VerdictInv' /\ KeyInv'  BY <1>1, RowsStay DEF rowVars
<1>7. QueueInv'  BY <1>1, <1>2 DEF GenInv, QueueInv, Exists, Started, Resumable
<1>8. TaskInv'  BY <1>1 DEF GenInv, TaskInv
<1> QED
  BY <1>2, <1>3, <1>6, <1>7, <1>8, <1>1 DEF GenInv, PhaseInv, OffPhases,
    Exists, CurrentInv

-----------------------------------------------------------------------------
(* The items of a round.                                                   *)

\* The items that hold a permit.
Holding(steps) == {i \in Items : steps[i] \notin {"idle", "waiting", "done"}}

\* There are finitely many of them.
LEMMA HoldingIsFinite ==
    ASSUME NEW steps
    PROVE  IsFiniteSet(Holding(steps)) /\ Cardinality(Holding(steps)) \in Nat
<1>1. IsFiniteSet(Items)  BY FS_Interval, Numbers DEF Items
<1> QED BY <1>1, FS_Subset, FS_CardinalityType DEF Holding

\* Only a round that is awaited has items.
LEMMA ItemAwaited ==
    ASSUME GenInv, NEW i \in Items, item[i] # "idle"
    PROVE  pump = "awaiting" /\ Busy
<1> QED BY DEF Busy, GenInv, ItemInv

\* The current generation runs, and its rows are the ones that a step may change.
LEMMA CurrentIs ==
    ASSUME GenInv, Busy
    PROVE  /\ current.gen \in Gens /\ current.round \in Rounds
           /\ Exists(current.gen) /\ gen[current.gen].status = "running"
           /\ gen[current.gen].round = current.round
           /\ phase \notin OffPhases /\ affected = {}
<1>2. phase \notin OffPhases  BY OffIsIdle
<1> QED BY <1>2 DEF GenInv, CurrentInv, TypeOK, PhaseInv, OffPhases

\* The release of a permit: it goes to the first that waits, or back.
LEMMA ReleaseIs ==
    ASSUME GenInv, NEW i \in Items, item[i] \notin {"idle", "waiting", "done"},
           ReleaseFrom(i, "done")
    PROVE  /\ item' \in [Items -> ItemSteps] /\ permits' \in 0..Concurrency
           /\ waiters' \in Seq(Items)
           /\ PermitsHeld' /\ WaitersInv'
           /\ item'[i] = "done"
           /\ \A j \in Items : j # i =>
                 item'[j] = item[j] \/ (item[j] = "waiting" /\ item'[j] = "granted")
<1>1. item \in [Items -> ItemSteps] /\ waiters \in Seq(Items) /\ permits \in 0..Concurrency
  BY DEF GenInv, TypeOK
<1>2. permits + Cardinality(Holding(item)) = Concurrency  BY DEF GenInv, PermitsHeld, Holding
<1>3. WaitersInv  BY DEF GenInv
<1>4. "done" \in ItemSteps /\ "granted" \in ItemSteps  BY DEF ItemSteps
<1>6. IsFiniteSet(Holding(item)) /\ Cardinality(Holding(item)) \in Nat  BY HoldingIsFinite
<1>7. IsFiniteSet(Holding(item) \ {i})
      /\ Cardinality(Holding(item) \ {i}) = Cardinality(Holding(item)) - 1
  BY <1>6, FS_RemoveElement DEF Holding
<1>8. CASE waiters # <<>>
 <2> DEFINE h == Head(waiters)
 <2>1. /\ item' = [item EXCEPT ![i] = "done", ![h] = "granted"]
       /\ waiters' = Tail(waiters) /\ permits' = permits
   BY <1>8 DEF ReleaseFrom
 <2>2. h = waiters[1] /\ 1 \in 1..Len(waiters) /\ h \in Items  BY <1>1, <1>8
 <2>3. item[h] = "waiting"  BY <2>2, <1>3 DEF WaitersInv
 <2> HIDE DEF h
 <2>4. h # i  BY <2>3
 <2>5. /\ item' \in [Items -> ItemSteps]
       /\ item'[i] = "done" /\ item'[h] = "granted"
       /\ \A j \in Items : j # i /\ j # h => item'[j] = item[j]
   BY <1>1, <1>4, <2>1, <2>2, <2>4
 <2>6. Holding(item') = (Holding(item) \ {i}) \cup {h}  BY <2>2, <2>5 DEF Holding
 <2>8. Cardinality(Holding(item')) = Cardinality(Holding(item))
  <3> QED BY <2>6, <1>6, <1>7, FS_AddElement, <2>3 DEF Holding
 <2>10. /\ waiters' \in Seq(Items) /\ Len(waiters') = Len(waiters) - 1
        /\ \A n \in 1..Len(waiters') : n + 1 \in 1..Len(waiters) /\ waiters'[n] = waiters[n + 1]
   BY <1>1, <1>8, <2>1
 <2>11. ASSUME NEW n \in 1..Len(waiters')
        PROVE waiters'[n] \in Items /\ waiters'[n] # h /\ waiters'[n] # i
              /\ item[waiters'[n]] = "waiting"
  <3>1. n + 1 \in 1..Len(waiters) /\ waiters'[n] = waiters[n + 1] /\ n + 1 # 1  BY <2>10
  <3> QED BY <3>1, <2>2, <1>1, <1>3 DEF WaitersInv
 <2>12. WaitersInv'
  <3>2. \A m, n \in 1..Len(waiters') : waiters'[m] = waiters'[n] => m = n
   <4> SUFFICES ASSUME NEW m \in 1..Len(waiters'), NEW n \in 1..Len(waiters'),
                       waiters'[m] = waiters'[n]
                PROVE  m = n
     OBVIOUS
   <4> QED BY <1>3, <2>10 DEF WaitersInv
  <3> QED BY <3>2, <2>5, <2>11 DEF WaitersInv
 <2> QED BY <1>1, <2>1, <2>3, <2>5, <2>10, <2>12, <1>2, <2>8 DEF PermitsHeld, Holding
<1>9. CASE waiters = <<>>
 <2>1. /\ item' = [item EXCEPT ![i] = "done"]
       /\ waiters' = waiters /\ permits' = permits + 1
   BY <1>9 DEF ReleaseFrom
 <2>2. /\ item' \in [Items -> ItemSteps] /\ item'[i] = "done"
       /\ \A j \in Items : j # i => item'[j] = item[j]
   BY <1>1, <1>4, <2>1
 <2>4. PermitsHeld' /\ permits' \in 0..Concurrency
  <3>1. Cardinality(Holding(item')) = Cardinality(Holding(item)) - 1  BY <1>7, <2>2 DEF Holding
  <3>2. Cardinality(Holding(item')) \in Nat  BY HoldingIsFinite
  <3>3. permits' + Cardinality(Holding(item')) = Concurrency  BY <1>1, <1>2, <1>6, <2>1, <3>1
  <3> QED BY <3>2, <3>3, <2>1, <1>1, Numbers DEF PermitsHeld, Holding
 <2> QED BY <1>1, <2>1, <2>2, <2>4, <1>9 DEF WaitersInv
<1> QED BY <1>8, <1>9

\* One item moves on, and with it at most its own attempt, call and picture.
LEMMA ItemStepKeeps ==
    ASSUME GenInv, pump = "awaiting", NEW i \in Items, NEW a \in AttemptStatus,
           UNCHANGED <<gen, keys, task, queue, pump, current, phase, config, affected,
                       submitting, restarts, publishes>>,
           attempts' \in [Gens -> [Rounds -> [Items -> AttemptStatus]]],
           attempts'[current.gen][current.round][i] = a,
           \A h \in Gens, q \in Rounds, j \in Items :
               <<h, q, j>> # <<current.gen, current.round, i>> => attempts'[h][q][j] = attempts[h][q][j],
           calls' \in [Gens -> [Rounds -> [Items -> Nat]]],
           calls'[current.gen][current.round][i] <= 1,
           calls'[current.gen][current.round][i] > 0 => a # "none",
           \A h \in Gens, q \in Rounds, j \in Items :
               <<h, q, j>> # <<current.gen, current.round, i>> => calls'[h][q][j] = calls[h][q][j],
           outputs \subseteq outputs', outputs' \subseteq Output,
           a = "succeeded" \/ item'[i] = "succeeded" =>
               [gen |-> current.gen, round |-> current.round, item |-> i] \in outputs',
           item' \in [Items -> ItemSteps], permits' \in 0..Concurrency, waiters' \in Seq(Items),
           \A j \in Items : j # i =>
               item'[j] = item[j] \/ (item[j] = "waiting" /\ item'[j] = "granted"),
           item'[i] # "idle", a = "running" <=> item'[i] \in Flying,
           item'[i] \in {"waiting", "granted"} => a = "none",
           item'[i] = "done" /\ phase # "stopping" => a # "none",
           PermitsHeld', WaitersInv'
    PROVE  GenInv'
<1> DEFINE cg == current.gen
           cr == current.round
<1>1. Busy  BY DEF Busy
<1>2. /\ cg \in Gens /\ cr \in Rounds
      /\ Exists(cg) /\ gen[cg].status = "running"
      /\ gen[cg].round = cr
      /\ phase \notin OffPhases /\ affected = {}
  BY <1>1, CurrentIs
<1>5. CurrentInv'  BY DEF GenInv, CurrentInv, OffPhases, Exists, Busy
<1>6. ItemInv'
 <2>1. ASSUME NEW j \in Items
       PROVE  /\ item'[j] # "idle"
              /\ attempts'[cg][cr][j] = "running" <=> item'[j] \in Flying
              /\ item'[j] \in {"waiting", "granted"} => attempts'[cg][cr][j] = "none"
              /\ item'[j] = "succeeded" => [gen |-> cg, round |-> cr, item |-> j] \in outputs'
              /\ item'[j] = "done" /\ phase # "stopping" => attempts'[cg][cr][j] # "none"
  <3>1. CASE j = i  BY <3>1
  <3>2. CASE j # i
   <4>1. attempts'[cg][cr][j] = attempts[cg][cr][j]  BY <3>2, <1>2
   <4>2. /\ item[j] # "idle"
         /\ attempts[cg][cr][j] = "running" <=> item[j] \in Flying
         /\ item[j] \in {"waiting", "granted"} => attempts[cg][cr][j] = "none"
         /\ item[j] = "succeeded" => [gen |-> cg, round |-> cr, item |-> j] \in outputs
         /\ item[j] = "done" /\ phase # "stopping" => attempts[cg][cr][j] # "none"
     BY DEF GenInv, ItemInv
   <4>3. CASE item'[j] = item[j]  BY <4>1, <4>2, <4>3
   <4>4. CASE item[j] = "waiting" /\ item'[j] = "granted"
     BY <4>1, <4>2, <4>4 DEF Flying, ItemOutcomes
   <4> QED BY <3>2, <4>3, <4>4
  <3> QED BY <3>1, <3>2
 <2> QED BY <2>1 DEF ItemInv
<1>7. AttemptInv'
 <2> SUFFICES ASSUME NEW h \in Gens, NEW q \in Rounds, NEW j \in Items
              PROVE  AttemptSound(h, q, j)'
   BY DEF AttemptInv
 <2> SUFFICES /\ attempts'[h][q][j] = "running" => q = gen[h].round /\ gen[h].status = "running"
              /\ calls'[h][q][j] <= 1
              /\ calls'[h][q][j] > 0 => attempts'[h][q][j] # "none"
              /\ q > gen[h].round => attempts'[h][q][j] = "none"
              /\ attempts'[h][q][j] = "succeeded" => [gen |-> h, round |-> q, item |-> j] \in outputs'
   BY DEF AttemptSound
 <2>1. /\ attempts[h][q][j] = "running" => q = gen[h].round /\ gen[h].status = "running"
       /\ calls[h][q][j] <= 1
       /\ calls[h][q][j] > 0 => attempts[h][q][j] # "none"
       /\ q > gen[h].round => attempts[h][q][j] = "none"
       /\ attempts[h][q][j] = "succeeded" => [gen |-> h, round |-> q, item |-> j] \in outputs
   BY DEF GenInv, AttemptInv, AttemptSound
 <2>2. CASE <<h, q, j>> = <<cg, cr, i>>
  <3> QED BY <1>2, <2>2 DEF Rounds
 <2>3. CASE <<h, q, j>> # <<cg, cr, i>>  BY <2>1, <2>3
 <2> QED BY <2>2, <2>3
<1>8. \A h \in Gens : h # cg => attempts'[h][gen[h].round] = attempts[h][gen[h].round]
 <2> SUFFICES ASSUME NEW h \in Gens, h # cg
              PROVE  attempts'[h][gen[h].round] = attempts[h][gen[h].round]
   OBVIOUS
 <2>1. gen[h].round \in Rounds /\ attempts \in [Gens -> [Rounds -> [Items -> AttemptStatus]]]
   BY DEF GenInv, TypeOK, Generation
 <2>4. \A j \in Items : attempts'[h][gen[h].round][j] = attempts[h][gen[h].round][j]  BY <2>1
 <2> DEFINE new == attempts'[h][gen[h].round]
            old == attempts[h][gen[h].round]
 <2>5. new \in [Items -> AttemptStatus] /\ old \in [Items -> AttemptStatus]
       /\ \A j \in Items : new[j] = old[j]
   BY <2>4, <2>1
 <2> HIDE DEF new, old
 <2>6. new = old  BY ONLY <2>5
 <2> QED BY <2>6 DEF new, old
<1>9. QueuedInv'
 <2>1. ASSUME NEW h \in Gens
       PROVE  /\ gen[h].status = "queued" => \A j \in Items : attempts'[h][gen[h].round][j] = "none"
              /\ ~(gen[h].by # "nobody") => gen[h].status = "queued" /\ gen[h].round = 1
  <3>1. /\ gen[h].status = "queued" => \A j \in Items : attempts[h][gen[h].round][j] = "none"
        /\ ~(gen[h].by # "nobody") => gen[h].status = "queued" /\ gen[h].round = 1
    BY DEF GenInv, QueuedInv, Exists
  <3>2. CASE h = cg  BY <3>1, <3>2, <1>2
  <3>3. CASE h # cg  BY <3>1, <3>3, <1>8
  <3> QED BY <3>2, <3>3
 <2> QED BY <2>1 DEF QueuedInv, Exists
<1>10. VerdictInv'
 <2>1. ASSUME NEW h \in Gens PROVE Verdict(gen[h].status, attempts'[h][gen[h].round])
  <3>1. CASE h = cg  BY <3>1, <1>2 DEF Verdict
  <3>2. CASE h # cg  BY <3>2, <1>8 DEF GenInv, VerdictInv, RoundOf
  <3> QED BY <3>1, <3>2
 <2> QED BY <2>1 DEF VerdictInv, RoundOf
<1>11. KeyInv'  BY DEF GenInv, KeyInv, KeysOf, Exists
<1>12. QueueInv'  BY DEF GenInv, QueueInv, Exists, Started, Resumable
<1>13. TaskInv'  BY DEF GenInv, TaskInv
<1> QED
  BY <1>5, <1>6, <1>7, <1>9, <1>10, <1>11, <1>12, <1>13, <1>2 DEF GenInv,
    TypeOK, PhaseInv, OffPhases, Exists

\* An item that holds a permit and keeps it.
LEMMA StepInHand ==
    ASSUME GenInv, NEW i \in Items, NEW s \in ItemSteps \ {"idle", "waiting", "done"},
           item[i] \notin {"idle", "waiting", "done"},
           item' = [item EXCEPT ![i] = s], UNCHANGED <<permits, waiters>>
    PROVE  /\ item' \in [Items -> ItemSteps] /\ permits' \in 0..Concurrency
           /\ waiters' \in Seq(Items)
           /\ PermitsHeld' /\ WaitersInv' /\ item'[i] = s
           /\ \A j \in Items : j # i =>
                 item'[j] = item[j] \/ (item[j] = "waiting" /\ item'[j] = "granted")
<1>1. item \in [Items -> ItemSteps] /\ waiters \in Seq(Items) /\ permits \in 0..Concurrency
  BY DEF GenInv, TypeOK
<1>2. /\ item' \in [Items -> ItemSteps] /\ item'[i] = s
      /\ \A j \in Items : j # i => item'[j] = item[j]
  BY <1>1
<1>5. WaitersInv'
 <2> QED BY <1>2, <1>1 DEF GenInv, WaitersInv
<1> QED BY <1>1, <1>2, <1>5 DEF GenInv, PermitsHeld, Holding

\* What is known of an item in hand.
LEMMA ItemIs ==
    ASSUME GenInv, NEW i \in Items, item[i] # "idle"
    PROVE  /\ pump = "awaiting" /\ Busy
           /\ current.gen \in Gens /\ current.round \in Rounds
           /\ attempts \in [Gens -> [Rounds -> [Items -> AttemptStatus]]]
           /\ calls \in [Gens -> [Rounds -> [Items -> Nat]]]
           /\ outputs \subseteq Output
           /\ attempts[current.gen][current.round][i] \in AttemptStatus
           /\ calls[current.gen][current.round][i] \in Nat
           /\ calls[current.gen][current.round][i] <= 1
           /\ calls[current.gen][current.round][i] > 0 =>
                 attempts[current.gen][current.round][i] # "none"
           /\ attempts[current.gen][current.round][i] = "running" <=> item[i] \in Flying
           /\ item[i] \in {"waiting", "granted"} => attempts[current.gen][current.round][i] = "none"
           /\ item[i] = "succeeded" =>
                 [gen |-> current.gen, round |-> current.round, item |-> i] \in outputs
           /\ attempts[current.gen][current.round][i] = "succeeded" =>
                 [gen |-> current.gen, round |-> current.round, item |-> i] \in outputs
<1>1. pump = "awaiting" /\ Busy  BY ItemAwaited
<1>2. current.gen \in Gens /\ current.round \in Rounds  BY <1>1, CurrentIs
<1>5. AttemptInv /\ ItemInv  BY DEF GenInv
<1>6. /\ calls[current.gen][current.round][i] <= 1
      /\ calls[current.gen][current.round][i] > 0 =>
            attempts[current.gen][current.round][i] # "none"
      /\ attempts[current.gen][current.round][i] = "succeeded" =>
            [gen |-> current.gen, round |-> current.round, item |-> i] \in outputs
  BY <1>2, <1>5 DEF AttemptInv, AttemptSound
<1>7. /\ attempts[current.gen][current.round][i] = "running" <=> item[i] \in Flying
      /\ item[i] \in {"waiting", "granted"} => attempts[current.gen][current.round][i] = "none"
      /\ item[i] = "succeeded" =>
            [gen |-> current.gen, round |-> current.round, item |-> i] \in outputs
  BY <1>1, <1>5 DEF ItemInv
<1> QED BY <1>1, <1>2, <1>6, <1>7 DEF GenInv, TypeOK

\* Nothing is sent once the worker stops.
LEMMA SkipItemKeeps ==
    ASSUME GenInv, NEW i \in Items, SkipItem(i)
    PROVE  GenInv'
<1>1. /\ item[i] = "granted" /\ phase = "stopping" /\ ReleaseFrom(i, "done")
      /\ UNCHANGED <<gen, attempts, outputs, keys, task, calls>>
      /\ UNCHANGED <<queue, pump, current>>
      /\ UNCHANGED <<phase, config, affected, submitting, restarts, publishes>>
  BY DEF SkipItem, database, process
<1> DEFINE a == attempts[current.gen][current.round][i]
<1>4. "done" \notin Flying  BY DEF Flying, ItemOutcomes
<1>5. attempts'[current.gen][current.round][i] = a  BY <1>1
<1> HIDE DEF a
<1> QED BY <1>1, <1>4, <1>5, ItemStepKeeps, ReleaseIs, ItemIs

\* The attempt is recorded, and then the provider is called: the first time.
LEMMA StartItemKeeps ==
    ASSUME GenInv, NEW i \in Items, NEW readable \in BOOLEAN, StartItem(i, readable)
    PROVE  GenInv'
<1> DEFINE s == IF readable THEN "calling" ELSE "failed"
           n == calls[current.gen][current.round][i] + 1
<1>1. /\ item[i] = "granted" /\ phase # "stopping"
      /\ UNCHANGED <<gen, outputs, keys, task>>
      /\ UNCHANGED <<queue, pump, current>>
      /\ UNCHANGED <<phase, config, affected, submitting, restarts, publishes>>
  BY DEF StartItem, process
<1>2. /\ pump = "awaiting"
      /\ current.gen \in Gens /\ current.round \in Rounds
      /\ attempts[current.gen][current.round][i] = "none"
      /\ calls[current.gen][current.round][i] = 0
      /\ attempts \in [Gens -> [Rounds -> [Items -> AttemptStatus]]]
      /\ calls \in [Gens -> [Rounds -> [Items -> Nat]]]
      /\ outputs \subseteq Output
 <2>1. calls[current.gen][current.round][i] \in Nat /\ ~(calls[current.gen][current.round][i] > 0)
   BY <1>1, ItemIs
 <2>2. calls[current.gen][current.round][i] = 0  BY <2>1
 <2> QED BY <1>1, <2>2, ItemIs
<1>3. /\ attempts' = [attempts EXCEPT ![current.gen][current.round][i] = "running"]
      /\ item' = [item EXCEPT ![i] = s]
      /\ UNCHANGED <<permits, waiters>>
  BY <1>2 DEF StartItem, semaphore
<1>5. s \in ItemSteps \ {"idle", "waiting", "done"} /\ s \in Flying /\ s # "succeeded"
      /\ s \notin {"waiting", "granted"}
  BY DEF ItemSteps, Flying, ItemOutcomes
<1> HIDE DEF s
<1>6. /\ item' \in [Items -> ItemSteps] /\ permits' \in 0..Concurrency
      /\ waiters' \in Seq(Items)
      /\ PermitsHeld' /\ WaitersInv' /\ item'[i] = s
      /\ \A j \in Items : j # i =>
            item'[j] = item[j] \/ (item[j] = "waiting" /\ item'[j] = "granted")
  BY <1>1, <1>3, <1>5, StepInHand
<1>7. "running" \in AttemptStatus  BY DEF AttemptStatus
<1>8. /\ attempts' \in [Gens -> [Rounds -> [Items -> AttemptStatus]]]
      /\ attempts'[current.gen][current.round][i] = "running"
      /\ \A h \in Gens, q \in Rounds, j \in Items :
            <<h, q, j>> # <<current.gen, current.round, i>> => attempts'[h][q][j] = attempts[h][q][j]
  BY <1>2, <1>3, <1>7, AttemptUpdate
<1>9. /\ calls' \in [Gens -> [Rounds -> [Items -> Nat]]]
      /\ calls'[current.gen][current.round][i] <= 1
      /\ \A h \in Gens, q \in Rounds, j \in Items :
            <<h, q, j>> # <<current.gen, current.round, i>> => calls'[h][q][j] = calls[h][q][j]
 <2>1. CASE calls' = calls  BY <1>2, <2>1
 <2>2. CASE calls' = [calls EXCEPT ![current.gen][current.round][i] = n]
  <3>1. n = 1  BY <1>2
  <3> HIDE DEF n
  <3> QED BY <3>1, <1>2, <2>2, CallUpdate
 <2> QED BY <2>1, <2>2, <1>2 DEF StartItem
<1> HIDE DEF n
<1> QED BY <1>1, <1>2, <1>5, <1>6, <1>7, <1>8, <1>9, ItemStepKeeps

\* The provider answers.
LEMMA ProviderAnswersKeeps ==
    ASSUME GenInv, NEW i \in Items, NEW answer \in {"image", "failed", "interrupted"},
           ProviderAnswers(i, answer)
    PROVE  GenInv'
<1>1. /\ item[i] = "calling" /\ item' = [item EXCEPT ![i] = answer]
      /\ UNCHANGED <<gen, attempts, outputs, keys, task, calls>>
      /\ UNCHANGED <<queue, pump, current, permits, waiters>>
      /\ UNCHANGED <<phase, config, affected, submitting, restarts, publishes>>
  BY DEF ProviderAnswers, database, process, semaphore
<1>4. "calling" \in Flying /\ "running" \in AttemptStatus  BY DEF Flying, AttemptStatus
<1>5. /\ pump = "awaiting"
      /\ attempts[current.gen][current.round][i] = "running"
      /\ calls[current.gen][current.round][i] <= 1
      /\ attempts \in [Gens -> [Rounds -> [Items -> AttemptStatus]]]
      /\ calls \in [Gens -> [Rounds -> [Items -> Nat]]]
      /\ outputs \subseteq Output
  BY <1>1, <1>4, ItemIs
<1> QED BY <1>1, <1>4, <1>5, ItemStepKeeps, StepInHand DEF ItemSteps, Flying, ItemOutcomes

\* A picture is stored, or refused.
LEMMA StoreOutputKeeps ==
    ASSUME GenInv, NEW i \in Items, NEW stored \in BOOLEAN, StoreOutput(i, stored)
    PROVE  GenInv'
<1> DEFINE picture == [gen |-> current.gen, round |-> current.round, item |-> i]
           s == IF stored THEN "succeeded" ELSE "failed"
<1>1. /\ item[i] = "image" /\ item' = [item EXCEPT ![i] = s]
      /\ outputs' = IF stored THEN outputs \cup {picture} ELSE outputs
      /\ UNCHANGED <<gen, attempts, keys, task, calls>>
      /\ UNCHANGED <<queue, pump, current, permits, waiters>>
      /\ UNCHANGED <<phase, config, affected, submitting, restarts, publishes>>
  BY DEF StoreOutput, process, semaphore
<1>2. s \in ItemSteps \ {"idle", "waiting", "done"} /\ s \in Flying
      /\ s \notin {"waiting", "granted"}
  BY DEF ItemSteps, Flying, ItemOutcomes
<1>3. "image" \in Flying /\ "running" \in AttemptStatus  BY DEF Flying, AttemptStatus
<1>4. /\ pump = "awaiting" /\ current.gen \in Gens /\ current.round \in Rounds
      /\ attempts[current.gen][current.round][i] = "running"
      /\ calls[current.gen][current.round][i] <= 1
      /\ attempts \in [Gens -> [Rounds -> [Items -> AttemptStatus]]]
      /\ calls \in [Gens -> [Rounds -> [Items -> Nat]]]
      /\ outputs \subseteq Output
  BY <1>1, <1>3, ItemIs
<1>6. /\ outputs \subseteq outputs' /\ outputs' \subseteq Output
      /\ s = "succeeded" => picture \in outputs'
  BY <1>1, <1>4 DEF Output
<1> HIDE DEF s
<1> QED BY <1>1, <1>2, <1>3, <1>4, <1>6, ItemStepKeeps, StepInHand

\* The outcome is recorded, and the permit given back.
LEMMA RecordAttemptKeeps ==
    ASSUME GenInv, NEW i \in Items, RecordAttempt(i)
    PROVE  GenInv'
<1> DEFINE a == item[i]
<1>1. /\ item[i] \in ItemOutcomes /\ ReleaseFrom(i, "done")
      /\ attempts' = [attempts EXCEPT ![current.gen][current.round][i] = a]
      /\ UNCHANGED <<gen, outputs, keys, task, calls>>
      /\ UNCHANGED <<queue, pump, current>>
      /\ UNCHANGED <<phase, config, affected, submitting, restarts, publishes>>
  BY DEF RecordAttempt, process
<1>2. item[i] \notin {"idle", "waiting", "done"} /\ item[i] \in Flying
  BY <1>1 DEF ItemOutcomes, Flying
<1>3. /\ item' \in [Items -> ItemSteps] /\ permits' \in 0..Concurrency
      /\ waiters' \in Seq(Items)
      /\ PermitsHeld' /\ WaitersInv'
      /\ item'[i] = "done"
      /\ \A j \in Items : j # i =>
            item'[j] = item[j] \/ (item[j] = "waiting" /\ item'[j] = "granted")
  BY <1>1, <1>2, ReleaseIs
<1>4. /\ pump = "awaiting" /\ current.gen \in Gens /\ current.round \in Rounds
      /\ calls[current.gen][current.round][i] <= 1
      /\ attempts \in [Gens -> [Rounds -> [Items -> AttemptStatus]]]
      /\ calls \in [Gens -> [Rounds -> [Items -> Nat]]]
      /\ outputs \subseteq Output
      /\ a = "succeeded" =>
            [gen |-> current.gen, round |-> current.round, item |-> i] \in outputs
  BY <1>2, ItemIs
<1>5. a \in AttemptStatus /\ a # "none" /\ a # "running"
  BY <1>1 DEF AttemptStatus, ItemOutcomes
<1> HIDE DEF a
<1>6. /\ attempts' \in [Gens -> [Rounds -> [Items -> AttemptStatus]]]
      /\ attempts'[current.gen][current.round][i] = a
      /\ \A h \in Gens, q \in Rounds, j \in Items :
            <<h, q, j>> # <<current.gen, current.round, i>> => attempts'[h][q][j] = attempts[h][q][j]
  BY <1>1, <1>4, <1>5, AttemptUpdate
<1>8. UNCHANGED <<gen, keys, task, queue, pump, current, phase, config, affected,
                  submitting, restarts, publishes, outputs, calls>>
  BY <1>1
<1>9. calls \in [Gens -> [Rounds -> [Items -> Nat]]]  BY DEF GenInv, TypeOK
<1> QED BY <1>3, <1>4, <1>5, <1>6, <1>8, <1>9, ItemStepKeeps DEF Flying, ItemOutcomes

-----------------------------------------------------------------------------
(* The worker between the rounds.                                          *)

\* The pump runs between two rounds only.
LEMMA PumpBetweenRounds ==
    ASSUME GenInv, PumpRuns
    PROVE  /\ pump \in {"called", "resumed"} /\ ~Busy /\ current.gen = 0
           /\ item = [i \in Items |-> "idle"] /\ permits = Concurrency /\ waiters = <<>>
           /\ phase \notin OffPhases
<1>1. pump \in {"called", "resumed"}  BY DEF PumpRuns
<1> QED BY <1>1, Idle, OffIsIdle DEF Busy, GenInv, CurrentInv

\* The pump ends when nothing can be done.
LEMMA PumpStopsKeeps ==
    ASSUME GenInv, PumpStops
    PROVE  GenInv'
<1>1. pump \in {"called", "resumed"} /\ ~Busy /\ current.gen = 0
  BY PumpBetweenRounds DEF PumpStops
<1>3. pump' = "idle"  BY DEF PumpStops
<1>4. UNCHANGED <<gen, attempts, outputs, keys, task, calls, queue, current, item, permits,
                  waiters, phase, config, affected, submitting, restarts, publishes>>
  BY DEF PumpStops, database, semaphore, process
<1>7. CurrentInv'  BY <1>1, <1>3, <1>4 DEF GenInv, CurrentInv, Busy, OffPhases, Exists
<1>8. ItemInv' /\ PermitsHeld' /\ WaitersInv'  BY <1>1, <1>3, <1>4, ItemsStay DEF Busy
<1>9. AttemptInv' /\ QueuedInv' /\ VerdictInv' /\ KeyInv'  BY <1>4, RowsStay DEF rowVars
<1>10. QueueInv'  BY <1>3, <1>4 DEF GenInv, QueueInv, Exists, Started, Resumable, PumpStops
<1>11. TaskInv'  BY <1>4 DEF GenInv, TaskInv
<1> QED
  BY <1>7, <1>8, <1>9, <1>10, <1>11, <1>3, <1>4 DEF GenInv, TypeOK, PhaseInv,
    OffPhases, Exists

\* The head leaves the queue; the others that are queued stay in it.
LEMMA TailIs ==
    ASSUME GenInv, queue # <<>>, queue' = Tail(queue)
    PROVE  /\ queue' \in Seq(Gens) /\ Head(queue) \in Gens /\ Exists(Head(queue))
           /\ \A n \in 1..Len(queue') : queue'[n] \in Gens /\ Exists(queue'[n])
           /\ Started => \A g \in Resumable : g # Head(queue) => \E n \in 1..Len(queue') : queue'[n] = g
<1>1. queue \in Seq(Gens) /\ \A n \in 1..Len(queue) : Exists(queue[n])
  BY DEF GenInv, TypeOK, QueueInv
<1>2. /\ queue' \in Seq(Gens) /\ Len(queue') = Len(queue) - 1
      /\ \A n \in 1..Len(queue') : n + 1 \in 1..Len(queue) /\ queue'[n] = queue[n + 1]
      /\ \A n \in 1..Len(queue) : n # 1 => n - 1 \in 1..Len(queue') /\ queue'[n - 1] = queue[n]
      /\ Head(queue) = queue[1] /\ 1 \in 1..Len(queue) /\ Head(queue) \in Gens
  BY <1>1, TailKeeps
<1>5. ASSUME Started, NEW g \in Resumable, g # Head(queue)
      PROVE  \E n \in 1..Len(queue') : queue'[n] = g
 <2>1. PICK n \in 1..Len(queue) : queue[n] = g  BY <1>5 DEF GenInv, QueueInv
 <2> QED BY <2>1, <1>2, <1>5
<1> QED BY <1>2, <1>5, <1>1

\* Every item of a new round gets a permit or waits for one.
LEMMA AcquireIs ==
    ASSUME GenInv, permits = Concurrency, AcquireAll
    PROVE  /\ item' \in [Items -> ItemSteps] /\ permits' \in 0..Concurrency
           /\ waiters' \in Seq(Items)
           /\ PermitsHeld' /\ WaitersInv'
           /\ \A i \in Items : item'[i] \in {"granted", "waiting"}
<1>1. OutputCount \in Nat /\ Concurrency \in Nat  BY Numbers
<1>2. item' = [i \in Items |-> IF i <= permits THEN "granted" ELSE "waiting"]  BY DEF AcquireAll
<1>3. \A i \in Items : item'[i] = (IF i <= Concurrency THEN "granted" ELSE "waiting")  BY <1>2
<1>4. item' \in [Items -> ItemSteps]  BY <1>2 DEF ItemSteps
<1>5. waiters' = [n \in 1..(OutputCount - permits) |-> n + permits]  BY DEF AcquireAll
<1>6. permits' = IF OutputCount < permits THEN permits - OutputCount ELSE 0  BY DEF AcquireAll
<1>7. Holding(item') = {i \in Items : i <= Concurrency}  BY <1>3 DEF Holding
<1>8. CASE OutputCount < Concurrency
 <2>1. Holding(item') = 1..OutputCount  BY <1>1, <1>7, <1>8 DEF Items
 <2>2. Cardinality(Holding(item')) = OutputCount
  <3> QED BY <2>1, <1>1, FS_Interval
 <2>5. waiters' = <<>>  BY <1>1, <1>5, <1>8
 <2>6. waiters' \in Seq(Items) /\ WaitersInv'  BY <2>5 DEF WaitersInv
 <2> QED BY <1>3, <1>4, <2>6, <1>1, <1>8, <2>2, <1>6 DEF PermitsHeld, Holding
<1>9. CASE ~(OutputCount < Concurrency)
 <2>1. Holding(item') = 1..Concurrency  BY <1>1, <1>7, <1>9 DEF Items
 <2>2. Cardinality(Holding(item')) = Concurrency
  <3> QED BY <2>1, <1>1, FS_Interval
 <2>3. permits' = 0  BY <1>6, <1>9
 <2> DEFINE m == OutputCount - Concurrency
 <2>5. m \in Nat  BY <1>1, <1>9
 <2>6. \A n \in 1..m : n + Concurrency \in Items /\ n + Concurrency > Concurrency
   BY <1>1, <1>9 DEF Items
 <2>8. waiters' \in Seq(Items) /\ Len(waiters') = m
       /\ \A n \in 1..m : waiters'[n] = n + Concurrency
   BY <2>5, <2>6, <1>5
 <2> HIDE DEF m
 <2>9. WaitersInv'
  <3>1. ASSUME NEW n \in 1..m PROVE item'[waiters'[n]] = "waiting"
   <4> QED BY <1>3, <2>8, <1>1, <2>5, <2>6
  <3> QED BY <2>8, <3>1, <1>1, <2>5 DEF WaitersInv
 <2> QED BY <1>3, <1>4, <2>8, <2>9, <1>1, <2>2, <2>3 DEF PermitsHeld, Holding
<1> QED BY <1>8, <1>9

\* The next generation is claimed, if it is still queued.
LEMMA RunGenerationKeeps ==
    ASSUME GenInv, RunGeneration
    PROVE  GenInv'
<1> DEFINE g == Head(queue)
<1>1. /\ PumpRuns /\ Started /\ config # "none" /\ queue # <<>>
      /\ queue' = Tail(queue)
      /\ UNCHANGED <<attempts, outputs, keys, task, calls>>
      /\ UNCHANGED <<phase, config, affected, submitting, restarts, publishes>>
  BY DEF RunGeneration, process
<1>2. /\ pump \in {"called", "resumed"} /\ ~Busy /\ current.gen = 0
      /\ item = [i \in Items |-> "idle"] /\ permits = Concurrency /\ waiters = <<>>
      /\ phase \notin OffPhases
  BY <1>1, PumpBetweenRounds
<1>3. /\ queue' \in Seq(Gens) /\ g \in Gens /\ Exists(g)
      /\ \A n \in 1..Len(queue') : queue'[n] \in Gens /\ Exists(queue'[n])
      /\ \A h \in Resumable : h # g => \E n \in 1..Len(queue') : queue'[n] = h
  BY <1>1, TailIs
<1>4. CASE gen[g].status # "queued"
 <2>1. pump' = "resumed" /\ UNCHANGED <<gen, current, item, permits, waiters>>
   BY <1>4 DEF RunGeneration, semaphore
 <2>4. CurrentInv'  BY <1>1, <1>2, <2>1 DEF GenInv, CurrentInv, Busy, OffPhases, Exists
 <2>5. ItemInv' /\ PermitsHeld' /\ WaitersInv'  BY <1>1, <1>2, <2>1, ItemsStay DEF Busy
 <2>6. AttemptInv' /\ QueuedInv' /\ VerdictInv' /\ KeyInv'  BY <1>1, <2>1, RowsStay DEF rowVars
 <2>7. QueueInv'
  <3>4. \A n \in 1..Len(queue') : gen[queue'[n]].by # "nobody"  BY <1>3 DEF Exists
  <3> QED BY <2>1, <3>4, <1>3, <1>4 DEF QueueInv, Exists, Resumable
 <2>8. TaskInv'  BY <1>1, <2>1 DEF GenInv, TaskInv
 <2> QED
   BY <2>4, <2>5, <2>6, <2>7, <2>8, <1>1, <1>3, <2>1, <1>2 DEF GenInv, TypeOK,
     PhaseInv, OffPhases, Exists
<1>5. CASE gen[g].status = "queued"
 <2>1. /\ gen' = [gen EXCEPT ![g].status = "running"]
       /\ current' = [gen |-> g, round |-> gen[g].round]
   BY <1>5 DEF RunGeneration
 <2>2. \/ config = "with" /\ pump' = "awaiting" /\ AcquireAll
       \/ config # "with" /\ pump' = "refused" /\ UNCHANGED <<item, permits, waiters>>
   BY <1>5 DEF RunGeneration, semaphore
 <2>3. gen \in [Gens -> Generation] /\ gen[g] \in Generation  BY <1>3 DEF GenInv, TypeOK
 <2>4. /\ gen' \in [Gens -> Generation]
       /\ gen'[g].by = gen[g].by /\ gen'[g].status = "running" /\ gen'[g].round = gen[g].round
       /\ \A h \in Gens : h # g => gen'[h] = gen[h]
  <3> DEFINE row == [gen[g] EXCEPT !.status = "running"]
  <3>1. /\ row \in Generation /\ row.by = gen[g].by
        /\ row.round = gen[g].round /\ row.status = "running"
    BY <2>3 DEF Generation
  <3>2. gen' = [gen EXCEPT ![g] = row]  BY <2>1
  <3> HIDE DEF row, g
  <3> QED BY <2>3, <3>1, <3>2, <1>3
 <2>6. current'.gen = g /\ current'.round = gen[g].round
       /\ current' \in [gen : Gens \cup {0}, round : Rounds]
   BY <2>1, <1>3, <2>3 DEF Generation
 <2>7. /\ \A i \in Items : attempts[g][gen[g].round][i] = "none"
       /\ Exists(g)
   BY <1>3, <1>5 DEF GenInv, QueuedInv
 <2> HIDE DEF g
 <2>8. \A h \in Gens : gen'[h].by = gen[h].by /\ gen'[h].round = gen[h].round  BY <2>4
 <2>9. pump' \in {"awaiting", "refused"} /\ (submitting # 0 => pump' # "refused")
   BY <2>2 DEF GenInv, PhaseInv
 <2>10. /\ item' \in [Items -> ItemSteps] /\ permits' \in 0..Concurrency
        /\ waiters' \in Seq(Items)
        /\ PermitsHeld' /\ WaitersInv'
        /\ pump' = "awaiting" => \A i \in Items : item'[i] \in {"granted", "waiting"}
        /\ pump' # "awaiting" => item' = item /\ permits' = permits /\ waiters' = waiters
  <3>1. CASE config = "with" /\ pump' = "awaiting" /\ AcquireAll  BY <3>1, <1>2, AcquireIs
  <3>2. CASE config # "with" /\ pump' = "refused" /\ UNCHANGED <<item, permits, waiters>>
   <4> QED BY <3>2 DEF GenInv, TypeOK, PermitsHeld, WaitersInv
  <3> QED BY <2>2, <3>1, <3>2
 <2>11. TypeOK'  BY <1>1, <1>3, <2>4, <2>6, <2>9, <2>10 DEF GenInv, TypeOK
 <2>12. PhaseInv'
  <3>4. submitting # 0 => /\ phase = "up" /\ config = "with"
                          /\ submitting \in Gens /\ gen[submitting].by # "nobody"
                          /\ gen[submitting].status \in {"queued", "running"}
    BY DEF GenInv, PhaseInv, TypeOK, Exists
  <3>5. submitting # 0 => gen'[submitting].status \in {"queued", "running"}
                          /\ gen'[submitting].by # "nobody"
    BY <3>4, <2>4, <2>8
  <3> QED BY <1>1, <1>2, <2>9, <3>4, <3>5, OffIsIdle DEF PhaseInv, OffPhases, Exists, GenInv
 <2>13. CurrentInv'
  <3>1. \A h \in Gens : gen[h].status # "running"
   <4> QED BY <1>2 DEF GenInv, CurrentInv, Gens
  <3> QED BY <1>3, <2>4, <2>6, <2>9, <3>1 DEF CurrentInv, Busy, Exists
 <2>14. ItemInv'
  <3>1. ASSUME pump' = "awaiting", NEW i \in Items
        PROVE  /\ item'[i] # "idle"
               /\ attempts[g][gen[g].round][i] = "running" <=> item'[i] \in Flying
               /\ item'[i] \in {"waiting", "granted"} => attempts[g][gen[g].round][i] = "none"
               /\ item'[i] # "succeeded" /\ item'[i] # "done"
   <4> QED BY <2>10, <3>1, <2>7 DEF Flying, ItemOutcomes
  <3> QED BY <1>2, <2>6, <2>7, <2>9, <2>10, <3>1, <1>1 DEF ItemInv
 <2>15. AttemptInv'
  <3> SUFFICES ASSUME NEW h \in Gens, NEW q \in Rounds, NEW j \in Items
               PROVE  AttemptSound(h, q, j)'
    BY DEF AttemptInv
  <3> QED BY <1>1, <2>4, <2>8, <1>5 DEF AttemptSound, g, GenInv, AttemptInv
 <2>16. QueuedInv'
  <3>1. ASSUME NEW h \in Gens
        PROVE  /\ gen'[h].status = "queued" => \A j \in Items : attempts[h][gen'[h].round][j] = "none"
               /\ ~(gen'[h].by # "nobody") => gen'[h].status = "queued" /\ gen'[h].round = 1
   <4>1. CASE h = g  BY <4>1, <2>4, <1>3 DEF Exists
   <4>2. CASE h # g  BY <4>2, <2>4 DEF GenInv, QueuedInv, Exists
   <4> QED BY <4>1, <4>2
  <3> QED BY <3>1, <1>1 DEF QueuedInv, Exists
 <2>17. VerdictInv'
  <3>1. ASSUME NEW h \in Gens PROVE Verdict(gen'[h].status, attempts[h][gen'[h].round])
   <4>1. CASE h = g  BY <4>1, <2>4 DEF Verdict
   <4>2. CASE h # g  BY <4>2, <2>4 DEF GenInv, VerdictInv, RoundOf
   <4> QED BY <4>1, <4>2
  <3> QED BY <3>1, <1>1 DEF VerdictInv, RoundOf
 <2>18. KeyInv'  BY <1>1, <2>8 DEF GenInv, KeyInv, KeysOf, Exists
 <2>19. QueueInv'
  <3>2. \A h \in Gens : gen'[h].by # "nobody" /\ gen'[h].status = "queued" =>
            \E n \in 1..Len(queue') : queue'[n] = h
   <4> SUFFICES ASSUME NEW h \in Gens, gen'[h].by # "nobody", gen'[h].status = "queued"
                PROVE  \E n \in 1..Len(queue') : queue'[n] = h
     OBVIOUS
   <4> QED BY <1>3, <2>4 DEF Resumable, Exists
  <3> QED BY <2>9, <3>2, <1>3, <2>8 DEF QueueInv, Exists, Resumable
 <2>20. TaskInv'
  <3> QED BY <1>1, <2>4 DEF GenInv, TaskInv, Settled
 <2> QED BY <2>10, <2>11, <2>12, <2>13, <2>14, <2>15, <2>16, <2>17, <2>18, <2>19, <2>20
         DEF GenInv
<1> QED BY <1>4, <1>5

-----------------------------------------------------------------------------
(* The end of a round.                                                     *)

\* finalize gives the current generation the verdict of its attempts, and the pump
\* goes on to the next one.
LEMMA FinalizeKeeps ==
    ASSUME GenInv, Busy, Finalize(current.gen, current.round),
           submitting = 0, pump' = "resumed",
           item' = [i \in Items |-> "idle"], permits' = Concurrency, waiters' = <<>>,
           UNCHANGED <<attempts, outputs, keys, calls, queue>>,
           UNCHANGED <<phase, config, affected, submitting, restarts, publishes>>,
           \A i \in Items : attempts[current.gen][current.round][i] # "running",
           phase # "stopping" =>
               \A i \in Items : attempts[current.gen][current.round][i] # "none"
    PROVE  GenInv'
<1> DEFINE g == current.gen
           round == attempts[g][current.round]
           verdict == RoundVerdict(round)
           row == [gen[g] EXCEPT !.status = verdict]
<1>1. /\ g \in Gens /\ current.round \in Rounds
      /\ Exists(g) /\ gen[g].status = "running" /\ gen[g].round = current.round
      /\ phase \notin OffPhases /\ affected = {}
  BY CurrentIs
<1>2. /\ gen' = [gen EXCEPT ![g] = row]
      /\ task' = IF verdict \in Settled /\ phase = "up"
                 THEN [task EXCEPT ![g] = ReconcileOne(g, @, row)]
                 ELSE task
      /\ current' = NoRound
  BY <1>1 DEF Finalize
<1>3. /\ gen \in [Gens -> Generation] /\ task \in [Gens -> Task]
      /\ attempts \in [Gens -> [Rounds -> [Items -> AttemptStatus]]]
  BY DEF GenInv, TypeOK
<1>4. 1 \in Items /\ 1 \in Rounds  BY Numbers DEF Items, Rounds
<1>5. round \in [Items -> AttemptStatus] /\ \A i \in Items : round[i] # "running"  BY <1>1, <1>3
<1>6. /\ verdict \in Settled \cup {"queued"}
      /\ verdict = "queued" <=> \A i \in Items : round[i] = "none"
      /\ Verdict(verdict, round)
 <2> HIDE DEF round
 <2> QED BY <1>5, VerdictIs
<1>7. phase # "stopping" => verdict \in Settled  BY <1>4, <1>6
<1> HIDE DEF verdict
<1>9. /\ row \in Generation /\ row.status = verdict
      /\ row.round = gen[g].round /\ row.by = gen[g].by
 <2> QED BY <1>1, <1>3, <1>6 DEF Generation
<1> HIDE DEF row
<1>10. /\ gen' \in [Gens -> Generation]
       /\ gen'[g].status = verdict /\ gen'[g].round = gen[g].round /\ gen'[g].by = gen[g].by
       /\ \A h \in Gens : h # g => gen'[h] = gen[h]
 <2> HIDE DEF g
 <2> QED BY <1>1, <1>2, <1>3, <1>9
<1>11. \A h \in Gens : gen'[h].round = gen[h].round /\ gen'[h].by = gen[h].by  BY <1>10
<1>12. /\ task' \in [Gens -> Task]
       /\ phase = "up" => task'[g].state # "waiting"
       /\ \A h \in Gens : h # g => task'[h] = task[h]
 <2>1. CASE verdict \in Settled /\ phase = "up"
  <3> DEFINE t == ReconcileOne(g, task[g], row)
  <3>1. t \in Task /\ t.state # "waiting"  BY <1>1, <1>3, <1>9, ReconcileIs
  <3>2. task' = [task EXCEPT ![g] = t]  BY <1>2, <2>1
  <3> HIDE DEF t, g
  <3> QED BY <1>1, <1>3, <3>1, <3>2
 <2>2. CASE ~(verdict \in Settled /\ phase = "up")
  <3> QED BY <1>3, <1>7, <2>2, <1>2
 <2> QED BY <2>1, <2>2
<1>13. current'.gen = 0 /\ current' \in [gen : Gens \cup {0}, round : Rounds]
  BY <1>2, <1>4 DEF NoRound
<1>15. TypeOK'
 <2> HIDE DEF g
 <2> QED BY <1>10, <1>12, <1>13, Numbers DEF GenInv, TypeOK, ItemSteps
<1>16. PhaseInv'
 <2> QED BY <1>1, OffIsIdle DEF PhaseInv, OffPhases
<1>17. CurrentInv'  BY <1>13, <1>1, <1>10, <1>6 DEF CurrentInv, Busy, GenInv, Settled
<1>18. ItemInv'  BY DEF ItemInv
<1>19. PermitsHeld' /\ WaitersInv'
 <2>2. Cardinality({i \in Items : item'[i] \notin {"idle", "waiting", "done"}}) = 0
   BY FS_EmptySet
 <2>3. PermitsHeld'  BY <2>2, Numbers DEF PermitsHeld
 <2>4. WaitersInv'  BY DEF WaitersInv
 <2> QED BY <2>3, <2>4
<1>20. AttemptInv'
 <2> SUFFICES ASSUME NEW h \in Gens, NEW q \in Rounds, NEW j \in Items
              PROVE  AttemptSound(h, q, j)'
   BY DEF AttemptInv
 <2>1. AttemptSound(h, q, j)  BY DEF GenInv, AttemptInv
 <2>2. attempts[h][q][j] # "running"
  <3>1. CASE h = g /\ q = current.round  BY <3>1, <1>5
  <3>2. CASE ~(h = g /\ q = current.round)
   <4> QED BY <3>2, <2>1, <1>1 DEF AttemptSound, GenInv, CurrentInv
  <3> QED BY <3>1, <3>2
 <2> QED BY <2>1, <2>2, <1>11 DEF AttemptSound
<1>21. QueuedInv'
 <2>1. ASSUME NEW h \in Gens
       PROVE  /\ gen'[h].status = "queued" => \A j \in Items : attempts[h][gen'[h].round][j] = "none"
              /\ ~(gen'[h].by # "nobody") => gen'[h].status = "queued" /\ gen'[h].round = 1
  <3>1. CASE h = g  BY <3>1, <1>1, <1>6, <1>10 DEF Exists
  <3>2. CASE h # g  BY <3>2, <1>10 DEF GenInv, QueuedInv, Exists
  <3> QED BY <3>1, <3>2
 <2> QED BY <2>1 DEF QueuedInv, Exists
<1>22. VerdictInv'
 <2>1. ASSUME NEW h \in Gens PROVE Verdict(gen'[h].status, attempts[h][gen'[h].round])
  <3>1. CASE h = g  BY <3>1, <1>1, <1>6, <1>10
  <3>2. CASE h # g  BY <3>2, <1>10 DEF GenInv, VerdictInv, RoundOf
  <3> QED BY <3>1, <3>2
 <2> QED BY <2>1 DEF VerdictInv, RoundOf
<1>23. KeyInv'  BY <1>11 DEF GenInv, KeyInv, KeysOf, Exists
<1>24. QueueInv'
 <2>1. queue \in Seq(Gens)  BY DEF GenInv, TypeOK
 <2>3. ASSUME phase # "stopping", NEW h \in Resumable' PROVE h \in Resumable
  <3> QED BY <2>3, <1>10, <1>7 DEF Resumable, Exists, Settled
 <2>5. Started' => \A h \in Resumable' : \E n \in 1..Len(queue) : queue[n] = h
   BY <2>3 DEF GenInv, QueueInv, Started
 <2> QED BY <2>5, <2>1, <1>11 DEF QueueInv, Exists, GenInv
<1>25. TaskInv'  BY <1>10, <1>12 DEF GenInv, TaskInv
<1> QED BY <1>15, <1>16, <1>17, <1>18, <1>19, <1>20, <1>21, <1>22, <1>23, <1>24, <1>25
        DEF GenInv

\* Without a credential every item fails, one after the other, and the round ends.
LEMMA RefuseItemKeeps ==
    ASSUME GenInv, RefuseItem
    PROVE  GenInv'
<1> DEFINE g == current.gen
           r == current.round
           open == Items \ Recorded(attempts[g][r])
<1>1. /\ pump = "refused"
      /\ UNCHANGED <<outputs, keys, calls, queue, item, permits, waiters>>
      /\ UNCHANGED <<phase, config, affected, submitting, restarts, publishes>>
  BY DEF RefuseItem, semaphore, process
<1>2. Busy /\ submitting = 0  BY <1>1 DEF GenInv, PhaseInv, Busy
<1>3. /\ g \in Gens /\ r \in Rounds
      /\ Exists(g) /\ gen[g].status = "running" /\ gen[g].round = r
      /\ phase \notin OffPhases /\ affected = {}
  BY <1>2, CurrentIs
<1>4. item = [i \in Items |-> "idle"] /\ permits = Concurrency /\ waiters = <<>>  BY <1>1, Idle
<1>5. \A i \in Items : attempts[g][r][i] \in {"none", "failed"}  BY <1>1 DEF GenInv, ItemInv
<1>6. open = {i \in Items : attempts[g][r][i] = "none"}  BY DEF Recorded
<1>7. attempts \in [Gens -> [Rounds -> [Items -> AttemptStatus]]]  BY DEF GenInv, TypeOK
<1>8. CASE open # {}
 <2> DEFINE i == CHOOSE i \in open : \A j \in open : i <= j
 <2>1. attempts' = [attempts EXCEPT ![g][r][i] = "failed"]
       /\ UNCHANGED <<gen, task, current, pump>>
   BY <1>8 DEF RefuseItem
 <2>2. i \in Items /\ attempts[g][r][i] = "none"
  <3>1. open \in SUBSET Nat  BY Numbers DEF Items
  <3>2. \E x \in open : \A y \in open : x <= y
   <4> HIDE DEF open
   <4> QED BY <1>8, <3>1, LeastNat
  <3>3. i \in open  BY <3>2
  <3> QED BY <3>3, <1>6
 <2> HIDE DEF i
 <2>3. /\ attempts' \in [Gens -> [Rounds -> [Items -> AttemptStatus]]]
       /\ attempts'[g][r][i] = "failed"
       /\ \A h \in Gens, q \in Rounds, j \in Items :
             <<h, q, j>> # <<g, r, i>> => attempts'[h][q][j] = attempts[h][q][j]
  <3> HIDE DEF g, r
  <3> QED BY <1>3, <1>7, <2>1, <2>2, AttemptUpdate DEF AttemptStatus, ItemOutcomes
 <2>4. current'.gen = g /\ current'.round = r  BY <2>1
 <2> HIDE DEF g, r, open
 <2>5. TypeOK'  BY <1>1, <2>1, <2>3 DEF GenInv, TypeOK
 <2>6. PhaseInv'
  <3> QED BY <1>1, <2>1, <1>3 DEF GenInv, PhaseInv, Exists, OffPhases
 <2>7. CurrentInv'  BY <1>1, <2>1 DEF GenInv, CurrentInv, Busy, OffPhases, Exists
 <2>8. ItemInv'
  <3> QED BY <1>1, <1>4, <2>1, <2>4, <1>3, <1>5, <2>3 DEF ItemInv
 <2>9. PermitsHeld' /\ WaitersInv'  BY <1>1 DEF GenInv, PermitsHeld, WaitersInv
 <2>10. AttemptInv'
  <3> SUFFICES ASSUME NEW h \in Gens, NEW q \in Rounds, NEW j \in Items
               PROVE  AttemptSound(h, q, j)'
    BY DEF AttemptInv
  <3> SUFFICES /\ attempts'[h][q][j] = "running" => q = gen[h].round /\ gen[h].status = "running"
               /\ calls[h][q][j] <= 1
               /\ calls[h][q][j] > 0 => attempts'[h][q][j] # "none"
               /\ q > gen[h].round => attempts'[h][q][j] = "none"
               /\ attempts'[h][q][j] = "succeeded" =>
                     [gen |-> h, round |-> q, item |-> j] \in outputs
    BY <1>1, <2>1 DEF AttemptSound
  <3>1. AttemptInv  BY DEF GenInv
  <3>2. CASE <<h, q, j>> = <<g, r, i>>
   <4>3. attempts'[h][q][j] = "failed" /\ ~(q > gen[h].round)  BY <1>3, <2>3, <3>2 DEF Rounds
   <4> QED BY <4>3, <3>1 DEF AttemptInv, AttemptSound
  <3>3. CASE <<h, q, j>> # <<g, r, i>>
   <4>1. attempts'[h][q][j] = attempts[h][q][j]  BY <3>3, <2>3
   <4> QED BY <3>1, <4>1 DEF AttemptInv, AttemptSound
  <3> QED BY <3>2, <3>3
 <2>11. \A h \in Gens, j \in Items : h # g => attempts'[h][gen[h].round][j] = attempts[h][gen[h].round][j]
  <3> QED BY <2>3 DEF GenInv, TypeOK, Generation
 <2>12. QueuedInv'  BY <1>3, <2>1, <2>11 DEF GenInv, QueuedInv, Exists
 <2>13. VerdictInv'
  <3> QED BY <1>3, <2>1, <2>11 DEF VerdictInv, RoundOf, Verdict, GenInv
 <2>14. KeyInv'  BY <1>1, <2>1 DEF GenInv, KeyInv, KeysOf, Exists
 <2>15. QueueInv'  BY <1>1, <2>1 DEF GenInv, QueueInv, Exists, Started, Resumable
 <2>16. TaskInv'  BY <1>1, <2>1 DEF GenInv, TaskInv
 <2> QED BY <2>5, <2>6, <2>7, <2>8, <2>9, <2>10, <2>12, <2>13, <2>14, <2>15, <2>16 DEF GenInv
<1>9. CASE open = {}
 <2> QED BY <1>1, <1>2, <1>4, FinalizeKeeps, <1>9, <1>5, <1>6 DEF RefuseItem
<1> QED BY <1>8, <1>9

\* Every item of the round is done.
LEMMA FinishRoundKeeps ==
    ASSUME GenInv, FinishRound
    PROVE  GenInv'
<1>1. /\ pump = "awaiting" /\ submitting = 0
      /\ \A i \in Items : item[i] = "done"
      /\ Finalize(current.gen, current.round)
      /\ item' = [i \in Items |-> "idle"] /\ pump' = "resumed"
      /\ UNCHANGED <<attempts, outputs, keys, calls, queue, permits, waiters>>
      /\ UNCHANGED <<phase, config, affected, submitting, restarts, publishes>>
  BY DEF FinishRound, Free, semaphore, process
<1>2. Busy  BY <1>1 DEF Busy
<1>4. permits = Concurrency
 <2>2. Cardinality({i \in Items : item[i] \notin {"idle", "waiting", "done"}}) = 0
   BY FS_EmptySet, <1>1
 <2> QED BY <2>2, Numbers DEF GenInv, PermitsHeld, TypeOK
<1>5. waiters = <<>>
 <2>2. waiters # <<>> => 1 \in 1..Len(waiters) /\ waiters[1] \in Items  BY DEF GenInv, TypeOK
 <2> QED BY <1>1, <2>2 DEF GenInv, WaitersInv
<1> QED BY <1>1, <1>2, <1>4, <1>5, FinalizeKeeps DEF GenInv, ItemInv, Flying, ItemOutcomes

-----------------------------------------------------------------------------
(* The end of the process.                                                 *)

\* A stop drops the queue; the round under way goes on.
LEMMA StopKeeps ==
    ASSUME GenInv, Stop
    PROVE  GenInv'
<1>1. /\ phase \in {"starting", "up"} /\ phase' = "stopping" /\ queue' = <<>>
      /\ submitting = 0
      /\ UNCHANGED <<gen, attempts, outputs, keys, task, calls>>
      /\ UNCHANGED <<pump, current, item, permits, waiters>>
      /\ UNCHANGED <<config, affected, submitting, restarts, publishes>>
  BY DEF Stop, Free, database, semaphore
<1>4. CurrentInv'  BY <1>1 DEF GenInv, CurrentInv, Busy, OffPhases, Exists
<1>5. ItemInv'  BY <1>1 DEF GenInv, ItemInv
<1>6. PermitsHeld' /\ WaitersInv'  BY <1>1 DEF GenInv, PermitsHeld, WaitersInv
<1>7. AttemptInv' /\ QueuedInv' /\ VerdictInv' /\ KeyInv'  BY <1>1, RowsStay DEF rowVars
<1>8. QueueInv'  BY <1>1 DEF QueueInv, Started
<1>9. TaskInv'  BY <1>1 DEF TaskInv
<1> QED
  BY <1>4, <1>5, <1>6, <1>7, <1>8, <1>9, <1>1 DEF GenInv, TypeOK, PhaseInv,
    OffPhases, Exists

\* Nothing of the memory is left, with no item in hand all permits are free.
LEMMA EmptyRound ==
    ASSUME NEW steps, steps = [i \in Items |-> "idle"]
    PROVE  /\ steps \in [Items -> ItemSteps]
           /\ Cardinality({i \in Items : steps[i] \notin {"idle", "waiting", "done"}}) = 0
<1> QED BY FS_EmptySet DEF ItemSteps

\* A crash leaves the database as it is, and nothing of the memory.
LEMMA ExitKeeps ==
    ASSUME GenInv, Exit
    PROVE  GenInv'
<1>1. /\ restarts < MaxRestarts /\ restarts' = restarts + 1
      /\ phase' = "down" /\ config' = "none"
      /\ queue' = <<>> /\ pump' = "idle" /\ current' = NoRound
      /\ item' = [i \in Items |-> "idle"]
      /\ permits' = Concurrency /\ waiters' = <<>>
      /\ affected' = {} /\ submitting' = 0
      /\ UNCHANGED <<gen, attempts, outputs, keys, task, calls, publishes>>
  BY DEF Exit, database
<1>2. /\ item' \in [Items -> ItemSteps]
      /\ Cardinality({i \in Items : item'[i] \notin {"idle", "waiting", "done"}}) = 0
  BY <1>1, EmptyRound
<1>3. TypeOK'
 <2>3. current' \in [gen : Gens \cup {0}, round : Rounds]  BY <1>1, Numbers DEF NoRound, Rounds
 <2>4. queue' \in Seq(Gens)  BY <1>1
 <2> QED BY <1>1, <1>2, <2>3, <2>4, Numbers DEF GenInv, TypeOK
<1>4. PhaseInv'  BY <1>1 DEF PhaseInv, OffPhases
<1>6. ItemInv'  BY <1>1 DEF ItemInv
<1>7. PermitsHeld'  BY <1>1, <1>2, Numbers DEF PermitsHeld
<1>9. AttemptInv' /\ QueuedInv' /\ VerdictInv' /\ KeyInv'  BY <1>1, RowsStay DEF rowVars
<1>10. QueueInv'  BY <1>1 DEF QueueInv, Started
<1>11. TaskInv'  BY <1>1 DEF TaskInv
<1> QED
  BY <1>3, <1>4, <1>6, <1>7, <1>9, <1>10, <1>11, <1>1 DEF GenInv, WaitersInv,
    CurrentInv, Busy, OffPhases, NoRound

\* Nothing is there in the beginning.
LEMMA GenInvInit == Init => GenInv
<1> SUFFICES ASSUME Init PROVE GenInv  OBVIOUS
<1>1. /\ gen = [g \in Gens |-> [status |-> "queued", round |-> 1, by |-> "nobody"]]
      /\ attempts = [g \in Gens |-> [r \in Rounds |-> [i \in Items |-> "none"]]]
      /\ outputs = {} /\ keys = {}
      /\ task = [g \in Gens |-> [state |-> "none", told |-> "none"]]
      /\ calls = [g \in Gens |-> [r \in Rounds |-> [i \in Items |-> 0]]]
      /\ phase = "down" /\ config = "none" /\ queue = <<>> /\ pump = "idle"
      /\ current = NoRound /\ item = [i \in Items |-> "idle"]
      /\ permits = Concurrency /\ waiters = <<>> /\ affected = {} /\ submitting = 0
      /\ restarts = 0 /\ publishes = 0
  BY DEF Init
<1>2. /\ item \in [Items -> ItemSteps]
      /\ Cardinality({i \in Items : item[i] \notin {"idle", "waiting", "done"}}) = 0
  BY <1>1, EmptyRound
<1>3. 1 \in Rounds  BY Numbers DEF Rounds
<1>4. TypeOK
 <2>3. gen \in [Gens -> Generation] /\ task \in [Gens -> Task]
   BY <1>1, <1>3 DEF Generation, Task
 <2>6. current \in [gen : Gens \cup {0}, round : Rounds]  BY <1>1, <1>3 DEF NoRound
 <2> QED BY <1>1, <1>2, <2>3, <2>6, Numbers DEF TypeOK, AttemptStatus
<1>5. PhaseInv /\ TaskInv  BY <1>1 DEF PhaseInv, TaskInv
<1>6. CurrentInv  BY <1>1 DEF CurrentInv, Busy, OffPhases, NoRound
<1>7. ItemInv  BY <1>1 DEF ItemInv
<1>8. PermitsHeld  BY <1>1, <1>2, Numbers DEF PermitsHeld
<1>9. WaitersInv  BY <1>1 DEF WaitersInv
<1>10. AttemptInv  BY <1>1 DEF AttemptInv, AttemptSound
<1>11. QueuedInv  BY <1>1, <1>3 DEF QueuedInv, Exists
<1>12. VerdictInv  BY <1>1, <1>3 DEF VerdictInv, Verdict, RoundOf
<1>13. KeyInv
 <2> QED BY <1>1, FS_EmptySet DEF KeyInv, Exists, KeysOf
<1>14. QueueInv  BY <1>1 DEF QueueInv, Started
<1> QED BY <1>4, <1>5, <1>6, <1>7, <1>8, <1>9, <1>10, <1>11, <1>12, <1>13, <1>14 DEF GenInv

\* Every step keeps the invariant.
LEMMA GenInvNext == GenInv /\ [Next]_vars => GenInv'
<1> SUFFICES ASSUME GenInv, [Next]_vars PROVE GenInv'  OBVIOUS
<1>1. ASSUME UNCHANGED vars PROVE GenInv'
 <2>1. /\ UNCHANGED <<gen, attempts, outputs, keys, task, calls>>
       /\ UNCHANGED <<queue, pump, current, item, permits, waiters>>
       /\ UNCHANGED <<phase, config, affected, submitting, restarts, publishes>>
   BY <1>1 DEF vars, database, worker, semaphore, process
 <2>4. AttemptInv' /\ QueuedInv' /\ VerdictInv' /\ KeyInv'  BY <2>1, RowsStay DEF rowVars
 <2>5. QueueInv'  BY <2>1 DEF GenInv, QueueInv, Exists, Started, Resumable
 <2> QED
   BY <2>4, <2>5, <2>1, ItemsStay DEF GenInv, TypeOK, PhaseInv, CurrentInv,
     TaskInv, Busy, Exists
<1>2. ASSUME Recover PROVE GenInv'
  BY <1>2, ListClaimedKeeps, RecomputeKeeps, RecoverAttemptKeeps, ResumeQueuedKeeps DEF Recover
<1>3. ASSUME NEW i \in Items, StepItem(i) PROVE GenInv'
  BY <1>3, SkipItemKeeps, StartItemKeeps, ProviderAnswersKeeps, StoreOutputKeeps,
     RecordAttemptKeeps DEF StepItem
<1>4. ASSUME Work PROVE GenInv'
  BY <1>3, <1>4, SubmitTaskKeeps, PumpStopsKeeps, RunGenerationKeeps, RefuseItemKeeps,
     FinishRoundKeeps DEF Work
<1>5. ASSUME NEW c \in {"none", "without", "with"}, StartupPublish(c) \/ Publish(c)
      PROVE  GenInv'
  BY <1>5, StartupPublishKeeps, PublishKeeps
<1>6. ASSUME NEW g \in Gens, NEW k \in Keys,
             AdminCreate(g, k) \/ \E v \in Invocations : Submit(g, k, v)
      PROVE  GenInv'
  BY <1>6, CreateKeeps DEF AdminCreate, Submit
<1>7. ASSUME NEW g \in Gens, NEW k \in Keys, Retry(g, k) PROVE GenInv'  BY <1>7, RetryKeeps
<1> QED BY <1>1, <1>2, <1>4, <1>5, <1>6, <1>7, StartWorkerKeeps, OpenBridgeKeeps, StopKeeps,
           ExitKeeps DEF Next

\* It holds of every behaviour.
LEMMA GenInvHolds == Spec => []GenInv
BY GenInvInit, GenInvNext, PTL DEF Spec

-----------------------------------------------------------------------------
(* What it says of the calls, the verdicts and the wake-ups.               *)

\* An item is sent in no more rounds than were asked for.
LEMMA CallsAreRequested ==
    ASSUME GenInv
    PROVE  CallsRequested
<1> SUFFICES ASSUME NEW g \in Gens, NEW i \in Items
             PROVE  /\ \A r \in Rounds : calls[g][r][i] <= 1
                    /\ Cardinality({r \in Rounds : calls[g][r][i] > 0}) <= Cardinality(KeysOf(g))
  BY DEF CallsRequested, KeysOf
<1> DEFINE tried == {r \in Rounds : calls[g][r][i] > 0}
<1>1. \A r \in Rounds : calls[g][r][i] <= 1  BY DEF GenInv, AttemptInv, AttemptSound
<1>2. gen[g].round \in Nat /\ gen[g].round \in Rounds /\ gen[g].round >= 1
  BY Numbers DEF GenInv, TypeOK, Generation, Rounds
<1>3. \A r \in tried : attempts[g][r][i] # "none"  BY DEF GenInv, AttemptInv, AttemptSound
<1>4. \A r \in tried : ~(r > gen[g].round)  BY <1>3 DEF GenInv, AttemptInv, AttemptSound
<1>5. IsFiniteSet(KeysOf(g)) /\ Cardinality(KeysOf(g)) \in Nat
  BY FS_CardinalityType DEF GenInv, KeyInv
<1>6. CASE Exists(g)
 <2>1. tried \subseteq 1..gen[g].round  BY <1>2, <1>4 DEF Rounds
 <2>2. IsFiniteSet(1..gen[g].round) /\ Cardinality(1..gen[g].round) = gen[g].round
  <3> DEFINE n == gen[g].round
  <3>1. n \in Int /\ n >= 1  BY <1>2
  <3> HIDE DEF n
  <3>2. IsFiniteSet(1..n) /\ Cardinality(1..n) = n  BY <3>1, FS_Interval
  <3> QED BY <3>2 DEF n
 <2>3. IsFiniteSet(tried) /\ Cardinality(tried) <= gen[g].round
  <3> HIDE DEF tried
  <3> QED BY <2>1, <2>2, FS_Subset
 <2>5. Cardinality(tried) \in Nat
  <3> HIDE DEF tried
  <3> QED BY <2>3, FS_CardinalityType
 <2>6. Cardinality(tried) <= Cardinality(KeysOf(g))
  <3> HIDE DEF tried
  <3> QED BY <1>2, <1>5, <2>3, <2>5, <1>6 DEF GenInv, KeyInv
 <2> QED BY <1>1, <2>6
<1>7. CASE ~Exists(g)
 <2>1. gen[g].status = "queued" /\ gen[g].round = 1  BY <1>7 DEF GenInv, QueuedInv
 <2>4. tried = {}  BY <1>3, <1>4, <2>1 DEF Rounds, GenInv, QueuedInv
 <2> QED BY <1>1, <1>5, <2>4, FS_EmptySet
<1> QED BY <1>6, <1>7

\* A queued round has sent nothing.
LEMMA QueuedSentNothing ==
    ASSUME GenInv
    PROVE  QueuedIsUnsent
<1> SUFFICES ASSUME NEW g \in Gens, gen[g].status = "queued", NEW i \in Items
             PROVE  attempts[g][gen[g].round][i] = "none" /\ calls[g][gen[g].round][i] = 0
  BY DEF QueuedIsUnsent, RoundOf
<1>1. attempts[g][gen[g].round][i] = "none"  BY DEF GenInv, QueuedInv
<1>2. gen[g].round \in Rounds  BY DEF GenInv, TypeOK, Generation
<1>3. ~(calls[g][gen[g].round][i] > 0)  BY <1>1, <1>2 DEF GenInv, AttemptInv, AttemptSound
<1> QED BY <1>1, <1>3, <1>2 DEF GenInv, TypeOK

\* The verdict is that of the attempts, and what succeeded is stored.
LEMMA VerdictsAreHonest ==
    ASSUME GenInv
    PROVE  HonestVerdict
<1> SUFFICES ASSUME NEW g \in Gens
             PROVE  LET status == gen[g].status
                        done == {i \in Items : RoundOf(g)[i] = "succeeded"}
                    IN  /\ status = "succeeded" => done = Items
                        /\ status = "partial" => done \notin {{}, Items}
                        /\ status = "interrupted" =>
                             done = {} /\ \E i \in Items : RoundOf(g)[i] # "failed"
                        /\ status = "failed" => \A i \in Items : RoundOf(g)[i] = "failed"
                        /\ \A i \in done : [gen |-> g, round |-> gen[g].round, item |-> i] \in outputs
  BY DEF HonestVerdict
<1>3. \A i \in Items : RoundOf(g)[i] = "succeeded" =>
          [gen |-> g, round |-> gen[g].round, item |-> i] \in outputs
  BY DEF GenInv, AttemptInv, AttemptSound, RoundOf, TypeOK, Generation
<1> HIDE DEF GenInv
<1> QED BY <1>3 DEF Verdict, GenInv, VerdictInv

\* The parts of the promise.
LEMMA GenInvImplies == GenInv => GenerationsKeepFaith /\ NoLostWakeup
<1> SUFFICES ASSUME GenInv PROVE GenerationsKeepFaith /\ NoLostWakeup  OBVIOUS
<1>3. PermitsHeld  BY DEF GenInv
<1>4. QueuedIsWoken
 <2> SUFFICES ASSUME Started
              PROVE  /\ \A g \in Gens : Exists(g) /\ gen[g].status = "queued" =>
                           \E n \in DOMAIN queue : queue[n] = g
                     /\ queue # <<>> /\ config # "none" => pump # "idle"
   BY DEF QueuedIsWoken
 <2>2. DOMAIN queue = 1..Len(queue)  BY DEF GenInv, TypeOK
 <2> QED BY <2>2 DEF GenInv, QueueInv, Resumable
<1>5. WaitingIsUnsettled  BY DEF GenInv, TaskInv, WaitingIsUnsettled
<1> QED
  BY <1>3, <1>4, <1>5, CallsAreRequested, QueuedSentNothing, VerdictsAreHonest
    DEF GenerationsKeepFaith, NothingStranded, NoLostWakeup, GenInv,
    CallsArePaidOnce, CurrentInv, NoStrandedRound, OffPhases

\* The worker, its recovery and its crashes never pay a call twice and never show a
\* verdict that the attempts do not bear out, for every number of generations, items
\* of a round, permits, rounds, restarts and publishes; no round and no permit is left
\* to nobody (worker.ts, runItem, finalize, recoverInterrupted).
THEOREM CallsArePaid == Spec => []GenerationsKeepFaith
BY GenInvHolds, GenInvImplies, PTL

\* No wake-up is lost: what is queued is in the queue of a worker that accepts work, a
\* queue that can be served has a pump, and with the bridge there no task waits for a
\* generation that has settled (enqueue, wake, createImageBridge).
THEOREM WakeupsAreKept == Spec => []NoLostWakeup
BY GenInvHolds, GenInvImplies, PTL

-----------------------------------------------------------------------------
(* What a round has established stays.                                     *)

\* The generations keep their status, or leave a round that has not settled, or begin
\* the next one.
StatusStays ==
    \A g \in Gens : gen[g].status \in Settled =>
        gen'[g].status = gen[g].status \/ gen'[g].round = gen[g].round + 1

\* The attempts that have an outcome keep it.
OutcomesStay ==
    \A g \in Gens, r \in Rounds, i \in Items :
        attempts[g][r][i] \in ItemOutcomes => attempts'[g][r][i] = attempts[g][r][i]

\* A new value for an attempt without an outcome.
LEMMA OpenAttempt ==
    ASSUME GenInv, NEW g \in Gens, NEW r \in Rounds, NEW i \in Items, NEW s \in AttemptStatus,
           attempts[g][r][i] \notin ItemOutcomes, attempts' = [attempts EXCEPT ![g][r][i] = s]
    PROVE  OutcomesStay
<1>1. attempts \in [Gens -> [Rounds -> [Items -> AttemptStatus]]]  BY DEF GenInv, TypeOK
<1> QED BY <1>1, AttemptUpdate DEF OutcomesStay

\* A new row for a generation that has not settled, or with its next round.
LEMMA OpenRow ==
    ASSUME GenInv, NEW g \in Gens, NEW row, gen' = [gen EXCEPT ![g] = row],
           \/ gen[g].status \notin Settled
           \/ row.round = gen[g].round + 1
           \/ row.status = gen[g].status
    PROVE  StatusStays
<1> QED BY DEF StatusStays, GenInv, TypeOK

\* finalize touches a running generation only.
LEMMA FinalizeIsOpen ==
    ASSUME GenInv, Busy, Finalize(current.gen, current.round)
    PROVE  StatusStays
<1> DEFINE g == current.gen
           row == [gen[g] EXCEPT !.status = RoundVerdict(attempts[g][current.round])]
<1>1. g \in Gens /\ gen[g].status = "running"  BY CurrentIs
<1>2. gen' = [gen EXCEPT ![g] = row]  BY <1>1 DEF Finalize
<1> HIDE DEF g, row
<1> QED BY <1>1, <1>2, OpenRow DEF Settled

\* Every step leaves settled generations and finished attempts as they are.
LEMMA StepsAreFinal == GenInv /\ [Next]_vars => StatusStays /\ OutcomesStay
<1> SUFFICES ASSUME GenInv, [Next]_vars PROVE StatusStays /\ OutcomesStay  OBVIOUS
<1>1. ASSUME UNCHANGED gen PROVE StatusStays  BY <1>1 DEF StatusStays
<1>2. ASSUME UNCHANGED attempts PROVE OutcomesStay  BY <1>2 DEF OutcomesStay
<1>3. "running" \notin Settled /\ "running" \notin ItemOutcomes /\ "none" \notin ItemOutcomes
  BY DEF Settled, ItemOutcomes
<1>4. gen \in [Gens -> Generation]  BY DEF GenInv, TypeOK
<1>5. CASE UNCHANGED vars  BY <1>1, <1>2, <1>5 DEF vars, database
<1>6. CASE StartWorker \/ ListClaimed \/ ResumeQueued \/ OpenBridge \/ SubmitTask \/ PumpStops
           \/ Stop \/ Exit
  BY <1>1, <1>2, <1>6
     DEF StartWorker, ListClaimed, ResumeQueued, OpenBridge, SubmitTask, PumpStops, Stop, Exit,
         database
<1>7. ASSUME NEW g \in Gens, RecomputeGeneration(g) PROVE StatusStays /\ OutcomesStay
 <2> DEFINE row == [gen[g] EXCEPT !.status = RoundVerdict(attempts[g][gen[g].round])]
 <2>1. gen' = [gen EXCEPT ![g] = row] /\ attempts' = attempts  BY <1>7 DEF RecomputeGeneration
 <2> HIDE DEF row
 <2> QED BY <1>2, <2>1, OpenRow, <1>3, <1>7 DEF RecomputeGeneration, GenInv, PhaseInv
<1>8. ASSUME NEW g \in Gens, NEW r \in Rounds, NEW i \in Items, RecoverAttempt(g, r, i)
      PROVE  StatusStays /\ OutcomesStay
 <2> QED BY <1>1, OpenAttempt, <1>3, <1>8 DEF RecoverAttempt, AttemptStatus, ItemOutcomes
<1>9. ASSUME NEW c \in {"none", "without", "with"}, StartupPublish(c) \/ Publish(c)
      PROVE  StatusStays /\ OutcomesStay
  BY <1>1, <1>2, <1>9 DEF StartupPublish, Publish, database
<1>10. ASSUME NEW g \in Gens, NEW k \in Keys, NEW actor, CreateGeneration(g, k, actor)
       PROVE  StatusStays /\ OutcomesStay
 <2> DEFINE row == [gen[g] EXCEPT !.by = actor]
 <2>1. gen' = [gen EXCEPT ![g] = row] /\ attempts' = attempts  BY <1>10 DEF CreateGeneration
 <2>3. row.status = gen[g].status  BY <1>4 DEF Generation
 <2> HIDE DEF row
 <2> QED BY <1>2, <2>1, <2>3, OpenRow
<1>11. ASSUME NEW g \in Gens, NEW k \in Keys, Retry(g, k) PROVE StatusStays /\ OutcomesStay
 <2> DEFINE row == [gen[g] EXCEPT !.status = "queued", !.round = @ + 1]
 <2>1. gen' = [gen EXCEPT ![g] = row] /\ attempts' = attempts  BY <1>11 DEF Retry
 <2>3. row.round = gen[g].round + 1  BY <1>4 DEF Generation
 <2> HIDE DEF row
 <2> QED BY <1>2, <2>1, <2>3, OpenRow
<1>12. CASE RunGeneration
 <2> DEFINE g == Head(queue)
            row == [gen[g] EXCEPT !.status = "running"]
 <2>1. attempts' = attempts /\ (gen' = gen \/ (gen[g].status = "queued" /\ gen' = [gen EXCEPT ![g] = row]))
   BY <1>12 DEF RunGeneration
 <2>2. g \in Gens  BY <1>12, TailKeeps DEF RunGeneration, GenInv, TypeOK
 <2> HIDE DEF g, row
 <2> QED BY <1>2, <2>1, <1>1, <2>2, OpenRow DEF Settled
<1>13. CASE RefuseItem
 <2> DEFINE g == current.gen
            r == current.round
            open == Items \ Recorded(attempts[g][r])
            i == CHOOSE i \in open : \A j \in open : i <= j
 <2>1. Busy  BY <1>13 DEF RefuseItem, Busy
 <2>2. g \in Gens /\ r \in Rounds  BY <2>1, CurrentIs
 <2>3. CASE open # {}
  <3>1. attempts' = [attempts EXCEPT ![g][r][i] = "failed"] /\ gen' = gen
    BY <1>13, <2>3 DEF RefuseItem
  <3>2. open \in SUBSET Nat  BY Numbers DEF Items
  <3>3. \E x \in open : \A y \in open : x <= y
   <4> HIDE DEF open
   <4> QED BY <2>3, <3>2, LeastNat
  <3>4. i \in open  BY <3>3
  <3>6. "failed" \in AttemptStatus  BY DEF AttemptStatus, ItemOutcomes
  <3> HIDE DEF i, g, r
  <3>7. OutcomesStay  BY <2>2, <3>1, <3>6, OpenAttempt, <1>3, <3>4 DEF Recorded
  <3> QED BY <1>1, <3>1, <3>7
 <2>4. CASE open = {}
  <3> QED BY <1>2, <2>1, FinalizeIsOpen, <1>13, <2>4 DEF RefuseItem
 <2> QED BY <2>3, <2>4
<1>14. CASE FinishRound
 <2> QED BY <1>2, FinalizeIsOpen, <1>14 DEF FinishRound, Busy
<1>15. ASSUME NEW i \in Items, StepItem(i) PROVE StatusStays /\ OutcomesStay
 <2>2. ASSUME NEW readable \in BOOLEAN, StartItem(i, readable) PROVE OutcomesStay
  <3>1. CASE attempts[current.gen][current.round][i] # "none"  BY <1>2, <2>2, <3>1 DEF StartItem
  <3>2. CASE attempts[current.gen][current.round][i] = "none"
   <4>2. Busy  BY <2>2, ItemAwaited DEF StartItem
   <4>4. "running" \in AttemptStatus /\ attempts[current.gen][current.round][i] \notin ItemOutcomes
     BY <1>3, <3>2 DEF AttemptStatus
   <4> QED BY <4>4, OpenAttempt, <2>2, <3>2, <4>2, CurrentIs DEF StartItem
  <3> QED BY <3>1, <3>2
 <2>3. ASSUME RecordAttempt(i) PROVE OutcomesStay
  <3>1. attempts' = [attempts EXCEPT ![current.gen][current.round][i] = item[i]]
        /\ item[i] \in ItemOutcomes
    BY <2>3 DEF RecordAttempt
  <3>2. Busy /\ pump = "awaiting"  BY <3>1, ItemAwaited DEF ItemOutcomes
  <3> QED BY <3>1, OpenAttempt, <3>2, CurrentIs, <1>3 DEF AttemptStatus, GenInv, ItemInv, Flying
 <2>4. ASSUME SkipItem(i) \/ (\E answer \in {"image", "failed", "interrupted"} : ProviderAnswers(i, answer))
              \/ (\E stored \in BOOLEAN : StoreOutput(i, stored))
       PROVE  OutcomesStay
   BY <1>2, <2>4 DEF SkipItem, ProviderAnswers, StoreOutput, database
 <2> QED
   BY <1>1, <1>15, <2>2, <2>3, <2>4 DEF StepItem, SkipItem, StartItem,
     ProviderAnswers, StoreOutput, RecordAttempt, database
<1>16. CASE Recover  BY <1>6, <1>7, <1>8, <1>16 DEF Recover
<1>17. CASE Work  BY <1>6, <1>12, <1>13, <1>14, <1>15, <1>17 DEF Work
<1>18. ASSUME NEW g \in Gens, NEW k \in Keys,
              AdminCreate(g, k) \/ Retry(g, k) \/ \E v \in Invocations : Submit(g, k, v)
       PROVE  StatusStays /\ OutcomesStay
  BY <1>10, <1>11, <1>18 DEF AdminCreate, Submit
<1> QED BY <1>5, <1>6, <1>9, <1>16, <1>17, <1>18 DEF Next

\* The verdict of a round and the outcome of an attempt do not change once they are
\* there, until a retry opens the next round, whatever crashes (recoverInterrupted
\* touches what was in flight, the unique index of the attempts refuses a second one).
THEOREM FinishedRoundsStay == Spec => RoundsAreFinal
<1>1. Spec => [][StatusStays /\ OutcomesStay]_vars  BY GenInvHolds, StepsAreFinal, PTL DEF Spec
<1>2. StatusStays /\ OutcomesStay =>
        \A g \in Gens :
          /\ gen[g].status \in Settled =>
               gen'[g].status = gen[g].status \/ gen'[g].round = gen[g].round + 1
          /\ \A r \in Rounds, i \in Items :
               attempts[g][r][i] \in ItemOutcomes => attempts'[g][r][i] = attempts[g][r][i]
  BY DEF StatusStays, OutcomesStay
<1> QED BY <1>1, <1>2, PTL DEF RoundsAreFinal

-----------------------------------------------------------------------------
(* What the model is given of a page.                                          *)

\* The bytes of a text.
LEMMA TextIs ==
    ASSUME NEW t, IsText(t)
    PROVE  /\ t \in Seq(Bytes) /\ Len(t) \in Nat /\ DOMAIN t = 1..Len(t)
           /\ \A b \in 1..Len(t) : t[b] \in Bytes /\ t[b].width \in 0..4 /\ t[b].nth \in 1..4
           /\ Len(t) # 0 => t[1].nth = 1 /\ EndsCharacter(t[Len(t)])
           /\ \A b \in 1..Len(t) - 1 :
                 IF EndsCharacter(t[b]) THEN t[b + 1].nth = 1
                 ELSE t[b + 1].width = t[b].width /\ t[b + 1].nth = t[b].nth + 1
<1>1. t \in Seq(Bytes)  BY DEF IsText
<1>2. Len(t) \in Nat /\ DOMAIN t = 1..Len(t) /\ \A b \in 1..Len(t) : t[b] \in Bytes  BY <1>1
<1>5. Len(t) # 0 => t[1].nth = 1 /\ EndsCharacter(t[Len(t)])  BY DEF IsText
<1>6. \A b \in 1..Len(t) - 1 :
          IF EndsCharacter(t[b]) THEN t[b + 1].nth = 1
          ELSE t[b + 1].width = t[b].width /\ t[b + 1].nth = t[b].nth + 1
 <2>1. ASSUME NEW b \in 1..Len(t) - 1, ~ EndsCharacter(t[b])
       PROVE  t[b + 1].width = t[b].width /\ t[b + 1].nth = t[b].nth + 1
  <3>1. t[b + 1] = [width |-> t[b].width, nth |-> t[b].nth + 1]  BY <2>1 DEF IsText
  <3> QED BY <3>1
 <2> QED BY <2>1 DEF IsText
<1> QED BY <1>1, <1>2, <1>5, <1>6 DEF Bytes

\* The first n bytes decode when all of them are of characters and the last one ends one.
LEMMA DecodesIs ==
    ASSUME NEW t, IsText(t), NEW n \in 0..Len(t)
    PROVE  Decodes(Prefix(t, n)) <=>
               /\ \A b \in 1..n : t[b].width # 0
               /\ n # 0 => EndsCharacter(t[n])
<1> DEFINE p == Prefix(t, n)
<1>1. t \in Seq(Bytes) /\ Len(t) \in Nat /\ n \in Nat /\ n <= Len(t)  BY TextIs
<1>2. /\ p \in Seq(Bytes) /\ Len(p) = n /\ DOMAIN p = 1..n /\ \A b \in 1..n : p[b] = t[b]
  BY <1>1 DEF Prefix
<1> HIDE DEF p
<1>5. n # 0 => (EndsCharacter(p[Len(p)]) <=> EndsCharacter(t[n]))  BY <1>1, <1>2
<1> QED BY <1>5, <1>1, <1>2 DEF Decodes, p

\* The byte before one that does not begin a character is the one before it in the same.
LEMMA ByteBefore ==
    ASSUME NEW t, IsText(t), NEW b \in 1..Len(t), t[b].nth # 1
    PROVE  /\ b - 1 \in 1..Len(t) - 1 /\ t[b - 1].width = t[b].width
           /\ t[b - 1].nth = t[b].nth - 1
<1>1. Len(t) \in Nat /\ t[b].nth \in 1..4  BY TextIs
<1>2. b # 1  BY <1>1, TextIs
<1>3. b - 1 \in 1..Len(t) - 1 /\ (b - 1) + 1 = b  BY <1>1, <1>2
<1>5. t[b - 1].nth \in 1..4  BY <1>3, <1>1, TextIs
<1> QED BY <1>1, <1>3, <1>5, TextIs

\* Where a character begins the one before has ended.
LEMMA EndBefore ==
    ASSUME NEW t, IsText(t), NEW b \in 1..Len(t), t[b].nth = 1
    PROVE  b = 1 \/ EndsCharacter(t[b - 1])
<1>1. SUFFICES ASSUME b # 1, ~ EndsCharacter(t[b - 1]) PROVE FALSE  OBVIOUS
<1>4. t[b].nth = t[b - 1].nth + 1 /\ t[b - 1].nth \in 1..4  BY <1>1, TextIs
<1> QED BY <1>4

\* At most three bytes from the end of a cut a character ends, if all are of characters.
LEMMA CutDecodes ==
    ASSUME NEW t, IsText(t), NEW n \in 0..Len(t), \A b \in 1..Len(t) : t[b].width # 0
    PROVE  \E d \in 0..(IF n < 3 THEN n ELSE 3) : Decodes(Prefix(t, n - d))
<1>1. Len(t) \in Nat /\ n \in Nat /\ n <= Len(t)  BY TextIs
<1>2. CASE n = 0
 <2> QED BY <1>2, <1>1, DecodesIs
<1>3. CASE n # 0 /\ EndsCharacter(t[n])
 <2> QED BY <1>1, <1>3, DecodesIs
<1>4. CASE n # 0 /\ ~ EndsCharacter(t[n])
 <2> DEFINE k == t[n].nth
 <2>1. k \in 1..4 /\ t[n].width \in 0..4 /\ k < t[n].width
   BY <1>1, <1>4, TextIs DEF EndsCharacter
 <2> HIDE DEF k
 <2>2. k \in 1..3  BY <2>1
 <2>3. k > 1 => n - 1 \in 1..Len(t) - 1 /\ t[n - 1].nth = k - 1
   BY <1>1, <1>4, <2>2, ByteBefore DEF k
 <2>4. k > 2 => n - 2 \in 1..Len(t) - 1 /\ t[n - 2].nth = k - 2
  <3>1. SUFFICES ASSUME k > 2 PROVE n - 2 \in 1..Len(t) - 1 /\ t[n - 2].nth = k - 2  OBVIOUS
  <3> QED BY <2>2, ByteBefore, <1>1, <2>3, <3>1
 <2>5. n - k + 1 \in 1..Len(t) /\ t[n - k + 1].nth = 1
  <3>1. CASE k = 1  BY <1>1, <1>4, <3>1 DEF k
  <3>2. CASE k = 2
   <4> QED BY <1>1, <2>3, <3>2
  <3>3. CASE k = 3
   <4> QED BY <1>1, <2>4, <3>3
  <3> QED BY <2>2, <3>1, <3>2, <3>3
 <2>6. n - k \in 0..Len(t) /\ n - k + 1 = (n - k) + 1 /\ (n - k + 1) - 1 = n - k
   BY <1>1, <2>2, <2>5
 <2>9. Decodes(Prefix(t, n - k))  BY <2>6, DecodesIs, <2>5, EndBefore, <1>1
 <2> QED BY <2>9, <1>1, <2>2, <2>6
<1> QED BY <1>2, <1>3, <1>4

\* truncateUtf8 leaves whole characters that fit the budget.
LEMMA TruncateIs ==
    ASSUME NEW t, IsText(t), Decodes(t), NEW budget \in Nat
    PROVE  LET n == TruncateUtf8(t, budget)
           IN n \in 0..Len(t) /\ n <= budget /\ Decodes(Prefix(t, n))
<1> DEFINE n == TruncateUtf8(t, budget)
<1>1. /\ t \in Seq(Bytes) /\ Len(t) \in Nat /\ DOMAIN t = 1..Len(t)
      /\ \A b \in 1..Len(t) : t[b].nth \in 1..4
  BY TextIs
<1>2. \A b \in 1..Len(t) : t[b].width # 0  BY <1>1 DEF Decodes
<1>3. CASE Len(t) <= budget
 <2> HIDE DEF n
 <2> QED BY <1>1, <1>3, <1>2, TextIs, DecodesIs DEF n, TruncateUtf8
<1>4. CASE ~ (Len(t) <= budget)
 <2> DEFINE Good(end) == /\ t[end + 1].nth = 1
                         /\ \A e \in end + 1..budget : t[e + 1].nth # 1
 <2>1. \E end \in 0..budget : Good(end)
  <3> DEFINE D == {d \in 0..budget : t[budget - d + 1].nth = 1}
  <3>1. budget \in D /\ D \in SUBSET Nat
   <4> QED BY TextIs, <1>1, <1>4
  <3>2. PICK d \in D : \A e \in D : d <= e  BY <3>1, LeastNat
  <3>3. budget - d \in 0..budget /\ t[budget - d + 1].nth = 1  OBVIOUS
  <3>4. ASSUME NEW e \in budget - d + 1..budget, t[e + 1].nth = 1 PROVE FALSE
   <4>1. budget - e \in 0..budget /\ budget - (budget - e) + 1 = e + 1 /\ budget - e < d
     BY <3>3
   <4> QED BY <3>2, <4>1, <3>4
  <3> QED BY <3>3, <3>4
 <2>2. n = CHOOSE end \in 0..budget : Good(end)  BY <1>4 DEF TruncateUtf8
 <2> HIDE DEF n
 <2>3. n \in 0..budget /\ t[n + 1].nth = 1  BY <2>1, <2>2
 <2>4. n + 1 \in 1..Len(t) /\ (n + 1) - 1 = n /\ n \in 0..Len(t)  BY <1>1, <1>4, <2>3
 <2>7. Decodes(Prefix(t, n))  BY <2>4, DecodesIs, <2>3, EndBefore, <1>1, <1>2
 <2> QED BY <2>3, <2>4, <2>7 DEF n
<1> QED BY <1>3, <1>4

-----------------------------------------------------------------------------
(* The call.                                                                   *)

Codes == {"running", "succeeded", "invocation_timeout", "invalid_url", "dns_error",
          "blocked_address", "aborted", "timeout", "network_error", "too_many_redirects",
          "unsupported_content_type", "invalid_text_encoding", "conversion_failed"}

\* What a URL may be, the classes of addresses among it.
Kinds == {"bad", "name"} \cup Classes

FetchSet ==
    [stage: {"parse", "resolve", "check", "request", "headers", "body", "done"}, url: Urls,
     raw: BOOLEAN, hops: 0..MaxRedirects, answers: Seq(Kinds),
     response: [media: {"html", "markdown", "text"}, text: {t \in Seq(Bytes) : IsText(t)}],
     budget: Nat, read: Nat, over: BOOLEAN, page: {t \in Seq(Bytes) : IsText(t)},
     length: Nat, cut: BOOLEAN]

\* A request may go to an address of that class for that URL.
MayGo(class, url) ==
    \/ policy.allowAll \/ class = "public"
    \/ policy.allowSynthetic /\ class = "synthetic" /\ KindOf[url] = "name"

\* What is sent, and what is about to be, is allowed.
SentInv ==
    /\ sent \in Seq([class: Kinds, url: Urls])
    /\ Len(sent) <= fetch.hops + (IF fetch.stage \in {"headers", "body", "done"} THEN 1 ELSE 0)
    /\ \A i \in DOMAIN sent : MayGo(sent[i].class, sent[i].url)
    /\ fetch.stage = "request" =>
          fetch.answers # <<>> /\ \A i \in DOMAIN fetch.answers : MayGo(fetch.answers[i], fetch.url)

\* What is read of a body is what its limit allows, and is over only past it.
ReadInv ==
    /\ fetch.read <= Len(Body)
    /\ fetch.stage = "body" => fetch.read <= BodyLimit
    /\ fetch.over => fetch.read < Len(Body)
    /\ fetch.stage \in {"parse", "resolve", "check", "request", "headers"} =>
          fetch.read = 0 /\ ~ fetch.over

FetchInv ==
    /\ fetch \in FetchSet /\ signals \subseteq {"aborted", "late"} /\ audit \in Codes
    /\ SentInv /\ ReadInv /\ ResultIsFaithful /\ AuditTellsOutcome

\* Nothing is a text.
LEMMA NothingRead ==
    /\ IsText(<<>>) /\ <<>> \in Seq(Bytes) /\ <<>> \in Seq(Kinds)
    /\ NoResponse \in [media: {"html", "markdown", "text"}, text: {t \in Seq(Bytes) : IsText(t)}]
    /\ NoResponse.text = <<>> /\ MaxRedirects \in Nat
<1> QED BY FetchAssumption DEF NoResponse, FetchAssumption, IsText

\* A hop begins with nothing read.
LEMMA CallIs ==
    ASSUME NEW url \in Urls, NEW raw \in BOOLEAN, NEW hops \in 0..MaxRedirects
    PROVE  LET c == [Call(url, raw, "parse") EXCEPT !.hops = hops]
           IN c \in FetchSet /\ c.stage = "parse" /\ c.hops = hops /\ c.read = 0 /\ ~ c.over
BY NothingRead DEF Call, FetchSet

\* The call begins.
LEMMA FetchStarts == FetchInit => FetchInv
<1> SUFFICES ASSUME FetchInit PROVE FetchInv  OBVIOUS
<1>1. PICK url \in Urls, raw \in BOOLEAN : fetch = Call(url, raw, "parse")  BY DEF FetchInit
<1>2. /\ fetch \in FetchSet /\ fetch.stage = "parse" /\ fetch.hops = 0 /\ fetch.read = 0
      /\ ~ fetch.over /\ fetch.response = NoResponse
  BY <1>1, NothingRead DEF Call, FetchSet
<1>3. signals = {} /\ sent = <<>> /\ audit = "running"  BY DEF FetchInit
<1>6. ResultIsFaithful /\ AuditTellsOutcome
  BY <1>2, <1>3 DEF ResultIsFaithful, AuditTellsOutcome
<1> QED BY <1>2, <1>3, <1>6 DEF FetchInv, Codes, SentInv, ReadInv, Body, NoResponse

\* What a call that is still on its way says.
LEMMA OnItsWay ==
    ASSUME FetchInv, fetch.stage # "done"
    PROVE  audit = "running"
BY DEF FetchInv, AuditTellsOutcome

\* The call fails with a code that its signals bear out.
LEMMA FailsKeeps ==
    ASSUME FetchInv, fetch.stage # "done", NEW code \in Codes \ {"running", "succeeded"}, Fails(code),
           UNCHANGED <<policy, signals, sent>>,
           code = "aborted" => "aborted" \in signals,
           code \in {"timeout", "invocation_timeout"} => "late" \in signals,
           code = "network_error" => signals = {},
           code = "invalid_text_encoding" => ~ Decodes(Body)
    PROVE  FetchInv'
<1>1. fetch' = [fetch EXCEPT !.stage = "done"] /\ audit' = code /\ fetch \in FetchSet
  BY DEF Fails, FetchInv
<1>2. /\ fetch' \in FetchSet /\ fetch'.stage = "done" /\ fetch'.hops = fetch.hops
      /\ fetch'.read = fetch.read /\ fetch'.over = fetch.over /\ fetch'.response = fetch.response
  BY <1>1 DEF FetchSet
<1>3. Body' = Body  BY <1>2 DEF Body
<1>4. SentInv'
 <2> QED BY <1>2, <1>1 DEF FetchInv, SentInv, MayGo, FetchSet
<1>7. AuditTellsOutcome'  BY <1>1, <1>2 DEF AuditTellsOutcome
<1> QED BY <1>1, <1>2, <1>4, <1>7, <1>3 DEF FetchInv, ReadInv, ResultIsFaithful

\* The call goes on, with nothing sent and nothing of a body yet.
LEMMA GoesOnKeeps ==
    ASSUME FetchInv, fetch.stage # "done", UNCHANGED <<policy, signals, sent, audit>>,
           fetch' \in FetchSet, fetch'.stage \in {"parse", "resolve", "check", "request"},
           fetch'.read = 0, ~ fetch'.over,
           Len(sent) <= fetch'.hops,
           fetch'.stage = "request" =>
               fetch'.answers # <<>> /\ \A i \in DOMAIN fetch'.answers : MayGo(fetch'.answers[i], fetch'.url)
    PROVE  FetchInv'
<1>2. SentInv'
 <2>3. /\ sent \in Seq([class: Kinds, url: Urls])
       /\ \A i \in DOMAIN sent : MayGo(sent[i].class, sent[i].url)
   BY DEF FetchInv, SentInv
 <2>4. sent' = sent /\ policy' = policy  OBVIOUS
 <2> QED BY <2>3, <2>4, NothingRead DEF SentInv, MayGo, FetchSet
<1>3. ReadInv'
 <2> QED BY DEF ReadInv, FetchSet, Body
<1> QED BY <1>2, <1>3, OnItsWay DEF FetchInv, ResultIsFaithful, AuditTellsOutcome

\* What a signal makes of another error is borne out by it.
LEMMA NormalizedIs ==
    ASSUME signals \subseteq {"aborted", "late"}
    PROVE  /\ NormalizeError \in Codes \ {"running", "succeeded", "invocation_timeout", "invalid_text_encoding"}
           /\ NormalizeError = "aborted" => "aborted" \in signals
           /\ NormalizeError = "timeout" => "late" \in signals
           /\ NormalizeError = "network_error" => signals = {}
BY DEF NormalizeError, Codes

\* ... so that failing with it keeps all of it.
LEMMA FailsNormalized ==
    ASSUME FetchInv, fetch.stage # "done", Fails(NormalizeError), UNCHANGED <<policy, signals, sent>>
    PROVE  FetchInv'
<1> DEFINE code == NormalizeError
<1> HIDE DEF code
<1> QED BY FailsKeeps, NormalizedIs DEF FetchInv

\* Before the first request nothing of a body is there, and as many requests as hops.
LEMMA NothingYet ==
    ASSUME FetchInv, fetch.stage \in {"parse", "resolve", "check", "request"}
    PROVE  Len(sent) <= fetch.hops
<1> QED BY NothingRead DEF FetchInv, SentInv, FetchSet

\* The deadline has passed.
LEMMA DeadlineReachedKeeps == ASSUME FetchInv, DeadlineReached PROVE FetchInv'
<1> QED BY FailsKeeps DEF DeadlineReached, Codes

\* A signal comes.
LEMMA SignalKeeps == ASSUME FetchInv, Signal PROVE FetchInv'
<1>1. /\ fetch.stage # "done" /\ UNCHANGED <<policy, fetch, sent, audit>>
      /\ signals \subseteq signals' /\ signals' \subseteq {"aborted", "late"}
  BY DEF Signal, FetchInv
<1> QED
  BY <1>1, OnItsWay DEF FetchInv, SentInv, ReadInv, MayGo, Body, BodyLimit,
    Converts, ResultIsFaithful, AuditTellsOutcome

\* The chunk that is read stays within the limit.
LEMMA ReadChunkKeeps == ASSUME FetchInv, ReadChunk PROVE FetchInv'
<1>1. fetch \in FetchSet /\ fetch.stage = "body" /\ ~ fetch.over
      /\ fetch.read <= Len(Body) /\ fetch.read <= BodyLimit
  BY DEF FetchInv, ReadInv, ReadChunk
<1>2. fetch.read \in Nat /\ Len(Body) \in Nat /\ BodyLimit \in Nat
  BY <1>1, FetchAssumption DEF FetchSet, FetchAssumption, Body, BodyLimit
<1>3. PICK size \in 1..Len(Body) - fetch.read :
          LET available == BodyLimit - fetch.read IN
          fetch' = [fetch EXCEPT !.read = @ + (IF size > available THEN available ELSE size),
                                 !.over = size > available]
  BY DEF ReadChunk
<1> DEFINE available == BodyLimit - fetch.read
           more == fetch.read + (IF size > available THEN available ELSE size)
<1>4. /\ more \in Nat /\ more <= Len(Body) /\ more <= BodyLimit
      /\ size > available => more < Len(Body)
  BY <1>1, <1>2
<1>5. fetch' = [fetch EXCEPT !.read = more, !.over = size > available]  BY <1>3
<1> DEFINE over == size > available
<1> HIDE DEF more
<1>7. fetch' = [fetch EXCEPT !.read = more, !.over = over] /\ over \in BOOLEAN  BY <1>5
<1>8. over => more < Len(Body)  BY <1>4
<1> HIDE DEF over
<1>9. /\ fetch' \in FetchSet /\ fetch'.stage = "body" /\ fetch'.read = more /\ fetch'.over = over
      /\ fetch'.response = fetch.response /\ fetch'.budget = fetch.budget
      /\ fetch'.raw = fetch.raw /\ fetch'.hops = fetch.hops
  BY <1>1, <1>4, <1>7 DEF FetchSet
<1>11. UNCHANGED <<policy, signals, sent, audit>> /\ audit = "running"
  BY <1>1, OnItsWay DEF ReadChunk
<1>13. ReadInv'  BY <1>4, <1>8, <1>9 DEF ReadInv, Body, BodyLimit, Converts
<1> QED
  BY <1>9, <1>11, <1>13, <1>1 DEF FetchInv, SentInv, MayGo, ResultIsFaithful,
    AuditTellsOutcome

\* The request is answered, or lost.
LEMMA RequestFailsKeeps == ASSUME FetchInv, RequestFails PROVE FetchInv'
<1> QED BY FailsNormalized DEF RequestFails

\* The URL is one, or the call fails.
LEMMA ParseUrlKeeps == ASSUME FetchInv, ParseUrl PROVE FetchInv'
<1>1. /\ fetch.stage = "parse" /\ UNCHANGED <<policy, signals, sent>> /\ fetch \in FetchSet
      /\ fetch.read = 0 /\ ~ fetch.over /\ Len(sent) <= fetch.hops
  BY NothingYet DEF ParseUrl, FetchInv, ReadInv
<1>2. CASE Fails("invalid_url")
 <2> QED BY <1>1, <1>2, FailsKeeps DEF Codes
<1>3. CASE fetch' = [fetch EXCEPT !.stage = "resolve"] /\ audit' = audit
 <2> QED BY <1>1, <1>3, GoesOnKeeps DEF FetchSet
<1> QED BY <1>2, <1>3 DEF ParseUrl

\* The name resolves to whatever it does.
LEMMA KindIs == ASSUME NEW url \in Urls PROVE KindOf[url] \in Kinds
BY FetchAssumption DEF FetchAssumption, Kinds

LEMMA ResolveHostnameKeeps == ASSUME FetchInv, ResolveHostname PROVE FetchInv'
<1>1. /\ fetch.stage = "resolve" /\ UNCHANGED <<policy, signals, sent>> /\ fetch \in FetchSet
      /\ fetch.read = 0 /\ ~ fetch.over /\ Len(sent) <= fetch.hops
  BY NothingYet DEF ResolveHostname, FetchInv, ReadInv
<1>2. CASE KindOf[fetch.url] = "name" /\ Fails(NormalizeError)  BY <1>1, <1>2, FailsNormalized
<1>3. ASSUME NEW answers \in Seq(Kinds), audit' = audit,
             fetch' = [fetch EXCEPT !.stage = "check", !.answers = answers]
      PROVE  FetchInv'
 <2> QED BY <1>1, <1>3, GoesOnKeeps DEF FetchSet
<1>4. CASE \E answers \in (IF KindOf[fetch.url] = "name"
                           THEN UNION {[1..n -> Classes] : n \in 0..2}
                           ELSE {<<KindOf[fetch.url]>>}) :
              fetch' = [fetch EXCEPT !.stage = "check", !.answers = answers] /\ audit' = audit
 <2>1. PICK answers \in (IF KindOf[fetch.url] = "name"
                         THEN UNION {[1..n -> Classes] : n \in 0..2}
                         ELSE {<<KindOf[fetch.url]>>}) :
             fetch' = [fetch EXCEPT !.stage = "check", !.answers = answers] /\ audit' = audit
   BY <1>4
 <2>2. answers \in Seq(Kinds)
  <3>1. CASE KindOf[fetch.url] = "name"
   <4>1. PICK n \in 0..2 : answers \in [1..n -> Classes]  BY <3>1
   <4> QED BY <4>1 DEF Kinds
  <3>2. CASE KindOf[fetch.url] # "name"
   <4>1. answers = <<KindOf[fetch.url]>> /\ KindOf[fetch.url] \in Kinds
     BY <1>1, <3>2, KindIs DEF FetchSet
   <4> QED BY <4>1
  <3> QED BY <3>1, <3>2
 <2> QED BY <1>3, <2>1, <2>2
<1> QED BY <1>2, <1>4 DEF ResolveHostname

\* Every address that the name has is allowed, or the call fails.
LEMMA ResolveAllowedAddressKeeps == ASSUME FetchInv, ResolveAllowedAddress PROVE FetchInv'
<1>1. /\ fetch.stage = "check" /\ UNCHANGED <<policy, signals, sent>> /\ fetch \in FetchSet
      /\ fetch.read = 0 /\ ~ fetch.over /\ Len(sent) <= fetch.hops
  BY NothingYet DEF ResolveAllowedAddress, FetchInv, ReadInv
<1>2. CASE Fails("dns_error") \/ Fails("blocked_address")
 <2>1. "dns_error" \in Codes \ {"running", "succeeded"}
       /\ "blocked_address" \in Codes \ {"running", "succeeded"}
   BY DEF Codes
 <2>2. CASE Fails("dns_error")  BY <1>1, <2>1, <2>2, FailsKeeps
 <2>3. CASE Fails("blocked_address")  BY <1>1, <2>1, <2>3, FailsKeeps
 <2> QED BY <1>2, <2>2, <2>3
<1>3. CASE /\ fetch.answers # <<>> /\ \A i \in DOMAIN fetch.answers : Allowed(fetch.answers[i])
           /\ fetch' = [fetch EXCEPT !.stage = "request"] /\ audit' = audit
 <2> QED BY <1>1, <1>3, GoesOnKeeps DEF FetchSet, Allowed, MayGo
<1> QED BY <1>2, <1>3 DEF ResolveAllowedAddress

\* The request goes to an address that was checked.
LEMMA RequestResolvedKeeps == ASSUME FetchInv, RequestResolved PROVE FetchInv'
<1>1. /\ fetch.stage = "request" /\ UNCHANGED <<policy, signals>> /\ fetch \in FetchSet
      /\ fetch.read = 0 /\ ~ fetch.over /\ Len(sent) <= fetch.hops
  BY NothingYet DEF RequestResolved, FetchInv, ReadInv
<1>2. CASE Fails(NormalizeError) /\ sent' = sent  BY <1>1, <1>2, FailsNormalized
<1>3. CASE /\ fetch' = [fetch EXCEPT !.stage = "headers", !.answers = <<>>]
           /\ sent' = Append(sent, [class |-> fetch.answers[1], url |-> fetch.url])
           /\ audit' = audit
 <2> DEFINE post == [class |-> fetch.answers[1], url |-> fetch.url]
 <2>1. /\ fetch' \in FetchSet /\ fetch'.stage = "headers" /\ fetch'.hops = fetch.hops
       /\ fetch'.read = 0 /\ ~ fetch'.over /\ fetch'.response = fetch.response
   BY <1>1, <1>3, NothingRead DEF FetchSet
 <2>4. post \in [class: Kinds, url: Urls] /\ MayGo(post.class, post.url)
   BY <1>1 DEF FetchInv, SentInv, FetchSet
 <2>5. sent \in Seq([class: Kinds, url: Urls])
       /\ \A i \in DOMAIN sent : MayGo(sent[i].class, sent[i].url)
   BY DEF FetchInv, SentInv
 <2>6. sent' = Append(sent, post)  BY <1>3
 <2> HIDE DEF post
 <2>7. /\ sent' \in Seq([class: Kinds, url: Urls]) /\ Len(sent') = Len(sent) + 1
       /\ \A i \in DOMAIN sent' : (i \in DOMAIN sent /\ sent'[i] = sent[i]) \/ sent'[i] = post
   BY <2>4, <2>5, <2>6
 <2>9. Len(sent') <= fetch'.hops + 1
  <3> QED BY <1>1, <2>1, <2>7, <2>5, NothingRead DEF FetchSet
 <2>12. ReadInv'
  <3> QED BY <2>1 DEF ReadInv, FetchSet, Body
 <2>13. ResultIsFaithful' /\ AuditTellsOutcome'
   BY <1>3, <2>1, <1>1, OnItsWay DEF ResultIsFaithful, AuditTellsOutcome
 <2> QED BY <1>1, <1>3, <2>1, <2>12, <2>13, <2>7, <2>9, <2>4, <2>5 DEF FetchInv, SentInv, MayGo
<1> QED BY <1>2, <1>3 DEF RequestResolved

\* The answer redirects, is refused, or has a body.
LEMMA ReceiveHeadersKeeps == ASSUME FetchInv, ReceiveHeaders PROVE FetchInv'
<1>1. /\ fetch.stage = "headers" /\ UNCHANGED <<policy, signals, sent>> /\ fetch \in FetchSet
      /\ fetch.read = 0 /\ ~ fetch.over /\ audit = "running" /\ Len(sent) <= fetch.hops + 1
      /\ fetch.hops \in 0..MaxRedirects /\ fetch.raw \in BOOLEAN
  BY OnItsWay DEF ReceiveHeaders, FetchInv, ReadInv, SentInv, FetchSet
<1>2. CASE Fails("too_many_redirects") \/ Fails("unsupported_content_type")
 <2>1. "too_many_redirects" \in Codes \ {"running", "succeeded"}
       /\ "unsupported_content_type" \in Codes \ {"running", "succeeded"}
   BY DEF Codes
 <2>2. CASE Fails("too_many_redirects")  BY <1>1, <2>1, <2>2, FailsKeeps
 <2>3. CASE Fails("unsupported_content_type")  BY <1>1, <2>1, <2>3, FailsKeeps
 <2> QED BY <1>2, <2>2, <2>3
<1>3. ASSUME NEW to \in Urls, ~ (fetch.hops >= MaxRedirects), audit' = audit,
             fetch' = [Call(to, fetch.raw, "parse") EXCEPT !.hops = fetch.hops + 1]
      PROVE  FetchInv'
 <2>1. fetch.hops + 1 \in 0..MaxRedirects  BY <1>1, <1>3, NothingRead
 <2> QED BY <1>1, <1>3, GoesOnKeeps, <2>1, CallIs
<1>4. ASSUME NEW media \in {"html", "markdown", "text"}, NEW text \in Texts, NEW budget \in Budgets,
             audit' = audit,
             fetch' = [fetch EXCEPT !.stage = "body", !.budget = budget,
                           !.response = [media |-> media, text |-> text]]
      PROVE  FetchInv'
 <2> DEFINE response == [media |-> media, text |-> text]
 <2>1. IsText(text) /\ text \in Seq(Bytes) /\ budget \in Nat
   BY FetchAssumption DEF FetchAssumption, IsText
 <2>2. response \in [media: {"html", "markdown", "text"}, text: {t \in Seq(Bytes) : IsText(t)}]
   BY <2>1
 <2> HIDE DEF response
 <2>4. /\ fetch' \in FetchSet /\ fetch'.stage = "body" /\ fetch'.hops = fetch.hops
       /\ fetch'.read = 0 /\ ~ fetch'.over
   BY <1>1, <2>1, <2>2, <1>4 DEF FetchSet
 <2>6. ReadInv'
  <3> QED BY <2>4, FetchAssumption DEF ReadInv, FetchSet, FetchAssumption, Body, BodyLimit
 <2> QED
   BY <1>1, <1>4, <2>4, <2>6 DEF FetchInv, SentInv, MayGo, ResultIsFaithful,
     AuditTellsOutcome
<1> QED BY <1>2, <1>3, <1>4 DEF ReceiveHeaders

\* The call succeeds with whole characters that fit.
LEMMA SucceedKeeps ==
    ASSUME FetchInv, fetch.stage = "body", UNCHANGED <<policy, signals, sent>>,
           NEW page \in {t \in Seq(Bytes) : IsText(t)}, NEW length \in Nat, NEW cut \in BOOLEAN,
           Succeed(page, length, cut), length <= fetch.budget, Decodes(Prefix(page, length)),
           cut <=> length < Len(page) \/ fetch.read < Len(Body)
    PROVE  FetchInv'
<1>1. /\ fetch' = [fetch EXCEPT !.stage = "done", !.page = page, !.length = length, !.cut = cut]
      /\ audit' = "succeeded" /\ fetch \in FetchSet
  BY DEF Succeed, FetchInv
<1>2. /\ fetch' \in FetchSet /\ fetch'.stage = "done" /\ fetch'.page = page
      /\ fetch'.length = length /\ fetch'.cut = cut /\ fetch'.budget = fetch.budget
      /\ fetch'.read = fetch.read /\ fetch'.response = fetch.response
      /\ fetch'.hops = fetch.hops /\ fetch'.over = fetch.over
  BY <1>1 DEF FetchSet
<1>3. Body' = Body  BY <1>2 DEF Body
<1>6. ResultIsFaithful'  BY <1>1, <1>2, <1>3 DEF ResultIsFaithful
<1>7. AuditTellsOutcome'  BY <1>1, <1>2 DEF AuditTellsOutcome
<1> QED BY <1>1, <1>2, <1>6, <1>7, <1>3 DEF FetchInv, Codes, SentInv, MayGo, ReadInv

\* A body that has ended, or was cut.
LEMMA EndBodyKeeps == ASSUME FetchInv, EndBody PROVE FetchInv'
<1>1. /\ fetch.stage = "body" /\ UNCHANGED <<policy, signals, sent>> /\ fetch \in FetchSet
      /\ fetch.read <= Len(Body) /\ fetch.read <= BodyLimit
      /\ fetch.over => fetch.read < Len(Body)
      /\ fetch.over \/ fetch.read = Len(Body)
  BY DEF EndBody, FetchInv, ReadInv
<1>2. /\ fetch.read \in Nat /\ fetch.over \in BOOLEAN /\ Body \in {t \in Seq(Bytes) : IsText(t)}
      /\ IsText(Body) /\ Len(Body) \in Nat /\ fetch.budget \in Nat
  BY <1>1 DEF FetchSet, Body
<1>3. CASE Decodable = {} /\ Fails("invalid_text_encoding")
 <2>1. ~ Decodes(Body)
  <3>1. SUFFICES ASSUME Decodes(Body) PROVE FALSE  OBVIOUS
  <3>2. \A b \in 1..Len(Body) : Body[b].width # 0  BY <3>1, <1>2, TextIs DEF Decodes
  <3>3. PICK d \in 0..(IF fetch.read < 3 THEN fetch.read ELSE 3) :
            Decodes(Prefix(Body, fetch.read - d))
   <4>1. fetch.read \in 0..Len(Body)  BY <1>1, <1>2
   <4> HIDE DEF Body
   <4> QED BY <1>2, <3>2, <4>1, CutDecodes
  <3>4. CASE fetch.over  BY <1>3, <3>3, <3>4 DEF Decodable, Attempts
  <3>5. CASE ~ fetch.over
   <4>1. Decodes(Prefix(Body, Len(Body)))
    <5> QED BY <1>2, <3>2, DecodesIs, TextIs
   <4> QED BY <1>3, <3>5, <4>1, <1>1, <1>2 DEF Decodable, Attempts
  <3> QED BY <3>4, <3>5
 <2> QED BY <1>1, <1>3, <2>1, FailsKeeps DEF Codes
<1>4. CASE Decodable # {} /\ ~ Converts
 <2>1. PICK dropped : /\ dropped = CHOOSE d \in Decodable : \A e \in Decodable : d <= e
                      /\ Succeed(Body, fetch.read - dropped, fetch.over)
   BY <1>4 DEF EndBody
 <2>2. dropped \in Decodable
  <3>2. \E d \in Decodable : \A e \in Decodable : d <= e
    BY <1>4, LeastNat, <1>2 DEF Decodable, Attempts
  <3> QED BY <2>1, <3>2
 <2>3. /\ dropped \in 0..fetch.read /\ Decodes(Prefix(Body, fetch.read - dropped))
       /\ ~ fetch.over => dropped = 0
   BY <1>2, <2>2 DEF Decodable, Attempts
 <2>4. /\ fetch.read - dropped \in Nat /\ fetch.read - dropped <= fetch.budget
       /\ fetch.over <=> fetch.read - dropped < Len(Body) \/ fetch.read < Len(Body)
  <3> QED BY <1>1, <1>2, <2>3, <1>4 DEF BodyLimit
 <2> QED BY <1>1, <1>2, <2>1, <2>3, <2>4, SucceedKeeps
<1>5. CASE Fails("conversion_failed")
 <2> QED BY <1>1, <1>5, FailsKeeps DEF Codes
<1>6. ASSUME NEW markdown \in Texts, Decodes(markdown),
             Succeed(markdown, TruncateUtf8(markdown, fetch.budget),
                     fetch.over \/ TruncateUtf8(markdown, fetch.budget) < Len(markdown))
      PROVE  FetchInv'
 <2> DEFINE length == TruncateUtf8(markdown, fetch.budget)
            cut == fetch.over \/ length < Len(markdown)
 <2>1. IsText(markdown) /\ markdown \in Seq(Bytes)
   BY FetchAssumption DEF FetchAssumption, IsText
 <2>2. length \in 0..Len(markdown) /\ length <= fetch.budget /\ Decodes(Prefix(markdown, length))
   BY <1>2, <1>6, <2>1, TruncateIs
 <2>3. Succeed(markdown, length, cut) /\ cut \in BOOLEAN  BY <1>6
 <2> HIDE DEF length
 <2>5. cut <=> length < Len(markdown) \/ fetch.read < Len(Body)  BY <1>1, <1>2
 <2> HIDE DEF cut
 <2> QED BY <1>1, <2>1, <2>2, <2>3, <2>5, SucceedKeeps
<1> QED BY <1>3, <1>4, <1>5, <1>6 DEF EndBody

\* Every step of a call keeps all of it.
LEMMA FetchStep == FetchInv /\ [FetchNext]_fetchVars => FetchInv'
<1> SUFFICES ASSUME FetchInv, [FetchNext]_fetchVars PROVE FetchInv'  OBVIOUS
<1>1. CASE UNCHANGED fetchVars
  BY <1>1 DEF fetchVars, FetchInv, SentInv, ReadInv, MayGo, Body, BodyLimit, Converts,
              ResultIsFaithful, AuditTellsOutcome
<1> QED BY <1>1, DeadlineReachedKeeps, ParseUrlKeeps, ResolveHostnameKeeps,
           ResolveAllowedAddressKeeps, RequestResolvedKeeps, RequestFailsKeeps,
           ReceiveHeadersKeeps, ReadChunkKeeps, EndBodyKeeps, SignalKeeps DEF FetchNext

\* FetchIsFaithful (web-fetch.ts): whatever the network answers and whenever the call is cut
\* short, no request goes to an address the policy forbids, redirects are bounded, the model
\* is given whole characters within the budget, marked as cut exactly when something is
\* missing, and the audit row tells what became of the call.
THEOREM FetchStaysFaithful == FetchSpec => []FetchIsFaithful
<1>1. FetchInv => FetchIsFaithful
 <2> SUFFICES ASSUME FetchInv PROVE FetchIsFaithful  OBVIOUS
 <2>2. RequestsAreAllowed
  <3> QED BY NothingRead DEF RequestsAreAllowed, MayGo, FetchInv, FetchSet, SentInv
 <2> QED BY <2>2 DEF FetchInv, FetchIsFaithful, FetchTypeOK, FetchSet, ReadInv
<1>2. FetchSpec => []FetchInv  BY FetchStarts, FetchStep, PTL DEF FetchSpec
<1> QED BY <1>1, <1>2, PTL

-----------------------------------------------------------------------------
(* The section of the configuration, its jar and what is served.               *)

Documents == [image : {Off} \cup Sections, key : Range(ProviderKeys)]
Jars == PartialFunctions(Names, Secrets)
NoneByHand == moves.hand = 0

\* Every model of a document has one of its credentials.
Paired(d) == \A tag \in DOMAIN ModelsOf(d) : ModelsOf(d)[tag] \in DOMAIN CredsOf(d)
\* Two documents that differ by what a hand does to the section at most.
SameSection(d, e) == CredsOf(d) = CredsOf(e) /\ (d.image = Off <=> e.image = Off)
\* The names that the keys of the provider had until now.
Issued == {ProviderKeys[i] : i \in 1..moves.key}

MovesInv ==
    /\ moves \in [save : Nat, key : 1..Len(ProviderKeys), hand : Nat, crash : Nat]
    /\ stale \in BOOLEAN

SaveBodies == [secrets : PartialFunctions(Credentials, Secrets), sources : SUBSET Credentials,
          models : PartialFunctions(DOMAIN Endpoints, Credentials)]

\* What a body asks for, under the document it was made for.
BodyFits(body, d) ==
    /\ body \in SaveBodies
    /\ Range(body.models) \subseteq DOMAIN CredsOf(Loaded(d)) \cup DOMAIN body.secrets \cup body.sources

\* The file and the jar.
FileInv ==
    /\ document \in Documents /\ Paired(document) /\ document.key \in Issued
    /\ entries \in Jars
    /\ ReferencesResolve
    /\ NoneByHand => Loaded(document) = document
    /\ form # Off => form \in Documents /\ form.key \in Issued

Puts == [what : {"put"}, stage : {"check", "load", "wait", "locked"}, enabled : BOOLEAN,
         body : SaveBodies \cup {Off}, revision : Documents, creds : PartialFunctions(Credentials, Names)]

SavingInv ==
    \/ saving = Done
    \/ /\ saving \in Puts /\ saving.revision.key \in Issued
       /\ saving.enabled => BodyFits(saving.body, saving.revision)
       /\ saving.stage = "load" => saving.enabled
       /\ saving.stage \in {"load", "wait"} /\ NoneByHand => SameSection(document, saving.revision)
       /\ /\ saving.enabled /\ document.key = saving.revision.key
          /\ saving.stage = "wait" \/ (saving.stage = "locked" /\ writing.stage = "write" /\ writing.by = "image")
          => Range(saving.creds) \subseteq ReferencedJarNames(document) \cup DOMAIN saving.body.secrets
       /\ saving.stage \in {"wait", "locked"} /\ saving.enabled =>
             /\ Range(saving.body.models) \subseteq DOMAIN saving.creds
             /\ \A c \in DOMAIN saving.body.secrets : c \in DOMAIN saving.creds /\ saving.creds[c] = c

ImageWrites == [stage : {"write"}, by : {"image"}, revision : Documents]
KeyWrites == [stage : {"write"}, by : {"provider"}, revision : Documents,
              key : Range(ProviderKeys), secret : Secrets]
Commits == [stage : {"keys", "rename", "release"}, by : {"image", "provider"},
            source : Documents, next : Documents, added : Jars]
Applies == [stage : {"file"}, by : {"image", "provider", "apply"}]
Preparations == [stage : {"prepare"}, by : {"image", "provider", "apply"}, file : Documents]

\* What holds the lock.
WritingShape ==
    /\ writing.stage \in {"idle", "write", "keys", "rename", "release", "file", "prepare"}
    /\ writing.stage = "idle" => writing = Unlocked
    /\ writing.stage = "write" => writing \in ImageWrites \cup KeyWrites
    /\ writing.stage \in {"keys", "rename", "release"} => writing \in Commits
    /\ writing.stage = "file" => writing \in Applies
    /\ writing.stage = "prepare" => writing \in Preparations
    /\ writing.stage # "idle" /\ writing.by = "image" => saving.what = "put" /\ saving.stage = "locked"
    /\ writing.stage = "write" /\ writing.by = "image" => writing.revision = saving.revision

\* A key of the provider is new until its write is done.
NewKey ==
    /\ writing.stage = "write" /\ writing.by = "provider" => writing.key = ProviderKeys[moves.key]
    /\ writing.stage \in {"keys", "rename"} /\ writing.by = "provider" => writing.next.key = ProviderKeys[moves.key]
    /\ writing.stage \in {"write", "keys", "rename"} /\ writing.by = "provider" =>
          /\ document.key # ProviderKeys[moves.key]
          /\ form # Off => form.key # ProviderKeys[moves.key]
          /\ saving.what = "put" => saving.revision.key # ProviderKeys[moves.key]

\* Between two steps of a write.
CommitInv ==
    /\ writing.stage \in {"keys", "rename", "release"} =>
          /\ Paired(writing.next) /\ writing.next.key \in Issued
          /\ DOMAIN writing.added \subseteq ReferencedJarNames(writing.next)
          /\ NoneByHand => Loaded(writing.next) = writing.next
    /\ writing.stage \in {"keys", "rename"} => ReferencedJarNames(writing.source) = ReferencedJarNames(document)
    /\ writing.stage \in {"keys", "rename"} /\ NoneByHand =>
          /\ writing.source = document
          /\ writing.by = "provider" => SameSection(writing.next, document)
    /\ writing.stage = "keys" =>
          ReferencedJarNames(writing.next) \subseteq DOMAIN entries \cup pruned \cup DOMAIN writing.added
    /\ writing.stage = "rename" =>
          /\ ReferencedJarNames(writing.next) \subseteq DOMAIN entries \cup pruned
          /\ ReferencedJarNames(document) \subseteq (DOMAIN entries \ DOMAIN writing.added) \cup pruned
    /\ writing.stage = "release" => ReferencedJarNames(document) = ReferencedJarNames(writing.next)
    /\ writing.stage = "prepare" =>
          /\ Paired(writing.file)
          /\ Range(CredsOf(writing.file)) \subseteq DOMAIN entries \cup pruned
          /\ ~stale => writing.file = Loaded(document)

\* What a write in progress adds to the jar besides what the file refers to.
Extra == IF writing.stage = "rename" THEN DOMAIN writing.added
         ELSE IF writing.stage = "release" THEN ReferencedJarNames(writing.source) ELSE {}
TidyInv == DOMAIN entries \subseteq ReferencedJarNames(document) \cup Extra \cup leftover

\* What is served, until the file is renamed.
ServingInv ==
    ~stale /\ writing.stage \in {"idle", "write", "keys", "rename"} =>
        /\ serving = Prepared(Loaded(document))
        /\ Range(CredsOf(Loaded(document))) \subseteq
              DOMAIN entries \ (IF writing.stage = "rename" THEN DOMAIN writing.added ELSE {})

FailedInv ==
    /\ "contract" \notin failed
    /\ NoneByHand => "invalid" \notin failed
    /\ pruned = {} => "unresolved" \notin failed

SettingsInv ==
    /\ MovesInv /\ FileInv /\ SavingInv /\ WritingShape /\ NewKey /\ CommitInv
    /\ TidyInv /\ ServingInv /\ FailedInv

-----------------------------------------------------------------------------
(* Documents.                                                                  *)

\* What a partial function is.
LEMMA PartialIs ==
    ASSUME NEW S, NEW T, NEW f
    PROVE  f \in PartialFunctions(S, T)
           <=> DOMAIN f \subseteq S /\ f = [x \in DOMAIN f |-> f[x]] /\ \A x \in DOMAIN f : f[x] \in T
BY DEF PartialFunctions

\* What is read of a document.
LEMMA DocumentIs ==
    ASSUME NEW d \in Documents
    PROVE  /\ d.key \in Range(ProviderKeys) /\ d.image # Off => d.image \in Sections
           /\ CredsOf(d) \in PartialFunctions(Credentials, Names)
           /\ ModelsOf(d) \in PartialFunctions(DOMAIN Endpoints, Credentials) \cup {NoCreds}
           /\ ReferencedJarNames(d) = {d.key} \cup Range(CredsOf(d))
           /\ d.image = Off => CredsOf(d) = NoCreds /\ ModelsOf(d) = NoCreds
           /\ d.image # Off => CredsOf(d) = d.image.creds /\ ModelsOf(d) = d.image.models
<1>2. DOMAIN NoCreds = {} /\ NoCreds = [x \in {} |-> ""] /\ Range(NoCreds) = {}
  BY DEF NoCreds, Range
<1>3. NoCreds \in PartialFunctions(Credentials, Names)
 <2> QED BY <1>2 DEF PartialFunctions
<1> QED BY <1>2, <1>3 DEF CredsOf, ModelsOf, ReferencedJarNames, Sections, Documents

\* What is loaded is the document, or the document without its section.
LEMMA LoadedIs ==
    ASSUME NEW d \in Documents
    PROVE  /\ Loaded(d) \in Documents /\ Loaded(d).key = d.key
           /\ Loaded(d) = d \/ Loaded(d).image = Off
           /\ Range(CredsOf(Loaded(d))) \subseteq Range(CredsOf(d))
           /\ DOMAIN CredsOf(Loaded(d)) \subseteq DOMAIN CredsOf(d)
           /\ Paired(d) => Paired(Loaded(d))
<1>1. CASE Loaded(d) = d  BY <1>1
<1>2. CASE Loaded(d) = [d EXCEPT !.image = Off]
 <2>3. DOMAIN NoCreds = {} /\ Range(NoCreds) = {}  BY DEF NoCreds, Range
 <2> QED BY <2>3, DocumentIs, <1>2 DEF Paired, Documents
<1> QED BY <1>1, <1>2 DEF Loaded

\* The names of a document are names of the jar.
LEMMA ReferencesAre ==
    ASSUME NEW d \in Documents
    PROVE  ReferencedJarNames(d) \subseteq Names /\ Range(CredsOf(d)) \subseteq ReferencedJarNames(d)
           /\ Range(CredsOf(Loaded(d))) \subseteq ReferencedJarNames(d)
           /\ ReferencedJarNames(Loaded(d)) \subseteq ReferencedJarNames(d)
<1>1. Range(CredsOf(d)) \subseteq Names
 <2> QED BY PartialIs, DocumentIs DEF Range
<1> QED BY <1>1, DocumentIs, LoadedIs DEF Documents, Names

\* A document whose models have their credentials passes the contract.
LEMMA ContractHolds ==
    ASSUME NEW d \in Documents, Paired(d)
    PROVE  Contracted(d)
<1> SUFFICES ASSUME NEW tag \in DOMAIN ModelsOf(d) PROVE Definable(Capabilities(Endpoints[tag]))
  BY DEF Contracted, Paired
<1>1. tag \in DOMAIN Endpoints
 <2> QED BY PartialIs, DocumentIs DEF NoCreds
<1> DEFINE i == Endpoints[tag].inputs[2]
           o == Endpoints[tag].outputs[2]
<1>3. i \in Nat /\ o \in Nat  BY <1>1, SettingsAssumption DEF SettingsAssumption
<1> DEFINE most == Least(MaxInputs, i)
           takes == most > 0
           gives == IF o < 1 THEN 1 ELSE Least(MaxOutputs, o)
<1>6. Capabilities(Endpoints[tag]) = [imageInput |-> takes, maxInputImages |-> most, maxOutputs |-> gives]
  BY DEF Capabilities
<1>7. most \in 0..16 /\ gives \in 1..10 /\ (takes <=> most > 0) /\ takes \in BOOLEAN
  BY <1>3 DEF Least, MaxInputs, MaxOutputs
<1> HIDE DEF most, takes, gives
<1> DEFINE caps == Capabilities(Endpoints[tag])
<1> HIDE DEF caps
<1> QED BY <1>7, <1>6 DEF caps, Definable, MaxInputs, MaxOutputs

\* What is prepared of a document depends on the entries it refers to.
LEMMA PreparedAgrees ==
    ASSUME NEW d \in Documents, \A n \in Range(CredsOf(d)) : entries'[n] = entries[n]
    PROVE  Prepared(d)' = Prepared(d)
<1>1. CASE d.image = Off  BY <1>1 DEF Prepared
<1>2. CASE d.image # Off
 <2> QED BY <1>2, DocumentIs DEF Prepared, Range
<1> QED BY <1>1, <1>2

-----------------------------------------------------------------------------
(* The page and the request.                                                   *)

\* What a step leaves alone that moves nothing but the page and the request.
LEMMA DiskStays ==
    ASSUME SettingsInv, UNCHANGED <<document, entries, serving, writing, stale, pruned, leftover>>,
           moves' \in [save : Nat, key : 1..Len(ProviderKeys), hand : Nat, crash : Nat],
           moves'.key = moves.key, moves'.hand = moves.hand, moves'.crash = moves.crash,
           form' # Off => form' \in Documents /\ form'.key \in Issued
    PROVE  /\ MovesInv' /\ FileInv' /\ CommitInv' /\ TidyInv' /\ ServingInv'
           /\ Issued' = Issued /\ (NoneByHand' <=> NoneByHand)
<1>1. Issued' = Issued /\ (NoneByHand' <=> NoneByHand)
  BY DEF Issued, NoneByHand
<1>4. CommitInv'  BY <1>1 DEF SettingsInv, CommitInv
<1>5. TidyInv'  BY <1>1 DEF SettingsInv, TidyInv, Extra
<1>6. ServingInv'
 <2> QED BY DEF SettingsInv, ServingInv, Prepared
<1> QED BY <1>1, <1>4, <1>5, <1>6 DEF SettingsInv, FileInv, ReferencesResolve, MovesInv

\* The page is loaded.
LEMMA OpenFormKeeps == ASSUME SettingsInv, OpenForm PROVE SettingsInv'
<1>1. /\ form' = document
      /\ UNCHANGED <<document, entries, serving, saving, writing, stale, pruned, leftover, failed, moves>>
  BY DEF OpenForm
<1>3. /\ MovesInv' /\ FileInv' /\ CommitInv' /\ TidyInv' /\ ServingInv'
      /\ Issued' = Issued /\ (NoneByHand' <=> NoneByHand)
  BY <1>1, DiskStays DEF SettingsInv, FileInv, MovesInv
<1>6. NewKey'  BY <1>1 DEF SettingsInv, NewKey
<1>7. FailedInv'  BY <1>1, <1>3 DEF SettingsInv, FailedInv
<1> QED BY <1>3, <1>6, <1>7, <1>1 DEF SettingsInv, SavingInv, Puts, WritingShape

\* What the form lets through fits the document of the page.
LEMMA BodiesFit ==
    ASSUME NEW body \in FormBodies
    PROVE  BodyFits(body, form)
<1>1. /\ body \in [secrets : PartialFunctions(Credentials, Secrets), sources : SUBSET (Credentials \ DOMAIN CredsOf(Loaded(form))),
                  models : UNION {[S -> Credentials] : S \in (SUBSET DOMAIN Endpoints) \ {{}}}]
      /\ Range(body.models) \subseteq DOMAIN CredsOf(Loaded(form)) \cup DOMAIN body.secrets \cup body.sources
  BY DEF FormBodies
<1> QED BY <1>1 DEF BodyFits, SaveBodies, PartialFunctions

\* The operator saves.
LEMMA PutKeeps == ASSUME SettingsInv, Put PROVE SettingsInv'
<1>1. /\ form # Off /\ saving = Done
      /\ moves' = [moves EXCEPT !.save = @ + 1]
      /\ UNCHANGED <<document, entries, serving, form, writing, stale, pruned, leftover, failed>>
  BY DEF Put, Moved
<1>2. PICK body \in FormBodies \cup {Off} :
          saving' = [what |-> "put", stage |-> "check", enabled |-> body # Off, body |-> body,
                     revision |-> form, creds |-> NoCreds]
  BY DEF Put
<1> DEFINE enabled == body # Off
<1>3. saving' = [what |-> "put", stage |-> "check", enabled |-> enabled, body |-> body,
                 revision |-> form, creds |-> NoCreds] /\ enabled \in BOOLEAN
  BY <1>2
<1>4. enabled => BodyFits(body, form)  BY BodiesFit
<1> HIDE DEF enabled
<1>5. /\ saving'.what = "put" /\ saving'.stage = "check" /\ saving'.body = body
      /\ saving'.revision = form /\ saving'.enabled = enabled
  BY <1>3
<1>6. form \in Documents /\ form.key \in Issued  BY <1>1 DEF SettingsInv, FileInv
<1>7. /\ moves' \in [save : Nat, key : 1..Len(ProviderKeys), hand : Nat, crash : Nat]
      /\ moves'.key = moves.key /\ moves'.hand = moves.hand /\ moves'.crash = moves.crash
  BY <1>1 DEF SettingsInv, MovesInv
<1>8. /\ MovesInv' /\ FileInv' /\ CommitInv' /\ TidyInv' /\ ServingInv'
      /\ Issued' = Issued /\ (NoneByHand' <=> NoneByHand)
  BY <1>1, <1>6, <1>7, DiskStays
<1>9. SavingInv'
 <2>1. NoCreds \in PartialFunctions(Credentials, Names)
  <3> QED BY DEF PartialFunctions, NoCreds
 <2>5. saving'.enabled => BodyFits(saving'.body, saving'.revision)  BY <1>4, <1>5
 <2> QED BY <1>5, <2>5, <1>6, <1>8, <1>3, <2>1, BodiesFit DEF SavingInv, Puts, BodyFits
<1>10. WritingShape'
 <2> QED BY <1>1 DEF SettingsInv, WritingShape, Done
<1> QED BY <1>8, <1>9, <1>10, <1>1, <1>5, <1>7 DEF SettingsInv, NewKey, FailedInv

\* A request moves on to another stage.
LEMMA StageMoves ==
    ASSUME NEW p \in Puts, NEW stage \in {"check", "load", "wait", "locked"}
    PROVE  LET q == [p EXCEPT !.stage = stage]
           IN /\ q \in Puts /\ q.what = "put" /\ q.stage = stage /\ q.enabled = p.enabled
              /\ q.body = p.body /\ q.revision = p.revision /\ q.creds = p.creds
BY DEF Puts

LEMMA CredsMove ==
    ASSUME NEW p \in Puts, NEW creds \in PartialFunctions(Credentials, Names)
    PROVE  LET q == [p EXCEPT !.stage = "wait", !.creds = creds]
           IN /\ q \in Puts /\ q.what = "put" /\ q.stage = "wait" /\ q.enabled = p.enabled
              /\ q.body = p.body /\ q.revision = p.revision /\ q.creds = creds
BY DEF Puts

\* The request is answered before it takes the lock.
LEMMA AnswerKeeps ==
    ASSUME SettingsInv, NEW code, Answer(code), saving.what = "put", saving.stage \in {"check", "load"},
           code # "contract" /\ code # "unresolved", code = "invalid" => ~NoneByHand,
           UNCHANGED <<document, entries, serving, form, writing, stale, pruned, leftover, moves>>
    PROVE  SettingsInv'
<1>1. saving' = Done /\ failed' = failed \cup ({code} \ {"ok"}) /\ Done.what = "none"
  BY DEF Answer, Done
<1>3. /\ MovesInv' /\ FileInv' /\ CommitInv' /\ TidyInv' /\ ServingInv'
      /\ Issued' = Issued /\ (NoneByHand' <=> NoneByHand)
  BY DiskStays DEF SettingsInv, FileInv, MovesInv
<1>5. WritingShape'
 <2> QED BY DEF SettingsInv, WritingShape
<1>7. FailedInv'  BY <1>1, <1>3 DEF SettingsInv, FailedInv
<1> QED BY <1>3, <1>5, <1>7, <1>1 DEF SettingsInv, NewKey, SavingInv, Done

\* The request goes on, in the same revision.
LEMMA GoesOn ==
    ASSUME SettingsInv, saving.what = "put", saving.stage \in {"check", "load"}, saving'.what = "put",
           saving'.stage # "locked", saving'.revision = saving.revision, SavingInv',
           UNCHANGED <<document, entries, serving, form, writing, stale, pruned, leftover, moves, failed>>
    PROVE  SettingsInv'
<1>2. /\ MovesInv' /\ FileInv' /\ CommitInv' /\ TidyInv' /\ ServingInv'
      /\ Issued' = Issued /\ (NoneByHand' <=> NoneByHand)
  BY DiskStays DEF SettingsInv, FileInv, MovesInv
<1>3. WritingShape'
 <2> QED BY DEF SettingsInv, WritingShape
<1> QED BY <1>2, <1>3 DEF SettingsInv, NewKey, FailedInv

\* The revision of the page is the one of the file, or the request is refused.
LEMMA CheckRevisionKeeps == ASSUME SettingsInv, CheckRevision PROVE SettingsInv'
<1>1. /\ saving.what = "put" /\ saving.stage = "check"
      /\ UNCHANGED <<document, entries, serving, form, writing, stale, pruned, leftover, moves>>
  BY DEF CheckRevision
<1>2. CASE Answer("conflict")  BY <1>1, <1>2, AnswerKeeps
<1>3. CASE /\ saving.revision = document /\ failed' = failed
           /\ saving' = [saving EXCEPT !.stage = IF saving.enabled THEN "load" ELSE "wait"]
 <2>1. /\ saving \in Puts /\ saving.revision.key \in Issued
       /\ saving.enabled => BodyFits(saving.body, saving.revision)
   BY <1>1 DEF SettingsInv, SavingInv, Done
 <2> DEFINE stage == IF saving.enabled THEN "load" ELSE "wait"
 <2>2. stage \in {"load", "wait"} /\ saving' = [saving EXCEPT !.stage = stage]  BY <1>3
 <2> HIDE DEF stage
 <2>4. /\ saving' \in Puts /\ saving'.what = "put" /\ saving'.stage = stage
       /\ saving'.revision = saving.revision /\ saving'.enabled = saving.enabled
       /\ saving'.body = saving.body
  <3>1. saving \in Puts /\ stage \in {"check", "load", "wait", "locked"}  BY <2>1, <2>2
  <3> QED BY <2>2, <3>1, StageMoves
 <2>6. SavingInv'  BY <1>1, <1>3, <2>1, <2>2, <2>4 DEF SavingInv, SameSection, Issued
 <2> QED BY <1>1, <1>3, <2>2, <2>4, <2>6, GoesOn
<1> QED BY <1>2, <1>3 DEF CheckRevision

\* The section is put together of what is saved and what the form adds.
LEMMA LoadSectionKeeps == ASSUME SettingsInv, LoadSection PROVE SettingsInv'
<1> DEFINE file == Loaded(document)
           body == saving.body
           creds == [c \in DOMAIN CredsOf(file) \cup body.sources \cup DOMAIN body.secrets |->
                        IF c \in DOMAIN body.secrets THEN c
                        ELSE IF c \in body.sources THEN file.key ELSE CredsOf(file)[c]]
<1>1. /\ saving.what = "put" /\ saving.stage = "load"
      /\ UNCHANGED <<document, entries, serving, form, writing, stale, pruned, leftover, moves>>
  BY DEF LoadSection
<1>2. \/ ~(Range(body.models) \subseteq DOMAIN creds) /\ Answer("invalid")
      \/ /\ Range(body.models) \subseteq DOMAIN creds
         /\ saving' = [saving EXCEPT !.stage = "wait", !.creds = creds] /\ failed' = failed
  BY DEF LoadSection
<1>3. /\ saving \in Puts /\ saving.revision.key \in Issued
      /\ saving.enabled => BodyFits(saving.body, saving.revision)
      /\ NoneByHand => SameSection(document, saving.revision)
      /\ saving.enabled
  BY <1>1 DEF SettingsInv, SavingInv, Done
<1>4. document \in Documents /\ (NoneByHand => Loaded(document) = document)
  BY DEF SettingsInv, FileInv
<1>5. /\ file \in Documents /\ file.key = document.key
      /\ Range(CredsOf(file)) \subseteq Range(CredsOf(document))
  BY <1>4, LoadedIs
<1>6. /\ body \in SaveBodies /\ saving.revision \in Documents
      /\ Range(body.models) \subseteq DOMAIN CredsOf(Loaded(saving.revision))
                                      \cup DOMAIN body.secrets \cup body.sources
  BY <1>3 DEF BodyFits, Puts
<1>7. /\ DOMAIN body.secrets \subseteq Credentials /\ body.sources \subseteq Credentials
      /\ DOMAIN CredsOf(file) \subseteq Credentials /\ Range(CredsOf(file)) \subseteq Names
 <2> QED BY PartialIs, <1>6, <1>5, DocumentIs DEF Range, SaveBodies
<1>8. DOMAIN creds = DOMAIN CredsOf(file) \cup body.sources \cup DOMAIN body.secrets  OBVIOUS
<1>9. \A c \in DOMAIN creds :
          creds[c] = IF c \in DOMAIN body.secrets THEN c
                     ELSE IF c \in body.sources THEN file.key ELSE CredsOf(file)[c]
  OBVIOUS
<1> HIDE DEF creds
<1>10. creds \in PartialFunctions(Credentials, Names)
 <2>1. creds \in [DOMAIN creds -> Names]
  <3>3. ASSUME NEW c \in DOMAIN creds PROVE creds[c] \in Names
    BY <1>7, <1>8, <1>9, <1>5 DEF Range, Names, Documents
  <3> HIDE DEF file, body
  <3> QED BY <3>3 DEF creds
 <2> QED BY <2>1, <1>7, <1>8 DEF PartialFunctions
<1>11. CASE ~(Range(body.models) \subseteq DOMAIN creds) /\ Answer("invalid")
 <2>1. ASSUME NoneByHand PROVE FALSE
  <3> QED BY <1>6, <1>8, <1>11, <1>3, <1>4, <2>1, LoadedIs DEF SameSection
 <2> QED BY <1>1, <1>11, <2>1, AnswerKeeps
<1>12. CASE /\ Range(body.models) \subseteq DOMAIN creds
            /\ saving' = [saving EXCEPT !.stage = "wait", !.creds = creds] /\ failed' = failed
 <2>1. /\ saving' \in Puts /\ saving'.what = "put" /\ saving'.stage = "wait"
       /\ saving'.revision = saving.revision /\ saving'.enabled = saving.enabled
       /\ saving'.body = saving.body /\ saving'.creds = creds
  <3>1. saving \in Puts /\ saving' = [saving EXCEPT !.stage = "wait", !.creds = creds]
    BY <1>3, <1>12
  <3> QED BY <3>1, <1>10, CredsMove
 <2>3. Range(creds) \subseteq ReferencedJarNames(document) \cup DOMAIN body.secrets
  <3>2. ASSUME NEW c \in DOMAIN creds
        PROVE  creds[c] \in ReferencedJarNames(document) \cup DOMAIN body.secrets
    BY <1>8, <1>9, <1>4, <1>5, DocumentIs DEF Range
  <3> QED BY <3>2 DEF Range
 <2>5. SavingInv'
   BY <1>1, <1>3, <1>12, <2>1, <2>3, <1>8, <1>9 DEF SavingInv, Issued,
     NoneByHand
 <2> QED BY <1>1, <1>12, <2>1, <2>5, GoesOn
<1> QED BY <1>2, <1>11, <1>12

-----------------------------------------------------------------------------
(* The lock.                                                                   *)

MoveSet == [save : Nat, key : 1..Len(ProviderKeys), hand : Nat, crash : Nat]

\* What the taking of the lock leaves as it is.
LEMMA LockTaken ==
    ASSUME SettingsInv, writing = Unlocked,
           UNCHANGED <<document, entries, serving, form, stale, pruned, leftover, failed>>,
           writing'.stage \in {"write", "file"}, moves' \in MoveSet,
           moves.key <= moves'.key, moves'.hand = moves.hand, moves'.crash = moves.crash
    PROVE  /\ MovesInv' /\ FileInv' /\ CommitInv' /\ TidyInv' /\ ServingInv' /\ FailedInv'
           /\ Issued \subseteq Issued' /\ (NoneByHand' <=> NoneByHand)
<1>1. moves.key \in Nat /\ moves'.key \in Nat /\ writing.stage = "idle"
  BY DEF SettingsInv, MovesInv, MoveSet, Unlocked
<1>2. Issued \subseteq Issued' /\ (NoneByHand' <=> NoneByHand)
  BY <1>1 DEF Issued, NoneByHand
<1>5. CommitInv'  BY DEF CommitInv
<1>6. TidyInv'  BY <1>1, <1>2 DEF SettingsInv, TidyInv, Extra
<1>7. ServingInv'
 <2> QED BY <1>1 DEF SettingsInv, ServingInv, Prepared
<1>8. FailedInv'  BY <1>2 DEF SettingsInv, FailedInv
<1> QED
  BY <1>2, <1>5, <1>6, <1>7, <1>8 DEF SettingsInv, FileInv, ReferencesResolve,
    MovesInv, MoveSet

\* A save takes the lock.
LEMMA BeginSaveKeeps == ASSUME SettingsInv, BeginSave PROVE SettingsInv'
<1>1. /\ writing = Unlocked /\ saving.what = "put" /\ saving.stage = "wait"
      /\ saving' = [saving EXCEPT !.stage = "locked"]
      /\ writing' = [stage |-> "write", by |-> "image", revision |-> saving.revision]
      /\ UNCHANGED <<document, entries, serving, form, stale, pruned, leftover, failed, moves>>
  BY DEF BeginSave
<1>2. saving \in Puts  BY <1>1 DEF SettingsInv, SavingInv, Done
<1>3. /\ saving' \in Puts /\ saving'.what = "put" /\ saving'.stage = "locked"
      /\ saving'.revision = saving.revision /\ saving'.enabled = saving.enabled
      /\ saving'.body = saving.body /\ saving'.creds = saving.creds
  BY <1>1, <1>2, StageMoves
<1>4. /\ writing'.stage = "write" /\ writing'.by = "image" /\ writing'.revision = saving.revision
      /\ writing' \in ImageWrites
  BY <1>1, <1>2 DEF ImageWrites, Puts
<1>8. WritingShape'  BY <1>3, <1>4 DEF WritingShape
<1>9. NewKey'  BY <1>4 DEF NewKey
<1> QED
  BY <1>8, <1>9, <1>1, <1>3, <1>4, LockTaken DEF SettingsInv, SavingInv, Done,
    MovesInv, MoveSet

\* Names of keys that were issued are not the next one.
LEMMA NextIsNew ==
    ASSUME MovesInv, moves.key < Len(ProviderKeys), NEW name \in Issued
    PROVE  name # ProviderKeys[moves.key + 1] /\ ProviderKeys[moves.key + 1] \in Range(ProviderKeys)
<1>1. PICK i \in 1..moves.key : name = ProviderKeys[i]  BY DEF Issued
<1> QED BY <1>1, SettingsAssumption DEF SettingsAssumption, Range, MovesInv

\* A new key of the provider takes the lock.
LEMMA BeginKeyKeeps == ASSUME SettingsInv, BeginKey PROVE SettingsInv'
<1>1. /\ writing = Unlocked /\ moves.key < Len(ProviderKeys)
      /\ moves' = [moves EXCEPT !.key = @ + 1]
      /\ UNCHANGED <<document, entries, serving, form, saving, stale, pruned, leftover, failed>>
  BY DEF BeginKey, Moved
<1>2. PICK s \in Secrets :
          writing' = [stage |-> "write", by |-> "provider", revision |-> document,
                      key |-> ProviderKeys[moves.key + 1], secret |-> s]
  BY DEF BeginKey
<1>3. MovesInv /\ document \in Documents /\ document.key \in Issued
      /\ (form # Off => form.key \in Issued)
      /\ (saving.what = "put" => saving.revision.key \in Issued)
  BY DEF SettingsInv, FileInv, SavingInv, Done
<1>4. /\ document.key # ProviderKeys[moves.key + 1]
      /\ form # Off => form.key # ProviderKeys[moves.key + 1]
      /\ saving.what = "put" => saving.revision.key # ProviderKeys[moves.key + 1]
      /\ ProviderKeys[moves.key + 1] \in Range(ProviderKeys)
  BY <1>1, <1>3, NextIsNew
<1>5. /\ writing'.stage = "write" /\ writing'.by = "provider"
      /\ writing'.key = ProviderKeys[moves.key + 1] /\ writing' \in KeyWrites
  BY <1>2, <1>3, <1>4 DEF KeyWrites
<1>6. /\ moves' \in MoveSet /\ moves'.key = moves.key + 1 /\ moves.key \in Nat
      /\ moves'.hand = moves.hand /\ moves'.crash = moves.crash
 <2> QED BY <1>1, <1>3, SettingsAssumption DEF MovesInv, MoveSet, SettingsAssumption
<1>9. WritingShape'  BY <1>5 DEF WritingShape
<1>10. NewKey'  BY <1>1, <1>4, <1>5, <1>6 DEF NewKey
<1> QED BY <1>9, <1>10, <1>1, <1>3, <1>5, <1>6, LockTaken DEF SettingsInv, SavingInv

\* An apply of the file takes the lock.
LEMMA BeginApplyKeeps == ASSUME SettingsInv, BeginApply PROVE SettingsInv'
<1>1. /\ writing = Unlocked /\ writing' = [stage |-> "file", by |-> "apply"]
      /\ UNCHANGED <<document, entries, serving, form, saving, stale, pruned, leftover, failed, moves>>
  BY DEF BeginApply
<1>2. writing'.stage = "file" /\ writing'.by = "apply" /\ writing' \in Applies
  BY <1>1 DEF Applies
<1>6. WritingShape'  BY <1>2 DEF WritingShape
<1>7. NewKey'  BY <1>2 DEF NewKey
<1> QED BY <1>6, <1>7, <1>1, <1>2, LockTaken DEF SettingsInv, SavingInv, MovesInv, MoveSet

\* The lock is given back.
LEMMA UnlockKeeps ==
    ASSUME SettingsInv, NEW code, Unlock(code), UNCHANGED <<document, form, pruned, moves>>,
           MovesInv', FileInv', TidyInv', ServingInv',
           code # "contract" /\ code # "invalid", code = "unresolved" => pruned # {}
    PROVE  SettingsInv'
<1>1. /\ writing' = Unlocked /\ writing'.stage = "idle" /\ failed' = failed \cup ({code} \ {"ok"})
      /\ saving' = Done \/ saving' = saving
  BY DEF Unlock, Answer, Unlocked
<1>2. Issued' = Issued /\ (NoneByHand' <=> NoneByHand)  BY DEF Issued, NoneByHand
<1>5. FailedInv'  BY <1>1, <1>2 DEF SettingsInv, FailedInv
<1> QED BY <1>5, <1>1, <1>2 DEF SettingsInv, SavingInv, WritingShape, NewKey, CommitInv

-----------------------------------------------------------------------------
(* The text.                                                                   *)

\* A write that changed nothing gives the lock back.
LEMMA NothingChanged ==
    ASSUME SettingsInv, NEW code \in {"conflict", "unchanged", "taken", "disk"}, Unlock(code),
           writing.stage \in {"write", "keys"},
           UNCHANGED <<document, entries, serving, form, stale, pruned, leftover, moves>>
    PROVE  SettingsInv'
<1>1. writing'.stage = "idle"  BY DEF Unlock, Unlocked
<1>2. Issued' = Issued /\ (NoneByHand' <=> NoneByHand)
  BY DEF Issued, NoneByHand
<1>3. MovesInv'  BY DEF SettingsInv, MovesInv
<1>4. FileInv'  BY <1>2 DEF SettingsInv, FileInv, ReferencesResolve
<1>5. TidyInv'  BY <1>1, <1>2 DEF SettingsInv, TidyInv, Extra
<1>6. ServingInv'
 <2> QED BY <1>1 DEF SettingsInv, ServingInv, Prepared
<1> QED BY <1>3, <1>4, <1>5, <1>6, UnlockKeeps

\* What is to be written, and the keys for it.
NextFits(next, added) ==
    /\ next \in Documents /\ added \in Jars /\ Paired(next) /\ next.key \in Issued
    /\ DOMAIN added \subseteq ReferencedJarNames(next)
    /\ ReferencedJarNames(next) \subseteq DOMAIN entries \cup pruned \cup DOMAIN added
    /\ NoneByHand => Loaded(next) = next

\* A document without its section.
LEMMA OffFits ==
    ASSUME SettingsInv
    PROVE  NextFits([document EXCEPT !.image = Off], NoCreds)
<1> DEFINE next == [document EXCEPT !.image = Off]
<1>1. document \in Documents /\ document.key \in Issued /\ ReferencesResolve
  BY DEF SettingsInv, FileInv
<1>2. next \in Documents /\ next.image = Off /\ next.key = document.key  BY <1>1 DEF Documents
<1> HIDE DEF next
<1>3. DOMAIN NoCreds = {} /\ Range(NoCreds) = {} /\ NoCreds \in [{} -> Secrets]
  BY DEF NoCreds, Range
<1>4. NoCreds \in Jars
 <2> QED BY <1>3 DEF Jars, PartialFunctions
<1>5. CredsOf(next) = NoCreds /\ ModelsOf(next) = NoCreds  BY <1>2, DocumentIs
<1>8. Loaded(next) = next  BY <1>2 DEF Loaded
<1>9. NextFits(next, NoCreds)
  BY <1>1, <1>2, <1>3, <1>4, <1>8, <1>5, DocumentIs DEF NextFits,
    ReferencesResolve, Paired
<1> QED BY <1>9 DEF next

\* A document with a new key of the provider.
LEMMA KeyFits ==
    ASSUME SettingsInv, NEW key \in Range(ProviderKeys), key \in Issued, NEW s \in Secrets
    PROVE  /\ NextFits([document EXCEPT !.key = key], [k \in {key} |-> s])
           /\ SameSection([document EXCEPT !.key = key], document)
           /\ [document EXCEPT !.key = key].key = key
<1> DEFINE next == [document EXCEPT !.key = key]
           added == [k \in {key} |-> s]
<1>1. document \in Documents /\ Paired(document) /\ ReferencesResolve
      /\ (NoneByHand => Loaded(document) = document)
  BY DEF SettingsInv, FileInv
<1>2. next \in Documents /\ next.image = document.image /\ next.key = key  BY <1>1 DEF Documents
<1>3. added \in [{key} -> Secrets] /\ DOMAIN added = {key} /\ {key} \in SUBSET Names
  BY DEF Names
<1> HIDE DEF next, added
<1>5. CredsOf(next) = CredsOf(document) /\ ModelsOf(next) = ModelsOf(document)
  BY <1>2 DEF CredsOf, ModelsOf
<1>6. Paired(next) /\ SameSection(next, document)  BY <1>1, <1>2, <1>5 DEF Paired, SameSection
<1>7. ReferencedJarNames(next) = {key} \cup Range(CredsOf(document))
      /\ Range(CredsOf(document)) \subseteq ReferencedJarNames(document)
  BY <1>1, <1>2, <1>5, DocumentIs, ReferencesAre
<1>8. ASSUME NoneByHand PROVE Loaded(next) = next
 <2>1. document.image = Off \/ document.image.defect = "none"
  <3>1. CASE document.image # Off /\ document.image.defect # "none"
   <4> QED BY <3>1, <1>1, <1>8 DEF Loaded, Documents
  <3> QED BY <3>1
 <2> QED BY <1>2, <2>1 DEF Loaded
<1>9. NextFits(next, added)
  BY <1>1, <1>2, <1>3, <1>6, <1>7, <1>8 DEF NextFits, ReferencesResolve, Jars,
    PartialFunctions
<1> QED BY <1>2, <1>6, <1>9 DEF next, added

\* A document with a section of the panel.
LEMMA SectionFits ==
    ASSUME SettingsInv, NEW creds \in PartialFunctions(Credentials, Names),
           NEW models \in PartialFunctions(DOMAIN Endpoints, Credentials),
           NEW secrets \in PartialFunctions(Credentials, Secrets),
           Range(models) \subseteq DOMAIN creds,
           \A c \in DOMAIN secrets : c \in DOMAIN creds /\ creds[c] = c,
           Range(creds) \subseteq ReferencedJarNames(document) \cup DOMAIN secrets
    PROVE  NextFits([document EXCEPT !.image =
                        Section(creds, models,
                                IF document.image # Off /\ document.image.defect = "beside"
                                THEN "beside" ELSE "none")],
                    secrets)
<1> DEFINE defect == IF document.image # Off /\ document.image.defect = "beside"
                     THEN "beside" ELSE "none"
           section == Section(creds, models, defect)
           next == [document EXCEPT !.image = section]
<1>1. document \in Documents /\ document.key \in Issued /\ ReferencesResolve
      /\ (NoneByHand => Loaded(document) = document)
  BY DEF SettingsInv, FileInv
<1>2. defect \in {"none", "beside"}  OBVIOUS
<1>3. NoneByHand => defect = "none"
 <2> SUFFICES ASSUME NoneByHand, document.image # Off, document.image.defect = "beside" PROVE FALSE
   OBVIOUS
 <2> QED BY <1>1 DEF Loaded, Documents
<1> HIDE DEF defect
<1>4. section \in Sections /\ section.creds = creds /\ section.models = models
      /\ section.defect = defect
  BY <1>2 DEF Section, Sections
<1> HIDE DEF section
<1>6. next \in Documents /\ next.image = section /\ next.key = document.key
  BY <1>1, <1>4 DEF Documents
<1> HIDE DEF next
<1>9. DOMAIN secrets \subseteq Range(creds)  BY DEF Range
<1>10. secrets \in Jars
 <2>1. PICK D \in SUBSET Credentials : secrets \in [D -> Secrets]  BY DEF PartialFunctions
 <2> QED BY <2>1 DEF Jars, PartialFunctions, Names
<1>11. document.key \in ReferencedJarNames(document)  BY <1>1, DocumentIs
<1>12. NoneByHand => Loaded(next) = next  BY <1>3, <1>4, <1>6 DEF Loaded
<1>13. NextFits(next, secrets)
  BY <1>1, <1>6, <1>9, <1>10, <1>11, <1>12, <1>4, DocumentIs,
    SettingsAssumption DEF NextFits, ReferencesResolve, Paired, Range,
    SettingsAssumption
<1> QED BY <1>13 DEF next, section, defect

\* What is to be written fits, whoever writes it.
LEMMA EditFits ==
    ASSUME SettingsInv, writing.stage = "write", document = writing.revision
    PROVE  /\ NextFits(Edited(document), Added)
           /\ writing.by = "provider" => /\ Edited(document).key = ProviderKeys[moves.key]
                                         /\ SameSection(Edited(document), document)
<1>2. CASE writing \in KeyWrites
 <2>1. writing.by = "provider" /\ writing.key \in Range(ProviderKeys) /\ writing.secret \in Secrets
       /\ writing.key = ProviderKeys[moves.key]
   BY <1>2 DEF SettingsInv, NewKey, KeyWrites
 <2>3. writing.key \in Issued
   BY <2>1, SettingsAssumption DEF Issued, SettingsInv, MovesInv,
     SettingsAssumption
 <2>6. /\ NextFits([document EXCEPT !.key = writing.key], [k \in {writing.key} |-> writing.secret])
       /\ SameSection([document EXCEPT !.key = writing.key], document)
       /\ [document EXCEPT !.key = writing.key].key = writing.key
   BY <2>3, KeyFits, <2>1
 <2> QED BY <2>1, <2>6 DEF Edited, Added
<1>3. CASE writing \in ImageWrites
 <2>1. /\ writing.by = "image" /\ writing.revision = saving.revision
       /\ saving.what = "put" /\ saving.stage = "locked"
   BY <1>3 DEF SettingsInv, WritingShape, ImageWrites
 <2>2. CASE ~ saving.enabled
  <3> QED BY <2>1, OffFits, <2>2 DEF Edited, Added
 <2>3. CASE saving.enabled
  <3>4. NextFits([document EXCEPT !.image =
                     Section(saving.creds, saving.body.models,
                             IF document.image # Off /\ document.image.defect = "beside"
                             THEN "beside" ELSE "none")],
                 saving.body.secrets)
    BY SectionFits, <2>1, <2>3 DEF Puts, BodyFits, SaveBodies, SettingsInv,
      SavingInv, Done
  <3> QED BY <2>1, <3>4, <2>3 DEF Edited, Added
 <2> QED BY <2>2, <2>3
<1> QED BY <1>2, <1>3 DEF SettingsInv, WritingShape

\* The new text is made, unless the file has moved on.
LEMMA WriteTextKeeps == ASSUME SettingsInv, WriteText PROVE SettingsInv'
<1>1. /\ writing.stage = "write"
      /\ UNCHANGED <<document, entries, serving, form, stale, pruned, leftover, moves>>
  BY DEF WriteText
<1>2. CASE Unlock("conflict") \/ Unlock("unchanged") \/ Unlock("disk")  BY <1>1, <1>2, NothingChanged
<1>3. CASE /\ document = writing.revision
           /\ writing' = [stage |-> "keys", by |-> writing.by, source |-> document,
                          next |-> Edited(document), added |-> Added]
           /\ UNCHANGED <<saving, failed>>
 <2> DEFINE next == Edited(document)
            added == Added
 <2>1. NextFits(next, added)
       /\ (writing.by = "provider" => next.key = ProviderKeys[moves.key] /\ SameSection(next, document))
   BY <1>1, <1>3, EditFits
 <2>2. writing' = [stage |-> "keys", by |-> writing.by, source |-> document,
                   next |-> next, added |-> added]
   BY <1>3
 <2> HIDE DEF next, added
 <2>4. /\ writing'.stage = "keys" /\ writing'.by = writing.by /\ writing'.source = document
       /\ writing'.next = next /\ writing'.added = added /\ writing' \in Commits
   BY <2>2, <1>1, <2>1 DEF Commits, SettingsInv, WritingShape, ImageWrites,
     KeyWrites, FileInv, NextFits
 <2>5. /\ Issued' = Issued /\ (NoneByHand' <=> NoneByHand)
       /\ saving' = saving /\ failed' = failed
   BY <1>1, <1>3 DEF Issued, NoneByHand
 <2>8. SavingInv'  BY <1>1, <2>4, <2>5 DEF SettingsInv, SavingInv
 <2>9. WritingShape'  BY <1>1, <2>4, <2>5 DEF SettingsInv, WritingShape
 <2>10. NewKey'  BY <1>1, <2>1, <2>4, <2>5 DEF SettingsInv, NewKey
 <2>11. CommitInv'
  <3> QED BY <1>1, <2>1, <2>4, <2>5 DEF CommitInv, NextFits
 <2>12. TidyInv'  BY <1>1, <2>4, <2>5 DEF SettingsInv, TidyInv, Extra
 <2>13. ServingInv'
  <3> QED BY <1>1, <2>4 DEF SettingsInv, ServingInv, Prepared
 <2>14. FailedInv'  BY <1>1, <2>5 DEF SettingsInv, FailedInv
 <2> QED
   BY <2>8, <2>9, <2>10, <2>11, <2>12, <2>13, <2>14, <1>1, <2>5 DEF
     SettingsInv, MovesInv, FileInv, ReferencesResolve
<1> QED BY <1>2, <1>3 DEF WriteText

-----------------------------------------------------------------------------
(* The jar and the file.                                                       *)

\* A jar that grows.
LEMMA JarGrows ==
    ASSUME NEW jar \in Jars, NEW added \in Jars, NEW next,
           next = [n \in DOMAIN jar \cup DOMAIN added |-> IF n \in DOMAIN jar THEN jar[n] ELSE added[n]]
    PROVE  /\ next \in Jars /\ DOMAIN next = DOMAIN jar \cup DOMAIN added
           /\ \A n \in DOMAIN jar : next[n] = jar[n]
<1>1. PICK D \in SUBSET Names : jar \in [D -> Secrets]  BY DEF Jars, PartialFunctions
<1>2. PICK E \in SUBSET Names : added \in [E -> Secrets]  BY DEF Jars, PartialFunctions
<1> QED BY <1>1, <1>2 DEF Jars, PartialFunctions

\* A jar that shrinks.
LEMMA JarShrinks ==
    ASSUME NEW jar \in Jars, NEW names, NEW next, next = Restrict(jar, DOMAIN jar \ names)
    PROVE  /\ next \in Jars /\ DOMAIN next = DOMAIN jar \ names
           /\ \A n \in DOMAIN next : next[n] = jar[n]
<1>1. PICK D \in SUBSET Names : jar \in [D -> Secrets]  BY DEF Jars, PartialFunctions
<1> QED BY <1>1 DEF Restrict, Jars, PartialFunctions

\* A removal leaves the rest, and what it leaves besides is known.
LEMMA RemovedIs ==
    ASSUME entries \in Jars, NEW names, Removed(names)
    PROVE  /\ entries' \in Jars /\ DOMAIN entries' \subseteq DOMAIN entries
           /\ DOMAIN entries \ names \subseteq DOMAIN entries'
           /\ \A n \in DOMAIN entries' : entries'[n] = entries[n]
           /\ leftover \ names \subseteq leftover'
           /\ DOMAIN entries' \subseteq (DOMAIN entries \ names) \cup leftover'
<1>1. CASE entries' = Restrict(entries, DOMAIN entries \ names) /\ leftover' = leftover \ names
 <2>1. /\ entries' \in Jars /\ DOMAIN entries' = DOMAIN entries \ names
       /\ \A n \in DOMAIN entries' : entries'[n] = entries[n]
  <3>1. entries' = Restrict(entries, DOMAIN entries \ names)  BY <1>1
  <3> QED BY <3>1, JarShrinks
 <2>2. leftover' = leftover \ names  BY <1>1
 <2> QED BY <2>1, <2>2
<1>2. CASE entries' = entries /\ leftover' = leftover \cup (names \cap DOMAIN entries)
  BY <1>2
<1> QED BY <1>1, <1>2 DEF Removed

\* The keys are added, unless a name is taken or the jar cannot be written.
LEMMA AddKeysKeeps == ASSUME SettingsInv, AddKeys PROVE SettingsInv'
<1>1. /\ writing.stage = "keys"
      /\ UNCHANGED <<document, serving, form, stale, pruned, leftover, moves>>
  BY DEF AddKeys
<1>2. CASE (Unlock("taken") \/ Unlock("disk")) /\ entries' = entries  BY <1>1, <1>2, NothingChanged
<1>3. CASE /\ DOMAIN writing.added \cap DOMAIN entries = {}
           /\ entries' = [n \in DOMAIN entries \cup DOMAIN writing.added |->
                             IF n \in DOMAIN entries THEN entries[n] ELSE writing.added[n]]
           /\ writing' = [writing EXCEPT !.stage = "rename"]
           /\ UNCHANGED <<saving, failed>>
 <2>1. writing \in Commits /\ entries \in Jars /\ document \in Documents
   BY <1>1 DEF SettingsInv, WritingShape, FileInv
 <2>2. /\ writing' \in Commits /\ writing'.stage = "rename" /\ writing'.by = writing.by
       /\ writing'.source = writing.source /\ writing'.next = writing.next
       /\ writing'.added = writing.added
   BY <1>3, <2>1 DEF Commits
 <2>4. /\ entries' \in Jars /\ DOMAIN entries' = DOMAIN entries \cup DOMAIN writing.added
       /\ \A n \in DOMAIN entries : entries'[n] = entries[n]
   BY <1>3, <2>1, JarGrows DEF Commits
 <2>5. /\ Issued' = Issued /\ (NoneByHand' <=> NoneByHand)
       /\ saving' = saving /\ failed' = failed
   BY <1>1, <1>3 DEF Issued, NoneByHand
 <2>7. FileInv'  BY <1>1, <2>4, <2>5 DEF SettingsInv, FileInv, ReferencesResolve
 <2>8. SavingInv'  BY <1>1, <2>2, <2>5 DEF SettingsInv, SavingInv
 <2>9. WritingShape'  BY <1>1, <2>2, <2>5 DEF SettingsInv, WritingShape
 <2>10. NewKey'  BY <1>1, <2>2, <2>5 DEF SettingsInv, NewKey
 <2>11. CommitInv'
  <3> QED BY <1>1, <1>3, <2>2, <2>4, <2>5 DEF CommitInv, SettingsInv, FileInv, ReferencesResolve
 <2>12. TidyInv'  BY <1>1, <2>2, <2>4, <2>5 DEF SettingsInv, TidyInv, Extra
 <2>13. ServingInv'
  <3> SUFFICES ASSUME ~ stale
               PROVE  /\ serving = Prepared(Loaded(document))'
                      /\ Range(CredsOf(Loaded(document))) \subseteq DOMAIN entries' \ DOMAIN writing.added
    BY <1>1, <2>2 DEF ServingInv
  <3>2. PICK e \in Documents : e = Loaded(document)  BY <2>1, LoadedIs
  <3>4. Prepared(Loaded(document))' = Prepared(e)'  BY <1>1, <3>2 DEF Prepared
  <3> QED BY <1>3, <2>4, <3>2, <3>4, PreparedAgrees, <1>1 DEF SettingsInv, ServingInv
 <2> QED
   BY <2>7, <2>8, <2>9, <2>10, <2>11, <2>12, <2>13, <1>1, <2>5 DEF SettingsInv,
     MovesInv, FailedInv
<1> QED BY <1>2, <1>3 DEF AddKeys

\* The new text takes the place of the old one, or the keys are taken back.
LEMMA RenameTextKeeps == ASSUME SettingsInv, RenameText PROVE SettingsInv'
<1>1. /\ writing.stage = "rename"
      /\ UNCHANGED <<serving, form, stale, pruned, moves>>
  BY DEF RenameText
<1>2. writing \in Commits /\ entries \in Jars /\ document \in Documents
  BY <1>1 DEF SettingsInv, WritingShape, FileInv
<1>3. /\ Paired(writing.next) /\ writing.next.key \in Issued /\ writing.next \in Documents
      /\ DOMAIN writing.added \subseteq ReferencedJarNames(writing.next)
      /\ (NoneByHand => Loaded(writing.next) = writing.next)
      /\ ReferencedJarNames(writing.source) = ReferencedJarNames(document)
      /\ NoneByHand => /\ writing.source = document
                       /\ writing.by = "provider" => SameSection(writing.next, document)
      /\ ReferencedJarNames(writing.next) \subseteq DOMAIN entries \cup pruned
      /\ ReferencedJarNames(document) \subseteq (DOMAIN entries \ DOMAIN writing.added) \cup pruned
  BY <1>1, <1>2 DEF SettingsInv, CommitInv, Commits
<1>4. Issued' = Issued /\ (NoneByHand' <=> NoneByHand)
  BY <1>1 DEF Issued, NoneByHand
<1>5. MovesInv'  BY <1>1 DEF SettingsInv, MovesInv
<1>6. CASE /\ document' = writing.next /\ writing' = [writing EXCEPT !.stage = "release"]
           /\ UNCHANGED <<entries, leftover, saving, failed>>
 <2>1. /\ writing' \in Commits /\ writing'.stage = "release" /\ writing'.by = writing.by
       /\ writing'.source = writing.source /\ writing'.next = writing.next
       /\ writing'.added = writing.added
   BY <1>2, <1>6 DEF Commits
 <2>2. FileInv'  BY <1>1, <1>3, <1>4, <1>6 DEF SettingsInv, FileInv, ReferencesResolve
 <2>3. SavingInv'
  <3>1. CASE saving = Done  BY <1>6, <3>1 DEF SavingInv
  <3>2. CASE saving # Done
   <4>1. /\ saving \in Puts /\ saving.what = "put"
         /\ saving.stage \in {"load", "wait"} /\ NoneByHand => SameSection(document, saving.revision)
     BY <3>2 DEF SettingsInv, SavingInv, Puts
   <4> QED
     BY <1>4, <1>6, <2>1, <3>2, <1>3, <4>1, <1>1, <1>2 DEF SettingsInv,
       SavingInv, SameSection, WritingShape, NewKey, Commits
  <3> QED BY <3>1, <3>2
 <2>4. WritingShape'  BY <1>1, <1>6, <2>1 DEF SettingsInv, WritingShape
 <2>6. CommitInv'  BY <1>3, <1>4, <1>6, <2>1 DEF CommitInv
 <2>7. TidyInv'
   BY <1>1, <1>3, <1>4, <1>6, <2>1 DEF SettingsInv, TidyInv, Extra
 <2>9. FailedInv'  BY <1>1, <1>4, <1>6 DEF SettingsInv, FailedInv
 <2> QED BY <1>5, <2>2, <2>3, <2>4, <2>6, <2>7, <2>9, <2>1 DEF SettingsInv, ServingInv, NewKey
<1>7. CASE Removed(DOMAIN writing.added) /\ Unlock("disk") /\ document' = document
 <2>2. /\ entries' \in Jars /\ DOMAIN entries \ DOMAIN writing.added \subseteq DOMAIN entries'
       /\ \A n \in DOMAIN entries' : entries'[n] = entries[n]
       /\ leftover \ DOMAIN writing.added \subseteq leftover'
       /\ DOMAIN entries' \subseteq (DOMAIN entries \ DOMAIN writing.added) \cup leftover'
   BY <1>2, <1>7, RemovedIs
 <2>3. writing'.stage = "idle"  BY <1>7 DEF Unlock, Unlocked
 <2>4. FileInv'  BY <1>1, <1>3, <1>4, <1>7, <2>2 DEF SettingsInv, FileInv, ReferencesResolve
 <2>5. TidyInv'  BY <1>1, <1>3, <1>4, <1>7, <2>2, <2>3 DEF SettingsInv, TidyInv, Extra
 <2>6. ServingInv'
  <3> SUFFICES ASSUME ~ stale
               PROVE  /\ serving = Prepared(Loaded(document))'
                      /\ Range(CredsOf(Loaded(document))) \subseteq DOMAIN entries'
    BY <1>1, <1>7, <2>3 DEF ServingInv
  <3>2. PICK e \in Documents : e = Loaded(document)  BY <1>2, LoadedIs
  <3>4. Prepared(Loaded(document))' = Prepared(e)'  BY <1>7, <3>2 DEF Prepared
  <3> QED BY <2>2, <3>2, <3>4, PreparedAgrees, <1>1 DEF SettingsInv, ServingInv
 <2> QED BY <1>1, <1>5, <1>7, <2>4, <2>5, <2>6, UnlockKeeps
<1> QED BY <1>6, <1>7 DEF RenameText

\* Names that the new text does not refer to are dropped.
LEMMA ReleaseNamesKeeps == ASSUME SettingsInv, ReleaseNames PROVE SettingsInv'
<1> DEFINE released == ReleasedNames(writing.source, writing.next)
<1>1. /\ writing.stage = "release"
      /\ Removed(released)
      /\ pruned' = pruned \cup ((released \ DOMAIN entries')
             \cap (ReferencedJarNames(writing.next) \ ReferencedJarNames(Loaded(writing.next))))
      /\ writing' = [stage |-> "file", by |-> writing.by]
      /\ UNCHANGED <<document, serving, form, saving, stale, failed, moves>>
  BY DEF ReleaseNames
<1>2. released = ReferencedJarNames(writing.source) \ ReferencedJarNames(Loaded(writing.next))
  BY DEF ReleasedNames
<1> HIDE DEF released
<1>3. /\ writing \in Commits /\ entries \in Jars
      /\ NoneByHand => Loaded(writing.next) = writing.next
      /\ ReferencedJarNames(document) = ReferencedJarNames(writing.next)
      /\ ReferencedJarNames(document) \subseteq DOMAIN entries \cup pruned
  BY <1>1 DEF SettingsInv, WritingShape, FileInv, CommitInv, ReferencesResolve
<1>4. /\ entries' \in Jars /\ DOMAIN entries \ released \subseteq DOMAIN entries'
      /\ leftover \ released \subseteq leftover'
      /\ DOMAIN entries' \subseteq (DOMAIN entries \ released) \cup leftover'
  BY <1>1, <1>3, RemovedIs
<1>7. ReferencedJarNames(Loaded(writing.next)) \subseteq ReferencedJarNames(writing.next)
  BY <1>3, LoadedIs, ReferencesAre DEF Commits
<1>5. Issued' = Issued /\ (NoneByHand' <=> NoneByHand)
  BY <1>1 DEF Issued, NoneByHand
<1>6. /\ writing'.stage = "file" /\ writing'.by = writing.by /\ writing' \in Applies
  BY <1>1, <1>3 DEF Applies, Commits
<1>8. FileInv'
 <2> QED BY <1>1, <1>4, <1>5, <1>2, <1>3 DEF SettingsInv, FileInv, ReferencesResolve
<1>10. WritingShape'  BY <1>1, <1>6 DEF SettingsInv, WritingShape
<1>11. NewKey' /\ CommitInv' /\ ServingInv'  BY <1>6 DEF NewKey, CommitInv, ServingInv
<1>12. TidyInv'
  BY <1>1, <1>2, <1>3, <1>4, <1>6, <1>7 DEF SettingsInv, TidyInv, Extra
<1>13. FailedInv'  BY <1>1, <1>5 DEF SettingsInv, FailedInv
<1> QED
  BY <1>8, <1>10, <1>11, <1>12, <1>13, <1>1, <1>5, <1>6 DEF SettingsInv,
    MovesInv, SavingInv

-----------------------------------------------------------------------------
(* The snapshot.                                                               *)

\* The file is loaded.
LEMMA LoadDocumentKeeps == ASSUME SettingsInv, LoadDocument PROVE SettingsInv'
<1>1. /\ writing.stage = "file"
      /\ writing' = [stage |-> "prepare", by |-> writing.by, file |-> Loaded(document)]
      /\ stale' = FALSE
      /\ UNCHANGED <<document, entries, serving, form, saving, pruned, leftover, failed, moves>>
  BY DEF LoadDocument
<1>2. /\ writing \in Applies /\ document \in Documents /\ Paired(document)
      /\ ReferencedJarNames(document) \subseteq DOMAIN entries \cup pruned
  BY <1>1 DEF SettingsInv, WritingShape, FileInv, ReferencesResolve
<1>3. /\ Loaded(document) \in Documents /\ Paired(Loaded(document))
      /\ Range(CredsOf(Loaded(document))) \subseteq DOMAIN entries \cup pruned
  BY <1>2, LoadedIs, ReferencesAre
<1>4. /\ writing'.stage = "prepare" /\ writing'.by = writing.by
      /\ writing'.file = Loaded(document) /\ writing' \in Preparations
  BY <1>1, <1>2, <1>3 DEF Preparations, Applies
<1>5. Issued' = Issued /\ (NoneByHand' <=> NoneByHand)
  BY <1>1 DEF Issued, NoneByHand
<1>8. SavingInv'  BY <1>1, <1>4, <1>5 DEF SettingsInv, SavingInv
<1>9. WritingShape'  BY <1>1, <1>4 DEF SettingsInv, WritingShape
<1>10. NewKey' /\ ServingInv'  BY <1>4 DEF NewKey, ServingInv
<1>11. CommitInv'  BY <1>1, <1>3, <1>4 DEF CommitInv
<1>12. TidyInv'  BY <1>1, <1>4, <1>5 DEF SettingsInv, TidyInv, Extra
<1>13. FailedInv'  BY <1>1, <1>5 DEF SettingsInv, FailedInv
<1> QED
  BY <1>8, <1>9, <1>10, <1>11, <1>12, <1>13, <1>1, <1>5 DEF SettingsInv,
    MovesInv, FileInv, ReferencesResolve

\* The snapshot is published, or refused.
LEMMA PrepareAndPublishKeeps == ASSUME SettingsInv, PrepareAndPublish PROVE SettingsInv'
<1>1. /\ writing.stage = "prepare" /\ UNCHANGED <<document, entries, form, pruned, leftover, moves>>
  BY DEF PrepareAndPublish
<1>2. /\ writing.file \in Documents /\ Paired(writing.file)
      /\ Range(CredsOf(writing.file)) \subseteq DOMAIN entries \cup pruned
      /\ ~ stale => writing.file = Loaded(document)
      /\ stale \in BOOLEAN
  BY <1>1 DEF SettingsInv, WritingShape, CommitInv, Preparations, MovesInv
<1>4. Issued' = Issued /\ (NoneByHand' <=> NoneByHand)
  BY <1>1 DEF Issued, NoneByHand
<1>5. FileInv'  BY <1>1, <1>4 DEF SettingsInv, FileInv, ReferencesResolve
<1>6. ASSUME NEW code, Unlock(code) PROVE TidyInv' /\ writing'.stage = "idle"
 <2> QED BY <1>1, <1>4, <1>6 DEF SettingsInv, TidyInv, Extra, Unlock, Unlocked
<1>7. CASE ~Resolves(writing.file) /\ Unlock("unresolved") /\ stale' = TRUE /\ serving' = serving
 <2> QED
   BY <1>1, <1>5, <1>6, <1>7, UnlockKeeps, <1>2 DEF Resolves, SettingsInv,
     MovesInv, ServingInv
<1>8. CASE /\ Resolves(writing.file) /\ Unlock("ok") /\ stale' = stale
           /\ serving' = Prepared(writing.file)
 <2>2. ServingInv'
  <3>1. ASSUME ~ stale
        PROVE  /\ serving' = Prepared(Loaded(document))'
               /\ Range(CredsOf(Loaded(document))) \subseteq DOMAIN entries'
   <4> QED BY <1>1, <1>2, <1>8, <3>1 DEF Resolves, Prepared
  <3> QED BY <1>1, <1>6, <1>8, <3>1 DEF ServingInv
 <2> QED BY <1>1, <1>5, <1>6, <1>8, <2>2, UnlockKeeps DEF SettingsInv, MovesInv
<1> QED BY <1>7, <1>8, <1>2, ContractHolds DEF PrepareAndPublish

-----------------------------------------------------------------------------
(* The operator's editor, and the end of the process.                          *)

\* A hand changes the defect of a section, and nothing of its names.
LEMMA HandIs ==
    ASSUME NEW d \in Documents, d.image # Off, NEW defect \in {"none", "models", "beside"}, NEW e,
           e = [d EXCEPT !.image.defect = defect]
    PROVE  /\ e \in Documents /\ e.key = d.key /\ ReferencedJarNames(e) = ReferencedJarNames(d)
           /\ Paired(d) => Paired(e)
<1> DEFINE section == [d.image EXCEPT !.defect = defect]
<1>2. section \in Sections /\ section.creds = d.image.creds /\ section.models = d.image.models
  BY DEF Sections, Documents
<1>4. e = [d EXCEPT !.image = section]  OBVIOUS
<1> HIDE DEF section
<1>5. e \in Documents /\ e.key = d.key /\ e.image = section  BY <1>2, <1>4 DEF Documents
<1> QED
  BY <1>5, DocumentIs, <1>2, SettingsAssumption DEF Paired, CredsOf, ModelsOf,
    SettingsAssumption

LEMMA EditByHandKeeps == ASSUME SettingsInv, EditByHand PROVE SettingsInv'
<1>1. /\ document.image # Off /\ moves' = [moves EXCEPT !.hand = @ + 1] /\ stale' = TRUE
      /\ UNCHANGED <<entries, serving, form, saving, writing, pruned, leftover, failed>>
  BY DEF EditByHand, Moved
<1>2. PICK defect \in {"none", "models", "beside"} : document' = [document EXCEPT !.image.defect = defect]
  BY DEF EditByHand
<1>4. /\ document' \in Documents /\ document'.key = document.key
      /\ ReferencedJarNames(document') = ReferencedJarNames(document) /\ Paired(document')
  BY <1>1, <1>2, HandIs DEF SettingsInv, FileInv
<1>5. moves' \in MoveSet /\ moves'.key = moves.key /\ ~ NoneByHand'
  BY <1>1 DEF SettingsInv, MovesInv, MoveSet, NoneByHand
<1>6. Issued' = Issued  BY <1>5 DEF Issued
<1>7. MovesInv'  BY <1>1, <1>5 DEF MovesInv, MoveSet
<1>8. FileInv'  BY <1>1, <1>4, <1>5, <1>6 DEF SettingsInv, FileInv, ReferencesResolve
<1>9. SavingInv'  BY <1>1, <1>4, <1>5, <1>6 DEF SettingsInv, SavingInv
<1>12. CommitInv'  BY <1>1, <1>4, <1>5, <1>6 DEF SettingsInv, CommitInv
<1>13. TidyInv' /\ ServingInv'  BY <1>1, <1>4, <1>5 DEF SettingsInv, TidyInv, Extra, ServingInv
<1>14. FailedInv'  BY <1>1, <1>5 DEF SettingsInv, FailedInv
<1> QED
  BY <1>7, <1>8, <1>9, <1>12, <1>13, <1>14, <1>1, <1>4, <1>5 DEF SettingsInv,
    WritingShape, NewKey

\* The process stops and starts again.
LEMMA RestartKeeps == ASSUME SettingsInv, Restart PROVE SettingsInv'
<1> DEFINE file == Loaded(document)
           fine == Resolves(file) /\ Contracted(file)
<1>1. /\ moves' = [moves EXCEPT !.crash = @ + 1] /\ saving' = Done /\ writing' = Unlocked
      /\ UNCHANGED <<document, entries, form, pruned, failed>>
      /\ leftover' = leftover \cup (Unfinished \cap DOMAIN entries)
      /\ serving' = (IF fine THEN Prepared(file) ELSE Off) /\ stale' = ~ fine
  BY DEF Restart, Moved
<1>2. moves' \in MoveSet /\ moves'.key = moves.key /\ moves'.hand = moves.hand
  BY <1>1 DEF SettingsInv, MovesInv, MoveSet
<1>3. Issued' = Issued /\ (NoneByHand' <=> NoneByHand)  BY <1>2 DEF Issued, NoneByHand
<1>7. SavingInv' /\ writing'.stage = "idle"  BY <1>1 DEF SavingInv, Unlocked
<1>8. WritingShape' /\ NewKey' /\ CommitInv'  BY <1>1, <1>7 DEF WritingShape, NewKey, CommitInv
<1>9. TidyInv'
 <2>1. CASE writing.stage = "release"
  <3>1. /\ writing.next \in Documents
        /\ ReferencedJarNames(Loaded(writing.next)) \subseteq ReferencedJarNames(writing.next)
        /\ ReferencedJarNames(document) = ReferencedJarNames(writing.next)
    BY <2>1, LoadedIs, ReferencesAre DEF SettingsInv, WritingShape, Commits, CommitInv
  <3> QED BY <1>1, <1>7, <2>1, <3>1 DEF SettingsInv, TidyInv, Extra, Unfinished, ReleasedNames
 <2>2. CASE writing.stage # "release"  BY <1>1, <1>7, <2>2 DEF SettingsInv, TidyInv, Extra, Unfinished
 <2> QED BY <2>1, <2>2
<1>10. ServingInv'
 <2> SUFFICES ASSUME ~ stale'
              PROVE  /\ serving' = Prepared(Loaded(document))'
                     /\ Range(CredsOf(Loaded(document))) \subseteq DOMAIN entries'
   BY <1>1, <1>7 DEF ServingInv
 <2>1. fine  BY <1>1
 <2> QED BY <1>1, <2>1 DEF Resolves, Prepared
<1>11. FailedInv'  BY <1>1, <1>3 DEF SettingsInv, FailedInv
<1> QED
  BY <1>7, <1>8, <1>9, <1>10, <1>11, <1>1, <1>3, <1>2 DEF SettingsInv, FileInv,
    ReferencesResolve, MovesInv, MoveSet

\* Nothing is configured, and the provider has its first key.
LEMMA SettingsStart == SettingsInit => SettingsInv
<1> SUFFICES ASSUME SettingsInit PROVE SettingsInv  OBVIOUS
<1>1. /\ document = [image |-> Off, key |-> ProviderKeys[1]]
      /\ serving = Off /\ form = Off /\ saving = Done /\ writing = Unlocked
      /\ stale = FALSE /\ pruned = {} /\ leftover = {} /\ failed = {}
      /\ moves = [save |-> 0, key |-> 1, hand |-> 0, crash |-> 0]
  BY DEF SettingsInit
<1>2. PICK s \in Secrets : entries = [k \in {document.key} |-> s]  BY DEF SettingsInit
<1>3. 1 \in 1..Len(ProviderKeys) /\ ProviderKeys[1] \in Range(ProviderKeys)
  BY SettingsAssumption DEF SettingsAssumption, Range
<1>4. document \in Documents /\ document.image = Off /\ document.key = ProviderKeys[1]
  BY <1>1, <1>3 DEF Documents
<1>5. moves.key = 1 /\ moves \in MoveSet /\ writing.stage = "idle"
  BY <1>1, <1>3 DEF MoveSet, Unlocked
<1>7. CredsOf(document) = NoCreds /\ ModelsOf(document) = NoCreds /\ Loaded(document) = document
      /\ Range(NoCreds) = {} /\ DOMAIN NoCreds = {}
  BY <1>4, DocumentIs DEF Loaded, NoCreds, Range
<1>8. ReferencedJarNames(document) = {document.key}  BY <1>4, <1>7, DocumentIs
<1>9. entries \in Jars /\ DOMAIN entries = {document.key}
 <2>1. entries \in [{document.key} -> Secrets] /\ {document.key} \in SUBSET Names
   BY <1>2, <1>3, <1>4 DEF Names
 <2> QED BY <2>1 DEF Jars, PartialFunctions
<1>11. FileInv
  BY <1>1, <1>4, <1>7, <1>8, <1>9, <1>5 DEF FileInv, Paired, ReferencesResolve,
    Issued
<1>13. TidyInv  BY <1>8, <1>9 DEF TidyInv
<1>14. ServingInv
 <2> QED BY <1>1, <1>7, <1>4 DEF ServingInv, Prepared
<1>15. FailedInv  BY <1>1 DEF FailedInv
<1> QED
  BY <1>11, <1>13, <1>14, <1>15, <1>1, <1>5 DEF SettingsInv, SavingInv,
    WritingShape, NewKey, CommitInv, MovesInv, MoveSet

\* Every step keeps the invariant.
LEMMA SettingsStep == SettingsInv /\ [SettingsNext]_settingsVars => SettingsInv'
<1> SUFFICES ASSUME SettingsInv, [SettingsNext]_settingsVars PROVE SettingsInv'  OBVIOUS
<1>1. CASE SettingsNext
  BY <1>1, OpenFormKeeps, PutKeeps, CheckRevisionKeeps, LoadSectionKeeps, BeginSaveKeeps,
     BeginKeyKeeps, BeginApplyKeeps, WriteTextKeeps, AddKeysKeeps, RenameTextKeeps,
     ReleaseNamesKeeps, LoadDocumentKeeps, PrepareAndPublishKeeps, EditByHandKeeps, RestartKeeps
     DEF SettingsNext
<1>2. CASE UNCHANGED settingsVars
 <2>1. UNCHANGED <<document, entries, serving, form, saving, writing, stale, pruned, leftover, failed, moves>>
   BY <1>2 DEF settingsVars
 <2>4. WritingShape' /\ NewKey' /\ CommitInv'
   BY <2>1 DEF SettingsInv, WritingShape, NewKey, CommitInv, NoneByHand, Issued
 <2>5. TidyInv' /\ ServingInv'
   BY <2>1 DEF SettingsInv, TidyInv, ServingInv, Extra, Prepared
 <2> QED
   BY <2>4, <2>5, <2>1 DEF SettingsInv, MovesInv, FileInv, SavingInv,
     FailedInv, ReferencesResolve, NoneByHand, Issued
<1> QED BY <1>1, <1>2

\* However saves of the page, new keys of the provider, edits by hand, failed renames and
\* restarts follow each other: the names in the file are in the jar, but for those that a
\* section lost while it was ignored; between writes nothing else is in it but what a removal
\* that failed, or a kill before one, left there; what is served is what file and jar hold;
\* and a section of the panel is never refused.
THEOREM SettingsStayTogether == SettingsSpec => []SettingsHold
<1>1. SettingsInv => SettingsHold
 <2> SUFFICES ASSUME SettingsInv PROVE SettingsHold  OBVIOUS
 <2>1. SettingsTypeOK
  <3> QED
    BY PartialIs DEF SettingsTypeOK, Names, Range, Jars, SettingsInv, FileInv,
      MovesInv, Documents
 <2>3. writing = Unlocked => writing.stage = "idle"  BY DEF Unlocked
 <2>5. ServingFollowsFile
   BY <2>3 DEF SettingsInv, ServingInv, FailedInv, NoneByHand, ServingFollowsFile
 <2> QED
   BY <2>1, <2>5, <2>3 DEF SettingsHold, SettingsInv, FileInv, TidyInv, Extra,
     JarIsTidy
<1> QED BY <1>1, SettingsStart, SettingsStep, PTL DEF SettingsSpec

-----------------------------------------------------------------------------
(* The assets of the image part, for every instance of the model.              *)

-----------------------------------------------------------------------------
(* Places in order, and what is named there.                                   *)

\* The places of a set, from the first to the last: all of them, and no other.
LEMMA InOrderIs ==
    ASSUME NEW n \in Nat, NEW places \in SUBSET (1..n)
    PROVE  \E m \in Nat :
               /\ PlacesInOrder(places) \in [1..m -> places] /\ Range(PlacesInOrder(places)) = places
               /\ \A j, k \in 1..m : j < k => PlacesInOrder(places)[j] < PlacesInOrder(places)[k]
               /\ \A i \in places : \E k \in 1..m :
                     k = Cardinality({j \in places : j <= i}) /\ PlacesInOrder(places)[k] = i
<1> DEFINE Below(i) == {j \in places : j <= i}
           m == Cardinality(places)
           rank == [i \in places |-> Cardinality(Below(i))]
           at == [k \in 1..m |-> CHOOSE i \in places : Cardinality(Below(i)) = k]
<1>1. PlacesInOrder(places) = at  BY DEF PlacesInOrder
<1>2. places \subseteq Nat /\ IsFiniteSet(places) /\ m \in Nat
 <2>1. IsFiniteSet(1..n) /\ 1..n \subseteq Nat  BY FS_Interval
 <2> QED BY <2>1, FS_Subset, FS_CardinalityType
<1>3. ASSUME NEW i \in places
      PROVE /\ IsFiniteSet(Below(i)) /\ Cardinality(Below(i)) \in 1..m
            /\ i \in Below(i) /\ Below(i) \subseteq places
 <2> QED BY <1>2, FS_CardinalityType, FS_EmptySet, FS_Subset
<1>4. ASSUME NEW i \in places, NEW j \in places, i < j
      PROVE  Cardinality(Below(i)) < Cardinality(Below(j))
 <2>1. Below(i) \in SUBSET Below(j) /\ j \notin Below(i) /\ j \in Below(j)
  <3>1. i \in Nat /\ j \in Nat /\ \A k \in places : k \in Nat  BY <1>2
  <3>2. \A k \in places : k <= i => k <= j  BY <1>4, <3>1
  <3>3. ~(j <= i) /\ j <= j  BY <1>4, <3>1
  <3> QED BY <3>2, <3>3
 <2> QED BY <1>3, <2>1, FS_Subset
<1>5. \A k \in 1..m : \E i \in places : Cardinality(Below(i)) = k
 <2>1. \A i, j \in places : i # j => rank[i] # rank[j]  BY <1>2, <1>3, <1>4
 <2>2. rank \in Injection(places, 1..m)  BY <2>1, <1>3 DEF Injection, IsInjective
 <2>3. rank \in Surjection(places, 1..m)  BY <2>2, FS_Injection, <1>2, FS_Interval
 <2> QED BY <2>3 DEF Surjection
<1>6. \A k \in 1..m : at[k] \in places /\ Cardinality(Below(at[k])) = k  BY <1>5
<1>7. \A i \in places : i \in Nat  BY <1>2
<1>8. \A i, j \in places : Cardinality(Below(i)) = Cardinality(Below(j)) => i = j
 <2> SUFFICES ASSUME NEW i \in places, NEW j \in places, i # j
              PROVE  Cardinality(Below(i)) # Cardinality(Below(j))
   OBVIOUS
 <2> QED BY <1>3, <1>4, <1>7
<1>9. at \in [1..m -> places]  BY <1>6
<1> HIDE DEF at, m, Below
<1>10. \A j, k \in 1..m : j < k => at[j] < at[k]
 <2> SUFFICES ASSUME NEW j \in 1..m, NEW k \in 1..m, j < k, ~(at[j] < at[k])
              PROVE  FALSE
   OBVIOUS
 <2>1. CASE at[k] < at[j]
  <3>1. Cardinality(Below(at[k])) < Cardinality(Below(at[j]))  BY <1>4, <1>6, <2>1
  <3> QED BY <1>2, <1>6, <3>1
 <2>2. CASE at[k] = at[j]
  <3> QED BY <1>6, <2>2
 <2>3. at[j] \in Nat /\ at[k] \in Nat  BY <1>6, <1>7
 <2> QED BY <2>1, <2>2, <2>3
<1>11. Range(at) = places
 <2>1. \A i \in places : Cardinality(Below(i)) \in 1..m /\ at[Cardinality(Below(i))] = i
   BY <1>3, <1>6, <1>8
 <2> QED BY <1>9, <2>1 DEF Range
<1>12. \A i \in places : \E k \in 1..m : k = Cardinality({j \in places : j <= i}) /\ at[k] = i
 <2> SUFFICES ASSUME NEW i \in places
              PROVE  \E k \in 1..m : k = Cardinality(Below(i)) /\ at[k] = i
   BY DEF Below
 <2> QED BY <1>3, <1>6, <1>8
<1> QED BY <1>1, <1>2, <1>9, <1>10, <1>11, <1>12

\* Every id of a list is in the list of first places, before those that come later.
LEMMA FirstPlacesAre ==
    ASSUME NEW T, NEW ids \in Seq(T)
    PROVE  /\ FirstPlaces(ids) \in Seq(T) /\ Range(FirstPlaces(ids)) = Range(ids)
           /\ \A j, k \in DOMAIN FirstPlaces(ids) : j < k =>
                  \E x \in DOMAIN ids :
                      /\ ids[x] = FirstPlaces(ids)[j]
                      /\ \A y \in DOMAIN ids : ids[y] = FirstPlaces(ids)[k] => x < y
<1> DEFINE firsts == {k \in DOMAIN ids : \A j \in 1..k - 1 : ids[j] # ids[k]}
           at == PlacesInOrder(firsts)
           list == FirstPlaces(ids)
<1>1. DOMAIN ids = 1..Len(ids) /\ Len(ids) \in Nat /\ firsts \in SUBSET (1..Len(ids))
      /\ \A k \in DOMAIN ids : ids[k] \in T
  OBVIOUS
<1>2. PICK m \in Nat : /\ at \in [1..m -> firsts] /\ Range(at) = firsts
                       /\ \A j, k \in 1..m : j < k => at[j] < at[k]
  BY <1>1, InOrderIs
<1>3. list = [k \in 1..m |-> ids[at[k]]]  BY <1>2 DEF FirstPlaces
<1>4. ASSUME NEW x \in DOMAIN ids PROVE \E k \in 1..m : list[k] = ids[x] /\ at[k] <= x
 <2> DEFINE same == {y \in DOMAIN ids : ids[y] = ids[x]}
 <2>1. PICK y \in same : \A z \in same : y <= z
  <3>1. same \in SUBSET Nat /\ x \in same  BY <1>1
  <3> QED BY <3>1, LeastNat
 <2>2. y \in firsts
  <3> SUFFICES ASSUME NEW j \in 1..y - 1, ids[j] = ids[y] PROVE FALSE  BY <2>1
  <3> QED BY <1>1, <2>1
 <2>3. PICK k \in 1..m : at[k] = y  BY <1>2, <2>2 DEF Range
 <2> QED BY <1>3, <2>1, <2>3
<1> HIDE DEF firsts, at, list
<1>5. \A k \in 1..m : at[k] \in DOMAIN ids /\ list[k] = ids[at[k]]  BY <1>2, <1>3 DEF firsts
<1>6. list \in Seq(T) /\ DOMAIN list = 1..m
 <2> QED BY <1>3, SeqDef, <1>1, <1>5
<1>7. Range(list) = Range(ids)
 <2>1. \A k \in 1..m : list[k] \in Range(ids)  BY <1>5 DEF Range
 <2>2. \A x \in DOMAIN ids : ids[x] \in Range(list)  BY <1>4, <1>6 DEF Range
 <2> QED BY <2>1, <2>2, <1>6 DEF Range
<1>8. ASSUME NEW k \in 1..m, NEW y \in DOMAIN ids, ids[y] = list[k] PROVE at[k] <= y
 <2>1. PICK l \in 1..m : list[l] = ids[y] /\ at[l] <= y  BY <1>4
 <2>2. at[l] = at[k]
  <3>3. ~(at[l] \in 1..at[k] - 1) /\ ~(at[k] \in 1..at[l] - 1)
    BY <1>2, <1>5, <1>8, <2>1 DEF firsts
  <3> QED BY <3>3, <1>1, <1>5
 <2> QED BY <2>1, <2>2
<1>9. ASSUME NEW j \in 1..m, NEW k \in 1..m, j < k
      PROVE  \E x \in DOMAIN ids : /\ ids[x] = list[j]
                                   /\ \A y \in DOMAIN ids : ids[y] = list[k] => x < y
 <2>1. at[j] < at[k] /\ at[j] \in DOMAIN ids /\ at[k] \in DOMAIN ids /\ ids[at[j]] = list[j]
   BY <1>2, <1>5, <1>9
 <2> QED BY <2>1, <1>1, <1>8
<1> QED BY <1>6, <1>7, <1>9 DEF list

\* An input: a text, and pictures behind it.
InputFits(input) == IsAuthored(input.text) /\ input.images \in Seq(PictureIds)

\* Pictures come in the order in which the input names them.
LEMMA ImagesAre ==
    ASSUME NEW input, InputFits(input), Usable(input)
    PROVE  /\ ImagesOf(input) \in Seq(PictureIds)
           /\ \A k \in DOMAIN ImagesOf(input) : pictures[ImagesOf(input)[k]] = "active"
           /\ InOrderOfNames(ImagesOf(input), input)
<1> DEFINE text == input.text
           inline == InlineImages(text)
           at == PlacesInOrder(Places(text, "image"))
           all == inline \o input.images
           T == {text[k].id : k \in DOMAIN text} \cup PictureIds
           images == ImagesOf(input)
           n == Len(text)
<1>1. /\ DOMAIN text = 1..n /\ n \in Nat /\ Places(text, "image") \in SUBSET (1..n)
      /\ input.images \in Seq(PictureIds) /\ input.images \in Seq(T)
 <2> QED BY DEF Places, InputFits, IsAuthored
<1>2. PICK p \in Nat : /\ at \in [1..p -> Places(text, "image")] /\ Range(at) = Places(text, "image")
                       /\ \A j, k \in 1..p : j < k => at[j] < at[k]
  BY <1>1, InOrderIs
<1>3. inline = [k \in 1..p |-> text[at[k]].id]  BY <1>2 DEF InlineImages
<1>4. \A k \in 1..p : at[k] \in 1..n /\ text[at[k]].is = "image"  BY <1>1, <1>2 DEF Places
<1>5. inline \in Seq(T) /\ Len(inline) = p
 <2>1. inline \in [1..p -> T]  BY <1>1, <1>3, <1>4
 <2> HIDE DEF inline, T
 <2> QED BY <1>2, <2>1, SeqDef
<1> DEFINE q == Len(input.images)
<1>6. q \in Nat /\ DOMAIN input.images = 1..q  BY <1>1
<1>7. /\ all \in Seq(T) /\ DOMAIN all = 1..p + q
      /\ \A x \in 1..p + q : all[x] = IF x <= p THEN inline[x] ELSE input.images[x - p]
 <2> HIDE DEF inline, T
 <2>1. all \in Seq(T) /\ Len(all) = p + q /\ \A x \in 1..p + q :
           all[x] = IF x <= p THEN inline[x] ELSE input.images[x - p]
   BY <1>1, <1>2, <1>5, <1>6, ConcatProperties
 <2> HIDE DEF all
 <2> QED BY <2>1
<1>8. images = FirstPlaces(all)  BY DEF ImagesOf
<1>9. /\ images \in Seq(T) /\ Range(images) = Range(all)
      /\ \A j, k \in DOMAIN images : j < k =>
             \E x \in DOMAIN all : /\ all[x] = images[j]
                                   /\ \A y \in DOMAIN all : all[y] = images[k] => x < y
 <2> HIDE DEF all, T
 <2>2. /\ FirstPlaces(all) \in Seq(T) /\ Range(FirstPlaces(all)) = Range(all)
       /\ \A j, k \in DOMAIN FirstPlaces(all) : j < k =>
              \E x \in DOMAIN all :
                  /\ all[x] = FirstPlaces(all)[j]
                  /\ \A y \in DOMAIN all : all[y] = FirstPlaces(all)[k] => x < y
   BY FirstPlacesAre, <1>7
 <2> HIDE DEF images
 <2> QED BY <1>8, <2>2
<1>10. /\ images \in Seq(PictureIds)
       /\ \A k \in DOMAIN images : pictures[images[k]] = "active"
 <2>1. \A i \in Range(images) : i \in PictureIds /\ pictures[i] = "active"  BY DEF Usable
 <2> HIDE DEF images
 <2>2. \A k \in DOMAIN images : images[k] \in Range(images)  BY DEF Range
 <2>3. DOMAIN images = 1..Len(images) /\ Len(images) \in Nat /\ images = [k \in DOMAIN images |-> images[k]]
   BY <1>9
 <2> QED BY <2>1, <2>2, <2>3, SeqDef
<1> DEFINE W(x) == IF x <= p THEN at[x] ELSE n + (x - p)
<1>11. ASSUME NEW x \in 1..p + q PROVE W(x) \in Named(all[x], input) /\ W(x) \in Nat
 <2>1. CASE x <= p
  <3> QED BY <1>1, <2>1, <1>2, <1>3, <1>4, <1>7, <1>6 DEF Named
 <2>2. CASE ~(x <= p)
  <3>1. x - p \in 1..q /\ all[x] = input.images[x - p]
   <4>2. all[x] = input.images[x - p]  BY <1>7, <2>2
   <4> QED BY <4>2, <1>2, <1>6, <2>2
  <3> QED BY <1>1, <2>2, <3>1, <1>6 DEF Named
 <2> QED BY <2>1, <2>2
<1>12. \A x, y \in 1..p + q : x < y => W(x) < W(y)
 <2> SUFFICES ASSUME NEW x \in 1..p + q, NEW y \in 1..p + q, x < y PROVE W(x) < W(y)  OBVIOUS
 <2>1. CASE y <= p  BY <1>2, <1>6, <2>1
 <2>2. CASE x <= p /\ ~(y <= p)
  <3> QED BY <1>1, <2>2, <1>2, <1>4, <1>6
 <2>3. CASE ~(x <= p)
  <3> QED BY <2>3, <1>1, <1>2, <1>6
 <2> QED BY <2>1, <2>2, <2>3
<1>13. ASSUME NEW i, NEW w \in Named(i, input) PROVE \E y \in 1..p + q : all[y] = i /\ W(y) = w
 <2>1. CASE w \in Places(text, "image") /\ text[w].id = i
  <3>1. PICK y \in 1..p : at[y] = w  BY <1>2, <2>1 DEF Range
  <3> QED BY <1>3, <1>7, <2>1, <3>1, <1>2, <1>6
 <2>2. ASSUME NEW k \in 1..q, input.images[k] = i, w = n + k
       PROVE  \E y \in 1..p + q : all[y] = i /\ W(y) = w
  <3>1. p + k \in 1..p + q /\ ~(p + k <= p) /\ (p + k) - p = k  BY <1>2, <1>6
  <3> QED BY <1>7, <2>2, <3>1
 <2> QED BY <1>6, <1>13, <2>1, <2>2 DEF Named
<1> HIDE DEF W, all, images, inline, T, at
<1>14. \A i \in PictureIds : i \in Range(images) <=> Named(i, input) # {}
 <2> QED BY <1>9, <1>11, <1>13, <1>7 DEF Range
<1>15. ASSUME NEW j \in DOMAIN images, NEW k \in DOMAIN images, j < k
       PROVE  \E x \in Named(images[j], input) : \A y \in Named(images[k], input) : x < y
 <2>1. PICK x \in 1..p + q : all[x] = images[j] /\ \A y \in 1..p + q : all[y] = images[k] => x < y
   BY <1>7, <1>9, <1>15
 <2>3. ASSUME NEW w \in Named(images[k], input) PROVE W(x) < w  BY <1>12, <1>13, <2>1
 <2> QED BY <2>3, <1>11, <2>1
<1> QED BY <1>10, <1>14, <1>15 DEF InOrderOfNames, images

\* The expanded text is the one that was meant.
LEMMA ExpandIs ==
    ASSUME NEW text, IsAuthored(text), NEW x, x.input.text = text,
           x.bodies = [p \in Prompts |-> prompts[p].body]
    PROVE  Meant(ExpandText(text), x)
<1> DEFINE kept == DOMAIN text \ Places(text, "image")
           at == PlacesInOrder(kept)
           out == ExpandText(text)
<1>2. PICK m \in Nat : /\ at \in [1..m -> kept] /\ Range(at) = kept
                       /\ \A j, k \in 1..m : j < k => at[j] < at[k]
  BY InOrderIs DEF IsAuthored
<1>3. out = [k \in 1..m |-> IF text[at[k]].is = "prompt" THEN Words(prompts[text[at[k]].id].body)
                            ELSE text[at[k]]]
  BY <1>2 DEF ExpandText
<1>5. ASSUME NEW k \in 1..m
      PROVE  out[k] = IF text[at[k]].is = "prompt" THEN Words(x.bodies[text[at[k]].id]) ELSE text[at[k]]
 <2>2. text[at[k]].is = "prompt" => x.bodies[text[at[k]].id] = prompts[text[at[k]].id].body
   BY <1>2 DEF IsAuthored
 <2> QED BY <1>3, <2>2
<1> HIDE DEF at, out
<1> QED BY <1>2, <1>5, <1>3 DEF Meant, out

-----------------------------------------------------------------------------
(* The invariant.                                                              *)

UploadType ==
    [stage : {"verify", "write", "row"}, bytes : Range(Uploads), id : 0..PictureBound]
CallType ==
    [stage : {"media", "verify", "write", "row"}, text : Authored, media : Seq(Media),
     inputs : Seq(PictureIds), bytes : Range(Uploads) \cup {""}, id : 0..PictureBound,
     model : UNION {DOMAIN o : o \in Offers}]

\* A copy holds an id from its file to its row.
Holds(r) == r.stage \in {"write", "row"}
AskFits(a, r, rows, files) ==
    r = Quiet \/
    /\ IF a = Panel THEN r \in UploadType ELSE r \in CallType
    /\ a # Panel /\ r.stage # "media" => r.media # <<>>
    /\ Holds(r) => /\ r.id \in PictureIds /\ rows[r.id] = "none"
                   /\ files[r.id] = IF r.stage = "row" THEN "whole" ELSE "none"
AsksFit(list, rows, files) ==
    /\ list = [a \in Actors |-> list[a]]
    /\ \A a \in Actors : AskFits(a, list[a], rows, files)
\* An id is held once.
Apart(list) ==
    \A a, b \in Actors : Holds(list[a]) /\ Holds(list[b]) /\ list[a].id = list[b].id => a = b

\* A generation: its snapshot is what was meant, of pictures that have rows.
GenerationFits(x, rows) ==
    /\ x.by \in Actors /\ InputFits(x.input)
    /\ Meant(x.snapshot.text, x)
    /\ x.snapshot.images \in Seq(PictureIds) /\ InOrderOfNames(x.snapshot.images, x.input)
    /\ \A k \in DOMAIN x.snapshot.images : rows[x.snapshot.images[k]] # "none"
IsList(s) == \E T : s \in Seq(T)
GenerationsFit(list, rows) == IsList(list) /\ \A g \in DOMAIN list : GenerationFits(list[g], rows)
OneKey(list) == \A g, h \in DOMAIN list : list[g].by = list[h].by /\ list[g].key = list[h].key => g = h

\* A request was built of the snapshot.
RequestFits(q, x) ==
    /\ q.prompt = x.snapshot.text /\ q.n = 1
    /\ DOMAIN q.input_references = DOMAIN x.snapshot.images
    /\ \A k \in DOMAIN q.input_references : q.input_references[k] = "whole"
RequestsFit(list, gens) ==
    IsList(list) /\ Len(list) <= Len(gens) /\ \A g \in DOMAIN list : RequestFits(list[g], gens[g])

\* What was sent is an output of who got it.
OutputsFit(got, made, gens, rows) ==
    /\ made \in [PictureIds -> 0..Len(gens)]
    /\ \A i \in PictureIds : rows[i] = "none" => made[i] = 0
    /\ \A h \in got : h[2] \in PictureIds /\ made[h[2]] # 0 /\ gens[made[h[2]]].by = h[1]

FilesFit(rows, files) == \A i \in PictureIds : rows[i] # "none" => files[i] = "whole"
CacheFits(copies) == \A m \in DOMAIN copies : copies[m] \in PictureIds

AssetInv ==
    /\ AssetTypeOK /\ FilesFit(pictures, disk) /\ CacheFits(cache)
    /\ AsksFit(asks, pictures, disk) /\ Apart(asks)
    /\ GenerationsFit(accepted, pictures) /\ OneKey(accepted)
    /\ RequestsFit(requests, accepted)
    /\ OutputsFit(handed, source, accepted, pictures)
    /\ unfair = {} /\ offer \in Offers

-----------------------------------------------------------------------------
(* Lists, and what is under way.                                               *)

\* A list grows at its end.
LEMMA ListGrows ==
    ASSUME NEW s, IsList(s), NEW x
    PROVE  /\ IsList(Append(s, x)) /\ Len(s) \in Nat /\ DOMAIN s = 1..Len(s)
           /\ Len(Append(s, x)) = Len(s) + 1 /\ DOMAIN Append(s, x) = 1..Len(s) + 1
           /\ Append(s, x)[Len(s) + 1] = x /\ \A k \in 1..Len(s) : Append(s, x)[k] = s[k]
<1>1. PICK T : s \in Seq(T)  BY DEF IsList
<1>3. Append(s, x) \in Seq(T \cup {x}) /\ Len(Append(s, x)) = Len(s) + 1
      /\ Append(s, x)[Len(s) + 1] = x /\ \A k \in 1..Len(s) : Append(s, x)[k] = s[k]
  BY AppendProperties, <1>1
<1> QED BY <1>1, <1>3 DEF IsList

\* One actor goes on, the files and rows of the others stay.
LEMMA AskGoesOn ==
    ASSUME NEW list, NEW rows, NEW files, NEW rows2, NEW files2, AsksFit(list, rows, files), Apart(list),
           NEW a \in Actors, NEW r, AskFits(a, r, rows2, files2),
           \A b \in Actors \ {a} : Holds(list[b]) =>
               /\ rows2[list[b].id] = rows[list[b].id] /\ files2[list[b].id] = files[list[b].id]
               /\ Holds(r) => r.id # list[b].id
    PROVE  AsksFit([list EXCEPT ![a] = r], rows2, files2) /\ Apart([list EXCEPT ![a] = r])
<1> DEFINE new == [list EXCEPT ![a] = r]
<1>1. new = [b \in Actors |-> IF b = a THEN r ELSE list[b]]  BY DEF AsksFit
<1> HIDE DEF new
<1>2. new[a] = r /\ \A b \in Actors \ {a} : new[b] = list[b]  BY <1>1
<1>3. ASSUME NEW b \in Actors \ {a} PROVE AskFits(b, new[b], rows2, files2)
 <2> QED BY <1>2 DEF AskFits, AsksFit
<1>6. Apart(new)
 <2> SUFFICES ASSUME NEW b \in Actors, NEW c \in Actors, b # c, Holds(new[b]), Holds(new[c]),
                     new[b].id = new[c].id
              PROVE  FALSE
   BY DEF Apart
 <2>1. CASE b = a  BY <1>2, <2>1
 <2>2. CASE c = a  BY <1>2, <2>2
 <2>3. CASE b # a /\ c # a  BY <1>2, <2>3 DEF Apart
 <2> QED BY <2>1, <2>2, <2>3
<1> QED BY <1>6, <1>2, <1>3, <1>1 DEF new, AsksFit

\* An actor that holds nothing leaves the others alone.
LEMMA AskStops ==
    ASSUME NEW list, NEW rows, NEW files, AsksFit(list, rows, files), Apart(list),
           NEW a \in Actors, NEW r, AskFits(a, r, rows, files), ~Holds(r)
    PROVE  AsksFit([list EXCEPT ![a] = r], rows, files) /\ Apart([list EXCEPT ![a] = r])
BY AskGoesOn

\* Who does nothing fits.
LEMMA QuietFits == ~Holds(Quiet) /\ \A a \in Actors : \A rows, files : AskFits(a, Quiet, rows, files)
<1> QED BY DEF AskFits, Quiet, Holds

\* Rows are not lost, so that generations keep their pictures.
LEMMA GenerationsStay ==
    ASSUME NEW list, NEW rows, NEW rows2, GenerationsFit(list, rows),
           \A i \in PictureIds : rows[i] # "none" => rows2[i] # "none"
    PROVE  GenerationsFit(list, rows2)
<1> SUFFICES ASSUME NEW g \in DOMAIN list PROVE GenerationFits(list[g], rows2)
  BY DEF GenerationsFit
<1> QED BY DEF GenerationFits, GenerationsFit

-----------------------------------------------------------------------------
(* A request is refused, replayed or accepted.                                 *)

LEMMA CreateFits ==
    ASSUME AssetInv, NEW a \in Actors, NEW key, NEW input, InputFits(input), Create(a, key, input)
    PROVE  /\ GenerationsFit(accepted', pictures) /\ OneKey(accepted') /\ unfair' = {}
           /\ RequestsFit(requests, accepted') /\ OutputsFit(handed, source, accepted', pictures)
<1>1. IsList(accepted) /\ Len(accepted) \in Nat /\ DOMAIN accepted = 1..Len(accepted)
  BY ListGrows DEF AssetInv, GenerationsFit
<1>2. CASE FindIdempotent(a, key) # {}
 <2>1. PICK g \in FindIdempotent(a, key) :
           Reply(a, key, input, Replayed(key, input, g)) /\ accepted' = accepted
   BY <1>2 DEF Create
 <2> QED BY <2>1, <1>2 DEF AssetInv, Reply, Replayed, FindIdempotent, OneKey
<1>3. CASE FindIdempotent(a, key) = {} /\ Refused(input) # {}
 <2> QED BY <1>3 DEF AssetInv, Reply, Create
<1>4. CASE FindIdempotent(a, key) = {} /\ Refused(input) = {}
 <2> DEFINE x == [by |-> a, key |-> key, input |-> input, snapshot |-> Snapshot(input),
                  bodies |-> [p \in Prompts |-> prompts[p].body]]
            n == Len(accepted)
 <2>1. accepted' = Append(accepted, x) /\ Reply(a, key, input, "accepted")
   BY <1>4 DEF Create, Accept
 <2>4. /\ x.by = a /\ x.key = key /\ x.input = input
       /\ x.bodies = [p \in Prompts |-> prompts[p].body]
       /\ x.snapshot.text = ExpandText(input.text) /\ x.snapshot.images = ImagesOf(input)
   BY DEF Snapshot
 <2> HIDE DEF x
 <2>5. GenerationFits(x, pictures)
  <3>2. /\ ImagesOf(input) \in Seq(PictureIds) /\ InOrderOfNames(ImagesOf(input), input)
        /\ \A k \in DOMAIN ImagesOf(input) : pictures[ImagesOf(input)[k]] # "none"
    BY ImagesAre, <1>4 DEF Refused
  <3> QED BY <2>4, <3>2, ExpandIs DEF GenerationFits, InputFits
 <2>6. /\ IsList(accepted') /\ DOMAIN accepted' = 1..n + 1 /\ Len(accepted') = n + 1
       /\ accepted'[n + 1] = x /\ \A g \in 1..n : accepted'[g] = accepted[g]
   BY <1>1, <2>1, ListGrows
 <2>8. OneKey(accepted')
  <3> SUFFICES ASSUME NEW g \in 1..n + 1, NEW h \in 1..n + 1, accepted'[g].by = accepted'[h].by,
                      accepted'[g].key = accepted'[h].key
               PROVE  g = h
    BY <2>6 DEF OneKey
  <3>1. \A k \in 1..n : ~(accepted[k].by = a /\ accepted[k].key = key)
    BY <1>1, <1>4 DEF FindIdempotent
  <3>2. CASE g \in 1..n /\ h \in 1..n  BY <1>1, <2>6, <3>2 DEF AssetInv, OneKey
  <3>3. CASE g = n + 1 /\ h \in 1..n  BY <2>4, <2>6, <3>1, <3>3
  <3>4. CASE h = n + 1 /\ g \in 1..n  BY <2>4, <2>6, <3>1, <3>4
  <3> QED BY <1>1, <3>2, <3>3, <3>4
 <2>9. RequestsFit(requests, accepted')
  <3> QED BY <1>1, <2>6, ListGrows DEF RequestsFit, AssetInv
 <2>10. OutputsFit(handed, source, accepted', pictures)
  <3>1. OutputsFit(handed, source, accepted, pictures)  BY DEF AssetInv
  <3>3. ASSUME NEW h \in handed
        PROVE  h[2] \in PictureIds /\ source[h[2]] # 0 /\ accepted'[source[h[2]]].by = h[1]
   <4> QED BY <2>6, <3>1, <1>1 DEF OutputsFit
  <3> QED BY <2>6, <3>1, <3>3, <1>1 DEF OutputsFit
 <2> QED BY <2>8, <2>9, <2>10, <1>1, <2>5, <2>6, <1>4, <2>1 DEF GenerationsFit, AssetInv, Reply
<1> QED BY <1>2, <1>3, <1>4

-----------------------------------------------------------------------------
(* The steps.                                                                  *)

\* Prompts change by themselves.
LEMMA PromptsKeep ==
    ASSUME AssetInv, NEW p \in Prompts,
           RemovePrompt(p) \/ \E b \in DOMAIN Bodies : CreatePrompt(p, b) \/ UpdatePrompt(p, b)
    PROVE  AssetInv'
<1>2. prompts' \in [Prompts -> [state : {"none", "active", "archived"}, body : DOMAIN Bodies]]
 <2> QED BY DEF CreatePrompt, UpdatePrompt, RemovePrompt, AssetInv, AssetTypeOK
<1> QED BY <1>2 DEF AssetInv, AssetTypeOK, CreatePrompt, UpdatePrompt, RemovePrompt

\* An archived picture keeps its file.
LEMMA RemoveImageKeeps == ASSUME AssetInv, NEW i \in PictureIds, RemoveImage(i) PROVE AssetInv'
<1>1. /\ pictures[i] = "active" /\ pictures' = [pictures EXCEPT ![i] = "archived"]
      /\ UNCHANGED <<prompts, source, disk, cache, offer, asks, accepted, requests, unfair, handed>>
  BY DEF RemoveImage
<1>2. pictures \in [PictureIds -> {"none", "active", "archived"}]  BY DEF AssetInv, AssetTypeOK
<1>3. \A j \in PictureIds : pictures'[j] = "none" <=> pictures[j] = "none"  BY <1>1, <1>2
<1>5. AsksFit(asks', pictures', disk')
 <2> QED BY <1>1, <1>3 DEF AssetInv, AsksFit, AskFits
<1>6. GenerationsFit(accepted', pictures')
 <2>2. GenerationsFit(accepted, pictures')  BY GenerationsStay, <1>3 DEF AssetInv
 <2> QED BY <1>1, <2>2
<1> QED BY <1>1, <1>5, <1>6, <1>2, <1>3 DEF AssetInv, AssetTypeOK, FilesFit, OutputsFit

\* What only changes what is under way keeps the rest.
LEMMA AsksAlone ==
    ASSUME AssetInv, AsksFit(asks', pictures, disk), Apart(asks'), CacheFits(cache'),
           UNCHANGED <<prompts, pictures, source, disk, offer, accepted, requests, unfair, handed>>
    PROVE  AssetInv'
BY DEF AssetInv, AssetTypeOK

\* An upload begins.
LEMMA UploadImageKeeps == ASSUME AssetInv, UploadImage PROVE AssetInv'
<1>1. PICK u \in DOMAIN Uploads :
          asks' = [asks EXCEPT ![Panel] = [stage |-> "verify", bytes |-> Uploads[u], id |-> 0]]
  BY DEF UploadImage
<1> DEFINE r == [stage |-> "verify", bytes |-> Uploads[u], id |-> 0]
<1>2. AskFits(Panel, r, pictures, disk) /\ ~Holds(r)
 <2> QED BY AssetAssumption DEF AskFits, Holds, UploadType, Range
<1> HIDE DEF r
<1>3. AsksFit(asks', pictures, disk) /\ Apart(asks')
 <2> QED BY <1>2, AskStops, <1>1 DEF AssetInv, r, Actors
<1> QED BY <1>3, AsksAlone DEF UploadImage, AssetInv

\* A copy of what is no picture ends; one of a picture takes a free id.
LEMMA VerifyBytesKeeps == ASSUME AssetInv, NEW a \in Actors, VerifyBytes(a) PROVE AssetInv'
<1>1. CASE Abandon(a)
 <2> QED BY AsksAlone, <1>1, QuietFits, AskStops DEF VerifyBytes, AssetInv, Abandon
<1>2. ASSUME NEW i \in Fresh, asks' = [asks EXCEPT ![a].stage = "write", ![a].id = i] PROVE AssetInv'
 <2> DEFINE r == [asks[a] EXCEPT !.stage = "write", !.id = i]
 <2>1. asks[a].stage = "verify" /\ AskFits(a, asks[a], pictures, disk) /\ asks[a] # Quiet
  <3>3. Quiet.stage = "idle"  BY DEF Quiet
  <3> QED BY <3>3 DEF VerifyBytes, AssetInv, AsksFit
 <2>2. asks' = [asks EXCEPT ![a] = r]  BY <1>2
 <2>3. /\ i \in PictureIds /\ pictures[i] = "none" /\ disk[i] = "none"
       /\ \A b \in Actors : Holds(asks[b]) => asks[b].id # i
   BY DEF Fresh, Unused, Holds
 <2>4. AskFits(a, r, pictures, disk) /\ r.id = i
  <3>1. i \in 0..PictureBound  BY <2>3, AssetAssumption DEF PictureIds
  <3>2. CASE a = Panel
   <4> QED BY <2>3, <3>2, <2>1, <3>1 DEF AskFits, UploadType
  <3>3. CASE a # Panel
   <4> QED BY <2>1, <2>3, <3>3, <3>1 DEF AskFits, CallType
  <3> QED BY <3>2, <3>3
 <2> HIDE DEF r
 <2> QED BY AsksAlone, <2>2, <2>3, <2>4, AskGoesOn DEF VerifyBytes, AssetInv
<1> QED BY <1>1, <1>2 DEF VerifyBytes

\* The file is written, or part of it.
LEMMA WriteFileKeeps == ASSUME AssetInv, NEW a \in Actors, WriteFile(a) PROVE AssetInv'
<1> DEFINE i == asks[a].id
<1>1. /\ asks[a].stage = "write" /\ asks[a] # Quiet /\ AskFits(a, asks[a], pictures, disk)
      /\ i \in PictureIds /\ pictures[i] = "none" /\ Holds(asks[a])
      /\ UNCHANGED <<prompts, pictures, source, cache, offer, accepted, requests, unfair, handed>>
 <2> QED BY DEF AskFits, Holds, WriteFile, AssetInv, AsksFit, Quiet
<1>3. PICK r : /\ asks' = [asks EXCEPT ![a] = r] /\ AskFits(a, r, pictures, disk')
               /\ Holds(r) => r.id = i
               /\ \E x \in {"whole", "part"} : disk' = [disk EXCEPT ![i] = x]
 <2>1. CASE disk' = [disk EXCEPT ![i] = "whole"] /\ asks' = [asks EXCEPT ![a].stage = "row"]
  <3> DEFINE r == [asks[a] EXCEPT !.stage = "row"]
  <3>2. disk'[i] = "whole"  BY <1>1, <2>1 DEF AssetInv, AssetTypeOK
  <3>3. AskFits(a, r, pictures, disk') /\ r.id = i
   <4>1. CASE a = Panel
    <5> QED BY <1>1, <3>2, <4>1 DEF AskFits, UploadType
   <4>2. CASE a # Panel
    <5> QED BY <1>1, <3>2, <4>2 DEF AskFits, CallType
   <4> QED BY <4>1, <4>2
  <3> QED BY <2>1, <3>3
 <2>2. CASE disk' = [disk EXCEPT ![i] = "part"] /\ Abandon(a)  BY <2>2, QuietFits DEF Abandon
 <2> QED BY <2>1, <2>2 DEF WriteFile
<1>5. disk' \in [PictureIds -> {"none", "part", "whole"}]
      /\ \A j \in PictureIds \ {i} : disk'[j] = disk[j]
  BY <1>1, <1>3 DEF AssetInv, AssetTypeOK
<1>6. AsksFit(asks', pictures, disk') /\ Apart(asks')
 <2>1. \A b \in Actors \ {a} : Holds(asks[b]) =>
           /\ pictures[asks[b].id] = pictures[asks[b].id] /\ disk'[asks[b].id] = disk[asks[b].id]
           /\ Holds(r) => r.id # asks[b].id
  <3> QED BY <1>3, <1>5, <1>1 DEF AssetInv, Apart, AsksFit, AskFits, Holds, Quiet
 <2> QED BY <1>3, <2>1, AskGoesOn DEF AssetInv
<1> QED BY <1>1, <1>5, <1>6 DEF AssetInv, AssetTypeOK, FilesFit

\* What a call takes over is behind its other pictures.
LEMMA TakenFits ==
    ASSUME NEW a \in Conversations, NEW r, NEW i \in PictureIds, NEW rows, NEW files,
           r \in CallType, r.media # <<>>
    PROVE  AskFits(a, Taken(r, i), rows, files) /\ ~Holds(Taken(r, i))
<1>4. Taken(r, i) \in CallType /\ Taken(r, i).stage = "media"
  BY HeadTailProperties, AppendProperties DEF CallType, Taken
<1>5. a # Panel  BY AssetAssumption
<1> QED BY <1>4, <1>5 DEF AskFits, Holds

\* A row is inserted for the file that was written.
LEMMA PersistKeeps == ASSUME AssetInv, NEW a \in Actors, Persist(a) PROVE AssetInv'
<1> DEFINE i == asks[a].id
<1>1. asks[a].stage = "row" /\ AskFits(a, asks[a], pictures, disk) /\ asks[a] # Quiet
 <2>3. Quiet.stage = "idle"  BY DEF Quiet
 <2> QED BY <2>3 DEF Persist, AssetInv, AsksFit
<1>2. /\ Holds(asks[a]) /\ i \in PictureIds /\ pictures[i] = "none" /\ disk[i] = "whole"
      /\ pictures' = [pictures EXCEPT ![i] = "active"]
      /\ UNCHANGED <<prompts, source, disk, offer, accepted, requests, unfair, handed>>
  BY <1>1 DEF AskFits, Holds, Persist
<1>3. \A b \in Actors \ {a} : Holds(asks[b]) => asks[b].id \in PictureIds \ {i}
 <2> QED BY <1>2 DEF AssetInv, Apart, AsksFit, AskFits, Holds, Quiet
<1>4. PICK r : /\ asks' = [asks EXCEPT ![a] = r] /\ AskFits(a, r, pictures', disk) /\ ~Holds(r)
               /\ CacheFits(cache')
 <2>1. CASE a = Panel
  <3> QED BY QuietFits, <2>1 DEF AssetInv, Persist, Abandon
 <2>2. CASE a # Panel
  <3>4. AskFits(a, Taken(asks[a], i), pictures', disk) /\ ~Holds(Taken(asks[a], i))
    BY <1>2, TakenFits, <1>1, <2>2 DEF AskFits, Actors
  <3> QED BY <3>4, <1>2, <2>2 DEF CacheFits, AssetInv, Persist
 <2> QED BY <2>1, <2>2
<1>5. /\ pictures' \in [PictureIds -> {"none", "active", "archived"}]
      /\ pictures'[i] = "active" /\ \A j \in PictureIds \ {i} : pictures'[j] = pictures[j]
 <2> QED BY <1>2 DEF AssetInv, AssetTypeOK
<1>6. AsksFit(asks', pictures', disk) /\ Apart(asks')
 <2>1. \A b \in Actors \ {a} : Holds(asks[b]) =>
           /\ pictures'[asks[b].id] = pictures[asks[b].id] /\ disk[asks[b].id] = disk[asks[b].id]
           /\ Holds(r) => r.id # asks[b].id
   BY <1>3, <1>4, <1>5
 <2> QED BY <1>4, <2>1, AskGoesOn DEF AssetInv
<1>8. GenerationsFit(accepted, pictures')
 <2> QED BY GenerationsStay, <1>2, <1>5 DEF AssetInv
<1> QED BY <1>2, <1>4, <1>5, <1>6, <1>8 DEF AssetInv, AssetTypeOK, FilesFit, OutputsFit

\* A call asks.
LEMMA AskImageKeeps == ASSUME AssetInv, NEW c \in Conversations, AskImage(c) PROVE AssetInv'
<1>1. PICK text \in Authored, media \in SeqOf(Media, 2), model \in DOMAIN offer :
          asks' = [asks EXCEPT ![c] = [stage |-> "media", text |-> text, media |-> media, inputs |-> <<>>,
                                       bytes |-> "", id |-> 0, model |-> model]]
  BY DEF AskImage
<1> DEFINE r == [stage |-> "media", text |-> text, media |-> media, inputs |-> <<>>,
                 bytes |-> "", id |-> 0, model |-> model]
<1>2. r \in CallType
 <2>1. media \in Seq(Media)
  <3>1. PICK k \in 0..2 : media \in [1..k -> Media]  BY DEF SeqOf
  <3> QED BY <3>1, SeqDef
 <2> QED BY <2>1, AssetAssumption DEF CallType, AssetInv
<1>3. AskFits(c, r, pictures, disk) /\ ~Holds(r)  BY <1>2, AssetAssumption DEF AskFits, Holds
<1>4. asks' = [asks EXCEPT ![c] = r] /\ c \in Actors  BY <1>1 DEF Actors
<1> HIDE DEF r
<1>5. AsksFit(asks', pictures, disk) /\ Apart(asks')  BY <1>3, <1>4, AskStops DEF AssetInv
<1> QED BY <1>5, AsksAlone DEF AskImage, AssetInv

\* A picture of the chat is taken from the cache, or copied.
LEMMA InputAssetIdKeeps == ASSUME AssetInv, NEW c \in Conversations, InputAssetId(c) PROVE AssetInv'
<1> DEFINE r == asks[c]
           m == Head(r.media)
<1>1. c \in Actors /\ c # Panel /\ r.stage = "media" /\ r.media # <<>> /\ r \in CallType
 <2>3. Quiet.stage = "idle"  BY DEF Quiet
 <2> QED BY <2>3, AssetAssumption DEF AskFits, InputAssetId, AssetInv, AsksFit, Actors
<1>2. ASSUME m \in DOMAIN cache, asks' = [asks EXCEPT ![c] = Taken(r, cache[m])], cache' = cache
      PROVE  AssetInv'
 <2>2. AsksFit(asks', pictures, disk) /\ Apart(asks')
   BY <1>1, <1>2, AskStops, TakenFits DEF AssetInv, CacheFits
 <2> QED BY <1>2, <2>2, AsksAlone DEF InputAssetId, AssetInv
<1>3. ASSUME cache' = [x \in DOMAIN cache \ {m} |-> cache[x]] PROVE CacheFits(cache')
  BY <1>3 DEF AssetInv, CacheFits
<1>4. ASSUME CacheFits(cache'), NEW u \in DOMAIN Uploads,
             asks' = [asks EXCEPT ![c].stage = "verify", ![c].bytes = Uploads[u]]
      PROVE  AssetInv'
 <2> DEFINE x == [r EXCEPT !.stage = "verify", !.bytes = Uploads[u]]
 <2>1. asks' = [asks EXCEPT ![c] = x]  BY <1>4
 <2>3. AskFits(c, x, pictures, disk) /\ ~Holds(x)  BY <1>1 DEF AskFits, Holds, CallType, Range
 <2> HIDE DEF x
 <2>4. AsksFit(asks', pictures, disk) /\ Apart(asks')
   BY <1>1, <2>1, <2>3, AskStops DEF AssetInv
 <2> QED BY <1>4, <2>4, AsksAlone DEF InputAssetId
<1>5. ASSUME CacheFits(cache'), Abandon(c) PROVE AssetInv'
 <2> QED BY <1>5, AsksAlone, <1>1, QuietFits, AskStops DEF InputAssetId, Abandon, AssetInv
<1> QED BY <1>2, <1>3, <1>4, <1>5 DEF InputAssetId

\* A call becomes a generation.
LEMMA SubmitIntentKeeps == ASSUME AssetInv, NEW c \in Conversations, SubmitIntent(c) PROVE AssetInv'
<1> DEFINE r == asks[c]
           input == [text |-> r.text, images |-> r.inputs, model |-> r.model]
<1>1. /\ r.stage = "media" /\ Create(c, <<c, Len(accepted)>>, input) /\ Abandon(c) /\ c \in Actors
      /\ UNCHANGED <<prompts, pictures, source, disk, cache, offer, requests, handed, events>>
  BY DEF SubmitIntent, Actors
<1>2. r \in CallType
 <2> QED BY <1>1, AssetAssumption DEF AskFits, AssetInv, AsksFit, Quiet
<1>3. InputFits(input)  BY <1>2, AssetAssumption DEF InputFits, CallType
<1> HIDE DEF input
<1> QED BY <1>1, QuietFits, AskStops, <1>3, CreateFits DEF AssetInv, AssetTypeOK, Abandon

\* An operator asks for a generation.
LEMMA PanelCreateKeeps == ASSUME AssetInv, PanelCreate PROVE AssetInv'
<1>2. PICK key \in PanelKeys, wish \in Forms, model \in UNION {DOMAIN o : o \in Offers},
           images \in SeqOf({i \in PictureIds : pictures[i] # "none"}, 1) :
           Create(Panel, key, [text |-> PanelBody(wish), images |-> images, model |-> model])
  BY DEF PanelCreate
<1> DEFINE input == [text |-> PanelBody(wish), images |-> images, model |-> model]
<1>3. IsAuthored(PanelBody(wish))
 <2> DEFINE t == wish.text
            refs == [k \in DOMAIN wish.refs |-> PromptRef(wish.refs[k])]
            T == {t[k] : k \in DOMAIN t} \cup {PromptRef(p) : p \in Prompts}
 <2>1. IsAuthored(t) /\ wish.refs \in Seq(Prompts)  BY AssetAssumption
 <2>2. Len(t) \in Nat /\ DOMAIN t = 1..Len(t) /\ t = [k \in 1..Len(t) |-> t[k]]
       /\ \A k \in 1..Len(t) : t[k].is = "prompt" => t[k].id \in Prompts
   BY <2>1 DEF IsAuthored
 <2>3. t \in [1..Len(t) -> T]  BY <2>2
 <2>4. /\ refs \in [1..Len(wish.refs) -> T] /\ Len(wish.refs) \in Nat
       /\ \A k \in 1..Len(wish.refs) : refs[k].is = "prompt" /\ refs[k].id \in Prompts
   BY <2>1 DEF PromptRef
 <2>5. t \in Seq(T) /\ refs \in Seq(T) /\ Len(refs) = Len(wish.refs)
  <3> HIDE DEF T, t, refs
  <3>1. t \in Seq(T)  BY <2>2, <2>3, SeqDef
  <3>2. refs \in Seq(T) /\ Len(refs) = Len(wish.refs)  BY <2>4, SeqDef
  <3> QED BY <3>1, <3>2
 <2>6. PanelBody(wish) = t \o refs  BY DEF PanelBody
 <2> HIDE DEF T, t, refs
 <2>7. /\ t \o refs \in Seq(T) /\ Len(t \o refs) = Len(t) + Len(refs)
       /\ \A k \in 1..Len(t) + Len(refs) :
              (t \o refs)[k] = IF k <= Len(t) THEN t[k] ELSE refs[k - Len(t)]
   BY <2>5, ConcatProperties
 <2>8. ASSUME NEW k \in 1..Len(t) + Len(refs), (t \o refs)[k].is = "prompt"
       PROVE  (t \o refs)[k].id \in Prompts
  <3>1. CASE k <= Len(t)
   <4> QED BY <2>2, <2>7, <2>8, <3>1, <2>4, <2>5
  <3>2. CASE ~(k <= Len(t))
   <4> QED BY <2>4, <2>5, <2>7, <3>2, <2>2
  <3> QED BY <3>1, <3>2
 <2> DEFINE s == t \o refs
 <2>9. s \in Seq(T) /\ Len(s) = Len(t) + Len(refs) /\ \A k \in 1..Len(t) + Len(refs) :
           s[k].is = "prompt" => s[k].id \in Prompts
   BY <2>7, <2>8
 <2> HIDE DEF s
 <2>10. IsAuthored(s)  BY <2>9 DEF IsAuthored
 <2> QED BY <2>6, <2>10 DEF s
<1>4. InputFits(input)
 <2>1. images \in Seq(PictureIds)
  <3>1. PICK k \in 0..1 : images \in [1..k -> {i \in PictureIds : pictures[i] # "none"}]
    BY DEF SeqOf
  <3> QED BY SeqDef, <3>1
 <2> QED BY <1>3, <2>1 DEF InputFits
<1>5. Panel \in Actors /\ Create(Panel, key, input)  BY <1>2 DEF Actors
<1> HIDE DEF input
<1> QED BY <1>4, <1>5, CreateFits DEF AssetInv, AssetTypeOK, PanelCreate

\* The worker sends the request, and may store what comes back.
LEMMA ExecuteItemKeeps == ASSUME AssetInv, NEW g \in DOMAIN accepted, ExecuteItem(g) PROVE AssetInv'
<1>1. /\ g = Len(requests) + 1 /\ requests' = Append(requests, RequestBody(g))
      /\ UNCHANGED <<prompts, cache, offer, asks, accepted, unfair, handed>>
  BY DEF ExecuteItem
<1>2. /\ IsList(accepted) /\ Len(accepted) \in Nat /\ DOMAIN accepted = 1..Len(accepted)
      /\ GenerationFits(accepted[g], pictures)
  BY ListGrows DEF AssetInv, GenerationsFit
<1>3. /\ IsList(requests) /\ Len(requests) \in Nat /\ DOMAIN requests = 1..Len(requests)
      /\ \A k \in 1..Len(requests) : RequestFits(requests[k], accepted[k])
  BY ListGrows DEF AssetInv, RequestsFit
<1>4. RequestFits(RequestBody(g), accepted[g])
 <2> DEFINE images == accepted[g].snapshot.images
 <2> QED BY <1>2 DEF RequestFits, RequestBody, AssetInv, FilesFit, GenerationFits
<1>5. RequestsFit(requests', accepted)
 <2> DEFINE q == RequestBody(g)
 <2> HIDE DEF q
 <2>1. /\ IsList(Append(requests, q)) /\ Len(Append(requests, q)) = g
       /\ DOMAIN Append(requests, q) = 1..Len(requests) + 1
       /\ Append(requests, q)[g] = q /\ \A k \in 1..Len(requests) : Append(requests, q)[k] = requests[k]
   BY <1>1, <1>3, ListGrows
 <2>2. RequestFits(q, accepted[g]) /\ requests' = Append(requests, q)  BY <1>1, <1>4 DEF q
 <2>4. \A k \in 1..Len(requests) + 1 : RequestFits(Append(requests, q)[k], accepted[k])
  <3> QED BY <1>3, <2>1, <2>2, <1>1
 <2> QED BY <2>1, <2>2, <2>4, <1>2 DEF RequestsFit
<1>6. CASE UNCHANGED <<pictures, disk, source>>  BY <1>1, <1>5, <1>6 DEF AssetInv, AssetTypeOK
<1>7. ASSUME NEW i \in Fresh, pictures' = [pictures EXCEPT ![i] = "active"],
             disk' = [disk EXCEPT ![i] = "whole"], source' = [source EXCEPT ![i] = g]
      PROVE  AssetInv'
 <2>1. /\ i \in PictureIds /\ pictures[i] = "none" /\ disk[i] = "none"
       /\ \A b \in Actors : Holds(asks[b]) => asks[b].id # i
   BY DEF Fresh, Unused, Holds
 <2>3. /\ pictures' \in [PictureIds -> {"none", "active", "archived"}]
       /\ disk' \in [PictureIds -> {"none", "part", "whole"}]
       /\ source' \in [PictureIds -> 0..Len(accepted)]
       /\ pictures'[i] = "active" /\ disk'[i] = "whole" /\ source'[i] = g
       /\ \A j \in PictureIds \ {i} :
              pictures'[j] = pictures[j] /\ disk'[j] = disk[j] /\ source'[j] = source[j]
   BY <1>7, <2>1, <1>2 DEF AssetInv, AssetTypeOK, OutputsFit
 <2>5. AsksFit(asks, pictures', disk')
  <3> SUFFICES ASSUME NEW b \in Actors PROVE AskFits(b, asks[b], pictures', disk')
    BY DEF AssetInv, AsksFit
  <3> QED BY <2>1, <2>3 DEF AskFits, AssetInv, AsksFit
 <2>6. GenerationsFit(accepted, pictures')
  <3> QED BY GenerationsStay, <2>1, <2>3 DEF AssetInv
 <2>7. OutputsFit(handed, source', accepted, pictures')
  <3> QED BY <2>3, <2>1 DEF OutputsFit, AssetInv
 <2> QED BY <1>1, <1>5, <2>3, <2>5, <2>6, <2>7 DEF AssetInv, AssetTypeOK, FilesFit
<1> QED BY <1>6, <1>7 DEF ExecuteItem

\* A conversation is sent its outputs.
LEMMA SendOutputsKeeps ==
    ASSUME AssetInv, NEW c \in Conversations, NEW g \in DOMAIN accepted, SendOutputs(c, g)
    PROVE  AssetInv'
<1>1. /\ handed' = handed \cup {<<c, i>> : i \in {i \in SendableOutputs(c, g) : disk[i] = "whole"}}
      /\ UNCHANGED <<prompts, pictures, source, disk, cache, offer, asks, accepted, requests, unfair>>
  BY DEF SendOutputs
<1>2. OutputsFit(handed', source, accepted, pictures)
 <2>1. OutputsFit(handed, source, accepted, pictures)  BY DEF AssetInv
 <2>2. g # 0  BY ListGrows DEF AssetInv, GenerationsFit
 <2>4. ASSUME NEW h \in handed'
       PROVE  h[2] \in PictureIds /\ source[h[2]] # 0 /\ accepted[source[h[2]]].by = h[1]
  <3>1. CASE h \in handed  BY <2>1, <3>1 DEF OutputsFit
  <3>2. ASSUME NEW i \in SendableOutputs(c, g), h = <<c, i>>
        PROVE  h[2] \in PictureIds /\ source[h[2]] # 0 /\ accepted[source[h[2]]].by = h[1]
    BY <2>2, <3>2 DEF SendableOutputs
  <3> QED BY <1>1, <3>1, <3>2
 <2> QED BY <2>1, <2>4 DEF OutputsFit
<1> QED BY <1>1, <1>2 DEF AssetInv, AssetTypeOK

\* A new offer, and the end of the process.
LEMMA AroundAssetsKeep == AssetInv /\ (PublishOffer \/ Interrupt) => AssetInv'
<1>1. ASSUME AssetInv, PublishOffer PROVE AssetInv'
  BY <1>1 DEF PublishOffer, AssetInv, AssetTypeOK
<1>2. ASSUME AssetInv, Interrupt PROVE AssetInv'
 <2>1. AsksFit(asks', pictures, disk) /\ Apart(asks')
  <3> QED BY QuietFits, <1>2 DEF AsksFit, Apart, Interrupt
 <2> QED BY <1>2, <2>1, AsksAlone DEF Interrupt, CacheFits
<1> QED BY <1>1, <1>2

\* At the start.
LEMMA AssetStarts == AssetInit => AssetInv
<1> SUFFICES ASSUME AssetInit PROVE AssetInv  OBVIOUS
<1>3. AsksFit(asks, pictures, disk) /\ Apart(asks)
 <2> QED BY QuietFits DEF AsksFit, Apart, AssetInit
<1>4. accepted = <<>> /\ requests = <<>> /\ IsList(<<>>) /\ handed = {} /\ unfair = {}
  BY EmptySeq DEF AssetInit, IsList
<1>5. /\ GenerationsFit(accepted, pictures) /\ OneKey(accepted) /\ RequestsFit(requests, accepted)
  BY <1>4 DEF GenerationsFit, OneKey, RequestsFit
<1>6. OutputsFit(handed, source, accepted, pictures)
 <2> QED BY <1>4 DEF OutputsFit, AssetInit
<1> QED
  BY <1>3, <1>4, <1>5, <1>6, AssetAssumption DEF AssetInv, AssetInit,
    AssetTypeOK, FilesFit, CacheFits

\* The invariant says what the property says.
LEMMA AssetsSay == AssetInv => AssetsHold
<1> SUFFICES ASSUME AssetInv PROVE AssetsHold  OBVIOUS
<1>2. RequestsAreMeant
 <2> SUFFICES ASSUME NEW g \in DOMAIN requests
              PROVE  /\ Meant(requests[g].prompt, accepted[g]) /\ requests[g].n = 1
                     /\ \A k \in DOMAIN requests[g].input_references :
                            requests[g].input_references[k] = "whole"
                     /\ DOMAIN requests[g].input_references = DOMAIN accepted[g].snapshot.images
                     /\ InOrderOfNames(accepted[g].snapshot.images, accepted[g].input)
   BY DEF RequestsAreMeant
 <2> QED BY ListGrows DEF RequestFits, GenerationFits, AssetInv, RequestsFit, GenerationsFit
<1>4. OutputsGoHome  BY DEF AssetInv, OutputsFit, OutputsGoHome
<1> QED BY <1>2, <1>4 DEF AssetsHold, AssetInv, FilesFit, RowsHaveFiles, OneKey, KeysAreHonoured

\* AssetsHold (resolve.ts, generations.ts, assets.ts, bridge.ts): whatever is edited, archived,
\* replayed or interrupted, a request says what was meant when it was accepted, a key stands
\* for one request, every row has its bytes, and a conversation is sent only its own pictures.
THEOREM AssetsStayWhole == AssetSpec => []AssetsHold
<1>1. AssetInv /\ [AssetNext]_assetVars => AssetInv'
 <2>1. ASSUME AssetInv, UNCHANGED assetVars PROVE AssetInv'
   BY <2>1 DEF assetVars, AssetInv, AssetTypeOK
 <2>2. ASSUME AssetInv, AssetNext PROVE AssetInv'
  <3>1. CASE \E p \in Prompts : RemovePrompt(p) \/
                 \E b \in DOMAIN Bodies : CreatePrompt(p, b) \/ UpdatePrompt(p, b)
    BY <2>2, <3>1, PromptsKeep
  <3>2. CASE \/ \E i \in PictureIds : RemoveImage(i)
             \/ UploadImage \/ PanelCreate \/ PublishOffer \/ Interrupt
    BY <2>2, <3>2, RemoveImageKeeps, UploadImageKeeps, PanelCreateKeeps, AroundAssetsKeep
  <3>3. CASE \E a \in Actors : VerifyBytes(a) \/ WriteFile(a) \/ Persist(a)
    BY <2>2, <3>3, VerifyBytesKeeps, WriteFileKeeps, PersistKeeps
  <3>4. CASE \E c \in Conversations : AskImage(c) \/ InputAssetId(c) \/ SubmitIntent(c)
    BY <2>2, <3>4, AskImageKeeps, InputAssetIdKeeps, SubmitIntentKeeps
  <3>5. CASE \E g \in DOMAIN accepted :
                 ExecuteItem(g) \/ \E c \in Conversations : SendOutputs(c, g)
    BY <2>2, <3>5, ExecuteItemKeeps, SendOutputsKeeps
  <3> QED BY <2>2, <3>1, <3>2, <3>3, <3>4, <3>5 DEF AssetNext
 <2> QED BY <2>1, <2>2
<1> QED BY <1>1, AssetStarts, AssetsSay, PTL DEF AssetSpec

-----------------------------------------------------------------------------
(* Injections, for every instance of the model.  Sets of lines.                *)

\* What is in one of a finite number of finite sets is finite.
LEMMA UnitedIsFinite ==
    ASSUME NEW S, IsFiniteSet(S), NEW R, NEW f \in [S -> R], \A i \in S : IsFiniteSet(f[i]),
           NEW U, \A u \in U : \E i \in S : u \in f[i]
    PROVE  IsFiniteSet(U)
<1> DEFINE T == {f[i] : i \in S}
<1>1. f \in Surjection(S, T)  BY DEF Surjection
<1>2. /\ \A t \in T : IsFiniteSet(t)
      /\ U \in SUBSET UNION T
  OBVIOUS
<1> HIDE DEF T
<1> QED BY <1>2, FS_Subset, FS_UNION, <1>1, FS_Surjection

\* A bounded set of numbers has a last one.
LEMMA LastIs ==
    ASSUME NEW n \in Nat, NEW ids \in SUBSET (0..n), ids # {}
    PROVE  LastId(ids) \in ids /\ \A j \in ids : j <= LastId(ids)
<1> DEFINE T == {n - i : i \in ids}
<1>1. PICK x \in T : \A y \in T : x <= y
 <2>0. \A i \in ids : n - i \in Nat  OBVIOUS
 <2>1. T \in SUBSET Nat /\ T # {}  BY <2>0
 <2> HIDE DEF T
 <2> QED BY <2>1, LeastNat
<1>2. PICK i \in ids : x = n - i  BY <1>1
<1>3. ASSUME NEW j \in ids PROVE j <= i
 <2>1. n - i <= n - j  BY <1>1, <1>2
 <2> QED BY <2>1
<1> QED BY <1>3 DEF LastId

\* What a message becomes: one line that is not indented, and those below it.
LEMMA FormatIs ==
    ASSUME PromptAssumption, messages \in Seq(Contents), NEW id \in DOMAIN messages,
           NEW part, NEW inline, NEW figure
    PROVE  LET lines == FormatSnapshot(part, id, inline, figure) IN
           /\ IsFiniteSet(lines)
           /\ \A l \in lines : l.at[1] = part /\ l.at[2] = id /\ (~l.indent => l = HeaderOf(part, id))
           /\ HeaderOf(part, id) \in lines
           /\ \A l \in lines : l.is = "picture" => messages[id].picture /\ l.id = figure
           /\ messages[id].picture => \E l \in lines : l.is = "picture" /\ l.id = figure
           /\ messages[id].reply \notin inline \cup {0} =>
                 \E l \in lines : l.is = "quote" /\ l.id = messages[id].reply
<1> DEFINE m == messages[id]
           Indented(n, line) == Placed(part, id, n, TRUE, line)
           quotes == IF m.reply \in inline \cup {0} THEN {}
                     ELSE {Indented(2, Line("quote", m.reply, Nobody))}
           body == {Indented(n + 2, m.body[n]) : n \in 1..Len(m.body)}
           painted == IF m.picture THEN {Indented(Len(m.body) + 3, Line("picture", figure, Nobody))}
                       ELSE {}
           lines == FormatSnapshot(part, id, inline, figure)
<1>1. lines = {HeaderOf(part, id)} \cup quotes \cup body \cup painted  BY DEF FormatSnapshot
<1>2. m \in Contents  OBVIOUS
<1>3. /\ m.picture \in BOOLEAN /\ Len(m.body) \in Nat
      /\ \A n \in 1..Len(m.body) : m.body[n].is \in {"text", "close", "header"}
  BY <1>2 DEF PromptAssumption
<1>4. IsFiniteSet(lines)
 <2>1. IsFiniteSet(body)
  <3> DEFINE f == [n \in 1..Len(m.body) |-> {Indented(n + 2, m.body[n])}]
  <3>2. ASSUME NEW k \in Nat PROVE IsFiniteSet(1..k)
   <4> HIDE DEF f, m, quotes, body, painted, lines
   <4> QED BY FS_Interval
  <3>3. IsFiniteSet(1..Len(m.body))  BY <1>3, <3>2
  <3>4. f \in [1..Len(m.body) -> {f[n] : n \in 1..Len(m.body)}] /\ \A n \in 1..Len(m.body) : IsFiniteSet(f[n])
    BY FS_Singleton
  <3>5. \A l \in body : \E n \in 1..Len(m.body) : l \in f[n]  OBVIOUS
  <3> HIDE DEF f, body
  <3> QED BY <3>3, <3>4, <3>5, UnitedIsFinite
 <2>2. quotes = {} \/ quotes = {Indented(2, Line("quote", m.reply, Nobody))}  OBVIOUS
 <2>3. painted = {} \/ painted = {Indented(Len(m.body) + 3, Line("picture", figure, Nobody))}
   OBVIOUS
 <2>4. IsFiniteSet(quotes) /\ IsFiniteSet(painted) /\ IsFiniteSet({HeaderOf(part, id)})
  <3>1. \A x : IsFiniteSet({x})  BY FS_Singleton
  <3> HIDE DEF quotes, painted, body, lines
  <3>2. IsFiniteSet(quotes)  BY <2>2, <3>1, FS_EmptySet
  <3>3. IsFiniteSet(painted)  BY <2>3, <3>1, FS_EmptySet
  <3> QED BY <3>1, <3>2, <3>3
 <2> HIDE DEF quotes, painted, body
 <2> QED BY <1>1, <2>1, <2>4, FS_Union
<1>5. HeaderOf(part, id).at[1] = part /\ HeaderOf(part, id).at[2] = id
      /\ HeaderOf(part, id).is = "header"
  BY DEF HeaderOf, Placed, Line
<1>6. \A l \in quotes : l.at[1] = part /\ l.at[2] = id /\ l.indent /\ l.is = "quote"
  BY DEF Placed, Line
<1>7. \A l \in body : l.at[1] = part /\ l.at[2] = id /\ l.indent /\ l.is # "picture"
 <2> SUFFICES ASSUME NEW n \in 1..Len(m.body)
              PROVE  LET l == Indented(n + 2, m.body[n])
                     IN l.at[1] = part /\ l.at[2] = id /\ l.indent /\ l.is # "picture"
   OBVIOUS
 <2> QED BY <1>3 DEF Placed
<1>8. \A l \in painted : l.at[1] = part /\ l.at[2] = id /\ l.indent /\ l.id = figure /\ m.picture
  BY DEF Placed, Line
<1>9. m.picture => \E l \in painted : l.is = "picture" /\ l.id = figure
  BY <1>3 DEF Placed, Line
<1>10. m.reply \notin inline \cup {0} => \E l \in quotes : l.is = "quote" /\ l.id = m.reply
  BY DEF Placed, Line
<1> HIDE DEF quotes, body, painted, lines
<1>11. \A l \in lines : l.at[1] = part /\ l.at[2] = id /\ (~l.indent => l = HeaderOf(part, id))
  BY <1>1, <1>5, <1>6, <1>7, <1>8
<1>12. \A l \in lines : l.is = "picture" => m.picture /\ l.id = figure
  BY <1>1, <1>5, <1>6, <1>7, <1>8
<1> QED BY <1>1, <1>4, <1>9, <1>10, <1>11, <1>12 DEF lines

\* The places of a set, from the first to the last: all of them, and no other.
LEMMA AttachedIs ==
    ASSUME NEW n \in Nat, NEW places \in SUBSET (1..n)
    PROVE  \E m \in Nat :
               /\ Attached(places) \in [1..m -> places] /\ Range(Attached(places)) = places
               /\ \A j, k \in 1..m : j < k => Attached(places)[j] < Attached(places)[k]
               /\ \A i \in places : \E k \in 1..m :
                     k = Cardinality({j \in places : j <= i}) /\ Attached(places)[k] = i
BY InOrderIs DEF Attached, PlacesInOrder

-----------------------------------------------------------------------------
(* What an injection shows.                                                    *)

\* What the budget counts of more rows is more.
LEMMA MessagesAre ==
    ASSUME messages \in Seq(Contents)
    PROVE  /\ DOMAIN messages = 1..Len(messages) /\ Len(messages) \in Nat
           /\ IsFiniteSet(DOMAIN messages)
<1> QED BY FS_Interval

LEMMA SizedIs ==
    ASSUME PromptAssumption, messages \in Seq(Contents), NEW part,
           NEW ids \in SUBSET DOMAIN messages
    PROVE  /\ IsFiniteSet(SizedLines(part, ids))
           /\ \A some \in SUBSET ids : SizedLines(part, some) \subseteq SizedLines(part, ids)
<1> DEFINE f == [id \in ids |-> FormatSnapshot(part, id, {}, 0)]
           R == {f[id] : id \in ids}
<1>3. f \in [ids -> R] /\ \A id \in ids : IsFiniteSet(f[id])
 <2> QED BY FormatIs
<1>4. \A l \in SizedLines(part, ids) : \E id \in ids : l \in f[id]  BY DEF SizedLines
<1> HIDE DEF f, R
<1> QED BY <1>3, <1>4, UnitedIsFinite, MessagesAre, FS_Subset DEF SizedLines

LEMMA SizesGrow ==
    ASSUME PromptAssumption, messages \in Seq(Contents),
           NEW shown \in SUBSET DOMAIN messages, NEW older \in SUBSET DOMAIN messages,
           NEW fewer \in SUBSET shown, NEW newer \in SUBSET older
    PROVE  /\ Cardinality(SizedLines(OfNew, shown)) \in Nat /\ UsedLines(older, shown) \in Nat
           /\ Cardinality(SizedLines(OfNew, fewer)) <= Cardinality(SizedLines(OfNew, shown))
           /\ UsedLines(newer, shown) <= UsedLines(older, shown)
           /\ Cardinality(SizedLines(OfNew, shown)) <= UsedLines(older, shown)
           /\ UsedLines({}, shown) = Cardinality(SizedLines(OfNew, shown))
<1> DEFINE A == SizedLines(OfNew, shown)
           B == SizedLines(OfHistory, older)
<1>1. IsFiniteSet(A) /\ SizedLines(OfNew, fewer) \in SUBSET A  BY SizedIs
<1>2. IsFiniteSet(B) /\ SizedLines(OfHistory, newer) \in SUBSET B  BY SizedIs
<1> HIDE DEF A, B
<1>4. IsFiniteSet(B \cup A)  BY <1>1, <1>2, FS_Union
<1> QED BY <1>1, <1>4, FS_Subset, FS_CardinalityType, <1>2 DEF UsedLines, A, B, SizedLines

\* The rows that fit are the newest; and they fit, or one is shown alone.
LEMMA FittingIs ==
    ASSUME PromptAssumption, messages \in Seq(Contents), NEW budget \in Nat,
           NEW batched \in SUBSET DOMAIN messages, batched # {},
           NEW history \in SUBSET DOMAIN messages
    PROVE  LET shown == FittingNew(batched, budget)
               older == FittingHistory(history, shown, budget)
           IN /\ shown # {} /\ IsNewestOf(shown, batched) /\ IsNewestOf(older, history)
              /\ \/ UsedLines(older, shown) <= budget
                 \/ Cardinality(shown) = 1 /\ older = {}
<1> DEFINE shown == FittingNew(batched, budget)
           older == FittingHistory(history, shown, budget)
           last == LastId(batched)
<1>1. DOMAIN messages = 1..Len(messages) /\ Len(messages) \in Nat  OBVIOUS
<1>2. last \in batched /\ \A j \in batched : j <= last
 <2>1. batched \in SUBSET (0..Len(messages))  BY <1>1
 <2> QED BY <1>1, <2>1, LastIs
<1>3. last \in shown
 <2>1. From(batched, last) = {last}
  <3> QED BY <1>2 DEF From
 <2> QED BY <1>2, <2>1 DEF FittingNew
<1>4. shown \subseteq batched /\ older \subseteq history  BY DEF FittingNew, FittingHistory
<1>5. ASSUME NEW ids \in SUBSET DOMAIN messages, NEW i \in ids, NEW j \in ids, j >= i
      PROVE  From(ids, j) \in SUBSET From(ids, i) /\ From(ids, i) \in SUBSET ids
             /\ j \in From(ids, j) /\ j \in From(ids, i)
 <2> QED BY <1>5, <1>1 DEF From
<1>6. IsNewestOf(shown, batched)
 <2> SUFFICES ASSUME NEW i \in shown, NEW j \in batched, j >= i PROVE j \in shown
   BY <1>4 DEF IsNewestOf
 <2>0. From(batched, j) \in SUBSET From(batched, i) /\ From(batched, i) \in SUBSET DOMAIN messages
       /\ j \in From(batched, j) /\ j \in From(batched, i)
   BY <1>4, <1>5
 <2>1. CASE From(batched, i) = {i}
  <3>1. j = i  BY <2>0, <2>1
  <3> QED BY <3>1
 <2>2. CASE Cardinality(SizedLines(OfNew, From(batched, i))) <= budget
  <3> DEFINE all == Cardinality(SizedLines(OfNew, From(batched, i)))
             some == Cardinality(SizedLines(OfNew, From(batched, j)))
  <3>1. all \in Nat /\ some <= all  BY <2>0, SizesGrow
  <3>2. some \in Nat
   <4> QED BY SizesGrow, <2>0
  <3> HIDE DEF all, some
  <3> QED BY <2>2, <3>1, <3>2 DEF FittingNew, some, all
 <2> QED BY <2>1, <2>2 DEF FittingNew
<1>7. shown \in SUBSET DOMAIN messages  BY <1>4
<1> DEFINE US(i) == UsedLines(From(history, i), shown)
<1>8. IsNewestOf(older, history)
 <2> SUFFICES ASSUME NEW i \in older, NEW j \in history, j >= i PROVE j \in older
   BY <1>4 DEF IsNewestOf
 <2> HIDE DEF shown
 <2>2. US(i) \in Nat /\ US(j) \in Nat /\ US(j) <= US(i)  BY SizesGrow, <1>4, <1>5
 <2> HIDE DEF US
 <2> QED BY <2>2 DEF FittingHistory, US
<1>9. Cardinality(SizedLines(OfNew, shown)) <= budget \/ Cardinality(shown) = 1
 <2>1. PICK i \in shown : \A j \in shown : i <= j
  <3> HIDE DEF shown
  <3> QED BY LeastNat, <1>1, <1>3, <1>7
 <2>2. From(batched, i) = shown
  <3> QED BY <1>6, <1>1, <2>1 DEF From, IsNewestOf
 <2>3. From(batched, i) = {i} \/ Cardinality(SizedLines(OfNew, From(batched, i))) <= budget
   BY DEF FittingNew
 <2> HIDE DEF shown
 <2> QED BY <2>2, <2>3, FS_Singleton
<1>10. UsedLines(older, shown) <= budget \/ (Cardinality(shown) = 1 /\ older = {})
 <2> HIDE DEF shown
 <2>1. CASE older = {}
  <3> HIDE DEF older
  <3> QED BY <1>9, <2>1, <1>7, SizesGrow
 <2>2. CASE older # {}
  <3>1. PICK i \in older : \A j \in older : i <= j
   <4>1. older \in SUBSET Nat  BY <1>4
   <4> HIDE DEF older
   <4> QED BY <4>1, <2>2, LeastNat
  <3>2. From(history, i) = older
   <4> HIDE DEF older
   <4> QED BY <1>8, <1>4, <3>1 DEF From, IsNewestOf
  <3>3. UsedLines(From(history, i), shown) <= budget  BY DEF FittingHistory
  <3> HIDE DEF older
  <3> QED BY <3>2, <3>3
 <2> QED BY <2>1, <2>2
<1> QED BY <1>3, <1>6, <1>8, <1>10

\* What an injection says holds of its text, whatever comes after it.
TextFits(x) ==
    /\ IsFiniteSet(x.text) /\ x.older \cup x.shown \subseteq DOMAIN messages
    /\ x.senders = {messages[id].by : id \in x.older \cup x.shown} \ {Nobody}
    /\ x.caller \in Senders \cup {Nobody}
    /\ CatalogLines(x.text) # {} => x.catalog # ""
    /\ CatalogLines(x.text) \subseteq {Placed(3, 0, 0, FALSE, Line("catalog", 0, x.catalog))}
    /\ RowsReadBack(x) /\ NewestFit(x) /\ RepliesResolve(x) /\ PicturesPair(x)

\* Texts of an agent: finitely many lines.
AreTexts(texts) ==
    \E n \in Nat : DOMAIN texts = 1..n /\ \A t \in DOMAIN texts : IsFiniteSet(texts[t])

LEMMA BudgetIs ==
    ASSUME PromptAssumption, NEW texts, AreTexts(texts)
    PROVE  Budget(texts) \in Nat
<1> DEFINE f == [t \in DOMAIN texts |-> {t} \X texts[t]]
           R == {f[t] : t \in DOMAIN texts}
<1>1. IsFiniteSet(DOMAIN texts) /\ \A t \in DOMAIN texts : IsFiniteSet(texts[t])
 <2>1. PICK n \in Nat : DOMAIN texts = 1..n /\ \A t \in DOMAIN texts : IsFiniteSet(texts[t])
   BY DEF AreTexts
 <2>2. IsFiniteSet(1..n)  BY FS_Interval
 <2> QED BY <2>1, <2>2
<1>2. f \in [DOMAIN texts -> R] /\ \A t \in DOMAIN texts : IsFiniteSet(f[t])
 <2>1. ASSUME NEW t \in DOMAIN texts PROVE IsFiniteSet(f[t])
  <3> QED BY FS_Product, <1>1, FS_Singleton
 <2> QED BY <2>1
<1>3. \A u \in LinesOf(texts) : \E t \in DOMAIN texts : u \in f[t]  BY DEF LinesOf
<1> HIDE DEF f, R
<1>4. IsFiniteSet(LinesOf(texts))  BY <1>1, <1>2, <1>3, UnitedIsFinite
<1> QED BY <1>4, FS_CardinalityType DEF Budget, PromptAssumption

\* Only the senders' headers and, above them, the end and the memories are not indented.
LEMMA RenderFits ==
    ASSUME PromptAssumption, messages \in Seq(Contents),
           frozen.new \subseteq DOMAIN messages, frozen.history \subseteq DOMAIN messages,
           NEW batch \in SUBSET frozen.new, batch # {}, NEW texts, AreTexts(texts),
           NEW carried, NEW memories \in Memories
    PROVE  LET x == RenderInjection(batch, texts, carried, memories) IN
           /\ TextFits(x) /\ x.catalog = catalog
           /\ CatalogLines(x.text) # {} <=> catalog \notin {"", carried}
<1> DEFINE budget == Budget(texts)
           batched == frozen.new \cap batch
           history == frozen.history \ CollectInjectedMessageIds(texts)
           shown == FittingNew(batched, budget)
           older == FittingHistory(history, shown, budget)
           inline == older \cup shown
           named == {i \in shown : messages[i].by # Nobody}
           end == Placed(2, 0, 0, FALSE, Close)
           cat == Placed(3, 0, 0, FALSE, Line("catalog", 0, catalog))
           cats == {Placed(3, 0, 0, FALSE, Line("catalog", 0, c)) : c \in {catalog} \ {"", carried}}
           before == UNION {FormatSnapshot(OfHistory, id, inline, 0) : id \in older}
           now == UNION {FormatSnapshot(OfNew, id, inline, Figure(shown, id)) : id \in shown}
           x == RenderInjection(batch, texts, carried, memories)
<1>0. DOMAIN messages = 1..Len(messages) /\ Len(messages) \in Nat
      /\ \A id \in DOMAIN messages : messages[id] \in Contents
  OBVIOUS
<1>1. /\ x.text = memories \cup {end} \cup cats \cup before \cup now
      /\ x.batch = batch /\ x.current = batched /\ x.history = history /\ x.shown = shown
      /\ x.older = older /\ x.budget = budget /\ x.used = UsedLines(older, shown)
      /\ x.omitted = Cardinality(batched) - Cardinality(shown) /\ x.catalog = catalog
      /\ x.images = Attached(Pictured(shown)) /\ x.senders = {messages[id].by : id \in inline} \ {Nobody}
      /\ x.caller = IF named = {} THEN Nobody ELSE messages[LastId(named)].by
 <2>1. x = [text |-> memories \cup {end} \cup cats \cup before \cup now,
            batch |-> batch, current |-> batched, history |-> history, shown |-> shown,
            older |-> older, budget |-> budget, used |-> UsedLines(older, shown),
            omitted |-> Cardinality(batched) - Cardinality(shown), catalog |-> catalog,
            images |-> Attached(Pictured(shown)),
            senders |-> {messages[id].by : id \in inline} \ {Nobody},
            caller |-> IF named = {} THEN Nobody ELSE messages[LastId(named)].by]
   BY Zenon DEF RenderInjection
 <2> HIDE DEF x, end, cats, before, now, batched, history, shown, older, budget, inline, named
 <2> QED BY <2>1
<1>2. batched = batch /\ batched \in SUBSET DOMAIN messages /\ history \in SUBSET DOMAIN messages
      /\ budget \in Nat
  BY BudgetIs
<1>3. /\ shown # {} /\ IsNewestOf(shown, batched) /\ IsNewestOf(older, history)
      /\ UsedLines(older, shown) <= budget \/ (Cardinality(shown) = 1 /\ older = {})
  <2> HIDE DEF batched, history, budget
  <2> QED BY <1>2, FittingIs
<1>4. shown \in SUBSET DOMAIN messages /\ older \in SUBSET DOMAIN messages
  BY <1>3 DEF IsNewestOf
<1>5. IsFiniteSet(DOMAIN messages)  BY MessagesAre
<1>6. cats = IF catalog \in {"", carried} THEN {} ELSE {cat}  OBVIOUS
<1> HIDE DEF budget, batched, history, shown, older, x, cats
<1>7. x.caller \in Senders \cup {Nobody}
 <2>1. CASE named # {}
  <3>1. named \in SUBSET (0..Len(messages))  BY <1>4
  <3>2. LastId(named) \in named
   <4> HIDE DEF named
   <4> QED BY <1>0, <2>1, <3>1, LastIs
  <3> QED BY <1>1, <2>1, <1>4, <3>2 DEF PromptAssumption
 <2> QED BY <1>1, <2>1
\* The lines of the text.
<1>8. /\ end.at = <<2, 0, 0>> /\ ~end.indent /\ end.is = "close"
      /\ cat.at = <<3, 0, 0>> /\ ~cat.indent /\ cat.is = "catalog" /\ cat.id = 0
  BY DEF Placed, Close, Line
<1>9. \A l \in memories : l.at[1] = 1 /\ ~l.indent /\ l.is \in {"close", "header"}
  BY DEF Memories, Placed, Close, Line
<1>10. \A part, id : /\ HeaderOf(part, id).at = <<part, id, 1>> /\ ~HeaderOf(part, id).indent
                     /\ HeaderOf(part, id).is = "header"
  BY DEF HeaderOf, Placed, Line
<1>11. /\ \A l \in before : \E id \in older : l \in FormatSnapshot(OfHistory, id, inline, 0)
       /\ \A l \in now : \E id \in shown : l \in FormatSnapshot(OfNew, id, inline, Figure(shown, id))
       /\ \A id \in older : FormatSnapshot(OfHistory, id, inline, 0) \subseteq before
       /\ \A id \in shown : FormatSnapshot(OfNew, id, inline, Figure(shown, id)) \subseteq now
  OBVIOUS
<1> HIDE DEF inline, end, cat
<1>12. IsFiniteSet(before) /\ IsFiniteSet(now)
 <2> DEFINE f == [id \in older |-> FormatSnapshot(OfHistory, id, inline, 0)]
            R == {f[id] : id \in older}
            g == [id \in shown |-> FormatSnapshot(OfNew, id, inline, Figure(shown, id))]
            Q == {g[id] : id \in shown}
 <2>2. f \in [older -> R] /\ \A id \in older : IsFiniteSet(f[id])
  <3> QED BY <1>4, FormatIs
 <2>3. g \in [shown -> Q] /\ \A id \in shown : IsFiniteSet(g[id])
  <3> QED BY <1>4, FormatIs
 <2>4. /\ \A l \in before : \E id \in older : l \in f[id]
       /\ \A l \in now : \E id \in shown : l \in g[id]
   OBVIOUS
 <2> HIDE DEF f, R, g, Q, before, now
 <2> QED BY <2>2, <2>4, UnitedIsFinite, <2>3, <1>4, <1>5, FS_Subset
<1> HIDE DEF before, now
<1>13. IsFiniteSet(x.text)
 <2>1. \A y : IsFiniteSet({y})  BY FS_Singleton
 <2>2. \A S, T : IsFiniteSet(S) /\ IsFiniteSet(T) => IsFiniteSet(S \cup T)  BY FS_Union
 <2>3. IsFiniteSet(memories)
  <3> DEFINE y == Placed(1, 0, 1, FALSE, Close)
             z == Placed(1, 0, 2, FALSE, Line("header", 1, Nobody))
  <3>1. memories = {} \/ memories = {y, z}  BY DEF Memories
  <3> HIDE DEF y, z
  <3>4. IsFiniteSet({y} \cup {z})  BY <2>2, <2>1
  <3> QED BY <3>4, FS_EmptySet, <3>1
 <2>4. IsFiniteSet(cats)
  <3> QED BY <2>1, FS_EmptySet, <1>6
 <2>8. IsFiniteSet(memories \cup {end} \cup cats \cup before \cup now)
   BY <1>12, <2>2, <2>4, <2>1, <2>3
 <2> QED BY <1>1, <2>8
\* A line below the end that is not indented is a header or the catalog.
<1>14. \A l \in x.text : ~l.indent =>
          \/ l \in memories \/ l = end \/ l \in cats
          \/ \E id \in older : l = HeaderOf(OfHistory, id)
          \/ \E id \in shown : l = HeaderOf(OfNew, id)
 <2>1. ASSUME NEW l \in before, ~l.indent PROVE \E id \in older : l = HeaderOf(OfHistory, id)
   BY <1>4, <1>11, <2>1, FormatIs
 <2>2. ASSUME NEW l \in now, ~l.indent PROVE \E id \in shown : l = HeaderOf(OfNew, id)
   BY <1>4, <1>11, <2>2, FormatIs
 <2> QED BY <1>1, <2>1, <2>2
<1>15. /\ \A id \in older : HeaderOf(OfHistory, id) \in x.text
       /\ \A id \in shown : HeaderOf(OfNew, id) \in x.text
 <2> QED BY <1>1, <1>4, <1>11, FormatIs
<1>16. CatalogLines(x.text) = cats
 <2>2. cats \subseteq CatalogLines(x.text)  BY <1>1, <1>6, <1>8 DEF CatalogLines
 <2> QED BY <2>2, <1>8, <1>9, <1>10, <1>14 DEF CatalogLines
<1>17. RowsReadBack(x)
 <2> DEFINE rows == {HeaderOf(OfHistory, id) : id \in older} \cup {HeaderOf(OfNew, id) : id \in shown}
 <2>2. \A k \in Closes(x.text) : k.at[1] \in {1, 2}
  <3> SUFFICES ASSUME NEW k \in x.text, k.is = "close", ~k.indent PROVE k.at[1] \in {1, 2}
    BY DEF Closes
  <3>2. k \in memories \/ k = end  BY <1>10, <1>14, <1>6, <1>8
  <3> QED BY <1>8, <1>9, <3>2
 <2>4. \A l \in memories : ~Before(end, l)  BY <1>8, <1>9 DEF Before
 <2>5. \A l \in rows : l \in Headers(x.text) /\ l.at[1] \in {4, 5}
   BY <1>10, <1>15 DEF Headers, OfHistory, OfNew
 <2> HIDE DEF rows
 <2>6. \A l \in rows, k \in Closes(x.text) : Before(k, l)
  <3>1. \A l \in rows, k \in Closes(x.text) : k.at[1] < l.at[1]  BY <2>2, <2>5
  <3> QED BY <3>1 DEF Before
 <2> QED
   BY <1>1, <2>4, <2>5, <2>6, <1>8, <1>6, <1>14 DEF RowsReadBack, rows,
     ParseSnapshotLines, Closes, Headers
<1>18. NewestFit(x)
 <2>1. shown \in SUBSET batched /\ IsFiniteSet(batched)
   BY <1>2, <1>3, <1>5, FS_Subset DEF IsNewestOf
 <2>2. batched \cap shown = shown  BY <2>1
 <2>3. Cardinality(batched \ shown) = Cardinality(batched) - Cardinality(shown)
   BY <2>1, <2>2, FS_Difference
 <2> QED BY <1>1, <1>2, <1>3, <2>3 DEF NewestFit
<1>19. RepliesResolve(x)
 <2> SUFFICES ASSUME NEW id \in older \cup shown, messages[id].reply \notin {0} \cup older \cup shown
              PROVE  \E l \in x.text : l.is = "quote" /\ l.id = messages[id].reply /\ l.at[2] = id
   BY <1>1 DEF RepliesResolve
 <2>1. messages[id].reply \notin inline \cup {0} /\ id \in DOMAIN messages  BY <1>4 DEF inline
 <2>2. CASE id \in older
  <3>1. PICK l \in FormatSnapshot(OfHistory, id, inline, 0) :
           l.is = "quote" /\ l.id = messages[id].reply
    BY <2>1, FormatIs
  <3> QED BY <1>1, <1>11, <2>2, <3>1, <2>1, FormatIs
 <2>3. CASE id \in shown
  <3>1. PICK l \in FormatSnapshot(OfNew, id, inline, Figure(shown, id)) :
           l.is = "quote" /\ l.id = messages[id].reply
    BY <2>1, FormatIs
  <3> QED BY <1>1, <1>11, <2>3, <3>1, <2>1, FormatIs
 <2> QED BY <2>2, <2>3
<1>20. PicturesPair(x)
 <2> DEFINE with == Pictured(shown)
            images == Attached(with)
            figures == {l \in x.text : l.is = "picture" /\ l.id > 0}
 <2>1. with \in SUBSET (1..Len(messages)) /\ with \subseteq shown  BY <1>4 DEF Pictured
 <2>2. PICK m \in Nat : /\ images \in [1..m -> with] /\ Range(images) = with
                        /\ \A j, k \in 1..m : j < k => images[j] < images[k]
                        /\ \A i \in with : \E k \in 1..m :
                              k = Cardinality({j \in with : j <= i}) /\ images[k] = i
   BY <1>0, <2>1, AttachedIs
 <2>3. \A i \in with : Figure(shown, i) \in 1..m /\ images[Figure(shown, i)] = i
   BY <2>2 DEF Figure
 <2> HIDE DEF with, images
 <2>4. ASSUME NEW l \in figures
       PROVE  \E i \in with : l.id = Figure(shown, i) /\ l.at[2] = i
  <3>2. CASE l \in before
    BY <1>4, <1>11, <3>2, FormatIs
  <3>3. CASE l \in now
   <4>1. PICK id \in shown : l \in FormatSnapshot(OfNew, id, inline, Figure(shown, id))
     BY <1>11, <3>3
   <4> QED BY <1>4, <4>1, FormatIs DEF with, Pictured
  <3> QED BY <3>2, <3>3, <1>1, <1>6, <1>8, <1>9
 <2>5. ASSUME NEW k \in 1..m PROVE \E l \in figures : l.id = k
  <3>1. images[k] \in with /\ Figure(shown, images[k]) \in 1..m
        /\ images[Figure(shown, images[k])] = images[k]
    BY <2>2, <2>3
  <3>2. Figure(shown, images[k]) = k
   <4> DEFINE j == Figure(shown, images[k])
   <4>1. j \in 1..m /\ images[j] = images[k]  BY <3>1
   <4>2. images[j] \in with /\ \A i \in with : i \in Nat  BY <1>0, <2>1, <2>2, <4>1
   <4> HIDE DEF j
   <4>3. ~(j < k) /\ ~(k < j)  BY <2>2, <4>1, <4>2
   <4>4. j = k  BY <4>1, <4>3
   <4> QED BY <4>4 DEF j
  <3>3. images[k] \in shown /\ messages[images[k]].picture  BY <3>1 DEF with, Pictured
  <3>4. PICK l \in FormatSnapshot(OfNew, images[k], inline, Figure(shown, images[k])) :
           l.is = "picture" /\ l.id = k
    BY <1>4, <3>2, <3>3, FormatIs
  <3> QED BY <3>4, <1>1, <1>11, <3>3
 <2>6. {l.id : l \in figures} = 1..m
  <3>1. \A l \in figures : l.id \in 1..m  BY <2>3, <2>4
  <3> HIDE DEF figures
  <3> QED BY <2>5, <3>1
 <2>7. \A l \in figures : images[l.id] = l.at[2]  BY <2>3, <2>4
 <2> QED BY <2>2, <2>6, <2>7, <1>1 DEF PicturesPair, images, with
<1>21. CatalogLines(x.text) # {} <=> catalog \notin {"", carried}  BY <1>6, <1>16
<1>22. CatalogLines(x.text) \subseteq {Placed(3, 0, 0, FALSE, Line("catalog", 0, x.catalog))}
  BY <1>1, <1>6, <1>16 DEF cat
<1>23. x.older \cup x.shown \subseteq DOMAIN messages
       /\ x.senders = {messages[id].by : id \in x.older \cup x.shown} \ {Nobody}
  BY <1>1, <1>4 DEF inline
<1>24. TextFits(x)
  BY <1>1, <1>7, <1>13, <1>17, <1>18, <1>19, <1>20, <1>21, <1>22, <1>23 DEF TextFits
<1> QED BY <1>1, <1>21, <1>24 DEF x

-----------------------------------------------------------------------------
(* What is read back of a list of injections.                                  *)

\* Some text of the list carries a catalog.
Carrying(ts, t) == CatalogLines(ts[t].text) # {}

LEMMA ListIs ==
    ASSUME NEW ts, IsList(ts)
    PROVE  DOMAIN ts = 1..Len(ts) /\ Len(ts) \in Nat
BY DEF IsList

LEMMA TextsAre ==
    ASSUME NEW ts, IsList(ts), \A t \in DOMAIN ts : TextFits(ts[t])
    PROVE  /\ AreTexts(TextsOf(ts)) /\ DOMAIN TextsOf(ts) = DOMAIN ts
           /\ \A t \in DOMAIN ts : TextsOf(ts)[t] = ts[t].text
<1> QED BY ListIs DEF AreTexts, TextsOf, TextFits

\* The senders that are read back are those of the injections.
LEMMA VisibleIs ==
    ASSUME PromptAssumption, messages \in Seq(Contents),
           NEW ts, IsList(ts), \A t \in DOMAIN ts : TextFits(ts[t])
    PROVE  /\ CollectVisibleSenders(TextsOf(ts)) = UNION {ts[t].senders : t \in DOMAIN ts}
           /\ CollectVisibleSenders(TextsOf(ts)) \subseteq Senders
<1>1. ASSUME NEW t \in DOMAIN ts
      PROVE  {l.by : l \in ParseSnapshotLines(ts[t].text)} \ {Nobody} = ts[t].senders
             /\ ts[t].senders \subseteq Senders
 <2> DEFINE x == ts[t]
            read == ParseSnapshotLines(x.text)
 <2>1. TextFits(x)  OBVIOUS
 <2>2. \A part, id : HeaderOf(part, id).by = messages[id].by  BY DEF HeaderOf, Placed, Line
 <2>3. x.senders = {messages[id].by : id \in x.older \cup x.shown} \ {Nobody}
       /\ x.older \cup x.shown \subseteq DOMAIN messages
   BY DEF TextFits
 <2>4. /\ \A l \in read : \/ \E id \in x.older : l = HeaderOf(OfHistory, id)
                          \/ \E id \in x.shown : l = HeaderOf(OfNew, id)
       /\ \A id \in x.older : HeaderOf(OfHistory, id) \in read
       /\ \A id \in x.shown : HeaderOf(OfNew, id) \in read
   BY <2>1 DEF TextFits, RowsReadBack
 <2> HIDE DEF read, x
 <2>5. \A s : (\E l \in read : l.by = s) <=> \E id \in x.older \cup x.shown : messages[id].by = s
  <3>1. ASSUME NEW l \in read PROVE \E id \in x.older \cup x.shown : messages[id].by = l.by
    BY <2>2, <2>4
  <3>2. ASSUME NEW id \in x.older \cup x.shown PROVE \E l \in read : l.by = messages[id].by
   <4>1. CASE id \in x.older  BY <2>2, <2>4
   <4>2. CASE id \in x.shown  BY <2>2, <2>4
   <4> QED BY <4>1, <4>2
  <3> QED BY <3>1, <3>2
 <2>6. {l.by : l \in read} \ {Nobody} = x.senders  BY <2>3, <2>5
 <2>7. \A id \in DOMAIN messages : messages[id].by \in Senders \cup {Nobody}
   BY DEF PromptAssumption
 <2>8. x.senders \subseteq Senders  BY <2>3, <2>7
 <2> QED BY <2>6, <2>8 DEF read, x
<1> QED BY <1>1, TextsAre DEF CollectVisibleSenders

\* The catalog that is read back is the one of the newest injection that carries one.
LEMMA CatalogIs ==
    ASSUME NEW ts, IsList(ts), \A t \in DOMAIN ts : TextFits(ts[t])
    PROVE  \/ /\ \A t \in DOMAIN ts : ~Carrying(ts, t)
              /\ LastStickerCatalog(TextsOf(ts)) = ""
           \/ \E u \in DOMAIN ts :
                 /\ Carrying(ts, u) /\ \A v \in DOMAIN ts : Carrying(ts, v) => v <= u
                 /\ LastStickerCatalog(TextsOf(ts)) = ts[u].catalog /\ ts[u].catalog # ""
<1> DEFINE texts == TextsOf(ts)
           with == {t \in DOMAIN texts : CatalogLines(texts[t]) # {}}
           u == LastId(with)
<1>1. DOMAIN texts = DOMAIN ts /\ \A t \in DOMAIN ts : texts[t] = ts[t].text  BY TextsAre
<1>2. with = {t \in DOMAIN ts : Carrying(ts, t)}  BY <1>1 DEF Carrying
<1>3. LastStickerCatalog(texts) = IF with = {} THEN "" ELSE LastLine(CatalogLines(texts[u])).by
  BY DEF LastStickerCatalog
<1> HIDE DEF with, texts
<1>4. CASE with = {}
  BY <1>2, <1>3, <1>4 DEF texts
<1>5. CASE with # {}
 <2>1. DOMAIN ts = 1..Len(ts) /\ Len(ts) \in Nat  BY ListIs
 <2>2. with \in SUBSET (0..Len(ts))  BY <1>2
 <2>3. u \in with /\ \A v \in with : v <= u  BY <1>5, <2>1, <2>2, LastIs
 <2> HIDE DEF u
 <2> DEFINE c == Placed(3, 0, 0, FALSE, Line("catalog", 0, ts[u].catalog))
 <2>4. u \in DOMAIN ts /\ Carrying(ts, u) /\ TextFits(ts[u])  BY <1>2, <2>3
 <2>5. CatalogLines(texts[u]) # {} /\ CatalogLines(texts[u]) \subseteq {c} /\ ts[u].catalog # ""
   BY <1>1, <2>4 DEF TextFits, Carrying
 <2>7. c.by = ts[u].catalog /\ c.at = <<3, 0, 0>>  BY DEF Placed, Line
 <2> HIDE DEF c
 <2>9. LastLine({c}) = c  BY DEF LastLine
 <2> QED BY <1>2, <2>3, <2>4, <2>5, <1>3, <1>5, <2>7, <2>9 DEF texts, u
<1> QED BY <1>4, <1>5

\* Headers stand one after the other: some come first, some come last.
LEMMA HeadersInOrder ==
    ASSUME NEW n \in Nat, NEW lines, lines # {},
           \A l \in lines : \E part \in {4, 5}, id \in 1..n : l.at = <<part, id, 1>>
    PROVE  /\ LastLine(lines) \in lines
           /\ \E l \in lines : \A k \in lines : ~Before(k, l)
<1> DEFINE Rank(l) == IF l.at[1] = 4 THEN l.at[2] ELSE n + l.at[2]
           T == {Rank(l) : l \in lines}
<1>1. \A l \in lines : l.at[1] \in {4, 5} /\ l.at[2] \in 1..n /\ l.at[3] = 1  OBVIOUS
<1>2. \A l \in lines : Rank(l) \in 0..n + n  BY <1>1
<1>3. \A k, l \in lines : Before(k, l) => Rank(k) < Rank(l)  BY DEF Before
<1>4. \A l \in lines : Rank(l) \in T  OBVIOUS
<1>5. \A r \in T : \E l \in lines : r = Rank(l)  OBVIOUS
<1> HIDE DEF Rank, T
<1>6. n + n \in Nat /\ T \in SUBSET (0..n + n) /\ T # {} /\ T \in SUBSET Nat
  BY <1>2, <1>4, <1>5
<1>7. \E l \in lines : \A k \in lines : ~Before(k, l)
 <2>1. PICK r \in T : \A s \in T : r <= s  BY <1>6, LeastNat
 <2>2. PICK l \in lines : r = Rank(l)  BY <1>5
 <2>4. \A k \in lines : ~Before(k, l)
  <3> SUFFICES ASSUME NEW k \in lines, Before(k, l) PROVE FALSE  OBVIOUS
  <3> QED BY <1>2, <1>4, <2>1, <2>2, <1>3
 <2> QED BY <2>4
<1>8. \E l \in lines : \A k \in lines : ~Before(l, k)
 <2>1. PICK r \in T : \A s \in T : s <= r  BY <1>6, LastIs
 <2>2. PICK l \in lines : r = Rank(l)  BY <1>5
 <2>4. \A k \in lines : ~Before(l, k)
  <3> SUFFICES ASSUME NEW k \in lines, Before(l, k) PROVE FALSE  OBVIOUS
  <3> QED BY <1>2, <1>4, <2>1, <2>2, <1>3
 <2> QED BY <2>4
<1> QED BY <1>7, <1>8 DEF LastLine

\* The caller that is read back is a sender.
LEMMA CallerIs ==
    ASSUME PromptAssumption, messages \in Seq(Contents),
           NEW ts, IsList(ts), \A t \in DOMAIN ts : TextFits(ts[t])
    PROVE  CallerOf(TextsOf(ts)) \in Senders \cup {Nobody}
<1> DEFINE texts == TextsOf(ts)
           with == {t \in DOMAIN texts : NamedHeaders(texts[t]) # {}}
           u == LastId(with)
<1>1. CASE with = {}
  BY <1>1 DEF CallerOf
<1>2. CASE with # {}
 <2>1. DOMAIN ts = 1..Len(ts) /\ Len(ts) \in Nat  BY ListIs
 <2>2. DOMAIN texts = DOMAIN ts /\ \A t \in DOMAIN ts : texts[t] = ts[t].text  BY TextsAre
 <2>3. u \in with
  <3>1. with \in SUBSET (0..Len(ts))  BY <2>2
  <3> HIDE DEF with
  <3> QED BY <1>2, <2>1, <3>1, LastIs
 <2> DEFINE text == texts[u]
            named == NamedHeaders(text)
            firsts == FirstHeaders(text)
 <2>4. u \in DOMAIN ts /\ named # {} /\ text = ts[u].text /\ TextFits(ts[u])  BY <2>2, <2>3
 <2>5. CallerOf(texts) = LastLine(firsts).by  BY <1>2 DEF CallerOf
 <2> HIDE DEF texts, with, u, text
 <2>6. DOMAIN messages = 1..Len(messages) /\ Len(messages) \in Nat  BY MessagesAre
 <2>7. ASSUME NEW l \in named
       PROVE  \E part \in {4, 5}, id \in 1..Len(messages) :
                 l.at = <<part, id, 1>> /\ l.by \in Senders
  <3>1. l \in ParseSnapshotLines(ts[u].text) /\ l.by # Nobody  BY <2>4 DEF NamedHeaders
  <3>2. PICK part \in {4, 5}, id \in 1..Len(messages) : l = HeaderOf(part, id)
    BY <2>4, <2>6, <3>1 DEF TextFits, RowsReadBack, OfHistory, OfNew
  <3> QED BY <3>1, <3>2, <2>6 DEF HeaderOf, Placed, Line, PromptAssumption
 <2>8. PICK l \in named : \A k \in named : ~Before(k, l)
  <3> HIDE DEF named
  <3> QED BY <2>4, <2>6, <2>7, HeadersInOrder
 <2>9. l \in firsts /\ firsts \subseteq named  BY <2>8 DEF FirstHeaders
 <2>10. LastLine(firsts) \in firsts
  <3> HIDE DEF named, firsts
  <3> QED BY <2>6, <2>7, <2>9, HeadersInOrder
 <2> QED BY <2>5, <2>7, <2>9, <2>10 DEF texts
<1> QED BY <1>1, <1>2

\* What held of a text holds of it still, whatever comes after it.
LEMMA FitsStill ==
    ASSUME messages \in Seq(Contents), NEW x, TextFits(x), NEW u, transcript'[u] = x,
           \A id \in DOMAIN messages : id \in DOMAIN messages' /\ messages'[id] = messages[id]
    PROVE  TextFits(transcript[u])'
<1>1. \A part, id : id \in x.older \cup x.shown => HeaderOf(part, id)' = HeaderOf(part, id)
  BY DEF HeaderOf, TextFits
<1>2. RowsReadBack(transcript[u])'
 <2>2. {HeaderOf(OfHistory, id)' : id \in x.older} = {HeaderOf(OfHistory, id) : id \in x.older}
   BY <1>1
 <2>3. {HeaderOf(OfNew, id)' : id \in x.shown} = {HeaderOf(OfNew, id) : id \in x.shown}
   BY <1>1
 <2> QED BY <2>2, <2>3 DEF RowsReadBack, TextFits
<1>3. \A id \in x.older \cup x.shown : id \in DOMAIN messages' /\ messages'[id] = messages[id]
  BY DEF TextFits
<1>4. RepliesResolve(transcript[u])'
 <2>1. ASSUME NEW id \in x.older \cup x.shown
       PROVE  \/ messages'[id].reply \in {0} \cup x.older \cup x.shown
              \/ \E l \in x.text : l.is = "quote" /\ l.id = messages'[id].reply /\ l.at[2] = id
  <3>3. \/ messages[id].reply \in {0} \cup x.older \cup x.shown
        \/ \E l \in x.text : l.is = "quote" /\ l.id = messages[id].reply /\ l.at[2] = id
    BY DEF RepliesResolve, TextFits
  <3> QED BY <3>3, <1>3
 <2> QED BY <2>1 DEF RepliesResolve
<1>5. NewestFit(transcript[u])' /\ PicturesPair(transcript[u])'
 <2> QED BY DEF TextFits
<1> QED BY <1>2, <1>4, <1>5 DEF TextFits

-----------------------------------------------------------------------------
(* The inductive invariant of the injections.                                  *)

RunInv ==
    /\ messages \in Seq(Contents) /\ collecting \subseteq DOMAIN messages
    /\ catalog \in Catalogs /\ {running, stable} \subseteq BOOLEAN
    /\ live.visible \subseteq Senders /\ live.caller \in Senders \cup {Nobody}
    /\ frozen \in [history : SUBSET DOMAIN messages, new : SUBSET DOMAIN messages]
    /\ pending \in Seq(SUBSET frozen.new) /\ \A i \in DOMAIN pending : pending[i] # {}

\* What an open run knows is what the texts would tell it.
KnownInv ==
    running => /\ live.visible = CollectVisibleSenders(TextsOf(transcript))
               /\ live.carried = LastStickerCatalog(TextsOf(transcript))

\* The newest catalog up to a text is the one that was current for it, if any was.
UpTo(ts, u, t) ==
    u <= t /\ Carrying(ts, u) /\ \A v \in DOMAIN ts : v <= t /\ Carrying(ts, v) => v <= u
SameCatalog(x, y) == y.catalog = "" \/ x.catalog = y.catalog
CatalogsFit(ts) == \A u, t \in DOMAIN ts : UpTo(ts, u, t) => SameCatalog(ts[u], ts[t])

TextsFit(ts) == IsList(ts) /\ CatalogsFit(ts) /\ \A t \in DOMAIN ts : TextFits(ts[t])

PromptInv == RunInv /\ KnownInv /\ TextsFit(transcript)

\* Texts that fit go on fitting while messages arrive.
LEMMA TextsStay ==
    ASSUME messages \in Seq(Contents), TextsFit(transcript'),
           \A id \in DOMAIN messages : id \in DOMAIN messages' /\ messages'[id] = messages[id]
    PROVE  TextsFit(transcript)'
<1> QED BY FitsStill DEF TextsFit, IsList, Carrying, CatalogLines

LEMMA IngestKeeps ==
    ASSUME PromptAssumption, PromptInv, NEW content \in Contents, NEW batched \in BOOLEAN,
           Ingest(content, batched)
    PROVE  PromptInv'
<1> USE DEF Ingest, PromptInv
<1>1. /\ messages' \in Seq(Contents) /\ DOMAIN messages \subseteq DOMAIN messages'
      /\ Len(messages) + 1 \in DOMAIN messages'
      /\ \A id \in DOMAIN messages : id \in DOMAIN messages' /\ messages'[id] = messages[id]
  BY DEF RunInv
<1>2. RunInv'
 <2> QED BY DEF RunInv
<1>3. KnownInv'  BY DEF KnownInv
<1> QED BY <1>2, <1>3, <1>1, TextsStay

\* What a run reads back of the texts that are left to it.
LEMMA RebuiltFits ==
    ASSUME PromptAssumption, messages \in Seq(Contents), NEW ts, TextsFit(ts), NEW caller
    PROVE  LET known == RebuildVisibleState(TextsOf(ts), caller) IN
           /\ known.visible \subseteq Senders /\ known.caller \in Senders \cup {Nobody}
           /\ known.visible = CollectVisibleSenders(TextsOf(ts))
           /\ known.carried = LastStickerCatalog(TextsOf(ts))
BY VisibleIs, CallerIs DEF RebuildVisibleState, TextsFit

LEMMA OpenRunKeeps == ASSUME PromptAssumption, PromptInv, OpenRun PROVE PromptInv'
<1> USE DEF PromptInv
<1>1. messages' = messages /\ messages \in Seq(Contents)  BY DEF OpenRun, RunInv
<1>2. TextsFit(transcript')
 <2>1. TextsFit(<<>>)
  <3> QED BY DEF TextsFit, CatalogsFit, IsList
 <2> QED BY <2>1 DEF OpenRun
<1>4. /\ live'.visible \subseteq Senders /\ live'.caller \in Senders \cup {Nobody}
      /\ live'.visible = CollectVisibleSenders(TextsOf(transcript'))
      /\ live'.carried = LastStickerCatalog(TextsOf(transcript'))
  BY <1>1, <1>2, RebuiltFits DEF OpenRun
<1>5. RunInv'
 <2>1. frozen' \in [history : SUBSET DOMAIN messages, new : SUBSET DOMAIN messages]
       /\ frozen'.new = collecting
   BY DEF OpenRun, OpeningRows, Newest, RunInv
 <2>2. pending' = <<collecting>> /\ collecting # {} /\ collecting' = {}  BY DEF OpenRun
 <2>3. pending' \in Seq(SUBSET frozen'.new) /\ \A i \in DOMAIN pending' : pending'[i] # {}
   BY <2>1, <2>2
 <2> QED BY <1>4, <2>1, <2>2, <2>3 DEF RunInv, OpenRun
<1>6. KnownInv'
 <2> QED BY <1>4 DEF KnownInv, TextsOf
<1> QED BY <1>5, <1>6, <1>1, <1>2, TextsStay

LEMMA AttachBatchKeeps == ASSUME PromptAssumption, PromptInv, AttachBatch PROVE PromptInv'
<1> USE DEF PromptInv, AttachBatch
<1>1. /\ frozen' \in [history : SUBSET DOMAIN messages, new : SUBSET DOMAIN messages]
      /\ frozen'.new = frozen.new \cup collecting
  BY DEF RunInv
<1>2. pending' \in Seq(SUBSET frozen'.new) /\ \A i \in DOMAIN pending' : pending'[i] # {}
 <2> QED BY DEF RunInv
<1>4. KnownInv'  BY DEF KnownInv
<1> QED BY <1>4, TextsStay, <1>1, <1>2 DEF RunInv

\* A part of the texts, in their order, up to the last.
LEMMA CutFits ==
    ASSUME NEW ts, TextsFit(ts), NEW first \in 1..Len(ts), NEW last \in first..Len(ts)
    PROVE  /\ TextsFit(SubSeq(ts, first, last)) /\ DOMAIN SubSeq(ts, first, last) = 1..last - first + 1
           /\ \A t \in 1..last - first + 1 : SubSeq(ts, first, last)[t] = ts[t + first - 1]
<1> DEFINE cut == SubSeq(ts, first, last)
<1>1. PICK S : ts \in Seq(S)  BY DEF TextsFit, IsList
<1>2. DOMAIN ts = 1..Len(ts) /\ Len(ts) \in Nat  BY <1>1
<1>3. /\ cut \in Seq(S) /\ DOMAIN cut = 1..last - first + 1
      /\ \A t \in 1..last - first + 1 : cut[t] = ts[t + first - 1]
  BY <1>1
<1>4. \A t \in DOMAIN cut : t + first - 1 \in DOMAIN ts /\ t \in Int  BY <1>3
<1>8. \A u, t \in DOMAIN cut : u <= t => u + first - 1 <= t + first - 1  BY <1>2, <1>3
<1>9. ASSUME NEW u \in DOMAIN cut, NEW t \in DOMAIN cut, NEW w \in DOMAIN ts, w <= t + first - 1
      PROVE  \/ w <= u + first - 1
             \/ w - first + 1 \in DOMAIN cut /\ w - first + 1 <= t /\ (w - first + 1) + first - 1 = w
 <2>1. u \in 1..last - first + 1 /\ t \in 1..last - first + 1 /\ w \in Nat  BY <1>2, <1>3
 <2>2. w - first + 1 \in Int /\ w - first + 1 <= t /\ (w - first + 1) + first - 1 = w
   BY <1>9, <2>1
 <2>3. CASE w < first
  <3> QED BY <2>1, <2>3
 <2>4. CASE ~(w < first)
  <3>1. w - first + 1 \in 1..last - first + 1  BY <1>9, <2>1, <2>4
  <3> QED BY <1>3, <2>2, <3>1
 <2> QED BY <2>3, <2>4
<1> HIDE DEF cut
<1>5. CatalogsFit(cut)
 <2> SUFFICES ASSUME NEW u \in DOMAIN cut, NEW t \in DOMAIN cut, UpTo(cut, u, t)
              PROVE  SameCatalog(cut[u], cut[t])
   BY DEF CatalogsFit
 <2> DEFINE U == u + first - 1
            T == t + first - 1
 <2>0. /\ u <= t /\ Carrying(cut, u)
       /\ \A v \in DOMAIN cut : v <= t /\ Carrying(cut, v) => v <= u
   BY DEF UpTo
 <2>1. U \in DOMAIN ts /\ T \in DOMAIN ts /\ U <= T  BY <1>4, <2>0
 <2>2. cut[u] = ts[U] /\ cut[t] = ts[T]  BY <1>3
 <2>3. ASSUME NEW w \in DOMAIN ts, w <= T, Carrying(ts, w) PROVE w <= U
  <3> DEFINE i == w - first + 1
  <3> SUFFICES ASSUME ~(w <= U) PROVE FALSE  OBVIOUS
  <3>1. i \in DOMAIN cut /\ i <= t /\ i + first - 1 = w  BY <1>9, <2>3
  <3>3. i <= u
   <4> HIDE DEF i
   <4> QED BY <2>0, <3>1, <2>3, <1>3 DEF Carrying
  <3>4. i + first - 1 <= U  BY <3>3
  <3> HIDE DEF i, U
  <3> QED BY <3>1, <3>4
 <2> HIDE DEF U, T
 <2> QED BY <2>1, <2>2, <2>3, <2>0 DEF TextsFit, CatalogsFit, UpTo, Carrying
<1>6. \A t \in DOMAIN cut : TextFits(cut[t])
 <2> QED BY <1>3 DEF TextsFit
<1> QED BY <1>3, <1>5, <1>6 DEF TextsFit, cut, IsList

LEMMA CollectKeeps == ASSUME PromptAssumption, PromptInv, Collect PROVE PromptInv'
<1> USE DEF PromptInv
<1>1. PICK first \in 2..Len(transcript) :
         /\ transcript' = SubSeq(transcript, first, Len(transcript))
         /\ live' = RebuildVisibleState(TextsOf(transcript'), live.caller)
  BY DEF Collect
<1>4. TextsFit(transcript')  BY <1>1, CutFits
<1>5. messages \in Seq(Contents)  BY DEF RunInv
<1>6. /\ live'.visible \subseteq Senders /\ live'.caller \in Senders \cup {Nobody}
      /\ live'.visible = CollectVisibleSenders(TextsOf(transcript'))
      /\ live'.carried = LastStickerCatalog(TextsOf(transcript'))
  BY <1>1, <1>4, <1>5, RebuiltFits
<1>7. UNCHANGED <<messages, collecting, pending, frozen, catalog, running, stable>>  BY DEF Collect
<1>8. RunInv'  BY <1>6, <1>7 DEF RunInv
<1>9. KnownInv'  BY <1>6 DEF KnownInv, TextsOf
<1> QED BY <1>8, <1>9, <1>4, <1>5, <1>7, TextsStay

LEMMA EndRunKeeps == ASSUME PromptAssumption, PromptInv, EndRun PROVE PromptInv'
<1> USE DEF PromptInv, EndRun
<1>1. collecting' \subseteq DOMAIN messages
 <2> QED BY DEF RunInv
<1>3. pending' \in Seq(SUBSET frozen'.new) /\ \A i \in DOMAIN pending' : pending'[i] # {}
  OBVIOUS
<1>6. KnownInv'  BY DEF KnownInv
<1> QED BY <1>6, TextsStay, <1>1, <1>3 DEF RunInv, NothingFrozen, NobodyKnown

LEMMA ChangeCatalogKeeps == ASSUME PromptAssumption, PromptInv, ChangeCatalog PROVE PromptInv'
<1> USE DEF PromptInv, ChangeCatalog
<1>2. KnownInv'  BY DEF KnownInv
<1> QED BY <1>2, TextsStay DEF RunInv

\* What is injected, and what the run then knows of it.
LEMMA InjectPendingKeeps ==
    ASSUME PromptAssumption, PromptInv, NEW memories \in Memories, InjectPending(memories)
    PROVE  PromptInv'
<1> DEFINE Carried(i) == IF i = 1 \/ catalog = "" THEN live.carried ELSE catalog
           texts == TextsOf(transcript)
           Batch(i) == RenderInjection(pending[i], texts, Carried(i), memories)
           injected == [i \in DOMAIN pending |-> Batch(i)]
           n == Len(transcript)
           k == Len(pending)
           ts == transcript \o injected
<1>1. /\ running /\ transcript' = ts /\ live' = ApplyInjections(injected) /\ pending' = <<>>
      /\ UNCHANGED <<messages, collecting, frozen, catalog, running, stable>>
  BY DEF InjectPending
<1>2. /\ messages \in Seq(Contents) /\ TextsFit(transcript) /\ IsList(transcript)
      /\ \A t \in DOMAIN transcript : TextFits(transcript[t])
  BY DEF PromptInv, RunInv, TextsFit
<1>3. n \in Nat /\ DOMAIN transcript = 1..n  BY <1>2
<1>4. k \in Nat /\ DOMAIN pending = 1..k /\ k # 0
      /\ \A i \in 1..k : pending[i] \in SUBSET frozen.new /\ pending[i] # {}
 <2>2. pending # <<>>  BY DEF InjectPending
 <2> QED BY <2>2 DEF PromptInv, RunInv
<1>5. AreTexts(texts)  BY <1>2, TextsAre
<1> HIDE DEF texts, Carried
<1>7. \A i \in 1..k : /\ TextFits(Batch(i)) /\ Batch(i).catalog = catalog
                      /\ CatalogLines(Batch(i).text) # {} <=> catalog \notin {"", Carried(i)}
  BY <1>2, <1>4, <1>5, RenderFits DEF PromptInv, RunInv
<1>8. injected = [i \in 1..k |-> Batch(i)]  BY <1>4
<1> HIDE DEF Batch, injected, k, n
<1>9. /\ IsList(ts) /\ DOMAIN ts = 1..n + k
      /\ \A t \in 1..n : ts[t] = transcript[t]
      /\ \A i \in 1..k : ts[n + i] = Batch(i)
 <2>1. PICK S : transcript \in Seq(S)  BY <1>2 DEF IsList
 <2> DEFINE T == S \cup {Batch(i) : i \in 1..k}
 <2>2. transcript \in Seq(T) /\ Len(transcript) = n  BY <2>1 DEF n
 <2>3. injected \in [1..k -> T]  BY <1>8
 <2> HIDE DEF T
 <2>4. injected \in Seq(T) /\ Len(injected) = k  BY <1>4, <2>3
 <2>5. ts \in Seq(T) /\ Len(ts) = n + k  BY <2>2, <2>4
 <2>6. \A t \in 1..n : ts[t] = transcript[t]  BY <2>2
 <2>7. ASSUME NEW i \in 1..k PROVE ts[n + i] = injected[i]
  <3> QED BY <2>2, <2>4
 <2>8. IsList(ts) /\ DOMAIN ts = 1..n + k
  <3> HIDE DEF ts, n, k, T
  <3> QED BY <1>3, <1>4, <2>5 DEF IsList
 <2>9. \A i \in 1..k : ts[n + i] = Batch(i)
  <3> HIDE DEF ts, injected, n, k, Batch
  <3> QED BY <2>7, <1>8
 <2> HIDE DEF ts, injected, n, k, Batch
 <2> QED BY <2>6, <2>8, <2>9
<1> HIDE DEF ts
<1>10. \A t \in DOMAIN ts : t \in 1..n \/ \E i \in 1..k : t = n + i
 <2>1. \A t \in 1..n + k : t \in 1..n \/ (t - n \in 1..k /\ t = n + (t - n))  BY <1>3, <1>4
 <2> QED BY <1>9, <2>1
<1>11. \A t \in DOMAIN ts : TextFits(ts[t])  BY <1>2, <1>3, <1>7, <1>9, <1>10
<1>12. live.visible = CollectVisibleSenders(texts) /\ live.carried = LastStickerCatalog(texts)
  BY <1>1 DEF PromptInv, KnownInv, texts
\* The senders.
<1>13. live'.visible = CollectVisibleSenders(TextsOf(ts)) /\ live'.visible \subseteq Senders
 <2>1. live'.visible = live.visible \cup UNION {injected[i].senders : i \in 1..k}
   BY <1>1, <1>8 DEF ApplyInjections
 <2>2. live.visible = UNION {transcript[t].senders : t \in DOMAIN transcript}
   BY <1>2, <1>12, VisibleIs DEF texts
 <2>3. CollectVisibleSenders(TextsOf(ts)) = UNION {ts[t].senders : t \in DOMAIN ts}
       /\ CollectVisibleSenders(TextsOf(ts)) \subseteq Senders
   BY <1>2, <1>9, <1>11, VisibleIs
 <2>4. ASSUME NEW s \in live'.visible PROVE \E t \in DOMAIN ts : s \in ts[t].senders
  <3>1. CASE s \in live.visible
   <4>1. PICK t \in 1..n : s \in transcript[t].senders  BY <1>3, <2>2, <3>1
   <4> QED BY <1>9, <4>1, <1>3, <1>4
  <3>2. CASE s \notin live.visible
   <4>1. PICK i \in 1..k : s \in injected[i].senders  BY <2>1, <3>2
   <4>2. n + i \in DOMAIN ts  BY <1>3, <1>4, <1>9
   <4> QED BY <1>8, <1>9, <4>1, <4>2
  <3> QED BY <3>1, <3>2
 <2>5. ASSUME NEW t \in DOMAIN ts, NEW s \in ts[t].senders PROVE s \in live'.visible
  <3>1. CASE t \in 1..n
    BY <1>3, <1>9, <2>1, <2>2, <2>5, <3>1
  <3>2. CASE \E i \in 1..k : t = n + i
    BY <1>8, <1>9, <2>1, <2>5, <3>2
  <3> QED BY <1>10, <3>1, <3>2
 <2> QED BY <2>3, <2>4, <2>5
\* The catalog.
<1>14. \A t \in 1..n : Carrying(ts, t) <=> Carrying(transcript, t)  BY <1>9 DEF Carrying
<1>15. \A i \in 1..k : Carrying(ts, n + i) <=> catalog # "" /\ i = 1 /\ live.carried # catalog
  BY <1>7, <1>9 DEF Carrying, Carried
<1>16. \A i \in 1..k : ts[n + i].catalog = catalog  BY <1>7, <1>9
<1>17. \A u \in DOMAIN transcript :
          Carrying(transcript, u) /\ (\A v \in DOMAIN transcript : Carrying(transcript, v) => v <= u)
          => live.carried = transcript[u].catalog
 <2> SUFFICES ASSUME NEW w \in DOMAIN transcript, Carrying(transcript, w),
                     \A v \in DOMAIN transcript : Carrying(transcript, v) => v <= w
              PROVE  live.carried = transcript[w].catalog
   OBVIOUS
 <2>2. PICK u \in DOMAIN transcript :
           /\ Carrying(transcript, u)
           /\ \A v \in DOMAIN transcript : Carrying(transcript, v) => v <= u
           /\ live.carried = transcript[u].catalog
   BY <1>2, <1>12, CatalogIs DEF texts
 <2>4. u = w  BY <1>3, <2>2
 <2> QED BY <2>2, <2>4
<1>18. CatalogsFit(ts)
 <2> SUFFICES ASSUME NEW u \in DOMAIN ts, NEW t \in DOMAIN ts, UpTo(ts, u, t)
              PROVE  SameCatalog(ts[u], ts[t])
   BY DEF CatalogsFit
 <2>0. /\ u <= t /\ Carrying(ts, u)
       /\ \A v \in DOMAIN ts : v <= t /\ Carrying(ts, v) => v <= u
   BY DEF UpTo
 <2>1. CASE t \in 1..n
  <3>1. u \in 1..n /\ \A v \in 1..n : v \in DOMAIN ts  BY <1>3, <1>4, <1>9, <2>0, <2>1
  <3> QED BY <1>9, <2>1, <3>1, <1>2, <1>3, <1>14, <2>0 DEF TextsFit, CatalogsFit, UpTo
 <2>2. CASE \E i \in 1..k : t = n + i
  <3>1. PICK i \in 1..k : t = n + i  BY <2>2
  <3>2. CASE u \in 1..n
   <4>1. ASSUME NEW w \in DOMAIN transcript, Carrying(transcript, w) PROVE w <= u
    <5> QED BY <1>14, <2>0, <4>1, <1>3, <1>4, <1>9, <3>1
   <4>2. live.carried = transcript[u].catalog /\ ts[u] = transcript[u]
     BY <1>3, <1>9, <1>14, <1>17, <2>0, <3>2, <4>1
   <4>3. ~Carrying(ts, n + 1)
    <5>1. n + 1 \in DOMAIN ts /\ ~(n + 1 <= u) /\ n + 1 <= t  BY <1>3, <1>4, <3>1, <3>2
    <5> QED BY <2>0, <5>1
   <4>4. 1 \in 1..k  BY <1>4
   <4> QED BY <1>16, <3>1, <4>2, <1>15, <4>3, <4>4 DEF SameCatalog
  <3>3. CASE \E j \in 1..k : u = n + j
    BY <1>16, <3>1, <3>3 DEF SameCatalog
  <3> QED BY <1>10, <3>2, <3>3
 <2> QED BY <1>10, <2>1, <2>2
<1>19. live'.carried = LastStickerCatalog(TextsOf(ts))
 <2>1. live'.carried = IF catalog = "" THEN live.carried ELSE catalog  BY <1>1 DEF ApplyInjections
 <2>3. CASE \A t \in DOMAIN ts : ~Carrying(ts, t)
  <3>2. 1 \in 1..k /\ n + 1 \in DOMAIN ts /\ \A t \in 1..n : t \in DOMAIN ts  BY <1>3, <1>4, <1>9
  <3>3. live.carried = ""  BY <1>3, <1>14, <2>3, <3>2, <1>2, <1>12, CatalogIs DEF texts
  <3> QED BY <2>1, <3>3, <1>9, <1>11, <2>3, CatalogIs, <1>15, <3>2
 <2>4. CASE \E t \in DOMAIN ts : Carrying(ts, t)
  <3>1. PICK u \in DOMAIN ts :
            /\ Carrying(ts, u) /\ \A v \in DOMAIN ts : Carrying(ts, v) => v <= u
            /\ LastStickerCatalog(TextsOf(ts)) = ts[u].catalog
    BY <1>9, <1>11, <2>4, CatalogIs
  <3>2. CASE \E j \in 1..k : u = n + j
   <4>1. PICK j \in 1..k : u = n + j  BY <3>2
   <4> QED BY <1>15, <1>16, <2>1, <3>1, <4>1
  <3>3. CASE u \in 1..n
   <4>1. \A v \in DOMAIN transcript : Carrying(transcript, v) => v <= u
    <5> QED BY <1>3, <1>14, <3>1, <1>4, <1>9
   <4>3. n + 1 \in DOMAIN ts /\ 1 \in 1..k /\ ~(n + 1 <= u)  BY <1>3, <1>4, <1>9, <3>3
   <4>5. catalog = "" \/ live.carried = catalog  BY <1>15, <4>3, <3>1
   <4> QED BY <2>1, <3>1, <4>5, <1>3, <1>9, <1>14, <1>17, <3>3, <4>1
  <3> QED BY <1>10, <3>2, <3>3
 <2> QED BY <2>3, <2>4
\* The caller.
<1>20. live'.caller \in Senders \cup {Nobody}
 <2> DEFINE calling == {i \in DOMAIN injected : injected[i].caller # Nobody}
 <2>1. live'.caller = IF calling = {} THEN live.caller ELSE injected[LastId(calling)].caller
   BY <1>1 DEF ApplyInjections
 <2>3. DOMAIN injected = 1..k /\ \A i \in 1..k : injected[i].caller \in Senders \cup {Nobody}
   BY <1>7, <1>8 DEF TextFits
 <2>4. calling \in SUBSET (0..k) /\ calling \subseteq 1..k  BY <2>3
 <2> HIDE DEF calling
 <2> QED BY <2>1, <2>3, <2>4, <1>4, LastIs DEF PromptInv, RunInv
<1>21. RunInv'
 <2> QED BY <1>1, <1>13, <1>20 DEF PromptInv, RunInv
<1>22. KnownInv'  BY <1>1, <1>13, <1>19 DEF KnownInv, TextsOf
<1>23. TextsFit(transcript)'
 <2> QED BY <1>1, <1>2, TextsStay, <1>9, <1>11, <1>18 DEF TextsFit
<1> QED BY <1>21, <1>22, <1>23 DEF PromptInv

LEMMA PromptStarts == PromptAssumption /\ PromptInit => PromptInv
<1> SUFFICES ASSUME PromptAssumption, PromptInit PROVE PromptInv  OBVIOUS
<1>1. messages = <<>> /\ collecting = {} /\ pending = <<>> /\ transcript = <<>> /\ ~running
  BY DEF PromptInit
<1>3. live.visible = {} /\ live.caller = Nobody  BY Zenon DEF PromptInit, NobodyKnown
<1>4. catalog \in Catalogs /\ {running, stable} \subseteq BOOLEAN
 <2>1. running \in BOOLEAN /\ stable \in BOOLEAN  BY Zenon DEF PromptInit
 <2>2. catalog \in Catalogs  BY Zenon DEF PromptInit
 <2> QED BY <2>1, <2>2
<1>5. RunInv
 <2>2. frozen \in [history : SUBSET DOMAIN messages, new : SUBSET DOMAIN messages]
   BY DEF PromptInit, NothingFrozen
 <2> QED BY <1>1, <1>3, <1>4, <2>2 DEF RunInv
<1>6. IsList(transcript) /\ DOMAIN transcript = {}
 <2> QED BY <1>1 DEF IsList
<1>7. KnownInv  BY <1>1 DEF KnownInv
<1> QED BY <1>5, <1>6, <1>7 DEF PromptInv, TextsFit, CatalogsFit

LEMMA PromptStep == PromptAssumption /\ PromptInv /\ [PromptNext]_promptVars => PromptInv'
<1> SUFFICES ASSUME PromptAssumption, PromptInv, [PromptNext]_promptVars PROVE PromptInv'  OBVIOUS
<1>1. CASE PromptNext
  BY <1>1, IngestKeeps, OpenRunKeeps, AttachBatchKeeps, CollectKeeps, EndRunKeeps,
     ChangeCatalogKeeps, InjectPendingKeeps
  DEF PromptNext
<1>2. CASE UNCHANGED promptVars
 <2> USE DEF promptVars, PromptInv
 <2> QED BY <1>2, TextsStay DEF RunInv, KnownInv
<1> QED BY <1>1, <1>2

LEMMA PromptSays == PromptInv => InjectionsAreFaithful
<1> SUFFICES ASSUME PromptInv PROVE InjectionsAreFaithful  OBVIOUS
<1>3. ReadsBack /\ NewestAreShown /\ QuotesResolve /\ FiguresPair
  BY DEF PromptInv, KnownInv, TextFits, ReadsBack, NewestAreShown,
    QuotesResolve, FiguresPair, TextsFit
<1>4. ASSUME NEW t \in DOMAIN transcript
      PROVE  \/ LastStickerCatalog(TextsOf(SubSeq(transcript, 1, t))) = ""
             \/ \E x : /\ LastStickerCatalog(TextsOf(SubSeq(transcript, 1, t))) = x.catalog
                       /\ SameCatalog(x, transcript[t])
 <2> DEFINE cut == SubSeq(transcript, 1, t)
 <2>1. DOMAIN transcript = 1..Len(transcript) /\ Len(transcript) \in Nat /\ TextsFit(transcript)
   BY DEF PromptInv
 <2>2. 1 \in 1..Len(transcript) /\ t \in 1..Len(transcript) /\ t \in Nat /\ t - 1 + 1 = t
       /\ \A i \in 1..t : i + 1 - 1 = i
   BY <2>1
 <2>3. TextsFit(cut) /\ DOMAIN cut = 1..t /\ \A i \in 1..t : cut[i] = transcript[i]
  <3>1. /\ TextsFit(cut) /\ DOMAIN cut = 1..t - 1 + 1
        /\ \A i \in 1..t - 1 + 1 : cut[i] = transcript[i + 1 - 1]
    BY <2>1, CutFits
  <3> HIDE DEF cut
  <3> QED BY <2>2, <3>1
 <2> HIDE DEF cut
 <2>4. CASE \A i \in DOMAIN cut : ~Carrying(cut, i)
  <3> QED BY <2>3, <2>4, CatalogIs DEF cut, TextsFit
 <2>5. CASE \E i \in DOMAIN cut : Carrying(cut, i)
  <3>1. PICK u \in DOMAIN cut :
            /\ Carrying(cut, u) /\ \A v \in DOMAIN cut : Carrying(cut, v) => v <= u
            /\ LastStickerCatalog(TextsOf(cut)) = cut[u].catalog
    BY <2>3, <2>5, CatalogIs DEF TextsFit
  <3>4. SameCatalog(cut[u], transcript[t])  BY <2>3, <3>1, <2>2 DEF TextsFit, CatalogsFit, UpTo
  <3> QED BY <3>1, <3>4 DEF cut
 <2> QED BY <2>4, <2>5
<1>5. CatalogIsCurrent  BY <1>4 DEF CatalogIsCurrent, SameCatalog
<1> QED BY <1>3, <1>5 DEF InjectionsAreFaithful, PromptInv, RunInv, PromptTypeOK

\* Whatever users write, and although a memory imitates the end of the runtime state and a
\* header: the senders, the messages and the catalog that are read back from a text are those
\* that were rendered in it, the newest rows that fit are shown, and a reply has its quote and
\* a picture its figure (renderInjection, parseSnapshotLines, rebuildVisibleState).
THEOREM InjectionsStayFaithful == PromptSpec => []InjectionsAreFaithful
<1>1. PromptAssumption  BY PromptAssumption
<1> QED BY <1>1, PromptStarts, PromptStep, PromptSays, PTL DEF PromptSpec

=============================================================================

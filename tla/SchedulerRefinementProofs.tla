---------------------- MODULE SchedulerRefinementProofs ----------------------
(***************************************************************************)
(* BucketScheduler implements BatchDelivery, for every instance.           *)
(*                                                                         *)
(* A waiting batch is collecting or queued, a held one is running, and a   *)
(* chat is in the session of the invocation that runs or is ending in it.  *)
(* SessionInv says there is at most one; with it and the ownership         *)
(* invariant each action of the scheduler is one action of BatchDelivery:  *)
(*                                                                         *)
(*   AppendToBucket, QueueReceipt     Arrive, waiting                      *)
(*   AttachReceipt                    Arrive, held                         *)
(*   AttachBucket, HoldSend           Join                                 *)
(*   Launch                           Open                                 *)
(*   ReleaseBucket                    Return, or no change                 *)
(*   EndFinish                        Close                                *)
(*   SkipBucket, VetQueued, Pause, CancelOngoing    Drop                   *)
(*   CrashAndRestart                  Restart                              *)
(*   everything else                  no change                            *)
(***************************************************************************)
EXTENDS BucketSchedulerProofs, SchedulerRefinement

\* Invocation i keeps the session of its chat open.
InSession(i) == invocations[i].state = "running" \/ Releasing(i)

\* One session per chat.
SessionInv ==
    \A i, j \in InvIds :
        (/\ InSession(i) /\ InSession(j)
         /\ ChatOf[invocations[i].conversation] = ChatOf[invocations[j].conversation]) => i = j

\* A step opens no session.
NoneOpens ==
    \A i \in InvIds : InSession(i)' =>
        InSession(i) /\ invocations'[i].conversation = invocations[i].conversation

\* A launch opens one in a chat that has none; no other step opens any.
LEMMA OnlyLaunchOpens ==
    ASSUME TypeOK, RowsLinked, BlockInv, RunsHeld, OwnInv, [Next]_vars,
           \A i \in InvIds : ~Launch(i)
    PROVE  NoneOpens
<1> SUFFICES ASSUME NEW i \in InvIds, InSession(i)'
             PROVE  InSession(i) /\ invocations'[i].conversation = invocations[i].conversation
  BY DEF NoneOpens
<1>1. CASE invocations'[i].state = "running"
  BY <1>1, OnlyLaunchStarts DEF NoneStarts, InSession
<1>2. CASE Releasing(i)'
 <2>1. InSession(i)  BY <1>2, ReleaseGoesOn DEF InSession
 <2>2. invocations[i].state # "none"  BY <2>1, ReleasingRow DEF InSession
 <2> QED BY <2>1, <2>2, InvocationMovesOn DEF InvocationMoves
<1> QED BY <1>1, <1>2 DEF InSession

\* A launch leaves every row but the launched one, which turns running.
LEMMA LaunchRows ==
    ASSUME TypeOK, RowsLinked, OwnInv, NEW i \in InvIds, Launch(i)
    PROVE  /\ step.at # "release" /\ step'.at # "release"
           /\ invocations[i].state = "queued"
           /\ invocations[i].conversation \in Conversations
           /\ ChatInvocations(ChatOf[invocations[i].conversation], "running") = {}
           /\ \A j \in InvIds :
                 /\ invocations'[j].conversation = invocations[j].conversation
                 /\ invocations'[j].state = IF j = i THEN "running" ELSE invocations[j].state
BY DEF Launch, Launchable, Candidates, QueuedInvocations, RowsLinked, TypeOK, QueueTypeOK,
       Invocation, Step

\* Sessions exclude each other per chat until their terminal transaction is over.
THEOREM SessionsExclude == Spec => []SessionInv
<1> DEFINE Inv == BlockInv /\ RunsHeld /\ ReleaseList /\ OwnInv
<1>1. Init => SessionInv
  BY DEF Init, QueueInit, SessionInv, InSession, Releasing, NoInvocation, Idle
<1>2. TypeOK /\ RowsLinked /\ Inv /\ SessionInv /\ [Next]_vars => SessionInv'
 <2> SUFFICES ASSUME TypeOK, RowsLinked, Inv, SessionInv, [Next]_vars PROVE SessionInv'  OBVIOUS
 <2>1. CASE \A i \in InvIds : ~Launch(i)  BY <2>1, OnlyLaunchOpens DEF NoneOpens, SessionInv
 <2>2. ASSUME NEW i \in InvIds, Launch(i) PROVE SessionInv'
  <3>1. \A j \in InvIds : InSession(j)' <=> (j = i \/ InSession(j))
    BY <2>2, LaunchRows DEF InSession, Releasing
  <3>2. \A j \in InvIds : InSession(j) =>
           ChatOf[invocations[j].conversation] # ChatOf[invocations[i].conversation]
    BY <2>2, LaunchRows DEF InSession, Releasing, ChatInvocations
  <3> QED BY <2>2, <3>1, <3>2, LaunchRows DEF SessionInv
 <2> QED BY <2>1, <2>2
<1> QED BY <1>1, <1>2, TypeCorrect, Ownership, PTL DEF Spec

-----------------------------------------------------------------------------
(* The mapping of sessions.                                                *)

\* The rows the mapping looks at are those of the chat's sessions.
LEMMA SessionRowsAre ==
    ASSUME TypeOK, RowsLinked, BlockInv, NEW k \in Chats
    PROVE  SessionRows(k) =
              {i \in InvIds : InSession(i) /\ ChatOf[invocations[i].conversation] = k}
<1>1. 0 \notin InvIds  BY DEF InvIds, BucketIds
<1>2. step.at = "release" => step.inv \in InvIds  BY DEF RowsLinked, BlockInv
<1> QED BY <1>1, <1>2 DEF SessionRows, ChatInvocations, InSession, Releasing

\* The conversation in session, seen from its invocation.
LEMMA SessionIs ==
    ASSUME TypeOK, RowsLinked, BlockInv, SessionInv, NEW i \in InvIds, InSession(i),
           invocations[i].conversation \in Conversations
    PROVE  /\ ChatOf[invocations[i].conversation] \in Chats
           /\ SessionOf(ChatOf[invocations[i].conversation]) = invocations[i].conversation
<1> DEFINE k == ChatOf[invocations[i].conversation]
<1>1. k \in Chats  BY QueueAssumptions
<1>2. SessionRows(k) = {i}  BY <1>1, SessionRowsAre DEF SessionInv
<1> QED BY <1>1, <1>2 DEF SessionOf

-----------------------------------------------------------------------------
(* The actions.                                                            *)

\* The abstract state.
AbsStatus == [b \in BucketIds |-> StatusOf(buckets[b].state)]
AbsOwner == [b \in BucketIds |-> buckets[b].conversation]
AbsSession == [k \in Chats |-> SessionOf(k)]

\* Sessions stay as they are when no row enters or leaves one.
LEMMA SessionFrame ==
    ASSUME TypeOK, RowsLinked, BlockInv, TypeOK', RowsLinked', BlockInv',
           \A i \in InvIds : InSession(i)' <=> InSession(i),
           \A i \in InvIds : InSession(i) =>
              invocations'[i].conversation = invocations[i].conversation
    PROVE  AbsSession' = AbsSession
<1>1. ASSUME NEW k \in Chats PROVE SessionOf(k)' = SessionOf(k)
 <2>1. 0 \notin InvIds  BY DEF InvIds, BucketIds
 <2>2. step'.at = "release" => step'.inv \in InvIds  BY DEF RowsLinked, BlockInv
 <2>3. SessionRows(k)' = SessionRows(k)
  <3>1. SessionRows(k)' = {i \in InvIds : InSession(i)' /\ ChatOf[invocations'[i].conversation] = k}
    BY <2>1, <2>2 DEF SessionRows, ChatInvocations, InSession, Releasing
  <3> QED BY <3>1, SessionRowsAre
 <2>4. CASE SessionRows(k) = {}  BY <2>3, <2>4 DEF SessionOf
 <2>5. CASE SessionRows(k) # {}
  <3>1. (CHOOSE i \in SessionRows(k) : TRUE) \in SessionRows(k)  BY <2>5
  <3>2. PICK i \in InvIds : i = (CHOOSE j \in SessionRows(k) : TRUE) /\ InSession(i)
    BY <3>1, SessionRowsAre
  <3> QED BY <2>3, <2>5, <3>2 DEF SessionOf
 <2> QED BY <2>4, <2>5
<1> QED BY <1>1 DEF AbsSession

\* Rows whose status stays: nothing happens to the abstract state.
LEMMA NoDelivery ==
    ASSUME \A b \in BucketIds : /\ StatusOf(buckets'[b].state) = StatusOf(buckets[b].state)
                                /\ buckets'[b].conversation = buckets[b].conversation,
           AbsSession' = AbsSession
    PROVE  UNCHANGED Delivery!dvars
BY DEF Delivery!dvars, AbsSession

\* A new row: a batch arrives, waiting or held by the session of its conversation.
LEMMA Arrives ==
    ASSUME TypeOK, RowsLinked, BlockInv, SessionInv, AbsSession' = AbsSession,
           NEW b \in BucketIds, NEW c \in Conversations,
           buckets[b].state = "none", buckets'[b].conversation = c,
           \A d \in BucketIds : d # b => buckets'[d] = buckets[d],
           \/ buckets'[b].state \in {"collecting", "queued"}
           \/ /\ buckets'[b].state = "running"
              /\ \E i \in InvIds : InSession(i) /\ invocations[i].conversation = c
    PROVE  Delivery!Arrive(b, c)
<1>1. StatusOf(buckets[b].state) = "absent"  BY DEF StatusOf
<1>2. \/ StatusOf(buckets'[b].state) = "waiting"
      \/ /\ StatusOf(buckets'[b].state) = "held"
         /\ ChatOf[c] \in Chats /\ SessionOf(ChatOf[c]) = c
  BY SessionIs DEF StatusOf
<1>3. AbsOwner' = [AbsOwner EXCEPT ![b] = c]  BY DEF AbsOwner
<1>4. AbsStatus' = [AbsStatus EXCEPT ![b] = StatusOf(buckets'[b].state)]  BY DEF AbsStatus
<1> QED BY <1>1, <1>2, <1>3, <1>4 DEF Delivery!Arrive, Delivery!InSession, AbsOwner, AbsStatus, AbsSession

\* A collecting batch joins the session of its conversation.
LEMMA Joins ==
    ASSUME TypeOK, RowsLinked, BlockInv, SessionInv, AbsSession' = AbsSession,
           NEW b \in BucketIds, buckets[b].state = "collecting", buckets'[b].state = "running",
           buckets'[b].conversation = buckets[b].conversation,
           \A d \in BucketIds : d # b => buckets'[d] = buckets[d],
           NEW i \in InvIds, InSession(i), invocations[i].conversation = buckets[b].conversation
    PROVE  Delivery!Join(b)
<1>1. StatusOf(buckets[b].state) = "waiting" /\ StatusOf(buckets'[b].state) = "held"
  BY DEF StatusOf
<1>2. buckets[b].conversation \in Conversations  BY DEF RowsLinked
<1>3. /\ ChatOf[buckets[b].conversation] \in Chats
      /\ SessionOf(ChatOf[buckets[b].conversation]) = buckets[b].conversation
  BY <1>2, SessionIs
<1>4. AbsOwner' = AbsOwner  BY DEF AbsOwner
<1>5. AbsStatus' = [AbsStatus EXCEPT ![b] = "held"]  BY <1>1 DEF AbsStatus
<1> QED BY <1>1, <1>3, <1>4, <1>5 DEF Delivery!Join, Delivery!InSession, AbsOwner, AbsStatus, AbsSession

\* Rows that had not ended are closed without having been completed.
LEMMA Drops ==
    ASSUME AbsSession' = AbsSession, NEW B \in SUBSET BucketIds,
           \A b \in B : buckets[b].state \in OpenState,
           \A b \in B : buckets'[b].state \in ClosedState \ {"completed"},
           \A b \in BucketIds : buckets'[b].conversation = buckets[b].conversation,
           \A b \in BucketIds \ B : buckets'[b].state = buckets[b].state
    PROVE  Delivery!Drop(B)
<1>1. \A b \in B : /\ StatusOf(buckets[b].state) \in {"waiting", "held"}
                   /\ StatusOf(buckets'[b].state) = "dropped"
  BY DEF StatusOf, OpenState, ClosedState, BucketState
<1>2. AbsOwner' = AbsOwner  BY DEF AbsOwner
<1>3. AbsStatus' = [b \in BucketIds |-> IF b \in B THEN "dropped" ELSE AbsStatus[b]]
  BY <1>1 DEF AbsStatus
<1> QED BY <1>1, <1>2, <1>3 DEF Delivery!Drop, AbsOwner, AbsStatus, AbsSession

\* A launch opens the session of a chat that has none.
LEMMA LaunchOpens ==
    ASSUME TypeOK, RowsLinked, BlockInv, OwnInv, SessionInv, TypeOK', RowsLinked', BlockInv',
           SessionInv', NEW i \in InvIds, Launch(i)
    PROVE  \E b \in BucketIds : Delivery!Open(b)
<1>1. PICK c \in Conversations : c = invocations[i].conversation  BY LaunchRows
<1>2. PICK b \in BucketIds : b = invocations[i].bucket
  BY DEF Launch, Launchable, Candidates, QueuedInvocations, OwnInv, QueuedRows, TypeOK, QueueTypeOK
<1>3. buckets[b].state = "queued" /\ buckets[b].conversation = c
  BY <1>1, <1>2, LaunchRows DEF OwnInv, QueuedRows, SameConversation
<1>4. \A d \in BucketIds : /\ buckets'[d].conversation = buckets[d].conversation
                           /\ buckets'[d].state = IF d = b THEN "running" ELSE buckets[d].state
  BY <1>2 DEF Launch, TypeOK, QueueTypeOK, Bucket
<1>5. ChatOf[c] \in Chats  BY QueueAssumptions
<1>6. SessionRows(ChatOf[c]) = {}
 <2>1. ASSUME NEW j \in InvIds, InSession(j) PROVE ChatOf[invocations[j].conversation] # ChatOf[c]
   BY <1>1, <2>1, LaunchRows DEF ChatInvocations, InSession, Releasing
 <2> QED BY <1>5, <2>1, SessionRowsAre
<1>7. \A j \in InvIds : /\ InSession(j)' <=> (j = i \/ InSession(j))
                        /\ invocations'[j].conversation = invocations[j].conversation
  BY LaunchRows DEF InSession, Releasing
<1>8. ASSUME NEW k \in Chats
      PROVE  SessionOf(k)' = IF k = ChatOf[c] THEN c ELSE SessionOf(k)
 <2>1. step'.at # "release" /\ step.at # "release"  BY LaunchRows
 <2>2. SessionRows(k)' = {j \in InvIds : InSession(j)' /\ ChatOf[invocations'[j].conversation] = k}
   BY <2>1 DEF SessionRows, ChatInvocations, InSession, Releasing
 <2>3. CASE k = ChatOf[c]
  <3>1. SessionRows(k)' = {i}  BY <1>1, <1>6, <1>7, <2>2, <2>3, SessionRowsAre
  <3> QED BY <1>1, <1>7, <2>3, <3>1 DEF SessionOf
 <2>4. CASE k # ChatOf[c]
  <3>1. SessionRows(k)' = SessionRows(k)  BY <1>1, <1>7, <2>2, <2>4, SessionRowsAre
  <3>2. CASE SessionRows(k) = {}  BY <2>4, <3>1, <3>2 DEF SessionOf
  <3>3. CASE SessionRows(k) # {}
   <4>1. (CHOOSE j \in SessionRows(k) : TRUE) \in SessionRows(k)  BY <3>3
   <4>2. PICK j \in InvIds : j = (CHOOSE h \in SessionRows(k) : TRUE)  BY <4>1, SessionRowsAre
   <4> QED BY <1>7, <2>4, <3>1, <3>3, <4>2 DEF SessionOf
  <3> QED BY <3>2, <3>3
 <2> QED BY <2>3, <2>4
<1>9. AbsSession' = [AbsSession EXCEPT ![ChatOf[c]] = c]  BY <1>5, <1>8 DEF AbsSession
<1>10. StatusOf(buckets[b].state) = "waiting" /\ SessionOf(ChatOf[c]) = None
  BY <1>3, <1>6 DEF StatusOf, SessionOf
<1>11. AbsStatus' = [AbsStatus EXCEPT ![b] = "held"]  BY <1>4 DEF AbsStatus, StatusOf
<1>12. AbsOwner' = AbsOwner  BY <1>4 DEF AbsOwner
<1>13. Delivery!Open(b)
  BY <1>3, <1>5, <1>9, <1>10, <1>11, <1>12 DEF Delivery!Open, AbsOwner, AbsStatus, AbsSession
<1> QED BY <1>13

\* A batch that was not shown goes back to wait, while its session is ending.
LEMMA ReleaseReturns ==
    ASSUME TypeOK, RowsLinked, BlockInv, RunsHeld, ReleaseList, OwnInv, SessionInv,
           AbsSession' = AbsSession, NEW b \in BucketIds, ReleaseBucket(b)
    PROVE  Delivery!Return(b) \/ UNCHANGED Delivery!dvars
<1>1. PICK r \in InvIds : r = step.inv /\ Releasing(r)
  BY DEF ReleaseBucket, Releasing, BlockInv, RowsLinked
<1>2. b \in attached[r] /\ buckets[b].conversation = invocations[r].conversation
  BY <1>1 DEF ReleaseBucket, ReleaseList, Releasing, Uninjected, OwnInv, SameConversation
<1>3. CASE buckets[b].state = "running"
 <2>1. buckets' = [buckets EXCEPT ![b].state = "queued"]  BY <1>3 DEF ReleaseBucket, Requeue
 <2>2. \A d \in BucketIds : /\ buckets'[d].conversation = buckets[d].conversation
                            /\ buckets'[d].state = IF d = b THEN "queued" ELSE buckets[d].state
   BY <2>1 DEF TypeOK, QueueTypeOK, Bucket
 <2>3. buckets[b].conversation \in Conversations  BY <1>3 DEF RowsLinked
 <2>4. /\ ChatOf[buckets[b].conversation] \in Chats
       /\ SessionOf(ChatOf[buckets[b].conversation]) = buckets[b].conversation
   BY <1>1, <1>2, <2>3, SessionIs DEF InSession
 <2>5. StatusOf(buckets[b].state) = "held"  BY <1>3 DEF StatusOf
 <2>6. AbsStatus' = [AbsStatus EXCEPT ![b] = "waiting"]  BY <2>2 DEF AbsStatus, StatusOf
 <2>7. AbsOwner' = AbsOwner  BY <2>2 DEF AbsOwner
 <2> QED BY <2>4, <2>5, <2>6, <2>7
         DEF Delivery!Return, Delivery!InSession, AbsOwner, AbsStatus, AbsSession
<1>4. CASE buckets[b].state # "running"
 <2> buckets' = buckets  BY <1>4 DEF ReleaseBucket
 <2> QED BY NoDelivery
<1> QED BY <1>3, <1>4

\* The terminal transaction closes the session with all its chat still holds.
LEMMA EndCloses ==
    ASSUME TypeOK, RowsLinked, BlockInv, RunsHeld, OwnInv, SessionInv,
           TypeOK', RowsLinked', BlockInv',
           NEW c \in Conversations, NEW w \in BOOLEAN, EndFinish(c, w), NoneOpens
    PROVE  \E outcome \in {"done", "dropped"} : Delivery!Close(c, outcome)
<1>1. /\ step.at = "release" /\ step'.at # "release" /\ step.buckets = {}
      /\ run[c].phase = "dead" /\ run[c].inv = step.inv /\ invocations' = invocations
  BY DEF EndFinish, StartTasks
<1>2. PICK i \in InvIds : i = step.inv /\ Releasing(i)  BY <1>1 DEF Releasing, RowsLinked
<1>3. invocations[i].conversation = c /\ invocations[i].state = FinalState(c)
  BY <1>1, <1>2 DEF RunsHeld, Releasing
<1>4. FinalState(c) \in {"completed", "failed", "aborted", "outcome_unknown"}
  BY <1>1, FinalStateClosed
<1>5. PICK outcome \in {"done", "dropped"} : outcome = StatusOf(FinalState(c))
  BY <1>4 DEF StatusOf
<1>6. ChatOf[c] \in Chats /\ SessionOf(ChatOf[c]) = c  BY <1>2, <1>3, SessionIs DEF InSession
<1>7. ASSUME NEW b \in BucketIds
      PROVE  (buckets[b].conversation = c /\ buckets[b].state = "running")
                <=> (b \in attached[i] /\ buckets[b].state = "running")
  BY <1>2, <1>3 DEF OwnInv, RunningHeld, SameConversation, SessionInv, InSession
<1>8. ASSUME NEW b \in BucketIds
      PROVE  /\ buckets'[b].conversation = buckets[b].conversation
             /\ buckets'[b].state = IF b \in attached[i] /\ buckets[b].state = "running"
                                    THEN FinalState(c) ELSE buckets[b].state
 <2>1. CASE b \in attached[i] /\ buckets[b].state = "running"
  <3>1. buckets'[b] = CloseBucket(b, FinalState(c))  BY <1>2, <2>1 DEF EndFinish
  <3> QED BY <2>1, <3>1 DEF CloseBucket, TypeOK, QueueTypeOK, Bucket
 <2>2. CASE ~(b \in attached[i] /\ buckets[b].state = "running")
  <3>1. buckets'[b] \in {Deferred({v \in Conversations : ChatOf[v] = ChatOf[c]})[b], buckets[b]}
    BY <1>2, <2>2 DEF EndFinish
  <3> QED BY <2>2, <3>1, DeferredRows DEF TypeOK
 <2> QED BY <2>1, <2>2
<1>9. \A b \in BucketIds : StatusOf(buckets[b].state) = "held" <=> buckets[b].state = "running"
  BY DEF StatusOf
<1>10. AbsStatus' = [b \in BucketIds |-> IF AbsOwner[b] = c /\ AbsStatus[b] = "held"
                                         THEN outcome ELSE AbsStatus[b]]
  BY <1>5, <1>7, <1>8, <1>9 DEF AbsStatus, AbsOwner
<1>11. AbsOwner' = AbsOwner  BY <1>8 DEF AbsOwner
<1>12. \A j \in InvIds : InSession(j)' <=> (InSession(j) /\ j # i)
  BY <1>1, <1>2, ReleasingRow DEF InSession, Releasing
<1>13. ASSUME NEW k \in Chats
       PROVE  SessionOf(k)' = IF k = ChatOf[c] THEN None ELSE SessionOf(k)
 <2>1. SessionRows(k)' = {j \in InvIds : InSession(j)' /\ ChatOf[invocations'[j].conversation] = k}
   BY <1>1 DEF SessionRows, ChatInvocations, InSession, Releasing
 <2>2. CASE k = ChatOf[c]
  <3>1. SessionRows(k)' = {}  BY <1>1, <1>2, <1>3, <1>12, <2>1, <2>2 DEF SessionInv, InSession
  <3> QED BY <2>2, <3>1 DEF SessionOf
 <2>3. CASE k # ChatOf[c]
  <3>1. SessionRows(k)' = SessionRows(k)  BY <1>1, <1>3, <1>12, <2>1, <2>3, SessionRowsAre
  <3> QED BY <1>1, <2>3, <3>1 DEF SessionOf
 <2> QED BY <2>2, <2>3
<1>14. AbsSession' = [AbsSession EXCEPT ![ChatOf[c]] = None]  BY <1>6, <1>13 DEF AbsSession
<1>15. Delivery!Close(c, outcome)
  BY <1>6, <1>10, <1>11, <1>14 DEF Delivery!Close, Delivery!InSession, AbsOwner, AbsStatus, AbsSession
<1> QED BY <1>15

\* recover() ends every session, drops what was held, and what is too old.
LEMMA RecoverRestarts ==
    ASSUME TypeOK, RowsLinked, OwnInv, CrashAndRestart, \A i \in InvIds : ~InSession(i)'
    PROVE  \E B \in SUBSET BucketIds : Delivery!Restart(B)
<1>1. PICK old \in 0..(MaxBatches + Cardinality(Tasks)) : Recover(old)  BY DEF CrashAndRestart
<1> DEFINE replayed == {receipts[t].invocation :
                           t \in {u \in Tasks : receipts[u].state = "claimed"}} \cap QueuedInvocations
           Gone(b) == \/ b \in JoinedTo(replayed)
                      \/ /\ b \in 1..old
                         /\ buckets[b].state \in {"collecting", "queued"}
                         /\ b \notin JoinedTo(replayed)
           B == {b \in BucketIds : Gone(b)}
<1>2. \A b \in JoinedTo(replayed) : b \in BucketIds /\ buckets[b].state = "queued"
  BY JoinedQueued
<1>3. \A b \in B : buckets[b].state \in {"collecting", "queued"}  BY <1>2
<1>4. ASSUME NEW b \in BucketIds
      PROVE  /\ buckets'[b].conversation = buckets[b].conversation
             /\ IF b \in B \/ buckets[b].state = "running"
                THEN buckets'[b].state \in {"aborted", "outcome_unknown", "expired"}
                ELSE buckets'[b].state = buckets[b].state
 <2>1. buckets[b] \in Bucket  BY DEF TypeOK, QueueTypeOK
 <2>2. IF b \in B \/ buckets[b].state = "running"
       THEN \E st \in {"aborted", "outcome_unknown", "expired"} : buckets'[b] = CloseBucket(b, st)
       ELSE buckets'[b] = buckets[b]
   BY <1>1 DEF Recover
 <2> HIDE DEF B
 <2> QED BY <2>1, <2>2 DEF CloseBucket, Bucket
<1> HIDE DEF B
<1>5. \A b \in B : AbsStatus[b] = "waiting"  BY <1>3, <1>4 DEF AbsStatus, StatusOf, B
<1>6. AbsStatus' = [b \in BucketIds |-> IF b \in B \/ AbsStatus[b] = "held"
                                        THEN "dropped" ELSE AbsStatus[b]]
  BY <1>4 DEF AbsStatus, StatusOf
<1>7. AbsOwner' = AbsOwner  BY <1>4 DEF AbsOwner
<1>8. AbsSession' = [k \in Chats |-> None]
 <2> step'.at # "release"  BY DEF CrashAndRestart, Idle
 <2> \A k \in Chats : SessionRows(k)' = {}  BY DEF SessionRows, ChatInvocations, InSession
 <2> QED BY DEF AbsSession, SessionOf
<1>9. B \in SUBSET BucketIds /\ Delivery!Restart(B)
  BY <1>5, <1>6, <1>7, <1>8 DEF Delivery!Restart, AbsOwner, AbsStatus, AbsSession, B
<1> QED BY <1>9

-----------------------------------------------------------------------------
(* Every step.                                                             *)

\* What the proofs of the steps start from.
DeliveryInv == TypeOK /\ RowsLinked /\ BlockInv /\ RunsHeld /\ ReleaseList /\ OwnInv /\ SessionInv

\* The step is one of BatchDelivery, or none.
Delivers == [Delivery!Next]_(Delivery!dvars)

\* Sessions stay as they are in a step that opens none and ends none.
LEMMA SessionsStay ==
    ASSUME DeliveryInv, DeliveryInv', NoneOpens, \A i \in InvIds : InSession(i) => InSession(i)'
    PROVE  AbsSession' = AbsSession
<1>1. /\ TypeOK /\ RowsLinked /\ BlockInv
      /\ TypeOK' /\ RowsLinked' /\ BlockInv'
  BY DEF DeliveryInv
<1> QED BY <1>1, SessionFrame DEF NoneOpens

\* The transitions of InvocationQueueService.
LEMMA QueueDelivers ==
    ASSUME DeliveryInv, DeliveryInv', NoneOpens, QueueStep
    PROVE  Delivers
<1> USE DEF tables
<1>1. /\ TypeOK /\ RowsLinked /\ BlockInv /\ RunsHeld /\ ReleaseList /\ OwnInv /\ SessionInv
      /\ TypeOK' /\ RowsLinked' /\ BlockInv'
  BY DEF DeliveryInv
<1>2. AbsSession' = AbsSession
 <2>1. ASSUME NEW i \in InvIds, InSession(i) PROVE InSession(i)'
   BY <1>1, <2>1, QueueStepRows DEF InSession, Releasing
 <2> QED BY <2>1, SessionsStay
<1>3. CASE buckets' = buckets  BY <1>2, <1>3, NoDelivery DEF Delivers
<1>4. ASSUME NEW b \in BucketIds, buckets[b].state = "collecting",
             \/ buckets' = [buckets EXCEPT ![b].due = FALSE]
             \/ buckets' = [buckets EXCEPT ![b].state = "queued"]
      PROVE  Delivers
 <2>1. ASSUME NEW d \in BucketIds
       PROVE  /\ buckets'[d].conversation = buckets[d].conversation
              /\ \/ buckets'[d].state = buckets[d].state
                 \/ buckets[d].state = "collecting" /\ buckets'[d].state = "queued"
   BY <1>1, <1>4 DEF TypeOK, QueueTypeOK, Bucket
 <2>2. \A d \in BucketIds : StatusOf(buckets'[d].state) = StatusOf(buckets[d].state)
   BY <2>1 DEF StatusOf
 <2> QED BY <1>2, <2>1, <2>2, NoDelivery DEF Delivers
<1>5. ASSUME NEW b \in BucketIds, SkipBucket(b) PROVE Delivers
 <2>1. buckets[b].state = "collecting" /\ buckets' = [buckets EXCEPT ![b] = CloseBucket(b, "skipped_budget")]
   BY <1>1, <1>5 DEF SkipBucket, NextDue, BlockInv
 <2>2. /\ buckets'[b].state = "skipped_budget"
       /\ \A d \in BucketIds : buckets'[d].conversation = buckets[d].conversation
       /\ \A d \in BucketIds \ {b} : buckets'[d].state = buckets[d].state
   BY <1>1, <2>1 DEF CloseBucket, TypeOK, QueueTypeOK, Bucket
 <2>3. {b} \in SUBSET BucketIds /\ Delivery!Drop({b})
   BY <1>2, <2>1, <2>2, Drops DEF ClosedState, BucketState, OpenState
 <2> QED BY <2>3 DEF Delivers, Delivery!Next
<1>6. ASSUME NEW b \in BucketIds, AttachBucket(b) PROVE Delivers
 <2>1. buckets[b].state = "collecting"  BY <1>1, <1>6 DEF AttachBucket, NextDue, BlockInv
 <2>2. PICK i \in InvIds : /\ InSession(i) /\ invocations[i].conversation = buckets[b].conversation
                           /\ buckets' = [buckets EXCEPT ![b].state = "running"]
   BY <1>6 DEF AttachBucket, AttachBucketTo, RunningInvocation, InSession
 <2>3. /\ buckets'[b].state = "running" /\ buckets'[b].conversation = buckets[b].conversation
       /\ \A d \in BucketIds : d # b => buckets'[d] = buckets[d]
   BY <1>1, <2>2 DEF TypeOK, QueueTypeOK, Bucket
 <2>4. Delivery!Join(b)  BY <1>1, <1>2, <2>1, <2>2, <2>3, Joins
 <2> QED BY <2>4 DEF Delivers, Delivery!Next
<1>7. ASSUME NEW b \in BucketIds, ReleaseBucket(b) PROVE Delivers
  BY <1>1, <1>2, <1>7, ReleaseReturns DEF Delivers, Delivery!Next
<1>8. ASSUME NEW t \in Tasks, AttachReceipt(t) PROVE Delivers
 <2>1. PICK i \in RunningInvocation(TaskConv[t]), b \in BucketIds :
          /\ buckets[b].state = "none"
          /\ buckets' = [buckets EXCEPT ![b] =
                [state |-> "running", conversation |-> TaskConv[t], due |-> TRUE]]
   BY <1>8 DEF AttachReceipt, FreshBucket
 <2>2. /\ i \in InvIds /\ InSession(i) /\ invocations[i].conversation = TaskConv[t]
       /\ TaskConv[t] \in Conversations
   BY <2>1, QueueAssumptions DEF RunningInvocation, InSession
 <2>3. /\ buckets'[b].state = "running" /\ buckets'[b].conversation = TaskConv[t]
       /\ \A d \in BucketIds : d # b => buckets'[d] = buckets[d]
   BY <1>1, <2>1 DEF TypeOK, QueueTypeOK
 <2>4. Delivery!Arrive(b, TaskConv[t])  BY <1>1, <1>2, <2>1, <2>2, <2>3, Arrives
 <2> QED BY <2>2, <2>4 DEF Delivers, Delivery!Next
<1>9. ASSUME NEW t \in Tasks, QueueReceipt(t) PROVE Delivers
 <2>1. PICK b \in BucketIds :
          /\ buckets[b].state = "none"
          /\ buckets' = [buckets EXCEPT ![b] =
                [state |-> "queued", conversation |-> TaskConv[t], due |-> TRUE]]
   BY <1>9 DEF QueueReceipt, FreshBucket
 <2>2. TaskConv[t] \in Conversations  BY QueueAssumptions
 <2>3. /\ buckets'[b].state = "queued" /\ buckets'[b].conversation = TaskConv[t]
       /\ \A d \in BucketIds : d # b => buckets'[d] = buckets[d]
   BY <1>1, <2>1 DEF TypeOK, QueueTypeOK
 <2>4. Delivery!Arrive(b, TaskConv[t])  BY <1>1, <1>2, <2>1, <2>2, <2>3, Arrives
 <2> QED BY <2>2, <2>4 DEF Delivers, Delivery!Next
<1>10. CASE VetQueued
 <2> DEFINE B == JoinedTo(SleepSkips) \cup JoinedTo(DroppedInvocations)
 <2>1. SleepSkips \subseteq QueuedInvocations /\ DroppedInvocations \subseteq QueuedInvocations
   BY DEF SleepSkips, DroppedInvocations, InvalidClaims
 <2>2. B \in SUBSET BucketIds /\ \A b \in B : buckets[b].state = "queued"
   BY <1>1, <2>1, JoinedQueued
 <2>3. ASSUME NEW b \in BucketIds
       PROVE  /\ b \in B => \E st \in {"skipped_budget", "aborted"} : buckets'[b] = CloseBucket(b, st)
              /\ b \notin B => buckets'[b] = buckets[b]
   BY <1>10 DEF VetQueued
 <2> HIDE DEF B
 <2>4. ASSUME NEW b \in BucketIds
       PROVE  /\ buckets'[b].conversation = buckets[b].conversation
              /\ b \in B => buckets'[b].state \in {"skipped_budget", "aborted"}
              /\ b \notin B => buckets'[b].state = buckets[b].state
  <3>1. buckets[b] \in Bucket  BY <1>1 DEF TypeOK, QueueTypeOK
  <3>2. CASE b \in B
   <4>1. PICK st \in {"skipped_budget", "aborted"} : buckets'[b] = CloseBucket(b, st)
     BY <2>3, <3>2
   <4> QED BY <3>1, <3>2, <4>1 DEF CloseBucket, Bucket
  <3> QED BY <2>3, <3>2
 <2>5. Delivery!Drop(B)  BY <1>2, <2>2, <2>4, Drops DEF ClosedState, BucketState, OpenState
 <2> QED BY <2>2, <2>5 DEF Delivers, Delivery!Next
<1> QED BY <1>1, <1>3, <1>4, <1>5, <1>6, <1>7, <1>8, <1>9, <1>10
        DEF QueueStep, DeferBucket, LeaveBucket, QueueBucket, NextDue, BlockInv,
            SuppressReceipt, KeepReceipt, StartDue, EndDue

\* /pause and "cancel ongoing" drop what has not started; their runs wind down.
LEMMA CancelDelivers ==
    ASSUME DeliveryInv, DeliveryInv', NoneOpens, step' = step, NEW C, CloseUnstarted(C)
    PROVE  Delivers
<1>1. TypeOK  BY DEF DeliveryInv
<1>2. AbsSession' = AbsSession
 <2>1. ASSUME NEW i \in InvIds, InSession(i) PROVE InSession(i)'
   BY <1>1, <2>1, CloseUnstartedKeeps DEF InSession, Releasing
 <2> QED BY <2>1, SessionsStay
<1>3. ASSUME NEW b \in BucketIds
      PROVE  /\ buckets'[b].conversation = buckets[b].conversation
             /\ b \in Unstarted(C) => buckets'[b].state = "expired"
             /\ b \notin Unstarted(C) => buckets'[b].state = buckets[b].state
 <2>1. IF b \in Unstarted(C) THEN buckets'[b] = CloseBucket(b, "expired")
       ELSE buckets'[b] = buckets[b]
   BY DEF CloseUnstarted
 <2> QED BY <1>1, <2>1 DEF CloseBucket, TypeOK, QueueTypeOK, Bucket
<1>4. Unstarted(C) \in SUBSET BucketIds /\ \A b \in Unstarted(C) : buckets[b].state \in OpenState
  BY DEF Unstarted, OpenState
<1>5. Delivery!Drop(Unstarted(C))
  BY <1>2, <1>3, <1>4, Drops DEF ClosedState, BucketState, OpenState
<1> QED BY <1>4, <1>5 DEF Delivers, Delivery!Next

\* The steps of a run: only the send barrier moves a batch.
LEMMA RunDelivers ==
    ASSUME DeliveryInv, DeliveryInv', NoneOpens, NEW c \in Conversations, RunStep(c)
    PROVE  Delivers
<1>1. /\ TypeOK /\ RowsLinked /\ BlockInv /\ RunsHeld /\ SessionInv
      /\ RunGoesOn(c) /\ (HoldSend(c) \/ RowsKept)
  BY RunStepFrame DEF DeliveryInv
<1>2. AbsSession' = AbsSession
 <2>1. \A i \in InvIds : invocations'[i].state = invocations[i].state
   BY <1>1 DEF HoldSend, RowsKept
 <2>2. \A i \in InvIds : InSession(i) => InSession(i)'
   BY <1>1, <2>1 DEF RunGoesOn, InSession, Releasing
 <2> QED BY <2>2, SessionsStay
<1>3. CASE RowsKept
 <2>1. \A b \in BucketIds : /\ StatusOf(buckets'[b].state) = StatusOf(buckets[b].state)
                            /\ buckets'[b].conversation = buckets[b].conversation
   BY <1>3 DEF RowsKept
 <2> QED BY <1>2, <2>1, NoDelivery DEF Delivers
<1>4. CASE HoldSend(c)
 <2>1. PICK b \in BucketIds : /\ buckets[b].state = "collecting"
                              /\ buckets[b].conversation = c
                              /\ buckets' = [buckets EXCEPT ![b].state = "running"]
   BY <1>4 DEF HoldSend, Collecting, AttachBucketTo
 <2>2. PICK i \in InvIds : i = run[c].inv  BY <1>1 DEF RunGoesOn, RowsLinked
 <2>3. InSession(i) /\ invocations[i].conversation = c
   BY <1>1, <2>2 DEF RunGoesOn, RunsHeld, InSession
 <2>4. /\ buckets'[b].state = "running" /\ buckets'[b].conversation = buckets[b].conversation
       /\ \A d \in BucketIds : d # b => buckets'[d] = buckets[d]
   BY <1>1, <2>1 DEF TypeOK, QueueTypeOK, Bucket
 <2>5. Delivery!Join(b)  BY <1>1, <1>2, <2>1, <2>3, <2>4, Joins
 <2> QED BY <2>5 DEF Delivers, Delivery!Next
<1> QED BY <1>1, <1>3, <1>4

\* Every step of the scheduler but a launch.
LEMMA OtherDelivers ==
    ASSUME DeliveryInv, DeliveryInv', NoneOpens, [Next]_vars, \A i \in InvIds : ~Launch(i)
    PROVE  Delivers
<1> USE DEF tables, policy, handover, runVars
<1>1. /\ TypeOK /\ RowsLinked /\ BlockInv /\ RunsHeld /\ ReleaseList /\ OwnInv /\ SessionInv
      /\ TypeOK' /\ RowsLinked' /\ BlockInv'
  BY DEF DeliveryInv
<1>2. CASE buckets' = buckets /\ \A i \in InvIds : InSession(i) => InSession(i)'
  BY <1>2, SessionsStay, NoDelivery DEF Delivers
<1>3. CASE UNCHANGED <<buckets, invocations>> /\ (step.at # "release" \/ step' = step)
 <2>1. \A i \in InvIds : InSession(i) => InSession(i)'  BY <1>3 DEF InSession, Releasing
 <2> QED BY <1>2, <1>3, <2>1
<1>4. ASSUME NEW c \in Conversations, AppendToBucket(c) PROVE Delivers
 <2>1. PICK b \in BucketIds :
          /\ buckets[b].state = "none"
          /\ buckets' = [buckets EXCEPT ![b] =
                [state |-> "collecting", conversation |-> c, due |-> ~WindowOpen]]
   BY <1>4 DEF AppendToBucket, FreshBucket
 <2>2. AbsSession' = AbsSession
  <3>1. \A i \in InvIds : InSession(i) => InSession(i)'
    BY <1>4 DEF AppendToBucket, InSession, Releasing
  <3> QED BY <3>1, SessionsStay
 <2>3. /\ buckets'[b].state = "collecting" /\ buckets'[b].conversation = c
       /\ \A d \in BucketIds : d # b => buckets'[d] = buckets[d]
   BY <1>1, <2>1 DEF TypeOK, QueueTypeOK
 <2>4. Delivery!Arrive(b, c)  BY <1>1, <2>1, <2>2, <2>3, Arrives
 <2> QED BY <2>4 DEF Delivers, Delivery!Next
<1>5. ASSUME NEW b \in BucketIds, DeadlinePasses(b) PROVE Delivers
 <2>1. \A d \in BucketIds : /\ StatusOf(buckets'[d].state) = StatusOf(buckets[d].state)
                            /\ buckets'[d].conversation = buckets[d].conversation
   BY <1>1, <1>5 DEF DeadlinePasses, TypeOK, QueueTypeOK, Bucket
 <2>2. \A i \in InvIds : InSession(i) => InSession(i)'
   BY <1>5 DEF DeadlinePasses, InSession, Releasing
 <2> QED BY <2>1, <2>2, SessionsStay, NoDelivery DEF Delivers
<1>6. ASSUME NEW c \in Conversations, BeginFinish(c) PROVE Delivers
 <2>1. ASSUME NEW i \in InvIds, InSession(i) PROVE InSession(i)'
   BY <1>1, <1>6, <2>1 DEF BeginFinish, InSession, Releasing, Idle, TypeOK, QueueTypeOK
 <2>2. buckets' = buckets  BY <1>6 DEF BeginFinish
 <2> QED BY <1>2, <2>1, <2>2
<1>7. ASSUME NEW c \in Conversations, NEW w \in BOOLEAN, EndFinish(c, w) PROVE Delivers
 <2>1. PICK outcome \in {"done", "dropped"} : Delivery!Close(c, outcome)
   BY <1>1, <1>7, EndCloses
 <2> QED BY <2>1 DEF Delivers, Delivery!Next
<1>8. ASSUME NEW k \in Chats, Pause(k) PROVE Delivers  BY <1>8, CancelDelivers DEF Pause
<1>9. CASE CancelOngoing  BY <1>9, CancelDelivers DEF CancelOngoing
<1>10. CASE CrashAndRestart
 <2>1. ASSUME NEW i \in InvIds PROVE ~InSession(i)'
  <3>1. step.at # "release" /\ step'.at # "release"
    BY <1>10 DEF CrashAndRestart, BetweenTransactions, Idle
  <3>2. PICK old : Recover(old)  BY <1>10 DEF CrashAndRestart
  <3>3. invocations[i].state = "running" => invocations'[i].state # "running"
   <4>1. invocations[i].state = "running" =>
            \E st \in {"outcome_unknown", "aborted"} : invocations'[i] = CloseInvocation(i, st)
     BY <3>2 DEF Recover, RecoveredInvocation
   <4> QED BY <1>1, <4>1 DEF CloseInvocation, TypeOK, QueueTypeOK, Invocation
  <3>4. InSession(i)' => InSession(i)  BY DEF NoneOpens
  <3> QED BY <3>1, <3>3, <3>4 DEF InSession, Releasing
 <2>2. PICK B \in SUBSET BucketIds : Delivery!Restart(B)  BY <1>1, <1>10, <2>1, RecoverRestarts
 <2> QED BY <2>2 DEF Delivers, Delivery!Next
<1>11. CASE QueueStep  BY <1>11, QueueDelivers
<1>12. ASSUME NEW c \in Conversations, RunStep(c) PROVE Delivers  BY <1>12, RunDelivers
<1>13. CASE \/ Tick \/ EndTick \/ ToggleSleep \/ UNCHANGED vars
            \/ \E t \in Tasks : FinishTask(t)
            \/ \E c \in Conversations : FailFinish(c) \/ AbortConversation(c)
            \/ \E k \in Chats : Resume(k)
  BY <1>3, <1>13 DEF vars, Tick, EndTick, ToggleSleep, FinishTask, FailFinish, AbortConversation, Resume
<1> QED BY <1>4, <1>5, <1>6, <1>7, <1>8, <1>9, <1>10, <1>11, <1>12, <1>13 DEF Next, Arrival

\* Every step of the scheduler is a step of BatchDelivery or leaves it alone.
LEMMA StepDelivers ==
    ASSUME DeliveryInv, DeliveryInv', [Next]_vars
    PROVE  Delivers
<1>1. /\ TypeOK /\ RowsLinked /\ BlockInv /\ RunsHeld /\ OwnInv /\ SessionInv
      /\ TypeOK' /\ RowsLinked' /\ BlockInv' /\ SessionInv'
  BY DEF DeliveryInv
<1>2. CASE \A i \in InvIds : ~Launch(i)  BY <1>1, <1>2, OnlyLaunchOpens, OtherDelivers
<1>3. ASSUME NEW i \in InvIds, Launch(i) PROVE Delivers
 <2>1. PICK b \in BucketIds : Delivery!Open(b)  BY <1>1, <1>3, LaunchOpens
 <2> QED BY <2>1 DEF Delivers, Delivery!Next
<1> QED BY <1>2, <1>3

\* The scheduler implements BatchDelivery: whatever the order of ticks, runs, injections,
\* commands and crashes, a batch waits, is held by the one session of its chat, is given
\* back or closed by it, and never leaves done or dropped.
THEOREM DeliveryImplemented == Spec => DeliverySpec
<1>1. Init => Delivery!Init
 <2> SUFFICES ASSUME Init PROVE Delivery!Init  OBVIOUS
 <2>1. \A k \in Chats : SessionOf(k) = None
   BY DEF Init, QueueInit, NoInvocation, Idle, SessionOf, SessionRows, ChatInvocations
 <2>2. \A b \in BucketIds : StatusOf(buckets[b].state) = "absent" /\ buckets[b].conversation = None
   BY DEF Init, QueueInit, NoBucket, StatusOf
 <2> QED BY <2>1, <2>2 DEF Delivery!Init
<1>2. DeliveryInv /\ DeliveryInv' /\ [Next]_vars => [Delivery!Next]_(Delivery!dvars)
  BY StepDelivers DEF Delivers
<1>3. Spec => []DeliveryInv  BY TypeCorrect, Ownership, SessionsExclude, PTL DEF DeliveryInv
<1> QED BY <1>1, <1>2, <1>3, PTL DEF Spec, DeliverySpec, Delivery!Spec

=============================================================================

------------------------ MODULE SchedulerRefinement ------------------------
(* BucketScheduler implements BatchDelivery. *)
EXTENDS BucketScheduler

\* The abstract status of a bucket row.
StatusOf(st) ==
    CASE st = "none" -> "absent"
      [] st \in {"collecting", "queued"} -> "waiting"
      [] st = "running" -> "held"
      [] st = "completed" -> "done"
      [] OTHER -> "dropped"

\* The rows that keep a chat's session open: the running invocation, and the one
\* whose terminal transaction is under way.
SessionRows(k) ==
    ChatInvocations(k, "running") \cup
        {i \in {step.inv} \ {0} :
            step.at = "release" /\ ChatOf[invocations[i].conversation] = k}

SessionOf(k) ==
    IF SessionRows(k) = {} THEN None
    ELSE invocations[CHOOSE i \in SessionRows(k) : TRUE].conversation

Delivery == INSTANCE BatchDelivery WITH
    Batches <- BucketIds,
    status <- [b \in BucketIds |-> StatusOf(buckets[b].state)],
    owner <- [b \in BucketIds |-> buckets[b].conversation],
    session <- [k \in Chats |-> SessionOf(k)]

\* Every step of the queue, the runs, the operator commands and recovery is a
\* step of BatchDelivery or leaves it unchanged: sessions exclude each other
\* per chat, a batch joins only its own conversation's session, is given back
\* or closed by it, and never leaves done or dropped.
DeliverySpec == Delivery!Spec

=============================================================================

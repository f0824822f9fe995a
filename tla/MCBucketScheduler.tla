------------------------- MODULE MCBucketScheduler -------------------------
(* Instances of BucketScheduler for TLC. *)
EXTENDS SchedulerRefinement, TLC

CONSTANTS c1, c2, k1, k2, t1, t2

\* One chat with two forum topics.
OneChat == c1 :> k1 @@ c2 :> k1
\* Two chats.
TwoChats == c1 :> k1 @@ c2 :> k2
\* One conversation.
Single == c1 :> k1
TaskOfFirst == t1 :> c1
TasksOfFirst == t1 :> c1 @@ t2 :> c1
TasksOfBoth == t1 :> c1 @@ t2 :> c2
NoTask == [t \in {} |-> c1]

=============================================================================

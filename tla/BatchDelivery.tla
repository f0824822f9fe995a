---------------------------- MODULE BatchDelivery ----------------------------
(***************************************************************************)
(* What the work queue, the agent runs and the scheduler promise together: *)
(* a batch of messages waits, is held by the one agent session of its      *)
(* chat, and ends done or dropped, once and for all.  A session closes all *)
(* it still holds with one outcome; what it never showed the model it has  *)
(* given back before.  A restart drops what was held.                      *)
(***************************************************************************)
CONSTANTS Batches, Conversations, Chats, ChatOf, None

VARIABLES
    status,            \* of a batch
    owner,             \* the conversation of a batch
    session            \* the conversation whose session a chat is in, or None

dvars == <<status, owner, session>>

InSession(c) == session[ChatOf[c]] = c

Init ==
    /\ status = [b \in Batches |-> "absent"]
    /\ owner = [b \in Batches |-> None]
    /\ session = [k \in Chats |-> None]

\* A batch appears: it waits, or joins its conversation's session at once.
Arrive(b, c) ==
    /\ status[b] = "absent"
    /\ owner' = [owner EXCEPT ![b] = c]
    /\ \/ status' = [status EXCEPT ![b] = "waiting"]
       \/ InSession(c) /\ status' = [status EXCEPT ![b] = "held"]
    /\ UNCHANGED session

Open(b) ==
    /\ status[b] = "waiting"
    /\ session[ChatOf[owner[b]]] = None
    /\ session' = [session EXCEPT ![ChatOf[owner[b]]] = owner[b]]
    /\ status' = [status EXCEPT ![b] = "held"]
    /\ UNCHANGED owner

Join(b) ==
    /\ status[b] = "waiting"
    /\ InSession(owner[b])
    /\ status' = [status EXCEPT ![b] = "held"]
    /\ UNCHANGED <<owner, session>>

Return(b) ==
    /\ status[b] = "held"
    /\ InSession(owner[b])
    /\ status' = [status EXCEPT ![b] = "waiting"]
    /\ UNCHANGED <<owner, session>>

\* Batches that have not been started are cancelled, skipped or expired.
Drop(B) ==
    /\ \A b \in B : status[b] \in {"waiting", "held"}
    /\ status' = [b \in Batches |-> IF b \in B THEN "dropped" ELSE status[b]]
    /\ UNCHANGED <<owner, session>>

Close(c, outcome) ==
    /\ InSession(c)
    /\ status' = [b \in Batches |->
          IF owner[b] = c /\ status[b] = "held" THEN outcome ELSE status[b]]
    /\ session' = [session EXCEPT ![ChatOf[c]] = None]
    /\ UNCHANGED owner

\* The process starts again: B were too old to wait any longer.
Restart(B) ==
    /\ \A b \in B : status[b] = "waiting"
    /\ status' = [b \in Batches |->
          IF b \in B \/ status[b] = "held" THEN "dropped" ELSE status[b]]
    /\ session' = [k \in Chats |-> None]
    /\ UNCHANGED owner

Next ==
    \/ \E b \in Batches, c \in Conversations : Arrive(b, c)
    \/ \E b \in Batches : Open(b) \/ Join(b) \/ Return(b)
    \/ \E B \in SUBSET Batches : Drop(B) \/ Restart(B)
    \/ \E c \in Conversations, outcome \in {"done", "dropped"} : Close(c, outcome)

Spec == Init /\ [][Next]_dvars

=============================================================================

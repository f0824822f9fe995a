------------------------------ MODULE Semaphores ------------------------------
(* AsyncSemaphore of src/src/platform/concurrency.ts as operators on a record: *)
(* how many permits are out, and the clients waiting in order.  A client is    *)
(* any value; whoever holds a permit is the user's business, as in the code.   *)
EXTENDS Integers, Sequences, SequencesExt, FiniteSetsExt

Semaphore(Clients) == [active: Nat, waiters: Seq(Clients)]

FreeSemaphore == [active |-> 0, waiters |-> <<>>]

HasRoom(sem, limit) == sem.active < limit

\* push and sort by rank and arrival, on waiters that are in that order: the new
\* one goes ahead of the first of a higher rank.
EnterQueue(waiters, client, rank) ==
    LET later == {i \in DOMAIN waiters : rank[waiters[i]] > rank[client]}
    IN InsertAt(waiters, IF later = {} THEN Len(waiters) + 1 ELSE Min(later), client)

\* acquire: a permit at once while there is room, otherwise a place in the queue.
Acquire(sem, client, limit, rank) ==
    IF HasRoom(sem, limit) THEN [sem EXCEPT !.active = @ + 1]
    ELSE [sem EXCEPT !.waiters = EnterQueue(@, client, rank)]

\* #release: the permit passes to the first waiter, or comes back.
Release(sem) ==
    IF sem.waiters = <<>> THEN [sem EXCEPT !.active = @ - 1]
    ELSE [sem EXCEPT !.waiters = Tail(@)]

\* Who gets the permit a release hands over; {} when nobody waits.
HandedTo(sem) == IF sem.waiters = <<>> THEN {} ELSE {Head(sem.waiters)}

\* onAbort: a waiter leaves the queue.
Withdraw(sem, client) == [sem EXCEPT !.waiters = RemoveFirst(@, client)]

=============================================================================

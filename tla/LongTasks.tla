------------------------------- MODULE LongTasks -------------------------------
(* LongTaskService (src/src/store/long-tasks.ts) with its two users: the alarm  *)
(* plugin (src/src/plugins/alarm), whose tasks a timer completes, and an image  *)
(* generation, whose task its plugin completes.  A task ends with one receipt,  *)
(* which the invocation queue claims and settles; the agent and the operator    *)
(* may cancel it until then, and the operator reads the alarms page by page.    *)
EXTENDS Integers, Sequences, FiniteSets

CONSTANTS Users, NoUser,   \* who may be the caller of a run; nobody is known
          Rooms,           \* conversations
          Runs,            \* invocations that create tasks
          RoomOf,          \* [Runs -> Rooms]
          Quota,           \* ALARM_MAX_PER_INVOCATION
          Horizon,         \* ALARM_MAX_FORWARD_MS, in instants
          PageLimit,       \* the limit parameter of the listing
          TaskBound,       \* bound on the tasks created
          LastInstant      \* bound on the clock

ASSUME TasksAssumption ==
    /\ NoUser \notin Users
    /\ RoomOf \in [Runs -> Rooms]
    /\ {Quota, Horizon, PageLimit, LastInstant} \subseteq Nat \ {0}
    /\ TaskBound \in Nat

VARIABLES tasks,     \* long_tasks with their task_receipts, by id
          now,       \* the clock
          cancelled, \* history: the tasks a cancel answered true for, by whom
          claims,    \* history: [task id -> how often its receipt was claimed]
          walk       \* an operator's walk through the pages of the alarms

taskVars == <<tasks, now, cancelled, claims, walk>>

TaskIds == 1..TaskBound
Instant == 0..LastInstant + Horizon \* 0 is NULL

LongTask == [plugin: {"alarm", "image"}, room: Rooms, run: Runs,
             owner: Users \cup {NoUser}, at: Instant,
             state: {"waiting", "completed", "failed", "cancelled"},
             receipt: {"none", "pending", "claimed", "handled", "suppressed"},
             claimedAt: Instant, cancelledAt: Instant]

NoCursor == [segment |-> "none", key |-> 0, id |-> 0]
NoWalk == [filter |-> "none", cursor |-> NoCursor, rows |-> {},
           listed |-> [t \in TaskIds |-> 0], ended |-> FALSE]

TasksTypeOK ==
    /\ tasks \in Seq(LongTask) /\ Len(tasks) <= TaskBound
    /\ now \in 1..LastInstant
    /\ \A t \in DOMAIN tasks : tasks[t].state = "waiting" <=> tasks[t].receipt = "none"
    /\ walk.rows \subseteq TaskIds /\ walk.listed \in [TaskIds -> Nat]

TasksInit ==
    /\ tasks = <<>> /\ now = 1 /\ cancelled = {}
    /\ claims = [t \in TaskIds |-> 0] /\ walk = NoWalk

\* What happens to a row while the operator pages is not the walk's promise.
Touched(ids) == [walk EXCEPT !.rows = @ \ ids]

Set(t, row) ==
    /\ tasks' = [tasks EXCEPT ![t] = row]
    /\ walk' = Touched({t})

------------------------------------------------------------------------------
(* Creating.                                                                   *)

\* MUTANT of CountedForQuota: what is no longer waiting does not count.
StillWaitingForQuota(plugin, run) ==
    {t \in DOMAIN tasks : tasks[t].plugin = plugin /\ tasks[t].run = run
                          /\ tasks[t].state = "waiting"}

\* The tasks of a plugin an invocation has created, whatever became of them.
CountedForQuota(plugin, run) ==
    {t \in DOMAIN tasks : tasks[t].plugin = plugin /\ tasks[t].run = run}

\* parseAlarmDatetime: after now, and no further ahead than a year.
AlarmInstants == now + 1..now + Horizon

NewTask(plugin, room, run, owner, at) ==
    [plugin |-> plugin, room |-> room, run |-> run, owner |-> owner, at |-> at,
     state |-> "waiting", receipt |-> "none", claimedAt |-> 0, cancelledAt |-> 0]

\* The alarm tool: the caller must be known, and its quota not used up.
CreateAlarm(run) ==
    /\ Len(tasks) < TaskBound
    /\ Cardinality(CountedForQuota("alarm", run)) < Quota
    /\ \E caller \in Users, at \in AlarmInstants :
           tasks' = Append(tasks, NewTask("alarm", RoomOf[run], run, caller, at))
    /\ walk' = Touched({Len(tasks) + 1})
    /\ UNCHANGED <<now, cancelled, claims>>

\* taskScope: a bridge creates the task of a generation, with no caller and no
\* schedule.
CreateImageTask(run) ==
    /\ Len(tasks) < TaskBound
    /\ Cardinality(CountedForQuota("image", run)) < Quota
    /\ tasks' = Append(tasks, NewTask("image", RoomOf[run], run, NoUser, 0))
    /\ walk' = Touched({Len(tasks) + 1})
    /\ UNCHANGED <<now, cancelled, claims>>

------------------------------------------------------------------------------
(* Completing and cancelling.                                                  *)

\* MUTANT of Due: a timer fires whatever became of its task.
DueWhatever(t) == tasks[t].at # 0 /\ tasks[t].at <= now

Due(t) ==
    /\ tasks[t].state = "waiting"
    /\ tasks[t].at # 0 /\ tasks[t].at <= now

\* processDue: every timer that is due completes, in one transaction.
ProcessTimers ==
    /\ \E t \in DOMAIN tasks : Due(t)
    /\ tasks' = [t \in DOMAIN tasks |->
           IF Due(t) THEN [tasks[t] EXCEPT !.state = "completed", !.receipt = "pending"]
           ELSE tasks[t]]
    /\ walk' = Touched({t \in DOMAIN tasks : Due(t)})
    /\ UNCHANGED <<now, cancelled, claims>>

\* #finish: a plugin completes or fails its own waiting task; with notify false
\* nobody is told.
FinishTask(t) ==
    /\ tasks[t].plugin = "image" /\ tasks[t].state = "waiting"
    /\ \E state \in {"completed", "failed"}, receipt \in {"pending", "suppressed"} :
           Set(t, [tasks[t] EXCEPT !.state = state, !.receipt = receipt])
    /\ UNCHANGED <<now, cancelled, claims>>

\* A task can be cancelled until its receipt is claimed.
Cancellable(t) == tasks[t].state = "waiting" \/ tasks[t].receipt = "pending"

\* What #cancel writes.
CancelledRow(row) ==
    [row EXCEPT !.state = IF @ = "waiting" THEN "cancelled" ELSE @,
                !.receipt = "suppressed", !.cancelledAt = now]

\* The identity of a restricted scope: this conversation's, by this caller.
Owns(caller, room, t) ==
    /\ caller # NoUser
    /\ tasks[t].room = room
    /\ tasks[t].owner = caller

\* When the cancel of a restricted scope answers true.
MayDelete(caller, room, t) ==
    tasks[t].plugin = "alarm" /\ Owns(caller, room, t) /\ Cancellable(t)

\* delete_alarm in a run of the conversation whose caller is known.
DeleteAlarm(caller, room, t) ==
    /\ MayDelete(caller, room, t)
    /\ Set(t, CancelledRow(tasks[t]))
    /\ cancelled' = cancelled \cup {[task |-> t, by |-> caller]}
    /\ UNCHANGED <<now, claims>>

\* cancelAlarm: the operator may cancel any alarm; 409 when it cannot be any more.
AdminCancelAlarm(t) ==
    /\ tasks[t].plugin = "alarm" /\ Cancellable(t)
    /\ Set(t, CancelledRow(tasks[t]))
    /\ cancelled' = cancelled \cup {[task |-> t, by |-> "admin"]}
    /\ UNCHANGED <<now, claims>>

\* #list of a restricted scope.
ListedTo(caller, room) ==
    {t \in DOMAIN tasks :
        /\ tasks[t].plugin = "alarm"
        /\ Owns(caller, room, t)
        /\ tasks[t].state = "waiting" \/ tasks[t].receipt = "pending"}

\* The invocation queue claims a pending receipt ...
ClaimReceipt(t) ==
    /\ tasks[t].receipt = "pending"
    /\ Set(t, [tasks[t] EXCEPT !.receipt = "claimed", !.claimedAt = now])
    /\ claims' = [claims EXCEPT ![t] = @ + 1]
    /\ UNCHANGED <<now, cancelled>>

\* ... and settles it: handled by its run, or suppressed when its batch is gone.
SettleReceipt(t) ==
    /\ tasks[t].receipt = "claimed"
    /\ \/ Set(t, [tasks[t] EXCEPT !.receipt = "handled"])
       \/ Set(t, [tasks[t] EXCEPT !.receipt = "suppressed", !.cancelledAt = now])
    /\ UNCHANGED <<now, cancelled, claims>>

TimePasses ==
    /\ now < LastInstant /\ now' = now + 1
    /\ UNCHANGED <<tasks, cancelled, claims, walk>>

------------------------------------------------------------------------------
(* The operator's list of alarms: pending ones by schedule, then the others,   *)
(* the latest first; a cursor names the last row of the page before.           *)

AlarmState(t) ==
    CASE tasks[t].state = "cancelled" \/ tasks[t].receipt = "suppressed" -> "cancelled"
      [] tasks[t].receipt = "claimed" -> "firing"
      [] tasks[t].receipt = "handled" -> "fired"
      [] OTHER -> "pending"

\* COALESCE(fired_at, cancelled_at, updated_at); the third is never needed.
EndedAt(t) == IF tasks[t].claimedAt # 0 THEN tasks[t].claimedAt ELSE tasks[t].cancelledAt

Key(segment, t) == IF segment = "p" THEN tasks[t].at ELSE EndedAt(t)

\* Row t comes after the row with that key and id, in the order of its segment.
Follows(segment, key, id, t) ==
    IF segment = "p" THEN \/ Key("p", t) > key
                          \/ Key("p", t) = key /\ t > id
    ELSE \/ Key("t", t) < key
         \/ Key("t", t) = key /\ t < id

\* The first k rows of a segment.
FirstRows(rows, segment, k) ==
    {t \in rows :
        Cardinality({u \in rows : Follows(segment, Key(segment, u), u, t)}) < k}

AfterCursor(cursor, segment, t) ==
    cursor.segment = segment => Follows(segment, cursor.key, cursor.id, t)

\* fetchRows: at most k rows of a segment, from the cursor on.
FetchRows(segment, k, cursor, filter) ==
    FirstRows({t \in DOMAIN tasks :
                  /\ tasks[t].plugin = "alarm"
                  /\ IF segment = "p" THEN AlarmState(t) = "pending"
                     ELSE AlarmState(t) # "pending" /\ filter \in {"all", AlarmState(t)}
                  /\ AfterCursor(cursor, segment, t)},
              segment, k)

LastRow(rows, segment) ==
    CHOOSE t \in rows :
        \A u \in rows : ~ Follows(segment, Key(segment, t), t, u)

CursorFor(t) ==
    LET segment == IF AlarmState(t) = "pending" THEN "p" ELSE "t"
    IN [segment |-> segment, key |-> Key(segment, t), id |-> t]

\* pageFromRows, of pending rows followed by others: the rows shown and where
\* the next page starts, NoCursor when there is none.
PageFromRows(pending, ended) ==
    LET first == FirstRows(pending, "p", PageLimit)
        then  == FirstRows(ended, "t", PageLimit - Cardinality(first))
        last  == IF then = {} THEN LastRow(first, "p") ELSE LastRow(then, "t")
    IN [rows |-> first \cup then,
        next |-> IF Cardinality(pending) + Cardinality(ended) > PageLimit
                 THEN CursorFor(last) ELSE NoCursor]

\* listAlarms.
AlarmPage(filter, cursor) ==
    LET pending == FetchRows("p", PageLimit + 1, cursor, filter)
        room    == PageLimit - Cardinality(pending) + 1
    IN IF filter \in {"all", "pending"} /\ cursor.segment # "t"
       THEN IF Cardinality(pending) > PageLimit \/ filter = "pending"
            THEN PageFromRows(pending, {})
            ELSE PageFromRows(pending, FetchRows("t", room, NoCursor, filter))
       ELSE PageFromRows({}, FetchRows("t", PageLimit + 1, cursor, filter))

\* What the filter asks for.
Wanted(filter) ==
    {t \in DOMAIN tasks : tasks[t].plugin = "alarm" /\ filter \in {"all", AlarmState(t)}}

StartWalk ==
    \E filter \in {"all", "pending", "cancelled"} :
        /\ walk = NoWalk
        /\ walk' = [NoWalk EXCEPT !.filter = filter, !.rows = Wanted(filter)]
        /\ UNCHANGED <<tasks, now, cancelled, claims>>

NextPage ==
    LET page == AlarmPage(walk.filter, walk.cursor) IN
    /\ walk # NoWalk /\ ~walk.ended
    /\ walk' = [walk EXCEPT
           !.listed = [t \in TaskIds |-> @[t] + IF t \in page.rows THEN 1 ELSE 0],
           !.cursor = page.next,
           !.ended = page.next = NoCursor]
    /\ UNCHANGED <<tasks, now, cancelled, claims>>

TasksNext ==
    \/ \E run \in Runs : CreateAlarm(run) \/ CreateImageTask(run)
    \/ ProcessTimers \/ TimePasses \/ StartWalk \/ NextPage
    \/ \E t \in DOMAIN tasks :
           \/ FinishTask(t) \/ AdminCancelAlarm(t)
           \/ ClaimReceipt(t) \/ SettleReceipt(t)
           \/ \E caller \in Users \cup {NoUser}, room \in Rooms :
                  DeleteAlarm(caller, room, t)

TasksSpec == TasksInit /\ [][TasksNext]_taskVars

------------------------------------------------------------------------------
(* Properties.                                                                 *)

\* long-tasks.ts #cancel, processDue and the queue's claim race for a task: once
\* a cancel has answered true nothing of it is delivered; otherwise it is
\* delivered at most once, and an alarm never before its time.
CancelOrDeliverOnce ==
    /\ \A c \in cancelled : claims[c.task] = 0 /\ tasks[c.task].receipt = "suppressed"
    /\ \A t \in DOMAIN tasks :
           /\ claims[t] <= 1
           /\ claims[t] = 1 /\ tasks[t].at # 0 => tasks[t].at <= tasks[t].claimedAt

\* alarm.ts delete_alarm, list_alarm: an agent cancels a user's alarm only for
\* that user, and what it lists is what the same caller can delete there and then.
DeletesWhatItLists ==
    /\ \A c \in cancelled : c.by \in {"admin", tasks[c.task].owner}
    /\ \A caller \in Users \cup {NoUser}, room \in Rooms :
           ListedTo(caller, room) = {t \in DOMAIN tasks : MayDelete(caller, room, t)}

\* alarm.ts maxPerInvocation: however its alarms end and however often it asks,
\* a run creates no more than its quota.
AlarmQuotaHolds ==
    \A run \in Runs :
        Cardinality({t \in DOMAIN tasks :
            tasks[t].plugin = "alarm" /\ tasks[t].run = run}) <= Quota

\* admin.ts listAlarms: whatever is created, fires or is cancelled while an
\* operator turns the pages, an alarm that did not change is on exactly one page.
WalkListsEachOnce == walk.ended => \A t \in walk.rows : walk.listed[t] = 1

\* A task ends once, at the hand of someone who may end it, a run has no more of
\* them than its quota, and the operator's pages miss none.
TasksEndOnce ==
    /\ TasksTypeOK
    /\ CancelOrDeliverOnce /\ DeletesWhatItLists /\ AlarmQuotaHolds
    /\ WalkListsEachOnce

=============================================================================

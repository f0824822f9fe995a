---------------------------- MODULE ActiveWindows ----------------------------
(* The participation schedule of src/src/platform/participation.ts: how the    *)
(* global and the per-chat settings are merged into a rule, and which minutes  *)
(* of the week the rule's windows cover.  A clock time is a minute offset in a *)
(* day of DayMinutes minutes (1440 in the code, small here) and an instant is  *)
(* a minute counted from a Monday 00:00 of the rule's own timezone, so that    *)
(* the conversion from UTC is a shift of the instant.                          *)
EXTENDS Integers, FiniteSets

CONSTANTS DayMinutes,      \* minutes of a day
          Unset            \* an optional setting that is absent

ASSUME DayAssumption == DayMinutes \in Nat \ {0}

Weekdays == 1..7

\* A compiled window: `end' is exclusive and may be DayMinutes ("24:00").
Window == [start: 0..(DayMinutes - 1), end: 0..DayMinutes,
           days: (SUBSET Weekdays \ {{}}) \cup {Unset}]

\* Merging the two levels: windows are replaced wholesale, keywords appended,
\* the attention window overridden; no setting at either level means no rule.
CompileParticipation(global, chat, default) ==
    IF global = Unset /\ chat = Unset THEN Unset ELSE
    LET Setting(level, field) == IF level = Unset THEN Unset ELSE level[field]
        First(field, otherwise) ==
            IF Setting(chat, field) # Unset THEN Setting(chat, field)
            ELSE IF Setting(global, field) # Unset THEN Setting(global, field)
            ELSE otherwise
        Words(level) == IF Setting(level, "keywords") = Unset THEN {}
                        ELSE level.keywords
    IN [windows |-> First("windows", {}),
        keywords |-> Words(global) \cup Words(chat),
        attention |-> First("attention", default)]

\* The local wall clock of an instant: ISO weekday and minute of the day.
LocalTime(t) == [weekday |-> ((t \div DayMinutes) % 7) + 1,
                 minutes |-> t % DayMinutes]

MatchesDay(window, weekday) == window.days = Unset \/ weekday \in window.days

PreviousWeekday(weekday) == IF weekday = 1 THEN 7 ELSE weekday - 1

\* Half-open [start, end); a window crossing midnight belongs to its start day.
IsWithinActiveWindows(windows, t) ==
    LET local == LocalTime(t) IN
    \E w \in windows :
        IF w.end > w.start
        THEN /\ local.minutes >= w.start
             /\ local.minutes < w.end
             /\ MatchesDay(w, local.weekday)
        ELSE \/ /\ local.minutes >= w.start
                /\ MatchesDay(w, local.weekday)
             \/ /\ local.minutes < w.end
                /\ MatchesDay(w, PreviousWeekday(local.weekday))

\* The reference: lay every window out on the calendar, day after day, and ask
\* whether one of the laid-out intervals covers the instant.
CoveredByCalendar(windows, t) ==
    \E w \in windows, day \in -1..(t \div DayMinutes) :
        LET from   == day * DayMinutes + w.start
            length == IF w.end > w.start THEN w.end - w.start
                      ELSE DayMinutes - w.start + w.end
        IN /\ w.days = Unset \/ (day % 7) + 1 \in w.days
           /\ from <= t
           /\ t < from + length

=============================================================================

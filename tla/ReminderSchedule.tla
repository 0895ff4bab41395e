---------------------------- MODULE ReminderSchedule ----------------------------
(***************************************************************************)
(* reminder_schedule.py as the job cursor uses it: a recurrence rule in    *)
(* wall time, a time zone that turns wall time into instants, and quiet    *)
(* hours in wall time.  ReminderStore takes the instants of a rule as a    *)
(* given sequence; here they are computed.                                 *)
(*                                                                         *)
(* Wall time and UTC count ticks; a date is a number of days.  Day 0 is    *)
(* the first day of a week and of a month.  The months' lengths repeat, as *)
(* those of the Gregorian calendar do.  A zone changes its offset once.    *)
(***************************************************************************)
EXTENDS Integers, Sequences, FiniteSets, FiniteSetsExt

CONSTANTS
    DayLength,      \* ticks of a day; the source has 1440 minutes
    WeekLength,     \* days of a week
    MonthLengths,   \* the lengths of the months of one calendar cycle
    Rules,          \* the recurrence rules, see RuleType
    Anchors,        \* local_start of the drafts
    Zones,          \* time zones, see ZoneType
    QuietHours,     \* quiet hours, see QuietType
    SearchDays,     \* _next_weekly looks that many days ahead
    SearchMonths,   \* _next_monthly tries that many months
    Horizon,        \* bound: a cursor beyond this day is not advanced
    Fails,          \* stands for the ValueError of a search without a result
    None

\* RecurrenceRule; until_local is a wall time.
RuleType == [kind : {"once", "daily", "weekly", "monthly"}, interval : Nat \ {0},
             weekdays : SUBSET (0..WeekLength - 1), monthday : Nat \cup {None},
             count : Nat \cup {None}, until : Nat \cup {None}]

\* The shapes __post_init__ lets pass.
LegalShape(r) ==
    /\ r.kind = "once" => /\ r.interval = 1 /\ r.weekdays = {}
                          /\ {r.monthday, r.count, r.until} = {None}
    /\ r.kind = "daily" => r.weekdays = {} /\ r.monthday = None
    /\ r.kind = "weekly" => r.monthday = None
    /\ r.kind = "monthly" => r.weekdays = {}
    /\ r.monthday # 0 /\ r.count # 0

\* The offset before an instant and from it on.
ZoneType == [before : Int, at : Nat, after : Int]

\* quiet_start_minute and quiet_end_minute; urgent is no quiet hours at all.
QuietType == [start : 0..DayLength - 1, end : 0..DayLength - 1] \cup {None}

ASSUME CalendarAssumption ==
    /\ {DayLength, WeekLength, SearchDays, SearchMonths} \subseteq Nat \ {0}
    /\ MonthLengths \in Seq(Nat \ {0}) /\ MonthLengths # << >>
    /\ Horizon \in Nat
ASSUME ScheduleAssumption ==
    /\ Rules \subseteq RuleType /\ \A r \in Rules : LegalShape(r)
    /\ Anchors \subseteq Nat
    /\ Zones \subseteq ZoneType
    /\ \A z \in Zones : {z.before, z.after} \subseteq (1 - DayLength)..(DayLength - 1)
    /\ QuietHours \subseteq QuietType
    /\ \A q \in QuietHours \ {None} : q.start # q.end
    /\ None \notin Int /\ Fails \notin Int \cup {None}

VARIABLES
    rule, anchor, zone, quiet,  \* of the job: they never change
    cursor,                     \* next_scheduled_for
    status,                     \* of the job
    emitted,                    \* emitted_count
    runs                        \* the runs: [at, avail], avail None if missed

plan == <<rule, anchor, zone, quiet>>
scheduleVars == <<plan, cursor, status, emitted, runs>>

-----------------------------------------------------------------------------
(* The calendar *)

DateOf(wall)  == wall \div DayLength
ClockOf(wall) == wall % DayLength
Combine(date, clock) == date * DayLength + clock
WeekdayOf(date) == date % WeekLength

LengthOf(m) == MonthLengths[(m % Len(MonthLengths)) + 1]
FirstDay[m \in Nat] == IF m = 0 THEN 0 ELSE FirstDay[m - 1] + LengthOf(m - 1)
MonthOf(date) ==
    CHOOSE m \in 0..date : FirstDay[m] <= date /\ date < FirstDay[m + 1]

HasDay(m, monthday) == monthday <= LengthOf(m)
DateIn(m, monthday) == FirstDay[m] + monthday - 1
DayOfMonth(date)    == date - FirstDay[MonthOf(date)] + 1

\* An interval is at most 365, so the 3660 days of the weekly search hold a whole
\* step of weeks, and its 1200 months hold the longest of the months that a rule
\* ever reaches: the other calendars this module is about are as benign.
ASSUME SearchAssumption ==
    \A r \in Rules :
        /\ r.interval * WeekLength <= SearchDays
        /\ \A m \in 0..(Len(MonthLengths) - 1), k \in 1..Len(MonthLengths) :
              \E n \in 1..SearchMonths :
                  LengthOf(m + k * r.interval) <= LengthOf(m + n * r.interval)

-----------------------------------------------------------------------------
(* The time zone *)

ToWall(z, utc) == utc + IF utc < z.at THEN z.before ELSE z.after

\* resolve_local_time: the two values of fold try the offset before the change
\* and the one after it, and what does not come back to the same wall time is
\* dropped.
Candidates(z, wall) ==
    {utc \in {wall - z.before, wall - z.after} : ToWall(z, utc) = wall}

\* None: nonexistent or ambiguous.
Resolve(z, wall) ==
    IF Cardinality(Candidates(z, wall)) = 1 THEN Max(Candidates(z, wall)) ELSE None

-----------------------------------------------------------------------------
(* Quiet hours *)

Covers(q, clock) ==
    IF q.start < q.end THEN q.start <= clock /\ clock < q.end
    ELSE clock >= q.start \/ clock < q.end

\* Fault: a window over midnight ends on the day it started.
QuietEnd_SameDay(q, wall) == Combine(DateOf(wall), q.end)

\* A window that goes over midnight ends on the next day, unless the day has
\* already changed.
QuietEnd(q, wall) ==
    LET over == q.start > q.end /\ ClockOf(wall) >= q.start IN
    Combine(DateOf(wall) + IF over THEN 1 ELSE 0, q.end)

\* quiet_hours_available_at: None when the end of the window does not resolve.
AvailableAt(z, q, utc) ==
    IF q = None \/ ~Covers(q, ClockOf(ToWall(z, utc))) THEN utc
    ELSE Resolve(z, QuietEnd(q, ToWall(z, utc)))

-----------------------------------------------------------------------------
(* The rule *)

\* The smallest number of S that satisfies P, found by counting up.
FirstOf(S, P(_)) == IF \E n \in S : P(n)
                    THEN Min({n \in S : P(n)}) ELSE Fails

\* Fault: a date is looked for in the following weeks only.
NextWeekly_NextWeek(r, from, after) ==
    LET weekdays == IF r.weekdays = {} THEN {WeekdayOf(DateOf(from))} ELSE r.weekdays
        week     == DateOf(after) - WeekdayOf(DateOf(after))
        matches(n) == WeekdayOf(week + n) \in weekdays
        n == FirstOf({r.interval * WeekLength + d : d \in 0..WeekLength - 1}, matches)
    IN  IF n = Fails THEN Fails ELSE Combine(week + n, ClockOf(from))

\* _next_weekly: every later date whose week is a multiple of interval weeks
\* after the anchor's.
NextWeekly(r, from, after) ==
    LET weekdays == IF r.weekdays = {} THEN {WeekdayOf(DateOf(from))} ELSE r.weekdays
        week     == DateOf(from) - WeekdayOf(DateOf(from))
        date(n)  == DateOf(after) + n
        matches(n) == /\ ((date(n) - week) \div WeekLength) % r.interval = 0
                      /\ WeekdayOf(date(n)) \in weekdays
        n == FirstOf(1..SearchDays, matches)
    IN  IF n = Fails THEN Fails ELSE Combine(date(n), ClockOf(from))

\* Fault: a month without the day ends the search.
NextMonthly_OneMonth(r, from, after) ==
    LET monthday == IF r.monthday = None THEN DayOfMonth(DateOf(from)) ELSE r.monthday
        start    == MonthOf(DateOf(from))
        passed   == (MonthOf(DateOf(after)) - start) \div r.interval
        month    == start + (passed + 1) * r.interval
    IN  IF HasDay(month, monthday)
        THEN Combine(DateIn(month, monthday), ClockOf(from)) ELSE Fails

\* _next_monthly: months are counted from the anchor's in steps of interval; one
\* that does not have the day is passed over.
NextMonthly(r, from, after) ==
    LET monthday == IF r.monthday = None THEN DayOfMonth(DateOf(from)) ELSE r.monthday
        start    == MonthOf(DateOf(from))
        passed   == (MonthOf(DateOf(after)) - start) \div r.interval
        month(n) == start + (passed + n) * r.interval
        exists(n) == HasDay(month(n), monthday)
        n == FirstOf(1..SearchMonths, exists)
    IN  IF n = Fails THEN Fails
        ELSE Combine(DateIn(month(n), monthday), ClockOf(from))

Following(r, from, after) ==
    CASE r.kind = "once"    -> None
      [] r.kind = "daily"   -> after + r.interval * DayLength
      [] r.kind = "weekly"  -> NextWeekly(r, from, after)
      [] r.kind = "monthly" -> NextMonthly(r, from, after)

Until(r, wall) ==
    IF wall \notin {None, Fails} /\ r.until # None /\ wall > r.until THEN None ELSE wall

\* next_occurrence: after = None asks for the first.
NextOccurrence(r, from, after, n) ==
    IF r.count # None /\ n >= r.count THEN None
    ELSE Until(r, IF after = None THEN from ELSE Following(r, from, after))

-----------------------------------------------------------------------------
(* The job *)

ScheduleTypeOK ==
    /\ rule \in Rules /\ anchor \in Anchors /\ zone \in Zones /\ quiet \in QuietHours
    /\ cursor \in Int \cup {None} /\ emitted \in Nat
    /\ status \in {"awaiting_confirmation", "active", "completed", "needs_review"}
    /\ status = "active" <=> cursor # None
    /\ runs \subseteq [at : Int, avail : Int \cup {None}]

ScheduleInit ==
    /\ rule \in Rules /\ anchor \in Anchors /\ zone \in Zones /\ quiet \in QuietHours
    /\ cursor = None
    /\ status = "awaiting_confirmation"
    /\ emitted = 0
    /\ runs = {}

\* The cursor moves to a wall time of the rule, if it resolves.
MovesTo(wall) ==
    LET utc == IF wall = None THEN None ELSE Resolve(zone, wall) IN
    /\ cursor' = utc
    /\ status' = IF wall = None THEN "completed"
                 ELSE IF utc = None THEN "needs_review" ELSE "active"

\* activate; a rule that has no occurrence is refused.
ActivateJob ==
    LET first == NextOccurrence(rule, anchor, None, 0) IN
    /\ status = "awaiting_confirmation"
    /\ first # None
    /\ MovesTo(first)
    /\ UNCHANGED <<plan, emitted, runs>>

NextWall == NextOccurrence(rule, anchor, ToWall(zone, cursor), emitted + 1)
Raises   == status = "active" /\ AvailableAt(zone, quiet, cursor) # None /\ NextWall = Fails

\* The part of materialize_due that one due job takes: its run, with the moment
\* its delivery may start, and its cursor.
EmitRun ==
    LET avail == AvailableAt(zone, quiet, cursor) IN
    /\ status = "active"
    /\ DateOf(cursor) <= Horizon
    /\ ~Raises
    /\ runs' = runs \cup {[at |-> cursor, avail |-> avail]}
    /\ emitted' = emitted + 1
    /\ IF avail = None
       THEN cursor' = None /\ status' = "needs_review"
       ELSE MovesTo(NextWall)
    /\ UNCHANGED plan

ScheduleNext == ActivateJob \/ EmitRun

ScheduleSpec == ScheduleInit /\ [][ScheduleNext]_scheduleVars

-----------------------------------------------------------------------------
(* Properties *)

\* The dates after the anchor that a reader of the rule expects, by period
\* instead of by search: the k-th period and the days of it that belong.
Periods == 1..(Horizon + 1 + SearchMonths)
DatesOfRule ==
    LET start == DateOf(anchor)
        week  == start - WeekdayOf(start)
        month == MonthOf(start)
        days  == IF rule.weekdays = {} THEN {WeekdayOf(start)} ELSE rule.weekdays
        day   == IF rule.monthday = None THEN DayOfMonth(start) ELSE rule.monthday
    IN CASE rule.kind = "once" -> {}
         [] rule.kind = "daily" -> {start + k * rule.interval : k \in Periods}
         [] rule.kind = "weekly" ->
              {d \in {week + WeekLength * rule.interval * k + w :
                          k \in {0} \cup Periods, w \in days} : d > start}
         [] rule.kind = "monthly" ->
              {DateIn(m, day) : m \in {n \in {month + k * rule.interval : k \in Periods} :
                                           HasDay(n, day)}}

\* Occurrences keep the clock time of the anchor, and until cuts them off.
WallsOfRule ==
    {w \in {anchor} \cup {Combine(d, ClockOf(anchor)) : d \in DatesOfRule} :
        rule.until = None \/ w <= rule.until}

\* A rule speaks of wall times: over changes of the offset, months without the
\* day, weeks left out and cursors restored from UTC, the runs and the cursor are
\* the first occurrences of the rule, none twice and none left out, and the job
\* is completed exactly when the count or the last date is reached.
EmitsTheRule ==
    LET walls == {ToWall(zone, r.at) : r \in runs}
                   \cup IF cursor = None THEN {} ELSE {ToWall(zone, cursor)}
    IN  /\ Cardinality(runs) = emitted
        /\ walls \subseteq WallsOfRule
        /\ \A w \in WallsOfRule : (\E v \in walls : w < v) => w \in walls
        /\ rule.count # None => Cardinality(walls) <= rule.count
        /\ status = "completed" =>
              walls = WallsOfRule \/ Cardinality(walls) = rule.count

\* Nothing is available before its time or in quiet hours, also on the days on
\* which the clocks change and with a window that goes over midnight.
AvailableOutsideQuiet ==
    \A r \in runs : r.avail # None =>
        /\ r.avail >= r.at
        /\ quiet # None => ~Covers(quiet, ClockOf(ToWall(zone, r.avail)))

\* The bounds of the searches are wide enough: a job gets stuck only when no
\* month its rule reaches has the day, never in a week.
SearchFinds ==
    Raises => /\ rule.kind = "monthly"
              /\ \A k \in 1..Len(MonthLengths) :
                    ~HasDay(MonthOf(DateOf(anchor)) + k * rule.interval,
                            IF rule.monthday = None THEN DayOfMonth(DateOf(anchor))
                            ELSE rule.monthday)
=============================================================================

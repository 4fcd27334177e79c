----------------------------- MODULE ScheduleSpec -----------------------------
(***************************************************************************)
(* When a recurring workflow is due: intervals and cron expressions over   *)
(* UTC time in minutes.  A part of a cron field is a record: base is the   *)
(* written range, <<>> for "*", step is 0 when none is written.  The       *)
(* calendar is a parameter, so that leap days and the bound of the scan    *)
(* can be met within a few days.                                           *)
(***************************************************************************)
EXTENDS Integers, Sequences, SequencesExt, FiniteSetsExt

CONSTANTS
    MinutesPerHour, HoursPerDay, DaysPerWeek,
    MonthLengths,       \* the days of each month of a common year
    LeapMonth,          \* the month a leap year makes longer by a day
    LeapEvery,          \* one year in so many is a leap year
    MAX_SCAN_MINUTES    \* the length of a leap year

ASSUME ScanAssumption == MAX_SCAN_MINUTES \in Nat

MinutesPerDay == MinutesPerHour * HoursPerDay
Never == -1
Throws == -2

--------------------------------------------------------------------------------
(* The calendar *)

daysOfYear(leap) ==
    FlattenSeq([m \in DOMAIN MonthLengths |->
        [d \in 1..(MonthLengths[m] + IF leap /\ m = LeapMonth THEN 1 ELSE 0) |-> <<m, d>>]])

calendar == FlattenSeq([y \in 1..LeapEvery |-> daysOfYear(y = LeapEvery)])

day(t) == t \div MinutesPerDay
getUTCMinutes(t) == t % MinutesPerHour
getUTCHours(t) == (t \div MinutesPerHour) % HoursPerDay
getUTCMonth(t) == calendar[(day(t) % Len(calendar)) + 1][1]
getUTCDate(t) == calendar[(day(t) % Len(calendar)) + 1][2]
getUTCDay(t) == day(t) % DaysPerWeek

--------------------------------------------------------------------------------
(* Parsing: what is out of range is an error, 7 is Sunday as 0 is *)

partBounds(part, min, max) ==
    CASE part.base = <<>>      -> <<min, max>>
      [] Len(part.base) = 2    -> part.base
      [] OTHER                 -> <<part.base[1], IF part.step > 0 THEN max ELSE part.base[1]>>

partValid(part, min, max) ==
    LET b == partBounds(part, min, max) IN min <= b[1] /\ b[2] <= max /\ b[1] <= b[2]

partValues(part, min, max) ==
    LET b == partBounds(part, min, max)
        step == IF part.step > 0 THEN part.step ELSE 1
    IN  {v \in b[1]..b[2] : (v - b[1]) % step = 0}

star == <<[base |-> <<>>, step |-> 0]>>

\* "*" alone leaves the field free; "*/1" restricts it to all its values.
parseCronField(parts, min, max) ==
    [free |-> parts = star,
     values |-> UNION {partValues(parts[i], min, max) : i \in DOMAIN parts}]

parseScheduleSpec(source) ==
    IF source.kind = "interval" THEN source
    ELSE LET days == parseCronField(source.dayOfWeek, 0, DaysPerWeek) IN
         [kind       |-> "cron",
          minute     |-> parseCronField(source.minute, 0, MinutesPerHour - 1),
          hour       |-> parseCronField(source.hour, 0, HoursPerDay - 1),
          dayOfMonth |-> parseCronField(source.dayOfMonth, 1, Max(Range(MonthLengths)) + 1),
          month      |-> parseCronField(source.month, 1, Len(MonthLengths)),
          dayOfWeek  |-> [days EXCEPT !.values = {v % DaysPerWeek : v \in @}]]

Parses(source) ==
    IF source.kind = "interval" THEN source.everyMs > 0
    ELSE LET ok(parts, min, max) == \A i \in DOMAIN parts : partValid(parts[i], min, max)
         IN  /\ ok(source.minute, 0, MinutesPerHour - 1)
             /\ ok(source.hour, 0, HoursPerDay - 1)
             /\ ok(source.dayOfMonth, 1, Max(Range(MonthLengths)) + 1)
             /\ ok(source.month, 1, Len(MonthLengths))
             /\ ok(source.dayOfWeek, 0, DaysPerWeek)

--------------------------------------------------------------------------------
(* Matching and due slots *)

fieldMatches(field, value) == field.free \/ value \in field.values

\* When both day fields are restricted either may match.
cronMatches(spec, t) ==
    LET dom == fieldMatches(spec.dayOfMonth, getUTCDate(t))
        dow == fieldMatches(spec.dayOfWeek, getUTCDay(t))
    IN  /\ fieldMatches(spec.minute, getUTCMinutes(t))
        /\ fieldMatches(spec.hour, getUTCHours(t))
        /\ fieldMatches(spec.month, getUTCMonth(t))
        /\ IF ~spec.dayOfMonth.free /\ ~spec.dayOfWeek.free THEN dom \/ dow ELSE dom /\ dow

\* The first firing time strictly after `after`; the scan is bounded.
nextFireTime(spec, after) ==
    IF spec.kind = "interval" THEN after + spec.everyMs
    ELSE LET slots == {t \in (after + 1)..(after + MAX_SCAN_MINUTES) : cronMatches(spec, t)}
         IN  IF slots = {} THEN Throws ELSE Min(slots)

\* The latest slot in (base, now]. The scan for a cron expression ends with the
\* first slot after now, so that it throws when there is none within the bound.
latestDueAtOrBefore(spec, base, now) ==
    IF spec.kind = "interval"
    THEN IF now - base < spec.everyMs THEN Never
         ELSE base + ((now - base) \div spec.everyMs) * spec.everyMs
    ELSE LET floor == now - MAX_SCAN_MINUTES
             cursor == IF base < floor THEN floor ELSE base
             slots == {t \in (cursor + 1)..now : cronMatches(spec, t)}
             due == IF slots = {} THEN Never ELSE Max(slots)
         IN  IF nextFireTime(spec, IF slots = {} THEN cursor ELSE due) = Throws THEN Throws
             ELSE due
===============================================================================

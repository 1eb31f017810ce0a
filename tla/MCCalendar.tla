------------------------------ MODULE MCCalendar ------------------------------
(***************************************************************************)
(* What the functions on dates, times and intervals mean.  A part divides  *)
(* the days into periods, each of which has a first day: adding, taking    *)
(* the difference, truncating, the last day and the parts of a date are    *)
(* all stated by these days.                                               *)
(***************************************************************************)
EXTENDS MCTexts

Horizon == Day(2021, 1, 1)..Day(2026, 3, 1)
DayPeriods == {"DAY", "ISOWEEK", "MONTH", "QUARTER", "YEAR", "ISOYEAR"} \union WeekParts

FirstOf(part, n) ==
  CASE part = "DAY" -> TRUE
    [] part \in WeekParts -> n % 7 = (WeekPartToOffset[part] + 6) % 7      \* day 0 is a Monday
    [] part = "ISOWEEK" -> n % 7 = 0
    [] part = "MONTH" -> DayOfMonth(n) = 1
    [] part = "QUARTER" -> DayOfMonth(n) = 1 /\ Month(n) \in {1, 4, 7, 10}
    [] part = "YEAR" -> DayOfMonth(n) = 1 /\ Month(n) = 1
    \* The Monday of the week of January 4.
    [] part = "ISOYEAR" -> n % 7 = 0 /\ \E y \in 2021..2026 : Day(y, 1, 4) \in n..(n + 6)
Firsts == [part \in DayPeriods |-> {n \in Horizon : FirstOf(part, n)}]

Started(part, n) == Greatest({m \in Firsts[part] : m <= n})
Ended(part, n) == Least({m \in Firsts[part] : m > n}) - 1
\* The periods begun after m and not after n.
Begun(part, m, n) == Cardinality({k \in Firsts[part] : m < k /\ k <= n})
Crossed(part, m, n) == IF m <= n THEN Begun(part, m, n) ELSE -Begun(part, n, m)

EdgeDays == {Day(2022, 6, 15), Day(2023, 12, 31), Day(2024, 1, 1), Day(2024, 1, 31), Day(2024, 2, 29), Day(2024, 3, 1),
             Day(2024, 3, 31),              Day(2024, 6, 30), Day(2024, 12, 29), Day(2024, 12, 30), Day(2024, 12, 31), Day(2025, 1, 1), Day(2025, 2, 28),
             Day(2025, 4, 1)}
OneWeek == Day(2024, 5, 6)..Day(2024, 5, 12)
SomeDays == EdgeDays \union OneWeek
Moments == {At(Day(2024, 2, 29), 0, 0), At(Day(2024, 2, 29), 86399, 999999), At(Day(2024, 12, 31), 43200, 500000)}
DateAt(n) == DateV(Midnight(n))

PeriodExprs ==
  {One("period", "extract", <<DateAt(n), PartV(p)>>) :
     n \in SomeDays, p \in {"ISOYEAR", "YEAR", "MONTH", "ISOWEEK", "WEEK", "DAY", "DAYOFYEAR", "DAYOFWEEK", "QUARTER"}}
  \union {One("period", "date_trunc", <<DateAt(n), PartV(p)>>) : n \in SomeDays, p \in DayPeriods}
  \union {One("period", "last_day", <<DateAt(n), PartV(p)>>) : n \in SomeDays, p \in DayPeriods \ {"DAY"}}
  \union {One("period", "date_diff", <<DateAt(m), DateAt(n), PartV(p)>>) : m, n \in SomeDays, p \in DayPeriods}

PartMeaning(part, n) ==
  LET since(p, q) == Begun(q, Started(p, n), n)
  IN  CASE part \in {"YEAR", "ISOYEAR"} -> 2024 + Crossed(part, Day(2024, 6, 1), n)
        [] part = "MONTH" -> 1 + since("YEAR", "MONTH")
        [] part = "QUARTER" -> 1 + since("YEAR", "QUARTER")
        [] part = "DAYOFYEAR" -> 1 + since("YEAR", "DAY")
        [] part = "DAY" -> 1 + since("MONTH", "DAY")
        [] part = "DAYOFWEEK" -> 1 + since("WEEK", "DAY")
        [] part = "ISOWEEK" -> 1 + since("ISOYEAR", "ISOWEEK")
        [] part = "WEEK" -> Cardinality({m \in Firsts["WEEK"] : Started("YEAR", n) <= m /\ m <= n})

\* Where the code sees other periods: QUARTER is no part for two functions and a fourth of 364 days
\* for EXTRACT; the ISO parts are those of the calendar or off; weeks that begin later in the week
\* than the day end a week late; and EXTRACT WEEK is the ISO week of the Sunday.
PeriodDeviates(f, part, n) ==
  CASE f = "extract" -> \/ part = "QUARTER" /\ ~IsLeap(Year(n))
                        \/ part = "WEEK" /\ (Weekday(Started("YEAR", n)) \notin 1..4 \/ PartMeaning("WEEK", n) = 0)
    [] f = "date_diff" -> part \in {"ISOWEEK", "QUARTER"}
    [] f = "date_trunc" -> \/ part = "ISOWEEK"
                           \/ part = "ISOYEAR" /\ Weekday(Day(ISOYear(n), 1, 1)) \in {5, 6}
    [] f = "last_day" -> \/ part \in {"ISOWEEK", "QUARTER", "ISOYEAR"}
                         \/ part \in WeekParts /\ Weekday(n) < WeekPartToOffset[part]

\* EXTRACT, DATE_TRUNC, LAST_DAY and DATE_DIFF see the same periods: the first and the last day of
\* the one a day is in, and how many begin between two days (function_date.go:26-250,
\* function.go:426-513).
PeriodsAgree ==
  Is("period") =>
    LET f == LastCall.f
        part == Num(Last(LastCall.args))
        n == Given(1)[2].day
    IN  \/ PeriodDeviates(f, part, n)
        \/ Answer = CASE f = "extract" -> IntV(PartMeaning(part, n))
                       [] f = "date_trunc" -> DateAt(Started(part, n))
                       [] f = "last_day" -> DateAt(Ended(part, n))
                       [] f = "date_diff" -> IntV(Crossed(part, Given(2)[2].day, n))

(***************************************************************************)
(* Adding                                                                  *)
(***************************************************************************)
AddedParts == {"DAY", "WEEK", "MONTH", "YEAR"}
Counts == {-13, -1, 0, 1, 11, 12, 25}
NearDays == {Day(2023, 12, 31), Day(2024, 1, 31), Day(2024, 2, 29), Day(2024, 12, 30), Day(2023, 3, 30)}
ClockTimes == {At(0, 0, 0), At(0, 3661, 500), At(0, 86399, 999999)}
Of(type, t) == CASE type = "date" -> DateV(t) [] type = "datetime" -> DatetimeV(t) [] type = "time" -> TimeV(t) [] type = "timestamp" -> TimestampV(t)
\* The function of the type: date_add and its like.
Fun(type, f) ==
  CASE type = "date" -> [add |-> "date_add", sub |-> "date_sub", diff |-> "date_diff", trunc |-> "date_trunc"][f]
    [] type = "datetime" -> [add |-> "datetime_add", sub |-> "datetime_sub", diff |-> "datetime_diff", trunc |-> "datetime_trunc"][f]
    [] type = "time" -> [add |-> "time_add", sub |-> "time_sub", diff |-> "time_diff", trunc |-> "time_trunc"][f]
    [] type = "timestamp" -> [add |-> "timestamp_add", sub |-> "timestamp_sub", diff |-> "timestamp_diff", trunc |-> "timestamp_trunc"][f]

\* Moved by n parts: the difference, and back again.
Move(type, v, n, p) ==
  About("moved", <<Plainly(Fun(type, "add"), <<v, IntV(n), PartV(p)>>), Plainly(Fun(type, "diff"), <<Hole, v, PartV(p)>>),
                   Plainly(Fun(type, "add"), <<v, IntV(n), PartV(p)>>), Plainly(Fun(type, "sub"), <<Hole, IntV(n), PartV(p)>>)>>)
AddExprs ==
  {Move("date", DateAt(d), n, p) : d \in NearDays, n \in Counts, p \in AddedParts}
  \union {Move("datetime", DatetimeV(t), n, p) : t \in Moments, n \in Counts, p \in AddedParts \union ClockParts}
  \union {Move("timestamp", TimestampV(t), n, p) : t \in Moments, n \in Counts, p \in {"DAY"} \union ClockParts}
  \union {Move("time", TimeV(t), n, p) : t \in ClockTimes, n \in Counts, p \in DOMAIN PartSeconds}
  \union {Move("time", TimeV(At(0, 3661, 500)), n, p) : n \in Counts, p \in ClockParts}

\* The same day so many months on, or the last of that month.
MonthsOn(n, months) ==
  LET first == Day(Year(n), Month(n) + months, 1)
      length == Day(Year(n), Month(n) + months + 1, 1) - first
  IN  first + Least({DayOfMonth(n), length}) - 1
DaysOn(n, k, part) ==
  CASE part = "DAY" -> n + k
    [] part = "WEEK" -> n + 7 * k
    [] part = "MONTH" -> MonthsOn(n, k)
    [] part = "YEAR" -> MonthsOn(n, 12 * k)

\* DATE_ADD and its like keep the time of day and the day of the month, or take the last of the
\* month (function_date.go:189-329); the difference of the sum is what was added, and taking it away
\* again leads back, unless the month was too short.
AddingMoves ==
  Is("moved") =>
    LET t == Given(1)[2]
        n == Num(Given(2))
        part == Num(Given(3))
        kind == Kind(Given(1))
        moved == answers[1][2]
    IN  IF part \in ClockParts
        THEN /\ answers[4] = Given(1)
             /\ kind = "time" \/ answers[2] = IntV(n)    \* TIME starts again after midnight
        ELSE /\ moved = [t EXCEPT !.day = DaysOn(t.day, n, part)]
             /\ answers[2] = IntV(n)
             /\ DayOfMonth(moved.day) = DayOfMonth(t.day) \/ part \in {"DAY", "WEEK"} => answers[4] = Given(1)

(***************************************************************************)
(* Times, zones and Unix times                                             *)
(***************************************************************************)
Zones == {-480, 0, 330, 845}
UnixTimes == {At(Day(1970, 1, 1), 0, 0), At(Day(1969, 12, 31), 86399, 0), At(Day(2024, 2, 29), 43201, 0)}
Round2(v, f, g) == About("returns", <<Plainly(f, <<v>>), Plainly(g, <<Hole>>)>>)
ZonedRound(v, f, g, z) == About("returns", <<Plainly(f, <<v, ZoneV(z)>>), Plainly(g, <<Hole, ZoneV(z)>>)>>)

TimeExprs ==
  {Round2(TimestampV(t), "unix_seconds", "timestamp_seconds") : t \in UnixTimes}
  \union {Round2(IntV(n), "timestamp_seconds", "unix_seconds") : n \in {-86401, -1, 0, 1, 1000}}
  \union {Round2(DateV(t), "unix_date", "date_from_unix_date") : t \in UnixTimes}
  \union {ZonedRound(DatetimeV(t), "timestamp", "datetime", z) : t \in Moments, z \in Zones}
  \union {ZonedRound(TimestampV(t), "datetime", "timestamp", z) : t \in Moments, z \in Zones}
  \union {ZonedRound(DateAt(n), "timestamp", "date", z) : n \in NearDays, z \in Zones}
  \union {About("returns", <<Plainly("add", <<DatetimeV(t), IntervalV(NoInterval)>>), Plainly("time", <<Hole>>),
                             Plainly("datetime", <<DateAt(t.day), Hole>>)>>) : t \in Moments}
  \union {One("clock", Fun(type, "trunc"), <<Of(type, t), PartV(p)>>) :
             type \in {"datetime", "time", "timestamp"}, t \in Moments, p \in ClockParts}
  \union {One("zoned", "timestamp_trunc", <<TimestampV(t), PartV(p), ZoneV(z)>>) :
             t \in Moments, p \in DayPeriods, z \in Zones}
  \union {One("zoned part", "extract", <<TimestampV(t), PartV(p), ZoneV(z)>>) :
             t \in Moments, p \in {"DATE", "DATETIME", "TIME", "DAY", "HOUR", "MINUTE", "SECOND", "MICROSECOND"}, z \in Zones}

\* The time of day in microseconds would not fit TLC's integers: in seconds, and what is below.
Floored(t, unit) == [t EXCEPT !.sec = @ - (@ % unit), !.us = 0]
Local(t, z) == At(t.day, t.sec + 60 * z, t.us)
ClockPart(t, p) ==
  CASE p = "HOUR" -> t.sec \div 3600
    [] p = "MINUTE" -> (t.sec \div 60) % 60
    [] p = "SECOND" -> t.sec % 60
    [] p = "MICROSECOND" -> t.us
    [] p = "DAY" -> PartMeaning("DAY", t.day)

\* A time that goes through another type, a zone or a Unix time and back is the same instant, also
\* before 1970; a clock is truncated down, and in a zone by the days of the zone
\* (function_timestamp.go, function_datetime.go, util.go:36-66).
TimesReturn ==
  /\ Is("returns") => Answer = Given(1)
  /\ Is("clock") =>
       LET t == Given(1)[2]
           p == Num(Given(2))
           unit == IF p \in DOMAIN PartSeconds THEN PartSeconds[p] ELSE 1
       IN  IF p = "MICROSECOND" THEN Answer = Given(1)
           ELSE \/ p \in {"MILLISECOND", "SECOND"}           \* truncated to the unit above
                \/ Answer[2] = Floored(t, unit)
  /\ Is("zoned") =>
       LET p == Num(Given(2))
           z == Num(Given(3))
           n == Local(Given(1)[2], z).day
       IN  PeriodDeviates("date_trunc", p, n) \/ Local(Answer[2], z) = Midnight(Started(p, n))
  /\ Is("zoned part") =>
       LET p == Num(Given(2))
           t == Local(Given(1)[2], Num(Given(3)))
       IN  Answer = CASE p = "DATE" -> DateAt(t.day) [] p = "DATETIME" -> DatetimeV(t) [] p = "TIME" -> TimeV(t)
                      [] OTHER -> IntV(ClockPart(t, p))

(***************************************************************************)
(* Intervals                                                               *)
(***************************************************************************)
IntervalPool ==
  {Interval(y[1], y[2], d, 5, m, s) : y \in {<<0, 11>>, <<-1, -11>>, <<1, 5>>}, d \in {0, 29, 31, -65}, m \in {0, 59, 60, -61}, s \in {3, 3599, -60}}
IntervalExprs ==
  {One("justified", f, <<IntervalV(iv)>>) : f \in {"justify_days", "justify_hours", "justify_interval"}, iv \in IntervalPool}
  \union {About("shifted", <<Plainly("add", <<v, IntervalV(iv)>>), Plainly("subtract", <<Hole, IntervalV(iv)>>),
                             Plainly("cast", <<Hole, TypeV(Type("datetime")), TypeV(Type(Kind(v))), BoolV(FALSE)>>)>>) :
             v \in {DatetimeV(t) : t \in Moments} \union {DateAt(n) : n \in NearDays},
             iv \in {Interval(0, 0, 3, 25, 61, 61), Interval(0, 0, -31, 0, 0, -1), Interval(1, 13, 0, 0, 0, 0)}}

DaysOf(iv) == 30 * (12 * iv.YEAR + iv.MONTH) + iv.DAY
SecondsOf(iv) == 3600 * iv.HOUR + 60 * iv.MINUTE + iv.SECOND

\* JUSTIFY_HOURS and JUSTIFY_DAYS carry what is beyond a day, a month or a year into the next part,
\* and the length stays the same (function_interval.go); an interval without months that is added
\* and taken away leads back.
IntervalsJustified ==
  /\ Is("justified") =>
       LET iv == Num(Given(1))
           got == Num(Answer)
           hours == LastCall.f \in {"justify_hours", "justify_interval"}
           days == LastCall.f \in {"justify_days", "justify_interval"}
           \* An hour of minutes below zero carries the hours instead.
           minutesBack == hours /\ 60 * iv.MINUTE + iv.SECOND <= -3600
       IN  /\ minutesBack \/ 86400 * DaysOf(got) + SecondsOf(got) = 86400 * DaysOf(iv) + SecondsOf(iv)
           /\ hours => Abs(got.SECOND) < 60 /\ Abs(got.MINUTE) < 60 /\ Abs(got.HOUR) < 24
           /\ days => Abs(got.DAY) < 30 /\ Abs(got.MONTH) < 12
           /\ ~hours => SecondsOf(got) = SecondsOf(iv)
           /\ ~days => 12 * got.YEAR + got.MONTH = 12 * iv.YEAR + iv.MONTH
  /\ Is("shifted") =>
       \/ Num(Given(2)).MONTH # 0 /\ DayOfMonth(Given(1)[2].day) > 28    \* into the month after
       \/ Answer = Given(1)

\* Adding a number of parts and adding an interval move a time by what was added, and an interval
\* keeps its length when it is justified (function_date.go:189-329, function_interval.go).
AddingMeans == AddingMoves /\ IntervalsJustified

=============================================================================

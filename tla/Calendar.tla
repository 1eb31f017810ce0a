------------------------------ MODULE Calendar ------------------------------
(***************************************************************************)
(* The functions on dates and times: function_date.go, function_datetime   *)
(* .go, function_time.go, function_timestamp.go, function_interval.go and  *)
(* EXTRACT of function.go.  An instant is a day (0 is 0001-01-01, a        *)
(* Monday), the second of the day and a microsecond.  DATE keeps its day   *)
(* only, TIME all but its day; the encoding of the results sees to it.     *)
(* A zone is its offset in minutes, the zone of the process is UTC.        *)
(***************************************************************************)
EXTENDS Cells

(***************************************************************************)
(* The time package of Go                                                  *)
(***************************************************************************)
YearStart(y) == 365 * (y - 1) + (y - 1) \div 4 - (y - 1) \div 100 + (y - 1) \div 400
IsLeap(y) == YearStart(y + 1) - YearStart(y) = 366
DaysBefore == <<0, 31, 59, 90, 120, 151, 181, 212, 243, 273, 304, 334>>

\* time.Date takes a month and a day out of their ranges.
CivilDay(y, m, d) ==
  LET year == y + (m - 1) \div 12
      month == 1 + ((m - 1) % 12)
  IN  YearStart(year) + DaysBefore[month] + (IF month > 2 /\ IsLeap(year) THEN 1 ELSE 0) + d - 1

Year(n) ==
  LET about == (400 * n) \div 146097 + 1
  IN  CHOOSE y \in (about - 1)..(about + 1) : YearStart(y) <= n /\ n < YearStart(y + 1)
Month(n) == CHOOSE m \in 1..12 : CivilDay(Year(n), m, 1) <= n /\ n < CivilDay(Year(n), m + 1, 1)
DayOfMonth(n) == n - CivilDay(Year(n), Month(n), 1) + 1
YearDay(n) == n - YearStart(Year(n)) + 1
Weekday(n) == (n + 1) % 7
ISOYear(n) == Year(n - (n % 7) + 3)
ISOWeekOf(n) == (YearDay(n - (n % 7) + 3) - 1) \div 7 + 1

At(n, s, us) ==
  LET sec == s + us \div 1000000 IN [day |-> n + sec \div 86400, sec |-> sec % 86400, us |-> us % 1000000]
Plus(t, s, us) == At(t.day, t.sec + s, t.us + us)
Midnight(n) == At(n, 0, 0)
NoInstant == [day |-> 0, sec |-> -1, us |-> 0]   \* what a part that a function does not know gives
AddDate(t, y, m, d) == [t EXCEPT !.day = CivilDay(Year(@) + y, Month(@) + m, DayOfMonth(@) + d)]
Hour(t) == t.sec \div 3600
Minute(t) == (t.sec % 3600) \div 60
Second(t) == t.sec % 60

\* Mutant: the parts of a second are not looked at.
Earlier_BySeconds(a, b) == a.day < b.day \/ (a.day = b.day /\ a.sec < b.sec)
Earlier(a, b) ==
  \/ a.day < b.day
  \/ a.day = b.day /\ (a.sec < b.sec \/ (a.sec = b.sec /\ a.us < b.us))

\* a.Sub(b), which a Duration of 64 bits bounds by 292 years.
Longest == At(106751, 85636, 854775)
Since(a, b) ==
  LET back == Earlier(a, b)
      long == IF back THEN At(b.day - a.day, b.sec - a.sec, b.us - a.us)
                      ELSE At(a.day - b.day, a.sec - b.sec, a.us - b.us)
  IN  [sign |-> IF back THEN -1 ELSE 1, long |-> IF Earlier(Longest, long) THEN Longest ELSE long]

PartSeconds == [SECOND |-> 1, MINUTE |-> 60, HOUR |-> 3600]
ClockParts == {"MICROSECOND", "MILLISECOND"} \union DOMAIN PartSeconds

Units(t, part) ==
  CASE part = "MICROSECOND" -> (t.day * 86400 + t.sec) * 1000000 + t.us
    [] part = "MILLISECOND" -> (t.day * 86400 + t.sec) * 1000 + t.us \div 1000
    [] part \in DOMAIN PartSeconds -> t.day * (86400 \div PartSeconds[part]) + t.sec \div PartSeconds[part]

(***************************************************************************)
(* Zones: toLocation and modifyTimeZone                                    *)
(***************************************************************************)
\* "-08:30" is eight hours back and then 30 minutes forth.
ZoneOffset(hours, minutes) == 60 * hours + minutes
In(t, zone) == Plus(t, 60 * zone, 0)
ModifyTimeZone(t, zone) == Plus(t, -60 * zone, 0)

(***************************************************************************)
(* Adding and subtracting                                                  *)
(***************************************************************************)
FirstOfMonth(t) == [AddDate(t, 0, 0, 1 - DayOfMonth(t.day)) EXCEPT !.sec = 0, !.us = 0]
SameDay(target, day) == CivilDay(Year(target), Month(target), day)
ClampAdd(t, y, m) ==
  LET first == FirstOfMonth(t)
      Fits(target) == Month(SameDay(target, DayOfMonth(t.day))) = Month(target)
  IN  IF Fits(AddDate(first, y, m, 0).day) THEN AddDate(t, y, m, 0) ELSE AddDate(first, y, m + 1, -1)

\* Mutant: the day of the month overflows into the next month.
AddMonth_NoClamp(t, m) == AddDate(t, 0, m, 0)
AddMonth(t, m) == ClampAdd(t, 0, m)
AddYear(t, y) == ClampAdd(t, y, 0)

DateAdd(t, v, part) ==
  CASE part = "DAY" -> AddDate(t, 0, 0, v)
    [] part = "WEEK" -> AddDate(t, 0, 0, 7 * v)
    [] part \in {"MONTH", "QUARTER"} -> AddMonth(t, IF part = "MONTH" THEN v ELSE 3)
    [] part = "YEAR" -> AddYear(t, v)
    [] OTHER -> NoInstant

DateSub(t, v, part) == IF part = "QUARTER" THEN NoInstant ELSE DateAdd(t, -v, part)

\* t.Add of v times the unit.
ClockAdd(t, v, part) ==
  CASE part = "MICROSECOND" -> Plus(t, 0, v)
    [] part = "MILLISECOND" -> Plus(t, 0, 1000 * v)
    [] part \in DOMAIN PartSeconds -> Plus(t, v * PartSeconds[part], 0)
    [] OTHER -> NoInstant

\* The date is computed by DATE_ADD, and the time of day put back.
WithTimeOf(t, date) == IF date = NoInstant THEN NoInstant ELSE [t EXCEPT !.day = date.day]
DatetimeAdd(t, v, part) ==
  IF part \in ClockParts THEN ClockAdd(t, v, part) ELSE WithTimeOf(t, DateAdd(t, v, part))
DatetimeSub(t, v, part) ==
  IF part \in ClockParts THEN ClockAdd(t, -v, part) ELSE WithTimeOf(t, DateSub(t, v, part))
TimestampAdd(t, v, part) == IF part = "DAY" THEN AddDate(t, 0, 0, v) ELSE ClockAdd(t, v, part)

(***************************************************************************)
(* Differences                                                             *)
(***************************************************************************)
WeekPartToOffset ==
  [WEEK |-> 0, WEEK_MONDAY |-> 1, WEEK_TUESDAY |-> 2, WEEK_WEDNESDAY |-> 3,
   WEEK_THURSDAY |-> 4, WEEK_FRIDAY |-> 5, WEEK_SATURDAY |-> 6]
WeekParts == DOMAIN WeekPartToOffset

\* Mutant: the weekdays are counted from the start itself.
WeekDiff_FromStart(a, b, part) ==
  LET back == a.day < b.day \/ (a.day = b.day /\ a.sec < b.sec)
      start == IF back THEN a ELSE b
      end == IF back THEN b ELSE a
      days == end.day - start.day - (IF end.sec < start.sec THEN 1 ELSE 0)
      extra == {r \in 0..((days % 7) - 1) : (Weekday(start.day) + r) % 7 = WeekPartToOffset[part]}
  IN  (IF back THEN -1 ELSE 1) * (days \div 7 + Cardinality(extra))

\* Whole days by the Unix seconds; the days left over are counted by their weekday.
WeekDiff(a, b, part) ==
  LET back == a.day < b.day \/ (a.day = b.day /\ a.sec < b.sec)
      start == IF back THEN a ELSE b
      end == IF back THEN b ELSE a
      days == end.day - start.day - (IF end.sec < start.sec THEN 1 ELSE 0)
      extra == {r \in 1..(days % 7) : (Weekday(start.day) + r) % 7 = WeekPartToOffset[part]}
  IN  (IF back THEN -1 ELSE 1) * (days \div 7 + Cardinality(extra))

DiffDay(a, b) ==
  LET diff == Since(a, b)
      whole == Since(Midnight(a.day), b)
  IN  IF diff.long.day = 0 THEN (IF DayOfMonth(a.day) = DayOfMonth(b.day) THEN 0 ELSE 1)
      ELSE whole.long.day + (IF whole.long.sec + whole.long.us > 0 THEN 1 ELSE 0)

DateDiff(a, b, part) ==
  CASE part \in WeekParts -> IntV(WeekDiff(a, b, part))
    [] part = "DAY" -> IntV(IF Earlier(b, a) THEN DiffDay(a, b) ELSE -DiffDay(b, a))
    [] part = "ISOWEEK" -> IntV((Year(a.day) - Year(b.day)) * 48 + ISOWeekOf(a.day) - ISOWeekOf(b.day))
    [] part = "MONTH" -> IntV(12 * (Year(a.day) - Year(b.day)) + Month(a.day) - Month(b.day))
    [] part = "YEAR" -> IntV(Year(a.day) - Year(b.day))
    [] part = "ISOYEAR" -> IntV(ISOYear(a.day) - ISOYear(b.day))
    [] OTHER -> Error

\* a.Sub(b) divided by the unit.
ClockDiff(a, b, part) ==
  LET d == Since(a, b) IN IF part \in ClockParts THEN IntV(d.sign * Units(d.long, part)) ELSE Error
DatetimeDiff(a, b, part) == IF part \in ClockParts THEN ClockDiff(a, b, part) ELSE DateDiff(a, b, part)

(***************************************************************************)
(* Truncating and the last day                                             *)
(***************************************************************************)
QuarterStart(n) == CivilDay(Year(n), 3 * ((Month(n) - 1) \div 3) + 1, 1)

\* The week parts walk back day by day and keep the time of day.
DateTrunc(t, part) ==
  LET n == t.day
      jan1 == CivilDay(ISOYear(n), 1, 1)
  IN  CASE part \in WeekParts -> [t EXCEPT !.day = n - ((Weekday(n) - WeekPartToOffset[part]) % 7)]
        [] part = "DAY" -> Midnight(n)
        [] part = "ISOWEEK" -> Midnight(CivilDay(ISOYear(n), 0, 7 * ISOWeekOf(n)))
        [] part = "MONTH" -> Midnight(CivilDay(Year(n), Month(n), 1))
        [] part = "QUARTER" -> Midnight(QuarterStart(n))
        [] part = "YEAR" -> Midnight(CivilDay(Year(n), 1, 1))
        [] part = "ISOYEAR" -> Midnight(jan1 + 1 - Weekday(jan1))
        [] OTHER -> NoInstant

\* MILLISECOND drops all below the second, SECOND all below the minute.
ClockTrunc(t, part) ==
  CASE part = "MICROSECOND" -> t
    [] part = "MILLISECOND" -> At(t.day, t.sec, 0)
    [] part \in {"SECOND", "MINUTE"} -> At(t.day, t.sec - (t.sec % 60), 0)
    [] part = "HOUR" -> At(t.day, t.sec - (t.sec % 3600), 0)
    [] OTHER -> NoInstant

DatetimeTrunc(t, part) == IF part \in ClockParts THEN ClockTrunc(t, part) ELSE DateTrunc(t, part)

TimestampTrunc(t, part, zone) ==
  LET date == DateTrunc(In(t, zone), part)
  IN  IF part \in ClockParts THEN ModifyTimeZone(ClockTrunc(In(t, zone), part), zone)
      ELSE IF date = NoInstant THEN NoInstant
      ELSE ModifyTimeZone(Midnight(date.day), zone)

LastDay(t, part) ==
  LET n == t.day
  IN  CASE part \in {"YEAR", "ISOYEAR"} -> Midnight(CivilDay(Year(n) + 1, 1, 0))
        [] part = "MONTH" -> AddDate(t, 0, 1, -DayOfMonth(n))
        [] part \in WeekParts -> AddDate(t, 0, 0, 6 + WeekPartToOffset[part] - Weekday(n))
        [] part = "ISOWEEK" -> AddDate(t, 0, 0, 6 - Weekday(n))
        [] OTHER -> NoInstant

(***************************************************************************)
(* Parts and constructors                                                  *)
(***************************************************************************)
QuarterOf(n) == IF YearDay(n) <= 91 THEN 1 ELSE IF YearDay(n) <= 182 THEN 2 ELSE IF YearDay(n) <= 273 THEN 3 ELSE 4

ExtractPart(t, part) ==
  LET n == t.day
  IN  CASE part = "ISOYEAR" -> ISOYear(n)
        [] part = "YEAR" -> Year(n)
        [] part = "MONTH" -> Month(n)
        [] part = "ISOWEEK" -> ISOWeekOf(n)
        [] part = "WEEK" -> ISOWeekOf(n - Weekday(n))
        [] part = "DAY" -> DayOfMonth(n)
        [] part = "DAYOFYEAR" -> YearDay(n)
        [] part = "DAYOFWEEK" -> Weekday(n) + 1
        [] part = "QUARTER" -> QuarterOf(n)
        [] part = "HOUR" -> Hour(t)
        [] part = "MINUTE" -> Minute(t)
        [] part = "SECOND" -> Second(t)
        [] part = "MILLISECOND" -> t.us \div 1000
        [] part = "MICROSECOND" -> t.us

\* The encoding of a result (value.go, ToString of each kind).
DateV(t) == IF t = NoInstant THEN Error ELSE Result("date", Midnight(t.day))
DatetimeV(t) == IF t = NoInstant THEN Error ELSE Result("datetime", t)
TimeV(t) == IF t = NoInstant THEN Error ELSE Result("time", [t EXCEPT !.day = 0])
TimestampV(t) == IF t = NoInstant THEN Error ELSE Result("timestamp", t)

\* A zone counts for TIMESTAMP only.
Extract(v, part, zone) ==
  LET t == IF Kind(v) = "timestamp" THEN In(v[2], zone) ELSE v[2]
  IN  IF Kind(v) = "interval" THEN IF part \in DOMAIN v[2] THEN IntV(v[2][part]) ELSE Error
      ELSE IF Kind(v) \notin {"date", "datetime", "time", "timestamp"} THEN Error
      ELSE CASE part = "DATE" -> DateV(t)
             [] part = "DATETIME" -> DatetimeV(t)
             [] part = "TIME" -> TimeV(t)
             [] OTHER -> IntV(ExtractPart(t, part))

\* DATE(y, m, d), DATE(t), DATE(t, zone)
DateOf(args) ==
  CASE Len(args) = 3 -> DateV(Midnight(CivilDay(Num(args[1]), Num(args[2]), Num(args[3]))))
    [] Len(args) = 2 -> DateV(In(args[1][2], args[2][2]))
    [] OTHER -> DateV(args[1][2])

\* DATETIME(y, m, d, h, m, s), DATETIME(date), DATETIME(date, time), DATETIME(timestamp, zone)
DatetimeOf(args) ==
  CASE Len(args) = 6 -> DatetimeV(At(CivilDay(Num(args[1]), Num(args[2]), Num(args[3])),
                                     3600 * Num(args[4]) + 60 * Num(args[5]) + Num(args[6]), 0))
    [] Kind(args[1]) = "date" -> DatetimeV(IF Len(args) = 1 THEN args[1][2]
                                           ELSE [args[2][2] EXCEPT !.day = args[1][2].day])
    [] Kind(args[1]) = "timestamp" -> DatetimeV(IF Len(args) = 1 THEN args[1][2] ELSE In(args[1][2], args[2][2]))
    [] OTHER -> Error

\* TIME(h, m, s), TIME(datetime), TIME(timestamp, zone)
TimeOf(args) ==
  CASE Len(args) = 3 -> TimeV(At(0, 3600 * Num(args[1]) + 60 * Num(args[2]) + Num(args[3]), 0))
    [] Kind(args[1]) = "timestamp" -> TimeV(IF Len(args) = 2 THEN In(args[1][2], args[2][2]) ELSE args[1][2])
    [] Kind(args[1]) = "datetime" -> TimeV(args[1][2])
    [] OTHER -> Error

TimestampOf(v, zone) ==
  IF Kind(v) \in {"date", "datetime"} THEN TimestampV(ModifyTimeZone(v[2], zone)) ELSE Error

Epoch == 719162
UnixDate(t) == t.day - Epoch
\* Mutant: the seconds of the day are left out.
UnixSeconds_Midnight(t) == (t.day - Epoch) * 86400
UnixSeconds(t) == (t.day - Epoch) * 86400 + t.sec
FromUnix(s, us) == At(Epoch, s, us)

(***************************************************************************)
(* Intervals                                                               *)
(***************************************************************************)
Interval(y, mo, d, h, mi, s) ==
  [YEAR |-> y, MONTH |-> mo, DAY |-> d, HOUR |-> h, MINUTE |-> mi, SECOND |-> s]
NoInterval == Interval(0, 0, 0, 0, 0, 0)
IntervalV(iv) == Result("interval", iv)

IntervalOf(n, part) == IF part \in DOMAIN NoInterval THEN IntervalV([NoInterval EXCEPT ![part] = n]) ELSE Error

\* Carry the units of one part beyond its limit into the next, as it says in by.
Carry(iv, part, next, unit, by) ==
  IF Abs(iv[part]) < unit THEN iv
  ELSE [iv EXCEPT ![next] = @ + Quotient(by, unit), ![part] = Remainder(@, unit)]

\* A negative number of minutes carries the hours instead of the minutes.
JustifyHours(iv) ==
  LET m == Carry(iv, "SECOND", "MINUTE", 60, iv.SECOND)
      h == Carry(m, "MINUTE", "HOUR", 60, IF m.MINUTE < 0 THEN m.HOUR ELSE m.MINUTE)
  IN  Carry(h, "HOUR", "DAY", 24, h.HOUR)

\* One year is carried at most.
JustifyDays(iv) ==
  LET m == Carry(iv, "DAY", "MONTH", 30, iv.DAY)
  IN  CASE m.MONTH > 11 -> [m EXCEPT !.MONTH = @ - 12, !.YEAR = @ + 1]
        [] m.MONTH < -11 -> [m EXCEPT !.MONTH = @ + 12, !.YEAR = @ - 1]
        [] OTHER -> m

\* Add of DATE, DATETIME and TIMESTAMP: time.Date of the sums.
AddInterval(t, iv, sign) ==
  At(CivilDay(Year(t.day) + sign * iv.YEAR, Month(t.day) + sign * iv.MONTH, DayOfMonth(t.day) + sign * iv.DAY),
     t.sec + sign * (3600 * iv.HOUR + 60 * iv.MINUTE + iv.SECOND), t.us)

\* The sum of a date and an interval is a DATETIME, of a date and an integer a DATE.
TimePlus(v, w, sign) ==
  CASE Kind(w) = "interval" -> Result(IF Kind(v) = "date" THEN "datetime" ELSE Kind(v), AddInterval(v[2], w[2], sign))
    [] Kind(v) = "date" /\ Kind(w) = "int" -> DateV(AddDate(v[2], 0, 0, sign * Num(w)))
    [] sign = -1 /\ Kind(v) = "date" /\ Kind(w) = "date" ->
         LET d == Since(v[2], w[2]) IN IntervalV([NoInterval EXCEPT !.DAY = d.sign * d.long.day])
    [] sign = -1 /\ Kind(w) \in {"datetime", "timestamp"} ->
         LET d == Since(v[2], w[2])
         IN  IntervalV(Interval(0, 0, 0, d.sign * (24 * d.long.day + Hour(d.long)),
                                d.sign * Minute(d.long), d.sign * Second(d.long)))
    [] OTHER -> Error

=============================================================================

----------------------------- MODULE TimeRange -----------------------------
(***************************************************************************)
(* TimeRange.cpp: is a time within the hours of a session, and are two     *)
(* times within the same occurrence of them.  A time is a number of units  *)
(* since a Sunday 00:00, DayLength to the day.  A range without days has   *)
(* startDay = endDay = -1; Sunday is day 1.                                *)
(***************************************************************************)
EXTENDS Integers

CONSTANT DayLength   \* DateTime::SECONDS_PER_DAY

ASSUME TimeRangeAssumption == DayLength \in Nat \ {0}

timeOnly(t) == t % DayLength
getJulianDate(t) == t \div DayLength
getWeekDay(t) == (getJulianDate(t) % 7) + 1

(* The constructor: hours within one and the same day of the week would    *)
(* leave a session of less than a day; they mean the whole week.           *)
TimeRange(start, end, startDay, endDay) ==
    [start |-> start, startDay |-> startDay, endDay |-> endDay,
     end |-> IF startDay > 0 /\ startDay = endDay /\ end > start THEN start ELSE end]

Daily(r) == r.startDay < 0 /\ r.endDay < 0

(* SessionFactory: times of a day, and both days of the week or neither.   *)
Configured(r) ==
    \E s, e \in 0 .. DayLength - 1 :
        \/ r = TimeRange(s, e, -1, -1)
        \/ \E d, f \in 1 .. 7 : r = TimeRange(s, e, d, f)

-----------------------------------------------------------------------------
isInHours(r, time) ==
    IF r.start < r.end THEN r.start <= time /\ time <= r.end
    ELSE r.start <= time \/ time <= r.end

isInDays(r, time, day) ==
    IF r.startDay = r.endDay THEN day # r.startDay \/ isInHours(r, time)
    ELSE /\ IF r.startDay < r.endDay THEN r.startDay <= day /\ day <= r.endDay
            ELSE r.startDay <= day \/ day <= r.endDay
         /\ day = r.startDay => time >= r.start
         /\ day = r.endDay => time <= r.end

isInRangeAt(r, time, day) == IF Daily(r) THEN isInHours(r, time) ELSE isInDays(r, time, day)

isInRange(r, t) == isInRangeAt(r, timeOnly(t), getWeekDay(t))

-----------------------------------------------------------------------------
(* Seeded error: the start itself is taken for the week before.            *)
rangeStartAfter(r, t) ==
    LET sameWeek == getJulianDate(t) - getWeekDay(t) + r.startDay
    IN  IF getWeekDay(t) > r.startDay \/ (getWeekDay(t) = r.startDay /\ timeOnly(t) > r.start)
        THEN sameWeek ELSE sameWeek - 7

(* The date of the last start of a range with days.                        *)
getRangeStartDate(r, t) ==
    LET sameWeek == getJulianDate(t) - getWeekDay(t) + r.startDay
    IN  IF getWeekDay(t) > r.startDay \/ (getWeekDay(t) = r.startDay /\ timeOnly(t) >= r.start)
        THEN sameWeek ELSE sameWeek - 7

(* Seeded error: the length of the session counts from the earlier time,   *)
(* not from the session's start.                                           *)
sameNightFromTime(r, time1, time2) ==
    LET sessionLength == DayLength - (r.start - r.end)
    IN  IF time1 > time2 THEN time1 - time2 < sessionLength
        ELSE time2 - time1 < sessionLength

(* Hours over midnight.                                                    *)
isInSameNight(r, time1, time2) ==
    LET sessionLength == DayLength - (r.start - r.end)
        delta == (timeOnly(time2) - r.start) % DayLength
    IN  IF time1 > time2 THEN time1 - time2 < sessionLength - delta
        ELSE time2 - time1 < sessionLength

isInSameHours(r, time1, time2) ==
    \/ time1 = time2
    \/ IF r.start <= r.end THEN getJulianDate(time1) = getJulianDate(time2)
       ELSE isInSameNight(r, time1, time2)

(* A session of a week that starts and ends on the same day.               *)
isInSameWeek(r, time1, time2) ==
    LET day1 == getJulianDate(time1)
        day2 == getJulianDate(time2)
        apart == IF day1 < day2 THEN day2 - day1 ELSE day1 - day2
        earlier == IF day1 < day2 THEN time1 ELSE time2
        later == IF day1 < day2 THEN time2 ELSE time1
    IN  CASE apart = 0 /\ getWeekDay(time1) = r.startDay ->
                \/ timeOnly(time1) <= r.end /\ timeOnly(time2) <= r.end
                \/ timeOnly(time1) >= r.start /\ timeOnly(time2) >= r.start
          [] apart = 0 /\ getWeekDay(time1) # r.startDay -> TRUE
          [] apart > 7 -> FALSE
          [] apart = 7 -> /\ getWeekDay(time1) = r.startDay
                          /\ timeOnly(earlier) >= r.start /\ timeOnly(later) <= r.end
          [] OTHER -> getRangeStartDate(r, time1) = getRangeStartDate(r, time2)

isInSameRange(r, time1, time2) ==
    /\ isInRange(r, time1) /\ isInRange(r, time2)
    /\ IF Daily(r) THEN isInSameHours(r, time1, time2)
       ELSE IF r.startDay # r.endDay
       THEN getRangeStartDate(r, time1) = getRangeStartDate(r, time2)
       ELSE isInSameWeek(r, time1, time2)
=============================================================================

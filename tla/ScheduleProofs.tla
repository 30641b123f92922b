--------------------------- MODULE ScheduleProofs ---------------------------
(***************************************************************************)
(* Proofs about the session's hours, for every length of the day and every *)
(* configuration of the hours; what they say of daily hours that begin and *)
(* end at one time other than midnight is about calendar days.             *)
(***************************************************************************)
EXTENDS Schedule, TLAPS

-----------------------------------------------------------------------------
(* Arithmetic                                                              *)

(* Multiples of the day are at least a day apart.                          *)
LEMMA DaysApart ==
    ASSUME NEW D \in Nat \ {0}, NEW a \in Int, NEW b \in Int, a < b
    PROVE  D * a + D <= D * b
  <1>1. D * (b - a - 1) >= 0
    OBVIOUS
  <1>2. D * (b - a - 1) = D * b - D * a - D
    OBVIOUS
  <1> QED BY <1>1, <1>2

(* What a remainder is.                                                    *)
LEMMA Remainder ==
    ASSUME NEW P \in Nat \ {0}, NEW x \in Int
    PROVE  /\ x \div P \in Int /\ x % P \in 0 .. P - 1
           /\ x = P * (x \div P) + (x % P)
  <1>1. x \div P \in Int
    OBVIOUS
  <1>2. x % P \in 0 .. P - 1
    OBVIOUS
  <1>3. x = P * (x \div P) + (x % P)
    OBVIOUS
  <1> QED BY <1>1, <1>2, <1>3

(* A remainder is determined by its range.                                 *)
LEMMA RemainderUnique ==
    ASSUME NEW P \in Nat \ {0}, NEW q \in Int, NEW m \in 0 .. P - 1
    PROVE  (P * q + m) % P = m
  <1> DEFINE x == P * q + m
             p == x \div P
             n == x % P
  <1>1. x \in Int
    OBVIOUS
  <1>2. p \in Int /\ n \in 0 .. P - 1 /\ x = P * p + n
    BY <1>1, Remainder
  <1> HIDE DEF p, n
  <1>3. CASE p < q
    BY <1>2, <1>3, DaysApart
  <1>4. CASE q < p
    BY <1>2, <1>4, DaysApart
  <1>5. CASE p = q
    BY <1>2, <1>5 DEF n
  <1> QED BY <1>2, <1>3, <1>4, <1>5

(* Less than the divisor is its own remainder.                             *)
LEMMA SmallRemainder ==
    ASSUME NEW P \in Nat \ {0}, NEW m \in 0 .. P - 1
    PROVE  m % P = m
  OBVIOUS

(* A time is its date and its time of day.                                 *)
LEMMA DateAndTime ==
    ASSUME NEW t \in Int
    PROVE  /\ getJulianDate(t) \in Int /\ timeOnly(t) \in 0 .. DayLength - 1
           /\ t = DayLength * getJulianDate(t) + timeOnly(t)
           /\ getWeekDay(t) \in 1 .. 7
  BY TimeRangeAssumption, Remainder DEF getJulianDate, timeOnly, getWeekDay

(* What the constructor makes of configured hours.                         *)
LEMMA Hours ==
    ASSUME NEW r, Configured(r)
    PROVE  /\ r.start \in 0 .. DayLength - 1 /\ r.end \in 0 .. DayLength - 1
           /\ \/ /\ Daily(r) /\ r.startDay = -1 /\ r.endDay = -1
              \/ /\ ~Daily(r) /\ r.startDay \in 1 .. 7 /\ r.endDay \in 1 .. 7
                 /\ r.startDay = r.endDay => r.end <= r.start
  <1>1. PICK s \in 0 .. DayLength - 1, e \in 0 .. DayLength - 1 :
            \/ r = TimeRange(s, e, -1, -1)
            \/ \E d, f \in 1 .. 7 : r = TimeRange(s, e, d, f)
    BY DEF Configured
  <1>2. CASE r = TimeRange(s, e, -1, -1)
    BY <1>2, TimeRangeAssumption DEF TimeRange, Daily
  <1>3. ASSUME NEW d \in 1 .. 7, NEW f \in 1 .. 7, r = TimeRange(s, e, d, f)
        PROVE  /\ r.start \in 0 .. DayLength - 1 /\ r.end \in 0 .. DayLength - 1
               /\ ~Daily(r) /\ r.startDay \in 1 .. 7 /\ r.endDay \in 1 .. 7
               /\ r.startDay = r.endDay => r.end <= r.start
    BY <1>3, TimeRangeAssumption DEF TimeRange, Daily
  <1> QED BY <1>1, <1>2, <1>3

-----------------------------------------------------------------------------
(* The reference definition of an occurrence, in dates                     *)

(* Daily hours: the occurrence that began last began today or yesterday.   *)
LEMMA BeganDaily ==
    ASSUME NEW r, Configured(r), Daily(r), NEW t \in Int
    PROVE  Began(r, t) = DayLength * (IF timeOnly(t) >= r.start THEN getJulianDate(t)
                                      ELSE getJulianDate(t) - 1) + r.start
  <1> DEFINE D == DayLength
             d == getJulianDate(t)
             s == timeOnly(t)
             b == IF s >= r.start THEN d ELSE d - 1
             k == IF s >= r.start THEN 0 ELSE 1
             m == s - r.start + D * k
  <1>1. /\ D \in Nat \ {0} /\ d \in Int /\ s \in 0 .. D - 1 /\ t = D * d + s
        /\ r.start \in 0 .. D - 1
    BY DateAndTime, Hours, TimeRangeAssumption
  <1> HIDE DEF D, d, s
  <1>2. m \in 0 .. D - 1 /\ b \in Int
    BY <1>1
  <1>3. t - r.start = D * b + m
    BY <1>1
  <1>4. (t - r.start) % D = m
    BY <1>1, <1>2, <1>3, RemainderUnique
  <1>5. Began(r, t) = t - ((t - r.start) % D)
    BY <1>1 DEF Began, Period, D
  <1> QED BY <1>1, <1>2, <1>3, <1>4, <1>5 DEF D, d, s

(* Daily hours: the length of an occurrence.                               *)
LEMMA LengthDaily ==
    ASSUME NEW r, Configured(r), Daily(r)
    PROVE  Length(r) = IF r.start < r.end THEN r.end - r.start
                       ELSE DayLength + r.end - r.start
  <1> DEFINE D == DayLength
             k == IF r.start < r.end THEN 0 ELSE 1
             m == r.end - r.start - 1 + D * k
  <1>1. D \in Nat \ {0} /\ r.start \in 0 .. D - 1 /\ r.end \in 0 .. D - 1
    BY Hours, TimeRangeAssumption
  <1> HIDE DEF D
  <1>2. m \in 0 .. D - 1 /\ -k \in Int /\ r.end - r.start - 1 = D * (-k) + m
    BY <1>1
  <1>3. (r.end - r.start - 1) % D = m
    BY <1>1, <1>2, RemainderUnique
  <1>4. Length(r) = 1 + ((0 * D + r.end - r.start - 1) % D)
    BY DEF Length, Period, D
  <1>5. 0 * D + r.end - r.start - 1 = r.end - r.start - 1
    BY <1>1
  <1> QED BY <1>1, <1>3, <1>4, <1>5 DEF D

(* Days of the week: the occurrence that began last began on the date that *)
(* getRangeStartDate computes.                                             *)
LEMMA BeganWeekly ==
    ASSUME NEW r, Configured(r), ~Daily(r), NEW t \in Int
    PROVE  /\ getRangeStartDate(r, t) \in Int
           /\ Began(r, t) = DayLength * getRangeStartDate(r, t) + r.start
  <1> DEFINE D == DayLength
             d == getJulianDate(t)
             s == timeOnly(t)
             w == getWeekDay(t)
             n == d \div 7
             later == w > r.startDay \/ (w = r.startDay /\ s >= r.start)
             b == IF later THEN d - w + r.startDay ELSE d - w + r.startDay - 7
             q == IF later THEN n ELSE n - 1
             k == d - b
             m == s - r.start + D * k
             first == (r.startDay - 1) * D + r.start
  <1>1. /\ D \in Nat \ {0} /\ d \in Int /\ s \in 0 .. D - 1 /\ t = D * d + s
        /\ r.start \in 0 .. D - 1 /\ r.startDay \in 1 .. 7
    BY DateAndTime, Hours, TimeRangeAssumption
  <1>2. n \in Int /\ w \in 1 .. 7 /\ d = 7 * n + (w - 1)
    <2>1. w = (d % 7) + 1
      BY DEF getWeekDay
    <2>2. d \in Int
      BY <1>1
    <2> HIDE DEF d, w
    <2>3. n \in Int /\ d % 7 \in 0 .. 6 /\ d = 7 * n + (d % 7)
      BY <2>2
    <2> HIDE DEF n
    <2> QED BY <2>1, <2>2, <2>3
  <1>3. getRangeStartDate(r, t) = b
    BY <1>1, <1>2 DEF getRangeStartDate
  <1>4. Began(r, t) = t - ((t - first) % (7 * D))
    BY DEF Began, Period
  <1> HIDE DEF D, d, s, w, n
  <1>5. b \in Int /\ q \in Int /\ k \in Int /\ first \in Int
    BY <1>1, <1>2
  <1>6. b = 7 * q + (r.startDay - 1)
    BY <1>1, <1>2
  <1>7. k \in 0 .. 7 /\ (k = 0 => s >= r.start) /\ (k = 7 => s < r.start)
    BY <1>1, <1>2
  <1> HIDE DEF b, q, k
  <1>8. k = d - b
    BY DEF k
  <1>9. m \in 0 .. 7 * D - 1
    <2>1. CASE k = 0
      BY <2>1, <1>1, <1>7
    <2>2. CASE k = 7
      BY <2>2, <1>1, <1>7
    <2>3. CASE k \in 1 .. 6
      <3>1. D * 0 + D <= D * k /\ D * k + D <= D * 7
        BY <2>3, <1>1, DaysApart
      <3> QED BY <3>1, <2>3, <1>1
    <2> QED BY <2>1, <2>2, <2>3, <1>7
  <1>10. t - first = (7 * D) * q + m
    <2>1. D * k = D * d - D * b
      BY <1>1, <1>5, <1>8
    <2>2. D * b = (7 * D) * q + (r.startDay - 1) * D
      BY <1>1, <1>5, <1>6
    <2> DEFINE u == (r.startDay - 1) * D
               v == (7 * D) * q
               x == D * b
               y == D * d
               z == D * k
    <2>3. u \in Int /\ v \in Int /\ x \in Int /\ y \in Int /\ z \in Int
      BY <1>1, <1>5
    <2>4. z = y - x /\ x = v + u /\ t = y + s
      BY <2>1, <2>2, <1>1
    <2>5. first = u + r.start /\ m = s - r.start + z
      OBVIOUS
    <2> HIDE DEF u, v, x, y, z, first, m
    <2>6. t - first = v + m
      BY <2>3, <2>4, <2>5, <1>1
    <2> QED BY <2>6 DEF v
  <1>11. (t - first) % (7 * D) = m
    <2>1. 7 * D \in Nat \ {0}
      BY <1>1
    <2> HIDE DEF first, m
    <2> QED BY <2>1, <1>5, <1>9, <1>10, RemainderUnique
  <1>12. m = s - r.start + (D * d - D * b)
    BY <1>1, <1>5, <1>8
  <1>13. D * d \in Int /\ D * b \in Int
    BY <1>1, <1>5
  <1> HIDE DEF m, first
  <1>14. Began(r, t) = D * b + r.start
    BY <1>1, <1>4, <1>11, <1>12, <1>13
  <1> QED BY <1>3, <1>5, <1>14 DEF D

(* Days of the week: the length of an occurrence.                          *)
LEMMA LengthWeekly ==
    ASSUME NEW r, Configured(r), ~Daily(r)
    PROVE  Length(r) = DayLength * (IF r.startDay < r.endDay THEN r.endDay - r.startDay
                                    ELSE r.endDay - r.startDay + 7) + r.end - r.start
  <1> DEFINE D == DayLength
             days == r.endDay - r.startDay
             q == IF r.startDay < r.endDay THEN 0 ELSE -1
             K == IF r.startDay < r.endDay THEN r.endDay - r.startDay
                  ELSE r.endDay - r.startDay + 7
             m == D * K + r.end - r.start - 1
             x == days * D + r.end - r.start - 1
  <1>1. /\ D \in Nat \ {0} /\ r.start \in 0 .. D - 1 /\ r.end \in 0 .. D - 1
        /\ r.startDay \in 1 .. 7 /\ r.endDay \in 1 .. 7
        /\ r.startDay = r.endDay => r.end <= r.start
    BY Hours, TimeRangeAssumption
  <1>2. Length(r) = 1 + (x % (7 * D))
    BY DEF Length, Period
  <1>3. /\ K \in 1 .. 7 /\ (K = 7 => r.end <= r.start)
        /\ days \in Int /\ q \in Int /\ days = K + 7 * q
    BY <1>1
  <1> HIDE DEF D, days, q, K
  <1>4. m \in 0 .. 7 * D - 1
    <2>1. D * 0 + D <= D * K
      BY <1>1, <1>3, DaysApart
    <2>2. CASE K = 7
      BY <1>1, <1>3, <2>1, <2>2
    <2>3. CASE K < 7
      <3>1. D * K + D <= D * 7
        BY <1>1, <1>3, <2>3, DaysApart
      <3> QED BY <1>1, <1>3, <2>1, <3>1
    <2> QED BY <1>3, <2>2, <2>3
  <1>5. x = (7 * D) * q + m
    <2>1. days * D = D * K + (7 * D) * q
      BY <1>1, <1>3
    <2> DEFINE u == days * D
               v == D * K
               z == (7 * D) * q
    <2>2. u \in Int /\ v \in Int /\ z \in Int /\ u = v + z
      BY <1>1, <1>3, <2>1
    <2>3. x = u + r.end - r.start - 1 /\ m = v + r.end - r.start - 1
      OBVIOUS
    <2> HIDE DEF u, v, z, x, m
    <2>4. x = z + m
      BY <1>1, <2>2, <2>3
    <2> QED BY <2>4 DEF z
  <1>6. x % (7 * D) = m
    <2>1. 7 * D \in Nat \ {0}
      BY <1>1
    <2> HIDE DEF x, m
    <2> QED BY <2>1, <1>3, <1>4, <1>5, RemainderUnique
  <1>7. D * K \in Int
    BY <1>1, <1>3
  <1>8. Length(r) = D * K + r.end - r.start
    BY <1>1, <1>2, <1>6, <1>7
  <1> QED BY <1>8 DEF D, K

-----------------------------------------------------------------------------
(* isInRange and isInSameRange against the reference definition            *)

(* What is proved of isInSameRange: it holds within an occurrence, and     *)
(* what it accepts is within the occurrence or at its end.                 *)
Agrees(r, c, t) ==
    /\ Within(r, c, t) => isInSameRange(r, t, c)
    /\ isInSameRange(r, t, c) => Reaches(r, c, t)

(* Hours within one day.                                                   *)
LEMMA DayAgrees ==
    ASSUME NEW r, Configured(r), Daily(r), r.start < r.end,
           NEW c \in Int, NEW t \in Int
    PROVE  Agrees(r, c, t)
  <1> DEFINE D == DayLength
             dt == getJulianDate(t)
             st == timeOnly(t)
             dc == getJulianDate(c)
             sc == timeOnly(c)
             bt == IF st >= r.start THEN dt ELSE dt - 1
             bc == IF sc >= r.start THEN dc ELSE dc - 1
             L == r.end - r.start
  <1>1. /\ D \in Nat \ {0} /\ r.start \in 0 .. D - 1 /\ r.end \in 0 .. D - 1
        /\ dt \in Int /\ st \in 0 .. D - 1 /\ t = D * dt + st
        /\ dc \in Int /\ sc \in 0 .. D - 1 /\ c = D * dc + sc
    BY DateAndTime, Hours, TimeRangeAssumption
  <1>2. Began(r, t) = D * bt + r.start /\ Began(r, c) = D * bc + r.start
    BY BeganDaily
  <1>3. Length(r) = L
    BY LengthDaily
  <1>4. isInSameRange(r, t, c) <=>
            /\ r.start <= st /\ st <= r.end /\ r.start <= sc /\ sc <= r.end
            /\ t = c \/ dt = dc
    BY <1>1 DEF isInSameRange, isInRange, isInRangeAt, isInHours, isInSameHours
  <1> HIDE DEF D, dt, st, dc, sc
  <1>5. ASSUME Within(r, c, t)
        PROVE  isInSameRange(r, t, c)
    <2>1. /\ D * bc + r.start = D * bt + r.start
          /\ c - (D * bc + r.start) < L /\ t - (D * bt + r.start) < L
      BY <1>2, <1>3, <1>5 DEF Within
    <2>2. st >= r.start
      <3>1. D * (dt - 1) = D * dt - D
        BY <1>1
      <3> QED BY <1>1, <2>1, <3>1
    <2>3. sc >= r.start
      <3>1. D * (dc - 1) = D * dc - D
        BY <1>1
      <3> QED BY <1>1, <2>1, <3>1
    <2>4. st < r.end /\ sc < r.end /\ D * dc = D * dt
      BY <1>1, <2>1, <2>2, <2>3
    <2>5. dc = dt
      BY <1>1, <2>4, DaysApart
    <2> QED BY <1>1, <1>4, <2>2, <2>3, <2>4, <2>5
  <1>6. ASSUME isInSameRange(r, t, c)
        PROVE  Reaches(r, c, t)
    <2>1. dt = dc
      <3>1. CASE t = c
        BY <3>1 DEF dt, dc
      <3> QED BY <1>4, <1>6, <3>1
    <2>2. Began(r, c) = D * dc + r.start
      BY <1>1, <1>2, <1>4, <1>6
    <2> QED BY <1>1, <1>3, <1>4, <1>6, <2>1, <2>2 DEF Reaches
  <1> QED BY <1>5, <1>6 DEF Agrees

(* Hours from midnight to midnight.                                        *)
LEMMA WholeDayAgrees ==
    ASSUME NEW r, Configured(r), Daily(r), r.start = 0, r.end = 0,
           NEW c \in Int, NEW t \in Int
    PROVE  Agrees(r, c, t)
  <1> DEFINE D == DayLength
             dt == getJulianDate(t)
             st == timeOnly(t)
             dc == getJulianDate(c)
             sc == timeOnly(c)
  <1>1. /\ D \in Nat \ {0}
        /\ dt \in Int /\ st \in 0 .. D - 1 /\ t = D * dt + st
        /\ dc \in Int /\ sc \in 0 .. D - 1 /\ c = D * dc + sc
    BY DateAndTime, TimeRangeAssumption
  <1>2. Began(r, t) = D * dt /\ Began(r, c) = D * dc
    BY <1>1, BeganDaily
  <1>3. Length(r) = D
    BY <1>1, LengthDaily
  <1>4. isInSameRange(r, t, c) <=> t = c \/ dt = dc
    BY <1>1 DEF isInSameRange, isInRange, isInRangeAt, isInHours, isInSameHours
  <1>5. t = c => dt = dc
    OBVIOUS
  <1> HIDE DEF D, dt, st, dc, sc
  <1>6. D * dt = D * dc => dt = dc
    BY <1>1, DaysApart
  <1> QED BY <1>1, <1>2, <1>3, <1>4, <1>5, <1>6 DEF Agrees, Within, Reaches

(* Hours round the clock: a calendar day, whatever the time they begin at. *)
LEMMA RoundTheClockIsADate ==
    ASSUME NEW r, Configured(r), RoundTheClock(r), NEW c \in Int, NEW t \in Int
    PROVE  isInSameRange(r, t, c) <=> SameDate(c, t)
  <1>1. r.start \in Int /\ r.end = r.start /\ Daily(r)
    BY Hours, TimeRangeAssumption DEF RoundTheClock
  <1>2. timeOnly(t) \in Int /\ timeOnly(c) \in Int
    BY DateAndTime, TimeRangeAssumption
  <1>3. isInRange(r, t) /\ isInRange(r, c)
    BY <1>1, <1>2 DEF isInRange, isInRangeAt, isInHours
  <1> QED BY <1>1, <1>3 DEF isInSameRange, isInSameHours, SameDate

(* Hours over midnight.                                                    *)
LEMMA NightAgrees ==
    ASSUME NEW r, Configured(r), Daily(r), r.start > r.end,
           NEW c \in Int, NEW t \in Int, c <= t
    PROVE  Agrees(r, c, t)
  <1> DEFINE D == DayLength
             dt == getJulianDate(t)
             st == timeOnly(t)
             dc == getJulianDate(c)
             sc == timeOnly(c)
             bt == IF st >= r.start THEN dt ELSE dt - 1
             bc == IF sc >= r.start THEN dc ELSE dc - 1
             L == D + r.end - r.start
             delta == (sc - r.start) % D
  <1>1. /\ D \in Nat \ {0} /\ r.start \in 0 .. D - 1 /\ r.end \in 0 .. D - 1
        /\ dt \in Int /\ st \in 0 .. D - 1 /\ t = D * dt + st
        /\ dc \in Int /\ sc \in 0 .. D - 1 /\ c = D * dc + sc
    BY DateAndTime, Hours, TimeRangeAssumption
  <1>2. Began(r, t) = D * bt + r.start /\ Began(r, c) = D * bc + r.start
    BY BeganDaily
  <1>3. Length(r) = L
    BY <1>1, LengthDaily
  <1>4. isInRange(r, t) <=> r.start <= st \/ st <= r.end
    BY <1>1 DEF isInRange, isInRangeAt, isInHours
  <1>5. isInRange(r, c) <=> r.start <= sc \/ sc <= r.end
    BY <1>1 DEF isInRange, isInRangeAt, isInHours
  <1>6. isInSameRange(r, t, c) <=>
            /\ isInRange(r, t) /\ isInRange(r, c)
            /\ t = c \/ isInSameNight(r, t, c)
    BY <1>1 DEF isInSameRange, isInSameHours
  <1>7. t > c => (isInSameNight(r, t, c) <=> t - c < D - (r.start - r.end) - delta)
    BY <1>1 DEF isInSameNight
  <1> HIDE DEF D, dt, st, dc, sc
  <1>8. delta = c - Began(r, c) /\ delta \in 0 .. D - 1
    <2>1. CASE sc >= r.start
      <3>1. sc - r.start \in 0 .. D - 1
        BY <1>1, <2>1
      <3>2. (sc - r.start) % D = sc - r.start
        BY <1>1, <3>1, SmallRemainder
      <3>3. delta = sc - r.start
        BY <3>1, <3>2
      <3> QED BY <1>1, <1>2, <2>1, <3>1, <3>3
    <2>2. CASE sc < r.start
      <3>1. sc - r.start + D \in 0 .. D - 1 /\ sc - r.start = D * (-1) + (sc - r.start + D)
        BY <1>1, <2>2
      <3>2. delta = sc - r.start + D
        BY <1>1, <3>1, RemainderUnique
      <3>3. D * (dc - 1) = D * dc - D
        BY <1>1
      <3>4. Began(r, c) = D * dc - D + r.start
        BY <1>1, <1>2, <2>2, <3>3
      <3> QED BY <1>1, <3>1, <3>2, <3>4
    <2> QED BY <1>1, <2>1, <2>2
  <1> HIDE DEF delta
  <1>9. Began(r, c) \in Int /\ Began(r, t) \in Int
    BY <1>1, <1>2
  <1>10. isInRange(r, c) <=> c - Began(r, c) <= L
    <2>1. D * (dc - 1) = D * dc - D
      BY <1>1
    <2> QED BY <1>1, <1>2, <1>5, <2>1
  <1>11. isInRange(r, t) <=> t - Began(r, t) <= L
    <2>1. D * (dt - 1) = D * dt - D
      BY <1>1
    <2> QED BY <1>1, <1>2, <1>4, <2>1
  <1> HIDE DEF L
  <1>12. L = D - (r.start - r.end)
    BY <1>1 DEF L
  <1>13. Within(r, c, t) => isInSameRange(r, t, c)
    BY <1>1, <1>3, <1>6, <1>7, <1>8, <1>9, <1>10, <1>11, <1>12 DEF Within
  <1>14. isInSameRange(r, t, c) => Reaches(r, c, t)
    BY <1>1, <1>3, <1>6, <1>7, <1>8, <1>9, <1>10, <1>12 DEF Reaches
  <1> QED BY <1>13, <1>14 DEF Agrees

(* Days of the week: a time is in range until the length of the occurrence *)
(* that began last is over.                                                *)
LEMMA InRangeWeekly ==
    ASSUME NEW r, Configured(r), ~Daily(r), NEW t \in Int
    PROVE  isInRange(r, t) <=> t - Began(r, t) <= Length(r)
  <1> DEFINE D == DayLength
             d == getJulianDate(t)
             s == timeOnly(t)
             w == getWeekDay(t)
             b == getRangeStartDate(r, t)
             k == d - b
             K == IF r.startDay < r.endDay THEN r.endDay - r.startDay
                  ELSE r.endDay - r.startDay + 7
  <1>1. /\ D \in Nat \ {0} /\ r.start \in 0 .. D - 1 /\ r.end \in 0 .. D - 1
        /\ r.startDay \in 1 .. 7 /\ r.endDay \in 1 .. 7
        /\ r.startDay = r.endDay => r.end <= r.start
        /\ d \in Int /\ s \in 0 .. D - 1 /\ t = D * d + s /\ w \in 1 .. 7
    BY DateAndTime, Hours, TimeRangeAssumption
  <1>2. b \in Int /\ Began(r, t) = D * b + r.start
    BY BeganWeekly
  <1>3. Length(r) = D * K + r.end - r.start
    BY LengthWeekly
  <1>4. k = IF w > r.startDay \/ (w = r.startDay /\ s >= r.start)
            THEN w - r.startDay ELSE w - r.startDay + 7
    BY <1>1 DEF getRangeStartDate
  <1>5. isInRange(r, t) <=> isInDays(r, s, w)
    BY DEF isInRange, isInRangeAt
  <1> HIDE DEF D, d, s, w, b, k
  <1>6. isInDays(r, s, w) <=> k < K \/ (k = K /\ s <= r.end)
    <2>1. CASE r.startDay = r.endDay
      BY <1>1, <1>4, <2>1 DEF isInDays, isInHours
    <2>2. CASE r.startDay < r.endDay
      BY <1>1, <1>4, <2>2 DEF isInDays
    <2>3. CASE r.startDay > r.endDay
      BY <1>1, <1>4, <2>3 DEF isInDays
    <2> QED BY <1>1, <2>1, <2>2, <2>3
  <1>7. k \in Int /\ K \in Int
    BY <1>1, <1>4
  <1> HIDE DEF K
  <1>8. t - Began(r, t) = D * k + s - r.start
    <2>1. D * k = D * d - D * b
      BY <1>1, <1>2 DEF k
    <2> QED BY <1>1, <1>2, <2>1
  <1>9. D * k + s <= D * K + r.end <=> k < K \/ (k = K /\ s <= r.end)
    <2>1. CASE k < K
      BY <1>1, <1>7, <2>1, DaysApart
    <2>2. CASE k > K
      BY <1>1, <1>7, <2>2, DaysApart
    <2>3. CASE k = K
      BY <1>1, <1>7, <2>3
    <2> QED BY <1>7, <2>1, <2>2, <2>3
  <1>10. D * k \in Int /\ D * K \in Int
    BY <1>1, <1>7
  <1> QED BY <1>1, <1>3, <1>5, <1>6, <1>8, <1>9, <1>10

(* Days of the week that differ.                                           *)
LEMMA DaysAgree ==
    ASSUME NEW r, Configured(r), ~Daily(r), r.startDay # r.endDay,
           NEW c \in Int, NEW t \in Int
    PROVE  Agrees(r, c, t)
  <1> DEFINE D == DayLength
             bt == getRangeStartDate(r, t)
             bc == getRangeStartDate(r, c)
  <1>1. /\ D \in Nat \ {0} /\ r.start \in Int
        /\ bt \in Int /\ Began(r, t) = D * bt + r.start
        /\ bc \in Int /\ Began(r, c) = D * bc + r.start
    BY BeganWeekly, Hours, TimeRangeAssumption
  <1>2. isInSameRange(r, t, c) <=> isInRange(r, t) /\ isInRange(r, c) /\ bt = bc
    BY DEF isInSameRange
  <1>3. Length(r) \in Int
    BY LengthWeekly, Hours, TimeRangeAssumption
  <1>4. /\ isInRange(r, t) <=> t - Began(r, t) <= Length(r)
        /\ isInRange(r, c) <=> c - Began(r, c) <= Length(r)
    BY InRangeWeekly
  <1> HIDE DEF D, bt, bc
  <1>5. D * bt \in Int /\ D * bc \in Int /\ (D * bt = D * bc => bt = bc)
    BY <1>1, DaysApart
  <1> QED BY <1>1, <1>2, <1>3, <1>4, <1>5 DEF Agrees, Within, Reaches

(* A whole week, from StartTime to EndTime of the same day.                *)
LEMMA WeekAgrees ==
    ASSUME NEW r, Configured(r), ~Daily(r), r.startDay = r.endDay,
           NEW c \in Int, NEW t \in Int, c <= t
    PROVE  Agrees(r, c, t)
  <1> DEFINE D == DayLength
             dt == getJulianDate(t)
             st == timeOnly(t)
             wt == getWeekDay(t)
             bt == getRangeStartDate(r, t)
             dc == getJulianDate(c)
             sc == timeOnly(c)
             wc == getWeekDay(c)
             bc == getRangeStartDate(r, c)
             kt == dt - bt
             kc == dc - bc
             L == Length(r)
  <1>1. /\ D \in Nat \ {0} /\ r.start \in 0 .. D - 1 /\ r.end \in 0 .. D - 1
        /\ r.end <= r.start /\ r.startDay \in 1 .. 7
        /\ dt \in Int /\ st \in 0 .. D - 1 /\ t = D * dt + st /\ wt \in 1 .. 7
        /\ dc \in Int /\ sc \in 0 .. D - 1 /\ c = D * dc + sc /\ wc \in 1 .. 7
    BY DateAndTime, Hours, TimeRangeAssumption
  <1>2. /\ bt \in Int /\ Began(r, t) = D * bt + r.start
        /\ bc \in Int /\ Began(r, c) = D * bc + r.start
    BY BeganWeekly
  <1>3. L = D * 7 + r.end - r.start
    BY <1>1, LengthWeekly
  <1>4. /\ kt = IF wt > r.startDay \/ (wt = r.startDay /\ st >= r.start)
                THEN wt - r.startDay ELSE wt - r.startDay + 7
        /\ kc = IF wc > r.startDay \/ (wc = r.startDay /\ sc >= r.start)
                THEN wc - r.startDay ELSE wc - r.startDay + 7
    BY <1>1 DEF getRangeStartDate
  <1>5. wt = (dt % 7) + 1 /\ wc = (dc % 7) + 1
    BY DEF getWeekDay
  <1>6. /\ isInRange(r, t) <=> t - Began(r, t) <= L
        /\ isInRange(r, c) <=> c - Began(r, c) <= L
    BY InRangeWeekly
  <1>7. isInSameRange(r, t, c) <=> isInRange(r, t) /\ isInRange(r, c) /\ isInSameWeek(r, t, c)
    BY DEF isInSameRange
  <1>8. dc <= dt
    <2> HIDE DEF D, dt, st, wt, bt, dc, sc, wc, bc
    <2> QED BY <1>1, DaysApart
  <1>9. /\ dt = dc /\ wt = r.startDay =>
              (isInSameWeek(r, t, c) <=> \/ st <= r.end /\ sc <= r.end
                                         \/ st >= r.start /\ sc >= r.start)
        /\ dt = dc /\ wt # r.startDay => isInSameWeek(r, t, c)
        /\ dt - dc > 7 => ~isInSameWeek(r, t, c)
        /\ dt - dc = 7 => (isInSameWeek(r, t, c) <=>
                               wt = r.startDay /\ sc >= r.start /\ st <= r.end)
        /\ dt - dc \in 1 .. 6 => (isInSameWeek(r, t, c) <=> bt = bc)
    BY <1>1, <1>8 DEF isInSameWeek
  <1>10. kt \in 0 .. 7 /\ kc \in 0 .. 7
    BY <1>1, <1>4
  <1> HIDE DEF D, dt, st, wt, bt, dc, sc, wc, bc, kt, kc, L
  <1>11. t - Began(r, t) = D * kt + st - r.start /\ c - Began(r, c) = D * kc + sc - r.start
    <2>1. D * kt = D * dt - D * bt /\ D * kc = D * dc - D * bc
      BY <1>1, <1>2 DEF kt, kc
    <2> QED BY <1>1, <1>2, <2>1
  <1>12. dt = dc => wt = wc
    BY <1>1, <1>5
  <1>13. dt - dc = 7 => wt = wc
    BY <1>1, <1>5
  <1>14. ASSUME Within(r, c, t)
         PROVE  isInSameRange(r, t, c)
    <2>1. /\ Began(r, c) = Began(r, t)
          /\ t - Began(r, t) < L /\ c - Began(r, c) < L
      BY <1>14 DEF Within, L
    <2>2. bt = bc
      BY <1>1, <1>2, <2>1, DaysApart
    <2>3. dt - dc = kt - kc
      BY <1>1, <1>2, <2>2 DEF kt, kc
    <2>4. kt = 7 => st < r.end
      BY <1>1, <1>3, <1>11, <2>1
    <2>5. kc = 7 => sc < r.end
      BY <1>1, <1>3, <1>11, <2>1
    <2>6. isInSameWeek(r, t, c)
      <3>1. CASE dt = dc /\ wt = r.startDay
        BY <1>1, <1>4, <1>9, <1>12, <2>3, <2>4, <2>5, <3>1
      <3>2. CASE dt = dc /\ wt # r.startDay
        BY <1>9, <3>2
      <3>3. CASE dt - dc = 7
        BY <1>1, <1>4, <1>9, <1>10, <1>13, <2>3, <2>4, <3>3
      <3>4. CASE dt - dc \in 1 .. 6
        BY <1>9, <2>2, <3>4
      <3>5. dt - dc \in 0 .. 7
        BY <1>1, <1>8, <1>10, <2>3
      <3> QED BY <1>1, <3>1, <3>2, <3>3, <3>4, <3>5
    <2>7. isInRange(r, t) /\ isInRange(r, c)
      BY <1>1, <1>2, <1>3, <1>6, <2>1
    <2> QED BY <1>7, <2>6, <2>7
  <1>15. ASSUME isInSameRange(r, t, c)
         PROVE  Reaches(r, c, t)
    <2>1. isInSameWeek(r, t, c) /\ t - Began(r, t) <= L /\ c - Began(r, c) <= L
      BY <1>6, <1>7, <1>15
    <2>2. SUFFICES t - Began(r, c) <= L
      BY <2>1 DEF Reaches, L
    <2>3. CASE bt = bc
      BY <1>1, <1>2, <2>1, <2>3
    <2>7. /\ D * dt \in Int /\ D * dc \in Int /\ Began(r, c) \in Int
          /\ t = D * dt + st /\ c = D * dc + sc
          /\ st \in Int /\ sc \in Int /\ r.start \in Int
      BY <1>1, <1>2
    <2>4. CASE dt = dc
      <3>1. CASE wt = r.startDay /\ kc = 7
        <4>4. c - Began(r, c) = D * 7 + sc - r.start /\ D * 7 \in Int
          BY <1>1, <1>11, <3>1
        <4>1. t - Began(r, c) = D * 7 + st - r.start
          BY <2>4, <2>7, <4>4
        <4>2. sc < r.start
          BY <1>1, <1>4, <1>12, <2>4, <3>1
        <4>3. st <= r.end
          BY <1>1, <1>9, <2>1, <2>4, <3>1, <4>2
        <4> QED BY <1>1, <1>3, <4>1, <4>3
      <3>2. CASE wt = r.startDay /\ kc # 7
        <4>1. sc >= r.start /\ kc = 0
          BY <1>1, <1>4, <1>12, <2>4, <3>2
        <4>3. c - Began(r, c) = sc - r.start
          BY <1>1, <1>11, <4>1
        <4>2. t - Began(r, c) = st - r.start
          BY <2>4, <2>7, <4>3
        <4> QED BY <1>1, <1>3, <4>2
      <3>3. CASE wt # r.startDay
        <4>1. kt = kc
          BY <1>1, <1>4, <1>12, <2>4, <3>3
        <4>2. bt = bc
          BY <1>1, <1>2, <2>4, <4>1 DEF kt, kc
        <4> QED BY <2>3, <4>2
      <3> QED BY <3>1, <3>2, <3>3
    <2>5. CASE dt - dc = 7
      <3>1. wt = r.startDay /\ sc >= r.start /\ st <= r.end
        BY <1>9, <2>1, <2>5
      <3>2. kc = 0
        BY <1>1, <1>4, <1>13, <2>5, <3>1
      <3>3. D * dt = D * dc + D * 7
        BY <1>1, <2>5
      <3>5. c - Began(r, c) = sc - r.start /\ D * 7 \in Int
        BY <1>1, <1>11, <3>2
      <3>4. t - Began(r, c) = D * 7 + st - r.start
        <4> DEFINE u == D * dt
                   v == D * dc
                   z == D * 7
        <4>1. u \in Int /\ v \in Int /\ z \in Int /\ u = v + z
          BY <2>7, <3>3, <3>5
        <4>2. t = u + st /\ c = v + sc
          BY <2>7
        <4> HIDE DEF u, v, z
        <4>3. t - Began(r, c) = z + st - r.start
          BY <2>7, <3>5, <4>1, <4>2
        <4> QED BY <4>3 DEF z
      <3> QED BY <1>1, <1>3, <3>1, <3>4
    <2>6. CASE dt - dc \in 1 .. 6
      BY <1>9, <2>1, <2>3, <2>6
    <2> QED BY <1>1, <1>8, <1>9, <2>1, <2>4, <2>5, <2>6
  <1> QED BY <1>14, <1>15 DEF Agrees

(* TimeRange::isInSameRange decides whether the numbers of creation time c *)
(* belong to the session of time t.  Daily hours that end at the time they *)
(* begin, other than midnight, are the exception: it compares the calendar *)
(* dates then.  For all other hours it holds whenever both times are within*)
(* one occurrence of the hours, and whenever it holds, t has not passed the*)
(* end of the occurrence of c.  For every length of the day.               *)
THEOREM SameRangeIsSameSession ==
    ASSUME NEW r, Configured(r), NEW c \in Int, NEW t \in Int, c <= t
    PROVE  /\ RoundTheClock(r) => (isInSameRange(r, t, c) <=> SameDate(c, t))
           /\ ~RoundTheClock(r) /\ Within(r, c, t) => isInSameRange(r, t, c)
           /\ ~RoundTheClock(r) /\ isInSameRange(r, t, c) => Reaches(r, c, t)
  <1>1. r.start \in Int /\ r.end \in Int
    BY Hours, TimeRangeAssumption
  <1>2. ASSUME ~RoundTheClock(r)
        PROVE  Agrees(r, c, t)
    <2>1. CASE Daily(r) /\ r.start < r.end
      BY <2>1, DayAgrees
    <2>2. CASE Daily(r) /\ r.start = r.end
      BY <1>2, <2>2, WholeDayAgrees DEF RoundTheClock
    <2>3. CASE Daily(r) /\ r.start > r.end
      BY <2>3, NightAgrees
    <2>4. CASE ~Daily(r) /\ r.startDay # r.endDay
      BY <2>4, DaysAgree
    <2>5. CASE ~Daily(r) /\ r.startDay = r.endDay
      BY <2>5, WeekAgrees
    <2>6. r.start < r.end \/ r.start = r.end \/ r.start > r.end
      BY <1>1
    <2> QED BY <2>1, <2>2, <2>3, <2>4, <2>5, <2>6
  <1> QED BY <1>2, RoundTheClockIsADate DEF Agrees

-----------------------------------------------------------------------------
(* The specification                                                       *)

(* Every state of the schedule has its types; the store's creation time is *)
(* never ahead of the clock.                                               *)
THEOREM ScheduleTypes == Spec => []TypeOK
  <1>1. Init => TypeOK
    BY TimeRangeAssumption, MaxTimeAssumption DEF Init, TypeOK
  <1>2. TypeOK /\ [Next]_vars => TypeOK'
    <2> SUFFICES ASSUME TypeOK, [Next]_vars
                 PROVE  TypeOK'
      OBVIOUS
    <2> USE DEF TypeOK
    <2>0. MaxTime \in Nat
      BY MaxTimeAssumption
    <2>1. CASE Elapse
      BY <2>0, <2>1 DEF Elapse
    <2>2. ASSUME now' = now, creation' \in {creation, now}, hours' = hours,
                 phase' \in {"off", "linked", "asked", "on", "out"}
          PROVE  TypeOK'
      BY <2>0, <2>2
    <2>3. CASE Restart
      BY <2>2, <2>3 DEF Restart, resetUnlessCurrent
    <2>4. CASE Connect
      BY <2>2, <2>4 DEF Connect, resetUnlessCurrent
    <2>5. CASE AcceptLogon
      BY <2>2, <2>5 DEF AcceptLogon, resetUnlessCurrent
    <2>6. CASE LogonAnswered
      BY <2>2, <2>6 DEF LogonAnswered, resetNow
    <2>7. CASE Message
      BY <2>2, <2>7 DEF Message, resetNow
    <2>8. CASE Timer
      BY <2>2, <2>8 DEF Timer, resetNow
    <2>9. CASE Disconnect
      BY <2>2, <2>9 DEF Disconnect
    <2>10. CASE UNCHANGED vars
      BY <2>10 DEF vars
    <2> QED BY <2>1, <2>3, <2>4, <2>5, <2>6, <2>7, <2>8, <2>9, <2>10 DEF Next
  <1> QED BY <1>1, <1>2, PTL DEF Spec

(* What a step needs to know of the hours, the creation time and the clock.*)
LEMMA CheckedHours ==
    ASSUME TypeOK
    PROVE  /\ Keeps(hours.session, creation, now) => checkSessionTime(creation)
           /\ \A c \in {creation, now} :
                  checkSessionTime(c) => Serves(hours.session, c, now)
  <1>1. Configured(hours.session)
    BY RangesAssumption DEF TypeOK
  <1>2. now \in Int /\ creation \in Int /\ creation <= now
    BY MaxTimeAssumption DEF TypeOK
  <1> DEFINE r == hours.session
  <1> HIDE DEF r
  <1>3. ASSUME NEW c \in {creation, now}
        PROVE  /\ Keeps(r, c, now) => isInSameRange(r, now, c)
               /\ isInSameRange(r, now, c) => Serves(r, c, now)
    <2>1. c \in Int /\ c <= now
      BY <1>2
    <2>2. Configured(r)
      BY <1>1 DEF r
    <2> QED BY <1>2, <2>1, <2>2, SameRangeIsSameSession DEF Keeps, Serves
  <1> QED BY <1>3 DEF checkSessionTime, r

(* No step has the numbers reset while they belong to the session of that  *)
(* moment (to its calendar day, for hours round the clock).                *)
THEOREM NumbersKept == Spec => KeptWithinSession
  <1>1. TypeOK /\ [Next]_vars =>
            [creation' # creation => ~Keeps(hours.session, creation, now)]_vars
    <2> SUFFICES ASSUME TypeOK, Next, creation' # creation
                 PROVE  ~Keeps(hours.session, creation, now)
      BY DEF vars
    <2>1. ~checkSessionTime(creation)
      BY DEF Next, Elapse, Restart, Connect, AcceptLogon, LogonAnswered, Message,
             Timer, Disconnect, resetUnlessCurrent
    <2> QED BY <2>1, CheckedHours
  <1> QED BY <1>1, ScheduleTypes, PTL DEF Spec, KeptWithinSession

(* A step that logs on leaves numbers reset in the session of that moment  *)
(* (on its calendar day, for hours round the clock).                       *)
THEOREM FreshNumbers == Spec => FreshNumbersPerSession
  <1>1. TypeOK /\ [Next]_vars =>
            [phase # "on" /\ phase' = "on" => Serves(hours.session, creation', now)]_vars
    <2> SUFFICES ASSUME TypeOK, Next, phase # "on", phase' = "on"
                 PROVE  Serves(hours.session, creation', now)
      BY DEF vars
    <2>1. creation' \in {creation, now} /\ checkSessionTime(creation')
      <3>1. AcceptLogon \/ LogonAnswered
        BY DEF Next, Elapse, Restart, Connect, Message, Timer, Disconnect, resetNow
      <3>2. CASE AcceptLogon
        BY <3>2 DEF AcceptLogon, resetUnlessCurrent
      <3>3. CASE LogonAnswered
        BY <3>3 DEF LogonAnswered, resetNow
      <3> QED BY <3>1, <3>2, <3>3
    <2> QED BY <2>1, CheckedHours
  <1> QED BY <1>1, ScheduleTypes, PTL DEF Spec, FreshNumbersPerSession
=============================================================================

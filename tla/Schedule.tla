------------------------------ MODULE Schedule ------------------------------
(***************************************************************************)
(* The hours of a session (Session.cpp, Session.h, SessionFactory.cpp):    *)
(* numbers are kept within one occurrence of the session's hours and begin *)
(* at 1 in the next.  The store keeps the time of the last reset, and      *)
(* every entry into the session compares it with the clock.  SessionCore   *)
(* takes the outcome as one of four schedule states; here it is computed.  *)
(* ResetOnLogon, ResetOnLogout and ResetOnDisconnect are off, the session  *)
(* is enabled, and the clock does not go back.                             *)
(***************************************************************************)
EXTENDS TimeRange

CONSTANTS
    Ranges,     \* pairs of session hours and logon hours
    MaxTime     \* the last time of the clock

(* All hours that a configuration can give the session.                    *)
ASSUME RangesAssumption == \A h \in Ranges : Configured(h.session)

(* The clock runs through the first week at least.                         *)
ASSUME MaxTimeAssumption == MaxTime \in Nat /\ 7 * DayLength - 1 <= MaxTime

VARIABLES
    hours,      \* m_sessionTime and m_logonTime
    now,        \* the clock
    creation,   \* the store's creation time: when the numbers were last reset
    phase       \* "off", "linked" (connected), "asked" (Logon sent),
                \* "on" (logged on) or "out" (Logout sent)

vars == <<hours, now, creation, phase>>

isLogonTime(t) == isInRange(hours.logon, t)

(* checkSessionTime with the creation time c.                              *)
checkSessionTime(c) == isInSameRange(hours.session, now, c)

(* SessionFactory: the ends of the logon hours are within the session's.   *)
accepted(h) ==
    /\ isInRangeAt(h.session, h.logon.start, h.logon.startDay)
    /\ isInRangeAt(h.session, h.logon.end, h.logon.endDay)

(* A new store on any day of the first week.                               *)
Init == /\ hours \in {h \in Ranges : accepted(h)}
        /\ now \in 0 .. 7 * DayLength - 1
        /\ creation = now /\ phase = "off"

-----------------------------------------------------------------------------
Elapse == /\ now < MaxTime /\ now' = now + 1
          /\ UNCHANGED <<hours, creation, phase>>

(* The numbers are reset unless they belong to the session of this time.   *)
resetUnlessCurrent == creation' = IF checkSessionTime(creation) THEN creation ELSE now

(* The process ends; later a Session is constructed on the same store.     *)
Restart == /\ resetUnlessCurrent /\ phase' = "off"
           /\ UNCHANGED <<hours, now>>

(* An initiator connects: doConnect, then setResponder.                    *)
Connect == /\ phase = "off" /\ isInRange(hours.session, now)
           /\ resetUnlessCurrent /\ phase' = "linked"
           /\ UNCHANGED <<hours, now>>

(* An acceptor takes a Logon: setResponder, then next(message).            *)
AcceptLogon ==
    /\ phase = "off" /\ isLogonTime(now)
    /\ resetUnlessCurrent
    /\ phase' = IF checkSessionTime(creation') THEN "on" ELSE "off"
    /\ UNCHANGED <<hours, now>>

(* Seeded error: the store is stamped with the second after the reset.     *)
resetLate == creation' = now + 1 /\ phase' = "off" /\ UNCHANGED <<hours, now>>

(* Session::reset: Logout, disconnect, new numbers.                        *)
resetNow == creation' = now /\ phase' = "off" /\ UNCHANGED <<hours, now>>

(* The Logon of the counterparty answers that of the initiator.            *)
LogonAnswered ==
    /\ phase = "asked"
    /\ \/ ~isLogonTime(now) /\ phase' = "off" /\ UNCHANGED <<hours, now, creation>>
       \/ isLogonTime(now) /\ ~checkSessionTime(creation) /\ resetNow
       \/ /\ isLogonTime(now) /\ checkSessionTime(creation)
          /\ phase' = "on" /\ UNCHANGED <<hours, now, creation>>

(* Any other message.                                                      *)
Message == /\ phase # "off" /\ ~checkSessionTime(creation)
           /\ resetNow

(* Seeded error: a session that has sent its Logout is left to its timeout.*)
TimerSparesLogout ==
    /\ phase # "off"
    /\ \/ ~checkSessionTime(creation) /\ phase # "out" /\ resetNow
       \/ /\ checkSessionTime(creation)
          /\ \/ phase = "on" /\ ~isLogonTime(now) /\ phase' = "out"
             \/ phase = "linked" /\ isLogonTime(now) /\ phase' = "asked"
          /\ UNCHANGED <<hours, now, creation>>

(* Session::next, which the connection calls every second.                 *)
Timer ==
    /\ phase # "off"
    /\ \/ ~checkSessionTime(creation) /\ resetNow
       \/ /\ checkSessionTime(creation)
          /\ \/ phase = "on" /\ ~isLogonTime(now) /\ phase' = "out"
             \/ phase = "linked" /\ isLogonTime(now) /\ phase' = "asked"
          /\ UNCHANGED <<hours, now, creation>>

(* The connection is lost, a Logon or Logout is not answered in time, or   *)
(* the counterparty logs out.                                              *)
Disconnect == /\ phase # "off" /\ phase' = "off"
              /\ UNCHANGED <<hours, now, creation>>

Next == \/ Elapse \/ Restart \/ Connect \/ AcceptLogon \/ LogonAnswered
        \/ Message \/ Timer \/ Disconnect

(* The connection's timer fires while there is a connection.               *)
Spec == Init /\ [][Next]_vars /\ WF_vars(Timer)

-----------------------------------------------------------------------------
(* What an occurrence of the session's hours is: it begins at StartTime (of*)
(* StartDay) and ends at the first EndTime (of EndDay) after that.         *)

Period(r) == IF Daily(r) THEN DayLength ELSE 7 * DayLength

Length(r) == LET days == IF Daily(r) THEN 0 ELSE r.endDay - r.startDay
             IN  1 + ((days * DayLength + r.end - r.start - 1) % Period(r))

(* The start of the occurrence that began last.                            *)
Began(r, t) == LET first == (IF Daily(r) THEN 0 ELSE r.startDay - 1) * DayLength + r.start
               IN  t - ((t - first) % Period(r))

(* Both times are within one occurrence, and not at its end.               *)
Within(r, t, u) == /\ Began(r, t) = Began(r, u)
                   /\ t - Began(r, t) < Length(r) /\ u - Began(r, u) < Length(r)

(* t, no earlier than u, is within the occurrence of u or at its end.      *)
Reaches(r, u, t) == u - Began(r, u) <= Length(r) /\ t - Began(r, u) <= Length(r)

(* Every day from StartTime to the same time of the next day, other than   *)
(* from midnight to midnight.  isInSameRange compares the dates then, and  *)
(* what the session takes for one occurrence is a calendar day: it has the *)
(* numbers reset at midnight, in the middle of the hours, and not at       *)
(* StartTime.  The properties say so of these hours.                       *)
RoundTheClock(r) == Daily(r) /\ r.start = r.end /\ r.start # 0

SameDate(t, u) == getJulianDate(t) = getJulianDate(u)

(* What the numbers of time c are kept through, and what they serve at     *)
(* most, at time t.                                                        *)
Keeps(r, c, t) == IF RoundTheClock(r) THEN SameDate(c, t) ELSE Within(r, c, t)
Serves(r, c, t) == IF RoundTheClock(r) THEN SameDate(c, t) ELSE Reaches(r, c, t)

-----------------------------------------------------------------------------
(* Every variable has its type.                                            *)
TypeOK == /\ hours \in Ranges /\ now \in 0 .. MaxTime /\ creation \in 0 .. now
          /\ phase \in {"off", "linked", "asked", "on", "out"}

(* checkSessionTime never has the numbers reset in the middle of a session,*)
(* whatever the days and the time since the last reset.  For hours round   *)
(* the clock it never has them reset in the middle of a calendar day.      *)
KeptWithinSession ==
    [][creation' # creation => ~Keeps(hours.session, creation, now)]_vars

(* Nobody is logged on with the numbers of an earlier session: after any   *)
(* time without a connection or a process, a Logon is accepted only on     *)
(* numbers that were reset in the session of that moment, or, for hours    *)
(* round the clock, on that calendar day.                                  *)
FreshNumbersPerSession ==
    [][phase # "on" /\ phase' = "on" => Serves(hours.session, creation', now)]_vars

(* A connection does not outlive the session's hours (or, for hours round  *)
(* the clock, the day): once they are over the timer takes it down.        *)
EndsWithSession ==
    (phase # "off" /\ ~Serves(hours.session, creation, now))
        ~> (phase = "off" \/ Serves(hours.session, creation, now))
=============================================================================

----------------------------- MODULE MCSchedule -----------------------------
(***************************************************************************)
(* Session hours for TLC: every day and the weeks that begin and end on a  *)
(* Monday or a Friday, with every order of start and end, and logon hours  *)
(* that begin with the session.                                            *)
(***************************************************************************)
EXTENDS Schedule

CONSTANTS Marks, Days

AllHours ==
    {TimeRange(s, e, -1, -1) : s \in Marks, e \in Marks}
    \cup {TimeRange(s, e, d, f) : s \in Marks, e \in Marks, d \in Days, f \in Days}

SomeHours ==
    {[session |-> r, logon |-> l] :
        r \in AllHours, l \in AllHours}

Hours == {h \in SomeHours :
            /\ h.logon.start = h.session.start
            /\ h.logon.startDay = h.session.startDay
            /\ h.logon.endDay = h.session.endDay}
=============================================================================

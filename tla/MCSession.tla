----------------------------- MODULE MCSession -----------------------------
(***************************************************************************)
(* Instances of Session for TLC.  Numbers up to 3 arrive while the bound   *)
(* MaxNum is 4: with Logon as number 1 that leaves a gap, the message that *)
(* fills it, and one message ahead of its turn.                            *)
(***************************************************************************)
EXTENDS Session

Numbers == 1..3

InTurn(types) == {Plain(t, n) : t \in types, n \in Numbers}
Duplicates == {Resent(Plain("App", n)) : n \in Numbers}
Fills == {GapFill(n, new) : n \in Numbers, new \in {2, 3}}
Resets == {[GapFill(n, new) EXCEPT !.flag = FALSE, !.dup = FALSE] :
              n \in {1}, new \in {2, 3}}
Requests == {ResendRequest(n, lo, hi) : n \in {2, 3}, lo \in {0, 1, 2}, hi \in {0, 1}}
Logons(flags) == {Logon(n, f, 0) : n \in Numbers, f \in flags}
Graded(ms, grades) == {[m EXCEPT !.grade = g] : m \in ms, g \in grades}

(* The counterparty of the recovery run: everything but Logon resets, with *)
(* every defect.                                                           *)
RecoveryInbound ==
    Logons({FALSE}) \cup InTurn({"App", "Heartbeat", "Logout"})
    \cup Duplicates \cup Fills \cup Requests
    \cup Graded({Plain("App", 2), Resent(Plain("App", 1)), Logon(1, FALSE, 0),
                 Plain("Logout", 2)}, Grades)

(* The counterparty of the admission run: every type, every defect, and    *)
(* resets by either side.                                                  *)
AdmissionInbound ==
    Logons(BOOLEAN) \cup InTurn({"App"})
    \cup {Plain("Logout", 2), Plain("Logout", 3), Plain("Reject", 1), Plain("TestRequest", 2)}
    \cup {Logon(1, FALSE, 2)} \cup Resets \cup {ResendRequest(2, 1, 0)}
    \cup Graded({Plain("App", 2), Logon(1, FALSE, 0)}, Grades)
    \cup Graded({Resent(Plain("App", 1))}, {"noOrig", "origLate"})
    \cup Graded({Plain("Logout", 2)}, {"version"})

AllSched == Schedules
AlwaysOpen == {"open"}
NothingWithheld == {{}}
SomeWithheld == {{}, {2}}
NoDeadline == {{}}
(* One set for each outcome of the timers.                                 *)
EachDeadline ==
    {{}, {"logon"}, {"logout"}, {"quiet", "beat"}, {"quiet", "test"},
     {"quiet", "test", "dead"}, {"logout", "quiet", "test"},
     {"logout", "quiet", "beat"}}
=============================================================================

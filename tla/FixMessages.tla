---------------------------- MODULE FixMessages ----------------------------
(***************************************************************************)
(* The FIX messages a session exchanges, reduced to what Session.cpp reads *)
(* from them.  Every message has                                           *)
(*   type   MsgType(35), application messages being one class "App";       *)
(*   seq    MsgSeqNum(34);                                                 *)
(*   dup    PossDupFlag(43);                                               *)
(*   grade  the outcome of the checks Session.cpp makes on the rest of the *)
(*          message (see Grades);                                          *)
(*   flag   ResetSeqNumFlag(141) of a Logon, GapFillFlag(123) of a         *)
(*          SequenceReset, FALSE otherwise;                                *)
(*   lo     NextExpectedMsgSeqNum(789) of a Logon (0: absent),             *)
(*          NewSeqNo(36) of a SequenceReset, BeginSeqNo(7) of a            *)
(*          ResendRequest, 0 otherwise;                                    *)
(*   hi     EndSeqNo(16) of a ResendRequest, 0 otherwise.                  *)
(* One record shape for all types keeps messages comparable.               *)
(***************************************************************************)
EXTENDS Naturals

AdminTypes ==
    {"Logon", "Logout", "Heartbeat", "TestRequest", "ResendRequest",
     "SequenceReset", "Reject"}

MsgTypes == AdminTypes \cup {"App"}

isAdminMsgType(t) == t \in AdminTypes

(***************************************************************************)
(* What the checks of an inbound message find, in the order Session::next  *)
(* makes them:                                                             *)
(*   version   BeginString is not the session's (UnsupportedVersion);      *)
(*   noDict    no dictionary for the ApplVerID (DataDictionaryNotFound);   *)
(*   invalid   DataDictionary::validate throws a tag error;                *)
(*   badTime   SendingTime outside MaxLatency (isGoodTime is false);       *)
(*   badComp   the CompIDs are not the session's (isCorrectCompID);        *)
(*   noOrig    a possible duplicate without OrigSendingTime(122);          *)
(*   origLate  OrigSendingTime later than SendingTime;                     *)
(*   good      none of these.                                              *)
(***************************************************************************)
Grades ==
    {"version", "noDict", "invalid", "badTime", "badComp", "noOrig",
     "origLate", "good"}

Message ==
    [type : MsgTypes, seq : Nat, dup : BOOLEAN, grade : Grades,
     flag : BOOLEAN, lo : Nat, hi : Nat]

Plain(t, n) ==
    [type |-> t, seq |-> n, dup |-> FALSE, grade |-> "good",
     flag |-> FALSE, lo |-> 0, hi |-> 0]

Logon(n, reset, nextExpected) ==
    [Plain("Logon", n) EXCEPT !.flag = reset, !.lo = nextExpected]

ResendRequest(n, begin, end) ==
    [Plain("ResendRequest", n) EXCEPT !.lo = begin, !.hi = end]

(* generateSequenceReset: PossDupFlag(Y), GapFillFlag(Y). *)
GapFill(n, new) ==
    [Plain("SequenceReset", n) EXCEPT !.dup = TRUE, !.flag = TRUE, !.lo = new]

(* resend(): the stored message again, PossDupFlag(Y) and OrigSendingTime. *)
Resent(m) == [m EXCEPT !.dup = TRUE]
=============================================================================

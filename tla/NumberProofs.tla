---------------------------- MODULE NumberProofs ----------------------------
(***************************************************************************)
(* What a call of Session may do to the number expected next and to the    *)
(* record of what has been asked for: proofs of NumbersAdvance and         *)
(* GapRequested.  As in SessionProofs the lemmas are about operators, one  *)
(* for each function of Session.cpp, and compose.                          *)
(*                                                                         *)
(* GapRequested alone is not inductive: doTargetTooHigh does not repeat a  *)
(* request while resendRange says that there is one, so the range itself   *)
(* must stand for a request that was sent (GapAsked).                      *)
(***************************************************************************)
EXTENDS SessionProofs

(* A message that waits, or a range that counts as requested, has a        *)
(* request at or below the expected number behind it.                      *)
GapAsked(s) ==
    \/ DOMAIN s.queue = {} /\ s.resendRange = <<0, 0>>
    \/ \E begin \in Nat : begin \in s.asked /\ begin <= s.nextTarget

(* Gaps are asked for by ResendRequests, and no Logon resets the numbers   *)
(* of a session that is under way.  Such a reset keeps the queue and the   *)
(* range of the old numbers, so GapRequested does not survive it; and with *)
(* SendNextExpectedMsgSeqNum an early Logon is queued with no request but  *)
(* the reply sent for it, which asks for nextTarget + 1: the gap it leaves *)
(* is not asked for (the finding of run pair_live789).                     *)
PlainRecovery ==
    /\ ~SendNextExpectedMsgSeqNum
    /\ Initiate \/ ~ResetOnLogon
    /\ \A m \in Inbound : m.type = "Logon" => ~m.flag

(* What every call does: a reset is noticed, and what waits stays asked    *)
(* for.                                                                    *)
Asks(s, t) ==
    /\ s.wiped => t.wiped
    /\ PlainRecovery /\ GapAsked(s) => GapAsked(t)

(* No number of the counterparty is used up.                               *)
Idles(s, t) ==
    /\ Asks(s, t)
    /\ ~t.wiped => t.nextTarget = s.nextTarget

(* At most one number of the counterparty is used up.                      *)
Uses(s, t) ==
    /\ Asks(s, t)
    /\ ~t.wiped => t.nextTarget = s.nextTarget \/ t.nextTarget = s.nextTarget + 1

(* The same for the handling of message m, unless it is a SequenceReset.   *)
Handles(s, t, m) ==
    /\ Asks(s, t)
    /\ m.type # "SequenceReset" => Uses(s, t)

(* Numbers go back in a reset only.                                        *)
Rises(s, t) ==
    ~t.wiped => t.nextSender >= s.nextSender /\ t.nextTarget >= s.nextTarget

(* Nothing that Asks, Idles and Uses look at changes.                      *)
Level(s, t) ==
    /\ t.queue = s.queue /\ t.resendRange = s.resendRange
    /\ t.asked = s.asked /\ t.nextTarget = s.nextTarget /\ t.wiped = s.wiped

-----------------------------------------------------------------------------
(* Composing. *)

(* Doing nothing is level.                                                 *)
LEMMA LevelRefl ==
    ASSUME NEW s
    PROVE  Level(s, s)
BY DEF Level

(* Level steps compose.                                                    *)
LEMMA LevelTrans ==
    ASSUME NEW s, NEW t, NEW u, Level(s, t), Level(t, u)
    PROVE  Level(s, u)
BY DEF Level

(* A level step uses up nothing.                                           *)
LEMMA LevelIdles ==
    ASSUME NEW s, NEW t, Level(s, t)
    PROVE  Idles(s, t)
BY DEF Level, Idles, Asks, GapAsked

(* A step that uses up nothing uses up at most one number.                 *)
LEMMA IdlesUses ==
    ASSUME NEW s, NEW t, Idles(s, t)
    PROVE  Uses(s, t)
BY DEF Idles, Uses

(* What keeps the record of requests composes.                             *)
LEMMA AsksTrans ==
    ASSUME NEW s, NEW t, NEW u, Asks(s, t), Asks(t, u)
    PROVE  Asks(s, u)
BY DEF Asks

(* Steps that use up nothing compose.                                      *)
LEMMA IdlesTrans ==
    ASSUME NEW s, NEW t, NEW u, Idles(s, t), Idles(t, u)
    PROVE  Idles(s, u)
BY DEF Idles, Asks

(* One number is used up before or after steps that use up nothing.        *)
LEMMA UsesTrans ==
    ASSUME NEW s, NEW t, NEW u, \/ Idles(s, t) /\ Uses(t, u)
                                \/ Uses(s, t) /\ Idles(t, u)
    PROVE  Uses(s, u)
BY DEF Idles, Uses, Asks

-----------------------------------------------------------------------------
(* The elementary changes. *)

(* Handing messages over.                                                  *)
LEMMA SendAllLevel ==
    ASSUME NEW s, SInv(s), NEW ms
    PROVE  Level(s, sendAll(s, ms))
<1>1. Level(s, [s EXCEPT !.out = @ \o ms])
  BY DEF SInv, Fields, Level
<1> QED BY <1>1, LevelRefl DEF sendAll

(* persist() takes a number of this side only.                             *)
LEMMA PersistLevel ==
    ASSUME NEW s, SInv(s), NEW m
    PROVE  Level(s, persist(s, m))
BY DEF SInv, Fields, Level, persist

(* The end of sendRaw.                                                     *)
LEMMA SendNumberedLevel ==
    ASSUME NEW s, SInv(s), s.sending = 0, NEW m \in Message, m.seq = s.nextSender,
           NEW goes
    PROVE  Level(s, sendNumbered(s, m, goes))
<1> DEFINE s1 == persist(s, m)
           ms == IF goes THEN <<m>> ELSE <<>>
<1>1. Level(s, s1) /\ SInv(s1)
  BY PersistLevel, PersistStep, TalksCalls
<1> HIDE DEF s1, ms
<1>2. Level(s, sendAll(s1, ms))
  BY <1>1, SendAllLevel, LevelTrans
<1> QED BY <1>2 DEF sendNumbered, s1, ms

(* The end of a send that a reset overtook takes a number of this side.    *)
LEMMA FinishLevel ==
    ASSUME NEW s, SInv(s)
    PROVE  Level(s, finishSend(s))
BY FinishStep DEF Level

(* sendRaw resets the store only for a Logon that decides so.              *)
LEMMA SendAdminLevel ==
    ASSUME NEW s, SInv(s), NEW m \in Message,
           m.type # "Logon" \/ s.receivedReset \/ ~m.flag
    PROVE  Level(s, sendAdmin(s, m))
<1> DEFINE s0 == finishSend(s)
           s1 == decideReset(s0, m)
           w  == [m EXCEPT !.seq = s1.nextSender]
           goes == \/ m.type \in {"Logon", "Logout", "ResendRequest", "SequenceReset"}
                   \/ isLoggedOn(s)
<1>0. /\ SInv(s0) /\ s0.sending = 0 /\ Level(s, s0)
      /\ s0.receivedReset = s.receivedReset
  BY FinishStep, FinishLevel
<1> HIDE DEF s0
<1>1. SInv(s1) /\ s1.sending = 0
  BY <1>0, DecideResetStep, TalksCalls
<1>2. Level(s0, s1)
  <2>1. Level(s0, [s0 EXCEPT !.sentReset = m.flag])
    BY <1>0 DEF SInv, Fields, Level
  <2> QED BY <1>0, <2>1, LevelRefl DEF decideReset
<1> HIDE DEF s1
<1>3. w \in Message /\ w.seq = s1.nextSender
  BY <1>1, SInvFacts DEF Message
<1> HIDE DEF w, goes
<1>4. Level(s, sendNumbered(s1, w, goes))
  BY <1>0, <1>1, <1>2, <1>3, SendNumberedLevel, LevelTrans
<1> QED BY <1>4 DEF sendAdmin, s0, s1, w, goes

(* Sending an application message uses up no number of the counterparty.   *)
LEMMA SendAppLevel ==
    ASSUME NEW s, SInv(s), s.sending = 0, NEW vetoed
    PROVE  Level(s, sendApp(s, vetoed))
<1> DEFINE m  == Plain("App", s.nextSender)
<1>1. m \in Message /\ m.seq = s.nextSender
  BY SInvFacts, PlainType DEF MsgTypes
<1>2. Level(s, sendNumbered(s, m, isLoggedOn(s)))
  BY <1>1, SendNumberedLevel
<1> QED BY <1>2, LevelRefl DEF sendApp

(* A plain administrative message.                                         *)
LEMMA PlainLevel ==
    ASSUME NEW s, SInv(s), NEW t \in MsgTypes \ {"Logon"}
    PROVE  LET u == sendAdmin(s, Plain(t, 0)) IN Level(s, u) /\ SInv(u)
BY SendAdminLevel, SendAdminStep, PlainType, TalksCalls

(* generateLogout.                                                         *)
LEMMA LogoutLevel ==
    ASSUME NEW s, SInv(s)
    PROVE  Level(s, generateLogout(s)) /\ SInv(generateLogout(s))
<1> DEFINE s1 == sendAdmin(s, Plain("Logout", 0))
<1>1. Level(s, s1) /\ SInv(s1)
  BY PlainLevel DEF MsgTypes, AdminTypes
<1> HIDE DEF s1
<1>2. Level(s1, [s1 EXCEPT !.sentLogout = TRUE])
  BY <1>1 DEF SInv, Fields, Level
<1> QED BY <1>1, <1>2, LevelTrans, LogoutStep, TalksCalls DEF generateLogout, s1

(* generateHeartbeat.                                                      *)
LEMMA HeartbeatLevel ==
    ASSUME NEW s, SInv(s)
    PROVE  Level(s, generateHeartbeat(s))
BY PlainLevel DEF generateHeartbeat, MsgTypes, AdminTypes

(* generateTestRequest.                                                    *)
LEMMA TestRequestLevel ==
    ASSUME NEW s, SInv(s)
    PROVE  Level(s, generateTestRequest(s))
<1> DEFINE s1 == sendAdmin(s, Plain("TestRequest", 0))
<1>1. Level(s, s1) /\ SInv(s1)
  BY PlainLevel DEF MsgTypes, AdminTypes
<1> HIDE DEF s1
<1>2. Level(s1, [s1 EXCEPT !.testRequest = @ + 1])
  BY <1>1 DEF SInv, Fields, Level
<1> QED BY <1>1, <1>2, LevelTrans DEF generateTestRequest, s1

(* incrNextTargetMsgSeqNum uses up one number.                             *)
LEMMA ConsumeUses ==
    ASSUME NEW s, SInv(s)
    PROVE  Uses(s, consume(s))
<1> DEFINE t == consume(s)
<1>1. /\ t.queue = s.queue /\ t.resendRange = s.resendRange
      /\ t.asked = s.asked /\ t.nextTarget = s.nextTarget + 1
      /\ t.wiped = s.wiped
  BY DEF SInv, Fields, consume, incrNextTargetMsgSeqNum
<1> HIDE DEF t
<1>2. s.nextTarget \in Nat
  BY SInvFacts
<1>3. GapAsked(s) => GapAsked(t)
  BY <1>1, <1>2 DEF GapAsked
<1> QED BY <1>1, <1>3 DEF Uses, Asks, t

(* generateReject uses up the number of the expected message.              *)
LEMMA RejectUses ==
    ASSUME NEW s, SInv(s), NEW m
    PROVE  Uses(s, generateReject(s, m)) /\ SInv(generateReject(s, m))
<1> DEFINE s1 == rejectConsumes(s, m)
<1>1. Uses(s, s1) /\ SInv(s1)
  <2>1. Uses(s, incrNextTargetMsgSeqNum(s)) /\ SInv(incrNextTargetMsgSeqNum(s))
    BY ConsumeUses, ConsumeStep DEF consume
  <2>2. Uses(s, s)
    BY LevelRefl, LevelIdles, IdlesUses
  <2> QED BY <2>1, <2>2 DEF rejectConsumes
<1> HIDE DEF s1
<1>2. Idles(s1, sendAdmin(s1, Plain("Reject", 0)))
  BY <1>1, PlainLevel, LevelIdles DEF MsgTypes, AdminTypes
<1>3. Uses(s, sendAdmin(s1, Plain("Reject", 0)))
  BY <1>1, <1>2, UsesTrans
<1>4. Uses(s, generateReject(s, m))
  BY <1>1, <1>3 DEF generateReject, s1
<1> QED BY <1>4, RejectStep, TalksCalls

(* generateBusinessReject uses up one number.                              *)
LEMMA BusinessRejectUses ==
    ASSUME NEW s, SInv(s)
    PROVE  Uses(s, generateBusinessReject(s))
<1> DEFINE s0 == finishSend(s)
           s1 == incrNextTargetMsgSeqNum(s0)
<1>0. Idles(s, s0) /\ SInv(s0) /\ s0.sending = 0
  BY FinishStep, FinishLevel, LevelIdles
<1> HIDE DEF s0
<1>1. Uses(s, s1) /\ SInv(s1)
  BY <1>0, ConsumeUses, ConsumeStep, UsesTrans DEF consume
<1>2. s1.sending = 0
  BY <1>0 DEF incrNextTargetMsgSeqNum, SInv, Fields
<1> HIDE DEF s1
<1>3. Uses(s, sendApp(s1, FALSE))
  BY <1>1, <1>2, SendAppLevel, LevelIdles, UsesTrans
<1> QED BY <1>3 DEF generateBusinessReject, s0, s1

(* disconnect(bool) leaves nothing that waits.                             *)
LEMMA DisconnectIdles ==
    ASSUME NEW s, SInv(s), NEW r \in BOOLEAN
    PROVE  LET t == disconnectWith(s, r) IN Idles(s, t) /\ GapAsked(t)
<1> DEFINE f == finishSend(s)
           t == [f EXCEPT !.responder = FALSE, !.receivedLogon = FALSE,
                          !.sentLogon = FALSE, !.sentLogout = FALSE,
                          !.receivedReset = FALSE, !.sentReset = FALSE,
                          !.queue = NoMessages, !.resendRange = <<0, 0>>,
                          !.asked = {}]
           u == storeReset(t)
<1>0. SInv(f) /\ f.nextTarget = s.nextTarget /\ f.wiped = s.wiped
  BY FinishStep
<1> HIDE DEF f
<1>1. /\ DOMAIN t = Fields /\ t.queue = NoMessages /\ t.resendRange = <<0, 0>>
      /\ t.nextTarget = s.nextTarget /\ t.wiped = s.wiped
  BY <1>0 DEF SInv, Fields
<1> HIDE DEF t
<1>2. u.queue = NoMessages /\ u.resendRange = <<0, 0>> /\ u.wiped = TRUE
  BY <1>1 DEF storeReset, Fields
<1> HIDE DEF u
<1>3. GapAsked(t) /\ GapAsked(u)
  BY <1>1, <1>2 DEF GapAsked, NoMessages
<1>4. Idles(s, t) /\ Idles(s, u)
  BY <1>1, <1>2, <1>3 DEF Idles, Asks
<1> QED BY <1>3, <1>4 DEF disconnectWith, f, t, u

(* The same for disconnect().                                              *)
LEMMA PlainDisconnectIdles ==
    ASSUME NEW s, SInv(s)
    PROVE  Idles(s, disconnect(s))
BY DisconnectIdles, SettingsAssumption DEF disconnect

(* A Logout followed by disconnect(bool).                                  *)
LEMMA LogoutAndDisconnectIdles ==
    ASSUME NEW s, SInv(s), NEW r \in BOOLEAN
    PROVE  Idles(s, disconnectWith(generateLogout(s), r))
<1> DEFINE s1 == generateLogout(s)
<1>1. Idles(s, s1) /\ SInv(s1)
  BY LogoutLevel, LevelIdles
<1> HIDE DEF s1
<1>2. Idles(s, disconnectWith(s1, r))
  BY <1>1, DisconnectIdles, IdlesTrans
<1> QED BY <1>2 DEF s1

(* MessageStore::reset when nothing waits.                                 *)
LEMMA StoreResetIdles ==
    ASSUME NEW s, SInv(s), DOMAIN s.queue = {}, s.resendRange = <<0, 0>>
    PROVE  LET t == storeReset(s)
           IN  /\ Idles(s, t) /\ GapAsked(t) /\ t.wiped
               /\ DOMAIN t.queue = {} /\ t.resendRange = <<0, 0>>
<1> DEFINE t == storeReset(s)
<1>1. t.queue = s.queue /\ t.resendRange = s.resendRange /\ t.wiped = TRUE
  BY DEF SInv, storeReset, Fields
<1> HIDE DEF t
<1>2. GapAsked(t)
  BY <1>1 DEF GapAsked
<1> QED BY <1>1, <1>2 DEF Idles, Asks, t

(* The same for a reset outside m_mutex.                                   *)
LEMMA ResetUnlockedIdles ==
    ASSUME NEW s, SInv(s), DOMAIN s.queue = {}, s.resendRange = <<0, 0>>
    PROVE  LET t == resetUnlocked(s)
           IN  /\ Idles(s, t) /\ GapAsked(t) /\ t.wiped
               /\ DOMAIN t.queue = {} /\ t.resendRange = <<0, 0>>
<1> DEFINE t == resetUnlocked(s)
<1>1. t.queue = s.queue /\ t.resendRange = s.resendRange /\ t.wiped = TRUE
  BY ResetUnlockedStep
<1> HIDE DEF t
<1>2. GapAsked(t)
  BY <1>1 DEF GapAsked
<1> QED BY <1>1, <1>2 DEF Idles, Asks, t

(* Session::reset.                                                         *)
LEMMA ResetIdles ==
    ASSUME NEW s, SInv(s)
    PROVE  Idles(s, reset(s))
<1> DEFINE s1 == generateLogout(s)
           s2 == disconnect(s1)
<1>1. SInv(s1)
  BY LogoutLevel
<1>2. Idles(s, s2)
  BY LogoutAndDisconnectIdles, SettingsAssumption DEF disconnect
<1> HIDE DEF s1
<1>3. SInv(s2) /\ ~s2.receivedLogon /\ ~s2.sentLogon
  BY <1>1, PlainDisconnectCall
<1> HIDE DEF s2
<1>4. Idles(s2, resetUnlocked(s2))
  BY <1>3, ResetUnlockedIdles DEF SInv, ConnectionOK
<1> QED BY <1>2, <1>4, IdlesTrans DEF reset, s1, s2

-----------------------------------------------------------------------------
(* verify() *)

(* doBadTime and doBadCompID use up at most the number of the message.     *)
LEMMA RefuseUses ==
    ASSUME NEW s, SInv(s), NEW m
    PROVE  Uses(s, refuseAndLogout(s, m))
<1> DEFINE s1 == generateReject(s, m)
<1>1. Uses(s, s1) /\ SInv(s1)
  BY RejectUses
<1> HIDE DEF s1
<1>2. Uses(s, generateLogout(s1)) /\ Uses(s, disconnect(s1))
  BY <1>1, LogoutLevel, LevelIdles, PlainDisconnectIdles, UsesTrans
<1> QED BY <1>2 DEF refuseAndLogout, s1

(* doPossDup likewise.                                                     *)
LEMMA PossDupUses ==
    ASSUME NEW s, SInv(s), NEW m
    PROVE  Uses(s, doPossDup(s, m))
<1> DEFINE s1 == generateReject(s, m)
<1>1. Uses(s, s1) /\ SInv(s1)
  BY RejectUses
<1> HIDE DEF s1
<1>2. Uses(s, disconnect(s1)) /\ Uses(s, s)
  BY <1>1, PlainDisconnectIdles, UsesTrans, LevelRefl, LevelIdles, IdlesUses
<1>3. Uses(s, refuseAndLogout(s, m))
  BY RefuseUses
<1> QED BY <1>1, <1>2, <1>3 DEF doPossDup, s1

(* doTargetTooLow likewise.                                                *)
LEMMA TooLowUses ==
    ASSUME NEW s, SInv(s), NEW m
    PROVE  Uses(s, doTargetTooLow(s, m))
<1>1. Uses(s, disconnect(generateLogout(s)))
  BY LogoutAndDisconnectIdles, IdlesUses, SettingsAssumption DEF disconnect
<1> QED BY <1>1, PossDupUses DEF doTargetTooLow

(* Queueing a message keeps what is asked for.                             *)
LEMMA EnqueueFacts ==
    ASSUME NEW s, SInv(s), NEW m
    PROVE  LET t == enqueue(s, m)
           IN  /\ t.resendRange = s.resendRange /\ t.asked = s.asked
               /\ t.nextTarget = s.nextTarget /\ t.wiped = s.wiped
BY DEF SInv, Fields, enqueue

(* generateResendRequest asks for the expected number.                     *)
LEMMA ResendRequestAsks ==
    ASSUME NEW s, SInv(s), NEW n
    PROVE  LET t == generateResendRequest(s, n)
           IN  t.nextTarget = s.nextTarget /\ t.wiped = s.wiped /\ GapAsked(t)
<1> DEFINE s1 == sendAdmin(s, ResendRequest(0, s.nextTarget, 0))
           t  == [s1 EXCEPT !.resendRange = <<s.nextTarget, n - 1>>,
                            !.asked = @ \cup {s.nextTarget}]
<1>1. s.nextTarget \in Nat
  BY SInvFacts
<1>2. ResendRequest(0, s.nextTarget, 0) \in Message
  BY <1>1, RequestType
<1>3. ResendRequest(0, s.nextTarget, 0).type = "ResendRequest"
  BY DEF ResendRequest, Plain
<1>4. Level(s, s1) /\ SInv(s1)
  BY <1>2, <1>3, SendAdminLevel, SendAdminStep, TalksCalls
<1> HIDE DEF s1
<1>5. /\ t.nextTarget = s1.nextTarget /\ t.wiped = s1.wiped
      /\ s.nextTarget \in t.asked
  BY <1>4 DEF SInv, Fields
<1> HIDE DEF t
<1>6. t.nextTarget = s.nextTarget /\ t.wiped = s.wiped
  BY <1>4, <1>5 DEF Level
<1>7. GapAsked(t)
  BY <1>1, <1>5, <1>6 DEF GapAsked
<1> QED BY <1>6, <1>7 DEF generateResendRequest, s1, t

(* doTargetTooHigh: the range that spares a request has one behind it.     *)
LEMMA TooHighIdles ==
    ASSUME NEW s, SInv(s), NEW m \in Message, s.receivedLogon \/ s.sentLogon
    PROVE  Idles(s, doTargetTooHigh(s, m))
<1> DEFINE s1 == enqueue(s, m)
           t  == generateResendRequest(s1, m.seq)
<1>1. /\ s1.resendRange = s.resendRange /\ s1.asked = s.asked
      /\ s1.nextTarget = s.nextTarget /\ s1.wiped = s.wiped
  BY EnqueueFacts
<1>2. SInv(s1)
  BY EnqueueStep, TalksCalls
<1> HIDE DEF s1
<1>3. CASE alreadyRequested(s, m)
  <2>1. GapAsked(s) => GapAsked(s1)
    BY <1>1, <1>3 DEF GapAsked, alreadyRequested, resendRequested
  <2>2. Idles(s, s1)
    BY <1>1, <2>1 DEF Idles, Asks
  <2> QED BY <1>3, <2>2 DEF doTargetTooHigh, s1
<1>4. CASE ~alreadyRequested(s, m)
  <2>1. t.nextTarget = s1.nextTarget /\ t.wiped = s1.wiped /\ GapAsked(t)
    BY <1>2, ResendRequestAsks
  <2> HIDE DEF t
  <2>2. Idles(s, t)
    BY <1>1, <2>1 DEF Idles, Asks
  <2> QED BY <1>4, <2>2 DEF doTargetTooHigh, s1, t
<1> QED BY <1>3, <1>4

(* The end of verify() only forgets a range.                               *)
LEMMA AdmitIdles ==
    ASSUME NEW s, SInv(s), NEW m, NEW checked
    PROVE  Idles(s, admit(s, m, checked))
<1> DEFINE t == admit(s, m, checked)
<1>1. /\ t.queue = s.queue /\ t.asked = s.asked
      /\ t.nextTarget = s.nextTarget /\ t.wiped = s.wiped
      /\ t.resendRange = s.resendRange \/ t.resendRange = <<0, 0>>
  BY DEF SInv, Fields, admit
<1> HIDE DEF t
<1>2. GapAsked(s) => GapAsked(t)
  BY <1>1 DEF GapAsked
<1> QED BY <1>1, <1>2 DEF Idles, Asks, t

(* verify() uses up nothing of a message it accepts and at most one number *)
(* of a message it refuses.                                                *)
LEMMA VerifyUses ==
    ASSUME NEW s, SInv(s), NEW m \in Message, NEW high \in BOOLEAN,
           NEW low \in BOOLEAN, high => m.type # "Logon"
    PROVE  LET r == verify(s, m, high, low)
           IN  Uses(s, r.s) /\ (r.ok => Idles(s, r.s))
<1> DEFINE r == verify(s, m, high, low)
           t == admit(s, m, high \/ low)
<1>1. CASE ~validLogonState(s, m.type)
  <2>1. r = [s |-> disconnect(s), ok |-> FALSE]
    BY <1>1 DEF verify
  <2> QED BY <2>1, PlainDisconnectIdles, IdlesUses
<1>2. CASE validLogonState(s, m.type) /\ m.grade \in {"badTime", "badComp"}
  <2>1. r = [s |-> refuseAndLogout(s, m), ok |-> FALSE]
    BY <1>2 DEF verify
  <2> QED BY <2>1, RefuseUses
<1>3. CASE /\ validLogonState(s, m.type) /\ m.grade \notin {"badTime", "badComp"}
           /\ high /\ isTargetTooHigh(s, m)
  <2>1. r = [s |-> doTargetTooHigh(s, m), ok |-> FALSE]
    BY <1>3 DEF verify
  <2>2. s.receivedLogon \/ s.sentLogon
    BY <1>3, ValidState
  <2> QED BY <2>1, <2>2, TooHighIdles, IdlesUses
<1>4. CASE /\ validLogonState(s, m.type) /\ m.grade \notin {"badTime", "badComp"}
           /\ ~(high /\ isTargetTooHigh(s, m)) /\ low /\ isTargetTooLow(s, m)
  <2>1. r = [s |-> doTargetTooLow(s, m), ok |-> FALSE]
    BY <1>4 DEF verify
  <2> QED BY <2>1, TooLowUses
<1>5. CASE /\ validLogonState(s, m.type) /\ m.grade \notin {"badTime", "badComp"}
           /\ ~(high /\ isTargetTooHigh(s, m)) /\ ~(low /\ isTargetTooLow(s, m))
  <2>1. r = [s |-> t, ok |-> TRUE]
    BY <1>5 DEF verify
  <2> QED BY <2>1, AdmitIdles, IdlesUses
<1> QED BY <1>1, <1>2, <1>3, <1>4, <1>5

-----------------------------------------------------------------------------
(* The handlers. *)

(* The exception handlers of next() use up at most one number.             *)
LEMMA CaughtUses ==
    ASSUME NEW s, SInv(s), NEW m, NEW v \in {"reject", "business", "logout"}
    PROVE  Uses(s, caught(s, m, v))
<1> DEFINE r == (s.receivedLogon \/ s.sentLogon) /\ ResetOnDisconnect
<1>1. Uses(s, generateReject(s, m)) /\ Uses(s, generateBusinessReject(s))
  BY RejectUses, BusinessRejectUses
<1>2. Uses(s, disconnectWith(generateLogout(s), r))
  BY LogoutAndDisconnectIdles, IdlesUses
<1> QED BY <1>1, <1>2 DEF caught

(* deliver: fromApp, then one number.                                      *)
LEMMA DeliverUses ==
    ASSUME NEW s, SInv(s), NEW m
    PROVE  Uses(s, deliver(s, m))
<1> DEFINE s1 == [s EXCEPT !.got = Append(@, m.seq)]
           t  == consume(s1)
<1>1. /\ t.queue = s.queue /\ t.resendRange = s.resendRange
      /\ t.asked = s.asked /\ t.nextTarget = s.nextTarget + 1
      /\ t.wiped = s.wiped
  BY DEF SInv, Fields, consume, incrNextTargetMsgSeqNum
<1> HIDE DEF t
<1>2. s.nextTarget \in Nat
  BY SInvFacts
<1>3. GapAsked(s) => GapAsked(t)
  BY <1>1, <1>2 DEF GapAsked
<1> QED BY <1>1, <1>3 DEF Uses, Asks, deliver, t, s1

(* nextTestRequest uses up one number.                                     *)
LEMMA NextTestRequestUses ==
    ASSUME NEW s, SInv(s)
    PROVE  Uses(s, nextTestRequest(s))
<1> DEFINE s1 == generateHeartbeat(s)
<1>1. Idles(s, s1) /\ SInv(s1)
  BY HeartbeatLevel, LevelIdles, HeartbeatStep, TalksCalls
<1> HIDE DEF s1
<1>2. Uses(s, consume(s1))
  BY <1>1, ConsumeUses, UsesTrans
<1> QED BY <1>2 DEF nextTestRequest, s1

(* nextLogout uses up the number of the Logout, and its reset is followed  *)
(* by disconnect(), which empties the queue.                               *)
LEMMA NextLogoutUses ==
    ASSUME NEW s, SInv(s)
    PROVE  Uses(s, nextLogout(s))
<1> DEFINE s0 == IF s.sentLogout THEN s ELSE generateLogout(s)
           s1 == consume(s0)
           s2 == resetUnlocked(s1)
           t2 == disconnect(s2)
<1>1. Idles(s, s0) /\ SInv(s0)
  BY LogoutLevel, LevelRefl, LevelIdles
<1> HIDE DEF s0
<1>2. Uses(s, s1) /\ SInv(s1)
  BY <1>1, ConsumeUses, ConsumeStep, UsesTrans
<1> HIDE DEF s1
<1>3. Uses(s, disconnect(s1))
  BY <1>2, PlainDisconnectIdles, UsesTrans
<1>4. SInv(s2) /\ s2.wiped
  BY <1>2, ResetUnlockedStep
<1> HIDE DEF s2
<1>5. GapAsked(t2) /\ t2.wiped
  BY <1>4, DisconnectIdles, SettingsAssumption DEF disconnect, Idles, Asks
<1> HIDE DEF t2
<1>6. Uses(s, t2)
  BY <1>5 DEF Uses, Asks
<1> QED BY <1>3, <1>6 DEF nextLogout, s0, s1, s2, t2

(* Taking messages from the queue.                                         *)
LEMMA QueueWithoutIdles ==
    ASSUME NEW s, SInv(s), NEW gone
    PROVE  Idles(s, queueWithout(s, gone))
<1> DEFINE t == queueWithout(s, gone)
<1>1. /\ t.queue = [n \in DOMAIN s.queue \ gone |-> s.queue[n]]
      /\ t.asked = s.asked /\ t.nextTarget = s.nextTarget
      /\ t.wiped = s.wiped /\ t.resendRange = s.resendRange
  BY DEF SInv, Fields, queueWithout
<1> HIDE DEF t
<1>2. DOMAIN t.queue \subseteq DOMAIN s.queue
  BY <1>1
<1>3. GapAsked(s) => GapAsked(t)
  BY <1>1, <1>2 DEF GapAsked
<1> QED BY <1>1, <1>3 DEF Idles, Asks, t

(* nextSequenceReset keeps what is asked for.                              *)
LEMMA NextSequenceResetAsks ==
    ASSUME NEW s, SInv(s), NEW m \in Message
    PROVE  Asks(s, nextSequenceReset(s, m))
<1> DEFINE s1 == [s EXCEPT !.nextTarget = m.lo]
<1>1. m.lo \in Nat /\ s.nextTarget \in Nat
  BY SInvFacts DEF Message
<1>2. CASE m.lo > s.nextTarget
  <2>1. SInv(s1)
    BY <1>1, <1>2, TargetStep, TalksCalls
  <2>2. /\ s1.queue = s.queue /\ s1.resendRange = s.resendRange
        /\ s1.asked = s.asked /\ s1.nextTarget = m.lo /\ s1.wiped = s.wiped
    BY DEF SInv, Fields
  <2> HIDE DEF s1
  <2>3. GapAsked(s) => GapAsked(s1)
    BY <1>1, <1>2, <2>2 DEF GapAsked
  <2>4. Asks(s, s1)
    BY <2>2, <2>3 DEF Asks
  <2>5. Asks(s, queueWithout(s1, 0 .. (m.lo - 1)))
    BY <2>1, <2>4, QueueWithoutIdles, AsksTrans DEF Idles
  <2> QED BY <1>2, <2>4, <2>5 DEF nextSequenceReset, s1
<1>3. CASE ~(m.lo > s.nextTarget)
  <2>1. Asks(s, generateReject(s, m)) /\ Asks(s, s)
    BY RejectUses DEF Uses, Asks
  <2> QED BY <1>3, <2>1 DEF nextSequenceReset
<1> QED BY <1>2, <1>3

(* Answering a resend request uses up no number of the counterparty.       *)
LEMMA AnswerRangeIdles ==
    ASSUME NEW s, SInv(s), NEW begin, NEW end \in Nat, NEW withheld
    PROVE  Idles(s, answerRange(s, begin, end, withheld))
<1> DEFINE fill == GapFill(begin, fillTo(s.nextSender, end))
<1>1. ASSUME begin = 0 PROVE fill \in Message /\ fill.type = "SequenceReset"
  <2>1. fillTo(s.nextSender, end) \in Nat
    BY SInvFacts DEF fillTo
  <2>2. fill.type = "SequenceReset"
    BY DEF GapFill, Plain
  <2> QED BY <1>1, <2>1, <2>2, GapFillType
<1> HIDE DEF fill
<1>2. Idles(s, s) /\ (begin = 0 => Idles(s, sendAdmin(s, fill)))
  BY <1>1, LevelRefl, LevelIdles, SendAdminLevel
<1>3. \A ms : Idles(s, sendAll(s, ms))
  BY SendAllLevel, LevelIdles
<1> QED BY <1>2, <1>3 DEF answerRange, fill

(* The retransmissions at the end of nextLogon.                            *)
LEMMA RetransmitOwedIdles ==
    ASSUME NEW s, SInv(s), NEW withheld
    PROVE  Idles(s, retransmitOwed(s, withheld))
<1> DEFINE s1 == answerRange(s, s.owed, s.nextSender - 1, withheld)
<1>1. s.nextSender - 1 \in Nat
  BY SInvFacts
<1>2. Idles(s, s1) /\ SInv(s1)
  BY <1>1, AnswerRangeIdles, AnswerRangeStep, TalksCalls
<1> HIDE DEF s1
<1>3. Level(s1, [s1 EXCEPT !.owed = 0])
  BY <1>2 DEF SInv, Fields, Level
<1> QED BY <1>2, <1>3, LevelIdles, IdlesTrans DEF retransmitOwed, s1

(* nextResendRequest uses up at most one number.                           *)
LEMMA NextResendRequestUses ==
    ASSUME NEW s, SInv(s), NEW m \in Message, NEW withheld
    PROVE  Uses(s, nextResendRequest(s, m, withheld))
<1> DEFINE end == IF m.hi = 0 \/ m.hi >= s.nextSender THEN s.nextSender - 1 ELSE m.hi
           s1  == answerRange(s, m.lo, end, withheld)
<1>1. end \in Nat /\ m.lo \in Nat
  BY SInvFacts DEF Message
<1> HIDE DEF end
<1>2. Idles(s, s1) /\ SInv(s1)
  BY <1>1, AnswerRangeIdles, AnswerRangeStep, TalksCalls
<1> HIDE DEF s1
<1>3. Uses(s, consume(s1)) /\ Uses(s, s1)
  BY <1>2, ConsumeUses, UsesTrans, IdlesUses
<1> QED BY <1>3 DEF nextResendRequest, consumeExpected, s1, end

-----------------------------------------------------------------------------
(* Logons. *)

(* What a Logon asks for is added to the record.                           *)
LEMMA AsksFromIdles ==
    ASSUME NEW s, SInv(s), NEW n
    PROVE  Idles(s, asksFrom(s, n)) /\ SInv(asksFrom(s, n))
<1> DEFINE t == [s EXCEPT !.asked = @ \cup {n}]
<1>1. /\ t.queue = s.queue /\ t.resendRange = s.resendRange
      /\ s.asked \subseteq t.asked /\ t.nextTarget = s.nextTarget
      /\ t.wiped = s.wiped
  BY DEF SInv, Fields
<1> HIDE DEF t
<1>2. Idles(s, t)
  BY <1>1 DEF Idles, Asks, GapAsked
<1>3. Idles(s, asksFrom(s, n))
  BY <1>2, LevelRefl, LevelIdles DEF asksFrom, t
<1> QED BY <1>3, AsksFromStep

(* The resets before a Logon is verified.  With PlainRecovery there is none *)
(* unless nothing waits.                                                   *)
LEMMA PrepareLogonIdles ==
    ASSUME NEW s, SInv(s), NEW m \in Message,
           \/ PlainRecovery => ~m.flag /\ (s.initiate \/ ~ResetOnLogon)
           \/ DOMAIN s.queue = {} /\ s.resendRange = <<0, 0>>
    PROVE  Idles(s, prepareLogon(s, m))
<1> DEFINE s1 == [s EXCEPT !.receivedReset = m.flag]
           t  == prepareLogon(s, m)
           r1 == resetUnlocked(s1)
<1>0. Level(s, s1)
  BY DEF SInv, Fields, Level
<1>1. Level(s, s1) /\ SInv(s1)
  <2>1. /\ Same(s, s1, {"enabled", "sentLogout", "sentReset", "receivedReset",
                        "testRequest", "out", "asked", "owed"})
        /\ s1.enabled = s.enabled /\ s1.sentLogout = s.sentLogout
        /\ s1.sentReset = s.sentReset /\ s1.receivedReset = m.flag
        /\ s1.testRequest = s.testRequest
    BY DEF SInv, Same, Fields
  <2>2. m.flag \in BOOLEAN
    BY DEF Message
  <2> HIDE DEF s1
  <2> QED BY <1>0, <2>1, <2>2, SInvFacts, QuietStep, TalksCalls
<1> HIDE DEF s1
<1>2. /\ r1.queue = s1.queue /\ r1.resendRange = s1.resendRange
      /\ r1.wiped = TRUE /\ SInv(r1)
  BY <1>1, ResetUnlockedStep
<1> HIDE DEF r1
<1>3. /\ resetUnlocked(r1).queue = s1.queue
      /\ resetUnlocked(r1).resendRange = s1.resendRange
      /\ resetUnlocked(r1).wiped = TRUE
  BY <1>2, ResetUnlockedStep
<1>4. m.flag \in BOOLEAN /\ s.initiate \in BOOLEAN
  BY SInvFacts DEF Message
<1> HIDE DEF t
<1>5. \/ t = s1
      \/ /\ t.queue = s1.queue /\ t.resendRange = s1.resendRange /\ t.wiped = TRUE
         /\ m.flag \/ (~s.initiate /\ ResetOnLogon)
  <2> DEFINE s2 == IF m.flag /\ ~s1.sentReset THEN r1 ELSE s1
  <2>1. t = IF ~s.initiate /\ ResetOnLogon THEN resetUnlocked(s2) ELSE s2
    BY DEF prepareLogon, s1, r1, t
  <2>2. \/ s2 = s1
        \/ m.flag /\ s2 = r1
    OBVIOUS
  <2>3. r1 = resetUnlocked(s1)
    BY DEF r1
  <2> HIDE DEF s2
  <2> QED BY <1>2, <1>3, <2>1, <2>2, <2>3
<1>6. CASE t = s1
  BY <1>1, <1>6, LevelIdles DEF t
<1>7. CASE /\ t.queue = s1.queue /\ t.resendRange = s1.resendRange /\ t.wiped = TRUE
           /\ m.flag \/ (~s.initiate /\ ResetOnLogon)
  <2>1. PlainRecovery => GapAsked(t)
    BY <1>1, <1>4, <1>7, SettingsAssumption DEF GapAsked, Level
  <2>2. Idles(s, t)
    BY <1>7, <2>1 DEF Idles, Asks
  <2> QED BY <2>2 DEF t
<1> QED BY <1>5, <1>6, <1>7

(* Answering a Logon: the reply to a reset does not reset again.           *)
LEMMA ReplyLogonIdles ==
    ASSUME NEW s, SInv(s), s.receivedLogon
    PROVE  Idles(s, replyLogon(s))
<1> DEFINE e  == IF SendNextExpectedMsgSeqNum THEN s.nextTarget + 1 ELSE 0
           m  == Logon(0, s.receivedReset, e)
           s0 == sendAdmin(s, m)
           s1 == IF ~s.initiate \/ (s.receivedReset /\ ~s.sentReset)
                 THEN generateLogonReply(s) ELSE s
           t  == [s1 EXCEPT !.sentReset = FALSE, !.receivedReset = FALSE]
<1>1. m \in Message /\ m.flag = s.receivedReset
  <2>1. m.flag = s.receivedReset
    BY DEF Logon, Plain
  <2> QED BY <2>1, SInvFacts, LogonType
<1> HIDE DEF m
<1>2. Level(s, s0) /\ SInv(s0)
  BY <1>1, SendAdminLevel, SendAdminStep, TalksCalls
<1> HIDE DEF s0
<1> DEFINE a  == [s0 EXCEPT !.sentLogon = TRUE]
<1>3. Level(s0, a)
  BY <1>2 DEF SInv, Fields, Level
<1>a. SInv(a)
  <2>1. /\ Same(s0, a, {"receivedLogon", "sentLogon", "testRequest"})
        /\ a.receivedLogon = s0.receivedLogon /\ a.sentLogon = TRUE
        /\ a.testRequest = s0.testRequest
    BY <1>2 DEF SInv, Same, Fields
  <2>2. s0.receivedLogon /\ s0.responder
    BY <1>1, SendAdminStep DEF Talks, Keeps, SInv, ConnectionOK, s0
  <2> HIDE DEF a
  <2> QED BY <1>2, <2>1, <2>2, SInvFacts, LogonFlagStep
<1> HIDE DEF a
<1>4. generateLogonReply(s) = asksFrom(a, m.lo)
  BY DEF generateLogonReply, m, s0, a
<1>b. Idles(s, asksFrom(a, m.lo))
  BY <1>2, <1>3, <1>a, AsksFromIdles, LevelTrans, LevelIdles, IdlesTrans
<1>5. Idles(s, s1) /\ SInv(s1)
  BY <1>4, <1>b, LevelRefl, LevelIdles, LogonReplyCall
<1> HIDE DEF s1
<1>6. Level(s1, t)
  BY <1>5 DEF SInv, Fields, Level
<1>7. replyLogon(s) = t
  BY DEF replyLogon, s1, t
<1> QED BY <1>5, <1>6, <1>7, LevelIdles, IdlesTrans

(* Using up or queueing a Logon.                                           *)
LEMMA NumberLogonUses ==
    ASSUME NEW s, SInv(s), NEW m \in Message, s.receivedLogon
    PROVE  Uses(s, numberLogon(s, m))
<1> DEFINE s1 == enqueue(s, m)
           t  == [s1 EXCEPT !.resendRange = <<s.nextTarget, m.seq - 1>>]
<1>1. Uses(s, doTargetTooHigh(s, m)) /\ Uses(s, consume(s))
  BY TooHighIdles, IdlesUses, ConsumeUses
<1>2. /\ SInv(s1) /\ s1.asked = s.asked
      /\ s1.nextTarget = s.nextTarget /\ s1.wiped = s.wiped
  BY EnqueueFacts, EnqueueStep, TalksCalls
<1> HIDE DEF s1
<1>3. t.nextTarget = s.nextTarget /\ t.wiped = s.wiped
  BY <1>2 DEF SInv, Fields
<1> HIDE DEF t
<1>4. SendNextExpectedMsgSeqNum => Uses(s, t)
  BY <1>3 DEF Uses, Asks, PlainRecovery
<1> QED BY <1>1, <1>4 DEF numberLogon, s1, t

(* nextLogon after verify().                                               *)
LEMMA CompleteLogonUses ==
    ASSUME NEW s0, SInv(s0), s0.responder, NEW m \in Message
    PROVE  Uses(s0, completeLogon(s0, m))
<1> DEFINE s    == [s0 EXCEPT !.receivedLogon = TRUE]
           s1   == replyLogon(s)
           done == numberLogon(s1, m)
<1>1. SInv(s) /\ s.receivedLogon
  <2>1. /\ Same(s0, s, {"receivedLogon", "sentLogon", "testRequest"})
        /\ s.receivedLogon = TRUE /\ s.sentLogon = s0.sentLogon
        /\ s.testRequest = s0.testRequest
    BY DEF SInv, Same, Fields
  <2> HIDE DEF s
  <2>2. s.receivedLogon \in BOOLEAN /\ s.receivedLogon
    BY <2>1
  <2>3. s.sentLogon \in BOOLEAN /\ s.testRequest \in Nat
    BY <2>1, SInvFacts
  <2> QED BY <2>1, <2>2, <2>3, LogonFlagStep
<1>2. Idles(s0, s)
  <2>1. Level(s0, s)
    BY DEF SInv, Fields, Level
  <2> QED BY <2>1, LevelIdles
<1> HIDE DEF s
<1>3. Idles(s0, s1) /\ SInv(s1) /\ s1.receivedLogon
  BY <1>1, <1>2, ReplyLogonIdles, ReplyLogonCall, IdlesTrans
<1> HIDE DEF s1
<1>4. Uses(s0, done) /\ SInv(done)
  BY <1>3, NumberLogonUses, UsesTrans, NumberLogonStep, TalksCalls
<1> HIDE DEF done
<1>5. Uses(s0, disconnect(generateLogout(s)))
  <2>1. Idles(s, disconnect(generateLogout(s)))
    BY <1>1, LogoutAndDisconnectIdles, SettingsAssumption DEF disconnect
  <2> QED BY <1>2, <2>1, IdlesTrans, IdlesUses
<1>6. \A n : Level(done, [done EXCEPT !.owed = n])
  BY <1>4 DEF SInv, Fields, Level
<1>7. \A n : Uses(s0, [done EXCEPT !.owed = n])
  BY <1>4, <1>6, LevelIdles, UsesTrans
<1> QED BY <1>5, <1>7 DEF completeLogon, s, s1, done

(* When the resets of a Logon do no harm to what is asked for.             *)
Mild(s, m) ==
    \/ PlainRecovery /\ m.type = "Logon" => ~m.flag /\ (s.initiate \/ ~ResetOnLogon)
    \/ DOMAIN s.queue = {} /\ s.resendRange = <<0, 0>>

(* nextLogon uses up at most the number of the Logon.                      *)
LEMMA NextLogonUses ==
    ASSUME NEW s, SInv(s), s.responder, NEW m \in Message, m.type = "Logon",
           Mild(s, m)
    PROVE  Uses(s, nextLogon(s, m))
<1> DEFINE s1 == prepareLogon(s, m)
           r  == verify(s1, m, FALSE, TRUE)
<1>1. Talks(s, s1) /\ SInv(s1)
  BY PrepareLogonStep, TalksCalls
<1>2. s1.responder
  BY <1>1 DEF Talks, Keeps
<1>3. Idles(s, s1)
  BY PrepareLogonIdles DEF Mild
<1> HIDE DEF s1
<1>4. Uses(s, disconnect(s)) /\ Uses(s, disconnect(s1))
  BY <1>1, <1>3, PlainDisconnectIdles, IdlesTrans, IdlesUses
<1>5. Uses(s1, r.s) /\ (r.ok => Idles(s1, r.s))
  BY <1>1, VerifyUses
<1>6. SInv(r.s) /\ (r.ok => Talks(s1, r.s))
  BY <1>1, VerifyCall
<1> HIDE DEF r
<1>7. Uses(s, r.s)
  BY <1>3, <1>5, UsesTrans
<1>8. ASSUME r.ok PROVE Uses(s, completeLogon(r.s, m))
  <2>1. r.s.responder
    BY <1>2, <1>6, <1>8 DEF Talks, Keeps
  <2>2. Uses(r.s, completeLogon(r.s, m))
    BY <1>6, <2>1, CompleteLogonUses
  <2>3. Idles(s, r.s)
    BY <1>3, <1>5, <1>8, IdlesTrans
  <2> QED BY <2>2, <2>3, UsesTrans
<1> QED BY <1>4, <1>7, <1>8 DEF nextLogon, s1, r

(* The refusal of a Logon in next().                                       *)
LEMMA RefusedLogonUses ==
    ASSUME NEW s, SInv(s), NEW m, NEW logonTime
    PROVE  Uses(s, refusedLogon(s, m, logonTime))
<1> DEFINE answers == /\ s.enabled /\ logonTime
                      /\ m.flag \/ validLogonState(s, "Logon")
                      /\ m.grade \in {"badTime", "badComp"} /\ s.receivedLogon
           s0 == generateReject(s, m)
           s1 == IF answers THEN generateLogout(s0) ELSE s
           t  == [s1 EXCEPT !.responder = @ /\ logonTime]
<1>1. Uses(s, s0) /\ SInv(s0)
  BY RejectUses
<1> HIDE DEF s0
<1>2. Uses(s, s1) /\ SInv(s1)
  <2>1. Uses(s, generateLogout(s0)) /\ SInv(generateLogout(s0)) /\ Uses(s, s)
    BY <1>1, LogoutLevel, LevelIdles, UsesTrans, LevelRefl, IdlesUses
  <2> QED BY <2>1
<1> HIDE DEF s1
<1>3. Uses(s, disconnect(s1))
  BY <1>2, PlainDisconnectIdles, UsesTrans
<1>4. Level(s1, t)
  BY <1>2 DEF SInv, Fields, Level
<1> HIDE DEF t
<1>5. Uses(s, t)
  BY <1>2, <1>4, LevelIdles, UsesTrans
<1> QED BY <1>3, <1>5 DEF refusedLogon, s0, s1, t

-----------------------------------------------------------------------------
(* Session::next(message) *)

(* One number, whatever the message.                                       *)
LEMMA UsesHandles ==
    ASSUME NEW s, NEW t, NEW m, Uses(s, t)
    PROVE  Handles(s, t, m)
BY DEF Handles, Uses

(* Handling after steps that use up nothing.                               *)
LEMMA HandlesTrans ==
    ASSUME NEW s, NEW t, NEW u, NEW m, Idles(s, t), Handles(t, u, m)
    PROVE  Handles(s, u, m)
BY AsksTrans, UsesTrans DEF Handles, Idles

(* The handler of every message type.                                      *)
LEMMA DispatchHandles ==
    ASSUME NEW s, SInv(s), s.responder, NEW m \in Message, NEW v \in Verdicts,
           NEW withheld, Mild(s, m)
    PROVE  Handles(s, dispatch(s, m, v, withheld), m)
<1> DEFINE high == \/ m.type \in {"Heartbeat", "TestRequest", "App"}
                   \/ m.type = "SequenceReset" /\ m.flag
           low  == high \/ m.type = "Reject"
           r    == verify(s, m, high, low)
           d    == dispatch(s, m, v, withheld)
<1>1. CASE m.type = "Logon"
  <2>1. d = nextLogon(s, m)
    BY <1>1 DEF dispatch
  <2> QED BY <1>1, <2>1, NextLogonUses, UsesHandles
<1>2. CASE m.type # "Logon"
  <2>0. SUFFICES Handles(s, d, m)
    OBVIOUS
  <2>1. /\ SInv(r.s) /\ Uses(s, r.s)
        /\ r.ok => Idles(s, r.s)
    <3>1. high \in BOOLEAN /\ low \in BOOLEAN
      OBVIOUS
    <3> HIDE DEF high, low
    <3> QED BY <1>2, <3>1, VerifyCall, VerifyUses
  <2>2. d = IF ~r.ok THEN r.s
            ELSE IF v # "ok" THEN caught(r.s, m, v)
            ELSE CASE m.type = "App"           -> deliver(r.s, m)
                   [] m.type = "Heartbeat"     -> consume(r.s)
                   [] m.type = "Reject"        -> consume(r.s)
                   [] m.type = "TestRequest"   -> nextTestRequest(r.s)
                   [] m.type = "Logout"        -> nextLogout(r.s)
                   [] m.type = "SequenceReset" -> nextSequenceReset(r.s, m)
                   [] m.type = "ResendRequest" -> nextResendRequest(r.s, m, withheld)
    BY <1>2 DEF dispatch, handle
  <2> HIDE DEF r, d
  <2>3. CASE ~r.ok
    BY <2>1, <2>2, <2>3, UsesHandles
  <2>4. CASE r.ok /\ v # "ok"
    <3>1. Uses(r.s, caught(r.s, m, v))
      BY <2>1, <2>4, CaughtUses DEF Verdicts
    <3> QED BY <2>1, <2>2, <2>4, <3>1, UsesTrans, UsesHandles
  <2>5. CASE r.ok /\ v = "ok" /\ m.type = "SequenceReset"
    <3>1. d = nextSequenceReset(r.s, m)
      BY <2>2, <2>5
    <3>2. Handles(r.s, d, m)
      BY <2>1, <2>5, <3>1, NextSequenceResetAsks DEF Handles
    <3> QED BY <2>1, <2>5, <3>2, HandlesTrans
  <2>6. CASE r.ok /\ v = "ok" /\ m.type # "SequenceReset"
    <3>1. /\ Uses(r.s, consume(r.s)) /\ Uses(r.s, nextTestRequest(r.s))
          /\ Uses(r.s, nextLogout(r.s)) /\ Uses(r.s, deliver(r.s, m))
          /\ Uses(r.s, nextResendRequest(r.s, m, withheld))
      BY <2>1, ConsumeUses, NextTestRequestUses, NextLogoutUses, DeliverUses,
         NextResendRequestUses
    <3>2. m.type \in {"App", "Heartbeat", "Reject", "TestRequest", "Logout",
                      "ResendRequest"}
      BY <1>2, <2>6 DEF Message, MsgTypes, AdminTypes
    <3>3. Uses(r.s, d)
      BY <2>2, <2>6, <3>1, <3>2
    <3> QED BY <2>1, <2>6, <3>3, UsesTrans, UsesHandles
  <2> QED BY <2>3, <2>4, <2>5, <2>6
<1> QED BY <1>1, <1>2

(* The handler of UnsupportedVersion uses up one number.                   *)
LEMMA UnsupportedVersionUses ==
    ASSUME NEW s, SInv(s), NEW m \in Message
    PROVE  Uses(s, unsupportedVersion(s, m))
<1> DEFINE s1 == generateLogout(s)
           r  == verify(s, m, FALSE, FALSE)
<1>1. Idles(s, s1) /\ SInv(s1)
  BY LogoutLevel, LevelIdles
<1> HIDE DEF s1
<1>2. Uses(s, consume(s1))
  BY <1>1, ConsumeUses, UsesTrans
<1>3. Uses(s, r.s) /\ SInv(r.s) /\ (r.ok => Idles(s, r.s))
  BY VerifyCall, VerifyUses
<1> HIDE DEF r
<1>4. r.ok => Uses(s, nextLogout(r.s))
  BY <1>3, NextLogoutUses, UsesTrans
<1> QED BY <1>2, <1>3, <1>4 DEF unsupportedVersion, s1, r

(* The handler of DataDictionaryNotFound.                                  *)
LEMMA NoDictionaryUses ==
    ASSUME NEW s, SInv(s), NEW m \in Message
    PROVE  Uses(s, noDictionary(s, m))
<1> DEFINE r == m.type # "Logon" /\ ResetOnDisconnect
<1>1. r \in BOOLEAN
  BY SettingsAssumption
<1> HIDE DEF r
<1>2. Uses(s, disconnectWith(generateLogout(s), r))
  BY <1>1, LogoutAndDisconnectIdles, IdlesUses
<1>3. Uses(s, generateReject(s, m))
  BY RejectUses
<1> QED BY <1>2, <1>3 DEF noDictionary, r

(* next(message) uses up at most one number unless it is a SequenceReset.  *)
LEMMA NextMessageHandles ==
    ASSUME NEW s, SInv(s), s.responder, NEW m \in Message, NEW v \in Verdicts,
           NEW withheld, NEW sched, NEW authenticated \in BOOLEAN, Mild(s, m)
    PROVE  Handles(s, nextMessage(s, m, v, withheld, sched, authenticated), m)
<1>1. /\ Uses(s, disconnect(s)) /\ Uses(s, s) /\ Uses(s, reset(s))
      /\ Uses(s, unsupportedVersion(s, m)) /\ Uses(s, generateReject(s, m))
      /\ Uses(s, refusedLogon(s, m, isLogonTime(sched)))
      /\ Uses(s, noDictionary(s, m)) /\ Uses(s, caught(s, m, "logout"))
  BY PlainDisconnectIdles, LevelRefl, LevelIdles, ResetIdles, IdlesUses,
     UnsupportedVersionUses, RejectUses, RefusedLogonUses, NoDictionaryUses,
     CaughtUses
<1>2. /\ Handles(s, disconnect(s), m) /\ Handles(s, s, m) /\ Handles(s, reset(s), m)
      /\ Handles(s, unsupportedVersion(s, m), m)
      /\ Handles(s, generateReject(s, m), m)
      /\ Handles(s, refusedLogon(s, m, isLogonTime(sched)), m)
      /\ Handles(s, noDictionary(s, m), m) /\ Handles(s, caught(s, m, "logout"), m)
  BY <1>1, UsesHandles
<1>3. Handles(s, dispatch(s, m, v, withheld), m)
  BY DispatchHandles
<1> QED BY <1>2, <1>3 DEF nextMessage

-----------------------------------------------------------------------------
(* Session::next(now) *)

(* A Logon sent while nothing waits.                                       *)
LEMMA SendLogonIdles ==
    ASSUME NEW s, SInv(s), NEW m \in Message, DOMAIN s.queue = {},
           s.resendRange = <<0, 0>>
    PROVE  Idles(s, sendAdmin(s, m))
<1> DEFINE f  == finishSend(s)
           s0 == IF m.flag THEN storeReset(f) ELSE f
           s1 == decideReset(f, m)
           w  == [m EXCEPT !.seq = s1.nextSender]
           goes == \/ m.type \in {"Logon", "Logout", "ResendRequest", "SequenceReset"}
                   \/ isLoggedOn(s)
<1>0. /\ SInv(f) /\ f.sending = 0 /\ Idles(s, f)
      /\ DOMAIN f.queue = {} /\ f.resendRange = <<0, 0>>
  BY FinishStep, FinishLevel, LevelIdles
<1> HIDE DEF f
<1>1. SInv(s1) /\ s1.sending = 0
  BY <1>0, DecideResetStep, TalksCalls
<1>2. Idles(s, s1)
  <2>1. Idles(f, s0) /\ SInv(s0)
    BY <1>0, StoreResetIdles, StoreResetStep, TalksCalls, LevelRefl, LevelIdles
  <2> HIDE DEF s0
  <2>2. Level(s0, [s0 EXCEPT !.sentReset = m.flag])
    BY <2>1 DEF SInv, Fields, Level
  <2>3. Idles(f, [s0 EXCEPT !.sentReset = m.flag]) /\ Idles(f, f)
    BY <2>1, <2>2, LevelRefl, LevelIdles, IdlesTrans
  <2> QED BY <1>0, <2>3, IdlesTrans DEF decideReset, s0
<1> HIDE DEF s1
<1>3. w \in Message /\ w.seq = s1.nextSender
  BY <1>1, SInvFacts DEF Message
<1> HIDE DEF w, goes
<1>4. Idles(s, sendNumbered(s1, w, goes))
  BY <1>1, <1>2, <1>3, SendNumberedLevel, LevelIdles, IdlesTrans
<1> QED BY <1>4 DEF sendAdmin, f, s1, w, goes

(* generateLogon: its resets come before anything waits.                   *)
LEMMA GenerateLogonIdles ==
    ASSUME NEW s, SInv(s), s.responder, ~s.receivedLogon, ~s.sentLogon
    PROVE  Idles(s, generateLogon(s))
<1> DEFINE s1 == IF ResetOnLogon THEN resetUnlocked(s) ELSE s
           e  == IF SendNextExpectedMsgSeqNum THEN s1.nextTarget ELSE 0
           m  == Logon(0, shouldSendReset(s1), e)
           s2 == [s1 EXCEPT !.testRequest = 0, !.sentLogon = TRUE]
<1>1. /\ Idles(s, s1) /\ SInv(s1) /\ s1.responder
      /\ DOMAIN s1.queue = {} /\ s1.resendRange = <<0, 0>>
  <2>1. DOMAIN s.queue = {} /\ s.resendRange = <<0, 0>>
    BY DEF SInv, ConnectionOK
  <2>2. Talks(s, s1) /\ SInv(s1)
    BY ResetUnlockedStep, StepRefl, TalksCalls
  <2>3. s1.responder
    BY <2>2 DEF Talks, Keeps
  <2> QED BY <2>1, <2>2, <2>3, ResetUnlockedIdles, LevelRefl, LevelIdles
<1> HIDE DEF s1
<1>2. m \in Message
  <2>1. shouldSendReset(s1) \in BOOLEAN
    BY DEF shouldSendReset
  <2> QED BY <1>1, <2>1, SInvFacts, LogonType
<1> HIDE DEF m
<1>3. /\ Same(s1, s2, {"receivedLogon", "sentLogon", "testRequest"})
      /\ s2.receivedLogon = s1.receivedLogon /\ s2.sentLogon = TRUE
      /\ s2.testRequest = 0 /\ Level(s1, s2)
  BY <1>1 DEF SInv, Same, Fields, Level
<1> HIDE DEF s2
<1>4. SInv(s2)
  <2>1. s2.sentLogon \in BOOLEAN /\ s2.sentLogon
    BY <1>3
  <2>2. s2.receivedLogon \in BOOLEAN
    BY <1>1, <1>3, SInvFacts
  <2>3. s2.testRequest \in Nat
    BY <1>3
  <2> QED BY <1>1, <1>3, <2>1, <2>2, <2>3, LogonFlagStep
<1>5. DOMAIN s2.queue = {} /\ s2.resendRange = <<0, 0>>
  BY <1>1, <1>3 DEF Level
<1> DEFINE s3 == sendAdmin(s2, m)
<1>6. Idles(s2, s3) /\ SInv(s3)
  BY <1>2, <1>4, <1>5, SendLogonIdles, SendAdminStep, TalksCalls
<1> HIDE DEF s3
<1>7. Idles(s, s3)
  BY <1>1, <1>3, <1>6, LevelIdles, IdlesTrans
<1>8. Idles(s, asksFrom(s3, m.lo))
  BY <1>6, <1>7, AsksFromIdles, IdlesTrans
<1> QED BY <1>8 DEF generateLogon, s1, m, s2, s3

(* next(now) uses up no number of the counterparty.                        *)
LEMMA ClockIdles ==
    ASSUME NEW s, SInv(s), s.responder, NEW passed, NEW sched
    PROVE  Idles(s, clock(s, passed, sched))
<1> DEFINE off  == ~s.enabled \/ ~isLogonTime(sched)
           asks == off /\ isLoggedOn(s) /\ ~s.sentLogout
           s1   == IF asks THEN generateLogout(s) ELSE s
           over == IF asks THEN passed \ {"logout", "beat"} ELSE passed
           s2   == IF s1.sentLogout /\ "logout" \in over THEN disconnect(s1) ELSE s1
<1>1. Idles(s, s1) /\ SInv(s1)
  BY LogoutLevel, LevelRefl, LevelIdles
<1> HIDE DEF s1
<1>2. Idles(s, s2) /\ SInv(s2)
  BY <1>1, PlainDisconnectIdles, PlainDisconnectCall, IdlesTrans
<1> HIDE DEF s2
<1>3. Idles(s2, heartbeatTimers(s2, over))
  <2>1. /\ Idles(s2, s2) /\ Idles(s2, disconnect(s2))
        /\ Idles(s2, generateTestRequest(s2)) /\ Idles(s2, generateHeartbeat(s2))
    BY <1>2, LevelRefl, LevelIdles, PlainDisconnectIdles, TestRequestLevel,
       HeartbeatLevel
  <2> QED BY <2>1 DEF heartbeatTimers
<1>4. Idles(s, heartbeatTimers(s2, over))
  BY <1>2, <1>3, IdlesTrans
<1>5. /\ Idles(s, reset(s)) /\ Idles(s, s) /\ Idles(s, disconnect(s))
  BY ResetIdles, LevelRefl, LevelIdles, PlainDisconnectIdles
<1>6. ~s.receivedLogon /\ shouldSendLogon(s) => Idles(s, generateLogon(s))
  BY GenerateLogonIdles DEF shouldSendLogon
<1> QED BY <1>4, <1>5, <1>6 DEF clock, s1, s2

-----------------------------------------------------------------------------
(* The actions. *)

(* setResponder on a session without a connection.                         *)
LEMMA AttachIdles ==
    ASSUME NEW s, SInv(s), NEW sched
    PROVE  Idles(s, attach(s, sched))
<1> DEFINE s1 == IF checkSessionTime(sched) THEN s ELSE reset(s)
<1>1. Idles(s, s1) /\ SInv(s1)
  BY ResetIdles, ResetCall, LevelRefl, LevelIdles
<1> HIDE DEF s1
<1>2. Level(s1, [s1 EXCEPT !.responder = TRUE])
  BY <1>1 DEF SInv, Fields, Level
<1> QED BY <1>1, <1>2, LevelIdles, IdlesTrans DEF attach, s1

(* acceptLogon: the session it attaches to has nothing that waits, so the  *)
(* resets of the first Logon are harmless.                                 *)
LEMMA AcceptLogonUses ==
    ASSUME NEW s, SInv(s), ~s.responder, NEW m \in Message, m.type = "Logon",
           NEW v \in Verdicts, NEW sched
    PROVE  Uses(s, acceptLogon(s, m, v, sched))
<1> DEFINE a  == attach(s, sched)
           s1 == nextMessage(a, m, v, {}, "open", TRUE)
           t  == [s1 EXCEPT !.responder = FALSE]
           c  == [s EXCEPT !.responder = TRUE]
<1>1. Idles(s, a) /\ SInv(a) /\ a.responder /\ ~a.receivedLogon /\ ~a.sentLogon
  BY AttachIdles, AttachStep
<1>2. Mild(a, m)
  BY <1>1 DEF Mild, SInv, ConnectionOK
<1> HIDE DEF a
<1>3. Uses(a, s1)
  BY <1>1, <1>2, NextMessageHandles DEF Handles
<1>4. Call(a, s1)
  BY <1>1, NextMessageLogonCall
<1> HIDE DEF s1
<1>5. SInv(s1) /\ Uses(s, s1)
  BY <1>1, <1>3, <1>4, UsesTrans DEF Call, Step
<1>6. Level(s1, t)
  BY <1>5 DEF SInv, Fields, Level
<1> HIDE DEF t
<1>7. Uses(s, t)
  BY <1>5, <1>6, LevelIdles, UsesTrans
<1>8. Uses(s, refuseLogon(s))
  <2>1. Level(s, c)
    BY DEF SInv, Fields, Level
  <2>2. SInv(c)
    BY SetResponderStep
  <2> HIDE DEF c
  <2>3. Idles(c, disconnectWith(generateLogout(c), FALSE))
    BY <2>2, LogoutAndDisconnectIdles
  <2>4. Uses(s, disconnectWith(generateLogout(c), FALSE))
    BY <2>1, <2>3, LevelIdles, IdlesTrans, IdlesUses
  <2> QED BY <2>4 DEF refuseLogon, c
<1>9. Uses(s, s)
  BY LevelRefl, LevelIdles, IdlesUses
<1> QED BY <1>5, <1>7, <1>8, <1>9 DEF acceptLogon, a, s1, t

(* A queued message is handled like one from the connection; a queued      *)
(* Logon resets nothing any more.                                          *)
LEMMA DrainOneHandles ==
    ASSUME NEW s, SInv(s), s.receivedLogon \/ s.sentLogon, NEW m \in Message,
           NEW v \in Verdicts, NEW withheld, NEW sched
    PROVE  LET t == drainOne(s, m, v, withheld, sched)
           IN  Handles(s, t, m) /\ Rises(s, t)
<1> DEFINE s1 == queueWithout(s, {m.seq})
           t  == nextMessage(s1, m, v, withheld, sched, FALSE)
<1>1. Talks(s, s1) /\ SInv(s1) /\ Idles(s, s1)
  BY QueueWithoutStep, QueueWithoutIdles
<1>2. s1.responder
  BY <1>1 DEF Talks, Keeps, SInv, ConnectionOK
<1> HIDE DEF s1
<1>3. Talks(s1, consume(s1)) /\ SInv(consume(s1)) /\ Uses(s1, consume(s1))
  BY <1>1, ConsumeStep, ConsumeUses
<1>4. Handles(s, consume(s1), m) /\ Rises(s, consume(s1))
  <2>1. Talks(s, consume(s1))
    BY <1>1, <1>3, TalksTrans
  <2> QED BY <1>1, <1>3, <2>1, UsesTrans, UsesHandles DEF Talks, Step, Rises
<1>5. ASSUME m.type # "Logon" PROVE Handles(s, t, m) /\ Rises(s, t)
  <2>1. Mild(s1, m)
    BY <1>5 DEF Mild
  <2>2. Served(s1, t) /\ Handles(s1, t, m)
    BY <1>1, <1>2, <2>1, NextMessageServes, NextMessageHandles
  <2> HIDE DEF t
  <2>3. SInv(t) /\ Handles(s, t, m)
    BY <1>1, <2>2, HandlesTrans DEF Served
  <2>4. Rises(s, t)
    <3>1. /\ s.nextSender \in Nat /\ s.nextTarget \in Nat
          /\ s1.nextSender \in Nat /\ s1.nextTarget \in Nat
          /\ t.nextSender \in Nat /\ t.nextTarget \in Nat
          /\ s1.wiped \in BOOLEAN /\ t.wiped \in BOOLEAN
      BY <1>1, <2>3, SInvFacts
    <3> QED BY <1>1, <2>2, <3>1 DEF Talks, Step, Served, Rises
  <2> QED BY <2>3, <2>4
<1> QED BY <1>4, <1>5 DEF drainOne, s1, t

(* What the theorems need of a step.                                       *)
Advances ==
    /\ ~st'.wiped =>
        /\ st'.nextSender >= st.nextSender
        /\ st'.nextTarget >= st.nextTarget
        /\ st'.nextTarget > st.nextTarget + 1 =>
                \E m \in handled' : m.type = "SequenceReset"
    /\ PlainRecovery /\ GapAsked(st) => GapAsked(st')

(* Where a step starts: the session as it was, but for what the previous   *)
(* call left in the observers and for a race.                              *)
Starts(f) ==
    /\ SInv(f) /\ f.wiped = FALSE /\ f.initiate = Initiate
    /\ f.nextSender = st.nextSender /\ f.nextTarget = st.nextTarget
    /\ f.queue = st.queue /\ f.resendRange = st.resendRange
    /\ f.asked = st.asked /\ f.responder = st.responder
    /\ f.receivedLogon = st.receivedLogon /\ f.sentLogon = st.sentLogon

(* A step that leaves the result of a call.                                *)
LEMMA LeavesAdvances ==
    ASSUME NEW f, Starts(f), NEW c, SInv(c), Rises(f, c), Leaves(c),
           Uses(f, c) \/ \E m \in handled' : Handles(f, c, m)
    PROVE  Advances
<1> DEFINE t == Released(c)
<1>1. /\ SInv(t) /\ t.wiped = c.wiped /\ t.nextTarget = c.nextTarget
      /\ t.nextSender >= c.nextSender /\ t.queue = c.queue /\ t.asked = c.asked
      /\ t.resendRange = c.resendRange
  BY ReleasedFacts
<1>2. st' = t
  BY DEF Leaves
<1> HIDE DEF t
<1>3. /\ f.nextTarget \in Nat /\ c.nextTarget \in Nat
      /\ f.nextSender \in Nat /\ c.nextSender \in Nat /\ t.nextSender \in Nat
  BY <1>1, SInvFacts DEF Starts
<1>4. PlainRecovery /\ GapAsked(st) => GapAsked(t)
  <2>1. Asks(f, c)
    BY DEF Uses, Handles
  <2> QED BY <1>1, <2>1 DEF Asks, GapAsked, Starts
<1>5. ASSUME ~t.wiped, t.nextTarget > st.nextTarget + 1
      PROVE  \E m \in handled' : m.type = "SequenceReset"
  <2>1. ~Uses(f, c)
    BY <1>1, <1>3, <1>5 DEF Uses, Starts
  <2> QED BY <2>1 DEF Handles
<1>6. ~t.wiped => t.nextSender >= st.nextSender /\ t.nextTarget >= st.nextTarget
  BY <1>1, <1>3 DEF Rises, Starts
<1> QED BY <1>2, <1>4, <1>5, <1>6 DEF Advances

(* Steps that use up nothing of the counterparty's numbers.                *)
LEMMA IdleAdvances ==
    ASSUME NEW f, Starts(f), NEW t, Step(f, t), Idles(f, t), Leaves(t)
    PROVE  Advances
<1>1. SInv(t) /\ Rises(f, t) /\ Uses(f, t)
  BY IdlesUses DEF Step, Rises
<1> QED BY <1>1, LeavesAdvances

(* Every action advances the numbers as NumbersAdvance says, and keeps     *)
(* what waits asked for.                                                   *)
LEMMA NextAdvances ==
    ASSUME Inv, Next
    PROVE  Advances
<1> DEFINE f == Fresh(st)
           g(race) == Racing(st, race)
<1>0. \A race : Starts(g(race))
  BY RacingFacts DEF Inv, Starts
<1>1. Starts(f) /\ f.sending = 0 /\ SInv(st)
  <2>1. /\ f.nextSender = st.nextSender /\ f.asked = st.asked
        /\ f.resendRange = st.resendRange
    BY DEF Inv, SInv, Fields, Fresh
  <2> QED BY <2>1, FreshFacts DEF Inv, Starts
<1>2. \A m \in Inbound : m \in Message
  BY SessionAssumption
<1> HIDE DEF f, g
<1>4. CASE Connect
  <2>1. PICK sched \in Sched : Leaves(attach(f, sched))
    BY <1>4 DEF Connect, f
  <2>2. Step(f, attach(f, sched)) /\ Idles(f, attach(f, sched))
    BY <1>1, <1>4, AttachStep, AttachIdles DEF Connect, Starts
  <2> QED BY <1>1, <2>1, <2>2, IdleAdvances
<1>5. CASE AcceptLogon
  <2>0. PICK m \in Inbound, sched \in Sched :
          /\ m.type = "Logon"
          /\ \E v \in verdicts(m) : Leaves(acceptLogon(f, m, v, sched))
    BY <1>5 DEF AcceptLogon, f
  <2>1. PICK v \in verdicts(m) : Leaves(acceptLogon(f, m, v, sched))
    BY <2>0
  <2> DEFINE t == acceptLogon(f, m, v, sched)
  <2>2. Step(f, t) /\ Uses(f, t)
    BY <1>1, <1>2, <1>5, <2>0, VerdictsType, AcceptLogonStep, AcceptLogonUses
       DEF AcceptLogon, Starts
  <2>3. Leaves(t)
    BY <2>1
  <2> HIDE DEF t
  <2>4. SInv(t) /\ Rises(f, t)
    BY <2>2 DEF Step, Rises
  <2> QED BY <1>1, <2>2, <2>3, <2>4, LeavesAdvances
<1>6. CASE Receive
  <2>0. PICK m \in Inbound, sched \in Sched :
          /\ \E v \in verdicts(m), withheld \in withholdings(m), race \in racesWith(m, sched) :
                Leaves(nextMessage(g(race), m, v, withheld, sched, FALSE))
          /\ handled' = {m}
    BY <1>6 DEF Receive, g
  <2>1. PICK v \in verdicts(m), withheld \in withholdings(m), race \in racesWith(m, sched) :
          Leaves(nextMessage(g(race), m, v, withheld, sched, FALSE))
    BY <2>0
  <2> DEFINE b == g(race)
             t == nextMessage(b, m, v, withheld, sched, FALSE)
  <2>a. Starts(b) /\ b.responder /\ SInv(b)
    BY <1>0, <1>6 DEF Receive, Starts
  <2> HIDE DEF b
  <2>2. Mild(b, m)
    BY <2>a DEF Mild, PlainRecovery, Starts
  <2>3. Served(b, t) /\ Handles(b, t, m)
    BY <1>2, <2>a, <2>2, VerdictsType, NextMessageServes, NextMessageHandles
  <2>4. Leaves(t)
    BY <2>1 DEF b
  <2> HIDE DEF t
  <2>5. SInv(t) /\ Rises(b, t)
    BY <2>3 DEF Served, Rises
  <2>6. \E n \in handled' : Handles(b, t, n)
    BY <2>0, <2>3
  <2> QED BY <2>a, <2>4, <2>5, <2>6, LeavesAdvances
<1>7. CASE Drain
  <2> DEFINE m == st.queue[st.nextTarget]
  <2>0. PICK sched \in Sched, v \in verdicts(m) :
          \E withheld \in withholdings(m), race \in racesWith(m, sched) :
            Leaves(drainOne(g(race), m, v, withheld, sched))
    BY <1>7 DEF Drain, g
  <2>1. PICK withheld \in withholdings(m), race \in racesWith(m, sched) :
          Leaves(drainOne(g(race), m, v, withheld, sched))
    BY <2>0
  <2> DEFINE b == g(race)
  <2>2. m \in Message /\ handled' = {m}
    BY <1>1, <1>7 DEF Drain, SInv, Holds
  <2>3. Starts(b) /\ SInv(b) /\ (b.receivedLogon \/ b.sentLogon)
    BY <1>0, <1>1, <1>7 DEF Drain, SInv, ConnectionOK, Starts
  <2> HIDE DEF m, b
  <2> DEFINE t == drainOne(b, m, v, withheld, sched)
  <2>4. Handles(b, t, m) /\ Rises(b, t) /\ Moves(b, t)
    BY <2>2, <2>3, VerdictsType, DrainOneHandles, DrainOneMoves
  <2>5. Leaves(t)
    BY <2>1 DEF b
  <2> HIDE DEF t
  <2>6. SInv(t) /\ \E n \in handled' : Handles(b, t, n)
    BY <2>2, <2>4 DEF Moves
  <2> QED BY <2>3, <2>4, <2>5, <2>6, LeavesAdvances
<1>8. ASSUME clockAfterMessage
      PROVE  Advances
  <2>0. PICK sched \in Sched, passed \in Elapsed :
          \E race \in races(~checkSessionTime(sched)) :
            Leaves(IF isLoggedOn(st) THEN clock(g(race), passed, sched) ELSE f)
    BY <1>8 DEF clockAfterMessage, f, g
  <2>1. PICK race \in races(~checkSessionTime(sched)) :
          Leaves(IF isLoggedOn(st) THEN clock(g(race), passed, sched) ELSE f)
    BY <2>0
  <2>2. CASE isLoggedOn(st)
    <3> DEFINE b == g(race)
    <3>1. Starts(b) /\ SInv(b) /\ b.responder
      BY <1>0, <1>1, <2>2 DEF isLoggedOn, SInv, ConnectionOK, Starts
    <3>2. Leaves(clock(b, passed, sched))
      BY <2>1, <2>2
    <3> HIDE DEF b
    <3>3. Step(b, clock(b, passed, sched)) /\ Idles(b, clock(b, passed, sched))
      BY <3>1, ClockStep, ClockIdles
    <3> QED BY <3>1, <3>2, <3>3, IdleAdvances
  <2>3. CASE ~isLoggedOn(st)
    <3>1. Step(f, f) /\ Idles(f, f)
      BY <1>1, StepRefl, LevelRefl, LevelIdles DEF Call, Starts
    <3> QED BY <1>1, <2>1, <2>3, <3>1, IdleAdvances
  <2> QED BY <2>2, <2>3
<1>9. CASE ClockInDrain
  BY <1>8, <1>9 DEF ClockInDrain
<1>10. CASE DrainEnds
  BY <1>8, <1>10 DEF DrainEnds
<1>11. CASE Clock
  <2>0. PICK sched \in Sched, passed \in Elapsed :
          \E race \in races(~checkSessionTime(sched) \/ shouldSendLogon(st)) :
            Leaves(clock(g(race), passed, sched))
    BY <1>11 DEF Clock, g
  <2>1. PICK race \in races(~checkSessionTime(sched) \/ shouldSendLogon(st)) :
          Leaves(clock(g(race), passed, sched))
    BY <2>0
  <2> DEFINE b == g(race)
  <2>2. Starts(b) /\ SInv(b) /\ b.responder
    BY <1>0, <1>11 DEF Clock, Starts
  <2>3. Leaves(clock(b, passed, sched))
    BY <2>1
  <2> HIDE DEF b
  <2>4. Step(b, clock(b, passed, sched)) /\ Idles(b, clock(b, passed, sched))
    BY <2>2, ClockStep, ClockIdles
  <2> QED BY <2>2, <2>3, <2>4, IdleAdvances
<1>12. CASE ConnectionLost
  <2>1. Step(f, disconnect(f)) /\ Idles(f, disconnect(f))
    BY <1>1, PlainDisconnectCall, PlainDisconnectIdles DEF Call, Starts
  <2>2. Leaves(disconnect(f))
    BY <1>12 DEF ConnectionLost, f
  <2> QED BY <1>1, <2>1, <2>2, IdleAdvances
<1>13. CASE Send
  <2>1. PICK vetoed \in BOOLEAN : Leaves(sendApp(f, vetoed))
    BY <1>13 DEF Send, f
  <2>2. Step(f, sendApp(f, vetoed)) /\ Idles(f, sendApp(f, vetoed))
    BY <1>1, SendAppStep, SendAppLevel, LevelIdles DEF Talks, Starts
  <2> QED BY <1>1, <2>1, <2>2, IdleAdvances
<1>14. CASE Enable
  <2> DEFINE t == [f EXCEPT !.enabled = ~st.enabled]
  <2>a. SInv(f)
    BY <1>1 DEF Starts
  <2>1. /\ Same(f, t, {"enabled", "sentLogout", "sentReset", "receivedReset",
                       "testRequest", "out", "asked", "owed"})
        /\ t.sentLogout = f.sentLogout
        /\ t.sentReset = f.sentReset /\ t.receivedReset = f.receivedReset
        /\ t.testRequest = f.testRequest
    BY <2>a DEF SInv, Same, Fields
  <2>2. t.enabled \in BOOLEAN
    BY <2>a DEF SInv, Fields
  <2>3. Level(f, t)
    BY <2>a DEF SInv, Fields, Level
  <2>4. Leaves(t)
    BY <1>14 DEF Enable, f
  <2> HIDE DEF t
  <2>5. Step(f, t)
    BY <2>a, <2>1, <2>2, SInvFacts, QuietStep DEF Talks
  <2> QED BY <1>1, <2>3, <2>4, <2>5, LevelIdles, IdleAdvances
<1>15. CASE SendRetransmits
  <2>1. PICK withheld \in Withholdings : Leaves(retransmitOwed(f, withheld))
    BY <1>15 DEF SendRetransmits, f
  <2>2. Step(f, retransmitOwed(f, withheld)) /\ Idles(f, retransmitOwed(f, withheld))
    BY <1>1, RetransmitOwedStep, RetransmitOwedIdles DEF Talks, Starts
  <2> QED BY <1>1, <2>1, <2>2, IdleAdvances
<1> QED BY <1>4, <1>5, <1>6, <1>7, <1>9, <1>10, <1>11, <1>12, <1>13, <1>14, <1>15
     DEF Next

-----------------------------------------------------------------------------
(* The theorems. *)

(* Sequence numbers go back only in MessageStore::reset, and one message   *)
(* other than a SequenceReset uses up at most one number of the            *)
(* counterparty on every path through Session::next: rejected, refused by  *)
(* the application, answered with a Logout, queued or taken from the queue.*)
THEOREM OneNumberPerMessage == Spec => NumbersAdvance
<1>1. Inv /\ [Next]_vars =>
        [~st'.wiped =>
            /\ st'.nextSender >= st.nextSender
            /\ st'.nextTarget >= st.nextTarget
            /\ st'.nextTarget > st.nextTarget + 1 =>
                    \E m \in handled' : m.type = "SequenceReset"]_vars
  BY NextAdvances DEF Advances
<1> QED BY <1>1, InvHolds, PTL DEF Spec, NumbersAdvance

(* doTargetTooHigh: whatever waits in the queue, the gap before it has     *)
(* been asked for on this connection, in every configuration without       *)
(* SendNextExpectedMsgSeqNum in which no Logon resets the numbers of a     *)
(* session that is under way.                                              *)
THEOREM GapsAreRequested ==
    ASSUME PlainRecovery
    PROVE  Spec => []GapRequested
<1>1. Init => GapAsked(st)
  <2>1. Init => st.queue = NoMessages /\ st.resendRange = <<0, 0>>
    BY DEF Init, NewSession
  <2>2. DOMAIN NoMessages = {}
    BY DEF NoMessages
  <2> QED BY <2>1, <2>2 DEF GapAsked
<1>2. Inv /\ GapAsked(st) /\ [Next]_vars => GapAsked(st)'
  <2>1. CASE Next
    BY <2>1, NextAdvances DEF Advances
  <2>2. CASE UNCHANGED vars
    BY <2>2 DEF vars, GapAsked
  <2> QED BY <2>1, <2>2
<1>3. GapAsked(st) => GapRequested
  BY DEF GapAsked, GapRequested
<1> QED BY <1>1, <1>2, <1>3, InvHolds, PTL DEF Spec
=============================================================================

--------------------------- MODULE SessionProofs ---------------------------
(***************************************************************************)
(* Proofs about Session, for all settings, counterparties and bounds.      *)
(*                                                                         *)
(* A call of the code is a composition of small operators on the session   *)
(* state, so the proofs are about operators: SInv is an invariant of the   *)
(* session state that every operator of SessionCore and SessionHandlers    *)
(* keeps, and Step, Talks, Call and Served relate the state before a call  *)
(* to the state after it.  The theorems at the end follow from one lemma   *)
(* per action.                                                             *)
(* The invariant must say more than the properties: that a session without *)
(* a connection has neither Logon flag (otherwise a Logon reply could be   *)
(* recorded for nobody), and that the store is complete at every operator, *)
(* because persist() extends it by one number only.  Within a step, a send *)
(* that a reset overtook is still to use number 1 (SendOK), so it must end *)
(* before the network thread sends.                                        *)
(***************************************************************************)
EXTENDS Session, TLAPS

Fields ==
    {"initiate", "enabled", "receivedLogon", "sentLogon", "sentLogout",
     "sentReset", "receivedReset", "testRequest", "queue", "resendRange",
     "nextSender", "nextTarget", "store", "responder", "out", "got", "wiped",
     "asked", "owed", "race", "sending", "torn"}

(* Queue and store hold messages under their own numbers.                  *)
Holds(f) == \A n \in DOMAIN f : f[n] \in Message /\ f[n].seq = n

FlagsTyped(s) ==
    /\ s.initiate \in BOOLEAN /\ s.enabled \in BOOLEAN /\ s.responder \in BOOLEAN
    /\ s.receivedLogon \in BOOLEAN /\ s.sentLogon \in BOOLEAN
    /\ s.sentLogout \in BOOLEAN /\ s.wiped \in BOOLEAN
    /\ s.receivedReset \in BOOLEAN /\ s.sentReset \in BOOLEAN
    /\ s.testRequest \in Nat

NumbersTyped(s) == s.nextSender \in Nat \ {0} /\ s.nextTarget \in Nat \ {0}

StoreOK(s) ==
    /\ Holds(s.store)
    /\ IF s.torn
       THEN PersistMessages => 2 .. (s.nextSender - 1) \subseteq DOMAIN s.store
       ELSE DOMAIN s.store = IF PersistMessages THEN 1 .. (s.nextSender - 1) ELSE {}

(* A send that a reset overtook is the next to use a number.               *)
SendOK(s) ==
    /\ s.sending \in Nat /\ s.torn \in BOOLEAN
    /\ s.sending # 0 => s.nextSender = 1

RangeOK(s) ==
    /\ s.resendRange \in Nat \X Nat
    /\ s.resendRange # <<0, 0>> => s.resendRange[1] > 0

ConnectionOK(s) ==
    /\ s.receivedLogon \/ s.sentLogon => s.responder
    /\ ~s.receivedLogon /\ ~s.sentLogon =>
            DOMAIN s.queue = {} /\ s.resendRange = <<0, 0>>

(* The invariant of a session state between any two operators.             *)
SInv(s) ==
    /\ DOMAIN s = Fields
    /\ FlagsTyped(s)
    /\ NumbersTyped(s)
    /\ Holds(s.queue)
    /\ StoreOK(s)
    /\ SendOK(s)
    /\ RangeOK(s)
    /\ ConnectionOK(s)

(* s and t differ in the fields F only.                                    *)
Same(s, t, F) == DOMAIN t = Fields /\ \A f \in Fields \ F : t[f] = s[f]

(* What a call that delivers nothing may do to the numbers.                *)
Step(s, t) ==
    /\ SInv(t)
    /\ t.initiate = s.initiate
    /\ s.wiped => t.wiped
    /\ ~t.wiped => t.nextSender >= s.nextSender /\ t.nextTarget >= s.nextTarget
    /\ t.got = s.got

(* Both Logon flags and the connection stay as they are.                   *)
Keeps(s, t) ==
    /\ t.receivedLogon = s.receivedLogon
    /\ t.sentLogon = s.sentLogon
    /\ t.responder = s.responder

(* A Logon is sent only as an answer, and forgotten together with the one  *)
(* received.                                                               *)
Answers(s, t) ==
    /\ s.receivedLogon /\ ~t.receivedLogon => ~t.sentLogon
    /\ t.sentLogon => s.sentLogon \/ t.receivedLogon

Talks(s, t) == Step(s, t) /\ Keeps(s, t)
Call(s, t) == Step(s, t) /\ Answers(s, t)

(* As Call, but the message that was expected may have been delivered.     *)
Served(s, t) ==
    /\ SInv(t)
    /\ Answers(s, t)
    /\ t.initiate = s.initiate
    /\ s.wiped => t.wiped
    /\ ~t.wiped => t.nextSender >= s.nextSender /\ t.nextTarget >= s.nextTarget
    /\ \/ t.got = s.got
       \/ t.got = Append(s.got, s.nextTarget) /\ t.nextTarget > s.nextTarget

(* What both have in common: enough for an action of Session.              *)
Moves(s, t) ==
    /\ SInv(t)
    /\ t.initiate = s.initiate
    /\ ~t.wiped => t.nextTarget >= s.nextTarget
    /\ \/ t.got = s.got
       \/ t.got = Append(s.got, s.nextTarget) /\ t.nextTarget > s.nextTarget

(* The inductive invariant of Session.                                     *)
Inv ==
    /\ SInv(st)
    /\ st.initiate = Initiate
    /\ st.sending = 0 /\ st.race = "none"
    /\ phase \in {"idle", "drain", "clock"}
    /\ delivered \in Nat
    /\ delivered < st.nextTarget

-----------------------------------------------------------------------------
(* Composing steps. *)

(* The types SInv gives, in the form the solvers use them.                 *)
LEMMA SInvFacts ==
    ASSUME NEW s, SInv(s)
    PROVE  /\ s.nextSender \in Nat /\ s.nextTarget \in Nat
           /\ s.nextSender > 0 /\ s.nextTarget > 0
           /\ s.wiped \in BOOLEAN /\ s.receivedLogon \in BOOLEAN
           /\ s.sentLogon \in BOOLEAN /\ s.responder \in BOOLEAN
           /\ s.initiate \in BOOLEAN /\ s.sentLogout \in BOOLEAN
           /\ s.testRequest \in Nat /\ s.enabled \in BOOLEAN
           /\ s.receivedReset \in BOOLEAN /\ s.sentReset \in BOOLEAN
BY DEF SInv, NumbersTyped, FlagsTyped

(* Doing nothing is a step.                                                *)
LEMMA StepRefl ==
    ASSUME NEW s, SInv(s)
    PROVE  Talks(s, s) /\ Call(s, s)
BY SInvFacts DEF Talks, Call, Step, Keeps, Answers

(* Steps compose.                                                          *)
LEMMA StepTrans ==
    ASSUME NEW s, NEW t, NEW u, SInv(s), Step(s, t), Step(t, u)
    PROVE  Step(s, u)
<1>1. SInv(t) /\ SInv(u)
  BY DEF Step
<1>2. /\ s.nextSender \in Nat /\ s.nextTarget \in Nat /\ s.wiped \in BOOLEAN
      /\ t.nextSender \in Nat /\ t.nextTarget \in Nat /\ t.wiped \in BOOLEAN
      /\ u.nextSender \in Nat /\ u.nextTarget \in Nat /\ u.wiped \in BOOLEAN
  BY <1>1, SInvFacts
<1> QED BY <1>1, <1>2 DEF Step

(* Steps that keep the Logon flags compose.                                *)
LEMMA TalksTrans ==
    ASSUME NEW s, NEW t, NEW u, SInv(s), Talks(s, t), Talks(t, u)
    PROVE  Talks(s, u)
BY StepTrans DEF Talks, Keeps

(* Calls compose.                                                          *)
LEMMA CallTrans ==
    ASSUME NEW s, NEW t, NEW u, SInv(s), Call(s, t), Call(t, u)
    PROVE  Call(s, u)
<1>1. SInv(t) /\ SInv(u) /\ Step(s, u)
  BY StepTrans DEF Call, Step
<1> QED BY <1>1 DEF Call, Answers

(* A step that keeps the Logon flags is a call.                            *)
LEMMA TalksCalls ==
    ASSUME NEW s, NEW t, SInv(s), Talks(s, t)
    PROVE  Call(s, t) /\ SInv(t)
BY DEF Talks, Call, Answers, Keeps, Step

-----------------------------------------------------------------------------
(* The elementary changes of a session state. *)

(* A step that touches only flags, timers and observers.                   *)
LEMMA QuietStep ==
    ASSUME NEW s, NEW t, SInv(s),
           Same(s, t, {"enabled", "sentLogout", "sentReset", "receivedReset",
                       "testRequest", "out", "asked", "owed"}),
           t.enabled \in BOOLEAN, t.sentLogout \in BOOLEAN,
           t.sentReset \in BOOLEAN, t.receivedReset \in BOOLEAN,
           t.testRequest \in Nat
    PROVE  Talks(s, t)
<1>1. /\ DOMAIN t = Fields
      /\ t.initiate = s.initiate /\ t.receivedLogon = s.receivedLogon
      /\ t.sending = s.sending /\ t.torn = s.torn
      /\ t.sentLogon = s.sentLogon /\ t.queue = s.queue
      /\ t.resendRange = s.resendRange /\ t.nextSender = s.nextSender
      /\ t.nextTarget = s.nextTarget /\ t.store = s.store
      /\ t.responder = s.responder /\ t.got = s.got /\ t.wiped = s.wiped
  BY DEF Same, Fields
<1>2. SInv(t)
  BY <1>1 DEF SInv, FlagsTyped, NumbersTyped, StoreOK, SendOK, RangeOK, ConnectionOK
<1> QED BY <1>1, <1>2, SInvFacts DEF Talks, Step, Keeps

(* A step that touches only the queue and the resend range.                *)
LEMMA QueueStep ==
    ASSUME NEW s, NEW t, SInv(s),
           Same(s, t, {"queue", "resendRange", "testRequest", "asked"}),
           Holds(t.queue), RangeOK(t), t.testRequest \in Nat,
           \/ s.receivedLogon \/ s.sentLogon
           \/ DOMAIN t.queue = {} /\ t.resendRange = <<0, 0>>
    PROVE  Talks(s, t) /\ t.nextTarget = s.nextTarget /\ t.wiped = s.wiped
<1>1. /\ DOMAIN t = Fields
      /\ t.initiate = s.initiate /\ t.receivedLogon = s.receivedLogon
      /\ t.sending = s.sending /\ t.torn = s.torn
      /\ t.sentLogon = s.sentLogon /\ t.nextSender = s.nextSender
      /\ t.nextTarget = s.nextTarget /\ t.store = s.store
      /\ t.responder = s.responder /\ t.got = s.got /\ t.wiped = s.wiped
      /\ t.enabled = s.enabled /\ t.sentLogout = s.sentLogout
      /\ t.sentReset = s.sentReset /\ t.receivedReset = s.receivedReset
  BY DEF Same, Fields
<1>2. SInv(t)
  BY <1>1 DEF SInv, FlagsTyped, NumbersTyped, StoreOK, SendOK, ConnectionOK
<1> QED BY <1>1, <1>2, SInvFacts DEF Talks, Step, Keeps

(* setNextTargetMsgSeqNum to a number not below the current one.           *)
LEMMA TargetStep ==
    ASSUME NEW s, NEW n \in Nat, SInv(s), n >= s.nextTarget
    PROVE  LET t == [s EXCEPT !.nextTarget = n]
           IN  Talks(s, t) /\ t.nextTarget = n /\ t.queue = s.queue
               /\ t.wiped = s.wiped /\ t.sending = s.sending
<1> DEFINE t == [s EXCEPT !.nextTarget = n]
<1>1. /\ DOMAIN t = Fields
      /\ t.initiate = s.initiate /\ t.receivedLogon = s.receivedLogon
      /\ t.sending = s.sending /\ t.torn = s.torn
      /\ t.sentLogon = s.sentLogon /\ t.queue = s.queue
      /\ t.resendRange = s.resendRange /\ t.nextSender = s.nextSender
      /\ t.nextTarget = n /\ t.store = s.store
      /\ t.responder = s.responder /\ t.got = s.got /\ t.wiped = s.wiped
      /\ t.enabled = s.enabled /\ t.sentLogout = s.sentLogout
      /\ t.sentReset = s.sentReset /\ t.receivedReset = s.receivedReset
      /\ t.testRequest = s.testRequest
  BY DEF SInv, Fields
<1> HIDE DEF t
<1>2. n \in Nat \ {0}
  BY SInvFacts
<1>3. SInv(t)
  BY <1>1, <1>2 DEF SInv, FlagsTyped, NumbersTyped, StoreOK, SendOK, RangeOK, ConnectionOK
<1>4. Talks(s, t)
  BY <1>1, <1>3, SInvFacts DEF Talks, Step, Keeps
<1> QED BY <1>1, <1>4 DEF t

(* MessageStore::reset keeps the invariant.                                *)
LEMMA StoreResetStep ==
    ASSUME NEW s, SInv(s)
    PROVE  LET t == storeReset(s)
           IN  /\ Talks(s, t) /\ t.nextSender = 1 /\ t.nextTarget = 1
               /\ t.sending = s.sending
<1> DEFINE t == storeReset(s)
<1>1. /\ DOMAIN t = Fields
      /\ t.initiate = s.initiate /\ t.receivedLogon = s.receivedLogon
      /\ t.sending = s.sending /\ t.torn = FALSE
      /\ t.sentLogon = s.sentLogon /\ t.queue = s.queue
      /\ t.resendRange = s.resendRange /\ t.nextSender = 1
      /\ t.nextTarget = 1 /\ t.store = NoMessages
      /\ t.responder = s.responder /\ t.got = s.got /\ t.wiped = TRUE
      /\ t.enabled = s.enabled /\ t.sentLogout = s.sentLogout
      /\ t.sentReset = s.sentReset /\ t.receivedReset = s.receivedReset
      /\ t.testRequest = s.testRequest
  BY DEF SInv, Fields, storeReset
<1> HIDE DEF t
<1>2. StoreOK(t)
  <2>1. DOMAIN t.store = {}
    BY <1>1 DEF NoMessages
  <2>2. 1 .. (t.nextSender - 1) = {}
    BY <1>1
  <2> QED BY <1>1, <2>1, <2>2 DEF StoreOK, Holds
<1>3. SInv(t)
  <2>0. t.torn \in BOOLEAN /\ s.sending \in Nat
    BY <1>1 DEF SInv, SendOK
  <2>1. NumbersTyped(t) /\ SendOK(t)
    BY <1>1, <2>0 DEF NumbersTyped, SendOK
  <2>2. FlagsTyped(t)
    BY <1>1 DEF SInv, FlagsTyped
  <2> QED BY <1>1, <1>2, <2>1, <2>2 DEF SInv, RangeOK, ConnectionOK
<1>4. Talks(s, t)
  BY <1>1, <1>3 DEF Talks, Step, Keeps
<1> QED BY <1>1, <1>4 DEF t

(* persist() of a message under the number sent next keeps the store       *)
(* complete.                                                               *)
LEMMA PersistStep ==
    ASSUME NEW s, SInv(s), s.sending = 0, NEW m \in Message, m.seq = s.nextSender
    PROVE  Talks(s, persist(s, m))
<1> DEFINE t == persist(s, m)
<1>1. /\ DOMAIN t = Fields
      /\ t.initiate = s.initiate /\ t.receivedLogon = s.receivedLogon
      /\ t.sending = s.sending /\ t.torn = s.torn
      /\ t.sentLogon = s.sentLogon /\ t.queue = s.queue
      /\ t.resendRange = s.resendRange /\ t.nextSender = s.nextSender + 1
      /\ t.nextTarget = s.nextTarget
      /\ t.responder = s.responder /\ t.got = s.got /\ t.wiped = s.wiped
      /\ t.enabled = s.enabled /\ t.sentLogout = s.sentLogout
      /\ t.sentReset = s.sentReset /\ t.receivedReset = s.receivedReset
      /\ t.testRequest = s.testRequest
  BY DEF SInv, Fields, persist
<1>2. t.store = IF PersistMessages
                THEN [n \in DOMAIN s.store \cup {m.seq} |->
                         IF n = m.seq THEN m ELSE s.store[n]]
                ELSE s.store
  BY DEF SInv, Fields, persist
<1> HIDE DEF t
<1>3. s.nextSender \in Nat /\ s.nextSender > 0 /\ s.nextTarget \in Nat
  BY SInvFacts
<1>4. Holds(t.store)
  BY <1>2 DEF Holds, SInv, StoreOK
<1>5. StoreOK(t)
  <2>1. CASE PersistMessages
    <3>1. DOMAIN t.store = DOMAIN s.store \cup {s.nextSender}
      BY <1>2, <2>1
    <3>2. 1 .. (s.nextSender - 1) \cup {s.nextSender} = 1 .. s.nextSender
      BY <1>3
    <3>3. 2 .. s.nextSender \subseteq 2 .. (s.nextSender - 1) \cup {s.nextSender}
      BY <1>3
    <3>4. t.nextSender - 1 = s.nextSender
      BY <1>1, <1>3
    <3>5. CASE s.torn
      BY <1>1, <1>4, <2>1, <3>1, <3>3, <3>4, <3>5 DEF SInv, StoreOK
    <3>6. CASE ~s.torn
      BY <1>1, <1>4, <2>1, <3>1, <3>2, <3>4, <3>6 DEF SInv, StoreOK
    <3> QED BY <3>5, <3>6
  <2>2. CASE ~PersistMessages
    BY <1>1, <1>2, <1>4, <2>2 DEF SInv, StoreOK
  <2> QED BY <2>1, <2>2
<1>6. SInv(t)
  BY <1>1, <1>3, <1>5 DEF SInv, SendOK, FlagsTyped, NumbersTyped, RangeOK, ConnectionOK
<1>7. t.nextSender >= s.nextSender /\ t.nextTarget >= s.nextTarget
  BY <1>1, <1>3
<1>8. Talks(s, t)
  BY <1>1, <1>6, <1>7 DEF Talks, Step, Keeps
<1> QED BY <1>8 DEF t

-----------------------------------------------------------------------------
(* Sending. *)

(* Plain messages are messages.                                            *)
LEMMA PlainType ==
    ASSUME NEW t \in MsgTypes, NEW n \in Nat
    PROVE  Plain(t, n) \in Message /\ Plain(t, n).seq = n /\ Plain(t, n).type = t
BY DEF Plain, Message, Grades

(* Resend requests are messages.                                           *)
LEMMA RequestType ==
    ASSUME NEW n \in Nat, NEW b \in Nat, NEW e \in Nat
    PROVE  ResendRequest(n, b, e) \in Message
BY DEF ResendRequest, Plain, Message, Grades, MsgTypes, AdminTypes

(* Logons are messages.                                                    *)
LEMMA LogonType ==
    ASSUME NEW n \in Nat, NEW r \in BOOLEAN, NEW e \in Nat
    PROVE  Logon(n, r, e) \in Message
BY DEF Logon, Plain, Message, Grades, MsgTypes, AdminTypes

(* Gap fills are messages.                                                 *)
LEMMA GapFillType ==
    ASSUME NEW n \in Nat, NEW e \in Nat
    PROVE  GapFill(n, e) \in Message
BY DEF GapFill, Plain, Message, Grades, MsgTypes, AdminTypes

(* Handing messages to the responder changes no number.                    *)
LEMMA SendAllStep ==
    ASSUME NEW s, SInv(s), NEW ms
    PROVE  Talks(s, sendAll(s, ms))
<1>1. CASE s.responder
  <2> DEFINE t == [s EXCEPT !.out = @ \o ms]
  <2>1. /\ Same(s, t, {"enabled", "sentLogout", "sentReset", "receivedReset",
                       "testRequest", "out", "asked", "owed"})
        /\ t.enabled = s.enabled /\ t.sentLogout = s.sentLogout
        /\ t.sentReset = s.sentReset /\ t.receivedReset = s.receivedReset
        /\ t.testRequest = s.testRequest
    BY DEF SInv, Same, Fields
  <2> HIDE DEF t
  <2>2. Talks(s, t)
    BY <2>1, SInvFacts, QuietStep
  <2> QED BY <1>1, <2>2 DEF sendAll, t
<1>2. CASE ~s.responder
  BY <1>2, StepRefl DEF sendAll
<1> QED BY <1>1, <1>2

(* A message with the next number is persisted and handed over.            *)
LEMMA SendNumberedStep ==
    ASSUME NEW s, SInv(s), s.sending = 0, NEW m \in Message, m.seq = s.nextSender,
           NEW goes
    PROVE  Talks(s, sendNumbered(s, m, goes))
<1> DEFINE s1 == persist(s, m)
           ms == IF goes THEN <<m>> ELSE <<>>
<1>1. Talks(s, s1) /\ SInv(s1)
  BY PersistStep, TalksCalls
<1> HIDE DEF s1, ms
<1>2. Talks(s, sendAll(s1, ms))
  BY <1>1, SendAllStep, TalksTrans
<1> QED BY <1>2 DEF sendNumbered, s1, ms

(* The end of a send that a reset overtook: it uses number 1.              *)
LEMMA FinishStep ==
    ASSUME NEW s, SInv(s)
    PROVE  LET t == finishSend(s)
           IN  /\ Talks(s, t) /\ SInv(t) /\ t.sending = 0
               /\ t.wiped = s.wiped /\ t.nextTarget = s.nextTarget
               /\ t.queue = s.queue /\ t.asked = s.asked
               /\ t.resendRange = s.resendRange /\ t.receivedReset = s.receivedReset
<1> DEFINE m  == Plain("App", s.sending)
           p  == persist(s, m)
           i  == [s EXCEPT !.nextSender = @ + 1]
           s1 == IF s.race \in {"saved", "savedHeld"} THEN i ELSE p
           ms == IF isLoggedOn(s) THEN <<m>> ELSE <<>>
           s2 == sendAll(s1, ms)
           t  == [s2 EXCEPT !.sending = 0, !.race = "none", !.torn = TRUE]
<1>1. CASE s.sending = 0
  <2>1. finishSend(s) = s
    BY <1>1 DEF finishSend
  <2> QED BY <1>1, <2>1, StepRefl
<1>2. CASE s.sending # 0
  <2>1. s.sending \in Nat /\ s.nextSender = 1 /\ DOMAIN s = Fields /\ Holds(s.store)
    BY <1>2 DEF SInv, SendOK, StoreOK
  <2>2. m \in Message /\ m.seq = s.sending
    BY <2>1, PlainType DEF MsgTypes
  <2> HIDE DEF m
  <2>b. DOMAIN p = DOMAIN s
    BY DEF persist
  <2>c. p.nextSender = 2
    BY <2>1 DEF persist, Fields
  <2>d. \A f \in DOMAIN s \ {"store", "nextSender"} : p[f] = s[f]
    BY DEF persist
  <2>3. /\ DOMAIN p = Fields /\ p.nextSender = 2
        /\ \A f \in Fields \ {"store", "nextSender"} : p[f] = s[f]
    BY <2>1, <2>b, <2>c, <2>d
  <2>a. p.store = IF PersistMessages
                  THEN [n \in DOMAIN s.store \cup {m.seq} |->
                           IF n = m.seq THEN m ELSE s.store[n]]
                  ELSE s.store
    BY <2>1 DEF persist, Fields
  <2>4. /\ DOMAIN i = Fields /\ i.nextSender = 2 /\ i.store = s.store
        /\ \A f \in Fields \ {"store", "nextSender"} : i[f] = s[f]
    BY <2>1 DEF Fields
  <2>5. Holds(p.store) /\ Holds(i.store)
    BY <2>1, <2>2, <2>a, <2>4 DEF Holds
  <2> HIDE DEF p, i
  <2>6. /\ DOMAIN s1 = Fields /\ s1.nextSender = 2 /\ Holds(s1.store)
        /\ \A f \in Fields \ {"store", "nextSender"} : s1[f] = s[f]
    BY <2>3, <2>4, <2>5
  <2> HIDE DEF s1, ms
  <2>7. /\ DOMAIN t = Fields /\ t.nextSender = 2 /\ t.store = s1.store
        /\ t.sending = 0 /\ t.torn = TRUE
        /\ \A f \in Fields \ {"store", "nextSender", "sending", "race", "torn", "out"} :
               t[f] = s[f]
    BY <2>6 DEF sendAll, Fields
  <2> HIDE DEF t
  <2>8. /\ t.initiate = s.initiate /\ t.receivedLogon = s.receivedLogon
        /\ t.sentLogon = s.sentLogon /\ t.queue = s.queue
        /\ t.resendRange = s.resendRange /\ t.nextTarget = s.nextTarget
        /\ t.responder = s.responder /\ t.got = s.got /\ t.wiped = s.wiped
        /\ t.enabled = s.enabled /\ t.sentLogout = s.sentLogout
        /\ t.sentReset = s.sentReset /\ t.receivedReset = s.receivedReset
        /\ t.testRequest = s.testRequest /\ t.asked = s.asked
    BY <2>7 DEF Fields
  <2>9. StoreOK(t) /\ SendOK(t) /\ NumbersTyped(t)
    <3>1. 2 .. (t.nextSender - 1) = {}
      BY <2>7
    <3>2. t.sending \in Nat /\ t.nextSender \in Nat \ {0}
      BY <2>7
    <3>4. t.torn \in BOOLEAN
      BY <2>7
    <3>3. t.nextTarget \in Nat \ {0}
      BY <2>8 DEF SInv, NumbersTyped
    <3> QED BY <2>6, <2>7, <3>1, <3>2, <3>3, <3>4 DEF StoreOK, SendOK, NumbersTyped
  <2>10. SInv(t)
    BY <2>7, <2>8, <2>9 DEF SInv, FlagsTyped, RangeOK, ConnectionOK
  <2>11. Talks(s, t)
    BY <2>1, <2>7, <2>8, <2>10, SInvFacts DEF Talks, Step, Keeps
  <2>12. finishSend(s) = t
    BY <1>2 DEF finishSend, t, s2, s1, ms, p, i, m
  <2> QED BY <2>7, <2>8, <2>10, <2>11, <2>12
<1> QED BY <1>1, <1>2

(* A reset outside m_mutex keeps the invariant, also when it overtakes a   *)
(* send.                                                                   *)
LEMMA ResetUnlockedStep ==
    ASSUME NEW s, SInv(s)
    PROVE  LET t == resetUnlocked(s)
           IN  /\ Talks(s, t) /\ SInv(t) /\ t.nextTarget = 1 /\ t.wiped = TRUE
               /\ t.queue = s.queue /\ t.resendRange = s.resendRange
<1> DEFINE r  == storeReset(s)
           s1 == [r EXCEPT !.sending = s.nextSender]
<1>1. /\ Talks(s, r) /\ SInv(r) /\ r.nextSender = 1 /\ r.nextTarget = 1
      /\ r.wiped = TRUE /\ r.queue = s.queue /\ r.resendRange = s.resendRange
  BY StoreResetStep, TalksCalls DEF storeReset, SInv, Fields
<1> HIDE DEF r
<1>2. /\ DOMAIN s1 = Fields /\ s1.sending = s.nextSender
      /\ s1.initiate = r.initiate /\ s1.receivedLogon = r.receivedLogon
      /\ s1.sentLogon = r.sentLogon /\ s1.queue = r.queue
      /\ s1.resendRange = r.resendRange /\ s1.nextSender = 1
      /\ s1.nextTarget = 1 /\ s1.store = r.store /\ s1.torn = r.torn
      /\ s1.responder = r.responder /\ s1.got = r.got /\ s1.wiped = TRUE
      /\ s1.enabled = r.enabled /\ s1.sentLogout = r.sentLogout
      /\ s1.sentReset = r.sentReset /\ s1.receivedReset = r.receivedReset
      /\ s1.testRequest = r.testRequest
  BY <1>1 DEF SInv, Fields
<1> HIDE DEF s1
<1>3. SInv(s1)
  <2>1. SendOK(s1)
    BY <1>1, <1>2, SInvFacts DEF SInv, SendOK
  <2> QED BY <1>1, <1>2, <2>1
       DEF SInv, FlagsTyped, NumbersTyped, StoreOK, RangeOK, ConnectionOK
<1>4. Talks(r, s1)
  BY <1>1, <1>2, <1>3 DEF Talks, Step, Keeps
<1>5. Talks(s, s1)
  BY <1>1, <1>4, TalksTrans
<1> DEFINE u == finishSend(s1)
<1>6. /\ Talks(s1, u) /\ SInv(u) /\ u.nextTarget = 1 /\ u.wiped = TRUE
      /\ u.queue = s1.queue /\ u.resendRange = s1.resendRange
  BY <1>2, <1>3, FinishStep
<1> HIDE DEF u
<1>7. Talks(s, u)
  BY <1>5, <1>6, TalksTrans
<1> QED BY <1>1, <1>2, <1>3, <1>5, <1>6, <1>7 DEF resetUnlocked, r, s1, u

(* What a Logon decides about a reset keeps the invariant.                 *)
LEMMA DecideResetStep ==
    ASSUME NEW s, SInv(s), NEW m \in Message
    PROVE  Talks(s, decideReset(s, m)) /\ decideReset(s, m).sending = s.sending
<1> DEFINE s1 == IF m.flag THEN storeReset(s) ELSE s
           t  == [s1 EXCEPT !.sentReset = m.flag]
<1>1. Talks(s, s1) /\ SInv(s1) /\ s1.sending = s.sending
  BY StoreResetStep, StepRefl, TalksCalls
<1> HIDE DEF s1
<1>2. /\ t.sending = s1.sending
      /\ Same(s1, t, {"enabled", "sentLogout", "sentReset", "receivedReset",
                      "testRequest", "out", "asked", "owed"})
      /\ t.enabled = s1.enabled /\ t.sentLogout = s1.sentLogout
      /\ t.sentReset = m.flag /\ t.receivedReset = s1.receivedReset
      /\ t.testRequest = s1.testRequest
  BY <1>1 DEF SInv, Same, Fields
<1>3. m.flag \in BOOLEAN
  BY DEF Message
<1> HIDE DEF t
<1>4. Talks(s1, t)
  BY <1>1, <1>2, <1>3, SInvFacts, QuietStep
<1>5. Talks(s, t)
  BY <1>1, <1>4, TalksTrans
<1> QED BY <1>1, <1>2, <1>5, StepRefl DEF decideReset, s1, t

(* sendRaw of an administrative message keeps the invariant.               *)
LEMMA SendAdminStep ==
    ASSUME NEW s, SInv(s), NEW m \in Message
    PROVE  Talks(s, sendAdmin(s, m))
<1> DEFINE s0 == finishSend(s)
           s1 == decideReset(s0, m)
           w  == [m EXCEPT !.seq = s1.nextSender]
           goes == \/ m.type \in {"Logon", "Logout", "ResendRequest", "SequenceReset"}
                   \/ isLoggedOn(s)
<1>0. Talks(s, s0) /\ SInv(s0) /\ s0.sending = 0
  BY FinishStep
<1> HIDE DEF s0
<1>1. Talks(s, s1) /\ SInv(s1) /\ s1.sending = 0
  BY <1>0, DecideResetStep, TalksTrans, TalksCalls
<1> HIDE DEF s1
<1>2. w \in Message /\ w.seq = s1.nextSender
  BY <1>1, SInvFacts DEF Message
<1> HIDE DEF w, goes
<1>3. Talks(s, sendNumbered(s1, w, goes))
  BY <1>1, <1>2, SendNumberedStep, TalksTrans
<1> QED BY <1>3 DEF sendAdmin, s0, s1, w, goes

(* sendRaw of an application message keeps the invariant.                  *)
LEMMA SendAppStep ==
    ASSUME NEW s, SInv(s), s.sending = 0, NEW vetoed \in BOOLEAN
    PROVE  Talks(s, sendApp(s, vetoed))
<1> DEFINE m  == Plain("App", s.nextSender)
<1>1. m \in Message /\ m.seq = s.nextSender
  BY SInvFacts, PlainType DEF MsgTypes
<1>2. Talks(s, sendNumbered(s, m, isLoggedOn(s)))
  BY <1>1, SendNumberedStep
<1> QED BY <1>2, StepRefl DEF sendApp

(* sentLogout(true) alone.                                                 *)
LEMMA SetSentLogout ==
    ASSUME NEW s, SInv(s)
    PROVE  Talks(s, [s EXCEPT !.sentLogout = TRUE])
<1> DEFINE t == [s EXCEPT !.sentLogout = TRUE]
<1>1. /\ Same(s, t, {"enabled", "sentLogout", "sentReset", "receivedReset",
                     "testRequest", "out", "asked", "owed"})
      /\ t.enabled = s.enabled /\ t.sentLogout = TRUE
      /\ t.sentReset = s.sentReset /\ t.receivedReset = s.receivedReset
      /\ t.testRequest = s.testRequest
  BY DEF SInv, Same, Fields
<1> HIDE DEF t
<1>2. Talks(s, t)
  BY <1>1, SInvFacts, QuietStep
<1> QED BY <1>2 DEF t

(* testRequest(n) alone.                                                   *)
LEMMA SetTestRequest ==
    ASSUME NEW s, SInv(s), NEW n \in Nat
    PROVE  Talks(s, [s EXCEPT !.testRequest = n])
<1> DEFINE t == [s EXCEPT !.testRequest = n]
<1>1. /\ Same(s, t, {"enabled", "sentLogout", "sentReset", "receivedReset",
                     "testRequest", "out", "asked", "owed"})
      /\ t.enabled = s.enabled /\ t.sentLogout = s.sentLogout
      /\ t.sentReset = s.sentReset /\ t.receivedReset = s.receivedReset
      /\ t.testRequest = n
  BY DEF SInv, Same, Fields
<1> HIDE DEF t
<1>2. Talks(s, t)
  BY <1>1, SInvFacts, QuietStep
<1> QED BY <1>2 DEF t

(* generateLogout keeps the invariant and the connection.                  *)
LEMMA LogoutStep ==
    ASSUME NEW s, SInv(s)
    PROVE  Talks(s, generateLogout(s))
<1> DEFINE s1 == sendAdmin(s, Plain("Logout", 0))
<1>1. Talks(s, s1) /\ SInv(s1)
  BY SendAdminStep, PlainType, TalksCalls DEF MsgTypes, AdminTypes
<1> HIDE DEF s1
<1>2. Talks(s, [s1 EXCEPT !.sentLogout = TRUE])
  BY <1>1, SetSentLogout, TalksTrans
<1> QED BY <1>2 DEF generateLogout, s1

(* generateHeartbeat keeps the invariant and the connection.               *)
LEMMA HeartbeatStep ==
    ASSUME NEW s, SInv(s)
    PROVE  Talks(s, generateHeartbeat(s))
BY SendAdminStep, PlainType DEF generateHeartbeat, MsgTypes, AdminTypes

(* generateTestRequest keeps the invariant and the connection.             *)
LEMMA TestRequestStep ==
    ASSUME NEW s, SInv(s)
    PROVE  Talks(s, generateTestRequest(s))
<1> DEFINE s1 == sendAdmin(s, Plain("TestRequest", 0))
<1>1. Talks(s, s1) /\ SInv(s1)
  BY SendAdminStep, PlainType, TalksCalls DEF MsgTypes, AdminTypes
<1> HIDE DEF s1
<1>2. s1.testRequest + 1 \in Nat
  BY <1>1, SInvFacts
<1>3. Talks(s, [s1 EXCEPT !.testRequest = s1.testRequest + 1])
  BY <1>1, <1>2, SetTestRequest, TalksTrans
<1> QED BY <1>3 DEF generateTestRequest, s1

(* incrNextTargetMsgSeqNum moves the expected number by one.               *)
LEMMA IncrStep ==
    ASSUME NEW s, SInv(s)
    PROVE  LET t == incrNextTargetMsgSeqNum(s)
           IN  /\ Talks(s, t) /\ t.nextTarget = s.nextTarget + 1
               /\ t.sending = s.sending
<1>1. s.nextTarget + 1 \in Nat /\ s.nextTarget + 1 >= s.nextTarget
  BY SInvFacts
<1> QED BY <1>1, TargetStep DEF incrNextTargetMsgSeqNum

(* generateReject keeps the invariant and the connection.                  *)
LEMMA RejectStep ==
    ASSUME NEW s, SInv(s), NEW m
    PROVE  Talks(s, generateReject(s, m))
<1> DEFINE s1 == rejectConsumes(s, m)
<1>1. Talks(s, s1) /\ SInv(s1)
  BY IncrStep, StepRefl, TalksCalls DEF rejectConsumes
<1> HIDE DEF s1
<1>2. Talks(s1, sendAdmin(s1, Plain("Reject", 0)))
  BY <1>1, SendAdminStep, PlainType DEF MsgTypes, AdminTypes
<1>3. Talks(s, sendAdmin(s1, Plain("Reject", 0)))
  BY <1>1, <1>2, TalksTrans
<1> QED BY <1>1, <1>3 DEF generateReject, s1

(* generateBusinessReject keeps the invariant and the connection.          *)
LEMMA BusinessRejectStep ==
    ASSUME NEW s, SInv(s)
    PROVE  Talks(s, generateBusinessReject(s))
<1> DEFINE s0 == finishSend(s)
           s1 == incrNextTargetMsgSeqNum(s0)
<1>0. Talks(s, s0) /\ SInv(s0) /\ s0.sending = 0
  BY FinishStep
<1> HIDE DEF s0
<1>1. Talks(s, s1) /\ SInv(s1) /\ s1.sending = 0
  BY <1>0, IncrStep, TalksTrans, TalksCalls
<1> HIDE DEF s1
<1>2. Talks(s, sendApp(s1, FALSE))
  BY <1>1, SendAppStep, TalksTrans
<1> QED BY <1>2 DEF generateBusinessReject, s0, s1

(* A message is queued only while a Logon is outstanding or done.          *)
LEMMA EnqueueStep ==
    ASSUME NEW s, SInv(s), NEW m \in Message, s.receivedLogon \/ s.sentLogon
    PROVE  LET t == enqueue(s, m)
           IN  Talks(s, t) /\ t.nextTarget = s.nextTarget /\ t.wiped = s.wiped
<1> DEFINE t == enqueue(s, m)
<1>1. /\ Same(s, t, {"queue", "resendRange", "testRequest", "asked"})
      /\ t.resendRange = s.resendRange /\ t.testRequest = s.testRequest
      /\ t.queue = [n \in DOMAIN s.queue \cup {m.seq} |->
                        IF n = m.seq THEN m ELSE s.queue[n]]
  BY DEF SInv, Same, Fields, enqueue
<1> HIDE DEF t
<1>2. Holds(t.queue)
  BY <1>1 DEF SInv, Holds
<1>3. RangeOK(t)
  BY <1>1 DEF SInv, RangeOK
<1>4. Talks(s, t) /\ t.nextTarget = s.nextTarget /\ t.wiped = s.wiped
  BY <1>1, <1>2, <1>3, SInvFacts, QueueStep
<1> QED BY <1>4 DEF t

(* The range of a request that starts at the expected number.              *)
LEMMA RequestedRange ==
    ASSUME NEW b \in Nat, NEW n \in Nat, n > b, b > 0
    PROVE  <<b, n - 1>> \in Nat \X Nat /\ <<b, n - 1>>[1] > 0
OBVIOUS

(* generateResendRequest asks for a range that starts above zero.          *)
LEMMA ResendRequestStep ==
    ASSUME NEW s, SInv(s), NEW n \in Nat, n > s.nextTarget,
           s.receivedLogon \/ s.sentLogon
    PROVE  Talks(s, generateResendRequest(s, n))
<1> DEFINE s1 == sendAdmin(s, ResendRequest(0, s.nextTarget, 0))
           t  == [s1 EXCEPT !.resendRange = <<s.nextTarget, n - 1>>,
                            !.asked = @ \cup {s.nextTarget}]
<1>1. Talks(s, s1) /\ SInv(s1)
  BY SInvFacts, SendAdminStep, RequestType, TalksCalls
<1>2. s1.receivedLogon \/ s1.sentLogon
  BY <1>1 DEF Talks, Keeps
<1> HIDE DEF s1
<1>3. /\ Same(s1, t, {"queue", "resendRange", "testRequest", "asked"})
      /\ t.resendRange = <<s.nextTarget, n - 1>>
      /\ t.testRequest = s1.testRequest /\ t.queue = s1.queue
  BY <1>1 DEF SInv, Same, Fields
<1> HIDE DEF t
<1>4. RangeOK(t)
  BY <1>3, SInvFacts, RequestedRange DEF RangeOK
<1>5. Holds(t.queue)
  BY <1>1, <1>3 DEF SInv
<1>6. Talks(s1, t)
  BY <1>1, <1>2, <1>3, <1>4, <1>5, SInvFacts, QueueStep
<1>7. Talks(s, t)
  BY <1>1, <1>6, TalksTrans
<1> QED BY <1>7 DEF generateResendRequest, s1, t

-----------------------------------------------------------------------------
(* Logging on and closing. *)

(* A Logon flag may be set while there is a connection.                    *)
LEMMA LogonFlagStep ==
    ASSUME NEW s, NEW t, SInv(s), s.responder,
           Same(s, t, {"receivedLogon", "sentLogon", "testRequest"}),
           t.receivedLogon \in BOOLEAN, t.sentLogon \in BOOLEAN,
           t.testRequest \in Nat, t.receivedLogon \/ t.sentLogon
    PROVE  Step(s, t) /\ SInv(t)
<1>1. /\ DOMAIN t = Fields
      /\ t.initiate = s.initiate /\ t.queue = s.queue
      /\ t.sending = s.sending /\ t.torn = s.torn
      /\ t.resendRange = s.resendRange /\ t.nextSender = s.nextSender
      /\ t.nextTarget = s.nextTarget /\ t.store = s.store
      /\ t.responder = s.responder /\ t.got = s.got /\ t.wiped = s.wiped
      /\ t.enabled = s.enabled /\ t.sentLogout = s.sentLogout
      /\ t.sentReset = s.sentReset /\ t.receivedReset = s.receivedReset
  BY DEF Same, Fields
<1>2. SInv(t)
  BY <1>1 DEF SInv, FlagsTyped, NumbersTyped, StoreOK, SendOK, RangeOK, ConnectionOK
<1> QED BY <1>1, <1>2, SInvFacts DEF Step

(* Recording what a Logon asks for.                                        *)
LEMMA AsksFromStep ==
    ASSUME NEW s, SInv(s), NEW n
    PROVE  LET t == asksFrom(s, n)
           IN  Talks(s, t) /\ SInv(t)
<1> DEFINE t == [s EXCEPT !.asked = @ \cup {n}]
<1>1. /\ Same(s, t, {"enabled", "sentLogout", "sentReset", "receivedReset",
                     "testRequest", "out", "asked", "owed"})
      /\ t.enabled = s.enabled /\ t.sentLogout = s.sentLogout
      /\ t.sentReset = s.sentReset /\ t.receivedReset = s.receivedReset
      /\ t.testRequest = s.testRequest
  BY DEF SInv, Same, Fields
<1> HIDE DEF t
<1>2. Talks(s, t)
  BY <1>1, SInvFacts, QuietStep
<1> QED BY <1>2, StepRefl, TalksCalls DEF asksFrom, t

(* generateLogon keeps the invariant when there is a connection.           *)
LEMMA GenerateLogonStep ==
    ASSUME NEW s, SInv(s), s.responder
    PROVE  Step(s, generateLogon(s))
<1> DEFINE s1 == IF ResetOnLogon THEN resetUnlocked(s) ELSE s
           e  == IF SendNextExpectedMsgSeqNum THEN s1.nextTarget ELSE 0
           m  == Logon(0, shouldSendReset(s1), e)
           s2 == [s1 EXCEPT !.testRequest = 0, !.sentLogon = TRUE]
<1>1. Talks(s, s1) /\ SInv(s1) /\ s1.responder
  BY ResetUnlockedStep, StepRefl, TalksCalls DEF Talks, Keeps
<1> HIDE DEF s1
<1>2. m \in Message
  <2>1. shouldSendReset(s1) \in BOOLEAN
    BY DEF shouldSendReset
  <2> QED BY <1>1, <2>1, SInvFacts, LogonType
<1> HIDE DEF m
<1>3. /\ Same(s1, s2, {"receivedLogon", "sentLogon", "testRequest"})
      /\ s2.receivedLogon = s1.receivedLogon /\ s2.sentLogon = TRUE
      /\ s2.testRequest = 0
  BY <1>1 DEF SInv, Same, Fields
<1> HIDE DEF s2
<1>4. Step(s1, s2) /\ SInv(s2)
  <2>1. s2.sentLogon \in BOOLEAN /\ s2.sentLogon
    BY <1>3
  <2>2. s2.receivedLogon \in BOOLEAN
    BY <1>1, <1>3, SInvFacts
  <2>3. s2.testRequest \in Nat
    BY <1>3
  <2> QED BY <1>1, <1>3, <2>1, <2>2, <2>3, LogonFlagStep
<1> DEFINE s3 == sendAdmin(s2, m)
<1>5. Step(s2, s3) /\ SInv(s3)
  BY <1>2, <1>4, SendAdminStep, TalksCalls DEF Talks
<1> HIDE DEF s3
<1>6. Step(s, s3)
  BY <1>1, <1>4, <1>5, StepTrans DEF Talks
<1>7. Step(s, asksFrom(s3, m.lo))
  BY <1>5, <1>6, AsksFromStep, StepTrans DEF Talks
<1> QED BY <1>7 DEF generateLogon, s1, m, s2, s3

(* The answer to a Logon keeps the invariant.                              *)
LEMMA LogonReplyCall ==
    ASSUME NEW s, SInv(s), s.receivedLogon
    PROVE  LET t == generateLogonReply(s)
           IN  Call(s, t) /\ SInv(t) /\ t.receivedLogon
<1> DEFINE e  == IF SendNextExpectedMsgSeqNum THEN s.nextTarget + 1 ELSE 0
           m  == Logon(0, s.receivedReset, e)
           s1 == sendAdmin(s, m)
           t  == [s1 EXCEPT !.sentLogon = TRUE]
<1>1. m \in Message
  BY SInvFacts, LogonType
<1> HIDE DEF m
<1>2. Talks(s, s1) /\ SInv(s1)
  BY <1>1, SendAdminStep, TalksCalls
<1>3. s1.receivedLogon /\ s1.responder
  BY <1>2 DEF Talks, Keeps, SInv, ConnectionOK
<1> HIDE DEF s1
<1>4. /\ Same(s1, t, {"receivedLogon", "sentLogon", "testRequest"})
      /\ t.receivedLogon = s1.receivedLogon /\ t.sentLogon = TRUE
      /\ t.testRequest = s1.testRequest
  BY <1>2 DEF SInv, Same, Fields
<1> HIDE DEF t
<1>5. Step(s1, t) /\ SInv(t)
  BY <1>2, <1>3, <1>4, SInvFacts, LogonFlagStep
<1>6. Step(s, t) /\ t.receivedLogon
  BY <1>2, <1>3, <1>4, <1>5, StepTrans DEF Talks
<1> DEFINE u == asksFrom(t, m.lo)
<1>7. Talks(t, u) /\ SInv(u)
  BY <1>5, AsksFromStep
<1> HIDE DEF u
<1>8. Step(s, u) /\ u.receivedLogon
  BY <1>5, <1>6, <1>7, StepTrans DEF Talks, Keeps
<1> QED BY <1>7, <1>8 DEF generateLogonReply, Call, Answers, m, s1, t, u

(* disconnect(bool) clears the connection, the queue and the range.        *)
LEMMA DisconnectCall ==
    ASSUME NEW s, SInv(s), NEW r \in BOOLEAN
    PROVE  LET t == disconnectWith(s, r)
           IN  /\ Call(s, t) /\ SInv(t)
               /\ ~t.responder /\ ~t.receivedLogon /\ ~t.sentLogon
<1> DEFINE s0 == finishSend(s)
           t == [s0 EXCEPT !.responder = FALSE, !.receivedLogon = FALSE,
                           !.sentLogon = FALSE, !.sentLogout = FALSE,
                           !.receivedReset = FALSE, !.sentReset = FALSE,
                           !.queue = NoMessages, !.resendRange = <<0, 0>>,
                           !.asked = {}]
           u == storeReset(t)
<1>0. Talks(s, s0) /\ SInv(s0)
  BY FinishStep
<1> HIDE DEF s0
<1>1. /\ DOMAIN t = Fields
      /\ t.initiate = s0.initiate /\ t.queue = NoMessages
      /\ t.sending = s0.sending /\ t.torn = s0.torn
      /\ t.resendRange = <<0, 0>> /\ t.nextSender = s0.nextSender
      /\ t.nextTarget = s0.nextTarget /\ t.store = s0.store
      /\ t.got = s0.got /\ t.wiped = s0.wiped
      /\ t.enabled = s0.enabled /\ t.testRequest = s0.testRequest
  BY <1>0 DEF SInv, Fields
<1>2. /\ t.receivedLogon = FALSE /\ t.sentLogon = FALSE /\ t.responder = FALSE
      /\ t.sentReset = FALSE /\ t.receivedReset = FALSE /\ t.sentLogout = FALSE
  BY <1>0 DEF SInv, Fields
<1> HIDE DEF t
<1>3. SInv(t)
  <2>1. DOMAIN t.queue = {} /\ Holds(t.queue)
    BY <1>1 DEF NoMessages, Holds
  <2>2. RangeOK(t) /\ ConnectionOK(t)
    BY <1>1, <1>2, <2>1 DEF RangeOK, ConnectionOK
  <2>3. FlagsTyped(t)
    BY <1>0, <1>1, <1>2 DEF SInv, FlagsTyped
  <2> QED BY <1>0, <1>1, <2>1, <2>2, <2>3 DEF SInv, NumbersTyped, StoreOK, SendOK
<1>4. Step(s, t)
  <2>1. Step(s0, t)
    BY <1>0, <1>1, <1>3, SInvFacts DEF Step
  <2> QED BY <1>0, <2>1, StepTrans DEF Talks
<1>5. Call(s, t)
  BY <1>2, <1>4 DEF Call, Answers
<1>6. Talks(t, u) /\ SInv(u)
  BY <1>3, StoreResetStep, TalksCalls
<1> HIDE DEF u
<1>7. Call(s, u)
  BY <1>3, <1>5, <1>6, TalksCalls, CallTrans
<1>8. u.receivedLogon = FALSE /\ u.sentLogon = FALSE /\ u.responder = FALSE
  BY <1>2, <1>6 DEF Talks, Keeps
<1>9. disconnectWith(s, r) = IF r THEN u ELSE t
  BY DEF disconnectWith, s0, t, u
<1> QED BY <1>2, <1>3, <1>5, <1>6, <1>7, <1>8, <1>9

(* The same for disconnect().                                              *)
LEMMA PlainDisconnectCall ==
    ASSUME NEW s, SInv(s)
    PROVE  LET t == disconnect(s)
           IN  /\ Call(s, t) /\ SInv(t)
               /\ ~t.responder /\ ~t.receivedLogon /\ ~t.sentLogon
BY DisconnectCall, SettingsAssumption DEF disconnect

(* Session::reset ends the connection and keeps the invariant.             *)
LEMMA ResetCall ==
    ASSUME NEW s, SInv(s)
    PROVE  LET t == reset(s)
           IN  /\ Call(s, t) /\ SInv(t)
               /\ ~t.responder /\ ~t.receivedLogon /\ ~t.sentLogon
<1> DEFINE s1 == generateLogout(s)
           s2 == disconnect(s1)
           s3 == resetUnlocked(s2)
<1>1. Call(s, s1) /\ SInv(s1)
  BY LogoutStep, TalksCalls
<1> HIDE DEF s1
<1>2. Call(s1, s2) /\ SInv(s2) /\ ~s2.responder /\ ~s2.receivedLogon /\ ~s2.sentLogon
  BY <1>1, PlainDisconnectCall
<1> HIDE DEF s2
<1>3. Talks(s2, s3)
  BY <1>2, ResetUnlockedStep
<1> HIDE DEF s3
<1>4. Call(s2, s3) /\ SInv(s3)
  BY <1>2, <1>3, TalksCalls
<1>5. Call(s, s3)
  BY <1>1, <1>2, <1>4, CallTrans
<1>6. ~s3.responder /\ ~s3.receivedLogon /\ ~s3.sentLogon
  BY <1>2, <1>3 DEF Talks, Keeps
<1> QED BY <1>4, <1>5, <1>6 DEF reset, s1, s2, s3

-----------------------------------------------------------------------------
(* verify() *)

(* doBadTime and doBadCompID keep the invariant.                           *)
LEMMA RefuseCall ==
    ASSUME NEW s, SInv(s), NEW m
    PROVE  Call(s, refuseAndLogout(s, m))
<1> DEFINE s1 == generateReject(s, m)
<1>1. Talks(s, s1) /\ SInv(s1)
  BY RejectStep, TalksCalls
<1> HIDE DEF s1
<1>2. Call(s, generateLogout(s1))
  BY <1>1, LogoutStep, TalksTrans, TalksCalls
<1>3. Call(s, disconnect(s1))
  BY <1>1, TalksCalls, PlainDisconnectCall, CallTrans
<1> QED BY <1>2, <1>3 DEF refuseAndLogout, s1

(* doPossDup keeps the invariant.                                          *)
LEMMA PossDupCall ==
    ASSUME NEW s, SInv(s), NEW m
    PROVE  Call(s, doPossDup(s, m))
<1> DEFINE s1 == generateReject(s, m)
<1>1. Talks(s, s1) /\ SInv(s1)
  BY RejectStep, TalksCalls
<1> HIDE DEF s1
<1>2. Call(s, s1) /\ Call(s, disconnect(s1))
  BY <1>1, TalksCalls, PlainDisconnectCall, CallTrans
<1>3. Call(s, refuseAndLogout(s, m)) /\ Call(s, s)
  BY RefuseCall, StepRefl
<1> QED BY <1>2, <1>3 DEF doPossDup, s1

(* A Logout followed by disconnect(bool).                                  *)
LEMMA LogoutAndDisconnectCall ==
    ASSUME NEW s, SInv(s), NEW r \in BOOLEAN
    PROVE  LET t == disconnectWith(generateLogout(s), r)
           IN  /\ Call(s, t) /\ SInv(t)
               /\ ~t.responder /\ ~t.receivedLogon /\ ~t.sentLogon
<1> DEFINE s1 == generateLogout(s)
<1>1. Call(s, s1) /\ SInv(s1)
  BY LogoutStep, TalksCalls
<1> HIDE DEF s1
<1> DEFINE t == disconnectWith(s1, r)
<1>2. Call(s1, t) /\ SInv(t) /\ ~t.responder /\ ~t.receivedLogon /\ ~t.sentLogon
  BY <1>1, DisconnectCall
<1> HIDE DEF t
<1>3. Call(s, t)
  BY <1>1, <1>2, CallTrans
<1> QED BY <1>2, <1>3 DEF s1, t

(* doTargetTooLow keeps the invariant.                                     *)
LEMMA TooLowCall ==
    ASSUME NEW s, SInv(s), NEW m
    PROVE  Call(s, doTargetTooLow(s, m))
BY PossDupCall, LogoutAndDisconnectCall, SettingsAssumption
   DEF doTargetTooLow, disconnect

(* doTargetTooHigh keeps the invariant and the connection.                 *)
LEMMA TooHighStep ==
    ASSUME NEW s, SInv(s), NEW m \in Message, m.seq > s.nextTarget,
           s.receivedLogon \/ s.sentLogon
    PROVE  Talks(s, doTargetTooHigh(s, m))
<1> DEFINE s1 == enqueue(s, m)
<1>1. Talks(s, s1) /\ SInv(s1) /\ s1.nextTarget = s.nextTarget
  BY EnqueueStep, TalksCalls
<1>2. s1.receivedLogon \/ s1.sentLogon
  BY <1>1 DEF Talks, Keeps
<1>3. m.seq \in Nat
  BY DEF Message
<1> HIDE DEF s1
<1>4. Talks(s1, generateResendRequest(s1, m.seq))
  BY <1>1, <1>2, <1>3, ResendRequestStep
<1>5. Talks(s, generateResendRequest(s1, m.seq))
  BY <1>1, <1>4, TalksTrans
<1> QED BY <1>1, <1>5 DEF doTargetTooHigh, s1

(* The end of verify() moves no number.                                    *)
LEMMA AdmitStep ==
    ASSUME NEW s, SInv(s), NEW m \in Message, NEW checked \in BOOLEAN
    PROVE  LET t == admit(s, m, checked)
           IN  Talks(s, t) /\ SInv(t) /\ t.nextTarget = s.nextTarget
<1> DEFINE t == admit(s, m, checked)
<1>1. /\ Same(s, t, {"queue", "resendRange", "testRequest", "asked"})
      /\ t.queue = s.queue /\ t.testRequest = 0
      /\ t.resendRange = s.resendRange \/ t.resendRange = <<0, 0>>
  BY DEF SInv, Same, Fields, admit
<1> HIDE DEF t
<1>2. RangeOK(t)
  <2>1. CASE t.resendRange = s.resendRange
    BY <2>1 DEF SInv, RangeOK
  <2>2. CASE t.resendRange = <<0, 0>>
    BY <2>2 DEF RangeOK
  <2> QED BY <1>1, <2>1, <2>2
<1>3. Holds(t.queue)
  BY <1>1 DEF SInv
<1>4. \/ s.receivedLogon \/ s.sentLogon
      \/ DOMAIN t.queue = {} /\ t.resendRange = <<0, 0>>
  BY <1>1 DEF SInv, ConnectionOK
<1>5. t.testRequest \in Nat
  BY <1>1
<1>6. Talks(s, t) /\ t.nextTarget = s.nextTarget
  BY <1>1, <1>2, <1>3, <1>4, <1>5, QueueStep
<1> QED BY <1>6, TalksCalls DEF t

(* A message other than a Logon is valid only after a Logon was sent or    *)
(* received.                                                               *)
LEMMA ValidState ==
    ASSUME NEW s, NEW t, validLogonState(s, t), t # "Logon"
    PROVE  s.receivedLogon \/ s.sentLogon
BY DEF validLogonState, answersPendingLogon

(* What verify() promises its caller: the message has the expected number  *)
(* when both checks are made, and accepting it moves no number.            *)
LEMMA VerifyCall ==
    ASSUME NEW s, SInv(s), NEW m \in Message, NEW high \in BOOLEAN,
           NEW low \in BOOLEAN, high => m.type # "Logon"
    PROVE  LET r == verify(s, m, high, low)
           IN  /\ Call(s, r.s) /\ SInv(r.s)
               /\ r.ok => /\ Talks(s, r.s)
                          /\ r.s.nextTarget = s.nextTarget
                          /\ high /\ low => m.seq = s.nextTarget
<1> DEFINE r == verify(s, m, high, low)
           t == admit(s, m, high \/ low)
<1>1. m.seq \in Nat /\ s.nextTarget \in Nat
  BY SInvFacts DEF Message
<1>2. CASE ~validLogonState(s, m.type)
  <2>1. r = [s |-> disconnect(s), ok |-> FALSE]
    BY <1>2 DEF verify
  <2> QED BY <2>1, PlainDisconnectCall
<1>3. CASE validLogonState(s, m.type) /\ m.grade \in {"badTime", "badComp"}
  <2>1. r = [s |-> refuseAndLogout(s, m), ok |-> FALSE]
    BY <1>3 DEF verify
  <2> QED BY <2>1, RefuseCall DEF Call, Step
<1>4. CASE /\ validLogonState(s, m.type) /\ m.grade \notin {"badTime", "badComp"}
           /\ high /\ isTargetTooHigh(s, m)
  <2>1. r = [s |-> doTargetTooHigh(s, m), ok |-> FALSE]
    BY <1>4 DEF verify
  <2>2. s.receivedLogon \/ s.sentLogon
    BY <1>4, ValidState
  <2>3. Talks(s, doTargetTooHigh(s, m))
    BY <1>4, <2>2, TooHighStep DEF isTargetTooHigh
  <2> QED BY <2>1, <2>3, TalksCalls
<1>5. CASE /\ validLogonState(s, m.type) /\ m.grade \notin {"badTime", "badComp"}
           /\ ~(high /\ isTargetTooHigh(s, m)) /\ low /\ isTargetTooLow(s, m)
  <2>1. r = [s |-> doTargetTooLow(s, m), ok |-> FALSE]
    BY <1>5 DEF verify
  <2> QED BY <2>1, TooLowCall DEF Call, Step
<1>6. CASE /\ validLogonState(s, m.type) /\ m.grade \notin {"badTime", "badComp"}
           /\ ~(high /\ isTargetTooHigh(s, m)) /\ ~(low /\ isTargetTooLow(s, m))
  <2>1. r = [s |-> t, ok |-> TRUE]
    BY <1>6 DEF verify
  <2>2. Talks(s, t) /\ SInv(t) /\ t.nextTarget = s.nextTarget
    BY AdmitStep
  <2>3. high /\ low => m.seq = s.nextTarget
    BY <1>1, <1>6 DEF isTargetTooHigh, isTargetTooLow
  <2> QED BY <2>1, <2>2, <2>3, TalksCalls
<1> QED BY <1>2, <1>3, <1>4, <1>5, <1>6

-----------------------------------------------------------------------------
(* The handlers. *)

(* The exception handlers of next() keep the invariant.                    *)
LEMMA CaughtCall ==
    ASSUME NEW s, SInv(s), NEW m, NEW v \in {"reject", "business", "logout"}
    PROVE  Call(s, caught(s, m, v))
<1> DEFINE r == (s.receivedLogon \/ s.sentLogon) /\ ResetOnDisconnect
<1>1. Call(s, generateReject(s, m)) /\ Call(s, generateBusinessReject(s))
  BY RejectStep, BusinessRejectStep, TalksCalls
<1>2. Call(s, disconnectWith(generateLogout(s), r))
  BY LogoutAndDisconnectCall
<1> QED BY <1>1, <1>2 DEF caught

(* Using up a number.                                                      *)
LEMMA ConsumeStep ==
    ASSUME NEW s, SInv(s)
    PROVE  LET t == consume(s)
           IN  Talks(s, t) /\ SInv(t) /\ t.nextTarget = s.nextTarget + 1
BY IncrStep, TalksCalls DEF consume

(* nextTestRequest keeps the invariant and the connection.                 *)
LEMMA NextTestRequestStep ==
    ASSUME NEW s, SInv(s)
    PROVE  Talks(s, nextTestRequest(s))
<1> DEFINE s1 == generateHeartbeat(s)
<1>1. Talks(s, s1) /\ SInv(s1)
  BY HeartbeatStep, TalksCalls
<1> HIDE DEF s1
<1>2. Talks(s, consume(s1))
  BY <1>1, ConsumeStep, TalksTrans
<1> QED BY <1>2 DEF nextTestRequest, s1

(* nextLogout keeps the invariant.                                         *)
LEMMA NextLogoutCall ==
    ASSUME NEW s, SInv(s)
    PROVE  Call(s, nextLogout(s))
<1> DEFINE s0 == IF s.sentLogout THEN s ELSE generateLogout(s)
           s1 == consume(s0)
           s2 == IF ResetOnLogout THEN resetUnlocked(s1) ELSE s1
<1>1. Talks(s, s0) /\ SInv(s0)
  BY LogoutStep, StepRefl, TalksCalls
<1> HIDE DEF s0
<1>2. Talks(s0, s1) /\ SInv(s1)
  BY <1>1, ConsumeStep
<1> HIDE DEF s1
<1>3. Talks(s1, s2) /\ SInv(s2)
  BY <1>2, ResetUnlockedStep, StepRefl, TalksCalls
<1> HIDE DEF s2
<1>4. Call(s, s2)
  BY <1>1, <1>2, <1>3, TalksTrans, TalksCalls
<1>5. Call(s, disconnect(s2))
  BY <1>3, <1>4, PlainDisconnectCall, CallTrans
<1> QED BY <1>5 DEF nextLogout, s0, s1, s2

(* Taking messages from the queue moves no number.                         *)
LEMMA QueueWithoutStep ==
    ASSUME NEW s, SInv(s), NEW gone
    PROVE  LET t == queueWithout(s, gone)
           IN  Talks(s, t) /\ SInv(t) /\ t.nextTarget = s.nextTarget
<1> DEFINE t == queueWithout(s, gone)
<1>1. /\ Same(s, t, {"queue", "resendRange", "testRequest", "asked"})
      /\ t.resendRange = s.resendRange /\ t.testRequest = s.testRequest
      /\ t.queue = [n \in DOMAIN s.queue \ gone |-> s.queue[n]]
  BY DEF SInv, Same, Fields, queueWithout
<1> HIDE DEF t
<1>2. Holds(t.queue)
  BY <1>1 DEF SInv, Holds
<1>3. RangeOK(t)
  BY <1>1 DEF SInv, RangeOK
<1>4. \/ s.receivedLogon \/ s.sentLogon
      \/ DOMAIN t.queue = {} /\ t.resendRange = <<0, 0>>
  BY <1>1 DEF SInv, ConnectionOK
<1>5. t.testRequest \in Nat
  BY <1>1, SInvFacts
<1>6. Talks(s, t) /\ t.nextTarget = s.nextTarget
  BY <1>1, <1>2, <1>3, <1>4, <1>5, QueueStep
<1> QED BY <1>6, TalksCalls DEF t

(* nextSequenceReset never moves the expected number back.                 *)
LEMMA NextSequenceResetStep ==
    ASSUME NEW s, SInv(s), NEW m \in Message
    PROVE  Talks(s, nextSequenceReset(s, m))
<1> DEFINE s1 == [s EXCEPT !.nextTarget = m.lo]
<1>1. m.lo \in Nat /\ s.nextTarget \in Nat
  BY SInvFacts DEF Message
<1>2. CASE m.lo > s.nextTarget
  <2>1. Talks(s, s1) /\ SInv(s1)
    BY <1>1, <1>2, TargetStep, TalksCalls
  <2> HIDE DEF s1
  <2>2. Talks(s, queueWithout(s1, 0 .. (m.lo - 1)))
    BY <2>1, QueueWithoutStep, TalksTrans
  <2> QED BY <1>2, <2>1, <2>2 DEF nextSequenceReset, s1
<1>3. CASE ~(m.lo > s.nextTarget)
  BY <1>3, RejectStep, StepRefl DEF nextSequenceReset
<1> QED BY <1>2, <1>3

(* Answering a resend request keeps the invariant, whatever the range.     *)
LEMMA AnswerRangeStep ==
    ASSUME NEW s, SInv(s), NEW begin, NEW end \in Nat, NEW withheld
    PROVE  Talks(s, answerRange(s, begin, end, withheld))
<1> DEFINE fill == GapFill(begin, fillTo(s.nextSender, end))
<1>1. ASSUME begin = 0 PROVE fill \in Message
  <2>1. fillTo(s.nextSender, end) \in Nat
    BY SInvFacts DEF fillTo
  <2> QED BY <1>1, <2>1, GapFillType
<1> HIDE DEF fill
<1>2. Talks(s, s) /\ (begin = 0 => Talks(s, sendAdmin(s, fill)))
  BY <1>1, StepRefl, SendAdminStep
<1>3. \A ms : Talks(s, sendAll(s, ms))
  BY SendAllStep
<1> QED BY <1>2, <1>3 DEF answerRange, fill

(* Setting the local of nextLogon.                                         *)
LEMMA SetOwed ==
    ASSUME NEW s, SInv(s), NEW n
    PROVE  Talks(s, [s EXCEPT !.owed = n])
<1> DEFINE t == [s EXCEPT !.owed = n]
<1>1. /\ Same(s, t, {"enabled", "sentLogout", "sentReset", "receivedReset",
                     "testRequest", "out", "asked", "owed"})
      /\ t.enabled = s.enabled /\ t.sentLogout = s.sentLogout
      /\ t.sentReset = s.sentReset /\ t.receivedReset = s.receivedReset
      /\ t.testRequest = s.testRequest
  BY DEF SInv, Same, Fields
<1> HIDE DEF t
<1>2. Talks(s, t)
  BY <1>1, SInvFacts, QuietStep
<1> QED BY <1>2 DEF t

(* The retransmissions at the end of nextLogon keep the invariant.         *)
LEMMA RetransmitOwedStep ==
    ASSUME NEW s, SInv(s), NEW withheld
    PROVE  Talks(s, retransmitOwed(s, withheld))
<1> DEFINE s1 == answerRange(s, s.owed, s.nextSender - 1, withheld)
<1>1. s.nextSender - 1 \in Nat
  BY SInvFacts
<1>2. Talks(s, s1) /\ SInv(s1)
  BY <1>1, AnswerRangeStep, TalksCalls
<1> HIDE DEF s1
<1>3. Talks(s, [s1 EXCEPT !.owed = 0])
  BY <1>2, SetOwed, TalksTrans
<1> QED BY <1>3 DEF retransmitOwed, s1

(* nextResendRequest keeps the invariant and the connection.               *)
LEMMA NextResendRequestStep ==
    ASSUME NEW s, SInv(s), NEW m \in Message, NEW withheld
    PROVE  Talks(s, nextResendRequest(s, m, withheld))
<1> DEFINE end == IF m.hi = 0 \/ m.hi >= s.nextSender THEN s.nextSender - 1 ELSE m.hi
           s1  == answerRange(s, m.lo, end, withheld)
<1>1. end \in Nat /\ m.lo \in Nat
  BY SInvFacts DEF Message
<1> HIDE DEF end
<1>2. Talks(s, s1) /\ SInv(s1)
  BY <1>1, AnswerRangeStep, TalksCalls
<1> HIDE DEF s1
<1>3. Talks(s, consume(s1))
  BY <1>2, ConsumeStep, TalksTrans
<1> QED BY <1>2, <1>3 DEF nextResendRequest, consumeExpected, s1, end

(* The resets before a Logon is verified keep the invariant.               *)
LEMMA PrepareLogonStep ==
    ASSUME NEW s, SInv(s), NEW m \in Message
    PROVE  Talks(s, prepareLogon(s, m))
<1> DEFINE s1 == [s EXCEPT !.receivedReset = m.flag]
           s2 == IF m.flag /\ ~s1.sentReset THEN resetUnlocked(s1) ELSE s1
<1>1. /\ Same(s, s1, {"enabled", "sentLogout", "sentReset", "receivedReset",
                      "testRequest", "out", "asked", "owed"})
      /\ s1.enabled = s.enabled /\ s1.sentLogout = s.sentLogout
      /\ s1.sentReset = s.sentReset /\ s1.receivedReset = m.flag
      /\ s1.testRequest = s.testRequest
  BY DEF SInv, Same, Fields
<1>2. m.flag \in BOOLEAN
  BY DEF Message
<1> HIDE DEF s1
<1>3. Talks(s, s1) /\ SInv(s1)
  BY <1>1, <1>2, SInvFacts, QuietStep, TalksCalls
<1>4. Talks(s1, s2) /\ SInv(s2)
  BY <1>3, ResetUnlockedStep, StepRefl, TalksCalls
<1> HIDE DEF s2
<1>5. Talks(s, s2) /\ Talks(s, resetUnlocked(s2))
  BY <1>3, <1>4, ResetUnlockedStep, TalksTrans
<1> QED BY <1>5 DEF prepareLogon, s1, s2

(* Answering a Logon keeps the invariant.                                  *)
LEMMA ReplyLogonCall ==
    ASSUME NEW s, SInv(s), s.receivedLogon
    PROVE  LET t == replyLogon(s)
           IN  Call(s, t) /\ SInv(t) /\ t.receivedLogon
<1> DEFINE s1 == IF ~s.initiate \/ (s.receivedReset /\ ~s.sentReset)
                 THEN generateLogonReply(s) ELSE s
           t  == [s1 EXCEPT !.sentReset = FALSE, !.receivedReset = FALSE]
<1>1. Call(s, s1) /\ SInv(s1) /\ s1.receivedLogon
  BY LogonReplyCall, StepRefl
<1> HIDE DEF s1
<1>2. /\ Same(s1, t, {"enabled", "sentLogout", "sentReset", "receivedReset",
                      "testRequest", "out", "asked", "owed"})
      /\ t.enabled = s1.enabled /\ t.sentLogout = s1.sentLogout
      /\ t.sentReset = FALSE /\ t.receivedReset = FALSE
      /\ t.testRequest = s1.testRequest
  BY <1>1 DEF SInv, Same, Fields
<1> HIDE DEF t
<1>3. Talks(s1, t)
  BY <1>1, <1>2, SInvFacts, QuietStep
<1>4. Call(s, t) /\ SInv(t)
  BY <1>1, <1>3, TalksCalls, CallTrans
<1>5. t.receivedLogon
  BY <1>1, <1>3 DEF Talks, Keeps
<1> QED BY <1>4, <1>5 DEF replyLogon, s1, t

(* Using up or queueing a Logon keeps the invariant.                       *)
LEMMA NumberLogonStep ==
    ASSUME NEW s, SInv(s), NEW m \in Message, s.receivedLogon
    PROVE  Talks(s, numberLogon(s, m))
<1>1. m.seq \in Nat /\ s.nextTarget \in Nat /\ s.nextTarget > 0
  BY SInvFacts DEF Message
<1>2. CASE isTargetTooHigh(s, m) /\ ~m.flag
  <2> DEFINE s1 == enqueue(s, m)
             t  == [s1 EXCEPT !.resendRange = <<s.nextTarget, m.seq - 1>>]
  <2>1. Talks(s, doTargetTooHigh(s, m))
    BY <1>2, TooHighStep DEF isTargetTooHigh
  <2>2. Talks(s, s1) /\ SInv(s1)
    BY EnqueueStep, TalksCalls
  <2>3. s1.receivedLogon
    BY <2>2 DEF Talks, Keeps
  <2> HIDE DEF s1
  <2>4. /\ Same(s1, t, {"queue", "resendRange", "testRequest", "asked"})
        /\ t.resendRange = <<s.nextTarget, m.seq - 1>>
        /\ t.testRequest = s1.testRequest /\ t.queue = s1.queue
    BY <2>2 DEF SInv, Same, Fields
  <2> HIDE DEF t
  <2>5. RangeOK(t)
    BY <1>1, <1>2, <2>4, RequestedRange DEF RangeOK, isTargetTooHigh
  <2>6. Holds(t.queue)
    BY <2>2, <2>4 DEF SInv
  <2>7. Talks(s1, t)
    BY <2>2, <2>3, <2>4, <2>5, <2>6, SInvFacts, QueueStep
  <2>8. Talks(s, t)
    BY <2>2, <2>7, TalksTrans
  <2> QED BY <1>2, <2>1, <2>8 DEF numberLogon, s1, t
<1>3. CASE ~(isTargetTooHigh(s, m) /\ ~m.flag)
  <2>1. Talks(s, consume(s))
    BY ConsumeStep
  <2> QED BY <1>3, <2>1 DEF numberLogon
<1> QED BY <1>2, <1>3

(* nextLogon after verify() keeps the invariant.                           *)
LEMMA CompleteLogonCall ==
    ASSUME NEW s0, SInv(s0), s0.responder, NEW m \in Message
    PROVE  Call(s0, completeLogon(s0, m))
<1> DEFINE s    == [s0 EXCEPT !.receivedLogon = TRUE]
           s1   == replyLogon(s)
           done == numberLogon(s1, m)
<1>1. Call(s0, s) /\ SInv(s) /\ s.receivedLogon
  <2>1. /\ Same(s0, s, {"receivedLogon", "sentLogon", "testRequest"})
        /\ s.receivedLogon = TRUE /\ s.sentLogon = s0.sentLogon
        /\ s.testRequest = s0.testRequest
    BY DEF SInv, Same, Fields
  <2> HIDE DEF s
  <2>2. s.receivedLogon \in BOOLEAN /\ s.receivedLogon
    BY <2>1
  <2>3. s.sentLogon \in BOOLEAN /\ s.testRequest \in Nat
    BY <2>1, SInvFacts
  <2>4. Step(s0, s) /\ SInv(s)
    BY <2>1, <2>2, <2>3, LogonFlagStep
  <2> QED BY <2>2, <2>4 DEF Call, Answers
<1> HIDE DEF s
<1>2. Call(s, s1) /\ SInv(s1) /\ s1.receivedLogon
  BY <1>1, ReplyLogonCall
<1> HIDE DEF s1
<1>3. Talks(s1, done) /\ SInv(done)
  BY <1>2, NumberLogonStep, TalksCalls
<1> HIDE DEF done
<1>4. Call(s0, done)
  BY <1>1, <1>2, <1>3, TalksCalls, CallTrans
<1>5. Call(s0, disconnect(generateLogout(s)))
  <2>1. Call(s, disconnect(generateLogout(s)))
    BY <1>1, LogoutAndDisconnectCall, SettingsAssumption DEF disconnect
  <2> QED BY <1>1, <2>1, CallTrans
<1>6. \A n : Call(s0, [done EXCEPT !.owed = n])
  BY <1>3, <1>4, SetOwed, TalksCalls, CallTrans
<1> QED BY <1>5, <1>6 DEF completeLogon, s, s1, done

(* nextLogon keeps the invariant.                                          *)
LEMMA NextLogonCall ==
    ASSUME NEW s, SInv(s), s.responder, NEW m \in Message
    PROVE  Call(s, nextLogon(s, m))
<1> DEFINE s1 == prepareLogon(s, m)
           r  == verify(s1, m, FALSE, TRUE)
<1>1. Talks(s, s1) /\ Call(s, s1) /\ SInv(s1)
  BY PrepareLogonStep, TalksCalls
<1>2. s1.responder
  BY <1>1 DEF Talks, Keeps
<1> HIDE DEF s1
<1>3. Call(s, disconnect(s)) /\ Call(s, disconnect(s1))
  BY <1>1, PlainDisconnectCall, CallTrans
<1>4. Call(s1, r.s) /\ SInv(r.s) /\ (r.ok => Talks(s1, r.s))
  BY <1>1, VerifyCall
<1> HIDE DEF r
<1>5. Call(s, r.s)
  BY <1>1, <1>4, CallTrans
<1>6. ASSUME r.ok PROVE Call(s, completeLogon(r.s, m))
  <2>1. r.s.responder
    BY <1>2, <1>4, <1>6 DEF Talks, Keeps
  <2>2. Call(r.s, completeLogon(r.s, m))
    BY <1>4, <2>1, CompleteLogonCall
  <2> QED BY <1>4, <1>5, <2>2, CallTrans
<1> QED BY <1>3, <1>5, <1>6 DEF nextLogon, s1, r

(* The refusal of a Logon in next() keeps the invariant.                   *)
LEMMA RefusedLogonCall ==
    ASSUME NEW s, SInv(s), NEW m, NEW logonTime \in BOOLEAN
    PROVE  Call(s, refusedLogon(s, m, logonTime))
<1> DEFINE answers == /\ s.enabled /\ logonTime
                      /\ m.flag \/ validLogonState(s, "Logon")
                      /\ m.grade \in {"badTime", "badComp"} /\ s.receivedLogon
           s0 == generateReject(s, m)
           s1 == IF answers THEN generateLogout(s0) ELSE s
           t  == [s1 EXCEPT !.responder = @ /\ logonTime]
<1>1. Talks(s, s0) /\ SInv(s0)
  BY RejectStep, TalksCalls
<1> HIDE DEF s0
<1>2. Talks(s, s1) /\ Call(s, s1) /\ SInv(s1)
  <2>1. Talks(s, generateLogout(s0)) /\ Talks(s, s)
    BY <1>1, LogoutStep, TalksTrans, StepRefl
  <2> QED BY <2>1, TalksCalls
<1> HIDE DEF s1
<1>3. Call(s, disconnect(s1))
  BY <1>2, PlainDisconnectCall, CallTrans
<1>4. ASSUME ~s1.receivedLogon, ~s1.sentLogon PROVE Call(s, t)
  <2>1. /\ DOMAIN t = Fields
        /\ t.initiate = s1.initiate /\ t.receivedLogon = s1.receivedLogon
        /\ t.sending = s1.sending /\ t.torn = s1.torn
        /\ t.sentLogon = s1.sentLogon /\ t.queue = s1.queue
        /\ t.resendRange = s1.resendRange /\ t.nextSender = s1.nextSender
        /\ t.nextTarget = s1.nextTarget /\ t.store = s1.store
        /\ t.got = s1.got /\ t.wiped = s1.wiped
        /\ t.enabled = s1.enabled /\ t.sentLogout = s1.sentLogout
        /\ t.sentReset = s1.sentReset /\ t.receivedReset = s1.receivedReset
        /\ t.testRequest = s1.testRequest
    BY <1>2 DEF SInv, Fields
  <2>2. t.responder \in BOOLEAN
    BY <1>2 DEF SInv, Fields
  <2> HIDE DEF t
  <2>3. SInv(t)
    BY <1>2, <1>4, <2>1, <2>2
       DEF SInv, FlagsTyped, NumbersTyped, StoreOK, SendOK, RangeOK, ConnectionOK
  <2>4. Call(s1, t)
    BY <1>2, <1>4, <2>1, <2>3, SInvFacts DEF Call, Step, Answers
  <2> QED BY <1>2, <2>4, CallTrans
<1> QED BY <1>3, <1>4 DEF refusedLogon, s0, s1

-----------------------------------------------------------------------------
(* Session::next(message) *)

(* A call that delivers nothing.                                           *)
LEMMA CallServes ==
    ASSUME NEW s, NEW t, Call(s, t)
    PROVE  Served(s, t)
BY DEF Call, Step, Served

(* An application message in turn is delivered and used up.                *)
LEMMA DeliverServes ==
    ASSUME NEW s, SInv(s), NEW m \in Message, m.seq = s.nextTarget
    PROVE  LET t == deliver(s, m)
           IN  /\ SInv(t) /\ Keeps(s, t) /\ t.initiate = s.initiate
               /\ t.wiped = s.wiped /\ t.nextSender = s.nextSender
               /\ t.nextTarget = s.nextTarget + 1
               /\ t.got = Append(s.got, s.nextTarget)
<1> DEFINE t == deliver(s, m)
<1>1. /\ DOMAIN t = Fields
      /\ t.initiate = s.initiate /\ t.receivedLogon = s.receivedLogon
      /\ t.sending = s.sending /\ t.torn = s.torn
      /\ t.sentLogon = s.sentLogon /\ t.queue = s.queue
      /\ t.resendRange = s.resendRange /\ t.nextSender = s.nextSender
      /\ t.nextTarget = s.nextTarget + 1 /\ t.store = s.store
      /\ t.responder = s.responder /\ t.wiped = s.wiped
      /\ t.enabled = s.enabled /\ t.sentLogout = s.sentLogout
      /\ t.sentReset = s.sentReset /\ t.receivedReset = s.receivedReset
      /\ t.testRequest = s.testRequest
  BY DEF SInv, Fields, deliver, consume, incrNextTargetMsgSeqNum
<1>2. t.got = Append(s.got, s.nextTarget)
  BY DEF SInv, Fields, deliver, consume, incrNextTargetMsgSeqNum
<1> HIDE DEF t
<1>3. s.nextTarget + 1 \in Nat \ {0}
  BY SInvFacts
<1>4. SInv(t)
  BY <1>1, <1>3 DEF SInv, FlagsTyped, NumbersTyped, StoreOK, SendOK, RangeOK, ConnectionOK
<1> QED BY <1>1, <1>2, <1>4 DEF Keeps, t

(* The handler of every message type delivers at most the expected         *)
(* message.                                                                *)
LEMMA DispatchServes ==
    ASSUME NEW s, SInv(s), s.responder, NEW m \in Message, NEW v \in Verdicts,
           NEW withheld
    PROVE  Served(s, dispatch(s, m, v, withheld))
<1> DEFINE high == \/ m.type \in {"Heartbeat", "TestRequest", "App"}
                   \/ m.type = "SequenceReset" /\ m.flag
           low  == high \/ m.type = "Reject"
           r    == verify(s, m, high, low)
           d    == dispatch(s, m, v, withheld)
<1>1. CASE m.type = "Logon"
  <2>1. d = nextLogon(s, m)
    BY <1>1 DEF dispatch
  <2> QED BY <2>1, NextLogonCall, CallServes
<1>2. CASE m.type # "Logon"
  <2>0. SUFFICES Served(s, d)
    OBVIOUS
  <2>1. /\ Call(s, r.s) /\ SInv(r.s)
        /\ r.ok => /\ Talks(s, r.s)
                   /\ r.s.nextTarget = s.nextTarget
                   /\ high /\ low => m.seq = s.nextTarget
    <3>1. high \in BOOLEAN /\ low \in BOOLEAN
      OBVIOUS
    <3> HIDE DEF high, low
    <3> QED BY <1>2, <3>1, VerifyCall
  <2>2. d = IF ~r.ok THEN r.s
            ELSE IF v # "ok" THEN caught(r.s, m, v)
            ELSE CASE m.type = "App"           -> deliver(r.s, m)
                   [] m.type = "Heartbeat"     -> consume(r.s)
                   [] m.type = "Reject"        -> consume(r.s)
                   [] m.type = "TestRequest"   -> nextTestRequest(r.s)
                   [] m.type = "Logout"        -> nextLogout(r.s)
                   [] m.type = "SequenceReset" -> nextSequenceReset(r.s, m)
                   [] m.type = "ResendRequest" -> nextResendRequest(r.s, m, withheld)
    BY <1>2 DEF dispatch, handle
  <2> HIDE DEF r, d
  <2>3. CASE ~r.ok
    BY <2>1, <2>2, <2>3, CallServes
  <2>4. CASE r.ok /\ v # "ok"
    <3>1. Call(r.s, caught(r.s, m, v))
      BY <2>1, <2>4, CaughtCall DEF Verdicts
    <3> QED BY <2>1, <2>2, <2>4, <3>1, CallTrans, CallServes
  <2>5. CASE r.ok /\ v = "ok" /\ m.type = "App"
    <3>1. d = deliver(r.s, m) /\ m.seq = r.s.nextTarget
      BY <2>1, <2>2, <2>5
    <3>2. /\ SInv(d) /\ Keeps(r.s, d) /\ d.initiate = r.s.initiate
          /\ d.wiped = r.s.wiped /\ d.nextSender = r.s.nextSender
          /\ d.nextTarget = r.s.nextTarget + 1
          /\ d.got = Append(r.s.got, r.s.nextTarget)
      BY <2>1, <3>1, DeliverServes
    <3>3. /\ r.s.nextTarget = s.nextTarget /\ Step(s, r.s) /\ Keeps(s, r.s)
      BY <2>1, <2>5 DEF Talks
    <3>4. /\ d.got = Append(s.got, s.nextTarget) /\ d.initiate = s.initiate
          /\ s.wiped => d.wiped
          /\ Answers(s, d)
      BY <3>2, <3>3 DEF Step, Keeps, Answers
    <3>5. /\ s.nextTarget \in Nat
          /\ d.nextTarget = s.nextTarget + 1
          /\ ~d.wiped => d.nextSender >= s.nextSender
      BY <3>2, <3>3, SInvFacts DEF Step
    <3> QED BY <3>2, <3>4, <3>5 DEF Served
  <2>6. CASE r.ok /\ v = "ok" /\ m.type # "App"
    <3>1. /\ Call(r.s, consume(r.s)) /\ Call(r.s, nextTestRequest(r.s))
          /\ Call(r.s, nextLogout(r.s)) /\ Call(r.s, nextSequenceReset(r.s, m))
          /\ Call(r.s, nextResendRequest(r.s, m, withheld))
      BY <2>1, ConsumeStep, NextTestRequestStep, NextLogoutCall,
         NextSequenceResetStep, NextResendRequestStep, TalksCalls
    <3>2. m.type \in {"Heartbeat", "Reject", "TestRequest", "Logout",
                      "SequenceReset", "ResendRequest"}
      BY <1>2, <2>6 DEF Message, MsgTypes, AdminTypes
    <3>3. Call(r.s, d)
      BY <2>2, <2>6, <3>1, <3>2
    <3> QED BY <2>1, <3>3, CallTrans, CallServes
  <2> QED BY <2>3, <2>4, <2>5, <2>6
<1> QED BY <1>1, <1>2

(* The handler of UnsupportedVersion keeps the invariant.                  *)
LEMMA UnsupportedVersionCall ==
    ASSUME NEW s, SInv(s), NEW m \in Message
    PROVE  Call(s, unsupportedVersion(s, m))
<1> DEFINE s1 == generateLogout(s)
           r  == verify(s, m, FALSE, FALSE)
<1>1. Talks(s, s1) /\ SInv(s1)
  BY LogoutStep, TalksCalls
<1> HIDE DEF s1
<1>2. Call(s, consume(s1))
  BY <1>1, ConsumeStep, TalksTrans, TalksCalls
<1>3. Call(s, r.s) /\ SInv(r.s)
  BY VerifyCall
<1> HIDE DEF r
<1>4. Call(s, nextLogout(r.s))
  BY <1>3, NextLogoutCall, CallTrans
<1> QED BY <1>2, <1>3, <1>4 DEF unsupportedVersion, s1, r

(* The handler of DataDictionaryNotFound keeps the invariant.              *)
LEMMA NoDictionaryCall ==
    ASSUME NEW s, SInv(s), NEW m \in Message
    PROVE  Call(s, noDictionary(s, m))
<1> DEFINE r == m.type # "Logon" /\ ResetOnDisconnect
<1>1. r \in BOOLEAN
  BY SettingsAssumption
<1> HIDE DEF r
<1>2. Call(s, disconnectWith(generateLogout(s), r))
  BY <1>1, LogoutAndDisconnectCall
<1>3. Call(s, generateReject(s, m))
  BY RejectStep, TalksCalls
<1> QED BY <1>2, <1>3 DEF noDictionary, r

(* next(message) delivers at most the expected message.                    *)
LEMMA NextMessageServes ==
    ASSUME NEW s, SInv(s), s.responder, NEW m \in Message, NEW v \in Verdicts,
           NEW withheld, NEW sched, NEW authenticated \in BOOLEAN
    PROVE  Served(s, nextMessage(s, m, v, withheld, sched, authenticated))
<1>1. isLogonTime(sched) \in BOOLEAN
  BY DEF isLogonTime
<1>2. /\ Call(s, disconnect(s)) /\ Call(s, s) /\ Call(s, reset(s))
      /\ Call(s, unsupportedVersion(s, m)) /\ Call(s, generateReject(s, m))
      /\ Call(s, refusedLogon(s, m, isLogonTime(sched)))
      /\ Call(s, noDictionary(s, m)) /\ Call(s, caught(s, m, "logout"))
  BY <1>1, PlainDisconnectCall, StepRefl, ResetCall, UnsupportedVersionCall,
     RejectStep, TalksCalls, RefusedLogonCall, NoDictionaryCall, CaughtCall
<1>3. /\ Served(s, disconnect(s)) /\ Served(s, s) /\ Served(s, reset(s))
      /\ Served(s, unsupportedVersion(s, m)) /\ Served(s, generateReject(s, m))
      /\ Served(s, refusedLogon(s, m, isLogonTime(sched)))
      /\ Served(s, noDictionary(s, m)) /\ Served(s, caught(s, m, "logout"))
  BY <1>2, CallServes
<1>4. Served(s, dispatch(s, m, v, withheld))
  BY DispatchServes
<1> QED BY <1>3, <1>4 DEF nextMessage

(* A Logon never reaches fromApp.                                          *)
LEMMA NextMessageLogonCall ==
    ASSUME NEW s, SInv(s), s.responder, NEW m \in Message, NEW v \in Verdicts,
           NEW withheld, NEW sched, NEW authenticated \in BOOLEAN,
           m.type = "Logon"
    PROVE  Call(s, nextMessage(s, m, v, withheld, sched, authenticated))
<1>1. isLogonTime(sched) \in BOOLEAN
  BY DEF isLogonTime
<1>2. /\ Call(s, disconnect(s)) /\ Call(s, s) /\ Call(s, reset(s))
      /\ Call(s, unsupportedVersion(s, m)) /\ Call(s, generateReject(s, m))
      /\ Call(s, refusedLogon(s, m, isLogonTime(sched)))
      /\ Call(s, noDictionary(s, m)) /\ Call(s, caught(s, m, "logout"))
  BY <1>1, PlainDisconnectCall, StepRefl, ResetCall, UnsupportedVersionCall,
     RejectStep, TalksCalls, RefusedLogonCall, NoDictionaryCall, CaughtCall
<1>3. Call(s, dispatch(s, m, v, withheld))
  BY NextLogonCall DEF dispatch
<1> QED BY <1>2, <1>3 DEF nextMessage

-----------------------------------------------------------------------------
(* Session::next(now) *)

(* The heartbeat timers keep the invariant.                                *)
LEMMA HeartbeatTimersCall ==
    ASSUME NEW s, SInv(s), NEW passed
    PROVE  Call(s, heartbeatTimers(s, passed))
<1>1. /\ Call(s, s) /\ Call(s, disconnect(s)) /\ Call(s, generateTestRequest(s))
      /\ Call(s, generateHeartbeat(s))
  BY StepRefl, PlainDisconnectCall, TestRequestStep, HeartbeatStep, TalksCalls
<1> QED BY <1>1 DEF heartbeatTimers

(* next(now) keeps the invariant and delivers nothing.                     *)
LEMMA ClockStep ==
    ASSUME NEW s, SInv(s), s.responder, NEW passed, NEW sched
    PROVE  Step(s, clock(s, passed, sched))
<1> DEFINE off  == ~s.enabled \/ ~isLogonTime(sched)
           asks == off /\ isLoggedOn(s) /\ ~s.sentLogout
           s1   == IF asks THEN generateLogout(s) ELSE s
           over == IF asks THEN passed \ {"logout", "beat"} ELSE passed
           s2   == IF s1.sentLogout /\ "logout" \in over THEN disconnect(s1) ELSE s1
<1>1. Call(s, s1) /\ SInv(s1)
  BY LogoutStep, StepRefl, TalksCalls
<1> HIDE DEF s1
<1>2. Call(s1, s2) /\ SInv(s2)
  BY <1>1, PlainDisconnectCall, StepRefl
<1> HIDE DEF s2
<1>3. Step(s, heartbeatTimers(s2, over))
  BY <1>1, <1>2, HeartbeatTimersCall, CallTrans DEF Call
<1>4. /\ Step(s, reset(s)) /\ Step(s, s) /\ Step(s, disconnect(s))
      /\ Step(s, generateLogon(s))
  BY ResetCall, StepRefl, PlainDisconnectCall, GenerateLogonStep DEF Call
<1> QED BY <1>3, <1>4 DEF clock, s1, s2

-----------------------------------------------------------------------------
(* The actions. *)

(* Forgetting what the previous call did changes only observers.           *)
LEMMA FreshFacts ==
    ASSUME NEW s, SInv(s)
    PROVE  LET t == Fresh(s)
           IN  /\ SInv(t) /\ t.got = <<>> /\ t.wiped = FALSE
               /\ t.nextTarget = s.nextTarget /\ t.initiate = s.initiate
               /\ t.responder = s.responder /\ t.queue = s.queue
               /\ t.receivedLogon = s.receivedLogon /\ t.sentLogon = s.sentLogon
               /\ t.sending = s.sending
<1> DEFINE t == Fresh(s)
<1>1. /\ DOMAIN t = Fields
      /\ t.initiate = s.initiate /\ t.receivedLogon = s.receivedLogon
      /\ t.sending = s.sending /\ t.torn = s.torn
      /\ t.sentLogon = s.sentLogon /\ t.queue = s.queue
      /\ t.resendRange = s.resendRange /\ t.nextSender = s.nextSender
      /\ t.nextTarget = s.nextTarget /\ t.store = s.store
      /\ t.responder = s.responder
      /\ t.enabled = s.enabled /\ t.sentLogout = s.sentLogout
      /\ t.sentReset = s.sentReset /\ t.receivedReset = s.receivedReset
      /\ t.testRequest = s.testRequest
  BY DEF SInv, Fields, Fresh
<1>2. t.got = <<>> /\ t.wiped = FALSE
  BY DEF SInv, Fields, Fresh
<1> HIDE DEF t
<1>3. FlagsTyped(t)
  BY <1>1, <1>2 DEF SInv, FlagsTyped
<1>4. SInv(t)
  BY <1>1, <1>3 DEF SInv, NumbersTyped, StoreOK, SendOK, RangeOK, ConnectionOK
<1> QED BY <1>1, <1>2, <1>4 DEF t

(* So does starting a call while a thread is inside sendRaw.               *)
LEMMA RacingFacts ==
    ASSUME NEW s, SInv(s), NEW race
    PROVE  LET t == Racing(s, race)
           IN  /\ SInv(t) /\ t.got = <<>> /\ t.wiped = FALSE
               /\ t.nextTarget = s.nextTarget /\ t.initiate = s.initiate
               /\ t.nextSender = s.nextSender /\ t.asked = s.asked
               /\ t.resendRange = s.resendRange
               /\ t.responder = s.responder /\ t.queue = s.queue
               /\ t.receivedLogon = s.receivedLogon /\ t.sentLogon = s.sentLogon
<1> DEFINE f == Fresh(s)
           t == [f EXCEPT !.race = race]
<1>1. /\ SInv(f) /\ f.got = <<>> /\ f.wiped = FALSE
      /\ f.nextTarget = s.nextTarget /\ f.initiate = s.initiate
      /\ f.responder = s.responder /\ f.queue = s.queue
      /\ f.receivedLogon = s.receivedLogon /\ f.sentLogon = s.sentLogon
  BY FreshFacts
<1>2. /\ f.nextSender = s.nextSender /\ f.asked = s.asked
      /\ f.resendRange = s.resendRange
  BY DEF SInv, Fields, Fresh
<1> HIDE DEF f
<1>3. /\ DOMAIN t = Fields /\ t.got = f.got /\ t.wiped = f.wiped
      /\ t.initiate = f.initiate /\ t.receivedLogon = f.receivedLogon
      /\ t.sending = f.sending /\ t.torn = f.torn /\ t.asked = f.asked
      /\ t.sentLogon = f.sentLogon /\ t.queue = f.queue
      /\ t.resendRange = f.resendRange /\ t.nextSender = f.nextSender
      /\ t.nextTarget = f.nextTarget /\ t.store = f.store
      /\ t.responder = f.responder
      /\ t.enabled = f.enabled /\ t.sentLogout = f.sentLogout
      /\ t.sentReset = f.sentReset /\ t.receivedReset = f.receivedReset
      /\ t.testRequest = f.testRequest
  BY <1>1 DEF SInv, Fields
<1> HIDE DEF t
<1>4. SInv(t)
  BY <1>1, <1>3
     DEF SInv, FlagsTyped, NumbersTyped, StoreOK, SendOK, RangeOK, ConnectionOK
<1> QED BY <1>1, <1>2, <1>3, <1>4 DEF Racing, f, t

(* At the end of a call nothing of the send is left but its number.        *)
LEMMA ReleasedFacts ==
    ASSUME NEW s, SInv(s)
    PROVE  LET t == Released(s)
           IN  /\ SInv(t) /\ t.sending = 0 /\ t.race = "none"
               /\ t.got = s.got /\ t.wiped = s.wiped /\ t.initiate = s.initiate
               /\ t.nextTarget = s.nextTarget /\ t.nextSender >= s.nextSender
               /\ t.queue = s.queue /\ t.asked = s.asked
               /\ t.resendRange = s.resendRange
<1> DEFINE f == finishSend(s)
           t == [f EXCEPT !.race = "none"]
<1>1. /\ Talks(s, f) /\ SInv(f) /\ f.sending = 0 /\ f.wiped = s.wiped
      /\ f.nextTarget = s.nextTarget /\ f.queue = s.queue /\ f.asked = s.asked
      /\ f.resendRange = s.resendRange
  BY FinishStep
<1>2. f.nextSender >= s.nextSender
  <2>1. CASE s.sending = 0
    BY <2>1, SInvFacts DEF finishSend
  <2>2. CASE s.sending # 0
    <3>1. s.nextSender = 1
      BY <2>2 DEF SInv, SendOK
    <3>2. f.nextSender \in Nat /\ f.nextSender > 0
      BY <1>1, SInvFacts
    <3> QED BY <3>1, <3>2
  <2> QED BY <2>1, <2>2
<1> HIDE DEF f
<1>3. /\ DOMAIN t = Fields /\ t.race = "none" /\ t.got = f.got /\ t.wiped = f.wiped
      /\ t.initiate = f.initiate /\ t.receivedLogon = f.receivedLogon
      /\ t.sending = f.sending /\ t.torn = f.torn /\ t.asked = f.asked
      /\ t.sentLogon = f.sentLogon /\ t.queue = f.queue
      /\ t.resendRange = f.resendRange /\ t.nextSender = f.nextSender
      /\ t.nextTarget = f.nextTarget /\ t.store = f.store
      /\ t.responder = f.responder
      /\ t.enabled = f.enabled /\ t.sentLogout = f.sentLogout
      /\ t.sentReset = f.sentReset /\ t.receivedReset = f.receivedReset
      /\ t.testRequest = f.testRequest
  BY <1>1 DEF SInv, Fields
<1> HIDE DEF t
<1>4. SInv(t)
  BY <1>1, <1>3
     DEF SInv, FlagsTyped, NumbersTyped, StoreOK, SendOK, RangeOK, ConnectionOK
<1> QED BY <1>1, <1>2, <1>3, <1>4 DEF Released, Talks, Step, f, t

(* What an action of Session needs of a call.                              *)
LEMMA MovesFacts ==
    ASSUME NEW s, NEW t, SInv(s)
    PROVE  (Step(s, t) => Moves(s, t)) /\ (Served(s, t) => Moves(s, t))
BY DEF Step, Served, Moves

(* The effect of a step on what was delivered; f is the state the call     *)
(* starts in.                                                              *)
LEMMA LeavesInv ==
    ASSUME Inv, NEW f, NEW c, Moves(f, c), Leaves(c),
           f.got = <<>>, f.nextTarget = st.nextTarget, f.initiate = st.initiate,
           phase' \in {"idle", "drain", "clock"}
    PROVE  Inv' /\ (st'.got # <<>> => st'.got[1] > delivered)
<1> DEFINE t == Released(c)
<1>0. /\ SInv(t) /\ t.sending = 0 /\ t.race = "none" /\ t.got = c.got
      /\ t.wiped = c.wiped /\ t.initiate = c.initiate /\ t.nextTarget = c.nextTarget
  BY ReleasedFacts DEF Moves
<1>1. /\ SInv(st) /\ st.initiate = Initiate /\ delivered \in Nat
      /\ delivered < st.nextTarget /\ st.nextTarget \in Nat
  BY SInvFacts DEF Inv
<1>2. st' = t /\ SInv(t)
  BY <1>0 DEF Leaves
<1>3. /\ t.initiate = Initiate
      /\ ~t.wiped => t.nextTarget >= st.nextTarget
      /\ \/ t.got = <<>>
         \/ t.got = Append(<<>>, st.nextTarget) /\ t.nextTarget > st.nextTarget
  BY <1>0, <1>1 DEF Moves
<1> HIDE DEF t
<1>4. t.nextTarget \in Nat /\ t.nextTarget > 0 /\ t.wiped \in BOOLEAN
  BY <1>2, SInvFacts
<1>5. delivered' = IF t.got # <<>> THEN t.got[Len(t.got)]
                   ELSE IF t.wiped THEN 0 ELSE delivered
  BY <1>0 DEF Leaves
<1>6. CASE t.got = <<>>
  BY <1>0, <1>1, <1>2, <1>3, <1>4, <1>5, <1>6 DEF Inv
<1>7. CASE t.got = Append(<<>>, st.nextTarget) /\ t.nextTarget > st.nextTarget
  <2>1. t.got # <<>> /\ Len(t.got) = 1 /\ t.got[1] = st.nextTarget
    BY <1>1, <1>7
  <2> QED BY <1>0, <1>1, <1>2, <1>3, <1>4, <1>5, <1>7, <2>1 DEF Inv
<1> QED BY <1>3, <1>6, <1>7

(* A connection may be attached, and let go without a Logon.               *)
LEMMA SetResponderStep ==
    ASSUME NEW s, SInv(s), NEW r \in BOOLEAN,
           r \/ (~s.receivedLogon /\ ~s.sentLogon)
    PROVE  LET t == [s EXCEPT !.responder = r]
           IN  /\ Step(s, t) /\ SInv(t) /\ t.responder = r
               /\ t.receivedLogon = s.receivedLogon /\ t.sentLogon = s.sentLogon
<1> DEFINE t == [s EXCEPT !.responder = r]
<1>1. /\ DOMAIN t = Fields
      /\ t.initiate = s.initiate /\ t.receivedLogon = s.receivedLogon
      /\ t.sending = s.sending /\ t.torn = s.torn
      /\ t.sentLogon = s.sentLogon /\ t.queue = s.queue
      /\ t.resendRange = s.resendRange /\ t.nextSender = s.nextSender
      /\ t.nextTarget = s.nextTarget /\ t.store = s.store
      /\ t.got = s.got /\ t.wiped = s.wiped /\ t.responder = r
      /\ t.enabled = s.enabled /\ t.sentLogout = s.sentLogout
      /\ t.sentReset = s.sentReset /\ t.receivedReset = s.receivedReset
      /\ t.testRequest = s.testRequest
  BY DEF SInv, Fields
<1> HIDE DEF t
<1>2. SInv(t)
  BY <1>1 DEF SInv, FlagsTyped, NumbersTyped, StoreOK, SendOK, RangeOK, ConnectionOK
<1>3. Step(s, t)
  BY <1>1, <1>2, SInvFacts DEF Step
<1> QED BY <1>1, <1>2, <1>3 DEF t

(* setResponder on a session without a connection.                         *)
LEMMA AttachStep ==
    ASSUME NEW s, SInv(s), ~s.responder, NEW sched
    PROVE  LET t == attach(s, sched)
           IN  /\ Step(s, t) /\ SInv(t) /\ t.responder
               /\ ~t.receivedLogon /\ ~t.sentLogon
<1> DEFINE s1 == IF checkSessionTime(sched) THEN s ELSE reset(s)
           t  == [s1 EXCEPT !.responder = TRUE]
<1>1. Step(s, s1) /\ SInv(s1) /\ ~s1.receivedLogon /\ ~s1.sentLogon
  <2>1. ~s.receivedLogon /\ ~s.sentLogon
    BY DEF SInv, ConnectionOK
  <2> QED BY <2>1, StepRefl, ResetCall DEF Call
<1> HIDE DEF s1
<1>2. /\ Step(s1, t) /\ SInv(t) /\ t.responder = TRUE
      /\ t.receivedLogon = s1.receivedLogon /\ t.sentLogon = s1.sentLogon
  BY <1>1, SetResponderStep
<1> HIDE DEF t
<1>3. Step(s, t)
  BY <1>1, <1>2, StepTrans
<1> QED BY <1>1, <1>2, <1>3 DEF attach, s1, t

(* acceptLogon keeps the invariant, accepted or refused.                   *)
LEMMA AcceptLogonStep ==
    ASSUME NEW s, SInv(s), ~s.responder, NEW m \in Message, m.type = "Logon",
           NEW v \in Verdicts, NEW sched
    PROVE  Step(s, acceptLogon(s, m, v, sched))
<1> DEFINE a  == attach(s, sched)
           s1 == nextMessage(a, m, v, {}, "open", TRUE)
           t  == [s1 EXCEPT !.responder = FALSE]
           c  == [s EXCEPT !.responder = TRUE]
<1>1. Step(s, a) /\ SInv(a) /\ a.responder /\ ~a.receivedLogon /\ ~a.sentLogon
  BY AttachStep
<1> HIDE DEF a
<1>a. Call(a, s1)
  BY <1>1, NextMessageLogonCall
<1> HIDE DEF s1
<1>2. Call(a, s1) /\ SInv(s1)
  BY <1>a DEF Call, Step
<1>3. Step(s, s1)
  BY <1>1, <1>2, StepTrans DEF Call
<1>4. ASSUME ~s1.receivedLogon PROVE Step(s, t)
  <2>1. ~s1.sentLogon
    BY <1>1, <1>2, <1>4 DEF Call, Answers
  <2>2. Step(s1, t)
    BY <1>2, <1>4, <2>1, SetResponderStep
  <2> QED BY <1>2, <1>3, <2>2, StepTrans
<1>5. Step(s, refuseLogon(s))
  <2>1. Step(s, c) /\ SInv(c)
    BY SetResponderStep
  <2> HIDE DEF c
  <2>2. Step(c, disconnectWith(generateLogout(c), FALSE))
    BY <2>1, LogoutAndDisconnectCall DEF Call
  <2>3. Step(s, disconnectWith(generateLogout(c), FALSE))
    BY <2>1, <2>2, StepTrans
  <2> QED BY <2>3 DEF refuseLogon, c
<1>6. Step(s, s)
  BY StepRefl DEF Call
<1> QED BY <1>3, <1>4, <1>5, <1>6 DEF acceptLogon, a, s1

(* A queued message is handled like one from the connection.               *)
LEMMA DrainOneMoves ==
    ASSUME NEW s, SInv(s), s.receivedLogon \/ s.sentLogon, NEW m \in Message,
           NEW v \in Verdicts, NEW withheld, NEW sched
    PROVE  Moves(s, drainOne(s, m, v, withheld, sched))
<1> DEFINE s1 == queueWithout(s, {m.seq})
           t  == nextMessage(s1, m, v, withheld, sched, FALSE)
<1>1. Talks(s, s1) /\ SInv(s1) /\ s1.nextTarget = s.nextTarget
  BY QueueWithoutStep
<1>2. s1.responder
  BY <1>1 DEF Talks, Keeps, SInv, ConnectionOK
<1> HIDE DEF s1
<1>3. Moves(s, consume(s1))
  BY <1>1, ConsumeStep, TalksTrans, MovesFacts DEF Talks
<1>4. Served(s1, t)
  BY <1>1, <1>2, NextMessageServes
<1> HIDE DEF t
<1>5. s1.got = s.got /\ s1.initiate = s.initiate
  BY <1>1 DEF Talks, Step
<1>6. Moves(s, t)
  BY <1>1, <1>4, <1>5 DEF Served, Moves
<1> QED BY <1>3, <1>6 DEF drainOne, s1, t

(* The verdicts a run uses are verdicts.                                   *)
LEMMA VerdictsType ==
    ASSUME NEW m, NEW v \in verdicts(m)
    PROVE  v \in Verdicts
BY SessionAssumption DEF verdicts, Verdicts

(* Every action keeps the invariant and delivers in order.                 *)
LEMMA NextInv ==
    ASSUME Inv, Next
    PROVE  Inv' /\ (st'.got # <<>> => st'.got[1] > delivered)
<1> DEFINE f == Fresh(st)
           Goal == Inv' /\ (st'.got # <<>> => st'.got[1] > delivered)
<1> DEFINE g(race) == Racing(st, race)
<1>0. ASSUME NEW race
      PROVE  /\ SInv(g(race)) /\ g(race).responder = st.responder
             /\ g(race).queue = st.queue
             /\ g(race).receivedLogon = st.receivedLogon
             /\ g(race).sentLogon = st.sentLogon
             /\ g(race).got = <<>> /\ g(race).nextTarget = st.nextTarget
             /\ g(race).initiate = st.initiate
  BY RacingFacts DEF Inv
<1>1. /\ SInv(f) /\ f.responder = st.responder /\ f.queue = st.queue
      /\ f.receivedLogon = st.receivedLogon /\ f.sentLogon = st.sentLogon
      /\ f.got = <<>> /\ f.nextTarget = st.nextTarget /\ f.initiate = st.initiate
      /\ f.sending = 0
      /\ SInv(st) /\ phase \in {"idle", "drain", "clock"}
  BY FreshFacts DEF Inv
<1>2. \A m \in Inbound : m \in Message
  BY SessionAssumption
<1> HIDE DEF f, g
<1>3. ASSUME NEW t, Step(f, t), Leaves(t), phase' \in {"idle", "drain", "clock"}
      PROVE  Goal
  BY <1>1, <1>3, MovesFacts, LeavesInv
<1>a. ASSUME NEW race, NEW t, Step(g(race), t), Leaves(t),
             phase' \in {"idle", "drain", "clock"}
      PROVE  Goal
  BY <1>0, <1>a, MovesFacts, LeavesInv
<1>4. CASE Connect
  <2>1. PICK sched \in Sched : Leaves(attach(f, sched))
    BY <1>4 DEF Connect, f
  <2>2. Step(f, attach(f, sched))
    BY <1>1, <1>4, AttachStep DEF Connect
  <2> QED BY <1>1, <1>3, <1>4, <2>1, <2>2 DEF Connect
<1>5. CASE AcceptLogon
  <2>0. PICK m \in Inbound, sched \in Sched :
          /\ m.type = "Logon"
          /\ \E v \in verdicts(m) : Leaves(acceptLogon(f, m, v, sched))
    BY <1>5 DEF AcceptLogon, f
  <2>1. PICK v \in verdicts(m) : Leaves(acceptLogon(f, m, v, sched))
    BY <2>0
  <2>2. Step(f, acceptLogon(f, m, v, sched))
    BY <1>1, <1>2, <1>5, <2>0, VerdictsType, AcceptLogonStep DEF AcceptLogon
  <2>3. phase' \in {"idle", "drain", "clock"}
    BY <1>5 DEF AcceptLogon
  <2> QED BY <1>3, <2>1, <2>2, <2>3
<1>6. CASE Receive
  <2>0. PICK m \in Inbound, sched \in Sched :
          \E v \in verdicts(m), withheld \in withholdings(m), race \in racesWith(m, sched) :
            /\ Leaves(nextMessage(g(race), m, v, withheld, sched, FALSE))
            /\ phase' \in {"idle", "drain", "clock"}
    BY <1>6 DEF Receive, g
  <2>1. PICK v \in verdicts(m), withheld \in withholdings(m), race \in racesWith(m, sched) :
          /\ Leaves(nextMessage(g(race), m, v, withheld, sched, FALSE))
          /\ phase' \in {"idle", "drain", "clock"}
    BY <2>0
  <2>2. Served(g(race), nextMessage(g(race), m, v, withheld, sched, FALSE))
    BY <1>0, <1>2, <1>6, VerdictsType, NextMessageServes DEF Receive
  <2> QED BY <1>0, <2>1, <2>2, MovesFacts, LeavesInv
<1>7. CASE Drain
  <2> DEFINE m == st.queue[st.nextTarget]
  <2>1. PICK sched \in Sched, v \in verdicts(m) :
          \E withheld \in withholdings(m), race \in racesWith(m, sched) :
            /\ Leaves(drainOne(g(race), m, v, withheld, sched))
            /\ phase' \in nextPhase(st, m, v, sched)
    BY <1>7 DEF Drain, g
  <2>2. PICK withheld \in withholdings(m), race \in racesWith(m, sched) :
          /\ Leaves(drainOne(g(race), m, v, withheld, sched))
          /\ phase' \in nextPhase(st, m, v, sched)
    BY <2>1
  <2>3. m \in Message
    BY <1>1, <1>7 DEF Drain, SInv, Holds
  <2>4. g(race).receivedLogon \/ g(race).sentLogon
    BY <1>0, <1>1, <1>7 DEF Drain, SInv, ConnectionOK
  <2> HIDE DEF m
  <2>5. Moves(g(race), drainOne(g(race), m, v, withheld, sched))
    BY <1>0, <2>3, <2>4, VerdictsType, DrainOneMoves
  <2>6. phase' \in {"idle", "drain", "clock"}
    BY <2>2 DEF nextPhase
  <2> QED BY <1>0, <2>2, <2>5, <2>6, LeavesInv
<1>8. ASSUME clockAfterMessage, phase' \in {"idle", "drain", "clock"}
      PROVE  Goal
  <2>1. PICK sched \in Sched, passed \in Elapsed :
          \E race \in races(~checkSessionTime(sched)) :
            Leaves(IF isLoggedOn(st) THEN clock(g(race), passed, sched) ELSE f)
    BY <1>8 DEF clockAfterMessage, f, g
  <2>2. PICK race \in races(~checkSessionTime(sched)) :
          Leaves(IF isLoggedOn(st) THEN clock(g(race), passed, sched) ELSE f)
    BY <2>1
  <2>3. CASE isLoggedOn(st)
    <3>1. g(race).responder
      BY <1>0, <1>1, <2>3 DEF isLoggedOn, SInv, ConnectionOK
    <3>2. Step(g(race), clock(g(race), passed, sched))
      BY <1>0, <3>1, ClockStep
    <3> QED BY <1>a, <1>8, <2>2, <2>3, <3>2
  <2>4. CASE ~isLoggedOn(st)
    <3>1. Step(f, f)
      BY <1>1, StepRefl DEF Call
    <3> QED BY <1>3, <1>8, <2>2, <2>4, <3>1
  <2> QED BY <2>3, <2>4
<1>9. CASE ClockInDrain
  BY <1>8, <1>9 DEF ClockInDrain
<1>10. CASE DrainEnds
  BY <1>8, <1>10 DEF DrainEnds
<1>11. CASE Clock
  <2>1. PICK sched \in Sched, passed \in Elapsed :
          \E race \in races(~checkSessionTime(sched) \/ shouldSendLogon(st)) :
            Leaves(clock(g(race), passed, sched))
    BY <1>11 DEF Clock, g
  <2>2. PICK race \in races(~checkSessionTime(sched) \/ shouldSendLogon(st)) :
          Leaves(clock(g(race), passed, sched))
    BY <2>1
  <2>3. Step(g(race), clock(g(race), passed, sched))
    BY <1>0, <1>11, ClockStep DEF Clock
  <2> QED BY <1>1, <1>a, <1>11, <2>2, <2>3 DEF Clock
<1>12. CASE ConnectionLost
  <2>1. Step(f, disconnect(f))
    BY <1>1, PlainDisconnectCall DEF Call
  <2> QED BY <1>1, <1>3, <1>12, <2>1 DEF ConnectionLost, f
<1>13. CASE Send
  <2>1. PICK vetoed \in BOOLEAN : Leaves(sendApp(f, vetoed))
    BY <1>13 DEF Send, f
  <2>2. Step(f, sendApp(f, vetoed))
    BY <1>1, SendAppStep DEF Talks
  <2> QED BY <1>1, <1>3, <1>13, <2>1, <2>2 DEF Send
<1>14. CASE Enable
  <2> DEFINE t == [f EXCEPT !.enabled = ~st.enabled]
  <2>1. /\ Same(f, t, {"enabled", "sentLogout", "sentReset", "receivedReset",
                       "testRequest", "out", "asked", "owed"})
        /\ t.sentLogout = f.sentLogout
        /\ t.sentReset = f.sentReset /\ t.receivedReset = f.receivedReset
        /\ t.testRequest = f.testRequest
    BY <1>1 DEF SInv, Same, Fields
  <2>2. t.enabled \in BOOLEAN
    BY <1>1 DEF SInv, Fields
  <2>3. Leaves(t)
    BY <1>14 DEF Enable, f
  <2> HIDE DEF t
  <2>4. Step(f, t)
    BY <1>1, <2>1, <2>2, SInvFacts, QuietStep DEF Talks
  <2> QED BY <1>1, <1>3, <1>14, <2>3, <2>4 DEF Enable
<1>15. CASE SendRetransmits
  <2>1. PICK withheld \in Withholdings : Leaves(retransmitOwed(f, withheld))
    BY <1>15 DEF SendRetransmits, f
  <2>2. Step(f, retransmitOwed(f, withheld))
    BY <1>1, RetransmitOwedStep DEF Talks
  <2> QED BY <1>1, <1>3, <1>15, <2>1, <2>2 DEF SendRetransmits
<1> QED BY <1>4, <1>5, <1>6, <1>7, <1>9, <1>10, <1>11, <1>12, <1>13, <1>14, <1>15
     DEF Next

(* A new session satisfies the invariant.                                  *)
LEMMA InitInv ==
    ASSUME Init
    PROVE  Inv
<1> DEFINE s == NewSession(Initiate)
<1>1. /\ DOMAIN s = Fields
      /\ s.initiate = Initiate /\ s.queue = NoMessages
      /\ s.resendRange = <<0, 0>> /\ s.nextSender = 1
      /\ s.nextTarget = 1 /\ s.store = NoMessages /\ s.testRequest = 0
      /\ s.sending = 0 /\ s.race = "none" /\ s.torn = FALSE
  BY DEF NewSession, Fields
<1>2. /\ s.receivedLogon = FALSE /\ s.sentLogon = FALSE /\ s.responder = FALSE
      /\ s.enabled = TRUE /\ s.sentLogout = FALSE /\ s.wiped = FALSE
      /\ s.sentReset = FALSE /\ s.receivedReset = FALSE
  BY DEF NewSession
<1> HIDE DEF s
<1>3. DOMAIN NoMessages = {} /\ Holds(NoMessages)
  BY DEF NoMessages, Holds
<1>4. FlagsTyped(s)
  <2>1. s.testRequest \in Nat
    BY <1>1
  <2>2. s.initiate \in BOOLEAN
    BY <1>1, SessionAssumption
  <2>3. /\ s.receivedLogon \in BOOLEAN /\ s.sentLogon \in BOOLEAN
        /\ s.responder \in BOOLEAN /\ s.enabled \in BOOLEAN
        /\ s.sentLogout \in BOOLEAN /\ s.wiped \in BOOLEAN
        /\ s.sentReset \in BOOLEAN /\ s.receivedReset \in BOOLEAN
    BY <1>2
  <2> QED BY <2>1, <2>2, <2>3 DEF FlagsTyped
<1>5. NumbersTyped(s) /\ StoreOK(s) /\ SendOK(s)
  <2>1. 1 .. (s.nextSender - 1) = {}
    BY <1>1
  <2>2. s.torn \in BOOLEAN
    BY <1>1
  <2> QED BY <1>1, <1>3, <2>1, <2>2 DEF NumbersTyped, StoreOK, SendOK
<1>6. RangeOK(s) /\ ConnectionOK(s)
  BY <1>1, <1>2, <1>3 DEF RangeOK, ConnectionOK
<1>7. SInv(s)
  BY <1>1, <1>3, <1>4, <1>5, <1>6 DEF SInv
<1>8. st = s /\ phase = "idle" /\ delivered = 0
  BY DEF Init, s
<1>9. delivered \in Nat /\ delivered < st.nextTarget
  BY <1>1, <1>8
<1> QED BY <1>1, <1>7, <1>8, <1>9 DEF Inv

-----------------------------------------------------------------------------
(* The theorems. *)

(* The inductive invariant holds in every reachable state, whatever the    *)
(* settings, the counterparty, the application, the schedule and the clock *)
(* do.                                                                     *)
THEOREM InvHolds == Spec => []Inv
<1>1. Init => Inv
  BY InitInv
<1>2. Inv /\ [Next]_vars => Inv'
  <2>1. CASE Next
    BY <2>1, NextInv
  <2>2. CASE UNCHANGED vars
    BY <2>2 DEF vars, Inv
  <2> QED BY <2>1, <2>2
<1> QED BY <1>1, <1>2, PTL DEF Spec

(* Type correctness of a session endpoint: Session::next, the send path    *)
(* and disconnect() keep numbers positive and queue and store well formed. *)
THEOREM TypeCorrect == Spec => []TypeOK
<1>1. Inv => TypeOK
  <2> SUFFICES ASSUME Inv PROVE TypeOK
    OBVIOUS
  <2>1. /\ FlagsTyped(st) /\ NumbersTyped(st) /\ RangeOK(st)
        /\ Holds(st.queue) /\ Holds(st.store)
    BY DEF Inv, SInv, StoreOK
  <2>2. resendRequested(st) => st.resendRange[1] > 0
    BY <2>1 DEF RangeOK, resendRequested
  <2>3. /\ st.initiate = Initiate /\ phase \in {"idle", "drain", "clock"}
        /\ delivered \in Nat
        /\ st.race = "none" /\ st.sending = 0 /\ st.torn \in BOOLEAN
    BY DEF Inv, SInv, SendOK
  <2> QED BY <2>1, <2>2, <2>3, Zenon
       DEF TypeOK, FlagsTyped, NumbersTyped, RangeOK, Holds
<1> QED BY <1>1, InvHolds, PTL

(* disconnect() leaves nothing of a connection behind, on every path that  *)
(* ends one: queued messages and pending resend requests never outlive it. *)
THEOREM ConnectionSafe == Spec => []NothingOutlivesConnection
<1>1. Inv => NothingOutlivesConnection
  BY DEF Inv, SInv, ConnectionOK, NothingOutlivesConnection, resendRequested
<1> QED BY <1>1, InvHolds, PTL

(* Every number the session has used is in the store, so that any resend   *)
(* request can be answered; without PersistMessages the store is empty.    *)
(* After a reset outside m_mutex that fell inside an application thread's  *)
(* send, every number but the first is.                                    *)
THEOREM StoreComplete == Spec => []StoreMatchesSender
<1>1. Inv => StoreMatchesSender
  BY DEF Inv, SInv, StoreOK, StoreMatchesSender
<1> QED BY <1>1, InvHolds, PTL

(* What fromApp was given lies below the number expected next.             *)
THEOREM DeliveredBelow == Spec => []DeliveredBelowTarget
<1>1. Inv => DeliveredBelowTarget
  BY DEF Inv, DeliveredBelowTarget
<1> QED BY <1>1, InvHolds, PTL

(* fromApp is called with increasing numbers until MessageStore::reset: no *)
(* application message is delivered twice or after a later one.            *)
THEOREM InOrder == Spec => InOrderDelivery
<1>1. Inv /\ [Next]_vars => [st'.got # <<>> => st'.got[1] > delivered]_vars
  BY NextInv
<1> QED BY <1>1, InvHolds, PTL DEF Spec, InOrderDelivery
=============================================================================

---------------------------- MODULE SessionCore ----------------------------
(***************************************************************************)
(* Session.cpp, Session.h and SessionState.h: one FIX session, as          *)
(* operators from a session state (and what the caller passes) to the      *)
(* session state the call leaves.  Session.tla turns the calls into the    *)
(* actions of one endpoint, SessionPair.tla connects two endpoints.        *)
(*                                                                         *)
(* A session state is a record:                                            *)
(*   initiate, enabled, receivedLogon, sentLogon, sentLogout, sentReset,   *)
(*   receivedReset   the flags of SessionState;                            *)
(*   testRequest     TestRequests sent since the last message arrived;     *)
(*   queue           m_queue: messages received ahead of their turn;       *)
(*   resendRange     m_resendRange, <<0, 0>> when nothing is requested;    *)
(*   nextSender, nextTarget, store   the MessageStore;                     *)
(*   responder       m_pResponder is set (a connection is attached);       *)
(*   owed            the local of nextLogon that says from where to        *)
(*                   retransmit once the queue is empty (0: nothing);      *)
(*   race            how far an application thread is in sendRaw when the  *)
(*                   call next resets the store without m_mutex (Races);   *)
(*   sending         the number that thread has put into its message, from *)
(*                   that reset until it releases m_mutex (0: none).       *)
(* and five observers, which no code reads:                                *)
(*   out     messages handed to the responder, in order;                   *)
(*   got     numbers of the messages given to Application::fromApp;        *)
(*   wiped   MessageStore::reset was called;                               *)
(*   asked   the numbers from which the counterparty was told to resend,   *)
(*           on this connection and since the numbers were last reset;     *)
(*   torn    the last reset fell inside an application thread's send.      *)
(*                                                                         *)
(* m_mutex.  sendRaw holds it from the number it fills in to the send,     *)
(* disconnect and setResponder hold it, and acceptLogon holds it over the  *)
(* whole call.  The resets of next() are not under it (Session.cpp:455,    *)
(* 466, 576 and 961, Session.h:86): they can fall inside the sendRaw of an *)
(* application thread, and the network thread then waits for that thread   *)
(* at its own next sendRaw or disconnect.                                  *)
(*                                                                         *)
(* Left out: the detached mode used by the Infinite adapter, versions      *)
(* before FIX.4.2 (EndSeqNo 999999), and clock values: a timer is a set of *)
(* deadlines that have passed (Deadlines).                                 *)
(***************************************************************************)
EXTENDS Retransmit

CONSTANTS
    ResetOnLogon, ResetOnLogout, ResetOnDisconnect,
    PersistMessages, SendRedundantResendRequests, SendNextExpectedMsgSeqNum

ASSUME SettingsAssumption ==
    /\ ResetOnLogon \in BOOLEAN
    /\ ResetOnLogout \in BOOLEAN
    /\ ResetOnDisconnect \in BOOLEAN
    /\ PersistMessages \in BOOLEAN
    /\ SendRedundantResendRequests \in BOOLEAN
    /\ SendNextExpectedMsgSeqNum \in BOOLEAN

NoMessages == [n \in {} |-> Plain("App", 0)]

(* Session::Session with a new store.                                      *)
NewSession(initiate) ==
    [initiate |-> initiate, enabled |-> TRUE, receivedLogon |-> FALSE,
     sentLogon |-> FALSE, sentLogout |-> FALSE, sentReset |-> FALSE,
     receivedReset |-> FALSE, testRequest |-> 0, queue |-> NoMessages,
     resendRange |-> <<0, 0>>, nextSender |-> 1, nextTarget |-> 1,
     store |-> NoMessages, responder |-> FALSE, owed |-> 0,
     race |-> "none", sending |-> 0,
     out |-> <<>>, got |-> <<>>, wiped |-> FALSE, asked |-> {}, torn |-> FALSE]

(* A call starts: forget what the previous call did.                       *)
Fresh(s) == [s EXCEPT !.out = <<>>, !.got = <<>>, !.wiped = FALSE]

(* Where a reset can fall in an application thread's sendRaw: after fill() *)
(* and before m_state.set, or between m_state.set and                      *)
(* incrNextSenderMsgSeqNum.  Held: the thread still holds m_mutex when the *)
(* network thread wants it; otherwise it ends its send right after the     *)
(* reset.  "none": no thread is inside sendRaw.                            *)
Races == {"none", "filled", "filledHeld", "saved", "savedHeld"}

isLoggedOn(s) == s.receivedLogon /\ s.sentLogon
shouldSendLogon(s) == s.initiate /\ ~s.sentLogon
alreadySentLogon(s) == s.initiate /\ s.sentLogon
resendRequested(s) == s.resendRange # <<0, 0>>
isTargetTooHigh(s, m) == m.seq > s.nextTarget

(* Seeded error: the last message handled does not count as too low.       *)
isTargetTooLowOff(s, m) == m.seq + 1 < s.nextTarget
isTargetTooLow(s, m) == m.seq < s.nextTarget

shouldSendReset(s) ==
    /\ ResetOnLogon \/ ResetOnLogout \/ ResetOnDisconnect
    /\ s.nextSender = 1
    /\ s.nextTarget = 1

answersPendingLogon(s, t) == s.sentLogon /\ t \in {"Logout", "Reject"}

validLogonState(s, t) ==
    IF t # "Logon" /\ ~s.receivedLogon
    THEN answersPendingLogon(s, t)
    ELSE \/ t = "Logon" /\ s.sentReset
         \/ s.receivedReset
         \/ t = "Logon" /\ ~s.receivedLogon
         \/ t # "Logon" /\ s.receivedLogon
         \/ t = "Logout" /\ s.sentLogon
         \/ t # "Logout" /\ s.sentLogout
         \/ t \in {"SequenceReset", "Reject"}

-----------------------------------------------------------------------------
(* The store and the queue of SessionState.                                *)

(* MemoryStore::reset: both numbers 1, no messages.                        *)
storeReset(s) ==
    [s EXCEPT !.nextSender = 1, !.nextTarget = 1, !.store = NoMessages,
              !.wiped = TRUE, !.asked = {}, !.torn = FALSE]

incrNextTargetMsgSeqNum(s) == [s EXCEPT !.nextTarget = @ + 1]

(* Seeded error: administrative messages take a number and are not kept.   *)
persistApp(s, m) ==
    [s EXCEPT !.store = IF PersistMessages /\ ~isAdminMsgType(m.type)
                        THEN [n \in DOMAIN @ \cup {m.seq} |->
                                 IF n = m.seq THEN m ELSE @[n]]
                        ELSE @,
              !.nextSender = @ + 1]

persist(s, m) ==
    [s EXCEPT !.store = IF PersistMessages
                        THEN [n \in DOMAIN @ \cup {m.seq} |->
                                 IF n = m.seq THEN m ELSE @[n]]
                        ELSE @,
              !.nextSender = @ + 1]

enqueue(s, m) ==
    [s EXCEPT !.queue = [n \in DOMAIN @ \cup {m.seq} |->
                            IF n = m.seq THEN m ELSE @[n]]]

queueWithout(s, gone) ==
    [s EXCEPT !.queue = [n \in DOMAIN @ \ gone |-> @[n]]]

-----------------------------------------------------------------------------
(* Sending.                                                                *)

(* Session::send(string): nothing without a responder.                     *)
sendAll(s, ms) == IF s.responder THEN [s EXCEPT !.out = @ \o ms] ELSE s

(* The end of sendRaw: persist, then hand the message over if it goes.     *)
sendNumbered(s, m, goes) == sendAll(persist(s, m), IF goes THEN <<m>> ELSE <<>>)

(* sendRaw takes no application message for a session that is about to     *)
(* send a Logon with a reset.                                              *)
refusesApp(s) == ~isLoggedOn(s) /\ shouldSendReset(s)

(* The application thread's send that a reset overtook ends, under the     *)
(* number it had filled in, and m_mutex is free.                           *)
finishSend(s) ==
    LET m  == Plain("App", s.sending)
        s1 == IF s.race \in {"saved", "savedHeld"}
              THEN [s EXCEPT !.nextSender = @ + 1] ELSE persist(s, m)
    IN  IF s.sending = 0 THEN s
        ELSE [sendAll(s1, IF isLoggedOn(s) THEN <<m>> ELSE <<>>) EXCEPT
                !.sending = 0, !.race = "none", !.torn = TRUE]

(* SessionState::reset without m_mutex, which may overtake a send.         *)
resetUnlocked(s) ==
    LET s1 == [storeReset(s) EXCEPT !.sending = s.nextSender]
    IN  IF s.race = "none" \/ s.sending # 0 \/ refusesApp(s) THEN storeReset(s)
        ELSE IF s.race \in {"filledHeld", "savedHeld"} THEN s1
        ELSE finishSend(s1)

(* A Logon that does not answer a reset decides on the reset itself.       *)
decideReset(s, m) ==
    IF m.type = "Logon" /\ ~s.receivedReset
    THEN [IF m.flag THEN storeReset(s) ELSE s EXCEPT !.sentReset = m.flag]
    ELSE s

(* Seeded error: sendRaw does not take m_mutex.                            *)
sendAdminUnlocked(s, m) ==
    LET s1 == decideReset(s, m)
    IN  sendNumbered(s1, [m EXCEPT !.seq = s1.nextSender],
            \/ m.type \in {"Logon", "Logout", "ResendRequest", "SequenceReset"}
            \/ isLoggedOn(s))

(* sendRaw for a new administrative message (retransmissions and gap fills *)
(* take old numbers and are not persisted: sendAll).                       *)
sendAdmin(s, m) ==
    LET s1 == decideReset(finishSend(s), m)
    IN  sendNumbered(s1, [m EXCEPT !.seq = s1.nextSender],
            \/ m.type \in {"Logon", "Logout", "ResendRequest", "SequenceReset"}
            \/ isLoggedOn(s))

(* sendRaw for an application message; vetoed: toApp throws DoNotSend.     *)
sendApp(s, vetoed) ==
    IF refusesApp(s) \/ vetoed THEN s
    ELSE sendNumbered(s, Plain("App", s.nextSender), isLoggedOn(s))

(* The NextExpectedMsgSeqNum n of a Logon asks for everything from n on.   *)
asksFrom(s, n) == IF n = 0 THEN s ELSE [s EXCEPT !.asked = @ \cup {n}]

generateLogon(s) ==
    LET s1 == IF ResetOnLogon THEN resetUnlocked(s) ELSE s
        m  == Logon(0, shouldSendReset(s1),
                    IF SendNextExpectedMsgSeqNum THEN s1.nextTarget ELSE 0)
    IN  asksFrom(sendAdmin([s1 EXCEPT !.testRequest = 0, !.sentLogon = TRUE], m), m.lo)

generateLogonReply(s) ==
    LET m == Logon(0, s.receivedReset,
                   IF SendNextExpectedMsgSeqNum THEN s.nextTarget + 1 ELSE 0)
    IN  asksFrom([sendAdmin(s, m) EXCEPT !.sentLogon = TRUE], m.lo)

generateLogout(s) ==
    [sendAdmin(s, Plain("Logout", 0)) EXCEPT !.sentLogout = TRUE]

generateHeartbeat(s) == sendAdmin(s, Plain("Heartbeat", 0))

generateTestRequest(s) ==
    [sendAdmin(s, Plain("TestRequest", 0)) EXCEPT !.testRequest = @ + 1]

(* Seeded error: the range starts at the last message handled.             *)
generateResendRequestEarly(s, n) ==
    [sendAdmin(s, ResendRequest(0, s.nextTarget - 1, 0)) EXCEPT
        !.resendRange = <<s.nextTarget - 1, n - 1>>,
        !.asked = @ \cup {s.nextTarget - 1}]

generateResendRequest(s, n) ==
    [sendAdmin(s, ResendRequest(0, s.nextTarget, 0)) EXCEPT
        !.resendRange = <<s.nextTarget, n - 1>>,
        !.asked = @ \cup {s.nextTarget}]

(* generateReject(message, err, field): the number of the message is used  *)
(* up when it was the expected one.                                        *)
rejectConsumes(s, m) ==
    IF m.type \notin {"Logon", "SequenceReset"} /\ m.seq = s.nextTarget
    THEN incrNextTargetMsgSeqNum(s) ELSE s

(* Seeded error: the number is used up once more.                          *)
generateRejectTwice(s, m) ==
    LET s1 == incrNextTargetMsgSeqNum(rejectConsumes(s, m))
    IN  IF s.receivedLogon THEN sendAdmin(s1, Plain("Reject", 0)) ELSE s1

(* It throws instead of sending while no Logon has been received.          *)
generateReject(s, m) ==
    LET s1 == rejectConsumes(s, m)
    IN  IF s.receivedLogon THEN sendAdmin(s1, Plain("Reject", 0)) ELSE s1

(* BusinessMessageReject is an application message: toApp, then sendRaw.   *)
generateBusinessReject(s) == sendApp(incrNextTargetMsgSeqNum(finishSend(s)), FALSE)

-----------------------------------------------------------------------------
(* Closing.                                                                *)

(* Seeded error: the queue survives the connection.                        *)
disconnectKeepingQueue(s, resetStore) ==
    LET s1 == [finishSend(s) EXCEPT
                        !.responder = FALSE, !.receivedLogon = FALSE,
                        !.sentLogon = FALSE, !.sentLogout = FALSE,
                        !.receivedReset = FALSE, !.sentReset = FALSE,
                        !.resendRange = <<0, 0>>, !.asked = {}]
    IN  IF resetStore THEN storeReset(s1) ELSE s1

(* disconnect(bool resetStore), under m_mutex.                             *)
disconnectWith(s, resetStore) ==
    LET s1 == [finishSend(s) EXCEPT !.responder = FALSE, !.receivedLogon = FALSE,
                        !.sentLogon = FALSE, !.sentLogout = FALSE,
                        !.receivedReset = FALSE, !.sentReset = FALSE,
                        !.queue = NoMessages, !.resendRange = <<0, 0>>,
                        !.asked = {}]
    IN  IF resetStore THEN storeReset(s1) ELSE s1

disconnect(s) == disconnectWith(s, ResetOnDisconnect)

(* Session::reset *)
reset(s) == resetUnlocked(disconnect(generateLogout(s)))
=============================================================================

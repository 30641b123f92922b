-------------------------- MODULE SessionHandlers --------------------------
(***************************************************************************)
(* Session::next for an inbound message and for the clock: verification,   *)
(* the handler of every message type and the exception handlers, as        *)
(* operators from session state to session state.                          *)
(*                                                                         *)
(* A verdict is what the application callback (fromAdmin, fromApp) does    *)
(* with the message: "ok", or the exception it throws: "reject" for        *)
(* IncorrectDataFormat and IncorrectTagValue, "business" for FieldNotFound *)
(* and UnsupportedMessageType on an application message, "logout" for      *)
(* RejectLogon.                                                            *)
(*                                                                         *)
(* nextQueued is not part of these operators: the messages it takes from   *)
(* the queue are handled one by one after the handler (Session.tla).       *)
(***************************************************************************)
EXTENDS SessionCore

Verdicts == {"ok", "reject", "business", "logout"}

verdictsFor(t) ==
    IF t = "App" THEN {"ok", "reject", "business"} ELSE {"ok", "reject", "logout"}

-----------------------------------------------------------------------------
(* verify() and what it does with a message it refuses.                    *)

(* doBadTime and doBadCompID: Reject and Logout; the exception of a Reject *)
(* without a Logon makes verify disconnect.                                *)
refuseAndLogout(s, m) ==
    IF s.receivedLogon THEN generateLogout(generateReject(s, m))
                       ELSE disconnect(generateReject(s, m))

doPossDup(s, m) ==
    IF m.type = "SequenceReset" THEN s
    ELSE IF m.grade = "noOrig"
         THEN IF s.receivedLogon THEN generateReject(s, m)
                                 ELSE disconnect(generateReject(s, m))
         ELSE IF m.grade = "origLate" THEN refuseAndLogout(s, m) ELSE s

doTargetTooLow(s, m) ==
    IF m.dup THEN doPossDup(s, m) ELSE disconnect(generateLogout(s))

(* Seeded error: it is not asked whether there is a request at all.        *)
alreadyRequestedAlways(s, m) ==
    ~SendRedundantResendRequests /\ m.seq >= s.resendRange[1]

(* A ResendRequest already under way is not repeated.                      *)
alreadyRequested(s, m) ==
    /\ resendRequested(s)
    /\ ~SendRedundantResendRequests
    /\ m.seq >= s.resendRange[1]

doTargetTooHigh(s, m) ==
    IF alreadyRequested(s, m) THEN enqueue(s, m)
    ELSE generateResendRequest(enqueue(s, m), m.seq)

(* The checks pass: a satisfied ResendRequest is forgotten.                *)
admit(s, m, checked) ==
    [s EXCEPT !.testRequest = 0,
              !.resendRange = IF checked /\ m.seq >= @[2] THEN <<0, 0>> ELSE @]

(* The result is the state and whether the handler goes on.                *)
verify(s, m, checkTooHigh, checkTooLow) ==
    LET no(t) == [s |-> t, ok |-> FALSE]
    IN  IF ~validLogonState(s, m.type) THEN no(disconnect(s))
        ELSE IF m.grade \in {"badTime", "badComp"} THEN no(refuseAndLogout(s, m))
        ELSE IF checkTooHigh /\ isTargetTooHigh(s, m) THEN no(doTargetTooHigh(s, m))
        ELSE IF checkTooLow /\ isTargetTooLow(s, m) THEN no(doTargetTooLow(s, m))
        ELSE [s |-> admit(s, m, checkTooHigh \/ checkTooLow), ok |-> TRUE]

(* The exception handlers of next() for what a callback throws.            *)
caught(s, m, verdict) ==
    CASE verdict = "reject"   -> generateReject(s, m)
      [] verdict = "business" -> generateBusinessReject(s)
      [] verdict = "logout"   -> disconnectWith(generateLogout(s),
                                     /\ s.receivedLogon \/ s.sentLogon
                                     /\ ResetOnDisconnect)

-----------------------------------------------------------------------------
(* The handlers; s is the state verify() left, which accepted m.           *)

(* nextHeartbeat, nextReject. *)
consume(s) == incrNextTargetMsgSeqNum(s)

(* Seeded error: the number is not used up.                                *)
deliverOnly(s, m) == [s EXCEPT !.got = Append(@, m.seq)]

(* An application message: fromApp, then its number is used up.            *)
deliver(s, m) == consume([s EXCEPT !.got = Append(@, m.seq)])

nextTestRequest(s) == consume(generateHeartbeat(s))

(* Seeded error: the answer to a Logout uses up a second number.           *)
nextLogoutTwice(s) ==
    LET s1 == consume(IF s.sentLogout THEN s ELSE consume(generateLogout(s)))
    IN  disconnect(IF ResetOnLogout THEN resetUnlocked(s1) ELSE s1)

nextLogout(s) ==
    LET s1 == consume(IF s.sentLogout THEN s ELSE generateLogout(s))
    IN  disconnect(IF ResetOnLogout THEN resetUnlocked(s1) ELSE s1)

(* Seeded errors: NewSeqNo is followed backwards, or taken for the last    *)
(* number filled.                                                          *)
nextSequenceResetUnchecked(s, m) == [s EXCEPT !.nextTarget = m.lo]

nextSequenceResetPast(s, m) ==
    IF m.lo > s.nextTarget
    THEN queueWithout([s EXCEPT !.nextTarget = m.lo + 1], 0 .. m.lo)
    ELSE IF m.lo < s.nextTarget THEN generateReject(s, m) ELSE s

nextSequenceReset(s, m) ==
    IF m.lo > s.nextTarget
    THEN LET s1 == [s EXCEPT !.nextTarget = m.lo]
         IN  IF m.flag THEN queueWithout(s1, 0 .. (m.lo - 1)) ELSE s1
    ELSE IF m.lo < s.nextTarget THEN generateReject(s, m) ELSE s

(* What is sent for begin..end, withheld being refused by toApp; without   *)
(* PersistMessages one gap fill.  No store has a message 0, and sendRaw    *)
(* takes a gap fill numbered 0 for a new message.                          *)
answerRange(s, begin, end, withheld) ==
    LET fill == GapFill(begin, fillTo(s.nextSender, end))
    IN  IF begin = 0
        THEN IF PersistMessages /\ end = 0 THEN s ELSE sendAdmin(s, fill)
        ELSE sendAll(s, IF PersistMessages
                        THEN generateRetransmits(s.store, s.nextSender, begin, end, withheld)
                        ELSE <<fill>>)

consumeExpected(s, m) == IF m.seq = s.nextTarget THEN consume(s) ELSE s

nextResendRequest(s, m, withheld) ==
    LET end == IF m.hi = 0 \/ m.hi >= s.nextSender THEN s.nextSender - 1 ELSE m.hi
    IN  consumeExpected(answerRange(s, m.lo, end, withheld), m)

(* nextLogon.  prepareLogon: the resets before verify(); completeLogon:    *)
(* what follows it.                                                        *)
prepareLogon(s, m) ==
    LET s1 == [s EXCEPT !.receivedReset = m.flag]
        s2 == IF m.flag /\ ~s1.sentReset THEN resetUnlocked(s1) ELSE s1
    IN  IF ~s.initiate /\ ResetOnLogon THEN resetUnlocked(s2) ELSE s2

replyLogon(s) ==
    LET s1 == IF ~s.initiate \/ (s.receivedReset /\ ~s.sentReset)
              THEN generateLogonReply(s) ELSE s
    IN  [s1 EXCEPT !.sentReset = FALSE, !.receivedReset = FALSE]

(* With SendNextExpectedMsgSeqNum an early Logon is queued and the missing *)
(* numbers count as requested: the session's own Logon has asked for them. *)
numberLogon(s, m) ==
    IF isTargetTooHigh(s, m) /\ ~m.flag
    THEN IF SendNextExpectedMsgSeqNum
         THEN [enqueue(s, m) EXCEPT !.resendRange = <<s.nextTarget, m.seq - 1>>]
         ELSE doTargetTooHigh(s, m)
    ELSE consume(s)

completeLogon(s0, m) ==
    LET s == [s0 EXCEPT !.receivedLogon = TRUE]
    IN  IF m.lo > s.nextSender THEN disconnect(generateLogout(s))
        ELSE [numberLogon(replyLogon(s), m) EXCEPT
                !.owed = IF m.lo < s.nextSender THEN m.lo ELSE 0]

(* The end of nextLogon, after nextQueued: retransmit what the Logon's     *)
(* NextExpectedMsgSeqNum says is missing, with what was sent meanwhile.    *)
retransmitOwed(s, withheld) ==
    [answerRange(s, s.owed, s.nextSender - 1, withheld) EXCEPT !.owed = 0]

nextLogon(s, m) ==
    LET s1 == prepareLogon(s, m)
        r  == verify(s1, m, FALSE, TRUE)
    IN  IF ~s.enabled THEN disconnect(s)
        ELSE IF shouldSendLogon(s1) /\ ~m.flag THEN disconnect(s1)
        ELSE IF r.ok THEN completeLogon(r.s, m) ELSE r.s

-----------------------------------------------------------------------------
(* Session::next(message). *)

(* authenticateLogon: it returns true, or the callback throws RejectLogon. *)
authenticates(s, m, verdict, logonTime) ==
    /\ s.enabled
    /\ logonTime
    /\ m.flag \/ validLogonState(s, "Logon")
    /\ m.grade \notin {"badTime", "badComp"}
    /\ verdict # "reject"

(* It returns false: a session with no Logon yet only loses its socket.    *)
refusedLogon(s, m, logonTime) ==
    LET answers == /\ s.enabled /\ logonTime
                   /\ m.flag \/ validLogonState(s, "Logon")
                   /\ m.grade \in {"badTime", "badComp"} /\ s.receivedLogon
        s1 == IF answers THEN generateLogout(generateReject(s, m)) ELSE s
    IN  IF s1.receivedLogon \/ s1.sentLogon THEN disconnect(s1)
        ELSE [s1 EXCEPT !.responder = @ /\ logonTime]

(* The handler that m.type selects, after the verdict r of verify().       *)
handle(r, m, verdict, withheld) ==
    IF ~r.ok THEN r.s
    ELSE IF verdict # "ok" THEN caught(r.s, m, verdict)
    ELSE CASE m.type = "App"           -> deliver(r.s, m)
           [] m.type = "Heartbeat"     -> consume(r.s)
           [] m.type = "Reject"        -> consume(r.s)
           [] m.type = "TestRequest"   -> nextTestRequest(r.s)
           [] m.type = "Logout"        -> nextLogout(r.s)
           [] m.type = "SequenceReset" -> nextSequenceReset(r.s, m)
           [] m.type = "ResendRequest" -> nextResendRequest(r.s, m, withheld)

(* A message that passed validation: what each handler has verified.       *)
dispatch(s, m, verdict, withheld) ==
    LET high == \/ m.type \in {"Heartbeat", "TestRequest", "App"}
                \/ m.type = "SequenceReset" /\ m.flag
        low  == high \/ m.type = "Reject"
    IN  IF m.type = "Logon" THEN nextLogon(s, m)
        ELSE handle(verify(s, m, high, low), m, verdict, withheld)

unsupportedVersion(s, m) ==
    IF m.type # "Logout" THEN consume(generateLogout(s))
    ELSE LET r == verify(s, m, FALSE, FALSE) IN IF r.ok THEN nextLogout(r.s) ELSE r.s

noDictionary(s, m) ==
    IF m.type = "App" THEN generateReject(s, m)
    ELSE disconnectWith(generateLogout(s), m.type # "Logon" /\ ResetOnDisconnect)

(* sched is what the schedule says: checkSessionTime (now is in the session *)
(* period the store was created in) and isLogonTime are both true when     *)
(* "open" and both false when "closed"; only the first holds "offhours",   *)
(* only the second in a "newperiod".                                       *)
Schedules == {"open", "offhours", "newperiod", "closed"}

checkSessionTime(sched) == sched \in {"open", "offhours"}
isLogonTime(sched) == sched \in {"open", "newperiod"}

(* authenticated: called from acceptLogon, which has made those checks.    *)
nextMessage(s, m, verdict, withheld, sched, authenticated) ==
    LET isLogon == m.type = "Logon"
        checks  == isLogon /\ ~authenticated
    IN  IF ~isLogon /\ ~s.receivedLogon /\ ~answersPendingLogon(s, m.type)
        THEN IF s.sentLogon THEN disconnect(s) ELSE s
        ELSE IF m.grade = "version" THEN unsupportedVersion(s, m)
        ELSE IF checks /\ m.grade = "invalid" THEN generateReject(s, m)
        ELSE IF checks /\ ~authenticates(s, m, verdict, isLogonTime(sched))
        THEN refusedLogon(s, m, isLogonTime(sched))
        ELSE IF checks /\ verdict = "logout" THEN caught(s, m, verdict)
        ELSE IF isLogon /\ m.grade = "noDict" THEN noDictionary(s, m)
        ELSE IF ~checkSessionTime(sched) THEN reset(s)
        ELSE IF m.grade = "noDict" THEN noDictionary(s, m)
        ELSE IF m.grade = "invalid" THEN generateReject(s, m)
        ELSE dispatch(s, m, verdict, withheld)

(* next() returns early, without nextQueued and without the clock.         *)
returnsEarly(s, m, verdict, sched) ==
    \/ m.type # "Logon" /\ ~s.receivedLogon /\ ~answersPendingLogon(s, m.type)
    \/ /\ m.type = "Logon" /\ m.grade \notin {"version", "invalid"}
       /\ ~authenticates(s, m, verdict, isLogonTime(sched))
    \/ ~checkSessionTime(sched) /\ m.grade # "version"
    \/ m.type = "App" /\ m.grade \notin {"version", "noDict", "invalid"}
       /\ ~verify(s, m, TRUE, TRUE).ok

-----------------------------------------------------------------------------
(* Session::next(now): the clock.  passed is the set of deadlines that are *)
(* over: "logon" (LogonTimeout since the last message), "logout"           *)
(* (LogoutTimeout since the last message sent), "quiet" (HeartBtInt since  *)
(* the last message sent or received), "dead" (2.4 HeartBtInt since the    *)
(* last message), "test" (1.2 HeartBtInt more since the last TestRequest)  *)
(* and "beat" (HeartBtInt since the last message sent).                    *)

Deadlines == {"logon", "logout", "quiet", "dead", "test", "beat"}

(* The deadlines that can be over together: each of the last three implies *)
(* "quiet", and a second TestRequest falls due exactly when the peer is    *)
(* given up (1.2 * 2 = 2.4), so its deadline is never over alone.          *)
canHavePassed(s, passed) ==
    /\ passed \subseteq Deadlines
    /\ passed \cap {"dead", "test", "beat"} # {} => "quiet" \in passed
    /\ "dead" \in passed => "test" \in passed
    /\ "test" \in passed /\ s.testRequest > 0 => "dead" \in passed

heartbeatTimers(s, passed) ==
    IF "quiet" \notin passed THEN s
    ELSE IF "dead" \in passed THEN disconnect(s)
    ELSE IF "test" \in passed THEN generateTestRequest(s)
    ELSE IF "beat" \in passed /\ s.testRequest = 0 THEN generateHeartbeat(s)
    ELSE s

(* A Logout sent by this very call restarts the deadlines counted from the *)
(* last message sent.  Nothing returns after the disconnect of a Logout    *)
(* that timed out: the heartbeat timers still run.                         *)
clock(s, passed, sched) ==
    LET off  == ~s.enabled \/ ~isLogonTime(sched)
        asks == off /\ isLoggedOn(s) /\ ~s.sentLogout
        s1   == IF asks THEN generateLogout(s) ELSE s
        over == IF asks THEN passed \ {"logout", "beat"} ELSE passed
        s2   == IF s1.sentLogout /\ "logout" \in over THEN disconnect(s1) ELSE s1
    IN  IF ~checkSessionTime(sched) THEN reset(s)
        ELSE IF off /\ ~isLoggedOn(s) THEN s
        ELSE IF ~s.receivedLogon
        THEN IF shouldSendLogon(s) THEN generateLogon(s)
             ELSE IF alreadySentLogon(s) /\ "logon" \in passed THEN disconnect(s)
             ELSE s
        ELSE heartbeatTimers(s2, over)
=============================================================================

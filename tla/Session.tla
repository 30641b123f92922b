------------------------------ MODULE Session ------------------------------
(***************************************************************************)
(* One session endpoint with any counterparty.  Two threads use a session: *)
(* the network thread (connection set up and loss, inbound messages, the   *)
(* clock) and an application thread that may send at any moment (sendRaw   *)
(* takes m_mutex, next does not hold it) and may call logon() and logout().*)
(* Send is a send that no reset falls into.  One that a reset of next()    *)
(* overtakes is part of the network thread's step: see Races.              *)
(*                                                                         *)
(* Session::next handles one message, then in nextQueued every queued      *)
(* message whose turn has come, then the clock.  Each of these is an       *)
(* action, because the application thread can run between them; phase says *)
(* where the network thread is:                                            *)
(*   "idle"   outside Session::next;                                       *)
(*   "drain"  in the loop of nextQueued;                                   *)
(*   "clock"  at the end of next() for a message taken from the queue.     *)
(***************************************************************************)
EXTENDS SessionHandlers

CONSTANTS
    Initiate,       \* the session connects (Initiator) or is connected to
    Inbound,        \* the messages the counterparty may send
    Refusals,       \* verdicts of the application other than "ok"
    Withholdings,   \* sets of numbers whose resending the application vetoes
    Sched,          \* the schedule states that occur
    Elapsed,        \* the sets of deadlines that may be over
    Overtaken,      \* where a reset may fall in an application thread's send
    MaxNum          \* bound on the sequence numbers

ASSUME SessionAssumption ==
    /\ Initiate \in BOOLEAN
    /\ Inbound \subseteq Message
    /\ \A m \in Inbound : m.seq # 0
    /\ Refusals \subseteq Verdicts \ {"ok"}
    /\ Withholdings \subseteq SUBSET Nat
    /\ Sched \subseteq Schedules
    /\ Elapsed \subseteq SUBSET Deadlines
    /\ Overtaken \subseteq Races
    /\ MaxNum \in Nat

VARIABLES
    st,         \* the session state
    phase,      \* where the network thread is
    handled,    \* the message the last step handled ({} when none)
    delivered   \* the last number given to fromApp since the numbers were reset

vars == <<st, phase, handled, delivered>>

Init ==
    /\ st = NewSession(Initiate)
    /\ phase = "idle"
    /\ handled = {}
    /\ delivered = 0

-----------------------------------------------------------------------------
(* A call of the network thread starts while an application thread may be  *)
(* inside sendRaw.                                                         *)
Racing(s, race) == [Fresh(s) EXCEPT !.race = race]

(* It makes a difference only to a call that can reset the store.          *)
races(resets) == IF resets THEN Overtaken ELSE {"none"}

(* A send that was overtaken ends before anything needs m_mutex again.     *)
Released(s) == [finishSend(s) EXCEPT !.race = "none"]

(* A step leaves session state s, within the bound MaxNum.                 *)
Leaves(s) ==
    /\ st' = Released(s)
    /\ st'.nextSender <= MaxNum /\ st'.nextTarget <= MaxNum
    /\ delivered' = IF s.got # <<>> THEN s.got[Len(s.got)]
                    ELSE IF s.wiped THEN 0 ELSE delivered

verdicts(m) == {v \in {"ok"} \cup Refusals : v \in verdictsFor(m.type)}
withholdings(m) == IF m.type = "ResendRequest" THEN Withholdings ELSE {{}}
racesWith(m, sched) == races(m.type \in {"Logon", "Logout"} \/ ~checkSessionTime(sched))

(* Initiator::getSession and setResponder: a session outside its period is *)
(* reset before the connection is attached.                                *)
attach(s, sched) ==
    [IF checkSessionTime(sched) THEN s ELSE reset(s) EXCEPT !.responder = TRUE]

Connect ==
    /\ st.initiate /\ ~st.responder /\ phase = "idle"
    /\ \E sched \in Sched \ {"closed"} : Leaves(attach(Fresh(st), sched))
    /\ handled' = {}
    /\ UNCHANGED phase

(* acceptLogon: a first Logon is authenticated before it is let near the   *)
(* session; refuseLogon answers it with a Logout only.                     *)
refuseLogon(s) == disconnectWith(generateLogout([s EXCEPT !.responder = TRUE]), FALSE)

acceptLogon(s, m, verdict, sched) ==
    LET s1 == nextMessage(attach(s, sched), m, verdict, {}, "open", TRUE)
    IN  IF \/ m.grade \in {"version", "invalid"}
           \/ ~authenticates(s, m, verdict, isLogonTime(sched)) THEN s
        ELSE IF verdict = "logout" \/ m.grade = "noDict" THEN refuseLogon(s)
        ELSE IF s1.receivedLogon THEN s1 ELSE [s1 EXCEPT !.responder = FALSE]

AcceptLogon ==
    /\ ~st.initiate /\ ~st.responder /\ phase = "idle"
    /\ \E m \in Inbound, sched \in Sched :
        /\ m.type = "Logon"
        /\ \E v \in verdicts(m) : Leaves(acceptLogon(Fresh(st), m, v, sched))
        /\ handled' = {m}
    /\ phase' = IF st'.receivedLogon THEN "drain" ELSE "idle"

(* next(message): one message from the connection.                         *)
Receive ==
    /\ st.responder /\ phase = "idle"
    /\ \E m \in Inbound, sched \in Sched :
        /\ \E v \in verdicts(m), withheld \in withholdings(m), race \in racesWith(m, sched) :
            /\ Leaves(nextMessage(Racing(st, race), m, v, withheld, sched, FALSE))
            /\ phase' = IF returnsEarly(st, m, v, sched) THEN "idle" ELSE "drain"
        /\ handled' = {m}

(* nextQueued(num): take the expected message from the queue.  A queued    *)
(* Logon or ResendRequest was answered when it arrived; any other goes     *)
(* through next() like a message from the connection, which ends with the  *)
(* clock.  The handlers of most administrative messages call nextQueued    *)
(* themselves, so the clock may then come only after further messages.     *)
drainOne(s, m, verdict, withheld, sched) ==
    LET s1 == queueWithout(s, {m.seq})
    IN  IF m.type \in {"Logon", "ResendRequest"} THEN consume(s1)
        ELSE nextMessage(s1, m, verdict, withheld, sched, FALSE)

nextPhase(s, m, verdict, sched) ==
    IF m.type \in {"Logon", "ResendRequest"} \/ returnsEarly(s, m, verdict, sched)
    THEN {"drain"}
    ELSE IF m.type = "App" THEN {"clock"} ELSE {"clock", "drain"}

Drain ==
    /\ phase = "drain" /\ st.nextTarget \in DOMAIN st.queue
    /\ LET m == st.queue[st.nextTarget] IN
        /\ \E sched \in Sched, v \in verdicts(m) :
            \E withheld \in withholdings(m), race \in racesWith(m, sched) :
            /\ Leaves(drainOne(Racing(st, race), m, v, withheld, sched))
            /\ phase' \in nextPhase(st, m, v, sched)
        /\ handled' = {m}

(* The end of next(): the clock, when the session is logged on.  A message *)
(* has just arrived, so only deadlines counted from the last message sent  *)
(* can be over.  After a queued message nextQueued goes on.                *)
clockAfterMessage ==
    \E sched \in Sched, passed \in Elapsed :
        /\ canHavePassed(st, passed)
        /\ passed \cap {"logon", "dead", "test"} = {}
        /\ \E race \in races(~checkSessionTime(sched)) :
            Leaves(IF isLoggedOn(st) THEN clock(Racing(st, race), passed, sched)
                                     ELSE Fresh(st))

ClockInDrain ==
    /\ phase = "clock"
    /\ clockAfterMessage
    /\ phase' = "drain"
    /\ handled' = {}

(* nextLogon's sendRetransmitsAfterLogon; the application thread may have  *)
(* sent new messages since the Logon was answered.                         *)
SendRetransmits ==
    /\ phase = "drain" /\ st.nextTarget \notin DOMAIN st.queue /\ st.owed # 0
    /\ \E withheld \in Withholdings : Leaves(retransmitOwed(Fresh(st), withheld))
    /\ handled' = {}
    /\ UNCHANGED phase

DrainEnds ==
    /\ phase = "drain" /\ st.nextTarget \notin DOMAIN st.queue /\ st.owed = 0
    /\ clockAfterMessage
    /\ phase' = "idle"
    /\ handled' = {}

(* The connection's onTimeout.                                             *)
Clock ==
    /\ st.responder /\ phase = "idle"
    /\ \E sched \in Sched, passed \in Elapsed :
        /\ canHavePassed(st, passed)
        /\ \E race \in races(~checkSessionTime(sched) \/ shouldSendLogon(st)) :
            Leaves(clock(Racing(st, race), passed, sched))
    /\ handled' = {}
    /\ UNCHANGED phase

(* onDisconnect: disconnectIfConnected. *)
ConnectionLost ==
    /\ st.responder /\ phase = "idle"
    /\ Leaves(disconnect(Fresh(st)))
    /\ handled' = {}
    /\ UNCHANGED phase

-----------------------------------------------------------------------------
(* The application thread. *)

(* sendToTarget; the veto is DoNotSend from toApp.                         *)
Send ==
    /\ \E vetoed \in BOOLEAN : Leaves(sendApp(Fresh(st), vetoed))
    /\ handled' = {}
    /\ UNCHANGED phase

(* logon() and logout() *)
Enable ==
    /\ Leaves([Fresh(st) EXCEPT !.enabled = ~st.enabled])
    /\ handled' = {}
    /\ UNCHANGED phase

Next ==
    \/ Connect \/ AcceptLogon \/ Receive \/ Drain \/ ClockInDrain
    \/ SendRetransmits \/ DrainEnds \/ Clock \/ ConnectionLost \/ Send \/ Enable

Spec == Init /\ [][Next]_vars

-----------------------------------------------------------------------------
(* Properties. *)

(* Every component of the session state keeps its type: the numbers stay   *)
(* positive, queue and store hold messages under their own numbers, and    *)
(* the resend range is <<0, 0>> or starts at a real number.                *)
TypeOK ==
    /\ st.initiate = Initiate
    /\ st.enabled \in BOOLEAN /\ st.responder \in BOOLEAN
    /\ st.receivedLogon \in BOOLEAN /\ st.sentLogon \in BOOLEAN
    /\ st.sentLogout \in BOOLEAN
    /\ st.receivedReset \in BOOLEAN /\ st.sentReset \in BOOLEAN
    /\ st.testRequest \in Nat
    /\ st.nextSender \in Nat \ {0} /\ st.nextTarget \in Nat \ {0}
    /\ \A n \in DOMAIN st.queue : st.queue[n] \in Message /\ st.queue[n].seq = n
    /\ \A n \in DOMAIN st.store : st.store[n] \in Message /\ st.store[n].seq = n
    /\ st.resendRange \in Nat \X Nat
    /\ resendRequested(st) => st.resendRange[1] > 0
    /\ st.race = "none" /\ st.sending = 0 /\ st.torn \in BOOLEAN
    /\ phase \in {"idle", "drain", "clock"}
    /\ delivered \in Nat

(* Nothing of a connection outlives it: once disconnect() has cleared both *)
(* Logon flags, no message waits in the queue and no ResendRequest counts  *)
(* as sent, so the next connection starts by asking again for what is      *)
(* missing; and a session that shows a Logon has a connection.             *)
NothingOutlivesConnection ==
    /\ st.receivedLogon \/ st.sentLogon => st.responder
    /\ ~st.receivedLogon /\ ~st.sentLogon =>
            DOMAIN st.queue = {} /\ ~resendRequested(st)

(* Every number used so far can be resent: whichever thread sent, the      *)
(* store holds exactly the numbers below nextSender.  The one exception is *)
(* a reset outside m_mutex that fell inside an application thread's send:  *)
(* then number 1 is used up and may be missing and the message may lie in  *)
(* the store under its old number, but every later number is there, until  *)
(* the next reset makes the store exact again.                             *)
StoreMatchesSender ==
    IF st.torn
    THEN PersistMessages => 2 .. (st.nextSender - 1) \subseteq DOMAIN st.store
    ELSE DOMAIN st.store = IF PersistMessages THEN 1 .. (st.nextSender - 1) ELSE {}

(* fromApp is called with increasing numbers: no application message is    *)
(* delivered twice or after a later one, whether it came in turn, from the *)
(* queue or as a retransmission, until the sequence numbers are reset.     *)
InOrderDelivery == [][st'.got # <<>> => st'.got[1] > delivered]_vars

(* The bookkeeping behind InOrderDelivery: what was delivered is below the *)
(* number expected next.                                                   *)
DeliveredBelowTarget == delivered < st.nextTarget

(* Sequence numbers go back only in MessageStore::reset, and a message     *)
(* other than a SequenceReset uses up at most one number, also when it is  *)
(* rejected, refused by the application or answered with a Logout.         *)
NumbersAdvance ==
    [][~st'.wiped =>
        /\ st'.nextSender >= st.nextSender
        /\ st'.nextTarget >= st.nextTarget
        /\ st'.nextTarget > st.nextTarget + 1 =>
                \E m \in handled' : m.type = "SequenceReset"]_vars

(* doTargetTooHigh: while messages wait in the queue, the gap before them  *)
(* has been asked for on this connection and under these numbers.          *)
GapRequested ==
    DOMAIN st.queue # {} => \E begin \in st.asked : begin <= st.nextTarget
=============================================================================

---------------------------- MODULE SessionPair ----------------------------
(***************************************************************************)
(* Two endpoints running this engine, "I" the initiator and "A" the        *)
(* acceptor, connected by one TCP connection at a time.  The connection    *)
(* keeps order and loses nothing while it lasts; when it breaks, what is   *)
(* still in flight is lost from some point on.  A process can also crash   *)
(* and restart with what its message store holds.                          *)
(***************************************************************************)
EXTENDS SessionHandlers

CONSTANTS
    MaxApps,        \* application messages each side sends
    MaxBreaks,      \* broken connections and crashes
    MaxLogouts,     \* times an application asks a session to log out
    MaxNum          \* bound on the sequence numbers

ASSUME PairAssumption ==
    MaxApps \in Nat /\ MaxBreaks \in Nat /\ MaxLogouts \in Nat /\ MaxNum \in Nat

Sides == {"I", "A"}
Other(x) == IF x = "I" THEN "A" ELSE "I"

VARIABLES
    st,         \* st[x]: the session state of x
    phase,      \* phase[x]: where x's network thread is
    live,       \* live[x]: x's end of the connection is open
    cut,        \* the connection is broken, what is sent is lost
    net,        \* net[x]: messages on their way to x
    accepted,   \* accepted[x]: numbers of the application messages x sent
    received,   \* received[x]: those the counterparty of x was given
    breaks, logouts

vars == <<st, phase, live, cut, net, accepted, received, breaks, logouts>>

Init ==
    /\ st = [x \in Sides |-> NewSession(x = "I")]
    /\ phase = [x \in Sides |-> "idle"]
    /\ live = [x \in Sides |-> FALSE]
    /\ cut = FALSE
    /\ net = [x \in Sides |-> <<>>]
    /\ accepted = [x \in Sides |-> <<>>]
    /\ received = [x \in Sides |-> <<>>]
    /\ breaks = 0 /\ logouts = 0

-----------------------------------------------------------------------------
(* x makes a call that leaves session state s, with rest still on its way  *)
(* to x.  The end of x is closed when the session lets go of its responder *)
(* (SocketMonitor::drop) or closes says so; what was on its way to it is   *)
(* gone.  Messages to a closed end or over a broken connection vanish.     *)
Leaves(x, s, rest, closes) ==
    LET y == Other(x)
        closed  == closes \/ (st[x].responder /\ ~s.responder)
        arrives == live[x] /\ live[y] /\ ~cut
    IN  /\ s.nextSender <= MaxNum /\ s.nextTarget <= MaxNum
        /\ st' = [st EXCEPT ![x] = Fresh(s)]
        /\ live' = [live EXCEPT ![x] = @ /\ ~closed]
        /\ net' = [net EXCEPT ![x] = IF closed THEN <<>> ELSE rest,
                              ![y] = IF arrives THEN @ \o s.out ELSE @]
        /\ received' = [received EXCEPT ![y] = @ \o s.got]

(* The initiator connects once both ends have closed the last connection.  *)
Connect ==
    /\ \A x \in Sides : ~live[x] /\ ~st[x].responder /\ phase[x] = "idle"
    /\ st' = [st EXCEPT !["I"] = [@ EXCEPT !.responder = TRUE]]
    /\ live' = [x \in Sides |-> TRUE]
    /\ cut' = FALSE
    /\ net' = [x \in Sides |-> <<>>]
    /\ UNCHANGED <<phase, accepted, received, breaks, logouts>>

(* The first message of a connection must be a Logon the acceptor admits.  *)
(* Otherwise the connection is dropped.                                    *)
firstMessage(m) ==
    LET s  == st["A"]
        s1 == nextMessage([s EXCEPT !.responder = TRUE], m, "ok", {}, "open", TRUE)
    IN  IF m.type # "Logon" \/ ~authenticates(s, m, "ok", TRUE) THEN s
        ELSE IF s1.receivedLogon THEN s1 ELSE [s1 EXCEPT !.responder = FALSE]

AcceptLogon(x) ==
    /\ x = "A" /\ live["A"] /\ ~st["A"].responder /\ net["A"] # <<>>
    /\ LET s == firstMessage(Head(net["A"]))
       IN  Leaves("A", s, Tail(net["A"]), ~s.receivedLogon)
    /\ phase' = [phase EXCEPT !["A"] = IF st'["A"].receivedLogon THEN "drain" ELSE "idle"]
    /\ UNCHANGED <<cut, accepted, breaks, logouts>>

Receive(x) ==
    /\ live[x] /\ st[x].responder /\ phase[x] = "idle" /\ net[x] # <<>>
    /\ LET m == Head(net[x]) IN
        /\ Leaves(x, nextMessage(st[x], m, "ok", {}, "open", FALSE), Tail(net[x]), FALSE)
        /\ phase' = [phase EXCEPT
                        ![x] = IF returnsEarly(st[x], m, "ok", "open") THEN "idle" ELSE "drain"]
    /\ UNCHANGED <<cut, accepted, breaks, logouts>>

drainOne(s, m) ==
    LET s1 == queueWithout(s, {m.seq})
    IN  IF m.type \in {"Logon", "ResendRequest"} THEN consume(s1)
        ELSE nextMessage(s1, m, "ok", {}, "open", FALSE)

Drain(x) ==
    /\ phase[x] = "drain" /\ st[x].nextTarget \in DOMAIN st[x].queue
    /\ Leaves(x, drainOne(st[x], st[x].queue[st[x].nextTarget]), net[x], FALSE)
    /\ UNCHANGED <<phase, cut, accepted, breaks, logouts>>

(* nextLogon's sendRetransmitsAfterLogon; the application thread may have  *)
(* sent new messages since the Logon was answered.                         *)
SendRetransmits(x) ==
    /\ phase[x] = "drain" /\ st[x].nextTarget \notin DOMAIN st[x].queue
    /\ st[x].owed # 0
    /\ Leaves(x, retransmitOwed(st[x], {}), net[x], FALSE)
    /\ UNCHANGED <<phase, cut, accepted, breaks, logouts>>

DrainEnds(x) ==
    /\ phase[x] = "drain" /\ st[x].nextTarget \notin DOMAIN st[x].queue
    /\ st[x].owed = 0
    /\ Leaves(x, IF isLoggedOn(st[x]) THEN clock(st[x], {}, "open")
                                      ELSE st[x], net[x], FALSE)
    /\ phase' = [phase EXCEPT ![x] = "idle"]
    /\ UNCHANGED <<cut, accepted, breaks, logouts>>

(* The clock sends the Logon of a new connection and the Logout of a       *)
(* disabled session.                                                       *)
Clock(x) ==
    /\ live[x] /\ st[x].responder /\ phase[x] = "idle"
    /\ Leaves(x, clock(st[x], {}, "open"), net[x], FALSE)
    /\ st'[x].nextSender # st[x].nextSender
    /\ UNCHANGED <<phase, cut, accepted, breaks, logouts>>

(* A Heartbeat after HeartBtInt without traffic.  One that finds the       *)
(* counterparty up to date raises both numbers by one and changes nothing  *)
(* else, and one that cannot arrive only raises the sender's: only those   *)
(* that tell the counterparty of a message it lacks are modelled.          *)
beatDue(x) ==
    /\ isLoggedOn(st[x]) /\ ~cut /\ \A y \in Sides : live[y]
    /\ \A y \in Sides : net[y] = <<>> /\ phase[y] = "idle"
    /\ st[Other(x)].nextTarget < st[x].nextSender

Beat(x) ==
    /\ beatDue(x)
    /\ Leaves(x, clock(st[x], {"quiet", "beat"}, "open"), net[x], FALSE)
    /\ UNCHANGED <<phase, cut, accepted, breaks, logouts>>

(* The end of the stream: the counterparty closed, or the connection broke.*)
EndOfStream(x) ==
    /\ live[x] /\ (cut \/ ~live[Other(x)]) /\ net[x] = <<>> /\ phase[x] = "idle"
    /\ Leaves(x, disconnect(st[x]), <<>>, TRUE)
    /\ UNCHANGED <<phase, cut, accepted, breaks, logouts>>

-----------------------------------------------------------------------------
(* Failures. *)

(* The connection breaks; each direction loses what it has not delivered   *)
(* from some point on.                                                     *)
Break ==
    /\ breaks < MaxBreaks /\ ~cut /\ \A x \in Sides : live[x]
    /\ \E k \in [Sides -> 0..MaxNum] :
        /\ \A x \in Sides : k[x] <= Len(net[x])
        /\ net' = [x \in Sides |-> SubSeq(net[x], 1, k[x])]
    /\ cut' = TRUE
    /\ breaks' = breaks + 1
    /\ UNCHANGED <<st, phase, live, accepted, received, logouts>>

(* The process of x stops between two calls and starts again on its store. *)
Crash(x) ==
    /\ breaks < MaxBreaks
    /\ Leaves(x, [disconnectWith(st[x], FALSE) EXCEPT !.owed = 0], <<>>, TRUE)
    /\ phase' = [phase EXCEPT ![x] = "idle"]
    /\ breaks' = breaks + 1
    /\ UNCHANGED <<cut, accepted, logouts>>

(* x gives up waiting for the answer to its Logon or Logout, which may be  *)
(* on its way.                                                             *)
GivesUp(x) ==
    /\ breaks < MaxBreaks
    /\ live[x] /\ st[x].responder /\ phase[x] = "idle"
    /\ Leaves(x, clock(st[x], {"logon", "logout"}, "open"), net[x], FALSE)
    /\ ~st'[x].responder
    /\ breaks' = breaks + 1
    /\ UNCHANGED <<phase, cut, accepted, logouts>>

-----------------------------------------------------------------------------
(* The applications. *)

Send(x) ==
    /\ Len(accepted[x]) < MaxApps
    /\ Leaves(x, sendApp(st[x], FALSE), net[x], FALSE)
    /\ accepted' = IF st'[x].nextSender > st[x].nextSender
                   THEN [accepted EXCEPT ![x] = Append(@, st[x].nextSender)]
                   ELSE accepted
    /\ UNCHANGED <<phase, cut, breaks, logouts>>

(* logout(), and logon() some time later. *)
Disable(x) ==
    /\ logouts < MaxLogouts /\ st[x].enabled
    /\ st' = [st EXCEPT ![x].enabled = FALSE]
    /\ logouts' = logouts + 1
    /\ UNCHANGED <<phase, live, cut, net, accepted, received, breaks>>

Enable(x) ==
    /\ ~st[x].enabled /\ ~st[x].responder
    /\ st' = [st EXCEPT ![x].enabled = TRUE]
    /\ UNCHANGED <<phase, live, cut, net, accepted, received, breaks, logouts>>

Network(x) ==
    \/ AcceptLogon(x) \/ Receive(x) \/ Drain(x) \/ SendRetransmits(x)
    \/ DrainEnds(x) \/ EndOfStream(x) \/ Clock(x) \/ Beat(x)

Environment(x) == Crash(x) \/ GivesUp(x) \/ Send(x) \/ Disable(x) \/ Enable(x)

Next ==
    \/ Connect
    \/ Break
    \/ \E x \in Sides : Network(x) \/ Environment(x)

Spec == Init /\ [][Next]_vars

-----------------------------------------------------------------------------
(* Properties. *)

(* The two sessions keep the promise of OrderedDelivery: each application  *)
(* message is delivered once and in order, across broken connections,      *)
(* crashes, retransmissions that overlap new messages, and both sides      *)
(* asking for a resend at once.                                            *)
Promise == INSTANCE OrderedDelivery WITH Numbers <- 1..MaxNum
KeepsPromise == Promise!ASpec

(* What is delivered is delivered once, in order, and was sent: also when  *)
(* a Logout ends the session while messages are missing.                   *)
NoneTwice ==
    \A x \in Sides :
        /\ \A i \in 1..Len(received[x]) :
              \E k \in 1..Len(accepted[x]) : received[x][i] = accepted[x][k]
        /\ \A i \in 1..(Len(received[x]) - 1) : received[x][i] < received[x][i + 1]

(* Neither side gives the other a number it has not used: what the         *)
(* acceptor expects next is never beyond what the initiator sends next,    *)
(* and conversely.  Otherwise a Logon would be answered "MsgSeqNum too     *)
(* low" and the sessions could not connect again without an operator.      *)
NeverAhead == \A x \in Sides : st[Other(x)].nextTarget <= st[x].nextSender
=============================================================================

----------------------------- MODULE FrameState -----------------------------
(***************************************************************************)
(* The native state of the frame adapter (InfiniteFrameAdapter.cpp): the   *)
(* 312 bytes the host keeps and hands back after a restart, restricted to  *)
(* the fields the outbound side depends on, and validNativeState, which    *)
(* decides whether such a snapshot may become a session.  Sequence numbers *)
(* are 1 .. Bound - 1; a sender at Bound is the EXHAUSTED counter.         *)
(***************************************************************************)
EXTENDS Naturals

CONSTANTS Bound,    \* FIX_SEQUENCE_BOUND
          MaxPage   \* MAX_STORE_ITEMS, the rows of one store page

ASSUME FrameStateAssumption == /\ Bound \in Nat /\ Bound > 3
                               /\ MaxPage \in Nat \ {0}

NoRecovery == [kind |-> "none", phase |-> "none",
               begin |-> 0, end |-> 0, cursor |-> 0, peer |-> 0]

NoContinuation == [kind |-> "none", cursor |-> 0]

(* The continuation of a retransmission that goes on at number n.          *)
Resend(n) == [kind |-> "resend", cursor |-> n]

(* The continuation of an application block whose unit n comes next.       *)
Block(n) == [kind |-> "block", cursor |-> n]

(* kind and phase of a recovery, its range [begin, end) with the cursor,   *)
(* and for a Logon with NextExpectedMsgSeqNum the number the peer gave.    *)
Recovery(k, p, b, e, c, peer) ==
    [kind |-> k, phase |-> p, begin |-> b, end |-> e, cursor |-> c, peer |-> peer]

Numbers == 0 .. Bound

Recoveries ==
    [kind : {"none", "direct", "logon789"},
     phase : {"none", "prefix", "response", "stored", "final"},
     begin : Numbers, end : Numbers, cursor : Numbers, peer : Numbers]

Continuations == [kind : {"none", "resend", "block"}, cursor : Nat]

NativeState ==
    [sender : 1 .. Bound, attached : BOOLEAN, closing : BOOLEAN, count : Nat,
     rec : Recoveries, cont : Continuations]

freshState == [sender |-> 1, attached |-> FALSE, closing |-> FALSE, count |-> 0,
               rec |-> NoRecovery, cont |-> NoContinuation]

-----------------------------------------------------------------------------
validRangeTriple(r) == /\ r.begin > 0 /\ r.begin <= r.cursor
                       /\ r.cursor < r.end /\ r.end <= Bound

DetachedState(s) == ~s.attached /\ s.cont = NoContinuation

AttachedResend(s) == s.attached /\ s.cont = Resend(s.rec.cursor)

AttachedNoContinuation(s) == s.attached /\ s.cont = NoContinuation

ValidDirect(s) ==
    /\ s.rec.kind = "direct" /\ s.rec.phase = "stored" /\ s.rec.peer = 0
    /\ \/ DetachedState(s)
       \/ AttachedResend(s)
       \/ AttachedNoContinuation(s) /\ s.sender > 1

(* The peer has numbers the host has not confirmed: a Logon is held back.  *)
ValidPrefix(s) ==
    /\ s.rec.phase = "prefix"
    /\ ~s.attached /\ s.cont \in {NoContinuation, Resend(s.rec.cursor)}
    /\ s.rec.end = s.rec.peer /\ s.rec.peer <= s.sender
    /\ s.rec.peer = s.sender \/ s.sender <= Bound - 2

(* The range is the number of one Logon response.                          *)
OneNumber(s) == /\ s.rec.begin + 1 = s.rec.end /\ s.rec.cursor = s.rec.begin
                /\ s.rec.peer < s.rec.begin /\ s.rec.begin <= Bound - 2
                /\ s.sender = s.rec.end

ValidResponse(s) == /\ s.rec.phase = "response" /\ OneNumber(s)
                    /\ DetachedState(s) \/ AttachedNoContinuation(s)

ValidStored(s) == /\ s.rec.phase = "stored"
                  /\ DetachedState(s) \/ AttachedResend(s)
                  /\ s.rec.begin = s.rec.peer
                  /\ s.rec.end <= Bound - 2 /\ s.rec.end + 1 = s.sender

ValidFinal(s) == /\ s.rec.phase = "final" /\ OneNumber(s)
                 /\ DetachedState(s) \/ AttachedResend(s)

ValidLogon789(s) ==
    /\ s.rec.kind = "logon789" /\ s.rec.peer > 0 /\ s.sender < Bound
    /\ ValidPrefix(s) \/ ValidResponse(s) \/ ValidStored(s) \/ ValidFinal(s)

validNativeState(s) ==
    /\ s.count # 0 => s.attached /\ ~s.closing
    /\ \/ /\ s.rec = NoRecovery
          /\ s.cont = NoContinuation \/ (s.cont.kind = "block" /\ s.cont.cursor > 0)
       \/ /\ validRangeTriple(s.rec) /\ s.count = 0 /\ ~s.closing
          /\ ValidDirect(s) \/ ValidLogon789(s)
=============================================================================

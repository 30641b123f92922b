----------------------------- MODULE Retransmit -----------------------------
(***************************************************************************)
(* Session::generateRetransmits: the answer to a request for the messages  *)
(* beginSeqNo..endSeqNo, computed from the message store.  Application     *)
(* messages are sent again; runs of administrative messages, of messages   *)
(* the application withholds (DoNotSend from toApp) and of numbers that    *)
(* are not in the store are replaced by one SequenceReset-GapFill each.    *)
(*                                                                         *)
(* A store is a function from the sequence numbers it holds to messages.   *)
(***************************************************************************)
EXTENDS FixMessages, Sequences

(* MemoryStore::get starts at the entry `begin' and returns nothing when   *)
(* that entry is missing.                                                  *)
StoreGet(store, begin, end) ==
    IF begin \in DOMAIN store THEN {n \in DOMAIN store : begin <= n /\ n <= end}
                              ELSE {}

(* The loop's locals: begin is the first number of a pending gap fill (0:  *)
(* none), current the number expected next, last the last number read.     *)
LoopStart(beginSeqNo) ==
    [out |-> <<>>, begin |-> 0, current |-> beginSeqNo, last |-> 0,
     appMessageJustSent |-> FALSE]

(* Seeded error: the gap fill before a message covers the message too.     *)
LoopBodyPast(acc, m, withheld) ==
    LET begin == IF acc.current # m.seq /\ acc.begin = 0 THEN acc.current
                                                         ELSE acc.begin
        sends == ~isAdminMsgType(m.type) /\ m.seq \notin withheld
        fill  == IF begin # 0 THEN <<GapFill(begin, m.seq + 1)>> ELSE <<>>
    IN  [out     |-> IF sends THEN acc.out \o fill \o <<Resent(m)>> ELSE acc.out,
         begin   |-> IF sends THEN 0 ELSE IF begin = 0 THEN m.seq ELSE begin,
         current |-> m.seq + 1,
         last    |-> m.seq,
         appMessageJustSent |-> sends]

LoopBody(acc, m, withheld) ==
    LET begin == IF acc.current # m.seq /\ acc.begin = 0 THEN acc.current
                                                         ELSE acc.begin
        sends == ~isAdminMsgType(m.type) /\ m.seq \notin withheld
        fill  == IF begin # 0 THEN <<GapFill(begin, m.seq)>> ELSE <<>>
    IN  [out     |-> IF sends THEN acc.out \o fill \o <<Resent(m)>> ELSE acc.out,
         begin   |-> IF sends THEN 0 ELSE IF begin = 0 THEN m.seq ELSE begin,
         current |-> m.seq + 1,
         last    |-> m.seq,
         appMessageJustSent |-> sends]

Loop(store, beginSeqNo, endSeqNo, withheld) ==
    LET found == StoreGet(store, beginSeqNo, endSeqNo)
        upTo[n \in 0..endSeqNo] ==
            LET before == IF n = 0 THEN LoopStart(beginSeqNo) ELSE upTo[n - 1]
            IN  IF n \in found THEN LoopBody(before, store[n], withheld)
                               ELSE before
    IN  upTo[endSeqNo]

(* A gap fill up to endSeqNo never promises a number beyond the one sent   *)
(* next (next is getNextSenderMsgSeqNum()).                                *)
fillTo(next, endSeqNo) == IF endSeqNo + 1 > next THEN next ELSE endSeqNo + 1

(* After the loop: a pending gap fill, and one for the numbers the store   *)
(* did not return.                                                         *)
LoopEnd(acc, next, beginSeqNo, endSeqNo) ==
    LET inner == IF acc.begin # 0 THEN <<GapFill(acc.begin, acc.last + 1)>>
                                  ELSE <<>>
        from  == IF acc.appMessageJustSent THEN acc.last + 1 ELSE beginSeqNo
        tail  == IF endSeqNo > acc.last
                 THEN <<GapFill(from, fillTo(next, endSeqNo))>> ELSE <<>>
    IN  acc.out \o inner \o tail

(* The answer is a sequence of messages.                                   *)
generateRetransmits(store, next, beginSeqNo, endSeqNo, withheld) ==
    LoopEnd(Loop(store, beginSeqNo, endSeqNo, withheld), next, beginSeqNo, endSeqNo)
=============================================================================

---------------------------- MODULE DurableStore ----------------------------
(***************************************************************************)
(* What a message store promises a session across restarts.  The numbers   *)
(* only grow, and what is recorded below the next sender number stays as   *)
(* it is: a message and the number that accounts for it appear in one      *)
(* step, or not at all.  A reset takes the whole record away and brings an *)
(* empty one with a new creation time, never a mixture of the two.         *)
(***************************************************************************)
EXTENDS Naturals

CONSTANTS Texts, Numbers, Times, NoText

VARIABLES
    complete,   \* there is a record
    recorded,   \* recorded[n]: the text under a number n below sender
    sender,     \* next sender number
    target,     \* next target number
    created     \* creation time

dvars == <<complete, recorded, sender, target, created>>

Empty == [n \in Numbers |-> NoText]

DInit ==
    complete = FALSE /\ recorded = Empty /\ sender = 1 /\ target = 1 /\ created = 0

Advance ==
    /\ complete /\ complete'
    /\ sender' \in Numbers /\ sender' >= sender
    /\ target' \in Numbers /\ target' >= target
    /\ \A n \in Numbers :
        recorded'[n] \in IF n < sender THEN {recorded[n]}
                         ELSE IF n < sender' THEN Texts \cup {NoText}
                         ELSE {NoText}
    /\ UNCHANGED created

(* A reset begins ...                                                      *)
Lose ==
    /\ complete /\ ~complete'
    /\ recorded' = Empty /\ sender' = 1 /\ target' = 1 /\ created' = 0

(* ... and, like the first start, comes to its end.                        *)
Renew ==
    /\ ~complete /\ complete'
    /\ recorded' = Empty /\ sender' = 1 /\ target' = 1 /\ created' \in Times

DNext == Advance \/ Lose \/ Renew

DSpec == DInit /\ [][DNext]_dvars
=============================================================================

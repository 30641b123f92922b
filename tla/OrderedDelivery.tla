-------------------------- MODULE OrderedDelivery --------------------------
(***************************************************************************)
(* What a FIX session promises its two applications: in each direction the *)
(* application messages handed to Session::send reach the counterparty's   *)
(* fromApp once each and in the order they were sent, over any number of   *)
(* connections, as long as nobody resets the sequence numbers.             *)
(***************************************************************************)
EXTENDS Naturals, Sequences

CONSTANTS
    Sides,
    Numbers     \* what messages are numbered with

VARIABLES
    accepted,   \* accepted[x]: numbers given to the messages x sent, in order
    received    \* received[x]: those delivered to the counterparty of x

avars == <<accepted, received>>

AInit ==
    /\ accepted = [x \in Sides |-> <<>>]
    /\ received = [x \in Sides |-> <<>>]

(* A new message takes a number larger than all before it.                 *)
Accept(x) ==
    /\ \E n \in Numbers :
        /\ accepted' = [accepted EXCEPT ![x] = Append(@, n)]
        /\ \A i \in 1..Len(accepted[x]) : accepted[x][i] < n
    /\ UNCHANGED received

Deliver(x) ==
    /\ Len(received[x]) < Len(accepted[x])
    /\ received' = [received EXCEPT
                        ![x] = Append(@, accepted[x][Len(@) + 1])]
    /\ UNCHANGED accepted

ANext == \E x \in Sides : Accept(x) \/ Deliver(x)

ASpec == AInit /\ [][ANext]_avars
=============================================================================

---------------------------- MODULE StoreClient ----------------------------
(***************************************************************************)
(* A session on a FileStore, with the process stopping anywhere.  Of       *)
(* Session.cpp this keeps the order in which it calls the store, the       *)
(* counterparty and the application:                                       *)
(*   sendRaw    set(number, text), incrNextSenderMsgSeqNum, transmission;  *)
(*   next       fromApp, incrNextTargetMsgSeqNum; fromApp may itself send; *)
(*   nextSequenceReset   setNextTargetMsgSeqNum;                           *)
(*   reset and refresh.                                                    *)
(* Both ends number anew with a reset, so the histories wire and covered   *)
(* are those since the last one.                                           *)
(***************************************************************************)
EXTENDS FileStore

CONSTANTS
    MaxIn,        \* bound: largest inbound number
    MaxRows,      \* bound: rows of the header file
    MaxStops      \* bound: how often the process stops

ASSUME StoreClientAssumption ==
    MaxIn \in 1..MaxNum /\ MaxRows \in Nat /\ MaxStops \in Nat

VARIABLES
    wire,         \* wire[n]: the texts transmitted under number n
    covered,      \* inbound numbers delivered or filled
    inHand,       \* the number fromApp is being called with, 0 if none
    lag,          \* a number pair was not written: memory may be ahead
    stops,        \* how often the process has stopped
    cut           \* a start or a reset was cut short

history == <<wire, covered, inHand, lag, stops, cut>>
vars == <<storeVars, history>>

Numbers == 1..MaxNum

Init ==
    /\ StoreInit
    /\ wire = [n \in Numbers |-> {}] /\ covered = {} /\ inHand = 0
    /\ lag = FALSE /\ stops = 0 /\ cut = FALSE

(* persist() writes the text under the number it carries...                *)
Send(m) ==
    /\ cache.sender < MaxNum /\ Len(header) + Len(headerBuf) < MaxRows
    /\ SetSeek(cache.sender, m)
    /\ UNCHANGED history

SetGoesOn == (FlushBody \/ FlushHeader) /\ UNCHANGED history

(* ... and counts it; only then is it transmitted.                         *)
Count ==
    /\ Working("stored")
    /\ incrNextSenderMsgSeqNum([op EXCEPT !.name = "counted"], Idle)
    /\ lag' = (lag \/ faults' # faults)
    /\ UNCHANGED <<wire, covered, inHand, stops, cut>>

(* A session that is not logged on leaves the message for a resend.        *)
Transmit ==
    /\ Working("counted")
    /\ op' = Idle
    /\ wire' \in {wire, [wire EXCEPT ![cache.sender - 1] = @ \cup {op.text[1]}]}
    /\ UNCHANGED <<files, memory, faults, covered, inHand, lag, stops, cut>>

(* resend(): get() reads the text back and it is transmitted again.        *)
Resend(n) ==
    /\ Working("idle") /\ inHand = 0 /\ ~bodyErr
    /\ n < cache.sender /\ n \in DOMAIN offsets
    /\ \E m \in Texts :
        /\ Reads(body, offsets[n], m)
        /\ wire' = [wire EXCEPT ![n] = @ \cup {m}]
    /\ UNCHANGED <<storeVars, covered, inHand, lag, stops, cut>>

(* Seeded error: the number is used up before the application has it.      *)
CountFirst ==
    /\ Working("idle") /\ inHand = 0 /\ cache.target < MaxIn
    /\ incrNextTargetMsgSeqNum(Idle, Idle)
    /\ inHand' = cache.target
    /\ UNCHANGED <<wire, covered, lag, stops, cut>>

(* next(): verify() hands the message to fromApp, then it is counted.      *)
Deliver ==
    /\ Working("idle") /\ inHand = 0 /\ cache.target < MaxIn
    /\ inHand' = cache.target
    /\ covered' = covered \cup {cache.target}
    /\ UNCHANGED <<storeVars, wire, lag, stops, cut>>

CountDelivered ==
    /\ Working("idle") /\ inHand # 0
    /\ incrNextTargetMsgSeqNum(Idle, Idle)
    /\ inHand' = 0
    /\ lag' = (lag \/ faults' # faults)
    /\ UNCHANGED <<wire, covered, stops, cut>>

Fill(n) ==
    /\ Working("idle") /\ inHand = 0 /\ n > cache.target /\ n <= MaxIn
    /\ setNextTargetMsgSeqNum(n)
    /\ covered' = covered \cup (cache.target..(n - 1))
    /\ lag' = (lag \/ faults' # faults)
    /\ UNCHANGED <<wire, inHand, stops, cut>>

ResetStore(time) ==
    /\ inHand = 0
    /\ Reset(time)
    /\ wire' = [n \in Numbers |-> {}] /\ covered' = {}
    /\ lag' = FALSE
    /\ UNCHANGED <<inHand, stops, cut>>

RefreshStore == inHand = 0 /\ Refresh /\ UNCHANGED history
ReadStore == Get /\ UNCHANGED history
OpenGoesOn == OpenStep /\ UNCHANGED history

OpenGivesUp ==
    /\ OpenFails
    /\ cut' = TRUE /\ inHand' = 0
    /\ UNCHANGED <<wire, covered, lag, stops>>

StartStore(time) == Start(time) /\ UNCHANGED history

Stop ==
    /\ stops < MaxStops /\ stops' = stops + 1
    /\ Crash \/ (inHand = 0 /\ Close)
    /\ cut' = (cut \/ op.name = "open")
    /\ inHand' = 0
    /\ UNCHANGED <<wire, covered, lag>>

Next ==
    \/ \E m \in Texts : Send(m)
    \/ SetGoesOn \/ Count \/ Transmit
    \/ \E n \in Numbers : Resend(n) \/ Fill(n)
    \/ Deliver \/ CountDelivered
    \/ cache.created < MaxTime /\ ResetStore(cache.created + 1)
    \/ StartStore(1)
    \/ RefreshStore \/ ReadStore \/ OpenGoesOn \/ OpenGivesUp \/ Stop

Spec == Init /\ [][Next]_vars
-----------------------------------------------------------------------------
(* Type invariant.                                                         *)
TypeOK ==
    /\ exists \subseteq Files
    /\ body \in Seq(Texts \X Nat)
    /\ header \in Seq([seq : Numbers, at : Nat, size : Nat])
    /\ seqnums \in {<<>>} \cup (Numbers \X Numbers)
    /\ session \in {<<>>} \cup {<<t>> : t \in 0..MaxTime}
    /\ status \in {"down", "up", "refused"}
    /\ cache \in [sender : Numbers, target : Numbers, created : 0..MaxTime]
    /\ DOMAIN offsets \subseteq Numbers
    /\ op.name \in {"idle", "set", "stored", "counted", "open"}
    /\ wire \in [Numbers -> SUBSET Texts]
    /\ covered \subseteq Numbers
    /\ inHand \in 0..MaxNum

(* A number transmitted is below the number the next start would send      *)
(* with, and the next start would read back the text that was transmitted  *)
(* under it: nothing on the wire is beyond a resend, whatever moment the   *)
(* process stops in and whichever writes of texts and rows fail.  Excepted *)
(* is a failed write of the number pair (lag): incrNextSenderMsgSeqNum     *)
(* throws with the cache already ahead of the file, and a resend of that   *)
(* number puts on the wire what a restart does not know.                   *)
SentRecoverable ==
    (CanLoad /\ ~lag) =>
        \A n \in Numbers : \A m \in wire[n] :
            /\ n < seqnums[1]
            /\ RowsOf(header, n) # {}
            /\ Reads(body, LastRow(header, n), m)

(* The counterparty never sees two texts under one number, again unless a  *)
(* number pair could not be written.                                       *)
OneTextPerNumber ==
    ~lag => \A n \in Numbers : Cardinality(wire[n]) <= 1

(* The number the next start expects has nothing below it that was neither *)
(* delivered to the application nor filled: a stop between fromApp and     *)
(* incrNextTargetMsgSeqNum loses no message.                               *)
NothingSkipped == CanLoad => 1..(seqnums[2] - 1) \subseteq covered

(* Without failed writes fromApp gets no number a second time but the one  *)
(* that was in hand when the process stopped.                              *)
OnlyLastRedelivered ==
    [][(faults = 0 /\ inHand' # inHand /\ inHand' # 0)
          => \A n \in covered : n <= inHand']_vars

(* Every start finds a store it accepts, unless a write failed or an       *)
(* earlier start or reset was cut short.                                   *)
AlwaysOpens == (faults = 0 /\ ~cut /\ op.name # "open") => CanOpen

(* What the files hold across starts is what DurableStore promises: a      *)
(* message counts once its number is written, and a reset is visible as a  *)
(* whole or not at all.                                                    *)
Complete == exists = Files /\ seqnums # <<>> /\ session # <<>>
NoText == "none"
TextUnder(n) ==
    LET found == {m \in Texts : /\ n < seqnums[1]
                                /\ RowsOf(header, n) # {}
                                /\ Reads(body, LastRow(header, n), m)}
    IN IF found = {} THEN NoText ELSE CHOOSE m \in found : TRUE

Durable == INSTANCE DurableStore WITH
    Times <- 1..MaxTime,
    complete <- Complete,
    recorded <- [n \in Numbers |-> IF Complete THEN TextUnder(n) ELSE NoText],
    sender <- IF Complete THEN seqnums[1] ELSE 1,
    target <- IF Complete THEN seqnums[2] ELSE 1,
    created <- IF Complete THEN session[1] ELSE 0

KeepsRecords == Durable!DSpec
=============================================================================

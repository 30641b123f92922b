---------------------------- MODULE FrameAdapter ----------------------------
(***************************************************************************)
(* The outbound side of one frame adapter session                          *)
(* (InfiniteFrameAdapter.cpp) with its host and its peer.  The adapter     *)
(* never sends or stores: prepare answers a request with a plan (the next  *)
(* native state and the frames to send), the host commits the plan to its  *)
(* own durable store and applies it, or aborts it.  The host hands frames  *)
(* with new numbers to the connection in order, after the commit, and      *)
(* tells the adapter how far it is: the next original.                     *)
(*                                                                         *)
(* Modelled: everything that moves the sender's number, the recovery that  *)
(* a Logon with NextExpectedMsgSeqNum or a ResendRequest starts and its    *)
(* pages, application blocks, administrative output, the closing of the    *)
(* transport, and the loss and re-creation of the handle.  The target's    *)
(* numbers, the reset of an epoch and the weekly schedule are not.         *)
(***************************************************************************)
EXTENDS FrameState, Sequences

CONSTANTS MaxUnits,   \* units of an application block
          MaxProbes,  \* unanswered TestRequests
          MaxLost,    \* connections that are lost
          MaxStops    \* plans aborted and handles lost

ASSUME FrameAdapterAssumption ==
    {MaxUnits, MaxProbes, MaxLost, MaxStops} \subseteq Nat

VARIABLES
    durable,   \* host: the committed native state
    rows,      \* host: what was issued under each number, in order
    original,  \* host: the next number to hand to the connection
    cache,     \* session->state
    plan,      \* session->pending, and whether the host has committed it
    handle,    \* "live", "gone", or why the session is terminal
    link,      \* the connection: "up", "lost" (not yet reported) or "down"
    want,      \* peer: the next number it expects
    reach,     \* where want ends up if the connection loses nothing
    told,      \* the peer said on this connection what it misses
    begun,     \* the Logon response that began a recovery on this connection
    lost, stops

host == <<durable, rows, original>>
peer == <<link, want, reach, told, begun>>
vars == <<durable, rows, original, cache, plan, handle, link, want, reach,
          told, begun, lost, stops>>

Kinds == {"app", "logon", "admin"}

NoPlan == [status |-> "none"]

(* PendingPlan with no output: only the state changes.                     *)
StatePlan(s) ==
    [status |-> "ready", state |-> s, fresh |-> <<>>, from |-> 0, to |-> 0,
     filled |-> {}, drop |-> FALSE, closes |-> FALSE, handed |-> 0,
     told |-> FALSE, begins |-> 0]

Plans == [status : {"ready", "store", "committed"}, state : NativeState,
          fresh : Seq(Kinds), from : Numbers, to : Numbers,
          filled : SUBSET Numbers, drop : BOOLEAN, closes : BOOLEAN,
          handed : Numbers, told : BOOLEAN, begins : Numbers]

Init == /\ durable = freshState /\ cache = freshState
        /\ rows = <<>> /\ original = 1
        /\ plan = NoPlan /\ handle = "live"
        /\ link = "up" /\ want = 1 /\ reach = 1
        /\ told = FALSE /\ begun = 0 /\ lost = 0 /\ stops = 0

-----------------------------------------------------------------------------
(* prepare and the requests.                                               *)

CanPrepare == handle = "live" /\ plan = NoPlan

(* describePlan: a plan that asks for stored rows is not looked at yet; a  *)
(* plan whose state could not be restored is never offered.                *)
Describe(p) ==
    IF p.status = "store" \/ validNativeState(p.state)
    THEN plan' = p /\ handle' = handle
    ELSE plan' = NoPlan /\ handle' = "internal"

Prepare(p) == /\ CanPrepare /\ Describe(p)
              /\ UNCHANGED <<host, peer, cache, lost, stops>>

Issue(p, kinds) ==
    [p EXCEPT !.state.sender = @ + Len(kinds), !.fresh = kinds]

(* A request that the host makes while the connection is up.               *)
Request(p) == link = "up" /\ Prepare(p)

attachedForAdmin == cache.attached /\ cache.sender < Bound /\ cache.rec = NoRecovery

AdminOutput == attachedForAdmin /\ Request(Issue(StatePlan(cache), <<"admin">>))

TestRequest ==
    /\ attachedForAdmin /\ cache.count < MaxProbes
    /\ Request(Issue(StatePlan([cache EXCEPT !.count = @ + 1]), <<"admin">>))

Dropping(s) == [StatePlan(s) EXCEPT !.drop = TRUE]

Closing(s) == [s EXCEPT !.closing = TRUE, !.count = 0]

Logout == attachedForAdmin /\ Request(Issue(Dropping(Closing(cache)), <<"admin">>))

TimerDisconnect == /\ attachedForAdmin /\ cache.count > 0
                   /\ Request(Dropping(Closing(cache)))

(* An administrative message of the peer, with or without an answer.       *)
PeerSpeaks ==
    /\ attachedForAdmin
    /\ \E answer \in {<<>>, <<"admin">>} :
          Request(Issue(StatePlan([cache EXCEPT !.count = 0]), answer))

(* The first n of the units left of a block of total units fit in one      *)
(* output; the rest becomes a continuation.                                *)
ApplicationPlan(first, total, n) ==
    Issue(StatePlan([cache EXCEPT !.cont = IF first + n < total THEN Block(first + n)
                                           ELSE NoContinuation]),
          [i \in 1 .. n |-> "app"])

(* Seeded error: a block is not held against the numbers that are left.    *)
ApplicationUnlimited ==
    /\ attachedForAdmin /\ cache.cont.kind \in {"none", "block"}
    /\ LET first == cache.cont.cursor
       IN \E total \in first + 1 .. MaxUnits, n \in 1 .. MaxUnits :
             /\ n <= total - first
             /\ Request(ApplicationPlan(first, total, n))

Application ==
    /\ attachedForAdmin /\ cache.cont.kind \in {"none", "block"}
    /\ LET first == cache.cont.cursor
       IN \E total \in first + 1 .. MaxUnits, n \in 1 .. MaxUnits :
             /\ n <= total - first /\ total - first <= Bound - cache.sender
             /\ Request(ApplicationPlan(first, total, n))

(* A frame that was stored is sent again as it is: any one, or while a     *)
(* recovery waits for its Logon response that response and nothing else.   *)
StoredRetransmit ==
    \E n \in 1 .. Len(rows) :
       /\ \/ attachedForAdmin
          \/ /\ cache.attached /\ cache.rec.phase = "response"
             /\ n = cache.rec.begin /\ rows[n] = "logon"
          \/ /\ cache.attached /\ cache.rec.kind = "direct"
             /\ cache.cont = NoContinuation
             /\ n = cache.sender - 1 /\ rows[n] = "logon"
       /\ Request([StatePlan(cache) EXCEPT !.from = n, !.to = n + 1])

(* Seeded error: the retransmission that was under way stays the           *)
(* continuation of a session that is no longer attached.                   *)
KeepContinuation(s) == [s EXCEPT !.attached = FALSE, !.closing = FALSE, !.count = 0]

Detach(s) ==
    [s EXCEPT !.attached = FALSE, !.closing = FALSE, !.count = 0,
              !.cont = IF s.rec # NoRecovery /\ @.kind = "resend"
                       THEN NoContinuation ELSE @]

TransportClosed ==
    link = "lost" /\ Prepare([StatePlan(Detach(cache)) EXCEPT !.closes = TRUE])

-----------------------------------------------------------------------------
(* A Logon of the peer; p is its NextExpectedMsgSeqNum, 0 if it has none.  *)

InboundDetached ==
    /\ ~cache.attached /\ ~cache.closing
    /\ cache.rec # NoRecovery => cache.cont = NoContinuation

Lower(p) == p # 0 /\ p < cache.sender

Irreconcilable(p) ==
    \/ original > cache.sender
    \/ p = 0 /\ original # cache.sender
    \/ p > cache.sender
    \/ Lower(p) /\ cache.sender > Bound - 2

ReconcileLogon(p) ==
    /\ cache.rec = NoRecovery /\ cache.sender < Bound /\ Irreconcilable(p)
    /\ Prepare(Issue([Dropping([cache EXCEPT !.closing = TRUE]) EXCEPT !.told = p # 0],
                     <<"admin">>))

(* The peer has numbers that the host does not know it handed over.        *)
HoldLogon(p) ==
    /\ cache.rec = NoRecovery /\ cache.sender < Bound /\ ~Irreconcilable(p)
    /\ p # 0 /\ original < p
    /\ Prepare([StatePlan([cache EXCEPT
                   !.rec = Recovery("logon789", "prefix", original, p, original, p),
                   !.cont = Resend(original), !.count = 0]) EXCEPT !.told = TRUE])

(* The native state after a Logon response that the range [peer, sender)   *)
(* has to follow.                                                          *)
AwaitResponse(s, lowest) ==
    [s EXCEPT !.attached = TRUE, !.count = 0, !.cont = NoContinuation,
              !.rec = Recovery("logon789", "response", s.sender, s.sender + 1,
                               s.sender, lowest)]

AcceptLogon(p) ==
    /\ cache.rec = NoRecovery /\ cache.sender < Bound /\ ~Irreconcilable(p)
    /\ p = 0 \/ original >= p
    /\ IF Lower(p)
       THEN Prepare([Issue(StatePlan(AwaitResponse(cache, p)), <<"logon">>)
                        EXCEPT !.handed = cache.sender, !.told = TRUE,
                               !.begins = cache.sender])
       ELSE Prepare([Issue(StatePlan([cache EXCEPT !.attached = TRUE, !.count = 0]),
                           <<"logon">>) EXCEPT !.told = p # 0])

(* The interrupted recovery of a Logon goes on for the Logon that began it.*)
ReattachLogon789(p) ==
    /\ cache.rec.kind = "logon789" /\ p = cache.rec.peer
    /\ CASE cache.rec.phase = "prefix" -> original = cache.rec.cursor
         [] cache.rec.phase = "response" -> original \in {cache.rec.begin, cache.sender}
         [] OTHER -> original = cache.sender
    /\ Prepare(StatePlan(
          [cache EXCEPT !.attached = cache.rec.phase # "prefix", !.count = 0,
                        !.cont = IF cache.rec.phase = "response" THEN NoContinuation
                                 ELSE Resend(cache.rec.cursor)]))

(* Seeded error: a direct recovery that is attached again goes on at its   *)
(* old cursor whatever the peer says it misses.                            *)
NoRewind(p) == [cache EXCEPT !.attached = TRUE, !.count = 0, !.cont = NoContinuation]

(* lowerReattachmentRewind: back to the number the peer expects.           *)
Reattached(p) ==
    [cache EXCEPT !.attached = TRUE, !.count = 0, !.cont = NoContinuation,
                  !.rec.cursor = IF p # 0 /\ p < original /\ p < @ THEN p ELSE @]

InitialResponse(p) == /\ cache.sender < Bound /\ original = cache.sender
                      /\ p = 0 \/ p \in cache.rec.begin .. cache.sender

LostResponse(p) == /\ cache.sender > 1 /\ original = cache.sender - 1
                   /\ p # 0 /\ p \in cache.rec.begin .. cache.sender - 1

ReattachDirect(p) ==
    /\ cache.rec.kind = "direct" /\ InitialResponse(p)
    /\ Prepare([Issue(StatePlan(Reattached(p)), <<"logon">>) EXCEPT !.told = p # 0])

(* The response was issued and may not have arrived: it is read back.      *)
ReattachLost(p) ==
    /\ cache.rec.kind = "direct" /\ ~InitialResponse(p) /\ LostResponse(p)
    /\ Prepare([StatePlan(Reattached(p)) EXCEPT
                   !.status = "store", !.told = TRUE,
                   !.from = cache.sender - 1, !.to = cache.sender])

RefuseReattach(p) ==
    /\ cache.rec.kind = "direct" /\ ~InitialResponse(p) /\ ~LostResponse(p)
    /\ Prepare([Dropping([cache EXCEPT !.count = 0, !.cont = NoContinuation])
                   EXCEPT !.told = p # 0])

Logon == /\ link = "up" /\ InboundDetached
         /\ \E p \in {0, want} :
               \/ ReconcileLogon(p) \/ HoldLogon(p) \/ AcceptLogon(p)
               \/ ReattachLogon789(p)
               \/ ReattachDirect(p) \/ ReattachLost(p) \/ RefuseReattach(p)

(* The host sends a Logon by itself.                                       *)
AdminLogon ==
    /\ ~cache.attached /\ ~cache.closing /\ cache.rec = NoRecovery
    /\ cache.sender < Bound /\ original = cache.sender
    /\ Request(Issue(StatePlan([cache EXCEPT !.attached = TRUE, !.count = 0]),
                     <<"logon">>))

-----------------------------------------------------------------------------
(* A ResendRequest of the peer for [want, e], or to the end if e is 0.     *)

ResendBegins(end) ==
    IF want = end THEN StatePlan([cache EXCEPT !.count = 0])
    ELSE StatePlan([cache EXCEPT !.count = 0,
                       !.rec = Recovery("direct", "stored", want, end, want, 0),
                       !.cont = Resend(want)])

(* With another continuation open the request falls through to the planning*)
(* session, whose store is empty: nextResendRequest fills the whole range. *)
ResendFilled(end) ==
    [StatePlan([cache EXCEPT !.count = 0]) EXCEPT
        !.from = want, !.to = end, !.filled = want .. end - 1]

ResendRequest ==
    /\ attachedForAdmin
    /\ \E e \in {0} \union want .. cache.sender - 1 :
          LET end == IF e = 0 THEN cache.sender ELSE e + 1
          IN  /\ want <= end
              /\ Request([IF cache.cont = NoContinuation THEN ResendBegins(end)
                          ELSE ResendFilled(end) EXCEPT !.told = TRUE])

-----------------------------------------------------------------------------
(* continueResendPlan                                                      *)

Page(p, from) == LET to == from + MaxPage
                 IN  [p EXCEPT !.status = "store", !.from = from,
                               !.to = IF p.state.rec.end < to THEN p.state.rec.end ELSE to]

(* Seeded error: the barrier opens while the response is still to be       *)
(* handed over, and only then.                                             *)
BarrierAtResponse ==
    /\ cache.rec.kind = "direct" /\ cache.attached /\ cache.cont = NoContinuation
    /\ original + 1 = cache.sender
    /\ Request(StatePlan([cache EXCEPT !.cont = Resend(cache.rec.cursor)]))

(* The Logon response of a direct recovery was handed over: the range may  *)
(* follow.                                                                 *)
PassBarrier ==
    /\ cache.rec.kind = "direct" /\ cache.attached /\ cache.cont = NoContinuation
    /\ original = cache.sender
    /\ Request(StatePlan([cache EXCEPT !.cont = Resend(cache.rec.cursor)]))

NextPage ==
    /\ cache.rec.phase \in {"stored", "final"} /\ cache.attached
    /\ cache.cont = Resend(cache.rec.cursor)
    /\ cache.rec.kind = "direct" => original >= cache.rec.cursor
    /\ Request(Page(StatePlan(cache), cache.rec.cursor))

(* The host confirms numbers that the peer has, up to but not including o; *)
(* with the last one the Logon is answered.                                *)
ConfirmPrefix ==
    /\ cache.rec.phase = "prefix" /\ cache.cont = Resend(cache.rec.cursor)
    /\ \E o \in cache.rec.cursor + 1 .. cache.rec.end :
          /\ o - cache.rec.cursor <= MaxPage
          /\ \/ /\ o < cache.rec.end
                /\ Request([StatePlan([cache EXCEPT !.rec.cursor = o, !.cont = Resend(o)])
                               EXCEPT !.handed = o])
             \/ /\ o = cache.rec.end /\ o = cache.sender
                /\ Request([Issue(StatePlan([cache EXCEPT !.attached = TRUE,
                                                !.rec = NoRecovery, !.cont = NoContinuation]),
                                  <<"logon">>) EXCEPT !.handed = o])
             \/ /\ o = cache.rec.end /\ o # cache.sender
                /\ Request([Issue(StatePlan(AwaitResponse(cache, cache.rec.peer)), <<"logon">>)
                               EXCEPT !.handed = cache.sender, !.begins = cache.sender])

(* The response was handed over: everything below it follows.              *)
RangeAfterResponse ==
    /\ cache.rec.phase = "response" /\ cache.attached
    /\ original = cache.rec.begin + 1
    /\ LET lowest == cache.rec.peer
       IN  Request(Page(StatePlan([cache EXCEPT
              !.rec = Recovery("logon789", "stored", lowest, cache.rec.begin, lowest, lowest),
              !.cont = Resend(lowest)]), lowest))

Continue == PassBarrier \/ NextPage \/ ConfirmPrefix \/ RangeAfterResponse

-----------------------------------------------------------------------------
(* resume with the rows [from, to) of the host's store.                    *)

(* Seeded error: the stored range ends the recovery, the number of the     *)
(* Logon response itself is never filled.                                  *)
NoFinalGapFill(s, n) ==
    IF n # s.rec.end
    THEN [s EXCEPT !.rec.cursor = n, !.cont = Resend(n)]
    ELSE [s EXCEPT !.rec = NoRecovery, !.cont = NoContinuation]

(* The state after the numbers up to n were sent again.                    *)
Resumed(s, n) ==
    IF n # s.rec.end
    THEN [s EXCEPT !.rec.cursor = n, !.cont = Resend(n)]
    ELSE IF s.rec.kind = "logon789" /\ s.rec.phase = "stored"
    THEN [s EXCEPT !.rec = Recovery("logon789", "final", s.sender - 1, s.sender,
                                    s.sender - 1, s.rec.peer),
                   !.cont = Resend(s.sender - 1)]
    ELSE [s EXCEPT !.rec = NoRecovery, !.cont = NoContinuation]

(* Applications are sent again, runs of anything else become GapFills; the *)
(* output may be full before the page is done.                             *)
ResumePage ==
    /\ plan.status = "store" /\ plan.state.cont.kind = "resend"
    /\ \E n \in plan.from + 1 .. plan.to :
          Describe([plan EXCEPT !.status = "ready", !.state = Resumed(plan.state, n),
                       !.to = n, !.filled = {m \in plan.from .. n - 1 : rows[m] # "app"}])

(* resumeDirectLogonResponse takes nothing but a Logon.                    *)
ResumeResponse ==
    /\ plan.status = "store" /\ plan.state.cont = NoContinuation
    /\ IF rows[plan.from] = "logon"
       THEN Describe([plan EXCEPT !.status = "ready"])
       ELSE plan' = NoPlan /\ handle' = "terminal"

Resume == /\ handle = "live" /\ (ResumePage \/ ResumeResponse)
          /\ UNCHANGED <<host, peer, cache, lost, stops>>

-----------------------------------------------------------------------------
(* The host's transaction, apply, abort, and the life of the handle.       *)

Extended == IF plan.from < plan.to /\ plan.from <= reach /\ reach < plan.to
            THEN plan.to ELSE reach

Commit ==
    /\ plan.status = "ready"
    /\ plan' = [plan EXCEPT !.status = "committed"]
    /\ durable' = plan.state
    /\ rows' = rows \o plan.fresh
    /\ original' = IF plan.handed # 0 THEN plan.handed ELSE original
    /\ link' = IF plan.closes THEN "down"
               ELSE IF plan.drop /\ link = "up" THEN "lost" ELSE link
    /\ reach' = IF link' = "up" THEN Extended ELSE want
    /\ told' = (link' = "up" /\ (told \/ plan.told))
    /\ begun' = IF link' # "up" THEN 0
                ELSE IF plan.begins # 0 THEN plan.begins ELSE begun
    /\ UNCHANGED <<cache, handle, want, lost, stops>>

(* Seeded error: the plan is dropped without becoming the state.           *)
ApplyForgets ==
    /\ handle = "live" /\ plan.status = "committed"
    /\ plan' = NoPlan
    /\ UNCHANGED <<host, peer, cache, handle, lost, stops>>

ApplyCommitted ==
    /\ handle = "live" /\ plan.status = "committed"
    /\ cache' = plan.state /\ plan' = NoPlan
    /\ UNCHANGED <<host, peer, handle, lost, stops>>

Abort == /\ handle = "live" /\ plan.status \in {"ready", "store"} /\ stops < MaxStops
         /\ plan' = NoPlan /\ stops' = stops + 1
         /\ UNCHANGED <<host, peer, cache, handle, lost>>

(* The process ends or the host destroys the session, whatever is pending. *)
HandleLost == /\ handle # "gone" /\ stops < MaxStops
              /\ handle' = "gone" /\ plan' = NoPlan /\ cache' = freshState
              /\ stops' = stops + 1
              /\ UNCHANGED <<host, peer, lost>>

Create == /\ handle # "live" /\ validNativeState(durable)
          /\ handle' = "live" /\ cache' = durable
          /\ UNCHANGED <<host, peer, plan, lost, stops>>

-----------------------------------------------------------------------------
(* The connection and the peer.                                            *)

MayHandOver == link = "up" /\ durable.attached /\ original < durable.sender

HandOver == /\ MayHandOver
            /\ original' = original + 1
            /\ reach' = IF reach = original THEN original + 1 ELSE reach
            /\ UNCHANGED <<durable, rows, cache, plan, handle, link, want, told,
                           begun, lost, stops>>

Receive == /\ link = "up" /\ want' \in want + 1 .. reach
           /\ UNCHANGED <<host, cache, plan, handle, link, reach, told, begun, lost, stops>>

(* The connection breaks; numbers up to but not including n were handed    *)
(* over just before, and the host did not get to note it.                  *)
Lose == /\ link = "up" /\ lost < MaxLost
        /\ \/ want' = want
           \/ /\ MayHandOver /\ reach >= original
              /\ \E n \in original + 1 .. durable.sender : n > reach /\ want' = n
        /\ link' = "lost" /\ lost' = lost + 1
        /\ reach' = want' /\ told' = FALSE /\ begun' = 0
        /\ UNCHANGED <<host, cache, plan, handle, stops>>

Connect == /\ link = "down" /\ link' = "up"
           /\ UNCHANGED <<host, cache, plan, handle, want, reach, told, begun, lost, stops>>

Next == \/ AdminOutput \/ TestRequest \/ Logout \/ TimerDisconnect \/ PeerSpeaks
        \/ Application \/ StoredRetransmit \/ TransportClosed
        \/ Logon \/ AdminLogon \/ ResendRequest \/ Continue
        \/ Resume \/ Commit \/ ApplyCommitted \/ Abort \/ HandleLost \/ Create
        \/ HandOver \/ Receive \/ Lose \/ Connect

Spec == Init /\ [][Next]_vars

(* The host goes on with a recovery it was told about (has_more), commits  *)
(* and applies what it asked for, re-creates a session it lost and hands   *)
(* over what it committed.                                                 *)
FairSpec == /\ Spec
            /\ SF_vars(Continue) /\ WF_vars(Resume) /\ WF_vars(Commit)
            /\ WF_vars(ApplyCommitted) /\ WF_vars(Create) /\ WF_vars(HandOver)

-----------------------------------------------------------------------------
(* Properties.                                                             *)

(* Every variable has its type.                                            *)
TypeOK ==
    /\ {durable, cache} \subseteq NativeState
    /\ rows \in Seq(Kinds) /\ original \in 1 .. Bound
    /\ plan = NoPlan \/ plan \in Plans
    /\ handle \in {"live", "gone", "terminal", "internal"}
    /\ link \in {"up", "lost", "down"}
    /\ want \in 1 .. Bound /\ reach \in want .. Bound
    /\ told \in BOOLEAN /\ begun \in Numbers
    /\ lost \in 0 .. MaxLost /\ stops \in 0 .. MaxStops

(* Whatever sequence of requests, losses and re-creations went before, the *)
(* state the host keeps can be made a session again (create refuses none), *)
(* and no request ends in INTERNAL_ERROR because its plan could not be     *)
(* restored.                                                               *)
Restorable == validNativeState(durable) /\ handle # "internal"

(* A plan numbers its frames from the first number the host's store does   *)
(* not hold: no number is issued twice, through aborted plans, handles lost*)
(* between commit and apply, and re-creation.                              *)
NumbersIssuedOnce ==
    plan.status \in {"ready", "store"} =>
        plan.state.sender = Len(rows) + Len(plan.fresh) + 1

(* A page is never sent from beyond what the peer will have: when the peer *)
(* said on this connection what it misses, the numbers it is sent again    *)
(* continue it, after any number of lost connections.                      *)
NoGapInRecovery ==
    (/\ link = "up" /\ plan.status = "ready" /\ plan.from # 0
     /\ plan.state.attached /\ cache.cont.kind = "resend"
     /\ (cache.rec.kind = "direct" /\ told) \/ begun # 0)
        => plan.from <= reach

(* The recovery a Logon with a lower NextExpectedMsgSeqNum began ends, on  *)
(* the connection it began on, with the peer past the Logon response.      *)
LowerLogonCovered ==
    (begun # 0 /\ link = "up" /\ durable.rec = NoRecovery) => reach > begun

(* A recovery that has a connection comes to its end or loses it.          *)
RecoveryEnds ==
    (link = "up" /\ (durable.attached \/ durable.cont.kind = "resend")
       /\ durable.rec # NoRecovery)
        ~> (link # "up" \/ durable.rec = NoRecovery)

(* A mandatory application is sent again, never gap-filled: a GapFill      *)
(* tells the peer that the number carried nothing it needs.                *)
MandatoryNeverGapFilled ==
    plan.status = "committed" => \A n \in plan.filled : rows[n] # "app"
=============================================================================

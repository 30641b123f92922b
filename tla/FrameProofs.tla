---------------------------- MODULE FrameProofs ----------------------------
(***************************************************************************)
(* Theorems about FrameAdapter, for every bound of the sequence numbers,   *)
(* page size, block size and number of losses: the types, that every state *)
(* the host keeps can be restored, and that a number is issued once.       *)
(***************************************************************************)
EXTENDS FrameAdapter, TLAPS

-----------------------------------------------------------------------------
(* The inductive invariant.                                                *)

(* What a plan that waits for its rows or for the commit looks like.       *)
StoreOK(p) ==
    p.status = "store" =>
        /\ p.fresh = <<>>
        /\ p.state.cont.kind = "resend" =>
              /\ p.state.rec.phase \in {"stored", "final"}
              /\ p.from = p.state.rec.cursor /\ p.to <= p.state.rec.end

ClosingOK(p) == /\ p.state.closing => p.drop /\ ~p.closes
                /\ p.closes => link = "lost"

PendingOK ==
    plan.status \in {"ready", "store"} =>
        /\ link # "down"
        /\ plan.state.sender = Len(rows) + Len(plan.fresh) + 1
        /\ validNativeState(plan.state)
        /\ ClosingOK(plan) /\ StoreOK(plan)

(* Session, host and plan agree; a state that is closing belongs to a      *)
(* connection that is going down.                                          *)
Agreed ==
    /\ handle # "internal"
    /\ handle # "live" => plan = NoPlan
    /\ handle = "live" /\ plan.status # "committed" => cache = durable
    /\ handle = "live" /\ plan.status = "committed" => plan.state = durable
    /\ Len(rows) + 1 = durable.sender
    /\ durable.closing => link = "lost"

Inv == TypeOK /\ validNativeState(durable) /\ Agreed /\ PendingOK

-----------------------------------------------------------------------------
(* Types of native states and plans.                                       *)

LEMMA StateFields ==
    ASSUME NEW s \in NativeState
    PROVE  /\ s.sender \in 1 .. Bound /\ s.attached \in BOOLEAN /\ s.closing \in BOOLEAN
           /\ s.count \in Nat /\ s.rec \in Recoveries /\ s.cont \in Continuations
  BY DEF NativeState

LEMMA RecoveryFields ==
    ASSUME NEW r \in Recoveries
    PROVE  /\ r.begin \in Nat /\ r.end \in Nat /\ r.cursor \in Nat /\ r.peer \in Nat
           /\ r.begin <= Bound /\ r.end <= Bound /\ r.cursor <= Bound /\ r.peer <= Bound
  BY FrameStateAssumption DEF Recoveries, Numbers

LEMMA RecoveryType ==
    ASSUME NEW k \in {"none", "direct", "logon789"},
           NEW p \in {"none", "prefix", "response", "stored", "final"},
           NEW b \in Numbers, NEW e \in Numbers, NEW c \in Numbers, NEW n \in Numbers
    PROVE  /\ Recovery(k, p, b, e, c, n) \in Recoveries
           /\ Recovery(k, p, b, e, c, n).kind = k /\ Recovery(k, p, b, e, c, n).phase = p
           /\ Recovery(k, p, b, e, c, n).begin = b /\ Recovery(k, p, b, e, c, n).end = e
           /\ Recovery(k, p, b, e, c, n).cursor = c /\ Recovery(k, p, b, e, c, n).peer = n
  BY DEF Recovery, Recoveries

LEMMA ContinuationType ==
    /\ NoContinuation \in Continuations /\ NoContinuation.kind = "none"
    /\ \A n \in Nat : /\ Resend(n) \in Continuations /\ Resend(n).kind = "resend"
                      /\ Block(n) \in Continuations /\ Block(n).kind = "block"
                      /\ Block(n).cursor = n
  BY DEF Continuations, NoContinuation, Resend, Block

LEMMA NoRecoveryType == NoRecovery \in Recoveries /\ NoRecovery.begin = 0
                        /\ NoRecovery.kind = "none" /\ NoRecovery.phase = "none"
  BY FrameStateAssumption DEF NoRecovery, Recoveries, Numbers

LEMMA FreshType == /\ freshState \in NativeState /\ validNativeState(freshState)
                   /\ freshState.sender = 1 /\ freshState.closing = FALSE
<1>1. freshState \in NativeState
  BY FrameStateAssumption, NoRecoveryType, ContinuationType DEF freshState, NativeState
<1>2. QED
  BY <1>1 DEF freshState, validNativeState

LEMMA StatePlanType ==
    ASSUME NEW s \in NativeState
    PROVE  /\ StatePlan(s) \in Plans /\ StatePlan(s).state = s
           /\ StatePlan(s).fresh = <<>> /\ StatePlan(s).status = "ready"
           /\ StatePlan(s).drop = FALSE /\ StatePlan(s).closes = FALSE
  BY FrameStateAssumption DEF StatePlan, Plans, Numbers

LEMMA IssueType ==
    ASSUME NEW p \in Plans, NEW kinds \in Seq(Kinds),
           p.state.sender + Len(kinds) <= Bound
    PROVE  /\ Issue(p, kinds) \in Plans
           /\ Issue(p, kinds).state = [p.state EXCEPT !.sender = @ + Len(kinds)]
           /\ Issue(p, kinds).fresh = kinds
           /\ Issue(p, kinds).status = p.status
           /\ Issue(p, kinds).drop = p.drop
           /\ Issue(p, kinds).closes = p.closes
<1> DEFINE s == [p.state EXCEPT !.sender = @ + Len(kinds)]
<1>1. p.state \in NativeState
  BY DEF Plans
<1>2. Len(kinds) \in Nat
  OBVIOUS
<1>3. s \in NativeState
  <2>1. p.state.sender + Len(kinds) \in 1 .. Bound
    BY <1>1, <1>2, FrameStateAssumption, StateFields
  <2>2. QED
    BY <1>1, <2>1 DEF NativeState
<1>4. Issue(p, kinds) = [p EXCEPT !.state = s, !.fresh = kinds]
  BY <1>1 DEF Issue, Plans
<1> HIDE DEF s
<1>5. QED
  BY <1>3, <1>4 DEF Plans, s

-----------------------------------------------------------------------------
(* Plans that may be offered.                                              *)

PlanOK(p) ==
    /\ p \in Plans /\ p.status \in {"ready", "store"}
    /\ p.state.sender = cache.sender + Len(p.fresh)
    /\ validNativeState(p.state)
    /\ ClosingOK(p) /\ StoreOK(p)

LEMMA StatePlanOK ==
    ASSUME NEW s \in NativeState, validNativeState(s), s.sender = cache.sender, ~s.closing
    PROVE  PlanOK(StatePlan(s))
<1>1. Len(<<>>) = 0
  OBVIOUS
<1>2. s.sender = cache.sender + 0
  BY StateFields
<1>3. QED
  BY <1>1, <1>2, StatePlanType DEF PlanOK, ClosingOK, StoreOK

LEMMA IssueOK ==
    ASSUME NEW s \in NativeState, NEW kinds \in Seq(Kinds),
           s.sender = cache.sender, s.sender + Len(kinds) <= Bound, ~s.closing,
           validNativeState([s EXCEPT !.sender = @ + Len(kinds)])
    PROVE  PlanOK(Issue(StatePlan(s), kinds))
<1>1. /\ StatePlan(s) \in Plans /\ StatePlan(s).state = s
      /\ StatePlan(s).status = "ready"
      /\ StatePlan(s).drop = FALSE /\ StatePlan(s).closes = FALSE
  BY StatePlanType
<1> DEFINE q == Issue(StatePlan(s), kinds)
<1>2. /\ q \in Plans /\ q.state = [s EXCEPT !.sender = @ + Len(kinds)]
      /\ q.fresh = kinds /\ q.status = "ready" /\ q.drop = FALSE /\ q.closes = FALSE
  BY <1>1, IssueType
<1> HIDE DEF q
<1>3. q.state.sender = cache.sender + Len(q.fresh) /\ q.state.closing = s.closing
  BY <1>2 DEF NativeState
<1>4. QED
  BY <1>2, <1>3 DEF PlanOK, ClosingOK, StoreOK, q

LEMMA DroppingType ==
    ASSUME NEW s \in NativeState
    PROVE  /\ Dropping(s) \in Plans /\ Dropping(s).state = s
           /\ Dropping(s).fresh = <<>> /\ Dropping(s).status = "ready"
           /\ Dropping(s).drop = TRUE /\ Dropping(s).closes = FALSE
<1>1. StatePlan(s) \in Plans
  BY StatePlanType
<1>2. QED
  BY <1>1 DEF Dropping, StatePlan, Plans

LEMMA IssueDropOK ==
    ASSUME NEW s \in NativeState, NEW kinds \in Seq(Kinds),
           s.sender = cache.sender, s.sender + Len(kinds) <= Bound,
           validNativeState([s EXCEPT !.sender = @ + Len(kinds)])
    PROVE  PlanOK(Issue(Dropping(s), kinds))
<1>1. /\ Dropping(s) \in Plans /\ Dropping(s).state = s
      /\ Dropping(s).status = "ready"
      /\ Dropping(s).drop = TRUE /\ Dropping(s).closes = FALSE
  BY DroppingType
<1> DEFINE q == Issue(Dropping(s), kinds)
<1>2. /\ q \in Plans /\ q.state = [s EXCEPT !.sender = @ + Len(kinds)]
      /\ q.fresh = kinds /\ q.status = "ready" /\ q.drop = TRUE /\ q.closes = FALSE
  BY <1>1, IssueType
<1> HIDE DEF q
<1>3. q.state.sender = cache.sender + Len(q.fresh)
  BY <1>2 DEF NativeState
<1>4. QED
  BY <1>2, <1>3 DEF PlanOK, ClosingOK, StoreOK, q

LEMMA DropOK ==
    ASSUME NEW s \in NativeState, s.sender = cache.sender, validNativeState(s)
    PROVE  PlanOK(Dropping(s))
<1>1. Len(<<>>) = 0
  OBVIOUS
<1>2. s.sender = cache.sender + 0
  BY StateFields
<1>3. QED
  BY <1>1, <1>2, DroppingType DEF PlanOK, ClosingOK, StoreOK

(* What the host and the peer are told does not matter.                    *)
LEMMA NotesOK ==
    ASSUME NEW p, PlanOK(p), NEW n \in Numbers, NEW b \in Numbers, NEW t \in BOOLEAN
    PROVE  /\ PlanOK([p EXCEPT !.handed = n])
           /\ PlanOK([p EXCEPT !.handed = n, !.begins = b])
           /\ PlanOK([p EXCEPT !.handed = n, !.told = t, !.begins = b])
  BY DEF PlanOK, ClosingOK, StoreOK, Plans

LEMMA ToldOK ==
    ASSUME NEW p, PlanOK(p), NEW t \in BOOLEAN
    PROVE  PlanOK([p EXCEPT !.told = t])
  BY DEF PlanOK, ClosingOK, StoreOK, Plans

(* The state a request is answered from.                                   *)
LEMMA Context ==
    ASSUME Inv, CanPrepare
    PROVE  /\ cache \in NativeState /\ validNativeState(cache) /\ cache = durable
           /\ Len(rows) + 1 = cache.sender
           /\ link = "up" => ~cache.closing
           /\ want \in 1 .. Bound /\ original \in 1 .. Bound
  BY DEF Inv, CanPrepare, NoPlan, TypeOK, Agreed

(* A plan that may be offered is offered, and the invariant holds.         *)
LEMMA Offer ==
    ASSUME Inv, NEW p, Prepare(p), PlanOK(p), link # "down"
    PROVE  Inv'
<1>1. CanPrepare
  BY DEF Prepare
<1>2. /\ plan' = p /\ handle' = handle
      /\ UNCHANGED <<host, peer, cache, lost, stops>>
  BY DEF Prepare, Describe, PlanOK
<1>3. p \in Plans /\ p.status \in {"ready", "store"}
  BY DEF PlanOK
<1>4. TypeOK'
  BY <1>2, <1>3 DEF Inv, TypeOK, host, peer
<1>5. validNativeState(durable)'
  BY <1>2 DEF Inv, host
<1>6. Agreed'
  BY <1>1, <1>2, <1>3 DEF Inv, Agreed, CanPrepare, NoPlan, host, peer
<1>7. PendingOK'
  <2>1. /\ p.state.sender = cache.sender + Len(p.fresh)
        /\ validNativeState(p.state) /\ ClosingOK(p) /\ StoreOK(p)
    BY DEF PlanOK
  <2>2. Len(rows) + 1 = cache.sender
    BY <1>1, Context
  <2>3. Len(rows) \in Nat /\ Len(p.fresh) \in Nat
    BY <1>3 DEF Plans, Inv, TypeOK
  <2>4. p.state.sender = Len(rows) + Len(p.fresh) + 1
    BY <2>1, <2>2, <2>3
  <2>5. link' = link /\ rows' = rows
    BY <1>2 DEF host, peer
  <2>6. ClosingOK(plan)' /\ StoreOK(plan)'
    BY <1>2, <2>1, <2>5 DEF ClosingOK, StoreOK
  <2>7. QED
    BY <1>2, <2>1, <2>4, <2>5, <2>6 DEF PendingOK
<1>8. QED
  BY <1>4, <1>5, <1>6, <1>7 DEF Inv

-----------------------------------------------------------------------------
(* The requests outside a recovery.                                        *)

IdleContinuation(s) ==
    s.cont = NoContinuation \/ (s.cont.kind = "block" /\ s.cont.cursor > 0)

LEMMA IdleValid ==
    ASSUME NEW s \in NativeState, NEW n \in 1 .. Bound, s.rec = NoRecovery,
           IdleContinuation(s), s.count # 0 => s.attached /\ ~s.closing
    PROVE  validNativeState([s EXCEPT !.sender = n]) /\ validNativeState(s)
  BY DEF validNativeState, NativeState, IdleContinuation

LEMMA IdleContext ==
    ASSUME NEW s \in NativeState, validNativeState(s), s.rec = NoRecovery
    PROVE  IdleContinuation(s) /\ (s.count # 0 => s.attached /\ ~s.closing)
  BY NoRecoveryType DEF validNativeState, IdleContinuation, validRangeTriple

LEMMA One == /\ \A k \in Kinds : <<k>> \in Seq(Kinds) /\ Len(<<k>>) = 1
             /\ <<>> \in Seq(Kinds) /\ Len(<<>>) = 0
  OBVIOUS

(* Frames that are issued outside a recovery.                              *)
LEMMA IdleIssue ==
    ASSUME NEW s \in NativeState, NEW kinds \in Seq(Kinds), s.rec = NoRecovery,
           IdleContinuation(s), s.count # 0 => s.attached /\ ~s.closing,
           s.sender = cache.sender, s.sender + Len(kinds) <= Bound
    PROVE  /\ ~s.closing => PlanOK(Issue(StatePlan(s), kinds))
           /\ PlanOK(Issue(Dropping(s), kinds))
<1> DEFINE n == s.sender + Len(kinds)
<1>1. n \in 1 .. Bound
  <2>1. Len(kinds) \in Nat /\ s.sender \in 1 .. Bound
    BY StateFields
  <2>2. QED
    BY <2>1, FrameStateAssumption
<1>2. [s EXCEPT !.sender = @ + Len(kinds)] = [s EXCEPT !.sender = n]
  OBVIOUS
<1> HIDE DEF n
<1>3. validNativeState([s EXCEPT !.sender = @ + Len(kinds)])
  BY <1>1, <1>2, IdleValid
<1>4. QED
  BY <1>3, IssueOK, IssueDropOK

LEMMA IssueAdmin ==
    ASSUME NEW s \in NativeState, NEW k \in Kinds, s.rec = NoRecovery,
           IdleContinuation(s), s.count # 0 => s.attached /\ ~s.closing,
           s.sender = cache.sender, s.sender < Bound
    PROVE  /\ ~s.closing => PlanOK(Issue(StatePlan(s), <<k>>))
           /\ PlanOK(Issue(Dropping(s), <<k>>))
<1> DEFINE kinds == <<k>>
<1>1. kinds \in Seq(Kinds) /\ Len(kinds) = 1
  BY One
<1>2. s.sender + 1 <= Bound
  BY StateFields, FrameStateAssumption
<1>3. s.sender + Len(kinds) <= Bound
  BY <1>1, <1>2
<1> HIDE DEF kinds
<1>4. /\ ~s.closing => PlanOK(Issue(StatePlan(s), kinds))
      /\ PlanOK(Issue(Dropping(s), kinds))
  BY <1>1, <1>3, IdleIssue
<1>5. QED
  BY <1>4 DEF kinds

LEMMA AdminOutputKeeps == Inv /\ AdminOutput => Inv'
<1> SUFFICES ASSUME Inv, AdminOutput PROVE Inv'
  OBVIOUS
<1>1. CanPrepare /\ link = "up" /\ attachedForAdmin
  BY DEF AdminOutput, Request, Prepare
<1>2. IdleContinuation(cache) /\ (cache.count # 0 => cache.attached /\ ~cache.closing)
  BY <1>1, Context, IdleContext DEF attachedForAdmin
<1>3. /\ cache \in NativeState /\ cache.sender < Bound /\ cache.rec = NoRecovery
      /\ ~cache.closing /\ "admin" \in Kinds
  BY <1>1, Context DEF attachedForAdmin, Kinds
<1>4. PlanOK(Issue(StatePlan(cache), <<"admin">>))
  BY <1>2, <1>3, IssueAdmin
<1>5. Prepare(Issue(StatePlan(cache), <<"admin">>))
  BY DEF AdminOutput, Request
<1>6. QED
  BY <1>1, <1>4, <1>5, Offer

(* Fields of a state that is changed outside a recovery.                   *)
LEMMA CountType ==
    ASSUME NEW s \in NativeState, NEW n \in Nat, NEW c \in BOOLEAN
    PROVE  /\ [s EXCEPT !.count = n] \in NativeState
           /\ [s EXCEPT !.count = n].sender = s.sender
           /\ [s EXCEPT !.count = n].rec = s.rec
           /\ [s EXCEPT !.count = n].cont = s.cont
           /\ [s EXCEPT !.count = n].count = n
           /\ [s EXCEPT !.count = n].attached = s.attached
           /\ [s EXCEPT !.count = n].closing = s.closing
  BY DEF NativeState

LEMMA ClosingType ==
    ASSUME NEW s \in NativeState
    PROVE  /\ Closing(s) \in NativeState /\ Closing(s).sender = s.sender
           /\ Closing(s).rec = s.rec /\ Closing(s).cont = s.cont
           /\ Closing(s).count = 0 /\ Closing(s).closing
  BY DEF NativeState, Closing

LEMMA TestRequestKeeps == Inv /\ TestRequest => Inv'
<1> SUFFICES ASSUME Inv, TestRequest PROVE Inv'
  OBVIOUS
<1> DEFINE s == [cache EXCEPT !.count = @ + 1]
<1>1. CanPrepare /\ link = "up" /\ attachedForAdmin
  BY DEF TestRequest, Request, Prepare
<1>2. cache \in NativeState /\ cache.count + 1 \in Nat /\ ~cache.closing
  BY <1>1, Context, StateFields
<1>3. /\ s \in NativeState /\ s.sender = cache.sender /\ s.rec = NoRecovery
      /\ s.cont = cache.cont /\ s.attached /\ ~s.closing
  BY <1>1, <1>2, CountType DEF attachedForAdmin
<1>4. IdleContinuation(s)
  BY <1>1, <1>3, Context, IdleContext DEF attachedForAdmin, IdleContinuation
<1>5. cache.sender < Bound /\ "admin" \in Kinds
  BY <1>1 DEF attachedForAdmin, Kinds
<1> HIDE DEF s
<1>7. PlanOK(Issue(StatePlan(s), <<"admin">>))
  BY <1>3, <1>4, <1>5, IssueAdmin
<1>8. QED
  BY <1>1, <1>7, Offer DEF TestRequest, Request, s

LEMMA LogoutKeeps == Inv /\ Logout => Inv'
<1> SUFFICES ASSUME Inv, Logout PROVE Inv'
  OBVIOUS
<1> DEFINE s == Closing(cache)
<1>1. CanPrepare /\ link = "up" /\ attachedForAdmin
  BY DEF Logout, Request, Prepare
<1>2. cache \in NativeState /\ cache.rec = NoRecovery
  BY <1>1, Context DEF attachedForAdmin
<1>3. /\ s \in NativeState /\ s.sender = cache.sender /\ s.rec = NoRecovery
      /\ s.cont = cache.cont /\ s.count = 0
  BY <1>2, ClosingType
<1>4. IdleContinuation(s)
  BY <1>1, <1>2, <1>3, Context, IdleContext DEF IdleContinuation
<1>5. cache.sender < Bound /\ "admin" \in Kinds
  BY <1>1 DEF attachedForAdmin, Kinds
<1> HIDE DEF s
<1>7. PlanOK(Issue(Dropping(s), <<"admin">>))
  BY <1>3, <1>4, <1>5, IssueAdmin
<1>8. QED
  BY <1>1, <1>7, Offer DEF Logout, Request, s

LEMMA TimerDisconnectKeeps == Inv /\ TimerDisconnect => Inv'
<1> SUFFICES ASSUME Inv, TimerDisconnect PROVE Inv'
  OBVIOUS
<1> DEFINE s == Closing(cache)
<1>1. CanPrepare /\ link = "up" /\ attachedForAdmin
  BY DEF TimerDisconnect, Request, Prepare
<1>2. cache \in NativeState /\ cache.rec = NoRecovery
  BY <1>1, Context DEF attachedForAdmin
<1>3. /\ s \in NativeState /\ s.sender = cache.sender /\ s.rec = NoRecovery
      /\ s.cont = cache.cont /\ s.count = 0
  BY <1>2, ClosingType
<1>4. IdleContinuation(s)
  BY <1>1, <1>2, <1>3, Context, IdleContext DEF IdleContinuation
<1> HIDE DEF s
<1>5. PlanOK(Dropping(s))
  BY <1>3, <1>4, IdleValid, DropOK, StateFields
<1>6. QED
  BY <1>1, <1>5, Offer DEF TimerDisconnect, Request, s

LEMMA OneMore ==
    ASSUME NEW a \in Nat, a < Bound, NEW n, n = 0 \/ n = 1
    PROVE  a + n <= Bound
  BY FrameStateAssumption

LEMMA PeerSpeaksKeeps == Inv /\ PeerSpeaks => Inv'
<1> SUFFICES ASSUME Inv, PeerSpeaks PROVE Inv'
  OBVIOUS
<1> DEFINE s == [cache EXCEPT !.count = 0]
<1>0. PICK answer \in {<<>>, <<"admin">>} : Request(Issue(StatePlan(s), answer))
  BY DEF PeerSpeaks
<1>1. CanPrepare /\ link = "up" /\ attachedForAdmin
  BY <1>0 DEF PeerSpeaks, Request, Prepare
<1>2. cache \in NativeState /\ ~cache.closing
  BY <1>1, Context
<1>3. /\ s \in NativeState /\ s.sender = cache.sender /\ s.rec = NoRecovery
      /\ s.cont = cache.cont /\ s.count = 0 /\ ~s.closing
  BY <1>1, <1>2, CountType DEF attachedForAdmin
<1>4. IdleContinuation(s)
  BY <1>1, <1>3, Context, IdleContext DEF attachedForAdmin, IdleContinuation
<1>5. answer \in Seq(Kinds) /\ (Len(answer) = 0 \/ Len(answer) = 1)
  <2>1. CASE answer = <<>>
    BY <2>1, One
  <2>2. CASE answer = <<"admin">>
    <3>1. "admin" \in Kinds
      BY DEF Kinds
    <3>2. QED
      BY <2>2, <3>1, One
  <2>3. QED
    BY <2>1, <2>2
<1> HIDE DEF s
<1>6. s.sender + Len(answer) <= Bound
  <2>1. s.sender \in Nat /\ s.sender < Bound
    BY <1>1, <1>3, StateFields DEF attachedForAdmin
  <2>2. QED
    BY <1>5, <2>1, OneMore
<1>7. PlanOK(Issue(StatePlan(s), answer))
  BY <1>3, <1>4, <1>5, <1>6, IdleIssue
<1>8. Prepare(Issue(StatePlan(s), answer))
  BY <1>0 DEF Request
<1>9. QED
  BY <1>1, <1>7, <1>8, Offer

LEMMA BlockType ==
    ASSUME NEW s \in NativeState, NEW k \in Continuations
    PROVE  /\ [s EXCEPT !.cont = k] \in NativeState
           /\ [s EXCEPT !.cont = k].sender = s.sender
           /\ [s EXCEPT !.cont = k].rec = s.rec
           /\ [s EXCEPT !.cont = k].cont = k
           /\ [s EXCEPT !.cont = k].count = s.count
           /\ [s EXCEPT !.cont = k].attached = s.attached
           /\ [s EXCEPT !.cont = k].closing = s.closing
  BY DEF NativeState

LEMMA AppsType ==
    ASSUME NEW n \in Nat
    PROVE  /\ [i \in 1 .. n |-> "app"] \in Seq(Kinds)
           /\ Len([i \in 1 .. n |-> "app"]) = n
  BY DEF Kinds

LEMMA ApplicationKeeps == Inv /\ Application => Inv'
<1> SUFFICES ASSUME Inv, Application PROVE Inv'
  OBVIOUS
<1> DEFINE first == cache.cont.cursor
<1>0. PICK total \in first + 1 .. MaxUnits, n \in 1 .. MaxUnits :
         /\ n <= total - first /\ total - first <= Bound - cache.sender
         /\ Request(ApplicationPlan(first, total, n))
  BY DEF Application
<1>1. CanPrepare /\ link = "up" /\ attachedForAdmin
  BY <1>0 DEF Application, Request, Prepare
<1>2. cache \in NativeState /\ ~cache.closing /\ first \in Nat
  BY <1>1, Context, StateFields DEF Continuations
<1> DEFINE k == IF first + n < total THEN Block(first + n) ELSE NoContinuation
           s == [cache EXCEPT !.cont = k]
           apps == [i \in 1 .. n |-> "app"]
<1>3. MaxUnits \in Nat /\ n \in Nat /\ n > 0 /\ first + n \in Nat /\ first + n > 0
  BY <1>2, FrameAdapterAssumption
<1>4. k \in Continuations /\ (k = NoContinuation \/ (k.kind = "block" /\ k.cursor > 0))
  BY <1>3, ContinuationType
<1>5. cache.sender + n \in 1 .. Bound
  BY <1>0, <1>1, <1>2, <1>3, StateFields, FrameStateAssumption DEF attachedForAdmin
<1>6. apps \in Seq(Kinds) /\ Len(apps) = n
  BY <1>3, AppsType
<1> HIDE DEF k, apps
<1>7. /\ s \in NativeState /\ s.sender = cache.sender /\ s.rec = NoRecovery
      /\ s.cont = k /\ s.count = cache.count /\ s.attached = cache.attached /\ ~s.closing
  BY <1>1, <1>2, <1>4, BlockType DEF attachedForAdmin
<1>8. ApplicationPlan(first, total, n) = Issue(StatePlan(s), apps)
  BY DEF ApplicationPlan, k, apps
<1> HIDE DEF s
<1>9. IdleContinuation(s) /\ (s.count # 0 => s.attached /\ ~s.closing)
  BY <1>1, <1>4, <1>7, Context, IdleContext DEF attachedForAdmin, IdleContinuation
<1>10. s.sender + Len(apps) <= Bound
  BY <1>5, <1>6, <1>7
<1>11. PlanOK(Issue(StatePlan(s), apps))
  BY <1>6, <1>7, <1>9, <1>10, IdleIssue
<1>12. Prepare(Issue(StatePlan(s), apps))
  BY <1>0, <1>8 DEF Request
<1>13. QED
  BY <1>1, <1>11, <1>12, Offer

-----------------------------------------------------------------------------
(* Frames sent again as they are, and the end of a connection.             *)

LEMMA RangeOK ==
    ASSUME NEW p, PlanOK(p), p.status = "ready", NEW a \in Numbers, NEW b \in Numbers,
           NEW f \in SUBSET Numbers
    PROVE  /\ PlanOK([p EXCEPT !.from = a, !.to = b])
           /\ PlanOK([p EXCEPT !.from = a, !.to = b, !.filled = f])
  BY DEF PlanOK, ClosingOK, StoreOK, Plans

LEMMA StoredRetransmitKeeps == Inv /\ StoredRetransmit => Inv'
<1> SUFFICES ASSUME Inv, StoredRetransmit PROVE Inv'
  OBVIOUS
<1>1. PICK n \in 1 .. Len(rows) : Request([StatePlan(cache) EXCEPT !.from = n, !.to = n + 1])
  BY DEF StoredRetransmit
<1>2. CanPrepare /\ link = "up"
  BY <1>1 DEF Request, Prepare
<1>3. n \in Numbers /\ n + 1 \in Numbers
  BY <1>2, Context, StateFields, FrameStateAssumption DEF Inv, TypeOK, Numbers
<1>4. PlanOK(StatePlan(cache)) /\ StatePlan(cache).status = "ready"
  BY <1>2, Context, StatePlanOK, StatePlanType
<1>5. PlanOK([StatePlan(cache) EXCEPT !.from = n, !.to = n + 1])
  BY <1>3, <1>4, RangeOK
<1>6. Prepare([StatePlan(cache) EXCEPT !.from = n, !.to = n + 1])
  BY <1>1 DEF Request
<1>7. QED
  BY <1>2, <1>5, <1>6, Offer

LEMMA DetachValid ==
    ASSUME NEW s \in NativeState, validNativeState(s)
    PROVE  /\ Detach(s) \in NativeState /\ validNativeState(Detach(s))
           /\ Detach(s).sender = s.sender /\ ~Detach(s).closing
<1> DEFINE k == IF s.rec # NoRecovery /\ s.cont.kind = "resend" THEN NoContinuation ELSE s.cont
           d == Detach(s)
<1>1. k \in Continuations
  BY StateFields, ContinuationType
<1>2. /\ d \in NativeState /\ d.sender = s.sender /\ d.closing = FALSE
      /\ d.attached = FALSE /\ d.count = 0 /\ d.rec = s.rec /\ d.cont = k
  BY <1>1 DEF NativeState, Detach
<1> HIDE DEF d
<1>3. ASSUME s.rec = NoRecovery PROVE validNativeState(d)
  BY <1>2, <1>3, IdleContext DEF validNativeState, IdleContinuation
<1>4. ASSUME s.rec # NoRecovery PROVE validNativeState(d)
  <2>1. /\ validRangeTriple(s.rec)
        /\ ValidDirect(s) \/ ValidLogon789(s)
    BY <1>4 DEF validNativeState
  <2>2. s.cont = NoContinuation \/ s.cont = Resend(s.rec.cursor)
    BY <2>1 DEF ValidDirect, ValidLogon789, ValidPrefix, ValidResponse, ValidStored, ValidFinal,
                DetachedState, AttachedResend, AttachedNoContinuation
  <2>3. k = NoContinuation
    BY <1>4, <2>2, ContinuationType DEF Resend
  <2>4. DetachedState(d)
    BY <1>2, <2>3 DEF DetachedState
  <2> HIDE DEF k
  <2>5. CASE ValidDirect(s)
    BY <1>2, <2>1, <2>4, <2>5 DEF validNativeState, ValidDirect
  <2>6. CASE ValidLogon789(s)
    <3>1. ValidLogon789(d)
      BY <1>2, <2>3, <2>4, <2>6 DEF ValidLogon789, ValidPrefix, ValidResponse, ValidStored,
                                   ValidFinal, OneNumber
    <3>2. QED
      BY <1>2, <2>1, <3>1 DEF validNativeState
  <2>7. QED
    BY <2>1, <2>5, <2>6
<1>5. QED
  BY <1>2, <1>3, <1>4 DEF d

LEMMA TransportClosedKeeps == Inv /\ TransportClosed => Inv'
<1> SUFFICES ASSUME Inv, TransportClosed PROVE Inv'
  OBVIOUS
<1> DEFINE p == StatePlan(Detach(cache))
           q == [p EXCEPT !.closes = TRUE]
<1>1. CanPrepare /\ link = "lost" /\ Prepare(q)
  BY DEF TransportClosed, Prepare
<1>2. PlanOK(p) /\ ~p.state.closing
  BY <1>1, Context, DetachValid, StatePlanOK, StatePlanType
<1> HIDE DEF p
<1>3. PlanOK(q)
  BY <1>1, <1>2 DEF PlanOK, ClosingOK, StoreOK, Plans
<1>4. QED
  BY <1>1, <1>3, Offer

-----------------------------------------------------------------------------
(* The Logons.                                                             *)

LEMMA IssueTold ==
    ASSUME NEW p \in Plans, NEW kinds \in Seq(Kinds), NEW t \in BOOLEAN
    PROVE  Issue([p EXCEPT !.told = t], kinds) = [Issue(p, kinds) EXCEPT !.told = t]
<1>1. [p EXCEPT !.told = t].state = p.state
  BY DEF Plans
<1>2. QED
  BY <1>1 DEF Issue, Plans

LEMMA DetachedContext ==
    ASSUME Inv, CanPrepare, InboundDetached
    PROVE  /\ cache \in NativeState /\ validNativeState(cache)
           /\ cache.attached = FALSE /\ cache.closing = FALSE /\ cache.count = 0
           /\ cache.sender \in Nat /\ cache.sender > 0 /\ cache.sender <= Bound
           /\ original \in Nat /\ original > 0 /\ original <= Bound
           /\ cache.rec = NoRecovery => IdleContinuation(cache)
<1>1. /\ cache \in NativeState /\ validNativeState(cache) /\ original \in 1 .. Bound
  BY Context
<1>2. /\ cache.attached \in BOOLEAN /\ cache.closing \in BOOLEAN
      /\ cache.sender \in 1 .. Bound
  BY <1>1, StateFields
<1>3. cache.attached = FALSE /\ cache.closing = FALSE
  BY <1>2 DEF InboundDetached
<1>4. cache.count = 0
  BY <1>1, <1>3 DEF validNativeState
<1>5. cache.rec = NoRecovery => IdleContinuation(cache)
  BY <1>1, IdleContext
<1>6. QED
  BY <1>1, <1>2, <1>3, <1>4, <1>5, FrameStateAssumption

(* The number a Logon names, if it names one.                              *)
LEMMA NamedNumber ==
    ASSUME Inv, NEW p \in {0, want}
    PROVE  p \in Numbers /\ p \in Nat /\ p <= Bound
  BY FrameStateAssumption DEF Inv, TypeOK, Numbers

LEMMA ReconcileLogonKeeps ==
    ASSUME Inv, link = "up", InboundDetached, NEW p \in {0, want}, ReconcileLogon(p)
    PROVE  Inv'
<1> DEFINE s == [cache EXCEPT !.closing = TRUE]
           t == p # 0
           kinds == <<"admin">>
           q == Issue(Dropping(s), kinds)
<1>1. CanPrepare /\ cache.rec = NoRecovery /\ cache.sender < Bound
  BY DEF ReconcileLogon, Prepare
<1>2. cache \in NativeState /\ cache.count = 0 /\ IdleContinuation(cache)
  BY <1>1, DetachedContext
<1>3. /\ s \in NativeState /\ s.sender = cache.sender /\ s.rec = NoRecovery
      /\ s.cont = cache.cont /\ s.count = 0
  BY <1>1, <1>2 DEF NativeState
<1>4. Prepare(Issue([Dropping(s) EXCEPT !.told = t], kinds)) /\ t \in BOOLEAN
  BY DEF ReconcileLogon
<1> HIDE DEF s, t
<1>5. IdleContinuation(s)
  BY <1>2, <1>3 DEF IdleContinuation
<1>6. "admin" \in Kinds /\ kinds \in Seq(Kinds)
  BY One DEF Kinds
<1>7. PlanOK(q)
  BY <1>1, <1>3, <1>5, <1>6, IssueAdmin
<1>8. Dropping(s) \in Plans
  BY <1>3, DroppingType
<1> HIDE DEF kinds
<1>9. Issue([Dropping(s) EXCEPT !.told = t], kinds) = [q EXCEPT !.told = t]
  BY <1>4, <1>6, <1>8, IssueTold
<1> HIDE DEF q
<1>10. PlanOK([q EXCEPT !.told = t])
  BY <1>4, <1>7, ToldOK
<1>11. QED
  BY <1>4, <1>9, <1>10, Offer

LEMMA HoldLogonKeeps ==
    ASSUME Inv, link = "up", InboundDetached, NEW p \in {0, want}, HoldLogon(p)
    PROVE  Inv'
<1> DEFINE r == Recovery("logon789", "prefix", original, p, original, p)
           k == Resend(original)
           s == [cache EXCEPT !.rec = r, !.cont = k, !.count = 0]
<1>1. CanPrepare /\ cache.sender < Bound /\ ~Irreconcilable(p) /\ p # 0 /\ original < p
  BY DEF HoldLogon, Prepare
<1>2. /\ cache \in NativeState /\ cache.attached = FALSE /\ cache.closing = FALSE
      /\ cache.sender \in Nat /\ original \in Nat /\ original > 0 /\ original <= Bound
  BY <1>1, DetachedContext
<1>3. p \in Numbers /\ p \in Nat /\ p <= Bound /\ original \in Numbers
  BY <1>2, NamedNumber, FrameStateAssumption DEF Numbers
<1>4. p <= cache.sender /\ (p = cache.sender \/ cache.sender <= Bound - 2)
  BY <1>1, <1>2, <1>3, FrameStateAssumption DEF Irreconcilable, Lower
<1>5. /\ r \in Recoveries /\ r.kind = "logon789" /\ r.phase = "prefix"
      /\ r.begin = original /\ r.end = p /\ r.cursor = original /\ r.peer = p
  BY <1>3, RecoveryType
<1>6. k \in Continuations
  BY <1>2, ContinuationType
<1>7. Prepare([StatePlan(s) EXCEPT !.told = TRUE])
  BY DEF HoldLogon
<1> HIDE DEF r, k
<1>8. /\ s \in NativeState /\ s.sender = cache.sender /\ s.rec = r
      /\ s.cont = k /\ s.count = 0 /\ s.attached = FALSE /\ s.closing = FALSE
  BY <1>2, <1>5, <1>6 DEF NativeState
<1> HIDE DEF s
<1>9. k = Resend(s.rec.cursor)
  BY <1>5, <1>8 DEF k
<1>10. ValidPrefix(s)
  BY <1>4, <1>5, <1>8, <1>9 DEF ValidPrefix
<1>11. ValidLogon789(s)
  BY <1>1, <1>3, <1>5, <1>8, <1>10 DEF ValidLogon789
<1>12. validRangeTriple(s.rec)
  BY <1>1, <1>2, <1>3, <1>5, <1>8 DEF validRangeTriple
<1>13. validNativeState(s)
  BY <1>8, <1>11, <1>12 DEF validNativeState
<1>14. PlanOK([StatePlan(s) EXCEPT !.told = TRUE])
  BY <1>2, <1>8, <1>13, StatePlanOK, ToldOK
<1>15. QED
  BY <1>7, <1>14, Offer

LEMMA AwaitResponseOK ==
    ASSUME NEW s \in NativeState, s.sender = cache.sender, s.closing = FALSE,
           NEW lowest \in Nat, lowest > 0, lowest < s.sender, s.sender <= Bound - 2
    PROVE  PlanOK(Issue(StatePlan(AwaitResponse(s, lowest)), <<"logon">>))
<1> DEFINE n == s.sender
           m == s.sender + 1
           r == Recovery("logon789", "response", n, m, n, lowest)
           a == AwaitResponse(s, lowest)
           b == [a EXCEPT !.sender = @ + 1]
           kinds == <<"logon">>
<1>1. s.sender \in Nat /\ s.sender > 0
  BY StateFields
<1>2. /\ n \in Numbers /\ m \in Numbers /\ lowest \in Numbers
      /\ s.sender + 1 \in 1 .. Bound /\ s.sender + 1 < Bound
  BY <1>1, FrameStateAssumption DEF Numbers
<1>3. a = [s EXCEPT !.attached = TRUE, !.count = 0, !.cont = NoContinuation, !.rec = r]
  BY DEF AwaitResponse
<1> HIDE DEF a, n, m
<1>4. /\ r \in Recoveries /\ r.kind = "logon789" /\ r.phase = "response"
      /\ r.begin = s.sender /\ r.end = s.sender + 1 /\ r.cursor = s.sender
      /\ r.peer = lowest
  <2>1. /\ r \in Recoveries /\ r.kind = "logon789" /\ r.phase = "response"
        /\ r.begin = n /\ r.end = m /\ r.cursor = n /\ r.peer = lowest
    BY <1>2, RecoveryType
  <2>2. QED
    BY <2>1 DEF n, m
<1> HIDE DEF r
<1>5. /\ a \in NativeState /\ a.sender = s.sender /\ a.rec = r
      /\ a.cont = NoContinuation /\ a.count = 0 /\ a.attached = TRUE /\ a.closing = FALSE
  BY <1>4, <1>3, ContinuationType DEF NativeState
<1>6. /\ b.sender = s.sender + 1 /\ b.rec = r
      /\ b.cont = NoContinuation /\ b.count = 0 /\ b.attached = TRUE /\ b.closing = FALSE
  BY <1>5 DEF NativeState
<1> HIDE DEF b
<1>7. validNativeState(b)
  <2>1. OneNumber(b)
    BY <1>4, <1>6 DEF OneNumber
  <2>2. ValidResponse(b)
    BY <1>4, <1>6, <2>1 DEF ValidResponse, AttachedNoContinuation
  <2>3. ValidLogon789(b)
    BY <1>2, <1>4, <1>6, <2>2 DEF ValidLogon789
  <2>4. validRangeTriple(b.rec)
    BY <1>1, <1>2, <1>4, <1>6, FrameStateAssumption DEF validRangeTriple
  <2>5. QED
    BY <1>6, <2>3, <2>4 DEF validNativeState
<1>8. kinds \in Seq(Kinds) /\ Len(kinds) = 1
  <2>1. "logon" \in Kinds
    BY DEF Kinds
  <2>2. QED
    BY <2>1, One
<1> HIDE DEF kinds
<1>9. validNativeState([a EXCEPT !.sender = @ + Len(kinds)])
  BY <1>7, <1>8 DEF b
<1>10. a.sender + Len(kinds) <= Bound
  BY <1>1, <1>2, <1>5, <1>8, FrameStateAssumption
<1>11. PlanOK(Issue(StatePlan(a), kinds))
  BY <1>5, <1>8, <1>9, <1>10, IssueOK
<1>12. QED
  BY <1>11 DEF a, kinds

LEMMA AcceptLogonKeeps ==
    ASSUME Inv, link = "up", InboundDetached, NEW p \in {0, want}, AcceptLogon(p)
    PROVE  Inv'
<1>1. CanPrepare /\ cache.rec = NoRecovery /\ cache.sender < Bound /\ ~Irreconcilable(p)
  BY DEF AcceptLogon, Prepare
<1>2. /\ cache \in NativeState /\ cache.attached = FALSE /\ cache.closing = FALSE
      /\ cache.sender \in Nat /\ cache.sender > 0 /\ IdleContinuation(cache)
  BY <1>1, DetachedContext
<1>3. p \in Nat /\ p <= Bound
  BY NamedNumber
<1>4. CASE Lower(p)
  <2> DEFINE q == Issue(StatePlan(AwaitResponse(cache, p)), <<"logon">>)
  <2>1. Prepare([q EXCEPT !.handed = cache.sender, !.told = TRUE, !.begins = cache.sender])
    BY <1>4 DEF AcceptLogon
  <2>2. p > 0 /\ p < cache.sender /\ cache.sender <= Bound - 2
    BY <1>1, <1>2, <1>3, <1>4, FrameStateAssumption DEF Irreconcilable, Lower
  <2>3. PlanOK(q)
    BY <1>2, <1>3, <2>2, AwaitResponseOK
  <2> HIDE DEF q
  <2>4. cache.sender \in Numbers
    BY <1>2, <2>2, FrameStateAssumption DEF Numbers
  <2>5. PlanOK([q EXCEPT !.handed = cache.sender, !.told = TRUE, !.begins = cache.sender])
    BY <2>3, <2>4, NotesOK
  <2>6. QED
    BY <2>1, <2>5, Offer
<1>5. CASE ~Lower(p)
  <2> DEFINE s == [cache EXCEPT !.attached = TRUE, !.count = 0]
             t == p # 0
             q == Issue(StatePlan(s), <<"logon">>)
  <2>1. Prepare([q EXCEPT !.told = t]) /\ t \in BOOLEAN
    BY <1>5 DEF AcceptLogon
  <2>2. /\ s \in NativeState /\ s.sender = cache.sender /\ s.rec = NoRecovery
        /\ s.cont = cache.cont /\ s.count = 0 /\ s.closing = FALSE
    BY <1>1, <1>2 DEF NativeState
  <2> HIDE DEF s, t
  <2>3. IdleContinuation(s) /\ "logon" \in Kinds
    BY <1>2, <2>2 DEF IdleContinuation, Kinds
  <2>4. PlanOK(q)
    BY <1>1, <2>2, <2>3, IssueAdmin
  <2> HIDE DEF q
  <2>5. PlanOK([q EXCEPT !.told = t])
    BY <2>1, <2>4, ToldOK
  <2>6. QED
    BY <2>1, <2>5, Offer
<1>6. QED
  BY <1>4, <1>5

LEMMA ReattachLogon789Keeps ==
    ASSUME Inv, link = "up", InboundDetached, NEW p \in {0, want}, ReattachLogon789(p)
    PROVE  Inv'
<1> DEFINE a == cache.rec.phase # "prefix"
           k == IF cache.rec.phase = "response" THEN NoContinuation ELSE Resend(cache.rec.cursor)
           s == [cache EXCEPT !.attached = a, !.count = 0, !.cont = k]
<1>1. CanPrepare /\ cache.rec.kind = "logon789" /\ Prepare(StatePlan(s))
  BY DEF ReattachLogon789, Prepare
<1>2. /\ cache \in NativeState /\ validNativeState(cache)
      /\ cache.attached = FALSE /\ cache.closing = FALSE
  BY <1>1, DetachedContext
<1>3. validRangeTriple(cache.rec) /\ ValidLogon789(cache)
  BY <1>1, <1>2, NoRecoveryType DEF validNativeState, ValidDirect
<1>4. cache.rec.cursor \in Nat
  BY <1>2, StateFields, RecoveryFields
<1>5. k \in Continuations /\ a \in BOOLEAN
  BY <1>4, ContinuationType
<1>6. /\ cache.rec.phase = "response" => k = NoContinuation
      /\ cache.rec.phase # "response" => k = Resend(cache.rec.cursor)
      /\ cache.rec.phase = "prefix" => ~a
      /\ cache.rec.phase # "prefix" => a
  OBVIOUS
<1> HIDE DEF k, a
<1>7. /\ s \in NativeState /\ s.sender = cache.sender /\ s.rec = cache.rec
      /\ s.cont = k /\ s.count = 0 /\ s.attached = a /\ s.closing = FALSE
  BY <1>2, <1>5 DEF NativeState
<1> HIDE DEF s
<1>8. ValidLogon789(s)
  BY <1>3, <1>6, <1>7 DEF ValidLogon789, ValidPrefix, ValidResponse, ValidStored, ValidFinal,
       OneNumber, DetachedState, AttachedResend, AttachedNoContinuation
<1>9. validNativeState(s)
  BY <1>3, <1>7, <1>8 DEF validNativeState
<1>10. PlanOK(StatePlan(s))
  BY <1>7, <1>9, StatePlanOK
<1>11. QED
  BY <1>1, <1>10, Offer

LEMMA DirectContext ==
    ASSUME NEW s \in NativeState, validNativeState(s), s.rec.kind = "direct"
    PROVE  /\ validRangeTriple(s.rec) /\ ValidDirect(s) /\ s.rec # NoRecovery
           /\ s.rec.phase = "stored" /\ s.rec.peer = 0
           /\ s.count = 0 /\ ~s.closing
           /\ s.rec.begin \in Nat /\ s.rec.cursor \in Nat /\ s.rec.end \in Nat
<1>1. s.rec # NoRecovery
  BY NoRecoveryType
<1>2. /\ validRangeTriple(s.rec) /\ s.count = 0 /\ ~s.closing
      /\ ValidDirect(s) \/ ValidLogon789(s)
  BY <1>1 DEF validNativeState
<1>3. ValidDirect(s)
  BY <1>2 DEF ValidLogon789
<1>4. s.rec.begin \in Nat /\ s.rec.cursor \in Nat /\ s.rec.end \in Nat
  BY StateFields, RecoveryFields
<1>5. QED
  BY <1>1, <1>2, <1>3, <1>4 DEF ValidDirect

LEMMA ReattachedFields ==
    ASSUME NEW p \in Nat, cache \in NativeState, validNativeState(cache),
           cache.rec.kind = "direct", p = 0 \/ p >= cache.rec.begin
    PROVE  /\ Reattached(p) \in NativeState /\ Reattached(p).sender = cache.sender
           /\ Reattached(p).attached = TRUE /\ Reattached(p).closing = cache.closing
           /\ Reattached(p).count = 0 /\ Reattached(p).cont = NoContinuation
           /\ validRangeTriple(Reattached(p).rec)
           /\ Reattached(p).rec.kind = "direct" /\ Reattached(p).rec.phase = "stored"
           /\ Reattached(p).rec.peer = 0
<1> DEFINE c == IF p # 0 /\ p < original /\ p < cache.rec.cursor THEN p ELSE cache.rec.cursor
           r == [cache.rec EXCEPT !.cursor = c]
           s == Reattached(p)
<1>1. /\ validRangeTriple(cache.rec)
      /\ cache.rec.phase = "stored" /\ cache.rec.peer = 0
      /\ cache.rec.begin \in Nat /\ cache.rec.cursor \in Nat /\ cache.rec.end \in Nat
  BY DirectContext
<1>2. cache.rec \in Recoveries
  BY StateFields
<1>3. c \in Nat /\ cache.rec.begin <= c /\ c <= cache.rec.cursor
  BY <1>1 DEF validRangeTriple
<1>4. s = [cache EXCEPT !.attached = TRUE, !.count = 0, !.cont = NoContinuation, !.rec = r]
  BY <1>2 DEF Reattached, NativeState, Recoveries
<1> HIDE DEF c, s
<1>5. c \in Numbers
  BY <1>2, <1>3, RecoveryFields, FrameStateAssumption DEF Numbers
<1>6. /\ r \in Recoveries /\ r.kind = "direct" /\ r.phase = "stored" /\ r.peer = 0
      /\ r.begin = cache.rec.begin /\ r.end = cache.rec.end /\ r.cursor = c
  BY <1>1, <1>2, <1>5 DEF Recoveries
<1> HIDE DEF r
<1>7. /\ s \in NativeState /\ s.sender = cache.sender /\ s.attached = TRUE
      /\ s.closing = cache.closing /\ s.count = 0 /\ s.cont = NoContinuation /\ s.rec = r
  BY <1>4, <1>6, ContinuationType DEF NativeState
<1>8. validRangeTriple(r)
  BY <1>1, <1>3, <1>6 DEF validRangeTriple
<1>9. QED
  BY <1>6, <1>7, <1>8 DEF s

LEMMA ReattachDirectKeeps ==
    ASSUME Inv, link = "up", InboundDetached, NEW p \in {0, want}, ReattachDirect(p)
    PROVE  Inv'
<1> DEFINE s == Reattached(p)
           kinds == <<"logon">>
           u == [s EXCEPT !.sender = @ + 1]
           q == Issue(StatePlan(s), kinds)
           t == p # 0
<1>1. CanPrepare /\ cache.rec.kind = "direct" /\ InitialResponse(p)
  BY DEF ReattachDirect, Prepare
<1>2. Prepare([q EXCEPT !.told = t]) /\ t \in BOOLEAN
  BY DEF ReattachDirect
<1>3. /\ cache \in NativeState /\ validNativeState(cache) /\ cache.closing = FALSE
      /\ cache.sender \in Nat /\ cache.sender > 0
  BY <1>1, DetachedContext
<1>4. p \in Nat /\ (p = 0 \/ p >= cache.rec.begin) /\ cache.sender < Bound
  BY <1>1, <1>3, NamedNumber, DirectContext DEF InitialResponse
<1>5. /\ s \in NativeState /\ s.sender = cache.sender
      /\ s.attached = TRUE /\ s.closing = FALSE
      /\ s.count = 0 /\ s.cont = NoContinuation /\ validRangeTriple(s.rec)
      /\ s.rec.kind = "direct" /\ s.rec.phase = "stored" /\ s.rec.peer = 0
  BY <1>1, <1>3, <1>4, ReattachedFields
<1> HIDE DEF s, t
<1>6. /\ u.sender = s.sender + 1 /\ u.attached = TRUE /\ u.closing = FALSE
      /\ u.count = 0 /\ u.cont = NoContinuation /\ u.rec = s.rec
  BY <1>5 DEF NativeState
<1> HIDE DEF u
<1>7. u.sender > 1
  BY <1>3, <1>5, <1>6
<1>8. validNativeState(u)
  BY <1>5, <1>6, <1>7 DEF validNativeState, ValidDirect, AttachedNoContinuation
<1>9. kinds \in Seq(Kinds) /\ Len(kinds) = 1
  <2>1. "logon" \in Kinds
    BY DEF Kinds
  <2>2. QED
    BY <2>1, One
<1> HIDE DEF kinds
<1>10. validNativeState([s EXCEPT !.sender = @ + Len(kinds)])
  BY <1>8, <1>9 DEF u
<1>11. s.sender + Len(kinds) <= Bound
  BY <1>3, <1>4, <1>5, <1>9, FrameStateAssumption
<1>12. PlanOK(q)
  BY <1>5, <1>9, <1>10, <1>11, IssueOK
<1> HIDE DEF q
<1>13. PlanOK([q EXCEPT !.told = t])
  BY <1>2, <1>12, ToldOK
<1>14. QED
  BY <1>2, <1>13, Offer

LEMMA ReattachLostKeeps ==
    ASSUME Inv, link = "up", InboundDetached, NEW p \in {0, want}, ReattachLost(p)
    PROVE  Inv'
<1> DEFINE s == Reattached(p)
           a == cache.sender - 1
           b == cache.sender
           q == StatePlan(s)
           u == [q EXCEPT !.status = "store", !.told = TRUE, !.from = a, !.to = b]
<1>1. CanPrepare /\ cache.rec.kind = "direct" /\ LostResponse(p) /\ Prepare(u)
  BY DEF ReattachLost, Prepare
<1>2. /\ cache \in NativeState /\ validNativeState(cache) /\ cache.closing = FALSE
      /\ cache.sender \in Nat /\ cache.sender <= Bound
  BY <1>1, DetachedContext
<1>3. p \in Nat /\ p >= cache.rec.begin /\ cache.sender > 1
  BY <1>1, <1>2, NamedNumber, DirectContext DEF LostResponse
<1>4. /\ s \in NativeState /\ s.sender = cache.sender
      /\ s.attached = TRUE /\ s.closing = FALSE
      /\ s.count = 0 /\ s.cont = NoContinuation /\ validRangeTriple(s.rec)
      /\ s.rec.kind = "direct" /\ s.rec.phase = "stored" /\ s.rec.peer = 0
  BY <1>1, <1>2, <1>3, ReattachedFields
<1>5. a \in Numbers /\ b \in Numbers
  BY <1>2, <1>3, FrameStateAssumption DEF Numbers
<1> HIDE DEF s, a, b
<1>6. validNativeState(s)
  BY <1>3, <1>4 DEF validNativeState, ValidDirect, AttachedNoContinuation
<1>7. PlanOK(q) /\ q.state = s /\ q.fresh = <<>>
  BY <1>4, <1>6, StatePlanOK, StatePlanType
<1> HIDE DEF q
<1>8. s.cont.kind # "resend"
  BY <1>4, ContinuationType
<1>9. PlanOK(u)
  BY <1>5, <1>7, <1>8 DEF PlanOK, ClosingOK, StoreOK, Plans
<1>10. QED
  BY <1>1, <1>9, Offer

LEMMA RefuseReattachKeeps ==
    ASSUME Inv, link = "up", InboundDetached, NEW p \in {0, want}, RefuseReattach(p)
    PROVE  Inv'
<1> DEFINE s == [cache EXCEPT !.count = 0, !.cont = NoContinuation]
           t == p # 0
           q == Dropping(s)
<1>1. CanPrepare /\ cache.rec.kind = "direct"
  BY DEF RefuseReattach, Prepare
<1>2. Prepare([q EXCEPT !.told = t]) /\ t \in BOOLEAN
  BY DEF RefuseReattach
<1>3. /\ cache \in NativeState /\ validNativeState(cache)
      /\ cache.attached = FALSE /\ cache.closing = FALSE
  BY <1>1, DetachedContext
<1>4. /\ s \in NativeState /\ s.sender = cache.sender /\ s.rec = cache.rec
      /\ s.count = 0 /\ s.cont = NoContinuation
      /\ s.attached = FALSE /\ s.closing = FALSE
  BY <1>3, ContinuationType DEF NativeState
<1> HIDE DEF s, t
<1>5. validRangeTriple(s.rec) /\ s.rec.phase = "stored" /\ s.rec.peer = 0
  BY <1>1, <1>3, <1>4, DirectContext
<1>6. validNativeState(s)
  BY <1>1, <1>4, <1>5 DEF validNativeState, ValidDirect, DetachedState
<1>7. PlanOK(q)
  BY <1>4, <1>6, DropOK
<1> HIDE DEF q
<1>8. PlanOK([q EXCEPT !.told = t])
  BY <1>2, <1>7, ToldOK
<1>9. QED
  BY <1>2, <1>8, Offer

LEMMA LogonKeeps == Inv /\ Logon => Inv'
<1> SUFFICES ASSUME Inv, Logon PROVE Inv'
  OBVIOUS
<1>1. PICK p \in {0, want} :
         \/ ReconcileLogon(p) \/ HoldLogon(p) \/ AcceptLogon(p)
         \/ ReattachLogon789(p)
         \/ ReattachDirect(p) \/ ReattachLost(p) \/ RefuseReattach(p)
  BY DEF Logon
<1>2. link = "up" /\ InboundDetached
  BY DEF Logon
<1>3. QED
  BY <1>1, <1>2, ReconcileLogonKeeps, HoldLogonKeeps, AcceptLogonKeeps,
     ReattachLogon789Keeps, ReattachDirectKeeps, ReattachLostKeeps, RefuseReattachKeeps

LEMMA AdminLogonKeeps == Inv /\ AdminLogon => Inv'
<1> SUFFICES ASSUME Inv, AdminLogon PROVE Inv'
  OBVIOUS
<1> DEFINE s == [cache EXCEPT !.attached = TRUE, !.count = 0]
           q == Issue(StatePlan(s), <<"logon">>)
<1>1. /\ CanPrepare /\ link = "up" /\ Prepare(q) /\ InboundDetached
      /\ cache.rec = NoRecovery /\ cache.sender < Bound
  BY DEF AdminLogon, Request, Prepare, InboundDetached
<1>2. /\ cache \in NativeState /\ cache.closing = FALSE /\ IdleContinuation(cache)
  BY <1>1, DetachedContext
<1>3. /\ s \in NativeState /\ s.sender = cache.sender /\ s.rec = NoRecovery
      /\ s.cont = cache.cont /\ s.count = 0 /\ s.closing = FALSE
  BY <1>1, <1>2 DEF NativeState
<1> HIDE DEF s
<1>4. IdleContinuation(s) /\ "logon" \in Kinds
  BY <1>2, <1>3 DEF IdleContinuation, Kinds
<1>5. PlanOK(q)
  BY <1>1, <1>3, <1>4, IssueAdmin
<1>6. QED
  BY <1>1, <1>5, Offer

-----------------------------------------------------------------------------
(* A ResendRequest, and the steps of a recovery.                           *)

LEMMA ResendRequestKeeps == Inv /\ ResendRequest => Inv'
<1> SUFFICES ASSUME Inv, ResendRequest PROVE Inv'
  OBVIOUS
<1>1. PICK e \in {0} \union want .. cache.sender - 1 :
         LET end == IF e = 0 THEN cache.sender ELSE e + 1
         IN  /\ want <= end
             /\ Request([IF cache.cont = NoContinuation THEN ResendBegins(end)
                         ELSE ResendFilled(end) EXCEPT !.told = TRUE])
  BY DEF ResendRequest
<1> DEFINE end == IF e = 0 THEN cache.sender ELSE e + 1
           s == [cache EXCEPT !.count = 0]
           q == IF cache.cont = NoContinuation THEN ResendBegins(end) ELSE ResendFilled(end)
<1>2. want <= end /\ Request([q EXCEPT !.told = TRUE])
  BY <1>1
<1>3. /\ CanPrepare /\ link = "up" /\ Prepare([q EXCEPT !.told = TRUE])
      /\ cache.attached /\ cache.rec = NoRecovery
  BY <1>2 DEF Request, Prepare, ResendRequest, attachedForAdmin
<1>4. /\ cache \in NativeState /\ validNativeState(cache) /\ ~cache.closing
      /\ cache.attached = TRUE /\ cache.closing = FALSE
      /\ cache.sender \in 1 .. Bound /\ want \in 1 .. Bound
  BY <1>3, Context, StateFields
<1>5. end \in Nat /\ want \in Nat /\ want > 0 /\ end <= Bound
  BY <1>4, FrameStateAssumption
<1>6. /\ s \in NativeState /\ s.sender = cache.sender /\ s.rec = NoRecovery
      /\ s.cont = cache.cont /\ s.count = 0 /\ s.closing = FALSE
  BY <1>3, <1>4 DEF NativeState
<1>7. q = IF cache.cont = NoContinuation THEN ResendBegins(end) ELSE ResendFilled(end)
  OBVIOUS
<1> HIDE DEF end, s, q
<1>8. IdleContinuation(s)
  BY <1>3, <1>4, <1>6, IdleContext DEF IdleContinuation
<1>9. PlanOK(StatePlan(s)) /\ StatePlan(s).status = "ready"
  <2>1. validNativeState(s)
    BY <1>6, <1>8 DEF validNativeState, IdleContinuation
  <2>2. QED
    BY <1>6, <2>1, StatePlanOK, StatePlanType
<1>10. want \in Numbers /\ end \in Numbers /\ 0 \in Numbers
  BY <1>2, <1>5, FrameStateAssumption DEF Numbers
<1>11. CASE cache.cont # NoContinuation
  <2> DEFINE f == want .. end - 1
  <2>1. f \in SUBSET Numbers
    BY <1>5, FrameStateAssumption DEF Numbers
  <2>2. q = [StatePlan(s) EXCEPT !.from = want, !.to = end, !.filled = f]
    BY <1>7, <1>11 DEF ResendFilled, s
  <2> HIDE DEF f
  <2>3. PlanOK(q)
    BY <1>9, <1>10, <2>1, <2>2, RangeOK
  <2>4. QED
    BY <1>3, <2>3, ToldOK, Offer
<1>12. CASE cache.cont = NoContinuation /\ want = end
  <2>1. q = StatePlan(s)
    BY <1>7, <1>12 DEF ResendBegins, s
  <2>2. QED
    BY <1>3, <1>9, <2>1, ToldOK, Offer
<1>13. CASE cache.cont = NoContinuation /\ want # end
  <2> DEFINE r == Recovery("direct", "stored", want, end, want, 0)
             k == Resend(want)
             u == [cache EXCEPT !.count = 0, !.rec = r, !.cont = k]
  <2>1. q = StatePlan(u)
    BY <1>7, <1>13 DEF ResendBegins
  <2>2. /\ r \in Recoveries /\ r.kind = "direct" /\ r.phase = "stored"
        /\ r.begin = want /\ r.end = end /\ r.cursor = want /\ r.peer = 0
    BY <1>10, RecoveryType
  <2>3. k \in Continuations
    BY <1>5, ContinuationType
  <2> HIDE DEF r, k
  <2>4. /\ u \in NativeState /\ u.sender = cache.sender /\ u.rec = r
        /\ u.cont = k /\ u.count = 0 /\ u.closing = FALSE /\ u.attached = TRUE
    BY <1>4, <2>2, <2>3 DEF NativeState
  <2> HIDE DEF u
  <2>5. k = Resend(u.rec.cursor)
    BY <2>2, <2>4 DEF k
  <2>6. validRangeTriple(u.rec)
    BY <1>2, <1>5, <1>13, <2>2, <2>4 DEF validRangeTriple
  <2>7. validNativeState(u)
    BY <2>2, <2>4, <2>5, <2>6 DEF validNativeState, ValidDirect, AttachedResend
  <2>8. PlanOK(q)
    BY <2>1, <2>4, <2>7, StatePlanOK
  <2>9. QED
    BY <1>3, <2>8, ToldOK, Offer
<1>14. QED
  BY <1>11, <1>12, <1>13

LEMMA PassBarrierKeeps == Inv /\ PassBarrier => Inv'
<1> SUFFICES ASSUME Inv, PassBarrier PROVE Inv'
  OBVIOUS
<1> DEFINE k == Resend(cache.rec.cursor)
           s == [cache EXCEPT !.cont = k]
<1>1. /\ CanPrepare /\ link = "up" /\ Prepare(StatePlan(s))
      /\ cache.attached /\ cache.rec.kind = "direct"
  BY DEF PassBarrier, Request, Prepare
<1>2. /\ cache \in NativeState /\ validNativeState(cache) /\ ~cache.closing
  BY <1>1, Context
<1>3. /\ validRangeTriple(cache.rec) /\ cache.rec.phase = "stored" /\ cache.rec.peer = 0
      /\ cache.count = 0 /\ cache.rec.cursor \in Nat
  BY <1>1, <1>2, DirectContext
<1>4. k \in Continuations
  BY <1>3, ContinuationType
<1> HIDE DEF k
<1>5. /\ s \in NativeState /\ s.sender = cache.sender /\ s.rec = cache.rec /\ s.cont = k
      /\ s.count = cache.count /\ s.attached = cache.attached /\ s.closing = cache.closing
  BY <1>2, <1>4, BlockType
<1> HIDE DEF s
<1>6. validNativeState(s)
  BY <1>1, <1>2, <1>3, <1>5 DEF validNativeState, ValidDirect, AttachedResend, k
<1>7. QED
  <2>1. PlanOK(StatePlan(s))
    BY <1>2, <1>5, <1>6, StatePlanOK
  <2>2. QED
    BY <1>1, <2>1, Offer

LEMMA PageOK ==
    ASSUME NEW s \in NativeState, validNativeState(s), s.sender = cache.sender, ~s.closing,
           s.rec.phase \in {"stored", "final"}
    PROVE  PlanOK(Page(StatePlan(s), s.rec.cursor))
<1> DEFINE p == StatePlan(s)
           c == s.rec.cursor
           to == IF s.rec.end < c + MaxPage THEN s.rec.end ELSE c + MaxPage
           q == Page(p, c)
<1>1. c \in Nat /\ s.rec.end \in Nat /\ c <= Bound /\ s.rec.end <= Bound
  BY StateFields, RecoveryFields
<1>2. to \in Numbers /\ c \in Numbers /\ to <= s.rec.end
  BY <1>1, FrameStateAssumption DEF Numbers
<1>3. PlanOK(p) /\ p.state = s /\ p.fresh = <<>>
  BY StatePlanOK, StatePlanType
<1>4. q = [p EXCEPT !.status = "store", !.from = c, !.to = to]
  BY <1>3 DEF Page
<1> HIDE DEF p, to, q
<1>5. /\ q \in Plans /\ q.status = "store" /\ q.from = c /\ q.to = to /\ q.state = s
      /\ q.fresh = <<>> /\ q.drop = p.drop /\ q.closes = p.closes
  BY <1>2, <1>3, <1>4 DEF PlanOK, Plans
<1>6. PlanOK(q)
  BY <1>2, <1>3, <1>5 DEF PlanOK, ClosingOK, StoreOK
<1>7. QED
  BY <1>6 DEF p, q

LEMMA NextPageKeeps == Inv /\ NextPage => Inv'
<1> SUFFICES ASSUME Inv, NextPage PROVE Inv'
  OBVIOUS
<1>1. /\ CanPrepare /\ link = "up" /\ cache.rec.phase \in {"stored", "final"}
      /\ Prepare(Page(StatePlan(cache), cache.rec.cursor))
  BY DEF NextPage, Request, Prepare
<1>2. PlanOK(Page(StatePlan(cache), cache.rec.cursor))
  BY <1>1, Context, PageOK
<1>3. QED
  BY <1>1, <1>2, Offer

LEMMA PrefixContext ==
    ASSUME NEW s \in NativeState, validNativeState(s), s.rec.phase = "prefix"
    PROVE  /\ validRangeTriple(s.rec) /\ ValidLogon789(s) /\ ValidPrefix(s)
           /\ s.rec.kind = "logon789" /\ s.count = 0 /\ s.closing = FALSE /\ ~s.attached
           /\ s.rec.begin \in Nat /\ s.rec.cursor \in Nat /\ s.rec.end \in Nat
           /\ s.rec.peer \in Nat /\ s.rec.peer > 0 /\ s.sender \in Nat /\ s.sender < Bound
<1>1. s.rec # NoRecovery
  BY NoRecoveryType
<1>2. /\ validRangeTriple(s.rec) /\ s.count = 0 /\ ~s.closing
      /\ ValidDirect(s) \/ ValidLogon789(s)
  BY <1>1 DEF validNativeState
<1>3. ValidLogon789(s) /\ ValidPrefix(s)
  BY <1>2 DEF ValidLogon789, ValidDirect, ValidResponse, ValidStored, ValidFinal
<1>4. /\ s.rec.begin \in Nat /\ s.rec.cursor \in Nat /\ s.rec.end \in Nat
      /\ s.rec.peer \in Nat /\ s.sender \in Nat /\ s.closing \in BOOLEAN
  BY StateFields, RecoveryFields
<1>5. QED
  BY <1>2, <1>3, <1>4 DEF ValidLogon789, ValidPrefix

LEMMA ConfirmPrefixKeeps == Inv /\ ConfirmPrefix => Inv'
<1> SUFFICES ASSUME Inv, ConfirmPrefix PROVE Inv'
  OBVIOUS
<1>1. PICK o \in cache.rec.cursor + 1 .. cache.rec.end :
          \/ /\ o < cache.rec.end
             /\ Request([StatePlan([cache EXCEPT !.rec.cursor = o, !.cont = Resend(o)])
                            EXCEPT !.handed = o])
          \/ /\ o = cache.rec.end /\ o = cache.sender
             /\ Request([Issue(StatePlan([cache EXCEPT !.attached = TRUE,
                                             !.rec = NoRecovery, !.cont = NoContinuation]),
                               <<"logon">>) EXCEPT !.handed = o])
          \/ /\ o = cache.rec.end /\ o # cache.sender
             /\ Request([Issue(StatePlan(AwaitResponse(cache, cache.rec.peer)), <<"logon">>)
                            EXCEPT !.handed = cache.sender, !.begins = cache.sender])
  BY DEF ConfirmPrefix
<1>2. CanPrepare /\ link = "up" /\ cache.rec.phase = "prefix"
  BY <1>1 DEF Request, Prepare, ConfirmPrefix
<1>3. /\ cache \in NativeState /\ validNativeState(cache)
  BY <1>2, Context
<1>4. /\ validRangeTriple(cache.rec) /\ ValidLogon789(cache) /\ ValidPrefix(cache)
      /\ cache.rec.kind = "logon789"
      /\ cache.count = 0 /\ cache.closing = FALSE /\ ~cache.attached
      /\ cache.rec.begin \in Nat /\ cache.rec.cursor \in Nat /\ cache.rec.end \in Nat
      /\ cache.rec.peer \in Nat /\ cache.rec.peer > 0
      /\ cache.sender \in Nat /\ cache.sender < Bound
  BY <1>2, <1>3, PrefixContext
<1>5. /\ o \in Nat /\ o \in Numbers /\ cache.sender \in Numbers
      /\ cache.rec.begin <= o /\ o > 0
  BY <1>4, FrameStateAssumption DEF Numbers, validRangeTriple
<1>6. ASSUME o < cache.rec.end,
             Request([StatePlan([cache EXCEPT !.rec.cursor = o, !.cont = Resend(o)])
                         EXCEPT !.handed = o])
      PROVE  Inv'
  <2> DEFINE r == [cache.rec EXCEPT !.cursor = o]
             k == Resend(o)
             s == [cache EXCEPT !.rec = r, !.cont = k]
  <2>1. cache.rec \in Recoveries
    BY <1>3, StateFields
  <2>2. [cache EXCEPT !.rec.cursor = o, !.cont = Resend(o)] = s
    BY <1>3, <2>1 DEF NativeState, Recoveries
  <2>3. /\ r \in Recoveries /\ r.kind = "logon789" /\ r.phase = "prefix"
        /\ r.begin = cache.rec.begin /\ r.end = cache.rec.end /\ r.cursor = o
        /\ r.peer = cache.rec.peer
    BY <1>2, <1>4, <1>5, <2>1 DEF Recoveries
  <2>4. k \in Continuations
    BY <1>5, ContinuationType
  <2> HIDE DEF r, k
  <2>5. /\ s \in NativeState /\ s.sender = cache.sender /\ s.rec = r /\ s.cont = k
        /\ s.count = 0 /\ s.attached = cache.attached /\ s.closing = FALSE
    BY <1>3, <1>4, <2>3, <2>4 DEF NativeState
  <2>6. Prepare([StatePlan(s) EXCEPT !.handed = o])
    BY <1>6, <2>2 DEF Request
  <2> HIDE DEF s
  <2>7. ValidPrefix(s)
    BY <1>4, <2>3, <2>5 DEF ValidPrefix, k
  <2>8. ValidLogon789(s)
    BY <1>4, <2>3, <2>5, <2>7 DEF ValidLogon789
  <2>9. validRangeTriple(s.rec)
    BY <1>4, <1>5, <1>6, <2>3, <2>5 DEF validRangeTriple
  <2>10. validNativeState(s)
    BY <2>5, <2>8, <2>9 DEF validNativeState
  <2>11. PlanOK(StatePlan(s))
    BY <2>5, <2>10, StatePlanOK
  <2>12. PlanOK([StatePlan(s) EXCEPT !.handed = o])
    BY <1>5, <2>11, NotesOK
  <2>13. QED
    BY <1>2, <2>6, <2>12, Offer
<1>7. ASSUME Request([Issue(StatePlan([cache EXCEPT !.attached = TRUE,
                                          !.rec = NoRecovery, !.cont = NoContinuation]),
                            <<"logon">>) EXCEPT !.handed = o])
      PROVE  Inv'
  <2> DEFINE s == [cache EXCEPT !.attached = TRUE, !.rec = NoRecovery, !.cont = NoContinuation]
             q == Issue(StatePlan(s), <<"logon">>)
  <2>1. Prepare([q EXCEPT !.handed = o])
    BY <1>7 DEF Request
  <2>2. /\ s \in NativeState /\ s.sender = cache.sender /\ s.rec = NoRecovery
        /\ s.cont = NoContinuation /\ s.count = 0 /\ s.closing = FALSE
    BY <1>3, <1>4, NoRecoveryType, ContinuationType DEF NativeState
  <2> HIDE DEF s
  <2>3. IdleContinuation(s) /\ "logon" \in Kinds
    BY <2>2 DEF IdleContinuation, Kinds
  <2>4. PlanOK(q)
    BY <1>4, <2>2, <2>3, IssueAdmin
  <2> HIDE DEF q
  <2>5. PlanOK([q EXCEPT !.handed = o])
    BY <1>5, <2>4, NotesOK
  <2>6. QED
    BY <1>2, <2>1, <2>5, Offer
<1>8. ASSUME o = cache.rec.end, o # cache.sender,
             Request([Issue(StatePlan(AwaitResponse(cache, cache.rec.peer)), <<"logon">>)
                         EXCEPT !.handed = cache.sender, !.begins = cache.sender])
      PROVE  Inv'
  <2> DEFINE q == Issue(StatePlan(AwaitResponse(cache, cache.rec.peer)), <<"logon">>)
  <2>1. Prepare([q EXCEPT !.handed = cache.sender, !.begins = cache.sender])
    BY <1>8 DEF Request
  <2>2. cache.rec.peer < cache.sender /\ cache.sender <= Bound - 2
    BY <1>4, <1>8 DEF ValidPrefix
  <2>3. PlanOK(q)
    BY <1>3, <1>4, <2>2, AwaitResponseOK
  <2> HIDE DEF q
  <2>4. PlanOK([q EXCEPT !.handed = cache.sender, !.begins = cache.sender])
    BY <1>5, <2>3, NotesOK
  <2>5. QED
    BY <1>2, <2>1, <2>4, Offer
<1>9. QED
  BY <1>1, <1>6, <1>7, <1>8

LEMMA RangeAfterResponseKeeps == Inv /\ RangeAfterResponse => Inv'
<1> SUFFICES ASSUME Inv, RangeAfterResponse PROVE Inv'
  OBVIOUS
<1> DEFINE lowest == cache.rec.peer
           end == cache.rec.begin
           r == Recovery("logon789", "stored", lowest, end, lowest, lowest)
           k == Resend(lowest)
           s == [cache EXCEPT !.rec = r, !.cont = k]
<1>1. /\ CanPrepare /\ link = "up" /\ cache.rec.phase = "response" /\ cache.attached
      /\ Prepare(Page(StatePlan(s), lowest))
  BY DEF RangeAfterResponse, Request, Prepare
<1>2. cache \in NativeState /\ validNativeState(cache)
  BY <1>1, Context
<1>3. /\ cache.rec # NoRecovery /\ cache.rec \in Recoveries
  BY <1>1, <1>2, NoRecoveryType, StateFields
<1>4. /\ cache.count = 0 /\ ~cache.closing
      /\ ValidDirect(cache) \/ ValidLogon789(cache)
  BY <1>2, <1>3 DEF validNativeState
<1>5. cache.rec.peer > 0 /\ cache.sender < Bound /\ OneNumber(cache)
  BY <1>1, <1>4 DEF ValidLogon789, ValidDirect, ValidPrefix, ValidResponse, ValidStored, ValidFinal
<1>6. /\ lowest \in Nat /\ end \in Nat /\ cache.sender \in Nat
      /\ lowest < end /\ end <= Bound - 2 /\ end + 1 = cache.sender
  BY <1>2, <1>3, <1>5, StateFields, RecoveryFields DEF OneNumber
<1>7. lowest \in Numbers /\ end \in Numbers
  BY <1>3 DEF Recoveries
<1> HIDE DEF lowest, end
<1>8. /\ r \in Recoveries /\ r.kind = "logon789" /\ r.phase = "stored"
      /\ r.begin = lowest /\ r.end = end /\ r.cursor = lowest /\ r.peer = lowest
  BY <1>7, RecoveryType
<1>9. k \in Continuations
  BY <1>6, ContinuationType
<1> HIDE DEF r, k
<1>10. /\ s \in NativeState /\ s.sender = cache.sender /\ s.rec = r /\ s.cont = k
       /\ s.count = cache.count /\ s.attached = cache.attached /\ s.closing = cache.closing
  BY <1>2, <1>8, <1>9 DEF NativeState
<1> HIDE DEF s
<1>11. ValidStored(s)
  BY <1>1, <1>6, <1>8, <1>10 DEF ValidStored, AttachedResend, k
<1>12. ValidLogon789(s)
  BY <1>5, <1>8, <1>10, <1>11 DEF ValidLogon789, lowest
<1>13. validRangeTriple(s.rec)
  BY <1>5, <1>6, <1>8, <1>10, FrameStateAssumption DEF validRangeTriple, lowest
<1>14. validNativeState(s)
  BY <1>4, <1>10, <1>12, <1>13 DEF validNativeState
<1>15. PlanOK(Page(StatePlan(s), s.rec.cursor))
  BY <1>4, <1>8, <1>10, <1>14, PageOK
<1>16. s.rec.cursor = lowest
  BY <1>8, <1>10
<1>17. QED
  BY <1>1, <1>15, <1>16, Offer

-----------------------------------------------------------------------------
(* Rows of the store arrive.                                               *)

LEMMA Pending ==
    ASSUME Inv, plan.status \in {"ready", "store", "committed"}
    PROVE  plan \in Plans /\ plan.state \in NativeState /\ handle = "live"
  BY DEF Inv, TypeOK, NoPlan, Agreed, Plans

(* A plan that waited for rows becomes one to commit.                      *)
LEMMA Replan ==
    ASSUME Inv, plan.status = "store", NEW q \in Plans, q.status = "ready",
           q.state.sender = plan.state.sender, q.fresh = plan.fresh,
           validNativeState(q.state), ClosingOK(q), Describe(q),
           UNCHANGED <<host, peer, cache, lost, stops>>
    PROVE  Inv'
<1>1. plan' = q /\ handle' = handle
  BY DEF Describe
<1>2. handle = "live"
  BY Pending
<1>3. TypeOK'
  BY <1>1 DEF Inv, TypeOK, host, peer
<1>4. validNativeState(durable)'
  BY DEF Inv, host
<1>5. Agreed'
  BY <1>1, <1>2 DEF Inv, Agreed, host, peer
<1>6. PendingOK'
  BY <1>1 DEF Inv, PendingOK, ClosingOK, StoreOK, host, peer
<1>7. QED
  BY <1>3, <1>4, <1>5, <1>6 DEF Inv

LEMMA PageContext ==
    ASSUME NEW s \in NativeState, validNativeState(s), s.cont.kind = "resend",
           s.rec.phase \in {"stored", "final"}
    PROVE  /\ validRangeTriple(s.rec) /\ s.rec \in Recoveries /\ s.count = 0
           /\ s.closing = FALSE /\ s.attached = TRUE
           /\ s.rec.begin \in Nat /\ s.rec.cursor \in Nat /\ s.rec.end \in Nat
           /\ s.rec.peer \in Nat /\ s.sender \in Nat
           /\ ValidDirect(s) \/ ValidLogon789(s)
<1>1. s.rec # NoRecovery
  BY NoRecoveryType
<1>2. /\ validRangeTriple(s.rec) /\ s.count = 0 /\ ~s.closing
      /\ ValidDirect(s) \/ ValidLogon789(s)
  BY <1>1 DEF validNativeState
<1>3. s.attached
  <2>1. s.cont # NoContinuation
    BY ContinuationType
  <2>2. QED
    BY <1>2, <2>1 DEF ValidDirect, ValidLogon789, ValidPrefix, ValidResponse, ValidStored,
         ValidFinal, DetachedState, AttachedResend, AttachedNoContinuation
<1>4. QED
  BY <1>2, <1>3, StateFields, RecoveryFields

LEMMA ResumedValid ==
    ASSUME NEW s \in NativeState, validNativeState(s), s.cont.kind = "resend",
           s.rec.phase \in {"stored", "final"},
           NEW n \in s.rec.cursor + 1 .. s.rec.end
    PROVE  /\ Resumed(s, n) \in NativeState /\ validNativeState(Resumed(s, n))
           /\ Resumed(s, n).sender = s.sender /\ Resumed(s, n).closing = FALSE
<1>1. /\ validRangeTriple(s.rec) /\ s.rec \in Recoveries /\ s.count = 0
      /\ s.closing = FALSE /\ s.attached = TRUE
      /\ s.rec.begin \in Nat /\ s.rec.cursor \in Nat /\ s.rec.end \in Nat
      /\ s.rec.peer \in Nat /\ s.sender \in Nat
      /\ ValidDirect(s) \/ ValidLogon789(s)
  BY PageContext
<1>2. n \in Nat /\ n \in Numbers /\ n <= s.rec.end /\ s.rec.begin <= n
  BY <1>1, FrameStateAssumption DEF validRangeTriple, Numbers
<1>3. ASSUME n # s.rec.end
      PROVE  /\ Resumed(s, n) \in NativeState /\ validNativeState(Resumed(s, n))
             /\ Resumed(s, n).sender = s.sender /\ Resumed(s, n).closing = FALSE
  <2> DEFINE r == [s.rec EXCEPT !.cursor = n]
             k == Resend(n)
             u == Resumed(s, n)
  <2>1. u = [s EXCEPT !.rec = r, !.cont = k]
    BY <1>1, <1>3 DEF Resumed, NativeState, Recoveries
  <2>2. /\ r \in Recoveries /\ r.kind = s.rec.kind /\ r.phase = s.rec.phase
        /\ r.begin = s.rec.begin /\ r.end = s.rec.end /\ r.cursor = n
        /\ r.peer = s.rec.peer
    BY <1>1, <1>2 DEF Recoveries
  <2>3. k \in Continuations
    BY <1>2, ContinuationType
  <2> HIDE DEF r, k, u
  <2>4. /\ u \in NativeState /\ u.sender = s.sender /\ u.rec = r /\ u.cont = k
        /\ u.count = 0 /\ u.attached = TRUE /\ u.closing = FALSE
    BY <1>1, <2>1, <2>2, <2>3 DEF NativeState
  <2>5. validRangeTriple(u.rec) /\ AttachedResend(u)
    BY <1>1, <1>2, <1>3, <2>2, <2>4 DEF validRangeTriple, AttachedResend, k
  <2>6. CASE ValidDirect(s)
    BY <2>2, <2>4, <2>5, <2>6 DEF validNativeState, ValidDirect, u
  <2>7. CASE ValidLogon789(s)
    <3>1. ~ValidFinal(s)
      BY <1>1, <1>2, <1>3 DEF ValidFinal, OneNumber, validRangeTriple
    <3>2. ValidStored(s)
      BY <2>7, <3>1 DEF ValidLogon789, ValidPrefix, ValidResponse
    <3>3. ValidStored(u)
      BY <2>2, <2>4, <2>5, <3>2 DEF ValidStored
    <3>4. ValidLogon789(u)
      BY <2>2, <2>4, <2>7, <3>3 DEF ValidLogon789
    <3>5. QED
      BY <2>4, <2>5, <3>4 DEF validNativeState, u
  <2>8. QED
    BY <1>1, <2>4, <2>6, <2>7 DEF u
<1>4. ASSUME n = s.rec.end, s.rec.kind = "logon789", s.rec.phase = "stored"
      PROVE  /\ Resumed(s, n) \in NativeState /\ validNativeState(Resumed(s, n))
             /\ Resumed(s, n).sender = s.sender /\ Resumed(s, n).closing = FALSE
  <2> DEFINE a == s.sender - 1
             b == s.sender
             c == s.rec.peer
             r == Recovery("logon789", "final", a, b, a, c)
             k == Resend(a)
             u == Resumed(s, n)
  <2>1. u = [s EXCEPT !.rec = r, !.cont = k]
    BY <1>4 DEF Resumed
  <2>2. ValidLogon789(s) /\ ValidStored(s)
    BY <1>1, <1>4 DEF ValidDirect, ValidLogon789, ValidPrefix, ValidResponse, ValidFinal
  <2>3. /\ a = s.rec.end /\ c < a /\ c > 0 /\ a <= Bound - 2 /\ b = a + 1 /\ b < Bound
        /\ a \in Nat /\ b \in Nat /\ c \in Nat /\ a > 0
    BY <1>1, <2>2, FrameStateAssumption DEF ValidLogon789, ValidStored, validRangeTriple
  <2> HIDE DEF u, a, b, c
  <2>4. a \in Numbers /\ b \in Numbers /\ c \in Numbers
    BY <2>3, FrameStateAssumption DEF Numbers
  <2>5. /\ r \in Recoveries /\ r.kind = "logon789" /\ r.phase = "final"
        /\ r.begin = a /\ r.end = b /\ r.cursor = a /\ r.peer = c
    BY <2>4, RecoveryType
  <2>6. k \in Continuations
    BY <2>3, ContinuationType
  <2> HIDE DEF r, k
  <2>7. /\ u \in NativeState /\ u.sender = s.sender /\ u.rec = r /\ u.cont = k
        /\ u.count = 0 /\ u.attached = TRUE /\ u.closing = FALSE
    BY <1>1, <2>1, <2>5, <2>6 DEF NativeState
  <2>8. validRangeTriple(u.rec) /\ AttachedResend(u) /\ OneNumber(u)
    BY <2>3, <2>5, <2>7, FrameStateAssumption
       DEF validRangeTriple, AttachedResend, OneNumber, k, b
  <2>9. ValidLogon789(u)
    BY <2>3, <2>5, <2>7, <2>8 DEF ValidLogon789, ValidFinal, b
  <2>10. validNativeState(u)
    BY <2>7, <2>8, <2>9 DEF validNativeState
  <2>11. QED
    BY <2>7, <2>10 DEF u
<1>5. ASSUME n = s.rec.end, ~(s.rec.kind = "logon789" /\ s.rec.phase = "stored")
      PROVE  /\ Resumed(s, n) \in NativeState /\ validNativeState(Resumed(s, n))
             /\ Resumed(s, n).sender = s.sender /\ Resumed(s, n).closing = FALSE
  <2> DEFINE u == Resumed(s, n)
  <2>1. u = [s EXCEPT !.rec = NoRecovery, !.cont = NoContinuation]
    BY <1>5 DEF Resumed
  <2> HIDE DEF u
  <2>2. /\ u \in NativeState /\ u.sender = s.sender /\ u.rec = NoRecovery
        /\ u.cont = NoContinuation /\ u.count = 0 /\ u.closing = FALSE
    BY <1>1, <2>1, NoRecoveryType, ContinuationType DEF NativeState
  <2>3. validNativeState(u)
    BY <2>2 DEF validNativeState
  <2>4. QED
    BY <2>2, <2>3 DEF u
<1>6. QED
  BY <1>3, <1>4, <1>5

LEMMA ResumePageKeeps ==
    ASSUME Inv, ResumePage, UNCHANGED <<host, peer, cache, lost, stops>>
    PROVE  Inv'
<1>1. plan.status = "store" /\ plan.state.cont.kind = "resend"
  BY DEF ResumePage
<1>2. PICK n \in plan.from + 1 .. plan.to :
         Describe([plan EXCEPT !.status = "ready", !.state = Resumed(plan.state, n),
                      !.to = n, !.filled = {m \in plan.from .. n - 1 : rows[m] # "app"}])
  BY DEF ResumePage
<1> DEFINE s == plan.state
           u == Resumed(s, n)
           f == {m \in plan.from .. n - 1 : rows[m] # "app"}
           q == [plan EXCEPT !.status = "ready", !.state = u, !.to = n, !.filled = f]
<1>3. plan \in Plans /\ s \in NativeState
  BY <1>1, Pending
<1>4. /\ validNativeState(s) /\ s.rec.phase \in {"stored", "final"}
      /\ plan.from = s.rec.cursor /\ plan.to <= s.rec.end /\ ClosingOK(plan)
  BY <1>1 DEF Inv, PendingOK, StoreOK
<1>5. /\ s.rec.cursor \in Nat /\ s.rec.end \in Nat /\ s.rec.end <= Bound
  BY <1>3, StateFields, RecoveryFields
<1>6. plan.to \in Nat
  BY <1>3, FrameStateAssumption DEF Plans, Numbers
<1>7. /\ n \in s.rec.cursor + 1 .. s.rec.end /\ n \in Numbers /\ f \in SUBSET Numbers
  BY <1>4, <1>5, <1>6, FrameStateAssumption DEF Numbers
<1>8. u \in NativeState /\ validNativeState(u) /\ u.sender = s.sender /\ u.closing = FALSE
  BY <1>1, <1>3, <1>4, <1>7, ResumedValid
<1>9. Describe(q)
  BY <1>2
<1> HIDE DEF u, f
<1>10. /\ q \in Plans /\ q.status = "ready" /\ q.state = u /\ q.fresh = plan.fresh
       /\ q.closes = plan.closes
  BY <1>3, <1>7, <1>8 DEF Plans
<1> HIDE DEF q
<1>11. ClosingOK(q)
  BY <1>4, <1>8, <1>10 DEF ClosingOK
<1>12. QED
  BY <1>1, <1>8, <1>9, <1>10, <1>11, Replan

LEMMA ResumeResponseKeeps ==
    ASSUME Inv, ResumeResponse, UNCHANGED <<host, peer, cache, lost, stops>>
    PROVE  Inv'
<1>1. plan.status = "store"
  BY DEF ResumeResponse
<1>2. plan \in Plans
  BY <1>1, Pending
<1>3. validNativeState(plan.state) /\ ClosingOK(plan)
  BY <1>1 DEF Inv, PendingOK
<1>4. CASE rows[plan.from] = "logon"
  <2> DEFINE q == [plan EXCEPT !.status = "ready"]
  <2>1. Describe(q)
    BY <1>4 DEF ResumeResponse
  <2>2. /\ q \in Plans /\ q.status = "ready" /\ q.state = plan.state /\ q.fresh = plan.fresh
        /\ q.closes = plan.closes /\ q.drop = plan.drop
    BY <1>2 DEF Plans
  <2> HIDE DEF q
  <2>3. ClosingOK(q)
    BY <1>3, <2>2 DEF ClosingOK
  <2>4. QED
    BY <1>1, <1>3, <2>1, <2>2, <2>3, Replan
<1>5. CASE rows[plan.from] # "logon"
  <2>1. plan' = NoPlan /\ handle' = "terminal"
    BY <1>5 DEF ResumeResponse
  <2>2. QED
    BY <2>1 DEF Inv, TypeOK, Agreed, PendingOK, NoPlan, host, peer
<1>6. QED
  BY <1>4, <1>5

LEMMA ResumeKeeps == Inv /\ Resume => Inv'
  BY ResumePageKeeps, ResumeResponseKeeps DEF Resume

-----------------------------------------------------------------------------
(* The host's transaction.                                                 *)

LEMMA CommitKeeps == Inv /\ Commit => Inv'
<1> SUFFICES ASSUME Inv, Commit PROVE Inv'
  OBVIOUS
<1>1. plan.status = "ready"
  BY DEF Commit
<1>2. plan \in Plans /\ plan.state \in NativeState /\ handle = "live"
  BY <1>1, Pending
<1>3. /\ link # "down" /\ plan.state.sender = Len(rows) + Len(plan.fresh) + 1
      /\ validNativeState(plan.state) /\ ClosingOK(plan)
  BY <1>1 DEF Inv, PendingOK
<1>4. /\ rows \in Seq(Kinds) /\ plan.fresh \in Seq(Kinds) /\ plan.to \in Numbers
      /\ plan.handed \in Numbers /\ plan.begins \in Numbers
      /\ plan.told \in BOOLEAN
  BY <1>2 DEF Plans, Inv, TypeOK
<1>5. rows' \in Seq(Kinds) /\ Len(rows') = Len(rows) + Len(plan.fresh)
  BY <1>4 DEF Commit
<1>6. durable' = plan.state /\ cache' = cache /\ handle' = handle /\ want' = want
  BY DEF Commit
<1>7. plan' \in Plans /\ plan'.status = "committed" /\ plan'.state = plan.state
  BY <1>2 DEF Commit, Plans
<1>8. link' \in {"up", "lost", "down"} /\ (durable'.closing => link' = "lost")
  BY <1>3, <1>6 DEF Commit, ClosingOK, Inv, TypeOK
<1>9. original' \in 1 .. Bound
  BY <1>4, FrameStateAssumption DEF Commit, Inv, TypeOK, Numbers
<1>10. reach' \in want' .. Bound
  BY <1>4, FrameStateAssumption DEF Commit, Extended, Inv, TypeOK, Numbers
<1>11. told' \in BOOLEAN /\ begun' \in Numbers
  BY <1>4, FrameStateAssumption DEF Commit, Inv, TypeOK, Numbers
<1>12. TypeOK'
  BY <1>2, <1>5, <1>6, <1>7, <1>8, <1>9, <1>10, <1>11 DEF Commit, Inv, TypeOK
<1>13. Len(rows') + 1 = durable'.sender
  BY <1>2, <1>3, <1>4, <1>5, <1>6
<1>14. Agreed'
  BY <1>2, <1>6, <1>7, <1>8, <1>13 DEF Agreed
<1>15. PendingOK'
  BY <1>7 DEF PendingOK
<1>16. QED
  BY <1>3, <1>6, <1>12, <1>14, <1>15 DEF Inv

LEMMA ApplyCommittedKeeps == Inv /\ ApplyCommitted => Inv'
<1> SUFFICES ASSUME Inv, ApplyCommitted PROVE Inv'
  OBVIOUS
<1>1. plan.state = durable
  BY DEF Inv, Agreed, ApplyCommitted
<1>2. QED
  BY <1>1 DEF ApplyCommitted, Inv, TypeOK, Agreed, PendingOK, NoPlan, host, peer

LEMMA AbortKeeps == Inv /\ Abort => Inv'
  BY FrameAdapterAssumption DEF Abort, Inv, TypeOK, Agreed, PendingOK, NoPlan, host, peer

LEMMA HandleLostKeeps == Inv /\ HandleLost => Inv'
  BY FrameAdapterAssumption, FreshType
     DEF HandleLost, Inv, TypeOK, Agreed, PendingOK, NoPlan, host, peer

LEMMA CreateKeeps == Inv /\ Create => Inv'
  BY DEF Create, Inv, TypeOK, Agreed, PendingOK, NoPlan, host, peer

-----------------------------------------------------------------------------
(* The connection and the peer.                                            *)

(* A step of the connection leaves the plan alone.                         *)
LEMMA PlanStays ==
    ASSUME Inv, UNCHANGED <<rows, plan>>, link # "down" => link' = link \/ link' = "lost"
    PROVE  PendingOK'
  BY DEF Inv, PendingOK, ClosingOK, StoreOK

LEMMA HandOverKeeps == Inv /\ HandOver => Inv'
<1> SUFFICES ASSUME Inv, HandOver PROVE Inv'
  OBVIOUS
<1>1. durable.sender \in 1 .. Bound
  BY StateFields DEF Inv, TypeOK
<1>2. original' \in 1 .. Bound /\ reach' \in want .. Bound
  BY <1>1, FrameStateAssumption DEF HandOver, MayHandOver, Inv, TypeOK
<1>3. TypeOK'
  BY <1>2 DEF HandOver, Inv, TypeOK
<1>4. Agreed' /\ validNativeState(durable)'
  BY DEF HandOver, Inv, Agreed
<1>5. PendingOK'
  BY PlanStays DEF HandOver
<1>6. QED
  BY <1>3, <1>4, <1>5 DEF Inv

LEMMA ReceiveKeeps == Inv /\ Receive => Inv'
<1> SUFFICES ASSUME Inv, Receive PROVE Inv'
  OBVIOUS
<1>1. want' \in 1 .. Bound /\ reach' \in want' .. Bound
  BY FrameStateAssumption DEF Receive, Inv, TypeOK
<1>2. TypeOK'
  BY <1>1 DEF Receive, Inv, TypeOK, host
<1>3. Agreed' /\ validNativeState(durable)'
  BY DEF Receive, Inv, Agreed, host
<1>4. PendingOK'
  BY PlanStays DEF Receive, host
<1>5. QED
  BY <1>2, <1>3, <1>4 DEF Inv

LEMMA LoseKeeps == Inv /\ Lose => Inv'
<1> SUFFICES ASSUME Inv, Lose PROVE Inv'
  OBVIOUS
<1>1. durable.sender \in 1 .. Bound
  BY StateFields DEF Inv, TypeOK
<1>2. want' \in 1 .. Bound /\ reach' \in want' .. Bound
  BY <1>1, FrameStateAssumption DEF Lose, MayHandOver, Inv, TypeOK
<1>3. lost' \in 0 .. MaxLost /\ begun' \in Numbers /\ told' \in BOOLEAN
  <2>1. MaxLost \in Nat
    BY FrameAdapterAssumption
  <2>2. lost' \in 0 .. MaxLost
    BY <2>1 DEF Lose, Inv, TypeOK
  <2>3. begun' \in Numbers
    BY FrameStateAssumption DEF Lose, Numbers
  <2>4. told' \in BOOLEAN
    BY DEF Lose
  <2>5. QED
    BY <2>2, <2>3, <2>4
<1>4. TypeOK'
  BY <1>2, <1>3 DEF Lose, Inv, TypeOK, host
<1>5. Agreed' /\ validNativeState(durable)'
  BY DEF Lose, Inv, Agreed, host
<1>6. PendingOK'
  BY PlanStays DEF Lose, host
<1>7. QED
  BY <1>4, <1>5, <1>6 DEF Inv

LEMMA ConnectKeeps == Inv /\ Connect => Inv'
<1> SUFFICES ASSUME Inv, Connect PROVE Inv'
  OBVIOUS
<1>1. TypeOK'
  BY DEF Connect, Inv, TypeOK, host
<1>2. Agreed' /\ validNativeState(durable)'
  BY DEF Connect, Inv, Agreed, host
<1>3. PendingOK'
  BY PlanStays DEF Connect, host
<1>4. QED
  BY <1>1, <1>2, <1>3 DEF Inv

-----------------------------------------------------------------------------
(* The theorems.                                                           *)

LEMMA InitInv == Init => Inv
<1> SUFFICES ASSUME Init PROVE Inv
  OBVIOUS
<1>1. TypeOK
  <2>1. MaxLost \in Nat /\ MaxStops \in Nat
    BY FrameAdapterAssumption
  <2>2. {durable, cache} \subseteq NativeState
    BY FreshType DEF Init
  <2>3. /\ original \in 1 .. Bound /\ want \in 1 .. Bound /\ reach \in want .. Bound
        /\ begun \in Numbers /\ lost \in 0 .. MaxLost /\ stops \in 0 .. MaxStops
    BY <2>1, FrameStateAssumption DEF Init, Numbers
  <2>4. rows \in Seq(Kinds) /\ told \in BOOLEAN
    <3>1. rows \in Seq(Kinds)
      BY One DEF Init
    <3>2. told \in BOOLEAN
      BY DEF Init
    <3>3. QED
      BY <3>1, <3>2
  <2>5. QED
    BY <2>2, <2>3, <2>4 DEF Init, TypeOK
<1>2. Agreed /\ validNativeState(durable)
  BY FreshType DEF Init, Agreed, NoPlan
<1>3. PendingOK
  BY DEF Init, PendingOK, NoPlan
<1>4. QED
  BY <1>1, <1>2, <1>3 DEF Inv

LEMMA StepInv == Inv /\ [Next]_vars => Inv'
<1> SUFFICES ASSUME Inv, [Next]_vars PROVE Inv'
  OBVIOUS
<1>1. CASE Continue
  BY <1>1, PassBarrierKeeps, NextPageKeeps, ConfirmPrefixKeeps, RangeAfterResponseKeeps
     DEF Continue
<1>2. CASE UNCHANGED vars
  BY <1>2 DEF vars, Inv, TypeOK, Agreed, PendingOK, ClosingOK, StoreOK
<1>3. QED
  BY <1>1, <1>2, AdminOutputKeeps, TestRequestKeeps, LogoutKeeps, TimerDisconnectKeeps,
     PeerSpeaksKeeps, ApplicationKeeps, StoredRetransmitKeeps, TransportClosedKeeps,
     LogonKeeps, AdminLogonKeeps, ResendRequestKeeps, ResumeKeeps, CommitKeeps,
     ApplyCommittedKeeps, AbortKeeps, HandleLostKeeps, CreateKeeps, HandOverKeeps,
     ReceiveKeeps, LoseKeeps, ConnectKeeps DEF Next

(* The inductive invariant holds in every behaviour of the adapter, its    *)
(* host and its peer: committed state, cache, store and plan agree.        *)
THEOREM AdapterInv == Spec => []Inv
  BY InitInv, StepInv, PTL DEF Spec

(* Type correctness for every bound: the sender's number never passes      *)
(* Bound, nor the peer's and the host's cursors.                           *)
THEOREM AdapterTypeCorrect == Spec => []TypeOK
<1>1. Inv => TypeOK
  BY DEF Inv
<1>2. QED
  BY <1>1, AdapterInv, PTL

(* createSession accepts every state a host ever committed, and no prepare *)
(* ends in INTERNAL_ERROR because describePlan found its state invalid.    *)
THEOREM AlwaysRestorable == Spec => []Restorable
<1>1. Inv => Restorable
  BY DEF Inv, Agreed, Restorable
<1>2. QED
  BY <1>1, AdapterInv, PTL

(* A plan's frames are numbered from the first number the host's store     *)
(* does not hold, whatever was aborted, lost or re-created before.         *)
THEOREM IssuedOnce == Spec => []NumbersIssuedOnce
<1>1. Inv => NumbersIssuedOnce
  BY DEF Inv, PendingOK, NumbersIssuedOnce
<1>2. QED
  BY <1>1, AdapterInv, PTL
=============================================================================

--------------------------- MODULE RecoveryProofs ---------------------------
(***************************************************************************)
(* Where a recovery of the frame adapter stands relative to the peer, for  *)
(* every bound, page size and number of lost connections: proofs of        *)
(* NoGapInRecovery and LowerLogonCovered.                                  *)
(*                                                                         *)
(* Both speak about a plan that is ready or about the end of a recovery.   *)
(* The invariant carries the reason from the Logon or the ResendRequest    *)
(* that began the recovery to that point: what the state says was sent     *)
(* (Covered) holds of the committed state, and of the state of a plan under*)
(* way once its own frames are counted (PlanCovered).                      *)
(***************************************************************************)
EXTENDS FrameProofs

(* s is a state on a connection on which the peer said what it misses if   *)
(* t, whose recovery began with the Logon response b (0: none), and r is   *)
(* where the peer ends up.                                                 *)
Covered(s, t, b, r) ==
    /\ t /\ s.rec.kind = "direct" => s.rec.cursor <= r
    /\ b # 0 =>
        /\ s.attached
        /\ s.rec.kind = "direct" => t
        /\ s.rec.kind # "logon789" => r > b
        /\ s.rec.kind = "logon789" =>
            \/ s.rec.phase = "response" /\ s.rec.begin = b
            \/ s.rec.phase = "stored" /\ s.rec.end = b /\ s.rec.cursor <= r
            \/ s.rec.phase = "final" /\ s.rec.begin = b /\ s.rec.cursor <= r

(* The number a Logon gave as the next one expected was true, and want     *)
(* never goes back; a ResendRequest asks for nothing that was not issued.  *)
RangeKnown(s) == /\ s.rec.kind = "logon789" => s.rec.peer <= want
                 /\ s.rec.kind = "direct" => s.rec.end <= s.sender

(* The response a plan issues if it begins a recovery, or the one before.  *)
Begins(p) == IF p.begins # 0 THEN p.begins ELSE begun

(* Where the peer ends up when the frames of p are sent.                   *)
Reaches(p) == IF p.from < p.to /\ p.from <= reach /\ reach < p.to THEN p.to ELSE reach

(* A plan that waits for its rows sends nothing before it has them; while  *)
(* the pages of a recovery go out, it asks for one of them.                *)
Waiting(p) == /\ ~p.drop /\ p.begins = 0
              /\ p.state.cont.kind = "resend" => ~p.told
              /\ cache.cont.kind = "resend" => p.state = cache

PlanCovered(p) ==
    /\ RangeKnown(p.state)
    /\ link = "up" /\ ~p.drop =>
        Covered(p.state, told \/ p.told, Begins(p),
                IF p.status = "store" THEN reach ELSE Reaches(p))
    /\ p.status = "store" => Waiting(p)

RInv ==
    /\ told \/ begun # 0 => link = "up"
    /\ RangeKnown(durable)
    /\ Covered(durable, told, begun, reach)
    /\ plan.status \in {"ready", "store"} => PlanCovered(plan)
    /\ NoGapInRecovery

-----------------------------------------------------------------------------
(* What was sent stays sent.                                               *)

(* The peer going further uncovers nothing.                                *)
LEMMA CoveredGrows ==
    ASSUME NEW s \in NativeState, NEW t, NEW b \in Nat, NEW r \in Nat, NEW r2 \in Nat,
           r <= r2, Covered(s, t, b, r)
    PROVE  Covered(s, t, b, r2)
<1>1. s.rec.cursor \in Nat
  BY StateFields, RecoveryFields
<1>2. QED
  BY <1>1 DEF Covered

(* Only the recovery and whether the session is attached matter.           *)
LEMMA CoveredSame ==
    ASSUME NEW s, NEW u, NEW t, NEW b, NEW r, u.rec = s.rec, u.attached = s.attached,
           Covered(s, t, b, r)
    PROVE  Covered(u, t, b, r)
  BY DEF Covered

(* The frames of a plan bring the peer no further back, and those that     *)
(* follow what it has bring it to their end.                               *)
LEMMA ReachesOK ==
    ASSUME Inv, NEW p, p.from \in Numbers, p.to \in Numbers
    PROVE  /\ Reaches(p) \in Nat /\ reach \in Nat /\ reach <= Reaches(p)
           /\ p.from < p.to /\ p.from <= reach => p.to <= Reaches(p)
  BY FrameStateAssumption DEF Inv, TypeOK, Reaches, Numbers

(* The state a request is answered from.                                   *)
LEMMA RequestContext ==
    ASSUME Inv, RInv, CanPrepare
    PROVE  /\ cache \in NativeState /\ validNativeState(cache)
           /\ RangeKnown(cache) /\ Covered(cache, told, begun, reach)
           /\ want \in Nat /\ want > 0 /\ reach \in Nat /\ want <= reach
           /\ begun \in Nat /\ told \in BOOLEAN
           /\ ~cache.attached => begun = 0
<1>1. cache \in NativeState /\ validNativeState(cache) /\ cache = durable
  BY Context
<1>2. /\ RangeKnown(cache) /\ Covered(cache, told, begun, reach)
  BY <1>1 DEF RInv
<1>3. /\ want \in Nat /\ want > 0 /\ reach \in Nat /\ want <= reach
      /\ begun \in Nat /\ told \in BOOLEAN
  BY FrameStateAssumption DEF Inv, TypeOK, Numbers
<1>4. ~cache.attached => begun = 0
  BY <1>2 DEF Covered
<1>5. QED
  BY <1>1, <1>2, <1>3, <1>4

(* The part of NoGapInRecovery that is about the plan p.                   *)
Follows(p) ==
    (/\ p.from # 0 /\ cache.cont.kind = "resend"
     /\ (cache.rec.kind = "direct" /\ told) \/ begun # 0)
        => p.from <= reach

(* A plan that is covered may be offered, at once or with its rows.        *)
LEMMA DescribeCovered ==
    ASSUME Inv, RInv, NEW q, Describe(q), PlanCovered(q),
           q.status = "ready" => Follows(q),
           UNCHANGED <<host, peer, cache, lost, stops>>
    PROVE  RInv'
<1>1. /\ UNCHANGED <<durable, cache, link, want, reach, told, begun>>
      /\ plan' = q \/ plan' = NoPlan
  BY DEF Describe, host, peer
<1>2. CASE plan' = q
  <2>1. PlanCovered(plan)'
    BY <1>1, <1>2 DEF PlanCovered, RangeKnown, Covered, Begins, Reaches, Waiting
  <2>2. NoGapInRecovery'
    BY <1>1, <1>2 DEF NoGapInRecovery, Follows
  <2>3. QED
    BY <1>1, <2>1, <2>2 DEF RInv, RangeKnown, Covered
<1>3. CASE plan' = NoPlan
  BY <1>1, <1>3 DEF RInv, RangeKnown, Covered, NoGapInRecovery, NoPlan
<1>4. QED
  BY <1>1, <1>2, <1>3

(* The same for a request.                                                 *)
LEMMA OfferCovered ==
    ASSUME Inv, RInv, NEW p, Prepare(p), PlanCovered(p),
           p.status = "ready" => Follows(p)
    PROVE  RInv'
  BY DescribeCovered DEF Prepare

(* A plan that leaves the recovery as it is.                               *)
LEMMA OfferSteady ==
    ASSUME Inv, RInv, NEW p, Prepare(p), p.status = "ready", p.begins = 0,
           p.from \in Numbers, p.to \in Numbers, p.told \in BOOLEAN,
           p.state.rec = cache.rec, p.state.sender \in Nat, cache.sender <= p.state.sender,
           link = "up" /\ ~p.drop => /\ p.state.attached = cache.attached
                                     /\ p.told => cache.rec.kind # "direct",
           p.from # 0 => cache.cont.kind # "resend"
    PROVE  RInv'
<1>1. CanPrepare
  BY DEF Prepare
<1>2. /\ cache \in NativeState /\ RangeKnown(cache) /\ Covered(cache, told, begun, reach)
      /\ begun \in Nat /\ told \in BOOLEAN
  BY <1>1, RequestContext
<1>3. Reaches(p) \in Nat /\ reach \in Nat /\ reach <= Reaches(p)
  BY ReachesOK
<1>4. Covered(cache, told, begun, Reaches(p))
  BY <1>2, <1>3, CoveredGrows
<1>5. RangeKnown(p.state)
  <2>1. cache.rec.end \in Nat /\ cache.sender \in Nat
    BY <1>2, StateFields, RecoveryFields
  <2>2. QED
    BY <1>2, <2>1 DEF RangeKnown
<1>6. ASSUME link = "up", ~p.drop
      PROVE  Covered(p.state, told \/ p.told, begun, Reaches(p))
  <2>1. Covered(p.state, told, begun, Reaches(p))
    BY <1>4, <1>6, CoveredSame
  <2>2. CASE p.told
    BY <1>6, <2>1, <2>2 DEF Covered
  <2>3. CASE ~p.told
    <3>1. (told \/ p.told) = told
      BY <1>2, <2>3
    <3>2. QED
      BY <2>1, <3>1
  <2>4. QED
    BY <2>2, <2>3
<1>7. PlanCovered(p)
  BY <1>5, <1>6 DEF PlanCovered, Begins
<1>8. Follows(p)
  BY DEF Follows
<1>9. QED
  BY <1>7, <1>8, OfferCovered

(* A plan answered from a session that is not attached: no response began  *)
(* a recovery on this connection yet.                                      *)
LEMMA OfferDetached ==
    ASSUME Inv, RInv, NEW p, Prepare(p), p.status \in {"ready", "store"}, p.begins = 0,
           p.from \in Numbers, p.to \in Numbers, ~cache.attached, RangeKnown(p.state),
           (told \/ p.told) /\ p.state.rec.kind = "direct" =>
               p.state.rec.cursor \in Nat /\ p.state.rec.cursor <= reach,
           p.status = "store" => /\ ~p.drop /\ p.state.cont.kind # "resend"
                                 /\ cache.cont.kind # "resend",
           p.status = "ready" => p.from = 0
    PROVE  RInv'
<1>1. CanPrepare
  BY DEF Prepare
<1>2. begun = 0
  BY <1>1, RequestContext
<1>3. Reaches(p) \in Nat /\ reach \in Nat /\ reach <= Reaches(p)
  BY ReachesOK
<1>4. /\ Covered(p.state, told \/ p.told, 0, reach)
      /\ Covered(p.state, told \/ p.told, 0, Reaches(p))
  BY <1>3 DEF Covered
<1>5. PlanCovered(p)
  BY <1>2, <1>4 DEF PlanCovered, Begins, Waiting
<1>6. p.status = "ready" => Follows(p)
  BY DEF Follows
<1>7. QED
  BY <1>5, <1>6, OfferCovered

(* The Logon response that begins a recovery.                              *)
LEMMA OfferResponse ==
    ASSUME Inv, RInv, NEW p, Prepare(p), p.status = "ready", p.from = 0,
           p.state.attached, p.state.rec.kind = "logon789", p.state.rec.phase = "response",
           p.begins # 0, p.state.rec.begin = p.begins, p.state.rec.peer <= want
    PROVE  RInv'
<1>1. RangeKnown(p.state)
  BY DEF RangeKnown
<1>2. Covered(p.state, told \/ p.told, p.begins, Reaches(p))
  BY DEF Covered
<1>3. PlanCovered(p)
  BY <1>1, <1>2 DEF PlanCovered, Begins
<1>4. Follows(p)
  BY DEF Follows
<1>5. QED
  BY <1>3, <1>4, OfferCovered

-----------------------------------------------------------------------------
(* The requests outside a recovery.                                        *)

(* A plan with no output says nothing, sends nothing and begins nothing.   *)
LEMMA PlanNotes ==
    ASSUME NEW s \in NativeState
    PROVE  /\ StatePlan(s) \in Plans /\ Dropping(s) \in Plans
           /\ \A p \in {StatePlan(s), Dropping(s)} :
                 /\ p.status = "ready" /\ p.state = s /\ p.from = 0 /\ p.to = 0
                 /\ p.begins = 0 /\ p.told = FALSE
           /\ StatePlan(s).drop = FALSE /\ Dropping(s).drop = TRUE
<1>1. StatePlan(s) \in Plans /\ Dropping(s) \in Plans
  BY StatePlanType, DroppingType
<1>2. QED
  BY <1>1 DEF StatePlan, Dropping, Plans

(* Issuing frames changes nothing but the sender's number.                 *)
LEMMA IssueNotes ==
    ASSUME NEW p \in Plans, NEW kinds \in Seq(Kinds)
    PROVE  /\ Issue(p, kinds).status = p.status /\ Issue(p, kinds).from = p.from
           /\ Issue(p, kinds).to = p.to /\ Issue(p, kinds).begins = p.begins
           /\ Issue(p, kinds).told = p.told /\ Issue(p, kinds).drop = p.drop
           /\ Issue(p, kinds).state.rec = p.state.rec
           /\ Issue(p, kinds).state.attached = p.state.attached
           /\ Issue(p, kinds).state.cont = p.state.cont
           /\ Issue(p, kinds).state.sender \in Nat
           /\ p.state.sender <= Issue(p, kinds).state.sender
<1>1. p.state \in NativeState /\ Len(kinds) \in Nat
  BY DEF Plans
<1> DEFINE s == [p.state EXCEPT !.sender = @ + Len(kinds)]
<1>2. Issue(p, kinds) = [p EXCEPT !.state = s, !.fresh = kinds]
  BY DEF Issue, Plans
<1>3. /\ s.rec = p.state.rec /\ s.attached = p.state.attached /\ s.cont = p.state.cont
      /\ s.sender = p.state.sender + Len(kinds)
  BY <1>1 DEF NativeState
<1>4. s.sender \in Nat /\ p.state.sender <= s.sender
  BY <1>1, <1>3, StateFields
<1> HIDE DEF s
<1>5. QED
  BY <1>2, <1>3, <1>4 DEF Plans

(* Frames issued from a state with the recovery of the cache.              *)
LEMMA IssueSteady ==
    ASSUME Inv, RInv, NEW s \in NativeState, NEW kinds \in Seq(Kinds),
           s.rec = cache.rec, s.attached = cache.attached, s.sender = cache.sender,
           Prepare(Issue(StatePlan(s), kinds)) \/ Prepare(Issue(Dropping(s), kinds))
    PROVE  RInv'
<1>1. PICK p \in {StatePlan(s), Dropping(s)} : Prepare(Issue(p, kinds))
  OBVIOUS
<1>2. /\ p \in Plans /\ p.status = "ready" /\ p.state = s /\ p.from = 0 /\ p.to = 0
      /\ p.begins = 0 /\ p.told = FALSE
  BY PlanNotes
<1> DEFINE q == Issue(p, kinds)
<1>3. /\ q.status = "ready" /\ q.from = 0 /\ q.to = 0 /\ q.begins = 0 /\ q.told = FALSE
      /\ q.state.rec = cache.rec /\ q.state.attached = cache.attached
      /\ q.state.sender \in Nat /\ cache.sender <= q.state.sender
  BY <1>2, IssueNotes
<1>4. Prepare(q)
  BY <1>1
<1> HIDE DEF q
<1>5. 0 \in Numbers
  BY FrameStateAssumption DEF Numbers
<1>6. QED
  BY <1>3, <1>4, <1>5, OfferSteady

(* A plan that changes nothing of the recovery and issues nothing.         *)
LEMMA StateSteady ==
    ASSUME Inv, RInv, NEW s \in NativeState,
           s.rec = cache.rec, s.attached = cache.attached, s.sender = cache.sender,
           Prepare(StatePlan(s)) \/ Prepare(Dropping(s))
    PROVE  RInv'
<1>1. PICK p \in {StatePlan(s), Dropping(s)} : Prepare(p)
  OBVIOUS
<1>2. /\ p.status = "ready" /\ p.state = s /\ p.from = 0 /\ p.to = 0
      /\ p.begins = 0 /\ p.told = FALSE
  BY PlanNotes
<1>3. 0 \in Numbers
  BY FrameStateAssumption DEF Numbers
<1>4. s.sender \in Nat /\ cache.sender <= s.sender
  BY StateFields
<1>5. p.told \in BOOLEAN /\ p.state.sender \in Nat /\ cache.sender <= p.state.sender
  BY <1>2, <1>4
<1>6. QED
  BY <1>1, <1>2, <1>3, <1>5, OfferSteady

(* The frames of an administrative plan.                                   *)
LEMMA AdminKinds == <<"admin">> \in Seq(Kinds) /\ <<"logon">> \in Seq(Kinds)
                    /\ <<>> \in Seq(Kinds)
<1>1. "admin" \in Kinds /\ "logon" \in Kinds
  BY DEF Kinds
<1>2. QED
  BY <1>1, One

(* An administrative frame has nothing to do with a recovery.              *)
LEMMA AdminOutputRec == Inv /\ RInv /\ AdminOutput => RInv'
<1> SUFFICES ASSUME Inv, RInv, AdminOutput PROVE RInv'
  OBVIOUS
<1>1. CanPrepare /\ Prepare(Issue(StatePlan(cache), <<"admin">>))
  BY DEF AdminOutput, Request, Prepare
<1>2. cache \in NativeState
  BY <1>1, RequestContext
<1>3. QED
  BY <1>1, <1>2, AdminKinds, IssueSteady

(* Nor has a TestRequest,                                                  *)
LEMMA TestRequestRec == Inv /\ RInv /\ TestRequest => RInv'
<1> SUFFICES ASSUME Inv, RInv, TestRequest PROVE RInv'
  OBVIOUS
<1> DEFINE s == [cache EXCEPT !.count = @ + 1]
<1>1. CanPrepare /\ Prepare(Issue(StatePlan(s), <<"admin">>))
  BY DEF TestRequest, Request, Prepare
<1>2. cache \in NativeState /\ cache.count + 1 \in Nat
  BY <1>1, RequestContext, StateFields
<1>3. /\ s \in NativeState /\ s.rec = cache.rec /\ s.attached = cache.attached
      /\ s.sender = cache.sender
  BY <1>2, CountType
<1> HIDE DEF s
<1>4. QED
  BY <1>1, <1>3, AdminKinds, IssueSteady

(* nor a Logout or the disconnect after unanswered TestRequests,           *)
LEMMA LogoutRec == Inv /\ RInv /\ (Logout \/ TimerDisconnect) => RInv'
<1> SUFFICES ASSUME Inv, RInv, Logout \/ TimerDisconnect PROVE RInv'
  OBVIOUS
<1> DEFINE s == Closing(cache)
<1>1. /\ CanPrepare
      /\ Prepare(Issue(Dropping(s), <<"admin">>)) \/ Prepare(Dropping(s))
  BY DEF Logout, TimerDisconnect, Request, Prepare
<1>2. cache \in NativeState
  BY <1>1, RequestContext
<1>3. /\ s \in NativeState /\ s.rec = cache.rec /\ s.attached = cache.attached
      /\ s.sender = cache.sender
  BY <1>2 DEF Closing, NativeState
<1> HIDE DEF s
<1>4. QED
  BY <1>1, <1>3, AdminKinds, IssueSteady, StateSteady

(* nor an answer to an administrative message,                             *)
LEMMA PeerSpeaksRec == Inv /\ RInv /\ PeerSpeaks => RInv'
<1> SUFFICES ASSUME Inv, RInv, PeerSpeaks PROVE RInv'
  OBVIOUS
<1> DEFINE s == [cache EXCEPT !.count = 0]
<1>1. PICK answer \in {<<>>, <<"admin">>} : Prepare(Issue(StatePlan(s), answer))
  BY DEF PeerSpeaks, Request
<1>2. CanPrepare
  BY <1>1 DEF Prepare
<1>3. cache \in NativeState
  BY <1>2, RequestContext
<1>4. /\ s \in NativeState /\ s.rec = cache.rec /\ s.attached = cache.attached
      /\ s.sender = cache.sender
  BY <1>3, CountType
<1> HIDE DEF s
<1>5. answer \in Seq(Kinds)
  BY AdminKinds
<1>6. QED
  BY <1>1, <1>4, <1>5, IssueSteady

(* nor a part of an application block.                                     *)
LEMMA ApplicationRec == Inv /\ RInv /\ Application => RInv'
<1> SUFFICES ASSUME Inv, RInv, Application PROVE RInv'
  OBVIOUS
<1>1. cache.cont.kind \in {"none", "block"}
  BY DEF Application
<1> DEFINE first == cache.cont.cursor
<1>2. PICK total \in first + 1 .. MaxUnits, n \in 1 .. MaxUnits :
         Prepare(ApplicationPlan(first, total, n))
  BY DEF Application, Request
<1>3. CanPrepare
  BY <1>2 DEF Prepare
<1>4. cache \in NativeState
  BY <1>3, RequestContext
<1>5. first \in Nat /\ n \in Nat
  BY <1>4, StateFields, FrameAdapterAssumption DEF Continuations
<1> HIDE DEF first
<1> DEFINE k == IF first + n < total THEN Block(first + n) ELSE NoContinuation
           s == [cache EXCEPT !.cont = k]
           kinds == [i \in 1 .. n |-> "app"]
<1>6. k \in Continuations
  BY <1>5, ContinuationType
<1>7. ApplicationPlan(first, total, n) = Issue(StatePlan(s), kinds)
  BY DEF ApplicationPlan
<1> HIDE DEF k
<1>8. /\ s \in NativeState /\ s.rec = cache.rec /\ s.attached = cache.attached
      /\ s.sender = cache.sender
  BY <1>4, <1>6 DEF NativeState
<1>9. kinds \in Seq(Kinds)
  BY <1>5, AppsType
<1> HIDE DEF s, kinds
<1>10. QED
  BY <1>2, <1>7, <1>8, <1>9, IssueSteady

(* The response sent again is no part of a range that has begun.           *)
LEMMA StoredRetransmitRec == Inv /\ RInv /\ StoredRetransmit => RInv'
<1> SUFFICES ASSUME Inv, RInv, StoredRetransmit PROVE RInv'
  OBVIOUS
<1>1. PICK n \in 1 .. Len(rows) :
         /\ \/ cache.rec = NoRecovery \/ cache.rec.phase = "response"
            \/ cache.cont = NoContinuation
         /\ Prepare([StatePlan(cache) EXCEPT !.from = n, !.to = n + 1])
  BY DEF StoredRetransmit, attachedForAdmin, Request
<1>2. CanPrepare
  BY <1>1 DEF Prepare
<1>3. cache \in NativeState /\ validNativeState(cache)
  BY <1>2, RequestContext
<1>4. n \in Numbers /\ n + 1 \in Numbers
  <2>1. Len(rows) + 1 = cache.sender /\ Len(rows) \in Nat
    BY <1>2, Context DEF Inv, TypeOK
  <2>2. cache.sender \in 1 .. Bound
    BY <1>3, StateFields
  <2>3. QED
    BY <2>1, <2>2, FrameStateAssumption DEF Numbers
<1>5. cache.cont.kind # "resend"
  BY <1>1, <1>3, ContinuationType, NoRecoveryType
     DEF validNativeState, ValidDirect, ValidLogon789, ValidPrefix, ValidResponse,
         ValidStored, ValidFinal, DetachedState, AttachedNoContinuation
<1> DEFINE p == StatePlan(cache)
           m == n + 1
           q == [p EXCEPT !.from = n, !.to = m]
<1>6. /\ p \in Plans /\ p.status = "ready" /\ p.state = cache /\ p.begins = 0
      /\ p.told = FALSE
  BY <1>3, PlanNotes
<1>7. Prepare(q) /\ m \in Numbers
  BY <1>1, <1>4
<1> HIDE DEF p, m
<1>8. /\ q.status = "ready" /\ q.state = cache /\ q.begins = 0 /\ q.told = FALSE
      /\ q.from = n /\ q.to = m
  BY <1>6 DEF Plans
<1> HIDE DEF q
<1>9. q.state.sender \in Nat /\ cache.sender <= q.state.sender
  BY <1>3, <1>8, StateFields
<1>10. q.told \in BOOLEAN
  BY <1>8
<1>11. QED
  BY <1>4, <1>5, <1>7, <1>8, <1>9, <1>10, OfferSteady

(* A plan for a connection that is lost owes the peer nothing.             *)
LEMMA TransportClosedRec == Inv /\ RInv /\ TransportClosed => RInv'
<1> SUFFICES ASSUME Inv, RInv, TransportClosed PROVE RInv'
  OBVIOUS
<1> DEFINE s == Detach(cache)
           p == StatePlan(s)
           q == [p EXCEPT !.closes = TRUE]
<1>1. CanPrepare /\ link = "lost" /\ Prepare(q)
  BY DEF TransportClosed, Prepare
<1>2. cache \in NativeState /\ validNativeState(cache)
  BY <1>1, RequestContext
<1>3. /\ s \in NativeState /\ s.rec = cache.rec
      /\ s.sender \in Nat /\ cache.sender <= s.sender
  <2> DEFINE k == IF cache.rec # NoRecovery /\ cache.cont.kind = "resend"
                  THEN NoContinuation ELSE cache.cont
  <2>1. k \in Continuations
    BY <1>2, StateFields, ContinuationType
  <2>2. s = [cache EXCEPT !.attached = FALSE, !.closing = FALSE, !.count = 0, !.cont = k]
    BY <1>2 DEF Detach, NativeState
  <2> HIDE DEF k, s
  <2>3. s \in NativeState /\ s.rec = cache.rec /\ s.sender = cache.sender
    BY <1>2, <2>1, <2>2 DEF NativeState
  <2>4. QED
    BY <2>3, StateFields
<1> HIDE DEF s
<1>4. /\ p \in Plans /\ p.status = "ready" /\ p.state = s /\ p.begins = 0
      /\ p.told = FALSE /\ p.from = 0 /\ p.to = 0
  BY <1>3, PlanNotes
<1> HIDE DEF p
<1>5. /\ q.status = "ready" /\ q.state = s /\ q.begins = 0
      /\ q.told = FALSE /\ q.from = 0 /\ q.to = 0
  BY <1>4 DEF Plans
<1> HIDE DEF q
<1>6. 0 \in Numbers
  BY FrameStateAssumption DEF Numbers
<1>7. q.told \in BOOLEAN
  BY <1>5
<1>8. QED
  BY <1>1, <1>3, <1>5, <1>6, <1>7, OfferSteady

-----------------------------------------------------------------------------
(* The Logons.                                                             *)

(* The Logon is not accepted and the connection given up.                  *)
LEMMA ReconcileLogonRec ==
    ASSUME Inv, RInv, NEW p \in {0, want}, ReconcileLogon(p)
    PROVE  RInv'
<1> DEFINE s == [cache EXCEPT !.closing = TRUE]
           t == p # 0
           d == Dropping(s)
           e == [d EXCEPT !.told = t]
           kinds == <<"admin">>
           q == Issue(e, kinds)
<1>1. CanPrepare /\ cache.rec = NoRecovery /\ Prepare(q) /\ t \in BOOLEAN
  BY DEF ReconcileLogon, Prepare
<1>2. cache \in NativeState
  BY <1>1, RequestContext
<1>3. /\ s \in NativeState /\ s.rec = cache.rec /\ s.attached = cache.attached
      /\ s.sender = cache.sender
  BY <1>2 DEF NativeState
<1>4. kinds \in Seq(Kinds)
  BY AdminKinds
<1> HIDE DEF s, t, kinds
<1>5. /\ d \in Plans /\ d.status = "ready" /\ d.state = s /\ d.from = 0 /\ d.to = 0
      /\ d.begins = 0
  BY <1>3, PlanNotes
<1> HIDE DEF d
<1>6. /\ e \in Plans /\ e.status = "ready" /\ e.state = s /\ e.from = 0 /\ e.to = 0
      /\ e.begins = 0 /\ e.told = t
  BY <1>1, <1>5 DEF Plans
<1> HIDE DEF e
<1>7. /\ q.status = "ready" /\ q.from = 0 /\ q.to = 0 /\ q.begins = 0 /\ q.told = t
      /\ q.state.rec = cache.rec /\ q.state.attached = cache.attached
      /\ q.state.sender \in Nat /\ cache.sender <= q.state.sender
  BY <1>3, <1>4, <1>6, IssueNotes
<1> HIDE DEF q
<1>8. 0 \in Numbers
  BY FrameStateAssumption DEF Numbers
<1>9. cache.rec.kind # "direct"
  BY <1>1, NoRecoveryType
<1>10. QED
  BY <1>1, <1>7, <1>8, <1>9, OfferSteady

(* The prefix is held back for the number the peer gave.                   *)
LEMMA HoldLogonRec ==
    ASSUME Inv, RInv, InboundDetached, NEW p \in {0, want}, HoldLogon(p)
    PROVE  RInv'
<1> DEFINE r == Recovery("logon789", "prefix", original, p, original, p)
           k == Resend(original)
           s == [cache EXCEPT !.rec = r, !.cont = k, !.count = 0]
           d == StatePlan(s)
           q == [d EXCEPT !.told = TRUE]
<1>1. CanPrepare /\ Prepare(q) /\ p # 0
  BY DEF HoldLogon, Prepare
<1>2. /\ cache \in NativeState /\ cache.attached = FALSE /\ original \in Nat
      /\ original <= Bound
  BY <1>1, DetachedContext
<1>3. p \in Numbers /\ original \in Numbers
  BY <1>2, NamedNumber, FrameStateAssumption DEF Numbers
<1>4. r \in Recoveries /\ r.kind = "logon789" /\ r.peer = p
  BY <1>3, RecoveryType
<1>5. k \in Continuations
  BY <1>2, ContinuationType
<1> HIDE DEF r, k
<1>6. s \in NativeState /\ s.rec = r
  BY <1>2, <1>4, <1>5 DEF NativeState
<1> HIDE DEF s
<1>7. /\ d \in Plans /\ d.status = "ready" /\ d.state = s /\ d.from = 0 /\ d.to = 0
      /\ d.begins = 0
  BY <1>6, PlanNotes
<1> HIDE DEF d
<1>8. /\ q.status = "ready" /\ q.state = s /\ q.from = 0 /\ q.to = 0 /\ q.begins = 0
  BY <1>7 DEF Plans
<1> HIDE DEF q
<1>9. RangeKnown(q.state)
  <2>1. p = want /\ want <= want
    BY <1>1, RequestContext
  <2>2. QED
    BY <1>4, <1>6, <1>8, <2>1 DEF RangeKnown
<1>10. 0 \in Numbers /\ q.state.rec.kind # "direct"
  BY <1>4, <1>6, <1>8, FrameStateAssumption DEF Numbers
<1>11. QED
  BY <1>1, <1>2, <1>8, <1>9, <1>10, OfferDetached

(* a waits for the response n to a Logon that named lowest.                *)
Awaiting(a, n, lowest) ==
    /\ a \in NativeState /\ a.attached = TRUE /\ a.rec.kind = "logon789"
    /\ a.rec.phase = "response" /\ a.rec.begin = n /\ a.rec.peer = lowest

(* AwaitResponse waits for the number that comes next.                     *)
LEMMA AwaitFields ==
    ASSUME NEW s \in NativeState, s.sender < Bound, NEW lowest \in Numbers
    PROVE  Awaiting(AwaitResponse(s, lowest), s.sender, lowest)
<1> DEFINE n == s.sender
           m == s.sender + 1
           r == Recovery("logon789", "response", n, m, n, lowest)
           a == AwaitResponse(s, lowest)
<1>1. n \in Numbers /\ m \in Numbers
  BY StateFields, FrameStateAssumption DEF Numbers
<1>2. a = [s EXCEPT !.attached = TRUE, !.count = 0, !.cont = NoContinuation, !.rec = r]
  BY DEF AwaitResponse
<1> HIDE DEF a, n, m
<1>3. /\ r \in Recoveries /\ r.kind = "logon789" /\ r.phase = "response"
      /\ r.begin = n /\ r.peer = lowest
  BY <1>1, RecoveryType
<1> HIDE DEF r
<1>4. a \in NativeState /\ a.attached = TRUE /\ a.rec = r
  BY <1>2, <1>3, ContinuationType DEF NativeState
<1>5. QED
  BY <1>3, <1>4 DEF a, n, Awaiting

(* The plan of the response n to a Logon that named lowest.                *)
ResponsePlan(i, n, lowest) ==
    /\ i.status = "ready" /\ i.from = 0 /\ i.state.attached = TRUE
    /\ i.state.rec.kind = "logon789" /\ i.state.rec.phase = "response"
    /\ i.state.rec.begin = n /\ i.state.rec.peer = lowest
    /\ DOMAIN i = {"status", "state", "fresh", "from", "to", "filled", "drop",
                   "closes", "handed", "told", "begins"}

(* Its plan issues that number.                                            *)
LEMMA AwaitPlan ==
    ASSUME NEW s \in NativeState, s.sender < Bound, NEW lowest \in Numbers, NEW i,
           i = Issue(StatePlan(AwaitResponse(s, lowest)), <<"logon">>)
    PROVE  ResponsePlan(i, s.sender, lowest)
<1> DEFINE a == AwaitResponse(s, lowest)
           d == StatePlan(a)
           kinds == <<"logon">>
<1>1. Awaiting(a, s.sender, lowest)
  BY AwaitFields
<1>2. kinds \in Seq(Kinds)
  BY AdminKinds
<1>3. i = Issue(d, kinds)
  OBVIOUS
<1> HIDE DEF a, kinds
<1>4. d \in Plans /\ d.status = "ready" /\ d.state = a /\ d.from = 0
  BY <1>1, PlanNotes DEF Awaiting
<1> HIDE DEF d
<1>5. /\ i.status = "ready" /\ i.from = 0 /\ i.state.rec = a.rec
      /\ i.state.attached = TRUE
  BY <1>1, <1>2, <1>3, <1>4, IssueNotes DEF Awaiting
<1>6. DOMAIN i = DOMAIN d
  BY <1>3, <1>4 DEF Issue, Plans
<1>7. DOMAIN d = {"status", "state", "fresh", "from", "to", "filled", "drop", "closes",
                  "handed", "told", "begins"}
  BY <1>4 DEF Plans
<1>8. QED
  BY <1>1, <1>5, <1>6, <1>7 DEF ResponsePlan, Awaiting

(* A recovery begins with the response to a Logon: of AcceptLogon, and of  *)
(* ConfirmPrefix once the prefix is confirmed.                             *)
LEMMA AwaitRec ==
    ASSUME Inv, RInv, cache.sender < Bound, NEW lowest \in Numbers, lowest <= want, NEW i,
           i = Issue(StatePlan(AwaitResponse(cache, lowest)), <<"logon">>),
           \/ Prepare([i EXCEPT !.handed = cache.sender, !.told = TRUE,
                                !.begins = cache.sender])
           \/ Prepare([i EXCEPT !.handed = cache.sender, !.begins = cache.sender])
    PROVE  RInv'
<1>1. PICK q : /\ Prepare(q)
               /\ \/ q = [i EXCEPT !.handed = cache.sender, !.told = TRUE,
                                   !.begins = cache.sender]
                  \/ q = [i EXCEPT !.handed = cache.sender, !.begins = cache.sender]
  OBVIOUS
<1>2. CanPrepare
  BY <1>1 DEF Prepare
<1>3. cache \in NativeState /\ cache.sender # 0
  BY <1>2, RequestContext, StateFields
<1>4. ResponsePlan(i, cache.sender, lowest)
  BY <1>3, AwaitPlan
<1>5. /\ q.status = i.status /\ q.from = i.from /\ q.state = i.state
      /\ q.begins = cache.sender
  BY <1>1, <1>4 DEF ResponsePlan
<1>6. QED
  BY <1>1, <1>3, <1>4, <1>5, OfferResponse DEF ResponsePlan

(* A Logon that is accepted begins a recovery or needs none.               *)
LEMMA AcceptLogonRec ==
    ASSUME Inv, RInv, InboundDetached, NEW p \in {0, want}, AcceptLogon(p)
    PROVE  RInv'
<1>1. CanPrepare /\ cache.rec = NoRecovery /\ cache.sender < Bound
  BY DEF AcceptLogon, Prepare
<1>2. cache \in NativeState /\ cache.attached = FALSE
  BY <1>1, DetachedContext
<1>3. CASE Lower(p)
  <2>1. PICK i : /\ i = Issue(StatePlan(AwaitResponse(cache, p)), <<"logon">>)
                 /\ Prepare([i EXCEPT !.handed = cache.sender, !.told = TRUE,
                                      !.begins = cache.sender])
    BY <1>3 DEF AcceptLogon
  <2>2. p \in Numbers /\ p <= want
    <3>1. p = want /\ want \in Nat
      BY <1>1, <1>3, RequestContext DEF Lower
    <3>2. QED
      BY <3>1, NamedNumber
  <2>3. QED
    BY <1>1, <2>1, <2>2, AwaitRec
<1>4. CASE ~Lower(p)
  <2> DEFINE s == [cache EXCEPT !.attached = TRUE, !.count = 0]
             t == p # 0
             d == StatePlan(s)
             kinds == <<"logon">>
             i == Issue(d, kinds)
             q == [i EXCEPT !.told = t]
  <2>1. Prepare(q)
    BY <1>4 DEF AcceptLogon
  <2>2. s \in NativeState /\ s.rec = NoRecovery
    BY <1>1, <1>2 DEF NativeState
  <2>3. kinds \in Seq(Kinds)
    BY AdminKinds
  <2> HIDE DEF s, t, kinds
  <2>4. /\ d \in Plans /\ d.status = "ready" /\ d.state = s /\ d.from = 0 /\ d.to = 0
        /\ d.begins = 0
    BY <2>2, PlanNotes
  <2> HIDE DEF d
  <2>5. /\ i.status = "ready" /\ i.from = 0 /\ i.to = 0 /\ i.begins = 0
        /\ i.state.rec = NoRecovery
    BY <2>2, <2>3, <2>4, IssueNotes
  <2>6. /\ q.status = i.status /\ q.from = i.from /\ q.to = i.to /\ q.begins = i.begins
        /\ q.state = i.state
    <3>1. i = [d EXCEPT !.state = i.state, !.fresh = i.fresh]
      BY <2>4 DEF Issue, Plans
    <3> HIDE DEF i
    <3>2. QED
      BY <2>4, <3>1 DEF Plans
  <2> HIDE DEF i, q
  <2>7. RangeKnown(q.state) /\ q.state.rec.kind # "direct"
    BY <2>5, <2>6, NoRecoveryType DEF RangeKnown
  <2>8. 0 \in Numbers
    BY FrameStateAssumption DEF Numbers
  <2>9. QED
    BY <1>2, <2>1, <2>5, <2>6, <2>7, <2>8, OfferDetached
<1>5. QED
  BY <1>3, <1>4

(* A recovery of a Logon that goes on keeps the number of that Logon.      *)
LEMMA ReattachLogon789Rec ==
    ASSUME Inv, RInv, InboundDetached, NEW p \in {0, want}, ReattachLogon789(p)
    PROVE  RInv'
<1> DEFINE a == cache.rec.phase # "prefix"
           k == IF cache.rec.phase = "response" THEN NoContinuation ELSE Resend(cache.rec.cursor)
           s == [cache EXCEPT !.attached = a, !.count = 0, !.cont = k]
           q == StatePlan(s)
<1>1. CanPrepare /\ cache.rec.kind = "logon789" /\ Prepare(q)
  BY DEF ReattachLogon789, Prepare
<1>2. cache \in NativeState /\ cache.attached = FALSE
  BY <1>1, DetachedContext
<1>3. k \in Continuations /\ a \in BOOLEAN
  BY <1>2, StateFields, RecoveryFields, ContinuationType
<1> HIDE DEF a, k
<1>4. s \in NativeState /\ s.rec = cache.rec
  BY <1>2, <1>3 DEF NativeState
<1> HIDE DEF s
<1>5. /\ q.status = "ready" /\ q.state = s /\ q.from = 0 /\ q.to = 0 /\ q.begins = 0
  BY <1>4, PlanNotes
<1> HIDE DEF q
<1>6. RangeKnown(q.state) /\ q.state.rec.kind # "direct"
  BY <1>1, <1>4, <1>5, RequestContext DEF RangeKnown
<1>7. 0 \in Numbers
  BY FrameStateAssumption DEF Numbers
<1>8. QED
  BY <1>1, <1>2, <1>5, <1>6, <1>7, OfferDetached

(* Going back to what the Logon names keeps the range behind the peer: the *)
(* number it names is at or behind the cursor, or the host has handed over *)
(* everything below the end.                                               *)
LEMMA RewindCovers ==
    ASSUME Inv, RInv, CanPrepare, InboundDetached, NEW p \in {0, want},
           cache.rec.kind = "direct", InitialResponse(p) \/ LostResponse(p)
    PROVE  /\ Reattached(p) \in NativeState /\ Reattached(p).rec.kind = "direct"
           /\ Reattached(p).cont = NoContinuation
           /\ Reattached(p).sender = cache.sender
           /\ Reattached(p).rec.end <= cache.sender
           /\ Reattached(p).rec.cursor \in Nat
           /\ told \/ p # 0 => Reattached(p).rec.cursor <= reach
<1>1. /\ cache \in NativeState /\ validNativeState(cache) /\ RangeKnown(cache)
      /\ Covered(cache, told, begun, reach)
      /\ want \in Nat /\ want > 0 /\ reach \in Nat /\ want <= reach
  BY RequestContext
<1>2. /\ cache.rec.begin \in Nat /\ cache.rec.cursor \in Nat /\ cache.rec.end \in Nat
      /\ cache.rec.cursor < cache.rec.end /\ cache.rec \in Recoveries
  BY <1>1, DirectContext, StateFields DEF validRangeTriple
<1>3. cache.sender \in Nat /\ cache.sender > 0 /\ original \in Nat
  BY <1>1, DetachedContext
<1>4. p \in Nat /\ (p = 0 \/ p >= cache.rec.begin)
  BY <1>1, <1>2, <1>3, NamedNumber DEF InitialResponse, LostResponse
<1>5. /\ Reattached(p) \in NativeState /\ Reattached(p).rec.kind = "direct"
      /\ Reattached(p).cont = NoContinuation /\ Reattached(p).sender = cache.sender
  BY <1>1, <1>4, ReattachedFields
<1> DEFINE c == IF p # 0 /\ p < original /\ p < cache.rec.cursor THEN p ELSE cache.rec.cursor
<1>6. Reattached(p).rec.cursor = c /\ Reattached(p).rec.end = cache.rec.end
  BY <1>1, <1>2 DEF Reattached, NativeState, Recoveries
<1>7. cache.rec.end <= cache.sender
  BY <1>1 DEF RangeKnown
<1>8. CASE p = 0
  <2>1. told => cache.rec.cursor <= reach
    BY <1>1 DEF Covered
  <2>2. QED
    BY <1>2, <1>5, <1>6, <1>7, <1>8, <2>1
<1>9. CASE p # 0
  <2>1. p = want
    BY <1>9
  <2>2. p < original \/ cache.rec.cursor <= p
    BY <1>2, <1>3, <1>4, <1>7, <1>9 DEF InitialResponse, LostResponse
  <2>3. c \in Nat /\ c <= reach
    BY <1>1, <1>2, <1>3, <2>1, <2>2
  <2>4. QED
    BY <1>5, <1>6, <1>7, <2>3
<1>10. QED
  BY <1>8, <1>9

(* A direct recovery goes on behind the response to the new Logon.         *)
LEMMA ReattachDirectRec ==
    ASSUME Inv, RInv, InboundDetached, NEW p \in {0, want}, ReattachDirect(p)
    PROVE  RInv'
<1> DEFINE s == Reattached(p)
           t == p # 0
           d == StatePlan(s)
           kinds == <<"logon">>
           i == Issue(d, kinds)
           q == [i EXCEPT !.told = t]
<1>1. CanPrepare /\ Prepare(q) /\ cache.rec.kind = "direct" /\ InitialResponse(p)
  BY DEF ReattachDirect, Prepare
<1>2. /\ s \in NativeState /\ s.rec.kind = "direct" /\ s.sender = cache.sender
      /\ s.rec.end <= cache.sender /\ s.rec.cursor \in Nat
      /\ told \/ t => s.rec.cursor <= reach
  BY <1>1, RewindCovers
<1>3. kinds \in Seq(Kinds)
  BY AdminKinds
<1>4. ~cache.attached
  BY <1>1, DetachedContext
<1> HIDE DEF s, t, kinds
<1>5. /\ d \in Plans /\ d.status = "ready" /\ d.state = s /\ d.from = 0 /\ d.to = 0
      /\ d.begins = 0
  BY <1>2, PlanNotes
<1> HIDE DEF d
<1>6. /\ i.status = "ready" /\ i.from = 0 /\ i.to = 0 /\ i.begins = 0
      /\ i.state.rec = s.rec /\ i.state.sender \in Nat /\ s.sender <= i.state.sender
  BY <1>3, <1>5, IssueNotes
<1>7. /\ q.status = i.status /\ q.from = i.from /\ q.to = i.to /\ q.begins = i.begins
      /\ q.state = i.state /\ q.told = t
  <2>1. i = [d EXCEPT !.state = i.state, !.fresh = i.fresh]
    BY <1>5 DEF Issue, Plans
  <2> HIDE DEF i
  <2>2. QED
    BY <1>5, <2>1 DEF Plans
<1> HIDE DEF i, q
<1>8. RangeKnown(q.state)
  <2>1. s.rec.end \in Nat /\ s.sender \in Nat
    BY <1>2, StateFields, RecoveryFields
  <2>2. QED
    BY <1>2, <1>6, <1>7, <2>1 DEF RangeKnown
<1>9. 0 \in Numbers
  BY FrameStateAssumption DEF Numbers
<1>10. QED
  BY <1>1, <1>2, <1>4, <1>6, <1>7, <1>8, <1>9, OfferDetached

(* It does so when that response has to be read back, too.                 *)
LEMMA ReattachLostRec ==
    ASSUME Inv, RInv, InboundDetached, NEW p \in {0, want}, ReattachLost(p)
    PROVE  RInv'
<1> DEFINE s == Reattached(p)
           a == cache.sender - 1
           b == cache.sender
           d == StatePlan(s)
           q == [d EXCEPT !.status = "store", !.told = TRUE, !.from = a, !.to = b]
<1>1. /\ CanPrepare /\ Prepare(q) /\ cache.rec.kind = "direct" /\ LostResponse(p)
      /\ cache.rec # NoRecovery => cache.cont = NoContinuation
  BY DEF ReattachLost, Prepare, InboundDetached
<1>2. p # 0 /\ cache.sender > 1
  BY <1>1 DEF LostResponse
<1>3. /\ s \in NativeState /\ s.rec.kind = "direct" /\ s.sender = cache.sender
      /\ s.rec.end <= cache.sender /\ s.rec.cursor \in Nat /\ s.cont = NoContinuation
      /\ s.rec.cursor <= reach
  BY <1>1, <1>2, RewindCovers
<1>4. ~cache.attached /\ cache.sender \in Nat /\ cache.sender <= Bound
  BY <1>1, DetachedContext
<1>5. a \in Numbers /\ b \in Numbers
  BY <1>2, <1>4, FrameStateAssumption DEF Numbers
<1> HIDE DEF s, a, b
<1>6. /\ d \in Plans /\ d.state = s /\ d.begins = 0 /\ d.drop = FALSE
  BY <1>3, PlanNotes
<1> HIDE DEF d
<1>7. /\ q.status = "store" /\ q.from = a /\ q.to = b /\ q.begins = 0
      /\ q.state = s /\ q.drop = FALSE
  BY <1>6 DEF Plans
<1> HIDE DEF q
<1>8. RangeKnown(q.state)
  BY <1>3, <1>7 DEF RangeKnown
<1>9. cache.cont.kind # "resend" /\ q.state.cont.kind # "resend"
  BY <1>1, <1>3, <1>7, NoRecoveryType, ContinuationType
<1>10. QED
  BY <1>1, <1>3, <1>4, <1>5, <1>7, <1>8, <1>9, OfferDetached

(* A Logon that fits no recovery gives the connection up.                  *)
LEMMA RefuseReattachRec ==
    ASSUME Inv, RInv, InboundDetached, NEW p \in {0, want}, RefuseReattach(p)
    PROVE  RInv'
<1> DEFINE s == [cache EXCEPT !.count = 0, !.cont = NoContinuation]
           t == p # 0
           d == Dropping(s)
           q == [d EXCEPT !.told = t]
<1>1. CanPrepare /\ Prepare(q) /\ t \in BOOLEAN
  BY DEF RefuseReattach, Prepare
<1>2. cache \in NativeState
  BY <1>1, RequestContext
<1>3. s \in NativeState /\ s.rec = cache.rec /\ s.sender = cache.sender
  BY <1>2, ContinuationType DEF NativeState
<1> HIDE DEF s, t
<1>4. /\ d \in Plans /\ d.status = "ready" /\ d.state = s /\ d.from = 0 /\ d.to = 0
      /\ d.begins = 0 /\ d.drop = TRUE
  BY <1>3, PlanNotes
<1> HIDE DEF d
<1>5. /\ q.status = "ready" /\ q.state = s /\ q.from = 0 /\ q.to = 0
      /\ q.begins = 0 /\ q.drop = TRUE /\ q.told = t
  BY <1>4 DEF Plans
<1> HIDE DEF q
<1>6. 0 \in Numbers
  BY FrameStateAssumption DEF Numbers
<1>7. q.state.sender \in Nat /\ cache.sender <= q.state.sender
  BY <1>2, <1>3, <1>5, StateFields
<1>8. QED
  BY <1>1, <1>3, <1>5, <1>6, <1>7, OfferSteady

(* Every Logon of the peer.                                                *)
LEMMA LogonRec == Inv /\ RInv /\ Logon => RInv'
<1> SUFFICES ASSUME Inv, RInv, Logon PROVE RInv'
  OBVIOUS
<1>1. InboundDetached
  BY DEF Logon
<1>2. PICK p \in {0, want} :
         \/ ReconcileLogon(p) \/ HoldLogon(p) \/ AcceptLogon(p)
         \/ ReattachLogon789(p)
         \/ ReattachDirect(p) \/ ReattachLost(p) \/ RefuseReattach(p)
  BY DEF Logon
<1>3. QED
  BY <1>1, <1>2, ReconcileLogonRec, HoldLogonRec, AcceptLogonRec, ReattachLogon789Rec,
     ReattachDirectRec, ReattachLostRec, RefuseReattachRec

(* A Logon of the host finds no recovery.                                  *)
LEMMA AdminLogonRec == Inv /\ RInv /\ AdminLogon => RInv'
<1> SUFFICES ASSUME Inv, RInv, AdminLogon PROVE RInv'
  OBVIOUS
<1> DEFINE s == [cache EXCEPT !.attached = TRUE, !.count = 0]
           d == StatePlan(s)
           kinds == <<"logon">>
           q == Issue(d, kinds)
<1>1. CanPrepare /\ Prepare(q) /\ ~cache.attached /\ cache.rec = NoRecovery
  BY DEF AdminLogon, Request, Prepare
<1>2. cache \in NativeState
  BY <1>1, RequestContext
<1>3. s \in NativeState /\ s.rec = NoRecovery
  BY <1>1, <1>2 DEF NativeState
<1>4. kinds \in Seq(Kinds)
  BY AdminKinds
<1> HIDE DEF s, kinds
<1>5. /\ d \in Plans /\ d.status = "ready" /\ d.state = s /\ d.from = 0 /\ d.to = 0
      /\ d.begins = 0
  BY <1>3, PlanNotes
<1> HIDE DEF d
<1>6. /\ q.status = "ready" /\ q.from = 0 /\ q.to = 0 /\ q.begins = 0
      /\ q.state.rec = NoRecovery
  BY <1>3, <1>4, <1>5, IssueNotes
<1> HIDE DEF q
<1>7. RangeKnown(q.state) /\ q.state.rec.kind # "direct"
  BY <1>6, NoRecoveryType DEF RangeKnown
<1>8. 0 \in Numbers
  BY FrameStateAssumption DEF Numbers
<1>9. QED
  BY <1>1, <1>6, <1>7, <1>8, OfferDetached

-----------------------------------------------------------------------------
(* A ResendRequest, and the recovery that follows.                         *)

(* The range begins where the peer is.                                     *)
LEMMA ResendBeginsRec ==
    ASSUME Inv, RInv, cache.rec = NoRecovery, cache.attached,
           NEW end \in Numbers, end <= cache.sender, want <= end,
           Prepare([ResendBegins(end) EXCEPT !.told = TRUE])
    PROVE  RInv'
<1>1. CanPrepare
  BY DEF Prepare
<1>2. /\ cache \in NativeState /\ Covered(cache, told, begun, reach)
      /\ want \in Nat /\ reach \in Nat /\ want <= reach /\ begun \in Nat
      /\ told \in BOOLEAN
  BY <1>1, RequestContext
<1>3. cache.rec.kind = "none"
  BY NoRecoveryType
<1>4. 0 \in Numbers /\ want \in Numbers
  BY FrameStateAssumption DEF Inv, TypeOK, Numbers
<1>5. CASE want = end
  <2> DEFINE s == [cache EXCEPT !.count = 0]
             d == StatePlan(s)
             q == [d EXCEPT !.told = TRUE]
  <2>1. Prepare(q)
    BY <1>5 DEF ResendBegins
  <2>2. /\ s \in NativeState /\ s.rec = cache.rec /\ s.attached = cache.attached
        /\ s.sender = cache.sender
    BY <1>2, CountType
  <2> HIDE DEF s
  <2>3. /\ d \in Plans /\ d.status = "ready" /\ d.state = s /\ d.from = 0 /\ d.to = 0
        /\ d.begins = 0
    BY <2>2, PlanNotes
  <2> HIDE DEF d
  <2>4. /\ q.status = "ready" /\ q.state = s /\ q.from = 0 /\ q.to = 0 /\ q.begins = 0
        /\ q.told = TRUE
    BY <2>3 DEF Plans
  <2> HIDE DEF q
  <2>5. q.state.sender \in Nat /\ cache.sender <= q.state.sender
    BY <2>2, <2>4, StateFields
  <2>6. q.told \in BOOLEAN
    BY <2>4
  <2>7. QED
    BY <1>3, <1>4, <2>1, <2>2, <2>4, <2>5, <2>6, OfferSteady
<1>6. CASE want # end
  <2> DEFINE r == Recovery("direct", "stored", want, end, want, 0)
             k == Resend(want)
             s == [cache EXCEPT !.count = 0, !.rec = r, !.cont = k]
             d == StatePlan(s)
             q == [d EXCEPT !.told = TRUE]
  <2>1. Prepare(q)
    BY <1>6 DEF ResendBegins
  <2>2. r \in Recoveries /\ r.kind = "direct" /\ r.cursor = want /\ r.end = end
    BY <1>4, RecoveryType
  <2>3. k \in Continuations
    BY <1>2, ContinuationType
  <2> HIDE DEF r, k
  <2>4. s \in NativeState /\ s.rec = r /\ s.attached = cache.attached /\ s.sender = cache.sender
    BY <1>2, <2>2, <2>3 DEF NativeState
  <2> HIDE DEF s
  <2>5. /\ d \in Plans /\ d.status = "ready" /\ d.state = s /\ d.from = 0 /\ d.to = 0
        /\ d.begins = 0
    BY <2>4, PlanNotes
  <2> HIDE DEF d
  <2>6. /\ q.status = "ready" /\ q.state = s /\ q.from = 0 /\ q.to = 0 /\ q.begins = 0
        /\ q.told = TRUE
    BY <2>5 DEF Plans
  <2> HIDE DEF q
  <2>7. RangeKnown(q.state)
    BY <2>2, <2>4, <2>6 DEF RangeKnown
  <2>8. Reaches(q) = reach
    BY <2>6 DEF Reaches
  <2>9. begun # 0 => reach > begun
    BY <1>2, <1>3 DEF Covered
  <2>10. Covered(q.state, TRUE, begun, reach)
    BY <1>2, <2>2, <2>4, <2>6, <2>9 DEF Covered
  <2>11. (told \/ q.told) = TRUE
    BY <2>6
  <2>12. PlanCovered(q)
    BY <2>6, <2>7, <2>8, <2>10, <2>11 DEF PlanCovered, Begins
  <2>13. Follows(q)
    BY <2>6 DEF Follows
  <2>14. QED
    BY <2>1, <2>12, <2>13, OfferCovered
<1>7. QED
  BY <1>5, <1>6

(* The range filled at once answers a session without a recovery.          *)
LEMMA ResendFilledRec ==
    ASSUME Inv, RInv, cache.rec = NoRecovery, NEW end \in Numbers,
           Prepare([ResendFilled(end) EXCEPT !.told = TRUE])
    PROVE  RInv'
<1> DEFINE s == [cache EXCEPT !.count = 0]
           d == StatePlan(s)
           f == want .. end - 1
           e == [d EXCEPT !.from = want, !.to = end, !.filled = f]
           q == [e EXCEPT !.told = TRUE]
<1>1. CanPrepare /\ Prepare(q)
  BY DEF ResendFilled, Prepare
<1>2. cache \in NativeState /\ validNativeState(cache)
  BY <1>1, RequestContext
<1>3. cache.rec.kind # "direct" /\ cache.cont.kind # "resend"
  BY <1>2, NoRecoveryType, IdleContext, ContinuationType DEF IdleContinuation
<1>4. want \in Numbers
  BY FrameStateAssumption DEF Inv, TypeOK, Numbers
<1>5. /\ s \in NativeState /\ s.rec = cache.rec /\ s.attached = cache.attached
      /\ s.sender = cache.sender
  BY <1>2, CountType
<1> HIDE DEF s, f
<1>6. d \in Plans /\ d.status = "ready" /\ d.state = s /\ d.begins = 0
  BY <1>5, PlanNotes
<1> HIDE DEF d
<1>7. /\ q.status = "ready" /\ q.state = s /\ q.begins = 0 /\ q.told = TRUE
      /\ q.from = want /\ q.to = end
  BY <1>6 DEF Plans
<1> HIDE DEF q
<1>8. q.state.sender \in Nat /\ cache.sender <= q.state.sender
  BY <1>5, <1>7, StateFields
<1>9. q.told \in BOOLEAN
  BY <1>7
<1>10. QED
  BY <1>1, <1>3, <1>4, <1>5, <1>7, <1>8, <1>9, OfferSteady

(* Every ResendRequest.                                                    *)
LEMMA ResendRequestRec == Inv /\ RInv /\ ResendRequest => RInv'
<1> SUFFICES ASSUME Inv, RInv, ResendRequest PROVE RInv'
  OBVIOUS
<1>1. cache.attached /\ cache.rec = NoRecovery
  BY DEF ResendRequest, attachedForAdmin
<1>2. PICK e \in {0} \union want .. cache.sender - 1 :
         LET end == IF e = 0 THEN cache.sender ELSE e + 1
         IN  /\ want <= end
             /\ Request([IF cache.cont = NoContinuation THEN ResendBegins(end)
                         ELSE ResendFilled(end) EXCEPT !.told = TRUE])
  BY DEF ResendRequest
<1> DEFINE end == IF e = 0 THEN cache.sender ELSE e + 1
<1>3. /\ want <= end
      /\ \/ Prepare([ResendBegins(end) EXCEPT !.told = TRUE])
         \/ Prepare([ResendFilled(end) EXCEPT !.told = TRUE])
  BY <1>2 DEF Request
<1>4. cache.sender \in 1 .. Bound /\ want \in Nat
  BY StateFields, FrameStateAssumption DEF Inv, TypeOK
<1>5. end \in Numbers /\ end <= cache.sender
  BY <1>4, FrameStateAssumption DEF Numbers
<1> HIDE DEF end
<1>6. QED
  BY <1>1, <1>3, <1>5, ResendBeginsRec, ResendFilledRec

(* Passing the barrier moves nothing.                                      *)
LEMMA PassBarrierRec == Inv /\ RInv /\ PassBarrier => RInv'
<1> SUFFICES ASSUME Inv, RInv, PassBarrier PROVE RInv'
  OBVIOUS
<1> DEFINE k == Resend(cache.rec.cursor)
           s == [cache EXCEPT !.cont = k]
<1>1. CanPrepare /\ Prepare(StatePlan(s))
  BY DEF PassBarrier, Request, Prepare
<1>2. cache \in NativeState
  BY <1>1, RequestContext
<1>3. k \in Continuations
  BY <1>2, StateFields, RecoveryFields, ContinuationType
<1> HIDE DEF k
<1>4. /\ s \in NativeState /\ s.rec = cache.rec /\ s.attached = cache.attached
      /\ s.sender = cache.sender
  BY <1>2, <1>3 DEF NativeState
<1> HIDE DEF s
<1>5. QED
  BY <1>1, <1>4, StateSteady

(* A page that was asked for and not yet read.                             *)
LEMMA OfferPage ==
    ASSUME Inv, RInv, NEW s \in NativeState, NEW from \in Nat,
           Prepare(Page(StatePlan(s), from)),
           RangeKnown(s), Covered(s, told, begun, reach),
           cache.cont.kind = "resend" => s = cache
    PROVE  RInv'
<1> DEFINE d == StatePlan(s)
           q == Page(d, from)
<1>1. /\ d \in Plans /\ d.state = s /\ d.begins = 0 /\ d.told = FALSE /\ d.drop = FALSE
  BY PlanNotes
<1>2. Prepare(q)
  OBVIOUS
<1> HIDE DEF d
<1>3. /\ q.status = "store" /\ q.state = s /\ q.begins = 0 /\ q.told = FALSE
      /\ q.drop = FALSE
  BY <1>1 DEF Page, Plans
<1> HIDE DEF q
<1>4. (told \/ q.told) = told
  BY <1>3 DEF Inv, TypeOK
<1>5. PlanCovered(q)
  BY <1>3, <1>4 DEF PlanCovered, Waiting, Begins
<1>6. QED
  BY <1>2, <1>3, <1>5, OfferCovered

(* The next page is asked for where the recovery stands.                   *)
LEMMA NextPageRec == Inv /\ RInv /\ NextPage => RInv'
<1> SUFFICES ASSUME Inv, RInv, NextPage PROVE RInv'
  OBVIOUS
<1>1. CanPrepare /\ Prepare(Page(StatePlan(cache), cache.rec.cursor))
  BY DEF NextPage, Request, Prepare
<1>2. cache \in NativeState /\ RangeKnown(cache) /\ Covered(cache, told, begun, reach)
  BY <1>1, RequestContext
<1>3. cache.rec.cursor \in Nat
  BY <1>2, StateFields, RecoveryFields
<1>4. QED
  BY <1>1, <1>2, <1>3, OfferPage

(* The range below the response is the one from the number of the Logon.   *)
LEMMA RangeAfterResponseRec == Inv /\ RInv /\ RangeAfterResponse => RInv'
<1> SUFFICES ASSUME Inv, RInv, RangeAfterResponse PROVE RInv'
  OBVIOUS
<1> DEFINE lowest == cache.rec.peer
           b == cache.rec.begin
           r == Recovery("logon789", "stored", lowest, b, lowest, lowest)
           k == Resend(lowest)
           s == [cache EXCEPT !.rec = r, !.cont = k]
<1>1. /\ CanPrepare /\ Prepare(Page(StatePlan(s), lowest))
      /\ cache.rec.phase = "response" /\ cache.attached
  BY DEF RangeAfterResponse, Request, Prepare
<1>2. /\ cache \in NativeState /\ validNativeState(cache)
      /\ RangeKnown(cache) /\ Covered(cache, told, begun, reach)
      /\ want \in Nat /\ reach \in Nat /\ want <= reach
  BY <1>1, RequestContext
<1>3. cache.rec.kind = "logon789" /\ cache.cont.kind # "resend"
  BY <1>1, <1>2, NoRecoveryType, ContinuationType
     DEF validNativeState, ValidDirect, ValidLogon789, ValidPrefix, ValidResponse,
         ValidStored, ValidFinal, DetachedState, AttachedNoContinuation
<1>4. lowest \in Nat /\ lowest <= want
  BY <1>2, <1>3, StateFields, RecoveryFields DEF RangeKnown
<1>5. begun # 0 => b = begun
  BY <1>1, <1>2, <1>3 DEF Covered
<1>6. lowest \in Numbers /\ b \in Numbers
  BY <1>2, StateFields DEF Recoveries
<1> HIDE DEF lowest, b
<1>7. /\ r \in Recoveries /\ r.kind = "logon789" /\ r.phase = "stored"
      /\ r.end = b /\ r.cursor = lowest /\ r.peer = lowest
  BY <1>6, RecoveryType
<1>8. k \in Continuations
  BY <1>4, ContinuationType
<1> HIDE DEF r, k
<1>9. s \in NativeState /\ s.rec = r /\ s.attached = cache.attached
  BY <1>2, <1>7, <1>8 DEF NativeState
<1> HIDE DEF s
<1>10. RangeKnown(s)
  BY <1>4, <1>7, <1>9 DEF RangeKnown
<1>11. lowest <= reach
  BY <1>2, <1>4
<1>12. Covered(s, told, begun, reach)
  BY <1>1, <1>5, <1>7, <1>9, <1>11 DEF Covered
<1>13. QED
  BY <1>1, <1>3, <1>4, <1>9, <1>10, <1>12, OfferPage

(* A prefix that is confirmed in part stays held back; the last part       *)
(* begins the recovery or ends it.                                         *)
LEMMA ConfirmPrefixRec == Inv /\ RInv /\ ConfirmPrefix => RInv'
<1> SUFFICES ASSUME Inv, RInv, ConfirmPrefix PROVE RInv'
  OBVIOUS
<1>1. PICK o \in cache.rec.cursor + 1 .. cache.rec.end :
          \/ Request([StatePlan([cache EXCEPT !.rec.cursor = o, !.cont = Resend(o)])
                         EXCEPT !.handed = o])
          \/ Request([Issue(StatePlan([cache EXCEPT !.attached = TRUE,
                                          !.rec = NoRecovery, !.cont = NoContinuation]),
                            <<"logon">>) EXCEPT !.handed = o])
          \/ Request([Issue(StatePlan(AwaitResponse(cache, cache.rec.peer)), <<"logon">>)
                         EXCEPT !.handed = cache.sender, !.begins = cache.sender])
  BY DEF ConfirmPrefix
<1>2. CanPrepare /\ cache.rec.phase = "prefix"
  BY <1>1 DEF Request, Prepare, ConfirmPrefix
<1>3. /\ cache \in NativeState /\ validNativeState(cache) /\ RangeKnown(cache)
  BY <1>2, RequestContext
<1>4. /\ cache.rec.kind = "logon789" /\ ~cache.attached
      /\ cache.rec.cursor \in Nat /\ cache.rec.end \in Nat /\ cache.rec.end <= Bound
      /\ cache.rec.peer \in Nat /\ cache.sender < Bound
  BY <1>2, <1>3, PrefixContext DEF validRangeTriple
<1>5. o \in Nat /\ o \in Numbers /\ 0 \in Numbers
  BY <1>4, FrameStateAssumption DEF Numbers
<1>6. ASSUME Request([StatePlan([cache EXCEPT !.rec.cursor = o, !.cont = Resend(o)])
                         EXCEPT !.handed = o])
      PROVE  RInv'
  <2> DEFINE r == [cache.rec EXCEPT !.cursor = o]
             k == Resend(o)
             s == [cache EXCEPT !.rec = r, !.cont = k]
             d == StatePlan(s)
             q == [d EXCEPT !.handed = o]
  <2>1. cache.rec \in Recoveries
    BY <1>3, StateFields
  <2>2. [cache EXCEPT !.rec.cursor = o, !.cont = Resend(o)] = s
    BY <1>3, <2>1 DEF NativeState, Recoveries
  <2>3. r \in Recoveries /\ r.kind = "logon789" /\ r.peer = cache.rec.peer
    BY <1>4, <1>5, <2>1 DEF Recoveries
  <2>4. k \in Continuations
    BY <1>5, ContinuationType
  <2>5. Prepare(q)
    BY <1>6, <2>2 DEF Request
  <2> HIDE DEF r, k
  <2>6. s \in NativeState /\ s.rec = r
    BY <1>3, <2>3, <2>4 DEF NativeState
  <2> HIDE DEF s
  <2>7. /\ d \in Plans /\ d.status = "ready" /\ d.state = s /\ d.from = 0 /\ d.to = 0
        /\ d.begins = 0
    BY <2>6, PlanNotes
  <2> HIDE DEF d
  <2>8. q.status = "ready" /\ q.state = s /\ q.from = 0 /\ q.to = 0 /\ q.begins = 0
    BY <2>7 DEF Plans
  <2> HIDE DEF q
  <2>9. RangeKnown(q.state) /\ q.state.rec.kind # "direct"
    BY <1>3, <1>4, <2>3, <2>6, <2>8 DEF RangeKnown
  <2>10. QED
    BY <1>4, <1>5, <2>5, <2>8, <2>9, OfferDetached
<1>7. ASSUME Request([Issue(StatePlan([cache EXCEPT !.attached = TRUE,
                                          !.rec = NoRecovery, !.cont = NoContinuation]),
                            <<"logon">>) EXCEPT !.handed = o])
      PROVE  RInv'
  <2> DEFINE s == [cache EXCEPT !.attached = TRUE, !.rec = NoRecovery, !.cont = NoContinuation]
             d == StatePlan(s)
             kinds == <<"logon">>
             i == Issue(d, kinds)
             q == [i EXCEPT !.handed = o]
  <2>1. Prepare(q)
    BY <1>7 DEF Request
  <2>2. s \in NativeState /\ s.rec = NoRecovery
    BY <1>3, NoRecoveryType, ContinuationType DEF NativeState
  <2>3. kinds \in Seq(Kinds)
    BY AdminKinds
  <2> HIDE DEF s, kinds
  <2>4. /\ d \in Plans /\ d.status = "ready" /\ d.state = s /\ d.from = 0 /\ d.to = 0
        /\ d.begins = 0
    BY <2>2, PlanNotes
  <2> HIDE DEF d
  <2>5. /\ i.status = "ready" /\ i.from = 0 /\ i.to = 0 /\ i.begins = 0
        /\ i.state.rec = NoRecovery
    BY <2>2, <2>3, <2>4, IssueNotes
  <2>6. /\ q.status = i.status /\ q.from = i.from /\ q.to = i.to /\ q.begins = i.begins
        /\ q.state = i.state
    <3>1. i = [d EXCEPT !.state = i.state, !.fresh = i.fresh]
      BY <2>4 DEF Issue, Plans
    <3> HIDE DEF i
    <3>2. QED
      BY <2>4, <3>1 DEF Plans
  <2> HIDE DEF i, q
  <2>7. RangeKnown(q.state) /\ q.state.rec.kind # "direct"
    BY <2>5, <2>6, NoRecoveryType DEF RangeKnown
  <2>8. QED
    BY <1>4, <1>5, <2>1, <2>5, <2>6, <2>7, OfferDetached
<1>8. ASSUME Request([Issue(StatePlan(AwaitResponse(cache, cache.rec.peer)), <<"logon">>)
                         EXCEPT !.handed = cache.sender, !.begins = cache.sender])
      PROVE  RInv'
  <2>1. cache.rec.peer \in Numbers /\ cache.rec.peer <= want
    BY <1>3, <1>4, StateFields DEF RangeKnown, Recoveries
  <2>2. PICK i : /\ i = Issue(StatePlan(AwaitResponse(cache, cache.rec.peer)), <<"logon">>)
                 /\ Prepare([i EXCEPT !.handed = cache.sender, !.begins = cache.sender])
    BY <1>8 DEF Request
  <2>3. QED
    BY <1>4, <2>1, <2>2, AwaitRec
<1>9. QED
  BY <1>1, <1>6, <1>7, <1>8

-----------------------------------------------------------------------------
(* The rows of a page.                                                     *)

(* The rows up to n bring the peer to n, and the recovery stands there; at *)
(* its end the peer is past the response that began it.                    *)
LEMMA ResumedCovered ==
    ASSUME NEW s \in NativeState, validNativeState(s), s.rec.phase \in {"stored", "final"},
           NEW n \in s.rec.cursor + 1 .. s.rec.end, NEW t, NEW b \in Nat,
           NEW r \in Nat, NEW r2 \in Nat, Covered(s, t, b, r), r <= r2,
           s.rec.cursor <= r => n <= r2, RangeKnown(s)
    PROVE  Covered(Resumed(s, n), t, b, r2) /\ RangeKnown(Resumed(s, n))
<1>1. /\ s.rec \in Recoveries /\ s.rec.cursor \in Nat /\ s.rec.end \in Nat /\ s.sender \in Nat
      /\ s.rec.begin \in Nat /\ n \in Nat
  BY StateFields, RecoveryFields
<1>2. /\ s.rec # NoRecovery /\ (ValidDirect(s) \/ ValidLogon789(s))
  BY NoRecoveryType DEF validNativeState
<1>3. s.rec.kind = "direct" \/ s.rec.kind = "logon789"
  BY <1>2 DEF ValidDirect, ValidLogon789
<1> DEFINE u == Resumed(s, n)
<1>4. CASE n # s.rec.end
  <2> DEFINE k == Resend(n)
  <2>1. u = [s EXCEPT !.rec.cursor = n, !.cont = k]
    BY <1>4 DEF Resumed
  <2> HIDE DEF u, k
  <2>2. /\ u.attached = s.attached /\ u.sender = s.sender /\ u.rec.kind = s.rec.kind
        /\ u.rec.phase = s.rec.phase /\ u.rec.begin = s.rec.begin
        /\ u.rec.end = s.rec.end /\ u.rec.peer = s.rec.peer /\ u.rec.cursor = n
    BY <1>1, <2>1 DEF NativeState, Recoveries
  <2>3. RangeKnown(u)
    BY <2>2 DEF RangeKnown
  <2>4. Covered(u, t, b, r2)
    BY <1>1, <1>3, <2>2 DEF Covered
  <2>5. QED
    BY <2>3, <2>4 DEF u
<1>5. CASE n = s.rec.end /\ s.rec.kind = "logon789" /\ s.rec.phase = "stored"
  <2> DEFINE a == s.sender - 1
             m == s.sender
             c == s.rec.peer
             f == Recovery("logon789", "final", a, m, a, c)
             k == Resend(a)
  <2>1. u = [s EXCEPT !.rec = f, !.cont = k]
    BY <1>5 DEF Resumed
  <2>2. ValidStored(s)
    BY <1>2, <1>5 DEF ValidDirect, ValidLogon789, ValidPrefix, ValidResponse, ValidFinal
  <2>3. a = n /\ a \in Nat
    BY <1>1, <1>5, <2>2 DEF ValidStored
  <2>4. a \in Numbers /\ m \in Numbers /\ c \in Numbers
    BY <1>1, <1>5, <2>3, StateFields, FrameStateAssumption DEF Recoveries, Numbers
  <2> HIDE DEF u, a, m, c, k
  <2>5. /\ f.kind = "logon789" /\ f.phase = "final" /\ f.begin = a /\ f.cursor = a
        /\ f.peer = c
    BY <2>4, RecoveryType
  <2> HIDE DEF f
  <2>6. u.attached = s.attached /\ u.rec = f
    BY <2>1 DEF NativeState
  <2>7. RangeKnown(u)
    BY <1>5, <2>5, <2>6 DEF RangeKnown, c
  <2>8. Covered(u, t, b, r2)
    BY <1>1, <1>5, <2>3, <2>5, <2>6 DEF Covered
  <2>9. QED
    BY <2>7, <2>8 DEF u
<1>6. CASE n = s.rec.end /\ ~(s.rec.kind = "logon789" /\ s.rec.phase = "stored")
  <2>1. u = [s EXCEPT !.rec = NoRecovery, !.cont = NoContinuation]
    BY <1>6 DEF Resumed
  <2> HIDE DEF u
  <2>2. u.attached = s.attached /\ u.rec.kind = "none"
    BY <2>1, NoRecoveryType DEF NativeState
  <2>3. b # 0 => s.attached
    BY DEF Covered
  <2>4. b # 0 => r2 > b
    <3>1. CASE s.rec.kind = "direct"
      BY <3>1 DEF Covered
    <3>2. CASE s.rec.kind = "logon789"
      <4>1. s.rec.phase = "final" /\ s.rec.begin + 1 = s.rec.end
        BY <1>2, <1>6, <3>2 DEF ValidDirect, ValidLogon789, ValidPrefix, ValidResponse,
                                ValidStored, ValidFinal, OneNumber
      <4>2. QED
        BY <1>1, <1>6, <3>2, <4>1 DEF Covered
    <3>3. QED
      BY <1>3, <3>1, <3>2
  <2>5. RangeKnown(u) /\ Covered(u, t, b, r2)
    BY <2>2, <2>3, <2>4 DEF RangeKnown, Covered
  <2>6. QED
    BY <2>5 DEF u
<1>7. QED
  BY <1>4, <1>5, <1>6

(* A page that was read begins where the peer will be.                     *)
LEMMA ResumePageRec ==
    ASSUME Inv, RInv, ResumePage, UNCHANGED <<host, peer, cache, lost, stops>>
    PROVE  RInv'
<1>1. plan.status = "store" /\ plan.state.cont.kind = "resend"
  BY DEF ResumePage
<1>2. PICK n \in plan.from + 1 .. plan.to :
         Describe([plan EXCEPT !.status = "ready", !.state = Resumed(plan.state, n),
                      !.to = n, !.filled = {m \in plan.from .. n - 1 : rows[m] # "app"}])
  BY DEF ResumePage
<1> DEFINE s == plan.state
           u == Resumed(s, n)
           f == {m \in plan.from .. n - 1 : rows[m] # "app"}
           q == [plan EXCEPT !.status = "ready", !.state = u, !.to = n, !.filled = f]
<1>3. plan \in Plans /\ s \in NativeState
  BY <1>1, Pending
<1>4. /\ validNativeState(s) /\ s.rec.phase \in {"stored", "final"}
      /\ plan.from = s.rec.cursor /\ plan.to <= s.rec.end
  BY <1>1 DEF Inv, PendingOK, StoreOK
<1>5. /\ RangeKnown(s) /\ plan.begins = 0 /\ ~plan.told /\ ~plan.drop
      /\ cache.cont.kind = "resend" => s = cache
      /\ link = "up" => Covered(s, told \/ plan.told, begun, reach)
  BY <1>1 DEF RInv, PlanCovered, Waiting, Begins
<1>6. /\ s.rec.cursor \in Nat /\ s.rec.end \in Nat /\ s.rec.end <= Bound
      /\ plan.to \in Nat /\ plan.from \in Numbers
  BY <1>3, StateFields, RecoveryFields, FrameStateAssumption DEF Plans, Numbers
<1>7. /\ n \in s.rec.cursor + 1 .. s.rec.end /\ n \in Numbers
  BY <1>4, <1>6, FrameStateAssumption DEF Numbers
<1>8. Describe(q)
  BY <1>2
<1> HIDE DEF u, f
<1>9. /\ q.status = "ready" /\ q.state = u /\ q.from = plan.from /\ q.to = n
      /\ q.begins = 0 /\ q.told = plan.told /\ q.drop = plan.drop
  BY <1>3, <1>5 DEF Plans
<1> HIDE DEF q, s
<1>10. /\ Reaches(q) \in Nat /\ reach \in Nat /\ reach <= Reaches(q)
       /\ s.rec.cursor <= reach => n <= Reaches(q)
  <2>1. q.from \in Numbers /\ q.to \in Numbers /\ q.from < q.to
    BY <1>4, <1>6, <1>7, <1>9
  <2>2. QED
    BY <1>4, <1>9, <2>1, ReachesOK
<1>11. begun \in Nat
  BY FrameStateAssumption DEF Inv, TypeOK, Numbers
<1>12. RangeKnown(u)
  <2>1. Covered(s, FALSE, 0, reach) /\ 0 \in Nat
    BY DEF Covered
  <2>2. RangeKnown(Resumed(s, n))
    BY <1>3, <1>4, <1>5, <1>7, <1>10, <2>1, ResumedCovered, Zenon
  <2>3. QED
    BY <2>2 DEF u
<1>13. link = "up" => Covered(u, told \/ plan.told, begun, Reaches(q))
  BY <1>3, <1>4, <1>5, <1>7, <1>10, <1>11, ResumedCovered DEF u, s
<1>14. PlanCovered(q)
  BY <1>9, <1>12, <1>13 DEF PlanCovered, Begins
<1>15. Follows(q)
  <2> SUFFICES ASSUME cache.cont.kind = "resend",
                      (cache.rec.kind = "direct" /\ told) \/ begun # 0
               PROVE  q.from <= reach
    BY DEF Follows
  <2>1. link = "up" /\ s = cache
    BY <1>5 DEF RInv
  <2>2. Covered(s, told \/ plan.told, begun, reach)
    BY <1>5, <2>1
  <2>3. s.rec.kind = "direct" \/ s.rec.kind = "logon789"
    BY <1>3, <1>4, NoRecoveryType DEF validNativeState, ValidDirect, ValidLogon789, s
  <2>4. s.rec.cursor <= reach
    BY <1>4, <2>1, <2>2, <2>3 DEF Covered
  <2>5. QED
    BY <1>4, <1>9, <2>4
<1>16. QED
  BY <1>8, <1>9, <1>14, <1>15, DescribeCovered

(* The response read back follows no continuation.                         *)
LEMMA ResumeResponseRec ==
    ASSUME Inv, RInv, ResumeResponse, UNCHANGED <<host, peer, cache, lost, stops>>
    PROVE  RInv'
<1>1. plan.status = "store" /\ plan.state.cont = NoContinuation
  BY DEF ResumeResponse
<1>2. plan \in Plans /\ plan.state \in NativeState
  BY <1>1, Pending
<1>3. CASE rows[plan.from] = "logon"
  <2> DEFINE q == [plan EXCEPT !.status = "ready"]
  <2>1. Describe(q)
    BY <1>3 DEF ResumeResponse
  <2>2. /\ q.status = "ready" /\ q.state = plan.state /\ q.from = plan.from
        /\ q.to = plan.to /\ q.begins = plan.begins /\ q.told = plan.told
        /\ q.drop = plan.drop /\ q.from \in Numbers /\ q.to \in Numbers
    BY <1>2 DEF Plans
  <2> HIDE DEF q
  <2>3. /\ RangeKnown(plan.state) /\ plan.begins = 0
        /\ cache.cont.kind = "resend" => plan.state = cache
        /\ link = "up" => Covered(plan.state, told \/ plan.told, begun, reach)
    BY <1>1 DEF RInv, PlanCovered, Waiting, Begins
  <2>4. Reaches(q) \in Nat /\ reach \in Nat /\ reach <= Reaches(q)
    BY <2>2, ReachesOK
  <2>5. begun \in Nat
    BY FrameStateAssumption DEF Inv, TypeOK, Numbers
  <2>6. link = "up" => Covered(plan.state, told \/ plan.told, begun, Reaches(q))
    BY <1>2, <2>3, <2>4, <2>5, CoveredGrows
  <2>7. PlanCovered(q)
    BY <2>2, <2>3, <2>6 DEF PlanCovered, Begins
  <2>8. Follows(q)
    BY <1>1, <2>3, ContinuationType DEF Follows
  <2>9. QED
    BY <2>1, <2>7, <2>8, DescribeCovered
<1>4. CASE rows[plan.from] # "logon"
  <2>1. plan' = NoPlan
    BY <1>4 DEF ResumeResponse
  <2>2. QED
    BY <2>1 DEF RInv, RangeKnown, Covered, NoGapInRecovery, NoPlan, host, peer
<1>5. QED
  BY <1>3, <1>4

-----------------------------------------------------------------------------
(* The host's transaction, and the life of the handle.                     *)

(* A commit makes what the plan sends part of what was sent.               *)
LEMMA CommitRec == Inv /\ RInv /\ Commit => RInv'
<1> SUFFICES ASSUME Inv, RInv, Commit PROVE RInv'
  OBVIOUS
<1>1. plan.status = "ready" /\ durable' = plan.state /\ want' = want
  BY DEF Commit
<1>2. plan \in Plans
  BY <1>1, Pending
<1>3. plan'.status = "committed"
  BY <1>2 DEF Commit, Plans
<1>4. RangeKnown(plan.state)
  BY <1>1 DEF RInv, PlanCovered
<1>5. RangeKnown(durable)'
  BY <1>1, <1>4 DEF RangeKnown
<1>6. CASE link' = "up"
  <2>1. link = "up" /\ ~plan.drop
    BY <1>6 DEF Commit
  <2>2. Covered(plan.state, told \/ plan.told, Begins(plan), Reaches(plan))
    BY <1>1, <2>1 DEF RInv, PlanCovered
  <2>3. told' = (told \/ plan.told) /\ begun' = Begins(plan) /\ reach' = Reaches(plan)
    BY <1>6 DEF Commit, Extended, Begins, Reaches
  <2>4. Covered(durable, told, begun, reach)'
    BY <1>1, <2>2, <2>3 DEF Covered
  <2>5. QED
    BY <1>3, <1>5, <1>6, <2>4 DEF RInv, NoGapInRecovery
<1>7. CASE link' # "up"
  <2>1. told' = FALSE /\ begun' = 0
    BY <1>7 DEF Commit
  <2>2. Covered(durable, told, begun, reach)'
    BY <2>1 DEF Covered
  <2>3. QED
    BY <1>3, <1>5, <2>1, <2>2 DEF RInv, NoGapInRecovery
<1>8. QED
  BY <1>6, <1>7

(* A plan that is dropped, applied or aborted, and a handle that is lost   *)
(* and created again, leave what was sent.                                 *)
LEMMA HandleRec ==
    Inv /\ RInv /\ (ApplyCommitted \/ Abort \/ HandleLost \/ Create) => RInv'
<1> SUFFICES ASSUME Inv, RInv, ApplyCommitted \/ Abort \/ HandleLost \/ Create
             PROVE  RInv'
  OBVIOUS
<1>1. /\ UNCHANGED <<durable, link, want, reach, told, begun>>
      /\ plan' = NoPlan
  BY DEF ApplyCommitted, Abort, HandleLost, Create, host, peer, Inv, Agreed
<1>2. QED
  BY <1>1 DEF RInv, RangeKnown, Covered, NoGapInRecovery, NoPlan

-----------------------------------------------------------------------------
(* The connection and the peer.                                            *)

(* On a connection that stays, the peer only goes forward.                 *)
LEMMA ForwardRec ==
    ASSUME Inv, RInv, UNCHANGED <<durable, plan, cache, told, begun, link>>,
           want' \in Nat, reach' \in Nat, want <= want', reach <= reach'
    PROVE  RInv'
<1>1. want \in Nat /\ reach \in Nat /\ begun \in Nat /\ durable \in NativeState
  BY FrameStateAssumption DEF Inv, TypeOK, Numbers
<1>2. \A s \in NativeState : RangeKnown(s) => RangeKnown(s)'
  BY <1>1, StateFields, RecoveryFields DEF RangeKnown
<1>3. Covered(durable, told, begun, reach)'
  <2>1. Covered(durable, told, begun, reach')
    BY <1>1, CoveredGrows DEF RInv
  <2>2. QED
    BY <2>1 DEF Covered
<1>4. ASSUME plan.status \in {"ready", "store"}
      PROVE  PlanCovered(plan)'
  <2>1. /\ plan \in Plans /\ plan.state \in NativeState /\ PlanCovered(plan)
    BY <1>4, Pending DEF RInv
  <2>2. /\ plan.from \in Nat /\ plan.to \in Nat /\ plan.begins \in Nat
    BY <2>1, FrameStateAssumption DEF Plans, Numbers
  <2> DEFINE r == IF plan.status = "store" THEN reach ELSE Reaches(plan)
             r2 == IF plan.status = "store" THEN reach' ELSE Reaches(plan)'
             b == Begins(plan)
             t == told \/ plan.told
  <2>3. r \in Nat /\ r2 \in Nat /\ r <= r2 /\ b \in Nat
    BY <1>1, <2>2 DEF Reaches, Begins
  <2>4. link = "up" /\ ~plan.drop => Covered(plan.state, t, b, r)
    BY <2>1 DEF PlanCovered
  <2>5. b = Begins(plan)' /\ t = (told \/ plan.told)'
    BY DEF Begins
  <2> HIDE DEF r, r2, b, t
  <2>6. link = "up" /\ ~plan.drop => Covered(plan.state, t, b, r2)
    BY <2>1, <2>3, <2>4, CoveredGrows
  <2>7. RangeKnown(plan.state)'
    BY <1>2, <2>1 DEF PlanCovered, RangeKnown
  <2>8. plan.status = "store" => Waiting(plan)'
    BY <2>1 DEF PlanCovered, Waiting
  <2>9. link' = "up" /\ ~plan'.drop =>
            Covered(plan.state, told \/ plan.told, Begins(plan),
                    IF plan.status = "store" THEN reach ELSE Reaches(plan))'
    BY <2>5, <2>6 DEF Covered, r2
  <2>10. QED
    BY <2>7, <2>8, <2>9 DEF PlanCovered
<1>5. NoGapInRecovery'
  <2>1. plan.status = "ready" => plan.from \in Nat
    BY Pending, FrameStateAssumption DEF Plans, Numbers
  <2>2. QED
    BY <1>1, <2>1 DEF RInv, NoGapInRecovery
<1>6. RangeKnown(durable)'
  BY <1>1, <1>2 DEF RInv, RangeKnown
<1>7. QED
  BY <1>3, <1>4, <1>5, <1>6 DEF RInv

(* Numbers handed over or received move the peer forward.                  *)
LEMMA HandOverRec == Inv /\ RInv /\ (HandOver \/ Receive) => RInv'
<1> SUFFICES ASSUME Inv, RInv, HandOver \/ Receive PROVE RInv'
  OBVIOUS
<1>1. want \in Nat /\ reach \in Nat /\ original \in Nat
  BY FrameStateAssumption DEF Inv, TypeOK
<1>2. /\ UNCHANGED <<durable, plan, cache, told, begun, link>>
      /\ want' \in Nat /\ reach' \in Nat /\ want <= want' /\ reach <= reach'
  BY <1>1 DEF HandOver, Receive, host
<1>3. QED
  BY <1>2, ForwardRec

(* A connection that breaks takes its obligations along.                   *)
LEMMA LoseRec == Inv /\ RInv /\ Lose => RInv'
<1> SUFFICES ASSUME Inv, RInv, Lose PROVE RInv'
  OBVIOUS
<1>1. /\ UNCHANGED <<durable, plan, cache>> /\ link' = "lost" /\ told' = FALSE /\ begun' = 0
  BY DEF Lose, host
<1>2. want \in Nat /\ want' \in Nat /\ want <= want'
  BY StateFields, FrameStateAssumption DEF Lose, Inv, TypeOK
<1>3. \A s \in NativeState : RangeKnown(s) => RangeKnown(s)'
  BY <1>2, StateFields, RecoveryFields DEF RangeKnown
<1>4. RangeKnown(durable)'
  BY <1>1, <1>3 DEF RInv, RangeKnown, Inv, TypeOK
<1>5. Covered(durable, told, begun, reach)'
  BY <1>1 DEF Covered
<1>6. ASSUME plan.status \in {"ready", "store"}
      PROVE  PlanCovered(plan)'
  <2>1. plan.state \in NativeState /\ PlanCovered(plan)
    BY <1>6, Pending DEF RInv
  <2>2. RangeKnown(plan.state)'
    BY <1>1, <1>3, <2>1 DEF PlanCovered, RangeKnown
  <2>3. plan.status = "store" => Waiting(plan)'
    BY <1>1, <2>1 DEF PlanCovered, Waiting
  <2>4. QED
    BY <1>1, <2>2, <2>3 DEF PlanCovered
<1>7. QED
  BY <1>1, <1>4, <1>5, <1>6 DEF RInv, NoGapInRecovery

(* A new connection begins without a plan and without promises.            *)
LEMMA ConnectRec == Inv /\ RInv /\ Connect => RInv'
<1> SUFFICES ASSUME Inv, RInv, Connect PROVE RInv'
  OBVIOUS
<1>1. /\ UNCHANGED <<durable, plan, cache, want, reach, told, begun>> /\ link = "down"
      /\ link' = "up"
  BY DEF Connect, host
<1>2. plan.status \notin {"ready", "store"}
  BY <1>1 DEF Inv, PendingOK
<1>3. QED
  BY <1>1, <1>2 DEF RInv, RangeKnown, Covered, NoGapInRecovery

-----------------------------------------------------------------------------
(* The theorems.                                                           *)

(* Nothing was sent and nothing is missing in the initial state.           *)
LEMMA InitRec == Init => RInv
<1> SUFFICES ASSUME Init PROVE RInv
  OBVIOUS
<1>1. durable.rec.kind = "none"
  BY NoRecoveryType DEF Init, freshState
<1>2. QED
  BY <1>1 DEF Init, RInv, RangeKnown, Covered, NoGapInRecovery, NoPlan

(* Every step keeps the invariant.                                         *)
LEMMA StepRec == Inv /\ RInv /\ [Next]_vars => RInv'
<1> SUFFICES ASSUME Inv, RInv, [Next]_vars PROVE RInv'
  OBVIOUS
<1>1. CASE Continue
  BY <1>1, PassBarrierRec, NextPageRec, ConfirmPrefixRec, RangeAfterResponseRec DEF Continue
<1>2. CASE Resume
  BY <1>2, ResumePageRec, ResumeResponseRec DEF Resume
<1>3. CASE UNCHANGED vars
  BY <1>3 DEF vars, RInv, RangeKnown, Covered, PlanCovered, Waiting, Begins, Reaches,
              NoGapInRecovery
<1>4. QED
  BY <1>1, <1>2, <1>3, AdminOutputRec, TestRequestRec, LogoutRec, PeerSpeaksRec,
     ApplicationRec, StoredRetransmitRec, TransportClosedRec, LogonRec, AdminLogonRec,
     ResendRequestRec, CommitRec, HandleRec, HandOverRec, LoseRec, ConnectRec DEF Next

(* Where a recovery stands is covered by what the peer said or was sent, in*)
(* every behaviour.                                                        *)
THEOREM RecoveryCovered == Spec => [](Inv /\ RInv)
<1>1. Inv /\ RInv /\ [Next]_vars => (Inv /\ RInv)'
  BY StepInv, StepRec
<1>2. Init => Inv /\ RInv
  BY InitInv, InitRec
<1>3. QED
  BY <1>1, <1>2, PTL DEF Spec

(* continueResendPlan never sends a page from beyond what the peer will    *)
(* have, when the peer said on this connection what it misses, whatever    *)
(* connections and handles were lost before.                               *)
THEOREM NoGapEver == Spec => []NoGapInRecovery
<1>1. RInv => NoGapInRecovery
  BY DEF RInv
<1>2. QED
  BY <1>1, RecoveryCovered, PTL

(* The recovery that a Logon with a lower NextExpectedMsgSeqNum began ends,*)
(* on its connection, with the peer past the Logon response: stored range, *)
(* final GapFill and the pages between them leave nothing out.             *)
THEOREM LowerLogonAlwaysCovered == Spec => []LowerLogonCovered
<1>1. Inv /\ RInv => LowerLogonCovered
  <2> SUFFICES ASSUME RInv, begun # 0, durable.rec = NoRecovery PROVE reach > begun
    BY DEF LowerLogonCovered
  <2>1. durable.rec.kind # "logon789"
    BY NoRecoveryType
  <2>2. QED
    BY <2>1 DEF RInv, Covered
<1>2. QED
  BY <1>1, RecoveryCovered, PTL
=============================================================================

----------------------------- MODULE PairProofs -----------------------------
(***************************************************************************)
(* Proofs about two connected sessions, for every number of messages,      *)
(* broken connections, crashes and Logouts, with settings that never reset *)
(* the sequence numbers.                                                   *)
(***************************************************************************)
EXTENDS SessionPair, WellFoundedInduction, SequenceTheorems, TLAPS

(* Nothing resets the sequence numbers.                                    *)
NoResets == ~ResetOnLogon /\ ~ResetOnLogout /\ ~ResetOnDisconnect

(* The settings under which every message is delivered: what is sent is    *)
(* kept, and no application logs out.                                      *)
Lasting == PersistMessages /\ MaxLogouts = 0

Fields ==
    {"initiate", "enabled", "receivedLogon", "sentLogon", "sentLogout", "sentReset",
     "receivedReset", "testRequest", "queue", "resendRange", "nextSender",
     "nextTarget", "store", "responder", "owed", "out", "got", "wiped", "asked",
     "race", "sending", "torn"}

SessionTypes == {"Logon", "Logout", "Heartbeat", "ResendRequest", "SequenceReset", "App"}

(* The number expected after m.                                            *)
Past(m) == IF m.type = "SequenceReset" THEN m.lo ELSE m.seq + 1

(* A gap fill: of numbers below n, none of them of an application message  *)
(* in A.                                                                   *)
Fills(m, n, A) ==
    /\ m.dup /\ m.flag /\ m.seq <= m.lo /\ m.lo <= n
    /\ Lasting => \A a \in A : a < m.seq \/ m.lo <= a

(* m comes from a side that numbers its next message n and has numbered    *)
(* application messages with A, and goes to one that sends p next.         *)
Sent(m, n, A, p) ==
    /\ m \in Message /\ m.grade = "good" /\ m.seq >= 1 /\ m.type \in SessionTypes
    /\ m.type = "SequenceReset" => Fills(m, n, A)
    /\ m.type # "SequenceReset" => m.seq < n
    /\ m.type = "App" => m.seq \in A
    /\ m.type \notin {"App", "SequenceReset"} => ~m.dup /\ m.seq \notin A
    /\ m.type = "Logon" => ~m.flag /\ m.lo <= p
    /\ m.type = "Logout" => ~Lasting
    /\ m.type = "ResendRequest" => 1 <= m.lo /\ m.lo <= p /\ m.hi = 0

Stored(s, A) ==
    /\ \A n \in DOMAIN s.store :
        /\ n \in 1 .. (s.nextSender - 1)
        /\ s.store[n] \in Message /\ s.store[n].seq = n /\ s.store[n].grade = "good"
        /\ s.store[n].type = "App" <=> n \in A
    /\ PersistMessages => DOMAIN s.store = 1 .. (s.nextSender - 1)

(* A session with application messages A, facing one that sends p next.    *)
Ready(s, A, p) ==
    /\ DOMAIN s = Fields
    /\ s.sentReset = FALSE /\ s.receivedReset = FALSE /\ s.sending = 0
    /\ s.nextSender \in Nat \ {0} /\ s.nextTarget \in Nat \ {0} /\ s.nextTarget <= p
    /\ s.owed \in Nat /\ s.owed <= s.nextSender
    /\ \A a \in A : a \in Nat \ {0} /\ a < s.nextSender
    /\ MaxLogouts = 0 => s.enabled
    /\ Stored(s, A)

(* New messages of a sequence are numbered after all before them.          *)
InSequence(ms) ==
    \A i, j \in 1 .. Len(ms) : i < j /\ ~ms[j].dup => Past(ms[i]) <= ms[j].seq

NumbersIn(q) == {q[k] : k \in 1 .. Len(q)}

(* What a side that sends n next, with application messages A, has sent to *)
(* session b and b has not handled yet: to is still on its way, the rest   *)
(* waits in the queue of b.                                                *)
Flowing(to, n, A, b) ==
    /\ to \in Seq(Message) /\ InSequence(to)
    /\ \A i \in 1 .. Len(to) : Sent(to[i], n, A, b.nextSender)
    /\ \A k \in DOMAIN b.queue :
        b.queue[k].seq = k /\ Sent(b.queue[k], n, A, b.nextSender)
    /\ \A j \in 1 .. Len(to) : ~to[j].dup =>
        /\ b.nextTarget <= to[j].seq
        /\ \A k \in DOMAIN b.queue : Past(b.queue[k]) <= to[j].seq

Increasing(q) == \A i, j \in 1 .. Len(q) : i < j => q[i] < q[j]

(* Of the application messages q those in r were delivered by a session    *)
(* that expects next.                                                      *)
Handed(q, r, next) ==
    /\ q \in Seq(Nat) /\ r \in Seq(Nat) /\ Increasing(q) /\ Increasing(r)
    /\ \A i \in 1 .. Len(r) : r[i] \in NumbersIn(q) /\ r[i] < next
    /\ Lasting =>
        /\ Len(r) <= Len(q)
        /\ \A i \in 1 .. Len(r) : r[i] = q[i]
        /\ \A k \in 1 .. Len(q) : q[k] < next => k <= Len(r)

(* What is true of x and of what it sends to its counterparty.             *)
SideInv(x) ==
    LET y == Other(x) IN
    /\ Ready(st[x], NumbersIn(accepted[x]), st[y].nextSender)
    /\ st[x].out = <<>> /\ st[x].got = <<>>
    /\ Flowing(net[y], st[x].nextSender, NumbersIn(accepted[x]), st[y])
    /\ Handed(accepted[x], received[x], st[y].nextTarget)

PairInv ==
    /\ DOMAIN st = Sides /\ DOMAIN net = Sides
    /\ DOMAIN accepted = Sides /\ received \in [Sides -> Seq(Nat)]
    /\ logouts \in Nat
    /\ \A x \in Sides : SideInv(x)

-----------------------------------------------------------------------------
(* Induction                                                               *)

(* The numbers below others are well-founded.                              *)
LEMMA LessThanWellFounded == IsWellFoundedOn({p \in Nat \X Nat : p[1] < p[2]}, Nat)
  BY NatLessThanWellFounded DEF OpToRel

(* A set that holds 0 and the successor of each of its numbers holds all.  *)
LEMMA SetInduction ==
    ASSUME NEW S, 0 \in S, \A n \in Nat : n \in S => n + 1 \in S
    PROVE  \A n \in Nat : n \in S
  <1> DEFINE R == {p \in Nat \X Nat : p[1] < p[2]}
             T == Nat \ S
  <1>1. SUFFICES ASSUME T # {} PROVE FALSE
    OBVIOUS
  <1>2. T \subseteq Nat
    OBVIOUS
  <1>3. IsWellFoundedOn(R, Nat)
    BY LessThanWellFounded
  <1>4. PICK n \in T : \A k \in T : ~(<<k, n>> \in R)
    <2> HIDE DEF R, T
    <2> QED BY <1>1, <1>2, <1>3, WFMin
  <1>5. n # 0 /\ n \in Nat /\ n \notin S
    OBVIOUS
  <1>6. n - 1 \in Nat
    BY <1>5
  <1>7. n - 1 \notin S
    BY <1>5, <1>6
  <1>8. <<n - 1, n>> \in R
    BY <1>5, <1>6
  <1> QED BY <1>4, <1>6, <1>7, <1>8

-----------------------------------------------------------------------------
(* generateRetransmits                                                     *)

(* One turn of the loop over the messages found.                           *)
Turn(acc, n, store, found, withheld) ==
    IF n \in found THEN LoopBody(acc, store[n], withheld) ELSE acc

(* f holds the loop's locals after each number up to k.                    *)
Runs(f, k, store, begin, found, withheld) ==
    f = [n \in 0 .. k |->
            Turn(IF n = 0 THEN LoopStart(begin) ELSE f[n - 1], n, store, found, withheld)]

(* The loop's recursive definition is satisfied by a function.             *)
LEMMA LoopRuns ==
    ASSUME NEW store, NEW begin, NEW found, NEW withheld, NEW e \in Nat
    PROVE  \E f : Runs(f, e, store, begin, found, withheld)
  <1> DEFINE S == {k \in Nat : \E f : Runs(f, k, store, begin, found, withheld)}
             start == LoopStart(begin)
             turn(acc, n) == Turn(acc, n, store, found, withheld)
  <1>1. 0 \in S
    <2> DEFINE f == [n \in 0 .. 0 |-> turn(start, n)]
    <2>1. f = [n \in 0 .. 0 |-> turn(IF n = 0 THEN start ELSE f[n - 1], n)]
      OBVIOUS
    <2> QED BY <2>1 DEF Runs
  <1>2. ASSUME NEW k \in Nat, k \in S
        PROVE  k + 1 \in S
    <2>1. PICK f : Runs(f, k, store, begin, found, withheld)
      BY <1>2
    <2> DEFINE g == [n \in 0 .. (k + 1) |-> IF n <= k THEN f[n] ELSE turn(f[k], n)]
    <2>2. f = [n \in 0 .. k |-> turn(IF n = 0 THEN start ELSE f[n - 1], n)]
      BY <2>1 DEF Runs
    <2> HIDE DEF turn, start
    <2>3. ASSUME NEW n \in 0 .. (k + 1)
          PROVE  g[n] = turn(IF n = 0 THEN start ELSE g[n - 1], n)
      <3>1. CASE n <= k
        <4>1. g[n] = f[n] /\ n \in 0 .. k
          BY <3>1
        <4>2. f[n] = turn(IF n = 0 THEN start ELSE f[n - 1], n)
          BY <2>2, <4>1
        <4>3. n # 0 => n - 1 \in 0 .. (k + 1) /\ n - 1 <= k
          BY <4>1
        <4>4. n # 0 => g[n - 1] = f[n - 1]
          BY <4>3
        <4> HIDE DEF g
        <4> QED BY <4>1, <4>2, <4>4
      <3>2. CASE ~(n <= k)
        <4>1. n = k + 1 /\ n - 1 = k /\ n # 0 /\ k \in 0 .. (k + 1)
          BY <3>2
        <4>2. g[n] = turn(f[k], n) /\ g[n - 1] = f[k]
          BY <3>2, <4>1
        <4> HIDE DEF g
        <4> QED BY <4>1, <4>2
      <3> QED BY <3>1, <3>2
    <2>4. g = [n \in 0 .. (k + 1) |-> turn(IF n = 0 THEN start ELSE g[n - 1], n)]
      BY <2>3
    <2>5. Runs(g, k + 1, store, begin, found, withheld)
      BY <2>4 DEF Runs, turn, start
    <2> QED BY <2>5
  <1> HIDE DEF S
  <1>3. e \in S
    BY <1>1, <1>2, SetInduction
  <1> QED BY <1>3 DEF S

(* The loop ends with the last value of such a function.                   *)
LEMMA LoopValue ==
    ASSUME NEW store, NEW begin, NEW withheld, NEW e \in Nat
    PROVE  \E f : /\ Runs(f, e, store, begin, StoreGet(store, begin, e), withheld)
                  /\ Loop(store, begin, e, withheld) = f[e]
  <1> DEFINE found == StoreGet(store, begin, e)
             start == LoopStart(begin)
             f == CHOOSE f : f = [n \in 0 .. e |->
                     IF n \in found
                     THEN LoopBody(IF n = 0 THEN start ELSE f[n - 1], store[n], withheld)
                     ELSE IF n = 0 THEN start ELSE f[n - 1]]
  <1>1. \E g : Runs(g, e, store, begin, found, withheld)
    BY LoopRuns
  <1>2. f = [n \in 0 .. e |->
                     IF n \in found
                     THEN LoopBody(IF n = 0 THEN start ELSE f[n - 1], store[n], withheld)
                     ELSE IF n = 0 THEN start ELSE f[n - 1]]
    <2> HIDE DEF found, start
    <2> QED BY <1>1 DEF Runs, Turn, start
  <1>3. Runs(f, e, store, begin, found, withheld)
    <2> HIDE DEF f, found
    <2> QED BY <1>2 DEF Runs, Turn
  <1>4. Loop(store, begin, e, withheld) = f[e]
    BY DEF Loop
  <1> QED BY <1>3, <1>4

(* The types of messages and of what is made of them.                      *)
LEMMA MessageFields ==
    ASSUME NEW m \in Message
    PROVE  /\ m.type \in MsgTypes /\ m.seq \in Nat /\ m.dup \in BOOLEAN
           /\ m.grade \in Grades /\ m.flag \in BOOLEAN /\ m.lo \in Nat /\ m.hi \in Nat
  BY DEF Message

(* A gap fill of numbers that no application message has.                  *)
LEMMA GapFillSent ==
    ASSUME NEW a \in Nat \ {0}, NEW b \in Nat, NEW n \in Nat, NEW A, NEW p,
           a <= b, b <= n, \A k \in A : k < a \/ b <= k
    PROVE  Sent(GapFill(a, b), n, A, p) /\ GapFill(a, b).dup /\ GapFill(a, b) \in Message
  <1> DEFINE m == GapFill(a, b)
  <1>1. /\ m.type = "SequenceReset" /\ m.seq = a /\ m.dup = TRUE /\ m.grade = "good"
        /\ m.flag = TRUE /\ m.lo = b
    BY DEF GapFill, Plain
  <1>2. m \in Message
    BY DEF GapFill, Plain, Message, MsgTypes, AdminTypes, Grades
  <1> HIDE DEF m
  <1>3. Fills(m, n, A)
    BY <1>1 DEF Fills
  <1>4. Sent(m, n, A, p)
    BY <1>1, <1>2, <1>3 DEF Sent, SessionTypes
  <1> QED BY <1>1, <1>2, <1>4 DEF m

(* A stored application message sent again.                                *)
LEMMA ResentSent ==
    ASSUME NEW m \in Message, NEW n \in Nat, NEW A, NEW p,
           m.type = "App", m.seq \in A, m.seq < n, m.seq >= 1, m.grade = "good"
    PROVE  Sent(Resent(m), n, A, p) /\ Resent(m).dup /\ Resent(m) \in Message
  BY DEF Sent, Resent, Message, MsgTypes, AdminTypes, Grades, SessionTypes

(* A sequence of retransmissions.                                          *)
Again(q, n, A, p) ==
    /\ q \in Seq(Message)
    /\ \A i \in 1 .. Len(q) : Sent(q[i], n, A, p) /\ q[i].dup

(* One more retransmission, and none.                                      *)
LEMMA AgainAppend ==
    ASSUME NEW q, NEW n, NEW A, NEW p, Again(q, n, A, p),
           NEW m \in Message, Sent(m, n, A, p), m.dup
    PROVE  Again(q \o <<m>>, n, A, p)
  <1>1. q \in Seq(Message) /\ <<m>> \in Seq(Message)
    BY DEF Again
  <1> DEFINE r == q \o <<m>>
  <1>2. r \in Seq(Message) /\ Len(r) = Len(q) + 1 /\ Len(q) \in Nat
    BY <1>1
  <1>3. \A i \in 1 .. Len(q) : r[i] = q[i]
    BY <1>1
  <1>4. r[Len(q) + 1] = m
    BY <1>1
  <1> HIDE DEF r
  <1>5. ASSUME NEW i \in 1 .. Len(r)
        PROVE  Sent(r[i], n, A, p) /\ r[i].dup
    <2>1. CASE i \in 1 .. Len(q)
      BY <1>3, <2>1 DEF Again
    <2>2. CASE i = Len(q) + 1
      BY <1>4, <2>2
    <2> QED BY <1>2, <2>1, <2>2
  <1> QED BY <1>2, <1>5 DEF Again, r

(* Nothing sent again is sent again rightly.                               *)
LEMMA AgainEmpty ==
    ASSUME NEW n, NEW A, NEW p
    PROVE  Again(<<>>, n, A, p)
  BY DEF Again

(* A store of all the numbers below next, A those of application messages. *)
Full(store, next, A) ==
    /\ DOMAIN store = 1 .. (next - 1)
    /\ \A n \in 1 .. (next - 1) :
        /\ store[n] \in Message /\ store[n].seq = n /\ store[n].grade = "good"
        /\ store[n].type = "App" <=> n \in A
    /\ \A a \in A : a \in Nat \ {0}

(* The loop after the number n: nothing yet before the first; then the     *)
(* last message is handled and a pending gap fill is of no application's.  *)
LoopInv(acc, n, begin, next, A, p) ==
    IF n < begin THEN acc = LoopStart(begin)
    ELSE /\ acc.last = n /\ acc.current = n + 1
         /\ acc.begin \in 0 .. n
         /\ acc.begin # 0 => \A a \in A : a < acc.begin \/ n < a
         /\ Again(acc.out, next, A, p)

(* One turn of the loop keeps it.                                          *)
LEMMA TurnInv ==
    ASSUME NEW store, NEW next \in Nat \ {0}, NEW A, NEW p, Full(store, next, A),
           NEW begin \in Nat \ {0}, NEW n \in begin .. (next - 1), NEW acc,
           LoopInv(acc, n - 1, begin, next, A, p)
    PROVE  LoopInv(LoopBody(acc, store[n], {}), n, begin, next, A, p)
  <1> DEFINE m == store[n]
             first == IF acc.current # m.seq /\ acc.begin = 0 THEN acc.current ELSE acc.begin
             t == LoopBody(acc, m, {})
  <1>1. /\ n \in Nat \ {0} /\ n < next /\ n \in 1 .. (next - 1) /\ begin <= n
        /\ m \in Message /\ m.seq = n /\ m.grade = "good"
        /\ m.type = "App" <=> n \in A
    BY DEF Full
  <1>2. m.type \in MsgTypes
    BY <1>1, MessageFields
  <1>3. /\ acc.current = n /\ acc.begin \in 0 .. (n - 1) /\ Again(acc.out, next, A, p)
        /\ acc.begin # 0 => \A a \in A : a < acc.begin \/ n <= a
    <2>1. CASE n = begin
      <3>1. acc = LoopStart(begin)
        BY <1>1, <2>1 DEF LoopInv
      <3> QED BY <1>1, <2>1, <3>1, AgainEmpty DEF LoopStart
    <2>2. CASE n # begin
      <3>1. ~(n - 1 < begin) /\ (n - 1) + 1 = n
        BY <1>1, <2>2
      <3>2. \A a \in A : a \in Nat
        BY DEF Full
      <3> QED BY <1>1, <3>1, <3>2 DEF LoopInv
    <2> QED BY <2>1, <2>2
  <1>4. first = acc.begin
    BY <1>1, <1>3
  <1>5. \A a \in A : a \in Nat \ {0}
    BY DEF Full
  <1>6. CASE n \in A
    <2>1. ~isAdminMsgType(m.type)
      BY <1>1, <1>6 DEF isAdminMsgType, AdminTypes
    <2> DEFINE fill == IF first # 0 THEN <<GapFill(first, m.seq)>> ELSE <<>>
    <2>2. t = [out |-> acc.out \o fill \o <<Resent(m)>>, begin |-> 0, current |-> m.seq + 1,
               last |-> m.seq, appMessageJustSent |-> TRUE]
      BY <1>1, <2>1 DEF LoopBody
    <2>3. Again(acc.out \o fill, next, A, p)
      <3>1. CASE first = 0
        <4>1. acc.out \o <<>> = acc.out
          BY <1>3 DEF Again
        <4> QED BY <1>3, <3>1, <4>1
      <3>2. CASE first # 0
        <4>1. \A a \in A : a < first \/ n <= a
          BY <1>3, <1>4, <3>2
        <4>2. first \in Nat \ {0} /\ first <= n /\ n <= next
          BY <1>1, <1>3, <1>4, <3>2
        <4>3. Sent(GapFill(first, n), next, A, p) /\ GapFill(first, n).dup
              /\ GapFill(first, n) \in Message
          <5> HIDE DEF first
          <5> QED BY <1>1, <4>1, <4>2, GapFillSent
        <4> QED BY <1>1, <1>3, <3>2, <4>3, AgainAppend
      <3> QED BY <3>1, <3>2
    <2>4. Sent(Resent(m), next, A, p) /\ Resent(m).dup /\ Resent(m) \in Message
      <3>1. /\ m \in Message /\ m.type = "App" /\ m.seq \in A /\ m.seq < next
            /\ m.seq >= 1 /\ m.grade = "good" /\ next \in Nat
        BY <1>1, <1>6
      <3> HIDE DEF m
      <3> QED BY <3>1, ResentSent
    <2>5. Again(t.out, next, A, p)
      <3> HIDE DEF fill, m, t
      <3>1. t.out = (acc.out \o fill) \o <<Resent(m)>>
        BY <2>2
      <3> DEFINE r == Resent(m)
                 q == acc.out \o fill
      <3>2. t.out = q \o <<r>> /\ Again(q, next, A, p)
        BY <3>1, <2>3
      <3>3. r \in Message /\ Sent(r, next, A, p) /\ r.dup
        BY <2>4
      <3> HIDE DEF q, r
      <3> QED BY <3>2, <3>3, AgainAppend
    <2>6. t.last = n /\ t.current = n + 1 /\ t.begin = 0
      BY <1>1, <2>2
    <2> HIDE DEF t
    <2> QED BY <1>1, <2>5, <2>6 DEF LoopInv, t
  <1>7. CASE n \notin A
    <2>1. isAdminMsgType(m.type)
      BY <1>1, <1>2, <1>7 DEF isAdminMsgType, MsgTypes
    <2>2. t = [out |-> acc.out, begin |-> IF first = 0 THEN m.seq ELSE first,
               current |-> m.seq + 1, last |-> m.seq, appMessageJustSent |-> FALSE]
      BY <2>1 DEF LoopBody
    <2>3. t.last = n /\ t.current = n + 1 /\ t.out = acc.out
          /\ t.begin = IF acc.begin = 0 THEN n ELSE acc.begin
      BY <1>1, <1>4, <2>2
    <2> HIDE DEF t
    <2>4. t.begin \in 0 .. n /\ (\A a \in A : a < t.begin \/ n < a)
      BY <1>1, <1>3, <1>5, <1>7, <2>3
    <2> QED BY <1>1, <1>3, <2>3, <2>4 DEF LoopInv, t
  <1> QED BY <1>6, <1>7

(* The loop.                                                               *)
LEMMA LoopEnds ==
    ASSUME NEW store, NEW next \in Nat \ {0}, NEW A, NEW p, Full(store, next, A),
           NEW begin \in 1 .. next
    PROVE  LoopInv(Loop(store, begin, next - 1, {}), next - 1, begin, next, A, p)
  <1> DEFINE e == next - 1
             found == StoreGet(store, begin, e)
  <1>1. e \in Nat /\ begin \in Nat \ {0}
    OBVIOUS
  <1>2. PICK f : /\ Runs(f, e, store, begin, found, {})
                 /\ Loop(store, begin, e, {}) = f[e]
    BY <1>1, LoopValue
  <1>3. \A n \in 0 .. e : n \in found <=> begin <= n
    BY <1>1 DEF StoreGet, Full
  <1> HIDE DEF found
  <1>4. \A n \in 0 .. e : f[n] = Turn(IF n = 0 THEN LoopStart(begin) ELSE f[n - 1],
                                      n, store, found, {})
    BY <1>2 DEF Runs
  <1> DEFINE S == {n \in Nat : n <= e => LoopInv(f[n], n, begin, next, A, p)}
  <1>5. 0 \in S
    <2>1. 0 \in 0 .. e /\ 0 < begin
      BY <1>1
    <2>2. f[0] = LoopStart(begin)
      BY <1>1, <1>3, <1>4, <2>1 DEF Turn
    <2> QED BY <2>1, <2>2 DEF LoopInv
  <1>6. ASSUME NEW k \in Nat, k \in S
        PROVE  k + 1 \in S
    <2> DEFINE n == k + 1
    <2>1. SUFFICES ASSUME n <= e PROVE LoopInv(f[n], n, begin, next, A, p)
      OBVIOUS
    <2>2. n \in 0 .. e /\ n # 0 /\ n - 1 = k /\ LoopInv(f[k], k, begin, next, A, p)
      BY <1>1, <1>6, <2>1
    <2>3. f[n] = Turn(f[k], n, store, found, {})
      BY <1>4, <2>2
    <2> HIDE DEF n
    <2>4. CASE begin <= n
      <3>1. f[n] = LoopBody(f[k], store[n], {})
        BY <1>3, <2>2, <2>3, <2>4 DEF Turn
      <3>2. n \in begin .. (next - 1)
        BY <1>1, <2>2, <2>4
      <3> QED BY <2>2, <3>1, <3>2, <1>1, TurnInv
    <2>5. CASE ~(begin <= n)
      <3>1. f[n] = f[k]
        BY <1>3, <2>2, <2>3, <2>5 DEF Turn
      <3> QED BY <1>1, <2>2, <2>5, <3>1 DEF LoopInv
    <2> QED BY <2>4, <2>5
  <1> HIDE DEF S
  <1>7. e \in S
    BY <1>1, <1>5, <1>6, SetInduction
  <1> QED BY <1>1, <1>2, <1>7 DEF S

(* The answer to a request, from a store that holds all that was sent:     *)
(* application messages of the store and gap fills over other numbers, none*)
(* of which promises a number that was not used.                           *)
LEMMA RetransmitsAgain ==
    ASSUME NEW store, NEW next \in Nat \ {0}, NEW A, NEW p, Full(store, next, A),
           \A a \in A : a < next, NEW begin \in 1 .. next
    PROVE  Again(generateRetransmits(store, next, begin, next - 1, {}), next, A, p)
  <1> DEFINE e == next - 1
             acc == Loop(store, begin, e, {})
             inner == IF acc.begin # 0 THEN <<GapFill(acc.begin, acc.last + 1)>> ELSE <<>>
             from  == IF acc.appMessageJustSent THEN acc.last + 1 ELSE begin
             tail  == IF e > acc.last THEN <<GapFill(from, fillTo(next, e))>> ELSE <<>>
  <1>1. LoopInv(acc, e, begin, next, A, p)
    BY LoopEnds
  <1>2. e \in Nat /\ begin \in Nat \ {0} /\ begin <= next
    OBVIOUS
  <1>3. \A a \in A : a \in Nat /\ a < next
    BY DEF Full
  <1>4. generateRetransmits(store, next, begin, next - 1, {}) = acc.out \o inner \o tail
    BY DEF generateRetransmits, LoopEnd
  <1> HIDE DEF acc
  <1>5. CASE begin = next
    <2>1. acc = LoopStart(begin)
      BY <1>1, <1>2, <1>5 DEF LoopInv
    <2>2. acc.out = <<>> /\ acc.begin = 0 /\ acc.last = 0 /\ acc.appMessageJustSent = FALSE
      BY <2>1 DEF LoopStart
    <2>3. acc.out \o inner = <<>>
      BY <2>2
    <2>4. from = next /\ fillTo(next, e) = next
      BY <1>2, <1>5, <2>2 DEF fillTo
    <2>5. tail = <<>> \/ tail = <<GapFill(next, next)>>
      BY <2>4
    <2>6. \A a \in A : a < next \/ next <= a
      BY <1>3
    <2>7. Sent(GapFill(next, next), next, A, p) /\ GapFill(next, next).dup
          /\ GapFill(next, next) \in Message
      BY <2>6, GapFillSent
    <2>8. Again(<<>>, next, A, p)
      BY AgainEmpty
    <2>9. Again(<<>> \o <<GapFill(next, next)>>, next, A, p)
      BY <2>7, <2>8, AgainAppend
    <2>10. <<>> \o <<>> = <<>>
      OBVIOUS
    <2> HIDE DEF tail, inner
    <2> QED BY <1>4, <2>3, <2>5, <2>8, <2>9, <2>10
  <1>6. CASE begin # next
    <2>1. /\ acc.last = e /\ acc.begin \in 0 .. e
          /\ acc.begin # 0 => \A a \in A : a < acc.begin \/ e < a
          /\ Again(acc.out, next, A, p)
      BY <1>1, <1>2, <1>6 DEF LoopInv
    <2>2. tail = <<>>
      BY <1>2, <2>1
    <2>3. Again(acc.out \o inner, next, A, p)
      <3>1. CASE acc.begin = 0
        <4>1. acc.out \o <<>> = acc.out
          BY <2>1 DEF Again
        <4> QED BY <2>1, <3>1, <4>1
      <3>2. CASE acc.begin # 0
        <4>1. \A a \in A : a < acc.begin \/ next <= a
          BY <1>2, <1>3, <2>1, <3>2
        <4>2. acc.begin \in Nat \ {0} /\ acc.begin <= next /\ acc.last + 1 = next
          BY <1>2, <2>1, <3>2
        <4>3. Sent(GapFill(acc.begin, next), next, A, p) /\ GapFill(acc.begin, next).dup
              /\ GapFill(acc.begin, next) \in Message
          BY <4>1, <4>2, GapFillSent
        <4> QED BY <2>1, <3>2, <4>2, <4>3, AgainAppend
      <3> QED BY <3>1, <3>2
    <2>4. (acc.out \o inner) \o <<>> = acc.out \o inner
      BY <2>3 DEF Again
    <2> HIDE DEF inner, tail
    <2> QED BY <1>4, <2>2, <2>3, <2>4
  <1> QED BY <1>5, <1>6

(* q leads from the number a to b: without a gap, an overlap or a step     *)
(* back.                                                                   *)
Covers(q, a, b) ==
    /\ q \in Seq(Message)
    /\ q = <<>> => a = b
    /\ q # <<>> => /\ q[1].seq = a /\ Past(q[Len(q)]) = b
                   /\ \A i \in 1 .. (Len(q) - 1) : Past(q[i]) = q[i + 1].seq

(* The next message begins where the last one ended.                       *)
LEMMA CoversAppend ==
    ASSUME NEW q, NEW a, NEW b, Covers(q, a, b), NEW m \in Message, m.seq = b
    PROVE  Covers(q \o <<m>>, a, Past(m))
  <1> DEFINE r == q \o <<m>>
  <1>1. q \in Seq(Message)
    BY DEF Covers
  <1>2. /\ r \in Seq(Message) /\ Len(r) = Len(q) + 1 /\ Len(q) \in Nat
        /\ r[Len(q) + 1] = m /\ \A i \in 1 .. Len(q) : r[i] = q[i]
    BY <1>1
  <1>3. q = <<>> <=> Len(q) = 0
    BY <1>1
  <1> HIDE DEF r
  <1>4. r # <<>> /\ Past(r[Len(r)]) = Past(m)
    BY <1>2
  <1>5. CASE q = <<>>
    <2>1. r[1].seq = a /\ Len(r) = 1
      BY <1>2, <1>3, <1>5 DEF Covers
    <2> QED BY <1>2, <1>4, <2>1 DEF Covers, r
  <1>6. CASE q # <<>>
    <2>1. /\ q[1].seq = a /\ Past(q[Len(q)]) = b /\ Len(q) \in Nat \ {0}
          /\ \A i \in 1 .. (Len(q) - 1) : Past(q[i]) = q[i + 1].seq
      BY <1>2, <1>3, <1>6 DEF Covers
    <2>2. r[1].seq = a
      BY <1>2, <2>1
    <2>3. ASSUME NEW i \in 1 .. (Len(r) - 1)
          PROVE  Past(r[i]) = r[i + 1].seq
      <3>1. CASE i = Len(q)
        BY <1>2, <2>1, <3>1
      <3>2. CASE i # Len(q)
        <4>1. i \in 1 .. (Len(q) - 1) /\ i \in 1 .. Len(q) /\ i + 1 \in 1 .. Len(q)
          BY <1>2, <3>2
        <4> QED BY <1>2, <2>1, <4>1
      <3> QED BY <3>1, <3>2
    <2> QED BY <1>2, <1>4, <2>2, <2>3 DEF Covers, r
  <1> QED BY <1>5, <1>6

(* A gap fill and a message sent again are messages that cover numbers.    *)
LEMMA GapFillCovers ==
    ASSUME NEW a \in Nat, NEW b \in Nat
    PROVE  GapFill(a, b) \in Message /\ GapFill(a, b).seq = a /\ Past(GapFill(a, b)) = b
  <1> DEFINE m == GapFill(a, b)
  <1>1. m \in Message
    BY DEF GapFill, Plain, Message, MsgTypes, AdminTypes, Grades
  <1>2. m.type = "SequenceReset" /\ m.seq = a /\ m.lo = b
    BY DEF GapFill, Plain
  <1> QED BY <1>1, <1>2 DEF Past

(* A message sent again covers its own number.                             *)
LEMMA ResentCovers ==
    ASSUME NEW m \in Message, m.type # "SequenceReset"
    PROVE  Resent(m) \in Message /\ Resent(m).seq = m.seq /\ Past(Resent(m)) = m.seq + 1
  <1>1. Resent(m) \in Message /\ Resent(m).seq = m.seq /\ Resent(m).type = m.type
    BY DEF Resent, Message
  <1> QED BY <1>1 DEF Past

(* The loop after the number n: what was sent leads to a pending gap fill, *)
(* or past n.                                                              *)
CoverInv(acc, n, begin) ==
    IF n < begin THEN acc = LoopStart(begin)
    ELSE /\ acc.last = n /\ acc.current = n + 1 /\ acc.begin \in 0 .. n
         /\ Covers(acc.out, begin, IF acc.begin # 0 THEN acc.begin ELSE n + 1)

(* One turn of the loop keeps it.                                          *)
LEMMA TurnCovers ==
    ASSUME NEW m \in Message, NEW begin \in Nat \ {0}, NEW n \in Nat, begin <= n, m.seq = n,
           NEW acc, CoverInv(acc, n - 1, begin), NEW withheld
    PROVE  CoverInv(LoopBody(acc, m, withheld), n, begin)
  <1> DEFINE first == IF acc.current # m.seq /\ acc.begin = 0 THEN acc.current ELSE acc.begin
             sends == ~isAdminMsgType(m.type) /\ m.seq \notin withheld
             fill == IF first # 0 THEN <<GapFill(first, m.seq)>> ELSE <<>>
             t == LoopBody(acc, m, withheld)
  <1>1. /\ acc.current = n /\ acc.begin \in 0 .. (n - 1)
        /\ Covers(acc.out, begin, IF acc.begin # 0 THEN acc.begin ELSE n)
    <2>1. CASE n = begin
      <3>1. acc = LoopStart(begin)
        BY <2>1 DEF CoverInv
      <3>2. Covers(<<>>, begin, begin)
        BY DEF Covers
      <3> QED BY <2>1, <3>1, <3>2 DEF LoopStart
    <2>2. CASE n # begin
      <3>1. ~(n - 1 < begin) /\ (n - 1) + 1 = n
        BY <2>2
      <3> QED BY <3>1 DEF CoverInv
    <2> QED BY <2>1, <2>2
  <1>2. first = acc.begin
    BY <1>1
  <1>3. t = [out |-> IF sends THEN acc.out \o fill \o <<Resent(m)>> ELSE acc.out,
             begin |-> IF sends THEN 0 ELSE IF first = 0 THEN m.seq ELSE first,
             current |-> m.seq + 1, last |-> m.seq, appMessageJustSent |-> sends]
    BY DEF LoopBody
  <1>4. t.last = n /\ t.current = n + 1
    BY <1>3
  <1>5. acc.out \in Seq(Message)
    BY <1>1 DEF Covers
  <1>6. CASE sends
    <2>1. m.type # "SequenceReset"
      BY <1>6 DEF isAdminMsgType, AdminTypes
    <2>2. Covers(acc.out \o fill, begin, n)
      <3>1. CASE acc.begin = 0
        <4>1. acc.out \o <<>> = acc.out
          BY <1>5
        <4> QED BY <1>1, <1>2, <3>1, <4>1
      <3>2. CASE acc.begin # 0
        <4>1. acc.begin \in Nat /\ Covers(acc.out, begin, acc.begin)
          BY <1>1, <3>2
        <4>2. Covers(acc.out \o <<GapFill(acc.begin, n)>>, begin, n)
          BY <4>1, GapFillCovers, CoversAppend
        <4> QED BY <1>2, <3>2, <4>2
      <3> QED BY <3>1, <3>2
    <2> HIDE DEF t, fill, sends
    <2>3. t.out = (acc.out \o fill) \o <<Resent(m)>> /\ t.begin = 0
      BY <1>3, <1>6
    <2>4. Covers(t.out, begin, n + 1)
      BY <2>1, <2>2, <2>3, ResentCovers, CoversAppend
    <2> QED BY <1>4, <2>3, <2>4 DEF CoverInv, t
  <1>7. CASE ~sends
    <2>1. t.out = acc.out /\ t.begin = IF acc.begin = 0 THEN n ELSE acc.begin
      BY <1>2, <1>3, <1>7
    <2> HIDE DEF t
    <2>2. t.begin \in 0 .. n /\ t.begin # 0 /\ Covers(t.out, begin, t.begin)
      BY <1>1, <2>1
    <2> QED BY <1>4, <2>2 DEF CoverInv, t
  <1> QED BY <1>6, <1>7

(* The answer to a request for begin to end, from a store that holds these *)
(* numbers, leads the counterparty from begin to just past end, whatever   *)
(* the application withholds.                                              *)
THEOREM RetransmitsCover ==
    ASSUME NEW store, NEW next \in Nat, NEW begin \in Nat \ {0}, NEW end \in Nat,
           begin <= end, end < next,
           \A n \in begin .. end :
                n \in DOMAIN store /\ store[n] \in Message /\ store[n].seq = n,
           NEW withheld
    PROVE  Covers(generateRetransmits(store, next, begin, end, withheld), begin, end + 1)
  <1> DEFINE found == StoreGet(store, begin, end)
             acc == Loop(store, begin, end, withheld)
  <1>1. PICK f : /\ Runs(f, end, store, begin, found, withheld) /\ acc = f[end]
    BY LoopValue
  <1>2. \A n \in 0 .. end : n \in found <=> begin <= n
    <2>1. begin \in DOMAIN store
      OBVIOUS
    <2> QED BY <2>1 DEF StoreGet
  <1> HIDE DEF found
  <1>3. \A n \in 0 .. end : f[n] = Turn(IF n = 0 THEN LoopStart(begin) ELSE f[n - 1],
                                        n, store, found, withheld)
    BY <1>1 DEF Runs
  <1> DEFINE S == {n \in Nat : n <= end => CoverInv(f[n], n, begin)}
  <1>4. 0 \in S
    <2>1. 0 \in 0 .. end /\ 0 < begin
      OBVIOUS
    <2>2. f[0] = LoopStart(begin)
      BY <1>2, <1>3, <2>1 DEF Turn
    <2> QED BY <2>1, <2>2 DEF CoverInv
  <1>5. ASSUME NEW k \in Nat, k \in S
        PROVE  k + 1 \in S
    <2> DEFINE n == k + 1
    <2>1. SUFFICES ASSUME n <= end PROVE CoverInv(f[n], n, begin)
      OBVIOUS
    <2>2. n \in 0 .. end /\ n # 0 /\ n - 1 = k /\ n \in Nat /\ CoverInv(f[k], k, begin)
      BY <1>5, <2>1
    <2>3. f[n] = Turn(f[k], n, store, found, withheld)
      BY <1>3, <2>2
    <2> HIDE DEF n
    <2>4. CASE begin <= n
      <3>1. f[n] = LoopBody(f[k], store[n], withheld)
        BY <1>2, <2>2, <2>3, <2>4 DEF Turn
      <3>2. store[n] \in Message /\ store[n].seq = n
        BY <2>1, <2>2, <2>4
      <3> QED BY <2>2, <2>4, <3>1, <3>2, TurnCovers
    <2>5. CASE ~(begin <= n)
      <3>1. f[n] = f[k]
        BY <1>2, <2>2, <2>3, <2>5 DEF Turn
      <3> QED BY <2>2, <2>5, <3>1 DEF CoverInv
    <2> QED BY <2>4, <2>5
  <1> HIDE DEF S
  <1>6. end \in S
    BY <1>4, <1>5, SetInduction
  <1>7. CoverInv(acc, end, begin)
    BY <1>1, <1>6 DEF S
  <1> DEFINE inner == IF acc.begin # 0 THEN <<GapFill(acc.begin, acc.last + 1)>> ELSE <<>>
             from  == IF acc.appMessageJustSent THEN acc.last + 1 ELSE begin
             tail  == IF end > acc.last THEN <<GapFill(from, fillTo(next, end))>> ELSE <<>>
  <1>8. generateRetransmits(store, next, begin, end, withheld) = acc.out \o inner \o tail
    BY DEF generateRetransmits, LoopEnd
  <1> HIDE DEF acc
  <1>9. /\ acc.last = end /\ acc.begin \in 0 .. end
        /\ Covers(acc.out, begin, IF acc.begin # 0 THEN acc.begin ELSE end + 1)
    BY <1>7 DEF CoverInv
  <1>10. tail = <<>>
    BY <1>9
  <1>11. Covers(acc.out \o inner, begin, end + 1)
    <2>1. CASE acc.begin = 0
      <3>1. acc.out \o <<>> = acc.out
        BY <1>9 DEF Covers
      <3> QED BY <1>9, <2>1, <3>1
    <2>2. CASE acc.begin # 0
      <3>1. acc.begin \in Nat /\ end + 1 \in Nat /\ Covers(acc.out, begin, acc.begin)
        BY <1>9, <2>2
      <3>2. Covers(acc.out \o <<GapFill(acc.begin, end + 1)>>, begin, end + 1)
        BY <3>1, GapFillCovers, CoversAppend
      <3> QED BY <1>9, <2>2, <3>2
    <2> QED BY <2>1, <2>2
  <1> HIDE DEF inner, tail
  <1>12. (acc.out \o inner) \o <<>> = acc.out \o inner
    BY <1>11 DEF Covers
  <1> QED BY <1>8, <1>10, <1>11, <1>12

-----------------------------------------------------------------------------
(* Sending                                                                 *)

(* The messages of a call that began when the next number was n0.          *)
Out(q, n0, n, A, p) ==
    /\ q \in Seq(Message) /\ InSequence(q)
    /\ \A i \in 1 .. Len(q) : Sent(q[i], n, A, p) /\ (~q[i].dup => n0 <= q[i].seq)

(* A session in the middle of such a call.                                 *)
Mid(s, n0, A, p) ==
    /\ Ready(s, A, p) /\ n0 <= s.nextSender
    /\ Out(s.out, n0, s.nextSender, A, p)

(* From s to t nothing was received.                                       *)
Quiet(s, t) ==
    /\ t.nextTarget = s.nextTarget /\ t.got = s.got
    /\ \A n \in DOMAIN t.queue : n \in DOMAIN s.queue /\ t.queue[n] = s.queue[n]

Talks(s, t, n0, A, p) ==
    Mid(t, n0, A, p) /\ s.nextSender <= t.nextSender /\ Quiet(s, t)

(* A session that does nothing talks.                                      *)
LEMMA TalksRefl ==
    ASSUME NEW s, NEW n0, NEW A, NEW p, Mid(s, n0, A, p)
    PROVE  Talks(s, s, n0, A, p)
  BY DEF Talks, Mid, Ready, Quiet

(* Two calls in a row that talk are one that does.                         *)
LEMMA TalksTrans ==
    ASSUME NEW s, NEW t, NEW u, NEW n0, NEW A, NEW p, Mid(s, n0, A, p),
           Talks(s, t, n0, A, p), Talks(t, u, n0, A, p)
    PROVE  Talks(s, u, n0, A, p)
  <1>1. s.nextSender \in Int /\ t.nextSender \in Int /\ u.nextSender \in Int
    BY DEF Talks, Mid, Ready
  <1>2. s.nextSender <= u.nextSender
    BY <1>1 DEF Talks
  <1> QED BY <1>2 DEF Talks, Quiet

(* Fields that no message depends on.                                      *)
LEMMA FlagsTalk ==
    ASSUME NEW s, NEW t, NEW n0, NEW A, NEW p, Mid(s, n0, A, p), DOMAIN t = Fields,
           t.sentReset = FALSE, t.receivedReset = FALSE, t.enabled = s.enabled,
           t.nextSender = s.nextSender, t.nextTarget = s.nextTarget,
           t.sending = s.sending, t.owed = s.owed, t.store = s.store, t.out = s.out, t.got = s.got,
           t.queue = s.queue \/ t.queue = NoMessages
    PROVE  Talks(s, t, n0, A, p)
  <1>1. DOMAIN NoMessages = {}
    BY DEF NoMessages
  <1>2. Quiet(s, t)
    BY <1>1 DEF Quiet
  <1>3. Stored(t, A)
    BY DEF Mid, Ready, Stored
  <1>4. Ready(t, A, p)
    BY <1>3 DEF Mid, Ready
  <1>5. t.nextSender \in Int
    BY <1>4 DEF Ready
  <1> QED BY <1>2, <1>4, <1>5 DEF Talks, Mid

(* What was sent stays as it was sent while more numbers are used.         *)
LEMMA SentLater ==
    ASSUME NEW m, NEW n \in Nat, NEW A, NEW p \in Nat, Sent(m, n, A, p),
           NEW n1 \in Nat, NEW A1, NEW p1 \in Nat, n <= n1, p <= p1,
           A \subseteq A1, \A a \in A1 : a \in A \/ (a \in Nat /\ n <= a)
    PROVE  Sent(m, n1, A1, p1)
  <1>1. m.seq \in Nat /\ m.lo \in Nat
    BY MessageFields DEF Sent
  <1>2. m.type = "SequenceReset" => Fills(m, n1, A1)
    BY <1>1 DEF Sent, Fills
  <1>3. m.type \notin {"App", "SequenceReset"} => m.seq \notin A1
    BY <1>1 DEF Sent
  <1> QED BY <1>1, <1>2, <1>3 DEF Sent

(* One more message at the end of a call's messages.                       *)
LEMMA OutAppend ==
    ASSUME NEW q, NEW n0 \in Nat, NEW n \in Nat, NEW n1 \in Nat, NEW A, NEW A1,
           NEW p \in Nat, Out(q, n0, n, A, p), n0 <= n, n <= n1,
           A \subseteq A1, \A a \in A1 : a \in A \/ (a \in Nat /\ n <= a),
           NEW m \in Message, Sent(m, n1, A1, p), ~m.dup, m.seq = n
    PROVE  Out(q \o <<m>>, n0, n1, A1, p)
  <1> DEFINE r == q \o <<m>>
  <1>1. q \in Seq(Message) /\ <<m>> \in Seq(Message)
    BY DEF Out
  <1>2. r \in Seq(Message) /\ Len(r) = Len(q) + 1 /\ Len(q) \in Nat
    BY <1>1
  <1>3. \A i \in 1 .. Len(q) : r[i] = q[i]
    BY <1>1
  <1>4. r[Len(q) + 1] = m
    BY <1>1
  <1> HIDE DEF r
  <1>5. ASSUME NEW i \in 1 .. Len(q)
        PROVE  Sent(r[i], n1, A1, p) /\ (~r[i].dup => n0 <= r[i].seq) /\ Past(r[i]) <= n
    <2>1. Sent(q[i], n, A, p) /\ (~q[i].dup => n0 <= q[i].seq)
      BY DEF Out
    <2>2. Sent(q[i], n1, A1, p)
      BY <2>1, SentLater
    <2>3. Past(q[i]) <= n
      <3>1. q[i].seq \in Nat /\ q[i].lo \in Nat
        BY <2>1, MessageFields DEF Sent
      <3> QED BY <2>1, <3>1 DEF Sent, Fills, Past
    <2> QED BY <1>3, <2>1, <2>2, <2>3
  <1>6. ASSUME NEW i \in 1 .. Len(r)
        PROVE  Sent(r[i], n1, A1, p) /\ (~r[i].dup => n0 <= r[i].seq)
    <2>1. CASE i \in 1 .. Len(q)
      BY <1>5, <2>1
    <2>2. CASE i = Len(q) + 1
      BY <1>4, <2>2
    <2> QED BY <1>2, <2>1, <2>2
  <1>7. InSequence(r)
    <2> SUFFICES ASSUME NEW i \in 1 .. Len(r), NEW j \in 1 .. Len(r), i < j, ~r[j].dup
                 PROVE  Past(r[i]) <= r[j].seq
      BY DEF InSequence
    <2>1. i \in 1 .. Len(q)
      BY <1>2
    <2>2. CASE j \in 1 .. Len(q)
      BY <1>3, <2>1, <2>2 DEF Out, InSequence
    <2>3. CASE j = Len(q) + 1
      BY <1>4, <1>5, <2>1, <2>3
    <2> QED BY <1>2, <2>2, <2>3
  <1> QED BY <1>2, <1>6, <1>7 DEF Out, r

(* Retransmissions at the end of a call's messages.                        *)
LEMMA OutAgain ==
    ASSUME NEW q, NEW n0 \in Nat, NEW n \in Nat, NEW A, NEW p \in Nat,
           Out(q, n0, n, A, p), NEW r, Again(r, n, A, p)
    PROVE  Out(q \o r, n0, n, A, p)
  <1> DEFINE u == q \o r
  <1>1. q \in Seq(Message) /\ r \in Seq(Message)
    BY DEF Out, Again
  <1>2. u \in Seq(Message) /\ Len(u) = Len(q) + Len(r) /\ Len(q) \in Nat /\ Len(r) \in Nat
    BY <1>1
  <1>3. \A i \in 1 .. Len(q) : u[i] = q[i]
    BY <1>1
  <1>4. \A i \in 1 .. Len(u) : i > Len(q) => u[i] = r[i - Len(q)] /\ i - Len(q) \in 1 .. Len(r)
    BY <1>1, <1>2
  <1> HIDE DEF u
  <1>5. ASSUME NEW i \in 1 .. Len(u)
        PROVE  /\ Sent(u[i], n, A, p) /\ (~u[i].dup => n0 <= u[i].seq)
               /\ ~u[i].dup => i \in 1 .. Len(q)
    <2>1. CASE i \in 1 .. Len(q)
      BY <1>3, <2>1 DEF Out
    <2>2. CASE i > Len(q)
      BY <1>4, <2>2 DEF Again
    <2> QED BY <1>2, <2>1, <2>2
  <1>6. InSequence(u)
    <2> SUFFICES ASSUME NEW i \in 1 .. Len(u), NEW j \in 1 .. Len(u), i < j, ~u[j].dup
                 PROVE  Past(u[i]) <= u[j].seq
      BY DEF InSequence
    <2>1. j \in 1 .. Len(q) /\ i \in 1 .. Len(q)
      BY <1>2, <1>5
    <2> QED BY <1>3, <2>1 DEF Out, InSequence
  <1> QED BY <1>2, <1>5, <1>6 DEF Out, u

(* sendAll for retransmissions.                                            *)
LEMMA SendAgainTalks ==
    ASSUME NEW s, NEW n0 \in Nat, NEW A, NEW p \in Nat, Mid(s, n0, A, p),
           NEW r, Again(r, s.nextSender, A, p)
    PROVE  Talks(s, sendAll(s, r), n0, A, p)
  <1>1. CASE ~s.responder
    BY <1>1, TalksRefl DEF sendAll
  <1>2. CASE s.responder
    <2> DEFINE t == [s EXCEPT !.out = @ \o r]
    <2>1. sendAll(s, r) = t
      BY <1>2 DEF sendAll
    <2>2. DOMAIN s = Fields /\ s.nextSender \in Nat
      BY DEF Mid, Ready
    <2>3. /\ DOMAIN t = Fields
          /\ t.sentReset = s.sentReset /\ t.receivedReset = s.receivedReset
          /\ t.enabled = s.enabled
          /\ t.nextSender = s.nextSender /\ t.nextTarget = s.nextTarget
          /\ t.sending = s.sending /\ t.owed = s.owed /\ t.store = s.store /\ t.got = s.got
          /\ t.queue = s.queue /\ t.out = s.out \o r
      BY <2>2 DEF Fields
    <2> HIDE DEF t
    <2>4. Out(s.out \o r, n0, s.nextSender, A, p)
      BY <2>2, OutAgain DEF Mid
    <2>5. Stored(t, A)
      BY <2>3 DEF Mid, Ready, Stored
    <2>6. Ready(t, A, p)
      BY <2>3, <2>5 DEF Mid, Ready
    <2>7. Mid(t, n0, A, p)
      BY <2>3, <2>4, <2>6 DEF Mid
    <2>8. Quiet(s, t)
      BY <2>3 DEF Quiet
    <2> QED BY <2>1, <2>2, <2>3, <2>7, <2>8 DEF Talks
  <1> QED BY <1>1, <1>2

(* persist: the next number is used and kept with the message; A1 is A and *)
(* the number if it is an application's.                                   *)
LEMMA PersistStored ==
    ASSUME NEW s, NEW A, NEW p, Ready(s, A, p), NEW m \in Message, NEW A1,
           m.seq = s.nextSender, m.grade = "good",
           A1 = IF m.type = "App" THEN A \cup {m.seq} ELSE A
    PROVE  LET t == persist(s, m)
           IN  /\ Ready(t, A1, p) /\ t.nextSender = s.nextSender + 1
               /\ t.out = s.out /\ t.got = s.got /\ t.queue = s.queue
               /\ t.nextTarget = s.nextTarget /\ t.responder = s.responder
               /\ t.initiate = s.initiate /\ t.receivedLogon = s.receivedLogon
  <1> DEFINE t == persist(s, m)
             kept == [n \in DOMAIN s.store \cup {m.seq} |->
                         IF n = m.seq THEN m ELSE s.store[n]]
  <1>1. /\ DOMAIN s = Fields
        /\ s.sentReset = FALSE /\ s.receivedReset = FALSE /\ s.sending = 0
        /\ s.nextSender \in Nat \ {0} /\ s.nextTarget \in Nat \ {0} /\ s.nextTarget <= p
        /\ s.owed \in Nat /\ s.owed <= s.nextSender
        /\ MaxLogouts = 0 => s.enabled
    BY DEF Ready
  <1>2. t = [s EXCEPT !.store = IF PersistMessages THEN kept ELSE @, !.nextSender = @ + 1]
    BY DEF persist
  <1>3. /\ DOMAIN t = Fields
        /\ t.sentReset = s.sentReset /\ t.receivedReset = s.receivedReset
        /\ t.enabled = s.enabled /\ t.responder = s.responder
        /\ t.initiate = s.initiate /\ t.receivedLogon = s.receivedLogon
        /\ t.nextSender = s.nextSender + 1 /\ t.nextTarget = s.nextTarget
        /\ t.sending = s.sending /\ t.owed = s.owed /\ t.got = s.got /\ t.queue = s.queue /\ t.out = s.out
        /\ t.store = IF PersistMessages THEN kept ELSE s.store
    <2> HIDE DEF kept
    <2> QED BY <1>1, <1>2 DEF Fields
  <1> HIDE DEF t
  <1>4. \A a \in A : a \in Nat \ {0} /\ a < s.nextSender
    BY DEF Ready
  <1>5. \A a \in A1 : a \in Nat \ {0} /\ a < t.nextSender
    BY <1>1, <1>3, <1>4
  <1>6. Stored(t, A1)
    <2>1. Stored(s, A)
      BY DEF Ready
    <2>2. CASE PersistMessages
      <3>1. t.store = kept /\ DOMAIN s.store = 1 .. (s.nextSender - 1)
        BY <1>3, <2>1, <2>2 DEF Stored
      <3>2. DOMAIN kept = 1 .. (t.nextSender - 1)
        BY <1>1, <1>3, <3>1
      <3>3. ASSUME NEW n \in DOMAIN kept
            PROVE  /\ kept[n] \in Message /\ kept[n].seq = n /\ kept[n].grade = "good"
                   /\ kept[n].type = "App" <=> n \in A1
        <4>1. CASE n = m.seq
          <5>1. kept[n] = m
            BY <4>1
          <5>2. n \notin A
            BY <1>1, <1>4, <4>1
          <5> HIDE DEF kept
          <5> QED BY <4>1, <5>1, <5>2
        <4>2. CASE n # m.seq
          <5>1. n \in DOMAIN s.store /\ kept[n] = s.store[n]
            BY <4>2
          <5> HIDE DEF kept
          <5> QED BY <2>1, <4>2, <5>1 DEF Stored
        <4> QED BY <4>1, <4>2
      <3> HIDE DEF kept
      <3> QED BY <3>1, <3>2, <3>3 DEF Stored
    <2>3. CASE ~PersistMessages
      <3>1. t.store = s.store
        BY <1>3, <2>3
      <3>2. ASSUME NEW n \in DOMAIN s.store
            PROVE  n \in 1 .. (t.nextSender - 1) /\ (s.store[n].type = "App" <=> n \in A1)
        BY <1>1, <1>3, <2>1 DEF Stored
      <3> QED BY <2>1, <2>3, <3>1, <3>2 DEF Stored
    <2> QED BY <2>2, <2>3
  <1>7. t.owed <= t.nextSender
    BY <1>1, <1>3
  <1>8. Ready(t, A1, p)
    BY <1>1, <1>3, <1>5, <1>6, <1>7 DEF Ready
  <1> QED BY <1>3, <1>8 DEF t

(* The messages of a call are the same when more numbers are used.         *)
LEMMA OutLater ==
    ASSUME NEW q, NEW n0 \in Nat, NEW n \in Nat, NEW A, NEW p \in Nat, Out(q, n0, n, A, p),
           NEW n1 \in Nat, NEW A1, n <= n1,
           A \subseteq A1, \A a \in A1 : a \in A \/ (a \in Nat /\ n <= a)
    PROVE  Out(q, n0, n1, A1, p)
  <1>1. ASSUME NEW i \in 1 .. Len(q)
        PROVE  Sent(q[i], n1, A1, p)
    <2>1. Sent(q[i], n, A, p)
      BY DEF Out
    <2> QED BY <2>1, SentLater
  <1> QED BY <1>1 DEF Out

(* The end of sendRaw for a new message.                                   *)
LEMMA SendNumberedTalks ==
    ASSUME NEW s, NEW n0 \in Nat, NEW A, NEW p \in Nat, Mid(s, n0, A, p), NEW goes \in BOOLEAN,
           NEW m \in Message, NEW A1, m.seq = s.nextSender, ~m.dup, m.grade = "good",
           A1 = IF m.type = "App" THEN A \cup {m.seq} ELSE A,
           Sent(m, s.nextSender + 1, A1, p)
    PROVE  Talks(s, sendNumbered(s, m, goes), n0, A1, p)
  <1> DEFINE u == persist(s, m)
             t == sendNumbered(s, m, goes)
  <1>1. /\ Ready(u, A1, p) /\ u.nextSender = s.nextSender + 1
        /\ u.out = s.out /\ u.got = s.got /\ u.queue = s.queue
        /\ u.nextTarget = s.nextTarget
    BY PersistStored DEF Mid
  <1>2. s.nextSender \in Nat \ {0} /\ n0 <= s.nextSender
    BY DEF Mid, Ready
  <1>3. \A a \in A1 : a \in A \/ (a \in Nat /\ s.nextSender <= a)
    BY <1>2
  <1>4. A \subseteq A1
    OBVIOUS
  <1>5. Out(s.out, n0, s.nextSender, A, p)
    BY DEF Mid
  <1>6. Out(s.out, n0, u.nextSender, A1, p)
    BY <1>1, <1>2, <1>3, <1>4, <1>5, OutLater
  <1>7. Out(s.out \o <<m>>, n0, u.nextSender, A1, p)
    BY <1>1, <1>2, <1>3, <1>4, <1>5, OutAppend
  <1>8. DOMAIN u = Fields
    BY <1>1 DEF Ready
  <1>9. t = IF u.responder THEN [u EXCEPT !.out = @ \o (IF goes THEN <<m>> ELSE <<>>)] ELSE u
    BY DEF sendNumbered, sendAll
  <1> HIDE DEF t, u
  <1>10. CASE t = u
    <2>1. Mid(t, n0, A1, p)
      BY <1>1, <1>2, <1>6, <1>10 DEF Mid
    <2> QED BY <1>1, <1>2, <1>10, <2>1 DEF Talks, Quiet, t
  <1>11. ASSUME NEW q, t = [u EXCEPT !.out = q], Out(q, n0, u.nextSender, A1, p)
         PROVE  Talks(s, t, n0, A1, p)
    <2>1. /\ DOMAIN t = Fields
          /\ t.sentReset = u.sentReset /\ t.receivedReset = u.receivedReset
          /\ t.enabled = u.enabled
          /\ t.nextSender = u.nextSender /\ t.nextTarget = u.nextTarget
          /\ t.sending = u.sending /\ t.owed = u.owed /\ t.store = u.store /\ t.got = u.got
          /\ t.queue = u.queue /\ t.out = q
      BY <1>8, <1>11 DEF Fields
    <2>2. Stored(t, A1)
      BY <1>1, <2>1 DEF Ready, Stored
    <2>3. Ready(t, A1, p)
      BY <1>1, <2>1, <2>2 DEF Ready
    <2>4. Mid(t, n0, A1, p)
      BY <1>1, <1>2, <1>11, <2>1, <2>3 DEF Mid
    <2> QED BY <1>1, <1>2, <2>1, <2>4 DEF Talks, Quiet
  <1>12. CASE u.responder /\ goes
    BY <1>1, <1>7, <1>9, <1>11, <1>12 DEF t
  <1>13. CASE u.responder /\ ~goes
    <2>1. s.out \o <<>> = s.out
      BY <1>5 DEF Out
    <2> QED BY <1>1, <1>6, <1>9, <1>11, <1>13, <2>1 DEF t
  <1>14. CASE ~u.responder
    BY <1>9, <1>10, <1>14
  <1> QED BY <1>12, <1>13, <1>14 DEF t

(* What an administrative message has to be: Again is for the others.      *)
Admin(m, p) ==
    /\ m \in Message /\ ~m.dup /\ m.grade = "good" /\ m.hi = 0
    /\ m.type \in {"Logon", "Logout", "Heartbeat", "ResendRequest"}
    /\ m.type = "Logon" => ~m.flag /\ m.lo <= p
    /\ m.type = "Logout" => ~Lasting
    /\ m.type = "ResendRequest" => 1 <= m.lo /\ m.lo <= p

(* No reset, so none overtakes a send.                                     *)
LEMMA NoSendInside ==
    ASSUME NEW s, NEW A, NEW p, Ready(s, A, p)
    PROVE  finishSend(s) = s
  BY DEF finishSend, Ready

(* sendRaw for an administrative message.                                  *)
LEMMA SendAdminTalks ==
    ASSUME NEW s, NEW n0 \in Nat, NEW A, NEW p \in Nat, Mid(s, n0, A, p),
           NEW m, Admin(m, p)
    PROVE  Talks(s, sendAdmin(s, m), n0, A, p)
  <1> DEFINE s1 == decideReset(s, m)
             k == [m EXCEPT !.seq = s1.nextSender]
             goes == \/ m.type \in {"Logon", "Logout", "ResendRequest", "SequenceReset"}
                     \/ isLoggedOn(s)
  <1>1. DOMAIN s = Fields /\ s.receivedReset = FALSE /\ s.sentReset = FALSE
    BY DEF Mid, Ready
  <1>2. m \in Message
    BY DEF Admin
  <1>3. Talks(s, s1, n0, A, p)
    <2>1. CASE m.type = "Logon"
      <3>1. ~m.flag
        BY <2>1 DEF Admin
      <3>2. s1 = [s EXCEPT !.sentReset = m.flag]
        BY <1>1, <2>1, <3>1 DEF decideReset
      <3>3. m.flag = FALSE
        BY <1>2, <3>1, MessageFields
      <3>4. s1 = [s EXCEPT !.sentReset = FALSE]
        BY <3>2, <3>3
      <3> HIDE DEF s1
      <3> QED BY <1>1, <3>4, FlagsTalk DEF Fields
    <2>2. CASE m.type # "Logon"
      BY <2>2, TalksRefl DEF decideReset
    <2> QED BY <2>1, <2>2
  <1>4. sendAdmin(s, m) = sendNumbered(s1, k, goes)
    BY NoSendInside DEF sendAdmin, Mid
  <1>5. Mid(s1, n0, A, p)
    BY <1>3 DEF Talks
  <1> HIDE DEF s1
  <1>6. s1.nextSender \in Nat \ {0} /\ (\A a \in A : a < s1.nextSender /\ a \in Nat)
    BY <1>5 DEF Mid, Ready
  <1>7. /\ k \in Message /\ k.seq = s1.nextSender /\ k.type = m.type /\ k.dup = m.dup
        /\ k.grade = m.grade /\ k.flag = m.flag /\ k.lo = m.lo /\ k.hi = m.hi
    BY <1>2, <1>6 DEF Message
  <1> HIDE DEF k
  <1>8. k.seq \notin A
    BY <1>6, <1>7
  <1>9. Sent(k, s1.nextSender + 1, A, p)
    BY <1>6, <1>7, <1>8 DEF Admin, Sent, SessionTypes
  <1>10. goes \in BOOLEAN
    OBVIOUS
  <1> HIDE DEF goes
  <1>11. ~k.dup /\ k.grade = "good" /\ A = IF k.type = "App" THEN A \cup {k.seq} ELSE A
    BY <1>7 DEF Admin
  <1>12. Talks(s1, sendNumbered(s1, k, goes), n0, A, p)
    BY <1>5, <1>7, <1>9, <1>10, <1>11, SendNumberedTalks
  <1> QED BY <1>3, <1>4, <1>12, TalksTrans

(* Messages without fields of their own.                                   *)
LEMMA PlainAdmin ==
    ASSUME NEW t \in {"Logout", "Heartbeat"}, t = "Logout" => ~Lasting, NEW p
    PROVE  Admin(Plain(t, 0), p)
  BY DEF Admin, Plain, Message, MsgTypes, AdminTypes, Grades

(* A Logon may be sent when it asks for no number the counterparty has not *)
(* reached.                                                                *)
LEMMA LogonAdmin ==
    ASSUME NEW p \in Nat, NEW l \in Nat, l <= p
    PROVE  Admin(Logon(0, FALSE, l), p)
  <1> DEFINE m == Logon(0, FALSE, l)
  <1>1. /\ m \in Message /\ m.type = "Logon" /\ m.dup = FALSE /\ m.grade = "good"
        /\ m.flag = FALSE /\ m.lo = l /\ m.hi = 0
    BY DEF Logon, Plain, Message, MsgTypes, AdminTypes, Grades
  <1> HIDE DEF m
  <1>2. Admin(m, p)
    BY <1>1 DEF Admin
  <1> QED BY <1>2 DEF m

(* A ResendRequest may be sent from a number the counterparty has reached. *)
LEMMA RequestAdmin ==
    ASSUME NEW p \in Nat, NEW l \in Nat \ {0}, l <= p
    PROVE  Admin(ResendRequest(0, l, 0), p)
  <1> DEFINE m == ResendRequest(0, l, 0)
  <1>1. /\ m \in Message /\ m.type = "ResendRequest" /\ m.dup = FALSE /\ m.grade = "good"
        /\ m.lo = l /\ m.hi = 0
    BY DEF ResendRequest, Plain, Message, MsgTypes, AdminTypes, Grades
  <1> HIDE DEF m
  <1>2. Admin(m, p)
    BY <1>1 DEF Admin
  <1> QED BY <1>2 DEF m

(* The generators.                                                         *)
LEMMA LogoutTalks ==
    ASSUME NEW s, NEW n0 \in Nat, NEW A, NEW p \in Nat, Mid(s, n0, A, p), ~Lasting
    PROVE  Talks(s, generateLogout(s), n0, A, p)
  <1> DEFINE u == sendAdmin(s, Plain("Logout", 0))
             t == [u EXCEPT !.sentLogout = TRUE]
  <1>1. Talks(s, u, n0, A, p)
    BY PlainAdmin, SendAdminTalks
  <1>2. Mid(u, n0, A, p)
    BY <1>1 DEF Talks
  <1> HIDE DEF u
  <1>3. DOMAIN u = Fields /\ u.receivedReset = FALSE /\ u.sentReset = FALSE
    BY <1>2 DEF Mid, Ready
  <1>4. Talks(u, t, n0, A, p)
    BY <1>2, <1>3, FlagsTalk DEF Fields
  <1> QED BY <1>1, <1>4, TalksTrans DEF generateLogout, u

(* generateHeartbeat sends one administrative message.                     *)
LEMMA HeartbeatTalks ==
    ASSUME NEW s, NEW n0 \in Nat, NEW A, NEW p \in Nat, Mid(s, n0, A, p)
    PROVE  Talks(s, generateHeartbeat(s), n0, A, p)
  BY PlainAdmin, SendAdminTalks DEF generateHeartbeat

(* generateResendRequest asks for what is expected and remembers the       *)
(* range.                                                                  *)
LEMMA RequestTalks ==
    ASSUME NEW s, NEW n0 \in Nat, NEW A, NEW p \in Nat, Mid(s, n0, A, p), NEW n
    PROVE  Talks(s, generateResendRequest(s, n), n0, A, p)
  <1> DEFINE u == sendAdmin(s, ResendRequest(0, s.nextTarget, 0))
             t == [u EXCEPT !.resendRange = <<s.nextTarget, n - 1>>,
                            !.asked = @ \cup {s.nextTarget}]
  <1>1. s.nextTarget \in Nat \ {0} /\ s.nextTarget <= p
    BY DEF Mid, Ready
  <1>2. Talks(s, u, n0, A, p)
    BY <1>1, RequestAdmin, SendAdminTalks
  <1>3. Mid(u, n0, A, p)
    BY <1>2 DEF Talks
  <1> HIDE DEF u
  <1>4. DOMAIN u = Fields /\ u.receivedReset = FALSE /\ u.sentReset = FALSE
    BY <1>3 DEF Mid, Ready
  <1>5. Talks(u, t, n0, A, p)
    BY <1>3, <1>4, FlagsTalk DEF Fields
  <1> QED BY <1>2, <1>5, TalksTrans DEF generateResendRequest, u

(* Without the reset settings disconnect keeps the numbers and the store;  *)
(* the queue is emptied.                                                   *)
LEMMA DisconnectTalks ==
    ASSUME NoResets, NEW s, NEW n0 \in Nat, NEW A, NEW p \in Nat, Mid(s, n0, A, p)
    PROVE  /\ Talks(s, disconnect(s), n0, A, p)
           /\ disconnect(s) = disconnectWith(s, FALSE)
           /\ ~disconnect(s).responder
  <1> DEFINE t == [s EXCEPT !.responder = FALSE, !.receivedLogon = FALSE,
                        !.sentLogon = FALSE, !.sentLogout = FALSE,
                        !.receivedReset = FALSE, !.sentReset = FALSE,
                        !.queue = NoMessages, !.resendRange = <<0, 0>>,
                        !.asked = {}]
  <1>1. disconnect(s) = t /\ disconnectWith(s, FALSE) = t
    BY NoSendInside DEF disconnect, disconnectWith, NoResets, Mid
  <1>2. DOMAIN s = Fields
    BY DEF Mid, Ready
  <1>3. /\ DOMAIN t = Fields /\ t.sentReset = FALSE /\ t.receivedReset = FALSE
        /\ t.enabled = s.enabled
        /\ t.nextSender = s.nextSender /\ t.nextTarget = s.nextTarget
        /\ t.sending = s.sending /\ t.owed = s.owed /\ t.store = s.store /\ t.out = s.out /\ t.got = s.got
        /\ t.queue = NoMessages /\ t.responder = FALSE
    BY <1>2 DEF Fields
  <1> HIDE DEF t
  <1>4. Talks(s, t, n0, A, p)
    BY <1>3, FlagsTalk
  <1> QED BY <1>1, <1>3, <1>4

(* What a Logon asks for is only recorded.                                 *)
LEMMA AsksFromTalks ==
    ASSUME NEW s, NEW n0, NEW A, NEW p, Mid(s, n0, A, p), NEW l
    PROVE  Talks(s, asksFrom(s, l), n0, A, p)
  <1> DEFINE t == [s EXCEPT !.asked = @ \cup {l}]
  <1>1. DOMAIN s = Fields /\ s.receivedReset = FALSE /\ s.sentReset = FALSE
    BY DEF Mid, Ready
  <1>2. Talks(s, t, n0, A, p)
    BY <1>1, FlagsTalk DEF Fields
  <1> QED BY <1>2, TalksRefl DEF asksFrom

(* generateLogon of an initiator announces the number it expects.          *)
LEMMA GenerateLogonTalks ==
    ASSUME NoResets, NEW s, NEW n0 \in Nat, NEW A, NEW p \in Nat, Mid(s, n0, A, p)
    PROVE  Talks(s, generateLogon(s), n0, A, p)
  <1> DEFINE l == IF SendNextExpectedMsgSeqNum THEN s.nextTarget ELSE 0
             u == [s EXCEPT !.testRequest = 0, !.sentLogon = TRUE]
             v == sendAdmin(u, Logon(0, FALSE, l))
  <1>1. DOMAIN s = Fields /\ s.receivedReset = FALSE /\ s.sentReset = FALSE
        /\ s.nextTarget \in Nat /\ s.nextTarget <= p
    BY DEF Mid, Ready
  <1>2. generateLogon(s) = asksFrom(v, Logon(0, FALSE, l).lo)
    BY DEF generateLogon, shouldSendReset, NoResets
  <1>3. Talks(s, u, n0, A, p)
    BY <1>1, FlagsTalk DEF Fields
  <1>4. Mid(u, n0, A, p)
    BY <1>3 DEF Talks
  <1>5. l \in Nat /\ l <= p
    BY <1>1
  <1> HIDE DEF u, l
  <1>6. Admin(Logon(0, FALSE, l), p)
    BY <1>5, LogonAdmin
  <1>7. Talks(u, v, n0, A, p)
    BY <1>4, <1>6, SendAdminTalks
  <1> HIDE DEF v
  <1>8. Talks(v, generateLogon(s), n0, A, p)
    BY <1>2, <1>7, AsksFromTalks DEF Talks
  <1>9. Talks(u, generateLogon(s), n0, A, p)
    BY <1>4, <1>7, <1>8, TalksTrans
  <1> QED BY <1>3, <1>9, TalksTrans

(* generateLogon of an acceptor announces the number after the Logon's     *)
(* own.                                                                    *)
LEMMA LogonReplyTalks ==
    ASSUME NEW s, NEW n0 \in Nat, NEW A, NEW p \in Nat, Mid(s, n0, A, p), s.nextTarget < p
    PROVE  Talks(s, generateLogonReply(s), n0, A, p)
  <1> DEFINE l == IF SendNextExpectedMsgSeqNum THEN s.nextTarget + 1 ELSE 0
             u == sendAdmin(s, Logon(0, s.receivedReset, l))
             t == [u EXCEPT !.sentLogon = TRUE]
  <1>1. s.receivedReset = FALSE /\ s.nextTarget \in Nat
    BY DEF Mid, Ready
  <1>2. l \in Nat /\ l <= p
    BY <1>1
  <1>3. generateLogonReply(s) = asksFrom(t, Logon(0, s.receivedReset, l).lo)
    BY DEF generateLogonReply
  <1> HIDE DEF l
  <1>4. Admin(Logon(0, s.receivedReset, l), p)
    BY <1>1, <1>2, LogonAdmin
  <1>5. Talks(s, u, n0, A, p)
    BY <1>4, SendAdminTalks
  <1>6. Mid(u, n0, A, p)
    BY <1>5 DEF Talks
  <1> HIDE DEF u
  <1>7. DOMAIN u = Fields /\ u.receivedReset = FALSE /\ u.sentReset = FALSE
    BY <1>6 DEF Mid, Ready
  <1>8. Talks(u, t, n0, A, p)
    BY <1>6, <1>7, FlagsTalk DEF Fields
  <1> HIDE DEF t
  <1>9. Talks(t, generateLogonReply(s), n0, A, p)
    BY <1>3, <1>8, AsksFromTalks DEF Talks
  <1>10. Talks(u, generateLogonReply(s), n0, A, p)
    BY <1>6, <1>8, <1>9, TalksTrans
  <1> QED BY <1>5, <1>10, TalksTrans

(* What a request or a Logon with NextExpectedMsgSeqNum is answered with.  *)
LEMMA AnswerTalks ==
    ASSUME NEW s, NEW n0 \in Nat, NEW A, NEW p \in Nat, Mid(s, n0, A, p),
           NEW begin \in Nat \ {0}, begin <= s.nextSender
    PROVE  Talks(s, answerRange(s, begin, s.nextSender - 1, {}), n0, A, p)
  <1> DEFINE n == s.nextSender
             fill == GapFill(begin, fillTo(n, n - 1))
             r == IF PersistMessages THEN generateRetransmits(s.store, n, begin, n - 1, {})
                  ELSE <<fill>>
  <1>1. n \in Nat \ {0} /\ (\A a \in A : a \in Nat \ {0} /\ a < n) /\ Stored(s, A)
    BY DEF Mid, Ready
  <1>2. answerRange(s, begin, n - 1, {}) = sendAll(s, r)
    BY DEF answerRange
  <1> HIDE DEF n
  <1>3. Again(r, n, A, p)
    <2>1. CASE PersistMessages
      <3>1. Full(s.store, n, A)
        BY <1>1, <2>1 DEF Full, Stored, n
      <3>2. begin \in 1 .. n
        BY <1>1 DEF n
      <3> QED BY <1>1, <2>1, <3>1, <3>2, RetransmitsAgain
    <2>2. CASE ~PersistMessages
      <3>1. fillTo(n, n - 1) = n
        BY <1>1 DEF fillTo
      <3>2. Sent(GapFill(begin, n), n, A, p) /\ GapFill(begin, n).dup
            /\ GapFill(begin, n) \in Message
        <4> DEFINE m == GapFill(begin, n)
        <4>1. /\ m.type = "SequenceReset" /\ m.seq = begin /\ m.dup = TRUE
              /\ m.grade = "good" /\ m.flag = TRUE /\ m.lo = n
          BY DEF GapFill, Plain
        <4>2. m \in Message
          BY <1>1 DEF GapFill, Plain, Message, MsgTypes, AdminTypes, Grades
        <4>3. begin <= n
          BY DEF n
        <4> HIDE DEF m
        <4>4. Fills(m, n, A)
          BY <1>1, <2>2, <4>1, <4>3 DEF Fills, Lasting
        <4>5. Sent(m, n, A, p)
          BY <4>1, <4>2, <4>4 DEF Sent, SessionTypes
        <4> QED BY <4>1, <4>2, <4>5 DEF m
      <3>3. Again(<<>> \o <<GapFill(begin, n)>>, n, A, p)
        BY <3>2, AgainEmpty, AgainAppend
      <3>4. <<>> \o <<GapFill(begin, n)>> = <<GapFill(begin, n)>>
        BY <3>2
      <3> QED BY <2>2, <3>1, <3>3, <3>4
    <2> QED BY <2>1, <2>2
  <1>4. Talks(s, sendAll(s, r), n0, A, p)
    BY <1>3, SendAgainTalks DEF n
  <1> QED BY <1>2, <1>4 DEF n

-----------------------------------------------------------------------------
(* Receiving                                                               *)

(* The queue of t holds what that of s holds, and m at most.               *)
Queues(s, t, m) ==
    \A n \in DOMAIN t.queue :
        \/ n \in DOMAIN s.queue /\ t.queue[n] = s.queue[n]
        \/ n = m.seq /\ t.queue[n] = m

Keeps(s, t) == t.nextTarget = s.nextTarget /\ t.got = s.got

(* An administrative message uses up a number, a Logout also ahead of its  *)
(* turn.                                                                   *)
Uses(s, t, m) ==
    /\ m.type \notin {"App", "SequenceReset"}
    /\ s.nextTarget <= m.seq /\ (m.type # "Logout" => m.seq = s.nextTarget)
    /\ t.nextTarget = s.nextTarget + 1 /\ t.got = s.got

Gets(s, t, m) ==
    /\ m.type = "App" /\ m.seq = s.nextTarget
    /\ t.nextTarget = s.nextTarget + 1 /\ t.got = Append(s.got, m.seq)

Skips(s, t, m) ==
    /\ m.type = "SequenceReset" /\ m.seq = s.nextTarget
    /\ t.nextTarget = m.lo /\ t.got = s.got

Hears(s, t, m) ==
    Queues(s, t, m) /\ (Keeps(s, t) \/ Uses(s, t, m) \/ Gets(s, t, m) \/ Skips(s, t, m))

(* A call that handles m.                                                  *)
Takes(s, t, m, n0, A, p) ==
    Mid(t, n0, A, p) /\ s.nextSender <= t.nextSender /\ Hears(s, t, m)

(* m was sent to s by a side that sends p next and has application         *)
(* messages B; a new message is not before its turn.                       *)
Offered(s, m, B, p) ==
    Sent(m, p, B, s.nextSender) /\ (~m.dup => s.nextTarget <= m.seq)

(* A call that only talks handles nothing.                                 *)
LEMMA TalksTakes ==
    ASSUME NEW s, NEW t, NEW n0, NEW A, NEW p, NEW m, Talks(s, t, n0, A, p)
    PROVE  Takes(s, t, m, n0, A, p)
  BY DEF Talks, Takes, Quiet, Hears, Keeps, Queues

(* Talking before m is handled.                                            *)
LEMMA TalksThenTakes ==
    ASSUME NEW s, NEW t, NEW u, NEW n0, NEW A, NEW p, NEW m, Mid(s, n0, A, p),
           Talks(s, t, n0, A, p), Takes(t, u, m, n0, A, p)
    PROVE  Takes(s, u, m, n0, A, p)
  <1>1. s.nextSender \in Int /\ t.nextSender \in Int /\ u.nextSender \in Int
    BY DEF Talks, Takes, Mid, Ready
  <1>2. s.nextSender <= u.nextSender
    BY <1>1 DEF Talks, Takes
  <1>3. Quiet(s, t) /\ Hears(t, u, m)
    BY DEF Talks, Takes
  <1>4. Queues(s, u, m)
    BY <1>3 DEF Quiet, Hears, Queues
  <1>5. Keeps(s, u) \/ Uses(s, u, m) \/ Gets(s, u, m) \/ Skips(s, u, m)
    BY <1>3 DEF Quiet, Hears, Keeps, Uses, Gets, Skips
  <1> QED BY <1>2, <1>4, <1>5 DEF Takes, Hears

(* Talking after m was handled.                                            *)
LEMMA TakesThenTalks ==
    ASSUME NEW s, NEW t, NEW u, NEW n0, NEW A, NEW p, NEW m, Mid(s, n0, A, p),
           Takes(s, t, m, n0, A, p), Talks(t, u, n0, A, p)
    PROVE  Takes(s, u, m, n0, A, p)
  <1>1. s.nextSender \in Int /\ t.nextSender \in Int /\ u.nextSender \in Int
    BY DEF Talks, Takes, Mid, Ready
  <1>2. s.nextSender <= u.nextSender
    BY <1>1 DEF Talks, Takes
  <1>3. Hears(s, t, m) /\ Quiet(t, u)
    BY DEF Talks, Takes
  <1>4. Queues(s, u, m)
    BY <1>3 DEF Quiet, Hears, Queues
  <1>5. Keeps(s, u) \/ Uses(s, u, m) \/ Gets(s, u, m) \/ Skips(s, u, m)
    BY <1>3 DEF Quiet, Hears, Keeps, Uses, Gets, Skips
  <1> QED BY <1>2, <1>4, <1>5 DEF Takes, Talks, Hears

(* What is offered stays offered while the session talks.                  *)
LEMMA OfferedLater ==
    ASSUME NEW s, NEW t, NEW n0, NEW A, NEW p \in Nat, NEW m, NEW B,
           Mid(s, n0, A, p), Talks(s, t, n0, A, p), Offered(s, m, B, p)
    PROVE  Offered(t, m, B, p)
  <1>1. s.nextSender \in Nat /\ t.nextSender \in Nat /\ s.nextSender <= t.nextSender
    BY DEF Talks, Mid, Ready
  <1>2. Sent(m, p, B, s.nextSender)
    BY DEF Offered
  <1>3. Sent(m, p, B, t.nextSender)
    BY <1>1, <1>2, SentLater
  <1> QED BY <1>3 DEF Offered, Talks, Quiet

(* The messages sent do not depend on what is received.                    *)
LEMMA MidMoved ==
    ASSUME NEW s, NEW t, NEW n0, NEW A, NEW p, Mid(s, n0, A, p), DOMAIN t = Fields,
           t.sentReset = FALSE, t.receivedReset = FALSE, t.enabled = s.enabled,
           t.nextSender = s.nextSender, t.store = s.store, t.out = s.out,
           t.nextTarget \in Nat \ {0}, t.nextTarget <= p,
           t.sending = s.sending, t.owed \in Nat, t.owed <= s.nextSender
    PROVE  Mid(t, n0, A, p) /\ s.nextSender <= t.nextSender
  <1>1. Stored(t, A)
    BY DEF Mid, Ready, Stored
  <1>2. Ready(t, A, p)
    BY <1>1 DEF Mid, Ready
  <1>3. t.nextSender \in Int
    BY <1>2 DEF Ready
  <1> QED BY <1>2, <1>3 DEF Mid

(* incrNextTargetMsgSeqNum for an administrative message.                  *)
LEMMA ConsumeTakes ==
    ASSUME NEW s, NEW n0, NEW A, NEW p \in Nat, NEW m, Mid(s, n0, A, p),
           m.type \notin {"App", "SequenceReset"}, m.seq \in Nat, m.seq < p,
           s.nextTarget <= m.seq, m.type # "Logout" => m.seq = s.nextTarget
    PROVE  Takes(s, consume(s), m, n0, A, p)
  <1> DEFINE t == consume(s)
  <1>1. /\ DOMAIN s = Fields /\ s.sentReset = FALSE /\ s.receivedReset = FALSE
        /\ s.nextTarget \in Nat \ {0} /\ s.owed \in Nat /\ s.owed <= s.nextSender
    BY DEF Mid, Ready
  <1>2. /\ DOMAIN t = Fields /\ t.sentReset = s.sentReset
        /\ t.receivedReset = s.receivedReset /\ t.enabled = s.enabled
        /\ t.nextSender = s.nextSender /\ t.nextTarget = s.nextTarget + 1
        /\ t.sending = s.sending /\ t.owed = s.owed /\ t.store = s.store /\ t.out = s.out
        /\ t.got = s.got /\ t.queue = s.queue
    BY <1>1 DEF Fields, consume, incrNextTargetMsgSeqNum
  <1> HIDE DEF t
  <1>3. t.nextTarget \in Nat \ {0} /\ t.nextTarget <= p
    BY <1>1, <1>2
  <1>4. Mid(t, n0, A, p) /\ s.nextSender <= t.nextSender
    BY <1>1, <1>2, <1>3, MidMoved
  <1>5. Queues(s, t, m)
    BY <1>2 DEF Queues
  <1>6. Uses(s, t, m)
    BY <1>2 DEF Uses
  <1> QED BY <1>4, <1>5, <1>6 DEF Takes, Hears, t

(* An application message in its turn.                                     *)
LEMMA DeliverTakes ==
    ASSUME NEW s, NEW n0, NEW A, NEW p \in Nat, NEW m, Mid(s, n0, A, p),
           m.type = "App", m.seq < p, m.seq = s.nextTarget
    PROVE  Takes(s, deliver(s, m), m, n0, A, p)
  <1> DEFINE t == deliver(s, m)
  <1>1. /\ DOMAIN s = Fields /\ s.sentReset = FALSE /\ s.receivedReset = FALSE
        /\ s.nextTarget \in Nat \ {0} /\ s.owed \in Nat /\ s.owed <= s.nextSender
    BY DEF Mid, Ready
  <1>2. /\ DOMAIN t = Fields /\ t.sentReset = s.sentReset
        /\ t.receivedReset = s.receivedReset /\ t.enabled = s.enabled
        /\ t.nextSender = s.nextSender /\ t.nextTarget = s.nextTarget + 1
        /\ t.sending = s.sending /\ t.owed = s.owed /\ t.store = s.store /\ t.out = s.out
        /\ t.got = Append(s.got, m.seq) /\ t.queue = s.queue
    BY <1>1 DEF Fields, deliver, consume, incrNextTargetMsgSeqNum
  <1> HIDE DEF t
  <1>3. t.nextTarget \in Nat \ {0} /\ t.nextTarget <= p
    BY <1>1, <1>2
  <1>4. Mid(t, n0, A, p) /\ s.nextSender <= t.nextSender
    BY <1>1, <1>2, <1>3, MidMoved
  <1>5. Queues(s, t, m)
    BY <1>2 DEF Queues
  <1>6. Gets(s, t, m)
    BY <1>2 DEF Gets
  <1> QED BY <1>4, <1>5, <1>6 DEF Takes, Hears, t

(* A smaller queue.                                                        *)
LEMMA WithoutTalks ==
    ASSUME NEW s, NEW n0, NEW A, NEW p, Mid(s, n0, A, p), NEW gone
    PROVE  Talks(s, queueWithout(s, gone), n0, A, p)
  <1> DEFINE t == queueWithout(s, gone)
             left == [n \in DOMAIN s.queue \ gone |-> s.queue[n]]
  <1>1. /\ DOMAIN s = Fields /\ s.sentReset = FALSE /\ s.receivedReset = FALSE
        /\ s.nextTarget \in Nat \ {0} /\ s.nextTarget <= p
        /\ s.owed \in Nat /\ s.owed <= s.nextSender
    BY DEF Mid, Ready
  <1>2. t = [s EXCEPT !.queue = left]
    BY DEF queueWithout
  <1>3. \A n \in DOMAIN left : n \in DOMAIN s.queue /\ left[n] = s.queue[n]
    OBVIOUS
  <1> HIDE DEF left, t
  <1>4. /\ DOMAIN t = Fields /\ t.sentReset = s.sentReset
        /\ t.receivedReset = s.receivedReset /\ t.enabled = s.enabled
        /\ t.nextSender = s.nextSender /\ t.nextTarget = s.nextTarget
        /\ t.sending = s.sending /\ t.owed = s.owed /\ t.store = s.store /\ t.out = s.out
        /\ t.got = s.got /\ t.queue = left
    BY <1>1, <1>2 DEF Fields
  <1>5. Mid(t, n0, A, p) /\ s.nextSender <= t.nextSender
    BY <1>1, <1>4, MidMoved
  <1>6. Quiet(s, t)
    BY <1>3, <1>4 DEF Quiet
  <1> QED BY <1>5, <1>6 DEF Talks, t

(* A SequenceReset in its turn.                                            *)
LEMMA SkipTakes ==
    ASSUME NEW s, NEW n0, NEW A, NEW p \in Nat, NEW m, NEW B, Mid(s, n0, A, p),
           m.type = "SequenceReset", m.seq = s.nextTarget, m.lo \in Nat, Fills(m, p, B)
    PROVE  Takes(s, nextSequenceReset(s, m), m, n0, A, p)
  <1> DEFINE t == [s EXCEPT !.nextTarget = m.lo]
  <1>1. /\ DOMAIN s = Fields /\ s.sentReset = FALSE /\ s.receivedReset = FALSE
        /\ s.nextTarget \in Nat \ {0} /\ s.owed \in Nat /\ s.owed <= s.nextSender
    BY DEF Mid, Ready
  <1>2. s.nextTarget <= m.lo /\ m.lo <= p /\ m.flag
    BY DEF Fills
  <1>3. CASE m.lo > s.nextTarget
    <2>1. nextSequenceReset(s, m) = queueWithout(t, 0 .. (m.lo - 1))
      BY <1>2, <1>3 DEF nextSequenceReset
    <2>2. /\ DOMAIN t = Fields /\ t.sentReset = s.sentReset
          /\ t.receivedReset = s.receivedReset /\ t.enabled = s.enabled
          /\ t.nextSender = s.nextSender /\ t.nextTarget = m.lo
          /\ t.sending = s.sending /\ t.owed = s.owed /\ t.store = s.store /\ t.out = s.out
          /\ t.got = s.got /\ t.queue = s.queue
      BY <1>1 DEF Fields
    <2> HIDE DEF t
    <2>3. t.nextTarget \in Nat \ {0} /\ t.nextTarget <= p
      BY <1>1, <1>2, <2>2
    <2>4. Mid(t, n0, A, p) /\ s.nextSender <= t.nextSender
      BY <1>1, <2>2, <2>3, MidMoved
    <2>5. Queues(s, t, m) /\ Skips(s, t, m)
      BY <2>2 DEF Queues, Skips
    <2>6. Takes(s, t, m, n0, A, p)
      BY <2>4, <2>5 DEF Takes, Hears
    <2>7. Talks(t, queueWithout(t, 0 .. (m.lo - 1)), n0, A, p)
      BY <2>4, WithoutTalks
    <2> QED BY <2>1, <2>6, <2>7, TakesThenTalks
  <1>4. CASE ~(m.lo > s.nextTarget)
    <2>1. nextSequenceReset(s, m) = s
      BY <1>1, <1>2, <1>4 DEF nextSequenceReset
    <2> QED BY <2>1, TalksRefl, TalksTakes
  <1> QED BY <1>3, <1>4

(* A message kept for later.                                               *)
LEMMA EnqueueTakes ==
    ASSUME NEW s, NEW n0, NEW A, NEW p, NEW m, Mid(s, n0, A, p)
    PROVE  Takes(s, enqueue(s, m), m, n0, A, p)
  <1> DEFINE t == enqueue(s, m)
             more == [n \in DOMAIN s.queue \cup {m.seq} |->
                         IF n = m.seq THEN m ELSE s.queue[n]]
  <1>1. /\ DOMAIN s = Fields /\ s.sentReset = FALSE /\ s.receivedReset = FALSE
        /\ s.nextTarget \in Nat \ {0} /\ s.nextTarget <= p
        /\ s.owed \in Nat /\ s.owed <= s.nextSender
    BY DEF Mid, Ready
  <1>2. t = [s EXCEPT !.queue = more]
    BY DEF enqueue
  <1>3. \A n \in DOMAIN more : \/ n \in DOMAIN s.queue /\ more[n] = s.queue[n]
                               \/ n = m.seq /\ more[n] = m
    OBVIOUS
  <1> HIDE DEF more, t
  <1>4. /\ DOMAIN t = Fields /\ t.sentReset = s.sentReset
        /\ t.receivedReset = s.receivedReset /\ t.enabled = s.enabled
        /\ t.nextSender = s.nextSender /\ t.nextTarget = s.nextTarget
        /\ t.sending = s.sending /\ t.owed = s.owed /\ t.store = s.store /\ t.out = s.out
        /\ t.got = s.got /\ t.queue = more
    BY <1>1, <1>2 DEF Fields
  <1>5. Mid(t, n0, A, p) /\ s.nextSender <= t.nextSender
    BY <1>1, <1>4, MidMoved
  <1>6. Queues(s, t, m)
    BY <1>3, <1>4 DEF Queues
  <1>7. Keeps(s, t)
    BY <1>4 DEF Keeps
  <1> QED BY <1>5, <1>6, <1>7 DEF Takes, Hears, t

(* doTargetTooHigh                                                         *)
LEMMA TooHighTakes ==
    ASSUME NEW s, NEW n0 \in Nat, NEW A, NEW p \in Nat, NEW m, Mid(s, n0, A, p)
    PROVE  Takes(s, doTargetTooHigh(s, m), m, n0, A, p)
  <1> DEFINE t == enqueue(s, m)
  <1>1. Takes(s, t, m, n0, A, p)
    BY EnqueueTakes
  <1>2. Mid(t, n0, A, p)
    BY <1>1 DEF Takes
  <1>3. Talks(t, generateResendRequest(t, m.seq), n0, A, p)
    BY <1>2, RequestTalks
  <1>4. Takes(s, generateResendRequest(t, m.seq), m, n0, A, p)
    BY <1>1, <1>3, TakesThenTalks
  <1> QED BY <1>1, <1>4 DEF doTargetTooHigh

(* The checks pass.                                                        *)
LEMMA AdmitTalks ==
    ASSUME NEW s, NEW n0, NEW A, NEW p, NEW m, NEW c, Mid(s, n0, A, p)
    PROVE  Talks(s, admit(s, m, c), n0, A, p)
  <1> DEFINE t == admit(s, m, c)
  <1>1. DOMAIN s = Fields /\ s.sentReset = FALSE /\ s.receivedReset = FALSE
    BY DEF Mid, Ready
  <1>2. /\ DOMAIN t = Fields /\ t.sentReset = FALSE /\ t.receivedReset = FALSE
        /\ t.enabled = s.enabled
        /\ t.nextSender = s.nextSender /\ t.nextTarget = s.nextTarget
        /\ t.sending = s.sending /\ t.owed = s.owed /\ t.store = s.store /\ t.out = s.out /\ t.got = s.got
        /\ t.queue = s.queue
    BY <1>1 DEF Fields, admit
  <1> HIDE DEF t
  <1> QED BY <1>2, FlagsTalk DEF t

(* What verify() makes of m.                                               *)
Verified(s, r, m, n0, A, p, B, high, low) ==
    \/ r.ok = FALSE /\ Takes(s, r.s, m, n0, A, p)
    \/ /\ r.ok = TRUE /\ Talks(s, r.s, n0, A, p) /\ Offered(r.s, m, B, p)
       /\ high => m.seq <= r.s.nextTarget
       /\ low => r.s.nextTarget <= m.seq
       /\ r.s.enabled = s.enabled /\ r.s.initiate = s.initiate

(* verify: what it refuses it disposes of; what it admits is in its turn   *)
(* as far as it was asked to check.                                        *)
LEMMA VerifyTakes ==
    ASSUME NoResets, NEW s, NEW n0 \in Nat, NEW A, NEW p \in Nat, NEW m, NEW B,
           NEW high \in BOOLEAN, NEW low \in BOOLEAN,
           Mid(s, n0, A, p), Offered(s, m, B, p)
    PROVE  Verified(s, verify(s, m, high, low), m, n0, A, p, B, high, low)
  <1> DEFINE r == verify(s, m, high, low)
  <1>1. m.grade = "good" /\ m.seq \in Nat /\ m.dup \in BOOLEAN
    BY MessageFields DEF Offered, Sent
  <1>2. s.nextTarget \in Nat /\ DOMAIN s = Fields
    BY DEF Mid, Ready
  <1>3. CASE ~validLogonState(s, m.type)
    <2>1. r.ok = FALSE /\ r.s = disconnect(s)
      BY <1>3 DEF verify
    <2> HIDE DEF r
    <2>2. Talks(s, r.s, n0, A, p)
      BY <2>1, DisconnectTalks
    <2> QED BY <2>1, <2>2, TalksTakes DEF Verified, r
  <1>4. CASE validLogonState(s, m.type) /\ high /\ isTargetTooHigh(s, m)
    <2>1. r.ok = FALSE /\ r.s = doTargetTooHigh(s, m)
      BY <1>1, <1>4 DEF verify
    <2> HIDE DEF r
    <2>2. Takes(s, r.s, m, n0, A, p)
      BY <2>1, TooHighTakes
    <2> QED BY <2>1, <2>2 DEF Verified, r
  <1>5. CASE /\ validLogonState(s, m.type) /\ ~(high /\ isTargetTooHigh(s, m))
             /\ low /\ isTargetTooLow(s, m)
    <2>1. r.ok = FALSE /\ r.s = doTargetTooLow(s, m)
      BY <1>1, <1>5 DEF verify
    <2> HIDE DEF r
    <2>2. m.dup
      BY <1>1, <1>2, <1>5 DEF isTargetTooLow, Offered
    <2>3. r.s = s
      BY <1>1, <2>1, <2>2 DEF doTargetTooLow, doPossDup
    <2>4. Talks(s, r.s, n0, A, p)
      BY <2>3, TalksRefl
    <2> QED BY <2>1, <2>4, TalksTakes DEF Verified, r
  <1>6. CASE /\ validLogonState(s, m.type) /\ ~(high /\ isTargetTooHigh(s, m))
             /\ ~(low /\ isTargetTooLow(s, m))
    <2>1. r.ok = TRUE /\ r.s = admit(s, m, high \/ low)
      BY <1>1, <1>6 DEF verify
    <2> HIDE DEF r
    <2>2. Talks(s, r.s, n0, A, p)
      BY <2>1, AdmitTalks
    <2>3. Offered(r.s, m, B, p)
      BY <2>2, OfferedLater
    <2>4. r.s.enabled = s.enabled /\ r.s.initiate = s.initiate /\ r.s.nextTarget = s.nextTarget
      BY <1>2, <2>1 DEF admit, Fields
    <2>5. (high => m.seq <= r.s.nextTarget) /\ (low => r.s.nextTarget <= m.seq)
      BY <1>1, <1>2, <1>6, <2>4 DEF isTargetTooHigh, isTargetTooLow
    <2> QED BY <2>1, <2>2, <2>3, <2>4, <2>5 DEF Verified, r
  <1> QED BY <1>3, <1>4, <1>5, <1>6 DEF r

(* nextLogout                                                              *)
LEMMA LogoutTakes ==
    ASSUME NoResets, NEW s, NEW n0 \in Nat, NEW A, NEW p \in Nat, NEW m, NEW B,
           Mid(s, n0, A, p), Offered(s, m, B, p), m.type = "Logout"
    PROVE  Takes(s, nextLogout(s), m, n0, A, p)
  <1> DEFINE u == IF s.sentLogout THEN s ELSE generateLogout(s)
             v == consume(u)
  <1>1. /\ ~Lasting /\ m.seq \in Nat /\ m.seq < p /\ s.nextTarget <= m.seq
    BY MessageFields DEF Offered, Sent
  <1>2. nextLogout(s) = disconnect(v)
    BY DEF nextLogout, NoResets
  <1>3. Talks(s, u, n0, A, p)
    BY <1>1, LogoutTalks, TalksRefl
  <1> HIDE DEF u
  <1>4. Mid(u, n0, A, p) /\ u.nextTarget = s.nextTarget
    BY <1>3 DEF Talks, Quiet
  <1>5. Takes(u, v, m, n0, A, p)
    BY <1>1, <1>4, ConsumeTakes
  <1> HIDE DEF v
  <1>6. Mid(v, n0, A, p)
    BY <1>5 DEF Takes
  <1>7. Talks(v, disconnect(v), n0, A, p)
    BY <1>6, DisconnectTalks
  <1>8. Takes(u, disconnect(v), m, n0, A, p)
    BY <1>4, <1>5, <1>7, TakesThenTalks
  <1> QED BY <1>2, <1>3, <1>8, TalksThenTakes

(* nextResendRequest                                                       *)
LEMMA ResendRequestTakes ==
    ASSUME NEW s, NEW n0 \in Nat, NEW A, NEW p \in Nat, NEW m, NEW B,
           Mid(s, n0, A, p), Offered(s, m, B, p), m.type = "ResendRequest"
    PROVE  Takes(s, nextResendRequest(s, m, {}), m, n0, A, p)
  <1> DEFINE u == answerRange(s, m.lo, s.nextSender - 1, {})
  <1>1. /\ m.seq \in Nat /\ m.seq < p /\ m.lo \in Nat \ {0} /\ m.lo <= s.nextSender
        /\ m.hi = 0 /\ ~m.dup
    <2>1. m.lo \in Nat /\ m.seq \in Nat
      BY MessageFields DEF Offered, Sent
    <2> QED BY <2>1 DEF Offered, Sent
  <1>2. s.nextTarget <= m.seq
    BY <1>1 DEF Offered
  <1>3. nextResendRequest(s, m, {}) = consumeExpected(u, m)
    BY <1>1 DEF nextResendRequest
  <1>4. Talks(s, u, n0, A, p)
    BY <1>1, AnswerTalks
  <1> HIDE DEF u
  <1>5. Mid(u, n0, A, p) /\ u.nextTarget = s.nextTarget
    BY <1>4 DEF Talks, Quiet
  <1>6. CASE m.seq = u.nextTarget
    <2>1. s.nextTarget \in Nat
      BY DEF Mid, Ready
    <2>2. Takes(u, consume(u), m, n0, A, p)
      BY <1>1, <1>2, <1>5, <1>6, ConsumeTakes
    <2> QED BY <1>3, <1>4, <1>6, <2>2, TalksThenTakes DEF consumeExpected
  <1>7. CASE m.seq # u.nextTarget
    BY <1>3, <1>4, <1>7, TalksTakes DEF consumeExpected
  <1> QED BY <1>6, <1>7

(* Every message but a Logon.                                              *)
LEMMA HandleTakes ==
    ASSUME NoResets, NEW s, NEW n0 \in Nat, NEW A, NEW p \in Nat, NEW m, NEW B,
           Mid(s, n0, A, p), Offered(s, m, B, p), m.type # "Logon"
    PROVE  Takes(s, dispatch(s, m, "ok", {}), m, n0, A, p)
  <1> DEFINE high == \/ m.type \in {"Heartbeat", "TestRequest", "App"}
                     \/ m.type = "SequenceReset" /\ m.flag
             low == high \/ m.type = "Reject"
             r == verify(s, m, high, low)
             h == handle(r, m, "ok", {})
  <1>1. dispatch(s, m, "ok", {}) = h
    BY DEF dispatch
  <1>2. m.seq \in Nat /\ m.lo \in Nat /\ m.flag \in BOOLEAN /\ m.type \in SessionTypes
    BY MessageFields DEF Offered, Sent
  <1>3. high \in BOOLEAN /\ low \in BOOLEAN
    OBVIOUS
  <1>4. m.type \in {"Heartbeat", "App"} => high /\ low
    OBVIOUS
  <1>5. m.type = "SequenceReset" => high /\ low
    BY DEF Offered, Sent, Fills
  <1> HIDE DEF high, low
  <1>6. Verified(s, r, m, n0, A, p, B, high, low)
    BY <1>3, VerifyTakes
  <1> HIDE DEF r
  <1>7. \/ r.ok = FALSE /\ Takes(s, r.s, m, n0, A, p)
        \/ /\ r.ok = TRUE /\ Talks(s, r.s, n0, A, p) /\ Offered(r.s, m, B, p)
           /\ high => m.seq <= r.s.nextTarget
           /\ low => r.s.nextTarget <= m.seq
    BY <1>3, <1>6 DEF Verified
  <1>8. CASE r.ok = FALSE
    <2>1. h = r.s
      BY <1>8 DEF handle
    <2> QED BY <1>1, <1>7, <1>8, <2>1
  <1>9. CASE r.ok = TRUE
    <2> DEFINE u == r.s
    <2>1. Talks(s, u, n0, A, p) /\ Offered(u, m, B, p) /\ Mid(u, n0, A, p)
      BY <1>7, <1>9 DEF Talks
    <2>2. (high => m.seq <= u.nextTarget) /\ (low => u.nextTarget <= m.seq)
      BY <1>7, <1>9
    <2>3. u.nextTarget \in Nat
      BY <2>1 DEF Mid, Ready
    <2>4. m.type # "SequenceReset" => m.seq < p
      BY DEF Offered, Sent
    <2>5. m.type \in {"Heartbeat", "App", "SequenceReset"} => m.seq = u.nextTarget
      BY <1>2, <1>4, <1>5, <2>2, <2>3
    <2> SUFFICES Takes(u, h, m, n0, A, p)
      BY <1>1, <2>1, TalksThenTakes
    <2>6. CASE m.type = "App"
      <3>1. h = deliver(u, m)
        BY <1>9, <2>6 DEF handle
      <3> HIDE DEF u, h
      <3> QED BY <2>1, <2>4, <2>5, <2>6, <3>1, DeliverTakes
    <2>7. CASE m.type = "Heartbeat"
      <3>1. h = consume(u)
        BY <1>9, <2>7 DEF handle
      <3> HIDE DEF u, h
      <3> QED BY <1>2, <2>1, <2>3, <2>4, <2>5, <2>7, <3>1, ConsumeTakes
    <2>8. CASE m.type = "Logout"
      <3>1. h = nextLogout(u)
        BY <1>9, <2>8 DEF handle
      <3> HIDE DEF u, h
      <3> QED BY <2>1, <2>8, <3>1, LogoutTakes
    <2>9. CASE m.type = "SequenceReset"
      <3>1. h = nextSequenceReset(u, m)
        BY <1>9, <2>9 DEF handle
      <3>2. Fills(m, p, B)
        BY <2>9 DEF Offered, Sent
      <3> HIDE DEF u, h
      <3> QED BY <1>2, <2>1, <2>5, <2>9, <3>1, <3>2, SkipTakes
    <2>10. CASE m.type = "ResendRequest"
      <3>1. h = nextResendRequest(u, m, {})
        BY <1>9, <2>10 DEF handle
      <3> HIDE DEF u, h
      <3> QED BY <2>1, <2>10, <3>1, ResendRequestTakes
    <2> QED BY <1>2, <2>6, <2>7, <2>8, <2>9, <2>10 DEF SessionTypes
  <1> QED BY <1>7, <1>8, <1>9

(* replyLogon: an acceptor answers a Logon.                                *)
LEMMA ReplyTalks ==
    ASSUME NEW s, NEW n0 \in Nat, NEW A, NEW p \in Nat, Mid(s, n0, A, p), s.nextTarget < p
    PROVE  Talks(s, replyLogon(s), n0, A, p)
  <1> DEFINE u == IF ~s.initiate \/ (s.receivedReset /\ ~s.sentReset)
                  THEN generateLogonReply(s) ELSE s
             t == [u EXCEPT !.sentReset = FALSE, !.receivedReset = FALSE]
  <1>1. replyLogon(s) = t
    BY DEF replyLogon
  <1>2. Talks(s, u, n0, A, p)
    BY LogonReplyTalks, TalksRefl
  <1> HIDE DEF u
  <1>3. Mid(u, n0, A, p)
    BY <1>2 DEF Talks
  <1>4. DOMAIN u = Fields
    BY <1>3 DEF Mid, Ready
  <1>5. Talks(u, t, n0, A, p)
    BY <1>3, <1>4, FlagsTalk DEF Fields
  <1> QED BY <1>1, <1>2, <1>5, TalksTrans

(* numberLogon                                                             *)
LEMMA NumberLogonTakes ==
    ASSUME NEW s, NEW n0 \in Nat, NEW A, NEW p \in Nat, NEW m, NEW B,
           Mid(s, n0, A, p), Offered(s, m, B, p), m.type = "Logon"
    PROVE  Takes(s, numberLogon(s, m), m, n0, A, p)
  <1>1. /\ m.seq \in Nat /\ m.seq < p /\ ~m.dup /\ ~m.flag
    BY MessageFields DEF Offered, Sent
  <1>2. s.nextTarget <= m.seq /\ s.nextTarget \in Nat
    BY <1>1 DEF Offered, Mid, Ready
  <1>3. CASE isTargetTooHigh(s, m) /\ SendNextExpectedMsgSeqNum
    <2> DEFINE u == enqueue(s, m)
               t == [u EXCEPT !.resendRange = <<s.nextTarget, m.seq - 1>>]
    <2>1. numberLogon(s, m) = t
      BY <1>1, <1>3 DEF numberLogon
    <2>2. Takes(s, u, m, n0, A, p)
      BY EnqueueTakes
    <2> HIDE DEF u
    <2>3. Mid(u, n0, A, p)
      BY <2>2 DEF Takes
    <2>4. DOMAIN u = Fields /\ u.sentReset = FALSE /\ u.receivedReset = FALSE
      BY <2>3 DEF Mid, Ready
    <2>5. Talks(u, t, n0, A, p)
      BY <2>3, <2>4, FlagsTalk DEF Fields
    <2> QED BY <2>1, <2>2, <2>5, TakesThenTalks
  <1>4. CASE isTargetTooHigh(s, m) /\ ~SendNextExpectedMsgSeqNum
    BY <1>1, <1>4, TooHighTakes DEF numberLogon
  <1>5. CASE ~isTargetTooHigh(s, m)
    <2>1. m.seq = s.nextTarget
      BY <1>1, <1>2, <1>5 DEF isTargetTooHigh
    <2>2. numberLogon(s, m) = consume(s)
      BY <1>5 DEF numberLogon
    <2> QED BY <1>1, <1>2, <2>1, <2>2, ConsumeTakes
  <1> QED BY <1>3, <1>4, <1>5

(* What is retransmitted at the end of nextLogon.                          *)
LEMMA OwedTalks ==
    ASSUME NEW s, NEW n0, NEW A, NEW p, Mid(s, n0, A, p),
           NEW k \in Nat, k <= s.nextSender
    PROVE  Talks(s, [s EXCEPT !.owed = k], n0, A, p)
  <1> DEFINE t == [s EXCEPT !.owed = k]
  <1>1. /\ DOMAIN s = Fields /\ s.sentReset = FALSE /\ s.receivedReset = FALSE
        /\ s.nextTarget \in Nat \ {0} /\ s.nextTarget <= p
    BY DEF Mid, Ready
  <1>2. /\ DOMAIN t = Fields /\ t.sentReset = s.sentReset
        /\ t.receivedReset = s.receivedReset /\ t.enabled = s.enabled
        /\ t.nextSender = s.nextSender /\ t.nextTarget = s.nextTarget
        /\ t.sending = s.sending /\ t.owed = k /\ t.store = s.store /\ t.out = s.out
        /\ t.got = s.got /\ t.queue = s.queue
    BY <1>1 DEF Fields
  <1> HIDE DEF t
  <1>3. Mid(t, n0, A, p) /\ s.nextSender <= t.nextSender
    BY <1>1, <1>2, MidMoved
  <1>4. Quiet(s, t)
    BY <1>2 DEF Quiet
  <1> QED BY <1>3, <1>4 DEF Talks, t

(* completeLogon: the number the counterparty expects has been used.       *)
LEMMA CompleteLogonTakes ==
    ASSUME NEW s, NEW n0 \in Nat, NEW A, NEW p \in Nat, NEW m, NEW B,
           Mid(s, n0, A, p), Offered(s, m, B, p), m.type = "Logon"
    PROVE  Takes(s, completeLogon(s, m), m, n0, A, p)
  <1> DEFINE a == [s EXCEPT !.receivedLogon = TRUE]
             b == replyLogon(a)
             c == numberLogon(b, m)
             k == IF m.lo < a.nextSender THEN m.lo ELSE 0
             d == [c EXCEPT !.owed = k]
  <1>1. /\ m.seq \in Nat /\ m.seq < p /\ ~m.dup /\ m.lo \in Nat /\ m.lo <= s.nextSender
    BY MessageFields DEF Offered, Sent
  <1>2. /\ DOMAIN s = Fields /\ s.sentReset = FALSE /\ s.receivedReset = FALSE
        /\ s.nextSender \in Nat
    BY DEF Mid, Ready
  <1>3. Talks(s, a, n0, A, p) /\ a.nextSender = s.nextSender
    BY <1>2, FlagsTalk DEF Fields
  <1>4. completeLogon(s, m) = d
    BY <1>1, <1>2, <1>3 DEF completeLogon
  <1> HIDE DEF a
  <1>5. Mid(a, n0, A, p) /\ Offered(a, m, B, p)
    BY <1>3, OfferedLater DEF Talks
  <1>6. a.nextTarget < p
    BY <1>1, <1>5 DEF Offered, Mid, Ready
  <1>7. Talks(a, b, n0, A, p)
    BY <1>5, <1>6, ReplyTalks
  <1> HIDE DEF b
  <1>8. Mid(b, n0, A, p) /\ Offered(b, m, B, p)
    BY <1>5, <1>7, OfferedLater DEF Talks
  <1>9. Takes(b, c, m, n0, A, p)
    BY <1>8, NumberLogonTakes
  <1> HIDE DEF c
  <1>10. Mid(c, n0, A, p)
    BY <1>9 DEF Takes
  <1>11. k \in Nat /\ k <= c.nextSender
    <2>1. c.nextSender \in Nat /\ b.nextSender \in Nat
      BY <1>8, <1>10 DEF Mid, Ready
    <2>2. a.nextSender <= b.nextSender /\ b.nextSender <= c.nextSender
      BY <1>7, <1>9 DEF Talks, Takes
    <2> QED BY <1>1, <1>2, <1>3, <2>1, <2>2
  <1> HIDE DEF k
  <1>12. Talks(c, d, n0, A, p)
    BY <1>10, <1>11, OwedTalks
  <1>13. Takes(b, d, m, n0, A, p)
    BY <1>8, <1>9, <1>12, TakesThenTalks
  <1> HIDE DEF d
  <1>14. Takes(a, d, m, n0, A, p)
    BY <1>5, <1>7, <1>13, TalksThenTakes
  <1> QED BY <1>3, <1>4, <1>14, TalksThenTakes

(* nextLogon                                                               *)
LEMMA LogonTakes ==
    ASSUME NoResets, NEW s, NEW n0 \in Nat, NEW A, NEW p \in Nat, NEW m, NEW B,
           Mid(s, n0, A, p), Offered(s, m, B, p), m.type = "Logon"
    PROVE  Takes(s, nextLogon(s, m), m, n0, A, p)
  <1> DEFINE u == prepareLogon(s, m)
             r == verify(u, m, FALSE, TRUE)
  <1>1. m.flag = FALSE
    BY MessageFields DEF Offered, Sent
  <1>2. DOMAIN s = Fields /\ s.sentReset = FALSE /\ s.receivedReset = FALSE
    BY DEF Mid, Ready
  <1>3. u = [s EXCEPT !.receivedReset = FALSE]
    BY <1>1 DEF prepareLogon, NoResets
  <1>4. nextLogon(s, m) = IF ~s.enabled THEN disconnect(s)
                          ELSE IF shouldSendLogon(u) /\ ~m.flag THEN disconnect(u)
                          ELSE IF r.ok THEN completeLogon(r.s, m) ELSE r.s
    BY DEF nextLogon
  <1> HIDE DEF u
  <1>5. Talks(s, u, n0, A, p)
    BY <1>2, <1>3, FlagsTalk DEF Fields
  <1>6. Mid(u, n0, A, p) /\ Offered(u, m, B, p)
    BY <1>5, OfferedLater DEF Talks
  <1>7. Takes(s, disconnect(s), m, n0, A, p)
    BY DisconnectTalks, TalksTakes
  <1>8. Takes(u, disconnect(u), m, n0, A, p)
    BY <1>6, DisconnectTalks, TalksTakes
  <1>9. Verified(u, r, m, n0, A, p, B, FALSE, TRUE)
    BY <1>6, VerifyTakes
  <1> HIDE DEF r
  <1>10. CASE r.ok = FALSE
    <2>1. Takes(u, r.s, m, n0, A, p)
      BY <1>9, <1>10 DEF Verified
    <2>2. Takes(s, r.s, m, n0, A, p) /\ Takes(s, disconnect(u), m, n0, A, p)
      BY <1>5, <1>8, <2>1, TalksThenTakes
    <2> QED BY <1>4, <1>7, <1>10, <2>2
  <1>11. CASE r.ok = TRUE
    <2>1. Talks(u, r.s, n0, A, p) /\ Offered(r.s, m, B, p)
      BY <1>9, <1>11 DEF Verified
    <2>2. Mid(r.s, n0, A, p)
      BY <2>1 DEF Talks
    <2>3. Takes(r.s, completeLogon(r.s, m), m, n0, A, p)
      BY <2>1, <2>2, CompleteLogonTakes
    <2>4. Takes(u, completeLogon(r.s, m), m, n0, A, p)
      BY <1>6, <2>1, <2>3, TalksThenTakes
    <2>5. Takes(s, completeLogon(r.s, m), m, n0, A, p) /\ Takes(s, disconnect(u), m, n0, A, p)
      BY <1>5, <1>8, <2>4, TalksThenTakes
    <2> QED BY <1>4, <1>7, <1>11, <2>5
  <1>12. r.ok = FALSE \/ r.ok = TRUE
    BY <1>9 DEF Verified
  <1> QED BY <1>10, <1>11, <1>12

(* next(message)                                                           *)
LEMMA MessageTakes ==
    ASSUME NoResets, NEW s, NEW n0 \in Nat, NEW A, NEW p \in Nat, NEW m, NEW B,
           NEW auth \in BOOLEAN, Mid(s, n0, A, p), Offered(s, m, B, p)
    PROVE  Takes(s, nextMessage(s, m, "ok", {}, "open", auth), m, n0, A, p)
  <1> DEFINE t == nextMessage(s, m, "ok", {}, "open", auth)
  <1>1. m.grade = "good" /\ m.seq \in Nat
    BY MessageFields DEF Offered, Sent
  <1>2. DOMAIN s = Fields /\ s.sentReset = FALSE /\ s.receivedReset = FALSE
    BY DEF Mid, Ready
  <1>3. Talks(s, disconnect(s), n0, A, p) /\ Talks(s, s, n0, A, p)
    BY DisconnectTalks, TalksRefl
  <1>4. t \in {disconnect(s), s, refusedLogon(s, m, TRUE), dispatch(s, m, "ok", {})}
    <2>1. isLogonTime("open") = TRUE /\ checkSessionTime("open") = TRUE
      BY DEF isLogonTime, checkSessionTime
    <2> QED BY <1>1, <2>1 DEF nextMessage
  <1>5. Talks(s, refusedLogon(s, m, TRUE), n0, A, p)
    <2> DEFINE v == [s EXCEPT !.responder = @ /\ TRUE]
    <2>1. refusedLogon(s, m, TRUE) \in {disconnect(s), v}
      BY <1>1 DEF refusedLogon
    <2>2. Talks(s, v, n0, A, p)
      BY <1>2, FlagsTalk DEF Fields
    <2> HIDE DEF v
    <2> QED BY <1>3, <2>1, <2>2
  <1>6. Takes(s, dispatch(s, m, "ok", {}), m, n0, A, p)
    <2>1. CASE m.type = "Logon"
      BY <2>1, LogonTakes DEF dispatch
    <2>2. CASE m.type # "Logon"
      BY <2>2, HandleTakes
    <2> QED BY <2>1, <2>2
  <1> HIDE DEF t
  <1> QED BY <1>3, <1>4, <1>5, <1>6, TalksTakes DEF t

(* The first message of a connection.                                      *)
LEMMA FirstTakes ==
    ASSUME NoResets, NEW n0 \in Nat, NEW A, NEW p \in Nat, NEW m, NEW B,
           Mid(st["A"], n0, A, p), Offered(st["A"], m, B, p)
    PROVE  Takes(st["A"], firstMessage(m), m, n0, A, p)
  <1> DEFINE s == st["A"]
             u == [s EXCEPT !.responder = TRUE]
             v == nextMessage(u, m, "ok", {}, "open", TRUE)
             w == [v EXCEPT !.responder = FALSE]
  <1>1. firstMessage(m) \in {s, v, w}
    BY DEF firstMessage
  <1> HIDE DEF s
  <1>2. Mid(s, n0, A, p) /\ Offered(s, m, B, p)
    BY DEF s
  <1>3. DOMAIN s = Fields /\ s.sentReset = FALSE /\ s.receivedReset = FALSE
    BY <1>2 DEF Mid, Ready
  <1>4. Talks(s, u, n0, A, p)
    BY <1>2, <1>3, FlagsTalk DEF Fields
  <1> HIDE DEF u
  <1>5. Mid(u, n0, A, p) /\ Offered(u, m, B, p)
    BY <1>2, <1>4, OfferedLater DEF Talks
  <1>6. Takes(u, v, m, n0, A, p)
    BY <1>5, MessageTakes
  <1> HIDE DEF v
  <1>7. Mid(v, n0, A, p)
    BY <1>6 DEF Takes
  <1>8. DOMAIN v = Fields /\ v.sentReset = FALSE /\ v.receivedReset = FALSE
    BY <1>7 DEF Mid, Ready
  <1>9. Talks(v, w, n0, A, p)
    BY <1>7, <1>8, FlagsTalk DEF Fields
  <1> HIDE DEF w
  <1>10. Takes(u, w, m, n0, A, p)
    BY <1>5, <1>6, <1>9, TakesThenTalks
  <1>11. Takes(s, v, m, n0, A, p) /\ Takes(s, w, m, n0, A, p)
    BY <1>2, <1>4, <1>6, <1>10, TalksThenTakes
  <1>12. Takes(s, s, m, n0, A, p)
    BY <1>2, TalksRefl, TalksTakes
  <1> QED BY <1>1, <1>11, <1>12 DEF s

(* A message taken from the queue in its turn.                             *)
LEMMA DrainTakes ==
    ASSUME NoResets, NEW s, NEW n0 \in Nat, NEW A, NEW p \in Nat, NEW m, NEW B,
           Mid(s, n0, A, p), Offered(s, m, B, p), m.seq = s.nextTarget
    PROVE  Takes(s, drainOne(s, m), m, n0, A, p)
  <1> DEFINE u == queueWithout(s, {m.seq})
  <1>1. Talks(s, u, n0, A, p)
    BY WithoutTalks
  <1>2. drainOne(s, m) = IF m.type \in {"Logon", "ResendRequest"} THEN consume(u)
                         ELSE nextMessage(u, m, "ok", {}, "open", FALSE)
    BY DEF drainOne
  <1> HIDE DEF u
  <1>3. Mid(u, n0, A, p) /\ Offered(u, m, B, p) /\ u.nextTarget = s.nextTarget
    BY <1>1, OfferedLater DEF Talks, Quiet
  <1>4. CASE m.type \in {"Logon", "ResendRequest"}
    <2>1. m.seq \in Nat /\ m.seq < p
      BY <1>4, MessageFields DEF Offered, Sent
    <2>2. Takes(u, consume(u), m, n0, A, p)
      BY <1>3, <1>4, <2>1, ConsumeTakes
    <2> QED BY <1>1, <1>2, <1>4, <2>2, TalksThenTakes
  <1>5. CASE m.type \notin {"Logon", "ResendRequest"}
    <2>1. Takes(u, nextMessage(u, m, "ok", {}, "open", FALSE), m, n0, A, p)
      BY <1>3, MessageTakes
    <2> QED BY <1>1, <1>2, <1>5, <2>1, TalksThenTakes
  <1> QED BY <1>4, <1>5

(* The retransmission at the end of nextLogon.                             *)
LEMMA RetransmitOwedTalks ==
    ASSUME NEW s, NEW n0 \in Nat, NEW A, NEW p \in Nat, Mid(s, n0, A, p), s.owed # 0
    PROVE  Talks(s, retransmitOwed(s, {}), n0, A, p)
  <1> DEFINE u == answerRange(s, s.owed, s.nextSender - 1, {})
             t == [u EXCEPT !.owed = 0]
  <1>1. s.owed \in Nat \ {0} /\ s.owed <= s.nextSender
    BY DEF Mid, Ready
  <1>2. Talks(s, u, n0, A, p)
    BY <1>1, AnswerTalks
  <1>3. retransmitOwed(s, {}) = t
    BY DEF retransmitOwed
  <1> HIDE DEF u
  <1>4. Mid(u, n0, A, p)
    BY <1>2 DEF Talks
  <1>5. 0 <= u.nextSender
    BY <1>4 DEF Mid, Ready
  <1>6. Talks(u, t, n0, A, p)
    BY <1>4, <1>5, OwedTalks
  <1> QED BY <1>2, <1>3, <1>6, TalksTrans

(* next(now), within the hours of the session, while the counterparty is   *)
(* not given up and no TestRequest is due.                                 *)
LEMMA ClockTalks ==
    ASSUME NoResets, NEW s, NEW n0 \in Nat, NEW A, NEW p \in Nat, Mid(s, n0, A, p),
           NEW passed, "dead" \notin passed, "test" \notin passed
    PROVE  Talks(s, clock(s, passed, "open"), n0, A, p)
  <1> DEFINE asks == ~s.enabled /\ isLoggedOn(s) /\ ~s.sentLogout
             s1 == IF asks THEN generateLogout(s) ELSE s
             over == IF asks THEN passed \ {"logout", "beat"} ELSE passed
             s2 == IF s1.sentLogout /\ "logout" \in over THEN disconnect(s1) ELSE s1
             t == heartbeatTimers(s2, over)
  <1>1. clock(s, passed, "open") \in {s, generateLogon(s), disconnect(s), t}
    BY DEF clock, checkSessionTime, isLogonTime
  <1>2. Talks(s, s, n0, A, p) /\ Talks(s, generateLogon(s), n0, A, p)
        /\ Talks(s, disconnect(s), n0, A, p)
    BY TalksRefl, GenerateLogonTalks, DisconnectTalks
  <1>3. Talks(s, s1, n0, A, p)
    <2>1. CASE asks
      <3>1. ~Lasting
        BY <2>1 DEF Lasting, Mid, Ready
      <3> QED BY <2>1, <3>1, LogoutTalks
    <2>2. CASE ~asks
      BY <1>2, <2>2
    <2> QED BY <2>1, <2>2
  <1>4. "dead" \notin over /\ "test" \notin over
    OBVIOUS
  <1> HIDE DEF s1, over
  <1>5. Mid(s1, n0, A, p)
    BY <1>3 DEF Talks
  <1>6. Talks(s1, s2, n0, A, p)
    BY <1>5, TalksRefl, DisconnectTalks
  <1> HIDE DEF s2
  <1>7. Mid(s2, n0, A, p)
    BY <1>6 DEF Talks
  <1>8. t \in {s2, generateHeartbeat(s2)}
    BY <1>4 DEF heartbeatTimers
  <1>9. Talks(s2, s2, n0, A, p) /\ Talks(s2, generateHeartbeat(s2), n0, A, p)
    BY <1>7, TalksRefl, HeartbeatTalks
  <1> HIDE DEF t
  <1>10. Talks(s2, t, n0, A, p)
    BY <1>8, <1>9
  <1>11. Talks(s1, t, n0, A, p)
    BY <1>5, <1>6, <1>10, TalksTrans
  <1>12. Talks(s, t, n0, A, p)
    BY <1>3, <1>11, TalksTrans
  <1> QED BY <1>1, <1>2, <1>12

(* Session::send for an application message.                               *)
LEMMA AppTalks ==
    ASSUME NoResets, NEW s, NEW n0 \in Nat, NEW A, NEW p \in Nat, Mid(s, n0, A, p)
    PROVE  /\ Talks(s, sendApp(s, FALSE), n0, A \cup {s.nextSender}, p)
           /\ sendApp(s, FALSE).nextSender = s.nextSender + 1
  <1> DEFINE m == Plain("App", s.nextSender)
             goes == isLoggedOn(s)
             A1 == A \cup {s.nextSender}
             u == persist(s, m)
  <1>1. s.nextSender \in Nat \ {0} /\ Ready(s, A, p) /\ DOMAIN s = Fields
    BY DEF Mid, Ready
  <1>2. sendApp(s, FALSE) = IF goes THEN sendNumbered(s, m, TRUE) ELSE sendNumbered(s, m, FALSE)
    BY DEF sendApp, refusesApp, shouldSendReset, NoResets, sendNumbered
  <1>3. /\ m.type = "App" /\ m.seq = s.nextSender /\ ~m.dup /\ m.grade = "good" /\ m \in Message
    BY <1>1 DEF Plain, Message, MsgTypes, AdminTypes, Grades
  <1> HIDE DEF m
  <1>4. Sent(m, s.nextSender + 1, A1, p)
    BY <1>1, <1>3 DEF Sent, SessionTypes
  <1>5. A1 = IF m.type = "App" THEN A \cup {m.seq} ELSE A
    BY <1>3
  <1>6. u.nextSender = s.nextSender + 1 /\ Ready(u, A1, p)
    BY <1>1, <1>3, <1>5, PersistStored
  <1>7. DOMAIN u = Fields
    BY <1>6 DEF Ready
  <1>8. ASSUME NEW g \in BOOLEAN
        PROVE  /\ Talks(s, sendNumbered(s, m, g), n0, A1, p)
               /\ sendNumbered(s, m, g).nextSender = s.nextSender + 1
    <2>1. Talks(s, sendNumbered(s, m, g), n0, A1, p)
      BY <1>3, <1>4, <1>5, SendNumberedTalks
    <2> DEFINE q == IF g THEN <<m>> ELSE <<>>
    <2>2. sendNumbered(s, m, g) = IF u.responder THEN [u EXCEPT !.out = @ \o q] ELSE u
      BY DEF sendNumbered, sendAll
    <2> HIDE DEF u, q
    <2>3. sendNumbered(s, m, g).nextSender = u.nextSender
      BY <1>7, <2>2 DEF Fields
    <2> QED BY <1>6, <2>1, <2>3
  <1> HIDE DEF goes
  <1>9. CASE goes
    BY <1>2, <1>8, <1>9
  <1>10. CASE ~goes
    BY <1>2, <1>8, <1>10
  <1> QED BY <1>9, <1>10

-----------------------------------------------------------------------------
(* Messages on their way                                                   *)

(* The number after a message was given out or comes next.                 *)
LEMMA PastSent ==
    ASSUME NEW m, NEW n \in Nat, NEW A, NEW p, Sent(m, n, A, p)
    PROVE  Past(m) \in Nat /\ Past(m) <= n
  <1>1. m.seq \in Nat /\ m.lo \in Nat
    BY MessageFields DEF Sent
  <1> QED BY <1>1 DEF Sent, Fills, Past

(* The sender uses more numbers.                                           *)
LEMMA FlowingLater ==
    ASSUME NEW to, NEW n \in Nat, NEW A, NEW b, Flowing(to, n, A, b), b.nextSender \in Nat,
           NEW n1 \in Nat, NEW A1, n <= n1,
           A \subseteq A1, \A a \in A1 : a \in A \/ (a \in Nat /\ n <= a)
    PROVE  Flowing(to, n1, A1, b)
  <1>1. ASSUME NEW i \in 1 .. Len(to)
        PROVE  Sent(to[i], n1, A1, b.nextSender)
    <2>1. Sent(to[i], n, A, b.nextSender)
      BY DEF Flowing
    <2> QED BY <2>1, SentLater
  <1>2. ASSUME NEW k \in DOMAIN b.queue
        PROVE  Sent(b.queue[k], n1, A1, b.nextSender)
    <2>1. Sent(b.queue[k], n, A, b.nextSender)
      BY DEF Flowing
    <2> QED BY <2>1, SentLater
  <1> QED BY <1>1, <1>2 DEF Flowing

(* The sender adds the messages of a call.                                 *)
LEMMA FlowingMore ==
    ASSUME NEW to, NEW n \in Nat, NEW A, NEW b, Flowing(to, n, A, b), b.nextSender \in Nat,
           b.nextTarget \in Nat, b.nextTarget <= n,
           NEW n1 \in Nat, NEW A1, n <= n1,
           A \subseteq A1, \A a \in A1 : a \in A \/ (a \in Nat /\ n <= a),
           NEW q, Out(q, n, n1, A1, b.nextSender)
    PROVE  Flowing(to \o q, n1, A1, b)
  <1> DEFINE u == to \o q
             p == b.nextSender
  <1>1. to \in Seq(Message) /\ q \in Seq(Message)
    BY DEF Out, Flowing
  <1>2. u \in Seq(Message) /\ Len(u) = Len(to) + Len(q) /\ Len(to) \in Nat /\ Len(q) \in Nat
    BY <1>1
  <1>3. \A i \in 1 .. Len(to) : u[i] = to[i]
    BY <1>1
  <1>4. \A i \in 1 .. Len(u) : i > Len(to) => u[i] = q[i - Len(to)] /\ i - Len(to) \in 1 .. Len(q)
    BY <1>1, <1>2
  <1>5. Flowing(to, n1, A1, b)
    BY FlowingLater
  <1> HIDE DEF u
  <1>6. \A i \in 1 .. Len(to) : Past(to[i]) \in Nat /\ Past(to[i]) <= n
    BY PastSent DEF Flowing
  <1>7. \A k \in DOMAIN b.queue : Past(b.queue[k]) \in Nat /\ Past(b.queue[k]) <= n
    BY PastSent DEF Flowing
  <1>8. ASSUME NEW i \in 1 .. Len(u)
        PROVE  u[i] \in Message /\ Sent(u[i], n1, A1, p)
    <2>1. CASE i \in 1 .. Len(to)
      BY <1>3, <1>5, <2>1 DEF Flowing, Sent
    <2>2. CASE i > Len(to)
      BY <1>4, <2>2 DEF Out, Sent
    <2> QED BY <1>2, <2>1, <2>2
  <1>9. ASSUME NEW i \in 1 .. Len(u), i > Len(to), ~u[i].dup
        PROVE  n <= u[i].seq
    BY <1>4, <1>9 DEF Out
  <1>10. \A i \in 1 .. Len(u) : u[i].seq \in Nat
    BY <1>8, MessageFields
  <1>11. InSequence(u)
    <2> SUFFICES ASSUME NEW i \in 1 .. Len(u), NEW j \in 1 .. Len(u), i < j, ~u[j].dup
                 PROVE  Past(u[i]) <= u[j].seq
      BY DEF InSequence
    <2>1. CASE j \in 1 .. Len(to)
      <3>1. i \in 1 .. Len(to)
        BY <1>2, <2>1
      <3> QED BY <1>3, <2>1, <3>1 DEF Flowing, InSequence
    <2>2. CASE j > Len(to) /\ i \in 1 .. Len(to)
      <3>1. n <= u[j].seq
        BY <1>9, <2>2
      <3>2. Past(u[i]) \in Nat /\ Past(u[i]) <= n
        BY <1>3, <1>6, <2>2
      <3> QED BY <1>10, <3>1, <3>2
    <2>3. CASE j > Len(to) /\ i > Len(to)
      <3>1. /\ u[i] = q[i - Len(to)] /\ i - Len(to) \in 1 .. Len(q)
            /\ u[j] = q[j - Len(to)] /\ j - Len(to) \in 1 .. Len(q)
        BY <1>4, <2>3
      <3>2. i - Len(to) < j - Len(to)
        BY <1>2
      <3>3. InSequence(q)
        BY DEF Out
      <3> QED BY <3>1, <3>2, <3>3 DEF InSequence
    <2> QED BY <1>2, <2>1, <2>2, <2>3
  <1>12. ASSUME NEW j \in 1 .. Len(u), ~u[j].dup
         PROVE  /\ b.nextTarget <= u[j].seq
                /\ \A k \in DOMAIN b.queue : Past(b.queue[k]) <= u[j].seq
    <2>1. CASE j \in 1 .. Len(to)
      BY <1>3, <1>12, <2>1 DEF Flowing
    <2>2. CASE j > Len(to)
      <3>1. n <= u[j].seq
        BY <1>9, <1>12, <2>2
      <3> QED BY <1>7, <1>10, <3>1
    <2> QED BY <1>2, <2>1, <2>2
  <1> QED BY <1>2, <1>5, <1>8, <1>11, <1>12 DEF Flowing, u

(* Part of the messages on their way: those after the first, those up to   *)
(* where the connection broke.                                             *)
LEMMA FlowingPart ==
    ASSUME NEW to, NEW n, NEW A, NEW b, Flowing(to, n, A, b),
           NEW l \in Nat, NEW h \in Nat, l + h <= Len(to),
           NEW part, part \in Seq(Message), Len(part) = h,
           \A i \in 1 .. h : part[i] = to[i + l]
    PROVE  Flowing(part, n, A, b)
  <1>1. to \in Seq(Message) /\ Len(to) \in Nat
    BY DEF Flowing
  <1>2. \A i \in 1 .. h : i + l \in 1 .. Len(to)
    BY <1>1
  <1>3. InSequence(part)
    <2> SUFFICES ASSUME NEW i \in 1 .. h, NEW j \in 1 .. h, i < j, ~part[j].dup
                 PROVE  Past(part[i]) <= part[j].seq
      BY DEF InSequence
    <2>1. i + l < j + l
      OBVIOUS
    <2>2. InSequence(to)
      BY DEF Flowing
    <2> QED BY <1>2, <2>1, <2>2 DEF InSequence
  <1>4. ASSUME NEW i \in 1 .. h
        PROVE  /\ Sent(part[i], n, A, b.nextSender)
               /\ ~part[i].dup => /\ b.nextTarget <= part[i].seq
                                  /\ \A k \in DOMAIN b.queue : Past(b.queue[k]) <= part[i].seq
    BY <1>2 DEF Flowing
  <1> QED BY <1>3, <1>4 DEF Flowing

(* A network that has lost everything on its way to b.                     *)
LEMMA FlowingNone ==
    ASSUME NEW to, NEW n, NEW A, NEW b, Flowing(to, n, A, b)
    PROVE  Flowing(<<>>, n, A, b)
  <1>1. <<>> \in Seq(Message) /\ Len(<<>>) = 0
    OBVIOUS
  <1>2. InSequence(<<>>)
    BY <1>1 DEF InSequence
  <1> QED BY <1>1, <1>2 DEF Flowing

(* The receiver takes the first message.                                   *)
LEMMA FlowingHead ==
    ASSUME NEW to, NEW n, NEW A, NEW b, Flowing(to, n, A, b), to # <<>>
    PROVE  /\ Offered(b, Head(to), A, n) /\ Flowing(Tail(to), n, A, b)
           /\ \A j \in 1 .. Len(Tail(to)) : ~Tail(to)[j].dup => Past(Head(to)) <= Tail(to)[j].seq
  <1> DEFINE part == Tail(to)
  <1>1. to \in Seq(Message)
    BY DEF Flowing
  <1>2. /\ Len(to) \in Nat \ {0} /\ Head(to) = to[1] /\ part \in Seq(Message)
        /\ Len(part) = Len(to) - 1 /\ \A i \in 1 .. Len(part) : part[i] = to[i + 1]
    BY <1>1
  <1> HIDE DEF part
  <1>3. Offered(b, Head(to), A, n)
    BY <1>2 DEF Flowing, Offered
  <1>4. Flowing(part, n, A, b)
    <2>1. 1 + Len(part) <= Len(to) /\ Len(part) \in Nat
      BY <1>2
    <2> QED BY <1>2, <2>1, FlowingPart
  <1>5. ASSUME NEW j \in 1 .. Len(part), ~part[j].dup
        PROVE  Past(Head(to)) <= part[j].seq
    <2>1. j + 1 \in 1 .. Len(to) /\ 1 \in 1 .. Len(to) /\ 1 < j + 1
      BY <1>2
    <2> QED BY <1>2, <1>5, <2>1 DEF Flowing, InSequence
  <1> QED BY <1>3, <1>4, <1>5 DEF part

(* The receiver makes a call that handles nothing.                         *)
LEMMA FlowingQuiet ==
    ASSUME NEW to, NEW n \in Nat, NEW A, NEW s, NEW t, Flowing(to, n, A, s), Quiet(s, t),
           s.nextSender \in Nat, t.nextSender \in Nat, s.nextSender <= t.nextSender
    PROVE  Flowing(to, n, A, t)
  <1>1. ASSUME NEW i \in 1 .. Len(to)
        PROVE  Sent(to[i], n, A, t.nextSender)
    <2>1. Sent(to[i], n, A, s.nextSender)
      BY DEF Flowing
    <2> QED BY <2>1, SentLater
  <1>2. ASSUME NEW k \in DOMAIN t.queue
        PROVE  /\ k \in DOMAIN s.queue /\ t.queue[k] = s.queue[k]
               /\ Sent(t.queue[k], n, A, t.nextSender)
    <2>1. k \in DOMAIN s.queue /\ t.queue[k] = s.queue[k]
      BY DEF Quiet
    <2>2. Sent(s.queue[k], n, A, s.nextSender)
      BY <2>1 DEF Flowing
    <2> QED BY <2>1, <2>2, SentLater
  <1> QED BY <1>1, <1>2 DEF Flowing, Quiet

(* The receiver handles m, which is no longer on its way.                  *)
LEMMA FlowingHears ==
    ASSUME NEW to, NEW n \in Nat, NEW A, NEW s, NEW t, NEW m,
           Flowing(to, n, A, s), Hears(s, t, m), Sent(m, n, A, s.nextSender),
           \A j \in 1 .. Len(to) : ~to[j].dup => Past(m) <= to[j].seq,
           s.nextSender \in Nat, t.nextSender \in Nat, s.nextSender <= t.nextSender,
           s.nextTarget \in Nat
    PROVE  Flowing(to, n, A, t)
  <1>1. ASSUME NEW i \in 1 .. Len(to)
        PROVE  Sent(to[i], n, A, t.nextSender)
    <2>1. Sent(to[i], n, A, s.nextSender)
      BY DEF Flowing
    <2> QED BY <2>1, SentLater
  <1>2. ASSUME NEW k \in DOMAIN t.queue
        PROVE  /\ t.queue[k].seq = k /\ Sent(t.queue[k], n, A, t.nextSender)
               /\ \A j \in 1 .. Len(to) : ~to[j].dup => Past(t.queue[k]) <= to[j].seq
    <2>1. CASE k \in DOMAIN s.queue /\ t.queue[k] = s.queue[k]
      <3>1. Sent(s.queue[k], n, A, s.nextSender)
        BY <2>1 DEF Flowing
      <3>2. Sent(t.queue[k], n, A, t.nextSender)
        BY <2>1, <3>1, SentLater
      <3> QED BY <2>1, <3>2 DEF Flowing
    <2>2. CASE k = m.seq /\ t.queue[k] = m
      <3>1. Sent(m, n, A, t.nextSender)
        BY SentLater
      <3> QED BY <2>2, <3>1
    <2> QED BY <2>1, <2>2 DEF Hears, Queues
  <1>3. ASSUME NEW j \in 1 .. Len(to), ~to[j].dup
        PROVE  t.nextTarget <= to[j].seq
    <2>1. s.nextTarget <= to[j].seq /\ Past(m) <= to[j].seq
      BY <1>3 DEF Flowing
    <2>2. m.seq \in Nat /\ m.lo \in Nat
      BY MessageFields DEF Sent
    <2>3. to[j].seq \in Nat
      BY <1>1, MessageFields DEF Sent
    <2>4. CASE Keeps(s, t)
      BY <2>1, <2>4 DEF Keeps
    <2>5. CASE Uses(s, t, m)
      BY <2>1, <2>2, <2>3, <2>5 DEF Uses, Past
    <2>6. CASE Gets(s, t, m)
      BY <2>1, <2>2, <2>3, <2>6 DEF Gets, Past
    <2>7. CASE Skips(s, t, m)
      BY <2>1, <2>2, <2>3, <2>7 DEF Skips, Past
    <2> QED BY <2>4, <2>5, <2>6, <2>7 DEF Hears
  <1> QED BY <1>1, <1>2, <1>3 DEF Flowing

-----------------------------------------------------------------------------
(* Messages delivered                                                      *)

(* A message is accepted.                                                  *)
LEMMA HandedAccept ==
    ASSUME NEW q, NEW r, NEW next \in Nat, Handed(q, r, next), NEW n \in Nat, next <= n,
           \A a \in NumbersIn(q) : a \in Nat /\ a < n
    PROVE  /\ Handed(Append(q, n), r, next)
           /\ NumbersIn(Append(q, n)) = NumbersIn(q) \cup {n}
  <1> DEFINE u == Append(q, n)
  <1>1. q \in Seq(Nat) /\ r \in Seq(Nat) /\ Len(q) \in Nat /\ Len(r) \in Nat
    BY DEF Handed
  <1>2. /\ u \in Seq(Nat) /\ Len(u) = Len(q) + 1 /\ u[Len(q) + 1] = n
        /\ \A i \in 1 .. Len(q) : u[i] = q[i]
    BY <1>1
  <1> HIDE DEF u
  <1>3. \A i \in 1 .. Len(q) : q[i] \in Nat /\ q[i] < n
    BY DEF NumbersIn
  <1>4. NumbersIn(u) = NumbersIn(q) \cup {n}
    <2>1. ASSUME NEW a \in NumbersIn(u)
          PROVE  a \in NumbersIn(q) \cup {n}
      <3>1. PICK k \in 1 .. Len(u) : a = u[k]
        BY DEF NumbersIn
      <3>2. k \in 1 .. Len(q) \/ k = Len(q) + 1
        BY <1>1, <1>2
      <3> QED BY <1>2, <3>1, <3>2 DEF NumbersIn
    <2>2. ASSUME NEW a \in NumbersIn(q)
          PROVE  a \in NumbersIn(u)
      <3>1. PICK k \in 1 .. Len(q) : a = q[k]
        BY DEF NumbersIn
      <3>2. k \in 1 .. Len(u) /\ a = u[k]
        BY <1>1, <1>2, <3>1
      <3> QED BY <3>2 DEF NumbersIn
    <2>3. n \in NumbersIn(u)
      <3>1. Len(q) + 1 \in 1 .. Len(u)
        BY <1>1, <1>2
      <3> QED BY <1>2, <3>1 DEF NumbersIn
    <2> QED BY <2>1, <2>2, <2>3
  <1>5. Increasing(u)
    <2> SUFFICES ASSUME NEW i \in 1 .. Len(u), NEW j \in 1 .. Len(u), i < j
                 PROVE  u[i] < u[j]
      BY DEF Increasing
    <2>1. i \in 1 .. Len(q)
      BY <1>1, <1>2
    <2>2. CASE j \in 1 .. Len(q)
      BY <1>2, <2>1, <2>2 DEF Handed, Increasing
    <2>3. CASE j = Len(q) + 1
      BY <1>2, <1>3, <2>1, <2>3
    <2>4. j \in 1 .. Len(q) \/ j = Len(q) + 1
      <3>1. Len(u) = Len(q) + 1 /\ Len(q) \in Nat
        BY <1>1, <1>2
      <3> QED BY <3>1
    <2> QED BY <2>2, <2>3, <2>4
  <1>6. ASSUME Lasting
        PROVE  /\ Len(r) <= Len(u)
               /\ \A i \in 1 .. Len(r) : r[i] = u[i]
               /\ \A k \in 1 .. Len(u) : u[k] < next => k <= Len(r)
    <2>1. /\ Len(r) <= Len(q) /\ \A i \in 1 .. Len(r) : r[i] = q[i]
          /\ \A k \in 1 .. Len(q) : q[k] < next => k <= Len(r)
      BY <1>6 DEF Handed
    <2>2. \A i \in 1 .. Len(r) : i \in 1 .. Len(q)
      BY <1>1, <2>1
    <2>3. \A k \in 1 .. Len(u) : k \in 1 .. Len(q) \/ k = Len(q) + 1
      BY <1>1, <1>2
    <2>4. Len(r) <= Len(u)
      BY <1>1, <1>2, <2>1
    <2>5. \A i \in 1 .. Len(r) : r[i] = u[i]
      BY <1>2, <2>1, <2>2
    <2>6. \A k \in 1 .. Len(u) : u[k] < next => k <= Len(r)
      <3> SUFFICES ASSUME NEW k \in 1 .. Len(u), u[k] < next
                   PROVE  k <= Len(r)
        OBVIOUS
      <3>1. CASE k \in 1 .. Len(q)
        BY <1>2, <2>1, <3>1
      <3>2. CASE k = Len(q) + 1
        BY <1>2, <3>2
      <3> QED BY <2>3, <3>1, <3>2
    <2> QED BY <2>4, <2>5, <2>6
  <1>7. \A i \in 1 .. Len(r) : r[i] \in NumbersIn(u) /\ r[i] < next
    BY <1>4 DEF Handed
  <1>8. Increasing(r)
    BY DEF Handed
  <1> QED BY <1>1, <1>2, <1>4, <1>5, <1>6, <1>7, <1>8 DEF Handed, u

(* More is expected, and nothing was to be delivered in between.           *)
LEMMA HandedPast ==
    ASSUME NEW q, NEW r, NEW next \in Nat, Handed(q, r, next), NEW next1 \in Nat,
           next <= next1, Lasting => \A a \in NumbersIn(q) : a < next \/ next1 <= a
    PROVE  Handed(q, r, next1)
  <1>1. q \in Seq(Nat) /\ r \in Seq(Nat)
    BY DEF Handed
  <1>2. \A i \in 1 .. Len(r) : r[i] \in Nat /\ r[i] \in NumbersIn(q) /\ r[i] < next
    BY <1>1 DEF Handed
  <1>3. \A k \in 1 .. Len(q) : q[k] \in Nat /\ q[k] \in NumbersIn(q)
    BY <1>1 DEF NumbersIn
  <1>4. \A i \in 1 .. Len(r) : r[i] < next1
    BY <1>2
  <1>5. ASSUME Lasting
        PROVE  \A k \in 1 .. Len(q) : q[k] < next1 => k <= Len(r)
    BY <1>3, <1>5 DEF Handed
  <1> QED BY <1>1, <1>4, <1>5 DEF Handed

(* The expected message is delivered: it is the first one missing.         *)
LEMMA HandedDeliver ==
    ASSUME NEW q, NEW r, NEW next \in Nat, Handed(q, r, next), next \in NumbersIn(q)
    PROVE  /\ Handed(q, Append(r, next), next + 1)
           /\ Lasting => Len(r) < Len(q) /\ next = q[Len(r) + 1]
  <1> DEFINE u == Append(r, next)
  <1>1. q \in Seq(Nat) /\ r \in Seq(Nat) /\ Len(q) \in Nat /\ Len(r) \in Nat
    BY DEF Handed
  <1>2. /\ u \in Seq(Nat) /\ Len(u) = Len(r) + 1 /\ u[Len(r) + 1] = next
        /\ \A i \in 1 .. Len(r) : u[i] = r[i]
    BY <1>1
  <1> HIDE DEF u
  <1>3. \A i \in 1 .. Len(u) : i \in 1 .. Len(r) \/ i = Len(r) + 1
    BY <1>1, <1>2
  <1>4. \A i \in 1 .. Len(r) : r[i] \in Nat /\ r[i] \in NumbersIn(q) /\ r[i] < next
    BY <1>1 DEF Handed
  <1>5. Increasing(u)
    <2> SUFFICES ASSUME NEW i \in 1 .. Len(u), NEW j \in 1 .. Len(u), i < j
                 PROVE  u[i] < u[j]
      BY DEF Increasing
    <2>1. i \in 1 .. Len(r)
      BY <1>1, <1>2
    <2>2. CASE j \in 1 .. Len(r)
      BY <1>2, <2>1, <2>2 DEF Handed, Increasing
    <2>3. CASE j = Len(r) + 1
      BY <1>2, <1>4, <2>1, <2>3
    <2> QED BY <1>3, <2>2, <2>3
  <1>6. \A i \in 1 .. Len(u) : u[i] \in NumbersIn(q) /\ u[i] < next + 1
    BY <1>2, <1>3, <1>4
  <1>7. ASSUME Lasting
        PROVE  /\ Len(u) <= Len(q) /\ q[Len(r) + 1] = next
               /\ \A i \in 1 .. Len(u) : u[i] = q[i]
               /\ \A k \in 1 .. Len(q) : q[k] < next + 1 => k <= Len(u)
    <2>1. /\ Len(r) <= Len(q) /\ \A i \in 1 .. Len(r) : r[i] = q[i]
          /\ \A k \in 1 .. Len(q) : q[k] < next => k <= Len(r)
      BY <1>7 DEF Handed
    <2>2. \A i, j \in 1 .. Len(q) : i < j => q[i] < q[j]
      BY DEF Handed, Increasing
    <2>3. \A i \in 1 .. Len(q) : q[i] \in Nat
      BY <1>1
    <2>4. PICK k \in 1 .. Len(q) : q[k] = next
      BY DEF NumbersIn
    <2>5. k > Len(r)
      <3>1. CASE k \in 1 .. Len(r)
        <4>1. r[k] = next /\ r[k] < next
          BY <1>4, <2>1, <2>4, <3>1
        <4> QED BY <4>1
      <3> QED BY <1>1, <3>1
    <2>6. k = Len(r) + 1
      <3>1. CASE k > Len(r) + 1
        <4>1. Len(r) + 1 \in 1 .. Len(q)
          BY <1>1, <3>1
        <4>2. q[Len(r) + 1] < next
          BY <2>2, <2>4, <3>1, <4>1
        <4>3. Len(r) + 1 <= Len(r)
          BY <2>1, <4>1, <4>2
        <4> QED BY <1>1, <4>3
      <3> QED BY <1>1, <2>5, <3>1
    <2>7. ASSUME NEW i \in 1 .. Len(q), q[i] < next + 1
          PROVE  i <= Len(u)
      <3>1. CASE q[i] < next
        BY <1>1, <1>2, <2>1, <3>1
      <3>2. CASE q[i] = next
        <4>1. ~(k < i)
          BY <2>2, <2>4, <3>2
        <4> QED BY <1>2, <2>6, <4>1
      <3> QED BY <2>3, <2>7, <3>1, <3>2
    <2> QED BY <1>1, <1>2, <1>3, <2>1, <2>4, <2>6, <2>7
  <1>8. Handed(q, u, next + 1)
    BY <1>1, <1>2, <1>5, <1>6, <1>7 DEF Handed
  <1>9. Lasting => Len(r) < Len(q) /\ next = q[Len(r) + 1]
    BY <1>1, <1>2, <1>7
  <1> QED BY <1>8, <1>9 DEF u

(* Nothing is delivered, or the first message missing.                     *)
Hands(q, r, got) ==
    \/ got = <<>>
    \/ \E n \in Nat : /\ got = <<n>>
                      /\ Lasting => Len(r) < Len(q) /\ n = q[Len(r) + 1]

(* What a session delivers while it handles one message is the next        *)
(* message accepted, or nothing.                                           *)
LEMMA HandedHears ==
    ASSUME NEW q, NEW r, NEW s, NEW t, NEW m, NEW n \in Nat, NEW p,
           s.nextTarget \in Nat, t.nextTarget \in Nat, Handed(q, r, s.nextTarget),
           Hears(s, t, m), Sent(m, n, NumbersIn(q), p), s.got = <<>>
    PROVE  Handed(q, r \o t.got, t.nextTarget) /\ Hands(q, r, t.got)
  <1>1. q \in Seq(Nat) /\ r \in Seq(Nat)
    BY DEF Handed
  <1>2. m.seq \in Nat /\ m.lo \in Nat
    BY MessageFields DEF Sent
  <1>3. r \o <<>> = r
    BY <1>1
  <1>4. \A a \in NumbersIn(q) : a \in Nat
    BY <1>1 DEF NumbersIn
  <1>5. CASE Keeps(s, t)
    BY <1>3, <1>5 DEF Keeps, Hands
  <1>6. CASE Uses(s, t, m)
    <2>1. Lasting => m.seq = s.nextTarget /\ m.seq \notin NumbersIn(q)
      BY <1>6 DEF Uses, Sent
    <2>2. Lasting => \A a \in NumbersIn(q) : a < s.nextTarget \/ t.nextTarget <= a
      BY <1>4, <1>6, <2>1 DEF Uses
    <2>3. s.nextTarget <= t.nextTarget /\ t.got = <<>>
      BY <1>6 DEF Uses
    <2>4. Handed(q, r, t.nextTarget)
      BY <2>2, <2>3, HandedPast
    <2> QED BY <1>3, <2>3, <2>4 DEF Hands
  <1>7. CASE Gets(s, t, m)
    <2>1. s.nextTarget \in NumbersIn(q) /\ t.nextTarget = s.nextTarget + 1
      BY <1>7 DEF Gets, Sent
    <2>2. t.got = <<s.nextTarget>>
      BY <1>7 DEF Gets
    <2>3. r \o <<s.nextTarget>> = Append(r, s.nextTarget)
      BY <1>1
    <2>4. /\ Handed(q, Append(r, s.nextTarget), s.nextTarget + 1)
          /\ Lasting => Len(r) < Len(q) /\ s.nextTarget = q[Len(r) + 1]
      BY <2>1, HandedDeliver
    <2> QED BY <2>1, <2>2, <2>3, <2>4 DEF Hands
  <1>8. CASE Skips(s, t, m)
    <2>1. Fills(m, n, NumbersIn(q)) /\ m.seq = s.nextTarget /\ t.nextTarget = m.lo
          /\ t.got = <<>>
      BY <1>8 DEF Skips, Sent
    <2>2. Handed(q, r, t.nextTarget)
      BY <2>1, HandedPast DEF Fills
    <2> QED BY <1>3, <2>1, <2>2 DEF Hands
  <1> QED BY <1>5, <1>6, <1>7, <1>8 DEF Hears

-----------------------------------------------------------------------------
(* Steps of the pair                                                       *)

(* There are two sides.                                                    *)
LEMMA OtherSide ==
    ASSUME NEW x \in Sides
    PROVE  /\ Other(x) \in Sides /\ Other(x) # x /\ Other(Other(x)) = x
           /\ \A z \in Sides : z = x \/ z = Other(x)
  BY DEF Sides, Other

(* What the invariant says of the two sides.                               *)
LEMMA SideFacts ==
    ASSUME PairInv, NEW x \in Sides, NEW y, y = Other(x)
    PROVE  /\ Ready(st[x], NumbersIn(accepted[x]), st[y].nextSender)
           /\ st[x].out = <<>> /\ st[x].got = <<>>
           /\ Flowing(net[y], st[x].nextSender, NumbersIn(accepted[x]), st[y])
           /\ Handed(accepted[x], received[x], st[y].nextTarget)
           /\ Ready(st[y], NumbersIn(accepted[y]), st[x].nextSender)
           /\ st[y].out = <<>> /\ st[y].got = <<>>
           /\ Flowing(net[x], st[y].nextSender, NumbersIn(accepted[y]), st[x])
           /\ Handed(accepted[y], received[y], st[x].nextTarget)
  <1>1. y \in Sides /\ Other(y) = x
    BY OtherSide
  <1>2. SideInv(x) /\ SideInv(y)
    BY <1>1 DEF PairInv
  <1> QED BY <1>1, <1>2 DEF SideInv

(* The counterparty may use more numbers.                                  *)
LEMMA ReadyLater ==
    ASSUME NEW s, NEW A, NEW p \in Nat, NEW p1 \in Nat, Ready(s, A, p), p <= p1
    PROVE  Ready(s, A, p1)
  <1>1. s.nextTarget \in Nat /\ s.nextTarget <= p
    BY DEF Ready
  <1>2. s.nextTarget <= p1
    BY <1>1
  <1> QED BY <1>2 DEF Ready

(* A step of x leaves session state t.                                     *)
LEMMA StepInv ==
    ASSUME PairInv, NEW x \in Sides, NEW y, y = Other(x), NEW t,
           DOMAIN st' = Sides, st'[x] = t, st'[y] = st[y],
           DOMAIN net' = Sides, DOMAIN accepted' = Sides, received' \in [Sides -> Seq(Nat)],
           logouts' \in Nat, accepted'[y] = accepted[y],
           Ready(t, NumbersIn(accepted'[x]), st[y].nextSender),
           t.out = <<>>, t.got = <<>>, st[x].nextSender <= t.nextSender,
           Flowing(net'[y], t.nextSender, NumbersIn(accepted'[x]), st[y]),
           Handed(accepted'[x], received'[x], st[y].nextTarget),
           Flowing(net'[x], st[y].nextSender, NumbersIn(accepted[y]), t),
           Handed(accepted[y], received'[y], t.nextTarget)
    PROVE  PairInv'
  <1>1. y \in Sides /\ Other(y) = x /\ \A z \in Sides : z = x \/ z = y
    BY OtherSide
  <1>2. /\ Ready(st[y], NumbersIn(accepted[y]), st[x].nextSender)
        /\ st[y].out = <<>> /\ st[y].got = <<>> /\ st[x].nextSender \in Nat
    BY SideFacts DEF Ready
  <1>3. t.nextSender \in Nat
    BY DEF Ready
  <1>4. Ready(st[y], NumbersIn(accepted[y]), t.nextSender)
    BY <1>2, <1>3, ReadyLater
  <1>5. SideInv(x)'
    BY DEF SideInv
  <1>6. SideInv(y)'
    BY <1>1, <1>2, <1>4 DEF SideInv
  <1> QED BY <1>1, <1>5, <1>6 DEF PairInv

(* A call is over: what it sent and delivered is accounted for.            *)
LEMMA FreshFacts ==
    ASSUME NEW s, NEW n0, NEW A, NEW p, Mid(s, n0, A, p)
    PROVE  LET t == Fresh(s)
           IN  /\ Ready(t, A, p) /\ t.out = <<>> /\ t.got = <<>>
               /\ t.nextSender = s.nextSender /\ t.nextTarget = s.nextTarget
               /\ t.queue = s.queue
  <1> DEFINE t == Fresh(s)
  <1>1. Ready(s, A, p) /\ DOMAIN s = Fields
    BY DEF Mid, Ready
  <1>2. /\ DOMAIN t = Fields /\ t.sentReset = s.sentReset
        /\ t.receivedReset = s.receivedReset /\ t.enabled = s.enabled
        /\ t.nextSender = s.nextSender /\ t.nextTarget = s.nextTarget
        /\ t.sending = s.sending /\ t.owed = s.owed /\ t.store = s.store /\ t.queue = s.queue
        /\ t.out = <<>> /\ t.got = <<>>
    BY <1>1 DEF Fields, Fresh
  <1> HIDE DEF t
  <1>3. Stored(t, A)
    BY <1>1, <1>2 DEF Ready, Stored
  <1>4. Ready(t, A, p)
    BY <1>1, <1>2, <1>3 DEF Ready
  <1> QED BY <1>2, <1>4 DEF t

(* A step of x that leaves the session s behind, sends what s sent and     *)
(* delivers what s delivered, keeps the invariant.                         *)
LEMMA LeavesInv ==
    ASSUME PairInv, NEW x \in Sides, NEW y, y = Other(x), NEW s, NEW rest, NEW closes,
           NEW A1, A1 = NumbersIn(accepted'[x]), Leaves(x, s, rest, closes),
           Mid(s, st[x].nextSender, A1, st[y].nextSender), st[x].nextSender <= s.nextSender,
           NumbersIn(accepted[x]) \subseteq A1,
           \A a \in A1 : a \in NumbersIn(accepted[x]) \/ (a \in Nat /\ st[x].nextSender <= a),
           DOMAIN accepted' = Sides, accepted'[y] = accepted[y], logouts' \in Nat,
           Flowing(rest, st[y].nextSender, NumbersIn(accepted[y]), s),
           Handed(accepted'[x], received[x], st[y].nextTarget),
           Handed(accepted[y], received[y] \o s.got, s.nextTarget)
    PROVE  PairInv'
  <1> DEFINE t == Fresh(s)
             A == NumbersIn(accepted[x])
             B == NumbersIn(accepted[y])
  <1>1. y \in Sides /\ y # x
    BY OtherSide
  <1>2. /\ DOMAIN st = Sides /\ DOMAIN net = Sides
        /\ DOMAIN accepted = Sides /\ received \in [Sides -> Seq(Nat)]
    BY DEF PairInv
  <1>3. /\ Ready(t, A1, st[y].nextSender) /\ t.out = <<>> /\ t.got = <<>>
        /\ t.nextSender = s.nextSender /\ t.nextTarget = s.nextTarget
        /\ t.queue = s.queue
    BY FreshFacts
  <1>4. st' = [st EXCEPT ![x] = t]
    BY DEF Leaves
  <1>5. received' = [received EXCEPT ![y] = @ \o s.got]
    BY DEF Leaves
  <1>6. /\ DOMAIN net' = Sides /\ net'[x] \in {<<>>, rest}
        /\ net'[y] \in {net[y], net[y] \o s.out}
    BY <1>1, <1>2 DEF Leaves
  <1> HIDE DEF t
  <1>7. /\ DOMAIN st' = Sides /\ st'[x] = t /\ st'[y] = st[y]
        /\ received' \in [Sides -> Seq(Nat)] /\ received'[x] = received[x]
        /\ received'[y] = received[y] \o s.got
    <2>1. received[y] \o s.got \in Seq(Nat)
      BY DEF Handed
    <2> QED BY <1>1, <1>2, <1>4, <1>5, <2>1
  <1>8. /\ Flowing(net[y], st[x].nextSender, A, st[y])
        /\ st[x].nextSender \in Nat /\ st[y].nextSender \in Nat
        /\ st[y].nextTarget \in Nat /\ st[y].nextTarget <= st[x].nextSender
    BY SideFacts DEF Ready
  <1>9. s.nextSender \in Nat /\ Out(s.out, st[x].nextSender, s.nextSender, A1, st[y].nextSender)
    BY DEF Mid, Ready
  <1>10. /\ Flowing(net[y], s.nextSender, A1, st[y])
         /\ Flowing(net[y] \o s.out, s.nextSender, A1, st[y])
    BY <1>8, <1>9, FlowingLater, FlowingMore
  <1>11. Flowing(net'[y], t.nextSender, A1, st[y])
    BY <1>3, <1>6, <1>10
  <1>12. Flowing(rest, st[y].nextSender, B, t)
    BY <1>3 DEF Flowing
  <1>13. Flowing(net'[x], st[y].nextSender, B, t)
    BY <1>6, <1>12, FlowingNone
  <1> QED BY <1>3, <1>6, <1>7, <1>11, <1>13, StepInv

(* What a step does to the messages accepted and delivered.                *)
Delivers ==
    /\ accepted' = accepted
    /\ \E y \in Sides : \E got :
        /\ Hands(accepted[y], received[y], got)
        /\ received' = [received EXCEPT ![y] = @ \o got]

Accepts ==
    /\ received' = received
    /\ \E x \in Sides :
        /\ accepted' = [accepted EXCEPT ![x] = Append(@, st[x].nextSender)]
        /\ st[x].nextSender <= MaxNum

PairStep == PairInv' /\ (Delivers \/ Accepts \/ UNCHANGED <<accepted, received>>)

(* A call of x that handles nothing.                                       *)
LEMMA TalksLeaves ==
    ASSUME PairInv, NEW x \in Sides, NEW y, y = Other(x), NEW s, NEW rest, NEW closes,
           Talks(st[x], s, st[x].nextSender, NumbersIn(accepted[x]), st[y].nextSender),
           Leaves(x, s, rest, closes), rest \in {net[x], <<>>},
           accepted' = accepted, logouts' \in Nat
    PROVE  PairStep
  <1> DEFINE A == NumbersIn(accepted[x])
             B == NumbersIn(accepted[y])
             n == st[x].nextSender
             p == st[y].nextSender
  <1>1. /\ Flowing(net[x], p, B, st[x]) /\ Handed(accepted[y], received[y], st[x].nextTarget)
        /\ Handed(accepted[x], received[x], st[y].nextTarget)
        /\ n \in Nat /\ p \in Nat /\ st[x].got = <<>> /\ y \in Sides
    BY SideFacts, OtherSide DEF Ready
  <1>2. Mid(s, n, A, p) /\ n <= s.nextSender /\ Quiet(st[x], s)
    BY DEF Talks
  <1>3. s.nextSender \in Nat /\ s.got = <<>> /\ s.nextTarget = st[x].nextTarget
    BY <1>1, <1>2 DEF Mid, Ready, Quiet
  <1>4. Flowing(rest, p, B, st[x])
    BY <1>1, FlowingNone
  <1>5. Flowing(rest, p, B, s)
    BY <1>1, <1>2, <1>3, <1>4, FlowingQuiet
  <1>6. received[y] \o <<>> = received[y]
    BY <1>1 DEF Handed
  <1>7. Handed(accepted[y], received[y] \o s.got, s.nextTarget)
    BY <1>1, <1>3, <1>6
  <1>8. DOMAIN accepted' = Sides /\ accepted'[y] = accepted[y] /\ accepted'[x] = accepted[x]
    BY DEF PairInv
  <1>9. PairInv'
    BY <1>1, <1>2, <1>5, <1>7, <1>8, LeavesInv
  <1>10. Hands(accepted[y], received[y], s.got)
    BY <1>3 DEF Hands
  <1>11. received' = [received EXCEPT ![y] = @ \o s.got]
    BY DEF Leaves
  <1>12. Delivers
    BY <1>1, <1>10, <1>11 DEF Delivers
  <1> QED BY <1>9, <1>12 DEF PairStep

(* A call of x that handles m, after which rest is on its way to x.        *)
LEMMA TakesLeaves ==
    ASSUME PairInv, NEW x \in Sides, NEW y, y = Other(x), NEW s, NEW rest, NEW closes, NEW m,
           Takes(st[x], s, m, st[x].nextSender, NumbersIn(accepted[x]), st[y].nextSender),
           Offered(st[x], m, NumbersIn(accepted[y]), st[y].nextSender),
           Flowing(rest, st[y].nextSender, NumbersIn(accepted[y]), st[x]),
           \A j \in 1 .. Len(rest) : ~rest[j].dup => Past(m) <= rest[j].seq,
           Leaves(x, s, rest, closes), accepted' = accepted, logouts' \in Nat
    PROVE  PairStep
  <1> DEFINE A == NumbersIn(accepted[x])
             B == NumbersIn(accepted[y])
             n == st[x].nextSender
             p == st[y].nextSender
  <1>1. /\ Handed(accepted[y], received[y], st[x].nextTarget)
        /\ Handed(accepted[x], received[x], st[y].nextTarget)
        /\ n \in Nat /\ p \in Nat /\ st[x].nextTarget \in Nat
        /\ st[x].got = <<>> /\ y \in Sides
    BY SideFacts, OtherSide DEF Ready
  <1>2. Mid(s, n, A, p) /\ n <= s.nextSender /\ Hears(st[x], s, m)
    BY DEF Takes
  <1>3. s.nextSender \in Nat /\ s.nextTarget \in Nat
    BY <1>2 DEF Mid, Ready
  <1>4. Sent(m, p, B, n)
    BY DEF Offered
  <1>5. Flowing(rest, p, B, s)
    BY <1>1, <1>2, <1>3, <1>4, FlowingHears
  <1>6. Handed(accepted[y], received[y] \o s.got, s.nextTarget) /\ Hands(accepted[y], received[y], s.got)
    BY <1>1, <1>2, <1>3, <1>4, HandedHears
  <1>7. DOMAIN accepted' = Sides /\ accepted'[y] = accepted[y] /\ accepted'[x] = accepted[x]
    BY DEF PairInv
  <1>8. PairInv'
    BY <1>1, <1>2, <1>5, <1>6, <1>7, LeavesInv
  <1>9. received' = [received EXCEPT ![y] = @ \o s.got]
    BY DEF Leaves
  <1>10. Delivers
    BY <1>1, <1>6, <1>9 DEF Delivers
  <1> QED BY <1>8, <1>10 DEF PairStep

(* A call begins with nothing sent.                                        *)
LEMMA BeginsMid ==
    ASSUME PairInv, NEW x \in Sides, NEW y, y = Other(x)
    PROVE  /\ Mid(st[x], st[x].nextSender, NumbersIn(accepted[x]), st[y].nextSender)
           /\ st[x].nextSender \in Nat /\ st[y].nextSender \in Nat
           /\ st[x].nextTarget \in Nat /\ logouts \in Nat /\ y \in Sides
  <1>1. /\ Ready(st[x], NumbersIn(accepted[x]), st[y].nextSender) /\ st[x].out = <<>>
        /\ Ready(st[y], NumbersIn(accepted[y]), st[x].nextSender)
    BY SideFacts
  <1>2. /\ st[x].nextSender \in Nat /\ st[y].nextSender \in Nat /\ st[x].nextTarget \in Nat
        /\ logouts \in Nat /\ y \in Sides
    BY <1>1, OtherSide DEF Ready, PairInv
  <1>3. <<>> \in Seq(Message) /\ Len(<<>>) = 0
    OBVIOUS
  <1>4. Out(<<>>, st[x].nextSender, st[x].nextSender, NumbersIn(accepted[x]), st[y].nextSender)
    BY <1>3 DEF Out, InSequence
  <1> QED BY <1>1, <1>2, <1>4 DEF Mid

(* The acceptor handles the first message of a connection.                 *)
LEMMA AcceptLogonStep ==
    ASSUME NoResets, PairInv, AcceptLogon("A")
    PROVE  PairStep
  <1> DEFINE m == Head(net["A"])
             s == firstMessage(m)
             rest == Tail(net["A"])
  <1>1. "A" \in Sides /\ Other("A") = "I"
    BY DEF Sides, Other
  <1>2. net["A"] # <<>> /\ Leaves("A", s, rest, ~s.receivedLogon)
    BY DEF AcceptLogon
  <1>3. accepted' = accepted /\ logouts' = logouts
    BY DEF AcceptLogon
  <1>4. Flowing(net["A"], st["I"].nextSender, NumbersIn(accepted["I"]), st["A"])
    BY <1>1, SideFacts
  <1>5. /\ Offered(st["A"], m, NumbersIn(accepted["I"]), st["I"].nextSender)
        /\ Flowing(rest, st["I"].nextSender, NumbersIn(accepted["I"]), st["A"])
        /\ \A j \in 1 .. Len(rest) : ~rest[j].dup => Past(m) <= rest[j].seq
    BY <1>2, <1>4, FlowingHead
  <1> HIDE DEF m, rest
  <1>6. /\ Mid(st["A"], st["A"].nextSender, NumbersIn(accepted["A"]), st["I"].nextSender)
        /\ st["A"].nextSender \in Nat /\ st["I"].nextSender \in Nat /\ logouts \in Nat
    BY <1>1, BeginsMid
  <1>7. Takes(st["A"], s, m, st["A"].nextSender, NumbersIn(accepted["A"]), st["I"].nextSender)
    BY <1>5, <1>6, FirstTakes
  <1> HIDE DEF s
  <1> QED BY <1>1, <1>2, <1>3, <1>5, <1>6, <1>7, TakesLeaves

(* A side handles the next message of the connection.                      *)
LEMMA ReceiveStep ==
    ASSUME NoResets, PairInv, NEW x \in Sides, Receive(x)
    PROVE  PairStep
  <1> DEFINE y == Other(x)
             m == Head(net[x])
             s == nextMessage(st[x], m, "ok", {}, "open", FALSE)
             rest == Tail(net[x])
  <1>1. net[x] # <<>> /\ Leaves(x, s, rest, FALSE)
    BY DEF Receive
  <1>2. accepted' = accepted /\ logouts' = logouts
    BY DEF Receive
  <1> HIDE DEF y
  <1>3. y = Other(x)
    BY DEF y
  <1>4. Flowing(net[x], st[y].nextSender, NumbersIn(accepted[y]), st[x])
    BY <1>3, SideFacts
  <1>5. /\ Offered(st[x], m, NumbersIn(accepted[y]), st[y].nextSender)
        /\ Flowing(rest, st[y].nextSender, NumbersIn(accepted[y]), st[x])
        /\ \A j \in 1 .. Len(rest) : ~rest[j].dup => Past(m) <= rest[j].seq
    BY <1>1, <1>4, FlowingHead
  <1> HIDE DEF m, rest
  <1>6. /\ Mid(st[x], st[x].nextSender, NumbersIn(accepted[x]), st[y].nextSender)
        /\ st[x].nextSender \in Nat /\ st[y].nextSender \in Nat /\ logouts \in Nat
    BY <1>3, BeginsMid
  <1>7. Takes(st[x], s, m, st[x].nextSender, NumbersIn(accepted[x]), st[y].nextSender)
    BY <1>5, <1>6, MessageTakes
  <1> HIDE DEF s
  <1> QED BY <1>1, <1>2, <1>3, <1>5, <1>6, <1>7, TakesLeaves

(* A side handles a queued message whose turn has come.                    *)
LEMMA DrainStep ==
    ASSUME NoResets, PairInv, NEW x \in Sides, Drain(x)
    PROVE  PairStep
  <1> DEFINE y == Other(x)
             m == st[x].queue[st[x].nextTarget]
             s == drainOne(st[x], m)
  <1>1. st[x].nextTarget \in DOMAIN st[x].queue /\ Leaves(x, s, net[x], FALSE)
    BY DEF Drain
  <1>2. accepted' = accepted /\ logouts' = logouts
    BY DEF Drain
  <1> HIDE DEF y
  <1>3. y = Other(x)
    BY DEF y
  <1>4. Flowing(net[x], st[y].nextSender, NumbersIn(accepted[y]), st[x])
    BY <1>3, SideFacts
  <1>5. /\ Sent(m, st[y].nextSender, NumbersIn(accepted[y]), st[x].nextSender)
        /\ m.seq = st[x].nextTarget
        /\ \A j \in 1 .. Len(net[x]) : ~net[x][j].dup => Past(m) <= net[x][j].seq
    BY <1>1, <1>4 DEF Flowing
  <1> HIDE DEF m
  <1>6. /\ Mid(st[x], st[x].nextSender, NumbersIn(accepted[x]), st[y].nextSender)
        /\ st[x].nextSender \in Nat /\ st[y].nextSender \in Nat /\ logouts \in Nat
        /\ st[x].nextTarget \in Nat
    BY <1>3, BeginsMid
  <1>7. Offered(st[x], m, NumbersIn(accepted[y]), st[y].nextSender)
    BY <1>5, <1>6 DEF Offered
  <1>8. Takes(st[x], s, m, st[x].nextSender, NumbersIn(accepted[x]), st[y].nextSender)
    BY <1>5, <1>6, <1>7, DrainTakes
  <1> HIDE DEF s
  <1> QED BY <1>1, <1>2, <1>3, <1>4, <1>5, <1>6, <1>7, <1>8, TakesLeaves

(* Calls of a network thread in which nothing is received.                 *)
LEMMA QuietStep ==
    ASSUME NoResets, PairInv, NEW x \in Sides,
           \/ SendRetransmits(x) \/ DrainEnds(x) \/ Clock(x) \/ Beat(x)
           \/ EndOfStream(x) \/ Crash(x) \/ GivesUp(x)
    PROVE  PairStep
  <1> DEFINE y == Other(x)
             n == st[x].nextSender
             A == NumbersIn(accepted[x])
             p == st[y].nextSender
  <1>1. accepted' = accepted /\ logouts' = logouts
    BY DEF SendRetransmits, DrainEnds, Clock, Beat, EndOfStream, Crash, GivesUp
  <1>2. /\ Mid(st[x], n, A, p) /\ n \in Nat /\ p \in Nat /\ logouts \in Nat
    BY BeginsMid
  <1> HIDE DEF y
  <1>3. y = Other(x)
    BY DEF y
  <1>4. ASSUME NEW s, NEW rest \in {net[x], <<>>}, NEW closes,
               Talks(st[x], s, n, A, p), Leaves(x, s, rest, closes)
        PROVE  PairStep
    BY <1>1, <1>2, <1>3, <1>4, TalksLeaves
  <1>5. CASE SendRetransmits(x)
    <2>1. st[x].owed # 0 /\ Leaves(x, retransmitOwed(st[x], {}), net[x], FALSE)
      BY <1>5 DEF SendRetransmits
    <2>2. Talks(st[x], retransmitOwed(st[x], {}), n, A, p)
      BY <1>2, <2>1, RetransmitOwedTalks
    <2> QED BY <1>4, <2>1, <2>2
  <1>6. CASE DrainEnds(x)
    <2> DEFINE s == IF isLoggedOn(st[x]) THEN clock(st[x], {}, "open") ELSE st[x]
    <2>1. Leaves(x, s, net[x], FALSE)
      BY <1>6 DEF DrainEnds
    <2>2. Talks(st[x], s, n, A, p)
      BY <1>2, ClockTalks, TalksRefl
    <2> HIDE DEF s
    <2> QED BY <1>4, <2>1, <2>2
  <1>7. CASE Clock(x)
    <2>1. Leaves(x, clock(st[x], {}, "open"), net[x], FALSE)
      BY <1>7 DEF Clock
    <2>2. Talks(st[x], clock(st[x], {}, "open"), n, A, p)
      BY <1>2, ClockTalks
    <2> QED BY <1>4, <2>1, <2>2
  <1>8. CASE Beat(x)
    <2> DEFINE passed == {"quiet", "beat"}
    <2>1. Leaves(x, clock(st[x], passed, "open"), net[x], FALSE)
      BY <1>8 DEF Beat
    <2>2. "dead" \notin passed /\ "test" \notin passed
      OBVIOUS
    <2> HIDE DEF passed
    <2>3. Talks(st[x], clock(st[x], passed, "open"), n, A, p)
      BY <1>2, <2>2, ClockTalks
    <2> QED BY <1>4, <2>1, <2>3
  <1>9. CASE EndOfStream(x)
    <2>1. Leaves(x, disconnect(st[x]), <<>>, TRUE)
      BY <1>9 DEF EndOfStream
    <2>2. Talks(st[x], disconnect(st[x]), n, A, p)
      BY <1>2, DisconnectTalks
    <2> QED BY <1>4, <2>1, <2>2
  <1>10. CASE Crash(x)
    <2> DEFINE u == disconnectWith(st[x], FALSE)
               s == [u EXCEPT !.owed = 0]
    <2>1. Leaves(x, s, <<>>, TRUE)
      BY <1>10 DEF Crash
    <2>2. Talks(st[x], u, n, A, p)
      BY <1>2, DisconnectTalks
    <2> HIDE DEF u
    <2>3. Mid(u, n, A, p)
      BY <2>2 DEF Talks
    <2>4. 0 <= u.nextSender
      BY <2>3 DEF Mid, Ready
    <2>5. Talks(u, s, n, A, p)
      BY <2>3, <2>4, OwedTalks
    <2>6. Talks(st[x], s, n, A, p)
      BY <1>2, <2>2, <2>5, TalksTrans
    <2> HIDE DEF s
    <2> QED BY <1>4, <2>1, <2>6
  <1>11. CASE GivesUp(x)
    <2> DEFINE passed == {"logon", "logout"}
    <2>1. Leaves(x, clock(st[x], passed, "open"), net[x], FALSE)
      BY <1>11 DEF GivesUp
    <2>2. "dead" \notin passed /\ "test" \notin passed
      OBVIOUS
    <2> HIDE DEF passed
    <2>3. Talks(st[x], clock(st[x], passed, "open"), n, A, p)
      BY <1>2, <2>2, ClockTalks
    <2> QED BY <1>4, <2>1, <2>3
  <1> QED BY <1>5, <1>6, <1>7, <1>8, <1>9, <1>10, <1>11

(* The application of x sends.                                             *)
LEMMA SendStep ==
    ASSUME NoResets, PairInv, NEW x \in Sides, Send(x)
    PROVE  PairStep
  <1> DEFINE y == Other(x)
             n == st[x].nextSender
             A == NumbersIn(accepted[x])
             B == NumbersIn(accepted[y])
             p == st[y].nextSender
             s == sendApp(st[x], FALSE)
  <1>1. /\ Mid(st[x], n, A, p) /\ n \in Nat /\ p \in Nat /\ logouts \in Nat /\ y \in Sides
    BY BeginsMid
  <1>2. /\ Talks(st[x], s, n, A \cup {n}, p) /\ s.nextSender = n + 1
    BY <1>1, AppTalks
  <1>3. Leaves(x, s, net[x], FALSE) /\ logouts' = logouts
    BY DEF Send
  <1>4. accepted' = IF st'[x].nextSender > st[x].nextSender
                    THEN [accepted EXCEPT ![x] = Append(@, st[x].nextSender)]
                    ELSE accepted
    BY DEF Send
  <1> HIDE DEF s, y
  <1>5. y = Other(x) /\ x # y
    BY OtherSide DEF y
  <1>6. /\ DOMAIN st = Sides /\ DOMAIN accepted = Sides /\ received \in [Sides -> Seq(Nat)]
    BY DEF PairInv
  <1>7. Mid(s, n, A \cup {n}, p) /\ n <= s.nextSender /\ Quiet(st[x], s)
    BY <1>2 DEF Talks
  <1>8. st'[x].nextSender = n + 1
    <2>1. st' = [st EXCEPT ![x] = Fresh(s)]
      BY <1>3 DEF Leaves
    <2>2. Fresh(s).nextSender = s.nextSender
      BY <1>7, FreshFacts
    <2> QED BY <1>2, <1>6, <2>1, <2>2
  <1>9. accepted' = [accepted EXCEPT ![x] = Append(@, n)]
    BY <1>1, <1>4, <1>8
  <1>10. accepted'[x] = Append(accepted[x], n) /\ accepted'[y] = accepted[y]
         /\ DOMAIN accepted' = Sides
    BY <1>1, <1>5, <1>6, <1>9
  <1>11. /\ Flowing(net[x], p, B, st[x]) /\ Handed(accepted[y], received[y], st[x].nextTarget)
         /\ Handed(accepted[x], received[x], st[y].nextTarget) /\ st[x].got = <<>>
         /\ Ready(st[x], A, p) /\ Ready(st[y], B, n)
    BY <1>5, SideFacts
  <1>12. /\ \A a \in A : a \in Nat /\ a < n
         /\ st[y].nextTarget \in Nat /\ st[y].nextTarget <= n
    BY <1>11 DEF Ready
  <1>13. /\ Handed(Append(accepted[x], n), received[x], st[y].nextTarget)
         /\ NumbersIn(Append(accepted[x], n)) = A \cup {n}
    BY <1>1, <1>11, <1>12, HandedAccept
  <1>14. s.nextSender \in Nat /\ s.got = <<>> /\ s.nextTarget = st[x].nextTarget
    BY <1>7, <1>11 DEF Mid, Ready, Quiet
  <1>15. Flowing(net[x], p, B, s)
    BY <1>1, <1>7, <1>11, <1>14, FlowingQuiet
  <1>16. received[y] \o <<>> = received[y]
    BY <1>11 DEF Handed
  <1>17. Handed(accepted[y], received[y] \o s.got, s.nextTarget)
    BY <1>11, <1>14, <1>16
  <1> DEFINE A1 == NumbersIn(accepted'[x])
  <1>18. A1 = A \cup {n}
    BY <1>10, <1>13
  <1>19. \A a \in A1 : a \in A \/ (a \in Nat /\ n <= a)
    BY <1>1, <1>18
  <1>20. A \subseteq A1 /\ Mid(s, n, A1, p)
    BY <1>7, <1>18
  <1>21. Handed(accepted'[x], received[x], st[y].nextTarget) /\ logouts' \in Nat
    BY <1>1, <1>3, <1>10, <1>13
  <1> HIDE DEF A1
  <1>22. A1 = NumbersIn(accepted'[x])
    BY DEF A1
  <1>23. PairInv'
    BY <1>3, <1>5, <1>7, <1>10, <1>15, <1>17, <1>19, <1>20, <1>21, <1>22, LeavesInv
  <1>24. n <= MaxNum
    BY <1>1, <1>2, <1>3, PairAssumption DEF Leaves
  <1>25. received' = received
    <2>1. received' = [received EXCEPT ![y] = @ \o s.got]
      BY <1>3, <1>5 DEF Leaves
    <2> QED BY <1>6, <1>14, <1>16, <2>1
  <1>26. Accepts
    BY <1>9, <1>24, <1>25 DEF Accepts
  <1> QED BY <1>23, <1>26 DEF PairStep

(* A step of x that sends and delivers nothing.                            *)
LEMMA SilentStep ==
    ASSUME PairInv, NEW x \in Sides, NEW y, y = Other(x), NEW t,
           DOMAIN st' = Sides, st'[x] = t, st'[y] = st[y],
           DOMAIN net' = Sides, net'[x] \in {net[x], <<>>}, net'[y] \in {net[y], <<>>},
           accepted' = accepted, received' = received, logouts' \in Nat,
           Ready(t, NumbersIn(accepted[x]), st[y].nextSender), t.out = <<>>, t.got = <<>>,
           t.nextSender = st[x].nextSender, t.nextTarget = st[x].nextTarget,
           t.queue = st[x].queue
    PROVE  PairStep
  <1> DEFINE A == NumbersIn(accepted[x])
             B == NumbersIn(accepted[y])
  <1>1. /\ Flowing(net[y], st[x].nextSender, A, st[y])
        /\ Handed(accepted[x], received[x], st[y].nextTarget)
        /\ Flowing(net[x], st[y].nextSender, B, st[x])
        /\ Handed(accepted[y], received[y], st[x].nextTarget)
        /\ st[x].nextSender \in Nat
    BY SideFacts DEF Ready
  <1>2. Flowing(net'[y], t.nextSender, A, st[y])
    BY <1>1, FlowingNone
  <1>3. Flowing(net'[x], st[y].nextSender, B, st[x])
    BY <1>1, FlowingNone
  <1>4. Flowing(net'[x], st[y].nextSender, B, t)
    BY <1>3 DEF Flowing
  <1>5. DOMAIN accepted' = Sides /\ received' \in [Sides -> Seq(Nat)]
        /\ accepted'[y] = accepted[y] /\ accepted'[x] = accepted[x]
        /\ received'[y] = received[y] /\ received'[x] = received[x]
    BY DEF PairInv
  <1>6. st[x].nextSender <= t.nextSender
    BY <1>1
  <1>7. PairInv'
    BY <1>1, <1>2, <1>4, <1>5, <1>6, StepInv
  <1> QED BY <1>7 DEF PairStep

(* The initiator connects: only the responder is set.                      *)
LEMMA ConnectStep ==
    ASSUME PairInv, Connect
    PROVE  PairStep
  <1> DEFINE s == st["I"]
             t == [s EXCEPT !.responder = TRUE]
             A == NumbersIn(accepted["I"])
             p == st["A"].nextSender
  <1>1. "I" \in Sides /\ Other("I") = "A" /\ "A" \in Sides
    BY DEF Sides, Other
  <1>2. /\ Mid(s, s.nextSender, A, p) /\ logouts \in Nat
    BY <1>1, BeginsMid
  <1>3. s.out = <<>> /\ s.got = <<>>
    BY <1>1, SideFacts
  <1>4. DOMAIN st = Sides
    BY DEF PairInv
  <1>5. /\ DOMAIN st' = Sides /\ st'["I"] = t /\ st'["A"] = st["A"]
    BY <1>1, <1>4 DEF Connect
  <1>6. /\ DOMAIN net' = Sides /\ net'["I"] = <<>> /\ net'["A"] = <<>>
        /\ accepted' = accepted /\ received' = received /\ logouts' = logouts
    BY <1>1 DEF Connect
  <1>7. DOMAIN s = Fields /\ s.sentReset = FALSE /\ s.receivedReset = FALSE
    BY <1>2 DEF Mid, Ready
  <1> HIDE DEF s
  <1>8. /\ DOMAIN t = Fields /\ t.sentReset = FALSE /\ t.receivedReset = FALSE
        /\ t.enabled = s.enabled
        /\ t.nextSender = s.nextSender /\ t.nextTarget = s.nextTarget
        /\ t.sending = s.sending /\ t.owed = s.owed /\ t.store = s.store /\ t.out = s.out /\ t.got = s.got
        /\ t.queue = s.queue
    BY <1>7 DEF Fields
  <1> HIDE DEF t
  <1>9. Talks(s, t, s.nextSender, A, p)
    BY <1>2, <1>8, FlagsTalk
  <1>10. Ready(t, A, p)
    BY <1>9 DEF Talks, Mid
  <1> QED BY <1>1, <1>2, <1>3, <1>5, <1>6, <1>8, <1>10, SilentStep DEF s

(* logon() and logout()                                                    *)
LEMMA EnableStep ==
    ASSUME PairInv, NEW x \in Sides, Enable(x) \/ Disable(x)
    PROVE  PairStep
  <1> DEFINE s == st[x]
             y == Other(x)
             e == IF Enable(x) THEN TRUE ELSE FALSE
             t == [s EXCEPT !.enabled = e]
             A == NumbersIn(accepted[x])
             p == st[y].nextSender
  <1>1. /\ Mid(s, s.nextSender, A, p) /\ logouts \in Nat /\ y \in Sides
    BY BeginsMid
  <1>2. s.out = <<>> /\ s.got = <<>>
    BY SideFacts
  <1>3. DOMAIN st = Sides /\ DOMAIN net = Sides /\ y # x
    BY OtherSide DEF PairInv
  <1>4. MaxLogouts = 0 => e
    BY <1>1, PairAssumption DEF Disable
  <1>5. st' = [st EXCEPT ![x] = t]
    BY <1>3 DEF Enable, Disable
  <1>6. net' = net /\ accepted' = accepted /\ received' = received /\ logouts' \in Nat
    BY <1>1 DEF Enable, Disable
  <1>7. Ready(s, A, p) /\ DOMAIN s = Fields
    BY <1>1 DEF Mid, Ready
  <1> HIDE DEF s, e, y
  <1>8. /\ DOMAIN t = Fields /\ t.sentReset = s.sentReset
        /\ t.receivedReset = s.receivedReset /\ t.enabled = e
        /\ t.nextSender = s.nextSender /\ t.nextTarget = s.nextTarget
        /\ t.sending = s.sending /\ t.owed = s.owed /\ t.store = s.store /\ t.out = s.out /\ t.got = s.got
        /\ t.queue = s.queue
    BY <1>7 DEF Fields
  <1> HIDE DEF t
  <1>9. Stored(t, A)
    BY <1>7, <1>8 DEF Ready, Stored
  <1>10. Ready(t, A, p)
    BY <1>4, <1>7, <1>8, <1>9 DEF Ready
  <1>11. DOMAIN st' = Sides /\ st'[x] = t /\ st'[y] = st[y] /\ y = Other(x) /\ s = st[x]
    BY <1>1, <1>3, <1>5 DEF s, y
  <1> QED BY <1>2, <1>3, <1>6, <1>8, <1>10, <1>11, SilentStep

(* The connection breaks: each direction keeps a first part of what was    *)
(* under way.                                                              *)
LEMMA BreakStep ==
    ASSUME PairInv, Break
    PROVE  PairStep
  <1>1. PICK k \in [Sides -> 0 .. MaxNum] :
            /\ \A x \in Sides : k[x] <= Len(net[x])
            /\ net' = [x \in Sides |-> SubSeq(net[x], 1, k[x])]
    BY DEF Break
  <1>2. /\ st' = st /\ accepted' = accepted /\ received' = received /\ logouts' = logouts
    BY DEF Break
  <1>3. ASSUME NEW x \in Sides
        PROVE  SideInv(x)'
    <2> DEFINE y == Other(x)
               part == SubSeq(net[y], 1, k[y])
    <2>1. y \in Sides
      BY OtherSide
    <2>2. /\ Ready(st[x], NumbersIn(accepted[x]), st[y].nextSender)
          /\ st[x].out = <<>> /\ st[x].got = <<>>
          /\ Flowing(net[y], st[x].nextSender, NumbersIn(accepted[x]), st[y])
          /\ Handed(accepted[x], received[x], st[y].nextTarget)
      BY SideFacts
    <2>3. net[y] \in Seq(Message)
      BY <2>2 DEF Flowing
    <2>4. k[y] \in Nat /\ k[y] <= Len(net[y]) /\ MaxNum \in Nat
      BY <1>1, <2>1, PairAssumption
    <2>5. /\ part \in Seq(Message) /\ Len(part) = k[y]
          /\ \A i \in 1 .. k[y] : part[i] = net[y][i]
      BY <2>3, <2>4
    <2>6. \A i \in 1 .. k[y] : i + 0 = i
      BY <2>4
    <2>7. net'[y] = part
      BY <1>1, <2>1
    <2> HIDE DEF part
    <2>8. Flowing(part, st[x].nextSender, NumbersIn(accepted[x]), st[y])
      <3> DEFINE l == 0
      <3>1. l \in Nat /\ l + k[y] <= Len(net[y])
        BY <2>4
      <3>2. \A i \in 1 .. k[y] : part[i] = net[y][i + l]
        BY <2>5, <2>6
      <3> HIDE DEF l
      <3> QED BY <2>2, <2>4, <2>5, <3>1, <3>2, FlowingPart
    <2> QED BY <1>2, <2>2, <2>7, <2>8 DEF SideInv
  <1>4. PairInv'
    BY <1>1, <1>2, <1>3 DEF PairInv
  <1> QED BY <1>2, <1>4 DEF PairStep

(* Every step of the pair keeps the invariant, and accepts, delivers or    *)
(* leaves alone.                                                           *)
LEMMA NextStep ==
    ASSUME NoResets, PairInv, [Next]_vars
    PROVE  PairStep
  <1>1. CASE Connect
    BY <1>1, ConnectStep
  <1>2. CASE Break
    BY <1>2, BreakStep
  <1>3. ASSUME NEW x \in Sides, Network(x)
        PROVE  PairStep
    <2>1. CASE AcceptLogon(x)
      <3>1. x = "A"
        BY <2>1 DEF AcceptLogon
      <3> QED BY <2>1, <3>1, AcceptLogonStep
    <2>2. CASE Receive(x)
      BY <2>2, ReceiveStep
    <2>3. CASE Drain(x)
      BY <2>3, DrainStep
    <2> QED BY <1>3, <2>1, <2>2, <2>3, QuietStep DEF Network
  <1>4. ASSUME NEW x \in Sides, Environment(x)
        PROVE  PairStep
    <2>1. CASE Send(x)
      BY <2>1, SendStep
    <2>2. CASE Disable(x) \/ Enable(x)
      BY <2>2, EnableStep
    <2> QED BY <1>4, <2>1, <2>2, QuietStep DEF Environment
  <1>5. CASE UNCHANGED vars
    <2>1. /\ st' = st /\ net' = net /\ accepted' = accepted /\ received' = received
          /\ logouts' = logouts
      BY <1>5 DEF vars
    <2>2. PairInv'
      BY <2>1 DEF PairInv, SideInv
    <2> QED BY <2>1, <2>2 DEF PairStep
  <1> QED BY <1>1, <1>2, <1>3, <1>4, <1>5 DEF Next

(* Two new sessions satisfy the invariant.                                 *)
LEMMA InitInv ==
    ASSUME Init
    PROVE  PairInv
  <1>1. ASSUME NEW b \in BOOLEAN
        PROVE  LET s == NewSession(b)
               IN  /\ Ready(s, {}, 1) /\ s.out = <<>> /\ s.got = <<>>
                   /\ s.nextSender = 1 /\ s.nextTarget = 1 /\ DOMAIN s.queue = {}
    <2> DEFINE s == NewSession(b)
    <2>1. DOMAIN NoMessages = {}
      BY DEF NoMessages
    <2>2. /\ DOMAIN s = Fields /\ s.sentReset = FALSE /\ s.receivedReset = FALSE
          /\ s.enabled = TRUE /\ s.nextSender = 1 /\ s.nextTarget = 1 /\ s.owed = 0
          /\ s.sending = 0
          /\ s.store = NoMessages /\ s.queue = NoMessages /\ s.out = <<>> /\ s.got = <<>>
      BY DEF NewSession, Fields
    <2> HIDE DEF s
    <2>3. Stored(s, {})
      BY <2>1, <2>2 DEF Stored
    <2>4. Ready(s, {}, 1)
      BY <2>2, <2>3 DEF Ready
    <2> QED BY <2>1, <2>2, <2>4 DEF s
  <1>2. NumbersIn(<<>>) = {}
    BY DEF NumbersIn
  <1>3. ASSUME NEW s, s.nextSender = 1, s.nextTarget = 1, DOMAIN s.queue = {}
        PROVE  Flowing(<<>>, 1, {}, s)
    BY <1>3 DEF Flowing, InSequence
  <1>4. Handed(<<>>, <<>>, 1)
    BY DEF Handed, Increasing
  <1>5. ASSUME NEW x \in Sides
        PROVE  SideInv(x)
    <2>1. Other(x) \in Sides
      BY OtherSide
    <2>2. /\ \E b \in BOOLEAN : st[x] = NewSession(b)
          /\ \E b \in BOOLEAN : st[Other(x)] = NewSession(b)
      BY <2>1 DEF Init
    <2>3. /\ Ready(st[x], {}, 1) /\ st[x].out = <<>> /\ st[x].got = <<>>
          /\ st[x].nextSender = 1 /\ st[Other(x)].nextSender = 1
          /\ st[Other(x)].nextTarget = 1 /\ DOMAIN st[Other(x)].queue = {}
      BY <1>1, <2>2
    <2>4. net[Other(x)] = <<>> /\ accepted[x] = <<>> /\ received[x] = <<>>
      BY <2>1 DEF Init
    <2>5. Flowing(<<>>, 1, {}, st[Other(x)])
      BY <1>3, <2>3
    <2> QED BY <1>2, <1>4, <2>3, <2>4, <2>5 DEF SideInv
  <1> QED BY <1>5 DEF Init, PairInv

-----------------------------------------------------------------------------
(* With settings that never reset the numbers, in every reachable state of *)
(* the two sessions: each expects at most the number its counterparty      *)
(* sends next, what is under way or queued carries the numbers and kinds   *)
(* its sender used, a new message under way is at or above the expected    *)
(* number and above all that is queued, and what was delivered is an       *)
(* increasing part of what was accepted.                                   *)
THEOREM PairInvariant ==
    ASSUME NoResets
    PROVE  Spec => []PairInv
  <1>1. Init => PairInv
    BY InitInv
  <1>2. PairInv /\ [Next]_vars => PairInv'
    BY NextStep DEF PairStep
  <1> QED BY <1>1, <1>2, PTL DEF Spec

(* No session ever expects a number its counterparty has not reached       *)
(* (Session::next, nextSequenceReset, the queue and the answers to         *)
(* ResendRequests), for every number of messages, broken connections and   *)
(* Logouts, with and without persisted messages.                           *)
THEOREM PairNeverAhead ==
    ASSUME NoResets
    PROVE  Spec => []NeverAhead
  <1>1. ASSUME PairInv
        PROVE  NeverAhead
    <2> SUFFICES ASSUME NEW x \in Sides
                 PROVE  st[Other(x)].nextTarget <= st[x].nextSender
      BY DEF NeverAhead
    <2>1. Ready(st[Other(x)], NumbersIn(accepted[Other(x)]), st[x].nextSender)
      BY <1>1, SideFacts
    <2> QED BY <2>1 DEF Ready
  <1>2. PairInv => NeverAhead
    BY <1>1
  <1> QED BY <1>2, PairInvariant, PTL

(* No application message is delivered twice or out of order, through      *)
(* every retransmission, gap fill, queued message and reconnection, and    *)
(* none is delivered that was not sent.                                    *)
THEOREM PairNoneTwice ==
    ASSUME NoResets
    PROVE  Spec => []NoneTwice
  <1>1. ASSUME PairInv
        PROVE  NoneTwice
    <2> SUFFICES ASSUME NEW x \in Sides
                 PROVE  /\ \A i \in 1 .. Len(received[x]) :
                              \E k \in 1 .. Len(accepted[x]) : received[x][i] = accepted[x][k]
                        /\ \A i \in 1 .. (Len(received[x]) - 1) :
                              received[x][i] < received[x][i + 1]
      BY DEF NoneTwice
    <2>1. Handed(accepted[x], received[x], st[Other(x)].nextTarget)
      BY <1>1, SideFacts
    <2>2. Len(received[x]) \in Nat
      BY <2>1 DEF Handed
    <2>3. ASSUME NEW i \in 1 .. (Len(received[x]) - 1)
          PROVE  received[x][i] < received[x][i + 1]
      <3>1. i \in 1 .. Len(received[x]) /\ i + 1 \in 1 .. Len(received[x]) /\ i < i + 1
        BY <2>2
      <3> QED BY <2>1, <3>1 DEF Handed, Increasing
    <2> QED BY <2>1, <2>3 DEF Handed, NumbersIn
  <1>2. PairInv => NoneTwice
    BY <1>1
  <1> QED BY <1>2, PairInvariant, PTL

(* When messages are persisted and no application logs out, the two        *)
(* sessions implement OrderedDelivery: every delivery is that of the       *)
(* oldest message accepted and not yet delivered, so that nothing is lost  *)
(* in between, however often the connection breaks or messages are resent. *)
THEOREM PairKeepsPromise ==
    ASSUME NoResets, Lasting
    PROVE  Spec => KeepsPromise
  <1>1. Init => Promise!AInit
    BY DEF Init, Promise!AInit
  <1>2. ASSUME PairInv, [Next]_vars
        PROVE  [Promise!ANext]_(Promise!avars)
    <2>1. PairStep
      BY <1>2, NextStep
    <2>2. CASE Delivers
      <3>1. PICK y \in Sides : \E got :
                /\ Hands(accepted[y], received[y], got)
                /\ received' = [received EXCEPT ![y] = @ \o got]
        BY <2>2 DEF Delivers
      <3>2. PICK got : /\ Hands(accepted[y], received[y], got)
                       /\ received' = [received EXCEPT ![y] = @ \o got]
        BY <3>1
      <3>3. accepted' = accepted
        BY <2>2 DEF Delivers
      <3>4. received \in [Sides -> Seq(Nat)]
        BY <1>2 DEF PairInv
      <3>5. received[y] \in Seq(Nat)
        BY <3>4
      <3>6. CASE got = <<>>
        <4>1. received[y] \o got = received[y]
          BY <3>5, <3>6
        <4>2. received' = received
          BY <3>2, <3>4, <4>1
        <4> QED BY <3>3, <4>2 DEF Promise!avars
      <3>7. CASE got # <<>>
        <4>1. PICK n \in Nat : /\ got = <<n>>
                               /\ Len(received[y]) < Len(accepted[y])
                               /\ n = accepted[y][Len(received[y]) + 1]
          BY <3>2, <3>7 DEF Hands
        <4>2. received[y] \o got = Append(received[y], n)
          BY <3>5, <4>1
        <4>3. received' = [received EXCEPT ![y] = Append(@, accepted[y][Len(@) + 1])]
          BY <3>2, <4>1, <4>2
        <4>4. Promise!Deliver(y)
          BY <3>3, <4>1, <4>3 DEF Promise!Deliver
        <4> QED BY <4>4 DEF Promise!ANext
      <3> QED BY <3>6, <3>7
    <2>3. CASE Accepts
      <3>1. PICK x \in Sides :
                /\ accepted' = [accepted EXCEPT ![x] = Append(@, st[x].nextSender)]
                /\ st[x].nextSender <= MaxNum
        BY <2>3 DEF Accepts
      <3>2. received' = received
        BY <2>3 DEF Accepts
      <3>3. Ready(st[x], NumbersIn(accepted[x]), st[Other(x)].nextSender)
        BY <1>2, SideFacts
      <3>4. \A i \in 1 .. Len(accepted[x]) : accepted[x][i] < st[x].nextSender
        BY <3>3 DEF Ready, NumbersIn
      <3>5. st[x].nextSender \in 1 .. MaxNum
        BY <3>1, <3>3, PairAssumption DEF Ready
      <3>6. Promise!Accept(x)
        BY <3>1, <3>2, <3>4, <3>5 DEF Promise!Accept
      <3> QED BY <3>6 DEF Promise!ANext
    <2>4. CASE UNCHANGED <<accepted, received>>
      BY <2>4 DEF Promise!avars
    <2> QED BY <2>1, <2>2, <2>3, <2>4 DEF PairStep
  <1>3. PairInv /\ [Next]_vars => [Promise!ANext]_(Promise!avars)
    BY <1>2
  <1> QED BY <1>1, <1>3, PairInvariant, PTL DEF Spec, KeepsPromise, Promise!ASpec
=============================================================================

--------------------------- MODULE ThreadedProofs ---------------------------
(***************************************************************************)
(* Theorems about ThreadedAcceptor, for any number of application threads, *)
(* connections and descriptors and any number of calls of start() and      *)
(* stop().  Types, the responder and the registration are safe whatever    *)
(* the system does with descriptors; that stop() is a barrier, and what    *)
(* rests on it, needs descriptors that are not reused (threads_reuse shows *)
(* what happens otherwise).                                                *)
(***************************************************************************)
EXTENDS ThreadedAcceptor, TLAPS

-----------------------------------------------------------------------------
(* The inductive invariant, whatever the descriptors.                      *)

Idle(w) == pc[w] \in {"none", "done"}

AttachedPlaces ==
    {"onLogon", "read", "fromApp", "toApp", "drop", "hangup", "onLogout",
     "onLogoutLast", "delete", "unregister"}

(* A connection owns the session from the Logon to its destructor.         *)
AttachedOK ==
    \A c \in Conns : /\ attached[c] => pc[c] \in AttachedPlaces
                     /\ pc[c] = "unregister" => attached[c]

(* The responder is a connection that owns the session and has not begun   *)
(* its destructor.                                                         *)
ResponderOK ==
    responder # None => attached[responder] /\ pc[responder] # "unregister"

(* A connection calls stop() from a callback and stays there.              *)
CallbackOK == \A c \in Conns : call[c] # "none" => InCallback(c)

(* The listener has a descriptor and a thread for what it accepted.        *)
SpawnOK ==
    pc[Listener] = "spawn" => newFd \in FDs /\ \E c \in Conns : pc[c] = "none"

Inv == /\ TypeOK /\ AttachedOK /\ ResponderOK /\ RegistrationOwned
       /\ CallbackOK /\ SpawnOK

-----------------------------------------------------------------------------
(* The inductive invariant when descriptors are not reused.                *)

Holding(t) ==
    call[t] \in {"check", "mark", "grab", "close", "join", "return"}

(* m_stopCleanupMutex: one thread at a time is inside stop() or start().   *)
MutexOK == \A t \in Callers : Holding(t) <=> cleanup = t

(* Nothing is left of an earlier run.                                      *)
Clean ==
    /\ mThreads = {} /\ mSockets = {} /\ toJoin = {} /\ ~mPending
    /\ \A w \in Workers : Idle(w)

(* What a stop() in progress has reached.                                  *)
StopOK ==
    /\ ~mStop => ~mPending
    /\ \A t \in Callers :
        /\ call[t] = "mark" => ~mStop
        /\ call[t] \in {"grab", "close", "join"} => mStop
        /\ call[t] = "grab" => ~mPending
        /\ t \in Apps /\ call[t] \in {"close", "join"} =>
              ~mPending /\ ~processing /\ mThreads = {} /\ mSockets = {}
        /\ t \in Apps /\ call[t] = "return" => ~mPending
        /\ t \in Conns /\ call[t] \in {"close", "join", "return"} => mPending
    /\ toJoin # {} => cleanup \in Apps /\ call[cleanup] \in {"close", "join"}

(* A stopped acceptor is clean when nobody is cleaning it up, or has left  *)
(* the cleanup pending.                                                    *)
StoppedOK ==
    mStop /\ ~mPending /\ (cleanup # None => call[cleanup] \in {"check", "return"})
        => Clean /\ ~processing

(* The session is disabled only by a stop(), which will enable it again.   *)
EnabledOK ==
    ~enabled => /\ wasEnabled /\ cleanup # None
                /\ call[cleanup] \in {"mark", "grab", "close", "join", "return"}
                /\ call[cleanup] # "mark" => mStop

(* start() begins on a clean acceptor, and workers appear when it is over. *)
StartOK ==
    /\ \A a \in Apps : a # Starter => pc[a] \in {"none", "toApp"}
    /\ pc[Starter] \in {"none", "toApp", "start", "open", "spawn"}
    /\ pc[Starter] = "start" =>
          /\ mStop /\ ~processing
          /\ call[Starter] = "none" =>
                /\ Clean /\ enabled
                /\ \A t \in Callers : call[t] \in {"none", "lock", "check", "return"}
    /\ pc[Starter] \in {"open", "spawn"} =>
          processing /\ starter = "none" /\ call[Starter] = "none"
    /\ starter # "none" => processing
    /\ pc[Starter] \in {"open", "spawn"} \/ starter = "run" =>
          mThreads = {} /\ toJoin = {} /\ \A w \in Workers : Idle(w)
    /\ pc[Starter] = "spawn" \/ starter = "run" => mSockets # {}

(* Every thread alive can be joined.                                       *)
ThreadsOK ==
    \A w \in Workers : ~Idle(w) => w \in toJoin \/ \E e \in mThreads : e[2] = w

(* m_threads is a map, and names each connection by its own descriptor.    *)
EntriesOK ==
    /\ \A e, f \in mThreads : e[1] = f[1] => e[2] = f[2]
    /\ \A e \in mThreads :
        /\ pc[e[2]] # "none"
        /\ e[2] \in Conns => e[1] = fd[e[2]] /\ e[1] \notin mSockets

(* A descriptor that was accepted is nobody else's.                        *)
DescriptorsOK ==
    /\ mSockets \subseteq used /\ Descriptors(mThreads) \subseteq used
    /\ pc[Listener] \in {"none", "accept", "spawn", "leave", "done"}
    /\ pc[Listener] = "spawn" =>
          /\ newFd \notin mSockets \cup Descriptors(mThreads)
          /\ newFd \in used

(* One connection owns the session, and without a registration the session *)
(* is on its way down.                                                     *)
OwnerOK ==
    ~mStop => /\ \A c, d \in Conns : attached[c] /\ attached[d] => c = d
              /\ ~registered /\ (\E c \in Conns : attached[c]) => ~enabled

BarrierInv ==
    /\ Inv
    /\ MutexOK /\ StopOK /\ StoppedOK /\ EnabledOK /\ StartOK
    /\ ThreadsOK /\ EntriesOK /\ DescriptorsOK /\ OwnerOK

-----------------------------------------------------------------------------
(* The steps, by thread.                                                   *)

ConnectionStep(c) ==
    FirstMessage(c) \/ NextMessage(c) \/ ReadFails(c) \/ ConnectionRuns(c)

StopStep(t) == CallStop(t) \/ StopRuns(t)

SendStep(a) == SendApp(a) \/ SendReturns(a)

AcceptorStep ==
    \/ StartThreadRuns \/ StartThreadEnds
    \/ Accept \/ Spawn \/ ListenerLeaves \/ ListenerEnds
    \/ CallStart \/ StartRuns \/ OpenListener \/ SpawnStartThread

LEMMA Steps ==
    ASSUME [Next]_vars
    PROVE  \/ AcceptorStep
           \/ \E c \in Conns : ConnectionStep(c)
           \/ \E t \in Callers : StopStep(t)
           \/ \E a \in Apps : SendStep(a)
           \/ UNCHANGED vars
  BY AcceptorAssumption
     DEF Next, Input, StartThread, ListenerRuns, StartContinues, ConnectionStep,
         StopStep, SendStep, AcceptorStep, Quiet, Stuck

(* The thread of a connection moves itself, and changes the lists only     *)
(* when it ends.                                                           *)
ConnectionFrame(c) ==
    /\ call[c] = "none" /\ pc[c] \notin {"none", "done"}
    /\ \E p \in Places \ {"none"} : pc' = [pc EXCEPT ![c] = p]
    /\ pc'[c] = "done" => Remove(c)
    /\ mThreads' = mThreads \/ Remove(c)
    /\ UNCHANGED <<runVars, mSockets, stopVars, enabled, fd, used, newFd, call,
                   starts, stops>>

LEMMA ConnectionMoves ==
    ASSUME Inv, NEW c \in Conns, ConnectionStep(c)
    PROVE  ConnectionFrame(c)
<1> USE DEF ConnectionFrame, Inv, TypeOK, At, Go, Callers, Places, runVars, listVars, stopVars,
    sesVars, connVars, fdVars
<1>1. CASE FirstMessage(c)
  BY <1>1 DEF FirstMessage
<1>2. CASE NextMessage(c)
  BY <1>2 DEF NextMessage
<1>3. CASE ReadFails(c)
  BY <1>3 DEF ReadFails
<1>4. CASE SetSession(c)
  BY <1>4 DEF SetSession
<1>5. CASE AcceptLogon(c)
  BY <1>5 DEF AcceptLogon
<1>6. CASE RefuseLogon(c)
  BY <1>6 DEF RefuseLogon
<1>7. CASE RegisterLogon(c)
  BY <1>7 DEF RegisterLogon
<1>8. CASE Unlocks(c)
  BY <1>8 DEF Unlocks
<1>9. CASE NextReturns(c)
  BY <1>9 DEF NextReturns
<1>10. CASE Drop(c)
  BY <1>10 DEF Drop
<1>11. CASE Close(c)
  BY <1>11 DEF Close
<1>12. CASE Delete(c)
  BY <1>12 DEF Delete
<1>13. CASE Unregister(c)
  BY <1>13 DEF Unregister
<1>14. CASE Remove(c)
  BY <1>14 DEF Remove, Ends
<1>15. QED
  BY <1>1, <1>2, <1>3, <1>4, <1>5, <1>6, <1>7, <1>8, <1>9, <1>10, <1>11, <1>12,
     <1>13, <1>14 DEF ConnectionStep, ConnectionRuns

(* stop() moves no thread and leaves connections and sessions' owners.     *)
StopFrame(t) ==
    /\ \E p \in CallPlaces : call' = [call EXCEPT ![t] = p]
    /\ UNCHANGED <<processing, starter, loggedOn, responder, busy, connVars, used,
                   newFd, pc, starts>>

LEMMA StopMoves ==
    ASSUME Inv, NEW t \in Callers, StopStep(t)
    PROVE  StopFrame(t)
<1> USE DEF StopFrame, Inv, TypeOK, Calls, CallPlaces, runVars, listVars, stopVars,
    sesVars, connVars, fdVars
<1>1. CASE CallStop(t)
  BY <1>1 DEF CallStop
<1>2. CASE LockStopCleanup(t)
  BY <1>2 DEF LockStopCleanup
<1>3. CASE CheckStopped(t)
  BY <1>3 DEF CheckStopped
<1>4. CASE LogoutSession(t)
  BY <1>4 DEF LogoutSession
<1>5. CASE MarkStopped(t)
  BY <1>5 DEF MarkStopped
<1>6. CASE Grab(t)
  BY <1>6 DEF Grab
<1>7. CASE CloseNext(t)
  BY <1>7 DEF CloseNext
<1>8. CASE Join(t)
  BY <1>8 DEF Join
<1>9. CASE Return(t)
  BY <1>9 DEF Return
<1>10. QED
  BY <1>1, <1>2, <1>3, <1>4, <1>5, <1>6, <1>7, <1>8, <1>9 DEF StopStep, StopRuns

(* A send moves the sender, and takes or gives back the session's mutex.   *)
SendFrame(a) ==
    /\ call[a] = "none" /\ busy' \in {a, None}
    /\ {pc[a], pc'[a]} \subseteq {"none", "toApp"}
    /\ pc' = [pc EXCEPT ![a] = pc'[a]]
    /\ UNCHANGED <<runVars, listVars, stopVars, enabled, registered, loggedOn,
                   responder, connVars, fdVars, call, starts, stops>>

LEMMA SendMoves ==
    ASSUME Inv, NEW a \in Apps, SendStep(a)
    PROVE  /\ SendFrame(a)
           /\ \A w \in Workers : pc'[w] = pc[w]
<1> USE AcceptorAssumption DEF SendFrame, Inv, TypeOK, At, Go, Callers, Workers
<1>1. CASE SendApp(a)
  BY <1>1 DEF SendApp
<1>2. CASE SendReturns(a)
  BY <1>2 DEF SendReturns
<1>3. QED
  BY <1>1, <1>2 DEF SendStep

(* It leaves alone what the invariant is about.                            *)
LEMMA SendInv ==
    ASSUME Inv, NEW a \in Apps, SendStep(a)
    PROVE  Inv'
<1>1. SendFrame(a) /\ \A w \in Workers : pc'[w] = pc[w]
  BY SendMoves
<1> USE <1>1, AcceptorAssumption
    DEF SendFrame, Inv, Workers, Callers, runVars, listVars, stopVars, connVars, fdVars
<1>2. TypeOK'
  <2>1. pc'[a] \in Places
    BY DEF Places
  <2>2. pc' \in [Callers \cup {Listener} -> Places]
    BY <2>1 DEF TypeOK
  <2>3. QED
    BY <2>2 DEF TypeOK
<1>3. AttachedOK' /\ ResponderOK' /\ RegistrationOwned'
  BY DEF AttachedOK, ResponderOK, RegistrationOwned, TypeOK
<1>4. CallbackOK' /\ SpawnOK'
  BY DEF CallbackOK, SpawnOK, InCallback
<1>5. QED
  BY <1>2, <1>3, <1>4

LEMMA SendBarrier ==
    ASSUME BarrierInv, NEW a \in Apps, SendStep(a)
    PROVE  BarrierInv'
<1>1. SendFrame(a) /\ \A w \in Workers : pc'[w] = pc[w]
  BY SendMoves DEF BarrierInv
<1> USE <1>1, AcceptorAssumption
    DEF SendFrame, BarrierInv, runVars, listVars, stopVars, connVars, fdVars
<1>2. MutexOK' /\ StopOK'
  BY DEF MutexOK, StopOK, Holding
<1>3. Clean <=> Clean'
  BY DEF Clean, Idle
<1>4. StoppedOK' /\ EnabledOK'
  BY <1>3 DEF StoppedOK, EnabledOK
<1>5. StartOK'
  <2>1. \A w \in Workers : Idle(w) <=> Idle(w)'
    BY DEF Idle
  <2>2. \A b \in Apps : b # a => pc'[b] = pc[b]
    BY DEF Inv, TypeOK, Callers
  <2>3. QED
    BY <1>3, <2>1, <2>2 DEF StartOK
<1>6. ThreadsOK' /\ DescriptorsOK' /\ OwnerOK'
  BY DEF ThreadsOK, DescriptorsOK, OwnerOK, Descriptors, Idle, Workers
<1>7. EntriesOK'
  <2>1. \A e \in mThreads : e[2] \in Workers
    BY DEF Inv, TypeOK
  <2>2. QED
    BY <2>1 DEF EntriesOK
<1>8. QED
  BY <1>2, <1>4, <1>5, <1>6, <1>7, SendInv

-----------------------------------------------------------------------------
(* Types.                                                                  *)

LEMMA AcceptorTypes == Inv /\ AcceptorStep => TypeOK'
<1> SUFFICES ASSUME Inv, AcceptorStep PROVE TypeOK'
  OBVIOUS
<1> USE AcceptorAssumption DEF Inv, TypeOK, At, Go, Calls, Callers, Workers, FDs,
    NoFd, Places, CallPlaces, Free, runVars, listVars, stopVars, sesVars,
    connVars, fdVars
<1>1. CASE StartThreadRuns
  BY <1>1 DEF StartThreadRuns
<1>2. CASE StartThreadEnds
  BY <1>2 DEF StartThreadEnds
<1>3. CASE Accept
  BY <1>3 DEF Accept, Take, Available
<1>4. CASE Spawn
  <2>1. CASE mStop
    <3>1. owner' = [owner EXCEPT ![newFd] = Free] /\ UNCHANGED <<fd, mThreads>>
      BY <1>4, <2>1 DEF Spawn
    <3>2. pc' = [pc EXCEPT ![Listener] = "leave"]
      BY <1>4, <2>1 DEF Spawn
    <3>3. owner' \in [FDs -> Workers \cup {Free, "accepted"}]
      BY <3>1
    <3>4. pc' \in [Callers \cup {Listener} -> Places]
      BY <3>2
    <3>5. QED
      BY <1>4, <3>1, <3>3, <3>4 DEF Spawn
  <2>2. CASE ~mStop
    <3> PICK c \in Conns : NewConnection(c)
      BY <1>4, <2>2 DEF Spawn
    <3>a. newFd \in FDs
      BY <1>4 DEF Spawn, SpawnOK
    <3>b. mThreads' = {e \in mThreads : e[1] # newFd} \cup {<<newFd, c>>}
      BY DEF NewConnection
    <3>1. mThreads' \subseteq FDs \X Workers
      BY <3>a, <3>b
    <3>2. owner' \in [FDs -> Workers \cup {Free, "accepted"}]
      BY DEF NewConnection
    <3>3. fd' \in [Conns -> FDs \cup {NoFd}]
      BY DEF NewConnection
    <3>4. pc' \in [Callers \cup {Listener} -> Places]
      BY DEF NewConnection
    <3>5. QED
      BY <1>4, <3>1, <3>2, <3>3, <3>4 DEF Spawn
  <2>3. QED
    BY <2>1, <2>2
<1>5. CASE ListenerLeaves
  BY <1>5 DEF ListenerLeaves
<1>6. CASE ListenerEnds
  BY <1>6 DEF ListenerEnds, Ends
<1>7. CASE CallStart
  BY <1>7 DEF CallStart
<1>8. CASE StartRuns
  BY <1>8 DEF StartRuns
<1>9. CASE OpenListener
  BY <1>9 DEF OpenListener, Take, Available
<1>10. CASE SpawnStartThread
  BY <1>10 DEF SpawnStartThread
<1>11. QED
  BY <1>1, <1>2, <1>3, <1>4, <1>5, <1>6, <1>7, <1>8, <1>9, <1>10
     DEF AcceptorStep

LEMMA DisconnectTypes ==
    ASSUME TypeOK, NEW c \in Conns, Disconnect(c)
    PROVE  /\ owner' \in [FDs -> Workers \cup {Free, "accepted"}]
           /\ disconnecting' \in [Conns -> BOOLEAN]
  BY DEF TypeOK, Disconnect

LEMMA ConnectionTypes ==
    ASSUME Inv, NEW c \in Conns, ConnectionStep(c)
    PROVE  TypeOK'
<1>a. pc' \in [Callers \cup {Listener} -> Places]
  BY ConnectionMoves DEF ConnectionFrame, Inv, TypeOK
<1>b. c \in Callers
  BY DEF Callers
<1> USE AcceptorAssumption DEF Inv, TypeOK, runVars, listVars, stopVars, sesVars,
    connVars, fdVars
<1>1. CASE ReadFails(c)
  BY <1>1, <1>a DEF ReadFails
<1>2. CASE FirstMessage(c)
  <2>1. tries' \in [Conns -> 0 .. Tries]
    <3>1. UNCHANGED tries \/ tries' = [tries EXCEPT ![c] = Tries]
      BY <1>2 DEF FirstMessage
    <3>2. Tries \in 0 .. Tries
      OBVIOUS
    <3>3. QED
      BY <3>1, <3>2
  <2>2. QED
    BY <1>2, <1>a, <2>1 DEF FirstMessage
<1>3. CASE SetSession(c)
  <2>1. tries' \in [Conns -> 0 .. Tries]
    BY <1>3 DEF SetSession
  <2>2. QED
    BY <1>3, <1>a, <2>1 DEF SetSession
<1>4. CASE AcceptLogon(c)
  BY <1>4, <1>a, <1>b DEF AcceptLogon
<1>5. CASE RefuseLogon(c)
  BY <1>5, <1>a DEF RefuseLogon, Disconnect
<1>6. CASE RegisterLogon(c)
  <2>1. /\ owner' \in [FDs -> Workers \cup {Free, "accepted"}]
        /\ disconnecting' \in [Conns -> BOOLEAN]
    <3>1. CASE Disconnect(c)
      BY <3>1, DisconnectTypes
    <3>2. CASE ~Disconnect(c)
      BY <1>6, <3>2 DEF RegisterLogon
    <3>3. QED
      BY <3>1, <3>2
  <2>2. attached' \in [Conns -> BOOLEAN]
    BY <1>6 DEF RegisterLogon
  <2>3. {registered', loggedOn'} \subseteq BOOLEAN
    BY <1>6 DEF RegisterLogon
  <2>4. responder' \in Conns \cup {None} /\ busy' \in Callers \cup {None}
    BY <1>6 DEF RegisterLogon
  <2>5. QED
    BY <1>6, <1>a, <2>1, <2>2, <2>3, <2>4 DEF RegisterLogon
<1>7. CASE NextMessage(c)
  BY <1>7, <1>a, <1>b DEF NextMessage
<1>8. CASE Unlocks(c)
  BY <1>8, <1>a DEF Unlocks
<1>9. CASE NextReturns(c)
  BY <1>9, <1>a DEF NextReturns
<1>10. CASE Drop(c)
  <2>1. /\ owner' \in [FDs -> Workers \cup {Free, "accepted"}]
        /\ disconnecting' \in [Conns -> BOOLEAN]
    <3>1. CASE responder = None
      BY <1>10, <3>1 DEF Drop, SessionDisconnect
    <3>2. CASE responder # None
      <4>1. responder \in Conns /\ Disconnect(responder)
        BY <1>10, <3>2 DEF Drop, SessionDisconnect
      <4>2. QED
        BY <4>1, DisconnectTypes
    <3>3. QED
      BY <3>1, <3>2
  <2>2. QED
    BY <1>10, <1>a, <1>b, <2>1 DEF Drop, SessionDisconnect
<1>11. CASE Close(c)
  BY <1>11, <1>a DEF Close, Disconnect
<1>12. CASE Delete(c)
  BY <1>12, <1>a DEF Delete
<1>13. CASE Unregister(c)
  BY <1>13, <1>a DEF Unregister
<1>14. CASE Remove(c)
  BY <1>14, <1>a DEF Remove, Ends
<1>15. QED
  BY <1>1, <1>2, <1>3, <1>4, <1>5, <1>6, <1>7, <1>8, <1>9, <1>10, <1>11,
     <1>12, <1>13, <1>14
     DEF ConnectionStep, ConnectionRuns

LEMMA StopTypes == ASSUME Inv, NEW t \in Callers, StopStep(t) PROVE TypeOK'
<1> USE AcceptorAssumption DEF Inv, TypeOK, At, Go, Calls, Callers, Workers, FDs,
    NoFd, Places, CallPlaces, Free, runVars, listVars, stopVars, sesVars,
    connVars, fdVars
<1>1. CASE CallStop(t)
  BY <1>1 DEF CallStop, InCallback
<1>2. CASE LockStopCleanup(t)
  BY <1>2 DEF LockStopCleanup
<1>3. CASE CheckStopped(t)
  BY <1>3 DEF CheckStopped
<1>4. CASE LogoutSession(t)
  BY <1>4 DEF LogoutSession
<1>5. CASE MarkStopped(t)
  BY <1>5 DEF MarkStopped
<1>6. CASE Grab(t)
  <2>1. toClose' \subseteq FDs
    <3>1. \A e \in mThreads : e[1] \in FDs
      OBVIOUS
    <3>2. Descriptors(mThreads) \subseteq FDs
      BY <3>1 DEF Descriptors
    <3>3. QED
      BY <1>6, <3>2 DEF Grab
  <2>2. toJoin' \subseteq Workers /\ mThreads' \subseteq FDs \X Workers
    BY <1>6 DEF Grab
  <2>3. mPending' \in BOOLEAN
    BY <1>6 DEF Grab
  <2>4. QED
    BY <1>6, <2>1, <2>2, <2>3 DEF Grab
<1>7. CASE CloseNext(t)
  BY <1>7 DEF CloseNext
<1>8. CASE Join(t)
  BY <1>8 DEF Join
<1>9. CASE Return(t)
  BY <1>9 DEF Return
<1>10. QED
  BY <1>1, <1>2, <1>3, <1>4, <1>5, <1>6, <1>7, <1>8, <1>9
     DEF StopStep, StopRuns

-----------------------------------------------------------------------------
(* The responder and the registration.                                     *)

(* The acceptor's own threads leave the session alone, and start at most   *)
(* the threads of new connections.                                         *)
AcceptorFrame ==
    /\ UNCHANGED <<sesVars, stopVars, tries, attached, disconnecting, stops>>
    /\ \A c \in Conns :
        /\ call'[c] = call[c]
        /\ pc'[c] = pc[c] \/ (pc[c] = "none" /\ pc'[c] = "read")

(* A new connection gets a thread that did not run before.                 *)
LEMMA FreshThread ==
    ASSUME Inv, Spawn, ~mStop
    PROVE  \E c \in Conns : NewConnection(c) /\ pc[c] = "none"
<1>1. PICK c \in Conns : NewConnection(c)
  BY DEF Spawn
<1>2. \E d \in Conns : pc[d] = "none"
  BY DEF Spawn, At, Inv, SpawnOK
<1>3. pc[c] = "none"
  BY <1>1, <1>2 DEF NewConnection
<1>4. QED
  BY <1>1, <1>3

LEMMA AcceptorMoves == ASSUME Inv, AcceptorStep PROVE AcceptorFrame
<1> USE AcceptorAssumption DEF AcceptorFrame, Inv, TypeOK, At, Go, Calls,
    Callers, runVars, listVars, stopVars, sesVars, connVars, fdVars
<1>1. CASE StartThreadRuns
  BY <1>1 DEF StartThreadRuns
<1>2. CASE StartThreadEnds
  BY <1>2 DEF StartThreadEnds
<1>3. CASE Accept
  BY <1>3 DEF Accept
<1>4. CASE Spawn
  <2>1. CASE mStop
    BY <1>4, <2>1 DEF Spawn
  <2>2. CASE ~mStop
    <3>1. PICK c \in Conns : NewConnection(c) /\ pc[c] = "none"
      BY <1>4, <2>2, FreshThread
    <3>2. pc' = [pc EXCEPT ![c] = "read", ![Listener] = "accept"]
      BY <3>1 DEF NewConnection
    <3>3. QED
      BY <1>4, <3>1, <3>2 DEF Spawn
  <2>3. QED
    BY <2>1, <2>2
<1>5. CASE ListenerLeaves
  BY <1>5 DEF ListenerLeaves
<1>6. CASE ListenerEnds
  BY <1>6 DEF ListenerEnds, Ends
<1>7. CASE CallStart
  BY <1>7 DEF CallStart
<1>8. CASE StartRuns
  BY <1>8 DEF StartRuns
<1>9. CASE OpenListener
  BY <1>9 DEF OpenListener
<1>10. CASE SpawnStartThread
  BY <1>10 DEF SpawnStartThread
<1>11. QED
  BY <1>1, <1>2, <1>3, <1>4, <1>5, <1>6, <1>7, <1>8, <1>9, <1>10 DEF AcceptorStep

(* What the ownership of the session rests on.                             *)
OwnershipOK == AttachedOK /\ ResponderOK /\ RegistrationOwned

LEMMA AcceptorOwnership == ASSUME Inv, AcceptorStep PROVE OwnershipOK'
<1>1. AcceptorFrame
  BY AcceptorMoves
<1> USE <1>1 DEF AcceptorFrame, Inv, TypeOK, sesVars
<1>2. AttachedOK'
  BY DEF AttachedOK, AttachedPlaces
<1>3. ResponderOK'
  BY DEF ResponderOK
<1>4. RegistrationOwned'
  BY DEF RegistrationOwned
<1>5. QED
  BY <1>2, <1>3, <1>4 DEF OwnershipOK

LEMMA StopOwnership ==
    ASSUME Inv, NEW t \in Callers, StopStep(t)
    PROVE  OwnershipOK'
<1>1. StopFrame(t)
  BY StopMoves
<1>2. registered' => registered
  <2> USE DEF runVars, listVars, stopVars, sesVars, connVars, fdVars, Inv, TypeOK
  <2>1. CASE CallStop(t)
    BY <2>1 DEF CallStop, InCallback
  <2>2. CASE LockStopCleanup(t)
    BY <2>2 DEF LockStopCleanup
  <2>3. CASE CheckStopped(t)
    BY <2>3 DEF CheckStopped
  <2>4. CASE LogoutSession(t)
    BY <2>4 DEF LogoutSession
  <2>5. CASE MarkStopped(t)
    BY <2>5 DEF MarkStopped
  <2>6. CASE Grab(t)
    BY <2>6 DEF Grab, Descriptors
  <2>7. CASE CloseNext(t)
    BY <2>7 DEF CloseNext
  <2>8. CASE Join(t)
    BY <2>8 DEF Join
  <2>9. CASE Return(t)
    BY <2>9 DEF Return
  <2>10. QED
    BY <2>1, <2>2, <2>3, <2>4, <2>5, <2>6, <2>7, <2>8, <2>9
       DEF StopStep, StopRuns
<1> USE <1>1, <1>2 DEF StopFrame, Inv, connVars
<1>3. AttachedOK'
  BY DEF AttachedOK
<1>4. ResponderOK'
  BY DEF ResponderOK
<1>5. RegistrationOwned'
  BY DEF RegistrationOwned
<1>6. QED
  BY <1>3, <1>4, <1>5 DEF OwnershipOK

(* What a connection is attached by, and let go by.                        *)
LEMMA ConnectionOwnership ==
    ASSUME Inv, NEW c \in Conns, ConnectionStep(c)
    PROVE  OwnershipOK'
<1> USE AcceptorAssumption DEF OwnershipOK, Inv, TypeOK, AttachedOK, AttachedPlaces,
    ResponderOK, RegistrationOwned, At, Go, Callers, runVars, listVars,
    stopVars, sesVars, connVars, fdVars
<1>1. CASE ReadFails(c)
  BY <1>1 DEF ReadFails
<1>2. CASE FirstMessage(c)
  BY <1>2 DEF FirstMessage
<1>3. CASE SetSession(c)
  BY <1>3 DEF SetSession
<1>4. CASE AcceptLogon(c)
  BY <1>4 DEF AcceptLogon
<1>5. CASE RefuseLogon(c)
  BY <1>5 DEF RefuseLogon, Disconnect
<1>6. CASE RegisterLogon(c)
  BY <1>6 DEF RegisterLogon, Disconnect
<1>7. CASE NextMessage(c)
  BY <1>7 DEF NextMessage
<1>8. CASE Unlocks(c)
  BY <1>8 DEF Unlocks
<1>9. CASE NextReturns(c)
  BY <1>9 DEF NextReturns
<1>10. CASE Drop(c)
  BY <1>10 DEF Drop, Disconnect, SessionDisconnect
<1>11. CASE Close(c)
  BY <1>11 DEF Close, Disconnect
<1>12. CASE Delete(c)
  BY <1>12 DEF Delete
<1>13. CASE Unregister(c)
  BY <1>13 DEF Unregister
<1>14. CASE Remove(c)
  BY <1>14 DEF Remove, Ends
<1>15. QED
  BY <1>1, <1>2, <1>3, <1>4, <1>5, <1>6, <1>7, <1>8, <1>9, <1>10, <1>11,
     <1>12, <1>13, <1>14
     DEF ConnectionStep, ConnectionRuns

-----------------------------------------------------------------------------
(* Callbacks and new threads.                                              *)

LEMMA CallbackStep == ASSUME Inv, [Next]_vars PROVE CallbackOK'
<1> USE AcceptorAssumption DEF CallbackOK, InCallback, Inv, TypeOK, Callers
<1>1. CASE AcceptorStep
  BY <1>1, AcceptorMoves DEF AcceptorFrame
<1>2. ASSUME NEW c \in Conns, ConnectionStep(c)
      PROVE  CallbackOK'
  BY <1>2, ConnectionMoves DEF ConnectionFrame
<1>3. ASSUME NEW t \in Callers, StopStep(t)
      PROVE  CallbackOK'
  <2>1. StopFrame(t)
    BY <1>3, StopMoves
  <2>2. t \in Conns /\ call[t] = "none" => InCallback(t)
    BY <1>3 DEF StopStep, StopRuns, CallStop, LockStopCleanup, CheckStopped,
                LogoutSession, MarkStopped, Grab, CloseNext, Join, Return
  <2>3. QED
    BY <2>1, <2>2 DEF StopFrame
<1>4. CASE UNCHANGED vars
  BY <1>4 DEF vars
<1>5. ASSUME NEW a \in Apps, SendStep(a)
      PROVE  CallbackOK'
  BY <1>5, SendInv
<1>6. QED
  BY <1>1, <1>2, <1>3, <1>4, <1>5, Steps

LEMMA AcceptorSpawn == ASSUME Inv, AcceptorStep PROVE SpawnOK'
<1> USE AcceptorAssumption DEF Inv, TypeOK, SpawnOK, At, Go, Callers, runVars,
    listVars, stopVars, sesVars, connVars, fdVars
<1>1. CASE StartThreadRuns
  BY <1>1 DEF StartThreadRuns
<1>2. CASE StartThreadEnds
  BY <1>2 DEF StartThreadEnds
<1>3. CASE Accept
  BY <1>3 DEF Accept, Take, Available
<1>4. CASE Spawn
  <2>1. pc'[Listener] # "spawn"
    <3>1. CASE mStop
      BY <1>4, <3>1 DEF Spawn
    <3>2. CASE ~mStop
      BY <1>4, <3>2, FreshThread DEF NewConnection
    <3>3. QED
      BY <3>1, <3>2
  <2>2. QED
    BY <2>1
<1>5. CASE ListenerLeaves
  BY <1>5 DEF ListenerLeaves
<1>6. CASE ListenerEnds
  BY <1>6 DEF ListenerEnds, Ends
<1>7. CASE CallStart
  BY <1>7 DEF CallStart
<1>8. CASE StartRuns
  BY <1>8 DEF StartRuns
<1>9. CASE OpenListener
  BY <1>9 DEF OpenListener, Take, Available
<1>10. CASE SpawnStartThread
  BY <1>10 DEF SpawnStartThread
<1>11. QED
  BY <1>1, <1>2, <1>3, <1>4, <1>5, <1>6, <1>7, <1>8, <1>9, <1>10
     DEF AcceptorStep

LEMMA SpawnStep == ASSUME Inv, [Next]_vars PROVE SpawnOK'
<1> USE AcceptorAssumption DEF SpawnOK, Inv, TypeOK, Callers
<1>1. ASSUME NEW c \in Conns, ConnectionStep(c)
      PROVE  SpawnOK'
  BY <1>1, ConnectionMoves DEF ConnectionFrame
<1>2. ASSUME NEW t \in Callers, StopStep(t)
      PROVE  SpawnOK'
  BY <1>2, StopMoves DEF StopFrame
<1>3. CASE UNCHANGED vars
  BY <1>3 DEF vars, fdVars
<1>4. ASSUME NEW a \in Apps, SendStep(a)
      PROVE  SpawnOK'
  BY <1>4, SendInv
<1>5. QED
  BY <1>1, <1>2, <1>3, <1>4, AcceptorSpawn, Steps

(* The invariant holds at first and after every step.                      *)
LEMMA InitInv == Init => Inv
<1> SUFFICES ASSUME Init PROVE Inv
  OBVIOUS
<1> USE AcceptorAssumption DEF Init
<1>1. TypeOK
  <2>1. /\ tries \in [Conns -> 0 .. Tries]
        /\ starts \in 0 .. MaxStarts /\ stops \in 0 .. MaxStops
    OBVIOUS
  <2>2. /\ pc \in [Callers \cup {Listener} -> Places]
        /\ call \in [Callers -> CallPlaces]
    BY DEF Places, CallPlaces
  <2>3. /\ fd \in [Conns -> FDs \cup {NoFd}]
        /\ owner \in [FDs -> Workers \cup {Free, "accepted"}]
    BY DEF Free
  <2>4. QED
    BY <2>1, <2>2, <2>3 DEF TypeOK
<1>2. AttachedOK /\ ResponderOK /\ RegistrationOwned
  BY DEF AttachedOK, ResponderOK, RegistrationOwned, Callers
<1>3. CallbackOK /\ SpawnOK
  BY DEF CallbackOK, SpawnOK, Callers
<1>4. QED
  BY <1>1, <1>2, <1>3 DEF Inv

LEMMA StutterInv == ASSUME Inv, UNCHANGED vars PROVE Inv'
<1> USE DEF vars, runVars, listVars, stopVars, sesVars, connVars, fdVars, Inv
<1>1. TypeOK'
  BY DEF TypeOK
<1>2. AttachedOK' /\ ResponderOK' /\ RegistrationOwned'
  BY DEF AttachedOK, ResponderOK, RegistrationOwned, Callers
<1>3. CallbackOK' /\ SpawnOK'
  BY DEF CallbackOK, SpawnOK, InCallback
<1>4. QED
  BY <1>1, <1>2, <1>3

LEMMA NextInv == Inv /\ [Next]_vars => Inv'
<1> SUFFICES ASSUME Inv, [Next]_vars PROVE Inv'
  OBVIOUS
<1>1. CallbackOK' /\ SpawnOK'
  BY CallbackStep, SpawnStep
<1>2. CASE AcceptorStep
  BY <1>1, <1>2, AcceptorTypes, AcceptorOwnership DEF Inv, OwnershipOK
<1>3. ASSUME NEW c \in Conns, ConnectionStep(c)
      PROVE  Inv'
  BY <1>1, <1>3, ConnectionTypes, ConnectionOwnership DEF Inv, OwnershipOK
<1>4. ASSUME NEW t \in Callers, StopStep(t)
      PROVE  Inv'
  BY <1>1, <1>4, StopTypes, StopOwnership DEF Inv, OwnershipOK
<1>5. QED
  BY <1>2, <1>3, <1>4, SendInv, StutterInv, Steps

(* The invariant of all behaviours, with or without reused descriptors.    *)
THEOREM AcceptorInv == Spec => []Inv
  BY InitInv, NextInv, PTL DEF Spec

(* Every variable of the acceptor keeps its type, for any number of        *)
(* threads and calls.                                                      *)
THEOREM ThreadsTypeCorrect == Spec => []TypeOK
<1>1. Inv => TypeOK
  BY DEF Inv
<1>2. QED
  BY <1>1, AcceptorInv, PTL

(* Session::send and Session::disconnect never use a deleted connection:   *)
(* the responder is cleared under the session's mutex before the           *)
(* connection is deleted, whoever stops the acceptor meanwhile.            *)
THEOREM ResponderSafe == Spec => []ResponderAlive
<1>1. Inv => ResponderAlive
  BY DEF Inv, ResponderOK, AttachedOK, AttachedPlaces, ResponderAlive, TypeOK
<1>2. QED
  BY <1>1, AcceptorInv, PTL

(* A session stays registered only while a connection that will unregister *)
(* it exists, so that no crash of a peer can lock the session for ever.    *)
THEOREM RegistrationSafe == Spec => []RegistrationOwned
<1>1. Inv => RegistrationOwned
  BY DEF Inv
<1>2. QED
  BY <1>1, AcceptorInv, PTL


-----------------------------------------------------------------------------
(* m_stopCleanupMutex, and what stop() and start() have reached.           *)

Barrier == BarrierInv /\ ~Reuse

LEMMA MutexStep == ASSUME Barrier, [Next]_vars PROVE MutexOK'
<1> USE AcceptorAssumption DEF Barrier, BarrierInv, Inv, TypeOK, MutexOK, Holding, Callers
<1>1. CASE AcceptorStep
  <2>1. UNCHANGED cleanup
    BY <1>1, AcceptorMoves DEF AcceptorFrame, stopVars
  <2>2. UNCHANGED call \/ CallStart
    BY <1>1 DEF AcceptorStep, StartThreadRuns, StartThreadEnds, Accept, Spawn,
                ListenerLeaves, ListenerEnds, Ends, StartRuns, OpenListener,
                SpawnStartThread
  <2>3. QED
    BY <2>1, <2>2 DEF CallStart, At, Calls
<1>2. ASSUME NEW c \in Conns, ConnectionStep(c)
      PROVE  MutexOK'
  BY <1>2, ConnectionMoves DEF ConnectionFrame, stopVars
<1>3. ASSUME NEW t \in Callers, StopStep(t)
      PROVE  MutexOK'
  <2> USE DEF Calls, stopVars
  <2>1. CASE CallStop(t)
    BY <1>3, <2>1 DEF CallStop
  <2>2. CASE LockStopCleanup(t)
    BY <1>3, <2>2 DEF LockStopCleanup
  <2>3. CASE CheckStopped(t)
    BY <1>3, <2>3 DEF CheckStopped
  <2>4. CASE LogoutSession(t)
    BY <1>3, <2>4 DEF LogoutSession
  <2>5. CASE MarkStopped(t)
    BY <1>3, <2>5 DEF MarkStopped
  <2>6. CASE Grab(t)
    BY <1>3, <2>6 DEF Grab
  <2>7. CASE CloseNext(t)
    BY <1>3, <2>7 DEF CloseNext
  <2>8. CASE Join(t)
    BY <1>3, <2>8 DEF Join
  <2>9. CASE Return(t)
    BY <1>3, <2>9 DEF Return
  <2>10. QED
    BY <1>3, <2>1, <2>2, <2>3, <2>4, <2>5, <2>6, <2>7, <2>8, <2>9
      DEF StopStep, StopRuns
<1>4. CASE UNCHANGED vars
  BY <1>4 DEF vars, stopVars
<1>5. ASSUME NEW a \in Apps, SendStep(a)
      PROVE  MutexOK'
  BY <1>5, SendBarrier
<1>6. QED
  BY <1>1, <1>2, <1>3, <1>4, <1>5, Steps


(* Facts about one thread inside stop() or start().                        *)

LEMMA Alone ==
    ASSUME Barrier, NEW t \in Callers, Holding(t), NEW u \in Callers, u # t
    PROVE  cleanup = t /\ call[u] \in {"none", "lock"}
  BY DEF Barrier, BarrierInv, Inv, TypeOK, MutexOK, Holding, CallPlaces

(* A connection that calls stop() is alive.                                *)
LEMMA CallerAlive ==
    ASSUME Inv, NEW t \in Conns, call[t] # "none"
    PROVE  ~Idle(t) /\ pc[t] \notin {"start", "open", "spawn"}
  BY DEF Inv, CallbackOK, InCallback, Idle

(* Only a stopped acceptor takes the short way, and no worker finds it     *)
(* stopped without a cleanup pending.                                      *)
LEMMA ShortWay ==
    ASSUME Barrier, NEW t \in Callers, CheckStopped(t)
    PROVE  /\ cleanup = t /\ mStop /\ enabled
           /\ t \in Conns => mPending
           /\ ~mPending => Clean /\ ~processing
<1> USE AcceptorAssumption DEF Barrier, BarrierInv
<1>1. call[t] = "check" /\ cleanup = t /\ cleanup # None
  BY DEF CheckStopped, MutexOK, Holding, Callers
<1>2. mStop
  <2>1. CASE t \in Conns
    BY <1>1, <2>1, CallerAlive DEF CheckStopped
  <2>2. CASE t \in Apps
    BY <2>2 DEF CheckStopped, StartOK
  <2>3. QED
    BY <2>1, <2>2 DEF Callers
<1>3. enabled
  BY <1>1 DEF EnabledOK
<1>4. ~mPending => Clean /\ ~processing
  BY <1>1, <1>2 DEF StoppedOK
<1>5. t \in Conns => mPending
  BY <1>1, <1>4, CallerAlive DEF Clean, Workers
<1>6. QED
  BY <1>1, <1>2, <1>3, <1>4, <1>5

(* onStop() knows a worker by its entry in m_threads.                      *)
LEMMA GrabCaller ==
    ASSUME Barrier, NEW t \in Callers, call[t] = "grab"
    PROVE  /\ cleanup = t /\ mStop /\ ~mPending /\ toJoin = {}
           /\ t \in Conns <=> \E e \in mThreads : e[2] = t
<1> USE AcceptorAssumption DEF Barrier, BarrierInv
<1>1. cleanup = t
  BY DEF MutexOK, Holding
<1>2. mStop /\ ~mPending /\ toJoin = {}
  BY <1>1 DEF StopOK
<1>3. ASSUME t \in Conns PROVE \E e \in mThreads : e[2] = t
  BY <1>2, <1>3, CallerAlive DEF ThreadsOK, Workers
<1>4. ASSUME NEW e \in mThreads, e[2] = t PROVE t \in Conns
  BY <1>4 DEF Inv, TypeOK, Workers, Callers
<1>5. QED
  BY <1>1, <1>2, <1>3, <1>4

LEMMA AcceptorCalls ==
    ASSUME AcceptorStep
    PROVE  UNCHANGED call \/ CallStart
  BY DEF AcceptorStep, StartThreadRuns, StartThreadEnds, Accept, Spawn,
         ListenerLeaves, ListenerEnds, Ends, StartRuns, OpenListener,
         SpawnStartThread
-----------------------------------------------------------------------------
LEMMA AcceptorStopOK == ASSUME Barrier, AcceptorStep PROVE StopOK'
<1> USE AcceptorAssumption DEF Barrier, BarrierInv, Inv, TypeOK, StopOK, At, Go,
    Calls, Callers, runVars, listVars, stopVars, sesVars,
    connVars, fdVars
<1>1. CASE StartThreadRuns
  BY <1>1 DEF StartThreadRuns, StartOK
<1>2. CASE StartThreadEnds
  BY <1>2 DEF StartThreadEnds
<1>3. CASE Accept
  <2>1. UNCHANGED <<runVars, listVars, stopVars, call>>
    BY <1>3 DEF Accept
  <2>2. QED
    BY <2>1
<1>4. CASE Spawn
  <2>1. UNCHANGED <<runVars, mSockets, stopVars, call>>
    BY <1>4 DEF Spawn
  <2>2. mStop => UNCHANGED mThreads
    BY <1>4 DEF Spawn
  <2>3. QED
    BY <2>1, <2>2
<1>5. CASE ListenerLeaves
  BY <1>5 DEF ListenerLeaves
<1>6. CASE ListenerEnds
  BY <1>6 DEF ListenerEnds, Ends
<1>7. CASE CallStart
  BY <1>7 DEF CallStart
<1>8. CASE StartRuns
  <2>1. /\ Clean
        /\ \A t \in Callers : call[t] \in {"none", "lock", "check", "return"}
    BY <1>8 DEF StartRuns, StartOK
  <2>2. QED
    BY <1>8, <2>1 DEF StartRuns, Clean
<1>9. CASE OpenListener
  <2>1. processing
    BY <1>9 DEF OpenListener, StartOK
  <2>2. UNCHANGED <<runVars, mThreads, stopVars, call>>
    BY <1>9 DEF OpenListener
  <2>3. QED
    BY <2>1, <2>2
<1>10. CASE SpawnStartThread
  BY <1>10 DEF SpawnStartThread
<1>11. QED
  BY <1>1, <1>2, <1>3, <1>4, <1>5, <1>6, <1>7, <1>8, <1>9, <1>10
     DEF AcceptorStep

LEMMA ConnectionStopOK ==
    ASSUME Barrier, NEW c \in Conns, ConnectionStep(c)
    PROVE  StopOK'
<1>1. ConnectionFrame(c)
  BY ConnectionMoves DEF Barrier, BarrierInv
<1>2. mStop => UNCHANGED mThreads
  BY <1>1 DEF ConnectionFrame, Remove, Ends
<1>3. UNCHANGED <<runVars, mSockets, stopVars, call>>
  BY <1>1 DEF ConnectionFrame
<1>4. QED
  BY <1>2, <1>3 DEF Barrier, BarrierInv, StopOK, runVars, stopVars

LEMMA StopStopOK ==
    ASSUME Barrier, NEW t \in Callers, StopStep(t)
    PROVE  StopOK'
<1> USE AcceptorAssumption DEF Barrier, BarrierInv, Inv, TypeOK, StopOK, Calls, Callers,
    runVars, listVars, stopVars
<1>a. \A u \in Callers : Holding(t) /\ u # t => call[u] \in {"none", "lock"}
  BY Alone
<1>b. Holding(t) => cleanup = t
  BY DEF MutexOK
<1>c. Apps \cap Conns = {} /\ None \notin Callers
  OBVIOUS
<1>1. CASE CallStop(t)
  BY <1>1 DEF CallStop, MutexOK, Holding
<1>2. CASE LockStopCleanup(t)
  BY <1>2 DEF LockStopCleanup, MutexOK, Holding
<1>3. CASE CheckStopped(t)
  <2>1. mStop /\ cleanup = t /\ (t \in Conns => mPending)
    BY <1>3, ShortWay
  <2>2. QED
    BY <1>3, <2>1, <1>a DEF CheckStopped, Holding
<1>4. CASE LogoutSession(t)
  BY <1>4, <1>a, <1>b DEF LogoutSession, Holding
<1>5. CASE MarkStopped(t)
  BY <1>5, <1>a, <1>b DEF MarkStopped, Holding
<1>6. CASE Grab(t)
  <2>1. /\ cleanup = t /\ mStop /\ ~mPending /\ toJoin = {}
        /\ t \in Conns <=> \E e \in mThreads : e[2] = t
    BY <1>6, GrabCaller DEF Grab
  <2>2. CASE t \in Conns
    <3>1. mPending' /\ toJoin' = {} /\ UNCHANGED <<mStop, processing, cleanup>>
      BY <1>6, <2>1, <2>2 DEF Grab
    <3>2. call' = [call EXCEPT ![t] = "close"] /\ call[t] = "grab"
      BY <1>6 DEF Grab
    <3>3. t \notin Apps /\ \A u \in Callers : u # t => call'[u] \in {"none", "lock"}
      BY <1>a, <1>c, <2>2, <3>2 DEF Holding
    <3>4. QED
      BY <2>1, <3>1, <3>2, <3>3
  <2>3. CASE t \in Apps
    BY <1>6, <2>1, <2>3, <1>a DEF Grab, Holding
  <2>4. QED
    BY <2>2, <2>3
<1>7. CASE CloseNext(t)
  BY <1>7, <1>a, <1>b DEF CloseNext, Holding
<1>8. CASE Join(t)
  BY <1>8, <1>a, <1>b DEF Join, Holding
<1>9. CASE Return(t)
  BY <1>9, <1>a, <1>b DEF Return, Holding
<1>10. QED
  BY <1>1, <1>2, <1>3, <1>4, <1>5, <1>6, <1>7, <1>8, <1>9
     DEF StopStep, StopRuns


-----------------------------------------------------------------------------
(* A stopped acceptor is clean.                                            *)

LEMMA AcceptorStoppedOK == ASSUME Barrier, AcceptorStep PROVE StoppedOK'
<1> USE AcceptorAssumption DEF Barrier, BarrierInv, Inv, TypeOK, StoppedOK, Clean, Idle, At,
    Go, Calls, Callers, Workers, runVars, listVars, stopVars, connVars, fdVars
<1>1. CASE StartThreadRuns
  BY <1>1 DEF StartThreadRuns
<1>2. CASE StartThreadEnds
  BY <1>2 DEF StartThreadEnds
<1>3. CASE Accept
  BY <1>3 DEF Accept
<1>4. CASE Spawn
  BY <1>4 DEF Spawn
<1>5. CASE ListenerLeaves
  BY <1>5 DEF ListenerLeaves
<1>6. CASE ListenerEnds
  BY <1>6 DEF ListenerEnds, Ends
<1>7. CASE CallStart
  <2>1. cleanup # Starter
    BY <1>7 DEF CallStart, MutexOK, Holding
  <2>2. QED
    BY <1>7, <2>1 DEF CallStart
<1>8. CASE StartRuns
  BY <1>8 DEF StartRuns
<1>9. CASE OpenListener
  <2>1. processing /\ Starter \notin Workers
    BY <1>9 DEF OpenListener, StartOK
  <2>2. UNCHANGED <<runVars, stopVars, call>>
    BY <1>9 DEF OpenListener
  <2>3. QED
    BY <2>1, <2>2
<1>10. CASE SpawnStartThread
  BY <1>10 DEF SpawnStartThread
<1>11. QED
  BY <1>1, <1>2, <1>3, <1>4, <1>5, <1>6, <1>7, <1>8, <1>9, <1>10
     DEF AcceptorStep

LEMMA ConnectionStoppedOK ==
    ASSUME Barrier, NEW c \in Conns, ConnectionStep(c)
    PROVE  StoppedOK'
  BY ConnectionMoves DEF Barrier, BarrierInv, StoppedOK, Clean, Idle, Workers, ConnectionFrame,
                         runVars, stopVars

LEMMA StopStoppedOK ==
    ASSUME Barrier, NEW t \in Callers, StopStep(t)
    PROVE  StoppedOK'
<1> USE AcceptorAssumption DEF Barrier, BarrierInv, Inv, TypeOK, StoppedOK, Clean, Idle,
    Calls, runVars, listVars, stopVars
<1>a. None \notin Callers /\ (Holding(t) <=> cleanup = t)
  BY DEF Callers, MutexOK
<1>1. CASE CallStop(t)
  BY <1>1, <1>a DEF CallStop, Holding
<1>2. CASE LockStopCleanup(t)
  BY <1>2, <1>a DEF LockStopCleanup, Holding
<1>3. CASE CheckStopped(t)
  <2>1. /\ cleanup = t /\ mStop
        /\ ~mPending => Clean /\ ~processing
    BY <1>3, ShortWay
  <2>2. CASE mPending
    BY <1>3, <1>a, <2>1, <2>2 DEF CheckStopped
  <2>3. CASE ~mPending
    BY <1>3, <2>1, <2>3 DEF CheckStopped
  <2>4. QED
    BY <2>2, <2>3
<1>4. CASE LogoutSession(t)
  BY <1>4, <1>a DEF LogoutSession, Holding
<1>5. CASE MarkStopped(t)
  BY <1>5, <1>a DEF MarkStopped, Holding
<1>6. CASE Grab(t)
  BY <1>6, <1>a DEF Grab, Holding
<1>7. CASE CloseNext(t)
  BY <1>7, <1>a DEF CloseNext, Holding
<1>8. CASE Join(t)
  <2>1. CASE t \in Conns
    BY <1>8, <2>1, <1>a DEF Join, StopOK, Holding
  <2>2. CASE t \in Apps
    <3>1. ~mPending /\ ~processing /\ mThreads = {} /\ mSockets = {}
      BY <1>8, <2>2 DEF Join, StopOK
    <3>2. \A w \in Workers : Idle(w)
      BY <1>8, <3>1 DEF Join, ThreadsOK
    <3>3. QED
      BY <1>8, <3>1, <3>2 DEF Join
  <2>3. QED
    BY <2>1, <2>2 DEF Callers
<1>9. CASE Return(t)
  BY <1>9, <1>a DEF Return, Holding
<1>10. QED
  BY <1>1, <1>2, <1>3, <1>4, <1>5, <1>6, <1>7, <1>8, <1>9
     DEF StopStep, StopRuns

(* The session is enabled again by whoever disabled it.                    *)

LEMMA AcceptorEnabledOK == ASSUME Barrier, AcceptorStep PROVE EnabledOK'
<1> USE DEF Barrier, BarrierInv, EnabledOK
<1>1. UNCHANGED <<enabled, wasEnabled, cleanup>>
  BY AcceptorMoves DEF AcceptorFrame, sesVars, stopVars
<1>2. CASE CallStart
  BY <1>1, <1>2, AcceptorAssumption
     DEF CallStart, At, Calls, MutexOK, Holding, runVars, Callers, Inv, TypeOK
<1>3. CASE StartRuns
  BY <1>1, <1>3, AcceptorAssumption DEF StartRuns, At, StartOK, Callers
<1>4. CASE ~CallStart /\ ~StartRuns
  <2>1. UNCHANGED <<mStop, call>>
    BY <1>4 DEF AcceptorStep, StartThreadRuns, StartThreadEnds, Accept, Spawn,
                ListenerLeaves, ListenerEnds, Ends, OpenListener,
                SpawnStartThread, runVars
  <2>2. QED
    BY <1>1, <2>1
<1>5. QED
  BY <1>2, <1>3, <1>4

LEMMA ConnectionEnabledOK ==
    ASSUME Barrier, NEW c \in Conns, ConnectionStep(c)
    PROVE  EnabledOK'
  BY ConnectionMoves
     DEF Barrier, BarrierInv, EnabledOK, ConnectionFrame, runVars, stopVars

LEMMA StopEnabledOK ==
    ASSUME Barrier, NEW t \in Callers, StopStep(t)
    PROVE  EnabledOK'
<1> USE AcceptorAssumption DEF Barrier, BarrierInv, Inv, TypeOK, EnabledOK, Calls,
    runVars, stopVars, sesVars
<1>a. None \notin Callers /\ (Holding(t) <=> cleanup = t)
  BY DEF Callers, MutexOK
<1>1. CASE CallStop(t)
  BY <1>1, <1>a DEF CallStop, Holding
<1>2. CASE LockStopCleanup(t)
  BY <1>2, <1>a DEF LockStopCleanup, Holding
<1>3. CASE CheckStopped(t)
  BY <1>3, ShortWay DEF CheckStopped
<1>4. CASE LogoutSession(t)
  BY <1>4, <1>a DEF LogoutSession, Holding
<1>5. CASE MarkStopped(t)
  BY <1>5, <1>a DEF MarkStopped, Holding
<1>6. CASE Grab(t)
  BY <1>6, <1>a DEF Grab, Holding
<1>7. CASE CloseNext(t)
  BY <1>7, <1>a DEF CloseNext, Holding
<1>8. CASE Join(t)
  BY <1>8, <1>a DEF Join, Holding
<1>9. CASE Return(t)
  BY <1>9, <1>a DEF Return, Holding
<1>10. QED
  BY <1>1, <1>2, <1>3, <1>4, <1>5, <1>6, <1>7, <1>8, <1>9
     DEF StopStep, StopRuns


-----------------------------------------------------------------------------
(* start() begins on a clean acceptor.                                     *)

LEMMA AcceptorStartOK == ASSUME Barrier, AcceptorStep PROVE StartOK'
<1> USE AcceptorAssumption DEF Barrier, BarrierInv, Inv, TypeOK, StartOK, At,
    Go, Calls, Callers, Workers, runVars, listVars, stopVars, sesVars,
    connVars, fdVars
<1>a. Starter \in Callers /\ Starter \notin Workers /\ Apps \cap Workers = {}
  OBVIOUS
<1>1. CASE StartThreadRuns
  BY <1>1 DEF StartThreadRuns
<1>2. CASE StartThreadEnds
  BY <1>2 DEF StartThreadEnds
<1>3. CASE Accept
  <2>1. Listener \in Workers /\ ~Idle(Listener)
    BY <1>3 DEF Accept, Idle
  <2>2. ~(pc[Starter] \in {"open", "spawn"} \/ starter = "run") /\ ~Clean
    BY <2>1 DEF Clean
  <2>3. /\ UNCHANGED <<runVars, stopVars, call, mSockets>>
        /\ \A a \in Apps : pc'[a] = pc[a]
    BY <1>3, <1>a DEF Accept
  <2>4. QED
    BY <2>2, <2>3
<1>4. CASE Spawn
  <2>1. Listener \in Workers /\ ~Idle(Listener)
    BY <1>4 DEF Spawn, Idle
  <2>2. ~(pc[Starter] \in {"open", "spawn"} \/ starter = "run") /\ ~Clean
    BY <2>1 DEF Clean
  <2>3. UNCHANGED <<runVars, stopVars, call, mSockets>>
    BY <1>4 DEF Spawn
  <2>4. \A a \in Apps : pc'[a] = pc[a]
    <3>1. CASE mStop
      BY <1>4, <3>1, <1>a DEF Spawn
    <3>2. CASE ~mStop
      BY <1>4, <3>2, <1>a, FreshThread DEF NewConnection
    <3>3. QED
      BY <3>1, <3>2
  <2>5. QED
    BY <2>2, <2>3, <2>4
<1>5. CASE ListenerLeaves
  <2>1. Listener \in Workers /\ ~Idle(Listener)
    BY <1>5 DEF ListenerLeaves, Idle
  <2>2. ~(pc[Starter] \in {"open", "spawn"} \/ starter = "run") /\ ~Clean
    BY <2>1 DEF Clean
  <2>3. /\ UNCHANGED <<runVars, stopVars, call, mSockets>>
        /\ \A a \in Apps : pc'[a] = pc[a]
    BY <1>5, <1>a DEF ListenerLeaves
  <2>4. QED
    BY <2>2, <2>3
<1>6. CASE ListenerEnds
  <2>1. Listener \in Workers /\ ~Idle(Listener)
    BY <1>6 DEF ListenerEnds, Idle, Ends
  <2>2. ~(pc[Starter] \in {"open", "spawn"} \/ starter = "run") /\ ~Clean
    BY <2>1 DEF Clean
  <2>3. /\ UNCHANGED <<runVars, stopVars, call, mSockets>>
        /\ \A a \in Apps : pc'[a] = pc[a]
    BY <1>6, <1>a DEF ListenerEnds, Ends
  <2>4. QED
    BY <2>2, <2>3
<1>7. CASE CallStart
  BY <1>7, <1>a DEF CallStart, Idle
<1>8. CASE StartRuns
  BY <1>8, <1>a DEF StartRuns, Clean, Idle
<1>9. CASE OpenListener
  <2>1. \E n \in FDs : mSockets' = {n}
    BY <1>9 DEF OpenListener
  <2>2. pc' = [pc EXCEPT ![Starter] = "spawn"] /\ pc[Starter] = "open"
    BY <1>9 DEF OpenListener
  <2>3. UNCHANGED <<runVars, mThreads, stopVars, call>>
    BY <1>9 DEF OpenListener
  <2>4. QED
    BY <1>a, <2>1, <2>2, <2>3 DEF Idle
<1>10. CASE SpawnStartThread
  BY <1>10, <1>a DEF SpawnStartThread, Idle
<1>11. QED
  BY <1>1, <1>2, <1>3, <1>4, <1>5, <1>6, <1>7, <1>8, <1>9, <1>10
     DEF AcceptorStep

LEMMA ConnectionStartOK ==
    ASSUME Barrier, NEW c \in Conns, ConnectionStep(c)
    PROVE  StartOK'
<1> USE AcceptorAssumption DEF Barrier, BarrierInv, Inv, TypeOK, StartOK
<1>1. ConnectionFrame(c)
  BY ConnectionMoves
<1>2. c \in Workers /\ ~Idle(c) /\ c \notin Apps
  BY <1>1 DEF ConnectionFrame, Idle, Workers
<1>3. ~(pc[Starter] \in {"open", "spawn"} \/ starter = "run") /\ ~Clean
  BY <1>2 DEF Clean
<1>4. /\ UNCHANGED <<runVars, stopVars, call, mSockets>>
      /\ \A a \in Apps : pc'[a] = pc[a]
  BY <1>1, <1>2 DEF ConnectionFrame, Callers
<1>5. QED
  BY <1>3, <1>4 DEF runVars, stopVars

LEMMA StopStartOK ==
    ASSUME Barrier, NEW t \in Callers, StopStep(t)
    PROVE  StartOK'
<1> USE AcceptorAssumption DEF Barrier, BarrierInv, Inv, TypeOK, StartOK, Calls,
    runVars, listVars, stopVars, sesVars, connVars
<1>a. Starter \in Callers /\ Apps \cap Conns = {}
  BY DEF Callers
<1>b. UNCHANGED <<pc, processing, starter>>
  BY StopMoves DEF StopFrame
<1>c. \A u \in Callers : Holding(t) /\ u # t => call[u] \in {"none", "lock"}
  BY Alone
<1>1. CASE CallStop(t)
  BY <1>1, <1>a, <1>b DEF CallStop, Clean, Idle
<1>2. CASE LockStopCleanup(t)
  BY <1>2, <1>a, <1>b DEF LockStopCleanup, Clean, Idle
<1>3. CASE CheckStopped(t)
  <2>1. ~mPending => call' = [call EXCEPT ![t] = "return"]
    BY <1>3 DEF CheckStopped
  <2>2. call[t] # "none" /\ call'[t] # "none" /\ \A u \in Callers : u # t => call'[u] = call[u]
    BY <1>3 DEF CheckStopped
  <2>3. ~mPending' /\ UNCHANGED <<mStop, listVars, toJoin, enabled>>
    BY <1>3 DEF CheckStopped
  <2>4. QED
    BY <1>a, <1>b, <2>1, <2>2, <2>3 DEF Clean, Idle
<1>4. CASE LogoutSession(t)
  <2>1. ~mStop /\ pc[Starter] # "start"
    BY <1>4 DEF LogoutSession
  <2>2. t # Starter \/ pc[Starter] \notin {"open", "spawn"}
    BY <1>4 DEF LogoutSession
  <2>3. UNCHANGED <<mStop, listVars, toJoin>>
    BY <1>4 DEF LogoutSession
  <2>4. call' = [call EXCEPT ![t] = "mark"]
    BY <1>4 DEF LogoutSession
  <2>5. QED
    BY <1>a, <1>b, <2>1, <2>2, <2>3, <2>4 DEF Idle
<1>5. CASE MarkStopped(t)
  <2>1. ~mStop /\ pc[Starter] # "start"
    BY <1>5 DEF MarkStopped, StopOK
  <2>2. t # Starter \/ pc[Starter] \notin {"open", "spawn"}
    BY <1>5 DEF MarkStopped
  <2>3. UNCHANGED <<listVars, toJoin>> /\ call' = [call EXCEPT ![t] = "grab"]
    BY <1>5 DEF MarkStopped
  <2>4. QED
    BY <1>a, <1>b, <2>1, <2>2, <2>3 DEF Idle
<1>6. CASE Grab(t)
  <2>1. call[t] = "grab" /\ call' = [call EXCEPT ![t] = "close"]
    BY <1>6 DEF Grab
  <2>2. pc[Starter] = "start" => call[Starter] # "none"
    BY <2>1
  <2>3. ~(pc[Starter] = "spawn" \/ starter = "run")
    <3>1. CASE t \in Apps
      BY <1>6, <3>1 DEF Grab
    <3>2. CASE t \in Conns
      BY <2>1, <3>2, CallerAlive DEF Workers
    <3>3. QED
      BY <3>1, <3>2 DEF Callers
  <2>4. pc[Starter] = "open" => mThreads' = {} /\ toJoin' = {}
    BY <1>6 DEF Grab
  <2>5. UNCHANGED mStop
    BY <1>6 DEF Grab
  <2>6. QED
    BY <1>a, <1>b, <2>1, <2>2, <2>3, <2>4, <2>5 DEF Idle
<1>7. CASE CloseNext(t)
  <2>1. call[t] = "close" /\ (UNCHANGED call \/ call' = [call EXCEPT ![t] = "join"])
    BY <1>7 DEF CloseNext
  <2>2. pc[Starter] = "start" => call[Starter] # "none"
    BY <2>1
  <2>3. UNCHANGED <<mStop, listVars, toJoin>>
    BY <1>7 DEF CloseNext
  <2>4. QED
    BY <1>a, <1>b, <2>1, <2>2, <2>3 DEF Idle
<1>8. CASE Join(t)
  <2>1. call[t] = "join" /\ call' = [call EXCEPT ![t] = "return"]
    BY <1>8 DEF Join
  <2>2. pc[Starter] = "start" => call[Starter] # "none"
    BY <2>1
  <2>3. UNCHANGED <<mStop, listVars>> /\ toJoin' = {}
    BY <1>8 DEF Join
  <2>4. QED
    BY <1>a, <1>b, <2>1, <2>2, <2>3 DEF Idle
<1>9. CASE Return(t)
  <2>1. call[t] = "return" /\ call' = [call EXCEPT ![t] = "none"]
    BY <1>9 DEF Return
  <2>2. UNCHANGED <<mStop, mPending, listVars, toJoin>>
    BY <1>9 DEF Return
  <2>3. cleanup = t /\ cleanup # None
    BY <2>1 DEF MutexOK, Holding, Callers
  <2>4. enabled'
    BY <1>9 DEF Return, EnabledOK
  <2>5. ASSUME pc[Starter] = "start", t = Starter
        PROVE  Clean
    BY <2>1, <2>3, <2>5 DEF StopOK, StoppedOK
  <2>6. ASSUME t = Starter, NEW u \in Callers
        PROVE  call'[u] \in {"none", "lock"}
    BY <1>c, <2>1 DEF Holding
  <2>7. Clean => Clean'
    BY <1>b, <2>2 DEF Clean, Idle
  <2>8. QED
    BY <1>a, <1>b, <2>1, <2>2, <2>4, <2>5, <2>6, <2>7 DEF Idle
<1>10. QED
  BY <1>1, <1>2, <1>3, <1>4, <1>5, <1>6, <1>7, <1>8, <1>9
     DEF StopStep, StopRuns


-----------------------------------------------------------------------------
(* m_threads names every thread that is alive.                             *)

LEMMA AcceptorThreads ==
    ASSUME Barrier, AcceptorStep
    PROVE  ThreadsOK' /\ EntriesOK' /\ DescriptorsOK'
<1> USE AcceptorAssumption DEF Barrier, BarrierInv, Inv, TypeOK, At, Go, Calls,
    Callers, Workers, runVars, listVars, stopVars, sesVars, connVars, fdVars
<1>a. Starter \in Callers /\ Starter \notin Workers /\ Listener \notin Conns
  OBVIOUS
<1>b. \A e \in mThreads : e \in FDs \X Workers
  OBVIOUS
<1>1. CASE StartThreadRuns
  <2>1. /\ mThreads = {} /\ mSockets # {} /\ starter = "run"
        /\ \A w \in Workers : Idle(w)
    BY <1>1 DEF StartThreadRuns, StartOK
  <2>2. UNCHANGED <<mSockets, toJoin, fd, used, newFd>>
    BY <1>1 DEF StartThreadRuns
  <2>3. CASE mStop
    BY <1>1, <2>1, <2>2, <2>3
       DEF StartThreadRuns, ThreadsOK, EntriesOK, DescriptorsOK, Descriptors, Idle
  <2>4. CASE ~mStop
    <3>1. mThreads' = {<<s, Listener>> : s \in mSockets}
      BY <1>1, <2>1, <2>4 DEF StartThreadRuns
    <3>2. pc' = [pc EXCEPT ![Listener] = "accept"]
      BY <1>1, <2>4 DEF StartThreadRuns
    <3>3. ThreadsOK'
      <4>1. PICK s \in mSockets : <<s, Listener>> \in mThreads'
        BY <2>1, <3>1
      <4>2. \A w \in Workers : w # Listener => Idle(w)'
        BY <2>1, <3>2 DEF Idle
      <4>3. \E e \in mThreads' : e[2] = Listener
        BY <4>1
      <4>4. QED
        BY <4>2, <4>3 DEF ThreadsOK
    <3>4. EntriesOK'
      BY <1>a, <3>1, <3>2 DEF EntriesOK
    <3>5. DescriptorsOK'
      BY <2>2, <3>1, <3>2 DEF DescriptorsOK, Descriptors
    <3>6. QED
      BY <3>3, <3>4, <3>5
  <2>5. QED
    BY <2>3, <2>4
<1>2. CASE StartThreadEnds
  <2>1. /\ UNCHANGED <<listVars, toJoin, fd, used, newFd>>
        /\ \A w \in Workers : pc'[w] = pc[w]
    BY <1>2, <1>a DEF StartThreadEnds
  <2>2. QED
    BY <2>1, <1>b DEF ThreadsOK, EntriesOK, DescriptorsOK, Descriptors, Idle
<1>3. CASE Accept
  <2>1. /\ UNCHANGED <<listVars, toJoin, fd>>
        /\ pc' = [pc EXCEPT ![Listener] = "spawn"] /\ pc[Listener] = "accept"
    BY <1>3 DEF Accept
  <2>2. newFd' \notin used /\ used' = used \cup {newFd'}
    BY <1>3 DEF Accept, Take, Available
  <2>3. ThreadsOK'
    BY <2>1 DEF ThreadsOK, Idle
  <2>4. EntriesOK'
    BY <1>b, <2>1 DEF EntriesOK
  <2>5. DescriptorsOK'
    BY <2>1, <2>2 DEF DescriptorsOK, Descriptors
  <2>6. QED
    BY <2>3, <2>4, <2>5
<1>4. CASE Spawn
  <2>1. UNCHANGED <<mSockets, toJoin, used>>
    BY <1>4 DEF Spawn
  <2>2. newFd \in FDs /\ newFd \in used /\ newFd \notin mSockets \cup Descriptors(mThreads)
    BY <1>4 DEF Spawn, DescriptorsOK, SpawnOK
  <2>3. CASE mStop
    BY <1>4, <1>b, <2>1, <2>3
       DEF Spawn, ThreadsOK, EntriesOK, DescriptorsOK, Descriptors, Idle
  <2>4. CASE ~mStop
    <3>1. PICK c \in Conns : NewConnection(c) /\ pc[c] = "none"
      BY <1>4, <2>4, FreshThread
    <3>2. mThreads' = mThreads \cup {<<newFd, c>>}
      BY <2>2, <3>1 DEF NewConnection, Descriptors
    <3>3. /\ pc' = [pc EXCEPT ![c] = "read", ![Listener] = "accept"]
          /\ fd' = [fd EXCEPT ![c] = newFd]
      BY <3>1 DEF NewConnection
    <3>4. ThreadsOK'
      <4>1. \A w \in Workers : w # c /\ ~Idle(w)' => ~Idle(w)
        BY <1>4, <3>3 DEF Idle, Spawn
      <4>2. \E e \in mThreads' : e[2] = c
        <5>1. <<newFd, c>> \in mThreads' /\ <<newFd, c>>[2] = c
          BY <3>2
        <5>2. QED
          BY <5>1
      <4>3. \A e \in mThreads : e \in mThreads'
        BY <3>2
      <4>4. QED
        BY <2>1, <4>1, <4>2, <4>3 DEF ThreadsOK
    <3>5. EntriesOK'
      <4>1. \A e \in mThreads : e[2] # c /\ e[1] # newFd
        BY <2>2, <3>1 DEF EntriesOK, Descriptors
      <4>2. \A e \in mThreads : pc'[e[2]] # "none" /\ (e[2] \in Conns => fd'[e[2]] = fd[e[2]])
        BY <1>b, <3>3, <4>1 DEF EntriesOK
      <4>3. fd'[c] = newFd /\ pc'[c] # "none"
        BY <1>a, <3>3
      <4>4. \A e, f \in mThreads' : e[1] = f[1] => e[2] = f[2]
        BY <3>2, <4>1 DEF EntriesOK
      <4>5. QED
        BY <2>1, <2>2, <3>2, <4>2, <4>3, <4>4 DEF EntriesOK
    <3>6. DescriptorsOK'
      BY <2>1, <2>2, <3>2, <3>3 DEF DescriptorsOK, Descriptors
    <3>7. QED
      BY <3>4, <3>5, <3>6
  <2>5. QED
    BY <2>3, <2>4
<1>5. CASE ListenerLeaves
  <2>1. /\ UNCHANGED <<listVars, toJoin, fd, used, newFd>>
        /\ pc' = [pc EXCEPT ![Listener] = "leave"] /\ pc[Listener] = "accept"
    BY <1>5 DEF ListenerLeaves
  <2>2. QED
    BY <1>b, <2>1 DEF ThreadsOK, EntriesOK, DescriptorsOK, Descriptors, Idle
<1>6. CASE ListenerEnds
  <2>1. /\ UNCHANGED <<mSockets, toJoin, fd, used, newFd>>
        /\ pc' = [pc EXCEPT ![Listener] = "done"]
    BY <1>6 DEF ListenerEnds, Ends
  <2>2. \A e \in mThreads' : e \in mThreads
    BY <1>6 DEF ListenerEnds, Ends
  <2>3. \A e \in mThreads : e[2] \in Conns => e \in mThreads'
    BY <1>6 DEF ListenerEnds, Ends, EntriesOK
  <2>4. ThreadsOK'
    BY <2>1, <2>3 DEF ThreadsOK, Idle
  <2>5. EntriesOK'
    BY <1>b, <2>1, <2>2 DEF EntriesOK
  <2>6. DescriptorsOK'
    BY <2>1, <2>2 DEF DescriptorsOK, Descriptors
  <2>7. QED
    BY <2>4, <2>5, <2>6
<1>7. CASE CallStart
  <2>1. /\ UNCHANGED <<listVars, toJoin, fd, used, newFd>>
        /\ \A w \in Workers : pc'[w] = pc[w]
    BY <1>7, <1>a DEF CallStart
  <2>2. QED
    BY <2>1, <1>b DEF ThreadsOK, EntriesOK, DescriptorsOK, Descriptors, Idle
<1>8. CASE StartRuns
  <2>1. /\ UNCHANGED <<listVars, toJoin, fd, used, newFd>>
        /\ \A w \in Workers : pc'[w] = pc[w]
    BY <1>8, <1>a DEF StartRuns
  <2>2. QED
    BY <2>1, <1>b DEF ThreadsOK, EntriesOK, DescriptorsOK, Descriptors, Idle
<1>9. CASE OpenListener
  <2>1. mThreads = {} /\ \A w \in Workers : Idle(w)
    BY <1>9 DEF OpenListener, StartOK
  <2>2. UNCHANGED <<mThreads, toJoin, fd, newFd>> /\ mSockets' \subseteq used' /\ used \subseteq used'
    BY <1>9 DEF OpenListener, Take
  <2>3. \A w \in Workers : pc'[w] = pc[w]
    BY <1>9, <1>a DEF OpenListener
  <2>4. QED
    BY <2>1, <2>2, <2>3 DEF ThreadsOK, EntriesOK, DescriptorsOK, Descriptors, Idle
<1>10. CASE SpawnStartThread
  <2>1. /\ UNCHANGED <<listVars, toJoin, fd, used, newFd>>
        /\ \A w \in Workers : pc'[w] = pc[w]
    BY <1>10, <1>a DEF SpawnStartThread
  <2>2. QED
    BY <2>1, <1>b DEF ThreadsOK, EntriesOK, DescriptorsOK, Descriptors, Idle
<1>11. QED
  BY <1>1, <1>2, <1>3, <1>4, <1>5, <1>6, <1>7, <1>8, <1>9, <1>10
     DEF AcceptorStep

LEMMA ConnectionThreads ==
    ASSUME Barrier, NEW c \in Conns, ConnectionStep(c)
    PROVE  ThreadsOK' /\ EntriesOK' /\ DescriptorsOK'
<1> USE AcceptorAssumption DEF Barrier, BarrierInv, Inv, TypeOK, Callers, Workers
<1>1. ConnectionFrame(c)
  BY ConnectionMoves
<1>2. UNCHANGED <<mSockets, toJoin, fd, used, newFd, mStop>>
  BY <1>1 DEF ConnectionFrame, stopVars, runVars
<1>3. PICK p \in Places \ {"none"} : pc' = [pc EXCEPT ![c] = p]
  BY <1>1 DEF ConnectionFrame
<1>4. \A e \in mThreads' : e \in mThreads /\ e \in FDs \X Workers
  BY <1>1 DEF ConnectionFrame, Remove, Ends
<1>5. EntriesOK'
  BY <1>2, <1>3, <1>4 DEF EntriesOK
<1>6. DescriptorsOK'
  BY <1>2, <1>3, <1>4 DEF DescriptorsOK, Descriptors
<1>7. ~Idle(c)
  BY <1>1 DEF ConnectionFrame, Idle
<1>8. ThreadsOK'
  <2>1. CASE UNCHANGED mThreads
    BY <1>2, <1>3, <1>7, <2>1 DEF ThreadsOK, Idle
  <2>2. CASE ~UNCHANGED mThreads
    <3>1. Remove(c) /\ ~mStop /\ mThreads' = {e \in mThreads : e[1] \notin {fd[c]}}
      BY <1>1, <2>2 DEF ConnectionFrame, Remove, Ends
    <3>2. toJoin = {}
      BY <3>1 DEF StopOK, MutexOK
    <3>3. PICK f \in mThreads : f[2] = c
      BY <1>7, <3>2 DEF ThreadsOK
    <3>4. \A e \in mThreads : e[1] = fd[c] => e[2] = c
      BY <3>3 DEF EntriesOK
    <3>5. pc' = [pc EXCEPT ![c] = "done"]
      BY <3>1 DEF Remove, Ends, Go
    <3>6. ASSUME NEW w \in Workers, ~Idle(w)'
          PROVE  \E e \in mThreads' : e[2] = w
      <4>1. w # c /\ ~Idle(w)
        BY <3>5, <3>6 DEF Idle
      <4>2. PICK e \in mThreads : e[2] = w
        BY <3>2, <4>1 DEF ThreadsOK
      <4>3. QED
        BY <3>1, <3>4, <4>1, <4>2
    <3>7. QED
      BY <3>6 DEF ThreadsOK
  <2>3. QED
    BY <2>1, <2>2
<1>9. QED
  BY <1>5, <1>6, <1>8

LEMMA StopThreads ==
    ASSUME Barrier, NEW t \in Callers, StopStep(t)
    PROVE  ThreadsOK' /\ EntriesOK' /\ DescriptorsOK'
<1> USE AcceptorAssumption DEF Barrier, BarrierInv, runVars, listVars, stopVars, fdVars
<1>a. UNCHANGED <<pc, fd, used, newFd>>
  BY StopMoves DEF StopFrame, connVars
<1>1. CASE Grab(t)
  <2>1. /\ toJoin = {}
        /\ t \in Conns <=> \E e \in mThreads : e[2] = t
    BY <1>1, GrabCaller DEF Grab
  <2>2. mThreads' \subseteq mThreads /\ mSockets' = {}
    BY <1>1 DEF Grab
  <2>3. EntriesOK' /\ DescriptorsOK'
    BY <1>a, <2>2 DEF EntriesOK, DescriptorsOK, Descriptors
  <2>4. CASE t \in Conns
    BY <1>1, <1>a, <2>1, <2>3, <2>4 DEF Grab, ThreadsOK, Idle
  <2>5. CASE t \notin Conns
    <3>1. toJoin' = {e[2] : e \in mThreads}
      BY <1>1, <2>1, <2>5 DEF Grab
    <3>2. QED
      BY <1>a, <2>1, <2>3, <3>1 DEF ThreadsOK, Idle
  <2>6. QED
    BY <2>4, <2>5
<1>2. CASE Join(t)
  <2>1. UNCHANGED listVars /\ \A w \in toJoin : pc[w] = "done"
    BY <1>2 DEF Join
  <2>2. QED
    BY <1>a, <2>1 DEF ThreadsOK, EntriesOK, DescriptorsOK, Descriptors, Idle
<1>3. CASE ~Grab(t) /\ ~Join(t)
  <2>1. UNCHANGED <<listVars, toJoin>>
    BY <1>3 DEF StopStep, StopRuns, CallStop, LockStopCleanup, CheckStopped, LogoutSession,
                MarkStopped, CloseNext, Return
  <2>2. QED
    BY <1>a, <2>1 DEF ThreadsOK, EntriesOK, DescriptorsOK, Descriptors, Idle
<1>4. QED
  BY <1>1, <1>2, <1>3

-----------------------------------------------------------------------------
(* The owner of the session.                                               *)

LEMMA AcceptorOwner == ASSUME Barrier, AcceptorStep PROVE OwnerOK'
<1> USE DEF Barrier, BarrierInv
<1>1. UNCHANGED <<attached, registered, enabled>>
  BY AcceptorMoves DEF AcceptorFrame, sesVars
<1>2. CASE StartRuns
  <2>1. \A c \in Conns : Idle(c)
    BY <1>2, AcceptorAssumption DEF StartRuns, At, StartOK, Clean, Workers, Callers
  <2>2. \A c \in Conns : ~attached[c]
    BY <2>1 DEF Idle, Inv, TypeOK, AttachedOK, AttachedPlaces
  <2>3. QED
    BY <1>1, <2>2 DEF OwnerOK
<1>3. CASE ~StartRuns
  <2>1. UNCHANGED mStop
    BY <1>3 DEF AcceptorStep, StartThreadRuns, StartThreadEnds, Accept, Spawn,
                ListenerLeaves, ListenerEnds, Ends, CallStart, OpenListener,
                SpawnStartThread, runVars
  <2>2. QED
    BY <1>1, <2>1 DEF OwnerOK
<1>4. QED
  BY <1>2, <1>3

LEMMA ConnectionOwner ==
    ASSUME Barrier, NEW c \in Conns, ConnectionStep(c)
    PROVE  OwnerOK'
<1> USE DEF Barrier, BarrierInv, Inv, TypeOK, OwnerOK
<1>1. UNCHANGED <<mStop, enabled>>
  BY ConnectionMoves DEF ConnectionFrame, runVars
<1>2. CASE UNCHANGED <<attached, registered>>
  BY <1>1, <1>2
<1>3. CASE RegisterLogon(c)
  <2>1. CASE UNCHANGED attached
    BY <1>1, <1>3, <2>1 DEF RegisterLogon
  <2>2. CASE ~UNCHANGED attached
    <3>1. /\ ~registered /\ enabled /\ registered'
          /\ attached' = [attached EXCEPT ![c] = TRUE]
      BY <1>3, <2>2 DEF RegisterLogon
    <3>2. QED
      BY <1>1, <3>1
  <2>3. QED
    BY <2>1, <2>2
<1>4. CASE Unregister(c)
  <2>1. attached[c] /\ attached' = [attached EXCEPT ![c] = FALSE]
    BY <1>4 DEF Unregister, At, AttachedOK
  <2>2. QED
    BY <1>1, <2>1
<1>5. QED
  <2>1. RegisterLogon(c) \/ Unregister(c) \/ UNCHANGED <<attached, registered>>
    BY DEF ConnectionStep, ConnectionRuns, FirstMessage, NextMessage, ReadFails,
           SetSession, AcceptLogon, RefuseLogon, Unlocks, NextReturns, Drop,
           Close, Delete, Remove, Ends, sesVars, connVars
  <2>2. QED
    BY <1>2, <1>3, <1>4, <2>1

LEMMA StopOwner ==
    ASSUME Barrier, NEW t \in Callers, StopStep(t)
    PROVE  OwnerOK'
<1> USE DEF Barrier, BarrierInv, OwnerOK
<1>1. UNCHANGED attached
  BY StopMoves DEF StopFrame, connVars
<1>2. CASE LogoutSession(t)
  BY <1>1, <1>2 DEF LogoutSession, runVars
<1>3. CASE MarkStopped(t)
  BY <1>3 DEF MarkStopped
<1>4. CASE Return(t)
  <2>1. UNCHANGED <<mStop, registered>> /\ cleanup = t
    BY <1>4 DEF Return, runVars, MutexOK, Holding
  <2>2. ~mStop => enabled
    BY <1>4, <2>1 DEF Return, EnabledOK
  <2>3. QED
    BY <1>1, <1>4, <2>1, <2>2 DEF Return
<1>5. CASE ~LogoutSession(t) /\ ~MarkStopped(t) /\ ~Return(t)
  <2>1. UNCHANGED <<mStop, enabled, registered>>
    BY <1>5 DEF StopStep, StopRuns, CallStop, LockStopCleanup, CheckStopped, Grab,
                CloseNext, Join, runVars, sesVars
  <2>2. QED
    BY <1>1, <2>1
<1>6. QED
  BY <1>2, <1>3, <1>4, <1>5
-----------------------------------------------------------------------------
(* The invariant without reused descriptors.                               *)

LEMMA InitBarrier == Init => BarrierInv
<1> SUFFICES ASSUME Init PROVE BarrierInv
  OBVIOUS
<1> USE AcceptorAssumption DEF Init
<1>1. MutexOK /\ StopOK
  BY DEF MutexOK, StopOK, Holding, Callers
<1>2. StoppedOK /\ EnabledOK
  BY DEF StoppedOK, EnabledOK, Clean, Idle, Workers, Callers
<1>3. StartOK
  BY DEF StartOK, Clean, Idle, Workers, Callers
<1>4. ThreadsOK /\ EntriesOK
  BY DEF ThreadsOK, EntriesOK, Idle, Workers, Callers
<1>5. DescriptorsOK
  BY DEF DescriptorsOK, Descriptors
<1>6. OwnerOK
  BY DEF OwnerOK
<1>7. QED
  BY <1>1, <1>2, <1>3, <1>4, <1>5, <1>6, InitInv DEF BarrierInv

LEMMA StutterBarrier == ASSUME BarrierInv, UNCHANGED vars PROVE BarrierInv'
<1> USE DEF vars, runVars, listVars, stopVars, sesVars, connVars, fdVars, BarrierInv
<1>1. MutexOK' /\ StopOK'
  BY DEF MutexOK, StopOK, Holding
<1>2. StoppedOK' /\ EnabledOK' /\ StartOK'
  BY DEF StoppedOK, EnabledOK, StartOK, Clean, Idle
<1>3. ThreadsOK' /\ EntriesOK' /\ DescriptorsOK' /\ OwnerOK'
  BY DEF ThreadsOK, EntriesOK, DescriptorsOK, OwnerOK, Descriptors, Idle
<1>4. QED
  BY <1>1, <1>2, <1>3, StutterInv

LEMMA NextBarrier == ~Reuse /\ BarrierInv /\ [Next]_vars => BarrierInv'
<1> SUFFICES ASSUME Barrier, [Next]_vars PROVE BarrierInv'
  BY DEF Barrier
<1>1. Inv' /\ MutexOK'
  BY NextInv, MutexStep DEF Barrier, BarrierInv
<1>2. CASE AcceptorStep
  BY <1>1, <1>2, AcceptorStopOK, AcceptorStoppedOK, AcceptorEnabledOK,
     AcceptorStartOK, AcceptorThreads, AcceptorOwner DEF BarrierInv
<1>3. ASSUME NEW c \in Conns, ConnectionStep(c)
      PROVE  BarrierInv'
  BY <1>1, <1>3, ConnectionStopOK, ConnectionStoppedOK, ConnectionEnabledOK,
     ConnectionStartOK, ConnectionThreads, ConnectionOwner DEF BarrierInv
<1>4. ASSUME NEW t \in Callers, StopStep(t)
      PROVE  BarrierInv'
  BY <1>1, <1>4, StopStopOK, StopStoppedOK, StopEnabledOK, StopStartOK,
     StopThreads, StopOwner DEF BarrierInv
<1>5. QED
  BY <1>2, <1>3, <1>4, SendBarrier, StutterBarrier, Steps DEF Barrier

(* The invariant of all behaviours in which no descriptor is reused.       *)
THEOREM BarrierInvHolds == ASSUME ~Reuse PROVE Spec => []BarrierInv
<1>1. BarrierInv /\ [Next]_vars => BarrierInv'
  BY NextBarrier
<1>2. QED
  BY <1>1, InitBarrier, PTL DEF Spec

(* However many peers present a Logon at once, and whichever threads stop  *)
(* and start the acceptor meanwhile, the session has one owner at most:    *)
(* registerSession and the enabled flag together admit one, and a stop     *)
(* leaves none behind for the next run.                                    *)
THEOREM SingleOwner == ASSUME ~Reuse PROVE Spec => []OneOwner
<1>1. BarrierInv => OneOwner
  BY DEF BarrierInv, OwnerOK, OneOwner
<1>2. QED
  BY <1>1, BarrierInvHolds, PTL

(* When stop() returns to an application thread and the acceptor is        *)
(* stopped, every worker has ended: lockStopCleanup, the pending cleanup   *)
(* of a callback and onStop()'s joins make it a completion barrier.        *)
THEOREM StopBarrier == ASSUME ~Reuse PROVE Spec => StopIsBarrier
<1>1. ASSUME BarrierInv, [Next]_vars, NEW a \in Apps,
             call[a] # "none", call'[a] = "none", mStop'
      PROVE  \A w \in Workers : pc'[w] \in {"none", "done"}
  <2> USE AcceptorAssumption DEF BarrierInv, Inv
  <2>1. a \in Callers /\ a \notin Conns
    BY DEF Callers
  <2>2. CASE AcceptorStep
    BY <1>1, <2>1, <2>2, AcceptorCalls DEF CallStart, At, Calls, TypeOK
  <2>3. ASSUME NEW c \in Conns, ConnectionStep(c)
        PROVE  FALSE
    BY <1>1, <2>3, ConnectionMoves DEF ConnectionFrame
  <2>4. ASSUME NEW t \in Callers, StopStep(t)
        PROVE  \A w \in Workers : pc'[w] \in {"none", "done"}
    <3>1. StopFrame(t)
      BY <1>1, <2>4, StopMoves
    <3>2. t = a
      BY <1>1, <2>1, <3>1 DEF StopFrame, TypeOK
    <3>3. Return(a)
      BY <1>1, <2>1, <2>4, <3>2
         DEF StopStep, StopRuns, CallStop, LockStopCleanup, CheckStopped, LogoutSession,
             MarkStopped, Grab, CloseNext, Join, Calls, TypeOK
    <3>4. call[a] = "return" /\ cleanup = a /\ mStop /\ ~mPending
      BY <1>1, <2>1, <3>3 DEF Return, runVars, MutexOK, Holding, StopOK
    <3>5. Clean
      BY <1>1, <3>4 DEF StoppedOK
    <3>6. QED
      BY <3>1, <3>5 DEF StopFrame, Clean, Idle
  <2>5. CASE UNCHANGED vars
    BY <1>1, <2>5 DEF vars
  <2>6. ASSUME NEW b \in Apps, SendStep(b)
        PROVE  FALSE
    BY <1>1, <2>6, SendMoves DEF SendFrame
  <2>7. QED
    BY <1>1, <2>2, <2>3, <2>4, <2>5, <2>6, Steps
<1>2. BarrierInv /\ [Next]_vars =>
        [\A a \in Apps :
            call[a] # "none" /\ call'[a] = "none" /\ mStop'
                => \A w \in Workers : pc'[w] \in {"none", "done"}]_vars
  BY <1>1
<1>3. QED
  BY <1>2, BarrierInvHolds, PTL DEF Spec, StopIsBarrier
=============================================================================

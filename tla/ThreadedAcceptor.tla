-------------------------- MODULE ThreadedAcceptor --------------------------
(***************************************************************************)
(* The threads of a ThreadedSocketAcceptor (Acceptor.cpp,                  *)
(* ThreadedSocketAcceptor.cpp, ThreadedSocketConnection.cpp) around one    *)
(* session: application threads that call start() and stop() and send      *)
(* through the session, the start thread, the listener thread, and one     *)
(* thread per connection.  A thread may call stop() from any callback of   *)
(* the application that runs in it.                                        *)
(*                                                                         *)
(* m_mutex of the acceptor and s_mutex of the session registry guard short *)
(* blocks that wait for nothing; each such block is one step.  Threads do  *)
(* wait for m_stopCleanupMutex (cleanup) and for the mutex of the session  *)
(* (busy), which are held while others are waited for and while callbacks  *)
(* run.  A wait with a time limit may end at any moment.                   *)
(*                                                                         *)
(* A connection is known by its thread.  A descriptor is a number that the *)
(* system hands out, lowest first, and takes back; owner says whose it is. *)
(***************************************************************************)
EXTENDS Naturals, FiniteSets

CONSTANTS
    Apps,         \* application threads
    Starter,      \* the one that calls start()
    Senders,      \* those that send through the session
    Conns,        \* connections, each served by a thread of its own
    Listener,     \* the listener thread, and the socket it listens on
    None,         \* no thread
    MaxFd,        \* descriptors are 1 .. MaxFd
    Reuse,        \* the system hands out a closed number again
    MaxStarts,    \* bound: calls of start()
    MaxStops,     \* bound: calls of stop()
    Tries         \* how often setSession looks for a free session

ASSUME AcceptorAssumption ==
    /\ Starter \in Apps /\ Senders \subseteq Apps
    /\ Apps \cap Conns = {} /\ IsFiniteSet(Conns)
    /\ Listener # None /\ {Listener, None} \cap (Apps \cup Conns) = {}
    /\ MaxFd \in Nat /\ Reuse \in BOOLEAN
    /\ MaxStarts \in Nat /\ MaxStops \in Nat /\ Tries \in Nat

VARIABLES
    \* the acceptor
    mStop, mPending,      \* m_stop, m_stopCleanupPending
    processing,           \* m_processing
    starter,              \* the start thread: "none", "run" or "end"
    mSockets,             \* m_sockets
    mThreads,             \* m_threads, as pairs <<descriptor, thread>>
    \* the stop or start in progress
    cleanup,              \* who holds m_stopCleanupMutex
    wasEnabled,           \* enabledSessions
    toClose, toJoin,      \* descriptors and threads left in onStop()
    \* the session
    enabled, registered, loggedOn,
    responder,            \* m_pResponder
    busy,                 \* who holds its mutex
    \* the threads
    pc,                   \* where each thread is
    call,                 \* where it is in a call of stop() or start()
    tries,                \* looks left to each connection
    attached,             \* m_pSession # 0, for each connection
    disconnecting,        \* m_disconnect
    fd,                   \* m_socket
    \* the system
    owner, used,          \* whose a descriptor is; handed out before
    newFd,                \* what accept() returned last
    starts, stops

runVars == <<mStop, mPending, processing, starter>>
listVars == <<mSockets, mThreads>>
stopVars == <<cleanup, wasEnabled, toClose, toJoin>>
sesVars == <<enabled, registered, loggedOn, responder, busy>>
connVars == <<tries, attached, disconnecting, fd>>
fdVars == <<owner, used, newFd>>
vars == <<runVars, listVars, stopVars, sesVars, connVars, fdVars,
          pc, call, starts, stops>>

FDs == 1 .. MaxFd
Callers == Apps \cup Conns
Workers == Conns \cup {Listener}
Free == "free"
NoFd == 0

Init ==
    /\ mStop = TRUE /\ mPending = FALSE /\ processing = FALSE
    /\ starter = "none" /\ mSockets = {} /\ mThreads = {}
    /\ cleanup = None /\ wasEnabled = FALSE /\ toClose = {} /\ toJoin = {}
    /\ enabled = TRUE /\ registered = FALSE /\ loggedOn = FALSE
    /\ responder = None /\ busy = None
    /\ pc = [t \in Callers \cup {Listener} |-> "none"]
    /\ call = [t \in Callers |-> "none"]
    /\ tries = [c \in Conns |-> 0]
    /\ attached = [c \in Conns |-> FALSE]
    /\ disconnecting = [c \in Conns |-> FALSE]
    /\ fd = [c \in Conns |-> NoFd]
    /\ owner = [n \in FDs |-> Free] /\ used = {} /\ newFd = NoFd
    /\ starts = 0 /\ stops = 0
-----------------------------------------------------------------------------
(* Descriptors and thread positions.                                       *)

Available == {n \in FDs : owner[n] = Free /\ (Reuse \/ n \notin used)}

Take(n, who) ==
    /\ n \in Available /\ \A m \in Available : n <= m
    /\ owner' = [owner EXCEPT ![n] = who]
    /\ used' = used \cup {n}

At(t, where) == pc[t] = where /\ (t \in Callers => call[t] = "none")

Go(t, where) == pc' = [pc EXCEPT ![t] = where]

Closed(c) == owner[fd[c]] # c

(* ThreadedSocketConnection::disconnect closes the descriptor once.        *)
Disconnect(c) ==
    /\ disconnecting' = [disconnecting EXCEPT ![c] = TRUE]
    /\ owner' = IF disconnecting[c] THEN owner
                ELSE [owner EXCEPT ![fd[c]] = Free]

(* Session::disconnect, whose caller holds the mutex of the session.       *)
SessionDisconnect ==
    /\ IF responder = None THEN UNCHANGED <<disconnecting, owner>>
       ELSE Disconnect(responder)
    /\ responder' = None /\ loggedOn' = FALSE
-----------------------------------------------------------------------------
(* The start thread: onStart(), then m_processing is cleared.              *)

StartThreadRuns ==
    /\ starter = "run" /\ starter' = "end"
    /\ IF mStop THEN UNCHANGED <<mThreads, pc>>
       ELSE /\ mThreads' = mThreads \cup {<<s, Listener>> : s \in mSockets}
            /\ Go(Listener, "accept")
    /\ UNCHANGED <<mStop, mPending, processing, mSockets, stopVars, sesVars,
                   connVars, fdVars, call, starts, stops>>

StartThreadEnds ==
    /\ starter = "end" /\ starter' = "none"
    /\ processing' = FALSE
    /\ UNCHANGED <<mStop, mPending, listVars, stopVars, sesVars, connVars,
                   fdVars, pc, call, starts, stops>>
-----------------------------------------------------------------------------
(* The listener thread.                                                    *)

Listening == \E n \in FDs : owner[n] = Listener

Accept ==
    /\ At(Listener, "accept") /\ ~mStop /\ Listening
    /\ \E c \in Conns : pc[c] = "none"
    /\ \E n \in FDs : Take(n, "accepted") /\ newFd' = n
    /\ Go(Listener, "spawn")
    /\ UNCHANGED <<runVars, listVars, stopVars, sesVars, connVars, call,
                   starts, stops>>

(* The thread of a new connection is entered under its descriptor.         *)
NewConnection(c) ==
    /\ c = CHOOSE d \in Conns : pc[d] = "none"
    /\ owner' = [owner EXCEPT ![newFd] = c]
    /\ fd' = [fd EXCEPT ![c] = newFd]
    /\ mThreads' = {e \in mThreads : e[1] # newFd} \cup {<<newFd, c>>}
    /\ pc' = [pc EXCEPT ![c] = "read", ![Listener] = "accept"]

(* Seeded error: stop() is not looked for again under m_mutex.             *)
SpawnUnchecked ==
    /\ At(Listener, "spawn") /\ newFd' = NoFd
    /\ \E c \in Conns : NewConnection(c)
    /\ UNCHANGED <<runVars, mSockets, stopVars, sesVars, tries, attached,
                   disconnecting, used, call, starts, stops>>

(* Under m_mutex, which onStop() takes after it has set m_stop.            *)
Spawn ==
    /\ At(Listener, "spawn") /\ newFd' = NoFd
    /\ \/ /\ mStop
          /\ owner' = [owner EXCEPT ![newFd] = Free]
          /\ Go(Listener, "leave")
          /\ UNCHANGED <<fd, mThreads>>
       \/ /\ ~mStop
          /\ \E c \in Conns : NewConnection(c)
    /\ UNCHANGED <<runVars, mSockets, stopVars, sesVars, tries, attached,
                   disconnecting, used, call, starts, stops>>

(* m_stop is set, the socket is closed, or accept() fails.                 *)
ListenerLeaves ==
    /\ At(Listener, "accept")
    /\ Go(Listener, "leave")
    /\ UNCHANGED <<runVars, listVars, stopVars, sesVars, connVars, fdVars,
                   call, starts, stops>>

(* removeThread() drops what is entered under the thread's descriptor.     *)
Ends(t, descriptors) ==
    /\ Go(t, "done")
    /\ mThreads' = IF mStop THEN mThreads
                   ELSE {e \in mThreads : e[1] \notin descriptors}
    /\ UNCHANGED <<runVars, mSockets, stopVars, sesVars, connVars, fdVars,
                   call, starts, stops>>

ListenerEnds == At(Listener, "leave") /\ Ends(Listener, mSockets)
-----------------------------------------------------------------------------
(* The thread of connection c: read() until it returns false.              *)

(* The peer closed or sent what is no message, or the descriptor is closed. *)
ReadFails(c) ==
    /\ At(c, "read")
    /\ Go(c, IF disconnecting[c] THEN "delete"
             ELSE IF attached[c] THEN "hangup" ELSE "close")
    /\ UNCHANGED <<runVars, listVars, stopVars, sesVars, connVars, fdVars,
                   call, starts, stops>>

(* The first message of an unattached connection: a Logon or not.          *)
FirstMessage(c) ==
    /\ At(c, "read") /\ ~attached[c] /\ ~Closed(c)
    /\ \/ Go(c, "close") /\ UNCHANGED tries
       \/ Go(c, "admit") /\ tries' = [tries EXCEPT ![c] = Tries]
    /\ UNCHANGED <<runVars, listVars, stopVars, sesVars, attached,
                   disconnecting, fd, fdVars, call, starts, stops>>

(* Seeded error: the last look is not counted.                             *)
LookOnceMore(c) ==
    /\ At(c, "admit")
    /\ \/ ~registered /\ Go(c, "accept") /\ UNCHANGED tries
       \/ registered /\ tries' = [tries EXCEPT ![c] = @ - 1] /\ UNCHANGED pc
    /\ UNCHANGED <<runVars, listVars, stopVars, sesVars, attached,
                   disconnecting, fd, fdVars, call, starts, stops>>

(* setSession waits for the session to be free.                            *)
SetSession(c) ==
    /\ At(c, "admit")
    /\ \/ tries[c] = 0 /\ Go(c, "close") /\ UNCHANGED tries
       \/ /\ tries[c] > 0 /\ ~registered /\ Go(c, "accept")
          /\ tries' = [tries EXCEPT ![c] = 0]
       \/ /\ tries[c] > 0 /\ registered
          /\ tries' = [tries EXCEPT ![c] = @ - 1]
          /\ UNCHANGED pc
    /\ UNCHANGED <<runVars, listVars, stopVars, sesVars, attached,
                   disconnecting, fd, fdVars, call, starts, stops>>

(* acceptLogon up to fromAdmin, which runs with the mutex held.  A Logon   *)
(* with ResetSeqNumFlag passes while the session is logged on.             *)
AcceptLogon(c) ==
    /\ At(c, "accept") /\ busy = None
    /\ \/ Go(c, "close") /\ UNCHANGED busy
       \/ ~registered /\ enabled /\ Go(c, "fromAdmin") /\ busy' = c
    /\ UNCHANGED <<runVars, listVars, stopVars, enabled, registered, loggedOn,
                   responder, connVars, fdVars, call, starts, stops>>

(* Seeded error: the responder is not put back after a refusal.            *)
RefuseKeepsResponder(c) ==
    /\ At(c, "fromAdmin") /\ busy' = None /\ Go(c, "close")
    /\ Disconnect(c) /\ loggedOn' = FALSE /\ responder' = c
    /\ UNCHANGED <<runVars, listVars, stopVars, enabled, registered, tries,
                   attached, fd, used, newFd, call, starts, stops>>

(* The application rejects: refuseLogon answers through c, closes it and   *)
(* puts the previous responder back.                                       *)
RefuseLogon(c) ==
    /\ At(c, "fromAdmin") /\ busy' = None /\ Go(c, "close")
    /\ Disconnect(c) /\ loggedOn' = FALSE
    /\ UNCHANGED <<runVars, listVars, stopVars, enabled, registered,
                   responder, tries, attached, fd, used, newFd, call,
                   starts, stops>>

(* registerSession, setResponder and next(): the Logon is turned down, and *)
(* the responder and the registration put back, or it is taken.            *)
RegisterLogon(c) ==
    /\ At(c, "fromAdmin")
    /\ \/ /\ Disconnect(c) /\ loggedOn' = (loggedOn /\ registered)
          /\ busy' = None /\ Go(c, "close")
          /\ UNCHANGED <<registered, responder, attached>>
       \/ /\ ~registered /\ enabled
          /\ responder' = c /\ registered' = TRUE /\ loggedOn' = TRUE
          /\ attached' = [attached EXCEPT ![c] = TRUE]
          /\ Go(c, "onLogon")
          /\ UNCHANGED <<busy, disconnecting, owner>>
    /\ UNCHANGED <<runVars, listVars, stopVars, enabled, tries, fd, used,
                   newFd, call, starts, stops>>

(* A message or the timer, for a session that is logged on: callbacks run  *)
(* without the mutex (fromApp), or with it (toApp, in sendRaw).            *)
NextMessage(c) ==
    /\ At(c, "read") /\ attached[c] /\ ~Closed(c) /\ loggedOn
    /\ \/ Go(c, "fromApp") /\ UNCHANGED busy
       \/ busy = None /\ busy' = c /\ Go(c, "toApp")
    /\ UNCHANGED <<runVars, listVars, stopVars, enabled, registered, loggedOn,
                   responder, connVars, fdVars, call, starts, stops>>

(* The callback returns with the mutex held, and next() returns.           *)
Unlocks(c) ==
    /\ \/ pc[c] \in {"onLogon", "toApp", "onLogout"} /\ Go(c, "read")
       \/ pc[c] = "onLogoutLast" /\ Go(c, "delete")
    /\ call[c] = "none" /\ busy' = None
    /\ UNCHANGED <<runVars, listVars, stopVars, enabled, registered, loggedOn,
                   responder, connVars, fdVars, call, starts, stops>>

(* fromApp returns; the session may have to be disconnected.               *)
NextReturns(c) ==
    /\ At(c, "fromApp")
    /\ Go(c, "read") \/ Go(c, "drop")
    /\ UNCHANGED <<runVars, listVars, stopVars, sesVars, connVars, fdVars,
                   call, starts, stops>>

(* Session::disconnect, up to onLogout.                                    *)
Drop(c) ==
    /\ busy = None /\ busy' = c
    /\ \/ At(c, "drop") /\ Go(c, "onLogout")
       \/ At(c, "hangup") /\ Go(c, "onLogoutLast")
    /\ SessionDisconnect
    /\ UNCHANGED <<runVars, listVars, stopVars, enabled, registered, tries,
                   attached, fd, used, newFd, call, starts, stops>>

Close(c) ==
    /\ At(c, "close") /\ Disconnect(c) /\ Go(c, "delete")
    /\ UNCHANGED <<runVars, listVars, stopVars, sesVars, tries, attached, fd,
                   used, newFd, call, starts, stops>>

(* The destructor: setResponder(0), then unregisterSession.                *)
Delete(c) ==
    /\ At(c, "delete")
    /\ \/ ~attached[c] /\ Go(c, "remove") /\ UNCHANGED responder
       \/ /\ attached[c] /\ busy = None
          /\ responder' = None /\ Go(c, "unregister")
    /\ UNCHANGED <<runVars, listVars, stopVars, enabled, registered, loggedOn,
                   busy, connVars, fdVars, call, starts, stops>>

(* Seeded error: the registration outlives the connection.                 *)
UnregisterForgotten(c) ==
    /\ At(c, "unregister") /\ Go(c, "remove")
    /\ attached' = [attached EXCEPT ![c] = FALSE]
    /\ UNCHANGED <<runVars, listVars, stopVars, sesVars, tries,
                   disconnecting, fd, fdVars, call, starts, stops>>

Unregister(c) ==
    /\ At(c, "unregister") /\ registered' = FALSE /\ Go(c, "remove")
    /\ attached' = [attached EXCEPT ![c] = FALSE]
    /\ UNCHANGED <<runVars, listVars, stopVars, enabled, loggedOn, responder,
                   busy, tries, disconnecting, fd, fdVars, call, starts,
                   stops>>

Remove(c) == At(c, "remove") /\ Ends(c, {fd[c]})
-----------------------------------------------------------------------------
(* An application thread sends: sendRaw holds the mutex of the session     *)
(* while toApp runs, whether or not the session is logged on.              *)
SendApp(a) ==
    /\ At(a, "none") /\ busy = None /\ busy' = a /\ Go(a, "toApp")
    /\ UNCHANGED <<runVars, listVars, stopVars, enabled, registered, loggedOn,
                   responder, connVars, fdVars, call, starts, stops>>

(* toApp returns; the message is stored and goes out through the responder.*)
SendReturns(a) ==
    /\ At(a, "toApp") /\ busy' = None /\ Go(a, "none")
    /\ UNCHANGED <<runVars, listVars, stopVars, enabled, registered, loggedOn,
                   responder, connVars, fdVars, call, starts, stops>>
-----------------------------------------------------------------------------
(* stop() by thread t, and start() by Starter.  Workers are the threads    *)
(* whose activeAcceptor is this acceptor.                                  *)

Calls(t, where) == call' = [call EXCEPT ![t] = where]

InCallback(c) ==
    pc[c] \in {"fromAdmin", "onLogon", "fromApp", "toApp", "onLogout",
               "onLogoutLast"}

CallStop(t) ==
    /\ call[t] = "none" /\ stops < MaxStops /\ stops' = stops + 1
    /\ t \in Conns => InCallback(t)
    /\ t \in Apps => pc[t] \in {"none", "toApp"}
    /\ Calls(t, "lock")
    /\ UNCHANGED <<runVars, listVars, stopVars, sesVars, connVars, fdVars, pc,
                   starts>>

(* The application starts only an acceptor that is stopped.                *)
CallStart ==
    /\ At(Starter, "none") /\ starts < MaxStarts /\ starts' = starts + 1
    /\ mStop /\ ~processing
    /\ Go(Starter, "start") /\ Calls(Starter, "lock")
    /\ UNCHANGED <<runVars, listVars, stopVars, sesVars, connVars, fdVars,
                   stops>>

(* lockStopCleanup: a worker does not wait for the mutex.                  *)
LockStopCleanup(t) ==
    /\ call[t] = "lock"
    /\ \/ cleanup = None /\ cleanup' = t /\ Calls(t, "check")
       \/ /\ cleanup # None /\ t \in Conns /\ Calls(t, "none")
          /\ UNCHANGED cleanup
    /\ UNCHANGED <<runVars, listVars, wasEnabled, toClose, toJoin, sesVars,
                   connVars, fdVars, pc, starts, stops>>

(* Already stopped, or in start(): only a deferred cleanup is completed.   *)
CheckStopped(t) ==
    /\ call[t] = "check" /\ (mStop \/ pc[t] = "start")
    /\ mPending' = FALSE /\ wasEnabled' = FALSE
    /\ Calls(t, IF mPending THEN "grab" ELSE "return")
    /\ UNCHANGED <<mStop, processing, starter, listVars, cleanup, toClose,
                   toJoin, sesVars, connVars, fdVars, pc, starts, stops>>

(* Seeded error: the session is unregistered and stays enabled.            *)
UnregisterOnly(t) ==
    /\ call[t] = "check" /\ ~mStop /\ pc[t] # "start"
    /\ wasEnabled' = enabled
    /\ registered' = (registered /\ ~enabled)
    /\ Calls(t, "mark")
    /\ UNCHANGED <<runVars, listVars, cleanup, toClose, toJoin, enabled,
                   loggedOn, responder, busy, connVars, fdVars, pc, starts,
                   stops>>

(* The enabled session is told to log out and is unregistered.             *)
LogoutSession(t) ==
    /\ call[t] = "check" /\ ~mStop /\ pc[t] # "start"
    /\ wasEnabled' = enabled
    /\ enabled' = FALSE /\ registered' = (registered /\ ~enabled)
    /\ Calls(t, "mark")
    /\ UNCHANGED <<runVars, listVars, cleanup, toClose, toJoin, loggedOn,
                   responder, busy, connVars, fdVars, pc, starts, stops>>

(* After ten seconds at most, m_stop is set.                               *)
MarkStopped(t) ==
    /\ call[t] = "mark" /\ mStop' = TRUE /\ Calls(t, "grab")
    /\ UNCHANGED <<mPending, processing, starter, listVars, stopVars, sesVars,
                   connVars, fdVars, pc, starts, stops>>

Descriptors(threads) == {e[1] : e \in threads}

(* Seeded error: the descriptors of the connections are not closed.        *)
GrabSocketsOnly(t) ==
    /\ call[t] = "grab" /\ (t \in Apps => ~processing)
    /\ toClose' = mSockets
    /\ LET fromWorker == \E e \in mThreads : e[2] = t
       IN /\ toJoin' = IF fromWorker THEN {} ELSE {e[2] : e \in mThreads}
          /\ mThreads' = IF fromWorker THEN mThreads ELSE {}
          /\ mPending' = (mPending \/ fromWorker)
    /\ mSockets' = {} /\ Calls(t, "close")
    /\ UNCHANGED <<mStop, processing, starter, cleanup, wasEnabled, sesVars,
                   connVars, fdVars, pc, starts, stops>>

(* onStop(): the start thread has ended; a worker leaves the threads, and  *)
(* what remains of the cleanup, to a later call.                           *)
Grab(t) ==
    /\ call[t] = "grab" /\ (t \in Apps => ~processing)
    /\ LET fromWorker == \E e \in mThreads : e[2] = t
       IN /\ toClose' = IF mSockets = {} THEN {}
                        ELSE mSockets \cup Descriptors(mThreads)
          /\ toJoin' = IF fromWorker THEN {} ELSE {e[2] : e \in mThreads}
          /\ mThreads' = IF fromWorker THEN mThreads ELSE {}
          /\ mPending' = (mPending \/ fromWorker)
    /\ mSockets' = {} /\ Calls(t, "close")
    /\ UNCHANGED <<mStop, processing, starter, cleanup, wasEnabled, sesVars,
                   connVars, fdVars, pc, starts, stops>>

CloseNext(t) ==
    /\ call[t] = "close"
    /\ \/ \E n \in toClose :
            /\ toClose' = toClose \ {n}
            /\ owner' = [owner EXCEPT ![n] = Free]
            /\ UNCHANGED call
       \/ toClose = {} /\ Calls(t, "join") /\ UNCHANGED <<toClose, owner>>
    /\ UNCHANGED <<runVars, listVars, cleanup, wasEnabled, toJoin, sesVars,
                   connVars, used, newFd, pc, starts, stops>>

Join(t) ==
    /\ call[t] = "join" /\ \A w \in toJoin : pc[w] = "done"
    /\ toJoin' = {} /\ Calls(t, "return")
    /\ UNCHANGED <<runVars, listVars, cleanup, wasEnabled, toClose, sesVars,
                   connVars, fdVars, pc, starts, stops>>

(* The start thread is joined and the session enabled again.               *)
Return(t) ==
    /\ call[t] = "return" /\ (t \in Apps => ~processing)
    /\ cleanup' = None /\ wasEnabled' = FALSE
    /\ enabled' = (enabled \/ wasEnabled)
    /\ Calls(t, "none")
    /\ UNCHANGED <<runVars, listVars, toClose, toJoin, registered, loggedOn,
                   responder, busy, connVars, fdVars, pc, starts, stops>>

(* start() after the deferred cleanup.                                     *)
StartRuns ==
    /\ At(Starter, "start") /\ Go(Starter, "open")
    /\ processing' = TRUE /\ mStop' = FALSE
    /\ UNCHANGED <<mPending, starter, listVars, stopVars, sesVars, connVars,
                   fdVars, call, starts, stops>>

OpenListener ==
    /\ At(Starter, "open") /\ Go(Starter, "spawn")
    /\ \E n \in FDs : Take(n, Listener) /\ mSockets' = {n}
    /\ UNCHANGED <<runVars, mThreads, stopVars, sesVars, connVars, newFd,
                   call, starts, stops>>

SpawnStartThread ==
    /\ At(Starter, "spawn") /\ Go(Starter, "none") /\ starter' = "run"
    /\ UNCHANGED <<mStop, mPending, processing, listVars, stopVars, sesVars,
                   connVars, fdVars, call, starts, stops>>
-----------------------------------------------------------------------------
(* What a thread does by itself, once it may; and what it is given to do.  *)

StartThread == StartThreadRuns \/ StartThreadEnds

ListenerRuns ==
    \/ Spawn \/ ListenerEnds
    \/ ListenerLeaves /\ (mStop \/ ~Listening)

ConnectionRuns(c) ==
    \/ SetSession(c) \/ AcceptLogon(c) \/ RefuseLogon(c) \/ RegisterLogon(c)
    \/ Unlocks(c) \/ NextReturns(c) \/ Drop(c) \/ Close(c)
    \/ Delete(c) \/ Unregister(c) \/ Remove(c)
    \/ ReadFails(c) /\ Closed(c)

StopRuns(t) ==
    \/ LockStopCleanup(t) \/ CheckStopped(t) \/ LogoutSession(t)
    \/ MarkStopped(t) \/ Grab(t) \/ CloseNext(t) \/ Join(t) \/ Return(t)

StartContinues == StartRuns \/ OpenListener \/ SpawnStartThread

Input ==
    \/ CallStart \/ Accept \/ ListenerLeaves
    \/ \E t \in Callers : CallStop(t)
    \/ \E a \in Senders : SendApp(a)
    \/ \E c \in Conns : FirstMessage(c) \/ NextMessage(c) \/ ReadFails(c)

(* No thread is in a call, and every worker waits for its peer or is gone. *)
Quiet ==
    /\ \A t \in Callers : call[t] = "none" /\ (t \in Apps => pc[t] = "none")
    /\ \A w \in Workers : pc[w] \in {"none", "done", "read", "accept"}
    /\ ~processing
    /\ UNCHANGED vars

(* The thread of connection c waits for the mutex of the session.          *)
NeedsSession(c) ==
    \/ At(c, "accept") \/ At(c, "drop") \/ At(c, "hangup")
    \/ At(c, "delete") /\ attached[c]

(* stop() was called from toApp inside a send of an application thread, and*)
(* a thread that is to be joined needs the mutex which that send holds.    *)
StopInsideSend ==
    \E a \in Apps, c \in Conns \cap toJoin :
        busy = a /\ call[a] # "none" /\ NeedsSession(c)

(* Then none of the three gets any further.                                *)
Stuck == StopInsideSend /\ UNCHANGED vars

Next ==
    \/ Input \/ Quiet \/ Stuck \/ StartThread \/ ListenerRuns \/ StartContinues
    \/ \E c \in Conns : ConnectionRuns(c)
    \/ \E t \in Callers : StopRuns(t)
    \/ \E a \in Senders : SendReturns(a)

(* Threads that can run do, and a callback returns.  A mutex that is free  *)
(* again and again, between the sends of the application, is taken by a    *)
(* connection that waits for it.                                           *)
Fairness ==
    /\ WF_vars(StartThread) /\ WF_vars(ListenerRuns)
    /\ \A c \in Conns : WF_vars(ConnectionRuns(c) \/ StopRuns(c))
    /\ \A c \in Conns : SF_vars(AcceptLogon(c) \/ Drop(c) \/ Delete(c))
    /\ \A a \in Apps : WF_vars(\/ StopRuns(a) \/ SendReturns(a)
                               \/ a = Starter /\ StartContinues)

Spec == Init /\ [][Next]_vars

FairSpec == Spec /\ Fairness
-----------------------------------------------------------------------------
Places ==
    {"none", "done", "read", "accept", "spawn", "leave", "admit", "close",
     "fromAdmin", "onLogon", "fromApp", "toApp", "onLogout", "onLogoutLast",
     "drop", "hangup", "delete", "unregister", "remove", "start", "open"}

CallPlaces ==
    {"none", "lock", "check", "mark", "grab", "close", "join", "return"}

(* Type invariant.                                                         *)
TypeOK ==
    /\ {mStop, mPending, processing, enabled, registered, loggedOn,
        wasEnabled} \subseteq BOOLEAN
    /\ starter \in {"none", "run", "end"}
    /\ mSockets \subseteq FDs /\ toClose \subseteq FDs
    /\ mThreads \subseteq FDs \X Workers /\ toJoin \subseteq Workers
    /\ cleanup \in Callers \cup {None}
    /\ responder \in Conns \cup {None} /\ busy \in Callers \cup {None}
    /\ pc \in [Callers \cup {Listener} -> Places]
    /\ call \in [Callers -> CallPlaces]
    /\ tries \in [Conns -> 0 .. Tries]
    /\ attached \in [Conns -> BOOLEAN] /\ disconnecting \in [Conns -> BOOLEAN]
    /\ fd \in [Conns -> FDs \cup {NoFd}]
    /\ owner \in [FDs -> Workers \cup {Free, "accepted"}]
    /\ used \subseteq FDs /\ newFd \in FDs \cup {NoFd}
    /\ starts \in 0 .. MaxStarts /\ stops \in 0 .. MaxStops

(* The session never holds a responder whose connection object has been    *)
(* deleted: send() and disconnect() would use freed memory.                *)
ResponderAlive ==
    responder # None => pc[responder] \notin {"unregister", "remove", "done"}

(* While the acceptor runs, at most one connection owns the session,       *)
(* however many present a Logon at once and whoever is stopping it.        *)
OneOwner ==
    ~mStop => \A c, d \in Conns : attached[c] /\ attached[d] => c = d

(* The session is registered only on behalf of a connection that is alive  *)
(* or about to let it go: otherwise no peer could log on again.            *)
RegistrationOwned ==
    registered => \E c \in Conns : attached[c]

(* stop() of an application thread is a completion barrier: when it        *)
(* returns and the acceptor is stopped, no worker of it is alive, even if  *)
(* a callback had begun the stop.                                          *)
StopIsBarrier ==
    [][\A a \in Apps :
        call[a] # "none" /\ call'[a] = "none" /\ mStop'
            => \A w \in Workers : pc'[w] \in {"none", "done"}]_vars

(* Every stop() and start() returns, whichever threads call it and         *)
(* whatever the others are doing, with one exception: stop() from toApp    *)
(* inside an application thread's Session::send can wait for ever for a    *)
(* connection that waits for the session's mutex.  Otherwise no call is in *)
(* progress, again and again.                                              *)
StopReturns ==
    []<>(\A t \in Callers : call[t] = "none") \/ <>[]StopInsideSend
=============================================================================

# Verification of the FIX session engine

TLA+ models, TLC runs and TLAPS proofs for this engine: the session layer
(`src/C++/Session.cpp` and what it uses), its file store, its schedule, the
threads of the threaded acceptor, and the frame adapter that runs a session one
call at a time for a host with its own database. Paths below are relative to
the repository root.

## 1. The system

A FIX engine keeps a *session* with a counterparty: a bidirectional stream of
numbered messages that survives broken connections. Each side stores what it
sent; a gap in the numbers received is closed by a ResendRequest, answered with
the stored application messages and with gap fills for everything else.

| Component | State | Operations | Interaction |
|---|---|---|---|
| Session (`Session.cpp`, `Session.h`, `SessionState.h`) | Logon, Logout and reset flags, queue of early messages, requested resend range, test request count, responder | `next(message)`, `next(now)`, `send`, `acceptLogon`, `setResponder`, `disconnect`, `logon`, `logout`, `reset` | called by connections and by application threads; calls Application callbacks, the MessageStore and the Responder |
| MessageStore (`MessageStore.h`, `FileStore.cpp`, database stores) | next sender and target number, sent messages, creation time | `set`, `get`, `incr...`, `setNext...`, `reset`, `refresh` | called by the session |
| Connections (`SocketConnection.cpp`, threaded and SSL variants) | socket, parser buffer, send queue | `read`, `send`, `onTimeout` | hand messages to `Session::next`; the acceptor side admits the first Logon through `Session::acceptLogon` |
| Acceptor, Initiator | sessions, connected/pending sets, stop state | `start`, `poll`, `stop`, `connect` | create sessions and connections |
| TimeRange | session and logon schedule | `isInRange`, `isInSameRange` | asked by the session at every message and clock tick |
| Parser, Message, DataDictionary | byte buffer; fields; validation tables | extract, parse, validate | before `Session::next` |
| Infinite adapter (`InfiniteFrameAdapter.cpp`, `InfiniteSessionClassification.cpp`, `InfiniteCompleteFrame.cpp`) | an encoded session state (numbers, recovery, continuation) and at most one prepared plan | `prepare`, `resume`, `apply_committed`, `abort`, `session_create` | the host commits each plan with the new state; uses a detached Session to plan one frame |
| HTTP administration, logs, settings, SSL utilities | - | - | operator and I/O |

What is hard here, and what correctness means:

* **Ordering.** Messages arrive early, late, twice, or are gap filled while
  they wait in the queue. Correct: the application gets each message once and
  in order.
* **Failure.** A connection breaks with messages in flight in both directions,
  a process restarts on its store, a timeout races the answer. Correct: the
  two number pairs always allow the sessions to resynchronise, and
  nothing of an old connection (queue, resend range) influences the new one.
* **Concurrency.** Application threads send while the network thread works
  through its queue. Correct: store and sender number agree. Connection
  threads, the listener and callers of `start` and `stop` race. Correct: one
  connection owns a session, nobody uses a deleted connection, and `stop`
  returns when, and only when, every thread it answers for is gone.
* **Partial writes.** The file store keeps texts, index and numbers in separate
  files. Correct: what was transmitted can be read back, whatever stops the
  process between two system calls.
* **Handing state out.** The adapter's state leaves the process after each
  call. Correct: it can always come back, and recoveries continue where the
  peer is.
* **Hours.** Numbers live for one session period. Correct: they are reset
  between two periods and never within one.
* **Refusals.** Every message can be refused at many points (validation,
  schedule, CompIDs, the application). Correct: its number is used up exactly
  once, or not at all.
* **Liveness.** A gap counts as requested until it is closed. Correct: it is
  closed.

`PROJECT.json` lists each hazard at its line with the properties that cover it.

## 2. Modules

    FixMessages        messages, reduced to what Session.cpp reads of them
      Retransmit       MemoryStore::get and Session::generateRetransmits
        SessionCore    session state, send path, store, queue, disconnect
          SessionHandlers   verify, the handlers, next(message), next(now)
            Session         one endpoint, any counterparty   -> MCSession
              SessionProofs     theorems about Session
                NumberProofs    its numbers, and what was asked for
            SessionPair     two endpoints and a network      -> MCSessionPair
              SessionPairFair   with fairness                -> MCSessionPairFair
              PairProofs        theorems about SessionPair and Retransmit
    OrderedDelivery    what a pair of sessions promises (abstract)

    FileStore          FileStore.cpp, one action per system call
      StoreClient      a session that sends, delivers, resets on it -> MCStoreClient
        StoreProofs    theorems about StoreClient
    DurableStore       what a store promises across stops (abstract)

    ThreadedAcceptor   Acceptor, ThreadedSocketAcceptor, -Connection -> MCThreads
      ThreadedProofs   theorems about ThreadedAcceptor

    FrameState         the adapter's encoded state and validNativeState
      FrameAdapter     plans, commit, apply, recovery        -> MCAdapter
        FrameProofs    theorems about FrameAdapter
          RecoveryProofs    where its recoveries stand

    TimeRange          isInRange, isInSameRange
      Schedule         the session's use of them             -> MCSchedule
        ScheduleProofs theorems about both

### The session (FixMessages to SessionPairFair)

**State.** A session state is one record with the fields of `SessionState` and
`Session` under their own names (`receivedLogon`, `resendRange`, ...), the
MemoryStore (`nextSender`, `nextTarget`, `store`), a send that a reset overtook
(`race`, `sending`, below), and observers that no code reads (`out`, `got`,
`wiped`, `asked`, `torn`). `SessionCore` and
`SessionHandlers` define each C++ function as an operator from session state to
session state under the function's name; a handler's operator includes every
call it makes. Early returns and exceptions are the branches of these
operators. Application callbacks are a *verdict* chosen with the message;
validation, latency, CompID and OrigSendingTime checks are the message's
*grade*.

**Atomicity.** `Session::next` does not hold `m_mutex`, `sendRaw` does. In
`Session` one call of `next` is therefore several actions: the message
(`Receive`), each message taken from the queue (`Drain`), the clock after a
queued message (`ClockInDrain`), the retransmissions a Logon's
NextExpectedMsgSeqNum asks for (`SendRetransmits`) and the end of the call
(`DrainEnds`); the
application's `Send` and `Enable` (logon and logout) interleave with them.
`persist` and `disconnect` run under `m_mutex`; the expected number and the
queue are changed by the network thread alone. `SessionState::reset` is the
exception: the calls at `Session.cpp:455`, `466`, `576`, `961` and `Session.h:86`
do not take `m_mutex` (unless `acceptLogon` or `setResponder` holds it already)
and can fall inside an application thread's `sendRaw`, which has filled in its
number and not yet advanced it. `resetUnlocked` is such a reset. `Races` says
where it falls, before or after `m_state.set`, and whether the thread then ends
its send at once or only when the network thread needs the mutex
(`finishSend`, at the next `sendRaw` or `disconnect` or at the end of the
call). Which of these happen is the constant `Overtaken`; session_initiator
has all of them, and the proofs hold for any. A session whose store was left
like that is `torn` until the next reset.

**Time.** A timer is represented by the set of deadlines that are over.
`canHavePassed` keeps the sets consistent with the formulas of
`SessionState.h` (a test request is due at 1.2, the peer is given up at 2.4
heartbeat intervals). The schedule is one of four states: inside both ranges,
outside logon time, in a new session period, outside both.

**SessionPair** adds one TCP connection: in order, loses nothing while it
lasts, loses a suffix of each direction when it breaks (`Break`). `Crash` stops
a process between two calls and restarts it on its store; `GivesUp` is a Logon
or Logout timeout racing the answer; `Beat` is a Heartbeat that tells the other
side of a message it lacks (other Heartbeats only raise numbers). `Leaves`,
`Break` and `Crash` model the network and the process, which are not code of
the repository.

### The file store (FileStore, StoreClient, DurableStore)

The disk holds four files, each a sequence of texts, rows or one number pair;
the process holds the streams' unwritten data, the offsets and the cached
numbers. Each write, flush and unlink is an action of its own, so that
`Crash` falls between any two of them; `Fail` lets a write be refused, with
any prefix of a text written. `set` is `SetSeek`, `FlushBody` and
`FlushHeader`, `setSeqNum` one step (a row and a number pair are below the
size of a block and are written whole), `reset` the unlinks followed by
`open(true)`. `StoreClient` is the caller: `persist` then transmission,
`fromApp` then `incrNextTargetMsgSeqNum`, gap fills, resets, refreshes,
resends and restarts. `DurableStore` keeps the numbers and texts in one step
each; `KeepsRecords` is the refinement. `open` can fail to create a file or to
write to it (`OpenFails`); the constructor or `reset` then throws, and what
follows is a new process on the files that are there. Assumed: stdio drops what
it could not write when a stream is closed.

### Threads (ThreadedAcceptor)

One listener, the connection threads and application threads run one lock
region or one system call per action: `accept`, `addThread`, `removeThread`,
admission of the first Logon (`setSession`, `acceptLogon`, registration and
its failure paths), `disconnect` and the destructor, and `start`, `stop` and
the deferred cleanup of `Acceptor`, where a `stop` from a callback leaves the
work to the thread that can do it. Descriptors are numbers the system hands
out (`Take`); the constant that says whether a closed number is handed out
again separates threads_stop from threads_reuse. The session's mutex (`busy`)
is held by a connection thread that serves the session, or by an application
thread of `Senders` from `SendApp` to `SendReturns`, with `toApp` in between,
from where it may call `stop()`. `StopInsideSend` is the deadlock this allows
(section 5); `Stuck` lets the model stay in it.

### The frame adapter (FrameState, FrameAdapter)

`durable` is the state the host committed last, `cache` what the handle holds,
`plan` the plan under way, `rows` the host's stored frames. `prepare` makes a
plan, `resume` gives it the stored frames it asked for, `Commit` stores its
state and new frames in one transaction, `ApplyCommitted` moves the cache.
`Abort` and `HandleLost` may come at any point; `Create` checks the state with
`validNativeState`, which is modelled line by line for the outbound side. The
peer and the connection are external: the peer asks for what it misses, a
connection loses what was in flight. A frame is its number; an original
Logon response is told apart because recoveries wait for it.

### The schedule (TimeRange, Schedule)

A time is a number of units, `DayLength` to the day, so the arithmetic of
`DateTime` on dates, weekdays and seconds is kept and the calendar is not.
`Schedule` follows every entry of the session that looks at the clock:
construction, `doConnect` and `setResponder`, admission of a Logon, a message,
the timer. `Period`, `Length` and `Began` are the reference definition of an
occurrence of the hours and share nothing with `TimeRange`. The hours are all
that `SessionFactory` accepts (`Configured`). For daily hours with StartTime =
EndTime other than midnight (`RoundTheClock`) the code's session is the
calendar day and not the occurrence (section 5): `Keeps` and `Serves` say so,
and the properties are about calendar days there.

### Seeded errors

Definitions marked "Seeded error" are variants of the
definition that follows them. They are used by no specification; replacing the
definition by its variant must make a run fail, which shows that the property
depends on it.

## 3. Runs

| Run | Question | Bounds | Result |
|---|---|---|---|
| session_recovery | acceptor, messages in any order, every defect | numbers 1..3 inbound, MaxNum 5 | holds, 602,288 states |
| session_initiator | initiator, all types, defects, refusals, timers and schedules, Logon resets, ResetOnLogon, ResetOnLogout, ResetOnDisconnect, redundant requests, resets inside a send | MaxNum 4 | holds, 56,593 states |
| pair_recovery | two engines, 2 messages each, 2 failures | MaxNum 7 | holds, 1,682,687 states |
| pair_next789 | SendNextExpectedMsgSeqNum, with a failure, a logout and a later logon | MaxNum 7 | NeverAhead and NoneTwice hold, 2,551,171 states |
| pair_live | liveness, 1 message each, 2 failures | MaxNum 12 | holds, 264,668 states |
| store_files | FileStore with stops and failed writes | MaxNum 3, MaxRows 2, MaxFaults 2, MaxStops 1 | holds, 452,722 states |
| threads_stop | start, stop, Logons and sends of all threads | 2 application threads, one of which sends, 2 connections, 2 starts, 2 stops | holds, 687,462 states |
| adapter_recovery | adapter over lost connections, handles and plans | Bound 5, MaxPage 2, MaxUnits 2, MaxProbes 1, MaxLost 2, MaxStops 1 | holds, 474,822 states |
| schedule_hours | daily and weekly hours, restarts, silences | DayLength 4, three times of day, two weekdays, two weeks | holds, 482,318 states |
| pair_live789, threads_reuse, adapter_gapfill | what docs and tests say | - | violated, see section 5 |

### Bounds

Inbound numbers up to 3 with the Logon as number 1 allow a gap, the
message that fills it and one ahead of its turn; `MaxNum` leaves room for the
numbers a session uses for its own answers. In the pair runs the numbers reach
7 to 12: two Logons per failure, the resend requests and gap fills they cause,
and the messages. Steps that would pass `MaxNum` are not taken, so the
pair runs end there (`CHECK_DEADLOCK FALSE`); in `pair_live` the fairness below
does not push a process past the bound, so a recovery that needed larger
numbers would be reported as a violation.

In store_files two rows give a store a past and a present, two faults let one
failed write meet another, and one stop falls anywhere; a store that refuses
to open really stops (`CHECK_DEADLOCK FALSE`). With MaxRows 3 the run takes
2.0 million states and still holds. In threads_stop two connections are what a
race for one session needs, two starts and stops what a race of the life cycle
needs, one application thread that only stops and one that also sends what the
deadlock inside a send needs. In adapter_recovery Bound 5 is the largest number there is, so
exhaustion happens; pages of 2 leave a remainder; two lost connections let a
recovery be interrupted while it is being repeated. A session whose numbers
are used up, or that refuses every Logon, may stop (`CHECK_DEADLOCK FALSE`).
Bound 6 holds too (3.6 million states for safety, 1.57 million with one lost
connection for liveness). In schedule_hours three times of day and two
weekdays give every order of start and end, hours that are the whole day, from
midnight or from another time, included; two weeks reach the cases where
`isInSameRange` sees two times exactly seven days apart, in the same session
and in neighbouring ones. The clock stops at the end (`MaxTime`), where every
state still has a step.

### Properties

`InOrderDelivery`, `DeliveredBelowTarget`: fromApp gets increasing
numbers. `NothingOutlivesConnection`: queue and resend range are empty without
a Logon. `StoreMatchesSender`: the store holds exactly the numbers used; when a
reset fell inside a send, every number from 2 on, until the next reset.
`NumbersAdvance`: numbers go back only in a reset, and a message uses up at
most one. `GapRequested`: while messages wait, the gap before them has been
asked for, by a ResendRequest or by the NextExpectedMsgSeqNum that was really
sent. `KeepsPromise`: the pair implements `OrderedDelivery` (the numbers
given to accepted messages and those delivered are the same variables in both
specifications). `NeverAhead`: neither side expects a number the other has not
reached. `NoneTwice`: the safety left when Logouts may lose messages.
`AllDelivered`: everything is delivered in the end.

Store: `SentRecoverable`: whenever the files can be loaded, a transmitted
message can be read back from them (except after a failed number pair).
`OneTextPerNumber`: no number is transmitted with two texts (except after a
failed number pair, see section 5). `NothingSkipped`: no inbound message is
counted without having been delivered. `OnlyLastRedelivered`: without failed
writes, after a stop at most the last delivered message comes again.
`AlwaysOpens`: every start finds a store it accepts unless a write failed or an
earlier start or reset was cut short. `KeepsRecords`: the files implement
`DurableStore`.

Threads: `ResponderAlive`: a session's responder is a connection that exists.
`OneOwner`: while the acceptor runs, no two connections own one session.
`RegistrationOwned`: a registered session has a connection that will
unregister it. `StopIsBarrier`: when an application thread's call returns and
the acceptor is stopped, no worker thread is left, also if a callback began
the stop. `StopReturns`: every `start` and `stop` returns, unless the behaviour
ends in `StopInsideSend`.

Adapter: `Restorable`: every committed state passes `validNativeState` and no
call ends in an internal error. `NumbersIssuedOnce`: a plan numbers its frames
from the first number the host does not hold. `NoGapInRecovery`: a page never
starts beyond what the peer will have. `LowerLogonCovered`: the recovery a
Logon with a lower NextExpectedMsgSeqNum began ends with the peer past the
Logon response. `RecoveryEnds`: a recovery whose connection lasts ends.

Schedule: `KeptWithinSession`, `FreshNumbersPerSession` and `EndsWithSession`,
against the reference definition (against calendar days for `RoundTheClock`).

### Fairness

Sessions (`SessionPairFair`): both processes keep polling their connections
(`SocketMonitor::block` returns at least every second and calls the clock), the
initiator reconnects every ReconnectInterval, and an application that logged
out logs on again. Nothing is assumed of failures, which are bounded, or of
sending. Weak fairness of a network thread is written with a variable `turn`
that flips at each of its steps, because TLC evaluates `ENABLED` of the whole
handler too slowly; `CanRun` is the guard that stands for it.

Threads (`ThreadedAcceptor`): weak fairness of each thread, so a thread whose next step
stays possible takes it: callbacks return, system calls that were woken go on.
A connection that waits for the session's mutex gets it (strong fairness of
the steps that take it) when it is free again and again, as it is between the
sends of an application thread. That is an assumption about the system's
mutexes: without it an application that never stops sending could keep a
connection, and the `stop` that joins it, waiting.
A Logon that waits for a busy session looks again a bounded number of times, as
the code's loop does (`Tries`).
Nothing is assumed of clients or of calls to `start` and `stop`.

Adapter (`FrameAdapter`): the host calls again while the adapter says there is
more, commits and applies the plans it asked for, re-creates a lost handle and
hands frames over while the connection lasts. Strong fairness of `Continue`,
because a stored retransmission may be prepared instead any number of times
before it. Aborts, lost handles and lost connections are bounded, never fair.

Schedule: the connection's timer fires while there is a connection
(`SocketConnection::onTimeout` once a second). Time itself need not pass.

## 4. Proofs

### Session

`SessionProofs` proves for all settings, inbound message sets, refusals,
schedules, timers and bounds (assumptions `SettingsAssumption` and
`SessionAssumption`: the constants have their types and no message is numbered
0):

* `InvHolds`: the inductive invariant `Inv`;
* `TypeCorrect`, `ConnectionSafe`, `StoreComplete`, `DeliveredBelow`: the
  invariants of the runs, with resets inside a send (`Overtaken`) wherever they
  can fall;
* `InOrder`: the action property `InOrderDelivery`.

The code composes small functions, so the proof is about operators. `SInv` is
an invariant of a session state that holds between any two of them; `Talks`
(keeps the Logon flags), `Call` (may close or open the session) and `Served`
(may also deliver the expected message) relate the states before and after an
operator and compose. One lemma per C++ function, then one case per action.
`Inv` is stronger than the properties where induction needs it: a Logon flag
implies a connection *inside* a handler too, the queue and range are empty
without a flag (needed when a refused Logon lets go of its socket without
`disconnect()`), and the store is complete at each operator, also while a send
waits that a reset overtook: `persist()` adds one number only, and what that
send adds when it ends is number 1 or an old number. The messages handed to the
responder (`out`) are left untyped here, with a counterparty that sends
anything; what they are is the subject of `PairProofs`.

`NumberProofs` adds `OneNumberPerMessage` (the action property
`NumbersAdvance`) for all parameters, and `GapsAreRequested` (`GapRequested`)
under the hypothesis `PlainRecovery`: no Logon resets the numbers during a
session, and SendNextExpectedMsgSeqNum is off. It composes the operators once
more, with relations that say what a call does to the expected number (`Idles`:
nothing, `Uses`: at most one) and to the requests. `GapRequested` is not
inductive: `doTargetTooHigh` does not repeat a request while `resendRange` says
that there is one, so `GapAsked` demands a request behind the range as well as
behind the queue. The hypothesis is needed, and session_recovery satisfies it:
TLC refutes `GapAsked` when Logons carry ResetSeqNumFlag, and, separately, for
an acceptor with ResetOnLogon that gets a second Logon after its own Logout.
Both are the reset of section 5 that keeps the old queue and range. With
SendNextExpectedMsgSeqNum an acceptor queues an early Logon after a reply that
asks for one number too many, and nothing asks for the gap: finding 1.

### Pair

`PairProofs` proves, for every number of messages, broken connections, crashes,
timeouts and Logouts, every MaxNum, with and without SendNextExpectedMsgSeqNum
and redundant resend requests (`PairAssumption`, `SettingsAssumption`: the
constants have their types):

* `RetransmitsCover`: the answer to a ResendRequest for numbers the store holds
  leads from the first number to just past the last, without a gap, an overlap
  or a step back, whatever the application withholds;
* `PairInvariant`: the inductive invariant `PairInv`;
* `PairNeverAhead` (`NeverAhead`) and `PairNoneTwice` (`NoneTwice`);
* `PairKeepsPromise`: the pair implements `OrderedDelivery`.

The hypotheses are settings. `NoResets`: none of ResetOnLogon, ResetOnLogout,
ResetOnDisconnect is set, since a reset of one side is meant to take the other
ahead. The refinement needs `Lasting` too: messages are persisted, because
what is not stored is gap filled, and no application logs out, because a Logout
across a gap uses up the number of a missing message (section 5). pair_recovery
satisfies both, pair_next789 the first.

None of the properties is inductive: all of them depend on messages still under
way, which a state of the numbers does not show. `PairInv` says of each side

* `Ready`: it expects at most what the other sends next, its store holds what
  it numbered, application messages under the numbers in `accepted` and no
  others, and what it owes after a Logon was used;
* `Flowing`: each message under way to it, or in its queue, is one its sender
  can have sent (`Sent`): below the sender's next number, an application
  message under an accepted number, a gap fill (`Fills`) that ends at or below
  the sender's next number and, if `Lasting`, passes over no application
  message, a ResendRequest or NextExpectedMsgSeqNum for a number its receiver
  has used. A message under way that is not a retransmission is at or above
  the expected number, behind everything sent before it and behind everything
  in the queue: this is why `doTargetTooLow` never ends the session, although
  retransmissions overlap new messages;
* `Handed`: what was delivered is an increasing part of what was accepted,
  below the expected number, and, if `Lasting`, all that is accepted below it.

As in `SessionProofs` the argument is about operators. `Talks` relates the
states around a call that only sends, `Takes` around one that handles a
message: the expected number stays, moves past the message's own number (with a
delivery if it is the application's), or moves to where a gap fill leads. One
lemma per C++ function, one per action.

`generateRetransmits` is a recursive function over the store. The library's
induction theorems cannot be used (they take an operator as parameter); instead
`SetInduction` is derived from `WFMin` and `NatLessThanWellFounded`, which are
about sets: the numbers not in a set that holds 0 and all successors would have
a least one. `LoopRuns` shows with it that the loop's recursive definition has
a solution, and the lemmas after it what the solution is. TLC confirms `PairInv`
on all states of pair_recovery and pair_next789, and of pair_recovery without
persisted messages.

### Schedule

`ScheduleProofs` proves, for every length of the day, all hours a configuration
can give and every last time of the clock: `SameRangeIsSameSession`, that
`isInSameRange` agrees with the reference definition or, for daily hours with
StartTime = EndTime other than midnight, with the calendar day; from it `NumbersKept`
(`KeptWithinSession`) and `FreshNumbers` (`FreshNumbersPerSession`); and
`ScheduleTypes`. Assumptions: a day has a unit (`TimeRangeAssumption`), the
hours are configured ones (`RangesAssumption`), the clock reaches the end of
the first week (`MaxTimeAssumption`, so that every initial state is one of its
times).

`isInSameRange` works with dates, weekdays and times of day, the reference
(`Began`, `Length`) with one modulus. A lemma per form of the hours (within a
day, a whole day, over midnight, over several weekdays, a whole week)
shows that the beginning of the occurrence lies `k` days before the date, with
`k` given by the weekday, and compares the cases. One more lemma
(`RoundTheClockIsADate`) is for the hours that go round the clock.

### File store

`StoreProofs` proves, for all texts and sizes, bounds, failed writes and stops
(`FileStoreAssumption`, `StoreClientAssumption`: positive bounds, MaxIn at most
MaxNum): `StoreInv`, the inductive invariant; `StoreTypeCorrect`,
`SentSurvives`, `SingleText`, `NoneSkipped`, `StoreOpens` and `RedeliversLast`,
the properties of store_files; and `FilesAreDurable`, the refinement.

The properties are about what was transmitted; what keeps them is about the
files. `CountedOK` is the heart: every number below the one in the files, or in
memory, has a last row that reads one of the texts back, whatever write failed.
It survives because rows are only appended, above the numbers counted, and
because a text is never overwritten. `SetOK` and `OpenOK` say how far a `set`
or an `open` between two system calls has come; `NumbersOK` that memory is at
or ahead of the files, and equal to them unless a number pair failed (`lag`);
`FaultFree` that without failed writes the index never runs ahead of the texts.
An `open` that gives up leaves files like a stop inside it does. That the rows
of a number have a last one is a conjunct (`HasLast`) which each append keeps,
so nothing has to be proved by induction over the file.

In the refinement most steps stutter: rows and texts written above the counted
numbers do not show in the record. `setSeqNum` is the abstract `Advance`; the
first unlink of a reset is where the record is lost (`Lose`), the last write
of `open` where there is one again (`Renew`).

### Threads

`ThreadedProofs` proves, for any number of connections, application threads,
sends, descriptors, starts and stops, whether or not descriptors are reused:
`AcceptorInv`, `ThreadsTypeCorrect`, `ResponderSafe` and `RegistrationSafe`.
Their invariant says between which places of its thread a connection owns the
session, and that the responder is one that does and is not yet in its
destructor.

`SingleOwner` and `StopBarrier` have the hypothesis that a closed descriptor
number is not handed out again (`Reuse` is FALSE); threads_reuse shows that
`StopIsBarrier` fails otherwise, and TLC refutes `OneOwner` too with three
connections. `BarrierInv` is larger: who holds the cleanup mutex and what the
`stop` inside it has reached (`MutexOK`, `StopOK`); that a stopped acceptor
nobody is cleaning up is clean (`StoppedOK`), on which `start` relies
(`StartOK`); that every thread alive is in the list or about to be joined
(`ThreadsOK`), which holds only because an entry of the list is the connection
that has this descriptor (`EntriesOK`, `DescriptorsOK`); and that a session
which is not registered but still owned is disabled, so no second Logon gets
it (`OwnerOK`, `EnabledOK`).

### Frame adapter

`FrameProofs` proves for every bound of the numbers, page size, number of
application frames, lost connections and handles (the assumption on the
constants in `FrameAdapter`): `AdapterInv`, the inductive invariant;
`AdapterTypeCorrect`, `AlwaysRestorable` and `IssuedOnce`, the first three
properties of adapter_recovery.

`Restorable` is not inductive: a plan is made from the cache and committed
later, so a bad plan is a bad state two steps before it shows.
`Inv == TypeOK /\ validNativeState(durable) /\ Agreed /\ PendingOK` adds what
is missing. `Agreed`: the cache is the committed state, unless a committed plan
has not been applied yet. `PendingOK`: the state of a plan under way is itself
valid and its sender number follows the host's frames and its own; a plan that
still waits for stored frames continues at the recovery's cursor and ends
within its range; a state that closes the session is planned only for a
connection that is lost. One lemma per planning function shows that what it
plans is valid, one case per action closes the induction.

`RecoveryProofs` proves `NoGapEver` (`NoGapInRecovery`) and
`LowerLogonAlwaysCovered` (`LowerLogonCovered`) from the same assumption. Both
speak about the end of a recovery or a page that is ready, many steps after
the Logon or ResendRequest that fixed where the recovery starts. `RInv`
carries the reason along. `Covered`, of the committed state: on a connection
on which the peer said what it misses, the cursor of a direct recovery is at
or below where the peer will be; a recovery that began with a Logon response
is still before the range, or in it with the cursor at or below the peer and
the range ending at that response, or filling the response itself, or over with
the peer past it. `PlanCovered`: the same of the plan under way, with the peer
where the plan's own frames bring it. `RangeKnown`: the number a Logon named is
not above what the peer expects now, and a ResendRequest's range was issued;
the second is what makes a rewind (`Reattached`) safe when the Logon names the
number after the last one handed over. TLC confirms `RInv` on all states of
adapter_recovery.

### Only model-checked

Liveness, which under fairness is outside the prover's reach: `AllDelivered`,
`StopReturns`, `RecoveryEnds` and `EndsWithSession`. Every other property of
the runs that pass is a theorem, under the hypotheses named above.

## 5. Findings

1. **NextExpectedMsgSeqNum of the acceptor's reply is one too high when the
   Logon is early** (`Session.cpp:992`, run pair_live789). The initiator
   retransmits from the second missing message, the acceptor considers the gap
   requested: the first missing message never arrives on this connection.
2. **A connection thread may remove another connection's entry**
   (`ThreadedSocketAcceptor.cpp:223`, run threads_reuse). It closes its
   descriptor before `removeThread(socket)`; the system may have given the
   number to a new connection, whose thread is then neither closed nor joined
   by `stop()`, although the test at `SocketAcceptorTestCase.cpp:396` calls
   stop "an external completion barrier".
3. **A ResendRequest during an unfinished application block is answered with
   one gap fill** (`InfiniteFrameAdapter.cpp:2868`, run adapter_gapfill). The
   governed recovery requires that no continuation is open; otherwise the
   planning session, whose store is empty, declares the applications already
   sent void.

Also seen, without a run (file names without a directory are in `src/C++`):

*Session.*
* A Logout across a gap uses up the number of a missing message
  (`Session.cpp:574`) and so does a Reject ahead of its turn
  (`Session.cpp:585`), against "If message sequence number is too high, send a
  resend request for missing messages"
  (`test/definitions/server/fix44/2b_MsgSeqNumTooHigh.def:1`).
* A Logon reset during a session keeps the old queue and resend range
  (`Session.cpp:455`).
* A reset without `m_mutex` (`Session.cpp:455`, `466`, `576`, `961`,
  `Session.h:86`) can fall inside an application thread's `sendRaw`. The
  message then goes out and is stored under its old number while the sender
  number becomes 2, or is not stored at all; number 1 is used up and may be
  missing.
  A Logon generated after it no longer finds both numbers at 1 and goes out
  without ResetSeqNumFlag. The variable `torn` marks these states;
  `StoreMatchesSender` says what is left of the store.
* After a logout timeout the heartbeat timers still run on the disconnected
  session and use up a number (`Session.cpp:290`), also when ResetOnDisconnect
  has just set it to 1 ("reset to 1 after an abnormal termination",
  `doc/html/configuration.html:380`).
* A refused initial Logon is answered with a Logout that uses a number
  (`Session.cpp:354`); `configuration.html:400` says it is not, while
  `SocketConnectionTestCase.cpp` expects it.
* ResetOnLogon resets for initiators too (`generateLogon`, documented as
  acceptors only). An application message sent while the Logon is pending is
  stored but only sent after the next message or Heartbeat reveals it. A
  message with a wrong BeginString is answered with a Logout and uses up a
  number without a disconnect. Further sends postpone the logout timeout,
  because it counts from the last message sent.

*File store.*
* When the number pair cannot be written, the cache stays ahead of the file
  (`FileStore.cpp:424`): a resend of that message followed by a crash lets its
  number be used again with another text. The variable `lag` marks these
  states.
* A failed body write leaves its row in the header stream; a later flush writes
  it, and the store no longer opens ("Invalid message header range").
* A stop inside a reset or the first creation leaves incomplete files, which
  `open` refuses until someone repairs them.
* `MemoryStore::get` returns nothing when the first number is missing;
  `FileStore::get` goes through the whole range. `StoreMatchesSender` excludes
  the case, except for a store that a reset inside a send left without number 1.

*Threads.*
* `onStop` and `disconnect()` may both close a connection's descriptor, while a
  comment (`ThreadedSocketConnection.cpp:101`) expects one owner.
* `start()` on a running threaded acceptor is not recognised once `onStart` has
  returned: the bind fails, and a later `stop()` closes and joins nothing.
* `stop()` from `toApp` inside an application thread's own `Session::send`
  (mutex at `Session.cpp:809`) joins connection threads that may wait for that
  mutex in `acceptLogon` or `disconnect`: none of them gets any further. TLC
  reaches this state (`StopInsideSend`), the one exception `StopReturns` makes.
* A `stop` called from a connection thread enables the session again before the
  other connection threads are gone.

*Frame adapter.*
* When the connection breaks before a Logon response below the last number has
  been received, some recoveries refuse every later Logon.
* A detached recovery that began with NextExpectedMsgSeqNum accepts only a
  Logon with the same value, and no reset.
* A Logon that starts such a recovery, or an administrative message ahead of
  its turn, replaces the continuation of an unfinished application block.
* With a weekly schedule a Logout sent and one test request outstanding is a
  state `validNativeState` refuses.

*Schedule.*
* Daily hours with StartTime = EndTime: `isInSameRange` compares dates
  (`TimeRange.cpp:135`), so numbers are reset at midnight instead of at
  StartTime (`doc/html/configuration.html:209`, "Time of day that this FIX
  session becomes activated"), and the numbers reset after midnight serve past
  the next StartTime. The properties of the schedule say so of these hours
  (`RoundTheClock`); from midnight to midnight both are the same.
* For hours over midnight the instant EndTime is inside the range but no longer
  in the same session, so a reset may come one second early; `Within` and
  `Reaches` leave that instant open.
* `send()` does not look at the schedule: a message sent outside the hours is
  dropped by the next reset.

## 6. Abstractions and what is left out

* Session: detached mode, RefreshOnLogon, operator calls that set numbers or
  reset a session, HeartBtInt 0, versions before FIX.4.2, messages that cannot
  be parsed, exceptions of `acceptLogon` hooks. `MemoryStore` stands for the
  store in `Session`; failures of a store are in `StoreClient`.
* FileStore: `setNextSenderMsgSeqNum`, files that cannot be deleted, contents
  nobody wrote, a program that goes on after `reset` threw.
* Threads: `block` and `poll`, the HTTP server, threads that cannot be spawned,
  exceptions in `start`, `start` from a callback, the initiator.
* Frame adapter: the target's numbers, gap queue and frontier, the reset of an
  epoch, the weekly schedule, read results (which continue like application
  blocks), the retry with a larger output buffer, and the disconnect after a
  bad message (which acts like a Logout). The peer asks only for numbers that
  were sent. These are the adapter's other half and the largest part of the
  repository's own code still missing.
* Schedule: local time and daylight saving, NonStopSession, a clock that goes
  back (where `isInSameRange` forgets the part of the session already over).
* Not modelled at all, see `components` in `PROJECT.json`: message and
  dictionary classes (tables and data conversion, most of them generated from
  the FIX dictionaries), the language bindings under `src/python` and
  `src/ruby` and the vendored XML parser (generated or third-party), database
  stores and logs, SSL, settings, HTTP.

## 7. Plan

Done so far: the session, its composition, the file store, the threads and
life cycle of the acceptor, the outbound side of the frame adapter and the
schedule, each with proofs of all its safety properties. Next, in this order:

1. The inbound side of the frame adapter: target numbers, gap queue, frontier,
   reset of an epoch.
2. `Parser`: extraction of messages from any fragmentation of a stream.
3. `SendQueue`: partial writes of SocketConnection; the initiator's life cycle;
   timers with a clock in ticks, from which the deadline sets of
   `canHavePassed` follow.
4. The pair with ResetOnLogon and ResetOnDisconnect: which messages a reset may
   lose, as an abstract specification.

--------------------------- MODULE AmqpConnector ---------------------------
(***************************************************************************)
(* The AMQP connector of the chat server                                   *)
(* (chat_app/packages/amqp-connector/src/index.ts, class AMQPConnector).   *)
(*                                                                         *)
(* The connector is a single-threaded object whose methods are             *)
(* asynchronous: each stretch of code between two awaits is one action,    *)
(* and the operations in flight (build, close, a reconnection attempt, the *)
(* recreation of a channel) interleave at their awaits.  'close' listeners *)
(* run synchronously while the library reports a loss: the ones still to   *)
(* run are counted in chanEvents and connEvents, and nothing else happens  *)
(* until they have run.  After them, and before any new answer of the      *)
(* broker, run the operations whose awaited request was just rejected.     *)
(*                                                                         *)
(* The broker and the amqplib objects (which connections and channels are  *)
(* open, which listeners they carry, which channels consume) are external  *)
(* and are modelled from how the connector uses them.                      *)
(***************************************************************************)
EXTENDS Integers

CONSTANTS
    Tasks,            \* slots for asynchronous operations in flight
    Conns,            \* identities of amqplib connections
    Chans,            \* identities of amqplib channels
    Timers,           \* identities of setTimeout handles
    None,             \* JavaScript's undefined
    Configs           \* the configurations and bounds considered

ASSUME IdentityAssumption ==
    /\ Tasks \subseteq Nat /\ Conns \subseteq Nat
    /\ Chans \subseteq Nat /\ Timers \subseteq Nat
    /\ None \notin Nat

\* enabled and maxRetries are the connector's reconnectionConfig (0 retries
\* for unlimited).  lateReject says whether createChannel on a connection that
\* is being torn down may be rejected (if not, it never settles).  builds,
\* closes and faults bound the calls of build() and close(), and the losses
\* and refusals by broker or network.
Config == [enabled : BOOLEAN, maxRetries : Nat, lateReject : BOOLEAN,
           builds : Nat, closes : Nat, faults : Nat]

ASSUME ConfigAssumption == Configs \subseteq Config

VARIABLES
    state,        \* connectionState
    intentional,  \* isIntentionalClose
    conn,         \* connection
    chan,         \* channel
    tag,          \* consumerTag # undefined
    attempts,     \* reconnectAttempts
    timerId,      \* reconnectTimeoutId
    timers,       \* armed timers, referenced by timerId or not
    tasks,        \* asynchronous operations in flight
    connOpen,     \* open connections
    connHooks,    \* 'close' listeners registered on each open connection
    chanOf,       \* connection of each open channel, None when not open
    chanHooks,    \* 'close' listeners registered on each open channel
    consuming,    \* open channels with a consumer on the queue
    chanEvents,   \* 'close' listeners of channels still to be called
    connEvents,   \* 'close' listeners of the lost connection still to be called
    lost,         \* the connection being torn down, None for a lone channel
    started,      \* history: build() resolved and close() was not called since
    builds, closes, faults,
    config        \* this connector's configuration, never changed

thisVars   == <<state, intentional, conn, chan, tag, attempts>>
timerVars  == <<timerId, timers>>
brokerVars == <<connOpen, connHooks, chanOf, chanHooks, consuming>>
eventVars  == <<chanEvents, connEvents, lost>>
countVars  == <<builds, closes, faults>>
vars == <<thisVars, timerVars, tasks, brokerVars, eventVars, started, countVars,
          config>>

ReconnectEnabled == config.enabled
MaxRetries == config.maxRetries
LateReject == config.lateReject

ConnectionState == {"disconnected", "connecting", "connected", "reconnecting"}

Kinds == {"none", "build", "close", "attempt", "recreate"}

\* What the operation awaits: the broker's answer to connect, createChannel,
\* the three declarations, consume; or, inside cleanupResources, to cancel,
\* the channel's close and the connection's close.
OnConn == {"create", "closeConn"}
OnChan == {"declare", "consume", "cancel", "closeChan"}

\* `on' is the connection or channel the awaited request was sent on;
\* `failed' says that cleanupResources runs in a catch block.
Task == [kind : Kinds, pc : {"none", "connect"} \cup OnConn \cup OnChan,
         on : Conns \cup Chans \cup {None}, failed : BOOLEAN]
NoTask == [kind |-> "none", pc |-> "none", on |-> None, failed |-> FALSE]

\* Every variable has its type.
TypeOK ==
    /\ state \in ConnectionState
    /\ intentional \in BOOLEAN
    /\ conn \in Conns \cup {None}
    /\ chan \in Chans \cup {None}
    /\ tag \in BOOLEAN
    /\ attempts \in Nat
    /\ timerId \in Timers \cup {None}
    /\ timers \in SUBSET Timers
    /\ tasks \in [Tasks -> Task]
    /\ connOpen \in SUBSET Conns
    /\ connHooks \in [Conns -> Nat]
    /\ chanOf \in [Chans -> Conns \cup {None}]
    /\ chanHooks \in [Chans -> Nat]
    /\ consuming \in SUBSET Chans
    /\ chanEvents \in [Chans -> Nat]
    /\ connEvents \in Nat
    /\ lost \in Conns \cup {None}
    /\ started \in BOOLEAN
    /\ builds \in Nat /\ closes \in Nat /\ faults \in Nat
    /\ config \in Config

Init ==
    /\ state = "disconnected" /\ intentional = FALSE
    /\ conn = None /\ chan = None /\ tag = FALSE /\ attempts = 0
    /\ timerId = None /\ timers = {}
    /\ tasks = [t \in Tasks |-> NoTask]
    /\ connOpen = {} /\ connHooks = [c \in Conns |-> 0]
    /\ chanOf = [h \in Chans |-> None] /\ chanHooks = [h \in Chans |-> 0]
    /\ consuming = {}
    /\ chanEvents = [h \in Chans |-> 0] /\ connEvents = 0 /\ lost = None
    /\ started = FALSE /\ builds = 0 /\ closes = 0 /\ faults = 0
    /\ config \in Configs

-----------------------------------------------------------------------------
(* Scheduling: listeners first, then rejected requests, then all the rest. *)

Drained == connEvents = 0 /\ \A h \in Chans : chanEvents[h] = 0

\* The awaited request cannot be answered any more: its target is gone.
ChanOpen(h) == h \in {x \in Chans : chanOf[x] # None}
Rejected(t) == \/ tasks[t].pc \in OnConn /\ tasks[t].on \notin connOpen
               \/ tasks[t].pc \in OnChan /\ ~ ChanOpen(tasks[t].on)

Quiet == Drained /\ \A t \in Tasks : ~ Rejected(t)

Awaits(pc, x) == \E t \in Tasks : tasks[t].pc = pc /\ tasks[t].on = x

\* A connection or channel whose close was requested answers nothing else.
ConnAnswers(c) == c \in connOpen /\ ~ Awaits("closeConn", c)
ChanAnswers(h) == /\ ChanOpen(h) /\ ~ Awaits("closeChan", h)
                  /\ ConnAnswers(chanOf[h])
Answers(t) == IF tasks[t].pc \in OnConn THEN ConnAnswers(tasks[t].on)
                                        ELSE ChanAnswers(tasks[t].on)

\* A second close of the same object is rejected at once.
ConnToClose == IF Awaits("closeConn", conn) THEN None ELSE conn
ChanToClose == IF Awaits("closeChan", chan) THEN None ELSE chan

Free == {t \in Tasks : tasks[t].kind = "none"}
Idle(kinds) == \A t \in Tasks : tasks[t].kind \notin kinds

\* An identity is given out again once nothing refers to the object it named.
Lowest(S)  == {x \in S : \A y \in S : x <= y}
FreshTimer == Lowest(Timers \ (timers \cup {timerId}))
FreshConn  == Lowest({c \in Conns : /\ c \notin connOpen /\ c # conn /\ c # lost
                                    /\ \A pc \in OnConn : ~ Awaits(pc, c)})
FreshChan  == Lowest({h \in Chans : /\ chanOf[h] = None /\ h # chan
                                    /\ \A pc \in OnChan : ~ Awaits(pc, h)})

Fault == faults < config.faults /\ faults' = faults + 1
NoFault == UNCHANGED faults

Await(t, kind, pc, on, failed) ==
    tasks' = [tasks EXCEPT ![t] = [kind |-> kind, pc |-> pc, on |-> on,
                                   failed |-> failed]]
Done(t) == tasks' = [tasks EXCEPT ![t] = NoTask]

\* Channel h closes; its listeners are to be called.
LoseChan(h) ==
    /\ chanOf' = [chanOf EXCEPT ![h] = None]
    /\ chanHooks' = [chanHooks EXCEPT ![h] = 0]
    /\ consuming' = consuming \ {h}
    /\ chanEvents' = [chanEvents EXCEPT ![h] = chanHooks[h]]
    /\ lost' = None
    /\ UNCHANGED <<connOpen, connHooks, connEvents>>

\* Connection c closes: the library closes its channels, then reports the
\* connection's own close.
LoseConn(c) ==
    LET gone == {h \in Chans : chanOf[h] = c} IN
    /\ connOpen' = connOpen \ {c}
    /\ connHooks' = [connHooks EXCEPT ![c] = 0]
    /\ chanOf' = [h \in Chans |-> IF h \in gone THEN None ELSE chanOf[h]]
    /\ chanHooks' = [h \in Chans |-> IF h \in gone THEN 0 ELSE chanHooks[h]]
    /\ consuming' = consuming \ gone
    /\ chanEvents' = [h \in Chans |-> IF h \in gone THEN chanHooks[h] ELSE 0]
    /\ connEvents' = connHooks[c]
    /\ lost' = c

-----------------------------------------------------------------------------
(* scheduleReconnection, clearing the timer, entering cleanupResources *)


\* Mutant: gives up one retry too early.
ScheduleReconnectionOffByOne ==
    IF MaxRetries > 0 /\ attempts + 1 >= MaxRetries
    THEN state' = "disconnected" /\ UNCHANGED <<attempts, timerVars>>
    ELSE \E i \in FreshTimer : /\ attempts' = attempts + 1 /\ state' = "reconnecting"
                               /\ timerId' = i /\ timers' = timers \cup {i}

ScheduleReconnection ==
    IF MaxRetries > 0 /\ attempts >= MaxRetries
    THEN /\ state' = "disconnected"
         /\ UNCHANGED <<attempts, timerVars>>
    ELSE \E i \in FreshTimer :
         /\ attempts' = attempts + 1
         /\ state' = "reconnecting"
         /\ timerId' = i
         /\ timers' = timers \cup {i}

ReconnectUnlessClosed ==
    IF ~ intentional /\ ReconnectEnabled
    THEN ScheduleReconnection
    ELSE UNCHANGED <<state, attempts, timerVars>>

ClearTimer == timers' = timers \ {timerId} /\ timerId' = None

\* The code of cleanupResources up to its first await; `tagged' is the value
\* of consumerTag # undefined at that point.
StartCleanup(t, kind, failed, tagged) ==
    IF tagged /\ chan # None
    THEN Await(t, kind, "cancel", chan, failed) /\ UNCHANGED timerVars
    ELSE Await(t, kind, "closeChan", ChanToClose, failed) /\ ClearTimer

-----------------------------------------------------------------------------
(* Calls of the owner *)

Build(t) ==
    /\ Quiet /\ t \in Lowest(Free)
    /\ builds < config.builds /\ Idle({"build", "close"}) /\ ~ started
    /\ ClearTimer
    /\ intentional' = FALSE /\ attempts' = 0 /\ state' = "connecting"
    /\ Await(t, "build", "connect", None, FALSE)
    /\ builds' = builds + 1
    /\ UNCHANGED <<conn, chan, tag, brokerVars, eventVars, started, closes, faults>>

Close(t) ==
    /\ Quiet /\ t \in Lowest(Free)
    /\ closes < config.closes /\ Idle({"close"})
    /\ intentional' = TRUE
    /\ StartCleanup(t, "close", FALSE, tag)
    /\ closes' = closes + 1 /\ started' = FALSE
    /\ UNCHANGED <<state, conn, chan, tag, attempts, brokerVars, eventVars,
                   builds, faults>>

-----------------------------------------------------------------------------
(* Setting up: build and attemptReconnection, then setupChannel *)

ConnectOk(t) ==
    /\ Quiet /\ tasks[t].pc = "connect"
    /\ \E c \in FreshConn :
        /\ connOpen' = connOpen \cup {c}
        /\ conn' = c
        /\ Await(t, tasks[t].kind, "create", c, FALSE)
    /\ UNCHANGED <<state, intentional, chan, tag, attempts, timerVars, connHooks,
                   chanOf, chanHooks, consuming, eventVars, started, countVars>>

ConnectFails(t) ==
    /\ Quiet /\ tasks[t].pc = "connect" /\ Fault
    /\ StartCleanup(t, tasks[t].kind, TRUE, tag)
    /\ UNCHANGED <<thisVars, brokerVars, eventVars, started, builds, closes>>

CreateOk(t) ==
    /\ Quiet /\ tasks[t].pc = "create" /\ Answers(t)
    /\ \E h \in FreshChan :
        /\ chanOf' = [chanOf EXCEPT ![h] = tasks[t].on]
        /\ chan' = h
        /\ Await(t, tasks[t].kind, "declare", h, FALSE)
    /\ UNCHANGED <<state, intentional, conn, tag, attempts, timerVars, connOpen,
                   connHooks, chanHooks, consuming, eventVars, started, countVars>>


\* Mutant: a failed channel recreation is only logged.
SetupFailedOnlyLogged(t, tagged) ==
    IF tasks[t].kind = "recreate"
    THEN Done(t) /\ UNCHANGED <<state, attempts, timerVars>>
    ELSE /\ StartCleanup(t, tasks[t].kind, TRUE, tagged)
         /\ UNCHANGED <<state, attempts>>

\* The catch blocks around setupChannel: the channel listener's, and those of
\* build and attemptReconnection.
SetupFailed(t, tagged) ==
    IF tasks[t].kind = "recreate"
    THEN /\ Done(t) /\ ReconnectUnlessClosed
    ELSE /\ StartCleanup(t, tasks[t].kind, TRUE, tagged)
         /\ UNCHANGED <<state, attempts>>

\* assertExchange, assertQueue and bindQueue were answered; consume is sent on
\* whatever this.channel is by now.
DeclareOk(t) ==
    /\ Quiet /\ tasks[t].pc = "declare" /\ Answers(t)
    /\ IF chan = None
       THEN SetupFailed(t, tag)
       ELSE /\ Await(t, tasks[t].kind, "consume", chan, FALSE)
            /\ UNCHANGED <<state, attempts, timerVars>>
    /\ UNCHANGED <<intentional, conn, chan, tag, brokerVars, eventVars, started,
                   countVars>>

\* What build and attemptReconnection do once setupChannel resolved.
Connected(t) ==
    /\ Done(t)
    /\ state' = "connected"
    /\ attempts' = IF tasks[t].kind = "attempt" THEN 0 ELSE attempts
    /\ started' = (started \/ tasks[t].kind = "build")
    /\ connHooks' = IF conn \in connOpen
                    THEN [connHooks EXCEPT ![conn] = @ + 1] ELSE connHooks
    /\ UNCHANGED timerVars


\* Mutant: build does not look whether close() was called meanwhile.
ConsumeOkUnchecked(t) ==
    /\ Quiet /\ tasks[t].pc = "consume" /\ Answers(t)
    /\ consuming' = consuming \cup {tasks[t].on}
    /\ tag' = TRUE
    /\ chanHooks' = IF ChanOpen(chan)
                    THEN [chanHooks EXCEPT ![chan] = @ + 1] ELSE chanHooks
    /\ \/ chan = None /\ SetupFailed(t, TRUE) /\ UNCHANGED <<connHooks, started>>
       \/ /\ chan # None /\ tasks[t].kind = "recreate" /\ Done(t)
          /\ UNCHANGED <<state, attempts, timerVars, connHooks, started>>
       \/ chan # None /\ tasks[t].kind # "recreate" /\ Connected(t)
    /\ UNCHANGED <<intentional, conn, chan, connOpen, chanOf, eventVars, countVars>>

ConsumeOk(t) ==
    /\ Quiet /\ tasks[t].pc = "consume" /\ Answers(t)
    /\ consuming' = consuming \cup {tasks[t].on}
    /\ tag' = TRUE
    /\ chanHooks' = IF ChanOpen(chan)
                    THEN [chanHooks EXCEPT ![chan] = @ + 1] ELSE chanHooks
    /\ \/ chan = None /\ SetupFailed(t, TRUE) /\ UNCHANGED <<connHooks, started>>
       \/ /\ chan # None /\ tasks[t].kind = "recreate" /\ Done(t)
          /\ UNCHANGED <<state, attempts, timerVars, connHooks, started>>
       \/ /\ chan # None /\ tasks[t].kind # "recreate" /\ intentional
          /\ StartCleanup(t, tasks[t].kind, FALSE, TRUE)
          /\ UNCHANGED <<state, attempts, connHooks, started>>
       \/ /\ chan # None /\ tasks[t].kind # "recreate" /\ ~ intentional
          /\ Connected(t)
    /\ UNCHANGED <<intentional, conn, chan, connOpen, chanOf, eventVars, countVars>>

\* A request of setupChannel is rejected: its target is gone or closing, or
\* the broker refuses to create the channel.
SetupFails(t) ==
    /\ Drained /\ tasks[t].pc \in {"create", "declare", "consume"}
    /\ \/ ~ Answers(t) /\ (Rejected(t) \/ Quiet) /\ NoFault
       \/ tasks[t].pc = "create" /\ Answers(t) /\ Quiet /\ Fault
    /\ SetupFailed(t, tag)
    /\ UNCHANGED <<intentional, conn, chan, tag, brokerVars, eventVars, started,
                   builds, closes>>

-----------------------------------------------------------------------------
(* cleanupResources after its first await *)

CleanupCancelled(t) ==
    /\ Drained /\ tasks[t].pc = "cancel" /\ (Rejected(t) \/ Quiet)
    /\ tag' = FALSE
    /\ ClearTimer
    /\ consuming' = consuming \ {tasks[t].on}
    /\ Await(t, tasks[t].kind, "closeChan", ChanToClose, tasks[t].failed)
    /\ UNCHANGED <<state, intentional, conn, chan, attempts, connOpen, connHooks,
                   chanOf, chanHooks, eventVars, started, countVars>>

\* The broker confirms a close; the listeners run before the awaiting code.
ChannelCloseOk(t) ==
    /\ Quiet /\ tasks[t].pc = "closeChan"
    /\ LoseChan(tasks[t].on)
    /\ UNCHANGED <<thisVars, timerVars, tasks, started, countVars>>

ConnectionCloseOk(t) ==
    /\ Quiet /\ tasks[t].pc = "closeConn"
    /\ LoseConn(tasks[t].on)
    /\ UNCHANGED <<thisVars, timerVars, tasks, started, countVars>>

CleanupChannelClosed(t) ==
    /\ Drained /\ tasks[t].pc = "closeChan" /\ Rejected(t)
    /\ Await(t, tasks[t].kind, "closeConn", ConnToClose, tasks[t].failed)
    /\ UNCHANGED <<thisVars, timerVars, brokerVars, eventVars, started, countVars>>

\* The end of cleanupResources.  A failed attempt then rejects and its timer's
\* catch schedules the next one.
CleanupFinished(t) ==
    /\ Drained /\ tasks[t].pc = "closeConn" /\ Rejected(t)
    /\ chan' = None /\ conn' = None
    /\ IF tasks[t].kind = "attempt" /\ tasks[t].failed
       THEN ScheduleReconnection
       ELSE state' = "disconnected" /\ UNCHANGED <<attempts, timerVars>>
    /\ Done(t)
    /\ UNCHANGED <<intentional, tag, brokerVars, eventVars, started, countVars>>

-----------------------------------------------------------------------------
(* Listeners and the timer *)

\* setupChannel called by the channel's listener.  On a connection that is
\* being torn down the request is rejected later on, or never answered.
Recreate ==
    IF ~ intentional /\ conn # None
    THEN \/ \E t \in Lowest(Free) : Await(t, "recreate", "create", conn, FALSE)
            /\ (conn = lost => LateReject)
         \/ conn = lost /\ UNCHANGED tasks
    ELSE UNCHANGED tasks

OnChannelClose ==
    /\ \E h \in Lowest({h \in Chans : chanEvents[h] > 0}) :
        chanEvents' = [chanEvents EXCEPT ![h] = @ - 1]
    /\ chan' = None /\ tag' = FALSE
    /\ Recreate
    /\ UNCHANGED <<state, intentional, conn, attempts, timerVars, brokerVars,
                   connEvents, lost, started, countVars>>


\* Mutant: the connection's listener only records the loss.
OnConnectionCloseNoRetry ==
    /\ connEvents > 0 /\ \A h \in Chans : chanEvents[h] = 0
    /\ connEvents' = connEvents - 1
    /\ chan' = None /\ conn' = None /\ tag' = FALSE
    /\ state' = "disconnected"
    /\ UNCHANGED <<attempts, timerVars, intentional, tasks, brokerVars, chanEvents,
                   lost, started, countVars>>

OnConnectionClose ==
    /\ connEvents > 0 /\ \A h \in Chans : chanEvents[h] = 0
    /\ connEvents' = connEvents - 1
    /\ chan' = None /\ conn' = None /\ tag' = FALSE
    /\ IF ~ intentional /\ ReconnectEnabled
       THEN ScheduleReconnection
       ELSE state' = "disconnected" /\ UNCHANGED <<attempts, timerVars>>
    /\ UNCHANGED <<intentional, tasks, brokerVars, chanEvents, lost, started,
                   countVars>>


\* Mutant: attemptReconnection without its safety check.
TimerFiresUnchecked(i) ==
    /\ Quiet /\ i \in timers
    /\ timers' = timers \ {i}
    /\ state' = "connecting"
    /\ \E t \in Lowest(Free) : Await(t, "attempt", "connect", None, FALSE)
    /\ UNCHANGED <<intentional, conn, chan, tag, attempts, timerId, brokerVars,
                   eventVars, started, countVars>>

\* The timer's callback: attemptReconnection up to its first await.
TimerFires(i) ==
    /\ Quiet /\ i \in timers
    /\ timers' = timers \ {i}
    /\ IF intentional
       THEN UNCHANGED <<state, tasks>>
       ELSE /\ state' = "connecting"
            /\ \E t \in Lowest(Free) : Await(t, "attempt", "connect", None, FALSE)
    /\ UNCHANGED <<intentional, conn, chan, tag, attempts, timerId, brokerVars,
                   eventVars, started, countVars>>

-----------------------------------------------------------------------------
(* Faults of the broker and the network *)

ConnDrop(c) ==
    /\ Quiet /\ c \in connOpen /\ Fault
    /\ LoseConn(c)
    /\ UNCHANGED <<thisVars, timerVars, tasks, started, builds, closes>>

ChanDrop(h) ==
    /\ Quiet /\ chanOf[h] # None /\ Fault
    /\ LoseChan(h)
    /\ UNCHANGED <<thisVars, timerVars, tasks, started, builds, closes>>

-----------------------------------------------------------------------------
Listener == OnChannelClose \/ OnConnectionClose

\* What goes on without the owner: answers, rejections, the end of cleanups.
Progress(t) ==
    \/ ConnectOk(t) \/ CreateOk(t) \/ DeclareOk(t) \/ ConsumeOk(t)
    \/ CleanupCancelled(t) \/ ChannelCloseOk(t) \/ ConnectionCloseOk(t)
    \/ CleanupChannelClosed(t) \/ CleanupFinished(t)

Step ==
    \/ \E t \in Tasks : \/ Build(t) \/ Close(t)
                        \/ Progress(t) \/ ConnectFails(t) \/ SetupFails(t)
    \/ Listener
    \/ \E i \in Timers : TimerFires(i)
    \/ \E c \in Conns : ConnDrop(c)
    \/ \E h \in Chans : ChanDrop(h)

Next == Step /\ UNCHANGED config

Spec == Init /\ [][Next]_vars

\* Node's event loop runs every callback that is due: listeners, answers,
\* rejections and timers.  Calls of the owner and faults need not happen.
Fairness ==
    /\ WF_vars(Listener /\ UNCHANGED config)
    /\ \A t \in Tasks : WF_vars((Progress(t) \/ SetupFails(t)) /\ UNCHANGED config)
    /\ \A i \in Timers : WF_vars(TimerFires(i) /\ UNCHANGED config)

LiveSpec == Spec /\ Fairness

-----------------------------------------------------------------------------
(* Properties *)

Serving == ChanOpen(chan) /\ chan \in consuming
Resting == Quiet /\ Free = Tasks

\* A connector that build() left in use and close() did not stop is never
\* abandoned and never lies about it: with unlimited retries, whatever is lost
\* and in whatever order the listeners, rejections and cleanups run, once
\* nothing is in flight either a retry is pending, or the current channel
\* consumes the queue and isConnected() says so.  This is about the first
\* build(): when build() follows a close(), an attempt that is still winding
\* down may clean up after the new build and leave it without a connection.
NeverAbandoned ==
    started /\ builds = 1 /\ ReconnectEnabled /\ MaxRetries = 0 /\ Resting
        => timers # {} \/ (Serving /\ state = "connected")

StartsNoAttempt ==
    \A t \in Tasks : tasks'[t].kind \in {"attempt", "recreate"}
                        => tasks[t].kind = tasks'[t].kind

\* While the connector is closed on purpose no listener and no timer starts a
\* new reconnection attempt or a new channel, not even one that was scheduled
\* before the close (attemptReconnection's safety check).
CloseStopsAttempts == [][intentional /\ intentional' => StartsNoAttempt]_vars

\* With reconnection disabled, close() leaves nothing behind even when it
\* overtakes a build or the recreation of a channel: once every operation has
\* ended, no connection is open and no channel consumes.
ReleasedAfterClose ==
    ~ ReconnectEnabled /\ intentional /\ Resting => connOpen = {} /\ consuming = {}

\* A connector with one retry gives up only after using it: at rest with no
\* retry pending it either consumes, or has made its attempt and reports
\* "disconnected".  With more retries, or more than three faults, attempts may
\* overlap, and the one that succeeds may find its connection forgotten by the
\* cleanup or the listener of another; the next loss then goes unnoticed.  As
\* NeverAbandoned it is about the first build(): an attempt that outlives a
\* close() may clean up after the next one.
GivesUpLast ==
    started /\ builds = 1 /\ ReconnectEnabled /\ MaxRetries = 1 /\ faults <= 3 /\ Resting
        => \/ timers # {}
           \/ Serving /\ state = "connected"
           \/ attempts = MaxRetries /\ state = "disconnected"

\* After the last fault the connector heals by itself: it ends up consuming
\* for good unless its owner closes it.
SelfHeals == <>[](started /\ ReconnectEnabled /\ MaxRetries = 0
                     => Serving /\ state = "connected")

\* "should be in Disconnected state after close", "should not reconnect after
\* intentional close": a connector closed on purpose comes to rest
\* disconnected and without a retry.
ClosedStaysClosed ==
    intentional /\ Resting => state = "disconnected" /\ timers = {}
=============================================================================

------------------------ MODULE AmqpConnectorProofs ------------------------
(***************************************************************************)
(* Proofs about AmqpConnector, for every configuration and every set of    *)
(* identities: type correctness; a connector closed on purpose starts no   *)
(* new attempt; a connector in use is never abandoned; without             *)
(* reconnection close() releases everything; and a connector with one      *)
(* retry gives up only after using it.                                     *)
(***************************************************************************)
EXTENDS AmqpConnector, TLAPS

\* The timer that scheduleReconnection arms has a type, and so have the
\* counter and the state it sets.
LEMMA ScheduleType ==
    ASSUME TypeOK, ScheduleReconnection
    PROVE  /\ state' \in ConnectionState /\ attempts' \in Nat
           /\ timerId' \in Timers \cup {None} /\ timers' \in SUBSET Timers
  BY DEF TypeOK, ScheduleReconnection, FreshTimer, Lowest, ConnectionState, timerVars

\* Clearing the pending timer keeps the timers' types.
LEMMA ClearTimerType ==
    ASSUME TypeOK, ClearTimer
    PROVE  timerId' \in Timers \cup {None} /\ timers' \in SUBSET Timers
  BY DEF TypeOK, ClearTimer

\* Recording what an operation awaits keeps `tasks' well typed.
LEMMA AwaitType ==
    ASSUME TypeOK, NEW t \in Tasks, NEW kind \in Kinds,
           NEW pc \in {"none", "connect"} \cup OnConn \cup OnChan,
           NEW on \in Conns \cup Chans \cup {None}, NEW failed \in BOOLEAN,
           Await(t, kind, pc, on, failed)
    PROVE  tasks' \in [Tasks -> Task]
  BY DEF TypeOK, Await, Task

\* Ending an operation keeps `tasks' well typed.
LEMMA DoneType ==
    ASSUME TypeOK, NEW t \in Tasks, Done(t)
    PROVE  tasks' \in [Tasks -> Task]
  BY DEF TypeOK, Done, Task, NoTask, Kinds

\* Entering cleanupResources keeps the types of tasks and timers.
LEMMA CleanupType ==
    ASSUME TypeOK, NEW t \in Tasks, NEW kind \in Kinds, NEW failed \in BOOLEAN,
           NEW tagged \in BOOLEAN, StartCleanup(t, kind, failed, tagged)
    PROVE  /\ tasks' \in [Tasks -> Task]
           /\ timerId' \in Timers \cup {None} /\ timers' \in SUBSET Timers
  <1>1. ChanToClose \in Conns \cup Chans \cup {None} /\ chan \in Conns \cup Chans \cup {None}
    BY DEF TypeOK, ChanToClose
  <1>2. "cancel" \in OnChan /\ "closeChan" \in OnChan
    BY DEF OnChan
  <1>3. CASE tagged /\ chan # None
    <2>1. Await(t, kind, "cancel", chan, failed) /\ UNCHANGED timerVars
      BY <1>3 DEF StartCleanup
    <2>2. tasks' \in [Tasks -> Task]
      BY <2>1, <1>1, <1>2, AwaitType
    <2> QED BY <2>1, <2>2 DEF TypeOK, timerVars
  <1>4. CASE ~ (tagged /\ chan # None)
    <2>1. Await(t, kind, "closeChan", ChanToClose, failed) /\ ClearTimer
      BY <1>4 DEF StartCleanup
    <2>2. tasks' \in [Tasks -> Task]
      BY <2>1, <1>1, <1>2, AwaitType
    <2> QED BY <2>1, <2>2, ClearTimerType
  <1> QED BY <1>3, <1>4

\* Losing a channel or a connection keeps the broker's part of the state typed.
LEMMA LoseType ==
    ASSUME TypeOK,
           \/ \E h \in Chans : LoseChan(h)
           \/ \E c \in Conns : LoseConn(c)
    PROVE  /\ connOpen' \in SUBSET Conns /\ connHooks' \in [Conns -> Nat]
           /\ chanOf' \in [Chans -> Conns \cup {None}]
           /\ chanHooks' \in [Chans -> Nat] /\ consuming' \in SUBSET Chans
           /\ chanEvents' \in [Chans -> Nat] /\ connEvents' \in Nat
           /\ lost' \in Conns \cup {None}
  <1>1. CASE \E h \in Chans : LoseChan(h)
    BY <1>1 DEF TypeOK, LoseChan
  <1>2. CASE \E c \in Conns : LoseConn(c)
    BY <1>2 DEF TypeOK, LoseConn
  <1> QED BY <1>1, <1>2

\* The catch blocks around setupChannel keep the types of what they change.
LEMMA SetupFailedType ==
    ASSUME TypeOK, NEW t \in Tasks, NEW tagged \in BOOLEAN, SetupFailed(t, tagged)
    PROVE  /\ tasks' \in [Tasks -> Task]
           /\ state' \in ConnectionState /\ attempts' \in Nat
           /\ timerId' \in Timers \cup {None} /\ timers' \in SUBSET Timers
  <1>1. tasks[t].kind \in Kinds
    BY DEF TypeOK, Task
  <1>2. CASE tasks[t].kind = "recreate"
    <2>1. Done(t) /\ ReconnectUnlessClosed
      BY <1>2 DEF SetupFailed
    <2>2. tasks' \in [Tasks -> Task]
      BY <2>1, DoneType
    <2>3. CASE ~ intentional /\ ReconnectEnabled
      BY <2>1, <2>2, <2>3, ScheduleType DEF ReconnectUnlessClosed
    <2>4. CASE ~ (~ intentional /\ ReconnectEnabled)
      BY <2>1, <2>2, <2>4 DEF ReconnectUnlessClosed, TypeOK, timerVars
    <2> QED BY <2>3, <2>4
  <1>3. CASE tasks[t].kind # "recreate"
    <2>1. StartCleanup(t, tasks[t].kind, TRUE, tagged) /\ UNCHANGED <<state, attempts>>
      BY <1>3 DEF SetupFailed
    <2> QED BY <2>1, <1>1, CleanupType DEF TypeOK
  <1> QED BY <1>2, <1>3

\* Every variable keeps its type: whichever operations overlap and whatever is
\* lost, the fields of the connector and the operations in flight only ever
\* hold what AMQPConnector's declarations allow.
THEOREM TypeCorrect == Spec => []TypeOK
<1>1. Init => TypeOK
  <2> SUFFICES ASSUME Init PROVE TypeOK
    OBVIOUS
  <2>1. tasks \in [Tasks -> Task]
    BY DEF Init, NoTask, Task, Kinds
  <2>2. builds \in Nat /\ closes \in Nat /\ faults \in Nat /\ config \in Config
    BY ConfigAssumption DEF Init
  <2>3. intentional \in BOOLEAN /\ tag \in BOOLEAN /\ started \in BOOLEAN
    BY DEF Init
  <2> QED BY <2>1, <2>2, <2>3 DEF Init, TypeOK, ConnectionState
<1>2. TypeOK /\ [Next]_vars => TypeOK'
  <2> SUFFICES ASSUME TypeOK, [Next]_vars PROVE TypeOK'
    OBVIOUS
  <2>c. config' \in Config
    BY DEF Next, vars, TypeOK
  <2> USE <2>c
  <2>a. \A t \in Tasks : tasks[t].kind \in Kinds /\ tasks[t].failed \in BOOLEAN
                         /\ tasks[t].on \in Conns \cup Chans \cup {None}
    BY DEF TypeOK, Task
  <2>b. /\ "connect" \in {"none", "connect"} \cup OnConn \cup OnChan
        /\ {"create", "closeConn"} \subseteq OnConn
        /\ {"declare", "consume", "closeChan"} \subseteq OnChan
        /\ {"build", "close", "attempt", "recreate"} \subseteq Kinds
    BY DEF OnConn, OnChan, Kinds
  <2>1. ASSUME NEW t \in Tasks, Build(t) PROVE TypeOK'
    <3>1. tasks' \in [Tasks -> Task]
      BY <2>1, <2>b, AwaitType DEF Build
    <3>2. timerId' \in Timers \cup {None} /\ timers' \in SUBSET Timers
      BY <2>1, ClearTimerType DEF Build
    <3>3. intentional' \in BOOLEAN /\ attempts' \in Nat /\ state' \in ConnectionState
      BY <2>1 DEF Build, ConnectionState
    <3>4. closes' \in Nat /\ builds' \in Nat /\ faults' \in Nat
      BY <2>1 DEF Build, TypeOK
    <3>5. UNCHANGED <<conn, chan, tag, brokerVars, eventVars, started>>
      BY <2>1 DEF Build
    <3> QED BY <2>1, <3>1, <3>2, <3>3, <3>4, <3>5 DEF TypeOK, brokerVars, eventVars
  <2>2. ASSUME NEW t \in Tasks, Close(t) PROVE TypeOK'
    <3>1. tag \in BOOLEAN BY DEF TypeOK
    <3>2. /\ tasks' \in [Tasks -> Task]
          /\ timerId' \in Timers \cup {None} /\ timers' \in SUBSET Timers
      BY <2>2, <2>b, <3>1, CleanupType DEF Close
    <3>3. intentional' \in BOOLEAN /\ started' \in BOOLEAN
      BY <2>2 DEF Close
    <3>4. closes' \in Nat /\ builds' \in Nat /\ faults' \in Nat
      BY <2>2 DEF Close, TypeOK
    <3>5. UNCHANGED <<state, conn, chan, tag, attempts, brokerVars, eventVars>>
      BY <2>2 DEF Close
    <3> QED BY <2>2, <3>2, <3>3, <3>4, <3>5 DEF TypeOK, brokerVars, eventVars
  <2>3. ASSUME NEW t \in Tasks, ConnectOk(t) PROVE TypeOK'
    <3>1. PICK c \in FreshConn : /\ connOpen' = connOpen \cup {c} /\ conn' = c
                                 /\ Await(t, tasks[t].kind, "create", c, FALSE)
      BY <2>3 DEF ConnectOk
    <3>2. c \in Conns
      BY DEF FreshConn, Lowest
    <3>3. tasks' \in [Tasks -> Task]
      BY <3>1, <3>2, <2>a, <2>b, AwaitType
    <3> QED BY <2>3, <3>1, <3>2, <3>3
            DEF ConnectOk, TypeOK, timerVars, eventVars, countVars
  <2>4. ASSUME NEW t \in Tasks, ConnectFails(t) PROVE TypeOK'
    <3>1. tag \in BOOLEAN BY DEF TypeOK
    <3>2. /\ tasks' \in [Tasks -> Task]
          /\ timerId' \in Timers \cup {None} /\ timers' \in SUBSET Timers
      BY <2>4, <2>a, <3>1, CleanupType DEF ConnectFails
    <3> QED BY <2>4, <3>2 DEF ConnectFails, Fault, TypeOK, thisVars, brokerVars, eventVars
  <2>5. ASSUME NEW t \in Tasks, CreateOk(t) PROVE TypeOK'
    <3>1. PICK h \in FreshChan : /\ chanOf' = [chanOf EXCEPT ![h] = tasks[t].on]
                                 /\ chan' = h
                                 /\ Await(t, tasks[t].kind, "declare", h, FALSE)
      BY <2>5 DEF CreateOk
    <3>2. h \in Chans
      BY DEF FreshChan, Lowest
    <3>3. tasks[t].on \in Conns
      BY <2>5 DEF CreateOk, Answers, OnConn, ConnAnswers, TypeOK
    <3>4. tasks' \in [Tasks -> Task]
      BY <3>1, <3>2, <2>a, <2>b, AwaitType
    <3> QED BY <2>5, <3>1, <3>2, <3>3, <3>4
            DEF CreateOk, TypeOK, timerVars, eventVars, countVars
  <2>6. ASSUME NEW t \in Tasks, DeclareOk(t) PROVE TypeOK'
    <3>1. tag \in BOOLEAN BY DEF TypeOK
    <3>2. /\ tasks' \in [Tasks -> Task]
          /\ state' \in ConnectionState /\ attempts' \in Nat
          /\ timerId' \in Timers \cup {None} /\ timers' \in SUBSET Timers
      <4>1. CASE chan = None
        BY <2>6, <4>1, <3>1, SetupFailedType DEF DeclareOk
      <4>2. CASE chan # None
        <5>1. Await(t, tasks[t].kind, "consume", chan, FALSE) /\ UNCHANGED <<state, attempts, timerVars>>
          BY <2>6, <4>2 DEF DeclareOk
        <5>2. chan \in Conns \cup Chans \cup {None} BY DEF TypeOK
        <5>3. tasks' \in [Tasks -> Task]
          BY <5>1, <5>2, <2>a, <2>b, AwaitType
        <5> QED BY <5>1, <5>3 DEF TypeOK, timerVars
      <4> QED BY <4>1, <4>2
    <3> QED BY <2>6, <3>2 DEF DeclareOk, TypeOK, brokerVars, eventVars, countVars
  <2>7. ASSUME NEW t \in Tasks, ConsumeOk(t) PROVE TypeOK'
    <3>1. tasks[t].on \in Chans
      BY <2>7 DEF ConsumeOk, Answers, OnConn, ChanAnswers, ChanOpen
    <3>2. chanHooks' \in [Chans -> Nat]
      BY <2>7 DEF ConsumeOk, TypeOK, ChanOpen
    <3>3. /\ tasks' \in [Tasks -> Task]
          /\ state' \in ConnectionState /\ attempts' \in Nat
          /\ timerId' \in Timers \cup {None} /\ timers' \in SUBSET Timers
          /\ connHooks' \in [Conns -> Nat] /\ started' \in BOOLEAN
      <4>1. CASE chan = None
        <5>1. SetupFailed(t, TRUE) /\ UNCHANGED <<connHooks, started>>
          BY <2>7, <4>1 DEF ConsumeOk
        <5> QED BY <5>1, SetupFailedType DEF TypeOK
      <4>2. CASE chan # None /\ tasks[t].kind = "recreate"
        <5>1. Done(t) /\ UNCHANGED <<state, attempts, timerVars, connHooks, started>>
          BY <2>7, <4>2 DEF ConsumeOk
        <5> QED BY <5>1, DoneType DEF TypeOK, timerVars
      <4>3. CASE chan # None /\ tasks[t].kind # "recreate" /\ intentional
        <5>1. /\ StartCleanup(t, tasks[t].kind, FALSE, TRUE)
              /\ UNCHANGED <<state, attempts, connHooks, started>>
          BY <2>7, <4>3 DEF ConsumeOk
        <5> QED BY <5>1, <2>a, CleanupType DEF TypeOK
      <4>4. CASE chan # None /\ tasks[t].kind # "recreate" /\ ~ intentional
        <5>1. Connected(t)
          BY <2>7, <4>4 DEF ConsumeOk
        <5>2. tasks' \in [Tasks -> Task]
          BY <5>1, DoneType DEF Connected
        <5>3. started' \in BOOLEAN
          BY <5>1 DEF Connected
        <5> QED BY <5>1, <5>2, <5>3 DEF Connected, TypeOK, timerVars, ConnectionState
      <4> QED BY <4>1, <4>2, <4>3, <4>4 DEF TypeOK
    <3> QED BY <2>7, <3>1, <3>2, <3>3 DEF ConsumeOk, TypeOK, eventVars, countVars
  <2>8. ASSUME NEW t \in Tasks, SetupFails(t) PROVE TypeOK'
    <3>1. tag \in BOOLEAN BY DEF TypeOK
    <3>2. /\ tasks' \in [Tasks -> Task]
          /\ state' \in ConnectionState /\ attempts' \in Nat
          /\ timerId' \in Timers \cup {None} /\ timers' \in SUBSET Timers
      BY <2>8, <3>1, SetupFailedType DEF SetupFails
    <3>3. faults' \in Nat
      BY <2>8 DEF SetupFails, Fault, NoFault, TypeOK
    <3> QED BY <2>8, <3>2, <3>3 DEF SetupFails, TypeOK, brokerVars, eventVars
  <2>9. ASSUME NEW t \in Tasks, CleanupCancelled(t) PROVE TypeOK'
    <3>1. ChanToClose \in Conns \cup Chans \cup {None}
      BY DEF TypeOK, ChanToClose
    <3>2. tasks' \in [Tasks -> Task]
      BY <2>9, <3>1, <2>a, <2>b, AwaitType DEF CleanupCancelled
    <3>3. timerId' \in Timers \cup {None} /\ timers' \in SUBSET Timers
      BY <2>9, ClearTimerType DEF CleanupCancelled
    <3> QED BY <2>9, <3>2, <3>3 DEF CleanupCancelled, TypeOK, eventVars, countVars
  <2>10. ASSUME NEW t \in Tasks, ChannelCloseOk(t) PROVE TypeOK'
    <3>1. tasks[t].on \in Chans
      BY <2>10 DEF ChannelCloseOk, Quiet, Rejected, ChanOpen, OnChan
    <3>2. \E h \in Chans : LoseChan(h)
      BY <2>10, <3>1 DEF ChannelCloseOk
    <3> QED BY <2>10, <3>2, LoseType DEF ChannelCloseOk, TypeOK, thisVars, timerVars, countVars
  <2>11. ASSUME NEW t \in Tasks, ConnectionCloseOk(t) PROVE TypeOK'
    <3>1. tasks[t].on \in Conns
      BY <2>11 DEF ConnectionCloseOk, Quiet, Rejected, OnConn, TypeOK
    <3>2. \E c \in Conns : LoseConn(c)
      BY <2>11, <3>1 DEF ConnectionCloseOk
    <3> QED BY <2>11, <3>2, LoseType DEF ConnectionCloseOk, TypeOK, thisVars, timerVars, countVars
  <2>12. ASSUME NEW t \in Tasks, CleanupChannelClosed(t) PROVE TypeOK'
    <3>1. ConnToClose \in Conns \cup Chans \cup {None}
      BY DEF TypeOK, ConnToClose
    <3>2. tasks' \in [Tasks -> Task]
      BY <2>12, <3>1, <2>a, <2>b, AwaitType DEF CleanupChannelClosed
    <3> QED BY <2>12, <3>2 DEF CleanupChannelClosed, TypeOK, thisVars, timerVars,
                               brokerVars, eventVars, countVars
  <2>13. ASSUME NEW t \in Tasks, CleanupFinished(t) PROVE TypeOK'
    <3>1. tasks' \in [Tasks -> Task]
      BY <2>13, DoneType DEF CleanupFinished
    <3>2. /\ state' \in ConnectionState /\ attempts' \in Nat
          /\ timerId' \in Timers \cup {None} /\ timers' \in SUBSET Timers
      <4>1. CASE ScheduleReconnection
        BY <4>1, ScheduleType
      <4>2. CASE ~ ScheduleReconnection
        BY <2>13, <4>2 DEF CleanupFinished, TypeOK, timerVars, ConnectionState
      <4> QED BY <4>1, <4>2
    <3> QED BY <2>13, <3>1, <3>2 DEF CleanupFinished, TypeOK, brokerVars, eventVars, countVars
  <2>14. CASE OnChannelClose
    <3>1. tasks' \in [Tasks -> Task]
      <4>1. CASE UNCHANGED tasks
        BY <4>1 DEF TypeOK
      <4>2. CASE \E t \in Lowest(Free) : Await(t, "recreate", "create", conn, FALSE)
        <5>1. PICK t \in Tasks : Await(t, "recreate", "create", conn, FALSE)
          BY <4>2 DEF Lowest, Free
        <5>2. conn \in Conns \cup Chans \cup {None} BY DEF TypeOK
        <5> QED BY <5>1, <5>2, <2>b, AwaitType
      <4> QED BY <2>14, <4>1, <4>2 DEF OnChannelClose, Recreate
    <3>2. chanEvents' \in [Chans -> Nat]
      BY <2>14 DEF OnChannelClose, TypeOK, Lowest
    <3> QED BY <2>14, <3>1, <3>2 DEF OnChannelClose, TypeOK, timerVars, brokerVars, countVars
  <2>15. CASE OnConnectionClose
    <3>2. /\ state' \in ConnectionState /\ attempts' \in Nat
          /\ timerId' \in Timers \cup {None} /\ timers' \in SUBSET Timers
      <4>1. CASE ScheduleReconnection
        BY <4>1, ScheduleType
      <4>2. CASE ~ ScheduleReconnection
        BY <2>15, <4>2 DEF OnConnectionClose, TypeOK, timerVars, ConnectionState
      <4> QED BY <4>1, <4>2
    <3>3. connEvents' \in Nat
      BY <2>15 DEF OnConnectionClose, TypeOK
    <3>4. chan' = None /\ conn' = None /\ tag' \in BOOLEAN
      BY <2>15 DEF OnConnectionClose
    <3>5. UNCHANGED <<intentional, tasks, brokerVars, chanEvents, lost, started, countVars>>
      BY <2>15 DEF OnConnectionClose
    <3> QED BY <3>2, <3>3, <3>4, <3>5 DEF TypeOK, brokerVars, countVars
  <2>16. ASSUME NEW i \in Timers, TimerFires(i) PROVE TypeOK'
    <3>1. tasks' \in [Tasks -> Task]
      <4>1. CASE intentional
        BY <2>16, <4>1 DEF TimerFires, TypeOK
      <4>2. CASE ~ intentional
        <5>1. PICK t \in Tasks : Await(t, "attempt", "connect", None, FALSE)
          BY <2>16, <4>2 DEF TimerFires, Lowest, Free
        <5> QED BY <5>1, <2>b, AwaitType
      <4> QED BY <4>1, <4>2
    <3> QED BY <2>16, <3>1 DEF TimerFires, TypeOK, ConnectionState, brokerVars, eventVars, countVars
  <2>17. ASSUME NEW c \in Conns, ConnDrop(c) PROVE TypeOK'
    BY <2>17, LoseType DEF ConnDrop, Fault, TypeOK, thisVars, timerVars
  <2>18. ASSUME NEW h \in Chans, ChanDrop(h) PROVE TypeOK'
    BY <2>18, LoseType DEF ChanDrop, Fault, TypeOK, thisVars, timerVars
  <2>19. CASE UNCHANGED vars
    BY <2>19 DEF vars, thisVars, timerVars, brokerVars, eventVars, countVars, TypeOK
  <2> QED BY <2>1, <2>2, <2>3, <2>4, <2>5, <2>6, <2>7, <2>8, <2>9, <2>10, <2>11, <2>12,
             <2>13, <2>14, <2>15, <2>16, <2>17, <2>18, <2>19 DEF Next, Step, Progress, Listener
<1> QED BY <1>1, <1>2, PTL DEF Spec

\* Whatever an operation awaits next, it keeps its kind; a new operation of
\* kind "close" or "build", and the end of one, start no attempt.
LEMMA AwaitKeepsKind ==
    ASSUME TypeOK, NEW t \in Tasks, NEW kind, NEW pc, NEW on, NEW failed,
           Await(t, kind, pc, on, failed),
           kind = tasks[t].kind \/ kind \in {"build", "close"}
    PROVE  StartsNoAttempt
  BY DEF TypeOK, Await, StartsNoAttempt

\* The end of an operation starts none.
LEMMA DoneStartsNothing ==
    ASSUME TypeOK, NEW t \in Tasks, Done(t)
    PROVE  StartsNoAttempt
  BY DEF TypeOK, Done, NoTask, StartsNoAttempt

\* Entering cleanupResources does not change the kind of the operation.
LEMMA CleanupKeepsKind ==
    ASSUME TypeOK, NEW t \in Tasks, NEW kind, NEW failed, NEW tagged,
           StartCleanup(t, kind, failed, tagged),
           kind = tasks[t].kind \/ kind \in {"build", "close"}
    PROVE  StartsNoAttempt
  BY AwaitKeepsKind DEF StartCleanup

\* Neither catch block around setupChannel starts an attempt by itself: the
\* retry it schedules is a timer.
LEMMA SetupFailedKeepsKind ==
    ASSUME TypeOK, NEW t \in Tasks, NEW tagged, SetupFailed(t, tagged)
    PROVE  StartsNoAttempt
  BY CleanupKeepsKind, DoneStartsNothing DEF SetupFailed

\* After close() no listener and no timer opens anything any more: the safety
\* check of attemptReconnection and the guards of both 'close' listeners are
\* enough, for every number of overlapping operations, timers and losses.
THEOREM ClosedStartsNothing == Spec => CloseStopsAttempts
<1>1. TypeOK /\ [Next]_vars => [intentional /\ intentional' => StartsNoAttempt]_vars
  <2> SUFFICES ASSUME TypeOK, Next, intentional, intentional' PROVE StartsNoAttempt
    OBVIOUS
  <2>0. UNCHANGED tasks => StartsNoAttempt
    BY DEF StartsNoAttempt
  <2>1. ASSUME NEW t \in Tasks, Build(t) \/ Close(t) PROVE StartsNoAttempt
    BY <2>1, AwaitKeepsKind, CleanupKeepsKind DEF Build, Close
  <2>2. ASSUME NEW t \in Tasks, ConnectOk(t) \/ CreateOk(t) PROVE StartsNoAttempt
    BY <2>2, AwaitKeepsKind DEF ConnectOk, CreateOk
  <2>3. ASSUME NEW t \in Tasks, ConnectFails(t) PROVE StartsNoAttempt
    BY <2>3, CleanupKeepsKind DEF ConnectFails
  <2>4. ASSUME NEW t \in Tasks, DeclareOk(t) \/ SetupFails(t) PROVE StartsNoAttempt
    BY <2>4, AwaitKeepsKind, SetupFailedKeepsKind DEF DeclareOk, SetupFails
  <2>5. ASSUME NEW t \in Tasks, ConsumeOk(t) PROVE StartsNoAttempt
    BY <2>5, SetupFailedKeepsKind, CleanupKeepsKind, DoneStartsNothing DEF ConsumeOk, Connected
  <2>6. ASSUME NEW t \in Tasks, CleanupCancelled(t) \/ CleanupChannelClosed(t)
        PROVE  StartsNoAttempt
    BY <2>6, AwaitKeepsKind DEF CleanupCancelled, CleanupChannelClosed
  <2>7. ASSUME NEW t \in Tasks, ChannelCloseOk(t) \/ ConnectionCloseOk(t)
        PROVE  StartsNoAttempt
    BY <2>7, <2>0 DEF ChannelCloseOk, ConnectionCloseOk
  <2>8. ASSUME NEW t \in Tasks, CleanupFinished(t) PROVE StartsNoAttempt
    BY <2>8, DoneStartsNothing DEF CleanupFinished
  <2>9. CASE Listener
    BY <2>9, <2>0 DEF Listener, OnChannelClose, OnConnectionClose, Recreate
  <2>10. ASSUME NEW i \in Timers, TimerFires(i) PROVE StartsNoAttempt
    BY <2>10, <2>0 DEF TimerFires
  <2>11. ASSUME NEW c \in Conns, ConnDrop(c) PROVE StartsNoAttempt
    BY <2>11, <2>0 DEF ConnDrop
  <2>12. ASSUME NEW h \in Chans, ChanDrop(h) PROVE StartsNoAttempt
    BY <2>12, <2>0 DEF ChanDrop
  <2> QED BY <2>1, <2>2, <2>3, <2>4, <2>5, <2>6, <2>7, <2>8, <2>9, <2>10, <2>11, <2>12
          DEF Next, Step, Progress
<1> QED BY <1>1, TypeCorrect, PTL DEF Spec, CloseStopsAttempts

-----------------------------------------------------------------------------
(***************************************************************************)
(* Never abandoned.  A retry is pending while a timer is armed, the loss   *)
(* of a connection is still to be reported, or an attempt awaits its       *)
(* connection or cleans up after a failure.  The invariant says that a     *)
(* connector in use has a retry pending, or that its connection and its    *)
(* channel are both covered: watched by the listener that will see their   *)
(* loss, or in the hands of an operation that either sets them up or, when *)
(* it fails, makes a retry pending.                                        *)
(***************************************************************************)

SetupPcs == {"create", "declare", "consume"}
CleanupPcs == {"cancel", "closeChan", "closeConn"}

\* The first build is still to come, or under way and not overtaken.
Starting == builds = 0 \/ (builds = 1 /\ ~ intentional /\ ~ started)

\* Before the first build only calls of close() are in flight; it is then the
\* only operation, and the connection and the channel are its own.
BuildOK(t) ==
    /\ tasks[t].kind \in {"none", "build", "close"}
    /\ tasks[t].kind = "none" => tasks[t].pc = "none"
    /\ tasks[t].kind = "build" => builds = 1
    /\ tasks[t].kind = "close" => builds = 0 /\ tasks[t].pc \in CleanupPcs
    /\ tasks[t].kind = "build" /\ tasks[t].pc \in SetupPcs => conn # None
    /\ tasks[t].kind = "build" /\ tasks[t].pc \in {"declare", "consume"}
            => chan = tasks[t].on

OneBuild == \A s, t \in Tasks : tasks[s].kind = "build" /\ tasks[t].kind = "build" => s = t

NoListener ==
    /\ timers = {} /\ connEvents = 0
    /\ \A c \in Conns : connHooks[c] = 0
    /\ \A h \in Chans : chanHooks[h] = 0 /\ chanEvents[h] = 0

Alone == NoListener /\ OneBuild /\ \A t \in Tasks : BuildOK(t)

StartInv == Starting => Alone

\* Once build() has resolved only attempts and recreations are in flight, and
\* an attempt cleans up only when it failed.
InUseOK(t) ==
    /\ tasks[t].kind \in {"none", "attempt", "recreate"}
    /\ tasks[t].kind = "none" => tasks[t].pc = "none"
    /\ tasks[t].kind = "recreate" => tasks[t].pc \in SetupPcs
    /\ tasks[t].pc \in CleanupPcs => tasks[t].failed

Retrying(t) == tasks[t].kind = "attempt" /\ tasks[t].pc \in {"connect"} \cup CleanupPcs

RetryPending == timers # {} \/ connEvents > 0 \/ \E t \in Tasks : Retrying(t)

\* An attempt has its connection and sets up its channel.
Trying == \E t \in Tasks : tasks[t].kind = "attempt" /\ tasks[t].pc \in SetupPcs

\* The loss of a channel is still to be reported.
Reported == \E h \in Chans : chanEvents[h] > 0

\* The connection is watched, or an attempt will register the listener.
ConnectionCovered ==
    /\ conn # None
    /\ Trying \/ (state = "connected" /\ (conn \in connOpen => connHooks[conn] > 0))
    /\ Reported /\ conn = lost => Trying

\* Task t sets up a channel that is, or will replace, the current one.
SetsUp(t) == \/ tasks[t].pc = "create"
             \/ tasks[t].pc \in {"declare", "consume"} /\ chan \in {None, tasks[t].on}

\* The channel consumes and is watched, or somebody is about to see to it.
Consumes == chan # None /\ ChanOpen(chan) /\ chan \in consuming /\ chanHooks[chan] > 0

ChannelCovered ==
    \/ Consumes
    \/ IF chan = None THEN Reported ELSE chanEvents[chan] > 0
    \/ \E t \in Tasks : SetsUp(t)

InUse == started /\ builds = 1 /\ ReconnectEnabled /\ MaxRetries = 0

Covered == RetryPending \/ (ConnectionCovered /\ ChannelCovered)

UseInv == InUse => ~ intentional /\ (\A t \in Tasks : InUseOK(t)) /\ Covered

\* What an operation awaits is recorded for it and for no other.
LEMMA AwaitEffect ==
    ASSUME TypeOK, NEW t \in Tasks, NEW kind, NEW pc, NEW on, NEW failed,
           Await(t, kind, pc, on, failed)
    PROVE  /\ tasks'[t].kind = kind /\ tasks'[t].pc = pc
           /\ tasks'[t].on = on /\ tasks'[t].failed = failed
           /\ \A s \in Tasks : s # t => tasks'[s] = tasks[s]
  BY DEF TypeOK, Await

\* The end of an operation frees its slot and no other.
LEMMA DoneEffect ==
    ASSUME TypeOK, NEW t \in Tasks, Done(t)
    PROVE  /\ tasks'[t].kind = "none" /\ tasks'[t].pc = "none"
           /\ \A s \in Tasks : s # t => tasks'[s] = tasks[s]
  BY DEF TypeOK, Done, NoTask

\* Entering cleanupResources arms no timer.
LEMMA CleanupEffect ==
    ASSUME TypeOK, NEW t \in Tasks, NEW kind, NEW failed, NEW tagged,
           StartCleanup(t, kind, failed, tagged)
    PROVE  /\ tasks'[t].kind = kind /\ tasks'[t].pc \in {"cancel", "closeChan"}
           /\ tasks'[t].failed = failed
           /\ \A s \in Tasks : s # t => tasks'[s] = tasks[s]
           /\ timers' \subseteq timers
  <1>1. CASE tagged /\ chan # None
    <2>1. Await(t, kind, "cancel", chan, failed) /\ timers' = timers
      BY <1>1 DEF StartCleanup, timerVars
    <2> QED BY <2>1, AwaitEffect
  <1>2. CASE ~ (tagged /\ chan # None)
    <2>1. Await(t, kind, "closeChan", ChanToClose, failed) /\ timers' \subseteq timers
      BY <1>2 DEF StartCleanup, ClearTimer
    <2> QED BY <2>1, AwaitEffect
  <1> QED BY <1>1, <1>2

\* With unlimited retries scheduleReconnection arms a timer.
LEMMA ScheduleArms ==
    ASSUME TypeOK, MaxRetries = 0, ScheduleReconnection
    PROVE  timers' # {}
  BY DEF ScheduleReconnection

\* The start of the connector: until its first build() has resolved, no timer
\* and no listener acts besides it.
LEMMA StartStep ==
    ASSUME TypeOK, TypeOK', StartInv, Next
    PROVE  StartInv'
<1> USE DEF Alone
<1> SUFFICES ASSUME Starting' PROVE Alone'
  BY DEF StartInv
<1>n. None \notin Conns /\ None \notin Chans
  BY IdentityAssumption
<1>b. builds \in Nat
  BY DEF TypeOK
<1>p. SetupPcs \cap CleanupPcs = {} /\ "connect" \notin SetupPcs \cup CleanupPcs
      /\ "none" \notin SetupPcs \cup CleanupPcs
  BY DEF SetupPcs, CleanupPcs
<1>1. ASSUME NEW t \in Tasks, Build(t) PROVE Alone'
  <2>1. builds = 0 /\ builds' = 1
    BY <1>1, <1>b DEF Build, Starting
  <2>2. NoListener /\ \A s \in Tasks : BuildOK(s)
    BY <2>1 DEF StartInv, Starting
  <2>3. \A s \in Tasks : tasks[s].kind = "none" /\ tasks[s].pc = "none"
    BY <1>1, <2>2 DEF Build, Idle, BuildOK
  <2>4. /\ tasks'[t].kind = "build" /\ tasks'[t].pc = "connect"
        /\ \A s \in Tasks : s # t => tasks'[s] = tasks[s]
    BY <1>1, AwaitEffect DEF Build
  <2>5. NoListener'
    BY <1>1, <2>2 DEF Build, NoListener, ClearTimer, brokerVars, eventVars
  <2>6. ASSUME NEW s \in Tasks PROVE BuildOK(s)'
    BY <2>1, <2>3, <2>4, <1>p DEF BuildOK
  <2>7. OneBuild'
    BY <2>3, <2>4 DEF OneBuild
  <2> QED BY <2>5, <2>6, <2>7
<1>2. ASSUME NEW t \in Tasks, Close(t) PROVE Alone'
  <2>1. builds = 0 /\ builds' = 0
    BY <1>2, <1>b DEF Close, Starting
  <2>2. NoListener /\ OneBuild /\ \A s \in Tasks : BuildOK(s)
    BY <2>1 DEF StartInv, Starting
  <2>4. /\ tasks'[t].kind = "close" /\ tasks'[t].pc \in {"cancel", "closeChan"}
        /\ \A s \in Tasks : s # t => tasks'[s] = tasks[s]
        /\ timers' \subseteq timers
    BY <1>2, CleanupEffect DEF Close
  <2>5. NoListener'
    BY <1>2, <2>2, <2>4 DEF Close, NoListener, brokerVars, eventVars
  <2>6. ASSUME NEW s \in Tasks PROVE BuildOK(s)'
    <3>1. CASE s = t
      BY <3>1, <2>1, <2>4 DEF BuildOK, CleanupPcs
    <3>2. CASE s # t
      BY <1>2, <3>2, <2>1, <2>2, <2>4 DEF BuildOK, Close
    <3> QED BY <3>1, <3>2
  <2>7. OneBuild'
    BY <2>2, <2>4 DEF OneBuild
  <2> QED BY <2>5, <2>6, <2>7
<1> SUFFICES ASSUME builds' = builds, intentional' = intentional, started => started'
             PROVE  Alone'
  <2>1. ASSUME NEW t \in Tasks,
               ConnectOk(t) \/ CreateOk(t) \/ DeclareOk(t) \/ CleanupCancelled(t)
                 \/ CleanupFinished(t) \/ SetupFails(t)
        PROVE  builds' = builds /\ intentional' = intentional /\ started' = started
    BY <2>1 DEF ConnectOk, CreateOk, DeclareOk, CleanupCancelled, CleanupFinished, SetupFails,
       countVars
  <2>2. ASSUME NEW t \in Tasks,
               ChannelCloseOk(t) \/ ConnectionCloseOk(t) \/ CleanupChannelClosed(t)
                 \/ ConnectFails(t)
        PROVE  builds' = builds /\ intentional' = intentional /\ started' = started
    BY <2>2 DEF ChannelCloseOk, ConnectionCloseOk, CleanupChannelClosed, ConnectFails,
       thisVars, countVars
  <2>3. ASSUME NEW t \in Tasks, ConsumeOk(t)
        PROVE  builds' = builds /\ intentional' = intentional /\ (started => started')
    <3>1. builds' = builds /\ intentional' = intentional
      BY <2>3 DEF ConsumeOk, countVars
    <3>2. UNCHANGED started \/ Connected(t)
      BY <2>3 DEF ConsumeOk
    <3>3. Connected(t) => (started => started')
      BY DEF Connected
    <3> QED BY <3>1, <3>2, <3>3
  <2>4. ASSUME Listener \/ (\E i \in Timers : TimerFires(i))
        PROVE  builds' = builds /\ intentional' = intentional /\ started' = started
    BY <2>4 DEF Listener, OnChannelClose, OnConnectionClose, TimerFires, countVars
  <2>5. ASSUME (\E c \in Conns : ConnDrop(c)) \/ (\E h \in Chans : ChanDrop(h))
        PROVE  builds' = builds /\ intentional' = intentional /\ started' = started
    BY <2>5 DEF ConnDrop, ChanDrop, thisVars
  <2> QED BY <1>1, <1>2, <2>1, <2>2, <2>3, <2>4, <2>5 DEF Next, Step, Progress
<1>s. Starting /\ NoListener /\ OneBuild /\ \A t \in Tasks : BuildOK(t)
  BY DEF Starting, StartInv
\* A step that arms nothing and touches only the task of the build, or that of
\* a close before it, keeps the rest.
<1>k. ASSUME NEW t \in Tasks, tasks'[t].kind \in {tasks[t].kind, "none"},
             \A s \in Tasks : s # t => tasks'[s] = tasks[s]
      PROVE  OneBuild'
  BY <1>s, <1>k DEF OneBuild
<1>o. ASSUME NEW t \in Tasks, NEW s \in Tasks, s # t, tasks'[s] = tasks[s],
             tasks[t].kind = "build" \/ (conn' = conn /\ chan' = chan)
             \/ tasks[t].kind = "close"
      PROVE  BuildOK(s)'
  <2>1. CASE tasks[s].kind = "build"
    <3>1. conn' = conn /\ chan' = chan
      BY <1>o, <1>s, <2>1 DEF OneBuild, BuildOK
    <3> QED BY <1>o, <1>s, <3>1 DEF BuildOK
  <2>2. CASE tasks[s].kind # "build"
    BY <1>o, <1>s, <2>2 DEF BuildOK
  <2> QED BY <2>1, <2>2
<1>u. ASSUME UNCHANGED tasks, UNCHANGED <<conn, chan>>
      PROVE  (OneBuild /\ \A t \in Tasks : BuildOK(t))'
  BY <1>s, <1>u DEF OneBuild, BuildOK
<1>l. ASSUME UNCHANGED <<connHooks, chanHooks>>, UNCHANGED eventVars, timers' \subseteq timers
      PROVE NoListener'
  BY <1>s, <1>l DEF NoListener, eventVars
<1>f. ASSUME NEW t \in Tasks, NEW tagged, tasks[t].kind = "build", SetupFailed(t, tagged)
      PROVE  /\ tasks'[t].kind = "build" /\ tasks'[t].pc \in {"cancel", "closeChan"}
             /\ \A s \in Tasks : s # t => tasks'[s] = tasks[s]
             /\ timers' \subseteq timers
  <2>1. StartCleanup(t, "build", TRUE, tagged)
    BY <1>f DEF SetupFailed
  <2> QED BY <2>1, CleanupEffect
<1>e. ASSUME NEW t \in Tasks, tasks[t].pc \in {"connect"} \cup SetupPcs
      PROVE  tasks[t].kind = "build"
  BY <1>s, <1>e, <1>p DEF BuildOK
<1>g. ASSUME NEW t \in Tasks, tasks[t].pc \in CleanupPcs
      PROVE tasks[t].kind \in {"build", "close"}
  BY <1>s, <1>g, <1>p DEF BuildOK
<1>3. ASSUME NEW t \in Tasks, ConnectOk(t) PROVE Alone'
  <2>1. tasks[t].kind = "build"
    BY <1>3, <1>e DEF ConnectOk
  <2>2. PICK c \in Conns : conn' = c /\ Await(t, "build", "create", c, FALSE)
    BY <1>3, <2>1 DEF ConnectOk, FreshConn, Lowest
  <2>3. /\ tasks'[t].kind = "build" /\ tasks'[t].pc = "create"
        /\ \A s \in Tasks : s # t => tasks'[s] = tasks[s]
    BY <2>1, <2>2, AwaitEffect
  <2>4. BuildOK(t)'
    BY <1>n, <1>s, <2>1, <2>2, <2>3 DEF BuildOK, SetupPcs
  <2>5. NoListener'
    BY <1>3, <1>l DEF ConnectOk, timerVars
  <2> QED BY <1>k, <1>o, <2>1, <2>3, <2>4, <2>5
<1>4. ASSUME NEW t \in Tasks, ConnectFails(t) PROVE Alone'
  <2>1. tasks[t].kind = "build"
    BY <1>4, <1>e DEF ConnectFails
  <2>3. /\ tasks'[t].kind = "build" /\ tasks'[t].pc \in {"cancel", "closeChan"}
        /\ \A s \in Tasks : s # t => tasks'[s] = tasks[s]
        /\ timers' \subseteq timers
    BY <1>4, <2>1, CleanupEffect DEF ConnectFails
  <2>4. BuildOK(t)'
    BY <1>s, <2>1, <2>3 DEF BuildOK, SetupPcs
  <2>5. NoListener'
    BY <1>4, <1>l, <2>3 DEF ConnectFails, brokerVars
  <2> QED BY <1>k, <1>o, <2>1, <2>3, <2>4, <2>5
<1>5. ASSUME NEW t \in Tasks, CreateOk(t) PROVE Alone'
  <2>1. tasks[t].kind = "build" /\ tasks[t].pc \in SetupPcs
    BY <1>5, <1>e DEF CreateOk, SetupPcs
  <2>2. PICK h \in Chans : chan' = h /\ Await(t, "build", "declare", h, FALSE)
    BY <1>5, <2>1 DEF CreateOk, FreshChan, Lowest
  <2>3. /\ tasks'[t].kind = "build" /\ tasks'[t].pc = "declare" /\ tasks'[t].on = h
        /\ \A s \in Tasks : s # t => tasks'[s] = tasks[s]
    BY <2>2 DEF Await, TypeOK
  <2>4. BuildOK(t)'
    BY <1>5, <1>s, <2>1, <2>2, <2>3 DEF BuildOK, CreateOk
  <2>5. NoListener'
    BY <1>5, <1>l DEF CreateOk, timerVars
  <2> QED BY <1>k, <1>o, <2>1, <2>3, <2>4, <2>5
<1>6. ASSUME NEW t \in Tasks, DeclareOk(t) PROVE Alone'
  <2>1. tasks[t].kind = "build" /\ tasks[t].pc \in SetupPcs
    BY <1>6, <1>e DEF DeclareOk, SetupPcs
  <2>2. chan = tasks[t].on /\ tasks[t].on \in Chans
    BY <1>6, <1>s, <2>1 DEF DeclareOk, BuildOK, Answers, OnConn, ChanAnswers, ChanOpen
  <2>3. PICK h \in Chans : timers' = timers /\ chan = h /\ Await(t, "build", "consume", h, FALSE)
    BY <1>6, <1>n, <2>1, <2>2 DEF DeclareOk, timerVars
  <2>4. /\ tasks'[t].kind = "build" /\ tasks'[t].pc = "consume" /\ tasks'[t].on = h
        /\ \A s \in Tasks : s # t => tasks'[s] = tasks[s]
    BY <2>3 DEF Await, TypeOK
  <2>5. BuildOK(t)'
    BY <1>6, <1>s, <2>1, <2>3, <2>4 DEF BuildOK, DeclareOk
  <2>6. NoListener'
    BY <1>6, <1>l, <2>3 DEF DeclareOk, brokerVars
  <2> QED BY <1>k, <1>o, <2>1, <2>4, <2>5, <2>6
<1>7. ASSUME NEW t \in Tasks, ConsumeOk(t) PROVE FALSE
  <2>1. tasks[t].kind = "build" /\ tasks[t].pc \in SetupPcs /\ builds = 1
    BY <1>7, <1>e, <1>s DEF ConsumeOk, SetupPcs, BuildOK
  <2>2. chan = tasks[t].on /\ tasks[t].on \in Chans
    BY <1>7, <1>s, <2>1 DEF ConsumeOk, BuildOK, Answers, OnConn, ChanAnswers, ChanOpen
  <2>3. ~ intentional
    BY <1>s, <2>1 DEF Starting
  <2>4. started'
    BY <1>7, <1>n, <2>1, <2>2, <2>3 DEF ConsumeOk, Connected
  <2> QED BY <2>1, <2>4 DEF Starting
<1>8. ASSUME NEW t \in Tasks, SetupFails(t) PROVE Alone'
  <2>1. tasks[t].kind = "build"
    BY <1>8, <1>e DEF SetupFails, SetupPcs
  <2>3. /\ tasks'[t].kind = "build" /\ tasks'[t].pc \in {"cancel", "closeChan"}
        /\ \A s \in Tasks : s # t => tasks'[s] = tasks[s]
        /\ timers' \subseteq timers
    BY <1>8, <2>1, <1>f DEF SetupFails
  <2>4. BuildOK(t)'
    BY <1>s, <2>1, <2>3 DEF BuildOK, SetupPcs
  <2>5. NoListener'
    BY <1>8, <1>l, <2>3 DEF SetupFails, brokerVars
  <2> QED BY <1>k, <1>o, <2>1, <2>3, <2>4, <2>5
<1>9. ASSUME NEW t \in Tasks, CleanupCancelled(t) PROVE Alone'
  <2>1. tasks[t].kind \in {"build", "close"}
    BY <1>9, <1>g DEF CleanupCancelled, CleanupPcs
  <2>3. /\ tasks'[t].kind = tasks[t].kind /\ tasks'[t].pc = "closeChan"
        /\ \A s \in Tasks : s # t => tasks'[s] = tasks[s]
    BY <1>9, AwaitEffect DEF CleanupCancelled
  <2>4. BuildOK(t)'
    BY <1>s, <2>1, <2>3 DEF BuildOK, SetupPcs, CleanupPcs
  <2>5. NoListener'
    BY <1>9, <1>l DEF CleanupCancelled, ClearTimer
  <2> QED BY <1>k, <1>o, <2>1, <2>3, <2>4, <2>5
<1>10. ASSUME NEW t \in Tasks, CleanupChannelClosed(t)
       PROVE  Alone'
  <2>1. tasks[t].kind \in {"build", "close"}
    BY <1>10, <1>g DEF CleanupChannelClosed, CleanupPcs
  <2>3. /\ tasks'[t].kind = tasks[t].kind /\ tasks'[t].pc = "closeConn"
        /\ \A s \in Tasks : s # t => tasks'[s] = tasks[s]
    BY <1>10, AwaitEffect DEF CleanupChannelClosed
  <2>4. BuildOK(t)'
    BY <1>s, <2>1, <2>3 DEF BuildOK, SetupPcs, CleanupPcs
  <2>5. NoListener'
    BY <1>10, <1>l DEF CleanupChannelClosed, brokerVars, timerVars
  <2> QED BY <1>k, <1>o, <2>1, <2>3, <2>4, <2>5
<1>11. ASSUME NEW t \in Tasks, CleanupFinished(t) PROVE Alone'
  <2>1. tasks[t].kind \in {"build", "close"}
    BY <1>11, <1>g DEF CleanupFinished, CleanupPcs
  <2>3. /\ tasks'[t].kind = "none" /\ tasks'[t].pc = "none"
        /\ \A s \in Tasks : s # t => tasks'[s] = tasks[s]
    BY <1>11, DoneEffect DEF CleanupFinished
  <2>4. BuildOK(t)'
    BY <2>3 DEF BuildOK
  <2>5. NoListener'
    BY <1>11, <1>l, <2>1 DEF CleanupFinished, brokerVars, timerVars
  <2> QED BY <1>k, <1>o, <2>1, <2>3, <2>4, <2>5
<1>12. ASSUME \/ \E h \in Chans : LoseChan(h)
              \/ \E c \in Conns : LoseConn(c),
              UNCHANGED <<thisVars, timerVars, tasks>>
       PROVE  Alone'
  <2>1. NoListener'
    BY <1>12, <1>s DEF NoListener, LoseChan, LoseConn, timerVars, TypeOK
  <2> QED BY <1>12, <1>u, <2>1 DEF thisVars
<1>13. ASSUME NEW t \in Tasks, ChannelCloseOk(t) PROVE Alone'
  <2>1. tasks[t].on \in Chans
    BY <1>13 DEF ChannelCloseOk, Quiet, Rejected, ChanOpen, OnChan
  <2> QED BY <1>12, <1>13, <2>1 DEF ChannelCloseOk
<1>14. ASSUME NEW t \in Tasks, ConnectionCloseOk(t) PROVE Alone'
  <2>1. tasks[t].on \in Conns
    BY <1>14 DEF ConnectionCloseOk, Quiet, Rejected, OnConn, TypeOK
  <2> QED BY <1>12, <1>14, <2>1 DEF ConnectionCloseOk
<1>15. ASSUME Listener PROVE FALSE
  BY <1>15, <1>s DEF Listener, OnChannelClose, OnConnectionClose, NoListener, Lowest
<1>16. ASSUME NEW i \in Timers, TimerFires(i) PROVE FALSE
  BY <1>16, <1>s DEF TimerFires, NoListener
<1>17. ASSUME NEW c \in Conns, ConnDrop(c) PROVE Alone'
  BY <1>12, <1>17 DEF ConnDrop
<1>18. ASSUME NEW h \in Chans, ChanDrop(h) PROVE Alone'
  BY <1>12, <1>18 DEF ChanDrop
<1> QED BY <1>1, <1>2, <1>3, <1>4, <1>5, <1>6, <1>7, <1>8, <1>9, <1>10, <1>11, <1>13, <1>14, <1>15,
           <1>16, <1>17, <1>18 DEF Next, Step, Progress

\* build() hands over a connector whose channel consumes and is watched.
LEMMA BuildHandsOver ==
    ASSUME TypeOK, StartInv, NEW t \in Tasks, ConsumeOk(t), ~ started, InUse'
    PROVE  ~ intentional' /\ (\A s \in Tasks : InUseOK(s))' /\ Covered'
<1>n. None \notin Conns /\ None \notin Chans
  BY IdentityAssumption
<1>1. builds = 1 /\ started'
  BY DEF ConsumeOk, InUse, countVars
<1>2. /\ chan # None /\ tasks[t].kind # "recreate" /\ ~ intentional
      /\ Connected(t)
  BY <1>1 DEF ConsumeOk
<1>3. tasks[t].kind = "build"
  <2>1. Connected(t) => started' = (started \/ tasks[t].kind = "build")
    BY DEF Connected
  <2> QED BY <1>1, <1>2, <2>1
<1>4. NoListener /\ OneBuild /\ \A s \in Tasks : BuildOK(s)
  BY <1>1, <1>2 DEF StartInv, Starting, Alone
<1>5. chan = tasks[t].on /\ chan \in Chans /\ ChanOpen(chan) /\ conn # None
  BY <1>3, <1>4 DEF ConsumeOk, BuildOK, Answers, OnConn, ChanAnswers, ChanOpen, SetupPcs
<1>6. \A s \in Tasks : tasks'[s].kind = "none" /\ tasks'[s].pc = "none"
  <2>1. /\ tasks'[t].kind = "none" /\ tasks'[t].pc = "none"
        /\ \A s \in Tasks : s # t => tasks'[s] = tasks[s]
    BY <1>2, DoneEffect DEF Connected
  <2>2. ASSUME NEW s \in Tasks, s # t PROVE tasks[s].kind = "none" /\ tasks[s].pc = "none"
    BY <1>1, <1>3, <1>4, <2>2 DEF OneBuild, BuildOK
  <2> QED BY <2>1, <2>2
<1>7. (\A s \in Tasks : InUseOK(s))'
  BY <1>6 DEF InUseOK, CleanupPcs
<1>8. chan' = chan /\ conn' = conn /\ connOpen' = connOpen /\ intentional' = intentional
      /\ chanOf' = chanOf /\ chanEvents' = chanEvents
  BY DEF ConsumeOk, eventVars
<1>9. ChannelCovered'
  <2>1. chan \in consuming' /\ chanHooks'[chan] > 0
    BY <1>4, <1>5 DEF ConsumeOk, NoListener, TypeOK
  <2>2. Consumes'
    BY <1>2, <1>5, <1>8, <2>1 DEF Consumes, ChanOpen
  <2> QED BY <2>2 DEF ChannelCovered
<1>10. ConnectionCovered'
  <2>1. state' = "connected" /\ (conn \in connOpen => connHooks'[conn] > 0)
    BY <1>2, <1>4 DEF Connected, NoListener, TypeOK
  <2>2. ~ Reported'
    BY <1>4, <1>8 DEF Reported, NoListener
  <2> QED BY <1>5, <1>8, <2>1, <2>2 DEF ConnectionCovered
<1> QED BY <1>2, <1>7, <1>8, <1>9, <1>10 DEF Covered

\* A connector in use stays covered, whatever happens to it next.
LEMMA UseStep ==
    ASSUME TypeOK, TypeOK', StartInv, UseInv, Next
    PROVE  UseInv'
<1> SUFFICES ASSUME InUse' PROVE ~ intentional' /\ (\A t \in Tasks : InUseOK(t))' /\ Covered'
  BY DEF UseInv
<1>n. None \notin Conns /\ None \notin Chans
  BY IdentityAssumption
<1>c. ReconnectEnabled /\ MaxRetries = 0 /\ started'
  BY DEF InUse, Next, ReconnectEnabled, MaxRetries
<1>1. ASSUME NEW t \in Tasks, Build(t) \/ Close(t) PROVE FALSE
  BY <1>1, <1>c DEF Build, Close
<1>2. ASSUME NEW t \in Tasks, ConsumeOk(t), ~ started
      PROVE ~ intentional' /\ (\A s \in Tasks : InUseOK(s))' /\ Covered'
  BY <1>2, BuildHandsOver
<1> SUFFICES ASSUME started, UNCHANGED <<builds, intentional>>
             PROVE  ~ intentional' /\ (\A t \in Tasks : InUseOK(t))' /\ Covered'
  <2>1. ASSUME NEW t \in Tasks,
               ConnectOk(t) \/ CreateOk(t) \/ DeclareOk(t) \/ CleanupCancelled(t)
                 \/ CleanupFinished(t) \/ SetupFails(t)
        PROVE  builds' = builds /\ intentional' = intentional /\ started' = started
    BY <2>1 DEF ConnectOk, CreateOk, DeclareOk, CleanupCancelled, CleanupFinished, SetupFails,
       countVars
  <2>2. ASSUME NEW t \in Tasks,
               ChannelCloseOk(t) \/ ConnectionCloseOk(t) \/ CleanupChannelClosed(t)
                 \/ ConnectFails(t)
        PROVE  builds' = builds /\ intentional' = intentional /\ started' = started
    BY <2>2 DEF ChannelCloseOk, ConnectionCloseOk, CleanupChannelClosed, ConnectFails,
       thisVars, countVars
  <2>3. ASSUME NEW t \in Tasks, ConsumeOk(t)
        PROVE  builds' = builds /\ intentional' = intentional
    BY <2>3 DEF ConsumeOk, countVars
  <2>4. ASSUME Listener \/ (\E i \in Timers : TimerFires(i))
        PROVE  builds' = builds /\ intentional' = intentional /\ started' = started
    BY <2>4 DEF Listener, OnChannelClose, OnConnectionClose, TimerFires, countVars
  <2>5. ASSUME (\E c \in Conns : ConnDrop(c)) \/ (\E h \in Chans : ChanDrop(h))
        PROVE  builds' = builds /\ intentional' = intentional /\ started' = started
    BY <2>5 DEF ConnDrop, ChanDrop, thisVars
  <2> QED BY <1>1, <1>2, <1>c, <2>1, <2>2, <2>3, <2>4, <2>5 DEF Next, Step, Progress
<1>s. InUse /\ ~ intentional /\ (\A t \in Tasks : InUseOK(t)) /\ Covered
  BY <1>c DEF InUse, UseInv
<1> SUFFICES (\A t \in Tasks : InUseOK(t))' /\ Covered'
  BY <1>s
\* An operation that is not a retry holds a setup; one that cleans up failed.
<1>i. ASSUME NEW t \in Tasks, InUseOK(t)', \A s \in Tasks : s # t => tasks'[s] = tasks[s]
      PROVE  (\A s \in Tasks : InUseOK(s))'
  BY <1>s, <1>i DEF InUseOK
<1>u. ASSUME UNCHANGED tasks PROVE (\A s \in Tasks : InUseOK(s))'
  BY <1>s, <1>u DEF InUseOK
<1>p. ASSUME RetryPending, UNCHANGED timers, connEvents > 0 => connEvents' > 0,
             NEW t \in Tasks, \A s \in Tasks : s # t => tasks'[s] = tasks[s],
             Retrying(t) => Retrying(t)'
      PROVE  RetryPending'
  BY <1>p DEF RetryPending, Retrying
<1>q. ASSUME NEW t \in Tasks, Retrying(t)' PROVE Covered'
  BY <1>q DEF Covered, RetryPending
<1>a. ASSUME ScheduleReconnection PROVE Covered'
  BY <1>a, <1>c, ScheduleArms DEF Covered, RetryPending
<1>e. ASSUME NEW t \in Tasks, tasks[t].pc \in CleanupPcs \cup {"connect"}
      PROVE  tasks[t].kind = "attempt" /\ Retrying(t) /\ RetryPending
  BY <1>s, <1>e DEF InUseOK, CleanupPcs, SetupPcs, Retrying, RetryPending
<1>g. ASSUME NEW t \in Tasks, tasks[t].pc \in SetupPcs
      PROVE  tasks[t].kind \in {"attempt", "recreate"} /\ ~ Retrying(t)
  BY <1>s, <1>g DEF InUseOK, CleanupPcs, SetupPcs, Retrying
<1>f. ASSUME NEW t \in Tasks, NEW tagged, tasks[t].kind \in {"attempt", "recreate"},
             SetupFailed(t, tagged)
      PROVE  (\A s \in Tasks : InUseOK(s))' /\ Covered'
  <2>1. CASE tasks[t].kind = "recreate"
    <3>1. Done(t) /\ ScheduleReconnection
      BY <1>f, <1>s, <1>c, <2>1 DEF SetupFailed, ReconnectUnlessClosed
    <3>2. InUseOK(t)' /\ \A s \in Tasks : s # t => tasks'[s] = tasks[s]
      BY <3>1, DoneEffect DEF InUseOK, CleanupPcs
    <3> QED BY <1>a, <1>i, <3>1, <3>2
  <2>2. CASE tasks[t].kind = "attempt"
    <3>1. StartCleanup(t, "attempt", TRUE, tagged)
      BY <1>f, <2>2 DEF SetupFailed
    <3>2. /\ tasks'[t].kind = "attempt" /\ tasks'[t].pc \in {"cancel", "closeChan"}
          /\ tasks'[t].failed = TRUE
          /\ \A s \in Tasks : s # t => tasks'[s] = tasks[s]
      BY <3>1, CleanupEffect
    <3>3. InUseOK(t)' /\ Retrying(t)'
      BY <3>2 DEF InUseOK, Retrying, CleanupPcs
    <3> QED BY <1>q, <1>i, <3>2, <3>3
  <2> QED BY <1>f, <2>1, <2>2
<1>3. ASSUME NEW t \in Tasks, ConnectOk(t) PROVE (\A s \in Tasks : InUseOK(s))' /\ Covered'
  <2>1. tasks[t].kind = "attempt"
    BY <1>3, <1>e DEF ConnectOk
  <2>2. PICK c \in Conns : conn' = c /\ Await(t, "attempt", "create", c, FALSE)
    BY <1>3, <2>1 DEF ConnectOk, FreshConn, Lowest
  <2>3. /\ tasks'[t].kind = "attempt" /\ tasks'[t].pc = "create"
        /\ \A s \in Tasks : s # t => tasks'[s] = tasks[s]
    BY <2>2, AwaitEffect
  <2>4. InUseOK(t)'
    BY <2>3 DEF InUseOK, CleanupPcs
  <2>5. ConnectionCovered'
    BY <1>n, <2>2, <2>3 DEF ConnectionCovered, Trying, SetupPcs
  <2>6. ChannelCovered'
    BY <2>3 DEF ChannelCovered, SetsUp
  <2> QED BY <1>i, <2>3, <2>4, <2>5, <2>6 DEF Covered
<1>4. ASSUME NEW t \in Tasks, ConnectFails(t) PROVE (\A s \in Tasks : InUseOK(s))' /\ Covered'
  <2>1. tasks[t].kind = "attempt"
    BY <1>4, <1>e DEF ConnectFails
  <2>2. /\ tasks'[t].kind = "attempt" /\ tasks'[t].pc \in {"cancel", "closeChan"}
        /\ tasks'[t].failed = TRUE
        /\ \A s \in Tasks : s # t => tasks'[s] = tasks[s]
    BY <1>4, <2>1, CleanupEffect DEF ConnectFails
  <2>3. InUseOK(t)' /\ Retrying(t)'
    BY <2>2 DEF InUseOK, Retrying, CleanupPcs
  <2> QED BY <1>q, <1>i, <2>2, <2>3
<1>5. ASSUME NEW t \in Tasks, CreateOk(t) PROVE (\A s \in Tasks : InUseOK(s))' /\ Covered'
  <2>1. tasks[t].kind \in {"attempt", "recreate"} /\ ~ Retrying(t)
    BY <1>5, <1>g DEF CreateOk, SetupPcs
  <2>2. PICK h \in Chans : chan' = h /\ tasks' = [tasks EXCEPT ![t] =
                [kind |-> tasks[t].kind, pc |-> "declare", on |-> h, failed |-> FALSE]]
    BY <1>5 DEF CreateOk, FreshChan, Lowest, Await
  <2>3. /\ tasks'[t].kind = tasks[t].kind /\ tasks'[t].pc = "declare" /\ tasks'[t].on = h
        /\ \A s \in Tasks : s # t => tasks'[s] = tasks[s]
    BY <2>2 DEF TypeOK
  <2>4. InUseOK(t)'
    BY <2>1, <2>3 DEF InUseOK, CleanupPcs, SetupPcs
  <2>5. CASE RetryPending
    BY <1>5, <1>i, <1>p, <2>1, <2>3, <2>4, <2>5 DEF CreateOk, timerVars, eventVars, Covered
  <2>6. CASE ~ RetryPending
    <3>1. ConnectionCovered
      BY <1>s, <2>6 DEF Covered
    <3>2. UNCHANGED <<conn, state, connOpen, connHooks, chanEvents, lost>>
      BY <1>5 DEF CreateOk, eventVars
    <3>3. Trying => Trying'
      BY <2>3 DEF Trying, SetupPcs
    <3>4. ConnectionCovered'
      BY <3>1, <3>2, <3>3 DEF ConnectionCovered, Reported
    <3>5. ChannelCovered'
      BY <2>2, <2>3 DEF ChannelCovered, SetsUp
    <3> QED BY <1>i, <2>3, <2>4, <3>4, <3>5 DEF Covered
  <2> QED BY <2>5, <2>6
<1>6. ASSUME NEW t \in Tasks, DeclareOk(t) PROVE (\A s \in Tasks : InUseOK(s))' /\ Covered'
  <2>1. tasks[t].kind \in {"attempt", "recreate"} /\ ~ Retrying(t)
    BY <1>6, <1>g DEF DeclareOk, SetupPcs
  <2>2. CASE chan = None
    BY <1>6, <1>f, <2>1, <2>2 DEF DeclareOk
  <2>3. CASE chan # None
    <3>1. /\ tasks' = [tasks EXCEPT ![t] =
                [kind |-> tasks[t].kind, pc |-> "consume", on |-> chan, failed |-> FALSE]]
          /\ UNCHANGED <<state, timers>>
      BY <1>6, <2>3 DEF DeclareOk, Await, timerVars
    <3>2. /\ tasks'[t].kind = tasks[t].kind /\ tasks'[t].pc = "consume" /\ tasks'[t].on = chan
          /\ \A s \in Tasks : s # t => tasks'[s] = tasks[s]
      BY <3>1 DEF TypeOK
    <3>3. InUseOK(t)'
      BY <2>1, <3>2 DEF InUseOK, CleanupPcs, SetupPcs
    <3>4. UNCHANGED <<conn, chan, connOpen, connHooks, chanEvents, connEvents, lost>>
      BY <1>6 DEF DeclareOk, brokerVars, eventVars
    <3>5. CASE RetryPending
      BY <1>i, <1>p, <2>1, <3>1, <3>2, <3>3, <3>4, <3>5 DEF Covered
    <3>6. CASE ~ RetryPending
      <4>1. ConnectionCovered
        BY <1>s, <3>6 DEF Covered
      <4>2. Trying => Trying'
        BY <3>2 DEF Trying, SetupPcs
      <4>3. ConnectionCovered'
        BY <3>1, <3>4, <4>1, <4>2 DEF ConnectionCovered, Reported
      <4>4. ChannelCovered'
        BY <3>2, <3>4 DEF ChannelCovered, SetsUp
      <4> QED BY <1>i, <3>2, <3>3, <4>3, <4>4 DEF Covered
    <3> QED BY <3>5, <3>6
  <2> QED BY <2>2, <2>3
<1>7. ASSUME NEW t \in Tasks, ConsumeOk(t) PROVE (\A s \in Tasks : InUseOK(s))' /\ Covered'
  <2>1. tasks[t].kind \in {"attempt", "recreate"} /\ ~ Retrying(t)
    BY <1>7, <1>g DEF ConsumeOk, SetupPcs
  <2>2. CASE chan = None
    <3>1. PICK tagged \in BOOLEAN : SetupFailed(t, tagged)
      BY <1>7, <2>2 DEF ConsumeOk
    <3> QED BY <1>f, <2>1, <3>1
  <2>3. CASE chan # None
    <3>1. \/ tasks[t].kind = "recreate" /\ Done(t) /\ UNCHANGED <<state, timerVars, connHooks>>
          \/ tasks[t].kind = "attempt" /\ Connected(t)
      BY <1>7, <1>s, <2>1, <2>3 DEF ConsumeOk
    <3>2. Done(t) /\ UNCHANGED timers
      BY <3>1 DEF Connected, timerVars
    <3>3. /\ tasks'[t].kind = "none" /\ tasks'[t].pc = "none"
          /\ \A s \in Tasks : s # t => tasks'[s] = tasks[s]
      BY <3>2, DoneEffect
    <3>4. InUseOK(t)'
      BY <3>3 DEF InUseOK, CleanupPcs
    <3>5. UNCHANGED <<conn, chan, connOpen, chanOf, chanEvents, connEvents, lost>>
      BY <1>7 DEF ConsumeOk, eventVars
    <3>6. CASE RetryPending
      BY <1>i, <1>p, <2>1, <3>2, <3>3, <3>4, <3>5, <3>6 DEF Covered
    <3>7. CASE ~ RetryPending
      <4>1. ConnectionCovered /\ ChannelCovered
        BY <1>s, <3>7 DEF Covered
      <4>2. ~ Reported /\ chan \in Chans /\ chanEvents[chan] = 0
        BY <1>7, <2>3 DEF ConsumeOk, Quiet, Drained, Reported, TypeOK
      <4>3. ConnectionCovered'
        <5>1. CASE tasks[t].kind = "recreate"
          <6>1. Trying => Trying'
            BY <3>3, <5>1 DEF Trying
          <6>2. UNCHANGED <<state, connHooks>>
            BY <3>1, <5>1
          <6> QED BY <3>5, <4>1, <4>2, <6>1, <6>2 DEF ConnectionCovered, Reported
        <5>2. CASE tasks[t].kind = "attempt"
          <6>1. state' = "connected" /\ (conn \in connOpen => connHooks'[conn] > 0)
            BY <3>1, <5>2 DEF Connected, TypeOK
          <6> QED BY <3>5, <4>1, <4>2, <6>1 DEF ConnectionCovered, Reported
        <5> QED BY <2>1, <5>1, <5>2
      <4>4. ChannelCovered'
        <5>1. consuming \subseteq consuming' /\ tasks[t].on \in consuming'
              /\ (ChanOpen(chan) => chanHooks'[chan] > 0)
          BY <1>7, <4>2 DEF ConsumeOk, TypeOK
        <5>2. CASE tasks[t].on = chan
          <6>1. ChanOpen(chan)
            BY <1>7, <5>2 DEF ConsumeOk, Answers, OnConn, ChanAnswers
          <6> QED BY <2>3, <3>5, <5>1, <5>2, <6>1 DEF ChannelCovered, Consumes, ChanOpen
        <5>3. CASE tasks[t].on # chan
          <6>1. CASE Consumes
            BY <2>3, <3>5, <5>1, <6>1 DEF ChannelCovered, Consumes, ChanOpen
          <6>2. CASE \E s \in Tasks : SetsUp(s)
            <7>1. PICK s \in Tasks : SetsUp(s)
              BY <6>2
            <7>2. s # t
              BY <1>7, <2>3, <5>3, <7>1 DEF SetsUp, ConsumeOk
            <7>3. SetsUp(s)'
              BY <3>3, <3>5, <7>1, <7>2 DEF SetsUp
            <7> QED BY <7>3 DEF ChannelCovered
          <6> QED BY <2>3, <4>1, <4>2, <6>1, <6>2 DEF ChannelCovered
        <5> QED BY <5>2, <5>3
      <4> QED BY <1>i, <3>3, <3>4, <4>3, <4>4 DEF Covered
    <3> QED BY <3>6, <3>7
  <2> QED BY <2>2, <2>3
<1>8. ASSUME NEW t \in Tasks, SetupFails(t) PROVE (\A s \in Tasks : InUseOK(s))' /\ Covered'
  <2>1. tasks[t].kind \in {"attempt", "recreate"}
    BY <1>8, <1>g DEF SetupFails, SetupPcs
  <2> QED BY <1>8, <1>f, <2>1 DEF SetupFails
<1>9. ASSUME NEW t \in Tasks, CleanupCancelled(t) PROVE (\A s \in Tasks : InUseOK(s))' /\ Covered'
  <2>1. tasks[t].kind = "attempt" /\ tasks[t].failed
    BY <1>9, <1>e, <1>s DEF CleanupCancelled, CleanupPcs, InUseOK
  <2>2. /\ tasks'[t].kind = tasks[t].kind /\ tasks'[t].pc = "closeChan"
        /\ tasks'[t].failed = tasks[t].failed
        /\ \A s \in Tasks : s # t => tasks'[s] = tasks[s]
    BY <1>9, AwaitEffect DEF CleanupCancelled
  <2>3. InUseOK(t)' /\ Retrying(t)'
    BY <2>1, <2>2 DEF InUseOK, Retrying, CleanupPcs
  <2> QED BY <1>q, <1>i, <2>2, <2>3
<1>10. ASSUME NEW t \in Tasks, CleanupChannelClosed(t)
       PROVE  (\A s \in Tasks : InUseOK(s))' /\ Covered'
  <2>1. tasks[t].kind = "attempt" /\ tasks[t].failed
    BY <1>10, <1>e, <1>s DEF CleanupChannelClosed, CleanupPcs, InUseOK
  <2>2. /\ tasks'[t].kind = tasks[t].kind /\ tasks'[t].pc = "closeConn"
        /\ tasks'[t].failed = tasks[t].failed
        /\ \A s \in Tasks : s # t => tasks'[s] = tasks[s]
    BY <1>10, AwaitEffect DEF CleanupChannelClosed
  <2>3. InUseOK(t)' /\ Retrying(t)'
    BY <2>1, <2>2 DEF InUseOK, Retrying, CleanupPcs
  <2> QED BY <1>q, <1>i, <2>2, <2>3
<1>11. ASSUME NEW t \in Tasks, CleanupFinished(t) PROVE (\A s \in Tasks : InUseOK(s))' /\ Covered'
  <2>1. tasks[t].kind = "attempt" /\ tasks[t].failed
    BY <1>11, <1>e, <1>s DEF CleanupFinished, CleanupPcs, InUseOK
  <2>2. ScheduleReconnection /\ Done(t)
    BY <1>11, <2>1 DEF CleanupFinished
  <2>3. InUseOK(t)' /\ \A s \in Tasks : s # t => tasks'[s] = tasks[s]
    BY <2>2, DoneEffect DEF InUseOK, CleanupPcs
  <2> QED BY <1>a, <1>i, <2>2, <2>3
<1>12. ASSUME NEW t \in Tasks, ChannelCloseOk(t) \/ ConnectionCloseOk(t)
       PROVE  (\A s \in Tasks : InUseOK(s))' /\ Covered'
  <2>1. UNCHANGED tasks
    BY <1>12 DEF ChannelCloseOk, ConnectionCloseOk
  <2>2. Retrying(t)
    BY <1>12, <1>e DEF ChannelCloseOk, ConnectionCloseOk, CleanupPcs
  <2>3. Retrying(t)'
    BY <2>1, <2>2 DEF Retrying
  <2> QED BY <1>q, <1>u, <2>1, <2>3
<1>13. ASSUME OnChannelClose PROVE (\A s \in Tasks : InUseOK(s))' /\ Covered'
  <2>1. UNCHANGED <<timers, connEvents, conn, state, connOpen, connHooks, lost>> /\ chan' = None
    BY <1>13 DEF OnChannelClose, timerVars, brokerVars
  <2>2. Reported
    BY <1>13 DEF OnChannelClose, Lowest, Reported
  <2>3. CASE UNCHANGED tasks /\ (conn = None \/ conn = lost)
    <3>1. CASE RetryPending
      BY <1>u, <2>1, <2>3, <3>1 DEF RetryPending, Retrying, Covered
    <3>2. CASE ~ RetryPending
      <4>1. ConnectionCovered
        BY <1>s, <3>2 DEF Covered
      <4>2. Trying
        BY <2>2, <2>3, <4>1 DEF ConnectionCovered
      <4>3. PICK t \in Tasks : tasks[t].kind = "attempt" /\ tasks[t].pc \in SetupPcs
        BY <4>2 DEF Trying
      <4>4. Trying' /\ SetsUp(t)'
        BY <2>1, <2>3, <4>3 DEF Trying, SetsUp, SetupPcs
      <4>5. ConnectionCovered'
        BY <2>1, <4>1, <4>4 DEF ConnectionCovered
      <4>6. ChannelCovered'
        BY <4>4 DEF ChannelCovered
      <4> QED BY <1>u, <2>3, <4>5, <4>6 DEF Covered
    <3> QED BY <3>1, <3>2
  <2>4. CASE \E t \in Lowest(Free) : Await(t, "recreate", "create", conn, FALSE)
    <3>1. PICK t \in Tasks : tasks[t].kind = "none" /\ Await(t, "recreate", "create", conn, FALSE)
      BY <2>4 DEF Lowest, Free
    <3>2. /\ tasks'[t].kind = "recreate" /\ tasks'[t].pc = "create"
          /\ \A s \in Tasks : s # t => tasks'[s] = tasks[s]
      BY <3>1, AwaitEffect
    <3>3. InUseOK(t)' /\ ~ Retrying(t)
      BY <3>1, <3>2 DEF InUseOK, CleanupPcs, SetupPcs, Retrying
    <3>4. CASE RetryPending
      BY <1>i, <1>p, <2>1, <3>2, <3>3, <3>4 DEF Covered
    <3>5. CASE ~ RetryPending
      <4>1. ConnectionCovered
        BY <1>s, <3>5 DEF Covered
      <4>2. Trying => Trying'
        BY <3>1, <3>2 DEF Trying
      <4>3. ConnectionCovered'
        BY <2>1, <2>2, <4>1, <4>2 DEF ConnectionCovered
      <4>4. ChannelCovered'
        BY <3>2 DEF ChannelCovered, SetsUp
      <4> QED BY <1>i, <3>2, <3>3, <4>3, <4>4 DEF Covered
    <3> QED BY <3>4, <3>5
  <2> QED BY <1>13, <1>s, <2>3, <2>4 DEF OnChannelClose, Recreate
<1>14. ASSUME OnConnectionClose PROVE (\A s \in Tasks : InUseOK(s))' /\ Covered'
  <2>1. ScheduleReconnection /\ UNCHANGED tasks
    BY <1>14, <1>s, <1>c DEF OnConnectionClose
  <2> QED BY <1>a, <1>u, <2>1
<1>15. ASSUME NEW i \in Timers, TimerFires(i) PROVE (\A s \in Tasks : InUseOK(s))' /\ Covered'
  <2>1. PICK t \in Tasks : Await(t, "attempt", "connect", None, FALSE)
    BY <1>15, <1>s DEF TimerFires, Lowest, Free
  <2>2. /\ tasks'[t].kind = "attempt" /\ tasks'[t].pc = "connect"
        /\ \A s \in Tasks : s # t => tasks'[s] = tasks[s]
    BY <2>1, AwaitEffect
  <2>3. InUseOK(t)' /\ Retrying(t)'
    BY <2>2 DEF InUseOK, CleanupPcs, Retrying
  <2> QED BY <1>q, <1>i, <2>2, <2>3
\* Losses: what is watched is reported.
<1>l. ASSUME Quiet, UNCHANGED <<thisVars, timerVars, tasks>>,
             connEvents' \in Nat,
             RetryPending' \/ (ConnectionCovered /\ ChannelCovered => (ConnectionCovered /\ ChannelCovered)')
      PROVE  (\A s \in Tasks : InUseOK(s))' /\ Covered'
  <2>1. CASE RetryPending
    <3>1. RetryPending'
      BY <1>l, <2>1 DEF RetryPending, Retrying, Quiet, Drained, timerVars
    <3> QED BY <1>l, <1>u, <3>1 DEF Covered
  <2>2. CASE ~ RetryPending
    BY <1>l, <1>s, <1>u, <2>2 DEF Covered
  <2> QED BY <2>1, <2>2
<1>h. ASSUME Quiet, ChannelCovered, UNCHANGED <<thisVars, tasks>>,
             \A h \in Chans : \/ chanEvents'[h] = chanHooks[h]
                              \/ /\ chanOf'[h] = chanOf[h] /\ chanHooks'[h] = chanHooks[h]
                                 /\ h \in consuming => h \in consuming'
      PROVE  ChannelCovered'
  <2>1. CASE Consumes
    <3>1. chan \in Chans /\ chan' = chan
      BY <1>h, <2>1 DEF Consumes, TypeOK, thisVars
    <3> QED BY <1>h, <2>1, <3>1 DEF ChannelCovered, Consumes, ChanOpen
  <2>2. CASE \E t \in Tasks : SetsUp(t)
    BY <1>h, <2>2 DEF ChannelCovered, SetsUp, thisVars
  <2>3. ~ (IF chan = None THEN Reported ELSE chanEvents[chan] > 0)
    BY <1>h DEF Quiet, Drained, Reported, TypeOK
  <2> QED BY <1>h, <2>1, <2>2, <2>3 DEF ChannelCovered
<1>16. ASSUME NEW c \in Conns, ConnDrop(c) PROVE (\A s \in Tasks : InUseOK(s))' /\ Covered'
  <2>1. Quiet /\ LoseConn(c) /\ UNCHANGED <<thisVars, timerVars, tasks>>
    BY <1>16 DEF ConnDrop
  <2>2. ASSUME ~ RetryPending', ConnectionCovered, ChannelCovered
        PROVE (ConnectionCovered /\ ChannelCovered)'
    <3>1. connHooks[c] = 0 /\ c \in connOpen
      BY <1>16, <2>1, <2>2 DEF RetryPending, LoseConn, TypeOK, ConnDrop
    <3>2. Trying => Trying'
      BY <2>1 DEF Trying
    <3>3. ConnectionCovered'
      BY <2>1, <2>2, <3>1, <3>2 DEF ConnectionCovered, LoseConn, thisVars, TypeOK
    <3>4. \A h \in Chans : \/ chanEvents'[h] = chanHooks[h]
                           \/ /\ chanOf'[h] = chanOf[h] /\ chanHooks'[h] = chanHooks[h]
                              /\ h \in consuming => h \in consuming'
      BY <2>1 DEF LoseConn
    <3>5. ChannelCovered'
      BY <1>h, <2>1, <2>2, <3>4
    <3> QED BY <3>3, <3>5
  <2> QED BY <1>l, <2>1, <2>2 DEF TypeOK
<1>17. ASSUME NEW h \in Chans, ChanDrop(h) PROVE (\A s \in Tasks : InUseOK(s))' /\ Covered'
  <2>1. Quiet /\ LoseChan(h) /\ UNCHANGED <<thisVars, timerVars, tasks>>
    BY <1>17 DEF ChanDrop
  <2>2. ASSUME ConnectionCovered, ChannelCovered
        PROVE (ConnectionCovered /\ ChannelCovered)'
    <3>2. Trying => Trying'
      BY <2>1 DEF Trying
    <3>3. ConnectionCovered'
      BY <2>1, <2>2, <3>2 DEF ConnectionCovered, LoseChan, thisVars
    <3>4. \A g \in Chans : \/ chanEvents'[g] = chanHooks[g]
                           \/ /\ chanOf'[g] = chanOf[g] /\ chanHooks'[g] = chanHooks[g]
                              /\ g \in consuming => g \in consuming'
      BY <2>1 DEF LoseChan, TypeOK
    <3>5. ChannelCovered'
      BY <1>h, <2>1, <2>2, <3>4
    <3> QED BY <3>3, <3>5
  <2> QED BY <1>l, <2>1, <2>2 DEF TypeOK
<1> QED BY <1>1, <1>3, <1>4, <1>5, <1>6, <1>7, <1>8, <1>9, <1>10, <1>11, <1>12, <1>13, <1>14, <1>15,
           <1>16, <1>17 DEF Next, Step, Progress, Listener

\* A connector in use with unlimited retries is never abandoned: for every
\* number of losses, refusals, overlapping attempts and recreations, when it
\* comes to rest a retry is pending or its channel consumes and it says so.
THEOREM InUseNeverAbandoned == Spec => []NeverAbandoned
<1>1. Init => StartInv /\ UseInv
  <2> SUFFICES ASSUME Init PROVE StartInv /\ UseInv
    OBVIOUS
  <2>1. \A t \in Tasks : tasks[t] = NoTask
    BY DEF Init
  <2>2. StartInv
    BY <2>1 DEF Init, StartInv, Alone, NoListener, OneBuild, BuildOK, NoTask
  <2>3. UseInv
    BY DEF Init, UseInv, InUse
  <2> QED BY <2>2, <2>3
<1>2. TypeOK /\ TypeOK' /\ StartInv /\ UseInv /\ [Next]_vars => StartInv' /\ UseInv'
  <2> SUFFICES ASSUME TypeOK, TypeOK', StartInv, UseInv, [Next]_vars PROVE StartInv' /\ UseInv'
    OBVIOUS
  <2>1. CASE Next
    BY <2>1, StartStep, UseStep
  <2>2. CASE UNCHANGED vars
    <3>1. StartInv'
      BY <2>2 DEF vars, thisVars, timerVars, brokerVars, eventVars, countVars, StartInv, Starting,
         Alone, NoListener, OneBuild, BuildOK
    <3>2. UseInv'
      BY <2>2 DEF vars, thisVars, timerVars, brokerVars, eventVars, countVars, UseInv, InUse, InUseOK,
         ReconnectEnabled, MaxRetries, Covered, RetryPending, Retrying, ConnectionCovered, Trying,
         Reported, ChannelCovered, Consumes, ChanOpen, SetsUp
    <3> QED BY <3>1, <3>2
  <2> QED BY <2>1, <2>2
<1>3. TypeOK /\ UseInv => NeverAbandoned
  <2> SUFFICES ASSUME TypeOK, UseInv, started, builds = 1, ReconnectEnabled, MaxRetries = 0,
                      Resting, timers = {}
               PROVE  Serving /\ state = "connected"
    BY DEF NeverAbandoned
  <2>1. (\A t \in Tasks : InUseOK(t)) /\ Covered
    BY DEF UseInv, InUse
  <2>2. \A t \in Tasks : tasks[t].kind = "none" /\ tasks[t].pc = "none"
    BY <2>1 DEF Resting, Free, InUseOK
  <2>3. connEvents = 0 /\ ~ Reported /\ (chan # None => ~ (chanEvents[chan] > 0))
    BY DEF Resting, Quiet, Drained, Reported, TypeOK
  <2>4. ~ RetryPending /\ ~ Trying /\ ~ \E t \in Tasks : SetsUp(t)
    BY <2>2, <2>3 DEF RetryPending, Retrying, Trying, SetsUp
  <2>5. Consumes /\ state = "connected"
    BY <2>1, <2>3, <2>4 DEF Covered, ChannelCovered, ConnectionCovered
  <2> QED BY <2>5 DEF Serving, Consumes
<1> QED BY <1>1, <1>2, <1>3, TypeCorrect, PTL DEF Spec

-----------------------------------------------------------------------------
(***************************************************************************)
(* Released after close.  Without reconnection at most one connection is   *)
(* open, and it has somebody to release it: the owner who was handed the   *)
(* connector, or a call of build() or close() in flight.  What makes this  *)
(* inductive is that nobody forgets an open connection that is not being   *)
(* closed: cleanupResources sets `connection' to undefined only after its  *)
(* own request was answered, and then either that was the connection or    *)
(* another call has its close under way.                                   *)
(***************************************************************************)

\* Channels live on open connections, consumers on open channels.
Nested == /\ \A h \in Chans : chanOf[h] # None => chanOf[h] \in connOpen
          /\ \A h \in consuming : chanOf[h] # None

InUseIsNotClosed == started => ~ intentional

Callers == {"build", "close"}

ReleaseTask(t) ==
    /\ tasks[t].kind \in Callers \cup {"none", "recreate"}
    /\ tasks[t].kind = "none" => tasks[t].pc = "none"
    /\ tasks[t].kind = "recreate" => tasks[t].pc \in SetupPcs
    /\ tasks[t].kind = "close" => tasks[t].pc \in CleanupPcs /\ intentional
    /\ tasks[t].kind \in Callers => ~ started
    /\ tasks[t].kind = "build" /\ tasks[t].pc = "connect" => connOpen = {}

Owned ==
    /\ \A c, d \in connOpen : c = d
    /\ connEvents > 0 => connOpen = {}
    /\ \A c \in connOpen : conn = c \/ Awaits("closeConn", c)
    /\ connOpen # {} => started \/ \E t \in Tasks : tasks[t].kind \in Callers

\* A cleanup whose last request is answered leaves no connection to others,
\* unless they are closing it.
NotForgotten ==
    \A t \in Tasks, c \in connOpen :
        tasks[t].pc = "closeConn" /\ tasks[t].on \notin connOpen => Awaits("closeConn", c)

ReleaseInv ==
    ~ ReconnectEnabled => /\ timers = {} /\ OneBuild /\ Owned /\ NotForgotten
                          /\ \A t \in Tasks : ReleaseTask(t)

\* Losing a connection loses its channels and their consumers.
LEMMA NestedStep ==
    ASSUME TypeOK, Nested, Next
    PROVE  Nested'
<1>1. ASSUME connOpen \subseteq connOpen', UNCHANGED chanOf, consuming' \subseteq consuming
      PROVE  Nested'
  BY <1>1 DEF Nested
<1>2. ASSUME NEW t \in Tasks, Build(t) \/ Close(t) \/ ConnectFails(t) \/ SetupFails(t) \/ DeclareOk(t)
                              \/ CleanupChannelClosed(t) \/ CleanupFinished(t)
      PROVE  Nested'
  BY <1>1, <1>2 DEF Build, Close, ConnectFails, SetupFails, DeclareOk, CleanupChannelClosed,
     CleanupFinished, brokerVars
<1>3. ASSUME NEW t \in Tasks, ConnectOk(t) \/ CleanupCancelled(t) PROVE Nested'
  BY <1>1, <1>3 DEF ConnectOk, CleanupCancelled
<1>4. ASSUME NEW t \in Tasks, CreateOk(t) PROVE Nested'
  <2>1. PICK h \in Chans : chanOf[h] = None /\ chanOf' = [chanOf EXCEPT ![h] = tasks[t].on]
    BY <1>4 DEF CreateOk, FreshChan, Lowest
  <2>2. tasks[t].on \in connOpen /\ UNCHANGED <<connOpen, consuming>>
    BY <1>4 DEF CreateOk, Answers, ConnAnswers, OnConn
  <2> QED BY <2>1, <2>2 DEF Nested, TypeOK
<1>5. ASSUME NEW t \in Tasks, ConsumeOk(t) PROVE Nested'
  <2>1. chanOf[tasks[t].on] # None
    BY <1>5 DEF ConsumeOk, Answers, ChanAnswers, ChanOpen, OnConn
  <2> QED BY <1>5, <2>1 DEF Nested, ConsumeOk
<1>6. ASSUME NEW h \in Chans, LoseChan(h) PROVE Nested'
  BY <1>6 DEF Nested, LoseChan, TypeOK
<1>7. ASSUME NEW c \in Conns, LoseConn(c) PROVE Nested'
  BY <1>7 DEF Nested, LoseConn, TypeOK
<1>8. ASSUME NEW t \in Tasks, ChannelCloseOk(t) \/ ConnectionCloseOk(t) PROVE Nested'
  <2>1. CASE ChannelCloseOk(t)
    <3>1. tasks[t].on \in Chans
      BY <2>1 DEF ChannelCloseOk, Quiet, Rejected, ChanOpen, OnChan
    <3> QED BY <1>6, <2>1, <3>1 DEF ChannelCloseOk
  <2>2. CASE ConnectionCloseOk(t)
    <3>1. tasks[t].on \in Conns
      BY <2>2 DEF ConnectionCloseOk, Quiet, Rejected, OnConn, TypeOK
    <3> QED BY <1>7, <2>2, <3>1 DEF ConnectionCloseOk
  <2> QED BY <1>8, <2>1, <2>2
<1>9. ASSUME Listener \/ \E i \in Timers : TimerFires(i) PROVE Nested'
  BY <1>1, <1>9 DEF Listener, OnChannelClose, OnConnectionClose, TimerFires, brokerVars
<1>10. ASSUME (\E c \in Conns : ConnDrop(c)) \/ (\E h \in Chans : ChanDrop(h)) PROVE Nested'
  BY <1>6, <1>7, <1>10 DEF ConnDrop, ChanDrop
<1> QED BY <1>2, <1>3, <1>4, <1>5, <1>8, <1>9, <1>10 DEF Next, Step, Progress

\* build() looks at isIntentionalClose before it hands the connector over.
LEMMA NotClosedStep ==
    ASSUME TypeOK, InUseIsNotClosed, Next
    PROVE  InUseIsNotClosed'
<1>1. ASSUME NEW t \in Tasks, Build(t) PROVE InUseIsNotClosed'
  <2>1. started' = started /\ ~ started
    BY <1>1 DEF Build
  <2> QED BY <2>1 DEF InUseIsNotClosed
<1>2. ASSUME NEW t \in Tasks, Close(t) PROVE InUseIsNotClosed'
  BY <1>2 DEF Close, InUseIsNotClosed
<1>3. ASSUME UNCHANGED <<started, intentional>> PROVE InUseIsNotClosed'
  BY <1>3 DEF InUseIsNotClosed
<1>4. ASSUME NEW t \in Tasks, ConnectOk(t) \/ CreateOk(t) \/ DeclareOk(t) \/ CleanupCancelled(t)
                              \/ CleanupFinished(t) \/ SetupFails(t)
      PROVE  InUseIsNotClosed'
  BY <1>3, <1>4 DEF ConnectOk, CreateOk, DeclareOk, CleanupCancelled, CleanupFinished, SetupFails
<1>5. ASSUME NEW t \in Tasks, ChannelCloseOk(t) \/ ConnectionCloseOk(t) \/ CleanupChannelClosed(t)
                              \/ ConnectFails(t)
      PROVE  InUseIsNotClosed'
  BY <1>3, <1>5 DEF ChannelCloseOk, ConnectionCloseOk, CleanupChannelClosed, ConnectFails, thisVars
<1>6. ASSUME NEW t \in Tasks, ConsumeOk(t) PROVE InUseIsNotClosed'
  <2>1. intentional' = intentional /\ (UNCHANGED started \/ ~ intentional)
    BY <1>6 DEF ConsumeOk
  <2> QED BY <1>3, <2>1 DEF InUseIsNotClosed
<1>7. ASSUME Listener \/ \E i \in Timers : TimerFires(i) PROVE InUseIsNotClosed'
  BY <1>3, <1>7 DEF Listener, OnChannelClose, OnConnectionClose, TimerFires
<1>8. ASSUME (\E c \in Conns : ConnDrop(c)) \/ (\E h \in Chans : ChanDrop(h))
      PROVE  InUseIsNotClosed'
  BY <1>3, <1>8 DEF ConnDrop, ChanDrop, thisVars
<1> QED BY <1>1, <1>2, <1>4, <1>5, <1>6, <1>7, <1>8 DEF Next, Step, Progress

\* Without reconnection an open connection always has somebody to release it.
LEMMA ReleaseStep ==
    ASSUME TypeOK, TypeOK', ReleaseInv, InUseIsNotClosed, InUseIsNotClosed', Next
    PROVE  ReleaseInv'
<1> DEFINE Keeps == /\ timers' = {} /\ OneBuild' /\ Owned' /\ NotForgotten'
                    /\ (\A t \in Tasks : ReleaseTask(t))'
<1> SUFFICES ASSUME ~ ReconnectEnabled PROVE Keeps
  BY DEF ReleaseInv, Next, ReconnectEnabled
<1>n. None \notin Conns
  BY IdentityAssumption
<1>s. timers = {} /\ OneBuild /\ Owned /\ NotForgotten /\ \A t \in Tasks : ReleaseTask(t)
  BY DEF ReleaseInv
<1>c. ASSUME NEW t \in Tasks, tasks[t].pc = "connect" PROVE tasks[t].kind = "build" /\ connOpen = {}
  BY <1>s, <1>c DEF ReleaseTask, SetupPcs, CleanupPcs, Callers
<1>g. ASSUME NEW t \in Tasks, tasks[t].pc \in SetupPcs PROVE tasks[t].kind \in {"build", "recreate"}
  BY <1>s, <1>g DEF ReleaseTask, SetupPcs, CleanupPcs, Callers
<1>e. ASSUME NEW t \in Tasks, tasks[t].pc \in CleanupPcs PROVE tasks[t].kind \in Callers
  BY <1>s, <1>e DEF ReleaseTask, SetupPcs, CleanupPcs, Callers
\* A step of one operation that neither closes a connection nor opens one.
<1>w. ASSUME NEW t \in Tasks, \A s \in Tasks : s # t => tasks'[s] = tasks[s],
             UNCHANGED <<connOpen, conn, connEvents, started>>, intentional => intentional',
             timers' \subseteq timers,
             tasks[t].pc # "closeConn", tasks'[t].pc # "closeConn",
             tasks[t].kind \in Callers => tasks'[t].kind \in Callers,
             tasks'[t].kind = "build" => tasks[t].kind = "build",
             ReleaseTask(t)'
      PROVE  Keeps
  <2>1. OneBuild'
    BY <1>s, <1>w DEF OneBuild
  <2>2. \A c : Awaits("closeConn", c)' <=> Awaits("closeConn", c)
    BY <1>w DEF Awaits
  <2>3. Owned'
    BY <1>s, <1>w, <2>2 DEF Owned
  <2>4. NotForgotten'
    BY <1>s, <1>w, <2>2 DEF NotForgotten
  <2>5. ASSUME NEW s \in Tasks, s # t PROVE ReleaseTask(s)'
    BY <1>s, <1>w, <2>5 DEF ReleaseTask
  <2> QED BY <1>s, <1>w, <2>1, <2>3, <2>4, <2>5
<1>f. ASSUME NEW t \in Tasks, NEW tagged, tasks[t].pc \in SetupPcs, SetupFailed(t, tagged),
             UNCHANGED <<connOpen, conn, connEvents, started, intentional>>
      PROVE  Keeps
  <2>1. CASE tasks[t].kind = "recreate"
    <3>1. Done(t) /\ timers' = timers
      BY <1>f, <2>1 DEF SetupFailed, ReconnectUnlessClosed, timerVars
    <3>2. /\ tasks'[t].kind = "none" /\ tasks'[t].pc = "none"
          /\ \A s \in Tasks : s # t => tasks'[s] = tasks[s]
      BY <3>1, DoneEffect
    <3>3. ReleaseTask(t)'
      BY <3>2 DEF ReleaseTask, Callers
    <3>4. tasks[t].kind \notin Callers /\ tasks[t].pc # "closeConn"
      BY <1>f, <2>1 DEF Callers, SetupPcs
    <3> QED BY <1>f, <1>w, <3>1, <3>2, <3>3, <3>4
  <2>2. CASE tasks[t].kind = "build"
    <3>1. StartCleanup(t, "build", TRUE, tagged)
      BY <1>f, <2>2 DEF SetupFailed
    <3>2. /\ tasks'[t].kind = "build" /\ tasks'[t].pc \in {"cancel", "closeChan"}
          /\ \A s \in Tasks : s # t => tasks'[s] = tasks[s]
          /\ timers' \subseteq timers
      BY <3>1, CleanupEffect
    <3>3. ReleaseTask(t)'
      BY <1>f, <1>s, <2>2, <3>2 DEF ReleaseTask, Callers
    <3>4. tasks[t].pc # "closeConn" /\ tasks'[t].pc # "closeConn" /\ tasks'[t].kind \in Callers
      BY <1>f, <3>2 DEF SetupPcs, Callers
    <3> QED BY <1>f, <1>w, <2>2, <3>2, <3>3, <3>4
  <2> QED BY <1>f, <1>g, <2>1, <2>2
<1>1. ASSUME NEW t \in Tasks, Build(t) PROVE Keeps
  <2>1. ~ started /\ \A s \in Tasks : tasks[s].kind \notin Callers
    BY <1>1 DEF Build, Idle, Callers
  <2>2. connOpen = {}
    BY <1>s, <2>1 DEF Owned
  <2>3. /\ tasks'[t].kind = "build" /\ tasks'[t].pc = "connect"
        /\ \A s \in Tasks : s # t => tasks'[s] = tasks[s]
    BY <1>1, AwaitEffect DEF Build
  <2>4. connOpen' = {} /\ timers' = {} /\ ~ started'
    BY <1>1, <1>s, <2>1, <2>2 DEF Build, brokerVars, ClearTimer
  <2>5. OneBuild'
    BY <2>1, <2>3 DEF OneBuild, Callers
  <2>6. Owned' /\ NotForgotten'
    BY <2>4 DEF Owned, NotForgotten
  <2>7. ReleaseTask(t)'
    BY <2>3, <2>4 DEF ReleaseTask, Callers
  <2>8. ASSUME NEW s \in Tasks, s # t PROVE ReleaseTask(s)'
    BY <1>s, <2>1, <2>3, <2>8 DEF ReleaseTask, Callers
  <2> QED BY <2>4, <2>5, <2>6, <2>7, <2>8
<1>2. ASSUME NEW t \in Tasks, Close(t) PROVE Keeps
  <2>1. /\ tasks'[t].kind = "close" /\ tasks'[t].pc \in {"cancel", "closeChan"}
        /\ \A s \in Tasks : s # t => tasks'[s] = tasks[s]
        /\ timers' \subseteq timers
    BY <1>2, CleanupEffect DEF Close
  <2>2. tasks[t].kind = "none" /\ tasks[t].pc = "none"
    BY <1>2, <1>s DEF Close, Lowest, Free, ReleaseTask
  <2>3. intentional' /\ ~ started' /\ UNCHANGED <<connOpen, conn, connEvents>>
    BY <1>2 DEF Close, brokerVars, eventVars
  <2>4. OneBuild'
    BY <1>s, <2>1 DEF OneBuild
  <2>5. \A c : Awaits("closeConn", c)' <=> Awaits("closeConn", c)
    BY <2>1, <2>2 DEF Awaits
  <2>6. Owned'
    BY <1>s, <2>1, <2>3, <2>5 DEF Owned, Callers
  <2>7. NotForgotten'
    BY <1>s, <2>1, <2>3, <2>5 DEF NotForgotten
  <2>8. ReleaseTask(t)'
    BY <2>1, <2>3 DEF ReleaseTask, Callers, CleanupPcs
  <2>9. ASSUME NEW s \in Tasks, s # t PROVE ReleaseTask(s)'
    BY <1>s, <2>1, <2>3, <2>9 DEF ReleaseTask
  <2> QED BY <1>s, <2>1, <2>4, <2>6, <2>7, <2>8, <2>9
<1>3. ASSUME NEW t \in Tasks, ConnectOk(t) PROVE Keeps
  <2>1. tasks[t].kind = "build" /\ connOpen = {}
    BY <1>3, <1>c DEF ConnectOk
  <2>2. PICK c \in Conns : /\ connOpen' = connOpen \cup {c} /\ conn' = c
                           /\ Await(t, "build", "create", c, FALSE)
    BY <1>3, <2>1 DEF ConnectOk, FreshConn, Lowest
  <2>3. /\ tasks'[t].kind = "build" /\ tasks'[t].pc = "create"
        /\ \A s \in Tasks : s # t => tasks'[s] = tasks[s]
    BY <2>2, AwaitEffect
  <2>4. \A s \in Tasks : tasks[s].pc # "closeConn"
    BY <1>3, <2>1 DEF ConnectOk, Quiet, Rejected, OnConn
  <2>5. connEvents' = 0 /\ UNCHANGED <<timers, started, intentional>>
    BY <1>3 DEF ConnectOk, Quiet, Drained, eventVars, timerVars
  <2>6. OneBuild'
    BY <1>s, <2>1, <2>3 DEF OneBuild
  <2>7. NotForgotten'
    BY <2>3, <2>4 DEF NotForgotten
  <2>8. Owned'
    BY <2>1, <2>2, <2>3, <2>5 DEF Owned, Callers
  <2>9. ReleaseTask(t)'
    BY <1>s, <2>1, <2>3, <2>5 DEF ReleaseTask, Callers
  <2>10. ASSUME NEW s \in Tasks, s # t PROVE ReleaseTask(s)'
    BY <1>s, <2>1, <2>3, <2>5, <2>10 DEF ReleaseTask, OneBuild
  <2> QED BY <1>s, <2>5, <2>6, <2>7, <2>8, <2>9, <2>10
<1>4. ASSUME NEW t \in Tasks, ConnectFails(t) PROVE Keeps
  <2>1. tasks[t].kind = "build" /\ tasks[t].pc = "connect"
    BY <1>4, <1>c DEF ConnectFails
  <2>2. /\ tasks'[t].kind = "build" /\ tasks'[t].pc \in {"cancel", "closeChan"}
        /\ \A s \in Tasks : s # t => tasks'[s] = tasks[s]
        /\ timers' \subseteq timers
    BY <1>4, <2>1, CleanupEffect DEF ConnectFails
  <2>3. UNCHANGED <<connOpen, conn, connEvents, started, intentional>>
    BY <1>4 DEF ConnectFails, thisVars, brokerVars, eventVars
  <2>4. ReleaseTask(t)'
    BY <1>s, <2>1, <2>2, <2>3 DEF ReleaseTask, Callers
  <2>5. tasks'[t].kind \in Callers
    BY <2>2 DEF Callers
  <2> QED BY <1>w, <2>1, <2>2, <2>3, <2>4, <2>5
<1>5. ASSUME NEW t \in Tasks, CreateOk(t) PROVE Keeps
  <2>1. tasks[t].kind \in {"build", "recreate"} /\ tasks[t].pc = "create"
    BY <1>5, <1>g DEF CreateOk, SetupPcs
  <2>2. /\ tasks'[t].kind = tasks[t].kind /\ tasks'[t].pc = "declare"
        /\ \A s \in Tasks : s # t => tasks'[s] = tasks[s]
    BY <1>5 DEF CreateOk, Await, TypeOK
  <2>3. UNCHANGED <<connOpen, conn, connEvents, started, intentional, timers>>
    BY <1>5 DEF CreateOk, eventVars, timerVars
  <2>4. ReleaseTask(t)'
    BY <1>s, <2>1, <2>2, <2>3 DEF ReleaseTask, Callers, SetupPcs
  <2> QED BY <1>w, <2>1, <2>2, <2>3, <2>4
<1>6. ASSUME NEW t \in Tasks, DeclareOk(t) PROVE Keeps
  <2>1. tasks[t].kind \in {"build", "recreate"} /\ tasks[t].pc = "declare" /\ tasks[t].pc \in SetupPcs
    BY <1>6, <1>g DEF DeclareOk, SetupPcs
  <2>2. UNCHANGED <<connOpen, conn, connEvents, started, intentional>>
    BY <1>6 DEF DeclareOk, eventVars, brokerVars
  <2>3. CASE chan = None
    BY <1>6, <1>f, <2>1, <2>2, <2>3 DEF DeclareOk
  <2>4. CASE chan # None
    <3>1. /\ tasks'[t].kind = tasks[t].kind /\ tasks'[t].pc = "consume"
          /\ \A s \in Tasks : s # t => tasks'[s] = tasks[s]
          /\ timers' = timers
      BY <1>6, <2>4 DEF DeclareOk, Await, TypeOK, timerVars
    <3>2. ReleaseTask(t)'
      BY <1>s, <2>1, <2>2, <3>1 DEF ReleaseTask, Callers, SetupPcs
    <3> QED BY <1>w, <2>1, <2>2, <3>1, <3>2
  <2> QED BY <2>3, <2>4
<1>7. ASSUME NEW t \in Tasks, ConsumeOk(t) PROVE Keeps
  <2>1. tasks[t].kind \in {"build", "recreate"} /\ tasks[t].pc = "consume" /\ tasks[t].pc \in SetupPcs
    BY <1>7, <1>g DEF ConsumeOk, SetupPcs
  <2>2. UNCHANGED <<connOpen, conn, connEvents, intentional>>
    BY <1>7 DEF ConsumeOk, eventVars
  <2>3. CASE chan = None
    <3>1. PICK tagged \in BOOLEAN : SetupFailed(t, tagged)
      BY <1>7, <2>3 DEF ConsumeOk
    <3>2. UNCHANGED started
      BY <1>7, <2>3 DEF ConsumeOk
    <3> QED BY <1>f, <2>1, <2>2, <3>1, <3>2
  <2>4. CASE chan # None /\ tasks[t].kind = "recreate"
    <3>1. Done(t) /\ UNCHANGED <<started, timers>>
      BY <1>7, <2>4 DEF ConsumeOk, timerVars
    <3>2. /\ tasks'[t].kind = "none" /\ tasks'[t].pc = "none"
          /\ \A s \in Tasks : s # t => tasks'[s] = tasks[s]
      BY <3>1, DoneEffect
    <3>3. ReleaseTask(t)' /\ tasks[t].kind \notin Callers
      BY <2>4, <3>2 DEF ReleaseTask, Callers
    <3> QED BY <1>w, <2>1, <2>2, <3>1, <3>2, <3>3
  <2>5. CASE chan # None /\ tasks[t].kind = "build" /\ intentional
    <3>1. UNCHANGED started /\ \E tagged \in BOOLEAN, failed \in BOOLEAN :
                                    StartCleanup(t, "build", failed, tagged)
      BY <1>7, <2>5 DEF ConsumeOk
    <3>2. /\ tasks'[t].kind = "build" /\ tasks'[t].pc \in {"cancel", "closeChan"}
          /\ \A s \in Tasks : s # t => tasks'[s] = tasks[s]
          /\ timers' \subseteq timers
      BY <3>1, CleanupEffect
    <3>3. ReleaseTask(t)' /\ tasks'[t].kind \in Callers
      BY <1>s, <2>2, <2>5, <3>1, <3>2 DEF ReleaseTask, Callers
    <3> QED BY <1>w, <2>1, <2>2, <2>5, <3>1, <3>2, <3>3
  <2>6. CASE chan # None /\ tasks[t].kind = "build" /\ ~ intentional
    <3>1. Done(t) /\ UNCHANGED timers /\ Connected(t)
      BY <1>7, <2>6 DEF ConsumeOk, Connected, timerVars
    <3>2. started'
      BY <2>6, <3>1 DEF Connected
    <3>3. /\ tasks'[t].kind = "none" /\ tasks'[t].pc = "none"
          /\ \A s \in Tasks : s # t => tasks'[s] = tasks[s]
      BY <3>1, DoneEffect
    <3>4. \A c : Awaits("closeConn", c)' <=> Awaits("closeConn", c)
      BY <2>1, <3>3 DEF Awaits
    <3>5. Owned'
      BY <1>s, <2>2, <3>2, <3>4 DEF Owned
    <3>6. NotForgotten'
      BY <1>s, <2>2, <3>3, <3>4 DEF NotForgotten
    <3>7. OneBuild'
      BY <1>s, <3>3 DEF OneBuild
    <3>8. ReleaseTask(t)'
      BY <3>3 DEF ReleaseTask, Callers
    <3>9. ASSUME NEW s \in Tasks, s # t PROVE ReleaseTask(s)'
      <4>1. tasks[s].kind \notin Callers
        BY <1>s, <2>6, <3>9 DEF ReleaseTask, OneBuild, Callers
      <4> QED BY <1>s, <3>3, <3>9, <4>1 DEF ReleaseTask, Callers
    <3> QED BY <1>s, <3>1, <3>5, <3>6, <3>7, <3>8, <3>9
  <2> QED BY <2>1, <2>3, <2>4, <2>5, <2>6
<1>8. ASSUME NEW t \in Tasks, SetupFails(t) PROVE Keeps
  <2>1. tasks[t].pc \in SetupPcs /\ UNCHANGED <<connOpen, conn, connEvents, started, intentional>>
    BY <1>8 DEF SetupFails, SetupPcs, eventVars, brokerVars
  <2> QED BY <1>8, <1>f, <2>1 DEF SetupFails
<1>9. ASSUME NEW t \in Tasks, CleanupCancelled(t) PROVE Keeps
  <2>1. tasks[t].kind \in Callers /\ tasks[t].pc = "cancel"
    BY <1>9, <1>e DEF CleanupCancelled, CleanupPcs
  <2>2. /\ tasks'[t].kind = tasks[t].kind /\ tasks'[t].pc = "closeChan"
        /\ \A s \in Tasks : s # t => tasks'[s] = tasks[s]
    BY <1>9, AwaitEffect DEF CleanupCancelled
  <2>3. UNCHANGED <<connOpen, conn, connEvents, started, intentional>> /\ timers' \subseteq timers
    BY <1>9 DEF CleanupCancelled, eventVars, ClearTimer
  <2>4. ReleaseTask(t)'
    BY <1>s, <2>1, <2>2, <2>3 DEF ReleaseTask, Callers, CleanupPcs
  <2> QED BY <1>w, <2>1, <2>2, <2>3, <2>4
<1>10. ASSUME NEW t \in Tasks, CleanupChannelClosed(t) PROVE Keeps
  <2>1. tasks[t].kind \in Callers /\ tasks[t].pc = "closeChan"
    BY <1>10, <1>e DEF CleanupChannelClosed, CleanupPcs
  <2>2. /\ tasks'[t].kind = tasks[t].kind /\ tasks'[t].pc = "closeConn"
        /\ tasks'[t].on = ConnToClose
        /\ \A s \in Tasks : s # t => tasks'[s] = tasks[s]
    BY <1>10, AwaitEffect DEF CleanupChannelClosed
  <2>3. UNCHANGED <<connOpen, conn, connEvents, started, intentional, timers>>
    BY <1>10 DEF CleanupChannelClosed, eventVars, brokerVars, thisVars, timerVars
  <2>4. \A c : Awaits("closeConn", c) => Awaits("closeConn", c)'
    BY <2>1, <2>2 DEF Awaits
  <2>5. Owned'
    BY <1>s, <2>1, <2>2, <2>3, <2>4 DEF Owned
  <2>6. NotForgotten'
    <3>1. ASSUME NEW c \in connOpen, ConnToClose \notin connOpen PROVE Awaits("closeConn", c)
      BY <1>s, <3>1 DEF ConnToClose, Owned
    <3> QED BY <1>s, <2>2, <2>3, <2>4, <3>1 DEF NotForgotten
  <2>7. OneBuild'
    BY <1>s, <2>2 DEF OneBuild
  <2>8. ASSUME NEW s \in Tasks PROVE ReleaseTask(s)'
    <3>1. CASE s = t
      BY <1>s, <2>1, <2>2, <2>3, <3>1 DEF ReleaseTask, Callers, CleanupPcs
    <3>2. CASE s # t
      BY <1>s, <2>2, <2>3, <3>2 DEF ReleaseTask
    <3> QED BY <3>1, <3>2
  <2> QED BY <1>s, <2>3, <2>5, <2>6, <2>7, <2>8
<1>11. ASSUME NEW t \in Tasks, CleanupFinished(t) PROVE Keeps
  <2>1. tasks[t].kind \in Callers /\ tasks[t].pc = "closeConn"
    BY <1>11, <1>e DEF CleanupFinished, CleanupPcs
  <2>2. tasks[t].on \notin connOpen
    BY <1>11, <2>1 DEF CleanupFinished, Rejected, OnChan
  <2>3. /\ tasks'[t].kind = "none" /\ tasks'[t].pc = "none"
        /\ \A s \in Tasks : s # t => tasks'[s] = tasks[s]
    BY <1>11, DoneEffect DEF CleanupFinished
  <2>4. UNCHANGED <<connOpen, connEvents, started, intentional, timers>>
    BY <1>11, <2>1 DEF CleanupFinished, eventVars, brokerVars, timerVars, Callers
  <2>5. ASSUME NEW c \in connOpen PROVE Awaits("closeConn", c)'
    <3>1. Awaits("closeConn", c)
      BY <1>s, <2>1, <2>2, <2>5 DEF NotForgotten
    <3> QED BY <2>2, <2>3, <2>5, <3>1 DEF Awaits
  <2>6. NotForgotten'
    BY <2>4, <2>5 DEF NotForgotten
  <2>7. OneBuild'
    BY <1>s, <2>3 DEF OneBuild
  <2>8. ASSUME NEW s \in Tasks PROVE ReleaseTask(s)'
    <3>1. CASE s = t
      BY <2>3, <3>1 DEF ReleaseTask, Callers
    <3>2. CASE s # t
      BY <1>s, <2>3, <2>4, <3>2 DEF ReleaseTask
    <3> QED BY <3>1, <3>2
  <2>9. ASSUME connOpen # {} PROVE \E s \in Tasks : tasks'[s].kind \in Callers
    <3>1. PICK c \in connOpen : TRUE
      BY <2>9
    <3>2. PICK s \in Tasks : tasks'[s].pc = "closeConn"
      BY <2>5, <3>1 DEF Awaits
    <3>3. s # t /\ tasks[s].pc \in CleanupPcs /\ tasks'[s] = tasks[s]
      BY <2>3, <3>2 DEF CleanupPcs
    <3> QED BY <1>e, <3>3
  <2>10. Owned'
    BY <1>s, <2>4, <2>5, <2>9 DEF Owned
  <2> QED BY <1>s, <2>4, <2>6, <2>7, <2>8, <2>10
\* With its only connection lost, the connector has none to release.
<1>l. ASSUME NEW c \in connOpen, LoseConn(c), UNCHANGED <<thisVars, timerVars, tasks, started>>
      PROVE  Keeps
  <2>1. connOpen' = {}
    BY <1>s, <1>l DEF LoseConn, Owned
  <2>2. Owned' /\ NotForgotten'
    BY <2>1 DEF Owned, NotForgotten
  <2>3. OneBuild'
    BY <1>s, <1>l DEF OneBuild
  <2>4. ASSUME NEW s \in Tasks PROVE ReleaseTask(s)'
    BY <1>s, <1>l, <2>1 DEF ReleaseTask, thisVars
  <2> QED BY <1>s, <1>l, <2>2, <2>3, <2>4 DEF timerVars
<1>h. ASSUME NEW h \in Chans, LoseChan(h), UNCHANGED <<thisVars, timerVars, tasks, started>>
      PROVE  Keeps
  <2>1. UNCHANGED <<connOpen, connEvents, conn, intentional, timers>>
    BY <1>h DEF LoseChan, thisVars, timerVars
  <2>2. \A c : Awaits("closeConn", c)' <=> Awaits("closeConn", c)
    BY <1>h DEF Awaits
  <2>3. Owned'
    BY <1>s, <1>h, <2>1, <2>2 DEF Owned
  <2>4. NotForgotten'
    BY <1>s, <1>h, <2>1, <2>2 DEF NotForgotten
  <2>5. OneBuild'
    BY <1>s, <1>h DEF OneBuild
  <2>6. ASSUME NEW s \in Tasks PROVE ReleaseTask(s)'
    BY <1>s, <1>h, <2>1 DEF ReleaseTask
  <2> QED BY <1>s, <2>1, <2>3, <2>4, <2>5, <2>6
<1>12. ASSUME NEW t \in Tasks, ChannelCloseOk(t) PROVE Keeps
  <2>1. tasks[t].on \in Chans
    BY <1>12 DEF ChannelCloseOk, Quiet, Rejected, ChanOpen, OnChan
  <2> QED BY <1>12, <1>h, <2>1 DEF ChannelCloseOk
<1>13. ASSUME NEW t \in Tasks, ConnectionCloseOk(t) PROVE Keeps
  <2>1. tasks[t].on \in connOpen
    BY <1>13 DEF ConnectionCloseOk, Quiet, Rejected, OnConn
  <2> QED BY <1>13, <1>l, <2>1 DEF ConnectionCloseOk
<1>14. ASSUME NEW c \in Conns, ConnDrop(c) PROVE Keeps
  BY <1>14, <1>l DEF ConnDrop
<1>15. ASSUME NEW h \in Chans, ChanDrop(h) PROVE Keeps
  BY <1>15, <1>h DEF ChanDrop
<1>16. ASSUME OnChannelClose PROVE Keeps
  <2>1. UNCHANGED <<connOpen, conn, connEvents, started, intentional, timers>>
    BY <1>16 DEF OnChannelClose, brokerVars, timerVars
  <2>2. CASE UNCHANGED tasks
    <3>1. \A c : Awaits("closeConn", c)' <=> Awaits("closeConn", c)
      BY <2>2 DEF Awaits
    <3>2. Owned'
      BY <1>s, <2>1, <2>2, <3>1 DEF Owned
    <3>3. NotForgotten'
      BY <1>s, <2>1, <2>2, <3>1 DEF NotForgotten
    <3>4. OneBuild'
      BY <1>s, <2>2 DEF OneBuild
    <3>5. ASSUME NEW s \in Tasks PROVE ReleaseTask(s)'
      BY <1>s, <2>1, <2>2 DEF ReleaseTask
    <3> QED BY <1>s, <2>1, <3>2, <3>3, <3>4, <3>5
  <2>3. CASE \E t \in Lowest(Free) : Await(t, "recreate", "create", conn, FALSE)
    <3>1. PICK t \in Tasks : tasks[t].kind = "none" /\ Await(t, "recreate", "create", conn, FALSE)
      BY <2>3 DEF Lowest, Free
    <3>2. /\ tasks'[t].kind = "recreate" /\ tasks'[t].pc = "create"
          /\ \A s \in Tasks : s # t => tasks'[s] = tasks[s]
      BY <3>1, AwaitEffect
    <3>3. tasks[t].pc = "none" /\ tasks[t].kind \notin Callers
      BY <1>s, <3>1 DEF ReleaseTask, Callers
    <3>4. ReleaseTask(t)'
      BY <3>2 DEF ReleaseTask, Callers, SetupPcs
    <3> QED BY <1>w, <2>1, <3>1, <3>2, <3>3, <3>4
  <2> QED BY <1>16, <2>2, <2>3 DEF OnChannelClose, Recreate
<1>17. ASSUME OnConnectionClose PROVE Keeps
  <2>1. connOpen = {}
    BY <1>17, <1>s DEF OnConnectionClose, Owned
  <2>2. UNCHANGED <<connOpen, tasks, started, intentional, timers>>
    BY <1>17 DEF OnConnectionClose, brokerVars, timerVars
  <2>3. Owned' /\ NotForgotten'
    BY <2>1, <2>2 DEF Owned, NotForgotten
  <2>4. OneBuild'
    BY <1>s, <2>2 DEF OneBuild
  <2>5. ASSUME NEW s \in Tasks PROVE ReleaseTask(s)'
    BY <1>s, <2>2 DEF ReleaseTask
  <2> QED BY <1>s, <2>2, <2>3, <2>4, <2>5
<1>18. ASSUME NEW i \in Timers, TimerFires(i) PROVE FALSE
  BY <1>18, <1>s DEF TimerFires
<1> HIDE DEF Keeps
<1> QED BY <1>1, <1>2, <1>3, <1>4, <1>5, <1>6, <1>7, <1>8, <1>9, <1>10, <1>11, <1>12, <1>13, <1>14,
           <1>15, <1>16, <1>17, <1>18 DEF Next, Step, Progress, Listener

\* Without reconnection close() releases everything: however builds, closes,
\* recreations and losses overlap, a connector closed on purpose comes to rest
\* with no connection open and no channel consuming.
THEOREM ClosedIsReleased == Spec => []ReleasedAfterClose
<1> DEFINE Inv == Nested /\ InUseIsNotClosed /\ ReleaseInv
<1>1. Init => Inv
  <2> SUFFICES ASSUME Init PROVE Inv
    OBVIOUS
  <2>1. \A t \in Tasks : tasks[t] = NoTask
    BY DEF Init
  <2>2. ReleaseInv
    BY <2>1 DEF Init, ReleaseInv, OneBuild, Owned, NotForgotten, ReleaseTask, NoTask, Callers
  <2>3. Nested
    BY DEF Init, Nested
  <2>4. InUseIsNotClosed
    BY DEF Init, InUseIsNotClosed
  <2> QED BY <2>2, <2>3, <2>4
<1>2. TypeOK /\ TypeOK' /\ Inv /\ [Next]_vars => Inv'
  <2> SUFFICES ASSUME TypeOK, TypeOK', Inv, [Next]_vars PROVE Inv'
    OBVIOUS
  <2>1. CASE Next
    BY <2>1, NestedStep, NotClosedStep, ReleaseStep
  <2>2. CASE UNCHANGED vars
    <3>1. (Nested /\ InUseIsNotClosed)'
      BY <2>2 DEF vars, thisVars, brokerVars, Nested, InUseIsNotClosed
    <3>2. ReleaseInv'
      BY <2>2 DEF vars, thisVars, timerVars, brokerVars, eventVars, ReleaseInv, OneBuild, Owned,
         NotForgotten, ReleaseTask, Awaits, ReconnectEnabled
    <3> QED BY <3>1, <3>2
  <2> QED BY <2>1, <2>2
<1>3. TypeOK /\ Inv => ReleasedAfterClose
  <2> SUFFICES ASSUME TypeOK, Inv, ~ ReconnectEnabled, intentional, Resting
               PROVE  connOpen = {} /\ consuming = {}
    BY DEF ReleasedAfterClose
  <2>1. \A t \in Tasks : tasks[t].kind \notin Callers
    BY DEF Resting, Free, Callers
  <2>2. connOpen = {}
    BY <2>1 DEF ReleaseInv, Owned, InUseIsNotClosed
  <2>3. consuming = {}
    BY <2>2 DEF Nested, TypeOK
  <2> QED BY <2>2, <2>3
<1> QED BY <1>1, <1>2, <1>3, TypeCorrect, PTL DEF Spec

-----------------------------------------------------------------------------
(***************************************************************************)
(* Giving up last.  With one retry the connector goes through phases: it   *)
(* runs with its retry unused, the retry is armed, connects, sets up, and  *)
(* either hands back a running connector or ends; after that it has given  *)
(* up, and nothing changes this any more.  Only in the first phase is      *)
(* there anything to watch, and what makes it inductive is what the loss   *)
(* of each piece costs: a second connection is left open, or a channel     *)
(* recreated twice, only after two faults, and a connector that serves     *)
(* unwatched needs a third.  That is why the claim stops at three.         *)
(***************************************************************************)

\* In use with one retry, and not more faults than the claim is about.
LimitedUse == started /\ builds = 1 /\ ReconnectEnabled /\ MaxRetries = 1 /\ faults <= 3

UsedOnce == LimitedUse /\ ~ intentional /\ \A t \in Tasks : InUseOK(t)

NoAttempt == \A t \in Tasks : tasks[t].kind # "attempt"
NoRecreation == \A t \in Tasks : tasks[t].kind # "recreate"
SoleAttempt(t) == tasks[t].kind = "attempt" /\ \A s \in Tasks : tasks[s].kind = "attempt" => s = t

OneConnection == \A c \in connOpen : c = conn
NoChannelListener == \A h \in Chans : chanHooks[h] = 0
Watched == \A c \in connOpen : connHooks[c] > 0

\* A recreation that runs: whose channel it sets up, and the faults it took to
\* start it and to make it fail.
RecreationOK(t) ==
    /\ connEvents > 0 => Rejected(t)
    /\ connEvents = 0 /\ tasks[t].pc = "create" => tasks[t].on = conn
    /\ tasks[t].pc \in {"declare", "consume"} => tasks[t].on = chan
    /\ faults >= 1
    /\ connEvents = 0 /\ Rejected(t) => faults >= 2
    /\ faults <= 2 => OneConnection /\ NoChannelListener

\* The same of the loss of a channel that is still to be reported.
ReportOK(h) ==
    /\ chanEvents[h] = 1 /\ \A g \in Chans : chanEvents[g] > 0 => g = h
    /\ NoRecreation
    /\ IF connEvents > 0 THEN conn = lost ELSE conn \in connOpen
    /\ faults >= 1
    /\ faults <= 2 => OneConnection /\ NoChannelListener

\* The listeners of a connector whose retry is unused, up to two faults.
Guarded ==
    /\ Watched
    /\ Serving => chanHooks[chan] > 0
    /\ \A h \in Chans : chanHooks[h] > 0 => h = chan /\ chanHooks[h] = 1
    /\ \A h \in Chans : h = chan => chanOf[h] \in {None, conn}

\* The retry is not in use.
Running ==
    /\ attempts = 0 /\ timers = {} /\ NoAttempt /\ state = "connected"
    /\ \A s, t \in Tasks : tasks[s].kind = "recreate" /\ tasks[t].kind = "recreate" => s = t
    /\ \A t \in Tasks : tasks[t].kind = "recreate" => RecreationOK(t)
    /\ \A h \in Chans : chanEvents[h] > 0 => ReportOK(h)
    /\ faults <= 1 => OneConnection
    /\ faults <= 2 => Guarded
    /\ connEvents > 0 => /\ faults <= 2 => NoChannelListener
                         /\ faults <= 1 => connOpen = {}
    /\ connEvents = 0 => /\ faults = 3 \/ conn \in connOpen
                         /\ Serving \/ Reported \/ ~ NoRecreation

\* The retry is due, under way, or has failed.
Quietly == attempts = 1 /\ ~ Reported /\ (faults <= 2 => NoChannelListener)

Armed ==
    /\ Quietly /\ NoAttempt /\ \E i \in Timers : timers = {i}
    /\ \A t \in Tasks : tasks[t].kind = "recreate" => Rejected(t)
    /\ faults <= 1 => connOpen = {}
    /\ faults <= 2 => Watched

Connecting(t) ==
    /\ Quietly /\ timers = {} /\ SoleAttempt(t) /\ NoRecreation
    /\ tasks[t].pc = "connect"
    /\ faults <= 1 => connOpen = {}
    /\ faults <= 2 => Watched

SettingUp(t) ==
    /\ Quietly /\ timers = {} /\ SoleAttempt(t) /\ NoRecreation
    /\ tasks[t].pc \in SetupPcs
    /\ faults <= 1 => OneConnection
    /\ faults <= 2 => conn # None /\ connEvents = 0 /\ \A c \in connOpen : c # conn => connHooks[c] > 0
    /\ \A c \in Conns : c = conn => connHooks[c] = 0
    /\ tasks[t].pc = "create" => conn \in {None, tasks[t].on}
    /\ tasks[t].pc \in {"declare", "consume"} =>
         /\ chan \in {None, tasks[t].on}
         /\ conn # None => \A h \in Chans : h = tasks[t].on => chanOf[h] \in {None, conn}

Ending(t) ==
    attempts = 1 /\ timers = {} /\ SoleAttempt(t) /\ tasks[t].pc \in CleanupPcs /\ tasks[t].failed

GaveUp == attempts = 1 /\ timers = {} /\ NoAttempt /\ state = "disconnected"

LimitPhase == \/ Running \/ Armed \/ GaveUp
              \/ \E t \in Tasks : Connecting(t) \/ SettingUp(t) \/ Ending(t)

LimitInv == LimitedUse => UsedOnce /\ LimitPhase

\* Nothing that is closed has a listener.
Unhooked ==
    /\ lost \notin connOpen
    /\ \A c \in Conns : c \notin connOpen => connHooks[c] = 0
    /\ \A h \in Chans : chanOf[h] = None => chanHooks[h] = 0

\* Until the first build() resolves there is one connection at most.
FirstBuild ==
    Starting => /\ builds = 0 => connOpen = {}
                /\ \A t \in Tasks : tasks[t].kind = "build" =>
                     /\ attempts = 0
                     /\ tasks[t].pc = "connect" => connOpen = {}
                     /\ tasks[t].pc \in SetupPcs => OneConnection

\* Listeners are registered on what is open, and go with it.
LEMMA UnhookedStep ==
    ASSUME TypeOK, Unhooked, Next
    PROVE  Unhooked'
<1>n. None \notin Conns
  BY IdentityAssumption
<1>1. ASSUME UNCHANGED <<lost, connOpen, connHooks, chanOf, chanHooks>> PROVE Unhooked'
  BY <1>1 DEF Unhooked
<1>2. ASSUME NEW t \in Tasks, Build(t) \/ Close(t) \/ ConnectFails(t) \/ SetupFails(t) \/ DeclareOk(t)
                              \/ CleanupChannelClosed(t) \/ CleanupFinished(t) \/ CleanupCancelled(t)
      PROVE  Unhooked'
  BY <1>1, <1>2 DEF Build, Close, ConnectFails, SetupFails, DeclareOk, CleanupChannelClosed,
     CleanupFinished, CleanupCancelled, brokerVars, eventVars
<1>3. ASSUME NEW t \in Tasks, ConnectOk(t) PROVE Unhooked'
  <2>1. PICK c \in Conns : c # lost /\ connOpen' = connOpen \cup {c}
    BY <1>3 DEF ConnectOk, FreshConn, Lowest
  <2>2. UNCHANGED <<lost, connHooks, chanOf, chanHooks>>
    BY <1>3 DEF ConnectOk, eventVars
  <2> QED BY <2>1, <2>2 DEF Unhooked
<1>4. ASSUME NEW t \in Tasks, CreateOk(t) PROVE Unhooked'
  <2>1. PICK h \in Chans : chanOf[h] = None /\ chanOf' = [chanOf EXCEPT ![h] = tasks[t].on]
    BY <1>4 DEF CreateOk, FreshChan, Lowest
  <2>2. UNCHANGED <<lost, connOpen, connHooks, chanHooks>>
    BY <1>4 DEF CreateOk, eventVars
  <2> QED BY <2>1, <2>2 DEF Unhooked, TypeOK
<1>5. ASSUME NEW t \in Tasks, ConsumeOk(t) PROVE Unhooked'
  <2>1. UNCHANGED <<lost, connOpen, chanOf>>
    BY <1>5 DEF ConsumeOk, eventVars
  <2>2. chanHooks' = chanHooks \/ (ChanOpen(chan) /\ chanHooks' = [chanHooks EXCEPT ![chan] = @ + 1])
    BY <1>5 DEF ConsumeOk
  <2>3. connHooks' = connHooks \/ (conn \in connOpen /\ connHooks' = [connHooks EXCEPT ![conn] = @ + 1])
    BY <1>5 DEF ConsumeOk, Connected
  <2>4. \A c \in Conns : c \notin connOpen' => connHooks'[c] = 0
    BY <2>1, <2>3 DEF Unhooked, TypeOK
  <2>5. \A h \in Chans : chanOf'[h] = None => chanHooks'[h] = 0
    BY <2>1, <2>2 DEF Unhooked, TypeOK, ChanOpen
  <2> QED BY <2>1, <2>4, <2>5 DEF Unhooked
<1>6. ASSUME NEW h \in Chans, LoseChan(h) PROVE Unhooked'
  BY <1>6, <1>n DEF Unhooked, LoseChan, TypeOK
<1>7. ASSUME NEW c \in Conns, LoseConn(c) PROVE Unhooked'
  BY <1>7 DEF Unhooked, LoseConn, TypeOK
<1>8. ASSUME NEW t \in Tasks, ChannelCloseOk(t) \/ ConnectionCloseOk(t) PROVE Unhooked'
  <2>1. CASE ChannelCloseOk(t)
    <3>1. tasks[t].on \in Chans
      BY <2>1 DEF ChannelCloseOk, Quiet, Rejected, ChanOpen, OnChan
    <3> QED BY <1>6, <2>1, <3>1 DEF ChannelCloseOk
  <2>2. CASE ConnectionCloseOk(t)
    <3>1. tasks[t].on \in Conns
      BY <2>2 DEF ConnectionCloseOk, Quiet, Rejected, OnConn, TypeOK
    <3> QED BY <1>7, <2>2, <3>1 DEF ConnectionCloseOk
  <2> QED BY <1>8, <2>1, <2>2
<1>9. ASSUME Listener \/ \E i \in Timers : TimerFires(i) PROVE Unhooked'
  BY <1>1, <1>9 DEF Listener, OnChannelClose, OnConnectionClose, TimerFires, brokerVars, eventVars
<1>10. ASSUME (\E c \in Conns : ConnDrop(c)) \/ (\E h \in Chans : ChanDrop(h)) PROVE Unhooked'
  BY <1>6, <1>7, <1>10 DEF ConnDrop, ChanDrop
<1> QED BY <1>2, <1>3, <1>4, <1>5, <1>8, <1>9, <1>10 DEF Next, Step, Progress

\* Calls of build() and close() change what they record; a build that resolves
\* starts the use of the connector, and nothing else touches this.
LEMMA HistoryStep ==
    ASSUME TypeOK, Next
    PROVE  \/ \E t \in Tasks : Build(t) \/ Close(t)
           \/ /\ UNCHANGED <<builds, intentional, config>> /\ faults <= faults'
              /\ started' = started \/ \E t \in Tasks : ConsumeOk(t)
<1>1. UNCHANGED config /\ faults \in Nat
  BY DEF Next, TypeOK
<1>2. ASSUME NEW t \in Tasks,
             ConnectOk(t) \/ CreateOk(t) \/ DeclareOk(t) \/ CleanupCancelled(t)
               \/ CleanupFinished(t)
      PROVE  UNCHANGED <<builds, intentional, faults, started>>
  BY <1>2 DEF ConnectOk, CreateOk, DeclareOk, CleanupCancelled, CleanupFinished, countVars
<1>3. ASSUME NEW t \in Tasks,
             ChannelCloseOk(t) \/ ConnectionCloseOk(t) \/ CleanupChannelClosed(t)
      PROVE  UNCHANGED <<builds, intentional, faults, started>>
  BY <1>3 DEF ChannelCloseOk, ConnectionCloseOk, CleanupChannelClosed, thisVars, countVars
<1>4. ASSUME NEW t \in Tasks, ConnectFails(t) \/ SetupFails(t)
      PROVE  UNCHANGED <<builds, intentional, started>> /\ faults <= faults'
  <2>1. UNCHANGED <<builds, intentional, started>>
    BY <1>4 DEF ConnectFails, SetupFails, thisVars
  <2>2. Fault \/ NoFault
    BY <1>4 DEF ConnectFails, SetupFails
  <2> QED BY <1>1, <2>1, <2>2 DEF Fault, NoFault
<1>5. ASSUME NEW t \in Tasks, ConsumeOk(t) PROVE UNCHANGED <<builds, intentional, faults>>
  BY <1>5 DEF ConsumeOk, countVars
<1>6. ASSUME Listener \/ (\E i \in Timers : TimerFires(i))
      PROVE  UNCHANGED <<builds, intentional, faults, started>>
  BY <1>6 DEF Listener, OnChannelClose, OnConnectionClose, TimerFires, countVars
<1>7. ASSUME (\E c \in Conns : ConnDrop(c)) \/ (\E h \in Chans : ChanDrop(h))
      PROVE  UNCHANGED <<builds, intentional, started>> /\ faults <= faults'
  BY <1>1, <1>7 DEF ConnDrop, ChanDrop, Fault, thisVars
<1> QED BY <1>1, <1>2, <1>3, <1>4, <1>5, <1>6, <1>7 DEF Next, Step, Progress

\* Until build() resolves, only it opens a connection.
LEMMA FirstBuildStep ==
    ASSUME TypeOK, TypeOK', StartInv, FirstBuild, Next
    PROVE  FirstBuild'
<1> SUFFICES ASSUME Starting'
             PROVE  /\ builds' = 0 => connOpen' = {}
                    /\ \A t \in Tasks : tasks'[t].kind = "build" =>
                         /\ attempts' = 0
                         /\ tasks'[t].pc = "connect" => connOpen' = {}
                         /\ tasks'[t].pc \in SetupPcs => OneConnection'
  BY DEF FirstBuild
<1> DEFINE First(t) == /\ attempts = 0
                       /\ tasks[t].pc = "connect" => connOpen = {}
                       /\ tasks[t].pc \in SetupPcs => OneConnection
           Goal == /\ builds' = 0 => connOpen' = {}
                   /\ \A t \in Tasks : tasks'[t].kind = "build" => First(t)'
<1> SUFFICES Goal
  OBVIOUS
<1>p. "connect" \notin SetupPcs /\ "none" \notin SetupPcs /\ "cancel" \notin SetupPcs
      /\ "closeChan" \notin SetupPcs /\ "closeConn" \notin SetupPcs
      /\ {"create", "declare", "consume"} \subseteq SetupPcs
  BY DEF SetupPcs
<1>1. ASSUME NEW t \in Tasks, Build(t) PROVE Goal
  <2>1. builds = 0 /\ builds' = 1
    BY <1>1 DEF Build, Starting, TypeOK
  <2>2. connOpen = {} /\ connOpen' = connOpen /\ attempts' = 0
    BY <1>1, <2>1 DEF FirstBuild, Starting, Build, brokerVars
  <2>3. OneConnection'
    BY <2>2 DEF OneConnection
  <2> QED BY <2>1, <2>2, <2>3
<1>2. ASSUME NEW t \in Tasks, Close(t) PROVE Goal
  <2>1. builds = 0 /\ builds' = 0
    BY <1>2 DEF Close, Starting
  <2>2. connOpen = {} /\ connOpen' = connOpen
    BY <1>2, <2>1 DEF FirstBuild, Starting, Close, brokerVars
  <2>3. ASSUME NEW s \in Tasks PROVE tasks'[s].kind # "build"
    <3>1. tasks[s].kind # "build"
      BY <2>1 DEF StartInv, Starting, Alone, BuildOK
    <3>2. tasks'[t].kind = "close" /\ \A r \in Tasks : r # t => tasks'[r] = tasks[r]
      BY <1>2, CleanupEffect DEF Close
    <3> QED BY <3>1, <3>2
  <2> QED BY <2>1, <2>2, <2>3
<1> SUFFICES ASSUME Starting, UNCHANGED builds PROVE Goal
  <2>1. CASE \E t \in Tasks : Build(t) \/ Close(t)
    BY <1>1, <1>2, <2>1
  <2>2. CASE UNCHANGED <<builds, intentional>> /\ UNCHANGED started
    BY <2>2 DEF Starting
  <2>3. ASSUME UNCHANGED <<builds, intentional>>, NEW t \in Tasks, ConsumeOk(t)
        PROVE  Starting
    <3>1. started => started'
      <4>1. started' = started \/ Connected(t)
        BY <2>3 DEF ConsumeOk
      <4> QED BY <4>1 DEF Connected
    <3> QED BY <2>3, <3>1 DEF Starting
  <2> QED BY <2>1, <2>2, <2>3, HistoryStep
<1>s. /\ builds = 0 => connOpen = {}
      /\ \A t \in Tasks : tasks[t].kind = "build" => First(t)
      /\ NoListener /\ OneBuild /\ \A t \in Tasks : BuildOK(t)
  BY DEF FirstBuild, StartInv, Alone
<1>o. ASSUME NEW t \in Tasks, \A s \in Tasks : s # t => tasks'[s] = tasks[s],
             tasks'[t].kind = "build" => tasks[t].kind = "build" /\ First(t)',
             tasks[t].kind \in {"build", "close"}, tasks[t].kind = "close" => connOpen' = connOpen,
             builds' = 0 => connOpen' = {}
      PROVE  Goal
  <2>1. ASSUME NEW s \in Tasks, s # t PROVE tasks[s].kind # "build"
    BY <1>o, <1>s, <2>1 DEF OneBuild, BuildOK
  <2> QED BY <1>o, <2>1
<1>u. ASSUME UNCHANGED <<tasks, attempts, conn>>, connOpen' \subseteq connOpen PROVE Goal
  <2>1. OneConnection => OneConnection'
    BY <1>u DEF OneConnection
  <2> QED BY <1>u, <1>s, <2>1
<1>e. ASSUME NEW t \in Tasks, tasks[t].pc \in {"connect"} \cup SetupPcs
      PROVE  tasks[t].kind = "build" /\ builds = 1 /\ First(t)
  BY <1>s, <1>e, <1>p DEF BuildOK, CleanupPcs
<1>g. ASSUME NEW t \in Tasks, tasks[t].pc \in CleanupPcs
      PROVE  tasks[t].kind \in {"build", "close"} /\ (tasks[t].kind = "build" => First(t))
  BY <1>s, <1>g DEF BuildOK, CleanupPcs
<1>3. ASSUME NEW t \in Tasks, ConnectOk(t) PROVE Goal
  <2>1. tasks[t].kind = "build" /\ builds = 1 /\ attempts = 0 /\ connOpen = {}
    BY <1>3, <1>e DEF ConnectOk
  <2>2. PICK c \in Conns : /\ conn' = c /\ connOpen' = connOpen \cup {c}
                           /\ Await(t, "build", "create", c, FALSE)
    BY <1>3, <2>1 DEF ConnectOk, FreshConn, Lowest
  <2>3. /\ tasks'[t].pc = "create" /\ \A s \in Tasks : s # t => tasks'[s] = tasks[s]
    BY <2>2, AwaitEffect
  <2>4. attempts' = 0 /\ OneConnection'
    BY <1>3, <2>1, <2>2 DEF ConnectOk, OneConnection
  <2> QED BY <1>o, <1>p, <2>1, <2>3, <2>4
<1>4. ASSUME NEW t \in Tasks, ConnectFails(t) \/ SetupFails(t) PROVE Goal
  <2>1. tasks[t].kind = "build" /\ builds = 1 /\ attempts = 0
    BY <1>4, <1>e, <1>p DEF ConnectFails, SetupFails
  <2>2. PICK tagged : StartCleanup(t, "build", TRUE, tagged)
    BY <1>4, <2>1 DEF ConnectFails, SetupFails, SetupFailed
  <2>3. /\ tasks'[t].pc \in {"cancel", "closeChan"}
        /\ \A s \in Tasks : s # t => tasks'[s] = tasks[s]
    BY <2>2, CleanupEffect
  <2>4. attempts' = 0
    BY <1>4, <2>1 DEF ConnectFails, SetupFails, SetupFailed, thisVars
  <2> QED BY <1>o, <1>p, <2>1, <2>3, <2>4
<1>5. ASSUME NEW t \in Tasks, CreateOk(t) PROVE Goal
  <2>1. tasks[t].kind = "build" /\ builds = 1 /\ attempts = 0 /\ OneConnection
    BY <1>5, <1>e, <1>p DEF CreateOk
  <2>2. PICK h : Await(t, "build", "declare", h, FALSE)
    BY <1>5, <2>1 DEF CreateOk
  <2>3. tasks'[t].pc = "declare" /\ \A s \in Tasks : s # t => tasks'[s] = tasks[s]
    BY <2>2, AwaitEffect
  <2>4. attempts' = 0 /\ OneConnection'
    BY <1>5, <2>1 DEF CreateOk, OneConnection
  <2> QED BY <1>o, <1>p, <2>1, <2>3, <2>4
<1>6. ASSUME NEW t \in Tasks, DeclareOk(t) PROVE Goal
  <2>1. tasks[t].kind = "build" /\ builds = 1 /\ attempts = 0 /\ OneConnection
    BY <1>6, <1>e, <1>p DEF DeclareOk
  <2>2. OneConnection' /\ attempts' = 0
    BY <1>6, <2>1 DEF DeclareOk, SetupFailed, OneConnection, brokerVars
  <2>3. tasks'[t].pc # "connect" /\ \A s \in Tasks : s # t => tasks'[s] = tasks[s]
    <3>1. CASE chan = None
      <4>1. StartCleanup(t, "build", TRUE, tag)
        BY <1>6, <2>1, <3>1 DEF DeclareOk, SetupFailed
      <4> QED BY <4>1, CleanupEffect
    <3>2. CASE chan # None
      <4>1. Await(t, "build", "consume", chan, FALSE)
        BY <1>6, <2>1, <3>2 DEF DeclareOk
      <4>2. tasks'[t].pc = "consume" /\ \A s \in Tasks : s # t => tasks'[s] = tasks[s]
        BY <4>1, AwaitEffect
      <4> QED BY <4>2
    <3> QED BY <3>1, <3>2
  <2> QED BY <1>o, <2>1, <2>2, <2>3
<1>7. ASSUME NEW t \in Tasks, ConsumeOk(t) PROVE FALSE
  <2>1. tasks[t].kind = "build" /\ tasks[t].pc \in SetupPcs /\ builds = 1 /\ builds' = 1
    BY <1>7, <1>e, <1>p DEF ConsumeOk
  <2>2. chan = tasks[t].on /\ tasks[t].on \in Chans
    BY <1>7, <1>s, <2>1 DEF ConsumeOk, BuildOK, Answers, OnConn, ChanAnswers, ChanOpen
  <2>3. ~ intentional
    BY <2>1 DEF Starting
  <2>4. started'
    BY <1>7, <2>1, <2>2, <2>3, IdentityAssumption DEF ConsumeOk, Connected
  <2> QED BY <2>1, <2>4 DEF Starting
<1>8. ASSUME NEW t \in Tasks, CleanupCancelled(t) \/ CleanupChannelClosed(t) PROVE Goal
  <2>1. /\ tasks[t].kind \in {"build", "close"} /\ (tasks[t].kind = "build" => attempts = 0)
    BY <1>8, <1>g DEF CleanupCancelled, CleanupChannelClosed, CleanupPcs
  <2>2. PICK pc \in {"closeChan", "closeConn"} :
          \E on : Await(t, tasks[t].kind, pc, on, tasks[t].failed)
    BY <1>8 DEF CleanupCancelled, CleanupChannelClosed
  <2>3. tasks'[t].kind = tasks[t].kind /\ tasks'[t].pc = pc
        /\ \A s \in Tasks : s # t => tasks'[s] = tasks[s]
    BY <2>2, AwaitEffect
  <2>4. attempts' = attempts /\ connOpen' = connOpen
    BY <1>8 DEF CleanupCancelled, CleanupChannelClosed, thisVars, brokerVars
  <2> QED BY <1>o, <1>p, <1>s, <2>1, <2>2, <2>3, <2>4
<1>9. ASSUME NEW t \in Tasks, CleanupFinished(t) PROVE Goal
  <2>1. tasks[t].kind \in {"build", "close"}
    BY <1>9, <1>g DEF CleanupFinished, CleanupPcs
  <2>2. tasks'[t].kind = "none" /\ \A s \in Tasks : s # t => tasks'[s] = tasks[s]
    BY <1>9, DoneEffect DEF CleanupFinished
  <2>3. connOpen' = connOpen
    BY <1>9 DEF CleanupFinished, brokerVars
  <2> QED BY <1>o, <1>s, <2>1, <2>2, <2>3
<1>10. ASSUME (\E h : LoseChan(h)) \/ (\E c : LoseConn(c)), UNCHANGED <<thisVars, tasks>> PROVE Goal
  BY <1>10, <1>u DEF LoseChan, LoseConn, thisVars
<1>11. ASSUME NEW t \in Tasks, ChannelCloseOk(t) \/ ConnectionCloseOk(t) PROVE Goal
  BY <1>10, <1>11 DEF ChannelCloseOk, ConnectionCloseOk
<1>12. ASSUME Listener \/ \E i \in Timers : TimerFires(i) PROVE FALSE
  BY <1>12, <1>s DEF Listener, OnChannelClose, OnConnectionClose, NoListener, Lowest, TimerFires
<1>13. ASSUME (\E c \in Conns : ConnDrop(c)) \/ (\E h \in Chans : ChanDrop(h)) PROVE Goal
  BY <1>10, <1>13 DEF ConnDrop, ChanDrop
<1> HIDE DEF Goal, First
<1> QED BY <1>1, <1>2, <1>3, <1>4, <1>5, <1>6, <1>7, <1>8, <1>9, <1>11, <1>12, <1>13
        DEF Next, Step, Progress

\* Which operations await what, once build() has resolved.
LEMMA UsedKinds ==
    ASSUME UsedOnce, NEW t \in Tasks
    PROVE  /\ tasks[t].pc = "connect" => tasks[t].kind = "attempt"
           /\ tasks[t].pc \in SetupPcs => tasks[t].kind \in {"attempt", "recreate"}
           /\ tasks[t].pc \in CleanupPcs => tasks[t].kind = "attempt" /\ tasks[t].failed
           /\ tasks[t].kind = "recreate" => tasks[t].pc \in SetupPcs
  BY DEF UsedOnce, InUseOK, SetupPcs, CleanupPcs

\* The catch block around a recreation asks for a retry.
LEMMA RecreationFails ==
    ASSUME TypeOK, UsedOnce, NEW t \in Tasks, NEW tagged, tasks[t].kind = "recreate",
           SetupFailed(t, tagged)
    PROVE  /\ ScheduleReconnection
           /\ tasks'[t].kind = "none" /\ tasks'[t].pc = "none"
           /\ \A s \in Tasks : s # t => tasks'[s] = tasks[s]
  <1>1. Done(t) /\ ScheduleReconnection
    BY DEF SetupFailed, ReconnectUnlessClosed, UsedOnce, LimitedUse
  <1> QED BY <1>1, DoneEffect

\* The catch block of an attempt cleans up.
LEMMA AttemptFails ==
    ASSUME TypeOK, NEW t \in Tasks, NEW tagged, tasks[t].kind = "attempt", SetupFailed(t, tagged)
    PROVE  /\ tasks'[t].kind = "attempt" /\ tasks'[t].pc \in {"cancel", "closeChan"}
           /\ tasks'[t].failed = TRUE
           /\ \A s \in Tasks : s # t => tasks'[s] = tasks[s]
           /\ timers' \subseteq timers /\ attempts' = attempts
  <1>1. StartCleanup(t, "attempt", TRUE, tagged) /\ UNCHANGED <<state, attempts>>
    BY DEF SetupFailed
  <1> QED BY <1>1, CleanupEffect

\* What scheduleReconnection does with one retry, unused or used.
LEMMA ScheduleOnce ==
    ASSUME TypeOK, UsedOnce, ScheduleReconnection
    PROVE  /\ attempts = 0 => attempts' = 1 /\ \E i \in Timers : timers' = timers \cup {i}
           /\ attempts = 1 => attempts' = 1 /\ timers' = timers /\ state' = "disconnected"
  <1>1. MaxRetries = 1
    BY DEF UsedOnce, LimitedUse
  <1>2. CASE attempts = 0
    BY <1>1, <1>2 DEF ScheduleReconnection, FreshTimer, Lowest, TypeOK
  <1>3. CASE attempts = 1
    BY <1>1, <1>3 DEF ScheduleReconnection, timerVars, TypeOK
  <1> QED BY <1>2, <1>3

\* The owner does nothing while the connector stays in use, and only attempts
\* and recreations are in flight.
LEMMA UsedOnceStep ==
    ASSUME TypeOK, UsedOnce, Next, LimitedUse'
    PROVE  /\ UsedOnce' /\ \A t \in Tasks : ~ Build(t) /\ ~ Close(t)
           /\ UNCHANGED intentional /\ faults <= faults' /\ faults' <= 3
<1>1. ASSUME NEW t \in Tasks PROVE ~ Build(t) /\ ~ Close(t)
  BY DEF Build, Close, UsedOnce, LimitedUse
<1>2. UNCHANGED intentional /\ faults <= faults' /\ faults' <= 3
  BY <1>1, HistoryStep DEF LimitedUse
<1> DEFINE Goal == \A s \in Tasks : InUseOK(s)'
<1> SUFFICES Goal
  BY <1>1, <1>2 DEF UsedOnce
<1>s. \A s \in Tasks : InUseOK(s)
  BY DEF UsedOnce
<1>i. ASSUME NEW t \in Tasks, InUseOK(t)', \A s \in Tasks : s # t => tasks'[s] = tasks[s] PROVE Goal
  BY <1>s, <1>i DEF InUseOK
<1>u. ASSUME UNCHANGED tasks PROVE Goal
  BY <1>s, <1>u DEF InUseOK
<1>a. ASSUME NEW t \in Tasks, NEW kind, NEW pc, NEW on, NEW failed, Await(t, kind, pc, on, failed),
             kind \in {"attempt", "recreate"}, pc \in SetupPcs PROVE Goal
  <2>1. /\ tasks'[t].kind = kind /\ tasks'[t].pc = pc
        /\ \A s \in Tasks : s # t => tasks'[s] = tasks[s]
    BY <1>a, AwaitEffect
  <2>2. InUseOK(t)'
    BY <1>a, <2>1 DEF InUseOK, SetupPcs, CleanupPcs
  <2> QED BY <1>i, <2>1, <2>2
<1>d. ASSUME NEW t \in Tasks, Done(t) PROVE Goal
  <2>1. InUseOK(t)' /\ \A s \in Tasks : s # t => tasks'[s] = tasks[s]
    BY <1>d, DoneEffect DEF InUseOK, CleanupPcs
  <2> QED BY <1>i, <2>1
<1>f. ASSUME NEW t \in Tasks, tasks'[t].kind = "attempt", tasks'[t].failed = TRUE,
             tasks'[t].pc # "none",
             \A s \in Tasks : s # t => tasks'[s] = tasks[s] PROVE Goal
  <2>1. InUseOK(t)'
    BY <1>f DEF InUseOK
  <2> QED BY <1>i, <1>f, <2>1
<1>e. ASSUME NEW t \in Tasks, NEW tagged, tasks[t].kind \in {"attempt", "recreate"},
             SetupFailed(t, tagged) PROVE Goal
  <2>1. CASE tasks[t].kind = "recreate"
    <3>1. Done(t)
      BY <1>e, <2>1 DEF SetupFailed
    <3> QED BY <1>d, <3>1
  <2>2. CASE tasks[t].kind = "attempt"
    <3>1. /\ tasks'[t].kind = "attempt" /\ tasks'[t].failed = TRUE
          /\ tasks'[t].pc \in {"cancel", "closeChan"}
          /\ \A s \in Tasks : s # t => tasks'[s] = tasks[s]
      BY <1>e, <2>2, AttemptFails
    <3> QED BY <1>f, <3>1
  <2> QED BY <1>e, <2>1, <2>2
<1>p. {"create", "declare", "consume"} \subseteq SetupPcs
      /\ {"cancel", "closeChan", "closeConn"} \subseteq CleanupPcs
  BY DEF SetupPcs, CleanupPcs
<1>3. ASSUME NEW t \in Tasks, ConnectOk(t) \/ CreateOk(t) PROVE Goal
  <2>1. tasks[t].kind \in {"attempt", "recreate"}
    BY <1>3, <1>p, UsedKinds DEF ConnectOk, CreateOk
  <2>2. PICK on : Await(t, tasks[t].kind, "create", on, FALSE) \/ Await(t, tasks[t].kind, "declare", on, FALSE)
    BY <1>3 DEF ConnectOk, CreateOk
  <2> QED BY <1>a, <1>p, <2>1, <2>2
<1>4. ASSUME NEW t \in Tasks, ConnectFails(t) PROVE Goal
  <2>1. tasks[t].kind = "attempt"
    BY <1>4, UsedKinds DEF ConnectFails
  <2>2. StartCleanup(t, "attempt", TRUE, tag)
    BY <1>4, <2>1 DEF ConnectFails
  <2>3. /\ tasks'[t].kind = "attempt" /\ tasks'[t].failed = TRUE
        /\ tasks'[t].pc \in {"cancel", "closeChan"}
        /\ \A s \in Tasks : s # t => tasks'[s] = tasks[s]
    BY <2>2, CleanupEffect
  <2> QED BY <1>f, <2>3
<1>5. ASSUME NEW t \in Tasks, DeclareOk(t) \/ SetupFails(t) PROVE Goal
  <2>1. tasks[t].kind \in {"attempt", "recreate"}
    BY <1>5, <1>p, UsedKinds DEF DeclareOk, SetupFails
  <2>2. SetupFailed(t, tag) \/ Await(t, tasks[t].kind, "consume", chan, FALSE)
    BY <1>5 DEF DeclareOk, SetupFails
  <2>3. CASE SetupFailed(t, tag)
    BY <1>e, <2>1, <2>3
  <2>4. CASE Await(t, tasks[t].kind, "consume", chan, FALSE)
    BY <1>a, <1>p, <2>1, <2>4
  <2> QED BY <2>2, <2>3, <2>4
<1>6. ASSUME NEW t \in Tasks, ConsumeOk(t) PROVE Goal
  <2>1. tasks[t].kind \in {"attempt", "recreate"}
    BY <1>6, <1>p, UsedKinds DEF ConsumeOk
  <2>2. SetupFailed(t, TRUE) \/ Done(t)
    BY <1>6 DEF ConsumeOk, Connected, UsedOnce
  <2>3. CASE SetupFailed(t, TRUE)
    <3>1. PICK tagged \in BOOLEAN : SetupFailed(t, tagged)
      BY <2>3
    <3> QED BY <1>e, <2>1, <3>1
  <2>4. CASE Done(t)
    BY <1>d, <2>4
  <2> QED BY <2>2, <2>3, <2>4
<1>7. ASSUME NEW t \in Tasks, CleanupCancelled(t) \/ CleanupChannelClosed(t) PROVE Goal
  <2>1. tasks[t].kind = "attempt" /\ tasks[t].failed
    BY <1>7, <1>p, UsedKinds DEF CleanupCancelled, CleanupChannelClosed
  <2>2. PICK pc \in {"closeChan", "closeConn"} :
          \E on : Await(t, tasks[t].kind, pc, on, tasks[t].failed)
    BY <1>7 DEF CleanupCancelled, CleanupChannelClosed
  <2>3. /\ tasks'[t].kind = tasks[t].kind /\ tasks'[t].failed = tasks[t].failed
        /\ tasks'[t].pc = pc /\ \A s \in Tasks : s # t => tasks'[s] = tasks[s]
    BY <2>2, AwaitEffect
  <2>4. tasks[t].failed = TRUE
    BY <2>1 DEF TypeOK, Task
  <2> QED BY <1>f, <2>1, <2>2, <2>3, <2>4
<1>8. ASSUME NEW t \in Tasks, CleanupFinished(t) PROVE Goal
  BY <1>8, <1>d DEF CleanupFinished
<1>9. ASSUME NEW t \in Tasks, ChannelCloseOk(t) \/ ConnectionCloseOk(t) PROVE Goal
  BY <1>9, <1>u DEF ChannelCloseOk, ConnectionCloseOk
<1>10. CASE OnChannelClose
  BY <1>10, <1>a, <1>p, <1>u DEF OnChannelClose, Recreate, Lowest, Free
<1>11. CASE OnConnectionClose
  BY <1>11, <1>u DEF OnConnectionClose
<1>12. ASSUME NEW i \in Timers, TimerFires(i) PROVE Goal
  <2>1. PICK t \in Tasks : Await(t, "attempt", "connect", None, FALSE)
    BY <1>12 DEF TimerFires, Lowest, Free, UsedOnce
  <2>2. /\ tasks'[t].kind = "attempt" /\ tasks'[t].pc = "connect"
        /\ \A s \in Tasks : s # t => tasks'[s] = tasks[s]
    BY <2>1, AwaitEffect
  <2>3. InUseOK(t)'
    BY <2>2 DEF InUseOK, CleanupPcs
  <2> QED BY <1>i, <2>2, <2>3
<1>13. ASSUME (\E c \in Conns : ConnDrop(c)) \/ (\E h \in Chans : ChanDrop(h)) PROVE Goal
  BY <1>13, <1>u DEF ConnDrop, ChanDrop
<1> HIDE DEF Goal
<1> QED BY <1>1, <1>3, <1>4, <1>5, <1>6, <1>7, <1>8, <1>9, <1>10, <1>11, <1>12, <1>13
        DEF Next, Step, Progress, Listener

\* Once the retry is spent, the end or the failure of a recreation changes
\* nothing but the state.
LEMMA SpentRecreation ==
    ASSUME TypeOK, UsedOnce, attempts = 1, NEW t \in Tasks, tasks[t].kind = "recreate",
           CreateOk(t) \/ DeclareOk(t) \/ ConsumeOk(t) \/ SetupFails(t)
    PROVE  /\ attempts' = 1 /\ timers' = timers /\ state' \in {state, "disconnected"}
           /\ tasks'[t].kind # "attempt"
           /\ \A s \in Tasks : s # t => tasks'[s] = tasks[s]
<1> DEFINE Goal == /\ attempts' = 1 /\ timers' = timers /\ state' \in {state, "disconnected"}
                   /\ tasks'[t].kind # "attempt"
                   /\ \A s \in Tasks : s # t => tasks'[s] = tasks[s]
<1>1. ASSUME NEW tagged, SetupFailed(t, tagged) PROVE Goal
  <2>1. ScheduleReconnection /\ tasks'[t].kind = "none" /\ \A s \in Tasks : s # t => tasks'[s] = tasks[s]
    BY <1>1, RecreationFails
  <2> QED BY <2>1, ScheduleOnce
<1>2. ASSUME NEW pc, NEW on, Await(t, tasks[t].kind, pc, on, FALSE), UNCHANGED <<state, attempts, timerVars>>
      PROVE  Goal
  <2>1. tasks'[t].kind = tasks[t].kind /\ \A s \in Tasks : s # t => tasks'[s] = tasks[s]
    BY <1>2, AwaitEffect
  <2> QED BY <1>2, <2>1 DEF timerVars
<1>3. CASE CreateOk(t)
  BY <1>2, <1>3 DEF CreateOk
<1>4. CASE DeclareOk(t) \/ SetupFails(t)
  BY <1>1, <1>2, <1>4 DEF DeclareOk, SetupFails
<1>5. CASE ConsumeOk(t)
  <2>1. SetupFailed(t, TRUE) \/ (Done(t) /\ UNCHANGED <<state, attempts, timerVars>>)
    BY <1>5 DEF ConsumeOk
  <2>2. CASE Done(t) /\ UNCHANGED <<state, attempts, timerVars>>
    BY <2>2, DoneEffect DEF timerVars
  <2> QED BY <1>1, <2>1, <2>2
<1> QED BY <1>3, <1>4, <1>5

\* Nor do the listeners start anything but a recreation.
LEMMA SpentListener ==
    ASSUME TypeOK, UsedOnce, attempts = 1, Listener
    PROVE  /\ attempts' = 1 /\ timers' = timers /\ state' \in {state, "disconnected"}
           /\ \A t \in Tasks : tasks'[t] = tasks[t] \/ (tasks[t].kind = "none" /\ tasks'[t].kind = "recreate")
<1>1. CASE OnChannelClose
  <2>1. UNCHANGED <<attempts, timers, state>>
    BY <1>1 DEF OnChannelClose, timerVars
  <2>2. UNCHANGED tasks \/ \E t \in Lowest(Free) : Await(t, "recreate", "create", conn, FALSE)
    BY <1>1 DEF OnChannelClose, Recreate
  <2>3. ASSUME NEW t \in Tasks, tasks[t].kind = "none", Await(t, "recreate", "create", conn, FALSE)
        PROVE  \A s \in Tasks : tasks'[s] = tasks[s] \/ (tasks[s].kind = "none" /\ tasks'[s].kind = "recreate")
    <3>1. tasks'[t].kind = "recreate" /\ \A s \in Tasks : s # t => tasks'[s] = tasks[s]
      BY <2>3, AwaitEffect
    <3> QED BY <2>3, <3>1
  <2> QED BY <2>1, <2>2, <2>3 DEF Lowest, Free
<1>2. CASE OnConnectionClose
  <2>1. ScheduleReconnection /\ UNCHANGED tasks
    BY <1>2 DEF OnConnectionClose, UsedOnce, LimitedUse
  <2> QED BY <2>1, ScheduleOnce
<1> QED BY <1>1, <1>2 DEF Listener

\* A connector that has given up stays so.
LEMMA GaveUpStep ==
    ASSUME TypeOK, UsedOnce, LimitedUse', GaveUp, Next
    PROVE  GaveUp'
<1>0. \A t \in Tasks : ~ Build(t) /\ ~ Close(t)
  BY UsedOnceStep
<1>1. ASSUME NEW t \in Tasks, tasks[t].pc \in {"connect"} \cup CleanupPcs PROVE FALSE
  BY <1>1, UsedKinds DEF GaveUp, NoAttempt
<1>2. ASSUME NEW t \in Tasks, CreateOk(t) \/ DeclareOk(t) \/ ConsumeOk(t) \/ SetupFails(t) PROVE GaveUp'
  <2>1. tasks[t].kind = "recreate"
    BY <1>2, UsedKinds DEF CreateOk, DeclareOk, ConsumeOk, SetupFails, SetupPcs, GaveUp, NoAttempt
  <2>2. /\ attempts' = 1 /\ timers' = timers /\ state' \in {state, "disconnected"}
        /\ tasks'[t].kind # "attempt"
        /\ \A s \in Tasks : s # t => tasks'[s] = tasks[s]
    BY <1>2, <2>1, SpentRecreation DEF GaveUp
  <2> QED BY <2>2 DEF GaveUp, NoAttempt
<1>3. ASSUME NEW t \in Tasks, ConnectOk(t) \/ ConnectFails(t) \/ CleanupCancelled(t) \/ ChannelCloseOk(t)
                              \/ ConnectionCloseOk(t) \/ CleanupChannelClosed(t) \/ CleanupFinished(t)
      PROVE  FALSE
  BY <1>1, <1>3 DEF ConnectOk, ConnectFails, CleanupCancelled, ChannelCloseOk, ConnectionCloseOk,
     CleanupChannelClosed, CleanupFinished, CleanupPcs
<1>4. CASE Listener
  <2>1. /\ attempts' = 1 /\ timers' = timers /\ state' \in {state, "disconnected"}
        /\ \A t \in Tasks : tasks'[t] = tasks[t] \/ (tasks[t].kind = "none" /\ tasks'[t].kind = "recreate")
    BY <1>4, SpentListener DEF GaveUp
  <2> QED BY <2>1 DEF GaveUp, NoAttempt
<1>5. ASSUME NEW i \in Timers, TimerFires(i) PROVE FALSE
  BY <1>5 DEF TimerFires, GaveUp
<1>6. ASSUME (\E c \in Conns : ConnDrop(c)) \/ (\E h \in Chans : ChanDrop(h)) PROVE GaveUp'
  BY <1>6 DEF ConnDrop, ChanDrop, thisVars, timerVars, GaveUp, NoAttempt
<1> QED BY <1>0, <1>2, <1>3, <1>4, <1>5, <1>6 DEF Next, Step, Progress

\* The cleanup of the failed attempt ends with the connector giving up.
LEMMA EndingStep ==
    ASSUME TypeOK, UsedOnce, LimitedUse', NEW a \in Tasks, Ending(a), Next
    PROVE  Ending(a)' \/ GaveUp'
<1>0. \A t \in Tasks : ~ Build(t) /\ ~ Close(t)
  BY UsedOnceStep
<1>a. /\ attempts = 1 /\ timers = {} /\ tasks[a].kind = "attempt" /\ tasks[a].failed
      /\ tasks[a].pc \in CleanupPcs /\ \A s \in Tasks : tasks[s].kind = "attempt" => s = a
  BY DEF Ending, SoleAttempt
<1>1. ASSUME NEW t \in Tasks, ConnectOk(t) \/ ConnectFails(t) PROVE FALSE
  <2>1. tasks[t].pc = "connect"
    BY <1>1 DEF ConnectOk, ConnectFails
  <2>2. t = a
    BY <1>a, <2>1, UsedKinds
  <2> QED BY <1>a, <2>1, <2>2 DEF CleanupPcs
<1>2. ASSUME NEW t \in Tasks, CreateOk(t) \/ DeclareOk(t) \/ ConsumeOk(t) \/ SetupFails(t) PROVE Ending(a)'
  <2>1. tasks[t].pc \in SetupPcs
    BY <1>2 DEF CreateOk, DeclareOk, ConsumeOk, SetupFails, SetupPcs
  <2>2. t # a
    BY <1>a, <2>1 DEF SetupPcs, CleanupPcs
  <2>3. tasks[t].kind = "recreate"
    BY <1>a, <2>1, <2>2, UsedKinds
  <2>4. /\ attempts' = 1 /\ timers' = timers
        /\ tasks'[t].kind # "attempt"
        /\ \A s \in Tasks : s # t => tasks'[s] = tasks[s]
    BY <1>2, <1>a, <2>3, SpentRecreation
  <2> QED BY <1>a, <2>2, <2>4 DEF Ending, SoleAttempt
<1>3. ASSUME NEW t \in Tasks, tasks[t].pc \in CleanupPcs PROVE t = a
  BY <1>3, <1>a, UsedKinds
<1>4. ASSUME NEW t \in Tasks, CleanupCancelled(t) \/ CleanupChannelClosed(t) PROVE Ending(a)'
  <2>1. t = a
    BY <1>3, <1>4 DEF CleanupCancelled, CleanupChannelClosed, CleanupPcs
  <2>2. PICK pc \in {"closeChan", "closeConn"} :
          \E on : Await(t, tasks[t].kind, pc, on, tasks[t].failed)
    BY <1>4 DEF CleanupCancelled, CleanupChannelClosed
  <2>3. /\ tasks'[t].kind = tasks[t].kind /\ tasks'[t].failed = tasks[t].failed
        /\ tasks'[t].pc = pc /\ \A s \in Tasks : s # t => tasks'[s] = tasks[s]
    BY <2>2, AwaitEffect
  <2>4. attempts' = attempts /\ timers' \subseteq timers
    BY <1>4 DEF CleanupCancelled, CleanupChannelClosed, thisVars, timerVars, ClearTimer
  <2>5. pc \in CleanupPcs
    BY <2>2 DEF CleanupPcs
  <2> QED BY <1>a, <2>1, <2>3, <2>4, <2>5 DEF Ending, SoleAttempt
<1>5. ASSUME NEW t \in Tasks, CleanupFinished(t) PROVE GaveUp'
  <2>1. t = a
    BY <1>3, <1>5 DEF CleanupFinished, CleanupPcs
  <2>2. ScheduleReconnection /\ Done(t)
    BY <1>5, <1>a, <2>1 DEF CleanupFinished
  <2>3. tasks'[t].kind = "none" /\ \A s \in Tasks : s # t => tasks'[s] = tasks[s]
    BY <2>2, DoneEffect
  <2>4. attempts' = 1 /\ timers' = timers /\ state' = "disconnected"
    BY <1>a, <2>2, ScheduleOnce
  <2> QED BY <1>a, <2>1, <2>3, <2>4 DEF GaveUp, NoAttempt
<1>6. ASSUME UNCHANGED <<attempts, timers, tasks>> PROVE Ending(a)'
  BY <1>6 DEF Ending, SoleAttempt
<1>7. ASSUME NEW t \in Tasks, ChannelCloseOk(t) \/ ConnectionCloseOk(t) PROVE Ending(a)'
  BY <1>6, <1>7 DEF ChannelCloseOk, ConnectionCloseOk, thisVars, timerVars
<1>8. CASE Listener
  <2>1. /\ attempts' = 1 /\ timers' = timers
        /\ \A t \in Tasks : tasks'[t] = tasks[t] \/ (tasks[t].kind = "none" /\ tasks'[t].kind = "recreate")
    BY <1>8, <1>a, SpentListener
  <2> QED BY <1>a, <2>1 DEF Ending, SoleAttempt
<1>9. ASSUME NEW i \in Timers, TimerFires(i) PROVE FALSE
  BY <1>9, <1>a DEF TimerFires
<1>10. ASSUME (\E c \in Conns : ConnDrop(c)) \/ (\E h \in Chans : ChanDrop(h)) PROVE Ending(a)'
  BY <1>6, <1>10 DEF ConnDrop, ChanDrop, thisVars, timerVars
<1> QED BY <1>0, <1>1, <1>2, <1>4, <1>5, <1>7, <1>8, <1>9, <1>10 DEF Next, Step, Progress

\* While the retry is due or under way no listener of a channel is left, so
\* losses are not reported to one.
LEMMA QuietlyLoss ==
    ASSUME TypeOK, UsedOnce, LimitedUse', Quietly,
           (\E c \in Conns : ConnDrop(c)) \/ (\E h \in Chans : ChanDrop(h))
    PROVE  /\ Quietly' /\ faults' = faults + 1 /\ faults <= 2
           /\ UNCHANGED <<conn, chan, timers, tasks>>
<1>1. faults' = faults + 1 /\ UNCHANGED <<conn, chan, attempts, timers, tasks>>
  BY DEF ConnDrop, ChanDrop, Fault, thisVars, timerVars
<1>2. faults \in Nat /\ faults <= 2
  BY <1>1 DEF LimitedUse, TypeOK
<1>3. NoChannelListener /\ \A h \in Chans : chanEvents[h] = 0
  <2>1. Quiet
    BY DEF ConnDrop, ChanDrop
  <2> QED BY <1>2, <2>1 DEF Quietly, Quiet, Drained
<1>4. \A h \in Chans : chanEvents'[h] = 0 /\ chanHooks'[h] = 0
  <2>1. ASSUME NEW c \in Conns, LoseConn(c) PROVE \A h \in Chans : chanEvents'[h] = 0 /\ chanHooks'[h] = 0
    BY <1>3, <2>1 DEF LoseConn, NoChannelListener
  <2>2. ASSUME NEW g \in Chans, LoseChan(g) PROVE \A h \in Chans : chanEvents'[h] = 0 /\ chanHooks'[h] = 0
    BY <1>3, <2>2 DEF LoseChan, NoChannelListener, TypeOK
  <2> QED BY <2>1, <2>2 DEF ConnDrop, ChanDrop
<1> QED BY <1>1, <1>2, <1>4 DEF Quietly, Reported, NoChannelListener

LEMMA QuietlyListener ==
    ASSUME TypeOK, UsedOnce, Quietly, Listener
    PROVE  /\ Quietly' /\ connEvents > 0 /\ conn' = None /\ chan' = None
           /\ UNCHANGED <<timers, tasks, connOpen, connHooks, chanOf, faults>>
<1>1. OnConnectionClose
  BY DEF Listener, OnChannelClose, Lowest, Quietly, Reported
<1>2. ScheduleReconnection
  BY <1>1 DEF OnConnectionClose, UsedOnce, LimitedUse
<1>3. attempts' = 1 /\ timers' = timers
  BY <1>2, ScheduleOnce DEF Quietly
<1>4. /\ connEvents > 0 /\ conn' = None /\ chan' = None
      /\ UNCHANGED <<tasks, connOpen, connHooks, chanOf, chanHooks, chanEvents, faults>>
  BY <1>1 DEF OnConnectionClose, brokerVars, countVars
<1> QED BY <1>3, <1>4 DEF Quietly, Reported, NoChannelListener

\* The armed timer is the only one to act, besides what is left of a
\* recreation that failed already.
LEMMA ArmedStep ==
    ASSUME TypeOK, UsedOnce, LimitedUse', Armed, Next
    PROVE  Armed' \/ \E t \in Tasks : Connecting(t)'
<1>0. /\ \A t \in Tasks : ~ Build(t) /\ ~ Close(t)
      /\ ~ intentional
  BY UsedOnceStep DEF UsedOnce
<1>a. /\ Quietly /\ NoAttempt /\ (\E i \in Timers : timers = {i})
      /\ \A t \in Tasks : tasks[t].kind = "recreate" => Rejected(t)
      /\ faults <= 1 => connOpen = {}
      /\ faults <= 2 => Watched
  BY DEF Armed
<1>1. ASSUME NEW t \in Tasks, tasks[t].pc \in {"connect"} \cup CleanupPcs PROVE FALSE
  BY <1>1, <1>a, UsedKinds DEF NoAttempt
<1>q. ASSUME Quiet, NEW t \in Tasks PROVE tasks[t].kind \notin {"attempt", "recreate"}
  BY <1>q, <1>a DEF Quiet, NoAttempt
<1>2. ASSUME NEW t \in Tasks, CreateOk(t) \/ DeclareOk(t) \/ ConsumeOk(t) PROVE FALSE
  <2>1. tasks[t].pc \in SetupPcs /\ Quiet
    BY <1>2 DEF CreateOk, DeclareOk, ConsumeOk, SetupPcs
  <2> QED BY <1>q, <2>1, UsedKinds
<1>3. ASSUME NEW t \in Tasks, SetupFails(t) PROVE Armed'
  <2>1. tasks[t].kind = "recreate"
    BY <1>3, <1>a, UsedKinds DEF SetupFails, SetupPcs, NoAttempt
  <2>2. ~ Quiet
    BY <1>q, <2>1
  <2>3. /\ SetupFailed(t, tag) /\ UNCHANGED faults
        /\ UNCHANGED <<connOpen, connHooks, chanOf, chanHooks, chanEvents>>
    BY <1>3, <2>2 DEF SetupFails, NoFault, brokerVars, eventVars
  <2>4. /\ ScheduleReconnection /\ tasks'[t].kind = "none"
        /\ \A s \in Tasks : s # t => tasks'[s] = tasks[s]
    BY <2>1, <2>3, RecreationFails
  <2>5. attempts' = 1 /\ timers' = timers
    BY <1>a, <2>4, ScheduleOnce DEF Quietly
  <2>6. Quietly'
    BY <1>a, <2>3, <2>5 DEF Quietly, Reported, NoChannelListener
  <2>7. NoAttempt'
    BY <1>a, <2>4 DEF NoAttempt
  <2>8. ASSUME NEW s \in Tasks, tasks'[s].kind = "recreate" PROVE Rejected(s)'
    <3>1. s # t /\ tasks'[s] = tasks[s]
      BY <2>4, <2>8
    <3>2. Rejected(s)
      BY <1>a, <2>8, <3>1
    <3> QED BY <2>3, <3>1, <3>2 DEF Rejected, ChanOpen
  <2>9. Watched => Watched'
    BY <2>3 DEF Watched
  <2> QED BY <1>a, <2>3, <2>5, <2>6, <2>7, <2>8, <2>9 DEF Armed
<1>4. ASSUME NEW t \in Tasks, ConnectOk(t) \/ ConnectFails(t) \/ CleanupCancelled(t) \/ ChannelCloseOk(t)
                              \/ ConnectionCloseOk(t) \/ CleanupChannelClosed(t) \/ CleanupFinished(t)
      PROVE  FALSE
  BY <1>1, <1>4 DEF ConnectOk, ConnectFails, CleanupCancelled, ChannelCloseOk, ConnectionCloseOk,
     CleanupChannelClosed, CleanupFinished, CleanupPcs
<1>5. CASE Listener
  <2>1. /\ Quietly' /\ UNCHANGED <<timers, tasks, connOpen, connHooks, chanOf, faults>>
    BY <1>5, <1>a, QuietlyListener
  <2>2. ASSUME NEW s \in Tasks, tasks'[s].kind = "recreate" PROVE Rejected(s)'
    BY <1>a, <2>1, <2>2 DEF Rejected, ChanOpen
  <2> QED BY <1>a, <2>1, <2>2 DEF Armed, NoAttempt, Watched
<1>6. ASSUME NEW i \in Timers, TimerFires(i) PROVE \E t \in Tasks : Connecting(t)'
  <2>1. timers = {i} /\ timers' = {}
    BY <1>6, <1>a DEF TimerFires
  <2>2. PICK t \in Tasks : Await(t, "attempt", "connect", None, FALSE)
    BY <1>6, <1>0 DEF TimerFires, Lowest, Free
  <2>3. /\ tasks'[t].kind = "attempt" /\ tasks'[t].pc = "connect"
        /\ \A s \in Tasks : s # t => tasks'[s] = tasks[s]
    BY <2>2, AwaitEffect
  <2>4. Quiet /\ UNCHANGED <<attempts, connOpen, connHooks, chanHooks, chanEvents, faults>>
    BY <1>6 DEF TimerFires, brokerVars, eventVars, countVars
  <2>5. SoleAttempt(t)' /\ NoRecreation'
    BY <1>q, <2>3, <2>4 DEF SoleAttempt, NoRecreation
  <2>6. Quietly'
    BY <1>a, <2>4 DEF Quietly, Reported, NoChannelListener
  <2>7. Connecting(t)'
    BY <1>a, <2>1, <2>3, <2>4, <2>5, <2>6 DEF Connecting, Watched
  <2> QED BY <2>7
<1>7. ASSUME (\E c \in Conns : ConnDrop(c)) \/ (\E h \in Chans : ChanDrop(h)) PROVE Armed'
  <2>1. /\ Quietly' /\ faults' = faults + 1 /\ faults <= 2 /\ UNCHANGED <<timers, tasks>>
    BY <1>7, <1>a, QuietlyLoss
  <2>2. Quiet
    BY <1>7 DEF ConnDrop, ChanDrop
  <2>3. Watched /\ (faults' <= 1 => connOpen = {})
    BY <1>a, <2>1 DEF TypeOK
  <2>4. Watched' /\ (connOpen = {} => connOpen' = {})
    <3>1. ASSUME NEW c \in Conns, LoseConn(c) PROVE Watched' /\ (connOpen = {} => connOpen' = {})
      BY <2>3, <3>1 DEF LoseConn, Watched, TypeOK
    <3>2. ASSUME NEW h \in Chans, LoseChan(h) PROVE Watched' /\ (connOpen = {} => connOpen' = {})
      BY <2>3, <3>2 DEF LoseChan, Watched
    <3> QED BY <1>7, <3>1, <3>2 DEF ConnDrop, ChanDrop
  <2>5. NoAttempt' /\ \A t \in Tasks : tasks'[t].kind # "recreate"
    BY <1>q, <2>1, <2>2 DEF NoAttempt
  <2> QED BY <1>a, <2>1, <2>3, <2>4, <2>5 DEF Armed
<1> QED BY <1>0, <1>2, <1>3, <1>4, <1>5, <1>6, <1>7 DEF Next, Step, Progress

\* The attempt gets its connection, or cleans up.
LEMMA ConnectingStep ==
    ASSUME TypeOK, UsedOnce, LimitedUse', Unhooked, NEW a \in Tasks, Connecting(a), Next
    PROVE  Connecting(a)' \/ SettingUp(a)' \/ Ending(a)'
<1>0. /\ \A t \in Tasks : ~ Build(t) /\ ~ Close(t)
  BY UsedOnceStep
<1>a. /\ Quietly /\ timers = {} /\ NoRecreation
      /\ tasks[a].kind = "attempt" /\ tasks[a].pc = "connect"
      /\ \A s \in Tasks : tasks[s].kind = "attempt" => s = a
      /\ faults <= 1 => connOpen = {}
      /\ faults <= 2 => Watched
  BY DEF Connecting, SoleAttempt
<1>1. ASSUME NEW t \in Tasks, tasks[t].pc \in {"connect"} \cup SetupPcs \cup CleanupPcs PROVE t = a
  BY <1>1, <1>a, UsedKinds DEF NoRecreation
<1>2. ASSUME NEW t \in Tasks, tasks[t].pc \in SetupPcs \cup CleanupPcs PROVE FALSE
  BY <1>1, <1>2, <1>a DEF SetupPcs, CleanupPcs
<1>3. ASSUME NEW t \in Tasks, CreateOk(t) \/ DeclareOk(t) \/ ConsumeOk(t) \/ SetupFails(t) PROVE FALSE
  BY <1>2, <1>3 DEF CreateOk, DeclareOk, ConsumeOk, SetupFails, SetupPcs
<1>4. ASSUME NEW t \in Tasks, CleanupCancelled(t) \/ ChannelCloseOk(t)
                              \/ ConnectionCloseOk(t) \/ CleanupChannelClosed(t) \/ CleanupFinished(t)
      PROVE  FALSE
  BY <1>2, <1>4 DEF CleanupCancelled, ChannelCloseOk, ConnectionCloseOk,
     CleanupChannelClosed, CleanupFinished, CleanupPcs
<1>5. ASSUME NEW t \in Tasks, ConnectOk(t) PROVE SettingUp(a)'
  <2>1. t = a
    BY <1>1, <1>5 DEF ConnectOk
  <2>2. PICK c \in Conns : /\ c \notin connOpen /\ conn' = c /\ connOpen' = connOpen \cup {c}
                           /\ Await(a, "attempt", "create", c, FALSE)
    BY <1>5, <1>a, <2>1 DEF ConnectOk, FreshConn, Lowest
  <2>3. /\ tasks'[a].kind = "attempt" /\ tasks'[a].pc = "create" /\ tasks'[a].on = c
        /\ \A s \in Tasks : s # a => tasks'[s] = tasks[s]
    BY <2>2 DEF Await, TypeOK
  <2>4. Quiet /\ UNCHANGED <<attempts, timers, connHooks, chanHooks, chanEvents, connEvents, faults>>
    BY <1>5 DEF ConnectOk, timerVars, eventVars, countVars
  <2>5. Quietly'
    BY <1>a, <2>4 DEF Quietly, Reported, NoChannelListener
  <2>6. SoleAttempt(a)' /\ NoRecreation'
    BY <1>a, <2>3 DEF SoleAttempt, NoRecreation
  <2>7. faults' <= 1 => OneConnection'
    BY <1>a, <2>2, <2>4 DEF OneConnection
  <2>8. faults' <= 2 => /\ conn' # None /\ connEvents' = 0
                        /\ \A d \in connOpen' : d # conn' => connHooks'[d] > 0
    BY <1>a, <2>2, <2>4, IdentityAssumption DEF Watched, Quiet, Drained
  <2>9. \A d \in Conns : d = conn' => connHooks'[d] = 0
    BY <2>2, <2>4 DEF Unhooked
  <2> QED BY <1>a, <2>2, <2>3, <2>4, <2>5, <2>6, <2>7, <2>8, <2>9 DEF SettingUp, SetupPcs
<1>6. ASSUME NEW t \in Tasks, ConnectFails(t) PROVE Ending(a)'
  <2>1. t = a
    BY <1>1, <1>6 DEF ConnectFails
  <2>2. StartCleanup(a, "attempt", TRUE, tag) /\ UNCHANGED attempts
    BY <1>6, <1>a, <2>1 DEF ConnectFails, thisVars
  <2>3. /\ tasks'[a].kind = "attempt" /\ tasks'[a].pc \in {"cancel", "closeChan"}
        /\ tasks'[a].failed = TRUE /\ timers' \subseteq timers
        /\ \A s \in Tasks : s # a => tasks'[s] = tasks[s]
    BY <2>2, CleanupEffect
  <2>4. SoleAttempt(a)'
    BY <1>a, <2>3 DEF SoleAttempt
  <2> QED BY <1>a, <2>2, <2>3, <2>4 DEF Ending, CleanupPcs, Quietly
<1>7. CASE Listener
  <2>1. Quietly' /\ UNCHANGED <<timers, tasks, connOpen, connHooks, faults>>
    BY <1>7, <1>a, QuietlyListener
  <2>2. Connecting(a)'
    BY <1>a, <2>1 DEF Connecting, SoleAttempt, NoRecreation, Watched
  <2> QED BY <2>2
<1>8. ASSUME NEW i \in Timers, TimerFires(i) PROVE FALSE
  BY <1>8, <1>a DEF TimerFires
<1>9. ASSUME (\E c \in Conns : ConnDrop(c)) \/ (\E h \in Chans : ChanDrop(h)) PROVE Connecting(a)'
  <2>1. /\ Quietly' /\ faults' = faults + 1 /\ faults <= 2 /\ UNCHANGED <<timers, tasks>>
    BY <1>9, <1>a, QuietlyLoss
  <2>2. Watched /\ (faults' <= 1 => connOpen = {})
    BY <1>a, <2>1 DEF TypeOK
  <2>3. Watched' /\ (connOpen = {} => connOpen' = {})
    <3>1. ASSUME NEW c \in Conns, LoseConn(c) PROVE Watched' /\ (connOpen = {} => connOpen' = {})
      BY <2>2, <3>1 DEF LoseConn, Watched, TypeOK
    <3>2. ASSUME NEW h \in Chans, LoseChan(h) PROVE Watched' /\ (connOpen = {} => connOpen' = {})
      BY <2>2, <3>2 DEF LoseChan, Watched
    <3> QED BY <1>9, <3>1, <3>2 DEF ConnDrop, ChanDrop
  <2> QED BY <1>a, <2>1, <2>2, <2>3 DEF Connecting, SoleAttempt, NoRecreation
<1> QED BY <1>0, <1>3, <1>4, <1>5, <1>6, <1>7, <1>8, <1>9 DEF Next, Step, Progress

\* The attempt sets up its channel and hands back a running connector, or
\* cleans up.
LEMMA SettingUpStep ==
    ASSUME TypeOK, TypeOK', UsedOnce, LimitedUse', Nested, NEW a \in Tasks, SettingUp(a), Next
    PROVE  SettingUp(a)' \/ Running' \/ Ending(a)'
<1>0. /\ \A t \in Tasks : ~ Build(t) /\ ~ Close(t)
      /\ ~ intentional /\ faults' <= 3 /\ faults \in Nat /\ faults' \in Nat
  BY UsedOnceStep DEF UsedOnce, TypeOK
<1>n. None \notin Conns /\ None \notin Chans
  BY IdentityAssumption
<1>a. /\ Quietly /\ timers = {} /\ NoRecreation
      /\ tasks[a].kind = "attempt" /\ tasks[a].pc \in SetupPcs
      /\ \A s \in Tasks : tasks[s].kind = "attempt" => s = a
  BY DEF SettingUp, SoleAttempt
<1>b. /\ faults <= 1 => OneConnection
      /\ faults <= 2 => /\ conn # None /\ connEvents = 0
                        /\ \A c \in connOpen : c # conn => connHooks[c] > 0
      /\ \A c \in Conns : c = conn => connHooks[c] = 0
  BY DEF SettingUp
<1>c. /\ tasks[a].pc = "create" => conn \in {None, tasks[a].on}
      /\ tasks[a].pc \in {"declare", "consume"} =>
           /\ chan \in {None, tasks[a].on}
           /\ conn # None => \A h \in Chans : h = tasks[a].on => chanOf[h] \in {None, conn}
  BY DEF SettingUp
<1>1. ASSUME NEW t \in Tasks, tasks[t].pc \in {"connect"} \cup SetupPcs \cup CleanupPcs PROVE t = a
  BY <1>1, <1>a, UsedKinds DEF NoRecreation
<1>2. ASSUME NEW t \in Tasks, tasks[t].pc \in {"connect"} \cup CleanupPcs PROVE FALSE
  BY <1>1, <1>2, <1>a DEF SetupPcs, CleanupPcs
<1>3. ASSUME NEW t \in Tasks, ConnectOk(t) \/ ConnectFails(t) \/ CleanupCancelled(t) \/ ChannelCloseOk(t)
                              \/ ConnectionCloseOk(t) \/ CleanupChannelClosed(t) \/ CleanupFinished(t)
      PROVE  FALSE
  BY <1>2, <1>3 DEF ConnectOk, ConnectFails, CleanupCancelled, ChannelCloseOk, ConnectionCloseOk,
     CleanupChannelClosed, CleanupFinished, CleanupPcs
<1>t. ASSUME tasks'[a].kind = "attempt", \A s \in Tasks : s # a => tasks'[s] = tasks[s]
      PROVE  SoleAttempt(a)' /\ NoRecreation'
  BY <1>a, <1>t DEF SoleAttempt, NoRecreation
<1>f. ASSUME NEW tagged, SetupFailed(a, tagged) PROVE Ending(a)'
  <2>1. /\ tasks'[a].kind = "attempt" /\ tasks'[a].pc \in {"cancel", "closeChan"}
        /\ tasks'[a].failed = TRUE /\ timers' \subseteq timers /\ attempts' = attempts
        /\ \A s \in Tasks : s # a => tasks'[s] = tasks[s]
    BY <1>f, <1>a, AttemptFails
  <2> QED BY <1>a, <1>t, <2>1 DEF Ending, CleanupPcs, Quietly
<1>4. ASSUME NEW t \in Tasks, CreateOk(t) PROVE SettingUp(a)'
  <2>1. t = a
    BY <1>1, <1>4 DEF CreateOk, SetupPcs
  <2>2. PICK h \in Chans : /\ chanOf' = [chanOf EXCEPT ![h] = tasks[a].on] /\ chan' = h
                           /\ Await(a, tasks[a].kind, "declare", h, FALSE)
    BY <1>4, <2>1 DEF CreateOk, FreshChan, Lowest
  <2>3. /\ tasks'[a].kind = "attempt" /\ tasks'[a].pc = "declare" /\ tasks'[a].on = h
        /\ \A s \in Tasks : s # a => tasks'[s] = tasks[s]
    BY <1>a, <2>2 DEF Await, TypeOK
  <2>4. UNCHANGED <<conn, attempts, timers, connOpen, connHooks, chanHooks, chanEvents, connEvents, faults>>
    BY <1>4 DEF CreateOk, timerVars, eventVars, countVars
  <2>5. Quietly'
    BY <1>a, <2>4 DEF Quietly, Reported, NoChannelListener
  <2>6. chanOf'[h] = tasks[a].on /\ conn \in {None, tasks[a].on}
    BY <1>4, <1>c, <2>1, <2>2 DEF CreateOk, TypeOK
  <2>7. \A g \in Chans : g = tasks'[a].on => (conn' # None => chanOf'[g] \in {None, conn'})
    BY <2>3, <2>4, <2>6
  <2>8. OneConnection => OneConnection'
    BY <2>4 DEF OneConnection
  <2> QED BY <1>a, <1>b, <1>t, <2>2, <2>3, <2>4, <2>5, <2>7, <2>8 DEF SettingUp, SetupPcs
<1>5. ASSUME NEW t \in Tasks, DeclareOk(t) PROVE SettingUp(a)' \/ Ending(a)'
  <2>1. t = a
    BY <1>1, <1>5 DEF DeclareOk, SetupPcs
  <2>2. CASE chan = None
    BY <1>5, <1>f, <2>1, <2>2 DEF DeclareOk
  <2>3. CASE chan # None
    <3>1. Await(a, tasks[a].kind, "consume", chan, FALSE) /\ UNCHANGED <<attempts, timers>>
      BY <1>5, <2>1, <2>3 DEF DeclareOk, timerVars
    <3>2. /\ tasks'[a].kind = "attempt" /\ tasks'[a].pc = "consume" /\ tasks'[a].on = chan
          /\ \A s \in Tasks : s # a => tasks'[s] = tasks[s]
      BY <1>a, <3>1 DEF Await, TypeOK
    <3>3. chan = tasks[a].on /\ (conn # None => \A h \in Chans : h = chan => chanOf[h] \in {None, conn})
      BY <1>5, <1>c, <2>1, <2>3 DEF DeclareOk
    <3>4. UNCHANGED <<conn, chan, connOpen, connHooks, chanOf, chanHooks, chanEvents, connEvents, faults>>
      BY <1>5 DEF DeclareOk, brokerVars, eventVars, countVars
    <3>5. Quietly'
      BY <1>a, <3>1, <3>4 DEF Quietly, Reported, NoChannelListener
    <3>6. OneConnection => OneConnection'
      BY <3>4 DEF OneConnection
    <3> QED BY <1>a, <1>b, <1>t, <3>1, <3>2, <3>3, <3>4, <3>5, <3>6 DEF SettingUp, SetupPcs
  <2> QED BY <2>2, <2>3
<1>6. ASSUME NEW t \in Tasks, ConsumeOk(t) PROVE Running' \/ Ending(a)'
  <2>1. t = a /\ tasks[a].pc = "consume"
    BY <1>1, <1>6 DEF ConsumeOk, SetupPcs
  <2>2. CASE chan = None
    <3>1. PICK tagged \in BOOLEAN : SetupFailed(a, tagged)
      BY <1>6, <2>1, <2>2 DEF ConsumeOk
    <3> QED BY <1>f, <3>1
  <2>3. CASE chan # None
    <3>1. Connected(a)
      BY <1>6, <1>0, <1>a, <2>1, <2>3 DEF ConsumeOk
    <3>2. chan = tasks[a].on /\ chan \in Chans /\ ChanOpen(chan)
          /\ (conn # None => chanOf[chan] = conn /\ conn \in connOpen)
      <4>1. chan = tasks[a].on
        BY <1>c, <2>1, <2>3
      <4>2. ChanAnswers(tasks[a].on)
        BY <1>6, <2>1 DEF ConsumeOk, Answers, OnConn
      <4>3. chan \in Chans /\ chanOf[chan] # None
        BY <4>1, <4>2 DEF ChanAnswers, ChanOpen
      <4>4. conn # None => chanOf[chan] \in {None, conn}
        BY <1>c, <2>1, <4>1, <4>3
      <4> QED BY <4>1, <4>3, <4>4 DEF ChanOpen, Nested
    <3>3. /\ attempts' = 0 /\ timers' = {} /\ state' = "connected" /\ Done(a)
          /\ connHooks' = IF conn \in connOpen THEN [connHooks EXCEPT ![conn] = @ + 1] ELSE connHooks
      BY <1>a, <3>1 DEF Connected, timerVars
    <3>4. \A s \in Tasks : tasks'[s].kind \notin {"attempt", "recreate"}
      <4>1. tasks'[a].kind = "none" /\ \A s \in Tasks : s # a => tasks'[s] = tasks[s]
        BY <3>3, DoneEffect
      <4> QED BY <1>a, <4>1 DEF NoRecreation
    <3>5. /\ UNCHANGED <<conn, chan, connOpen, chanOf, chanEvents, connEvents, faults>> /\ Quiet
          /\ chanHooks' = [chanHooks EXCEPT ![chan] = @ + 1] /\ chan \in consuming'
      BY <1>6, <2>1, <3>2 DEF ConsumeOk, eventVars, countVars
    <3>6. connEvents = 0 /\ \A h \in Chans : chanEvents[h] = 0
      BY <3>5 DEF Quiet, Drained
    <3>7. Serving'
      BY <3>2, <3>5 DEF Serving, ChanOpen
    <3>8. faults <= 2 => conn \in connOpen /\ NoChannelListener
      BY <1>a, <1>b, <3>2 DEF Quietly
    <3>9. faults <= 2 => Guarded'
      <4> SUFFICES ASSUME faults <= 2 PROVE Guarded'
        OBVIOUS
      <4>1. Watched'
        <5>1. connHooks' = [connHooks EXCEPT ![conn] = @ + 1] /\ conn \in Conns
          BY <3>3, <3>8 DEF TypeOK
        <5>2. \A c \in connOpen : c # conn => connHooks[c] > 0
          BY <1>b
        <5> QED BY <3>5, <5>1, <5>2 DEF Watched, TypeOK
      <4>2. /\ chanHooks'[chan] = 1 /\ \A h \in Chans : h # chan => chanHooks'[h] = 0
        BY <3>2, <3>5, <3>8 DEF NoChannelListener, TypeOK
      <4>3. chanOf[chan] = conn
        BY <1>n, <3>2, <3>8 DEF TypeOK
      <4> QED BY <3>5, <4>1, <4>2, <4>3 DEF Guarded
    <3>10. faults <= 1 => OneConnection'
      BY <1>b, <3>5 DEF OneConnection
    <3>11. NoAttempt'
      BY <3>4 DEF NoAttempt
    <3>12. faults' = 3 \/ conn' \in connOpen'
      BY <1>0, <3>5, <3>8
    <3> QED BY <3>3, <3>4, <3>5, <3>6, <3>7, <3>9, <3>10, <3>11, <3>12 DEF Running
  <2> QED BY <2>2, <2>3
<1>7. ASSUME NEW t \in Tasks, SetupFails(t) PROVE Ending(a)'
  <2>1. t = a
    BY <1>1, <1>7 DEF SetupFails, SetupPcs
  <2> QED BY <1>7, <1>f, <2>1 DEF SetupFails
<1>8. CASE Listener
  <2>1. /\ Quietly' /\ connEvents > 0 /\ conn' = None /\ chan' = None
        /\ UNCHANGED <<timers, tasks, connOpen, connHooks, chanOf, faults>>
    BY <1>8, <1>a, QuietlyListener
  <2>2. ~ (faults' <= 2)
    BY <1>b, <2>1
  <2>3. ~ (faults' <= 1)
    BY <1>0, <2>2
  <2>4. SettingUp(a)'
    BY <1>a, <1>n, <1>t, <2>1, <2>2, <2>3 DEF SettingUp
  <2> QED BY <2>4
<1>9. ASSUME NEW i \in Timers, TimerFires(i) PROVE FALSE
  BY <1>9, <1>a DEF TimerFires
<1>l. ASSUME (\E c \in Conns : ConnDrop(c)) \/ (\E h \in Chans : ChanDrop(h))
      PROVE  /\ Quietly' /\ faults' = faults + 1 /\ faults <= 2 /\ conn # None /\ connEvents = 0
             /\ UNCHANGED <<conn, chan, timers, tasks>>
             /\ SoleAttempt(a)' /\ NoRecreation'
  <2>1. /\ Quietly' /\ faults' = faults + 1 /\ faults <= 2 /\ UNCHANGED <<conn, chan, timers, tasks>>
    BY <1>l, <1>a, QuietlyLoss
  <2> QED BY <1>a, <1>b, <1>t, <2>1
<1>10. ASSUME NEW c \in Conns, ConnDrop(c) PROVE SettingUp(a)'
  <2>1. /\ Quietly' /\ faults' = faults + 1 /\ faults <= 2 /\ conn # None /\ connEvents = 0
        /\ UNCHANGED <<conn, chan, timers, tasks>> /\ SoleAttempt(a)' /\ NoRecreation'
    BY <1>10, <1>l
  <2>2. /\ c \in connOpen /\ connOpen' = connOpen \ {c} /\ connEvents' = connHooks[c]
        /\ connHooks' = [connHooks EXCEPT ![c] = 0]
        /\ \A h \in Chans : chanOf'[h] \in {None, chanOf[h]}
    BY <1>10 DEF ConnDrop, LoseConn
  <2>3. faults' <= 1 => OneConnection'
    BY <1>0, <1>b, <2>1, <2>2 DEF OneConnection
  <2>4. faults' <= 2 => connEvents' = 0
    <3>1. faults' <= 2 => c = conn
      BY <1>0, <1>b, <2>1, <2>2 DEF OneConnection
    <3> QED BY <1>b, <2>2, <3>1
  <2>5. \A d \in connOpen' : d # conn' => connHooks'[d] > 0
    BY <1>b, <2>1, <2>2 DEF TypeOK
  <2>6. \A d \in Conns : d = conn' => connHooks'[d] = 0
    BY <1>b, <2>1, <2>2 DEF TypeOK
  <2> QED BY <1>a, <1>c, <2>1, <2>2, <2>3, <2>4, <2>5, <2>6 DEF SettingUp
<1>11. ASSUME NEW g \in Chans, ChanDrop(g) PROVE SettingUp(a)'
  <2>1. /\ Quietly' /\ faults' = faults + 1 /\ faults <= 2 /\ conn # None /\ connEvents = 0
        /\ UNCHANGED <<conn, chan, timers, tasks>> /\ SoleAttempt(a)' /\ NoRecreation'
    BY <1>11, <1>l
  <2>2. /\ UNCHANGED <<connOpen, connHooks, connEvents>>
        /\ \A h \in Chans : chanOf'[h] \in {None, chanOf[h]}
    BY <1>11 DEF ChanDrop, LoseChan, TypeOK
  <2>3. faults' <= 1 => OneConnection'
    BY <1>0, <1>b, <2>1, <2>2 DEF OneConnection
  <2> QED BY <1>a, <1>b, <1>c, <2>1, <2>2, <2>3 DEF SettingUp
<1> QED BY <1>0, <1>3, <1>4, <1>5, <1>6, <1>7, <1>8, <1>9, <1>10, <1>11 DEF Next, Step, Progress

\* A connector that runs keeps running, or its retry is armed.
LEMMA RunningStep ==
    ASSUME TypeOK, TypeOK', UsedOnce, LimitedUse', Nested, Unhooked, Running, Next
    PROVE  Running' \/ Armed'
<1>0. /\ \A t \in Tasks : ~ Build(t) /\ ~ Close(t)
      /\ ~ intentional /\ ReconnectEnabled
      /\ faults' <= 3 /\ faults \in Nat /\ faults' \in Nat /\ connEvents \in Nat
  BY UsedOnceStep DEF UsedOnce, TypeOK, LimitedUse
<1>n. None \notin Conns /\ None \notin Chans
  BY IdentityAssumption
<1>a. /\ attempts = 0 /\ timers = {} /\ NoAttempt /\ state = "connected"
      /\ \A s, t \in Tasks : tasks[s].kind = "recreate" /\ tasks[t].kind = "recreate" => s = t
      /\ \A t \in Tasks : tasks[t].kind = "recreate" => RecreationOK(t)
      /\ \A h \in Chans : chanEvents[h] > 0 => ReportOK(h)
      /\ faults <= 1 => OneConnection
      /\ faults <= 2 => Guarded
      /\ connEvents > 0 => /\ faults <= 2 => NoChannelListener
                           /\ faults <= 1 => connOpen = {}
      /\ connEvents = 0 => /\ faults = 3 \/ conn \in connOpen
                           /\ Serving \/ Reported \/ ~ NoRecreation
  BY DEF Running
<1>1. ASSUME NEW t \in Tasks, tasks[t].pc \in {"connect"} \cup CleanupPcs PROVE FALSE
  BY <1>1, <1>a, UsedKinds DEF NoAttempt
<1>2. ASSUME NEW t \in Tasks, ConnectOk(t) \/ ConnectFails(t) \/ CleanupCancelled(t) \/ ChannelCloseOk(t)
                              \/ ConnectionCloseOk(t) \/ CleanupChannelClosed(t) \/ CleanupFinished(t)
      PROVE  FALSE
  BY <1>1, <1>2 DEF ConnectOk, ConnectFails, CleanupCancelled, ChannelCloseOk, ConnectionCloseOk,
     CleanupChannelClosed, CleanupFinished, CleanupPcs
<1>3. ASSUME NEW i \in Timers, TimerFires(i) PROVE FALSE
  BY <1>3, <1>a DEF TimerFires
\* Nobody closes anything, so that what is open answers.
<1>w. ASSUME NEW pc \in {"closeConn", "closeChan"}, NEW x PROVE ~ Awaits(pc, x)
  BY <1>w, <1>1 DEF Awaits, CleanupPcs
<1>k. ASSUME NEW t \in Tasks, tasks[t].pc \in SetupPcs
      PROVE  /\ tasks[t].kind = "recreate" /\ RecreationOK(t)
             /\ \A s \in Tasks : s # t => tasks[s].kind \notin {"attempt", "recreate"}
  BY <1>k, <1>a, UsedKinds DEF NoAttempt
<1>q. ASSUME Quiet PROVE connEvents = 0 /\ ~ Reported /\ \A h \in Chans : chanEvents[h] = 0
  BY <1>q DEF Quiet, Drained, Reported
<1>4. ASSUME NEW t \in Tasks, CreateOk(t) PROVE Running'
  <2>1. /\ tasks[t].kind = "recreate" /\ RecreationOK(t)
        /\ \A s \in Tasks : s # t => tasks[s].kind \notin {"attempt", "recreate"}
    BY <1>4, <1>k DEF CreateOk, SetupPcs
  <2>2. PICK h \in Chans : /\ chanOf[h] = None /\ chanOf' = [chanOf EXCEPT ![h] = tasks[t].on]
                           /\ chan' = h /\ Await(t, tasks[t].kind, "declare", h, FALSE)
    BY <1>4 DEF CreateOk, FreshChan, Lowest
  <2>3. /\ tasks'[t].kind = "recreate" /\ tasks'[t].pc = "declare" /\ tasks'[t].on = h
        /\ \A s \in Tasks : s # t => tasks'[s] = tasks[s]
    BY <2>1, <2>2 DEF Await, TypeOK
  <2>4. Quiet /\ UNCHANGED <<state, conn, attempts, timers, connOpen, connHooks, chanHooks, consuming,
                             chanEvents, connEvents, faults>>
    BY <1>4 DEF CreateOk, timerVars, eventVars, countVars
  <2>5. connEvents = 0 /\ \A g \in Chans : chanEvents[g] = 0
    BY <1>q, <2>4
  <2>6. tasks[t].on = conn /\ conn \in connOpen
    BY <1>4, <2>1, <2>5 DEF CreateOk, RecreationOK, Answers, OnConn, ConnAnswers
  <2>7. chanOf'[h] = conn /\ conn # None
    BY <1>n, <2>2, <2>6 DEF TypeOK
  <2>8. faults <= 2 => OneConnection /\ NoChannelListener /\ Watched
    BY <1>a, <2>1 DEF RecreationOK, Guarded
  <2>9. ~ Serving'
    BY <2>2, <2>4 DEF Serving, Nested
  <2>10. (OneConnection => OneConnection') /\ (NoChannelListener => NoChannelListener')
         /\ (Watched => Watched')
    BY <2>4 DEF OneConnection, NoChannelListener, Watched
  <2>11. RecreationOK(t)'
    <3>1. ~ Rejected(t)'
      BY <2>3, <2>7 DEF Rejected, OnConn, OnChan, ChanOpen
    <3> QED BY <2>1, <2>2, <2>3, <2>4, <2>5, <2>8, <2>10, <3>1 DEF RecreationOK
  <2>12. NoAttempt' /\ ~ NoRecreation'
    BY <2>1, <2>3 DEF NoAttempt, NoRecreation
  <2>13. faults <= 2 => Guarded'
    BY <2>2, <2>4, <2>7, <2>8, <2>9, <2>10 DEF Guarded, NoChannelListener
  <2>14. \A s \in Tasks : tasks'[s].kind = "recreate" => s = t
    BY <2>1, <2>3
  <2> QED BY <1>a, <2>4, <2>5, <2>6, <2>10, <2>11, <2>12, <2>13, <2>14 DEF Running
<1>5. ASSUME NEW t \in Tasks, DeclareOk(t) \/ ConsumeOk(t)
      PROVE  /\ tasks[t].kind = "recreate" /\ RecreationOK(t)
             /\ \A s \in Tasks : s # t => tasks[s].kind \notin {"attempt", "recreate"}
             /\ tasks[t].on = chan /\ chan \in Chans /\ ChanOpen(chan)
             /\ connEvents = 0 /\ ~ Reported /\ \A h \in Chans : chanEvents[h] = 0
  <2>1. /\ tasks[t].kind = "recreate" /\ RecreationOK(t)
        /\ \A s \in Tasks : s # t => tasks[s].kind \notin {"attempt", "recreate"}
    BY <1>5, <1>k DEF DeclareOk, ConsumeOk, SetupPcs
  <2>2. Quiet /\ tasks[t].pc \in {"declare", "consume"} /\ Answers(t)
    BY <1>5 DEF DeclareOk, ConsumeOk
  <2>3. tasks[t].on = chan
    BY <2>1, <2>2 DEF RecreationOK
  <2>4. ChanOpen(chan)
    BY <2>2, <2>3 DEF Answers, OnConn, ChanAnswers
  <2> QED BY <1>q, <2>1, <2>2, <2>3, <2>4 DEF ChanOpen
<1>6. ASSUME NEW t \in Tasks, DeclareOk(t) PROVE Running'
  <2>1. /\ tasks[t].kind = "recreate" /\ RecreationOK(t)
        /\ \A s \in Tasks : s # t => tasks[s].kind \notin {"attempt", "recreate"}
        /\ tasks[t].on = chan /\ chan \in Chans /\ ChanOpen(chan)
        /\ connEvents = 0 /\ \A h \in Chans : chanEvents[h] = 0
    BY <1>5, <1>6
  <2>2. /\ Await(t, tasks[t].kind, "consume", chan, FALSE) /\ UNCHANGED <<state, attempts, timers>>
    BY <1>6, <1>n, <2>1 DEF DeclareOk, timerVars
  <2>3. /\ tasks'[t].kind = "recreate" /\ tasks'[t].pc = "consume" /\ tasks'[t].on = chan
        /\ \A s \in Tasks : s # t => tasks'[s] = tasks[s]
    BY <2>1, <2>2 DEF Await, TypeOK
  <2>4. UNCHANGED <<conn, chan, connOpen, connHooks, chanOf, chanHooks, consuming, chanEvents, connEvents, faults>>
    BY <1>6 DEF DeclareOk, brokerVars, eventVars, countVars
  <2>5. (OneConnection => OneConnection') /\ (NoChannelListener => NoChannelListener')
        /\ (Guarded => Guarded')
    BY <2>4 DEF OneConnection, NoChannelListener, Guarded, Watched, Serving, ChanOpen
  <2>6. RecreationOK(t)'
    <3>1. ~ Rejected(t)'
      BY <2>1, <2>3, <2>4 DEF Rejected, OnConn, OnChan, ChanOpen
    <3> QED BY <2>1, <2>3, <2>4, <2>5, <3>1 DEF RecreationOK
  <2>7. NoAttempt' /\ ~ NoRecreation' /\ \A s \in Tasks : tasks'[s].kind = "recreate" => s = t
    BY <2>1, <2>3 DEF NoAttempt, NoRecreation
  <2> QED BY <1>a, <2>1, <2>2, <2>4, <2>5, <2>6, <2>7 DEF Running
<1>7. ASSUME NEW t \in Tasks, ConsumeOk(t) PROVE Running'
  <2>1. /\ tasks[t].kind = "recreate" /\ RecreationOK(t)
        /\ \A s \in Tasks : s # t => tasks[s].kind \notin {"attempt", "recreate"}
        /\ tasks[t].on = chan /\ chan \in Chans /\ ChanOpen(chan)
        /\ connEvents = 0 /\ \A h \in Chans : chanEvents[h] = 0
    BY <1>5, <1>7
  <2>2. Done(t) /\ UNCHANGED <<state, attempts, timers, connHooks>>
    BY <1>7, <1>n, <2>1 DEF ConsumeOk, timerVars
  <2>3. \A s \in Tasks : tasks'[s].kind \notin {"attempt", "recreate"}
    <3>1. tasks'[t].kind = "none" /\ \A s \in Tasks : s # t => tasks'[s] = tasks[s]
      BY <2>2, DoneEffect
    <3> QED BY <2>1, <3>1
  <2>4. /\ UNCHANGED <<conn, chan, connOpen, chanOf, chanEvents, connEvents, faults>>
        /\ chanHooks' = [chanHooks EXCEPT ![chan] = @ + 1] /\ chan \in consuming'
    BY <1>7, <2>1 DEF ConsumeOk, eventVars, countVars
  <2>5. Serving'
    BY <2>1, <2>4 DEF Serving, ChanOpen
  <2>6. faults <= 2 => Guarded'
    <3> SUFFICES ASSUME faults <= 2 PROVE Guarded'
      OBVIOUS
    <3>1. Guarded /\ NoChannelListener
      BY <1>a, <2>1 DEF RecreationOK
    <3>2. chanHooks'[chan] = 1 /\ \A h \in Chans : h # chan => chanHooks'[h] = 0
      BY <2>1, <2>4, <3>1 DEF NoChannelListener, TypeOK
    <3> QED BY <2>2, <2>4, <3>1, <3>2 DEF Guarded, Watched
  <2>7. OneConnection => OneConnection'
    BY <2>4 DEF OneConnection
  <2>8. NoAttempt'
    BY <2>3 DEF NoAttempt
  <2> QED BY <1>a, <2>1, <2>2, <2>3, <2>4, <2>5, <2>6, <2>7, <2>8 DEF Running
\* The retry is armed by the failure of a recreation and by the loss of the
\* connection.
<1>r. ASSUME ScheduleReconnection, ~ Reported',
             UNCHANGED <<connOpen, connHooks, chanHooks>>,
             faults' <= 2 => NoChannelListener, NoAttempt',
             \A t \in Tasks : tasks'[t].kind = "recreate" => Rejected(t)',
             faults' <= 1 => connOpen = {}, faults <= faults'
      PROVE  Armed'
  <2>1. attempts' = 1 /\ \E i \in Timers : timers' = {i}
    BY <1>a, <1>r, ScheduleOnce
  <2>2. Quietly'
    BY <1>r, <2>1 DEF Quietly, NoChannelListener
  <2>3. faults' <= 2 => Watched'
    BY <1>0, <1>a, <1>r DEF Guarded, Watched
  <2> QED BY <1>r, <2>1, <2>2, <2>3 DEF Armed
<1>8. ASSUME NEW t \in Tasks, SetupFails(t) PROVE Armed'
  <2>1. /\ tasks[t].kind = "recreate" /\ RecreationOK(t)
        /\ \A s \in Tasks : s # t => tasks[s].kind \notin {"attempt", "recreate"}
        /\ tasks[t].pc \in SetupPcs
    BY <1>8, <1>k DEF SetupFails, SetupPcs
  <2>2. /\ ScheduleReconnection /\ tasks'[t].kind = "none"
        /\ \A s \in Tasks : s # t => tasks'[s] = tasks[s]
    BY <1>8, <2>1, RecreationFails DEF SetupFails
  <2>3. /\ Drained /\ UNCHANGED <<connOpen, connHooks, chanHooks, chanEvents>>
    BY <1>8 DEF SetupFails, brokerVars, eventVars
  <2>4. connEvents = 0 /\ ~ Reported'
    BY <2>3 DEF Drained, Reported
  <2>5. \/ ~ Answers(t) /\ faults' = faults
        \/ faults' = faults + 1
    BY <1>8 DEF SetupFails, Fault, NoFault
  <2>6. ~ Answers(t) => Rejected(t)
    <3>1. CASE tasks[t].pc = "create"
      BY <1>w, <3>1 DEF Answers, OnConn, ConnAnswers, Rejected
    <3>2. CASE tasks[t].pc \in {"declare", "consume"}
      <4>1. tasks[t].pc \in OnChan /\ tasks[t].pc \notin OnConn
        BY <3>2 DEF OnConn, OnChan
      <4>2. ASSUME ChanOpen(tasks[t].on) PROVE ChanAnswers(tasks[t].on)
        BY <1>w, <4>2 DEF ChanAnswers, ConnAnswers, ChanOpen, Nested
      <4> QED BY <4>1, <4>2 DEF Answers, Rejected
    <3> QED BY <2>1, <3>1, <3>2 DEF SetupPcs
  <2>7. faults' >= 2 /\ faults <= faults'
    BY <1>0, <2>1, <2>4, <2>5, <2>6 DEF RecreationOK
  <2>8. faults' <= 2 => NoChannelListener
    BY <1>0, <2>1, <2>7 DEF RecreationOK
  <2>9. NoAttempt' /\ \A s \in Tasks : tasks'[s].kind # "recreate"
    BY <2>1, <2>2 DEF NoAttempt
  <2>10. ~ (faults' <= 1)
    BY <1>0, <2>7
  <2> QED BY <1>r, <2>2, <2>3, <2>4, <2>7, <2>8, <2>9, <2>10
<1>9. CASE OnConnectionClose
  <2>1. /\ connEvents > 0 /\ (\A h \in Chans : chanEvents[h] = 0) /\ ScheduleReconnection
        /\ UNCHANGED <<tasks, connOpen, connHooks, chanOf, chanHooks, chanEvents, faults>>
    BY <1>9, <1>0 DEF OnConnectionClose, brokerVars, countVars
  <2>2. ~ Reported' /\ NoAttempt'
    BY <1>a, <2>1 DEF Reported, NoAttempt
  <2>3. ASSUME NEW t \in Tasks, tasks'[t].kind = "recreate" PROVE Rejected(t)'
    <3>1. Rejected(t)
      BY <1>a, <2>1, <2>3 DEF RecreationOK
    <3> QED BY <2>1, <3>1 DEF Rejected, ChanOpen
  <2>4. Armed'
    BY <1>r, <1>0, <1>a, <2>1, <2>2, <2>3
  <2> QED BY <2>4

<1>10. CASE OnChannelClose
  <2>1. PICK h \in Chans : chanEvents[h] > 0 /\ chanEvents' = [chanEvents EXCEPT ![h] = @ - 1]
    BY <1>10 DEF OnChannelClose, Lowest
  <2>2. ReportOK(h)
    BY <1>a, <2>1
  <2>3. \A g \in Chans : chanEvents'[g] = 0
    <3>1. chanEvents[h] = 1 /\ \A g \in Chans : chanEvents[g] > 0 => g = h
      BY <2>2 DEF ReportOK
    <3>2. \A g \in Chans : chanEvents[g] \in Nat
      BY DEF TypeOK
    <3> QED BY <2>1, <3>1, <3>2 DEF TypeOK
  <2>4. /\ chan' = None /\ Recreate
        /\ UNCHANGED <<state, conn, attempts, timers, connOpen, connHooks, chanOf, chanHooks,
                       connEvents, lost, faults>>
    BY <1>10 DEF OnChannelClose, timerVars, brokerVars, countVars
  <2>5. ~ Serving'
    BY <1>n, <2>4 DEF Serving, ChanOpen
  <2>6. (OneConnection => OneConnection') /\ (NoChannelListener => NoChannelListener')
        /\ (Watched => Watched')
    BY <2>4 DEF OneConnection, NoChannelListener, Watched
  <2>7. faults <= 2 => Guarded'
    BY <1>a, <1>n, <2>2, <2>4, <2>5, <2>6 DEF Guarded, ReportOK, NoChannelListener
  <2>8. NoRecreation /\ (connEvents > 0 => conn = lost) /\ (connEvents = 0 => conn \in connOpen) /\ faults >= 1
    BY <1>0, <2>2 DEF ReportOK
  <2>9. connEvents = 0 => conn # lost /\ conn # None
    BY <1>n, <2>8 DEF Unhooked, TypeOK
  <2>10. \/ UNCHANGED tasks /\ connEvents # 0
         \/ \E t \in Tasks : Await(t, "recreate", "create", conn, FALSE)
    BY <1>0, <2>4, <2>9 DEF Recreate, Lowest, Free
  <2>11. CASE UNCHANGED tasks /\ connEvents # 0
    <3>1. NoAttempt' /\ NoRecreation'
      BY <1>a, <2>8, <2>11 DEF NoAttempt, NoRecreation
    <3> QED BY <1>a, <2>3, <2>4, <2>6, <2>7, <2>11, <3>1 DEF Running, NoRecreation
  <2>12. ASSUME NEW t \in Tasks, Await(t, "recreate", "create", conn, FALSE) PROVE Running'
    <3>1. /\ tasks'[t].kind = "recreate" /\ tasks'[t].pc = "create" /\ tasks'[t].on = conn
          /\ \A s \in Tasks : s # t => tasks'[s] = tasks[s]
      BY <2>12 DEF Await, TypeOK
    <3>2. NoAttempt' /\ ~ NoRecreation' /\ \A s \in Tasks : tasks'[s].kind = "recreate" => s = t
      BY <1>a, <2>8, <3>1 DEF NoAttempt, NoRecreation
    <3>3. Rejected(t)' <=> conn \notin connOpen
      BY <2>4, <3>1 DEF Rejected, OnConn, OnChan
    <3>4. connEvents > 0 => Rejected(t)'
      BY <2>8, <3>3 DEF Unhooked
    <3>5. faults <= 2 => OneConnection /\ NoChannelListener
      BY <2>2 DEF ReportOK
    <3>6. RecreationOK(t)'
      BY <1>0, <2>4, <2>6, <2>8, <3>1, <3>3, <3>4, <3>5 DEF RecreationOK
    <3> QED BY <1>a, <2>3, <2>4, <2>6, <2>7, <2>8, <3>2, <3>6 DEF Running
  <2> QED BY <2>10, <2>11, <2>12
<1>11. ASSUME NEW c \in Conns, ConnDrop(c) PROVE Running'
  <2>1. /\ Quiet /\ c \in connOpen /\ faults' = faults + 1 /\ LoseConn(c)
        /\ UNCHANGED <<state, conn, chan, attempts, timers, tasks>>
    BY <1>11 DEF ConnDrop, Fault, thisVars, timerVars
  <2>2. connEvents = 0 /\ ~ Reported /\ (\A h \in Chans : chanEvents[h] = 0) /\ faults <= 2
    BY <1>0, <1>q, <2>1
  <2>3. Guarded
    BY <1>a, <2>2
  <2>4. /\ connOpen' = connOpen \ {c} /\ lost' = c
        /\ connEvents' = connHooks[c] /\ connEvents' > 0
        /\ \A d \in Conns : d # c => connHooks'[d] = connHooks[d]
    BY <2>1, <2>3 DEF LoseConn, Guarded, Watched, TypeOK
  <2>5. \A h \in Chans : /\ chanOf'[h] = IF chanOf[h] = c THEN None ELSE chanOf[h]
                         /\ chanHooks'[h] = IF chanOf[h] = c THEN 0 ELSE chanHooks[h]
                         /\ chanEvents'[h] = IF chanOf[h] = c THEN chanHooks[h] ELSE 0
    BY <2>1 DEF LoseConn
  <2>6. Watched'
    BY <2>3, <2>4 DEF Guarded, Watched, TypeOK
  <2>7. Serving' => Serving
    BY <1>n, <2>1, <2>5 DEF Serving, ChanOpen, LoseConn
  <2>8. Serving' => chanHooks'[chan] > 0
    <3> SUFFICES ASSUME Serving' PROVE chanHooks'[chan] > 0
      OBVIOUS
    <3>1. chan \in Chans /\ chanOf'[chan] # None
      BY <2>1 DEF Serving, ChanOpen
    <3> QED BY <1>n, <2>3, <2>5, <2>7, <3>1 DEF Guarded
  <2>9. Guarded'
    BY <1>n, <2>1, <2>3, <2>5, <2>6, <2>8 DEF Guarded
  <2>10. OneConnection => OneConnection' /\ c = conn
    BY <2>1, <2>4 DEF OneConnection
  <2>11. NoAttempt' /\ \A t \in Tasks : tasks'[t] = tasks[t]
    BY <1>a, <2>1 DEF NoAttempt
  <2>12. NoChannelListener => NoChannelListener'
    BY <2>5 DEF NoChannelListener
  <2>13. ASSUME NEW t \in Tasks, tasks[t].kind = "recreate" PROVE RecreationOK(t)'
    <3>1. /\ RecreationOK(t) /\ OneConnection /\ NoChannelListener /\ c = conn
      BY <1>a, <2>2, <2>10, <2>13 DEF RecreationOK
    <3>2. tasks[t].pc \in SetupPcs
      BY <2>13, UsedKinds
    <3>3. CASE tasks[t].pc = "create"
      <4>1. tasks[t].on = c
        BY <2>2, <3>1, <3>3 DEF RecreationOK
      <4>2. Rejected(t)'
        BY <2>4, <2>11, <3>3, <4>1 DEF Rejected, OnConn
      <4> QED BY <1>0, <2>1, <2>4, <2>10, <2>11, <2>12, <3>1, <3>3, <4>2 DEF RecreationOK
    <3>4. CASE tasks[t].pc \in {"declare", "consume"}
      <4>1. tasks[t].on = chan
        BY <3>1, <3>4 DEF RecreationOK
      <4>2. ~ ChanOpen(chan)'
        BY <1>n, <2>1, <2>3, <2>5, <3>1 DEF Guarded, ChanOpen
      <4>3. Rejected(t)'
        BY <2>1, <2>11, <3>4, <4>1, <4>2 DEF Rejected, OnChan, ChanOpen
      <4> QED BY <1>0, <2>1, <2>4, <2>10, <2>11, <2>12, <3>1, <3>4, <4>1, <4>3 DEF RecreationOK
    <3> QED BY <3>2, <3>3, <3>4 DEF SetupPcs
  <2>14. faults' <= 2 => NoChannelListener'
    <3> SUFFICES ASSUME faults' <= 2, NEW h \in Chans PROVE chanHooks'[h] = 0
      BY DEF NoChannelListener
    <3>1. c = conn
      BY <1>0, <1>a, <2>1, <2>10
    <3>2. chanHooks[h] > 0 => chanOf[h] \in {None, c}
      BY <2>3, <3>1 DEF Guarded
    <3>3. chanHooks[h] > 0 => chanOf[h] = c
      BY <3>2 DEF Unhooked
    <3>4. chanHooks[h] \in Nat
      BY DEF TypeOK
    <3> QED BY <2>5, <3>3, <3>4
  <2>15. ASSUME NEW h \in Chans, chanEvents'[h] > 0 PROVE ReportOK(h)'
    <3>1. chanOf[h] = c /\ chanHooks[h] > 0 /\ chanEvents'[h] = chanHooks[h]
      BY <2>5, <2>15
    <3>2. h = chan /\ chanHooks[h] = 1 /\ chanOf[h] = conn
      BY <1>n, <2>3, <3>1 DEF Guarded
    <3>3. \A g \in Chans : chanEvents'[g] > 0 => g = h
      BY <2>3, <2>5, <3>2 DEF Guarded
    <3>4. NoRecreation'
      BY <1>a, <2>2, <2>11, <3>1 DEF RecreationOK, NoRecreation, NoChannelListener
    <3>5. conn' = lost'
      BY <2>1, <2>4, <3>1, <3>2
    <3>6. faults' <= 2 => OneConnection'
      BY <1>0, <1>a, <2>1, <2>10
    <3> QED BY <1>0, <2>1, <2>4, <2>14, <3>1, <3>2, <3>3, <3>4, <3>5, <3>6 DEF ReportOK
  <2>16. faults' <= 1 => OneConnection' /\ connOpen' = {}
    <3> SUFFICES ASSUME faults' <= 1 PROVE OneConnection' /\ connOpen' = {}
      OBVIOUS
    <3>1. OneConnection
      BY <1>0, <1>a, <2>1
    <3> QED BY <2>4, <2>10, <3>1 DEF OneConnection
  <2> QED BY <1>a, <2>1, <2>4, <2>9, <2>11, <2>13, <2>14, <2>15, <2>16 DEF Running
<1>12. ASSUME NEW h \in Chans, ChanDrop(h) PROVE Running'
  <2>1. /\ Quiet /\ chanOf[h] # None /\ faults' = faults + 1 /\ LoseChan(h)
        /\ UNCHANGED <<state, conn, chan, attempts, timers, tasks>>
    BY <1>12 DEF ChanDrop, Fault, thisVars, timerVars
  <2>2. connEvents = 0 /\ ~ Reported /\ (\A g \in Chans : chanEvents[g] = 0) /\ faults <= 2
    BY <1>0, <1>q, <2>1
  <2>3. Guarded /\ conn \in connOpen
    BY <1>a, <2>2
  <2>4. /\ UNCHANGED <<connOpen, connHooks, connEvents>>
        /\ consuming' = consuming \ {h}
        /\ chanOf'[h] = None /\ chanHooks'[h] = 0 /\ chanEvents'[h] = chanHooks[h]
        /\ \A g \in Chans : g # h => /\ chanOf'[g] = chanOf[g] /\ chanHooks'[g] = chanHooks[g]
                                     /\ chanEvents'[g] = 0
    BY <2>1, <2>2 DEF LoseChan, TypeOK
  <2>5. (OneConnection => OneConnection') /\ (NoChannelListener => NoChannelListener')
    BY <2>1, <2>4 DEF OneConnection, NoChannelListener
  <2>6. Serving' <=> Serving /\ chan # h
    BY <2>1, <2>4 DEF Serving, ChanOpen
  <2>7. Watched'
    BY <2>3, <2>4 DEF Guarded, Watched
  <2>8. Guarded'
    BY <1>n, <2>1, <2>3, <2>4, <2>6, <2>7 DEF Guarded, Serving, ChanOpen
  <2>9. NoAttempt' /\ \A t \in Tasks : tasks'[t] = tasks[t]
    BY <1>a, <2>1 DEF NoAttempt
  <2>10. ASSUME NEW t \in Tasks, tasks[t].kind = "recreate" PROVE RecreationOK(t)'
    BY <1>0, <1>a, <2>1, <2>2, <2>4, <2>5, <2>9, <2>10 DEF RecreationOK
  <2>11. ASSUME NEW g \in Chans, chanEvents'[g] > 0 PROVE ReportOK(g)'
    <3>1. g = h /\ chanHooks[h] > 0
      BY <2>4, <2>11
    <3>2. h = chan /\ chanHooks[h] = 1 /\ \A x \in Chans : chanHooks[x] > 0 => x = h
      BY <2>3, <3>1 DEF Guarded
    <3>3. NoRecreation'
      BY <1>a, <2>2, <2>9, <3>1 DEF RecreationOK, NoRecreation, NoChannelListener
    <3>4. NoChannelListener'
      <4>1. \A x \in Chans : x # h => ~ (chanHooks[x] > 0) /\ chanHooks[x] \in Nat
        BY <3>2 DEF TypeOK
      <4> QED BY <2>4, <4>1 DEF NoChannelListener
    <3>5. faults' <= 2 => OneConnection'
      BY <1>0, <1>a, <2>1, <2>5
    <3>6. \A x \in Chans : chanEvents'[x] > 0 => x = h
      BY <2>4
    <3> QED BY <1>0, <2>1, <2>2, <2>3, <2>4, <3>1, <3>2, <3>3, <3>4, <3>5, <3>6 DEF ReportOK
  <2>12. Serving' \/ Reported' \/ ~ NoRecreation'
    <3>1. CASE Serving /\ chan # h
      BY <2>6, <3>1
    <3>2. CASE Serving /\ chan = h
      <4>1. chanEvents'[h] > 0
        BY <2>3, <2>4, <3>2 DEF Guarded
      <4> QED BY <4>1 DEF Reported
    <3>3. CASE ~ NoRecreation
      BY <2>9, <3>3 DEF NoRecreation
    <3> QED BY <1>a, <2>2, <3>1, <3>2, <3>3
  <2>13. faults' <= 1 => OneConnection'
    BY <1>0, <1>a, <2>1, <2>5
  <2> QED BY <1>a, <2>1, <2>2, <2>3, <2>4, <2>8, <2>9, <2>10, <2>11, <2>12, <2>13 DEF Running
<1> QED
  BY <1>0, <1>2, <1>3, <1>4, <1>6, <1>7, <1>8, <1>9, <1>10, <1>11, <1>12
     DEF Next, Step, Progress, Listener

\* build() hands over a connector that runs with its retry unused.
LEMMA LimitHandsOver ==
    ASSUME TypeOK, StartInv, FirstBuild, Nested, NEW t \in Tasks, ConsumeOk(t), ~ started, LimitedUse'
    PROVE  UsedOnce' /\ Running'
<1>n. None \notin Conns /\ None \notin Chans
  BY IdentityAssumption
<1>1. builds = 1 /\ started'
  BY DEF ConsumeOk, LimitedUse, countVars
<1>2. /\ chan # None /\ tasks[t].kind # "recreate" /\ ~ intentional
      /\ Connected(t)
  BY <1>1 DEF ConsumeOk
<1>3. tasks[t].kind = "build" /\ tasks[t].pc = "consume"
  <2>1. Connected(t) => started' = (started \/ tasks[t].kind = "build")
    BY DEF Connected
  <2> QED BY <1>1, <1>2, <2>1 DEF ConsumeOk
<1>4. NoListener /\ OneBuild /\ (\A s \in Tasks : BuildOK(s)) /\ attempts = 0 /\ OneConnection
  BY <1>1, <1>2, <1>3 DEF StartInv, Starting, Alone, FirstBuild, SetupPcs
<1>5. chan = tasks[t].on /\ chan \in Chans /\ ChanOpen(chan) /\ conn # None
  BY <1>3, <1>4 DEF ConsumeOk, BuildOK, Answers, OnConn, ChanAnswers, ChanOpen, SetupPcs
<1>6. chanOf[chan] = conn /\ conn \in connOpen
  BY <1>4, <1>5 DEF ChanOpen, Nested, OneConnection
<1>7. \A s \in Tasks : tasks'[s].kind = "none" /\ tasks'[s].pc = "none"
  <2>1. /\ tasks'[t].kind = "none" /\ tasks'[t].pc = "none"
        /\ \A s \in Tasks : s # t => tasks'[s] = tasks[s]
    BY <1>2, DoneEffect DEF Connected
  <2>2. ASSUME NEW s \in Tasks, s # t PROVE tasks[s].kind = "none" /\ tasks[s].pc = "none"
    BY <1>1, <1>3, <1>4, <2>2 DEF OneBuild, BuildOK
  <2> QED BY <2>1, <2>2
<1>8. UsedOnce'
  BY <1>2, <1>7 DEF ConsumeOk, UsedOnce, InUseOK, CleanupPcs
<1>9. UNCHANGED <<chan, conn, connOpen, chanOf, chanEvents, connEvents, timers>>
  BY <1>2 DEF ConsumeOk, Connected, eventVars, timerVars
<1>10. /\ state' = "connected" /\ attempts' = 0
       /\ connHooks' = [connHooks EXCEPT ![conn] = @ + 1]
       /\ chanHooks' = [chanHooks EXCEPT ![chan] = @ + 1]
       /\ chan \in consuming'
  BY <1>2, <1>3, <1>4, <1>5, <1>6 DEF ConsumeOk, Connected
<1>11. /\ chanHooks'[chan] = 1 /\ \A h \in Chans : h # chan => chanHooks'[h] = 0
       /\ connHooks'[conn] = 1
  BY <1>4, <1>5, <1>6, <1>10 DEF NoListener, TypeOK
<1>12. Serving' /\ OneConnection'
  BY <1>4, <1>5, <1>9, <1>10 DEF Serving, ChanOpen, OneConnection
<1>13. Guarded'
  BY <1>4, <1>6, <1>9, <1>11 DEF Guarded, Watched, OneConnection
<1>14. timers' = {} /\ connEvents' = 0 /\ \A h \in Chans : chanEvents'[h] = 0
  BY <1>4, <1>9 DEF NoListener
<1>15. Running'
  BY <1>6, <1>7, <1>9, <1>10, <1>12, <1>13, <1>14 DEF Running, NoAttempt
<1> QED BY <1>8, <1>15

\* Each phase leads to the next, and build() to the first.
LEMMA LimitStep ==
    ASSUME TypeOK, TypeOK', StartInv, FirstBuild, Nested, Unhooked, LimitInv, Next
    PROVE  LimitInv'
<1> SUFFICES ASSUME LimitedUse' PROVE UsedOnce' /\ LimitPhase'
  BY DEF LimitInv
<1>1. ASSUME NEW t \in Tasks PROVE ~ Build(t) /\ ~ Close(t)
  BY <1>1 DEF Build, Close, LimitedUse
<1>2. /\ UNCHANGED <<builds, config>> /\ faults <= faults'
      /\ started' = started \/ \E t \in Tasks : ConsumeOk(t)
  BY <1>1, HistoryStep
<1>3. CASE ~ started
  <2>1. PICK t \in Tasks : ConsumeOk(t)
    BY <1>2, <1>3 DEF LimitedUse
  <2> QED BY <1>3, <2>1, LimitHandsOver DEF LimitPhase
<1>4. CASE started
  <2>1. UsedOnce /\ LimitPhase
    BY <1>2, <1>4 DEF LimitInv, LimitedUse, ReconnectEnabled, MaxRetries, TypeOK
  <2>2. UsedOnce'
    BY <2>1, UsedOnceStep
  <2>3. CASE Running
    BY <2>1, <2>2, <2>3, RunningStep DEF LimitPhase
  <2>4. CASE Armed
    BY <2>1, <2>2, <2>4, ArmedStep DEF LimitPhase
  <2>5. CASE GaveUp
    BY <2>1, <2>2, <2>5, GaveUpStep DEF LimitPhase
  <2>6. ASSUME NEW t \in Tasks, Connecting(t) PROVE LimitPhase'
    BY <2>1, <2>6, ConnectingStep DEF LimitPhase
  <2>7. ASSUME NEW t \in Tasks, SettingUp(t) PROVE LimitPhase'
    BY <2>1, <2>7, SettingUpStep DEF LimitPhase
  <2>8. ASSUME NEW t \in Tasks, Ending(t) PROVE LimitPhase'
    BY <2>1, <2>8, EndingStep DEF LimitPhase
  <2> QED BY <2>1, <2>2, <2>3, <2>4, <2>5, <2>6, <2>7, <2>8 DEF LimitPhase
<1> QED BY <1>3, <1>4 DEF TypeOK

\* A connector with one retry gives up only after using it: up to three losses
\* or refusals, wherever they fall and however the listeners, the recreation of
\* the channel and the attempt interleave, at rest without a pending retry it
\* consumes, or has made its attempt and reports "disconnected".
THEOREM LimitedGivesUpLast == Spec => []GivesUpLast
<1> DEFINE Inv == StartInv /\ FirstBuild /\ Nested /\ Unhooked /\ LimitInv
<1>1. Init => Inv
  <2> SUFFICES ASSUME Init PROVE Inv
    OBVIOUS
  <2>1. \A t \in Tasks : tasks[t] = NoTask
    BY DEF Init
  <2>2. StartInv /\ FirstBuild
    BY <2>1 DEF Init, StartInv, Alone, NoListener, OneBuild, BuildOK, NoTask, FirstBuild
  <2>3. Nested /\ Unhooked
    BY DEF Init, Nested, Unhooked
  <2>4. LimitInv
    BY DEF Init, LimitInv, LimitedUse
  <2> QED BY <2>2, <2>3, <2>4
<1>2. TypeOK /\ TypeOK' /\ Inv /\ [Next]_vars => Inv'
  <2> SUFFICES ASSUME TypeOK, TypeOK', Inv, [Next]_vars PROVE Inv'
    OBVIOUS
  <2>1. CASE Next
    BY <2>1, StartStep, FirstBuildStep, NestedStep, UnhookedStep, LimitStep
  <2>2. CASE UNCHANGED vars
    <3>0. UNCHANGED <<state, intentional, conn, chan, attempts, timers, tasks, connOpen, connHooks, chanOf,
                      chanHooks, consuming, chanEvents, connEvents, lost, started, builds, faults, config>>
      BY <2>2 DEF vars, thisVars, timerVars, brokerVars, eventVars, countVars
    <3>1. StartInv' /\ FirstBuild'
      BY <3>0 DEF StartInv, Starting, Alone, NoListener, OneBuild, BuildOK, FirstBuild, OneConnection
    <3>2. Nested' /\ Unhooked'
      BY <3>0 DEF Nested, Unhooked
    <3>3. /\ LimitedUse' = LimitedUse /\ NoAttempt' = NoAttempt /\ NoRecreation' = NoRecreation
          /\ OneConnection' = OneConnection /\ NoChannelListener' = NoChannelListener
          /\ Watched' = Watched /\ Reported' = Reported /\ Serving' = Serving
          /\ \A t \in Tasks : /\ Rejected(t)' = Rejected(t) /\ SoleAttempt(t)' = SoleAttempt(t)
                              /\ InUseOK(t)' = InUseOK(t)
      BY <3>0 DEF LimitedUse, ReconnectEnabled, MaxRetries, NoAttempt, NoRecreation, OneConnection,
         NoChannelListener, Watched, Reported, Serving, ChanOpen, Rejected, SoleAttempt, InUseOK
    <3>4. Running => Running'
      BY <3>0, <3>3 DEF Running, RecreationOK, ReportOK, Guarded
    <3>5. Quietly => Quietly'
      BY <3>0, <3>3 DEF Quietly
    <3>6. (Armed => Armed') /\ (GaveUp => GaveUp')
      BY <3>0, <3>3, <3>5 DEF Armed, GaveUp
    <3>7. ASSUME NEW t \in Tasks
          PROVE  (Connecting(t) => Connecting(t)') /\ (SettingUp(t) => SettingUp(t)') /\ (Ending(t) => Ending(t)')
      BY <3>0, <3>3, <3>5 DEF Connecting, SettingUp, Ending
    <3>8. LimitPhase => LimitPhase'
      BY <3>4, <3>6, <3>7 DEF LimitPhase
    <3>9. UsedOnce => UsedOnce'
      BY <3>0, <3>3 DEF UsedOnce
    <3> QED BY <3>1, <3>2, <3>3, <3>8, <3>9 DEF LimitInv
  <2> QED BY <2>1, <2>2
<1>3. TypeOK /\ Inv => GivesUpLast
  <2> SUFFICES ASSUME TypeOK, Inv, LimitedUse, Resting, timers = {}
               PROVE  \/ Serving /\ state = "connected"
                      \/ attempts = MaxRetries /\ state = "disconnected"
    BY DEF GivesUpLast, LimitedUse
  <2>1. LimitPhase /\ MaxRetries = 1
    BY DEF LimitInv, LimitedUse
  <2>2. \A t \in Tasks : tasks[t].kind = "none"
    BY DEF Resting, Free
  <2>3. connEvents = 0 /\ ~ Reported
    BY DEF Resting, Quiet, Drained, Reported
  <2>4. NoRecreation /\ ~ Armed /\ \A t \in Tasks : ~ SoleAttempt(t)
    BY <2>2 DEF NoRecreation, Armed, SoleAttempt
  <2>5. Running \/ GaveUp
    BY <2>1, <2>4 DEF LimitPhase, Connecting, SettingUp, Ending
  <2> QED BY <2>1, <2>3, <2>4, <2>5 DEF Running, GaveUp
<1> QED BY <1>1, <1>2, <1>3, TypeCorrect, PTL DEF Spec
=============================================================================

------------------------ MODULE CommonSettingsProofs ------------------------
(***************************************************************************)
(* Proofs about CommonSettings, for every set of users, messages and       *)
(* handlers and every number of faults, losses and crashes: the types, the *)
(* bookkeeping of messages, that the service implements the ledger, and    *)
(* that it keeps the row and the profile of a paced user together.         *)
(***************************************************************************)
EXTENDS CommonSettings, TLAPS

\* A running handler has a message with a user, and only a running handler is
\* attached to a channel.
HandlersOK ==
    \A s \in Slots :
        /\ Busy(s) => handlers[s].msg \in Msgs /\ UserOf[handlers[s].msg] \in Users
        /\ handlers[s].attached => Busy(s)

\* The inductive invariant.
IInv == TypeOK /\ HandlersOK /\ EachInOnePlace

\* What a step can do to the messages.
Keeps    == /\ UNCHANGED queueVars
            /\ \A s \in Slots : /\ handlers'[s].msg = handlers[s].msg
                                /\ handlers'[s].attached = handlers[s].attached
Settles(s) == Ack(s) \/ Nack(s)
Returns  == /\ ready' = ready \cup Delivered
            /\ \A s \in Slots : ~ handlers'[s].attached
            /\ UNCHANGED <<acked, dead, published>>

-----------------------------------------------------------------------------
\* Moving a handler on keeps its type, its message and its channel.
LEMMA GotoType ==
    ASSUME TypeOK, NEW s \in Slots, NEW pc \in {"get", "insert", "update", "save"},
           NEW diff \in SUBSET Fields, NEW try \in 1..Retries, Busy(s),
           Goto(s, pc, diff, try)
    PROVE  /\ handlers' \in [Slots -> Handler]
           /\ \A x \in Slots : /\ handlers'[x].msg = handlers[x].msg
                               /\ handlers'[x].attached = handlers[x].attached
                               /\ handlers'[x].pc # "free" => handlers[x].pc # "free"
                               /\ handlers[x].pc # "free" => handlers'[x].pc # "free"
  <1>1. handlers' = [handlers EXCEPT ![s] = [handlers[s] EXCEPT !.pc = pc, !.diff = diff,
                                                              !.try = try]]
    BY DEF TypeOK, Goto, Handler
  <1>2. /\ handlers'[s] \in Handler /\ handlers'[s].msg = handlers[s].msg
        /\ handlers'[s].attached = handlers[s].attached /\ handlers'[s].pc = pc
    BY <1>1 DEF TypeOK, Handler
  <1>3. \A x \in Slots \ {s} : handlers'[x] = handlers[x]
    BY <1>1 DEF TypeOK
  <1>4. handlers' \in [Slots -> Handler]
    BY <1>1, <1>2, <1>3 DEF TypeOK
  <1> QED BY <1>2, <1>3, <1>4 DEF Busy

\* Settling a message keeps the types.
LEMMA SettleType ==
    ASSUME TypeOK, HandlersOK, NEW s \in Slots, Settles(s)
    PROVE  /\ handlers' \in [Slots -> Handler]
           /\ acked' \in SUBSET Msgs /\ dead' \in SUBSET Msgs
           /\ UNCHANGED <<ready, published>>
           /\ HandlersOK'
  <1>1. handlers' = [handlers EXCEPT ![s] = NoHandler]
    BY DEF Settles, Ack, Nack
  <1>2. NoHandler \in Handler
    BY DEF NoHandler, Handler, Retries
  <1>3. handlers' \in [Slots -> Handler]
    BY <1>1, <1>2 DEF TypeOK
  <1>4. HandlersOK'
    BY <1>1 DEF TypeOK, HandlersOK, Busy, NoHandler
  <1>5. acked' \in SUBSET Msgs /\ dead' \in SUBSET Msgs /\ UNCHANGED <<ready, published>>
    BY DEF Settles, Ack, Nack, TypeOK, HandlersOK
  <1> QED BY <1>3, <1>4, <1>5

-----------------------------------------------------------------------------
\* A step that touches no message keeps the bookkeeping and the ledger.
LEMMA KeepsPlaces ==
    ASSUME EachInOnePlace, Keeps
    PROVE  EachInOnePlace' /\ Delivered' = Delivered
  BY DEF Keeps, EachInOnePlace, Delivered, queueVars

\* Settling moves the message of an attached handler out of the queue's care,
\* and changes nothing for a handler whose channel was lost.
LEMMA SettlesPlaces ==
    ASSUME TypeOK, EachInOnePlace, NEW s \in Slots, Settles(s)
    PROVE  /\ EachInOnePlace'
           /\ handlers[s].attached => Delivered' = Delivered \ {handlers[s].msg}
           /\ ~ handlers[s].attached => Delivered' = Delivered
  <1>1. /\ handlers' \in [Slots -> Handler \cup {NoHandler}]
        /\ ~ handlers'[s].attached
        /\ \A x \in Slots \ {s} : handlers'[x] = handlers[x]
    BY DEF Settles, Ack, Nack, TypeOK, NoHandler
  <1>2. CASE handlers[s].attached
    <2>1. Delivered' = Delivered \ {handlers[s].msg}
      BY <1>1, <1>2 DEF Delivered, EachInOnePlace
    <2>2. handlers[s].msg \in Delivered
      BY <1>2 DEF Delivered
    <2>3. /\ UNCHANGED <<ready, published>>
          /\ \/ acked' = acked \cup {handlers[s].msg} /\ UNCHANGED dead
             \/ dead' = dead \cup {handlers[s].msg} /\ UNCHANGED acked
      BY <1>2 DEF Settles, Ack, Nack
    <2> QED BY <2>1, <2>2, <2>3, <1>1, <1>2 DEF EachInOnePlace
  <1>3. CASE ~ handlers[s].attached
    <2>1. Delivered' = Delivered
      BY <1>1, <1>3 DEF Delivered
    <2>2. UNCHANGED <<ready, acked, dead, published>>
      BY <1>3 DEF Settles, Ack, Nack
    <2> QED BY <2>1, <2>2, <1>1, <1>3 DEF EachInOnePlace
  <1> QED BY <1>2, <1>3

\* A lost channel and a crash put back what was delivered, all of it and once.
LEMMA ReturnsPlaces ==
    ASSUME EachInOnePlace, Returns
    PROVE  EachInOnePlace' /\ Delivered' = {}
  <1>1. Delivered' = {}
    BY DEF Returns, Delivered
  <1> QED BY <1>1 DEF Returns, EachInOnePlace

\* Publishing adds a message nobody had.
LEMMA PublishPlaces ==
    ASSUME EachInOnePlace, NEW m \in Msgs, Publish(m)
    PROVE  EachInOnePlace' /\ Delivered' = Delivered
  BY DEF Publish, EachInOnePlace, Delivered

\* Delivering hands one waiting message to one handler, or rejects it.
LEMMA DeliverPlaces ==
    ASSUME IInv, NEW s \in Slots, NEW m \in Msgs, Deliver(s, m)
    PROVE  /\ EachInOnePlace'
           /\ UserOf[m] = None => Delivered' = Delivered
           /\ UserOf[m] # None => Delivered' = Delivered \cup {m}
  <1> USE DEF IInv
  <1>1. CASE UserOf[m] = None
    <2>1. UNCHANGED <<handlers, acked, published>> /\ dead' = dead \cup {m}
          /\ ready' = ready \ {m} /\ m \in ready
      BY <1>1 DEF Deliver
    <2>2. Delivered' = Delivered
      BY <2>1 DEF Delivered
    <2> QED BY <1>1, <2>1, <2>2 DEF EachInOnePlace
  <1>2. CASE UserOf[m] # None
    <2>1. /\ UNCHANGED <<dead, acked, published>> /\ ready' = ready \ {m} /\ m \in ready
          /\ handlers'[s].msg = m /\ handlers'[s].attached
          /\ \A x \in Slots \ {s} : handlers'[x] = handlers[x]
      BY <1>2 DEF Deliver, TypeOK
    <2>2. ~ handlers[s].attached
      BY DEF Deliver, HandlersOK
    <2>3. Delivered' = Delivered \cup {m}
      BY <2>1, <2>2 DEF Delivered
    <2>4. m \notin Delivered
      BY <2>1 DEF EachInOnePlace
    <2>5. \A x \in Slots : handlers[x].attached => handlers[x].msg # m
      BY <2>4 DEF Delivered
    <2> QED BY <1>2, <2>1, <2>2, <2>3, <2>4, <2>5 DEF EachInOnePlace
  <1> QED BY <1>1, <1>2

-----------------------------------------------------------------------------
\* A handler that goes on keeps the types, its message and the bookkeeping.
LEMMA GotoStep ==
    ASSUME IInv, NEW s \in Slots, NEW pc \in {"get", "insert", "update", "save"},
           NEW diff \in SUBSET Fields, NEW try \in 1..Retries, Busy(s),
           Goto(s, pc, diff, try), UNCHANGED queueVars
    PROVE  handlers' \in [Slots -> Handler] /\ HandlersOK' /\ Keeps
  <1>1. /\ handlers' \in [Slots -> Handler]
        /\ \A x \in Slots : /\ handlers'[x].msg = handlers[x].msg
                            /\ handlers'[x].attached = handlers[x].attached
                            /\ handlers'[x].pc # "free" => handlers[x].pc # "free"
                            /\ handlers[x].pc # "free" => handlers'[x].pc # "free"
    BY GotoType DEF IInv
  <1>2. HandlersOK'
    BY <1>1 DEF IInv, HandlersOK, Busy
  <1> QED BY <1>1, <1>2 DEF Keeps

\* The comparison with the stored row continues with the update or the save.
LEMMA CompareStep ==
    ASSUME IInv, NEW s \in Slots, NEW diff \in SUBSET Fields, Busy(s),
           AfterCompare(s, diff), UNCHANGED queueVars
    PROVE  handlers' \in [Slots -> Handler] /\ HandlersOK' /\ Keeps
  <1>1. 1 \in 1..Retries
    BY DEF Retries
  <1>2. CASE diff = {}
    BY <1>1, <1>2, GotoStep DEF AfterCompare
  <1>3. CASE diff # {}
    BY <1>1, <1>3, GotoStep DEF AfterCompare
  <1> QED BY <1>2, <1>3

\* A failed update is retried or ends the handler.
LEMMA RetryStep ==
    ASSUME IInv, NEW s \in Slots, Busy(s), RetryOrThrow(s)
    PROVE  /\ handlers' \in [Slots -> Handler] /\ HandlersOK'
           /\ acked' \in SUBSET Msgs /\ dead' \in SUBSET Msgs
           /\ ready' \in SUBSET Msgs /\ published' \in SUBSET Msgs
           /\ Keeps \/ Settles(s)
  <1>1. handlers[s].diff \in SUBSET Fields /\ handlers[s].try \in 1..Retries
    BY DEF IInv, TypeOK, Handler
  <1>2. CASE handlers[s].try < Retries
    <2>1. Goto(s, "update", handlers[s].diff, handlers[s].try + 1) /\ UNCHANGED queueVars
      BY <1>2 DEF RetryOrThrow
    <2>2. handlers[s].try + 1 \in 1..Retries
      BY <1>1, <1>2 DEF Retries
    <2>3. handlers' \in [Slots -> Handler] /\ HandlersOK' /\ Keeps
      BY <1>1, <2>1, <2>2, GotoStep
    <2> QED BY <2>1, <2>3 DEF queueVars, IInv, TypeOK
  <1>3. CASE ~ (handlers[s].try < Retries)
    <2>1. Settles(s)
      BY <1>3 DEF RetryOrThrow, Settles
    <2> QED BY <2>1, SettleType DEF IInv, TypeOK
  <1> QED BY <1>2, <1>3

\* What Synapse stores after an update is a profile.
LEMMA AppliedType ==
    ASSUME IInv, NEW s \in Slots, Busy(s)
    PROVE  Applied(s) \in [Users -> Settings]
  <1>1. Payload[handlers[s].msg] \in Settings /\ U(s) \in Users
    BY MessageAssumption DEF IInv, HandlersOK, U
  <1> QED BY <1>1 DEF IInv, TypeOK, Applied, Settings

\* The effects a step can have on the messages.
Effect == \/ Keeps \/ Returns
          \/ \E s \in Slots : Settles(s)
          \/ \E m \in Msgs : Publish(m)
          \/ \E s \in Slots, m \in Msgs : Deliver(s, m)

\* Every step keeps the types and has one of those effects.
LEMMA StepEffect ==
    ASSUME IInv, [Next]_vars
    PROVE  TypeOK' /\ HandlersOK' /\ Effect
  <1>0. env' \in Env
    BY DEF Next, vars, IInv, TypeOK
  <1> USE <1>0
  <1>1. ASSUME NEW m \in Msgs, Publish(m) PROVE TypeOK' /\ HandlersOK' /\ Effect
    <2>1. TypeOK'
      BY <1>1 DEF IInv, TypeOK, Publish, countVars
    <2>2. HandlersOK'
      BY <1>1 DEF IInv, HandlersOK, Busy, Publish
    <2> QED BY <1>1, <2>1, <2>2 DEF Effect
  <1>2. ASSUME NEW s \in Slots, NEW m \in Msgs, Deliver(s, m)
        PROVE  TypeOK' /\ HandlersOK' /\ Effect
    <2>1. CASE UserOf[m] = None
      <3>1. UNCHANGED handlers /\ dead' \in SUBSET Msgs /\ ready' \in SUBSET Msgs
        BY <1>2, <2>1 DEF Deliver, IInv, TypeOK
      <3>2. TypeOK'
        BY <1>2, <3>1 DEF IInv, TypeOK, Deliver, countVars
      <3>3. HandlersOK'
        BY <3>1 DEF IInv, HandlersOK, Busy
      <3> QED BY <1>2, <3>2, <3>3 DEF Effect
    <2>2. CASE UserOf[m] # None
      <3> DEFINE new == [msg |-> m, pc |-> "get", diff |-> {}, try |-> 1, attached |-> TRUE]
      <3>1. handlers' = [handlers EXCEPT ![s] = new] /\ UNCHANGED dead /\ ready' \in SUBSET Msgs
        BY <1>2, <2>2 DEF Deliver, IInv, TypeOK
      <3>2. new \in Handler
        BY DEF Handler, Retries
      <3>3. handlers' \in [Slots -> Handler] /\ handlers'[s] = new
            /\ \A x \in Slots \ {s} : handlers'[x] = handlers[x]
        BY <3>1, <3>2 DEF IInv, TypeOK
      <3>4. UserOf[m] \in Users
        BY <2>2, MessageAssumption
      <3>5. TypeOK'
        BY <1>2, <3>1, <3>3 DEF IInv, TypeOK, Deliver, countVars
      <3>6. HandlersOK'
        BY <3>3, <3>4 DEF IInv, HandlersOK, Busy
      <3> QED BY <1>2, <3>5, <3>6 DEF Effect
    <2> QED BY <2>1, <2>2
  <1>3. ASSUME NEW s \in Slots, GetSettings(s) PROVE TypeOK' /\ HandlersOK' /\ Effect
    <2>1. Busy(s) /\ UNCHANGED <<queueVars, db, profile, countVars>>
      BY <1>3 DEF GetSettings, Busy
    <2>2. 1 \in 1..Retries /\ {} \in SUBSET Fields
          /\ Changed(db[U(s)], Payload[handlers[s].msg]) \in SUBSET Fields
      BY DEF Retries, Changed
    <2>3. handlers' \in [Slots -> Handler] /\ HandlersOK' /\ Keeps
      <3>1. CASE db[U(s)] = None
        BY <1>3, <2>1, <2>2, <3>1, GotoStep DEF GetSettings
      <3>2. CASE db[U(s)] # None
        BY <1>3, <2>1, <2>2, <3>2, CompareStep DEF GetSettings
      <3> QED BY <3>1, <3>2
    <2> QED BY <2>1, <2>3 DEF IInv, TypeOK, queueVars, countVars, Effect
  <1>4. ASSUME NEW s \in Slots, InsertSettings(s) PROVE TypeOK' /\ HandlersOK' /\ Effect
    <2>1. Busy(s) /\ UNCHANGED <<profile, countVars>>
      BY <1>4 DEF InsertSettings, Busy
    <2>2. Payload[handlers[s].msg] \in Settings
      BY <2>1, MessageAssumption DEF IInv, HandlersOK
    <2>3. CASE db[U(s)] = None
      <3>1. /\ db' = [db EXCEPT ![U(s)] = Payload[handlers[s].msg]]
            /\ AfterCompare(s, Fields) /\ UNCHANGED queueVars
        BY <1>4, <2>3 DEF InsertSettings
      <3>2. handlers' \in [Slots -> Handler] /\ HandlersOK' /\ Keeps
        BY <2>1, <3>1, CompareStep
      <3>3. db' \in [Users -> Settings \cup {None}]
        BY <2>2, <3>1 DEF IInv, TypeOK
      <3> QED BY <2>1, <3>1, <3>2, <3>3 DEF IInv, TypeOK, queueVars, countVars, Effect
    <2>4. CASE db[U(s)] # None
      <3>1. Settles(s) /\ UNCHANGED db
        BY <1>4, <2>4 DEF InsertSettings, Settles
      <3> QED BY <2>1, <3>1, SettleType DEF IInv, TypeOK, countVars, Effect
    <2> QED BY <2>3, <2>4
  <1>5. ASSUME NEW s \in Slots, UpdateOk(s) PROVE TypeOK' /\ HandlersOK' /\ Effect
    <2>1. /\ Busy(s) /\ UNCHANGED <<queueVars, db, countVars>> /\ profile' = Applied(s)
          /\ Goto(s, "save", handlers[s].diff, handlers[s].try)
      BY <1>5 DEF UpdateOk, Busy
    <2>2. handlers[s].diff \in SUBSET Fields /\ handlers[s].try \in 1..Retries
      BY DEF IInv, TypeOK, Handler
    <2>3. handlers' \in [Slots -> Handler] /\ HandlersOK' /\ Keeps
      BY <2>1, <2>2, GotoStep
    <2> QED BY <2>1, <2>3, AppliedType DEF IInv, TypeOK, queueVars, countVars, Effect
  <1>6. ASSUME NEW s \in Slots, UpdateRefused(s) PROVE TypeOK' /\ HandlersOK' /\ Effect
    <2>1. Busy(s) /\ RetryOrThrow(s) /\ UNCHANGED <<db, profile, countVars>>
      BY <1>6 DEF UpdateRefused, Busy
    <2> QED BY <2>1, RetryStep DEF IInv, TypeOK, countVars, Effect
  <1>7. ASSUME NEW s \in Slots, UpdateFails(s) PROVE TypeOK' /\ HandlersOK' /\ Effect
    <2>1. /\ Busy(s) /\ RetryOrThrow(s) /\ UNCHANGED <<db, losses, crashes>>
          /\ profile' \in {profile, Applied(s)} /\ Fault
      BY <1>7 DEF UpdateFails, Busy
    <2>2. profile' \in [Users -> Settings] /\ faults' \in Nat
      BY <2>1, AppliedType DEF IInv, TypeOK, Fault
    <2> QED BY <2>1, <2>2, RetryStep DEF IInv, TypeOK, Effect
  <1>8. ASSUME NEW s \in Slots, SaveSettings(s) PROVE TypeOK' /\ HandlersOK' /\ Effect
    <2>1. /\ Busy(s) /\ Settles(s) /\ UNCHANGED <<profile, countVars>>
          /\ db' = [db EXCEPT ![U(s)] = Payload[handlers[s].msg]]
      BY <1>8 DEF SaveSettings, Busy, Settles
    <2>2. db' \in [Users -> Settings \cup {None}]
      BY <2>1, MessageAssumption DEF IInv, TypeOK, HandlersOK
    <2> QED BY <2>1, <2>2, SettleType DEF IInv, TypeOK, countVars, Effect
  <1>9. ASSUME NEW s \in Slots, DbFails(s) PROVE TypeOK' /\ HandlersOK' /\ Effect
    <2>1. Settles(s) /\ UNCHANGED <<db, profile, losses, crashes>> /\ faults' \in Nat
      BY <1>9 DEF DbFails, Settles, Fault, IInv, TypeOK
    <2> QED BY <2>1, SettleType DEF IInv, TypeOK, Effect
  <1>10. CASE ChannelLost
    <2>1. \A s \in Slots : /\ handlers'[s] \in Handler /\ ~ handlers'[s].attached
                           /\ handlers'[s].msg = handlers[s].msg
                           /\ handlers'[s].pc = handlers[s].pc
      BY <1>10 DEF ChannelLost, IInv, TypeOK, Handler
    <2>2. Delivered \subseteq Msgs
      BY DEF Delivered, IInv, HandlersOK
    <2>3. TypeOK'
      BY <1>10, <2>1, <2>2 DEF ChannelLost, IInv, TypeOK
    <2>4. HandlersOK'
      BY <2>1 DEF IInv, HandlersOK, Busy
    <2> QED BY <1>10, <2>1, <2>3, <2>4 DEF ChannelLost, Returns, Effect
  <1>11. CASE Crash
    <2>1. NoHandler \in Handler
      BY DEF NoHandler, Handler, Retries
    <2>2. Delivered \subseteq Msgs
      BY DEF Delivered, IInv, HandlersOK
    <2>3. TypeOK'
      BY <1>11, <2>1, <2>2 DEF Crash, IInv, TypeOK
    <2>4. \A s \in Slots : ~ handlers'[s].attached /\ handlers'[s].pc = "free"
      BY <1>11 DEF Crash, NoHandler
    <2>5. HandlersOK'
      BY <2>4 DEF HandlersOK, Busy
    <2> QED BY <1>11, <2>3, <2>4, <2>5 DEF Crash, Returns, Effect
  <1>12. CASE UNCHANGED vars
    <2>1. TypeOK'
      BY <1>12 DEF vars, queueVars, countVars, IInv, TypeOK
    <2>2. HandlersOK' /\ Keeps
      BY <1>12 DEF vars, queueVars, IInv, HandlersOK, Busy, Keeps
    <2> QED BY <2>1, <2>2 DEF Effect
  <1> QED BY <1>1, <1>2, <1>3, <1>4, <1>5, <1>6, <1>7, <1>8, <1>9, <1>10, <1>11, <1>12
          DEF Next, Happens, Step

\* The inductive invariant holds in every reachable state.
THEOREM Invariance == Spec => []IInv
<1>1. Init => IInv
  <2> SUFFICES ASSUME Init PROVE IInv
    OBVIOUS
  <2>1. NoHandler \in Handler
    BY DEF NoHandler, Handler, Retries
  <2>2. TypeOK
    BY <2>1, EnvAssumption DEF Init, TypeOK, Settings
  <2>3. \A s \in Slots : ~ handlers[s].attached /\ handlers[s].pc = "free"
    BY DEF Init, NoHandler
  <2>4. HandlersOK
    BY <2>3 DEF HandlersOK, Busy
  <2>5. EachInOnePlace
    BY <2>3 DEF Init, EachInOnePlace, Delivered
  <2> QED BY <2>2, <2>4, <2>5 DEF IInv
<1>2. IInv /\ [Next]_vars => IInv'
  <2> SUFFICES ASSUME IInv, [Next]_vars PROVE EachInOnePlace'
    BY StepEffect DEF IInv
  <2>1. TypeOK /\ EachInOnePlace /\ Effect
    BY StepEffect DEF IInv
  <2> QED BY <2>1, KeepsPlaces, ReturnsPlaces, SettlesPlaces, PublishPlaces, DeliverPlaces
          DEF Effect
<1> QED BY <1>1, <1>2, PTL DEF Spec

\* No message is lost or settled twice: each is in exactly one place.
THEOREM OnePlace == Spec => []EachInOnePlace
<1>1. IInv => EachInOnePlace
  BY DEF IInv
<1> QED BY <1>1, Invariance, PTL

\* The service implements the ledger of settled messages.
THEOREM LedgerImplemented == Spec => ImplementsLedger
<1>1. Init => Ledger!Init
  <2> SUFFICES ASSUME Init PROVE Ledger!Init
    OBVIOUS
  <2>1. Delivered = {}
    BY DEF Init, Delivered, NoHandler
  <2> QED BY <2>1 DEF Init, Ledger!Init
<1>2. IInv /\ [Next]_vars => [Ledger!Next]_Ledger!ledgerVars
  <2> SUFFICES ASSUME IInv, [Next]_vars PROVE Ledger!Next \/ UNCHANGED Ledger!ledgerVars
    OBVIOUS
  <2>0. Effect /\ TypeOK /\ EachInOnePlace
    BY StepEffect DEF IInv
  <2>1. CASE Keeps
    BY <2>0, <2>1, KeepsPlaces DEF Keeps, queueVars, Ledger!ledgerVars
  <2>2. CASE Returns
    BY <2>0, <2>2, ReturnsPlaces DEF Returns, Ledger!ledgerVars
  <2>3. ASSUME NEW s \in Slots, Settles(s) PROVE Ledger!Next \/ UNCHANGED Ledger!ledgerVars
    <3>1. CASE ~ handlers[s].attached
      BY <2>0, <2>3, <3>1, SettlesPlaces DEF Settles, Ack, Nack, Ledger!ledgerVars
    <3>2. CASE handlers[s].attached
      <4> DEFINE m == handlers[s].msg
      <4>1. m \in Delivered /\ m \in Msgs
        BY <3>2 DEF Delivered, IInv, HandlersOK
      <4>2. Delivered' = Delivered \ {m}
        BY <2>0, <2>3, <3>2, SettlesPlaces
      <4>3. m \notin ready
        BY <2>0, <4>1 DEF EachInOnePlace
      <4>4. Ledger!Process(m) \/ Ledger!Reject(m)
        BY <2>3, <3>2, <4>1, <4>2, <4>3
           DEF Settles, Ack, Nack, Ledger!Process, Ledger!Reject
      <4> QED BY <4>1, <4>4 DEF Ledger!Next
    <3> QED BY <3>1, <3>2
  <2>4. ASSUME NEW m \in Msgs, Publish(m) PROVE Ledger!Next
    <3>1. Delivered' = Delivered
      BY <2>0, <2>4, PublishPlaces
    <3>2. Ledger!Publish(m)
      BY <2>0, <2>4, <3>1 DEF Publish, EachInOnePlace, Ledger!Publish
    <3> QED BY <3>2 DEF Ledger!Next
  <2>5. ASSUME NEW s \in Slots, NEW m \in Msgs, Deliver(s, m)
        PROVE  Ledger!Next \/ UNCHANGED Ledger!ledgerVars
    <3>1. CASE UserOf[m] = None
      <4>1. Delivered' = Delivered /\ m \in ready /\ m \notin Delivered
        BY <2>0, <2>5, <3>1, DeliverPlaces DEF Deliver, EachInOnePlace
      <4>2. Ledger!Reject(m)
        BY <2>5, <3>1, <4>1 DEF Deliver, Ledger!Reject
      <4> QED BY <4>2 DEF Ledger!Next
    <3>2. CASE UserOf[m] # None
      <4>1. Delivered' = Delivered \cup {m} /\ m \in ready
        BY <2>5, <3>2, DeliverPlaces DEF Deliver
      <4> QED BY <2>5, <3>2, <4>1 DEF Deliver, Ledger!ledgerVars
    <3> QED BY <3>1, <3>2
  <2> QED BY <2>0, <2>1, <2>2, <2>3, <2>4, <2>5 DEF Effect
<1> QED BY <1>1, <1>2, Invariance, PTL DEF Spec, ImplementsLedger, Ledger!Spec

-----------------------------------------------------------------------------
(***************************************************************************)
(* Synchronized when paced.  The publisher paces the messages of a user,   *)
(* so a user has at most one handler.  The row and the profile then agree  *)
(* between two messages, unless one was dead-lettered: then a row may be   *)
(* saved whose update never reached Synapse.  While a message is handled,  *)
(* the invariant says for each await what the profile shows already: the   *)
(* fields outside `diff' before the update, every field before the save.   *)
(***************************************************************************)

Calm == env.paced /\ env.losses = 0 /\ env.crashes = 0

PublishedInOrder ==
    /\ published \subseteq env.msgs
    /\ \A n \in published, k \in env.msgs : k < n => k \in published

\* Only the last message of a user is not settled yet.
OneAtATime ==
    \A m, n \in published :
        UserOf[m] = UserOf[n] /\ n # m /\ ~ Settled(m) => Settled(n) /\ n < m

AllAttached == \A s \in Slots : Busy(s) => handlers[s].attached

\* No message of the user was dead-lettered.
Clean(u) == \A n \in dead : UserOf[n] # u

Agree(u) == \A f \in Fields : db[u][f] # None => profile[u][f] = db[u][f]

IdleAgrees(u) ==
    (\A s \in Slots : Busy(s) => U(s) # u) /\ Clean(u) /\ db[u] # None => Agree(u)

\* The profile shows field f of slot s's message, if the message sets it.
Shows(s, u, f) ==
    Payload[handlers[s].msg][f] # None => profile[u][f] = Payload[handlers[s].msg][f]

HandlerAgrees(s, u) ==
    Busy(s) /\ U(s) = u /\ Clean(u) =>
        /\ handlers[s].pc = "get" => db[u] = None \/ Agree(u)
        /\ handlers[s].pc = "insert" => db[u] = None
        /\ handlers[s].pc = "update"
               => \A f \in Fields : f \notin handlers[s].diff => Shows(s, u, f)
        /\ handlers[s].pc = "save" => \A f \in Fields : Shows(s, u, f)

\* The row holds the last message once all are acknowledged.
LastSaved ==
    \A m \in acked :
        UserOf[m] # None /\ (\A n \in SameUser(m) \cap published : n <= m /\ n \in acked)
            => db[UserOf[m]] = Payload[m]

CalmInv == /\ OneAtATime /\ AllAttached /\ LastSaved
           /\ \A u \in Users : IdleAgrees(u) /\ \A s \in Slots : HandlerAgrees(s, u)

\* A handler that goes on changes only what it waits for.
LEMMA GotoEffect ==
    ASSUME TypeOK, NEW s \in Slots, NEW pc, NEW diff, NEW try, Goto(s, pc, diff, try)
    PROVE  /\ handlers'[s].pc = pc /\ handlers'[s].diff = diff
           /\ handlers'[s].msg = handlers[s].msg
           /\ handlers'[s].attached = handlers[s].attached
           /\ \A x \in Slots \ {s} : handlers'[x] = handlers[x]
  <1>1. handlers' = [handlers EXCEPT ![s] = [handlers[s] EXCEPT !.pc = pc, !.diff = diff,
                                                              !.try = try]]
    BY DEF TypeOK, Goto, Handler
  <1>2. /\ handlers'[s].msg = handlers[s].msg /\ handlers'[s].diff = diff
        /\ handlers'[s].attached = handlers[s].attached /\ handlers'[s].pc = pc
    BY <1>1 DEF TypeOK, Handler
  <1>3. \A x \in Slots \ {s} : handlers'[x] = handlers[x]
    BY <1>1 DEF TypeOK
  <1> QED BY <1>2, <1>3

\* The message of a handler is published and not settled.
LEMMA HandledIsOpen ==
    ASSUME IInv, AllAttached, NEW s \in Slots, Busy(s)
    PROVE  /\ handlers[s].msg \in published /\ handlers[s].msg \in Msgs
           /\ ~ Settled(handlers[s].msg) /\ handlers[s].msg \notin ready
           /\ U(s) \in Users
  <1>1. handlers[s].attached /\ handlers[s].msg \in Delivered
    BY DEF AllAttached, Delivered
  <1> QED BY <1>1 DEF IInv, EachInOnePlace, Settled, HandlersOK, U

\* A user has at most one handler.
LEMMA OneHandler ==
    ASSUME IInv, AllAttached, OneAtATime, NEW s \in Slots, NEW t \in Slots,
           Busy(s), Busy(t), U(s) = U(t)
    PROVE  s = t
  <1>1. /\ handlers[s].msg \in published /\ ~ Settled(handlers[s].msg)
        /\ handlers[t].msg \in published /\ ~ Settled(handlers[t].msg)
    BY HandledIsOpen
  <1>2. handlers[s].msg = handlers[t].msg
    BY <1>1 DEF OneAtATime, U
  <1> QED BY <1>2 DEF IInv, EachInOnePlace, AllAttached

\* What one handler does for its user u concerns no other user.
LEMMA SlotStep ==
    ASSUME IInv, CalmInv, NEW s \in Slots, Busy(s),
           NEW u \in Users, U(s) = u, NEW m \in Msgs, handlers[s].msg = m,
           \A x \in Slots \ {s} : handlers'[x] = handlers[x],
           \/ handlers'[s].pc = "free"
           \/ handlers'[s].msg = m /\ handlers'[s].attached = handlers[s].attached,
           published' = published,
           \/ acked' = acked /\ (dead' = dead \/ dead' = dead \cup {m})
           \/ acked' = acked \cup {m} /\ dead' = dead /\ db'[u] = Payload[m],
           \A v \in Users \ {u} : db'[v] = db[v] /\ profile'[v] = profile[v],
           IdleAgrees(u)', HandlerAgrees(s, u)'
    PROVE  CalmInv'
<1>1. m \in published /\ ~ Settled(m) /\ UserOf[m] = u /\ u # None
  BY HandledIsOpen, MessageAssumption DEF CalmInv, U
<1>2. OneAtATime'
  <2>1. \A n : Settled(n) => Settled(n)'
    BY DEF Settled
  <2> QED BY <2>1 DEF CalmInv, OneAtATime
<1>3. AllAttached'
  BY DEF CalmInv, AllAttached, Busy
<1>4. LastSaved'
  <2> SUFFICES ASSUME NEW k \in acked', UserOf[k] # None,
                      \A n \in SameUser(k) \cap published' : n <= k /\ n \in acked'
               PROVE  db'[UserOf[k]] = Payload[k]
    BY DEF LastSaved
  <2>0. k \in Msgs /\ k \in published /\ k \in Nat /\ m \in Nat
    BY <1>1, MessageAssumption DEF IInv, TypeOK, EachInOnePlace
  <2>1. CASE UserOf[k] = u
    <3>1. m <= k /\ m \in acked'
      BY <1>1, <2>0, <2>1 DEF SameUser
    <3>2. m \notin acked
      BY <1>1 DEF Settled
    <3>3. acked' = acked \cup {m} /\ db'[u] = Payload[m]
      BY <3>1, <3>2
    <3>4. k = m
      <4>1. ~ (k < m)
        BY <2>0, <3>1
      <4> QED BY <1>1, <2>0, <2>1, <4>1 DEF CalmInv, OneAtATime
    <3> QED BY <2>1, <3>3, <3>4
  <2>2. CASE UserOf[k] # u
    <3>1. \A n \in SameUser(k) : n # m
      BY <1>1, <2>2 DEF SameUser
    <3>2. k \in acked /\ \A n \in SameUser(k) \cap published : n <= k /\ n \in acked
      BY <1>1, <2>2, <3>1
    <3>3. UserOf[k] \in Users \ {u}
      BY <2>0, <2>2, MessageAssumption
    <3> QED BY <3>2, <3>3 DEF CalmInv, LastSaved
  <2> QED BY <2>1, <2>2
<1>5. ASSUME NEW v \in Users, v # u PROVE IdleAgrees(v)' /\ \A x \in Slots : HandlerAgrees(x, v)'
  <2>1. Clean(v)' <=> Clean(v)
    BY <1>1, <1>5 DEF Clean
  <2>2. Agree(v)' <=> Agree(v)
    BY <1>5 DEF Agree
  <2>3. \A x \in Slots : Busy(x)' /\ U(x)' = v => Busy(x) /\ U(x) = v /\ handlers'[x] = handlers[x]
    BY <1>1, <1>5 DEF Busy, U
  <2>4. \A x \in Slots : Busy(x) /\ U(x) = v => Busy(x)' /\ U(x)' = v
    BY <1>1, <1>5 DEF Busy, U
  <2>5. IdleAgrees(v)'
    BY <1>5, <2>1, <2>2, <2>4 DEF CalmInv, IdleAgrees
  <2>6. ASSUME NEW x \in Slots PROVE HandlerAgrees(x, v)'
    BY <1>5, <2>1, <2>2, <2>3 DEF CalmInv, HandlerAgrees, Shows
  <2> QED BY <2>5, <2>6
<1>6. ASSUME NEW x \in Slots, x # s PROVE HandlerAgrees(x, u)'
  <2>1. ~ (Busy(x) /\ U(x) = u)
    BY <1>6, OneHandler DEF CalmInv
  <2>2. ~ (Busy(x)' /\ U(x)' = u)
    BY <1>6, <2>1 DEF Busy, U
  <2> QED BY <2>2 DEF HandlerAgrees
<1> QED BY <1>2, <1>3, <1>4, <1>5, <1>6 DEF CalmInv

\* A handler that throws dead-letters its message; its user is not clean then.
LEMMA NackCalm ==
    ASSUME IInv, CalmInv, NEW s \in Slots, Busy(s), NEW u \in Users, U(s) = u, Nack(s),
           \A v \in Users \ {u} : db'[v] = db[v] /\ profile'[v] = profile[v]
    PROVE  CalmInv'
<1>1. PICK m \in Msgs : handlers[s].msg = m /\ UserOf[m] = u /\ handlers[s].attached
  BY HandledIsOpen DEF CalmInv, AllAttached, U
<1>2. dead' = dead \cup {m} /\ acked' = acked /\ published' = published
  BY <1>1 DEF Nack
<1>3. handlers'[s].pc = "free" /\ \A x \in Slots \ {s} : handlers'[x] = handlers[x]
  BY DEF Nack, NoHandler, IInv, TypeOK
<1>4. ~ Clean(u)'
  BY <1>1, <1>2 DEF Clean
<1>5. IdleAgrees(u)' /\ HandlerAgrees(s, u)'
  BY <1>4 DEF IdleAgrees, HandlerAgrees
<1> QED BY <1>1, <1>2, <1>3, <1>5, SlotStep

\* A handler that goes on keeps the invariant when it agrees at its new await.
LEMMA GotoCalm ==
    ASSUME IInv, CalmInv, NEW s \in Slots, Busy(s), NEW u \in Users, U(s) = u,
           NEW pc \in {"insert", "update", "save"}, NEW diff, NEW try,
           Goto(s, pc, diff, try), UNCHANGED queueVars,
           \A v \in Users \ {u} : db'[v] = db[v] /\ profile'[v] = profile[v],
           HandlerAgrees(s, u)'
    PROVE  CalmInv'
<1>1. PICK m \in Msgs : handlers[s].msg = m /\ UserOf[m] = u
  BY HandledIsOpen DEF CalmInv, U
<1>2. /\ handlers'[s].pc = pc /\ handlers'[s].msg = m
      /\ handlers'[s].attached = handlers[s].attached
      /\ \A x \in Slots \ {s} : handlers'[x] = handlers[x]
  BY <1>1, GotoEffect DEF IInv
<1>3. Busy(s)' /\ U(s)' = u
  BY <1>1, <1>2 DEF Busy, U
<1>4. IdleAgrees(u)'
  BY <1>3 DEF IdleAgrees
<1>5. acked' = acked /\ dead' = dead /\ published' = published
  BY DEF queueVars
<1> QED BY <1>1, <1>2, <1>4, <1>5, SlotStep

\* A failed or refused update is retried with the same fields, or throws.
LEMMA RetryCalm ==
    ASSUME IInv, CalmInv, NEW s \in Slots, handlers[s].pc = "update", NEW u \in Users, U(s) = u,
           RetryOrThrow(s), profile' \in {profile, Applied(s)}, UNCHANGED db
    PROVE  CalmInv'
<1>1. PICK m \in Msgs : handlers[s].msg = m /\ UserOf[m] = u
  BY HandledIsOpen DEF CalmInv, U, Busy
<1>2. Busy(s)
  BY DEF Busy
<1>3. /\ \A v \in Users \ {u} : db'[v] = db[v] /\ profile'[v] = profile[v]
      /\ \A f \in Fields : f \notin handlers[s].diff => profile'[u][f] = profile[u][f]
  BY DEF Applied, Body, IInv, TypeOK, Settings
<1>4. CASE handlers[s].try < Retries
  <2>1. PICK diff \in SUBSET Fields, try \in Nat :
            handlers[s].diff = diff /\ Goto(s, "update", diff, try)
    BY <1>4 DEF RetryOrThrow, IInv, TypeOK, Handler, Retries
  <2>2. UNCHANGED queueVars
    BY <1>4 DEF RetryOrThrow
  <2>3. handlers'[s].pc = "update" /\ handlers'[s].diff = diff /\ handlers'[s].msg = m
    BY <1>1, <2>1, GotoEffect DEF IInv
  <2>4. Clean(u)' => Clean(u)
    BY <2>2 DEF Clean, queueVars
  <2>5. HandlerAgrees(s, u)'
    BY <1>1, <1>2, <1>3, <2>1, <2>3, <2>4 DEF CalmInv, HandlerAgrees, Shows
  <2> QED BY <1>2, <1>3, <2>1, <2>2, <2>5, GotoCalm
<1>5. CASE ~ (handlers[s].try < Retries)
  BY <1>2, <1>3, <1>5, NackCalm DEF RetryOrThrow
<1> QED BY <1>4, <1>5

\* The comparison finds every field the profile does not show yet.
LEMMA CompareCalm ==
    ASSUME IInv, CalmInv, NEW s \in Slots, Busy(s), NEW u \in Users, U(s) = u,
           NEW diff \in SUBSET Fields, AfterCompare(s, diff), UNCHANGED <<queueVars, profile>>,
           \A v \in Users \ {u} : db'[v] = db[v],
           \A f \in Fields : f \notin diff /\ Clean(u) => Shows(s, u, f)
    PROVE  CalmInv'
<1>1. PICK m \in Msgs : handlers[s].msg = m /\ UserOf[m] = u
  BY HandledIsOpen DEF CalmInv, U
<1>2. Clean(u)' => Clean(u)
  BY DEF Clean, queueVars
<1>3. CASE diff = {}
  <2>1. Goto(s, "save", diff, 1)
    BY <1>3 DEF AfterCompare
  <2>2. handlers'[s].pc = "save" /\ handlers'[s].msg = m
    BY <1>1, <2>1, GotoEffect DEF IInv
  <2>3. HandlerAgrees(s, u)'
    BY <1>1, <1>2, <1>3, <2>2 DEF HandlerAgrees, Shows
  <2> QED BY <2>1, <2>3, GotoCalm
<1>4. CASE diff # {}
  <2>1. Goto(s, "update", diff, 1)
    BY <1>4 DEF AfterCompare
  <2>2. handlers'[s].pc = "update" /\ handlers'[s].diff = diff /\ handlers'[s].msg = m
    BY <1>1, <2>1, GotoEffect DEF IInv
  <2>3. HandlerAgrees(s, u)'
    BY <1>1, <1>2, <2>2 DEF HandlerAgrees, Shows
  <2> QED BY <2>1, <2>3, GotoCalm
<1> QED BY <1>3, <1>4

\* Every step keeps the row and the profile of a paced user together.
LEMMA CalmStep ==
    ASSUME IInv, IInv', PublishedInOrder, Calm, CalmInv, Next
    PROVE  CalmInv'
<1>n. None \notin Users
  BY MessageAssumption
<1>1. ASSUME NEW m \in Msgs, Publish(m) PROVE CalmInv'
  <2>1. /\ published' = published \cup {m} /\ m \notin published
        /\ UNCHANGED <<acked, dead, handlers, db, profile>>
    BY <1>1 DEF Publish
  <2>2. \A n \in published : n < m
    BY <1>1, MessageAssumption DEF Publish, PublishedInOrder, IInv, TypeOK, Env
  <2>3. \A n \in published : UserOf[n] = UserOf[m] => Settled(n)
    BY <1>1 DEF Publish, Calm, SameUser, IInv, TypeOK
  <2>4. OneAtATime'
    BY <2>1, <2>2, <2>3 DEF CalmInv, OneAtATime, Settled
  <2>5. AllAttached'
    BY <2>1 DEF CalmInv, AllAttached, Busy
  <2>6. LastSaved'
    BY <2>1 DEF CalmInv, LastSaved
  <2>7. ASSUME NEW u \in Users PROVE IdleAgrees(u)' /\ \A s \in Slots : HandlerAgrees(s, u)'
    BY <2>1 DEF CalmInv, IdleAgrees, HandlerAgrees, Busy, U, Clean, Agree, Shows
  <2> QED BY <2>4, <2>5, <2>6, <2>7 DEF CalmInv
<1>2. ASSUME NEW s \in Slots, NEW m \in Msgs, Deliver(s, m) PROVE CalmInv'
  <2>1. /\ UNCHANGED <<acked, published, db, profile>> /\ dead \subseteq dead'
        /\ ~ Busy(s) /\ m \in ready
    BY <1>2 DEF Deliver
  <2>2. OneAtATime'
    BY <2>1 DEF CalmInv, OneAtATime, Settled
  <2>3. LastSaved'
    BY <2>1 DEF CalmInv, LastSaved
  <2>4. CASE UserOf[m] = None
    <3>1. UNCHANGED handlers /\ dead' = dead \cup {m}
      BY <1>2, <2>4 DEF Deliver
    <3>2. AllAttached'
      BY <3>1 DEF CalmInv, AllAttached, Busy
    <3>3. ASSUME NEW u \in Users PROVE IdleAgrees(u)' /\ \A x \in Slots : HandlerAgrees(x, u)'
      <4>1. Clean(u)' => Clean(u)
        BY <3>1 DEF Clean
      <4> QED BY <2>1, <3>1, <4>1 DEF CalmInv, IdleAgrees, HandlerAgrees, Busy, U, Agree, Shows
    <3> QED BY <2>2, <2>3, <3>2, <3>3 DEF CalmInv
  <2>5. CASE UserOf[m] # None
    <3>1. /\ handlers'[s].msg = m /\ handlers'[s].pc = "get" /\ handlers'[s].attached
          /\ \A x \in Slots \ {s} : handlers'[x] = handlers[x]
          /\ dead' = dead
      BY <1>2, <2>5 DEF Deliver, IInv, TypeOK
    <3>2. AllAttached'
      BY <3>1 DEF CalmInv, AllAttached, Busy
    <3>3. \A x \in Slots : Busy(x) => U(x) # UserOf[m]
      <4>1. m \in published /\ ~ Settled(m)
        BY <2>1 DEF IInv, EachInOnePlace, Settled
      <4>2. ASSUME NEW x \in Slots, Busy(x) PROVE U(x) # UserOf[m]
        <5>1. /\ handlers[x].msg \in published /\ ~ Settled(handlers[x].msg)
              /\ handlers[x].msg \notin ready
          BY <4>2, HandledIsOpen DEF CalmInv
        <5> QED BY <2>1, <4>1, <5>1 DEF CalmInv, OneAtATime, U
      <4> QED BY <4>2
    <3>4. ASSUME NEW u \in Users PROVE IdleAgrees(u)' /\ \A x \in Slots : HandlerAgrees(x, u)'
      <4>1. (Clean(u)' <=> Clean(u)) /\ (Agree(u)' <=> Agree(u)) /\ db'[u] = db[u]
        BY <2>1, <3>1 DEF Clean, Agree
      <4>2. \A x \in Slots \ {s} : (Busy(x)' <=> Busy(x)) /\ U(x)' = U(x)
        BY <3>1 DEF Busy, U
      <4>3. Busy(s)' /\ U(s)' = UserOf[m]
        BY <3>1 DEF Busy, U
      <4>4. IdleAgrees(u)'
        BY <2>1, <4>1, <4>2 DEF CalmInv, IdleAgrees
      <4>5. HandlerAgrees(s, u)'
        BY <3>1, <3>3, <4>1, <4>3 DEF CalmInv, HandlerAgrees, IdleAgrees
      <4>6. ASSUME NEW x \in Slots \ {s} PROVE HandlerAgrees(x, u)'
        BY <2>1, <3>1, <4>1, <4>2, <4>6 DEF CalmInv, HandlerAgrees, Shows
      <4> QED BY <4>4, <4>5, <4>6
    <3> QED BY <2>2, <2>3, <3>2, <3>4 DEF CalmInv
  <2> QED BY <2>4, <2>5
<1>u. ASSUME NEW s \in Slots, Busy(s)
      PROVE  \E u \in Users, m \in Msgs : U(s) = u /\ handlers[s].msg = m /\ UserOf[m] = u
                                          /\ handlers[s].attached
  BY <1>u, HandledIsOpen DEF CalmInv, AllAttached, U
<1>3. ASSUME NEW s \in Slots, GetSettings(s) PROVE CalmInv'
  <2>1. Busy(s) /\ handlers[s].pc = "get" /\ UNCHANGED <<queueVars, db, profile>>
    BY <1>3 DEF GetSettings, Busy
  <2>2. PICK u \in Users, m \in Msgs : U(s) = u /\ handlers[s].msg = m
    BY <1>u, <2>1
  <2>3. CASE db[u] = None
    <3>1. Goto(s, "insert", {}, 1)
      BY <1>3, <2>2, <2>3 DEF GetSettings
    <3>2. handlers'[s].pc = "insert"
      BY <3>1, GotoEffect DEF IInv
    <3>3. HandlerAgrees(s, u)'
      BY <2>1, <2>3, <3>2 DEF HandlerAgrees
    <3> QED BY <2>1, <2>2, <3>1, <3>3, GotoCalm
  <2>4. CASE db[u] # None
    <3> DEFINE diff == Changed(db[u], Payload[m])
    <3>1. AfterCompare(s, diff) /\ diff \in SUBSET Fields
      BY <1>3, <2>2, <2>4 DEF GetSettings, Changed
    <3>2. ASSUME NEW f \in Fields, f \notin diff, Clean(u) PROVE Shows(s, u, f)
      <4>1. Agree(u)
        BY <2>1, <2>2, <2>4, <3>2 DEF CalmInv, HandlerAgrees
      <4>2. db[u][f] = Payload[m][f]
        BY <3>2 DEF Changed
      <4> QED BY <2>2, <4>1, <4>2 DEF Agree, Shows
    <3>3. PICK d \in SUBSET Fields : d = diff
      BY <3>1
    <3> HIDE DEF diff
    <3> QED BY <2>1, <2>2, <3>1, <3>2, <3>3, CompareCalm
  <2> QED BY <2>3, <2>4
<1>4. ASSUME NEW s \in Slots, InsertSettings(s) PROVE CalmInv'
  <2>1. Busy(s) /\ UNCHANGED profile
    BY <1>4 DEF InsertSettings, Busy
  <2>2. PICK u \in Users, m \in Msgs : U(s) = u /\ handlers[s].msg = m
    BY <1>u, <2>1
  <2>3. CASE db[u] = None
    <3>1. /\ db' = [db EXCEPT ![u] = Payload[m]] /\ AfterCompare(s, Fields)
          /\ UNCHANGED queueVars
      BY <1>4, <2>2, <2>3 DEF InsertSettings
    <3>2. \A v \in Users \ {u} : db'[v] = db[v]
      BY <3>1 DEF IInv, TypeOK
    <3> QED BY <2>1, <2>2, <3>1, <3>2, CompareCalm
  <2>4. CASE db[u] # None
    <3>1. Nack(s) /\ UNCHANGED db
      BY <1>4, <2>2, <2>4 DEF InsertSettings
    <3> QED BY <2>1, <2>2, <3>1, NackCalm
  <2> QED BY <2>3, <2>4
<1>5. ASSUME NEW s \in Slots, UpdateOk(s) PROVE CalmInv'
  <2>1. /\ Busy(s) /\ handlers[s].pc = "update" /\ profile' = Applied(s)
        /\ UNCHANGED <<queueVars, db>>
    BY <1>5 DEF UpdateOk, Busy
  <2>2. PICK u \in Users, m \in Msgs : U(s) = u /\ handlers[s].msg = m
    BY <1>u, <2>1
  <2>3. PICK diff, try : handlers[s].diff = diff /\ Goto(s, "save", diff, try)
    BY <1>5 DEF UpdateOk
  <2>4. handlers'[s].pc = "save" /\ handlers'[s].msg = m
    BY <2>2, <2>3, GotoEffect DEF IInv
  <2>5. /\ \A v \in Users \ {u} : profile'[v] = profile[v]
        /\ \A f \in Fields : profile'[u][f] = IF f \in Body(s) THEN Payload[m][f] ELSE profile[u][f]
    BY <2>1, <2>2 DEF Applied, IInv, TypeOK
  <2>6. ASSUME NEW f \in Fields, Clean(u) PROVE Shows(s, u, f)'
    <3>1. CASE f \in Body(s)
      BY <2>4, <2>5, <3>1 DEF Shows
    <3>2. CASE f \notin Body(s)
      BY <2>1, <2>2, <2>4, <2>5, <2>6, <3>2 DEF Shows, Body, CalmInv, HandlerAgrees
    <3> QED BY <3>1, <3>2
  <2>7. HandlerAgrees(s, u)'
    BY <2>1, <2>4, <2>6 DEF HandlerAgrees, Clean, queueVars
  <2> QED BY <2>1, <2>2, <2>3, <2>5, <2>7, GotoCalm
<1>6. ASSUME NEW s \in Slots, UpdateRefused(s) \/ UpdateFails(s) PROVE CalmInv'
  <2>1. /\ Busy(s) /\ handlers[s].pc = "update" /\ profile' \in {profile, Applied(s)}
        /\ RetryOrThrow(s) /\ UNCHANGED db
    BY <1>6 DEF UpdateRefused, UpdateFails, Busy
  <2>2. PICK u \in Users : U(s) = u
    BY <1>u, <2>1
  <2> QED BY <2>1, <2>2, RetryCalm
<1>7. ASSUME NEW s \in Slots, SaveSettings(s) PROVE CalmInv'
  <2>1. Busy(s) /\ handlers[s].pc = "save" /\ UNCHANGED profile
    BY <1>7 DEF SaveSettings, Busy
  <2>2. PICK u \in Users, m \in Msgs : U(s) = u /\ handlers[s].msg = m /\ handlers[s].attached
    BY <1>u, <2>1
  <2>3. /\ db' = [db EXCEPT ![u] = Payload[m]]
        /\ acked' = acked \cup {m} /\ dead' = dead /\ published' = published
    BY <1>7, <2>2 DEF SaveSettings, Ack
  <2>4. handlers'[s].pc = "free" /\ \A x \in Slots \ {s} : handlers'[x] = handlers[x]
    BY <1>7 DEF SaveSettings, Ack, NoHandler, IInv, TypeOK
  <2>5. db'[u] = Payload[m] /\ \A v \in Users \ {u} : db'[v] = db[v]
    BY <2>3 DEF IInv, TypeOK
  <2>6. HandlerAgrees(s, u)'
    BY <2>4 DEF HandlerAgrees, Busy
  <2>7. Clean(u) => \A f \in Fields : Shows(s, u, f)
    BY <2>1, <2>2 DEF CalmInv, HandlerAgrees
  <2>8. IdleAgrees(u)'
    BY <2>1, <2>2, <2>3, <2>5, <2>7 DEF IdleAgrees, Agree, Shows, Clean
  <2> QED BY <2>1, <2>2, <2>3, <2>4, <2>5, <2>6, <2>8, SlotStep
<1>8. ASSUME NEW s \in Slots, DbFails(s) PROVE CalmInv'
  <2>1. Busy(s) /\ Nack(s) /\ UNCHANGED <<db, profile>>
    BY <1>8 DEF DbFails, Busy
  <2>2. PICK u \in Users : U(s) = u
    BY <1>u, <2>1
  <2> QED BY <2>1, <2>2, NackCalm
<1>9. ~ ChannelLost /\ ~ Crash
  BY DEF ChannelLost, Crash, Calm, IInv, TypeOK
<1> QED BY <1>1, <1>2, <1>3, <1>4, <1>5, <1>6, <1>7, <1>8, <1>9 DEF Next, Happens, Step

\* When messages about a user follow each other only after the last one is
\* settled and nothing is lost meanwhile, the row and the profile stay
\* together: for every number of users, messages, handlers, refused requests
\* and retries, a user whose messages were all acknowledged has the last one
\* in usersettings and each field it sets in Synapse.
THEOREM PacedStaysSynchronized == Spec => []SynchronizedWhenPaced
<1> DEFINE Inv == PublishedInOrder /\ (Calm => CalmInv)
<1>1. Init => Inv
  <2> SUFFICES ASSUME Init PROVE Inv
    OBVIOUS
  <2>1. \A s \in Slots : ~ Busy(s)
    BY DEF Init, NoHandler, Busy
  <2>2. PublishedInOrder
    BY DEF Init, PublishedInOrder
  <2>3. OneAtATime /\ LastSaved
    BY DEF Init, OneAtATime, LastSaved
  <2>4. AllAttached /\ \A u \in Users : IdleAgrees(u) /\ \A s \in Slots : HandlerAgrees(s, u)
    BY <2>1 DEF Init, AllAttached, IdleAgrees, HandlerAgrees
  <2> QED BY <2>2, <2>3, <2>4 DEF CalmInv
<1>2. IInv /\ IInv' /\ Inv /\ [Next]_vars => Inv'
  <2> SUFFICES ASSUME IInv, IInv', Inv, [Next]_vars PROVE Inv'
    OBVIOUS
  <2>1. env' = env
    BY DEF Next, vars
  <2>2. PublishedInOrder'
    <3>1. CASE UNCHANGED published
      BY <2>1, <3>1 DEF PublishedInOrder
    <3>2. ASSUME NEW m \in Msgs, Publish(m) PROVE PublishedInOrder'
      BY <2>1, <3>2 DEF PublishedInOrder, Publish
    <3>3. (\E m \in Msgs : Publish(m)) \/ UNCHANGED published
      BY StepEffect DEF Effect, Keeps, Returns, Settles, Ack, Nack, Deliver, queueVars
    <3> QED BY <3>1, <3>2, <3>3
  <2>3. Calm' => CalmInv'
    <3> SUFFICES ASSUME Calm PROVE CalmInv'
      BY <2>1 DEF Calm
    <3>1. CASE Next
      BY <3>1, CalmStep
    <3>2. CASE UNCHANGED vars
      BY <3>2 DEF vars, queueVars, CalmInv, OneAtATime, Settled, AllAttached, LastSaved,
         IdleAgrees, HandlerAgrees, Busy, U, Clean, Agree, Shows
    <3> QED BY <3>1, <3>2
  <2> QED BY <2>2, <2>3
<1>3. IInv /\ Inv => SynchronizedWhenPaced
  <2> SUFFICES ASSUME IInv, CalmInv,
                      NEW m \in published, UserOf[m] # None,
                      \A n \in SameUser(m) \cap published : n <= m /\ n \in acked
               PROVE  /\ db[UserOf[m]] = Payload[m]
                      /\ \A f \in Fields : Payload[m][f] # None
                                           => profile[UserOf[m]][f] = Payload[m][f]
    BY DEF SynchronizedWhenPaced, Synchronized, Calm
  <2>1. m \in Msgs /\ m \in SameUser(m) /\ m \in acked
    BY DEF IInv, TypeOK, SameUser
  <2>2. PICK u \in Users : UserOf[m] = u
    BY <2>1, MessageAssumption
  <2>3. db[u] = Payload[m] /\ db[u] # None
    BY <2>1, <2>2, MessageAssumption DEF CalmInv, LastSaved
  <2>4. Clean(u)
    <3>1. ASSUME NEW n \in dead, UserOf[n] = u PROVE FALSE
      <4>1. n \in published /\ n \in Msgs /\ n \notin acked
        BY <3>1 DEF IInv, EachInOnePlace, TypeOK
      <4> QED BY <2>2, <3>1, <4>1 DEF SameUser
    <3> QED BY <3>1 DEF Clean
  <2>5. \A s \in Slots : Busy(s) => U(s) # u
    <3>1. ASSUME NEW s \in Slots, Busy(s), U(s) = u PROVE FALSE
      <4>1. /\ handlers[s].msg \in published /\ handlers[s].msg \in Msgs
            /\ ~ Settled(handlers[s].msg)
        BY <3>1, HandledIsOpen DEF CalmInv
      <4> QED BY <2>2, <3>1, <4>1 DEF SameUser, U, Settled
    <3> QED BY <3>1
  <2>6. Agree(u)
    BY <2>3, <2>4, <2>5 DEF CalmInv, IdleAgrees
  <2> QED BY <2>2, <2>3, <2>6 DEF Agree
<1> QED BY <1>1, <1>2, <1>3, Invariance, PTL DEF Spec
=============================================================================

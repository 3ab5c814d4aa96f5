--------------------------- MODULE CommonSettings ---------------------------
(***************************************************************************)
(* CommonSettingsService (chat_app/packages/common-settings/src/index.ts)  *)
(* and the admin settings endpoint it calls                                *)
(* (tom-server/src/admin-settings-api).                                    *)
(*                                                                         *)
(* A message announces the settings of a user.  The service keeps the last *)
(* settings it handled in the table usersettings, compares a new message   *)
(* with that row, pushes the fields that changed to Synapse and then saves *)
(* the row.  The consumer sets no prefetch, so several messages are        *)
(* handled at once, interleaving at every await.  A message is acked when  *)
(* its handler resolves and nacked without requeue (dead-lettered) when it *)
(* throws; when the channel is lost or the server crashes, the messages    *)
(* not yet settled are delivered again.                                    *)
(*                                                                         *)
(* The database is PostgreSQL, where the column `settings' is jsonb.       *)
(***************************************************************************)
EXTENDS Integers

CONSTANTS
    Users, Fields, Values,
    None,         \* undefined: no such field, no such row, no matrix_id
    Msgs,         \* messages, numbered in the order they are published
    UserOf,       \* matrix_id of a message; None when it cannot be parsed
                  \* or has no matrix_id
    Payload,      \* payload of a message
    Slots,        \* bound: messages being handled at once
    Envs          \* the environments considered

Settings == [Fields -> Values \cup {None}]

ASSUME MessageAssumption ==
    /\ Msgs \subseteq Nat /\ None \notin Values /\ None \notin Users
    /\ None \notin Settings
    /\ UserOf \in [Msgs -> Users \cup {None}]
    /\ Payload \in [Msgs -> Settings]

\* msgs are the messages published; paced says that the publisher waits until
\* the user's last message is settled; faults, losses and crashes bound the
\* failures of the database and of HTTP requests, the losses of the channel
\* and the crashes of the server.
Env == [msgs : SUBSET Msgs, paced : BOOLEAN, faults : Nat, losses : Nat, crashes : Nat]

ASSUME EnvAssumption == Envs \subseteq Env

VARIABLES
    ready,     \* messages in the queue, not delivered or returned to it
    handlers,  \* running invocations of handleMessage
    acked,     \* messages acknowledged
    dead,      \* messages sent to the dead-letter exchange
    db,        \* the row of each user in usersettings, None if there is none
    profile,   \* the user's profile in Synapse
    published, \* history: messages published so far
    faults, losses, crashes,
    env        \* the environment, never changed

queueVars == <<ready, acked, dead, published>>
countVars == <<faults, losses, crashes>>
vars == <<queueVars, handlers, db, profile, countVars, env>>

Retries == 3

\* `attached': the channel that delivered the message is still open.
Handler == [msg : Msgs \cup {None},
            pc : {"free", "get", "insert", "update", "save"},
            diff : SUBSET Fields, try : 1..Retries, attached : BOOLEAN]
NoHandler == [msg |-> None, pc |-> "free", diff |-> {}, try |-> 1, attached |-> FALSE]

\* Every variable has its type; a request is tried at most Retries times.
TypeOK ==
    /\ ready \in SUBSET Msgs /\ acked \in SUBSET Msgs
    /\ dead \in SUBSET Msgs /\ published \in SUBSET Msgs
    /\ handlers \in [Slots -> Handler]
    /\ db \in [Users -> Settings \cup {None}]
    /\ profile \in [Users -> Settings]
    /\ faults \in Nat /\ losses \in Nat /\ crashes \in Nat
    /\ env \in Env

Init ==
    /\ ready = {} /\ acked = {} /\ dead = {} /\ published = {}
    /\ handlers = [s \in Slots |-> NoHandler]
    /\ db = [u \in Users |-> None]
    /\ profile = [u \in Users |-> [f \in Fields |-> None]]
    /\ faults = 0 /\ losses = 0 /\ crashes = 0
    /\ env \in Envs

-----------------------------------------------------------------------------
Settled(m) == m \in acked \cup dead

SameUser(m) == {n \in Msgs : UserOf[n] = UserOf[m]}

Busy(s) == handlers[s].pc # "free"

\* The user whose message slot s handles.
U(s) == UserOf[handlers[s].msg]

Fault == faults < env.faults /\ faults' = faults + 1

\* Messages handed out by a channel that is still open.
Delivered == {handlers[s].msg : s \in {x \in Slots : handlers[x].attached}}

Goto(s, pc, diff, try) ==
    handlers' = [handlers EXCEPT ![s].pc = pc, ![s].diff = diff, ![s].try = try]

\* The consumer callback after the handler resolved: channel.ack.  On a channel
\* that is gone the call throws, and the message is in the queue again.
Ack(s) ==
    /\ acked' = IF handlers[s].attached THEN acked \cup {handlers[s].msg} ELSE acked
    /\ handlers' = [handlers EXCEPT ![s] = NoHandler]
    /\ UNCHANGED <<ready, dead, published>>


\* Mutant: dead-letters a message that a lost channel had delivered.
NackDetached(s) ==
    /\ dead' = dead \cup {handlers[s].msg}
    /\ handlers' = [handlers EXCEPT ![s] = NoHandler]
    /\ UNCHANGED <<ready, acked, published>>

\* ... after the handler threw: channel.nack without requeue.
Nack(s) ==
    /\ dead' = IF handlers[s].attached THEN dead \cup {handlers[s].msg} ELSE dead
    /\ handlers' = [handlers EXCEPT ![s] = NoHandler]
    /\ UNCHANGED <<ready, acked, published>>

-----------------------------------------------------------------------------
(* The broker *)

Publish(m) ==
    /\ m \in env.msgs \ published /\ \A n \in env.msgs : n < m => n \in published
    /\ env.paced => \A n \in SameUser(m) \cap published : Settled(n)
    /\ published' = published \cup {m} /\ ready' = ready \cup {m}
    /\ UNCHANGED <<acked, dead, handlers, db, profile, countVars>>

\* The oldest message is delivered; handleMessage parses it and runs up to its
\* first await.
Deliver(s, m) ==
    /\ ~ Busy(s) /\ m \in ready /\ \A n \in ready : m <= n
    /\ ready' = ready \ {m}
    /\ IF UserOf[m] = None
       THEN dead' = dead \cup {m} /\ UNCHANGED handlers
       ELSE /\ handlers' = [handlers EXCEPT ![s] =
                   [msg |-> m, pc |-> "get", diff |-> {}, try |-> 1, attached |-> TRUE]]
            /\ UNCHANGED dead
    /\ UNCHANGED <<acked, published, db, profile, countVars>>


\* Mutant: settling over a lost channel still counts.
ChannelLostUnnoticed ==
    /\ losses < env.losses /\ losses' = losses + 1
    /\ ready' = ready \cup Delivered
    /\ UNCHANGED <<handlers, acked, dead, published, db, profile, faults, crashes>>

\* The channel closes; what it delivered and was not settled is in the queue
\* again.  The handlers run on.
ChannelLost ==
    /\ losses < env.losses /\ losses' = losses + 1
    /\ ready' = ready \cup Delivered
    /\ handlers' = [s \in Slots |-> [handlers[s] EXCEPT !.attached = FALSE]]
    /\ UNCHANGED <<acked, dead, published, db, profile, faults, crashes>>


\* Mutant: messages are acknowledged on delivery, so a crash drops them.
CrashDrops ==
    /\ crashes < env.crashes /\ crashes' = crashes + 1
    /\ handlers' = [s \in Slots |-> NoHandler]
    /\ UNCHANGED <<ready, acked, dead, published, db, profile, faults, losses>>

Crash ==
    /\ crashes < env.crashes /\ crashes' = crashes + 1
    /\ ready' = ready \cup Delivered
    /\ handlers' = [s \in Slots |-> NoHandler]
    /\ UNCHANGED <<acked, dead, published, db, profile, faults, losses>>

-----------------------------------------------------------------------------
(* handleMessage *)

\* The fields that differ from the stored row.
Changed(row, payload) == {f \in Fields : row[f] # payload[f]}

\* With nothing to update the code goes on to _updateUserSettings.
AfterCompare(s, diff) == Goto(s, IF diff = {} THEN "save" ELSE "update", diff, 1)

\* _getOrCreateUserSettings: the row is read.
GetSettings(s) ==
    /\ handlers[s].pc = "get"
    /\ IF db[U(s)] = None
       THEN Goto(s, "insert", {}, 1)
       ELSE AfterCompare(s, Changed(db[U(s)], Payload[handlers[s].msg]))
    /\ UNCHANGED <<queueVars, db, profile, countVars>>


\* Mutant: a new row is compared with itself instead of being pushed.
InsertSettingsNotPushed(s) ==
    /\ handlers[s].pc = "insert"
    /\ IF db[U(s)] = None
       THEN /\ db' = [db EXCEPT ![U(s)] = Payload[handlers[s].msg]]
            /\ AfterCompare(s, {})
            /\ UNCHANGED queueVars
       ELSE Nack(s) /\ UNCHANGED db
    /\ UNCHANGED <<profile, countVars>>

\* ... and created if there was none.  matrix_id is the primary key: an insert
\* for a user who got a row meanwhile throws.
InsertSettings(s) ==
    /\ handlers[s].pc = "insert"
    /\ IF db[U(s)] = None
       THEN /\ db' = [db EXCEPT ![U(s)] = Payload[handlers[s].msg]]
            /\ AfterCompare(s, Fields)
            /\ UNCHANGED queueVars
       ELSE Nack(s) /\ UNCHANGED db
    /\ UNCHANGED <<profile, countVars>>

\* The fields the request to the admin settings API really carries: undefined
\* ones are dropped by JSON.stringify.  Without any the API answers 400.
Body(s) == {f \in handlers[s].diff : Payload[handlers[s].msg][f] # None}

\* updateUserInformation: Synapse sets the fields of the body.
Applied(s) ==
    [profile EXCEPT ![U(s)] =
        [f \in Fields |-> IF f \in Body(s) THEN Payload[handlers[s].msg][f] ELSE @[f]]]

UpdateOk(s) ==
    /\ handlers[s].pc = "update" /\ Body(s) # {}
    /\ profile' = Applied(s)
    /\ Goto(s, "save", handlers[s].diff, handlers[s].try)
    /\ UNCHANGED <<queueVars, db, countVars>>


\* _updateUserInformationWithRetry after a failed request.
RetryOrThrow(s) ==
    IF handlers[s].try < Retries
    THEN Goto(s, "update", handlers[s].diff, handlers[s].try + 1) /\ UNCHANGED queueVars
    ELSE Nack(s)

UpdateRefused(s) ==
    /\ handlers[s].pc = "update" /\ Body(s) = {}
    /\ RetryOrThrow(s)
    /\ UNCHANGED <<db, profile, countVars>>

\* The request fails, before or after Synapse took the update.
UpdateFails(s) ==
    /\ handlers[s].pc = "update" /\ Body(s) # {} /\ Fault
    /\ profile' \in {profile, Applied(s)}
    /\ RetryOrThrow(s)
    /\ UNCHANGED <<db, losses, crashes>>

\* _updateUserSettings, then the handler resolves.
SaveSettings(s) ==
    /\ handlers[s].pc = "save"
    /\ db' = [db EXCEPT ![U(s)] = Payload[handlers[s].msg]]
    /\ Ack(s)
    /\ UNCHANGED <<profile, countVars>>

DbFails(s) ==
    /\ handlers[s].pc \in {"get", "insert", "save"} /\ Fault
    /\ Nack(s)
    /\ UNCHANGED <<db, profile, losses, crashes>>

Step(s) ==
    \/ GetSettings(s) \/ InsertSettings(s) \/ UpdateOk(s) \/ UpdateRefused(s)
    \/ SaveSettings(s)

Happens ==
    \/ \E m \in Msgs : Publish(m)
    \/ \E s \in Slots, m \in Msgs : Deliver(s, m)
    \/ \E s \in Slots : Step(s) \/ UpdateFails(s) \/ DbFails(s)
    \/ ChannelLost
    \/ Crash

Next == Happens /\ UNCHANGED env

Spec == Init /\ [][Next]_vars

\* The broker delivers while a handler can start, and awaited requests settle.
Fairness ==
    /\ WF_vars((\E s \in Slots, m \in Msgs : Deliver(s, m)) /\ UNCHANGED env)
    /\ \A s \in Slots : WF_vars(Step(s) /\ UNCHANGED env)

LiveSpec == Spec /\ Fairness

-----------------------------------------------------------------------------
(* Properties *)

\* At-least-once bookkeeping: a published message is in exactly one place (the
\* queue, one handler that can still settle it, acknowledged or dead-lettered),
\* whatever mix of retries, lost channels and crashes it went through.
EachInOnePlace ==
    /\ \A s, t \in Slots : handlers[s].attached /\ handlers[t].attached
                           /\ handlers[s].msg = handlers[t].msg => s = t
    /\ ready \cap Delivered = {} /\ (ready \cup Delivered) \cap (acked \cup dead) = {}
    /\ acked \cap dead = {}
    /\ published = ready \cup Delivered \cup acked \cup dead

\* The handling of messages, with redeliveries, retries and duplicate handlers
\* of one message, implements the ledger: each message is settled once.
Ledger == INSTANCE SettingsLedger WITH
              waiting <- ready \cup Delivered, processed <- acked, rejected <- dead
ImplementsLedger == Ledger!Spec

\* Every message is settled in the end.
AllSettled == \A m \in Msgs : m \in published ~> Settled(m)

\* README.md: updates "are automatically synchronized with the chat service".
\* When all messages of a user were processed, the stored row is the last
\* message and the profile in Synapse shows each field that message sets.
Synchronized ==
    \A m \in published :
        LET u == UserOf[m] IN
        /\ u # None
        /\ \A n \in SameUser(m) \cap published : n <= m /\ n \in acked
        => /\ db[u] = Payload[m]
           /\ \A f \in Fields : Payload[m][f] # None => profile[u][f] = Payload[m][f]

\* The same, when messages about one user follow each other only after the
\* previous one is settled and neither channel nor server is lost meanwhile:
\* refused and failing requests and their retries never leave the row and the
\* profile apart.
SynchronizedWhenPaced ==
    env.paced /\ env.losses = 0 /\ env.crashes = 0 => Synchronized
=============================================================================

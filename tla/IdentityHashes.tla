--------------------------- MODULE IdentityHashes ---------------------------
(***************************************************************************)
(* The hashed address look-up of the identity server                       *)
(* (chat_app/packages/matrix-identity-server/src: cron/changePepper.ts,    *)
(* cron/updateUsers.ts, cron/index.ts, lookup).                            *)
(*                                                                         *)
(* updateHashes rotates the pepper: it drops the hashes of the pepper      *)
(* before the previous one, remembers the current pepper as the previous   *)
(* one, hashes every user's address with a new pepper and publishes it.    *)
(* updateUsers, by default on the same schedule, hashes new users and      *)
(* keeps the user history.  A client reads the pepper with hash_details    *)
(* and asks lookup for an address it hashed with it.                       *)
(*                                                                         *)
(* The queries of both jobs run on a pool of connections and execute in    *)
(* any order the promises allow.  Peppers are numbered as they are drawn;  *)
(* 0 is the empty pepper of a new database.  A hash is represented by the  *)
(* address and the pepper it was made from.                                *)
(***************************************************************************)
EXTENDS Integers

CONSTANTS
    Users,
    AddressOf,   \* each user's hashed address (mail or normalised phone)
    None,
    Scenarios    \* the deployments and bounds considered

\* matrixDb: is the Matrix database configured?  federated: is a federated
\* identity service configured?  ordered: does the read of previousPepper
\* always execute before the read of pepper is answered, as on a single
\* connection?  users: the initial directory.  rotations, updates and starts
\* bound the runs of both jobs and the starts of the server; churn bounds the
\* changes of the directory, faults the queries that fail.
Scenario == [matrixDb : BOOLEAN, federated : BOOLEAN, ordered : BOOLEAN,
             users : SUBSET Users, rotations : Nat, updates : Nat,
             starts : Nat, churn : Nat, faults : Nat]

ASSUME HashesAssumption ==
    Scenarios \subseteq Scenario /\ None \notin Nat

VARIABLES
    pepper, previousPepper, \* the two rows of the table keys
    hashes,     \* rows [user, pepper, active] of the table hashes
    history,    \* userHistory: "none", "active" or "inactive" for each user
    directory,  \* users of the UserDB
    members,    \* users of the Matrix database
    server,     \* the process: "down", "starting" (the first rotation), "up"
    rot,        \* the running updateHashes
    drops,      \* peppers whose hashes a deleteEqual is about to delete
    upd,        \* the running updateUsers
    client,     \* a client of hash_details and lookup
    served,     \* history: users hashed for the published pepper
    spent,      \* how often each bounded thing has happened
    scenario    \* never changed

keyVars  == <<pepper, previousPepper>>
dirVars  == <<directory, members>>
vars == <<keyVars, hashes, history, dirVars, server, rot, drops, upd, client,
          served, spent, scenario>>

Pepper == Nat
Entry == [user : Users, active : 0..1]
Row == [user : Users, pepper : Pepper, active : 0..1]

\* read: the look at previousPepper; main: where the rest has got to; move:
\* the update of previousPepper; work: the new hashes; todo: rows to insert;
\* ok: nothing was rejected so far; users: the users read.
Rotation == [read : {"asked", "done"},
             main : {"idle", "pepper", "work"},
             cur : Pepper, new : Pepper,
             move : {"todo", "done"},
             work : {"users", "filter", "insert"},
             users : SUBSET Users, todo : SUBSET Entry, ok : BOOLEAN]
NoRotation == [read |-> "done", main |-> "idle", cur |-> 0, new |-> 0,
               move |-> "todo", work |-> "users", users |-> {}, todo |-> {}, ok |-> TRUE]

\* pend: the reads still to be answered; users, known (the users with a row),
\* active (those whose first row is active) and members: their answers; the
\* other fields are the writes still to be made.  A row to insert carries the
\* pepper that was read for it, None before that read.
Sources == {"users", "hashes", "members"}
Update == [phase : {"idle", "read", "write"}, pend : SUBSET Sources,
           users : SUBSET Users, known : SUBSET Users, active : SUBSET Users,
           members : SUBSET Users, note : SUBSET Users, activate : SUBSET Users, deactivate : SUBSET Users,
           insert : SUBSET [user : Users, active : 0..1, pepper : Pepper \cup {None}]]
NoUpdate == [phase |-> "idle", pend |-> {}, users |-> {}, known |-> {}, active |-> {},
             members |-> {}, note |-> {}, activate |-> {}, deactivate |-> {},
             insert |-> {}]

\* The client's pepper, and its last question and answer; `due' says that the
\* answer had to be a hit.
Client == [pepper : Pepper \cup {None}, known : SUBSET Users,
           answer : {"none", "mapped", "inactive", "absent"}, due : BOOLEAN]
NoClient == [pepper |-> None, known |-> {}, answer |-> "none", due |-> FALSE]

Spent == [rotations : Nat, updates : Nat, starts : Nat, churn : Nat, faults : Nat]

\* Every variable has its type.
TypeOK ==
    /\ pepper \in Pepper /\ previousPepper \in Pepper
    /\ hashes \subseteq Row
    /\ history \in [Users -> {"none", "active", "inactive"}]
    /\ directory \subseteq Users /\ members \subseteq Users
    /\ server \in {"down", "starting", "up"}
    /\ rot \in Rotation /\ drops \subseteq Pepper /\ upd \in Update
    /\ client \in Client /\ served \subseteq Users
    /\ spent \in Spent /\ scenario \in Scenario

Init ==
    /\ scenario \in Scenarios
    /\ pepper = 0 /\ previousPepper = 0
    /\ hashes = {} /\ history = [u \in Users |-> "none"]
    /\ directory = scenario.users
    /\ members \in SUBSET scenario.users /\ (~scenario.matrixDb => members = {})
    /\ server = "down" /\ rot = NoRotation /\ drops = {} /\ upd = NoUpdate
    /\ client = NoClient /\ served = {}
    /\ spent = [rotations |-> 0, updates |-> 0, starts |-> 0, churn |-> 0, faults |-> 0]

-----------------------------------------------------------------------------
Spend(what) ==
    /\ spent[what] < scenario[what]
    /\ spent' = [spent EXCEPT ![what] = @ + 1]

\* A query fails.
Fault == Spend("faults")

MatrixDb == scenario.matrixDb
Federated == scenario.federated

\* The primary key of the table hashes is the hash.
Taken(u, p) == \E row \in hashes : row.pepper = p /\ AddressOf[row.user] = AddressOf[u]

Idle(job) == job.main = "idle" /\ job.read = "done"

-----------------------------------------------------------------------------
(* updateHashes *)

StartedRotation == [NoRotation EXCEPT !.read = "asked", !.main = "pepper"]

\* The cron job.  A rotation is over before the next one is due.
StartRotation ==
    /\ server = "up" /\ Idle(rot) /\ Spend("rotations")
    /\ rot' = StartedRotation
    /\ UNCHANGED <<keyVars, hashes, history, dirVars, server, drops, upd, client, served>>

\* Mutant: nothing is dropped.
ReadPreviousPepperOnly ==
    /\ rot.read = "asked"
    /\ rot' = [rot EXCEPT !.read = "done"]
    /\ UNCHANGED <<drops, keyVars, hashes, history, dirVars, server, upd, client,
                   served, spent>>

\* A previousPepper that is not a pepper is ignored, and so is a failed read.
ReadPreviousPepper ==
    /\ rot.read = "asked"
    /\ \/ /\ drops' = IF previousPepper = 0 THEN drops ELSE drops \cup {previousPepper}
          /\ UNCHANGED spent
       \/ Fault /\ UNCHANGED drops
    /\ rot' = [rot EXCEPT !.read = "done"]
    /\ UNCHANGED <<keyVars, hashes, history, dirVars, server, upd, client, served>>

\* deleteEqual is not awaited; its failure is logged.
DropOldHashes ==
    \E p \in drops :
        /\ drops' = drops \ {p}
        /\ \/ hashes' = {row \in hashes : row.pepper # p} /\ UNCHANGED spent
           \/ Fault /\ UNCHANGED hashes
        /\ UNCHANGED <<keyVars, history, dirVars, server, rot, upd, client, served>>

\* updateHashes is rejected: the server does not finish its start, a cron job
\* only logs it.
Reject ==
    /\ rot' = [NoRotation EXCEPT !.read = rot.read]
    /\ server' = IF server = "starting" THEN "down" ELSE server

ReadPepper ==
    /\ rot.main = "pepper" /\ (scenario.ordered => rot.read = "done")
    /\ \/ /\ rot' = [rot EXCEPT !.main = "work", !.cur = pepper, !.new = spent.rotations]
          /\ UNCHANGED <<server, spent>>
       \/ Fault /\ Reject
    /\ UNCHANGED <<keyVars, hashes, history, dirVars, drops, upd, client, served>>

MovePepper ==
    /\ rot.main = "work" /\ rot.move = "todo"
    /\ \/ /\ previousPepper' = rot.cur
          /\ rot' = [rot EXCEPT !.move = "done"]
          /\ UNCHANGED spent
       \/ /\ Fault
          /\ rot' = [rot EXCEPT !.move = "done", !.ok = FALSE]
          /\ UNCHANGED previousPepper
    /\ UNCHANGED <<pepper, hashes, history, dirVars, server, drops, upd, client, served>>

\* The rest of the work is given up.
WorkFails == rot' = [rot EXCEPT !.work = "insert", !.todo = {}, !.ok = FALSE]

ReadUsers ==
    /\ rot.main = "work" /\ rot.work = "users"
    /\ \/ rot' = [rot EXCEPT !.work = "filter", !.users = directory] /\ UNCHANGED spent
       \/ Fault /\ WorkFails
    /\ UNCHANGED <<keyVars, hashes, history, dirVars, server, drops, upd, client, served>>

Active(u, names) == IF ~MatrixDb \/ u \in names THEN 1 ELSE 0

\* filter: who is hashed, given the names in the Matrix database.  None of
\* them, or a failed query, leaves every user inactive, or nobody when
\* federated.
Filtered(users, names) ==
    {[user |-> u, active |-> Active(u, names)] :
        u \in IF MatrixDb /\ Federated THEN users \cap names ELSE users}

FilterUsers ==
    /\ rot.main = "work" /\ rot.work = "filter"
    /\ \/ /\ rot' = [rot EXCEPT !.work = "insert", !.todo = Filtered(rot.users, members),
                                !.users = {e.user : e \in Filtered(rot.users, members)}]
          /\ UNCHANGED spent
       \/ /\ MatrixDb /\ Fault
          /\ rot' = [rot EXCEPT !.work = "insert", !.todo = Filtered(rot.users, {}),
                                !.users = {e.user : e \in Filtered(rot.users, {})}]
       \/ MatrixDb /\ Fault /\ WorkFails
    /\ UNCHANGED <<keyVars, hashes, history, dirVars, server, drops, upd, client, served>>

\* Mutant: the users are hashed with the published pepper.
InsertNewHashSamePepper ==
    /\ rot.main = "work" /\ rot.work = "insert"
    /\ \E e \in rot.todo :
        /\ IF Taken(e.user, rot.cur)
           THEN rot' = [rot EXCEPT !.todo = @ \ {e}, !.ok = FALSE] /\ UNCHANGED hashes
           ELSE /\ rot' = [rot EXCEPT !.todo = @ \ {e}]
                /\ hashes' = hashes \cup
                     {[user |-> e.user, pepper |-> rot.cur, active |-> e.active]}
    /\ UNCHANGED <<keyVars, history, dirVars, server, drops, upd, client, served, spent>>

\* updateHash with the new pepper.  The insertions run in parallel; after one
\* of them fails the others still run.
InsertNewHash ==
    /\ rot.main = "work" /\ rot.work = "insert"
    /\ \E e \in rot.todo :
        \/ /\ ~Taken(e.user, rot.new)
           /\ hashes' = hashes \cup
                {[user |-> e.user, pepper |-> rot.new, active |-> e.active]}
           /\ rot' = [rot EXCEPT !.todo = @ \ {e}]
           /\ UNCHANGED spent
        \/ /\ \/ Taken(e.user, rot.new) /\ UNCHANGED spent
              \/ Fault
           /\ rot' = [rot EXCEPT !.todo = @ \ {e}, !.ok = FALSE]
           /\ UNCHANGED hashes
    /\ UNCHANGED <<keyVars, history, dirVars, server, drops, upd, client, served>>

Worked == rot.main = "work" /\ rot.move = "done" /\ rot.work = "insert" /\ rot.todo = {}

\* Mutant: the pepper is published without waiting for the hashes.
PublishPepperEarly ==
    /\ rot.main = "work" /\ rot.move = "done" /\ rot.work = "insert" /\ rot.ok
    /\ pepper' = rot.new /\ served' = rot.users
    /\ rot' = [NoRotation EXCEPT !.read = rot.read]
    /\ server' = "up"
    /\ UNCHANGED <<previousPepper, hashes, history, dirVars, drops, upd, client, spent>>

PublishPepper ==
    /\ Worked /\ rot.ok
    /\ \/ /\ pepper' = rot.new /\ served' = rot.users
          /\ rot' = [NoRotation EXCEPT !.read = rot.read]
          /\ server' = "up"
          /\ UNCHANGED spent
       \/ Fault /\ Reject /\ UNCHANGED <<pepper, served>>
    /\ UNCHANGED <<previousPepper, hashes, history, dirVars, drops, upd, client>>

\* One of the two parallel promises was rejected.
RotationFails ==
    /\ Worked /\ ~rot.ok
    /\ Reject
    /\ UNCHANGED <<keyVars, hashes, history, dirVars, drops, upd, client, served, spent>>

-----------------------------------------------------------------------------
(* updateUsers *)

StartUpdate ==
    /\ server = "up" /\ upd.phase = "idle" /\ Spend("updates")
    /\ upd' = [NoUpdate EXCEPT !.phase = "read", !.pend =
                  IF MatrixDb THEN Sources ELSE Sources \ {"members"}]
    /\ UNCHANGED <<keyVars, hashes, history, dirVars, server, rot, drops, client, served>>

Reading(source) == upd.phase = "read" /\ source \in upd.pend

ReadUpdateUsers ==
    /\ Reading("users")
    /\ upd' = [upd EXCEPT !.pend = @ \ {"users"}, !.users = directory]
    /\ UNCHANGED <<keyVars, hashes, history, dirVars, server, rot, drops, client, served, spent>>

\* Rows come in any order, and a user is as active as his first row.
ReadHashes ==
    LET RowsOf(u) == {row \in hashes : row.user = u}
        known == {u \in Users : RowsOf(u) # {}}
    IN  /\ Reading("hashes")
        /\ \E act \in SUBSET known :
            /\ \A u \in known : \E row \in RowsOf(u) : row.active = IF u \in act THEN 1 ELSE 0
            /\ upd' = [upd EXCEPT !.pend = @ \ {"hashes"}, !.known = known, !.active = act]
        /\ UNCHANGED <<keyVars, hashes, history, dirVars, server, rot, drops, client,
                       served, spent>>

\* When the Matrix database does not come up it is taken for empty.
ReadMembers ==
    /\ Reading("members")
    /\ \/ upd' = [upd EXCEPT !.pend = @ \ {"members"}, !.members = members] /\ UNCHANGED spent
       \/ Fault /\ upd' = [upd EXCEPT !.pend = @ \ {"members"}, !.members = {}]
    /\ UNCHANGED <<keyVars, hashes, history, dirVars, server, rot, drops, client, served>>

\* A rejected read ends the job.
ReadFails ==
    /\ upd.phase = "read" /\ upd.pend # {} /\ Fault
    /\ upd' = NoUpdate
    /\ UNCHANGED <<keyVars, hashes, history, dirVars, server, rot, drops, client, served>>

\* Mutant: a new user is inserted as active.
NewRowsActive(new) ==
    {[user |-> u, active |-> 1, pepper |-> None] : u \in {v \in new : ~Federated \/ v \in upd.members}}

NewRows(new) ==
    {[user |-> u, active |-> Active(u, upd.members), pepper |-> None] :
        u \in {v \in new : ~Federated \/ v \in upd.members}}

\* All reads are answered: what there is to write.  Any hash, of whatever
\* pepper, makes a user known.
PlanUpdate ==
    LET new == upd.users \ upd.known
        joined == ((upd.users \cap upd.known) \cap upd.members) \ upd.active
    IN  /\ upd.phase = "read" /\ upd.pend = {}
        /\ upd' = [upd EXCEPT !.phase = "write",
                      !.note = {u \in new : Active(u, upd.members) = 1} \cup joined,
                      !.activate = joined,
                      !.deactivate = upd.known \ upd.users,
                      !.insert = NewRows(new)]
        /\ UNCHANGED <<keyVars, hashes, history, dirVars, server, rot, drops, client,
                       served, spent>>

\* The writes run in parallel; a failed one is logged and the others go on.
NoteActive ==
    /\ upd.phase = "write"
    /\ \E u \in upd.note :
        /\ upd' = [upd EXCEPT !.note = @ \ {u}]
        /\ \/ history' = [history EXCEPT ![u] = "active"] /\ UNCHANGED spent
           \/ Fault /\ UNCHANGED history
    /\ UNCHANGED <<keyVars, hashes, dirVars, server, rot, drops, client, served>>

ActivateRows ==
    /\ upd.phase = "write"
    /\ \E u \in upd.activate :
        /\ upd' = [upd EXCEPT !.activate = @ \ {u}]
        /\ \/ /\ hashes' = {IF row.user = u THEN [row EXCEPT !.active = 1] ELSE row :
                              row \in hashes}
              /\ UNCHANGED spent
           \/ Fault /\ UNCHANGED hashes
    /\ UNCHANGED <<keyVars, history, dirVars, server, rot, drops, client, served>>

\* Only the history learns that a user is gone.
SetInactive ==
    /\ upd.phase = "write"
    /\ \E u \in upd.deactivate :
        /\ upd' = [upd EXCEPT !.deactivate = @ \ {u}]
        /\ \/ history' = [history EXCEPT ![u] = "inactive"] /\ UNCHANGED spent
           \/ Fault /\ UNCHANGED history
    /\ UNCHANGED <<keyVars, hashes, dirVars, server, rot, drops, client, served>>

\* updateHash without a pepper reads the published one first.
ReadPepperForUser ==
    /\ upd.phase = "write"
    /\ \E e \in upd.insert :
        /\ e.pepper = None
        /\ \/ /\ upd' = [upd EXCEPT !.insert = (@ \ {e}) \cup {[e EXCEPT !.pepper = pepper]}]
              /\ UNCHANGED spent
           \/ Fault /\ upd' = [upd EXCEPT !.insert = @ \ {e}]
    /\ UNCHANGED <<keyVars, hashes, history, dirVars, server, rot, drops, client, served>>

InsertUserHash ==
    /\ upd.phase = "write"
    /\ \E e \in upd.insert :
        /\ e.pepper # None
        /\ upd' = [upd EXCEPT !.insert = @ \ {e}]
        /\ \/ /\ hashes' = IF Taken(e.user, e.pepper) THEN hashes ELSE hashes \cup {e}
              /\ UNCHANGED spent
           \/ Fault /\ UNCHANGED hashes
    /\ UNCHANGED <<keyVars, history, dirVars, server, rot, drops, client, served>>

FinishUpdate ==
    /\ upd.phase = "write" /\ upd.note = {} /\ upd.activate = {}
    /\ upd.deactivate = {} /\ upd.insert = {}
    /\ upd' = NoUpdate
    /\ UNCHANGED <<keyVars, hashes, history, dirVars, server, rot, drops, client, served, spent>>

-----------------------------------------------------------------------------
(* The server and its surroundings *)

\* A new process: with an empty table of hashes the first rotation is part of
\* the start.
StartServer ==
    /\ server = "down"
    /\ \/ /\ hashes = {} /\ spent.rotations < scenario.rotations
          /\ spent.starts < scenario.starts
          /\ spent' = [spent EXCEPT !.rotations = @ + 1, !.starts = @ + 1]
          /\ server' = "starting" /\ rot' = StartedRotation
       \/ /\ hashes # {} /\ Spend("starts")
          /\ server' = "up" /\ rot' = NoRotation
    /\ drops' = {} /\ upd' = NoUpdate
    /\ UNCHANGED <<keyVars, hashes, history, dirVars, client, served>>

\* The process dies; it is started again.
Crash ==
    /\ server # "down" /\ spent.starts < scenario.starts
    /\ server' = "down" /\ rot' = NoRotation /\ drops' = {} /\ upd' = NoUpdate
    /\ UNCHANGED <<keyVars, hashes, history, dirVars, client, served, spent>>

AddUser ==
    /\ \E u \in Users \ directory : directory' = directory \cup {u}
    /\ Spend("churn")
    /\ UNCHANGED <<keyVars, hashes, history, members, server, rot, drops, upd, client, served>>

RemoveUser ==
    /\ \E u \in directory : directory' = directory \ {u}
    /\ Spend("churn")
    /\ UNCHANGED <<keyVars, hashes, history, members, server, rot, drops, upd, client, served>>

\* A first login creates the Matrix user, which is never deleted.
JoinMatrix ==
    /\ MatrixDb /\ \E u \in directory \ members : members' = members \cup {u}
    /\ Spend("churn")
    /\ UNCHANGED <<keyVars, hashes, history, directory, server, rot, drops, upd, client, served>>

HashDetails ==
    /\ server = "up" /\ pepper # 0
    /\ client' = [NoClient EXCEPT !.pepper = pepper, !.known = served]
    /\ UNCHANGED <<keyVars, hashes, history, dirVars, server, rot, drops, upd, served, spent>>

\* The pepper the client uses is the published one, or the one before while
\* no rotation is under way.
InGrace == \/ client.pepper = pepper
           \/ client.pepper = previousPepper /\ Idle(rot) /\ drops = {}

Found(u) == {row \in hashes : row.pepper = client.pepper /\ AddressOf[row.user] = AddressOf[u]}

Lookup ==
    /\ server = "up" /\ client.pepper # None
    /\ \E u \in Users :
        client' = [client EXCEPT
            !.answer = IF Found(u) = {} THEN "absent"
                       ELSE IF \E row \in Found(u) : row.active = 1 THEN "mapped"
                       ELSE "inactive",
            !.due = u \in client.known /\ InGrace]
    /\ UNCHANGED <<keyVars, hashes, history, dirVars, server, rot, drops, upd, served, spent>>

-----------------------------------------------------------------------------
Rotate ==
    \/ ReadPreviousPepper \/ DropOldHashes \/ ReadPepper \/ MovePepper \/ ReadUsers
    \/ FilterUsers \/ InsertNewHash \/ PublishPepper \/ RotationFails

UpdateUsers ==
    \/ ReadUpdateUsers \/ ReadHashes \/ ReadMembers \/ ReadFails \/ PlanUpdate
    \/ NoteActive \/ ActivateRows \/ SetInactive \/ ReadPepperForUser
    \/ InsertUserHash \/ FinishUpdate

Environment ==
    \/ StartServer \/ Crash \/ AddUser \/ RemoveUser \/ JoinMatrix \/ HashDetails \/ Lookup

Happens == StartRotation \/ StartUpdate \/ Rotate \/ UpdateUsers \/ Environment

Next == Happens /\ UNCHANGED scenario

Spec == Init /\ [][Next]_vars

\* Every query is answered in the end.
LiveSpec == Spec /\ WF_vars(Rotate /\ UNCHANGED scenario)

-----------------------------------------------------------------------------
(* Properties *)

\* A client that took the pepper from hash_details finds every user who was
\* hashed for it, as long as that pepper is the published one, or the previous
\* one and no rotation is under way: a rotation drops only older hashes, and
\* publishes a pepper only when its hashes are complete.
LookupFinds == client.due => client.answer # "absent"

\* No two users have the same address.  With a shared one, the second insertion
\* of its hash fails and so does every rotation.
Unshared == \A u, v \in Users : AddressOf[u] = AddressOf[v] => u = v

Undisturbed ==
    scenario.ordered /\ scenario.faults = 0 /\ scenario.starts = 1 /\ Unshared

\* ... for rotations that neither fail nor are interrupted, on one connection.
LookupFindsUndisturbed == Undisturbed => LookupFinds

\* With the Matrix database configured, a hash is active (or, in a federated
\* deployment, exists at all) only for users who have joined Matrix, whatever
\* stale lists the two jobs work from and whichever query fails.
OnlyMembers ==
    MatrixDb => \A row \in hashes :
        Federated \/ row.active = 1 => row.user \in members

\* The rows of hashes are well-formed whatever was read before them, and they
\* map only members (cron/updateUsers.ts:65, lookup/updateHash.ts:54).
RowsConsistent == TypeOK /\ OnlyMembers

\* Rotations leave no hashes behind that no later rotation will drop: every
\* row belongs to the published pepper, the previous one, the one being
\* prepared, or is about to be deleted.
RowsCollected ==
    Undisturbed /\ scenario.updates = 0 =>
        \A row \in hashes :
            row.pepper \in {pepper, previousPepper, rot.cur, rot.new} \cup drops

\* A rotation that meets no failing query ends with a new pepper published,
\* also while updateUsers inserts hashes of the same users.
RotationPublishes ==
    (scenario.faults = 0 /\ scenario.starts = 1 /\ Unshared /\ rot.main = "work")
        ~> (rot.main = "idle" /\ pepper = spent.rotations)
=============================================================================

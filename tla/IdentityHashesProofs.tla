------------------------ MODULE IdentityHashesProofs ------------------------
(***************************************************************************)
(* Proofs about IdentityHashes: the rows of the table hashes are           *)
(* well-formed and map only members of the Matrix server, undisturbed      *)
(* rotations leave no rows behind, and a look-up with a pepper in grace    *)
(* finds every user who was hashed for it.                                 *)
(***************************************************************************)
EXTENDS IdentityHashes, TLAPS

-----------------------------------------------------------------------------
(* Only members: what the two jobs remember of the Matrix database is      *)
(* still true, because nobody ever leaves it.                              *)

\* An entry or a row that may be written.
Allowed(e) == Federated \/ e.active = 1 => e.user \in members

Remembered ==
    /\ upd.members \subseteq members /\ upd.activate \subseteq members
    /\ MatrixDb => /\ \A e \in rot.todo : Allowed(e)
                   /\ \A e \in upd.insert : Allowed(e)
                   /\ \A row \in hashes : Allowed(row)

RowsInv == TypeOK /\ Remembered

-----------------------------------------------------------------------------
(* Undisturbed rotations: each one runs to its end before the next, so     *)
(* that the peppers are published in the order they are drawn and          *)
(* previousPepper is always the one before.                                *)

Fresh == /\ hashes = {} /\ pepper = 0 /\ previousPepper = 0 /\ rot = NoRotation
         /\ drops = {} /\ upd = NoUpdate /\ client = NoClient /\ served = {}

\* The server starts once, and no rotation is rejected.
OneStart ==
    /\ server = "down" => Fresh
    /\ server # "down" => spent.starts >= 1
    /\ rot.ok
    /\ rot.read = "asked" => rot.main = "pepper"
    /\ rot.main # "work" => rot.move = "todo" /\ rot.work = "users" /\ rot.todo = {}

\* The order of the peppers.
Ordered ==
    /\ pepper <= spent.rotations /\ previousPepper <= pepper
    /\ rot.main # "idle" => pepper < spent.rotations
    /\ rot.main = "work" => rot.cur = pepper /\ rot.new = spent.rotations
    /\ previousPepper = pepper => pepper = 0 \/ (rot.main = "work" /\ rot.move = "done")
    /\ rot.move = "done" => previousPepper = pepper
    /\ client.pepper # None => client.pepper <= pepper
    /\ \A e \in upd.insert : e.pepper # None => e.pepper <= pepper

\* What is to be dropped is older than what a client may still use.
OldDrops ==
    \A d \in drops : /\ d # 0 /\ d <= previousPepper
                     /\ d = previousPepper => rot.main # "idle" /\ rot.move = "todo"

\* A row is not newer than the published pepper, or made by the running
\* rotation, which has then no more to do for its user.
RowsOld ==
    \A row \in hashes :
        \/ row.pepper <= pepper
        \/ /\ rot.main = "work" /\ rot.work = "insert" /\ row.pepper = rot.new
           /\ \A e \in rot.todo : e.user # row.user

OneEntryEach == \A e, f \in rot.todo : e.user = f.user => e = f

\* Who was read for the new pepper is hashed with it, or will be.
Prepared ==
    rot.main = "work" /\ rot.work = "insert" =>
        \A u \in rot.users : Taken(u, rot.new) \/ \E e \in rot.todo : e.user = u

\* Who was served has a hash with the published pepper, and a client that uses
\* it, or the one before between two rotations, knows only users who have one.
Kept ==
    /\ \A u \in served : Taken(u, pepper)
    /\ client.pepper = pepper => client.known = served
    /\ client.pepper = previousPepper /\ rot.main = "idle" =>
         \A u \in client.known : Taken(u, client.pepper)

Steady == /\ OneStart /\ Ordered /\ OldDrops /\ RowsOld /\ OneEntryEach
          /\ Prepared /\ Kept /\ LookupFinds

RotationInv == Undisturbed => Steady

\* The hashes of the previous pepper are dropped, or about to be, before it is
\* forgotten.
Collected ==
    /\ upd = NoUpdate
    /\ \A row \in hashes :
         /\ row.pepper # 0
         /\ \/ row.pepper \in {pepper, previousPepper} \cup drops
            \/ rot.main = "work" /\ row.pepper = rot.new
         /\ row.pepper = previousPepper =>
              \/ rot.read = "asked" \/ rot.main = "idle" \/ rot.move = "done"
              \/ row.pepper \in drops

CollectedInv == Undisturbed /\ scenario.updates = 0 => Collected

-----------------------------------------------------------------------------
(* Steps and their types.                                                  *)

\* A counter that is spent stays a number, and the others stay as they are.
LEMMA Spending ==
    ASSUME TypeOK, NEW w \in {"rotations", "updates", "starts", "churn", "faults"}, Spend(w)
    PROVE  /\ spent' \in Spent /\ spent[w] < scenario[w] /\ spent'[w] = spent[w] + 1
           /\ \A v \in {"rotations", "updates", "starts", "churn", "faults"} \ {w} : spent'[v] = spent[v]
  BY DEF TypeOK, Spend, Spent, Scenario

\* A record of a running job keeps its type when a field is given a value of
\* the field's type.
LEMMA RotationTyped ==
    ASSUME NEW q \in Rotation
    PROVE  /\ NoRotation \in Rotation /\ StartedRotation \in Rotation
           /\ [NoRotation EXCEPT !.read = q.read] \in Rotation
           /\ [q EXCEPT !.read = "done"] \in Rotation
           /\ \A c, n \in Pepper : [q EXCEPT !.main = "work", !.cur = c, !.new = n] \in Rotation
           /\ [q EXCEPT !.move = "done"] \in Rotation
           /\ [q EXCEPT !.move = "done", !.ok = FALSE] \in Rotation
           /\ [q EXCEPT !.work = "insert", !.todo = {}, !.ok = FALSE] \in Rotation
           /\ \A U \in SUBSET Users : [q EXCEPT !.work = "filter", !.users = U] \in Rotation
           /\ \A U \in SUBSET Users, T \in SUBSET Entry :
                [q EXCEPT !.work = "insert", !.todo = T, !.users = U] \in Rotation
           /\ \A T \in SUBSET Entry : /\ [q EXCEPT !.todo = T] \in Rotation
                                      /\ [q EXCEPT !.todo = T, !.ok = FALSE] \in Rotation
  <1>1. NoRotation \in Rotation
    BY DEF NoRotation, Rotation, Pepper
  <1>2. StartedRotation \in Rotation
    BY DEF NoRotation, StartedRotation, Rotation, Pepper
  <1>3. /\ [NoRotation EXCEPT !.read = q.read] \in Rotation
        /\ [q EXCEPT !.read = "done"] \in Rotation
    BY <1>1 DEF Rotation
  <1>4. \A c, n \in Pepper : [q EXCEPT !.main = "work", !.cur = c, !.new = n] \in Rotation
    BY DEF Rotation
  <1>5. /\ [q EXCEPT !.move = "done"] \in Rotation
        /\ [q EXCEPT !.move = "done", !.ok = FALSE] \in Rotation
    BY DEF Rotation
  <1>6. [q EXCEPT !.work = "insert", !.todo = {}, !.ok = FALSE] \in Rotation
    BY DEF Rotation
  <1>7. \A U \in SUBSET Users : [q EXCEPT !.work = "filter", !.users = U] \in Rotation
    BY DEF Rotation
  <1>8. \A U \in SUBSET Users, T \in SUBSET Entry :
          [q EXCEPT !.work = "insert", !.todo = T, !.users = U] \in Rotation
    BY DEF Rotation
  <1>9. \A T \in SUBSET Entry : /\ [q EXCEPT !.todo = T] \in Rotation
                                /\ [q EXCEPT !.todo = T, !.ok = FALSE] \in Rotation
    BY DEF Rotation
  <1> QED BY <1>1, <1>2, <1>3, <1>4, <1>5, <1>6, <1>7, <1>8, <1>9

\* Rows that an update is to insert.
Inserts == SUBSET [user : Users, active : 0..1, pepper : Pepper \cup {None}]

LEMMA UpdateTyped ==
    ASSUME NEW q \in Update
    PROVE  /\ NoUpdate \in Update
           /\ \A P \in SUBSET Sources : [NoUpdate EXCEPT !.phase = "read", !.pend = P] \in Update
           /\ \A P \in SUBSET Sources, U, V \in SUBSET Users :
                /\ [q EXCEPT !.pend = P, !.users = U] \in Update
                /\ [q EXCEPT !.pend = P, !.known = U, !.active = V] \in Update
                /\ [q EXCEPT !.pend = P, !.members = U] \in Update
           /\ \A U, V, W \in SUBSET Users, I \in Inserts :
                [q EXCEPT !.phase = "write", !.note = U, !.activate = V, !.deactivate = W, !.insert = I] \in Update
           /\ \A U \in SUBSET Users : /\ [q EXCEPT !.note = U] \in Update
                                      /\ [q EXCEPT !.activate = U] \in Update
                                      /\ [q EXCEPT !.deactivate = U] \in Update
           /\ \A I \in Inserts : [q EXCEPT !.insert = I] \in Update
  <1>1. NoUpdate \in Update
    BY DEF NoUpdate, Update
  <1>2. \A P \in SUBSET Sources : [NoUpdate EXCEPT !.phase = "read", !.pend = P] \in Update
    BY <1>1 DEF Update
  <1>3. \A P \in SUBSET Sources, U, V \in SUBSET Users :
          /\ [q EXCEPT !.pend = P, !.users = U] \in Update
          /\ [q EXCEPT !.pend = P, !.known = U, !.active = V] \in Update
          /\ [q EXCEPT !.pend = P, !.members = U] \in Update
    BY DEF Update
  <1>4. \A U, V, W \in SUBSET Users, I \in Inserts :
          [q EXCEPT !.phase = "write", !.note = U, !.activate = V, !.deactivate = W, !.insert = I] \in Update
    BY DEF Update, Inserts
  <1>5. \A U \in SUBSET Users : /\ [q EXCEPT !.note = U] \in Update
                                /\ [q EXCEPT !.activate = U] \in Update
                                /\ [q EXCEPT !.deactivate = U] \in Update
    BY DEF Update
  <1>6. \A I \in Inserts : [q EXCEPT !.insert = I] \in Update
    BY DEF Update, Inserts
  <1> QED BY <1>1, <1>2, <1>3, <1>4, <1>5, <1>6

\* What the users are filtered to.
LEMMA FilteredTyped ==
    ASSUME NEW users \in SUBSET Users, NEW names
    PROVE  Filtered(users, names) \in SUBSET Entry
           /\ {e.user : e \in Filtered(users, names)} \in SUBSET Users
  <1>1. \A u \in users : Active(u, names) \in 0..1
    BY DEF Active
  <1>2. \A e \in Filtered(users, names) : \E u \in users : e = [user |-> u, active |-> Active(u, names)]
    BY DEF Filtered
  <1> QED BY <1>1, <1>2 DEF Entry

LEMMA TypeStep == ASSUME TypeOK, Next PROVE TypeOK'
  <1> USE DEF TypeOK, keyVars, dirVars
  <1>0. /\ scenario' = scenario /\ Happens
        /\ \A w \in {"rotations", "updates", "starts", "churn", "faults"} : Spend(w) => spent' \in Spent
        /\ Fault => spent' \in Spent
    BY Spending DEF Next, Fault
  <1>1. CASE StartRotation
    BY <1>0, <1>1, RotationTyped DEF StartRotation
  <1>2. CASE StartUpdate
    BY <1>0, <1>2, UpdateTyped DEF StartUpdate, Sources
  <1>3. CASE ReadPreviousPepper
    BY <1>0, <1>3, RotationTyped DEF ReadPreviousPepper
  <1>4. CASE DropOldHashes
    BY <1>0, <1>4 DEF DropOldHashes
  <1>r. ASSUME Reject PROVE rot' \in Rotation /\ server' \in {"down", "starting", "up"}
    BY <1>r, RotationTyped DEF Reject
  <1>5. CASE ReadPepper
    <2>1. spent.rotations \in Pepper
      BY DEF Spent, Pepper
    <2>2. [rot EXCEPT !.main = "work", !.cur = pepper, !.new = spent.rotations] \in Rotation
      BY <2>1, RotationTyped
    <2>3. rot' \in Rotation /\ spent' \in Spent /\ server' \in {"down", "starting", "up"}
      BY <1>0, <1>5, <1>r, <2>2 DEF ReadPepper
    <2> QED BY <1>0, <1>5, <2>3 DEF ReadPepper
  <1>6. CASE MovePepper
    <2>1. rot.cur \in Pepper
      BY DEF Rotation
    <2> QED BY <1>0, <1>6, <2>1, RotationTyped DEF MovePepper
  <1>7. CASE ReadUsers
    <2>0. /\ [rot EXCEPT !.work = "filter", !.users = directory] \in Rotation
          /\ [rot EXCEPT !.work = "insert", !.todo = {}, !.ok = FALSE] \in Rotation
      BY RotationTyped
    <2>1. rot' \in Rotation
      BY <1>7, <2>0 DEF ReadUsers, WorkFails
    <2> QED BY <1>0, <1>7, <2>1 DEF ReadUsers
  <1>8. CASE FilterUsers
    <2>1. rot.users \in SUBSET Users
      BY DEF Rotation
    <2>2. \A names : [rot EXCEPT !.work = "insert", !.todo = Filtered(rot.users, names),
                                 !.users = {e.user : e \in Filtered(rot.users, names)}] \in Rotation
      <3> TAKE names
      <3> DEFINE T == Filtered(rot.users, names)
                 U == {e.user : e \in T}
      <3>1. T \in SUBSET Entry /\ U \in SUBSET Users
        BY <2>1, FilteredTyped
      <3> HIDE DEF T, U
      <3>2. [rot EXCEPT !.work = "insert", !.todo = T, !.users = U] \in Rotation
        BY <3>1, RotationTyped
      <3> QED BY <3>2 DEF T, U
    <2>3. [rot EXCEPT !.work = "insert", !.todo = {}, !.ok = FALSE] \in Rotation
      BY RotationTyped
    <2>4. rot' \in Rotation
      <3>1. CASE WorkFails
        BY <2>3, <3>1 DEF WorkFails
      <3>2. PICK names \in {members, {}} : ~WorkFails =>
               rot' = [rot EXCEPT !.work = "insert", !.todo = Filtered(rot.users, names),
                                  !.users = {e.user : e \in Filtered(rot.users, names)}]
        BY <1>8 DEF FilterUsers
      <3>3. [rot EXCEPT !.work = "insert", !.todo = Filtered(rot.users, names),
                        !.users = {e.user : e \in Filtered(rot.users, names)}] \in Rotation
        BY <2>2
      <3> QED BY <3>1, <3>2, <3>3
    <2> QED BY <1>0, <1>8, <2>4 DEF FilterUsers
  <1>9. CASE InsertNewHash
    <2>1. rot.todo \in SUBSET Entry /\ rot.new \in Pepper
      BY DEF Rotation
    <2>2. \A e : rot.todo \ {e} \in SUBSET Entry
      BY <2>1
    <2>3. rot' \in Rotation
      <3>1. PICK e \in rot.todo : \/ rot' = [rot EXCEPT !.todo = rot.todo \ {e}]
                                  \/ rot' = [rot EXCEPT !.todo = rot.todo \ {e}, !.ok = FALSE]
        BY <1>9 DEF InsertNewHash
      <3> DEFINE T == rot.todo \ {e}
      <3>2. T \in SUBSET Entry
        BY <2>2
      <3> HIDE DEF T
      <3>3. [rot EXCEPT !.todo = T] \in Rotation /\ [rot EXCEPT !.todo = T, !.ok = FALSE] \in Rotation
        BY <3>2, RotationTyped
      <3> QED BY <3>1, <3>3 DEF T
    <2>4. \A e \in rot.todo : [user |-> e.user, pepper |-> rot.new, active |-> e.active] \in Row
      BY <2>1 DEF Entry, Row
    <2>5. hashes' \subseteq Row /\ spent' \in Spent
      BY <1>0, <1>9, <2>4 DEF InsertNewHash
    <2> QED BY <1>0, <1>9, <2>3, <2>5 DEF InsertNewHash
  <1>10. CASE PublishPepper
    <2>1. rot.new \in Pepper /\ rot.users \in SUBSET Users
      BY DEF Rotation
    <2>2. rot' \in Rotation /\ server' \in {"down", "starting", "up"}
      BY <1>10, <1>r, RotationTyped DEF PublishPepper
    <2> QED BY <1>0, <1>10, <2>1, <2>2 DEF PublishPepper
  <1>11. CASE RotationFails
    BY <1>0, <1>11, <1>r DEF RotationFails
  <1>12. CASE ReadUpdateUsers
    <2>1. upd.pend \ {"users"} \in SUBSET Sources
      BY DEF Update
    <2> QED BY <1>0, <1>12, <2>1, UpdateTyped DEF ReadUpdateUsers
  <1>13. CASE ReadHashes
    <2>1. upd.pend \ {"hashes"} \in SUBSET Sources
      BY DEF Update
    <2> DEFINE known == {u \in Users : {row \in hashes : row.user = u} # {}}
    <2>2. PICK act \in SUBSET known :
            upd' = [upd EXCEPT !.pend = upd.pend \ {"hashes"}, !.known = known, !.active = act]
      BY <1>13 DEF ReadHashes
    <2>3. known \in SUBSET Users /\ act \in SUBSET Users
      OBVIOUS
    <2> HIDE DEF known
    <2>4. upd' \in Update
      BY <2>1, <2>2, <2>3, UpdateTyped
    <2> QED BY <1>0, <1>13, <2>4 DEF ReadHashes
  <1>14. CASE ReadMembers
    <2>1. upd.pend \ {"members"} \in SUBSET Sources
      BY DEF Update
    <2> DEFINE P == upd.pend \ {"members"}
    <2>2. PICK U \in SUBSET Users : upd' = [upd EXCEPT !.pend = P, !.members = U]
      BY <1>14 DEF ReadMembers
    <2> HIDE DEF P
    <2>3. upd' \in Update
      BY <2>1, <2>2, UpdateTyped DEF P
    <2> QED BY <1>0, <1>14, <2>3 DEF ReadMembers
  <1>15. CASE ReadFails
    BY <1>0, <1>15, UpdateTyped DEF ReadFails
  <1>16. CASE PlanUpdate
    <2> DEFINE new == upd.users \ upd.known
               joined == ((upd.users \cap upd.known) \cap upd.members) \ upd.active
    <2>1. upd.users \in SUBSET Users /\ upd.known \in SUBSET Users
      BY DEF Update
    <2>2. NewRows(new) \in Inserts
      <3>1. \A u \in Users : Active(u, upd.members) \in 0..1
        BY DEF Active
      <3>2. \A e \in NewRows(new) : \E u \in Users :
               e = [user |-> u, active |-> Active(u, upd.members), pepper |-> None]
        BY <2>1 DEF NewRows
      <3>3. \A u \in Users, a \in 0..1 : [user |-> u, active |-> a, pepper |-> None]
                                         \in [user : Users, active : 0..1, pepper : Pepper \cup {None}]
        OBVIOUS
      <3>4. \A e \in NewRows(new) : e \in [user : Users, active : 0..1, pepper : Pepper \cup {None}]
        <4> TAKE e \in NewRows(new)
        <4>1. PICK u \in Users : e = [user |-> u, active |-> Active(u, upd.members), pepper |-> None]
          BY <3>2
        <4>2. Active(u, upd.members) \in 0..1
          BY <3>1
        <4> QED BY <3>3, <4>1, <4>2
      <3> QED BY <3>4 DEF Inserts
    <2>3. /\ {u \in new : Active(u, upd.members) = 1} \cup joined \in SUBSET Users
          /\ joined \in SUBSET Users /\ upd.known \ upd.users \in SUBSET Users
      BY <2>1
    <2>4. upd' = [upd EXCEPT !.phase = "write",
                      !.note = {u \in new : Active(u, upd.members) = 1} \cup joined,
                      !.activate = joined, !.deactivate = upd.known \ upd.users,
                      !.insert = NewRows(new)]
      BY <1>16 DEF PlanUpdate
    <2> HIDE DEF new, joined
    <2>5. upd' \in Update
      BY <2>2, <2>3, <2>4, UpdateTyped
    <2> QED BY <1>0, <1>16, <2>5 DEF PlanUpdate
  <1>w. /\ \A u : /\ upd.note \ {u} \in SUBSET Users /\ upd.activate \ {u} \in SUBSET Users
                  /\ upd.deactivate \ {u} \in SUBSET Users
        /\ upd.note \subseteq Users /\ upd.deactivate \subseteq Users
        /\ \A e : upd.insert \ {e} \in Inserts
        /\ upd.insert \in Inserts
    BY DEF Update, Inserts
  <1>17. CASE NoteActive
    <2>1. upd' \in Update
      BY <1>17, <1>w, UpdateTyped DEF NoteActive
    <2> QED BY <1>0, <1>17, <1>w, <2>1 DEF NoteActive
  <1>18. CASE ActivateRows
    <2>1. upd' \in Update
      BY <1>18, <1>w, UpdateTyped DEF ActivateRows
    <2>2. \A row \in hashes : [row EXCEPT !.active = 1] \in Row
      BY DEF Row
    <2>3. hashes' \subseteq Row
      BY <1>18, <2>2 DEF ActivateRows
    <2> QED BY <1>0, <1>18, <2>1, <2>3 DEF ActivateRows
  <1>19. CASE SetInactive
    <2>1. upd' \in Update
      BY <1>19, <1>w, UpdateTyped DEF SetInactive
    <2> QED BY <1>0, <1>19, <1>w, <2>1 DEF SetInactive
  <1>20. CASE ReadPepperForUser
    <2>1. \A e \in upd.insert : (upd.insert \ {e}) \cup {[e EXCEPT !.pepper = pepper]} \in Inserts
      BY <1>w DEF Inserts
    <2>2. upd' \in Update
      BY <1>20, <1>w, <2>1, UpdateTyped DEF ReadPepperForUser
    <2> QED BY <1>0, <1>20, <2>2 DEF ReadPepperForUser
  <1>21. CASE InsertUserHash
    <2>1. \A e \in upd.insert : e.pepper # None => e \in Row
      BY <1>w DEF Inserts, Row
    <2>2. upd' \in Update
      BY <1>21, <1>w, UpdateTyped DEF InsertUserHash
    <2>3. hashes' \subseteq Row
      BY <1>21, <2>1 DEF InsertUserHash
    <2> QED BY <1>0, <1>21, <2>2, <2>3 DEF InsertUserHash
  <1>22. CASE FinishUpdate
    BY <1>0, <1>22, UpdateTyped DEF FinishUpdate
  <1>23. CASE StartServer
    <2>1. spent' \in Spent
      <3>1. CASE spent' = [spent EXCEPT !.rotations = @ + 1, !.starts = @ + 1]
        <4>1. spent.rotations + 1 \in Nat /\ spent.starts + 1 \in Nat
          BY DEF Spent
        <4> QED BY <3>1, <4>1 DEF Spent
      <3> QED BY <1>0, <1>23, <3>1 DEF StartServer
    <2> QED BY <1>0, <1>23, <2>1, RotationTyped, UpdateTyped DEF StartServer
  <1>24. CASE Crash
    BY <1>0, <1>24, RotationTyped, UpdateTyped DEF Crash
  <1>25. CASE AddUser
    BY <1>0, <1>25 DEF AddUser
  <1>26. CASE RemoveUser
    BY <1>0, <1>26 DEF RemoveUser
  <1>27. CASE JoinMatrix
    BY <1>0, <1>27 DEF JoinMatrix
  <1>28. CASE HashDetails
    <2>1. client' \in Client
      BY <1>28 DEF HashDetails, NoClient, Client
    <2> QED BY <1>0, <1>28, <2>1 DEF HashDetails
  <1>29. CASE Lookup
    <2>1. PICK u \in Users :
             client' = [client EXCEPT
                !.answer = IF Found(u) = {} THEN "absent"
                           ELSE IF \E row \in Found(u) : row.active = 1 THEN "mapped"
                           ELSE "inactive",
                !.due = u \in client.known /\ InGrace]
      BY <1>29 DEF Lookup
    <2>2. client' \in Client
      BY <2>1 DEF Client
    <2> QED BY <1>0, <1>29, <2>2 DEF Lookup
  <1> QED BY <1>0, <1>1, <1>2, <1>3, <1>4, <1>5, <1>6, <1>7, <1>8, <1>9, <1>10, <1>11, <1>12, <1>13, <1>14,
             <1>15, <1>16, <1>17, <1>18, <1>19, <1>20, <1>21, <1>22, <1>23, <1>24, <1>25, <1>26, <1>27, <1>28, <1>29
          DEF Happens, Rotate, UpdateUsers, Environment

-----------------------------------------------------------------------------
(* Rows map only members.                                                  *)

\* filter and updateUsers allow only entries of users who were in the Matrix
\* database when it was read.
LEMMA FilteredAllowed ==
    ASSUME MatrixDb, NEW users, NEW names \in SUBSET members
    PROVE  \A e \in Filtered(users, names) : Allowed(e)
  BY DEF Filtered, Active, Allowed

LEMMA NewRowsAllowed ==
    ASSUME MatrixDb, upd.members \subseteq members, NEW new
    PROVE  \A e \in NewRows(new) : Allowed(e)
  BY DEF NewRows, Active, Allowed

LEMMA RememberedStep == ASSUME RowsInv, Next PROVE Remembered'
  <1> USE DEF keyVars, dirVars
  <1>0. /\ scenario' = scenario /\ Happens /\ TypeOK /\ Remembered
        /\ MatrixDb' = MatrixDb /\ Federated' = Federated
    BY DEF RowsInv, Next, MatrixDb, Federated
  <1>1. members \subseteq members'
    BY <1>0 DEF Happens, StartRotation, StartUpdate, Rotate, ReadPreviousPepper, DropOldHashes, ReadPepper,
                MovePepper, ReadUsers, FilterUsers, InsertNewHash, PublishPepper, RotationFails, UpdateUsers,
                ReadUpdateUsers, ReadHashes, ReadMembers, ReadFails, PlanUpdate, NoteActive, ActivateRows,
                SetInactive, ReadPepperForUser, InsertUserHash, FinishUpdate, Environment, StartServer, Crash,
                AddUser, RemoveUser, JoinMatrix, HashDetails, Lookup
  <1>2. \A e : Allowed(e) => Allowed(e)'
    BY <1>0, <1>1 DEF Allowed
  <1> DEFINE RotOK == MatrixDb => \A e \in rot'.todo : Allowed(e)
             UpdOK == /\ upd'.members \subseteq members /\ upd'.activate \subseteq members
                      /\ MatrixDb => \A e \in upd'.insert : Allowed(e)
             RowsOK == MatrixDb => \A row \in hashes' : Allowed(row)
  \* It is enough to look at what a step adds.
  <1>3. SUFFICES RotOK /\ UpdOK /\ RowsOK
    BY <1>0, <1>1, <1>2 DEF Remembered
  <1>4. rot \in Rotation /\ upd \in Update /\ hashes \subseteq Row
    BY <1>0 DEF TypeOK
  <1>5. /\ UNCHANGED rot => RotOK
        /\ rot' = NoRotation \/ rot' = StartedRotation => RotOK
        /\ rot' = [NoRotation EXCEPT !.read = rot.read] => RotOK
    <2>1. UNCHANGED rot => RotOK
      BY <1>0 DEF Remembered
    <2>2. NoRotation.todo = {} /\ StartedRotation.todo = {} /\ [NoRotation EXCEPT !.read = rot.read].todo = {}
      BY DEF NoRotation, StartedRotation
    <2>3. rot'.todo = {} => RotOK
      OBVIOUS
    <2> HIDE DEF RotOK
    <2> QED BY <2>1, <2>2, <2>3
  <1>6. UNCHANGED upd \/ upd' = NoUpdate => UpdOK
    BY <1>0 DEF Remembered, NoUpdate
  <1>7. hashes' \subseteq hashes => RowsOK
    BY <1>0 DEF Remembered
  <1>8. CASE \/ ReadPreviousPepper \/ ReadPepper \/ MovePepper \/ ReadUsers \/ FilterUsers
    <2>1. CASE ReadPreviousPepper \/ MovePepper
      <3>1. rot'.todo = rot.todo
        BY <1>4, <2>1 DEF ReadPreviousPepper, MovePepper, Rotation
      <3> QED BY <1>0, <1>6, <1>7, <2>1, <3>1 DEF Remembered, ReadPreviousPepper, MovePepper
    <2>2. CASE ReadPepper
      <3>1. rot' = [NoRotation EXCEPT !.read = rot.read] \/ rot'.todo = rot.todo
        BY <1>4, <2>2 DEF ReadPepper, Reject, Rotation
      <3> QED BY <1>0, <1>5, <1>6, <1>7, <2>2, <3>1 DEF Remembered, ReadPepper
    <2>3. CASE ReadUsers
      <3>1. rot'.todo \in {{}, rot.todo}
        BY <1>4, <2>3 DEF ReadUsers, WorkFails, Rotation
      <3> QED BY <1>0, <1>6, <1>7, <2>3, <3>1 DEF Remembered, ReadUsers
    <2>4. CASE FilterUsers
      <3>1. rot'.todo = {} \/ \E names \in SUBSET members : rot'.todo = Filtered(rot.users, names)
        BY <1>4, <2>4 DEF FilterUsers, WorkFails, Rotation
      <3> QED BY <1>0, <1>6, <1>7, <2>4, <3>1, FilteredAllowed DEF FilterUsers
    <2> QED BY <1>8, <2>1, <2>2, <2>3, <2>4
  <1>9. CASE InsertNewHash
    <2>1. PICK e \in rot.todo :
             /\ \/ rot' = [rot EXCEPT !.todo = rot.todo \ {e}]
                \/ rot' = [rot EXCEPT !.todo = rot.todo \ {e}, !.ok = FALSE]
             /\ \/ hashes' = hashes \cup {[user |-> e.user, pepper |-> rot.new, active |-> e.active]}
                \/ UNCHANGED hashes
      BY <1>9 DEF InsertNewHash
    <2>2. rot'.todo \subseteq rot.todo
      BY <1>4, <2>1 DEF Rotation
    <2>3. MatrixDb => Allowed([user |-> e.user, pepper |-> rot.new, active |-> e.active])
      BY <1>0 DEF Remembered, Allowed
    <2> QED BY <1>0, <1>6, <1>9, <2>1, <2>2, <2>3 DEF Remembered, InsertNewHash
  <1>10. CASE PublishPepper \/ RotationFails
    BY <1>5, <1>6, <1>7, <1>10 DEF PublishPepper, RotationFails, Reject
  <1>11. CASE DropOldHashes
    BY <1>5, <1>6, <1>7, <1>11 DEF DropOldHashes
  <1>12. CASE \/ ReadUpdateUsers \/ ReadHashes \/ NoteActive \/ SetInactive
    <2>1. upd'.members = upd.members /\ upd'.activate = upd.activate /\ upd'.insert = upd.insert
      BY <1>4, <1>12 DEF ReadUpdateUsers, ReadHashes, NoteActive, SetInactive, Update
    <2> QED BY <1>0, <1>5, <1>7, <1>12, <2>1
            DEF Remembered, ReadUpdateUsers, ReadHashes, NoteActive, SetInactive
  <1>13. CASE ReadMembers
    <2>1. upd'.members \in {members, {}} /\ upd'.activate = upd.activate /\ upd'.insert = upd.insert
      BY <1>4, <1>13 DEF ReadMembers, Update
    <2> QED BY <1>0, <1>5, <1>7, <1>13, <2>1 DEF Remembered, ReadMembers
  <1>14. CASE PlanUpdate
    <2>1. /\ upd'.members = upd.members /\ upd'.activate \subseteq upd.members
          /\ upd'.insert = NewRows(upd.users \ upd.known)
      BY <1>4, <1>14 DEF PlanUpdate, Update
    <2> QED BY <1>0, <1>5, <1>7, <1>14, <2>1, NewRowsAllowed DEF Remembered, PlanUpdate
  <1>15. CASE ActivateRows
    <2>1. PICK u \in upd.activate :
             /\ upd' = [upd EXCEPT !.activate = upd.activate \ {u}]
             /\ \/ hashes' = {IF row.user = u THEN [row EXCEPT !.active = 1] ELSE row : row \in hashes}
                \/ UNCHANGED hashes
      BY <1>15 DEF ActivateRows
    <2>2. upd'.members = upd.members /\ upd'.activate \subseteq upd.activate /\ upd'.insert = upd.insert
      BY <1>4, <2>1 DEF Update
    <2>3. MatrixDb => \A row \in hashes : Allowed(IF row.user = u THEN [row EXCEPT !.active = 1] ELSE row)
      BY <1>0, <1>4 DEF Remembered, Allowed, Row
    <2>4. RowsOK
      <3>1. CASE UNCHANGED hashes
        BY <1>7, <3>1
      <3>2. ASSUME ~UNCHANGED hashes, MatrixDb, NEW r \in hashes' PROVE Allowed(r)
        <4>1. PICK row \in hashes : r = IF row.user = u THEN [row EXCEPT !.active = 1] ELSE row
          BY <2>1, <3>2
        <4>2. Allowed(IF row.user = u THEN [row EXCEPT !.active = 1] ELSE row)
          BY <2>3, <3>2
        <4> QED BY <4>1, <4>2
      <3> QED BY <3>1, <3>2
    <2> QED BY <1>0, <1>5, <1>15, <2>2, <2>4 DEF Remembered, ActivateRows
  <1>16. CASE ReadPepperForUser
    <2>1. PICK e \in upd.insert :
             \/ upd' = [upd EXCEPT !.insert = (upd.insert \ {e}) \cup {[e EXCEPT !.pepper = pepper]}]
             \/ upd' = [upd EXCEPT !.insert = upd.insert \ {e}]
      BY <1>16 DEF ReadPepperForUser
    <2>2. /\ upd'.members = upd.members /\ upd'.activate = upd.activate
          /\ upd'.insert \subseteq upd.insert \cup {[e EXCEPT !.pepper = pepper]}
      BY <1>4, <2>1 DEF Update
    <2>3. MatrixDb => Allowed([e EXCEPT !.pepper = pepper])
      BY <1>0, <1>4 DEF Remembered, Allowed, Update
    <2> QED BY <1>0, <1>5, <1>7, <1>16, <2>2, <2>3 DEF Remembered, ReadPepperForUser
  <1>17. CASE InsertUserHash
    <2>1. PICK e \in upd.insert : /\ upd' = [upd EXCEPT !.insert = upd.insert \ {e}]
                                  /\ hashes' \subseteq hashes \cup {e}
      BY <1>17 DEF InsertUserHash
    <2>2. /\ upd'.members = upd.members /\ upd'.activate = upd.activate /\ upd'.insert \subseteq upd.insert
      BY <1>4, <2>1 DEF Update
    <2> QED BY <1>0, <1>5, <1>17, <2>1, <2>2 DEF Remembered, InsertUserHash
  <1>18. CASE StartUpdate
    <2>1. upd'.members = {} /\ upd'.activate = {} /\ upd'.insert = {}
      BY <1>18 DEF StartUpdate, NoUpdate
    <2> QED BY <1>5, <1>7, <1>18, <2>1 DEF StartUpdate
  <1>19. CASE \/ StartRotation \/ ReadFails \/ FinishUpdate \/ Environment
    BY <1>5, <1>6, <1>7, <1>19 DEF StartRotation, ReadFails, FinishUpdate, Environment, StartServer, Crash,
          AddUser, RemoveUser, JoinMatrix, HashDetails, Lookup
  <1> QED BY <1>0, <1>8, <1>9, <1>10, <1>11, <1>12, <1>13, <1>14, <1>15, <1>16, <1>17, <1>18, <1>19
          DEF Happens, Rotate, UpdateUsers

LEMMA RowsInvariant == Spec => []RowsInv
  <1>1. Init => RowsInv
    <2> SUFFICES ASSUME Init PROVE RowsInv
      OBVIOUS
    <2>1. TypeOK
      BY HashesAssumption DEF Init, TypeOK, NoRotation, NoUpdate, NoClient, Rotation, Update, Client, Spent,
                              Scenario, Pepper
    <2>2. Remembered
      BY DEF Init, Remembered, NoRotation, NoUpdate
    <2> QED BY <2>1, <2>2 DEF RowsInv
  <1>2. RowsInv /\ [Next]_vars => RowsInv'
    <2>1. CASE Next
      BY <2>1, TypeStep, RememberedStep DEF RowsInv
    <2>2. CASE UNCHANGED vars
      BY <2>2 DEF RowsInv, vars, keyVars, dirVars, TypeOK, Remembered, Allowed, MatrixDb, Federated
    <2> QED BY <2>1, <2>2
  <1> QED BY <1>1, <1>2, PTL DEF Spec

\* RowsConsistent: whatever the two jobs have read before, and whichever query fails, a hash is
\* well-formed, and active (with a federation, there at all) only for members of the Matrix server.
THEOREM RowsStayConsistent == Spec => []RowsConsistent
  <1>1. RowsInv => RowsConsistent
    BY DEF RowsInv, Remembered, Allowed, RowsConsistent, OnlyMembers
  <1> QED BY <1>1, RowsInvariant, PTL

-----------------------------------------------------------------------------
(* Undisturbed rotations.                                                  *)

LEMMA NumbersTyped ==
    ASSUME TypeOK
    PROVE  /\ pepper \in Nat /\ previousPepper \in Nat /\ rot.cur \in Nat /\ rot.new \in Nat
           /\ spent.rotations \in Nat /\ spent.starts \in Nat /\ spent.faults \in Nat
           /\ client.pepper \in Nat \cup {None} /\ \A d \in drops : d \in Nat
           /\ \A row \in hashes : row.pepper \in Nat
           /\ \A e \in upd.insert : e.pepper \in Nat \cup {None}
  <1>1. pepper \in Nat /\ previousPepper \in Nat /\ \A d \in drops : d \in Nat
    BY DEF TypeOK, Pepper
  <1>2. rot.cur \in Nat /\ rot.new \in Nat
    BY DEF TypeOK, Rotation, Pepper
  <1>3. spent.rotations \in Nat /\ spent.starts \in Nat /\ spent.faults \in Nat
    BY DEF TypeOK, Spent
  <1>4. client.pepper \in Nat \cup {None} /\ \A row \in hashes : row.pepper \in Nat
    BY DEF TypeOK, Client, Row, Pepper
  <1>5. \A e \in upd.insert : e.pepper \in Nat \cup {None}
    BY DEF TypeOK, Update, Pepper
  <1> QED BY <1>1, <1>2, <1>3, <1>4, <1>5

\* No query fails, and the process is neither stopped nor started again.
LEMMA NothingFails ==
    ASSUME TypeOK, Undisturbed, Steady
    PROVE  /\ ~Fault /\ ~ReadFails /\ ~RotationFails /\ ~Crash
           /\ server # "down" => ~StartServer
  <1>1. scenario.faults = 0 /\ scenario.starts = 1 /\ spent.faults \in Nat /\ spent.starts \in Nat
    BY NumbersTyped DEF Undisturbed
  <1>2. ~Fault
    BY <1>1 DEF Fault, Spend
  <1>3. ~RotationFails
    BY DEF RotationFails, Steady, OneStart
  <1>4. ~Crash
    BY <1>1 DEF Crash, Steady, OneStart
  <1> QED BY <1>2, <1>3, <1>4 DEF ReadFails, StartServer

\* A step of updateUsers or of the directory does not meddle with a rotation.
LEMMA AsideStep ==
    ASSUME TypeOK, Steady, UNCHANGED <<hashes, keyVars, rot, drops, client, served, server>>,
           spent'.starts = spent.starts, spent'.rotations = spent.rotations,
           UNCHANGED upd \/ server # "down",
           \A e \in upd'.insert : e.pepper # None => e.pepper <= pepper
    PROVE  Steady'
  <1> USE DEF keyVars
  <1>1. OneStart'
    BY DEF Steady, OneStart, Fresh
  <1>2. Ordered'
    BY DEF Steady, Ordered
  <1>3. OldDrops' /\ RowsOld' /\ OneEntryEach' /\ LookupFinds'
    BY DEF Steady, OldDrops, RowsOld, OneEntryEach, LookupFinds
  <1>4. Prepared' /\ Kept'
    BY DEF Steady, Prepared, Kept, Taken
  <1> QED BY <1>1, <1>2, <1>3, <1>4 DEF Steady

\* Nor does a row that it adds or activates.
LEMMA RowsStep ==
    ASSUME TypeOK, Steady, UNCHANGED <<keyVars, rot, drops, client, served, server>>,
           spent'.starts = spent.starts, spent'.rotations = spent.rotations, server # "down",
           \A e \in upd'.insert : e.pepper # None => e.pepper <= pepper,
           \A row \in hashes : \E r \in hashes' : r.pepper = row.pepper /\ r.user = row.user,
           \A r \in hashes' : \/ r.pepper <= pepper
                              \/ \E row \in hashes : r.pepper = row.pepper /\ r.user = row.user
    PROVE  Steady'
  <1> USE DEF keyVars
  <1>1. OneStart'
    BY DEF Steady, OneStart
  <1>2. Ordered'
    BY DEF Steady, Ordered
  <1>3. OldDrops' /\ OneEntryEach' /\ LookupFinds'
    BY DEF Steady, OldDrops, OneEntryEach, LookupFinds
  <1>4. RowsOld'
    BY DEF Steady, RowsOld
  <1>5. \A u, p : Taken(u, p) => Taken(u, p)'
    BY DEF Taken
  <1>6. Prepared'
    BY <1>5 DEF Steady, Prepared
  <1>7. Kept'
    BY <1>5 DEF Steady, Kept
  <1> QED BY <1>1, <1>2, <1>3, <1>4, <1>6, <1>7 DEF Steady

LEMMA UpdateSteady == ASSUME TypeOK, Undisturbed, Steady, UpdateUsers PROVE Steady'
  <1> USE DEF keyVars, dirVars
  <1>0. ~Fault /\ ~ReadFails /\ upd \in Update /\ hashes \subseteq Row /\ pepper \in Nat
    BY NothingFails, NumbersTyped DEF TypeOK
  <1>1. upd.phase # "idle"
    BY DEF UpdateUsers, ReadUpdateUsers, ReadHashes, ReadMembers, ReadFails, Reading, PlanUpdate, NoteActive,
           ActivateRows, SetInactive, ReadPepperForUser, InsertUserHash, FinishUpdate
  <1>2. server # "down"
    BY <1>1 DEF Steady, OneStart, Fresh, NoUpdate
  <1>3. \A e \in upd.insert : e.pepper # None => e.pepper <= pepper
    BY DEF Steady, Ordered
  <1>4. CASE \/ ReadUpdateUsers \/ ReadHashes \/ ReadMembers \/ NoteActive \/ SetInactive
    <2>1. upd'.insert = upd.insert
      BY <1>0, <1>4 DEF ReadUpdateUsers, ReadHashes, ReadMembers, NoteActive, SetInactive, Update
    <2>2. UNCHANGED <<hashes, keyVars, rot, drops, client, served, server, spent>>
      BY <1>0, <1>4 DEF ReadUpdateUsers, ReadHashes, ReadMembers, NoteActive, SetInactive
    <2> QED BY <1>2, <1>3, <2>1, <2>2, AsideStep
  <1>5. CASE PlanUpdate
    <2>1. upd'.insert = NewRows(upd.users \ upd.known)
      BY <1>0, <1>5 DEF PlanUpdate, Update
    <2>2. \A e \in upd'.insert : e.pepper = None
      BY <2>1 DEF NewRows
    <2> QED BY <1>2, <1>5, <2>2, AsideStep DEF PlanUpdate
  <1>6. CASE ReadPepperForUser
    <2>1. PICK e \in upd.insert :
             upd' = [upd EXCEPT !.insert = (upd.insert \ {e}) \cup {[e EXCEPT !.pepper = pepper]}]
      BY <1>0, <1>6 DEF ReadPepperForUser
    <2> DEFINE g == [e EXCEPT !.pepper = pepper]
    <2>2. upd'.insert = (upd.insert \ {e}) \cup {g}
      BY <1>0, <2>1 DEF Update
    <2>3. g.pepper = pepper
      BY <1>0 DEF Update
    <2> HIDE DEF g
    <2>4. \A f \in upd'.insert : f.pepper # None => f.pepper <= pepper
      BY <1>0, <1>3, <2>2, <2>3
    <2>5. UNCHANGED <<hashes, keyVars, rot, drops, client, served, server, spent>>
      BY <1>0, <1>6 DEF ReadPepperForUser
    <2> QED BY <1>2, <2>4, <2>5, AsideStep
  <1>7. CASE FinishUpdate
    <2>1. upd'.insert = {}
      BY <1>7 DEF FinishUpdate, NoUpdate
    <2> QED BY <1>2, <1>7, <2>1, AsideStep DEF FinishUpdate
  <1>8. CASE ActivateRows
    <2>1. PICK u \in upd.activate :
             /\ upd' = [upd EXCEPT !.activate = upd.activate \ {u}]
             /\ hashes' = {IF row.user = u THEN [row EXCEPT !.active = 1] ELSE row : row \in hashes}
      BY <1>0, <1>8 DEF ActivateRows
    <2> DEFINE new(row) == IF row.user = u THEN [row EXCEPT !.active = 1] ELSE row
    <2>2. \A row \in hashes : new(row).pepper = row.pepper /\ new(row).user = row.user
      BY <1>0 DEF Row
    <2>3. hashes' = {new(row) : row \in hashes}
      BY <2>1
    <2>4. upd'.insert = upd.insert
      BY <1>0, <2>1 DEF Update
    <2>5. UNCHANGED <<keyVars, rot, drops, client, served, server, spent>>
      BY <1>0, <1>8 DEF ActivateRows
    <2> HIDE DEF new
    <2>6. /\ \A row \in hashes : \E r \in hashes' : r.pepper = row.pepper /\ r.user = row.user
          /\ \A r \in hashes' : \E row \in hashes : r.pepper = row.pepper /\ r.user = row.user
      BY <2>2, <2>3
    <2> QED BY <1>2, <1>3, <2>4, <2>5, <2>6, RowsStep
  <1>9. CASE InsertUserHash
    <2>1. PICK e \in upd.insert :
             /\ e.pepper # None /\ upd' = [upd EXCEPT !.insert = upd.insert \ {e}]
             /\ hashes' \in {hashes, hashes \cup {e}}
      BY <1>0, <1>9 DEF InsertUserHash
    <2>2. upd'.insert \subseteq upd.insert
      BY <1>0, <2>1 DEF Update
    <2>3. UNCHANGED <<keyVars, rot, drops, client, served, server, spent>>
      BY <1>0, <1>9 DEF InsertUserHash
    <2>4. e.pepper <= pepper
      BY <1>3, <2>1
    <2> QED BY <1>2, <1>3, <2>1, <2>2, <2>3, <2>4, RowsStep
  <1> QED BY <1>0, <1>4, <1>5, <1>6, <1>7, <1>8, <1>9 DEF UpdateUsers

\* A rotation starts, by the cron job or with the server.
LEMMA StartSteady ==
    ASSUME TypeOK, Undisturbed, Steady, StartRotation \/ StartServer
    PROVE  Steady'
  <1> USE DEF keyVars, dirVars
  <1>1. /\ pepper \in Nat /\ previousPepper \in Nat /\ spent.rotations \in Nat /\ spent.starts \in Nat
        /\ spent \in Spent /\ client.pepper \in Nat \cup {None}
    BY NumbersTyped DEF TypeOK
  <1>2. /\ rot' = StartedRotation /\ UNCHANGED <<hashes, pepper, previousPepper, drops, upd, client, served>>
        /\ spent'.rotations = spent.rotations + 1 /\ spent'.starts >= 1 /\ server' # "down"
        /\ rot.main = "idle"
    <2>1. CASE StartRotation
      <3>1. spent'.rotations = spent.rotations + 1 /\ spent'.starts = spent.starts
        BY <2>1, Spending DEF StartRotation
      <3> QED BY <2>1, <3>1 DEF StartRotation, Idle, Steady, OneStart
    <2>2. CASE StartServer
      <3>1. Fresh
        BY <2>2 DEF StartServer, Steady, OneStart
      <3>2. spent' = [spent EXCEPT !.rotations = @ + 1, !.starts = @ + 1]
        BY <2>2, <3>1 DEF StartServer, Fresh
      <3>3. spent'.rotations = spent.rotations + 1 /\ spent'.starts = spent.starts + 1
        BY <1>1, <3>2 DEF Spent
      <3>4. spent'.starts >= 1
        BY <1>1, <3>3
      <3>5. rot' = StartedRotation /\ server' = "starting"
        BY <2>2, <3>1 DEF StartServer, Fresh
      <3> QED BY <2>2, <3>1, <3>3, <3>4, <3>5 DEF StartServer, Fresh, NoRotation
    <2> QED BY <2>1, <2>2
  <1>3. /\ rot'.read = "asked" /\ rot'.main = "pepper" /\ rot'.move = "todo" /\ rot'.work = "users"
        /\ rot'.todo = {} /\ rot'.ok = TRUE
    BY <1>2 DEF StartedRotation, NoRotation
  <1>4. OneStart'
    BY <1>2, <1>3 DEF OneStart
  <1>5. Ordered'
    BY <1>1, <1>2, <1>3 DEF Steady, Ordered
  <1>6. OldDrops'
    BY <1>2, <1>3 DEF Steady, OldDrops
  <1>7. RowsOld'
    BY <1>2, <1>3 DEF Steady, RowsOld
  <1>8. OneEntryEach' /\ Prepared' /\ LookupFinds'
    BY <1>2, <1>3 DEF Steady, OneEntryEach, Prepared, LookupFinds
  <1>9. Kept'
    BY <1>2, <1>3 DEF Steady, Kept, Taken
  <1> QED BY <1>4, <1>5, <1>6, <1>7, <1>8, <1>9 DEF Steady

\* The steps of a rotation that leave the table hashes alone.
LEMMA ReadSteady ==
    ASSUME TypeOK, Undisturbed, Steady, ReadPreviousPepper \/ ReadPepper \/ MovePepper \/ ReadUsers \/ FilterUsers
    PROVE  Steady'
  <1> USE DEF keyVars, dirVars
  <1>0. ~Fault /\ rot \in Rotation /\ scenario.ordered
    BY NothingFails DEF TypeOK, Undisturbed
  <1>1. /\ pepper \in Nat /\ previousPepper \in Nat /\ spent.rotations \in Nat
        /\ client.pepper \in Nat \cup {None}
    BY NumbersTyped
  <1>2. UNCHANGED <<hashes, pepper, upd, client, served, server, spent>>
    BY <1>0 DEF ReadPreviousPepper, ReadPepper, MovePepper, ReadUsers, FilterUsers
  <1>3. /\ OneStart /\ Ordered /\ OldDrops /\ RowsOld /\ OneEntryEach /\ Prepared /\ Kept
        /\ LookupFinds'
    BY <1>2 DEF Steady, LookupFinds
  <1>4. CASE ReadPreviousPepper
    <2>1. /\ rot'.read = "done" /\ rot'.main = rot.main /\ rot'.cur = rot.cur /\ rot'.new = rot.new
          /\ rot'.move = rot.move /\ rot'.work = rot.work /\ rot'.users = rot.users
          /\ rot'.todo = rot.todo /\ rot'.ok = rot.ok /\ rot.read = "asked"
      BY <1>0, <1>4 DEF ReadPreviousPepper, Rotation
    <2>2. /\ drops' = IF previousPepper = 0 THEN drops ELSE drops \cup {previousPepper}
          /\ UNCHANGED previousPepper /\ rot.main = "pepper" /\ server # "down"
      BY <1>0, <1>3, <1>4, <2>1 DEF ReadPreviousPepper, OneStart, Fresh, NoRotation
    <2>3. OneStart'
      BY <1>2, <1>3, <2>1, <2>2 DEF OneStart
    <2>4. Ordered' /\ RowsOld' /\ OneEntryEach'
      BY <1>2, <1>3, <2>1, <2>2 DEF Ordered, RowsOld, OneEntryEach
    <2>5. OldDrops'
      <3>1. rot.move = "todo" \/ previousPepper = 0
        BY <1>0, <1>3, <2>2 DEF Ordered, Rotation
      <3> QED BY <1>1, <1>3, <2>1, <2>2, <3>1 DEF OldDrops
    <2>6. Prepared' /\ Kept'
      BY <1>2, <1>3, <2>1, <2>2 DEF Prepared, Kept, Taken
    <2> QED BY <1>3, <2>3, <2>4, <2>5, <2>6 DEF Steady
  <1>5. CASE ReadPepper
    <2>1. /\ rot'.read = rot.read /\ rot'.main = "work" /\ rot'.cur = pepper /\ rot'.new = spent.rotations
          /\ rot'.move = rot.move /\ rot'.work = rot.work /\ rot'.users = rot.users
          /\ rot'.todo = rot.todo /\ rot'.ok = rot.ok /\ rot.read = "done" /\ rot.main = "pepper"
      BY <1>0, <1>5 DEF ReadPepper, Rotation
    <2>2. UNCHANGED <<previousPepper, drops>> /\ server # "down"
      BY <1>3, <1>5, <2>1 DEF ReadPepper, OneStart, Fresh, NoRotation
    <2>3. rot.move = "todo" /\ rot.work = "users" /\ rot.todo = {}
      BY <1>3, <2>1 DEF OneStart
    <2>4. OneStart'
      BY <1>2, <1>3, <2>1, <2>2 DEF OneStart
    <2>5. Ordered'
      BY <1>2, <1>3, <2>1, <2>2, <2>3 DEF Ordered
    <2>6. OldDrops' /\ RowsOld'
      BY <1>2, <1>3, <2>1, <2>2 DEF OldDrops, RowsOld
    <2>7. OneEntryEach' /\ Prepared'
      BY <2>1, <2>3 DEF OneEntryEach, Prepared
    <2>8. Kept'
      BY <1>2, <1>3, <2>1, <2>2 DEF Kept, Taken
    <2> QED BY <1>3, <2>4, <2>5, <2>6, <2>7, <2>8 DEF Steady
  <1>6. CASE MovePepper
    <2>1. /\ rot'.read = rot.read /\ rot'.main = rot.main /\ rot'.cur = rot.cur /\ rot'.new = rot.new
          /\ rot'.move = "done" /\ rot'.work = rot.work /\ rot'.users = rot.users
          /\ rot'.todo = rot.todo /\ rot'.ok = rot.ok /\ rot.main = "work" /\ rot.move = "todo"
      BY <1>0, <1>6 DEF MovePepper, Rotation
    <2>2. UNCHANGED drops /\ server # "down" /\ previousPepper' = rot.cur /\ rot.cur = pepper
      BY <1>0, <1>3, <1>6, <2>1 DEF MovePepper, OneStart, Fresh, NoRotation, Ordered
    <2>3. OneStart'
      BY <1>2, <1>3, <2>1, <2>2 DEF OneStart
    <2>4. Ordered'
      BY <1>1, <1>2, <1>3, <2>1, <2>2 DEF Ordered
    <2>5. OldDrops'
      <3>1. \A d \in drops : d \in Nat
        BY NumbersTyped
      <3> QED BY <1>1, <1>3, <2>1, <2>2, <3>1 DEF OldDrops, Ordered
    <2>6. RowsOld' /\ OneEntryEach'
      BY <1>2, <1>3, <2>1 DEF RowsOld, OneEntryEach
    <2>7. Prepared' /\ Kept'
      BY <1>2, <1>3, <2>1, <2>2 DEF Prepared, Kept, Taken
    <2> QED BY <1>3, <2>3, <2>4, <2>5, <2>6, <2>7 DEF Steady
  <1>7. CASE ReadUsers \/ FilterUsers
    <2>1. /\ rot'.read = rot.read /\ rot'.main = rot.main /\ rot'.cur = rot.cur /\ rot'.new = rot.new
          /\ rot'.move = rot.move /\ rot'.ok = rot.ok /\ rot.main = "work" /\ rot.work # "insert"
      BY <1>0, <1>7 DEF ReadUsers, FilterUsers, Rotation
    <2>2. \/ rot'.work = "filter" /\ rot'.todo = rot.todo
          \/ /\ rot'.work = "insert" /\ rot'.todo = Filtered(rot.users, members)
             /\ rot'.users = {e.user : e \in Filtered(rot.users, members)}
      BY <1>0, <1>7 DEF ReadUsers, FilterUsers, Rotation
    <2>3. UNCHANGED <<drops, previousPepper>> /\ server # "down"
      BY <1>3, <1>7, <2>1 DEF ReadUsers, FilterUsers, OneStart, Fresh, NoRotation
    <2>4. OneStart' /\ Ordered' /\ OldDrops'
      BY <1>2, <1>3, <2>1, <2>3 DEF OneStart, Ordered, OldDrops
    <2>5. RowsOld'
      BY <1>2, <1>3, <2>1 DEF RowsOld
    <2>6. OneEntryEach'
      <3>1. \A e, f \in Filtered(rot.users, members) : e.user = f.user => e = f
        BY DEF Filtered
      <3> QED BY <1>3, <2>2, <3>1 DEF OneEntryEach
    <2>7. Prepared'
      BY <2>2 DEF Prepared
    <2>8. Kept'
      BY <1>2, <1>3, <2>1, <2>3 DEF Kept, Taken
    <2> QED BY <1>3, <2>4, <2>5, <2>6, <2>7, <2>8 DEF Steady
  <1> QED BY <1>4, <1>5, <1>6, <1>7

\* Old hashes are dropped: none that a client may rely on.
LEMMA DropSteady == ASSUME TypeOK, Undisturbed, Steady, DropOldHashes PROVE Steady'
  <1> USE DEF keyVars, dirVars
  <1>0. /\ ~Fault /\ OneStart /\ Ordered /\ OldDrops /\ RowsOld /\ OneEntryEach /\ Prepared /\ Kept
        /\ LookupFinds
    BY NothingFails DEF Steady
  <1>1. /\ pepper \in Nat /\ previousPepper \in Nat /\ spent.rotations \in Nat
        /\ client.pepper \in Nat \cup {None} /\ \A d \in drops : d \in Nat
    BY NumbersTyped
  <1>2. PICK p \in drops : drops' = drops \ {p} /\ hashes' = {row \in hashes : row.pepper # p}
    BY <1>0 DEF DropOldHashes
  <1>3. UNCHANGED <<pepper, previousPepper, rot, upd, client, served, server, spent>> /\ server # "down"
    BY <1>0, <1>2 DEF DropOldHashes, OneStart, Fresh
  <1>4. p # pepper /\ p <= pepper /\ (p = previousPepper => rot.main # "idle")
    BY <1>0, <1>1, <1>2 DEF OldDrops, Ordered
  <1>5. \A u, q : q # p /\ Taken(u, q) => Taken(u, q)'
    BY <1>2 DEF Taken
  <1>6. OneStart' /\ Ordered' /\ OldDrops' /\ OneEntryEach' /\ LookupFinds'
    BY <1>0, <1>2, <1>3 DEF OneStart, Ordered, OldDrops, OneEntryEach, LookupFinds
  <1>7. RowsOld'
    BY <1>0, <1>2, <1>3 DEF RowsOld
  <1>8. Prepared'
    BY <1>0, <1>1, <1>3, <1>4, <1>5 DEF Prepared, Ordered
  <1>9. Kept'
    BY <1>0, <1>3, <1>4, <1>5 DEF Kept
  <1> QED BY <1>6, <1>7, <1>8, <1>9 DEF Steady

\* Hashes of the new pepper are made.
LEMMA InsertSteady == ASSUME TypeOK, Undisturbed, Steady, InsertNewHash PROVE Steady'
  <1> USE DEF keyVars, dirVars
  <1>0. /\ ~Fault /\ OneStart /\ Ordered /\ OldDrops /\ RowsOld /\ OneEntryEach /\ Prepared /\ Kept
        /\ LookupFinds /\ rot \in Rotation /\ hashes \subseteq Row
    BY NothingFails DEF Steady, TypeOK
  <1>1. /\ pepper \in Nat /\ spent.rotations \in Nat /\ \A row \in hashes : row.pepper \in Nat
    BY NumbersTyped
  <1>2. /\ UNCHANGED <<pepper, previousPepper, drops, upd, client, served, server, spent>>
        /\ rot.main = "work" /\ rot.work = "insert"
    BY <1>0 DEF InsertNewHash
  <1>3. PICK e \in rot.todo :
          \/ /\ hashes' = hashes \cup {[user |-> e.user, pepper |-> rot.new, active |-> e.active]}
             /\ rot' = [rot EXCEPT !.todo = rot.todo \ {e}]
          \/ Taken(e.user, rot.new)
    BY <1>0 DEF InsertNewHash
  <1>4. rot.new > pepper /\ e \in Entry
    BY <1>0, <1>1, <1>2 DEF Ordered, Rotation
  <1>5. ~Taken(e.user, rot.new)
    <2> SUFFICES ASSUME NEW row \in hashes, row.pepper = rot.new, AddressOf[row.user] = AddressOf[e.user]
                 PROVE  FALSE
      BY DEF Taken
    <2>1. row.user = e.user
      BY <1>0, <1>4 DEF Undisturbed, Unshared, Row, Entry
    <2> QED BY <1>0, <1>1, <1>4, <2>1 DEF RowsOld
  <1> DEFINE r == [user |-> e.user, pepper |-> rot.new, active |-> e.active]
  <1>6. r.user = e.user /\ r.pepper = rot.new
    OBVIOUS
  <1>7. hashes' = hashes \cup {r} /\ rot' = [rot EXCEPT !.todo = rot.todo \ {e}]
    BY <1>3, <1>5
  <1>8. /\ rot'.read = rot.read /\ rot'.main = rot.main /\ rot'.cur = rot.cur /\ rot'.new = rot.new
        /\ rot'.move = rot.move /\ rot'.work = rot.work /\ rot'.users = rot.users
        /\ rot'.todo = rot.todo \ {e} /\ rot'.ok = rot.ok
    BY <1>0, <1>7 DEF Rotation
  <1> HIDE DEF r
  <1>9. OneStart' /\ Ordered' /\ OldDrops' /\ LookupFinds'
    <2>1. server # "down"
      BY <1>0, <1>2 DEF OneStart, Fresh, NoRotation
    <2> QED BY <1>0, <1>2, <1>8, <2>1 DEF OneStart, Ordered, OldDrops, LookupFinds
  <1>10. OneEntryEach'
    BY <1>0, <1>8 DEF OneEntryEach
  <1>11. RowsOld'
    <2>1. \A f \in rot.todo \ {e} : f.user # e.user
      BY <1>0 DEF OneEntryEach
    <2> QED BY <1>0, <1>2, <1>6, <1>7, <1>8, <2>1 DEF RowsOld
  <1>12. \A u, q : Taken(u, q) => Taken(u, q)'
    BY <1>7 DEF Taken
  <1>13. Taken(e.user, rot.new)'
    BY <1>6, <1>7, <1>8 DEF Taken
  <1>14. Prepared'
    BY <1>0, <1>2, <1>8, <1>12, <1>13 DEF Prepared
  <1>15. Kept'
    BY <1>0, <1>2, <1>8, <1>12 DEF Kept
  <1> QED BY <1>9, <1>10, <1>11, <1>14, <1>15 DEF Steady

\* The new pepper is published when everyone has a hash with it.
LEMMA PublishSteady == ASSUME TypeOK, Undisturbed, Steady, PublishPepper PROVE Steady'
  <1> USE DEF keyVars, dirVars
  <1>0. /\ ~Fault /\ OneStart /\ Ordered /\ OldDrops /\ RowsOld /\ OneEntryEach /\ Prepared /\ Kept
        /\ LookupFinds
    BY NothingFails DEF Steady
  <1>1. /\ pepper \in Nat /\ previousPepper \in Nat /\ spent.rotations \in Nat
        /\ client.pepper \in Nat \cup {None} /\ \A d \in drops : d \in Nat
        /\ \A row \in hashes : row.pepper \in Nat
        /\ \A e \in upd.insert : e.pepper \in Nat \cup {None}
        /\ None \notin Nat
    BY NumbersTyped, HashesAssumption
  <1>2. /\ rot.main = "work" /\ rot.move = "done" /\ rot.work = "insert" /\ rot.todo = {}
        /\ pepper' = rot.new /\ served' = rot.users /\ server' = "up"
        /\ rot' = [NoRotation EXCEPT !.read = rot.read]
        /\ UNCHANGED <<previousPepper, hashes, drops, upd, client, spent>>
    BY <1>0 DEF PublishPepper, Worked
  <1>3. /\ rot.cur = pepper /\ rot.new = spent.rotations /\ pepper < rot.new /\ previousPepper = pepper
        /\ server # "down" /\ rot.read # "asked"
    BY <1>0, <1>2 DEF Ordered, OneStart, Fresh, NoRotation
  <1>4. /\ rot'.main = "idle" /\ rot'.move = "todo" /\ rot'.work = "users" /\ rot'.todo = {}
        /\ rot'.ok = TRUE /\ rot'.read = rot.read
    BY <1>2 DEF NoRotation
  <1>5. OneStart' /\ OneEntryEach' /\ Prepared' /\ LookupFinds'
    BY <1>0, <1>2, <1>3, <1>4 DEF OneStart, OneEntryEach, Prepared, LookupFinds
  <1>6. Ordered'
    BY <1>0, <1>1, <1>2, <1>3, <1>4 DEF Ordered
  <1>7. OldDrops'
    BY <1>0, <1>2, <1>4 DEF OldDrops
  <1>8. RowsOld'
    BY <1>0, <1>1, <1>2, <1>3 DEF RowsOld
  <1>9. Kept'
    <2>1. \A u \in served' : Taken(u, rot.new)
      BY <1>0, <1>2 DEF Prepared
    <2>2. \A u, q : Taken(u, q) => Taken(u, q)'
      BY <1>2 DEF Taken
    <2>3. client'.pepper # pepper'
      BY <1>0, <1>1, <1>2, <1>3 DEF Ordered
    <2> QED BY <1>0, <1>2, <1>3, <2>1, <2>2, <2>3 DEF Kept
  <1> QED BY <1>5, <1>6, <1>7, <1>8, <1>9 DEF Steady

\* A client asks.
LEMMA ClientSteady == ASSUME TypeOK, Undisturbed, Steady, HashDetails \/ Lookup PROVE Steady'
  <1> USE DEF keyVars, dirVars
  <1>0. /\ OneStart /\ Ordered /\ OldDrops /\ RowsOld /\ OneEntryEach /\ Prepared /\ Kept
        /\ LookupFinds /\ client \in Client /\ pepper \in Nat
    BY NumbersTyped DEF Steady, TypeOK
  <1>1. /\ UNCHANGED <<hashes, pepper, previousPepper, rot, drops, upd, served, server, spent>>
        /\ server = "up"
    BY DEF HashDetails, Lookup
  <1>2. OneStart' /\ OldDrops' /\ RowsOld' /\ OneEntryEach'
    BY <1>0, <1>1 DEF OneStart, OldDrops, RowsOld, OneEntryEach
  <1>3. Prepared' /\ \A u, q : Taken(u, q)' = Taken(u, q)
    BY <1>0, <1>1 DEF Prepared, Taken
  <1>4. CASE HashDetails
    <2>1. client'.pepper = pepper /\ client'.known = served /\ client'.due = FALSE
      BY <1>4 DEF HashDetails, NoClient
    <2>2. Ordered' /\ LookupFinds'
      BY <1>0, <1>1, <2>1 DEF Ordered, LookupFinds
    <2>3. Kept'
      BY <1>0, <1>1, <1>3, <2>1 DEF Kept
    <2> QED BY <1>2, <1>3, <2>2, <2>3 DEF Steady
  <1>5. CASE Lookup
    <2>1. PICK u \in Users :
            /\ client'.pepper = client.pepper /\ client'.known = client.known
            /\ client'.due = (u \in client.known /\ InGrace)
            /\ client'.answer = "absent" => Found(u) = {}
      BY <1>0, <1>5 DEF Lookup, Client
    <2>2. Ordered'
      BY <1>0, <1>1, <2>1 DEF Ordered
    <2>3. Kept'
      BY <1>0, <1>1, <1>3, <2>1 DEF Kept
    <2>4. u \in client.known /\ InGrace => Taken(u, client.pepper)
      BY <1>0 DEF Kept, InGrace, Idle
    <2>5. Taken(u, client.pepper) => Found(u) # {}
      BY DEF Taken, Found
    <2>6. LookupFinds'
      BY <2>1, <2>4, <2>5 DEF LookupFinds
    <2> QED BY <1>2, <1>3, <2>2, <2>3, <2>6 DEF Steady
  <1> QED BY <1>4, <1>5

LEMMA RotationStep == ASSUME TypeOK, RotationInv, Next PROVE RotationInv'
  <1> SUFFICES ASSUME Undisturbed' PROVE Steady'
    BY DEF RotationInv
  <1>1. Undisturbed /\ Steady /\ Happens
    BY DEF Next, Undisturbed, RotationInv
  <1>2. CASE StartRotation \/ StartServer
    BY <1>1, <1>2, StartSteady
  <1>3. CASE ReadPreviousPepper \/ ReadPepper \/ MovePepper \/ ReadUsers \/ FilterUsers
    BY <1>1, <1>3, ReadSteady
  <1>4. CASE StartUpdate
    <2>1. upd'.insert = {}
      BY <1>4 DEF StartUpdate, NoUpdate
    <2>2. spent'.starts = spent.starts /\ spent'.rotations = spent.rotations
      BY <1>4, Spending DEF StartUpdate
    <2> QED BY <1>1, <1>4, <2>1, <2>2, AsideStep DEF StartUpdate
  <1>5. CASE AddUser \/ RemoveUser \/ JoinMatrix
    <2>1. spent'.starts = spent.starts /\ spent'.rotations = spent.rotations
      BY <1>5, Spending DEF AddUser, RemoveUser, JoinMatrix
    <2>2. \A e \in upd.insert : e.pepper # None => e.pepper <= pepper
      BY <1>1 DEF Steady, Ordered
    <2> QED BY <1>1, <1>5, <2>1, <2>2, AsideStep DEF AddUser, RemoveUser, JoinMatrix
  <1> QED BY <1>1, <1>2, <1>3, <1>4, <1>5, NothingFails, UpdateSteady, DropSteady, InsertSteady, PublishSteady,
             ClientSteady
          DEF Happens, Rotate, Environment

LEMMA RotationInvariant == Spec => []RotationInv
  <1>1. Init => RotationInv
    <2> SUFFICES ASSUME Init PROVE Steady
      BY DEF RotationInv
    <2>1. OneStart /\ OldDrops /\ RowsOld /\ OneEntryEach /\ LookupFinds
      BY DEF Init, OneStart, Fresh, OldDrops, RowsOld, OneEntryEach, LookupFinds, NoRotation, NoClient
    <2>2. Ordered
      BY HashesAssumption DEF Init, Ordered, NoRotation, NoClient, NoUpdate
    <2>3. Prepared /\ Kept
      BY HashesAssumption DEF Init, Prepared, Kept, NoRotation, NoClient
    <2> QED BY <2>1, <2>2, <2>3 DEF Steady
  <1>2. TypeOK /\ RotationInv /\ [Next]_vars => RotationInv'
    <2>1. CASE Next
      BY <2>1, RotationStep
    <2>2. CASE UNCHANGED vars
      BY <2>2 DEF vars, keyVars, dirVars, RotationInv, Undisturbed, Steady, OneStart, Fresh, Ordered, OldDrops,
                  RowsOld, OneEntryEach, Prepared, Kept, Taken, LookupFinds
    <2> QED BY <2>1, <2>2
  <1>3. RowsInv => TypeOK
    BY DEF RowsInv
  <1> QED BY <1>1, <1>2, <1>3, RowsInvariant, PTL DEF Spec

\* LookupFindsUndisturbed: whatever updateUsers, the directory and other rotations do, a client
\* that uses the published pepper, or the one before between two rotations, finds every user who
\* was hashed for it, for rotations that neither fail nor are interrupted.
THEOREM LookupFindsWhoWasHashed == Spec => []LookupFindsUndisturbed
  <1>1. RotationInv => LookupFindsUndisturbed
    BY DEF RotationInv, Steady, LookupFindsUndisturbed
  <1> QED BY <1>1, RotationInvariant, PTL

-----------------------------------------------------------------------------
(* Rotations collect the hashes of old peppers.                            *)

LEMMA CollectedStep ==
    ASSUME TypeOK, RotationInv, CollectedInv, Next
    PROVE  CollectedInv'
  <1> USE DEF keyVars, dirVars
  <1> SUFFICES ASSUME Undisturbed', scenario'.updates = 0 PROVE Collected'
    BY DEF CollectedInv
  <1>1. /\ Undisturbed /\ Steady /\ Collected /\ Happens /\ scenario.updates = 0
        /\ OneStart /\ Ordered /\ OldDrops /\ rot \in Rotation
    BY DEF Next, Undisturbed, RotationInv, CollectedInv, Steady, TypeOK
  <1>2. /\ ~Fault /\ ~RotationFails /\ ~Crash /\ upd = NoUpdate
        /\ pepper \in Nat /\ previousPepper \in Nat /\ rot.new \in Nat /\ spent.rotations \in Nat
    BY <1>1, NothingFails, NumbersTyped DEF Collected
  <1>3. ~UpdateUsers /\ ~StartUpdate
    <2>1. ~UpdateUsers
      BY <1>2 DEF UpdateUsers, ReadUpdateUsers, ReadHashes, ReadMembers, ReadFails, Reading, PlanUpdate,
            NoteActive, ActivateRows, SetInactive, ReadPepperForUser, InsertUserHash, FinishUpdate, NoUpdate
    <2>2. ~StartUpdate
      BY <1>1 DEF StartUpdate, Spend, TypeOK, Spent
    <2> QED BY <2>1, <2>2
  <1>4. CASE StartRotation \/ StartServer
    <2>1. rot' = StartedRotation \/ hashes' = {}
      BY <1>1, <1>4 DEF StartRotation, StartServer, OneStart, Fresh
    <2>2. UNCHANGED <<pepper, previousPepper, hashes>> /\ upd' = NoUpdate
      BY <1>2, <1>4 DEF StartRotation, StartServer
    <2>3. CASE hashes' = {}
      BY <2>2, <2>3 DEF Collected
    <2>4. CASE hashes' # {}
      <3>1. drops' = drops /\ rot'.read = "asked" /\ rot.main = "idle"
        BY <1>1, <1>4, <2>1, <2>2, <2>4
           DEF StartRotation, StartServer, StartedRotation, NoRotation, Idle, OneStart, Fresh
      <3> QED BY <1>1, <2>2, <3>1 DEF Collected
    <2> QED BY <2>3, <2>4
  <1>5. CASE ReadPreviousPepper
    <2>1. /\ rot'.main = rot.main /\ rot'.new = rot.new /\ rot'.move = rot.move
          /\ UNCHANGED <<hashes, pepper, previousPepper, upd>>
          /\ drops' = IF previousPepper = 0 THEN drops ELSE drops \cup {previousPepper}
      BY <1>1, <1>2, <1>5 DEF ReadPreviousPepper, Rotation
    <2> QED BY <1>1, <2>1 DEF Collected
  <1>6. CASE DropOldHashes
    <2>1. PICK p \in drops : drops' = drops \ {p} /\ hashes' = {row \in hashes : row.pepper # p}
      BY <1>2, <1>6 DEF DropOldHashes
    <2>2. UNCHANGED <<pepper, previousPepper, rot, upd>>
      BY <1>6 DEF DropOldHashes
    <2> QED BY <1>1, <2>1, <2>2 DEF Collected
  <1>7. CASE ReadPepper
    <2>1. /\ rot.main = "pepper" /\ rot.read = "done" /\ rot'.main = "work" /\ rot'.move = rot.move
          /\ rot'.read = rot.read /\ UNCHANGED <<hashes, pepper, previousPepper, drops, upd>>
      BY <1>1, <1>2, <1>7 DEF ReadPepper, Rotation, Undisturbed
    <2> QED BY <1>1, <2>1 DEF Collected
  <1>8. CASE MovePepper
    <2>1. /\ rot.main = "work" /\ rot.move = "todo" /\ rot'.main = "work" /\ rot'.move = "done"
          /\ rot'.new = rot.new /\ previousPepper' = pepper /\ UNCHANGED <<hashes, pepper, drops, upd>>
      BY <1>1, <1>2, <1>8 DEF MovePepper, Rotation, Ordered
    <2>2. \A row \in hashes : row.pepper = previousPepper => row.pepper \in drops
      BY <1>1, <2>1 DEF Collected, OneStart
    <2> QED BY <1>1, <2>1, <2>2 DEF Collected
  <1>9. CASE ReadUsers \/ FilterUsers
    <2>1. /\ rot'.read = rot.read /\ rot'.main = rot.main /\ rot'.new = rot.new /\ rot'.move = rot.move
          /\ UNCHANGED <<hashes, pepper, previousPepper, drops, upd>>
      BY <1>1, <1>2, <1>9 DEF ReadUsers, FilterUsers, Rotation
    <2> QED BY <1>1, <2>1 DEF Collected
  <1>10. CASE InsertNewHash
    <2>1. /\ rot'.read = rot.read /\ rot'.main = rot.main /\ rot'.new = rot.new /\ rot'.move = rot.move
          /\ rot.main = "work" /\ UNCHANGED <<pepper, previousPepper, drops, upd>>
      BY <1>1, <1>2, <1>10 DEF InsertNewHash, Rotation
    <2>2. \A r \in hashes' : r \in hashes \/ r.pepper = rot.new
      BY <1>10 DEF InsertNewHash
    <2>3. rot.new # 0 /\ rot.new # previousPepper
      BY <1>1, <1>2, <2>1 DEF Ordered
    <2> QED BY <1>1, <2>1, <2>2, <2>3 DEF Collected
  <1>11. CASE PublishPepper
    <2>1. /\ rot.main = "work" /\ rot.move = "done" /\ pepper' = rot.new /\ rot'.main = "idle"
          /\ UNCHANGED <<previousPepper, hashes, drops, upd>>
      BY <1>2, <1>11 DEF PublishPepper, Worked, NoRotation
    <2>2. previousPepper = pepper
      BY <1>1, <2>1 DEF Ordered
    <2> QED BY <1>1, <2>1, <2>2 DEF Collected
  <1>12. CASE AddUser \/ RemoveUser \/ JoinMatrix \/ HashDetails \/ Lookup
    BY <1>1, <1>12 DEF AddUser, RemoveUser, JoinMatrix, HashDetails, Lookup, Collected
  <1> QED BY <1>1, <1>2, <1>3, <1>4, <1>5, <1>6, <1>7, <1>8, <1>9, <1>10, <1>11, <1>12
          DEF Happens, Rotate, Environment

\* RowsCollected: undisturbed rotations drop the hashes of every pepper before the previous one, or
\* are about to, so that none is left behind for good.
THEOREM OldRowsCollected == Spec => []RowsCollected
  <1>1. Init => CollectedInv
    BY DEF Init, CollectedInv, Collected
  <1>2. TypeOK /\ RotationInv /\ CollectedInv /\ [Next]_vars => CollectedInv'
    <2>1. CASE Next
      BY <2>1, CollectedStep
    <2>2. CASE UNCHANGED vars
      BY <2>2 DEF vars, keyVars, dirVars, CollectedInv, Undisturbed, Collected
    <2> QED BY <2>1, <2>2
  <1>3. RowsInv => TypeOK
    BY DEF RowsInv
  <1>4. CollectedInv => RowsCollected
    BY DEF CollectedInv, Collected, RowsCollected
  <1> QED BY <1>1, <1>2, <1>3, <1>4, RowsInvariant, RotationInvariant, PTL DEF Spec

=============================================================================

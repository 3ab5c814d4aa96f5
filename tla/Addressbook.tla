---------------------------- MODULE Addressbook ----------------------------
(***************************************************************************)
(* The address book API of the ToM server                                  *)
(* (chat_app/packages/tom-server/src/addressbook-api): the checks of the   *)
(* middlewares, the controllers and the service, over the SQL tables       *)
(* addressbooks and contacts.                                              *)
(*                                                                         *)
(* Requests run concurrently and interleave at every query.  A query may   *)
(* fail; which failures are swallowed and which end the request is the     *)
(* code's choice.  Ids are UUID v7: a later id is larger, and an id is     *)
(* drawn before the row that carries it is inserted.                       *)
(***************************************************************************)
EXTENDS Integers, Sequences

CONSTANTS
    Requests,     \* bound: requests made, numbered in the order they begin
    Owners,       \* users that own address books
    Mxids, Names, \* matrix ids and display names of contacts
    NoName,       \* an empty display_name
    Payloads,     \* bodies of POST: sequences of [mxid, display_name]
    Patches,      \* bodies of PUT: [display_name, active], active may be None
    Directory,    \* users of the UserDB, as [mxid, display_name]
    None,
    Worlds        \* the deployments and loads considered

\* unique: is there a UNIQUE constraint on addressbooks.owner?  The tables the
\* server creates have none.  serial: does every owner make one request at a
\* time?  owners make requests with the bodies payloads and patches; faults
\* bounds the failing queries.
World == [unique : BOOLEAN, serial : BOOLEAN, owners : SUBSET Owners,
          requests : SUBSET Requests, faults : Nat,
          payloads : SUBSET Payloads, patches : SUBSET Patches]

\* The entries of a POST, each with or without a display name.
Bodies == Seq([mxid : Mxids, display_name : Names \cup {NoName}])

ASSUME AddressbookAssumption ==
    /\ Worlds \subseteq World /\ Requests \subseteq Nat
    /\ None \notin Int /\ NoName \notin Names /\ None \notin Owners /\ None \notin Patches
    /\ None \notin {"list", "add", "delete", "get", "update", "remove"}
    /\ Payloads \subseteq Bodies
    /\ Patches \subseteq [display_name : Names \cup {NoName}, active : BOOLEAN \cup {None}]
    /\ Directory \subseteq [mxid : Mxids, display_name : Names]

VARIABLES
    addressbooks, \* rows [id, owner]
    contacts,     \* rows [id, addressbook_id, mxid, display_name, active]
    req,          \* the requests
    nextId,       \* the next UUID
    faults,
    world         \* never changed

vars == <<addressbooks, contacts, req, nextId, faults, world>>

maxRetries == 3

Id == Nat \ {0}
Addressbooks == [id : Id, owner : Owners]
Contact == [id : Id, addressbook_id : Id, mxid : Mxids, display_name : Names,
            active : BOOLEAN]
\* A contact made from an entry of the UserDB, which has no row.
DirectoryContact == [id : {None}, addressbook_id : {None}, mxid : Mxids,
                     display_name : Names, active : {TRUE}]

\* What a request asks, where its handler is, and what it answers with.
Ops == {"list", "add", "delete", "get", "update", "remove"}
Places == {"idle", "fetch", "create", "refetch", "wait", "read", "merge", "check", "insert",
           "lookup", "wipe", "drop", "contact", "owner", "act", "done"}
Answers == SUBSET (Contact \cup DirectoryContact)
Statuses == {200, 400, 403, 404, 500}
Attempts == 0..(maxRetries - 1)

\* op is what the request asks; book, attempt, todo, new and target are the
\* local variables of its handler; result and status its answer.
Request ==
    [op : Ops \cup {None}, pc : Places, owner : Owners \cup {None}, book : Id \cup {None},
     attempt : Attempts, todo : Bodies, new : Id \cup {None}, target : Id \cup {None},
     patch : Patches \cup {None}, result : Answers, status : Statuses \cup {None}]

NoRequest ==
    [op |-> None, pc |-> "idle", owner |-> None, book |-> None, attempt |-> 0,
     todo |-> <<>>, new |-> None, target |-> None, patch |-> None,
     result |-> {}, status |-> None]

\* Every variable has its type; in particular a request makes at most
\* maxRetries attempts to create the book.
TypeOK ==
    /\ addressbooks \subseteq Addressbooks
    /\ contacts \subseteq Contact
    /\ req \in [Requests -> Request]
    /\ nextId \in Id /\ faults \in Nat
    /\ world \in World

Init ==
    /\ addressbooks = {} /\ contacts = {}
    /\ req = [r \in Requests |-> NoRequest]
    /\ nextId = 1 /\ faults = 0
    /\ world \in Worlds

-----------------------------------------------------------------------------
At(r, pc) == req[r].pc = pc

Goto(r, pc) == req' = [req EXCEPT ![r].pc = pc]

\* The response is sent; the handler's local variables are gone.
Answered(q, status, result) ==
    [NoRequest EXCEPT !.op = q.op, !.owner = q.owner, !.pc = "done",
                      !.status = status, !.result = result]

Answer(r, status) == req' = [req EXCEPT ![r] = Answered(@, status, {})]

\* A query fails.
Fault == faults < world.faults /\ faults' = faults + 1

NoFault == UNCHANGED faults

BooksOf(owner) == {b \in addressbooks : b.owner = owner}
ContactsOf(book) == {c \in contacts : c.addressbook_id = book}

-----------------------------------------------------------------------------
(***************************************************************************)
(* Requests and the checks made before any query.                          *)
(***************************************************************************)

\* validateContactsCreation: every contact has a display name.
ValidCreation(p) == \A i \in DOMAIN p : p[i].display_name # NoName

\* validateContactUpdate; a patch without `active' leaves it alone.
ValidUpdate(p) == p.display_name # NoName

MayBegin(r, o) ==
    /\ At(r, "idle")
    /\ r \in world.requests /\ \A q \in world.requests : q < r => ~At(q, "idle")
    /\ world.serial => \A q \in Requests : req[q].owner = o => At(q, "done")

ListAddressbook(r, o) ==
    /\ MayBegin(r, o)
    /\ req' = [req EXCEPT ![r] = [NoRequest EXCEPT !.op = "list", !.owner = o, !.pc = "fetch"]]
    /\ UNCHANGED <<addressbooks, contacts, nextId, faults>>

AddContacts(r, o, p) ==
    /\ MayBegin(r, o)
    /\ req' = [req EXCEPT ![r] =
                IF ValidCreation(p)
                THEN [NoRequest EXCEPT !.op = "add", !.owner = o, !.pc = "fetch", !.todo = p]
                ELSE [NoRequest EXCEPT !.op = "add", !.owner = o, !.pc = "done", !.status = 400]]
    /\ UNCHANGED <<addressbooks, contacts, nextId, faults>>

DeleteAddressbook(r, o) ==
    /\ MayBegin(r, o)
    /\ req' = [req EXCEPT ![r] = [NoRequest EXCEPT !.op = "delete", !.owner = o, !.pc = "lookup"]]
    /\ UNCHANGED <<addressbooks, contacts, nextId, faults>>

\* GET, PUT and DELETE of one contact, whose id some earlier answer showed.
ContactRequest(r, o, op, c, p) ==
    /\ MayBegin(r, o)
    /\ req' = [req EXCEPT ![r] = [NoRequest EXCEPT !.op = op, !.owner = o, !.pc = "contact",
                                                   !.target = c.id, !.patch = p]]
    /\ UNCHANGED <<addressbooks, contacts, nextId, faults>>

Begin(r) ==
    \E o \in world.owners :
        \/ ListAddressbook(r, o)
        \/ \E p \in world.payloads : AddContacts(r, o, p)
        \/ DeleteAddressbook(r, o)
        \/ \E c \in contacts :
            \/ \E op \in {"get", "remove"} : ContactRequest(r, o, op, c, None)
            \/ \E p \in world.patches : ContactRequest(r, o, "update", c, p)

-----------------------------------------------------------------------------
(***************************************************************************)
(* _getOrCreateUserAddressBook, used by list and addContacts.              *)
(***************************************************************************)

\* The handler goes on with its address book.
WithBook(r, id) ==
    IF req[r].op = "add" /\ req[r].todo = <<>>
    THEN Answer(r, 200)
    ELSE req' = [req EXCEPT ![r].book = id, ![r].new = None, ![r].attempt = 0,
                            ![r].pc = IF req[r].op = "list" THEN "read" ELSE "check"]

\* An error leaves list as an empty answer and addContacts as an answer
\* without a body; both are sent with status 200.
GiveUpBook(r) == Answer(r, 200)

\* A new id is drawn for the book to create.
TryCreate(r, attempt) ==
    /\ req' = [req EXCEPT ![r].pc = "create", ![r].attempt = attempt, ![r].new = nextId]
    /\ nextId' = nextId + 1

\* The first row of the owner is taken; the query sets no order.
FetchBook(r) ==
    /\ At(r, "fetch")
    /\ NoFault
    /\ \/ \E b \in BooksOf(req[r].owner) : WithBook(r, b.id) /\ UNCHANGED nextId
       \/ BooksOf(req[r].owner) = {} /\ TryCreate(r, 0)
    /\ UNCHANGED <<addressbooks, contacts>>

\* _getUserAddressBook catches a failed query and returns undefined, as if
\* there were no row.
FetchBookFails(r) ==
    /\ At(r, "fetch")
    /\ Fault
    /\ TryCreate(r, 0)
    /\ UNCHANGED <<addressbooks, contacts>>

\* Mutant: the insert does not stop at the owner's existing book.
CreateBookAnyway(r) ==
    /\ At(r, "create")
    /\ addressbooks' = addressbooks \cup {[id |-> req[r].new, owner |-> req[r].owner]}
    /\ WithBook(r, req[r].new)
    /\ UNCHANGED <<contacts, nextId, faults>>

CreateBook(r) ==
    /\ At(r, "create")
    /\ world.unique => BooksOf(req[r].owner) = {}
    /\ addressbooks' = addressbooks \cup {[id |-> req[r].new, owner |-> req[r].owner]}
    /\ WithBook(r, req[r].new)
    /\ UNCHANGED <<contacts, nextId, faults>>

CreateBookDuplicate(r) ==
    /\ At(r, "create")
    /\ world.unique /\ BooksOf(req[r].owner) # {}
    /\ Goto(r, "refetch")
    /\ UNCHANGED <<addressbooks, contacts, nextId, faults>>

CreateBookFails(r) ==
    /\ At(r, "create")
    /\ Fault
    /\ GiveUpBook(r)
    /\ UNCHANGED <<addressbooks, contacts, nextId>>

\* After the last attempt the loop ends without a book.
WaitOrGiveUp(r) ==
    IF req[r].attempt < maxRetries - 1 THEN Goto(r, "wait") ELSE GiveUpBook(r)

RefetchBook(r) ==
    /\ At(r, "refetch")
    /\ \/ \E b \in BooksOf(req[r].owner) : WithBook(r, b.id) /\ NoFault
       \/ BooksOf(req[r].owner) = {} /\ WaitOrGiveUp(r) /\ NoFault
       \/ Fault /\ WaitOrGiveUp(r)
    /\ UNCHANGED <<addressbooks, contacts, nextId>>

RetryCreate(r) ==
    /\ At(r, "wait")
    /\ TryCreate(r, req[r].attempt + 1)
    /\ UNCHANGED <<addressbooks, contacts, faults>>

-----------------------------------------------------------------------------
(***************************************************************************)
(* list: the contacts of the book, then those of the UserDB.  The order of *)
(* the answer is left out.                                                 *)
(***************************************************************************)

\* Mutant: duplicates are recognised by their display name.
DeduplicateByName(cs) ==
    {c \in cs : \A d \in cs : d.display_name = c.display_name => c.id <= d.id}

\* _deduplicateByMxid after the sort by id: the earliest contact of each mxid.
DeduplicateByMxid(cs) ==
    {c \in cs : \A d \in cs : d.mxid = c.mxid => c.id <= d.id}

\* _fetchContactsFromDb failing is caught: no contact.
ListAddressbookContacts(r) ==
    /\ At(r, "read")
    /\ \/ /\ NoFault
          /\ req' = [req EXCEPT ![r].result = DeduplicateByMxid(ContactsOf(req[r].book)),
                                ![r].pc = "merge"]
       \/ Fault /\ Goto(r, "merge")
    /\ UNCHANGED <<addressbooks, contacts, nextId>>

UserDbContacts ==
    {[id |-> None, addressbook_id |-> None, mxid |-> u.mxid,
      display_name |-> u.display_name, active |-> TRUE] : u \in Directory}

\* The owner's own contacts take precedence over the UserDB's.
Merge(own, others) ==
    own \cup {c \in others : c.mxid \notin {d.mxid : d \in own}}

GetUserDbContacts(r) ==
    /\ At(r, "merge")
    /\ \E others \in {UserDbContacts, {}} :
        /\ IF others = UserDbContacts THEN NoFault ELSE Fault
        /\ req' = [req EXCEPT ![r] = Answered(@, 200, Merge(@.result, others))]
    /\ UNCHANGED <<addressbooks, contacts, nextId>>

-----------------------------------------------------------------------------
(***************************************************************************)
(* addContacts: for each contact of the payload, look for it, then insert. *)
(***************************************************************************)

\* The next contact of the payload, or the end of the loop.
NextContact(r) ==
    IF Len(req[r].todo) = 1
    THEN Answer(r, 200)
    ELSE req' = [req EXCEPT ![r].todo = Tail(@), ![r].new = None, ![r].pc = "check"]

\* A contact exists when mxid and display_name are both the same.
Exists(r) ==
    \E c \in ContactsOf(req[r].book) :
        /\ c.mxid = Head(req[r].todo).mxid
        /\ c.display_name = Head(req[r].todo).display_name

DrawContactId(r) ==
    /\ req' = [req EXCEPT ![r].pc = "insert", ![r].new = nextId]
    /\ nextId' = nextId + 1

\* Mutant: an existing contact is not skipped.
CheckAgain(r) ==
    /\ At(r, "check")
    /\ NoFault
    /\ \/ Exists(r) /\ UNCHANGED <<req, nextId>>
       \/ ~Exists(r) /\ DrawContactId(r)
    /\ UNCHANGED <<addressbooks, contacts>>

CheckIfContactExists(r) ==
    /\ At(r, "check")
    /\ NoFault
    /\ \/ Exists(r) /\ NextContact(r) /\ UNCHANGED nextId
       \/ ~Exists(r) /\ DrawContactId(r)
    /\ UNCHANGED <<addressbooks, contacts>>

\* A failed check counts as `does not exist'.
CheckFails(r) ==
    /\ At(r, "check")
    /\ Fault
    /\ DrawContactId(r)
    /\ UNCHANGED <<addressbooks, contacts>>

NewContact(r) ==
    [id |-> req[r].new, addressbook_id |-> req[r].book, mxid |-> Head(req[r].todo).mxid,
     display_name |-> Head(req[r].todo).display_name, active |-> TRUE]

InsertContact(r) ==
    /\ At(r, "insert")
    /\ contacts' = contacts \cup {NewContact(r)}
    /\ NextContact(r)
    /\ UNCHANGED <<addressbooks, nextId, faults>>

\* A failed insert is logged and the loop goes on.
InsertContactFails(r) ==
    /\ At(r, "insert")
    /\ Fault
    /\ NextContact(r)
    /\ UNCHANGED <<addressbooks, contacts, nextId>>

-----------------------------------------------------------------------------
(***************************************************************************)
(* delete: find the book, delete its contacts, delete the book.            *)
(***************************************************************************)

LookupBook(r) ==
    /\ At(r, "lookup")
    /\ \/ \E b \in BooksOf(req[r].owner) :
            req' = [req EXCEPT ![r].book = b.id, ![r].pc = "wipe"]
       \/ BooksOf(req[r].owner) = {} /\ Answer(r, 500)
    /\ UNCHANGED <<addressbooks, contacts, nextId, faults>>

\* Mutant: only the book is deleted.
KeepContacts(r) ==
    /\ At(r, "wipe")
    /\ Goto(r, "drop")
    /\ UNCHANGED <<addressbooks, contacts, nextId, faults>>

DeleteContacts(r) ==
    /\ At(r, "wipe")
    /\ contacts' = contacts \ ContactsOf(req[r].book)
    /\ Goto(r, "drop")
    /\ UNCHANGED <<addressbooks, nextId, faults>>

DeleteBook(r) ==
    /\ At(r, "drop")
    /\ addressbooks' = {b \in addressbooks : b.id # req[r].book}
    /\ Answer(r, 200)
    /\ UNCHANGED <<contacts, nextId, faults>>

DeleteFails(r) ==
    /\ req[r].pc \in {"lookup", "wipe", "drop"}
    /\ Fault
    /\ Answer(r, 500)
    /\ UNCHANGED <<addressbooks, contacts, nextId>>

-----------------------------------------------------------------------------
(***************************************************************************)
(* One contact: checkContactOwnership, then getContact, updateContact or   *)
(* deleteContact.                                                          *)
(***************************************************************************)
Target(r) == {c \in contacts : c.id = req[r].target}

\* A failed query counts as `not found'.
CheckContact(r) ==
    /\ At(r, "contact")
    /\ \/ \E c \in Target(r) :
            req' = [req EXCEPT ![r].book = c.addressbook_id, ![r].pc = "owner"] /\ NoFault
       \/ Target(r) = {} /\ Answer(r, 404) /\ NoFault
       \/ Fault /\ Answer(r, 404)
    /\ UNCHANGED <<addressbooks, contacts, nextId>>

\* Mutant: the book's owner is not compared with the user.
CheckContactExists(r) ==
    /\ At(r, "owner")
    /\ IF \E b \in addressbooks : b.id = req[r].book THEN Goto(r, "act") ELSE Answer(r, 404)
    /\ UNCHANGED <<addressbooks, contacts, nextId, faults>>

\* The body of an update is validated after the owner is known.
CheckContactOwnership(r) ==
    LET found == {b \in addressbooks : b.id = req[r].book}
    IN  /\ At(r, "owner")
        /\ \/ /\ NoFault
              /\ \E b \in found :
                  \/ b.owner # req[r].owner /\ Answer(r, 403)
                  \/ b.owner = req[r].owner /\ req[r].patch = None /\ Goto(r, "act")
                  \/ /\ b.owner = req[r].owner /\ req[r].patch # None
                     /\ IF ValidUpdate(req[r].patch) THEN Goto(r, "act") ELSE Answer(r, 400)
           \/ found = {} /\ Answer(r, 404) /\ NoFault
           \/ Fault /\ Answer(r, 404)
        /\ UNCHANGED <<addressbooks, contacts, nextId>>

GetContact(r) ==
    /\ At(r, "act") /\ req[r].op = "get"
    /\ IF Target(r) = {} THEN Answer(r, 404) ELSE Answer(r, 200)
    /\ UNCHANGED <<addressbooks, contacts, nextId, faults>>

Patched(c, p) ==
    [c EXCEPT !.display_name = p.display_name,
              !.active = IF p.active = None THEN @ ELSE p.active]

\* An update that returns no row is an error.
UpdateContact(r) ==
    /\ At(r, "act") /\ req[r].op = "update"
    /\ contacts' = (contacts \ Target(r)) \cup {Patched(c, req[r].patch) : c \in Target(r)}
    /\ IF Target(r) = {} THEN Answer(r, 500) ELSE Answer(r, 200)
    /\ UNCHANGED <<addressbooks, nextId, faults>>

DeleteContact(r) ==
    /\ At(r, "act") /\ req[r].op = "remove"
    /\ contacts' = contacts \ Target(r)
    /\ Answer(r, 200)
    /\ UNCHANGED <<addressbooks, nextId, faults>>

ActFails(r) ==
    /\ At(r, "act")
    /\ Fault
    /\ Answer(r, IF req[r].op = "get" THEN 404 ELSE 500)
    /\ UNCHANGED <<addressbooks, contacts, nextId>>

-----------------------------------------------------------------------------
Step(r) ==
    \/ FetchBook(r) \/ FetchBookFails(r)
    \/ CreateBook(r) \/ CreateBookDuplicate(r) \/ CreateBookFails(r)
    \/ RefetchBook(r) \/ RetryCreate(r)
    \/ ListAddressbookContacts(r) \/ GetUserDbContacts(r)
    \/ CheckIfContactExists(r) \/ CheckFails(r)
    \/ InsertContact(r) \/ InsertContactFails(r)
    \/ LookupBook(r) \/ DeleteContacts(r) \/ DeleteBook(r) \/ DeleteFails(r)
    \/ CheckContact(r) \/ CheckContactOwnership(r)
    \/ GetContact(r) \/ UpdateContact(r) \/ DeleteContact(r) \/ ActFails(r)

\* All the requests of the instance are answered.
Terminating == (\A r \in world.requests : At(r, "done")) /\ UNCHANGED vars

Happens == \E r \in Requests : Begin(r) \/ Step(r)

Next == Terminating \/ (Happens /\ UNCHANGED world)

Spec == Init /\ [][Next]_vars

\* Every query returns or fails.
LiveSpec == Spec /\ \A r \in Requests : WF_vars(Step(r) /\ UNCHANGED world)

-----------------------------------------------------------------------------
(***************************************************************************)
(* Properties.                                                             *)
(***************************************************************************)

\* A user never has two address books, which is what the retries of
\* _getOrCreateUserAddressBook are for.
OneBookPerOwner ==
    \A a, b \in addressbooks : a.owner = b.owner => a.id = b.id

\* Nobody makes two requests at a time, and no query fails.
Calm == world.serial /\ world.faults = 0

\* ... and that is so for a user who makes one request at a time and sees no
\* query fail, and, with the constraint the retries rely on, for all users
\* under any failures.
OneBookWhenGuarded == Calm \/ world.unique => OneBookPerOwner

\* No contact outlives the address book it was put in: delete removes the
\* contacts with the book (for a user who makes one request at a time).
NoOrphans ==
    world.serial => \A c \in contacts : \E b \in addressbooks : b.id = c.addressbook_id

\* The tables are well-formed, with at most maxRetries attempts to create a book
\* (addressbook-api/services/index.ts:787), and no contact is left behind.
BooksConsistent == TypeOK /\ NoOrphans

\* What the owner has is what the owner is shown: the answer of list has
\* every matrix id that some contact of the owner carries (for a user who
\* makes one request at a time and sees no query fail).
ListComplete ==
    [][\A r \in Requests :
          Calm /\ req[r].op = "list" /\ ~At(r, "done") /\ At(r, "done")' =>
            \A b \in BooksOf(req[r].owner) : \A c \in ContactsOf(b.id) :
                \E d \in req'[r].result : d.mxid = c.mxid]_vars

\* A contact is changed or removed only by a step of a request of the user
\* whose address book holds it: what the ownership check established still
\* holds when the query it guards is made.
OwnerOnly ==
    [][\A c \in contacts \ contacts' : \A b \in addressbooks :
          b.id = c.addressbook_id =>
            \E r \in Requests : req[r].owner = b.owner /\ req'[r] # req[r]]_vars

\* Every request is answered: the retries end.
EveryRequestEnds ==
    \A r \in Requests : req[r].pc # "idle" ~> At(r, "done")
=============================================================================

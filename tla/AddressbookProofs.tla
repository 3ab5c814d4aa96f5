------------------------- MODULE AddressbookProofs -------------------------
(***************************************************************************)
(* Proofs about Addressbook, for any number of users and requests.         *)
(*                                                                         *)
(* The tables have no foreign key and, in the code, no unique owner.  The  *)
(* inductive invariant BookInv therefore says of the requests what no      *)
(* constraint says of the rows: an id that was drawn is in no row and      *)
(* known to no other request (FreshIds), what the ownership check found is *)
(* still so (OwnerInv), and, for users who make one request at a time,     *)
(* the book a request works on is there and is emptied before it is        *)
(* dropped (SerialInv).  Every step is first reduced to its effect.        *)
(***************************************************************************)
EXTENDS Addressbook, SequenceTheorems, WellFoundedInduction, TLAPS

\* What a request is at each place of its handler.
PcOf(op) ==
    CASE op = "list" -> {"fetch", "create", "refetch", "wait", "read", "merge", "done"}
      [] op = "add" -> {"fetch", "create", "refetch", "wait", "check", "insert", "done"}
      [] op = "delete" -> {"lookup", "wipe", "drop", "done"}
      [] OTHER -> {"contact", "owner", "act", "done"}

Local(q) ==
    /\ q.pc = "idle" <=> q.owner = None
    /\ q.pc = "idle" \/ q.pc \in PcOf(q.op)
    /\ q.pc # "idle" <=> q.op # None
    /\ q.pc \in {"create", "insert"} => q.new # None
    /\ q.pc \in {"read", "merge", "check", "insert", "wipe", "drop", "owner", "act"} => q.book # None
    /\ q.pc \in {"contact", "owner", "act"} => q.target # None
    /\ q.pc = "wait" => q.attempt < maxRetries - 1
    /\ ValidCreation(q.todo)
    /\ q.pc \in {"check", "insert"} => q.todo # <<>>
    /\ q.op = "update" /\ q.pc # "done" => q.patch # None
    /\ q.op = "update" /\ q.pc = "act" => ValidUpdate(q.patch)
    /\ q.pc # "done" => q.result \subseteq Contact

Typed == TypeOK /\ \A r \in Requests : Local(req[r])

\* Request r becomes q, and no other changes.
Moves(r, q) == req' = [req EXCEPT ![r] = q]



\* A field of a request may be changed by itself.
LEMMA SetBook ==
    ASSUME NEW q \in Request,
           NEW x \in Id \cup {None}
    PROVE  [q EXCEPT !.book = x] \in Request
  BY DEF Request

LEMMA SetNew ==
    ASSUME NEW q \in Request,
           NEW x \in Id \cup {None}
    PROVE  [q EXCEPT !.new = x] \in Request
  BY DEF Request

LEMMA SetTarget ==
    ASSUME NEW q \in Request,
           NEW x \in Id \cup {None}
    PROVE  [q EXCEPT !.target = x] \in Request
  BY DEF Request

LEMMA SetAttempt ==
    ASSUME NEW q \in Request,
           NEW x \in Attempts
    PROVE  [q EXCEPT !.attempt = x] \in Request
  BY DEF Request

LEMMA SetPc ==
    ASSUME NEW q \in Request,
           NEW x \in Places
    PROVE  [q EXCEPT !.pc = x] \in Request
  BY DEF Request

LEMMA SetTodo ==
    ASSUME NEW q \in Request,
           NEW x \in Bodies
    PROVE  [q EXCEPT !.todo = x] \in Request
  BY DEF Request

LEMMA SetResult ==
    ASSUME NEW q \in Request,
           NEW x \in Answers
    PROVE  [q EXCEPT !.result = x] \in Request
  BY DEF Request

LEMMA SetOp ==
    ASSUME NEW q \in Request,
           NEW x \in Ops \cup {None}
    PROVE  [q EXCEPT !.op = x] \in Request
  BY DEF Request

LEMMA SetOwner ==
    ASSUME NEW q \in Request,
           NEW x \in Owners \cup {None}
    PROVE  [q EXCEPT !.owner = x] \in Request
  BY DEF Request

LEMMA SetPatch ==
    ASSUME NEW q \in Request,
           NEW x \in Patches \cup {None}
    PROVE  [q EXCEPT !.patch = x] \in Request
  BY DEF Request

LEMMA SetStatus ==
    ASSUME NEW q \in Request,
           NEW x \in Statuses \cup {None}
    PROVE  [q EXCEPT !.status = x] \in Request
  BY DEF Request

LEMMA WithBookTyped ==
    ASSUME NEW q \in Request, NEW x \in {"read", "check"}, NEW id \in Id
    PROVE  [q EXCEPT !.book = id, !.new = None, !.attempt = 0, !.pc = x] \in Request
  <1> DEFINE q1 == [q EXCEPT !.book = id]
             q2 == [q1 EXCEPT !.new = None]
             q3 == [q2 EXCEPT !.attempt = 0]
  <1>1. q1 \in Request
    BY SetBook
  <1>2. q2 \in Request
    <2> HIDE DEF q1
    <2> QED BY <1>1, SetNew
  <1>3. q3 \in Request
    <2>1. 0 \in Attempts
      BY DEF Attempts, maxRetries
    <2> HIDE DEF q2
    <2> QED BY <1>2, <2>1, SetAttempt
  <1>4. [q3 EXCEPT !.pc = x] \in Request
    <2>1. x \in Places
      BY DEF Places
    <2> HIDE DEF q3
    <2> QED BY <1>3, <2>1, SetPc
  <1> QED BY <1>4

LEMMA AnsweredTyped ==
    ASSUME NEW q \in Request, NEW x \in Statuses, NEW res \in Answers
    PROVE  Answered(q, x, res) \in Request
  <1> DEFINE p1 == [NoRequest EXCEPT !.op = q.op]
             p2 == [p1 EXCEPT !.owner = q.owner]
             p3 == [p2 EXCEPT !.pc = "done"]
             p4 == [p3 EXCEPT !.status = x]
  <1>0. NoRequest \in Request
    BY DEF NoRequest, Request, Places, Attempts, maxRetries, Answers, Bodies
  <1>1. p1 \in Request
    <2>1. q.op \in Ops \cup {None}
      BY DEF Request
    <2> QED BY <1>0, <2>1, SetOp
  <1>2. p2 \in Request
    <2>1. q.owner \in Owners \cup {None}
      BY DEF Request
    <2> HIDE DEF p1
    <2> QED BY <1>1, <2>1, SetOwner
  <1>3. p3 \in Request
    <2>1. "done" \in Places
      BY DEF Places
    <2> HIDE DEF p2
    <2> QED BY <1>2, <2>1, SetPc
  <1>4. p4 \in Request
    <2>1. x \in Statuses \cup {None}
      OBVIOUS
    <2> HIDE DEF p3
    <2> QED BY <1>3, <2>1, SetStatus
  <1>5. [p4 EXCEPT !.result = res] \in Request
    <2> HIDE DEF p4
    <2> QED BY <1>4, SetResult
  <1> QED BY <1>5 DEF Answered

\* No request but r changes, and the result is a request.
Becomes(r, q) ==
    /\ req' \in [Requests -> Request] /\ req'[r] = q
    /\ \A s \in Requests \ {r} : req'[s] = req[s]

LEMMA BecomesWhen ==
    ASSUME Typed, NEW r \in Requests, NEW q \in Request, req' = [req EXCEPT ![r] = q]
    PROVE  Becomes(r, q)
  BY DEF Typed, TypeOK, Becomes

\* Request r goes on with its operation, as a request may be.
Steady(r) ==
    /\ Becomes(r, req'[r]) /\ Local(req'[r])
    /\ req'[r].op = req[r].op /\ req'[r].owner = req[r].owner

Ends(r) ==
    /\ req'[r].pc = "done" /\ req'[r].book = None /\ req'[r].new = None /\ req'[r].target = None

LEMMA AnsweredFields ==
    ASSUME NEW q, NEW st, NEW res
    PROVE  LET p == Answered(q, st, res)
           IN  /\ p.op = q.op /\ p.owner = q.owner /\ p.pc = "done" /\ p.result = res /\ p.todo = <<>>
               /\ p.book = None /\ p.new = None /\ p.target = None
  BY DEF Answered, NoRequest

LEMMA AnsweredMoves ==
    ASSUME Typed, NEW r \in Requests, NEW st \in Statuses, NEW res \in Answers, req[r].pc # "idle",
           req' = [req EXCEPT ![r] = Answered(req[r], st, res)]
    PROVE  Steady(r) /\ Ends(r) /\ req'[r].result = res
  <1> DEFINE p == Answered(req[r], st, res)
  <1>1. req[r] \in Request /\ Local(req[r])
    BY DEF Typed, TypeOK
  <1>2. p \in Request
    BY <1>1, AnsweredTyped
  <1>3. Becomes(r, p)
    BY <1>2, BecomesWhen
  <1>4. /\ p.op = req[r].op /\ p.owner = req[r].owner /\ p.pc = "done" /\ p.result = res /\ p.todo = <<>>
        /\ p.book = None /\ p.new = None /\ p.target = None
    BY AnsweredFields
  <1> HIDE DEF p
  <1>5. Local(p)
    BY <1>1, <1>4 DEF Local, PcOf, ValidCreation
  <1> QED BY <1>3, <1>4, <1>5 DEF Steady, Ends, Becomes

LEMMA AnswerMoves ==
    ASSUME Typed, NEW r \in Requests, NEW st \in Statuses, Answer(r, st), req[r].pc # "idle"
    PROVE  Steady(r) /\ Ends(r)
  <1>1. {} \in Answers
    BY DEF Answers
  <1> QED BY <1>1, AnsweredMoves DEF Answer

LEMMA GotoMoves ==
    ASSUME Typed, NEW r \in Requests, NEW x \in Places, Goto(r, x),
           x \in PcOf(req[r].op), req[r].pc \notin {"idle", "done"},
           x \in {"refetch", "wait", "merge", "drop", "act"},
           x = "merge" => req[r].pc = "read",
           x = "drop" => req[r].pc = "wipe",
           x = "act" => req[r].pc = "owner" /\ (req[r].op = "update" => ValidUpdate(req[r].patch)),
           x = "wait" => req[r].attempt < maxRetries - 1
    PROVE  /\ Steady(r) /\ req'[r].pc = x /\ req'[r].book = req[r].book /\ req'[r].new = req[r].new
           /\ req'[r].target = req[r].target /\ req'[r].result = req[r].result
  <1> DEFINE p == [req[r] EXCEPT !.pc = x]
  <1>1. req[r] \in Request /\ Local(req[r])
    BY DEF Typed, TypeOK
  <1>2. p \in Request
    BY <1>1, SetPc
  <1>3. req' = [req EXCEPT ![r] = p]
    BY DEF Goto
  <1>4. Becomes(r, p)
    BY <1>2, <1>3, BecomesWhen
  <1>5. /\ p.op = req[r].op /\ p.owner = req[r].owner /\ p.pc = x /\ p.result = req[r].result
        /\ p.todo = req[r].todo /\ p.book = req[r].book /\ p.new = req[r].new /\ p.target = req[r].target
        /\ p.attempt = req[r].attempt /\ p.patch = req[r].patch
    BY <1>1 DEF Request
  <1> HIDE DEF p
  <1>6. Local(p)
    BY <1>1, <1>5 DEF Local, PcOf
  <1> QED BY <1>4, <1>5, <1>6 DEF Steady, Becomes

LEMMA WithBookMoves ==
    ASSUME Typed, NEW r \in Requests, NEW id \in Id, WithBook(r, id),
           req[r].pc \in {"fetch", "create", "refetch"}
    PROVE  /\ Steady(r)
           /\ \/ Ends(r) /\ req[r].op = "add"
              \/ /\ req'[r].pc = IF req[r].op = "list" THEN "read" ELSE "check"
                 /\ req'[r].book = id /\ req'[r].new = None /\ req'[r].target = req[r].target
  <1> DEFINE x == IF req[r].op = "list" THEN "read" ELSE "check"
             p == [req[r] EXCEPT !.book = id, !.new = None, !.attempt = 0, !.pc = x]
  <1>1. req[r] \in Request /\ Local(req[r])
    BY DEF Typed, TypeOK
  <1>2. req[r].op \in {"list", "add"}
    BY <1>1 DEF Local, PcOf, Request
  <1>3. CASE req[r].op = "add" /\ req[r].todo = <<>>
    <2>1. 200 \in Statuses
      BY DEF Statuses
    <2> QED BY <1>3, <2>1, AnswerMoves DEF WithBook
  <1>4. CASE ~ (req[r].op = "add" /\ req[r].todo = <<>>)
    <2>1. x \in {"read", "check"}
      OBVIOUS
    <2>2. p \in Request
      <3> HIDE DEF x
      <3> QED BY <1>1, <2>1, WithBookTyped
    <2>3. req' = [req EXCEPT ![r] = p]
      BY <1>4 DEF WithBook
    <2>4. Becomes(r, p)
      BY <2>2, <2>3, BecomesWhen
    <2>5. /\ p.op = req[r].op /\ p.owner = req[r].owner /\ p.pc = x /\ p.result = req[r].result
          /\ p.todo = req[r].todo /\ p.book = id /\ p.new = None /\ p.target = req[r].target
          /\ p.attempt = 0 /\ p.patch = req[r].patch
      BY <1>1 DEF Request
    <2> HIDE DEF p
    <2>6. Local(p)
      BY <1>1, <1>2, <1>4, <2>5, AddressbookAssumption DEF Local, PcOf, Id, maxRetries
    <2> QED BY <2>4, <2>5, <2>6 DEF Steady, Becomes
  <1> QED BY <1>3, <1>4

LEMMA TryCreateMoves ==
    ASSUME Typed, NEW r \in Requests, NEW a \in Attempts, TryCreate(r, a), req[r].pc \in {"fetch", "wait"}
    PROVE  /\ Steady(r) /\ req'[r].pc = "create" /\ req'[r].book = req[r].book
           /\ req'[r].new = nextId /\ req'[r].target = req[r].target /\ nextId' = nextId + 1
  <1> DEFINE p1 == [req[r] EXCEPT !.pc = "create"]
             p2 == [p1 EXCEPT !.attempt = a]
             p == [p2 EXCEPT !.new = nextId]
  <1>1. req[r] \in Request /\ Local(req[r]) /\ nextId \in Id
    BY DEF Typed, TypeOK
  <1>2. p1 \in Request
    BY <1>1, SetPc DEF Places
  <1>3. p2 \in Request
    <2> HIDE DEF p1
    <2> QED BY <1>2, SetAttempt
  <1>4. p \in Request
    <2> HIDE DEF p2
    <2> QED BY <1>1, <1>3, SetNew
  <1>5. req' = [req EXCEPT ![r] = p]
    BY DEF TryCreate
  <1>6. Becomes(r, p)
    BY <1>4, <1>5, BecomesWhen
  <1>7. /\ p.op = req[r].op /\ p.owner = req[r].owner /\ p.pc = "create" /\ p.result = req[r].result
        /\ p.todo = req[r].todo /\ p.book = req[r].book /\ p.new = nextId /\ p.target = req[r].target
        /\ p.patch = req[r].patch
    BY <1>1 DEF Request
  <1> HIDE DEF p
  <1>8. Local(p)
    BY <1>1, <1>7, AddressbookAssumption DEF Local, PcOf, Id
  <1> QED BY <1>6, <1>7, <1>8 DEF Steady, Becomes, TryCreate

LEMMA DrawMoves ==
    ASSUME Typed, NEW r \in Requests, DrawContactId(r), req[r].pc = "check"
    PROVE  /\ Steady(r) /\ req'[r].pc = "insert" /\ req'[r].book = req[r].book
           /\ req'[r].new = nextId /\ req'[r].target = req[r].target /\ nextId' = nextId + 1
  <1> DEFINE p1 == [req[r] EXCEPT !.pc = "insert"]
             p == [p1 EXCEPT !.new = nextId]
  <1>1. req[r] \in Request /\ Local(req[r]) /\ nextId \in Id
    BY DEF Typed, TypeOK
  <1>2. p1 \in Request
    BY <1>1, SetPc DEF Places
  <1>3. p \in Request
    <2> HIDE DEF p1
    <2> QED BY <1>1, <1>2, SetNew
  <1>4. req' = [req EXCEPT ![r] = p]
    BY DEF DrawContactId
  <1>5. Becomes(r, p)
    BY <1>3, <1>4, BecomesWhen
  <1>6. /\ p.op = req[r].op /\ p.owner = req[r].owner /\ p.pc = "insert" /\ p.result = req[r].result
        /\ p.todo = req[r].todo /\ p.book = req[r].book /\ p.new = nextId /\ p.target = req[r].target
        /\ p.patch = req[r].patch
    BY <1>1 DEF Request
  <1> HIDE DEF p
  <1>7. Local(p)
    BY <1>1, <1>6, AddressbookAssumption DEF Local, PcOf, Id
  <1> QED BY <1>5, <1>6, <1>7 DEF Steady, Becomes, DrawContactId

LEMMA TailValid ==
    ASSUME NEW p \in Bodies, p # <<>>, Len(p) # 1, ValidCreation(p)
    PROVE  Tail(p) \in Bodies /\ Tail(p) # <<>> /\ ValidCreation(Tail(p))
  <1> DEFINE E == [mxid : Mxids, display_name : Names \cup {NoName}]
  <1>1. p \in Seq(E)
    BY DEF Bodies
  <1> HIDE DEF E
  <1>2. Len(p) \in Nat /\ Len(p) > 1 /\ DOMAIN p = 1..Len(p)
    <2>1. Len(p) \in Nat /\ DOMAIN p = 1..Len(p)
      BY <1>1
    <2>2. Len(p) # 0
      BY <1>1, EmptySeq
    <2> QED BY <2>1, <2>2
  <1>3. Tail(p) \in Seq(E) /\ Len(Tail(p)) = Len(p) - 1 /\ DOMAIN Tail(p) = 1..(Len(p) - 1)
    BY <1>1, <1>2
  <1>4. \A i \in DOMAIN Tail(p) : Tail(p)[i] = p[i + 1] /\ i + 1 \in DOMAIN p
    BY <1>1, <1>2, <1>3
  <1>5. Tail(p) # <<>>
    <2>1. Len(Tail(p)) # 0
      BY <1>2, <1>3
    <2> QED BY <1>3, <2>1, EmptySeq
  <1> QED BY <1>3, <1>4, <1>5 DEF ValidCreation, Bodies, E

LEMMA NextContactMoves ==
    ASSUME Typed, NEW r \in Requests, NextContact(r), req[r].pc \in {"check", "insert"}
    PROVE  /\ Steady(r)
           /\ \/ Ends(r)
              \/ /\ req'[r].pc = "check" /\ req'[r].book = req[r].book /\ req'[r].new = None
                 /\ req'[r].target = req[r].target
  <1> DEFINE p1 == [req[r] EXCEPT !.todo = Tail(req[r].todo)]
             p2 == [p1 EXCEPT !.new = None]
             p == [p2 EXCEPT !.pc = "check"]
  <1>1. req[r] \in Request /\ Local(req[r])
    BY DEF Typed, TypeOK
  <1>2. CASE Len(req[r].todo) = 1
    <2>1. 200 \in Statuses
      BY DEF Statuses
    <2> QED BY <1>2, <2>1, AnswerMoves DEF NextContact
  <1>3. CASE Len(req[r].todo) # 1
    <2>1. req[r].todo \in Bodies /\ req[r].todo # <<>> /\ ValidCreation(req[r].todo)
      BY <1>1 DEF Request, Local
    <2>2. Tail(req[r].todo) \in Bodies /\ Tail(req[r].todo) # <<>> /\ ValidCreation(Tail(req[r].todo))
      BY <1>3, <2>1, TailValid
    <2>3. p1 \in Request
      BY <1>1, <2>2, SetTodo
    <2>4. p2 \in Request
      <3> HIDE DEF p1
      <3> QED BY <2>3, SetNew
    <2>5. p \in Request
      <3> HIDE DEF p2
      <3> QED BY <2>4, SetPc DEF Places
    <2>6. req' = [req EXCEPT ![r] = p]
      BY <1>3 DEF NextContact
    <2>7. Becomes(r, p)
      BY <2>5, <2>6, BecomesWhen
    <2>8. /\ p.op = req[r].op /\ p.owner = req[r].owner /\ p.pc = "check" /\ p.result = req[r].result
          /\ p.todo = Tail(req[r].todo) /\ p.book = req[r].book /\ p.new = None /\ p.target = req[r].target
          /\ p.patch = req[r].patch
      BY <1>1 DEF Request
    <2> HIDE DEF p
    <2>9. Local(p)
      BY <1>1, <2>2, <2>8 DEF Local, PcOf
    <2> QED BY <2>7, <2>8, <2>9 DEF Steady, Becomes
  <1> QED BY <1>2, <1>3

LEMMA AskedTyped ==
    ASSUME NEW op \in Ops, NEW o \in Owners, NEW pc \in Places
    PROVE  [NoRequest EXCEPT !.op = op, !.owner = o, !.pc = pc] \in Request
  <1> DEFINE p1 == [NoRequest EXCEPT !.op = op]
             p2 == [p1 EXCEPT !.owner = o]
  <1>1. NoRequest \in Request
    BY DEF NoRequest, Request, Places, Attempts, maxRetries, Answers, Bodies
  <1>2. p1 \in Request
    BY <1>1, SetOp
  <1>3. p2 \in Request
    <2> HIDE DEF p1
    <2> QED BY <1>2, SetOwner
  <1>4. [p2 EXCEPT !.pc = pc] \in Request
    <2> HIDE DEF p2
    <2> QED BY <1>3, SetPc
  <1> QED BY <1>4

\* Request r begins, for a contact or for the whole book.
Begins(r) ==
    /\ Becomes(r, req'[r]) /\ Local(req'[r]) /\ req[r].pc = "idle"
    /\ req'[r].owner \in Owners /\ MayBegin(r, req'[r].owner)
    /\ req'[r].pc \in {"fetch", "lookup", "contact", "done"} /\ req'[r].book = None /\ req'[r].new = None
    /\ req'[r].target = None \/ \E c \in contacts : req'[r].target = c.id
    /\ UNCHANGED <<addressbooks, contacts, nextId, faults>>

LEMMA BeginMoves ==
    ASSUME Typed, NEW r \in Requests, Begin(r)
    PROVE  Begins(r)
  <1>1. PICK o \in world.owners :
            \/ ListAddressbook(r, o)
            \/ \E p \in world.payloads : AddContacts(r, o, p)
            \/ DeleteAddressbook(r, o)
            \/ \E c \in contacts : \/ \E op \in {"get", "remove"} : ContactRequest(r, o, op, c, None)
                                   \/ \E p \in world.patches : ContactRequest(r, o, "update", c, p)
    BY DEF Begin
  <1>2. o \in Owners /\ world.payloads \subseteq Payloads /\ world.patches \subseteq Patches /\ None \notin Owners
    BY AddressbookAssumption DEF Typed, TypeOK, World
  <1>3. contacts \subseteq Contact
    BY DEF Typed, TypeOK
  <1>4. ValidCreation(<<>>)
    BY DEF ValidCreation
  <1>5. ASSUME NEW op \in {"list", "delete"}, NEW pc \in {"fetch", "lookup"}, pc \in PcOf(op), MayBegin(r, o),
               req' = [req EXCEPT ![r] = [NoRequest EXCEPT !.op = op, !.owner = o, !.pc = pc]],
               UNCHANGED <<addressbooks, contacts, nextId, faults>>
        PROVE  Begins(r)
    <2> DEFINE p == [NoRequest EXCEPT !.op = op, !.owner = o, !.pc = pc]
    <2>1. p \in Request
      BY <1>2, AskedTyped DEF Ops, Places
    <2>2. Becomes(r, p)
      BY <1>5, <2>1, BecomesWhen
    <2>3. /\ p.op = op /\ p.owner = o /\ p.pc = pc /\ p.todo = <<>> /\ p.book = None /\ p.new = None
          /\ p.target = None /\ p.result = {}
      BY DEF NoRequest
    <2> HIDE DEF p
    <2>4. Local(p)
      BY <1>2, <1>4, <1>5, <2>3, AddressbookAssumption DEF Local, PcOf
    <2> QED BY <1>2, <1>5, <2>2, <2>3, <2>4 DEF Begins, Becomes, MayBegin, At
  <1>6. CASE ListAddressbook(r, o) \/ DeleteAddressbook(r, o)
    BY <1>5, <1>6 DEF ListAddressbook, DeleteAddressbook, PcOf
  <1>7. ASSUME NEW b \in Payloads, AddContacts(r, o, b) PROVE Begins(r)
    <2>1. CASE ValidCreation(b)
      <3> DEFINE p1 == [NoRequest EXCEPT !.op = "add", !.owner = o, !.pc = "fetch"]
                 p == [p1 EXCEPT !.todo = b]
      <3>1. p1 \in Request
        BY <1>2, AskedTyped DEF Ops, Places
      <3>2. p \in Request
        <4>1. b \in Bodies
          BY AddressbookAssumption
        <4> HIDE DEF p1
        <4> QED BY <3>1, <4>1, SetTodo
      <3>3. Becomes(r, p)
        BY <1>7, <2>1, <3>2, BecomesWhen DEF AddContacts
      <3>4. /\ p.op = "add" /\ p.owner = o /\ p.pc = "fetch" /\ p.todo = b /\ p.book = None /\ p.new = None
            /\ p.target = None /\ p.result = {}
        BY DEF NoRequest
      <3> HIDE DEF p
      <3>5. Local(p)
        BY <1>2, <2>1, <3>4, AddressbookAssumption DEF Local, PcOf
      <3>6. MayBegin(r, o) /\ UNCHANGED <<addressbooks, contacts, nextId, faults>>
        BY <1>7 DEF AddContacts
      <3>7. req[r].pc = "idle"
        BY <3>6 DEF MayBegin, At
      <3> QED BY <1>2, <3>3, <3>4, <3>5, <3>6, <3>7 DEF Begins, Becomes
    <2>2. CASE ~ ValidCreation(b)
      <3> DEFINE p1 == [NoRequest EXCEPT !.op = "add", !.owner = o, !.pc = "done"]
                 p == [p1 EXCEPT !.status = 400]
      <3>1. p1 \in Request
        BY <1>2, AskedTyped DEF Ops, Places
      <3>2. p \in Request
        <4>1. 400 \in Statuses \cup {None}
          BY DEF Statuses
        <4> HIDE DEF p1
        <4> QED BY <3>1, <4>1, SetStatus
      <3>3. Becomes(r, p)
        BY <1>7, <2>2, <3>2, BecomesWhen DEF AddContacts
      <3>4. /\ p.op = "add" /\ p.owner = o /\ p.pc = "done" /\ p.todo = <<>> /\ p.book = None /\ p.new = None
            /\ p.target = None /\ p.result = {}
        BY DEF NoRequest
      <3> HIDE DEF p
      <3>5. Local(p)
        BY <1>2, <1>4, <3>4, AddressbookAssumption DEF Local, PcOf
      <3>6. MayBegin(r, o) /\ UNCHANGED <<addressbooks, contacts, nextId, faults>>
        BY <1>7 DEF AddContacts
      <3>7. req[r].pc = "idle"
        BY <3>6 DEF MayBegin, At
      <3> QED BY <1>2, <3>3, <3>4, <3>5, <3>6, <3>7 DEF Begins, Becomes
    <2> QED BY <2>1, <2>2
  <1>8. ASSUME NEW op \in {"get", "remove", "update"}, NEW c \in contacts, NEW b \in Patches \cup {None},
               op = "update" => b # None, ContactRequest(r, o, op, c, b)
        PROVE  Begins(r)
    <2> DEFINE p1 == [NoRequest EXCEPT !.op = op, !.owner = o, !.pc = "contact"]
               p2 == [p1 EXCEPT !.target = c.id]
               p == [p2 EXCEPT !.patch = b]
    <2>0. c.id \in Id /\ c.id # None
      BY <1>3, AddressbookAssumption DEF Contact, Id
    <2>1. p1 \in Request
      BY <1>2, AskedTyped DEF Ops, Places
    <2>2. p2 \in Request
      <3> HIDE DEF p1
      <3> QED BY <2>0, <2>1, SetTarget
    <2>3. p \in Request
      <3> HIDE DEF p2
      <3> QED BY <2>2, SetPatch
    <2>4. Becomes(r, p)
      BY <1>8, <2>3, BecomesWhen DEF ContactRequest
    <2>5. /\ p.op = op /\ p.owner = o /\ p.pc = "contact" /\ p.todo = <<>> /\ p.book = None /\ p.new = None
          /\ p.target = c.id /\ p.result = {} /\ p.patch = b
      BY DEF NoRequest
    <2> HIDE DEF p
    <2>6. Local(p)
      BY <1>2, <1>4, <1>8, <2>0, <2>5, AddressbookAssumption DEF Local, PcOf
    <2>7. MayBegin(r, o) /\ UNCHANGED <<addressbooks, contacts, nextId, faults>>
      BY <1>8 DEF ContactRequest
    <2>8. req[r].pc = "idle"
      BY <2>7 DEF MayBegin, At
    <2> QED BY <1>2, <2>4, <2>5, <2>6, <2>7, <2>8 DEF Begins, Becomes
  <1>9. \A p \in Patches : p # None
    BY AddressbookAssumption
  <1> QED BY <1>1, <1>2, <1>6, <1>7, <1>8, <1>9

\* A book is looked up.
LEMMA FindMoves ==
    ASSUME Typed, NEW r \in Requests, NEW id \in Id, NEW x \in {"wipe", "owner"},
           req' = [req EXCEPT ![r].book = id, ![r].pc = x],
           x = "wipe" => req[r].pc = "lookup", x = "owner" => req[r].pc = "contact"
    PROVE  /\ Steady(r) /\ req'[r].pc = x /\ req'[r].book = id /\ req'[r].new = req[r].new
           /\ req'[r].target = req[r].target
  <1> DEFINE p1 == [req[r] EXCEPT !.book = id]
             p == [p1 EXCEPT !.pc = x]
  <1>1. req[r] \in Request /\ Local(req[r])
    BY DEF Typed, TypeOK
  <1>2. p1 \in Request
    BY <1>1, SetBook
  <1>3. p \in Request
    <2> HIDE DEF p1
    <2> QED BY <1>2, SetPc DEF Places
  <1>4. req' = [req EXCEPT ![r] = p]
    OBVIOUS
  <1>5. Becomes(r, p)
    BY <1>3, <1>4, BecomesWhen
  <1>6. /\ p.op = req[r].op /\ p.owner = req[r].owner /\ p.pc = x /\ p.result = req[r].result
        /\ p.todo = req[r].todo /\ p.book = id /\ p.new = req[r].new /\ p.target = req[r].target
        /\ p.patch = req[r].patch
    BY <1>1 DEF Request
  <1> HIDE DEF p
  <1>7. Local(p)
    BY <1>1, <1>6, AddressbookAssumption DEF Local, PcOf, Id
  <1> QED BY <1>5, <1>6, <1>7 DEF Steady, Becomes

LEMMA ReadMoves ==
    ASSUME Typed, NEW r \in Requests, NEW cs \in SUBSET Contact,
           req' = [req EXCEPT ![r].result = cs, ![r].pc = "merge"], req[r].pc = "read"
    PROVE  /\ Steady(r) /\ req'[r].pc = "merge" /\ req'[r].book = req[r].book /\ req'[r].new = req[r].new
           /\ req'[r].target = req[r].target /\ req'[r].result = cs
  <1> DEFINE p1 == [req[r] EXCEPT !.result = cs]
             p == [p1 EXCEPT !.pc = "merge"]
  <1>1. req[r] \in Request /\ Local(req[r])
    BY DEF Typed, TypeOK
  <1>2. p1 \in Request
    <2>1. cs \in Answers
      BY DEF Answers
    <2> QED BY <1>1, <2>1, SetResult
  <1>3. p \in Request
    <2> HIDE DEF p1
    <2> QED BY <1>2, SetPc DEF Places
  <1>4. req' = [req EXCEPT ![r] = p]
    OBVIOUS
  <1>5. Becomes(r, p)
    BY <1>3, <1>4, BecomesWhen
  <1>6. /\ p.op = req[r].op /\ p.owner = req[r].owner /\ p.pc = "merge" /\ p.result = cs
        /\ p.todo = req[r].todo /\ p.book = req[r].book /\ p.new = req[r].new /\ p.target = req[r].target
        /\ p.patch = req[r].patch
    BY <1>1 DEF Request
  <1> HIDE DEF p
  <1>7. Local(p)
    BY <1>1, <1>6 DEF Local, PcOf
  <1> QED BY <1>5, <1>6, <1>7 DEF Steady, Becomes

(***************************************************************************)
(* What a step does to the tables, and what the request holds afterwards.  *)
(***************************************************************************)
Same(r) ==
    req'[r].book = req[r].book /\ req'[r].new = req[r].new /\ req'[r].target = req[r].target

Quiet == UNCHANGED <<addressbooks, contacts, nextId>>

\* It ends without a book, or with an error.
Stop(r) == Quiet /\ Ends(r) /\ (req[r].op = "list" => world.faults # 0 \/ req[r].pc = "refetch")

Take(r) ==
    /\ Quiet /\ req[r].pc \in {"fetch", "refetch"} /\ req'[r].pc \in {"read", "check"}
    /\ req'[r].new = None /\ req'[r].target = req[r].target
    /\ \E b \in BooksOf(req[r].owner) : req'[r].book = b.id

Draw(r) ==
    /\ UNCHANGED <<addressbooks, contacts>> /\ nextId' = nextId + 1
    /\ req'[r].new = nextId /\ req'[r].book = req[r].book /\ req'[r].target = req[r].target
    /\ \/ req[r].pc = "wait" /\ req'[r].pc = "create"
       \/ /\ req[r].pc = "fetch" /\ req'[r].pc = "create"
          /\ BooksOf(req[r].owner) = {} \/ world.faults # 0
       \/ req[r].pc = "check" /\ req'[r].pc = "insert"

Go(r) ==
    /\ Quiet /\ Same(r)
    /\ \/ req[r].pc = "create" /\ req'[r].pc = "refetch" /\ BooksOf(req[r].owner) # {}
       \/ req[r].pc = "refetch" /\ req'[r].pc = "wait"
       \/ /\ req[r].pc = "read" /\ req'[r].pc = "merge"
          /\ req'[r].result = DeduplicateByMxid(ContactsOf(req[r].book)) \/ world.faults # 0
       \/ /\ req[r].pc = "owner" /\ req'[r].pc = "act"
          /\ \E b \in addressbooks : b.id = req[r].book /\ b.owner = req[r].owner

Skip(r) ==
    /\ Quiet /\ req[r].pc \in {"check", "insert"} /\ req'[r].pc = "check" /\ req'[r].new = None
    /\ req'[r].book = req[r].book /\ req'[r].target = req[r].target

Find(r) ==
    /\ Quiet /\ req'[r].new = req[r].new /\ req'[r].target = req[r].target
    /\ \/ /\ req[r].pc = "lookup" /\ req'[r].pc = "wipe"
          /\ \E b \in BooksOf(req[r].owner) : req'[r].book = b.id
       \/ /\ req[r].pc = "contact" /\ req'[r].pc = "owner"
          /\ \E c \in Target(r) : req'[r].book = c.addressbook_id

Reply(r) == Quiet /\ req[r].pc = "merge" /\ Ends(r) /\ req[r].result \subseteq req'[r].result

Creates(r) ==
    /\ req[r].pc = "create" /\ (world.unique => BooksOf(req[r].owner) = {})
    /\ addressbooks' = addressbooks \cup {[id |-> req[r].new, owner |-> req[r].owner]}
    /\ UNCHANGED <<contacts, nextId>>
    /\ \/ Ends(r) /\ req[r].op # "list"
       \/ /\ req'[r].pc \in {"read", "check"} /\ req'[r].book = req[r].new /\ req'[r].new = None
          /\ req'[r].target = req[r].target

Inserts(r) ==
    /\ req[r].pc = "insert"
    /\ contacts' = contacts \cup {NewContact(r)}
    /\ UNCHANGED <<addressbooks, nextId>>
    /\ \/ Ends(r)
       \/ /\ req'[r].pc = "check" /\ req'[r].book = req[r].book /\ req'[r].new = None
          /\ req'[r].target = req[r].target

Wipes(r) ==
    /\ req[r].pc = "wipe" /\ req'[r].pc = "drop" /\ Same(r)
    /\ contacts' = contacts \ ContactsOf(req[r].book)
    /\ UNCHANGED <<addressbooks, nextId>>

Drops(r) ==
    /\ req[r].pc = "drop" /\ Ends(r)
    /\ addressbooks' = {b \in addressbooks : b.id # req[r].book}
    /\ UNCHANGED <<contacts, nextId>>

Acts(r) ==
    /\ req[r].pc = "act" /\ Ends(r) /\ req[r].op # "list"
    /\ \/ contacts' = contacts \ Target(r)
       \/ /\ contacts' = (contacts \ Target(r)) \cup {Patched(c, req[r].patch) : c \in Target(r)}
          /\ req[r].op = "update"
    /\ UNCHANGED <<addressbooks, nextId>>

Effect(r) ==
    \/ Stop(r) \/ Take(r) \/ Draw(r) \/ Go(r) \/ Skip(r) \/ Find(r) \/ Reply(r)
    \/ Creates(r) \/ Inserts(r) \/ Wipes(r) \/ Drops(r) \/ Acts(r)

\* Every step has one of these effects.
LEMMA StepEffect ==
    ASSUME Typed, NEW r \in Requests, Step(r)
    PROVE  Steady(r) /\ Effect(r) /\ req[r].pc \notin {"idle", "done"} /\ faults' \in Nat
  <1> USE DEF At
  <1>0. /\ req[r] \in Request /\ Local(req[r]) /\ nextId \in Id /\ faults \in Nat /\ world.faults \in Nat
        /\ contacts \subseteq Contact /\ addressbooks \subseteq Addressbooks
    BY DEF Typed, TypeOK, World
  <1>1. ASSUME Fault PROVE world.faults # 0 /\ faults' \in Nat
    BY <1>0, <1>1 DEF Fault
  <1>2. NoFault => faults' \in Nat
    BY <1>0 DEF NoFault
  <1>3. 200 \in Statuses /\ 400 \in Statuses /\ 403 \in Statuses /\ 404 \in Statuses /\ 500 \in Statuses
    BY DEF Statuses
  <1>4. req[r].pc \in {"fetch", "create", "refetch", "wait"} => req[r].op \in {"list", "add"}
    BY <1>0 DEF Local, PcOf
  <1>5. req[r].pc \in {"check", "insert"} => req[r].op = "add"
    BY <1>0 DEF Local, PcOf
  <1>6. req[r].pc \in {"lookup", "wipe", "drop"} => req[r].op = "delete"
    BY <1>0 DEF Local, PcOf
  <1>7. req[r].pc \in {"contact", "owner", "act"} => req[r].op \notin {"list", "add", "delete"}
    BY <1>0 DEF Local, PcOf
  <1>8. req[r].pc \in {"read", "merge"} => req[r].op = "list"
    BY <1>0 DEF Local, PcOf
  <1>9. \A b \in BooksOf(req[r].owner) : b.id \in Id
    BY <1>0 DEF BooksOf, Addressbooks
  <1>10. {"refetch", "wait", "merge", "drop", "act"} \subseteq Places
    BY DEF Places
  <1>11. CASE FetchBook(r)
    <2>1. 0 \in Attempts
      BY DEF Attempts, maxRetries
    <2>2. CASE BooksOf(req[r].owner) = {} /\ TryCreate(r, 0)
      BY <1>2, <1>11, <2>1, <2>2, TryCreateMoves DEF FetchBook, Effect, Draw
    <2>3. ASSUME NEW b \in BooksOf(req[r].owner), WithBook(r, b.id), UNCHANGED nextId
          PROVE  Steady(r) /\ (Stop(r) \/ Take(r))
      <3>1. Steady(r) /\ ((Ends(r) /\ req[r].op = "add") \/ (/\ req'[r].pc \in {"read", "check"} /\ req'[r].book = b.id
                                        /\ req'[r].new = None /\ req'[r].target = req[r].target))
        BY <1>9, <1>11, <2>3, WithBookMoves DEF FetchBook
      <3> QED BY <1>11, <2>3, <3>1 DEF FetchBook, Take, Stop, Quiet
    <2> QED BY <1>2, <1>11, <2>2, <2>3 DEF FetchBook, Effect
  <1>12. CASE FetchBookFails(r)
    <2>1. 0 \in Attempts
      BY DEF Attempts, maxRetries
    <2> QED BY <1>1, <1>12, <2>1, TryCreateMoves DEF FetchBookFails, Effect, Draw
  <1>13. CASE CreateBook(r)
    <2>1. req[r].new \in Id
      BY <1>0, <1>13 DEF CreateBook, Local, Request
    <2>2. Steady(r) /\ ((Ends(r) /\ req[r].op = "add") \/ (/\ req'[r].pc \in {"read", "check"}
                                      /\ req'[r].book = req[r].new /\ req'[r].new = None
                                      /\ req'[r].target = req[r].target))
      BY <1>13, <2>1, WithBookMoves DEF CreateBook
    <2> QED BY <1>0, <1>13, <2>2 DEF CreateBook, Effect, Creates
  <1>14. CASE CreateBookDuplicate(r)
    <2>1. "refetch" \in PcOf(req[r].op)
      BY <1>4, <1>14 DEF CreateBookDuplicate, PcOf
    <2>2. Steady(r) /\ req'[r].pc = "refetch" /\ Same(r)
      BY <1>10, <1>14, <2>1, GotoMoves DEF CreateBookDuplicate, Same
    <2> QED BY <1>0, <1>14, <2>2 DEF CreateBookDuplicate, Effect, Go, Quiet
  <1>15. CASE CreateBookFails(r)
    <2>1. Steady(r) /\ Ends(r)
      BY <1>3, <1>15, AnswerMoves DEF CreateBookFails, GiveUpBook
    <2> QED BY <1>1, <1>15, <2>1 DEF CreateBookFails, Effect, Stop, Quiet
  <1>16. CASE RefetchBook(r)
    <2>1. ASSUME WaitOrGiveUp(r) PROVE Steady(r) /\ (Stop(r) \/ Go(r))
      <3>1. CASE req[r].attempt < maxRetries - 1
        <4>1. "wait" \in PcOf(req[r].op)
          BY <1>4, <1>16 DEF RefetchBook, PcOf
        <4>2. Steady(r) /\ req'[r].pc = "wait" /\ Same(r)
          BY <1>10, <1>16, <2>1, <3>1, <4>1, GotoMoves DEF RefetchBook, WaitOrGiveUp, Same
        <4> QED BY <1>16, <4>2 DEF RefetchBook, Go, Quiet
      <3>2. CASE ~ (req[r].attempt < maxRetries - 1)
        <4>1. Steady(r) /\ Ends(r)
          BY <1>3, <1>16, <2>1, <3>2, AnswerMoves DEF RefetchBook, WaitOrGiveUp, GiveUpBook
        <4> QED BY <1>16, <4>1 DEF RefetchBook, Stop, Quiet
      <3> QED BY <3>1, <3>2
    <2>2. ASSUME NEW b \in BooksOf(req[r].owner), WithBook(r, b.id)
          PROVE  Steady(r) /\ (Stop(r) \/ Take(r))
      <3>1. Steady(r) /\ (Ends(r) \/ (/\ req'[r].pc \in {"read", "check"} /\ req'[r].book = b.id
                                        /\ req'[r].new = None /\ req'[r].target = req[r].target))
        BY <1>9, <1>16, <2>2, WithBookMoves DEF RefetchBook
      <3> QED BY <1>16, <2>2, <3>1 DEF RefetchBook, Take, Stop, Quiet
    <2> QED BY <1>1, <1>2, <1>16, <2>1, <2>2 DEF RefetchBook, Effect
  <1>17. CASE RetryCreate(r)
    <2>1. req[r].attempt + 1 \in Attempts
      BY <1>0, <1>17 DEF RetryCreate, Local, Request, Attempts, maxRetries
    <2> QED BY <1>0, <1>17, <2>1, TryCreateMoves DEF RetryCreate, Effect, Draw
  <1>18. CASE ListAddressbookContacts(r)
    <2>1. DeduplicateByMxid(ContactsOf(req[r].book)) \in SUBSET Contact
      BY <1>0 DEF DeduplicateByMxid, ContactsOf
    <2>2. CASE NoFault /\ req' = [req EXCEPT ![r].result = DeduplicateByMxid(ContactsOf(req[r].book)),
                                             ![r].pc = "merge"]
      <3>1. /\ Steady(r) /\ req'[r].pc = "merge" /\ Same(r)
            /\ req'[r].result = DeduplicateByMxid(ContactsOf(req[r].book))
        <4> DEFINE cs == DeduplicateByMxid(ContactsOf(req[r].book))
        <4>1. req' = [req EXCEPT ![r].result = cs, ![r].pc = "merge"] /\ cs \in SUBSET Contact
          BY <2>1, <2>2
        <4> HIDE DEF cs
        <4>2. Steady(r) /\ req'[r].pc = "merge" /\ Same(r) /\ req'[r].result = cs
          BY <1>18, <4>1, ReadMoves DEF ListAddressbookContacts, Same
        <4> QED BY <4>2 DEF cs
      <3> QED BY <1>2, <1>18, <2>2, <3>1 DEF ListAddressbookContacts, Effect, Go, Quiet
    <2>3. CASE Fault /\ Goto(r, "merge")
      <3>1. "merge" \in PcOf(req[r].op)
        BY <1>8, <1>18 DEF ListAddressbookContacts, PcOf
      <3>2. Steady(r) /\ req'[r].pc = "merge" /\ Same(r)
        BY <1>10, <1>18, <2>3, <3>1, GotoMoves DEF ListAddressbookContacts, Same
      <3> QED BY <1>1, <1>18, <2>3, <3>2 DEF ListAddressbookContacts, Effect, Go, Quiet
    <2> QED BY <1>18, <2>2, <2>3 DEF ListAddressbookContacts
  <1>19. CASE GetUserDbContacts(r)
    <2>1. PICK others \in {UserDbContacts, {}} :
              /\ IF others = UserDbContacts THEN NoFault ELSE Fault
              /\ req' = [req EXCEPT ![r] = Answered(@, 200, Merge(@.result, others))]
      BY <1>19 DEF GetUserDbContacts
    <2>2. UserDbContacts \subseteq DirectoryContact
      <3> SUFFICES ASSUME NEW c \in UserDbContacts PROVE c \in DirectoryContact
        OBVIOUS
      <3>1. PICK u \in Directory : c = [id |-> None, addressbook_id |-> None, mxid |-> u.mxid,
                                      display_name |-> u.display_name, active |-> TRUE]
        BY DEF UserDbContacts
      <3>2. u.mxid \in Mxids /\ u.display_name \in Names
        BY AddressbookAssumption
      <3> QED BY <3>1, <3>2 DEF DirectoryContact
    <2>3. req[r].result \subseteq Contact
      BY <1>0, <1>19 DEF GetUserDbContacts, Local
    <2>4. Merge(req[r].result, others) \in Answers /\ req[r].result \subseteq Merge(req[r].result, others)
      BY <2>2, <2>3 DEF Merge, Answers
    <2>5. req' = [req EXCEPT ![r] = Answered(req[r], 200, Merge(req[r].result, others))]
      BY <2>1
    <2>6. Steady(r) /\ Ends(r) /\ req'[r].result = Merge(req[r].result, others)
      <3>1. PICK m \in Answers : m = Merge(req[r].result, others)
        BY <2>4
      <3>2. PICK st \in Statuses : st = 200
        BY <1>3
      <3>3. req' = [req EXCEPT ![r] = Answered(req[r], st, m)] /\ req[r].pc # "idle"
        BY <1>19, <2>5, <3>1, <3>2 DEF GetUserDbContacts
      <3>4. Steady(r) /\ Ends(r) /\ req'[r].result = m
        BY <3>3, AnsweredMoves
      <3> QED BY <3>1, <3>4
    <2> QED BY <1>1, <1>2, <1>19, <2>1, <2>4, <2>6 DEF GetUserDbContacts, Effect, Reply, Quiet
  <1>20. CASE CheckIfContactExists(r)
    <2>1. CASE NextContact(r) /\ UNCHANGED nextId
      <3>1. Steady(r) /\ (Stop(r) \/ Skip(r))
        BY <1>5, <1>20, <2>1, NextContactMoves DEF CheckIfContactExists, Stop, Skip, Quiet
      <3> QED BY <1>2, <1>20, <3>1 DEF CheckIfContactExists, Effect
    <2>2. CASE DrawContactId(r)
      BY <1>2, <1>20, <2>2, DrawMoves DEF CheckIfContactExists, Effect, Draw
    <2> QED BY <1>20, <2>1, <2>2 DEF CheckIfContactExists
  <1>21. CASE CheckFails(r)
    BY <1>1, <1>21, DrawMoves DEF CheckFails, Effect, Draw
  <1>22. CASE InsertContact(r)
    BY <1>0, <1>22, NextContactMoves DEF InsertContact, Effect, Inserts
  <1>23. CASE InsertContactFails(r)
    <2>1. Steady(r) /\ (Stop(r) \/ Skip(r))
      BY <1>5, <1>23, NextContactMoves DEF InsertContactFails, Stop, Skip, Quiet
    <2> QED BY <1>1, <1>23, <2>1 DEF InsertContactFails, Effect
  <1>24. CASE LookupBook(r)
    <2>1. ASSUME NEW b \in BooksOf(req[r].owner), req' = [req EXCEPT ![r].book = b.id, ![r].pc = "wipe"]
          PROVE  Steady(r) /\ Find(r)
      <3>1. Steady(r) /\ req'[r].pc = "wipe" /\ req'[r].book = b.id /\ req'[r].new = req[r].new
            /\ req'[r].target = req[r].target
        BY <1>9, <1>24, <2>1, FindMoves DEF LookupBook
      <3> QED BY <1>24, <2>1, <3>1 DEF LookupBook, Find, Quiet
    <2>2. ASSUME Answer(r, 500) PROVE Steady(r) /\ Stop(r)
      BY <1>3, <1>6, <1>24, <2>2, AnswerMoves DEF LookupBook, Stop, Quiet
    <2> QED BY <1>0, <1>24, <2>1, <2>2 DEF LookupBook, Effect
  <1>25. CASE DeleteContacts(r)
    <2>1. "drop" \in PcOf(req[r].op)
      BY <1>6, <1>25 DEF DeleteContacts, PcOf
    <2>2. Steady(r) /\ req'[r].pc = "drop" /\ Same(r)
      BY <1>10, <1>25, <2>1, GotoMoves DEF DeleteContacts, Same
    <2> QED BY <1>0, <1>25, <2>2 DEF DeleteContacts, Effect, Wipes
  <1>26. CASE DeleteBook(r)
    <2>1. Steady(r) /\ Ends(r)
      BY <1>3, <1>26, AnswerMoves DEF DeleteBook
    <2> QED BY <1>0, <1>26, <2>1 DEF DeleteBook, Effect, Drops
  <1>27. CASE DeleteFails(r)
    <2>1. Steady(r) /\ Ends(r)
      BY <1>3, <1>27, AnswerMoves DEF DeleteFails
    <2> QED BY <1>1, <1>6, <1>27, <2>1 DEF DeleteFails, Effect, Stop, Quiet
  <1>28. CASE CheckContact(r)
    <2>1. ASSUME NEW c \in Target(r), req' = [req EXCEPT ![r].book = c.addressbook_id, ![r].pc = "owner"]
          PROVE  Steady(r) /\ Find(r)
      <3>1. c.addressbook_id \in Id
        BY <1>0 DEF Target, Contact
      <3>2. Steady(r) /\ req'[r].pc = "owner" /\ req'[r].book = c.addressbook_id /\ req'[r].new = req[r].new
            /\ req'[r].target = req[r].target
        BY <1>28, <2>1, <3>1, FindMoves DEF CheckContact
      <3> QED BY <1>28, <2>1, <3>2 DEF CheckContact, Find, Quiet
    <2>2. ASSUME Answer(r, 404) PROVE Steady(r) /\ Stop(r)
      BY <1>3, <1>7, <1>28, <2>2, AnswerMoves DEF CheckContact, Stop, Quiet
    <2> QED BY <1>1, <1>2, <1>28, <2>1, <2>2 DEF CheckContact, Effect
  <1>29. CASE CheckContactOwnership(r)
    <2>1. req[r].pc = "owner" /\ Quiet /\ faults' \in Nat
      BY <1>1, <1>2, <1>29 DEF CheckContactOwnership, Quiet
    <2>2. ASSUME NEW st \in {400, 403, 404}, Answer(r, st) PROVE Steady(r) /\ Stop(r)
      BY <1>3, <1>7, <2>1, <2>2, AnswerMoves DEF Stop
    <2>3. ASSUME Goto(r, "act"), req[r].op = "update" => ValidUpdate(req[r].patch),
                 \E b \in addressbooks : b.id = req[r].book /\ b.owner = req[r].owner
          PROVE  Steady(r) /\ Go(r)
      <3>1. "act" \in PcOf(req[r].op)
        BY <1>7, <2>1 DEF PcOf
      <3>2. Steady(r) /\ req'[r].pc = "act" /\ Same(r)
        BY <1>10, <2>1, <2>3, <3>1, GotoMoves DEF Same
      <3> QED BY <2>1, <2>3, <3>2 DEF Go
    <2>4. req[r].op = "update" => req[r].patch # None
      BY <1>0, <2>1 DEF Local
    <2>5. \/ \E st \in {400, 403, 404} : Answer(r, st)
          \/ /\ Goto(r, "act") /\ (req[r].op = "update" => ValidUpdate(req[r].patch))
             /\ \E b \in addressbooks : b.id = req[r].book /\ b.owner = req[r].owner
      BY <1>29, <2>4 DEF CheckContactOwnership
    <2> QED BY <2>1, <2>2, <2>3, <2>5 DEF Effect
  <1>30. CASE GetContact(r)
    <2>1. Steady(r) /\ Ends(r)
      BY <1>3, <1>30, AnswerMoves DEF GetContact
    <2> QED BY <1>0, <1>7, <1>30, <2>1 DEF GetContact, Effect, Stop, Quiet
  <1>31. CASE UpdateContact(r)
    <2>1. Steady(r) /\ Ends(r)
      BY <1>3, <1>31, AnswerMoves DEF UpdateContact
    <2> QED BY <1>0, <1>7, <1>31, <2>1 DEF UpdateContact, Effect, Acts
  <1>32. CASE DeleteContact(r)
    <2>1. Steady(r) /\ Ends(r)
      BY <1>3, <1>32, AnswerMoves DEF DeleteContact
    <2> QED BY <1>0, <1>7, <1>32, <2>1 DEF DeleteContact, Effect, Acts
  <1>33. CASE ActFails(r)
    <2>1. Steady(r) /\ Ends(r)
      BY <1>3, <1>33, AnswerMoves DEF ActFails
    <2> QED BY <1>1, <1>7, <1>33, <2>1 DEF ActFails, Effect, Stop, Quiet
  <1> QED BY <1>11, <1>12, <1>13, <1>14, <1>15, <1>16, <1>17, <1>18, <1>19, <1>20, <1>21, <1>22, <1>23, <1>24,
             <1>25, <1>26, <1>27, <1>28, <1>29, <1>30, <1>31, <1>32, <1>33 DEF Step

LEMMA NextCases ==
    ASSUME [Next]_vars
    PROVE  \/ UNCHANGED vars
           \/ world' = world /\ \E r \in Requests : Begin(r) \/ Step(r)
  BY DEF Next, Terminating, Happens

LEMMA NewContactTyped ==
    ASSUME Typed, NEW r \in Requests, req[r].pc = "insert"
    PROVE  NewContact(r) \in Contact
  <1>1. req[r] \in Request /\ Local(req[r])
    BY DEF Typed, TypeOK
  <1>2. req[r].new \in Id /\ req[r].book \in Id
    BY <1>1 DEF Local, Request
  <1>3. req[r].todo \in Bodies /\ req[r].todo # <<>> /\ ValidCreation(req[r].todo)
    BY <1>1 DEF Local, Request
  <1>4. Head(req[r].todo).mxid \in Mxids /\ Head(req[r].todo).display_name \in Names
    <2> DEFINE E == [mxid : Mxids, display_name : Names \cup {NoName}]
    <2>1. PICK p \in Seq(E) : p = req[r].todo
      BY <1>3 DEF Bodies
    <2>2. p # <<>> /\ Len(p) \in Nat \ {0} /\ 1 \in DOMAIN p
      <3> HIDE DEF E
      <3> QED BY <1>3, <2>1, EmptySeq
    <2>3. Head(p) = p[1] /\ p[1] \in E
      <3> HIDE DEF E
      <3> QED BY <2>2
    <2>4. p[1].display_name # NoName
      BY <1>3, <2>1, <2>2 DEF ValidCreation
    <2> QED BY <2>1, <2>3, <2>4
  <1> QED BY <1>2, <1>4 DEF NewContact, Contact

LEMMA PatchedContact ==
    ASSUME Typed, NEW r \in Requests, req[r].pc = "act", req[r].op = "update", NEW c \in Contact
    PROVE  LET d == Patched(c, req[r].patch)
           IN  /\ d \in Contact /\ d.id = c.id /\ d.addressbook_id = c.addressbook_id /\ d.mxid = c.mxid
  <1>1. req[r] \in Request /\ Local(req[r])
    BY DEF Typed, TypeOK
  <1>2. req[r].patch \in Patches /\ ValidUpdate(req[r].patch)
    BY <1>1 DEF Local, Request
  <1>3. PICK p \in [display_name : Names \cup {NoName}, active : BOOLEAN \cup {None}] : p = req[r].patch
    BY <1>2, AddressbookAssumption
  <1>4. p.display_name \in Names
    BY <1>2, <1>3 DEF ValidUpdate
  <1>5. PICK a \in BOOLEAN : a = IF p.active = None THEN c.active ELSE p.active
    BY <1>3 DEF Contact
  <1> DEFINE d1 == [c EXCEPT !.display_name = p.display_name]
             d == [d1 EXCEPT !.active = a]
  <1>6. Patched(c, p) = d
    BY <1>5 DEF Patched
  <1>7. d1 \in Contact
    BY <1>4 DEF Contact
  <1>8. d \in Contact
    <2> HIDE DEF d1
    <2> QED BY <1>7 DEF Contact
  <1>9. d.id = c.id /\ d.addressbook_id = c.addressbook_id /\ d.mxid = c.mxid
    BY DEF Contact
  <1> HIDE DEF d
  <1> QED BY <1>3, <1>6, <1>8, <1>9

LEMMA TypedStep ==
    ASSUME Typed, [Next]_vars
    PROVE  Typed'
  <1>1. CASE UNCHANGED vars
    BY <1>1 DEF vars, Typed, TypeOK
  <1>2. ASSUME world' = world, NEW r \in Requests, Begin(r) PROVE Typed'
    BY <1>2, BeginMoves DEF Begins, Becomes, Typed, TypeOK
  <1>3. ASSUME world' = world, NEW r \in Requests, Step(r) PROVE Typed'
    <2>1. Steady(r) /\ Effect(r) /\ faults' \in Nat
      BY <1>3, StepEffect
    <2>2. req' \in [Requests -> Request] /\ \A s \in Requests : Local(req'[s])
      BY <2>1 DEF Typed, Steady, Becomes
    <2>3. /\ req[r] \in Request /\ Local(req[r]) /\ nextId \in Id
          /\ contacts \subseteq Contact /\ addressbooks \subseteq Addressbooks
      BY DEF Typed, TypeOK
    <2>4. nextId' \in Id
      BY <2>1, <2>3 DEF Effect, Stop, Take, Draw, Go, Skip, Find, Reply, Quiet, Creates, Inserts, Wipes, Drops, Acts, Id
    <2>5. addressbooks' \subseteq Addressbooks
      <3>1. CASE Creates(r)
        <4>1. req[r].new \in Id /\ req[r].owner \in Owners
          BY <2>3, <3>1 DEF Creates, Local, Request
        <4> QED BY <2>3, <3>1, <4>1 DEF Creates, Addressbooks
      <3>2. CASE Drops(r)
        BY <2>3, <3>2 DEF Drops
      <3> QED BY <2>1, <2>3, <3>1, <3>2 DEF Effect, Stop, Take, Draw, Go, Skip, Find, Reply, Quiet, Inserts,
                                            Wipes, Acts
    <2>6. contacts' \subseteq Contact
      <3>1. CASE Inserts(r)
        <4>1. NewContact(r) \in Contact
          BY <3>1, NewContactTyped DEF Inserts
        <4> QED BY <2>3, <3>1, <4>1 DEF Inserts
      <3>2. CASE Acts(r)
        <4>1. ASSUME req[r].op = "update", NEW c \in Target(r) PROVE Patched(c, req[r].patch) \in Contact
          BY <2>3, <3>2, <4>1, PatchedContact DEF Acts, Target
        <4> QED BY <2>3, <3>2, <4>1 DEF Acts
      <3>3. CASE Wipes(r)
        BY <2>3, <3>3 DEF Wipes
      <3> QED BY <2>1, <2>3, <3>1, <3>2, <3>3 DEF Effect, Stop, Take, Draw, Go, Skip, Find, Reply, Quiet, Creates,
                                            Drops
    <2> QED BY <1>3, <2>1, <2>2, <2>4, <2>5, <2>6 DEF Typed, TypeOK
  <1> QED BY <1>1, <1>2, <1>3, NextCases

(***************************************************************************)
(* Ids                                                                     *)
(***************************************************************************)
\* Some row or request names n.
InUse(n) ==
    \/ \E b \in addressbooks : b.id = n
    \/ \E c \in contacts : c.id = n \/ c.addressbook_id = n
    \/ \E s \in Requests : req[s].book = n \/ req[s].target = n

\* An id that was drawn for a row is used by nobody before the row is inserted.
FreshIds ==
    /\ \A n \in Id : InUse(n) => n < nextId
    /\ \A r \in Requests : req[r].new # None =>
          /\ req[r].new < nextId /\ ~ InUse(req[r].new)
          /\ \A s \in Requests : req[s].new = req[r].new => s = r

OneRowPerId ==
    /\ \A a, b \in addressbooks : a.id = b.id => a = b
    /\ \A c, d \in contacts : c.id = d.id => c = d

IdsInv == FreshIds /\ OneRowPerId

\* What is in use after a step was in use before, or is the id that the request had drawn.
LEMMA UseGrows ==
    ASSUME Typed, NEW r \in Requests, Begin(r) \/ Step(r), NEW n \in Id, InUse(n)'
    PROVE  InUse(n) \/ (n = req[r].new /\ req'[r].new = None)
  <1>0. None \notin Id
    BY AddressbookAssumption DEF Id
  <1>1. CASE Begin(r)
    BY <1>0, <1>1, BeginMoves DEF Begins, Becomes, InUse
  <1>2. CASE Step(r)
    <2>1. Steady(r) /\ Effect(r)
      BY <1>2, StepEffect
    <2>2. \A s \in Requests \ {r} : req'[s] = req[s]
      BY <2>1 DEF Steady, Becomes
    <2>3. CASE Stop(r) \/ Draw(r) \/ Go(r) \/ Skip(r) \/ Reply(r)
      <3>1. UNCHANGED <<addressbooks, contacts>> /\ req'[r].book \in {None, req[r].book}
            /\ req'[r].target \in {None, req[r].target}
        BY <2>3 DEF Stop, Draw, Go, Skip, Reply, Quiet, Ends, Same
      <3> QED BY <1>0, <2>2, <3>1 DEF InUse
    <2>4. CASE Take(r) \/ Find(r)
      <3>1. UNCHANGED <<addressbooks, contacts>> /\ req'[r].target = req[r].target
            /\ ((\E b \in addressbooks : b.id = req'[r].book) \/ \E c \in contacts : c.addressbook_id = req'[r].book)
        BY <2>4 DEF Take, Find, Quiet, BooksOf, Target
      <3> QED BY <1>0, <2>2, <3>1 DEF InUse
    <2>5. CASE Creates(r)
      <3>1. /\ UNCHANGED contacts /\ req'[r].target \in {None, req[r].target} /\ req'[r].new = None
            /\ req'[r].book \in {None, req[r].new}
            /\ \A b \in addressbooks' : b \in addressbooks \/ b.id = req[r].new
        BY <2>5 DEF Creates, Ends
      <3> QED BY <1>0, <2>2, <3>1 DEF InUse
    <2>6. CASE Inserts(r)
      <3>1. /\ UNCHANGED addressbooks /\ req'[r].target \in {None, req[r].target} /\ req'[r].new = None
            /\ req'[r].book \in {None, req[r].book}
            /\ \A c \in contacts' : c \in contacts \/ (c.id = req[r].new /\ c.addressbook_id = req[r].book)
        BY <2>6 DEF Inserts, Ends, NewContact
      <3> QED BY <1>0, <2>2, <3>1 DEF InUse
    <2>7. CASE Wipes(r) \/ Drops(r)
      <3>1. /\ addressbooks' \subseteq addressbooks /\ contacts' \subseteq contacts
            /\ req'[r].target \in {None, req[r].target} /\ req'[r].book \in {None, req[r].book}
        BY <2>7 DEF Wipes, Drops, Ends, Same
      <3> QED BY <1>0, <2>2, <3>1 DEF InUse
    <2>8. CASE Acts(r)
      <3>1. /\ UNCHANGED addressbooks /\ req'[r].target = None /\ req'[r].book = None
        BY <2>8 DEF Acts, Ends
      <3>2. \A c \in contacts' : \E d \in contacts : d.id = c.id /\ d.addressbook_id = c.addressbook_id
        <4>1. contacts \subseteq Contact
          BY DEF Typed, TypeOK
        <4>2. ASSUME req[r].op = "update", NEW d \in Target(r)
              PROVE  Patched(d, req[r].patch).id = d.id /\ Patched(d, req[r].patch).addressbook_id = d.addressbook_id
          BY <2>8, <4>1, <4>2, PatchedContact DEF Acts, Target
        <4> QED BY <2>8, <4>2 DEF Acts, Target
      <3> QED BY <1>0, <2>2, <3>1, <3>2 DEF InUse
    <2> QED BY <2>1, <2>3, <2>4, <2>5, <2>6, <2>7, <2>8 DEF Effect
  <1> QED BY <1>1, <1>2

LEMMA FreshIdsStep ==
    ASSUME Typed, FreshIds, NEW r \in Requests, Begin(r) \/ Step(r)
    PROVE  FreshIds'
  <1>0. None \notin Id /\ nextId \in Id /\ Id \subseteq Nat
    BY AddressbookAssumption DEF Typed, TypeOK, Id
  <1>1. \A s \in Requests : req[s].new \in Id \cup {None}
    BY DEF Typed, TypeOK, Request
  <1>2. \A s \in Requests \ {r} : req'[s] = req[s]
    BY BeginMoves, StepEffect DEF Begins, Steady, Becomes
  <1>3. \/ req'[r].new = None /\ nextId' = nextId
        \/ req'[r].new = req[r].new /\ nextId' = nextId
        \/ req'[r].new = nextId /\ nextId' = nextId + 1
    BY BeginMoves, StepEffect DEF Begins, Effect, Stop, Take, Draw, Go, Skip, Find, Reply, Quiet, Creates, Inserts,
                                  Wipes, Drops, Acts, Ends, Same
  <1>4. \A n \in Id : InUse(n)' => InUse(n) \/ (n = req[r].new /\ req'[r].new = None)
    BY UseGrows
  <1>5. ASSUME NEW n \in Id, InUse(n)' PROVE n < nextId'
    BY <1>0, <1>1, <1>3, <1>4, <1>5 DEF FreshIds
  <1>6. ASSUME NEW s \in Requests, req'[s].new # None
        PROVE  /\ req'[s].new < nextId' /\ ~ InUse(req[s].new)'
               /\ \A q \in Requests : req'[q].new = req'[s].new => q = s
    <2>1. CASE s = r /\ req'[r].new = nextId /\ nextId' = nextId + 1
      <3>1. ~ InUse(nextId)
        BY <1>0 DEF FreshIds
      <3>2. ~ InUse(req[s].new)'
        <4>1. SUFFICES ASSUME InUse(req[s].new)' PROVE FALSE
          OBVIOUS
        <4>2. PICK n \in Id : n = req'[s].new
          BY <1>0, <2>1
        <4>3. InUse(n)'
          BY <4>1, <4>2 DEF InUse
        <4> QED BY <1>0, <1>4, <2>1, <3>1, <4>2, <4>3
      <3>3. \A q \in Requests \ {r} : req'[q].new # nextId
        BY <1>0, <1>1, <1>2 DEF FreshIds
      <3> QED BY <1>0, <2>1, <3>2, <3>3
    <2>2. CASE ~ (s = r /\ req'[r].new = nextId /\ nextId' = nextId + 1)
      <3>1. req'[s].new = req[s].new
        BY <1>2, <1>3, <1>6, <2>2
      <3>2. PICK n \in Id : n = req[s].new
        BY <1>1, <1>6, <3>1
      <3>3. n < nextId /\ ~ InUse(n) /\ \A q \in Requests : req[q].new = n => q = s
        BY <1>0, <3>2 DEF FreshIds
      <3>4. ~ InUse(n)'
        BY <1>4, <1>6, <3>1, <3>2, <3>3
      <3>5. n < nextId'
        BY <1>0, <1>3, <3>3
      <3>6. \A q \in Requests : req'[q].new = n => q = s
        BY <1>0, <1>2, <1>3, <3>2, <3>3
      <3>7. ~ InUse(req[s].new)'
        BY <3>1, <3>2, <3>4 DEF InUse
      <3> QED BY <3>1, <3>2, <3>5, <3>6, <3>7
    <2> QED BY <2>1, <2>2
  <1> QED BY <1>5, <1>6 DEF FreshIds

LEMMA OneRowStep ==
    ASSUME Typed, FreshIds, OneRowPerId, NEW r \in Requests, Begin(r) \/ Step(r)
    PROVE  OneRowPerId'
  <1>0. /\ contacts \subseteq Contact /\ addressbooks \subseteq Addressbooks
        /\ req[r] \in Request /\ Local(req[r])
    BY DEF Typed, TypeOK
  <1>1. CASE UNCHANGED <<addressbooks, contacts>>
    BY <1>1 DEF OneRowPerId
  <1>2. CASE Creates(r)
    <2>1. req[r].new # None
      BY <1>0, <1>2 DEF Creates, Local
    <2>2. \A b \in addressbooks : b.id # req[r].new
      BY <2>1 DEF FreshIds, InUse
    <2> QED BY <1>2, <2>2 DEF Creates, OneRowPerId
  <1>3. CASE Inserts(r)
    <2>1. req[r].new # None
      BY <1>0, <1>3 DEF Inserts, Local
    <2>2. \A c \in contacts : c.id # req[r].new
      BY <2>1 DEF FreshIds, InUse
    <2>3. NewContact(r).id = req[r].new
      BY DEF NewContact
    <2> QED BY <1>3, <2>2, <2>3 DEF Inserts, OneRowPerId
  <1>4. CASE Wipes(r) \/ Drops(r)
    BY <1>4 DEF Wipes, Drops, OneRowPerId
  <1>5. CASE Acts(r)
    <2>1. CASE contacts' = contacts \ Target(r)
      BY <1>5, <2>1 DEF Acts, OneRowPerId
    <2>2. CASE contacts' = (contacts \ Target(r)) \cup {Patched(c, req[r].patch) : c \in Target(r)}
               /\ req[r].op = "update"
      <3>1. \A c \in Target(r) : Patched(c, req[r].patch).id = req[r].target /\ c.id = req[r].target
        BY <1>0, <1>5, <2>2, PatchedContact DEF Acts, Target
      <3>2. \A c \in contacts \ Target(r) : c.id # req[r].target
        BY DEF Target
      <3>3. \A c, d \in Target(r) : c = d
        BY DEF Target, OneRowPerId
      <3>4. \A c, d \in contacts' : c.id = d.id => c = d
        BY <2>2, <3>1, <3>2, <3>3 DEF OneRowPerId
      <3> QED BY <1>5, <3>4 DEF Acts, OneRowPerId
    <2> QED BY <1>5, <2>1, <2>2 DEF Acts
  <1> QED BY <1>1, <1>2, <1>3, <1>4, <1>5, BeginMoves, StepEffect
          DEF Begins, Effect, Stop, Take, Draw, Go, Skip, Find, Reply, Quiet

\* A row after a step was there before, or the step inserted it.
LEMMA RowsAfter ==
    ASSUME Typed, NEW r \in Requests, Begin(r) \/ Step(r)
    PROVE  /\ \A c \in contacts' :
                \/ Inserts(r) /\ c = NewContact(r)
                \/ \E d \in contacts : d.id = c.id /\ d.addressbook_id = c.addressbook_id /\ d.mxid = c.mxid
           /\ \A b \in addressbooks' :
                b \in addressbooks \/ (Creates(r) /\ b = [id |-> req[r].new, owner |-> req[r].owner])
           /\ ~ Drops(r) => addressbooks \subseteq addressbooks'
  <1>0. contacts \subseteq Contact
    BY DEF Typed, TypeOK
  <1>1. CASE UNCHANGED <<addressbooks, contacts>>
    BY <1>1
  <1>2. CASE Creates(r) \/ Inserts(r) \/ Wipes(r) \/ Drops(r)
    BY <1>2 DEF Creates, Inserts, Wipes, Drops
  <1>3. CASE Acts(r)
    <2>1. ASSUME req[r].op = "update", NEW d \in Target(r)
          PROVE  LET c == Patched(d, req[r].patch)
                 IN  d.id = c.id /\ d.addressbook_id = c.addressbook_id /\ d.mxid = c.mxid
      BY <1>0, <1>3, <2>1, PatchedContact DEF Acts, Target
    <2> QED BY <1>3, <2>1 DEF Acts, Target
  <1> QED BY <1>1, <1>2, <1>3, BeginMoves, StepEffect
          DEF Begins, Effect, Stop, Take, Draw, Go, Skip, Find, Reply, Quiet

\* Nobody holds an id that another has drawn.
LEMMA NewIsNobodys ==
    ASSUME Typed, FreshIds, NEW r \in Requests, req[r].pc \in {"create", "insert"}, NEW s \in Requests
    PROVE  req[s].book # req[r].new /\ req[s].target # req[r].new
  BY DEF Typed, Local, FreshIds, InUse

(***************************************************************************)
(* Owners                                                                  *)
(***************************************************************************)
\* What the check of ownership found is still so when the query that it guards is made.
OwnerOK(q) ==
    /\ q.pc \in {"owner", "act"} => \A c \in contacts : c.id = q.target => c.addressbook_id = q.book
    /\ q.pc \in {"act", "wipe", "drop"} => \A b \in addressbooks : b.id = q.book => b.owner = q.owner

OwnerInv == \A r \in Requests : OwnerOK(req[r])

LEMMA OwnerInvStep ==
    ASSUME Typed, FreshIds, OneRowPerId, OwnerInv, NEW r \in Requests, Begin(r) \/ Step(r)
    PROVE  OwnerInv'
  <1>1. \A s \in Requests \ {r} : req'[s] = req[s]
    BY BeginMoves, StepEffect DEF Begins, Steady, Becomes
  <1>2. ASSUME NEW s \in Requests, s # r PROVE OwnerOK(req[s])'
    <2>1. OwnerOK(req[s]) /\ req'[s] = req[s]
      BY <1>1, <1>2 DEF OwnerInv
    <2>2. \A c \in contacts' : c.id = req[s].target =>
             \E d \in contacts : d.id = c.id /\ d.addressbook_id = c.addressbook_id
      BY RowsAfter, NewIsNobodys DEF Inserts, NewContact
    <2>3. \A b \in addressbooks' : b.id = req[s].book => b \in addressbooks
      BY RowsAfter, NewIsNobodys DEF Creates
    <2> QED BY <2>1, <2>2, <2>3 DEF OwnerOK
  <1>3. OwnerOK(req[r])'
    <2>1. CASE Begin(r)
      BY <2>1, BeginMoves DEF Begins, OwnerOK
    <2>2. CASE Step(r)
      <3>1. Steady(r) /\ Effect(r) /\ OwnerOK(req[r])
        BY <2>2, StepEffect DEF OwnerInv
      <3>2. CASE Find(r)
        <4>1. UNCHANGED <<addressbooks, contacts>> /\ req'[r].target = req[r].target /\ req'[r].owner = req[r].owner
          BY <3>1, <3>2 DEF Find, Quiet, Steady
        <4>2. CASE req[r].pc = "lookup" /\ req'[r].pc = "wipe" /\ \E b \in BooksOf(req[r].owner) : req'[r].book = b.id
          BY <4>1, <4>2 DEF OwnerOK, BooksOf, OneRowPerId
        <4>3. CASE req[r].pc = "contact" /\ req'[r].pc = "owner"
                   /\ \E c \in Target(r) : req'[r].book = c.addressbook_id
          BY <4>1, <4>3 DEF OwnerOK, Target, OneRowPerId
        <4> QED BY <3>2, <4>2, <4>3 DEF Find
      <3>3. CASE Go(r)
        <4>1. UNCHANGED <<addressbooks, contacts>> /\ req'[r].target = req[r].target /\ req'[r].owner = req[r].owner
              /\ req'[r].book = req[r].book
          BY <3>1, <3>3 DEF Go, Quiet, Steady, Same
        <4>2. CASE req'[r].pc # "act"
          BY <3>3, <4>2 DEF Go, OwnerOK
        <4>3. CASE req'[r].pc = "act"
          <5>1. req[r].pc = "owner" /\ \E b \in addressbooks : b.id = req[r].book /\ b.owner = req[r].owner
            BY <3>3, <4>3 DEF Go
          <5> QED BY <3>1, <4>1, <4>3, <5>1 DEF OwnerOK, OneRowPerId
        <4> QED BY <4>2, <4>3
      <3>4. CASE Wipes(r)
        BY <3>1, <3>4 DEF Wipes, Same, Steady, OwnerOK
      <3>5. CASE ~ (Find(r) \/ Go(r) \/ Wipes(r))
        <4>1. req'[r].pc \notin {"owner", "act", "wipe", "drop"}
          BY <3>1, <3>5 DEF Effect, Stop, Take, Draw, Skip, Reply, Creates, Inserts, Drops, Acts, Ends
        <4> QED BY <4>1 DEF OwnerOK
      <3> QED BY <3>2, <3>3, <3>4, <3>5
    <2> QED BY <2>1, <2>2
  <1> QED BY <1>2, <1>3 DEF OwnerInv

(***************************************************************************)
(* One request at a time                                                   *)
(***************************************************************************)
Active(q) == q.pc \notin {"idle", "done"}

\* An owner has one request under way, and its book is there.
OneAtATime ==
    \A r, s \in Requests : Active(req[r]) /\ Active(req[s]) /\ req[r].owner = req[s].owner => r = s

Held(q) ==
    q.pc \in {"read", "merge", "check", "insert", "wipe", "drop"} =>
      \E b \in addressbooks : b.id = q.book /\ b.owner = q.owner

Wiped(q) == q.pc = "drop" => \A c \in contacts : c.addressbook_id # q.book

SerialInv ==
    world.serial =>
      /\ OneAtATime
      /\ \A r \in Requests : Held(req[r]) /\ Wiped(req[r])
      /\ \A c \in contacts : \E b \in addressbooks : b.id = c.addressbook_id

LEMMA OneAtATimeStep ==
    ASSUME Typed, world.serial, OneAtATime, NEW r \in Requests, Begin(r) \/ Step(r)
    PROVE  OneAtATime'
  <1>1. CASE Begin(r)
    <2>1. Begins(r)
      BY <1>1, BeginMoves
    <2>2. \A s \in Requests \ {r} : req'[s] = req[s] /\ (req[s].owner = req'[r].owner => ~ Active(req[s]))
      BY <2>1 DEF Begins, Becomes, MayBegin, At, Active
    <2> QED BY <2>2 DEF OneAtATime, Active
  <1>2. CASE Step(r)
    <2>1. Steady(r) /\ Active(req[r])
      BY <1>2, StepEffect DEF Active
    <2>2. \A s \in Requests : req'[s].owner = req[s].owner /\ (Active(req'[s]) => Active(req[s]))
      BY <2>1 DEF Steady, Becomes
    <2> QED BY <2>2 DEF OneAtATime, Active
  <1> QED BY <1>1, <1>2

\* Two requests that are under way hold different books.
LEMMA HeldApart ==
    ASSUME OneRowPerId, OneAtATime, NEW r \in Requests, NEW s \in Requests, r # s,
           Held(req[r]), req[r].pc \in {"read", "merge", "check", "insert", "wipe", "drop"}, Active(req[s]),
           NEW b \in addressbooks, b.owner = req[s].owner
    PROVE  b.id # req[r].book
  BY DEF OneRowPerId, OneAtATime, Held, Active

LEMMA SerialStep ==
    ASSUME Typed, FreshIds, OneRowPerId, SerialInv, world' = world, NEW r \in Requests, Begin(r) \/ Step(r)
    PROVE  SerialInv'
  <1> SUFFICES ASSUME world.serial
               PROVE  /\ OneAtATime'
                      /\ \A s \in Requests : Held(req[s])' /\ Wiped(req[s])'
                      /\ \A c \in contacts' : \E b \in addressbooks' : b.id = c.addressbook_id
    BY DEF SerialInv
  <1>0. /\ OneAtATime /\ \A s \in Requests : Held(req[s]) /\ Wiped(req[s])
        /\ \A c \in contacts : \E b \in addressbooks : b.id = c.addressbook_id
    BY DEF SerialInv
  <1>1. \A s \in Requests \ {r} : req'[s] = req[s]
    BY BeginMoves, StepEffect DEF Begins, Steady, Becomes
  <1>2. ASSUME NEW s \in Requests, s # r PROVE Held(req[s])' /\ Wiped(req[s])'
    <2>1. req'[s] = req[s] /\ Held(req[s]) /\ Wiped(req[s])
      BY <1>0, <1>1, <1>2
    <2>2. Held(req[s])'
      <3>1. CASE ~ Drops(r)
        BY <2>1, <3>1, RowsAfter DEF Held
      <3>2. CASE Drops(r)
        <4>1. SUFFICES ASSUME req[s].pc \in {"read", "merge", "check", "insert", "wipe", "drop"}
                       PROVE  \E b \in addressbooks' : b.id = req[s].book /\ b.owner = req[s].owner
          BY <2>1 DEF Held
        <4>2. PICK b \in addressbooks : b.id = req[s].book /\ b.owner = req[s].owner
          BY <2>1, <4>1 DEF Held
        <4>3. b.id # req[r].book
          BY <1>0, <1>2, <3>2, <4>1, <4>2, HeldApart DEF Drops, Active
        <4> QED BY <3>2, <4>2, <4>3 DEF Drops
      <3> QED BY <3>1, <3>2
    <2>3. Wiped(req[s])'
      <3>1. SUFFICES ASSUME req[s].pc = "drop", NEW c \in contacts' PROVE c.addressbook_id # req[s].book
        BY <2>1 DEF Wiped
      <3>2. CASE \E d \in contacts : d.addressbook_id = c.addressbook_id
        BY <2>1, <3>1, <3>2 DEF Wiped
      <3>3. CASE Inserts(r) /\ c = NewContact(r)
        <4>1. PICK b \in addressbooks : b.id = req[s].book /\ b.owner = req[s].owner
          BY <2>1, <3>1 DEF Held
        <4>2. b.id # req[r].book
          BY <1>0, <1>2, <3>1, <3>3, <4>1, HeldApart DEF Inserts, Active
        <4> QED BY <3>3, <4>1, <4>2 DEF NewContact
      <3> QED BY <3>1, <3>2, <3>3, RowsAfter
    <2> QED BY <2>2, <2>3
  <1>3. Held(req[r])' /\ Wiped(req[r])'
    <2>1. CASE Begin(r)
      BY <2>1, BeginMoves DEF Begins, Held, Wiped
    <2>2. CASE Step(r)
      <3>0. Steady(r) /\ Effect(r) /\ Held(req[r])
        BY <1>0, <2>2, StepEffect
      <3>1. req'[r].owner = req[r].owner
        BY <3>0 DEF Steady
      <3>2. CASE Stop(r) \/ Reply(r) \/ Drops(r) \/ Acts(r)
        BY <3>2 DEF Stop, Reply, Drops, Acts, Ends, Held, Wiped
      <3>3. CASE Take(r) \/ Find(r)
        BY <3>1, <3>3 DEF Take, Find, Quiet, BooksOf, Held, Wiped
      <3>4. CASE Draw(r) \/ Go(r) \/ Skip(r)
        BY <3>0, <3>1, <3>4 DEF Draw, Go, Skip, Quiet, Same, Held, Wiped
      <3>5. CASE Creates(r)
        <4> DEFINE row == [id |-> req[r].new, owner |-> req[r].owner]
        <4>1. row \in addressbooks' /\ row.id = req[r].new /\ row.owner = req[r].owner
          BY <3>5 DEF Creates
        <4>2. req'[r].pc # "drop" /\ (req'[r].pc = "done" \/ req'[r].book = req[r].new)
          BY <3>5 DEF Creates, Ends
        <4> HIDE DEF row
        <4> QED BY <3>1, <4>1, <4>2 DEF Held, Wiped
      <3>6. CASE Inserts(r)
        BY <3>0, <3>1, <3>6 DEF Inserts, Ends, Held, Wiped
      <3>7. CASE Wipes(r)
        BY <3>0, <3>1, <3>7 DEF Wipes, Same, ContactsOf, Held, Wiped
      <3> QED BY <3>0, <3>2, <3>3, <3>4, <3>5, <3>6, <3>7 DEF Effect
    <2> QED BY <2>1, <2>2
  <1>4. ASSUME NEW c \in contacts' PROVE \E b \in addressbooks' : b.id = c.addressbook_id
    <2>1. CASE Drops(r)
      <3>1. c \in contacts /\ c.addressbook_id # req[r].book
        BY <1>0, <1>4, <2>1 DEF Drops, Wiped
      <3> QED BY <1>0, <2>1, <3>1 DEF Drops
    <2>2. CASE ~ Drops(r)
      <3>1. addressbooks \subseteq addressbooks'
        BY <2>2, RowsAfter
      <3>2. \E b \in addressbooks : b.id = c.addressbook_id
        <4>1. CASE \E d \in contacts : d.addressbook_id = c.addressbook_id
          BY <1>0, <4>1
        <4>2. CASE Inserts(r) /\ c = NewContact(r)
          BY <1>0, <4>2 DEF Inserts, NewContact, Held
        <4> QED BY <1>4, <4>1, <4>2, RowsAfter
      <3> QED BY <3>1, <3>2
    <2> QED BY <2>1, <2>2
  <1> QED BY <1>0, <1>2, <1>3, <1>4, OneAtATimeStep

(***************************************************************************)
(* One request at a time, and no query fails                               *)
(***************************************************************************)
\* A book is created for an owner who has none.
CreateOK(q) ==
    /\ q.pc \notin {"refetch", "wait"}
    /\ q.pc = "create" => \A b \in addressbooks : b.owner # q.owner

\* A list that has read the book has every matrix id of the owner's contacts.
ReadOK(q) ==
    q.pc = "merge" =>
      \A b \in addressbooks : \A c \in contacts :
        b.owner = q.owner /\ c.addressbook_id = b.id => \E d \in q.result : d.mxid = c.mxid

CalmInv ==
    Calm =>
      /\ OneBookPerOwner
      /\ \A r \in Requests : CreateOK(req[r]) /\ ReadOK(req[r])

\* A set of ids has a smallest one.
LEMMA SmallestId ==
    ASSUME NEW T, T \subseteq Nat, T # {}
    PROVE  \E x \in T : \A y \in T : x <= y
  <1> DEFINE R == OpToRel(<, Nat)
  <1>1. \E x \in T : \A y \in T : ~ (<<y, x>> \in R)
    <2>1. IsWellFoundedOn(R, Nat)
      BY NatLessThanWellFounded
    <2> HIDE DEF R
    <2> QED BY <2>1, WFMin
  <1>2. \A x, y \in Nat : y < x => <<y, x>> \in R
    BY DEF OpToRel
  <1> HIDE DEF R
  <1>3. PICK x \in T : \A y \in T : ~ (<<y, x>> \in R)
    BY <1>1
  <1>4. \A y \in T : ~ (y < x) /\ y \in Nat /\ x \in Nat
    BY <1>2, <1>3
  <1>5. \A y \in T : x <= y
    BY <1>4
  <1> QED BY <1>3, <1>5

\* Of each matrix id one contact is left.
LEMMA DeduplicateKeeps ==
    ASSUME NEW cs, cs \subseteq Contact, NEW c \in cs
    PROVE  \E d \in DeduplicateByMxid(cs) : d.mxid = c.mxid
  <1> DEFINE T == {n \in Nat : \E d \in cs : d.mxid = c.mxid /\ d.id = n}
  <1>1. \A d \in cs : d.id \in Nat
    BY DEF Contact, Id
  <1>2. T \subseteq Nat /\ c.id \in T
    BY <1>1
  <1>3. PICK x \in T : \A y \in T : x <= y
    <2> HIDE DEF T
    <2> QED BY <1>2, SmallestId
  <1>4. PICK d \in cs : d.mxid = c.mxid /\ d.id = x
    BY <1>3
  <1>5. \A e \in cs : e.mxid = d.mxid => d.id <= e.id
    BY <1>1, <1>3, <1>4
  <1>6. d \in DeduplicateByMxid(cs)
    BY <1>5 DEF DeduplicateByMxid
  <1> QED BY <1>4, <1>6

LEMMA CalmStep ==
    ASSUME Typed, FreshIds, OneRowPerId, SerialInv, CalmInv, world' = world,
           NEW r \in Requests, Begin(r) \/ Step(r)
    PROVE  CalmInv'
  <1> SUFFICES ASSUME Calm
               PROVE  /\ OneBookPerOwner'
                      /\ \A s \in Requests : CreateOK(req[s])' /\ ReadOK(req[s])'
    BY DEF CalmInv, Calm
  <1>0. /\ OneBookPerOwner /\ \A s \in Requests : CreateOK(req[s]) /\ ReadOK(req[s])
        /\ OneAtATime /\ \A s \in Requests : Held(req[s])
        /\ world.faults = 0
    BY DEF CalmInv, SerialInv, Calm
  <1>1. \A s \in Requests \ {r} : req'[s] = req[s]
    BY BeginMoves, StepEffect DEF Begins, Steady, Becomes
  <1>2. OneBookPerOwner'
    <2>1. CASE Creates(r)
      <3>1. \A b \in addressbooks : b.owner # req[r].owner
        BY <1>0, <2>1 DEF Creates, CreateOK
      <3> QED BY <1>0, <2>1, <3>1 DEF Creates, OneBookPerOwner
    <2>2. CASE ~ Creates(r)
      BY <1>0, <2>2, RowsAfter DEF OneBookPerOwner
    <2> QED BY <2>1, <2>2
  <1>3. ASSUME NEW s \in Requests, s # r PROVE CreateOK(req[s])' /\ ReadOK(req[s])'
    <2>1. req'[s] = req[s] /\ CreateOK(req[s]) /\ ReadOK(req[s])
      BY <1>0, <1>1, <1>3
    <2>2. ASSUME Active(req[s]), NEW b \in addressbooks', b.owner = req[s].owner PROVE b \in addressbooks
      <3>1. SUFFICES ASSUME Creates(r), b = [id |-> req[r].new, owner |-> req[r].owner] PROVE FALSE
        BY <2>2, RowsAfter
      <3>2. req[r].owner = req[s].owner /\ Active(req[r])
        BY <2>2, <3>1 DEF Creates, Active
      <3> QED BY <1>0, <1>3, <2>2, <3>2 DEF OneAtATime
    <2>3. CreateOK(req[s])'
      BY <2>1, <2>2 DEF CreateOK, Active
    <2>4. ReadOK(req[s])'
      <3>1. SUFFICES ASSUME req[s].pc = "merge", NEW b \in addressbooks', NEW c \in contacts',
                            b.owner = req[s].owner, c.addressbook_id = b.id
                     PROVE  \E d \in req[s].result : d.mxid = c.mxid
        BY <2>1 DEF ReadOK
      <3>2. Active(req[s]) /\ b \in addressbooks
        BY <2>2, <3>1 DEF Active
      <3>3. CASE Inserts(r) /\ c = NewContact(r)
        <4>1. b.id # req[r].book
          BY <1>0, <1>3, <3>1, <3>2, <3>3, HeldApart DEF Inserts
        <4> QED BY <3>1, <3>3, <4>1 DEF NewContact
      <3>4. CASE \E e \in contacts : e.addressbook_id = c.addressbook_id /\ e.mxid = c.mxid
        BY <2>1, <3>1, <3>2, <3>4 DEF ReadOK
      <3> QED BY <3>1, <3>3, <3>4, RowsAfter
    <2> QED BY <2>3, <2>4
  <1>4. CreateOK(req[r])' /\ ReadOK(req[r])'
    <2>1. CASE Begin(r)
      BY <2>1, BeginMoves DEF Begins, CreateOK, ReadOK
    <2>2. CASE Step(r)
      <3>0. Steady(r) /\ Effect(r) /\ CreateOK(req[r]) /\ Held(req[r])
        BY <1>0, <2>2, StepEffect
      <3>1. req'[r].owner = req[r].owner
        BY <3>0 DEF Steady
      <3>2. CASE Draw(r)
        BY <1>0, <3>0, <3>1, <3>2 DEF Draw, CreateOK, ReadOK, BooksOf
      <3>3. CASE Go(r)
        <4>1. UNCHANGED <<addressbooks, contacts>>
          BY <3>3 DEF Go, Quiet
        <4>2. CASE req[r].pc = "create"
          BY <3>0, <3>3, <4>2 DEF Go, CreateOK, BooksOf
        <4>3. CASE req[r].pc = "refetch"
          BY <3>0, <4>3 DEF CreateOK
        <4>4. CASE req[r].pc = "owner"
          BY <3>3, <4>4 DEF Go, CreateOK, ReadOK
        <4>5. CASE req[r].pc = "read"
          <5>1. req'[r].pc = "merge" /\ req'[r].result = DeduplicateByMxid(ContactsOf(req[r].book))
            BY <1>0, <3>3, <4>5 DEF Go
          <5>2. ASSUME NEW b \in addressbooks, NEW c \in contacts, b.owner = req[r].owner, c.addressbook_id = b.id
                PROVE  \E d \in req'[r].result : d.mxid = c.mxid
            <6>1. b.id = req[r].book
              BY <1>0, <3>0, <4>5, <5>2 DEF Held, OneBookPerOwner
            <6>2. c \in ContactsOf(req[r].book) /\ ContactsOf(req[r].book) \subseteq Contact
              BY <5>2, <6>1 DEF ContactsOf, Typed, TypeOK
            <6>3. PICK cs : cs = ContactsOf(req[r].book)
              OBVIOUS
            <6> QED BY <5>1, <6>2, <6>3, DeduplicateKeeps
          <5> QED BY <3>1, <4>1, <5>1, <5>2 DEF CreateOK, ReadOK
        <4> QED BY <3>3, <4>2, <4>3, <4>4, <4>5 DEF Go
      <3>4. CASE ~ (Draw(r) \/ Go(r))
        <4>1. req'[r].pc \notin {"create", "refetch", "wait", "merge"}
          BY <3>0, <3>4 DEF Effect, Stop, Take, Skip, Find, Reply, Creates, Inserts, Wipes, Drops, Acts, Ends
        <4> QED BY <4>1 DEF CreateOK, ReadOK
      <3> QED BY <3>2, <3>3, <3>4
    <2> QED BY <2>1, <2>2
  <1> QED BY <1>2, <1>3, <1>4

(***************************************************************************)
(* Theorems                                                                *)
(***************************************************************************)
UniqueInv == world.unique => OneBookPerOwner

BookInv ==
    /\ Typed /\ FreshIds /\ OneRowPerId
    /\ OwnerInv /\ SerialInv /\ CalmInv /\ UniqueInv

LEMMA BookInit == Init => BookInv
  <1> SUFFICES ASSUME Init PROVE BookInv
    OBVIOUS
  <1> USE DEF Init
  <1>1. NoRequest \in Request
    BY DEF NoRequest, Request, Places, Attempts, maxRetries, Answers, Bodies
  <1>2. /\ NoRequest.pc = "idle" /\ NoRequest.owner = None /\ NoRequest.op = None /\ NoRequest.todo = <<>>
        /\ NoRequest.result = {} /\ NoRequest.new = None /\ NoRequest.book = None /\ NoRequest.target = None
    BY DEF NoRequest
  <1>3. Local(NoRequest)
    BY <1>2, AddressbookAssumption DEF Local, ValidCreation
  <1>4. Typed
    BY <1>1, <1>3, AddressbookAssumption DEF Typed, TypeOK, Id
  <1>5. FreshIds
    BY <1>2, AddressbookAssumption DEF FreshIds, InUse, Id
  <1>6. OneRowPerId /\ OwnerInv /\ SerialInv /\ CalmInv /\ UniqueInv
    BY <1>2 DEF OneRowPerId, OwnerInv, OwnerOK, SerialInv, OneAtATime, Held, Wiped, Active, CalmInv, CreateOK, ReadOK,
                OneBookPerOwner, UniqueInv
  <1> QED BY <1>4, <1>5, <1>6 DEF BookInv

LEMMA UniqueStep ==
    ASSUME Typed, UniqueInv, world' = world, NEW r \in Requests, Begin(r) \/ Step(r)
    PROVE  UniqueInv'
  <1>1. CASE Creates(r)
    BY <1>1 DEF Creates, UniqueInv, OneBookPerOwner, BooksOf
  <1>2. CASE ~ Creates(r)
    BY <1>2, RowsAfter DEF UniqueInv, OneBookPerOwner
  <1> QED BY <1>1, <1>2

LEMMA BookStep == BookInv /\ [Next]_vars => BookInv'
  <1> SUFFICES ASSUME BookInv, [Next]_vars PROVE BookInv'
    OBVIOUS
  <1> USE DEF BookInv
  <1>1. Typed'
    BY TypedStep
  <1>2. CASE UNCHANGED vars
    <2>1. FreshIds' /\ OneRowPerId' /\ OwnerInv'
      BY <1>2 DEF vars, FreshIds, InUse, OneRowPerId, OwnerInv, OwnerOK
    <2>2. SerialInv'
      BY <1>2 DEF vars, SerialInv, OneAtATime, Held, Wiped, Active
    <2>3. CalmInv' /\ UniqueInv'
      BY <1>2 DEF vars, CalmInv, Calm, CreateOK, ReadOK, OneBookPerOwner, UniqueInv
    <2> QED BY <1>1, <2>1, <2>2, <2>3
  <1>3. ASSUME world' = world, NEW r \in Requests, Begin(r) \/ Step(r) PROVE BookInv'
    BY <1>1, <1>3, FreshIdsStep, OneRowStep, OwnerInvStep, SerialStep, CalmStep, UniqueStep
  <1> QED BY <1>2, <1>3, NextCases

LEMMA BookInvariant == Spec => []BookInv
  BY BookInit, BookStep, PTL DEF Spec

\* OneBookWhenGuarded: with a UNIQUE constraint on the owner, under any failures and for any
\* number of requests, or with one request at a time and no failing query, the retries of
\* _getOrCreateUserAddressBook leave a user with one address book.
THEOREM OneBook == Spec => []OneBookWhenGuarded
  <1>1. BookInv => OneBookWhenGuarded
    BY DEF BookInv, CalmInv, UniqueInv, OneBookWhenGuarded
  <1> QED BY <1>1, BookInvariant, PTL

\* BooksConsistent: the tables and the requests are well-formed whatever fails, no request
\* makes more than maxRetries attempts, and delete leaves no contact without a book to users
\* who make one request at a time.
THEOREM BooksStayConsistent == Spec => []BooksConsistent
  <1>1. BookInv => BooksConsistent
    BY DEF BookInv, Typed, SerialInv, BooksConsistent, NoOrphans
  <1> QED BY <1>1, BookInvariant, PTL

\* OwnerOnly: a contact is changed or removed only by a step of a request of the user whose
\* address book holds it; what checkContactOwnership found is still so at the query it guards,
\* whatever other requests did in between.
THEOREM OnlyTheOwner == Spec => OwnerOnly
  <1> DEFINE Fine == \A c \in contacts \ contacts' : \A b \in addressbooks :
                       b.id = c.addressbook_id =>
                         \E r \in Requests : req[r].owner = b.owner /\ req'[r] # req[r]
  <1>1. BookInv /\ [Next]_vars => [Fine]_vars
    <2> SUFFICES ASSUME BookInv, NEW r \in Requests, Begin(r) \/ Step(r) PROVE Fine
      BY NextCases DEF vars
    <2>1. CASE contacts \subseteq contacts'
      BY <2>1
    <2>2. ASSUME Wipes(r) \/ Acts(r), NEW c \in contacts \ contacts', NEW b \in addressbooks, b.id = c.addressbook_id
          PROVE  req[r].owner = b.owner /\ req'[r] # req[r]
      <3>1. OwnerOK(req[r])
        BY DEF BookInv, OwnerInv
      <3>2. CASE Wipes(r)
        BY <2>2, <3>1, <3>2 DEF Wipes, OwnerOK, ContactsOf
      <3>3. CASE Acts(r)
        <4>1. c.id = req[r].target
          BY <2>2, <3>3 DEF Acts, Target
        <4> QED BY <2>2, <3>1, <3>3, <4>1 DEF Acts, OwnerOK, Ends
      <3> QED BY <2>2, <3>2, <3>3
    <2> QED BY <2>1, <2>2, BeginMoves, StepEffect
            DEF BookInv, Begins, Effect, Stop, Take, Draw, Go, Skip, Find, Reply, Quiet, Creates, Inserts, Drops
  <1> QED BY <1>1, BookInvariant, PTL DEF Spec, OwnerOnly

\* ListComplete: to a user who makes one request at a time, and sees no query fail, list shows
\* every matrix id that a contact of the user carries, whatever other users do meanwhile and
\* although duplicates are removed.
THEOREM ListShowsAll == Spec => ListComplete
  <1> DEFINE Fine == \A r \in Requests :
                       Calm /\ req[r].op = "list" /\ ~At(r, "done") /\ At(r, "done")' =>
                         \A b \in BooksOf(req[r].owner) : \A c \in ContactsOf(b.id) :
                           \E d \in req'[r].result : d.mxid = c.mxid
  <1>1. BookInv /\ [Next]_vars => [Fine]_vars
    <2> SUFFICES ASSUME BookInv, NEW s \in Requests, Begin(s) \/ Step(s), NEW r \in Requests,
                        Calm, req[r].op = "list", ~At(r, "done"), At(r, "done")'
                 PROVE  \A b \in BooksOf(req[r].owner) : \A c \in ContactsOf(b.id) :
                          \E d \in req'[r].result : d.mxid = c.mxid
      BY NextCases DEF vars
    <2>0. req[r].pc # "done" /\ req'[r].pc = "done" /\ Typed
      BY DEF At, BookInv
    <2>1. r = s
      BY <2>0, BeginMoves, StepEffect DEF Begins, Steady, Becomes
    <2>2. Step(r) /\ Local(req[r])
      <3>1. Local(req[r])
        BY <2>0 DEF Typed
      <3>2. req[r].pc # "idle"
        BY <3>1, AddressbookAssumption DEF Local
      <3> QED BY <2>0, <2>1, <3>1, <3>2, BeginMoves DEF Begins
    <2>3. Reply(r)
      <3>1. Effect(r) /\ world.faults = 0 /\ req[r].pc # "refetch"
        BY <2>0, <2>2, StepEffect DEF BookInv, CalmInv, CreateOK, Calm
      <3>2. req[r].pc \in PcOf("list")
        BY <2>0, <2>2, AddressbookAssumption DEF Local
      <3>3. req[r].pc \notin {"insert", "drop"}
        BY <3>2 DEF PcOf
      <3> QED BY <2>0, <3>1, <3>3 DEF Effect, Stop, Take, Draw, Go, Skip, Find, Creates, Inserts, Wipes, Drops, Acts
    <2>4. ReadOK(req[r])
      BY DEF BookInv, CalmInv
    <2> QED BY <2>3, <2>4 DEF Reply, ReadOK, BooksOf, ContactsOf
  <1> QED BY <1>1, BookInvariant, PTL DEF Spec, ListComplete

=============================================================================

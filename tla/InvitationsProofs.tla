------------------------- MODULE InvitationsProofs -------------------------
(***************************************************************************)
(* Proofs about Invitations, for any number of requests, users, contacts   *)
(* and instants, and any failures the scenario allows.                     *)
(*                                                                         *)
(* AcceptedHasRoom is not inductive: it needs that a job that is about to  *)
(* update a row has created its room, and that the row it updates has the  *)
(* sender the job read, which in turn needs that a row is inserted only    *)
(* once (a request that inserted its row never returns to the insert).     *)
(*                                                                         *)
(* The other invariants need to know which requests are in progress        *)
(* together.  Each step is first reduced to its effect on what they tell   *)
(* apart (Begins, Effect, JobEffect); lemma Steps says that there are no   *)
(* other steps, and each invariant is then preserved by every effect.      *)
(***************************************************************************)
EXTENDS Invitations, TLAPS

\* What the local variables of a handler hold where they are used.
LocalOK(q) ==
    /\ q.pc = "insert" => /\ q.user \in Users
                          /\ q.contact \in Contacts \cup {NoContact}
                          /\ q.expiration \in Nat
    /\ q.pc \in {"accept", "act"} => q.id \in Requests
    /\ q.pc \in {"accept", "gather"} => q.user \in Users

LocalsOK == \A r \in Requests : LocalOK(req[r])

\* The request is past the insert of an invitation of its own.
Created(q) == q.pc \notin {"idle", "insert"}

RowsOK == \A id \in Requests : Exists(id) => Created(req[id])

JobOK(j) ==
    /\ Created(req[j.id])
    /\ j.stage \in {"direct", "update"} => RoomOf(j) \in rooms
    /\ Exists(j.id) => invitations[j.id].sender = j.sender

JobsOK == \A j \in jobs : JobOK(j)

IInv == TypeOK /\ LocalsOK /\ RowsOK /\ JobsOK /\ AcceptedHasRoom

-----------------------------------------------------------------------------
\* The number of failures stays a number.
LEMMA FaultsTyped ==
    ASSUME TypeOK, Fault \/ NoFault
    PROVE  faults' \in Nat
  BY DEF TypeOK, Fault, NoFault

\* The codes the handlers answer with.
LEMMA Codes == 200 \in Status /\ 400 \in Status /\ 403 \in Status /\ 404 \in Status /\ 500 \in Status
  BY DEF Status

\* An answered request is a request, and needs no locals any more.
LEMMA AnsweredOK ==
    ASSUME NEW q \in Request, NEW s \in Status
    PROVE  /\ Answered(q, s) \in Request
           /\ LocalOK(Answered(q, s)) /\ Created(Answered(q, s))
  <1>1. Answered(q, s) \in Request /\ Answered(q, s).pc = "done"
    BY DEF Answered, Request
  <1> QED BY <1>1 DEF LocalOK, Created

\* One request moves on: the requests keep their type and their locals, and
\* those past the insert stay so.
LEMMA RequestMoves ==
    ASSUME TypeOK, LocalsOK, NEW r \in Requests, NEW q \in Request,
           req' = [req EXCEPT ![r] = q], LocalOK(q), Created(req[r]) => Created(q)
    PROVE  /\ req' \in [Requests -> Request]
           /\ LocalsOK'
           /\ \A id \in Requests : Created(req[id]) => Created(req'[id])
  <1>1. req \in [Requests -> Request]
    BY DEF TypeOK
  <1>2. \A id \in Requests : req'[id] = IF id = r THEN q ELSE req[id]
    BY <1>1
  <1>3. LocalsOK'
    BY <1>2 DEF LocalsOK, LocalOK
  <1> QED BY <1>1, <1>2, <1>3 DEF Created

\* A step that only moves one request keeps the invariant.
LEMMA OnlyRequest ==
    ASSUME IInv, NEW r \in Requests, NEW q \in Request,
           req' = [req EXCEPT ![r] = q], LocalOK(q), Created(req[r]) => Created(q),
           UNCHANGED <<invitations, rooms, direct, jobs, now, scenario>>,
           mailed' \in {mailed, mailed \cup {r}}, Fault \/ NoFault
    PROVE  IInv'
  <1>1. /\ req' \in [Requests -> Request] /\ LocalsOK'
        /\ \A id \in Requests : Created(req[id]) => Created(req'[id])
    BY RequestMoves DEF IInv
  <1>2. faults' \in Nat
    BY FaultsTyped DEF IInv
  <1>3. TypeOK'
    BY <1>1, <1>2 DEF IInv, TypeOK
  <1>4. RowsOK'
    BY <1>1 DEF IInv, RowsOK, Exists
  <1>5. JobsOK'
    <2> SUFFICES ASSUME NEW j \in jobs PROVE JobOK(j)'
      BY DEF JobsOK
    <2>1. JobOK(j) /\ j.id \in Requests
      BY DEF IInv, JobsOK, TypeOK, Job
    <2> QED BY <1>1, <2>1 DEF JobOK, Exists
  <1>6. AcceptedHasRoom'
    BY DEF IInv, AcceptedHasRoom, Rows, Exists
  <1> QED BY <1>1, <1>3, <1>4, <1>5, <1>6 DEF IInv

\* A request that is answered, or goes where it needs no locals.
LEMMA RequestGoes ==
    ASSUME IInv, NEW r \in Requests,
           \/ \E s \in Status : Answer(r, s)
           \/ \E pc \in {"undo", "await"} : Goto(r, pc),
           UNCHANGED <<invitations, rooms, direct, jobs, now, scenario>>,
           mailed' \in {mailed, mailed \cup {r}}, Fault \/ NoFault
    PROVE  IInv'
  <1>0. req[r] \in Request
    BY DEF IInv, TypeOK
  <1>1. ASSUME NEW s \in Status, Answer(r, s) PROVE IInv'
    <2>1. req' = [req EXCEPT ![r] = Answered(req[r], s)]
      BY <1>1 DEF Answer
    <2> QED BY <1>0, <2>1, AnsweredOK, OnlyRequest
  <1>2. ASSUME NEW pc \in {"undo", "await"}, Goto(r, pc) PROVE IInv'
    <2> DEFINE q == [req[r] EXCEPT !.pc = pc]
    <2>1. q \in Request /\ q.pc = pc /\ req' = [req EXCEPT ![r] = q]
      BY <1>0, <1>2 DEF Goto, Request, IInv, TypeOK
    <2>2. LocalOK(q) /\ Created(q)
      BY <2>1 DEF LocalOK, Created
    <2> QED BY <2>1, <2>2, OnlyRequest
  <1> QED BY <1>1, <1>2

-----------------------------------------------------------------------------
\* The first step of a request keeps the invariant.
LEMMA BeginInv ==
    ASSUME IInv, NEW r \in Requests, Begin(r), UNCHANGED scenario
    PROVE  IInv'
  <1>0. PICK a \in scenario.menu :
            \/ Refuse(r, a)
            \/ RateLimitInvitations(r, a) \/ GenerateLink(r, a) \/ ListInvitations(r, a)
            \/ \E id \in Tokens(r) : CheckInvitation(r, a, id) \/ CheckInvitationOwnership(r, a, id)
    BY DEF Begin
  <1>1. a \in Ask
    BY DEF IInv, TypeOK, Scenario
  <1>3. ASSUME NEW id \in Requests \cup {None}, NEW s \in Status,
               req' = [req EXCEPT ![r] = Replied(a, id, s)],
               UNCHANGED <<invitations, mailed, rooms, direct, jobs, now, scenario>>,
               Fault \/ NoFault
        PROVE  IInv'
    <2>1. Begun(a, id, "done") \in Request
      BY <1>1 DEF Begun, Request, Ask
    <2> QED BY <1>3, <2>1, AnsweredOK, OnlyRequest DEF Replied
  <1>4. ASSUME NEW id \in Requests, NEW pc \in {"accept", "act"},
               req' = [req EXCEPT ![r] = Begun(a, id, pc)],
               UNCHANGED <<invitations, mailed, rooms, direct, jobs, now, scenario>>,
               Fault \/ NoFault
        PROVE  IInv'
    <2>1. /\ Begun(a, id, pc) \in Request
          /\ Begun(a, id, pc).pc = pc /\ Begun(a, id, pc).id = id
          /\ Begun(a, id, pc).user \in Users
      BY <1>1 DEF Begun, Request, Ask
    <2>2. LocalOK(Begun(a, id, pc)) /\ Created(Begun(a, id, pc))
      BY <2>1 DEF LocalOK, Created
    <2> QED BY <1>4, <2>1, <2>2, OnlyRequest
  <1>5. ASSUME GoCreate(r, a), MayBegin(r), ~Refused(a), a.kind \in {"invite", "link"},
               UNCHANGED <<invitations, mailed, rooms, direct, jobs, now, scenario>>,
               Fault \/ NoFault
        PROVE  IInv'
    <2> DEFINE q == [Begun(a, None, "insert") EXCEPT !.expiration = now + EXPIRATION]
    <2>1. now + EXPIRATION \in Nat
      BY DEF IInv, TypeOK, EXPIRATION
    <2>2. a.contact \in Contacts \cup {NoContact}
      BY <1>1, <1>5 DEF Refused, Ask
    <2>3. /\ q \in Request /\ q.pc = "insert" /\ q.user \in Users
          /\ q.contact = a.contact /\ q.expiration = now + EXPIRATION
      BY <1>1, <2>1 DEF Begun, Request, Ask
    <2>4. LocalOK(q)
      BY <2>1, <2>2, <2>3 DEF LocalOK
    <2>5. ~Created(req[r])
      BY <1>5 DEF MayBegin, At, Created
    <2>6. req' = [req EXCEPT ![r] = q]
      BY <1>5 DEF GoCreate
    <2> QED BY <1>5, <2>3, <2>4, <2>5, <2>6, OnlyRequest
  <1>6. CASE Refuse(r, a)
    BY <1>3, <1>6, Codes DEF Refuse, NoFault
  <1>7. CASE RateLimitInvitations(r, a)
    <2>0. /\ MayBegin(r) /\ ~Refused(a) /\ a.kind = "invite" /\ (Fault \/ NoFault)
          /\ UNCHANGED <<invitations, mailed, rooms, direct, jobs, now, scenario>>
      BY <1>7 DEF RateLimitInvitations
    <2>1. CASE GoCreate(r, a)
      BY <1>5, <2>0, <2>1
    <2>2. CASE req' = [req EXCEPT ![r] = Replied(a, None, 400)]
      BY <1>3, <2>0, <2>2, Codes
    <2> QED BY <1>7, <2>1, <2>2 DEF RateLimitInvitations
  <1>8. CASE GenerateLink(r, a)
    <2>0. /\ MayBegin(r) /\ ~Refused(a) /\ a.kind = "link" /\ (Fault \/ NoFault)
          /\ UNCHANGED <<invitations, mailed, rooms, direct, jobs, now, scenario>>
      BY <1>8 DEF GenerateLink
    <2>1. CASE GoCreate(r, a)
      BY <1>5, <2>0, <2>1
    <2>2. ASSUME NEW id \in Newest(Valid(a.user, a.contact)),
                 req' = [req EXCEPT ![r] = Replied(a, id, 200)]
          PROVE  IInv'
      <3>1. id \in Requests
        BY DEF Newest, Valid, RowsTo, Rows
      <3> QED BY <1>3, <2>0, <2>2, <3>1, Codes
    <2> QED BY <1>8, <2>1, <2>2 DEF GenerateLink
  <1>9. CASE ListInvitations(r, a)
    BY <1>3, <1>9, Codes DEF ListInvitations
  <1>10. ASSUME NEW id \in Tokens(r), CheckInvitation(r, a, id) PROVE IInv'
    <2>1. id \in Requests
      BY DEF Tokens
    <2> QED BY <1>3, <1>4, <1>10, <2>1, Codes DEF CheckInvitation
  <1>11. ASSUME NEW id \in Tokens(r), CheckInvitationOwnership(r, a, id) PROVE IInv'
    <2>1. id \in Requests
      BY DEF Tokens
    <2> QED BY <1>3, <1>4, <1>11, <2>1, Codes DEF CheckInvitationOwnership
  <1> QED BY <1>0, <1>6, <1>7, <1>8, <1>9, <1>10, <1>11

-----------------------------------------------------------------------------
\* Withdrawing or removing a row keeps the invariant.
LEMMA RowGone ==
    ASSUME IInv, NEW r \in Requests, NEW id \in Requests, NEW s \in Status, Answer(r, s),
           invitations' = [invitations EXCEPT ![id] = None],
           UNCHANGED <<mailed, rooms, direct, jobs, now, faults, scenario>>
    PROVE  IInv'
  <1>1. /\ req' \in [Requests -> Request] /\ LocalsOK'
        /\ \A i \in Requests : Created(req[i]) => Created(req'[i])
    <2>1. req[r] \in Request
      BY DEF IInv, TypeOK
    <2> QED BY <2>1, AnsweredOK, RequestMoves DEF IInv, Answer
  <1>2. /\ invitations' \in [Requests -> Row \cup {None}]
        /\ \A i \in Requests : Exists(i)' => Exists(i) /\ invitations'[i] = invitations[i]
    BY DEF IInv, TypeOK, Exists
  <1>3. TypeOK'
    BY <1>1, <1>2 DEF IInv, TypeOK
  <1>4. RowsOK'
    BY <1>1, <1>2 DEF IInv, RowsOK
  <1>5. JobsOK'
    <2> SUFFICES ASSUME NEW j \in jobs PROVE JobOK(j)'
      BY DEF JobsOK
    <2>1. JobOK(j) /\ j.id \in Requests
      BY DEF IInv, JobsOK, TypeOK, Job
    <2> QED BY <1>1, <1>2, <2>1 DEF JobOK
  <1>6. AcceptedHasRoom'
    BY <1>2 DEF IInv, AcceptedHasRoom, Rows
  <1> QED BY <1>1, <1>3, <1>4, <1>5, <1>6 DEF IInv

\* Starting jobs for existing invitations keeps the invariant.
LEMMA JobsStart ==
    ASSUME IInv, NEW r \in Requests, NEW q \in Request,
           req' = [req EXCEPT ![r] = q], LocalOK(q), Created(q), req[r].user \in Users,
           NEW ids \in SUBSET Rows, jobs' = jobs \cup {Started(r, id) : id \in ids},
           UNCHANGED <<invitations, mailed, rooms, direct, now, faults, scenario>>
    PROVE  IInv'
  <1>1. /\ req' \in [Requests -> Request] /\ LocalsOK'
        /\ \A i \in Requests : Created(req[i]) => Created(req'[i])
    BY RequestMoves DEF IInv
  <1>2. ASSUME NEW id \in ids
        PROVE  /\ Started(r, id) \in Job
               /\ Started(r, id).id = id /\ Started(r, id).stage = "room"
               /\ Started(r, id).sender = invitations[id].sender
    <2>1. id \in Requests /\ invitations[id] \in Row
      BY DEF Rows, Exists, IInv, TypeOK
    <2> QED BY <2>1 DEF Started, Job, Row
  <1>3. TypeOK'
    BY <1>1, <1>2 DEF IInv, TypeOK
  <1>4. RowsOK'
    BY <1>1 DEF IInv, RowsOK, Exists
  <1>5. JobsOK'
    <2> SUFFICES ASSUME NEW j \in jobs' PROVE JobOK(j)'
      BY DEF JobsOK
    <2>1. CASE j \in jobs
      <3>1. JobOK(j) /\ j.id \in Requests
        BY <2>1 DEF IInv, JobsOK, TypeOK, Job
      <3> QED BY <1>1, <3>1 DEF JobOK, Exists
    <2>2. ASSUME NEW id \in ids, j = Started(r, id) PROVE JobOK(j)'
      <3>1. id \in Requests /\ Created(req[id])
        BY DEF Rows, IInv, RowsOK
      <3> QED BY <1>1, <1>2, <2>2, <3>1 DEF JobOK
    <2> QED BY <2>1, <2>2
  <1>6. AcceptedHasRoom'
    BY DEF IInv, AcceptedHasRoom, Rows, Exists
  <1> QED BY <1>1, <1>3, <1>4, <1>5, <1>6 DEF IInv

\* Inserting the row keeps the invariant: no job knows the invitation yet.
LEMMA CreateInv ==
    ASSUME IInv, NEW r \in Requests, CreateInvitation(r), UNCHANGED scenario
    PROVE  IInv'
  <1> DEFINE p == [req[r] EXCEPT !.pc = "send", !.id = r, !.expiration = None]
             q == IF p.kind = "invite" THEN p ELSE Answered(p, 200)
             row == [sender |-> req[r].user, recipient |-> req[r].contact,
                     expiration |-> req[r].expiration, accessed |-> FALSE, matrix_id |-> None]
  <1>1. req[r] \in Request /\ ~Created(req[r]) /\ LocalOK(req[r]) /\ req[r].pc = "insert"
    BY DEF IInv, TypeOK, LocalsOK, CreateInvitation, At, Created
  <1>2. p \in Request /\ p.pc = "send"
    BY <1>1 DEF Request
  <1>3. LocalOK(p) /\ Created(p)
    BY <1>2 DEF LocalOK, Created
  <1>4. q \in Request /\ LocalOK(q) /\ Created(q)
    BY <1>2, <1>3, AnsweredOK, Codes
  <1>5. row \in Row /\ row.accessed = FALSE
    BY <1>1 DEF LocalOK, Row
  <1>6. req' = [req EXCEPT ![r] = q] /\ invitations' = [invitations EXCEPT ![r] = row]
    BY DEF CreateInvitation
  <1> HIDE DEF p, q, row
  <1>7. /\ req' \in [Requests -> Request] /\ LocalsOK'
        /\ \A i \in Requests : Created(req[i]) => Created(req'[i])
        /\ Created(req'[r])
    <2>1. req'[r] = q
      BY <1>6 DEF IInv, TypeOK
    <2> QED BY <1>4, <1>6, <2>1, RequestMoves DEF IInv
  <1>8. /\ invitations' \in [Requests -> Row \cup {None}]
        /\ invitations'[r] = row
        /\ \A i \in Requests : i # r => invitations'[i] = invitations[i]
    BY <1>5, <1>6 DEF IInv, TypeOK
  <1>9. TypeOK'
    BY <1>7, <1>8 DEF IInv, TypeOK, CreateInvitation
  <1>10. RowsOK'
    BY <1>7, <1>8 DEF IInv, RowsOK, Exists
  <1>11. JobsOK'
    <2> SUFFICES ASSUME NEW j \in jobs PROVE JobOK(j)'
      BY DEF JobsOK, CreateInvitation
    <2>1. JobOK(j) /\ j.id \in Requests
      BY DEF IInv, JobsOK, TypeOK, Job
    <2>2. j.id # r
      BY <1>1, <2>1 DEF JobOK
    <2> QED BY <1>7, <1>8, <2>1, <2>2 DEF JobOK, Exists, CreateInvitation
  <1>12. AcceptedHasRoom'
    BY <1>5, <1>8 DEF IInv, AcceptedHasRoom, Rows, Exists, CreateInvitation
  <1> QED BY <1>7, <1>9, <1>10, <1>11, <1>12 DEF IInv

\* Every later step of a request keeps the invariant.
LEMMA StepInv ==
    ASSUME IInv, NEW r \in Requests, Step(r), UNCHANGED scenario
    PROVE  IInv'
  <1>0. req[r] \in Request /\ LocalOK(req[r])
    BY DEF IInv, TypeOK, LocalsOK
  <1>1. CASE CreateInvitation(r)
    BY <1>1, CreateInv
  <1>2. CASE CreateInvitationFails(r)
    BY <1>2, RequestGoes, Codes DEF CreateInvitationFails
  <1>3. CASE DeliverInvitation(r)
    BY <1>3, RequestGoes, Codes DEF DeliverInvitation, NoFault
  <1>4. CASE DeliverInvitationFails(r)
    BY <1>4, RequestGoes DEF DeliverInvitationFails
  <1>5. CASE UndoInvitation(r)
    BY <1>5, RequestGoes, RowGone, Codes DEF UndoInvitation, NoFault
  <1>6. CASE Accept(r)
    <2> DEFINE id == req[r].id
    <2>0. id \in Requests /\ req[r].user \in Users
      BY <1>0, <1>6 DEF Accept, At, LocalOK
    <2>1. CASE Answer(r, 500) /\ UNCHANGED jobs
      BY <1>6, <2>1, RequestGoes, Codes DEF Accept
    <2>2. CASE /\ Exists(id) /\ NoFault /\ UNCHANGED jobs
               /\ req' = [req EXCEPT ![r] =
                            [@ EXCEPT !.pc = "gather", !.contact = invitations[id].recipient]]
      <3> DEFINE q == [req[r] EXCEPT !.pc = "gather", !.contact = invitations[id].recipient]
      <3>1. invitations[id] \in Row
        BY <2>0, <2>2 DEF Exists, IInv, TypeOK
      <3>2. q \in Request /\ q.pc = "gather" /\ q.user = req[r].user
        BY <1>0, <3>1 DEF Request, Row
      <3>3. LocalOK(q) /\ Created(q)
        BY <2>0, <3>2 DEF LocalOK, Created
      <3>4. req' = [req EXCEPT ![r] = q]
        BY <2>2
      <3> HIDE DEF q
      <3> QED BY <1>6, <2>2, <3>2, <3>3, <3>4, OnlyRequest DEF Accept
    <2>3. CASE /\ Exists(id) /\ NoFault /\ Goto(r, "await")
               /\ jobs' = jobs \cup {Started(r, id)}
      <3> DEFINE q == [req[r] EXCEPT !.pc = "await"]
      <3>1. q \in Request /\ q.pc = "await"
        BY <1>0 DEF Request
      <3>2. LocalOK(q) /\ Created(q)
        BY <3>1 DEF LocalOK, Created
      <3>3. req' = [req EXCEPT ![r] = q]
        BY <2>3 DEF Goto
      <3>4. {id} \in SUBSET Rows /\ jobs' = jobs \cup {Started(r, i) : i \in {id}}
        BY <2>0, <2>3 DEF Rows
      <3> HIDE DEF q, id
      <3>5. UNCHANGED <<invitations, mailed, rooms, direct, now, faults, scenario>>
        BY <1>6, <2>3 DEF Accept, NoFault
      <3> QED BY <2>0, <3>1, <3>2, <3>3, <3>4, <3>5, JobsStart
    <2> QED BY <1>6, <2>1, <2>2, <2>3 DEF Accept
  <1>7. CASE ProcessInvitationsToAddress(r)
    <2> DEFINE ids == {i \in Pending(req[r].contact) : ~Expired(invitations[i])}
    <2>1. CASE NoFault /\ jobs' = jobs \cup {Started(r, id) : id \in ids} /\ Answer(r, 200)
      <3>1. ids \in SUBSET Rows
        BY DEF Pending, RowsTo
      <3>2. req[r].user \in Users
        BY <1>0, <1>7 DEF ProcessInvitationsToAddress, At, LocalOK
      <3> HIDE DEF ids
      <3>3. UNCHANGED <<invitations, mailed, rooms, direct, now, faults, scenario>>
        BY <1>7, <2>1 DEF ProcessInvitationsToAddress, NoFault
      <3>4. req' = [req EXCEPT ![r] = Answered(req[r], 200)]
        BY <2>1 DEF Answer
      <3>5. /\ Answered(req[r], 200) \in Request
            /\ LocalOK(Answered(req[r], 200)) /\ Created(Answered(req[r], 200))
        BY <1>0, AnsweredOK, Codes
      <3> QED BY <2>1, <3>1, <3>2, <3>3, <3>4, <3>5, JobsStart
    <2>2. CASE Fault /\ Answer(r, 500) /\ UNCHANGED jobs
      BY <1>7, <2>2, RequestGoes, Codes DEF ProcessInvitationsToAddress
    <2> QED BY <1>7, <2>1, <2>2 DEF ProcessInvitationsToAddress
  <1>8. CASE RemoveInvitation(r)
    <2>1. req[r].id \in Requests
      BY <1>0, <1>8 DEF RemoveInvitation, At, LocalOK
    <2> QED BY <1>8, <2>1, RequestGoes, RowGone, Codes DEF RemoveInvitation, NoFault
  <1>9. CASE GetInvitationStatus(r)
    BY <1>9, RequestGoes, Codes DEF GetInvitationStatus
  <1> QED BY <1>1, <1>2, <1>3, <1>4, <1>5, <1>6, <1>7, <1>8, <1>9 DEF Step

-----------------------------------------------------------------------------
\* What a step of job j does to the requests and to the set of jobs.
LEMMA JobMoves ==
    ASSUME IInv, NEW j \in jobs, NEW stage \in {"direct", "update", "done", "failed"},
           Advance(j, stage), AnswerWaiting(j) \/ UNCHANGED req
    PROVE  /\ req' \in [Requests -> Request] /\ LocalsOK'
           /\ \A i \in Requests : Created(req[i]) => Created(req'[i])
           /\ jobs' \subseteq Job
           /\ \A k \in jobs' : \/ k \in jobs
                               \/ /\ k.stage = stage /\ RoomOf(k) = RoomOf(j)
                                  /\ k.id = j.id /\ k.sender = j.sender
  <1>1. j \in Job /\ j.request \in Requests
    BY DEF IInv, TypeOK, Job
  <1>2. /\ req' \in [Requests -> Request] /\ LocalsOK'
        /\ \A i \in Requests : Created(req[i]) => Created(req'[i])
    <2>1. CASE Answer(j.request, 200)
      <3>1. req[j.request] \in Request
        BY <1>1 DEF IInv, TypeOK
      <3> QED BY <1>1, <2>1, <3>1, AnsweredOK, Codes, RequestMoves DEF IInv, Answer
    <2>2. CASE UNCHANGED req
      BY <2>2 DEF IInv, TypeOK, LocalsOK, LocalOK, Created
    <2> QED BY <2>1, <2>2 DEF AnswerWaiting
  <1> DEFINE m == [j EXCEPT !.stage = stage]
  <1>3. /\ m \in Job /\ m.stage = stage /\ RoomOf(m) = RoomOf(j)
        /\ m.id = j.id /\ m.sender = j.sender
    BY <1>1 DEF Job, RoomOf
  <1>4. jobs' = (jobs \ {j}) \cup {m}
    BY DEF Advance
  <1> HIDE DEF m
  <1> QED BY <1>2, <1>3, <1>4 DEF IInv, TypeOK

\* Every step of a job keeps the invariant.
LEMMA JobStepInv ==
    ASSUME IInv, NEW j \in jobs, JobStep(j), UNCHANGED scenario
    PROVE  IInv'
  <1>0. j \in Job /\ JobOK(j) /\ j.id \in Requests /\ RoomOf(j) \in Room
    BY DEF IInv, TypeOK, Job, JobsOK, RoomOf, Room
  <1>1. ASSUME NEW stage \in {"direct", "done", "failed"},
               Advance(j, stage), AnswerWaiting(j) \/ UNCHANGED req,
               stage = "direct" => RoomOf(j) \in rooms',
               rooms \subseteq rooms', rooms' \subseteq Room, Fault \/ NoFault,
               UNCHANGED <<invitations, mailed, direct, now, scenario>>
        PROVE  IInv'
    <2>1. /\ req' \in [Requests -> Request] /\ LocalsOK'
          /\ \A i \in Requests : Created(req[i]) => Created(req'[i])
          /\ jobs' \subseteq Job
          /\ \A k \in jobs' : \/ k \in jobs
                              \/ /\ k.stage = stage /\ RoomOf(k) = RoomOf(j)
                                 /\ k.id = j.id /\ k.sender = j.sender
      BY <1>1, JobMoves
    <2>2. TypeOK'
      BY <1>1, <2>1, FaultsTyped DEF IInv, TypeOK
    <2>3. RowsOK'
      BY <1>1, <2>1 DEF IInv, RowsOK, Exists
    <2>4. JobsOK'
      <3> SUFFICES ASSUME NEW k \in jobs' PROVE JobOK(k)'
        BY DEF JobsOK
      <3>1. CASE k \in jobs
        <4>1. JobOK(k) /\ k.id \in Requests
          BY <3>1 DEF IInv, JobsOK, TypeOK, Job
        <4> QED BY <1>1, <2>1, <4>1 DEF JobOK, Exists
      <3>2. CASE /\ k.stage = stage /\ RoomOf(k) = RoomOf(j)
                 /\ k.id = j.id /\ k.sender = j.sender
        BY <1>0, <1>1, <2>1, <3>2 DEF JobOK, Exists
      <3> QED BY <2>1, <3>1, <3>2
    <2>5. AcceptedHasRoom'
      BY <1>1 DEF IInv, AcceptedHasRoom, Rows, Exists
    <2> QED BY <2>1, <2>2, <2>3, <2>4, <2>5 DEF IInv
  <1>2. CASE CreatePrivateChat(j)
    <2>1. /\ RoomOf(j) \in rooms' /\ rooms \subseteq rooms' /\ rooms' \subseteq Room
      BY <1>0, <1>2 DEF CreatePrivateChat, IInv, TypeOK
    <2> QED BY <1>1, <1>2, <2>1 DEF CreatePrivateChat, NoFault
  <1>3. CASE MarkPrivateChatAsDirectMessage(j)
    <2>1. /\ req' \in [Requests -> Request] /\ LocalsOK'
          /\ \A i \in Requests : Created(req[i]) => Created(req'[i])
          /\ jobs' \subseteq Job
          /\ \A k \in jobs' : \/ k \in jobs
                              \/ /\ k.stage = "update" /\ RoomOf(k) = RoomOf(j)
                                 /\ k.id = j.id /\ k.sender = j.sender
      BY <1>3, JobMoves DEF MarkPrivateChatAsDirectMessage
    <2>2. direct' \in [Users -> SUBSET (Users \X Room)]
      <3>1. <<j.sender, RoomOf(j)>> \in Users \X Room
        BY <1>0 DEF Job
      <3> HIDE DEF RoomOf
      <3> QED BY <1>0, <1>3, <3>1 DEF MarkPrivateChatAsDirectMessage, IInv, TypeOK
    <2>3. UNCHANGED <<invitations, mailed, rooms, now, faults, scenario>>
      BY <1>3 DEF MarkPrivateChatAsDirectMessage
    <2>4. TypeOK'
      BY <2>1, <2>2, <2>3 DEF IInv, TypeOK
    <2>5. RowsOK'
      BY <2>1, <2>3 DEF IInv, RowsOK, Exists
    <2>6. JobsOK'
      <3> SUFFICES ASSUME NEW k \in jobs' PROVE JobOK(k)'
        BY DEF JobsOK
      <3>0. RoomOf(j) \in rooms
        BY <1>0, <1>3 DEF MarkPrivateChatAsDirectMessage, JobOK
      <3>1. CASE k \in jobs
        <4>1. JobOK(k) /\ k.id \in Requests
          BY <3>1 DEF IInv, JobsOK, TypeOK, Job
        <4> QED BY <2>1, <2>3, <4>1 DEF JobOK, Exists
      <3>2. CASE /\ k.stage = "update" /\ RoomOf(k) = RoomOf(j)
                 /\ k.id = j.id /\ k.sender = j.sender
        BY <1>0, <2>1, <2>3, <3>0, <3>2 DEF JobOK, Exists
      <3> QED BY <2>1, <3>1, <3>2
    <2>7. AcceptedHasRoom'
      BY <2>3 DEF IInv, AcceptedHasRoom, Rows, Exists
    <2> QED BY <2>1, <2>4, <2>5, <2>6, <2>7 DEF IInv
  <1>4. CASE UpdateInvitation(j)
    <2>0. UNCHANGED <<mailed, rooms, direct, now, faults, scenario>>
      BY <1>4 DEF UpdateInvitation
    <2>1. CASE ~Exists(j.id)
      <3>1. UNCHANGED invitations /\ Advance(j, "done") /\ AnswerWaiting(j)
        BY <1>4, <2>1 DEF UpdateInvitation
      <3>2. rooms \subseteq rooms' /\ rooms' \subseteq Room
        BY <2>0 DEF IInv, TypeOK
      <3> QED BY <1>1, <2>0, <3>1, <3>2 DEF NoFault
    <2>2. CASE Exists(j.id)
      <3>1. /\ req' \in [Requests -> Request] /\ LocalsOK'
            /\ \A i \in Requests : Created(req[i]) => Created(req'[i])
            /\ jobs' \subseteq Job
            /\ \A k \in jobs' : \/ k \in jobs
                                \/ /\ k.stage = "done" /\ RoomOf(k) = RoomOf(j)
                                   /\ k.id = j.id /\ k.sender = j.sender
        BY <1>4, JobMoves DEF UpdateInvitation
      <3>2. invitations[j.id] \in Row /\ invitations[j.id].sender = j.sender
        BY <1>0, <2>2 DEF Exists, IInv, TypeOK, JobOK
      <3> DEFINE row == [invitations[j.id] EXCEPT !.accessed = TRUE, !.matrix_id = j.by]
      <3>3. /\ row \in Row /\ row.sender = j.sender /\ row.matrix_id = j.by
        BY <1>0, <3>2 DEF Row, Job
      <3>4. invitations' = [invitations EXCEPT ![j.id] = row]
        BY <1>4, <2>2 DEF UpdateInvitation
      <3> HIDE DEF row
      <3>5. /\ invitations' \in [Requests -> Row \cup {None}]
            /\ invitations'[j.id] = row
            /\ \A i \in Requests : i # j.id => invitations'[i] = invitations[i]
        BY <1>0, <3>3, <3>4 DEF IInv, TypeOK
      <3>6. TypeOK'
        BY <2>0, <3>1, <3>5 DEF IInv, TypeOK
      <3>7. RowsOK'
        BY <1>0, <3>1, <3>5 DEF IInv, RowsOK, Exists, JobOK
      <3>8. JobsOK'
        <4> SUFFICES ASSUME NEW k \in jobs' PROVE JobOK(k)'
          BY DEF JobsOK
        <4>1. CASE k \in jobs
          <5>1. JobOK(k) /\ k.id \in Requests
            BY <4>1 DEF IInv, JobsOK, TypeOK, Job
          <5>2. k.id = j.id => k.sender = j.sender
            BY <2>2, <3>2, <5>1 DEF JobOK
          <5> QED BY <2>0, <3>1, <3>3, <3>5, <5>1, <5>2 DEF JobOK, Exists
        <4>2. CASE /\ k.stage = "done" /\ RoomOf(k) = RoomOf(j)
                   /\ k.id = j.id /\ k.sender = j.sender
          BY <1>0, <3>1, <3>3, <3>5, <4>2 DEF JobOK
        <4> QED BY <3>1, <4>1, <4>2
      <3>9. AcceptedHasRoom'
        <4> SUFFICES ASSUME NEW id \in Rows', invitations'[id].accessed
                     PROVE  \E room \in rooms' : /\ room.id = id
                                                 /\ room.by = invitations'[id].matrix_id
                                                 /\ room.with = invitations'[id].sender
          BY DEF AcceptedHasRoom
        <4>1. CASE id = j.id
          <5>1. RoomOf(j) \in rooms'
            BY <1>0, <1>4, <2>0 DEF UpdateInvitation, JobOK
          <5>2. RoomOf(j).id = j.id /\ RoomOf(j).by = j.by /\ RoomOf(j).with = j.sender
            BY DEF RoomOf
          <5> QED BY <3>3, <3>5, <4>1, <5>1, <5>2
        <4>2. CASE id # j.id
          BY <2>0, <3>5, <4>2 DEF IInv, AcceptedHasRoom, Rows, Exists
        <4> QED BY <4>1, <4>2
      <3> QED BY <3>1, <3>6, <3>7, <3>8, <3>9 DEF IInv
    <2> QED BY <2>1, <2>2
  <1>5. CASE JobFails(j)
    <2>1. rooms \subseteq rooms' /\ rooms' \subseteq Room
      BY <1>5 DEF JobFails, IInv, TypeOK
    <2> QED BY <1>1, <1>5, <2>1 DEF JobFails
  <1> QED BY <1>2, <1>3, <1>4, <1>5 DEF JobStep

-----------------------------------------------------------------------------
\* The inductive invariant holds in every reachable state.
THEOREM Invariance == Spec => []IInv
  <1>1. Init => IInv
    <2> SUFFICES ASSUME Init PROVE IInv
      OBVIOUS
    <2>1. NoRequest \in Request /\ NoRequest.pc = "idle"
      BY DEF NoRequest, Request
    <2>2. TypeOK
      BY <2>1, InvitationsAssumption DEF Init, TypeOK
    <2>3. LocalsOK /\ RowsOK /\ JobsOK /\ AcceptedHasRoom
      BY <2>1 DEF Init, LocalsOK, LocalOK, RowsOK, JobsOK, AcceptedHasRoom, Rows, Exists
    <2> QED BY <2>2, <2>3 DEF IInv
  <1>2. IInv /\ [Next]_vars => IInv'
    <2> SUFFICES ASSUME IInv, [Next]_vars PROVE IInv'
      OBVIOUS
    <2>1. CASE UNCHANGED vars
      BY <2>1 DEF vars, IInv, TypeOK, LocalsOK, LocalOK, RowsOK, JobsOK, JobOK, Created,
                  Exists, AcceptedHasRoom, Rows
    <2>2. CASE Tick /\ UNCHANGED scenario
      <3>1. now' \in Nat
        BY <2>2 DEF Tick, IInv, TypeOK, Scenario
      <3> QED BY <2>2, <3>1 DEF Tick, IInv, TypeOK, LocalsOK, LocalOK, RowsOK, JobsOK, JobOK,
                                Created, Exists, AcceptedHasRoom, Rows
    <2> QED BY <2>1, <2>2, BeginInv, StepInv, JobStepInv DEF Next, Terminating, Happens
  <1> QED BY <1>1, <1>2, PTL DEF Spec

\* Every variable keeps its type; a contact that fails checkInvitationPayload
\* never reaches the table.
THEOREM TypeCorrect == Spec => []TypeOK
  <1>1. IInv => TypeOK
    BY DEF IInv
  <1> QED BY <1>1, Invariance, PTL

\* For any requests, users, times and failures: an invitation recorded as
\* accepted has the room _processInvitation created for it, by the user it
\* is recorded for and with the user who sent it.
THEOREM AcceptedRooms == Spec => []AcceptedHasRoom
  <1>1. IInv => AcceptedHasRoom
    BY DEF IInv
  <1> QED BY <1>1, Invariance, PTL

-----------------------------------------------------------------------------
(***************************************************************************)
(* What requests that begin one after the other leave behind.              *)
(***************************************************************************)

\* Which handler is where, and that it answers last.
FlowOK(q) ==
    /\ q.pc # "done" => q.status = None
    /\ q.pc = "insert" => q.kind \in {"invite", "link"}
    /\ q.pc \in {"send", "undo"} => q.kind = "invite"
    /\ q.pc \in {"accept", "gather", "await"} => q.kind = "accept"
    /\ q.pc = "act" => q.kind \in {"remove", "status"}

Flow == \A r \in Requests :
            /\ FlowOK(req[r])
            /\ req[r].pc # "idle" => /\ r \in scenario.requests
                                     /\ \E a \in scenario.menu : a.kind = req[r].kind

\* With one failing call, the withdrawal of an invitation does not fail.
Withdrawn ==
    scenario.faults <= 1 =>
        \A r \in Requests : /\ req[r].pc = "undo" => faults >= 1
                            /\ req[r].kind = "invite" /\ req[r].status = 500 => ~Exists(r)

\* Unless requests overlap, a request is answered before the next one begins.
InOrder ==
    scenario.pace # "free" =>
        \A q \in scenario.requests, r \in Requests :
            q < r /\ req[r].pc # "idle" => req[q].pc = "done"

OrderInv == Flow /\ Withdrawn /\ InOrder

\* A job that is over has recorded the acceptance.
Used(k) == k.stage # "failed" /\ (k.stage = "done" /\ Exists(k.id) => invitations[k.id].accessed)

\* The jobs that an acceptance starts are for invitations no job has had.
UnusedParts ==
    /\ \A r \in Requests : req[r].pc \in {"accept", "gather"} => \A k \in jobs : Ended(k)
    /\ \A k, l \in jobs : k.id = l.id => k = l
    /\ \A room \in rooms : \E k \in jobs : k.stage # "room" /\ RoomOf(k) = room
    /\ \A k \in jobs : Used(k)

Unused == scenario.pace = "quiet" /\ scenario.faults = 0 => UnusedParts

\* An invitation is valid for a day.
Lasting == /\ \A id \in Rows : invitations[id].expiration >= EXPIRATION
           /\ \A r \in Requests : req[r].pc = "insert" => req[r].expiration >= EXPIRATION

\* Who is about to create an invitation has none that is valid.
OnePendingParts ==
    \A u \in Users : \A c \in Contacts \cup {NoContact} :
        /\ \A r \in Requests :
             req[r].pc = "insert" /\ req[r].user = u /\ req[r].contact = c => Valid(u, c) = {}
        /\ \A i, k \in Valid(u, c) : i = k

OnePending ==
    scenario.pace # "free" /\ scenario.faults = 0 /\ now < EXPIRATION + ONE_HOUR => OnePendingParts

\* The invitation k to the contact is the first that is delivered, or
\* rateLimitInvitations saw one that expired an hour before.
Spaced(k, contact, expiration) ==
    \/ \A i \in mailed : i < k => invitations[i].recipient # contact
    \/ \E old \in RowsTo(contact) :
          old < k /\ expiration - EXPIRATION - invitations[old].expiration >= ONE_HOUR

NoRemovals == \A a \in scenario.menu : a.kind # "remove"

\* The request is about to send, or has sent, a message to the contact.
Sends(r, contact, expiration) ==
    \/ /\ req[r].pc = "insert" /\ req[r].kind = "invite"
       /\ req[r].contact = contact /\ req[r].expiration = expiration
    \/ /\ req[r].pc = "send" \/ r \in mailed
       /\ invitations[r].recipient = contact /\ invitations[r].expiration = expiration

LimitedParts ==
    /\ \A r \in Requests : \A contact, expiration :
         Sends(r, contact, expiration) => Spaced(r, contact, expiration)
    /\ \A r \in Requests : req[r].pc = "send" \/ r \in mailed => Exists(r)
    /\ \A r \in mailed : req[r].pc = "done"

Limited == scenario.pace # "free" /\ NoRemovals => LimitedParts

-----------------------------------------------------------------------------
(* The steps, as far as these invariants tell them apart.                  *)

Only(r) == \A q \in Requests \ {r} : req'[q] = req[q]

\* A request begins and is answered at once, or its handler goes on; before
\* it creates an invitation it has looked at the ones there are.
Begins(r) ==
    /\ Only(r) /\ MayBegin(r) /\ FlowOK(req'[r]) /\ req'[r].pc # "idle" /\ (Fault \/ NoFault)
    /\ \E a \in scenario.menu : a.kind = req'[r].kind
    /\ UNCHANGED <<invitations, mailed, rooms, jobs, now, scenario>>
    /\ \/ req'[r].pc = "done" /\ (req'[r].kind = "invite" => req'[r].status # 500)
       \/ req'[r].pc \in {"accept", "act"}
       \/ /\ req'[r].pc = "insert" /\ req'[r].expiration = now + EXPIRATION
          /\ req'[r].kind = "invite" => \/ RowsTo(req'[r].contact) = {}
                                        \/ \E id \in RowsTo(req'[r].contact) : ~TooSoon(invitations[id])
          /\ req'[r].kind = "link" => Fault \/ Valid(req'[r].user, req'[r].contact) = {}

\* A request that has begun moves on.
Moves(r) ==
    /\ Only(r) /\ FlowOK(req'[r]) /\ req[r].pc \notin {"idle", "done"} /\ req'[r].pc # "idle"
    /\ req'[r].kind = req[r].kind /\ UNCHANGED scenario

Inserts(r) ==
    /\ req[r].pc = "insert" /\ invitations'[r] # None
    /\ invitations'[r].sender = req[r].user /\ invitations'[r].recipient = req[r].contact
    /\ invitations'[r].expiration = req[r].expiration
    /\ \A id \in Requests \ {r} : invitations'[id] = invitations[id]
    /\ IF req[r].kind = "invite" THEN req'[r].pc = "send"
                                 ELSE req'[r].pc = "done" /\ req'[r].status = 200
    /\ UNCHANGED <<mailed, rooms, jobs, now, faults>>

Delivers(r) ==
    /\ req[r].pc = "send" /\ req'[r].pc = "done" /\ req'[r].status = 200
    /\ mailed' = mailed \cup {r}
    /\ UNCHANGED <<invitations, rooms, jobs, now, faults>>

\* The row of an invitation is deleted.
Deletes(r) ==
    /\ req'[r].pc = "done"
    /\ \/ req[r].pc = "undo" /\ \A id \in Requests \ {r} : invitations'[id] = invitations[id]
       \/ req[r].pc = "act" /\ req[r].kind = "remove"
    /\ \A id \in Requests : invitations'[id] \in {None, invitations[id]}
    /\ req[r].pc = "undo" => invitations'[r] = None
    /\ UNCHANGED <<mailed, rooms, jobs, now, faults>>

\* Nothing but the request changes.
Goes(r) ==
    /\ \/ req[r].pc = "send" /\ req'[r].pc = "undo" /\ Fault
       \/ req[r].pc = "accept" /\ req'[r].pc = "gather"
       \/ req[r].pc \in {"insert", "undo"} /\ req'[r].pc = "done" /\ Fault
       \/ req[r].pc \in {"accept", "gather", "act"} /\ req'[r].pc = "done"
    /\ Fault \/ NoFault
    /\ UNCHANGED <<invitations, mailed, rooms, jobs, now>>

\* Jobs are started for invitations that are there and were not accepted.
Starts(r) ==
    /\ req[r].pc \in {"accept", "gather"} /\ req'[r].pc \in {"await", "done"}
    /\ \E ids \in SUBSET Rows : /\ \A id \in ids : ~invitations[id].accessed
                                /\ jobs' = jobs \cup {Started(r, id) : id \in ids}
    /\ UNCHANGED <<invitations, mailed, rooms, now, faults>>

Effect(r) == Moves(r) /\ (Inserts(r) \/ Delivers(r) \/ Deletes(r) \/ Goes(r) \/ Starts(r))

\* The first step of a request.
LEMMA BeginMoves ==
    ASSUME TypeOK, NEW r \in Requests, Begin(r), UNCHANGED scenario
    PROVE  Begins(r)
  <1>0. PICK a \in scenario.menu :
            \/ Refuse(r, a)
            \/ RateLimitInvitations(r, a) \/ GenerateLink(r, a) \/ ListInvitations(r, a)
            \/ \E id \in Tokens(r) : CheckInvitation(r, a, id) \/ CheckInvitationOwnership(r, a, id)
    BY DEF Begin
  <1>1. /\ MayBegin(r) /\ UNCHANGED <<invitations, mailed, rooms, jobs, now, scenario>>
        /\ (Fault \/ NoFault) /\ \E q : req' = [req EXCEPT ![r] = q]
    BY <1>0 DEF Refuse, RateLimitInvitations, GenerateLink, ListInvitations, CheckInvitation,
                CheckInvitationOwnership, GoCreate, NoFault
  <1>2. Only(r) /\ \A q : req' = [req EXCEPT ![r] = q] => req'[r] = q
    BY <1>1 DEF TypeOK, Only
  <1>3. ASSUME NEW id, NEW s \in Nat, s # 500 \/ a.kind # "invite", req' = [req EXCEPT ![r] = Replied(a, id, s)]
        PROVE  Begins(r)
    <2>1. req'[r].pc = "done" /\ req'[r].status = s /\ req'[r].kind = a.kind
      BY <1>2, <1>3 DEF Replied, Answered, Begun
    <2> QED BY <1>1, <1>2, <1>3, <2>1 DEF Begins, FlowOK
  <1>4. ASSUME NEW id, NEW pc \in {"accept", "act"}, req' = [req EXCEPT ![r] = Begun(a, id, pc)],
               pc = "accept" => a.kind = "accept", pc = "act" => a.kind \in {"remove", "status"}
        PROVE  Begins(r)
    <2>1. req'[r].pc = pc /\ req'[r].status = None /\ req'[r].kind = a.kind
      BY <1>2, <1>4 DEF Begun
    <2> QED BY <1>1, <1>2, <1>4, <2>1 DEF Begins, FlowOK
  <1>5. ASSUME GoCreate(r, a), a.kind \in {"invite", "link"},
               a.kind = "invite" => RowsTo(a.contact) = {} \/ \E id \in RowsTo(a.contact) : ~TooSoon(invitations[id]),
               a.kind = "link" => Fault \/ Valid(a.user, a.contact) = {}
        PROVE  Begins(r)
    <2>1. /\ req'[r].pc = "insert" /\ req'[r].status = None /\ req'[r].kind = a.kind
          /\ req'[r].user = a.user /\ req'[r].contact = a.contact /\ req'[r].expiration = now + EXPIRATION
      <3> DEFINE q == [Begun(a, None, "insert") EXCEPT !.expiration = now + EXPIRATION]
      <3>1. /\ q.pc = "insert" /\ q.status = None /\ q.kind = a.kind
            /\ q.user = a.user /\ q.contact = a.contact /\ q.expiration = now + EXPIRATION
        BY DEF Begun
      <3>2. req' = [req EXCEPT ![r] = q]
        BY <1>5 DEF GoCreate
      <3> HIDE DEF q
      <3> QED BY <1>2, <3>1, <3>2
    <2> QED BY <1>1, <1>2, <1>5, <2>1 DEF Begins, FlowOK
  <1>6. CASE Refuse(r, a)
    <2> DEFINE q == Replied(a, None, 400)
    <2>1. req' = [req EXCEPT ![r] = q]
      BY <1>6 DEF Refuse
    <2>3. q.pc = "done" /\ q.status = 400 /\ q.kind = a.kind
      BY DEF Replied, Answered, Begun
    <2> HIDE DEF q
    <2>2. req'[r].pc = "done" /\ req'[r].status = 400 /\ req'[r].kind = a.kind
      BY <1>2, <2>1, <2>3
    <2> QED BY <1>1, <1>2, <2>2 DEF Begins, FlowOK
  <1>7. CASE RateLimitInvitations(r, a)
    BY <1>3, <1>5, <1>7 DEF RateLimitInvitations
  <1>8. CASE GenerateLink(r, a)
    BY <1>3, <1>5, <1>8 DEF GenerateLink
  <1>9. CASE ListInvitations(r, a)
    BY <1>3, <1>9 DEF ListInvitations
  <1>10. ASSUME NEW id, CheckInvitation(r, a, id) PROVE Begins(r)
    BY <1>3, <1>4, <1>10 DEF CheckInvitation
  <1>11. ASSUME NEW id, CheckInvitationOwnership(r, a, id) PROVE Begins(r)
    BY <1>3, <1>4, <1>11 DEF CheckInvitationOwnership
  <1> QED BY <1>0, <1>6, <1>7, <1>8, <1>9, <1>10, <1>11

\* The later steps.
LEMMA StepMoves ==
    ASSUME IInv, Flow, NEW r \in Requests, Step(r), UNCHANGED scenario
    PROVE  Effect(r)
  <1>0. /\ req \in [Requests -> Request] /\ req[r] \in Request /\ FlowOK(req[r]) /\ LocalOK(req[r])
        /\ invitations \in [Requests -> Row \cup {None}]
    BY DEF IInv, TypeOK, LocalsOK, Flow
  <1>1. ASSUME NEW s, Answer(r, s), req[r].pc \notin {"idle", "done"}
        PROVE  Moves(r) /\ req'[r].pc = "done" /\ req'[r].status = s
    <2>1. /\ Only(r) /\ req'[r].pc = "done" /\ req'[r].status = s /\ req'[r].kind = req[r].kind
      BY <1>0, <1>1 DEF Answer, Answered, Only, Request
    <2> QED BY <1>1, <2>1 DEF Moves, FlowOK
  <1>2. CASE CreateInvitation(r)
    <2> DEFINE p == [req[r] EXCEPT !.pc = "send", !.id = r, !.expiration = None]
               row == [sender |-> req[r].user, recipient |-> req[r].contact,
                       expiration |-> req[r].expiration, accessed |-> FALSE, matrix_id |-> None]
    <2>1. p.pc = "send" /\ p.kind = req[r].kind /\ p.status = req[r].status
      BY <1>0 DEF Request
    <2>2. /\ Answered(p, 200).pc = "done" /\ Answered(p, 200).status = 200
          /\ Answered(p, 200).kind = req[r].kind
      BY <1>0 DEF Answered, Request
    <2>3. /\ Only(r) /\ req'[r] = IF p.kind = "invite" THEN p ELSE Answered(p, 200)
          /\ invitations'[r] = row /\ \A id \in Requests \ {r} : invitations'[id] = invitations[id]
          /\ req[r].pc = "insert" /\ UNCHANGED <<mailed, rooms, jobs, now, faults, scenario>>
      BY <1>0, <1>2 DEF CreateInvitation, Only, At
    <2>4. row \in Row /\ row # None
      <3>1. row \in Row
        BY <1>0, <2>3 DEF LocalOK, Row
      <3>2. None \notin Row
        BY InvitationsAssumption
      <3> QED BY <3>1, <3>2
    <2>5. row.sender = req[r].user /\ row.recipient = req[r].contact /\ row.expiration = req[r].expiration
      OBVIOUS
    <2> HIDE DEF p, row
    <2>6. Moves(r)
      BY <1>0, <2>1, <2>2, <2>3 DEF Moves, FlowOK
    <2>7. Inserts(r)
      BY <2>1, <2>2, <2>3, <2>4, <2>5 DEF Inserts
    <2> QED BY <2>6, <2>7 DEF Effect
  <1>3. CASE CreateInvitationFails(r)
    BY <1>1, <1>3 DEF CreateInvitationFails, At, Effect, Goes
  <1>4. CASE DeliverInvitation(r)
    BY <1>1, <1>4 DEF DeliverInvitation, At, Effect, Delivers
  <1>5. ASSUME NEW pc \in {"undo", "await"}, Goto(r, pc), req[r].pc \notin {"idle", "done"},
               pc = "undo" => req[r].kind = "invite", pc = "await" => req[r].kind = "accept"
        PROVE  Moves(r) /\ req'[r].pc = pc
    <2>1. /\ Only(r) /\ req'[r].pc = pc /\ req'[r].status = req[r].status /\ req'[r].kind = req[r].kind
      BY <1>0, <1>5 DEF Goto, Only, Request
    <2> QED BY <1>0, <1>5, <2>1 DEF Moves, FlowOK
  <1>6. CASE DeliverInvitationFails(r)
    BY <1>0, <1>5, <1>6 DEF DeliverInvitationFails, At, Effect, Goes, FlowOK
  <1>7. CASE UndoInvitation(r)
    <2>1. Moves(r) /\ req'[r].pc = "done" /\ req[r].pc = "undo"
      BY <1>1, <1>7 DEF UndoInvitation, At
    <2>2. CASE Fault
      BY <1>7, <2>1, <2>2 DEF UndoInvitation, Effect, Goes, NoFault, Fault, IInv, TypeOK
    <2>3. CASE NoFault
      <3>1. invitations' = [invitations EXCEPT ![r] = None]
        BY <1>7, <2>3 DEF UndoInvitation, NoFault, Fault, IInv, TypeOK
      <3>2. invitations'[r] = None /\ \A id \in Requests \ {r} : invitations'[id] = invitations[id]
        BY <1>0, <3>1
      <3> QED BY <1>7, <2>1, <2>3, <3>2 DEF UndoInvitation, Effect, Deletes, NoFault
    <2> QED BY <1>7, <2>2, <2>3 DEF UndoInvitation
  <1>8. CASE Accept(r)
    <2> DEFINE id == req[r].id
    <2>0. id \in Requests /\ req[r].pc = "accept" /\ req[r].kind = "accept"
      BY <1>0, <1>8 DEF Accept, At, LocalOK, FlowOK
    <2>1. CASE Answer(r, 500) /\ UNCHANGED jobs
      BY <1>1, <1>8, <2>0, <2>1 DEF Accept, Effect, Goes
    <2>2. CASE /\ NoFault /\ UNCHANGED jobs
               /\ req' = [req EXCEPT ![r] =
                            [@ EXCEPT !.pc = "gather", !.contact = invitations[id].recipient]]
      <3>1. /\ Only(r) /\ req'[r].pc = "gather" /\ req'[r].kind = req[r].kind /\ req'[r].status = req[r].status
        BY <1>0, <2>2 DEF Only, Request
      <3>2. Moves(r)
        BY <1>0, <2>0, <3>1 DEF Moves, FlowOK
      <3> QED BY <1>8, <2>0, <2>2, <3>1, <3>2 DEF Accept, Effect, Goes
    <2>3. CASE /\ Exists(id) /\ ~invitations[id].accessed /\ NoFault /\ Goto(r, "await")
               /\ jobs' = jobs \cup {Started(r, id)}
      <3>1. Moves(r) /\ req'[r].pc = "await"
        BY <1>5, <2>0, <2>3
      <3>2. {id} \in SUBSET Rows /\ jobs' = jobs \cup {Started(r, i) : i \in {id}}
        BY <2>0, <2>3 DEF Rows
      <3> HIDE DEF id
      <3>3. Starts(r)
        BY <1>8, <2>0, <2>3, <3>1, <3>2 DEF Accept, Starts, NoFault
      <3> QED BY <3>1, <3>3 DEF Effect
    <2> QED BY <1>8, <2>1, <2>2, <2>3 DEF Accept
  <1>9. CASE ProcessInvitationsToAddress(r)
    <2> DEFINE ids == {i \in Pending(req[r].contact) : ~Expired(invitations[i])}
    <2>0. req[r].pc = "gather"
      BY <1>9 DEF ProcessInvitationsToAddress, At
    <2>1. CASE NoFault /\ jobs' = jobs \cup {Started(r, id) : id \in ids} /\ Answer(r, 200)
      <3>1. ids \in SUBSET Rows /\ \A id \in ids : ~invitations[id].accessed
        BY DEF Pending, RowsTo
      <3> HIDE DEF ids
      <3>2. Moves(r) /\ req'[r].pc = "done"
        BY <1>1, <2>0, <2>1
      <3>3. Starts(r)
        BY <1>9, <2>0, <2>1, <3>1, <3>2 DEF ProcessInvitationsToAddress, Starts, NoFault
      <3> QED BY <3>2, <3>3 DEF Effect
    <2>2. CASE Fault /\ Answer(r, 500) /\ UNCHANGED jobs
      BY <1>1, <1>9, <2>0, <2>2 DEF ProcessInvitationsToAddress, Effect, Goes
    <2> QED BY <1>9, <2>1, <2>2 DEF ProcessInvitationsToAddress
  <1>10. CASE RemoveInvitation(r)
    <2>1. req[r].id \in Requests /\ req[r].pc = "act" /\ req[r].kind = "remove"
      BY <1>0, <1>10 DEF RemoveInvitation, At, LocalOK
    <2>2. Moves(r) /\ req'[r].pc = "done"
      BY <1>1, <1>10, <2>1 DEF RemoveInvitation
    <2>3. CASE Fault /\ UNCHANGED invitations
      BY <1>10, <2>1, <2>2, <2>3 DEF RemoveInvitation, Effect, Goes
    <2>4. CASE NoFault /\ invitations' = [invitations EXCEPT ![req[r].id] = None]
      <3>1. \A id \in Requests : invitations'[id] \in {None, invitations[id]}
        BY <1>0, <2>4
      <3> QED BY <1>10, <2>1, <2>2, <2>4, <3>1 DEF RemoveInvitation, Effect, Deletes, NoFault
    <2> QED BY <1>10, <2>3, <2>4 DEF RemoveInvitation
  <1>11. CASE GetInvitationStatus(r)
    <2>1. PICK s : Answer(r, s) /\ (Fault \/ NoFault)
      BY <1>11 DEF GetInvitationStatus
    <2>2. req[r].pc = "act" /\ UNCHANGED <<invitations, mailed, rooms, jobs, now>>
      BY <1>11 DEF GetInvitationStatus, At
    <2>3. Moves(r) /\ req'[r].pc = "done"
      BY <1>1, <2>1, <2>2
    <2> QED BY <2>1, <2>2, <2>3 DEF Effect, Goes
  <1> QED BY <1>2, <1>3, <1>4, <1>6, <1>7, <1>8, <1>9, <1>10, <1>11 DEF Step

\* A job moves on; only its last step answers the request that waits for it.
JobEffect(j) ==
    /\ UNCHANGED req \/ /\ j.request \in Requests /\ Moves(j.request)
                        /\ req[j.request].pc = "await" /\ req'[j.request].pc = "done"
    /\ \E m \in Job : /\ m.id = j.id /\ RoomOf(m) = RoomOf(j) /\ jobs' = (jobs \ {j}) \cup {m}
                      /\ \/ /\ m.stage = "direct" /\ j.stage = "room" /\ rooms' = rooms \cup {RoomOf(j)}
                            /\ UNCHANGED invitations
                         \/ /\ m.stage = "update" /\ j.stage = "direct" /\ UNCHANGED <<rooms, invitations>>
                         \/ /\ m.stage = "done" /\ j.stage = "update" /\ UNCHANGED rooms
                            /\ invitations'[j.id] # None => invitations'[j.id].accessed
                         \/ m.stage = "failed" /\ Fault /\ UNCHANGED <<rooms, invitations>>
    /\ \A id \in Requests : /\ invitations'[id] = None <=> invitations[id] = None
                            /\ invitations'[id].sender = invitations[id].sender
                            /\ invitations'[id].recipient = invitations[id].recipient
                            /\ invitations'[id].expiration = invitations[id].expiration
                            /\ invitations'[id].accessed \/ ~invitations[id].accessed
    /\ Fault \/ NoFault
    /\ UNCHANGED <<mailed, now, scenario>>

LEMMA JobStepMoves ==
    ASSUME IInv, Flow, NEW j \in jobs, JobStep(j), UNCHANGED scenario
    PROVE  JobEffect(j)
  <1>0. /\ j \in Job /\ j.request \in Requests /\ j.id \in Requests
        /\ req \in [Requests -> Request] /\ invitations \in [Requests -> Row \cup {None}]
    BY DEF IInv, TypeOK, Job
  <1>1. /\ UNCHANGED <<mailed, now, scenario>> /\ (Fault \/ NoFault)
    BY DEF JobStep, CreatePrivateChat, MarkPrivateChatAsDirectMessage, UpdateInvitation, JobFails, NoFault
  <1>2. UNCHANGED req \/ (Answer(j.request, 200) /\ req[j.request].pc = "await")
    <2>1. AnswerWaiting(j) \/ UNCHANGED req
      BY DEF JobStep, CreatePrivateChat, MarkPrivateChatAsDirectMessage, UpdateInvitation, JobFails
    <2>2. CASE ~At(j.request, "await")
      BY <2>1, <2>2 DEF AnswerWaiting
    <2>3. CASE At(j.request, "await")
      <3>1. UNCHANGED req \/ Answer(j.request, 200)
        BY <2>1, <2>3 DEF AnswerWaiting
      <3> QED BY <2>3, <3>1 DEF At
    <2> QED BY <2>2, <2>3
  <1>3. UNCHANGED req \/ /\ j.request \in Requests /\ Moves(j.request)
                         /\ req[j.request].pc = "await" /\ req'[j.request].pc = "done"
    <2> SUFFICES ASSUME Answer(j.request, 200), req[j.request].pc = "await"
                 PROVE  Moves(j.request) /\ req'[j.request].pc = "done"
      BY <1>0, <1>2
    <2>1. req[j.request] \in Request
      BY <1>0
    <2>2. /\ Only(j.request) /\ req'[j.request].pc = "done" /\ req'[j.request].kind = req[j.request].kind
      BY <1>0, <2>1 DEF Answer, Answered, Only, Request
    <2> QED BY <1>1, <2>2 DEF Moves, FlowOK
  <1> DEFINE m(stage) == [j EXCEPT !.stage = stage]
  <1>4. \A stage \in {"direct", "update", "done", "failed"} :
           /\ m(stage) \in Job /\ m(stage).stage = stage /\ m(stage).id = j.id
           /\ RoomOf(m(stage)) = RoomOf(j)
    BY <1>0 DEF Job, RoomOf
  <1>5. \A stage : Advance(j, stage) => jobs' = (jobs \ {j}) \cup {m(stage)}
    BY DEF Advance
  <1> HIDE DEF m
  <1>6. CASE CreatePrivateChat(j)
    <2>1. /\ jobs' = (jobs \ {j}) \cup {m("direct")} /\ UNCHANGED invitations
          /\ rooms' = rooms \cup {RoomOf(j)} /\ j.stage = "room"
      BY <1>5, <1>6 DEF CreatePrivateChat
    <2> QED BY <1>1, <1>3, <1>4, <2>1 DEF JobEffect
  <1>7. CASE MarkPrivateChatAsDirectMessage(j)
    <2>1. /\ jobs' = (jobs \ {j}) \cup {m("update")} /\ UNCHANGED <<rooms, invitations>> /\ j.stage = "direct"
      BY <1>5, <1>7 DEF MarkPrivateChatAsDirectMessage
    <2> QED BY <1>1, <1>3, <1>4, <2>1 DEF JobEffect
  <1>8. CASE JobFails(j)
    <2>1. jobs' = (jobs \ {j}) \cup {m("failed")} /\ UNCHANGED <<rooms, invitations>> /\ Fault
      BY <1>5, <1>8 DEF JobFails
    <2> QED BY <1>1, <1>3, <1>4, <2>1 DEF JobEffect
  <1>9. CASE UpdateInvitation(j)
    <2>1. jobs' = (jobs \ {j}) \cup {m("done")} /\ UNCHANGED rooms /\ j.stage = "update"
      BY <1>5, <1>9 DEF UpdateInvitation
    <2>2. CASE ~Exists(j.id)
      <3>1. UNCHANGED invitations /\ invitations'[j.id] = None
        BY <1>9, <2>2 DEF UpdateInvitation, Exists
      <3> QED BY <1>1, <1>3, <1>4, <2>1, <3>1 DEF JobEffect
    <2>3. CASE Exists(j.id)
      <3> DEFINE old == invitations[j.id]
                 row == [old EXCEPT !.accessed = TRUE, !.matrix_id = j.by]
      <3>1. old \in Row /\ j.by \in Users /\ None \notin Row
        BY <1>0, <2>3, InvitationsAssumption DEF Exists, Job
      <3>2. /\ row \in Row /\ row.accessed /\ row.sender = old.sender
            /\ row.recipient = old.recipient /\ row.expiration = old.expiration
        BY <3>1 DEF Row
      <3>3. invitations' = [invitations EXCEPT ![j.id] = row]
        BY <1>9, <2>3 DEF UpdateInvitation
      <3> HIDE DEF row
      <3>4. invitations'[j.id] = row /\ \A id \in Requests \ {j.id} : invitations'[id] = invitations[id]
        BY <1>0, <3>3
      <3>5. row # None /\ old # None
        BY <3>1, <3>2
      <3>6. \A id \in Requests : /\ invitations'[id] = None <=> invitations[id] = None
                                 /\ invitations'[id].sender = invitations[id].sender
                                 /\ invitations'[id].recipient = invitations[id].recipient
                                 /\ invitations'[id].expiration = invitations[id].expiration
                                 /\ invitations'[id].accessed \/ ~invitations[id].accessed
        BY <3>2, <3>4, <3>5
      <3> HIDE DEF old
      <3> QED BY <1>1, <1>3, <1>4, <2>1, <3>2, <3>4, <3>6 DEF JobEffect
    <2> QED BY <2>2, <2>3
  <1> QED BY <1>6, <1>7, <1>8, <1>9 DEF JobStep

\* All the steps there are.
LEMMA Steps ==
    ASSUME IInv, Flow, [Next]_vars
    PROVE  /\ IInv' /\ UNCHANGED scenario
           /\ faults \in Nat /\ faults' \in Nat /\ faults' >= faults
           /\ \/ UNCHANGED vars
              \/ Tick
              \/ \E r \in Requests : Begins(r) \/ Effect(r)
              \/ \E j \in jobs : JobEffect(j)
  <1>1. CASE UNCHANGED vars
    BY <1>1 DEF vars, IInv, TypeOK, LocalsOK, LocalOK, RowsOK, JobsOK, JobOK, Created, Exists,
                AcceptedHasRoom, Rows
  <1>2. CASE Tick /\ UNCHANGED scenario
    <2>1. now' \in Nat
      BY <1>2 DEF Tick, IInv, TypeOK, Scenario
    <2> QED BY <1>2, <2>1 DEF Tick, IInv, TypeOK, LocalsOK, LocalOK, RowsOK, JobsOK, JobOK,
                              Created, Exists, AcceptedHasRoom, Rows
  <1>3. ASSUME NEW r \in Requests, Begin(r), UNCHANGED scenario PROVE IInv' /\ Begins(r)
    <2>1. IInv'
      BY <1>3, BeginInv
    <2>2. Begins(r)
      BY <1>3, BeginMoves DEF IInv
    <2> QED BY <2>1, <2>2
  <1>4. ASSUME NEW r \in Requests, Step(r), UNCHANGED scenario PROVE IInv' /\ Effect(r)
    BY <1>4, StepInv, StepMoves
  <1>5. ASSUME NEW j \in jobs, JobStep(j), UNCHANGED scenario PROVE IInv' /\ JobEffect(j)
    BY <1>5, JobStepInv, JobStepMoves
  <1>6. ASSUME IInv', Fault \/ NoFault PROVE faults \in Nat /\ faults' \in Nat /\ faults' >= faults
    BY <1>6 DEF IInv, TypeOK, Fault, NoFault
  <1>7. \/ UNCHANGED vars
        \/ Tick /\ UNCHANGED scenario
        \/ \E r \in Requests : Begin(r) /\ UNCHANGED scenario
        \/ \E r \in Requests : Step(r) /\ UNCHANGED scenario
        \/ \E j \in jobs : JobStep(j) /\ UNCHANGED scenario
    BY DEF Next, Terminating, Happens
  <1>8. \A r \in Requests : Begins(r) \/ Effect(r) => (Fault \/ NoFault)
    BY DEF Begins, Effect, Inserts, Delivers, Deletes, Goes, Starts, NoFault
  <1>9. \A j \in jobs : JobEffect(j) => (Fault \/ NoFault)
    BY DEF JobEffect
  <1>10. (UNCHANGED vars \/ Tick => NoFault) /\ (UNCHANGED vars => UNCHANGED scenario)
    BY DEF vars, Tick, NoFault
  <1> QED BY <1>1, <1>2, <1>3, <1>4, <1>5, <1>6, <1>7, <1>8, <1>9, <1>10

-----------------------------------------------------------------------------
(* Requests in order; an invitation that is not delivered is withdrawn.    *)

\* One request moves, or none.
LEMMA Somebody ==
    ASSUME IInv, Flow, [Next]_vars
    PROVE  \/ UNCHANGED req
           \/ \E r \in Requests : Begins(r) \/ Moves(r)
  <1>1. ASSUME NEW j \in jobs, JobEffect(j) PROVE UNCHANGED req \/ \E r \in Requests : Moves(r)
    BY <1>1 DEF JobEffect
  <1> QED BY <1>1, Steps DEF vars, Tick, Effect

LEMMA FlowStep == ASSUME IInv, Flow, [Next]_vars PROVE Flow'
  <1>0. UNCHANGED scenario
    BY Steps
  <1>1. CASE UNCHANGED req
    BY <1>0, <1>1 DEF Flow, FlowOK
  <1>2. ASSUME NEW r \in Requests, Begins(r) PROVE Flow'
    <2>1. r \in scenario.requests
      BY <1>2 DEF Begins, MayBegin
    <2> QED BY <1>0, <1>2, <2>1 DEF Flow, FlowOK, Begins, Only
  <1>3. ASSUME NEW r \in Requests, Moves(r) PROVE Flow'
    BY <1>0, <1>3 DEF Flow, FlowOK, Moves, Only
  <1> QED BY <1>1, <1>2, <1>3, Somebody

LEMMA InOrderStep == ASSUME IInv, Flow, InOrder, [Next]_vars PROVE InOrder'
  <1>0. UNCHANGED scenario /\ scenario.requests \subseteq Requests /\ Requests \subseteq Nat
    BY Steps, InvitationsAssumption DEF IInv, TypeOK, Scenario
  <1> SUFFICES ASSUME scenario.pace # "free", NEW q \in scenario.requests, NEW s \in Requests, q < s,
                      req'[s].pc # "idle"
               PROVE  req'[q].pc = "done"
    BY <1>0 DEF InOrder
  <1>1. CASE UNCHANGED req
    BY <1>1 DEF InOrder
  <1>2. ASSUME NEW r \in Requests, Begins(r) PROVE req'[q].pc = "done"
    <2>1. /\ \A p \in scenario.requests : p < r => req[p].pc = "done"
          /\ req[r].pc = "idle" /\ r \in scenario.requests
      BY <1>2 DEF Begins, MayBegin, At
    <2>2. CASE s = r
      BY <1>0, <1>2, <2>1, <2>2 DEF Begins, Only
    <2>3. CASE s # r
      <3>1. req[q].pc = "done"
        BY <1>2, <2>3 DEF InOrder, Begins, Only
      <3> QED BY <1>0, <1>2, <2>1, <3>1 DEF Begins, Only
    <2> QED BY <2>2, <2>3
  <1>3. ASSUME NEW r \in Requests, Moves(r) PROVE req'[q].pc = "done"
    <2>1. req[s].pc # "idle"
      BY <1>3 DEF Moves, Only
    <2>2. req[q].pc = "done"
      BY <2>1 DEF InOrder
    <2> QED BY <1>0, <1>3, <2>2 DEF Moves, Only
  <1> QED BY <1>1, <1>2, <1>3, Somebody

LEMMA WithdrawnStep == ASSUME IInv, Flow, Withdrawn, [Next]_vars PROVE Withdrawn'
  <1>0. /\ UNCHANGED scenario /\ IInv' /\ faults \in Nat /\ faults' \in Nat
        /\ scenario.faults \in Nat /\ None \notin Nat
    BY Steps, InvitationsAssumption DEF IInv, TypeOK, Scenario
  <1> SUFFICES ASSUME scenario.faults <= 1, NEW s \in Requests
               PROVE  /\ req'[s].pc = "undo" => faults' >= 1
                      /\ req'[s].kind = "invite" /\ req'[s].status = 500 => invitations'[s] = None
    BY <1>0 DEF Withdrawn, Exists
  <1>1. /\ req[s].pc = "undo" => faults >= 1
        /\ req[s].kind = "invite" /\ req[s].status = 500 => invitations[s] = None
    BY DEF Withdrawn, Exists
  <1>2. req'[s].pc # "done" => req'[s].status = None
    BY FlowStep DEF Flow, FlowOK
  <1>3. CASE UNCHANGED vars \/ Tick
    BY <1>1, <1>3 DEF vars, Tick
  <1> DEFINE Fine == /\ req'[s].pc = "undo" => faults' >= 1
                     /\ req'[s].kind = "invite" /\ req'[s].status = 500 => invitations'[s] = None
  <1>g. faults' >= faults
    BY Steps
  \* A request that does not move, and whose row does not appear.
  <1>s. req'[s] = req[s] /\ (invitations[s] = None => invitations'[s] = None) => Fine
    BY <1>0, <1>1, <1>g
  <1>4. ASSUME NEW r \in Requests, Begins(r) PROVE Fine
    <2>1. CASE s # r
      BY <1>4, <1>s, <2>1 DEF Begins, Only
    <2>2. CASE s = r
      <3>1. invitations[s] = None
        BY <1>4, <2>2 DEF Begins, MayBegin, At, IInv, RowsOK, Created, Exists
      <3> QED BY <1>4, <2>2, <3>1 DEF Begins
    <2> QED BY <2>1, <2>2
  <1>5. ASSUME NEW r \in Requests, Effect(r) PROVE Fine
    <2>0. Only(r) /\ req'[r].kind = req[r].kind /\ FlowOK(req[r])
      BY <1>5 DEF Effect, Moves, Flow
    <2>1. CASE Inserts(r)
      BY <1>0, <1>2, <1>s, <2>0, <2>1 DEF Inserts, Only
    <2>2. CASE Delivers(r)
      BY <1>0, <1>s, <2>0, <2>2 DEF Delivers, Only
    <2>3. CASE Deletes(r)
      <3>1. invitations[s] = None => invitations'[s] = None
        BY <2>3 DEF Deletes
      <3> QED BY <1>s, <2>0, <2>3, <3>1 DEF Deletes, Only
    <2>4. CASE Goes(r)
      <3>1. CASE s # r
        BY <1>s, <2>0, <2>4, <3>1 DEF Goes, Only
      <3>2. CASE s = r /\ req'[r].pc = "undo"
        <4>1. Fault
          BY <2>4, <3>2 DEF Goes
        <4>2. faults' >= 1
          BY <1>0, <4>1 DEF Fault
        <4> QED BY <1>0, <1>2, <3>2, <4>2
      <3>3. CASE s = r /\ req[r].pc = "insert"
        <4>1. invitations'[s] = None
          BY <2>4, <3>3 DEF Goes, IInv, RowsOK, Created, Exists
        <4> QED BY <2>4, <3>3, <4>1 DEF Goes
      <3>4. CASE s = r /\ req[r].pc = "undo"
        <4>1. Fault
          BY <2>4, <3>4 DEF Goes
        <4> QED BY <1>0, <1>1, <3>4, <4>1 DEF Fault
      <3>5. CASE s = r /\ req[r].pc \in {"accept", "gather", "act"} /\ req'[r].pc # "undo"
        BY <2>0, <3>5 DEF FlowOK
      <3> QED BY <2>4, <3>1, <3>2, <3>3, <3>4, <3>5 DEF Goes
    <2>5. CASE Starts(r)
      BY <1>s, <2>0, <2>5 DEF Starts, Only, FlowOK
    <2> QED BY <1>5, <2>1, <2>2, <2>3, <2>4, <2>5 DEF Effect
  <1>6. ASSUME NEW j \in jobs, JobEffect(j) PROVE Fine
    <2>1. invitations[s] = None => invitations'[s] = None
      BY <1>6 DEF JobEffect
    <2>2. CASE req'[s] = req[s]
      BY <1>s, <2>1, <2>2
    <2>3. CASE req'[s] # req[s]
      <3>1. s = j.request /\ Moves(s) /\ req[s].pc = "await" /\ req'[s].pc = "done"
        BY <1>6, <2>3 DEF JobEffect, Moves, Only
      <3>2. req'[s].kind = req[s].kind /\ req[s].kind = "accept"
        BY <3>1 DEF Moves, Flow, FlowOK
      <3> QED BY <3>1, <3>2
    <2> QED BY <2>2, <2>3
  <1> QED BY <1>3, <1>4, <1>5, <1>6, Steps

LEMMA OrderInvariant == Spec => []OrderInv
  <1>1. Init => OrderInv
    <2> SUFFICES ASSUME Init PROVE OrderInv
      OBVIOUS
    <2>1. \A r \in Requests : req[r].pc = "idle" /\ req[r].status = None
      BY DEF Init, NoRequest
    <2>2. None # 500
      BY InvitationsAssumption
    <2> QED BY <2>1, <2>2 DEF OrderInv, Flow, FlowOK, Withdrawn, InOrder
  <1>2. IInv /\ OrderInv /\ [Next]_vars => OrderInv'
    BY FlowStep, InOrderStep, WithdrawnStep DEF OrderInv
  <1> QED BY <1>1, <1>2, Invariance, PTL DEF Spec

\* FailedInviteLeavesNothing: for any requests that overlap in any way, one failing call in all:
\* an invitation whose delivery failed is not in the table when its request is answered.
THEOREM FailedInviteWithdrawn == Spec => []FailedInviteLeavesNothing
  <1>1. OrderInv => FailedInviteLeavesNothing
    BY DEF OrderInv, Withdrawn, FailedInviteLeavesNothing
  <1> QED BY <1>1, OrderInvariant, PTL

-----------------------------------------------------------------------------
(* An invitation is used once.                                             *)

\* Two requests are not both in progress.
LEMMA OneAtATime ==
    ASSUME IInv, Flow, InOrder, scenario.pace # "free", NEW q \in Requests, NEW r \in Requests,
           req[q].pc \notin {"idle", "done"}, req[r].pc \notin {"idle", "done"}
    PROVE  q = r
  <1>1. q \in scenario.requests /\ r \in scenario.requests /\ q \in Nat /\ r \in Nat
    BY InvitationsAssumption DEF Flow
  <1>2. ~(q < r) /\ ~(r < q)
    BY <1>1 DEF InOrder
  <1> QED BY <1>1, <1>2

LEMMA UnusedStep == ASSUME IInv, Flow, InOrder, Unused, [Next]_vars PROVE Unused'
  <1>0. /\ UNCHANGED scenario /\ IInv' /\ faults \in Nat /\ scenario.faults \in Nat
        /\ jobs \subseteq Job /\ \A k \in Job : k.id \in Requests
    BY Steps DEF IInv, TypeOK, Scenario, Job
  <1> SUFFICES ASSUME scenario.pace = "quiet", scenario.faults = 0 PROVE UnusedParts'
    BY <1>0 DEF Unused
  <1>1. UnusedParts
    BY DEF Unused
  <1>2. ~Fault
    BY <1>0 DEF Fault
  <1>3. CASE UNCHANGED vars \/ Tick
    BY <1>1, <1>3 DEF vars, Tick, UnusedParts, Used, Exists, Ended
  \* The jobs and rooms stay, and so do the rows they are about.
  <1>4. ASSUME UNCHANGED <<rooms, jobs>>,
               \A k \in jobs : invitations'[k.id] \in {None, invitations[k.id]},
               \A r \in Requests : req'[r].pc \in {"accept", "gather"} =>
                   req[r].pc \in {"accept", "gather"} \/ \A k \in jobs : Ended(k)
        PROVE  UnusedParts'
    BY <1>1, <1>4 DEF UnusedParts, Used, Exists
  <1>5. ASSUME NEW r \in Requests, Begins(r) PROVE UnusedParts'
    <2>1. \A k \in jobs : Ended(k)
      BY <1>5 DEF Begins, MayBegin
    <2> QED BY <1>4, <1>5, <2>1 DEF Begins
  <1>6. ASSUME NEW r \in Requests, Effect(r) PROVE UnusedParts'
    <2>0. Only(r)
      BY <1>6 DEF Effect, Moves
    <2>1. CASE Inserts(r)
      <3>1. \A k \in jobs : k.id \in Requests \ {r}
        BY <1>0, <2>1 DEF Inserts, IInv, JobsOK, JobOK, Created
      <3>2. req'[r].pc \notin {"accept", "gather"} /\ UNCHANGED <<rooms, jobs>>
        BY <2>1 DEF Inserts
      <3>3. \A k \in jobs : invitations'[k.id] = invitations[k.id]
        BY <2>1, <3>1 DEF Inserts
      <3> QED BY <1>4, <2>0, <3>2, <3>3 DEF Only
    <2>2. CASE Delivers(r)
      BY <1>4, <2>0, <2>2 DEF Delivers, Only
    <2>3. CASE Deletes(r)
      <3>1. \A k \in jobs : invitations'[k.id] \in {None, invitations[k.id]}
        BY <1>0, <2>3 DEF Deletes
      <3> QED BY <1>4, <2>0, <2>3, <3>1 DEF Deletes, Only
    <2>4. CASE Goes(r)
      BY <1>4, <2>0, <2>4 DEF Goes, Only
    <2>5. CASE Starts(r)
      <3>1. PICK ids \in SUBSET Rows : /\ \A id \in ids : ~invitations[id].accessed
                                       /\ jobs' = jobs \cup {Started(r, id) : id \in ids}
        BY <2>5 DEF Starts
      <3>2. \A id \in ids : /\ Started(r, id).id = id /\ Started(r, id).stage = "room"
                            /\ Exists(id)
        BY DEF Started, Rows
      <3>3. UNCHANGED <<rooms, invitations>> /\ \A k \in jobs : Ended(k)
        BY <1>1, <2>5 DEF Starts, UnusedParts
      <3>4. \A q \in Requests : req'[q].pc \notin {"accept", "gather"}
        <4> SUFFICES ASSUME NEW q \in Requests, req'[q].pc \in {"accept", "gather"} PROVE FALSE
          OBVIOUS
        <4>1. q # r
          BY <2>5 DEF Starts
        <4>2. req[q].pc \in {"accept", "gather"}
          BY <2>0, <4>1 DEF Only
        <4> QED BY <2>5, <4>1, <4>2, OneAtATime DEF Starts
      <3>5. \A k \in jobs : k.id \notin ids
        BY <1>1, <3>1, <3>2, <3>3 DEF UnusedParts, Used, Ended
      <3>6. (\A k, l \in jobs : k.id = l.id => k = l)'
        BY <1>1, <3>1, <3>2, <3>5 DEF UnusedParts
      <3>7. (\A k \in jobs : Used(k))'
        BY <1>1, <3>1, <3>2, <3>3 DEF UnusedParts, Used, Exists
      <3>8. (\A room \in rooms : \E k \in jobs : k.stage # "room" /\ RoomOf(k) = room)'
        BY <1>1, <3>1, <3>3 DEF UnusedParts
      <3> QED BY <3>4, <3>6, <3>7, <3>8 DEF UnusedParts
    <2> QED BY <1>6, <2>1, <2>2, <2>3, <2>4, <2>5 DEF Effect
  <1>7. ASSUME NEW j \in jobs, JobEffect(j) PROVE UnusedParts'
    <2>1. PICK m \in Job : /\ m.id = j.id /\ RoomOf(m) = RoomOf(j) /\ jobs' = (jobs \ {j}) \cup {m}
                           /\ j.stage \in {"room", "direct", "update"}
                           /\ m.stage \in {"direct", "update", "done"}
                           /\ rooms' \in {rooms, rooms \cup {RoomOf(j)}}
                           /\ m.stage = "done" /\ invitations'[j.id] # None => invitations'[j.id].accessed
      BY <1>2, <1>7 DEF JobEffect
    <2>2. \A r \in Requests : req'[r].pc \notin {"accept", "gather"}
      <3>1. \A r \in Requests : req[r].pc \notin {"accept", "gather"}
        BY <1>1, <2>1 DEF UnusedParts, Ended
      <3> QED BY <1>7, <3>1 DEF JobEffect, Moves, Only
    <2>3. (\A k, l \in jobs : k.id = l.id => k = l)'
      BY <1>1, <2>1 DEF UnusedParts
    <2>4. (\A room \in rooms : \E k \in jobs : k.stage # "room" /\ RoomOf(k) = room)'
      <3> SUFFICES ASSUME NEW room \in rooms' PROVE \E k \in jobs' : k.stage # "room" /\ RoomOf(k) = room
        OBVIOUS
      <3>1. CASE room = RoomOf(j)
        BY <2>1, <3>1
      <3>2. CASE room \in rooms
        <4>1. PICK k \in jobs : k.stage # "room" /\ RoomOf(k) = room
          BY <1>1, <3>2 DEF UnusedParts
        <4> QED BY <2>1, <3>1, <4>1
      <3> QED BY <2>1, <3>1, <3>2
    <2>5. \A id \in Requests : /\ invitations'[id] # None => invitations[id] # None
                               /\ invitations[id].accessed => invitations'[id].accessed
      BY <1>7 DEF JobEffect
    <2>6. (\A k \in jobs : Used(k))'
      <3> SUFFICES ASSUME NEW k \in jobs' PROVE Used(k)'
        OBVIOUS
      <3>1. CASE k = m
        BY <2>1, <3>1 DEF Used, Exists
      <3>2. CASE k \in jobs
        <4>1. k.id \in Requests /\ Used(k)
          BY <1>0, <1>1, <3>2 DEF UnusedParts
        <4> QED BY <2>5, <4>1 DEF Used, Exists
      <3> QED BY <2>1, <3>1, <3>2
    <2> QED BY <2>2, <2>3, <2>4, <2>6 DEF UnusedParts
  <1> QED BY <1>3, <1>5, <1>6, <1>7, Steps

LEMMA UnusedInvariant == Spec => []Unused
  <1>1. Init => Unused
    BY DEF Init, Unused, UnusedParts, NoRequest
  <1>2. IInv /\ OrderInv /\ Unused /\ [Next]_vars => Unused'
    BY UnusedStep DEF OrderInv
  <1> QED BY <1>1, <1>2, Invariance, OrderInvariant, PTL DEF Spec

\* UsedOnceWhenQuiet: however many requests accept however many invitations, to the same
\* contact or not, each processed invitation has one room, if requests wait for the jobs
\* that accept left behind and no call fails.
THEOREM InvitationUsedOnce == Spec => []UsedOnceWhenQuiet
  <1>1. Unused => UsedOnceWhenQuiet
    <2> SUFFICES ASSUME Unused, scenario.pace = "quiet", scenario.faults = 0,
                        NEW s \in rooms, NEW t \in rooms, s.id = t.id
                 PROVE  s = t
      BY DEF UsedOnceWhenQuiet, UsedOnce
    <2>1. PICK j \in jobs : RoomOf(j) = s
      BY DEF Unused, UnusedParts
    <2>2. PICK k \in jobs : RoomOf(k) = t
      BY DEF Unused, UnusedParts
    <2>3. j.id = k.id
      BY <2>1, <2>2 DEF RoomOf
    <2> QED BY <2>1, <2>2, <2>3 DEF Unused, UnusedParts
  <1> QED BY <1>1, UnusedInvariant, PTL

-----------------------------------------------------------------------------
(* One valid invitation.                                                   *)

\* Who is about to insert was so before, or begins.
LEMMA Inserting ==
    ASSUME IInv, Flow, [Next]_vars, NEW r \in Requests, req'[r].pc = "insert"
    PROVE  req'[r] = req[r] \/ Begins(r)
  <1>1. ASSUME NEW q \in Requests, Effect(q) PROVE req'[r] = req[r]
    <2>1. req'[q].pc # "insert" /\ Only(q)
      BY <1>1 DEF Effect, Moves, Inserts, Delivers, Deletes, Goes, Starts
    <2> QED BY <2>1 DEF Only
  <1>2. ASSUME NEW j \in jobs, JobEffect(j) PROVE req'[r] = req[r]
    BY <1>2 DEF JobEffect, Moves, Only
  <1>3. ASSUME NEW q \in Requests, Begins(q) PROVE req'[r] = req[r] \/ Begins(r)
    BY <1>3 DEF Begins, Only
  <1> QED BY <1>1, <1>2, <1>3, Steps DEF vars, Tick

LEMMA LastingStep == ASSUME IInv, Flow, Lasting, [Next]_vars PROVE Lasting'
  <1>0. /\ now \in Nat /\ EXPIRATION \in Nat
        /\ \A id \in Requests : Exists(id) => invitations[id].expiration >= EXPIRATION
        /\ \A r \in Requests : req[r].pc = "insert" => req[r].expiration >= EXPIRATION
    BY DEF IInv, TypeOK, EXPIRATION, Lasting, Rows
  <1>1. \A r \in Requests : req'[r].pc = "insert" => req'[r].expiration >= EXPIRATION
    <2> SUFFICES ASSUME NEW r \in Requests, req'[r].pc = "insert" PROVE req'[r].expiration >= EXPIRATION
      OBVIOUS
    <2>1. CASE req'[r] = req[r]
      BY <1>0, <2>1
    <2>2. CASE Begins(r)
      <3>1. req'[r].expiration = now + EXPIRATION
        BY <2>2 DEF Begins
      <3> QED BY <1>0, <3>1
    <2> QED BY <2>1, <2>2, Inserting
  <1>2. ASSUME NEW id \in Requests, invitations'[id] # None PROVE invitations'[id].expiration >= EXPIRATION
    <2>1. CASE invitations'[id] = invitations[id]
      BY <1>0, <1>2, <2>1 DEF Exists
    <2>2. ASSUME NEW r \in Requests, Effect(r), invitations'[id] # invitations[id]
          PROVE  invitations'[id].expiration >= EXPIRATION
      <3>1. Inserts(r) /\ id = r
        BY <1>2, <2>2 DEF Effect, Inserts, Delivers, Deletes, Goes, Starts
      <3> QED BY <1>0, <3>1 DEF Inserts
    <2>3. ASSUME NEW j \in jobs, JobEffect(j) PROVE invitations'[id].expiration >= EXPIRATION
      BY <1>0, <1>2, <2>3 DEF JobEffect, Exists
    <2> QED BY <2>1, <2>2, <2>3, Steps DEF vars, Tick, Begins
  <1> QED BY <1>1, <1>2 DEF Lasting, Rows, Exists

LEMMA OnePendingStep == ASSUME IInv, OrderInv, Lasting, OnePending, [Next]_vars PROVE OnePending'
  <1>0. /\ UNCHANGED scenario /\ IInv' /\ faults \in Nat /\ Flow /\ InOrder
        /\ now \in Nat /\ now' \in Nat /\ scenario.faults \in Nat
        /\ invitations \in [Requests -> Row \cup {None}]
    BY Steps DEF IInv, TypeOK, Scenario, OrderInv
  <1>1. now' >= now
    <2>1. \A r \in Requests : Begins(r) \/ Effect(r) => now' = now
      BY DEF Begins, Effect, Inserts, Delivers, Deletes, Goes, Starts
    <2>2. \A j \in jobs : JobEffect(j) => now' = now
      BY DEF JobEffect
    <2>3. Tick => now' > now
      BY <1>0 DEF Tick
    <2> QED BY <1>0, <2>1, <2>2, <2>3, Steps DEF vars
  <1> SUFFICES ASSUME scenario.pace # "free", scenario.faults = 0, now' < EXPIRATION + ONE_HOUR
               PROVE  OnePendingParts'
    BY <1>0 DEF OnePending
  <1>2. OnePendingParts /\ now < EXPIRATION + ONE_HOUR
    BY <1>0, <1>1 DEF OnePending, EXPIRATION, ONE_HOUR
  <1>3. ~Fault
    BY <1>0 DEF Fault
  \* No row appears or is renewed.
  <1>4. ASSUME \A id \in Requests : invitations'[id] # None =>
                   /\ invitations[id] # None
                   /\ invitations'[id].sender = invitations[id].sender
                   /\ invitations'[id].recipient = invitations[id].recipient
                   /\ invitations'[id].expiration = invitations[id].expiration
                   /\ invitations'[id].accessed \/ ~invitations[id].accessed
        PROVE  \A u, c : Valid(u, c)' \subseteq Valid(u, c)
    <2> SUFFICES ASSUME NEW u, NEW c, NEW id \in Valid(u, c)' PROVE id \in Valid(u, c)
      OBVIOUS
    <2>1. /\ id \in Requests /\ invitations'[id] # None /\ invitations'[id].recipient = c
          /\ invitations'[id].sender = u /\ ~invitations'[id].accessed /\ invitations'[id].expiration > now'
      BY DEF Valid, RowsTo, Rows, Exists
    <2>2. /\ invitations[id] # None /\ invitations[id].recipient = c /\ invitations[id].sender = u
          /\ ~invitations[id].accessed /\ invitations[id].expiration > now'
      BY <1>4, <2>1
    <2>3. invitations[id].expiration \in Nat
      BY <1>0, <2>1, <2>2 DEF Row
    <2>4. invitations[id].expiration > now
      BY <1>0, <1>1, <2>2, <2>3
    <2> QED BY <2>1, <2>2, <2>4 DEF Valid, RowsTo, Rows, Exists
  <1>5. ASSUME \A u, c : Valid(u, c)' \subseteq Valid(u, c),
               \A r \in Requests : req'[r].pc = "insert" => req'[r] = req[r]
        PROVE  OnePendingParts'
    BY <1>2, <1>5 DEF OnePendingParts
  <1>6. CASE UNCHANGED vars \/ Tick
    <2>1. \A u, c : Valid(u, c)' \subseteq Valid(u, c)
      BY <1>4, <1>6 DEF vars, Tick
    <2> QED BY <1>5, <1>6, <2>1 DEF vars, Tick
  <1>7. ASSUME NEW r \in Requests, Begins(r) PROVE OnePendingParts'
    <2>1. UNCHANGED <<invitations, now>> /\ Only(r)
      BY <1>7 DEF Begins
    <2>2. \A u, c : Valid(u, c)' = Valid(u, c)
      BY <2>1 DEF Valid, RowsTo, Rows, Exists
    <2>3. ASSUME req'[r].pc = "insert", NEW u, NEW c, req'[r].user = u, req'[r].contact = c
          PROVE  Valid(u, c) = {}
      <3>1. CASE req'[r].kind = "link"
        BY <1>3, <1>7, <2>3, <3>1 DEF Begins
      <3>2. CASE req'[r].kind = "invite"
        <4>1. ASSUME NEW id \in RowsTo(c), ~TooSoon(invitations[id]) PROVE FALSE
          <5>1. id \in Rows /\ invitations[id].expiration \in Nat
            BY <1>0, <4>1 DEF RowsTo, Rows, Exists, Row
          <5>2. invitations[id].expiration >= EXPIRATION
            BY <5>1 DEF Lasting
          <5>3. ~(now - invitations[id].expiration < ONE_HOUR)
            BY <4>1 DEF TooSoon
          <5> QED BY <1>0, <1>2, <5>1, <5>2, <5>3 DEF EXPIRATION, ONE_HOUR
        <4>2. RowsTo(c) = {}
          BY <1>7, <2>3, <3>2, <4>1 DEF Begins
        <4> QED BY <4>2 DEF Valid
      <3> QED BY <1>7, <2>3, <3>1, <3>2 DEF Begins, FlowOK
    <2> QED BY <1>2, <2>1, <2>2, <2>3 DEF OnePendingParts, Only
  <1>8. ASSUME NEW r \in Requests, Effect(r) PROVE OnePendingParts'
    <2>0. Only(r) /\ req'[r].pc # "insert"
      BY <1>8 DEF Effect, Moves, Inserts, Delivers, Deletes, Goes, Starts
    <2>1. CASE Inserts(r)
      <3>1. \A q \in Requests : req'[q].pc # "insert"
        <4> SUFFICES ASSUME NEW q \in Requests, req'[q].pc = "insert" PROVE FALSE
          OBVIOUS
        <4>1. q # r /\ req[q].pc = "insert"
          BY <2>0 DEF Only
        <4> QED BY <1>0, <2>1, <4>1, OneAtATime DEF Inserts
      <3>2. ASSUME NEW u \in Users, NEW c \in Contacts \cup {NoContact},
                   NEW i \in Valid(u, c)', NEW k \in Valid(u, c)', i # r
            PROVE  i \in Valid(u, c) /\ i = k
        <4>1. now' = now /\ \A id \in Requests \ {r} : invitations'[id] = invitations[id]
          BY <2>1 DEF Inserts
        <4>2. i \in Valid(u, c)
          BY <3>2, <4>1 DEF Valid, RowsTo, Rows, Exists
        <4>3. CASE k = r
          <5>1. req[r].user = u /\ req[r].contact = c /\ req[r].pc = "insert"
            BY <2>1, <4>3 DEF Inserts, Valid, RowsTo, Rows
          <5> QED BY <1>2, <4>2, <5>1 DEF OnePendingParts
        <4>4. CASE k # r
          <5>1. k \in Valid(u, c)
            BY <4>1, <4>4 DEF Valid, RowsTo, Rows, Exists
          <5> QED BY <1>2, <4>2, <5>1 DEF OnePendingParts
        <4> QED BY <4>2, <4>3, <4>4
      <3>3. ASSUME NEW u \in Users, NEW c \in Contacts \cup {NoContact},
                   NEW i \in Valid(u, c)', NEW k \in Valid(u, c)'
            PROVE  i = k
        BY <3>2, <3>3
      <3> QED BY <3>1, <3>3 DEF OnePendingParts
    <2>2. CASE ~Inserts(r)
      <3>1. \A id \in Requests : invitations'[id] \in {None, invitations[id]}
        BY <1>8, <2>2 DEF Effect, Delivers, Deletes, Goes, Starts
      <3>2. \A u, c : Valid(u, c)' \subseteq Valid(u, c)
        BY <1>4, <3>1
      <3> QED BY <1>5, <2>0, <3>2 DEF Only
    <2> QED BY <2>1, <2>2
  <1>9. ASSUME NEW j \in jobs, JobEffect(j) PROVE OnePendingParts'
    <2>1. \A u, c : Valid(u, c)' \subseteq Valid(u, c)
      BY <1>4, <1>9 DEF JobEffect
    <2>2. \A r \in Requests : req'[r].pc = "insert" => req'[r] = req[r]
      BY <1>9 DEF JobEffect, Moves, Only
    <2> QED BY <1>5, <2>1, <2>2
  <1> QED BY <1>6, <1>7, <1>8, <1>9, <1>0, Steps

LEMMA PendingInvariant == Spec => [](Lasting /\ OnePending)
  <1>1. Init => Lasting /\ OnePending
    <2> SUFFICES ASSUME Init PROVE Lasting /\ OnePending
      OBVIOUS
    <2>1. Rows = {} /\ \A r \in Requests : req[r].pc = "idle"
      BY DEF Init, Rows, Exists, NoRequest
    <2> QED BY <2>1 DEF Lasting, OnePending, OnePendingParts, Valid, RowsTo
  <1>2. IInv /\ OrderInv /\ Lasting /\ OnePending /\ [Next]_vars => (Lasting /\ OnePending)'
    BY LastingStep, OnePendingStep DEF OrderInv
  <1> QED BY <1>1, <1>2, Invariance, OrderInvariant, PTL DEF Spec

\* OnePendingWhenSerial: the look-up of generateLink and the limit of rateLimitInvitations
\* together leave a user one valid invitation for a contact, for any requests that do not
\* overlap, until a row is old enough to pass the limit.
THEOREM OneValidInvitation == Spec => []OnePendingWhenSerial
  <1>1. OnePending => OnePendingWhenSerial
    BY DEF OnePending, OnePendingParts, OnePendingWhenSerial
  <1> QED BY <1>1, PendingInvariant, PTL

-----------------------------------------------------------------------------
(* The rate limit.                                                         *)

\* Rows that stay keep messages apart.
LEMMA SpacedStays ==
    ASSUME NEW k, NEW contact, NEW expiration, Spaced(k, contact, expiration),
           \A i \in mailed' : i < k =>
               i \in mailed /\ invitations'[i].recipient = invitations[i].recipient,
           \A i \in Rows : i < k => /\ invitations'[i] # None
                                    /\ invitations'[i].recipient = invitations[i].recipient
                                    /\ invitations'[i].expiration = invitations[i].expiration
    PROVE  Spaced(k, contact, expiration)'
  BY DEF Spaced, RowsTo, Rows, Exists

LEMMA LimitedStep == ASSUME IInv, OrderInv, Limited, [Next]_vars PROVE Limited'
  <1>0. /\ UNCHANGED scenario /\ IInv' /\ Flow /\ Flow' /\ InOrder
        /\ now \in Nat /\ mailed \subseteq Requests /\ Requests \subseteq Nat
        /\ scenario.requests \subseteq Requests
        /\ invitations \in [Requests -> Row \cup {None}]
    BY Steps, FlowStep, InvitationsAssumption DEF IInv, TypeOK, Scenario, OrderInv
  <1> SUFFICES ASSUME scenario.pace # "free", NoRemovals PROVE LimitedParts'
    BY <1>0 DEF Limited, NoRemovals
  <1>1. /\ LimitedParts
        /\ \A r \in Requests : r \in mailed \/ req[r].pc = "send" => invitations[r] # None
    BY DEF Limited, LimitedParts, Exists
  \* Nobody sends to whom the request did not send before, and rows stay.
  <1>2. ASSUME mailed' = mailed,
               \A r \in Requests : req'[r] = req[r] \/ req'[r].pc \notin {"insert", "send"},
               \A r \in mailed : req'[r].pc = "done",
               \A i \in Requests : invitations[i] # None =>
                    \/ /\ invitations'[i] # None
                       /\ invitations'[i].recipient = invitations[i].recipient
                       /\ invitations'[i].expiration = invitations[i].expiration
                    \/ req[i].pc = "undo" /\ i \notin mailed
        PROVE  LimitedParts'
    <2>1. ASSUME NEW r \in Requests, req'[r].pc \in {"insert", "send"} \/ r \in mailed
          PROVE  /\ req[r].pc \in {"insert", "send", "done"}
                 /\ \A i \in Rows : i < r => req[i].pc = "done"
      <3>1. req[r].pc \in {"insert", "send", "done"}
        BY <1>1, <1>2, <2>1 DEF LimitedParts
      <3>2. \A i \in Rows : i \in scenario.requests
        BY <1>0 DEF Rows, Flow, IInv, RowsOK, Created
      <3> QED BY <1>0, <3>1, <3>2 DEF InOrder
    <2>2. ASSUME NEW r \in Requests, NEW contact, NEW expiration, Sends(r, contact, expiration)'
          PROVE  Spaced(r, contact, expiration)'
      <3>1. req'[r].pc \in {"insert", "send"} \/ r \in mailed
        BY <1>2, <2>2 DEF Sends
      <3>2. /\ req[r].pc \in {"insert", "send", "done"}
            /\ \A i \in Rows : i < r => req[i].pc = "done"
        BY <2>1, <3>1
      <3>3. Sends(r, contact, expiration)
        BY <1>1, <1>2, <2>2, <3>2 DEF Sends
      <3>4. Spaced(r, contact, expiration)
        BY <1>1, <3>3 DEF LimitedParts
      <3>5. \A i \in Rows : i < r => /\ invitations'[i] # None
                                     /\ invitations'[i].recipient = invitations[i].recipient
                                     /\ invitations'[i].expiration = invitations[i].expiration
        BY <1>2, <3>2 DEF Rows, Exists
      <3>6. \A i \in mailed' : i < r =>
               i \in mailed /\ invitations'[i].recipient = invitations[i].recipient
        BY <1>0, <1>1, <1>2, <3>5 DEF Rows, Exists
      <3> QED BY <3>4, <3>5, <3>6, SpacedStays
    <2>3. \A r \in Requests : req'[r].pc = "send" \/ r \in mailed' => invitations'[r] # None
      BY <1>1, <1>2
    <2> QED BY <1>2, <2>2, <2>3 DEF LimitedParts, Exists
  <1>3. CASE UNCHANGED vars \/ Tick
    BY <1>1, <1>2, <1>3 DEF vars, Tick, LimitedParts
  \* Messages are sent by requests that are answered when the next begins.
  <1>4. ASSUME NEW r \in Requests, NEW q \in Requests, NEW contact, NEW expiration,
               Sends(q, contact, expiration), req[r].pc \notin {"idle", "done"}, q # r
        PROVE  q < r /\ q \in mailed
    <2>1. req[q].pc # "idle" /\ r \in scenario.requests /\ q \in scenario.requests
      BY <1>0, <1>1, <1>4 DEF Sends, Flow, LimitedParts
    <2>2. ~(r < q)
      BY <1>0, <1>4, <2>1 DEF InOrder
    <2>3. req[q].pc \notin {"insert", "send"}
      BY <1>0, <1>4, OneAtATime
    <2> QED BY <1>0, <1>4, <2>2, <2>3 DEF Sends
  <1>5. ASSUME NEW r \in Requests, Begins(r) PROVE LimitedParts'
    <2>1. UNCHANGED <<invitations, mailed>> /\ Only(r) /\ req[r].pc = "idle" /\ r \notin mailed
          /\ req'[r].pc # "send" /\ r \in scenario.requests
      BY <1>1, <1>5 DEF Begins, MayBegin, At, LimitedParts
    <2>2. CASE ~(req'[r].pc = "insert" /\ req'[r].kind = "invite")
      <3>1. ASSUME NEW q \in Requests, NEW contact, NEW expiration, Sends(q, contact, expiration)'
            PROVE  Spaced(q, contact, expiration)'
        <4>1. Sends(q, contact, expiration)
          BY <2>1, <2>2, <3>1 DEF Sends, Only
        <4> QED BY <1>1, <2>1, <4>1 DEF LimitedParts, Spaced, RowsTo, Rows, Exists
      <3> QED BY <1>0, <1>1, <2>1, <3>1 DEF LimitedParts, Only, Exists
    <2>3. CASE req'[r].pc = "insert" /\ req'[r].kind = "invite"
      <3>1. Spaced(r, req'[r].contact, req'[r].expiration)
        <4>0. PICK c, e : c = req'[r].contact /\ e = req'[r].expiration
          OBVIOUS
        <4>1. CASE RowsTo(c) = {}
          <5>1. \A i \in mailed : invitations[i].recipient # c
            BY <1>0, <1>1, <4>1 DEF RowsTo, Rows, Exists
          <5> QED BY <4>0, <5>1 DEF Spaced
        <4>2. ASSUME NEW id \in RowsTo(c), ~TooSoon(invitations[id])
              PROVE  Spaced(r, c, e)
          <5>1. id \in Requests /\ invitations[id] # None /\ invitations[id].expiration \in Nat
            BY <1>0, <4>2 DEF RowsTo, Rows, Exists, Row
          <5>2. req[id].pc # "idle" /\ id \in scenario.requests
            BY <5>1, <1>0 DEF IInv, RowsOK, Exists, Created, Flow
          <5>3. id < r
            BY <1>0, <2>1, <5>1, <5>2 DEF InOrder
          <5>4. e = now + EXPIRATION /\ EXPIRATION \in Nat
            BY <1>5, <2>3, <4>0 DEF Begins, EXPIRATION
          <5>5. ~(now - invitations[id].expiration < ONE_HOUR) /\ ONE_HOUR \in Nat
            BY <4>2 DEF TooSoon, ONE_HOUR
          <5>6. e - EXPIRATION - invitations[id].expiration >= ONE_HOUR
            BY <1>0, <5>1, <5>4, <5>5
          <5> QED BY <4>2, <5>3, <5>6 DEF Spaced
        <4> QED BY <1>5, <2>3, <4>0, <4>1, <4>2 DEF Begins
      <3>2. ASSUME NEW q \in Requests, NEW contact, NEW expiration, Sends(q, contact, expiration)'
            PROVE  Spaced(q, contact, expiration)'
        <4>1. Spaced(q, contact, expiration)
          <5>1. CASE q = r
            <6>1. contact = req'[r].contact /\ expiration = req'[r].expiration
              BY <2>1, <2>3, <3>2, <5>1 DEF Sends
            <6> QED BY <3>1, <5>1, <6>1
          <5>2. CASE q # r
            <6>1. Sends(q, contact, expiration)
              BY <2>1, <3>2, <5>2 DEF Sends, Only
            <6> QED BY <1>1, <6>1 DEF LimitedParts
          <5> QED BY <5>1, <5>2
        <4> QED BY <2>1, <4>1 DEF Spaced, RowsTo, Rows, Exists
      <3> QED BY <1>0, <1>1, <2>1, <3>2 DEF LimitedParts, Only, Exists
    <2> QED BY <2>2, <2>3
  <1>6. ASSUME NEW r \in Requests, Effect(r) PROVE LimitedParts'
    <2>0. /\ Only(r) /\ req'[r].pc # "insert" /\ req[r].pc \notin {"idle", "done"}
          /\ r \notin mailed
      BY <1>1, <1>6 DEF Effect, Moves, Inserts, Delivers, Deletes, Goes, Starts, LimitedParts
    <2>1. CASE Inserts(r)
      <3>0. invitations[r] = None
        BY <2>1 DEF Inserts, IInv, RowsOK, Exists, Created
      <3>1. ASSUME NEW q \in Requests, NEW contact, NEW expiration, Sends(q, contact, expiration)'
            PROVE  Spaced(q, contact, expiration)'
        <4>1. Sends(q, contact, expiration)
          BY <2>0, <2>1, <3>1 DEF Sends, Inserts, Only
        <4>2. Spaced(q, contact, expiration)
          BY <1>1, <4>1 DEF LimitedParts
        <4>3. mailed' = mailed /\ \A i \in Requests : invitations[i] # None => invitations'[i] = invitations[i]
          BY <2>1, <3>0 DEF Inserts
        <4> QED BY <1>0, <1>1, <4>2, <4>3, SpacedStays DEF Rows, Exists
      <3>2. \A q \in Requests : req'[q].pc = "send" \/ q \in mailed' => invitations'[q] # None
        BY <1>1, <2>0, <2>1 DEF Inserts, Only
      <3>3. \A q \in mailed' : req'[q].pc = "done"
        BY <1>0, <1>1, <2>0, <2>1 DEF Inserts, Only, LimitedParts
      <3> QED BY <3>1, <3>2, <3>3 DEF LimitedParts, Exists
    <2>2. CASE Delivers(r)
      <3>1. ASSUME NEW q \in Requests, NEW contact, NEW expiration, Sends(q, contact, expiration)'
            PROVE  Spaced(q, contact, expiration)'
        <4>1. Sends(q, contact, expiration)
          BY <2>0, <2>2, <3>1 DEF Sends, Delivers, Only
        <4>2. Spaced(q, contact, expiration)
          BY <1>1, <4>1 DEF LimitedParts
        <4>3. ~(r < q)
          BY <1>0, <1>4, <2>0, <4>1
        <4> QED BY <1>0, <2>2, <4>2, <4>3, SpacedStays DEF Delivers, Rows, Exists
      <3>2. \A q \in Requests : req'[q].pc = "send" \/ q \in mailed' => invitations'[q] # None
        BY <1>1, <2>0, <2>2 DEF Delivers, Only
      <3>3. \A q \in mailed' : req'[q].pc = "done"
        BY <1>0, <1>1, <2>0, <2>2 DEF Delivers, Only, LimitedParts
      <3> QED BY <3>1, <3>2, <3>3 DEF LimitedParts, Exists
    <2>3. CASE Deletes(r)
      <3>1. req[r].pc = "undo"
        BY <1>0, <2>3 DEF Deletes, Flow, NoRemovals
      <3>2. \A i \in Requests \ {r} : invitations'[i] = invitations[i]
        BY <2>3, <3>1 DEF Deletes
      <3> QED BY <1>0, <1>1, <1>2, <2>0, <2>3, <3>1, <3>2 DEF Deletes, Only, LimitedParts
    <2>4. CASE Goes(r) \/ Starts(r)
      <3>1. UNCHANGED <<invitations, mailed>> /\ req'[r].pc \notin {"insert", "send"}
        BY <2>4 DEF Goes, Starts
      <3> QED BY <1>0, <1>1, <1>2, <2>0, <3>1 DEF Only, LimitedParts
    <2> QED BY <1>6, <2>1, <2>2, <2>3, <2>4 DEF Effect
  <1>7. ASSUME NEW j \in jobs, JobEffect(j) PROVE LimitedParts'
    <2>1. \A r \in Requests : req'[r] = req[r] \/ (req[r].pc = "await" /\ req'[r].pc = "done")
      BY <1>7 DEF JobEffect, Moves, Only
    <2>2. \A i \in Requests : invitations[i] # None =>
                       /\ invitations'[i] # None
                       /\ invitations'[i].recipient = invitations[i].recipient
                       /\ invitations'[i].expiration = invitations[i].expiration
      BY <1>7 DEF JobEffect
    <2>3. mailed' = mailed
      BY <1>7 DEF JobEffect
    <2> QED BY <1>0, <1>1, <1>2, <2>1, <2>2, <2>3 DEF LimitedParts
  <1> QED BY <1>0, <1>3, <1>5, <1>6, <1>7, Steps

LEMMA LimitedInvariant == Spec => []Limited
  <1>1. Init => Limited
    BY DEF Init, Limited, LimitedParts, Sends, NoRequest
  <1>2. IInv /\ OrderInv /\ Limited /\ [Next]_vars => Limited'
    BY LimitedStep
  <1> QED BY <1>1, <1>2, Invariance, OrderInvariant, PTL DEF Spec

\* RateLimited: for any number of senders, contacts and instants and any failures, two messages
\* to a contact are a day and an hour apart, unless the row rateLimitInvitations looked at was
\* that old.
THEOREM MessagesAreSpaced == Spec => []RateLimited
  <1>1. IInv /\ Limited => RateLimited
    <2> SUFFICES ASSUME IInv, Limited, scenario.pace # "free", NoRemovals,
                        NEW i \in mailed, NEW k \in mailed, i < k,
                        invitations[i].recipient = invitations[k].recipient
                 PROVE  \E old \in RowsTo(invitations[k].recipient) :
                           /\ old < k
                           /\ invitations[k].expiration - EXPIRATION - invitations[old].expiration >= ONE_HOUR
      BY DEF RateLimited, NoRemovals
    <2>1. PICK c, e : c = invitations[k].recipient /\ e = invitations[k].expiration
      OBVIOUS
    <2>2. k \in Requests /\ Sends(k, c, e)
      BY <2>1 DEF Sends, IInv, TypeOK
    <2>3. Spaced(k, c, e)
      BY <2>2 DEF Limited, LimitedParts
    <2> QED BY <2>1, <2>3 DEF Spaced
  <1> QED BY <1>1, Invariance, LimitedInvariant, PTL

=============================================================================

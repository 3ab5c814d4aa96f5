---------------------------- MODULE Invitations ----------------------------
(***************************************************************************)
(* The invitation API of the ToM server                                    *)
(* (chat_app/packages/tom-server/src/invitation-api): a user invites an    *)
(* address by mail or SMS, or asks for a link to pass on; who opens the    *)
(* link accepts the invitation, which creates a direct room with its       *)
(* sender.  Routes, middlewares, controllers and the service, over the SQL *)
(* table invitations, the homeserver and the mail and SMS gateways.        *)
(*                                                                         *)
(* Requests interleave at every query and call.  Accepting an invitation   *)
(* sent to an address accepts every pending invitation to that address,    *)
(* each in a job nobody waits for.  Time is counted in hours and moves     *)
(* between a few instants.  The medium is a property of the contact.       *)
(***************************************************************************)
EXTENDS Integers, FiniteSets

CONSTANTS
    Requests,   \* bound: requests made, numbered in the order they begin
    Users,
    Contacts,   \* addresses and phone numbers that pass validation
    Malformed,  \* a contact that does not
    NoContact,  \* the contact of a link that was asked for without one
    None,
    Scenarios   \* the loads considered

Kind == {"invite", "link", "accept", "remove", "status", "list"}

\* A request that may be made: who asks for what, about which contact.
Ask == [kind : Kind, user : Users, contact : Contacts \cup {Malformed, NoContact}]

\* menu: what may be asked.  pace: a request begins when the ones before are
\* answered ("serial"), when also the jobs they left behind have ended
\* ("quiet"), or at any time ("free").  faults bounds the failing calls;
\* instants are the times at which things happen; enabled is the setting
\* twake_chat.enable_invitations.
Scenario == [menu : SUBSET Ask, requests : SUBSET Requests,
             pace : {"quiet", "serial", "free"}, faults : Nat,
             instants : SUBSET Nat, enabled : BOOLEAN]

\* An invitation; its id is the number of the request that created it.
Row == [sender : Users, recipient : Contacts \cup {NoContact},
        expiration : Nat, accessed : BOOLEAN, matrix_id : Users \cup {None}]

ASSUME InvitationsAssumption ==
    /\ Requests \subseteq Nat
    /\ Scenarios \subseteq Scenario
    /\ None \notin Row \cup Users \cup Nat \cup Contacts \cup {NoContact}
    /\ Malformed \notin Contacts /\ NoContact \notin Contacts

\* In hours.
EXPIRATION == 24
ONE_HOUR == 1

VARIABLES
    invitations, \* the table: for every id its row, or None
    mailed,      \* ids of the invitations the gateways delivered
    rooms,       \* rooms created on the homeserver
    direct,      \* the m.direct account data of every user
    jobs,        \* invitations being processed, and those that were
    req,         \* the requests
    now,
    faults,
    scenario     \* never changed

vars == <<invitations, mailed, rooms, direct, jobs, req, now, faults, scenario>>

\* A room that `by' created and invited `with' to, processing invitation id
\* for the request.
Room == [by : Users, with : Users, id : Requests, request : Requests]

Job == [by : Users, sender : Users, id : Requests, request : Requests,
        stage : {"room", "direct", "update", "done", "failed"}]

Status == {200, 400, 403, 404, 500}

\* id is the invitation asked about, or the one a link was answered with;
\* expiration and recipient are local variables of the handler.
Request ==
    [kind : Kind \cup {None}, user : Users \cup {None},
     contact : Contacts \cup {Malformed, NoContact, None},
     pc : {"idle", "insert", "send", "undo", "accept", "gather", "await", "act", "done"},
     id : Requests \cup {None}, expiration : Nat \cup {None},
     status : Status \cup {None}]

NoRequest == [kind |-> None, user |-> None, contact |-> None, pc |-> "idle",
              id |-> None, expiration |-> None, status |-> None]

\* Every variable has its type; no contact that fails validation reaches the
\* table.
TypeOK ==
    /\ invitations \in [Requests -> Row \cup {None}]
    /\ mailed \subseteq Requests
    /\ rooms \subseteq Room
    /\ direct \in [Users -> SUBSET (Users \X Room)]
    /\ jobs \subseteq Job
    /\ req \in [Requests -> Request]
    /\ now \in Nat /\ faults \in Nat
    /\ scenario \in Scenario

Init ==
    /\ invitations = [id \in Requests |-> None]
    /\ mailed = {} /\ rooms = {} /\ jobs = {}
    /\ direct = [u \in Users |-> {}]
    /\ req = [r \in Requests |-> NoRequest]
    /\ now = 0 /\ faults = 0
    /\ scenario \in Scenarios

-----------------------------------------------------------------------------
At(r, pc) == req[r].pc = pc

Goto(r, pc) == req' = [req EXCEPT ![r].pc = pc]

Answered(q, status) == [q EXCEPT !.pc = "done", !.status = status]

Answer(r, status) == req' = [req EXCEPT ![r] = Answered(@, status)]

Ended(j) == j.stage \in {"done", "failed"}

\* A query or call fails.
Fault == faults < scenario.faults /\ faults' = faults + 1

NoFault == UNCHANGED faults

Exists(id) == invitations[id] # None

Expired(row) == row.expiration < now

Rows == {id \in Requests : Exists(id)}

RowsTo(contact) == {id \in Rows : invitations[id].recipient = contact}

-----------------------------------------------------------------------------
(***************************************************************************)
(* Requests, and the checks made before any query.                         *)
(***************************************************************************)

MayBegin(r) ==
    /\ At(r, "idle") /\ r \in scenario.requests
    /\ \A q \in scenario.requests : q < r =>
        /\ ~At(q, "idle")
        /\ scenario.pace # "free" => At(q, "done")
    /\ scenario.pace = "quiet" => \A j \in jobs : Ended(j)

\* checkFeatureEnabled, then checkInvitationPayload; a link may be asked for
\* without a contact.
Refused(a) ==
    \/ ~scenario.enabled
    \/ a.kind = "invite" /\ a.contact \notin Contacts
    \/ a.kind = "link" /\ a.contact = Malformed

\* The request of a, about invitation id, with the handler at pc.
Begun(a, id, pc) == [kind |-> a.kind, user |-> a.user, contact |-> a.contact, pc |-> pc,
                     id |-> id, expiration |-> None, status |-> None]

Replied(a, id, status) == Answered(Begun(a, id, "done"), status)

Refuse(r, a) ==
    /\ MayBegin(r) /\ Refused(a)
    /\ req' = [req EXCEPT ![r] = Replied(a, None, 400)]
    /\ UNCHANGED <<invitations, mailed, rooms, direct, jobs, now, faults>>

\* The ids of invitations that were handed out, still there or not.
Tokens(r) == {q \in Requests : q < r /\ req[q].kind \in {"invite", "link"} /\ ~At(q, "insert")}

-----------------------------------------------------------------------------
(***************************************************************************)
(* Sending an invitation.                                                  *)
(***************************************************************************)

\* The handler goes on to create its invitation; the time is read here.
GoCreate(r, a) ==
    req' = [req EXCEPT ![r] = [Begun(a, None, "insert") EXCEPT !.expiration = now + EXPIRATION]]

\* Mutant: the limit ends with the expiration, not an hour after it.
TooSoonUntilExpiry(row) == now < row.expiration

\* The limit of rateLimitInvitations, for the row it looks at.
TooSoon(row) == now - row.expiration < ONE_HOUR

\* rateLimitInvitations looks at the last row to the contact, whoever sent
\* it, of a query that sets no order.
RateLimitInvitations(r, a) ==
    /\ MayBegin(r) /\ ~Refused(a) /\ a.kind = "invite"
    /\ \/ NoFault /\ RowsTo(a.contact) = {} /\ GoCreate(r, a)
       \/ /\ NoFault
          /\ \E id \in RowsTo(a.contact) :
                IF TooSoon(invitations[id])
                THEN req' = [req EXCEPT ![r] = Replied(a, None, 400)]
                ELSE GoCreate(r, a)
       \/ Fault /\ req' = [req EXCEPT ![r] = Replied(a, None, 400)]
    /\ UNCHANGED <<invitations, mailed, rooms, direct, jobs, now>>

\* The insert of _createInvitation, for invite and for generateLink.
CreateInvitation(r) ==
    /\ At(r, "insert")
    /\ invitations' = [invitations EXCEPT ![r] =
            [sender |-> req[r].user, recipient |-> req[r].contact,
             expiration |-> req[r].expiration, accessed |-> FALSE, matrix_id |-> None]]
    /\ req' = [req EXCEPT ![r] =
            LET q == [@ EXCEPT !.pc = "send", !.id = r, !.expiration = None]
            IN  IF q.kind = "invite" THEN q ELSE Answered(q, 200)]
    /\ UNCHANGED <<mailed, rooms, direct, jobs, now, faults>>

CreateInvitationFails(r) ==
    /\ At(r, "insert") /\ Fault
    /\ Answer(r, 500)
    /\ UNCHANGED <<invitations, mailed, rooms, direct, jobs, now>>

\* _deliverInvitation; a failure to resolve the sender's name is swallowed.
DeliverInvitation(r) ==
    /\ At(r, "send")
    /\ mailed' = mailed \cup {r}
    /\ Answer(r, 200)
    /\ UNCHANGED <<invitations, rooms, direct, jobs, now, faults>>

\* Mutant: the invitation is kept.
KeepUndelivered(r) ==
    /\ At(r, "send") /\ Fault
    /\ Answer(r, 500)
    /\ UNCHANGED <<invitations, mailed, rooms, direct, jobs, now>>

DeliverInvitationFails(r) ==
    /\ At(r, "send") /\ Fault
    /\ Goto(r, "undo")
    /\ UNCHANGED <<invitations, mailed, rooms, direct, jobs, now>>

\* _removeInvitation swallows its failure.
UndoInvitation(r) ==
    /\ At(r, "undo")
    /\ \/ NoFault /\ invitations' = [invitations EXCEPT ![r] = None]
       \/ Fault /\ UNCHANGED invitations
    /\ Answer(r, 500)
    /\ UNCHANGED <<mailed, rooms, direct, jobs, now>>

-----------------------------------------------------------------------------
(***************************************************************************)
(* Links.                                                                  *)
(***************************************************************************)

\* The sender's pending invitations to the contact that have not expired.
Valid(sender, contact) ==
    {id \in RowsTo(contact) : /\ invitations[id].sender = sender
                              /\ ~invitations[id].accessed
                              /\ invitations[id].expiration > now}

\* ... of which _getPreviouslyGeneratedInviteToAddress takes the one that
\* expires last.
Newest(ids) ==
    {id \in ids : \A other \in ids : invitations[other].expiration <= invitations[id].expiration}

\* Mutant: only an invitation made in the same hour is reused.
ReuseOnlyFresh(r, a) ==
    LET valid == {id \in Valid(a.user, a.contact) :
                    invitations[id].expiration - now > EXPIRATION - ONE_HOUR}
    IN  /\ MayBegin(r) /\ ~Refused(a) /\ a.kind = "link"
        /\ NoFault
        /\ \/ \E id \in valid : req' = [req EXCEPT ![r] = Replied(a, id, 200)]
           \/ valid = {} /\ GoCreate(r, a)
        /\ UNCHANGED <<invitations, mailed, rooms, direct, jobs, now>>

\* A valid invitation is reused; a failed query counts as none.
GenerateLink(r, a) ==
    LET valid == Valid(a.user, a.contact)
    IN  /\ MayBegin(r) /\ ~Refused(a) /\ a.kind = "link"
        /\ \/ /\ NoFault
              /\ \E id \in Newest(valid) : req' = [req EXCEPT ![r] = Replied(a, id, 200)]
           \/ NoFault /\ valid = {} /\ GoCreate(r, a)
           \/ Fault /\ GoCreate(r, a)
        /\ UNCHANGED <<invitations, mailed, rooms, direct, jobs, now>>

-----------------------------------------------------------------------------
(***************************************************************************)
(* Accepting.                                                              *)
(***************************************************************************)

\* checkInvitation.
CheckInvitation(r, a, id) ==
    /\ MayBegin(r) /\ ~Refused(a) /\ a.kind = "accept"
    /\ \/ NoFault /\ ~Exists(id) /\ req' = [req EXCEPT ![r] = Replied(a, id, 404)]
       \/ /\ NoFault /\ Exists(id)
          /\ req' = [req EXCEPT ![r] =
                IF invitations[id].sender = a.user \/ Expired(invitations[id])
                THEN Replied(a, id, 400)
                ELSE Begun(a, id, "accept")]
       \/ Fault /\ req' = [req EXCEPT ![r] = Replied(a, id, 400)]
    /\ UNCHANGED <<invitations, mailed, rooms, direct, jobs, now>>

\* _processInvitation up to its first call.
Started(r, id) == [by |-> req[r].user, sender |-> invitations[id].sender, id |-> id,
                   request |-> r, stage |-> "room"]

\* The service reads the invitation again.  One with a recipient stands for
\* all those to its address; the other is processed before the answer.
Accept(r) ==
    LET id == req[r].id
        usable == Exists(id) /\ ~Expired(invitations[id]) /\ ~invitations[id].accessed
    IN  /\ At(r, "accept")
        /\ \/ ~usable /\ NoFault /\ Answer(r, 500) /\ UNCHANGED jobs
           \/ /\ usable /\ NoFault /\ invitations[id].recipient # NoContact
              /\ req' = [req EXCEPT ![r] =
                            [@ EXCEPT !.pc = "gather", !.contact = invitations[id].recipient]]
              /\ UNCHANGED jobs
           \/ /\ usable /\ NoFault /\ invitations[id].recipient = NoContact
              /\ Goto(r, "await")
              /\ jobs' = jobs \cup {Started(r, id)}
           \/ Fault /\ Answer(r, 500) /\ UNCHANGED jobs
        /\ UNCHANGED <<invitations, mailed, rooms, direct, now>>

\* Mutant: invitations that were accepted are processed again.
AllTo(contact) == RowsTo(contact)

\* _listPendingInvitationToAddress.
Pending(contact) == {id \in RowsTo(contact) : ~invitations[id].accessed}

\* _processInvitationsToAddress does not await the jobs it starts; a job that
\* finds its invitation expired ends at once.
ProcessInvitationsToAddress(r) ==
    /\ At(r, "gather")
    /\ \/ /\ NoFault
          /\ jobs' = jobs \cup {Started(r, id) : id \in
                        {i \in Pending(req[r].contact) : ~Expired(invitations[i])}}
          /\ Answer(r, 200)
       \/ Fault /\ Answer(r, 500) /\ UNCHANGED jobs
    /\ UNCHANGED <<invitations, mailed, rooms, direct, now>>

\* The job moves on.
Advance(j, stage) == jobs' = (jobs \ {j}) \cup {[j EXCEPT !.stage = stage]}

\* The request that waits for the job is answered, whatever the outcome.
AnswerWaiting(j) ==
    IF At(j.request, "await") THEN Answer(j.request, 200) ELSE UNCHANGED req

RoomOf(j) == [by |-> j.by, with |-> j.sender, id |-> j.id, request |-> j.request]

\* A job's call fails: the error is logged and the job is over.
JobFails(j) ==
    /\ ~Ended(j) /\ Fault
    /\ Advance(j, "failed") /\ AnswerWaiting(j)
    /\ UNCHANGED <<invitations, mailed, rooms, direct, now>>

\* Mutant: a failed creation is not noticed.
CreateUnnoticed(j) ==
    /\ j.stage = "room"
    /\ \/ rooms' = rooms \cup {RoomOf(j)} /\ NoFault
       \/ Fault /\ UNCHANGED rooms
    /\ Advance(j, "direct")
    /\ UNCHANGED <<invitations, mailed, direct, req, now>>

CreatePrivateChat(j) ==
    /\ j.stage = "room"
    /\ rooms' = rooms \cup {RoomOf(j)}
    /\ Advance(j, "direct")
    /\ UNCHANGED <<invitations, mailed, direct, req, now, faults>>

\* The PUT replaces all the direct rooms the user had.
MarkPrivateChatAsDirectMessage(j) ==
    /\ j.stage = "direct"
    /\ direct' = [direct EXCEPT ![j.by] = {<<j.sender, RoomOf(j)>>}]
    /\ Advance(j, "update")
    /\ UNCHANGED <<invitations, mailed, rooms, req, now, faults>>

\* Mutant: the row is left as it was.
ForgetUpdate(j) ==
    /\ j.stage = "update"
    /\ Advance(j, "done") /\ AnswerWaiting(j)
    /\ UNCHANGED <<invitations, mailed, rooms, direct, now, faults>>

\* The update changes nothing when the row was removed meanwhile.
UpdateInvitation(j) ==
    /\ j.stage = "update"
    /\ invitations' = IF Exists(j.id)
                      THEN [invitations EXCEPT ![j.id].accessed = TRUE, ![j.id].matrix_id = j.by]
                      ELSE invitations
    /\ Advance(j, "done") /\ AnswerWaiting(j)
    /\ UNCHANGED <<mailed, rooms, direct, now, faults>>

-----------------------------------------------------------------------------
(***************************************************************************)
(* Removing and reading.                                                   *)
(***************************************************************************)

\* checkInvitationOwnership, before the removal and the status.
CheckInvitationOwnership(r, a, id) ==
    /\ MayBegin(r) /\ ~Refused(a) /\ a.kind \in {"remove", "status"}
    /\ \/ NoFault /\ ~Exists(id) /\ req' = [req EXCEPT ![r] = Replied(a, id, 404)]
       \/ /\ NoFault /\ Exists(id)
          /\ req' = [req EXCEPT ![r] = IF invitations[id].sender # a.user
                                       THEN Replied(a, id, 403)
                                       ELSE Begun(a, id, "act")]
       \/ Fault /\ req' = [req EXCEPT ![r] = Replied(a, id, 400)]
    /\ UNCHANGED <<invitations, mailed, rooms, direct, jobs, now>>

RemoveInvitation(r) ==
    /\ At(r, "act") /\ req[r].kind = "remove"
    /\ \/ NoFault /\ invitations' = [invitations EXCEPT ![req[r].id] = None] /\ Answer(r, 200)
       \/ Fault /\ UNCHANGED invitations /\ Answer(r, 500)
    /\ UNCHANGED <<mailed, rooms, direct, jobs, now>>

\* A removed invitation has no status: an error.
GetInvitationStatus(r) ==
    /\ At(r, "act") /\ req[r].kind = "status"
    /\ \/ NoFault /\ Answer(r, IF Exists(req[r].id) THEN 200 ELSE 500)
       \/ Fault /\ Answer(r, 500)
    /\ UNCHANGED <<invitations, mailed, rooms, direct, jobs, now>>

ListInvitations(r, a) ==
    /\ MayBegin(r) /\ ~Refused(a) /\ a.kind = "list"
    /\ \/ NoFault /\ req' = [req EXCEPT ![r] = Replied(a, None, 200)]
       \/ Fault /\ req' = [req EXCEPT ![r] = Replied(a, None, 500)]
    /\ UNCHANGED <<invitations, mailed, rooms, direct, jobs, now>>

-----------------------------------------------------------------------------
Tick ==
    /\ \E t \in scenario.instants : t > now /\ now' = t
    /\ UNCHANGED <<invitations, mailed, rooms, direct, jobs, req, faults>>

Begin(r) ==
    \E a \in scenario.menu :
        \/ Refuse(r, a)
        \/ RateLimitInvitations(r, a) \/ GenerateLink(r, a) \/ ListInvitations(r, a)
        \/ \E id \in Tokens(r) : CheckInvitation(r, a, id) \/ CheckInvitationOwnership(r, a, id)

Step(r) ==
    \/ CreateInvitation(r) \/ CreateInvitationFails(r)
    \/ DeliverInvitation(r) \/ DeliverInvitationFails(r) \/ UndoInvitation(r)
    \/ Accept(r) \/ ProcessInvitationsToAddress(r)
    \/ RemoveInvitation(r) \/ GetInvitationStatus(r)

JobStep(j) ==
    \/ CreatePrivateChat(j) \/ MarkPrivateChatAsDirectMessage(j) \/ UpdateInvitation(j)
    \/ JobFails(j)

Happens ==
    \/ Tick
    \/ \E r \in Requests : Begin(r) \/ Step(r)
    \/ \E j \in jobs : JobStep(j)

\* Nothing is left to do.
Terminating ==
    /\ \A r \in scenario.requests : req[r].pc \in {"done", "idle"}
    /\ \A j \in jobs : Ended(j)
    /\ UNCHANGED vars

Next == Terminating \/ (Happens /\ UNCHANGED scenario)

Spec == Init /\ [][Next]_vars

\* Every query and call returns or fails.
LiveSpec ==
    /\ Spec
    /\ \A r \in Requests : WF_vars(Step(r) /\ UNCHANGED scenario)
    /\ \A id, r \in Requests :
        WF_vars(/\ \E j \in jobs : j.id = id /\ j.request = r /\ JobStep(j)
                /\ UNCHANGED scenario)

-----------------------------------------------------------------------------
(***************************************************************************)
(* Properties.                                                             *)
(***************************************************************************)

\* An invitation recorded as accepted by a user has a room that this user
\* created, for this invitation and with its sender: the row is updated
\* last, and no failing call, concurrent acceptance or removal changes that.
AcceptedHasRoom ==
    \A id \in Rows : invitations[id].accessed =>
        \E room \in rooms : /\ room.id = id
                            /\ room.by = invitations[id].matrix_id
                            /\ room.with = invitations[id].sender

\* An invitation is used once: accept refuses one that was used, and so at
\* most one room is created for it.
UsedOnce ==
    \A s, t \in rooms : s.id = t.id => s = t

\* ... which holds for requests that begin when everything before them has
\* ended, the jobs included, and no call fails.
UsedOnceWhenQuiet == scenario.pace = "quiet" /\ scenario.faults = 0 => UsedOnce

\* generateLink reuses the pending invitation and the rate limit stops a
\* second message: without concurrent requests and failures, and while no
\* row is old enough to satisfy the limit, a user has at most one valid
\* invitation for a contact, or for a link without one.
OnePendingWhenSerial ==
    scenario.pace # "free" /\ scenario.faults = 0 /\ now < EXPIRATION + ONE_HOUR =>
        \A u \in Users : \A c \in Contacts \cup {NoContact} :
            \A i, k \in Valid(u, c) : i = k

\* Two messages to a contact, from whatever senders, are a day and an hour
\* apart, unless rateLimitInvitations could have looked at a row older than
\* that (for requests made one after the other, none of which removes an
\* invitation).
RateLimited ==
    scenario.pace # "free" /\ (\A a \in scenario.menu : a.kind # "remove") =>
        \A i, k \in mailed :
            i < k /\ invitations[i].recipient = invitations[k].recipient =>
                LET sent == invitations[k].expiration - EXPIRATION
                IN  \E old \in RowsTo(invitations[k].recipient) :
                        old < k /\ sent - invitations[old].expiration >= ONE_HOUR

\* An invitation that could not be delivered is withdrawn: a request answered
\* with an error leaves nothing in the table that would hold up the next
\* attempt (one failing call).
FailedInviteLeavesNothing ==
    scenario.faults <= 1 =>
        \A r \in Requests : req[r].kind = "invite" /\ req[r].status = 500 => ~Exists(r)

\* Accepting has its effect: a request to accept is answered, and when it is
\* told `Invitation accepted' the invitation is, in the end, recorded as
\* accepted, unless it was removed or expired (no call fails).
AcceptanceTakesEffect ==
    \A r \in Requests :
        req[r].kind = "accept" /\ scenario.faults = 0 ~>
            /\ At(r, "done")
            /\ req[r].status = 200 =>
                \A id \in Rows : id = req[r].id =>
                    invitations[id].accessed \/ Expired(invitations[id])
=============================================================================

------------------------ MODULE IdentityServerProofs ------------------------
(***************************************************************************)
(* Proofs about IdentityServer, for any number of requests, users,         *)
(* secrets and addresses.                                                  *)
(*                                                                         *)
(* A handler is between two of its queries for as long as others like, so  *)
(* each invariant says what is still true of what it has read: the address *)
(* of a token that was verified is proved (Following), a token that was    *)
(* logged out never comes back (LogoutsFinal), and the latest key is the   *)
(* current one, or the previous one in the middle of an exchange           *)
(* (LatestIsThere).  The handlers are treated by the tables they write.    *)
(***************************************************************************)
EXTENDS IdentityServer, TLAPS

\* The kind of request that is at each query.
KindAt(kind, label) ==
  /\ label \in {"validate", "session"} => kind = "register"
  /\ label = "logout" => kind = "logout"
  /\ label = "userOfToken" => kind = "terms"
  /\ label \in {"findSession", "dropSession", "issueToken", "storeSession"} => kind = "request"
  /\ label \in {"verifyToken", "deleteToken", "validateSession"} => kind = "submit"
  /\ label = "readSession" => kind = "validated"
  /\ label \in {"bindSession", "insertHash", "signBinding"} => kind = "bind"
  /\ label \in {"unbindSession", "deleteHashes"} => kind = "unbind"
  /\ label \in {"lookup", "currentKey", "previousKey", "dropKey", "renameKey", "insertKey",
                "insertInvitation", "getKeys"} => kind = "store"
  /\ label = "invitation" => kind = "sign"
  /\ label \in {"accessToken", "policies", "matrixToken", "whoami"} => kind \in DOMAIN Handler
  /\ label # "idle" => kind # "none"

Statuses == {0, 200, 400, 401, 403, 404, 500}

\* Types that the handlers rely on when they go from one query to the next.
Typed ==
  /\ scenario \in Scenarios
  /\ pc \in [Requests -> Labels]
  /\ reply \in [Requests -> Statuses]

\* A query belongs to the kind of its request, and whoever has a status was answered.
Orderly ==
  \A r \in Requests : KindAt(req(r).kind, pc[r]) /\ (reply[r] # 0 => pc[r] = "answered")

\* Request r goes on, and only r.
Moves(r, where, status) ==
  /\ pc' = [pc EXCEPT ![r] = where]
  /\ reply' = [reply EXCEPT ![r] = status]
  /\ where \in Labels /\ status \in Statuses
  /\ status # 0 => where = "answered"
  /\ KindAt(req(r).kind, where)

Moved(r) == \E where \in Labels, status \in Statuses : Moves(r, where, status)

\* A request is what ScenarioType says.
LEMMA TypedRequests ==
  ASSUME Typed, NEW r \in Requests
  PROVE  /\ req(r).kind \in {"none", "register", "logout", "terms", "request", "submit", "validated", "bind",
                             "unbind", "store", "sign"}
         /\ req(r).ok \in BOOLEAN /\ req(r).access \in AccessTokens /\ req(r).user \in Users
         /\ req(r).secret \in Secrets /\ req(r).address \in Addresses /\ req(r).attempt \in 1..2
         /\ req(r).ref \in Requests
         /\ scenario.owner \in Users /\ scenario.refused \subseteq Users
  BY ScenariosAssumption DEF Typed, ScenarioType, req, AccessTokens

LEMMA LabelsOfHandlers ==
  \A kind \in DOMAIN Handler : Handler[kind] \in Labels /\ KindAt(kind, Handler[kind])
  BY DEF Handler, Labels, KindAt

\* A handler that goes to another query, or answers, moves its request.
LEMMA GotoMoves ==
  ASSUME Typed, Orderly, NEW r \in Requests, NEW where \in Labels, Goto(r, where),
         pc[r] # "answered", KindAt(req(r).kind, where)
  PROVE  Moves(r, where, 0) /\ Moved(r)
  <1>1. reply[r] = 0
    BY DEF Orderly
  <1>2. reply' = [reply EXCEPT ![r] = 0]
    BY <1>1 DEF Goto, Typed
  <1>3. Moves(r, where, 0) /\ 0 \in Statuses
    BY <1>2 DEF Goto, Moves, Statuses
  <1> QED BY <1>3 DEF Moved

LEMMA SendMoves ==
  ASSUME Typed, Orderly, NEW r \in Requests, NEW status \in Statuses, send(r, status),
         req(r).kind # "none"
  PROVE  Moves(r, "answered", status) /\ Moved(r)
  <1>1. KindAt(req(r).kind, "answered") /\ "answered" \in Labels
    BY DEF KindAt, Labels, Ended
  <1>2. Moves(r, "answered", status)
    BY <1>1 DEF send, Moves
  <1> QED BY <1>1, <1>2 DEF Moved

LEMMA AdmitMoves ==
  ASSUME Typed, Orderly, NEW r \in Requests, Admit(r), pc[r] # "answered", req(r).kind \in DOMAIN Handler
  PROVE  Moved(r)
  <1>1. "silent" \in Labels /\ KindAt(req(r).kind, "silent") /\ req(r).kind # "none" /\ 400 \in Statuses
    BY DEF Labels, Ended, KindAt, Handler, Statuses
  <1>2. CASE Goto(r, Handler[req(r).kind])
    BY <1>2, GotoMoves, LabelsOfHandlers
  <1>3. CASE Silent(r)
    BY <1>1, <1>3, GotoMoves DEF Silent
  <1>4. CASE send(r, 400)
    BY <1>1, <1>4, SendMoves
  <1> QED BY <1>2, <1>3, <1>4 DEF Admit

LEMMA AccountMoves ==
  ASSUME Typed, Orderly, NEW r \in Requests, AccountStep(r) \/ AccountQueryFails(r)
  PROVE  Moved(r)
  <1> USE DEF Statuses
  <1>0. KindAt(req(r).kind, pc[r])
    BY DEF Orderly
  <1>1. ASSUME NEW where \in {"policies", "whoami", "accessToken", "session"}, Goto(r, where),
               pc[r] # "answered", KindAt(req(r).kind, where)
        PROVE  Moved(r)
    <2>1. where \in Labels
      BY DEF Labels
    <2> QED BY <1>1, <2>1, GotoMoves
  <1>2. ASSUME NEW status \in Statuses, send(r, status), pc[r] # "idle"
        PROVE  Moved(r)
    BY <1>0, <1>2, SendMoves DEF KindAt
  <1>3. CASE ReadAccessToken(r)
    <2>1. req(r).kind \in DOMAIN Handler /\ KindAt(req(r).kind, "policies") /\ pc[r] = "accessToken"
      BY <1>0, <1>3 DEF ReadAccessToken, KindAt
    <2> QED BY <1>1, <1>2, <1>3, <2>1, AdmitMoves DEF ReadAccessToken
  <1>4. CASE ReadPolicies(r)
    <2>1. req(r).kind \in DOMAIN Handler /\ pc[r] = "policies"
      BY <1>0, <1>4 DEF ReadPolicies, KindAt
    <2> QED BY <1>2, <1>4, <2>1, AdmitMoves DEF ReadPolicies
  <1>5. CASE ReadMatrixToken(r)
    <2>1. req(r).kind \in DOMAIN Handler /\ KindAt(req(r).kind, "whoami") /\ pc[r] = "matrixToken"
      BY <1>0, <1>5 DEF ReadMatrixToken, KindAt
    <2> QED BY <1>1, <1>5, <2>1, AdmitMoves DEF ReadMatrixToken
  <1>6. CASE WhoAmI(r)
    <2>1. req(r).kind \in DOMAIN Handler /\ KindAt(req(r).kind, "accessToken") /\ pc[r] = "whoami"
      BY <1>0, <1>6 DEF WhoAmI, KindAt
    <2> QED BY <1>1, <1>6, <2>1, AdmitMoves DEF WhoAmI
  <1>7. CASE ValidateMatrixToken(r)
    <2>1. KindAt(req(r).kind, "session") /\ pc[r] = "validate"
      BY <1>0, <1>7 DEF ValidateMatrixToken, KindAt
    <2> QED BY <1>1, <1>2, <1>7, <2>1 DEF ValidateMatrixToken
  <1>8. CASE Register(r) \/ Logout(r) \/ PostTerms(r)
    BY <1>2, <1>8 DEF Register, Logout, PostTerms
  <1>9. CASE AccountQueryFails(r)
    <2>1. CASE pc[r] = "matrixToken" /\ Goto(r, "whoami")
      BY <1>0, <1>1, <2>1 DEF KindAt
    <2>2. CASE pc[r] \in DOMAIN AccountFailure /\ send(r, AccountFailure[pc[r]])
      <3>1. AccountFailure[pc[r]] \in Statuses /\ pc[r] # "idle"
        BY <2>2 DEF AccountFailure
      <3> QED BY <1>2, <2>2, <3>1
    <2> QED BY <1>9, <2>1, <2>2 DEF AccountQueryFails
  <1> QED BY <1>3, <1>4, <1>5, <1>6, <1>7, <1>8, <1>9 DEF AccountStep

LEMMA SessionMoves ==
  ASSUME Typed, Orderly, NEW r \in Requests, SessionStep(r) \/ SessionQueryFails(r)
  PROVE  Moved(r)
  <1> USE DEF Statuses
  <1>0. KindAt(req(r).kind, pc[r])
    BY DEF Orderly
  <1>1. ASSUME NEW where \in {"issueToken", "dropSession", "storeSession", "deleteToken", "validateSession",
                              "insertHash", "signBinding", "deleteHashes", "silent"}, Goto(r, where),
               pc[r] # "answered", KindAt(req(r).kind, where)
        PROVE  Moved(r)
    <2>1. where \in Labels
      BY DEF Labels, Ended
    <2> QED BY <1>1, <2>1, GotoMoves
  <1>2. ASSUME NEW status \in Statuses, send(r, status), pc[r] # "idle"
        PROVE  Moved(r)
    BY <1>0, <1>2, SendMoves DEF KindAt
  <1>3. CASE FindSession(r)
    <2>1. KindAt(req(r).kind, "issueToken") /\ KindAt(req(r).kind, "dropSession") /\ pc[r] = "findSession"
      BY <1>0, <1>3 DEF FindSession, KindAt
    <2>2. Goto(r, "issueToken") \/ send(r, 200) \/ Goto(r, "dropSession")
      BY <1>3 DEF FindSession
    <2> QED BY <1>1, <1>2, <2>1, <2>2
  <1>4. CASE DropSession(r) \/ IssueToken(r) \/ StoreSession(r)
    <2>1. /\ pc[r] \in {"dropSession", "issueToken", "storeSession"}
          /\ Goto(r, "issueToken") \/ Goto(r, "storeSession") \/ send(r, 400) \/ send(r, 200)
      BY <1>4 DEF DropSession, IssueToken, StoreSession
    <2>2. KindAt(req(r).kind, "issueToken") /\ KindAt(req(r).kind, "storeSession")
      BY <1>0, <2>1 DEF KindAt
    <2> QED BY <1>1, <1>2, <2>1, <2>2
  <1>5. CASE VerifyToken(r) \/ DeleteToken(r) \/ ValidateSession(r)
    <2>1. /\ pc[r] \in {"verifyToken", "deleteToken", "validateSession"}
          /\ Goto(r, "deleteToken") \/ Goto(r, "validateSession") \/ send(r, 400) \/ send(r, 200)
      BY <1>5 DEF VerifyToken, DeleteToken, ValidateSession
    <2>2. KindAt(req(r).kind, "deleteToken") /\ KindAt(req(r).kind, "validateSession")
      BY <1>0, <2>1 DEF KindAt
    <2> QED BY <1>1, <1>2, <2>1, <2>2
  <1>6. CASE BindSession(r) \/ InsertHash(r) \/ SignBinding(r)
    <2>1. /\ pc[r] \in {"bindSession", "insertHash", "signBinding"}
          /\ \/ Goto(r, "insertHash") \/ Goto(r, "signBinding")
             \/ send(r, 404) \/ send(r, 400) \/ send(r, 500) \/ send(r, 200)
      BY <1>6 DEF BindSession, InsertHash, SignBinding
    <2>2. KindAt(req(r).kind, "insertHash") /\ KindAt(req(r).kind, "signBinding")
      BY <1>0, <2>1 DEF KindAt
    <2> QED BY <1>1, <1>2, <2>1, <2>2
  <1>7. CASE GetValidated3pid(r) \/ UnbindSession(r) \/ DeleteHashes(r)
    <2>1. /\ pc[r] \in {"readSession", "unbindSession", "deleteHashes"}
          /\ \/ pc[r] = "unbindSession" /\ Goto(r, "deleteHashes")
             \/ send(r, 404) \/ send(r, 400) \/ send(r, 403) \/ send(r, 200)
      BY <1>7 DEF GetValidated3pid, UnbindSession, DeleteHashes
    <2>2. pc[r] = "unbindSession" => KindAt(req(r).kind, "deleteHashes")
      BY <1>0, <2>1 DEF KindAt
    <2> QED BY <1>1, <1>2, <2>1, <2>2
  <1>8. CASE SessionQueryFails(r)
    <2>1. CASE pc[r] \in {"issueToken", "validateSession"} /\ Silent(r)
      BY <1>0, <1>1, <2>1 DEF KindAt, Silent
    <2>2. CASE pc[r] = "deleteToken" /\ Goto(r, "validateSession")
      BY <1>0, <1>1, <2>2 DEF KindAt
    <2>3. CASE pc[r] \in DOMAIN SessionFailure /\ send(r, SessionFailure[pc[r]])
      <3>1. SessionFailure[pc[r]] \in Statuses /\ pc[r] # "idle"
        BY <2>3 DEF SessionFailure
      <3> QED BY <1>2, <2>3, <3>1
    <2> QED BY <1>8, <2>1, <2>2, <2>3 DEF SessionQueryFails
  <1> QED BY <1>3, <1>4, <1>5, <1>6, <1>7, <1>8 DEF SessionStep

LEMMA InvitationMoves ==
  ASSUME Typed, Orderly, NEW r \in Requests, InvitationStep(r) \/ InvitationQueryFails(r)
  PROVE  Moved(r)
  <1> USE DEF Statuses
  <1> DEFINE Queries == {"currentKey", "previousKey", "dropKey", "renameKey", "insertKey",
                         "insertInvitation", "getKeys", "silent"}
  <1>0. KindAt(req(r).kind, pc[r])
    BY DEF Orderly
  <1>1. ASSUME NEW where \in Queries, Goto(r, where), pc[r] \notin {"answered", "idle"}, req(r).kind = "store"
        PROVE  Moved(r)
    <2>1. where \in Labels /\ KindAt(req(r).kind, where)
      BY <1>1 DEF Labels, Ended, KindAt, Handler
    <2> QED BY <1>1, <2>1, GotoMoves
  <1>2. ASSUME NEW status \in Statuses, send(r, status), pc[r] # "idle"
        PROVE  Moved(r)
    BY <1>0, <1>2, SendMoves DEF KindAt
  <1>3. CASE LookupAddress(r) \/ ReadCurrentKey(r) \/ ReadPreviousKey(r) \/ DropPreviousKey(r)
    <2>1. /\ pc[r] \in {"lookup", "currentKey", "previousKey", "dropKey"}
          /\ \/ Goto(r, "currentKey") \/ Goto(r, "insertKey") \/ Goto(r, "previousKey")
             \/ Goto(r, "renameKey") \/ Goto(r, "dropKey") \/ send(r, 500) \/ send(r, 400)
      BY <1>3 DEF LookupAddress, ReadCurrentKey, ReadPreviousKey, DropPreviousKey
    <2>2. req(r).kind = "store"
      BY <1>0, <2>1 DEF KindAt
    <2> QED BY <1>1, <1>2, <2>1, <2>2
  <1>4. CASE RenameKey(r) \/ InsertKey(r) \/ InsertInvitation(r) \/ GetKeys(r)
    <2>1. /\ pc[r] \in {"renameKey", "insertKey", "insertInvitation", "getKeys"}
          /\ \/ Goto(r, "insertKey") \/ Goto(r, "silent") \/ Goto(r, "insertInvitation")
             \/ Goto(r, "getKeys") \/ send(r, 500) \/ send(r, 200)
      BY <1>4 DEF RenameKey, InsertKey, InsertInvitation, GetKeys, Silent
    <2>2. req(r).kind = "store"
      BY <1>0, <2>1 DEF KindAt
    <2> QED BY <1>1, <1>2, <2>1, <2>2
  <1>5. CASE SignEd25519(r)
    BY <1>2, <1>5 DEF SignEd25519
  <1>6. CASE InvitationQueryFails(r)
    <2>1. CASE pc[r] \in {"currentKey", "previousKey", "dropKey", "renameKey"} /\ Goto(r, "insertKey")
      BY <1>0, <1>1, <2>1 DEF KindAt
    <2>2. CASE pc[r] = "insertKey" /\ Silent(r)
      BY <1>0, <1>1, <2>2 DEF KindAt, Silent
    <2>3. CASE pc[r] \in DOMAIN InvitationFailure /\ send(r, InvitationFailure[pc[r]])
      <3>1. InvitationFailure[pc[r]] \in Statuses /\ pc[r] # "idle"
        BY <2>3 DEF InvitationFailure
      <3> QED BY <1>2, <2>3, <3>1
    <2> QED BY <1>6, <2>1, <2>2, <2>3 DEF InvitationQueryFails
  <1> QED BY <1>3, <1>4, <1>5, <1>6 DEF InvitationStep

LEMMA BeginMoves ==
  ASSUME Typed, Orderly, NEW r \in Requests, Begin(r)
  PROVE  Moved(r)
  <1>1. CASE send(r, 400)
    BY <1>1, SendMoves DEF Begin, Statuses
  <1>2. CASE Goto(r, "verifyToken") /\ req(r).kind = "submit"
    <2>1. KindAt(req(r).kind, "verifyToken") /\ "verifyToken" \in Labels
      BY <1>2 DEF KindAt, Labels
    <2> QED BY <1>2, <2>1, GotoMoves DEF Begin
  <1>3. CASE Goto(r, "validate") /\ req(r).kind = "register"
    <2>1. KindAt(req(r).kind, "validate") /\ "validate" \in Labels
      BY <1>3 DEF KindAt, Labels
    <2> QED BY <1>3, <2>1, GotoMoves DEF Begin
  <1>4. CASE req(r).kind \notin {"submit", "register"} /\ (Goto(r, "matrixToken") \/ Goto(r, "accessToken"))
    <2>1. req(r).kind \in DOMAIN Handler
      BY <1>4, TypedRequests DEF Handler, Begin
    <2>2. /\ KindAt(req(r).kind, "matrixToken") /\ KindAt(req(r).kind, "accessToken")
          /\ "matrixToken" \in Labels /\ "accessToken" \in Labels
      BY <1>4, <2>1 DEF KindAt, Labels, Begin
    <2> QED BY <1>4, <2>2, GotoMoves DEF Begin
  <1> QED BY <1>1, <1>2, <1>3, <1>4 DEF Begin, FirstStep

\* A step of the handler of request r.
Handles(r) == Begin(r) \/ Step(r) \/ QueryFails(r)

LEMMA HandlesMoves ==
  ASSUME Typed, Orderly, NEW r \in Requests, Handles(r)
  PROVE  Moved(r)
  BY AccountMoves, SessionMoves, InvitationMoves, BeginMoves DEF Handles, Step, QueryFails

\* What no step of a handler changes.
LEMMA HandlesFrame ==
  ASSUME NEW r \in Requests, Handles(r)
  PROVE  scenario' = scenario /\ (late' = late \/ Begin(r))
  <1>1. CASE AccountStep(r)
    BY <1>1 DEF AccountStep, ReadAccessToken, ReadPolicies, ReadMatrixToken, WhoAmI, ValidateMatrixToken,
                Register, Logout, PostTerms, frameVars
  <1>2. CASE SessionStep(r)
    BY <1>2 DEF SessionStep, FindSession, DropSession, IssueToken, StoreSession, VerifyToken, DeleteToken,
                ValidateSession, GetValidated3pid, BindSession, InsertHash, SignBinding, UnbindSession,
                DeleteHashes, frameVars
  <1>3. CASE InvitationStep(r)
    BY <1>3 DEF InvitationStep, LookupAddress, ReadCurrentKey, ReadPreviousKey, DropPreviousKey, RenameKey,
                InsertKey, InsertInvitation, GetKeys, SignEd25519, frameVars
  <1>4. CASE QueryFails(r)
    BY <1>4 DEF QueryFails, AccountQueryFails, SessionQueryFails, InvitationQueryFails, frameVars
  <1>5. CASE Begin(r)
    BY <1>5 DEF Begin
  <1> QED BY <1>1, <1>2, <1>3, <1>4, <1>5 DEF Handles, Step

\* The steps that are not those of one handler leave the answers alone.
Elsewhere ==
  \/ \E r \in Requests : Expire(r) \/ OnBind(r)
  \/ \E u \in Users : TermsUpdated(u) \/ TermsUpdateFails(u)
  \/ Restart

LEMMA ElsewhereFrame ==
  ASSUME Elsewhere
  PROVE  /\ UNCHANGED <<scenario, late, reply, accessTokens, matrixTokens, longTermKeypairs, created>>
         /\ UNCHANGED <<mappings, mailed, hashes, found, proved, invitationTokens>>
         /\ UNCHANGED pc \/ pc' = [r \in Requests |-> IF Running(r) THEN "lost" ELSE pc[r]]
  BY DEF Elsewhere, Expire, OnBind, TermsUpdated, TermsUpdateFails, Restart, Stopped,
         frameVars, accountVars, keyVars, sessionVars

LEMMA NextCases ==
  ASSUME [Next]_vars
  PROVE  UNCHANGED vars \/ Elsewhere \/ \E r \in Requests : Handles(r)
  BY DEF Next, Elsewhere, Handles

LEMMA OrderlyStep ==
  ASSUME Typed, Orderly, [Next]_vars
  PROVE  Typed' /\ Orderly'
  <1>1. CASE UNCHANGED vars
    BY <1>1 DEF vars, frameVars, Typed, Orderly, req
  <1>2. CASE Elsewhere
    <2>1. UNCHANGED <<scenario, reply>>
      BY <1>2, ElsewhereFrame
    <2>2. CASE UNCHANGED pc
      BY <2>1, <2>2 DEF Typed, Orderly, req
    <2>3. CASE pc' = [r \in Requests |-> IF Running(r) THEN "lost" ELSE pc[r]]
      <3>1. "lost" \in Labels /\ \A r \in Requests : Running(r) => KindAt(req(r).kind, "lost")
        BY DEF Labels, Ended, KindAt, Orderly, Running
      <3>2. \A r \in Requests : pc[r] = "answered" => ~ Running(r)
        BY DEF Running, Ended
      <3>3. \A r \in Requests : req(r)' = req(r)
        BY <2>1 DEF req
      <3> QED BY <2>1, <2>3, <3>1, <3>2, <3>3 DEF Typed, Orderly
    <2> QED BY <1>2, <2>2, <2>3, ElsewhereFrame
  <1>3. ASSUME NEW r \in Requests, Handles(r) PROVE Typed' /\ Orderly'
    <2>1. scenario' = scenario /\ \A q \in Requests : req(q)' = req(q)
      BY <1>3, HandlesFrame DEF req
    <2>2. PICK where \in Labels, status \in Statuses : Moves(r, where, status)
      BY <1>3, HandlesMoves DEF Moved
    <2>3. Typed'
      BY <2>1, <2>2 DEF Typed, Moves
    <2> QED BY <2>1, <2>2, <2>3 DEF Typed, Orderly, Moves
  <1> QED BY <1>1, <1>2, <1>3, NextCases

(***************************************************************************)
(* Sessions and bindings                                                   *)
(***************************************************************************)
SessionRow ==
  [sid : Requests \union {NoOne}, address : Addresses \union {NoOne}, valid : BOOLEAN, attempt : 0..2]
TokenRow ==
  [sid : Requests \union {NoOne}, secret : Secrets \union {NoOne}, email : Addresses \union {NoOne},
   live : BOOLEAN]

\* A session is that of the address it was requested for, and valid when that is proved.
SessionOK(row) ==
  /\ row.sid = NoOne => row = NoSession
  /\ row.sid # NoOne => row.address = req(row.sid).address
  /\ row.valid => row.address \in proved

Sessions ==
  /\ mappings \in [Secrets -> SessionRow] /\ found \in [Requests -> SessionRow]
  /\ oneTimeTokens \in [Requests -> TokenRow]
  /\ mailed \subseteq Requests /\ proved \subseteq Addresses
  /\ \A c \in Secrets : SessionOK(mappings[c])
  /\ \A t \in Requests : oneTimeTokens[t].live => oneTimeTokens[t].email = req(t).address

\* A link that is being followed proves its address, and so does a session that is being bound.
Following ==
  \A r \in Requests :
    /\ pc[r] \in {"deleteToken", "validateSession"} => req(req(r).ref).address \in proved
    /\ pc[r] = "insertHash" => found[r].address \in proved

HashesOK == \A h \in hashes : h.hash.text \in proved /\ h.value \in Users

SessionInv == Sessions /\ Following /\ HashesOK

SessionWrite(r) ==
  \/ FindSession(r) \/ DropSession(r) \/ IssueToken(r) \/ StoreSession(r) \/ VerifyToken(r)
  \/ DeleteToken(r) \/ ValidateSession(r) \/ BindSession(r) \/ InsertHash(r) \/ DeleteHashes(r)

\* The other steps leave sessions alone and are not about to use one.
LEMMA SessionFrame ==
  ASSUME Typed, Orderly, NEW r \in Requests, Handles(r), ~ SessionWrite(r)
  PROVE  /\ UNCHANGED sessionVars
         /\ pc'[r] \notin {"deleteToken", "insertHash"}
         /\ pc'[r] = "validateSession" => pc[r] = "deleteToken"
  <1> DEFINE Quiet == pc'[r] \notin {"deleteToken", "insertHash", "validateSession"}
  <1>0. ASSUME NEW where, Goto(r, where) PROVE pc'[r] = where
    BY <1>0 DEF Typed, Goto
  <1>1. ASSUME NEW status, send(r, status) PROVE pc'[r] = "answered"
    BY <1>1 DEF Typed, send
  <1>2. ASSUME Admit(r), req(r).kind \in DOMAIN Handler PROVE Quiet
    <2>1. Handler[req(r).kind] \notin {"deleteToken", "insertHash", "validateSession"}
      BY <1>2 DEF Handler
    <2> QED BY <1>0, <1>1, <1>2, <2>1 DEF Admit, Silent
  <1>3. CASE AccountStep(r)
    <2>1. UNCHANGED sessionVars
      BY <1>3 DEF AccountStep, ReadAccessToken, ReadPolicies, ReadMatrixToken, WhoAmI, ValidateMatrixToken,
                  Register, Logout, PostTerms
    <2>2. CASE ReadAccessToken(r) \/ ReadPolicies(r) \/ ReadMatrixToken(r) \/ WhoAmI(r)
      <3>1. req(r).kind \in DOMAIN Handler
        BY <2>2 DEF Orderly, KindAt, ReadAccessToken, ReadPolicies, ReadMatrixToken, WhoAmI
      <3>2. Admit(r) \/ (\E status : send(r, status)) \/ Goto(r, "policies") \/ Goto(r, "whoami")
              \/ Goto(r, "accessToken")
        BY <2>2 DEF ReadAccessToken, ReadPolicies, ReadMatrixToken, WhoAmI
      <3> QED BY <1>0, <1>1, <1>2, <2>1, <3>1, <3>2
    <2>3. CASE ValidateMatrixToken(r) \/ Register(r) \/ Logout(r) \/ PostTerms(r)
      <3>1. Goto(r, "session") \/ \E status : send(r, status)
        BY <2>3 DEF ValidateMatrixToken, Register, Logout, PostTerms
      <3> QED BY <1>0, <1>1, <2>1, <3>1
    <2> QED BY <1>3, <2>2, <2>3 DEF AccountStep
  <1>4. CASE SessionStep(r)
    <2>1. GetValidated3pid(r) \/ SignBinding(r) \/ UnbindSession(r)
      BY <1>4 DEF SessionStep, SessionWrite
    <2>2. UNCHANGED sessionVars /\ (Goto(r, "deleteHashes") \/ \E status : send(r, status))
      BY <2>1 DEF GetValidated3pid, SignBinding, UnbindSession
    <2> QED BY <1>0, <1>1, <2>2
  <1>5. CASE InvitationStep(r)
    <2>1. UNCHANGED sessionVars
      BY <1>5 DEF InvitationStep, LookupAddress, ReadCurrentKey, ReadPreviousKey, DropPreviousKey, RenameKey,
                  InsertKey, InsertInvitation, GetKeys, SignEd25519
    <2>2. \/ \E status : send(r, status)
          \/ \E where \in {"currentKey", "insertKey", "previousKey", "renameKey", "dropKey", "silent",
                           "insertInvitation", "getKeys"} : Goto(r, where)
      BY <1>5 DEF InvitationStep, LookupAddress, ReadCurrentKey, ReadPreviousKey, DropPreviousKey, RenameKey,
                  InsertKey, InsertInvitation, GetKeys, SignEd25519, Silent
    <2> QED BY <1>0, <1>1, <2>1, <2>2
  <1>6. CASE QueryFails(r)
    <2>1. UNCHANGED sessionVars
      BY <1>6 DEF QueryFails, AccountQueryFails, SessionQueryFails, InvitationQueryFails
    <2>2. \/ \E status : send(r, status)
          \/ \E where \in {"whoami", "insertKey", "silent"} : Goto(r, where)
          \/ pc[r] = "deleteToken" /\ Goto(r, "validateSession")
      BY <1>6 DEF QueryFails, AccountQueryFails, SessionQueryFails, InvitationQueryFails, Silent
    <2> QED BY <1>0, <1>1, <2>1, <2>2
  <1>7. CASE Begin(r)
    <2>1. \/ \E status : send(r, status)
          \/ \E where \in {"verifyToken", "validate", "matrixToken", "accessToken"} : Goto(r, where)
      BY <1>7 DEF Begin, FirstStep
    <2>2. UNCHANGED sessionVars
      BY <1>7 DEF Begin
    <2> QED BY <1>0, <1>1, <2>1, <2>2
  <1> QED BY <1>3, <1>4, <1>5, <1>6, <1>7 DEF Handles, Step

\* What Following says of one request.
FollowingAt(r) ==
  /\ pc[r] \in {"deleteToken", "validateSession"} => req(req(r).ref).address \in proved
  /\ pc[r] = "insertHash" => found[r].address \in proved

LEMMA FollowingKept ==
  ASSUME Typed, Following, NEW r \in Requests, Moved(r), scenario' = scenario,
         proved \subseteq proved', \A q \in Requests \ {r} : found'[q] = found[q], FollowingAt(r)'
  PROVE  Following'
  <1>1. \A q \in Requests \ {r} : pc'[q] = pc[q]
    BY DEF Typed, Moved, Moves
  <1> QED BY <1>1 DEF Following, FollowingAt, req

\* The session that a request reads.
LEMMA SessionRead ==
  ASSUME Typed, Sessions, NEW r \in Requests
  PROVE  /\ mappings[req(r).secret] \in SessionRow /\ SessionOK(mappings[req(r).secret])
         /\ SessionOf(r) \in SessionRow /\ SessionOK(SessionOf(r)) /\ NoSession \in SessionRow
  <1>1. NoSession \in SessionRow /\ SessionOK(NoSession)
    BY DEF NoSession, SessionRow, SessionOK
  <1>2. mappings[req(r).secret] \in SessionRow /\ SessionOK(mappings[req(r).secret])
    BY TypedRequests DEF Sessions
  <1> QED BY <1>1, <1>2 DEF SessionOf

LEMMA SessionWriteInv ==
  ASSUME Typed, Orderly, SessionInv, NEW r \in Requests, SessionWrite(r), Moved(r), scenario' = scenario
  PROVE  SessionInv'
  <1> USE DEF SessionInv
  <1>0. /\ \A q \in Requests : req(q)' = req(q)
        /\ \A row : SessionOK(row) /\ proved \subseteq proved' => SessionOK(row)'
    BY DEF req, SessionOK
  <1>1. ASSUME NEW where, Goto(r, where) PROVE pc'[r] = where
    BY <1>1 DEF Typed, Goto
  <1>2. ASSUME NEW status, send(r, status) PROVE pc'[r] = "answered"
    BY <1>2 DEF Typed, send
  <1>3. ASSUME UNCHANGED <<mappings, oneTimeTokens, mailed, proved>>, found' \in [Requests -> SessionRow]
        PROVE  Sessions'
    BY <1>0, <1>3 DEF Sessions
  <1>4. ASSUME UNCHANGED <<oneTimeTokens, mailed, found, proved, hashes>>, NEW row \in SessionRow, SessionOK(row),
               mappings' = [mappings EXCEPT ![req(r).secret] = row],
               pc'[r] \notin {"deleteToken", "validateSession", "insertHash"}
        PROVE  SessionInv'
    <2>1. Sessions'
      BY <1>0, <1>4, TypedRequests DEF Sessions
    <2>2. Following'
      BY <1>4, FollowingKept DEF FollowingAt
    <2> QED BY <1>4, <2>1, <2>2 DEF HashesOK
  <1>5. CASE FindSession(r)
    <2>1. Sessions'
      BY <1>3, <1>5, SessionRead DEF FindSession, Sessions
    <2>2. pc'[r] \in {"issueToken", "answered", "dropSession"}
      BY <1>1, <1>2, <1>5 DEF FindSession
    <2>3. Following'
      BY <1>5, <2>2, FollowingKept DEF FindSession, FollowingAt, Sessions
    <2> QED BY <1>5, <2>1, <2>3 DEF FindSession, HashesOK
  <1>6. CASE DropSession(r)
    <2>1. pc'[r] = "issueToken"
      BY <1>1, <1>6 DEF DropSession
    <2>2. SessionOK(NoSession)
      BY DEF NoSession, SessionOK
    <2> QED BY <1>4, <1>6, <2>1, <2>2, SessionRead DEF DropSession
  <1>7. CASE StoreSession(r)
    <2> DEFINE row == [sid |-> r, address |-> req(r).address, valid |-> FALSE, attempt |-> req(r).attempt]
    <2>1. pc'[r] = "answered"
      BY <1>2, <1>7 DEF StoreSession
    <2>2. CASE mappings' = mappings
      <3>1. mappings' = [mappings EXCEPT ![req(r).secret] = mappings[req(r).secret]]
        BY <2>2, TypedRequests DEF Sessions
      <3> QED BY <1>4, <1>7, <2>1, <3>1, SessionRead DEF StoreSession
    <2>3. CASE mappings' = [mappings EXCEPT ![req(r).secret] = row]
      <3>1. row \in SessionRow /\ SessionOK(row)
        BY TypedRequests, NamesAssumption DEF SessionRow, SessionOK
      <3> QED BY <1>4, <1>7, <2>1, <2>3, <3>1 DEF StoreSession
    <2> QED BY <1>7, <2>2, <2>3 DEF StoreSession
  <1>8. CASE ValidateSession(r)
    <2> DEFINE row == mappings[req(r).secret]
               new == IF row.sid = req(r).ref THEN [row EXCEPT !.valid = TRUE] ELSE row
    <2>1. pc'[r] = "answered" /\ req(req(r).ref).address \in proved
      BY <1>2, <1>8 DEF ValidateSession, Following
    <2>2. new \in SessionRow /\ SessionOK(new)
      <3>1. CASE row.sid = req(r).ref
        <4>1. row.sid # NoOne /\ row.address = req(row.sid).address
          BY <3>1, SessionRead, TypedRequests, NamesAssumption DEF SessionOK
        <4>2. new \in SessionRow /\ new.sid = row.sid /\ new.address = row.address
          BY <3>1, SessionRead DEF SessionRow
        <4> QED BY <2>1, <3>1, <4>1, <4>2 DEF SessionOK
      <3> QED BY <3>1, SessionRead
    <2>3. mappings' = [mappings EXCEPT ![req(r).secret] = new]
      BY <1>8 DEF ValidateSession
    <2> QED BY <1>4, <1>8, <2>1, <2>2, <2>3 DEF ValidateSession
  <1>9. CASE IssueToken(r)
    <2>1. pc'[r] = "storeSession"
      BY <1>1, <1>9 DEF IssueToken
    <2>2. Sessions'
      BY <1>0, <1>9, TypedRequests DEF IssueToken, Sessions, TokenRow
    <2>3. Following'
      BY <1>9, <2>1, FollowingKept DEF IssueToken, FollowingAt
    <2> QED BY <1>9, <2>2, <2>3 DEF IssueToken, HashesOK
  <1>10. CASE DeleteToken(r)
    <2>1. pc'[r] = "validateSession" /\ pc[r] = "deleteToken"
      BY <1>1, <1>10 DEF DeleteToken
    <2>2. NoToken \in TokenRow /\ ~ NoToken.live
      BY DEF NoToken, TokenRow
    <2>3. Sessions'
      BY <1>0, <1>10, <2>2, TypedRequests DEF DeleteToken, Sessions
    <2>4. req(req(r).ref).address \in proved /\ req(r).ref \in Requests
      BY <2>1, TypedRequests DEF Following
    <2>5. UNCHANGED <<proved, found>>
      BY <1>10 DEF DeleteToken
    <2>6. req(req(r).ref)' = req(req(r).ref)
      BY DEF req
    <2>7. FollowingAt(r)'
      BY <2>1, <2>4, <2>5, <2>6 DEF FollowingAt
    <2>8. Following'
      BY <2>5, <2>7, FollowingKept
    <2> QED BY <1>10, <2>3, <2>8 DEF DeleteToken, HashesOK
  <1>11. CASE VerifyToken(r)
    <2> DEFINE token == oneTimeTokens[req(r).ref]
    <2>1. CASE Goto(r, "deleteToken") /\ token.live /\ proved' = proved \union {token.email}
      <3>1. pc'[r] = "deleteToken" /\ token.email = req(req(r).ref).address /\ token.email \in Addresses
        BY <1>1, <2>1, TypedRequests DEF Sessions
      <3>2. Sessions'
        BY <1>0, <1>11, <2>1, <3>1 DEF VerifyToken, Sessions
      <3>3. req(req(r).ref)' = req(req(r).ref) /\ req(req(r).ref).address \in proved'
        BY <2>1, <3>1 DEF req
      <3>4. FollowingAt(r)'
        BY <3>1, <3>3 DEF FollowingAt
      <3>5. Following'
        BY <1>11, <2>1, <3>4, FollowingKept DEF VerifyToken
      <3> QED BY <1>11, <2>1, <3>2, <3>5 DEF VerifyToken, HashesOK
    <2>2. CASE send(r, 400) /\ UNCHANGED proved
      <3>1. Sessions'
        BY <1>3, <1>11, <2>2 DEF VerifyToken, Sessions
      <3>2. Following'
        BY <1>2, <1>11, <2>2, FollowingKept DEF VerifyToken, FollowingAt
      <3> QED BY <1>11, <2>2, <3>1, <3>2 DEF VerifyToken, HashesOK
    <2> QED BY <1>11, <2>1, <2>2 DEF VerifyToken
  <1>12. CASE BindSession(r)
    <2>1. Sessions'
      BY <1>3, <1>12, SessionRead DEF BindSession, Sessions
    <2>2. /\ pc'[r] \in {"answered", "insertHash"}
          /\ pc'[r] = "insertHash" => SessionOf(r).valid
      <3>1. send(r, 404) \/ send(r, 400) \/ (Goto(r, "insertHash") /\ SessionOf(r).valid)
        BY <1>12 DEF BindSession
      <3> QED BY <1>1, <1>2, <3>1
    <2>3. found'[r] = SessionOf(r) /\ SessionOK(SessionOf(r))
      BY <1>12, SessionRead DEF BindSession, Sessions
    <2>4. Following'
      BY <1>12, <2>2, <2>3, FollowingKept DEF BindSession, FollowingAt, Sessions, SessionOK
    <2> QED BY <1>12, <2>1, <2>4 DEF BindSession, HashesOK
  <1>13. CASE InsertHash(r)
    <2>1. Sessions'
      BY <1>3, <1>13 DEF InsertHash, Sessions
    <2>2. pc'[r] \in {"answered", "signBinding"}
      BY <1>1, <1>2, <1>13 DEF InsertHash
    <2>3. Following'
      BY <1>13, <2>2, FollowingKept DEF InsertHash, FollowingAt
    <2>4. HashesOK'
      BY <1>13, TypedRequests DEF InsertHash, HashesOK, Following, HashOf
    <2> QED BY <2>1, <2>3, <2>4
  <1>14. CASE DeleteHashes(r)
    <2>1. Sessions'
      BY <1>3, <1>14 DEF DeleteHashes, Sessions
    <2>2. Following'
      BY <1>2, <1>14, FollowingKept DEF DeleteHashes, FollowingAt
    <2> QED BY <1>14, <2>1, <2>2 DEF DeleteHashes, HashesOK
  <1> QED BY <1>5, <1>6, <1>7, <1>8, <1>9, <1>10, <1>11, <1>12, <1>13, <1>14 DEF SessionWrite

LEMMA SessionInvStep ==
  ASSUME Typed, Orderly, SessionInv, [Next]_vars
  PROVE  SessionInv'
  <1> USE DEF SessionInv
  <1>1. CASE UNCHANGED vars
    BY <1>1 DEF vars, frameVars, sessionVars, Sessions, SessionOK, Following, HashesOK, req
  <1>2. CASE Elsewhere
    <2>1. UNCHANGED <<scenario, mappings, mailed, hashes, found, proved>>
      BY <1>2, ElsewhereFrame
    <2>2. \A q \in Requests : req(q)' = req(q) /\ (pc'[q] = pc[q] \/ pc'[q] = "lost")
      BY <1>2, <2>1, ElsewhereFrame DEF req, Typed
    <2> DEFINE Kept == /\ oneTimeTokens' \in [Requests -> TokenRow]
                       /\ \A t \in Requests : oneTimeTokens'[t].live => oneTimeTokens'[t] = oneTimeTokens[t]
    <2>3. Kept
      <3>1. CASE UNCHANGED oneTimeTokens
        BY <3>1 DEF Sessions
      <3>2. ASSUME NEW t \in Requests, Expire(t) PROVE Kept
        <4>1. oneTimeTokens' = [oneTimeTokens EXCEPT ![t] = [oneTimeTokens[t] EXCEPT !.live = FALSE]]
          BY <3>2 DEF Expire
        <4>2. oneTimeTokens \in [Requests -> TokenRow] /\ oneTimeTokens[t] \in TokenRow
          BY DEF Sessions
        <4>3. [oneTimeTokens[t] EXCEPT !.live = FALSE] \in TokenRow
              /\ ~ [oneTimeTokens[t] EXCEPT !.live = FALSE].live
          BY <4>2 DEF TokenRow
        <4> QED BY <4>1, <4>2, <4>3
      <3> QED BY <1>2, <3>1, <3>2 DEF Elsewhere, OnBind, TermsUpdated, TermsUpdateFails, Restart, sessionVars
    <2>4. \A row : SessionOK(row) => SessionOK(row)'
      BY <2>1 DEF SessionOK, req
    <2>5. Sessions'
      BY <2>1, <2>2, <2>3, <2>4 DEF Sessions
    <2>6. Following'
      BY <2>1, <2>2 DEF Following, req
    <2> QED BY <2>1, <2>5, <2>6 DEF HashesOK
  <1>3. ASSUME NEW r \in Requests, Handles(r) PROVE SessionInv'
    <2>1. scenario' = scenario /\ Moved(r)
      BY <1>3, HandlesFrame, HandlesMoves
    <2>2. CASE SessionWrite(r)
      BY <2>1, <2>2, SessionWriteInv
    <2>3. CASE ~ SessionWrite(r)
      <3>1. UNCHANGED sessionVars
        BY <1>3, <2>3, SessionFrame
      <3>2. /\ pc'[r] \notin {"deleteToken", "insertHash"}
            /\ pc'[r] = "validateSession" => pc[r] = "deleteToken"
        BY <1>3, <2>3, SessionFrame
      <3>3. FollowingAt(r)'
        BY <2>1, <3>1, <3>2 DEF FollowingAt, Following, sessionVars, req
      <3>4. Following'
        BY <2>1, <3>1, <3>3, FollowingKept DEF sessionVars
      <3>5. Sessions' /\ HashesOK'
        BY <2>1, <3>1 DEF Sessions, HashesOK, SessionOK, sessionVars, req
      <3> QED BY <3>4, <3>5
    <2> QED BY <2>2, <2>3
  <1> QED BY <1>1, <1>2, <1>3, NextCases

(***************************************************************************)
(* Accounts and keys                                                       *)
(***************************************************************************)
AccountWrite(r) == Register(r) \/ Logout(r) \/ PostTerms(r) \/ WhoAmI(r)
KeyWrite(r) == DropPreviousKey(r) \/ RenameKey(r) \/ InsertKey(r)

LEMMA AccountFrame ==
  ASSUME NEW r \in Requests, Handles(r), ~ AccountWrite(r)
  PROVE  UNCHANGED accountVars
  <1>1. CASE AccountStep(r)
    BY <1>1 DEF AccountWrite, AccountStep, ReadAccessToken, ReadPolicies, ReadMatrixToken, ValidateMatrixToken
  <1>2. CASE SessionStep(r)
    BY <1>2 DEF SessionStep, FindSession, DropSession, IssueToken, StoreSession, VerifyToken, DeleteToken,
                ValidateSession, GetValidated3pid, BindSession, InsertHash, SignBinding, UnbindSession,
                DeleteHashes
  <1>3. CASE InvitationStep(r)
    BY <1>3 DEF InvitationStep, LookupAddress, ReadCurrentKey, ReadPreviousKey, DropPreviousKey, RenameKey,
                InsertKey, InsertInvitation, GetKeys, SignEd25519
  <1>4. CASE QueryFails(r)
    BY <1>4 DEF QueryFails, AccountQueryFails, SessionQueryFails, InvitationQueryFails
  <1>5. CASE Begin(r)
    BY <1>5 DEF Begin
  <1> QED BY <1>1, <1>2, <1>3, <1>4, <1>5 DEF Handles, Step

LEMMA KeyFrame ==
  ASSUME NEW r \in Requests, Handles(r)
  PROVE  /\ ~ KeyWrite(r) => UNCHANGED <<longTermKeypairs, created>>
         /\ ~ InsertInvitation(r) => UNCHANGED invitationTokens
  <1>1. CASE AccountStep(r)
    BY <1>1 DEF AccountStep, ReadAccessToken, ReadPolicies, ReadMatrixToken, WhoAmI, ValidateMatrixToken,
                Register, Logout, PostTerms, keyVars
  <1>2. CASE SessionStep(r)
    BY <1>2 DEF SessionStep, FindSession, DropSession, IssueToken, StoreSession, VerifyToken, DeleteToken,
                ValidateSession, GetValidated3pid, BindSession, InsertHash, SignBinding, UnbindSession,
                DeleteHashes, keyVars
  <1>3. CASE InvitationStep(r)
    BY <1>3 DEF InvitationStep, KeyWrite, LookupAddress, ReadCurrentKey, ReadPreviousKey, DropPreviousKey,
                RenameKey, InsertKey, InsertInvitation, GetKeys, SignEd25519, keyVars
  <1>4. CASE QueryFails(r)
    BY <1>4 DEF QueryFails, AccountQueryFails, SessionQueryFails, InvitationQueryFails, keyVars
  <1>5. CASE Begin(r)
    BY <1>5 DEF Begin, keyVars
  <1> QED BY <1>1, <1>2, <1>3, <1>4, <1>5 DEF Handles, Step

AccountsTyped ==
  /\ late \subseteq Requests
  /\ accessTokens \in [AccessTokens -> Users \union {NoOne}]
  /\ matrixTokens \subseteq {Root}
  /\ unaccepted \subseteq Users /\ accepting \subseteq Users

KeysTyped ==
  /\ longTermKeypairs \in [KeyNames -> Requests \union {Root, NoOne}]
  /\ invitationTokens \in [Requests -> Addresses \union {NoOne}]

LEMMA AccountsTypedStep ==
  ASSUME Typed, Orderly, AccountsTyped, [Next]_vars
  PROVE  AccountsTyped'
  <1>1. CASE UNCHANGED vars
    BY <1>1 DEF vars, frameVars, accountVars, AccountsTyped
  <1>2. CASE Elsewhere
    <2>1. UNCHANGED <<late, accessTokens, matrixTokens>>
      BY <1>2, ElsewhereFrame
    <2>2. unaccepted' \subseteq unaccepted /\ accepting' \subseteq accepting
      BY <1>2 DEF Elsewhere, Expire, OnBind, TermsUpdated, TermsUpdateFails, Restart, Stopped, accountVars
    <2> QED BY <2>1, <2>2 DEF AccountsTyped, AccessTokens
  <1>3. ASSUME NEW r \in Requests, Handles(r) PROVE AccountsTyped'
    <2>1. late' \subseteq Requests
      BY <1>3, HandlesFrame DEF AccountsTyped, Begin
    <2>2. req(r).access \in AccessTokens /\ r \in AccessTokens /\ req(r).user \in Users
      BY TypedRequests DEF AccessTokens
    <2>3. CASE Register(r)
      BY <2>1, <2>2, <2>3 DEF Register, AccountsTyped, AccessTokens
    <2>4. CASE Logout(r)
      BY <2>1, <2>2, <2>4 DEF Logout, AccountsTyped, AccessTokens
    <2>5. CASE PostTerms(r)
      BY <2>1, <2>2, <2>5 DEF PostTerms, AccountsTyped, AccessTokens
    <2>6. CASE WhoAmI(r)
      BY <2>1, <2>6 DEF WhoAmI, AccountsTyped, AccessTokens
    <2>7. CASE ~ AccountWrite(r)
      BY <1>3, <2>1, <2>7, AccountFrame DEF accountVars, AccountsTyped, AccessTokens
    <2> QED BY <2>3, <2>4, <2>5, <2>6, <2>7 DEF AccountWrite
  <1> QED BY <1>1, <1>2, <1>3, NextCases

LEMMA KeysTypedStep ==
  ASSUME Typed, Orderly, KeysTyped, [Next]_vars
  PROVE  KeysTyped'
  <1>1. CASE UNCHANGED vars
    BY <1>1 DEF vars, keyVars, KeysTyped
  <1>2. CASE Elsewhere
    BY <1>2, ElsewhereFrame DEF KeysTyped
  <1>3. ASSUME NEW r \in Requests, Handles(r) PROVE KeysTyped'
    <2>1. invitationTokens' \in [Requests -> Addresses \union {NoOne}]
      <3>1. CASE InsertInvitation(r)
        BY <3>1, TypedRequests DEF InsertInvitation, KeysTyped
      <3> QED BY <1>3, <3>1, KeyFrame DEF KeysTyped
    <2>2. longTermKeypairs' \in [KeyNames -> Requests \union {Root, NoOne}]
      <3>1. CASE DropPreviousKey(r)
        BY <3>1 DEF DropPreviousKey, KeysTyped
      <3>2. CASE InsertKey(r)
        BY <3>2 DEF InsertKey, KeysTyped
      <3>3. CASE RenameKey(r)
        BY <3>3 DEF RenameKey, KeysTyped, KeyNames
      <3> QED BY <1>3, <3>1, <3>2, <3>3, KeyFrame DEF KeyWrite, KeysTyped
    <2> QED BY <2>1, <2>2 DEF KeysTyped
  <1> QED BY <1>1, <1>2, <1>3, NextCases

(***************************************************************************)
(* BindingsConsistent                                                      *)
(***************************************************************************)
ServerInv == Typed /\ Orderly /\ SessionInv /\ AccountsTyped /\ KeysTyped

LEMMA ServerInit == Init => ServerInv
  <1> SUFFICES ASSUME Init PROVE ServerInv
    OBVIOUS
  <1> USE DEF Init
  <1>1. Typed
    BY DEF Typed, Labels, Statuses
  <1>2. Orderly
    BY DEF Orderly, KindAt
  <1>3. NoSession \in SessionRow /\ NoToken \in TokenRow /\ ~ NoToken.live /\ SessionOK(NoSession)
    BY DEF NoSession, NoToken, SessionRow, TokenRow, SessionOK
  <1>4. SessionInv
    BY <1>3 DEF SessionInit, SessionInv, Sessions, Following, HashesOK
  <1>5. AccountsTyped
    BY <1>1, ScenariosAssumption DEF AccountInit, AccountsTyped, ScenarioType, Typed
  <1>6. KeysTyped
    BY DEF KeyInit, KeysTyped
  <1> QED BY <1>1, <1>2, <1>4, <1>5, <1>6 DEF ServerInv

LEMMA ServerStep == ServerInv /\ [Next]_vars => ServerInv'
  BY OrderlyStep, SessionInvStep, AccountsTypedStep, KeysTypedStep DEF ServerInv

LEMMA ServerInvariant == Spec => []ServerInv
  BY ServerInit, ServerStep, PTL DEF Spec

\* BindingsConsistent holds for any number of requests, users and addresses, whatever the
\* handlers of requestToken, submitToken, bind and unbind do to one another between two of
\* their queries: the tables are well-formed, and only a proved address is bound
\* (3pid/bind.ts:75, validate/email/submitToken.ts:44).
THEOREM BoundAddressesAreProved == Spec => []BindingsConsistent
  <1>1. ServerInv => BindingsConsistent
    BY DEF ServerInv, BindingsConsistent, TypeOK, BoundIsProved, Typed, Statuses, SessionInv, Sessions,
           HashesOK, AccountsTyped, KeysTyped, TokenRow
  <1> QED BY <1>1, ServerInvariant, PTL

(***************************************************************************)
(* What a handler does depends on where it is                              *)
(***************************************************************************)
LEMMA HandlesAt ==
  ASSUME NEW r \in Requests, Handles(r)
  PROVE  /\ pc[r] \notin Ended
         /\ pc[r] = "idle" => Begin(r)
         /\ pc[r] = "accessToken" => ReadAccessToken(r) \/ AccountQueryFails(r)
  <1> USE DEF Ended
  <1>1. CASE AccountStep(r)
    BY <1>1 DEF AccountStep, ReadAccessToken, ReadPolicies, ReadMatrixToken, WhoAmI, ValidateMatrixToken,
                Register, Logout, PostTerms
  <1>2. CASE SessionStep(r)
    BY <1>2 DEF SessionStep, FindSession, DropSession, IssueToken, StoreSession, VerifyToken, DeleteToken,
                ValidateSession, GetValidated3pid, BindSession, InsertHash, SignBinding, UnbindSession,
                DeleteHashes
  <1>3. CASE InvitationStep(r)
    BY <1>3 DEF InvitationStep, LookupAddress, ReadCurrentKey, ReadPreviousKey, DropPreviousKey, RenameKey,
                InsertKey, InsertInvitation, GetKeys, SignEd25519
  <1>4. CASE QueryFails(r)
    BY <1>4 DEF QueryFails, AccountQueryFails, SessionQueryFails, InvitationQueryFails, AccountFailure,
                SessionFailure, InvitationFailure
  <1>5. CASE Begin(r)
    BY <1>5 DEF Begin
  <1> QED BY <1>1, <1>2, <1>3, <1>4, <1>5 DEF Handles, Step

\* Who was answered keeps the answer, and a request that is past its first step never returns.
LEMMA AnswersKept ==
  ASSUME Typed, Orderly, [Next]_vars
  PROVE  \A q \in Requests : /\ reply[q] # 0 => reply'[q] = reply[q]
                             /\ pc[q] # "idle" => pc'[q] # "idle"
                             /\ req(q)' = req(q)
  <1> SUFFICES ASSUME NEW q \in Requests
               PROVE  /\ reply[q] # 0 => reply'[q] = reply[q]
                      /\ pc[q] # "idle" => pc'[q] # "idle"
                      /\ req(q)' = req(q)
    OBVIOUS
  <1>1. CASE UNCHANGED vars
    BY <1>1 DEF vars, frameVars, req
  <1>2. CASE Elsewhere
    BY <1>2, ElsewhereFrame DEF req, Running
  <1>3. ASSUME NEW r \in Requests, Handles(r)
        PROVE  /\ reply[q] # 0 => reply'[q] = reply[q]
               /\ pc[q] # "idle" => pc'[q] # "idle"
               /\ req(q)' = req(q)
    <2>1. req(q)' = req(q)
      BY <1>3, HandlesFrame DEF req
    <2>2. reply[r] = 0
      BY <1>3, HandlesAt DEF Orderly, Ended
    <2>3. PICK where \in Labels, status \in Statuses : Moves(r, where, status)
      BY <1>3, HandlesMoves DEF Moved
    <2>4. pc[r] # "idle" => pc'[r] # "idle"
      <3>1. ASSUME NEW to, to # "idle", Goto(r, to) PROVE pc'[r] # "idle"
        BY <3>1 DEF Goto, Typed
      <3>2. ASSUME NEW st, send(r, st) PROVE pc'[r] # "idle"
        BY <3>2 DEF send, Typed
      <3>3. ASSUME Admit(r), req(r).kind \in DOMAIN Handler PROVE pc'[r] # "idle"
        <4>1. Handler[req(r).kind] # "idle"
          BY <3>3 DEF Handler
        <4> QED BY <3>1, <3>2, <3>3, <4>1 DEF Admit, Silent
      <3>4. CASE AccountStep(r)
        <4>1. CASE ReadAccessToken(r) \/ ReadPolicies(r) \/ ReadMatrixToken(r) \/ WhoAmI(r)
          <5>1. req(r).kind \in DOMAIN Handler
            BY <4>1 DEF Orderly, KindAt, ReadAccessToken, ReadPolicies, ReadMatrixToken, WhoAmI
          <5>2. Admit(r) \/ (\E st : send(r, st)) \/ Goto(r, "policies") \/ Goto(r, "whoami")
                  \/ Goto(r, "accessToken")
            BY <4>1 DEF ReadAccessToken, ReadPolicies, ReadMatrixToken, WhoAmI
          <5> QED BY <3>1, <3>2, <3>3, <5>1, <5>2
        <4>2. CASE ValidateMatrixToken(r) \/ Register(r) \/ Logout(r) \/ PostTerms(r)
          BY <3>1, <3>2, <4>2 DEF ValidateMatrixToken, Register, Logout, PostTerms
        <4> QED BY <3>4, <4>1, <4>2 DEF AccountStep
      <3>5. CASE SessionStep(r)
        <4>1. (\E st : send(r, st)) \/ \E to \in Labels \ {"idle"} : Goto(r, to)
          BY <3>5 DEF SessionStep, FindSession, DropSession, IssueToken, StoreSession, VerifyToken, DeleteToken,
                ValidateSession, GetValidated3pid, BindSession, InsertHash, SignBinding, UnbindSession,
                DeleteHashes, Labels
        <4> QED BY <3>1, <3>2, <4>1
      <3>6. CASE InvitationStep(r)
        <4>1. (\E st : send(r, st)) \/ \E to \in Labels \ {"idle"} : Goto(r, to)
          BY <3>6 DEF InvitationStep, LookupAddress, ReadCurrentKey, ReadPreviousKey, DropPreviousKey, RenameKey,
                InsertKey, InsertInvitation, GetKeys, SignEd25519, Silent, Labels, Ended
        <4> QED BY <3>1, <3>2, <4>1
      <3>7. CASE QueryFails(r)
        <4>1. (\E st : send(r, st)) \/ \E to \in Labels \ {"idle"} : Goto(r, to)
          BY <3>7 DEF QueryFails, AccountQueryFails, SessionQueryFails, InvitationQueryFails, Silent, Labels, Ended
        <4> QED BY <3>1, <3>2, <4>1
      <3> QED BY <1>3, <3>4, <3>5, <3>6, <3>7 DEF Handles, Step, Begin
    <2> QED BY <2>1, <2>2, <2>3, <2>4 DEF Moves, Typed
  <1> QED BY <1>1, <1>2, <1>3, NextCases

\* Only logout.ts answers a logout with success, and only the validation of the session a
\* submitted token.
LEMMA WhoSucceeds ==
  ASSUME Typed, Orderly, NEW r \in Requests, Handles(r), reply[r] # 200, reply'[r] = 200
  PROVE  /\ req(r).kind = "logout" => Logout(r)
         /\ req(r).kind = "submit" => ValidateSession(r)
  <1>0. KindAt(req(r).kind, pc[r])
    BY DEF Orderly
  <1>1. ASSUME NEW where, Goto(r, where) PROVE FALSE
    BY <1>1 DEF Goto
  <1>2. ASSUME NEW status, send(r, status), status # 200 PROVE FALSE
    BY <1>2 DEF send, Typed
  <1>3. ~ Admit(r)
    BY <1>1, <1>2 DEF Admit, Silent
  <1>4. CASE AccountStep(r)
    <2>1. ~ (ReadAccessToken(r) \/ ReadPolicies(r) \/ ReadMatrixToken(r) \/ WhoAmI(r) \/ ValidateMatrixToken(r))
      BY <1>1, <1>2, <1>3 DEF ReadAccessToken, ReadPolicies, ReadMatrixToken, WhoAmI, ValidateMatrixToken
    <2> QED BY <1>0, <1>4, <2>1 DEF AccountStep, Register, PostTerms, Logout, KindAt
  <1>5. CASE SessionStep(r)
    <2>1. ~ (VerifyToken(r) \/ DeleteToken(r))
      BY <1>1, <1>2 DEF VerifyToken, DeleteToken
    <2>2. ValidateSession(r) \/ req(r).kind \in {"request", "validated", "bind", "unbind"}
      BY <1>0, <1>5, <2>1 DEF SessionStep, FindSession, DropSession, IssueToken, StoreSession, GetValidated3pid,
                BindSession, InsertHash, SignBinding, UnbindSession, DeleteHashes, KindAt
    <2>3. ValidateSession(r) => req(r).kind = "submit"
      BY <1>0 DEF ValidateSession, KindAt
    <2> QED BY <2>2, <2>3
  <1>6. CASE InvitationStep(r)
    <2>1. req(r).kind \in {"store", "sign"}
      BY <1>0, <1>6 DEF InvitationStep, LookupAddress, ReadCurrentKey, ReadPreviousKey, DropPreviousKey, RenameKey,
                InsertKey, InsertInvitation, GetKeys, SignEd25519, KindAt
    <2> QED BY <2>1
  <1>7. CASE QueryFails(r)
    <2>1. /\ \A l \in DOMAIN AccountFailure : AccountFailure[l] # 200
          /\ \A l \in DOMAIN SessionFailure : SessionFailure[l] # 200
          /\ \A l \in DOMAIN InvitationFailure : InvitationFailure[l] # 200
      BY DEF AccountFailure, SessionFailure, InvitationFailure
    <2> QED BY <1>1, <1>2, <1>7, <2>1 DEF QueryFails, AccountQueryFails, SessionQueryFails, InvitationQueryFails,
                                          Silent
  <1>8. CASE Begin(r)
    BY <1>1, <1>2, <1>8 DEF Begin
  <1> QED BY <1>4, <1>5, <1>6, <1>7, <1>8 DEF Handles, Step

(***************************************************************************)
(* LogoutHolds                                                             *)
(***************************************************************************)
\* A token is used by whoever was given it.
TokensKnown ==
  \A s \in Requests : pc[s] # "idle" /\ req(s).access # Root => reply[req(s).access] = 200

\* A token that was logged out has no row, and stays so: who drew it has been answered.
LogoutsFinal ==
  \A s \in Requests : req(s).kind = "logout" /\ reply[s] = 200 => accessTokens[req(s).access] = NoOne

\* A request that is late gets no further than the query for its token.
LateRefused ==
  \A r \in late :
    /\ LoggedOut(req(r).access)
    /\ scenario.server = "identity" /\ req(r).ok /\ req(r).kind \notin DOMAIN FirstStep =>
         pc[r] \in {"accessToken", "answered", "lost"} /\ reply[r] \in {0, 401}

LogoutInv == TokensKnown /\ LogoutsFinal /\ LateRefused

LEMMA LoggedOutKept ==
  ASSUME Typed, Orderly, [Next]_vars, NEW t, LoggedOut(t)
  PROVE  LoggedOut(t)'
  <1>1. PICK s \in Requests : req(s).kind = "logout" /\ req(s).access = t /\ reply[s] = 200
    BY DEF LoggedOut
  <1>2. req(s)' = req(s) /\ reply'[s] = 200
    BY <1>1, AnswersKept
  <1> QED BY <1>1, <1>2 DEF LoggedOut

LEMMA TokensKnownStep ==
  ASSUME Typed, Orderly, TokensKnown, [Next]_vars
  PROVE  TokensKnown'
  <1> SUFFICES ASSUME NEW s \in Requests, pc'[s] # "idle", req(s)'.access # Root
               PROVE  reply'[req(s)'.access] = 200
    BY DEF TokensKnown
  <1>1. req(s)' = req(s) /\ req(s).access \in Requests
    BY AnswersKept, TypedRequests DEF AccessTokens
  <1>2. CASE pc[s] # "idle"
    BY <1>1, <1>2, AnswersKept DEF TokensKnown
  <1>3. CASE pc[s] = "idle"
    <2>1. PICK r \in Requests : Handles(r)
      <3>1. ~ Elsewhere
        BY <1>3, ElsewhereFrame DEF Running
      <3> QED BY <1>3, <3>1, NextCases DEF vars
    <2>2. r = s
      BY <1>3, <2>1, HandlesMoves DEF Moved, Moves, Typed
    <2>3. reply[req(s).access] = 200
      BY <1>1, <1>3, <2>1, <2>2, HandlesAt DEF Begin, Knows
    <2> QED BY <1>1, <2>3, AnswersKept
  <1> QED BY <1>2, <1>3

LEMMA LogoutsFinalStep ==
  ASSUME Typed, Orderly, AccountsTyped, TokensKnown, LogoutsFinal, [Next]_vars
  PROVE  LogoutsFinal'
  <1> SUFFICES ASSUME NEW s \in Requests, req(s)'.kind = "logout", reply'[s] = 200
               PROVE  accessTokens'[req(s)'.access] = NoOne
    BY DEF LogoutsFinal
  <1>0. req(s)' = req(s) /\ req(s).access \in AccessTokens
    BY AnswersKept, TypedRequests
  <1>1. CASE UNCHANGED vars
    BY <1>0, <1>1 DEF vars, accountVars, LogoutsFinal
  <1>2. CASE Elsewhere
    BY <1>0, <1>2, ElsewhereFrame DEF LogoutsFinal
  <1>3. ASSUME NEW r \in Requests, Handles(r) PROVE accessTokens'[req(s).access] = NoOne
    <2>1. CASE reply[s] # 200
      <3>1. r = s
        BY <1>3, <2>1, HandlesMoves DEF Moved, Moves, Typed
      <3>2. Logout(s)
        BY <1>0, <1>3, <2>1, <3>1, WhoSucceeds
      <3> QED BY <1>0, <3>2 DEF Logout, AccountsTyped
    <2>2. CASE reply[s] = 200
      <3>1. accessTokens[req(s).access] = NoOne
        BY <1>0, <2>2 DEF LogoutsFinal
      <3>2. CASE Register(r)
        <4>1. pc[s] = "answered"
          BY <2>2 DEF Orderly
        <4>2. req(s).access # r
          <5>1. SUFFICES ASSUME req(s).access = r PROVE FALSE
            OBVIOUS
          <5>2. reply[r] = 200
            BY <4>1, <5>1, NamesAssumption DEF TokensKnown
          <5> QED BY <3>2, <5>2 DEF Register, Orderly
        <4> QED BY <1>0, <3>1, <3>2, <4>2 DEF Register, AccountsTyped
      <3>3. CASE Logout(r)
        BY <1>0, <3>1, <3>3 DEF Logout, AccountsTyped
      <3>4. CASE PostTerms(r) \/ WhoAmI(r)
        BY <3>1, <3>4 DEF PostTerms, WhoAmI
      <3> QED BY <1>3, <3>1, <3>2, <3>3, <3>4, AccountFrame DEF AccountWrite, accountVars
    <2> QED BY <2>1, <2>2
  <1> QED BY <1>0, <1>1, <1>2, <1>3, NextCases

LEMMA LateRefusedStep ==
  ASSUME Typed, Orderly, AccountsTyped, LogoutsFinal, LateRefused, [Next]_vars
  PROVE  LateRefused'
  <1> SUFFICES ASSUME NEW q \in late'
               PROVE  /\ LoggedOut(req(q).access)'
                      /\ (scenario.server = "identity" /\ req(q).ok /\ req(q).kind \notin DOMAIN FirstStep)' =>
                           pc'[q] \in {"accessToken", "answered", "lost"} /\ reply'[q] \in {0, 401}
    BY DEF LateRefused
  <1> DEFINE Goal == /\ LoggedOut(req(q).access)'
                     /\ (scenario.server = "identity" /\ req(q).ok /\ req(q).kind \notin DOMAIN FirstStep)' =>
                          pc'[q] \in {"accessToken", "answered", "lost"} /\ reply'[q] \in {0, 401}
  <1>1. CASE UNCHANGED vars
    BY <1>1 DEF vars, frameVars, LateRefused, LoggedOut, req
  <1>2. CASE Elsewhere
    <2>1. q \in late /\ q \in Requests /\ req(q)' = req(q) /\ UNCHANGED <<scenario, reply>>
      BY <1>2, ElsewhereFrame DEF AccountsTyped, req
    <2>2. LoggedOut(req(q).access)'
      BY <2>1, LoggedOutKept DEF LateRefused
    <2>3. pc'[q] = pc[q] \/ pc'[q] = "lost"
      BY <1>2, <2>1, ElsewhereFrame
    <2> QED BY <2>1, <2>2, <2>3 DEF LateRefused
  <1>3. ASSUME NEW r \in Requests, Handles(r) PROVE Goal
    <2>1. q \in Requests /\ req(q)' = req(q) /\ scenario' = scenario /\ (q \in late \/ q = r)
      BY <1>3, HandlesFrame DEF AccountsTyped, Begin, req
    <2>2. LoggedOut(req(q).access)
      BY <1>3, <2>1, HandlesFrame DEF LateRefused, Begin
    <2>3. LoggedOut(req(q).access)'
      BY <2>1, <2>2, LoggedOutKept
    <2>4. ASSUME scenario.server = "identity", req(q).ok, req(q).kind \notin DOMAIN FirstStep
          PROVE  pc'[q] \in {"accessToken", "answered", "lost"} /\ reply'[q] \in {0, 401}
      <3>1. CASE q # r
        <4>1. q \in late /\ pc'[q] = pc[q] /\ reply'[q] = reply[q]
          BY <1>3, <2>1, <3>1, HandlesMoves DEF Moved, Moves, Typed
        <4> QED BY <2>4, <4>1 DEF LateRefused
      <3>2. CASE q = r /\ pc[q] = "idle"
        <4>1. Begin(q) /\ reply[q] = 0
          BY <1>3, <3>2, HandlesAt DEF Orderly
        <4>2. Goto(q, "accessToken")
          BY <2>4, <4>1 DEF Begin
        <4> QED BY <2>1, <4>1, <4>2 DEF Goto, Typed
      <3>3. CASE q = r /\ pc[q] # "idle"
        <4>1. q \in late
          BY <1>3, <2>1, <3>3, HandlesFrame DEF Begin
        <4>2. pc[q] = "accessToken" /\ reply[q] = 0
          BY <1>3, <2>4, <3>3, <4>1, HandlesAt DEF LateRefused, Ended, Orderly
        <4>3. accessTokens[req(q).access] = NoOne
          BY <2>2 DEF LoggedOut, LogoutsFinal
        <4>4. send(q, 401)
          <5>1. CASE ReadAccessToken(q)
            BY <4>3, <5>1 DEF ReadAccessToken
          <5>2. CASE AccountQueryFails(q)
            BY <4>2, <5>2 DEF AccountQueryFails, AccountFailure
          <5> QED BY <1>3, <3>3, <4>2, <5>1, <5>2, HandlesAt
        <4> QED BY <2>1, <4>4 DEF send, Typed
      <3> QED BY <3>1, <3>2, <3>3
    <2> QED BY <2>1, <2>3, <2>4
  <1> QED BY <1>1, <1>2, <1>3, NextCases

\* LogoutHolds: on an identity server, a request that begins after a logout of its token was
\* answered is refused, however many requests are under way, whatever fails and however often
\* the server restarts (account/logout.ts:12).
THEOREM LogoutIsFinal == Spec => []LogoutHolds
  <1>1. Init => LogoutInv
    BY DEF Init, LogoutInv, TokensKnown, LogoutsFinal, LateRefused
  <1>2. ServerInv /\ LogoutInv /\ [Next]_vars => LogoutInv'
    BY TokensKnownStep, LogoutsFinalStep, LateRefusedStep DEF ServerInv, LogoutInv
  <1>3. LogoutInv => LogoutHolds
    BY DEF LogoutInv, LateRefused, LogoutHolds
  <1> QED BY <1>1, <1>2, <1>3, ServerInvariant, PTL DEF Spec

(***************************************************************************)
(* SuccessValidates                                                        *)
(***************************************************************************)
\* A patient client follows a link when its requestToken has been answered, so that session
\* is not stored after the link was followed.
ValidatedInv ==
  scenario.patient =>
    \A r \in Requests : req(r).kind = "submit" =>
      /\ pc[r] # "idle" => reply[req(r).ref] # 0
      /\ reply[r] = 200 /\ mappings[req(r).secret].sid = req(r).ref => mappings[req(r).secret].valid

\* Who changes the table of sessions.
LEMMA MappingsFrame ==
  ASSUME Typed, Orderly, NEW r \in Requests, Handles(r)
  PROVE  UNCHANGED mappings \/ DropSession(r) \/ StoreSession(r) \/ ValidateSession(r)
  <1>1. CASE SessionWrite(r)
    BY <1>1 DEF SessionWrite, FindSession, IssueToken, VerifyToken, DeleteToken, BindSession, InsertHash,
                DeleteHashes
  <1>2. CASE ~ SessionWrite(r)
    BY <1>2, SessionFrame DEF sessionVars
  <1> QED BY <1>1, <1>2

LEMMA ValidatedStep ==
  ASSUME Typed, Orderly, SessionInv, ValidatedInv, [Next]_vars
  PROVE  ValidatedInv'
  <1>1. scenario' = scenario
    BY NextCases, ElsewhereFrame, HandlesFrame DEF vars, frameVars
  <1> SUFFICES ASSUME scenario.patient, NEW q \in Requests, req(q).kind = "submit"
               PROVE  /\ pc'[q] # "idle" => reply'[req(q).ref] # 0
                      /\ reply'[q] = 200 /\ mappings'[req(q).secret].sid = req(q).ref =>
                           mappings'[req(q).secret].valid
    BY <1>1 DEF ValidatedInv, req
  <1>2. req(q).ref \in Requests /\ req(q).secret \in Secrets
    BY TypedRequests
  <1>3. ASSUME pc'[q] # "idle" PROVE reply'[req(q).ref] # 0
    <2>1. CASE pc[q] # "idle"
      BY <1>2, <2>1, AnswersKept DEF ValidatedInv
    <2>2. CASE pc[q] = "idle"
      <3>1. PICK r \in Requests : Handles(r)
        <4>1. ~ Elsewhere
          BY <1>3, <2>2, ElsewhereFrame DEF Running
        <4> QED BY <1>3, <2>2, <4>1, NextCases DEF vars
      <3>2. r = q
        BY <1>3, <2>2, <3>1, HandlesMoves DEF Moved, Moves, Typed
      <3>3. reply[req(q).ref] # 0
        BY <2>2, <3>1, <3>2, HandlesAt DEF Begin, Knows
      <3> QED BY <1>2, <3>3, AnswersKept
    <2> QED BY <2>1, <2>2
  <1>4. ASSUME reply'[q] = 200, mappings'[req(q).secret].sid = req(q).ref
        PROVE  mappings'[req(q).secret].valid
    <2>1. CASE UNCHANGED <<reply, mappings>>
      BY <1>4, <2>1 DEF ValidatedInv
    <2>2. ASSUME NEW r \in Requests, Handles(r) PROVE mappings'[req(q).secret].valid
      <3>0. mappings \in [Secrets -> SessionRow] /\ req(r).secret \in Secrets
        BY TypedRequests DEF SessionInv, Sessions
      <3>1. CASE ValidateSession(r) /\ req(r).secret = req(q).secret
                 /\ mappings[req(q).secret].sid = req(r).ref
        <4>1. mappings'[req(q).secret] = [mappings[req(q).secret] EXCEPT !.valid = TRUE]
          BY <3>0, <3>1 DEF ValidateSession
        <4> QED BY <1>2, <3>0, <4>1 DEF SessionRow
      <3>2. CASE DropSession(r) \/ ValidateSession(r) \/ UNCHANGED mappings
        <4>0. CASE mappings'[req(q).secret] = mappings[req(q).secret]
          <5>1. CASE reply[q] = 200
            BY <1>4, <4>0, <5>1 DEF ValidatedInv
          <5>2. CASE reply[q] # 200
            <6>1. r = q
              BY <1>4, <2>2, <5>2, HandlesMoves DEF Moved, Moves, Typed
            <6>2. ValidateSession(q)
              BY <1>4, <2>2, <5>2, <6>1, WhoSucceeds
            <6> QED BY <1>4, <3>1, <4>0, <6>1, <6>2
          <5> QED BY <5>1, <5>2
        <4>1. CASE DropSession(r)
          <5>1. mappings'[req(q).secret] \in {NoSession, mappings[req(q).secret]}
            BY <1>2, <3>0, <4>1 DEF DropSession
          <5>2. NoSession.sid # req(q).ref
            BY <1>2, NamesAssumption DEF NoSession
          <5> QED BY <1>4, <4>0, <5>1, <5>2
        <4>2. CASE ValidateSession(r)
          <5>1. CASE req(r).secret # req(q).secret \/ mappings[req(q).secret].sid # req(r).ref
            BY <1>2, <3>0, <4>0, <4>2, <5>1 DEF ValidateSession
          <5> QED BY <3>1, <4>2, <5>1
        <4> QED BY <3>2, <4>0, <4>1, <4>2
      <3>3. CASE StoreSession(r)
        <4>1. pc[r] = "storeSession" /\ reply[r] = 0 /\ req(r).kind = "request"
          BY <3>3 DEF StoreSession, Orderly, KindAt
        <4>2. r # q /\ reply[q] = 200
          BY <1>4, <2>2, <4>1, HandlesMoves DEF Moved, Moves, Typed
        <4>3. req(q).ref # r
          BY <4>1, <4>2 DEF ValidatedInv, Orderly
        <4>4. mappings'[req(q).secret] = mappings[req(q).secret] \/ mappings'[req(q).secret].sid = r
          BY <1>2, <3>0, <3>3 DEF StoreSession
        <4> QED BY <1>4, <4>2, <4>3, <4>4 DEF ValidatedInv
      <3> QED BY <2>2, <3>2, <3>3, MappingsFrame
    <2> QED BY <2>1, <2>2, NextCases, ElsewhereFrame DEF vars, sessionVars
  <1> QED BY <1>3, <1>4

\* SuccessValidates: a link that is followed after requestToken has answered, and followed with
\* success, has validated its session if there still is one, for any number of requests on any
\* number of secrets (validate/email/submitToken.ts:44).
THEOREM FollowedLinksValidate == Spec => []SuccessValidates
  <1>1. Init => ValidatedInv
    BY DEF Init, ValidatedInv
  <1>2. ServerInv /\ ValidatedInv /\ [Next]_vars => ValidatedInv'
    BY ValidatedStep DEF ServerInv
  <1>3. ValidatedInv => SuccessValidates
    BY DEF ValidatedInv, SuccessValidates, SessionOf
  <1> QED BY <1>1, <1>2, <1>3, ServerInvariant, PTL DEF Spec

(***************************************************************************)
(* LatestKeyKept                                                           *)
(***************************************************************************)
Exchanging(r) == pc[r] \in {"previousKey", "dropKey", "renameKey"}

\* One invitation is stored at a time, and while it exchanges the keys there is a current one.
OneExchange ==
  scenario.serial =>
    /\ \A r, s \in Requests : req(r).kind = "store" /\ req(s).kind = "store" /\ Running(r) /\ Running(s) => r = s
    /\ \A r \in Requests : Exchanging(r) => longTermKeypairs["currentKey"] # NoOne

\* The key created last is the current one, or the previous one when none is current.
LatestIsThere ==
  scenario.serial =>
    /\ longTermKeypairs["currentKey"] # NoOne => longTermKeypairs["currentKey"] = created
    /\ created # NoOne /\ longTermKeypairs["currentKey"] = NoOne => longTermKeypairs["previousKey"] = created

KeyInv == OneExchange /\ LatestIsThere

LEMMA ExchangingRuns ==
  ASSUME Orderly, NEW r \in Requests, pc[r] \in {"previousKey", "dropKey", "renameKey", "insertKey"}
  PROVE  Running(r) /\ req(r).kind = "store"
  BY DEF Orderly, KindAt, Running, Ended

\* An exchange begins at a current key.
LEMMA ExchangeBegins ==
  ASSUME Typed, Orderly, NEW r \in Requests, Handles(r), ~ KeyWrite(r), Exchanging(r)'
  PROVE  ReadCurrentKey(r) \/ ReadPreviousKey(r)
  <1>0. ASSUME NEW where, Goto(r, where) PROVE pc'[r] = where
    BY <1>0 DEF Typed, Goto
  <1>1. ASSUME NEW status, send(r, status) PROVE FALSE
    BY <1>1 DEF Typed, send, Exchanging
  <1>2. ASSUME Admit(r), req(r).kind \in DOMAIN Handler PROVE FALSE
    <2>1. Handler[req(r).kind] \notin {"previousKey", "dropKey", "renameKey"}
      BY <1>2 DEF Handler
    <2> QED BY <1>0, <1>1, <1>2, <2>1 DEF Admit, Silent, Exchanging
  <1>3. ASSUME NEW where \in {"policies", "whoami", "accessToken", "session", "issueToken", "dropSession",
                              "storeSession", "deleteToken", "validateSession", "insertHash", "signBinding",
                              "deleteHashes", "currentKey", "insertKey", "insertInvitation", "getKeys", "silent",
                              "verifyToken", "validate", "matrixToken"},
               Goto(r, where)
        PROVE  FALSE
    BY <1>0, <1>3 DEF Exchanging
  <1>4. ~ AccountStep(r)
    <2>1. ~ (ReadAccessToken(r) \/ ReadPolicies(r) \/ ReadMatrixToken(r) \/ WhoAmI(r))
      <3> SUFFICES ASSUME ReadAccessToken(r) \/ ReadPolicies(r) \/ ReadMatrixToken(r) \/ WhoAmI(r) PROVE FALSE
        OBVIOUS
      <3>1. req(r).kind \in DOMAIN Handler
        BY DEF Orderly, KindAt, ReadAccessToken, ReadPolicies, ReadMatrixToken, WhoAmI
      <3> QED BY <1>1, <1>2, <1>3, <3>1 DEF ReadAccessToken, ReadPolicies, ReadMatrixToken, WhoAmI
    <2> QED BY <1>1, <1>3, <2>1 DEF AccountStep, ValidateMatrixToken, Register, Logout, PostTerms
  <1>5. ~ SessionStep(r)
    BY <1>1, <1>3 DEF SessionStep, FindSession, DropSession, IssueToken, StoreSession, VerifyToken, DeleteToken,
              ValidateSession, GetValidated3pid, BindSession, InsertHash, SignBinding, UnbindSession, DeleteHashes
  <1>6. ~ QueryFails(r)
    BY <1>1, <1>3 DEF QueryFails, AccountQueryFails, SessionQueryFails, InvitationQueryFails, Silent
  <1>7. ~ Begin(r)
    BY <1>1, <1>3 DEF Begin, FirstStep
  <1>8. InvitationStep(r)
    BY <1>4, <1>5, <1>6, <1>7 DEF Handles, Step
  <1> QED BY <1>1, <1>3, <1>8 DEF InvitationStep, LookupAddress, InsertInvitation, GetKeys, SignEd25519, KeyWrite

LEMMA OneExchangeStep ==
  ASSUME Typed, Orderly, KeysTyped, OneExchange, [Next]_vars
  PROVE  OneExchange'
  <1>0. scenario' = scenario /\ \A q \in Requests : req(q)' = req(q)
    BY NextCases, ElsewhereFrame, HandlesFrame DEF vars, frameVars, req
  <1> SUFFICES ASSUME scenario.serial
               PROVE  /\ \A p, s \in Requests :
                           req(p).kind = "store" /\ req(s).kind = "store" /\ Running(p)' /\ Running(s)' => p = s
                      /\ \A s \in Requests : Exchanging(s)' => longTermKeypairs'["currentKey"] # NoOne
    BY <1>0 DEF OneExchange
  <1>1. CASE UNCHANGED <<pc, longTermKeypairs>>
    BY <1>1 DEF OneExchange, Running, Exchanging
  <1>2. CASE Elsewhere
    <2>1. UNCHANGED longTermKeypairs /\ \A q \in Requests : pc'[q] = pc[q] \/ pc'[q] = "lost"
      BY <1>2, ElsewhereFrame
    <2> QED BY <2>1 DEF OneExchange, Running, Exchanging, Ended
  <1>3. ASSUME NEW r \in Requests, Handles(r)
        PROVE  /\ \A p, s \in Requests :
                    req(p).kind = "store" /\ req(s).kind = "store" /\ Running(p)' /\ Running(s)' => p = s
               /\ \A s \in Requests : Exchanging(s)' => longTermKeypairs'["currentKey"] # NoOne
    <2>1. \A q \in Requests \ {r} : pc'[q] = pc[q]
      BY <1>3, HandlesMoves DEF Moved, Moves, Typed
    <2>2. Running(r) \/ Begin(r)
      BY <1>3, HandlesAt DEF Running
    <2>3. ASSUME req(r).kind = "store", NEW s \in Requests, s # r, req(s).kind = "store" PROVE ~ Running(s)
      BY <2>2, <2>3 DEF OneExchange, Begin, Knows
    <2>4. ASSUME NEW p \in Requests, NEW s \in Requests, req(p).kind = "store", req(s).kind = "store",
                 Running(p)', Running(s)'
          PROVE  p = s
      BY <2>1, <2>3, <2>4 DEF OneExchange, Running
    <2>5. ASSUME NEW s \in Requests, Exchanging(s)' PROVE longTermKeypairs'["currentKey"] # NoOne
      <3>1. CASE KeyWrite(r)
        <4>1. pc[r] \in {"dropKey", "renameKey", "insertKey"} /\ req(r).kind = "store" /\ pc'[r] # "previousKey"
          BY <3>1, ExchangingRuns DEF KeyWrite, DropPreviousKey, RenameKey, InsertKey, Goto, Silent, Typed
        <4>2. s = r
          <5>1. SUFFICES ASSUME s # r PROVE FALSE
            OBVIOUS
          <5>2. Running(s) /\ req(s).kind = "store"
            BY <2>1, <2>5, <5>1, ExchangingRuns DEF Exchanging
          <5> QED BY <2>3, <4>1, <5>1, <5>2
        <4>3. DropPreviousKey(r)
          BY <2>5, <3>1, <4>2 DEF KeyWrite, RenameKey, InsertKey, Goto, Silent, Exchanging, Typed
        <4>4. longTermKeypairs["currentKey"] # NoOne
          BY <4>3 DEF DropPreviousKey, OneExchange, Exchanging
        <4> QED BY <4>3, <4>4 DEF DropPreviousKey, KeysTyped, KeyNames
      <3>2. CASE ~ KeyWrite(r)
        <4>1. UNCHANGED longTermKeypairs
          BY <1>3, <3>2, KeyFrame
        <4>2. CASE s # r
          BY <2>1, <2>5, <4>1, <4>2 DEF OneExchange, Exchanging
        <4>3. CASE s = r
          <5>1. ReadCurrentKey(r) \/ ReadPreviousKey(r)
            BY <1>3, <2>5, <3>2, <4>3, ExchangeBegins
          <5>2. CASE ReadCurrentKey(r)
            BY <2>5, <4>1, <4>3, <5>2 DEF ReadCurrentKey, Goto, Exchanging, Typed
          <5>3. CASE ReadPreviousKey(r)
            BY <4>1, <5>3 DEF ReadPreviousKey, OneExchange, Exchanging
          <5> QED BY <5>1, <5>2, <5>3
        <4> QED BY <4>2, <4>3
      <3> QED BY <3>1, <3>2
    <2> QED BY <2>4, <2>5
  <1> QED BY <1>1, <1>2, <1>3, NextCases DEF vars, keyVars

LEMMA LatestIsThereStep ==
  ASSUME Typed, Orderly, KeysTyped, OneExchange, LatestIsThere, [Next]_vars
  PROVE  LatestIsThere'
  <1>0. scenario' = scenario
    BY NextCases, ElsewhereFrame, HandlesFrame DEF vars, frameVars
  <1>1. CASE UNCHANGED <<longTermKeypairs, created>>
    BY <1>0, <1>1 DEF LatestIsThere
  <1>2. ASSUME NEW r \in Requests, KeyWrite(r) PROVE LatestIsThere'
    <2>0. longTermKeypairs \in [KeyNames -> Requests \union {Root, NoOne}]
          /\ "currentKey" \in KeyNames /\ "previousKey" \in KeyNames
      BY DEF KeysTyped, KeyNames
    <2>1. CASE DropPreviousKey(r)
      <3>1. scenario.serial => longTermKeypairs["currentKey"] # NoOne
        BY <2>1 DEF DropPreviousKey, OneExchange, Exchanging
      <3> QED BY <1>0, <2>0, <2>1, <3>1 DEF DropPreviousKey, LatestIsThere
    <2>2. CASE RenameKey(r)
      <3>1. scenario.serial => longTermKeypairs["currentKey"] # NoOne
        BY <2>2 DEF RenameKey, OneExchange, Exchanging
      <3> QED BY <1>0, <2>0, <2>2, <3>1 DEF RenameKey, LatestIsThere
    <2>3. CASE InsertKey(r)
      BY <1>0, <2>0, <2>3, NamesAssumption DEF InsertKey, LatestIsThere
    <2> QED BY <1>2, <2>1, <2>2, <2>3 DEF KeyWrite
  <1> QED BY <1>1, <1>2, NextCases, ElsewhereFrame, KeyFrame DEF vars, keyVars

\* LatestKeyKept: with invitations stored one at a time, the public key of the pair created
\* last is in the table at every moment, in the middle of an exchange and after one that an
\* error or a restart cut short (db/index.ts:763).
THEOREM LatestKeyStays == Spec => []LatestKeyKept
  <1>1. Init => KeyInv
    BY DEF Init, KeyInit, KeyInv, OneExchange, LatestIsThere, Running, Exchanging
  <1>2. ServerInv /\ KeyInv /\ [Next]_vars => KeyInv'
    BY OneExchangeStep, LatestIsThereStep DEF ServerInv, KeyInv
  <1>3. KeyInv => LatestKeyKept
    BY DEF KeyInv, LatestIsThere, LatestKeyKept, getPubkey, KeyNames
  <1> QED BY <1>1, <1>2, <1>3, ServerInvariant, PTL DEF Spec

=============================================================================

--------------------------- MODULE IdentityServer ---------------------------
(***************************************************************************)
(* The requests of modules IdentityRequests, AddressSessions and           *)
(* StoredInvitations together, on one database.                            *)
(***************************************************************************)
EXTENDS StoredInvitations

Init ==
  /\ scenario \in Scenarios
  /\ pc = [r \in Requests |-> "idle"]
  /\ reply = [r \in Requests |-> 0]
  /\ late = {}
  /\ faults = 0
  /\ AccountInit /\ SessionInit /\ KeyInit

Step(r) == AccountStep(r) \/ SessionStep(r) \/ InvitationStep(r)

QueryFails(r) == AccountQueryFails(r) \/ SessionQueryFails(r) \/ InvitationQueryFails(r)

Next ==
  \/ \E r \in Requests : Begin(r) \/ Step(r) \/ QueryFails(r) \/ Expire(r) \/ OnBind(r)
  \/ \E u \in Users : TermsUpdated(u) \/ TermsUpdateFails(u)
  \/ Restart

\* A query that was sent is answered.
Fairness ==
  /\ \A r \in Requests : WF_vars(Step(r)) /\ WF_vars(OnBind(r))
  /\ \A u \in Users : WF_vars(TermsUpdated(u))

Spec == Init /\ [][Next]_vars /\ Fairness

(***************************************************************************)
(* Properties                                                              *)
(***************************************************************************)
Labels ==
  {"idle", "matrixToken", "whoami", "accessToken", "policies", "validate", "session", "verifyToken",
   "deleteToken", "validateSession", "dropSession", "issueToken", "storeSession", "insertHash",
   "signBinding", "deleteHashes", "currentKey", "previousKey", "dropKey", "renameKey", "insertKey",
   "insertInvitation", "getKeys"}
  \union Ended \union {Handler[k] : k \in DOMAIN Handler}

TypeOK ==
  /\ scenario \in Scenarios
  /\ pc \in [Requests -> Labels]
  /\ reply \in [Requests -> {0, 200, 400, 401, 403, 404, 500}]
  /\ late \subseteq Requests
  /\ accessTokens \in [AccessTokens -> Users \union {NoOne}]
  /\ matrixTokens \subseteq {Root}
  /\ unaccepted \subseteq Users /\ accepting \subseteq Users
  /\ oneTimeTokens \in [Requests -> [sid : Requests \union {NoOne}, secret : Secrets \union {NoOne},
                                     email : Addresses \union {NoOne}, live : BOOLEAN]]
  /\ mailed \subseteq Requests /\ proved \subseteq Addresses
  /\ \A h \in hashes : h.hash.text \in Addresses /\ h.value \in Users
  /\ longTermKeypairs \in [KeyNames -> Requests \union {Root, NoOne}]
  /\ invitationTokens \in [Requests -> Addresses \union {NoOne}]

\* Whoever is found under an address has proved it: a token that was mailed to that address
\* was submitted.  Two sessions for one secret, a session replaced while its link is followed,
\* retries, restarts and failed queries do not change that (3pid/bind.ts:75,
\* validate/email/submitToken.ts:44).
BoundIsProved == \A h \in hashes : h.hash.text \in proved

\* The tables are well-formed in the middle of any handler, and bindings are proved.
BindingsConsistent == TypeOK /\ BoundIsProved

\* A link that was followed with success validated its session, when the link was followed
\* after requestToken had answered.  Before that the session may not be stored yet: the mail
\* leaves first (validate/email/requestToken.ts:105), and the token is used up for nothing.
SuccessValidates ==
  scenario.patient =>
    \A r \in Requests :
      req(r).kind = "submit" /\ reply[r] = 200 /\ SessionOf(r) # NoSession => SessionOf(r).valid

\* While invitations are stored one at a time, the key pair created last can be asked for at
\* any moment, in the middle of an exchange and after one that was cut short
\* (db/index.ts:763).
LatestKeyKept == scenario.serial /\ created # NoOne => getPubkey(created)

\* A request that begins after a logout of its token was answered is refused, whatever was
\* under way then (account/logout.ts:12).
LogoutHolds ==
  scenario.server = "identity" =>
    \A r \in late : req(r).ok /\ req(r).kind \notin DOMAIN FirstStep => reply[r] \in {0, 401}

\* Every request is answered as long as no query fails, except an unbind without a session
\* (3pid/unbind.ts:100) and invitations stored at the same time, of which the second may wait
\* for a key that is never inserted (db/index.ts:790).
Answered ==
  \A r \in Requests :
    scenario.serial /\ (req(r).kind = "unbind" => req(r).ok) =>
      (pc[r] # "idle" ~> (reply[r] # 0 \/ faults > 0))
=============================================================================

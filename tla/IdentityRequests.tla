-------------------------- MODULE IdentityRequests --------------------------
(***************************************************************************)
(* The requests that an identity server handles at the same time, the      *)
(* tables they share, and who may make them: Authenticate of the identity  *)
(* server and of tom-server, register, logout and the acceptance of terms. *)
(*                                                                         *)
(* A handler goes from one query to the next; pc says which query a        *)
(* request sends next.  Between two of them any other request may run.     *)
(* What a request is given (scenario.req) is chosen once; identifiers that *)
(* the server draws at random are the request that drew them, so they are  *)
(* distinct.                                                               *)
(***************************************************************************)
EXTENDS Naturals, FiniteSets

CONSTANTS
  Requests,     \* identifiers of requests
  Users,        \* Matrix users
  Addresses,    \* e-mail addresses
  Secrets,      \* client secrets
  Root,         \* an access token from before
  NoOne,        \* no user, no key, no token
  Scenarios,    \* see ScenarioType
  MaxFaults     \* failing queries, failing calls and restarts, together

\* server: which Authenticate is installed; owner: the user of the token Root; refused: the
\* users with a policy they have not accepted; patient: links in mails are followed after
\* requestToken has answered; serial: one invitation is stored at a time.
ScenarioType ==
  [server : {"identity", "tom"}, owner : Users, refused : SUBSET Users, patient : BOOLEAN,
   serial : BOOLEAN,
   req : [Requests ->
            [kind : {"none", "register", "logout", "terms", "request", "submit", "validated", "bind",
                     "unbind", "store", "sign"},
             ok : BOOLEAN, access : Requests \union {Root}, user : Users, secret : Secrets,
             address : Addresses, attempt : 1..2, ref : Requests]]]

ASSUME ScenariosAssumption == Scenarios \subseteq ScenarioType

\* NoOne is not the name of anything, and the token from before is not one that is drawn.
ASSUME NamesAssumption ==
  /\ NoOne \notin Requests \union {Root} \union Users \union Addresses \union Secrets
  /\ Root \notin Requests

VARIABLES
  scenario,       \* chosen once
  pc, reply,      \* per request: the query it is at, and the status it was answered with
  late,           \* history: requests begun after a logout of their token was answered
  accessTokens, matrixTokens, unaccepted, accepting,     \* accounts
  mappings, oneTimeTokens, mailed, hashes, found, proved, \* sessions (AddressSessions)
  longTermKeypairs, invitationTokens, seen, created, onbind, \* keys (StoredInvitations)
  faults

frameVars == <<scenario, late>>
accountVars == <<accessTokens, matrixTokens, unaccepted, accepting>>
sessionVars == <<mappings, oneTimeTokens, mailed, hashes, found, proved>>
keyVars == <<longTermKeypairs, invitationTokens, seen, created, onbind>>
vars == <<frameVars, pc, reply, accountVars, sessionVars, keyVars, faults>>

req(r) == scenario.req[r]
AccessTokens == Requests \union {Root}

\* The handler is done: answered, stuck without an answer, or gone with its server.
Ended == {"answered", "silent", "lost"}
Running(r) == pc[r] \notin Ended \union {"idle"}

Goto(r, where) == pc' = [pc EXCEPT ![r] = where] /\ UNCHANGED reply
\* send(res, status, ...)
send(r, status) == pc' = [pc EXCEPT ![r] = "answered"] /\ reply' = [reply EXCEPT ![r] = status]
\* Nothing is sent and nothing will be.
Silent(r) == Goto(r, "silent")

Fault == faults < MaxFaults /\ faults' = faults + 1

AccountInit ==
  /\ accessTokens = [t \in AccessTokens |->
                       IF t = Root /\ scenario.server = "identity" THEN scenario.owner ELSE NoOne]
  /\ matrixTokens = {}
  /\ unaccepted = scenario.refused
  /\ accepting = {}

(***************************************************************************)
(* A request arrives.  A client knows a session, a token or a link from    *)
(* the answer or the mail that carried it.                                 *)
(***************************************************************************)
Knows(r) ==
  /\ req(r).access # Root => reply[req(r).access] = 200
  /\ req(r).kind = "submit" =>
       req(r).ref \in mailed /\ (scenario.patient => reply[req(r).ref] # 0)
  /\ req(r).kind \in {"validated", "bind", "unbind"} => req(r).ref \in mailed
  /\ req(r).kind = "store" /\ scenario.serial =>
       \A s \in Requests : req(s).kind = "store" => ~ Running(s)

LoggedOut(t) == \E s \in Requests : req(s).kind = "logout" /\ req(s).access = t /\ reply[s] = 200

FirstStep == [kind \in {"submit", "register"} |-> IF kind = "submit" THEN "verifyToken" ELSE "validate"]

\* getValidated3pid looks at its parameters before the token.
Begin(r) ==
  /\ pc[r] = "idle" /\ req(r).kind # "none" /\ Knows(r)
  /\ IF req(r).kind = "validated" /\ ~ req(r).ok THEN send(r, 400)
     ELSE Goto(r, IF req(r).kind \in DOMAIN FirstStep THEN FirstStep[req(r).kind]
                  ELSE IF scenario.server = "tom" THEN "matrixToken" ELSE "accessToken")
  /\ late' = IF LoggedOut(req(r).access) THEN late \union {r} ELSE late
  /\ UNCHANGED <<scenario, accountVars, sessionVars, keyVars, faults>>

(***************************************************************************)
(* Authenticate                                                            *)
(***************************************************************************)
\* The first query of each handler; a request that lacks a parameter or has a malformed one
\* is answered before it, except an unbind, which is not answered at all.
Handler ==
  [logout |-> "logout", terms |-> "userOfToken", request |-> "findSession", validated |-> "readSession",
   bind |-> "bindSession", unbind |-> "unbindSession", store |-> "lookup", sign |-> "invitation"]

Admit(r) ==
  IF req(r).ok \/ req(r).kind = "logout" THEN Goto(r, Handler[req(r).kind])
  ELSE IF req(r).kind = "unbind" THEN Silent(r) ELSE send(r, 400)

\* Mutant: the row of the token is not asked for.
ReadAccessTokenUnchecked(r) ==
  /\ pc[r] = "accessToken"
  /\ Goto(r, IF req(r).kind = "terms" THEN Handler["terms"] ELSE "policies")
  /\ UNCHANGED <<frameVars, accountVars, sessionVars, keyVars, faults>>

ReadAccessToken(r) ==
  /\ pc[r] = "accessToken"
  /\ IF accessTokens[req(r).access] = NoOne THEN send(r, 401)
     ELSE IF req(r).kind = "terms" THEN Admit(r) ELSE Goto(r, "policies")
  /\ UNCHANGED <<frameVars, accountVars, sessionVars, keyVars, faults>>

UserOf(r) == IF req(r).access = Root THEN scenario.owner ELSE req(req(r).access).user

ReadPolicies(r) ==
  /\ pc[r] = "policies"
  /\ IF UserOf(r) \in unaccepted THEN send(r, 403) ELSE Admit(r)
  /\ UNCHANGED <<frameVars, accountVars, sessionVars, keyVars, faults>>

\* tom-server looks into its own table of Matrix tokens first, and asks for no terms then.
ReadMatrixToken(r) ==
  /\ pc[r] = "matrixToken"
  /\ IF req(r).access \in matrixTokens THEN Admit(r) ELSE Goto(r, "whoami")
  /\ UNCHANGED <<frameVars, accountVars, sessionVars, keyVars, faults>>

\* whoami of the homeserver knows the token Root; the row is inserted without waiting for it.
WhoAmI(r) ==
  /\ pc[r] = "whoami"
  /\ IF req(r).access = Root
     THEN Admit(r) /\ matrixTokens' = matrixTokens \union {Root}
     ELSE Goto(r, "accessToken") /\ UNCHANGED matrixTokens
  /\ UNCHANGED <<frameVars, accessTokens, unaccepted, accepting, sessionVars, keyVars, faults>>

(***************************************************************************)
(* Register, Logout, PostTerms                                             *)
(***************************************************************************)
\* The Matrix server confirms the OpenID token or it does not.
ValidateMatrixToken(r) ==
  /\ pc[r] = "validate"
  /\ IF ~ req(r).ok THEN send(r, 400) ELSE send(r, 401) \/ Goto(r, "session")
  /\ UNCHANGED <<frameVars, accountVars, sessionVars, keyVars, faults>>

Register(r) ==
  /\ pc[r] = "session"
  /\ send(r, 200)
  /\ accessTokens' = [accessTokens EXCEPT ![r] = req(r).user]
  /\ UNCHANGED <<frameVars, matrixTokens, unaccepted, accepting, sessionVars, keyVars, faults>>

Logout(r) ==
  /\ pc[r] = "logout"
  /\ send(r, 200)
  /\ accessTokens' = [accessTokens EXCEPT ![req(r).access] = NoOne]
  /\ UNCHANGED <<frameVars, matrixTokens, unaccepted, accepting, sessionVars, keyVars, faults>>

\* The updates are sent and the answer does not wait for them; without a row in accessTokens
\* (a Matrix token on tom-server) reading its user throws.
PostTerms(r) ==
  /\ pc[r] = "userOfToken"
  /\ IF accessTokens[req(r).access] = NoOne THEN send(r, 500) /\ UNCHANGED accepting
     ELSE send(r, 200) /\ accepting' = accepting \union {accessTokens[req(r).access]}
  /\ UNCHANGED <<frameVars, accessTokens, matrixTokens, unaccepted, sessionVars, keyVars, faults>>

TermsUpdated(u) ==
  /\ u \in accepting
  /\ accepting' = accepting \ {u}
  /\ unaccepted' = unaccepted \ {u}
  /\ UNCHANGED <<frameVars, pc, reply, accessTokens, matrixTokens, sessionVars, keyVars, faults>>

\* The server stops; its requests and the updates it had not sent are gone.
Stopped ==
  /\ pc' = [r \in Requests |-> IF Running(r) THEN "lost" ELSE pc[r]]
  /\ accepting' = {}
  /\ onbind' = [r \in Requests |-> IF onbind[r] = "pending" THEN "lost" ELSE onbind[r]]

Restart ==
  /\ Fault /\ Stopped
  /\ UNCHANGED <<frameVars, reply, accessTokens, matrixTokens, unaccepted, sessionVars,
                 longTermKeypairs, invitationTokens, seen, created>>

\* An update fails after the answer: the second answer throws and nobody handles it.
TermsUpdateFails(u) ==
  /\ u \in accepting /\ Fault /\ Stopped
  /\ UNCHANGED <<frameVars, reply, accessTokens, matrixTokens, unaccepted, sessionVars,
                 longTermKeypairs, invitationTokens, seen, created>>

(***************************************************************************)
(* A query of one of these handlers fails.                                 *)
(***************************************************************************)
AccountFailure ==
  [accessToken |-> 401, policies |-> 403, whoami |-> 401, session |-> 500, logout |-> 401,
   userOfToken |-> 500]

AccountQueryFails(r) ==
  /\ Fault
  /\ \/ pc[r] \in DOMAIN AccountFailure /\ send(r, AccountFailure[pc[r]])
     \/ pc[r] = "matrixToken" /\ Goto(r, "whoami")
  /\ UNCHANGED <<frameVars, accountVars, sessionVars, keyVars>>

AccountStep(r) ==
  \/ ReadAccessToken(r) \/ ReadPolicies(r) \/ ReadMatrixToken(r) \/ WhoAmI(r)
  \/ ValidateMatrixToken(r) \/ Register(r) \/ Logout(r) \/ PostTerms(r)
=============================================================================

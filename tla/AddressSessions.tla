-------------------------- MODULE AddressSessions --------------------------
(***************************************************************************)
(* How an address is proved and bound to a Matrix user: requestToken,      *)
(* submitToken, getValidated3pid, bind and unbind of the identity server.  *)
(*                                                                         *)
(* mappings has the client secret as primary key, oneTimeTokens the token, *)
(* hashes the hash of the address.  The pepper does not change here        *)
(* (module IdentityHashes has its rotation), so an address has one hash.   *)
(* Time appears only as the expiry of tokens.                              *)
(***************************************************************************)
EXTENDS IdentityRequests

NoSession == [sid |-> NoOne, address |-> NoOne, valid |-> FALSE, attempt |-> 0]
NoToken == [sid |-> NoOne, secret |-> NoOne, email |-> NoOne, live |-> FALSE]

\* A value that is looked for in the column hash: the digest of an address, or plain text.
HashOf(a) == [text |-> a, digest |-> TRUE]
PlainText(a) == [text |-> a, digest |-> FALSE]

SessionInit ==
  /\ mappings = [c \in Secrets |-> NoSession]
  /\ oneTimeTokens = [t \in Requests |-> NoToken]
  /\ mailed = {}
  /\ hashes = {}
  /\ found = [r \in Requests |-> NoSession]
  /\ proved = {}

\* Several handlers read the session that a sid and a secret name.
SessionOf(r) ==
  LET row == mappings[req(r).secret]
  IN  IF row.sid = req(r).ref THEN row ELSE NoSession

(***************************************************************************)
(* RequestToken                                                            *)
(***************************************************************************)
\* The same attempt again is answered with the session there is.
FindSession(r) ==
  /\ pc[r] = "findSession"
  /\ LET row == mappings[req(r).secret]
     IN  CASE row.address # req(r).address -> Goto(r, "issueToken")
           [] row.address = req(r).address /\ row.attempt = req(r).attempt -> send(r, 200)
           [] OTHER -> Goto(r, "dropSession")
  /\ found' = [found EXCEPT ![r] = mappings[req(r).secret]]
  /\ UNCHANGED <<frameVars, accountVars, mappings, oneTimeTokens, mailed, hashes, proved, keyVars, faults>>

\* Its one-time token stays.
DropSession(r) ==
  /\ pc[r] = "dropSession"
  /\ Goto(r, "issueToken")
  /\ mappings' = [mappings EXCEPT ![req(r).secret] = IF @.sid = found[r].sid THEN NoSession ELSE @]
  /\ UNCHANGED <<frameVars, accountVars, oneTimeTokens, mailed, hashes, found, proved, keyVars, faults>>

\* Mutant: the answer does not wait for the session to be stored.
IssueTokenAnswers(r) ==
  /\ pc[r] = "issueToken"
  /\ pc' = [pc EXCEPT ![r] = "storeSession"]
  /\ reply' = [reply EXCEPT ![r] = 200]
  /\ oneTimeTokens' = [oneTimeTokens EXCEPT ![r] =
                         [sid |-> r, secret |-> req(r).secret, email |-> req(r).address, live |-> TRUE]]
  /\ mailed' = mailed \union {r}
  /\ UNCHANGED <<frameVars, accountVars, mappings, hashes, found, proved, keyVars, faults>>

\* fillTable: createOneTimeToken, and the mail, which nobody waits for.
IssueToken(r) ==
  /\ pc[r] = "issueToken"
  /\ Goto(r, "storeSession")
  /\ oneTimeTokens' = [oneTimeTokens EXCEPT ![r] =
                         [sid |-> r, secret |-> req(r).secret, email |-> req(r).address, live |-> TRUE]]
  /\ mailed' = mailed \union {r}
  /\ UNCHANGED <<frameVars, accountVars, mappings, hashes, found, proved, keyVars, faults>>

\* The session is inserted when the mail is out; a secret that is taken is an error.
StoreSession(r) ==
  /\ pc[r] = "storeSession"
  /\ IF mappings[req(r).secret] # NoSession THEN send(r, 400) /\ UNCHANGED mappings
     ELSE /\ send(r, 200)
          /\ mappings' = [mappings EXCEPT ![req(r).secret] =
                            [sid |-> r, address |-> req(r).address, valid |-> FALSE,
                             attempt |-> req(r).attempt]]
  /\ UNCHANGED <<frameVars, accountVars, oneTimeTokens, mailed, hashes, found, proved, keyVars, faults>>

(***************************************************************************)
(* SubmitToken.  The link carries the token, the sid and the secret of one *)
(* requestToken; a client may put another secret in.                       *)
(***************************************************************************)
VerifyToken(r) ==
  /\ pc[r] = "verifyToken"
  /\ LET token == oneTimeTokens[req(r).ref]
     IN  IF req(r).ok /\ token.live /\ token.secret = req(r).secret
         THEN Goto(r, "deleteToken") /\ proved' = proved \union {token.email}
         ELSE send(r, 400) /\ UNCHANGED proved
  /\ UNCHANGED <<frameVars, accountVars, mappings, oneTimeTokens, mailed, hashes, found, keyVars, faults>>

DeleteToken(r) ==
  /\ pc[r] = "deleteToken"
  /\ Goto(r, "validateSession")
  /\ oneTimeTokens' = [oneTimeTokens EXCEPT ![req(r).ref] = NoToken]
  /\ UNCHANGED <<frameVars, accountVars, mappings, mailed, hashes, found, proved, keyVars, faults>>

\* Mutant: the session is looked for by its secret alone.
ValidateSessionBySecret(r) ==
  /\ pc[r] = "validateSession"
  /\ send(r, 200)
  /\ mappings' = [mappings EXCEPT ![req(r).secret] = IF @ # NoSession THEN [@ EXCEPT !.valid = TRUE] ELSE @]
  /\ UNCHANGED <<frameVars, accountVars, oneTimeTokens, mailed, hashes, found, proved, keyVars, faults>>

\* The answer is the same when no session has that sid (any more, or yet).
ValidateSession(r) ==
  /\ pc[r] = "validateSession"
  /\ send(r, 200)
  /\ mappings' = [mappings EXCEPT ![req(r).secret] =
                    IF @.sid = req(r).ref THEN [@ EXCEPT !.valid = TRUE] ELSE @]
  /\ UNCHANGED <<frameVars, accountVars, oneTimeTokens, mailed, hashes, found, proved, keyVars, faults>>

\* Expired tokens stay in the table: dbMaintenance schedules a function that is never called.
Expire(t) ==
  /\ oneTimeTokens[t].live
  /\ oneTimeTokens' = [oneTimeTokens EXCEPT ![t].live = FALSE]
  /\ UNCHANGED <<frameVars, pc, reply, accountVars, mappings, mailed, hashes, found, proved, keyVars, faults>>

(***************************************************************************)
(* GetValidated3pid, bind, unbind                                          *)
(***************************************************************************)
GetValidated3pid(r) ==
  /\ pc[r] = "readSession"
  /\ send(r, CASE SessionOf(r) = NoSession -> 404 [] SessionOf(r).valid -> 200 [] OTHER -> 400)
  /\ UNCHANGED <<frameVars, accountVars, sessionVars, keyVars, faults>>

\* _onBind is called and not waited for.
BindSession(r) ==
  /\ pc[r] = "bindSession"
  /\ LET row == SessionOf(r)
     IN  /\ CASE row = NoSession -> send(r, 404)
              [] row # NoSession /\ ~ row.valid -> send(r, 400)
              [] OTHER -> Goto(r, "insertHash")
         /\ onbind' = [onbind EXCEPT ![r] = IF row.valid THEN "pending" ELSE @]
  /\ found' = [found EXCEPT ![r] = SessionOf(r)]
  /\ UNCHANGED <<frameVars, accountVars, mappings, oneTimeTokens, mailed, hashes, proved,
                 longTermKeypairs, invitationTokens, seen, created, faults>>

\* Of the address that the session had when it was read.
InsertHash(r) ==
  /\ pc[r] = "insertHash"
  /\ LET hash == HashOf(found[r].address)
     IN  IF \E h \in hashes : h.hash = hash THEN send(r, 500) /\ UNCHANGED hashes
         ELSE Goto(r, "signBinding") /\ hashes' = hashes \union {[hash |-> hash, value |-> req(r).user]}
  /\ UNCHANGED <<frameVars, accountVars, mappings, oneTimeTokens, mailed, found, proved, keyVars, faults>>

\* Any row of longTermKeypairs; there is no order.
SignBinding(r) ==
  /\ pc[r] = "signBinding"
  /\ LET keys == {longTermKeypairs[n] : n \in DOMAIN longTermKeypairs} \ {NoOne}
     IN  IF keys = {} THEN send(r, 500) /\ UNCHANGED seen
         ELSE send(r, 200) /\ \E k \in keys : seen' = [seen EXCEPT ![r] = k]
  /\ UNCHANGED <<frameVars, accountVars, sessionVars, longTermKeypairs, invitationTokens, created,
                 onbind, faults>>

UnbindSession(r) ==
  /\ pc[r] = "unbindSession"
  /\ IF SessionOf(r).address = req(r).address THEN Goto(r, "deleteHashes") ELSE send(r, 403)
  /\ UNCHANGED <<frameVars, accountVars, sessionVars, keyVars, faults>>

\* Every hash of the user goes, not only the one of the address.
DeleteHashes(r) ==
  /\ pc[r] = "deleteHashes"
  /\ send(r, 200)
  /\ hashes' = {h \in hashes : h.value # req(r).user}
  /\ UNCHANGED <<frameVars, accountVars, mappings, oneTimeTokens, mailed, found, proved, keyVars, faults>>

(***************************************************************************)
(* A query fails.  createOneTimeToken never settles then, submitToken has  *)
(* empty catches, and deleteToken takes an error for a token that is gone. *)
(***************************************************************************)
SessionFailure ==
  [findSession |-> 400, dropSession |-> 400, storeSession |-> 400, verifyToken |-> 400, readSession |-> 500,
   bindSession |-> 500, insertHash |-> 500, signBinding |-> 500, unbindSession |-> 500, deleteHashes |-> 500]

SessionQueryFails(r) ==
  /\ Fault
  /\ \/ pc[r] \in DOMAIN SessionFailure /\ send(r, SessionFailure[pc[r]])
     \/ pc[r] \in {"issueToken", "validateSession"} /\ Silent(r)
     \/ pc[r] = "deleteToken" /\ Goto(r, "validateSession")
  /\ UNCHANGED <<frameVars, accountVars, sessionVars, keyVars>>

SessionStep(r) ==
  \/ FindSession(r) \/ DropSession(r) \/ IssueToken(r) \/ StoreSession(r)
  \/ VerifyToken(r) \/ DeleteToken(r) \/ ValidateSession(r)
  \/ GetValidated3pid(r) \/ BindSession(r) \/ InsertHash(r) \/ SignBinding(r)
  \/ UnbindSession(r) \/ DeleteHashes(r)
=============================================================================

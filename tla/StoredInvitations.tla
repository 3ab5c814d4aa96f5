------------------------- MODULE StoredInvitations -------------------------
(***************************************************************************)
(* Invitations that an identity server keeps for addresses without a       *)
(* Matrix user: StoreInvit, the key pairs it creates, SignEd25519, and the *)
(* onbind call that tells a homeserver of them.                            *)
(*                                                                         *)
(* createKeypair makes the row currentKey the row previousKey and inserts  *)
(* a new currentKey, in up to five queries.  Every stored invitation does  *)
(* that to the long-term keys of the server.                               *)
(***************************************************************************)
EXTENDS AddressSessions

KeyNames == {"currentKey", "previousKey"}

\* Keys from an earlier life of the server: Root.
KeyInit ==
  /\ longTermKeypairs \in [KeyNames -> {Root, NoOne}]
  /\ longTermKeypairs["previousKey"] = NoOne
  /\ invitationTokens = [r \in Requests |-> NoOne]
  /\ seen = [r \in Requests |-> NoOne]
  /\ created = longTermKeypairs["currentKey"]
  /\ onbind = [r \in Requests |-> "none"]

getPubkey(k) == \E n \in KeyNames : longTermKeypairs[n] = k

(***************************************************************************)
(* StoreInvit                                                              *)
(***************************************************************************)
\* The server asks its own API, which compares the column hash with the text it is given.
Lookup(x) == {h \in hashes : h.hash = x}

\* With the token of the request, which may have been logged out meanwhile; a user with a
\* binding is told that the address is in use.
LookupAddress(r) ==
  /\ pc[r] = "lookup"
  /\ IF ~ (req(r).access \in matrixTokens \/ accessTokens[req(r).access] # NoOne) THEN send(r, 500)
     ELSE IF Lookup(PlainText(req(r).address)) # {} THEN send(r, 400)
     ELSE Goto(r, "currentKey")
  /\ UNCHANGED <<frameVars, accountVars, sessionVars, keyVars, faults>>

\* createKeypair('longTerm', ...)
ReadCurrentKey(r) ==
  /\ pc[r] = "currentKey"
  /\ Goto(r, IF longTermKeypairs["currentKey"] = NoOne THEN "insertKey" ELSE "previousKey")
  /\ UNCHANGED <<frameVars, accountVars, sessionVars, keyVars, faults>>

ReadPreviousKey(r) ==
  /\ pc[r] = "previousKey"
  /\ Goto(r, IF longTermKeypairs["previousKey"] = NoOne THEN "renameKey" ELSE "dropKey")
  /\ UNCHANGED <<frameVars, accountVars, sessionVars, keyVars, faults>>

DropPreviousKey(r) ==
  /\ pc[r] = "dropKey"
  /\ Goto(r, "renameKey")
  /\ longTermKeypairs' = [longTermKeypairs EXCEPT !["previousKey"] = NoOne]
  /\ UNCHANGED <<frameVars, accountVars, sessionVars, invitationTokens, seen, created, onbind, faults>>

\* Mutant: the current key is deleted where it should be renamed.
RenameKeyDeletes(r) ==
  /\ pc[r] = "renameKey"
  /\ Goto(r, "insertKey")
  /\ longTermKeypairs' = [longTermKeypairs EXCEPT !["currentKey"] = NoOne]
  /\ UNCHANGED <<frameVars, accountVars, sessionVars, invitationTokens, seen, created, onbind, faults>>

\* Mutant: the row keeps its name.
RenameKeySkipped(r) ==
  /\ pc[r] = "renameKey"
  /\ Goto(r, "insertKey")
  /\ UNCHANGED <<frameVars, accountVars, sessionVars, keyVars, faults>>

\* The error of a second previousKey is logged, and the insertion is tried all the same.
RenameKey(r) ==
  /\ pc[r] = "renameKey"
  /\ Goto(r, "insertKey")
  /\ longTermKeypairs' =
       IF longTermKeypairs["previousKey"] # NoOne THEN longTermKeypairs
       ELSE [currentKey |-> NoOne, previousKey |-> longTermKeypairs["currentKey"]]
  /\ UNCHANGED <<frameVars, accountVars, sessionVars, invitationTokens, seen, created, onbind, faults>>

\* A second currentKey is an error that is logged and leaves the promise as it is.
InsertKey(r) ==
  /\ pc[r] = "insertKey"
  /\ IF longTermKeypairs["currentKey"] # NoOne THEN Silent(r) /\ UNCHANGED <<longTermKeypairs, created>>
     ELSE /\ Goto(r, "insertInvitation")
          /\ longTermKeypairs' = [longTermKeypairs EXCEPT !["currentKey"] = r]
          /\ created' = r
  /\ UNCHANGED <<frameVars, accountVars, sessionVars, invitationTokens, seen, onbind, faults>>

\* createInvitationToken; the mail or the SMS follows and is not waited for.
InsertInvitation(r) ==
  /\ pc[r] = "insertInvitation"
  /\ Goto(r, "getKeys")
  /\ invitationTokens' = [invitationTokens EXCEPT ![r] = req(r).address]
  /\ UNCHANGED <<frameVars, accountVars, sessionVars, longTermKeypairs, seen, created, onbind, faults>>

\* getKeys('current') takes the first row there is, whatever its name.
GetKeys(r) ==
  /\ pc[r] = "getKeys"
  /\ LET keys == {longTermKeypairs[n] : n \in KeyNames} \ {NoOne}
     IN  IF keys = {} THEN send(r, 500) /\ UNCHANGED seen
         ELSE send(r, 200) /\ \E k \in keys : seen' = [seen EXCEPT ![r] = k]
  /\ UNCHANGED <<frameVars, accountVars, sessionVars, longTermKeypairs, invitationTokens, created,
                 onbind, faults>>

(***************************************************************************)
(* SignEd25519 and _onBind                                                 *)
(***************************************************************************)
SignEd25519(r) ==
  /\ pc[r] = "invitation"
  /\ send(r, IF invitationTokens[req(r).ref] # NoOne THEN 200 ELSE 404)
  /\ UNCHANGED <<frameVars, accountVars, sessionVars, keyVars, faults>>

\* The homeserver of the user is called when there are invitations; the request it gets has
\* one entry for each, and no entry has content.  Errors are logged.
OnBind(r) ==
  /\ onbind[r] = "pending"
  /\ \E outcome \in {"called", "failed"} :
       onbind' = [onbind EXCEPT ![r] =
                    IF \E s \in Requests : invitationTokens[s] = found[r].address THEN outcome ELSE "nothing"]
  /\ UNCHANGED <<frameVars, pc, reply, accountVars, sessionVars, longTermKeypairs, invitationTokens,
                 seen, created, faults>>

\* An error while the keys are exchanged is logged, and the insertion is tried.
InvitationFailure == [lookup |-> 500, insertInvitation |-> 500, getKeys |-> 500, invitation |-> 404]

InvitationQueryFails(r) ==
  /\ Fault
  /\ \/ pc[r] \in DOMAIN InvitationFailure /\ send(r, InvitationFailure[pc[r]])
     \/ pc[r] \in {"currentKey", "previousKey", "dropKey", "renameKey"} /\ Goto(r, "insertKey")
     \/ pc[r] = "insertKey" /\ Silent(r)
  /\ UNCHANGED <<frameVars, accountVars, sessionVars, keyVars>>

InvitationStep(r) ==
  \/ LookupAddress(r) \/ ReadCurrentKey(r) \/ ReadPreviousKey(r) \/ DropPreviousKey(r) \/ RenameKey(r)
  \/ InsertKey(r) \/ InsertInvitation(r) \/ GetKeys(r) \/ SignEd25519(r)
=============================================================================

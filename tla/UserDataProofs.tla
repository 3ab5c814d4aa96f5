--------------------------- MODULE UserDataProofs ---------------------------
(***************************************************************************)
(* Proofs about the requests for a user's data, those that the server      *)
(* answers from its own tables (UserData) and those that it sends on to    *)
(* Synapse as an administrator (AdminRequests).                            *)
(*                                                                         *)
(* UserData: for any number of users, requests and failures, addresses are *)
(* shown by consent, acknowledged settings were in force, and recovery     *)
(* words are kept.  None of the three is inductive.  They need that a      *)
(* running request has its row's present value among the values noted for  *)
(* it, that a look at a profile merges with settings of that set, that a   *)
(* query belongs to the kind of its request, and that an acknowledged save *)
(* leaves words behind as long as no deletion has begun.                   *)
(*                                                                         *)
(* AdminRequests: for any number of jobs, revocations and failures, one    *)
(* retry is enough for one revocation, and a profile update reported as    *)
(* done was performed.  AdminInv says how old the tokens can be: none is   *)
(* from the future, a refused one is older than the present generation, and *)
(* the one of a retry is younger than the first revocation.                *)
(***************************************************************************)
EXTENDS UserData, AdminRequests, TLAPS

\* The queries of each kind of request.
QueryOf(kind, query) ==
  /\ query \in {"batch", "merge"} => kind = "get"
  /\ query = "readVisibility" => kind = "visibility"
  /\ query \in {"readSettings", "createSettings", "updateSettings"} => kind = "update"
  /\ query = "insertWords" => kind = "save"
  /\ query = "deleteWords" => kind = "delete"
  /\ query = "updateWords" => kind = "replace"
  /\ query = "readWords" => kind \in VaultKinds

Typed ==
  /\ pc \in [Requests -> Queries \union {"idle", "answered"}]
  /\ DOMAIN reply = Requests /\ DOMAIN answer = Requests /\ DOMAIN got = Requests /\ DOMAIN during = Requests
  /\ DOMAIN profileSettings = Ids /\ DOMAIN recoveryWords = Ids
  /\ scenario \in Scenarios

Kinds == \A r \in Requests : QueryOf(req(r).kind, pc[r])

\* The present value of a running request's row is noted for it.
Noted == \A r \in Requests : Running(r) => Row(r) \in during[r]

\* A look at a profile merges with settings that were in force.
Merging == \A r \in Requests : pc[r] = "merge" => got[r] \in during[r]

DeletionBegun(i) == \E d \in Requests : req(d).kind = "delete" /\ req(d).viewer = i /\ pc[d] # "idle"

\* Saved words are there until a deletion begins, and so are words that an update found.
SavedStay ==
  \A r \in Requests :
    Done(r, "save", 201) \/ pc[r] = "updateWords" =>
      recoveryWords[req(r).viewer] # Nothing \/ DeletionBegun(req(r).viewer)

\* Words to store are words.
Sentences == \A r \in Requests : req(r).kind \in {"save", "replace"} /\ Running(r) => req(r).words # Nothing

IInv ==
  /\ Typed /\ Kinds /\ Noted /\ Merging /\ Sentences /\ SavedStay
  /\ ShownByConsent /\ SettingsTakeEffect /\ WordsKept

(***************************************************************************)
(* The properties of one request.                                          *)
(***************************************************************************)
ShownAt(r) ==
  Done(r, "get", 200) /\ req(r).id \in Home /\ req(r).id # req(r).viewer =>
    \A field \in ProfileField :
      (IF field = "email" THEN answer[r].emails ELSE answer[r].phones) # {} =>
        \E row \in during[r] :
          /\ field \in InForce(row).visible_fields
          /\ InForce(row).visibility # "private"
          /\ InForce(row).visibility = "contacts" => {req(r).id, req(r).viewer} \subseteq Home /\ scenario.additional

EffectAt(r) ==
  /\ Done(r, "update", 200) => req(r).settings \in during[r]
  /\ Done(r, "visibility", 200) => \E row \in during[r] : answer[r] = InForce(row)

StoredAt(r) ==
  /\ Done(r, "save", 201) => req(r).words \in during[r]
  /\ Done(r, "replace", 200) => req(r).words \in during[r] \/ DeletionBegun(req(r).viewer)
  /\ Done(r, "words", 200) => answer[r] \in during[r]
  /\ Done(r, "words", 404) => Nothing \in during[r]

SavedOnce(r, s) ==
  Done(r, "save", 201) /\ Done(s, "save", 201) /\ req(r).viewer = req(s).viewer => DeletionBegun(req(r).viewer)

\* The properties of the specification are those of its requests.
LEMMA PerRequest ==
  /\ ShownByConsent <=> \A r \in Requests : ShownAt(r)
  /\ SettingsTakeEffect <=> \A r \in Requests : EffectAt(r)
  /\ (\A r \in Requests : StoredAt(r)) /\ (\A r \in Requests : \A s \in Requests \ {r} : SavedOnce(r, s)) <=> WordsKept
  <1>1. ShownByConsent <=> \A r \in Requests : ShownAt(r)
    BY Zenon DEF ShownByConsent, ShownAt
  <1>2. SettingsTakeEffect <=> \A r \in Requests : EffectAt(r)
    BY Zenon DEF SettingsTakeEffect, EffectAt
  <1>3. (\A r \in Requests : StoredAt(r)) /\ (\A r \in Requests : \A s \in Requests \ {r} : SavedOnce(r, s)) <=> WordsKept
    BY DEF WordsKept, StoredAt, SavedOnce, Overlaps, DeletionBegun, Done
  <1> QED BY <1>1, <1>2, <1>3

\* ... after a step too.
LEMMA PerRequestNext ==
  /\ ShownByConsent' <=> \A r \in Requests : ShownAt(r)'
  /\ SettingsTakeEffect' <=> \A r \in Requests : EffectAt(r)'
  /\ (\A r \in Requests : StoredAt(r)') /\ (\A r \in Requests : \A s \in Requests \ {r} : SavedOnce(r, s)') <=> WordsKept'
  <1>1. ShownByConsent' <=> \A r \in Requests : ShownAt(r)'
    BY Zenon DEF ShownByConsent, ShownAt
  <1>2. SettingsTakeEffect' <=> \A r \in Requests : EffectAt(r)'
    BY Zenon DEF SettingsTakeEffect, EffectAt
  <1>3. (\A r \in Requests : StoredAt(r)') /\ (\A r \in Requests : \A s \in Requests \ {r} : SavedOnce(r, s)') <=> WordsKept'
    BY DEF WordsKept, StoredAt, SavedOnce, Overlaps, DeletionBegun, Done
  <1> QED BY <1>1, <1>2, <1>3

\* What is given to a request has its type.
LEMMA ReqTyped ==
  ASSUME Typed, NEW r \in Requests
  PROVE  /\ req(r).id \in Ids /\ req(r).viewer \in Ids
         /\ req(r).kind \in {"none"} \union UserInfoKinds \union VaultKinds
  <1>1. scenario \in ScenarioType
    BY ScenariosAssumption DEF Typed
  <1>2. scenario.req[r] \in [kind : {"none"} \union UserInfoKinds \union VaultKinds, id : Ids, viewer : Ids,
                             settings : Settings, words : Words \union {Nothing}]
    BY <1>1 DEF ScenarioType
  <1> QED BY <1>2 DEF req

(***************************************************************************)
(* What a step of request r does.                                          *)
(***************************************************************************)
\* It moves on, and leaves the local state of the others alone.
Moves(r) ==
  /\ scenario' = scenario
  /\ Typed'
  /\ pc[r] # "answered" /\ pc'[r] # "idle"
  /\ \A q \in Requests \ {r} : pc'[q] = pc[q] /\ reply'[q] = reply[q] /\ answer'[q] = answer[q] /\ got'[q] = got[q]

\* Values are noted for running requests and for no others.
RowsFollow(r) ==
  /\ \A q \in Requests : pc[q] = "answered" => during'[q] = during[q]
  /\ \A q \in Requests \ {r} : Running(q) => during[q] \subseteq during'[q] /\ Row(q)' \in during'[q]
  /\ Running(r)' => Row(r)' \in during'[r]
  /\ \A i \in Ids : recoveryWords'[i] = Nothing /\ recoveryWords[i] # Nothing =>
       req(r).kind = "delete" /\ req(r).viewer = i /\ pc[r] # "idle"

\* Its own query and answer are in order.
Orderly(r) ==
  /\ QueryOf(req(r).kind, pc'[r])
  /\ pc'[r] = "merge" => got'[r] \in during'[r]
  /\ req(r).kind \in {"save", "replace"} /\ Running(r)' => req(r).words # Nothing
  /\ ShownAt(r)' /\ EffectAt(r)' /\ StoredAt(r)'
  /\ pc'[r] = "updateWords" => recoveryWords'[req(r).viewer] # Nothing
  /\ Done(r, "save", 201)' =>
       recoveryWords'[req(r).viewer] # Nothing /\ recoveryWords[req(r).viewer] = Nothing

\* An answered request keeps its properties.
LEMMA OthersKept ==
  ASSUME NEW r \in Requests, IInv, Moves(r), RowsFollow(r), NEW q \in Requests \ {r}
  PROVE  ShownAt(q)' /\ EffectAt(q)' /\ StoredAt(q)'
  <1>1. ShownAt(q) /\ EffectAt(q) /\ StoredAt(q)
    BY PerRequest DEF IInv
  <1>2. /\ scenario' = scenario /\ pc'[q] = pc[q] /\ reply'[q] = reply[q] /\ answer'[q] = answer[q]
        /\ pc[q] = "answered" => during'[q] = during[q]
    BY DEF Moves, RowsFollow
  <1>3. ShownAt(q)'
    BY <1>1, <1>2 DEF ShownAt, Done, req, InForce
  <1>4. EffectAt(q)'
    BY <1>1, <1>2 DEF EffectAt, Done, req, InForce
  <1>5. DeletionBegun(req(q).viewer) => DeletionBegun(req(q).viewer)'
    BY DEF DeletionBegun, Moves, req
  <1>6. StoredAt(q)'
    BY <1>1, <1>2, <1>5 DEF StoredAt, Done, req
  <1> QED BY <1>3, <1>4, <1>6

\* A step that moves, follows and is orderly preserves the invariant.
LEMMA Preserved ==
  ASSUME NEW r \in Requests, IInv, Moves(r), RowsFollow(r), Orderly(r)
  PROVE  IInv'
  <1> USE DEF Moves, req
  <1>1. Typed'
    OBVIOUS
  <1>2. Kinds'
    BY DEF IInv, Kinds, Orderly
  <1>3. Noted'
    BY DEF IInv, Noted, RowsFollow, Running
  <1>4. Merging'
    <2> SUFFICES ASSUME NEW q \in Requests, pc'[q] = "merge" PROVE got'[q] \in during'[q]
      BY DEF Merging
    <2>1. CASE q = r
      BY <2>1 DEF Orderly
    <2>2. CASE q # r
      <3>1. pc[q] = "merge" /\ got[q] \in during[q] /\ got'[q] = got[q]
        BY <2>2 DEF IInv, Merging
      <3>2. Running(q)
        BY <3>1 DEF Running
      <3> QED BY <2>2, <3>1, <3>2 DEF RowsFollow
    <2> QED BY <2>1, <2>2
  <1>5. Sentences'
    BY DEF IInv, Sentences, Orderly, Running
  <1>6. \A i \in Ids : DeletionBegun(i) => DeletionBegun(i)'
    BY DEF DeletionBegun
  <1>7. \A q \in Requests : ShownAt(q)' /\ EffectAt(q)' /\ StoredAt(q)'
    BY OthersKept DEF Orderly
  <1>8. SavedStay'
    <2> SUFFICES ASSUME NEW q \in Requests, Done(q, "save", 201)' \/ pc'[q] = "updateWords",
                        recoveryWords'[req(q).viewer] = Nothing
                 PROVE  DeletionBegun(req(q).viewer)'
      BY DEF SavedStay
    <2>1. q # r
      BY DEF Orderly
    <2>2. (Done(q, "save", 201) \/ pc[q] = "updateWords") /\ req(q).viewer \in Ids
      BY <2>1, ReqTyped DEF Done, IInv
    <2>3. CASE recoveryWords[req(q).viewer] = Nothing
      BY <1>6, <2>2, <2>3 DEF IInv, SavedStay
    <2>4. CASE recoveryWords[req(q).viewer] # Nothing
      <3>1. req(r).kind = "delete" /\ req(r).viewer = req(q).viewer
        BY <2>2, <2>4 DEF RowsFollow
      <3> QED BY <3>1 DEF DeletionBegun
    <2> QED BY <2>3, <2>4
  <1>9. \A q \in Requests : \A s \in Requests \ {q} : SavedOnce(q, s)'
    <2> SUFFICES ASSUME NEW q \in Requests, NEW s \in Requests \ {q}, Done(q, "save", 201)', Done(s, "save", 201)',
                        req(q).viewer = req(s).viewer
                 PROVE  DeletionBegun(req(q).viewer)'
      BY DEF SavedOnce
    <2>1. req(q).viewer \in Ids
      BY ReqTyped DEF IInv
    <2>2. CASE q # r /\ s # r
      <3>1. Done(q, "save", 201) /\ Done(s, "save", 201)
        BY <2>2 DEF Done
      <3>2. SavedOnce(q, s)
        BY PerRequest DEF IInv
      <3> QED BY <1>6, <2>1, <3>1, <3>2 DEF SavedOnce
    <2>3. ASSUME NEW t \in {q, s}, t # r, r \in {q, s} PROVE DeletionBegun(req(q).viewer)'
      <3>1. Done(t, "save", 201) /\ recoveryWords[req(q).viewer] = Nothing
        BY <2>3 DEF Done, Orderly
      <3> QED BY <1>6, <2>1, <2>3, <3>1 DEF IInv, SavedStay
    <2> QED BY <2>2, <2>3
  <1>10. ShownByConsent' /\ SettingsTakeEffect' /\ WordsKept'
    BY <1>7, <1>9, PerRequestNext
  <1> QED BY <1>1, <1>2, <1>3, <1>4, <1>5, <1>8, <1>10 DEF IInv

(***************************************************************************)
(* The three ways a step treats the rows.                                  *)
(***************************************************************************)
\* No other request starts or stops running.
LEMMA SameRowsFollow ==
  ASSUME NEW r \in Requests, IInv, Moves(r), SameRows, Running(r)
  PROVE  RowsFollow(r) /\ Row(r)' \in during'[r] /\ during'[r] = during[r]
  <1>1. \A q \in Requests : Row(q)' = Row(q)
    BY DEF SameRows, Row, Moves, req
  <1>2. \A q \in Requests : Running(q) => Row(q) \in during[q]
    BY DEF IInv, Noted
  <1> QED BY <1>1, <1>2 DEF RowsFollow, SameRows

\* A running request is of one of the two kinds.
LEMMA RunningKind ==
  ASSUME IInv, NEW q \in Requests, Running(q)
  PROVE  req(q).kind \in UserInfoKinds \union VaultKinds
  BY DEF IInv, Typed, Kinds, QueryOf, Running, Queries, UserInfoKinds, VaultKinds

LEMMA SetProfileFollows ==
  ASSUME NEW r \in Requests, IInv, Moves(r), NEW v, SetProfile(req(r).id, v), Running(r),
         req(r).kind \in UserInfoKinds
  PROVE  RowsFollow(r) /\ v \in during'[r] /\ during[r] \subseteq during'[r]
  <1>1. req(r).id \in Ids /\ \A q \in Requests : Running(q) => req(q).id \in Ids
    BY ReqTyped DEF IInv
  <1>2. /\ profileSettings' = [profileSettings EXCEPT ![req(r).id] = v] /\ recoveryWords' = recoveryWords
        /\ DOMAIN profileSettings = Ids
        /\ during' = [q \in Requests |->
                        IF q \in {p \in Requests : req(p).kind \in UserInfoKinds /\ req(p).id = req(r).id} /\ Running(q)
                        THEN during[q] \union {v} ELSE during[q]]
    BY DEF SetProfile, Note, IInv, Typed
  <1>3. \A q \in Requests : /\ pc[q] = "answered" => during'[q] = during[q]
                            /\ during[q] \subseteq during'[q]
    BY <1>2 DEF Running
  <1>4. ASSUME NEW q \in Requests, Running(q) PROVE Row(q)' \in during'[q]
    <2>1. Row(q) \in during[q]
      BY <1>4 DEF IInv, Noted
    <2>2. CASE req(q).kind \in VaultKinds
      <3>1. Row(q)' = Row(q)
        BY <1>2, <2>2 DEF Row, Moves, req
      <3> QED BY <2>1, <3>1, <1>3
    <2>3. CASE req(q).kind \notin VaultKinds /\ req(q).id # req(r).id
      <3>1. Row(q)' = Row(q)
        BY <1>1, <1>2, <1>4, <2>3 DEF Row, Moves, req
      <3> QED BY <2>1, <3>1, <1>3
    <2>4. CASE req(q).kind \notin VaultKinds /\ req(q).id = req(r).id
      <3>1. Row(q)' = v
        BY <1>1, <1>2, <2>4 DEF Row, Moves, req
      <3>2. req(q).kind \in UserInfoKinds
        BY <1>4, <2>4, RunningKind
      <3> QED BY <1>2, <1>4, <2>4, <3>1, <3>2
    <2> QED BY <2>2, <2>3, <2>4
  <1> QED BY <1>2, <1>3, <1>4 DEF RowsFollow

LEMMA SetWordsFollows ==
  ASSUME NEW r \in Requests, IInv, Moves(r), NEW v, SetWords(req(r).viewer, v), Running(r),
         req(r).kind \in VaultKinds, v = Nothing => req(r).kind = "delete"
  PROVE  RowsFollow(r) /\ v \in during'[r] /\ during[r] \subseteq during'[r] /\ recoveryWords'[req(r).viewer] = v
  <1>1. req(r).viewer \in Ids /\ \A q \in Requests : Running(q) => req(q).viewer \in Ids
    BY ReqTyped DEF IInv
  <1>2. /\ recoveryWords' = [recoveryWords EXCEPT ![req(r).viewer] = v] /\ profileSettings' = profileSettings
        /\ DOMAIN recoveryWords = Ids
        /\ during' = [q \in Requests |->
                        IF q \in {p \in Requests : req(p).kind \in VaultKinds /\ req(p).viewer = req(r).viewer} /\ Running(q)
                        THEN during[q] \union {v} ELSE during[q]]
    BY DEF SetWords, Note, IInv, Typed
  <1>3. \A q \in Requests : /\ pc[q] = "answered" => during'[q] = during[q]
                            /\ during[q] \subseteq during'[q]
    BY <1>2 DEF Running
  <1>4. ASSUME NEW q \in Requests, Running(q) PROVE Row(q)' \in during'[q]
    <2>1. Row(q) \in during[q]
      BY <1>4 DEF IInv, Noted
    <2>2. CASE ~ (req(q).kind \in VaultKinds /\ req(q).viewer = req(r).viewer)
      <3>1. Row(q)' = Row(q)
        BY <1>1, <1>2, <1>4, <2>2 DEF Row, Moves, req
      <3> QED BY <2>1, <3>1, <1>3
    <2>3. CASE req(q).kind \in VaultKinds /\ req(q).viewer = req(r).viewer
      <3>1. Row(q)' = v
        BY <1>1, <1>2, <2>3 DEF Row, Moves, req
      <3> QED BY <1>2, <1>4, <2>3, <3>1
    <2> QED BY <2>2, <2>3
  <1>5. \A i \in Ids : recoveryWords'[i] = Nothing /\ recoveryWords[i] # Nothing =>
                        req(r).kind = "delete" /\ req(r).viewer = i /\ pc[r] # "idle"
    BY <1>2 DEF Running
  <1> QED BY <1>1, <1>2, <1>3, <1>4, <1>5 DEF RowsFollow

(***************************************************************************)
(* The two ways a step ends.                                               *)
(***************************************************************************)
RowDomains ==
  DOMAIN profileSettings' = Ids /\ DOMAIN recoveryWords' = Ids /\ DOMAIN during' = Requests

LEMMA DomainsKept ==
  ASSUME IInv
  PROVE  /\ SameRows => RowDomains
         /\ \A i, v : SetProfile(i, v) => RowDomains
         /\ \A i, v : SetWords(i, v) => RowDomains
  BY DEF IInv, Typed, SameRows, SetProfile, SetWords, Note, RowDomains

LEMMA SendMoves ==
  ASSUME IInv, NEW r \in Requests, pc[r] # "answered", NEW status, NEW shown, Send(r, status, shown),
         scenario' = scenario, got' = got, RowDomains
  PROVE  Moves(r) /\ pc'[r] = "answered" /\ reply'[r] = status /\ answer'[r] = shown
  <1>1. Typed'
    BY DEF IInv, Typed, Send, RowDomains
  <1> QED BY <1>1 DEF IInv, Typed, Send, Moves

LEMMA GotoMoves ==
  ASSUME IInv, NEW r \in Requests, pc[r] # "answered", NEW query \in Queries, Goto(r, query),
         scenario' = scenario, DOMAIN got' = Requests, \A q \in Requests \ {r} : got'[q] = got[q], RowDomains
  PROVE  Moves(r) /\ pc'[r] = query
  <1>1. Typed'
    BY DEF IInv, Typed, Goto, RowDomains
  <1>2. query # "idle"
    BY DEF Queries
  <1> QED BY <1>1, <1>2 DEF IInv, Typed, Goto, Moves

\* An answer that promises nothing is orderly.
LEMMA RefusalOrderly ==
  ASSUME NEW r \in Requests, scenario' = scenario, pc'[r] = "answered", reply'[r] \notin {200, 201},
         reply'[r] = 404 => req(r).kind # "words"
  PROVE  Orderly(r)
  BY DEF Orderly, QueryOf, ShownAt, EffectAt, StoredAt, Done, Running, req

\* A request that goes on has promised nothing.
LEMMA GoingOnOrderly ==
  ASSUME NEW r \in Requests, scenario' = scenario, pc'[r] # "answered",
         QueryOf(req(r).kind, pc'[r]), pc'[r] = "merge" => got'[r] \in during'[r],
         req(r).kind \in {"save", "replace"} => req(r).words # Nothing,
         pc'[r] = "updateWords" => recoveryWords'[req(r).viewer] # Nothing
  PROVE  Orderly(r)
  BY DEF Orderly, ShownAt, EffectAt, StoredAt, Done, req

(***************************************************************************)
(* One lemma for each operation.                                           *)
(***************************************************************************)
LEMMA BeginPreserves ==
  ASSUME IInv, NEW r \in Requests, Begin(r)
  PROVE  IInv'
  <1>1. /\ pc[r] = "idle" /\ req(r).kind # "none" /\ scenario' = scenario /\ got' = got
        /\ profileSettings' = profileSettings /\ recoveryWords' = recoveryWords
        /\ during' = [during EXCEPT ![r] = {Row(r)}]
    BY DEF Begin
  <1>2. RowDomains /\ during'[r] = {Row(r)} /\ \A q \in Requests \ {r} : during'[q] = during[q]
    BY <1>1 DEF IInv, Typed, RowDomains
  <1>3. \A q \in Requests : Row(q)' = Row(q)
    BY <1>1 DEF Row, req
  <1>4. RowsFollow(r)
    BY <1>1, <1>2, <1>3 DEF RowsFollow, IInv, Noted
  <1>5. CASE Rejected(r) # 0
    <2>1. Send(r, Rejected(r), Nothing)
      BY <1>5 DEF Begin
    <2>2. Rejected(r) \in {500, 403, 404, 400} /\ (Rejected(r) = 404 => req(r).kind # "words")
      BY <1>5 DEF Rejected
    <2>3. Moves(r) /\ pc'[r] = "answered" /\ reply'[r] = Rejected(r)
      BY <1>1, <1>2, <2>1, SendMoves
    <2>4. Orderly(r)
      BY <1>1, <2>2, <2>3, RefusalOrderly
    <2> QED BY <1>4, <2>3, <2>4, Preserved
  <1>6. CASE Rejected(r) = 0
    <2>1. Goto(r, FirstQuery[req(r).kind])
      BY <1>6 DEF Begin
    <2>2. req(r).kind \in UserInfoKinds \union VaultKinds
      BY <1>1, ReqTyped DEF IInv
    <2>3. FirstQuery[req(r).kind] \in Queries /\ QueryOf(req(r).kind, FirstQuery[req(r).kind])
          /\ FirstQuery[req(r).kind] \notin {"merge", "updateWords", "answered"}
      BY <2>2 DEF FirstQuery, UserInfoKinds, VaultKinds, Queries, QueryOf
    <2>4. Moves(r) /\ pc'[r] = FirstQuery[req(r).kind]
      BY <1>1, <1>2, <2>1, <2>3, GotoMoves DEF IInv, Typed
    <2>5. req(r).kind \in {"save", "replace"} => req(r).words # Nothing
      BY <1>6 DEF Rejected, UserInfoKinds
    <2>6. Orderly(r)
      BY <1>1, <2>3, <2>4, <2>5, GoingOnOrderly
    <2> QED BY <1>4, <2>4, <2>6, Preserved
  <1> QED BY <1>5, <1>6

LEMMA ReadProfileSettingsPreserves ==
  ASSUME IInv, NEW r \in Requests, ReadProfileSettings(r)
  PROVE  IInv'
  <1>1. /\ pc[r] = "batch" /\ Goto(r, "merge") /\ SameRows /\ scenario' = scenario
        /\ got' = [got EXCEPT ![r] = profileSettings[req(r).id]]
    BY DEF ReadProfileSettings
  <1>2. /\ Running(r) /\ RowDomains /\ "merge" \in Queries /\ DOMAIN got' = Requests
        /\ got'[r] = profileSettings[req(r).id] /\ \A q \in Requests \ {r} : got'[q] = got[q]
    BY <1>1, DomainsKept DEF Running, IInv, Typed, Queries
  <1>3. Moves(r) /\ pc'[r] = "merge"
    BY <1>1, <1>2, GotoMoves
  <1>4. RowsFollow(r) /\ Row(r)' \in during'[r]
    BY <1>1, <1>2, <1>3, SameRowsFollow
  <1>5. req(r).kind = "get"
    BY <1>1 DEF IInv, Kinds, QueryOf
  <1>6. Row(r)' = got'[r]
    BY <1>1, <1>2, <1>5 DEF Row, SameRows, req, VaultKinds
  <1>7. Orderly(r)
    BY <1>1, <1>3, <1>4, <1>5, <1>6, GoingOnOrderly DEF QueryOf
  <1> QED BY <1>3, <1>4, <1>7, Preserved

\* What a look shows to another user is visible under the settings that it read.
LEMMA MergeShows ==
  ASSUME IInv, NEW r \in Requests, pc[r] = "merge", NEW contact, MergeWith(r, contact),
         SameRows, scenario' = scenario, got' = got
  PROVE  IInv'
  <1> DEFINE info == UserInformation(req(r), got[r], contact)
  <1>1. Running(r) /\ RowDomains /\ req(r).kind = "get" /\ pc[r] # "answered"
    BY DomainsKept DEF Running, IInv, Kinds, QueryOf
  <1>2. CASE Send(r, 404, Nothing)
    <2>1. Moves(r) /\ pc'[r] = "answered" /\ reply'[r] = 404
      BY <1>1, <1>2, SendMoves
    <2>2. Orderly(r)
      BY <1>1, <2>1, RefusalOrderly
    <2> QED BY <1>1, <2>1, <2>2, SameRowsFollow, Preserved
  <1>3. CASE Send(r, 200, info)
    <2> HIDE DEF info
    <2>1. Moves(r) /\ pc'[r] = "answered" /\ reply'[r] = 200 /\ answer'[r] = info
      BY <1>1, <1>3, SendMoves
    <2>2. RowsFollow(r) /\ during'[r] = during[r]
      BY <1>1, <2>1, SameRowsFollow
    <2>3. got[r] \in during'[r]
      BY <2>2 DEF IInv, Merging
    <2>4. ASSUME NEW field \in ProfileField, req(r).id # req(r).viewer,
                 (IF field = "email" THEN info.emails ELSE info.phones) # {}
          PROVE  ProfileVisible(req(r), InForce(got[r])) /\ field \in InForce(got[r]).visible_fields
      <3>1. FieldVisible(req(r), InForce(got[r]), field)
        BY <2>4 DEF info, UserInformation, Contact, ProfileField
      <3> QED BY <2>4, <3>1 DEF FieldVisible
    <2>5. ShownAt(r)'
      <3> SUFFICES ASSUME req(r).id # req(r).viewer, NEW field \in ProfileField,
                          (IF field = "email" THEN info.emails ELSE info.phones) # {}
                   PROVE  \E row \in during'[r] :
                            /\ field \in InForce(row).visible_fields
                            /\ InForce(row).visibility # "private"
                            /\ InForce(row).visibility = "contacts" => {req(r).id, req(r).viewer} \subseteq Home /\ scenario.additional
        BY <2>1 DEF ShownAt, req, InForce
      <3>1. ProfileVisible(req(r), InForce(got[r])) /\ field \in InForce(got[r]).visible_fields
        BY <2>4
      <3> WITNESS got[r] \in during'[r]
      <3> QED BY <3>1 DEF ProfileVisible
    <2>6. Orderly(r)
      BY <1>1, <2>1, <2>5 DEF Orderly, QueryOf, EffectAt, StoredAt, Done, Running, req
    <2> QED BY <2>1, <2>2, <2>6, Preserved
  <1> QED BY <1>2, <1>3 DEF MergeWith

LEMMA GetVisibilityPreserves ==
  ASSUME IInv, NEW r \in Requests, GetVisibility(r)
  PROVE  IInv'
  <1>1. /\ pc[r] = "readVisibility" /\ SameRows /\ scenario' = scenario /\ got' = got
        /\ Send(r, 200, InForce(profileSettings[req(r).id]))
    BY DEF GetVisibility
  <1>2. Running(r) /\ RowDomains /\ req(r).kind = "visibility" /\ pc[r] # "answered"
    BY <1>1, DomainsKept DEF Running, IInv, Kinds, QueryOf
  <1>3. Moves(r) /\ pc'[r] = "answered" /\ reply'[r] = 200 /\ answer'[r] = InForce(profileSettings[req(r).id])
    BY <1>1, <1>2, SendMoves
  <1>4. RowsFollow(r) /\ Row(r)' \in during'[r]
    BY <1>1, <1>2, <1>3, SameRowsFollow
  <1>5. Row(r)' = profileSettings[req(r).id]
    BY <1>1, <1>2 DEF Row, SameRows, req, VaultKinds
  <1>6. EffectAt(r)'
    BY <1>1, <1>2, <1>3, <1>4, <1>5 DEF EffectAt, Done, req, InForce
  <1>7. Orderly(r)
    BY <1>1, <1>2, <1>3, <1>6 DEF Orderly, QueryOf, ShownAt, StoredAt, Done, Running, req
  <1> QED BY <1>3, <1>4, <1>7, Preserved

LEMMA ReadSettingsPreserves ==
  ASSUME IInv, NEW r \in Requests, ReadSettings(r)
  PROVE  IInv'
  <1> DEFINE query == IF profileSettings[req(r).id] = Nothing THEN "createSettings" ELSE "updateSettings"
  <1>1. pc[r] = "readSettings" /\ Goto(r, query) /\ SameRows /\ scenario' = scenario /\ got' = got
    BY DEF ReadSettings
  <1>2. Running(r) /\ RowDomains /\ req(r).kind = "update" /\ pc[r] # "answered"
    BY <1>1, DomainsKept DEF Running, IInv, Kinds, QueryOf
  <1>3. query \in {"createSettings", "updateSettings"} /\ query \in Queries
    BY DEF Queries
  <1> HIDE DEF query
  <1>4. Moves(r) /\ pc'[r] = query
    BY <1>1, <1>2, <1>3, GotoMoves DEF IInv, Typed
  <1>5. Orderly(r)
    BY <1>1, <1>2, <1>3, <1>4, GoingOnOrderly DEF QueryOf
  <1> QED BY <1>1, <1>2, <1>4, <1>5, SameRowsFollow, Preserved

\* Settings that are stored may be acknowledged, and need not be.
LEMMA StoringSettings ==
  ASSUME IInv, NEW r \in Requests, pc[r] \in {"createSettings", "updateSettings"}, NEW status \in {200, 500}, NEW shown,
         Send(r, status, shown), SetProfile(req(r).id, req(r).settings), scenario' = scenario, got' = got
  PROVE  IInv'
  <1>1. Running(r) /\ RowDomains /\ req(r).kind = "update" /\ pc[r] # "answered"
    BY DomainsKept DEF Running, IInv, Kinds, QueryOf
  <1>2. Moves(r) /\ pc'[r] = "answered" /\ reply'[r] = status
    BY <1>1, SendMoves
  <1>3. RowsFollow(r) /\ req(r).settings \in during'[r]
    BY <1>1, <1>2, SetProfileFollows DEF UserInfoKinds
  <1>4. Orderly(r)
    BY <1>1, <1>2, <1>3 DEF Orderly, QueryOf, ShownAt, EffectAt, StoredAt, Done, Running, req
  <1> QED BY <1>2, <1>3, <1>4, Preserved

\* A refusal leaves the rows alone.
LEMMA Refusing ==
  ASSUME IInv, NEW r \in Requests, Running(r), NEW status \in {404, 409, 500}, NEW shown, Send(r, status, shown),
         status = 404 => req(r).kind # "words", SameRows, scenario' = scenario, got' = got
  PROVE  IInv'
  <1>1. RowDomains /\ pc[r] # "answered"
    BY DomainsKept DEF Running
  <1>2. Moves(r) /\ pc'[r] = "answered" /\ reply'[r] = status
    BY <1>1, SendMoves
  <1>3. Orderly(r)
    BY <1>2, RefusalOrderly
  <1> QED BY <1>2, <1>3, SameRowsFollow, Preserved

LEMMA ReadWordsPreserves ==
  ASSUME IInv, NEW r \in Requests, ReadWords(r)
  PROVE  IInv'
  <1> DEFINE stored == recoveryWords[req(r).viewer]
  <1>1. /\ pc[r] = "readWords" /\ SameRows /\ scenario' = scenario /\ got' = got
        /\ Running(r) /\ RowDomains /\ req(r).kind \in VaultKinds /\ pc[r] # "answered"
    BY DomainsKept DEF ReadWords, Running, IInv, Kinds, QueryOf
  <1>2. Row(r)' = stored
    BY <1>1 DEF Row, SameRows, req
  <1>3. CASE req(r).kind = "words"
    <2>1. PICK status \in {200, 404}, shown \in {Nothing, stored} :
            Send(r, status, shown) /\ (status = 404 => stored = Nothing) /\ (status = 200 => shown = stored)
      <3>1. (Send(r, 404, Nothing) /\ stored = Nothing) \/ Send(r, 200, stored)
        BY <1>3 DEF ReadWords
      <3> QED BY <3>1
    <2>2. Moves(r) /\ pc'[r] = "answered" /\ reply'[r] = status /\ answer'[r] = shown
      BY <1>1, <2>1, SendMoves
    <2>3. RowsFollow(r) /\ stored \in during'[r]
      BY <1>1, <1>2, <2>2, SameRowsFollow
    <2>4. StoredAt(r)'
      BY <1>1, <1>3, <2>1, <2>2, <2>3 DEF StoredAt, Done, req
    <2>5. Orderly(r)
      BY <1>1, <1>3, <2>2, <2>4 DEF Orderly, QueryOf, ShownAt, EffectAt, Done, Running, req
    <2> QED BY <2>2, <2>3, <2>5, Preserved
  <1>4. CASE req(r).kind # "words"
    <2>1. \/ Send(r, 409, Nothing) \/ Send(r, 404, Nothing)
          \/ \E query \in {"insertWords", "deleteWords", "updateWords"}  :
               Goto(r, query) /\ QueryOf(req(r).kind, query) /\ (query = "updateWords" => stored # Nothing)
      <3>1. CASE req(r).kind = "save"
        BY <3>1 DEF ReadWords, QueryOf
      <3>2. CASE req(r).kind = "delete"
        BY <3>2 DEF ReadWords, QueryOf
      <3>3. CASE req(r).kind = "replace"
        BY <3>3 DEF ReadWords, QueryOf
      <3> QED BY <1>1, <1>4, <3>1, <3>2, <3>3 DEF VaultKinds
    <2>2. CASE Send(r, 409, Nothing) \/ Send(r, 404, Nothing)
      BY <1>1, <1>4, <2>2, Refusing
    <2>3. ASSUME NEW query \in {"insertWords", "deleteWords", "updateWords"}, Goto(r, query), QueryOf(req(r).kind, query),
                 query = "updateWords" => stored # Nothing
          PROVE  IInv'
      <3>1. query \in Queries
        BY DEF Queries
      <3>2. Moves(r) /\ pc'[r] = query
        BY <1>1, <2>3, <3>1, GotoMoves DEF IInv, Typed
      <3>3. req(r).kind \in {"save", "replace"} => req(r).words # Nothing
        BY <1>1 DEF IInv, Sentences
      <3>4. Orderly(r)
        BY <1>1, <2>3, <3>2, <3>3, GoingOnOrderly DEF SameRows
      <3> QED BY <1>1, <3>2, <3>4, SameRowsFollow, Preserved
    <2> QED BY <2>1, <2>2, <2>3
  <1> QED BY <1>3, <1>4

\* A sentence is stored by a save that found none, or by an update.
LEMMA StoringWords ==
  ASSUME IInv, NEW r \in Requests, pc[r] \in {"insertWords", "updateWords"}, NEW status, NEW shown,
         \/ status = 500
         \/ pc[r] = "insertWords" /\ status = 201
         \/ pc[r] = "updateWords" /\ status = 200,
         pc[r] = "insertWords" => recoveryWords[req(r).viewer] = Nothing,
         Send(r, status, shown), SetWords(req(r).viewer, req(r).words), scenario' = scenario, got' = got
  PROVE  IInv'
  <1>1. /\ Running(r) /\ RowDomains /\ pc[r] # "answered"
        /\ pc[r] = "insertWords" => req(r).kind = "save"
        /\ pc[r] = "updateWords" => req(r).kind = "replace"
    BY DomainsKept DEF Running, IInv, Kinds, QueryOf
  <1>2. Moves(r) /\ pc'[r] = "answered" /\ reply'[r] = status
    BY <1>1, SendMoves
  <1>3. req(r).words # Nothing
    BY <1>1 DEF IInv, Sentences
  <1>4. RowsFollow(r) /\ req(r).words \in during'[r] /\ recoveryWords'[req(r).viewer] = req(r).words
    BY <1>1, <1>2, <1>3, SetWordsFollows DEF VaultKinds
  <1>5. Orderly(r)
    BY <1>1, <1>2, <1>3, <1>4 DEF Orderly, QueryOf, ShownAt, EffectAt, StoredAt, Done, Running, req
  <1> QED BY <1>2, <1>4, <1>5, Preserved

LEMMA DeletingWords ==
  ASSUME IInv, NEW r \in Requests, pc[r] = "deleteWords", NEW status \in {204, 500},
         Send(r, status, Nothing), SetWords(req(r).viewer, Nothing), scenario' = scenario, got' = got
  PROVE  IInv'
  <1>1. Running(r) /\ RowDomains /\ pc[r] # "answered" /\ req(r).kind = "delete"
    BY DomainsKept DEF Running, IInv, Kinds, QueryOf
  <1>2. Moves(r) /\ pc'[r] = "answered" /\ reply'[r] = status
    BY <1>1, SendMoves
  <1>3. RowsFollow(r)
    BY <1>1, <1>2, SetWordsFollows DEF VaultKinds
  <1>4. Orderly(r)
    BY <1>2, RefusalOrderly
  <1> QED BY <1>2, <1>3, <1>4, Preserved

\* An update that finds the sentence gone: a deletion has begun, for the update had read it.
LEMMA UpdatingNothing ==
  ASSUME IInv, NEW r \in Requests, pc[r] = "updateWords", recoveryWords[req(r).viewer] = Nothing,
         Send(r, 200, Nothing), SameRows, scenario' = scenario, got' = got
  PROVE  IInv'
  <1>1. Running(r) /\ RowDomains /\ pc[r] # "answered" /\ req(r).kind = "replace"
    BY DomainsKept DEF Running, IInv, Kinds, QueryOf
  <1>2. Moves(r) /\ pc'[r] = "answered" /\ reply'[r] = 200
    BY <1>1, SendMoves
  <1>3. DeletionBegun(req(r).viewer)'
    <2>1. DeletionBegun(req(r).viewer)
      BY DEF IInv, SavedStay
    <2> QED BY <1>2, <2>1 DEF DeletionBegun, Moves, req
  <1>4. Orderly(r)
    BY <1>1, <1>2, <1>3 DEF Orderly, QueryOf, ShownAt, EffectAt, StoredAt, Done, Running, Moves, req
  <1> QED BY <1>1, <1>2, <1>4, SameRowsFollow, Preserved

LEMMA QueryFailsPreserves ==
  ASSUME IInv, NEW r \in Requests, QueryFails(r)
  PROVE  IInv'
  <1>1. Running(r) /\ Send(r, 500, Nothing) /\ scenario' = scenario /\ got' = got
    BY DEF QueryFails
  <1>2. CASE SameRows
    BY <1>1, <1>2, Refusing
  <1>3. CASE pc[r] \in {"createSettings", "updateSettings"} /\ SetProfile(req(r).id, req(r).settings)
    BY <1>1, <1>3, StoringSettings
  <1>4. CASE /\ pc[r] \in {"insertWords", "updateWords"} /\ SetWords(req(r).viewer, req(r).words)
             /\ pc[r] = "insertWords" => recoveryWords[req(r).viewer] = Nothing
    BY <1>1, <1>4, StoringWords
  <1>5. CASE pc[r] = "deleteWords" /\ SetWords(req(r).viewer, Nothing)
    BY <1>1, <1>5, DeletingWords
  <1> QED BY <1>2, <1>3, <1>4, <1>5 DEF QueryFails

LEMMA StepPreserves ==
  ASSUME IInv, NEW r \in Requests, Step(r)
  PROVE  IInv'
  <1>1. CASE ReadProfileSettings(r)
    BY <1>1, ReadProfileSettingsPreserves
  <1>2. CASE Merge(r)
    BY <1>2, MergeShows DEF Merge
  <1>3. CASE GetVisibility(r)
    BY <1>3, GetVisibilityPreserves
  <1>4. CASE ReadSettings(r)
    BY <1>4, ReadSettingsPreserves
  <1>5. CASE CreateVisibilitySettings(r)
    <2>1. CASE SameRows /\ Send(r, 500, Nothing)
      <3>1. Running(r)
        BY <1>5 DEF CreateVisibilitySettings, Running
      <3> QED BY <1>5, <2>1, <3>1, Refusing DEF CreateVisibilitySettings
    <2>2. CASE Send(r, 200, req(r).settings) /\ SetProfile(req(r).id, req(r).settings)
      BY <1>5, <2>2, StoringSettings DEF CreateVisibilitySettings
    <2> QED BY <1>5, <2>1, <2>2 DEF CreateVisibilitySettings
  <1>6. CASE UpdateVisibilitySettings(r)
    BY <1>6, StoringSettings DEF UpdateVisibilitySettings
  <1>7. CASE ReadWords(r)
    BY <1>7, ReadWordsPreserves
  <1>8. CASE InsertWords(r)
    <2>1. CASE SameRows /\ Send(r, 500, Nothing)
      <3>1. Running(r)
        BY <1>8 DEF InsertWords, Running
      <3> QED BY <1>8, <2>1, <3>1, Refusing DEF InsertWords
    <2>2. CASE Send(r, 201, Nothing) /\ SetWords(req(r).viewer, req(r).words) /\ recoveryWords[req(r).viewer] = Nothing
      BY <1>8, <2>2, StoringWords DEF InsertWords
    <2> QED BY <1>8, <2>1, <2>2 DEF InsertWords
  <1>9. CASE DeleteWords(r)
    BY <1>9, DeletingWords DEF DeleteWords
  <1>10. CASE UpdateWords(r)
    <2>1. CASE SameRows /\ recoveryWords[req(r).viewer] = Nothing
      BY <1>10, <2>1, UpdatingNothing DEF UpdateWords
    <2>2. CASE SetWords(req(r).viewer, req(r).words)
      BY <1>10, <2>2, StoringWords DEF UpdateWords
    <2> QED BY <1>10, <2>1, <2>2 DEF UpdateWords
  <1> QED BY <1>1, <1>2, <1>3, <1>4, <1>5, <1>6, <1>7, <1>8, <1>9, <1>10 DEF Step

LEMMA InitIInv == Init => IInv
  <1> SUFFICES ASSUME Init PROVE IInv
    OBVIOUS
  <1>1. \A r \in Requests : pc[r] = "idle"
    BY DEF Init
  <1>2. Typed
    BY DEF Init, Typed
  <1>3. Kinds /\ Noted /\ Merging /\ Sentences /\ SavedStay
    BY <1>1 DEF Kinds, QueryOf, Noted, Merging, Sentences, SavedStay, Running, Done
  <1>4. ShownByConsent /\ SettingsTakeEffect /\ WordsKept
    BY <1>1 DEF ShownByConsent, SettingsTakeEffect, WordsKept, Done
  <1> QED BY <1>2, <1>3, <1>4 DEF IInv

LEMMA StutterIInv == IInv /\ UNCHANGED vars => IInv'
  <1> SUFFICES ASSUME IInv, UNCHANGED vars PROVE IInv'
    OBVIOUS
  <1> USE DEF vars
  <1>1. Typed' /\ Kinds' /\ Noted' /\ Merging' /\ Sentences' /\ SavedStay'
    BY DEF IInv, Typed, Kinds, QueryOf, Noted, Merging, Sentences, SavedStay, DeletionBegun, Running, Done, Row, req
  <1>2. ShownByConsent'
    BY DEF IInv, ShownByConsent, Done, InForce, req
  <1>3. SettingsTakeEffect'
    BY DEF IInv, SettingsTakeEffect, Done, InForce, req
  <1>4. WordsKept'
    BY DEF IInv, WordsKept, Overlaps, Done, req
  <1> QED BY <1>1, <1>2, <1>3, <1>4 DEF IInv

\* The invariant of every behaviour.
THEOREM UserDataInvariant == Spec => []IInv
  <1>1. IInv /\ [Next]_vars => IInv'
    <2> SUFFICES ASSUME IInv, [Next]_vars PROVE IInv'
      OBVIOUS
    <2>1. CASE UNCHANGED vars
      BY <2>1, StutterIInv
    <2>2. ASSUME NEW r \in Requests, Begin(r) PROVE IInv'
      BY <2>2, BeginPreserves
    <2>3. ASSUME NEW r \in Requests, Step(r) PROVE IInv'
      BY <2>3, StepPreserves
    <2>4. ASSUME NEW r \in Requests, MergeWithoutContacts(r) PROVE IInv'
      BY <2>4, MergeShows DEF MergeWithoutContacts
    <2>5. ASSUME NEW r \in Requests, QueryFails(r) PROVE IInv'
      BY <2>5, QueryFailsPreserves
    <2> QED BY <2>1, <2>2, <2>3, <2>4, <2>5 DEF Next
  <1> QED BY <1>1, InitIInv, PTL DEF Spec

\* UserInfoService.get shows an address or a number of a user of this server to somebody else
\* only under settings that were in force while the request ran, however many updates of the
\* settings and failing queries come between its two reads.
THEOREM ConsentHolds == Spec => []ShownByConsent
  <1>1. IInv => ShownByConsent
    BY DEF IInv
  <1> QED BY <1>1, UserDataInvariant, PTL

\* The vault's controllers acknowledge one save until a deletion, store what they acknowledge
\* unless a deletion overlaps, and read what was stored, for any number of requests at once.
THEOREM WordsAreKept == Spec => []WordsKept
  <1>1. IInv => WordsKept
    BY DEF IInv
  <1> QED BY <1>1, UserDataInvariant, PTL

(***************************************************************************)
(* Type correctness.                                                       *)
(***************************************************************************)
RowType(r) == (IF req(r).kind \in VaultKinds THEN Words ELSE Settings) \union {Nothing}
Statuses == {0, 200, 201, 204, 400, 403, 404, 409, 500}

LEMMA TypedRequests ==
  ASSUME TypeOK, NEW r \in Requests
  PROVE  /\ req(r).id \in Ids /\ req(r).viewer \in Ids
         /\ req(r).settings \in Settings /\ req(r).words \in Words \union {Nothing}
         /\ req(r).kind \in {"none"} \union UserInfoKinds \union VaultKinds
         /\ Row(r) \in RowType(r)
  <1>1. scenario \in ScenarioType
    BY ScenariosAssumption DEF TypeOK
  <1>2. scenario.req[r] \in [kind : {"none"} \union UserInfoKinds \union VaultKinds, id : Ids, viewer : Ids,
                             settings : Settings, words : Words \union {Nothing}]
    BY <1>1 DEF ScenarioType
  <1>3. /\ req(r).id \in Ids /\ req(r).viewer \in Ids
        /\ req(r).settings \in Settings /\ req(r).words \in Words \union {Nothing}
        /\ req(r).kind \in {"none"} \union UserInfoKinds \union VaultKinds
    BY <1>2 DEF req
  <1>4. Row(r) \in RowType(r)
    BY <1>3 DEF Row, RowType, TypeOK
  <1> QED BY <1>3, <1>4

\* Rows and what is noted of them, by the way a step treats them.
RowsTyped ==
  /\ profileSettings' \in [Ids -> Settings \union {Nothing}]
  /\ recoveryWords' \in [Ids -> Words \union {Nothing}]
  /\ DOMAIN during' = Requests
  /\ \A r \in Requests : during'[r] \subseteq RowType(r)

LEMMA RowsStayTyped ==
  ASSUME TypeOK
  PROVE  /\ SameRows => RowsTyped
         /\ \A i \in Ids, v \in Settings \union {Nothing} : SetProfile(i, v) => RowsTyped
         /\ \A i \in Ids, v \in Words \union {Nothing} : SetWords(i, v) => RowsTyped
  <1>1. SameRows => RowsTyped
    BY DEF TypeOK, SameRows, RowsTyped, RowType
  <1>2. ASSUME NEW i \in Ids, NEW v \in Settings \union {Nothing}, SetProfile(i, v) PROVE RowsTyped
    <2>1. \A r \in Requests : during'[r] \subseteq RowType(r)
      BY <1>2 DEF TypeOK, SetProfile, Note, RowType, UserInfoKinds, VaultKinds
    <2> QED BY <1>2, <2>1 DEF TypeOK, SetProfile, Note, RowsTyped
  <1>3. ASSUME NEW i \in Ids, NEW v \in Words \union {Nothing}, SetWords(i, v) PROVE RowsTyped
    <2>1. \A r \in Requests : during'[r] \subseteq RowType(r)
      BY <1>3 DEF TypeOK, SetWords, Note, RowType
    <2> QED BY <1>3, <2>1 DEF TypeOK, SetWords, Note, RowsTyped
  <1> QED BY <1>1, <1>2, <1>3

LEMMA TypeStep ==
  ASSUME TypeOK, RowsTyped, scenario' = scenario, got' \in [Requests -> Settings \union {Nothing}],
         NEW r \in Requests,
         (\E shown : \E status \in Statuses : Send(r, status, shown)) \/ (\E query \in Queries : Goto(r, query))
  PROVE  TypeOK'
  <1>1. pc' \in [Requests -> Queries \union {"idle", "answered"}] /\ reply' \in [Requests -> Statuses]
    BY DEF TypeOK, Send, Goto, Statuses
  <1>2. \A q \in Requests : during'[q] \subseteq ((IF req(q).kind \in VaultKinds THEN Words ELSE Settings) \union {Nothing})'
    BY DEF RowsTyped, RowType, req
  <1> QED BY <1>1, <1>2 DEF TypeOK, RowsTyped, Statuses

\* The tables stay well-formed, and the answers that updateVisibility and getVisibility gave
\* stay true, at every step of every request.
THEOREM SettingsStayConsistent == Spec => []SettingsConsistent
  <1>1. Init => TypeOK
    BY DEF Init, TypeOK
  <1>2. TypeOK /\ IInv /\ [Next]_vars => TypeOK'
    <2> SUFFICES ASSUME TypeOK, IInv, [Next]_vars PROVE TypeOK'
      OBVIOUS
    <2>1. CASE UNCHANGED vars
      BY <2>1 DEF TypeOK, vars, req
    <2>2. ASSUME NEW r \in Requests, Begin(r) PROVE TypeOK'
      <3>1. RowsTyped
        BY <2>2, TypedRequests DEF Begin, RowsTyped, TypeOK, RowType
      <3>2. Rejected(r) \in Statuses
        BY DEF Rejected, Statuses
      <3>3. FirstQuery[req(r).kind] \in Queries
        BY <2>2, TypedRequests DEF Begin, FirstQuery, UserInfoKinds, VaultKinds, Queries
      <3> QED BY <2>2, <3>1, <3>2, <3>3, TypeStep DEF Begin, TypeOK
    <2>3. ASSUME NEW r \in Requests, ReadProfileSettings(r) PROVE TypeOK'
      <3>1. got' \in [Requests -> Settings \union {Nothing}] /\ "merge" \in Queries
        BY <2>3, TypedRequests DEF ReadProfileSettings, TypeOK, Queries
      <3> QED BY <2>3, <3>1, RowsStayTyped, TypeStep DEF ReadProfileSettings
    <2>4. ASSUME NEW r \in Requests, Step(r) \/ MergeWithoutContacts(r) \/ QueryFails(r), ~ ReadProfileSettings(r)
          PROVE  TypeOK'
      <3> USE DEF Statuses, Queries
      <3>1. /\ req(r).id \in Ids /\ req(r).viewer \in Ids
            /\ req(r).settings \in Settings \union {Nothing} /\ req(r).words \in Words \union {Nothing}
            /\ Nothing \in Words \union {Nothing}
        BY TypedRequests
      <3>2. scenario' = scenario /\ got' \in [Requests -> Settings \union {Nothing}]
        BY <2>4 DEF Step, Merge, GetVisibility, ReadSettings, CreateVisibilitySettings, UpdateVisibilitySettings,
                    ReadWords, InsertWords, DeleteWords, UpdateWords, MergeWithoutContacts, QueryFails, TypeOK
      <3>3. SameRows \/ SetProfile(req(r).id, req(r).settings)
              \/ SetWords(req(r).viewer, req(r).words) \/ SetWords(req(r).viewer, Nothing)
        BY <2>4 DEF Step, Merge, GetVisibility, ReadSettings, CreateVisibilitySettings, UpdateVisibilitySettings,
                    ReadWords, InsertWords, DeleteWords, UpdateWords, MergeWithoutContacts, QueryFails
      <3>4. RowsTyped
        BY <3>1, <3>3, RowsStayTyped
      <3>5. (\E shown : \E status \in Statuses : Send(r, status, shown)) \/ (\E query \in Queries : Goto(r, query))
        <4>1. /\ {200, 201, 204, 404, 409, 500} \subseteq Statuses
              /\ {"createSettings", "updateSettings", "insertWords", "deleteWords", "updateWords"} \subseteq Queries
          OBVIOUS
        <4> HIDE DEF Statuses, Queries
        <4>2. CASE Merge(r) \/ MergeWithoutContacts(r)
          BY <4>1, <4>2 DEF Merge, MergeWithoutContacts, MergeWith
        <4>3. CASE GetVisibility(r) \/ CreateVisibilitySettings(r) \/ UpdateVisibilitySettings(r)
          BY <4>1, <4>3 DEF GetVisibility, CreateVisibilitySettings, UpdateVisibilitySettings
        <4>4. CASE InsertWords(r) \/ DeleteWords(r) \/ UpdateWords(r) \/ QueryFails(r)
          BY <4>1, <4>4 DEF InsertWords, DeleteWords, UpdateWords, QueryFails
        <4>5. CASE ReadSettings(r)
          BY <4>1, <4>5 DEF ReadSettings
        <4>6. CASE ReadWords(r)
          <5>1. Send(r, 404, Nothing) \/ Send(r, 409, Nothing) \/ Send(r, 200, recoveryWords[req(r).viewer])
                  \/ Goto(r, "insertWords") \/ Goto(r, "deleteWords") \/ Goto(r, "updateWords")
            BY <4>6 DEF ReadWords
          <5> QED BY <4>1, <5>1
        <4> QED BY <2>4, <4>2, <4>3, <4>4, <4>5, <4>6 DEF Step
      <3> QED BY <3>2, <3>4, <3>5, TypeStep
    <2> QED BY <2>1, <2>2, <2>3, <2>4 DEF Next
  <1>3. TypeOK /\ IInv => SettingsConsistent
    BY DEF IInv, SettingsConsistent
  <1> QED BY <1>1, <1>2, <1>3, UserDataInvariant, PTL DEF Spec

-----------------------------------------------------------------------------
(***************************************************************************)
(* The requests to Synapse as an administrator                             *)
(***************************************************************************)

\* What is known of the token of a job q, when Synapse is at generation g: it
\* is not from the future, it is there when it is needed, a refused one is
\* old, and the one of a retry is younger than the first revocation.
TokenOK(q, g) ==
    /\ q.token # None => q.token <= g
    /\ q.pc \in {"issued", "send", "answer"} => q.token # None
    /\ q.answer = "unauthorized" => q.token # None /\ q.token < g
    /\ q.attempt = 1 => g >= 1 /\ (q.token # None => q.token >= 1)

\* What is known of the answer of a job q that has set the fields w.
AnswerOK(q, w) ==
    /\ q.answer # None => q.pc \in {"answer", "done", "failed"}
    /\ q.kind = "settings" /\ q.pc = "failed" /\ q.answer = "unauthorized" => q.attempt = 1
    /\ q.request \in {"media", "disable"} => q.kind = "deactivate"
    /\ q.request \in {"upload", "profile"} \/ q.pc = "image" => q.kind = "settings"
    /\ q.pc = "answer" /\ q.request = "profile" /\ q.answer = "ok" => q.fields \subseteq w
    /\ q.kind = "settings" /\ q.pc = "done" => q.fields \subseteq w

CacheOK == cache # None => cache <= gen

\* The inductive invariant.
AdminInv ==
    /\ AdminTypeOK /\ CacheOK
    /\ \A j \in Jobs : TokenOK(job[j], gen) /\ AnswerOK(job[j], written[j])

-----------------------------------------------------------------------------
\* A step that only replaces the record of one job keeps the invariant when
\* the new record is good and the cache holds no token from the future.
LEMMA OneJob ==
    ASSUME AdminInv, NEW j \in Jobs, NEW q \in Job,
           job' = [job EXCEPT ![j] = q], gen' = gen,
           written' \in [Jobs -> SUBSET Fields], disabled' \subseteq Jobs,
           \A x \in Jobs \ {j} : written'[x] = written[x],
           failures' \in 0..MaxFailures, cache' \in Token, CacheOK',
           TokenOK(q, gen), AnswerOK(q, written'[j])
    PROVE  AdminInv'
  <1>1. job' \in [Jobs -> Job]
    BY DEF AdminInv, AdminTypeOK
  <1>2. \A x \in Jobs \ {j} : job'[x] = job[x]
    BY DEF AdminInv, AdminTypeOK
  <1>3. job'[j] = q
    BY DEF AdminInv, AdminTypeOK
  <1>4. \A x \in Jobs : TokenOK(job'[x], gen')
    BY <1>2, <1>3 DEF AdminInv
  <1>5. \A x \in Jobs : AnswerOK(job'[x], written'[x])
    BY <1>2, <1>3 DEF AdminInv
  <1> QED BY <1>1, <1>4, <1>5 DEF AdminInv, AdminTypeOK

\* The same when nothing else changes, failures apart.
LEMMA OnlyJob ==
    ASSUME AdminInv, NEW j \in Jobs, NEW q \in Job,
           job' = [job EXCEPT ![j] = q], UNCHANGED <<cache, synapse>>,
           UNCHANGED failures \/ Failure,
           TokenOK(q, gen), AnswerOK(q, written[j])
    PROVE  AdminInv'
  <1>1. /\ written' \in [Jobs -> SUBSET Fields] /\ disabled' \subseteq Jobs
        /\ \A x \in Jobs : written'[x] = written[x]
        /\ cache' \in Token /\ gen' = gen
    BY DEF AdminInv, AdminTypeOK, synapse
  <1>2. failures' \in 0..MaxFailures
    BY AdminAssumption DEF AdminInv, AdminTypeOK, Failure
  <1>3. CacheOK'
    BY DEF AdminInv, CacheOK, synapse
  <1> QED BY <1>1, <1>2, <1>3, OneJob

\* Moving a job that has no answer to another place keeps the invariant, as
\* long as the place needs no token.
LEMMA MoveJob ==
    ASSUME AdminInv, NEW j \in Jobs,
           NEW place \in {"auth_cookie", "oidc_provider", "redirect", "login_token",
                       "access_token", "failed"},
           job[j].pc \in LoginPcs \cup {"image", "send"},
           job' = [job EXCEPT ![j].pc = place], UNCHANGED <<cache, synapse>>,
           UNCHANGED failures \/ Failure
    PROVE  AdminInv'
  <1> DEFINE q == [job[j] EXCEPT !.pc = place]
  <1>1. job[j] \in Job /\ TokenOK(job[j], gen) /\ AnswerOK(job[j], written[j])
    BY DEF AdminInv, AdminTypeOK
  <1>2. q \in Job /\ job' = [job EXCEPT ![j] = q]
    BY <1>1 DEF Job, LoginPcs, AdminInv, AdminTypeOK
  <1>3. job[j].answer = None
    BY <1>1 DEF AnswerOK, LoginPcs
  <1>4. TokenOK(q, gen)
    BY <1>1, <1>3, AdminAssumption DEF TokenOK, Job
  <1>5. AnswerOK(q, written[j])
    BY <1>1, <1>3, AdminAssumption DEF AnswerOK, Job
  <1> QED BY <1>2, <1>4, <1>5, OnlyJob

\* Sending a request with whatever the cache holds keeps the invariant.
LEMMA SendJob ==
    ASSUME AdminInv, NEW j \in Jobs, NEW q \in Job,
           job' = [job EXCEPT ![j] = q], UNCHANGED <<cache, synapse>>,
           UNCHANGED failures \/ Failure,
           q.kind = "settings", q.request \in {"upload", "profile"}, q.attempt = 0,
           q.answer = None, q.token = cache,
           q.pc = IF cache = None THEN "provider_token" ELSE "send"
    PROVE  AdminInv'
  <1>1. TokenOK(q, gen)
    BY AdminAssumption DEF TokenOK, AdminInv, CacheOK
  <1>2. AnswerOK(q, written[j])
    BY AdminAssumption DEF AnswerOK
  <1> QED BY <1>1, <1>2, OnlyJob

LEMMA BeginJobInv ==
    ASSUME AdminInv, NEW j \in Jobs, BeginJob(j)
    PROVE  AdminInv'
  <1>1. NoJob \in Job
    BY DEF NoJob, Job, maxRetries, Token
  <1>2. ASSUME NEW fields \in SUBSET Fields, UpdateUserInformation(j, fields) PROVE AdminInv'
    <2>1. CASE fields = {}
      <3> DEFINE q == [NoJob EXCEPT !.kind = "settings", !.pc = "failed"]
      <3>1. q \in Job /\ job' = [job EXCEPT ![j] = q]
        BY <1>1, <1>2, <2>1 DEF UpdateUserInformation, Job, NoJob
      <3>2. TokenOK(q, gen) /\ AnswerOK(q, written[j])
        BY AdminAssumption DEF TokenOK, AnswerOK, NoJob
      <3> QED BY <1>2, <3>1, <3>2, OnlyJob DEF UpdateUserInformation
    <2>2. CASE fields # {} /\ "avatar_url" \in fields
      <3> DEFINE q == [NoJob EXCEPT !.kind = "settings", !.fields = fields, !.pc = "image"]
      <3>1. q \in Job /\ job' = [job EXCEPT ![j] = q]
        BY <1>1, <1>2, <2>2 DEF UpdateUserInformation, Job, NoJob
      <3>2. TokenOK(q, gen) /\ AnswerOK(q, written[j])
        BY AdminAssumption DEF TokenOK, AnswerOK, NoJob
      <3> QED BY <1>2, <3>1, <3>2, OnlyJob DEF UpdateUserInformation
    <2>3. CASE fields # {} /\ "avatar_url" \notin fields
      <3> DEFINE q == [NoJob EXCEPT !.kind = "settings", !.fields = fields, !.token = cache,
                                    !.request = "profile",
                                    !.pc = IF cache = None THEN "provider_token" ELSE "send"]
      <3>1. q \in Job
        BY <1>1 DEF Job, NoJob, AdminInv, AdminTypeOK, LoginPcs
      <3>2. job' = [job EXCEPT ![j] = q]
        BY <1>2, <2>3 DEF UpdateUserInformation
      <3>3. /\ q.kind = "settings" /\ q.request = "profile" /\ q.attempt = 0
            /\ q.answer = None /\ q.token = cache
            /\ q.pc = IF cache = None THEN "provider_token" ELSE "send"
        BY DEF NoJob
      <3> QED BY <1>2, <3>1, <3>2, <3>3, SendJob DEF UpdateUserInformation
    <2> QED BY <2>1, <2>2, <2>3
  <1>3. ASSUME RemoveAccount(j) PROVE AdminInv'
    <2> DEFINE q == [NoJob EXCEPT !.kind = "deactivate", !.pc = "provider_token"]
    <2>1. q \in Job /\ job' = [job EXCEPT ![j] = q]
      BY <1>1, <1>3 DEF RemoveAccount, Job, NoJob, LoginPcs
    <2>2. TokenOK(q, gen) /\ AnswerOK(q, written[j])
      BY AdminAssumption DEF TokenOK, AnswerOK, NoJob
    <2> QED BY <1>3, <2>1, <2>2, OnlyJob DEF RemoveAccount
  <1>4. ASSUME NEW cookies \in BOOLEAN, GetQRCode(j, cookies) PROVE AdminInv'
    <2> DEFINE q == [NoJob EXCEPT !.kind = "qrcode",
                                  !.pc = IF cookies THEN "oidc_provider" ELSE "failed"]
    <2>1. q \in Job /\ job' = [job EXCEPT ![j] = q]
      BY <1>1, <1>4 DEF GetQRCode, Job, NoJob, LoginPcs
    <2>2. TokenOK(q, gen) /\ AnswerOK(q, written[j])
      BY AdminAssumption DEF TokenOK, AnswerOK, NoJob
    <2> QED BY <1>4, <2>1, <2>2, OnlyJob DEF GetQRCode
  <1> QED BY <1>2, <1>3, <1>4 DEF BeginJob

LEMMA LoginInv ==
    ASSUME AdminInv, NEW j \in Jobs,
           \/ FetchAvatar(j)
           \/ GetAuthProviderLoginToken(j) \/ GetAuthCookie(j) \/ GetOidcProvider(j)
           \/ GetOidcRedirectLocation(j) \/ GetLoginToken(j)
           \/ RequestAccessToken(j) \/ LoginFails(j) \/ TokenArrives(j)
    PROVE  AdminInv'
  <1>0. job[j] \in Job /\ TokenOK(job[j], gen) /\ AnswerOK(job[j], written[j])
    BY DEF AdminInv, AdminTypeOK
  <1>1. ASSUME FetchAvatar(j) PROVE AdminInv'
    <2>1. CASE MoveTo(j, "failed") /\ Failure
      BY <1>1, <2>1, MoveJob DEF FetchAvatar, MoveTo, At
    <2>2. CASE MakeRequest(j, "upload") /\ NoFailure
      <3> DEFINE q == [job[j] EXCEPT !.request = "upload", !.attempt = 0,
                                     !.token = cache, !.answer = None,
                                     !.pc = IF cache = None THEN "provider_token" ELSE "send"]
      <3>0. cache \in Token /\ 0 \in 0..maxRetries
        BY DEF AdminInv, AdminTypeOK, maxRetries
      <3>1. q \in Job
        BY <1>0, <3>0 DEF Job, LoginPcs
      <3>2. job' = [job EXCEPT ![j] = q]
        BY <2>2 DEF MakeRequest, AdminInv, AdminTypeOK
      <3>3. job[j].kind = "settings"
        BY <1>0, <1>1 DEF FetchAvatar, At, AnswerOK
      <3>4. /\ q.kind = "settings" /\ q.request = "upload" /\ q.attempt = 0
            /\ q.answer = None /\ q.token = cache
            /\ q.pc = IF cache = None THEN "provider_token" ELSE "send"
        BY <1>0, <3>3 DEF Job
      <3> QED BY <1>1, <2>2, <3>1, <3>2, <3>4, SendJob DEF FetchAvatar, NoFailure
    <2> QED BY <1>1, <2>1, <2>2 DEF FetchAvatar
  <1>2. ASSUME NEW from \in LoginPcs,
               NEW to \in {"auth_cookie", "oidc_provider", "redirect", "login_token",
                           "access_token"},
               LoginCall(j, from, to)
        PROVE  AdminInv'
    BY <1>2, MoveJob DEF LoginCall, At, MoveTo
  <1>3. ASSUME RequestAccessToken(j) PROVE AdminInv'
    <2> DEFINE q == [job[j] EXCEPT !.token = gen, !.pc = "issued"]
    <2>0. gen \in Token
      BY AdminAssumption DEF AdminInv, AdminTypeOK, Token
    <2>1. q \in Job
      BY <1>0, <2>0 DEF Job, LoginPcs
    <2>2. job' = [job EXCEPT ![j] = q]
      BY <1>3 DEF RequestAccessToken, AdminInv, AdminTypeOK
    <2>3. gen \in Nat
      BY AdminAssumption DEF AdminInv, AdminTypeOK
    <2>4. job[j].answer = None
      BY <1>0, <1>3 DEF RequestAccessToken, At, AnswerOK
    <2>5. TokenOK(q, gen)
      BY <1>0, <2>3, <2>4, AdminAssumption DEF TokenOK, Job
    <2>6. AnswerOK(q, written[j])
      BY <1>0, <2>4, AdminAssumption DEF AnswerOK, Job
    <2> QED BY <1>3, <2>1, <2>2, <2>5, <2>6, OnlyJob DEF RequestAccessToken
  <1>4. ASSUME LoginFails(j) PROVE AdminInv'
    <2> DEFINE q == [job[j] EXCEPT !.pc = "failed", !.answer = None]
    <2>1. q \in Job
      BY <1>0 DEF Job
    <2>2. job' = [job EXCEPT ![j] = q]
      BY <1>4 DEF LoginFails, AdminInv, AdminTypeOK
    <2>3. TokenOK(q, gen)
      BY <1>0, AdminAssumption DEF TokenOK, Job
    <2>4. AnswerOK(q, written[j])
      BY <1>0, AdminAssumption DEF AnswerOK, Job
    <2> QED BY <1>4, <2>1, <2>2, <2>3, <2>4, OnlyJob DEF LoginFails
  <1>5. ASSUME TokenArrives(j) PROVE AdminInv'
    <2> DEFINE q == [job[j] EXCEPT !.pc = IF job[j].kind = "qrcode" THEN "done" ELSE "send",
                         !.request = IF job[j].kind = "deactivate" THEN "media" ELSE @]
    <2>1. q \in Job
      BY <1>0 DEF Job
    <2>2. job' = [job EXCEPT ![j] = q]
      BY <1>5 DEF TokenArrives, AdminInv, AdminTypeOK
    <2>3. job[j].token # None /\ job[j].token <= gen
      BY <1>0, <1>5 DEF TokenArrives, At, TokenOK
    <2>4. job[j].answer = None
      BY <1>0, <1>5 DEF TokenArrives, At, AnswerOK
    <2>5. TokenOK(q, gen)
      BY <1>0, <2>3, <2>4, AdminAssumption DEF TokenOK, Job
    <2>6. AnswerOK(q, written[j])
      BY <1>0, <2>4, AdminAssumption DEF AnswerOK, Job
    <2>7. cache' \in Token /\ CacheOK'
      BY <1>0, <1>5, <2>3 DEF TokenArrives, AdminInv, AdminTypeOK, CacheOK, Job, synapse
    <2>8. /\ gen' = gen /\ written' = written /\ disabled' = disabled /\ failures' = failures
      BY <1>5 DEF TokenArrives, synapse
    <2>9. /\ written' \in [Jobs -> SUBSET Fields] /\ disabled' \subseteq Jobs
          /\ failures' \in 0..MaxFailures
      BY <2>8 DEF AdminInv, AdminTypeOK
    <2> QED BY <2>1, <2>2, <2>5, <2>6, <2>7, <2>8, <2>9, OneJob
  <1> QED BY <1>1, <1>2, <1>3, <1>4, <1>5 DEF GetAuthProviderLoginToken, GetAuthCookie,
        GetOidcProvider, GetOidcRedirectLocation, GetLoginToken, LoginPcs

\* What Synapse performs keeps the types and adds to the fields of its job.
LEMMA PerformType ==
    ASSUME AdminInv, NEW j \in Jobs, Perform(j)
    PROVE  /\ written' \in [Jobs -> SUBSET Fields] /\ disabled' \subseteq Jobs /\ gen' = gen
           /\ \A x \in Jobs \ {j} : written'[x] = written[x]
           /\ written[j] \subseteq written'[j]
           /\ job[j].request = "profile" => job[j].fields \subseteq written'[j]
  <1>1. job[j] \in Job
    BY DEF AdminInv, AdminTypeOK
  <1> QED BY <1>1 DEF Perform, AdminInv, AdminTypeOK, Job

LEMMA SynapseInv ==
    ASSUME AdminInv, NEW j \in Jobs,
           Accepted(j) \/ Unauthorized(j) \/ ServerError(j) \/ Lost(j)
    PROVE  AdminInv'
  <1>0. job[j] \in Job /\ TokenOK(job[j], gen) /\ AnswerOK(job[j], written[j])
    BY DEF AdminInv, AdminTypeOK
  <1>a. At(j, "send") /\ UNCHANGED cache
    BY DEF Accepted, Unauthorized, ServerError, Lost
  <1>b. job[j].answer = None /\ job[j].token # None /\ job[j].token <= gen
    BY <1>0, <1>a DEF At, TokenOK, AnswerOK
  <1>c. gen \in Nat /\ job[j].token \in Nat
    BY <1>0, <1>b, AdminAssumption DEF AdminInv, AdminTypeOK, Job, Token
  <1>1. ASSUME NEW a \in {"ok", "empty"}, Answer(j, a), Perform(j),
               UNCHANGED failures \/ Failure
        PROVE  AdminInv'
    <2> DEFINE q == [job[j] EXCEPT !.pc = "answer", !.answer = a]
    <2>1. q \in Job
      BY <1>0 DEF Job
    <2>2. job' = [job EXCEPT ![j] = q]
      BY <1>1 DEF Answer, AdminInv, AdminTypeOK
    <2>3. TokenOK(q, gen)
      BY <1>0, <1>b DEF TokenOK, Job
    <2>4. AnswerOK(q, written'[j])
      BY <1>0, <1>1, <1>b, PerformType DEF AnswerOK, Job
    <2>5. cache' \in Token /\ CacheOK'
      BY <1>1, <1>a DEF AdminInv, AdminTypeOK, CacheOK, Perform
    <2>6. failures' \in 0..MaxFailures
      BY <1>1, AdminAssumption DEF Failure, AdminInv, AdminTypeOK
    <2> QED BY <1>1, <2>1, <2>2, <2>3, <2>4, <2>5, <2>6, PerformType, OneJob
  <1>2. ASSUME Unauthorized(j) PROVE AdminInv'
    <2> DEFINE q == [job[j] EXCEPT !.pc = "answer", !.answer = "unauthorized"]
    <2>1. q \in Job
      BY <1>0 DEF Job
    <2>2. job' = [job EXCEPT ![j] = q]
      BY <1>2 DEF Unauthorized, Answer, AdminInv, AdminTypeOK
    <2>3. job[j].token < gen
      BY <1>2, <1>b, <1>c DEF Unauthorized
    <2>4. TokenOK(q, gen)
      BY <1>0, <1>b, <2>3 DEF TokenOK, Job
    <2>5. AnswerOK(q, written[j])
      BY <1>0, <1>b DEF AnswerOK, Job
    <2> QED BY <1>2, <2>1, <2>2, <2>4, <2>5, OnlyJob DEF Unauthorized
  <1>3. ASSUME ServerError(j) PROVE AdminInv'
    <2> DEFINE q == [job[j] EXCEPT !.pc = "answer", !.answer = "error"]
    <2>1. q \in Job
      BY <1>0 DEF Job
    <2>2. job' = [job EXCEPT ![j] = q]
      BY <1>3 DEF ServerError, Answer, AdminInv, AdminTypeOK
    <2>3. TokenOK(q, gen)
      BY <1>0, <1>b DEF TokenOK, Job
    <2>4. AnswerOK(q, written[j])
      BY <1>0, <1>b DEF AnswerOK, Job
    <2> QED BY <1>3, <2>1, <2>2, <2>3, <2>4, OnlyJob DEF ServerError
  <1>4. ASSUME Lost(j) PROVE AdminInv'
    <2>1. PICK q \in {[job[j] EXCEPT !.request = "disable"], [job[j] EXCEPT !.pc = "failed"]} :
            /\ job' = [job EXCEPT ![j] = q]
            /\ q = [job[j] EXCEPT !.request = "disable"] => job[j].request = "media"
      <3>1. CASE job[j].request = "media"
        BY <1>4, <3>1 DEF Lost, AdminInv, AdminTypeOK
      <3>2. CASE job[j].request # "media"
        <4>1. job' = [job EXCEPT ![j] = [job[j] EXCEPT !.pc = "failed"]]
          BY <1>4, <3>2 DEF Lost, MoveTo, AdminInv, AdminTypeOK
        <4>2. [job[j] EXCEPT !.pc = "failed"] # [job[j] EXCEPT !.request = "disable"]
          BY <1>0, <1>a DEF Job, At
        <4> QED BY <4>1, <4>2
      <3> QED BY <3>1, <3>2
    <2>2. q \in Job /\ q.answer = None /\ q.token = job[j].token /\ q.attempt = job[j].attempt
      BY <1>0, <1>b, <2>1 DEF Job
    <2>3. TokenOK(q, gen)
      BY <1>0, <1>b, <2>2, AdminAssumption DEF TokenOK, Job
    <2>4. \A w : AnswerOK(q, w)
      BY <1>0, <1>a, <1>b, <2>1, AdminAssumption DEF AnswerOK, Job, At
    <2>5. /\ gen' = gen /\ written' \in [Jobs -> SUBSET Fields] /\ disabled' \subseteq Jobs
          /\ \A x \in Jobs \ {j} : written'[x] = written[x]
      <3>1. CASE Perform(j)
        BY <3>1, PerformType
      <3>2. CASE UNCHANGED synapse
        BY <3>2 DEF synapse, AdminInv, AdminTypeOK
      <3> QED BY <1>4, <3>1, <3>2 DEF Lost
    <2>6. cache' \in Token /\ CacheOK'
      BY <1>a, <2>5 DEF AdminInv, AdminTypeOK, CacheOK
    <2>7. failures' \in 0..MaxFailures
      BY <1>4, AdminAssumption DEF Lost, Failure, AdminInv, AdminTypeOK
    <2> QED BY <2>1, <2>2, <2>3, <2>4, <2>5, <2>6, <2>7, OneJob
  <1> QED BY <1>1, <1>2, <1>3, <1>4 DEF Accepted, NoFailure

LEMMA HandleInv ==
    ASSUME AdminInv, NEW j \in Jobs,
           \/ Refused(j) \/ UploadAnswered(j) \/ ProfileAnswered(j)
           \/ MediaAnswered(j) \/ DisableAnswered(j)
    PROVE  AdminInv'
  <1>0. job[j] \in Job /\ TokenOK(job[j], gen) /\ AnswerOK(job[j], written[j])
    BY DEF AdminInv, AdminTypeOK
  <1>a. job[j].pc = "answer"
    BY DEF Refused, UploadAnswered, ProfileAnswered, MediaAnswered, DisableAnswered, At
  <1>b. gen \in Nat /\ (job[j].token # None => job[j].token \in Nat)
    BY <1>0, AdminAssumption DEF AdminInv, AdminTypeOK, Job, Token
  <1>1. ASSUME NEW place \in {"done", "failed"}, job' = [job EXCEPT ![j].pc = place],
               UNCHANGED <<cache, synapse, failures>>,
               job[j].kind = "settings" /\ job[j].answer = "unauthorized" =>
                    job[j].attempt = 1,
               job[j].kind = "settings" /\ place = "done" => job[j].fields \subseteq written[j]
        PROVE  AdminInv'
    <2> DEFINE q == [job[j] EXCEPT !.pc = place]
    <2>1. q \in Job /\ job' = [job EXCEPT ![j] = q]
      BY <1>0, <1>1 DEF Job, AdminInv, AdminTypeOK
    <2>2. TokenOK(q, gen)
      BY <1>0, <1>1 DEF TokenOK, Job
    <2>3. AnswerOK(q, written[j])
      BY <1>0, <1>1 DEF AnswerOK, Job
    <2> QED BY <1>1, <2>1, <2>2, <2>3, OnlyJob
  <1>2. ASSUME Refused(j) PROVE AdminInv'
    <2>1. CASE job[j].attempt >= maxRetries
      <3>1. job[j].attempt = 1
        BY <1>0, <2>1 DEF Job, maxRetries
      <3> QED BY <1>1, <1>2, <2>1, <3>1 DEF Refused, MoveTo
    <2>2. CASE ~ (job[j].attempt >= maxRetries)
      <3> DEFINE q == [job[j] EXCEPT !.pc = "provider_token", !.token = None,
                                     !.attempt = 1, !.answer = None]
      <3>1. job[j].attempt + 1 = 1 /\ 1 \in 0..maxRetries /\ None \in Token
        BY <1>0, <2>2 DEF Job, maxRetries, Token
      <3>2. q \in Job
        BY <1>0, <3>1 DEF Job, LoginPcs
      <3>3. job' = [job EXCEPT ![j] = q]
        BY <1>2, <2>2, <3>1 DEF Refused, AdminInv, AdminTypeOK
      <3>4. gen >= 1
        BY <1>0, <1>2, <1>b DEF TokenOK, Refused
      <3>5. TokenOK(q, gen)
        BY <1>0, <3>4, AdminAssumption DEF TokenOK, Job
      <3>6. AnswerOK(q, written[j])
        BY <1>0, AdminAssumption DEF AnswerOK, Job
      <3>7. cache' \in Token /\ CacheOK'
        BY <1>2, <2>2 DEF Refused, Token, CacheOK
      <3>8. gen' = gen /\ written' = written /\ disabled' = disabled /\ failures' = failures
        BY <1>2 DEF Refused, synapse
      <3>9. /\ written' \in [Jobs -> SUBSET Fields] /\ disabled' \subseteq Jobs
            /\ failures' \in 0..MaxFailures
        BY <3>8 DEF AdminInv, AdminTypeOK
      <3> QED BY <3>2, <3>3, <3>5, <3>6, <3>7, <3>8, <3>9, OneJob
    <2> QED BY <2>1, <2>2
  <1>3. ASSUME UploadAnswered(j) PROVE AdminInv'
    <2> DEFINE fields == IF job[j].answer = "empty" THEN job[j].fields \ {"avatar_url"}
                         ELSE job[j].fields
    <2>0. /\ job[j].request = "upload" /\ job[j].answer # "unauthorized"
          /\ job[j].kind = "settings" /\ UNCHANGED <<cache, synapse, failures>>
      BY <1>0, <1>3 DEF UploadAnswered, AnswerOK
    <2>1. CASE job[j].answer = "error"
      BY <1>1, <1>3, <2>0, <2>1 DEF UploadAnswered, MoveTo
    <2>2. CASE job[j].answer # "error" /\ fields = {}
      <3> DEFINE q == [job[j] EXCEPT !.pc = "done", !.fields = {}]
      <3>1. q \in Job
        BY <1>0 DEF Job
      <3>2. job' = [job EXCEPT ![j] = q]
        BY <1>3, <2>2 DEF UploadAnswered, AdminInv, AdminTypeOK
      <3>3. TokenOK(q, gen)
        BY <1>0 DEF TokenOK, Job
      <3>4. AnswerOK(q, written[j])
        BY <1>0, <2>0 DEF AnswerOK, Job
      <3> QED BY <2>0, <3>1, <3>2, <3>3, <3>4, OnlyJob
    <2>3. CASE job[j].answer # "error" /\ fields # {}
      <3> DEFINE q == [job[j] EXCEPT !.fields = fields, !.request = "profile",
                                     !.attempt = 0, !.token = cache, !.answer = None,
                                     !.pc = IF cache = None THEN "provider_token" ELSE "send"]
      <3>0. cache \in Token /\ 0 \in 0..maxRetries /\ fields \in SUBSET Fields
        BY <1>0 DEF AdminInv, AdminTypeOK, maxRetries, Job
      <3>1. q \in Job
        BY <1>0, <3>0 DEF Job, LoginPcs
      <3>2. job' = [job EXCEPT ![j] = q]
        BY <1>3, <2>3 DEF UploadAnswered, AdminInv, AdminTypeOK
      <3>3. /\ q.kind = "settings" /\ q.request = "profile" /\ q.attempt = 0
            /\ q.answer = None /\ q.token = cache
            /\ q.pc = IF cache = None THEN "provider_token" ELSE "send"
        BY <1>0, <2>0 DEF Job
      <3> QED BY <2>0, <3>1, <3>2, <3>3, SendJob
    <2> QED BY <2>1, <2>2, <2>3
  <1>4. ASSUME ProfileAnswered(j) PROVE AdminInv'
    BY <1>0, <1>1, <1>4, <1>a DEF ProfileAnswered, MoveTo, AnswerOK
  <1>5. ASSUME MediaAnswered(j) PROVE AdminInv'
    <2> DEFINE q == [job[j] EXCEPT !.request = "disable", !.pc = "send", !.answer = None]
    <2>1. q \in Job
      BY <1>0 DEF Job
    <2>2. job' = [job EXCEPT ![j] = q]
      BY <1>5 DEF MediaAnswered, AdminInv, AdminTypeOK
    <2>3. job[j].kind = "deactivate" /\ job[j].token # None
      BY <1>0, <1>5, <1>a DEF MediaAnswered, AnswerOK, TokenOK
    <2>4. TokenOK(q, gen)
      BY <1>0, <2>3, AdminAssumption DEF TokenOK, Job
    <2>5. AnswerOK(q, written[j])
      BY <1>0, <2>3, AdminAssumption DEF AnswerOK, Job
    <2> QED BY <1>5, <2>1, <2>2, <2>4, <2>5, OnlyJob DEF MediaAnswered
  <1>6. ASSUME DisableAnswered(j) PROVE AdminInv'
    <2>1. job[j].kind = "deactivate"
      BY <1>0, <1>6 DEF DisableAnswered, AnswerOK
    <2> QED BY <1>1, <1>6, <2>1 DEF DisableAnswered, MoveTo
  <1> QED BY <1>2, <1>3, <1>4, <1>5, <1>6

\* A revocation makes every token older, none younger.
LEMMA RevokeInv ==
    ASSUME AdminInv, Revoke
    PROVE  AdminInv'
  <1>1. gen \in Nat /\ gen' = gen + 1 /\ gen' \in 0..MaxRevocations
    BY AdminAssumption DEF AdminInv, AdminTypeOK, Revoke
  <1>2. ASSUME NEW j \in Jobs PROVE TokenOK(job'[j], gen')
    <2>1. job'[j] = job[j] /\ job[j] \in Job /\ TokenOK(job[j], gen)
      BY DEF Revoke, AdminInv, AdminTypeOK
    <2>2. job[j].token # None => job[j].token \in Nat
      BY <2>1 DEF Job, Token
    <2> QED BY <1>1, <2>1, <2>2 DEF TokenOK
  <1>3. CacheOK'
    BY <1>1 DEF AdminInv, AdminTypeOK, CacheOK, Revoke, Token
  <1> QED BY <1>1, <1>2, <1>3 DEF AdminInv, AdminTypeOK, Revoke

\* The invariant holds throughout: the types are kept, and the history of
\* every token is as TokenOK and AnswerOK say.
THEOREM AdminInvariance == AdminSpec => []AdminInv
<1>1. AdminInit => AdminInv
  <2> SUFFICES ASSUME AdminInit PROVE AdminInv
    OBVIOUS
  <2>1. NoJob \in Job
    BY DEF NoJob, Job, maxRetries, Token
  <2>2. AdminTypeOK /\ CacheOK
    BY <2>1, AdminAssumption DEF AdminInit, AdminTypeOK, Token, CacheOK
  <2>3. ASSUME NEW j \in Jobs PROVE TokenOK(job[j], gen) /\ AnswerOK(job[j], written[j])
    <3>1. job[j] = NoJob
      BY DEF AdminInit
    <3>2. TokenOK(NoJob, gen)
      BY AdminAssumption DEF TokenOK, NoJob
    <3>3. AnswerOK(NoJob, written[j])
      BY AdminAssumption DEF AnswerOK, NoJob
    <3> QED BY <3>1, <3>2, <3>3
  <2> QED BY <2>2, <2>3 DEF AdminInv
<1>2. AdminInv /\ [AdminNext]_adminVars => AdminInv'
  <2> SUFFICES ASSUME AdminInv, [AdminNext]_adminVars PROVE AdminInv'
    OBVIOUS
  <2>1. CASE Revoke
    BY <2>1, RevokeInv
  <2>2. ASSUME NEW j \in Jobs, BeginJob(j) PROVE AdminInv'
    BY <2>2, BeginJobInv
  <2>3. ASSUME NEW j \in Jobs, JobStep(j) PROVE AdminInv'
    BY <2>3, LoginInv, SynapseInv, HandleInv DEF JobStep
  <2>4. CASE UNCHANGED adminVars
    BY <2>4 DEF adminVars, AdminInv, AdminTypeOK, CacheOK
  <2> QED BY <2>1, <2>2, <2>3, <2>4 DEF AdminNext, Terminating
<1> QED BY <1>1, <1>2, PTL DEF AdminSpec

\* Every variable keeps its type, and no request to Synapse is sent more than
\* 1 + maxRetries times.
THEOREM AdminTypeCorrect == AdminSpec => []AdminTypeOK
<1>1. AdminInv => AdminTypeOK
  BY DEF AdminInv
<1> QED BY <1>1, AdminInvariance, PTL

\* One retry is enough for one revocation: however many profile updates share
\* the cached token, one is refused for good only after two revocations.
THEOREM RetrySuffices == AdminSpec => []SurvivesRevocation
<1>1. AdminInv => SurvivesRevocation
  <2> SUFFICES ASSUME AdminInv, NEW j \in Jobs, job[j].kind = "settings", At(j, "failed"),
                      job[j].answer = "unauthorized"
               PROVE  gen >= 2
    BY DEF SurvivesRevocation
  <2>1. job[j] \in Job /\ TokenOK(job[j], gen) /\ AnswerOK(job[j], written[j]) /\ gen \in Nat
    BY AdminAssumption DEF AdminInv, AdminTypeOK
  <2>2. job[j].attempt = 1 /\ job[j].token # None
    BY <2>1 DEF AnswerOK, TokenOK, At
  <2>3. job[j].token \in Nat
    BY <2>1, <2>2 DEF Job, Token
  <2> QED BY <2>1, <2>2, <2>3 DEF TokenOK
<1> QED BY <1>1, AdminInvariance, PTL

\* A profile update that is answered with success was performed by Synapse.
THEOREM ReportedUpdatesHappened == AdminSpec => []UpdateReported
<1>1. AdminInv => UpdateReported
  BY DEF AdminInv, AnswerOK, UpdateReported, At
<1> QED BY <1>1, AdminInvariance, PTL
=============================================================================

------------------------------ MODULE UserData ------------------------------
(***************************************************************************)
(* What tom-server keeps about a user and shows of it: the user            *)
(* information API (UserInfoService, UserInfoController), the visibility   *)
(* settings that govern it, and the vault API with the recovery words.     *)
(*                                                                         *)
(* Every write is preceded by a read in a query of its own, and requests   *)
(* of the same user run between the two.  A row is the set of the columns  *)
(* that have a value, its key column among them, and {} is no row.  A      *)
(* value is the source that it comes from.  The sources other than the     *)
(* visibility settings do not change during a request: which of several    *)
(* versions of a name is shown is not what the properties are about.       *)
(***************************************************************************)
EXTENDS Naturals, FiniteSets

CONSTANTS
  Requests,
  Ids,          \* Matrix identifiers, malformed ones too
  Home,         \* those that end with the server's name
  LocalPart,    \* getLocalPart: [Ids -> local parts and NoLocalPart]
  NoLocalPart,
  Words,        \* recovery sentences
  Nothing,      \* no row, no sentence
  Scenarios,    \* see ScenarioType
  MaxFaults     \* failing queries

ProfileField == {"email", "phone"}
ProfileVisibility == {"public", "contacts", "private"}
Settings == [visibility : ProfileVisibility, visible_fields : SUBSET ProfileField]
LocalParts == {LocalPart[i] : i \in Ids} \ {NoLocalPart}

MatrixColumns == {"user_id", "displayname", "avatar_url"}
DirectoryColumns == {"uid", "cn", "sn", "givenName", "mail", "mobile", "workplaceFqdn"}
SettingsColumns == {"matrix_id", "display_name", "last_name", "first_name", "email", "phone", "language", "timezone"}

UserInfoKinds == {"get", "visibility", "update"}
VaultKinds == {"words", "save", "replace", "delete"}

ScenarioType ==
  [ldap : BOOLEAN, additional : BOOLEAN, common : BOOLEAN, default : Settings,
   profiles : [LocalParts -> SUBSET MatrixColumns],
   directory : [LocalParts -> SUBSET DirectoryColumns],
   usersettings : [Ids -> SUBSET SettingsColumns],
   contacts : [Ids -> SUBSET {"mxid", "display_name"}],   \* of every viewer
   req : [Requests -> [kind : {"none"} \union UserInfoKinds \union VaultKinds,
                       id : Ids, viewer : Ids, settings : Settings, words : Words \union {Nothing}]]]

ASSUME HomeAssumption == Home \subseteq Ids /\ NoLocalPart \notin {LocalPart[i] : i \in Home}
ASSUME ScenariosAssumption == Scenarios \subseteq ScenarioType

VARIABLES
  scenario,          \* chosen once
  profileSettings,   \* [Ids -> Settings \union {Nothing}], matrix_id is the primary key
  recoveryWords,     \* [Ids -> Words \union {Nothing}], userId is the primary key
  pc, reply,         \* per request: its next query, and the status of its answer
  answer,            \* per request: what its answer shows
  got,               \* per request: the row that it read
  during,            \* history: the values that its row had while the request ran
  faults

vars == <<scenario, profileSettings, recoveryWords, pc, reply, answer, got, during, faults>>

req(r) == scenario.req[r]
Running(r) == pc[r] \notin {"idle", "answered"}
Row(r) == IF req(r).kind \in VaultKinds THEN recoveryWords[req(r).viewer] ELSE profileSettings[req(r).id]

\* res.status(status).json(shown)
Send(r, status, shown) ==
  /\ pc' = [pc EXCEPT ![r] = "answered"]
  /\ reply' = [reply EXCEPT ![r] = status]
  /\ answer' = [answer EXCEPT ![r] = shown]

Goto(r, query) == pc' = [pc EXCEPT ![r] = query] /\ UNCHANGED <<reply, answer>>

\* The value that a row is given is noted for the requests that concern it.
Note(concerned, value) ==
  during' = [q \in Requests |->
               IF q \in concerned /\ Running(q) THEN during[q] \union {value} ELSE during[q]]

SetProfile(i, value) ==
  /\ profileSettings' = [profileSettings EXCEPT ![i] = value]
  /\ Note({q \in Requests : req(q).kind \in UserInfoKinds /\ req(q).id = i}, value)
  /\ UNCHANGED recoveryWords

SetWords(i, value) ==
  /\ recoveryWords' = [recoveryWords EXCEPT ![i] = value]
  /\ Note({q \in Requests : req(q).kind \in VaultKinds /\ req(q).viewer = i}, value)
  /\ UNCHANGED profileSettings

SameRows == UNCHANGED <<profileSettings, recoveryWords, during>>

Init ==
  /\ scenario \in Scenarios
  /\ profileSettings = [i \in Ids |-> Nothing]
  /\ recoveryWords = [i \in Ids |-> Nothing]
  /\ pc = [r \in Requests |-> "idle"]
  /\ reply = [r \in Requests |-> 0]
  /\ answer = [r \in Requests |-> Nothing]
  /\ got = [r \in Requests |-> Nothing]
  /\ during = [r \in Requests |-> {}]
  /\ faults = 0

(***************************************************************************)
(* A request arrives and is checked before its first query.                *)
(***************************************************************************)
FirstQuery ==
  [get |-> "batch", visibility |-> "readVisibility", update |-> "readSettings",
   words |-> "readWords", save |-> "readWords", replace |-> "readWords", delete |-> "readWords"]

\* 0: nothing is wrong with it.
Rejected(r) ==
  LET q == req(r)
  IN  CASE q.kind \in UserInfoKinds /\ ~ scenario.ldap -> 500
        [] q.kind = "update" /\ scenario.ldap /\ q.id # q.viewer -> 403
        [] q.kind \in {"get", "visibility"} /\ scenario.ldap /\ LocalPart[q.id] = NoLocalPart -> 404
        [] q.kind \in {"save", "replace"} /\ q.words = Nothing -> 400
        [] OTHER -> 0

Begin(r) ==
  /\ pc[r] = "idle" /\ req(r).kind # "none"
  /\ IF Rejected(r) # 0 THEN Send(r, Rejected(r), Nothing) ELSE Goto(r, FirstQuery[req(r).kind])
  /\ during' = [during EXCEPT ![r] = {Row(r)}]
  /\ UNCHANGED <<scenario, profileSettings, recoveryWords, got, faults>>

(***************************************************************************)
(* UserInfoService.get                                                     *)
(***************************************************************************)
InForce(row) == IF row = Nothing THEN scenario.default ELSE row

\* isIdProfileVisible, for another viewer.
ProfileVisible(q, settings) ==
  \/ settings.visibility = "public"
  \/ settings.visibility = "contacts" /\ scenario.additional /\ q.viewer \in Home /\ q.id \in Home

\* Mutant: the list of visible fields is applied and the visibility of the profile is not.
FieldVisibleToAll(q, settings, field) == q.id = q.viewer \/ field \in settings.visible_fields

FieldVisible(q, settings, field) ==
  q.id = q.viewer \/ (ProfileVisible(q, settings) /\ field \in settings.visible_fields)

\* The last source that has one wins, but the directory's is only used where there is none.
DisplayName(matrix, directory, settings, contact) ==
  CASE "display_name" \in contact -> "addressbook"
    [] "display_name" \notin contact /\ "display_name" \in settings -> "settings"
    [] "display_name" \notin contact \union settings /\ "displayname" \in matrix -> "matrix"
    [] "display_name" \notin contact \union settings /\ "displayname" \notin matrix /\ "cn" \in directory -> "directory"
    [] OTHER -> Nothing

\* Addresses or numbers: those that a source has in its column, if the field is visible.
Contact(visible, directory, column, settings, field) ==
  {s \in {"directory", "settings"} :
     visible /\ IF s = "directory" THEN column \in directory ELSE field \in settings}

Columns(matrix, directory, settings) ==
  (matrix \intersect {"avatar_url"}) \union (directory \intersect {"sn", "givenName", "workplaceFqdn"})
    \union (settings \intersect {"last_name", "first_name", "language", "timezone"})

\* The matrix and directory rows are found by the local part alone.
UserInformation(q, row, contact) ==
  LET settings == IF scenario.common THEN scenario.usersettings[q.id] ELSE {}
      directory == scenario.directory[LocalPart[q.id]]
      matrix == scenario.profiles[LocalPart[q.id]]
  IN  [display_name |-> DisplayName(matrix, directory, settings, contact),
       emails |-> Contact(FieldVisible(q, InForce(row), "email"), directory, "mail", settings, "email"),
       phones |-> Contact(FieldVisible(q, InForce(row), "phone"), directory, "mobile", settings, "phone"),
       others |-> Columns(matrix, directory, settings)]

OnlyUid == [display_name |-> Nothing, emails |-> {}, phones |-> {}, others |-> {}]

\* getBatch reads the sources in parallel; the visibility settings are one of them.
ReadProfileSettings(r) ==
  /\ pc[r] = "batch"
  /\ Goto(r, "merge")
  /\ got' = [got EXCEPT ![r] = profileSettings[req(r).id]]
  /\ SameRows /\ UNCHANGED <<scenario, faults>>

MergeWith(r, contact) ==
  LET info == UserInformation(req(r), got[r], contact)
      skipped == scenario.profiles[LocalPart[req(r).id]] = {} /\ ~ scenario.additional /\ contact = {}
  IN  IF skipped \/ info = OnlyUid THEN Send(r, 404, Nothing) ELSE Send(r, 200, info)

Merge(r) ==
  /\ pc[r] = "merge"
  /\ MergeWith(r, scenario.contacts[req(r).id])
  /\ SameRows /\ UNCHANGED <<scenario, got, faults>>

\* A failing address book counts as an empty one.
MergeWithoutContacts(r) ==
  /\ pc[r] = "merge" /\ faults < MaxFaults
  /\ faults' = faults + 1
  /\ MergeWith(r, {})
  /\ SameRows /\ UNCHANGED <<scenario, got>>

(***************************************************************************)
(* getVisibility and updateVisibility                                      *)
(***************************************************************************)
GetVisibility(r) ==
  /\ pc[r] = "readVisibility"
  /\ Send(r, 200, InForce(profileSettings[req(r).id]))
  /\ SameRows /\ UNCHANGED <<scenario, got, faults>>

ReadSettings(r) ==
  /\ pc[r] = "readSettings"
  /\ Goto(r, IF profileSettings[req(r).id] = Nothing THEN "createSettings" ELSE "updateSettings")
  /\ SameRows /\ UNCHANGED <<scenario, got, faults>>

\* Mutant: a row that is there already is taken for the one that was to be inserted.
CreateVisibilitySettingsIgnoring(r) ==
  /\ pc[r] = "createSettings"
  /\ IF profileSettings[req(r).id] # Nothing THEN Send(r, 200, req(r).settings) /\ SameRows
     ELSE Send(r, 200, req(r).settings) /\ SetProfile(req(r).id, req(r).settings)
  /\ UNCHANGED <<scenario, got, faults>>

\* The key is taken when another first update was faster.
CreateVisibilitySettings(r) ==
  /\ pc[r] = "createSettings"
  /\ IF profileSettings[req(r).id] # Nothing THEN Send(r, 500, Nothing) /\ SameRows
     ELSE Send(r, 200, req(r).settings) /\ SetProfile(req(r).id, req(r).settings)
  /\ UNCHANGED <<scenario, got, faults>>

UpdateVisibilitySettings(r) ==
  /\ pc[r] = "updateSettings"
  /\ Send(r, 200, req(r).settings)
  /\ SetProfile(req(r).id, req(r).settings)
  /\ UNCHANGED <<scenario, got, faults>>

(***************************************************************************)
(* Recovery words, of the user who asks                                    *)
(***************************************************************************)
ReadWords(r) ==
  /\ pc[r] = "readWords"
  /\ LET stored == recoveryWords[req(r).viewer]
     IN  CASE req(r).kind = "words" -> IF stored = Nothing THEN Send(r, 404, Nothing) ELSE Send(r, 200, stored)
           [] req(r).kind = "save" -> IF stored # Nothing THEN Send(r, 409, Nothing) ELSE Goto(r, "insertWords")
           [] OTHER -> IF stored = Nothing THEN Send(r, 404, Nothing)
                       ELSE Goto(r, IF req(r).kind = "delete" THEN "deleteWords" ELSE "updateWords")
  /\ SameRows /\ UNCHANGED <<scenario, got, faults>>

\* Mutant: the sentence that is there is replaced.
InsertWordsAnyway(r) ==
  /\ pc[r] = "insertWords"
  /\ Send(r, 201, Nothing)
  /\ SetWords(req(r).viewer, req(r).words)
  /\ UNCHANGED <<scenario, got, faults>>

InsertWords(r) ==
  /\ pc[r] = "insertWords"
  /\ IF recoveryWords[req(r).viewer] # Nothing THEN Send(r, 500, Nothing) /\ SameRows
     ELSE Send(r, 201, Nothing) /\ SetWords(req(r).viewer, req(r).words)
  /\ UNCHANGED <<scenario, got, faults>>

DeleteWords(r) ==
  /\ pc[r] = "deleteWords"
  /\ Send(r, 204, Nothing)
  /\ SetWords(req(r).viewer, Nothing)
  /\ UNCHANGED <<scenario, got, faults>>

\* An update of a row that is gone changes nothing and is not noticed.
UpdateWords(r) ==
  /\ pc[r] = "updateWords"
  /\ Send(r, 200, Nothing)
  /\ IF recoveryWords[req(r).viewer] = Nothing THEN SameRows ELSE SetWords(req(r).viewer, req(r).words)
  /\ UNCHANGED <<scenario, got, faults>>

(***************************************************************************)
(* A query fails, or its answer is lost after it took effect.              *)
(***************************************************************************)
QueryFails(r) ==
  /\ Running(r) /\ faults < MaxFaults
  /\ faults' = faults + 1
  /\ Send(r, 500, Nothing)
  /\ \/ SameRows
     \/ pc[r] = "createSettings" /\ profileSettings[req(r).id] = Nothing /\ SetProfile(req(r).id, req(r).settings)
     \/ pc[r] = "updateSettings" /\ SetProfile(req(r).id, req(r).settings)
     \/ pc[r] = "insertWords" /\ recoveryWords[req(r).viewer] = Nothing /\ SetWords(req(r).viewer, req(r).words)
     \/ pc[r] = "deleteWords" /\ SetWords(req(r).viewer, Nothing)
     \/ pc[r] = "updateWords" /\ recoveryWords[req(r).viewer] # Nothing /\ SetWords(req(r).viewer, req(r).words)
  /\ UNCHANGED <<scenario, got>>

Step(r) ==
  \/ ReadProfileSettings(r) \/ Merge(r) \/ GetVisibility(r)
  \/ ReadSettings(r) \/ CreateVisibilitySettings(r) \/ UpdateVisibilitySettings(r)
  \/ ReadWords(r) \/ InsertWords(r) \/ DeleteWords(r) \/ UpdateWords(r)

Next == \E r \in Requests : Begin(r) \/ Step(r) \/ MergeWithoutContacts(r) \/ QueryFails(r)

Spec == Init /\ [][Next]_vars

(***************************************************************************)
(* Properties                                                              *)
(***************************************************************************)
Queries ==
  {"batch", "merge", "readVisibility", "readSettings", "createSettings", "updateSettings", "readWords",
   "insertWords", "deleteWords", "updateWords"}

TypeOK ==
  /\ scenario \in Scenarios
  /\ pc \in [Requests -> Queries \union {"idle", "answered"}]
  /\ profileSettings \in [Ids -> Settings \union {Nothing}]
  /\ recoveryWords \in [Ids -> Words \union {Nothing}]
  /\ reply \in [Requests -> {0, 200, 201, 204, 400, 403, 404, 409, 500}]
  /\ got \in [Requests -> Settings \union {Nothing}]
  /\ DOMAIN during = Requests
  /\ \A r \in Requests :
       during[r] \subseteq (IF req(r).kind \in VaultKinds THEN Words ELSE Settings) \union {Nothing}

Done(r, kind, status) == req(r).kind = kind /\ pc[r] = "answered" /\ reply[r] = status

\* An address or a number is shown to someone else only if the settings that its owner had
\* at some moment of the request allow it, while updates of them are under way, fail, or take
\* effect without being acknowledged: an update to private that was answered holds for every
\* later request (user-info-api/services/index.ts:181, 293).  Stated for users of this server:
\* for a foreign identifier the rows of the local user with the same local part are shown
\* under the settings of the foreign one.
ShownByConsent ==
  \A r \in Requests :
    Done(r, "get", 200) /\ req(r).id \in Home /\ req(r).id # req(r).viewer =>
      \A field \in ProfileField :
        (IF field = "email" THEN answer[r].emails ELSE answer[r].phones) # {} =>
          \E row \in during[r] :
            /\ field \in InForce(row).visible_fields
            /\ InForce(row).visibility # "private"
            /\ InForce(row).visibility = "contacts" => {req(r).id, req(r).viewer} \subseteq Home /\ scenario.additional

\* Settings that were acknowledged were in force before the acknowledgement, and settings
\* that are shown are those of some moment of the request; of two first updates at once the
\* slower is told that it failed (user-info-api/services/index.ts:462).
SettingsTakeEffect ==
  \A r \in Requests :
    /\ Done(r, "update", 200) => req(r).settings \in during[r]
    /\ Done(r, "visibility", 200) => \E row \in during[r] : answer[r] = InForce(row)

\* The tables are well-formed, and the settings in them are those acknowledged.
SettingsConsistent == TypeOK /\ SettingsTakeEffect

Overlaps(r, s) == req(s).viewer = req(r).viewer /\ pc[s] # "idle"

\* Recovery words are never replaced by a second save: without a deletion one save at most is
\* acknowledged, however many run at once (vault-api/controllers/vault.ts:41).  A sentence
\* that was acknowledged was stored, unless a deletion came between the two queries of an
\* update (vault.ts:138), and what is read was stored at some moment of the request.
WordsKept ==
  \A r \in Requests :
    /\ Done(r, "save", 201) \/ Done(r, "replace", 200) =>
         \/ req(r).words \in during[r]
         \/ req(r).kind = "replace" /\ \E s \in Requests : req(s).kind = "delete" /\ Overlaps(r, s)
    /\ Done(r, "save", 201) =>
         \A s \in Requests \ {r} :
           Done(s, "save", 201) /\ Overlaps(r, s) => \E d \in Requests : req(d).kind = "delete" /\ Overlaps(r, d)
    /\ Done(r, "words", 200) => answer[r] \in during[r]
    /\ Done(r, "words", 404) => Nothing \in during[r]
=============================================================================

----------------------------- MODULE MCUserData -----------------------------
(***************************************************************************)
(* Instances of UserData: one request against every combination of         *)
(* sources and settings, and four requests at once about one user.         *)
(***************************************************************************)
EXTENDS UserData

MCRequests == {"q1", "q2", "q3", "q4"}
MCIds == {"alice", "bob", "remote", "bad"}
MCHome == {"alice", "bob"}
MCWords == {"w1", "w2"}

\* remote is a user of another server with the local part of alice.
MCLocalPart == [alice |-> "a", bob |-> "b", remote |-> "a", bad |-> "none"]

Setting(visibility, fields) == [visibility |-> visibility, visible_fields |-> fields]
Private == Setting("private", {"email"})
Public == Setting("public", {"email"})
Contacts == Setting("contacts", {"email", "phone"})

Request(kind) == [kind |-> kind, id |-> "alice", viewer |-> "alice", settings |-> Private, words |-> "w1"]
None == Request("none")
Get(viewer) == [Request("get") EXCEPT !.viewer = viewer]
Of(w, x, y, z) == [q1 |-> w, q2 |-> x, q3 |-> y, q4 |-> z]

Base(reqs) ==
  [ldap |-> TRUE, additional |-> TRUE, common |-> TRUE, default |-> Contacts,
   profiles |-> [l \in LocalParts |-> MatrixColumns],
   directory |-> [l \in LocalParts |-> DirectoryColumns],
   usersettings |-> [i \in Ids |-> SettingsColumns],
   contacts |-> [i \in Ids |-> {}],
   req |-> reqs]

\* One look at a profile, for every default setting, feature flag and a choice of rows.
Looks ==
  {[Base(Of(look, None, None, None)) EXCEPT
      !.additional = additional, !.common = common, !.default = default,
      !.profiles = [l \in LocalParts |-> matrix], !.directory = [l \in LocalParts |-> directory],
      !.contacts = [i \in Ids |-> contact]] :
     look \in {Get(v) : v \in Ids} \union {[Get("bob") EXCEPT !.id = i] : i \in {"remote", "bad"}},
     additional \in BOOLEAN, common \in BOOLEAN, default \in Settings,
     matrix \in {{}, {"user_id"}}, directory \in {{}, {"uid", "cn", "mail"}},
     contact \in {{}, {"mxid", "display_name"}}}

Update(settings) == [Request("update") EXCEPT !.settings = settings]
ByBob(r) == [r EXCEPT !.viewer = "bob"]

\* Updates while others look, and first updates at once.
Changes ==
  {Base(Of(Update(x), Update(y), Get("bob"), z)) :
     x \in {Public, Private, Contacts}, y \in {Public, Private},
     z \in {Get("bob"), Get("remote"), Request("visibility")}}
  \union {Base(Of(ByBob(Update(Public)), [Request("visibility") EXCEPT !.id = "bad"], None, None)),
          [Base(Of(Get("bob"), None, None, None)) EXCEPT !.ldap = FALSE]}

Second(r) == [r EXCEPT !.words = "w2"]

\* Saves, updates, deletions and readings of one sentence.
Vaults ==
  {Base(Of(Request("save"), x, y, z)) :
     x \in {Second(Request("save")), Second(Request("replace"))},
     y \in {Request("delete"), Second(Request("replace"))}, z \in {Request("words"), Second(Request("save"))}}
  \union {Base(Of([Request("save") EXCEPT !.words = Nothing], None, None, None))}

MCScenarios == Looks \union Changes \union Vaults
=============================================================================

--------------------------- MODULE MCAddressbook ---------------------------
(***************************************************************************)
(* Model-checking instances of Addressbook: up to two owners, two matrix   *)
(* ids, and a UserDB that knows one of them.  The payloads add one contact *)
(* twice, two contacts, or none, and one of them lacks a display name.     *)
(***************************************************************************)
EXTENDS Addressbook

Add(m, n) == [mxid |-> m, display_name |-> n]
MCDirectory == {Add("x", "n1")}
MCPayloads ==
    {<<>>, <<Add("x", "n1")>>, <<Add("x", "n1"), Add("y", "n1")>>, <<Add("y", NoName)>>}
MCPatches ==
    {[display_name |-> "n1", active |-> FALSE], [display_name |-> "n2", active |-> None],
     [display_name |-> NoName, active |-> TRUE]}

SerialWorld == [unique |-> FALSE, serial |-> TRUE, owners |-> {"alice"},
                requests |-> 1..4, faults |-> 0,
                payloads |-> MCPayloads, patches |-> MCPatches]
UniqueWorld == [SerialWorld EXCEPT !.unique = TRUE, !.serial = FALSE,
                                   !.requests = 1..2, !.faults = 3]
FaultyWorld == [SerialWorld EXCEPT !.serial = FALSE, !.owners = {"alice", "bob"},
                                   !.requests = 1..2, !.faults = 1]
SharedWorld == [FaultyWorld EXCEPT !.requests = 1..3, !.faults = 0,
                                   !.payloads = {<<Add("x", "n1")>>},
                                   !.patches = {[display_name |-> "n1", active |-> FALSE]}]
RaceWorld   == [SharedWorld EXCEPT !.owners = {"alice"}, !.requests = 1..2]

MCWorlds == {SerialWorld, UniqueWorld, FaultyWorld, SharedWorld}
MCRace == {RaceWorld}
=============================================================================

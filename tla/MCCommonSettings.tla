-------------------------- MODULE MCCommonSettings --------------------------
(***************************************************************************)
(* Model-checking instances of CommonSettings: two users, two fields.      *)
(* Messages 1, 3 and 4 are about one user (a first setting, a change of    *)
(* one field, a message without avatar that takes the name back), 2 is     *)
(* about the other user and 5 has no matrix_id.                            *)
(***************************************************************************)
EXTENDS CommonSettings

MCFields == {"display_name", "avatar"}
MCUserOf == [m \in Msgs |-> CASE m = 2 -> "bob" [] m = 5 -> None [] OTHER -> "alice"]
MCPayload ==
    [m \in Msgs |->
        CASE m = 3 -> [display_name |-> "B", avatar |-> "A"]
          [] m = 4 -> [display_name |-> "A", avatar |-> None]
          [] OTHER -> [display_name |-> "A", avatar |-> "A"]]
PacedEnv == [msgs |-> {1, 2, 3, 4}, paced |-> TRUE, faults |-> 3, losses |-> 0,
             crashes |-> 0]
RoughEnv == [msgs |-> {1, 3, 4, 5}, paced |-> FALSE, faults |-> 1, losses |-> 1,
             crashes |-> 1]
RaceEnv  == [msgs |-> {1, 3}, paced |-> FALSE, faults |-> 0, losses |-> 0,
             crashes |-> 0]

MCEnvs == {PacedEnv, RoughEnv}
MCRace == {RaceEnv}
=============================================================================

-------------------------- MODULE MCIdentityHashes --------------------------
(***************************************************************************)
(* Model-checking instances of IdentityHashes.                             *)
(***************************************************************************)
EXTENDS IdentityHashes

MCAddressOf == [u \in Users |-> u]

Plain == [matrixDb |-> FALSE, federated |-> FALSE, ordered |-> TRUE,
          users |-> {"a", "b"}, rotations |-> 3, updates |-> 0, starts |-> 1,
          churn |-> 1, faults |-> 0]
Busy == [Plain EXCEPT !.users = {"a"}, !.rotations = 2, !.updates = 1]
Matrix == [Plain EXCEPT !.matrixDb = TRUE, !.users = {"a"}, !.rotations = 2,
                        !.updates = 1, !.starts = 2, !.faults = 1]
FederatedMatrix == [Matrix EXCEPT !.federated = TRUE]

MCScenarios == {Plain, Busy, Matrix, FederatedMatrix}
MCFailedRotation == {[Plain EXCEPT !.faults = 1, !.churn = 0]}
=============================================================================

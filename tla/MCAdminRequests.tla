-------------------------- MODULE MCAdminRequests --------------------------
(***************************************************************************)
(* Model-checking instances of AdminRequests.                              *)
(***************************************************************************)
EXTENDS AdminRequests, TLC

JobSymmetry == Permutations(Jobs)
=============================================================================

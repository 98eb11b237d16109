-------------------------- MODULE MCNotifications --------------------------
(***************************************************************************)
(* Two users, two credentials with a signature or an MTP proof, one state, *)
(* and one connection at a time, whose id returns when it is forgotten.    *)
(***************************************************************************)
EXTENDS Notifications, TLC

Symmetry == Permutations(Users) \cup Permutations(Credentials)
=============================================================================

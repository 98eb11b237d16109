------------------------------ MODULE MCLinks ------------------------------
(***************************************************************************)
(* Small instances of Links for TLC.                                       *)
(***************************************************************************)
EXTENDS Links, TLC

\* Every link has room for two credentials.
TwoEach == [l \in LinkIds |-> 2]

\* The names of users, credentials and calls do not matter.
Symmetry == Permutations(Users) \cup Permutations(Credentials) \cup Permutations(Callers)
=============================================================================

---------------------------- MODULE MCRevocation ----------------------------
(***************************************************************************)
(* Two calls at once, two credentials besides the genesis one, which may   *)
(* authenticate or not, two keys and two nonces.                           *)
(***************************************************************************)
EXTENDS Revocation, TLC

Symmetry == Permutations(Credentials \ {Genesis}) \cup Permutations(Nonces)
              \cup Permutations(Callers)
=============================================================================

----------------------------- MODULE MCPayments -----------------------------
(***************************************************************************)
(* Small instances of Payments for TLC.                                    *)
(***************************************************************************)
EXTENDS Payments, TLC

\* One rail of each kind, alone.
OneRail == {{rail} : rail \in Rails}

\* Rows differ only in their ids.
SameRows == Permutations(Requests) \cup Permutations(Nonces) \cup Permutations(Issuers)
=============================================================================

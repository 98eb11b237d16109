-------------------------- MODULE MCStatePublisher --------------------------
(***************************************************************************)
(* Small instances of StatePublisher for TLC: what the environment does in *)
(* each run, and the symmetry of the concurrent requests.                  *)
(***************************************************************************)
EXTENDS StatePublisher, TLC

NoClaims == {}
NoFaults == {}

\* Slow and failing networks, with a database and a process that do not fail.
NetworkFaults == {"rpc", "timeout", "ttl", "drop"}

\* What leaves the issuer with rows or transactions nobody follows.
PartialFailures == {"lost", "db", "crash", "timeout", "overlap", "phantom"}

\* The status checker and the goroutines meet on the same transactions.
TwoWatchers == {"timeout", "overlap"}

\* Everything a transaction's follower may miss, short of a failing database.
Interruptions == {"lost", "timeout", "crash"}

LateRows  == {"phantom"}
LostReply == {"lost"}

\* Requests differ only in their name (used by runs that check invariants only).
SameRequests == Permutations(Workers)
=============================================================================

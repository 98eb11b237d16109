----------------------------- MODULE StateLedger -----------------------------
(***************************************************************************)
(* What the publication of an issuer's states promises, without databases, *)
(* requests, goroutines and the checker.  States are made one after the    *)
(* other, each of other trees, and sent to a contract, which takes each    *)
(* once, on top of the one it has; what it has taken may be confirmed,     *)
(* proven of credentials and announced, in any order and any number of     *)
(* times.  A credential may get back a proof that a revocation has copied; *)
(* a confirmation may be taken back.  Nothing else is weak: whatever       *)
(* fails, only a state the contract has taken is confirmed, proven or      *)
(* announced.                                                              *)
(*                                                                         *)
(* StatePublisher implements this specification.                           *)
(***************************************************************************)
EXTENDS Naturals, Sequences

CONSTANTS
  Credentials, \* the credentials of the issuer, and their revocation nonces
  Provable,    \* those that get a proof
  None         \* no state

VARIABLES
  trees,     \* the states in the order they were made: their claims and revocations
  sent,      \* what was sent to the contract: [old, new]
  current,   \* the contract's state
  accepted,  \* every state it has had
  confirmed, \* those the issuer holds to be on the chain
  proof,     \* the state a credential is proven to be in: [Credentials -> state or None]
  held,      \* the copies of it that revocations hold: [Credentials -> set of them]
  announced  \* the states that were announced

ledger == <<trees, sent, current, accepted, confirmed, proof, held, announced>>

Tree == [claims: SUBSET Credentials, revs: SUBSET Credentials]
Genesis == 1

Init ==
  /\ trees = <<[claims |-> {}, revs |-> {}]>>
  /\ sent = {}
  /\ current = Genesis
  /\ accepted = {Genesis}
  /\ confirmed = {Genesis}
  /\ proof = [c \in Credentials |-> None]
  /\ held = [c \in Credentials |-> {}]
  /\ announced = {}

\* The genesis state is no other's even if its trees are: its state is hashed otherwise.
Make(tree) ==
  /\ \A s \in DOMAIN trees : s # Genesis => trees[s] # tree
  /\ trees' = Append(trees, tree)
  /\ UNCHANGED <<sent, current, accepted, confirmed, proof, held, announced>>

\* A state is sent to follow one the contract has or had.
Send(old, new) ==
  /\ old \in accepted /\ new \in DOMAIN trees
  /\ sent' = sent \cup {[old |-> old, new |-> new]}
  /\ UNCHANGED <<trees, current, accepted, confirmed, proof, held, announced>>

Accept(new) ==
  /\ [old |-> current, new |-> new] \in sent
  /\ new \notin accepted
  /\ current' = new
  /\ accepted' = accepted \cup {new}
  /\ UNCHANGED <<trees, sent, confirmed, proof, held, announced>>

Confirm(s) ==
  /\ s \in accepted
  /\ confirmed' = confirmed \cup {s}
  /\ UNCHANGED <<trees, sent, current, accepted, proof, held, announced>>

Retract(s) ==
  /\ confirmed' = confirmed \ {s}
  /\ UNCHANGED <<trees, sent, current, accepted, proof, held, announced>>

Prove(creds, s) ==
  /\ s \in accepted
  /\ proof' = [c \in Credentials |-> IF c \in creds THEN s ELSE proof[c]]
  /\ UNCHANGED <<trees, sent, current, accepted, confirmed, held, announced>>

Hold(c) ==
  /\ held' = [held EXCEPT ![c] = {proof[c]}]
  /\ UNCHANGED <<trees, sent, current, accepted, confirmed, proof, announced>>

LetGo(creds) ==
  /\ held' = [c \in Credentials |-> IF c \in creds THEN {} ELSE held[c]]
  /\ UNCHANGED <<trees, sent, current, accepted, confirmed, proof, announced>>

Restore(c) ==
  /\ \E s \in held[c] : proof' = [proof EXCEPT ![c] = s]
  /\ held' = [held EXCEPT ![c] = {}]
  /\ UNCHANGED <<trees, sent, current, accepted, confirmed, announced>>

Announce(s) ==
  /\ s \in accepted
  /\ announced' = announced \cup {s}
  /\ UNCHANGED <<trees, sent, current, accepted, confirmed, proof, held>>

Next ==
  \/ \E tree \in Tree : Make(tree)
  \/ \E old, new \in DOMAIN trees : Send(old, new)
  \/ \E s \in DOMAIN trees : Accept(s) \/ Confirm(s) \/ Retract(s) \/ Announce(s)
  \/ \E creds \in SUBSET Provable, s \in DOMAIN trees : Prove(creds, s)
  \/ \E c \in Credentials : Hold(c) \/ Restore(c)
  \/ \E creds \in SUBSET Credentials : LetGo(creds)

Spec == Init /\ [][Next]_ledger
=============================================================================

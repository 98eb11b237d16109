---------------------------- MODULE PaymentLedger ----------------------------
(***************************************************************************)
(* What the payment service promises, without databases, calls and answers *)
(* of nodes: a book of payment requests.  A request is opened with nonces  *)
(* of its own; the wallets pay nonces; a request is settled with one of    *)
(* its nonces that is paid; and closed for good when it is deleted.  A     *)
(* settled request may be open again, but only through a verification that *)
(* began before it was settled, and such a verification ends.              *)
(*                                                                         *)
(* Payments implements this specification.                                 *)
(***************************************************************************)

CONSTANTS Requests, Nonces, None

VARIABLES
  book,   \* [Requests -> Entry]
  drawn,  \* whose a nonce is: [Nonces -> Requests \cup {None}]
  paid,   \* the nonces that are paid
  late    \* the requests with a verification that began before they were settled

ledger == <<book, drawn, paid, late>>

Entry == [state: {"absent", "open", "settled", "closed"}, nonce: Nonces \cup {None}]
Absent == [state |-> "absent", nonce |-> None]
Opened == [state |-> "open", nonce |-> None]
Closed == [state |-> "closed", nonce |-> None]
Settled(n) == [state |-> "settled", nonce |-> n]

Init ==
  /\ book = [r \in Requests |-> Absent]
  /\ drawn = [n \in Nonces |-> None]
  /\ paid = {}
  /\ late = {}

Open(r) ==
  /\ book[r] = Absent
  /\ book' = [book EXCEPT ![r] = Opened]
  /\ \E new \in SUBSET {n \in Nonces : drawn[n] = None} :
       drawn' = [n \in Nonces |-> IF n \in new THEN r ELSE drawn[n]]
  /\ UNCHANGED <<paid, late>>

Pay(n) ==
  /\ drawn[n] # None
  /\ paid' = paid \cup {n}
  /\ UNCHANGED <<book, drawn, late>>

Begin(r) ==
  /\ book[r] = Opened
  /\ late' = late \cup {r}
  /\ UNCHANGED <<book, drawn, paid>>

End(r) ==
  /\ late' = late \ {r}
  /\ UNCHANGED <<book, drawn, paid>>

\* A verification ends by what it writes, and another one may still be under way.
Verified(r, entry) ==
  /\ r \in late
  /\ book[r].state \in {"open", "settled"}
  /\ book' = [book EXCEPT ![r] = entry]
  /\ late' \in {late, late \ {r}}
  /\ UNCHANGED <<drawn, paid>>

Settle(r, n) ==
  /\ n \in paid /\ drawn[n] = r
  /\ Verified(r, Settled(n))

Reopen(r) == Verified(r, Opened)

Close(r) ==
  /\ book[r].state \in {"open", "settled"}
  /\ book' = [book EXCEPT ![r] = Closed]
  /\ UNCHANGED <<drawn, paid, late>>

Next ==
  \/ \E r \in Requests :
       \/ Open(r)
       \/ Begin(r)
       \/ End(r)
       \/ \E n \in Nonces : Settle(r, n)
       \/ Reopen(r)
       \/ Close(r)
  \/ \E n \in Nonces : Pay(n)

Spec == Init /\ [][Next]_ledger
=============================================================================

------------------------------ MODULE Payments ------------------------------
(***************************************************************************)
(* Payment options, payment requests and their verification against the    *)
(* chain: the payment service and its repository.  Every call is broken at *)
(* its database statements and at its questions to the chain, because      *)
(* nothing locks a row from one statement to the next.                     *)
(*                                                                         *)
(* A row that was deleted stays here with live = FALSE and its issuer, and *)
(* an item with its request too, so that a property can speak of the past  *)
(* and no id is used twice; the code never sees such a row.                *)
(*                                                                         *)
(* Left out: names, descriptions, amounts, signatures and expirations; the *)
(* DID of the user, whose mismatch ends VerifyPayment before it asks the   *)
(* chain; the schema lookup, a failure of which is an Abandon.             *)
(***************************************************************************)
EXTENDS Naturals, Sequences, FiniteSets

CONSTANTS
  Issuers,     \* identities of the platform
  Options,     \* uuids of payment options
  Requests,    \* uuids of payment requests
  Nonces,      \* the random 64-bit nonces drawn; a draw never repeats
  EvmRails,    \* payment option ids of the settings whose chain is an EVM chain
  SolanaRails, \* those whose chain is Solana
  Configs,     \* the configurations clients choose: sets of rails
  TxIds,       \* transactions of the users
  Editors,     \* concurrent calls that make, update and delete
  Verifiers,   \* concurrent calls of VerifyPayment
  None         \* SQL's NULL, and an argument that is not given

Rails   == EvmRails \cup SolanaRails
Clients == Editors \cup Verifiers

ASSUME RequestsAssumption == IsFiniteSet(Requests)
ASSUME ConfigsAssumption == Configs \subseteq SUBSET Rails
ASSUME RailsAssumption == EvmRails \cap SolanaRails = {}
ASSUME NoneAssumption ==
  None \notin Issuers \cup Options \cup Requests \cup Nonces \cup Rails \cup TxIds

VARIABLES
  options,  \* payment_options: [Options -> OptionRow]
  requests, \* payment_requests: [Requests -> RequestRow]
  items,    \* payment_request_items, by their unique nonce: [Nonces -> ItemRow]
  txs,      \* what the node of the rail says of a transaction
  paid,     \* the nonces the contract or program of their rail holds as paid
  pc, loc   \* where each client's call is, and what it holds in memory

vars == <<options, requests, items, txs, paid, pc, loc>>
rows == <<options, requests, items>>
chain == <<txs, paid>>

Statuses == {"not-verified", "pending", "success", "failed", "canceled"}

OptionRow  == [live: BOOLEAN, issuer: Issuers \cup {None}, config: SUBSET Rails]
RequestRow == [live: BOOLEAN, issuer: Issuers \cup {None}, option: Options \cup {None},
               status: Statuses, paidNonce: Nonces \cup {None}]
NoOption  == [live |-> FALSE, issuer |-> None, config |-> {}]
NoRequest == [live |-> FALSE, issuer |-> None, option |-> None,
              status |-> "not-verified", paidNonce |-> None]

ItemRow    == [live: BOOLEAN, request: Requests \cup {None}, rail: Rails \cup {None}]

TxStatuses == {"unknown", "pending", "mined", "reverted"}
Transaction == [nonce: Nonces \cup {None}, status: TxStatuses]

Pcs == {"idle", "update", "create", "delete", "tx", "contract", "again", "write"}

\* BlockchainPaymentStatus
Answers == {"pending", "success", "failed", "canceled", "unknown"}

Locals == [issuer: Issuers \cup {None}, option: Options \cup {None},
           config: SUBSET Rails, request: Requests \cup {None},
           nonce: Nonces \cup {None}, tx: TxIds \cup {None},
           read: Statuses, answer: Answers]

NoLocals == [issuer |-> None, option |-> None, config |-> {}, request |-> None,
             nonce |-> None, tx |-> None, read |-> "not-verified",
             answer |-> "unknown"]

TypeOK ==
  /\ options \in [Options -> OptionRow]
  /\ requests \in [Requests -> RequestRow]
  /\ items \in [Nonces -> ItemRow]
  /\ txs \in [TxIds -> Transaction]
  /\ paid \subseteq Nonces
  /\ pc \in [Clients -> Pcs]
  /\ loc \in [Clients -> Locals]

Init ==
  /\ options = [o \in Options |-> NoOption]
  /\ requests = [r \in Requests |-> NoRequest]
  /\ items = [n \in Nonces |-> [live |-> FALSE, request |-> None, rail |-> None]]
  /\ txs = [t \in TxIds |-> [nonce |-> None, status |-> "unknown"]]
  /\ paid = {}
  /\ pc = [c \in Clients |-> "idle"]
  /\ loc = [c \in Clients |-> NoLocals]

GoTo(c, label, l) ==
  /\ pc' = [pc EXCEPT ![c] = label]
  /\ loc' = [loc EXCEPT ![c] = l]

Return(c) == GoTo(c, "idle", NoLocals)

-----------------------------------------------------------------------------
(* Payment options. *)

\* SavePaymentOption is an upsert: on a conflict it leaves the issuer alone.
SavePaymentOption(o, i, config) ==
  options' = [options EXCEPT ![o] =
    [live |-> TRUE, issuer |-> IF @.live THEN @.issuer ELSE i, config |-> config]]

\* uuid.New never gives an id that was used before.
CreatePaymentOption(o, i, config) ==
  /\ options[o].issuer = None
  /\ SavePaymentOption(o, i, config)
  /\ UNCHANGED <<requests, items, chain, pc, loc>>

\* What GetPaymentOptionByID finds for the issuer of the call.
\* Faulty: the query does not filter by the issuer.
GetPaymentOptionOfAnyone(o, i) == options[o].live
GetPaymentOptionByID(o, i) == options[o].live /\ options[o].issuer = i

UpdatePaymentOption(c, o, i) ==
  /\ pc[c] = "idle"
  /\ GetPaymentOptionByID(o, i)
  /\ GoTo(c, "update", [NoLocals EXCEPT !.issuer = i, !.option = o,
                                        !.config = options[o].config])
  /\ UNCHANGED <<rows, chain>>

\* The row that was read is written back, with the configuration of the body
\* when there is one: an option deleted meanwhile is there again.
SaveUpdate(c, config) ==
  /\ pc[c] = "update"
  /\ SavePaymentOption(loc[c].option, loc[c].issuer, config)
  /\ Return(c)
  /\ UNCHANGED <<requests, items, chain>>

\* The foreign key of payment_requests keeps an option with requests.
DeletePaymentOption(o, i) ==
  /\ GetPaymentOptionByID(o, i)
  /\ \A r \in Requests : requests[r].live => requests[r].option # o
  /\ options' = [options EXCEPT ![o] = [NoOption EXCEPT !.issuer = i]]
  /\ UNCHANGED <<requests, items, chain, pc, loc>>

-----------------------------------------------------------------------------
(* Payment requests. *)

CreatePaymentRequest(c, o, i) ==
  /\ pc[c] = "idle"
  /\ GetPaymentOptionByID(o, i)
  /\ GoTo(c, "create", [NoLocals EXCEPT !.issuer = i, !.option = o,
                                        !.config = options[o].config])
  /\ UNCHANGED <<rows, chain>>

\* One nonce per rail of the configuration, and one transaction for the rows.
SavePaymentRequest(c, r, drawn) ==
  /\ pc[c] = "create"
  /\ options[loc[c].option].live
  /\ requests[r].issuer = None
  /\ drawn \in [loc[c].config -> {n \in Nonces : items[n].request = None}]
  /\ \A x, y \in loc[c].config : drawn[x] = drawn[y] => x = y
  /\ requests' = [requests EXCEPT ![r] =
       [live |-> TRUE, issuer |-> loc[c].issuer, option |-> loc[c].option,
        status |-> "not-verified", paidNonce |-> None]]
  /\ items' = [n \in Nonces |->
       IF \E x \in loc[c].config : drawn[x] = n
       THEN [live |-> TRUE, request |-> r,
             rail |-> CHOOSE x \in loc[c].config : drawn[x] = n]
       ELSE items[n]]
  /\ Return(c)
  /\ UNCHANGED <<options, chain>>

\* DeletePaymentRequest: the items go first, whoever's request it is.
DeleteItems(c, r, i) ==
  /\ pc[c] = "idle"
  /\ requests[r].issuer # None
  /\ items' = [n \in Nonces |-> [items[n] EXCEPT
       !.live = @ /\ items[n].request # r]]
  /\ GoTo(c, "delete", [NoLocals EXCEPT !.issuer = i, !.request = r])
  /\ UNCHANGED <<options, requests, chain>>

DeleteRow(c) ==
  /\ pc[c] = "delete"
  /\ LET r == loc[c].request
     IN  requests' = IF requests[r].issuer = loc[c].issuer
                     THEN [requests EXCEPT ![r] = [NoRequest EXCEPT !.issuer = loc[c].issuer]]
                     ELSE requests
  /\ Return(c)
  /\ UNCHANGED <<options, items, chain>>

-----------------------------------------------------------------------------
(* The listing of GetAllPaymentRequests, whose query gives no order. *)

\* One variable holds every row in turn, and a row whose paid_nonce is NULL
\* leaves the nonce of the rows before it there.
\* Faulty: the row is appended before its nonce is assigned.
ListedNonceLate(listing) ==
  LET shown[k \in 0..Len(listing)] ==
        IF k <= 1 THEN None
        ELSE IF requests[listing[k - 1]].paidNonce # None
             THEN requests[listing[k - 1]].paidNonce
             ELSE shown[k - 1]
  IN  shown
ListedNonce(listing) ==
  LET shown[k \in 0..Len(listing)] ==
        IF k = 0 THEN None
        ELSE IF requests[listing[k]].paidNonce # None
             THEN requests[listing[k]].paidNonce
             ELSE shown[k - 1]
  IN  shown

\* The orders in which the rows of an issuer may come.
Listings(i) ==
  LET found == {r \in Requests : requests[r].live /\ requests[r].issuer = i}
  IN  {s \in [1..Cardinality(found) -> found] :
         \A j, k \in DOMAIN s : s[j] = s[k] => j = k}

-----------------------------------------------------------------------------
(* Verification. *)

\* GetPaymentRequestItem and GetPaymentRequestByID, for the issuer of the
\* request.  An item never changes until it is deleted with the others of its
\* request, and the second query fails without them: one step is enough.
\* Faulty: the item is not looked up.
VerifyWithoutItem(c, n, t) ==
  /\ pc[c] = "idle"
  /\ LET r == items[n].request
     IN  /\ r # None
         /\ requests[r].live
         /\ GoTo(c, IF t = None THEN "contract" ELSE "tx",
                 [NoLocals EXCEPT !.request = r, !.nonce = n, !.tx = t,
                                  !.read = requests[r].status])
  /\ UNCHANGED <<rows, chain>>
VerifyPayment(c, n, t) ==
  /\ pc[c] = "idle"
  /\ items[n].live
  /\ LET r == items[n].request
     IN  /\ requests[r].live
         /\ GoTo(c, IF t = None THEN "contract" ELSE "tx",
                 [NoLocals EXCEPT !.request = r, !.nonce = n, !.tx = t,
                                  !.read = requests[r].status])
  /\ UNCHANGED <<rows, chain>>

Answer(c, answer) == GoTo(c, "write", [loc[c] EXCEPT !.answer = answer])

Rail(c) == items[loc[c].nonce].rail

\* handlePaymentTransaction and handleSolanaPaymentTransaction
TransactionAnswer(t) ==
  CASE txs[t].status = "unknown"  -> "canceled"
    [] txs[t].status = "pending"  -> "pending"
    [] txs[t].status = "mined"    -> "success"
    [] txs[t].status = "reverted" -> "failed"

\* Solana also has confirmation statuses that the code does not know.
TransactionAnswers(c) ==
  {TransactionAnswer(loc[c].tx)} \cup
  (IF Rail(c) \in SolanaRails THEN {"unknown"} ELSE {})

\* The transaction a caller names is of any nonce: it only opens the way to
\* the contract.
\* Faulty: a mined transaction is taken for the payment.
AskTransactionOnly(c) ==
  /\ pc[c] = "tx"
  /\ \E answer \in TransactionAnswers(c) : Answer(c, answer)
  /\ UNCHANGED <<rows, chain>>
AskTransaction(c) ==
  /\ pc[c] = "tx"
  /\ \E answer \in TransactionAnswers(c) :
       IF answer = "success"
       THEN GoTo(c, "contract", loc[c])
       ELSE Answer(c, answer)
  /\ UNCHANGED <<rows, chain>>

\* IsPaymentDone answers for the nonce.
AskContract(c) ==
  /\ pc[c] = "contract"
  /\ Rail(c) \in EvmRails
  /\ Answer(c, IF loc[c].nonce \in paid THEN "success" ELSE "failed")
  /\ UNCHANGED <<rows, chain>>

\* ... and an error of it is an answer too.
AskContractFails(c) ==
  /\ pc[c] = "contract"
  /\ Rail(c) \in EvmRails
  /\ Answer(c, "pending")
  /\ UNCHANGED <<rows, chain>>

\* The account of the nonce exists once it is paid; without it the call fails
\* (Abandon).  With a transaction, the transaction is asked for once more.
AskAccount(c) ==
  /\ pc[c] = "contract"
  /\ Rail(c) \in SolanaRails
  /\ loc[c].nonce \in paid
  /\ IF loc[c].tx = None THEN Answer(c, "success") ELSE GoTo(c, "again", loc[c])
  /\ UNCHANGED <<rows, chain>>

AskAgain(c) ==
  /\ pc[c] = "again"
  /\ \E answer \in TransactionAnswers(c) : Answer(c, answer)
  /\ UNCHANGED <<rows, chain>>

\* getPaymentRequestStatusFromBlockChainStatus
\* Faulty: an answer the mapping does not know is stored as it is.
AnswerAsStatus(answer) == answer
StatusOf(answer) == IF answer = "unknown" THEN "not-verified" ELSE answer

\* The condition on the status that was read before the chain was asked.
\* Faulty: a request that was read as paid is written again.
MustWriteAnyChange(l) == StatusOf(l.answer) # l.read
MustWrite(l) == StatusOf(l.answer) # l.read /\ l.read # "success"

\* UpdatePaymentRequestStatus sets both columns, whatever they are by now.
UpdatePaymentRequestStatus(r, l) ==
  requests' = [requests EXCEPT
    ![r].status = StatusOf(l.answer),
    ![r].paidNonce = IF l.answer = "success" THEN l.nonce ELSE None]

Write(c) ==
  /\ pc[c] = "write"
  /\ IF MustWrite(loc[c]) /\ requests[loc[c].request].live
     THEN UpdatePaymentRequestStatus(loc[c].request, loc[c])
     ELSE UNCHANGED requests
  /\ Return(c)
  /\ UNCHANGED <<options, items, chain>>

\* A database error, an error of the chain that is not an answer, a client
\* that hangs up or a restart ends a call between two of its steps.
Abandon(c) ==
  /\ pc[c] # "idle"
  /\ Return(c)
  /\ UNCHANGED <<rows, chain>>

-----------------------------------------------------------------------------
(* The user and the chain. *)

\* A wallet pays a nonce it was shown; the payment data stay valid when the
\* request is deleted.
Pay(t, n) ==
  /\ txs[t].nonce = None
  /\ items[n].request # None
  /\ txs' = [txs EXCEPT ![t] = [nonce |-> n, status |-> "pending"]]
  /\ UNCHANGED <<rows, paid, pc, loc>>

\* The contract takes a nonce once.
Mine(t) ==
  /\ txs[t].status = "pending"
  /\ IF txs[t].nonce \in paid
     THEN txs' = [txs EXCEPT ![t].status = "reverted"] /\ UNCHANGED paid
     ELSE txs' = [txs EXCEPT ![t].status = "mined"] /\ paid' = paid \cup {txs[t].nonce}
  /\ UNCHANGED <<rows, pc, loc>>

\* The transaction runs out of funds or expires, or the node forgets it.
Fail(t) ==
  /\ txs[t].status = "pending"
  /\ \E status \in {"reverted", "unknown"} : txs' = [txs EXCEPT ![t].status = status]
  /\ UNCHANGED <<rows, paid, pc, loc>>

-----------------------------------------------------------------------------

OptionCalls ==
  \E o \in Options, i \in Issuers :
    \/ \E config \in Configs : CreatePaymentOption(o, i, config)
    \/ DeletePaymentOption(o, i)

EditorCalls(c) ==
  \/ \E o \in Options, i \in Issuers :
       UpdatePaymentOption(c, o, i) \/ CreatePaymentRequest(c, o, i)
  \/ \E config \in Configs \cup {loc[c].config} : SaveUpdate(c, config)
  \/ \E r \in Requests, drawn \in [loc[c].config -> Nonces] :
       SavePaymentRequest(c, r, drawn)
  \/ \E r \in Requests, i \in Issuers : DeleteItems(c, r, i)
  \/ DeleteRow(c)

VerifierCalls(c) ==
  \/ \E n \in Nonces, t \in TxIds \cup {None} : VerifyPayment(c, n, t)
  \/ AskTransaction(c)
  \/ AskContract(c)
  \/ AskContractFails(c)
  \/ AskAccount(c)
  \/ AskAgain(c)
  \/ Write(c)

Wallet == \E t \in TxIds :
  \/ \E n \in Nonces : Pay(t, n)
  \/ Mine(t)
  \/ Fail(t)

Next ==
  \/ OptionCalls
  \/ \E c \in Editors : EditorCalls(c)
  \/ \E c \in Verifiers : VerifierCalls(c)
  \/ \E c \in Clients : Abandon(c)
  \/ Wallet

Spec == Init /\ [][Next]_vars

-----------------------------------------------------------------------------
(* Properties. *)

\* A request is stored as paid with a nonce of its own that the chain holds as
\* paid, and names no nonce otherwise: not the transaction a caller names, nor
\* a delayed answer, nor a payment of another request makes it paid.
SuccessIsPaid == \A r \in Requests :
  LET n == requests[r].paidNonce
  IN  /\ (requests[r].status = "success") <=> (n # None)
      /\ n # None => n \in paid /\ items[n].request = r

\* A request in the database has its option there too, and the same issuer owns
\* both, although options are deleted and saved again while a request is made.
RequestMatchesOption == \A r \in Requests :
  requests[r].live => /\ options[requests[r].option].live
                      /\ options[requests[r].option].issuer = requests[r].issuer

\* A call that has the status of a request in memory and may still store one.
Verifying(c, r) == pc[c] \in {"tx", "contract", "again", "write"} /\ loc[c].request = r

\* A paid request stays paid, with the nonce that paid it, as long as every
\* verification under way began after it was stored as paid.  A verification
\* that began before may undo it: the status it compares is the one it read.
SuccessIsKept == [][
  \A r \in Requests :
    /\ requests[r].status = "success"
    /\ \A c \in Clients : Verifying(c, r) => loc[c].read = "success"
    => requests'[r] = requests[r] \/ ~ requests'[r].live]_vars

\* A request whose deletion stopped half way, with its items gone and its row
\* there, is out of reach: once the calls that found its items are over, no
\* call verifies it, its status stays, and only a second deletion ends it.
HalfDeletedIsFrozen == [][
  \A r \in Requests :
    /\ requests[r].live
    /\ \A n \in Nonces : items[n].live => items[n].request # r
    /\ \A c \in Clients : ~ Verifying(c, r)
    => /\ \A c \in Clients : ~ Verifying(c, r)'
       /\ \A n \in Nonces : items'[n].live => items'[n].request # r
       /\ requests'[r] = requests[r] \/ ~ requests'[r].live]_vars

\* What the platform's users may rely on: the database, read as a book of
\* requests, behaves as PaymentLedger says, whatever calls overlap or stop.
Book == [r \in Requests |->
  [state |-> IF requests[r].live THEN IF requests[r].status = "success" THEN "settled" ELSE "open"
             ELSE IF requests[r].issuer = None THEN "absent" ELSE "closed",
   nonce |-> requests[r].paidNonce]]
Drawn == [n \in Nonces |-> items[n].request]
Late == {r \in Requests : \E c \in Clients : Verifying(c, r) /\ loc[c].read # "success"}
Ledger == INSTANCE PaymentLedger WITH book <- Book, drawn <- Drawn, late <- Late
ImplementsLedger == Ledger!Spec

\* In whatever order the query returns the rows, the listing shows for a paid
\* request the nonce that paid it.  (For a request that is not paid it may show
\* the nonce of the row before: the variable is not reset.)
ListedSuccess == \A i \in Issuers : \A s \in Listings(i) : \A k \in DOMAIN s :
  requests[s[k]].status = "success" =>
    /\ ListedNonce(s)[k] \in paid
    /\ items[ListedNonce(s)[k]].request = s[k]
=============================================================================

--------------------------- MODULE PaymentsProofs ---------------------------
(***************************************************************************)
(* What TLAPS proves of Payments, for every number of issuers, options,    *)
(* requests, nonces, rails, transactions and concurrent calls.             *)
(***************************************************************************)
EXTENDS Payments, FiniteSetTheorems, WellFoundedInduction, TLAPS

-----------------------------------------------------------------------------
(* The inductive invariant. *)

VerifyPcs == {"tx", "contract", "again", "write"}

\* A call that will save an option, or a request for one, has it from its issuer.
OptionOwned == \A c \in Clients :
  pc[c] \in {"update", "create"} =>
    /\ loc[c].option \in Options
    /\ loc[c].issuer \in Issuers
    /\ options[loc[c].option].issuer = loc[c].issuer

\* A deletion knows whose request it deletes.
DeletionKnown == \A c \in Clients :
  pc[c] = "delete" => loc[c].request \in Requests /\ loc[c].issuer \in Issuers

\* A verification asks for a nonce of its request, and believes only the chain.
VerificationSound == \A c \in Clients :
  pc[c] \in VerifyPcs =>
    /\ loc[c].request \in Requests
    /\ loc[c].nonce \in Nonces
    /\ items[loc[c].nonce].request = loc[c].request
    /\ pc[c] \in {"tx", "again"} => loc[c].tx \in TxIds
    /\ pc[c] = "again" => loc[c].nonce \in paid
    /\ pc[c] = "write" /\ loc[c].answer = "success" => loc[c].nonce \in paid

\* What is not in the table has no status, and no nonce that paid it; what is in it
\* has an option and an issuer.
GoneIsBlank == \A r \in Requests :
  /\ ~ requests[r].live => requests[r] = [NoRequest EXCEPT !.issuer = requests[r].issuer]
  /\ requests[r].live => requests[r].option \in Options /\ requests[r].issuer \in Issuers

\* Items are of requests that were made.
ItemsAreOfRequests == \A n \in Nonces :
  /\ items[n].live => items[n].request # None
  /\ items[n].request # None => requests[items[n].request].issuer # None

\* A transaction on its way pays a nonce that was drawn.
PendingIsDrawn == \A t \in TxIds :
  txs[t].status = "pending" => txs[t].nonce \in Nonces /\ items[txs[t].nonce].request # None

Sound ==
  /\ PendingIsDrawn
  /\ OptionOwned
  /\ DeletionKnown
  /\ VerificationSound
  /\ GoneIsBlank
  /\ ItemsAreOfRequests
  /\ SuccessIsPaid
  /\ RequestMatchesOption

IInv == TypeOK /\ Sound

-----------------------------------------------------------------------------
(* Types. *)

\* The empty rows and locals are values of their types.
LEMMA EmptyValues ==
  /\ NoOption \in OptionRow
  /\ NoRequest \in RequestRow
  /\ NoLocals \in Locals
BY DEF NoOption, OptionRow, NoRequest, RequestRow, Statuses, NoLocals, Locals, Answers

\* A call that goes on to a known point with well-typed locals keeps the types.
LEMMA GoToType ==
  ASSUME TypeOK, NEW c \in Clients, NEW label \in Pcs, NEW l \in Locals, GoTo(c, label, l)
  PROVE  pc' \in [Clients -> Pcs] /\ loc' \in [Clients -> Locals]
BY DEF TypeOK, GoTo

\* So does one that returns.
LEMMA ReturnType ==
  ASSUME TypeOK, NEW c \in Clients, Return(c)
  PROVE  pc' \in [Clients -> Pcs] /\ loc' \in [Clients -> Locals]
BY EmptyValues, GoToType DEF Return, Pcs

\* And one that has an answer.
LEMMA AnswerType ==
  ASSUME TypeOK, NEW c \in Clients, NEW answer \in Answers, Answer(c, answer)
  PROVE  pc' \in [Clients -> Pcs] /\ loc' \in [Clients -> Locals]
<1>1. [loc[c] EXCEPT !.answer = answer] \in Locals /\ "write" \in Pcs
  BY DEF TypeOK, Locals, Pcs
<1> QED
  BY <1>1, GoToType DEF Answer

\* The answers about a transaction are answers.
LEMMA TransactionAnswersType ==
  ASSUME TypeOK, NEW c \in Clients, loc[c].tx \in TxIds
  PROVE  TransactionAnswers(c) \subseteq Answers
<1>1. txs[loc[c].tx].status \in TxStatuses
  BY DEF TypeOK, Transaction
<1>2. TransactionAnswer(loc[c].tx) \in Answers
  BY <1>1 DEF TransactionAnswer, TxStatuses, Answers
<1> QED
  BY <1>2 DEF TransactionAnswers, Answers

\* The upsert of an option keeps the type of the table.
LEMMA SavePaymentOptionType ==
  ASSUME TypeOK, NEW o, NEW i \in Issuers \cup {None}, NEW config \in SUBSET Rails,
         SavePaymentOption(o, i, config)
  PROVE  options' \in [Options -> OptionRow]
<1> SUFFICES ASSUME o \in Options
             PROVE [live |-> TRUE, issuer |-> IF options[o].live THEN options[o].issuer ELSE i,
                    config |-> config] \in OptionRow
  BY DEF SavePaymentOption, TypeOK
<1>1. options[o].issuer \in Issuers \cup {None}
  BY DEF TypeOK, OptionRow
<1> QED
  BY <1>1 DEF OptionRow

\* Every step of a call, of a wallet and of the chain keeps the types.
LEMMA TypeStep ==
  ASSUME IInv, [Next]_vars
  PROVE  TypeOK'
<1> USE DEF rows, chain
<1>0. TypeOK
  BY DEF IInv
<1>1. ASSUME NEW o \in Options, NEW i \in Issuers, NEW config \in Configs,
             CreatePaymentOption(o, i, config)
      PROVE  TypeOK'
  BY <1>0, <1>1, SavePaymentOptionType, ConfigsAssumption DEF CreatePaymentOption, TypeOK
<1>2. ASSUME NEW o \in Options, NEW i \in Issuers, DeletePaymentOption(o, i)
      PROVE  TypeOK'
  <2>1. [NoOption EXCEPT !.issuer = i] \in OptionRow
    BY DEF NoOption, OptionRow
  <2> QED
    BY <1>0, <1>2, <2>1 DEF DeletePaymentOption, TypeOK
<1>3. ASSUME NEW c \in Editors, EditorCalls(c) PROVE TypeOK'
  <2>0. c \in Clients /\ loc[c] \in Locals
    BY <1>0 DEF Clients, TypeOK
  <2>1. ASSUME NEW o \in Options, NEW i \in Issuers, NEW label \in {"update", "create"},
               GoTo(c, label, [NoLocals EXCEPT !.issuer = i, !.option = o,
                                               !.config = options[o].config]),
               UNCHANGED <<rows, chain>>
        PROVE  TypeOK'
    <3>1. [NoLocals EXCEPT !.issuer = i, !.option = o, !.config = options[o].config] \in Locals
      BY <1>0, EmptyValues DEF Locals, TypeOK, OptionRow
    <3>2. label \in Pcs
      BY DEF Pcs
    <3> QED
      BY <1>0, <2>0, <2>1, <3>1, <3>2, GoToType DEF TypeOK
  <2>2. ASSUME NEW config \in Configs \cup {loc[c].config}, SaveUpdate(c, config) PROVE TypeOK'
    <3>1. config \in SUBSET Rails /\ loc[c].issuer \in Issuers \cup {None}
      BY <2>0, ConfigsAssumption DEF Locals
    <3> QED
      BY <1>0, <2>0, <2>2, <3>1, SavePaymentOptionType, ReturnType DEF SaveUpdate, TypeOK
  <2>3. ASSUME NEW r \in Requests, NEW drawn \in [loc[c].config -> Nonces],
               SavePaymentRequest(c, r, drawn)
        PROVE  TypeOK'
    <3>1. [live |-> TRUE, issuer |-> loc[c].issuer, option |-> loc[c].option,
           status |-> "not-verified", paidNonce |-> None] \in RequestRow
      BY <2>0 DEF Locals, RequestRow, Statuses
    <3>2. ASSUME NEW n \in Nonces, \E x \in loc[c].config : drawn[x] = n
          PROVE  (CHOOSE x \in loc[c].config : drawn[x] = n) \in Rails
      BY <2>0, <3>2 DEF Locals
    <3>3. ASSUME NEW n \in Nonces PROVE items'[n] \in ItemRow
      BY <1>0, <2>3, <3>2 DEF SavePaymentRequest, ItemRow, TypeOK
    <3>4. items' \in [Nonces -> ItemRow]
      BY <2>3, <3>3 DEF SavePaymentRequest
    <3> QED
      BY <1>0, <2>0, <2>3, <3>1, <3>4, ReturnType DEF SavePaymentRequest, TypeOK
  <2>4. ASSUME NEW r \in Requests, NEW i \in Issuers, DeleteItems(c, r, i) PROVE TypeOK'
    <3>1. [NoLocals EXCEPT !.issuer = i, !.request = r] \in Locals /\ "delete" \in Pcs
      BY EmptyValues DEF Locals, Pcs
    <3>2. ASSUME NEW n \in Nonces
          PROVE  [items[n] EXCEPT !.live = @ /\ items[n].request # r] \in ItemRow
      BY <1>0, Zenon DEF ItemRow, TypeOK
    <3> QED
      BY <1>0, <2>0, <2>4, <3>1, <3>2, GoToType DEF DeleteItems, TypeOK
  <2>5. ASSUME DeleteRow(c) PROVE TypeOK'
    <3>1. [NoRequest EXCEPT !.issuer = loc[c].issuer] \in RequestRow
      BY <2>0, EmptyValues DEF RequestRow, Locals
    <3> QED
      BY <1>0, <2>0, <2>5, <3>1, ReturnType DEF DeleteRow, TypeOK
  <2> QED
    BY <1>3, <2>1, <2>2, <2>3, <2>4, <2>5
    DEF EditorCalls, UpdatePaymentOption, CreatePaymentRequest
<1>4. ASSUME NEW c \in Verifiers, VerifierCalls(c) PROVE TypeOK'
  <2>0. c \in Clients /\ loc[c] \in Locals
    BY <1>0 DEF Clients, TypeOK
  <2>1. ASSUME NEW n \in Nonces, NEW t \in TxIds \cup {None}, VerifyPayment(c, n, t)
        PROVE  TypeOK'
    <3> DEFINE r == items[n].request
               l == [NoLocals EXCEPT !.request = r, !.nonce = n, !.tx = t,
                                     !.read = requests[r].status]
    <3>1. r \in Requests
      BY <1>0, <2>1 DEF VerifyPayment, IInv, Sound, ItemsAreOfRequests, TypeOK, ItemRow
    <3>2. requests[r].status \in Statuses
      BY <1>0, <3>1 DEF TypeOK, RequestRow
    <3>3. l \in Locals
      BY <3>1, <3>2, EmptyValues DEF Locals
    <3>4. "contract" \in Pcs /\ "tx" \in Pcs
      BY DEF Pcs
    <3> QED
      BY <1>0, <2>0, <2>1, <3>3, <3>4, GoToType DEF VerifyPayment, TypeOK
  <2>2. CASE AskTransaction(c)
    <3>1. loc[c].tx \in TxIds
      BY <2>0, <2>2 DEF IInv, Sound, VerificationSound, VerifyPcs, AskTransaction
    <3>2. PICK answer \in TransactionAnswers(c) :
            IF answer = "success" THEN GoTo(c, "contract", loc[c]) ELSE Answer(c, answer)
      BY <2>2 DEF AskTransaction
    <3>3. answer \in Answers /\ "contract" \in Pcs
      BY <1>0, <2>0, <3>1, TransactionAnswersType DEF Pcs
    <3> QED
      BY <1>0, <2>0, <2>2, <3>2, <3>3, AnswerType, GoToType DEF AskTransaction, TypeOK
  <2>3. CASE AskContract(c) \/ AskContractFails(c)
    BY <1>0, <2>0, <2>3, AnswerType DEF AskContract, AskContractFails, Answers, TypeOK
  <2>4. CASE AskAccount(c)
    <3>1. "again" \in Pcs /\ "success" \in Answers
      BY DEF Pcs, Answers
    <3> QED
      BY <1>0, <2>0, <2>4, <3>1, AnswerType, GoToType DEF AskAccount, TypeOK
  <2>5. CASE AskAgain(c)
    <3>1. loc[c].tx \in TxIds
      BY <2>0, <2>5 DEF IInv, Sound, VerificationSound, VerifyPcs, AskAgain
    <3> QED
      BY <1>0, <2>0, <2>5, <3>1, TransactionAnswersType, AnswerType DEF AskAgain, TypeOK
  <2>6. CASE Write(c)
    <3>1. StatusOf(loc[c].answer) \in Statuses
      BY <2>0 DEF StatusOf, Locals, Answers, Statuses
    <3>2. requests' \in [Requests -> RequestRow]
      BY <1>0, <2>0, <2>6, <3>1 DEF Write, UpdatePaymentRequestStatus, TypeOK, RequestRow, Locals
    <3> QED
      BY <1>0, <2>0, <2>6, <3>2, ReturnType DEF Write, TypeOK
  <2> QED
    BY <1>4, <2>1, <2>2, <2>3, <2>4, <2>5, <2>6 DEF VerifierCalls
<1>5. ASSUME NEW c \in Clients, Abandon(c) PROVE TypeOK'
  BY <1>0, <1>5, ReturnType DEF Abandon, TypeOK
<1>6. CASE Wallet
  <2>1. ASSUME NEW t \in TxIds, NEW n \in Nonces, Pay(t, n) PROVE TypeOK'
    BY <1>0, <2>1 DEF Pay, TypeOK, Transaction, TxStatuses
  <2>2. ASSUME NEW t \in TxIds, Mine(t) PROVE TypeOK'
    BY <1>0, <2>2 DEF Mine, TypeOK, Transaction, TxStatuses, IInv, Sound, PendingIsDrawn
  <2>3. ASSUME NEW t \in TxIds, Fail(t) PROVE TypeOK'
    BY <1>0, <2>3 DEF Fail, TypeOK, Transaction, TxStatuses
  <2> QED
    BY <1>6, <2>1, <2>2, <2>3 DEF Wallet
<1>7. CASE UNCHANGED vars
  BY <1>0, <1>7 DEF vars, TypeOK
<1> QED
  BY <1>1, <1>2, <1>3, <1>4, <1>5, <1>6, <1>7 DEF Next, OptionCalls

-----------------------------------------------------------------------------
(* The steps keep the rest of the invariant. *)

\* What the proofs of the steps start from.
LEMMA Parts ==
  IInv <=> /\ TypeOK /\ PendingIsDrawn /\ OptionOwned /\ DeletionKnown /\ VerificationSound
           /\ GoneIsBlank /\ ItemsAreOfRequests /\ SuccessIsPaid /\ RequestMatchesOption
BY DEF IInv, Sound

\* The columns of the tables that refer to others.
LEMMA References ==
  ASSUME IInv
  PROVE  /\ \A n \in Nonces : items[n].request \in Requests \cup {None}
         /\ \A r \in Requests : requests[r].paidNonce \in Nonces \cup {None}
BY Parts DEF TypeOK, ItemRow, RequestRow

\* In a step, every call stays where it is or is over.
Quiet == \A c \in Clients :
  \/ pc'[c] = "idle"
  \/ pc'[c] = pc[c] /\ loc'[c] = loc[c]

\* A step in which a call returns is one.
LEMMA ReturnQuiet ==
  ASSUME TypeOK, NEW c \in Clients, Return(c)
  PROVE  Quiet
<1>1. pc'[c] = "idle"
  BY DEF Return, GoTo, TypeOK
<1>2. ASSUME NEW d \in Clients, d # c PROVE pc'[d] = pc[d] /\ loc'[d] = loc[d]
  BY <1>2 DEF Return, GoTo, TypeOK
<1> QED
  BY <1>1, <1>2 DEF Quiet

\* Options that are saved for the first time, or for their owner, or deleted when no
\* request has them, keep the invariant.
LEMMA OptionsSound ==
  ASSUME IInv, Quiet, UNCHANGED <<requests, items, chain>>,
         \A o \in Options :
           /\ options[o].issuer # None => options'[o].issuer = options[o].issuer
           /\ options[o].live => options'[o].live \/ \A r \in Requests :
                requests[r].live => requests[r].option # o
  PROVE  Sound'
<1>1. ASSUME NEW r \in Requests, requests[r].live
      PROVE  /\ requests[r].option \in Options
             /\ options'[requests[r].option].live
             /\ options'[requests[r].option].issuer = requests[r].issuer
  <2>1. requests[r].option \in Options /\ requests[r].issuer \in Issuers
    BY <1>1, Parts DEF GoneIsBlank
  <2>2. options[requests[r].option].live /\ options[requests[r].option].issuer = requests[r].issuer
    BY <1>1, Parts DEF RequestMatchesOption
  <2>3. options'[requests[r].option].live
    BY <1>1, <2>1, <2>2, Zenon
  <2> QED
    BY <2>1, <2>2, <2>3, NoneAssumption
<1>2. RequestMatchesOption'
  BY <1>1 DEF RequestMatchesOption
<1>3. OptionOwned'
  BY Parts, NoneAssumption DEF OptionOwned, Quiet
<1>4. DeletionKnown' /\ VerificationSound'
  BY Parts DEF DeletionKnown, VerificationSound, VerifyPcs, Quiet, chain
<1> QED
  BY <1>2, <1>3, <1>4, Parts DEF Sound, PendingIsDrawn, GoneIsBlank, ItemsAreOfRequests,
     SuccessIsPaid, chain

\* A call that reads an option of an issuer keeps the invariant.
LEMMA ReadOptionSound ==
  ASSUME IInv, NEW c \in Clients, NEW o \in Options, NEW i \in Issuers,
         NEW label \in {"update", "create"}, GetPaymentOptionByID(o, i),
         GoTo(c, label, [NoLocals EXCEPT !.issuer = i, !.option = o, !.config = options[o].config]),
         UNCHANGED <<rows, chain>>
  PROVE  Sound'
<1>1. \A d \in Clients : d # c => pc'[d] = pc[d] /\ loc'[d] = loc[d]
  BY Parts DEF GoTo, TypeOK
<1>2. pc'[c] = label /\ loc'[c].issuer = i /\ loc'[c].option = o
  BY Parts DEF GoTo, TypeOK, NoLocals
<1>3. OptionOwned'
  BY <1>1, <1>2, Parts DEF OptionOwned, GetPaymentOptionByID, rows
<1>4. DeletionKnown' /\ VerificationSound'
  BY <1>1, <1>2, Parts DEF DeletionKnown, VerificationSound, VerifyPcs, rows, chain
<1> QED
  BY <1>3, <1>4, Parts DEF Sound, PendingIsDrawn, GoneIsBlank, ItemsAreOfRequests, SuccessIsPaid,
     RequestMatchesOption, rows, chain

\* A new request takes nonces nobody has, and an option its issuer owns.
LEMMA SavePaymentRequestSound ==
  ASSUME IInv, NEW c \in Clients, NEW r \in Requests, NEW drawn \in [loc[c].config -> Nonces],
         SavePaymentRequest(c, r, drawn)
  PROVE  Sound'
<1>0. Quiet
  BY Parts, ReturnQuiet DEF SavePaymentRequest
<1>1. requests'[r] = [live |-> TRUE, issuer |-> loc[c].issuer, option |-> loc[c].option,
                      status |-> "not-verified", paidNonce |-> None]
  BY Parts DEF SavePaymentRequest, TypeOK
<1>2. ASSUME NEW s \in Requests, s # r PROVE requests'[s] = requests[s]
  BY <1>2, Parts DEF SavePaymentRequest, TypeOK
<1>3. ASSUME NEW n \in Nonces
      PROVE  \/ items'[n] = items[n]
             \/ items[n].request = None /\ items'[n].request = r
  BY Parts DEF SavePaymentRequest, TypeOK
<1>4. /\ loc[c].option \in Options /\ loc[c].issuer \in Issuers
      /\ options[loc[c].option].live /\ options[loc[c].option].issuer = loc[c].issuer
  BY Parts DEF SavePaymentRequest, OptionOwned
<1>5. requests[r].issuer = None /\ UNCHANGED <<options, chain>>
  BY DEF SavePaymentRequest
<1>6. OptionOwned' /\ DeletionKnown'
  BY <1>0, <1>5, Parts DEF Quiet, OptionOwned, DeletionKnown
<1>7. ASSUME NEW n \in Nonces, items[n].request # None PROVE items'[n] = items[n]
  BY <1>3, <1>7
<1>8. VerificationSound'
  BY <1>0, <1>5, <1>7, Parts, NoneAssumption DEF Quiet, VerificationSound, VerifyPcs, chain
<1>9. PendingIsDrawn'
  BY <1>5, <1>7, Parts DEF PendingIsDrawn, chain
<1>10. GoneIsBlank' /\ RequestMatchesOption'
  BY <1>1, <1>2, <1>4, <1>5, Parts DEF GoneIsBlank, RequestMatchesOption
<1>11. ItemsAreOfRequests'
  <2> SUFFICES ASSUME NEW n \in Nonces
               PROVE  /\ items'[n].live => items'[n].request # None
                      /\ items'[n].request # None => requests'[items'[n].request].issuer # None
    BY DEF ItemsAreOfRequests
  <2>1. CASE items'[n] = items[n]
    BY <1>1, <1>2, <1>4, <2>1, Parts, References, NoneAssumption DEF ItemsAreOfRequests
  <2>2. CASE items'[n].request = r
    BY <1>1, <1>4, <2>2, NoneAssumption
  <2> QED
    BY <1>3, <2>1, <2>2
<1>12. SuccessIsPaid'
  <2> SUFFICES ASSUME NEW s \in Requests
               PROVE  /\ (requests'[s].status = "success") <=> (requests'[s].paidNonce # None)
                      /\ requests'[s].paidNonce # None =>
                           /\ requests'[s].paidNonce \in paid'
                           /\ items'[requests'[s].paidNonce].request = s
    BY DEF SuccessIsPaid
  <2>1. CASE s = r
    BY <1>1, <2>1
  <2>2. CASE s # r
    BY <1>2, <1>5, <1>7, <2>2, Parts, References, NoneAssumption DEF SuccessIsPaid, chain
  <2> QED
    BY <2>1, <2>2
<1> QED
  BY <1>6, <1>8, <1>9, <1>10, <1>11, <1>12 DEF Sound

\* An option that is written back, or made by an upsert, stays with its owner.
LEMMA SaveUpdateSound ==
  ASSUME IInv, NEW c \in Clients, NEW config, SaveUpdate(c, config)
  PROVE  Sound'
<1>1. Quiet
  BY Parts, ReturnQuiet DEF SaveUpdate
<1>2. options[loc[c].option].issuer = loc[c].issuer /\ loc[c].option \in Options
  BY Parts DEF SaveUpdate, OptionOwned
<1>3. ASSUME NEW o \in Options
      PROVE  options'[o].issuer = options[o].issuer /\ (options[o].live => options'[o].live)
  BY <1>2, Parts DEF SaveUpdate, SavePaymentOption, TypeOK
<1> QED
  BY <1>1, <1>3, OptionsSound DEF SaveUpdate

\* So does one that is made or deleted.
LEMMA OptionCallsSound ==
  ASSUME IInv, OptionCalls
  PROVE  Sound'
<1>1. ASSUME NEW o \in Options, NEW i \in Issuers, NEW config \in Configs,
             CreatePaymentOption(o, i, config)
      PROVE  Sound'
  <2>1. ASSUME NEW p \in Options
        PROVE  /\ options[p].issuer # None => options'[p].issuer = options[p].issuer
               /\ options[p].live => options'[p].live
    BY <1>1, Parts DEF CreatePaymentOption, SavePaymentOption, TypeOK
  <2> QED
    BY <1>1, <2>1, OptionsSound DEF CreatePaymentOption, Quiet
<1>2. ASSUME NEW o \in Options, NEW i \in Issuers, DeletePaymentOption(o, i) PROVE Sound'
  <2>1. ASSUME NEW p \in Options, p # o PROVE options'[p] = options[p]
    BY <1>2, <2>1, Parts DEF DeletePaymentOption, TypeOK
  <2>2. options'[o].issuer = i /\ options[o].issuer = i
    BY <1>2, Parts DEF DeletePaymentOption, GetPaymentOptionByID, TypeOK, NoOption
  <2>3. \A r \in Requests : requests[r].live => requests[r].option # o
    BY <1>2 DEF DeletePaymentOption
  <2>4. Quiet /\ UNCHANGED <<requests, items, chain>>
    BY <1>2 DEF DeletePaymentOption, Quiet
  <2>5. ASSUME NEW p \in Options
        PROVE  /\ options[p].issuer # None => options'[p].issuer = options[p].issuer
               /\ options[p].live => \/ options'[p].live
                                     \/ \A r \in Requests : requests[r].live => requests[r].option # p
    <3>1. CASE p = o
      BY <2>2, <2>3, <3>1
    <3>2. CASE p # o
      BY <2>1, <3>2
    <3> QED
      BY <3>1, <3>2
  <2> QED
    BY <2>4, <2>5, OptionsSound
<1> QED
  BY <1>1, <1>2 DEF OptionCalls

\* The items of a request that is deleted stay its items.
LEMMA DeleteItemsSound ==
  ASSUME IInv, NEW c \in Clients, NEW r \in Requests, NEW i \in Issuers, DeleteItems(c, r, i)
  PROVE  Sound'
<1>1. ASSUME NEW d \in Clients, d # c PROVE pc'[d] = pc[d] /\ loc'[d] = loc[d]
  BY <1>1, Parts DEF DeleteItems, GoTo, TypeOK
<1>2. pc'[c] = "delete" /\ loc'[c].issuer = i /\ loc'[c].request = r
  BY Parts DEF DeleteItems, GoTo, TypeOK, NoLocals
<1>3. UNCHANGED <<options, requests, chain>>
  BY DEF DeleteItems
<1>4. ASSUME NEW n \in Nonces
      PROVE  items'[n].request = items[n].request /\ (items'[n].live => items[n].live)
  BY Parts, Zenon DEF DeleteItems, TypeOK, ItemRow
<1>5. OptionOwned' /\ DeletionKnown'
  BY <1>1, <1>2, <1>3, Parts DEF OptionOwned, DeletionKnown
<1>6. VerificationSound'
  BY <1>1, <1>2, <1>3, <1>4, Parts DEF VerificationSound, VerifyPcs, chain
<1>7. PendingIsDrawn' /\ ItemsAreOfRequests'
  BY <1>3, <1>4, Parts DEF PendingIsDrawn, ItemsAreOfRequests, chain
<1>8. SuccessIsPaid'
  BY <1>3, <1>4, References, Parts DEF SuccessIsPaid, chain
<1> QED
  BY <1>3, <1>5, <1>6, <1>7, <1>8, Parts DEF Sound, GoneIsBlank, RequestMatchesOption

\* A deleted request leaves nothing but its issuer.
LEMMA DeleteRowSound ==
  ASSUME IInv, NEW c \in Clients, DeleteRow(c)
  PROVE  Sound'
<1> DEFINE r == loc[c].request
<1>0. Quiet /\ UNCHANGED <<options, items, chain>>
  BY Parts, ReturnQuiet DEF DeleteRow
<1>1. r \in Requests /\ loc[c].issuer \in Issuers
  BY Parts DEF DeleteRow, DeletionKnown
<1>2. ASSUME NEW s \in Requests
      PROVE  \/ requests'[s] = requests[s]
             \/ /\ requests'[s] = [NoRequest EXCEPT !.issuer = loc[c].issuer]
                /\ requests'[s].issuer # None
  BY <1>1, NoneAssumption, Parts DEF DeleteRow, TypeOK, NoRequest
<1>3. OptionOwned' /\ DeletionKnown'
  BY <1>0, Parts DEF OptionOwned, DeletionKnown, Quiet
<1>4. VerificationSound' /\ PendingIsDrawn'
  BY <1>0, Parts DEF VerificationSound, VerifyPcs, PendingIsDrawn, Quiet, chain
<1>5. GoneIsBlank' /\ RequestMatchesOption'
  <2> SUFFICES ASSUME NEW s \in Requests
               PROVE  /\ ~ requests'[s].live =>
                           requests'[s] = [NoRequest EXCEPT !.issuer = requests'[s].issuer]
                      /\ requests'[s].live =>
                           /\ requests'[s].option \in Options /\ requests'[s].issuer \in Issuers
                           /\ options'[requests'[s].option].live
                           /\ options'[requests'[s].option].issuer = requests'[s].issuer
    BY DEF GoneIsBlank, RequestMatchesOption
  <2>1. CASE requests'[s] = requests[s]
    BY <1>0, <2>1, Parts DEF GoneIsBlank, RequestMatchesOption
  <2>2. CASE requests'[s] = [NoRequest EXCEPT !.issuer = loc[c].issuer]
    BY <2>2 DEF NoRequest
  <2> QED
    BY <1>2, <2>1, <2>2
<1>6. ItemsAreOfRequests'
  BY <1>0, <1>2, References, Parts DEF ItemsAreOfRequests
<1>7. SuccessIsPaid'
  <2> SUFFICES ASSUME NEW s \in Requests
               PROVE  /\ (requests'[s].status = "success") <=> (requests'[s].paidNonce # None)
                      /\ requests'[s].paidNonce # None =>
                           /\ requests'[s].paidNonce \in paid'
                           /\ items'[requests'[s].paidNonce].request = s
    BY DEF SuccessIsPaid
  <2>1. CASE requests'[s] = requests[s]
    BY <1>0, <2>1, Parts DEF SuccessIsPaid, chain
  <2>2. CASE requests'[s] = [NoRequest EXCEPT !.issuer = loc[c].issuer]
    BY <2>2 DEF NoRequest
  <2> QED
    BY <1>2, <2>1, <2>2
<1> QED
  BY <1>3, <1>4, <1>5, <1>6, <1>7 DEF Sound

\* A step of a verification that has found its item keeps the invariant.
LEMMA VerifyingSound ==
  ASSUME IInv, NEW c \in Clients, NEW label \in VerifyPcs, NEW l, GoTo(c, label, l),
         l.request \in Requests, l.nonce \in Nonces, items[l.nonce].request = l.request,
         label \in {"tx", "again"} => l.tx \in TxIds,
         label = "again" => l.nonce \in paid,
         label = "write" /\ l.answer = "success" => l.nonce \in paid,
         UNCHANGED <<rows, chain>>
  PROVE  Sound'
<1>1. ASSUME NEW d \in Clients, d # c PROVE pc'[d] = pc[d] /\ loc'[d] = loc[d]
  BY <1>1, Parts DEF GoTo, TypeOK
<1>2. pc'[c] = label /\ loc'[c] = l
  BY Parts DEF GoTo, TypeOK
<1>3. OptionOwned' /\ DeletionKnown'
  BY <1>1, <1>2, Parts DEF OptionOwned, DeletionKnown, VerifyPcs, rows
<1>4. VerificationSound'
  <2> SUFFICES ASSUME NEW d \in Clients, pc'[d] \in VerifyPcs
               PROVE  /\ loc'[d].request \in Requests
                      /\ loc'[d].nonce \in Nonces
                      /\ items[loc'[d].nonce].request = loc'[d].request
                      /\ pc'[d] \in {"tx", "again"} => loc'[d].tx \in TxIds
                      /\ pc'[d] = "again" => loc'[d].nonce \in paid
                      /\ pc'[d] = "write" /\ loc'[d].answer = "success" => loc'[d].nonce \in paid
    BY DEF VerificationSound, rows, chain
  <2>1. CASE d = c
    BY <1>2, <2>1
  <2>2. CASE d # c
    BY <1>1, <2>2, Parts DEF VerificationSound
  <2> QED
    BY <2>1, <2>2
<1> QED
  BY <1>3, <1>4, Parts DEF Sound, PendingIsDrawn, GoneIsBlank, ItemsAreOfRequests, SuccessIsPaid,
     RequestMatchesOption, rows, chain

\* A status is written with the nonce the chain holds as paid, or with none.
LEMMA WriteSound ==
  ASSUME IInv, NEW c \in Clients, Write(c)
  PROVE  Sound'
<1> DEFINE q == loc[c].request
<1>0. Quiet /\ UNCHANGED <<options, items, chain>>
  BY Parts, ReturnQuiet DEF Write
<1>1. /\ q \in Requests /\ loc[c].nonce \in Nonces /\ items[loc[c].nonce].request = q
      /\ loc[c].answer = "success" => loc[c].nonce \in paid
  BY Parts DEF Write, VerificationSound, VerifyPcs
<1>2. ASSUME NEW s \in Requests
      PROVE  \/ requests'[s] = requests[s]
             \/ /\ s = q /\ requests[s].live
                /\ requests'[s] = [requests[s] EXCEPT
                     !.status = StatusOf(loc[c].answer),
                     !.paidNonce = IF loc[c].answer = "success" THEN loc[c].nonce ELSE None]
  BY <1>1, Parts DEF Write, UpdatePaymentRequestStatus, TypeOK, RequestRow
<1>3. ASSUME NEW s \in Requests
      PROVE  /\ requests'[s].live = requests[s].live
             /\ requests'[s].option = requests[s].option /\ requests'[s].issuer = requests[s].issuer
             /\ requests'[s] = requests[s] \/ requests[s].live
  <2>1. CASE requests'[s] = requests[s]
    BY <2>1
  <2>2. CASE requests'[s] # requests[s]
    <3>1. requests[s] \in RequestRow
      BY Parts DEF TypeOK
    <3> QED
      BY <1>2, <2>2, <3>1 DEF RequestRow
  <2> QED
    BY <2>1, <2>2
<1>4. OptionOwned' /\ DeletionKnown'
  BY <1>0, Parts DEF OptionOwned, DeletionKnown, Quiet
<1>5. VerificationSound' /\ PendingIsDrawn'
  BY <1>0, Parts DEF VerificationSound, VerifyPcs, PendingIsDrawn, Quiet, chain
<1>6. GoneIsBlank' /\ RequestMatchesOption'
  BY <1>0, <1>3, Parts DEF GoneIsBlank, RequestMatchesOption
<1>7. ItemsAreOfRequests'
  BY <1>0, <1>3, References, Parts DEF ItemsAreOfRequests
<1>8. SuccessIsPaid'
  <2> SUFFICES ASSUME NEW s \in Requests
               PROVE  /\ (requests'[s].status = "success") <=> (requests'[s].paidNonce # None)
                      /\ requests'[s].paidNonce # None =>
                           /\ requests'[s].paidNonce \in paid
                           /\ items[requests'[s].paidNonce].request = s
    BY <1>0 DEF SuccessIsPaid, chain
  <2>1. CASE requests'[s] = requests[s]
    BY <2>1, Parts DEF SuccessIsPaid
  <2>2. CASE requests'[s] # requests[s]
    <3>1. /\ s = q
          /\ requests'[s].status = StatusOf(loc[c].answer)
          /\ requests'[s].paidNonce = IF loc[c].answer = "success" THEN loc[c].nonce ELSE None
      <4>1. requests[s] \in RequestRow
        BY Parts DEF TypeOK
      <4>2. /\ s = q
            /\ requests'[s] = [requests[s] EXCEPT
                 !.status = StatusOf(loc[c].answer),
                 !.paidNonce = IF loc[c].answer = "success" THEN loc[c].nonce ELSE None]
        BY <1>2, <2>2
      <4> QED
        BY <4>1, <4>2 DEF RequestRow
    <3> QED
      BY <1>1, <3>1, NoneAssumption DEF StatusOf
  <2> QED
    BY <2>1, <2>2
<1> QED
  BY <1>4, <1>5, <1>6, <1>7, <1>8 DEF Sound

\* The calls of VerifyPayment keep the invariant.
LEMMA VerifierCallsSound ==
  ASSUME IInv, NEW c \in Clients, VerifierCalls(c)
  PROVE  Sound'
<1>0. pc[c] \in VerifyPcs =>
        /\ loc[c].request \in Requests /\ loc[c].nonce \in Nonces
        /\ items[loc[c].nonce].request = loc[c].request
        /\ pc[c] \in {"tx", "again"} => loc[c].tx \in TxIds
        /\ pc[c] = "again" => loc[c].nonce \in paid
  BY Parts DEF VerificationSound
<1>1. ASSUME NEW n \in Nonces, NEW t \in TxIds \cup {None}, VerifyPayment(c, n, t)
      PROVE  Sound'
  <2> DEFINE r == items[n].request
             l == [NoLocals EXCEPT !.request = r, !.nonce = n, !.tx = t, !.read = requests[r].status]
  <2>1. r \in Requests
    BY <1>1, References, Parts DEF VerifyPayment, ItemsAreOfRequests
  <2>2. l.request = r /\ l.nonce = n /\ l.tx = t
    BY DEF NoLocals
  <2>3. GoTo(c, IF t = None THEN "contract" ELSE "tx", l) /\ UNCHANGED <<rows, chain>>
    BY <1>1 DEF VerifyPayment
  <2>4. CASE t = None
    BY <2>1, <2>2, <2>3, <2>4, VerifyingSound DEF VerifyPcs
  <2>5. CASE t # None
    BY <2>1, <2>2, <2>3, <2>5, VerifyingSound DEF VerifyPcs
  <2> QED
    BY <2>4, <2>5
<1>2. ASSUME pc[c] \in VerifyPcs, UNCHANGED <<rows, chain>>, NEW answer, Answer(c, answer),
             answer = "success" => loc[c].nonce \in paid
      PROVE  Sound'
  <2> DEFINE l == [loc[c] EXCEPT !.answer = answer]
  <2>1. l.request = loc[c].request /\ l.nonce = loc[c].nonce /\ l.answer = answer
    <3>1. c \in Clients /\ loc[c] \in Locals
      BY Parts DEF TypeOK
    <3> QED
      BY <3>1 DEF Locals
  <2> QED
    BY <1>0, <1>2, <2>1, VerifyingSound DEF Answer, VerifyPcs
<1>3. ASSUME pc[c] \in VerifyPcs, UNCHANGED <<rows, chain>>, GoTo(c, "contract", loc[c])
      PROVE  Sound'
  BY <1>0, <1>3, VerifyingSound DEF VerifyPcs
<1>4. CASE AskTransaction(c)
  BY <1>2, <1>3, <1>4 DEF AskTransaction, VerifyPcs
<1>5. CASE AskContract(c)
  BY <1>2, <1>5 DEF AskContract, VerifyPcs
<1>6. CASE AskContractFails(c)
  BY <1>2, <1>6 DEF AskContractFails, VerifyPcs
<1>7. CASE AskAccount(c)
  <2>1. pc[c] \in VerifyPcs /\ loc[c].nonce \in paid /\ UNCHANGED <<rows, chain>>
    BY <1>7 DEF AskAccount, VerifyPcs
  <2>2. CASE loc[c].tx = None
    BY <1>2, <1>7, <2>1, <2>2 DEF AskAccount
  <2>3. CASE loc[c].tx # None
    <3>1. loc[c].tx \in TxIds
      BY <2>3, Parts DEF TypeOK, Locals
    <3> QED
      BY <1>0, <1>7, <2>1, <2>3, <3>1, VerifyingSound DEF AskAccount, VerifyPcs
  <2> QED
    BY <2>2, <2>3
<1>8. CASE AskAgain(c)
  BY <1>0, <1>2, <1>8 DEF AskAgain, VerifyPcs
<1>9. CASE Write(c)
  BY <1>9, WriteSound
<1> QED
  BY <1>1, <1>4, <1>5, <1>6, <1>7, <1>8, <1>9 DEF VerifierCalls

\* The wallets and the chain only add to what is paid.
LEMMA WalletSound ==
  ASSUME IInv, Wallet
  PROVE  Sound'
<1>1. UNCHANGED <<options, requests, items, pc, loc>>
  BY DEF Wallet, Pay, Mine, Fail, rows
<1>2. paid \subseteq paid'
  BY DEF Wallet, Pay, Mine, Fail
<1>3. PendingIsDrawn'
  <2>1. ASSUME NEW t \in TxIds, NEW n \in Nonces, Pay(t, n) PROVE PendingIsDrawn'
    BY <1>1, <2>1, Parts DEF Pay, TypeOK, PendingIsDrawn
  <2>2. ASSUME NEW t \in TxIds, Mine(t) \/ Fail(t) PROVE PendingIsDrawn'
    <3>1. ASSUME NEW u \in TxIds
          PROVE  txs'[u] = txs[u] \/ txs'[u].status # "pending"
      BY <2>2, Parts DEF Mine, Fail, TypeOK, Transaction
    <3> QED
      BY <1>1, <3>1, Parts DEF PendingIsDrawn
  <2> QED
    BY <2>1, <2>2 DEF Wallet
<1>4. OptionOwned' /\ DeletionKnown' /\ VerificationSound'
  BY <1>1, <1>2, Parts DEF OptionOwned, DeletionKnown, VerificationSound
<1>5. SuccessIsPaid'
  BY <1>1, <1>2, Parts DEF SuccessIsPaid
<1> QED
  BY <1>1, <1>3, <1>4, <1>5, Parts DEF Sound, GoneIsBlank, ItemsAreOfRequests, RequestMatchesOption

\* What only ends a call keeps the invariant.
LEMMA AbandonSound ==
  ASSUME IInv, NEW c \in Clients, Abandon(c)
  PROVE  Sound'
<1>1. Quiet /\ UNCHANGED <<rows, chain>>
  BY Parts, ReturnQuiet DEF Abandon
<1>2. OptionOwned' /\ DeletionKnown' /\ VerificationSound'
  BY <1>1, Parts DEF OptionOwned, DeletionKnown, VerificationSound, VerifyPcs, Quiet, rows, chain
<1> QED
  BY <1>1, <1>2, Parts DEF Sound, PendingIsDrawn, GoneIsBlank, ItemsAreOfRequests, SuccessIsPaid,
     RequestMatchesOption, rows, chain

-----------------------------------------------------------------------------
(* The invariant holds in every reachable state. *)

\* Every step keeps the inductive invariant.
LEMMA InvariantStep ==
  ASSUME IInv, [Next]_vars
  PROVE  IInv'
<1>1. TypeOK'
  BY TypeStep
<1>2. CASE OptionCalls
  BY <1>1, <1>2, OptionCallsSound DEF IInv
<1>3. ASSUME NEW c \in Editors, EditorCalls(c) PROVE Sound'
  <2>0. c \in Clients
    BY DEF Clients
  <2>1. ASSUME NEW o \in Options, NEW i \in Issuers,
               UpdatePaymentOption(c, o, i) \/ CreatePaymentRequest(c, o, i)
        PROVE  Sound'
    BY <2>0, <2>1, ReadOptionSound DEF UpdatePaymentOption, CreatePaymentRequest
  <2> QED
    BY <1>3, <2>0, <2>1, SaveUpdateSound, SavePaymentRequestSound, DeleteItemsSound, DeleteRowSound
    DEF EditorCalls
<1>4. ASSUME NEW c \in Verifiers, VerifierCalls(c) PROVE Sound'
  BY <1>4, VerifierCallsSound DEF Clients
<1>5. ASSUME NEW c \in Clients, Abandon(c) PROVE Sound'
  BY <1>5, AbandonSound
<1>6. CASE Wallet
  BY <1>1, <1>6, WalletSound DEF IInv
<1>7. CASE UNCHANGED vars
  <2>1. OptionOwned' /\ DeletionKnown' /\ VerificationSound' /\ PendingIsDrawn'
    BY <1>7, Parts DEF vars, PendingIsDrawn, OptionOwned, DeletionKnown, VerificationSound
  <2>2. GoneIsBlank' /\ ItemsAreOfRequests' /\ SuccessIsPaid' /\ RequestMatchesOption'
    BY <1>7, Parts DEF vars, GoneIsBlank, ItemsAreOfRequests, SuccessIsPaid, RequestMatchesOption
  <2> QED
    BY <1>1, <2>1, <2>2 DEF IInv, Sound
<1> QED
  BY <1>1, <1>2, <1>3, <1>4, <1>5, <1>6, <1>7 DEF Next, IInv

\* It holds at the start.
LEMMA InitInvariant ==
  ASSUME Init
  PROVE  IInv
<1>1. TypeOK
  BY EmptyValues DEF Init, TypeOK, ItemRow, Transaction, TxStatuses, Pcs
<1>2. SuccessIsPaid /\ RequestMatchesOption /\ GoneIsBlank
  BY DEF Init, SuccessIsPaid, RequestMatchesOption, GoneIsBlank, NoRequest
<1>3. OptionOwned /\ DeletionKnown /\ VerificationSound
  BY DEF Init, OptionOwned, DeletionKnown, VerificationSound, VerifyPcs
<1>4. PendingIsDrawn /\ ItemsAreOfRequests
  BY DEF Init, PendingIsDrawn, ItemsAreOfRequests
<1> QED
  BY <1>1, <1>2, <1>3, <1>4 DEF IInv, Sound

\* The inductive invariant is one.
LEMMA Invariance == Spec => []IInv
BY InitInvariant, InvariantStep, PTL DEF Spec

\* Rows, calls and transactions always have the columns and values they may have.
THEOREM TypeCorrect == Spec => []TypeOK
BY Invariance, PTL DEF IInv

\* However calls of the service, wallets and the chain overlap, a request is stored as
\* paid exactly with a nonce of its own that the chain holds as paid.
THEOREM SuccessCorrect == Spec => []SuccessIsPaid
<1>1. IInv => SuccessIsPaid
  BY Parts
<1> QED
  BY <1>1, Invariance, PTL

\* A request in the database always has its option there, of the same issuer.
THEOREM OptionsCorrect == Spec => []RequestMatchesOption
<1>1. IInv => RequestMatchesOption
  BY Parts
<1> QED
  BY <1>1, Invariance, PTL

-----------------------------------------------------------------------------
(* What a step may do to a request. *)

\* A row changes when it is made, deleted, or written at the end of a verification that
\* read another status than "success".
LEMMA RequestStep ==
  ASSUME IInv, [Next]_vars, NEW r \in Requests, requests'[r] # requests[r]
  PROVE  \/ requests[r].issuer = None
         \/ ~ requests'[r].live
         \/ \E c \in Clients : /\ pc[c] = "write" /\ loc[c].request = r
                               /\ loc[c].read # "success"
<1>1. CASE \E c \in Editors : \E q \in Requests, drawn \in [loc[c].config -> Nonces] :
             SavePaymentRequest(c, q, drawn)
  BY <1>1, Parts DEF SavePaymentRequest, TypeOK
<1>2. CASE \E c \in Editors : DeleteRow(c)
  <2>1. PICK c \in Editors : DeleteRow(c)
    BY <1>2
  <2>2. loc[c].request \in Requests
    BY <2>1, Parts DEF DeleteRow, DeletionKnown, Clients
  <2>3. requests' = [requests EXCEPT ![loc[c].request] = [NoRequest EXCEPT !.issuer = loc[c].issuer]]
    BY <2>1 DEF DeleteRow
  <2>4. requests'[r] = [NoRequest EXCEPT !.issuer = loc[c].issuer]
    BY <2>2, <2>3, Parts DEF TypeOK
  <2> QED
    BY <2>4 DEF NoRequest
<1>3. CASE \E c \in Verifiers : Write(c)
  <2>1. PICK c \in Verifiers : Write(c)
    BY <1>3
  <2>2. requests' # requests
    OBVIOUS
  <2>3. MustWrite(loc[c]) /\ UpdatePaymentRequestStatus(loc[c].request, loc[c])
    BY <2>1, <2>2 DEF Write
  <2>4. r = loc[c].request
    BY <2>3, Parts DEF UpdatePaymentRequestStatus, TypeOK
  <2> QED
    BY <2>1, <2>3, <2>4 DEF Write, MustWrite, Clients
<1>4. CASE UNCHANGED requests
  BY <1>4
<1> QED
  <2>1. CASE OptionCalls \/ Wallet \/ UNCHANGED vars \/ \E c \in Clients : Abandon(c)
    BY <1>4, <2>1 DEF OptionCalls, CreatePaymentOption, DeletePaymentOption, Wallet, Pay, Mine, Fail,
       Abandon, rows, vars
  <2>2. CASE \E c \in Editors : EditorCalls(c)
    BY <1>1, <1>2, <1>4, <2>2 DEF EditorCalls, UpdatePaymentOption, CreatePaymentRequest, SaveUpdate,
       DeleteItems, rows
  <2>3. CASE \E c \in Verifiers : VerifierCalls(c)
    BY <1>3, <1>4, <2>3 DEF VerifierCalls, VerifyPayment, AskTransaction, AskContract,
       AskContractFails, AskAccount, AskAgain, rows
  <2> QED
    BY <2>1, <2>2, <2>3 DEF Next

\* A paid request stays paid, unless a verification that began before it was paid ends.
THEOREM SuccessKept == Spec => SuccessIsKept
<1>1. ASSUME IInv, [Next]_vars, NEW r \in Requests, requests[r].status = "success",
             \A c \in Clients : Verifying(c, r) => loc[c].read = "success"
      PROVE  requests'[r] = requests[r] \/ ~ requests'[r].live
  <2>1. requests[r].issuer # None
    BY <1>1, Parts, NoneAssumption DEF GoneIsBlank, NoRequest
  <2> QED
    BY <1>1, <2>1, RequestStep DEF Verifying
<1>2. IInv /\ [Next]_vars =>
        [\A r \in Requests :
          /\ requests[r].status = "success"
          /\ \A c \in Clients : Verifying(c, r) => loc[c].read = "success"
          => requests'[r] = requests[r] \/ ~ requests'[r].live]_vars
  BY <1>1
<1> QED
  BY <1>2, Invariance, PTL DEF Spec, SuccessIsKept

-----------------------------------------------------------------------------
(* One verification at a time. *)

\* What SuccessIsKept has to except never happens then: every verification of a paid
\* request has read it as paid.
OnePerRequest ==
  /\ \A c \in Clients : pc[c] \in VerifyPcs => c \in Verifiers
  /\ \A r \in Requests, c \in Clients :
       requests[r].status = "success" /\ Verifying(c, r) => loc[c].read = "success"

\* A call that verifies after a step did so before it, or has just read the status.
LEMMA VerificationStep ==
  ASSUME IInv, [Next]_vars, NEW c \in Clients, pc'[c] \in VerifyPcs
  PROVE  \/ /\ pc[c] \in VerifyPcs
            /\ loc'[c].request = loc[c].request /\ loc'[c].read = loc[c].read
         \/ /\ c \in Verifiers /\ requests' = requests
            /\ loc'[c].read = requests[loc'[c].request].status
<1> DEFINE Goal == \/ /\ pc[c] \in VerifyPcs
                      /\ loc'[c].request = loc[c].request /\ loc'[c].read = loc[c].read
                   \/ /\ c \in Verifiers /\ requests' = requests
                      /\ loc'[c].read = requests[loc'[c].request].status
<1> SUFFICES Goal
  OBVIOUS
<1>0. ASSUME NEW d \in Clients, NEW label, NEW l, GoTo(d, label, l)
      PROVE  /\ pc'[d] = label /\ loc'[d] = l
             /\ c # d => pc'[c] = pc[c] /\ loc'[c] = loc[c]
  BY <1>0, Parts DEF GoTo, TypeOK
<1>1. ASSUME NEW d \in Clients, NEW label, NEW l, GoTo(d, label, l), label \notin VerifyPcs
      PROVE  Goal
  BY <1>0, <1>1
<1>2. CASE UNCHANGED <<pc, loc>>
  BY <1>2
<1>3. ASSUME NEW d \in Clients, Return(d) PROVE Goal
  BY <1>1, <1>3 DEF Return, VerifyPcs
<1>4. ASSUME NEW d \in Editors, EditorCalls(d) PROVE Goal
  <2>0. d \in Clients
    BY DEF Clients
  <2>1. ASSUME NEW o \in Options, NEW i \in Issuers,
               UpdatePaymentOption(d, o, i) \/ CreatePaymentRequest(d, o, i)
        PROVE  Goal
    <3> DEFINE l == [NoLocals EXCEPT !.issuer = i, !.option = o, !.config = options[o].config]
    <3>1. \E label \in {"update", "create"} : GoTo(d, label, l)
      BY <2>1 DEF UpdatePaymentOption, CreatePaymentRequest
    <3> HIDE DEF Goal, l
    <3> QED
      BY <1>1, <2>0, <3>1 DEF VerifyPcs
  <2>2. ASSUME NEW r \in Requests, NEW i \in Issuers, DeleteItems(d, r, i) PROVE Goal
    <3>1. GoTo(d, "delete", [NoLocals EXCEPT !.issuer = i, !.request = r])
      BY <2>2 DEF DeleteItems
    <3> HIDE DEF Goal
    <3> QED
      BY <1>1, <2>0, <3>1 DEF VerifyPcs
  <2>3. CASE Return(d)
    BY <1>3, <2>0, <2>3
  <2> QED
    BY <1>4, <2>1, <2>2, <2>3 DEF EditorCalls, SaveUpdate, SavePaymentRequest, DeleteRow
<1>5. ASSUME NEW d \in Verifiers, VerifierCalls(d) PROVE Goal
  <2>0. d \in Clients /\ loc[d] \in Locals
    BY Parts DEF Clients, TypeOK
  <2>1. ASSUME NEW n \in Nonces, NEW t \in TxIds \cup {None}, VerifyPayment(d, n, t) PROVE Goal
    <3> DEFINE l == [NoLocals EXCEPT !.request = items[n].request, !.nonce = n, !.tx = t,
                                     !.read = requests[items[n].request].status]
    <3>1. l.request = items[n].request /\ l.read = requests[items[n].request].status
      BY DEF NoLocals
    <3>2. requests' = requests /\ GoTo(d, IF t = None THEN "contract" ELSE "tx", l)
      BY <2>1 DEF VerifyPayment, rows
    <3> HIDE DEF l
    <3> QED
      BY <1>0, <2>0, <3>1, <3>2
  <2>2. ASSUME pc[d] \in VerifyPcs, NEW label, NEW l, GoTo(d, label, l),
               l.request = loc[d].request, l.read = loc[d].read
        PROVE  Goal
    <3>1. CASE c = d
      <4>1. loc'[c] = l
        BY <1>0, <2>0, <2>2, <3>1
      <4> QED
        BY <2>2, <3>1, <4>1
    <3>2. CASE c # d
      <4>1. pc'[c] = pc[c] /\ loc'[c] = loc[c]
        BY <1>0, <2>0, <2>2, <3>2
      <4> QED
        BY <4>1
    <3> QED
      BY <3>1, <3>2
  <2>3. ASSUME pc[d] \in VerifyPcs, NEW answer, Answer(d, answer) PROVE Goal
    <3> DEFINE l == [loc[d] EXCEPT !.answer = answer]
    <3>1. l.request = loc[d].request /\ l.read = loc[d].read
      BY <2>0 DEF Locals
    <3>2. GoTo(d, "write", l)
      BY <2>3 DEF Answer
    <3> HIDE DEF Goal, l
    <3> QED
      BY <2>3, <2>2, <3>1, <3>2
  <2>4. ASSUME pc[d] \in VerifyPcs, NEW label, GoTo(d, label, loc[d]) PROVE Goal
    <3> HIDE DEF Goal
    <3> QED
      BY <2>4, <2>2
  <2> QED
    BY <1>3, <1>5, <2>0, <2>1, <2>3, <2>4 DEF VerifierCalls, AskTransaction, AskContract,
       AskContractFails, AskAccount, AskAgain, Write, VerifyPcs
<1> QED
  BY <1>2, <1>3, <1>4, <1>5 DEF Next, OptionCalls, CreatePaymentOption, DeletePaymentOption,
     Abandon, Wallet, Pay, Mine, Fail, vars

\* A request becomes paid at the end of a verification only.
LEMMA PaidByWrite ==
  ASSUME IInv, [Next]_vars, NEW r \in Requests, requests'[r] # requests[r],
         requests'[r].status = "success"
  PROVE  \E c \in Verifiers : Write(c)
<1>1. ASSUME NEW c \in Editors, NEW q \in Requests, NEW drawn \in [loc[c].config -> Nonces],
             SavePaymentRequest(c, q, drawn)
      PROVE  FALSE
  BY <1>1, Parts DEF SavePaymentRequest, TypeOK
<1>2. ASSUME NEW c \in Editors, DeleteRow(c) PROVE FALSE
  <2>1. requests' = [requests EXCEPT ![loc[c].request] = [NoRequest EXCEPT !.issuer = loc[c].issuer]]
    BY <1>2 DEF DeleteRow
  <2>2. requests'[r] = [NoRequest EXCEPT !.issuer = loc[c].issuer]
    BY <2>1, Parts DEF TypeOK
  <2> QED
    BY <2>2 DEF NoRequest
<1> QED
  BY <1>1, <1>2 DEF Next, OptionCalls, CreatePaymentOption, DeletePaymentOption, EditorCalls,
     UpdatePaymentOption, CreatePaymentRequest, SaveUpdate, DeleteItems, VerifierCalls, VerifyPayment,
     AskTransaction, AskContract, AskContractFails, AskAccount, AskAgain, Abandon, Wallet, Pay, Mine,
     Fail, rows, vars

\* When verifications come one at a time, a paid request stays paid with its nonce until it
\* is deleted, whatever else overlaps: it takes two of them to undo a payment.
THEOREM OneVerifierKeeps ==
  ASSUME \A c, d \in Verifiers : c = d
  PROVE  Spec => [][\A r \in Requests : requests[r].status = "success" =>
                      requests'[r] = requests[r] \/ ~ requests'[r].live]_vars
<1>1. Init => OnePerRequest
  BY DEF Init, OnePerRequest, VerifyPcs, NoRequest
<1>2. ASSUME IInv, OnePerRequest, [Next]_vars PROVE OnePerRequest'
  <2>1. ASSUME NEW c \in Clients, pc'[c] \in VerifyPcs PROVE c \in Verifiers
    BY <1>2, <2>1, VerificationStep DEF OnePerRequest
  <2>2. ASSUME NEW r \in Requests, NEW c \in Clients, requests'[r].status = "success",
               pc'[c] \in VerifyPcs, loc'[c].request = r
        PROVE  loc'[c].read = "success"
    <3>1. CASE requests'[r] = requests[r]
      <4>1. CASE pc[c] \in VerifyPcs /\ loc'[c].request = loc[c].request /\ loc'[c].read = loc[c].read
        BY <1>2, <2>2, <3>1, <4>1 DEF OnePerRequest, Verifying, VerifyPcs
      <4>2. CASE requests' = requests /\ loc'[c].read = requests[loc'[c].request].status
        BY <2>2, <4>2
      <4> QED
        BY <1>2, <2>2, <4>1, <4>2, VerificationStep
    <3>2. CASE requests'[r] # requests[r]
      <4>1. PICK d \in Verifiers : Write(d)
        BY <1>2, <2>2, <3>2, PaidByWrite
      <4>2. c = d
        BY <2>1, <2>2, <4>1
      <4>3. pc'[d] = "idle"
        BY <1>2, <4>1, Parts DEF Write, Return, GoTo, TypeOK, Clients
      <4> QED
        BY <2>2, <4>2, <4>3 DEF VerifyPcs
    <3> QED
      BY <3>1, <3>2
  <2> QED
    BY <2>1, <2>2 DEF OnePerRequest, Verifying, VerifyPcs
<1>3. ASSUME IInv, OnePerRequest, [Next]_vars, NEW r \in Requests, requests[r].status = "success"
      PROVE  requests'[r] = requests[r] \/ ~ requests'[r].live
  <2>1. requests[r].issuer # None
    BY <1>3, Parts, NoneAssumption DEF GoneIsBlank, NoRequest
  <2> QED
    BY <1>3, <2>1, RequestStep DEF Verifying, OnePerRequest
<1>4. IInv /\ OnePerRequest /\ [Next]_vars =>
        [\A r \in Requests : requests[r].status = "success" =>
           requests'[r] = requests[r] \/ ~ requests'[r].live]_vars
  BY <1>3
<1>5. IInv /\ OnePerRequest /\ [Next]_vars => OnePerRequest'
  BY <1>2
<1> QED
  BY <1>1, <1>4, <1>5, Invariance, PTL DEF Spec

-----------------------------------------------------------------------------
(* The service implements the ledger. *)

\* The ledger does not see a step that leaves its four variables alone.
LEMMA LedgerStutters ==
  ASSUME Book' = Book, Drawn' = Drawn, paid' = paid, Late' = Late
  PROVE  [Ledger!Next]_(Ledger!ledger)
BY DEF Ledger!ledger

\* No verification begins or ends when every call verifies what it verified.
LEMMA LateKept ==
  ASSUME \A c \in Clients :
           /\ (pc'[c] \in VerifyPcs) <=> (pc[c] \in VerifyPcs)
           /\ pc[c] \in VerifyPcs => loc'[c].request = loc[c].request /\ loc'[c].read = loc[c].read
  PROVE  Late' = Late
BY DEF Late, Verifying, VerifyPcs

\* A call that is no verification and becomes none changes nothing.
LEMMA NoVerification ==
  ASSUME TypeOK, NEW c \in Clients, NEW label, NEW l, GoTo(c, label, l),
         label \notin VerifyPcs, pc[c] \notin VerifyPcs
  PROVE  Late' = Late
<1>1. pc'[c] = label /\ \A d \in Clients : d # c => pc'[d] = pc[d] /\ loc'[d] = loc[d]
  BY DEF GoTo, TypeOK
<1> QED
  BY <1>1, LateKept

\* Nor does one that goes on.
LEMMA VerificationGoesOn ==
  ASSUME TypeOK, NEW c \in Clients, NEW label \in VerifyPcs, NEW l, GoTo(c, label, l),
         pc[c] \in VerifyPcs, l.request = loc[c].request, l.read = loc[c].read
  PROVE  Late' = Late
<1>1. pc'[c] = label /\ loc'[c] = l
  BY DEF GoTo, TypeOK
<1>2. \A d \in Clients : d # c => pc'[d] = pc[d] /\ loc'[d] = loc[d]
  BY DEF GoTo, TypeOK
<1> QED
  BY <1>1, <1>2, LateKept

\* A verification that ends leaves others of its request under way, or none.
LEMMA VerificationEnds ==
  ASSUME TypeOK, NEW c \in Clients, Return(c)
  PROVE  Late' = Late \/ Late' = Late \ {loc[c].request}
<1>0. Quiet
  BY ReturnQuiet
<1>1. Late' \subseteq Late
  BY <1>0 DEF Late, Verifying, Quiet
<1>2. \A d \in Clients : d # c => pc'[d] = pc[d] /\ loc'[d] = loc[d]
  BY DEF Return, GoTo, TypeOK
<1>3. ASSUME NEW r \in Late, r # loc[c].request PROVE r \in Late'
  BY <1>2, <1>3 DEF Late, Verifying
<1> QED
  BY <1>1, <1>3

\* Every step of the service, the wallets and the chain is one of the ledger, or none.
LEMMA LedgerStep ==
  ASSUME IInv, [Next]_vars
  PROVE  [Ledger!Next]_(Ledger!ledger)
<1> USE DEF VerifyPcs
<1>0. TypeOK
  BY Parts
<1>1. CASE OptionCalls
  <2>1. UNCHANGED <<requests, items, chain, pc, loc>>
    BY <1>1 DEF OptionCalls, CreatePaymentOption, DeletePaymentOption
  <2> QED
    BY <2>1, LateKept, LedgerStutters DEF Book, Drawn, chain
<1>2. ASSUME NEW c \in Editors, EditorCalls(c) PROVE [Ledger!Next]_(Ledger!ledger)
  <2>0. c \in Clients
    BY DEF Clients
  <2>1. ASSUME NEW label \in {"update", "create", "delete", "idle"}, NEW l, GoTo(c, label, l),
               pc[c] \notin VerifyPcs, UNCHANGED <<requests, chain>>, Drawn' = Drawn
        PROVE  [Ledger!Next]_(Ledger!ledger)
    BY <1>0, <2>0, <2>1, NoVerification, LedgerStutters DEF Book, chain
  <2>2. CASE \E o \in Options, i \in Issuers :
               UpdatePaymentOption(c, o, i) \/ CreatePaymentRequest(c, o, i)
    BY <2>1, <2>2 DEF UpdatePaymentOption, CreatePaymentRequest, Drawn, rows
  <2>3. CASE \E config \in Configs \cup {loc[c].config} : SaveUpdate(c, config)
    BY <2>1, <2>3 DEF SaveUpdate, Return, Drawn
  <2>4. ASSUME NEW r \in Requests, NEW drawn \in [loc[c].config -> Nonces],
               SavePaymentRequest(c, r, drawn)
        PROVE  [Ledger!Next]_(Ledger!ledger)
    <3> DEFINE new == {n \in Nonces : \E x \in loc[c].config : drawn[x] = n}
    <3>1. requests[r].issuer = None /\ ~ requests[r].live /\ requests[r].paidNonce = None
      <4>1. requests[r].issuer = None
        BY <2>4 DEF SavePaymentRequest
      <4>2. ~ requests[r].live
        BY <4>1, NoneAssumption, Parts DEF GoneIsBlank
      <4> QED
        BY <4>1, <4>2, Parts DEF GoneIsBlank, NoRequest
    <3>2. requests' = [requests EXCEPT ![r] =
            [live |-> TRUE, issuer |-> loc[c].issuer, option |-> loc[c].option,
             status |-> "not-verified", paidNonce |-> None]]
      BY <2>4 DEF SavePaymentRequest
    <3>3. Book[r] = Ledger!Absent
      BY <3>1 DEF Book, Ledger!Absent
    <3>4. Book' = [Book EXCEPT ![r] = Ledger!Opened]
      BY <1>0, <3>2 DEF Book, Ledger!Opened, TypeOK
    <3>5. ASSUME NEW n \in new PROVE items[n].request = None
      BY <2>4, <3>5 DEF SavePaymentRequest
    <3>6. Drawn' = [n \in Nonces |-> IF n \in new THEN r ELSE Drawn[n]]
      BY <2>4 DEF SavePaymentRequest, Drawn
    <3>7. new \in SUBSET {n \in Nonces : Drawn[n] = None}
      BY <3>5 DEF Drawn
    <3>8. Late' = Late /\ paid' = paid
      BY <1>0, <2>0, <2>4, NoVerification DEF SavePaymentRequest, Return, chain
    <3> HIDE DEF new
    <3>9. Ledger!Open(r)
      BY <3>3, <3>4, <3>6, <3>7, <3>8 DEF Ledger!Open
    <3> QED
      BY <3>9 DEF Ledger!Next
  <2>5. ASSUME NEW r \in Requests, NEW i \in Issuers, DeleteItems(c, r, i)
        PROVE  [Ledger!Next]_(Ledger!ledger)
    <3>1. ASSUME NEW n \in Nonces PROVE items'[n].request = items[n].request
      BY <1>0, <2>5, Zenon DEF DeleteItems, TypeOK, ItemRow
    <3>2. Drawn' = Drawn
      BY <3>1 DEF Drawn
    <3> QED
      BY <2>1, <2>5, <3>2 DEF DeleteItems
  <2>6. CASE DeleteRow(c)
    <3> DEFINE r == loc[c].request
    <3>1. r \in Requests /\ loc[c].issuer \in Issuers /\ loc[c].issuer # None
      BY <2>0, <2>6, NoneAssumption, Parts DEF DeleteRow, DeletionKnown
    <3>2. Late' = Late /\ paid' = paid /\ Drawn' = Drawn
      BY <1>0, <2>0, <2>6, NoVerification DEF DeleteRow, Return, Drawn, chain
    <3>3. CASE requests[r].live /\ requests[r].issuer = loc[c].issuer
      <4>1. requests' = [requests EXCEPT ![r] = [NoRequest EXCEPT !.issuer = loc[c].issuer]]
        BY <2>6, <3>3 DEF DeleteRow
      <4>2. Book[r].state \in {"open", "settled"}
        BY <3>1, <3>3 DEF Book
      <4>3. Book' = [Book EXCEPT ![r] = Ledger!Closed]
        BY <1>0, <3>1, <4>1 DEF Book, Ledger!Closed, NoRequest, TypeOK
      <4>4. Ledger!Close(r)
        BY <3>2, <4>2, <4>3 DEF Ledger!Close
      <4> QED
        BY <3>1, <4>4 DEF Ledger!Next
    <3>4. CASE ~ (requests[r].live /\ requests[r].issuer = loc[c].issuer)
      <4>1. ASSUME NEW s \in Requests PROVE requests'[s] = requests[s]
        BY <1>0, <2>6, <3>1, <3>4, Parts DEF DeleteRow, TypeOK, GoneIsBlank
      <4>2. Book' = Book
        BY <4>1 DEF Book
      <4> QED
        BY <3>2, <4>2, LedgerStutters
    <3> QED
      BY <3>3, <3>4
  <2> QED
    BY <1>2, <2>2, <2>3, <2>4, <2>5, <2>6 DEF EditorCalls
<1>3. ASSUME NEW c \in Clients, pc[c] \in VerifyPcs, Return(c), Book' = Book, Drawn' = Drawn,
             paid' = paid
      PROVE  [Ledger!Next]_(Ledger!ledger)
  <2>1. loc[c].request \in Requests
    BY <1>3, Parts DEF VerificationSound
  <2>2. CASE Late' = Late
    BY <1>3, <2>2, LedgerStutters
  <2>3. CASE Late' = Late \ {loc[c].request}
    BY <1>3, <2>1, <2>3 DEF Ledger!Next, Ledger!End
  <2> QED
    BY <1>0, <1>3, <2>2, <2>3, VerificationEnds
<1>4. ASSUME NEW c \in Verifiers, VerifierCalls(c) PROVE [Ledger!Next]_(Ledger!ledger)
  <2>0. c \in Clients
    BY DEF Clients
  <2>1. ASSUME NEW n \in Nonces, NEW t \in TxIds \cup {None}, VerifyPayment(c, n, t)
        PROVE  [Ledger!Next]_(Ledger!ledger)
    <3> DEFINE r == items[n].request
               label == IF t = None THEN "contract" ELSE "tx"
               l == [NoLocals EXCEPT !.request = r, !.nonce = n, !.tx = t, !.read = requests[r].status]
    <3>1. r \in Requests /\ requests[r].live
      BY <2>1, References, Parts DEF VerifyPayment, ItemsAreOfRequests
    <3>2. GoTo(c, label, l) /\ pc[c] = "idle" /\ UNCHANGED <<rows, chain>>
      BY <2>1 DEF VerifyPayment
    <3>3. label \in VerifyPcs /\ l.request = r /\ l.read = requests[r].status
      BY DEF NoLocals
    <3> HIDE DEF label, l
    <3>4. pc'[c] = label /\ loc'[c] = l
      BY <1>0, <2>0, <3>2 DEF GoTo, TypeOK
    <3>5. \A d \in Clients : d # c => pc'[d] = pc[d] /\ loc'[d] = loc[d]
      BY <1>0, <3>2 DEF GoTo, TypeOK
    <3>6. Late' = IF requests[r].status = "success" THEN Late ELSE Late \cup {r}
      <4>1. ASSUME NEW s \in Requests
            PROVE  s \in Late' <=> s \in Late \/ (s = r /\ requests[r].status # "success")
        BY <2>0, <3>2, <3>3, <3>4, <3>5 DEF Late, Verifying
      <4>2. Late \subseteq Requests /\ Late' \subseteq Requests
        BY DEF Late
      <4>3. CASE requests[r].status = "success"
        BY <4>1, <4>2, <4>3
      <4>4. CASE requests[r].status # "success"
        BY <3>1, <4>1, <4>2, <4>4
      <4> QED
        BY <4>3, <4>4
    <3>7. Book' = Book /\ Drawn' = Drawn /\ paid' = paid
      BY <3>2 DEF Book, Drawn, rows, chain
    <3>8. CASE requests[r].status = "success"
      BY <3>6, <3>7, <3>8, LedgerStutters
    <3>9. CASE requests[r].status # "success"
      <4>1. requests[r].paidNonce = None
        BY <3>1, <3>9, Parts DEF SuccessIsPaid
      <4>2. Book[r] = Ledger!Opened
        BY <3>1, <3>9, <4>1 DEF Book, Ledger!Opened
      <4>3. Ledger!Begin(r)
        BY <3>6, <3>7, <3>9, <4>2 DEF Ledger!Begin
      <4> QED
        BY <3>1, <4>3 DEF Ledger!Next
    <3> QED
      BY <3>8, <3>9
  <2>2. ASSUME pc[c] \in VerifyPcs, UNCHANGED <<rows, chain>>, NEW answer, Answer(c, answer)
        PROVE  [Ledger!Next]_(Ledger!ledger)
    <3>1. loc[c] \in Locals
      BY <1>0, <2>0 DEF TypeOK
    <3>2. [loc[c] EXCEPT !.answer = answer].request = loc[c].request
          /\ [loc[c] EXCEPT !.answer = answer].read = loc[c].read
      BY <3>1 DEF Locals
    <3>3. Late' = Late
      BY <1>0, <2>0, <2>2, <3>2, VerificationGoesOn DEF Answer
    <3> QED
      BY <2>2, <3>3, LedgerStutters DEF Book, Drawn, rows, chain
  <2>3. ASSUME pc[c] \in VerifyPcs, UNCHANGED <<rows, chain>>, NEW label \in VerifyPcs,
               GoTo(c, label, loc[c])
        PROVE  [Ledger!Next]_(Ledger!ledger)
    <3>1. Late' = Late
      BY <1>0, <2>0, <2>3, VerificationGoesOn
    <3> QED
      BY <2>3, <3>1, LedgerStutters DEF Book, Drawn, rows, chain
  <2>4. CASE AskTransaction(c)
    BY <2>2, <2>3, <2>4 DEF AskTransaction
  <2>5. CASE AskContract(c) \/ AskContractFails(c)
    BY <2>2, <2>5 DEF AskContract, AskContractFails
  <2>6. CASE AskAccount(c)
    BY <2>2, <2>3, <2>6 DEF AskAccount
  <2>7. CASE AskAgain(c)
    BY <2>2, <2>7 DEF AskAgain
  <2>8. CASE Write(c)
    <3> DEFINE r == loc[c].request
    <3>1. /\ pc[c] \in VerifyPcs /\ r \in Requests /\ Return(c)
          /\ loc[c].nonce \in Nonces /\ items[loc[c].nonce].request = r
          /\ loc[c].answer = "success" => loc[c].nonce \in paid
      BY <2>0, <2>8, Parts DEF Write, VerificationSound
    <3>2. Drawn' = Drawn /\ paid' = paid
      BY <2>8 DEF Write, Drawn, chain
    <3>3. CASE UNCHANGED requests
      BY <1>3, <2>0, <3>1, <3>2, <3>3 DEF Book
    <3>4. CASE MustWrite(loc[c]) /\ requests[r].live /\ UpdatePaymentRequestStatus(r, loc[c])
      <4> DEFINE entry == IF loc[c].answer = "success" THEN Ledger!Settled(loc[c].nonce)
                          ELSE Ledger!Opened
      <4>1. r \in Late
        BY <2>0, <3>1, <3>4 DEF MustWrite, Late, Verifying
      <4>2. Late' \in {Late, Late \ {r}}
        BY <1>0, <2>0, <3>1, VerificationEnds
      <4>3. Book[r].state \in {"open", "settled"}
        BY <3>1, <3>4 DEF Book
      <4>4. /\ requests'[r].live
            /\ requests'[r].status = StatusOf(loc[c].answer)
            /\ requests'[r].paidNonce = IF loc[c].answer = "success" THEN loc[c].nonce ELSE None
            /\ \A s \in Requests : s # r => requests'[s] = requests[s]
        <5>1. requests[r] \in RequestRow /\ requests \in [Requests -> RequestRow]
          BY <1>0, <3>1 DEF TypeOK
        <5> QED
          BY <3>1, <3>4, <5>1 DEF UpdatePaymentRequestStatus, RequestRow
      <4>5. Book'[r] = entry
        BY <3>1, <4>4 DEF Book, StatusOf, Ledger!Settled, Ledger!Opened
      <4>6. Book' = [Book EXCEPT ![r] = entry]
        <5>1. ASSUME NEW s \in Requests, s # r PROVE Book'[s] = Book[s]
          BY <4>4, <5>1 DEF Book
        <5>2. Book' = [s \in Requests |-> Book'[s]] /\ Book = [s \in Requests |-> Book[s]]
          BY DEF Book
        <5> HIDE DEF entry
        <5> QED
          BY <4>5, <5>1, <5>2
      <4>7. Ledger!Verified(r, entry)
        BY <3>2, <4>1, <4>2, <4>3, <4>6 DEF Ledger!Verified
      <4>8. CASE loc[c].answer = "success"
        <5>1. Drawn[loc[c].nonce] = r
          BY <3>1 DEF Drawn
        <5>2. Ledger!Settle(r, loc[c].nonce)
          BY <3>1, <4>7, <4>8, <5>1 DEF Ledger!Settle
        <5> QED
          BY <3>1, <5>2 DEF Ledger!Next
      <4>9. CASE loc[c].answer # "success"
        BY <3>1, <4>7, <4>9 DEF Ledger!Next, Ledger!Reopen
      <4> QED
        BY <4>8, <4>9
    <3> QED
      BY <2>8, <3>3, <3>4 DEF Write
  <2> QED
    BY <1>4, <2>1, <2>4, <2>5, <2>6, <2>7, <2>8 DEF VerifierCalls
<1>5. ASSUME NEW c \in Clients, Abandon(c) PROVE [Ledger!Next]_(Ledger!ledger)
  <2>1. Return(c) /\ Book' = Book /\ Drawn' = Drawn /\ paid' = paid
    BY <1>5 DEF Abandon, Book, Drawn, rows, chain
  <2>2. CASE pc[c] \in VerifyPcs
    BY <1>3, <2>1, <2>2
  <2>3. CASE pc[c] \notin VerifyPcs
    BY <1>0, <2>1, <2>3, NoVerification, LedgerStutters DEF Return
  <2> QED
    BY <2>2, <2>3
<1>6. CASE Wallet
  <2>1. Book' = Book /\ Drawn' = Drawn /\ Late' = Late
    BY <1>6, LateKept DEF Wallet, Pay, Mine, Fail, rows, Book, Drawn
  <2>2. CASE paid' = paid
    BY <2>1, <2>2, LedgerStutters
  <2>3. CASE paid' # paid
    <3>1. PICK t \in TxIds : Mine(t) /\ paid' = paid \cup {txs[t].nonce}
      BY <1>6, <2>3 DEF Wallet, Pay, Mine, Fail
    <3>2. txs[t].nonce \in Nonces /\ Drawn[txs[t].nonce] # None
      BY <3>1, Parts DEF Mine, PendingIsDrawn, Drawn
    <3> QED
      BY <2>1, <3>1, <3>2 DEF Ledger!Next, Ledger!Pay
  <2> QED
    BY <2>2, <2>3
<1>7. CASE UNCHANGED vars
  BY <1>7, LateKept, LedgerStutters DEF vars, Book, Drawn
<1> QED
  BY <1>1, <1>2, <1>4, <1>5, <1>6, <1>7 DEF Next

\* The payment service, with its statements one by one and its answers of nodes,
\* implements the ledger: its users see requests open, settle and close as that says.
THEOREM Refinement == Spec => ImplementsLedger
<1>1. Init => Ledger!Init
  BY DEF Init, Ledger!Init, Ledger!Absent, Book, Drawn, Late, Verifying, NoRequest
<1>2. IInv /\ [Next]_vars => [Ledger!Next]_(Ledger!ledger)
  BY LedgerStep
<1> QED
  BY <1>1, <1>2, Invariance, PTL DEF Spec, ImplementsLedger, Ledger!Spec

-----------------------------------------------------------------------------
(* A request whose deletion stopped half way. *)

\* Its status is never written, its items never return and no call finds it to verify.
THEOREM HalfDeletedFrozen == Spec => HalfDeletedIsFrozen
<1> USE DEF VerifyPcs
<1>1. ASSUME IInv, Next, NEW r \in Requests, requests[r].live,
             \A n \in Nonces : items[n].live => items[n].request # r,
             \A c \in Clients : ~ Verifying(c, r)
      PROVE  /\ \A c \in Clients : ~ Verifying(c, r)'
             /\ \A n \in Nonces : items'[n].live => items'[n].request # r
             /\ requests'[r] = requests[r] \/ ~ requests'[r].live
  <2>1. requests[r].issuer # None
    BY <1>1, NoneAssumption, Parts DEF GoneIsBlank
  <2>2. requests'[r] = requests[r] \/ ~ requests'[r].live
    BY <1>1, <2>1, RequestStep DEF Verifying
  <2>3. ASSUME NEW n \in Nonces
        PROVE  items'[n].live => items'[n].request # r
    <3>1. CASE items' = items
      BY <1>1, <3>1
    <3>2. ASSUME NEW c \in Editors, NEW q \in Requests, NEW drawn \in [loc[c].config -> Nonces],
                 SavePaymentRequest(c, q, drawn)
          PROVE  items'[n].live => items'[n].request # r
      <4>1. q # r
        BY <2>1, <3>2 DEF SavePaymentRequest
      <4>2. items'[n] = items[n] \/ items'[n].request = q
        BY <3>2 DEF SavePaymentRequest
      <4> QED
        BY <1>1, <4>1, <4>2
    <3>3. ASSUME NEW c \in Editors, NEW q \in Requests, NEW i \in Issuers, DeleteItems(c, q, i)
          PROVE  items'[n].live => items'[n].request # r
      <4>1. items'[n].request = items[n].request /\ (items'[n].live => items[n].live)
        BY <1>1, <3>3, Parts, Zenon DEF DeleteItems, TypeOK, ItemRow
      <4> QED
        BY <1>1, <4>1
    <3> QED
      BY <1>1, <3>1, <3>2, <3>3 DEF Next, OptionCalls, CreatePaymentOption, DeletePaymentOption,
         EditorCalls, UpdatePaymentOption, CreatePaymentRequest, SaveUpdate, DeleteRow, VerifierCalls,
         VerifyPayment, AskTransaction, AskContract, AskContractFails, AskAccount, AskAgain, Write,
         Abandon, Wallet, Pay, Mine, Fail, rows
  <2>4. ASSUME NEW c \in Clients PROVE ~ Verifying(c, r)'
    <3>1. ASSUME NEW d \in Clients, NEW label, NEW l, GoTo(d, label, l),
                 label \in VerifyPcs => l.request # r
          PROVE  ~ Verifying(c, r)'
      <4>1. pc'[d] = label /\ loc'[d] = l
        BY <1>1, <3>1, Parts DEF GoTo, TypeOK
      <4>2. c # d => pc'[c] = pc[c] /\ loc'[c] = loc[c]
        BY <1>1, <3>1, Parts DEF GoTo, TypeOK
      <4> QED
        BY <1>1, <3>1, <4>1, <4>2 DEF Verifying
    <3>2. CASE UNCHANGED <<pc, loc>>
      BY <1>1, <3>2 DEF Verifying
    <3>3. ASSUME NEW d \in Clients, Return(d) PROVE ~ Verifying(c, r)'
      BY <3>1, <3>3 DEF Return
    <3>4. CASE \E d \in Editors : EditorCalls(d)
      BY <3>1, <3>3, <3>4 DEF EditorCalls, UpdatePaymentOption, CreatePaymentRequest, SaveUpdate,
         SavePaymentRequest, DeleteItems, DeleteRow, Clients
    <3>5. ASSUME NEW d \in Verifiers, VerifierCalls(d) PROVE ~ Verifying(c, r)'
      <4>0. d \in Clients /\ loc[d] \in Locals
        BY <1>1, Parts DEF Clients, TypeOK
      <4>1. ASSUME NEW n \in Nonces, NEW t \in TxIds \cup {None}, VerifyPayment(d, n, t)
            PROVE  ~ Verifying(c, r)'
        <5> DEFINE l == [NoLocals EXCEPT !.request = items[n].request, !.nonce = n, !.tx = t,
                                         !.read = requests[items[n].request].status]
        <5>1. l.request # r
          BY <1>1, <4>1 DEF VerifyPayment, NoLocals
        <5> QED
          BY <3>1, <4>0, <4>1, <5>1 DEF VerifyPayment
      <4>2. ASSUME pc[d] \in VerifyPcs, NEW answer, Answer(d, answer) PROVE ~ Verifying(c, r)'
        <5>1. [loc[d] EXCEPT !.answer = answer].request # r
          BY <1>1, <4>0, <4>2 DEF Verifying, Locals
        <5> QED
          BY <3>1, <4>0, <4>2, <5>1 DEF Answer
      <4>3. ASSUME pc[d] \in VerifyPcs, NEW label, GoTo(d, label, loc[d]) PROVE ~ Verifying(c, r)'
        BY <1>1, <3>1, <4>0, <4>3 DEF Verifying
      <4> QED
        BY <3>3, <3>5, <4>0, <4>1, <4>2, <4>3 DEF VerifierCalls, AskTransaction, AskContract,
           AskContractFails, AskAccount, AskAgain, Write
    <3> QED
      BY <1>1, <3>2, <3>3, <3>4, <3>5 DEF Next, OptionCalls, CreatePaymentOption, DeletePaymentOption,
         Abandon, Wallet, Pay, Mine, Fail
  <2> QED
    BY <2>2, <2>3, <2>4
<1>2. IInv /\ [Next]_vars =>
        [\A r \in Requests :
          /\ requests[r].live
          /\ \A n \in Nonces : items[n].live => items[n].request # r
          /\ \A c \in Clients : ~ Verifying(c, r)
          => /\ \A c \in Clients : ~ Verifying(c, r)'
             /\ \A n \in Nonces : items'[n].live => items'[n].request # r
             /\ requests'[r] = requests[r] \/ ~ requests'[r].live]_vars
  BY <1>1
<1> QED
  BY <1>2, Invariance, PTL DEF Spec, HalfDeletedIsFrozen

-----------------------------------------------------------------------------
(* The listing of requests. *)

\* A set of numbers has a least element: what an induction over a listing rests on.
LEMMA LeastElement ==
  ASSUME NEW T \in SUBSET Nat, T # {}
  PROVE  \E m \in T : \A k \in T : m <= k
<1>1. \E m \in T : \A k \in T : ~ (<<k, m>> \in OpToRel(<, Nat))
  BY NatLessThanWellFounded, WFMin
<1>2. \A x, y \in Nat : x < y => <<x, y>> \in OpToRel(<, Nat)
  BY DEF OpToRel
<1>3. PICK m \in T : \A k \in T : ~ (<<k, m>> \in OpToRel(<, Nat))
  BY <1>1
<1>4. ASSUME NEW k \in T PROVE m <= k
  <2>1. ~ (k < m)
    BY <1>2, <1>3
  <2> QED
    BY <2>1
<1> QED
  BY <1>4

\* The equation of the function that ListedNonce defines.
ShownStep(listing, g, k) ==
  IF k = 0 THEN None
  ELSE IF requests[listing[k]].paidNonce # None
       THEN requests[listing[k]].paidNonce
       ELSE g[k - 1]

\* Some function satisfies it up to any row: take the first row up to which none does.
LEMMA ListedNonceExists ==
  ASSUME NEW listing, NEW n \in Nat
  PROVE  \E g : g = [k \in 0..n |-> ShownStep(listing, g, k)]
<1> DEFINE T == {m \in Nat : ~ \E g : g = [k \in 0..m |-> ShownStep(listing, g, k)]}
<1>1. SUFFICES ASSUME T # {} PROVE FALSE
  OBVIOUS
<1>2. PICK m \in T : \A k \in T : m <= k
  BY <1>1, LeastElement
<1>3. CASE m = 0
  <2>1. [k \in 0..0 |-> None] = [k \in 0..0 |-> ShownStep(listing, [j \in 0..0 |-> None], k)]
    BY DEF ShownStep
  <2> QED
    BY <1>2, <1>3, <2>1
<1>4. CASE m # 0
  <2>1. m - 1 \in Nat /\ m - 1 \notin T
    BY <1>2, <1>4
  <2>2. PICK g : g = [k \in 0..(m - 1) |-> ShownStep(listing, g, k)]
    BY <2>1
  <2> DEFINE h == [k \in 0..m |-> IF k = m THEN ShownStep(listing, g, m) ELSE g[k]]
  <2>3. h = [k \in 0..m |-> ShownStep(listing, h, k)]
    <3>1. ASSUME NEW k \in 0..m PROVE h[k] = ShownStep(listing, h, k)
      <4>1. k # 0 => k - 1 \in 0..m /\ k - 1 # m /\ h[k - 1] = g[k - 1]
        BY <1>2
      <4>2. k # m => k \in 0..(m - 1) /\ g[k] = ShownStep(listing, g, k)
        <5>1. ASSUME k # m PROVE k \in 0..(m - 1)
          BY <5>1
        <5>2. ASSUME NEW j \in 0..(m - 1) PROVE g[j] = ShownStep(listing, g, j)
          <6>1. \A f : f = [i \in 0..(m - 1) |-> ShownStep(listing, g, i)] => f[j] = ShownStep(listing, g, j)
            OBVIOUS
          <6> QED
            BY <2>2, <6>1
        <5> QED
          BY <5>1, <5>2
      <4> QED
        BY <4>1, <4>2 DEF ShownStep
    <3> QED
      BY <3>1
  <2> QED
    BY <1>2, <2>3
<1> QED
  BY <1>3, <1>4

\* So the nonce that the loop shows for a row is given by the row and the one before.
LEMMA ListedNonceStep ==
  ASSUME NEW listing, Len(listing) \in Nat, NEW k \in 0..Len(listing)
  PROVE  ListedNonce(listing)[k] = ShownStep(listing, ListedNonce(listing), k)
<1>1. ListedNonce(listing) = CHOOSE g : g = [j \in 0..Len(listing) |-> ShownStep(listing, g, j)]
  BY DEF ListedNonce, ShownStep
<1> QED
  BY <1>1, ListedNonceExists

\* A listing is a sequence of rows of the table.
LEMMA ListingLength ==
  ASSUME NEW i \in Issuers, NEW s \in Listings(i)
  PROVE  /\ Len(s) \in Nat /\ DOMAIN s = 1..Len(s)
         /\ \A k \in DOMAIN s : s[k] \in Requests /\ requests[s[k]].live
<1> DEFINE found == {r \in Requests : requests[r].live /\ requests[r].issuer = i}
<1>1. Cardinality(found) \in Nat
  BY RequestsAssumption, FS_Subset, FS_CardinalityType
<1>2. s \in [1..Cardinality(found) -> found]
  BY DEF Listings
<1> HIDE DEF found
<1>3. s \in Seq(found) /\ Len(s) = Cardinality(found)
  BY <1>1, <1>2
<1> QED
  BY <1>1, <1>2, <1>3 DEF found

\* What GetAllPaymentRequests shows for a row, because its variable is not reset: the nonce
\* that paid the row, else that of the last paid row before it in the listing, and nothing
\* only where no row so far is paid.
THEOREM ListingShows ==
  ASSUME NEW listing, Len(listing) \in Nat, NEW k \in 0..Len(listing)
  PROVE  \/ /\ ListedNonce(listing)[k] = None
            /\ \A j \in 1..k : requests[listing[j]].paidNonce = None
         \/ \E j \in 1..k :
              /\ ListedNonce(listing)[k] = requests[listing[j]].paidNonce
              /\ requests[listing[j]].paidNonce # None
              /\ \A i \in (j + 1)..k : requests[listing[i]].paidNonce = None
<1> DEFINE Shows(m) ==
       \/ /\ ListedNonce(listing)[m] = None
          /\ \A j \in 1..m : requests[listing[j]].paidNonce = None
       \/ \E j \in 1..m :
            /\ ListedNonce(listing)[m] = requests[listing[j]].paidNonce
            /\ requests[listing[j]].paidNonce # None
            /\ \A i \in (j + 1)..m : requests[listing[i]].paidNonce = None
           T == {m \in 0..Len(listing) : ~ Shows(m)}
<1>1. SUFFICES ASSUME T # {} PROVE FALSE
  OBVIOUS
<1>2. PICK m \in T : \A j \in T : m <= j
  <2>1. T \in SUBSET Nat
    OBVIOUS
  <2> QED
    BY <1>1, <2>1, LeastElement
<1>3. m \in 0..Len(listing) /\ ~ Shows(m)
  BY <1>2
<1>4. ListedNonce(listing)[m] = ShownStep(listing, ListedNonce(listing), m)
  BY <1>3, ListedNonceStep
<1>5. m # 0
  BY <1>3, <1>4 DEF ShownStep
<1>6. m - 1 \in 0..Len(listing) /\ Shows(m - 1)
  BY <1>2, <1>3, <1>5
<1>7. CASE requests[listing[m]].paidNonce # None
  BY <1>3, <1>4, <1>5, <1>7 DEF ShownStep
<1>8. CASE requests[listing[m]].paidNonce = None
  <2>1. ListedNonce(listing)[m] = ListedNonce(listing)[m - 1]
    BY <1>4, <1>5, <1>8 DEF ShownStep
  <2>2. \A i \in 1..m : i \in 1..(m - 1) \/ i = m
    BY <1>3
  <2> QED
    BY <1>3, <1>5, <1>6, <1>8, <2>1, <2>2
<1> QED
  BY <1>7, <1>8
\* Whatever the order of the rows, a paid request is listed with the nonce that paid it.
THEOREM ListingCorrect == Spec => []ListedSuccess
<1>1. IInv => ListedSuccess
  <2> SUFFICES ASSUME IInv, NEW i \in Issuers, NEW s \in Listings(i), NEW k \in DOMAIN s,
                      requests[s[k]].status = "success"
               PROVE  /\ ListedNonce(s)[k] \in paid
                      /\ items[ListedNonce(s)[k]].request = s[k]
    BY DEF ListedSuccess
  <2>1. Len(s) \in Nat /\ k \in 1..Len(s) /\ s[k] \in Requests
    BY ListingLength
  <2>2. /\ requests[s[k]].paidNonce # None
        /\ requests[s[k]].paidNonce \in paid /\ items[requests[s[k]].paidNonce].request = s[k]
    BY <2>1, Parts DEF SuccessIsPaid
  <2>3. ListedNonce(s)[k] = requests[s[k]].paidNonce
    BY <2>1, <2>2, ListedNonceStep DEF ShownStep
  <2> QED
    BY <2>2, <2>3
<1> QED
  BY <1>1, Invariance, PTL

=============================================================================

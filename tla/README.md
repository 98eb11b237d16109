# Verification of the issuer node

TLA+ models of the issuer node in `src/issuer-node` (and of the small functions around it),
TLC configurations that check them on small instances, and theorems checked by TLAPS.
Paths below are relative to `src/issuer-node/` unless they say otherwise.

The node issues verifiable credentials for one or more *issuers* (DIDs). Each issuer has three
merkle trees (claims, revocations, roots); the hash of their roots is its *identity state*, and
the State contract on a blockchain keeps the issuer's current one. A credential with a merkle tree
proof (MTP), and every revocation, counts for verifiers only when a state that contains it
is on the chain. Getting it there takes a database, three processes, a node and a contract that do
not share a transaction; that is the core of the system and its largest model here. Around it are modelled the
services whose calls overlap on the same rows: credentials and their revocation, links, payments, and the events that tell the wallets.

## Inventory

| Component | State it keeps | Operations | Talks to |
|---|---|---|---|
| State publisher, `internal/gateways/publisher.go`, `publisher_gateway.go`, `transaction.go`, `internal/api/state.go` | the map `pendingTransactions`; one goroutine per transaction | PublishState, RetryPublishState, CheckTransactionStatus | identity and credentials services, KMS, prover, contract, pub/sub |
| Status checker, `cmd/pending_publisher` | a ticker | CheckTransactionStatus | the same database, from another process |
| Identity service, `internal/core/services/identity.go` | `identities`, `identity_states` | create, UpdateState, UpdateIdentityState, GetFailedState, authentication | trees, claims, revocations, hash service |
| Credentials service, `internal/core/services/claims.go` | `claims` | Save, Revoke, RevokeAllFromConnection, Delete, UpdateClaimsMTPAndState | trees, pub/sub |
| Revocation, `internal/repositories/revocation.go` | `revocation` | RevokeNonce, UpdateStatus | |
| Merkle trees, `internal/core/services/mt.go`, `internal/core/domain/IdentityMerkleTrees.go` | `identity_mts`, `mt_nodes`, `mt_roots` | load, AddClaim, RevokeClaim, GenerateProof | the database, through an external library that caches the root it loads |
| TTL map, `internal/syncttlmap` | entries with an expiry | Store, Load, Delete, hourly cleaner | |
| Ethereum client, `internal/eth` | | send, wait for receipt and blocks | node, State contract |
| Links, `internal/core/services/link.go` | `links`; what they issued is counted in `claims` | Save, Activate, IssueOrFetchClaim, Delete | credentials service |
| Connections and sessions, `internal/core/services/connections.go`, `internal/repositories/session.go` | `connections`, cached sessions | authenticate, delete with credentials or revocation | credentials service, pub/sub |
| Payments, `internal/core/services/payment.go` | payment requests and options | create, VerifyPayment, delete | chain |
| API keys, `internal/core/apikey` | keys, events | create, authenticate, Rotate, revoke | |
| Notifications, `internal/pubsub`, `cmd/notifications` | | publish, subscribe, send | Redis or Valkey, push gateway |
| E-number function, `src/supabase/functions/enumber_to_did` | `enumbers` | create an identity for a number, save its DID | the node's API |
| Keys and KMS, schemas, display methods, QR store, caches, hash service, prover, packers, network resolver, health, generated API, UI, deployment | | | |

What is hard in it:

* **Interleaving.** Requests of one process, the goroutines they leave behind, the checker of another process,
  and issuing and revoking clients work on the same rows, without row locks and at READ COMMITTED.
* **Partial failure.** A publication is a dozen statements, one chain call and one proof; each may fail, and what came before stays.
* **Lost answers, dropped transactions, restarts.** The node may take a transaction whose answer the issuer never sees.
* **Stale copies.** The checker, `revoke` and `publishState` write rows back from copies they read earlier.
* **Ordering.** `revoke` changes the tree before the row, `UpdateState` reads the tree before the rows.

What makes the components correct: the database never claims more than the chain has (publisher); a proof handed out
verifies (credentials); tree, row and state agree (identity service); the issuer keeps a way to sign, and a revocation
stays and reaches the chain (revocation); a link issues at most its maximum and once per user, as far as calls that overlap allow (links); a
paid request is paid and stays so (payments); an offer or a notice finds its wallet, and only that (notifications). Not stated as properties:
a partner always has a working key (API keys); an e-number has at most one identity in use (function). All hazards, each with its
line and the properties that would notice it, are in `PROJECT.json`.

## Modules

| Module | What it is | Its runs | Its proofs |
|---|---|---|---|
| `StatePublisher` | the publisher, the checker, UpdateState, revocation and the contract | `MCStatePublisher` | `StatePublisherProofs`, `UpdateStateProofs`, `PublicationProofs`, `SequentialProofs` |
| `StateLedger` | what publications promise: the abstract specification that `StatePublisher` implements | `MCStatePublisher` | `StatePublisherProofs` |
| `Revocation` | revoking and deleting credentials and keys, and what is left to sign with | `MCRevocation` | `RevocationProofs` |
| `Links` | links, their callbacks and their listings | `MCLinks` | `LinksProofs` |
| `Payments` | payment options, requests and their verification | `MCPayments` | `PaymentsProofs` |
| `PaymentLedger` | what payments promise: the abstract specification that `Payments` implements | `MCPayments` | `PaymentsProofs` |
| `Notifications` | connections, credentials, events and the process that pushes | `MCNotifications` | `NotificationsProofs` |

An MC module gives the symmetry, and the sets that a .cfg cannot write, to TLC. A proof module EXTENDS the module it is about and TLAPS;
`UpdateStateProofs` extends `StatePublisherProofs`, `PublicationProofs` that, and `SequentialProofs` that again.

How they fit: `StatePublisher` has publication in detail and a revocation as one client of it. `Revocation` and
`Notifications` have a publication as one step (what `StatePublisher` shows a confirmed one to be) and go into what surrounds it. `Links`
and `Notifications` share the callback: `Links` has how a credential comes of it, `Notifications` the connection it makes. `Payments` shares no
row with any of them.

Every module breaks a call at its database statements and external calls, keeps what the call holds in memory in `loc`, and lets it end
between any two of them (`Abandon`, or the failures of `StatePublisher`): a database error, a client that hangs up, a restart.
The definitions that begin with the comment "Faulty" are variants no specification uses: each is a plausible bug of the definition after it,
kept to show that a property would notice it.

### StatePublisher: state

Everything the code touches in a publication is keyed by the issuer's DID, so one issuer is modelled.

| Variable | Code |
|---|---|
| `states`, `nStates` | `identity_states`, in the order of `state_id`. Since (identifier, state) is unique, the number also names the state, which stands for its two trees: `claims` and `revs` are the leaves under its claims and revocation roots. The roots tree is determined by them, except for genesis, whose roots tree is empty and whose number no later state takes |
| `credentials` | `claims`: in no state or in one, its MTP proof (the state in its label and the tree its path was made in), `revoked` |
| `revocation` | `revocation`: none, pending or published |
| `claimsTree`, `revTree` | the leaves of the two trees as saved |
| `txs`, `nTxs`, `chain`, `onChain` | transactions sent, the contract's current state of the issuer and all it ever had |
| `pending` | a live entry of `pendingTransactions` |
| `pc`, `loc` | where each publish or retry request is, and its locals |
| `job` | the goroutine of a transaction, and the checker's copy of its row, each with its progress through `updateIdentityStateTxStatus` |
| `revoker` | a `revoke` under way, with its copy of the row |
| `announced`, `notified` | events published (history, for properties) |

### StatePublisher: actions

* `Issue` — `Save` of the claims service.
* `Begin`, `Store`, `Release` — the three calls on `pendingTransactions` in PublishState and RetryPublishState. Load and Store are separate steps, as they are in the code.
* `CheckUnprocessed`, `UpdateStateBegin`, `UpdateStateCommit` — publishState up to UpdateState. UpdateState is one
  database transaction, but at READ COMMITTED: `UpdateStateBegin` loads the trees and the first list of credentials,
  `UpdateStateCommit` is the rest with its second list and the commit. What commits in between is seen by the second only (the fault `phantom`).
* `FailedState` — GetFailedState, for a retry.
* `ReadLatest`, `Send`, `Record`, `MarkFailed`, `PublishFails` — publishProof, and what its two callers do about an error.
* `RequestFails` — any statement or call of a request failing.
* `Mine`, `Drop` — the node and the contract (external): a state is accepted on top of the current one and only once, and the
  account's transactions are mined in the order of their nonces. Whether the node refuses a transaction beforehand depends on the network: a gasless one
  has a fixed gas limit and no estimate (`internal/eth/client.go:355`), another is asked for an estimate (`:343`) on its latest or its pending state.
  `MayBeRefused` covers them: what would succeed now, with nothing in flight, is sent; anything else may be sent or refused.
* `Scan` — CheckTransactionStatus up to its loop.
* `Receipt`, `NoReceipt`, `WriteProofs`, `Confirm`, `Event`, `Revert`, `JobFails` — the goroutine and checkStatus, which share
  updateIdentityStateTxStatus. UpdateClaimsMTPAndState is not a transaction: it may stop after any of its UPDATEs,
  and since its error is shadowed (`publisher.go:444-445`) the notifications follow.
* `RevokeTree`, `RevokeReread`, `RevokeSave`, `RevokeFails` — `revoke`: the nonce into the tree, the row read again, and row and revocation saved.
* `CrashPlatform` — the platform restarts. The checker is another process; its crash is `NoReceipt` or `JobFails` between its statements, followed by the next Scan.
* `Expire` — the entry's 60 seconds are over, or the hourly cleaner, which deletes the entries that have *not* expired, passes by.

`Faults` says what the environment may do in a run; each fault is a guard `May(f)` on the step it enables.

### StateLedger

`StateLedger` is a publication without databases, requests, goroutines and the checker. States are made one after the other, each of other trees; one is sent on top
of a state the contract has or had, and accepted once, on top of the present one; what was accepted may be confirmed, proven of credentials and announced, in any order and
any number of times. Its two weaknesses are stated in it: a confirmation may be taken back (`failed_on_chain` does so), and a credential may get back an
older proof from the copy of its row that a revocation holds.
The refinement (`ImplementsStateLedger`): `Trees` is the rows without their status; `Sent` the transactions that reached the node, by their old and new state, whatever became of them;
`Confirmed` the rows with that status; `Labels` the state in each MTP proof; `Held` those in the copies of revocations. Requests, watchers, the entry of
`pendingTransactions`, statuses other than confirmed, failures and restarts are stutters, except that a restart lets go of the copies.

### Revocation

State: `claims`, `revocation` and `keys` (the KMS) as tables; `leaves`, the indexes under the claims root; `tree`, the nonces under the committed
revocation root, with `owner` and `txTree` for the root that an open transaction has written; `chain`, the nonces revoked by the published state;
`pc`, `loc` per call. Histories: `lost`, `erased`, `overlapped`, `raced` record the events that a property has to except.

* `Revoke`, `LoadTrees`, `RevokeClaim`, `Reread`, `SaveRevoked` — `Revoke` of the claims service: canRevokeNonce, the trees loaded, the leaf added under the
  root *that was loaded*, the rows of the nonce read again, and rows and revocation saved in a transaction of their own.
* `RevokeAllFromConnection`, `RevokeNext`, `CommitAll` — the same for each credential of a connection, with the trees, and only they, in one transaction.
* `Delete`, `DeleteRow` — `Delete`, published or not; `DeleteKey`, `RemoveKey` — `Delete` of the key service.
* `Issue`, `CreateKey`, `CreateAuthCredential`, `Publish` — what makes credentials, keys and states. `Publish` asks for a key that signs, as
  GetAuthClaimsForPublishing does, and fails as a whole if one new credential's index is a leaf already.

### Links

State: `links` (row, active, whether it has its authorization request), `expired`, `claims` with their link, `pc`, `loc`. There is no counter:
issued_claims is `count(claims.id)` in the query.

* `CreateLink`, `ShowLink` (GetByID sets the request), `Activate`/`SaveActive` (read and upsert), `DeleteLink` (one transaction: the credentials cut off, the link deleted), `Expire`.
* `ProcessCallBack`, `ReadLink`, then `Fetch` or `Create`, `SaveLink`, `SaveClaim` — ProcessCallBack and IssueOrFetchClaim. The transaction opened around the last two
  is used by neither.
* `Revoke`, `DeleteCredential` — as far as a link sees them: GetByRevocationNonce does not select link_id, so a revoked credential loses its link.
* `Status`, `Listed`, `Validate` — the three places that decide whether a link is active: Go for the status, SQL for the listing, Go for the callback.

### Payments and PaymentLedger

State: the three tables, with a deleted row kept as not `live` (for the properties; the code never sees it); `txs` and `paid`, the chain of a rail as the service uses it
(external); `pc`, `loc`.

* `CreatePaymentOption`, `UpdatePaymentOption`/`SaveUpdate` (read and upsert), `DeletePaymentOption` (the foreign key keeps one with requests).
* `CreatePaymentRequest`/`SavePaymentRequest`, and `DeleteItems`/`DeleteRow`: two autocommitted statements.
* `VerifyPayment`, `AskTransaction`, `AskContract`, `AskContractFails`, `AskAccount`, `AskAgain`, `Write` — verification on an EVM chain and on Solana. What is written is decided on
  the status read before the chain was asked.
* `ListedNonce`, `Listings` — the loop of GetAllPaymentRequests, in every order the query may give.
* `Pay`, `Mine`, `Fail` — wallets and chain (external). A contract takes a nonce once.

`PaymentLedger` is a book: requests are opened with nonces of their own, nonces are paid, a request is settled with a nonce of its own that is
paid, and closed for good. Its only weakness is stated in it: a verification that began before the request was settled may open it again.
The refinement (`ImplementsLedger`): `book` is the rows read as absent, open, settled or closed, with the paid nonce; `drawn` the request of each item; `late` the requests of
which a verification under way read a status other than success.

### Notifications

State: `connections` (unique by user), `claims`, `states`; `pc`, `loc`; `announcing`, what the watcher of the last transaction has yet to publish; `up`, whether the process
is subscribed; `topics`, what it has received; `handling`, whom the goroutine of each topic is to push what. Histories: `spent`, `due`.

* `SaveConnection`, `Authenticate`, `AuthenticateForLink`, `CreateConnection`, `DeleteConnection`, `DeleteCredentials` — identity and connections services.
* `Issue`/`AnnounceClaim`, `IssueByLink`, `Revoke`, `Delete` — credentials; a row comes before its event.
* `PublishState`, `AnnounceBatch`, `AnnounceState`, `Forget` — a confirmed state, and the watcher that announces it.
* `HandleCredential`, `HandleConnection`, `HandleState`, `PushOffer`, `PushNotice`, `GiveUpNotices`, `Stop`, `Start` — the notifications process: one goroutine per topic, which handles its messages in order.
* `Publish`, `Lose` — the bus: a message reaches the process if it is subscribed, or nobody; the publisher logs an error at most.

## Runs

Run one with `tlc -config <run>.cfg <its MC module>.tla`: `MCRevocation`, `MCLinks`, `MCPayments` and `MCNotifications` have one each of the same name,
the others are of `MCStatePublisher`. `CHECK_DEADLOCK FALSE` everywhere: clients may stop asking,
and the bounds on rows and transactions make the last request wait for ever.

| Run | Instance and faults | Checks | States |
|---|---|---|---|
| `publish` | 3 credentials (2 with MTP), 1 request at a time, 4 rows, 4 transactions; network fails, goroutines give up, entries expire, transactions drop | `ProofFitsState`, `DbFollowsChain`, `OneTxInFlight`, `ConfirmedIsFinal` | 3,298 |
| `failures` | 2 credentials, 1 revocable, 1 request, 3 rows, 2 transactions; lost answers, database errors, restarts, both watchers, rows that appear in the middle of UpdateState | `IInv`, `NotifiedIsOnChain`, `NothingUnpublished` | 168,261 |
| `concurrent` | 1 revocable credential, 2 requests at once (symmetric), both watchers | `ConfirmedIsAnchored`, `ProofMeansOnChain`, `LeafIffAssigned`, `RevocationsReachState`, `ImplementsStateLedger` | 227,092 |
| `anchor` | 2 credentials, fair; goroutines give up, both watchers | `EveryCredentialAnchored` | 836 |
| `settle` | 1 credential, fair; lost answers, goroutines give up, restarts | `EntryReleased`, `TransactedSettles` | 209 |
| `revocation` | the genesis credential and 2 more, 2 keys, 2 nonces that may be shared, 2 calls at once | `TypeOK`, `AuthRemains`, `SigningKeyKept`, `RevokedIsLeaf`, `NoSecondLeaf`, `RevokedForGood` | 2,801,146 |
| `links` | 1 link of at most 2 credentials, 2 users, 4 credentials, 2 calls at once | `TypeOK`, `OvershootIsBounded`, `DuplicatesAreBounded`, `LinkedToRow`, `ListingAgrees`, `FetchedIsNotRevoked`, `DeactivationHolds`, `DeletionHolds` | 140,508 |
| `payments` | 2 issuers, 1 option, 2 requests, 2 nonces, an EVM chain and Solana, 1 transaction; a call of any kind and a second verification at once | `TypeOK`, `SuccessIsPaid`, `RequestMatchesOption`, `ListedSuccess`, `SuccessIsKept`, `HalfDeletedIsFrozen`, `ImplementsLedger` | 1,539,345 |
| `notifications` | 2 users, 2 credentials with a signature or an MTP proof, 1 connection id, 1 state, 1 call, the watcher and the three goroutines | `TypeOK`, `NoOfferForgotten`, `PushedToSubject`, `NoNoticeForgotten` | 1,162,699 |
| `failed_on_chain` | 1 revocable credential, no faults | `FailedTransactionFailed`, **violated** | |
| `revocation_lost` | 1 revocable credential, rows in the middle of UpdateState | `PublishedIsOnChain`, **violated** | |
| `retry_refused` | 1 credential, lost answers | `RetryPublishes`, **violated** | |

States are distinct states, up to the symmetry of callers and of rows that nothing tells apart.

**Bounds.** A hazard of the publisher needs at most: a state on the chain, a second one built on it or beside it, and a third to observe the
damage. Three rows beyond or including genesis and two or three transactions give all of these; `publish`, whose state space is small, has one more of
each. Two credentials are enough for one to be in the state and one on its way; the third of `publish` has no MTP and stays in no state for good, which is
what keeps HasUnprocessedStatesByID true. A request starts only when a row and a transaction are left (`Begin`); one already under way
that finds none takes the error path the code has anyway, so the bounds add no behaviour.

In the other modules a hazard takes two calls that overlap, on rows that they share. `revocation` has two calls, a credential to remove, one to keep, and one of a
connection; two nonces are enough for credentials to have the same and different ones. `links` has a maximum that two calls can pass by one
(4 credentials leave room to do so, and a second one for a user). `payments` has a request whose verification is late and one to confuse it with, under one option of one or
the other issuer; two nonces are enough for two requests on a rail of their own. `notifications` needs two credentials for a message about several and two users for two
batches of a state; one call at a time is enough, since the watcher, the three goroutines and the rows are concurrent with it. The theorems below hold without these bounds.

**Which assumption each property needs.** These are facts about the code, found while the runs were chosen:

* `ConfirmedIsAnchored`, `ProofMeansOnChain`, `NotifiedIsOnChain` and `ImplementsStateLedger` hold under every fault and any number of requests (proved below).
* `ProofFitsState`, `ConfirmedIsFinal`, `DbFollowsChain` and `OneTxInFlight` hold for requests one at a time: they rest on HasUnprocessedStatesByID, which refuses to start while a
  row is transacted or failed, and two requests past the check of `pendingTransactions` break each of them. What else each needs (proved below, and each omission is a counterexample of TLC's):
  `ProofFitsState` that goroutine and checker do not follow the same transaction and that no credential appears in the middle of UpdateState, but it survives lost answers, database errors, restarts and revocations;
  `ConfirmedIsFinal` only that nothing is revoked (a revocation at the wrong moment breaks it, see `failed_on_chain`); `DbFollowsChain` and `OneTxInFlight` no lost answer, no failed
  database call, no restart and no revocation, but they survive both watchers and rows in the middle (a revocation breaks `OneTxInFlight` only in combination with these).
* `NothingUnpublished` holds for one request at a time under every fault (proved below). With two and no fault at all it does not: a request that has made its
  state and is overtaken before it reads the latest one sends an older state on top of a newer, and a revocation the chain had is undone.
* `LeafIffAssigned` and `RevocationsReachState` hold with two requests, but not when credentials or revocations commit in the middle
  of UpdateState (`revocation_lost`).
* `AuthRemains` holds as long as no two calls pass canRevokeNonce at once for authentication credentials (`overlapped`): the count and the removal are separate.
  `RevokedIsLeaf` excepts a leaf that another root overwrote and one rolled back (`lost`); `SigningKeyKept` the first, and a key deleted in the middle of a creation or a revocation
  (`raced`); `NoSecondLeaf` a published credential whose row was deleted or written back without its state (`erased`).
* `OvershootIsBounded` and `DuplicatesAreBounded` are exact for one callback at a time and miss by at most one for each further one. `DeactivationHolds` and `DeletionHolds` start when
  the calls that read the link before are over.
* `SuccessIsKept` starts when every verification under way read the request as paid; before that, a slow answer may undo it. `SuccessIsPaid`, `RequestMatchesOption` and `ListedSuccess` need nothing.
* `NoOfferForgotten` and `NoNoticeForgotten` except what is in `spent` or no more in `due`: swallowed by a lost event, a stopped process, a credential deleted from the same message, a
  connection without an event, a loop that gave up. `PushedToSubject` needs nothing.

### Disagreements found

1. `failed_on_chain` — no fault needed. `revoke` writes the tree before the row. A publication in between anchors the nonce and is confirmed; the next one finds only
   the late row, computes the same state, is refused as unchanged, and publishState marks the confirmed row `failed`. The issuer's latest confirmed state is then
   no longer the contract's and its later transactions revert. `identity_state.go:22` says failed is the status of a failed transaction.
2. `revocation_lost` — `RevPublished` is documented as "published on chain" but set in UpdateState from what is pending then, after the trees were loaded.
   A nonce revoked in between is marked published, is on no chain, and triggers no publication.
3. `retry_refused` — the API says the retry endpoint serves after a failed publication. If the node took the transaction and the answer was lost, the retried state is
   refused by the contract for ever, and the failed row blocks new publications.

What the properties had to except, and what was met beside them. No document says otherwise, so these are not listed as findings:

* *Revocation.* Two credentials of a connection with the same nonce make RevokeAllFromConnection fail at the second, every time, with the rows revoked and the leaf rolled back.
  A root written over another can undo a revocation the chain has. A published authentication credential deleted, and one of the same key created, make every further UpdateState fail.
  Revoking a nonce no credential has leaves it in the tree.
* *Links.* The filter "exceeded" lacks parentheses around its OR and lists other issuers' links (`internal/repositories/link.go:180`). A link that is full refuses also a user
  who has its credential. That the query for what a user has does not ask for revoked credentials is harmless only because revocation loses the link.
* *Payments.* The listing may show for an unpaid request the nonce of the row before it (`internal/repositories/payment.go:258-289`). Items are deleted whoever's request they
  are of, and a deletion that stops half way leaves a request that cannot be read or verified. An update that was under way brings a deleted option back.
  A transaction named by the caller is of any nonce; the contract is asked about the right one, so nothing follows from it.
* *Notifications.* A wallet hears of a revocation only if its credential was revoked before its own state was announced, and may do so before a state with the revocation is on the chain.
  A connection made by the issuer, or whose authentication broke off, has no event later (`internal/core/services/identity.go:492-511`). Offers and notices are on
  different topics and may arrive reversed.

### Fairness

Only `StatePublisher` has liveness: the other services do nothing by themselves and retry nothing. Its `FairSpec` assumes weak fairness of what runs by itself: the steps of a request (a handler runs to its end), of a goroutine and of the checker (a
ticker calls it again and again), and of mining. `Receipt` is strongly fair: the goroutine and the checker may each give up and come back, but a checker that asks again and again is
answered some time. `Begin` is strongly fair: publication is driven by clients (a UI button or a scheduled call), and
"a credential is anchored" only makes sense if someone keeps asking. Nothing is assumed of faults, of issuing or revoking; a dropped transaction (`drop`) is
therefore outside `anchor` and `settle`, since such a row does stay transacted: neither watcher ever finds a receipt.

## Proofs

`tlapm <module>.tla` checks each, for every value of the constants, from the assumptions named in the module it is about: of the publisher that what is issued with an MTP proof or may be revoked is a
credential, that the bounds are numbers and the faults known ones; of the others that what is counted is finite and that `None` is nothing else. Every safety property of a
passing run is proved, and both refinements.

| Module | Theorems, each `Spec => []...` or `Spec => [][...]_vars` |
|---|---|
| `StatePublisherProofs` | `Invariance`, `TypeCorrect`, `ConfirmedAnchored`, `ProofsOnChain`, `NotifiedOnChain`, `LedgerRefinement` |
| `UpdateStateProofs` | if `"phantom" \notin Faults`: `LeavesAssigned`, `RevocationsReach` |
| `PublicationProofs` | if `OneRequest`: `NothingTakenBack`, `NoRollback` |
| `SequentialProofs` | if `WatchersApart`: `ProofsFit`; if `NothingRevoked`: `ConfirmedFinal`; if `Undisturbed`: `DatabaseFollows`, `OneInFlight` |
| `RevocationProofs` | `TypeCorrect`, `AuthKept`, `KeyKept`, `RevokedCorrect`, `NoSecondLeafCorrect`, `RevokedStays`; for one call at a time `OneCallKeepsAuth` |
| `LinksProofs` | `TypeCorrect`, `OvershootBounded`, `DuplicatesBounded`, `LinkedCorrect`, `FetchedCorrect`, `ListingCorrect`, `DeactivationCorrect`, `DeletionCorrect`; for one callback at a time `OneCallbackExact` |
| `PaymentsProofs` | `TypeCorrect`, `SuccessCorrect`, `OptionsCorrect`, `ListingShows`, `ListingCorrect`, `SuccessKept`, `HalfDeletedFrozen`, `Refinement`; for one verification at a time `OneVerifierKeeps` |
| `NotificationsProofs` | `TypeCorrect`, `OffersCorrect`, `PushedCorrectly`, `NoticesCorrect` |

Each module first proves an inductive invariant, with one lemma per conjunct and in each one step per action that can disturb it; every property follows from it or, for an action property,
from it and a step.

**`StatePublisherProofs`.** `ConfirmedIsAnchored` alone is not inductive. A row is confirmed by a watcher that looked at a receipt some steps ago, from a copy of the row: `WatchersSound` says
a watcher past the receipt follows a transaction that succeeded. It stays so because a transaction's number is used once
and a success is for good (`TxsSound`, lemma `AcceptedStays`), and the row named by a transaction exists (`RequestsSound`). `ProofMeansOnChain`
must survive revocations that write whole rows back: `CopiesSound` says the same of their copies. `NotifiedIsOnChain` needs `RowsStay`:
a credential that was notified of keeps its row, so that only a revocation's copy can take it out of its state. `IInv` is the conjunction, checked by
`failures` first.

`LedgerRefinement` maps each step to one of `StateLedger` or to a stutter: UpdateState's commit to `Make` (a row that is found is a stutter), a send that reaches the node to `Send`, mining to `Accept`, the
watchers to `Prove`, `Confirm`, `Announce` and `Retract`, a request that writes `transacted` or `failed` over a row to `Retract`, and a revocation to `Hold`, `Restore` and `LetGo`.
Beside `IInv` it needs `LedgerFits`: what a request sends was made, on top of a state the contract has had (the row that was confirmed when it was read was on the chain then), and a credential that
has no row has no proof. That rests on one lemma about where a request has its row from (`LateSteps`).

**`PublicationProofs`.** With requests one at a time and *every* fault the rows are not in order: a row may be failed while its transaction is in flight, retried, followed
twice and confirmed late. What remains true is that nothing old is ever sent that the contract could still take: whatever a request, a failed or transacted row or a watcher may lead to is the newest state or one the
contract has had (`Current`; `RequestsCurrent`, `RowsCurrent`, `JobsCurrent`), and a new row is made only when everything before it is settled (`SettledFirst`, which is
HasUnprocessedStatesByID). So the contract takes states in their order (`ChainGrows`, theorem `NoRollback`), and as each has the leaves of those before it (`TreesGrow`, `UpdateFits`) nothing is taken back.
`GInv` is the conjunction. TLC checked it under all faults before; with two requests it fails, as `NothingUnpublished` does.

**`UpdateStateProofs`.** An UpdateState between its two reads holds the tree with every credential that is in no state, and the revocation tree (`UpdatesSound`): without rows that appear in between, what it
loaded is what it marks. A credential in a state is a leaf (`RowsSound`), the copy a revocation holds agrees with the row (`HeldSound`), and what is pending or being revoked is in the tree (`RevokersSound`).

**`SequentialProofs`.** All three assumptions have `OneRequest`. `WatchersApart` adds that neither overlap nor phantom is among the faults, `NothingRevoked` that nothing is revocable, and
`Undisturbed` to the latter that lost, db and crash are not among the faults. Three invariants, each on top of `GInv`:

* `PInv`, for `ProofsFit`. At most one row is on its way, and a request that is about to send has no other (`OneOpen`); its leaves are those of the tree (`ClaimsFit`), as UpdateState makes no further one
  meanwhile; and a watcher that may still write is the only one and its transaction that of the row (`OneFollower`, `Carried`). So the tree a watcher takes its paths from is that of its state. `ProofsInOrder` is the property for revocations' copies too.
* `FInv`, for `ConfirmedFinal`. After a lost answer the issuer may no longer know the chain: nothing it sends is then accepted again and the rows are in no order, but nothing is confirmed any more either. So the invariant is
  conditional: as long as the issuer knows the contract's state or has its transaction in hand (`Known`), what it sends is on top of the chain and nothing has been refused (`KnownFits`); as long as nothing has been refused,
  rows and transactions stay in step (`Orderly`); what it once lost sight of it never finds again (lemma `KnownFrom`). A row is confirmed in the first of these situations only, when nothing that may fail is of it (`Settled`).
* `HInv`, for `DatabaseFollows` and `OneInFlight`: undisturbed, the issuer stays in that situation, and every transaction in flight is a row's, a watcher's or a request's.

TLC checked each of them before, on the instance of `publish` with all the faults it allows (`PInv` with a revocation too: 2.3 million states).

**`RevocationProofs`.** `SomeIsSafe` is the heart: while nothing overlapped, some usable authentication credential is one no call is about to remove — a call that passes the check saw another.
`LocalsKnown`, `CopiesSound` and `CopiesAgree` tie the copies to the rows they were read from, `TreesSound`, `RevokedIsLeaf` and `LeavesSound` the trees to the tables, `DeletionsSound` the deletion of a key to its credentials.
For one call at a time nothing overlaps, so `OneCallKeepsAuth` states the same without an exception.

**`LinksProofs`.** A link's credentials *plus* the calls that may still add one are bounded (`RoomLeft`, and `FewPerUser` per user): a call that reads a count below the maximum counts as a credential from
then on, and the sum can only grow when a call reads. `CutOff` says a revoked credential is of no link. With one callback at a time both bounds
leave no room for an overshoot (`OneCallbackExact`).

**`PaymentsProofs`.** `SuccessIsPaid` needs that an answer "success" in a call's hands is about a paid nonce of its request (`VerificationSound`), that items keep
their request (`ItemsAreOfRequests`), and that a deleted id never comes back (`GoneIsBlank`, `DeletionKnown`). The theorem `Refinement` maps each step to one of `PaymentLedger` or to a stutter.
`ListingShows` is about the loop of the listing, a recursive function of the rows before: what is shown for a request is the nonce of the last row up to its own that has one. It goes by the least row for which
that fails, since an induction theorem cannot be instantiated here. `ListingCorrect` then takes only that a paid request has a nonce. `OneVerifierKeeps` adds to `IInv` that a
verification of a paid request has read it as paid (`OnePerRequest`).

**`NotificationsProofs`.** Rows keep their user and only gain proof, revocation and state (lemma `RowsStay`), so what was true of an offer when it was read is true when it is pushed. Each place an offer can be in hands
it on to the next (`HandedOn`) or to `spent`: with `MessagesSound`, `HandlingSound` and `RequestsSound` that makes `NoOfferForgotten` inductive. `DueSound` does so for notices.

Model-checked only: liveness (`EveryCredentialAnchored`, `EntryReleased`, `TransactedSettles`), which rests on fairness and ENABLED. The three properties that are
violated are shown by their counterexamples.

## Not modelled

* Several issuers, but for `Payments`: nothing in a publication is shared between them, except the publishing account's nonce and gas, which are left out with all other fees.
* Cryptography: a state's hash is injective, a proof of the prover is valid, a signature verifies. Which of the usable authentication credentials is taken for the
  proof (the first of a list without an order).
* Reorganisations of the chain after the configured confirmation blocks.
* The clock of the TTL map: an entry goes away at any time it may (`Expire`).
* Authentication sessions: a cache of requests under fresh ids, read once.
* API keys: rows of the B2B endpoint's partners, one or two statements on one row each; Rotate's gap between revoking the old key and creating the new one is a hazard without a property. The
  e-number function: one sequential call outside the node, whose gap between creating an identity and saving its DID is likewise listed.
* The reverse hash service, revocation status of credentials, schemas and display methods, the QR store and caches, KMS providers, prover, packers and resolvers, configuration and
  health: reads, one-statement writes or wrappers of third-party services, whose failures are faults of the modelled calls.
* The HTTP layer. More than a quarter of the implementation is generated (`internal/api/api.gen.go`, about 10,000 lines), and much of the rest decodes requests and
  formats answers around the services; the handlers that carry control flow of their own (publication, links, payments, connections) are in the modules of their services. The user interface and deployment.

## What is left

* The ledger of `StateLedger` for one request at a time, where the contract's states come in their order and lose nothing: `NothingTakenBack` and `NoRollback` as a second, stronger
  abstract specification.
* `Rotate` of API keys and the e-number function, small modules of their own.

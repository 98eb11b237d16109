--------------------------- MODULE StatePublisher ---------------------------
(***************************************************************************)
(* Publication of an issuer's identity state: the publisher gateway of the *)
(* platform process (PublishState, RetryPublishState and the goroutine     *)
(* that follows each transaction), the status checker of the               *)
(* pending_publisher process, UpdateState of the identity service, the     *)
(* revocation of credentials, and the State contract they publish to.      *)
(*                                                                         *)
(* One issuer: every row, tree and map entry involved is keyed by its DID. *)
(* Rows of identity_states are numbered in the order of their state_id;    *)
(* the table's unique (identifier, state) makes the number a name for the  *)
(* state hash, which stands for the pair (claims tree, revocation tree):   *)
(* the roots tree is determined by them.  The genesis state is 1, and its  *)
(* authentication claim, which is in every claims tree, is left out.  A    *)
(* credential stands for its revocation nonce too.                         *)
(*                                                                         *)
(* A database transaction is one step, except UpdateState, whose two reads *)
(* of the credentials are separate steps: the database runs at READ        *)
(* COMMITTED.  A loaded merkle tree keeps the root it was loaded with.     *)
(***************************************************************************)
EXTENDS Naturals

CONSTANTS
  Claims,     \* the issuer's credentials
  MtpClaims,  \* those issued with mtp = true
  Revocable,  \* those whose nonce a client asks to revoke
  Workers,    \* concurrent publish and retry requests of the platform process
  MaxStates,  \* bound: rows of identity_states
  MaxTxs,     \* bound: transactions sent
  Faults      \* what the environment may do in a run, out of AllFaults

\* "rpc": a call to the chain, prover, key store or hash service fails.
\* "lost": the node takes a transaction and its answer is lost.
\* "db": a database call fails.          "crash": the platform restarts.
\* "drop": a transaction is never mined. "timeout": a goroutine gives up.
\* "ttl": a hold outlives its 60 seconds, or the cleaner deletes it before.
\* "overlap": the checker reaches a state whose goroutine still waits.
\* "phantom": a credential is inserted while UpdateState is running.
AllFaults == {"rpc", "lost", "db", "crash", "drop", "timeout", "ttl",
              "overlap", "phantom"}

ASSUME ClaimsAssumption == MtpClaims \subseteq Claims /\ Revocable \subseteq Claims
ASSUME BoundsAssumption == MaxStates \in Nat \ {0} /\ MaxTxs \in Nat
ASSUME FaultsAssumption == Faults \subseteq AllFaults

StateIds == 1..MaxStates
TxIds    == 1..MaxTxs
Genesis  == 1
Null     == 0

Watchers == {"goroutine", "checker"}

VARIABLES
  (* the database *)
  states,      \* identity_states: [StateIds -> StateRow]
  nStates,     \* rows in use
  credentials, \* claims: [Claims -> CredentialRow]
  revocation,  \* revocation: [Claims -> {"none", "pending", "published"}]
  claimsTree,  \* leaves of the claims tree
  revTree,     \* leaves of the revocation tree
  (* the State contract *)
  txs,         \* [TxIds -> Transaction]
  nTxs,        \* transactions sent so far
  chain,       \* the issuer's current state
  onChain,     \* every state the contract ever held for it
  (* the processes *)
  pending,     \* pendingTransactions holds a live entry for the issuer
  pc,          \* [Workers -> RequestPcs]
  loc,         \* [Workers -> Locals]
  job,         \* [Watchers -> [TxIds -> JobPcs]], who follows a transaction
  revoker,     \* [Claims -> Revocation in progress]
  (* events published *)
  announced,   \* states of CreateStateEvent
  notified     \* credentials of CreateCredentialEvent sent on confirmation

dbVars    == <<states, nStates, credentials, revocation, claimsTree, revTree>>
chainVars == <<txs, nTxs, chain, onChain>>
reqVars   == <<pending, pc, loc>>
evtVars   == <<announced, notified>>
vars      == <<dbVars, chainVars, reqVars, job, revoker, evtVars>>

-----------------------------------------------------------------------------
(* Types *)

Statuses == {"absent", "created", "transacted", "confirmed", "failed"}

StateRow == [status : Statuses, claims : SUBSET Claims, revs : SUBSET Claims,
             tx : 0..MaxTxs]

Proof == [state : 0..MaxStates, root : SUBSET Claims]

CredentialRow == [saved : BOOLEAN, state : 0..MaxStates, proof : Proof,
                  revoked : BOOLEAN]

Transaction == [status : {"none", "pending", "success", "reverted", "dropped"},
                old : 0..MaxStates, new : 0..MaxStates]

RequestPcs == {"idle", "store", "check", "update", "commit", "failedState",
               "latest", "send", "record", "markFailed"}

Locals == [mode : {"publish", "retry"}, row : 0..MaxStates,
           latest : 0..MaxStates, tx : 0..MaxTxs,
           base : SUBSET Claims, adds : SUBSET Claims, revs : SUBSET Claims]

JobPcs == {"none", "wait", "proofs", "confirm", "event", "revert"}

Revoking == [pc : {"idle", "reread", "save"}, saved : CredentialRow]

NoProof   == [state |-> Null, root |-> {}]
NoRow     == [status |-> "absent", claims |-> {}, revs |-> {}, tx |-> Null]
NoTx      == [status |-> "none", old |-> Null, new |-> Null]
NoLocals  == [mode |-> "publish", row |-> Null, latest |-> Null, tx |-> Null,
              base |-> {}, adds |-> {}, revs |-> {}]
NotSaved  == [saved |-> FALSE, state |-> Null, proof |-> NoProof,
              revoked |-> FALSE]
NoRevoking == [pc |-> "idle", saved |-> NotSaved]

DbTypeOK ==
  /\ states \in [StateIds -> StateRow]
  /\ nStates \in StateIds
  /\ credentials \in [Claims -> CredentialRow]
  /\ revocation \in [Claims -> {"none", "pending", "published"}]
  /\ claimsTree \subseteq Claims
  /\ revTree \subseteq Claims

ChainTypeOK ==
  /\ txs \in [TxIds -> Transaction]
  /\ nTxs \in 0..MaxTxs
  /\ chain \in StateIds
  /\ onChain \subseteq StateIds

RequestTypeOK ==
  /\ pending \in BOOLEAN
  /\ pc \in [Workers -> RequestPcs]
  /\ loc \in [Workers -> Locals]

FollowerTypeOK ==
  /\ job \in [Watchers -> [TxIds -> JobPcs]]
  /\ revoker \in [Claims -> Revoking]
  /\ announced \subseteq StateIds
  /\ notified \subseteq Claims

TypeOK == DbTypeOK /\ ChainTypeOK /\ RequestTypeOK /\ FollowerTypeOK

Init ==
  /\ states = [s \in StateIds |->
                 IF s = Genesis THEN [NoRow EXCEPT !.status = "confirmed"] ELSE NoRow]
  /\ nStates = Genesis
  /\ credentials = [c \in Claims |-> NotSaved]
  /\ revocation = [c \in Claims |-> "none"]
  /\ claimsTree = {}
  /\ revTree = {}
  /\ txs = [t \in TxIds |-> NoTx]
  /\ nTxs = 0
  /\ chain = Genesis
  /\ onChain = {Genesis}
  /\ pending = FALSE
  /\ pc = [w \in Workers |-> "idle"]
  /\ loc = [w \in Workers |-> NoLocals]
  /\ job = [k \in Watchers |-> [t \in TxIds |-> "none"]]
  /\ revoker = [c \in Claims |-> NoRevoking]
  /\ announced = {}
  /\ notified = {}

-----------------------------------------------------------------------------
(* Queries *)

Confirmed  == {s \in 1..nStates : states[s].status = "confirmed"}
Failed     == {s \in 1..nStates : states[s].status = "failed"}
Transacted == {s \in 1..nStates : states[s].status = "transacted"}

\* ORDER BY ... DESC, and the first row
Newest(s, S) == s \in S /\ \A r \in S : r <= s

\* Credentials GetAllByState(nil) returns: with an MTP proof to come, in no state.
Unassigned == {c \in MtpClaims : credentials[c].saved /\ credentials[c].state = Null}

PendingRevocations == {c \in Claims : revocation[c] = "pending"}

UnprocessedWork ==
  \/ \E c \in Claims : credentials[c].saved /\ credentials[c].state = Null
  \/ PendingRevocations # {}

\* Faulty: only a failed state stops a new publication.
HasUnprocessedInFlight == UnprocessedWork /\ Failed = {}

HasUnprocessed == UnprocessedWork /\ Transacted \cup Failed = {}

\* The row an INSERT of this state conflicts with: the unique (identifier, state).
\* Never the genesis row: its state was hashed with an empty roots tree.
RowsOf(c, r) ==
  {s \in 1..nStates : s # Genesis /\ states[s].claims = c /\ states[s].revs = r}

WithMtpProof(s) == {c \in MtpClaims : credentials[c].saved /\ credentials[c].state = s}

-----------------------------------------------------------------------------
(* The clients of the API: credentials and publication requests *)

May(f) == f \in Faults

\* UpdateState is between its two reads of the credentials.
Updating == \E w \in Workers : pc[w] = "commit"

\* Save of the claims service: one INSERT, in no state and with no MTP proof.
Issue(c) ==
  /\ ~credentials[c].saved
  /\ May("phantom") \/ ~Updating
  /\ credentials' = [credentials EXCEPT ![c] = [NotSaved EXCEPT !.saved = TRUE]]
  /\ UNCHANGED <<states, nStates, revocation, claimsTree, revTree, chainVars,
                 reqVars, job, revoker, evtVars>>

\* Bound: a request starts only when there is room for a row and a transaction.
\* Requests under way when another takes the last room fail as at any error.
RowsLeft == nStates < MaxStates
TxsLeft  == nTxs < MaxTxs

\* Load finds no live entry (otherwise: ErrStateIsBeingProcessed, nothing changes).
Begin(w, mode) ==
  /\ pc[w] = "idle"
  /\ ~pending
  /\ RowsLeft /\ TxsLeft
  /\ pc' = [pc EXCEPT ![w] = "store"]
  /\ loc' = [loc EXCEPT ![w] = [NoLocals EXCEPT !.mode = mode]]
  /\ UNCHANGED <<dbVars, chainVars, pending, job, revoker, evtVars>>

Store(w) ==
  /\ pc[w] = "store"
  /\ pending' = TRUE
  /\ pc' = [pc EXCEPT ![w] = IF loc[w].mode = "publish" THEN "check" ELSE "failedState"]
  /\ UNCHANGED <<dbVars, chainVars, loc, job, revoker, evtVars>>

\* The request returns an error: PublishState and RetryPublishState Delete the entry.
Release(w) ==
  /\ pending' = FALSE
  /\ pc' = [pc EXCEPT ![w] = "idle"]
  /\ loc' = [loc EXCEPT ![w] = NoLocals]

GoTo(w, where, locals) ==
  /\ pc' = [pc EXCEPT ![w] = where]
  /\ loc' = [loc EXCEPT ![w] = locals]
  /\ UNCHANGED pending

CheckUnprocessed(w) ==
  /\ pc[w] = "check"
  /\ IF HasUnprocessed THEN GoTo(w, "update", loc[w]) ELSE Release(w)
  /\ UNCHANGED <<dbVars, chainVars, job, revoker, evtVars>>

\* UpdateState loads the trees and adds the leaves; a leaf that is already there
\* is an error of the merkle tree.
UpdateStateBegin(w) ==
  /\ pc[w] = "update"
  /\ IF Unassigned \cap claimsTree # {}
       THEN Release(w)
       ELSE GoTo(w, "commit", [loc[w] EXCEPT !.base = claimsTree, !.revs = revTree,
                                             !.adds = Unassigned])
  /\ UNCHANGED <<dbVars, chainVars, job, revoker, evtVars>>

\* Faulty: the tree is saved as it was loaded.
NewLeavesLoaded(w) == loc[w].base
\* Faulty: the tree starts anew with each state.
NewLeavesOnly(w) == loc[w].adds

NewLeaves(w) == loc[w].base \cup loc[w].adds

\* update: the credentials in no state, read again, move into the new one.
Assign(s) == credentials' = [c \in Claims |->
  IF c \in Unassigned THEN [credentials[c] EXCEPT !.state = s] ELSE credentials[c]]

PublishRevocations == revocation' = [c \in Claims |->
  IF c \in PendingRevocations THEN "published" ELSE revocation[c]]

\* Faulty: a row is inserted whether or not the state has one.
SaveRowAnyway(s, leaves, revs) ==
  /\ RowsLeft /\ s = nStates + 1
  /\ nStates' = s
  /\ states' = [states EXCEPT ![s] = [status |-> "created", claims |-> leaves,
                                      revs |-> revs, tx |-> Null]]

\* identityStateRepository.Save: the row, unless the state has one.
SaveRow(s, leaves, revs) ==
  \/ s \in RowsOf(leaves, revs) /\ UNCHANGED <<states, nStates>>
  \/ /\ RowsOf(leaves, revs) = {}
     /\ RowsLeft /\ s = nStates + 1
     /\ nStates' = s
     /\ states' = [states EXCEPT ![s] = [status |-> "created", claims |-> leaves,
                                         revs |-> revs, tx |-> Null]]

\* The rest of UpdateState's transaction.
UpdateStateCommit(w) ==
  LET leaves == NewLeaves(w)
      revs   == loc[w].revs
      idle   == loc[w].adds = {} /\ PendingRevocations = {}   \* ErrNoClaimsFoundToProcess
  IN
  /\ pc[w] = "commit"
  /\ \/ /\ idle \/ (RowsOf(leaves, revs) = {} /\ ~RowsLeft)
        /\ Release(w)
        /\ UNCHANGED dbVars
     \/ /\ ~idle
        /\ claimsTree' = leaves
        /\ PublishRevocations
        /\ \E s \in StateIds : /\ SaveRow(s, leaves, revs)
                              /\ Assign(s)
                              /\ GoTo(w, "latest", [NoLocals EXCEPT !.row = s])
        /\ UNCHANGED revTree
  /\ UNCHANGED <<chainVars, job, revoker, evtVars>>

\* Faulty: a transacted row is retried too.
FailedStateOrTransacted(w) ==
  /\ pc[w] = "failedState"
  /\ \/ Failed \cup Transacted \subseteq {Genesis} /\ Release(w)
     \/ \E s \in StateIds : /\ Newest(s, (Failed \cup Transacted) \ {Genesis})
                           /\ GoTo(w, "latest", [loc[w] EXCEPT !.row = s])
  /\ UNCHANGED <<dbVars, chainVars, job, revoker, evtVars>>

\* GetFailedState: the newest failed row with a previous state.
FailedState(w) ==
  /\ pc[w] = "failedState"
  /\ \/ Failed \subseteq {Genesis} /\ Release(w)
     \/ \E s \in StateIds : /\ Newest(s, Failed \ {Genesis})
                           /\ GoTo(w, "latest", [loc[w] EXCEPT !.row = s])
  /\ UNCHANGED <<dbVars, chainVars, job, revoker, evtVars>>

-----------------------------------------------------------------------------
(* publishProof *)

\* publishProof returns an error: publishState goes on to mark the row failed,
\* retryPublishFailedState only returns it.
PublishFails(w) ==
  IF loc[w].mode = "publish" THEN GoTo(w, "markFailed", loc[w]) ELSE Release(w)

\* GetLatestStateByIdentifier
ReadLatest(w) ==
  /\ pc[w] = "latest"
  /\ \E s \in StateIds : /\ Newest(s, Confirmed)
                        /\ GoTo(w, "send", [loc[w] EXCEPT !.latest = s])
  /\ UNCHANGED <<dbVars, chainVars, job, revoker, evtVars>>

\* The contract takes a state only on top of the current one, and only once.
Acceptable(old, new) == old = chain /\ new \notin onChain

\* Unless the network is gasless the client has the node estimate the transaction first,
\* on its latest or on its pending state: one that need not succeed may be refused.
MayBeRefused(w) ==
  \/ ~Acceptable(loc[w].latest, loc[w].row)
  \/ \E t \in TxIds : txs[t].status = "pending"

\* A new transaction reaches the node.
Submit(w) ==
  /\ TxsLeft
  /\ nTxs' = nTxs + 1
  /\ txs' = [txs EXCEPT ![nTxs'] = [status |-> "pending", old |-> loc[w].latest,
                                    new |-> loc[w].row]]
  /\ UNCHANGED <<chain, onChain>>

\* The gateway refuses a state equal to the latest ("state hasn't been changed").
Send(w) ==
  LET changed == loc[w].row # loc[w].latest IN
  /\ pc[w] = "send"
  /\ \/ /\ ~changed \/ ~TxsLeft \/ MayBeRefused(w)
        /\ PublishFails(w)
        /\ UNCHANGED chainVars
     \/ changed /\ Submit(w) /\ GoTo(w, "record", [loc[w] EXCEPT !.tx = nTxs'])
     \/ changed /\ May("lost") /\ Submit(w) /\ PublishFails(w)
  /\ UNCHANGED <<dbVars, job, revoker, evtVars>>

\* The row is transacted and a goroutine follows the transaction; the entry of
\* pendingTransactions stays until that goroutine ends.
Follow(w) ==
  /\ job' = [job EXCEPT !["goroutine"][loc[w].tx] = "wait"]
  /\ pc' = [pc EXCEPT ![w] = "idle"]
  /\ loc' = [loc EXCEPT ![w] = NoLocals]
  /\ UNCHANGED <<nStates, credentials, revocation, claimsTree, revTree, chainVars,
                 pending, revoker, evtVars>>

\* Faulty: the row gets its transaction and keeps its status.
RecordTxOnly(w) ==
  /\ pc[w] = "record"
  /\ states' = [states EXCEPT ![loc[w].row].tx = loc[w].tx]
  /\ Follow(w)

Record(w) ==
  /\ pc[w] = "record"
  /\ states' = [states EXCEPT ![loc[w].row].status = "transacted",
                              ![loc[w].row].tx = loc[w].tx]
  /\ Follow(w)

\* publishState saves its own copy of the state, which never had a TxID.
MarkFailed(w) ==
  /\ pc[w] = "markFailed"
  /\ states' = [states EXCEPT ![loc[w].row].status = "failed", ![loc[w].row].tx = Null]
  /\ Release(w)
  /\ UNCHANGED <<nStates, credentials, revocation, claimsTree, revTree, chainVars,
                 job, revoker, evtVars>>

\* A call on the way fails, and whatever transaction it was in is rolled back.
RequestFails(w) ==
  /\ \/ May("db") /\ pc[w] \in {"check", "update", "commit", "failedState",
                                 "latest", "record", "markFailed"}
     \/ May("rpc") /\ pc[w] \in {"commit", "send"}
  /\ IF pc[w] \in {"latest", "send", "record"} THEN PublishFails(w) ELSE Release(w)
  /\ UNCHANGED <<dbVars, chainVars, job, revoker, evtVars>>

\* The entry's 60 seconds are over, or CleaningBackground, which deletes the entries
\* that have not expired, came by.
Expire ==
  /\ May("ttl")
  /\ pending
  /\ pending' = FALSE
  /\ UNCHANGED <<dbVars, chainVars, pc, loc, job, revoker, evtVars>>

-----------------------------------------------------------------------------
(* The State contract, and what becomes of a transaction *)

\* One account sends them all, so they are mined in the order of their nonces.
Mine(t) ==
  /\ txs[t].status = "pending"
  /\ \A u \in TxIds : u < t => txs[u].status # "pending"
  /\ IF Acceptable(txs[t].old, txs[t].new)
       THEN /\ txs' = [txs EXCEPT ![t].status = "success"]
            /\ chain' = txs[t].new
            /\ onChain' = onChain \cup {chain'}
       ELSE /\ txs' = [txs EXCEPT ![t].status = "reverted"]
            /\ UNCHANGED <<chain, onChain>>
  /\ UNCHANGED <<dbVars, nTxs, reqVars, job, revoker, evtVars>>

Drop(t) ==
  /\ May("drop")
  /\ txs[t].status = "pending"
  /\ txs' = [txs EXCEPT ![t].status = "dropped"]
  /\ UNCHANGED <<dbVars, nTxs, chain, onChain, reqVars, job, revoker, evtVars>>

-----------------------------------------------------------------------------
(* Following a transaction: updateTransactionStatus of the goroutine and       *)
(* checkStatus of the checker, which share updateIdentityStateTxStatus         *)

\* The state a watcher of t holds a copy of, with TxID t.
StateOf(t) == txs[t].new

Advance(k, t, where) == job' = [job EXCEPT ![k][t] = where] /\ UNCHANGED pending

\* Faulty: the goroutine ends and leaves its entry behind.
FinishAndHold(k, t) ==
  /\ job' = [job EXCEPT ![k][t] = "none"]
  /\ UNCHANGED pending

\* Only the goroutine deletes the entry of pendingTransactions.
Finish(k, t) ==
  /\ job' = [job EXCEPT ![k][t] = "none"]
  /\ pending' = IF k = "goroutine" THEN FALSE ELSE pending

\* CheckTransactionStatus, on the ticker of pending_publisher: it takes the
\* transacted rows modified more than confirmationTimeout ago.
Scan ==
  LET old == {s \in Transacted :
                May("overlap") \/ job["goroutine"][states[s].tx] = "none"}
  IN
  /\ \A t \in TxIds : job["checker"][t] = "none"
  /\ \E toCheck \in SUBSET old \ {{}} :
       job' = [job EXCEPT !["checker"] = [t \in TxIds |->
                 IF \E s \in toCheck : states[s].tx = t THEN "wait" ELSE "none"]]
  /\ UNCHANGED <<dbVars, chainVars, reqVars, revoker, evtVars>>

\* The checker takes its rows one by one.
FirstInLine(k, t) == k = "checker" => \A u \in TxIds : job[k][u] \in {"none", "wait"}

\* Faulty: the status in the receipt is not looked at.
ReceiptUnchecked(k, t) ==
  /\ job[k][t] = "wait"
  /\ FirstInLine(k, t)
  /\ txs[t].status \in {"success", "reverted"}
  /\ Advance(k, t, "proofs")
  /\ UNCHANGED <<dbVars, chainVars, pc, loc, revoker, evtVars>>

\* Faulty: a reverted transaction counts as not there yet.
ReceiptOfSuccess(k, t) ==
  /\ job[k][t] = "wait"
  /\ FirstInLine(k, t)
  /\ txs[t].status = "success" /\ Advance(k, t, "proofs")
  /\ UNCHANGED <<dbVars, chainVars, pc, loc, revoker, evtVars>>

\* The receipt, and for a success the confirmation blocks.
Receipt(k, t) ==
  /\ job[k][t] = "wait"
  /\ FirstInLine(k, t)
  /\ \/ txs[t].status = "success" /\ Advance(k, t, "proofs")
     \/ txs[t].status = "reverted" /\ Advance(k, t, "revert")
  /\ UNCHANGED <<dbVars, chainVars, pc, loc, revoker, evtVars>>

\* The checker asks once; the goroutine gives up at its receipt or confirmation
\* timeout.  The row stays transacted.
NoReceipt(k, t) ==
  /\ job[k][t] = "wait"
  /\ k = "goroutine" => May("timeout") \/ txs[t].status = "dropped"
  /\ Finish(k, t)
  /\ UNCHANGED <<dbVars, chainVars, pc, loc, revoker, evtVars>>

\* UpdateClaimsMTPAndState, one UPDATE per credential: the proof is made against
\* the root the claims tree has now and labelled with the state.  An error on the
\* way is shadowed, and the notifications follow.
WriteProofs(k, t) ==
  LET s   == StateOf(t)
      all == WithMtpProof(s)
  IN
  /\ job[k][t] = "proofs"
  /\ \E done \in SUBSET all :
       /\ credentials' = [c \in Claims |->
            IF c \in done
              THEN [credentials[c] EXCEPT !.proof = [state |-> s, root |-> claimsTree]]
              ELSE credentials[c]]
       /\ \/ done = all /\ Advance(k, t, "confirm")
          \/ May("db") /\ Advance(k, t, "event")
  /\ UNCHANGED <<states, nStates, revocation, claimsTree, revTree, chainVars,
                 pc, loc, revoker, evtVars>>

\* The end of UpdateClaimsMTPAndState: the row, from the watcher's copy of it.
Confirm(k, t) ==
  /\ job[k][t] = "confirm"
  /\ \/ states' = [states EXCEPT ![StateOf(t)].status = "confirmed",
                                 ![StateOf(t)].tx = t]
     \/ May("db") /\ UNCHANGED states
  /\ Advance(k, t, "event")
  /\ UNCHANGED <<nStates, credentials, revocation, claimsTree, revTree, chainVars,
                 pc, loc, revoker, evtVars>>

\* The credentials of the state that have an MTP proof are notified.
Event(k, t) ==
  LET s == StateOf(t) IN
  /\ job[k][t] = "event"
  /\ notified' = notified \cup
       {c \in Claims : /\ credentials[c].saved
                       /\ credentials[c].state = s
                       /\ credentials[c].proof # NoProof}
  /\ announced' = announced \cup {s}
  /\ Finish(k, t)
  /\ UNCHANGED <<dbVars, chainVars, pc, loc, revoker>>

\* Faulty: the row gets the status of the receipt.
RevertToReceipt(k, t) ==
  /\ job[k][t] = "revert"
  /\ states' = [states EXCEPT ![StateOf(t)].status = txs[t].status, ![StateOf(t)].tx = t]
  /\ Finish(k, t)
  /\ UNCHANGED <<nStates, credentials, revocation, claimsTree, revTree, chainVars,
                 pc, loc, revoker, evtVars>>

Revert(k, t) ==
  /\ job[k][t] = "revert"
  /\ states' = [states EXCEPT ![StateOf(t)].status = "failed", ![StateOf(t)].tx = t]
  /\ Finish(k, t)
  /\ UNCHANGED <<nStates, credentials, revocation, claimsTree, revTree, chainVars,
                 pc, loc, revoker, evtVars>>

\* A call fails before anything is written: the header, the reads, the UPDATE.
JobFails(k, t) ==
  /\ \/ May("rpc") /\ job[k][t] \in {"proofs", "revert"}
     \/ May("db") /\ job[k][t] \in {"revert", "event"}
  /\ Finish(k, t)
  /\ UNCHANGED <<dbVars, chainVars, pc, loc, revoker, evtVars>>

-----------------------------------------------------------------------------
(* revoke of the claims service *)

\* Faulty: the error of the merkle tree is ignored, and the nonce is not in it.
RevokeWithoutTree(c) ==
  /\ revoker[c].pc = "idle"
  /\ c \in Revocable \ revTree
  /\ revoker' = [revoker EXCEPT ![c].pc = "reread"]
  /\ UNCHANGED <<dbVars, chainVars, reqVars, job, evtVars>>

\* The nonce goes into the tree, in a statement of its own, whether or not it is a
\* credential's; a nonce that is there already is an error.
RevokeTree(c) ==
  /\ revoker[c].pc = "idle"
  /\ c \in Revocable \ revTree
  /\ May("phantom") \/ ~Updating
  /\ revTree' = revTree \cup {c}
  /\ revoker' = [revoker EXCEPT ![c].pc = "reread"]
  /\ UNCHANGED <<states, nStates, credentials, revocation, claimsTree, chainVars,
                 reqVars, job, evtVars>>

\* GetByRevocationNonce, for the second time: the whole row, or an error.
RevokeReread(c) ==
  /\ revoker[c].pc = "reread"
  /\ revoker' = [revoker EXCEPT ![c] =
       IF credentials[c].saved THEN [pc |-> "save", saved |-> credentials[c]]
                               ELSE NoRevoking]
  /\ UNCHANGED <<dbVars, chainVars, reqVars, job, evtVars>>

\* One transaction: every column of the row from the copy, and the revocation.
RevokeSave(c) ==
  /\ revoker[c].pc = "save"
  /\ credentials' = [credentials EXCEPT ![c] =
                       [revoker[c].saved EXCEPT !.revoked = TRUE]]
  /\ revocation' = [revocation EXCEPT ![c] = "pending"]
  /\ revoker' = [revoker EXCEPT ![c] = NoRevoking]
  /\ UNCHANGED <<states, nStates, claimsTree, revTree, chainVars, reqVars, job,
                 evtVars>>

RevokeFails(c) ==
  /\ May("db")
  /\ revoker[c].pc # "idle"
  /\ revoker' = [revoker EXCEPT ![c] = NoRevoking]
  /\ UNCHANGED <<dbVars, chainVars, reqVars, job, evtVars>>

\* The platform stops and starts again: its requests, its goroutines and
\* pendingTransactions are gone.  UpdateState's open transaction is rolled back.
CrashPlatform ==
  /\ May("crash")
  /\ pending' = FALSE
  /\ pc' = [w \in Workers |-> "idle"]
  /\ loc' = [w \in Workers |-> NoLocals]
  /\ job' = [job EXCEPT !["goroutine"] = [t \in TxIds |-> "none"]]
  /\ revoker' = [c \in Claims |-> NoRevoking]
  /\ UNCHANGED <<dbVars, chainVars, evtVars>>

-----------------------------------------------------------------------------

Request(w) ==
  \/ Store(w) \/ CheckUnprocessed(w) \/ UpdateStateBegin(w) \/ UpdateStateCommit(w)
  \/ FailedState(w) \/ ReadLatest(w) \/ Send(w) \/ Record(w) \/ MarkFailed(w)
  \/ RequestFails(w)

Watch(k, t) ==
  \/ Receipt(k, t) \/ NoReceipt(k, t) \/ WriteProofs(k, t) \/ Confirm(k, t)
  \/ Event(k, t) \/ Revert(k, t) \/ JobFails(k, t)

Revoke(c) == RevokeTree(c) \/ RevokeReread(c) \/ RevokeSave(c) \/ RevokeFails(c)

Next ==
  \/ \E c \in Claims : Issue(c) \/ Revoke(c)
  \/ \E w \in Workers, mode \in {"publish", "retry"} : Begin(w, mode)
  \/ \E w \in Workers : Request(w)
  \/ \E t \in TxIds : Mine(t) \/ Drop(t)
  \/ \E k \in Watchers, t \in TxIds : Watch(k, t)
  \/ Scan \/ Expire \/ CrashPlatform

Spec == Init /\ [][Next]_vars

\* The steps the processes and the chain take by themselves, and clients that keep
\* asking to publish and to retry.  Faults, credentials and revocations come or not;
\* the checker polls again and again (strong fairness of its receipt).
Fairness ==
  /\ \A w \in Workers : WF_vars(Request(w))
  /\ \A w \in Workers, mode \in {"publish", "retry"} : SF_vars(Begin(w, mode))
  /\ \A t \in TxIds : WF_vars(Mine(t))
  /\ \A k \in Watchers, t \in TxIds :
       WF_vars(Watch(k, t)) /\ SF_vars(Receipt(k, t))
  /\ WF_vars(Scan)

FairSpec == Spec /\ Fairness

-----------------------------------------------------------------------------
(* Safety *)

\* A row is confirmed only for a transaction of that state the chain accepted,
\* whoever wrote it last: updateIdentityStateTxStatus under every interleaving of
\* requests, goroutines and checker, and every failure.
ConfirmedIsAnchored ==
  \A s \in Confirmed \ {Genesis} :
    /\ s \in onChain
    /\ \E t \in TxIds : states[s].tx = t /\ txs[t].status = "success" /\ txs[t].new = s

\* An MTP proof handed to a holder names a state a verifier finds on the chain,
\* whatever copies of the row revocations wrote back over it.
ProofMeansOnChain ==
  \A c \in Claims : credentials[c].proof.state \in onChain \cup {Null}

\* The inclusion path of an MTP proof leads to the claims root of the state in its
\* label, and from a leaf of that tree: UpdateClaimsMTPAndState takes the path from
\* the tree's current root, which must not have moved since the state was made.
ProofFitsState ==
  \A c \in Claims : LET p == credentials[c].proof IN
    p.state # Null => c \in p.root /\ p.root = states[p.state].claims

\* The two reads of the credentials in UpdateState see the same ones: what has a
\* state is a leaf of that state's claims tree, and what is a leaf has a state,
\* unless a revocation wrote back a copy of its row from before UpdateState.
LeafIffAssigned ==
  \A c \in Claims :
    /\ credentials[c].state # Null => c \in states[credentials[c].state].claims
    /\ c \in claimsTree => credentials[c].state # Null \/ credentials[c].revoked

\* A revocation marked published is in the revocation tree of a state that was made:
\* revoke writes the tree before the row that UpdateState takes up.
RevocationsReachState ==
  \A c \in Claims : revocation[c] = "published" =>
    \E s \in 1..nStates : c \in states[s].revs

\* The issuer knows the state it has on the chain, or is still following the
\* transaction that put it there: otherwise every later one is built on a state
\* the contract has replaced.
DbFollowsChain ==
  \/ Newest(chain, Confirmed)
  \/ states[chain].status = "transacted"
  \/ \E w \in Workers : pc[w] = "record" /\ loc[w].row = chain

\* Two transactions of one issuer are never in flight together, also after a
\* goroutine has given up and its entry is gone: HasUnprocessedStatesByID.
OneTxInFlight ==
  \A t, u \in TxIds : txs[t].status = "pending" /\ txs[u].status = "pending" => t = u

\* What is announced when a state is confirmed is on the chain, although the event is
\* sent after errors too; only a revocation takes a notified credential out of its
\* state again.
NotifiedIsOnChain ==
  /\ announced \subseteq onChain
  /\ \A c \in notified : credentials[c].state \in onChain \/ credentials[c].revoked

\* The contract's state of an issuer never loses a credential or a revocation it
\* had: no verifier sees a revocation undone.
NothingUnpublished ==
  [][/\ states[chain].claims \subseteq states'[chain'].claims
     /\ states[chain].revs \subseteq states'[chain'].revs]_vars

\* A confirmed row is never written again with another status.
ConfirmedIsFinal == [][Confirmed \subseteq Confirmed']_vars

-----------------------------------------------------------------------------
(* An inductive invariant *)

TxsSound ==
  \A t \in TxIds :
    /\ t > nTxs => txs[t].status = "none"
    /\ txs[t].status # "none" => txs[t].new \in StateIds
    /\ txs[t].status = "success" => txs[t].new \in onChain

RequestsSound ==
  \A w \in Workers :
    pc[w] \in {"latest", "send", "record", "markFailed"} => loc[w].row \in StateIds

WatchersSound ==
  \A k \in Watchers, t \in TxIds :
    job[k][t] \in {"proofs", "confirm", "event"} => txs[t].status = "success"

CopiesSound ==
  \A c \in Claims : revoker[c].saved.proof.state \in onChain \cup {Null}

RowsStay ==
  /\ \A c \in notified : credentials[c].saved
  /\ \A c \in Claims : revoker[c].pc = "save" => revoker[c].saved.saved

\* What makes ConfirmedIsAnchored, ProofMeansOnChain and NotifiedIsOnChain survive every
\* step: a watcher past the receipt follows a transaction the chain accepted, a
\* transaction once sent is never another one, the copies revocations hold are as good
\* as the rows, and a credential that was notified of is never inserted again.
IInv ==
  /\ TypeOK
  /\ TxsSound
  /\ RequestsSound
  /\ WatchersSound
  /\ ConfirmedIsAnchored
  /\ ProofMeansOnChain
  /\ CopiesSound
  /\ RowsStay
  /\ NotifiedIsOnChain

-----------------------------------------------------------------------------
(* What the publication promises *)

\* The ledger of an issuer is its rows but for their status, the transactions that reached
\* the node, the rows that are confirmed, the labels of the MTP proofs, and those in the
\* rows that revocations hold.
Trees == [s \in 1..nStates |-> [claims |-> states[s].claims, revs |-> states[s].revs]]
Sent == {[old |-> txs[t].old, new |-> txs[t].new] : t \in 1..nTxs}
Labels == [c \in Claims |-> credentials[c].proof.state]
Held == [c \in Claims |->
  IF revoker[c].pc = "save" THEN {revoker[c].saved.proof.state} ELSE {}]

Ledger == INSTANCE StateLedger WITH
  Credentials <- Claims, Provable <- MtpClaims, None <- Null,
  trees <- Trees, sent <- Sent, current <- chain, accepted <- onChain,
  confirmed <- Confirmed, proof <- Labels, held <- Held

\* What an issuer, the contract and the holders of its credentials see of a publication is
\* what StateLedger says, whichever requests and watchers overlap, fail or are cut short.
ImplementsStateLedger == Ledger!Spec

-----------------------------------------------------------------------------
(* Liveness *)

\* A credential with an MTP proof to come is anchored in the end.
EveryCredentialAnchored ==
  \A c \in MtpClaims : credentials[c].saved ~>
    credentials[c].proof.state \in Confirmed

\* The entry of pendingTransactions goes away: no request, failure or lost
\* transaction blocks the issuer's publications for good.
EntryReleased == pending ~> ~pending

\* A transacted state does not stay so: the goroutine or the checker settles it.
TransactedSettles == \A s \in StateIds : s \in Transacted ~> s \notin Transacted

-----------------------------------------------------------------------------
(* What the repository says of the program *)

\* domain/identity_state.go:22, a failed row is that of a failed transaction.
FailedTransactionFailed == \A s \in Failed : s \notin onChain

\* domain/revocation.go:27, a revocation marked published is published on chain, at
\* least once every request, watcher and transaction has come to its end.
AtRest ==
  /\ \A w \in Workers : pc[w] = "idle"
  /\ \A k \in Watchers, t \in TxIds : job[k][t] = "none"
  /\ \A t \in TxIds : txs[t].status # "pending"

PublishedIsOnChain ==
  AtRest => \A c \in Claims : revocation[c] = "published" => c \in states[chain].revs

\* api/api.yaml:297, when a publication has failed the retry publishes its state: the
\* contract does not refuse it as one it has already.
RetryPublishes ==
  \A t \in TxIds : txs[t].status = "reverted" => txs[t].new \notin onChain
=============================================================================

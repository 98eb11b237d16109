------------------------ MODULE StatePublisherProofs ------------------------
(***************************************************************************)
(* What TLAPS proves of StatePublisher, for every number of credentials,   *)
(* workers, states, transactions and every set of faults.                  *)
(***************************************************************************)
EXTENDS StatePublisher, Sequences, TLAPS

-----------------------------------------------------------------------------
(* Initial values *)

\* The empty rows, locals and copies are values of their types.
LEMMA InitialRows ==
  /\ NoProof \in Proof
  /\ NoRow \in StateRow
  /\ NoTx \in Transaction
  /\ NoLocals \in Locals
  /\ NotSaved \in CredentialRow
  /\ NoRevoking \in Revoking
<1>1. 0 \in 0..MaxStates /\ 0 \in 0..MaxTxs
  BY BoundsAssumption
<1>2. NoProof \in Proof
  BY <1>1 DEF NoProof, Proof, Null
<1>3. NotSaved \in CredentialRow
  BY <1>1, <1>2 DEF NotSaved, CredentialRow, Null
<1> QED
  BY <1>1, <1>2, <1>3 DEF NoRow, StateRow, Statuses, NoTx, Transaction, NoLocals,
     Locals, NoRevoking, Revoking, Null

\* The program starts in a state of the inductive invariant: NewPublisher and the
\* genesis row createIdentity leaves.
LEMMA InitInvariant == Init => IInv
<1> SUFFICES ASSUME Init PROVE IInv
  OBVIOUS
<1>1. Genesis \in StateIds
  BY BoundsAssumption DEF Genesis, StateIds
<1>2. DbTypeOK
  <2>1. [NoRow EXCEPT !.status = "confirmed"] \in StateRow
    BY InitialRows DEF StateRow, Statuses
  <2> QED
    BY <1>1, <2>1, InitialRows DEF Init, DbTypeOK
<1>3. ChainTypeOK
  BY <1>1, BoundsAssumption, InitialRows DEF Init, ChainTypeOK
<1>4. RequestTypeOK /\ FollowerTypeOK
  BY InitialRows DEF Init, RequestTypeOK, FollowerTypeOK, RequestPcs, JobPcs
<1>5. TxsSound /\ RequestsSound /\ WatchersSound
  BY DEF Init, TxsSound, RequestsSound, WatchersSound, NoTx
<1>6. ConfirmedIsAnchored
  BY DEF Init, ConfirmedIsAnchored, Confirmed, Genesis
<1>7. ProofMeansOnChain /\ CopiesSound
  BY DEF Init, ProofMeansOnChain, CopiesSound, NotSaved, NoRevoking, NoProof
<1>8. RowsStay /\ NotifiedIsOnChain
  BY DEF Init, RowsStay, NotifiedIsOnChain, NoRevoking
<1> QED
  BY <1>2, <1>3, <1>4, <1>5, <1>6, <1>7, <1>8 DEF IInv, TypeOK

-----------------------------------------------------------------------------
(* Types of the requests' variables *)

\* A request that returns an error leaves well-typed request variables.
LEMMA ReleaseType ==
  ASSUME RequestTypeOK, NEW w \in Workers, Release(w)
  PROVE  RequestTypeOK'
BY InitialRows DEF Release, RequestTypeOK, RequestPcs

\* A request that goes on to a known point with well-typed locals keeps the types.
LEMMA GoToType ==
  ASSUME RequestTypeOK, NEW w \in Workers, NEW where \in RequestPcs,
         NEW locals \in Locals, GoTo(w, where, locals)
  PROVE  RequestTypeOK'
BY DEF GoTo, RequestTypeOK

\* Both ways publishProof is left on an error keep the types of the request variables.
LEMMA PublishFailsType ==
  ASSUME RequestTypeOK, NEW w \in Workers, PublishFails(w)
  PROVE  RequestTypeOK'
<1>1. loc[w] \in Locals /\ "markFailed" \in RequestPcs
  BY DEF RequestTypeOK, RequestPcs
<1> QED
  BY <1>1, ReleaseType, GoToType DEF PublishFails

\* The variables of requests change only with the steps of requests, with the end of
\* a goroutine, and when an entry expires or the platform stops.
LEMMA RequestTypeStep ==
  ASSUME TypeOK, Next
  PROVE  RequestTypeOK'
<1> USE DEF TypeOK
<1>1. ASSUME NEW c \in Claims, Issue(c) \/ Revoke(c) PROVE RequestTypeOK'
  BY <1>1 DEF Issue, Revoke, RevokeTree, RevokeReread, RevokeSave, RevokeFails, reqVars,
     RequestTypeOK
<1>2. ASSUME NEW w \in Workers, NEW mode \in {"publish", "retry"}, Begin(w, mode)
      PROVE  RequestTypeOK'
  <2>1. [NoLocals EXCEPT !.mode = mode] \in Locals
    BY InitialRows DEF Locals
  <2> QED
    BY <1>2, <2>1 DEF Begin, RequestTypeOK, RequestPcs
<1>3. ASSUME NEW w \in Workers, Request(w) PROVE RequestTypeOK'
  <2>0. loc[w] \in Locals
    BY DEF RequestTypeOK
  <2>1. CASE Store(w)
    BY <2>1 DEF Store, RequestTypeOK, RequestPcs
  <2>2. CASE CheckUnprocessed(w)
    BY <2>0, <2>2, ReleaseType, GoToType DEF CheckUnprocessed, RequestPcs
  <2>3. CASE UpdateStateBegin(w)
    <3>1. [loc[w] EXCEPT !.base = claimsTree, !.revs = revTree, !.adds = Unassigned]
            \in Locals
      BY <2>0, ClaimsAssumption DEF Locals, DbTypeOK, Unassigned
    <3> QED
      BY <2>3, <3>1, ReleaseType, GoToType DEF UpdateStateBegin, RequestPcs
  <2>4. CASE UpdateStateCommit(w)
    <3>1. ASSUME NEW s \in StateIds PROVE [NoLocals EXCEPT !.row = s] \in Locals
      BY <3>1, InitialRows, BoundsAssumption DEF Locals, StateIds
    <3> QED
      BY <2>4, <3>1, ReleaseType, GoToType DEF UpdateStateCommit, RequestPcs
  <2>5. CASE FailedState(w)
    <3>1. ASSUME NEW s \in StateIds PROVE [loc[w] EXCEPT !.row = s] \in Locals
      BY <3>1, <2>0, BoundsAssumption DEF Locals, StateIds
    <3> QED
      BY <2>5, <3>1, ReleaseType, GoToType DEF FailedState, RequestPcs
  <2>6. CASE ReadLatest(w)
    <3>1. ASSUME NEW s \in StateIds PROVE [loc[w] EXCEPT !.latest = s] \in Locals
      BY <3>1, <2>0, BoundsAssumption DEF Locals, StateIds
    <3> QED
      BY <2>6, <3>1, GoToType DEF ReadLatest, RequestPcs
  <2>7. CASE Send(w)
    <3>1. ASSUME Submit(w) PROVE [loc[w] EXCEPT !.tx = nTxs'] \in Locals
      <4>1. nTxs' \in 0..MaxTxs
        BY <3>1, BoundsAssumption DEF Submit, TxsLeft, ChainTypeOK
      <4> QED
        BY <2>0, <4>1 DEF Locals
    <3> QED
      BY <2>7, <3>1, PublishFailsType, GoToType DEF Send, RequestPcs
  <2>8. CASE Record(w)
    BY <2>8, InitialRows DEF Record, Follow, RequestTypeOK, RequestPcs
  <2>9. CASE MarkFailed(w)
    BY <2>9, ReleaseType DEF MarkFailed
  <2>10. CASE RequestFails(w)
    BY <2>10, ReleaseType, PublishFailsType DEF RequestFails
  <2> QED
    BY <1>3, <2>1, <2>2, <2>3, <2>4, <2>5, <2>6, <2>7, <2>8, <2>9, <2>10 DEF Request
<1>4. ASSUME NEW t \in TxIds, Mine(t) \/ Drop(t) PROVE RequestTypeOK'
  BY <1>4 DEF Mine, Drop, reqVars, RequestTypeOK
<1>5. ASSUME NEW k \in Watchers, NEW t \in TxIds, Watch(k, t) PROVE RequestTypeOK'
  <2>1. pc' = pc /\ loc' = loc /\ pending' \in {pending, FALSE}
    BY <1>5 DEF Watch, Receipt, NoReceipt, WriteProofs, Confirm, Event, Revert, JobFails,
       Advance, Finish
  <2> QED
    BY <2>1 DEF RequestTypeOK
<1>6. ASSUME Scan \/ Expire \/ CrashPlatform PROVE RequestTypeOK'
  <2>1. CASE Scan
    BY <2>1 DEF Scan, reqVars, RequestTypeOK
  <2>2. CASE Expire
    BY <2>2 DEF Expire, RequestTypeOK
  <2>3. CASE CrashPlatform
    BY <2>3, InitialRows DEF CrashPlatform, RequestTypeOK, RequestPcs
  <2> QED
    BY <1>6, <2>1, <2>2, <2>3
<1> QED
  BY <1>1, <1>2, <1>3, <1>4, <1>5, <1>6 DEF Next

-----------------------------------------------------------------------------
(* Types of the tables and trees *)

\* An UPDATE of a status and a transaction, of any row, keeps the table well-typed.
LEMMA RowUpdateType ==
  ASSUME DbTypeOK, NEW s, NEW status \in Statuses, NEW t \in 0..MaxTxs
  PROVE  [states EXCEPT ![s].status = status, ![s].tx = t] \in [StateIds -> StateRow]
BY DEF DbTypeOK, StateRow

\* Every step keeps the types of the tables and trees: a status is one of the known
\* ones, a credential is in a row there is, a tree holds credentials.
LEMMA DbTypeStep ==
  ASSUME TypeOK, Next
  PROVE  DbTypeOK'
<1> USE DEF TypeOK
<1>1. ASSUME NEW c \in Claims, Issue(c) PROVE DbTypeOK'
  <2>1. [NotSaved EXCEPT !.saved = TRUE] \in CredentialRow
    BY InitialRows DEF CredentialRow
  <2> QED
    BY <1>1, <2>1 DEF Issue, DbTypeOK
<1>2. ASSUME NEW c \in Claims, Revoke(c) PROVE DbTypeOK'
  <2>1. CASE RevokeTree(c)
    BY <2>1 DEF RevokeTree, DbTypeOK
  <2>2. CASE RevokeSave(c)
    <3>1. [revoker[c].saved EXCEPT !.revoked = TRUE] \in CredentialRow
      BY DEF FollowerTypeOK, Revoking, CredentialRow
    <3> QED
      BY <2>2, <3>1 DEF RevokeSave, DbTypeOK
  <2>3. CASE RevokeReread(c) \/ RevokeFails(c)
    BY <2>3 DEF RevokeReread, RevokeFails, dbVars, DbTypeOK
  <2> QED
    BY <1>2, <2>1, <2>2, <2>3 DEF Revoke
<1>3. ASSUME NEW w \in Workers, NEW mode \in {"publish", "retry"}, Begin(w, mode)
      PROVE  DbTypeOK'
  BY <1>3 DEF Begin, dbVars, DbTypeOK
<1>4. ASSUME NEW w \in Workers, UpdateStateCommit(w) PROVE DbTypeOK'
  <2>1. CASE UNCHANGED dbVars
    BY <2>1 DEF dbVars, DbTypeOK
  <2>2. ASSUME NEW s \in StateIds, claimsTree' = NewLeaves(w), PublishRevocations,
               SaveRow(s, NewLeaves(w), loc[w].revs), Assign(s), UNCHANGED revTree
        PROVE  DbTypeOK'
    <3>1. NewLeaves(w) \subseteq Claims /\ loc[w].revs \subseteq Claims
      BY DEF RequestTypeOK, Locals, NewLeaves
    <3>2. states' \in [StateIds -> StateRow] /\ nStates' \in StateIds
      <4>1. [status |-> "created", claims |-> NewLeaves(w), revs |-> loc[w].revs,
             tx |-> Null] \in StateRow
        BY <3>1, BoundsAssumption DEF StateRow, Statuses, Null
      <4> QED
        BY <2>2, <4>1 DEF SaveRow, DbTypeOK
    <3>3. credentials' \in [Claims -> CredentialRow]
      <4>1. ASSUME NEW c \in Claims
            PROVE  [credentials[c] EXCEPT !.state = s] \in CredentialRow
        BY BoundsAssumption DEF DbTypeOK, CredentialRow, StateIds
      <4> QED
        BY <2>2, <4>1 DEF Assign, DbTypeOK
    <3>4. revocation' \in [Claims -> {"none", "pending", "published"}]
      BY <2>2 DEF PublishRevocations, DbTypeOK
    <3> QED
      BY <2>2, <3>1, <3>2, <3>3, <3>4 DEF DbTypeOK
  <2> QED
    BY <1>4, <2>1, <2>2 DEF UpdateStateCommit
<1>5. ASSUME NEW w \in Workers, Record(w) \/ MarkFailed(w) PROVE DbTypeOK'
  <2>1. loc[w].tx \in 0..MaxTxs /\ Null \in 0..MaxTxs
    BY BoundsAssumption DEF RequestTypeOK, Locals, Null
  <2>2. states' \in [StateIds -> StateRow]
    <3>1. CASE Record(w)
      BY <3>1, <2>1, RowUpdateType DEF Record, Statuses
    <3>2. CASE MarkFailed(w)
      BY <3>2, <2>1, RowUpdateType DEF MarkFailed, Statuses
    <3> QED
      BY <1>5, <3>1, <3>2
  <2> QED
    BY <1>5, <2>2 DEF Record, Follow, MarkFailed, DbTypeOK
<1>6. ASSUME NEW w \in Workers, Request(w), ~UpdateStateCommit(w), ~Record(w),
             ~MarkFailed(w)
      PROVE  DbTypeOK'
  <2>1. UNCHANGED dbVars
    BY <1>6 DEF Request, Store, CheckUnprocessed, UpdateStateBegin, FailedState, ReadLatest,
       Send, RequestFails
  <2> QED
    BY <2>1 DEF dbVars, DbTypeOK
<1>7. ASSUME NEW t \in TxIds, Mine(t) \/ Drop(t) PROVE DbTypeOK'
  BY <1>7 DEF Mine, Drop, dbVars, DbTypeOK
<1>8. ASSUME NEW k \in Watchers, NEW t \in TxIds, Watch(k, t) PROVE DbTypeOK'
  <2>1. CASE WriteProofs(k, t)
    <3>1. [state |-> StateOf(t), root |-> claimsTree] \in Proof
      BY DEF StateOf, ChainTypeOK, Transaction, Proof, DbTypeOK
    <3>2. ASSUME NEW c \in Claims
          PROVE  [credentials[c] EXCEPT !.proof = [state |-> StateOf(t), root |-> claimsTree]]
                   \in CredentialRow
      BY <3>1 DEF DbTypeOK, CredentialRow
    <3> QED
      BY <2>1, <3>2 DEF WriteProofs, DbTypeOK
  <2>2. CASE Confirm(k, t) \/ Revert(k, t)
    <3>1. t \in 0..MaxTxs
      BY BoundsAssumption DEF TxIds
    <3>2. states' \in [StateIds -> StateRow]
      <4>1. CASE Confirm(k, t)
        <5>1. states \in [StateIds -> StateRow]
          BY DEF DbTypeOK
        <5>2. [states EXCEPT ![StateOf(t)].status = "confirmed", ![StateOf(t)].tx = t]
                \in [StateIds -> StateRow]
          BY <3>1, RowUpdateType DEF Statuses
        <5> QED
          BY <4>1, <5>1, <5>2 DEF Confirm
      <4>2. CASE Revert(k, t)
        BY <4>2, <3>1, RowUpdateType DEF Revert, Statuses
      <4> QED
        BY <2>2, <4>1, <4>2
    <3> QED
      BY <2>2, <3>2 DEF Confirm, Revert, DbTypeOK
  <2>3. CASE Receipt(k, t) \/ NoReceipt(k, t) \/ Event(k, t) \/ JobFails(k, t)
    BY <2>3 DEF Receipt, NoReceipt, Event, JobFails, dbVars, DbTypeOK
  <2> QED
    BY <1>8, <2>1, <2>2, <2>3 DEF Watch
<1>9. ASSUME Scan \/ Expire \/ CrashPlatform PROVE DbTypeOK'
  BY <1>9 DEF Scan, Expire, CrashPlatform, dbVars, DbTypeOK
<1> QED
  BY <1>1, <1>2, <1>3, <1>4, <1>5, <1>6, <1>7, <1>8, <1>9 DEF Next

-----------------------------------------------------------------------------
(* Types of the contract's state and of the watchers *)

\* Every step keeps the types of the contract's state: it holds states rows were made
\* for, and no more transactions than were sent.
LEMMA ChainTypeStep ==
  ASSUME TypeOK, TxsSound, Next
  PROVE  ChainTypeOK'
<1> USE DEF TypeOK
<1>1. CASE UNCHANGED chainVars
  BY <1>1 DEF chainVars, ChainTypeOK
<1>2. ASSUME NEW w \in Workers, Submit(w) PROVE ChainTypeOK'
  <2>1. [status |-> "pending", old |-> loc[w].latest, new |-> loc[w].row] \in Transaction
    BY DEF RequestTypeOK, Locals, Transaction
  <2>2. nTxs' \in 0..MaxTxs
    BY <1>2, BoundsAssumption DEF Submit, TxsLeft, ChainTypeOK
  <2> QED
    BY <1>2, <2>1, <2>2 DEF Submit, ChainTypeOK
<1>3. ASSUME NEW t \in TxIds, Mine(t) PROVE ChainTypeOK'
  <2>1. txs[t].new \in StateIds
    BY <1>3 DEF Mine, TxsSound
  <2>2. txs' \in [TxIds -> Transaction]
    BY <1>3 DEF Mine, ChainTypeOK, Transaction
  <2> QED
    BY <1>3, <2>1, <2>2 DEF Mine, ChainTypeOK
<1>4. ASSUME NEW t \in TxIds, Drop(t) PROVE ChainTypeOK'
  BY <1>4 DEF Drop, ChainTypeOK, Transaction
<1>5. ASSUME NEW w \in Workers, Request(w), ~Submit(w) PROVE UNCHANGED chainVars
  BY <1>5 DEF Request, Store, CheckUnprocessed, UpdateStateBegin, UpdateStateCommit,
     FailedState, ReadLatest, Send, Record, Follow, MarkFailed, RequestFails
<1>6. ASSUME NEW k \in Watchers, NEW t \in TxIds, Watch(k, t) PROVE UNCHANGED chainVars
  BY <1>6 DEF Watch, Receipt, NoReceipt, WriteProofs, Confirm, Event, Revert, JobFails
<1>7. ASSUME NEW c \in Claims, Issue(c) \/ Revoke(c) PROVE UNCHANGED chainVars
  BY <1>7 DEF Issue, Revoke, RevokeTree, RevokeReread, RevokeSave, RevokeFails
<1>8. ASSUME NEW w \in Workers, NEW mode \in {"publish", "retry"}, Begin(w, mode)
      PROVE  UNCHANGED chainVars
  BY <1>8 DEF Begin
<1>9. ASSUME Scan \/ Expire \/ CrashPlatform PROVE UNCHANGED chainVars
  BY <1>9 DEF Scan, Expire, CrashPlatform
<1> QED
  BY <1>1, <1>2, <1>3, <1>4, <1>5, <1>6, <1>7, <1>8, <1>9 DEF Next

\* Every step keeps the types of the watchers, the revocations and the events: what is
\* announced is a state.
LEMMA FollowerTypeStep ==
  ASSUME TypeOK, TxsSound, WatchersSound, Next
  PROVE  FollowerTypeOK'
<1> USE DEF TypeOK
<1>1. CASE UNCHANGED <<job, revoker, evtVars>>
  BY <1>1 DEF evtVars, FollowerTypeOK
<1>2. ASSUME NEW c \in Claims, Revoke(c) PROVE FollowerTypeOK'
  <2>1. CASE RevokeTree(c)
    BY <2>1 DEF RevokeTree, FollowerTypeOK, Revoking, evtVars
  <2>2. CASE RevokeReread(c)
    BY <2>2, InitialRows DEF RevokeReread, FollowerTypeOK, Revoking, evtVars, DbTypeOK
  <2>3. CASE RevokeSave(c) \/ RevokeFails(c)
    BY <2>3, InitialRows DEF RevokeSave, RevokeFails, FollowerTypeOK, evtVars
  <2> QED
    BY <1>2, <2>1, <2>2, <2>3 DEF Revoke
<1>3. ASSUME NEW w \in Workers, Record(w) PROVE FollowerTypeOK'
  BY <1>3 DEF Record, Follow, FollowerTypeOK, JobPcs, evtVars
<1>4. ASSUME NEW w \in Workers, Request(w), ~Record(w)
      PROVE  UNCHANGED <<job, revoker, evtVars>>
  BY <1>4 DEF Request, Store, CheckUnprocessed, UpdateStateBegin, UpdateStateCommit,
     FailedState, ReadLatest, Send, MarkFailed, RequestFails
<1>5. ASSUME NEW k \in Watchers, NEW t \in TxIds, Watch(k, t) PROVE FollowerTypeOK'
  <2>1. ASSUME NEW where \in JobPcs, job' = [job EXCEPT ![k][t] = where]
        PROVE  job' \in [Watchers -> [TxIds -> JobPcs]]
    BY <2>1 DEF FollowerTypeOK
  <2>2. job' \in [Watchers -> [TxIds -> JobPcs]]
    BY <1>5, <2>1 DEF Watch, Receipt, NoReceipt, WriteProofs, Confirm, Event, Revert,
       JobFails, Advance, Finish, JobPcs
  <2>3. announced' \subseteq StateIds /\ notified' \subseteq Claims /\ revoker' = revoker
    <3>1. CASE Event(k, t)
      <4>1. StateOf(t) \in StateIds
        BY <3>1 DEF Event, WatchersSound, TxsSound, StateOf
      <4> QED
        BY <3>1, <4>1 DEF Event, FollowerTypeOK
    <3>2. CASE ~Event(k, t)
      BY <1>5, <3>2 DEF Watch, Receipt, NoReceipt, WriteProofs, Confirm, Revert, JobFails,
         FollowerTypeOK, evtVars
    <3> QED
      BY <3>1, <3>2
  <2> QED
    BY <2>2, <2>3 DEF FollowerTypeOK
<1>6. CASE Scan
  BY <1>6 DEF Scan, FollowerTypeOK, JobPcs, Watchers, evtVars
<1>7. CASE Expire
  BY <1>7, <1>1 DEF Expire
<1>8. CASE CrashPlatform
  BY <1>8, InitialRows DEF CrashPlatform, FollowerTypeOK, JobPcs, Watchers, evtVars
<1>9. ASSUME NEW c \in Claims, Issue(c) PROVE UNCHANGED <<job, revoker, evtVars>>
  BY <1>9 DEF Issue
<1>10. ASSUME NEW t \in TxIds, Mine(t) \/ Drop(t)
       PROVE  UNCHANGED <<job, revoker, evtVars>>
  BY <1>10 DEF Mine, Drop
<1>11. ASSUME NEW w \in Workers, NEW mode \in {"publish", "retry"}, Begin(w, mode)
       PROVE  UNCHANGED <<job, revoker, evtVars>>
  BY <1>11 DEF Begin
<1> QED
  BY <1>1, <1>2, <1>3, <1>4, <1>5, <1>6, <1>7, <1>8, <1>9, <1>10, <1>11 DEF Next

\* Every step keeps every type.
LEMMA TypeStep ==
  ASSUME TypeOK, TxsSound, WatchersSound, Next
  PROVE  TypeOK'
BY DbTypeStep, ChainTypeStep, RequestTypeStep, FollowerTypeStep DEF TypeOK

-----------------------------------------------------------------------------
(* The rest of the inductive invariant *)

\* A transaction is numbered once, and its state is one a row was made for.
LEMMA TxsSoundStep ==
  ASSUME TypeOK, TxsSound, RequestsSound, Next
  PROVE  TxsSound'
<1> USE DEF TypeOK
<1>1. CASE UNCHANGED chainVars
  BY <1>1 DEF chainVars, TxsSound
<1>2. ASSUME NEW w \in Workers, Send(w), Submit(w) PROVE TxsSound'
  <2>1. loc[w].row \in StateIds
    BY <1>2 DEF Send, RequestsSound
  <2>2. nTxs + 1 \in TxIds
    BY <1>2, BoundsAssumption DEF Submit, TxsLeft, ChainTypeOK, TxIds
  <2>3. txs' = [txs EXCEPT ![nTxs + 1] = [status |-> "pending", old |-> loc[w].latest,
                                          new |-> loc[w].row]]
        /\ nTxs' = nTxs + 1 /\ onChain' = onChain
    BY <1>2 DEF Submit
  <2>4. \A t \in TxIds : t \in Nat
    BY DEF TxIds
  <2> QED
    BY <2>1, <2>2, <2>3, <2>4 DEF TxsSound, ChainTypeOK
<1>3. ASSUME NEW t \in TxIds, Mine(t) PROVE TxsSound'
  BY <1>3 DEF Mine, TxsSound, ChainTypeOK, Transaction
<1>4. ASSUME NEW t \in TxIds, Drop(t) PROVE TxsSound'
  BY <1>4 DEF Drop, TxsSound, ChainTypeOK, Transaction
<1>5. ASSUME NEW w \in Workers, Request(w), ~(Send(w) /\ Submit(w))
      PROVE  UNCHANGED chainVars
  BY <1>5 DEF Request, Store, CheckUnprocessed, UpdateStateBegin, UpdateStateCommit,
     FailedState, ReadLatest, Send, Record, Follow, MarkFailed, RequestFails
<1>6. ASSUME NEW k \in Watchers, NEW t \in TxIds, Watch(k, t) PROVE UNCHANGED chainVars
  BY <1>6 DEF Watch, Receipt, NoReceipt, WriteProofs, Confirm, Event, Revert, JobFails
<1>7. ASSUME NEW c \in Claims, Issue(c) \/ Revoke(c) PROVE UNCHANGED chainVars
  BY <1>7 DEF Issue, Revoke, RevokeTree, RevokeReread, RevokeSave, RevokeFails
<1>8. ASSUME NEW w \in Workers, NEW mode \in {"publish", "retry"}, Begin(w, mode)
      PROVE  UNCHANGED chainVars
  BY <1>8 DEF Begin
<1>9. ASSUME Scan \/ Expire \/ CrashPlatform PROVE UNCHANGED chainVars
  BY <1>9 DEF Scan, Expire, CrashPlatform
<1> QED
  BY <1>1, <1>2, <1>3, <1>4, <1>5, <1>6, <1>7, <1>8, <1>9 DEF Next

\* Every step keeps the requests sound: one past UpdateState or GetFailedState has a row.
LEMMA RequestsSoundStep ==
  ASSUME TypeOK, RequestsSound, Next
  PROVE  RequestsSound'
<1> USE DEF TypeOK, RequestTypeOK
<1> DEFINE Late == {"latest", "send", "record", "markFailed"}
<1>1. CASE UNCHANGED <<pc, loc>>
  BY <1>1 DEF RequestsSound
<1>2. ASSUME NEW w \in Workers, NEW where, NEW row,
             pc' = [pc EXCEPT ![w] = where], loc' = [loc EXCEPT ![w] = row],
             where \in Late => row.row \in StateIds
      PROVE  RequestsSound'
  BY <1>2 DEF RequestsSound
<1>3. ASSUME NEW w \in Workers, NEW mode \in {"publish", "retry"}, Begin(w, mode)
      PROVE  RequestsSound'
  BY <1>2, <1>3 DEF Begin
<1>4. ASSUME NEW w \in Workers, Request(w) PROVE RequestsSound'
  <2>1. ASSUME Release(w) PROVE RequestsSound'
    BY <2>1, <1>2 DEF Release
  <2>2. ASSUME pc[w] \in Late, PublishFails(w) PROVE RequestsSound'
    <3>1. loc[w].row \in StateIds
      BY <2>2 DEF RequestsSound
    <3> QED
      BY <2>1, <2>2, <3>1, <1>2 DEF PublishFails, GoTo
  <2>3. CASE Store(w)
    BY <2>3 DEF Store, RequestsSound
  <2>4. CASE CheckUnprocessed(w) \/ UpdateStateBegin(w)
    <3>1. ASSUME NEW locals, GoTo(w, "update", locals) \/ GoTo(w, "commit", locals)
          PROVE  RequestsSound'
      BY <3>1, <1>2 DEF GoTo
    <3> QED
      BY <2>4, <2>1, <3>1 DEF CheckUnprocessed, UpdateStateBegin
  <2>5. CASE UpdateStateCommit(w) \/ FailedState(w)
    <3>1. ASSUME NEW s \in StateIds, GoTo(w, "latest", [NoLocals EXCEPT !.row = s])
          PROVE  RequestsSound'
      <4>1. [NoLocals EXCEPT !.row = s].row = s
        BY InitialRows DEF Locals
      <4> QED
        BY <3>1, <4>1, <1>2 DEF GoTo
    <3>2. ASSUME NEW s \in StateIds, GoTo(w, "latest", [loc[w] EXCEPT !.row = s])
          PROVE  RequestsSound'
      <4>1. [loc[w] EXCEPT !.row = s].row = s
        BY DEF Locals
      <4> QED
        BY <3>2, <4>1, <1>2 DEF GoTo
    <3> QED
      BY <2>5, <2>1, <3>1, <3>2 DEF UpdateStateCommit, FailedState
  <2>6. CASE ReadLatest(w)
    <3>1. loc[w].row \in StateIds
      BY <2>6 DEF ReadLatest, RequestsSound
    <3>2. ASSUME NEW s PROVE [loc[w] EXCEPT !.latest = s].row = loc[w].row
      BY DEF Locals
    <3> QED
      BY <2>6, <3>1, <3>2, <1>2 DEF ReadLatest, GoTo
  <2>7. CASE Send(w)
    <3>1. loc[w].row \in StateIds
      BY <2>7 DEF Send, RequestsSound
    <3>2. [loc[w] EXCEPT !.tx = nTxs'].row = loc[w].row
      BY DEF Locals
    <3>3. ASSUME GoTo(w, "record", [loc[w] EXCEPT !.tx = nTxs']) PROVE RequestsSound'
      BY <3>1, <3>2, <3>3, <1>2 DEF GoTo
    <3> QED
      BY <2>7, <2>2, <3>3 DEF Send
  <2>8. CASE Record(w)
    BY <2>8, <1>2 DEF Record, Follow
  <2>9. CASE MarkFailed(w)
    BY <2>9, <2>1 DEF MarkFailed
  <2>10. CASE RequestFails(w)
    BY <2>10, <2>1, <2>2 DEF RequestFails
  <2> QED
    BY <1>4, <2>3, <2>4, <2>5, <2>6, <2>7, <2>8, <2>9, <2>10 DEF Request
<1>5. ASSUME NEW k \in Watchers, NEW t \in TxIds, Watch(k, t) PROVE UNCHANGED <<pc, loc>>
  BY <1>5 DEF Watch, Receipt, NoReceipt, WriteProofs, Confirm, Event, Revert, JobFails
<1>6. ASSUME NEW c \in Claims, Issue(c) \/ Revoke(c) PROVE UNCHANGED <<pc, loc>>
  BY <1>6 DEF Issue, Revoke, RevokeTree, RevokeReread, RevokeSave, RevokeFails, reqVars
<1>7. ASSUME NEW t \in TxIds, Mine(t) \/ Drop(t) PROVE UNCHANGED <<pc, loc>>
  BY <1>7 DEF Mine, Drop, reqVars
<1>8. ASSUME Scan \/ Expire PROVE UNCHANGED <<pc, loc>>
  BY <1>8 DEF Scan, Expire, reqVars
<1>9. CASE CrashPlatform
  BY <1>9 DEF CrashPlatform, RequestsSound
<1> QED
  BY <1>1, <1>3, <1>4, <1>5, <1>6, <1>7, <1>8, <1>9 DEF Next

\* What the chain accepted stays accepted: no step takes back a transaction or a state.
LEMMA AcceptedStays ==
  ASSUME TypeOK, TxsSound, Next
  PROVE  /\ \A t \in TxIds : txs[t].status = "success" => txs'[t] = txs[t]
         /\ onChain \subseteq onChain'
<1> USE DEF TypeOK
<1>1. CASE UNCHANGED chainVars
  BY <1>1 DEF chainVars
<1>2. ASSUME NEW w \in Workers, Submit(w)
      PROVE  /\ \A t \in TxIds : txs[t].status = "success" => txs'[t] = txs[t]
             /\ onChain \subseteq onChain'
  <2>1. ASSUME NEW t \in TxIds, txs[t].status = "success" PROVE t # nTxs + 1
    <3>1. t <= nTxs
      BY <2>1 DEF TxsSound, ChainTypeOK, TxIds
    <3> QED
      BY <3>1 DEF ChainTypeOK, TxIds
  <2> QED
    BY <1>2, <2>1 DEF Submit, ChainTypeOK
<1>3. ASSUME NEW u \in TxIds, Mine(u) \/ Drop(u)
      PROVE  /\ \A t \in TxIds : txs[t].status = "success" => txs'[t] = txs[t]
             /\ onChain \subseteq onChain'
  <2>1. CASE Mine(u)
    BY <2>1 DEF Mine, ChainTypeOK
  <2>2. CASE Drop(u)
    BY <2>2 DEF Drop, ChainTypeOK
  <2> QED
    BY <1>3, <2>1, <2>2
<1>4. ASSUME NEW w \in Workers, Request(w), ~Submit(w) PROVE UNCHANGED chainVars
  BY <1>4 DEF Request, Store, CheckUnprocessed, UpdateStateBegin, UpdateStateCommit,
     FailedState, ReadLatest, Send, Record, Follow, MarkFailed, RequestFails
<1>5. ASSUME NEW k \in Watchers, NEW t \in TxIds, Watch(k, t) PROVE UNCHANGED chainVars
  BY <1>5 DEF Watch, Receipt, NoReceipt, WriteProofs, Confirm, Event, Revert, JobFails
<1>6. ASSUME NEW c \in Claims, Issue(c) \/ Revoke(c) PROVE UNCHANGED chainVars
  BY <1>6 DEF Issue, Revoke, RevokeTree, RevokeReread, RevokeSave, RevokeFails
<1>7. ASSUME NEW w \in Workers, NEW mode \in {"publish", "retry"}, Begin(w, mode)
      PROVE  UNCHANGED chainVars
  BY <1>7 DEF Begin
<1>8. ASSUME Scan \/ Expire \/ CrashPlatform PROVE UNCHANGED chainVars
  BY <1>8 DEF Scan, Expire, CrashPlatform
<1> QED
  BY <1>1, <1>2, <1>3, <1>4, <1>5, <1>6, <1>7, <1>8 DEF Next

\* Every step keeps the watchers sound: one that writes proofs, confirms or notifies has
\* seen the receipt of a success, and a success is for good.
LEMMA WatchersSoundStep ==
  ASSUME TypeOK, TxsSound, WatchersSound, Next
  PROVE  WatchersSound'
<1> USE DEF TypeOK
<1> DEFINE Past == {"proofs", "confirm", "event"}
<1>1. ASSUME \A k \in Watchers, t \in TxIds : job'[k][t] \in Past => job[k][t] \in Past
      PROVE  WatchersSound'
  BY <1>1, AcceptedStays DEF WatchersSound
<1>2. ASSUME NEW k \in Watchers, NEW t \in TxIds, NEW where,
             job' = [job EXCEPT ![k][t] = where],
             where \in Past => txs[t].status = "success"
      PROVE  WatchersSound'
  BY <1>2, AcceptedStays DEF WatchersSound, FollowerTypeOK
<1>3. ASSUME NEW w \in Workers, Record(w) PROVE WatchersSound'
  BY <1>3, <1>1 DEF Record, Follow, FollowerTypeOK
<1>4. ASSUME NEW k \in Watchers, NEW t \in TxIds, Watch(k, t) PROVE WatchersSound'
  <2>1. CASE Receipt(k, t)
    BY <2>1, <1>2 DEF Receipt, Advance
  <2>2. CASE WriteProofs(k, t) \/ Confirm(k, t)
    <3>1. txs[t].status = "success"
      BY <2>2 DEF WriteProofs, Confirm, WatchersSound
    <3> QED
      BY <2>2, <3>1, <1>2 DEF WriteProofs, Confirm, Advance
  <2>3. CASE NoReceipt(k, t) \/ Event(k, t) \/ Revert(k, t) \/ JobFails(k, t)
    BY <2>3, <1>2 DEF NoReceipt, Event, Revert, JobFails, Finish
  <2> QED
    BY <1>4, <2>1, <2>2, <2>3 DEF Watch
<1>5. CASE Scan
  BY <1>5, <1>1 DEF Scan, FollowerTypeOK
<1>6. CASE CrashPlatform
  BY <1>6, <1>1 DEF CrashPlatform, FollowerTypeOK
<1>7. ASSUME NEW w \in Workers, Request(w), ~Record(w) PROVE job' = job
  BY <1>7 DEF Request, Store, CheckUnprocessed, UpdateStateBegin, UpdateStateCommit,
     FailedState, ReadLatest, Send, MarkFailed, RequestFails
<1>8. ASSUME NEW c \in Claims, Issue(c) \/ Revoke(c) PROVE job' = job
  BY <1>8 DEF Issue, Revoke, RevokeTree, RevokeReread, RevokeSave, RevokeFails
<1>9. ASSUME NEW w \in Workers, NEW mode \in {"publish", "retry"}, Begin(w, mode)
      PROVE  job' = job
  BY <1>9 DEF Begin
<1>10. ASSUME NEW t \in TxIds, Mine(t) \/ Drop(t) PROVE job' = job
  BY <1>10 DEF Mine, Drop
<1>11. CASE Expire
  BY <1>11, <1>1 DEF Expire
<1> QED
  BY <1>1, <1>3, <1>4, <1>5, <1>6, <1>7, <1>8, <1>9, <1>10, <1>11 DEF Next

\* Every step leaves each confirmed row with a transaction the chain accepted.
LEMMA ConfirmedIsAnchoredStep ==
  ASSUME TypeOK, TxsSound, WatchersSound, ConfirmedIsAnchored, Next
  PROVE  ConfirmedIsAnchored'
<1> USE DEF TypeOK, DbTypeOK
<1>0. 1..nStates \subseteq StateIds
  BY BoundsAssumption DEF StateIds
\* A row that was confirmed before and keeps its transaction is still anchored.
<1>1. ASSUME \A s \in Confirmed' \ {Genesis} : s \in Confirmed /\ states'[s].tx = states[s].tx
      PROVE  ConfirmedIsAnchored'
  BY <1>1, AcceptedStays DEF ConfirmedIsAnchored
<1>2. ASSUME UNCHANGED <<states, nStates>> PROVE ConfirmedIsAnchored'
  BY <1>2, <1>1 DEF Confirmed
<1>3. ASSUME NEW w \in Workers, UpdateStateCommit(w) PROVE ConfirmedIsAnchored'
  <2>1. CASE UNCHANGED <<states, nStates>>
    BY <2>1, <1>2
  <2>2. ASSUME nStates' = nStates + 1, NEW row, row.status = "created",
               states' = [states EXCEPT ![nStates + 1] = row], nStates + 1 \in StateIds
        PROVE  ConfirmedIsAnchored'
    <3>1. \A s \in 1..(nStates + 1) : s = nStates + 1 \/ s \in 1..nStates
      BY DEF StateIds
    <3>2. nStates + 1 \notin 1..nStates
      BY DEF StateIds
    <3>3. Confirmed' \subseteq Confirmed
      BY <1>0, <2>2, <3>1 DEF Confirmed
    <3>4. \A s \in Confirmed : states'[s] = states[s]
      BY <1>0, <2>2, <3>2 DEF Confirmed
    <3> QED
      BY <1>1, <3>3, <3>4
  <2>3. ASSUME NEW s \in StateIds, SaveRow(s, NewLeaves(w), loc[w].revs)
        PROVE  ConfirmedIsAnchored'
    <3> DEFINE row == [status |-> "created", claims |-> NewLeaves(w), revs |-> loc[w].revs,
                       tx |-> Null]
    <3>1. row.status = "created"
      OBVIOUS
    <3>2. \/ UNCHANGED <<states, nStates>>
          \/ /\ nStates' = nStates + 1 /\ nStates + 1 \in StateIds
             /\ states' = [states EXCEPT ![nStates + 1] = row]
      BY <2>3 DEF SaveRow
    <3> HIDE DEF row
    <3> QED
      BY <2>1, <2>2, <3>1, <3>2
  <2>4. UNCHANGED <<states, nStates>>
        \/ \E s \in StateIds : SaveRow(s, NewLeaves(w), loc[w].revs)
    BY <1>3 DEF UpdateStateCommit, dbVars
  <2> QED
    BY <2>1, <2>3, <2>4
<1>4. ASSUME NEW s, NEW status, NEW t, status # "confirmed", nStates' = nStates,
             states' = [states EXCEPT ![s].status = status, ![s].tx = t]
      PROVE  ConfirmedIsAnchored'
  <2>1. ASSUME NEW r \in Confirmed' PROVE r \in Confirmed /\ states'[r].tx = states[r].tx
    <3>1. r \in StateIds /\ r \in 1..nStates /\ states'[r].status = "confirmed"
      BY <1>0, <1>4 DEF Confirmed
    <3>2. r # s
      BY <3>1, <1>4 DEF StateRow
    <3> QED
      BY <3>1, <3>2, <1>4 DEF Confirmed
  <2> QED
    BY <1>1, <2>1
<1>5. ASSUME NEW w \in Workers, Record(w) \/ MarkFailed(w) PROVE ConfirmedIsAnchored'
  <2>1. CASE Record(w)
    <3>1. nStates' = nStates
      BY <2>1 DEF Record, Follow
    <3>2. states' = [states EXCEPT ![loc[w].row].status = "transacted",
                                   ![loc[w].row].tx = loc[w].tx]
      BY <2>1 DEF Record
    <3> QED
      BY <3>1, <3>2, <1>4
  <2>2. CASE MarkFailed(w)
    <3>1. nStates' = nStates
      BY <2>2 DEF MarkFailed
    <3>2. states' = [states EXCEPT ![loc[w].row].status = "failed", ![loc[w].row].tx = Null]
      BY <2>2 DEF MarkFailed
    <3> QED
      BY <3>1, <3>2, <1>4
  <2> QED
    BY <1>5, <2>1, <2>2
<1>6. ASSUME NEW k \in Watchers, NEW t \in TxIds, Confirm(k, t) PROVE ConfirmedIsAnchored'
  <2>1. CASE UNCHANGED states
    BY <1>6, <2>1, <1>2 DEF Confirm
  <2>2. CASE states' = [states EXCEPT ![StateOf(t)].status = "confirmed",
                                      ![StateOf(t)].tx = t]
    <3>1. txs[t].status = "success"
      BY <1>6 DEF Confirm, WatchersSound
    <3>2. txs' = txs /\ onChain' = onChain /\ nStates' = nStates
      BY <1>6 DEF Confirm, chainVars
    <3>3. StateOf(t) \in onChain
      BY <3>1 DEF TxsSound, StateOf
    <3>4. ASSUME NEW r \in Confirmed' \ {Genesis}
          PROVE  /\ r \in onChain
                 /\ \E u \in TxIds : /\ states'[r].tx = u /\ txs[u].status = "success"
                                    /\ txs[u].new = r
      <4>0. r \in StateIds
        BY <1>0, <3>2 DEF Confirmed
      <4>1. CASE r = StateOf(t)
        <5>1. states'[r].tx = t
          BY <2>2, <4>0, <4>1 DEF StateRow
        <5> QED
          BY <4>1, <5>1, <3>1, <3>3 DEF StateOf
      <4>2. CASE r # StateOf(t)
        <5>1. states'[r] = states[r]
          BY <2>2, <4>0, <4>2
        <5>2. r \in Confirmed \ {Genesis}
          BY <5>1, <3>2, <3>4 DEF Confirmed
        <5> QED
          BY <5>1, <5>2 DEF ConfirmedIsAnchored
      <4> QED
        BY <4>1, <4>2
    <3> QED
      BY <3>2, <3>4 DEF ConfirmedIsAnchored
  <2> QED
    BY <1>6, <2>1, <2>2 DEF Confirm
<1>7. ASSUME NEW k \in Watchers, NEW t \in TxIds, Revert(k, t) PROVE ConfirmedIsAnchored'
  BY <1>7, <1>4 DEF Revert
<1>8. ASSUME NEW w \in Workers, Request(w), ~UpdateStateCommit(w), ~Record(w), ~MarkFailed(w)
      PROVE  UNCHANGED <<states, nStates>>
  BY <1>8 DEF Request, Store, CheckUnprocessed, UpdateStateBegin, FailedState, ReadLatest,
     Send, RequestFails, dbVars
<1>9. ASSUME NEW k \in Watchers, NEW t \in TxIds, Watch(k, t), ~Confirm(k, t), ~Revert(k, t)
      PROVE  UNCHANGED <<states, nStates>>
  BY <1>9 DEF Watch, Receipt, NoReceipt, WriteProofs, Event, JobFails, dbVars
<1>10. ASSUME NEW c \in Claims, Issue(c) \/ Revoke(c) PROVE UNCHANGED <<states, nStates>>
  BY <1>10 DEF Issue, Revoke, RevokeTree, RevokeReread, RevokeSave, RevokeFails, dbVars
<1>11. ASSUME NEW t \in TxIds, Mine(t) \/ Drop(t) PROVE UNCHANGED <<states, nStates>>
  BY <1>11 DEF Mine, Drop, dbVars
<1>12. ASSUME NEW w \in Workers, NEW mode \in {"publish", "retry"}, Begin(w, mode)
       PROVE  UNCHANGED <<states, nStates>>
  BY <1>12 DEF Begin, dbVars
<1>13. ASSUME Scan \/ Expire \/ CrashPlatform PROVE UNCHANGED <<states, nStates>>
  BY <1>13 DEF Scan, Expire, CrashPlatform, dbVars
<1> QED
  BY <1>2, <1>3, <1>5, <1>6, <1>7, <1>8, <1>9, <1>10, <1>11, <1>12, <1>13 DEF Next

\* Every step leaves each MTP proof, in a row or in a revocation's copy of one, with a
\* state that is on the chain.
LEMMA ProofMeansOnChainStep ==
  ASSUME TypeOK, TxsSound, WatchersSound, ProofMeansOnChain, CopiesSound, Next
  PROVE  ProofMeansOnChain' /\ CopiesSound'
<1> USE DEF TypeOK
<1>0. onChain \subseteq onChain'
  BY AcceptedStays
<1>1. ASSUME UNCHANGED credentials PROVE ProofMeansOnChain'
  BY <1>0, <1>1 DEF ProofMeansOnChain
<1>2. ASSUME UNCHANGED revoker PROVE CopiesSound'
  BY <1>0, <1>2 DEF CopiesSound
<1>3. NoProof.state = Null /\ NotSaved.proof = NoProof /\ NoRevoking.saved = NotSaved
  BY DEF NoProof, NotSaved, NoRevoking
<1>4. ASSUME NEW c \in Claims, Issue(c) PROVE ProofMeansOnChain' /\ CopiesSound'
  <2>1. [NotSaved EXCEPT !.saved = TRUE].proof.state = Null
    BY <1>3, InitialRows DEF CredentialRow
  <2> QED
    BY <1>0, <1>2, <1>4, <2>1 DEF Issue, ProofMeansOnChain, DbTypeOK
<1>5. ASSUME NEW w \in Workers, UpdateStateCommit(w) PROVE ProofMeansOnChain' /\ CopiesSound'
  <2>1. revoker' = revoker
    BY <1>5 DEF UpdateStateCommit
  <2>2. ASSUME NEW s, Assign(s) PROVE ProofMeansOnChain'
    <3>1. \A c \in Claims : credentials'[c].proof = credentials[c].proof
      BY <2>2 DEF Assign, DbTypeOK, CredentialRow
    <3> QED
      BY <1>0, <3>1 DEF ProofMeansOnChain
  <2> QED
    BY <1>1, <1>2, <1>5, <2>1, <2>2 DEF UpdateStateCommit, dbVars
<1>6. ASSUME NEW k \in Watchers, NEW t \in TxIds, WriteProofs(k, t)
      PROVE  ProofMeansOnChain' /\ CopiesSound'
  <2>1. StateOf(t) \in onChain
    BY <1>6 DEF WriteProofs, WatchersSound, TxsSound, StateOf
  <2>2. ASSUME NEW c \in Claims
        PROVE  \/ credentials'[c].proof = credentials[c].proof
               \/ credentials'[c].proof.state = StateOf(t)
    BY <1>6 DEF WriteProofs, DbTypeOK, CredentialRow
  <2> QED
    BY <1>0, <1>2, <1>6, <2>1, <2>2 DEF WriteProofs, ProofMeansOnChain
<1>7. ASSUME NEW c \in Claims, Revoke(c) PROVE ProofMeansOnChain' /\ CopiesSound'
  <2>1. CASE RevokeTree(c)
    <3>1. \A d \in Claims : revoker'[d].saved = revoker[d].saved
      BY <2>1 DEF RevokeTree, FollowerTypeOK, Revoking
    <3> QED
      BY <1>0, <1>1, <2>1, <3>1 DEF RevokeTree, CopiesSound
  <2>2. CASE RevokeReread(c)
    <3>1. \A d \in Claims : \/ revoker'[d].saved = revoker[d].saved
                            \/ revoker'[d].saved = credentials[d]
                            \/ revoker'[d].saved = NotSaved
      BY <1>3, <2>2 DEF RevokeReread, FollowerTypeOK
    <3> QED
      BY <1>0, <1>1, <1>3, <2>2, <3>1 DEF RevokeReread, CopiesSound, ProofMeansOnChain, dbVars
  <2>3. CASE RevokeSave(c)
    <3>1. \A d \in Claims : \/ credentials'[d].proof = credentials[d].proof
                            \/ credentials'[d].proof = revoker[d].saved.proof
      BY <2>3 DEF RevokeSave, DbTypeOK, FollowerTypeOK, Revoking, CredentialRow
    <3>2. \A d \in Claims : revoker'[d].saved \in {revoker[d].saved, NotSaved}
      BY <1>3, <2>3 DEF RevokeSave, FollowerTypeOK
    <3> QED
      BY <1>0, <1>3, <3>1, <3>2 DEF CopiesSound, ProofMeansOnChain
  <2>4. CASE RevokeFails(c)
    <3>1. \A d \in Claims : revoker'[d].saved \in {revoker[d].saved, NotSaved}
      BY <1>3, <2>4 DEF RevokeFails, FollowerTypeOK
    <3> QED
      BY <1>0, <1>1, <1>3, <2>4, <3>1 DEF RevokeFails, CopiesSound, dbVars
  <2> QED
    BY <1>7, <2>1, <2>2, <2>3, <2>4 DEF Revoke
<1>8. CASE CrashPlatform
  <2>1. \A d \in Claims : revoker'[d].saved = NotSaved
    BY <1>3, <1>8 DEF CrashPlatform
  <2> QED
    BY <1>1, <1>3, <1>8, <2>1 DEF CrashPlatform, CopiesSound, dbVars
<1>9. ASSUME NEW w \in Workers, Request(w), ~UpdateStateCommit(w)
      PROVE  UNCHANGED <<credentials, revoker>>
  BY <1>9 DEF Request, Store, CheckUnprocessed, UpdateStateBegin, FailedState, ReadLatest,
     Send, Record, Follow, MarkFailed, RequestFails, dbVars
<1>10. ASSUME NEW k \in Watchers, NEW t \in TxIds, Watch(k, t), ~WriteProofs(k, t)
       PROVE  UNCHANGED <<credentials, revoker>>
  BY <1>10 DEF Watch, Receipt, NoReceipt, Confirm, Event, Revert, JobFails, dbVars
<1>11. ASSUME NEW t \in TxIds, Mine(t) \/ Drop(t) PROVE UNCHANGED <<credentials, revoker>>
  BY <1>11 DEF Mine, Drop, dbVars
<1>12. ASSUME NEW w \in Workers, NEW mode \in {"publish", "retry"}, Begin(w, mode)
       PROVE  UNCHANGED <<credentials, revoker>>
  BY <1>12 DEF Begin, dbVars
<1>13. ASSUME Scan \/ Expire PROVE UNCHANGED <<credentials, revoker>>
  BY <1>13 DEF Scan, Expire, dbVars
<1> QED
  BY <1>1, <1>2, <1>4, <1>5, <1>6, <1>7, <1>8, <1>9, <1>10, <1>11, <1>12, <1>13 DEF Next

\* Every step leaves what was announced on the chain: a credential that was notified of
\* keeps its row, and its state unless a revocation wrote the row.
LEMMA NotifiedIsOnChainStep ==
  ASSUME TypeOK, TxsSound, WatchersSound, RowsStay, NotifiedIsOnChain, Next
  PROVE  RowsStay' /\ NotifiedIsOnChain'
<1> USE DEF TypeOK
<1>0. onChain \subseteq onChain'
  BY AcceptedStays
<1> DEFINE Kept(c) == /\ credentials'[c].saved
                      /\ \/ /\ credentials'[c].state = credentials[c].state
                            /\ credentials'[c].revoked = credentials[c].revoked
                         \/ credentials'[c].revoked
           RowsKept == \A c \in notified : Kept(c)
           CopiesKept == \A c \in Claims :
                           revoker'[c].pc = "save" => revoker'[c].saved.saved
<1>1. ASSUME RowsKept, CopiesKept, UNCHANGED evtVars PROVE RowsStay' /\ NotifiedIsOnChain'
  <2>1. notified' = notified /\ announced' = announced
    BY <1>1 DEF evtVars
  <2>2. RowsStay'
    BY <1>1, <2>1 DEF RowsStay
  <2>3. announced' \subseteq onChain'
    BY <1>0, <2>1 DEF NotifiedIsOnChain
  <2>4. ASSUME NEW c \in notified
        PROVE  credentials'[c].state \in onChain' \/ credentials'[c].revoked
    <3>1. Kept(c)
      BY <1>1
    <3>2. credentials[c].state \in onChain \/ credentials[c].revoked
      BY DEF NotifiedIsOnChain
    <3>3. CASE credentials'[c].revoked
      BY <3>3
    <3>4. CASE /\ credentials'[c].state = credentials[c].state
               /\ credentials'[c].revoked = credentials[c].revoked
      BY <1>0, <3>2, <3>4, Zenon
    <3> QED
      BY <3>1, <3>3, <3>4, Zenon
  <2> QED
    BY <2>1, <2>2, <2>3, <2>4 DEF NotifiedIsOnChain
<1>2. ASSUME UNCHANGED credentials PROVE RowsKept
  BY <1>2 DEF RowsStay
<1>3. ASSUME UNCHANGED revoker PROVE CopiesKept
  BY <1>3 DEF RowsStay
<1>4. ASSUME NEW c \in Claims, Issue(c) PROVE RowsKept /\ UNCHANGED <<revoker, evtVars>>
  <2>1. c \notin notified
    BY <1>4 DEF Issue, RowsStay
  <2>2. \A d \in notified : credentials'[d] = credentials[d]
    BY <1>4, <2>1 DEF Issue, DbTypeOK, FollowerTypeOK
  <2> QED
    BY <1>4, <2>2 DEF Issue, RowsStay
<1>5. ASSUME NEW w \in Workers, UpdateStateCommit(w)
      PROVE  RowsKept /\ UNCHANGED <<revoker, evtVars>>
  <2>1. ASSUME NEW s, Assign(s), NEW c \in notified PROVE Kept(c)
    <3>1. c \in Claims /\ credentials[c].saved
      BY DEF FollowerTypeOK, RowsStay
    <3>2. CASE c \in Unassigned
      <4>1. credentials[c].state = Null /\ Null \notin onChain
        BY <3>2 DEF Unassigned, ChainTypeOK, StateIds, Null
      <4>2. credentials[c].revoked
        BY <4>1 DEF NotifiedIsOnChain
      <4> QED
        BY <2>1, <3>1, <3>2, <4>2 DEF Assign, DbTypeOK, CredentialRow
    <3>3. CASE c \notin Unassigned
      BY <2>1, <3>1, <3>3 DEF Assign
    <3> QED
      BY <3>2, <3>3
  <2> QED
    BY <1>2, <1>5, <2>1 DEF UpdateStateCommit, dbVars
<1>6. ASSUME NEW k \in Watchers, NEW t \in TxIds, WriteProofs(k, t)
      PROVE  RowsKept /\ UNCHANGED <<revoker, evtVars>>
  <2>1. ASSUME NEW c \in notified PROVE Kept(c)
    <3>1. c \in Claims /\ credentials[c].saved
      BY DEF FollowerTypeOK, RowsStay
    <3>2. PICK p : credentials'[c] \in {credentials[c], [credentials[c] EXCEPT !.proof = p]}
      BY <1>6, <3>1 DEF WriteProofs
    <3>3. CASE credentials'[c] = credentials[c]
      BY <3>1, <3>3
    <3>4. CASE credentials'[c] = [credentials[c] EXCEPT !.proof = p]
      BY <3>1, <3>4 DEF DbTypeOK, CredentialRow
    <3> QED
      BY <3>2, <3>3, <3>4
  <2> QED
    BY <1>6, <2>1 DEF WriteProofs
<1>7. ASSUME NEW k \in Watchers, NEW t \in TxIds, Event(k, t)
      PROVE  RowsStay' /\ NotifiedIsOnChain'
  <2>1. StateOf(t) \in onChain
    BY <1>7 DEF Event, WatchersSound, TxsSound, StateOf
  <2>2. UNCHANGED <<credentials, revoker, onChain>>
    BY <1>7 DEF Event, dbVars, chainVars
  <2>3. \A c \in notified' : \/ c \in notified
                             \/ credentials[c].saved /\ credentials[c].state = StateOf(t)
    BY <1>7 DEF Event
  <2>4. announced' \subseteq onChain
    BY <1>7, <2>1 DEF Event, NotifiedIsOnChain
  <2> QED
    BY <2>1, <2>2, <2>3, <2>4 DEF RowsStay, NotifiedIsOnChain
<1>8. ASSUME NEW c \in Claims, Revoke(c)
      PROVE  RowsKept /\ CopiesKept /\ UNCHANGED evtVars
  <2>1. CASE RevokeTree(c)
    <3>1. CopiesKept
      BY <2>1 DEF RevokeTree, RowsStay, FollowerTypeOK, Revoking
    <3> QED
      BY <1>2, <2>1, <3>1 DEF RevokeTree
  <2>2. CASE RevokeReread(c)
    <3>1. CopiesKept
      BY <2>2 DEF RevokeReread, RowsStay, FollowerTypeOK, NoRevoking
    <3> QED
      BY <1>2, <2>2, <3>1 DEF RevokeReread, dbVars
  <2>3. CASE RevokeSave(c)
    <3>1. CopiesKept
      BY <2>3 DEF RevokeSave, RowsStay, FollowerTypeOK, NoRevoking
    <3>2. revoker[c].saved.saved /\ revoker[c].saved \in CredentialRow
      BY <2>3 DEF RevokeSave, RowsStay, FollowerTypeOK, Revoking
    <3>3. credentials'[c].saved /\ credentials'[c].revoked
      BY <2>3, <3>2 DEF RevokeSave, DbTypeOK, CredentialRow
    <3>4. \A d \in Claims \ {c} : credentials'[d] = credentials[d]
      BY <2>3 DEF RevokeSave, DbTypeOK
    <3> QED
      BY <2>3, <3>1, <3>3, <3>4 DEF RevokeSave, RowsStay, FollowerTypeOK
  <2>4. CASE RevokeFails(c)
    <3>1. CopiesKept
      BY <2>4 DEF RevokeFails, RowsStay, FollowerTypeOK, NoRevoking
    <3> QED
      BY <1>2, <2>4, <3>1 DEF RevokeFails, dbVars
  <2> QED
    BY <1>8, <2>1, <2>2, <2>3, <2>4 DEF Revoke
<1>9. CASE CrashPlatform
  <2>1. CopiesKept
    BY <1>9 DEF CrashPlatform, NoRevoking
  <2> QED
    BY <1>1, <1>2, <1>9, <2>1 DEF CrashPlatform, dbVars
<1>10. ASSUME NEW w \in Workers, Request(w), ~UpdateStateCommit(w)
       PROVE  UNCHANGED <<credentials, revoker, evtVars>>
  BY <1>10 DEF Request, Store, CheckUnprocessed, UpdateStateBegin, FailedState, ReadLatest,
     Send, Record, Follow, MarkFailed, RequestFails, dbVars
<1>11. ASSUME NEW k \in Watchers, NEW t \in TxIds, Watch(k, t), ~WriteProofs(k, t),
              ~Event(k, t)
       PROVE  UNCHANGED <<credentials, revoker, evtVars>>
  BY <1>11 DEF Watch, Receipt, NoReceipt, Confirm, Revert, JobFails, dbVars
<1>12. ASSUME NEW t \in TxIds, Mine(t) \/ Drop(t)
       PROVE  UNCHANGED <<credentials, revoker, evtVars>>
  BY <1>12 DEF Mine, Drop, dbVars
<1>13. ASSUME NEW w \in Workers, NEW mode \in {"publish", "retry"}, Begin(w, mode)
       PROVE  UNCHANGED <<credentials, revoker, evtVars>>
  BY <1>13 DEF Begin, dbVars
<1>14. ASSUME Scan \/ Expire PROVE UNCHANGED <<credentials, revoker, evtVars>>
  BY <1>14 DEF Scan, Expire, dbVars
<1> QED
  BY <1>1, <1>2, <1>3, <1>4, <1>5, <1>6, <1>7, <1>8, <1>9, <1>10, <1>11, <1>12, <1>13, <1>14
     DEF Next

-----------------------------------------------------------------------------
(* The theorems *)

\* A step that changes no variable keeps the inductive invariant.
LEMMA StutteringStep == IInv /\ UNCHANGED vars => IInv'
BY DEF IInv, TypeOK, DbTypeOK, ChainTypeOK, RequestTypeOK, FollowerTypeOK, TxsSound,
   RequestsSound, WatchersSound, ConfirmedIsAnchored, Confirmed, ProofMeansOnChain,
   CopiesSound, RowsStay, NotifiedIsOnChain, vars, dbVars, chainVars, reqVars, evtVars

\* The inductive invariant of publication: it holds at first, and every step of a
\* request, a watcher, a revocation, the chain or a fault keeps it.
THEOREM Invariance == Spec => []IInv
<1>1. Init => IInv
  BY InitInvariant
<1>2. IInv /\ [Next]_vars => IInv'
  <2>1. ASSUME IInv, Next PROVE IInv'
    BY <2>1, TypeStep, TxsSoundStep, RequestsSoundStep, WatchersSoundStep,
       ConfirmedIsAnchoredStep, ProofMeansOnChainStep, NotifiedIsOnChainStep DEF IInv
  <2> QED
    BY <2>1, StutteringStep
<1> QED
  BY <1>1, <1>2, PTL DEF Spec

\* Every variable keeps its type, so no step reads a row, a transaction or a state
\* that does not exist.
THEOREM TypeCorrect == Spec => []TypeOK
<1>1. IInv => TypeOK
  BY DEF IInv
<1> QED
  BY <1>1, Invariance, PTL

\* A confirmed row is that of a transaction of its state which the chain accepted: no
\* fault, race of two requests, or watcher with an old copy writes one that is not.
THEOREM ConfirmedAnchored == Spec => []ConfirmedIsAnchored
<1>1. IInv => ConfirmedIsAnchored
  BY DEF IInv
<1> QED
  BY <1>1, Invariance, PTL

\* No holder is given an MTP proof for a state that is not on the chain, whichever
\* old rows revocations write back.
THEOREM ProofsOnChain == Spec => []ProofMeansOnChain
<1>1. IInv => ProofMeansOnChain
  BY DEF IInv
<1> QED
  BY <1>1, Invariance, PTL

\* Nobody is told of a state or a credential before it is on the chain, although the
\* events follow errors too, and come twice when both watchers send them.
THEOREM NotifiedOnChain == Spec => []NotifiedIsOnChain
<1>1. IInv => NotifiedIsOnChain
  BY DEF IInv
<1> QED
  BY <1>1, Invariance, PTL

-----------------------------------------------------------------------------
(* What a step may change. *)

\* A request that has a row.
Late == {"latest", "send", "record", "markFailed"}

\* The bounds of the tables.
LEMMA Bounds ==
  ASSUME TypeOK
  PROVE  /\ nStates \in Nat \ {0} /\ nTxs \in Nat /\ chain \in Nat \ {0}
         /\ nStates \in 1..nStates /\ 1..nStates \subseteq StateIds /\ MaxStates \in Nat /\ MaxTxs \in Nat
BY BoundsAssumption DEF TypeOK, DbTypeOK, ChainTypeOK, StateIds

\* The trees of a state are for good, and so is its row.
LEMMA StatesStay ==
  ASSUME TypeOK, Next
  PROVE  /\ nStates \in Nat /\ nStates' \in Nat /\ nStates <= nStates'
         /\ \A s \in 1..nStates : states'[s].claims = states[s].claims /\ states'[s].revs = states[s].revs
<1> USE DEF TypeOK, DbTypeOK
<1>0. nStates \in Nat /\ 1..nStates \subseteq StateIds
  BY BoundsAssumption DEF StateIds
<1> DEFINE Stay == /\ nStates' \in Nat /\ nStates <= nStates'
                   /\ \A s \in 1..nStates : states'[s].claims = states[s].claims /\ states'[s].revs = states[s].revs
<1> SUFFICES Stay
  BY <1>0
<1>1. ASSUME UNCHANGED <<states, nStates>> PROVE Stay
  BY <1>0, <1>1
<1>2. ASSUME NEW r, NEW status, NEW t, nStates' = nStates,
             states' = [states EXCEPT ![r].status = status, ![r].tx = t]
      PROVE  Stay
  BY <1>0, <1>2 DEF StateRow
<1>3. ASSUME NEW s, NEW leaves, NEW revs, SaveRow(s, leaves, revs) PROVE Stay
  BY <1>0, <1>3 DEF SaveRow
<1> HIDE DEF Stay
<1>5. ASSUME NEW w \in Workers, Request(w) PROVE Stay
  <2>1. CASE Record(w)
    <3>1. /\ nStates' = nStates
          /\ states' = [states EXCEPT ![loc[w].row].status = "transacted", ![loc[w].row].tx = loc[w].tx]
      BY <2>1 DEF Record, Follow
    <3> QED
      BY <1>2, <3>1
  <2>2. CASE MarkFailed(w)
    <3>1. /\ nStates' = nStates
          /\ states' = [states EXCEPT ![loc[w].row].status = "failed", ![loc[w].row].tx = Null]
      BY <2>2 DEF MarkFailed
    <3> QED
      BY <1>2, <3>1
  <2>3. CASE UpdateStateCommit(w)
    BY <1>1, <1>3, <2>3 DEF UpdateStateCommit, dbVars
  <2>4. CASE ~ (Record(w) \/ MarkFailed(w) \/ UpdateStateCommit(w))
    BY <1>1, <1>5, <2>4 DEF Request, Store, CheckUnprocessed, UpdateStateBegin, FailedState, ReadLatest, Send,
       RequestFails, dbVars
  <2> QED
    BY <2>1, <2>2, <2>3, <2>4
<1>6. ASSUME NEW k \in Watchers, NEW t \in TxIds, Watch(k, t) PROVE Stay
  <2>1. CASE Confirm(k, t)
    <3>1. nStates' = nStates
      BY <2>1 DEF Confirm
    <3>2. CASE states' = [states EXCEPT ![StateOf(t)].status = "confirmed", ![StateOf(t)].tx = t]
      BY <1>2, <3>1, <3>2
    <3> QED
      BY <1>1, <2>1, <3>1, <3>2 DEF Confirm
  <2>2. CASE Revert(k, t)
    <3>1. /\ nStates' = nStates
          /\ states' = [states EXCEPT ![StateOf(t)].status = "failed", ![StateOf(t)].tx = t]
      BY <2>2 DEF Revert
    <3> QED
      BY <1>2, <3>1
  <2>3. CASE ~ (Confirm(k, t) \/ Revert(k, t))
    BY <1>1, <1>6, <2>3 DEF Watch, Receipt, NoReceipt, WriteProofs, Event, JobFails, dbVars
  <2> QED
    BY <2>1, <2>2, <2>3
<1>7. ASSUME UNCHANGED dbVars PROVE Stay
  BY <1>1, <1>7 DEF dbVars
<1> QED
  BY <1>1, <1>5, <1>6, <1>7 DEF Next, Issue, Revoke, RevokeTree, RevokeReread, RevokeSave,
     RevokeFails, Begin, Mine, Drop, Scan, Expire, CrashPlatform

\* The row that UpdateState saves or finds has the trees it asked for.
LEMMA RowMade ==
  ASSUME TypeOK, NEW s, NEW leaves, NEW revs, SaveRow(s, leaves, revs)
  PROVE  s \in 1..nStates' /\ s # Null /\ states'[s].claims = leaves /\ states'[s].revs = revs
<1>0. nStates \in Nat /\ nStates \in StateIds /\ MaxStates \in Nat
  BY BoundsAssumption DEF TypeOK, DbTypeOK, StateIds
<1>1. CASE s \in RowsOf(leaves, revs) /\ UNCHANGED <<states, nStates>>
  BY <1>0, <1>1 DEF RowsOf, Null
<1>2. CASE s \notin RowsOf(leaves, revs) \/ ~ UNCHANGED <<states, nStates>>
  <2>1. /\ RowsLeft /\ s = nStates + 1 /\ nStates' = s
        /\ states' = [states EXCEPT ![s] = [status |-> "created", claims |-> leaves,
                                            revs |-> revs, tx |-> Null]]
    BY <1>2 DEF SaveRow
  <2>2. s \in StateIds
    BY <1>0, <2>1 DEF RowsLeft, StateIds
  <2> QED
    BY <1>0, <2>1, <2>2 DEF TypeOK, DbTypeOK, Null
<1> QED
  BY <1>1, <1>2

\* Only these write a row.
LEMMA RowSteps ==
  ASSUME Next
  PROVE  \/ UNCHANGED <<states, nStates>>
         \/ \E w \in Workers : UpdateStateCommit(w) \/ Record(w) \/ MarkFailed(w)
         \/ \E k \in Watchers, t \in TxIds : Confirm(k, t) \/ Revert(k, t)
<1>1. ASSUME NEW w \in Workers, Request(w), ~ UpdateStateCommit(w), ~ Record(w), ~ MarkFailed(w)
      PROVE  UNCHANGED <<states, nStates>>
  BY <1>1 DEF Request, Store, CheckUnprocessed, UpdateStateBegin, FailedState, ReadLatest, Send,
     RequestFails, dbVars
<1>2. ASSUME NEW k \in Watchers, NEW t \in TxIds, Watch(k, t), ~ Confirm(k, t), ~ Revert(k, t)
      PROVE  UNCHANGED <<states, nStates>>
  BY <1>2 DEF Watch, Receipt, NoReceipt, WriteProofs, Event, JobFails, dbVars
<1> QED
  BY <1>1, <1>2 DEF Next, Issue, Revoke, RevokeTree, RevokeReread, RevokeSave, RevokeFails,
     Begin, Mine, Drop, Scan, Expire, CrashPlatform, dbVars

\* A row whose status and transaction are written keeps the rest, and the others are kept.
LEMMA RowWritten ==
  ASSUME TypeOK, NEW r \in StateIds, NEW status, NEW t,
         states' = [states EXCEPT ![r].status = status, ![r].tx = t]
  PROVE  /\ states'[r].status = status /\ states'[r].tx = t
         /\ \A s \in StateIds : s # r => states'[s] = states[s]
BY DEF TypeOK, DbTypeOK, StateRow

\* Only UpdateState makes a row or adds a leaf, and no step takes a revocation away.
LEMMA TreeSteps ==
  ASSUME Next
  PROVE  /\ revTree \subseteq revTree'
         /\ \/ \E w \in Workers : UpdateStateCommit(w)
            \/ UNCHANGED <<nStates, claimsTree>>
<1>1. ASSUME NEW w \in Workers, Request(w), ~ UpdateStateCommit(w)
      PROVE  UNCHANGED <<nStates, claimsTree, revTree>>
  BY <1>1 DEF Request, Store, CheckUnprocessed, UpdateStateBegin, FailedState, ReadLatest, Send,
     Record, Follow, MarkFailed, RequestFails, dbVars
<1>2. ASSUME NEW w \in Workers, UpdateStateCommit(w) PROVE revTree' = revTree
  BY <1>2 DEF UpdateStateCommit, dbVars
<1>3. ASSUME NEW k \in Watchers, NEW t \in TxIds, Watch(k, t)
      PROVE  UNCHANGED <<nStates, claimsTree, revTree>>
  BY <1>3 DEF Watch, Receipt, NoReceipt, WriteProofs, Confirm, Event, Revert, JobFails, dbVars
<1> QED
  BY <1>1, <1>2, <1>3 DEF Next, Issue, Revoke, RevokeTree, RevokeReread, RevokeSave, RevokeFails,
     Begin, Mine, Drop, Scan, Expire, CrashPlatform, dbVars

\* Only a request that sends, and the chain, change the chain.
LEMMA ChainSteps ==
  ASSUME Next
  PROVE  \/ UNCHANGED chainVars
         \/ \E w \in Workers : Send(w) /\ Submit(w)
         \/ \E t \in TxIds : Mine(t) \/ Drop(t)
<1>1. ASSUME NEW w \in Workers, Request(w), ~(Send(w) /\ Submit(w)) PROVE UNCHANGED chainVars
  BY <1>1 DEF Request, Store, CheckUnprocessed, UpdateStateBegin, UpdateStateCommit,
     FailedState, ReadLatest, Send, Record, Follow, MarkFailed, RequestFails
<1>2. ASSUME NEW k \in Watchers, NEW t \in TxIds, Watch(k, t) PROVE UNCHANGED chainVars
  BY <1>2 DEF Watch, Receipt, NoReceipt, WriteProofs, Confirm, Event, Revert, JobFails
<1> QED
  BY <1>1, <1>2 DEF Next, Issue, Revoke, RevokeTree, RevokeReread, RevokeSave, RevokeFails,
     Begin, Scan, Expire, CrashPlatform

\* What a transaction is of never changes, and neither does what the chain has taken.
LEMMA TxsStay ==
  ASSUME TypeOK, TxsSound, Next
  PROVE  /\ nTxs \in Nat /\ nTxs' \in Nat /\ nTxs <= nTxs' /\ onChain \subseteq onChain'
         /\ \A t \in 1..nTxs : t \in TxIds /\ txs'[t].new = txs[t].new
<1>0. nTxs \in Nat /\ 1..nTxs \subseteq TxIds
  BY BoundsAssumption DEF TypeOK, ChainTypeOK, TxIds
<1>1. onChain \subseteq onChain'
  BY AcceptedStays
<1>2. CASE UNCHANGED chainVars
  BY <1>0, <1>1, <1>2 DEF chainVars
<1>3. ASSUME NEW w \in Workers, Submit(w)
      PROVE  nTxs' = nTxs + 1 /\ \A t \in 1..nTxs : txs'[t].new = txs[t].new
  BY <1>0, <1>3 DEF Submit, TypeOK, ChainTypeOK
<1>4. ASSUME NEW u \in TxIds, Mine(u) \/ Drop(u)
      PROVE  nTxs' = nTxs /\ \A t \in 1..nTxs : txs'[t].new = txs[t].new
  <2>1. nTxs' = nTxs /\ \E status : txs' = [txs EXCEPT ![u].status = status]
    BY <1>4 DEF Mine, Drop
  <2> QED
    BY <1>0, <2>1 DEF TypeOK, ChainTypeOK, Transaction
<1> QED
  BY <1>0, <1>1, <1>2, <1>3, <1>4, ChainSteps

\* Where a request that is about to publish has its row from.
LEMMA LateSteps ==
  ASSUME TypeOK, Next, NEW w \in Workers, pc'[w] \in Late
  PROVE  \/ /\ pc[w] \in Late /\ loc'[w].row = loc[w].row
            /\ pc'[w] = "record" => \/ pc[w] = "record" /\ loc'[w].tx = loc[w].tx
                                    \/ pc[w] = "send" /\ Submit(w) /\ loc'[w].tx = nTxs'
            /\ pc'[w] = "send" => \/ pc[w] = "send" /\ loc'[w].latest = loc[w].latest
                                  \/ pc[w] = "latest" /\ Newest(loc'[w].latest, Confirmed)
         \/ pc'[w] = "latest" /\ UpdateStateCommit(w)
         \/ pc'[w] = "latest" /\ UNCHANGED dbVars /\ loc'[w].row \in Failed
<1> USE DEF TypeOK, RequestTypeOK
<1> DEFINE Goal == \/ /\ pc[w] \in Late /\ loc'[w].row = loc[w].row
                      /\ pc'[w] = "record" => \/ pc[w] = "record" /\ loc'[w].tx = loc[w].tx
                                              \/ pc[w] = "send" /\ Submit(w) /\ loc'[w].tx = nTxs'
                      /\ pc'[w] = "send" => \/ pc[w] = "send" /\ loc'[w].latest = loc[w].latest
                                            \/ pc[w] = "latest" /\ Newest(loc'[w].latest, Confirmed)
                   \/ pc'[w] = "latest" /\ UpdateStateCommit(w)
                   \/ pc'[w] = "latest" /\ UNCHANGED dbVars /\ loc'[w].row \in Failed
<1> SUFFICES Goal
  OBVIOUS
<1>1. CASE pc'[w] = pc[w] /\ loc'[w] = loc[w]
  BY <1>1
<1>2. ASSUME NEW v \in Workers, NEW where, NEW l, pc' = [pc EXCEPT ![v] = where],
             loc' = [loc EXCEPT ![v] = l]
      PROVE  /\ v # w => pc'[w] = pc[w] /\ loc'[w] = loc[w]
             /\ v = w => pc'[w] = where /\ loc'[w] = l
  BY <1>2
<1>3. ASSUME NEW v \in Workers, NEW where, NEW l, pc' = [pc EXCEPT ![v] = where],
             loc' = [loc EXCEPT ![v] = l], where \notin Late
      PROVE  Goal
  BY <1>1, <1>2, <1>3
<1>4. ASSUME NEW v \in Workers, Request(v) PROVE Goal
  <2>1. ASSUME Release(v) PROVE Goal
    BY <1>3, <2>1 DEF Release, Late
  <2>2. ASSUME pc[v] \in Late, GoTo(v, "markFailed", loc[v]) PROVE Goal
    BY <1>1, <1>2, <2>2 DEF GoTo
  <2>3. ASSUME pc[v] \in Late, PublishFails(v) PROVE Goal
    BY <2>1, <2>2, <2>3 DEF PublishFails
  <2>4. CASE Store(v)
    BY <2>4 DEF Store, Late
  <2>5. CASE CheckUnprocessed(v) \/ UpdateStateBegin(v)
    <3>1. ASSUME NEW where \in {"update", "commit"}, NEW l, GoTo(v, where, l) PROVE Goal
      BY <1>3, <3>1 DEF GoTo, Late
    <3> QED
      BY <2>1, <2>5, <3>1 DEF CheckUnprocessed, UpdateStateBegin
  <2>6. CASE UpdateStateCommit(v)
    <3>1. ASSUME NEW l, GoTo(v, "latest", l) PROVE Goal
      BY <1>1, <1>2, <2>6, <3>1 DEF GoTo
    <3> QED
      BY <2>1, <2>6, <3>1 DEF UpdateStateCommit
  <2>7. CASE FailedState(v)
    <3>1. ASSUME NEW s \in StateIds, Newest(s, Failed \ {Genesis}),
                 GoTo(v, "latest", [loc[v] EXCEPT !.row = s])
          PROVE  Goal
      <4>1. [loc[v] EXCEPT !.row = s].row = s /\ s \in Failed
        BY <3>1 DEF Locals, Newest
      <4> QED
        BY <1>1, <1>2, <2>7, <3>1, <4>1 DEF GoTo, FailedState
    <3> QED
      BY <2>1, <2>7, <3>1 DEF FailedState
  <2>8. CASE ReadLatest(v)
    <3>1. PICK s \in StateIds : Newest(s, Confirmed) /\ GoTo(v, "send", [loc[v] EXCEPT !.latest = s])
      BY <2>8 DEF ReadLatest
    <3>2. /\ [loc[v] EXCEPT !.latest = s].row = loc[v].row
          /\ [loc[v] EXCEPT !.latest = s].latest = s
      BY <3>1 DEF Locals
    <3>3. pc[v] = "latest"
      BY <2>8 DEF ReadLatest
    <3> QED
      BY <1>1, <1>2, <3>1, <3>2, <3>3 DEF GoTo, Late
  <2>9. CASE Send(v)
    <3>1. /\ [loc[v] EXCEPT !.tx = nTxs'].row = loc[v].row
          /\ [loc[v] EXCEPT !.tx = nTxs'].tx = nTxs'
          /\ pc[v] = "send"
      BY <2>9 DEF Locals, Send
    <3>2. ASSUME Submit(v), GoTo(v, "record", [loc[v] EXCEPT !.tx = nTxs']) PROVE Goal
      BY <1>1, <1>2, <3>1, <3>2 DEF GoTo, Late
    <3> QED
      BY <2>3, <2>9, <3>1, <3>2 DEF Send, Late
  <2>10. CASE Record(v) \/ MarkFailed(v)
    BY <1>3, <2>1, <2>10 DEF Record, Follow, MarkFailed, Late
  <2>11. CASE RequestFails(v)
    BY <2>1, <2>3, <2>11 DEF RequestFails, Late
  <2> QED
    BY <1>4, <2>4, <2>5, <2>6, <2>7, <2>8, <2>9, <2>10, <2>11 DEF Request
<1>5. ASSUME NEW v \in Workers, NEW mode \in {"publish", "retry"}, Begin(v, mode) PROVE Goal
  BY <1>3, <1>5 DEF Begin, Late
<1>6. CASE CrashPlatform
  BY <1>6 DEF CrashPlatform, Late
<1> QED
  BY <1>1, <1>4, <1>5, <1>6 DEF Next, Issue, Revoke, RevokeTree, RevokeReread, RevokeSave, RevokeFails,
     Watch, Receipt, NoReceipt, WriteProofs, Confirm, Event, Revert, JobFails, Mine, Drop, Scan, Expire, reqVars

-----------------------------------------------------------------------------
(* The publication implements the ledger. *)

\* A row that is sent was made, on top of one the chain has had, and what it has had was
\* sent; a row that is not there has no proof.
LedgerFits ==
  /\ Genesis \in onChain /\ onChain \subseteq 1..nStates
  /\ \A w \in Workers : pc[w] \in Late => loc[w].row \in 1..nStates
  /\ \A w \in Workers : pc[w] = "send" => loc[w].latest \in onChain
  /\ \A t \in 1..nTxs : txs[t].new \in 1..nStates
  /\ \A c \in Claims : ~ credentials[c].saved => credentials[c].proof.state = Null

\* It holds at first.
LEMMA LedgerFitsInit == Init => LedgerFits
BY DEF Init, Genesis, LedgerFits, Late, NotSaved, NoProof

\* A transaction is of a row that was made, since the request that sends it has one.
LEMMA SentWasMade ==
  ASSUME IInv, LedgerFits, Next, NEW t \in 1..nTxs'
  PROVE  txs'[t].new \in 1..nStates'
<1>0. TypeOK /\ TxsSound
  BY DEF IInv
<1>1. nStates \in Nat /\ nStates' \in Nat /\ nStates <= nStates'
  BY <1>0, StatesStay
<1>2. CASE t \in 1..nTxs
  BY <1>0, <1>1, <1>2, TxsStay DEF LedgerFits
<1>3. CASE t \notin 1..nTxs
  <2>1. PICK w \in Workers : Send(w) /\ Submit(w)
    BY <1>0, <1>3, TxsStay, ChainSteps DEF chainVars, Mine, Drop
  <2>2. /\ nTxs' = nTxs + 1 /\ nTxs < MaxTxs /\ loc[w].row \in 1..nStates
        /\ txs' = [txs EXCEPT ![nTxs'] = [status |-> "pending", old |-> loc[w].latest, new |-> loc[w].row]]
    BY <2>1 DEF Send, Submit, TxsLeft, LedgerFits, Late
  <2>3. t = nTxs' /\ t \in TxIds
    BY <1>0, <1>3, <2>2, Bounds DEF TxIds
  <2> QED
    BY <1>0, <1>1, <2>2, <2>3 DEF TypeOK, ChainTypeOK
<1> QED
  BY <1>2, <1>3

\* A row that is gone, or not there yet, has no proof.
LEMMA UnsavedUnproven ==
  ASSUME IInv, LedgerFits, Next, NEW c \in Claims, ~ credentials'[c].saved
  PROVE  credentials'[c].proof.state = Null
<1> USE DEF LedgerFits
<1>0. TypeOK /\ RowsStay /\ credentials \in [Claims -> CredentialRow] /\ revoker \in [Claims -> Revoking]
  BY DEF IInv, TypeOK, DbTypeOK, FollowerTypeOK
<1>1. CASE UNCHANGED credentials
  BY <1>1
<1>2. ASSUME NEW d \in Claims, Issue(d) PROVE credentials'[c].proof.state = Null
  BY <1>0, <1>2 DEF Issue, NotSaved
<1>3. ASSUME NEW w \in Workers, UpdateStateCommit(w) PROVE credentials'[c].proof.state = Null
  BY <1>0, <1>1, <1>3 DEF UpdateStateCommit, Assign, dbVars, CredentialRow
<1>4. ASSUME NEW k \in Watchers, NEW t \in TxIds, WriteProofs(k, t)
      PROVE  credentials'[c].proof.state = Null
  BY <1>0, <1>4 DEF WriteProofs, WithMtpProof, CredentialRow
<1>5. ASSUME NEW d \in Claims, RevokeSave(d) PROVE credentials'[c].proof.state = Null
  <2>1. revoker[d].saved.saved
    BY <1>0, <1>5 DEF RevokeSave, RowsStay
  <2>2. credentials' = [credentials EXCEPT ![d] = [revoker[d].saved EXCEPT !.revoked = TRUE]]
    BY <1>5 DEF RevokeSave
  <2>3. [revoker[d].saved EXCEPT !.revoked = TRUE].saved
    BY <1>0, <2>1 DEF Revoking, CredentialRow
  <2> QED
    BY <1>0, <2>2, <2>3
<1>6. ASSUME NEW w \in Workers, Request(w), ~UpdateStateCommit(w) PROVE UNCHANGED credentials
  BY <1>6 DEF Request, Store, CheckUnprocessed, UpdateStateBegin, FailedState, ReadLatest,
     Send, Record, Follow, MarkFailed, RequestFails, dbVars
<1>7. ASSUME NEW k \in Watchers, NEW t \in TxIds, Watch(k, t), ~WriteProofs(k, t)
      PROVE  UNCHANGED credentials
  BY <1>7 DEF Watch, Receipt, NoReceipt, Confirm, Event, Revert, JobFails, dbVars
<1> QED
  BY <1>1, <1>2, <1>3, <1>4, <1>5, <1>6, <1>7 DEF Next, Revoke, RevokeTree, RevokeReread,
     RevokeFails, Begin, Mine, Drop, Scan, Expire, CrashPlatform, dbVars

\* Every step keeps what the ledger needs.
LEMMA LedgerFitsStep ==
  ASSUME IInv, LedgerFits, Next PROVE LedgerFits'
<1>0. TypeOK /\ TxsSound /\ ConfirmedIsAnchored
  BY DEF IInv
<1>1. /\ onChain \subseteq onChain' /\ Confirmed \subseteq onChain
      /\ nStates \in Nat /\ nStates' \in Nat /\ nStates <= nStates'
  BY <1>0, AcceptedStays, StatesStay DEF ConfirmedIsAnchored, LedgerFits
<1>2. ASSUME NEW w \in Workers, pc'[w] \in Late PROVE loc'[w].row \in 1..nStates'
  <2>1. CASE pc[w] \in Late /\ loc'[w].row = loc[w].row
    BY <1>1, <2>1 DEF LedgerFits
  <2>2. CASE pc'[w] = "latest" /\ UpdateStateCommit(w)
    <3>1. ~ Release(w) /\ loc \in [Workers -> Locals]
      BY <1>0, <2>2 DEF Release, TypeOK, RequestTypeOK
    <3>2. PICK s \in StateIds : /\ SaveRow(s, NewLeaves(w), loc[w].revs)
                                /\ GoTo(w, "latest", [NoLocals EXCEPT !.row = s])
      BY <2>2, <3>1 DEF UpdateStateCommit
    <3>3. loc'[w].row = s
      BY <3>1, <3>2 DEF GoTo, NoLocals
    <3> QED
      BY <1>0, <3>2, <3>3, RowMade
  <2>3. CASE UNCHANGED dbVars /\ loc'[w].row \in Failed
    BY <2>3 DEF Failed, dbVars
  <2> QED
    BY <1>0, <1>2, <2>1, <2>2, <2>3, LateSteps
<1>3. ASSUME NEW w \in Workers, pc'[w] = "send" PROVE loc'[w].latest \in onChain'
  BY <1>0, <1>1, <1>3, LateSteps DEF LedgerFits, Late, Newest
<1>4. onChain' \subseteq 1..nStates'
  <2>1. CASE onChain' = onChain
    BY <1>1, <2>1 DEF LedgerFits
  <2>2. ASSUME NEW t \in TxIds, Mine(t) PROVE onChain' \subseteq 1..nStates'
    <3>1. t \in 1..nTxs /\ nStates' = nStates
      BY <1>0, <2>2, BoundsAssumption DEF Mine, dbVars, TxsSound, TypeOK, ChainTypeOK, TxIds
    <3> QED
      BY <2>1, <2>2, <3>1 DEF Mine, LedgerFits
  <2> QED
    BY <2>1, <2>2, ChainSteps DEF chainVars, Submit, Drop
<1> QED
  BY <1>1, <1>2, <1>3, <1>4, SentWasMade, UnsavedUnproven DEF LedgerFits

\* The ledger does not see a step that leaves alone what it is made of.
LEMMA LedgerStutters ==
  ASSUME Trees' = Trees, Sent' = Sent, chain' = chain, onChain' = onChain, Confirmed' = Confirmed,
         Labels' = Labels, Held' = Held, announced' = announced
  PROVE  [Ledger!Next]_(Ledger!ledger)
BY DEF Ledger!ledger

\* What the rows, the transactions and the copies are to the ledger.
LEMMA LedgerFrame ==
  /\ UNCHANGED <<states, nStates>> => Trees' = Trees /\ Confirmed' = Confirmed
  /\ UNCHANGED credentials => Labels' = Labels
  /\ UNCHANGED revoker => Held' = Held
  /\ UNCHANGED <<txs, nTxs>> => Sent' = Sent
BY DEF Trees, Confirmed, Labels, Held, Sent

\* The states of the ledger are the rows.
LEMMA LedgerStates == DOMAIN Trees = 1..nStates
BY DEF Trees

\* A row whose status is written stays where it is in the ledger, and is confirmed or not.
LEMMA StatusWritten ==
  ASSUME TypeOK, NEW r \in 1..nStates, NEW status, NEW t, nStates' = nStates,
         states' = [states EXCEPT ![r].status = status, ![r].tx = t]
  PROVE  /\ Trees' = Trees
         /\ status = "confirmed" => Confirmed' = Confirmed \cup {r}
         /\ status # "confirmed" => Confirmed' = Confirmed \ {r}
<1>1. 1..nStates \subseteq StateIds
  BY Bounds
<1>2. /\ states'[r].status = status
      /\ \A s \in 1..nStates : s # r => states'[s] = states[s]
  BY <1>1, RowWritten
<1>3. \A s \in 1..nStates : states'[s].claims = states[s].claims /\ states'[s].revs = states[s].revs
  BY <1>1 DEF TypeOK, DbTypeOK, StateRow
<1>4. Trees' = Trees
  BY <1>3 DEF Trees
<1>5. \A s \in 1..nStates : s # r => (s \in Confirmed' <=> s \in Confirmed)
  BY <1>2 DEF Confirmed
<1>6. r \in Confirmed' <=> status = "confirmed"
  BY <1>2 DEF Confirmed
<1>7. Confirmed \subseteq 1..nStates /\ Confirmed' \subseteq 1..nStates
  BY DEF Confirmed
<1>8. CASE status = "confirmed"
  BY <1>4, <1>5, <1>6, <1>7, <1>8
<1>9. CASE status # "confirmed"
  BY <1>4, <1>5, <1>6, <1>7, <1>9
<1> QED
  BY <1>8, <1>9

\* The state of a watcher past the receipt was made, and the chain has had it.
LEMMA WatchedState ==
  ASSUME IInv, LedgerFits, NEW k \in Watchers, NEW t \in TxIds,
         job[k][t] \in {"proofs", "confirm", "event"}
  PROVE  StateOf(t) \in onChain /\ StateOf(t) \in 1..nStates
<1>1. txs[t].status = "success" /\ TypeOK
  BY DEF IInv, WatchersSound
<1>2. t \in 1..nTxs
  BY <1>1, BoundsAssumption DEF IInv, TxsSound, TypeOK, ChainTypeOK, TxIds
<1> QED
  BY <1>1, <1>2 DEF IInv, TxsSound, StateOf, LedgerFits

\* UpdateState makes a state, or finds it made.
LEMMA LedgerMade ==
  ASSUME IInv, LedgerFits, NEW w \in Workers, UpdateStateCommit(w)
  PROVE  [Ledger!Next]_(Ledger!ledger)
<1>0. TypeOK
  BY DEF IInv
<1>1. /\ Sent' = Sent /\ Held' = Held /\ UNCHANGED <<chain, onChain, announced>>
  BY <1>0, LedgerFrame DEF UpdateStateCommit, chainVars, evtVars
<1>2. Labels' = Labels
  <2>1. ASSUME NEW c \in Claims PROVE credentials'[c].proof.state = credentials[c].proof.state
    BY <1>0 DEF UpdateStateCommit, Assign, dbVars, TypeOK, DbTypeOK, CredentialRow
  <2> QED
    BY <2>1 DEF Labels
<1>3. CASE UNCHANGED <<states, nStates>>
  BY <1>1, <1>2, <1>3, LedgerFrame, LedgerStutters
<1>4. CASE ~ UNCHANGED <<states, nStates>>
  <2> DEFINE leaves == NewLeaves(w)
             revs == loc[w].revs
             tree == [claims |-> leaves, revs |-> revs]
  <2>1. /\ RowsOf(leaves, revs) = {} /\ RowsLeft /\ nStates' = nStates + 1
        /\ states' = [states EXCEPT ![nStates + 1] = [status |-> "created", claims |-> leaves,
                                                      revs |-> revs, tx |-> Null]]
    BY <1>4 DEF UpdateStateCommit, SaveRow, dbVars
  <2>2. leaves \subseteq Claims /\ revs \subseteq Claims
    BY <1>0 DEF NewLeaves, TypeOK, RequestTypeOK, Locals
  <2>3. nStates \in Nat /\ nStates + 1 \in StateIds /\ 1..nStates \subseteq StateIds
    BY <1>0, <2>1, Bounds DEF RowsLeft, StateIds
  <2> HIDE DEF leaves, revs
  <2>4. /\ \A s \in 1..nStates : states'[s] = states[s]
        /\ states'[nStates + 1] = [status |-> "created", claims |-> leaves, revs |-> revs, tx |-> Null]
    BY <1>0, <2>1, <2>3 DEF TypeOK, DbTypeOK
  <2>5. Confirmed' = Confirmed
    <3>1. ASSUME NEW s PROVE s \in Confirmed' <=> s \in Confirmed
      BY <2>1, <2>3, <2>4 DEF Confirmed
    <3> QED
      BY <3>1
  <2>6. Trees' = Append(Trees, tree)
    <3>1. Len(Trees) = nStates /\ DOMAIN Trees = 1..nStates /\ Trees \in Seq(Ledger!Tree)
      <4>1. ASSUME NEW s \in 1..nStates PROVE Trees[s] \in Ledger!Tree
        BY <1>0, <2>3, <4>1 DEF Trees, Ledger!Tree, TypeOK, DbTypeOK, StateRow
      <4>2. Trees = [s \in 1..nStates |-> Trees[s]]
        BY DEF Trees
      <4> QED
        BY <2>3, <4>1, <4>2
    <3>2. Append(Trees, tree) = [s \in 1..nStates + 1 |-> IF s = nStates + 1 THEN tree ELSE Trees[s]]
      BY <2>3, <3>1
    <3>3. ASSUME NEW s \in 1..nStates + 1
          PROVE  [claims |-> states'[s].claims, revs |-> states'[s].revs] =
                 IF s = nStates + 1 THEN tree ELSE Trees[s]
      <4>1. s \in 1..nStates \/ s = nStates + 1
        BY <2>3
      <4> QED
        BY <2>3, <2>4, <4>1 DEF Trees
    <3> QED
      BY <2>1, <3>2, <3>3 DEF Trees
  <2>7. ASSUME NEW s \in DOMAIN Trees, s # Genesis PROVE Trees[s] # tree
    BY <2>1, <2>7 DEF Trees, RowsOf
  <2>8. tree \in Ledger!Tree
    BY <2>2 DEF Ledger!Tree
  <2> HIDE DEF tree
  <2>9. Ledger!Make(tree)
    BY <1>1, <1>2, <2>5, <2>6, <2>7 DEF Ledger!Make, Ledger!Genesis, Genesis
  <2> QED
    BY <2>8, <2>9 DEF Ledger!Next
<1> QED
  BY <1>3, <1>4

\* A transaction that reaches the node is sent on top of a state the chain has had.
LEMMA LedgerSent ==
  ASSUME IInv, LedgerFits, NEW w \in Workers, Send(w)
  PROVE  [Ledger!Next]_(Ledger!ledger)
<1>0. TypeOK
  BY DEF IInv
<1>1. /\ Trees' = Trees /\ Confirmed' = Confirmed /\ Labels' = Labels /\ Held' = Held
      /\ announced' = announced
  BY LedgerFrame DEF Send, dbVars, evtVars
<1>2. CASE UNCHANGED chainVars
  BY <1>1, <1>2, LedgerFrame, LedgerStutters DEF chainVars
<1>3. CASE Submit(w)
  <2> DEFINE old == loc[w].latest
             new == loc[w].row
  <2>1. old \in onChain /\ new \in 1..nStates
    BY DEF Send, LedgerFits, Late
  <2>2. /\ nTxs' = nTxs + 1 /\ nTxs < MaxTxs /\ UNCHANGED <<chain, onChain>>
        /\ txs' = [txs EXCEPT ![nTxs + 1] = [status |-> "pending", old |-> old, new |-> new]]
    BY <1>3 DEF Submit, TxsLeft
  <2>3. nTxs \in Nat /\ nTxs + 1 \in TxIds /\ 1..nTxs \subseteq TxIds
    BY <1>0, <2>2, Bounds DEF TxIds
  <2> HIDE DEF old, new
  <2>4. /\ \A t \in 1..nTxs : txs'[t] = txs[t]
        /\ txs'[nTxs + 1].old = old /\ txs'[nTxs + 1].new = new
    BY <1>0, <2>2, <2>3 DEF TypeOK, ChainTypeOK
  <2>5. Sent' = Sent \cup {[old |-> old, new |-> new]}
    BY <2>2, <2>3, <2>4 DEF Sent
  <2>6. old \in 1..nStates
    BY <2>1 DEF LedgerFits
  <2>7. Ledger!Send(old, new)
    BY <1>1, <2>1, <2>2, <2>5, LedgerStates DEF Ledger!Send
  <2> QED
    BY <2>1, <2>6, <2>7, LedgerStates DEF Ledger!Next
<1> QED
  BY <1>2, <1>3 DEF Send

\* The other steps of a request confirm nothing.
LEMMA LedgerRequest ==
  ASSUME IInv, LedgerFits, NEW w \in Workers, Request(w)
  PROVE  [Ledger!Next]_(Ledger!ledger)
<1>0. TypeOK
  BY DEF IInv
<1>1. ASSUME NEW r \in 1..nStates, NEW status, NEW t, status # "confirmed",
             states' = [states EXCEPT ![r].status = status, ![r].tx = t],
             UNCHANGED <<nStates, credentials, chainVars, revoker, evtVars>>
      PROVE  [Ledger!Next]_(Ledger!ledger)
  <2>1. Trees' = Trees /\ Confirmed' = Confirmed \ {r}
    BY <1>0, <1>1, StatusWritten
  <2>2. /\ Labels' = Labels /\ Held' = Held /\ Sent' = Sent
        /\ UNCHANGED <<chain, onChain, announced>>
    BY <1>1, LedgerFrame DEF chainVars, evtVars
  <2>3. Ledger!Retract(r)
    BY <2>1, <2>2 DEF Ledger!Retract
  <2> QED
    BY <2>3, LedgerStates DEF Ledger!Next
<1>2. CASE UpdateStateCommit(w) \/ Send(w)
  BY <1>2, LedgerMade, LedgerSent
<1>3. CASE Record(w)
  <2>1. loc[w].row \in 1..nStates
    BY <1>3 DEF Record, LedgerFits, Late
  <2> QED
    BY <1>1, <1>3, <2>1 DEF Record, Follow
<1>4. CASE MarkFailed(w)
  <2>1. loc[w].row \in 1..nStates
    BY <1>4 DEF MarkFailed, LedgerFits, Late
  <2> QED
    BY <1>1, <1>4, <2>1 DEF MarkFailed
<1>5. CASE UNCHANGED <<dbVars, chainVars, revoker, evtVars>>
  BY <1>5, LedgerFrame, LedgerStutters DEF dbVars, chainVars, evtVars
<1> QED
  BY <1>2, <1>3, <1>4, <1>5 DEF Request, Store, CheckUnprocessed, UpdateStateBegin, FailedState,
     ReadLatest, RequestFails

\* The contract takes what was sent to it, or nothing happens.
LEMMA LedgerMined ==
  ASSUME IInv, LedgerFits, NEW t \in TxIds, Mine(t) \/ Drop(t)
  PROVE  [Ledger!Next]_(Ledger!ledger)
<1>0. TypeOK
  BY DEF IInv
<1>1. /\ Trees' = Trees /\ Confirmed' = Confirmed /\ Labels' = Labels /\ Held' = Held
      /\ announced' = announced
  BY LedgerFrame DEF Mine, Drop, dbVars, evtVars
<1>2. Sent' = Sent
  <2>1. nTxs' = nTxs /\ \E status : txs' = [txs EXCEPT ![t].status = status]
    BY DEF Mine, Drop
  <2>2. \A u \in 1..nTxs : txs'[u].old = txs[u].old /\ txs'[u].new = txs[u].new
    BY <1>0, <2>1, Bounds DEF TypeOK, ChainTypeOK, Transaction, TxIds
  <2> QED
    BY <2>1, <2>2 DEF Sent
<1>3. CASE UNCHANGED <<chain, onChain>>
  BY <1>1, <1>2, <1>3, LedgerStutters
<1>4. CASE ~ UNCHANGED <<chain, onChain>>
  <2>1. /\ txs[t].old = chain /\ txs[t].new \notin onChain
        /\ chain' = txs[t].new /\ onChain' = onChain \cup {txs[t].new}
    BY <1>4 DEF Mine, Drop, Acceptable
  <2>2. t \in 1..nTxs
    BY <1>0, BoundsAssumption DEF Mine, Drop, IInv, TxsSound, TypeOK, ChainTypeOK, TxIds
  <2>3. [old |-> chain, new |-> txs[t].new] \in Sent /\ txs[t].new \in 1..nStates
    BY <2>1, <2>2 DEF Sent, LedgerFits
  <2>4. Ledger!Accept(txs[t].new)
    BY <1>1, <1>2, <2>1, <2>3 DEF Ledger!Accept
  <2> QED
    BY <2>3, <2>4, LedgerStates DEF Ledger!Next
<1> QED
  BY <1>3, <1>4

\* A watcher proves, confirms and announces the state of its receipt.
LEMMA LedgerWatched ==
  ASSUME IInv, LedgerFits, NEW k \in Watchers, NEW t \in TxIds, Watch(k, t)
  PROVE  [Ledger!Next]_(Ledger!ledger)
<1> DEFINE s == StateOf(t)
<1>0. TypeOK
  BY DEF IInv
<1>1. Sent' = Sent /\ Held' = Held /\ UNCHANGED <<chain, onChain>>
  BY LedgerFrame DEF Watch, Receipt, NoReceipt, WriteProofs, Confirm, Event, Revert, JobFails, chainVars
<1>2. CASE WriteProofs(k, t)
  <2>1. s \in onChain /\ s \in 1..nStates
    BY <1>2, WatchedState DEF WriteProofs
  <2>2. Trees' = Trees /\ Confirmed' = Confirmed /\ announced' = announced
    BY <1>2, LedgerFrame DEF WriteProofs, evtVars
  <2>3. PICK done \in SUBSET WithMtpProof(s) : credentials' = [c \in Claims |->
            IF c \in done
              THEN [credentials[c] EXCEPT !.proof = [state |-> s, root |-> claimsTree]]
              ELSE credentials[c]]
    BY <1>2 DEF WriteProofs
  <2>4. done \in SUBSET MtpClaims
    BY DEF WithMtpProof
  <2>5. Labels' = [c \in Claims |-> IF c \in done THEN s ELSE Labels[c]]
    <3>1. ASSUME NEW c \in Claims
          PROVE  credentials'[c].proof.state = IF c \in done THEN s ELSE credentials[c].proof.state
      BY <1>0, <2>3 DEF TypeOK, DbTypeOK, CredentialRow
    <3> HIDE DEF s
    <3> QED
      BY <3>1 DEF Labels
  <2> HIDE DEF s
  <2>6. Ledger!Prove(done, s)
    BY <1>1, <2>1, <2>2, <2>5 DEF Ledger!Prove
  <2> QED
    BY <2>1, <2>4, <2>6, LedgerStates DEF Ledger!Next
<1>3. CASE Confirm(k, t)
  <2>1. s \in onChain /\ s \in 1..nStates
    BY <1>3, WatchedState DEF Confirm
  <2>2. Labels' = Labels /\ announced' = announced /\ nStates' = nStates
    BY <1>3, LedgerFrame DEF Confirm, evtVars
  <2>3. CASE UNCHANGED states
    BY <1>1, <2>2, <2>3, LedgerFrame, LedgerStutters
  <2>4. CASE states' = [states EXCEPT ![s].status = "confirmed", ![s].tx = t]
    <3> HIDE DEF s
    <3>1. Trees' = Trees /\ Confirmed' = Confirmed \cup {s}
      BY <1>0, <2>1, <2>2, <2>4, StatusWritten
    <3>2. Ledger!Confirm(s)
      BY <1>1, <2>1, <2>2, <3>1 DEF Ledger!Confirm
    <3> QED
      BY <2>1, <3>2, LedgerStates DEF Ledger!Next
  <2> QED
    BY <1>3, <2>3, <2>4 DEF Confirm
<1>4. CASE Event(k, t)
  <2>1. s \in onChain /\ s \in 1..nStates
    BY <1>4, WatchedState DEF Event
  <2>2. Trees' = Trees /\ Confirmed' = Confirmed /\ Labels' = Labels /\ announced' = announced \cup {s}
    BY <1>4, LedgerFrame DEF Event, dbVars
  <2> HIDE DEF s
  <2>3. Ledger!Announce(s)
    BY <1>1, <2>1, <2>2 DEF Ledger!Announce
  <2> QED
    BY <2>1, <2>3, LedgerStates DEF Ledger!Next
<1>5. CASE Revert(k, t)
  <2>1. Labels' = Labels /\ announced' = announced /\ nStates' = nStates
        /\ states' = [states EXCEPT ![s].status = "failed", ![s].tx = t]
    BY <1>5, LedgerFrame DEF Revert, evtVars
  <2> HIDE DEF s
  <2>2. CASE s \in 1..nStates
    <3>1. Trees' = Trees /\ Confirmed' = Confirmed \ {s}
      <4>1. "failed" # "confirmed"
        OBVIOUS
      <4> QED
        BY <1>0, <2>1, <2>2, <4>1, StatusWritten, Zenon
    <3>2. Ledger!Retract(s)
      BY <1>1, <2>1, <3>1 DEF Ledger!Retract
    <3> QED
      BY <2>2, <3>2, LedgerStates DEF Ledger!Next
  <2>3. CASE s \notin 1..nStates
    <3>1. \A r \in 1..nStates : states'[r] = states[r]
      BY <1>0, <2>1, <2>3, Bounds DEF TypeOK, DbTypeOK
    <3>2. Trees' = Trees /\ Confirmed' = Confirmed
      BY <2>1, <3>1 DEF Trees, Confirmed
    <3> QED
      BY <1>1, <2>1, <3>2, LedgerStutters
  <2> QED
    BY <2>2, <2>3
<1>6. CASE Receipt(k, t) \/ NoReceipt(k, t) \/ JobFails(k, t)
  <2>1. Trees' = Trees /\ Confirmed' = Confirmed /\ Labels' = Labels /\ announced' = announced
    BY <1>6, LedgerFrame DEF Receipt, NoReceipt, JobFails, dbVars, evtVars
  <2> QED
    BY <1>1, <2>1, LedgerStutters
<1> QED
  BY <1>2, <1>3, <1>4, <1>5, <1>6 DEF Watch

\* A revocation holds a copy of a row, writes it back, or lets go of it.
LEMMA LedgerRevoked ==
  ASSUME IInv, LedgerFits, NEW c \in Claims, Revoke(c)
  PROVE  [Ledger!Next]_(Ledger!ledger)
<1>0. TypeOK /\ revoker \in [Claims -> Revoking] /\ credentials \in [Claims -> CredentialRow]
  BY DEF IInv, TypeOK, DbTypeOK, FollowerTypeOK
<1>1. /\ Trees' = Trees /\ Sent' = Sent /\ Confirmed' = Confirmed
      /\ UNCHANGED <<chain, onChain, announced>>
  BY LedgerFrame DEF Revoke, RevokeTree, RevokeReread, RevokeSave, RevokeFails, dbVars, chainVars, evtVars
<1>2. ASSUME Labels' = Labels, revoker' = [revoker EXCEPT ![c] = NoRevoking]
      PROVE  [Ledger!Next]_(Ledger!ledger)
  <2>1. Held' = [d \in Claims |-> IF d \in {c} THEN {} ELSE Held[d]]
    BY <1>0, <1>2 DEF Held, NoRevoking
  <2>2. Ledger!LetGo({c})
    BY <1>1, <1>2, <2>1 DEF Ledger!LetGo
  <2> QED
    BY <2>2 DEF Ledger!Next
<1>3. CASE RevokeTree(c)
  <2>1. Held' = Held /\ Labels' = Labels
    <3>1. Labels' = Labels
      BY <1>3, LedgerFrame DEF RevokeTree
    <3>2. revoker[c].pc # "save" /\ revoker' = [revoker EXCEPT ![c].pc = "reread"]
      BY <1>3 DEF RevokeTree
    <3>3. ASSUME NEW d \in Claims
          PROVE  (IF revoker'[d].pc = "save" THEN {revoker'[d].saved.proof.state} ELSE {}) =
                 (IF revoker[d].pc = "save" THEN {revoker[d].saved.proof.state} ELSE {})
      BY <1>0, <3>2 DEF Revoking
    <3> QED
      BY <3>1, <3>3 DEF Held
  <2> QED
    BY <1>1, <2>1, LedgerStutters
<1>4. CASE RevokeReread(c)
  <2>1. Labels' = Labels
    BY <1>4, LedgerFrame DEF RevokeReread, dbVars
  <2>2. CASE credentials[c].saved
    <3>1. revoker' = [revoker EXCEPT ![c] = [pc |-> "save", saved |-> credentials[c]]]
      BY <1>4, <2>2 DEF RevokeReread
    <3>2. Held' = [Held EXCEPT ![c] = {Labels[c]}]
      BY <1>0, <3>1 DEF Held, Labels
    <3>3. Ledger!Hold(c)
      BY <1>1, <2>1, <3>2 DEF Ledger!Hold
    <3> QED
      BY <3>3 DEF Ledger!Next
  <2> QED
    BY <1>2, <1>4, <2>1, <2>2 DEF RevokeReread
<1>5. CASE RevokeSave(c)
  <2> DEFINE s == revoker[c].saved.proof.state
  <2>1. Held[c] = {s}
    BY <1>5 DEF RevokeSave, Held
  <2>2. Held' = [Held EXCEPT ![c] = {}]
    BY <1>0, <1>5 DEF RevokeSave, Held, NoRevoking
  <2>3. Labels' = [Labels EXCEPT ![c] = s]
    <3>1. ASSUME NEW d \in Claims
          PROVE  credentials'[d].proof.state = IF d = c THEN s ELSE credentials[d].proof.state
      BY <1>0, <1>5 DEF RevokeSave, Revoking, CredentialRow
    <3> HIDE DEF s
    <3> QED
      BY <3>1 DEF Labels
  <2> HIDE DEF s
  <2>4. Ledger!Restore(c)
    BY <1>1, <2>1, <2>2, <2>3 DEF Ledger!Restore
  <2> QED
    BY <2>4 DEF Ledger!Next
<1>6. CASE RevokeFails(c)
  BY <1>2, <1>6, LedgerFrame DEF RevokeFails, dbVars
<1> QED
  BY <1>3, <1>4, <1>5, <1>6 DEF Revoke

\* Every step of the processes and of the chain is one of the ledger, or none.
LEMMA LedgerStep ==
  ASSUME IInv, LedgerFits, [Next]_vars
  PROVE  [Ledger!Next]_(Ledger!ledger)
<1>0. TypeOK /\ credentials \in [Claims -> CredentialRow]
  BY DEF IInv, TypeOK, DbTypeOK
<1>1. CASE \E c \in Claims : Issue(c)
  <2>1. PICK c \in Claims : Issue(c)
    BY <1>1
  <2>2. credentials[c].proof.state = Null
    BY <2>1 DEF Issue, LedgerFits
  <2>3. Labels' = Labels
    <3>1. ASSUME NEW d \in Claims PROVE credentials'[d].proof.state = credentials[d].proof.state
      BY <1>0, <2>1, <2>2 DEF Issue, NotSaved, NoProof
    <3> QED
      BY <3>1 DEF Labels
  <2> QED
    BY <2>1, <2>3, LedgerFrame, LedgerStutters DEF Issue, chainVars, evtVars
<1>2. CASE CrashPlatform
  <2>1. Held' = [c \in Claims |-> IF c \in Claims THEN {} ELSE Held[c]]
    BY <1>2 DEF CrashPlatform, Held, NoRevoking
  <2>2. Ledger!LetGo(Claims)
    BY <1>2, <2>1, LedgerFrame DEF CrashPlatform, dbVars, chainVars, evtVars, Ledger!LetGo
  <2> QED
    BY <2>2 DEF Ledger!Next
<1>3. CASE UNCHANGED <<dbVars, chainVars, revoker, evtVars>>
  BY <1>3, LedgerFrame, LedgerStutters DEF dbVars, chainVars, evtVars
<1> QED
  BY <1>1, <1>2, <1>3, LedgerRequest, LedgerMined, LedgerWatched, LedgerRevoked DEF Next, vars,
     Begin, Scan, Expire

\* The publication, with its requests, goroutines and checker one statement at a time and
\* with every failure, implements the ledger: whatever overlaps or is cut short, states are
\* made once, sent on top of one the contract has had, and confirmed, proven to holders and
\* announced only when the contract took them.
THEOREM LedgerRefinement == Spec => ImplementsStateLedger
<1>1. Init => Ledger!Init
  <2>1. ASSUME Init PROVE Ledger!Init
    <3>1. /\ nStates = 1 /\ nTxs = 0 /\ 1..nStates = {1} /\ 1..nTxs = {}
          /\ states[1].claims = {} /\ states[1].revs = {} /\ states[1].status = "confirmed"
      BY <2>1, Bounds, InitInvariant, BoundsAssumption DEF Init, IInv, Genesis, StateIds, NoRow
    <3>2. Confirmed = {Genesis} /\ Sent = {}
      BY <3>1 DEF Confirmed, Sent, Genesis
    <3>3. Trees = <<[claims |-> {}, revs |-> {}]>>
      BY <3>1 DEF Trees
    <3>4. Labels = [c \in Claims |-> Null] /\ Held = [c \in Claims |-> {}]
      BY <2>1 DEF Init, Labels, Held, NotSaved, NoProof, NoRevoking
    <3> QED
      BY <2>1, <3>2, <3>3, <3>4 DEF Init, Ledger!Init, Ledger!Genesis, Genesis
  <2> QED
    BY <2>1
<1>2. Init => LedgerFits
  BY LedgerFitsInit
<1>3. IInv /\ LedgerFits /\ [Next]_vars => LedgerFits'
  <2>1. CASE UNCHANGED vars
    BY <2>1 DEF vars, dbVars, chainVars, reqVars, LedgerFits
  <2> QED
    BY <2>1, LedgerFitsStep
<1>4. IInv /\ LedgerFits /\ [Next]_vars => [Ledger!Next]_(Ledger!ledger)
  BY LedgerStep
<1> QED
  BY <1>1, <1>2, <1>3, <1>4, Invariance, PTL DEF Spec, ImplementsStateLedger, Ledger!Spec

=============================================================================

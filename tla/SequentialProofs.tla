---------------------------- MODULE SequentialProofs ----------------------------
(***************************************************************************)
(* What TLAPS proves of StatePublisher when requests come one at a time    *)
(* and the check for unprocessed states keeps rows, trees and chain in     *)
(* step: whatever fails, for the proofs of credentials; until something is *)
(* revoked, for the rows; and until something fails, for the chain.        *)
(***************************************************************************)
EXTENDS PublicationProofs

-----------------------------------------------------------------------------
(* What a step does to the rows. *)

\* The rows are as they were; one that UpdateState has made has no status of its own yet.
RowsStand ==
  /\ \A s \in 1..nStates : states'[s] = states[s]
  /\ \A s \in 1..nStates' : s \in 1..nStates \/ states'[s].status = "created"

\* One row is written.
Written(r, status, t) ==
  /\ nStates' = nStates /\ r \in 1..nStates
  /\ states'[r].status = status /\ states'[r].tx = t
  /\ \A s \in 1..nStates : s # r => states'[s] = states[s]

\* Who writes which row.
LEMMA RowChanges ==
  ASSUME IInv, GInv, Next
  PROVE  \/ RowsStand
         \/ \E w \in Workers : Record(w) /\ Written(loc[w].row, "transacted", loc[w].tx)
         \/ \E w \in Workers : MarkFailed(w) /\ Written(loc[w].row, "failed", Null)
         \/ \E k \in Watchers, t \in TxIds : Confirm(k, t) /\ Written(txs[t].new, "confirmed", t)
         \/ \E k \in Watchers, t \in TxIds : Revert(k, t) /\ Written(txs[t].new, "failed", t)
<1>0. TypeOK /\ nStates \in Nat /\ 1..nStates \subseteq StateIds
  BY Kept, Bounds
<1>1. ASSUME NEW r \in 1..nStates, NEW status, NEW t, nStates' = nStates,
             states' = [states EXCEPT ![r].status = status, ![r].tx = t]
      PROVE  Written(r, status, t)
  <2>1. r \in StateIds
    BY <1>0
  <2>2. states'[r].status = status /\ states'[r].tx = t /\ \A s \in StateIds : s # r => states'[s] = states[s]
    BY <1>0, <1>1, <2>1, RowWritten
  <2> QED
    BY <1>0, <1>1, <2>2 DEF Written
<1>2. ASSUME states' = states, nStates' = nStates PROVE RowsStand
  BY <1>0, <1>2 DEF RowsStand
<1>3. ASSUME NEW w \in Workers, UpdateStateCommit(w) PROVE RowsStand
  <2>1. CASE UNCHANGED dbVars
    BY <1>2, <2>1 DEF dbVars
  <2>2. CASE Made(w) /\ ~ UNCHANGED <<states, nStates>>
    <3>1. /\ nStates' = nStates + 1 /\ nStates' \in StateIds
          /\ states' = [states EXCEPT ![nStates'] =
               [status |-> "created", claims |-> NewLeaves(w), revs |-> loc[w].revs, tx |-> Null]]
      BY <2>2 DEF Made
    <3>2. states'[nStates'].status = "created" /\ \A r \in StateIds : r # nStates' => states'[r] = states[r]
      BY <1>0, <3>1 DEF TypeOK, DbTypeOK
    <3>3. \A s \in 1..nStates : s # nStates'
      BY <1>0, <3>1
    <3>4. \A s \in 1..nStates' : s \in 1..nStates \/ s = nStates'
      BY <1>0, <3>1
    <3> QED
      BY <1>0, <3>2, <3>3, <3>4 DEF RowsStand
  <2>3. UNCHANGED dbVars \/ Made(w)
    BY <1>3, Kept, CommitMakes
  <2> QED
    BY <1>2, <2>1, <2>2, <2>3
<1>4. ASSUME NEW w \in Workers, Record(w) \/ MarkFailed(w)
      PROVE  nStates' = nStates /\ loc[w].row \in 1..nStates
  <2>1. Current(loc[w].row)
    BY <1>4, Kept DEF Record, MarkFailed, RequestsCurrent, Late
  <2> QED
    BY <1>0, <1>4, <2>1, Kept, Bounds DEF Record, MarkFailed, Follow, Current, ChainGrows
<1>5. ASSUME NEW w \in Workers, Record(w) PROVE Written(loc[w].row, "transacted", loc[w].tx)
  BY <1>1, <1>4, <1>5 DEF Record
<1>6. ASSUME NEW w \in Workers, MarkFailed(w) PROVE Written(loc[w].row, "failed", Null)
  BY <1>1, <1>4, <1>6 DEF MarkFailed
<1>7. ASSUME NEW k \in Watchers, NEW t \in TxIds, Confirm(k, t) \/ Revert(k, t)
      PROVE  nStates' = nStates /\ txs[t].new \in 1..nStates
  BY <1>7, Kept DEF Confirm, Revert, JobsCurrent, Failed, Transacted, Confirmed
<1>8. ASSUME NEW k \in Watchers, NEW t \in TxIds, Confirm(k, t), states' # states
      PROVE  Written(txs[t].new, "confirmed", t)
  BY <1>1, <1>7, <1>8 DEF Confirm, StateOf
<1>9. ASSUME NEW k \in Watchers, NEW t \in TxIds, Revert(k, t) PROVE Written(txs[t].new, "failed", t)
  BY <1>1, <1>7, <1>9 DEF Revert, StateOf
<1> QED
  BY <1>2, <1>3, <1>5, <1>6, <1>7, <1>8, <1>9, RowSteps

\* What becomes of the sets of rows.
LEMMA RowsStanding ==
  ASSUME IInv, Next, RowsStand
  PROVE  Failed' = Failed /\ Transacted' = Transacted /\ Confirmed' = Confirmed
<1>1. 1..nStates \subseteq 1..nStates'
  BY StatesStay DEF IInv
<1> QED
  BY <1>1 DEF RowsStand, Failed, Transacted, Confirmed

\* A row that is written is of its new status, and the others of theirs.
LEMMA RowsWritten ==
  ASSUME NEW r, NEW status \in {"failed", "transacted", "confirmed"}, NEW t, Written(r, status, t)
  PROVE  /\ Failed' = IF status = "failed" THEN Failed \cup {r} ELSE Failed \ {r}
         /\ Transacted' = IF status = "transacted" THEN Transacted \cup {r} ELSE Transacted \ {r}
         /\ Confirmed' = IF status = "confirmed" THEN Confirmed \cup {r} ELSE Confirmed \ {r}
BY DEF Written, Failed, Transacted, Confirmed

\* The row that UpdateState hands on has the leaves that it saves.
LEMMA CommitFits ==
  ASSUME TypeOK, NEW w \in Workers, UpdateStateCommit(w), pc'[w] \in Late
  PROVE  states'[loc'[w].row].claims = claimsTree'
<1>0. pc \in [Workers -> RequestPcs] /\ loc \in [Workers -> Locals]
  BY DEF TypeOK, RequestTypeOK
<1>1. ~ Release(w)
  BY <1>0 DEF Release, Late
<1>2. PICK s \in StateIds : /\ SaveRow(s, NewLeaves(w), loc[w].revs) /\ claimsTree' = NewLeaves(w)
                            /\ GoTo(w, "latest", [NoLocals EXCEPT !.row = s])
  BY <1>1 DEF UpdateStateCommit
<1>3. loc'[w].row = s
  BY <1>0, <1>2 DEF GoTo, NoLocals
<1> QED
  BY <1>2, <1>3, RowMade

-----------------------------------------------------------------------------
(* One row on its way. *)

\* A row that was sent, or that has to be again.
Open == Failed \cup Transacted

\* There is one of them at most, no state is made as long as there is, and none is sent but
\* that one.
OneOpen ==
  /\ \A s, r \in Open : s = r
  /\ \A w \in Workers :
       /\ pc[w] \in Updates => Open = {}
       /\ pc[w] \in Late => Transacted = {} /\ Open \subseteq {loc[w].row}

\* The check for unprocessed states keeps it so, if only the row of a transaction in flight
\* is reverted.
LEMMA OneOpenStep ==
  ASSUME OneRequest, IInv, GInv, OneOpen, Next,
         \A k \in Watchers, t \in TxIds : Revert(k, t) => txs[t].new \in Transacted
  PROVE  OneOpen'
<1>0. TypeOK /\ pc \in [Workers -> RequestPcs] /\ Failed \cap Transacted = {}
  BY Kept DEF TypeOK, RequestTypeOK, Failed, Transacted
<1>1. CASE RowsStand
  <2>1. Open' = Open /\ Transacted' = Transacted
    BY <1>1, RowsStanding DEF Open
  <2>2. ASSUME NEW w \in Workers, pc'[w] \in Updates PROVE Open = {}
    BY <1>0, <2>2, UpdatesFrom DEF OneOpen, Open
  <2>3. ASSUME NEW w \in Workers, pc'[w] \in Late
        PROVE  Transacted = {} /\ Open \subseteq {loc'[w].row}
    <3>1. CASE UpdateStateCommit(w)
      BY <3>1 DEF OneOpen, UpdateStateCommit, Updates, Open
    <3>2. CASE loc'[w].row \in Failed
      BY <1>0, <3>2 DEF OneOpen, Open
    <3> QED
      BY <1>0, <2>3, <3>1, <3>2, LateSteps DEF OneOpen
  <2> QED
    BY <2>1, <2>2, <2>3 DEF OneOpen
<1>2. ASSUME NEW w \in Workers, Record(w) \/ MarkFailed(w), NEW status \in {"failed", "transacted"}, NEW t,
             Written(loc[w].row, status, t)
      PROVE  OneOpen'
  <2>1. Open \subseteq {loc[w].row}
    BY <1>2 DEF OneOpen, Record, MarkFailed, Late
  <2>2. Open' = {loc[w].row}
    <3>1. CASE status = "failed"
      <4>1. Failed' = Failed \cup {loc[w].row} /\ Transacted' = Transacted \ {loc[w].row}
        BY <1>2, <3>1, RowsWritten
      <4> QED
        BY <2>1, <4>1 DEF Open
    <3>2. CASE status = "transacted"
      <4>1. Failed' = Failed \ {loc[w].row} /\ Transacted' = Transacted \cup {loc[w].row}
        BY <1>2, <3>2, RowsWritten
      <4> QED
        BY <2>1, <4>1 DEF Open
    <3> QED
      BY <1>2, <3>1, <3>2
  <2>3. \A v \in Workers : pc'[v] = "idle"
    BY <1>0, <1>2 DEF OneRequest, Record, MarkFailed, Follow, Release
  <2> QED
    BY <2>2, <2>3 DEF OneOpen, Updates, Late
<1>3. ASSUME NEW k \in Watchers, NEW t \in TxIds, Confirm(k, t), Written(txs[t].new, "confirmed", t)
      PROVE  OneOpen'
  <2>1. UNCHANGED <<pc, loc>>
    BY <1>3 DEF Confirm, Advance
  <2>2. Open' \subseteq Open /\ Transacted' \subseteq Transacted
    BY <1>3, RowsWritten DEF Open
  <2> QED
    BY <2>1, <2>2 DEF OneOpen
<1>4. ASSUME NEW k \in Watchers, NEW t \in TxIds, Revert(k, t), Written(txs[t].new, "failed", t)
      PROVE  OneOpen'
  <2>1. UNCHANGED <<pc, loc>> /\ txs[t].new \in Transacted
    BY <1>4 DEF Revert, Finish
  <2>2. Failed' = Failed \cup {txs[t].new} /\ Transacted' = Transacted \ {txs[t].new}
    BY <1>4, RowsWritten
  <2>3. Open' = Open
    BY <2>1, <2>2 DEF Open
  <2> QED
    BY <2>1, <2>3 DEF OneOpen, Open
<1> QED
  BY <1>1, <1>2, <1>3, <1>4, RowChanges

-----------------------------------------------------------------------------
(* What a row on its way is of. *)

\* The leaves of a row on its way, or about to be, are those of the claims tree.
ClaimsFit ==
  /\ \A s \in Open : states[s].claims = claimsTree
  /\ \A w \in Workers : pc[w] \in Late => states[loc[w].row].claims = claimsTree

\* They stay so, since the tree grows with UpdateState only.
LEMMA ClaimsFitStep ==
  ASSUME OneRequest, IInv, GInv, OneOpen, ClaimsFit, Next,
         \A k \in Watchers, t \in TxIds : Revert(k, t) => txs[t].new \in Transacted
  PROVE  ClaimsFit'
<1>0. /\ TypeOK /\ pc \in [Workers -> RequestPcs] /\ loc \in [Workers -> Locals]
      /\ \A s \in 1..nStates : states'[s].claims = states[s].claims
      /\ Open \subseteq 1..nStates
  BY Kept, StatesStay DEF TypeOK, RequestTypeOK, Open, Failed, Transacted
<1>1. CASE UNCHANGED claimsTree
  <2>1. ASSUME NEW w \in Workers, pc[w] \in Late
        PROVE  loc[w].row \in 1..nStates /\ states'[loc[w].row].claims = claimsTree'
    <3>1. loc[w].row \in 1..nStates
      BY <2>1, Kept, Bounds DEF RequestsCurrent, Current, ChainGrows
    <3> QED
      BY <1>0, <1>1, <2>1, <3>1 DEF ClaimsFit
  <2>2. ASSUME NEW s \in Open PROVE states'[s].claims = claimsTree'
    BY <1>0, <1>1, <2>2 DEF ClaimsFit
  <2>3. ASSUME NEW s \in Open' PROVE states'[s].claims = claimsTree'
    <3>1. ASSUME NEW w \in Workers, Record(w) \/ MarkFailed(w), s = loc[w].row
          PROVE  states'[s].claims = claimsTree'
      BY <2>1, <3>1 DEF Record, MarkFailed, Late
    <3>2. ASSUME NEW k \in Watchers, NEW t \in TxIds, Revert(k, t), s = txs[t].new
          PROVE  states'[s].claims = claimsTree'
      BY <2>2, <3>2 DEF Open
    <3>3. s \in Failed' \cup Transacted'
      BY <2>3 DEF Open
    <3>4. \/ s \in Open
          \/ \E w \in Workers : (Record(w) \/ MarkFailed(w)) /\ s = loc[w].row
          \/ \E k \in Watchers, t \in TxIds : Revert(k, t) /\ s = txs[t].new
      BY <3>3, RowsFrom DEF Open
    <3> QED
      BY <2>2, <3>1, <3>2, <3>4
  <2>4. ASSUME NEW w \in Workers, pc'[w] \in Late PROVE states'[loc'[w].row].claims = claimsTree'
    <3>1. CASE UpdateStateCommit(w)
      BY <1>0, <2>4, <3>1, CommitFits
    <3>2. CASE pc[w] \in Late /\ loc'[w].row = loc[w].row
      BY <2>1, <3>2
    <3>3. CASE loc'[w].row \in Failed
      BY <2>2, <3>3 DEF Open
    <3> QED
      BY <1>0, <2>4, <3>1, <3>2, <3>3, LateSteps
  <2> QED
    BY <2>3, <2>4 DEF ClaimsFit
<1>2. ASSUME NEW w \in Workers, UpdateStateCommit(w) PROVE ClaimsFit'
  <2>1. Open = {} /\ \A v \in Workers : v = w
    BY <1>2 DEF OneOpen, UpdateStateCommit, Updates, OneRequest
  <2>2. Open' = {}
    <3>1. ASSUME NEW s \in Open' PROVE FALSE
      <4>1. ~ \E v \in Workers : Record(v) \/ MarkFailed(v)
        BY <1>2, <2>1 DEF UpdateStateCommit, Record, MarkFailed
      <4>2. ~ \E k \in Watchers, t \in TxIds : Revert(k, t)
        BY <2>1 DEF Open
      <4> QED
        BY <2>1, <3>1, <4>1, <4>2, RowsFrom DEF Open
    <3> QED
      BY <3>1
  <2>3. ASSUME pc'[w] \in Late PROVE states'[loc'[w].row].claims = claimsTree'
    BY <1>0, <1>2, <2>3, CommitFits
  <2> QED
    BY <2>1, <2>2, <2>3 DEF ClaimsFit
<1> QED
  BY <1>1, <1>2, TreeSteps

-----------------------------------------------------------------------------
(* One watcher to a transaction. *)

\* The row of this transaction says that it is in flight.
Carried(t) == txs[t].new \in Transacted /\ states[txs[t].new].tx = t

\* A transaction that a watcher may still settle is that of its row, one watcher follows it,
\* and none before it was recorded.
OneFollower == \A t \in TxIds :
  /\ \A k \in Watchers : job[k][t] \in Following => Carried(t)
  /\ \A j, k \in Watchers : job[j][t] # "none" /\ job[k][t] # "none" => j = k
  /\ \A w \in Workers : pc[w] = "record" /\ loc[w].tx = t => \A k \in Watchers : job[k][t] = "none"

\* A recorded transaction is that of its row.
LEMMA RecordCarries ==
  ASSUME IInv, GInv, NEW w \in Workers, Record(w), NEW t \in TxIds, t = loc[w].tx
  PROVE  Carried(t)'
<1>1. /\ loc[w].row \in 1..nStates /\ loc[w].row \in StateIds /\ nStates' = nStates
      /\ txs'[t].new = loc[w].row
  BY Kept, Bounds DEF Record, Follow, chainVars, RequestsCurrent, Late, Current, ChainGrows
<1>2. states' = [states EXCEPT ![loc[w].row].status = "transacted", ![loc[w].row].tx = loc[w].tx]
  BY DEF Record
<1>3. states'[loc[w].row].status = "transacted" /\ states'[loc[w].row].tx = t
  BY <1>1, <1>2, Kept DEF TypeOK, DbTypeOK, StateRow
<1>4. loc[w].row \in Transacted'
  BY <1>1, <1>3 DEF Transacted
<1> QED
  BY <1>1, <1>3, <1>4 DEF Carried

\* A row that somebody follows is written by that watcher only, who is done with it then.
LEMMA CarriedStep ==
  ASSUME OneRequest, IInv, GInv, OneOpen, OneFollower, Next,
         NEW k \in Watchers, NEW t \in TxIds, job[k][t] \in Following, job'[k][t] \in Following
  PROVE  Carried(t)'
<1> DEFINE s == txs[t].new
<1>0. /\ TypeOK /\ s \in Transacted /\ states[s].tx = t /\ Transacted # {} /\ job \in [Watchers -> [TxIds -> JobPcs]]
  BY Kept DEF OneFollower, Carried, TypeOK, FollowerTypeOK
<1>1. t \in 1..nTxs
  BY <1>0, Kept DEF RowsCurrent
<1>2. txs'[t].new = s
  BY <1>1, Kept, TxsStay
<1>3. SUFFICES s \in Transacted' /\ states'[s].tx = t
  BY <1>2 DEF Carried
<1> HIDE DEF s
<1>4. CASE RowsStand
  <2>1. s \in 1..nStates
    BY <1>0 DEF Transacted
  <2> QED
    BY <1>0, <1>4, <2>1, RowsStanding DEF RowsStand
<1>5. ASSUME NEW w \in Workers, Record(w) \/ MarkFailed(w) PROVE FALSE
  BY <1>0, <1>5 DEF OneOpen, Record, MarkFailed, Late
<1>6. ASSUME NEW j \in Watchers, NEW u \in TxIds, Confirm(j, u) \/ Revert(j, u) PROVE FALSE
  <2>1. job[j][u] \in Following /\ job'[j][u] \notin Following
    <3>1. CASE Confirm(j, u)
      <4>1. job[j][u] = "confirm" /\ job'[j][u] = "event"
        BY <1>0, <3>1 DEF Confirm, Advance
      <4> QED
        BY <4>1 DEF Following
    <3>2. CASE Revert(j, u)
      <4>1. job[j][u] = "revert" /\ job'[j][u] = "none"
        BY <1>0, <3>2 DEF Revert, Finish
      <4> QED
        BY <4>1 DEF Following
    <3> QED
      BY <1>6, <3>1, <3>2
  <2>2. txs[u].new \in Transacted /\ states[txs[u].new].tx = u
    BY <2>1 DEF OneFollower, Carried
  <2>3. txs[u].new = s
    BY <1>0, <2>2 DEF OneOpen, Open
  <2>4. u = t
    BY <1>0, <2>2, <2>3
  <2>5. j = k
    BY <2>1, <2>4 DEF OneFollower, Following
  <2> QED
    BY <2>1, <2>4, <2>5
<1> QED
  BY <1>4, <1>5, <1>6, RowChanges

\* If the checker leaves alone what a goroutine waits for, one watcher follows each transaction.
LEMMA OneFollowerStep ==
  ASSUME OneRequest, "overlap" \notin Faults, IInv, GInv, OneOpen, OneFollower, Next
  PROVE  OneFollower'
<1>0. TypeOK /\ pc \in [Workers -> RequestPcs] /\ nTxs \in Nat
  BY Kept, Bounds DEF TypeOK, RequestTypeOK
<1>1. ASSUME NEW t \in TxIds, NEW k \in Watchers, job'[k][t] # "none"
      PROVE  \/ job[k][t] # "none" /\ (job'[k][t] \in Following => job[k][t] \in Following)
             \/ k = "goroutine" /\ \E w \in Workers : Record(w) /\ t = loc[w].tx
             \/ /\ k = "checker" /\ UNCHANGED <<dbVars, chainVars, pc, loc>>
                /\ job["goroutine"][t] = "none" /\ job'["goroutine"][t] = "none"
                /\ \E s \in Transacted : t = states[s].tx
  BY <1>0, <1>1, JobSteps
<1>2. ASSUME NEW t \in TxIds, NEW k \in Watchers, job'[k][t] \in Following PROVE Carried(t)'
  <2>1. job'[k][t] # "none"
    BY <1>2 DEF Following
  <2>2. CASE job[k][t] \in Following
    BY <1>2, <2>2, CarriedStep
  <2>3. ASSUME NEW w \in Workers, Record(w), t = loc[w].tx PROVE Carried(t)'
    BY <2>3, RecordCarries
  <2>4. ASSUME UNCHANGED <<dbVars, chainVars, pc, loc>>, NEW s \in Transacted, t = states[s].tx
        PROVE  Carried(t)'
    BY <2>4, Kept DEF RowsCurrent, Carried, Transacted, dbVars, chainVars
  <2> QED
    BY <1>1, <1>2, <2>1, <2>2, <2>3, <2>4
<1>3. ASSUME NEW t \in TxIds, NEW j \in Watchers, NEW k \in Watchers, job'[j][t] # "none", job'[k][t] # "none"
      PROVE  j = k
  <2>1. ASSUME NEW w \in Workers, Record(w), t = loc[w].tx
        PROVE  job["checker"][t] = "none" /\ job["goroutine"][t] = "none" /\ Transacted = {}
    BY <2>1 DEF OneFollower, Record, Watchers, OneOpen, Late
  <2>2. j \in {"goroutine", "checker"} /\ k \in {"goroutine", "checker"}
    BY DEF Watchers
  <2> QED
    BY <1>1, <1>3, <2>1, <2>2 DEF OneFollower
<1>4. ASSUME NEW t \in TxIds, NEW w \in Workers, pc'[w] = "record", loc'[w].tx = t, NEW k \in Watchers
      PROVE  job'[k][t] = "none"
  <2>1. ~ \E v \in Workers : Record(v)
    BY <1>0, <1>4 DEF OneRequest, Record, Follow
  <2>2. \/ pc[w] = "record" /\ loc[w].tx = t
        \/ pc[w] = "send" /\ Submit(w) /\ t = nTxs'
    BY <1>0, <1>4, LateSteps DEF Late
  <2>3. job[k][t] = "none"
    <3>1. CASE pc[w] = "record" /\ loc[w].tx = t
      BY <3>1 DEF OneFollower
    <3>2. CASE Submit(w) /\ t = nTxs'
      BY <1>0, <3>2, Kept DEF Submit, JobsCurrent
    <3> QED
      BY <2>2, <3>1, <3>2
  <2>4. Transacted = {}
    BY <2>2 DEF OneOpen, Late
  <2> QED
    BY <1>1, <2>1, <2>3, <2>4
<1> QED
  BY <1>2, <1>3, <1>4 DEF OneFollower

-----------------------------------------------------------------------------
(* MTP proofs. *)

\* The state of a proof is that of a row, and its root that of the row's claims.
ProofFits(p, c) ==
  p.state # Null => p.state \in 1..nStates /\ c \in p.root /\ p.root = states[p.state].claims

\* An inductive form of ProofFitsState, for the copies that revocations hold too.
ProofsInOrder == \A c \in Claims :
  /\ ProofFits(credentials[c].proof, c)
  /\ revoker[c].pc = "save" => ProofFits(revoker[c].saved.proof, c)

\* A proof that fits goes on to fit, for the leaves of a row stay.
LEMMA FitStays ==
  ASSUME TypeOK, Next, NEW p, NEW c, ProofFits(p, c)
  PROVE  p.state # Null => p.state \in 1..nStates' /\ c \in p.root /\ p.root = states'[p.state].claims
<1>1. /\ nStates \in Nat /\ nStates' \in Nat /\ nStates <= nStates'
      /\ \A s \in 1..nStates : states'[s].claims = states[s].claims
  BY StatesStay
<1> QED
  BY <1>1 DEF ProofFits

\* Where the proof in a row, or in a copy of one, comes from when no watcher writes it.
LEMMA ProofsFrom ==
  ASSUME TypeOK, Next, \A k \in Watchers, t \in TxIds : ~ WriteProofs(k, t), NEW c \in Claims
  PROVE  /\ \/ credentials'[c].proof \in {credentials[c].proof, NoProof}
            \/ revoker[c].pc = "save" /\ credentials'[c].proof = revoker[c].saved.proof
         /\ revoker'[c].pc = "save" =>
              \/ revoker[c].pc = "save" /\ revoker'[c].saved = revoker[c].saved
              \/ revoker'[c].saved = credentials[c]
<1> DEFINE Goal == /\ \/ credentials'[c].proof \in {credentials[c].proof, NoProof}
                      \/ revoker[c].pc = "save" /\ credentials'[c].proof = revoker[c].saved.proof
                   /\ revoker'[c].pc = "save" =>
                        \/ revoker[c].pc = "save" /\ revoker'[c].saved = revoker[c].saved
                        \/ revoker'[c].saved = credentials[c]
<1> SUFFICES Goal
  OBVIOUS
<1> USE DEF TypeOK, DbTypeOK, FollowerTypeOK
<1>1. ASSUME credentials' = credentials, revoker' = revoker PROVE Goal
  BY <1>1
<1>2. ASSUME NEW d \in Claims, Issue(d) PROVE Goal
  <2>1. credentials'[c] = IF c = d THEN [NotSaved EXCEPT !.saved = TRUE] ELSE credentials[c]
    BY <1>2 DEF Issue
  <2>2. revoker' = revoker
    BY <1>2 DEF Issue
  <2> QED
    BY <2>1, <2>2 DEF NotSaved
<1>3. ASSUME NEW d \in Claims, RevokeTree(d) PROVE Goal
  <2>1. credentials' = credentials /\ revoker' = [revoker EXCEPT ![d].pc = "reread"]
    BY <1>3 DEF RevokeTree
  <2>2. c = d => revoker'[c].pc = "reread"
    BY <2>1 DEF Revoking
  <2>3. c # d => revoker'[c] = revoker[c]
    BY <2>1
  <2> QED
    BY <2>1, <2>2, <2>3
<1>4. ASSUME NEW d \in Claims, RevokeReread(d) PROVE Goal
  <2>1. /\ credentials' = credentials
        /\ revoker' = [revoker EXCEPT ![d] =
             IF credentials[d].saved THEN [pc |-> "save", saved |-> credentials[d]] ELSE NoRevoking]
    BY <1>4 DEF RevokeReread, dbVars
  <2>2. c = d /\ revoker'[c].pc = "save" => revoker'[c].saved = credentials[c]
    BY <2>1 DEF NoRevoking
  <2>3. c # d => revoker'[c] = revoker[c]
    BY <2>1
  <2> QED
    BY <2>1, <2>2, <2>3
<1>5. ASSUME NEW d \in Claims, RevokeSave(d) PROVE Goal
  <2>1. /\ credentials' = [credentials EXCEPT ![d] = [revoker[d].saved EXCEPT !.revoked = TRUE]]
        /\ revoker' = [revoker EXCEPT ![d] = NoRevoking] /\ revoker[d].pc = "save"
    BY <1>5 DEF RevokeSave
  <2>2. c = d => credentials'[c].proof = revoker[c].saved.proof /\ revoker'[c].pc = "idle"
    BY <2>1 DEF Revoking, CredentialRow, NoRevoking
  <2>3. c # d => revoker'[c] = revoker[c] /\ credentials'[c] = credentials[c]
    BY <2>1
  <2> QED
    BY <2>1, <2>2, <2>3
<1>6. ASSUME NEW d \in Claims, RevokeFails(d) PROVE Goal
  <2>1. credentials' = credentials /\ revoker' = [revoker EXCEPT ![d] = NoRevoking]
    BY <1>6 DEF RevokeFails, dbVars
  <2>2. IF c = d THEN revoker'[c].pc = "idle" ELSE revoker'[c] = revoker[c]
    BY <2>1 DEF NoRevoking
  <2> QED
    BY <2>1, <2>2
<1>7. ASSUME NEW w \in Workers, UpdateStateCommit(w) PROVE Goal
  <2>1. revoker' = revoker /\ (credentials' = credentials \/ \E s \in StateIds : Assign(s))
    BY <1>7 DEF UpdateStateCommit, dbVars
  <2>2. ASSUME NEW s \in StateIds, Assign(s) PROVE credentials'[c].proof = credentials[c].proof
    <3>1. credentials'[c] = IF c \in Unassigned THEN [credentials[c] EXCEPT !.state = s] ELSE credentials[c]
      BY <2>2 DEF Assign
    <3>2. credentials[c] \in CredentialRow
      OBVIOUS
    <3> QED
      BY <3>1, <3>2 DEF CredentialRow
  <2> QED
    BY <2>1, <2>2
<1>8. ASSUME NEW w \in Workers, Request(w), ~ UpdateStateCommit(w)
      PROVE  credentials' = credentials /\ revoker' = revoker
  BY <1>8 DEF Request, Store, CheckUnprocessed, UpdateStateBegin, FailedState, ReadLatest, Send,
     Record, Follow, MarkFailed, RequestFails, dbVars
<1>9. ASSUME NEW k \in Watchers, NEW t \in TxIds, Watch(k, t)
      PROVE  credentials' = credentials /\ revoker' = revoker
  BY <1>9 DEF Watch, Receipt, NoReceipt, Confirm, Event, Revert, JobFails, dbVars
<1>10. CASE CrashPlatform
  <2>1. credentials' = credentials /\ revoker'[c].pc = "idle"
    BY <1>10 DEF CrashPlatform, NoRevoking, dbVars
  <2> QED
    BY <2>1
<1>11. ASSUME NEW t \in TxIds, Mine(t) \/ Drop(t) PROVE credentials' = credentials /\ revoker' = revoker
  BY <1>11 DEF Mine, Drop, dbVars
<1>12. ASSUME Scan \/ Expire \/ \E w \in Workers, mode \in {"publish", "retry"} : Begin(w, mode)
       PROVE  credentials' = credentials /\ revoker' = revoker
  BY <1>12 DEF Scan, Expire, Begin, dbVars
<1> HIDE DEF Goal
<1> QED
  BY <1>1, <1>2, <1>3, <1>4, <1>5, <1>6, <1>7, <1>8, <1>9, <1>10, <1>11, <1>12 DEF Next, Revoke

\* The proofs a watcher writes are those of a row in flight, from the tree as it is.
LEMMA ProofsWritten ==
  ASSUME IInv, GInv, UInv, OneFollower, ClaimsFit, ProofsInOrder, NEW k \in Watchers, NEW t \in TxIds,
         WriteProofs(k, t)
  PROVE  ProofsInOrder'
<1> DEFINE s == txs[t].new
           p == [state |-> s, root |-> claimsTree]
<1>1. s \in 1..nStates /\ claimsTree = states[s].claims
  BY DEF WriteProofs, OneFollower, Following, Carried, ClaimsFit, Open, Transacted
<1>2. UNCHANGED <<states, nStates, revoker>> /\ credentials \in [Claims -> CredentialRow]
  BY Kept DEF WriteProofs, TypeOK, DbTypeOK
<1>3. PICK done \in SUBSET WithMtpProof(s) :
        credentials' = [c \in Claims |->
          IF c \in done THEN [credentials[c] EXCEPT !.proof = p] ELSE credentials[c]]
  BY DEF WriteProofs, StateOf
<1>4. \A c \in done : c \in Claims /\ c \in states[s].claims
  <2>1. s # Null /\ LeafIffAssigned
    BY <1>1 DEF UInv, Null
  <2> QED
    BY <2>1, ClaimsAssumption DEF WithMtpProof, LeafIffAssigned
<1>5. p.state = s /\ p.root = claimsTree
  OBVIOUS
<1> HIDE DEF s, p
<1> SUFFICES ASSUME NEW c \in Claims PROVE ProofFits(credentials[c].proof, c)'
  BY <1>2 DEF ProofsInOrder, ProofFits
<1>6. CASE c \in done
  <2>1. credentials'[c] = [credentials[c] EXCEPT !.proof = p] /\ credentials[c] \in CredentialRow
    BY <1>2, <1>3, <1>6
  <2>2. credentials'[c].proof = p
    BY <2>1 DEF CredentialRow
  <2> QED
    BY <1>1, <1>2, <1>4, <1>5, <1>6, <2>2 DEF ProofFits
<1>7. CASE c \notin done
  <2>1. credentials'[c].proof = credentials[c].proof
    BY <1>3, <1>7
  <2> QED
    BY <1>2, <2>1 DEF ProofsInOrder, ProofFits
<1> QED
  BY <1>6, <1>7

\* Every step keeps the proofs right.
LEMMA ProofsStep ==
  ASSUME IInv, GInv, UInv, OneFollower, ClaimsFit, ProofsInOrder, Next
  PROVE  ProofsInOrder'
<1>1. CASE \E k \in Watchers, t \in TxIds : WriteProofs(k, t)
  BY <1>1, ProofsWritten
<1>2. CASE \A k \in Watchers, t \in TxIds : ~ WriteProofs(k, t)
  <2> DEFINE Fits(p, c) == p.state # Null =>
               p.state \in 1..nStates' /\ c \in p.root /\ p.root = states'[p.state].claims
  <2>1. ASSUME NEW c \in Claims PROVE Fits(credentials[c].proof, c) /\ Fits(NoProof, c)
    BY Kept, FitStays DEF ProofsInOrder, NoProof
  <2>2. ASSUME NEW c \in Claims, revoker[c].pc = "save" PROVE Fits(revoker[c].saved.proof, c)
    BY <2>2, Kept, FitStays DEF ProofsInOrder
  <2> HIDE DEF Fits
  <2>3. ASSUME NEW c \in Claims
        PROVE  /\ Fits(credentials'[c].proof, c)
               /\ revoker'[c].pc = "save" => Fits(revoker'[c].saved.proof, c)
    BY <1>2, <2>1, <2>2, Kept, ProofsFrom
  <2> QED
    BY <2>3 DEF Fits, ProofsInOrder, ProofFits
<1> QED
  BY <1>1, <1>2

\* Requests that come one at a time, watchers that do not overlap, and credentials that wait
\* for UpdateState: what the watchers rely on when they make proofs against the tree as it is.
WatchersApart == OneRequest /\ Faults \cap {"overlap", "phantom"} = {}

PInv == OneOpen /\ ClaimsFit /\ OneFollower /\ ProofsInOrder

\* The invariant holds at first.
LEMMA OneOpenInit == Init => OneOpen /\ ClaimsFit /\ OneFollower /\ ProofsInOrder
<1> SUFFICES ASSUME Init PROVE OneOpen /\ ClaimsFit /\ OneFollower /\ ProofsInOrder
  OBVIOUS
<1>1. Open = {} /\ Transacted = {}
  <2>1. nStates = 1 /\ states[1].status = "confirmed"
    BY BoundsAssumption DEF Init, NoRow, StateIds, Genesis
  <2> QED
    BY <2>1 DEF Open, Failed, Transacted
<1>2. \A w \in Workers : pc[w] = "idle"
  BY DEF Init
<1>3. OneOpen /\ ClaimsFit
  BY <1>1, <1>2 DEF OneOpen, ClaimsFit, Updates, Late
<1>4. OneFollower
  BY <1>2 DEF Init, OneFollower, Following
<1>5. ProofsInOrder
  BY DEF Init, ProofsInOrder, ProofFits, NotSaved, NoProof, NoRevoking
<1> QED
  BY <1>3, <1>4, <1>5

\* Every step keeps it.
LEMMA ProofsInvariance == ASSUME WatchersApart PROVE Spec => []PInv
<1>1. ASSUME IInv, GInv, UInv, PInv, Next PROVE PInv'
  <2>1. \A k \in Watchers, t \in TxIds : Revert(k, t) => txs[t].new \in Transacted
    BY <1>1 DEF PInv, OneFollower, Revert, Following, Carried
  <2>2. OneOpen' /\ ClaimsFit'
    BY <1>1, <2>1, OneOpenStep, ClaimsFitStep DEF WatchersApart, PInv
  <2>3. OneFollower'
    BY <1>1, OneFollowerStep DEF WatchersApart, PInv
  <2>4. ProofsInOrder'
    BY <1>1, ProofsStep DEF PInv
  <2> QED
    BY <2>2, <2>3, <2>4 DEF PInv
<1>2. PInv /\ UNCHANGED vars => PInv'
  <2> SUFFICES ASSUME PInv, UNCHANGED vars PROVE PInv'
    OBVIOUS
  <2> USE DEF vars, dbVars, chainVars, reqVars, evtVars
  <2>1. OneOpen' /\ ClaimsFit'
    BY DEF PInv, OneOpen, ClaimsFit, Open, Failed, Transacted
  <2>2. OneFollower' /\ ProofsInOrder'
    BY DEF PInv, OneFollower, Carried, Transacted, ProofsInOrder, ProofFits
  <2> QED
    BY <2>1, <2>2 DEF PInv
<1>3. IInv /\ GInv /\ UInv /\ PInv /\ [Next]_vars => PInv'
  BY <1>1, <1>2
<1>4. Init => PInv
  BY OneOpenInit DEF PInv
<1>5. Spec => []UInv
  BY UpdateInvariance DEF WatchersApart
<1>6. Spec => []GInv
  BY PublicationInvariance DEF WatchersApart
<1> QED
  BY <1>3, <1>4, <1>5, <1>6, Invariance, PTL DEF Spec

\* An MTP proof leads to the claims root of the state it names, whatever fails, restarts or is
\* revoked: no state is made between the transaction of one and the proofs of its credentials.
THEOREM ProofsFit == ASSUME WatchersApart PROVE Spec => []ProofFitsState
<1>1. PInv => ProofFitsState
  BY DEF PInv, ProofsInOrder, ProofFits, ProofFitsState
<1> QED
  BY <1>1, ProofsInvariance, PTL

-----------------------------------------------------------------------------
(* What the issuer knows of the chain, when nothing is revoked. *)

\* Requests that come one at a time, and no revocation.
NothingRevoked == OneRequest /\ Revocable = {}

\* There is no revocation, and what UpdateState is to add are new leaves.
Quiet ==
  /\ revTree = {} /\ \A c \in Claims : revocation[c] = "none" /\ revoker[c] = NoRevoking
  /\ \A w \in Workers : pc[w] = "commit" => loc[w].adds \cap loc[w].base = {}

\* The contract's states but the last are confirmed, and so is what a request builds on.
OnTop ==
  /\ \A s \in onChain : s <= chain /\ (s # chain => s \in Confirmed)
  /\ \A t \in TxIds : txs[t].status = "pending" => txs[t].old \in Confirmed
  /\ \A w \in Workers : pc[w] = "send" => loc[w].latest \in Confirmed

\* No transaction or request that may still fail is of a confirmed row.
Settled == \A s \in Confirmed :
  /\ \A t \in TxIds : txs[t].new = s => txs[t].status \notin {"pending", "reverted"}
  /\ \A w \in Workers : pc[w] \in Late => loc[w].row # s

\* A watcher reverts a row for a transaction that was.
Reverting == \A k \in Watchers, t \in TxIds : job[k][t] = "revert" => txs[t].status = "reverted"

\* A row, a watcher or a request has this transaction.
InHand(t) ==
  \/ Carried(t)
  \/ \E k \in Watchers : job[k][t] \in Following
  \/ \E w \in Workers : pc[w] = "record" /\ loc[w].tx = t

\* The issuer knows the state it has on the chain, or has its transaction still.
Known ==
  \/ chain \in Confirmed
  \/ \E t \in TxIds : txs[t].status = "success" /\ txs[t].new = chain /\ InHand(t)

\* The contract has refused a state.
Refused == \E t \in TxIds : txs[t].status = "reverted"

\* As long as it knows, nothing is refused: what is sent is on top of the chain, and new.
KnownFits == Known =>
  /\ ~ Refused
  /\ \A t \in TxIds : txs[t].status = "pending" => txs[t].old = chain /\ txs[t].new \notin onChain
  /\ \A w \in Workers : pc[w] = "send" => loc[w].latest = chain /\ loc[w].row \notin onChain

\* As long as nothing is refused there is one row on its way, and a transaction that may still
\* be settled is that of its row, and the last one if it is in flight.
Orderly == ~ Refused =>
  /\ OneOpen
  /\ \A k \in Watchers, t \in TxIds : job[k][t] \in Following => Carried(t) \/ txs[t].new \in Confirmed
  /\ \A t \in TxIds : txs[t].status = "pending" /\ Carried(t) => t = nTxs
  /\ \A w \in Workers : pc[w] = "record" => loc[w].tx = nTxs

FInv == Quiet /\ OnTop /\ Settled /\ Reverting /\ KnownFits /\ Orderly

\* The invariant holds at first.
LEMMA FinalInit == Init => FInv
<1> SUFFICES ASSUME Init PROVE FInv
  OBVIOUS
<1>1. /\ chain = 1 /\ onChain = {1} /\ revTree = {} /\ \A w \in Workers : pc[w] = "idle"
      /\ \A c \in Claims : revocation[c] = "none" /\ revoker[c] = NoRevoking
      /\ \A k \in Watchers, t \in TxIds : job[k][t] = "none"
      /\ \A t \in TxIds : txs[t].status = "none"
  BY DEF Init, Genesis, NoTx
<1>2. Quiet /\ Reverting
  BY <1>1 DEF Quiet, Reverting
<1>3. OnTop /\ Settled
  BY <1>1 DEF OnTop, Settled, Late
<1>4. KnownFits
  BY <1>1 DEF KnownFits, Refused
<1>5. Orderly
  BY <1>1, OneOpenInit DEF Orderly, Following
<1> QED
  BY <1>2, <1>3, <1>4, <1>5 DEF FInv

-----------------------------------------------------------------------------
(* What a step may change. *)

\* A transaction is sent, mined, dropped, or stays as it is.
LEMMA TxSteps ==
  ASSUME TypeOK, TxsSound, Next, NEW t \in TxIds
  PROVE  \/ txs'[t] = txs[t]
         \/ /\ txs[t].status = "pending" /\ txs'[t].old = txs[t].old /\ txs'[t].new = txs[t].new
            /\ \/ /\ Mine(t)
                  /\ txs'[t].status = IF Acceptable(txs[t].old, txs[t].new) THEN "success" ELSE "reverted"
               \/ txs'[t].status = "dropped"
         \/ /\ txs[t].status = "none" /\ t = nTxs' /\ txs'[t].status = "pending"
            /\ \E w \in Workers : /\ Send(w) /\ Submit(w)
                                  /\ txs'[t].old = loc[w].latest /\ txs'[t].new = loc[w].row
<1>0. txs \in [TxIds -> Transaction] /\ nTxs \in Nat
  BY Bounds DEF TypeOK, ChainTypeOK
<1>1. CASE UNCHANGED chainVars
  BY <1>1 DEF chainVars
<1>2. ASSUME NEW w \in Workers, Send(w), Submit(w), txs'[t] # txs[t]
      PROVE  /\ txs[t].status = "none" /\ t = nTxs' /\ txs'[t].status = "pending"
             /\ txs'[t].old = loc[w].latest /\ txs'[t].new = loc[w].row
  <2>1. /\ nTxs' = nTxs + 1
        /\ txs' = [txs EXCEPT ![nTxs'] = [status |-> "pending", old |-> loc[w].latest, new |-> loc[w].row]]
    BY <1>2 DEF Submit
  <2>2. t = nTxs'
    BY <1>0, <1>2, <2>1
  <2>3. txs'[t] = [status |-> "pending", old |-> loc[w].latest, new |-> loc[w].row]
    BY <1>0, <2>1, <2>2
  <2>4. t > nTxs
    BY <1>0, <2>1, <2>2
  <2> QED
    BY <2>2, <2>3, <2>4 DEF TxsSound
<1>3. ASSUME NEW u \in TxIds, NEW status, txs' = [txs EXCEPT ![u].status = status], txs'[t] # txs[t]
      PROVE  u = t /\ txs'[t].old = txs[t].old /\ txs'[t].new = txs[t].new /\ txs'[t].status = status
  <2>1. u = t
    BY <1>0, <1>3
  <2> QED
    BY <1>0, <1>3, <2>1 DEF Transaction
<1>4. ASSUME NEW u \in TxIds, Mine(u), txs'[t] # txs[t]
      PROVE  /\ txs[t].status = "pending" /\ txs'[t].old = txs[t].old /\ txs'[t].new = txs[t].new /\ Mine(t)
             /\ txs'[t].status = IF Acceptable(txs[t].old, txs[t].new) THEN "success" ELSE "reverted"
  <2>1. txs[u].status = "pending"
        /\ txs' = [txs EXCEPT ![u].status = IF Acceptable(txs[u].old, txs[u].new) THEN "success" ELSE "reverted"]
    BY <1>4 DEF Mine
  <2> QED
    BY <1>3, <1>4, <2>1
<1>5. ASSUME NEW u \in TxIds, Drop(u), txs'[t] # txs[t]
      PROVE  /\ txs[t].status = "pending" /\ txs'[t].old = txs[t].old /\ txs'[t].new = txs[t].new
             /\ txs'[t].status = "dropped"
  BY <1>3, <1>5 DEF Drop
<1> QED
  BY <1>1, <1>2, <1>4, <1>5, ChainSteps

\* A row that UpdateState hands on is a new one, since it has leaves that no other has.
LEMMA CommitFresh ==
  ASSUME IInv, GInv, Quiet, NEW w \in Workers, UpdateStateCommit(w), pc'[w] \in Late
  PROVE  loc'[w].row \notin 1..nStates
<1>0. pc \in [Workers -> RequestPcs] /\ loc \in [Workers -> Locals] /\ nStates \in Nat
  BY Kept, Bounds DEF TypeOK, RequestTypeOK
<1>1. ~ Release(w)
  BY <1>0 DEF Release, Late
<1>2. PICK s \in StateIds : /\ SaveRow(s, NewLeaves(w), loc[w].revs)
                            /\ GoTo(w, "latest", [NoLocals EXCEPT !.row = s])
  BY <1>1 DEF UpdateStateCommit
<1>3. loc'[w].row = s
  BY <1>0, <1>2 DEF GoTo, NoLocals
<1>4. RowsOf(NewLeaves(w), loc[w].revs) = {}
  <2>1. loc[w].adds # {} /\ pc[w] = "commit"
    BY <1>1 DEF UpdateStateCommit, Quiet, PendingRevocations
  <2>2. PICK c : c \in loc[w].adds /\ c \notin claimsTree
    BY <2>1, Kept DEF Quiet, UpdateFits
  <2>3. c \in NewLeaves(w)
    BY <2>2 DEF NewLeaves
  <2>4. \A r \in 1..nStates : states[r].claims # NewLeaves(w)
    BY <2>2, <2>3, Kept DEF TreesGrow
  <2> QED
    BY <2>4 DEF RowsOf
<1>5. s = nStates + 1
  BY <1>2, <1>4 DEF SaveRow
<1> QED
  BY <1>0, <1>3, <1>5

\* A confirmed row is left alone.
LEMMA ConfirmedStay ==
  ASSUME IInv, GInv, Settled, Reverting, Next PROVE Confirmed \subseteq Confirmed'
<1>1. CASE RowsStand
  BY <1>1, RowsStanding
<1>2. ASSUME NEW r, NEW status \in {"failed", "transacted", "confirmed"}, NEW t, Written(r, status, t),
             status = "confirmed" \/ r \notin Confirmed
      PROVE  Confirmed \subseteq Confirmed'
  BY <1>2, RowsWritten
<1>3. ASSUME NEW w \in Workers, Record(w) \/ MarkFailed(w) PROVE loc[w].row \notin Confirmed
  BY <1>3 DEF Record, MarkFailed, Late, Settled
<1>4. ASSUME NEW k \in Watchers, NEW t \in TxIds, Revert(k, t) PROVE txs[t].new \notin Confirmed
  BY <1>4 DEF Revert, Reverting, Settled
<1> QED
  BY <1>1, <1>2, <1>3, <1>4, RowChanges

\* A row is confirmed by a watcher of a transaction the contract has taken.
LEMMA ConfirmedFrom ==
  ASSUME IInv, GInv, Next, NEW s \in Confirmed', s \notin Confirmed
  PROVE  \E k \in Watchers, t \in TxIds :
           /\ Confirm(k, t) /\ job[k][t] \in Following
           /\ txs[t].status = "success" /\ s = txs[t].new /\ s \in onChain
<1>1. ~ RowsStand
  BY RowsStanding
<1>2. ASSUME NEW r, NEW status \in {"failed", "transacted"}, NEW t, Written(r, status, t) PROVE FALSE
  BY <1>2, RowsWritten
<1>3. PICK k \in Watchers, t \in TxIds : Confirm(k, t) /\ Written(txs[t].new, "confirmed", t)
  BY <1>1, <1>2, RowChanges
<1>4. s = txs[t].new
  BY <1>3, RowsWritten
<1>5. job[k][t] = "confirm" /\ txs[t].status = "success"
  BY <1>3, Kept DEF Confirm, WatchersSound
<1> QED
  BY <1>3, <1>4, <1>5, Kept DEF TxsSound, Following

-----------------------------------------------------------------------------
(* Every step keeps the invariant. *)

\* Revocations do not begin.
LEMMA QuietStep ==
  ASSUME NothingRevoked, TypeOK, Quiet, Next PROVE Quiet'
<1> USE DEF TypeOK, DbTypeOK, FollowerTypeOK
<1>1. ASSUME UNCHANGED <<revTree, revocation, revoker>>
      PROVE  revTree' = {} /\ \A c \in Claims : revocation'[c] = "none" /\ revoker'[c] = NoRevoking
  BY <1>1 DEF Quiet
<1>2. ASSUME NEW c \in Claims, Revoke(c) PROVE FALSE
  BY <1>2 DEF Revoke, RevokeTree, RevokeReread, RevokeSave, RevokeFails, NothingRevoked, Quiet, NoRevoking
<1>3. ASSUME NEW w \in Workers, UpdateStateCommit(w) PROVE UNCHANGED <<revTree, revocation, revoker>>
  <2>1. UNCHANGED <<revTree, revoker>> /\ (revocation' = revocation \/ PublishRevocations)
    BY <1>3 DEF UpdateStateCommit, dbVars
  <2>2. ASSUME PublishRevocations PROVE revocation' = revocation
    <3>1. PendingRevocations = {}
      BY DEF PendingRevocations, Quiet
    <3> QED
      BY <2>2, <3>1 DEF PublishRevocations
  <2> QED
    BY <2>1, <2>2
<1>4. CASE CrashPlatform
  BY <1>4 DEF CrashPlatform, dbVars, Quiet
<1>5. revTree' = {} /\ \A c \in Claims : revocation'[c] = "none" /\ revoker'[c] = NoRevoking
  <2>1. ASSUME NEW w \in Workers, Request(w), ~ UpdateStateCommit(w) PROVE UNCHANGED <<revTree, revocation, revoker>>
    BY <2>1 DEF Request, Store, CheckUnprocessed, UpdateStateBegin, FailedState, ReadLatest, Send,
       Record, Follow, MarkFailed, RequestFails, dbVars
  <2>2. ASSUME NEW k \in Watchers, NEW t \in TxIds, Watch(k, t) PROVE UNCHANGED <<revTree, revocation, revoker>>
    BY <2>2 DEF Watch, Receipt, NoReceipt, WriteProofs, Confirm, Event, Revert, JobFails, dbVars
  <2>3. \/ UNCHANGED <<revTree, revocation, revoker>> \/ CrashPlatform
    BY <1>2, <1>3, <2>1, <2>2 DEF Next, Issue, Begin, Mine, Drop, Scan, Expire, dbVars
  <2> QED
    BY <1>1, <1>4, <2>3 DEF CrashPlatform, dbVars, Quiet
<1>6. ASSUME NEW w \in Workers, pc'[w] = "commit" PROVE loc'[w].adds \cap loc'[w].base = {}
  <2>1. CASE pc[w] = "commit" /\ loc'[w] = loc[w]
    BY <2>1 DEF Quiet
  <2>2. CASE UpdateStateBegin(w)
    <3>1. pc[w] = "update" /\ pc \in [Workers -> RequestPcs] /\ loc \in [Workers -> Locals]
      BY <2>2 DEF UpdateStateBegin, RequestTypeOK
    <3>2. ~ Release(w)
      BY <1>6, <3>1 DEF Release
    <3>3. /\ Unassigned \cap claimsTree = {}
          /\ loc' = [loc EXCEPT ![w] = [loc[w] EXCEPT !.base = claimsTree, !.revs = revTree, !.adds = Unassigned]]
      BY <2>2, <3>2 DEF UpdateStateBegin, GoTo
    <3>4. loc'[w].base = claimsTree /\ loc'[w].adds = Unassigned
      BY <3>1, <3>3 DEF Locals
    <3> QED
      BY <3>3, <3>4
  <2> QED
    BY <1>6, <2>1, <2>2, Reads
<1> QED
  BY <1>5, <1>6 DEF Quiet

\* What the contract takes is on top of a confirmed state.
LEMMA OnTopStep ==
  ASSUME IInv, GInv, OnTop, Settled, Reverting, Next PROVE OnTop'
<1>0. TypeOK /\ TxsSound /\ Confirmed \subseteq Confirmed'
  BY Kept, ConfirmedStay
<1>1. ASSUME NEW s \in onChain' PROVE s <= chain' /\ (s # chain' => s \in Confirmed')
  <2>1. CASE UNCHANGED <<chain, onChain>>
    BY <1>0, <1>1, <2>1 DEF OnTop
  <2>2. ASSUME NEW t \in TxIds, Mine(t), ~ UNCHANGED <<chain, onChain>>
        PROVE  s <= chain' /\ (s # chain' => s \in Confirmed')
    <3>1. /\ txs[t].status = "pending" /\ txs[t].old = chain /\ txs[t].new \notin onChain
          /\ chain' = txs[t].new /\ onChain' = onChain \cup {txs[t].new}
      BY <2>2 DEF Mine, Acceptable
    <3>2. chain \in Confirmed
      BY <3>1 DEF OnTop
    <3>3. chain \in Nat /\ txs[t].new \in Nat /\ chain < txs[t].new /\ onChain \subseteq Nat
      BY <1>0, <3>1, Kept, Bounds DEF ChainGrows
    <3>4. CASE s \in onChain
      BY <1>0, <3>1, <3>2, <3>3, <3>4 DEF OnTop
    <3>5. CASE s = txs[t].new
      BY <3>1, <3>3, <3>5
    <3> QED
      BY <1>1, <3>1, <3>4, <3>5
  <2> QED
    BY <2>1, <2>2, ChainSteps DEF chainVars, Submit, Drop
<1>2. ASSUME NEW t \in TxIds, txs'[t].status = "pending" PROVE txs'[t].old \in Confirmed'
  <2>1. CASE txs'[t] = txs[t]
    BY <1>0, <1>2, <2>1 DEF OnTop
  <2>2. ASSUME NEW w \in Workers, Send(w), txs'[t].old = loc[w].latest PROVE txs'[t].old \in Confirmed'
    BY <1>0, <2>2 DEF OnTop, Send
  <2> QED
    BY <1>0, <1>2, <2>1, <2>2, TxSteps
<1>3. ASSUME NEW w \in Workers, pc'[w] = "send" PROVE loc'[w].latest \in Confirmed'
  BY <1>0, <1>3, LateSteps DEF OnTop, Late, Newest
<1> QED
  BY <1>1, <1>2, <1>3 DEF OnTop

\* A transaction that was reverted stays so, and a watcher is to revert its row only then.
LEMMA RevertingStep ==
  ASSUME IInv, GInv, Reverting, Next PROVE Reverting' /\ (Refused => Refused')
<1>1. ASSUME NEW t \in TxIds, txs[t].status = "reverted" PROVE txs'[t].status = "reverted"
  BY <1>1, Kept, TxSteps
<1>2. ASSUME NEW k \in Watchers, NEW t \in TxIds, job'[k][t] = "revert" PROVE txs[t].status = "reverted"
  BY <1>2, Kept, JobSteps DEF Reverting
<1> QED
  BY <1>1, <1>2 DEF Reverting, Refused

\* A transaction a row has now is one that it had, or one that its request records.
LEMMA CarriedFrom ==
  ASSUME IInv, GInv, Next, NEW t \in TxIds, Carried(t)'
  PROVE  Carried(t) \/ \E w \in Workers : Record(w) /\ t = loc[w].tx
<1>1. PICK s \in Transacted' : s = txs'[t].new /\ states'[s].tx = t
  BY DEF Carried
<1>2. \/ s \in Transacted /\ states[s].tx = t
      \/ \E w \in Workers : Record(w) /\ t = loc[w].tx
  BY <1>1, RowsFrom
<1>3. ASSUME s \in Transacted, states[s].tx = t PROVE Carried(t)
  BY <1>3, Kept DEF RowsCurrent, Carried
<1> QED
  BY <1>2, <1>3

\* As long as nothing is refused, the row of a transaction keeps it until it is confirmed.
LEMMA CarriedStays ==
  ASSUME IInv, GInv, Reverting, OneOpen, ~ Refused, Next, NEW t \in TxIds, Carried(t)
  PROVE  Carried(t)' \/ txs'[t].new \in Confirmed'
<1> DEFINE s == txs[t].new
<1>0. s \in Transacted /\ states[s].tx = t /\ s \in 1..nStates
  BY DEF Carried, Transacted
<1>1. txs'[t].new = s
  BY <1>0, Kept, TxsStay DEF RowsCurrent
<1> HIDE DEF s
<1>2. SUFFICES (s \in Transacted' /\ states'[s].tx = t) \/ s \in Confirmed'
  BY <1>1 DEF Carried
<1>3. CASE RowsStand
  BY <1>0, <1>3, RowsStanding DEF RowsStand
<1>4. ASSUME NEW w \in Workers, Record(w) \/ MarkFailed(w) PROVE FALSE
  BY <1>0, <1>4 DEF OneOpen, Record, MarkFailed, Late
<1>5. ASSUME NEW k \in Watchers, NEW u \in TxIds, Revert(k, u) PROVE FALSE
  BY <1>5 DEF Revert, Reverting, Refused
<1>6. ASSUME NEW u \in TxIds, Written(txs[u].new, "confirmed", u)
      PROVE  (s \in Transacted' /\ states'[s].tx = t) \/ s \in Confirmed'
  <2>1. CASE s = txs[u].new
    <3>1. Confirmed' = Confirmed \cup {txs[u].new}
      BY <1>6, RowsWritten
    <3> QED
      BY <2>1, <3>1
  <2>2. CASE s # txs[u].new
    <3>1. s \in Transacted' /\ states'[s] = states[s]
      <4>1. Transacted' = Transacted \ {txs[u].new}
        BY <1>6, RowsWritten
      <4> QED
        BY <1>0, <1>6, <2>2, <4>1 DEF Written
    <3> QED
      BY <1>0, <3>1
  <2> QED
    BY <2>1, <2>2
<1> QED
  BY <1>3, <1>4, <1>5, <1>6, RowChanges

\* As long as nothing is refused, rows and transactions stay in step.
LEMMA OrderlyStep ==
  ASSUME OneRequest, IInv, GInv, Settled, Reverting, Orderly, Next PROVE Orderly'
<1> SUFFICES ASSUME ~ Refused'
             PROVE  /\ OneOpen'
                    /\ \A k \in Watchers, t \in TxIds :
                         job'[k][t] \in Following => Carried(t)' \/ txs'[t].new \in Confirmed'
                    /\ \A t \in TxIds : txs'[t].status = "pending" /\ Carried(t)' => t = nTxs'
                    /\ \A w \in Workers : pc'[w] = "record" => loc'[w].tx = nTxs'
  BY DEF Orderly, Carried
<1>0. /\ TypeOK /\ TxsSound /\ ~ Refused /\ OneOpen /\ Confirmed \subseteq Confirmed'
      /\ pc \in [Workers -> RequestPcs]
  BY Kept, RevertingStep, ConfirmedStay DEF Orderly, TypeOK, RequestTypeOK
<1>1. OneOpen'
  <2>1. \A k \in Watchers, t \in TxIds : Revert(k, t) => txs[t].new \in Transacted
    BY <1>0 DEF Revert, Reverting, Refused
  <2> QED
    BY <1>0, <2>1, OneOpenStep
<1>2. ASSUME NEW k \in Watchers, NEW t \in TxIds, job'[k][t] \in Following
      PROVE  Carried(t)' \/ txs'[t].new \in Confirmed'
  <2>1. CASE job[k][t] \in Following
    <3>1. t \in 1..nTxs
      BY <2>1, Kept, Bounds DEF JobsCurrent, Following, TxIds
    <3>2. txs'[t].new = txs[t].new
      BY <1>0, <3>1, TxsStay
    <3>3. CASE Carried(t)
      BY <1>0, <3>3, CarriedStays
    <3>4. CASE txs[t].new \in Confirmed
      BY <1>0, <3>2, <3>4
    <3> QED
      BY <1>0, <2>1, <3>3, <3>4 DEF Orderly
  <2>2. ASSUME NEW w \in Workers, Record(w), t = loc[w].tx PROVE Carried(t)'
    BY <2>2, RecordCarries
  <2>3. ASSUME NEW s \in Transacted, t = states[s].tx PROVE Carried(t)
    BY <2>3, Kept DEF RowsCurrent, Carried
  <2>4. CASE \E s \in Transacted : t = states[s].tx
    BY <1>0, <2>3, <2>4, CarriedStays
  <2>5. job'[k][t] # "none"
    BY <1>2 DEF Following
  <2> QED
    BY <1>0, <1>2, <2>1, <2>2, <2>4, <2>5, JobSteps
<1>3. ASSUME Transacted # {} \/ \E w \in Workers : pc[w] = "record" PROVE nTxs' = nTxs
  <2>1. ~ \E w \in Workers : Send(w)
    BY <1>0, <1>3 DEF OneOpen, OneRequest, Send, Late
  <2> QED
    BY <2>1, ChainSteps DEF chainVars, Mine, Drop
<1>4. ASSUME NEW t \in TxIds, txs'[t].status = "pending", Carried(t)' PROVE t = nTxs'
  <2>1. CASE Carried(t)
    <3>1. nTxs' = nTxs
      BY <1>3, <2>1 DEF Carried
    <3>2. CASE txs'[t] = txs[t]
      BY <1>0, <1>4, <2>1, <3>1, <3>2 DEF Orderly
    <3> QED
      BY <1>0, <1>4, <3>2, TxSteps
  <2>2. ASSUME NEW w \in Workers, Record(w), t = loc[w].tx PROVE t = nTxs'
    BY <1>0, <1>3, <2>2 DEF Record, Orderly
  <2> QED
    BY <1>4, <2>1, <2>2, CarriedFrom
<1>5. ASSUME NEW w \in Workers, pc'[w] = "record" PROVE loc'[w].tx = nTxs'
  <2>1. CASE pc[w] = "record" /\ loc'[w].tx = loc[w].tx
    BY <1>0, <1>3, <2>1 DEF Orderly
  <2> QED
    BY <1>0, <1>5, <2>1, LateSteps DEF Late
<1> QED
  BY <1>1, <1>2, <1>4, <1>5

\* What somebody has in hand now was in hand, or has just been sent.
LEMMA InHandFrom ==
  ASSUME IInv, GInv, Next, NEW t \in TxIds, InHand(t)'
  PROVE  InHand(t) \/ (t = nTxs' /\ txs'[t].status = "pending")
<1>0. TypeOK
  BY Kept
<1>1. ASSUME NEW w \in Workers, Record(w), t = loc[w].tx PROVE InHand(t)
  BY <1>1 DEF Record, InHand
<1>2. CASE Carried(t)'
  BY <1>1, <1>2, CarriedFrom DEF InHand
<1>3. ASSUME NEW k \in Watchers, job'[k][t] \in Following PROVE InHand(t)
  <2>1. job'[k][t] # "none"
    BY <1>3 DEF Following
  <2>2. ASSUME NEW s \in Transacted, t = states[s].tx PROVE InHand(t)
    BY <2>2, Kept DEF RowsCurrent, Carried, InHand
  <2>3. CASE job[k][t] \in Following
    BY <2>3 DEF InHand
  <2> QED
    BY <1>0, <1>1, <1>3, <2>1, <2>2, <2>3, JobSteps
<1>4. ASSUME NEW w \in Workers, pc'[w] = "record", loc'[w].tx = t
      PROVE  InHand(t) \/ (t = nTxs' /\ txs'[t].status = "pending")
  <2>1. CASE pc[w] = "record" /\ loc[w].tx = t
    BY <2>1 DEF InHand
  <2>2. CASE Submit(w) /\ t = nTxs'
    <3>1. txs'[t].status = "pending"
      BY <1>0, <2>2 DEF Submit, TypeOK, ChainTypeOK
    <3> QED
      BY <2>2, <3>1
  <2> QED
    BY <1>0, <1>4, <2>1, <2>2, LateSteps DEF Late
<1> QED
  BY <1>2, <1>3, <1>4 DEF InHand, Carried

\* An issuer that has lost sight of the chain does not find it again.
LEMMA KnownFrom ==
  ASSUME IInv, GInv, OnTop, Next, Known' PROVE Known
<1>0. TypeOK /\ TxsSound
  BY Kept
<1>1. CASE chain' = chain
  <2>1. CASE chain \in Confirmed'
    <3>1. CASE chain \in Confirmed
      BY <3>1 DEF Known
    <3>2. CASE chain \notin Confirmed
      BY <2>1, <3>2, ConfirmedFrom DEF Known, InHand
    <3> QED
      BY <3>1, <3>2
  <2>2. ASSUME NEW t \in TxIds, txs'[t].status = "success", txs'[t].new = chain, InHand(t)' PROVE Known
    <3>1. InHand(t)
      BY <2>2, InHandFrom
    <3>2. CASE txs'[t] = txs[t]
      BY <2>2, <3>1, <3>2 DEF Known
    <3>3. CASE Mine(t) /\ Acceptable(txs[t].old, txs[t].new) /\ txs[t].status = "pending"
      BY <3>3 DEF Acceptable, OnTop, Known
    <3> QED
      BY <1>0, <2>2, <3>2, <3>3, TxSteps
  <2> QED
    BY <1>1, <2>1, <2>2 DEF Known, InHand, Carried
<1>2. ASSUME NEW t \in TxIds, Mine(t), chain' # chain PROVE Known
  BY <1>2 DEF Mine, Acceptable, OnTop, Known
<1> QED
  BY <1>1, <1>2, ChainSteps DEF chainVars, Submit, Drop

\* A row is confirmed when nothing that may still fail is of it.
LEMMA SettledStep ==
  ASSUME IInv, GInv, FInv, Next PROVE Settled'
<1>0. TypeOK /\ TxsSound /\ Quiet /\ OnTop /\ Settled /\ Reverting /\ KnownFits /\ Orderly
  BY Kept DEF FInv
<1>1. ASSUME NEW s \in Confirmed, NEW t \in TxIds, txs'[t].new = s
      PROVE  txs'[t].status \notin {"pending", "reverted"}
  <2>1. ASSUME NEW w \in Workers, Send(w), txs'[t].new = loc[w].row PROVE FALSE
    BY <1>0, <1>1, <2>1 DEF Send, Settled, Late
  <2> QED
    BY <1>0, <1>1, <2>1, TxSteps DEF Settled
<1>2. ASSUME NEW s \in Confirmed, NEW w \in Workers, pc'[w] \in Late PROVE loc'[w].row # s
  <2>1. s \in 1..nStates /\ s \notin Failed
    BY DEF Confirmed, Failed
  <2>2. CASE UpdateStateCommit(w)
    BY <1>0, <1>2, <2>1, <2>2, CommitFresh
  <2> QED
    BY <1>0, <1>2, <2>1, <2>2, LateSteps DEF Settled
<1>3. ASSUME NEW s \in Confirmed', s \notin Confirmed
      PROVE  /\ \A t \in TxIds : txs'[t].new = s => txs'[t].status \notin {"pending", "reverted"}
             /\ \A w \in Workers : pc'[w] \in Late => loc'[w].row # s
  <2>1. PICK k \in Watchers, u \in TxIds : /\ Confirm(k, u) /\ job[k][u] \in Following
                                           /\ txs[u].status = "success" /\ s = txs[u].new /\ s \in onChain
    BY <1>3, ConfirmedFrom
  <2>2. s = chain
    BY <1>0, <1>3, <2>1 DEF OnTop
  <2>3. Known
    BY <2>1, <2>2 DEF Known, InHand
  <2>4. ~ Refused /\ Carried(u)
    BY <1>0, <1>3, <2>1, <2>3 DEF KnownFits, Orderly
  <2>5. UNCHANGED <<pc, loc, txs>>
    BY <2>1 DEF Confirm, Advance, chainVars
  <2>6. \A t \in TxIds : txs[t].new = s => txs[t].status \notin {"pending", "reverted"}
    BY <1>0, <2>1, <2>3, <2>4 DEF KnownFits, Refused
  <2>7. \A w \in Workers : pc[w] \notin Late
    BY <1>0, <2>4 DEF Orderly, OneOpen, Carried
  <2> QED
    BY <2>5, <2>6, <2>7
<1> QED
  BY <1>1, <1>2, <1>3 DEF Settled

\* A state that is mined when the issuer knows the chain is of the last transaction there is.
LEMMA MinedLast ==
  ASSUME OneRequest, IInv, GInv, FInv, Known', NEW t \in TxIds, Mine(t), Known
  PROVE  /\ Acceptable(txs[t].old, txs[t].new) /\ txs'[t].status = "success" /\ chain' = txs[t].new
         /\ \A u \in TxIds : txs'[u].status # "pending" /\ (u # t => txs'[u] = txs[u])
         /\ \A w \in Workers : pc[w] # "send"
<1>0. /\ TypeOK /\ TxsSound /\ Settled /\ KnownFits /\ Orderly /\ ~ Refused
      /\ nTxs \in Nat /\ TxIds \subseteq Nat /\ txs \in [TxIds -> Transaction]
  BY Kept, Bounds DEF FInv, KnownFits, TxIds, TypeOK, ChainTypeOK
<1>1. txs[t].status = "pending" /\ txs[t].old = chain /\ txs[t].new \notin onChain
  BY <1>0 DEF KnownFits, Mine
<1>2. Acceptable(txs[t].old, txs[t].new)
  BY <1>1 DEF Acceptable
<1>3. /\ txs' = [txs EXCEPT ![t].status = "success"] /\ chain' = txs[t].new
      /\ UNCHANGED <<states, nStates, pc, loc, job>>
  BY <1>2 DEF Mine, dbVars, reqVars
<1>4. \A u \in TxIds : txs'[u].new = txs[u].new /\ (u # t => txs'[u] = txs[u])
  BY <1>0, <1>3 DEF Transaction
<1>5. txs'[t].status = "success"
  BY <1>0, <1>3 DEF Transaction
<1>6. \A u \in TxIds : InHand(u)' => InHand(u)
  BY <1>3, <1>4 DEF InHand, Carried, Transacted
<1>7. InHand(t)
  <2>1. chain' \notin Confirmed'
    <3>1. Confirmed' = Confirmed
      BY <1>3 DEF Confirmed
    <3> QED
      BY <1>0, <1>1, <1>3, <3>1 DEF Settled
  <2>2. PICK u \in TxIds : txs'[u].status = "success" /\ txs'[u].new = chain' /\ InHand(u)'
    BY <2>1 DEF Known, InHand, Carried
  <2>3. u = t
    BY <1>0, <1>1, <1>3, <1>4, <2>2 DEF TxsSound
  <2> QED
    BY <1>6, <2>2, <2>3
<1>8. txs[t].new \notin Confirmed
  BY <1>0, <1>1 DEF Settled
<1>9. t = nTxs /\ \A w \in Workers : pc[w] # "send"
  <2>1. CASE Carried(t)
    BY <1>0, <1>1, <2>1 DEF Orderly, OneOpen, Late, Carried
  <2>2. ASSUME NEW w \in Workers, pc[w] = "record", loc[w].tx = t
        PROVE  t = nTxs /\ \A v \in Workers : pc[v] # "send"
    BY <1>0, <2>2 DEF Orderly, OneRequest
  <2> QED
    BY <1>0, <1>7, <1>8, <2>1, <2>2 DEF InHand, Orderly
<1>10. ASSUME NEW u \in TxIds, u # t PROVE txs[u].status # "pending"
  <2>1. txs[u].status = "pending" => u <= nTxs
    BY Kept DEF ChainGrows
  <2>2. u < t => txs[u].status # "pending"
    BY DEF Mine
  <2> QED
    BY <1>0, <1>9, <1>10, <2>1, <2>2
<1> QED
  BY <1>2, <1>3, <1>4, <1>5, <1>9, <1>10

\* An issuer that knows the chain sends what the contract will take.
LEMMA KnownFitsStep ==
  ASSUME OneRequest, IInv, GInv, FInv, Next PROVE KnownFits'
<1>0. /\ TypeOK /\ TxsSound /\ OnTop /\ Settled /\ Reverting /\ KnownFits /\ Orderly
      /\ pc \in [Workers -> RequestPcs]
  BY Kept DEF FInv, TypeOK, RequestTypeOK
<1> SUFFICES ASSUME Known'
             PROVE  /\ ~ Refused'
                    /\ \A t \in TxIds : txs'[t].status = "pending" =>
                         txs'[t].old = chain' /\ txs'[t].new \notin onChain'
                    /\ \A w \in Workers : pc'[w] = "send" =>
                         loc'[w].latest = chain' /\ loc'[w].row \notin onChain'
  BY DEF KnownFits
<1>1. /\ Known /\ ~ Refused
      /\ \A t \in TxIds : txs[t].status = "pending" => txs[t].old = chain /\ txs[t].new \notin onChain
      /\ \A w \in Workers : pc[w] = "send" => loc[w].latest = chain /\ loc[w].row \notin onChain
  BY <1>0, KnownFrom DEF KnownFits
<1>2. ASSUME NEW t \in TxIds, Mine(t)
      PROVE  /\ ~ Refused'
             /\ \A u \in TxIds : txs'[u].status # "pending"
             /\ \A w \in Workers : pc'[w] # "send"
  <2>1. /\ txs'[t].status = "success"
        /\ \A u \in TxIds : txs'[u].status # "pending" /\ (u # t => txs'[u] = txs[u])
        /\ \A w \in Workers : pc[w] # "send"
    BY <1>1, <1>2, MinedLast
  <2>2. pc' = pc
    BY <1>2 DEF Mine, reqVars
  <2> QED
    BY <1>1, <2>1, <2>2 DEF Refused
<1>3. ASSUME \A t \in TxIds : ~ Mine(t)
      PROVE  /\ ~ Refused' /\ chain' = chain /\ onChain' = onChain
             /\ \A t \in TxIds : txs'[t].status = "pending" =>
                  txs'[t].old = chain /\ txs'[t].new \notin onChain
  <2>1. chain' = chain /\ onChain' = onChain
    BY <1>3, ChainSteps DEF chainVars, Submit, Drop
  <2>2. ASSUME NEW t \in TxIds PROVE txs'[t].status # "reverted"
    BY <1>0, <1>1, <1>3, TxSteps DEF Refused
  <2>3. ASSUME NEW t \in TxIds, txs'[t].status = "pending"
        PROVE  txs'[t].old = chain /\ txs'[t].new \notin onChain
    <3>1. ASSUME NEW w \in Workers, Send(w), txs'[t].old = loc[w].latest, txs'[t].new = loc[w].row
          PROVE  txs'[t].old = chain /\ txs'[t].new \notin onChain
      BY <1>1, <3>1 DEF Send
    <3>2. CASE txs'[t] = txs[t]
      BY <1>1, <2>3, <3>2
    <3> QED
      BY <1>0, <1>3, <2>3, <3>1, <3>2, TxSteps
  <2> QED
    BY <2>1, <2>2, <2>3 DEF Refused
<1>4. ASSUME NEW w \in Workers, pc'[w] = "send" PROVE loc'[w].latest = chain /\ loc'[w].row \notin onChain
  <2>1. CASE pc[w] = "send" /\ loc'[w].latest = loc[w].latest /\ loc'[w].row = loc[w].row
    BY <1>1, <2>1
  <2>2. CASE pc[w] = "latest" /\ Newest(loc'[w].latest, Confirmed) /\ loc'[w].row = loc[w].row
    <3>1. Transacted = {} /\ \A v \in Workers : pc[v] # "record"
      BY <1>0, <1>1, <2>2 DEF Orderly, OneOpen, OneRequest, Late
    <3>2. ASSUME NEW t \in TxIds, InHand(t) PROVE txs[t].new \in Confirmed
      BY <1>0, <1>1, <3>1, <3>2 DEF InHand, Carried, Orderly
    <3>3. chain \in Confirmed
      BY <1>1, <3>2 DEF Known
    <3>4. Confirmed \subseteq onChain
      BY Kept DEF ConfirmedIsAnchored, ChainGrows
    <3>5. loc'[w].latest = chain
      <4>1. loc'[w].latest \in Confirmed /\ chain <= loc'[w].latest /\ loc'[w].latest <= chain
        BY <1>0, <2>2, <3>3, <3>4 DEF Newest, OnTop
      <4>2. loc'[w].latest \in Nat /\ chain \in Nat
        BY <3>3, <4>1 DEF Confirmed
      <4> QED
        BY <4>1, <4>2
    <3>6. loc[w].row \notin Confirmed
      BY <1>0, <2>2 DEF Settled, Late
    <3> QED
      BY <1>0, <2>2, <3>3, <3>5, <3>6 DEF OnTop
  <2> QED
    BY <1>0, <1>4, <2>1, <2>2, LateSteps DEF Late
<1> QED
  BY <1>2, <1>3, <1>4

\* The invariant holds of every behaviour with one request at a time and no revocation.
LEMMA FinalInvariance == ASSUME NothingRevoked PROVE Spec => []FInv
<1>1. ASSUME IInv, GInv, FInv, Next PROVE FInv'
  <2>1. Quiet' /\ OnTop' /\ Reverting'
    BY <1>1, QuietStep, OnTopStep, RevertingStep, Kept DEF FInv
  <2>2. Settled' /\ KnownFits' /\ Orderly'
    BY <1>1, SettledStep, KnownFitsStep, OrderlyStep DEF FInv, NothingRevoked
  <2> QED
    BY <2>1, <2>2 DEF FInv
<1>2. FInv /\ UNCHANGED vars => FInv'
  <2> SUFFICES ASSUME FInv, UNCHANGED vars PROVE FInv'
    OBVIOUS
  <2> USE DEF vars, dbVars, chainVars, reqVars, evtVars
  <2>1. Quiet' /\ OnTop' /\ Settled' /\ Reverting'
    BY DEF FInv, Quiet, OnTop, Settled, Reverting, Confirmed
  <2>2. KnownFits'
    BY DEF FInv, KnownFits, Known, Refused, InHand, Carried, Transacted, Confirmed
  <2>3. Orderly'
    BY DEF FInv, Orderly, Refused, Carried, OneOpen, Open, Failed, Transacted, Confirmed
  <2> QED
    BY <2>1, <2>2, <2>3 DEF FInv
<1>3. IInv /\ GInv /\ FInv /\ [Next]_vars => FInv'
  BY <1>1, <1>2
<1>4. Spec => []GInv
  BY PublicationInvariance DEF NothingRevoked
<1> QED
  BY <1>3, <1>4, FinalInit, Invariance, PTL DEF Spec

\* A confirmed row is never written again with another status, whatever fails, restarts or is
\* followed twice, as long as nothing is revoked: every state that UpdateState makes is a new one
\* then, so that no request publishes a confirmed one again.
THEOREM ConfirmedFinal == ASSUME NothingRevoked PROVE Spec => ConfirmedIsFinal
<1>1. IInv /\ GInv /\ FInv /\ [Next]_vars => [Confirmed \subseteq Confirmed']_vars
  BY ConfirmedStay DEF FInv
<1>2. Spec => []GInv
  BY PublicationInvariance DEF NothingRevoked
<1> QED
  BY <1>1, <1>2, FinalInvariance, Invariance, PTL DEF Spec, ConfirmedIsFinal

-----------------------------------------------------------------------------
(* What the issuer goes on knowing, when its own calls and answers come through. *)

\* No answer of the node is lost, no call to the database fails, and the platform stays up.
Undisturbed == NothingRevoked /\ Faults \cap {"lost", "db", "crash"} = {}

\* The issuer knows the chain, and has every transaction in flight.
HInv == Known /\ \A t \in TxIds : txs[t].status = "pending" => InHand(t)

\* A request that has sent a transaction records it.
LEMMA RecordNext ==
  ASSUME Undisturbed, TypeOK, Next, NEW w \in Workers, pc[w] = "record"
  PROVE  Record(w) \/ UNCHANGED <<pc, loc>>
<1>1. ASSUME NEW v \in Workers, Request(v), ~ Record(v) PROVE FALSE
  <2>1. v = w
    BY DEF Undisturbed, NothingRevoked, OneRequest
  <2>2. ~ RequestFails(w)
    BY DEF RequestFails, May, Undisturbed
  <2> QED
    BY <1>1, <2>1, <2>2 DEF Request, Store, CheckUnprocessed, UpdateStateBegin, UpdateStateCommit,
       FailedState, ReadLatest, Send, MarkFailed
<1>2. ASSUME NEW v \in Workers, NEW mode \in {"publish", "retry"}, Begin(v, mode) PROVE FALSE
  BY <1>2 DEF Begin, Undisturbed, NothingRevoked, OneRequest
<1>3. ~ CrashPlatform
  BY DEF CrashPlatform, May, Undisturbed
<1>4. ASSUME NEW v \in Workers, Record(v) PROVE Record(w)
  BY <1>4 DEF Undisturbed, NothingRevoked, OneRequest
<1>5. ASSUME NEW k \in Watchers, NEW t \in TxIds, Watch(k, t) PROVE UNCHANGED <<pc, loc>>
  BY <1>5 DEF Watch, Receipt, NoReceipt, WriteProofs, Confirm, Event, Revert, JobFails
<1>6. ASSUME NEW c \in Claims, Issue(c) \/ Revoke(c) PROVE UNCHANGED <<pc, loc>>
  BY <1>6 DEF Issue, Revoke, RevokeTree, RevokeReread, RevokeSave, RevokeFails, reqVars
<1>7. ASSUME NEW t \in TxIds, Mine(t) \/ Drop(t) PROVE UNCHANGED <<pc, loc>>
  BY <1>7 DEF Mine, Drop, reqVars
<1>8. ASSUME Scan \/ Expire PROVE UNCHANGED <<pc, loc>>
  BY <1>8 DEF Scan, Expire, reqVars
<1> QED
  BY <1>1, <1>2, <1>3, <1>4, <1>5, <1>6, <1>7, <1>8 DEF Next

\* What somebody has in hand stays so until its row is confirmed.
LEMMA InHandStays ==
  ASSUME Undisturbed, IInv, GInv, FInv, Known, Next, NEW t \in TxIds, InHand(t)
  PROVE  InHand(t)' \/ txs'[t].new \in Confirmed'
<1>0. /\ TypeOK /\ TxsSound /\ Settled /\ Reverting /\ Orderly /\ ~ Refused
      /\ Confirmed \subseteq Confirmed'
  BY Kept, ConfirmedStay DEF FInv, KnownFits
<1>1. ASSUME Carried(t) PROVE InHand(t)' \/ txs'[t].new \in Confirmed'
  BY <1>0, <1>1, CarriedStays DEF Orderly, InHand, Carried
<1>2. ASSUME NEW k \in Watchers, job[k][t] \in Following PROVE InHand(t)' \/ txs'[t].new \in Confirmed'
  <2>1. t \in 1..nTxs
    BY <1>2, Kept, Bounds DEF JobsCurrent, Following, TxIds
  <2>2. txs'[t].new = txs[t].new
    BY <1>0, <2>1, TxsStay
  <2>3. Carried(t) \/ txs'[t].new \in Confirmed'
    BY <1>0, <1>2, <2>2 DEF Orderly
  <2> QED
    BY <1>1, <2>3
<1>3. ASSUME NEW w \in Workers, pc[w] = "record", loc[w].tx = t PROVE InHand(t)'
  <2>1. CASE Record(w)
    BY <1>3, <2>1, RecordCarries DEF InHand, Carried
  <2>2. CASE UNCHANGED <<pc, loc>>
    BY <1>3, <2>2 DEF InHand
  <2> QED
    BY <1>0, <1>3, <2>1, <2>2, RecordNext
<1> QED
  BY <1>1, <1>2, <1>3 DEF InHand

\* A transaction that was sent is in the hand of its request.
LEMMA SentInHand ==
  ASSUME Undisturbed, TypeOK, NEW w \in Workers, Send(w), Submit(w), NEW t \in TxIds, t = nTxs'
  PROVE  InHand(t)'
<1>1. nTxs' # nTxs
  BY Bounds DEF Submit
<1>2. GoTo(w, "record", [loc[w] EXCEPT !.tx = nTxs'])
  BY <1>1 DEF Send, chainVars, May, Undisturbed
<1>3. pc'[w] = "record" /\ loc'[w].tx = t
  BY <1>2 DEF GoTo, TypeOK, RequestTypeOK, Locals
<1> QED
  BY <1>3 DEF InHand

\* Every step keeps it.
LEMMA HandsStep ==
  ASSUME Undisturbed, IInv, GInv, FInv, FInv', HInv, Next PROVE HInv'
<1>0. TypeOK /\ TxsSound /\ Known /\ Confirmed \subseteq Confirmed' /\ Settled'
  BY Kept, ConfirmedStay DEF FInv, HInv
<1>1. ASSUME NEW t \in TxIds, txs'[t].status = "pending" PROVE InHand(t)'
  <2>1. ASSUME NEW w \in Workers, Send(w), Submit(w), t = nTxs' PROVE InHand(t)'
    BY <1>0, <2>1, SentInHand
  <2>2. CASE txs'[t] = txs[t]
    <3>1. InHand(t)' \/ txs'[t].new \in Confirmed'
      BY <1>0, <1>1, <2>2, InHandStays DEF HInv
    <3> QED
      BY <1>0, <1>1, <3>1 DEF Settled
  <2> QED
    BY <1>0, <1>1, <2>1, <2>2, TxSteps
<1>2. Known'
  <2>1. CASE chain' = chain
    <3>1. CASE chain \in Confirmed
      BY <1>0, <2>1, <3>1 DEF Known
    <3>2. ASSUME NEW t \in TxIds, txs[t].status = "success", txs[t].new = chain, InHand(t) PROVE Known'
      <4>1. txs'[t].status = "success" /\ txs'[t].new = chain
        BY <1>0, <3>2, TxSteps
      <4>2. InHand(t)' \/ chain \in Confirmed'
        BY <1>0, <3>2, <4>1, InHandStays
      <4> QED
        BY <2>1, <4>1, <4>2 DEF Known, InHand, Carried
    <3> QED
      BY <1>0, <3>1, <3>2 DEF Known
  <2>2. ASSUME NEW t \in TxIds, Mine(t), chain' # chain PROVE Known'
    <3>1. txs[t].status = "pending" /\ Acceptable(txs[t].old, txs[t].new) /\ chain' = txs[t].new
      BY <2>2 DEF Mine
    <3>2. txs' = [txs EXCEPT ![t].status = "success"]
      BY <2>2, <3>1 DEF Mine
    <3>3. txs'[t].status = "success" /\ txs'[t].new = chain'
      BY <1>0, <3>1, <3>2 DEF TypeOK, ChainTypeOK, Transaction
    <3>4. InHand(t)' \/ chain' \in Confirmed'
      BY <1>0, <3>1, <3>3, InHandStays DEF HInv
    <3> QED
      BY <3>3, <3>4 DEF Known, InHand, Carried
  <2> QED
    BY <2>1, <2>2, ChainSteps DEF chainVars, Submit, Drop
<1> QED
  BY <1>1, <1>2 DEF HInv, InHand, Carried

\* The invariant holds of every undisturbed behaviour.
LEMMA HandsInvariance == ASSUME Undisturbed PROVE Spec => [](IInv /\ GInv /\ FInv /\ HInv)
<1>1. Init => HInv
  <2>1. ASSUME Init PROVE HInv
    <3>1. 1 \in Confirmed
      BY <2>1, BoundsAssumption DEF Init, Confirmed, StateIds, Genesis, NoRow
    <3> QED
      BY <2>1, <3>1 DEF Init, HInv, Known, NoTx, Genesis
  <2> QED
    BY <2>1
<1>2. IInv /\ GInv /\ FInv /\ FInv' /\ HInv /\ [Next]_vars => HInv'
  <2>1. ASSUME HInv, UNCHANGED vars PROVE HInv'
    BY <2>1 DEF vars, dbVars, chainVars, reqVars, evtVars, HInv, Known, InHand, Carried, Confirmed, Transacted
  <2> QED
    BY <2>1, HandsStep
<1>3. (Spec => []GInv) /\ (Spec => []FInv)
  BY PublicationInvariance, FinalInvariance DEF Undisturbed, NothingRevoked
<1> QED
  BY <1>1, <1>2, <1>3, Invariance, PTL DEF Spec

\* The issuer knows the state it has on the chain, or still has its transaction in hand.
THEOREM DatabaseFollows == ASSUME Undisturbed PROVE Spec => []DbFollowsChain
<1>1. ASSUME IInv, GInv, FInv, HInv PROVE DbFollowsChain
  <2>1. CASE chain \in Confirmed
    <3>1. Confirmed \subseteq onChain
      BY <1>1, Kept DEF ConfirmedIsAnchored, ChainGrows
    <3> QED
      BY <1>1, <2>1, <3>1 DEF FInv, OnTop, DbFollowsChain, Newest
  <2>2. ASSUME NEW t \in TxIds, txs[t].new = chain, InHand(t) PROVE DbFollowsChain
    <3>1. Carried(t) => states[chain].status = "transacted"
      BY <2>2 DEF Carried, Transacted
    <3>2. ASSUME NEW w \in Workers, pc[w] = "record", loc[w].tx = t PROVE loc[w].row = chain
      BY <1>1, <2>2, <3>2, Kept DEF RequestsCurrent
    <3>3. (\E k \in Watchers : job[k][t] \in Following) => Carried(t) \/ chain \in Confirmed
      BY <1>1, <2>2 DEF FInv, HInv, KnownFits, Orderly
    <3> QED
      BY <2>1, <2>2, <3>1, <3>2, <3>3 DEF InHand, DbFollowsChain
  <2> QED
    BY <1>1, <2>1, <2>2 DEF HInv, Known
<1> QED
  BY <1>1, HandsInvariance, PTL

\* Two transactions of one issuer are never in flight together, also after a goroutine has
\* given up and its entry is gone.
THEOREM OneInFlight == ASSUME Undisturbed PROVE Spec => []OneTxInFlight
<1>1. ASSUME IInv, GInv, FInv, HInv PROVE OneTxInFlight
  <2>1. ASSUME NEW t \in TxIds, txs[t].status = "pending" PROVE t = nTxs
    <3>1. InHand(t) /\ Orderly /\ ~ Refused /\ txs[t].new \notin Confirmed
      BY <1>1, <2>1 DEF HInv, FInv, KnownFits, Settled
    <3>2. Carried(t) \/ \E w \in Workers : pc[w] = "record" /\ loc[w].tx = t
      BY <3>1 DEF InHand, Orderly
    <3> QED
      BY <2>1, <3>1, <3>2 DEF Orderly
  <2> QED
    BY <2>1 DEF OneTxInFlight
<1> QED
  BY <1>1, HandsInvariance, PTL

=============================================================================

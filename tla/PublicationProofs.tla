-------------------------- MODULE PublicationProofs --------------------------
(***************************************************************************)
(* What TLAPS proves of StatePublisher when requests come one at a time,   *)
(* under every fault, restarts and revocations included: what the contract *)
(* has of an issuer only grows.                                            *)
(***************************************************************************)
EXTENDS UpdateStateProofs

\* One request at a time: two that overlap can publish in the wrong order.
OneRequest == \A v, w \in Workers : v = w

-----------------------------------------------------------------------------
(* The inductive invariant. *)

\* Each state has the leaves of those before it, no two but the genesis state have the same
\* trees, and the trees of the issuer have them all.
TreesGrow ==
  /\ \A s, r \in 1..nStates : s <= r =>
       states[s].claims \subseteq states[r].claims /\ states[s].revs \subseteq states[r].revs
  /\ \A s \in 1..nStates : states[s].claims \subseteq claimsTree /\ states[s].revs \subseteq revTree
  /\ \A s, r \in (1..nStates) \ {Genesis} :
       states[s].claims = states[r].claims /\ states[s].revs = states[r].revs => s = r

\* The trees that UpdateState has loaded are no older than the newest state.
UpdateFits == \A w \in Workers : pc[w] = "commit" =>
  /\ loc[w].base = claimsTree
  /\ states[nStates].revs \subseteq loc[w].revs /\ loc[w].revs \subseteq revTree

\* The newest state, or one the contract has or had.
Current(s) == s = nStates \/ s \in onChain

\* The contract takes states in their order: a transaction in flight is of a state it has
\* had, or of a newer one, and so for two of them.
ChainGrows ==
  /\ onChain \subseteq 1..nStates /\ chain \in onChain /\ Genesis \in onChain
  /\ \A t \in TxIds : txs[t].status # "none" => t <= nTxs /\ txs[t].new \in 1..nStates
  /\ \A t \in 1..nTxs : txs[t].status # "none"
  /\ \A t \in TxIds : txs[t].status = "pending" => txs[t].new \in onChain \/ txs[t].new > chain
  /\ \A t, u \in TxIds : txs[t].status = "pending" /\ txs[u].status = "pending" /\ t < u =>
       txs[u].new \in onChain \/ txs[t].new <= txs[u].new

\* A request publishes the newest state, or one that will be refused.
RequestsCurrent == \A w \in Workers :
  /\ pc[w] \in Late => Current(loc[w].row)
  /\ pc[w] = "record" => loc[w].tx \in 1..nTxs /\ txs[loc[w].tx].new = loc[w].row

\* A row that may be retried or followed is the newest state or one that will be refused too.
RowsCurrent ==
  /\ \A s \in Failed \cup Transacted : Current(s)
  /\ \A s \in Transacted : states[s].tx \in 1..nTxs /\ txs[states[s].tx].new = s

\* So is the state of a transaction that somebody follows, whose row has a status of its own.
JobsCurrent == \A k \in Watchers, t \in TxIds : job[k][t] # "none" =>
  /\ t <= nTxs /\ Current(txs[t].new)
  /\ txs[t].new \in Failed \cup Transacted \cup Confirmed

\* Before a new row is made, every other one has been on the chain or never will be.
Updates == {"update", "commit"}
SettledFirst == (\E w \in Workers : pc[w] \in Updates) =>
  /\ Failed \cup Transacted \subseteq onChain
  /\ \A k \in Watchers, t \in TxIds : job[k][t] # "none" => txs[t].new \in onChain

GInv ==
  /\ TreesGrow /\ UpdateFits /\ ChainGrows /\ RequestsCurrent /\ RowsCurrent
  /\ JobsCurrent /\ SettledFirst

\* The invariant holds at first.
LEMMA PublicationInit == Init => GInv
<1> SUFFICES ASSUME Init PROVE GInv
  OBVIOUS
<1>1. /\ nStates = 1 /\ chain = 1 /\ onChain = {1} /\ nTxs = 0 /\ Genesis = 1
      /\ claimsTree = {} /\ revTree = {}
  BY DEF Init, Genesis
<1>2. states[1].status = "confirmed" /\ states[1].claims = {} /\ states[1].revs = {}
  BY <1>1, BoundsAssumption DEF Init, NoRow, StateIds
<1>3. \A w \in Workers : pc[w] = "idle"
  BY DEF Init
<1>4. \A k \in Watchers, t \in TxIds : job[k][t] = "none" /\ txs[t].status = "none"
  BY DEF Init, NoTx
<1>5. TreesGrow
  BY <1>1, <1>2 DEF TreesGrow
<1>6. UpdateFits /\ RequestsCurrent /\ SettledFirst
  BY <1>3 DEF UpdateFits, RequestsCurrent, SettledFirst, Late, Updates
<1>7. ChainGrows
  BY <1>1, <1>4 DEF ChainGrows, Watchers
<1>8. RowsCurrent /\ JobsCurrent
  BY <1>1, <1>2, <1>4 DEF RowsCurrent, JobsCurrent, Failed, Transacted
<1> QED
  BY <1>5, <1>6, <1>7, <1>8 DEF GInv

-----------------------------------------------------------------------------
(* What a step may change. *)

\* What UpdateState does when it comes to its end: it finds the newest row, or makes one.
Made(w) ==
  /\ pc[w] = "commit" /\ claimsTree' = NewLeaves(w) /\ revTree' = revTree
  /\ pc'[w] = "latest" /\ loc'[w].row = nStates'
  /\ \/ UNCHANGED <<states, nStates>>
     \/ /\ RowsOf(NewLeaves(w), loc[w].revs) = {}
        /\ nStates' = nStates + 1 /\ nStates' \in StateIds
        /\ states' = [states EXCEPT ![nStates'] =
             [status |-> "created", claims |-> NewLeaves(w), revs |-> loc[w].revs, tx |-> Null]]

\* A conflicting row is the newest one, since no two rows have the same trees.
LEMMA CommitMakes ==
  ASSUME TypeOK, TreesGrow, UpdateFits, NEW w \in Workers, UpdateStateCommit(w)
  PROVE  \/ pc'[w] = "idle" /\ UNCHANGED dbVars
         \/ Made(w)
<1>0. pc \in [Workers -> RequestPcs] /\ loc \in [Workers -> Locals] /\ pc[w] = "commit"
  BY DEF TypeOK, RequestTypeOK, UpdateStateCommit
<1>1. CASE Release(w) /\ UNCHANGED dbVars
  BY <1>0, <1>1 DEF Release
<1>2. ASSUME NEW s \in StateIds, SaveRow(s, NewLeaves(w), loc[w].revs), claimsTree' = NewLeaves(w),
             GoTo(w, "latest", [NoLocals EXCEPT !.row = s]), revTree' = revTree
      PROVE  Made(w)
  <2>1. pc'[w] = "latest" /\ loc'[w].row = s
    BY <1>0, <1>2 DEF GoTo, NoLocals
  <2>2. CASE s \in RowsOf(NewLeaves(w), loc[w].revs) /\ UNCHANGED <<states, nStates>>
    <3>1. /\ s \in 1..nStates /\ s # Genesis
          /\ states[s].claims = NewLeaves(w) /\ states[s].revs = loc[w].revs
      BY <2>2 DEF RowsOf
    <3>2. /\ states[s].claims \subseteq states[nStates].claims
          /\ states[s].revs \subseteq states[nStates].revs
          /\ states[nStates].claims \subseteq claimsTree
      BY <3>1, Bounds DEF TreesGrow
    <3>3. /\ states[nStates].claims \subseteq NewLeaves(w)
          /\ states[nStates].revs \subseteq loc[w].revs
      BY <1>0, <3>2 DEF UpdateFits, NewLeaves
    <3>4. states[s].claims = states[nStates].claims /\ states[s].revs = states[nStates].revs
      BY <3>1, <3>2, <3>3
    <3>5. nStates # Genesis
      BY <3>1, Bounds DEF Genesis
    <3>6. s = nStates
      BY <3>1, <3>4, <3>5, Bounds DEF TreesGrow
    <3> QED
      BY <1>0, <1>2, <2>1, <2>2, <3>6 DEF Made
  <2>3. CASE s \notin RowsOf(NewLeaves(w), loc[w].revs) \/ ~ UNCHANGED <<states, nStates>>
    <3>1. /\ RowsOf(NewLeaves(w), loc[w].revs) = {} /\ s = nStates + 1 /\ nStates' = s
          /\ states' = [states EXCEPT ![s] = [status |-> "created", claims |-> NewLeaves(w),
                                              revs |-> loc[w].revs, tx |-> Null]]
      BY <1>2, <2>3 DEF SaveRow
    <3> QED
      BY <1>0, <1>2, <2>1, <3>1 DEF Made
  <2> QED
    BY <2>2, <2>3
<1> QED
  BY <1>0, <1>1, <1>2 DEF UpdateStateCommit

\* A request comes to UpdateState when no row is failed or transacted.
LEMMA UpdatesFrom ==
  ASSUME TypeOK, Next, NEW w \in Workers, pc'[w] \in Updates
  PROVE  \/ pc[w] \in Updates
         \/ Failed \cup Transacted = {} /\ UNCHANGED <<dbVars, chainVars, job>>
<1> USE DEF TypeOK, RequestTypeOK
<1> DEFINE Goal == \/ pc[w] \in Updates
                   \/ Failed \cup Transacted = {} /\ UNCHANGED <<dbVars, chainVars, job>>
<1> SUFFICES Goal
  OBVIOUS
<1>1. CASE pc'[w] = pc[w]
  BY <1>1
<1>2. ASSUME NEW v \in Workers, NEW where, pc' = [pc EXCEPT ![v] = where], where \notin Updates PROVE Goal
  BY <1>1, <1>2
<1>3. ASSUME NEW v \in Workers, Request(v) PROVE Goal
  <2>1. ASSUME Release(v) PROVE Goal
    BY <1>2, <2>1 DEF Release, Updates
  <2>2. ASSUME NEW where, NEW l, GoTo(v, where, l), where \notin Updates PROVE Goal
    BY <1>2, <2>2 DEF GoTo
  <2>3. CASE Store(v)
    BY <1>2, <2>3 DEF Store, Updates
  <2>4. CASE CheckUnprocessed(v)
    <3>1. CASE HasUnprocessed
      BY <1>1, <2>4, <3>1 DEF CheckUnprocessed, HasUnprocessed
    <3> QED
      BY <2>1, <2>4, <3>1 DEF CheckUnprocessed
  <2>5. CASE UpdateStateBegin(v)
    <3>1. pc[v] \in Updates
      BY <2>5 DEF UpdateStateBegin, Updates
    <3>2. CASE w = v
      BY <3>1, <3>2
    <3>3. CASE w # v
      BY <1>1, <2>5, <3>3 DEF UpdateStateBegin, GoTo, Release
    <3> QED
      BY <3>2, <3>3
  <2>6. ASSUME PublishFails(v) PROVE Goal
    BY <2>1, <2>2, <2>6 DEF PublishFails, Updates
  <2>7. CASE UpdateStateCommit(v) \/ FailedState(v) \/ ReadLatest(v) \/ Send(v)
    <3>1. ASSUME NEW where \in {"latest", "send", "record"}, NEW l, GoTo(v, where, l) PROVE Goal
      BY <2>2, <3>1 DEF Updates
    <3> HIDE DEF Goal
    <3>2. CASE UpdateStateCommit(v)
      BY <2>1, <3>1, <3>2 DEF UpdateStateCommit
    <3>3. CASE FailedState(v)
      BY <2>1, <3>1, <3>3 DEF FailedState
    <3>4. CASE ReadLatest(v) \/ Send(v)
      BY <2>6, <3>1, <3>4 DEF ReadLatest, Send
    <3> QED
      BY <2>7, <3>2, <3>3, <3>4
  <2>8. CASE Record(v) \/ MarkFailed(v) \/ RequestFails(v)
    BY <1>2, <2>1, <2>6, <2>8 DEF Record, Follow, MarkFailed, RequestFails, Updates
  <2> QED
    BY <1>3, <2>3, <2>4, <2>5, <2>7, <2>8 DEF Request
<1>4. ASSUME NEW v \in Workers, NEW mode \in {"publish", "retry"}, Begin(v, mode) PROVE Goal
  BY <1>2, <1>4 DEF Begin, Updates
<1>5. CASE CrashPlatform
  BY <1>5 DEF CrashPlatform, Updates
<1> QED
  BY <1>1, <1>3, <1>4, <1>5 DEF Next, Issue, Revoke, RevokeTree, RevokeReread, RevokeSave, RevokeFails,
     Watch, Receipt, NoReceipt, WriteProofs, Confirm, Event, Revert, JobFails, Mine, Drop, Scan, Expire, reqVars

\* The steps in which a watcher may still write the row.
Following == {"wait", "proofs", "confirm", "revert"}

\* Whoever follows a transaction has been asked to by a request, or found it in a row; the
\* checker leaves a row whose goroutine is at work alone, unless the two may overlap.
LEMMA JobSteps ==
  ASSUME TypeOK, Next, NEW k \in Watchers, NEW t \in TxIds, job'[k][t] # "none"
  PROVE  \/ /\ job[k][t] # "none"
            /\ job'[k][t] \in Following => job[k][t] \in Following
            /\ job'[k][t] = "revert" => job[k][t] = "revert" \/ txs[t].status = "reverted"
         \/ /\ k = "goroutine" /\ job'[k][t] = "wait"
            /\ \E w \in Workers : Record(w) /\ t = loc[w].tx
         \/ /\ k = "checker" /\ job'[k][t] = "wait"
            /\ UNCHANGED <<dbVars, chainVars, pc, loc>>
            /\ \A u \in TxIds : job'["goroutine"][u] = job["goroutine"][u]
            /\ \E s \in Transacted : /\ t = states[s].tx
                                     /\ "overlap" \in Faults \/ job["goroutine"][t] = "none"
<1> USE DEF TypeOK, FollowerTypeOK
<1> DEFINE Goes == /\ job[k][t] # "none"
                   /\ job'[k][t] \in Following => job[k][t] \in Following
                   /\ job'[k][t] = "revert" => job[k][t] = "revert" \/ txs[t].status = "reverted"
           Asked == /\ k = "goroutine" /\ job'[k][t] = "wait"
                    /\ \E w \in Workers : Record(w) /\ t = loc[w].tx
           Found == /\ k = "checker" /\ job'[k][t] = "wait"
                    /\ UNCHANGED <<dbVars, chainVars, pc, loc>>
                    /\ \A u \in TxIds : job'["goroutine"][u] = job["goroutine"][u]
                    /\ \E s \in Transacted : /\ t = states[s].tx
                                             /\ "overlap" \in Faults \/ job["goroutine"][t] = "none"
<1> SUFFICES Goes \/ Asked \/ Found
  OBVIOUS
<1>1. CASE job'[k][t] = job[k][t]
  BY <1>1
<1>2. ASSUME NEW w \in Workers, Record(w) PROVE Goes \/ Asked
  <2>1. job' = [job EXCEPT !["goroutine"][loc[w].tx] = "wait"]
    BY <1>2 DEF Record, Follow
  <2>2. CASE k = "goroutine" /\ t = loc[w].tx
    BY <1>2, <2>1, <2>2
  <2>3. CASE ~(k = "goroutine" /\ t = loc[w].tx)
    <3>1. job'[k][t] = job[k][t]
      BY <2>1, <2>3
    <3> QED
      BY <1>1, <3>1
  <2> QED
    BY <2>2, <2>3
<1>3. ASSUME NEW j \in Watchers, NEW u \in TxIds, Watch(j, u) PROVE Goes
  <2>1. CASE j = k /\ u = t
    <3>1. ASSUME NEW where, job' = [job EXCEPT ![k][t] = where] PROVE job'[k][t] = where
      BY <3>1
    <3>2. CASE Receipt(k, t)
      BY <3>1, <3>2 DEF Receipt, Advance, Following
    <3>3. CASE WriteProofs(k, t) \/ Confirm(k, t)
      BY <3>1, <3>3 DEF WriteProofs, Confirm, Advance, Following
    <3>4. CASE NoReceipt(k, t) \/ Event(k, t) \/ Revert(k, t) \/ JobFails(k, t)
      <4>1. job'[k][t] = "none"
        BY <3>1, <3>4 DEF NoReceipt, Event, Revert, JobFails, Finish
      <4> QED
        BY <4>1
    <3> QED
      BY <1>3, <2>1, <3>2, <3>3, <3>4 DEF Watch
  <2>2. CASE ~(j = k /\ u = t)
    <3>1. \E where : job' = [job EXCEPT ![j][u] = where]
      BY <1>3 DEF Watch, Receipt, NoReceipt, WriteProofs, Confirm, Event, Revert, JobFails, Advance, Finish
    <3>2. job'[k][t] = job[k][t]
      BY <2>2, <3>1
    <3> QED
      BY <1>1, <3>2
  <2> QED
    BY <2>1, <2>2
<1>4. CASE Scan
  <2>1. PICK toCheck \in SUBSET {s \in Transacted :
                           May("overlap") \/ job["goroutine"][states[s].tx] = "none"} \ {{}} :
          job' = [job EXCEPT !["checker"] = [u \in TxIds |->
                    IF \E s \in toCheck : states[s].tx = u THEN "wait" ELSE "none"]]
    BY <1>4 DEF Scan
  <2>2. /\ \A u \in TxIds : job'["goroutine"][u] = job["goroutine"][u]
        /\ job'["checker"][t] = IF \E s \in toCheck : states[s].tx = t THEN "wait" ELSE "none"
    BY <2>1 DEF Watchers
  <2>3. CASE k = "goroutine"
    BY <1>1, <2>2, <2>3
  <2>4. CASE k = "checker"
    <3>1. job'[k][t] = "wait" /\ \E s \in toCheck : states[s].tx = t
      BY <2>2, <2>4
    <3>2. UNCHANGED <<dbVars, chainVars, pc, loc>>
      BY <1>4 DEF Scan, reqVars
    <3>3. \E s \in Transacted : t = states[s].tx /\ ("overlap" \in Faults \/ job["goroutine"][t] = "none")
      BY <2>1, <3>1 DEF May
    <3> QED
      BY <2>2, <2>4, <3>1, <3>2, <3>3
  <2> QED
    BY <2>3, <2>4 DEF Watchers
<1>5. CASE CrashPlatform
  <2>1. job' = [job EXCEPT !["goroutine"] = [u \in TxIds |-> "none"]]
    BY <1>5 DEF CrashPlatform
  <2>2. job'[k][t] \in {"none", job[k][t]}
    BY <2>1 DEF Watchers
  <2> QED
    BY <1>1, <2>2
<1>6. ASSUME NEW w \in Workers, Request(w), ~Record(w) PROVE job' = job
  BY <1>6 DEF Request, Store, CheckUnprocessed, UpdateStateBegin, UpdateStateCommit,
     FailedState, ReadLatest, Send, MarkFailed, RequestFails
<1> HIDE DEF Goes, Asked, Found
<1>7. CASE job' = job
  BY <1>1, <1>7
<1> QED
  BY <1>2, <1>3, <1>4, <1>5, <1>6, <1>7 DEF Next, Issue, Revoke, RevokeTree, RevokeReread, RevokeSave,
     RevokeFails, Begin, Mine, Drop, Expire

-----------------------------------------------------------------------------
(* Every step keeps the invariant. *)

\* The parts of the invariants that a step starts from.
LEMMA Kept ==
  ASSUME IInv, GInv
  PROVE  /\ TypeOK /\ TxsSound /\ RequestsSound /\ WatchersSound /\ ConfirmedIsAnchored
         /\ TreesGrow /\ UpdateFits /\ ChainGrows /\ RequestsCurrent /\ RowsCurrent
         /\ JobsCurrent /\ SettledFirst
BY DEF IInv, GInv

\* A step that makes no row changes no tree but adds revocations.
LEMMA TreesGrowStep ==
  ASSUME IInv, GInv, Next PROVE TreesGrow'
<1>1. CASE UNCHANGED <<nStates, claimsTree>>
  BY <1>1, Kept, StatesStay, TreeSteps DEF TreesGrow
<1>2. ASSUME NEW w \in Workers, UpdateStateCommit(w) PROVE TreesGrow'
  <2>1. CASE UNCHANGED dbVars
    BY <1>1, <2>1 DEF dbVars
  <2>2. CASE Made(w)
    <3>1. claimsTree \subseteq claimsTree' /\ revTree' = revTree
      BY <2>2, Kept DEF Made, NewLeaves, UpdateFits
    <3>2. CASE UNCHANGED <<states, nStates>>
      BY <3>1, <3>2, Kept DEF TreesGrow
    <3>3. CASE ~ UNCHANGED <<states, nStates>>
      <4> DEFINE leaves == NewLeaves(w)
                 revs == loc[w].revs
      <4>1. /\ RowsOf(leaves, revs) = {} /\ nStates' = nStates + 1 /\ nStates' \in StateIds
            /\ states' = [states EXCEPT ![nStates'] = [status |-> "created", claims |-> leaves,
                                                       revs |-> revs, tx |-> Null]]
            /\ claimsTree' = leaves
        BY <2>2, <3>3 DEF Made
      <4>2. states'[nStates'].claims = leaves /\ states'[nStates'].revs = revs
        BY <4>1, Kept DEF TypeOK, DbTypeOK
      <4>3. revs \subseteq revTree /\ states[nStates].revs \subseteq revs
        BY <2>2, Kept DEF Made, UpdateFits
      <4> HIDE DEF leaves, revs
      <4>4. nStates \in Nat \ {0} /\ nStates \in 1..nStates
        BY Kept, Bounds
      <4>5. \A s \in 1..nStates : /\ states'[s].claims = states[s].claims /\ states'[s].revs = states[s].revs
                                  /\ s <= nStates /\ s # nStates'
        BY <4>1, <4>4, Kept, StatesStay
      <4>6. \A s \in 1..nStates : states[s].claims \subseteq leaves /\ states[s].revs \subseteq revs
        BY <3>1, <4>1, <4>3, <4>4, <4>5, Kept DEF TreesGrow
      <4>7. \A s \in 1..nStates' : s \in 1..nStates \/ s = nStates'
        BY <4>1, <4>4
      <4>8. \A s, r \in 1..nStates' : s <= r =>
              states'[s].claims \subseteq states'[r].claims /\ states'[s].revs \subseteq states'[r].revs
        <5> SUFFICES ASSUME NEW s \in 1..nStates', NEW r \in 1..nStates', s <= r
                     PROVE  states'[s].claims \subseteq states'[r].claims /\ states'[s].revs \subseteq states'[r].revs
          OBVIOUS
        <5>1. CASE r = nStates'
          BY <4>2, <4>5, <4>6, <4>7, <5>1
        <5>2. CASE r # nStates'
          <6>1. r \in 1..nStates /\ s \in 1..nStates
            BY <4>1, <4>4, <4>7, <5>2
          <6> QED
            BY <4>5, <6>1, Kept DEF TreesGrow
        <5> QED
          BY <5>1, <5>2
      <4>9. \A s \in 1..nStates' : states'[s].claims \subseteq claimsTree' /\ states'[s].revs \subseteq revTree'
        BY <3>1, <4>1, <4>2, <4>3, <4>5, <4>6, <4>7
      <4>10. ASSUME NEW s \in 1..nStates, s # Genesis
             PROVE  states[s].claims # leaves \/ states[s].revs # revs
        BY <4>1, <4>10 DEF RowsOf
      <4>11. \A s, r \in (1..nStates') \ {Genesis} :
               states'[s].claims = states'[r].claims /\ states'[s].revs = states'[r].revs => s = r
        BY <4>2, <4>5, <4>7, <4>10, Kept DEF TreesGrow
      <4> QED
        BY <4>8, <4>9, <4>11 DEF TreesGrow
    <3> QED
      BY <3>2, <3>3
  <2> QED
    BY <1>2, <2>1, <2>2, CommitMakes, Kept
<1> QED
  BY <1>1, <1>2, TreeSteps

\* What UpdateState has loaded stays what it was, since no other request is under way.
LEMMA UpdateFitsStep ==
  ASSUME OneRequest, IInv, GInv, Next PROVE UpdateFits'
<1> SUFFICES ASSUME NEW w \in Workers, pc'[w] = "commit"
             PROVE  /\ loc'[w].base = claimsTree'
                    /\ states'[nStates'].revs \subseteq loc'[w].revs /\ loc'[w].revs \subseteq revTree'
  BY DEF UpdateFits
<1>1. UNCHANGED <<nStates, claimsTree>> /\ revTree \subseteq revTree'
  <2>1. ~ UpdateStateCommit(w)
    BY Kept, CommitMakes DEF Made
  <2> QED
    BY <2>1, TreeSteps DEF OneRequest
<1>2. states'[nStates'].revs = states[nStates].revs
  BY <1>1, Kept, Bounds, StatesStay
<1>3. CASE pc[w] = "commit" /\ loc'[w] = loc[w]
  BY <1>1, <1>2, <1>3, Kept DEF UpdateFits
<1>4. CASE UpdateStateBegin(w)
  <2>1. loc'[w].base = claimsTree /\ loc'[w].revs = revTree
    <3>1. pc[w] = "update" /\ pc \in [Workers -> RequestPcs] /\ loc \in [Workers -> Locals]
      BY <1>4, Kept DEF UpdateStateBegin, TypeOK, RequestTypeOK
    <3>2. ~ Release(w)
      BY <3>1 DEF Release
    <3>3. loc' = [loc EXCEPT ![w] = [loc[w] EXCEPT !.base = claimsTree, !.revs = revTree, !.adds = Unassigned]]
      BY <1>4, <3>2 DEF UpdateStateBegin, GoTo
    <3> QED
      BY <3>1, <3>3 DEF Locals
  <2>2. states[nStates].revs \subseteq revTree
    BY Kept, Bounds DEF TreesGrow
  <2> QED
    BY <1>1, <1>2, <2>1, <2>2
<1> QED
  BY <1>3, <1>4, Kept, Reads

\* The chain takes no state older than the one it has, and is sent none.
LEMMA ChainGrowsStep ==
  ASSUME IInv, GInv, Next PROVE ChainGrows'
<1> USE DEF ChainGrows
<1>0. /\ TypeOK /\ ChainGrows /\ nTxs \in Nat /\ nStates \in Nat /\ chain \in Nat
      /\ nStates' \in Nat /\ nStates <= nStates'
  BY Kept, Bounds, StatesStay
<1>1. CASE UNCHANGED chainVars
  BY <1>0, <1>1 DEF chainVars
<1>2. ASSUME NEW w \in Workers, Send(w), Submit(w) PROVE ChainGrows'
  <2> DEFINE u == nTxs + 1
  <2>1. /\ nTxs' = u /\ chain' = chain /\ onChain' = onChain
        /\ txs' = [txs EXCEPT ![u] = [status |-> "pending", old |-> loc[w].latest, new |-> loc[w].row]]
        /\ pc[w] = "send" /\ nTxs < MaxTxs /\ nStates' = nStates
    BY <1>2 DEF Submit, Send, TxsLeft, dbVars
  <2>2. u \in TxIds /\ u \in Nat /\ nTxs < u /\ txs \in [TxIds -> Transaction]
    BY <1>0, <2>1, Bounds DEF TxIds, TypeOK, ChainTypeOK
  <2>3. /\ txs'[u].status = "pending" /\ txs'[u].new = loc[w].row
        /\ \A t \in TxIds : t # u => txs'[t] = txs[t]
    BY <2>1, <2>2
  <2>4. Current(loc[w].row)
    BY <2>1, Kept DEF RequestsCurrent, Late
  <2>5. txs'[u].new \in 1..nStates /\ (txs'[u].new \in onChain \/ txs'[u].new = nStates)
    BY <1>0, <2>3, <2>4, Kept, Bounds DEF Current
  <2>6. TxIds \subseteq Nat
    BY DEF TxIds
  <2> HIDE DEF u
  <2>7. \A t \in TxIds : txs'[t].status # "none" => t <= nTxs' /\ txs'[t].new \in 1..nStates'
    BY <1>0, <2>1, <2>2, <2>3, <2>5, <2>6
  <2>8. \A t \in 1..nTxs' : txs'[t].status # "none"
    BY <1>0, <2>1, <2>3, Kept, TxsStay DEF u
  <2>9. \A t \in TxIds : txs'[t].status = "pending" => txs'[t].new \in onChain' \/ txs'[t].new > chain'
    BY <1>0, <2>1, <2>3, <2>5, Bounds
  <2>10. \A t, v \in TxIds : txs'[t].status = "pending" /\ txs'[v].status = "pending" /\ t < v =>
           txs'[v].new \in onChain' \/ txs'[t].new <= txs'[v].new
    <3> SUFFICES ASSUME NEW t \in TxIds, NEW v \in TxIds, t < v,
                        txs'[t].status = "pending", txs'[v].status = "pending"
                 PROVE  txs'[v].new \in onChain' \/ txs'[t].new <= txs'[v].new
      OBVIOUS
    <3>1. t # u /\ txs[t].status = "pending" /\ txs[t].new \in 1..nStates
      <4>1. v <= nTxs'
        BY <2>7
      <4>2. t # u
        BY <2>1, <2>2, <2>6, <4>1
      <4> QED
        BY <1>0, <2>3, <4>2
    <3>2. CASE v = u
      BY <1>0, <2>1, <2>3, <2>5, <3>1, <3>2
    <3>3. CASE v # u
      BY <1>0, <2>1, <2>3, <3>1, <3>3
    <3> QED
      BY <3>2, <3>3
  <2> QED
    BY <1>0, <2>1, <2>7, <2>8, <2>9, <2>10
<1>3. ASSUME NEW t \in TxIds, Mine(t) PROVE ChainGrows'
  <2>1. /\ nTxs' = nTxs /\ nStates' = nStates /\ t \in Nat /\ txs[t].status = "pending"
        /\ \A u \in TxIds : u < t => txs[u].status # "pending"
        /\ txs[t].new \in 1..nStates /\ TxIds \subseteq Nat
    BY <1>0, <1>3 DEF Mine, TxIds, dbVars
  <2>2. \A u \in TxIds : txs'[u].new = txs[u].new /\ (u # t => txs'[u] = txs[u])
    BY <1>0, <1>3 DEF Mine, TypeOK, ChainTypeOK, Transaction
  <2>3. txs'[t].status \in {"success", "reverted"}
    BY <1>0, <1>3 DEF Mine, TypeOK, ChainTypeOK, Transaction
  <2>4. CASE Acceptable(txs[t].old, txs[t].new)
    <3>1. chain' = txs[t].new /\ onChain' = onChain \cup {txs[t].new} /\ txs[t].new \notin onChain
      BY <1>3, <2>4 DEF Mine, Acceptable
    <3>2. ASSUME NEW u \in TxIds, txs'[u].status = "pending"
          PROVE  txs'[u].new \in onChain' \/ txs'[u].new > chain'
      <4>1. u # t /\ txs[u].status = "pending" /\ t < u /\ txs[u].new \in 1..nStates
        BY <1>0, <2>1, <2>2, <2>3, <3>2
      <4> QED
        BY <1>0, <2>1, <2>2, <3>1, <4>1
    <3>3. ASSUME NEW u \in TxIds, NEW v \in TxIds, u < v,
                 txs'[u].status = "pending", txs'[v].status = "pending"
          PROVE  txs'[v].new \in onChain' \/ txs'[u].new <= txs'[v].new
      BY <1>0, <2>2, <2>3, <3>1, <3>3
    <3>4. \A u \in TxIds : txs'[u].status # "none" => u <= nTxs' /\ txs'[u].new \in 1..nStates'
      BY <1>0, <2>1, <2>2, <2>3
    <3>5. \A u \in 1..nTxs' : txs'[u].status # "none"
      BY <1>0, <2>1, <2>2, <2>3, Kept, TxsStay
    <3> QED
      BY <1>0, <2>1, <3>1, <3>2, <3>3, <3>4, <3>5
  <2>5. CASE ~ Acceptable(txs[t].old, txs[t].new)
    <3>1. chain' = chain /\ onChain' = onChain
      BY <1>3, <2>5 DEF Mine
    <3>2. \A u \in TxIds : txs'[u].status = "pending" => txs[u].status = "pending"
      BY <2>2, <2>3
    <3>3. \A u \in TxIds : txs'[u].status # "none" => u <= nTxs' /\ txs'[u].new \in 1..nStates'
      BY <1>0, <2>1, <2>2, <2>3
    <3>4. \A u \in 1..nTxs' : txs'[u].status # "none"
      BY <1>0, <2>1, <2>2, <2>3, Kept, TxsStay
    <3> QED
      BY <1>0, <2>1, <2>2, <3>1, <3>2, <3>3, <3>4
  <2> QED
    BY <2>4, <2>5
<1>4. ASSUME NEW t \in TxIds, Drop(t) PROVE ChainGrows'
  <2>1. /\ nTxs' = nTxs /\ nStates' = nStates /\ chain' = chain /\ onChain' = onChain
        /\ txs[t].status = "pending"
    BY <1>4 DEF Drop, dbVars
  <2>2. \A u \in TxIds : txs'[u].new = txs[u].new /\ (u # t => txs'[u] = txs[u])
    BY <1>0, <1>4 DEF Drop, TypeOK, ChainTypeOK, Transaction
  <2>3. txs'[t].status = "dropped"
    BY <1>0, <1>4 DEF Drop, TypeOK, ChainTypeOK, Transaction
  <2>4. \A u \in 1..nTxs' : txs'[u].status # "none"
    BY <1>0, <2>1, <2>2, <2>3, Kept, TxsStay
  <2> QED
    BY <1>0, <2>1, <2>2, <2>3, <2>4
<1> QED
  BY <1>1, <1>2, <1>3, <1>4, ChainSteps

\* The newest state stays so unless UpdateState comes to its end.
LEMMA CurrentStays ==
  ASSUME IInv, GInv, Next, NEW s, Current(s), s \in onChain \/ UNCHANGED nStates
  PROVE  Current(s)'
BY Kept, TxsStay DEF Current

\* Where a row that is failed or transacted has its status from.
LEMMA RowsFrom ==
  ASSUME IInv, GInv, Next, NEW s \in Failed' \cup Transacted'
  PROVE  \/ /\ s \in Failed \cup Transacted /\ states'[s].tx = states[s].tx
            /\ s \in Transacted' => s \in Transacted
         \/ /\ UNCHANGED <<nStates, txs>>
            /\ \E w \in Workers : Record(w) /\ s = loc[w].row /\ states'[s].tx = loc[w].tx
         \/ /\ UNCHANGED nStates /\ s \notin Transacted'
            /\ \E w \in Workers : MarkFailed(w) /\ s = loc[w].row
         \/ /\ UNCHANGED nStates /\ s \notin Transacted'
            /\ \E k \in Watchers, t \in TxIds : Revert(k, t) /\ s = txs[t].new
<1> DEFINE Same == /\ s \in Failed \cup Transacted /\ states'[s].tx = states[s].tx
                   /\ s \in Transacted' => s \in Transacted
<1>0. s \in 1..nStates' /\ states'[s].status \in {"failed", "transacted"} /\ TypeOK
      /\ nStates \in Nat /\ 1..nStates \subseteq StateIds
  BY Kept, Bounds DEF Failed, Transacted
<1>1. ASSUME s \in 1..nStates, states'[s] = states[s] PROVE Same
  BY <1>0, <1>1 DEF Failed, Transacted
<1> HIDE DEF Same
<1>2. ASSUME NEW w \in Workers, UpdateStateCommit(w) PROVE Same
  <2>1. CASE UNCHANGED dbVars
    BY <1>0, <1>1, <2>1 DEF dbVars
  <2>2. CASE Made(w) /\ ~ UNCHANGED <<states, nStates>>
    <3>1. /\ nStates' = nStates + 1 /\ nStates' \in StateIds
          /\ states' = [states EXCEPT ![nStates'] =
               [status |-> "created", claims |-> NewLeaves(w), revs |-> loc[w].revs, tx |-> Null]]
      BY <2>2 DEF Made
    <3>2. states'[nStates'].status = "created" /\ \A r \in StateIds : r # nStates' => states'[r] = states[r]
      BY <1>0, <3>1 DEF TypeOK, DbTypeOK
    <3>3. s # nStates'
      BY <1>0, <3>2
    <3> QED
      BY <1>0, <1>1, <3>1, <3>2, <3>3
  <2> QED
    BY <1>0, <1>1, <1>2, <2>1, <2>2, Kept, CommitMakes DEF Made
<1>3. ASSUME NEW w \in Workers, Record(w) \/ MarkFailed(w)
      PROVE  /\ UNCHANGED nStates /\ loc[w].row \in StateIds
             /\ Record(w) => UNCHANGED txs
  BY <1>3, Kept DEF Record, MarkFailed, Follow, RequestsSound, chainVars
<1>4. ASSUME NEW w \in Workers, Record(w) PROVE Same \/ (s = loc[w].row /\ states'[s].tx = loc[w].tx)
  <2>1. states' = [states EXCEPT ![loc[w].row].status = "transacted", ![loc[w].row].tx = loc[w].tx]
    BY <1>4 DEF Record
  <2>2. /\ states'[loc[w].row].tx = loc[w].tx
        /\ \A r \in StateIds : r # loc[w].row => states'[r] = states[r]
    BY <1>0, <1>3, <1>4, <2>1 DEF TypeOK, DbTypeOK, StateRow
  <2> QED
    BY <1>0, <1>1, <1>3, <1>4, <2>2
<1>5. ASSUME NEW w \in Workers, MarkFailed(w) PROVE Same \/ (s = loc[w].row /\ s \notin Transacted')
  <2>1. states' = [states EXCEPT ![loc[w].row].status = "failed", ![loc[w].row].tx = Null]
    BY <1>5 DEF MarkFailed
  <2>2. /\ states'[loc[w].row].status = "failed"
        /\ \A r \in StateIds : r # loc[w].row => states'[r] = states[r]
    BY <1>0, <1>3, <1>5, <2>1, RowWritten
  <2> QED
    BY <1>0, <1>1, <1>3, <1>5, <2>2 DEF Transacted
<1>6. ASSUME NEW k \in Watchers, NEW t \in TxIds, Confirm(k, t) \/ Revert(k, t)
      PROVE  /\ UNCHANGED nStates
             /\ txs[t].new \in StateIds
  <2>1. UNCHANGED nStates /\ job[k][t] # "none"
    BY <1>6 DEF Confirm, Revert
  <2>2. txs[t].new \in 1..nStates
    BY <2>1, Kept DEF JobsCurrent, Failed, Transacted, Confirmed
  <2> QED
    BY <1>0, <2>1, <2>2
<1>7. ASSUME NEW k \in Watchers, NEW t \in TxIds, Confirm(k, t) PROVE Same
  <2>1. CASE UNCHANGED states
    BY <1>0, <1>1, <1>6, <1>7, <2>1
  <2>2. CASE states' = [states EXCEPT ![txs[t].new].status = "confirmed", ![txs[t].new].tx = t]
    <3>1. /\ states'[txs[t].new].status = "confirmed"
          /\ \A r \in StateIds : r # txs[t].new => states'[r] = states[r]
      BY <1>0, <1>6, <1>7, <2>2, RowWritten
    <3> QED
      BY <1>0, <1>1, <1>6, <1>7, <3>1
  <2> QED
    BY <1>7, <2>1, <2>2 DEF Confirm, StateOf
<1>8. ASSUME NEW k \in Watchers, NEW t \in TxIds, Revert(k, t)
      PROVE  Same \/ (s = txs[t].new /\ s \notin Transacted')
  <2>1. states' = [states EXCEPT ![txs[t].new].status = "failed", ![txs[t].new].tx = t]
    BY <1>8 DEF Revert, StateOf
  <2>2. /\ states'[txs[t].new].status = "failed"
        /\ \A r \in StateIds : r # txs[t].new => states'[r] = states[r]
    BY <1>0, <1>6, <1>8, <2>1, RowWritten
  <2> QED
    BY <1>0, <1>1, <1>6, <1>8, <2>2 DEF Transacted
<1>9. ASSUME UNCHANGED <<states, nStates>> PROVE Same
  BY <1>0, <1>1, <1>9
<1>10. CASE Same
  BY <1>10 DEF Same
<1> QED
  BY <1>2, <1>3, <1>4, <1>5, <1>6, <1>7, <1>8, <1>9, <1>10, RowSteps

\* A row keeps a status other than "created" and "absent".
LEMMA StatusStays ==
  ASSUME IInv, GInv, Next, NEW s \in Failed \cup Transacted \cup Confirmed
  PROVE  s \in Failed' \cup Transacted' \cup Confirmed'
<1> DEFINE Known == {"failed", "transacted", "confirmed"}
<1>0. /\ s \in 1..nStates /\ s \in 1..nStates' /\ s \in StateIds /\ states[s].status \in Known /\ TypeOK
      /\ nStates \in Nat
  BY Kept, Bounds, StatesStay DEF Failed, Transacted, Confirmed
<1> SUFFICES states'[s].status \in Known
  BY <1>0 DEF Failed, Transacted, Confirmed
<1>1. ASSUME NEW r \in StateIds, NEW status \in Known, NEW t,
             states' = [states EXCEPT ![r].status = status, ![r].tx = t]
      PROVE  states'[s].status \in Known
  <2>1. states'[r].status = status /\ \A q \in StateIds : q # r => states'[q] = states[q]
    BY <1>0, <1>1, RowWritten
  <2> QED
    BY <1>0, <2>1
<1>2. CASE UNCHANGED states
  BY <1>0, <1>2
<1>3. ASSUME NEW w \in Workers, UpdateStateCommit(w) PROVE states'[s].status \in Known
  <2>1. CASE UNCHANGED dbVars
    BY <1>2, <2>1 DEF dbVars
  <2>2. CASE Made(w) /\ ~ UNCHANGED <<states, nStates>>
    BY <1>0, <2>2 DEF Made, TypeOK, DbTypeOK
  <2> QED
    BY <1>2, <1>3, <2>1, <2>2, Kept, CommitMakes DEF Made
<1>4. ASSUME NEW w \in Workers, Record(w) \/ MarkFailed(w) PROVE states'[s].status \in Known
  <2>1. loc[w].row \in StateIds
    BY <1>4, Kept DEF Record, MarkFailed, RequestsSound
  <2>2. CASE Record(w)
    BY <1>1, <2>1, <2>2 DEF Record
  <2>3. CASE MarkFailed(w)
    BY <1>1, <2>1, <2>3 DEF MarkFailed
  <2> QED
    BY <1>4, <2>2, <2>3
<1>5. ASSUME NEW k \in Watchers, NEW t \in TxIds, Confirm(k, t) \/ Revert(k, t)
      PROVE  states'[s].status \in Known
  <2>1. job[k][t] # "none"
    BY <1>5 DEF Confirm, Revert
  <2>2. txs[t].new \in StateIds
    BY <2>1, Kept, Bounds DEF JobsCurrent, Failed, Transacted, Confirmed
  <2>3. CASE Confirm(k, t)
    BY <1>1, <1>2, <2>2, <2>3 DEF Confirm, StateOf
  <2>4. CASE Revert(k, t)
    BY <1>1, <2>2, <2>4 DEF Revert, StateOf
  <2> QED
    BY <1>5, <2>3, <2>4
<1> QED
  BY <1>2, <1>3, <1>4, <1>5, RowSteps

\* When UpdateState makes a row, whatever may still be sent or followed has been on the
\* chain, and stays current.
LEMMA CurrentKept ==
  ASSUME IInv, GInv, Next, NEW s, Current(s),
         (\E w \in Workers : pc[w] \in Updates) => s \in onChain
  PROVE  Current(s)'
<1>1. CASE UNCHANGED nStates
  BY <1>1, CurrentStays
<1>2. ASSUME NEW w \in Workers, UpdateStateCommit(w) PROVE Current(s)'
  BY <1>2, CurrentStays DEF UpdateStateCommit, Updates
<1> QED
  BY <1>1, <1>2, TreeSteps

\* A request publishes the newest state, or the one it retries.
LEMMA RequestsCurrentStep ==
  ASSUME OneRequest, IInv, GInv, Next PROVE RequestsCurrent'
<1> SUFFICES ASSUME NEW w \in Workers, pc'[w] \in Late
             PROVE  /\ loc'[w].row = nStates' \/ loc'[w].row \in onChain'
                    /\ pc'[w] = "record" => loc'[w].tx \in 1..nTxs' /\ txs'[loc'[w].tx].new = loc'[w].row
  BY DEF RequestsCurrent, Late, Current
<1>1. CASE /\ pc[w] \in Late /\ loc'[w].row = loc[w].row
           /\ pc'[w] = "record" => \/ pc[w] = "record" /\ loc'[w].tx = loc[w].tx
                                   \/ pc[w] = "send" /\ Submit(w) /\ loc'[w].tx = nTxs'
  <2>1. Current(loc[w].row) /\ ~ \E v \in Workers : pc[v] \in Updates
    BY <1>1, Kept DEF RequestsCurrent, OneRequest, Late, Updates
  <2>2. loc[w].row = nStates' \/ loc[w].row \in onChain'
    <3>1. nStates' = nStates
      <4>1. ~ \E v \in Workers : UpdateStateCommit(v)
        BY <2>1 DEF UpdateStateCommit, Updates
      <4> QED
        BY <4>1, TreeSteps
    <3> QED
      BY <2>1, <3>1, Kept, TxsStay DEF Current
  <2>3. CASE pc[w] = "record" /\ loc'[w].tx = loc[w].tx
    BY <1>1, <2>2, <2>3, Kept, TxsStay DEF RequestsCurrent
  <2>4. CASE Submit(w) /\ loc'[w].tx = nTxs'
    <3>1. nTxs' \in 1..nTxs' /\ nTxs' \in TxIds
      BY <2>4, Kept, Bounds DEF Submit, TxsLeft, TxIds
    <3>2. txs'[nTxs'].new = loc[w].row
      BY <2>4, <3>1, Kept DEF Submit, TypeOK, ChainTypeOK
    <3> QED
      BY <1>1, <2>2, <2>4, <3>1, <3>2
  <2> QED
    BY <1>1, <2>2, <2>3, <2>4
<1>2. CASE pc'[w] = "latest" /\ UpdateStateCommit(w)
  BY <1>2, Kept, CommitMakes DEF Made, Current
<1>3. CASE pc'[w] = "latest" /\ UNCHANGED dbVars /\ loc'[w].row \in Failed
  BY <1>3, Kept, TxsStay DEF RowsCurrent, Current, dbVars
<1> QED
  BY <1>1, <1>2, <1>3, Kept, LateSteps

\* A row that may be retried or followed is current, with the transaction it was sent in.
LEMMA RowsCurrentStep ==
  ASSUME IInv, GInv, Next PROVE RowsCurrent'
<1>1. ASSUME NEW s \in Failed' \cup Transacted' PROVE Current(s)'
  <2>1. ASSUME s \in Failed \cup Transacted PROVE Current(s)'
    BY <2>1, Kept, CurrentKept DEF RowsCurrent, SettledFirst
  <2>2. ASSUME UNCHANGED nStates, NEW w \in Workers, Record(w) \/ MarkFailed(w), s = loc[w].row
        PROVE  Current(s)'
    BY <2>2, Kept, CurrentStays DEF Record, MarkFailed, RequestsCurrent, Late
  <2>3. ASSUME UNCHANGED nStates, NEW k \in Watchers, NEW t \in TxIds, Revert(k, t), s = txs[t].new
        PROVE  Current(s)'
    BY <2>3, Kept, CurrentStays DEF Revert, JobsCurrent
  <2> QED
    BY <2>1, <2>2, <2>3, RowsFrom
<1>2. ASSUME NEW s \in Transacted' PROVE states'[s].tx \in 1..nTxs' /\ txs'[states'[s].tx].new = s
  <2>1. CASE s \in Transacted /\ states'[s].tx = states[s].tx
    BY <2>1, Kept, TxsStay DEF RowsCurrent
  <2>2. ASSUME NEW w \in Workers, Record(w), s = loc[w].row, states'[s].tx = loc[w].tx
        PROVE  states'[s].tx \in 1..nTxs' /\ txs'[states'[s].tx].new = s
    BY <2>2, Kept, TxsStay DEF Record, RequestsCurrent
  <2> QED
    BY <1>2, <2>1, <2>2, RowsFrom
<1> QED
  BY <1>1, <1>2 DEF RowsCurrent

\* Whoever follows a transaction follows one of a current row.
LEMMA JobsCurrentStep ==
  ASSUME IInv, GInv, Next PROVE JobsCurrent'
<1> SUFFICES ASSUME NEW k \in Watchers, NEW t \in TxIds, job'[k][t] # "none"
             PROVE  /\ t <= nTxs' /\ Current(txs[t].new)' /\ txs'[t].new = txs[t].new
                    /\ txs[t].new \in Failed' \cup Transacted' \cup Confirmed'
  <2>1. \A x, y : x = y => (Current(x)' <=> Current(y)')
    OBVIOUS
  <2> QED
    BY <2>1 DEF JobsCurrent, Current
<1> DEFINE s == txs[t].new
<1>0. t \in Nat \ {0} /\ nTxs \in Nat
  BY Kept, Bounds DEF TxIds
<1>1. CASE job[k][t] # "none"
  <2>1. t <= nTxs /\ Current(s) /\ s \in Failed \cup Transacted \cup Confirmed
    BY <1>1, Kept DEF JobsCurrent
  <2>2. (\E w \in Workers : pc[w] \in Updates) => s \in onChain
    BY <1>1, Kept DEF SettledFirst
  <2> HIDE DEF s
  <2>3. (s = nStates' \/ s \in onChain') /\ s \in Failed' \cup Transacted' \cup Confirmed'
    BY <2>1, <2>2, CurrentKept, StatusStays DEF Current
  <2> QED
    BY <1>0, <2>1, <2>3, Kept, TxsStay DEF s, Current
<1>2. ASSUME NEW w \in Workers, Record(w), t = loc[w].tx
      PROVE  /\ t <= nTxs' /\ Current(txs[t].new)' /\ txs'[t].new = txs[t].new
             /\ txs[t].new \in Failed' \cup Transacted' \cup Confirmed'
  <2>1. UNCHANGED <<nStates, chainVars>> /\ t \in 1..nTxs /\ s = loc[w].row /\ Current(s)
    BY <1>2, Kept DEF Record, Follow, RequestsCurrent, Late
  <2>2. s \in 1..nStates /\ s \in StateIds
    BY <2>1, Kept, Bounds DEF Current, ChainGrows
  <2>3. states'[s].status = "transacted"
    BY <1>2, <2>1, <2>2, Kept DEF Record, TypeOK, DbTypeOK, StateRow
  <2>4. s \in Transacted'
    BY <2>1, <2>2, <2>3 DEF Transacted
  <2> QED
    BY <1>0, <2>1, <2>4 DEF Current, chainVars
<1>3. CASE UNCHANGED <<dbVars, chainVars, pc, loc>> /\ \E r \in Transacted : t = states[r].tx
  <2>1. t \in 1..nTxs /\ s \in Transacted /\ Current(s)
    BY <1>3, Kept DEF RowsCurrent
  <2> QED
    BY <1>0, <1>3, <2>1 DEF Current, chainVars, dbVars, Transacted
<1> QED
  BY <1>1, <1>2, <1>3, Kept, JobSteps

\* The check for unprocessed states: no row is left behind when a new one is made.
LEMMA SettledFirstStep ==
  ASSUME OneRequest, IInv, GInv, Next PROVE SettledFirst'
<1> SUFFICES ASSUME NEW w \in Workers, pc'[w] \in Updates
             PROVE  /\ Failed' \cup Transacted' \subseteq onChain'
                    /\ \A k \in Watchers, t \in TxIds : job'[k][t] # "none" => txs'[t].new \in onChain'
  BY DEF SettledFirst, Updates
<1>0. onChain \subseteq onChain'
  BY Kept, TxsStay
<1>1. CASE pc[w] \in Updates
  <2>1. /\ Failed \cup Transacted \subseteq onChain
        /\ \A k \in Watchers, t \in TxIds : job[k][t] # "none" => txs[t].new \in onChain
    BY <1>1, Kept DEF SettledFirst
  <2>2. \A v \in Workers : ~ Record(v) /\ ~ MarkFailed(v)
    BY <1>1 DEF OneRequest, Record, MarkFailed, Updates
  <2>3. ASSUME NEW s \in Failed' \cup Transacted' PROVE s \in onChain
    <3>1. ASSUME NEW k \in Watchers, NEW t \in TxIds, Revert(k, t) PROVE txs[t].new \in onChain
      BY <2>1, <3>1 DEF Revert
    <3> QED
      BY <2>1, <2>2, <3>1, RowsFrom
  <2>4. ASSUME NEW k \in Watchers, NEW t \in TxIds, job'[k][t] # "none" PROVE txs'[t].new \in onChain
    <3>1. CASE job[k][t] # "none"
      <4>1. t \in 1..nTxs
        BY <3>1, Kept, Bounds DEF JobsCurrent, TxIds
      <4> QED
        BY <2>1, <3>1, <4>1, Kept, TxsStay
    <3>2. CASE UNCHANGED <<dbVars, chainVars, pc, loc>> /\ \E r \in Transacted : t = states[r].tx
      BY <2>1, <3>2, Kept DEF RowsCurrent, chainVars
    <3> QED
      BY <2>2, <2>4, <3>1, <3>2, Kept, JobSteps
  <2> QED
    BY <1>0, <2>3, <2>4
<1>2. CASE Failed \cup Transacted = {} /\ UNCHANGED <<dbVars, chainVars, job>>
  <2>1. Failed' \cup Transacted' = {}
    BY <1>2 DEF dbVars, Failed, Transacted
  <2>2. Confirmed \subseteq onChain
    BY Kept DEF ConfirmedIsAnchored, ChainGrows
  <2> QED
    BY <1>2, <2>1, <2>2, Kept DEF JobsCurrent, chainVars
<1> QED
  BY <1>1, <1>2, Kept, UpdatesFrom

\* The invariant holds of every behaviour with one request at a time.
LEMMA PublicationInvariance ==
  ASSUME OneRequest PROVE Spec => []GInv
<1>1. IInv /\ GInv /\ Next => GInv'
  BY TreesGrowStep, UpdateFitsStep, ChainGrowsStep, RequestsCurrentStep, RowsCurrentStep,
     JobsCurrentStep, SettledFirstStep DEF GInv
<1>2. GInv /\ UNCHANGED vars => GInv'
  <2> SUFFICES ASSUME GInv, UNCHANGED vars PROVE GInv'
    OBVIOUS
  <2> USE DEF vars, dbVars, chainVars, reqVars, evtVars
  <2>1. TreesGrow' /\ UpdateFits'
    BY DEF GInv, TreesGrow, UpdateFits
  <2>2. ChainGrows' /\ RequestsCurrent'
    BY DEF GInv, ChainGrows, RequestsCurrent, Current
  <2>3. RowsCurrent' /\ JobsCurrent' /\ SettledFirst'
    BY DEF GInv, RowsCurrent, JobsCurrent, SettledFirst, Current, Failed, Transacted, Confirmed
  <2> QED
    BY <2>1, <2>2, <2>3 DEF GInv
<1>3. IInv /\ GInv /\ [Next]_vars => GInv'
  BY <1>1, <1>2
<1> QED
  BY <1>3, PublicationInit, Invariance, PTL DEF Spec

-----------------------------------------------------------------------------
(* What the contract has only grows. *)

\* The contract takes nothing but a state newer than its own.
LEMMA ChainAdvances ==
  ASSUME IInv, GInv, Next
  PROVE  chain \in 1..nStates /\ chain' \in 1..nStates /\ chain <= chain'
<1>0. chain \in 1..nStates /\ chain \in Nat
  BY Kept, Bounds DEF ChainGrows
<1>1. CASE chain' = chain
  BY <1>0, <1>1
<1>2. ASSUME NEW t \in TxIds, Mine(t), chain' # chain
      PROVE  chain' \in 1..nStates /\ chain <= chain'
  <2>1. chain' = txs[t].new /\ txs[t].new \notin onChain /\ txs[t].status = "pending"
    BY <1>2 DEF Mine, Acceptable
  <2>2. txs[t].new > chain /\ txs[t].new \in 1..nStates
    BY <2>1, Kept DEF ChainGrows
  <2> QED
    BY <1>0, <2>1, <2>2
<1> QED
  BY <1>0, <1>1, <1>2, ChainSteps DEF chainVars, Submit, Drop

\* With one request at a time the contract's state of an issuer never loses a credential or
\* a revocation, whatever fails, restarts, is followed twice or is revoked meanwhile.
THEOREM NothingTakenBack ==
  ASSUME OneRequest PROVE Spec => NothingUnpublished
<1>1. ASSUME IInv, GInv, Next
      PROVE  /\ states[chain].claims \subseteq states'[chain'].claims
             /\ states[chain].revs \subseteq states'[chain'].revs
  <2>1. chain \in 1..nStates /\ chain' \in 1..nStates /\ chain <= chain'
    BY <1>1, ChainAdvances
  <2> QED
    BY <1>1, <2>1, Kept, StatesStay DEF TreesGrow
<1>2. IInv /\ GInv /\ [Next]_vars =>
        [/\ states[chain].claims \subseteq states'[chain'].claims
         /\ states[chain].revs \subseteq states'[chain'].revs]_vars
  BY <1>1
<1> QED
  BY <1>2, PublicationInvariance, Invariance, PTL DEF Spec, NothingUnpublished

\* ... and no state it had comes back: each it takes is one made after the state it has.
THEOREM NoRollback ==
  ASSUME OneRequest PROVE Spec => [][chain' # chain => chain < chain']_vars
<1>1. IInv /\ GInv /\ Next => (chain' # chain => chain < chain')
  BY ChainAdvances
<1>2. IInv /\ GInv /\ [Next]_vars => [chain' # chain => chain < chain']_vars
  BY <1>1
<1> QED
  BY <1>2, PublicationInvariance, Invariance, PTL DEF Spec

=============================================================================

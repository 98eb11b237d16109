--------------------------- MODULE UpdateStateProofs ---------------------------
(***************************************************************************)
(* What TLAPS proves of UpdateState in StatePublisher: it takes up every   *)
(* credential and every revocation that it marks.  Like its transaction,   *)
(* this needs the two reads of UpdateState to see the same rows, whichever *)
(* other faults there are and however many requests.                       *)
(***************************************************************************)
EXTENDS StatePublisherProofs

-----------------------------------------------------------------------------
(* The inductive invariant. *)

\* Between its two reads, UpdateState holds the leaves there will be, and the nonces that
\* are in the revocation tree.
UpdatesSound == \A w \in Workers : pc[w] = "commit" =>
  NewLeaves(w) = claimsTree \cup Unassigned /\ loc[w].revs = revTree

\* A credential in a state is a leaf, and is there.
RowsSound == \A c \in Claims :
  /\ ~ credentials[c].saved => credentials[c].state = Null /\ ~ credentials[c].revoked
  /\ credentials[c].state # Null => credentials[c].state \in 1..nStates /\ c \in claimsTree

\* The row that a revocation holds is in the state it has now, or in none.
HeldSound == \A c \in Claims : revoker[c].pc = "save" =>
  /\ revoker[c].saved.saved /\ credentials[c].saved
  /\ revoker[c].saved.state \in {Null, credentials[c].state}

\* What is revoked, or will be, is in the tree.
RevokersSound == \A c \in Claims :
  revoker[c].pc # "idle" \/ revocation[c] = "pending" => c \in revTree

UInv ==
  /\ UpdatesSound
  /\ RowsSound
  /\ HeldSound
  /\ RevokersSound
  /\ LeafIffAssigned
  /\ RevocationsReachState

\* The invariant holds at first.
LEMMA UpdateInit == Init => UInv
<1> SUFFICES ASSUME Init PROVE UInv
  OBVIOUS
<1>1. \A c \in Claims : credentials[c] = NotSaved /\ revocation[c] = "none" /\ revoker[c] = NoRevoking
  BY DEF Init
<1>2. claimsTree = {} /\ \A w \in Workers : pc[w] = "idle"
  BY DEF Init
<1> QED
  BY <1>1, <1>2 DEF UInv, UpdatesSound, RowsSound, HeldSound, RevokersSound, LeafIffAssigned,
     RevocationsReachState, NotSaved, NoRevoking

-----------------------------------------------------------------------------
(* What a step may change. *)

\* Nothing but UpdateState adds leaves, moves credentials into a state, or publishes
\* revocations.
Apart == UNCHANGED <<claimsTree, revTree, revocation, revoker>>
         /\ \A c \in Claims : /\ credentials'[c].saved = credentials[c].saved
                              /\ credentials'[c].state = credentials[c].state
                              /\ credentials'[c].revoked = credentials[c].revoked

\* A request comes to the second read of UpdateState from the first.
LEMMA Reads ==
  ASSUME TypeOK, Next, NEW w \in Workers, pc'[w] = "commit"
  PROVE  \/ pc[w] = "commit" /\ loc'[w] = loc[w]
         \/ UpdateStateBegin(w)
<1> USE DEF TypeOK, RequestTypeOK
<1>1. CASE UNCHANGED <<pc, loc>>
  BY <1>1
<1>2. ASSUME NEW v \in Workers, NEW where, NEW l, pc' = [pc EXCEPT ![v] = where],
             loc' = [loc EXCEPT ![v] = l], where # "commit"
      PROVE  pc[w] = "commit" /\ loc'[w] = loc[w]
  BY <1>2
<1>3. ASSUME NEW v \in Workers, Request(v), ~ UpdateStateBegin(v)
      PROVE  pc[w] = "commit" /\ loc'[w] = loc[w]
  <2>1. ASSUME Release(v) PROVE pc[w] = "commit" /\ loc'[w] = loc[w]
    BY <1>2, <2>1 DEF Release
  <2>2. ASSUME NEW where, NEW l, GoTo(v, where, l), where # "commit"
        PROVE  pc[w] = "commit" /\ loc'[w] = loc[w]
    BY <1>2, <2>2 DEF GoTo
  <2>3. ASSUME PublishFails(v) PROVE pc[w] = "commit" /\ loc'[w] = loc[w]
    BY <2>1, <2>2, <2>3 DEF PublishFails
  <2>4. CASE Store(v)
    BY <2>4 DEF Store
  <2>5. CASE Record(v)
    BY <1>2, <2>5 DEF Record, Follow
  <2>6. CASE UpdateStateCommit(v) \/ MarkFailed(v) \/ CheckUnprocessed(v)
    BY <2>1, <2>2, <2>6 DEF UpdateStateCommit, MarkFailed, CheckUnprocessed
  <2>7. CASE FailedState(v) \/ ReadLatest(v)
    BY <2>1, <2>2, <2>7 DEF FailedState, ReadLatest
  <2>8. CASE Send(v) \/ RequestFails(v)
    BY <2>1, <2>2, <2>3, <2>8 DEF Send, RequestFails
  <2> QED
    BY <1>3, <2>4, <2>5, <2>6, <2>7, <2>8 DEF Request
<1>4. ASSUME NEW v \in Workers, UpdateStateBegin(v), v # w
      PROVE  pc[w] = "commit" /\ loc'[w] = loc[w]
  BY <1>4 DEF UpdateStateBegin, Release, GoTo
<1>5. ASSUME NEW v \in Workers, NEW mode \in {"publish", "retry"}, Begin(v, mode)
      PROVE  pc[w] = "commit" /\ loc'[w] = loc[w]
  BY <1>2, <1>5 DEF Begin
<1>6. CASE CrashPlatform
  BY <1>6 DEF CrashPlatform
<1> QED
  BY <1>1, <1>3, <1>4, <1>5, <1>6 DEF Next, Issue, Revoke, RevokeTree, RevokeReread, RevokeSave, RevokeFails,
     Watch, Receipt, NoReceipt, WriteProofs, Confirm, Event, Revert, JobFails, Mine, Drop, Scan, Expire, reqVars

\* UpdateState goes on holding the leaves there will be when none is added elsewhere.
LEMMA UpdatesKept ==
  ASSUME TypeOK, Next, UpdatesSound, revTree' = revTree,
         claimsTree' \cup Unassigned' = claimsTree \cup Unassigned
  PROVE  UpdatesSound'
<1> SUFFICES ASSUME NEW w \in Workers, pc'[w] = "commit"
             PROVE  NewLeaves(w)' = claimsTree \cup Unassigned /\ loc'[w].revs = revTree
  BY DEF UpdatesSound
<1>1. CASE pc[w] = "commit" /\ loc'[w] = loc[w]
  BY <1>1 DEF UpdatesSound, NewLeaves
<1>2. CASE UpdateStateBegin(w)
  <2>1. pc[w] = "update" /\ pc \in [Workers -> RequestPcs] /\ loc \in [Workers -> Locals]
    BY <1>2 DEF UpdateStateBegin, TypeOK, RequestTypeOK
  <2>2. ~ Release(w)
    BY <2>1 DEF Release
  <2>3. loc' = [loc EXCEPT ![w] = [loc[w] EXCEPT !.base = claimsTree, !.revs = revTree, !.adds = Unassigned]]
    BY <1>2, <2>2 DEF UpdateStateBegin, GoTo
  <2>4. loc'[w].base = claimsTree /\ loc'[w].adds = Unassigned /\ loc'[w].revs = revTree
    BY <2>1, <2>3 DEF Locals
  <2> QED
    BY <2>4 DEF NewLeaves
<1> QED
  BY <1>1, <1>2, Reads

\* A step that only moves requests, transactions, proofs and revocations under way keeps
\* the invariant.
LEMMA ApartStep ==
  ASSUME TypeOK, UInv, Next, Apart PROVE UInv'
<1>0. UpdatesSound /\ RowsSound /\ HeldSound /\ RevokersSound /\ LeafIffAssigned /\ RevocationsReachState
  BY DEF UInv
<1>1. Unassigned' = Unassigned
  BY ClaimsAssumption DEF Apart, Unassigned
<1>2. UpdatesSound'
  BY <1>0, <1>1, UpdatesKept DEF Apart
<1>3. RowsSound'
  BY <1>0, StatesStay DEF Apart, RowsSound
<1>4. HeldSound' /\ RevokersSound'
  BY <1>0 DEF Apart, HeldSound, RevokersSound
<1>5. LeafIffAssigned'
  BY <1>0, StatesStay DEF Apart, LeafIffAssigned, RowsSound
<1>6. RevocationsReachState'
  BY <1>0, StatesStay DEF Apart, RevocationsReachState
<1> QED
  BY <1>2, <1>3, <1>4, <1>5, <1>6 DEF UInv

\* A credential that is issued is not there yet, and no update is between its reads.
LEMMA IssueStep ==
  ASSUME TypeOK, UInv, "phantom" \notin Faults, NEW c \in Claims, Issue(c) PROVE UInv'
<1>0. UpdatesSound /\ RowsSound /\ HeldSound /\ RevokersSound /\ LeafIffAssigned /\ RevocationsReachState
  BY DEF UInv
<1>1. /\ ~ credentials[c].saved /\ pc' = pc /\ loc' = loc
      /\ UNCHANGED <<states, nStates, revocation, claimsTree, revTree, revoker>>
      /\ \A w \in Workers : pc[w] # "commit"
  BY DEF Issue, May, Updating, reqVars
<1>2. credentials' = [credentials EXCEPT ![c] = [NotSaved EXCEPT !.saved = TRUE]]
  BY DEF Issue
<1>3. /\ credentials'[c].state = Null
      /\ \A d \in Claims : d # c => credentials'[d] = credentials[d]
  BY <1>2 DEF NotSaved, TypeOK, DbTypeOK
<1>4. c \notin claimsTree /\ revoker[c].pc # "save"
  BY <1>0, <1>1 DEF RowsSound, LeafIffAssigned, HeldSound
<1>5. credentials'[c].saved /\ ~ credentials'[c].revoked
  BY <1>2 DEF NotSaved, TypeOK, DbTypeOK
<1>6. UpdatesSound'
  BY <1>1 DEF UpdatesSound
<1>7. RowsSound' /\ HeldSound'
  BY <1>0, <1>1, <1>3, <1>4, <1>5 DEF RowsSound, HeldSound
<1>8. RevokersSound' /\ RevocationsReachState'
  BY <1>0, <1>1 DEF RevokersSound, RevocationsReachState
<1>9. LeafIffAssigned'
  BY <1>0, <1>1, <1>3, <1>4 DEF LeafIffAssigned
<1> QED
  BY <1>6, <1>7, <1>8, <1>9 DEF UInv

\* A revocation enters the tree before the row, between no update's reads, and holds the
\* row as it is.
LEMMA RevokeStep ==
  ASSUME TypeOK, UInv, "phantom" \notin Faults, NEW c \in Claims, Revoke(c), Next PROVE UInv'
<1>0. UpdatesSound /\ RowsSound /\ HeldSound /\ RevokersSound /\ LeafIffAssigned /\ RevocationsReachState
  BY DEF UInv
<1>types. revoker \in [Claims -> Revoking] /\ credentials \in [Claims -> CredentialRow]
      /\ revocation \in [Claims -> {"none", "pending", "published"}]
  BY DEF TypeOK, FollowerTypeOK, DbTypeOK
<1>1. CASE RevokeTree(c)
  <2>1. /\ pc' = pc /\ loc' = loc /\ revTree' = revTree \cup {c}
        /\ UNCHANGED <<states, nStates, revocation, claimsTree, credentials>>
        /\ \A w \in Workers : pc[w] # "commit"
        /\ revoker' = [revoker EXCEPT ![c].pc = "reread"]
    BY <1>1 DEF RevokeTree, May, Updating, reqVars
  <2>2. revoker'[c].pc = "reread" /\ \A d \in Claims : d # c => revoker'[d] = revoker[d]
    BY <1>types, <2>1 DEF Revoking
  <2>3. UpdatesSound' /\ RowsSound' /\ LeafIffAssigned' /\ RevocationsReachState'
    BY <1>0, <2>1 DEF UpdatesSound, RowsSound, LeafIffAssigned, RevocationsReachState
  <2>4. HeldSound' /\ RevokersSound'
    BY <1>0, <2>1, <2>2 DEF HeldSound, RevokersSound
  <2> QED
    BY <2>3, <2>4 DEF UInv
<1>2. CASE RevokeReread(c) \/ RevokeFails(c)
  <2>1. /\ pc' = pc /\ loc' = loc /\ revoker[c].pc # "idle"
        /\ UNCHANGED <<states, nStates, revocation, claimsTree, credentials, revTree>>
    BY <1>2 DEF RevokeReread, RevokeFails, dbVars, reqVars
  <2>2. \/ revoker' = [revoker EXCEPT ![c] = NoRevoking]
        \/ /\ revoker' = [revoker EXCEPT ![c] = [pc |-> "save", saved |-> credentials[c]]]
           /\ credentials[c].saved
    BY <1>2 DEF RevokeReread, RevokeFails
  <2>3. /\ revoker'[c].pc = "save" => revoker'[c].saved = credentials[c] /\ credentials[c].saved
        /\ \A d \in Claims : d # c => revoker'[d] = revoker[d]
    BY <1>types, <2>2 DEF NoRevoking
  <2>4. UpdatesSound' /\ RowsSound' /\ LeafIffAssigned' /\ RevocationsReachState'
    BY <1>0, <2>1 DEF UpdatesSound, RowsSound, LeafIffAssigned, RevocationsReachState, NewLeaves, Unassigned
  <2>5. HeldSound' /\ RevokersSound'
    BY <1>0, <2>1, <2>3 DEF HeldSound, RevokersSound
  <2> QED
    BY <2>4, <2>5 DEF UInv
<1>3. CASE RevokeSave(c)
  <2>1. /\ pc' = pc /\ loc' = loc /\ revoker[c].pc = "save"
        /\ UNCHANGED <<states, nStates, claimsTree, revTree>>
        /\ credentials' = [credentials EXCEPT ![c] = [revoker[c].saved EXCEPT !.revoked = TRUE]]
        /\ revocation' = [revocation EXCEPT ![c] = "pending"]
        /\ revoker' = [revoker EXCEPT ![c] = NoRevoking]
    BY <1>3 DEF RevokeSave, reqVars
  <2>2. /\ credentials[c].saved /\ revoker[c].saved.saved /\ revoker[c].saved \in CredentialRow
        /\ revoker[c].saved.state \in {Null, credentials[c].state}
    BY <1>0, <1>types, <2>1 DEF HeldSound, Revoking
  <2>3. /\ credentials'[c].saved /\ credentials'[c].revoked
        /\ credentials'[c].state = revoker[c].saved.state
        /\ \A d \in Claims : d # c => credentials'[d] = credentials[d]
    BY <1>types, <2>1, <2>2 DEF CredentialRow
  <2>4. /\ revoker'[c].pc = "idle" /\ revocation'[c] = "pending" /\ c \in revTree
        /\ \A d \in Claims : d # c => revoker'[d] = revoker[d] /\ revocation'[d] = revocation[d]
    BY <1>0, <1>types, <2>1 DEF NoRevoking, RevokersSound
  <2>5. claimsTree' \cup Unassigned' = claimsTree \cup Unassigned
    <3>1. ASSUME NEW d \in Claims PROVE d \in claimsTree \/ d \in Unassigned' <=> d \in claimsTree \/ d \in Unassigned
      <4>1. CASE d = c
        BY <1>0, <2>2, <2>3, <4>1 DEF Unassigned, RowsSound
      <4>2. CASE d # c
        BY <2>3, <4>2 DEF Unassigned
      <4> QED
        BY <4>1, <4>2
    <3> QED
      BY <2>1, <3>1, ClaimsAssumption DEF Unassigned, TypeOK, DbTypeOK
  <2>6. UpdatesSound'
    BY <1>0, <2>1, <2>5, UpdatesKept
  <2>7. RowsSound' /\ HeldSound' /\ RevokersSound'
    BY <1>0, <2>1, <2>2, <2>3, <2>4 DEF RowsSound, HeldSound, RevokersSound
  <2>8. LeafIffAssigned'
    BY <1>0, <2>1, <2>2, <2>3 DEF LeafIffAssigned
  <2>9. RevocationsReachState'
    BY <1>0, <2>1, <2>4 DEF RevocationsReachState
  <2> QED
    BY <2>6, <2>7, <2>8, <2>9 DEF UInv
<1> QED
  BY <1>1, <1>2, <1>3 DEF Revoke

\* UpdateState puts every credential without a state into one that has its leaf, and marks
\* no revocation that the state has not.
LEMMA CommitStep ==
  ASSUME TypeOK, UInv, NEW w \in Workers, UpdateStateCommit(w), Next PROVE UInv'
<1>0. UpdatesSound /\ RowsSound /\ HeldSound /\ RevokersSound /\ LeafIffAssigned /\ RevocationsReachState
  BY DEF UInv
<1>1. CASE UNCHANGED dbVars
  <2>1. Apart
    BY <1>1 DEF UpdateStateCommit, dbVars, Apart
  <2> QED
    BY <2>1, ApartStep
<1>2. CASE ~ UNCHANGED dbVars
  <2> DEFINE leaves == NewLeaves(w)
             revs == loc[w].revs
  <2>1. PICK s \in StateIds : SaveRow(s, leaves, revs) /\ Assign(s)
    BY <1>2 DEF UpdateStateCommit
  <2>2. /\ pc[w] = "commit" /\ claimsTree' = leaves /\ PublishRevocations
        /\ UNCHANGED <<revTree, revoker>>
    BY <1>2 DEF UpdateStateCommit
  <2>3. leaves = claimsTree \cup Unassigned /\ revs = revTree
    BY <1>0, <2>2 DEF UpdatesSound
  <2>4. s \in 1..nStates' /\ s # Null /\ states'[s].claims = leaves /\ states'[s].revs = revs
    BY <2>1, RowMade
  <2>5. ASSUME NEW c \in Claims
        PROVE  /\ credentials'[c].saved = credentials[c].saved
               /\ credentials'[c].revoked = credentials[c].revoked
               /\ c \in Unassigned => credentials'[c].state = s /\ credentials[c].state = Null /\ credentials[c].saved
               /\ c \notin Unassigned => credentials'[c].state = credentials[c].state
    <3>1. credentials[c] \in CredentialRow
      BY DEF TypeOK, DbTypeOK
    <3>2. credentials'[c] = IF c \in Unassigned THEN [credentials[c] EXCEPT !.state = s] ELSE credentials[c]
      BY <2>1 DEF Assign
    <3> QED
      BY <3>1, <3>2 DEF CredentialRow, Unassigned
  <2>6. Unassigned' = {}
    BY <2>4, <2>5, ClaimsAssumption DEF Unassigned
  <2> HIDE DEF leaves, revs
  <2>7. UpdatesSound'
    BY <1>0, <2>2, <2>3, <2>6, UpdatesKept
  <2>8. RowsSound'
    BY <1>0, <2>2, <2>3, <2>4, <2>5, StatesStay DEF RowsSound
  <2>9. HeldSound'
    BY <1>0, <2>2, <2>5 DEF HeldSound
  <2>10. RevokersSound' /\ RevocationsReachState'
    <3>1. ASSUME NEW c \in Claims
          PROVE  /\ revocation'[c] # "pending"
                 /\ revocation'[c] = "published" =>
                      revocation[c] = "published" \/ (revocation[c] = "pending" /\ c \in states'[s].revs)
      <4>1. revocation'[c] = IF c \in PendingRevocations THEN "published" ELSE revocation[c]
        BY <2>2 DEF PublishRevocations
      <4> QED
        BY <1>0, <2>3, <2>4, <4>1 DEF PendingRevocations, RevokersSound
    <3> QED
      BY <1>0, <2>2, <2>4, <3>1, StatesStay DEF RevokersSound, RevocationsReachState
  <2>11. ASSUME NEW c \in Claims
         PROVE  /\ credentials'[c].state # Null => c \in states'[credentials'[c].state].claims
                /\ c \in claimsTree' => credentials'[c].state # Null \/ credentials'[c].revoked
    <3>1. CASE c \in Unassigned
      BY <2>3, <2>4, <2>5, <3>1
    <3>2. CASE c \notin Unassigned
      BY <1>0, <2>2, <2>3, <2>5, <3>2, StatesStay DEF LeafIffAssigned, RowsSound
    <3> QED
      BY <3>1, <3>2
  <2> QED
    BY <2>7, <2>8, <2>9, <2>10, <2>11 DEF UInv, LeafIffAssigned
<1> QED
  BY <1>1, <1>2

\* Every step keeps the invariant, when none comes between the reads of UpdateState.
LEMMA UpdateStep ==
  ASSUME "phantom" \notin Faults, TypeOK, UInv, Next PROVE UInv'
<1>1. ASSUME UNCHANGED <<credentials, claimsTree, revTree, revocation, revoker>> PROVE UInv'
  BY <1>1, ApartStep DEF Apart
<1>2. ASSUME NEW w \in Workers, Request(w) PROVE UInv'
  <2>1. CASE UpdateStateCommit(w)
    BY <2>1, CommitStep
  <2>2. CASE ~ UpdateStateCommit(w)
    <3>1. UNCHANGED <<credentials, claimsTree, revTree, revocation, revoker>>
      BY <1>2, <2>2 DEF Request, Store, CheckUnprocessed, UpdateStateBegin, FailedState, ReadLatest, Send,
         Record, Follow, MarkFailed, RequestFails, dbVars
    <3> QED
      BY <1>1, <3>1
  <2> QED
    BY <2>1, <2>2
<1>3. ASSUME NEW k \in Watchers, NEW t \in TxIds, Watch(k, t) PROVE UInv'
  <2>1. CASE WriteProofs(k, t)
    <3>1. ASSUME NEW c \in Claims
          PROVE  /\ credentials'[c].saved = credentials[c].saved
                 /\ credentials'[c].state = credentials[c].state
                 /\ credentials'[c].revoked = credentials[c].revoked
      BY <2>1 DEF WriteProofs, TypeOK, DbTypeOK, CredentialRow
    <3>2. UNCHANGED <<claimsTree, revTree, revocation, revoker>>
      BY <2>1 DEF WriteProofs
    <3> QED
      BY <3>1, <3>2, ApartStep DEF Apart
  <2>2. CASE ~ WriteProofs(k, t)
    BY <1>1, <1>3, <2>2 DEF Watch, Receipt, NoReceipt, Confirm, Event, Revert, JobFails, dbVars
  <2> QED
    BY <2>1, <2>2
<1>4. CASE CrashPlatform
  <2>1. /\ \A w \in Workers : pc'[w] = "idle"
        /\ \A c \in Claims : revoker'[c] = NoRevoking
        /\ UNCHANGED dbVars
    BY <1>4 DEF CrashPlatform
  <2> QED
    BY <2>1 DEF dbVars, UInv, UpdatesSound, RowsSound, HeldSound, RevokersSound, LeafIffAssigned,
       RevocationsReachState, NoRevoking
<1>5. ASSUME NEW t \in TxIds, Mine(t) \/ Drop(t) PROVE UInv'
  BY <1>1, <1>5 DEF Mine, Drop, dbVars
<1>6. CASE Scan \/ Expire
  BY <1>1, <1>6 DEF Scan, Expire, dbVars
<1>7. ASSUME NEW w \in Workers, NEW mode \in {"publish", "retry"}, Begin(w, mode) PROVE UInv'
  BY <1>1, <1>7 DEF Begin, dbVars
<1> QED
  BY <1>2, <1>3, <1>4, <1>5, <1>6, <1>7, IssueStep, RevokeStep DEF Next

\* The invariant holds of every behaviour in which nothing comes between the reads.
LEMMA UpdateInvariance ==
  ASSUME "phantom" \notin Faults PROVE Spec => []UInv
<1>1. TypeOK /\ UInv /\ [Next]_vars => UInv'
  <2>1. ASSUME UInv, UNCHANGED vars PROVE UInv'
    BY <2>1 DEF vars, dbVars, chainVars, reqVars, evtVars, UInv, UpdatesSound, NewLeaves, Unassigned, RowsSound,
       HeldSound, RevokersSound, LeafIffAssigned, RevocationsReachState
  <2> QED
    BY <2>1, UpdateStep
<1> QED
  BY <1>1, UpdateInit, TypeCorrect, PTL DEF Spec

\* A credential in a state is a leaf of its claims tree, and a leaf is in a state, or revoked.
THEOREM LeavesAssigned ==
  ASSUME "phantom" \notin Faults PROVE Spec => []LeafIffAssigned
<1>1. UInv => LeafIffAssigned
  BY DEF UInv
<1> QED
  BY <1>1, UpdateInvariance, PTL

\* A revocation marked published is in the revocation tree of a state.
THEOREM RevocationsReach ==
  ASSUME "phantom" \notin Faults PROVE Spec => []RevocationsReachState
<1>1. UInv => RevocationsReachState
  BY DEF UInv
<1> QED
  BY <1>1, UpdateInvariance, PTL

=============================================================================

------------------------- MODULE NotificationsProofs -------------------------
(***************************************************************************)
(* What TLAPS proves of Notifications, for every number of users,          *)
(* credentials, connections, concurrent requests and states.               *)
(***************************************************************************)
EXTENDS Notifications, SequenceTheorems, TLAPS

-----------------------------------------------------------------------------
(* The inductive invariant. *)

\* What a message or a request may offer: credentials of one user that are, or were, there,
\* and that can be fetched.
Offers(creds) ==
  /\ \A k \in creds : k \in Credentials /\ claims[k].row # "unused" /\ (Saved(k) => Provable(k))
  /\ \A j, k \in creds : claims[j].user = claims[k].user

\* The requests know whom and what they are for.
RequestsSound == \A c \in Callers :
  /\ pc[c] \in {"authenticated", "link"} => loc[c].user \in Users
  /\ pc[c] = "authenticated" => loc[c].conn \in Connections
  /\ pc[c] = "issued" => loc[c].claim \in Credentials /\ Offers({loc[c].claim})

\* All that is announced can be offered.
MessagesSound == \A batch \in announcing.batches \cup Received("credential") : Offers(batch)

\* What is being pushed is of somebody.
HandlingSound == \A topic \in {"credential", "connection"} :
  \A k \in handling[topic].creds : claims[k].row # "unused"

\* The MTP proof of a credential comes with its state.
ProofsSound == \A k \in Credentials : claims[k].proof => claims[k].state # None

\* What a wallet is to hear of is revoked.
DueSound == \A k \in due : claims[k].row # "unused" /\ (Saved(k) => claims[k].revoked)

IInv ==
  /\ TypeOK
  /\ RequestsSound
  /\ MessagesSound
  /\ HandlingSound
  /\ ProofsSound
  /\ DueSound
  /\ NoOfferForgotten
  /\ PushedToSubject
  /\ NoNoticeForgotten

-----------------------------------------------------------------------------
(* Topics. *)

Messages(topic) ==
  IF topic = "credential" THEN SUBSET Credentials ELSE IF topic = "connection" THEN Connections ELSE StateIds

Elements(s) == {s[i] : i \in 1..Len(s)}

\* What a sequence holds when an element is appended ...
LEMMA Appended ==
  ASSUME NEW S, NEW s \in Seq(S), NEW m \in S
  PROVE  Append(s, m) \in Seq(S) /\ Elements(Append(s, m)) = Elements(s) \cup {m}
<1>1. /\ Append(s, m) \in Seq(S) /\ Len(Append(s, m)) = Len(s) + 1 /\ Len(s) \in Nat
      /\ \A i \in 1..Len(s) : Append(s, m)[i] = s[i]
      /\ Append(s, m)[Len(s) + 1] = m
  BY AppendProperties, LenProperties
<1> QED
  BY <1>1 DEF Elements

\* ... and when its head is taken.
LEMMA Headed ==
  ASSUME NEW S, NEW s \in Seq(S), s # <<>>
  PROVE  Head(s) \in S /\ Tail(s) \in Seq(S) /\ Elements(s) = Elements(Tail(s)) \cup {Head(s)}
<1>1. /\ Head(s) \in S /\ Tail(s) \in Seq(S) /\ Len(Tail(s)) = Len(s) - 1 /\ Len(s) \in Nat \ {0}
      /\ Head(s) = s[1] /\ \A i \in 1..Len(Tail(s)) : Tail(s)[i] = s[i + 1]
  BY HeadTailProperties, LenProperties, EmptySeq
<1>2. \A i \in 1..Len(s) : i = 1 \/ (i - 1 \in 1..Len(Tail(s)) /\ s[i] = Tail(s)[i - 1])
  BY <1>1
<1>3. 1 \in 1..Len(s) /\ \A i \in 1..Len(Tail(s)) : i + 1 \in 1..Len(s)
  BY <1>1
<1>4. Elements(s) \subseteq Elements(Tail(s)) \cup {Head(s)}
  BY <1>1, <1>2 DEF Elements
<1>5. Elements(Tail(s)) \cup {Head(s)} \subseteq Elements(s)
  <2>1. \A x \in Elements(Tail(s)) : \E i \in 1..Len(Tail(s)) : x = s[i + 1]
    BY <1>1 DEF Elements
  <2>2. \A i \in 1..Len(Tail(s)) : s[i + 1] \in Elements(s)
    BY <1>3 DEF Elements
  <2>3. s[1] \in Elements(s)
    BY <1>3 DEF Elements
  <2> QED
    BY <1>1, <2>1, <2>2, <2>3
<1> QED
  BY <1>1, <1>4, <1>5

\* The topics of the process are sequences of messages.
TopicsTypeOK == DOMAIN topics = Topics /\ \A topic \in Topics : topics[topic] \in Seq(Messages(topic))

\* It is what the type invariant says of them.
LEMMA TopicsType ==
  TopicsTypeOK <=> /\ DOMAIN topics = Topics
                   /\ topics["credential"] \in Seq(SUBSET Credentials)
                   /\ topics["connection"] \in Seq(Connections)
                   /\ topics["state"] \in Seq(StateIds)
BY DEF TopicsTypeOK, Topics, Messages

\* A published message is received besides the others.
LEMMA Published ==
  ASSUME TopicsTypeOK, NEW topic \in Topics, NEW m \in Messages(topic), Publish(topic, m)
  PROVE  /\ TopicsTypeOK' /\ Received(topic)' = Received(topic) \cup {m}
         /\ \A t \in Topics \ {topic} : Received(t)' = Received(t)
         /\ UNCHANGED spent
<1>1. topics' = [topics EXCEPT ![topic] = Append(@, m)] /\ UNCHANGED spent
  BY DEF Publish
<1>2. topics'[topic] = Append(topics[topic], m) /\ \A t \in Topics \ {topic} : topics'[t] = topics[t]
  BY <1>1 DEF TopicsTypeOK
<1>3. /\ topics'[topic] \in Seq(Messages(topic))
      /\ Elements(topics'[topic]) = Elements(topics[topic]) \cup {m}
  BY <1>2, Appended DEF TopicsTypeOK
<1>4. TopicsTypeOK'
  BY <1>1, <1>2, <1>3 DEF TopicsTypeOK
<1> QED
  BY <1>1, <1>2, <1>3, <1>4 DEF Received, Elements

\* A message that is taken is replaced by the work it makes.
LEMMA Taken ==
  ASSUME TopicsTypeOK, handling \in [Topics -> Work], NEW topic \in Topics, NEW work, Take(topic, work)
  PROVE  /\ TopicsTypeOK' /\ Head(topics[topic]) \in Messages(topic)
         /\ Received(topic) = Received(topic)' \cup {Head(topics[topic])}
         /\ \A t \in Topics \ {topic} : Received(t)' = Received(t) /\ handling'[t] = handling[t]
         /\ handling[topic].creds = {} /\ handling'[topic].creds = work.creds
         /\ handling'[topic] = IF work.creds = {} THEN NoWork ELSE work
<1>1. /\ topics[topic] # <<>> /\ topics' = [topics EXCEPT ![topic] = Tail(@)] /\ handling[topic].creds = {}
      /\ handling' = [handling EXCEPT ![topic] = IF work.creds = {} THEN NoWork ELSE work]
  BY DEF Take, Idle
<1>2. topics'[topic] = Tail(topics[topic]) /\ \A t \in Topics \ {topic} : topics'[t] = topics[t]
  BY <1>1 DEF TopicsTypeOK
<1>3. /\ topics'[topic] \in Seq(Messages(topic)) /\ Head(topics[topic]) \in Messages(topic)
      /\ Elements(topics[topic]) = Elements(topics'[topic]) \cup {Head(topics[topic])}
  BY <1>1, <1>2, Headed DEF TopicsTypeOK
<1>4. TopicsTypeOK'
  BY <1>1, <1>2, <1>3 DEF TopicsTypeOK
<1>5. handling'[topic] = IF work.creds = {} THEN NoWork ELSE work
  BY <1>1
<1>6. handling'[topic].creds = work.creds
  BY <1>5 DEF NoWork
<1>7. \A t \in Topics \ {topic} : handling'[t] = handling[t]
  BY <1>1
<1>8. \A t \in Topics : Received(t) = Elements(topics[t]) /\ Received(t)' = Elements(topics'[t])
  BY DEF Received, Elements
<1>9. /\ Received(topic) = Received(topic)' \cup {Head(topics[topic])}
      /\ \A t \in Topics \ {topic} : Received(t)' = Received(t)
  BY <1>2, <1>3, <1>8
<1> QED
  BY <1>1, <1>3, <1>4, <1>5, <1>6, <1>7, <1>9

-----------------------------------------------------------------------------
(* The rows of credentials. *)

\* A row that was ever saved keeps its user; while it is there it keeps what was asked for, and
\* its proof, its revocation and its state once it has them.
RowStays(k) == claims[k].row # "unused" =>
  /\ claims'[k].row # "unused" /\ claims'[k].user = claims[k].user
  /\ claims'[k].row = "saved" =>
       /\ claims[k].row = "saved" /\ claims'[k].proofs = claims[k].proofs
       /\ claims[k].proof => claims'[k].proof
       /\ claims[k].revoked => claims'[k].revoked
       /\ claims[k].state # None => claims'[k].state = claims[k].state
RowsStay == \A k \in Credentials : RowStays(k)

\* The type of the table, and what else holds of each row by itself.
RowOK(row) ==
  /\ row \in ClaimRow
  /\ row.row # "unused" => row.user # None
  /\ row.proof => row.state # None
RowsOK == claims \in [Credentials -> ClaimRow] /\ \A k \in Credentials : RowOK(claims[k])

\* What is done to one row.
NewRow(u, proofs) == [NoClaim EXCEPT !.row = "saved", !.user = u, !.proofs = proofs]

\* A new row has its type, and what was asked for and nothing else.
LEMMA NewRowOK ==
  ASSUME NEW u \in Users, NEW proofs \in Kinds
  PROVE  /\ RowOK(NewRow(u, proofs)) /\ NewRow(u, proofs) \in ClaimRow
         /\ NewRow(u, proofs).row = "saved" /\ NewRow(u, proofs).user = u
         /\ NewRow(u, proofs).proofs = proofs /\ NewRow(u, proofs).state = None
         /\ ~ NewRow(u, proofs).proof /\ ~ NewRow(u, proofs).revoked
<1>1. NewRow(u, proofs) \in ClaimRow
  BY KindsAssumption, NoneAssumption DEF NewRow, NoClaim, ClaimRow
<1>2. /\ NewRow(u, proofs).row = "saved" /\ NewRow(u, proofs).user = u
      /\ NewRow(u, proofs).proofs = proofs /\ NewRow(u, proofs).state = None
  BY DEF NewRow, NoClaim
<1>3. ~ NewRow(u, proofs).proof /\ ~ NewRow(u, proofs).revoked
  BY DEF NewRow, NoClaim
<1>4. u # None
  BY NoneAssumption
<1>5. RowOK(NewRow(u, proofs))
  BY <1>1, <1>2, <1>3, <1>4 DEF RowOK
<1> QED
  BY <1>1, <1>2, <1>3, <1>5

\* Rows that are taken out keep their user and nothing else.
LEMMA RowsTakenOut ==
  ASSUME RowsOK, NEW creds \in SUBSET Credentials, claims' = Without(creds),
         \A k \in creds : claims[k].row # "unused"
  PROVE  /\ RowsOK' /\ RowsStay
         /\ \A k \in Credentials : claims'[k].row = "saved" => claims'[k] = claims[k]
<1> DEFINE gone(k) == [NoClaim EXCEPT !.row = "deleted", !.user = claims[k].user]
<1>1. \A k \in Credentials : claims'[k] = IF k \in creds THEN gone(k) ELSE claims[k]
  BY DEF Without
<1>2. ASSUME NEW k \in creds
      PROVE  RowOK(gone(k)) /\ gone(k).row = "deleted" /\ gone(k).user = claims[k].user
  <2>1. claims[k].user \in Users \cup {None} /\ claims[k].user # None
    BY DEF RowsOK, RowOK, ClaimRow
  <2>2. gone(k) \in ClaimRow /\ gone(k).row = "deleted" /\ gone(k).user = claims[k].user
    BY <2>1 DEF NoClaim, ClaimRow
  <2>3. ~ gone(k).proof
    BY DEF NoClaim
  <2> QED
    BY <2>1, <2>2, <2>3 DEF RowOK
<1> HIDE DEF gone
<1>3. \A k \in Credentials : claims[k] \in ClaimRow
  BY DEF RowsOK
<1>4. \A k \in creds : gone(k) \in ClaimRow
  BY <1>2 DEF RowOK
<1>5. claims' \in [Credentials -> ClaimRow]
  <2>1. \A k \in Credentials : claims'[k] \in ClaimRow
    BY <1>1, <1>3, <1>4 DEF RowOK
  <2> QED
    BY <2>1 DEF Without
<1>6. RowsOK'
  BY <1>1, <1>2, <1>5 DEF RowsOK
<1>7. ASSUME NEW k \in Credentials PROVE RowStays(k) /\ (claims'[k].row = "saved" => claims'[k] = claims[k])
  <2>1. CASE k \in creds
    BY <1>1, <1>2, <2>1 DEF RowStays
  <2>2. CASE k \notin creds
    BY <1>1, <2>2 DEF RowStays
  <2> QED
    BY <2>1, <2>2
<1> QED
  BY <1>6, <1>7 DEF RowsStay

\* A row that is added is a new one.
LEMMA RowAdded ==
  ASSUME RowsOK, NEW k \in Credentials, NEW u \in Users, NEW proofs \in Kinds, SaveClaim(k, u, proofs)
  PROVE  /\ RowsOK' /\ RowsStay
         /\ claims'[k].row = "saved" /\ claims'[k].user = u /\ claims'[k].proofs = proofs
         /\ ~ claims'[k].proof /\ ~ claims'[k].revoked /\ claims[k].row = "unused"
         /\ \A j \in Credentials \ {k} : claims'[j] = claims[j]
<1>1. /\ claims[k].row = "unused" /\ claims'[k] = NewRow(u, proofs)
      /\ claims' = [claims EXCEPT ![k] = NewRow(u, proofs)]
      /\ \A j \in Credentials \ {k} : claims'[j] = claims[j]
  BY DEF SaveClaim, NewRow, RowsOK
<1>2. RowOK(claims'[k]) /\ claims'[k] \in ClaimRow
  BY <1>1, NewRowOK DEF RowOK
<1>3. RowsOK'
  BY <1>1, <1>2 DEF RowsOK
<1>4. RowsStay
  BY <1>1 DEF RowsStay, RowStays
<1>5. claims'[k].row = "saved" /\ claims'[k].user = u /\ claims'[k].proofs = proofs
  BY <1>1, NewRowOK
<1>6. ~ claims'[k].proof /\ ~ claims'[k].revoked
  BY <1>1, NewRowOK
<1> QED
  BY <1>1, <1>3, <1>4, <1>5, <1>6

\* A revocation changes nothing else.
LEMMA RowRevoked ==
  ASSUME RowsOK, NEW k \in Credentials, Revoke(k)
  PROVE  /\ RowsOK' /\ RowsStay
         /\ \A j \in Credentials : /\ Saved(j)' <=> Saved(j)
                                   /\ Provable(j)' <=> Provable(j)
                                   /\ claims'[j].user = claims[j].user
<1>1. /\ Saved(k) /\ claims' = [claims EXCEPT ![k] = [@ EXCEPT !.revoked = TRUE]]
      /\ claims'[k] = [claims[k] EXCEPT !.revoked = TRUE]
      /\ \A j \in Credentials \ {k} : claims'[j] = claims[j]
  BY DEF Revoke, RowsOK
<1>2. /\ claims'[k].row = claims[k].row /\ claims'[k].user = claims[k].user
      /\ claims'[k].proofs = claims[k].proofs /\ claims'[k].state = claims[k].state
      /\ claims'[k].proof = claims[k].proof /\ claims'[k].revoked = TRUE
      /\ claims'[k] \in ClaimRow
  BY <1>1 DEF RowsOK, ClaimRow
<1>3. RowOK(claims'[k])
  BY <1>2 DEF RowsOK, RowOK
<1>4. RowsOK'
  BY <1>1, <1>2, <1>3 DEF RowsOK
<1>5. RowStays(k)
  BY <1>2, Zenon DEF RowStays
<1>6. RowsStay
  BY <1>1, <1>5 DEF RowsStay, RowStays
<1>7. (Saved(k)' <=> Saved(k)) /\ (Provable(k)' <=> Provable(k))
  BY <1>2, Zenon DEF Saved, Provable
<1>8. \A j \in Credentials \ {k} : (Saved(j)' <=> Saved(j)) /\ (Provable(j)' <=> Provable(j))
  BY <1>1, Zenon DEF Saved, Provable
<1> QED
  BY <1>1, <1>2, <1>4, <1>6, <1>7, <1>8

\* A publication gives the rows in no state theirs, and a proof to those that want one.
New == {k \in Credentials : Saved(k) /\ claims[k].state = None}
Proved == {k \in New : "mtp" \in claims[k].proofs}

\* Nothing else of a row changes.
LEMMA RowsPublished ==
  ASSUME RowsOK, states \in 0..MaxStates, PublishState
  PROVE  /\ RowsOK' /\ RowsStay /\ states' \in StateIds
         /\ \A k \in Credentials :
              /\ Saved(k)' <=> Saved(k)
              /\ claims'[k].user = claims[k].user
              /\ Saved(k) /\ Provable(k) => Provable(k)'
              /\ Provable(k)' => Provable(k) \/ k \in Proved
              /\ k \in Proved => Provable(k)'
         /\ announcing' = [state |-> states', batches |-> ByUser(Proved)]
<1> DEFINE given(k) == [claims[k] EXCEPT !.state = states', !.proof = k \in Proved]
<1>1. /\ claims' = [k \in Credentials |-> IF k \in New THEN given(k) ELSE claims[k]]
      /\ announcing' = [state |-> states', batches |-> ByUser(Proved)]
      /\ states' = states + 1 /\ states < MaxStates
  <2>1. claims' = [k \in Credentials |-> IF k \in New THEN given(k) ELSE claims[k]]
    BY DEF PublishState, New, Proved
  <2>2. announcing' = [state |-> states', batches |-> ByUser(Proved)]
    BY DEF PublishState, New, Proved
  <2>3. states' = states + 1 /\ states < MaxStates
    BY DEF PublishState
  <2> QED
    BY <2>1, <2>2, <2>3
<1>2. states' \in StateIds /\ states' # None
  <2>1. states' \in 1..MaxStates /\ states' \in Nat
    <3>1. states' = states + 1 /\ states < MaxStates
      BY DEF PublishState
    <3> QED
      BY <3>1, MaxStatesAssumption
  <2>2. None \notin Nat
    BY NoneAssumption
  <2> QED
    BY <2>1, <2>2 DEF StateIds
<1>3. ASSUME NEW k \in New
      PROVE  /\ given(k).row = "saved" /\ given(k).user = claims[k].user
             /\ given(k).proofs = claims[k].proofs /\ given(k).state = states'
             /\ given(k).proof <=> k \in Proved
             /\ given(k).revoked <=> claims[k].revoked
             /\ claims[k].row = "saved" /\ claims[k].state = None /\ ~ claims[k].proof
             /\ claims[k].user # None
  <2>1. claims[k] \in ClaimRow /\ claims[k].row = "saved" /\ claims[k].state = None /\ k \in Credentials
    BY DEF New, RowsOK, Saved
  <2>2. /\ given(k).row = "saved" /\ given(k).user = claims[k].user
        /\ given(k).proofs = claims[k].proofs /\ given(k).state = states'
    BY <2>1 DEF ClaimRow
  <2>3. given(k).proof <=> k \in Proved
    BY <2>1 DEF ClaimRow
  <2>4. given(k).revoked <=> claims[k].revoked
    BY <2>1 DEF ClaimRow
  <2>5. RowOK(claims[k])
    BY <2>1 DEF RowsOK
  <2>6. ~ claims[k].proof /\ claims[k].user # None
    BY <2>1, <2>5 DEF RowOK
  <2> QED
    BY <2>1, <2>2, <2>3, <2>4, <2>6
<1>4. ASSUME NEW k \in New PROVE given(k) \in ClaimRow
  <2>1. claims[k] \in ClaimRow /\ (k \in Proved) \in BOOLEAN
    BY DEF New, RowsOK
  <2> QED
    BY <1>2, <2>1 DEF ClaimRow
<1> HIDE DEF given
<1>5. \A k \in New : RowOK(given(k))
  BY <1>2, <1>3, <1>4 DEF RowOK
<1>6. \A k \in Credentials : claims'[k] = IF k \in New THEN given(k) ELSE claims[k]
  BY <1>1
<1>7. RowsOK'
  <2>1. \A k \in Credentials : claims'[k] \in ClaimRow /\ RowOK(claims'[k])
    BY <1>4, <1>5, <1>6 DEF RowsOK
  <2> QED
    BY <1>1, <2>1 DEF RowsOK
<1>8. ASSUME NEW k \in New
      PROVE  /\ RowStays(k) /\ Saved(k)' /\ Saved(k) /\ claims'[k].user = claims[k].user
             /\ Provable(k) => Provable(k)'
             /\ Provable(k)' => Provable(k) \/ k \in Proved
             /\ k \in Proved => Provable(k)'
  <2>1. claims'[k] = given(k) /\ k \in Credentials
    BY <1>6 DEF New
  <2>2. RowStays(k) /\ Saved(k)' /\ Saved(k)
    BY <1>3, <2>1 DEF RowStays, Saved
  <2>3. Provable(k)' <=> "signature" \in claims[k].proofs \/ k \in Proved
    BY <1>3, <2>1 DEF Provable
  <2>4. Provable(k) <=> "signature" \in claims[k].proofs
    BY <1>3 DEF Provable
  <2> QED
    BY <1>3, <2>1, <2>2, <2>3, <2>4
<1>9. ASSUME NEW k \in Credentials \ New
      PROVE  /\ RowStays(k) /\ (Saved(k)' <=> Saved(k)) /\ claims'[k].user = claims[k].user
             /\ Provable(k)' <=> Provable(k)
             /\ k \notin Proved
  <2>1. claims'[k] = claims[k] /\ k \notin Proved
    BY <1>6 DEF Proved
  <2>2. RowStays(k)
    BY <2>1 DEF RowStays
  <2>3. (Saved(k)' <=> Saved(k)) /\ (Provable(k)' <=> Provable(k))
    BY <2>1 DEF Saved, Provable
  <2> QED
    BY <2>1, <2>2, <2>3
<1>10. RowsStay
  BY <1>8, <1>9 DEF RowsStay
<1> QED
  BY <1>1, <1>2, <1>7, <1>8, <1>9, <1>10

\* Every step but an addition, a removal, a revocation or a publication leaves the table alone.
LEMMA RowsCorrect ==
  ASSUME RowsOK, states \in 0..MaxStates, RequestsSound, Next
  PROVE  RowsOK' /\ RowsStay
<1>1. ASSUME UNCHANGED claims PROVE RowsOK' /\ RowsStay
  BY <1>1 DEF RowsOK, RowsStay, RowStays
<1>2. ASSUME NEW c \in Callers, NEW k \in Credentials, NEW u \in Users, NEW proofs \in Kinds,
             Issue(c, k, u, proofs)
      PROVE  RowsOK' /\ RowsStay
  BY <1>2, RowAdded DEF Issue
<1>3. ASSUME NEW c \in Callers, NEW k \in Credentials, NEW proofs \in Kinds, IssueByLink(c, k, proofs)
      PROVE  RowsOK' /\ RowsStay
  <2>1. loc[c].user \in Users /\ SaveClaim(k, loc[c].user, proofs)
    BY <1>3 DEF IssueByLink, RequestsSound
  <2> QED
    BY <2>1, RowAdded
<1>4. ASSUME NEW creds \in SUBSET Credentials, claims' = Without(creds), \A k \in creds : Saved(k)
      PROVE  RowsOK' /\ RowsStay
  <2>1. \A k \in creds : claims[k].row # "unused"
    BY <1>4 DEF Saved
  <2> QED
    BY <1>4, <2>1, RowsTakenOut
<1>5. ASSUME NEW u \in Users PROVE OfUser(u) \in SUBSET Credentials /\ \A k \in OfUser(u) : Saved(k)
  BY DEF OfUser
<1>6. CASE \E c \in Callers : Authentication(c) \/ Abandon(c) \/ AnnounceClaim(c)
  <2>1. UNCHANGED claims
    BY <1>6 DEF Authentication, SaveConnection, Authenticate, AuthenticateForLink, Authenticated,
         Abandon, AnnounceClaim, database
  <2> QED
    BY <1>1, <2>1
<1>7. CASE \E c \in Callers : Issuing(c)
  BY <1>2, <1>3, <1>6, <1>7 DEF Issuing
<1>8. CASE Administration
  <2>1. CASE \E u \in Users, conn \in Connections : CreateConnection(u, conn)
    BY <1>1, <2>1 DEF CreateConnection
  <2>2. ASSUME NEW u \in Users, NEW deleteCredentials \in BOOLEAN, DeleteConnection(u, deleteCredentials)
        PROVE  RowsOK' /\ RowsStay
    BY <1>1, <1>4, <1>5, <2>2 DEF DeleteConnection
  <2>3. ASSUME NEW u \in Users, DeleteCredentials(u) PROVE RowsOK' /\ RowsStay
    BY <1>4, <1>5, <2>3 DEF DeleteCredentials
  <2>4. CASE \E k \in Credentials : Revoke(k)
    BY <2>4, RowRevoked
  <2>5. ASSUME NEW k \in Credentials, Delete(k) PROVE RowsOK' /\ RowsStay
    BY <1>4, <2>5 DEF Delete
  <2> QED
    BY <1>8, <2>1, <2>2, <2>3, <2>4, <2>5 DEF Administration
<1>9. CASE Publication
  <2>1. CASE PublishState
    BY <2>1, RowsPublished
  <2>2. CASE AnnounceBatch \/ AnnounceState \/ Forget
    BY <1>1, <2>2 DEF AnnounceBatch, AnnounceState, Forget, database
  <2> QED
    BY <1>9, <2>1, <2>2 DEF Publication
<1>10. CASE Notification
  <2>1. UNCHANGED claims
    BY <1>10 DEF Notification, HandleCredential, HandleConnection, HandleState, PushOffer, PushNotice,
         GiveUpNotices, Stop, Start, Take, database
  <2> QED
    BY <1>1, <2>1
<1> QED
  BY <1>6, <1>7, <1>8, <1>9, <1>10 DEF Next

\* What can be fetched can be fetched as long as it is there.
LEMMA ProvableStays ==
  ASSUME NEW k \in Credentials, RowsStay, claims[k].row # "unused", Saved(k) => Provable(k), Saved(k)'
  PROVE  Saved(k) /\ Provable(k)'
BY DEF RowsStay, RowStays, Saved, Provable

\* An offer that was sound is sound.
LEMMA OffersStay ==
  ASSUME RowsStay, NEW creds, Offers(creds)
  PROVE  Offers(creds)'
<1>1. ASSUME NEW k \in creds
      PROVE  /\ k \in Credentials /\ claims'[k].row # "unused" /\ (Saved(k)' => Provable(k)')
             /\ claims'[k].user = claims[k].user
  <2>1. k \in Credentials /\ claims[k].row # "unused" /\ (Saved(k) => Provable(k))
    BY DEF Offers
  <2>2. claims'[k].row # "unused" /\ claims'[k].user = claims[k].user
    BY <2>1 DEF RowsStay, RowStays
  <2> QED
    BY <2>1, <2>2, ProvableStays
<1> QED
  BY <1>1 DEF Offers

-----------------------------------------------------------------------------
(* Requests. *)

RequestsTypeOK == pc \in [Callers -> Pcs] /\ loc \in [Callers -> Locals]

\* What RequestsSound says of one request at a label with its locals.
Fits(label, l) ==
  /\ label \in Pcs /\ l \in Locals
  /\ label \in {"authenticated", "link"} => l.user \in Users
  /\ label = "authenticated" => l.conn \in Connections
  /\ label = "issued" => l.claim \in Credentials /\ Offers({l.claim})

\* One request goes on, the others fit as before.
LEMMA Went ==
  ASSUME RequestsTypeOK, RequestsSound, RowsStay, NEW c \in Callers, NEW label, NEW l,
         GoTo(c, label, l), label \in Pcs, l \in Locals, Fits(label, l)'
  PROVE  RequestsTypeOK' /\ RequestsSound'
<1>1. /\ pc' = [pc EXCEPT ![c] = label] /\ loc' = [loc EXCEPT ![c] = l]
      /\ pc' \in [Callers -> Pcs] /\ loc' \in [Callers -> Locals]
      /\ pc'[c] = label /\ loc'[c] = l
      /\ \A d \in Callers \ {c} : pc'[d] = pc[d] /\ loc'[d] = loc[d]
  BY DEF GoTo, RequestsTypeOK
<1>2. ASSUME NEW k, Offers({k}) PROVE Offers({k})'
  BY <1>2, OffersStay
<1>3. ASSUME NEW d \in Callers \ {c}
      PROVE  /\ pc'[d] \in {"authenticated", "link"} => loc'[d].user \in Users
             /\ pc'[d] = "authenticated" => loc'[d].conn \in Connections
             /\ pc'[d] = "issued" => loc'[d].claim \in Credentials /\ Offers({loc[d].claim})'
  <2>1. pc'[d] = pc[d] /\ loc'[d] = loc[d]
    BY <1>1
  <2>2. /\ pc[d] \in {"authenticated", "link"} => loc[d].user \in Users
        /\ pc[d] = "authenticated" => loc[d].conn \in Connections
        /\ pc[d] = "issued" => loc[d].claim \in Credentials /\ Offers({loc[d].claim})
    BY DEF RequestsSound
  <2>3. ASSUME pc[d] = "issued" PROVE Offers({loc[d].claim})'
    <3>1. PICK k : k = loc[d].claim /\ Offers({k})
      BY <2>2, <2>3
    <3>2. loc'[d].claim = k /\ Offers({k})'
      BY <1>2, <2>1, <3>1
    <3> QED
      BY <3>2
  <2> QED
    BY <2>1, <2>2, <2>3
<1>4. /\ pc'[c] \in {"authenticated", "link"} => loc'[c].user \in Users
      /\ pc'[c] = "authenticated" => loc'[c].conn \in Connections
      /\ pc'[c] = "issued" => loc'[c].claim \in Credentials /\ Offers({loc[c].claim})'
  BY <1>1 DEF Fits
<1> QED
  BY <1>1, <1>3, <1>4 DEF RequestsTypeOK, RequestsSound

\* What requests hold, and how long.
LEMMA LocalsFit ==
  /\ NoLocals \in Locals
  /\ \A u \in Users : [NoLocals EXCEPT !.user = u] \in Locals /\ [NoLocals EXCEPT !.user = u].user = u
  /\ \A k \in Credentials :
       [NoLocals EXCEPT !.claim = k] \in Locals /\ [NoLocals EXCEPT !.claim = k].claim = k
  /\ \A u \in Users, conn \in Connections, new \in BOOLEAN :
       LET l == [NoLocals EXCEPT !.user = u, !.conn = conn, !.new = new]
       IN  l \in Locals /\ l.user = u /\ l.conn = conn /\ (l.new <=> new)
<1>1. NoLocals \in Locals
  BY DEF NoLocals, Locals
<1>2. ASSUME NEW u \in Users
      PROVE  [NoLocals EXCEPT !.user = u] \in Locals /\ [NoLocals EXCEPT !.user = u].user = u
  BY DEF NoLocals, Locals
<1>3. ASSUME NEW k \in Credentials
      PROVE  [NoLocals EXCEPT !.claim = k] \in Locals /\ [NoLocals EXCEPT !.claim = k].claim = k
  BY DEF NoLocals, Locals
<1>4. ASSUME NEW u \in Users, NEW conn \in Connections, NEW new \in BOOLEAN
      PROVE  LET l == [NoLocals EXCEPT !.user = u, !.conn = conn, !.new = new]
             IN  l \in Locals /\ l.user = u /\ l.conn = conn /\ (l.new <=> new)
  BY DEF NoLocals, Locals
<1> QED
  BY <1>1, <1>2, <1>3, <1>4

\* A request that returns holds nothing.
LEMMA Returned ==
  ASSUME RequestsTypeOK, RequestsSound, RowsStay, NEW c \in Callers, Return(c)
  PROVE  RequestsTypeOK' /\ RequestsSound'
<1>1. GoTo(c, "idle", NoLocals) /\ NoLocals \in Locals /\ "idle" \in Pcs
  BY LocalsFit DEF Return, Pcs
<1>2. Fits("idle", NoLocals)'
  BY <1>1 DEF Fits
<1> QED
  BY <1>1, <1>2, Went

\* Whatever a step does, the requests know whom and what they are for.
LEMMA RequestsCorrect ==
  ASSUME RequestsTypeOK, RequestsSound, RowsOK, RowsOK', RowsStay, Next
  PROVE  RequestsTypeOK' /\ RequestsSound'
<1>1. ASSUME UNCHANGED <<pc, loc>> PROVE RequestsTypeOK' /\ RequestsSound'
  <2>1. RequestsTypeOK'
    BY <1>1 DEF RequestsTypeOK
  <2>2. ASSUME NEW c \in Callers, pc[c] = "issued" PROVE Offers({loc[c].claim})'
    <3>1. PICK k : k = loc[c].claim /\ Offers({k})
      BY <2>2 DEF RequestsSound
    <3>2. loc'[c].claim = k /\ Offers({k})'
      BY <1>1, <3>1, OffersStay
    <3> QED
      BY <3>2
  <2>3. RequestsSound'
    BY <1>1, <2>2 DEF RequestsSound
  <2> QED
    BY <2>1, <2>3
<1>2. ASSUME NEW c \in Callers, NEW u \in Users, NEW conn \in Connections, SaveConnection(c, u, conn)
      PROVE  RequestsTypeOK' /\ RequestsSound'
  <2> DEFINE l == [NoLocals EXCEPT !.user = u, !.conn = conn, !.new = connections[u] = None]
  <2>1. l \in Locals /\ l.user = u /\ l.conn = conn
    BY DEF NoLocals, Locals
  <2>2. GoTo(c, "authenticated", l)
    BY <1>2 DEF SaveConnection
  <2> HIDE DEF l
  <2>3. \A x \in Locals : x.user = u /\ x.conn = conn => Fits("authenticated", x)'
    BY DEF Fits, Pcs
  <2> QED
    BY <2>1, <2>2, <2>3, Went DEF Pcs
<1>3. ASSUME NEW c \in Callers, AuthenticateForLink(c) PROVE RequestsTypeOK' /\ RequestsSound'
  <2>1. PICK u \in Users : u = loc[c].user
    BY <1>3 DEF AuthenticateForLink, Authenticated, RequestsSound
  <2>2. GoTo(c, "link", [NoLocals EXCEPT !.user = u])
    BY <1>3, <2>1 DEF AuthenticateForLink
  <2>3. Fits("link", [NoLocals EXCEPT !.user = u])'
    BY LocalsFit DEF Fits, Pcs
  <2> QED
    BY <2>2, <2>3, Went, LocalsFit DEF Pcs
<1>4. ASSUME NEW c \in Callers, NEW k \in Credentials, NEW u \in Users, NEW proofs \in Kinds,
             Issue(c, k, u, proofs)
      PROVE  RequestsTypeOK' /\ RequestsSound'
  <2>1. CASE "signature" \in proofs
    <3>1. GoTo(c, "issued", [NoLocals EXCEPT !.claim = k]) /\ SaveClaim(k, u, proofs)
      BY <1>4, <2>1 DEF Issue
    <3>2. claims'[k].row = "saved" /\ claims'[k].proofs = proofs
      BY <3>1, RowAdded
    <3>3. Offers({k})'
      BY <2>1, <3>2 DEF Offers, Provable
    <3>4. Fits("issued", [NoLocals EXCEPT !.claim = k])'
      BY <3>3, LocalsFit DEF Fits, Pcs
    <3> QED
      BY <3>1, <3>4, Went, LocalsFit DEF Pcs
  <2>2. CASE "signature" \notin proofs
    BY <1>1, <1>4, <2>2 DEF Issue
  <2> QED
    BY <2>1, <2>2
<1>5. ASSUME NEW c \in Callers,
             Authenticate(c) \/ AnnounceClaim(c) \/ Abandon(c)
               \/ \E k \in Credentials, proofs \in Kinds : IssueByLink(c, k, proofs)
      PROVE  RequestsTypeOK' /\ RequestsSound'
  BY <1>5, Returned DEF Authenticate, AnnounceClaim, Abandon, IssueByLink
<1>6. CASE \E c \in Callers : Authentication(c) \/ Issuing(c) \/ Abandon(c)
  BY <1>2, <1>3, <1>4, <1>5, <1>6 DEF Authentication, Issuing
<1>7. CASE Administration
  BY <1>1, <1>7 DEF Administration, CreateConnection, DeleteConnection, DeleteCredentials, Revoke,
       Delete, requests
<1>8. CASE Publication
  BY <1>1, <1>8 DEF Publication, PublishState, AnnounceBatch, AnnounceState, Forget
<1>9. CASE Notification
  BY <1>1, <1>9 DEF Notification, HandleCredential, HandleConnection, HandleState, PushOffer, PushNotice,
       GiveUpNotices, Stop, Start, Take, requests
<1> QED
  BY <1>6, <1>7, <1>8, <1>9 DEF Next

-----------------------------------------------------------------------------
(* The types of the other tables, of the watcher and of the process. *)

TablesOK ==
  /\ connections \in [Users -> Connections \cup {None}]
  /\ \A u, v \in Users : connections[u] = connections[v] => u = v \/ connections[u] = None
  /\ states \in 0..MaxStates
AnnouncingOK == announcing \in Announcement
ProcessOK == up \in BOOLEAN /\ TopicsTypeOK /\ handling \in [Topics -> Work]
HistoryOK == spent \subseteq Credentials /\ due \subseteq Credentials

\* All of the types together.
TypesOK == TablesOK /\ RowsOK /\ RequestsTypeOK /\ AnnouncingOK /\ ProcessOK /\ HistoryOK

\* The parts are the invariant's types and the soundness of proofs.
LEMMA TypeParts == TypeOK /\ ProofsSound <=> TypesOK
BY TopicsType DEF TypeOK, ProofsSound, TypesOK, TablesOK, RowsOK, RowOK, RequestsTypeOK, AnnouncingOK, ProcessOK,
   HistoryOK, ClaimRow

\* A user has one connection, a connection one user, and states are counted.
LEMMA TablesCorrect ==
  ASSUME TablesOK, Next
  PROVE  TablesOK'
<1>1. ASSUME UNCHANGED <<connections, states>> PROVE TablesOK'
  BY <1>1 DEF TablesOK
<1>2. ASSUME NEW u \in Users, NEW conn \in Connections, connections[u] = None, Fresh(conn),
             connections' = [connections EXCEPT ![u] = conn], UNCHANGED states
      PROVE  TablesOK'
  BY <1>2 DEF TablesOK, Fresh
<1>3. ASSUME NEW c \in Callers, NEW u \in Users, NEW conn \in Connections, SaveConnection(c, u, conn)
      PROVE  TablesOK'
  <2>1. CASE connections[u] = None /\ Fresh(conn)
    BY <1>2, <1>3, <2>1 DEF SaveConnection
  <2>2. CASE connections[u] = conn
    BY <1>1, <1>3, <2>2 DEF SaveConnection, TablesOK
  <2> QED
    BY <1>3, <2>1, <2>2 DEF SaveConnection
<1>4. CASE \E c \in Callers : Authentication(c) \/ Issuing(c) \/ Abandon(c)
  <2>1. ASSUME NEW c \in Callers, Authenticate(c) \/ AuthenticateForLink(c) \/ Issuing(c) \/ Abandon(c)
        PROVE  TablesOK'
    BY <1>1, <2>1 DEF Authenticate, AuthenticateForLink, Authenticated, Issuing, Issue, IssueByLink,
       AnnounceClaim, Abandon, database
  <2> QED
    BY <1>3, <1>4, <2>1 DEF Authentication
<1>5. CASE Administration
  <2>1. ASSUME NEW u \in Users, NEW conn \in Connections, CreateConnection(u, conn) PROVE TablesOK'
    BY <1>2, <2>1 DEF CreateConnection
  <2>2. ASSUME NEW u \in Users, NEW deleteCredentials \in BOOLEAN, DeleteConnection(u, deleteCredentials)
        PROVE  TablesOK'
    BY <2>2 DEF DeleteConnection, TablesOK
  <2> QED
    BY <1>1, <1>5, <2>1, <2>2 DEF Administration, DeleteCredentials, Revoke, Delete
<1>6. CASE PublishState
  <2>1. states' = states + 1 /\ states < MaxStates /\ UNCHANGED connections
    BY <1>6 DEF PublishState
  <2>2. states' \in 0..MaxStates
    BY <2>1, MaxStatesAssumption DEF TablesOK
  <2> QED
    BY <2>1, <2>2 DEF TablesOK
<1>7. CASE Publication
  BY <1>1, <1>6, <1>7 DEF Publication, AnnounceBatch, AnnounceState, Forget, database
<1>8. CASE Notification
  BY <1>1, <1>8 DEF Notification, HandleCredential, HandleConnection, HandleState, PushOffer, PushNotice,
       GiveUpNotices, Stop, Start, Take, database
<1> QED
  BY <1>4, <1>5, <1>7, <1>8 DEF Next

\* The watcher announces one published state and sets of credentials.
LEMMA AnnouncingCorrect ==
  ASSUME AnnouncingOK, RowsOK, TablesOK, Next
  PROVE  AnnouncingOK'
<1>1. NoAnnouncement \in Announcement
  BY DEF NoAnnouncement, Announcement
<1>2. CASE PublishState
  <2>1. states' \in StateIds /\ announcing' = [state |-> states', batches |-> ByUser(Proved)]
    BY <1>2, RowsPublished DEF TablesOK
  <2>2. ByUser(Proved) \in SUBSET SUBSET Credentials
    BY DEF ByUser, Proved, New
  <2> QED
    BY <2>1, <2>2 DEF AnnouncingOK, Announcement
<1>3. CASE AnnounceBatch
  BY <1>3 DEF AnnounceBatch, AnnouncingOK, Announcement
<1>4. CASE AnnounceState \/ Forget
  BY <1>1, <1>4 DEF AnnounceState, Forget, AnnouncingOK
<1>5. ASSUME UNCHANGED announcing PROVE AnnouncingOK'
  BY <1>5 DEF AnnouncingOK
<1>6. CASE \E c \in Callers : Authentication(c) \/ Issuing(c) \/ Abandon(c)
  BY <1>5, <1>6 DEF Authentication, SaveConnection, Authenticate, AuthenticateForLink, Authenticated, Issuing,
     Issue, IssueByLink, AnnounceClaim, Abandon
<1>7. CASE Administration
  BY <1>5, <1>7 DEF Administration, CreateConnection, DeleteConnection, DeleteCredentials, Revoke,
     Delete, requests
<1>8. CASE Notification
  BY <1>5, <1>8 DEF Notification, HandleCredential, HandleConnection, HandleState, PushOffer, PushNotice,
     GiveUpNotices, Stop, Start, Take, requests
<1> QED
  BY <1>2, <1>3, <1>4, <1>6, <1>7, <1>8 DEF Next, Publication

\* A message that nobody hears changes no topic, one that is published has its topic's type.
LEMMA PublishedType ==
  ASSUME TopicsTypeOK, NEW topic \in Topics, NEW m \in Messages(topic), NEW creds \in SUBSET Credentials,
         Publish(topic, m) \/ Lose(creds), spent \subseteq Credentials
  PROVE  TopicsTypeOK' /\ spent' \subseteq Credentials
<1>1. CASE Publish(topic, m)
  <2>1. TopicsTypeOK' /\ UNCHANGED spent
    BY <1>1, Published
  <2> QED
    BY <2>1
<1>2. CASE Lose(creds)
  BY <1>2 DEF Lose, TopicsTypeOK
<1> QED
  BY <1>1, <1>2

\* The type of the work a goroutine takes up.
LEMMA TakenType ==
  ASSUME ProcessOK, NEW topic \in Topics, NEW work \in Work, Take(topic, work)
  PROVE  ProcessOK'
<1>1. TopicsTypeOK' /\ handling' \in [Topics -> Work]
  <2>1. TopicsTypeOK'
    BY Taken DEF ProcessOK
  <2>2. NoWork \in Work
    BY DEF NoWork, Work
  <2> QED
    BY <2>1, <2>2 DEF Take, ProcessOK
<1> QED
  BY <1>1 DEF Take, ProcessOK

\* What the events and the goroutines stand for are credentials.
LEMMA StandsFor ==
  ASSUME ProcessOK
  PROVE  /\ \A u \in Users : GetAll(u) \subseteq Credentials /\ OfUser(u) \subseteq Credentials
         /\ \A conn : HeldBy(conn) \subseteq Credentials
         /\ \A s : GetRevoked(s) \subseteq Credentials
         /\ \A topic \in Topics : handling[topic].creds \subseteq Credentials
         /\ UNION Received("credential") \subseteq Credentials
<1>1. \A topic \in Topics : handling[topic].creds \subseteq Credentials
  BY DEF ProcessOK, Work
<1>2. UNION Received("credential") \subseteq Credentials
  <2>1. topics["credential"] \in Seq(SUBSET Credentials)
    BY TopicsType DEF ProcessOK
  <2> QED
    BY <2>1, LenProperties, ElementOfSeq DEF Received
<1> QED
  BY <1>1, <1>2 DEF GetAll, OfUser, HeldBy, GetRevoked

\* Topics hold messages of their kind, and the goroutines and histories credentials.
LEMMA ProcessCorrect ==
  ASSUME TypesOK, RequestsSound, Next
  PROVE  ProcessOK' /\ HistoryOK'
<1> USE DEF TypesOK
<1>1. ASSUME UNCHANGED process, spent' \subseteq Credentials, UNCHANGED due
      PROVE  ProcessOK' /\ HistoryOK'
  BY <1>1 DEF process, ProcessOK, HistoryOK, TopicsTypeOK
<1>2. ASSUME NEW topic \in Topics, NEW m \in Messages(topic), NEW creds \in SUBSET Credentials,
             Publish(topic, m) \/ Lose(creds), UNCHANGED <<up, handling, due>>
      PROVE  ProcessOK' /\ HistoryOK'
  BY <1>2, PublishedType DEF ProcessOK, HistoryOK
<1>3. ASSUME NEW c \in Callers, Authenticated(c) PROVE ProcessOK' /\ HistoryOK'
  <2>1. loc[c].conn \in Connections
    BY <1>3 DEF Authenticated, RequestsSound
  <2>2. HeldBy(loc[c].conn) \in SUBSET Credentials
    BY StandsFor
  <2>3. CASE loc[c].new
    <3>1. PICK m \in Messages("connection") : m = loc[c].conn
      BY <2>1 DEF Messages
    <3>2. PICK creds \in SUBSET Credentials : creds = HeldBy(loc[c].conn)
      BY <2>2
    <3>3. Publish("connection", m) \/ Lose(creds)
      BY <1>3, <2>3, <3>1, <3>2 DEF Authenticated
    <3>4. UNCHANGED <<up, handling, due>> /\ "connection" \in Topics
      BY <1>3 DEF Authenticated, Topics
    <3> QED
      BY <1>2, <3>3, <3>4
  <2>4. CASE ~ loc[c].new
    BY <1>1, <1>3, <2>4 DEF Authenticated, process, HistoryOK
  <2> QED
    BY <2>3, <2>4
<1>4. ASSUME NEW c \in Callers, AnnounceClaim(c) PROVE ProcessOK' /\ HistoryOK'
  <2>1. PICK creds \in SUBSET Credentials : creds = {loc[c].claim}
    BY <1>4 DEF AnnounceClaim, RequestsSound
  <2>2. Publish("credential", creds) \/ Lose(creds)
    BY <1>4, <2>1 DEF AnnounceClaim
  <2>3. UNCHANGED <<up, handling, due>> /\ "credential" \in Topics /\ creds \in Messages("credential")
    BY <1>4 DEF AnnounceClaim, Topics, Messages
  <2> QED
    BY <1>2, <2>2, <2>3
<1>5. ASSUME NEW c \in Callers, Abandon(c) PROVE ProcessOK' /\ HistoryOK'
  <2>1. \/ UNCHANGED spent
        \/ spent' = spent \cup HeldBy(loc[c].conn)
        \/ pc[c] = "issued" /\ spent' = spent \cup {loc[c].claim}
    <3>1. pc[c] \in {"authenticated", "issued", "link"}
      BY <1>5 DEF Abandon, RequestsTypeOK, Pcs
    <3> QED
      BY <1>5, <3>1 DEF Abandon
  <2>2. spent' \subseteq Credentials
    BY <2>1, StandsFor DEF HistoryOK, RequestsSound
  <2> QED
    BY <1>1, <1>5, <2>2 DEF Abandon
<1>6. CASE \E c \in Callers : Authentication(c) \/ Issuing(c) \/ Abandon(c)
  <2>1. ASSUME NEW c \in Callers, NEW u \in Users, NEW conn \in Connections, SaveConnection(c, u, conn)
        PROVE  ProcessOK' /\ HistoryOK'
    BY <1>1, <2>1 DEF SaveConnection, history, HistoryOK
  <2>2. ASSUME NEW c \in Callers, NEW k \in Credentials, NEW u \in Users, NEW proofs \in Kinds,
               Issue(c, k, u, proofs)
        PROVE  ProcessOK' /\ HistoryOK'
    BY <1>1, <2>2 DEF Issue, history, HistoryOK
  <2>3. ASSUME NEW c \in Callers, NEW k \in Credentials, NEW proofs \in Kinds, IssueByLink(c, k, proofs)
        PROVE  ProcessOK' /\ HistoryOK'
    BY <1>1, <2>3 DEF IssueByLink, HistoryOK
  <2> QED
    BY <1>3, <1>4, <1>5, <1>6, <2>1, <2>2, <2>3 DEF Authentication, Issuing, Authenticate, AuthenticateForLink
<1>7. CASE Administration
  BY <1>1, <1>7, StandsFor DEF Administration, CreateConnection, DeleteConnection, DeleteCredentials, Revoke,
     Delete, HistoryOK, history
<1>8. CASE Publication
  <2>1. CASE PublishState
    BY <1>1, <2>1 DEF PublishState, HistoryOK, history
  <2>2. ASSUME NEW batch \in announcing.batches, Publish("credential", batch) \/ Lose(batch),
               UNCHANGED <<up, handling, due>>
        PROVE  ProcessOK' /\ HistoryOK'
    <3>1. batch \in SUBSET Credentials
      BY DEF AnnouncingOK, Announcement
    <3>2. batch \in Messages("credential") /\ "credential" \in Topics
      BY <3>1 DEF Messages, Topics
    <3> QED
      BY <1>2, <2>2, <3>1, <3>2
  <2>3. CASE AnnounceState
    <3>1. announcing.state \in StateIds
      BY <2>3 DEF AnnounceState, AnnouncingOK, Announcement
    <3>2. PICK m \in Messages("state") : m = announcing.state
      BY <3>1 DEF Messages
    <3>3. Publish("state", m) \/ Lose({})
      BY <2>3, <3>2 DEF AnnounceState
    <3>4. TopicsTypeOK' /\ spent' \subseteq Credentials
      BY <3>3, PublishedType DEF ProcessOK, HistoryOK, Topics
    <3>5. due' \subseteq Credentials
      BY <2>3, StandsFor DEF AnnounceState, HistoryOK
    <3> QED
      BY <2>3, <3>4, <3>5 DEF AnnounceState, ProcessOK, HistoryOK
  <2>4. CASE Forget
    <3>1. spent' \subseteq Credentials
      BY <2>4 DEF Forget, HistoryOK, AnnouncingOK, Announcement
    <3> QED
      BY <1>1, <2>4, <3>1 DEF Forget
  <2> QED
    BY <1>8, <2>1, <2>2, <2>3, <2>4 DEF Publication, AnnounceBatch
<1>9. CASE Notification
  <2>1. CASE HandleCredential
    <3> DEFINE batch == Head(topics["credential"])
    <3>1. topics["credential"] \in Seq(SUBSET Credentials) /\ topics["credential"] # <<>>
      BY <2>1, TopicsType DEF HandleCredential, ProcessOK
    <3>2. batch \in SUBSET Credentials
      BY <3>1, Headed
    <3>3. NoWork \in Work /\ "credential" \in Topics
      BY DEF NoWork, Work, Topics
    <3>4. CASE \A k \in batch : Saved(k)
      <4>1. PICK u \in {claims[k].user : k \in batch} :
              Take("credential", IF connections[u] = None THEN NoWork ELSE [to |-> u, creds |-> batch])
        BY <2>1, <3>4 DEF HandleCredential
      <4>2. u \in Users \cup {None}
        BY <3>2, <4>1 DEF RowsOK, ClaimRow
      <4>3. [to |-> u, creds |-> batch] \in Work
        BY <3>2, <4>2 DEF Work
      <4>4. ProcessOK'
        BY <3>3, <4>1, <4>3, TakenType
      <4> QED
        BY <2>1, <3>4, <4>1, <4>4 DEF HandleCredential, HistoryOK, Take
    <3>5. CASE ~ \A k \in batch : Saved(k)
      <4>1. Take("credential", NoWork) /\ spent' = spent \cup batch
        BY <2>1, <3>5 DEF HandleCredential
      <4>2. ProcessOK'
        BY <3>3, <4>1, TakenType
      <4> QED
        BY <3>2, <4>1, <4>2 DEF HistoryOK, Take
    <3> QED
      BY <3>4, <3>5
  <2>2. CASE HandleConnection
    <3>1. PICK work \in Work : Take("connection", work)
      <4>1. NoWork \in Work /\ \A u \in Users : [to |-> u, creds |-> GetAll(u)] \in Work
        BY StandsFor DEF NoWork, Work
      <4> QED
        BY <2>2, <4>1 DEF HandleConnection
    <3> QED
      BY <2>2, <3>1, TakenType DEF HandleConnection, Take, Topics, HistoryOK
  <2>3. CASE HandleState
    <3>1. PICK work \in Work : Take("state", work)
      <4>1. \A s : [to |-> None, creds |-> GetRevoked(s)] \in Work
        BY StandsFor DEF Work
      <4> QED
        BY <2>3, <4>1 DEF HandleState
    <3> QED
      BY <2>3, <3>1, TakenType DEF HandleState, Take, Topics, HistoryOK
  <2>4. ASSUME NEW topic \in Topics, PushOffer(topic) PROVE ProcessOK' /\ HistoryOK'
    <3>1. NoWork \in Work
      BY DEF NoWork, Work
    <3>2. handling' \in [Topics -> Work]
      BY <2>4, <3>1 DEF PushOffer, ProcessOK
    <3> QED
      BY <2>4, <3>2, StandsFor DEF PushOffer, ProcessOK, HistoryOK, TopicsTypeOK
  <2>5. ASSUME NEW k \in Credentials, PushNotice(k) PROVE ProcessOK' /\ HistoryOK'
    <3>1. handling' \in [Topics -> Work]
      BY <2>5 DEF PushNotice, ProcessOK, Work
    <3> QED
      BY <2>5, <3>1 DEF PushNotice, ProcessOK, HistoryOK, TopicsTypeOK
  <2>6. CASE GiveUpNotices
    <3>1. NoWork \in Work
      BY DEF NoWork, Work
    <3>2. handling' \in [Topics -> Work]
      BY <2>6, <3>1 DEF GiveUpNotices, ProcessOK
    <3> QED
      BY <2>6, <3>2 DEF GiveUpNotices, ProcessOK, HistoryOK, TopicsTypeOK
  <2>7. CASE Stop
    <3>1. up' \in BOOLEAN /\ handling' \in [Topics -> Work]
      BY <2>7 DEF Stop, NoWork, Work
    <3>2. TopicsTypeOK'
      <4>1. topics' = [t \in Topics |-> <<>>] /\ \A S : <<>> \in Seq(S)
        BY <2>7, EmptySeq DEF Stop
      <4> QED
        BY <4>1 DEF TopicsTypeOK
    <3>3. spent' \subseteq Credentials
      <4>1. UNION Received("credential") \subseteq Credentials
        BY StandsFor
      <4>2. UNION {HeldBy(conn) : conn \in Received("connection")} \subseteq Credentials
        BY StandsFor
      <4>3. handling["credential"].creds \subseteq Credentials /\ handling["connection"].creds \subseteq Credentials
        BY StandsFor DEF Topics
      <4> DEFINE received == UNION Received("credential")
                 held == UNION {HeldBy(conn) : conn \in Received("connection")}
                 pushed == handling["credential"].creds \cup handling["connection"].creds
      <4>4. spent' = spent \cup received \cup held \cup pushed
        <5>1. spent' = spent \cup received \cup held \cup handling["credential"].creds
                         \cup handling["connection"].creds
          BY <2>7 DEF Stop
        <5> HIDE DEF received, held
        <5> QED
          BY <5>1
      <4>5. received \subseteq Credentials /\ held \subseteq Credentials /\ pushed \subseteq Credentials
        BY <4>1, <4>2, <4>3
      <4> HIDE DEF received, held, pushed
      <4> QED
        BY <4>4, <4>5 DEF HistoryOK
    <3>4. due' \subseteq Credentials
      BY <2>7 DEF Stop
    <3> QED
      BY <3>1, <3>2, <3>3, <3>4 DEF ProcessOK, HistoryOK
  <2>8. CASE Start
    BY <2>8 DEF Start, ProcessOK, HistoryOK, TopicsTypeOK, history
  <2> QED
    BY <1>9, <2>1, <2>2, <2>3, <2>4, <2>5, <2>6, <2>7, <2>8 DEF Notification
<1> QED
  BY <1>6, <1>7, <1>8, <1>9 DEF Next

-----------------------------------------------------------------------------
(* Messages, and what is pushed. *)

\* A topic that does not change has the same messages.
LEMMA ReceivedStays ==
  ASSUME NEW topic, topics'[topic] = topics[topic]
  PROVE  Received(topic)' = Received(topic)
BY DEF Received

\* A message about some credentials is heard, or not.
LEMMA CredentialsPublished ==
  ASSUME ProcessOK, NEW batch \in SUBSET Credentials, Publish("credential", batch) \/ Lose(batch)
  PROVE  Received("credential")' \subseteq Received("credential") \cup {batch}
<1>1. CASE Publish("credential", batch)
  BY <1>1, Published DEF ProcessOK, Topics, Messages
<1>2. CASE Lose(batch)
  BY <1>2, ReceivedStays DEF Lose
<1> QED
  BY <1>1, <1>2

\* A message about something else leaves them alone.
LEMMA OthersPublished ==
  ASSUME ProcessOK, NEW topic \in {"connection", "state"}, NEW m \in Messages(topic), NEW creds,
         Publish(topic, m) \/ Lose(creds)
  PROVE  Received("credential")' = Received("credential")
<1>1. CASE Publish(topic, m)
  BY <1>1, Published DEF ProcessOK, Topics
<1>2. CASE Lose(creds)
  BY <1>2, ReceivedStays DEF Lose
<1> QED
  BY <1>1, <1>2

\* What is announced can be offered, to one user.
LEMMA MessagesCorrect ==
  ASSUME TypesOK, RequestsSound, RowsStay, MessagesSound, Next
  PROVE  MessagesSound'
<1> USE DEF TypesOK
<1>1. ASSUME NEW batch, Offers(batch) PROVE Offers(batch)'
  BY <1>1, OffersStay
<1>2. ASSUME NEW more, Offers(more)', announcing'.batches \subseteq announcing.batches,
             Received("credential")' \subseteq Received("credential") \cup {more}
      PROVE  MessagesSound'
  <2>1. ASSUME NEW batch \in announcing'.batches \cup Received("credential")' PROVE Offers(batch)'
    <3>1. CASE batch = more
      BY <1>2, <3>1
    <3>2. CASE batch \in announcing.batches \cup Received("credential")
      BY <1>1, <3>2 DEF MessagesSound
    <3> QED
      BY <1>2, <3>1, <3>2
  <2> QED
    BY <2>1 DEF MessagesSound
<1>3. ASSUME announcing'.batches \subseteq announcing.batches,
             Received("credential")' \subseteq Received("credential")
      PROVE  MessagesSound'
  <2>1. ASSUME NEW batch \in announcing'.batches \cup Received("credential")' PROVE Offers(batch)'
    BY <1>1, <1>3 DEF MessagesSound
  <2> QED
    BY <2>1 DEF MessagesSound
<1>4. ASSUME UNCHANGED announcing, UNCHANGED topics PROVE MessagesSound'
  BY <1>3, <1>4, ReceivedStays
<1>5. ASSUME NEW c \in Callers, Authenticated(c), UNCHANGED announcing PROVE MessagesSound'
  <2>1. PICK m \in Messages("connection") : m = loc[c].conn
    BY <1>5 DEF Authenticated, RequestsSound, Messages
  <2>2. Received("credential")' = Received("credential")
    BY <1>5, <2>1, OthersPublished, ReceivedStays DEF Authenticated
  <2> QED
    BY <1>3, <1>5, <2>2
<1>6. ASSUME NEW c \in Callers, AnnounceClaim(c) PROVE MessagesSound'
  <2>1. PICK batch \in SUBSET Credentials : batch = {loc[c].claim} /\ Offers(batch)
    BY <1>6 DEF AnnounceClaim, RequestsSound
  <2>2. Received("credential")' \subseteq Received("credential") \cup {batch} /\ UNCHANGED announcing
    BY <1>6, <2>1, CredentialsPublished DEF AnnounceClaim
  <2>3. Offers(batch)'
    BY <1>1, <2>1
  <2> QED
    BY <1>2, <2>2, <2>3
<1>7. CASE \E c \in Callers : Authentication(c) \/ Issuing(c) \/ Abandon(c)
  BY <1>4, <1>5, <1>6, <1>7 DEF Authentication, SaveConnection, Authenticate, AuthenticateForLink, Authenticated,
     Issuing, Issue, IssueByLink, Abandon, process
<1>8. CASE Administration
  BY <1>4, <1>8 DEF Administration, CreateConnection, DeleteConnection, DeleteCredentials, Revoke,
     Delete, requests, process
<1>9. CASE Publication
  <2>1. CASE PublishState
    <3>1. /\ announcing'.batches = ByUser(Proved)
          /\ \A k \in Credentials : /\ claims'[k].user = claims[k].user
                                    /\ k \in Proved => Provable(k)'
      BY <2>1, RowsPublished DEF TablesOK
    <3>2. Received("credential")' = Received("credential")
      BY <2>1, ReceivedStays DEF PublishState, process
    <3>3. ASSUME NEW batch \in ByUser(Proved) PROVE Offers(batch)'
      <4>1. PICK u \in Users : batch = {k \in Proved : claims[k].user = u}
        BY DEF ByUser
      <4>2. ASSUME NEW k \in batch
            PROVE  k \in Credentials /\ claims'[k].row # "unused" /\ Provable(k)' /\ claims'[k].user = u
        <5>1. k \in Proved /\ k \in Credentials /\ claims[k].user = u /\ claims[k].row # "unused"
          BY <4>1 DEF Proved, New, Saved
        <5> QED
          BY <3>1, <5>1 DEF RowsStay, RowStays
      <4> QED
        BY <4>2 DEF Offers
    <3>4. ASSUME NEW batch \in announcing'.batches \cup Received("credential")' PROVE Offers(batch)'
      BY <1>1, <3>1, <3>2, <3>3 DEF MessagesSound
    <3> QED
      BY <3>4 DEF MessagesSound
  <2>2. CASE AnnounceBatch
    <3>1. PICK batch \in announcing.batches :
            /\ Publish("credential", batch) \/ Lose(batch)
            /\ announcing' = [announcing EXCEPT !.batches = @ \ {batch}]
      BY <2>2 DEF AnnounceBatch
    <3>2. batch \in SUBSET Credentials /\ announcing'.batches = announcing.batches \ {batch}
      BY <3>1 DEF AnnouncingOK, Announcement
    <3>3. Received("credential")' \subseteq Received("credential") \cup {batch}
      BY <3>1, <3>2, CredentialsPublished
    <3>4. Offers(batch)'
      BY <1>1, <3>1 DEF MessagesSound
    <3> QED
      BY <1>2, <3>2, <3>3, <3>4
  <2>3. CASE AnnounceState
    <3>1. PICK m \in Messages("state") : m = announcing.state
      BY <2>3 DEF AnnounceState, AnnouncingOK, Announcement, Messages
    <3>2. Received("credential")' = Received("credential")
      BY <2>3, <3>1, OthersPublished DEF AnnounceState
    <3> QED
      BY <1>3, <2>3, <3>2 DEF AnnounceState, NoAnnouncement
  <2>4. CASE Forget
    BY <1>3, <2>4, ReceivedStays DEF Forget, process, NoAnnouncement
  <2> QED
    BY <1>9, <2>1, <2>2, <2>3, <2>4 DEF Publication
<1>10. CASE Notification
  <2>1. ASSUME NEW topic \in Topics, NEW work, Take(topic, work) PROVE MessagesSound'
    <3>1. Received(topic)' \subseteq Received(topic) /\ \A t \in Topics \ {topic} : Received(t)' = Received(t)
      BY <2>1, Taken DEF ProcessOK
    <3>2. Received("credential")' \subseteq Received("credential")
      BY <3>1 DEF Topics
    <3> QED
      BY <1>3, <2>1, <3>2 DEF Take, requests
  <2>2. CASE HandleCredential \/ HandleConnection \/ HandleState
    BY <2>1, <2>2 DEF HandleCredential, HandleConnection, HandleState, Topics
  <2>3. CASE \/ \E topic \in Topics : PushOffer(topic)
             \/ \E k \in Credentials : PushNotice(k)
             \/ GiveUpNotices
             \/ Start
    BY <1>4, <2>3 DEF PushOffer, PushNotice, GiveUpNotices, Start, requests
  <2>4. CASE Stop
    <3>1. topics'["credential"] = <<>> /\ UNCHANGED announcing
      BY <2>4 DEF Stop, Topics, requests
    <3>2. Received("credential")' = {}
      BY <3>1, EmptySeq DEF Received
    <3> QED
      BY <1>3, <3>1, <3>2
  <2> QED
    BY <1>10, <2>2, <2>3, <2>4 DEF Notification
<1> QED
  BY <1>7, <1>8, <1>9, <1>10 DEF Next

\* A goroutine works for somebody with something to push.
Pushed(topic) == \A k \in handling[topic].creds :
  /\ claims[k].row # "unused"
  /\ claims[k].user = handling[topic].to /\ (Saved(k) => Provable(k))

\* The two topics that push offers.
LEMMA PushedParts ==
  HandlingSound /\ PushedToSubject <=> Pushed("credential") /\ Pushed("connection")
BY DEF HandlingSound, PushedToSubject, Pushed

\* What is pushed is the subject's, and can be fetched.
LEMMA PushedCorrect ==
  ASSUME TypesOK, RowsStay, MessagesSound, HandlingSound, PushedToSubject, Next
  PROVE  HandlingSound' /\ PushedToSubject'
<1> USE DEF TypesOK
<1> DEFINE Pushing == {"credential", "connection"}
<1>0. \A topic \in Pushing : topic \in Topics /\ Pushed(topic) /\ handling[topic].creds \subseteq Credentials
  BY PushedParts, StandsFor DEF Topics
<1>1. SUFFICES \A topic \in Pushing : Pushed(topic)'
  BY DEF HandlingSound, PushedToSubject, Pushed
<1>2. ASSUME NEW topic \in Pushing, handling'[topic] = handling[topic] PROVE Pushed(topic)'
  <2>1. ASSUME NEW k \in handling[topic].creds
        PROVE  /\ claims'[k].row # "unused"
               /\ claims'[k].user = handling[topic].to /\ (Saved(k)' => Provable(k)')
    <3>1. /\ k \in Credentials /\ claims[k].row # "unused" /\ claims[k].user = handling[topic].to
          /\ Saved(k) => Provable(k)
      BY <1>0 DEF Pushed
    <3>2. claims'[k].row # "unused" /\ claims'[k].user = claims[k].user
      BY <3>1 DEF RowsStay, RowStays
    <3> QED
      BY <3>1, <3>2, ProvableStays
  <2> QED
    BY <1>2, <2>1 DEF Pushed
<1>3. ASSUME NEW topic \in Pushing, handling'[topic] = NoWork PROVE Pushed(topic)'
  BY <1>3 DEF Pushed, NoWork
<1>4. CASE UNCHANGED handling
  BY <1>2, <1>4
<1>5. ASSUME NEW topic \in Topics, handling' = [handling EXCEPT ![topic] = NoWork]
      PROVE  \A t \in Pushing : Pushed(t)'
  <2>1. \A t \in Pushing : handling'[t] = handling[t] \/ handling'[t] = NoWork
    BY <1>0, <1>5 DEF ProcessOK
  <2> QED
    BY <1>2, <1>3, <2>1
<1>6. ASSUME NEW topic \in Topics, NEW work, Take(topic, work),
             topic \in Pushing => \A k \in work.creds :
               /\ claims[k].row # "unused"
               /\ claims[k].user = work.to /\ (Saved(k) => Provable(k))
      PROVE  \A t \in Pushing : Pushed(t)'
  <2>1. /\ \A t \in Topics \ {topic} : handling'[t] = handling[t]
        /\ handling'[topic] = IF work.creds = {} THEN NoWork ELSE work
    BY <1>6, Taken DEF ProcessOK
  <2>2. \A t \in Pushing \ {topic} : Pushed(t)'
    BY <1>0, <1>2, <2>1
  <2>3. ASSUME topic \in Pushing, work.creds # {} PROVE Pushed(topic)'
    <3>1. handling'[topic] = work /\ UNCHANGED claims
      BY <1>6, <2>1, <2>3 DEF Take, database
    <3>2. ASSUME NEW k \in work.creds
          PROVE  /\ claims'[k].row # "unused" /\ claims'[k].user = work.to
                 /\ Saved(k)' => Provable(k)'
      BY <1>6, <2>3, <3>1 DEF Saved, Provable
    <3> QED
      BY <3>1, <3>2 DEF Pushed
  <2> QED
    BY <1>3, <2>1, <2>2, <2>3
<1>7. CASE HandleCredential
  <2> DEFINE batch == Head(topics["credential"])
  <2>1. batch \in Received("credential")
    <3>1. PICK work : Take("credential", work)
      BY <1>7 DEF HandleCredential
    <3> QED
      BY <3>1, Taken DEF ProcessOK, Topics
  <2>2. Offers(batch)
    BY <2>1 DEF MessagesSound
  <2>3. PICK work : /\ Take("credential", work)
                    /\ \/ work = NoWork
                       \/ \E j \in batch : work = [to |-> claims[j].user, creds |-> batch]
    <3>1. CASE \A k \in batch : Saved(k)
      <4>1. PICK u \in {claims[k].user : k \in batch} :
              Take("credential", IF connections[u] = None THEN NoWork ELSE [to |-> u, creds |-> batch])
        BY <1>7, <3>1 DEF HandleCredential
      <4>2. PICK j \in batch : u = claims[j].user
        BY <4>1
      <4> QED
        BY <4>1, <4>2
    <3>2. CASE ~ \A k \in batch : Saved(k)
      BY <1>7, <3>2 DEF HandleCredential
    <3> QED
      BY <3>1, <3>2
  <2>4. \A k \in work.creds : /\ claims[k].row # "unused"
                              /\ claims[k].user = work.to /\ (Saved(k) => Provable(k))
    <3>1. CASE work = NoWork
      BY <3>1 DEF NoWork
    <3>2. ASSUME NEW j \in batch, work = [to |-> claims[j].user, creds |-> batch]
          PROVE  \A k \in work.creds : /\ claims[k].row # "unused"
                                       /\ claims[k].user = work.to /\ (Saved(k) => Provable(k))
      BY <2>2, <3>2 DEF Offers
    <3> QED
      BY <2>3, <3>1, <3>2
  <2> QED
    BY <1>6, <2>3, <2>4 DEF Topics
<1>8. CASE HandleConnection
  <2>1. PICK work : /\ Take("connection", work)
                    /\ work = NoWork \/ \E u \in Users : work = [to |-> u, creds |-> GetAll(u)]
    BY <1>8 DEF HandleConnection
  <2>2. \A k \in work.creds : /\ claims[k].row # "unused"
                              /\ claims[k].user = work.to /\ (Saved(k) => Provable(k))
    <3>1. CASE work = NoWork
      BY <3>1 DEF NoWork
    <3>2. ASSUME NEW u \in Users, work = [to |-> u, creds |-> GetAll(u)]
          PROVE  \A k \in work.creds : /\ claims[k].row # "unused"
                                       /\ claims[k].user = work.to /\ (Saved(k) => Provable(k))
      BY <3>2 DEF GetAll, OfUser, Saved
    <3> QED
      BY <2>1, <3>1, <3>2
  <2> QED
    BY <1>6, <2>1, <2>2 DEF Topics
<1>9. CASE HandleState
  <2>1. PICK work : Take("state", work)
    BY <1>9 DEF HandleState
  <2> QED
    BY <1>6, <2>1 DEF Topics
<1>10. CASE \E k \in Credentials : PushNotice(k)
  <2>1. \A t \in Pushing : handling'[t] = handling[t]
    BY <1>0, <1>10 DEF PushNotice, ProcessOK
  <2> QED
    BY <1>2, <2>1
<1>11. CASE GiveUpNotices
  BY <1>5, <1>11 DEF GiveUpNotices, Topics
<1>12. CASE \E topic \in Topics : PushOffer(topic)
  BY <1>5, <1>12 DEF PushOffer
<1>13. CASE Stop
  <2>1. \A t \in Pushing : handling'[t] = NoWork
    BY <1>0, <1>13 DEF Stop
  <2> QED
    BY <1>3, <2>1
<1>14. CASE Notification
  BY <1>4, <1>7, <1>8, <1>9, <1>10, <1>11, <1>12, <1>13, <1>14 DEF Notification, Start
<1>15. CASE \E c \in Callers : Authentication(c) \/ Issuing(c) \/ Abandon(c)
  BY <1>4, <1>15 DEF Authentication, SaveConnection, Authenticate, AuthenticateForLink, Authenticated, Issuing,
     Issue, IssueByLink, AnnounceClaim, Abandon, process
<1>16. CASE Administration
  BY <1>4, <1>16 DEF Administration, CreateConnection, DeleteConnection, DeleteCredentials, Revoke,
     Delete, process
<1>17. CASE Publication
  BY <1>4, <1>17 DEF Publication, PublishState, AnnounceBatch, AnnounceState, Forget, process
<1> QED
  BY <1>14, <1>15, <1>16, <1>17 DEF Next

-----------------------------------------------------------------------------
(* Notices. *)

\* Messages on other topics leave the states that were received.
LEMMA StatesStay ==
  ASSUME ProcessOK, NEW topic \in {"connection", "credential"}, NEW m \in Messages(topic), NEW creds,
         Publish(topic, m) \/ Lose(creds)
  PROVE  Received("state")' = Received("state")
<1>1. CASE Publish(topic, m)
  BY <1>1, Published DEF ProcessOK, Topics
<1>2. CASE Lose(creds)
  BY <1>2, ReceivedStays DEF Lose
<1> QED
  BY <1>1, <1>2

\* States received are numbers, so that a row in one of them has a state.
LEMMA ReceivedStates ==
  ASSUME ProcessOK
  PROVE  None \notin Received("state")
<1>1. topics["state"] \in Seq(StateIds)
  BY TopicsType DEF ProcessOK
<1>2. \A i \in 1..Len(topics["state"]) : topics["state"][i] \in StateIds
  BY <1>1, LenProperties, ElementOfSeq
<1>3. None \notin StateIds
  <2>1. None \notin Nat /\ StateIds \subseteq Nat
    BY NoneAssumption, MaxStatesAssumption DEF StateIds
  <2> QED
    BY <2>1
<1> QED
  BY <1>2, <1>3 DEF Received

\* What is due of one credential.
Due(k) ==
  /\ claims[k].row # "unused" /\ (Saved(k) => claims[k].revoked)
  /\ Saved(k) => claims[k].state \in Received("state") \/ k \in handling["state"].creds

\* What is due, credential by credential.
LEMMA DueParts == DueSound /\ NoNoticeForgotten <=> \A k \in due : Due(k)
BY DEF DueSound, NoNoticeForgotten, Due

\* What is due is revoked, and received or being pushed.
LEMMA DueCorrect ==
  ASSUME TypesOK, RequestsSound, RowsStay, DueSound, NoNoticeForgotten, Next
  PROVE  DueSound' /\ NoNoticeForgotten'
<1> USE DEF TypesOK
<1>0. \A k \in due : k \in Credentials /\ Due(k)
  BY DueParts DEF HistoryOK
<1>1. SUFFICES \A k \in due' : Due(k)'
  BY DEF DueSound, NoNoticeForgotten, Due
<1>2. ASSUME NEW k \in due,
             Saved(k) /\ claims[k].state \in Received("state") =>
               claims[k].state \in Received("state")' \/ k \in handling'["state"].creds,
             k \in handling["state"].creds => k \in handling'["state"].creds
      PROVE  Due(k)'
  <2>1. k \in Credentials /\ claims[k].row # "unused" /\ (Saved(k) => claims[k].revoked)
        /\ (Saved(k) => claims[k].state \in Received("state") \/ k \in handling["state"].creds)
    BY <1>0 DEF Due
  <2>2. /\ claims'[k].row # "unused"
        /\ Saved(k)' => Saved(k) /\ (claims[k].revoked => claims'[k].revoked)
                         /\ (claims[k].state # None => claims'[k].state = claims[k].state)
    BY <2>1 DEF RowsStay, RowStays, Saved
  <2>3. claims[k].state \in Received("state") => claims[k].state # None
    BY ReceivedStates
  <2>4. Saved(k)' => claims'[k].revoked
    BY <2>1, <2>2
  <2>5. Saved(k)' => claims'[k].state \in Received("state")' \/ k \in handling'["state"].creds
    BY <1>2, <2>1, <2>2, <2>3
  <2> QED
    BY <2>2, <2>4, <2>5 DEF Due
<1>3. ASSUME due' \subseteq due, Received("state") \subseteq Received("state")',
             handling'["state"].creds = handling["state"].creds
      PROVE  \A k \in due' : Due(k)'
  BY <1>2, <1>3
<1>4. ASSUME due' \subseteq due, UNCHANGED topics, handling'["state"] = handling["state"]
      PROVE  \A k \in due' : Due(k)'
  BY <1>3, <1>4, ReceivedStays
<1>5. ASSUME NEW c \in Callers, Authenticated(c) PROVE \A k \in due' : Due(k)'
  <2>1. PICK m \in Messages("connection") : m = loc[c].conn
    BY <1>5 DEF Authenticated, RequestsSound, Messages
  <2>2. Received("state")' = Received("state")
    BY <1>5, <2>1, StatesStay, ReceivedStays DEF Authenticated
  <2> QED
    BY <1>3, <1>5, <2>2 DEF Authenticated
<1>6. ASSUME NEW c \in Callers, AnnounceClaim(c) PROVE \A k \in due' : Due(k)'
  <2>1. PICK m \in Messages("credential") : m = {loc[c].claim}
    BY <1>6 DEF AnnounceClaim, RequestsSound, Messages
  <2>2. Received("state")' = Received("state")
    BY <1>6, <2>1, StatesStay DEF AnnounceClaim
  <2> QED
    BY <1>3, <1>6, <2>2 DEF AnnounceClaim
<1>7. CASE \E c \in Callers : Authentication(c) \/ Issuing(c) \/ Abandon(c)
  BY <1>4, <1>5, <1>6, <1>7 DEF Authentication, SaveConnection, Authenticate, AuthenticateForLink,
     Issuing, Issue, IssueByLink, Abandon, process, history
<1>8. CASE Administration
  BY <1>4, <1>8 DEF Administration, CreateConnection, DeleteConnection, DeleteCredentials, Revoke,
     Delete, process, history
<1>9. CASE Publication
  <2>1. CASE PublishState \/ Forget
    BY <1>4, <2>1 DEF PublishState, Forget, process, history
  <2>2. CASE AnnounceBatch
    <3>1. PICK batch \in announcing.batches : Publish("credential", batch) \/ Lose(batch)
      BY <2>2 DEF AnnounceBatch
    <3>2. batch \in Messages("credential")
      BY <3>1 DEF AnnouncingOK, Announcement, Messages
    <3>3. Received("state")' = Received("state")
      BY <3>1, <3>2, StatesStay
    <3> QED
      BY <1>3, <2>2, <3>3 DEF AnnounceBatch
  <2>3. CASE AnnounceState
    <3>1. PICK m \in Messages("state") : m = announcing.state
      BY <2>3 DEF AnnounceState, AnnouncingOK, Announcement, Messages
    <3>2. CASE Publish("state", m) /\ due' = due \cup GetRevoked(m)
      <4>1. Received("state")' = Received("state") \cup {m} /\ UNCHANGED handling /\ UNCHANGED claims
        BY <2>3, <3>2, Published DEF AnnounceState, ProcessOK, Topics, database
      <4>2. ASSUME NEW k \in due PROVE Due(k)'
        BY <1>2, <4>1
      <4>3. ASSUME NEW k \in GetRevoked(m) PROVE Due(k)'
        <5>1. Saved(k) /\ claims[k].revoked /\ claims[k].state = m
          BY DEF GetRevoked
        <5> QED
          BY <4>1, <5>1 DEF Due, Saved
      <4> QED
        BY <3>2, <4>2, <4>3
    <3>3. CASE Lose({}) /\ UNCHANGED due
      BY <1>4, <2>3, <3>3 DEF AnnounceState, Lose
    <3> QED
      BY <2>3, <3>1, <3>2, <3>3 DEF AnnounceState
  <2> QED
    BY <1>9, <2>1, <2>2, <2>3 DEF Publication
<1>10. CASE Notification
  <2>1. ASSUME NEW topic \in {"credential", "connection"}, NEW work, Take(topic, work)
        PROVE  \A k \in due' : Due(k)'
    <3>1. Received("state")' = Received("state") /\ handling'["state"] = handling["state"]
      BY <2>1, Taken DEF ProcessOK, Topics
    <3> QED
      BY <1>3, <2>1, <3>1 DEF Take
  <2>2. CASE HandleCredential \/ HandleConnection
    BY <2>1, <2>2 DEF HandleCredential, HandleConnection
  <2>3. CASE HandleState
    <3> DEFINE s == Head(topics["state"])
               work == [to |-> None, creds |-> GetRevoked(s)]
    <3>1. Take("state", work)
      BY <2>3 DEF HandleState
    <3>2. /\ Received("state") = Received("state")' \cup {s}
          /\ handling["state"].creds = {} /\ handling'["state"].creds = work.creds
      BY <3>1, Taken DEF ProcessOK, Topics
    <3>3. handling'["state"].creds = GetRevoked(s)
      BY <3>2
    <3>4. UNCHANGED due
      BY <3>1 DEF Take
    <3>5. ASSUME NEW k \in due, Saved(k), claims[k].state = s PROVE k \in GetRevoked(s)
      BY <1>0, <3>5 DEF Due, GetRevoked
    <3> QED
      BY <1>2, <3>2, <3>3, <3>4, <3>5
  <2>4. CASE \E topic \in Topics : PushOffer(topic)
    BY <1>4, <2>4 DEF PushOffer, ProcessOK
  <2>5. ASSUME NEW j \in Credentials, PushNotice(j) PROVE \A k \in due' : Due(k)'
    <3>1. /\ due' = due \ {j} /\ handling'["state"].creds = handling["state"].creds \ {j}
          /\ UNCHANGED topics
      BY <2>5 DEF PushNotice, ProcessOK, Work, Topics
    <3>2. Received("state")' = Received("state")
      BY <3>1, ReceivedStays
    <3> QED
      BY <1>2, <3>1, <3>2
  <2>6. CASE GiveUpNotices
    <3>1. /\ due' = due \ handling["state"].creds /\ UNCHANGED topics
      BY <2>6 DEF GiveUpNotices
    <3>2. Received("state")' = Received("state")
      BY <3>1, ReceivedStays
    <3> QED
      BY <1>2, <3>1, <3>2
  <2>7. CASE Stop
    BY <2>7 DEF Stop
  <2>8. CASE Start
    BY <1>4, <2>8 DEF Start, history
  <2> QED
    BY <1>10, <2>2, <2>3, <2>4, <2>5, <2>6, <2>7, <2>8 DEF Notification
<1> QED
  BY <1>7, <1>8, <1>9, <1>10 DEF Next

-----------------------------------------------------------------------------
(* Offers. *)

\* An offer that somebody should get, and where it may be.
Owed(k) == Saved(k) /\ Provable(k) /\ connections[claims[k].user] # None
Requested(k) == \E c \in Callers : pc[c] = "issued" /\ loc[c].claim = k
Announced(k) == \E batch \in announcing.batches \cup Received("credential") : k \in batch
InHand(k) == \E topic \in {"credential", "connection"} : k \in handling[topic].creds
Joining(conn) == \E c \in Callers : pc[c] = "authenticated" /\ loc[c].new /\ loc[c].conn = conn

Found(k) ==
  \/ k \in spent
  \/ Requested(k) \/ Announced(k) \/ InHand(k)
  \/ Joining(connections[claims[k].user])
  \/ connections[claims[k].user] \in Received("connection")

\* The property, credential by credential and place by place.
LEMMA OfferParts == NoOfferForgotten <=> \A k \in Credentials : Owed(k) => Found(k)
BY DEF NoOfferForgotten, Owed, Found, ClaimOnItsWay, ConnectionOnItsWay, Requested, Announced, InHand, Joining

\* When a request goes on, the others stay where they are.
LEMMA OthersWait ==
  ASSUME RequestsTypeOK, NEW c \in Callers, NEW label, NEW l, GoTo(c, label, l)
  PROVE  /\ pc'[c] = label /\ loc'[c] = l
         /\ \A k : Requested(k) => Requested(k)' \/ (pc[c] = "issued" /\ loc[c].claim = k)
         /\ \A conn : Joining(conn) => Joining(conn)'
              \/ (pc[c] = "authenticated" /\ loc[c].new /\ loc[c].conn = conn)
<1>1. /\ pc'[c] = label /\ loc'[c] = l
      /\ \A d \in Callers \ {c} : pc'[d] = pc[d] /\ loc'[d] = loc[d]
  BY DEF GoTo, RequestsTypeOK
<1>2. ASSUME NEW k, Requested(k), ~ (pc[c] = "issued" /\ loc[c].claim = k) PROVE Requested(k)'
  <2>1. PICK d \in Callers : pc[d] = "issued" /\ loc[d].claim = k
    BY <1>2 DEF Requested
  <2>2. d # c
    BY <1>2, <2>1
  <2>3. pc'[d] = "issued" /\ loc'[d].claim = k
    BY <1>1, <2>1, <2>2
  <2> QED
    BY <2>3 DEF Requested
<1>3. ASSUME NEW conn, Joining(conn),
             ~ (pc[c] = "authenticated" /\ loc[c].new /\ loc[c].conn = conn)
      PROVE  Joining(conn)'
  <2>1. PICK d \in Callers : pc[d] = "authenticated" /\ loc[d].new /\ loc[d].conn = conn
    BY <1>3 DEF Joining
  <2>2. d # c
    BY <1>3, <2>1
  <2>3. pc'[d] = "authenticated" /\ loc'[d].new /\ loc'[d].conn = conn
    BY <1>1, <2>1, <2>2
  <2> QED
    BY <2>3 DEF Joining
<1> QED
  BY <1>1, <1>2, <1>3

\* A message is heard, or what it stands for is lost.
LEMMA PublishedOrLost ==
  ASSUME ProcessOK, NEW topic \in Topics, NEW m \in Messages(topic), NEW creds,
         Publish(topic, m) \/ Lose(creds)
  PROVE  /\ spent \subseteq spent'
         /\ \A t \in Topics : Received(t) \subseteq Received(t)'
         /\ creds \subseteq spent' \/ m \in Received(topic)'
<1>1. CASE Publish(topic, m)
  BY <1>1, Published DEF ProcessOK
<1>2. CASE Lose(creds)
  BY <1>2, ReceivedStays DEF Lose
<1> QED
  BY <1>1, <1>2

\* What was owed and is owed is found, if each place it can be in keeps it or hands it on.
LEMMA HandedOn ==
  ASSUME NEW k \in Credentials, NoOfferForgotten, Saved(k), Provable(k), Owed(k)',
         NEW u, NEW conn, u = claims[k].user, conn = connections[u],
         claims'[k].user = u, connections'[u] = conn,
         spent \subseteq spent',
         Requested(k) => Requested(k)' \/ Announced(k)' \/ k \in spent',
         Announced(k) => Announced(k)' \/ InHand(k)' \/ k \in spent',
         InHand(k) => InHand(k)' \/ k \in spent',
         Joining(conn) => Joining(conn)' \/ conn \in Received("connection")' \/ k \in spent',
         conn \in Received("connection") => conn \in Received("connection")' \/ InHand(k)' \/ k \in spent'
  PROVE  Found(k)'
<1>1. /\ Joining(conn)' => Found(k)'
      /\ conn \in Received("connection")' => Found(k)'
      /\ k \in spent' \/ Requested(k)' \/ Announced(k)' \/ InHand(k)' => Found(k)'
  BY DEF Found
<1>2. Owed(k)
  BY DEF Owed
<1>3. Found(k)
  BY <1>2, OfferParts
<1> QED
  BY <1>1, <1>3 DEF Found

\* A step of no request leaves the requests where they are.
LEMMA RequestsWait ==
  ASSUME UNCHANGED <<pc, loc>>
  PROVE  /\ \A k : Requested(k)' <=> Requested(k)
         /\ \A conn : Joining(conn)' <=> Joining(conn)
BY DEF Requested, Joining

\* Nor does a step of no goroutine and no publisher change what is on its way through them.
LEMMA ProcessWaits ==
  ASSUME UNCHANGED <<topics, handling, announcing>>
  PROVE  /\ \A k : (Announced(k)' <=> Announced(k)) /\ (InHand(k)' <=> InHand(k))
         /\ Received("connection")' = Received("connection")
BY ReceivedStays DEF Announced, InHand

\* The issuer's administration takes away what is owed, or keeps it.
LEMMA OffersAdministered ==
  ASSUME TypesOK, NoOfferForgotten, Administration, NEW k \in Credentials, Owed(k)'
  PROVE  Found(k)'
<1> USE DEF TypesOK
<1>1. /\ \A j : (Requested(j)' <=> Requested(j)) /\ (Announced(j)' <=> Announced(j)) /\ (InHand(j)' <=> InHand(j))
      /\ \A conn : Joining(conn)' <=> Joining(conn)
      /\ Received("connection")' = Received("connection")
  BY RequestsWait, ProcessWaits DEF Administration, CreateConnection, DeleteConnection, DeleteCredentials, Revoke,
     Delete, requests, process
<1>2. ASSUME Saved(k), Provable(k), claims'[k].user = claims[k].user,
             connections'[claims[k].user] = connections[claims[k].user], spent \subseteq spent'
      PROVE  Found(k)'
  <2>1. PICK u : u = claims[k].user
    OBVIOUS
  <2>2. PICK conn : conn = connections[u]
    OBVIOUS
  <2> QED
    BY <1>1, <1>2, <2>1, <2>2, HandedOn
<1>3. Saved(k)' /\ Provable(k)' /\ connections'[claims'[k].user] # None
  BY DEF Owed
<1>4. ASSUME NEW creds \in SUBSET Credentials, \A j \in creds : Saved(j), claims' = Without(creds)
      PROVE  claims'[k] = claims[k] /\ Saved(k) /\ Provable(k)
  <2>1. claims'[k] = claims[k]
    <3>1. \A j \in creds : claims[j].row # "unused"
      BY <1>4 DEF Saved
    <3> QED
      BY <1>3, <1>4, <3>1, RowsTakenOut DEF Saved
  <2> QED
    BY <1>3, <2>1 DEF Saved, Provable
<1>5. ASSUME NEW u \in Users PROVE OfUser(u) \in SUBSET Credentials /\ \A j \in OfUser(u) : Saved(j)
  BY DEF OfUser
<1>6. ASSUME NEW u \in Users, NEW conn \in Connections, CreateConnection(u, conn) PROVE Found(k)'
  <2>1. /\ UNCHANGED claims /\ connections' = [connections EXCEPT ![u] = conn]
        /\ spent' = spent \cup {j \in OfUser(u) : Provable(j)}
    BY <1>6 DEF CreateConnection
  <2>2. Saved(k) /\ Provable(k)
    BY <1>3, <2>1 DEF Saved, Provable
  <2>3. CASE claims[k].user = u
    BY <2>1, <2>2, <2>3 DEF OfUser, Found
  <2>4. CASE claims[k].user # u
    <3>1. claims[k].user \in Users
      BY <2>2 DEF RowsOK, RowOK, ClaimRow, Saved
    <3>2. connections'[claims[k].user] = connections[claims[k].user]
      BY <2>1, <2>4, <3>1 DEF TablesOK
    <3> QED
      BY <1>2, <2>1, <2>2, <3>2
  <2> QED
    BY <2>3, <2>4
<1>7. ASSUME NEW u \in Users, NEW deleteCredentials \in BOOLEAN, DeleteConnection(u, deleteCredentials)
      PROVE  Found(k)'
  <2>1. connections' = [connections EXCEPT ![u] = None] /\ UNCHANGED spent
    BY <1>7 DEF DeleteConnection, history
  <2>2. claims'[k] = claims[k] /\ Saved(k) /\ Provable(k)
    <3>1. CASE claims' = Without(OfUser(u))
      BY <1>4, <1>5, <3>1
    <3>2. CASE UNCHANGED claims
      BY <1>3, <3>2 DEF Saved, Provable
    <3> QED
      BY <1>7, <3>1, <3>2 DEF DeleteConnection
  <2>3. claims[k].user # u
    BY <1>3, <2>1, <2>2 DEF TablesOK
  <2>4. connections'[claims[k].user] = connections[claims[k].user]
    <3>1. claims[k].user \in Users
      BY <2>2 DEF RowsOK, RowOK, ClaimRow, Saved
    <3> QED
      BY <2>1, <2>3, <3>1 DEF TablesOK
  <2> QED
    BY <1>2, <2>1, <2>2, <2>4
<1>8. ASSUME NEW u \in Users, DeleteCredentials(u) PROVE Found(k)'
  <2>1. claims'[k] = claims[k] /\ Saved(k) /\ Provable(k)
    BY <1>4, <1>5, <1>8 DEF DeleteCredentials
  <2> QED
    BY <1>2, <1>8, <2>1 DEF DeleteCredentials, history
<1>9. ASSUME NEW j \in Credentials, Delete(j) PROVE Found(k)'
  <2>1. claims'[k] = claims[k] /\ Saved(k) /\ Provable(k)
    BY <1>4, <1>9 DEF Delete
  <2> QED
    BY <1>2, <1>9, <2>1 DEF Delete, history
<1>10. ASSUME NEW j \in Credentials, Revoke(j) PROVE Found(k)'
  <2>1. Saved(k) /\ Provable(k) /\ claims'[k].user = claims[k].user
    BY <1>3, <1>10, RowRevoked
  <2> QED
    BY <1>2, <1>10, <2>1 DEF Revoke, history
<1> QED
  BY <1>6, <1>7, <1>8, <1>9, <1>10 DEF Administration

\* Requests hand what they hold to a topic, to their caller, or to a fault.
LEMMA OffersRequested ==
  ASSUME TypesOK, RequestsSound, NoOfferForgotten, NEW k \in Credentials, Owed(k)',
         NEW c \in Callers, Authentication(c) \/ Issuing(c) \/ Abandon(c)
  PROVE  Found(k)'
<1> USE DEF TypesOK
<1>1. Saved(k)' /\ Provable(k)' /\ connections'[claims'[k].user] # None
  BY DEF Owed
<1>2. ASSUME claims'[k] = claims[k]
      PROVE  Saved(k) /\ Provable(k) /\ claims[k].user \in Users /\ claims'[k].user = claims[k].user
  <2>1. Saved(k) /\ Provable(k)
    BY <1>1, <1>2 DEF Saved, Provable
  <2> QED
    BY <1>2, <2>1 DEF RowsOK, RowOK, ClaimRow, Saved
<1>3. \A batch : batch \in announcing'.batches /\ k \in batch => Announced(k)'
  BY DEF Announced
<1>4. ASSUME NEW label, NEW l, GoTo(c, label, l), UNCHANGED <<topics, handling, announcing>>,
             spent \subseteq spent', claims'[k] = claims[k],
             connections'[claims[k].user] = connections[claims[k].user],
             pc[c] = "issued" => loc[c].claim \in spent',
             pc[c] = "authenticated" /\ loc[c].new => HeldBy(loc[c].conn) \subseteq spent'
      PROVE  Found(k)'
  <2>1. PICK u : u = claims[k].user
    OBVIOUS
  <2>2. PICK conn : conn = connections[u]
    OBVIOUS
  <2>3. Requested(k) => Requested(k)' \/ k \in spent'
    BY <1>4, OthersWait
  <2>4. Joining(conn) => Joining(conn)' \/ k \in spent'
    <3>1. k \in HeldBy(conn)
      BY <1>2, <1>4, <2>1, <2>2 DEF HeldBy
    <3> QED
      BY <1>4, <3>1, OthersWait
  <2>5. /\ (Announced(k)' <=> Announced(k)) /\ (InHand(k)' <=> InHand(k))
        /\ Received("connection")' = Received("connection")
    BY <1>4, ProcessWaits
  <2> QED
    BY <1>2, <1>4, <2>1, <2>2, <2>3, <2>4, <2>5, HandedOn
<1>5. ASSUME NEW u \in Users, NEW conn \in Connections, SaveConnection(c, u, conn) PROVE Found(k)'
  <2> DEFINE new == connections[u] = None
             l == [NoLocals EXCEPT !.user = u, !.conn = conn, !.new = new]
  <2>1. /\ pc[c] = "idle" /\ UNCHANGED claims /\ UNCHANGED spent /\ UNCHANGED <<topics, handling, announcing>>
        /\ connections' = [connections EXCEPT ![u] = conn] /\ GoTo(c, "authenticated", l)
        /\ connections[u] = None \/ connections[u] = conn
    BY <1>5 DEF SaveConnection, history, process
  <2>2. claims[k].user \in Users
    BY <1>2, <2>1
  <2>3. CASE claims[k].user = u /\ connections[u] = None
    <3>1. l.new /\ l.conn = conn
      BY <2>3 DEF NoLocals
    <3>2. pc'[c] = "authenticated" /\ loc'[c] = l
      BY <2>1, OthersWait
    <3>3. Joining(conn)'
      BY <3>1, <3>2 DEF Joining
    <3>4. connections'[claims'[k].user] = conn
      BY <2>1, <2>3 DEF TablesOK
    <3> QED
      BY <3>3, <3>4 DEF Found, Joining
  <2>4. CASE ~ (claims[k].user = u /\ connections[u] = None)
    <3>1. connections'[claims[k].user] = connections[claims[k].user]
      BY <2>1, <2>2, <2>4 DEF TablesOK
    <3> HIDE DEF l
    <3> QED
      BY <1>4, <2>1, <3>1
  <2> QED
    BY <2>3, <2>4
<1>6. ASSUME Authenticated(c), NEW label, NEW l, GoTo(c, label, l) PROVE Found(k)'
  <2>1. /\ pc[c] = "authenticated" /\ UNCHANGED <<claims, connections, announcing, handling>>
        /\ loc[c].conn \in Connections
    BY <1>6 DEF Authenticated, database, RequestsSound
  <2>2. CASE ~ loc[c].new
    BY <1>4, <1>6, <2>1, <2>2 DEF Authenticated
  <2>3. CASE loc[c].new
    <3>1. PICK m \in Messages("connection") : m = loc[c].conn
      BY <2>1 DEF Messages
    <3>2. PICK creds : creds = HeldBy(m)
      OBVIOUS
    <3>3. Publish("connection", m) \/ Lose(creds)
      BY <1>6, <2>3, <3>1, <3>2 DEF Authenticated
    <3>4. /\ spent \subseteq spent'
          /\ Received("credential") \subseteq Received("credential")'
          /\ Received("connection") \subseteq Received("connection")'
          /\ creds \subseteq spent' \/ m \in Received("connection")'
      BY <3>3, PublishedOrLost DEF ProcessOK, Topics
    <3>5. PICK u : u = claims[k].user
      OBVIOUS
    <3>6. PICK conn : conn = connections[u]
      OBVIOUS
    <3>7. Saved(k) /\ Provable(k) /\ claims'[k].user = u /\ connections'[u] = conn
      BY <1>2, <2>1, <3>5, <3>6
    <3>8. Requested(k) => Requested(k)'
      BY <1>6, <2>1, OthersWait
    <3>9. Joining(conn) => Joining(conn)' \/ conn \in Received("connection")' \/ k \in spent'
      <4>1. Joining(conn) => Joining(conn)' \/ conn = m
        BY <1>6, <3>1, OthersWait
      <4>2. conn = m => k \in creds
        BY <3>2, <3>5, <3>6, <3>7 DEF HeldBy
      <4> QED
        BY <3>4, <4>1, <4>2
    <3>10. (Announced(k) => Announced(k)') /\ (InHand(k) => InHand(k)')
      BY <2>1, <3>4 DEF Announced, InHand
    <3> QED
      BY <3>4, <3>5, <3>6, <3>7, <3>8, <3>9, <3>10, HandedOn
  <2> QED
    BY <2>2, <2>3
<1>7. ASSUME NEW j \in Credentials, NEW u \in Users, NEW proofs \in Kinds, SaveClaim(j, u, proofs)
      PROVE  k # j => claims'[k] = claims[k]
  BY <1>7, RowAdded
<1>8. ASSUME NEW j \in Credentials, NEW u \in Users, NEW proofs \in Kinds, Issue(c, j, u, proofs)
      PROVE  Found(k)'
  <2>1. /\ pc[c] = "idle" /\ SaveClaim(j, u, proofs)
        /\ UNCHANGED <<connections, announcing, topics, handling, spent>>
    BY <1>8 DEF Issue, process, history
  <2>2. CASE k = j
    <3>1. claims'[k].proofs = proofs /\ ~ claims'[k].proof
      BY <2>1, <2>2, RowAdded
    <3>2. "signature" \in proofs
      BY <1>1, <3>1 DEF Provable
    <3>3. GoTo(c, "issued", [NoLocals EXCEPT !.claim = k])
      BY <1>8, <2>2, <3>2 DEF Issue
    <3>4. pc'[c] = "issued" /\ loc'[c] = [NoLocals EXCEPT !.claim = k]
      BY <3>3, OthersWait
    <3>5. loc'[c].claim = k
      BY <3>4 DEF NoLocals
    <3> QED
      BY <3>4, <3>5 DEF Found, Requested
  <2>3. CASE k # j
    <3>1. claims'[k] = claims[k]
      BY <1>7, <2>1, <2>3
    <3>2. CASE "signature" \in proofs
      <4>1. GoTo(c, "issued", [NoLocals EXCEPT !.claim = j])
        BY <1>8, <3>2 DEF Issue
      <4> QED
        BY <1>4, <2>1, <3>1, <4>1
    <3>3. CASE "signature" \notin proofs
      <4>1. UNCHANGED <<pc, loc>>
        BY <1>8, <3>3 DEF Issue
      <4>2. PICK v : v = claims[k].user
        OBVIOUS
      <4>3. PICK conn : conn = connections[v]
        OBVIOUS
      <4> QED
        BY <1>2, <2>1, <3>1, <4>1, <4>2, <4>3, RequestsWait, ProcessWaits, HandedOn
    <3> QED
      BY <3>2, <3>3
  <2> QED
    BY <2>2, <2>3
<1>9. ASSUME NEW j \in Credentials, NEW proofs \in Kinds, IssueByLink(c, j, proofs) PROVE Found(k)'
  <2>1. /\ pc[c] = "link" /\ SaveClaim(j, loc[c].user, proofs) /\ loc[c].user \in Users
        /\ UNCHANGED <<connections, announcing, topics, handling>>
        /\ spent' = IF "signature" \in proofs THEN spent \cup {j} ELSE spent
        /\ GoTo(c, "idle", NoLocals)
    BY <1>9 DEF IssueByLink, process, RequestsSound, Return
  <2>2. CASE k = j
    <3>1. claims'[k].proofs = proofs /\ ~ claims'[k].proof
      BY <2>1, <2>2, RowAdded
    <3>2. "signature" \in proofs
      BY <1>1, <3>1 DEF Provable
    <3> QED
      BY <2>1, <2>2, <3>2 DEF Found
  <2>3. CASE k # j
    <3>1. claims'[k] = claims[k]
      BY <1>7, <2>1, <2>3
    <3> QED
      BY <1>4, <2>1, <3>1
  <2> QED
    BY <2>2, <2>3
<1>10. CASE AnnounceClaim(c)
  <2>1. /\ pc[c] = "issued" /\ UNCHANGED <<claims, connections, announcing, handling>>
        /\ GoTo(c, "idle", NoLocals)
    BY <1>10 DEF AnnounceClaim, database, Return
  <2>2. PICK creds \in Messages("credential") : creds = {loc[c].claim}
    BY <2>1 DEF RequestsSound, Messages
  <2>3. /\ spent \subseteq spent'
        /\ Received("credential") \subseteq Received("credential")'
        /\ Received("connection") \subseteq Received("connection")'
        /\ creds \subseteq spent' \/ creds \in Received("credential")'
    BY <1>10, <2>2, PublishedOrLost DEF AnnounceClaim, ProcessOK, Topics
  <2>4. PICK u : u = claims[k].user
    OBVIOUS
  <2>5. PICK conn : conn = connections[u]
    OBVIOUS
  <2>6. Saved(k) /\ Provable(k) /\ claims'[k].user = u /\ connections'[u] = conn
    BY <1>2, <2>1, <2>4, <2>5
  <2>7. k \in creds => Announced(k)' \/ k \in spent'
    BY <2>3 DEF Announced
  <2>8. Requested(k) => Requested(k)' \/ Announced(k)' \/ k \in spent'
    BY <2>1, <2>2, <2>7, OthersWait
  <2>9. Joining(conn) => Joining(conn)'
    BY <2>1, OthersWait
  <2>10. (Announced(k) => Announced(k)') /\ (InHand(k) => InHand(k)')
    BY <2>1, <2>3 DEF Announced, InHand
  <2> QED
    BY <2>3, <2>4, <2>5, <2>6, <2>8, <2>9, <2>10, HandedOn
<1>11. CASE Abandon(c)
  <2>1. /\ UNCHANGED <<claims, connections, announcing, topics, handling>> /\ GoTo(c, "idle", NoLocals)
        /\ pc[c] # "idle"
    BY <1>11 DEF Abandon, database, process, Return
  <2>2. pc[c] \in {"authenticated", "issued", "link"}
    BY <2>1 DEF RequestsTypeOK, Pcs
  <2>3. /\ spent \subseteq spent'
        /\ pc[c] = "issued" => loc[c].claim \in spent'
        /\ pc[c] = "authenticated" /\ loc[c].new => HeldBy(loc[c].conn) \subseteq spent'
    BY <1>11, <2>2 DEF Abandon
  <2> QED
    BY <1>4, <2>1, <2>3
<1> QED
  BY <1>5, <1>6, <1>8, <1>9, <1>10, <1>11 DEF Authentication, Issuing, Authenticate, AuthenticateForLink, Return

\* A publication hands the offers it makes possible to the watcher, and that to the topic.
LEMMA OffersPublished ==
  ASSUME TypesOK, NoOfferForgotten, Publication, NEW k \in Credentials, Owed(k)'
  PROVE  Found(k)'
<1> USE DEF TypesOK
<1>1. Saved(k)' /\ Provable(k)' /\ connections'[claims'[k].user] # None
  BY DEF Owed
<1>2. /\ UNCHANGED <<pc, loc, handling, connections>>
      /\ \A j : (Requested(j)' <=> Requested(j)) /\ (InHand(j)' <=> InHand(j))
      /\ \A conn : Joining(conn)' <=> Joining(conn)
  <2>1. UNCHANGED <<pc, loc, handling, connections>>
    BY DEF Publication, PublishState, AnnounceBatch, AnnounceState, Forget, process, database
  <2> QED
    BY <2>1, RequestsWait DEF InHand
<1>3. ASSUME Saved(k), Provable(k), claims'[k].user = claims[k].user, spent \subseteq spent',
             Received("connection") \subseteq Received("connection")',
             Announced(k) => Announced(k)' \/ k \in spent'
      PROVE  Found(k)'
  <2>1. PICK u : u = claims[k].user
    OBVIOUS
  <2>2. PICK conn : conn = connections[u]
    OBVIOUS
  <2>3. claims'[k].user = u /\ connections'[u] = conn
    BY <1>2, <1>3, <2>1, <2>2
  <2> QED
    BY <1>2, <1>3, <2>1, <2>2, <2>3, HandedOn
<1>4. CASE PublishState
  <2>1. /\ announcing'.batches = ByUser(Proved) /\ (Saved(k)' <=> Saved(k))
        /\ claims'[k].user = claims[k].user
        /\ Provable(k)' => Provable(k) \/ k \in Proved
    BY <1>4, RowsPublished DEF TablesOK
  <2>2. UNCHANGED <<topics, spent>> /\ announcing.batches = {}
    BY <1>4 DEF PublishState, process, history, NoAnnouncement
  <2>3. Received("connection")' = Received("connection") /\ Received("credential")' = Received("credential")
    BY <2>2, ReceivedStays
  <2>4. CASE k \in Proved
    <3>1. PICK u \in Users : claims[k].user = u
      <4>1. Saved(k) /\ k \in Credentials
        BY <2>4 DEF Proved, New
      <4> QED
        BY <4>1 DEF RowsOK, RowOK, ClaimRow, Saved
    <3>2. PICK batch : batch = {j \in Proved : claims[j].user = u}
      OBVIOUS
    <3>3. k \in batch /\ batch \in ByUser(Proved)
      BY <2>4, <3>1, <3>2 DEF ByUser
    <3> QED
      BY <2>1, <3>3 DEF Found, Announced
  <2>5. CASE Provable(k)
    <3>1. Announced(k) => Announced(k)'
      BY <2>2, <2>3 DEF Announced
    <3> QED
      BY <1>1, <1>3, <2>1, <2>2, <2>3, <2>5, <3>1
  <2> QED
    BY <1>1, <2>1, <2>4, <2>5
<1>5. ASSUME UNCHANGED claims PROVE Saved(k) /\ Provable(k) /\ claims'[k].user = claims[k].user
  BY <1>1, <1>5 DEF Saved, Provable
<1>6. CASE AnnounceBatch
  <2>1. PICK batch \in announcing.batches :
          /\ Publish("credential", batch) \/ Lose(batch)
          /\ announcing' = [announcing EXCEPT !.batches = @ \ {batch}]
    BY <1>6 DEF AnnounceBatch
  <2>2. batch \in Messages("credential") /\ announcing'.batches = announcing.batches \ {batch}
    BY <2>1 DEF AnnouncingOK, Announcement, Messages
  <2>3. /\ spent \subseteq spent'
        /\ Received("credential") \subseteq Received("credential")'
        /\ Received("connection") \subseteq Received("connection")'
        /\ batch \subseteq spent' \/ batch \in Received("credential")'
    BY <2>1, <2>2, PublishedOrLost DEF ProcessOK, Topics
  <2>4. Announced(k) => Announced(k)' \/ k \in spent'
    BY <2>2, <2>3 DEF Announced
  <2> QED
    BY <1>3, <1>5, <1>6, <2>3, <2>4 DEF AnnounceBatch, database
<1>7. CASE AnnounceState
  <2>1. PICK m \in Messages("state") : m = announcing.state
    BY <1>7 DEF AnnounceState, AnnouncingOK, Announcement, Messages
  <2>2. /\ spent \subseteq spent'
        /\ Received("credential") \subseteq Received("credential")'
        /\ Received("connection") \subseteq Received("connection")'
    BY <1>7, <2>1, PublishedOrLost DEF AnnounceState, ProcessOK, Topics
  <2>3. Announced(k) => Announced(k)'
    BY <1>7, <2>2 DEF Announced, AnnounceState
  <2> QED
    BY <1>3, <1>5, <1>7, <2>2, <2>3 DEF AnnounceState, database
<1>8. CASE Forget
  <2>1. spent' = spent \cup UNION announcing.batches /\ UNCHANGED topics /\ UNCHANGED claims
    BY <1>8 DEF Forget, process, database
  <2>2. Received("credential")' = Received("credential") /\ Received("connection")' = Received("connection")
    BY <2>1, ReceivedStays
  <2>3. Announced(k) => Announced(k)' \/ k \in spent'
    BY <2>1, <2>2 DEF Announced
  <2> QED
    BY <1>3, <1>5, <2>1, <2>2, <2>3
<1> QED
  BY <1>4, <1>6, <1>7, <1>8 DEF Publication

\* The process hands an offer from the topic to the push, and drops it only where nobody is
\* connected or with its message.
LEMMA OffersNotified ==
  ASSUME TypesOK, MessagesSound, NoOfferForgotten, Notification, NEW k \in Credentials, Owed(k)'
  PROVE  Found(k)'
<1> USE DEF TypesOK
<1>1. UNCHANGED <<claims, connections, pc, loc, announcing>>
  BY DEF Notification, HandleCredential, HandleConnection, HandleState, PushOffer, PushNotice,
     GiveUpNotices, Stop, Start, Take, database, requests
<1>2. Saved(k) /\ Provable(k) /\ connections[claims[k].user] # None
  BY <1>1 DEF Owed, Saved, Provable
<1>3. PICK u \in Users : u = claims[k].user
  BY <1>2 DEF RowsOK, RowOK, ClaimRow, Saved
<1>4. PICK conn : conn = connections[u]
  OBVIOUS
<1>5. /\ claims'[k].user = u /\ connections'[u] = conn
      /\ (Requested(k)' <=> Requested(k)) /\ (Joining(conn)' <=> Joining(conn))
  BY <1>1, <1>3, <1>4, RequestsWait
<1>6. ASSUME spent \subseteq spent',
             Announced(k) => Announced(k)' \/ InHand(k)' \/ k \in spent',
             InHand(k) => InHand(k)' \/ k \in spent',
             conn \in Received("connection") => conn \in Received("connection")' \/ InHand(k)' \/ k \in spent'
      PROVE  Found(k)'
  BY <1>2, <1>3, <1>4, <1>5, <1>6, HandedOn
<1>7. ASSUME UNCHANGED topics, spent \subseteq spent', InHand(k) => InHand(k)' \/ k \in spent'
      PROVE  Found(k)'
  <2>1. Received("credential")' = Received("credential") /\ Received("connection")' = Received("connection")
    BY <1>7, ReceivedStays
  <2>2. Announced(k) => Announced(k)'
    BY <1>1, <2>1 DEF Announced
  <2> QED
    BY <1>6, <1>7, <2>1, <2>2
<1>8. ASSUME NEW topic \in Topics, NEW work, Take(topic, work)
      PROVE  /\ InHand(k) => InHand(k)'
             /\ Received(topic) = Received(topic)' \cup {Head(topics[topic])}
             /\ \A t \in Topics \ {topic} : Received(t)' = Received(t)
             /\ topic # "state" /\ k \in work.creds => InHand(k)'
  <2>1. /\ Received(topic) = Received(topic)' \cup {Head(topics[topic])}
        /\ \A t \in Topics \ {topic} : Received(t)' = Received(t) /\ handling'[t] = handling[t]
        /\ handling[topic].creds = {} /\ handling'[topic].creds = work.creds
    BY <1>8, Taken DEF ProcessOK
  <2> QED
    BY <2>1 DEF InHand, Topics
<1>9. CASE HandleCredential
  <2> DEFINE batch == Head(topics["credential"])
  <2>1. PICK work : /\ Take("credential", work)
                    /\ \/ batch \subseteq spent' /\ spent \subseteq spent'
                       \/ \E j \in batch :
                            /\ work = IF connections[claims[j].user] = None THEN NoWork
                                      ELSE [to |-> claims[j].user, creds |-> batch]
                            /\ UNCHANGED spent
    <3>1. CASE \A j \in batch : Saved(j)
      <4>1. PICK v \in {claims[j].user : j \in batch} :
              Take("credential", IF connections[v] = None THEN NoWork ELSE [to |-> v, creds |-> batch])
        BY <1>9, <3>1 DEF HandleCredential
      <4>2. PICK j \in batch : v = claims[j].user
        BY <4>1
      <4>3. UNCHANGED spent
        BY <1>9, <3>1 DEF HandleCredential
      <4> QED
        BY <4>1, <4>2, <4>3
    <3>2. CASE ~ \A j \in batch : Saved(j)
      BY <1>9, <3>2 DEF HandleCredential
    <3> QED
      BY <3>1, <3>2
  <2>2. /\ InHand(k) => InHand(k)'
        /\ Received("credential") = Received("credential")' \cup {batch}
        /\ Received("connection")' = Received("connection")
        /\ k \in work.creds => InHand(k)'
    BY <1>8, <2>1 DEF Topics
  <2>3. k \in batch => k \in work.creds \/ k \in spent'
    <3>1. ASSUME NEW j \in batch, k \in batch,
                 work = IF connections[claims[j].user] = None THEN NoWork
                        ELSE [to |-> claims[j].user, creds |-> batch]
          PROVE  k \in work.creds
      <4>1. claims[j].user = claims[k].user
        BY <2>2, <3>1 DEF MessagesSound, Offers
      <4>2. work = [to |-> claims[j].user, creds |-> batch]
        BY <1>2, <3>1, <4>1
      <4> QED
        BY <3>1, <4>2
    <3> QED
      BY <2>1, <3>1
  <2>4. Announced(k) => Announced(k)' \/ InHand(k)' \/ k \in spent'
    BY <1>1, <2>2, <2>3 DEF Announced
  <2>5. spent \subseteq spent'
    BY <2>1
  <2> QED
    BY <1>6, <2>2, <2>4, <2>5
<1>10. CASE HandleConnection
  <2> DEFINE head == Head(topics["connection"])
  <2>1. PICK work : /\ Take("connection", work) /\ UNCHANGED spent
                    /\ \/ \E v \in Users : connections[v] = head /\ work = [to |-> v, creds |-> GetAll(v)]
                       \/ \A v \in Users : connections[v] # head
    BY <1>10 DEF HandleConnection
  <2>2. /\ InHand(k) => InHand(k)'
        /\ Received("connection") = Received("connection")' \cup {head}
        /\ Received("credential")' = Received("credential")
        /\ k \in work.creds => InHand(k)'
    BY <1>8, <2>1 DEF Topics
  <2>3. conn = head => k \in work.creds
    <3>1. ASSUME conn = head, NEW v \in Users, connections[v] = head, work = [to |-> v, creds |-> GetAll(v)]
          PROVE  k \in work.creds
      <4>1. v = u
        BY <1>2, <1>3, <1>4, <3>1 DEF TablesOK
      <4> QED
        BY <1>2, <1>3, <3>1, <4>1 DEF GetAll, OfUser
    <3> QED
      BY <1>4, <2>1, <3>1
  <2>4. Announced(k) => Announced(k)'
    BY <1>1, <2>2 DEF Announced
  <2> QED
    BY <1>6, <2>1, <2>2, <2>3, <2>4
<1>11. CASE HandleState
  <2>1. PICK work : Take("state", work) /\ UNCHANGED spent
    BY <1>11 DEF HandleState
  <2>2. /\ InHand(k) => InHand(k)'
        /\ Received("connection")' = Received("connection")
        /\ Received("credential")' = Received("credential")
    BY <1>8, <2>1 DEF Topics
  <2>3. Announced(k) => Announced(k)'
    BY <1>1, <2>2 DEF Announced
  <2> QED
    BY <1>6, <2>1, <2>2, <2>3
<1>12. ASSUME NEW topic \in Topics, PushOffer(topic) PROVE Found(k)'
  <2>1. /\ spent' = spent \cup handling[topic].creds /\ UNCHANGED topics
        /\ \A t \in Topics \ {topic} : handling'[t] = handling[t]
    BY <1>12 DEF PushOffer, ProcessOK
  <2>2. InHand(k) => InHand(k)' \/ k \in spent'
    BY <2>1 DEF InHand, Topics
  <2> QED
    BY <1>7, <2>1, <2>2
<1>13. CASE GiveUpNotices \/ \E j \in Credentials : PushNotice(j)
  <2>1. /\ UNCHANGED <<topics, spent>>
        /\ \A t \in Topics \ {"state"} : handling'[t] = handling[t]
    BY <1>13 DEF GiveUpNotices, PushNotice, ProcessOK
  <2>2. InHand(k) => InHand(k)'
    BY <2>1 DEF InHand, Topics
  <2> QED
    BY <1>7, <2>1, <2>2
<1>14. CASE Stop
  <2> DEFINE received == UNION Received("credential")
             held == UNION {HeldBy(n) : n \in Received("connection")}
  <2>1. spent' = spent \cup received \cup held \cup handling["credential"].creds \cup handling["connection"].creds
    BY <1>14 DEF Stop
  <2>2. Announced(k) => Announced(k)' \/ k \in received
    BY <1>1 DEF Announced
  <2>3. InHand(k) => k \in handling["credential"].creds \/ k \in handling["connection"].creds
    BY DEF InHand
  <2>4. conn \in Received("connection") => k \in held
    <3>1. k \in HeldBy(conn)
      BY <1>2, <1>3, <1>4 DEF HeldBy
    <3> QED
      BY <3>1
  <2> HIDE DEF received, held
  <2> QED
    BY <1>6, <2>1, <2>2, <2>3, <2>4
<1>15. CASE Start
  <2>1. InHand(k) => InHand(k)'
    BY <1>15 DEF Start, InHand
  <2> QED
    BY <1>7, <1>15, <2>1 DEF Start, history
<1> QED
  BY <1>9, <1>10, <1>11, <1>12, <1>13, <1>14, <1>15 DEF Notification

-----------------------------------------------------------------------------
(* The theorems. *)

\* The initial state satisfies the invariant.
LEMMA InitIInv ==
  ASSUME Init
  PROVE  IInv
<1>1. NoClaim \in ClaimRow /\ NoClaim.row = "unused" /\ ~ NoClaim.proof
  BY DEF NoClaim, ClaimRow
<1>2. RowsOK
  BY <1>1 DEF Init, RowsOK, RowOK
<1>3. TablesOK /\ HistoryOK
  BY MaxStatesAssumption DEF Init, TablesOK, HistoryOK
<1>4. RequestsTypeOK /\ RequestsSound
  BY LocalsFit DEF Init, RequestsTypeOK, RequestsSound, Pcs
<1>5. AnnouncingOK /\ announcing.batches = {}
  BY DEF Init, AnnouncingOK, Announcement, NoAnnouncement
<1>6. \A t \in Topics : topics[t] = <<>> /\ Received(t) = {}
  BY EmptySeq DEF Init, Received
<1>7. ProcessOK
  <2>1. TopicsTypeOK
    BY EmptySeq, <1>6 DEF Init, TopicsTypeOK
  <2>2. handling \in [Topics -> Work]
    BY DEF Init, NoWork, Work
  <2> QED
    BY <2>1, <2>2 DEF Init, ProcessOK
<1>8. TypeOK /\ ProofsSound
  BY <1>2, <1>3, <1>4, <1>5, <1>7, TypeParts DEF TypesOK
<1>9. MessagesSound
  BY <1>5, <1>6 DEF MessagesSound, Topics
<1>10. HandlingSound /\ PushedToSubject
  BY DEF Init, HandlingSound, PushedToSubject, Topics, NoWork
<1>11. DueSound /\ NoNoticeForgotten
  BY DEF Init, DueSound, NoNoticeForgotten
<1>12. NoOfferForgotten
  BY DEF Init, NoOfferForgotten, Saved, NoClaim
<1> QED
  BY <1>4, <1>8, <1>9, <1>10, <1>11, <1>12 DEF IInv

\* Every step keeps it.
LEMMA NextIInv ==
  ASSUME IInv, Next
  PROVE  IInv'
<1>1. TypesOK /\ RequestsSound
  BY TypeParts DEF IInv
<1>2. RowsOK' /\ RowsStay
  BY <1>1, RowsCorrect DEF TypesOK, TablesOK
<1>3. RequestsTypeOK' /\ RequestsSound'
  BY <1>1, <1>2, RequestsCorrect DEF TypesOK
<1>4. TablesOK' /\ AnnouncingOK'
  BY <1>1, TablesCorrect, AnnouncingCorrect DEF TypesOK
<1>5. ProcessOK' /\ HistoryOK'
  BY <1>1, ProcessCorrect
<1>6. TypeOK' /\ ProofsSound'
  <2>1. /\ DOMAIN topics' = Topics
        /\ topics'["credential"] \in Seq(SUBSET Credentials)
        /\ topics'["connection"] \in Seq(Connections)
        /\ topics'["state"] \in Seq(StateIds)
    BY <1>5 DEF ProcessOK, TopicsTypeOK, Topics, Messages
  <2> QED
    BY <1>2, <1>3, <1>4, <1>5, <2>1 DEF TypeOK, ProofsSound, TablesOK, RowsOK, RowOK, RequestsTypeOK, AnnouncingOK,
       ProcessOK, HistoryOK
<1>7. MessagesSound'
  BY <1>1, <1>2, MessagesCorrect DEF IInv
<1>8. HandlingSound' /\ PushedToSubject'
  BY <1>1, <1>2, PushedCorrect DEF IInv
<1>9. DueSound' /\ NoNoticeForgotten'
  BY <1>1, <1>2, DueCorrect DEF IInv
<1>10. NoOfferForgotten'
  <2>1. \A k \in Credentials : Owed(k)' => Found(k)'
    BY <1>1, OffersRequested, OffersAdministered, OffersPublished, OffersNotified DEF Next, IInv
  <2> QED
    BY <2>1 DEF NoOfferForgotten, Owed, Found, ClaimOnItsWay, ConnectionOnItsWay, Requested, Announced,
       InHand, Joining
<1> QED
  BY <1>3, <1>6, <1>7, <1>8, <1>9, <1>10 DEF IInv

\* A step that changes nothing keeps it.
LEMMA StutterIInv ==
  ASSUME IInv, UNCHANGED vars
  PROVE  IInv'
<1> USE DEF vars, database, requests, process, history
<1>1. TypeOK' /\ ProofsSound'
  BY DEF IInv, TypeOK, ProofsSound
<1>2. RequestsSound' /\ MessagesSound'
  BY DEF IInv, RequestsSound, MessagesSound, Offers, Saved, Provable, Received
<1>3. HandlingSound' /\ PushedToSubject' /\ DueSound' /\ NoNoticeForgotten'
  BY DEF IInv, HandlingSound, PushedToSubject, DueSound, NoNoticeForgotten, Saved, Provable, Received
<1>4. NoOfferForgotten'
  BY DEF IInv, NoOfferForgotten, ClaimOnItsWay, ConnectionOnItsWay, Saved, Provable, Received
<1> QED
  BY <1>1, <1>2, <1>3, <1>4 DEF IInv

\* The inductive invariant holds in every reachable state.
THEOREM Invariance == Spec => []IInv
<1>1. Init => IInv
  BY InitIInv
<1>2. IInv /\ [Next]_vars => IInv'
  BY NextIInv, StutterIInv
<1> QED
  BY <1>1, <1>2, PTL DEF Spec

\* Tables, requests, topics and goroutines keep their types.
THEOREM TypeCorrect == Spec => []TypeOK
<1>1. IInv => TypeOK
  BY DEF IInv
<1> QED
  BY <1>1, Invariance, PTL

\* An offer that somebody should get is pushed or on its way, unless a named fault swallowed it.
THEOREM OffersCorrect == Spec => []NoOfferForgotten
<1>1. IInv => NoOfferForgotten
  BY DEF IInv
<1> QED
  BY <1>1, Invariance, PTL

\* Nobody is pushed another user's credential, nor one that cannot be fetched.
THEOREM PushedCorrectly == Spec => []PushedToSubject
<1>1. IInv => PushedToSubject
  BY DEF IInv
<1> QED
  BY <1>1, Invariance, PTL

\* A notice of revocation that was announced and not given up is received or being pushed.
THEOREM NoticesCorrect == Spec => []NoNoticeForgotten
<1>1. IInv => NoNoticeForgotten
  BY DEF IInv
<1> QED
  BY <1>1, Invariance, PTL

=============================================================================

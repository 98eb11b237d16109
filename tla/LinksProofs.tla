---------------------------- MODULE LinksProofs ----------------------------
(***************************************************************************)
(* What TLAPS proves of Links, for every number of links, users,           *)
(* credentials and concurrent calls, and every maximum.                    *)
(***************************************************************************)
EXTENDS Links, FiniteSetTheorems, TLAPS

-----------------------------------------------------------------------------
(* The inductive invariant. *)

\* The calls that have decided to make a credential of a link for a user.
Creating(l, u) == {c \in Callers :
  pc[c] \in {"create", "save"} /\ loc[c].link = l /\ loc[c].user = u}

\* A call that makes a credential has seen the link active, and with room.
CallsValid == \A c \in Callers :
  pc[c] \in {"create", "save"} => loc[c].active /\ HasRoom(loc[c].link, loc[c].issued)

\* A revoked credential is of no link.
CutOff == \A k \in Credentials : claims[k].revoked => claims[k].link = None

\* The credentials of a link, and the calls that may add one, are few enough.
RoomLeft == \A l \in LinkIds :
  MaxIssuance[l] # Unlimited /\ (Issued(l) # {} \/ Issuing(l) # {}) =>
    Cardinality(Issued(l)) + Cardinality(Issuing(l))
      <= MaxIssuance[l] + Cardinality(Callers) - 1

\* So are the credentials of a link for one user.
FewPerUser == \A l \in LinkIds, u \in Users :
  Cardinality(IssuedToUser(l, u)) + Cardinality(Creating(l, u)) <= Cardinality(Callers)

IInv ==
  /\ TypeOK
  /\ CallsValid
  /\ CutOff
  /\ LinkedToRow
  /\ RoomLeft
  /\ FewPerUser

-----------------------------------------------------------------------------
(* Types. *)

\* The empty values have their types.
LEMMA EmptyValues == NoLocals \in Locals /\ NoClaim \in ClaimRow
BY DEF NoLocals, Locals, NoClaim, ClaimRow

\* A call that goes on to a known point with well-typed locals keeps the types.
LEMMA GoToType ==
  ASSUME TypeOK, NEW c \in Callers, NEW label \in Pcs, NEW l \in Locals, GoTo(c, label, l),
         label # "idle" => l.link # None,
         label \in {"callback", "read", "create", "save"} => l.user # None
  PROVE  /\ pc' \in [Callers -> Pcs] /\ loc' \in [Callers -> Locals]
         /\ \A d \in Callers : pc'[d] # "idle" => loc'[d].link # None
         /\ \A d \in Callers : pc'[d] \in {"callback", "read", "create", "save"} => loc'[d].user # None
<1>1. pc' \in [Callers -> Pcs] /\ loc' \in [Callers -> Locals]
  BY DEF TypeOK, GoTo
<1>2. pc'[c] = label /\ loc'[c] = l
  BY DEF TypeOK, GoTo
<1>3. ASSUME NEW d \in Callers, d # c PROVE pc'[d] = pc[d] /\ loc'[d] = loc[d]
  BY <1>3 DEF TypeOK, GoTo
<1> QED
  BY <1>1, <1>2, <1>3 DEF TypeOK

\* So does one that returns.
LEMMA ReturnType ==
  ASSUME TypeOK, NEW c \in Callers, Return(c)
  PROVE  /\ pc' \in [Callers -> Pcs] /\ loc' \in [Callers -> Locals]
         /\ \A d \in Callers : pc'[d] # "idle" => loc'[d].link # None
         /\ \A d \in Callers : pc'[d] \in {"callback", "read", "create", "save"} => loc'[d].user # None
BY EmptyValues, GoToType DEF Return, Pcs

\* The credentials of a link are finitely many.
LEMMA IssuedFinite ==
  ASSUME NEW l
  PROVE  IsFiniteSet(Issued(l)) /\ Cardinality(Issued(l)) \in Nat
<1>1. Issued(l) \subseteq Credentials
  BY DEF Issued
<1> QED
  BY <1>1, CallersAssumption, FS_Subset, FS_CardinalityType

\* The upsert keeps the type of the table.
LEMMA SaveType ==
  ASSUME TypeOK, NEW l, NEW active \in BOOLEAN, Save(l, active)
  PROVE  links' \in [LinkIds -> LinkRow]
<1> SUFFICES ASSUME l \in LinkIds
             PROVE  [row |-> "saved", active |-> active,
                     request |-> links[l].row = "saved" /\ links[l].request] \in LinkRow
  BY DEF Save, TypeOK
<1> QED
  BY DEF LinkRow

\* Every step keeps the types.
LEMMA TypeStep ==
  ASSUME TypeOK, [Next]_vars
  PROVE  TypeOK'
<1>1. ASSUME NEW l \in LinkIds, CreateLink(l) \/ ShowLink(l) \/ Expire(l) PROVE TypeOK'
  <2>1. [row |-> "saved", active |-> TRUE, request |-> FALSE] \in LinkRow
        /\ [links[l] EXCEPT !.request = TRUE] \in LinkRow
    BY DEF TypeOK, LinkRow
  <2>2. links' \in [LinkIds -> LinkRow]
    BY <1>1, <2>1 DEF CreateLink, ShowLink, Expire, TypeOK
  <2> QED
    BY <1>1, <2>2 DEF CreateLink, ShowLink, Expire, TypeOK
<1>2. ASSUME NEW l \in LinkIds, DeleteLink(l) PROVE TypeOK'
  <2>1. ASSUME NEW k \in Credentials
        PROVE  [claims[k] EXCEPT !.link = IF @ = l THEN None ELSE @] \in ClaimRow
    BY DEF TypeOK, ClaimRow
  <2>2. claims' \in [Credentials -> ClaimRow]
    BY <1>2, <2>1 DEF DeleteLink
  <2> QED
    BY <1>2, <2>2 DEF DeleteLink, TypeOK, LinkRow
<1>3. ASSUME NEW k \in Credentials, Revoke(k) \/ DeleteCredential(k) PROVE TypeOK'
  <2>1. [claims[k] EXCEPT !.revoked = TRUE, !.link = None] \in ClaimRow
    BY DEF TypeOK, ClaimRow
  <2>2. claims' \in [Credentials -> ClaimRow]
    BY <1>3, <2>1, EmptyValues DEF Revoke, DeleteCredential, TypeOK
  <2> QED
    BY <1>3, <2>2 DEF Revoke, DeleteCredential, TypeOK
<1>4. ASSUME NEW c \in Callers, NEW l \in LinkIds, NEW active \in BOOLEAN, Activate(c, l, active)
      PROVE  TypeOK'
  <2>1. [NoLocals EXCEPT !.link = l, !.active = active] \in Locals /\ "activate" \in Pcs
    BY DEF Locals, NoLocals, Pcs
  <2>2. [NoLocals EXCEPT !.link = l, !.active = active].link # None
    BY NoneAssumption DEF NoLocals
  <2> QED
    BY <1>4, <2>1, <2>2, GoToType DEF Activate, TypeOK
<1>5. ASSUME NEW c \in Callers, CallBack(c) PROVE TypeOK'
  <2>0. loc[c] \in Locals
    BY DEF TypeOK
  <2>1. ASSUME NEW l \in LinkIds, NEW u \in Users, ProcessCallBack(c, l, u) PROVE TypeOK'
    <3>1. [NoLocals EXCEPT !.link = l, !.user = u] \in Locals /\ "callback" \in Pcs
      BY DEF Locals, NoLocals, Pcs
    <3>2. [NoLocals EXCEPT !.link = l, !.user = u].link # None
          /\ [NoLocals EXCEPT !.link = l, !.user = u].user # None
      BY NoneAssumption DEF NoLocals
    <3> QED
      BY <2>1, <3>1, <3>2, GoToType DEF ProcessCallBack, TypeOK
  <2>2. CASE ReadLink(c)
    <3> DEFINE l == [loc[c] EXCEPT !.active = links[loc[c].link].active,
                                   !.issued = Cardinality(Issued(loc[c].link))]
    <3>1. loc[c].link \in LinkIds /\ loc[c].link # None /\ loc[c].user # None
      BY <2>0, <2>2 DEF ReadLink, TypeOK, Locals
    <3>2. links[loc[c].link].active \in BOOLEAN
      BY <3>1 DEF TypeOK, LinkRow
    <3>3. l \in Locals /\ "read" \in Pcs /\ l.link = loc[c].link /\ l.user = loc[c].user
      BY <2>0, <3>2, IssuedFinite DEF Locals, Pcs
    <3> QED
      BY <2>2, <3>1, <3>3, GoToType DEF ReadLink, TypeOK
  <2>3. CASE Fetch(c)
    BY <2>3, ReturnType DEF Fetch, TypeOK
  <2>4. CASE Create(c)
    <3>1. loc[c].link # None /\ loc[c].user # None /\ "create" \in Pcs
      BY <2>4 DEF Create, TypeOK, Pcs
    <3> QED
      BY <2>0, <2>4, <3>1, GoToType DEF Create, TypeOK
  <2>5. CASE SaveLink(c)
    <3>1. loc[c].link # None /\ loc[c].user # None /\ "save" \in Pcs /\ loc[c].active \in BOOLEAN
      BY <2>0, <2>5 DEF SaveLink, TypeOK, Pcs, Locals
    <3> QED
      BY <2>0, <2>5, <3>1, GoToType, SaveType DEF SaveLink, TypeOK
  <2>6. ASSUME NEW k \in Credentials, SaveClaim(c, k) PROVE TypeOK'
    <3>1. [saved |-> TRUE, user |-> loc[c].user, link |-> loc[c].link, revoked |-> FALSE] \in ClaimRow
      BY <2>0 DEF Locals, ClaimRow
    <3> QED
      BY <2>6, <3>1, ReturnType DEF SaveClaim, TypeOK
  <2> QED
    BY <1>5, <2>1, <2>2, <2>3, <2>4, <2>5, <2>6 DEF CallBack
<1>6. ASSUME NEW c \in Callers, SaveActive(c) \/ Abandon(c) PROVE TypeOK'
  <2>1. loc[c].active \in BOOLEAN
    BY DEF TypeOK, Locals
  <2> QED
    BY <1>6, <2>1, ReturnType, SaveType DEF SaveActive, Abandon, TypeOK
<1>7. CASE UNCHANGED vars
  BY <1>7 DEF vars, TypeOK
<1> QED
  BY <1>1, <1>2, <1>3, <1>4, <1>5, <1>6, <1>7 DEF Next, IssuerCalls, CredentialCalls

-----------------------------------------------------------------------------
(* Counting. *)

\* The sets that are counted are finite.
LEMMA CountsFinite ==
  ASSUME NEW l, NEW u
  PROVE  /\ IsFiniteSet(Issued(l)) /\ IsFiniteSet(Issued(l)')
         /\ IsFiniteSet(IssuedToUser(l, u)) /\ IsFiniteSet(IssuedToUser(l, u)')
         /\ IsFiniteSet(Issuing(l)) /\ IsFiniteSet(Issuing(l)')
         /\ IsFiniteSet(Creating(l, u)) /\ IsFiniteSet(Creating(l, u)')
         /\ Cardinality(Issued(l)) \in Nat /\ Cardinality(Issued(l)') \in Nat
         /\ Cardinality(IssuedToUser(l, u)) \in Nat /\ Cardinality(IssuedToUser(l, u)') \in Nat
         /\ Cardinality(Issuing(l)) \in Nat /\ Cardinality(Issuing(l)') \in Nat
         /\ Cardinality(Creating(l, u)) \in Nat /\ Cardinality(Creating(l, u)') \in Nat
         /\ Cardinality(Callers) \in Nat
<1>1. /\ Issued(l) \in SUBSET Credentials /\ Issued(l)' \in SUBSET Credentials
      /\ IssuedToUser(l, u) \in SUBSET Credentials /\ IssuedToUser(l, u)' \in SUBSET Credentials
  BY DEF Issued, IssuedToUser
<1>2. /\ Issuing(l) \in SUBSET Callers /\ Issuing(l)' \in SUBSET Callers
      /\ Creating(l, u) \in SUBSET Callers /\ Creating(l, u)' \in SUBSET Callers
  BY DEF Issuing, Creating
<1>3. \A S \in SUBSET Credentials : IsFiniteSet(S) /\ Cardinality(S) \in Nat
  BY CallersAssumption, FS_Subset, FS_CardinalityType
<1>4. \A S \in SUBSET Callers : IsFiniteSet(S) /\ Cardinality(S) \in Nat
  BY CallersAssumption, FS_Subset, FS_CardinalityType
<1>5. IsFiniteSet(Callers) /\ Cardinality(Callers) \in Nat
  BY CallersAssumption, FS_CardinalityType
<1> QED
  BY <1>1, <1>2, <1>3, <1>4, <1>5

\* Two sets that do not grow keep what bounds the sum of their sizes.
LEMMA SumShrinks ==
  ASSUME NEW S, NEW T, NEW Sn \in SUBSET S, NEW Tn \in SUBSET T, IsFiniteSet(S), IsFiniteSet(T)
  PROVE  Cardinality(Sn) + Cardinality(Tn) <= Cardinality(S) + Cardinality(T)
<1>1. /\ Cardinality(Sn) \in Nat /\ Cardinality(S) \in Nat /\ Cardinality(Sn) <= Cardinality(S)
      /\ Cardinality(Tn) \in Nat /\ Cardinality(T) \in Nat /\ Cardinality(Tn) <= Cardinality(T)
  BY FS_Subset, FS_CardinalityType
<1> QED
  BY <1>1

\* An element that leaves one set for the other keeps the sum.
LEMMA SumMoves ==
  ASSUME NEW S, NEW T, NEW s, NEW t, IsFiniteSet(S), IsFiniteSet(T), s \notin S, t \in T
  PROVE  Cardinality(S \cup {s}) + Cardinality(T \ {t}) = Cardinality(S) + Cardinality(T)
<1>1. Cardinality(S) \in Nat /\ Cardinality(T) \in Nat
  BY FS_CardinalityType
<1>2. Cardinality(S \cup {s}) = Cardinality(S) + 1 /\ Cardinality(T \ {t}) = Cardinality(T) - 1
  BY FS_AddElement, FS_RemoveElement
<1> QED
  BY <1>1, <1>2

-----------------------------------------------------------------------------
(* The steps keep the counts. *)

\* No call comes to the points where it may add a credential, and none is added.
NoMore ==
  /\ \A c \in Callers :
       /\ pc'[c] \in {"read", "create", "save"} =>
            pc[c] \in {"read", "create", "save"} /\ loc'[c] = loc[c]
       /\ pc'[c] \in {"create", "save"} => pc[c] \in {"create", "save"}
  /\ \A k \in Credentials : claims'[k].saved /\ claims'[k].link # None =>
       claims[k].saved /\ claims'[k].link = claims[k].link /\ claims'[k].user = claims[k].user

\* Such a step keeps the bounds.
LEMMA NoMoreCounts ==
  ASSUME IInv, NoMore
  PROVE  CallsValid' /\ RoomLeft' /\ FewPerUser'
<1>1. CallsValid'
  BY DEF IInv, CallsValid, HasRoom, NoMore
<1>2. ASSUME NEW l \in LinkIds
      PROVE  Issued(l)' \in SUBSET Issued(l) /\ Issuing(l)' \in SUBSET Issuing(l)
  BY NoneAssumption DEF NoMore, Issued, Issuing, HasRoom
<1>3. ASSUME NEW l \in LinkIds, NEW u \in Users
      PROVE  /\ IssuedToUser(l, u)' \in SUBSET IssuedToUser(l, u)
             /\ Creating(l, u)' \in SUBSET Creating(l, u)
  BY NoneAssumption DEF NoMore, Issued, IssuedToUser, Creating
<1>4. RoomLeft'
  <2> SUFFICES ASSUME NEW l \in LinkIds, MaxIssuance[l] # Unlimited,
                      Issued(l)' # {} \/ Issuing(l)' # {}
               PROVE  Cardinality(Issued(l)') + Cardinality(Issuing(l)')
                        <= MaxIssuance[l] + Cardinality(Callers) - 1
    BY DEF RoomLeft
  <2>1. Cardinality(Issued(l)) + Cardinality(Issuing(l)) <= MaxIssuance[l] + Cardinality(Callers) - 1
    BY <1>2 DEF IInv, RoomLeft
  <2>2. Cardinality(Issued(l)') + Cardinality(Issuing(l)')
          <= Cardinality(Issued(l)) + Cardinality(Issuing(l))
    BY <1>2, CountsFinite, SumShrinks
  <2>3. MaxIssuance[l] \in Nat
    BY MaxAssumption
  <2> QED
    BY <2>1, <2>2, <2>3, CountsFinite
<1>5. FewPerUser'
  <2> SUFFICES ASSUME NEW l \in LinkIds, NEW u \in Users
               PROVE  Cardinality(IssuedToUser(l, u)') + Cardinality(Creating(l, u)')
                        <= Cardinality(Callers)
    BY DEF FewPerUser
  <2>1. Cardinality(IssuedToUser(l, u)) + Cardinality(Creating(l, u)) <= Cardinality(Callers)
    BY DEF IInv, FewPerUser
  <2>2. Cardinality(IssuedToUser(l, u)') + Cardinality(Creating(l, u)')
          <= Cardinality(IssuedToUser(l, u)) + Cardinality(Creating(l, u))
    BY <1>3, CountsFinite, SumShrinks
  <2> QED
    BY <2>1, <2>2, CountsFinite
<1> QED
  BY <1>1, <1>4, <1>5

\* Reading the link, a callback may add a credential when there is room for one.
LEMMA ReadLinkCounts ==
  ASSUME IInv, NEW c \in Callers, ReadLink(c)
  PROVE  CallsValid' /\ RoomLeft' /\ FewPerUser'
<1>0. TypeOK
  BY DEF IInv
<1>1. /\ pc[c] = "callback" /\ pc'[c] = "read" /\ loc'[c].link = loc[c].link
      /\ loc'[c].issued = Cardinality(Issued(loc[c].link))
  BY <1>0 DEF ReadLink, GoTo, TypeOK, Locals
<1>2. \A d \in Callers : d # c => pc'[d] = pc[d] /\ loc'[d] = loc[d]
  BY <1>0 DEF ReadLink, GoTo, TypeOK
<1>3. claims' = claims
  BY DEF ReadLink
<1>4. CallsValid'
  BY <1>1, <1>2 DEF IInv, CallsValid, HasRoom
<1>5. FewPerUser'
  <2>1. ASSUME NEW l, NEW u
        PROVE  IssuedToUser(l, u)' = IssuedToUser(l, u) /\ Creating(l, u)' = Creating(l, u)
    BY <1>1, <1>2, <1>3 DEF IssuedToUser, Issued, Creating
  <2> QED
    BY <2>1 DEF IInv, FewPerUser
<1>6. RoomLeft'
  <2> SUFFICES ASSUME NEW l \in LinkIds, MaxIssuance[l] # Unlimited,
                      Issued(l)' # {} \/ Issuing(l)' # {}
               PROVE  Cardinality(Issued(l)') + Cardinality(Issuing(l)')
                        <= MaxIssuance[l] + Cardinality(Callers) - 1
    BY DEF RoomLeft
  <2>0. Issued(l)' = Issued(l) /\ MaxIssuance[l] \in Nat
    BY <1>3, MaxAssumption DEF Issued
  <2>1. CASE l = loc[c].link /\ HasRoom(l, Cardinality(Issued(l)))
    <3>1. Cardinality(Issued(l)) < MaxIssuance[l]
      BY <2>1 DEF HasRoom
    <3>2. Issuing(l)' \in SUBSET Callers
      BY DEF Issuing
    <3>3. Cardinality(Issuing(l)') <= Cardinality(Callers)
      BY <3>2, CallersAssumption, FS_Subset
    <3> QED
      BY <2>0, <3>1, <3>3, CountsFinite
  <2>2. CASE ~ (l = loc[c].link /\ HasRoom(l, Cardinality(Issued(l))))
    <3>1. Issuing(l)' = Issuing(l)
      BY <1>1, <1>2, <2>2 DEF Issuing, HasRoom
    <3> QED
      BY <2>0, <3>1 DEF IInv, RoomLeft
  <2> QED
    BY <2>1, <2>2
<1> QED
  BY <1>4, <1>5, <1>6

\* A callback that decides to make a credential has found none of its user.
LEMMA CreateCounts ==
  ASSUME IInv, NEW c \in Callers, Create(c)
  PROVE  CallsValid' /\ RoomLeft' /\ FewPerUser'
<1>0. TypeOK
  BY DEF IInv
<1>1. /\ pc[c] = "read" /\ pc'[c] = "create" /\ loc' = loc /\ claims' = claims
      /\ \A d \in Callers : d # c => pc'[d] = pc[d]
  BY <1>0 DEF Create, GoTo, TypeOK
<1>2. CallsValid'
  BY <1>1 DEF IInv, CallsValid, Create, Validate, HasRoom
<1>3. RoomLeft'
  <2>1. ASSUME NEW l PROVE Issued(l)' = Issued(l) /\ Issuing(l)' = Issuing(l)
    BY <1>1 DEF Issued, Issuing, HasRoom
  <2> QED
    BY <2>1 DEF IInv, RoomLeft
<1>4. FewPerUser'
  <2> SUFFICES ASSUME NEW l \in LinkIds, NEW u \in Users
               PROVE  Cardinality(IssuedToUser(l, u)') + Cardinality(Creating(l, u)')
                        <= Cardinality(Callers)
    BY DEF FewPerUser
  <2>0. IssuedToUser(l, u)' = IssuedToUser(l, u)
    BY <1>1 DEF IssuedToUser, Issued
  <2>1. CASE l = loc[c].link /\ u = loc[c].user
    <3>1. IssuedToUser(l, u) = {}
      BY <2>1 DEF Create
    <3>2. Creating(l, u)' \in SUBSET Callers
      BY DEF Creating
    <3>3. Cardinality(Creating(l, u)') <= Cardinality(Callers)
      BY <3>2, CallersAssumption, FS_Subset
    <3>4. Cardinality(IssuedToUser(l, u)') = 0
      BY <2>0, <3>1, FS_EmptySet
    <3> QED
      BY <3>3, <3>4, CountsFinite
  <2>2. CASE ~ (l = loc[c].link /\ u = loc[c].user)
    <3>1. Creating(l, u)' = Creating(l, u)
      BY <1>1, <2>2 DEF Creating
    <3> QED
      BY <2>0, <3>1 DEF IInv, FewPerUser
  <2> QED
    BY <2>1, <2>2
<1> QED
  BY <1>2, <1>3, <1>4

\* A credential that is saved counts where its call counted before.
LEMMA SaveClaimCounts ==
  ASSUME IInv, NEW c \in Callers, NEW k \in Credentials, SaveClaim(c, k)
  PROVE  CallsValid' /\ RoomLeft' /\ FewPerUser'
<1>0. TypeOK
  BY DEF IInv
<1>1. pc[c] = "save" /\ pc'[c] = "idle"
  BY <1>0 DEF SaveClaim, Return, GoTo, TypeOK
<1>2. \A d \in Callers : d # c => pc'[d] = pc[d] /\ loc'[d] = loc[d]
  BY <1>0 DEF SaveClaim, Return, GoTo, TypeOK
<1>3. /\ ~ claims[k].saved /\ claims'[k].saved
      /\ claims'[k].link = loc[c].link /\ claims'[k].user = loc[c].user
      /\ \A m \in Credentials : m # k => claims'[m] = claims[m]
  BY <1>0 DEF SaveClaim, TypeOK
<1>4. HasRoom(loc[c].link, loc[c].issued)
  BY <1>1 DEF IInv, CallsValid
<1>5. CallsValid'
  BY <1>1, <1>2 DEF IInv, CallsValid, HasRoom
<1>6. RoomLeft'
  <2> SUFFICES ASSUME NEW l \in LinkIds, MaxIssuance[l] # Unlimited,
                      Issued(l)' # {} \/ Issuing(l)' # {}
               PROVE  Cardinality(Issued(l)') + Cardinality(Issuing(l)')
                        <= MaxIssuance[l] + Cardinality(Callers) - 1
    BY DEF RoomLeft
  <2>1. CASE l = loc[c].link
    <3>1. Issued(l)' = Issued(l) \cup {k} /\ k \notin Issued(l)
      BY <1>3, <2>1 DEF Issued
    <3>2. Issuing(l)' = Issuing(l) \ {c} /\ c \in Issuing(l)
      BY <1>1, <1>2, <1>4, <2>1 DEF Issuing, HasRoom
    <3>3. Cardinality(Issued(l)') + Cardinality(Issuing(l)')
            = Cardinality(Issued(l)) + Cardinality(Issuing(l))
      BY <3>1, <3>2, CountsFinite, SumMoves
    <3> QED
      BY <3>2, <3>3 DEF IInv, RoomLeft
  <2>2. CASE l # loc[c].link
    <3>1. Issued(l)' = Issued(l) /\ Issuing(l)' = Issuing(l)
      BY <1>1, <1>2, <1>3, <2>2 DEF Issued, Issuing, HasRoom
    <3> QED
      BY <3>1 DEF IInv, RoomLeft
  <2> QED
    BY <2>1, <2>2
<1>7. FewPerUser'
  <2> SUFFICES ASSUME NEW l \in LinkIds, NEW u \in Users
               PROVE  Cardinality(IssuedToUser(l, u)') + Cardinality(Creating(l, u)')
                        <= Cardinality(Callers)
    BY DEF FewPerUser
  <2>1. CASE l = loc[c].link /\ u = loc[c].user
    <3>1. IssuedToUser(l, u)' = IssuedToUser(l, u) \cup {k} /\ k \notin IssuedToUser(l, u)
      BY <1>3, <2>1 DEF IssuedToUser, Issued
    <3>2. Creating(l, u)' = Creating(l, u) \ {c} /\ c \in Creating(l, u)
      BY <1>1, <1>2, <2>1 DEF Creating
    <3>3. Cardinality(IssuedToUser(l, u)') + Cardinality(Creating(l, u)')
            = Cardinality(IssuedToUser(l, u)) + Cardinality(Creating(l, u))
      BY <3>1, <3>2, CountsFinite, SumMoves
    <3> QED
      BY <3>3 DEF IInv, FewPerUser
  <2>2. CASE ~ (l = loc[c].link /\ u = loc[c].user)
    <3>1. IssuedToUser(l, u)' = IssuedToUser(l, u) /\ Creating(l, u)' = Creating(l, u)
      BY <1>1, <1>2, <1>3, <2>2 DEF IssuedToUser, Issued, Creating
    <3> QED
      BY <3>1 DEF IInv, FewPerUser
  <2> QED
    BY <2>1, <2>2
<1> QED
  BY <1>5, <1>6, <1>7

-----------------------------------------------------------------------------
(* The invariant holds in every reachable state. *)

\* A step that moves no call towards a credential adds none.
LEMMA OthersAddNothing ==
  ASSUME IInv, [Next]_vars,
         \A c \in Callers : /\ ~ ReadLink(c) /\ ~ Create(c)
                            /\ \A k \in Credentials : ~ SaveClaim(c, k)
  PROVE  NoMore
<1>0. TypeOK
  BY DEF IInv
<1>1. CASE UNCHANGED <<claims, pc, loc>>
  BY <1>1 DEF NoMore
<1>2. ASSUME NEW l \in LinkIds, DeleteLink(l) PROVE NoMore
  <2>1. ASSUME NEW k \in Credentials
        PROVE  /\ claims'[k].saved = claims[k].saved /\ claims'[k].user = claims[k].user
               /\ claims'[k].link # None => claims'[k].link = claims[k].link
    BY <1>0, <1>2 DEF DeleteLink, TypeOK, ClaimRow
  <2> QED
    BY <1>2, <2>1 DEF DeleteLink, NoMore
<1>3. ASSUME NEW k \in Credentials, Revoke(k) \/ DeleteCredential(k) PROVE NoMore
  <2>1. claims'[k].link = None
    BY <1>0, <1>3 DEF Revoke, DeleteCredential, TypeOK, ClaimRow, NoClaim
  <2>2. \A m \in Credentials : m # k => claims'[m] = claims[m]
    BY <1>0, <1>3 DEF Revoke, DeleteCredential, TypeOK
  <2> QED
    BY <1>3, <2>1, <2>2 DEF Revoke, DeleteCredential, NoMore
<1>4. ASSUME NEW c \in Callers, NEW label, NEW l, GoTo(c, label, l), claims' = claims,
             label \in {"idle", "activate", "callback"}
      PROVE  NoMore
  BY <1>0, <1>4 DEF GoTo, TypeOK, NoMore
<1>5. ASSUME NEW c \in Callers, SaveLink(c) PROVE NoMore
  BY <1>0, <1>5 DEF SaveLink, GoTo, TypeOK, NoMore
<1>6. ASSUME NEW c \in Callers, Fetch(c) \/ SaveActive(c) \/ Abandon(c) PROVE NoMore
  BY <1>4, <1>6 DEF Fetch, SaveActive, Abandon, Return
<1>7. CASE IssuerCalls
  BY <1>1, <1>2, <1>4, <1>7 DEF IssuerCalls, CreateLink, ShowLink, Activate
<1>8. CASE \E c \in Callers : CallBack(c)
  BY <1>4, <1>5, <1>6, <1>8 DEF CallBack, ProcessCallBack
<1> QED
  BY <1>1, <1>3, <1>6, <1>7, <1>8 DEF Next, CredentialCalls, Expire, vars

\* Every step keeps the counts.
LEMMA CountStep ==
  ASSUME IInv, [Next]_vars
  PROVE  CallsValid' /\ RoomLeft' /\ FewPerUser'
<1>1. CASE \E c \in Callers : ReadLink(c)
  BY <1>1, ReadLinkCounts
<1>2. CASE \E c \in Callers : Create(c)
  BY <1>2, CreateCounts
<1>3. CASE \E c \in Callers, k \in Credentials : SaveClaim(c, k)
  BY <1>3, SaveClaimCounts
<1> QED
  BY <1>1, <1>2, <1>3, OthersAddNothing, NoMoreCounts

\* Every step keeps a link of which there are credentials, and a revoked credential off
\* any link.
LEMMA LinkStep ==
  ASSUME IInv, [Next]_vars
  PROVE  CutOff' /\ LinkedToRow'
<1>0. TypeOK
  BY DEF IInv
<1>1. CASE \E c \in Callers, k \in Credentials : SaveClaim(c, k)
  <2>1. PICK c \in Callers, k \in Credentials : SaveClaim(c, k)
    BY <1>1
  <2>2. /\ \A m \in Credentials : m # k => claims'[m] = claims[m]
        /\ claims'[k].link = loc[c].link /\ ~ claims'[k].revoked
    BY <1>0, <2>1 DEF SaveClaim, TypeOK
  <2>3. Saved(loc[c].link) /\ links' = links
    BY <2>1 DEF SaveClaim
  <2> QED
    BY <2>2, <2>3 DEF IInv, CutOff, LinkedToRow, Issued, Saved
<1>2. CASE \E l \in LinkIds : DeleteLink(l)
  <2>1. PICK l \in LinkIds : DeleteLink(l)
    BY <1>2
  <2>2. \A m \in LinkIds : m # l => links'[m] = links[m]
    BY <1>0, <2>1 DEF DeleteLink, TypeOK
  <2>3. ASSUME NEW k \in Credentials
        PROVE  /\ claims'[k].saved = claims[k].saved /\ claims'[k].revoked = claims[k].revoked
               /\ claims'[k].link = IF claims[k].link = l THEN None ELSE claims[k].link
    BY <1>0, <2>1 DEF DeleteLink, TypeOK, ClaimRow
  <2>4. CutOff'
    BY <2>3 DEF IInv, CutOff
  <2>5. LinkedToRow'
    BY <2>2, <2>3, NoneAssumption DEF IInv, LinkedToRow, Issued, Saved
  <2> QED
    BY <2>4, <2>5
<1>3. CASE \E k \in Credentials : Revoke(k) \/ DeleteCredential(k)
  <2>1. PICK k \in Credentials : Revoke(k) \/ DeleteCredential(k)
    BY <1>3
  <2>2. claims'[k].link = None /\ links' = links
    BY <1>0, <2>1 DEF Revoke, DeleteCredential, TypeOK, ClaimRow, NoClaim
  <2>3. \A m \in Credentials : m # k => claims'[m] = claims[m]
    BY <1>0, <2>1 DEF Revoke, DeleteCredential, TypeOK
  <2> QED
    BY <2>2, <2>3, NoneAssumption DEF IInv, CutOff, LinkedToRow, Issued, Saved
<1>4. ASSUME claims' = claims, \A l \in LinkIds : Saved(l) => Saved(l)'
      PROVE  CutOff' /\ LinkedToRow'
  BY <1>4 DEF IInv, CutOff, LinkedToRow, Issued
<1>5. ASSUME NEW l \in LinkIds, NEW active, Save(l, active), claims' = claims
      PROVE  CutOff' /\ LinkedToRow'
  BY <1>0, <1>4, <1>5 DEF Save, Saved, TypeOK
<1>6. CASE IssuerCalls
  <2>1. ASSUME NEW l \in LinkIds, CreateLink(l) \/ ShowLink(l) PROVE CutOff' /\ LinkedToRow'
    <3>1. \A m \in LinkIds : Saved(m) => Saved(m)'
      BY <1>0, <2>1 DEF CreateLink, ShowLink, Saved, TypeOK, LinkRow
    <3> QED
      BY <1>4, <2>1, <3>1 DEF CreateLink, ShowLink
  <2> QED
    BY <1>2, <1>4, <1>6, <2>1 DEF IssuerCalls, Activate, Saved
<1>7. ASSUME NEW c \in Callers, CallBack(c) \/ SaveActive(c) \/ Abandon(c)
      PROVE  CutOff' /\ LinkedToRow'
  <2>1. CASE SaveLink(c) \/ SaveActive(c)
    <3>1. loc[c].link \in LinkIds
      BY <1>0, <2>1 DEF SaveLink, SaveActive, TypeOK, Locals
    <3> QED
      BY <1>5, <2>1, <3>1 DEF SaveLink, SaveActive
  <2>2. CASE ~ SaveLink(c) /\ ~ SaveActive(c)
    BY <1>1, <1>4, <1>7, <2>2 DEF CallBack, ProcessCallBack, ReadLink, Fetch, Create, Abandon, Saved
  <2> QED
    BY <2>1, <2>2
<1>8. CASE (\E l \in LinkIds : Expire(l)) \/ UNCHANGED vars
  BY <1>4, <1>8 DEF Expire, vars, Saved
<1> QED
  BY <1>3, <1>6, <1>7, <1>8 DEF Next, CredentialCalls

\* The invariant holds at the start.
LEMMA InitInvariant ==
  ASSUME Init
  PROVE  IInv
<1>1. TypeOK
  BY EmptyValues DEF Init, TypeOK, LinkRow, Pcs
<1>2. CallsValid /\ CutOff
  BY DEF Init, CallsValid, CutOff, NoClaim
<1>3. ASSUME NEW l, NEW u
      PROVE  Issued(l) = {} /\ IssuedToUser(l, u) = {} /\ Issuing(l) = {} /\ Creating(l, u) = {}
  BY DEF Init, Issued, IssuedToUser, Issuing, Creating, NoClaim
<1>4. LinkedToRow /\ RoomLeft
  BY <1>3 DEF LinkedToRow, RoomLeft
<1>5. FewPerUser
  BY <1>3, FS_EmptySet, CountsFinite DEF FewPerUser
<1> QED
  BY <1>1, <1>2, <1>4, <1>5 DEF IInv

\* The inductive invariant is one.
LEMMA Invariance == Spec => []IInv
<1>1. IInv /\ [Next]_vars => IInv'
  <2>1. ASSUME IInv, [Next]_vars PROVE IInv'
    <3>1. TypeOK'
      BY <2>1, TypeStep DEF IInv
    <3> QED
      BY <2>1, <3>1, CountStep, LinkStep DEF IInv
  <2> QED
    BY <2>1
<1> QED
  BY <1>1, InitInvariant, PTL DEF Spec

-----------------------------------------------------------------------------
(* The theorems. *)

\* Links, credentials and calls always have the values they may have.
THEOREM TypeCorrect == Spec => []TypeOK
BY Invariance, PTL DEF IInv

\* A link issues at most as many credentials beyond its maximum as there are other
\* callbacks at once.
THEOREM OvershootBounded == Spec => []OvershootIsBounded
<1>1. ASSUME IInv, NEW l \in LinkIds, MaxIssuance[l] # Unlimited, Issued(l) # {}
      PROVE  Cardinality(Issued(l)) <= MaxIssuance[l] + Cardinality(Callers) - 1
  <2>1. Cardinality(Issued(l)) + Cardinality(Issuing(l)) <= MaxIssuance[l] + Cardinality(Callers) - 1
    BY <1>1 DEF IInv, RoomLeft
  <2>2. MaxIssuance[l] \in Nat
    BY <1>1, MaxAssumption
  <2>3. /\ Cardinality(Issued(l)) \in Nat /\ Cardinality(Issuing(l)) \in Nat
        /\ Cardinality(Callers) \in Nat
    BY CountsFinite
  <2> QED
    BY <2>1, <2>2, <2>3
<1>2. IInv => OvershootIsBounded
  BY <1>1 DEF OvershootIsBounded
<1> QED
  BY <1>2, Invariance, PTL

\* A user has at most one credential of a link for each callback there is at once.
THEOREM DuplicatesBounded == Spec => []DuplicatesAreBounded
<1>1. ASSUME IInv, NEW l \in LinkIds, NEW u \in Users
      PROVE  Cardinality({k \in Issued(l) : claims[k].user = u}) <= Cardinality(Callers)
  <2>1. Cardinality(IssuedToUser(l, u)) + Cardinality(Creating(l, u)) <= Cardinality(Callers)
    BY <1>1 DEF IInv, FewPerUser
  <2>2. Cardinality(IssuedToUser(l, u)) <= Cardinality(Callers)
    BY <2>1, CountsFinite
  <2> QED
    BY <2>2 DEF IssuedToUser
<1>2. IInv => DuplicatesAreBounded
  BY <1>1 DEF DuplicatesAreBounded
<1> QED
  BY <1>2, Invariance, PTL

\* What the checks of a callback are meant for, and do when callbacks come one at a time: a
\* link issues no more than its maximum, and one credential to a user.
THEOREM OneCallbackExact ==
  ASSUME \A c, d \in Callers : c = d
  PROVE  Spec => [](\A l \in LinkIds :
           /\ MaxIssuance[l] # Unlimited => Cardinality(Issued(l)) <= MaxIssuance[l]
           /\ \A u \in Users : \A j, k \in IssuedToUser(l, u) : j = k)
<1> DEFINE Exact == \A l \in LinkIds :
             /\ MaxIssuance[l] # Unlimited => Cardinality(Issued(l)) <= MaxIssuance[l]
             /\ \A u \in Users : \A j, k \in IssuedToUser(l, u) : j = k
<1>1. Cardinality(Callers) \in Nat /\ Cardinality(Callers) <= 1
  <2>1. CASE Callers = {}
    BY <2>1, FS_EmptySet
  <2>2. CASE Callers # {}
    <3>1. PICK c \in Callers : Callers = {c}
      BY <2>2
    <3> QED
      BY <3>1, FS_Singleton
  <2> QED
    BY <2>1, <2>2
<1>2. ASSUME IInv, NEW l \in LinkIds, MaxIssuance[l] # Unlimited
      PROVE  Cardinality(Issued(l)) <= MaxIssuance[l]
  <2>0. MaxIssuance[l] \in Nat /\ Cardinality(Issued(l)) \in Nat /\ Cardinality(Issuing(l)) \in Nat
    BY <1>2, MaxAssumption, CountsFinite
  <2>1. CASE Issued(l) = {}
    BY <2>0, <2>1, FS_EmptySet
  <2>2. CASE Issued(l) # {}
    BY <1>1, <1>2, <2>0, <2>2 DEF IInv, RoomLeft
  <2> QED
    BY <2>1, <2>2
<1>3. ASSUME IInv, NEW l \in LinkIds, NEW u \in Users,
             NEW j \in IssuedToUser(l, u), NEW k \in IssuedToUser(l, u)
      PROVE  j = k
  <2>1. IsFiniteSet(IssuedToUser(l, u)) /\ Cardinality(IssuedToUser(l, u)) <= 1
    BY <1>1, <1>3, CountsFinite DEF IInv, FewPerUser
  <2> QED
    BY <2>1, FS_CardinalityType, FS_EmptySet, FS_Singleton
<1>4. IInv => Exact
  BY <1>2, <1>3
<1> HIDE DEF Exact
<1>5. Spec => []Exact
  BY <1>4, Invariance, PTL
<1> QED
  BY <1>5 DEF Exact

\* Credentials count only for links in the database.
THEOREM LinkedCorrect == Spec => []LinkedToRow
BY Invariance, PTL DEF IInv

\* No callback offers a revoked credential again.
THEOREM FetchedCorrect == Spec => []FetchedIsNotRevoked
<1>1. IInv => FetchedIsNotRevoked
  BY NoneAssumption DEF IInv, CutOff, FetchedIsNotRevoked, IssuedToUser, Issued
<1> QED
  BY <1>1, Invariance, PTL

\* The three places that decide whether a link is active agree.
THEOREM ListingCorrect == Spec => []ListingAgrees
<1>1. IInv => ListingAgrees
  BY DEF IInv, TypeOK, LinkRow, ListingAgrees, Listed, Status, Validate
<1> QED
  BY <1>1, Invariance, PTL

\* A deactivated link stays inactive, unless a call that saw it active ends, or until it
\* is activated again.
THEOREM DeactivationCorrect == Spec => DeactivationHolds
<1>1. ASSUME IInv, [Next]_vars, NEW l \in LinkIds, Saved(l), ~ links[l].active,
             \A c \in Callers : ~ HoldsActive(c, l)
      PROVE  /\ ~ links'[l].active
             /\ \A c \in Callers : HoldsActive(c, l)' => pc'[c] = "activate"
             /\ \A k \in Credentials : claims'[k].link = l => claims[k].link = l
  <2>0. TypeOK
    BY <1>1 DEF IInv
  <2>1. ~ links'[l].active
    <3>1. ASSUME NEW c \in Callers, Save(loc[c].link, loc[c].active) PROVE ~ links'[l].active
      BY <1>1, <2>0, <3>1 DEF Save, HoldsActive, TypeOK
    <3>2. ASSUME NEW m \in LinkIds, CreateLink(m) \/ ShowLink(m) \/ DeleteLink(m)
          PROVE  ~ links'[l].active
      BY <1>1, <2>0, <3>2 DEF CreateLink, ShowLink, DeleteLink, Saved, TypeOK, LinkRow
    <3>3. CASE links' = links
      BY <1>1, <3>3
    <3> QED
      BY <1>1, <3>1, <3>2, <3>3 DEF Next, IssuerCalls, CredentialCalls, CallBack, SaveLink, SaveActive,
         Activate, Revoke, DeleteCredential, ProcessCallBack, ReadLink, Fetch, Create, SaveClaim,
         Abandon, Expire, vars
  <2>2. ASSUME NEW b \in Callers, HoldsActive(b, l)' PROVE pc'[b] = "activate"
    <3>1. ASSUME NEW c \in Callers, NEW label, NEW d, GoTo(c, label, d),
                 d.link = l /\ d.active => label = "activate"
          PROVE  pc'[b] = "activate"
      <4>1. pc'[c] = label /\ loc'[c] = d /\ (b # c => loc'[b] = loc[b])
        BY <2>0, <3>1 DEF GoTo, TypeOK
      <4> QED
        BY <1>1, <2>2, <3>1, <4>1 DEF HoldsActive
    <3>2. CASE loc' = loc
      BY <1>1, <2>2, <3>2 DEF HoldsActive
    <3>3. ASSUME NEW c \in Callers, NEW label, GoTo(c, label, NoLocals) \/ GoTo(c, label, loc[c])
          PROVE  pc'[b] = "activate"
      BY <1>1, <3>1, <3>3, NoneAssumption DEF NoLocals, HoldsActive
    <3>4. ASSUME NEW c \in Callers, ReadLink(c) PROVE pc'[b] = "activate"
      <4> DEFINE d == [loc[c] EXCEPT !.active = links[loc[c].link].active,
                                     !.issued = Cardinality(Issued(loc[c].link))]
      <4>1. d.link = loc[c].link /\ d.active = links[loc[c].link].active
        BY <2>0 DEF TypeOK, Locals
      <4> QED
        BY <1>1, <3>1, <3>4, <4>1 DEF ReadLink
    <3>5. ASSUME NEW c \in Callers, NEW m \in LinkIds, NEW active \in BOOLEAN, Activate(c, m, active)
          PROVE  pc'[b] = "activate"
      BY <3>1, <3>5 DEF Activate
    <3>6. ASSUME NEW c \in Callers, NEW m \in LinkIds, NEW u \in Users, ProcessCallBack(c, m, u)
          PROVE  pc'[b] = "activate"
      <4>1. ~ [NoLocals EXCEPT !.link = m, !.user = u].active
        BY DEF NoLocals
      <4> QED
        BY <3>1, <3>6, <4>1 DEF ProcessCallBack
    <3> QED
      BY <1>1, <3>2, <3>3, <3>4, <3>5, <3>6 DEF Next, IssuerCalls, CredentialCalls, CallBack, CreateLink,
         ShowLink, DeleteLink, Revoke, DeleteCredential, Fetch, Create, SaveLink, SaveClaim, SaveActive,
         Abandon, Return, Expire, vars
  <2>3. ASSUME NEW k \in Credentials, claims'[k].link = l PROVE claims[k].link = l
    <3>1. CASE claims' = claims
      BY <2>3, <3>1
    <3>2. ASSUME NEW c \in Callers, NEW m \in Credentials, SaveClaim(c, m) PROVE claims[k].link = l
      <4>1. loc[c].link # l
        BY <1>1, <3>2 DEF IInv, CallsValid, SaveClaim, HoldsActive
      <4> QED
        BY <2>0, <2>3, <3>2, <4>1 DEF SaveClaim, TypeOK
    <3>3. ASSUME NEW m \in LinkIds, DeleteLink(m) PROVE claims[k].link = l
      BY <2>0, <2>3, <3>3, NoneAssumption DEF DeleteLink, TypeOK, ClaimRow
    <3>4. ASSUME NEW m \in Credentials, Revoke(m) \/ DeleteCredential(m) PROVE claims[k].link = l
      BY <2>0, <2>3, <3>4, NoneAssumption DEF Revoke, DeleteCredential, NoClaim, TypeOK, ClaimRow
    <3> QED
      BY <1>1, <3>1, <3>2, <3>3, <3>4 DEF Next, IssuerCalls, CredentialCalls, CallBack, CreateLink, ShowLink,
         Activate, ProcessCallBack, ReadLink, Fetch, Create, SaveLink, SaveActive, Abandon, Expire, vars
  <2> QED
    BY <2>1, <2>2, <2>3
<1>2. IInv /\ [Next]_vars =>
        [\A l \in LinkIds :
          /\ Saved(l) /\ ~ links[l].active
          /\ \A c \in Callers : ~ HoldsActive(c, l)
          => /\ ~ links'[l].active
             /\ \A c \in Callers : HoldsActive(c, l)' => pc'[c] = "activate"
             /\ \A k \in Credentials : claims'[k].link = l => claims[k].link = l]_vars
  BY <1>1
<1> QED
  BY <1>2, Invariance, PTL DEF Spec, DeactivationHolds

\* A deleted link stays deleted, unless a call that read it before ends.
THEOREM DeletionCorrect == Spec => DeletionHolds
<1>1. ASSUME IInv, [Next]_vars, NEW l \in LinkIds, links[l].row = "deleted",
             \A c \in Callers : loc[c].link # l
      PROVE  links'[l].row = "deleted" /\ \A c \in Callers : loc'[c].link # l
  <2>0. TypeOK
    BY <1>1 DEF IInv
  <2>1. links'[l].row = "deleted"
    <3>1. ASSUME NEW c \in Callers, Save(loc[c].link, loc[c].active) PROVE links'[l].row = "deleted"
      BY <1>1, <2>0, <3>1 DEF Save, TypeOK
    <3>2. ASSUME NEW m \in LinkIds, CreateLink(m) \/ ShowLink(m) \/ DeleteLink(m)
          PROVE  links'[l].row = "deleted"
      BY <1>1, <2>0, <3>2 DEF CreateLink, ShowLink, DeleteLink, Saved, TypeOK, LinkRow
    <3>3. CASE links' = links
      BY <1>1, <3>3
    <3> QED
      BY <1>1, <3>1, <3>2, <3>3 DEF Next, IssuerCalls, CredentialCalls, CallBack, SaveLink, SaveActive,
         Activate, Revoke, DeleteCredential, ProcessCallBack, ReadLink, Fetch, Create, SaveClaim,
         Abandon, Expire, vars
  <2>2. ASSUME NEW b \in Callers PROVE loc'[b].link # l
    <3>1. ASSUME NEW c \in Callers, NEW label, NEW d, GoTo(c, label, d), d.link # l
          PROVE  loc'[b].link # l
      <4>1. loc'[c] = d /\ (b # c => loc'[b] = loc[b])
        BY <2>0, <3>1 DEF GoTo, TypeOK
      <4> QED
        BY <1>1, <3>1, <4>1
    <3>2. CASE loc' = loc
      BY <1>1, <3>2
    <3>3. ASSUME NEW c \in Callers, NEW label, GoTo(c, label, NoLocals) \/ GoTo(c, label, loc[c])
          PROVE  loc'[b].link # l
      BY <1>1, <3>1, <3>3, NoneAssumption DEF NoLocals
    <3>4. ASSUME NEW c \in Callers, ReadLink(c) PROVE loc'[b].link # l
      <4> DEFINE d == [loc[c] EXCEPT !.active = links[loc[c].link].active,
                                     !.issued = Cardinality(Issued(loc[c].link))]
      <4>1. d.link = loc[c].link
        BY <2>0 DEF TypeOK, Locals
      <4> QED
        BY <1>1, <3>1, <3>4, <4>1 DEF ReadLink
    <3>5. ASSUME NEW c \in Callers, NEW m \in LinkIds, NEW active \in BOOLEAN, Activate(c, m, active)
          PROVE  loc'[b].link # l
      <4>1. [NoLocals EXCEPT !.link = m, !.active = active].link # l
        BY <1>1, <3>5 DEF Activate, Saved, NoLocals
      <4> QED
        BY <3>1, <3>5, <4>1 DEF Activate
    <3>6. ASSUME NEW c \in Callers, NEW m \in LinkIds, NEW u \in Users, ProcessCallBack(c, m, u)
          PROVE  loc'[b].link # l
      <4>1. [NoLocals EXCEPT !.link = m, !.user = u].link # l
        BY <1>1, <3>6 DEF ProcessCallBack, Saved, NoLocals
      <4> QED
        BY <3>1, <3>6, <4>1 DEF ProcessCallBack
    <3> QED
      BY <1>1, <3>2, <3>3, <3>4, <3>5, <3>6 DEF Next, IssuerCalls, CredentialCalls, CallBack, CreateLink,
         ShowLink, DeleteLink, Revoke, DeleteCredential, Fetch, Create, SaveLink, SaveClaim, SaveActive,
         Abandon, Return, Expire, vars
  <2> QED
    BY <2>1, <2>2
<1>2. IInv /\ [Next]_vars =>
        [\A l \in LinkIds :
          /\ links[l].row = "deleted"
          /\ \A c \in Callers : loc[c].link # l
          => /\ links'[l].row = "deleted"
             /\ \A c \in Callers : loc'[c].link # l]_vars
  BY <1>1
<1> QED
  BY <1>2, Invariance, PTL DEF Spec, DeletionHolds

=============================================================================

------------------------------- MODULE Links -------------------------------
(***************************************************************************)
(* Credential links: an issuer publishes a link, users answer its QR code, *)
(* and each callback issues a credential of the link or finds the one the  *)
(* user has.  Callbacks, activations and deletions are broken at their     *)
(* database statements: a link is read, kept in memory while the wallet's  *)
(* proof is verified and the credential made, and then the whole row is    *)
(* written back by an upsert.                                              *)
(*                                                                         *)
(* One issuer.  The id of a deleted credential is as good as a new one.    *)
(* Left out: the schema and its checks, the subject of the credential      *)
(* (Save also stores the last user's DID in the link's copy of it), the    *)
(* offer that a callback returns, and the connection that it stores, which *)
(* the module Notifications has.                                           *)
(***************************************************************************)
EXTENDS Integers, FiniteSets

CONSTANTS
  LinkIds,      \* uuids of links
  MaxIssuance,  \* the most credentials of each link, or Unlimited
  Users,        \* DIDs of the wallets
  Credentials,  \* uuids of the credentials made for links
  Callers,      \* concurrent callbacks and calls of the issuer
  None          \* SQL's NULL

Unlimited == -1

ASSUME MaxAssumption == MaxIssuance \in [LinkIds -> Nat \cup {Unlimited}]
ASSUME CallersAssumption == IsFiniteSet(Callers) /\ IsFiniteSet(Credentials)
ASSUME NoneAssumption == None \notin LinkIds \cup Users \cup Credentials

VARIABLES
  links,    \* the table: [LinkIds -> LinkRow]
  expired,  \* the links whose valid_until is past
  claims,   \* the table: [Credentials -> ClaimRow]
  pc, loc   \* where each call is, and what it has read

vars == <<links, expired, claims, pc, loc>>

\* "unused": no such row yet; "deleted": no such row any more.
LinkRow  == [row: {"unused", "saved", "deleted"}, active: BOOLEAN, request: BOOLEAN]
ClaimRow == [saved: BOOLEAN, user: Users \cup {None}, link: LinkIds \cup {None},
             revoked: BOOLEAN]
NoClaim  == [saved |-> FALSE, user |-> None, link |-> None, revoked |-> FALSE]

Pcs == {"idle", "activate", "callback", "read", "create", "save"}
Locals == [user: Users \cup {None}, link: LinkIds \cup {None},
           active: BOOLEAN, issued: Nat]
NoLocals == [user |-> None, link |-> None, active |-> FALSE, issued |-> 0]

Saved(l) == links[l].row = "saved"

\* The rows that count(claims.id) counts for a link: there is no counter.
Issued(l) == {k \in Credentials : claims[k].saved /\ claims[k].link = l}

TypeOK ==
  /\ links \in [LinkIds -> LinkRow]
  /\ expired \subseteq LinkIds
  /\ claims \in [Credentials -> ClaimRow]
  /\ pc \in [Callers -> Pcs]
  /\ loc \in [Callers -> Locals]
  /\ \A c \in Callers : pc[c] # "idle" => loc[c].link # None
  /\ \A c \in Callers : pc[c] \in {"callback", "read", "create", "save"} => loc[c].user # None

Init ==
  /\ links = [l \in LinkIds |-> [row |-> "unused", active |-> FALSE, request |-> FALSE]]
  /\ expired = {}
  /\ claims = [k \in Credentials |-> NoClaim]
  /\ pc = [c \in Callers |-> "idle"]
  /\ loc = [c \in Callers |-> NoLocals]

GoTo(c, label, l) ==
  /\ pc' = [pc EXCEPT ![c] = label]
  /\ loc' = [loc EXCEPT ![c] = l]

Return(c) == GoTo(c, "idle", NoLocals)

-----------------------------------------------------------------------------
(* The issuer's calls. *)

CreateLink(l) ==
  /\ links[l].row = "unused"
  /\ links' = [links EXCEPT ![l] = [row |-> "saved", active |-> TRUE, request |-> FALSE]]
  /\ UNCHANGED <<expired, claims, pc, loc>>

\* The upsert of the repository: an update leaves the authorization request
\* alone, an insert has none.
Save(l, active) ==
  links' = [links EXCEPT ![l] =
    [row |-> "saved", active |-> active, request |-> @.row = "saved" /\ @.request]]

\* GetByID of the service: shown for the first time, a link gets the
\* authorization request that its QR code carries.
ShowLink(l) ==
  /\ Saved(l)
  /\ links' = [links EXCEPT ![l].request = TRUE]
  /\ UNCHANGED <<expired, claims, pc, loc>>

\* Activate reads the row, refuses what is so already ...
\* Faulty: it does not read the row.
ActivateUnread(c, l, active) ==
  /\ pc[c] = "idle"
  /\ GoTo(c, "activate", [NoLocals EXCEPT !.link = l, !.active = active])
  /\ UNCHANGED <<links, expired, claims>>
Activate(c, l, active) ==
  /\ pc[c] = "idle"
  /\ Saved(l)
  /\ links[l].active # active
  /\ GoTo(c, "activate", [NoLocals EXCEPT !.link = l, !.active = active])
  /\ UNCHANGED <<links, expired, claims>>

\* ... and writes it back.
SaveActive(c) ==
  /\ pc[c] = "activate"
  /\ Save(loc[c].link, loc[c].active)
  /\ Return(c)
  /\ UNCHANGED <<expired, claims>>

\* One transaction cuts the credentials off and deletes the link.
\* Faulty: the credentials keep their link.
DeleteLinkOnly(l) ==
  /\ Saved(l)
  /\ links' = [links EXCEPT ![l] = [row |-> "deleted", active |-> FALSE, request |-> FALSE]]
  /\ UNCHANGED <<expired, claims, pc, loc>>
DeleteLink(l) ==
  /\ Saved(l)
  /\ links' = [links EXCEPT ![l] = [row |-> "deleted", active |-> FALSE, request |-> FALSE]]
  /\ claims' = [k \in Credentials |-> [claims[k] EXCEPT !.link = IF @ = l THEN None ELSE @]]
  /\ UNCHANGED <<expired, pc, loc>>

\* Revocation writes back a row that it read without its link_id.
\* Faulty: the row keeps its link.
RevokeInPlace(k) ==
  /\ claims[k].saved /\ ~ claims[k].revoked
  /\ claims' = [claims EXCEPT ![k].revoked = TRUE]
  /\ UNCHANGED <<links, expired, pc, loc>>
Revoke(k) ==
  /\ claims[k].saved /\ ~ claims[k].revoked
  /\ claims' = [claims EXCEPT ![k].revoked = TRUE, ![k].link = None]
  /\ UNCHANGED <<links, expired, pc, loc>>

DeleteCredential(k) ==
  /\ claims[k].saved
  /\ claims' = [claims EXCEPT ![k] = NoClaim]
  /\ UNCHANGED <<links, expired, pc, loc>>

-----------------------------------------------------------------------------
(* The callback of a wallet. *)

\* ProcessCallBack reads the request that the wallet answers, and verifies.
ProcessCallBack(c, l, u) ==
  /\ pc[c] = "idle"
  /\ Saved(l) /\ links[l].request
  /\ GoTo(c, "callback", [NoLocals EXCEPT !.link = l, !.user = u])
  /\ UNCHANGED <<links, expired, claims>>

\* IssueOrFetchClaim reads the link again, with the count of its credentials ...
ReadLink(c) ==
  /\ pc[c] = "callback"
  /\ Saved(loc[c].link)
  /\ GoTo(c, "read", [loc[c] EXCEPT !.active = links[loc[c].link].active,
                                    !.issued = Cardinality(Issued(loc[c].link))])
  /\ UNCHANGED <<links, expired, claims>>

\* ... validates the copy ...
HasRoom(l, issued) == MaxIssuance[l] = Unlimited \/ issued < MaxIssuance[l]

\* Faulty: the maximum is not looked at.   Faulty: nor is the active flag.
ValidateAnyCount(l, active, issued)  == l \notin expired /\ active
ValidateInactive(l, active, issued)  == l \notin expired /\ HasRoom(l, issued)
Validate(l, active, issued) ==
  /\ l \notin expired
  /\ HasRoom(l, issued)
  /\ active

\* ... after it has read what the user has of this link (GetClaimsIssuedForUser).
\* Faulty: it is not asked.
IssuedToNobody(l, u) == {}
IssuedToUser(l, u) == {k \in Issued(l) : claims[k].user = u}

\* A credential the user has is offered again (when it has a signature or an
\* MTP proof by now) ...
Fetch(c) ==
  /\ pc[c] = "read"
  /\ Validate(loc[c].link, loc[c].active, loc[c].issued)
  /\ IssuedToUser(loc[c].link, loc[c].user) # {}
  /\ Return(c)
  /\ UNCHANGED <<links, expired, claims>>

\* ... or one is made (CreateCredential) ...
Create(c) ==
  /\ pc[c] = "read"
  /\ Validate(loc[c].link, loc[c].active, loc[c].issued)
  /\ IssuedToUser(loc[c].link, loc[c].user) = {}
  /\ GoTo(c, "create", loc[c])
  /\ UNCHANGED <<links, expired, claims>>

\* ... the link saved ...
\* Faulty: the call forgets whom it is for.
SaveLinkAndForget(c) ==
  /\ pc[c] = "create"
  /\ Save(loc[c].link, loc[c].active)
  /\ GoTo(c, "save", NoLocals)
  /\ UNCHANGED <<expired, claims>>
SaveLink(c) ==
  /\ pc[c] = "create"
  /\ Save(loc[c].link, loc[c].active)
  /\ GoTo(c, "save", loc[c])
  /\ UNCHANGED <<expired, claims>>

\* ... and the credential saved, in a statement of its own: the transaction
\* around the two is opened and not used.  The foreign key wants the link.
SaveClaim(c, k) ==
  /\ pc[c] = "save"
  /\ Saved(loc[c].link)
  /\ ~ claims[k].saved
  /\ claims' = [claims EXCEPT ![k] =
       [saved |-> TRUE, user |-> loc[c].user, link |-> loc[c].link, revoked |-> FALSE]]
  /\ Return(c)
  /\ UNCHANGED <<links, expired>>

\* A check that fails, a proof that does not verify, a database error, a
\* client that hangs up or a restart ends a call between two of its steps.
Abandon(c) ==
  /\ pc[c] # "idle"
  /\ Return(c)
  /\ UNCHANGED <<links, expired, claims>>

Expire(l) ==
  /\ Saved(l)
  /\ expired' = expired \cup {l}
  /\ UNCHANGED <<links, claims, pc, loc>>

-----------------------------------------------------------------------------
(* What the issuer is shown: the status of a link, and the listings. *)

\* Faulty: a link that expired is shown as active.
StatusOfCount(l) ==
  IF ~ links[l].active THEN "inactive"
  ELSE IF HasRoom(l, Cardinality(Issued(l))) THEN "active" ELSE "exceeded"
Status(l) ==
  IF ~ links[l].active THEN "inactive"
  ELSE IF l \notin expired /\ HasRoom(l, Cardinality(Issued(l))) THEN "active"
  ELSE "exceeded"

\* The filters of GetAll, for the links of the issuer; they may overlap.
Listed(status) ==
  LET full == {l \in LinkIds : ~ HasRoom(l, Cardinality(Issued(l)))}
  IN  {l \in LinkIds : Saved(l) /\
         CASE status = "active"   -> links[l].active /\ l \notin expired \cup full
           [] status = "inactive" -> ~ links[l].active
           [] status = "exceeded" -> l \in expired \cup full}

-----------------------------------------------------------------------------

IssuerCalls == \E l \in LinkIds :
  \/ CreateLink(l)
  \/ ShowLink(l)
  \/ DeleteLink(l)
  \/ \E c \in Callers, active \in BOOLEAN : Activate(c, l, active)

CredentialCalls == \E k \in Credentials : Revoke(k) \/ DeleteCredential(k)

CallBack(c) ==
  \/ \E l \in LinkIds, u \in Users : ProcessCallBack(c, l, u)
  \/ ReadLink(c)
  \/ Fetch(c)
  \/ Create(c)
  \/ SaveLink(c)
  \/ \E k \in Credentials : SaveClaim(c, k)

Next ==
  \/ IssuerCalls
  \/ CredentialCalls
  \/ \E c \in Callers : CallBack(c) \/ SaveActive(c) \/ Abandon(c)
  \/ \E l \in LinkIds : Expire(l)

Spec == Init /\ [][Next]_vars

-----------------------------------------------------------------------------
(* Properties. *)

\* The callbacks that may still add a credential to a link on the strength of
\* a count that was below its maximum.
Issuing(l) == {c \in Callers :
  /\ pc[c] \in {"read", "create", "save"}
  /\ loc[c].link = l
  /\ HasRoom(l, loc[c].issued)}

\* The maximum of a link is checked long before its credential is saved, so it
\* can be passed, but only by the callbacks that run at once: with one callback
\* at a time it is exact.
OvershootIsBounded == \A l \in LinkIds :
  MaxIssuance[l] # Unlimited /\ Issued(l) # {} =>
    Cardinality(Issued(l)) <= MaxIssuance[l] + Cardinality(Callers) - 1

\* A user gets a second credential of a link only from callbacks that run at
\* once: never more than there are of them.
DuplicatesAreBounded == \A l \in LinkIds, u \in Users :
  Cardinality({k \in Issued(l) : claims[k].user = u}) <= Cardinality(Callers)

\* A call that may write the row of a link back as active.
HoldsActive(c, l) == loc[c].link = l /\ loc[c].active

\* A deactivated link stays so, and issues nothing, once the calls that read it
\* while it was active are over, until it is activated again.  (Before that one
\* of them may issue a credential and write the row back active, unasked.)
DeactivationHolds == [][
  \A l \in LinkIds :
    /\ Saved(l) /\ ~ links[l].active
    /\ \A c \in Callers : ~ HoldsActive(c, l)
    => /\ ~ links'[l].active
       /\ \A c \in Callers : HoldsActive(c, l)' => pc'[c] = "activate"
       /\ \A k \in Credentials : claims'[k].link = l => claims[k].link = l]_vars

\* A deleted link stays deleted once the calls that read it before are over.
\* (Before that the upsert of one of them may insert it again.)
DeletionHolds == [][
  \A l \in LinkIds :
    /\ links[l].row = "deleted"
    /\ \A c \in Callers : loc[c].link # l
    => /\ links'[l].row = "deleted"
       /\ \A c \in Callers : loc'[c].link # l]_vars

\* A credential counts for a link only while that link is in the database.
LinkedToRow == \A l \in LinkIds : Issued(l) # {} => Saved(l)

\* What the issuer sees is what a wallet gets: the links listed as active, those
\* whose status is active, and those that would issue a credential now are the
\* same, although three pieces of code decide it, one of them in SQL.
ListingAgrees == \A l \in LinkIds : Saved(l) =>
  /\ (l \in Listed("active")) <=> (Status(l) = "active")
  /\ (l \in Listed("active")) <=> Validate(l, links[l].active, Cardinality(Issued(l)))
  /\ l \in Listed(Status(l))

\* Whatever a callback finds for a user, and offers again, is not revoked,
\* although the query does not ask: revocation has cut it off its link.
FetchedIsNotRevoked == \A l \in LinkIds, u \in Users :
  \A k \in IssuedToUser(l, u) : ~ claims[k].revoked
=============================================================================

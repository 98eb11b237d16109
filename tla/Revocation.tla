----------------------------- MODULE Revocation -----------------------------
(***************************************************************************)
(* The life of credentials as their revocation sees it: one credential or  *)
(* all of a connection are revoked, credentials deleted; the credentials   *)
(* that authenticate the issuer and the keys behind them created and       *)
(* deleted; and states published, which sign with one of those keys.       *)
(* Each call is broken where it reads, decides and writes in statements of *)
(* its own.  The revocation tree is loaded with its root, and the root is  *)
(* written back with a leaf more: who writes last wins.                    *)
(*                                                                         *)
(* One issuer.  A state is published and confirmed here in one step, which *)
(* StatePublisher has in detail.  A nonce may be asked for, so several     *)
(* credentials may have the same.  Left out: keys that are not of the      *)
(* BabyJubJub type, names of keys, and descriptions.                       *)
(***************************************************************************)
EXTENDS Naturals, FiniteSets

CONSTANTS
  Credentials,  \* uuids of credentials
  Genesis,      \* the authentication credential of the genesis state
  Keys,         \* BabyJubJub keys of the issuer, in the KMS
  GenesisKey,
  Nonces,       \* revocation nonces
  Callers,      \* concurrent calls of the platform
  None          \* SQL's NULL

ASSUME GenesisAssumption == Genesis \in Credentials /\ GenesisKey \in Keys
ASSUME NoneAssumption == None \notin Credentials \cup Keys \cup Nonces \cup Callers
ASSUME DisjointAssumption == Credentials \cap Keys = {}

VARIABLES
  keys,         \* the KMS: [Keys -> {"unused", "kept", "deleted"}]
  claims,       \* the table: [Credentials -> ClaimRow]
  leaves,       \* the claims tree: the indexes of its leaves
  tree,         \* the revocation tree: the nonces under its committed root
  revocation,   \* the table: [Nonces -> Statuses]
  chain,        \* the nonces that the latest published state revokes
  owner, txTree,\* the transaction that has written a root, and what is under it
  pc, loc,      \* where each call is, and what it has read
  lost,         \* history: nonces whose leaf was overwritten or rolled back
  erased,       \* history: indexes of published credentials that lost their row or state
  overlapped,   \* history: a call was let remove a credential while another one was
  raced         \* history: keys given a credential while deleted, or whose credential came back

tables == <<keys, claims, leaves, revocation, chain>>
trees  == <<tree, owner, txTree>>
calls  == <<pc, loc>>
history == <<lost, erased, overlapped, raced>>
vars == <<tables, trees, calls, history>>

\* "unused": no such row yet; "deleted": no such row any more.  A credential with
\* a key authenticates the issuer.  "published": it has a state and an MTP proof.
ClaimRow == [row: {"unused", "saved", "deleted"}, key: Keys \cup {None},
             nonce: Nonces \cup {None}, published: BOOLEAN, revoked: BOOLEAN]
NoClaim == [row |-> "unused", key |-> None, nonce |-> None, published |-> FALSE,
            revoked |-> FALSE]
Statuses == {"none", "pending", "published"}

Pcs == {"idle", "next", "load", "add", "reread", "save", "delete", "key"}
Locals == [tx: BOOLEAN, todo: SUBSET (Credentials \X Nonces), nonce: Nonces \cup {None},
           root: SUBSET Nonces, copies: [Credentials -> ClaimRow],
           cred: Credentials \cup {None}, key: Keys \cup {None}]
NoCopies == [k \in Credentials |-> NoClaim]
NoLocals == [tx |-> FALSE, todo |-> {}, nonce |-> None, root |-> {},
             copies |-> NoCopies, cred |-> None, key |-> None]

Saved(k) == claims[k].row = "saved"
IsAuth(k) == claims[k].key # None

\* The index of a credential's leaf: that of an authentication credential is made
\* of its key.
Index(row, k) == IF row.key = None THEN k ELSE row.key

\* FindClaimsBySchemaHash: what can authenticate the issuer.
UsableAuth == {k \in Credentials :
  Saved(k) /\ IsAuth(k) /\ claims[k].published /\ ~ claims[k].revoked}

\* GetByRevocationNonce.
WithNonce(n) == {k \in Credentials : Saved(k) /\ claims[k].nonce = n}

\* A call that has passed the check is about to remove the credential.
RemovesIt(d, k) == k = loc[d].cred \/ claims[k].nonce = loc[d].nonce

TypeOK ==
  /\ keys \in [Keys -> {"unused", "kept", "deleted"}]
  /\ claims \in [Credentials -> ClaimRow]
  /\ \A k \in Credentials : Saved(k) => claims[k].nonce # None
  /\ \A j, k \in Credentials :
       Saved(j) /\ Saved(k) /\ IsAuth(j) /\ claims[j].key = claims[k].key => j = k
  /\ leaves \subseteq Credentials \cup Keys
  /\ tree \subseteq Nonces /\ txTree \subseteq Nonces
  /\ revocation \in [Nonces -> Statuses]
  /\ chain \subseteq Nonces
  /\ owner \in Callers \cup {None}
  /\ pc \in [Callers -> Pcs]
  /\ loc \in [Callers -> Locals]
  /\ \A c \in Callers : pc[c] = "idle" => loc[c] = NoLocals
  /\ \A c \in Callers : owner = c => pc[c] # "idle" /\ loc[c].tx
  /\ lost \subseteq Nonces
  /\ erased \subseteq Credentials \cup Keys
  /\ overlapped \in BOOLEAN
  /\ raced \subseteq Keys

Init ==
  /\ keys = [x \in Keys |-> IF x = GenesisKey THEN "kept" ELSE "unused"]
  /\ \E n \in Nonces : claims = [k \in Credentials |->
       IF k = Genesis
       THEN [row |-> "saved", key |-> GenesisKey, nonce |-> n, published |-> TRUE, revoked |-> FALSE]
       ELSE NoClaim]
  /\ leaves = {GenesisKey}
  /\ tree = {} /\ owner = None /\ txTree = {}
  /\ revocation = [n \in Nonces |-> "none"]
  /\ chain = {}
  /\ pc = [c \in Callers |-> "idle"] /\ loc = [c \in Callers |-> NoLocals]
  /\ lost = {} /\ erased = {} /\ overlapped = FALSE /\ raced = {}

GoTo(c, label, l) ==
  /\ pc' = [pc EXCEPT ![c] = label]
  /\ loc' = [loc EXCEPT ![c] = l]

Return(c) == GoTo(c, "idle", NoLocals)

-----------------------------------------------------------------------------
(* Keys and credentials come into being, and states are published. *)

CreateKey(x) ==
  /\ keys[x] = "unused"
  /\ keys' = [keys EXCEPT ![x] = "kept"]
  /\ UNCHANGED <<claims, leaves, revocation, chain, trees, calls, history>>

\* Save of the credentials service, for a wallet that has a connection.
Issue(k, n) ==
  /\ claims[k].row = "unused"
  /\ claims' = [claims EXCEPT ![k] = [NoClaim EXCEPT !.row = "saved", !.nonce = n]]
  /\ UNCHANGED <<keys, leaves, revocation, chain, trees, calls, history>>

\* CreateAuthCredential finds the key and saves a credential: the index of its
\* leaf is unique among the rows.  A deletion of the key may be under way.
\* Faulty: the index is not unique.
CreateAnyAuthCredential(x, k, n) ==
  /\ keys[x] = "kept"
  /\ claims[k].row = "unused"
  /\ claims' = [claims EXCEPT ![k] = [NoClaim EXCEPT !.row = "saved", !.key = x, !.nonce = n]]
  /\ UNCHANGED <<keys, leaves, revocation, chain, trees, calls, history>>
CreateAuthCredential(x, k, n) ==
  /\ keys[x] = "kept"
  /\ claims[k].row = "unused"
  /\ \A j \in Credentials : Saved(j) => claims[j].key # x
  /\ claims' = [claims EXCEPT ![k] = [NoClaim EXCEPT !.row = "saved", !.key = x, !.nonce = n]]
  /\ raced' = IF \E d \in Callers : pc[d] = "key" /\ loc[d].key = x THEN raced \cup {x} ELSE raced
  /\ UNCHANGED <<keys, leaves, revocation, chain, trees, calls, lost, erased, overlapped>>

\* UpdateState adds the credentials in no state to the claims tree, which refuses
\* an index it has, and takes up the pending revocations; the transaction is
\* signed with the key of an authentication credential of an earlier state
\* without a revocation (GetAuthClaimsForPublishing).
Publish ==
  /\ \E k \in Credentials : Saved(k) /\ IsAuth(k) /\ claims[k].published
       /\ revocation[claims[k].nonce] = "none" /\ keys[claims[k].key] = "kept"
  /\ LET new == {k \in Credentials : Saved(k) /\ ~ claims[k].published}
     IN  /\ new # {} \/ \E n \in Nonces : revocation[n] = "pending"
         /\ \A k \in new : Index(claims[k], k) \notin leaves
         /\ leaves' = leaves \cup {Index(claims[k], k) : k \in new}
         /\ claims' = [k \in Credentials |->
              IF k \in new THEN [claims[k] EXCEPT !.published = TRUE] ELSE claims[k]]
  /\ revocation' = [n \in Nonces |-> IF revocation[n] = "pending" THEN "published" ELSE revocation[n]]
  /\ chain' = tree
  /\ UNCHANGED <<keys, trees, calls, history>>

-----------------------------------------------------------------------------
(* Revocation. *)

\* canRevokeNonce: the last authentication credential stays.
\* Faulty: one of another nonce is not asked for.
CanRevokeSomeAuth(creds, n) ==
  (\E k \in creds : IsAuth(k)) => Cardinality(UsableAuth) > 1
CanRevoke(creds, n) ==
  (\E k \in creds : IsAuth(k)) =>
    /\ Cardinality(UsableAuth) # 1
    /\ \E k \in UsableAuth : claims[k].nonce # n

\* A call may go on to remove the credentials.
Allow(c, creds) ==
  /\ overlapped' = \/ overlapped
                   \/ /\ \E k \in creds : IsAuth(k)
                      /\ \E d \in Callers \ {c}, k \in Credentials : Saved(k) /\ IsAuth(k) /\ RemovesIt(d, k)
  /\ UNCHANGED <<lost, erased, raced>>

Revoke(c, n) ==
  /\ pc[c] = "idle"
  /\ CanRevoke(WithNonce(n), n)
  /\ Allow(c, WithNonce(n))
  /\ GoTo(c, "load", [NoLocals EXCEPT !.nonce = n])
  /\ UNCHANGED <<tables, trees>>

\* RevokeAllFromConnection reads the credentials of the connection and revokes
\* them one by one in a transaction ...
RevokeAllFromConnection(c) ==
  /\ pc[c] = "idle"
  /\ LET creds == {k \in Credentials : Saved(k) /\ ~ IsAuth(k) /\ ~ claims[k].revoked}
     IN  /\ creds # {}
         /\ GoTo(c, "next", [NoLocals EXCEPT !.tx = TRUE,
                                             !.todo = {<<k, claims[k].nonce>> : k \in creds}])
  /\ UNCHANGED <<tables, trees, history>>
RevokeNext(c) ==
  /\ pc[c] = "next"
  /\ \E item \in loc[c].todo :
       /\ CanRevoke(WithNonce(item[2]), item[2])
       /\ Allow(c, WithNonce(item[2]))
       /\ GoTo(c, "load", [loc[c] EXCEPT !.todo = @ \ {item}, !.nonce = item[2]])
  /\ UNCHANGED <<tables, trees>>

\* ... which is also that of the trees ...
LoadTrees(c) ==
  /\ pc[c] = "load"
  /\ GoTo(c, "add", [loc[c] EXCEPT !.root = IF owner = c THEN txTree ELSE tree])
  /\ UNCHANGED <<tables, trees, history>>

\* RevokeClaim adds the leaf under the root it has loaded; a nonce that is there
\* is an error.  A root that another transaction has written is waited for.
\* Faulty: the new root is not stored.
RevokeClaimInMemory(c) ==
  /\ pc[c] = "add"
  /\ owner \in {None, c}
  /\ loc[c].nonce \notin loc[c].root
  /\ GoTo(c, "reread", [loc[c] EXCEPT !.root = {}])
  /\ UNCHANGED <<tables, trees, history>>
RevokeClaim(c) ==
  /\ pc[c] = "add"
  /\ owner \in {None, c}
  /\ loc[c].nonce \notin loc[c].root
  /\ LET root == loc[c].root \cup {loc[c].nonce}
     IN  IF loc[c].tx
         THEN owner' = c /\ txTree' = root /\ UNCHANGED <<tree, lost>>
         ELSE tree' = root /\ lost' = lost \cup (tree \ root) /\ UNCHANGED <<owner, txTree>>
  /\ GoTo(c, "reread", [loc[c] EXCEPT !.root = {}])
  /\ UNCHANGED <<tables, erased, overlapped, raced>>

\* The credentials of the nonce are read again; there must be one ...
Reread(c) ==
  /\ pc[c] = "reread"
  /\ WithNonce(loc[c].nonce) # {}
  /\ GoTo(c, "save", [loc[c] EXCEPT !.copies = [k \in Credentials |->
       IF k \in WithNonce(loc[c].nonce) THEN claims[k] ELSE NoClaim]])
  /\ UNCHANGED <<tables, trees, history>>

\* ... and written back as a whole, revoked, with the revocation, in a transaction
\* of their own.  A row that was deleted is there again, unless its index is taken.
\* Faulty: they are written back as they were read.
SaveCopies(c) ==
  /\ pc[c] = "save"
  /\ revocation[loc[c].nonce] = "none"
  /\ claims' = [k \in Credentials |->
       IF loc[c].copies[k].row = "saved" THEN loc[c].copies[k] ELSE claims[k]]
  /\ revocation' = [revocation EXCEPT ![loc[c].nonce] = "pending"]
  /\ IF loc[c].tx THEN GoTo(c, "next", [loc[c] EXCEPT !.nonce = None, !.copies = NoCopies])
     ELSE Return(c)
  /\ UNCHANGED <<keys, leaves, chain, trees, history>>
SaveRevoked(c) ==
  LET copies == loc[c].copies
      again == {k \in Credentials : copies[k].row = "saved"}
  IN  /\ pc[c] = "save"
      /\ revocation[loc[c].nonce] = "none"
      /\ \A k \in again, j \in Credentials \ again :
           copies[k].key # None /\ Saved(j) => claims[j].key # copies[k].key
      /\ claims' = [k \in Credentials |->
           IF k \in again THEN [copies[k] EXCEPT !.revoked = TRUE] ELSE claims[k]]
      /\ erased' = erased \cup {Index(claims[k], k) :
           k \in {k \in again : claims[k].published /\ ~ copies[k].published}}
      /\ raced' = raced \cup {copies[k].key : k \in {k \in again : ~ Saved(k) /\ copies[k].key # None}}
      /\ revocation' = [revocation EXCEPT ![loc[c].nonce] = "pending"]
      /\ IF loc[c].tx THEN GoTo(c, "next", [loc[c] EXCEPT !.nonce = None, !.copies = NoCopies])
         ELSE Return(c)
      /\ UNCHANGED <<keys, leaves, chain, trees, lost, overlapped>>

CommitAll(c) ==
  /\ pc[c] = "next" /\ loc[c].todo = {}
  /\ tree' = IF owner = c THEN txTree ELSE tree
  /\ lost' = lost \cup (tree \ tree')
  /\ owner' = None /\ txTree' = {}
  /\ Return(c)
  /\ UNCHANGED <<tables, erased, overlapped, raced>>

\* A refusal, an error, a client that hangs up or a restart ends a call between
\* two of its steps.  What its transaction wrote is gone, what it wrote outside
\* stays.
Abandon(c) ==
  /\ pc[c] # "idle"
  /\ IF owner = c
     THEN /\ owner' = None /\ txTree' = {}
          /\ lost' = lost \cup (txTree \ tree)
          /\ UNCHANGED tree
     ELSE UNCHANGED <<trees, lost>>
  /\ Return(c)
  /\ UNCHANGED <<tables, erased, overlapped, raced>>

-----------------------------------------------------------------------------
(* Deletion of credentials and keys. *)

\* Delete asks canRevokeNonce about the credential ...
Delete(c, k) ==
  /\ pc[c] = "idle"
  /\ Saved(k)
  /\ CanRevoke({k}, claims[k].nonce)
  /\ Allow(c, {k})
  /\ GoTo(c, "delete", [NoLocals EXCEPT !.cred = k])
  /\ UNCHANGED <<tables, trees>>

\* ... and deletes the row, published or not.
DeleteRow(c) ==
  LET k == loc[c].cred
  IN  /\ pc[c] = "delete"
      /\ Saved(k)
      /\ claims' = [claims EXCEPT ![k] = [NoClaim EXCEPT !.row = "deleted"]]
      /\ erased' = IF claims[k].published THEN erased \cup {Index(claims[k], k)} ELSE erased
      /\ Return(c)
      /\ UNCHANGED <<keys, leaves, revocation, chain, trees, lost, overlapped, raced>>

\* Delete of the key service: the key of an authentication credential may go when
\* that is revoked on the chain.
\* Faulty: or in the database.
KeyIsFreeInDatabase(x) == \A k \in Credentials :
  Saved(k) /\ claims[k].key = x => claims[k].revoked \/ claims[k].nonce \in chain
KeyIsFree(x) == \A k \in Credentials :
  Saved(k) /\ claims[k].key = x => claims[k].nonce \in chain
DeleteKey(c, x) ==
  /\ pc[c] = "idle"
  /\ keys[x] = "kept"
  /\ KeyIsFree(x)
  /\ GoTo(c, "key", [NoLocals EXCEPT !.key = x])
  /\ UNCHANGED <<tables, trees, history>>
RemoveKey(c) ==
  /\ pc[c] = "key"
  /\ keys' = [keys EXCEPT ![loc[c].key] = "deleted"]
  /\ Return(c)
  /\ UNCHANGED <<claims, leaves, revocation, chain, trees, history>>

-----------------------------------------------------------------------------

Revoking(c) ==
  \/ \E n \in Nonces : Revoke(c, n)
  \/ RevokeAllFromConnection(c)
  \/ RevokeNext(c)
  \/ LoadTrees(c)
  \/ RevokeClaim(c)
  \/ Reread(c)
  \/ SaveRevoked(c)
  \/ CommitAll(c)

Deletion(c) ==
  \/ \E k \in Credentials : Delete(c, k)
  \/ DeleteRow(c)
  \/ \E x \in Keys : DeleteKey(c, x)
  \/ RemoveKey(c)

Next ==
  \/ \E x \in Keys : CreateKey(x)
  \/ \E k \in Credentials, n \in Nonces :
       Issue(k, n) \/ \E x \in Keys : CreateAuthCredential(x, k, n)
  \/ Publish
  \/ \E c \in Callers : Revoking(c) \/ Deletion(c) \/ Abandon(c)

Spec == Init /\ [][Next]_vars

-----------------------------------------------------------------------------
(* Properties. *)

\* The issuer can always authenticate its next state: one authentication
\* credential is published and not revoked, whatever is revoked and deleted, as
\* long as no two such calls pass the check at once.
AuthRemains == overlapped \/ UsableAuth # {}

\* The key of an authentication credential that the published state has not
\* revoked is kept, even when the database has: until then the key still signs.
\* A key is lost only to a credential created, or written back by a revocation
\* under way, after the deletion of the key had looked for one, and when the
\* published revocation itself is undone by a root that was loaded before it.
SigningKeyKept == \A k \in Credentials :
  Saved(k) /\ IsAuth(k) /\ claims[k].nonce \notin lost \cup chain =>
    keys[claims[k].key] = "kept" \/ claims[k].key \in raced

\* What the database calls revoked is a leaf of the revocation tree, so that the
\* next state revokes it.  It is lost in two ways only: another call wrote a root
\* it had loaded before, or a later credential of the same connection could not
\* be revoked and the transaction of the tree was rolled back.
RevokedIsLeaf == \A n \in Nonces :
  revocation[n] # "none" => n \in tree \cup txTree \cup lost

\* A credential never ceases to be revoked, and one that was deleted and is
\* written back by a revocation under way is revoked.
RevokedForGood == [][\A k \in Credentials :
  /\ Saved(k) /\ claims[k].revoked /\ Saved(k)' => claims'[k].revoked
  /\ claims[k].row = "deleted" /\ Saved(k)' => claims'[k].revoked]_vars

\* A credential that waits for a state is not a leaf of the claims tree yet: one
\* that is makes every further publication fail.  That needs the row of a
\* published credential to be deleted, and its key used again, or to lose its
\* state to a revocation that had read it before.
NoSecondLeaf == \A k \in Credentials :
  Saved(k) /\ ~ claims[k].published => Index(claims[k], k) \notin leaves \ erased
=============================================================================

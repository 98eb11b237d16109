-------------------------- MODULE RevocationProofs --------------------------
(***************************************************************************)
(* What TLAPS proves of Revocation, for every number of credentials, keys, *)
(* nonces and concurrent calls.                                            *)
(***************************************************************************)
EXTENDS Revocation, TLAPS

-----------------------------------------------------------------------------
(* The inductive invariant. *)

\* A call knows what it works on.
LocalsKnown == \A c \in Callers :
  /\ pc[c] \in {"load", "add", "reread", "save"} => loc[c].nonce \in Nonces
  /\ pc[c] = "delete" => loc[c].cred \in Credentials
  /\ pc[c] # "delete" => loc[c].cred = None
  /\ pc[c] = "key" => loc[c].key \in Keys
  /\ pc[c] \in {"delete", "key"} => ~ loc[c].tx

\* The rows that a call holds are rows of its nonce that are or were in the table, and no
\* two of them have the same key.
CopiesSound == \A c \in Callers : pc[c] = "save" =>
  LET copies == loc[c].copies
  IN  /\ \A k \in Credentials : copies[k].row = "saved" =>
           /\ copies[k].nonce = loc[c].nonce
           /\ claims[k].row # "unused"
           /\ Saved(k) => claims[k].key = copies[k].key /\ claims[k].nonce = copies[k].nonce
      /\ \A j, k \in Credentials :
           copies[j].row = "saved" /\ copies[k].row = "saved" /\ copies[j].key # None
             /\ copies[j].key = copies[k].key => j = k

\* Two calls that hold the same row agree on its key and nonce.
CopiesAgree == \A c, d \in Callers : pc[c] = "save" /\ pc[d] = "save" =>
  \A k \in Credentials :
    loc[c].copies[k].row = "saved" /\ loc[d].copies[k].row = "saved" =>
      loc[c].copies[k].key = loc[d].copies[k].key /\ loc[c].copies[k].nonce = loc[d].copies[k].nonce

\* A transaction that has revoked something owns the root, and has what is under it.
TreesSound ==
  /\ owner = None => txTree = {}
  /\ \A c \in Callers :
       /\ pc[c] \in {"reread", "save"} => loc[c].nonce \in tree \cup txTree \cup lost
       /\ pc[c] \in {"reread", "save"} /\ loc[c].tx => owner = c
       /\ pc[c] = "next" /\ loc[c].todo = {} => owner = c
       /\ pc[c] = "add" /\ owner = c => loc[c].root = txTree
  /\ chain \subseteq tree \cup lost

\* A leaf is that of a published credential, or is erased.
LeavesSound == \A i \in leaves \ erased :
  \E k \in Credentials : Saved(k) /\ claims[k].published /\ Index(claims[k], k) = i

\* The key that is about to be deleted is no key of a credential in force.
DeletionsSound == \A c \in Callers, k \in Credentials :
  pc[c] = "key" /\ Saved(k) /\ claims[k].key = loc[c].key =>
    claims[k].nonce \in lost \cup chain \/ loc[c].key \in raced

\* A credential that authenticates the issuer, and that no call is about to remove.
SomeIsSafe == overlapped \/ \E k \in UsableAuth : \A c \in Callers : ~ RemovesIt(c, k)

IInv ==
  /\ TypeOK
  /\ LocalsKnown
  /\ CopiesSound
  /\ CopiesAgree
  /\ TreesSound
  /\ RevokedIsLeaf
  /\ LeavesSound
  /\ NoSecondLeaf
  /\ DeletionsSound
  /\ SigningKeyKept
  /\ SomeIsSafe

-----------------------------------------------------------------------------
(* Calls. *)

\* The empty values have their types.
LEMMA EmptyValues == NoClaim \in ClaimRow /\ NoCopies \in [Credentials -> ClaimRow] /\ NoLocals \in Locals
BY DEF NoClaim, ClaimRow, NoCopies, NoLocals, Locals

\* One call moves, the others stay.
LEMMA Moves ==
  ASSUME TypeOK, NEW c \in Callers, NEW label, NEW l, GoTo(c, label, l)
  PROVE  /\ pc'[c] = label /\ loc'[c] = l
         /\ \A d \in Callers : d # c => pc'[d] = pc[d] /\ loc'[d] = loc[d]
BY DEF TypeOK, GoTo

\* What a call that is at a point may hold.
Fits(label, l) ==
  /\ label \in Pcs /\ l \in Locals
  /\ label = "idle" => l = NoLocals
  /\ label \in {"load", "add", "reread", "save"} => l.nonce \in Nonces
  /\ label = "delete" => l.cred \in Credentials
  /\ label # "delete" => l.cred = None
  /\ label = "key" => l.key \in Keys
  /\ label \in {"delete", "key"} => ~ l.tx

\* A call that goes on with what fits keeps the types of the calls.
LEMMA GoToType ==
  ASSUME TypeOK, LocalsKnown, NEW c \in Callers, NEW label, NEW l, Fits(label, l), GoTo(c, label, l)
  PROVE  /\ pc' \in [Callers -> Pcs] /\ loc' \in [Callers -> Locals]
         /\ \A d \in Callers : pc'[d] = "idle" => loc'[d] = NoLocals
         /\ LocalsKnown'
<1>1. pc' \in [Callers -> Pcs] /\ loc' \in [Callers -> Locals]
  BY DEF TypeOK, GoTo, Fits
<1>2. \A d \in Callers : pc'[d] = "idle" => loc'[d] = NoLocals
  BY Moves DEF TypeOK, Fits
<1>3. LocalsKnown'
  BY Moves DEF LocalsKnown, Fits
<1> QED
  BY <1>1, <1>2, <1>3

\* The steps of a call, by where it goes, with what, and what else they do.
Goes(c, label, l) == Fits(label, l) /\ GoTo(c, label, l)

\* A call that returns holds nothing.
LEMMA ReturnGoes ==
  ASSUME NEW c \in Callers, Return(c)
  PROVE  Goes(c, "idle", NoLocals)
BY EmptyValues DEF Goes, Fits, Return, Pcs, NoLocals

\* The nonce of a row in the table is one.
LEMMA NonceOfRow ==
  ASSUME TypeOK, NEW k \in Credentials, Saved(k)
  PROVE  claims[k].nonce \in Nonces
BY DEF TypeOK, ClaimRow

\* Every step of a call keeps the types of the calls.
LEMMA CallType ==
  ASSUME IInv, NEW c \in Callers, Revoking(c) \/ Deletion(c) \/ Abandon(c)
  PROVE  /\ pc' \in [Callers -> Pcs] /\ loc' \in [Callers -> Locals]
         /\ \A d \in Callers : pc'[d] = "idle" => loc'[d] = NoLocals
         /\ LocalsKnown'
         /\ \E label \in Pcs, l \in Locals : Goes(c, label, l)
<1>0. TypeOK /\ LocalsKnown /\ loc[c] \in Locals
  BY DEF IInv, TypeOK
<1> SUFFICES \E label \in Pcs, l \in Locals : Goes(c, label, l)
  BY <1>0, GoToType DEF Goes
<1>1. ASSUME NEW n \in Nonces, Revoke(c, n) PROVE \E label \in Pcs, l \in Locals : Goes(c, label, l)
  <2>1. Fits("load", [NoLocals EXCEPT !.nonce = n])
    BY EmptyValues DEF Fits, Locals, NoLocals, Pcs
  <2> QED
    BY <1>1, <2>1 DEF Revoke, Goes, Fits
<1>2. CASE RevokeAllFromConnection(c)
  <2> DEFINE creds == {k \in Credentials : Saved(k) /\ ~ IsAuth(k) /\ ~ claims[k].revoked}
             todo == {<<k, claims[k].nonce>> : k \in creds}
  <2>1. todo \subseteq Credentials \X Nonces
    BY <1>0, NonceOfRow
  <2> HIDE DEF todo
  <2>2. Fits("next", [NoLocals EXCEPT !.tx = TRUE, !.todo = todo])
    BY <2>1, EmptyValues DEF Fits, Locals, NoLocals, Pcs
  <2>3. GoTo(c, "next", [NoLocals EXCEPT !.tx = TRUE, !.todo = todo])
    BY <1>2 DEF RevokeAllFromConnection, todo
  <2> QED
    BY <2>2, <2>3 DEF Goes, Fits
<1>3. CASE RevokeNext(c)
  <2>1. PICK item \in loc[c].todo :
          GoTo(c, "load", [loc[c] EXCEPT !.todo = @ \ {item}, !.nonce = item[2]])
    BY <1>3 DEF RevokeNext
  <2>2. item \in Credentials \X Nonces
    BY <1>0, <2>1 DEF Locals
  <2>3. item[2] \in Nonces /\ loc[c].cred = None
    BY <1>0, <1>3, <2>2 DEF RevokeNext, LocalsKnown
  <2>4. Fits("load", [loc[c] EXCEPT !.todo = @ \ {item}, !.nonce = item[2]])
    BY <1>0, <2>3 DEF Fits, Locals, Pcs
  <2> QED
    BY <2>1, <2>4 DEF Goes, Fits
<1>4. CASE LoadTrees(c)
  <2>1. Fits("add", [loc[c] EXCEPT !.root = IF owner = c THEN txTree ELSE tree])
    BY <1>0, <1>4 DEF LoadTrees, LocalsKnown, Fits, Locals, Pcs, TypeOK
  <2> QED
    BY <1>4, <2>1 DEF LoadTrees, Goes, Fits
<1>5. CASE RevokeClaim(c)
  <2>1. Fits("reread", [loc[c] EXCEPT !.root = {}])
    BY <1>0, <1>5 DEF RevokeClaim, LocalsKnown, Fits, Locals, Pcs
  <2> QED
    BY <1>5, <2>1 DEF RevokeClaim, Goes, Fits
<1>6. CASE Reread(c)
  <2> DEFINE copies == [k \in Credentials |->
               IF k \in WithNonce(loc[c].nonce) THEN claims[k] ELSE NoClaim]
  <2>1. copies \in [Credentials -> ClaimRow]
    BY <1>0, EmptyValues DEF TypeOK
  <2> HIDE DEF copies
  <2>2. Fits("save", [loc[c] EXCEPT !.copies = copies])
    BY <1>0, <1>6, <2>1 DEF Reread, LocalsKnown, Fits, Locals, Pcs
  <2>3. GoTo(c, "save", [loc[c] EXCEPT !.copies = copies])
    BY <1>6 DEF Reread, copies
  <2> QED
    BY <2>2, <2>3 DEF Goes, Fits
<1>7. CASE SaveRevoked(c)
  <2>1. Fits("next", [loc[c] EXCEPT !.nonce = None, !.copies = NoCopies])
    BY <1>0, <1>7, EmptyValues DEF SaveRevoked, LocalsKnown, Fits, Locals, Pcs
  <2>2. GoTo(c, "next", [loc[c] EXCEPT !.nonce = None, !.copies = NoCopies]) \/ Return(c)
    BY <1>7 DEF SaveRevoked
  <2> QED
    BY <2>1, <2>2, ReturnGoes DEF Goes, Fits
<1>8. ASSUME NEW k \in Credentials, Delete(c, k) PROVE \E label \in Pcs, l \in Locals : Goes(c, label, l)
  <2>1. Fits("delete", [NoLocals EXCEPT !.cred = k])
    BY EmptyValues DEF Fits, Locals, NoLocals, Pcs
  <2> QED
    BY <1>8, <2>1 DEF Delete, Goes, Fits
<1>9. ASSUME NEW x \in Keys, DeleteKey(c, x) PROVE \E label \in Pcs, l \in Locals : Goes(c, label, l)
  <2>1. Fits("key", [NoLocals EXCEPT !.key = x])
    BY EmptyValues DEF Fits, Locals, NoLocals, Pcs
  <2> QED
    BY <1>9, <2>1 DEF DeleteKey, Goes, Fits
<1>10. CASE CommitAll(c) \/ DeleteRow(c) \/ RemoveKey(c) \/ Abandon(c)
  BY <1>10, ReturnGoes DEF CommitAll, DeleteRow, RemoveKey, Abandon, Goes, Fits
<1> QED
  BY <1>1, <1>2, <1>3, <1>4, <1>5, <1>6, <1>7, <1>8, <1>9, <1>10 DEF Revoking, Deletion

-----------------------------------------------------------------------------
(* Rows. *)

\* What the rows of the table are: the third and fourth conjuncts of TypeOK, and their type.
RowsOK ==
  /\ claims \in [Credentials -> ClaimRow]
  /\ \A k \in Credentials : Saved(k) => claims[k].nonce # None
  /\ \A j, k \in Credentials :
       Saved(j) /\ Saved(k) /\ IsAuth(j) /\ claims[j].key = claims[k].key => j = k

\* A new row is there, with its key and nonce, and the others are as they were.
Adds(k, x, n) ==
  /\ claims[k].row = "unused"
  /\ Saved(k)' /\ claims'[k].key = x /\ claims'[k].nonce = n
  /\ ~ claims'[k].published /\ ~ claims'[k].revoked
  /\ claims' \in [Credentials -> ClaimRow]
  /\ \A j \in Credentials : j # k => claims'[j] = claims[j]

\* A credential that is issued is such a row, without a key.
LEMMA IssuedRow ==
  ASSUME TypeOK, NEW k \in Credentials, NEW n \in Nonces, Issue(k, n)
  PROVE  Adds(k, None, n)
<1> DEFINE row == [NoClaim EXCEPT !.row = "saved", !.nonce = n]
<1>1. /\ row \in ClaimRow /\ row.row = "saved" /\ row.key = None /\ row.nonce = n
      /\ ~ row.published /\ ~ row.revoked
  BY DEF NoClaim, ClaimRow
<1>2. claims' = [claims EXCEPT ![k] = row] /\ claims[k].row = "unused"
  BY DEF Issue
<1> HIDE DEF row
<1> QED
  BY <1>1, <1>2 DEF Adds, Saved, TypeOK

\* A credential that authenticates the issuer is one with a key that no other row has.
LEMMA AuthRow ==
  ASSUME TypeOK, NEW k \in Credentials, NEW n \in Nonces, NEW x \in Keys, CreateAuthCredential(x, k, n)
  PROVE  Adds(k, x, n) /\ \A j \in Credentials : Saved(j) => claims[j].key # x
<1> DEFINE row == [NoClaim EXCEPT !.row = "saved", !.key = x, !.nonce = n]
<1>1. /\ row \in ClaimRow /\ row.row = "saved" /\ row.key = x /\ row.nonce = n
      /\ ~ row.published /\ ~ row.revoked
  BY DEF NoClaim, ClaimRow
<1>2. /\ claims' = [claims EXCEPT ![k] = row] /\ claims[k].row = "unused"
      /\ \A j \in Credentials : Saved(j) => claims[j].key # x
  BY DEF CreateAuthCredential
<1> HIDE DEF row
<1> QED
  BY <1>1, <1>2 DEF Adds, Saved, TypeOK

\* A publication leaves rows, keys, nonces and revocations as they were, and publishes
\* every row.
LEMMA PublishedRows ==
  ASSUME TypeOK, Publish, NEW k \in Credentials
  PROVE  /\ claims'[k] \in ClaimRow
         /\ claims'[k].row = claims[k].row /\ claims'[k].key = claims[k].key
         /\ claims'[k].nonce = claims[k].nonce /\ claims'[k].revoked = claims[k].revoked
         /\ claims'[k].published = (claims[k].published \/ Saved(k))
<1>1. claims[k] \in ClaimRow
  BY DEF TypeOK
<1>2. claims'[k] = IF Saved(k) /\ ~ claims[k].published
                   THEN [claims[k] EXCEPT !.published = TRUE] ELSE claims[k]
  BY DEF Publish
<1>3. CASE Saved(k) /\ ~ claims[k].published
  BY <1>1, <1>2, <1>3 DEF ClaimRow
<1>4. CASE ~ (Saved(k) /\ ~ claims[k].published)
  <2>1. claims'[k] = claims[k]
    BY <1>2, <1>4
  <2>2. claims[k].published = (claims[k].published \/ Saved(k))
    BY <1>1, <1>4, Zenon DEF ClaimRow
  <2> QED
    BY <1>1, <2>1, <2>2
<1> QED
  BY <1>3, <1>4

\* The rows that a revocation writes back.
LEMMA WrittenRows ==
  ASSUME IInv, NEW c \in Callers, SaveRevoked(c), NEW k \in Credentials
  PROVE  /\ claims'[k] \in ClaimRow
         /\ loc[c].copies[k].row # "saved" => claims'[k] = claims[k]
         /\ loc[c].copies[k].row = "saved" =>
              /\ Saved(k)' /\ claims'[k].revoked
              /\ claims'[k].key = loc[c].copies[k].key /\ claims'[k].nonce = loc[c].copies[k].nonce
              /\ claims'[k].published = loc[c].copies[k].published
              /\ loc[c].copies[k].nonce = loc[c].nonce /\ loc[c].nonce \in Nonces
              /\ claims[k].row # "unused"
              /\ Saved(k) => claims[k].key = loc[c].copies[k].key
                             /\ claims[k].nonce = loc[c].copies[k].nonce
<1>1. pc[c] = "save" /\ loc[c].copies[k] \in ClaimRow /\ claims[k] \in ClaimRow
  BY DEF IInv, SaveRevoked, TypeOK, Locals
<1>2. claims'[k] = IF loc[c].copies[k].row = "saved"
                   THEN [loc[c].copies[k] EXCEPT !.revoked = TRUE] ELSE claims[k]
  BY DEF SaveRevoked
<1>3. CASE loc[c].copies[k].row = "saved"
  <2>1. claims'[k] = [loc[c].copies[k] EXCEPT !.revoked = TRUE]
    BY <1>2, <1>3
  <2>2. /\ claims'[k] \in ClaimRow /\ claims'[k].row = "saved" /\ claims'[k].revoked
        /\ claims'[k].key = loc[c].copies[k].key /\ claims'[k].nonce = loc[c].copies[k].nonce
        /\ claims'[k].published = loc[c].copies[k].published
    BY <1>1, <1>3, <2>1 DEF ClaimRow
  <2>3. /\ loc[c].copies[k].nonce = loc[c].nonce /\ claims[k].row # "unused"
        /\ Saved(k) => claims[k].key = loc[c].copies[k].key /\ claims[k].nonce = loc[c].copies[k].nonce
    BY <1>1, <1>3 DEF IInv, CopiesSound
  <2>4. loc[c].nonce \in Nonces
    BY <1>1 DEF IInv, LocalsKnown
  <2> QED
    BY <1>3, <2>2, <2>3, <2>4 DEF Saved
<1>4. CASE loc[c].copies[k].row # "saved"
  BY <1>1, <1>2, <1>4
<1> QED
  BY <1>3, <1>4

\* A row that is deleted is gone, and the others are as they were.
LEMMA DeletedRow ==
  ASSUME IInv, NEW c \in Callers, DeleteRow(c)
  PROVE  /\ loc[c].cred \in Credentials /\ Saved(loc[c].cred)
         /\ claims'[loc[c].cred] = [NoClaim EXCEPT !.row = "deleted"]
         /\ claims'[loc[c].cred].row = "deleted" /\ claims'[loc[c].cred] \in ClaimRow
         /\ \A j \in Credentials : j # loc[c].cred => claims'[j] = claims[j]
<1>1. loc[c].cred \in Credentials /\ TypeOK /\ Saved(loc[c].cred)
  BY DEF IInv, LocalsKnown, DeleteRow
<1>2. claims' = [claims EXCEPT ![loc[c].cred] = [NoClaim EXCEPT !.row = "deleted"]]
  BY DEF DeleteRow
<1>3. claims'[loc[c].cred] = [NoClaim EXCEPT !.row = "deleted"]
  BY <1>1, <1>2 DEF TypeOK
<1>4. [NoClaim EXCEPT !.row = "deleted"] \in ClaimRow
      /\ [NoClaim EXCEPT !.row = "deleted"].row = "deleted"
  BY DEF NoClaim, ClaimRow
<1>5. \A j \in Credentials : j # loc[c].cred => claims'[j] = claims[j]
  BY <1>1, <1>2 DEF TypeOK
<1> QED
  BY <1>1, <1>3, <1>4, <1>5

\* Every step keeps the rows in order.
LEMMA RowsStep ==
  ASSUME IInv, [Next]_vars
  PROVE  RowsOK'
<1>0. TypeOK /\ RowsOK
  BY DEF IInv, TypeOK, RowsOK
<1>1. CASE claims' = claims
  BY <1>0, <1>1 DEF RowsOK, Saved, IsAuth
<1>2. ASSUME NEW k \in Credentials, NEW n \in Nonces, NEW x \in Keys \cup {None}, Adds(k, x, n),
             x # None => \A j \in Credentials : Saved(j) => claims[j].key # x
      PROVE  RowsOK'
  <2>1. \A j \in Credentials : Saved(j)' => claims'[j].nonce # None
    BY <1>0, <1>2, NoneAssumption DEF Adds, RowsOK, Saved
  <2>2. ASSUME NEW i \in Credentials, NEW j \in Credentials, Saved(i)', Saved(j)', IsAuth(i)',
               claims'[i].key = claims'[j].key
        PROVE  i = j
    BY <1>0, <1>2, <2>2 DEF Adds, RowsOK, Saved, IsAuth
  <2> QED
    BY <1>2, <2>1, <2>2 DEF RowsOK, Adds
<1>3. ASSUME NEW k \in Credentials, NEW n \in Nonces,
             Issue(k, n) \/ \E x \in Keys : CreateAuthCredential(x, k, n)
      PROVE  RowsOK'
  BY <1>0, <1>2, <1>3, IssuedRow, AuthRow
<1>4. CASE Publish
  <2>1. claims' \in [Credentials -> ClaimRow]
    BY <1>0, <1>4, PublishedRows DEF Publish
  <2> QED
    BY <1>0, <1>4, <2>1, PublishedRows DEF RowsOK, Saved, IsAuth
<1>5. ASSUME NEW c \in Callers, SaveRevoked(c) PROVE RowsOK'
  <2> DEFINE copies == loc[c].copies
  <2>1. claims' \in [Credentials -> ClaimRow]
    BY <1>5, WrittenRows DEF SaveRevoked
  <2>2. \A k \in Credentials : Saved(k)' => claims'[k].nonce # None
    BY <1>0, <1>5, WrittenRows, NoneAssumption DEF RowsOK, Saved
  <2>3. ASSUME NEW j \in Credentials, NEW k \in Credentials, Saved(j)', Saved(k)', IsAuth(j)',
               claims'[j].key = claims'[k].key
        PROVE  j = k
    <3>1. pc[c] = "save"
      BY <1>5 DEF SaveRevoked
    <3>2. ASSUME NEW a \in Credentials, NEW b \in Credentials, copies[a].row = "saved",
                 copies[b].row # "saved", copies[a].key # None, Saved(b)
          PROVE  claims[b].key # copies[a].key
      BY <1>5, <3>2 DEF SaveRevoked
    <3>3. CASE copies[j].row = "saved" /\ copies[k].row = "saved"
      BY <1>5, <2>3, <3>1, <3>3, WrittenRows DEF IInv, CopiesSound, IsAuth
    <3>4. CASE copies[j].row = "saved" /\ copies[k].row # "saved"
      BY <1>5, <2>3, <3>2, <3>4, WrittenRows DEF IsAuth, Saved
    <3>5. CASE copies[j].row # "saved" /\ copies[k].row = "saved"
      BY <1>5, <2>3, <3>2, <3>5, WrittenRows DEF IsAuth, Saved
    <3>6. CASE copies[j].row # "saved" /\ copies[k].row # "saved"
      BY <1>0, <1>5, <2>3, <3>6, WrittenRows DEF RowsOK, IsAuth, Saved
    <3> QED
      BY <3>3, <3>4, <3>5, <3>6
  <2> QED
    BY <2>1, <2>2, <2>3 DEF RowsOK
<1>6. ASSUME NEW c \in Callers, DeleteRow(c) PROVE RowsOK'
  <2>1. claims' \in [Credentials -> ClaimRow]
    BY <1>0, <1>6, DeletedRow DEF DeleteRow, TypeOK
  <2>2. \A j \in Credentials : Saved(j)' => claims'[j] = claims[j]
    BY <1>6, DeletedRow DEF Saved
  <2> QED
    BY <1>0, <2>1, <2>2 DEF RowsOK, Saved, IsAuth
<1> QED
  BY <1>1, <1>3, <1>4, <1>5, <1>6 DEF Next, CreateKey, Revoking, Revoke, RevokeAllFromConnection,
     RevokeNext, LoadTrees, RevokeClaim, Reread, CommitAll, Deletion, Delete, DeleteKey, RemoveKey, Abandon,
     tables, vars

\* The index of a row is a credential or a key.
LEMMA IndexType ==
  ASSUME NEW row \in ClaimRow, NEW k \in Credentials
  PROVE  Index(row, k) \in Credentials \cup Keys
BY DEF Index, ClaimRow

\* Every step keeps the types.
LEMMA TypeStep ==
  ASSUME IInv, [Next]_vars
  PROVE  TypeOK' /\ LocalsKnown'
<1>0. TypeOK /\ LocalsKnown /\ RowsOK'
  BY RowsStep DEF IInv
<1> USE DEF tables, trees, calls, history
<1>1. ASSUME NEW x \in Keys, CreateKey(x) PROVE TypeOK' /\ LocalsKnown'
  BY <1>0, <1>1 DEF CreateKey, TypeOK, LocalsKnown, RowsOK
<1>2. ASSUME NEW k \in Credentials, NEW n \in Nonces, Issue(k, n) PROVE TypeOK' /\ LocalsKnown'
  BY <1>0, <1>2 DEF Issue, TypeOK, LocalsKnown, RowsOK
<1>3. ASSUME NEW x \in Keys, NEW k \in Credentials, NEW n \in Nonces, CreateAuthCredential(x, k, n)
      PROVE  TypeOK' /\ LocalsKnown'
  BY <1>0, <1>3 DEF CreateAuthCredential, TypeOK, LocalsKnown, RowsOK
<1>4. CASE Publish
  <2>1. leaves' \subseteq Credentials \cup Keys
    <3>1. \A k \in Credentials : Index(claims[k], k) \in Credentials \cup Keys
      BY <1>0, IndexType DEF TypeOK
    <3> QED
      BY <1>0, <1>4, <3>1 DEF Publish, TypeOK
  <2>2. revocation' \in [Nonces -> Statuses]
    BY <1>0, <1>4 DEF Publish, TypeOK, Statuses
  <2> QED
    BY <1>0, <1>4, <2>1, <2>2 DEF Publish, TypeOK, LocalsKnown, RowsOK
<1>5. ASSUME NEW c \in Callers, Revoking(c) \/ Deletion(c) \/ Abandon(c)
      PROVE  TypeOK' /\ LocalsKnown'
  <2>0. /\ pc' \in [Callers -> Pcs] /\ loc' \in [Callers -> Locals]
        /\ \A d \in Callers : pc'[d] = "idle" => loc'[d] = NoLocals
        /\ LocalsKnown'
    BY <1>5, CallType
  <2> SUFFICES TypeOK'
    BY <2>0
  <2>1. loc[c] \in Locals
    BY <1>0 DEF TypeOK
  <2>2. \A d \in Callers : d # c => pc'[d] = pc[d] /\ loc'[d] = loc[d]
    BY <1>0, <1>5, CallType, Moves DEF Goes
  <2>3. ASSUME UNCHANGED <<keys, leaves, revocation, chain, trees, lost, erased, raced>>,
               overlapped' \in BOOLEAN, owner = c => pc'[c] # "idle" /\ loc'[c].tx
        PROVE  TypeOK'
    <3>1. \A d \in Callers : owner = d => pc'[d] # "idle" /\ loc'[d].tx
      BY <1>0, <2>2, <2>3 DEF TypeOK
    <3> QED
      BY <1>0, <2>0, <2>3, <3>1 DEF TypeOK, RowsOK
  <2>4. pc[c] = "idle" => owner # c
    BY <1>0 DEF TypeOK
  <2>5. ASSUME NEW n \in Nonces, Revoke(c, n) PROVE TypeOK'
    <3>1. owner # c /\ overlapped' \in BOOLEAN
      BY <1>0, <2>4, <2>5 DEF Revoke, Allow, TypeOK
    <3> QED
      BY <2>3, <2>5, <3>1 DEF Revoke, Allow
  <2>6. CASE RevokeAllFromConnection(c)
    BY <1>0, <2>3, <2>4, <2>6 DEF RevokeAllFromConnection, TypeOK
  <2>7. CASE RevokeNext(c)
    <3>1. PICK item \in loc[c].todo :
            /\ Allow(c, WithNonce(item[2]))
            /\ GoTo(c, "load", [loc[c] EXCEPT !.todo = @ \ {item}, !.nonce = item[2]])
      BY <2>7 DEF RevokeNext
    <3>2. pc'[c] = "load" /\ loc'[c].tx = loc[c].tx
      <4> DEFINE l == [loc[c] EXCEPT !.todo = @ \ {item}, !.nonce = item[2]]
      <4>1. l.tx = loc[c].tx
        BY <2>1 DEF Locals
      <4>2. pc'[c] = "load" /\ loc'[c] = l
        BY <1>0, <3>1, Moves
      <4> QED
        BY <4>1, <4>2
    <3>3. overlapped' \in BOOLEAN /\ (owner = c => loc[c].tx)
      BY <1>0, <3>1 DEF Allow, TypeOK
    <3> QED
      BY <2>3, <2>7, <3>1, <3>2, <3>3 DEF RevokeNext, Allow
  <2>8. CASE LoadTrees(c)
    <3>1. pc'[c] = "add" /\ loc'[c].tx = loc[c].tx
      BY <1>0, <2>1, <2>8, Moves DEF LoadTrees, Locals
    <3> QED
      BY <1>0, <2>3, <2>8, <3>1 DEF LoadTrees, TypeOK
  <2>9. CASE RevokeClaim(c)
    <3>1. pc'[c] = "reread" /\ loc'[c].tx = loc[c].tx
      BY <1>0, <2>1, <2>9, Moves DEF RevokeClaim, Locals
    <3>2. loc[c].root \cup {loc[c].nonce} \subseteq Nonces
      BY <1>0, <2>1, <2>9 DEF RevokeClaim, LocalsKnown, Locals
    <3>3. /\ tree' \subseteq Nonces /\ txTree' \subseteq Nonces /\ lost' \subseteq Nonces
          /\ owner' = owner \/ (owner' = c /\ loc[c].tx)
      BY <1>0, <2>9, <3>2 DEF RevokeClaim, TypeOK
    <3>4. \A d \in Callers : owner' = d => pc'[d] # "idle" /\ loc'[d].tx
      BY <1>0, <2>2, <3>1, <3>3 DEF TypeOK
    <3> QED
      BY <1>0, <2>0, <2>9, <3>3, <3>4 DEF RevokeClaim, TypeOK, RowsOK
  <2>10. CASE Reread(c)
    <3>1. pc'[c] = "save" /\ loc'[c].tx = loc[c].tx
      BY <1>0, <2>1, <2>10, Moves DEF Reread, Locals
    <3> QED
      BY <1>0, <2>3, <2>10, <3>1 DEF Reread, TypeOK
  <2>11. CASE SaveRevoked(c)
    <3> DEFINE copies == loc[c].copies
    <3>0. loc[c].nonce \in Nonces /\ \A k \in Credentials : copies[k] \in ClaimRow
      BY <1>0, <2>1, <2>11 DEF SaveRevoked, LocalsKnown, Locals
    <3>1. revocation' \in [Nonces -> Statuses]
      BY <1>0, <2>11, <3>0 DEF SaveRevoked, TypeOK, Statuses
    <3>2. erased' \subseteq Credentials \cup Keys
      <4>1. \A k \in Credentials : Index(claims[k], k) \in Credentials \cup Keys
        BY <1>0, IndexType DEF TypeOK
      <4> QED
        BY <1>0, <2>11, <4>1 DEF SaveRevoked, TypeOK
    <3>3. raced' \subseteq Keys
      <4>1. \A k \in Credentials : copies[k].key \in Keys \cup {None}
        BY <3>0 DEF ClaimRow
      <4> QED
        BY <1>0, <2>11, <4>1 DEF SaveRevoked, TypeOK
    <3>4. owner = c => pc'[c] # "idle" /\ loc'[c].tx
      <4>1. CASE loc[c].tx
        <5>1. GoTo(c, "next", [loc[c] EXCEPT !.nonce = None, !.copies = NoCopies])
          BY <2>11, <4>1 DEF SaveRevoked
        <5>2. [loc[c] EXCEPT !.nonce = None, !.copies = NoCopies].tx = loc[c].tx
          BY <2>1 DEF Locals
        <5>3. pc'[c] = "next" /\ loc'[c].tx = loc[c].tx
          BY <1>0, <5>1, <5>2, Moves
        <5> QED
          BY <4>1, <5>3
      <4>2. CASE ~ loc[c].tx
        BY <1>0, <4>2 DEF TypeOK
      <4> QED
        BY <4>1, <4>2
    <3>5. \A d \in Callers : owner = d => pc'[d] # "idle" /\ loc'[d].tx
      BY <1>0, <2>2, <3>4 DEF TypeOK
    <3> QED
      BY <1>0, <2>0, <2>11, <3>1, <3>2, <3>3, <3>5 DEF SaveRevoked, TypeOK, RowsOK
  <2>12. CASE CommitAll(c)
    BY <1>0, <2>0, <2>12, NoneAssumption DEF CommitAll, TypeOK, RowsOK
  <2>13. ASSUME NEW k \in Credentials, Delete(c, k) PROVE TypeOK'
    <3>1. owner # c /\ overlapped' \in BOOLEAN
      BY <1>0, <2>4, <2>13 DEF Delete, Allow, TypeOK
    <3> QED
      BY <2>3, <2>13, <3>1 DEF Delete, Allow
  <2>14. CASE DeleteRow(c) \/ RemoveKey(c)
    <3>1. \A d \in Callers : owner = d => pc'[d] # "idle" /\ loc'[d].tx
      <4>1. ~ loc[c].tx
        BY <1>0, <2>14 DEF DeleteRow, RemoveKey, LocalsKnown
      <4> QED
        BY <1>0, <2>2, <4>1 DEF TypeOK
    <3>2. CASE DeleteRow(c)
      <4>1. loc[c].cred \in Credentials
        BY <3>2, DeletedRow
      <4>2. Index(claims[loc[c].cred], loc[c].cred) \in Credentials \cup Keys
        BY <1>0, <4>1, IndexType DEF TypeOK
      <4>3. erased' \subseteq Credentials \cup Keys
        BY <1>0, <3>2, <4>2 DEF DeleteRow, TypeOK
      <4> QED
        BY <1>0, <2>0, <3>1, <3>2, <4>3 DEF DeleteRow, TypeOK, RowsOK
    <3>3. CASE RemoveKey(c)
      BY <1>0, <2>0, <3>1, <3>3 DEF RemoveKey, TypeOK, RowsOK
    <3> QED
      BY <2>14, <3>2, <3>3
  <2>15. ASSUME NEW x \in Keys, DeleteKey(c, x) PROVE TypeOK'
    BY <1>0, <2>3, <2>4, <2>15 DEF DeleteKey, TypeOK
  <2>16. CASE Abandon(c)
    <3>1. pc'[c] = "idle" /\ loc'[c] = NoLocals
      BY <1>0, <2>16, Moves DEF Abandon, Return
    <3>2. CASE owner = c
      BY <1>0, <2>0, <2>16, <3>2, NoneAssumption DEF Abandon, TypeOK, RowsOK
    <3>3. CASE owner # c
      <4>1. \A d \in Callers : owner = d => pc'[d] # "idle" /\ loc'[d].tx
        BY <1>0, <2>2, <3>3 DEF TypeOK
      <4> QED
        BY <1>0, <2>0, <2>16, <3>3, <4>1 DEF Abandon, TypeOK, RowsOK
    <3> QED
      BY <3>2, <3>3
  <2> QED
    BY <1>5, <2>0, <2>5, <2>6, <2>7, <2>8, <2>9, <2>10, <2>11, <2>12, <2>13, <2>14, <2>15, <2>16
    DEF Revoking, Deletion
<1>6. CASE UNCHANGED vars
  BY <1>0, <1>6 DEF vars, TypeOK, LocalsKnown, RowsOK
<1> QED
  BY <1>1, <1>2, <1>3, <1>4, <1>5, <1>6 DEF Next

-----------------------------------------------------------------------------
(* The rows that calls hold. *)

\* A row that is not new in a step was there before, with the same key and nonce.
LEMMA RowsGoOn ==
  ASSUME IInv, [Next]_vars, NEW k \in Credentials, claims[k].row # "unused"
  PROVE  /\ claims'[k].row # "unused"
         /\ Saved(k)' => \/ Saved(k) /\ claims'[k].key = claims[k].key
                            /\ claims'[k].nonce = claims[k].nonce
                         \/ \E c \in Callers :
                              /\ pc[c] = "save" /\ loc[c].copies[k].row = "saved"
                              /\ claims'[k].key = loc[c].copies[k].key
                              /\ claims'[k].nonce = loc[c].copies[k].nonce
<1>0. TypeOK
  BY DEF IInv
<1>1. CASE claims'[k] = claims[k]
  BY <1>1 DEF Saved
<1>2. CASE \E j \in Credentials, n \in Nonces :
             Issue(j, n) \/ \E x \in Keys : CreateAuthCredential(x, j, n)
  <2>1. claims'[k] = claims[k]
    BY <1>0, <1>2, IssuedRow, AuthRow DEF Adds
  <2> QED
    BY <1>1, <2>1
<1>3. CASE Publish
  BY <1>0, <1>3, PublishedRows DEF Saved
<1>4. ASSUME NEW c \in Callers, SaveRevoked(c)
      PROVE  claims'[k] = claims[k] \/
             /\ pc[c] = "save" /\ loc[c].copies[k].row = "saved" /\ Saved(k)'
             /\ claims'[k].key = loc[c].copies[k].key
             /\ claims'[k].nonce = loc[c].copies[k].nonce
  BY <1>4, WrittenRows DEF SaveRevoked
<1>5. ASSUME NEW c \in Callers, DeleteRow(c)
      PROVE  claims'[k] = claims[k] \/ claims'[k].row = "deleted"
  BY <1>5, DeletedRow
<1>6. CASE claims' = claims
  BY <1>1, <1>6
<1> QED
  <2>1. CASE \E c \in Callers : Revoking(c) \/ Deletion(c) \/ Abandon(c)
    <3>1. CASE \E c \in Callers : SaveRevoked(c)
      BY <1>1, <1>4, <3>1 DEF Saved
    <3>2. CASE \E c \in Callers : DeleteRow(c)
      BY <1>1, <1>5, <3>2 DEF Saved
    <3> QED
      BY <1>6, <2>1, <3>1, <3>2 DEF Revoking, Revoke, RevokeAllFromConnection, RevokeNext, LoadTrees,
         RevokeClaim, Reread, CommitAll, Deletion, Delete, DeleteKey, RemoveKey, Abandon, tables
  <2>2. CASE ~ \E c \in Callers : Revoking(c) \/ Deletion(c) \/ Abandon(c)
    BY <1>2, <1>3, <1>6, <2>2 DEF Next, CreateKey, vars, tables
  <2> QED
    BY <2>1, <2>2

\* A call comes to save rows only by reading them.
LEMMA Rereads ==
  ASSUME IInv, [Next]_vars, NEW c \in Callers, pc'[c] = "save"
  PROVE  \/ pc[c] = "save" /\ loc'[c] = loc[c]
         \/ /\ claims' = claims /\ loc'[c].nonce = loc[c].nonce
            /\ \A d \in Callers : d # c => pc'[d] = pc[d] /\ loc'[d] = loc[d]
            /\ \A k \in Credentials : loc'[c].copies[k].row = "saved" =>
                 /\ loc'[c].copies[k] = claims[k] /\ Saved(k)
                 /\ claims[k].nonce = loc[c].nonce
<1>0. TypeOK
  BY DEF IInv
<1>1. CASE pc' = pc /\ loc' = loc
  BY <1>1
<1>2. CASE \E d \in Callers : Revoking(d) \/ Deletion(d) \/ Abandon(d)
  <2>1. PICK d \in Callers : Revoking(d) \/ Deletion(d) \/ Abandon(d)
    BY <1>2
  <2>2. CASE d # c
    <3>1. PICK label \in Pcs, l \in Locals : Goes(d, label, l)
      BY <2>1, CallType
    <3> QED
      BY <1>0, <2>2, <3>1, Moves DEF Goes
  <2>3. CASE d = c
    <3>1. ASSUME NEW label, NEW l, GoTo(c, label, l) PROVE label = "save"
      BY <1>0, <3>1, Moves
    <3>2. Reread(c)
      BY <2>1, <2>3, <3>1 DEF Revoking, Revoke, RevokeAllFromConnection, RevokeNext, LoadTrees, RevokeClaim,
         SaveRevoked, CommitAll, Deletion, Delete, DeleteRow, DeleteKey, RemoveKey, Abandon, Return
    <3> DEFINE copies == [k \in Credentials |->
                 IF k \in WithNonce(loc[c].nonce) THEN claims[k] ELSE NoClaim]
               l == [loc[c] EXCEPT !.copies = copies]
    <3>3. GoTo(c, "save", l) /\ claims' = claims
      BY <3>2 DEF Reread, tables
    <3>4. l.copies = copies /\ l.nonce = loc[c].nonce
      BY <1>0 DEF TypeOK, Locals
    <3>5. loc'[c] = l /\ \A e \in Callers : e # c => pc'[e] = pc[e] /\ loc'[e] = loc[e]
      BY <1>0, <3>3, Moves
    <3>6. ASSUME NEW k \in Credentials, copies[k].row = "saved"
          PROVE  copies[k] = claims[k] /\ Saved(k) /\ claims[k].nonce = loc[c].nonce
      BY <3>6 DEF WithNonce, NoClaim
    <3> HIDE DEF l, copies
    <3> QED
      BY <3>3, <3>4, <3>5, <3>6
  <2> QED
    BY <2>2, <2>3
<1> QED
  BY <1>1, <1>2 DEF Next, CreateKey, Issue, CreateAuthCredential, Publish, calls, vars

\* Every step keeps what the held rows are.
LEMMA CopiesStep ==
  ASSUME IInv, [Next]_vars
  PROVE  CopiesSound' /\ CopiesAgree'
<1>0. TypeOK /\ CopiesSound /\ CopiesAgree
  BY DEF IInv
<1>1. ASSUME NEW c \in Callers, pc'[c] = "save", NEW k \in Credentials, loc'[c].copies[k].row = "saved"
      PROVE  /\ loc'[c].copies[k].nonce = loc'[c].nonce
             /\ claims'[k].row # "unused"
             /\ Saved(k)' => /\ claims'[k].key = loc'[c].copies[k].key
                             /\ claims'[k].nonce = loc'[c].copies[k].nonce
  <2>1. CASE pc[c] = "save" /\ loc'[c] = loc[c]
    <3>1. /\ loc[c].copies[k].nonce = loc[c].nonce /\ claims[k].row # "unused"
          /\ Saved(k) => claims[k].key = loc[c].copies[k].key /\ claims[k].nonce = loc[c].copies[k].nonce
      BY <1>0, <1>1, <2>1 DEF CopiesSound
    <3> QED
      BY <1>0, <1>1, <2>1, <3>1, RowsGoOn DEF CopiesAgree
  <2>2. CASE ~ (pc[c] = "save" /\ loc'[c] = loc[c])
    BY <1>1, <2>2, Rereads DEF Saved
  <2> QED
    BY <2>1, <2>2
<1>2. ASSUME NEW c \in Callers, pc'[c] = "save", NEW j \in Credentials, NEW k \in Credentials,
             loc'[c].copies[j].row = "saved", loc'[c].copies[k].row = "saved",
             loc'[c].copies[j].key # None, loc'[c].copies[j].key = loc'[c].copies[k].key
      PROVE  j = k
  <2>1. CASE pc[c] = "save" /\ loc'[c] = loc[c]
    BY <1>0, <1>2, <2>1 DEF CopiesSound
  <2>2. CASE ~ (pc[c] = "save" /\ loc'[c] = loc[c])
    BY <1>0, <1>2, <2>2, Rereads DEF TypeOK, IsAuth
  <2> QED
    BY <2>1, <2>2
<1>3. CopiesSound'
  BY <1>1, <1>2 DEF CopiesSound
<1>4. ASSUME NEW c \in Callers, NEW d \in Callers, pc'[c] = "save", pc'[d] = "save",
             NEW k \in Credentials, loc'[c].copies[k].row = "saved", loc'[d].copies[k].row = "saved"
      PROVE  /\ loc'[c].copies[k].key = loc'[d].copies[k].key
             /\ loc'[c].copies[k].nonce = loc'[d].copies[k].nonce
  <2>1. CASE pc[c] = "save" /\ loc'[c] = loc[c] /\ pc[d] = "save" /\ loc'[d] = loc[d]
    BY <1>0, <1>4, <2>1 DEF CopiesAgree
  <2>2. CASE ~ (pc[c] = "save" /\ loc'[c] = loc[c]) \/ ~ (pc[d] = "save" /\ loc'[d] = loc[d])
    <3>1. claims' = claims /\ Saved(k)
      BY <1>4, <2>2, Rereads
    <3> QED
      BY <1>1, <1>4, <3>1 DEF Saved
  <2> QED
    BY <2>1, <2>2
<1>5. CopiesAgree'
  BY <1>4 DEF CopiesAgree
<1> QED
  BY <1>3, <1>5

-----------------------------------------------------------------------------
(* The revocation tree. *)

\* What holds of the tree for one call.
TreeFits(c) ==
  /\ pc[c] \in {"reread", "save"} => loc[c].nonce \in tree \cup txTree \cup lost
  /\ pc[c] \in {"reread", "save"} /\ loc[c].tx => owner = c
  /\ pc[c] = "next" /\ loc[c].todo = {} => owner = c
  /\ pc[c] = "add" /\ owner = c => loc[c].root = txTree

\* Every step keeps revoked nonces in the tree, in a transaction's, or among the lost.
LEMMA TreesStep ==
  ASSUME IInv, [Next]_vars
  PROVE  TreesSound' /\ RevokedIsLeaf'
<1>0. /\ TypeOK /\ RevokedIsLeaf /\ LocalsKnown
      /\ owner = None => txTree = {}
      /\ \A c \in Callers : TreeFits(c) /\ c # None
      /\ chain \subseteq tree \cup lost
  BY NoneAssumption DEF IInv, TreesSound, TreeFits
<1> USE DEF tables, trees, calls, history
<1> SUFFICES /\ owner' = None => txTree' = {}
             /\ \A c \in Callers : TreeFits(c)'
             /\ chain' \subseteq tree' \cup lost'
             /\ RevokedIsLeaf'
  BY DEF TreesSound, TreeFits
<1>1. CASE UNCHANGED <<calls, trees, lost, chain, revocation>>
  BY <1>0, <1>1 DEF TreeFits, RevokedIsLeaf
<1>2. CASE Publish
  BY <1>0, <1>2 DEF Publish, TreeFits, RevokedIsLeaf, TypeOK, Statuses
<1>3. ASSUME NEW c \in Callers, Revoking(c) \/ Deletion(c) \/ Abandon(c)
      PROVE  /\ owner' = None => txTree' = {}
             /\ \A d \in Callers : TreeFits(d)'
             /\ chain' \subseteq tree' \cup lost'
             /\ RevokedIsLeaf'
  <2>0. loc[c] \in Locals /\ \A d \in Callers : d # c => pc'[d] = pc[d] /\ loc'[d] = loc[d]
    BY <1>0, <1>3, CallType, Moves DEF Goes, TypeOK
  <2>1. ASSUME UNCHANGED <<trees, lost, chain, revocation>>, TreeFits(c)'
        PROVE  /\ owner' = None => txTree' = {}
               /\ \A d \in Callers : TreeFits(d)'
               /\ chain' \subseteq tree' \cup lost'
               /\ RevokedIsLeaf'
    <3>1. \A d \in Callers : d # c => TreeFits(d)'
      BY <1>0, <2>0, <2>1 DEF TreeFits
    <3> QED
      BY <1>0, <2>1, <3>1 DEF RevokedIsLeaf
  <2>2. ASSUME NEW label, NEW l, GoTo(c, label, l), UNCHANGED <<trees, lost, chain, revocation>>,
               label \in {"idle", "load", "delete", "key"} \/ (label = "next" /\ l.todo # {})
        PROVE  /\ owner' = None => txTree' = {}
               /\ \A d \in Callers : TreeFits(d)'
               /\ chain' \subseteq tree' \cup lost'
               /\ RevokedIsLeaf'
    <3>1. pc'[c] = label /\ loc'[c] = l
      BY <1>0, <2>2, Moves
    <3>2. TreeFits(c)'
      BY <2>2, <3>1 DEF TreeFits
    <3> QED
      BY <2>1, <2>2, <3>2
  <2>3. CASE (\E n \in Nonces : Revoke(c, n)) \/ RevokeNext(c) \/ DeleteRow(c) \/ RemoveKey(c)
               \/ (\E k \in Credentials : Delete(c, k)) \/ (\E x \in Keys : DeleteKey(c, x))
    BY <2>2, <2>3 DEF Revoke, RevokeNext, DeleteRow, RemoveKey, Delete, DeleteKey, Allow, Return
  <2>4. CASE RevokeAllFromConnection(c)
    <3> DEFINE creds == {k \in Credentials : Saved(k) /\ ~ IsAuth(k) /\ ~ claims[k].revoked}
               todo == {<<k, claims[k].nonce>> : k \in creds}
               l == [NoLocals EXCEPT !.tx = TRUE, !.todo = todo]
    <3>1. todo # {}
      BY <2>4 DEF RevokeAllFromConnection
    <3> HIDE DEF todo
    <3>2. l.todo # {}
      BY <3>1 DEF NoLocals
    <3>3. GoTo(c, "next", l)
      BY <2>4 DEF RevokeAllFromConnection, todo
    <3> QED
      BY <2>2, <2>4, <3>2, <3>3 DEF RevokeAllFromConnection
  <2>5. CASE LoadTrees(c)
    <3>1. pc'[c] = "add" /\ loc'[c].root = IF owner = c THEN txTree ELSE tree
      BY <1>0, <2>0, <2>5, Moves DEF LoadTrees, Locals
    <3>2. TreeFits(c)'
      BY <2>5, <3>1 DEF LoadTrees, TreeFits
    <3> QED
      BY <2>1, <2>5, <3>2 DEF LoadTrees
  <2>6. CASE Reread(c)
    <3> DEFINE copies == [k \in Credentials |->
                 IF k \in WithNonce(loc[c].nonce) THEN claims[k] ELSE NoClaim]
    <3>0. GoTo(c, "save", [loc[c] EXCEPT !.copies = copies])
      BY <2>6 DEF Reread
    <3> HIDE DEF copies
    <3>1. pc[c] = "reread" /\ pc'[c] = "save" /\ loc'[c].nonce = loc[c].nonce /\ loc'[c].tx = loc[c].tx
      BY <1>0, <2>0, <2>6, <3>0, Moves DEF Reread, Locals
    <3>2. TreeFits(c)'
      BY <1>0, <2>6, <3>1 DEF Reread, TreeFits
    <3> QED
      BY <2>1, <2>6, <3>2 DEF Reread
  <2>7. CASE SaveRevoked(c)
    <3>1. /\ pc[c] = "save" /\ UNCHANGED <<trees, lost, chain>>
          /\ revocation' = [revocation EXCEPT ![loc[c].nonce] = "pending"]
      BY <2>7 DEF SaveRevoked
    <3>2. loc[c].nonce \in tree \cup txTree \cup lost
      BY <1>0, <3>1 DEF TreeFits
    <3>3. RevokedIsLeaf'
      BY <1>0, <3>1, <3>2 DEF RevokedIsLeaf, TypeOK
    <3>4. TreeFits(c)'
      <4>1. CASE loc[c].tx
        <5>1. pc'[c] = "next"
          BY <1>0, <2>7, <4>1, Moves DEF SaveRevoked
        <5> QED
          BY <1>0, <3>1, <4>1, <5>1 DEF TreeFits
      <4>2. CASE ~ loc[c].tx
        <5>1. pc'[c] = "idle"
          BY <1>0, <2>7, <4>2, Moves DEF SaveRevoked, Return
        <5> QED
          BY <5>1 DEF TreeFits
      <4> QED
        BY <4>1, <4>2
    <3>5. \A d \in Callers : d # c => TreeFits(d)'
      BY <1>0, <2>0, <3>1 DEF TreeFits
    <3> QED
      BY <1>0, <3>1, <3>3, <3>4, <3>5
  <2>8. CASE RevokeClaim(c)
    <3> DEFINE root == loc[c].root \cup {loc[c].nonce}
    <3>1. /\ pc[c] = "add" /\ owner \in {None, c} /\ UNCHANGED <<chain, revocation>>
          /\ IF loc[c].tx
             THEN owner' = c /\ txTree' = root /\ UNCHANGED <<tree, lost>>
             ELSE tree' = root /\ lost' = lost \cup (tree \ root) /\ UNCHANGED <<owner, txTree>>
      BY <2>8 DEF RevokeClaim
    <3>2. pc'[c] = "reread" /\ loc'[c].nonce = loc[c].nonce /\ loc'[c].tx = loc[c].tx
      BY <1>0, <2>0, <2>8, Moves DEF RevokeClaim, Locals
    <3>3. txTree \subseteq loc[c].root \/ ~ loc[c].tx
      BY <1>0, <3>1 DEF TreeFits
    <3>4. tree \cup txTree \cup lost \subseteq tree' \cup txTree' \cup lost'
          /\ tree \cup lost \subseteq tree' \cup lost'
      BY <3>1, <3>3
    <3>5. TreeFits(c)'
      BY <3>1, <3>2, <1>0 DEF TreeFits, TypeOK
    <3>6. ASSUME NEW d \in Callers, d # c PROVE TreeFits(d)'
      <4>1. owner # d /\ owner' # d
        BY <1>0, <3>1, <3>6
      <4> QED
        BY <1>0, <2>0, <3>4, <3>6, <4>1 DEF TreeFits
    <3>7. owner' = None => txTree' = {}
      BY <1>0, <3>1
    <3> QED
      BY <1>0, <3>1, <3>4, <3>5, <3>6, <3>7 DEF RevokedIsLeaf
  <2>9. CASE CommitAll(c) \/ Abandon(c)
    <3>0. pc'[c] = "idle"
      BY <1>0, <2>9, Moves DEF CommitAll, Abandon, Return
    <3>1. CASE owner = c
      <4>1. /\ tree \cup txTree \cup lost \subseteq tree' \cup lost'
            /\ owner' = None /\ txTree' = {} /\ UNCHANGED <<chain, revocation>>
            /\ tree \cup lost \subseteq tree' \cup lost'
        BY <2>9, <3>1 DEF CommitAll, Abandon
      <4>2. ASSUME NEW d \in Callers PROVE TreeFits(d)'
        <5>1. CASE d = c
          BY <3>0, <5>1 DEF TreeFits
        <5>2. CASE d # c
          BY <1>0, <2>0, <3>1, <4>1, <5>2 DEF TreeFits
        <5> QED
          BY <5>1, <5>2
      <4> QED
        BY <1>0, <4>1, <4>2 DEF RevokedIsLeaf
    <3>2. CASE owner # c
      <4>1. Abandon(c)
        BY <1>0, <2>9, <3>2 DEF CommitAll, TreeFits
      <4>2. UNCHANGED <<trees, lost, chain, revocation>>
        BY <3>2, <4>1 DEF Abandon
      <4>3. TreeFits(c)'
        BY <3>0 DEF TreeFits
      <4> QED
        BY <2>1, <4>2, <4>3
    <3> QED
      BY <3>1, <3>2
  <2> QED
    BY <1>3, <2>3, <2>4, <2>5, <2>6, <2>7, <2>8, <2>9 DEF Revoking, Deletion
<1> QED
  BY <1>1, <1>2, <1>3 DEF Next, CreateKey, Issue, CreateAuthCredential, vars

-----------------------------------------------------------------------------
(* The claims tree. *)

\* Credentials and keys are not mixed up as indexes.
LEMMA Indexes ==
  ASSUME NEW row \in ClaimRow, NEW k \in Credentials
  PROVE  /\ row.key = None => Index(row, k) = k /\ k \notin Keys
         /\ row.key # None => Index(row, k) = row.key /\ row.key \in Keys /\ row.key \notin Credentials
BY DisjointAssumption DEF Index, ClaimRow

\* Every step keeps the leaves those of published credentials, and the others without.
LEMMA LeavesStep ==
  ASSUME IInv, [Next]_vars
  PROVE  LeavesSound' /\ NoSecondLeaf'
<1>0. /\ TypeOK /\ LeavesSound /\ NoSecondLeaf /\ CopiesSound
      /\ \A k \in Credentials : claims[k] \in ClaimRow
  BY DEF IInv, TypeOK
<1>1. CASE UNCHANGED <<claims, leaves, erased>>
  BY <1>0, <1>1 DEF LeavesSound, NoSecondLeaf, Saved
<1>2. ASSUME NEW k \in Credentials, NEW n \in Nonces, NEW x \in Keys \cup {None}, Adds(k, x, n),
             x # None => \A j \in Credentials : Saved(j) => claims[j].key # x,
             UNCHANGED <<leaves, erased>>
      PROVE  LeavesSound' /\ NoSecondLeaf'
  <2>1. claims'[k] \in ClaimRow /\ ~ Saved(k)
    BY <1>2 DEF Adds, Saved
  <2>2. LeavesSound'
    BY <1>0, <1>2, <2>1 DEF LeavesSound, Adds, Saved
  <2>3. ASSUME NEW j \in Credentials, Saved(j) PROVE Index(claims[j], j) # Index(claims'[k], k)
    <3>1. CASE x = None
      BY <1>0, <1>2, <2>1, <2>3, <3>1, Indexes DEF Adds
    <3>2. CASE x # None
      BY <1>0, <1>2, <2>1, <2>3, <3>2, Indexes DEF Adds
    <3> QED
      BY <3>1, <3>2
  <2>4. Index(claims'[k], k) \notin leaves \ erased
    BY <1>0, <2>3 DEF LeavesSound
  <2>5. NoSecondLeaf'
    BY <1>0, <1>2, <2>4 DEF NoSecondLeaf, Adds, Saved
  <2> QED
    BY <2>2, <2>5
<1>3. CASE Publish
  <2> DEFINE new == {k \in Credentials : Saved(k) /\ ~ claims[k].published}
  <2>1. leaves' = leaves \cup {Index(claims[k], k) : k \in new} /\ erased' = erased
    BY <1>3 DEF Publish, history
  <2>2. ASSUME NEW k \in Credentials
        PROVE  /\ Saved(k)' = Saved(k) /\ Index(claims'[k], k) = Index(claims[k], k)
               /\ Saved(k) => claims'[k].published
    <3>1. claims'[k].row = claims[k].row /\ claims'[k].key = claims[k].key
      BY <1>0, <1>3, PublishedRows
    <3>2. claims'[k].published = (claims[k].published \/ Saved(k))
      BY <1>0, <1>3, PublishedRows
    <3>3. Saved(k) => claims'[k].published
      BY <3>2, Zenon
    <3> QED
      BY <3>1, <3>3 DEF Saved, Index
  <2>3. ASSUME NEW i \in leaves' \ erased'
        PROVE  \E k \in Credentials : Saved(k) /\ Index(claims[k], k) = i
    BY <1>0, <2>1 DEF LeavesSound
  <2>4. LeavesSound'
    BY <2>2, <2>3 DEF LeavesSound
  <2>5. NoSecondLeaf'
    BY <2>2 DEF NoSecondLeaf
  <2> QED
    BY <2>4, <2>5
<1>4. ASSUME NEW c \in Callers, SaveRevoked(c) PROVE LeavesSound' /\ NoSecondLeaf'
  <2> DEFINE copies == loc[c].copies
             again == {k \in Credentials : copies[k].row = "saved"}
  <2>1. /\ pc[c] = "save" /\ leaves' = leaves
        /\ \A k \in again, j \in Credentials \ again :
             copies[k].key # None /\ Saved(j) => claims[j].key # copies[k].key
        /\ erased' = erased \cup {Index(claims[k], k) :
             k \in {k \in again : claims[k].published /\ ~ copies[k].published}}
    BY <1>4 DEF SaveRevoked
  <2>2. \A k \in Credentials :
          /\ claims'[k] \in ClaimRow
          /\ k \notin again => claims'[k] = claims[k]
          /\ k \in again => /\ claims'[k].key = copies[k].key
                            /\ claims'[k].published = copies[k].published
                            /\ Saved(k)'
                            /\ Saved(k) => claims[k].key = copies[k].key
    BY <1>4, WrittenRows
  <2>3. ASSUME NEW k \in again, Saved(k)
        PROVE  Index(claims'[k], k) = Index(claims[k], k)
    BY <2>2, <2>3 DEF Index
  <2>4. ASSUME NEW k \in again, claims[k].published, ~ copies[k].published
        PROVE  Index(claims[k], k) \in erased'
    BY <2>1, <2>4
  <2>5. ASSUME NEW i \in leaves' \ erased'
        PROVE  \E j \in Credentials : Saved(j)' /\ claims'[j].published /\ Index(claims'[j], j) = i
    <3>1. PICK j \in Credentials : Saved(j) /\ claims[j].published /\ Index(claims[j], j) = i
      BY <1>0, <2>1 DEF LeavesSound
    <3>2. CASE j \notin again
      BY <2>2, <3>1, <3>2 DEF Saved
    <3>3. CASE j \in again
      <4>1. copies[j].published
        BY <2>4, <3>1, <3>3
      <4> QED
        BY <2>2, <2>3, <3>1, <3>3, <4>1
    <3> QED
      BY <3>2, <3>3
  <2>6. ASSUME NEW k \in Credentials, Saved(k)', ~ claims'[k].published,
               Index(claims'[k], k) \in leaves' \ erased'
        PROVE  FALSE
    <3>1. CASE k \notin again
      BY <1>0, <2>1, <2>2, <2>6, <3>1 DEF NoSecondLeaf, Saved
    <3>2. CASE k \in again /\ Saved(k)
      <4>1. ~ copies[k].published
        BY <2>2, <2>6, <3>2
      <4>2. ~ claims[k].published
        BY <2>3, <2>4, <2>6, <3>2, <4>1
      <4> QED
        BY <1>0, <2>1, <2>3, <2>6, <3>2, <4>2 DEF NoSecondLeaf
    <3>3. CASE k \in again /\ ~ Saved(k)
      <4>1. PICK j \in Credentials : Saved(j) /\ Index(claims[j], j) = Index(claims'[k], k)
        BY <1>0, <2>1, <2>6 DEF LeavesSound
      <4>2. claims[j] \in ClaimRow /\ claims'[k] \in ClaimRow /\ j # k
        BY <1>0, <2>2, <3>3, <4>1
      <4>3. copies[k].key # None /\ claims[j].key = copies[k].key
        BY <2>2, <3>3, <4>1, <4>2, Indexes
      <4>4. j \in again
        BY <2>1, <3>3, <4>1, <4>3
      <4>5. copies[j].key = copies[k].key
        BY <2>2, <4>1, <4>3, <4>4
      <4> QED
        BY <1>0, <2>1, <3>3, <4>2, <4>3, <4>4, <4>5 DEF CopiesSound
    <3> QED
      BY <3>1, <3>2, <3>3
  <2> QED
    BY <2>5, <2>6 DEF LeavesSound, NoSecondLeaf
<1>5. ASSUME NEW c \in Callers, DeleteRow(c) PROVE LeavesSound' /\ NoSecondLeaf'
  <2> DEFINE k == loc[c].cred
  <2>1. /\ k \in Credentials /\ claims'[k].row = "deleted"
        /\ \A j \in Credentials : j # k => claims'[j] = claims[j]
    BY <1>5, DeletedRow
  <2>2. /\ leaves' = leaves
        /\ erased' = IF claims[k].published THEN erased \cup {Index(claims[k], k)} ELSE erased
    BY <1>5 DEF DeleteRow
  <2> HIDE DEF k
  <2> QED
    BY <1>0, <2>1, <2>2 DEF LeavesSound, NoSecondLeaf, Saved
<1> QED
  <2>1. CASE \E k \in Credentials, n \in Nonces : Issue(k, n)
    BY <1>0, <1>2, <2>1, IssuedRow DEF Issue, history
  <2>2. CASE \E k \in Credentials, n \in Nonces, x \in Keys : CreateAuthCredential(x, k, n)
    <3>1. PICK k \in Credentials, n \in Nonces, x \in Keys : CreateAuthCredential(x, k, n)
      BY <2>2
    <3>2. UNCHANGED <<leaves, erased>>
      BY <3>1 DEF CreateAuthCredential
    <3> QED
      BY <1>0, <1>2, <3>1, <3>2, AuthRow
  <2>3. CASE \E c \in Callers : Revoking(c) \/ Deletion(c) \/ Abandon(c)
    BY <1>1, <1>4, <1>5, <2>3 DEF Revoking, Revoke, RevokeAllFromConnection, RevokeNext, LoadTrees,
       RevokeClaim, Reread, CommitAll, Deletion, Delete, DeleteKey, RemoveKey, Abandon, Allow, tables, history
  <2> QED
    BY <1>1, <1>3, <2>1, <2>2, <2>3 DEF Next, CreateKey, vars, tables, history

-----------------------------------------------------------------------------
(* Keys. *)

\* The nonces that are lost or revoked on the chain, and the keys that were raced for,
\* stay so.
LEMMA HistoryGrows ==
  ASSUME IInv, [Next]_vars
  PROVE  lost \cup chain \subseteq lost' \cup chain' /\ raced \subseteq raced'
<1>1. chain \subseteq tree \cup lost
  BY DEF IInv, TreesSound
<1>2. CASE Publish
  BY <1>1, <1>2 DEF Publish, history
<1>3. CASE \E c \in Callers : Revoking(c) \/ Deletion(c) \/ Abandon(c)
  BY <1>3 DEF Revoking, Revoke, RevokeAllFromConnection, RevokeNext, LoadTrees, RevokeClaim, Reread, SaveRevoked,
     CommitAll, Deletion, Delete, DeleteRow, DeleteKey, RemoveKey, Abandon, Allow, tables, history
<1> QED
  BY <1>2, <1>3 DEF Next, CreateKey, Issue, CreateAuthCredential, vars, tables, history

\* A credential with a key was there before the step, or its key is in the history, or it
\* was created with a key that is kept and that no call is about to delete.
LEMMA RowWithKey ==
  ASSUME IInv, [Next]_vars, NEW k \in Credentials, Saved(k)', claims'[k].key # None
  PROVE  \/ Saved(k) /\ claims'[k].key = claims[k].key /\ claims'[k].nonce = claims[k].nonce
         \/ claims'[k].key \in raced'
         \/ /\ keys' = keys /\ keys[claims'[k].key] = "kept" /\ pc' = pc /\ loc' = loc
            /\ \A c \in Callers : pc[c] = "key" => loc[c].key # claims'[k].key
<1>0. TypeOK
  BY DEF IInv
<1>1. CASE claims' = claims
  BY <1>1 DEF Saved
<1>2. CASE \E j \in Credentials, n \in Nonces : Issue(j, n)
  BY <1>0, <1>2, IssuedRow DEF Adds, Saved
<1>3. CASE \E j \in Credentials, n \in Nonces, x \in Keys : CreateAuthCredential(x, j, n)
  <2>1. PICK j \in Credentials, n \in Nonces, x \in Keys : CreateAuthCredential(x, j, n)
    BY <1>3
  <2>2. CASE k = j
    <3>0. keys' = keys /\ keys[x] = "kept" /\ pc' = pc /\ loc' = loc
      BY <2>1 DEF CreateAuthCredential, calls
    <3>1. claims'[k].key = x
      BY <1>0, <2>1, <2>2, AuthRow DEF Adds
    <3>2. (\E d \in Callers : pc[d] = "key" /\ loc[d].key = x) => x \in raced'
      BY <2>1 DEF CreateAuthCredential
    <3> QED
      BY <3>0, <3>1, <3>2
  <2>3. CASE k # j
    BY <1>0, <2>1, <2>3, AuthRow DEF Adds, Saved
  <2> QED
    BY <2>2, <2>3
<1>4. CASE Publish
  BY <1>0, <1>4, PublishedRows DEF Saved
<1>5. ASSUME NEW c \in Callers, SaveRevoked(c)
      PROVE  \/ Saved(k) /\ claims'[k].key = claims[k].key /\ claims'[k].nonce = claims[k].nonce
             \/ claims'[k].key \in raced'
  <2> DEFINE copies == loc[c].copies
             again == {j \in Credentials : copies[j].row = "saved"}
  <2>1. raced' = raced \cup {copies[j].key : j \in {j \in again : ~ Saved(j) /\ copies[j].key # None}}
    BY <1>5 DEF SaveRevoked
  <2>2. CASE copies[k].row = "saved"
    BY <1>5, <2>1, <2>2, WrittenRows
  <2>3. CASE copies[k].row # "saved"
    BY <1>5, <2>3, WrittenRows DEF Saved
  <2> QED
    BY <2>2, <2>3
<1>6. ASSUME NEW c \in Callers, DeleteRow(c)
      PROVE  Saved(k) /\ claims'[k].key = claims[k].key /\ claims'[k].nonce = claims[k].nonce
  BY <1>6, DeletedRow DEF Saved
<1> QED
  <2>1. CASE \E c \in Callers : Revoking(c) \/ Deletion(c) \/ Abandon(c)
    BY <1>1, <1>5, <1>6, <2>1 DEF Revoking, Revoke, RevokeAllFromConnection, RevokeNext, LoadTrees,
       RevokeClaim, Reread, CommitAll, Deletion, Delete, DeleteKey, RemoveKey, Abandon, tables
  <2>2. CASE ~ \E c \in Callers : Revoking(c) \/ Deletion(c) \/ Abandon(c)
    BY <1>1, <1>2, <1>3, <1>4, <2>2 DEF Next, CreateKey, vars, tables
  <2> QED
    BY <2>1, <2>2

\* A call comes to delete a key only by finding every credential of it revoked on the chain.
LEMMA Deletes ==
  ASSUME IInv, [Next]_vars, NEW c \in Callers, pc'[c] = "key"
  PROVE  \/ pc[c] = "key" /\ loc'[c] = loc[c]
         \/ /\ claims' = claims /\ chain' = chain
            /\ \A k \in Credentials : Saved(k) /\ claims[k].key = loc'[c].key => claims[k].nonce \in chain
<1>0. TypeOK
  BY DEF IInv
<1>1. CASE pc' = pc /\ loc' = loc
  BY <1>1
<1>2. CASE \E d \in Callers : Revoking(d) \/ Deletion(d) \/ Abandon(d)
  <2>1. PICK d \in Callers : Revoking(d) \/ Deletion(d) \/ Abandon(d)
    BY <1>2
  <2>2. CASE d # c
    BY <1>0, <2>1, <2>2, CallType, Moves DEF Goes
  <2>3. CASE d = c
    <3>1. ASSUME NEW label, NEW l, GoTo(c, label, l) PROVE label = "key"
      BY <1>0, <3>1, Moves
    <3>2. \E x \in Keys : DeleteKey(c, x)
      BY <2>1, <2>3, <3>1 DEF Revoking, Revoke, RevokeAllFromConnection, RevokeNext, LoadTrees, RevokeClaim,
         Reread, SaveRevoked, CommitAll, Deletion, Delete, DeleteRow, RemoveKey, Abandon, Return
    <3>3. PICK x \in Keys : DeleteKey(c, x)
      BY <3>2
    <3>4. loc'[c] = [NoLocals EXCEPT !.key = x]
      BY <1>0, <3>3, Moves DEF DeleteKey
    <3>5. loc'[c].key = x
      BY <3>4 DEF NoLocals
    <3> QED
      BY <3>3, <3>5 DEF DeleteKey, KeyIsFree, tables
  <2> QED
    BY <2>2, <2>3
<1> QED
  BY <1>1, <1>2 DEF Next, CreateKey, Issue, CreateAuthCredential, Publish, calls, vars

\* A kept key stays kept but when a call deletes it.
LEMMA KeysStay ==
  ASSUME IInv, [Next]_vars, NEW x \in Keys, keys[x] = "kept"
  PROVE  keys'[x] = "kept" \/ \E c \in Callers : pc[c] = "key" /\ loc[c].key = x
<1>0. TypeOK
  BY DEF IInv
<1>1. CASE \E y \in Keys : CreateKey(y)
  BY <1>0, <1>1 DEF CreateKey, TypeOK
<1>2. ASSUME NEW c \in Callers, RemoveKey(c)
      PROVE  keys'[x] = "kept" \/ (pc[c] = "key" /\ loc[c].key = x)
  <2>1. pc[c] = "key" /\ loc[c].key \in Keys /\ keys' = [keys EXCEPT ![loc[c].key] = "deleted"]
    BY <1>2 DEF RemoveKey, IInv, LocalsKnown
  <2> QED
    BY <1>0, <2>1 DEF TypeOK
<1>3. CASE keys' = keys
  BY <1>3
<1> QED
  <2>1. CASE \E c \in Callers : Revoking(c) \/ Deletion(c) \/ Abandon(c)
    BY <1>2, <1>3, <2>1 DEF Revoking, Revoke, RevokeAllFromConnection, RevokeNext, LoadTrees,
       RevokeClaim, Reread, SaveRevoked, CommitAll, Deletion, Delete, DeleteRow, DeleteKey, Abandon, tables
  <2>2. CASE ~ \E c \in Callers : Revoking(c) \/ Deletion(c) \/ Abandon(c)
    BY <1>1, <1>3, <2>2 DEF Next, Issue, CreateAuthCredential, Publish, vars, tables
  <2> QED
    BY <2>1, <2>2

\* Every step keeps the keys of the credentials in force.
LEMMA KeysStep ==
  ASSUME IInv, [Next]_vars
  PROVE  DeletionsSound' /\ SigningKeyKept'
<1>0. /\ TypeOK /\ LocalsKnown /\ LocalsKnown' /\ DeletionsSound /\ SigningKeyKept
      /\ None \notin Keys
  BY TypeStep, NoneAssumption DEF IInv
<1>1. ASSUME NEW c \in Callers, NEW k \in Credentials, pc'[c] = "key", Saved(k)',
             claims'[k].key = loc'[c].key
      PROVE  claims'[k].nonce \in lost' \cup chain' \/ loc'[c].key \in raced'
  <2>1. loc'[c].key # None
    BY <1>0, <1>1 DEF LocalsKnown
  <2>2. CASE pc[c] = "key" /\ loc'[c] = loc[c]
    <3>1. CASE Saved(k) /\ claims'[k].key = claims[k].key /\ claims'[k].nonce = claims[k].nonce
      BY <1>0, <1>1, <2>2, <3>1, HistoryGrows DEF DeletionsSound
    <3> QED
      BY <1>1, <2>1, <2>2, <3>1, RowWithKey
  <2>3. CASE ~ (pc[c] = "key" /\ loc'[c] = loc[c])
    BY <1>1, <2>3, Deletes DEF Saved
  <2> QED
    BY <2>2, <2>3
<1>2. ASSUME NEW k \in Credentials, Saved(k)', IsAuth(k)', claims'[k].nonce \notin lost' \cup chain'
      PROVE  keys'[claims'[k].key] = "kept" \/ claims'[k].key \in raced'
  <2>1. CASE Saved(k) /\ claims'[k].key = claims[k].key /\ claims'[k].nonce = claims[k].nonce
    <3>1. claims[k].nonce \notin lost \cup chain /\ IsAuth(k) /\ claims[k].key \in Keys
      BY <1>0, <1>2, <2>1, HistoryGrows DEF IsAuth, TypeOK, ClaimRow
    <3>2. keys[claims[k].key] = "kept" \/ claims[k].key \in raced
      BY <1>0, <2>1, <3>1 DEF SigningKeyKept
    <3> QED
      BY <1>0, <2>1, <3>1, <3>2, KeysStay, HistoryGrows DEF DeletionsSound
  <2> QED
    BY <1>2, <2>1, RowWithKey DEF IsAuth
<1>3. DeletionsSound'
  BY <1>1 DEF DeletionsSound
<1>4. SigningKeyKept'
  BY <1>2 DEF SigningKeyKept
<1> QED
  BY <1>3, <1>4

-----------------------------------------------------------------------------
(* The credential that is left to authenticate the issuer. *)

\* One that stays as it was, and that no call is set on, is still safe.
LEMMA StaysSafe ==
  ASSUME IInv, ~ overlapped, NEW k \in UsableAuth, \A c \in Callers : ~ RemovesIt(c, k),
         claims'[k] = claims[k],
         \A c \in Callers : /\ loc'[c].cred \in {loc[c].cred, None}
                            /\ loc'[c].nonce \in {loc[c].nonce, None}
  PROVE  SomeIsSafe'
<1>1. k \in Credentials /\ k # None /\ claims[k].nonce # None
  BY NoneAssumption DEF IInv, TypeOK, UsableAuth
<1>2. k \in UsableAuth'
  BY DEF UsableAuth, Saved, IsAuth
<1>3. \A c \in Callers : ~ RemovesIt(c, k)'
  BY <1>1 DEF RemovesIt
<1> QED
  BY <1>2, <1>3 DEF SomeIsSafe

\* A call that the check lets remove a credential leaves another one.
LEMMA AllowedSafe ==
  ASSUME IInv, NEW c \in Callers, NEW creds \in SUBSET Credentials, NEW n,
         CanRevoke(creds, n), Allow(c, creds), ~ overlapped',
         claims' = claims, \A d \in Callers : d # c => loc'[d] = loc[d],
         \A k \in UsableAuth : k = loc'[c].cred \/ claims[k].nonce = loc'[c].nonce =>
           k \in creds /\ claims[k].nonce = n
  PROVE  SomeIsSafe'
<1>1. UsableAuth' = UsableAuth
  BY DEF UsableAuth, Saved, IsAuth
<1>2. CASE \E k \in creds : IsAuth(k)
  <2>1. PICK k \in UsableAuth : claims[k].nonce # n
    BY <1>2 DEF CanRevoke
  <2>2. ASSUME NEW d \in Callers PROVE ~ RemovesIt(d, k)'
    <3>1. CASE d = c
      BY <2>1, <3>1 DEF RemovesIt
    <3>2. CASE d # c
      <4>1. ~ RemovesIt(d, k)
        BY <1>2, <2>1, <3>2 DEF Allow, UsableAuth
      <4> QED
        BY <3>2, <4>1 DEF RemovesIt
    <3> QED
      BY <3>1, <3>2
  <2> QED
    BY <1>1, <2>1, <2>2 DEF SomeIsSafe
<1>3. CASE ~ \E k \in creds : IsAuth(k)
  <2>1. PICK k \in UsableAuth : \A d \in Callers : ~ RemovesIt(d, k)
    BY DEF IInv, SomeIsSafe, Allow
  <2>2. k \notin creds
    BY <1>3, <2>1 DEF UsableAuth
  <2>3. ASSUME NEW d \in Callers PROVE ~ RemovesIt(d, k)'
    BY <2>1, <2>2 DEF RemovesIt
  <2> QED
    BY <1>1, <2>1, <2>3 DEF SomeIsSafe
<1> QED
  BY <1>2, <1>3

\* Every step leaves a credential that authenticates the issuer.
LEMMA SafeStep ==
  ASSUME IInv, [Next]_vars
  PROVE  SomeIsSafe'
<1> SUFFICES ASSUME ~ overlapped' PROVE SomeIsSafe'
  BY DEF SomeIsSafe
<1>0. TypeOK /\ LocalsKnown /\ None \notin Credentials
  BY NoneAssumption DEF IInv
<1>1. ~ overlapped
  BY DEF Next, CreateKey, Issue, CreateAuthCredential, Publish, Revoking, Revoke, RevokeAllFromConnection,
     RevokeNext, LoadTrees, RevokeClaim, Reread, SaveRevoked, CommitAll, Deletion, Delete, DeleteRow,
     DeleteKey, RemoveKey, Abandon, Allow, vars, history
<1>2. PICK k \in UsableAuth : \A c \in Callers : ~ RemovesIt(c, k)
  BY <1>1 DEF IInv, SomeIsSafe
<1>3. k \in Credentials /\ Saved(k) /\ claims[k].published /\ ~ claims[k].revoked /\ IsAuth(k)
  BY <1>2 DEF UsableAuth
<1>4. CASE claims'[k] = claims[k] /\ loc' = loc
  BY <1>1, <1>2, <1>4, StaysSafe
<1>5. CASE \E j \in Credentials, n \in Nonces : Issue(j, n) \/ \E x \in Keys : CreateAuthCredential(x, j, n)
  <2>1. claims'[k] = claims[k]
    BY <1>0, <1>3, <1>5, IssuedRow, AuthRow DEF Adds, Saved
  <2>2. loc' = loc
    BY <1>5 DEF Issue, CreateAuthCredential, calls
  <2> QED
    BY <1>4, <2>1, <2>2
<1>6. CASE Publish
  <2>1. claims'[k] = claims[k] /\ loc' = loc
    BY <1>3, <1>6 DEF Publish, calls
  <2> QED
    BY <1>4, <2>1
<1>7. ASSUME NEW c \in Callers, Revoking(c) \/ Deletion(c) \/ Abandon(c) PROVE SomeIsSafe'
  <2>0. /\ loc[c] \in Locals /\ NoLocals.cred = None /\ NoLocals.nonce = None
        /\ \A d \in Callers : d # c => loc'[d] = loc[d]
    BY <1>0, <1>7, CallType, Moves DEF Goes, TypeOK, NoLocals
  <2>1. ASSUME claims'[k] = claims[k], NEW label, NEW l, GoTo(c, label, l),
               l.cred \in {loc[c].cred, None}, l.nonce \in {loc[c].nonce, None}
        PROVE  SomeIsSafe'
    <3>1. loc'[c] = l
      BY <1>0, <2>1, Moves
    <3> QED
      BY <1>1, <1>2, <2>0, <2>1, <3>1, StaysSafe
  <2>2. ASSUME NEW n \in Nonces, Revoke(c, n) PROVE SomeIsSafe'
    <3>1. loc'[c] = [NoLocals EXCEPT !.nonce = n]
      BY <1>0, <2>2, Moves DEF Revoke
    <3>2. loc'[c].cred = None /\ loc'[c].nonce = n
      BY <3>1 DEF NoLocals
    <3>3. \A j \in UsableAuth : j = loc'[c].cred \/ claims[j].nonce = loc'[c].nonce =>
            j \in WithNonce(n) /\ claims[j].nonce = n
      BY <1>0, <3>2 DEF UsableAuth, WithNonce
    <3>4. CanRevoke(WithNonce(n), n) /\ Allow(c, WithNonce(n)) /\ claims' = claims
      BY <2>2 DEF Revoke, tables
    <3>5. WithNonce(n) \in SUBSET Credentials
      BY DEF WithNonce
    <3> QED
      BY <2>0, <3>3, <3>4, <3>5, AllowedSafe
  <2>3. CASE RevokeNext(c)
    <3>1. PICK item \in loc[c].todo :
            /\ CanRevoke(WithNonce(item[2]), item[2]) /\ Allow(c, WithNonce(item[2]))
            /\ GoTo(c, "load", [loc[c] EXCEPT !.todo = @ \ {item}, !.nonce = item[2]])
      BY <2>3 DEF RevokeNext
    <3>2. loc'[c] = [loc[c] EXCEPT !.todo = @ \ {item}, !.nonce = item[2]] /\ loc[c].cred = None
      BY <1>0, <2>3, <3>1, Moves DEF RevokeNext, LocalsKnown
    <3>3. loc'[c].cred = None /\ loc'[c].nonce = item[2]
      BY <2>0, <3>2 DEF Locals
    <3>4. \A j \in UsableAuth : j = loc'[c].cred \/ claims[j].nonce = loc'[c].nonce =>
            j \in WithNonce(item[2]) /\ claims[j].nonce = item[2]
      BY <1>0, <3>3 DEF UsableAuth, WithNonce
    <3>5. claims' = claims /\ WithNonce(item[2]) \in SUBSET Credentials
      BY <2>3 DEF RevokeNext, tables, WithNonce
    <3> QED
      BY <2>0, <3>1, <3>4, <3>5, AllowedSafe
  <2>4. ASSUME NEW j \in Credentials, Delete(c, j) PROVE SomeIsSafe'
    <3>1. loc'[c] = [NoLocals EXCEPT !.cred = j]
      BY <1>0, <2>4, Moves DEF Delete
    <3>2. loc'[c].cred = j /\ loc'[c].nonce = None
      BY <3>1 DEF NoLocals
    <3>3. \A i \in UsableAuth : i = loc'[c].cred \/ claims[i].nonce = loc'[c].nonce =>
            i \in {j} /\ claims[i].nonce = claims[j].nonce
      BY <1>0, <3>2 DEF UsableAuth, TypeOK
    <3>4. CanRevoke({j}, claims[j].nonce) /\ Allow(c, {j}) /\ claims' = claims
      BY <2>4 DEF Delete, tables
    <3> QED
      BY <2>0, <3>3, <3>4, AllowedSafe
  <2>5. CASE SaveRevoked(c)
    <3>1. claims'[k] = claims[k]
      BY <1>2, <1>3, <2>5, WrittenRows DEF RemovesIt
    <3>2. /\ [loc[c] EXCEPT !.nonce = None, !.copies = NoCopies].cred = loc[c].cred
          /\ [loc[c] EXCEPT !.nonce = None, !.copies = NoCopies].nonce = None
      BY <2>0 DEF Locals
    <3>3. CASE GoTo(c, "next", [loc[c] EXCEPT !.nonce = None, !.copies = NoCopies])
      BY <2>1, <3>1, <3>2, <3>3
    <3>4. CASE Return(c)
      BY <2>0, <2>1, <3>1, <3>4 DEF Return
    <3> QED
      BY <2>5, <3>3, <3>4 DEF SaveRevoked
  <2>6. CASE DeleteRow(c)
    <3>1. claims'[k] = claims[k]
      BY <1>2, <1>3, <2>6, DeletedRow DEF RemovesIt
    <3> QED
      BY <2>0, <2>1, <2>6, <3>1 DEF DeleteRow, Return
  <2>7. CASE LoadTrees(c)
    <3>1. /\ [loc[c] EXCEPT !.root = IF owner = c THEN txTree ELSE tree].cred = loc[c].cred
          /\ [loc[c] EXCEPT !.root = IF owner = c THEN txTree ELSE tree].nonce = loc[c].nonce
      BY <2>0 DEF Locals
    <3> QED
      BY <2>1, <2>7, <3>1 DEF LoadTrees, tables
  <2>8. CASE RevokeClaim(c)
    <3>1. [loc[c] EXCEPT !.root = {}].cred = loc[c].cred /\ [loc[c] EXCEPT !.root = {}].nonce = loc[c].nonce
      BY <2>0 DEF Locals
    <3> QED
      BY <2>1, <2>8, <3>1 DEF RevokeClaim, tables
  <2>9. CASE Reread(c)
    <3> DEFINE copies == [j \in Credentials |->
                 IF j \in WithNonce(loc[c].nonce) THEN claims[j] ELSE NoClaim]
    <3>1. GoTo(c, "save", [loc[c] EXCEPT !.copies = copies]) /\ claims' = claims
      BY <2>9 DEF Reread, tables
    <3> HIDE DEF copies
    <3>2. /\ [loc[c] EXCEPT !.copies = copies].cred = loc[c].cred
          /\ [loc[c] EXCEPT !.copies = copies].nonce = loc[c].nonce
      BY <2>0 DEF Locals
    <3> QED
      BY <2>1, <3>1, <3>2
  <2>10. CASE RevokeAllFromConnection(c)
    <3> DEFINE creds == {j \in Credentials : Saved(j) /\ ~ IsAuth(j) /\ ~ claims[j].revoked}
               todo == {<<j, claims[j].nonce>> : j \in creds}
    <3>1. GoTo(c, "next", [NoLocals EXCEPT !.tx = TRUE, !.todo = todo]) /\ claims' = claims
      BY <2>10 DEF RevokeAllFromConnection, tables
    <3> HIDE DEF todo
    <3>2. /\ [NoLocals EXCEPT !.tx = TRUE, !.todo = todo].cred = None
          /\ [NoLocals EXCEPT !.tx = TRUE, !.todo = todo].nonce = None
      BY DEF NoLocals
    <3> QED
      BY <2>1, <3>1, <3>2
  <2>11. ASSUME NEW x \in Keys, DeleteKey(c, x) PROVE SomeIsSafe'
    <3>1. [NoLocals EXCEPT !.key = x].cred = None /\ [NoLocals EXCEPT !.key = x].nonce = None
      BY DEF NoLocals
    <3> QED
      BY <2>1, <2>11, <3>1 DEF DeleteKey, tables
  <2>12. CASE CommitAll(c) \/ RemoveKey(c) \/ Abandon(c)
    BY <2>0, <2>1, <2>12 DEF CommitAll, RemoveKey, Abandon, Return, tables
  <2> QED
    BY <1>7, <2>2, <2>3, <2>4, <2>5, <2>6, <2>7, <2>8, <2>9, <2>10, <2>11, <2>12 DEF Revoking, Deletion
<1> QED
  BY <1>4, <1>5, <1>6, <1>7 DEF Next, CreateKey, vars, calls, tables

-----------------------------------------------------------------------------
(* The theorems. *)

\* The invariant holds at first.
LEMMA InitInvariant == Init => IInv
<1> SUFFICES ASSUME Init PROVE IInv
  OBVIOUS
<1> USE GenesisAssumption, NoneAssumption
<1>1. PICK n \in Nonces : claims = [k \in Credentials |->
        IF k = Genesis
        THEN [row |-> "saved", key |-> GenesisKey, nonce |-> n, published |-> TRUE, revoked |-> FALSE]
        ELSE NoClaim]
  BY DEF Init
<1>2. /\ claims \in [Credentials -> ClaimRow]
      /\ \A k \in Credentials : Saved(k) <=> k = Genesis
      /\ claims[Genesis].key = GenesisKey /\ claims[Genesis].nonce = n
      /\ claims[Genesis].published /\ ~ claims[Genesis].revoked
  <2> DEFINE row == [row |-> "saved", key |-> GenesisKey, nonce |-> n, published |-> TRUE, revoked |-> FALSE]
  <2>1. row \in ClaimRow /\ row.row = "saved" /\ row.key = GenesisKey /\ row.nonce = n
        /\ row.published /\ ~ row.revoked
    BY DEF ClaimRow
  <2>2. NoClaim \in ClaimRow /\ NoClaim.row # "saved"
    BY EmptyValues DEF NoClaim
  <2> HIDE DEF row
  <2>3. claims = [k \in Credentials |-> IF k = Genesis THEN row ELSE NoClaim]
    BY <1>1 DEF row
  <2> QED
    BY <2>1, <2>2, <2>3 DEF Saved
<1>3. \A c \in Callers : pc[c] = "idle" /\ loc[c] = NoLocals
  BY DEF Init
<1>4. NoLocals.cred = None /\ NoLocals.nonce = None
  BY DEF NoLocals
<1>5. TypeOK
  <2>1. pc \in [Callers -> Pcs] /\ loc \in [Callers -> Locals]
    BY EmptyValues DEF Init, Pcs
  <2>2. keys \in [Keys -> {"unused", "kept", "deleted"}] /\ revocation \in [Nonces -> Statuses]
    BY DEF Init, Statuses
  <2> QED
    BY <1>2, <1>3, <2>1, <2>2 DEF Init, TypeOK
<1>6. LocalsKnown /\ CopiesSound /\ CopiesAgree /\ DeletionsSound
  BY <1>3, <1>4 DEF LocalsKnown, CopiesSound, CopiesAgree, DeletionsSound
<1>7. TreesSound /\ RevokedIsLeaf
  BY <1>3 DEF Init, TreesSound, RevokedIsLeaf
<1>8. LeavesSound /\ NoSecondLeaf /\ SigningKeyKept
  BY <1>2 DEF Init, LeavesSound, NoSecondLeaf, SigningKeyKept, Index
<1>9. SomeIsSafe
  BY <1>2, <1>3, <1>4 DEF SomeIsSafe, RemovesIt, UsableAuth, IsAuth
<1> QED
  BY <1>5, <1>6, <1>7, <1>8, <1>9 DEF IInv

\* The invariant is inductive.
LEMMA NextInvariant == IInv /\ [Next]_vars => IInv'
BY TypeStep, CopiesStep, TreesStep, LeavesStep, KeysStep, SafeStep DEF IInv

\* The invariant holds of every behaviour.
LEMMA Invariance == Spec => []IInv
BY InitInvariant, NextInvariant, PTL DEF Spec

\* The tables, trees and calls keep their types, every row has a nonce, and no two rows
\* have the same key.
THEOREM TypeCorrect == Spec => []TypeOK
<1>1. IInv => TypeOK
  BY DEF IInv
<1> QED
  BY <1>1, Invariance, PTL

\* The issuer can always authenticate its next state, unless two calls that remove
\* authentication credentials passed canRevokeNonce at once.
THEOREM AuthKept == Spec => []AuthRemains
<1>1. IInv => AuthRemains
  BY DEF IInv, SomeIsSafe, AuthRemains
<1> QED
  BY <1>1, Invariance, PTL

\* What canRevokeNonce is meant for, and does when calls come one at a time, whatever they
\* are and wherever they stop: the issuer can always authenticate its next state.
THEOREM OneCallKeepsAuth ==
  ASSUME \A c, d \in Callers : c = d
  PROVE  Spec => [](UsableAuth # {})
<1> DEFINE Alone == ~ overlapped
           Authentic == UsableAuth # {}
<1>1. Init => Alone
  BY DEF Init
<1>2. IInv /\ Alone /\ [Next]_vars => Alone'
  <2> SUFFICES ASSUME ~ overlapped, [Next]_vars PROVE ~ overlapped'
    OBVIOUS
  <2>1. ASSUME NEW c \in Callers, NEW creds, Allow(c, creds) PROVE ~ overlapped'
    BY <2>1 DEF Allow
  <2>2. ASSUME NEW c \in Callers, Revoking(c) PROVE ~ overlapped'
    BY <2>1, <2>2 DEF Revoking, Revoke, RevokeAllFromConnection, RevokeNext, LoadTrees,
       RevokeClaim, Reread, SaveRevoked, CommitAll, history
  <2>3. ASSUME NEW c \in Callers, Deletion(c) PROVE ~ overlapped'
    BY <2>1, <2>3 DEF Deletion, Delete, DeleteRow, DeleteKey, RemoveKey, history
  <2> QED
    BY <2>2, <2>3 DEF Next, CreateKey, Issue, CreateAuthCredential, Publish, Abandon, vars, history
<1>3. IInv /\ Alone => Authentic
  BY DEF IInv, SomeIsSafe, AuthRemains
<1> HIDE DEF Alone, Authentic
<1>4. Spec => []Authentic
  BY <1>1, <1>2, <1>3, Invariance, PTL DEF Spec
<1> QED
  BY <1>4 DEF Authentic

\* The key service never deletes the key of an authentication credential that the
\* published state has not revoked, but in a race with its creation or its return.
THEOREM KeyKept == Spec => []SigningKeyKept
<1>1. IInv => SigningKeyKept
  BY DEF IInv
<1> QED
  BY <1>1, Invariance, PTL

\* What the database calls revoked is in the revocation tree, unless a root written by
\* another call, or a rollback, took it out.
THEOREM RevokedCorrect == Spec => []RevokedIsLeaf
<1>1. IInv => RevokedIsLeaf
  BY DEF IInv
<1> QED
  BY <1>1, Invariance, PTL

\* A credential that waits for a state is no leaf of the claims tree, but one of a
\* published credential that lost its row or its state.
THEOREM NoSecondLeafCorrect == Spec => []NoSecondLeaf
<1>1. IInv => NoSecondLeaf
  BY DEF IInv
<1> QED
  BY <1>1, Invariance, PTL

\* A step never takes a revocation back: neither the write of a whole row, nor one that
\* brings a deleted row back.
THEOREM RevokedStays == Spec => RevokedForGood
<1> DEFINE Forever ==
      \A k \in Credentials :
        /\ Saved(k) /\ claims[k].revoked /\ Saved(k)' => claims'[k].revoked
        /\ claims[k].row = "deleted" /\ Saved(k)' => claims'[k].revoked
<1>1. IInv /\ [Next]_vars => Forever
  <2> SUFFICES ASSUME IInv, [Next]_vars, NEW k \in Credentials, Saved(k)',
                      claims[k].row # "unused", Saved(k) => claims[k].revoked
               PROVE  claims'[k].revoked
    BY DEF Saved
  <2>0. TypeOK
    BY DEF IInv
  <2>1. CASE claims'[k] = claims[k]
    BY <2>1 DEF Saved
  <2>2. CASE \E j \in Credentials, n \in Nonces :
               Issue(j, n) \/ \E x \in Keys : CreateAuthCredential(x, j, n)
    BY <2>0, <2>1, <2>2, IssuedRow, AuthRow DEF Adds
  <2>3. CASE Publish
    BY <2>0, <2>3, PublishedRows DEF Saved
  <2>4. CASE \E c \in Callers : SaveRevoked(c)
    BY <2>1, <2>4, WrittenRows
  <2>5. CASE \E c \in Callers : DeleteRow(c)
    BY <2>1, <2>5, DeletedRow DEF Saved
  <2>6. CASE \E c \in Callers : Revoking(c) \/ Deletion(c) \/ Abandon(c)
    BY <2>1, <2>4, <2>5, <2>6 DEF Revoking, Revoke, RevokeAllFromConnection, RevokeNext, LoadTrees,
       RevokeClaim, Reread, CommitAll, Deletion, Delete, DeleteKey, RemoveKey, Abandon, tables
  <2> QED
    BY <2>1, <2>2, <2>3, <2>6 DEF Next, CreateKey, vars, tables
<1> QED
  BY <1>1, Invariance, PTL DEF Spec, RevokedForGood

=============================================================================

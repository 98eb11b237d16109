--------------------------- MODULE Notifications ---------------------------
(***************************************************************************)
(* Connections, the events of the platform, and the notifications process: *)
(* a wallet that authenticates gets a connection; credentials are saved,   *)
(* published and revoked; each of these is announced by an event on one of *)
(* three Redis topics; and one goroutine per topic in another process      *)
(* reads the database and pushes offers and status updates to the wallets. *)
(* Redis delivers to who listens and forgets; a failed push is logged and  *)
(* never tried again: every offer has one chance.                          *)
(*                                                                         *)
(* One issuer.  A state is published here in one step, which StatePublisher*)
(* has in detail, and a credential is revoked in one.  Left out: the table *)
(* of authentication sessions, and the documents that rows and messages    *)
(* carry.  The id of a connection that is gone from everywhere is as good  *)
(* as a new one.                                                           *)
(***************************************************************************)
EXTENDS Naturals, Sequences

CONSTANTS
  Users,        \* DIDs of the wallets
  Credentials,  \* uuids of credentials
  Connections,  \* uuids of connections
  Callers,      \* concurrent requests of the platform
  Kinds,        \* the combinations of proofs that are asked for
  MaxStates,    \* bound: how often the issuer publishes
  None          \* SQL's NULL

Proofs == {"signature", "mtp"}

ASSUME KindsAssumption == Kinds \subseteq SUBSET Proofs \ {{}}
ASSUME MaxStatesAssumption == MaxStates \in Nat
ASSUME NoneAssumption == None \notin Users \cup Credentials \cup Connections \cup Nat

VARIABLES
  connections,  \* the table, unique by user: [Users -> Connections \cup {None}]
  claims,       \* the table: [Credentials -> ClaimRow]
  states,       \* how many states the issuer has published
  pc, loc,      \* where each request is, and what it holds
  announcing,   \* the watcher of the last transaction: what it has yet to publish
  up,           \* whether the notifications process is subscribed
  topics,       \* the messages it has received and not handled
  handling,     \* per topic: whom its goroutine is to push what
  spent,        \* history: credentials whose offer was pushed, or swallowed by a fault
  due           \* history: revocations announced, and neither pushed nor swallowed

database == <<connections, claims, states>>
requests == <<pc, loc, announcing>>
process  == <<up, topics, handling>>
history  == <<spent, due>>
vars == <<database, requests, process, history>>

Topics == {"credential", "connection", "state"}
StateIds == 1..MaxStates

\* "unused": no such row yet; "deleted": no such row any more, though a goroutine
\* may still hold it.  "proofs" are those asked for, "proof" tells whether the MTP
\* proof is there.
ClaimRow == [row: {"unused", "saved", "deleted"}, user: Users \cup {None},
             proofs: SUBSET Proofs, proof: BOOLEAN, state: StateIds \cup {None},
             revoked: BOOLEAN]
NoClaim == [row |-> "unused", user |-> None, proofs |-> {}, proof |-> FALSE,
            state |-> None, revoked |-> FALSE]

Pcs == {"idle", "authenticated", "issued", "link"}
Locals == [user: Users \cup {None}, conn: Connections \cup {None}, new: BOOLEAN,
           claim: Credentials \cup {None}]
NoLocals == [user |-> None, conn |-> None, new |-> FALSE, claim |-> None]

Work == [to: Users \cup {None}, creds: SUBSET Credentials]
NoWork == [to |-> None, creds |-> {}]

Announcement == [state: StateIds \cup {None}, batches: SUBSET SUBSET Credentials]
NoAnnouncement == [state |-> None, batches |-> {}]

Saved(k) == claims[k].row = "saved"

\* What can be fetched: the proof filter of GetAll.
Provable(k) == "signature" \in claims[k].proofs \/ claims[k].proof

TypeOK ==
  /\ connections \in [Users -> Connections \cup {None}]
  /\ \A u, v \in Users : connections[u] = connections[v] => u = v \/ connections[u] = None
  /\ claims \in [Credentials -> ClaimRow]
  /\ \A k \in Credentials : claims[k].row # "unused" => claims[k].user # None
  /\ states \in 0..MaxStates
  /\ pc \in [Callers -> Pcs] /\ loc \in [Callers -> Locals]
  /\ announcing \in Announcement
  /\ up \in BOOLEAN
  /\ DOMAIN topics = Topics
  /\ topics["credential"] \in Seq(SUBSET Credentials)
  /\ topics["connection"] \in Seq(Connections)
  /\ topics["state"] \in Seq(StateIds)
  /\ handling \in [Topics -> Work]
  /\ spent \subseteq Credentials /\ due \subseteq Credentials

Init ==
  /\ connections = [u \in Users |-> None]
  /\ claims = [k \in Credentials |-> NoClaim]
  /\ states = 0
  /\ pc = [c \in Callers |-> "idle"] /\ loc = [c \in Callers |-> NoLocals]
  /\ announcing = NoAnnouncement
  /\ up = TRUE
  /\ topics = [t \in Topics |-> <<>>]
  /\ handling = [t \in Topics |-> NoWork]
  /\ spent = {} /\ due = {}

-----------------------------------------------------------------------------
(* The event bus. *)

\* Publish: the message reaches the process if that is subscribed ...
Publish(topic, message) ==
  /\ up
  /\ topics' = [topics EXCEPT ![topic] = Append(@, message)]
  /\ UNCHANGED spent

\* ... or nobody (the publisher logs an error at most), with the offers it
\* stands for.
Lose(creds) ==
  /\ spent' = spent \cup creds
  /\ UNCHANGED topics

\* The offers that the event of a connection stands for.
HeldBy(conn) == {k \in Credentials :
  Saved(k) /\ Provable(k) /\ connections[claims[k].user] = conn}

\* GetRevoked: the revoked credentials that were issued into a state, not those
\* whose revocation it contains.
GetRevoked(s) == {k \in Credentials : Saved(k) /\ claims[k].revoked /\ claims[k].state = s}

-----------------------------------------------------------------------------
(* The platform: authentication, connections and credentials. *)

GoTo(c, label, l) ==
  /\ pc' = [pc EXCEPT ![c] = label]
  /\ loc' = [loc EXCEPT ![c] = l]

Return(c) == GoTo(c, "idle", NoLocals)

Received(topic) == {topics[topic][i] : i \in 1..Len(topics[topic])}

Fresh(conn) ==
  /\ \A u \in Users : connections[u] # conn
  /\ \A c \in Callers : loc[c].conn # conn
  /\ conn \notin Received("connection")

\* AuthenticateWithRequest saves the connection of a verified answer: an upsert,
\* which leaves an existing one its id.
\* Faulty: those that were there count as new.
SaveConnectionAsOld(c, u, conn) ==
  /\ pc[c] = "idle"
  /\ \/ connections[u] = None /\ Fresh(conn)
     \/ connections[u] = conn
  /\ connections' = [connections EXCEPT ![u] = conn]
  /\ GoTo(c, "authenticated",
       [NoLocals EXCEPT !.user = u, !.conn = conn, !.new = connections[u] # None])
  /\ UNCHANGED <<claims, states, announcing, process, history>>
SaveConnection(c, u, conn) ==
  /\ pc[c] = "idle"
  /\ \/ connections[u] = None /\ Fresh(conn)
     \/ connections[u] = conn
  /\ connections' = [connections EXCEPT ![u] = conn]
  /\ GoTo(c, "authenticated",
       [NoLocals EXCEPT !.user = u, !.conn = conn, !.new = connections[u] = None])
  /\ UNCHANGED <<claims, states, announcing, process, history>>

\* It saves the authentication, whose foreign key wants the connection, and
\* publishes the connection if that is new.
Authenticated(c) ==
  /\ pc[c] = "authenticated"
  /\ connections[loc[c].user] = loc[c].conn
  /\ IF loc[c].new
     THEN Publish("connection", loc[c].conn) \/ Lose(HeldBy(loc[c].conn))
     ELSE UNCHANGED <<topics, spent>>
  /\ UNCHANGED <<database, announcing, up, handling, due>>

\* The end of a wallet's authentication, or the first half of a link's callback.
Authenticate(c) == Authenticated(c) /\ Return(c)
AuthenticateForLink(c) ==
  Authenticated(c) /\ GoTo(c, "link", [NoLocals EXCEPT !.user = loc[c].user])

\* The table of claims without some of its rows.
\* Faulty: as if they had never been.
WithoutTrace(creds) == [k \in Credentials |->
  IF k \in creds THEN [NoClaim EXCEPT !.row = "deleted"] ELSE claims[k]]
Without(creds) == [k \in Credentials |->
  IF k \in creds THEN [NoClaim EXCEPT !.row = "deleted", !.user = claims[k].user] ELSE claims[k]]
OfUser(u) == {k \in Credentials : Saved(k) /\ claims[k].user = u}

\* The issuer's own way to make a connection has no event.
CreateConnection(u, conn) ==
  /\ connections[u] = None /\ Fresh(conn)
  /\ connections' = [connections EXCEPT ![u] = conn]
  /\ spent' = spent \cup {k \in OfUser(u) : Provable(k)}
  /\ UNCHANGED <<claims, states, requests, process, due>>

DeleteConnection(u, deleteCredentials) ==
  /\ connections[u] # None
  /\ connections' = [connections EXCEPT ![u] = None]
  /\ claims' = IF deleteCredentials THEN Without(OfUser(u)) ELSE claims
  /\ UNCHANGED <<states, requests, process, history>>

DeleteCredentials(u) ==
  /\ connections[u] # None
  /\ claims' = Without(OfUser(u))
  /\ UNCHANGED <<connections, states, requests, process, history>>

SaveClaim(k, u, proofs) ==
  /\ claims[k].row = "unused"
  /\ claims' = [claims EXCEPT ![k] =
       [NoClaim EXCEPT !.row = "saved", !.user = u, !.proofs = proofs]]

\* Save of the credentials service: the row, and then the event of a credential
\* that can be fetched at once.
Issue(c, k, u, proofs) ==
  /\ pc[c] = "idle"
  /\ SaveClaim(k, u, proofs)
  /\ IF "signature" \in proofs THEN GoTo(c, "issued", [NoLocals EXCEPT !.claim = k])
     ELSE UNCHANGED <<pc, loc>>
  /\ UNCHANGED <<connections, states, announcing, process, history>>
AnnounceClaim(c) ==
  /\ pc[c] = "issued"
  /\ Publish("credential", {loc[c].claim}) \/ Lose({loc[c].claim})
  /\ Return(c)
  /\ UNCHANGED <<database, announcing, up, handling, due>>

\* A link's callback issues without an event: the offer is its answer; without
\* a signature there is none before the next state.
IssueByLink(c, k, proofs) ==
  /\ pc[c] = "link"
  /\ SaveClaim(k, loc[c].user, proofs)
  /\ spent' = IF "signature" \in proofs THEN spent \cup {k} ELSE spent
  /\ Return(c)
  /\ UNCHANGED <<connections, states, announcing, process, due>>

\* A database error, a client that hangs up or a restart ends a request between
\* two of its steps, and no other one makes up for its event.
Abandon(c) ==
  /\ pc[c] # "idle"
  /\ spent' = spent \cup
       CASE pc[c] = "authenticated" -> IF loc[c].new THEN HeldBy(loc[c].conn) ELSE {}
         [] pc[c] = "issued" -> {loc[c].claim}
         [] pc[c] = "link" -> {}
  /\ Return(c)
  /\ UNCHANGED <<database, announcing, process, due>>

Revoke(k) ==
  /\ Saved(k) /\ ~ claims[k].revoked
  /\ claims' = [claims EXCEPT ![k].revoked = TRUE]
  /\ UNCHANGED <<connections, states, requests, process, history>>

Delete(k) ==
  /\ Saved(k)
  /\ claims' = Without({k})
  /\ UNCHANGED <<connections, states, requests, process, history>>

-----------------------------------------------------------------------------
(* Publication of a state, and what the watcher of its transaction announces. *)

\* groupByUserId.
\* Faulty: one message for all.
OneBatch(creds) == {creds} \ {{}}
ByUser(creds) == {{k \in creds : claims[k].user = u} : u \in Users} \ {{}}

\* The state takes up the credentials in none, is confirmed, and their proofs
\* are written; the watcher then reads those that have one.
PublishState ==
  /\ states < MaxStates /\ announcing = NoAnnouncement
  /\ states' = states + 1
  /\ LET new == {k \in Credentials : Saved(k) /\ claims[k].state = None}
         proved == {k \in new : "mtp" \in claims[k].proofs}
     IN  /\ claims' = [k \in Credentials |->
              IF k \in new THEN [claims[k] EXCEPT !.state = states', !.proof = k \in proved]
              ELSE claims[k]]
         /\ announcing' = [state |-> states', batches |-> ByUser(proved)]
  /\ UNCHANGED <<connections, pc, loc, process, history>>

AnnounceBatch ==
  /\ \E batch \in announcing.batches :
       /\ Publish("credential", batch) \/ Lose(batch)
       /\ announcing' = [announcing EXCEPT !.batches = @ \ {batch}]
  /\ UNCHANGED <<database, pc, loc, up, handling, due>>

\* The revocations of the state's credentials are to be pushed if the event is
\* not lost.
AnnounceState ==
  /\ announcing.state # None /\ announcing.batches = {}
  /\ \/ /\ Publish("state", announcing.state)
        /\ due' = due \cup GetRevoked(announcing.state)
     \/ Lose({}) /\ UNCHANGED due
  /\ announcing' = NoAnnouncement
  /\ UNCHANGED <<database, pc, loc, up, handling>>

\* The watcher stops for good (its process restarts, the database fails).
Forget ==
  /\ announcing.state # None
  /\ spent' = spent \cup UNION announcing.batches
  /\ announcing' = NoAnnouncement
  /\ UNCHANGED <<database, pc, loc, process, due>>

-----------------------------------------------------------------------------
(* The notifications process: one goroutine per topic. *)

Idle(topic) == handling[topic].creds = {}
Take(topic, work) ==
  /\ Idle(topic) /\ topics[topic] # <<>>
  /\ topics' = [topics EXCEPT ![topic] = Tail(@)]
  /\ handling' = [handling EXCEPT ![topic] = IF work.creds = {} THEN NoWork ELSE work]
  /\ UNCHANGED <<database, requests, up, due>>

\* sendCreateCredentialNotification: every credential must be there, and the
\* connection of the first one's user.  One that was deleted takes the others
\* of its message with it; without a connection there is nobody to push to yet.
HandleCredential ==
  /\ topics["credential"] # <<>>
  /\ LET batch == Head(topics["credential"])
     IN  IF \A k \in batch : Saved(k)
         THEN /\ \E u \in {claims[k].user : k \in batch} :
                   Take("credential", IF connections[u] = None THEN NoWork
                                      ELSE [to |-> u, creds |-> batch])
              /\ UNCHANGED spent
         ELSE /\ Take("credential", NoWork)
              /\ spent' = spent \cup batch

\* sendCreateConnectionNotification: the connection by its id, and everything its
\* user can fetch.
\* Faulty: everything the user has.
GetAllUnfiltered(u) == OfUser(u)
GetAll(u) == {k \in OfUser(u) : Provable(k)}
HandleConnection ==
  /\ topics["connection"] # <<>>
  /\ LET conn == Head(topics["connection"])
     IN  \/ \E u \in Users :
              connections[u] = conn /\ Take("connection", [to |-> u, creds |-> GetAll(u)])
         \/ (\A u \in Users : connections[u] # conn) /\ Take("connection", NoWork)
  /\ UNCHANGED spent

\* sendRevokeCredentialNotification.
HandleState ==
  /\ topics["state"] # <<>>
  /\ Take("state", [to |-> None, creds |-> GetRevoked(Head(topics["state"]))])
  /\ UNCHANGED spent

\* One push carries the whole offer.  Whether or not it succeeds, nothing else
\* happens.
PushOffer(topic) ==
  /\ topic # "state" /\ ~ Idle(topic)
  /\ spent' = spent \cup handling[topic].creds
  /\ handling' = [handling EXCEPT ![topic] = NoWork]
  /\ UNCHANGED <<database, requests, up, topics, due>>

\* The loop over the revoked credentials, one push each ...
\* Faulty: a push ends it.
PushFirstNotice(k) ==
  /\ k \in handling["state"].creds
  /\ connections[claims[k].user] # None
  /\ due' = due \ {k}
  /\ handling' = [handling EXCEPT !["state"] = NoWork]
  /\ UNCHANGED <<database, requests, up, topics, spent>>
PushNotice(k) ==
  /\ k \in handling["state"].creds
  /\ connections[claims[k].user] # None
  /\ due' = due \ {k}
  /\ handling' = [handling EXCEPT !["state"].creds = @ \ {k}]
  /\ UNCHANGED <<database, requests, up, topics, spent>>

\* ... until a connection is missing or a push fails: that ends it for all.
GiveUpNotices ==
  /\ ~ Idle("state")
  /\ due' = due \ handling["state"].creds
  /\ handling' = [handling EXCEPT !["state"] = NoWork]
  /\ UNCHANGED <<database, requests, up, topics, spent>>

\* The process stops, with what it has received, or starts and subscribes.
Stop ==
  /\ up /\ up' = FALSE
  /\ spent' = spent \cup (UNION Received("credential"))
       \cup (UNION {HeldBy(conn) : conn \in Received("connection")})
       \cup handling["credential"].creds \cup handling["connection"].creds
  /\ due' = {}
  /\ topics' = [t \in Topics |-> <<>>]
  /\ handling' = [t \in Topics |-> NoWork]
  /\ UNCHANGED <<database, requests>>
Start ==
  /\ ~ up /\ up' = TRUE
  /\ UNCHANGED <<database, requests, topics, handling, history>>

-----------------------------------------------------------------------------

Authentication(c) ==
  \/ \E u \in Users, conn \in Connections : SaveConnection(c, u, conn)
  \/ Authenticate(c)
  \/ AuthenticateForLink(c)

Issuing(c) ==
  \/ \E k \in Credentials, u \in Users, proofs \in Kinds : Issue(c, k, u, proofs)
  \/ \E k \in Credentials, proofs \in Kinds : IssueByLink(c, k, proofs)
  \/ AnnounceClaim(c)

Administration ==
  \/ \E u \in Users, conn \in Connections : CreateConnection(u, conn)
  \/ \E u \in Users, deleteCredentials \in BOOLEAN : DeleteConnection(u, deleteCredentials)
  \/ \E u \in Users : DeleteCredentials(u)
  \/ \E k \in Credentials : Revoke(k) \/ Delete(k)

Publication ==
  \/ PublishState
  \/ AnnounceBatch
  \/ AnnounceState
  \/ Forget

Notification ==
  \/ HandleCredential
  \/ HandleConnection
  \/ HandleState
  \/ \E topic \in Topics : PushOffer(topic)
  \/ \E k \in Credentials : PushNotice(k)
  \/ GiveUpNotices
  \/ Stop
  \/ Start

Next ==
  \/ \E c \in Callers : Authentication(c) \/ Issuing(c) \/ Abandon(c)
  \/ Administration
  \/ Publication
  \/ Notification

Spec == Init /\ [][Next]_vars

-----------------------------------------------------------------------------
(* Properties. *)

\* The offer of a credential is on its way: in the hands of the request or the
\* watcher that made it possible, in the topic, or with a goroutine that pushes.
ClaimOnItsWay(k) ==
  \/ \E c \in Callers : pc[c] = "issued" /\ loc[c].claim = k
  \/ \E batch \in announcing.batches \cup Received("credential") : k \in batch
  \/ \E topic \in {"credential", "connection"} : k \in handling[topic].creds

\* The event of a user's connection is on its way.
ConnectionOnItsWay(u) ==
  \/ \E c \in Callers : pc[c] = "authenticated" /\ loc[c].new /\ loc[c].conn = connections[u]
  \/ connections[u] \in Received("connection")

\* No offer is forgotten without a fault: of a credential that can be fetched
\* and a user who is connected, in whatever order the two came about and their
\* events were handled, one finds the other.  Only a lost event, a credential
\* that was deleted from the same message, or a connection that came without an
\* event (the issuer's, or one whose authentication broke off) loses an offer.
NoOfferForgotten == \A k \in Credentials :
  LET u == claims[k].user
  IN  Saved(k) /\ Provable(k) /\ connections[u] # None =>
        k \in spent \/ ClaimOnItsWay(k) \/ ConnectionOnItsWay(u)

\* Nobody is pushed the credential of another user, also when a message is
\* about several, and what is pushed can be fetched: it has a proof.
PushedToSubject == \A topic \in {"credential", "connection"} :
  \A k \in handling[topic].creds :
    claims[k].user = handling[topic].to /\ (Saved(k) => Provable(k))

\* A wallet whose credential was revoked by the time its state was announced
\* hears of it, unless the event was lost or the loop over the credentials of
\* that state was given up.  (Revoked later it never does: the event of the next
\* state does not find a credential of an earlier one.)
NoNoticeForgotten == \A k \in due :
  Saved(k) => claims[k].state \in Received("state") \/ k \in handling["state"].creds
=============================================================================

------------------------------ MODULE SyncServer ------------------------------
(***************************************************************************)
(* The vault side of the API server: SyncService (push, pull and the       *)
(* reconciliation gate), VaultService (item CRUD) and VaultKeysService     *)
(* (key wrappings), over the Postgres repositories.                        *)
(*                                                                         *)
(* A handler is an async function: between two awaits of repository calls  *)
(* any other handler may run, and no transaction spans two calls.  So each *)
(* repository call is one action here, a handler in flight is a slot of    *)
(* req, and what the handler keeps in local variables across an await is   *)
(* kept in that slot.  Devices are the environment: a device remembers for *)
(* each item the version and ciphertext the server last told it, and sends *)
(* that version as lastSeenItemVersion.                                    *)
(*                                                                         *)
(* Ciphertexts are opaque; dekVersion and timestamps, which no decision of *)
(* the server reads, are left out.  A handler with a single repository     *)
(* call takes that call on arrival.                                        *)
(***************************************************************************)
EXTENDS Naturals, Sequences, FiniteSets

CONSTANTS
  Users,            \* accounts
  Devices,          \* devices that hold a session
  DeviceUser,       \* the account of each device's session
  Requests,         \* slots for requests in flight
  SlotDevices,      \* the devices that may use each slot
  Purposes,         \* purposes of a key wrapping: "master" and "recovery"
  Contents,         \* opaque ciphertexts
  NoContent,        \* the ciphertext of an item a device has never seen
  MaxItems,         \* bound: rows of the item table
  MaxItemVersion,   \* bound: versions of one item
  MaxKeyVersion     \* bound: versions of one key wrapping

ASSUME BoundsAssumption ==
  /\ MaxItems \in Nat /\ MaxItemVersion \in Nat /\ MaxKeyVersion \in Nat
  /\ MaxItemVersion > 0

ASSUME SessionAssumption ==
  /\ DeviceUser \in [Devices -> Users]
  /\ SlotDevices \in [Requests -> SUBSET Devices]
  /\ NoContent \notin Contents
  /\ "master" \in Purposes

VARIABLES
  items,        \* vault_items, in order of creation: an item's id is its index
  vaultKeys,    \* vault_keys: version per user and purpose, 0 = no row
  syncEvents,   \* sync_events: <<user, device, master_key_version>>
  req,          \* the requests in flight
  seen          \* per device and item: version and ciphertext last received

vars == <<items, vaultKeys, syncEvents, req, seen>>

-------------------------------------------------------------------------------
NoItem   == 0                           \* an absent itemId or conflictOf
ItemIds  == 1 .. MaxItems
Unseen   == [version |-> 0, content |-> NoContent]

Item == [owner : Users, content : Contents, version : 1 .. MaxItemVersion,
         conflictOf : {NoItem} \cup ItemIds]
Copy == [version : 0 .. MaxItemVersion, content : Contents \cup {NoContent}]

\* What a reply carries: a copy of some items.
Replies == UNION {[S -> Copy] : S \in SUBSET ItemIds}

Idle == [step |-> "idle"]

\* A push or pull between its arrival and its last repository call, an update
\* (PUT) between its read and its write, and an answer on its way to the device.
Push == [op : {"push"}, step : {"record", "gate", "create", "read", "fork", "update"},
         device : Devices, itemId : {NoItem} \cup ItemIds, content : Contents,
         lastSeen : 0 .. MaxItemVersion, base : Contents \cup {NoContent},
         mkv : 1 .. MaxKeyVersion, existing : 0 .. MaxItemVersion]
Pull == [op : {"pull"}, step : {"record", "gate", "list"}, device : Devices,
         mkv : 1 .. MaxKeyVersion]
Put  == [op : {"put"}, step : {"update"}, device : Devices, itemId : ItemIds,
         content : Contents, existing : 1 .. MaxItemVersion]
Done == [step : {"done"}, device : Devices, reply : Replies]

Request == {Idle} \cup Push \cup Pull \cup Put \cup Done

TypeOK ==
  /\ items \in Seq(Item) /\ Len(items) <= MaxItems
  /\ vaultKeys \in [Users -> [Purposes -> 0 .. MaxKeyVersion]]
  /\ syncEvents \subseteq Users \X Devices \X (1 .. MaxKeyVersion)
  /\ req \in [Requests -> Request]
  /\ seen \in [Devices -> [ItemIds -> Copy]]

Init ==
  /\ items = << >>
  /\ vaultKeys = [u \in Users |-> [p \in Purposes |-> 0]]
  /\ syncEvents = {}
  /\ req = [r \in Requests |-> Idle]
  /\ seen = [d \in Devices |-> [i \in ItemIds |-> Unseen]]

-------------------------------------------------------------------------------
\* The repository calls.

UserOf(r) == DeviceUser[req[r].device]
CopyOf(i) == [version |-> items[i].version, content |-> items[i].content]

\* Operators named Bug_ are faulty variants of the definition that follows them:
\* a slip the code could have, which a property must notice.  No action uses them.
\* Here: no WHERE user_id.
Bug_OwnedByAnyone(u) == DOMAIN items
Owned(u) == {i \in DOMAIN items : items[i].owner = u}

\* The column default of version is 0.
Bug_InsertAtZero(u, c, origin) ==
  /\ Len(items) < MaxItems
  /\ items' = Append(items, [owner |-> u, content |-> c, version |-> 0,
                             conflictOf |-> origin])

\* INSERT INTO vault_items: version 1, conflict_of only for a fork.
InsertItem(u, c, origin) ==
  /\ Len(items) < MaxItems
  /\ items' = Append(items, [owner |-> u, content |-> c, version |-> 1,
                             conflictOf |-> origin])

\* The version is written back as it was read.
Bug_UpdateKeepsVersion(i, c, readVersion) ==
  /\ readVersion < MaxItemVersion
  /\ items' = [items EXCEPT ![i] = [@ EXCEPT !.content = c, !.version = readVersion]]

\* UPDATE vault_items ... WHERE id AND user_id: the new version is computed from
\* the version the handler read, whatever the row holds by now.
UpdateItem(i, c, readVersion) ==
  /\ readVersion < MaxItemVersion
  /\ items' = [items EXCEPT ![i] = [@ EXCEPT !.content = c, !.version = readVersion + 1]]

\* The handler answers: it drops its locals and the answer travels to the device.
Answer(r, d, reply) ==
  req' = [req EXCEPT ![r] = [step |-> "done", device |-> d, reply |-> reply]]

NoItems == [i \in {} |-> Unseen]
Single(i, v, c) == [j \in {i} |-> [version |-> v, content |-> c]]

GoTo(r, step) == req' = [req EXCEPT ![r].step = step]

-------------------------------------------------------------------------------
\* Arrival of the requests.

\* POST /sync/push.  The device names the version it last saw, or omits it (0).
SendPush(r) ==
  /\ req[r].step = "idle"
  /\ \E d \in SlotDevices[r], i \in {NoItem} \cup ItemIds, c \in Contents,
        mkv \in 1 .. MaxKeyVersion :
       LET copy == IF i = NoItem THEN Unseen ELSE seen[d][i] IN
       \E known \in {copy, Unseen} :
         req' = [req EXCEPT ![r] =
           [op |-> "push", step |-> "record", device |-> d, itemId |-> i,
            content |-> c, lastSeen |-> known.version, base |-> known.content,
            mkv |-> mkv, existing |-> 0]]
  /\ UNCHANGED <<items, vaultKeys, syncEvents, seen>>

\* GET /sync/pull.
SendPull(r) ==
  /\ req[r].step = "idle"
  /\ \E d \in SlotDevices[r], mkv \in 1 .. MaxKeyVersion :
       req' = [req EXCEPT ![r] = [op |-> "pull", step |-> "record",
                                  device |-> d, mkv |-> mkv]]
  /\ UNCHANGED <<items, vaultKeys, syncEvents, seen>>

\* POST /vault/items.
VaultCreate(r) ==
  /\ req[r].step = "idle"
  /\ \E d \in SlotDevices[r], c \in Contents :
       /\ InsertItem(DeviceUser[d], c, NoItem)
       /\ Answer(r, d, Single(Len(items) + 1, 1, c))
  /\ UNCHANGED <<vaultKeys, syncEvents, seen>>

\* GET /vault/items and GET /vault/items/:id (404 unless the caller owns the item).
VaultRead(r) ==
  /\ req[r].step = "idle"
  /\ \E d \in SlotDevices[r] :
       \E S \in {Owned(DeviceUser[d])} \cup {{i} : i \in Owned(DeviceUser[d])} :
         Answer(r, d, [i \in S |-> CopyOf(i)])
  /\ UNCHANGED <<items, vaultKeys, syncEvents, seen>>

\* PUT /vault/items/:id up to its first await; the 404 changes nothing.
VaultPut(r) ==
  /\ req[r].step = "idle"
  /\ \E d \in SlotDevices[r], c \in Contents :
       \E i \in Owned(DeviceUser[d]) :
         req' = [req EXCEPT ![r] = [op |-> "put", step |-> "update", device |-> d,
                                    itemId |-> i, content |-> c,
                                    existing |-> items[i].version]]
  /\ UNCHANGED <<items, vaultKeys, syncEvents, seen>>

\* POST /vault-keys: a blind upsert, any version over any version.  Its answer
\* tells the device nothing new, so the slot stays idle.
UpsertKey(r) ==
  /\ req[r].step = "idle"
  /\ \E d \in SlotDevices[r], p \in Purposes, v \in 1 .. MaxKeyVersion :
       vaultKeys' = [vaultKeys EXCEPT ![DeviceUser[d]][p] = v]
  /\ UNCHANGED <<items, syncEvents, req, seen>>

-------------------------------------------------------------------------------
\* The steps of SyncService.push and SyncService.pull.

\* Only a request that the gate would accept leaves an event.
Bug_RecordAccepted(r) ==
  /\ req[r].step = "record"
  /\ syncEvents' = IF vaultKeys[UserOf(r)]["master"] = req[r].mkv
                     THEN syncEvents \cup {<<UserOf(r), req[r].device, req[r].mkv>>}
                     ELSE syncEvents
  /\ GoTo(r, "gate")
  /\ UNCHANGED <<items, vaultKeys, seen>>

\* assertReconciled, first await: the event is stored before the check.
RecordEvent(r) ==
  /\ req[r].step = "record"
  /\ syncEvents' = syncEvents \cup {<<UserOf(r), req[r].device, req[r].mkv>>}
  /\ GoTo(r, "gate")
  /\ UNCHANGED <<items, vaultKeys, seen>>

AfterGate(r) ==
  IF req[r].op = "pull" THEN "list"
  ELSE IF req[r].itemId = NoItem THEN "create" ELSE "read"

\* assertReconciled, second await: 404 with no master row, 409 on another version.
Gate(r) ==
  /\ req[r].step = "gate"
  /\ LET master == vaultKeys[UserOf(r)]["master"] IN
       IF master = 0 \/ master # req[r].mkv
         THEN Answer(r, req[r].device, NoItems)
         ELSE GoTo(r, AfterGate(r))
  /\ UNCHANGED <<items, vaultKeys, syncEvents, seen>>

\* A push without itemId creates.
PushCreate(r) ==
  /\ req[r].step = "create"
  /\ InsertItem(UserOf(r), req[r].content, NoItem)
  /\ Answer(r, req[r].device, Single(Len(items) + 1, 1, req[r].content))
  /\ UNCHANGED <<vaultKeys, syncEvents, seen>>

\* The comparison is skipped when lastSeenItemVersion is omitted.
Bug_ReadTrustsOmission(r) ==
  /\ req[r].step = "read"
  /\ LET i == req[r].itemId IN
       IF i \notin Owned(UserOf(r))
         THEN Answer(r, req[r].device, NoItems)
         ELSE req' = [req EXCEPT ![r] = [@ EXCEPT
                !.step = IF req[r].lastSeen # 0 /\ items[i].version > req[r].lastSeen
                           THEN "fork" ELSE "update",
                !.existing = items[i].version]]
  /\ UNCHANGED <<items, vaultKeys, syncEvents, seen>>

\* The comparison is >= instead of >.
Bug_ReadForksEqual(r) ==
  /\ req[r].step = "read"
  /\ LET i == req[r].itemId IN
       IF i \notin Owned(UserOf(r))
         THEN Answer(r, req[r].device, NoItems)
         ELSE req' = [req EXCEPT ![r] = [@ EXCEPT
                !.step = IF items[i].version >= req[r].lastSeen THEN "fork" ELSE "update",
                !.existing = items[i].version]]
  /\ UNCHANGED <<items, vaultKeys, syncEvents, seen>>

\* getById and the comparison with lastSeenItemVersion, in one turn of the loop.
PushRead(r) ==
  /\ req[r].step = "read"
  /\ LET i == req[r].itemId IN
       IF i \notin Owned(UserOf(r))
         THEN Answer(r, req[r].device, NoItems)
         ELSE req' = [req EXCEPT ![r] = [@ EXCEPT
                !.step = IF items[i].version > req[r].lastSeen THEN "fork" ELSE "update",
                !.existing = items[i].version]]
  /\ UNCHANGED <<items, vaultKeys, syncEvents, seen>>

\* createFork: the incoming write becomes a new row that points at the original.
PushFork(r) ==
  /\ req[r].step = "fork"
  /\ InsertItem(UserOf(r), req[r].content, req[r].itemId)
  /\ Answer(r, req[r].device, Single(Len(items) + 1, 1, req[r].content))
  /\ UNCHANGED <<vaultKeys, syncEvents, seen>>

\* items.update, the last step of a push without conflict and of a PUT.
Update(r) ==
  /\ req[r].step = "update"
  /\ UpdateItem(req[r].itemId, req[r].content, req[r].existing)
  /\ Answer(r, req[r].device,
            Single(req[r].itemId, req[r].existing + 1, req[r].content))
  /\ UNCHANGED <<vaultKeys, syncEvents, seen>>

\* The list has no WHERE user_id.
Bug_ListEverything(r) ==
  /\ req[r].step = "list"
  /\ Answer(r, req[r].device, [i \in DOMAIN items |-> CopyOf(i)])
  /\ UNCHANGED <<items, vaultKeys, syncEvents, seen>>

\* listByUser, the last step of a pull.
PullList(r) ==
  /\ req[r].step = "list"
  /\ Answer(r, req[r].device, [i \in Owned(UserOf(r)) |-> CopyOf(i)])
  /\ UNCHANGED <<items, vaultKeys, syncEvents, seen>>

-------------------------------------------------------------------------------
\* The environment: answers arrive or are lost, queries fail, the server process dies.

\* The device replaces its copies by the ones in the answer.
Deliver(r) ==
  /\ req[r].step = "done"
  /\ seen' = [seen EXCEPT ![req[r].device] =
       [i \in ItemIds |-> IF i \in DOMAIN req[r].reply THEN req[r].reply[i] ELSE @[i]]]
  /\ req' = [req EXCEPT ![r] = Idle]
  /\ UNCHANGED <<items, vaultKeys, syncEvents>>

\* A query rejects and the handler ends where it stands, or the answer is lost.
Fails(r) ==
  /\ req[r].step # "idle"
  /\ req' = [req EXCEPT ![r] = Idle]
  /\ UNCHANGED <<items, vaultKeys, syncEvents, seen>>

\* A restart drops every handler where it stands; the tables are in Postgres.
Crash ==
  /\ \E r \in Requests : req[r].step # "idle"
  /\ req' = [r \in Requests |-> Idle]
  /\ UNCHANGED <<items, vaultKeys, syncEvents, seen>>

Next ==
  \/ \E r \in Requests :
       \/ SendPush(r) \/ SendPull(r) \/ VaultCreate(r) \/ VaultRead(r)
       \/ VaultPut(r) \/ UpsertKey(r)
       \/ RecordEvent(r) \/ Gate(r) \/ PushCreate(r) \/ PushRead(r)
       \/ PushFork(r) \/ Update(r) \/ PullList(r)
       \/ Deliver(r) \/ Fails(r)
  \/ Crash

Spec == Init /\ [][Next]_vars

-------------------------------------------------------------------------------
(* Properties that hold however the handlers interleave. *)

\* A fork names an item that exists, is older than the fork and has the same
\* owner: the row PushRead found is still there, and still the user's, when
\* createFork runs an await later (sync.service.ts:96-106).
ForkIntegrity ==
  \A i \in DOMAIN items : items[i].conflictOf # NoItem =>
     /\ items[i].conflictOf < i
     /\ items[items[i].conflictOf].owner = items[i].owner

\* No answer, whenever it was computed and however late it arrives, shows a
\* device an item of another account: every read and write of a row filters by
\* the user of the session (getById, update, listByUser).
OnlyOwnItems ==
  /\ \A d \in Devices, i \in ItemIds :
       seen[d][i].version > 0 => i \in Owned(DeviceUser[d])
  /\ \A r \in Requests : req[r].step = "done" =>
       DOMAIN req[r].reply \subseteq Owned(UserOf(r))

\* A push or pull that the gate has still to accept or reject, or has accepted.
AtOrPastGate(r) ==
  \/ req[r].step \in {"gate", "create", "read", "fork", "list"}
  \/ req[r].step = "update" /\ req[r].op = "push"

\* The sync event is durable before anything the gate decides, and before anything
\* is written or listed: a push or pull about to be accepted or rejected, and one that
\* a crash or a failing query cuts off on its way to its last repository call, has left
\* its event (sync.service.ts:51 "A sync_event is logged either way").
EventLogged ==
  \A r \in Requests :
    AtOrPastGate(r) => <<UserOf(r), req[r].device, req[r].mkv>> \in syncEvents

-------------------------------------------------------------------------------
(* Properties that need the requests of one user to run one after another. *)

\* A write of a push that commits in this step, by the slot that commits it.
Commits(r, step) == req[r].step = step /\ req'[r].step = "done"

\* A push replaces a ciphertext only if the device had received that very
\* ciphertext; any other write of the row becomes a fork (sync.service.ts:77-86,
\* "the original is left intact, with no data loss. Never a silent merge").
NoSilentOverwrite ==
  [][\A r \in Requests : (Commits(r, "update") /\ req[r].op = "push") =>
       items[req[r].itemId].content = req[r].base]_vars

\* A push forks only when the row has moved past what the device names: a device
\* whose copy is current when its write commits is never turned into a conflict.
NoSpuriousFork ==
  [][\A r \in Requests : Commits(r, "fork") =>
       items[req[r].itemId].version > req[r].lastSeen]_vars

\* The version number stands for the ciphertext: a device that holds the row's
\* version holds the row's ciphertext.  This is what entitles push to compare
\* version numbers instead of contents (sync.service.ts:101-102).
VersionIdentifiesContent ==
  \A d \in Devices, i \in ItemIds :
    (i \in DOMAIN items /\ seen[d][i].version = items[i].version) =>
       seen[d][i].content = items[i].content

\* The two tables behave as the atomic store: in particular each UPDATE replaces a
\* row by its successor version, so version numbers neither repeat nor go back.
Store == INSTANCE VaultStore WITH store <- items, keys <- vaultKeys
ImplementsStore == Store!StoreSpec
===============================================================================

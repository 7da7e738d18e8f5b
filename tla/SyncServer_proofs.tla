--------------------------- MODULE SyncServer_proofs ---------------------------
(***************************************************************************)
(* Proofs about SyncServer, for any accounts, devices, slots, ciphertexts  *)
(* and bounds.                                                             *)
(***************************************************************************)
EXTENDS SyncServer, TLAPS

\* The row a handler is about to fork or to overwrite is still there, and is still
\* its user's: rows are never deleted and never change hands.
Targets ==
  \A r \in Requests : req[r].step \in {"fork", "update"} =>
     req[r].itemId \in Owned(UserOf(r))

\* A copy of some items is a reply.
LEMMA ReplyTyping ==
  ASSUME NEW S \in SUBSET ItemIds, NEW f \in [S -> Copy]
  PROVE  f \in Replies
  BY DEF Replies

\* The answer that carries one item.
LEMMA SingleTyping ==
  ASSUME NEW i \in ItemIds, NEW v \in 0 .. MaxItemVersion, NEW c \in Contents
  PROVE  Single(i, v, c) \in Replies
<1>1. Single(i, v, c) \in [{i} -> Copy]
  BY DEF Single, Copy
<1> QED
  BY <1>1, ReplyTyping

\* The answer of a rejected request.
LEMMA NoItemsTyping == NoItems \in Replies
<1>1. NoItems \in [{} -> Copy]
  BY DEF NoItems
<1> QED
  BY <1>1, ReplyTyping

\* The step of a slot says what kind of request it holds.
LEMMA RequestShape ==
  ASSUME TypeOK, NEW r \in Requests
  PROVE  /\ req[r].step \in {"record", "gate"} => req[r] \in Push \cup Pull
         /\ req[r].step \in {"create", "read", "fork"} => req[r] \in Push
         /\ req[r].step = "update" => req[r] \in Push \cup Put
         /\ req[r].step = "list" => req[r] \in Pull
         /\ req[r].step = "done" => req[r] \in Done
         /\ req[r].step # "idle" => req[r].device \in Devices
         /\ req[r].step = "idle" => req[r] = Idle
<1>1. req[r] \in Request
  BY DEF TypeOK
<1> QED
  BY <1>1 DEF Request, Idle, Push, Pull, Put, Done

\* A copy of rows that a user owns is a reply.
LEMMA RowsTyping ==
  ASSUME TypeOK, NEW u, NEW S \in SUBSET Owned(u)
  PROVE  [i \in S |-> CopyOf(i)] \in Replies
<1>1. S \in SUBSET ItemIds
  BY BoundsAssumption DEF TypeOK, Owned, ItemIds
<1>2. ASSUME NEW i \in S PROVE CopyOf(i) \in Copy
  <2>1. items[i] \in Item
    BY DEF TypeOK, Owned
  <2> QED
    BY <2>1, BoundsAssumption DEF CopyOf, Copy, Item
<1> QED
  BY <1>1, <1>2, ReplyTyping

\* An insertion keeps the table well typed and answers with the new id.
LEMMA InsertTyping ==
  ASSUME TypeOK, NEW u \in Users, NEW c \in Contents, NEW o \in {NoItem} \cup ItemIds,
         InsertItem(u, c, o)
  PROVE  /\ items' \in Seq(Item) /\ Len(items') <= MaxItems
         /\ Len(items) + 1 \in ItemIds
<1>1. [owner |-> u, content |-> c, version |-> 1, conflictOf |-> o] \in Item
  BY BoundsAssumption DEF Item
<1> QED
  BY <1>1, BoundsAssumption DEF InsertItem, TypeOK, ItemIds

\* Type correctness is preserved by every step.
LEMMA TypeStep == TypeOK /\ Targets /\ [Next]_vars => TypeOK'
<1> SUFFICES ASSUME TypeOK, Targets, [Next]_vars PROVE TypeOK'
  OBVIOUS
<1> USE BoundsAssumption, SessionAssumption
<1>1. ASSUME NEW r \in Requests, SendPush(r) PROVE TypeOK'
  <2>1. PICK d \in SlotDevices[r], i \in {NoItem} \cup ItemIds, c \in Contents,
             mkv \in 1 .. MaxKeyVersion, known \in Copy :
          req' = [req EXCEPT ![r] =
            [op |-> "push", step |-> "record", device |-> d, itemId |-> i,
             content |-> c, lastSeen |-> known.version, base |-> known.content,
             mkv |-> mkv, existing |-> 0]]
    <3>1. Unseen \in Copy
      BY DEF Unseen, Copy
    <3>2. ASSUME NEW d \in SlotDevices[r], NEW i \in ItemIds PROVE seen[d][i] \in Copy
      BY <3>2 DEF TypeOK
    <3> QED
      BY <1>1, <3>1, <3>2, ZenonT(30) DEF SendPush, NoItem
  <2>2. known.version \in 0 .. MaxItemVersion /\ known.content \in Contents \cup {NoContent}
    BY DEF Copy
  <2>3. [op |-> "push", step |-> "record", device |-> d, itemId |-> i,
         content |-> c, lastSeen |-> known.version, base |-> known.content,
         mkv |-> mkv, existing |-> 0] \in Push
    BY <2>2 DEF Push
  <2> QED
    BY <1>1, <2>1, <2>3 DEF SendPush, TypeOK, Request
<1>2. ASSUME NEW r \in Requests, SendPull(r) PROVE TypeOK'
  <2>1. PICK d \in SlotDevices[r], mkv \in 1 .. MaxKeyVersion :
          req' = [req EXCEPT ![r] = [op |-> "pull", step |-> "record",
                                     device |-> d, mkv |-> mkv]]
    BY <1>2 DEF SendPull
  <2>2. [op |-> "pull", step |-> "record", device |-> d, mkv |-> mkv] \in Pull
    BY DEF Pull
  <2> QED
    BY <1>2, <2>1, <2>2 DEF SendPull, TypeOK, Request
<1>a. ASSUME NEW r \in Requests, NEW d \in Devices, NEW reply \in Replies,
             Answer(r, d, reply)
      PROVE  req' \in [Requests -> Request]
  BY <1>a DEF Answer, TypeOK, Request, Done
<1>3. ASSUME NEW r \in Requests, VaultCreate(r) PROVE TypeOK'
  <2>1. PICK d \in SlotDevices[r], c \in Contents :
          /\ InsertItem(DeviceUser[d], c, NoItem)
          /\ Answer(r, d, Single(Len(items) + 1, 1, c))
    BY <1>3 DEF VaultCreate
  <2>2. items' \in Seq(Item) /\ Len(items') <= MaxItems /\ Len(items) + 1 \in ItemIds
    BY <2>1, InsertTyping
  <2>3. req' \in [Requests -> Request]
    BY <1>a, <2>1, <2>2, SingleTyping
  <2> QED
    BY <1>3, <2>2, <2>3 DEF VaultCreate, TypeOK
<1>4. ASSUME NEW r \in Requests, VaultRead(r) PROVE TypeOK'
  <2>0. PICK d \in SlotDevices[r] :
          \E S \in {Owned(DeviceUser[d])} \cup {{i} : i \in Owned(DeviceUser[d])} :
             Answer(r, d, [i \in S |-> CopyOf(i)])
    BY <1>4 DEF VaultRead
  <2>1. PICK S \in SUBSET Owned(DeviceUser[d]) : Answer(r, d, [i \in S |-> CopyOf(i)])
    BY <2>0
  <2>2. req' \in [Requests -> Request]
    BY <1>a, <2>1, RowsTyping
  <2> QED
    BY <1>4, <2>2 DEF VaultRead, TypeOK
<1>5. ASSUME NEW r \in Requests, VaultPut(r) PROVE TypeOK'
  <2>1. PICK d \in SlotDevices[r], c \in Contents, i \in DOMAIN items :
         req' = [req EXCEPT ![r] = [op |-> "put", step |-> "update", device |-> d,
                                    itemId |-> i, content |-> c,
                                    existing |-> items[i].version]]
    BY <1>5 DEF VaultPut, Owned
  <2>2. i \in ItemIds /\ items[i] \in Item
    BY DEF TypeOK, ItemIds
  <2>3. [op |-> "put", step |-> "update", device |-> d, itemId |-> i,
         content |-> c, existing |-> items[i].version] \in Put
    BY <2>2 DEF Put, Item
  <2> QED
    BY <1>5, <2>1, <2>3 DEF VaultPut, TypeOK, Request
<1>6. ASSUME NEW r \in Requests, UpsertKey(r) PROVE TypeOK'
  BY <1>6 DEF UpsertKey, TypeOK
<1>7. ASSUME NEW r \in Requests, RecordEvent(r) PROVE TypeOK'
  <2>1. req[r] \in Push \cup Pull
    BY <1>7, RequestShape DEF RecordEvent
  <2>2. [req[r] EXCEPT !.step = "gate"] \in Push \cup Pull
    BY <2>1 DEF Push, Pull
  <2>3. <<UserOf(r), req[r].device, req[r].mkv>> \in Users \X Devices \X (1 .. MaxKeyVersion)
    BY <2>1 DEF Push, Pull, UserOf
  <2> QED
    BY <1>7, <2>2, <2>3 DEF RecordEvent, GoTo, TypeOK, Request
<1>8. ASSUME NEW r \in Requests, Gate(r) PROVE TypeOK'
  <2>1. req[r] \in Push \cup Pull
    BY <1>8, RequestShape DEF Gate
  <2>2. [req[r] EXCEPT !.step = AfterGate(r)] \in Push \cup Pull
    BY <2>1 DEF Push, Pull, AfterGate
  <2>3. req[r].device \in Devices
    BY <2>1 DEF Push, Pull
  <2>4. req' \in [Requests -> Request]
    <3>1. CASE Answer(r, req[r].device, NoItems)
      BY <3>1, <2>3, <1>a, NoItemsTyping
    <3>2. CASE GoTo(r, AfterGate(r))
      BY <3>2, <2>2 DEF GoTo, TypeOK, Request
    <3> QED
      BY <1>8, <3>1, <3>2 DEF Gate
  <2> QED
    BY <1>8, <2>4 DEF Gate, TypeOK
<1>9. ASSUME NEW r \in Requests, PushCreate(r) PROVE TypeOK'
  <2>1. req[r] \in Push
    BY <1>9, RequestShape DEF PushCreate
  <2>2. req[r].device \in Devices /\ req[r].content \in Contents /\ UserOf(r) \in Users
    BY <2>1 DEF Push, UserOf
  <2>3. items' \in Seq(Item) /\ Len(items') <= MaxItems /\ Len(items) + 1 \in ItemIds
    BY <1>9, <2>2, InsertTyping DEF PushCreate
  <2>4. req' \in [Requests -> Request]
    BY <1>9, <1>a, <2>2, <2>3, SingleTyping DEF PushCreate
  <2> QED
    BY <1>9, <2>3, <2>4 DEF PushCreate, TypeOK
<1>10. ASSUME NEW r \in Requests, PushRead(r) PROVE TypeOK'
  <2>1. req[r] \in Push
    BY <1>10, RequestShape DEF PushRead
  <2>2. req' \in [Requests -> Request]
    <3>1. CASE req[r].itemId \notin Owned(UserOf(r))
      <4>1. Answer(r, req[r].device, NoItems)
        BY <1>10, <3>1 DEF PushRead
      <4> QED
        BY <4>1, <2>1, <1>a, NoItemsTyping DEF Push
    <3>2. CASE req[r].itemId \in Owned(UserOf(r))
      <4> DEFINE version == items[req[r].itemId].version
                 branch  == IF version > req[r].lastSeen THEN "fork" ELSE "update"
                 next    == [req[r] EXCEPT !.step = branch, !.existing = version]
      <4>1. items[req[r].itemId] \in Item
        BY <3>2 DEF Owned, TypeOK
      <4>2. next \in Push
        <5>1. branch \in {"fork", "update"} /\ version \in 0 .. MaxItemVersion
          BY <4>1 DEF Item
        <5> HIDE DEF branch, version
        <5>2. [req[r] EXCEPT !.step = branch] \in Push
          BY <2>1, <5>1 DEF Push
        <5> QED
          BY <5>1, <5>2 DEF Push
      <4>3. req' = [req EXCEPT ![r] = next]
        BY <1>10, <3>2 DEF PushRead, TypeOK
      <4> QED
        BY <4>2, <4>3 DEF TypeOK, Request
    <3> QED
      BY <3>1, <3>2
  <2> QED
    BY <1>10, <2>2 DEF PushRead, TypeOK
<1>11. ASSUME NEW r \in Requests, PushFork(r) PROVE TypeOK'
  <2>1. req[r] \in Push
    BY <1>11, RequestShape DEF PushFork
  <2>2. /\ req[r].device \in Devices /\ req[r].content \in Contents
        /\ req[r].itemId \in {NoItem} \cup ItemIds /\ UserOf(r) \in Users
    BY <2>1 DEF Push, UserOf
  <2>3. items' \in Seq(Item) /\ Len(items') <= MaxItems /\ Len(items) + 1 \in ItemIds
    BY <1>11, <2>2, InsertTyping DEF PushFork
  <2>4. req' \in [Requests -> Request]
    BY <1>11, <1>a, <2>2, <2>3, SingleTyping DEF PushFork
  <2> QED
    BY <1>11, <2>3, <2>4 DEF PushFork, TypeOK
<1>13. ASSUME NEW r \in Requests, PullList(r) PROVE TypeOK'
  <2>1. req[r].device \in Devices
    BY <1>13, RequestShape DEF PullList
  <2>2. req' \in [Requests -> Request]
    BY <1>13, <1>a, <2>1, RowsTyping DEF PullList
  <2> QED
    BY <1>13, <2>2 DEF PullList, TypeOK
<1>14. ASSUME NEW r \in Requests, Deliver(r) PROVE TypeOK'
  <2>1. req[r] \in Done
    BY <1>14, RequestShape DEF Deliver
  <2>2. PICK S \in SUBSET ItemIds : req[r].reply \in [S -> Copy]
    BY <2>1 DEF Done, Replies
  <2>3. seen' \in [Devices -> [ItemIds -> Copy]]
    BY <1>14, <2>1, <2>2 DEF Deliver, TypeOK, Done
  <2> QED
    BY <1>14, <2>3 DEF Deliver, TypeOK, Request
<1>15. ASSUME NEW r \in Requests, Fails(r) PROVE TypeOK'
  BY <1>15 DEF Fails, TypeOK, Request
<1>16. CASE Crash
  BY <1>16 DEF Crash, TypeOK, Request
<1>17. CASE UNCHANGED vars
  BY <1>17 DEF vars, TypeOK
<1>12. ASSUME NEW r \in Requests, Update(r) PROVE TypeOK'
  <2>1. req[r] \in Push \cup Put
    BY <1>12, RequestShape DEF Update
  <2>2. /\ req[r].device \in Devices /\ req[r].content \in Contents
        /\ req[r].existing \in 0 .. MaxItemVersion
        /\ req[r].existing < MaxItemVersion
    BY <1>12, <2>1 DEF Push, Put, Update, UpdateItem
  <2> DEFINE i == req[r].itemId
  <2>3. i \in DOMAIN items /\ i \in ItemIds /\ items[i] \in Item
    BY <1>12 DEF Update, Targets, Owned, TypeOK, ItemIds
  <2>4. req' \in [Requests -> Request]
    BY <1>12, <1>a, <2>2, <2>3, SingleTyping DEF Update
  <2>5. items' = [items EXCEPT ![i] = [items[i] EXCEPT !.content = req[r].content,
                                       !.version = req[r].existing + 1]]
    BY <1>12, <2>3 DEF Update, UpdateItem, TypeOK
  <2>6. [items[i] EXCEPT !.content = req[r].content, !.version = req[r].existing + 1] \in Item
    <3> DEFINE version == req[r].existing + 1
    <3>1. version \in 1 .. MaxItemVersion
      BY <2>2
    <3> HIDE DEF version, i
    <3>2. [items[i] EXCEPT !.content = req[r].content] \in Item
      BY <2>2, <2>3 DEF Item
    <3>3. [[items[i] EXCEPT !.content = req[r].content] EXCEPT !.version = version] \in Item
      BY <3>1, <3>2 DEF Item
    <3> QED
      BY <3>3 DEF version
  <2>7. items' \in Seq(Item) /\ Len(items') = Len(items)
    BY <2>3, <2>5, <2>6 DEF TypeOK
  <2> QED
    BY <1>12, <2>4, <2>7 DEF Update, TypeOK
<1> QED
  BY <1>1, <1>2, <1>3, <1>4, <1>5, <1>6, <1>7, <1>8, <1>9, <1>10, <1>11, <1>12,
     <1>13, <1>14, <1>15, <1>16, <1>17 DEF Next

-------------------------------------------------------------------------------
\* A row that exists keeps its id, its owner and what it is a fork of.
RowsKept ==
  /\ Len(items) <= Len(items')
  /\ \A i \in DOMAIN items :
       /\ i \in DOMAIN items'
       /\ items'[i].owner = items[i].owner
       /\ items'[i].conflictOf = items[i].conflictOf

\* An INSERT appends one row at version 1 and touches no other.
LEMMA InsertKeeps ==
  ASSUME TypeOK, NEW u \in Users, NEW c \in Contents, NEW o \in {NoItem} \cup ItemIds,
         InsertItem(u, c, o)
  PROVE  /\ RowsKept
         /\ Len(items') = Len(items) + 1
         /\ \A i \in DOMAIN items : items'[i] = items[i]
         /\ items'[Len(items) + 1] = [owner |-> u, content |-> c, version |-> 1,
                                      conflictOf |-> o]
  BY DEF InsertItem, TypeOK, RowsKept

\* What an UPDATE leaves alone, and what it sets.
LEMMA UpdateKeeps ==
  ASSUME TypeOK, NEW i \in DOMAIN items, NEW c, NEW v \in Nat, UpdateItem(i, c, v)
  PROVE  /\ RowsKept
         /\ Len(items') = Len(items)
         /\ \A j \in DOMAIN items : j # i => items'[j] = items[j]
         /\ items'[i] = [items[i] EXCEPT !.content = c, !.version = v + 1]
<1>1. items[i] \in Item
  BY DEF TypeOK
<1>2. items' = [items EXCEPT ![i] = [items[i] EXCEPT !.content = c, !.version = v + 1]]
  BY DEF UpdateItem, TypeOK
<1> QED
  BY <1>1, <1>2 DEF TypeOK, RowsKept, Item

\* Only the steps that insert or update touch the table, and all of them keep rows.
LEMMA KeepRows == TypeOK /\ Targets /\ [Next]_vars => RowsKept
<1> SUFFICES ASSUME TypeOK, Targets, [Next]_vars PROVE RowsKept
  OBVIOUS
<1> USE SessionAssumption
<1>1. CASE items' = items
  BY <1>1 DEF RowsKept, TypeOK
<1>2. ASSUME NEW r \in Requests, VaultCreate(r) PROVE RowsKept
  <2>1. PICK d \in SlotDevices[r], c \in Contents : InsertItem(DeviceUser[d], c, NoItem)
    BY <1>2 DEF VaultCreate
  <2> QED
    BY <2>1, InsertKeeps
<1>3. ASSUME NEW r \in Requests, PushCreate(r) \/ PushFork(r) PROVE RowsKept
  <2>1. req[r] \in Push
    BY <1>3, RequestShape DEF PushCreate, PushFork
  <2>2. UserOf(r) \in Users /\ req[r].content \in Contents
        /\ req[r].itemId \in {NoItem} \cup ItemIds
    BY <2>1 DEF Push, UserOf
  <2> QED
    BY <1>3, <2>2, InsertKeeps DEF PushCreate, PushFork
<1>4. ASSUME NEW r \in Requests, Update(r) PROVE RowsKept
  <2>1. req[r].itemId \in DOMAIN items /\ req[r].existing \in Nat
    BY <1>4, RequestShape, BoundsAssumption DEF Update, Targets, Owned, Push, Put
  <2> QED
    BY <1>4, <2>1, UpdateKeeps DEF Update
<1>5. [Next]_vars =>
        \/ items' = items
        \/ \E r \in Requests : VaultCreate(r) \/ PushCreate(r) \/ PushFork(r) \/ Update(r)
  BY DEF Next, vars, SendPush, SendPull, VaultRead, VaultPut, UpsertKey, RecordEvent,
     Gate, PushRead, PullList, Deliver, Fails, Crash
<1> QED
  BY <1>1, <1>2, <1>3, <1>4, <1>5

\* What a user owns stays owned.
LEMMA OwnedGrows == TypeOK /\ RowsKept => \A u : Owned(u) \subseteq Owned(u)'
  BY DEF RowsKept, Owned

-------------------------------------------------------------------------------
\* One handler moves at a time: the steps of slot r.
SlotStep(r) ==
  \/ SendPush(r) \/ SendPull(r) \/ VaultCreate(r) \/ VaultRead(r) \/ VaultPut(r)
  \/ UpsertKey(r) \/ RecordEvent(r) \/ Gate(r) \/ PushCreate(r) \/ PushRead(r)
  \/ PushFork(r) \/ Update(r) \/ PullList(r) \/ Deliver(r) \/ Fails(r)

\* A step of one slot leaves every other slot alone.
LEMMA OtherSlots ==
  ASSUME TypeOK, NEW s \in Requests, SlotStep(s), NEW r \in Requests, r # s
  PROVE  req'[r] = req[r]
<1>1. CASE SendPush(s) \/ SendPull(s) \/ VaultPut(s)
  BY <1>1 DEF SendPush, SendPull, VaultPut, TypeOK
<1>2. CASE VaultCreate(s) \/ VaultRead(s) \/ PushCreate(s) \/ PushFork(s) \/ Update(s)
           \/ PullList(s)
  BY <1>2 DEF VaultCreate, VaultRead, PushCreate, PushFork, Update, PullList, Answer, TypeOK
<1>3. CASE UpsertKey(s) \/ RecordEvent(s) \/ Gate(s)
  BY <1>3 DEF UpsertKey, RecordEvent, Gate, GoTo, Answer, TypeOK
<1>4. CASE PushRead(s)
  BY <1>4 DEF PushRead, Answer, TypeOK
<1>5. CASE Deliver(s) \/ Fails(s)
  BY <1>5 DEF Deliver, Fails, TypeOK
<1> QED
  BY <1>1, <1>2, <1>3, <1>4, <1>5 DEF SlotStep

\* So a slot keeps its request unless the step is its own or a crash.
LEMMA SlotCases ==
  ASSUME TypeOK, [Next]_vars, NEW r \in Requests
  PROVE  req'[r] = req[r] \/ SlotStep(r) \/ Crash
<1>1. CASE UNCHANGED vars
  BY <1>1 DEF vars
<1>2. CASE \E s \in Requests : SlotStep(s)
  BY <1>2, OtherSlots
<1> QED
  BY <1>1, <1>2 DEF Next, SlotStep

\* The locals of a handler in the step after its own: where it can be now, and
\* that it keeps the device and the parameters of its request.
LEMMA Steps ==
  ASSUME TypeOK, [Next]_vars, NEW r \in Requests
  PROVE  \/ req'[r] = req[r]
         \/ req'[r].step \in {"idle", "record", "done"}
         \/ VaultPut(r)
         \/ /\ RecordEvent(r) \/ Gate(r) \/ PushRead(r)
            /\ req[r] \in Push \cup Pull
            /\ req'[r].device = req[r].device /\ req'[r].mkv = req[r].mkv
            /\ req'[r].op = req[r].op
            /\ req[r] \in Push =>
                 /\ req'[r].itemId = req[r].itemId /\ req'[r].content = req[r].content
                 /\ req'[r].lastSeen = req[r].lastSeen /\ req'[r].base = req[r].base
            /\ req'[r].step \in {"fork", "update"} => PushRead(r)
<1>1. CASE Crash
  BY <1>1 DEF Crash, Idle
<1>2. CASE SendPush(r) \/ SendPull(r)
  BY <1>2 DEF SendPush, SendPull, TypeOK
<1>3. CASE VaultCreate(r) \/ VaultRead(r) \/ PushCreate(r) \/ PushFork(r) \/ Update(r)
           \/ PullList(r)
  BY <1>3
     DEF VaultCreate, VaultRead, PushCreate, PushFork, Update, PullList, Answer, TypeOK
<1>4. CASE UpsertKey(r)
  BY <1>4 DEF UpsertKey
<1>5. CASE Deliver(r) \/ Fails(r)
  BY <1>5 DEF Deliver, Fails, TypeOK, Idle
<1>6. CASE RecordEvent(r)
  <2>1. req[r] \in Push \cup Pull
    BY <1>6, RequestShape DEF RecordEvent
  <2> QED
    BY <1>6, <2>1 DEF RecordEvent, GoTo, TypeOK, Push, Pull
<1>7. CASE Gate(r)
  <2>1. req[r] \in Push \cup Pull
    BY <1>7, RequestShape DEF Gate
  <2>2. CASE Answer(r, req[r].device, NoItems)
    BY <2>2 DEF Answer, TypeOK
  <2>3. CASE GoTo(r, AfterGate(r))
    BY <1>7, <2>1, <2>3 DEF GoTo, AfterGate, TypeOK, Push, Pull
  <2> QED
    BY <1>7, <2>2, <2>3 DEF Gate
<1>8. CASE PushRead(r)
  <2>1. req[r] \in Push
    BY <1>8, RequestShape DEF PushRead
  <2>2. CASE Answer(r, req[r].device, NoItems)
    BY <2>2 DEF Answer, TypeOK
  <2>3. CASE ~Answer(r, req[r].device, NoItems)
    <3>1. req[r].itemId \in Owned(UserOf(r))
      BY <1>8, <2>3 DEF PushRead
    <3>2. req'[r] = [req[r] EXCEPT
            !.step = IF items[req[r].itemId].version > req[r].lastSeen
                       THEN "fork" ELSE "update",
            !.existing = items[req[r].itemId].version]
      BY <1>8, <3>1 DEF PushRead, TypeOK
    <3> QED
      BY <1>8, <2>1, <3>2 DEF Push
  <2> QED
    BY <2>2, <2>3
<1> QED
  BY <1>1, <1>2, <1>3, <1>4, <1>5, <1>6, <1>7, <1>8, SlotCases DEF SlotStep

-------------------------------------------------------------------------------
\* A handler that reaches "fork" or "update" has just read a row of its user, and
\* until it writes the row stays where it is.
LEMMA TargetsStep == TypeOK /\ Targets /\ [Next]_vars => Targets'
<1> SUFFICES ASSUME TypeOK, Targets, [Next]_vars,
                    NEW r \in Requests, req'[r].step \in {"fork", "update"}
             PROVE  /\ req'[r].itemId \in DOMAIN items'
                    /\ items'[req'[r].itemId].owner = DeviceUser[req'[r].device]
  BY DEF Targets, UserOf, Owned
<1>1. RowsKept
  BY KeepRows
<1>2. CASE req'[r] = req[r]
  BY <1>1, <1>2 DEF Targets, UserOf, Owned, RowsKept
<1>3. CASE VaultPut(r)
  <2>1. PICK d \in SlotDevices[r], i \in DOMAIN items :
          /\ items[i].owner = DeviceUser[d]
          /\ req'[r].device = d /\ req'[r].itemId = i
    BY <1>3 DEF VaultPut, Owned, TypeOK
  <2> QED
    BY <1>1, <2>1 DEF RowsKept
<1>4. CASE PushRead(r) /\ req'[r].device = req[r].device /\ req'[r].itemId = req[r].itemId
  <2>1. ~Answer(r, req[r].device, NoItems)
    BY DEF Answer, TypeOK
  <2>2. req[r].itemId \in Owned(UserOf(r))
    BY <1>4, <2>1 DEF PushRead
  <2> QED
    BY <1>1, <1>4, <2>2 DEF RowsKept, Owned, UserOf
<1>5. CASE RecordEvent(r) \/ Gate(r)
  <2>1. req[r].step \in {"record", "gate"} /\ req'[r].step \in {"gate", "list", "create", "read", "done"}
    BY <1>5, RequestShape
       DEF RecordEvent, Gate, GoTo, Answer, AfterGate, TypeOK, Push, Pull
  <2> QED
    BY <2>1
<1> QED
  BY <1>2, <1>3, <1>4, <1>5, Steps, RequestShape DEF PushRead

\* The empty tables.
LEMMA TypeInit == Init => TypeOK /\ Targets
  BY BoundsAssumption DEF Init, TypeOK, Targets, Request, Idle, Unseen, Copy

\* Type correctness of the server for every interleaving of its handlers.
THEOREM Typing == Spec => []TypeOK
  BY TypeInit, TypeStep, TargetsStep, PTL DEF Spec

-------------------------------------------------------------------------------
\* A fork names an older row of the same user.  A new row is checked when it is
\* inserted, by Targets; an old one stays right because rows keep their owners.
LEMMA ForkStep ==
  TypeOK /\ Targets /\ ForkIntegrity /\ [Next]_vars => ForkIntegrity'
<1> SUFFICES ASSUME TypeOK, Targets, ForkIntegrity, [Next]_vars PROVE ForkIntegrity'
  OBVIOUS
<1> USE SessionAssumption
<1>0. RowsKept
  BY KeepRows
<1>1. CASE \A i \in DOMAIN items' : i \in DOMAIN items
  <2> SUFFICES ASSUME NEW i \in DOMAIN items', items'[i].conflictOf # NoItem
               PROVE  /\ items'[i].conflictOf < i
                      /\ items'[items'[i].conflictOf].owner = items'[i].owner
    BY DEF ForkIntegrity
  <2>1. /\ i \in DOMAIN items /\ items[i] \in Item
        /\ items'[i].owner = items[i].owner
        /\ items'[i].conflictOf = items[i].conflictOf
    BY <1>0, <1>1 DEF RowsKept, TypeOK
  <2>2. items[i].conflictOf < i /\ items[items[i].conflictOf].owner = items[i].owner
    BY <2>1 DEF ForkIntegrity
  <2>3. items[i].conflictOf \in DOMAIN items
    BY <2>1, <2>2, BoundsAssumption DEF Item, ItemIds, TypeOK, NoItem
  <2> QED
    BY <1>0, <2>1, <2>2, <2>3 DEF RowsKept
<1>2. ASSUME NEW u \in Users, NEW c \in Contents, NEW o \in {NoItem} \cup ItemIds,
             InsertItem(u, c, o), o # NoItem => o \in Owned(u)
      PROVE  ForkIntegrity'
  <2> SUFFICES ASSUME NEW i \in DOMAIN items', items'[i].conflictOf # NoItem
               PROVE  /\ items'[i].conflictOf < i
                      /\ items'[items'[i].conflictOf].owner = items'[i].owner
    BY DEF ForkIntegrity
  <2>1. /\ Len(items') = Len(items) + 1
        /\ \A j \in DOMAIN items : items'[j] = items[j]
        /\ items'[Len(items) + 1].owner = u
        /\ items'[Len(items) + 1].conflictOf = o
    <3>1. items'[Len(items) + 1] = [owner |-> u, content |-> c, version |-> 1,
                                    conflictOf |-> o]
      BY <1>2, InsertKeeps
    <3> QED
      BY <1>2, <3>1, InsertKeeps
  <2>2. CASE i \in DOMAIN items
    <3>1. items[i] \in Item /\ items'[i] = items[i]
      BY <2>1, <2>2 DEF TypeOK
    <3>2. items[i].conflictOf < i /\ items[items[i].conflictOf].owner = items[i].owner
      BY <2>2, <3>1 DEF ForkIntegrity
    <3>3. items[i].conflictOf \in DOMAIN items
      BY <2>2, <3>1, <3>2, BoundsAssumption DEF Item, ItemIds, TypeOK, NoItem
    <3> QED
      BY <2>1, <3>1, <3>2, <3>3
  <2>3. CASE i = Len(items) + 1
    <3>1. o \in DOMAIN items /\ items[o].owner = u
      BY <1>2, <2>1, <2>3 DEF Owned
    <3>2. o < Len(items) + 1
      BY <3>1 DEF TypeOK
    <3> QED
      BY <2>1, <2>3, <3>1, <3>2
  <2>4. i \in DOMAIN items \/ i = Len(items) + 1
    <3>1. items' \in Seq(Item)
      BY TypeStep DEF TypeOK
    <3> QED
      BY <2>1, <3>1 DEF TypeOK
  <2> QED
    BY <2>2, <2>3, <2>4
<1>3. ASSUME NEW r \in Requests, VaultCreate(r) PROVE ForkIntegrity'
  <2>1. PICK d \in SlotDevices[r], c \in Contents : InsertItem(DeviceUser[d], c, NoItem)
    BY <1>3 DEF VaultCreate
  <2> QED
    BY <1>2, <2>1
<1>4. ASSUME NEW r \in Requests, PushCreate(r) \/ PushFork(r) PROVE ForkIntegrity'
  <2>1. req[r] \in Push
    BY <1>4, RequestShape DEF PushCreate, PushFork
  <2>2. UserOf(r) \in Users /\ req[r].content \in Contents
        /\ req[r].itemId \in {NoItem} \cup ItemIds
    BY <2>1 DEF Push, UserOf
  <2>3. CASE PushCreate(r)
    BY <1>2, <2>2, <2>3 DEF PushCreate
  <2>4. CASE PushFork(r)
    BY <1>2, <2>2, <2>4 DEF PushFork, Targets
  <2> QED
    BY <1>4, <2>3, <2>4
<1>5. ASSUME NEW r \in Requests, Update(r) PROVE \A i \in DOMAIN items' : i \in DOMAIN items
  <2>1. req[r].itemId \in DOMAIN items /\ req[r].existing \in Nat
    BY <1>5, RequestShape, BoundsAssumption DEF Update, Targets, Owned, Push, Put
  <2>2. Len(items') = Len(items)
    BY <1>5, <2>1, UpdateKeeps DEF Update
  <2>3. items' \in Seq(Item)
    BY TypeStep DEF TypeOK
  <2> QED
    BY <2>2, <2>3 DEF TypeOK
<1>6. \/ items' = items
      \/ \E r \in Requests : VaultCreate(r) \/ PushCreate(r) \/ PushFork(r) \/ Update(r)
  BY DEF Next, vars, SendPush, SendPull, VaultRead, VaultPut, UpsertKey, RecordEvent,
     Gate, PushRead, PullList, Deliver, Fails, Crash
<1> QED
  BY <1>1, <1>3, <1>4, <1>5, <1>6

\* Whatever races the handlers run, conflict_of never dangles, never points forward
\* (so following it ends at an item that is no fork), and never crosses accounts.
THEOREM ForksAreSound == Spec => []ForkIntegrity
<1>1. Init => ForkIntegrity
  BY DEF Init, ForkIntegrity
<1> QED
  BY <1>1, TypeInit, TypeStep, TargetsStep, ForkStep, PTL DEF Spec

-------------------------------------------------------------------------------
\* A device learns of an item only what its own user owns: an answer is computed
\* from owned rows, and rows stay owned while it travels.
LEMMA OwnItemsStep ==
  TypeOK /\ Targets /\ OnlyOwnItems /\ [Next]_vars => OnlyOwnItems'
<1> SUFFICES ASSUME TypeOK, Targets, OnlyOwnItems, [Next]_vars PROVE OnlyOwnItems'
  OBVIOUS
<1> USE SessionAssumption
<1>1. RowsKept /\ items' \in Seq(Item)
  BY KeepRows, TypeStep DEF TypeOK
<1>2. \A u : Owned(u) \subseteq Owned(u)'
  BY <1>1, OwnedGrows
<1>3. ASSUME NEW d \in Devices, NEW i \in ItemIds, seen'[d][i].version > 0
      PROVE  i \in Owned(DeviceUser[d])'
  <2>1. CASE seen'[d][i] = seen[d][i]
    BY <1>2, <1>3, <2>1 DEF OnlyOwnItems
  <2>2. ASSUME NEW r \in Requests, Deliver(r), seen'[d][i] # seen[d][i]
        PROVE  i \in Owned(DeviceUser[d])
    <3>1. d = req[r].device /\ i \in DOMAIN req[r].reply /\ req[r].step = "done"
      BY <2>2 DEF Deliver, TypeOK
    <3> QED
      BY <3>1 DEF OnlyOwnItems, UserOf
  <2>3. seen' = seen \/ \E r \in Requests : Deliver(r)
    BY DEF Next, vars, SendPush, SendPull, VaultCreate, VaultRead, VaultPut, UpsertKey,
       RecordEvent, Gate, PushCreate, PushRead, PushFork, Update, PullList, Fails,
       Crash
  <2> QED
    BY <1>2, <2>1, <2>2, <2>3
<1>4. ASSUME NEW r \in Requests, req'[r].step = "done"
      PROVE  DOMAIN req'[r].reply \subseteq Owned(UserOf(r))'
  <2>1. CASE req'[r] = req[r]
    BY <1>2, <1>4, <2>1 DEF OnlyOwnItems, UserOf
  <2>2. CASE VaultCreate(r)
    <3>1. PICK d \in SlotDevices[r], c \in Contents :
            /\ InsertItem(DeviceUser[d], c, NoItem)
            /\ Answer(r, d, Single(Len(items) + 1, 1, c))
      BY <2>2 DEF VaultCreate
    <3>2. Len(items) + 1 \in DOMAIN items' /\ items'[Len(items) + 1].owner = DeviceUser[d]
      <4>1. Len(items') = Len(items) + 1
        BY <3>1, InsertKeeps
      <4>2. items'[Len(items) + 1] = [owner |-> DeviceUser[d], content |-> c,
                                      version |-> 1, conflictOf |-> NoItem]
        BY <3>1, InsertKeeps
      <4>3. Len(items) + 1 \in DOMAIN items'
        BY <1>1, <4>1 DEF TypeOK
      <4> QED
        BY <4>2, <4>3
    <3>3. req'[r].device = d /\ DOMAIN req'[r].reply = {Len(items) + 1}
      BY <3>1 DEF Answer, Single, TypeOK
    <3> QED
      BY <3>2, <3>3 DEF Owned, UserOf
  <2>3. CASE PushCreate(r) \/ PushFork(r)
    <3>1. req[r] \in Push
      BY <2>3, RequestShape DEF PushCreate, PushFork
    <3>2. UserOf(r) \in Users /\ req[r].content \in Contents
          /\ req[r].itemId \in {NoItem} \cup ItemIds
      BY <3>1 DEF Push, UserOf
    <3>3. Len(items) + 1 \in DOMAIN items' /\ items'[Len(items) + 1].owner = UserOf(r)
      <4>1. PICK o \in {NoItem} \cup ItemIds : InsertItem(UserOf(r), req[r].content, o)
        BY <2>3, <3>2 DEF PushCreate, PushFork
      <4>2. Len(items') = Len(items) + 1
        BY <3>2, <4>1, InsertKeeps
      <4>3. items'[Len(items) + 1] = [owner |-> UserOf(r), content |-> req[r].content,
                                      version |-> 1, conflictOf |-> o]
        BY <3>2, <4>1, InsertKeeps
      <4>4. Len(items) + 1 \in DOMAIN items'
        BY <1>1, <4>2 DEF TypeOK
      <4> QED
        BY <4>3, <4>4
    <3>4. req'[r].device = req[r].device /\ DOMAIN req'[r].reply = {Len(items) + 1}
      BY <2>3 DEF PushCreate, PushFork, Answer, Single, TypeOK
    <3> QED
      BY <3>3, <3>4 DEF Owned, UserOf
  <2>4. CASE VaultRead(r)
    <3>1. PICK d \in SlotDevices[r] :
            \E S \in {Owned(DeviceUser[d])} \cup {{i} : i \in Owned(DeviceUser[d])} :
               Answer(r, d, [i \in S |-> CopyOf(i)])
      BY <2>4 DEF VaultRead
    <3>2. PICK S \in SUBSET Owned(DeviceUser[d]) : Answer(r, d, [i \in S |-> CopyOf(i)])
      BY <3>1
    <3>3. req'[r].device = d /\ DOMAIN req'[r].reply = S
      BY <3>2 DEF Answer, TypeOK
    <3> QED
      BY <1>2, <3>2, <3>3 DEF Owned, UserOf
  <2>5. CASE Update(r)
    <3>1. req'[r].device = req[r].device /\ DOMAIN req'[r].reply = {req[r].itemId}
      BY <2>5 DEF Update, Answer, Single, TypeOK
    <3>2. req[r].itemId \in Owned(UserOf(r))
      BY <2>5 DEF Update, Targets
    <3> QED
      BY <1>2, <3>1, <3>2 DEF Owned, UserOf
  <2>6. CASE PullList(r)
    <3>1. req'[r].device = req[r].device /\ DOMAIN req'[r].reply = Owned(UserOf(r))
      BY <2>6 DEF PullList, Answer, TypeOK
    <3> QED
      BY <1>2, <3>1 DEF Owned, UserOf
  <2>7. CASE Gate(r) \/ PushRead(r)
    <3>1. Answer(r, req[r].device, NoItems)
      <4>1. CASE Gate(r)
        BY <1>4, <4>1, RequestShape DEF Gate, GoTo, AfterGate, TypeOK, Push, Pull
      <4>2. CASE PushRead(r)
        <5>1. req[r] \in Push
          BY <4>2, RequestShape DEF PushRead
        <5>2. CASE req[r].itemId \in Owned(UserOf(r))
          <6>1. req'[r] = [req[r] EXCEPT
                  !.step = IF items[req[r].itemId].version > req[r].lastSeen
                             THEN "fork" ELSE "update",
                  !.existing = items[req[r].itemId].version]
            BY <4>2, <5>2 DEF PushRead, TypeOK
          <6> QED
            BY <1>4, <5>1, <6>1 DEF Push
        <5> QED
          BY <4>2, <5>2 DEF PushRead
      <4> QED
        BY <2>7, <4>1, <4>2
    <3>2. DOMAIN req'[r].reply = {}
      BY <3>1 DEF Answer, NoItems, TypeOK
    <3> QED
      BY <3>2
  <2>8. CASE SendPush(r) \/ SendPull(r) \/ VaultPut(r) \/ UpsertKey(r)
    BY <1>4, <2>8 DEF SendPush, SendPull, VaultPut, UpsertKey, TypeOK
  <2>9. CASE RecordEvent(r)
    BY <1>4, <2>9, RequestShape DEF RecordEvent, GoTo, TypeOK, Push, Pull
  <2>10. CASE Deliver(r) \/ Fails(r) \/ Crash
    BY <1>4, <2>10 DEF Deliver, Fails, Crash, Idle, TypeOK
  <2> QED
    BY <2>1, <2>2, <2>3, <2>4, <2>5, <2>6, <2>7, <2>8, <2>9, <2>10, SlotCases
       DEF SlotStep
<1> QED
  BY <1>3, <1>4 DEF OnlyOwnItems

\* No interleaving, late answer or restart shows a device an item of another user.
THEOREM Isolation == Spec => []OnlyOwnItems
<1>1. Init => OnlyOwnItems
  BY DEF Init, OnlyOwnItems, Idle, Unseen
<1> QED
  BY <1>1, TypeInit, TypeStep, TargetsStep, OwnItemsStep, PTL DEF Spec

-------------------------------------------------------------------------------
\* The event is stored on the way to the gate, and events are never removed.
LEMMA EventStep == TypeOK /\ EventLogged /\ [Next]_vars => EventLogged'
<1> SUFFICES ASSUME TypeOK, EventLogged, [Next]_vars, NEW r \in Requests, AtOrPastGate(r)'
             PROVE  <<DeviceUser[req'[r].device], req'[r].device, req'[r].mkv>> \in syncEvents'
  BY DEF EventLogged, UserOf
<1>1. syncEvents \subseteq syncEvents'
  BY DEF Next, vars, SendPush, SendPull, VaultCreate, VaultRead, VaultPut, UpsertKey,
     RecordEvent, Gate, PushCreate, PushRead, PushFork, Update, PullList, Deliver,
     Fails, Crash
<1>2. CASE req'[r] = req[r]
  <2>1. AtOrPastGate(r)
    BY <1>2 DEF AtOrPastGate
  <2> QED
    BY <1>1, <1>2, <2>1 DEF EventLogged, UserOf
<1>3. CASE VaultPut(r)
  <2>1. req'[r].step = "update" /\ req'[r].op = "put"
    BY <1>3 DEF VaultPut, TypeOK
  <2> QED
    BY <2>1 DEF AtOrPastGate
<1>4. CASE RecordEvent(r) /\ req'[r].device = req[r].device /\ req'[r].mkv = req[r].mkv
  BY <1>4 DEF RecordEvent, UserOf
<1>5. CASE (Gate(r) \/ PushRead(r)) /\ req'[r].device = req[r].device
             /\ req'[r].mkv = req[r].mkv
  <2>1. AtOrPastGate(r)
    BY <1>5 DEF Gate, PushRead, AtOrPastGate
  <2>2. syncEvents' = syncEvents
    BY <1>5 DEF Gate, PushRead
  <2> QED
    BY <1>5, <2>1, <2>2 DEF EventLogged, UserOf
<1>6. CASE req'[r].step \in {"idle", "record", "done"}
  BY <1>6 DEF AtOrPastGate
<1> QED
  BY <1>2, <1>3, <1>4, <1>5, <1>6, Steps

\* The event of a push or pull is stored before the gate decides about it.
THEOREM EventsFirst == Spec => []EventLogged
<1>1. Init => EventLogged
  BY DEF Init, EventLogged, AtOrPastGate, Idle
<1> QED
  BY <1>1, TypeInit, TypeStep, TargetsStep, EventStep, PTL DEF Spec
===============================================================================

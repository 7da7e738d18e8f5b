------------------------ MODULE SyncServer_serial_proofs -----------------------
(***************************************************************************)
(* What SyncServer guarantees when no user has two requests in flight:     *)
(* it implements the atomic store, version numbers stand for ciphertexts,  *)
(* and a push overwrites only what its device has seen.  Requests of       *)
(* different users still interleave at every await, devices of one user    *)
(* take turns, answers are lost and the server restarts.                   *)
(***************************************************************************)
EXTENDS SyncServer_proofs

\* A slot serves the devices of one user, and no other slot serves that user.
OneRequestPerUser ==
  \A r, s \in Requests : \A d \in SlotDevices[r], e \in SlotDevices[s] :
     DeviceUser[d] = DeviceUser[e] => r = s

\* A request in flight is one of a device of its slot.
InSlot == \A r \in Requests : req[r].step # "idle" => req[r].device \in SlotDevices[r]

\* What a handler has read when it decides between fork and update is still what
\* the row holds: the version in its local variable is the version of the row.
ReadIsCurrent ==
  \A r \in Requests : req[r].step \in {"fork", "update"} =>
     items[req[r].itemId].version = req[r].existing

SerialInv == TypeOK /\ Targets /\ InSlot /\ ReadIsCurrent

\* A row is changed only by the UPDATE of its own user.
LEMMA RowChange ==
  ASSUME TypeOK, Targets, [Next]_vars, NEW i \in DOMAIN items, items'[i] # items[i]
  PROVE  \E r \in Requests : Update(r) /\ req[r].itemId = i
<1> USE SessionAssumption
<1>1. ASSUME NEW r \in Requests, VaultCreate(r) PROVE FALSE
  <2>1. PICK d \in SlotDevices[r], c \in Contents : InsertItem(DeviceUser[d], c, NoItem)
    BY <1>1 DEF VaultCreate
  <2>2. \A j \in DOMAIN items : items'[j] = items[j]
    BY <2>1, InsertKeeps
  <2> QED
    BY <2>2
<1>2. ASSUME NEW r \in Requests, PushCreate(r) \/ PushFork(r) PROVE FALSE
  <2>1. req[r] \in Push
    BY <1>2, RequestShape DEF PushCreate, PushFork
  <2>2. UserOf(r) \in Users /\ req[r].content \in Contents
        /\ req[r].itemId \in {NoItem} \cup ItemIds
    BY <2>1 DEF Push, UserOf
  <2>3. PICK o \in {NoItem} \cup ItemIds : InsertItem(UserOf(r), req[r].content, o)
    BY <1>2, <2>2 DEF PushCreate, PushFork
  <2>4. \A j \in DOMAIN items : items'[j] = items[j]
    BY <2>2, <2>3, InsertKeeps
  <2> QED
    BY <2>4
<1>3. ASSUME NEW r \in Requests, Update(r) PROVE req[r].itemId = i
  <2>1. req[r].itemId \in DOMAIN items /\ req[r].existing \in Nat
    BY <1>3, RequestShape, BoundsAssumption DEF Update, Targets, Owned, Push, Put
  <2>2. UpdateItem(req[r].itemId, req[r].content, req[r].existing)
    BY <1>3 DEF Update
  <2>3. \A j \in DOMAIN items : j # req[r].itemId => items'[j] = items[j]
    BY <2>1, <2>2, UpdateKeeps
  <2> QED
    BY <2>3
<1>4. \/ items' = items
      \/ \E r \in Requests : VaultCreate(r) \/ PushCreate(r) \/ PushFork(r) \/ Update(r)
  BY DEF Next, vars, SendPush, SendPull, VaultRead, VaultPut, UpsertKey, RecordEvent,
     Gate, PushRead, PullList, Deliver, Fails, Crash
<1> QED
  BY <1>1, <1>2, <1>3, <1>4

\* A request stays with the slot of its device.
LEMMA InSlotStep == TypeOK /\ InSlot /\ [Next]_vars => InSlot'
<1> SUFFICES ASSUME TypeOK, InSlot, [Next]_vars,
                    NEW r \in Requests, req'[r].step # "idle"
             PROVE  req'[r].device \in SlotDevices[r]
  BY DEF InSlot
<1>1. CASE req'[r] = req[r]
  BY <1>1 DEF InSlot
<1>2. CASE SendPush(r) \/ SendPull(r) \/ VaultPut(r)
  BY <1>2 DEF SendPush, SendPull, VaultPut, TypeOK
<1>3. CASE VaultCreate(r) \/ VaultRead(r)
  BY <1>3 DEF VaultCreate, VaultRead, Answer, TypeOK
<1>4. CASE \E reply : Answer(r, req[r].device, reply) /\ req[r].step # "idle"
  BY <1>4 DEF Answer, InSlot, TypeOK
<1>5. CASE RecordEvent(r) \/ Gate(r) \/ PushRead(r)
  <2>1. req[r] \in Push \cup Pull /\ req[r].step # "idle"
    BY <1>5, RequestShape DEF RecordEvent, Gate, PushRead
  <2>2. CASE Answer(r, req[r].device, NoItems)
    BY <1>4, <2>1, <2>2
  <2>3. CASE RecordEvent(r)
    BY <2>1, <2>3 DEF RecordEvent, GoTo, InSlot, TypeOK, Push, Pull
  <2>4. CASE GoTo(r, AfterGate(r))
    BY <2>1, <2>4 DEF GoTo, InSlot, TypeOK, Push, Pull
  <2>5. CASE PushRead(r) /\ req'[r].step \in {"fork", "update"}
    BY <2>1, <2>5, Steps DEF InSlot, VaultPut, PushRead
  <2>6. CASE PushRead(r) /\ ~Answer(r, req[r].device, NoItems)
    <3>1. req'[r].step \in {"fork", "update"}
      <4>1. req[r].itemId \in Owned(UserOf(r)) /\ req[r] \in Push
        BY <2>6, RequestShape DEF PushRead
      <4>2. req'[r] = [[req[r] EXCEPT !.step =
                IF items[req[r].itemId].version > req[r].lastSeen
                  THEN "fork" ELSE "update"] EXCEPT
                !.existing = items[req[r].itemId].version]
        BY <2>6, <4>1 DEF PushRead, TypeOK, Push
      <4> QED
        BY <4>1, <4>2 DEF Push
    <3> QED
      BY <2>5, <2>6, <3>1
  <2> QED
    BY <1>5, <2>2, <2>3, <2>4, <2>6 DEF Gate
<1>6. CASE PushCreate(r) \/ PushFork(r) \/ Update(r) \/ PullList(r)
  BY <1>4, <1>6 DEF PushCreate, PushFork, Update, PullList
<1>7. CASE Deliver(r) \/ Fails(r) \/ Crash
  BY <1>7 DEF Deliver, Fails, Crash, Idle, TypeOK
<1>8. CASE UpsertKey(r)
  BY <1>1, <1>8 DEF UpsertKey
<1> QED
  BY <1>1, <1>2, <1>3, <1>5, <1>6, <1>7, <1>8, SlotCases DEF SlotStep

\* While a handler is between its read and its write nobody else changes the row.
LEMMA ReadIsCurrentStep ==
  ASSUME OneRequestPerUser, SerialInv, [Next]_vars
  PROVE  ReadIsCurrent'
<1> SUFFICES ASSUME NEW r \in Requests, req'[r].step \in {"fork", "update"}
             PROVE  items'[req'[r].itemId].version = req'[r].existing
  BY DEF ReadIsCurrent
<1> USE DEF SerialInv
<1>1. CASE req'[r] = req[r]
  <2>1. req[r].step \in {"fork", "update"}
    BY <1>1
  <2>2. /\ req[r].itemId \in DOMAIN items
        /\ items[req[r].itemId].owner = UserOf(r)
        /\ req[r].device \in SlotDevices[r]
    BY <2>1 DEF Targets, Owned, InSlot
  <2>3. ASSUME items'[req[r].itemId] # items[req[r].itemId] PROVE FALSE
    <3>1. PICK s \in Requests : Update(s) /\ req[s].itemId = req[r].itemId
      BY <2>2, <2>3, RowChange
    <3>2. /\ items[req[s].itemId].owner = UserOf(s)
          /\ req[s].device \in SlotDevices[s]
      BY <3>1 DEF Update, Targets, Owned, InSlot
    <3>3. s = r
      BY <2>2, <3>1, <3>2 DEF OneRequestPerUser, UserOf
    <3>4. req'[r].step = "done"
      BY <3>1, <3>3 DEF Update, Answer, TypeOK
    <3> QED
      BY <3>4
  <2> QED
    BY <1>1, <2>1, <2>3 DEF ReadIsCurrent
<1>2. CASE VaultPut(r)
  <2>1. PICK d \in SlotDevices[r], c \in Contents : \E i \in Owned(DeviceUser[d]) :
          req' = [req EXCEPT ![r] = [op |-> "put", step |-> "update", device |-> d,
                                     itemId |-> i, content |-> c,
                                     existing |-> items[i].version]]
    BY <1>2 DEF VaultPut
  <2> QED
    BY <1>2, <2>1 DEF VaultPut, TypeOK
<1>3. CASE PushRead(r)
  <2>1. req[r] \in Push
    BY <1>3, RequestShape DEF PushRead
  <2>2. req[r].itemId \in Owned(UserOf(r))
    BY <1>3 DEF PushRead, Answer, TypeOK
  <2>3. req'[r] = [req[r] EXCEPT
          !.step = IF items[req[r].itemId].version > req[r].lastSeen
                     THEN "fork" ELSE "update",
          !.existing = items[req[r].itemId].version]
    BY <1>3, <2>2 DEF PushRead, TypeOK
  <2>4. req'[r].itemId = req[r].itemId /\ req'[r].existing = items[req[r].itemId].version
    BY <2>1, <2>3 DEF Push
  <2> QED
    BY <1>3, <2>4 DEF PushRead
<1> QED
  BY <1>1, <1>2, <1>3, Steps

\* Each part of the serial invariant survives every step.
LEMMA SerialStep ==
  ASSUME OneRequestPerUser
  PROVE  SerialInv /\ [Next]_vars => SerialInv'
<1> SUFFICES ASSUME SerialInv, [Next]_vars PROVE SerialInv'
  OBVIOUS
<1>1. ReadIsCurrent'
  BY ReadIsCurrentStep
<1> QED
  BY <1>1, TypeStep, TargetsStep, InSlotStep DEF SerialInv

\* No request is in flight at first.
LEMMA SerialInit == Init => SerialInv
<1> SUFFICES ASSUME Init PROVE SerialInv
  OBVIOUS
<1>1. TypeOK /\ Targets
  BY TypeInit
<1>2. InSlot /\ ReadIsCurrent
  BY DEF Init, InSlot, ReadIsCurrent, Idle
<1> QED
  BY <1>1, <1>2 DEF SerialInv

-------------------------------------------------------------------------------
\* Every step of the server is a step of the atomic store or leaves both tables alone.
LEMMA StoreStep ==
  ASSUME SerialInv, [Next]_vars
  PROVE  [Store!StoreNext]_<<items, vaultKeys>>
<1> USE SessionAssumption, BoundsAssumption DEF SerialInv
<1>1. ASSUME NEW r \in Requests, VaultCreate(r) PROVE Store!StoreNext
  <2>1. PICK d \in SlotDevices[r], c \in Contents : InsertItem(DeviceUser[d], c, NoItem)
    BY <1>1 DEF VaultCreate
  <2>2. DeviceUser[d] \in Users
    OBVIOUS
  <2>3. Store!Insert(DeviceUser[d], c, 0)
    BY <1>1, <2>1 DEF VaultCreate, InsertItem, NoItem, Store!Insert
  <2> QED
    BY <2>2, <2>3 DEF Store!StoreNext
<1>2. ASSUME NEW r \in Requests, PushCreate(r) PROVE Store!StoreNext
  <2>1. UserOf(r) \in Users /\ req[r].content \in Contents
    BY <1>2, RequestShape DEF PushCreate, UserOf, Push
  <2>2. Store!Insert(UserOf(r), req[r].content, 0)
    BY <1>2 DEF PushCreate, InsertItem, NoItem, Store!Insert
  <2> QED
    BY <2>1, <2>2 DEF Store!StoreNext
<1>3. ASSUME NEW r \in Requests, PushFork(r) PROVE Store!StoreNext
  <2>1. /\ UserOf(r) \in Users /\ req[r].content \in Contents
        /\ req[r].itemId \in 0 .. MaxItems
    BY <1>3, RequestShape DEF PushFork, UserOf, Push, ItemIds, NoItem
  <2>2. req[r].itemId \in DOMAIN items /\ items[req[r].itemId].owner = UserOf(r)
    BY <1>3 DEF PushFork, Targets, Owned
  <2>3. Store!Insert(UserOf(r), req[r].content, req[r].itemId)
    BY <1>3, <2>2 DEF PushFork, InsertItem, Store!Insert
  <2> QED
    BY <2>1, <2>3 DEF Store!StoreNext
<1>4. ASSUME NEW r \in Requests, Update(r) PROVE Store!StoreNext
  <2>1. UserOf(r) \in Users /\ req[r].content \in Contents
    BY <1>4, RequestShape DEF Update, UserOf, Push, Put
  <2>2. /\ req[r].itemId \in DOMAIN items
        /\ items[req[r].itemId].owner = UserOf(r)
        /\ items[req[r].itemId].version = req[r].existing
    BY <1>4 DEF Update, Targets, Owned, ReadIsCurrent
  <2>3. Store!Replace(UserOf(r), req[r].itemId, req[r].content)
    BY <1>4, <2>2 DEF Update, UpdateItem, Store!Replace
  <2> QED
    BY <2>1, <2>2, <2>3 DEF Store!StoreNext
<1>5. ASSUME NEW r \in Requests, UpsertKey(r) PROVE Store!StoreNext
  <2>1. PICK d \in SlotDevices[r], p \in Purposes, v \in 1 .. MaxKeyVersion :
          vaultKeys' = [vaultKeys EXCEPT ![DeviceUser[d]][p] = v]
    BY <1>5 DEF UpsertKey
  <2>2. DeviceUser[d] \in Users
    OBVIOUS
  <2>3. Store!PutKey(DeviceUser[d], p, v)
    BY <1>5, <2>1 DEF UpsertKey, Store!PutKey
  <2> QED
    BY <2>2, <2>3 DEF Store!StoreNext
<1>6. \/ UNCHANGED <<items, vaultKeys>>
      \/ \E r \in Requests : \/ VaultCreate(r) \/ PushCreate(r) \/ PushFork(r)
                             \/ Update(r) \/ UpsertKey(r)
  BY DEF Next, vars, SendPush, SendPull, VaultRead, VaultPut, RecordEvent, Gate,
     PushRead, PullList, Deliver, Fails, Crash
<1> QED
  BY <1>1, <1>2, <1>3, <1>4, <1>5, <1>6

\* The tables of the server behave as the atomic store (sync.service.ts:88-115,
\* vault.service.ts:19-46 and vault-keys.service.ts:33-40), as long as no user has
\* two requests in flight: what a handler has read is then still what it replaces.
THEOREM ServerImplementsStore ==
  ASSUME OneRequestPerUser
  PROVE  Spec => ImplementsStore
<1>1. Init => Store!StoreInit
  BY DEF Init, Store!StoreInit
<1> QED
  BY <1>1, SerialInit, SerialStep, StoreStep, PTL DEF Spec, ImplementsStore, Store!StoreSpec

-------------------------------------------------------------------------------
\* A copy is current in a table of rows: never ahead of its row, and where it
\* holds the row's version it holds the row's ciphertext.
Current(rows, i, copy) ==
  copy.version > 0 =>
    /\ i \in DOMAIN rows
    /\ copy.version <= rows[i].version
    /\ copy.version = rows[i].version => copy.content = rows[i].content

\* Every copy outside the server is current: in the devices, in answers under way
\* and in the base of a push.
SeenCurrent == \A d \in Devices, i \in ItemIds : Current(items, i, seen[d][i])
RepliesCurrent ==
  \A r \in Requests : req[r].step = "done" =>
     \A i \in DOMAIN req[r].reply : Current(items, i, req[r].reply[i])
BaseCurrent ==
  \A r \in Requests : req[r] \in Push =>
     Current(items, req[r].itemId, [version |-> req[r].lastSeen, content |-> req[r].base])

\* What PushRead has decided from the version it read.
Decided ==
  \A r \in Requests : req[r] \in Push =>
     /\ req[r].step = "fork" => req[r].existing > req[r].lastSeen
     /\ req[r].step = "update" => req[r].existing <= req[r].lastSeen

CopiesInv == SeenCurrent /\ RepliesCurrent /\ BaseCurrent /\ Decided

\* A row stays or moves to its successor version.
LEMMA RowsAdvance ==
  ASSUME SerialInv, [Next]_vars, NEW i \in DOMAIN items
  PROVE  /\ i \in DOMAIN items'
         /\ items'[i] = items[i] \/ items'[i].version = items[i].version + 1
<1> USE DEF SerialInv
<1>1. i \in DOMAIN items'
  BY KeepRows DEF RowsKept
<1>2. ASSUME NEW r \in Requests, Update(r), req[r].itemId = i
      PROVE  items'[i].version = items[i].version + 1
  <2>1. req[r].existing = items[i].version
    BY <1>2 DEF Update, ReadIsCurrent
  <2>2. items[i] \in Item
    BY DEF TypeOK
  <2> QED
    BY <1>2, <2>1, <2>2 DEF Update, UpdateItem, TypeOK, Item
<1> QED
  BY <1>1, <1>2, RowChange

\* Whatever the server does, a current copy stays current.
LEMMA CurrentStays ==
  ASSUME SerialInv, [Next]_vars, NEW i, NEW copy \in Copy, Current(items, i, copy)
  PROVE  Current(items', i, copy)
<1> SUFFICES ASSUME copy.version > 0
             PROVE  /\ i \in DOMAIN items'
                    /\ copy.version <= items'[i].version
                    /\ copy.version = items'[i].version => copy.content = items'[i].content
  BY DEF Current
<1>1. /\ i \in DOMAIN items /\ copy.version <= items[i].version
      /\ copy.version = items[i].version => copy.content = items[i].content
  BY DEF Current
<1>2. i \in DOMAIN items' /\ (items'[i] = items[i] \/ items'[i].version = items[i].version + 1)
  BY <1>1, RowsAdvance
<1>3. copy.version \in Nat /\ items[i].version \in Nat
  <2>1. items[i] \in Item
    BY <1>1 DEF SerialInv, TypeOK
  <2> QED
    BY <2>1, BoundsAssumption DEF Copy, Item
<1> QED
  BY <1>1, <1>2, <1>3

\* A copy under way in an answer is typed.
LEMMA ReplyCopy ==
  ASSUME TypeOK, NEW r \in Requests, req[r].step = "done", NEW i \in DOMAIN req[r].reply
  PROVE  req[r].reply[i] \in Copy /\ i \in ItemIds
<1>1. req[r] \in Done
  BY RequestShape
<1>2. PICK S \in SUBSET ItemIds : req[r].reply \in [S -> Copy]
  BY <1>1 DEF Done, Replies
<1> QED
  BY <1>2

\* What a device receives is no newer than the row, and equal at the same version.
LEMMA SeenStep ==
  ASSUME SerialInv, SeenCurrent, RepliesCurrent, [Next]_vars
  PROVE  SeenCurrent'
<1> SUFFICES ASSUME NEW d \in Devices, NEW i \in ItemIds
             PROVE  Current(items', i, seen'[d][i])
  BY DEF SeenCurrent
<1>0. TypeOK
  BY DEF SerialInv
<1>1. Current(items', i, seen[d][i])
  <2>1. seen[d][i] \in Copy
    BY <1>0 DEF TypeOK
  <2> QED
    BY <2>1, CurrentStays DEF SeenCurrent
<1>2. CASE seen' = seen
  BY <1>1, <1>2
<1>3. ASSUME NEW r \in Requests, Deliver(r)
      PROVE  Current(items', i, seen'[d][i])
  <2>1. CASE d = req[r].device /\ i \in DOMAIN req[r].reply
    <3>1. seen'[d][i] = req[r].reply[i]
      BY <1>0, <1>3, <2>1 DEF Deliver, TypeOK
    <3>2. req[r].reply[i] \in Copy
      BY <1>0, <1>3, <2>1, ReplyCopy DEF Deliver
    <3>3. Current(items, i, req[r].reply[i])
      BY <1>3, <2>1 DEF Deliver, RepliesCurrent
    <3> QED
      BY <3>1, <3>2, <3>3, CurrentStays
  <2>2. CASE ~(d = req[r].device /\ i \in DOMAIN req[r].reply)
    <3>1. seen'[d][i] = seen[d][i]
      BY <1>0, <1>3, <2>2 DEF Deliver, TypeOK
    <3> QED
      BY <1>1, <3>1
  <2> QED
    BY <2>1, <2>2
<1>4. seen' = seen \/ \E r \in Requests : Deliver(r)
  BY DEF Next, vars, SendPush, SendPull, VaultCreate, VaultRead, VaultPut, UpsertKey,
     RecordEvent, Gate, PushCreate, PushRead, PushFork, Update, PullList, Fails, Crash
<1> QED
  BY <1>2, <1>3, <1>4

\* An answer is computed from the rows as they are in the step that makes it.
LEMMA RepliesStep ==
  ASSUME SerialInv, RepliesCurrent, [Next]_vars
  PROVE  RepliesCurrent'
<1> SUFFICES ASSUME NEW r \in Requests, req'[r].step = "done", NEW i \in DOMAIN req'[r].reply
             PROVE  Current(items', i, req'[r].reply[i])
  BY DEF RepliesCurrent
<1> USE SessionAssumption, BoundsAssumption
<1>0. TypeOK /\ Targets
  BY DEF SerialInv
<1>1. CASE req'[r] = req[r]
  <2>1. req[r].reply[i] \in Copy /\ Current(items, i, req[r].reply[i])
    BY <1>0, <1>1, ReplyCopy DEF RepliesCurrent
  <2> QED
    BY <1>1, <2>1, CurrentStays
<1>2. ASSUME NEW u \in Users, NEW c \in Contents, NEW o \in {NoItem} \cup ItemIds,
             InsertItem(u, c, o), req'[r].reply = Single(Len(items) + 1, 1, c)
      PROVE  Current(items', i, req'[r].reply[i])
  <2>1. i = Len(items) + 1 /\ req'[r].reply[i] = [version |-> 1, content |-> c]
    BY <1>2 DEF Single
  <2>2. Len(items) + 1 \in DOMAIN items' /\ items'[Len(items) + 1].version = 1
        /\ items'[Len(items) + 1].content = c
    BY <1>0, <1>2 DEF InsertItem, TypeOK
  <2> QED
    BY <2>1, <2>2 DEF Current
<1>3. CASE VaultCreate(r)
  <2>1. PICK d \in SlotDevices[r], c \in Contents :
          /\ InsertItem(DeviceUser[d], c, NoItem)
          /\ req' = [req EXCEPT ![r] = [step |-> "done", device |-> d,
                                        reply |-> Single(Len(items) + 1, 1, c)]]
    BY <1>3 DEF VaultCreate, Answer
  <2>2. req'[r].reply = Single(Len(items) + 1, 1, c) /\ DeviceUser[d] \in Users
    BY <1>0, <2>1 DEF TypeOK
  <2> QED
    BY <1>2, <2>1, <2>2
<1>4. CASE PushCreate(r) \/ PushFork(r)
  <2>1. req[r] \in Push
    BY <1>0, <1>4, RequestShape DEF PushCreate, PushFork
  <2>2. UserOf(r) \in Users /\ req[r].content \in Contents
        /\ req[r].itemId \in {NoItem} \cup ItemIds
    BY <2>1 DEF Push, UserOf
  <2>3. PICK o \in {NoItem} \cup ItemIds : InsertItem(UserOf(r), req[r].content, o)
    BY <1>4, <2>2 DEF PushCreate, PushFork
  <2>4. req'[r].reply = Single(Len(items) + 1, 1, req[r].content)
    BY <1>0, <1>4 DEF PushCreate, PushFork, Answer, TypeOK
  <2> QED
    BY <1>2, <2>2, <2>3, <2>4
<1>5. ASSUME NEW S \in SUBSET DOMAIN items, items' = items,
             req'[r].reply = [j \in S |-> CopyOf(j)]
      PROVE  Current(items', i, req'[r].reply[i])
  <2>1. i \in DOMAIN items /\ items[i] \in Item
    BY <1>0, <1>5 DEF TypeOK
  <2>2. req'[r].reply[i] = [version |-> items[i].version, content |-> items[i].content]
    BY <1>5 DEF CopyOf
  <2> QED
    BY <1>5, <2>1, <2>2 DEF Current, Item
<1>6. CASE VaultRead(r)
  <2>1. PICK d \in SlotDevices[r] :
          \E S \in {Owned(DeviceUser[d])} \cup {{j} : j \in Owned(DeviceUser[d])} :
             req' = [req EXCEPT ![r] = [step |-> "done", device |-> d,
                                        reply |-> [j \in S |-> CopyOf(j)]]]
    BY <1>6 DEF VaultRead, Answer
  <2>2. PICK S \in SUBSET Owned(DeviceUser[d]) :
             req' = [req EXCEPT ![r] = [step |-> "done", device |-> d,
                                        reply |-> [j \in S |-> CopyOf(j)]]]
    BY <2>1
  <2>3. S \in SUBSET DOMAIN items /\ req'[r].reply = [j \in S |-> CopyOf(j)]
    BY <1>0, <2>2 DEF TypeOK, Owned
  <2> QED
    BY <1>5, <1>6, <2>3 DEF VaultRead
<1>7. CASE PullList(r)
  <2>1. req'[r].reply = [j \in Owned(UserOf(r)) |-> CopyOf(j)]
    BY <1>0, <1>7 DEF PullList, Answer, TypeOK
  <2>2. Owned(UserOf(r)) \in SUBSET DOMAIN items
    BY DEF Owned
  <2> QED
    BY <1>5, <1>7, <2>1, <2>2 DEF PullList
<1>8. CASE Update(r)
  <2>1. /\ req[r].itemId \in DOMAIN items /\ items[req[r].itemId] \in Item
        /\ req[r].existing = items[req[r].itemId].version
    BY <1>0, <1>8 DEF Update, Targets, Owned, ReadIsCurrent, SerialInv, TypeOK
  <2>2. req'[r].reply = Single(req[r].itemId, req[r].existing + 1, req[r].content)
    BY <1>0, <1>8 DEF Update, Answer, TypeOK
  <2>3. i = req[r].itemId /\ req'[r].reply[i] =
          [version |-> req[r].existing + 1, content |-> req[r].content]
    BY <2>2 DEF Single
  <2>4. /\ i \in DOMAIN items'
        /\ items'[i].version = req[r].existing + 1
        /\ items'[i].content = req[r].content
    BY <1>0, <1>8, <2>1, <2>3 DEF Update, UpdateItem, TypeOK, Item
  <2>5. req[r].existing + 1 \in Nat
    BY <2>1 DEF Item
  <2> QED
    BY <2>3, <2>4, <2>5 DEF Current
<1>9. CASE Gate(r) \/ PushRead(r)
  <2>1. CASE Answer(r, req[r].device, NoItems)
    BY <1>0, <2>1 DEF Answer, NoItems, TypeOK
  <2>2. CASE Gate(r) /\ GoTo(r, AfterGate(r))
    <3>1. req[r] \in Push \cup Pull
      BY <1>0, <2>2, RequestShape DEF Gate
    <3> QED
      BY <1>0, <2>2, <3>1 DEF GoTo, AfterGate, TypeOK, Push, Pull
  <2>3. CASE PushRead(r) /\ ~Answer(r, req[r].device, NoItems)
    <3>1. req[r].itemId \in Owned(UserOf(r)) /\ req[r] \in Push
      BY <1>0, <2>3, RequestShape DEF PushRead
    <3>2. req'[r] = [req[r] EXCEPT
            !.step = IF items[req[r].itemId].version > req[r].lastSeen
                       THEN "fork" ELSE "update",
            !.existing = items[req[r].itemId].version]
      BY <1>0, <2>3, <3>1 DEF PushRead, TypeOK
    <3> QED
      BY <3>1, <3>2 DEF Push
  <2> QED
    BY <1>9, <2>1, <2>2, <2>3 DEF Gate
<1>10. CASE RecordEvent(r)
  <2>1. req[r] \in Push \cup Pull
    BY <1>0, <1>10, RequestShape DEF RecordEvent
  <2> QED
    BY <1>0, <1>10, <2>1 DEF RecordEvent, GoTo, TypeOK, Push, Pull
<1>11. CASE SendPush(r) \/ SendPull(r) \/ VaultPut(r)
  BY <1>0, <1>11 DEF SendPush, SendPull, VaultPut, TypeOK
<1>12. CASE UpsertKey(r)
  BY <1>1, <1>12 DEF UpsertKey
<1>13. CASE Deliver(r) \/ Fails(r) \/ Crash
  BY <1>0, <1>13 DEF Deliver, Fails, Crash, Idle, TypeOK
<1> QED
  BY <1>0, <1>1, <1>3, <1>4, <1>6, <1>7, <1>8, <1>9, <1>10, <1>11, <1>12, <1>13, SlotCases
     DEF SlotStep

\* How a slot comes to hold a push: it arrives, stays, or moves on with its locals.
LEMMA PushSteps ==
  ASSUME TypeOK, [Next]_vars, NEW r \in Requests, req'[r] \in Push
  PROVE  \/ req'[r] = req[r]
         \/ SendPush(r)
         \/ /\ req[r] \in Push
            /\ req'[r].itemId = req[r].itemId
            /\ req'[r].lastSeen = req[r].lastSeen /\ req'[r].base = req[r].base
            /\ req'[r].step \in {"fork", "update"} => PushRead(r)
<1>1. CASE req'[r].step \in {"idle", "done"}
  BY <1>1 DEF Push
<1>2. CASE VaultPut(r) \/ SendPull(r)
  BY <1>2 DEF VaultPut, SendPull, Push, TypeOK
<1>3. CASE VaultCreate(r) \/ VaultRead(r) \/ PushCreate(r) \/ PushFork(r) \/ Update(r)
           \/ PullList(r)
  BY <1>1, <1>3
     DEF VaultCreate, VaultRead, PushCreate, PushFork, Update, PullList, Answer, TypeOK
<1>4. CASE UpsertKey(r)
  BY <1>4 DEF UpsertKey
<1>5. CASE Deliver(r) \/ Fails(r) \/ Crash
  BY <1>1, <1>5 DEF Deliver, Fails, Crash, Idle, TypeOK
<1>6. CASE (RecordEvent(r) \/ Gate(r) \/ PushRead(r)) /\ req'[r].step # "record"
  <2>1. req[r] \in Push \cup Pull /\ ~VaultPut(r)
    BY <1>6, RequestShape DEF RecordEvent, Gate, PushRead, VaultPut
  <2>2. CASE req[r] \in Push
    BY <1>1, <1>6, <2>1, <2>2, Steps
  <2>3. CASE req[r] \in Pull
    BY <1>1, <1>6, <2>1, <2>3, Steps DEF Push, Pull
  <2> QED
    BY <2>1, <2>2, <2>3
<1>7. CASE (RecordEvent(r) \/ Gate(r) \/ PushRead(r)) /\ req'[r].step = "record"
  <2>1. req[r] \in Push \cup Pull
    BY <1>7, RequestShape DEF RecordEvent, Gate, PushRead
  <2>2. CASE RecordEvent(r)
    BY <1>7, <2>1, <2>2 DEF RecordEvent, GoTo, TypeOK, Push, Pull
  <2>3. CASE Gate(r)
    BY <1>7, <2>1, <2>3 DEF Gate, GoTo, AfterGate, Answer, TypeOK, Push, Pull
  <2>4. CASE PushRead(r) /\ req[r].itemId \in Owned(UserOf(r))
    <3>1. req[r] \in Push
      BY <2>4, RequestShape DEF PushRead
    <3>2. req'[r] = [req[r] EXCEPT
            !.step = IF items[req[r].itemId].version > req[r].lastSeen
                       THEN "fork" ELSE "update",
            !.existing = items[req[r].itemId].version]
      BY <2>4 DEF PushRead, TypeOK
    <3> QED
      BY <1>7, <3>1, <3>2 DEF Push
  <2>5. CASE PushRead(r) /\ req[r].itemId \notin Owned(UserOf(r))
    BY <1>7, <2>5 DEF PushRead, Answer, TypeOK
  <2> QED
    BY <1>7, <2>2, <2>3, <2>4, <2>5
<1> QED
  BY <1>2, <1>3, <1>4, <1>5, <1>6, <1>7, SlotCases DEF SlotStep

\* A push starts from a copy of its device, or from no copy at all.
LEMMA BaseStep ==
  ASSUME SerialInv, SeenCurrent, BaseCurrent, [Next]_vars
  PROVE  BaseCurrent'
<1> SUFFICES ASSUME NEW r \in Requests, req'[r] \in Push
             PROVE  Current(items', req'[r].itemId,
                       [version |-> req'[r].lastSeen, content |-> req'[r].base])
  BY DEF BaseCurrent
<1>0. TypeOK
  BY DEF SerialInv
<1>1. CASE req[r] \in Push /\ req'[r].itemId = req[r].itemId
           /\ req'[r].lastSeen = req[r].lastSeen /\ req'[r].base = req[r].base
  <2>1. [version |-> req[r].lastSeen, content |-> req[r].base] \in Copy
    BY <1>1 DEF Push, Copy
  <2>2. Current(items, req[r].itemId, [version |-> req[r].lastSeen, content |-> req[r].base])
    BY <1>1 DEF BaseCurrent
  <2> QED
    BY <1>1, <2>1, <2>2, CurrentStays
<1>2. CASE SendPush(r)
  <2>1. PICK d \in SlotDevices[r], i \in {NoItem} \cup ItemIds, c \in Contents,
             mkv \in 1 .. MaxKeyVersion :
          \E known \in {IF i = NoItem THEN Unseen ELSE seen[d][i], Unseen} :
            req' = [req EXCEPT ![r] =
              [op |-> "push", step |-> "record", device |-> d, itemId |-> i,
               content |-> c, lastSeen |-> known.version, base |-> known.content,
               mkv |-> mkv, existing |-> 0]]
    BY <1>2 DEF SendPush
  <2>2. PICK known \in {IF i = NoItem THEN Unseen ELSE seen[d][i], Unseen} :
            req' = [req EXCEPT ![r] =
              [op |-> "push", step |-> "record", device |-> d, itemId |-> i,
               content |-> c, lastSeen |-> known.version, base |-> known.content,
               mkv |-> mkv, existing |-> 0]]
    BY <2>1
  <2>3. /\ req'[r].itemId = i
        /\ req'[r].lastSeen = known.version /\ req'[r].base = known.content
    BY <1>0, <2>2 DEF TypeOK
  <2>4. CASE known = Unseen
    BY <2>3, <2>4 DEF Unseen, Current
  <2>5. CASE i # NoItem /\ known = seen[d][i]
    <3>1. known \in Copy /\ Current(items, i, known)
      BY <1>0, <2>5, SessionAssumption DEF SeenCurrent, TypeOK
    <3>2. Current(items', i, known)
      BY <3>1, CurrentStays
    <3> QED
      BY <2>3, <3>2 DEF Current
  <2> QED
    BY <2>4, <2>5
<1> QED
  BY <1>0, <1>1, <1>2, PushSteps

\* A push that is to update had the version of the row when it decided.
LEMMA DecidedStep ==
  ASSUME TypeOK, Decided, [Next]_vars
  PROVE  Decided'
<1> SUFFICES ASSUME NEW r \in Requests, req'[r] \in Push
             PROVE  /\ req'[r].step = "fork" => req'[r].existing > req'[r].lastSeen
                    /\ req'[r].step = "update" => req'[r].existing <= req'[r].lastSeen
  BY DEF Decided
<1>1. CASE req'[r] = req[r]
  BY <1>1 DEF Decided
<1>2. CASE SendPush(r)
  BY <1>2 DEF SendPush, TypeOK
<1>3. CASE PushRead(r) /\ req'[r].step \in {"fork", "update"}
  <2>1. req[r] \in Push
    BY <1>3, RequestShape DEF PushRead
  <2>2. req[r].itemId \in Owned(UserOf(r))
    BY <1>3 DEF PushRead, Answer, TypeOK
  <2>3. req'[r] = [req[r] EXCEPT
          !.step = IF items[req[r].itemId].version > req[r].lastSeen
                     THEN "fork" ELSE "update",
          !.existing = items[req[r].itemId].version]
    BY <1>3, <2>2 DEF PushRead, TypeOK
  <2>4. /\ req'[r].step = IF items[req[r].itemId].version > req[r].lastSeen
                            THEN "fork" ELSE "update"
        /\ req'[r].existing = items[req[r].itemId].version
        /\ req'[r].lastSeen = req[r].lastSeen
    BY <2>1, <2>3 DEF Push
  <2>5. items[req[r].itemId].version \in Nat /\ req[r].lastSeen \in Nat
    <3>1. items[req[r].itemId] \in Item
      BY <2>2 DEF TypeOK, Owned
    <3>2. items[req[r].itemId].version \in Nat
      BY <3>1, BoundsAssumption DEF Item
    <3>3. req[r].lastSeen \in Nat
      BY <2>1, BoundsAssumption DEF Push
    <3> QED
      BY <3>2, <3>3
  <2> QED
    BY <2>4, <2>5
<1> QED
  BY <1>1, <1>2, <1>3, PushSteps

\* The copies outside the table stay copies of some version of the row.
LEMMA CopiesStep ==
  ASSUME OneRequestPerUser
  PROVE  SerialInv /\ CopiesInv /\ [Next]_vars => CopiesInv'
<1> SUFFICES ASSUME SerialInv, CopiesInv, [Next]_vars PROVE CopiesInv'
  OBVIOUS
<1>1. SeenCurrent' /\ RepliesCurrent' /\ BaseCurrent'
  BY SeenStep, RepliesStep, BaseStep DEF CopiesInv
<1>2. Decided'
  BY DecidedStep DEF CopiesInv, SerialInv
<1> QED
  BY <1>1, <1>2 DEF CopiesInv

\* No device has seen anything at first.
LEMMA CopiesInit == Init => CopiesInv
  BY DEF Init, CopiesInv, SeenCurrent, RepliesCurrent, BaseCurrent, Decided, Current,
     Idle, Unseen, Push

\* The inductive invariant of the serial server, on which the theorems below rest.
LEMMA SerialInvariant ==
  ASSUME OneRequestPerUser
  PROVE  Spec => [](SerialInv /\ CopiesInv)
  BY SerialInit, SerialStep, CopiesInit, CopiesStep, PTL DEF Spec

\* A device that holds the version of a row holds its ciphertext, for any number of
\* items, versions and devices (the premise of sync.service.ts:101-102).
THEOREM VersionsStandForContents ==
  ASSUME OneRequestPerUser
  PROVE  Spec => []VersionIdentifiesContent
<1>1. SerialInv /\ CopiesInv => VersionIdentifiesContent
  <2> SUFFICES ASSUME SerialInv, CopiesInv, NEW d \in Devices, NEW i \in ItemIds,
                      i \in DOMAIN items, seen[d][i].version = items[i].version
               PROVE  seen[d][i].content = items[i].content
    BY DEF VersionIdentifiesContent
  <2>1. items[i] \in Item
    BY DEF SerialInv, TypeOK
  <2>2. seen[d][i].version > 0
    BY <2>1 DEF Item
  <2> QED
    BY <2>2 DEF CopiesInv, SeenCurrent, Current
<1> QED
  BY <1>1, SerialInvariant, PTL

\* An update of a push replaces what its device had received: what the handler read
\* is not newer than the device's copy, the copy is not ahead of the row, and equal
\* versions mean equal ciphertexts (sync.service.ts:77-86).
THEOREM NothingLost ==
  ASSUME OneRequestPerUser
  PROVE  Spec => NoSilentOverwrite
<1>1. SerialInv /\ CopiesInv /\ [Next]_vars =>
        \A r \in Requests : (Commits(r, "update") /\ req[r].op = "push") =>
           items[req[r].itemId].content = req[r].base
  <2> SUFFICES ASSUME SerialInv, CopiesInv, NEW r \in Requests,
                      req[r].step = "update", req[r].op = "push"
               PROVE  items[req[r].itemId].content = req[r].base
    BY DEF Commits
  <2>1. req[r] \in Push
    BY RequestShape DEF SerialInv, Put
  <2>2. /\ req[r].itemId \in DOMAIN items
        /\ items[req[r].itemId].version = req[r].existing
    BY DEF SerialInv, Targets, Owned, ReadIsCurrent
  <2>3. items[req[r].itemId] \in Item
    BY <2>2 DEF SerialInv, TypeOK
  <2>4. req[r].existing <= req[r].lastSeen /\ req[r].existing \in Nat \ {0}
    BY <2>1, <2>2, <2>3 DEF CopiesInv, Decided, Item
  <2>5. req[r].lastSeen \in Nat
    BY <2>1, BoundsAssumption DEF Push
  <2>6. /\ req[r].lastSeen <= items[req[r].itemId].version
        /\ req[r].lastSeen = items[req[r].itemId].version =>
              req[r].base = items[req[r].itemId].content
    BY <2>1, <2>4, <2>5 DEF CopiesInv, BaseCurrent, Current
  <2> QED
    BY <2>2, <2>4, <2>5, <2>6
<1> QED
  BY <1>1, SerialInvariant, PTL DEF Spec, NoSilentOverwrite

\* A push forks only when the row is newer than what its device named, also at the
\* moment the fork is inserted (sync.service.ts:101-107).
THEOREM ForksAreConflicts ==
  ASSUME OneRequestPerUser
  PROVE  Spec => NoSpuriousFork
<1>1. SerialInv /\ CopiesInv /\ [Next]_vars =>
        \A r \in Requests : Commits(r, "fork") =>
           items[req[r].itemId].version > req[r].lastSeen
  <2> SUFFICES ASSUME SerialInv, CopiesInv, NEW r \in Requests, req[r].step = "fork"
               PROVE  items[req[r].itemId].version > req[r].lastSeen
    BY DEF Commits
  <2>1. req[r] \in Push
    BY RequestShape DEF SerialInv
  <2> QED
    BY <2>1 DEF SerialInv, ReadIsCurrent, CopiesInv, Decided
<1> QED
  BY <1>1, SerialInvariant, PTL DEF Spec, NoSpuriousFork

===============================================================================

------------------------------ MODULE VaultStore ------------------------------
(***************************************************************************)
(* What the server's vault promises, with every operation atomic: a table  *)
(* of items that only grows, whose rows are replaced one version at a      *)
(* time, and one key wrapping per user and purpose.  The promise is read   *)
(* off the repository interfaces (apps/api/src/persistence/repositories.ts)*)
(* and the doc comment of SyncService.push.  SyncServer implements it when *)
(* each user has one request in flight, and does not when a user has two.  *)
(***************************************************************************)
EXTENDS Naturals, Sequences

CONSTANTS
  Users,            \* accounts
  Purposes,         \* purposes of a key wrapping
  Contents,         \* opaque ciphertexts
  MaxItems,         \* bound: rows of the item table
  MaxItemVersion,   \* bound: versions of one item
  MaxKeyVersion     \* bound: versions of one key wrapping

VARIABLES
  store,            \* the items, in order of creation; an item's id is its index
  keys              \* keys[u][p]: version of u's wrapping for purpose p, 0 if none

StoreInit ==
  /\ store = << >>
  /\ keys = [u \in Users |-> [p \in Purposes |-> 0]]

\* A new row at version 1; a fork is a new row that names the item it forks.
Insert(u, c, origin) ==
  /\ Len(store) < MaxItems
  /\ origin # 0 => origin \in DOMAIN store /\ store[origin].owner = u
  /\ store' = Append(store, [owner |-> u, content |-> c, version |-> 1,
                             conflictOf |-> origin])
  /\ keys' = keys

\* A row is replaced by its successor version, never by an equal or older one.
Replace(u, i, c) ==
  /\ store[i].owner = u
  /\ store[i].version < MaxItemVersion
  /\ store' = [store EXCEPT ![i] = [@ EXCEPT !.content = c,
                                            !.version = store[i].version + 1]]
  /\ keys' = keys

PutKey(u, p, v) ==
  /\ keys' = [keys EXCEPT ![u][p] = v]
  /\ store' = store

StoreNext ==
  \E u \in Users :
     \/ \E c \in Contents, origin \in 0 .. MaxItems : Insert(u, c, origin)
     \/ \E c \in Contents, i \in DOMAIN store : Replace(u, i, c)
     \/ \E p \in Purposes, v \in 1 .. MaxKeyVersion : PutKey(u, p, v)

StoreSpec == StoreInit /\ [][StoreNext]_<<store, keys>>
===============================================================================

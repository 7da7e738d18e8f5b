----------------------------- MODULE DesktopSession -----------------------------
(***************************************************************************)
(* A session of the desktop client: the screens (App, UnlockScreen), the   *)
(* EngineClient each attempt creates, its worker with the key manager, and *)
(* the account record in IndexedDB.                                        *)
(*                                                                         *)
(* A message to the worker starts a handler; handlers run interleaved, the *)
(* key manager is theirs in common, and answers come back in the order in  *)
(* which they are posted.  An answer settles its call by id, and what      *)
(* awaits the call runs before the next event: a step of the main thread   *)
(* is one action.  A DEK is the number of its vault; encryptItem and       *)
(* decryptItem take the key over before their first await.  An engine name *)
(* is used again once its worker is gone.                                  *)
(***************************************************************************)
EXTENDS Naturals, Sequences

CONSTANTS
  Clients,        \* names of EngineClients with their workers
  NoClient,       \* no client
  Passwords,      \* what the user types
  NoPassword,     \* nothing typed
  MaxVaults,      \* bound: vaults created
  MaxCalls        \* bound: calls of one client

ASSUME SessionAssumption ==
  /\ NoClient \notin Clients /\ NoPassword \notin Passwords
  /\ MaxVaults \in Nat
  /\ MaxCalls \in Nat \ {0, 1}     \* the encryption that follows an unlock has its call

VARIABLES
  screen,         \* what App and UnlockScreen show, with the state of a handler in flight
  demo,           \* the vault whose DEK the demo ciphertext is under, 0 = none
  stored,         \* the vault of the stored account record, 0 = none
  vaults,         \* the vaults created, with the password each was created with
  live,           \* clients whose worker runs
  dek,            \* the DEK resident in each worker, 0 = none
  kek,            \* are there KEK bytes in the worker that were not overwritten?
  calls,          \* the calls of each client, in the order of their ids
  answers         \* messages from each worker, in the order they were posted

vars   == <<screen, demo, stored, vaults, live, dek, kek, calls, answers>>
engine == <<live, dek, kek, calls, answers>>

None  == 0
Vault == 1 .. MaxVaults

\* Kinds with a handler in flight: creating and saving (handleCreate), unlocking.
Kinds  == {"checking", "create", "creating", "saving", "recovery-kit", "unlock",
           "unlocking", "open"}
Screen == [kind : Kinds, client : Clients \cup {NoClient}, vault : {None} \cup Vault,
           typed : Passwords \cup {NoPassword}, loadFailed : BOOLEAN]

Ops  == {"createNewVault", "unlockWithPassword", "lock", "encryptItem", "decryptItem"}
Call == [op : Ops, stage : {"sent", "running", "done"}, waiting : BOOLEAN,
         key : {None} \cup Vault]
Answer == [id : 1 .. MaxCalls, ok : BOOLEAN, vault : {None} \cup Vault]

TypeOK ==
  /\ screen \in Screen
  /\ demo \in {None} \cup Vault /\ stored \in {None} \cup DOMAIN vaults
  /\ vaults \in Seq(Passwords) /\ Len(vaults) <= MaxVaults
  /\ live \subseteq Clients
  /\ dek \in [Clients -> {None} \cup Vault]
  /\ kek \in [Clients -> BOOLEAN]
  /\ calls \in [Clients -> Seq(Call)] /\ \A c \in Clients : Len(calls[c]) <= MaxCalls
  /\ answers \in [Clients -> Seq(Answer)]

Checking == [kind |-> "checking", client |-> NoClient, vault |-> None,
             typed |-> NoPassword, loadFailed |-> FALSE]

Init ==
  /\ screen = Checking
  /\ demo = None /\ stored = None /\ vaults = << >>
  /\ live = {}
  /\ dek = [c \in Clients |-> None] /\ kek = [c \in Clients |-> FALSE]
  /\ calls = [c \in Clients |-> << >>] /\ answers = [c \in Clients |-> << >>]

-------------------------------------------------------------------------------
\* EngineClient.

NewCall(op, key) == [op |-> op, stage |-> "sent", waiting |-> TRUE, key |-> key]

Send(c, op, key) ==
  /\ Len(calls[c]) < MaxCalls
  /\ calls' = [calls EXCEPT ![c] = Append(@, NewCall(op, key))]

\* The constructor and the first call.
Launch(c, op, key) ==
  /\ c \notin live
  /\ live' = live \cup {c}
  /\ dek' = [dek EXCEPT ![c] = None] /\ kek' = [kek EXCEPT ![c] = FALSE]
  /\ calls' = [calls EXCEPT ![c] = <<NewCall(op, key)>>]
  /\ answers' = [answers EXCEPT ![c] = << >>]

Rejected(c) == [i \in DOMAIN calls[c] |-> [calls[c][i] EXCEPT !.waiting = FALSE]]

\* Operators named Bug_ are faulty variants of the definition that follows them:
\* a slip the code could have, which a property must notice.  No action uses them.
\* Here: the pending calls are forgotten with the worker.
Bug_TerminateSilently(c) ==
  /\ live' = live \ {c}
  /\ dek' = [dek EXCEPT ![c] = None] /\ kek' = [kek EXCEPT ![c] = FALSE]
  /\ calls' = calls
  /\ answers' = [answers EXCEPT ![c] = << >>]

\* The worker and its memory are gone, every pending call is rejected and forgotten.
Terminate(c) ==
  /\ live' = live \ {c}
  /\ dek' = [dek EXCEPT ![c] = None] /\ kek' = [kek EXCEPT ![c] = FALSE]
  /\ calls' = [calls EXCEPT ![c] = << >>]
  /\ answers' = [answers EXCEPT ![c] = << >>]

\* The message at the front of the answers, and the call it settles.
Front(c)   == Head(answers[c])
Arrives(c) == c \in live /\ answers[c] # << >>
Settles(c, op) ==
  Arrives(c) /\ calls[c][Front(c).id].waiting /\ calls[c][Front(c).id].op = op

Settled(c) ==
  /\ calls' = [calls EXCEPT ![c][Front(c).id].waiting = FALSE]
  /\ answers' = [answers EXCEPT ![c] = Tail(@)]

-------------------------------------------------------------------------------
\* UnlockScreen.

Form(kind) == [screen EXCEPT !.kind = kind, !.client = NoClient, !.typed = NoPassword]

Bug_LoadIgnored ==
  /\ screen.kind = "checking"
  /\ screen' = [screen EXCEPT !.kind = "create", !.vault = stored]
  /\ UNCHANGED <<demo, stored, vaults, engine>>

\* accountStore.load() resolves.
Load ==
  /\ screen.kind = "checking"
  /\ screen' = [screen EXCEPT !.kind = IF stored = None THEN "create" ELSE "unlock",
                              !.vault = stored]
  /\ UNCHANGED <<demo, stored, vaults, engine>>

\* It rejects: the form that creates a vault is shown.
LoadFails ==
  /\ screen.kind = "checking"
  /\ screen' = [screen EXCEPT !.kind = "create", !.loadFailed = TRUE]
  /\ UNCHANGED <<demo, stored, vaults, engine>>

\* The password field is emptied before the engine has read it.
Bug_CreateEmptiesField(c, p) ==
  /\ screen.kind = "create"
  /\ Launch(c, "createNewVault", None)
  /\ screen' = [screen EXCEPT !.kind = "creating", !.client = c]
  /\ UNCHANGED <<demo, stored, vaults>>

Create(c, p) ==
  /\ screen.kind = "create"
  /\ Launch(c, "createNewVault", None)
  /\ screen' = [screen EXCEPT !.kind = "creating", !.client = c, !.typed = p]
  /\ UNCHANGED <<demo, stored, vaults>>

CreateAnswered(c) ==
  /\ Settles(c, "createNewVault")
  /\ IF Front(c).ok
       THEN /\ screen' = [screen EXCEPT !.kind = "saving", !.vault = Front(c).vault]
            /\ Settled(c)
            /\ UNCHANGED <<live, dek, kek>>
       ELSE screen' = Form("create") /\ Terminate(c)
  /\ UNCHANGED <<demo, stored, vaults>>

\* accountStore.save() resolves: the record replaces whatever was stored.
Saved ==
  /\ screen.kind = "saving"
  /\ stored' = screen.vault
  /\ screen' = [screen EXCEPT !.kind = "recovery-kit"]
  /\ UNCHANGED <<demo, vaults, engine>>

\* The new vault stays resident in a worker that nobody holds.
Bug_SaveFailsOpen ==
  /\ screen.kind = "saving"
  /\ screen' = Form("create")
  /\ UNCHANGED <<demo, stored, vaults, engine>>

SaveFails ==
  /\ screen.kind = "saving"
  /\ Terminate(screen.client)
  /\ screen' = Form("create")
  /\ UNCHANGED <<demo, stored, vaults>>

Unlock(c, p) ==
  /\ screen.kind = "unlock"
  /\ Launch(c, "unlockWithPassword", screen.vault)
  /\ screen' = [screen EXCEPT !.kind = "unlocking", !.client = c, !.typed = p]
  /\ UNCHANGED <<demo, stored, vaults>>

-------------------------------------------------------------------------------
\* App.

\* The effect on a new client encrypts the demo item.
KitConfirmed ==
  /\ screen.kind = "recovery-kit"
  /\ Send(screen.client, "encryptItem", None)
  /\ screen' = [screen EXCEPT !.kind = "open"]
  /\ UNCHANGED <<demo, stored, vaults, live, dek, kek, answers>>

UnlockAnswered(c) ==
  /\ Settles(c, "unlockWithPassword")
  /\ IF Front(c).ok
       THEN /\ screen' = [screen EXCEPT !.kind = "open"]
            /\ calls' = [calls EXCEPT ![c] = <<[@[1] EXCEPT !.waiting = FALSE],
                                               NewCall("encryptItem", None)>>]
            /\ answers' = [answers EXCEPT ![c] = Tail(@)]
            /\ UNCHANGED <<live, dek, kek>>
       ELSE screen' = Form("unlock") /\ Terminate(c)
  /\ UNCHANGED <<demo, stored, vaults>>

EncryptAnswered(c) ==
  /\ Settles(c, "encryptItem")
  /\ Settled(c)
  /\ demo' = IF Front(c).ok THEN Front(c).vault ELSE demo
  /\ UNCHANGED <<screen, stored, vaults, live, dek, kek>>

Reveal ==
  /\ screen.kind = "open" /\ demo # None
  /\ Send(screen.client, "decryptItem", demo)
  /\ UNCHANGED <<screen, demo, stored, vaults, live, dek, kek, answers>>

\* The plaintext or the error is shown; neither is kept.
DecryptAnswered(c) ==
  /\ Settles(c, "decryptItem")
  /\ Settled(c)
  /\ UNCHANGED <<screen, demo, stored, vaults, live, dek, kek>>

ClickLock ==
  /\ screen.kind = "open"
  /\ Send(screen.client, "lock", None)
  /\ UNCHANGED <<screen, demo, stored, vaults, live, dek, kek, answers>>

\* handleLock goes on: the worker is torn down and UnlockScreen mounted anew.
LockAnswered(c) ==
  /\ Settles(c, "lock")
  /\ Terminate(c)
  /\ screen' = Checking /\ demo' = None
  /\ UNCHANGED <<stored, vaults>>

\* An answer to a call that was rejected in the meantime.
Stale(c) ==
  /\ Arrives(c) /\ ~calls[c][Front(c).id].waiting
  /\ answers' = [answers EXCEPT ![c] = Tail(@)]
  /\ UNCHANGED <<screen, demo, stored, vaults, live, dek, kek, calls>>

\* onerror: every pending call is rejected; an attempt to create or unlock gives up,
\* a call of the open session only fails.
WorkerError(c) ==
  /\ c \in live
  /\ \E i \in DOMAIN calls[c] : calls[c][i].waiting
  /\ IF screen.kind \in {"creating", "unlocking"} /\ screen.client = c
       THEN /\ Terminate(c)
            /\ screen' = Form(IF screen.kind = "creating" THEN "create" ELSE "unlock")
       ELSE /\ calls' = [calls EXCEPT ![c] = Rejected(c)]
            /\ UNCHANGED <<screen, live, dek, kek, answers>>
  /\ UNCHANGED <<demo, stored, vaults>>

-------------------------------------------------------------------------------
\* The worker.

\* The handlers of two messages start in the order of the messages.
NextSent(c, i) ==
  /\ c \in live /\ calls[c][i].stage = "sent"
  /\ \A j \in DOMAIN calls[c] : calls[c][j].stage = "sent" => i <= j

Post(c, i, ok, v) ==
  /\ calls' = [calls EXCEPT ![c][i].stage = "done"]
  /\ answers' = [answers EXCEPT ![c] = Append(@, [id |-> i, ok |-> ok, vault |-> v])]

\* A handler runs up to its first await; key derivation keeps KEK bytes from here on.
\* A locked vault ends encryptItem and decryptItem at once.
Begin(c, i) ==
  /\ NextSent(c, i)
  /\ LET call  == calls[c][i]
         keyed == call.op \in {"encryptItem", "decryptItem"}
     IN
     /\ call.op # "lock"
     /\ IF keyed /\ dek[c] = None
          THEN Post(c, i, FALSE, None)
          ELSE /\ calls' = [calls EXCEPT ![c][i] =
                     [call EXCEPT !.stage = "running",
                        !.key = IF call.op = "encryptItem" THEN dek[c] ELSE call.key]]
               /\ UNCHANGED answers
     /\ kek' = [kek EXCEPT ![c] = @ \/ ~keyed]
     /\ UNCHANGED <<screen, demo, stored, vaults, live, dek>>

\* The DEK is overwritten and dropped, synchronously.
Lock(c, i) ==
  /\ NextSent(c, i) /\ calls[c][i].op = "lock"
  /\ dek' = [dek EXCEPT ![c] = None]
  /\ Post(c, i, TRUE, None)
  /\ UNCHANGED <<screen, demo, stored, vaults, live, kek>>

Running(c, i, ops) == c \in live /\ calls[c][i].stage = "running" /\ calls[c][i].op \in ops

\* createNewVault: a fresh DEK, wrapped under the password's KEK and the kit's.
CreateVault(c, i) ==
  /\ Running(c, i, {"createNewVault"})
  /\ Len(vaults) < MaxVaults
  /\ vaults' = Append(vaults, screen.typed)
  /\ dek' = [dek EXCEPT ![c] = Len(vaults) + 1] /\ kek' = [kek EXCEPT ![c] = FALSE]
  /\ Post(c, i, TRUE, Len(vaults) + 1)
  /\ UNCHANGED <<screen, demo, stored, live>>

Bug_UnwrapAnyway(c, i) ==
  /\ Running(c, i, {"unlockWithPassword"})
  /\ dek' = [dek EXCEPT ![c] = calls[c][i].key] /\ kek' = [kek EXCEPT ![c] = FALSE]
  /\ Post(c, i, TRUE, None)
  /\ UNCHANGED <<screen, demo, stored, vaults, live>>

\* unlockWith: the wrapped DEK opens under the KEK of the vault's password only; on
\* failure the KEK is not overwritten.
Unwrap(c, i) ==
  /\ Running(c, i, {"unlockWithPassword"})
  /\ LET opens == screen.typed = vaults[calls[c][i].key] IN
     /\ dek' = [dek EXCEPT ![c] = IF opens THEN calls[c][i].key ELSE @]
     /\ kek' = [kek EXCEPT ![c] = ~opens]
     /\ Post(c, i, opens, None)
  /\ UNCHANGED <<screen, demo, stored, vaults, live>>

\* Key derivation fails, for lack of memory.
DeriveFails(c, i) ==
  /\ Running(c, i, {"createNewVault", "unlockWithPassword"})
  /\ Post(c, i, FALSE, None)
  /\ UNCHANGED <<screen, demo, stored, vaults, live, dek, kek>>

\* encryptItem and decryptItem end with the key they began with.
Finish(c, i) ==
  /\ Running(c, i, {"encryptItem", "decryptItem"})
  /\ Post(c, i, TRUE, calls[c][i].key)
  /\ UNCHANGED <<screen, demo, stored, vaults, live, dek, kek>>

\* The app ends and starts again.
Restart ==
  /\ screen' = Checking /\ demo' = None
  /\ live' = {}
  /\ dek' = [c \in Clients |-> None] /\ kek' = [c \in Clients |-> FALSE]
  /\ calls' = [c \in Clients |-> << >>] /\ answers' = [c \in Clients |-> << >>]
  /\ UNCHANGED <<stored, vaults>>

-------------------------------------------------------------------------------
Worker(c) ==
  \E i \in DOMAIN calls[c] :
    \/ Begin(c, i) \/ Lock(c, i)
    \/ CreateVault(c, i) \/ Unwrap(c, i) \/ DeriveFails(c, i) \/ Finish(c, i)

Deliver(c) ==
  \/ CreateAnswered(c) \/ UnlockAnswered(c) \/ EncryptAnswered(c)
  \/ DecryptAnswered(c) \/ LockAnswered(c) \/ Stale(c)

Next ==
  \/ \E c \in Clients : Worker(c) \/ Deliver(c) \/ WorkerError(c)
  \/ \E c \in Clients, p \in Passwords : Create(c, p) \/ Unlock(c, p)
  \/ Load \/ LoadFails \/ Saved \/ SaveFails
  \/ KitConfirmed \/ Reveal \/ ClickLock \/ Restart

\* Handlers that can run do run, and posted messages are delivered.
Fairness == \A c \in Clients : WF_vars(Worker(c)) /\ WF_vars(Deliver(c))

Spec == Init /\ [][Next]_vars /\ Fairness

-------------------------------------------------------------------------------
\* Keys exist only in the worker of the session or attempt on screen: once a form is
\* shown again no worker runs at all, and after a successful unlock or creation no
\* KEK is left (App.tsx:58-63, UnlockScreen.tsx:92,117, key-manager.ts:5-7).
KeysEndWithSession ==
  /\ live \subseteq {screen.client}
  /\ \A c \in live : kek[c] => screen.kind \in {"creating", "unlocking"}

\* The open session holds the DEK of the vault whose password was typed, until a
\* lock is on its way; its ciphertext is under that DEK; and a call on an item fails
\* only because a lock was sent before it (key-manager.ts:73-91, App.tsx:37-65).
RightKey ==
  screen.kind \in {"recovery-kit", "open"} =>
    LET c == screen.client
        LockBefore(i) == \E j \in DOMAIN calls[c] : j < i /\ calls[c][j].op = "lock"
    IN
    /\ c \in live
    /\ vaults[screen.vault] = screen.typed /\ demo \in {None, screen.vault}
    /\ dek[c] = screen.vault \/ LockBefore(Len(calls[c]) + 1)
    /\ \A a \in DOMAIN answers[c] : ~answers[c][a].ok => LockBefore(answers[c][a].id)

\* A stored account is replaced only where loading it had failed
\* (UnlockScreen.tsx:60-65, 89).
AccountKept ==
  [][stored # None /\ stored' # stored => screen.loadFailed]_vars

\* Every call is settled: answered, or rejected when the worker is terminated or fails
\* (engine-client.ts:37-43, 87-90, 103-108).
Waiting(c, i) == i \in DOMAIN calls[c] /\ calls[c][i].waiting

CallsSettle ==
  \A c \in Clients : \A i \in 1 .. MaxCalls : Waiting(c, i) ~> ~Waiting(c, i)
===============================================================================

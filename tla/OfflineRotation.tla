---------------------------- MODULE OfflineRotation ----------------------------
(***************************************************************************)
(* The offline change of the master password, end to end: the desktop      *)
(* engine re-wraps the DEK and leaves a pending record                     *)
(* (beginOfflineRotation), and on reconnection re-registers the new        *)
(* password with the server and clears the record                          *)
(* (completeOfflineRotation, HttpOpaqueRotationClient).                    *)
(*                                                                         *)
(* A credential is a master password with its local salt; credential 0 is  *)
(* the one chosen at registration and every rotation makes the next one.   *)
(* Four places hold one: the OPAQUE record of the server, the local        *)
(* account record (salt and wrapped DEK), the pending record, which is     *)
(* sealed under the KEK of the credential it carries, and the session.     *)
(*                                                                         *)
(* The bytes of the DEK are followed too, because rewrapUnder awaits with  *)
(* a reference to the buffer that lock() overwrites, and so is what the    *)
(* status indicator shows of the pending record while a vault is open.     *)
(*                                                                         *)
(* The engine has no caller in the repository yet.  What a caller, the     *)
(* network and the operating system may do is therefore chosen at the      *)
(* start, in setting, and each property says in which setting it holds.    *)
(***************************************************************************)
EXTENDS Naturals

CONSTANTS
  MaxRotations,     \* bound: offline rotations of one device
  Locked,           \* the session when no vault is unlocked
  Settings          \* the settings considered

\* hardened: does the account have Factor 2?
\* overlap:  may lock, begin and complete run while one of them is running?
\* late:     may the server execute a request the client has given up?
Setting == [hardened : BOOLEAN, overlap : BOOLEAN, late : BOOLEAN]

ASSUME RotationAssumption ==
  /\ MaxRotations \in Nat
  /\ Locked \notin Nat
  /\ Settings \subseteq Setting

VARIABLES
  setting,      \* the account and its environment; never changes
  server,       \* the credential of the server's registration_record
  account,      \* the credential that opens the local account record
  pending,      \* the credential in the pending record, 0 = no record
  session,      \* the credential the vault was unlocked with, or Locked
  rotations,    \* rotations begun so far
  torn,         \* has the last rotation that saved its pending record ended without
                \* its account record being saved?  (an observation of the model)
  wrapped,      \* the bytes wrapped in the account record
  resident,     \* the bytes of the DEK buffer of the key manager
  begin,        \* beginOfflineRotation: step, new credential, bytes being wrapped
  complete,     \* completeOfflineRotation: step, and the recovered credential
  abandoned,    \* rotate/finish requests given up by the client, still executable
  online,       \* navigator.onLine
  indicator     \* the status indicator: text, load of the record, record at mount

keys == <<wrapped, resident>>
view == <<online, indicator>>
vars == <<setting, server, account, pending, session, rotations, torn, keys, begin,
          complete, abandoned, view>>

Credential == 0 .. MaxRotations
None       == 0
NotBegun   == [step |-> "idle", cred |-> None, dek |-> "zeros"]
NotRunning == [step |-> "idle", cred |-> None]

Bytes         == {"dek", "zeros"}        \* what a buffer of key length holds
BeginSteps    == {"idle", "save", "rewrap", "seal", "persist"}
CompleteSteps == {"idle", "start", "finish", "answered", "clear"}

\* No status text is shown while unmounted and, until something sets it, checking.
Statuses == {"unmounted", "checking", "synchronized", "autonomous", "pending-sync"}
Loads    == {"none", "asked", "found", "empty", "delivered"}

TypeOK ==
  /\ setting \in Settings
  /\ server \in Credential /\ account \in Credential /\ pending \in Credential
  /\ session \in Credential \cup {Locked}
  /\ rotations \in Credential /\ torn \in BOOLEAN
  /\ wrapped \in Bytes /\ resident \in Bytes
  /\ begin \in [step : BeginSteps, cred : Credential, dek : Bytes]
  /\ complete \in [step : CompleteSteps, cred : Credential]
  /\ abandoned \subseteq Credential
  /\ online \in BOOLEAN
  /\ indicator \in [status : Statuses, load : Loads, had : Credential]

\* useEffect on mount: the load of the pending record is asked for.
Mounted   == [status |-> "checking", load |-> "asked", had |-> pending]
Unmounted == [status |-> "unmounted", load |-> "none", had |-> None]

Init ==
  /\ setting \in Settings
  /\ server = 0 /\ account = 0 /\ pending = None /\ session = 0
  /\ rotations = 0 /\ torn = FALSE
  /\ wrapped = "dek" /\ resident = "dek"
  /\ begin = NotBegun /\ complete = NotRunning
  /\ abandoned = {}
  /\ online \in BOOLEAN /\ indicator = Mounted

-------------------------------------------------------------------------------
\* beginOfflineRotation and the caller's save of its result.

\* The pending record is saved and the account record not yet.
BetweenSaves == begin.step \in {"rewrap", "seal", "persist"}

\* The new KEK is derived and the payload sealed under it; nothing is stored yet.
BeginRotation ==
  /\ begin.step = "idle"
  /\ session # Locked
  /\ setting.overlap \/ complete.step = "idle"
  /\ rotations < MaxRotations
  /\ rotations' = rotations + 1
  /\ begin' = [step |-> "save", cred |-> rotations + 1, dek |-> "zeros"]
  /\ UNCHANGED <<setting, server, account, pending, session, torn, complete,
                 abandoned, keys, view>>

\* store.save: the single slot is overwritten, before the DEK is re-wrapped.
SavePending ==
  /\ begin.step = "save"
  /\ pending' = begin.cred
  /\ begin' = [begin EXCEPT !.step = "rewrap"]
  /\ UNCHANGED <<setting, server, account, session, rotations, torn, complete,
                 abandoned, keys, view>>

\* store.save rejects, and beginOfflineRotation with it.
SaveFails ==
  /\ begin.step = "save"
  /\ begin' = NotBegun
  /\ UNCHANGED <<setting, server, account, pending, session, rotations, torn,
                 complete, abandoned, keys, view>>

\* rewrapUnder throws if the vault was locked in the meantime, and otherwise awaits
\* the import of the new KEK with a reference to the DEK buffer.
Rewrap ==
  /\ begin.step = "rewrap"
  /\ begin' = IF session = Locked THEN NotBegun
              ELSE [begin EXCEPT !.step = "seal", !.dek = resident]
  /\ torn' = (torn \/ session = Locked)
  /\ UNCHANGED <<setting, server, account, pending, session, rotations, complete,
                 abandoned, keys, view>>

\* Operators named Bug_ are faulty variants of the definition that follows them:
\* a slip the code could have, which a property must notice.  No action uses them.
\* Here: the buffer is overwritten before it is encrypted, the DEK's for the KEK's.
Bug_ZeroizeDek ==
  /\ begin.step = "seal"
  /\ begin' = [begin EXCEPT !.step = "persist", !.dek = "zeros"]
  /\ UNCHANGED <<setting, server, account, pending, session, rotations, torn,
                 complete, abandoned, keys, view>>

\* encrypt takes the bytes the buffer holds by now.
Seal ==
  /\ begin.step = "seal"
  /\ begin' = [begin EXCEPT !.step = "persist"]
  /\ UNCHANGED <<setting, server, account, pending, session, rotations, torn,
                 complete, abandoned, keys, view>>

\* The session moves on and the account record is forgotten.
Bug_PersistForgotten ==
  /\ begin.step = "persist"
  /\ session' = IF session = Locked THEN Locked ELSE begin.cred
  /\ begin' = NotBegun
  /\ UNCHANGED <<setting, server, account, pending, rotations, torn, complete,
                 abandoned, keys, view>>

\* The caller stores the new wrapping and salt, and goes on with the new password.
PersistAccount ==
  /\ begin.step = "persist"
  /\ torn' = FALSE
  /\ account' = begin.cred /\ wrapped' = begin.dek
  /\ session' = IF session = Locked THEN Locked ELSE begin.cred
  /\ begin' = NotBegun
  /\ UNCHANGED <<setting, server, pending, resident, rotations, complete, abandoned,
                 view>>

\* save of the account record rejects: the old wrapping and salt stay, under the
\* pending record of the new password, and the caller goes on with the old one.
AccountSaveFails ==
  /\ begin.step = "persist"
  /\ torn' = TRUE
  /\ begin' = NotBegun
  /\ UNCHANGED <<setting, server, account, pending, session, rotations, complete,
                 abandoned, keys, view>>

-------------------------------------------------------------------------------
\* completeOfflineRotation over HttpOpaqueRotationClient.

\* The password of the session is registered, be there one or not.
Bug_ReconnectUnchecked ==
  /\ complete.step = "idle"
  /\ setting.overlap \/ begin.step = "idle"
  /\ pending # None
  /\ complete' = [step |-> "start", cred |-> session]
  /\ UNCHANGED <<setting, server, account, pending, session, rotations, torn, begin,
                 abandoned, keys, view>>

\* The record is used under whatever KEK: no authentication of the ciphertext.
Bug_ReconnectAnyKek ==
  /\ complete.step = "idle"
  /\ session # Locked
  /\ setting.overlap \/ begin.step = "idle"
  /\ pending # None
  /\ complete' = [step |-> "start", cred |-> pending]
  /\ UNCHANGED <<setting, server, account, pending, session, rotations, torn, begin,
                 abandoned, keys, view>>

\* The record is loaded and opened with the KEK of the session.  Without a record,
\* or with one under another KEK, the call ends here and changes nothing.
Reconnect ==
  /\ complete.step = "idle"
  /\ session # Locked
  /\ setting.overlap \/ begin.step = "idle"
  /\ pending # None /\ pending = session
  /\ complete' = [step |-> "start", cred |-> pending]
  /\ UNCHANGED <<setting, server, account, pending, session, rotations, torn, begin,
                 abandoned, keys, view>>

\* The continuity challenge is ignored.
Bug_ChallengeIgnored ==
  /\ complete.step = "start"
  /\ complete' = [complete EXCEPT !.step = "finish"]
  /\ UNCHANGED <<setting, server, account, pending, session, rotations, torn, begin,
                 abandoned, keys, view>>

\* The answer to rotate/start: a continuity challenge makes the client give up,
\* otherwise it sends rotate/finish.
StartAnswered ==
  /\ complete.step = "start"
  /\ complete' = IF setting.hardened THEN NotRunning
                 ELSE [complete EXCEPT !.step = "finish"]
  /\ UNCHANGED <<setting, server, account, pending, session, rotations, torn, begin,
                 abandoned, keys, view>>

\* The server executes rotate/finish without Factor 2: the record is replaced.
ServerFinish ==
  /\ complete.step = "finish"
  /\ server' = complete.cred
  /\ complete' = [complete EXCEPT !.step = "answered"]
  /\ UNCHANGED <<setting, account, pending, session, rotations, torn, begin,
                 abandoned, keys, view>>

FinishAnswered ==
  /\ complete.step = "answered"
  /\ complete' = [complete EXCEPT !.step = "clear"]
  /\ UNCHANGED <<setting, server, account, pending, session, rotations, torn, begin,
                 abandoned, keys, view>>

\* The record is never cleared.
Bug_ClearNothing ==
  /\ complete.step = "clear"
  /\ complete' = NotRunning
  /\ UNCHANGED <<setting, server, account, pending, session, rotations, torn, begin,
                 abandoned, keys, view>>

\* store.clear: whatever record the slot holds by now.
ClearPending ==
  /\ complete.step = "clear"
  /\ pending' = None
  /\ complete' = NotRunning
  /\ UNCHANGED <<setting, server, account, session, rotations, torn, begin, abandoned,
                 keys, view>>

\* clear rejects, and completeOfflineRotation with it: the server has the credential,
\* and the record stays.
ClearFails ==
  /\ complete.step = "clear"
  /\ complete' = NotRunning
  /\ UNCHANGED <<setting, server, account, pending, session, rotations, torn, begin,
                 abandoned, keys, view>>

\* A request on the wire when its sender goes away: lost, or executed later.
GiveUp ==
  abandoned' \in IF complete.step = "finish" /\ setting.late
                   THEN {abandoned, abandoned \cup {complete.cred}}
                   ELSE {abandoned}

\* The record is cleared in a finally block.
Bug_FailureClears ==
  /\ complete.step \in {"start", "finish", "answered"}
  /\ GiveUp
  /\ pending' = None
  /\ complete' = NotRunning
  /\ UNCHANGED <<setting, server, account, session, rotations, torn, begin, keys,
                 view>>

\* fetch rejects or the answer is an error: the record stays for the next attempt.
NetworkFails ==
  /\ complete.step \in {"start", "finish", "answered"}
  /\ GiveUp
  /\ complete' = NotRunning
  /\ UNCHANGED <<setting, server, account, pending, session, rotations, torn, begin,
                 keys, view>>

LateFinish ==
  /\ \E c \in abandoned : server' = c /\ abandoned' = abandoned \ {c}
  /\ UNCHANGED <<setting, account, pending, session, rotations, torn, begin, complete,
                 keys, view>>

-------------------------------------------------------------------------------
\* Locking, unlocking and the death of the app.

\* The DEK buffer is overwritten, also where a re-wrap still refers to it, and the
\* screen that holds the indicator goes away.
Lock ==
  /\ session # Locked
  /\ setting.overlap \/ begin.step = "idle"
  /\ session' = Locked /\ resident' = "zeros"
  /\ begin' = [begin EXCEPT !.dek = IF begin.step = "seal" THEN "zeros" ELSE @]
  /\ indicator' = Unmounted
  /\ UNCHANGED <<setting, server, account, wrapped, pending, rotations, torn,
                 complete, abandoned, online>>

\* Only the credential of the account record opens it.
Unlock ==
  /\ session = Locked
  /\ session' = account /\ resident' = wrapped
  /\ indicator' = Mounted
  /\ UNCHANGED <<setting, server, account, wrapped, pending, rotations, torn, begin,
                 complete, abandoned, online>>

\* The app dies, between the two saves of a rotation too.
Crash ==
  /\ GiveUp
  /\ torn' = (torn \/ BetweenSaves)
  /\ session' = Locked /\ resident' = "zeros"
  /\ begin' = NotBegun /\ complete' = NotRunning
  /\ indicator' = Unmounted
  /\ UNCHANGED <<setting, server, account, wrapped, pending, rotations, online>>

-------------------------------------------------------------------------------
\* VaultStatusIndicator.

Elsewhere == <<setting, server, account, pending, session, rotations, torn, keys,
               begin, complete, abandoned>>

Connectivity(isOnline) == IF isOnline THEN "synchronized" ELSE "autonomous"

\* store.load reads the slot; its answer is on the way.
LoadPending ==
  /\ indicator.load = "asked"
  /\ indicator' = [indicator EXCEPT !.load = IF pending = None THEN "empty" ELSE "found"]
  /\ UNCHANGED <<Elsewhere, online>>

\* The text set by a connectivity event stays.
Bug_DeliverOnce ==
  /\ indicator.load \in {"found", "empty"}
  /\ indicator' = [indicator EXCEPT !.load = "delivered", !.status =
                     IF @ # "checking" THEN @
                     ELSE IF indicator.load = "found" THEN "pending-sync"
                     ELSE Connectivity(online)]
  /\ UNCHANGED <<Elsewhere, online>>

\* The answer decides the text, whatever was shown before.
LoadDelivered ==
  /\ indicator.load \in {"found", "empty"}
  /\ indicator' = [indicator EXCEPT !.load = "delivered", !.status =
                     IF indicator.load = "found" THEN "pending-sync"
                     ELSE Connectivity(online)]
  /\ UNCHANGED <<Elsewhere, online>>

\* The online and offline events, of which the indicator hears while it is mounted:
\* the presence of a rotation wins.
ConnectivityEvent ==
  /\ online' = ~online
  /\ indicator' = [indicator EXCEPT !.status =
                     IF @ \in {"unmounted", "pending-sync"} THEN @ ELSE Connectivity(~online)]
  /\ UNCHANGED Elsewhere

Next ==
  \/ BeginRotation \/ SavePending \/ SaveFails \/ Rewrap \/ Seal
  \/ PersistAccount \/ AccountSaveFails
  \/ Reconnect \/ StartAnswered \/ ServerFinish \/ FinishAnswered
  \/ ClearPending \/ ClearFails \/ NetworkFails \/ LateFinish
  \/ Lock \/ Unlock \/ Crash
  \/ LoadPending \/ LoadDelivered \/ ConnectivityEvent

Spec == Init /\ [][Next]_vars

\* The user unlocks and reconnects again and again, and the network is not down
\* for ever: an attempt that could reach the next step infinitely often does.
\* Code that has been given control runs on, and the clear of a store does not fail
\* for ever; a save may, and nothing is assumed of it.
Fairness ==
  /\ WF_vars(SavePending) /\ WF_vars(Rewrap) /\ WF_vars(Seal) /\ WF_vars(PersistAccount)
  /\ SF_vars(Unlock) /\ SF_vars(Reconnect)
  /\ SF_vars(StartAnswered) /\ SF_vars(ServerFinish) /\ SF_vars(FinishAnswered)
  /\ SF_vars(ClearPending)

FairSpec == Spec /\ Fairness

-------------------------------------------------------------------------------
\* The caller runs one of the engine's functions at a time, and an abandoned request
\* is never executed.
Serial == ~setting.overlap /\ ~setting.late

\* The device can bring the server to the password that opens the local vault: they
\* agree already, or the pending record carries that password and the current
\* unlock opens it.  Between the two local saves the rotation is still running.
CanRecover ==
  BetweenSaves \/ server = account \/ (pending = account /\ pending # None)

\* The account record wraps the DEK of the vault.
VaultOpens == wrapped = "dek"

\* In a serial setting the account record always opens the vault, and the device can
\* always bring the server to its password, whatever fails on the way, except after a
\* rotation torn between its two saves: the slot then holds a record no unlock opens,
\* and what it overwrote is lost until the next rotation comes through
\* (rotation-state-machine.ts:71-78, 108-116).
Recoverable == Serial => VaultOpens /\ (CanRecover \/ torn)

\* The second without the condition: "the DEK itself doesn't change; only which KEK
\* protects it changes" (key-manager.ts:55-56).
DekUnchanged == VaultOpens

\* In a serial setting the pending record is deleted only once the server holds its
\* credential (rotation-state-machine.ts:110-112, "cleared ONLY after
\* client.reregister() resolves successfully").
ClearedOnceConfirmed ==
  [][Serial /\ pending # None /\ pending' = None => server = pending]_vars

\* The same without the condition (reconnection.ts:42-43, "Safe to call on every
\* reconnection unconditionally").
ClearedSafely ==
  [][pending # None /\ pending' = None => server = pending]_vars

\* In a serial setting the server is moved only to the credential the device uses
\* at that moment, never to one that a later rotation has replaced.
ServerFollowsAccount ==
  [][Serial /\ server' # server => server' = account]_vars

\* Whatever the caller, the network and the operating system do, the server is
\* never ahead of the device: it only ever gets a credential that has opened the
\* local vault.  The record of a torn rotation is sealed under a KEK no unlock
\* derives, so its password cannot be registered (rotation-state-machine.ts:53-56,
\* 125).
ServerNotAhead == server <= account

\* A hardened account keeps its old server record and a pending record in every
\* setting, and in a serial one, unless a rotation was torn, the record of its current
\* password: the client refuses Factor 2 without losing anything
\* (rotation-http-client.ts:93-103).
HardenedRefused ==
  setting.hardened =>
    /\ server = 0
    /\ account # 0 => pending # None
    /\ Serial => BetweenSaves \/ torn \/ pending = account

\* While a vault is open the indicator, once it has loaded, tells the truth: unless
\* rotations overlap with locks it shows the pending record that was there at mount,
\* whatever connectivity events came before or after, and otherwise the connectivity;
\* and in a serial setting, where it still shows a record that is gone, that rotation
\* has reached the server (VaultStatusIndicator.tsx:12-23, 38-42, 79-93).
IndicatorHonest ==
  indicator.load = "delivered" =>
    IF indicator.status = "pending-sync"
      THEN Serial /\ pending = None => server = account
      ELSE /\ indicator.status = Connectivity(online)
           /\ ~setting.overlap => pending = None \/ pending > indicator.had

\* What the device owes the server.  Between the two saves the slot holds what comes
\* next, and what was owed before is not owed any more if the server has it.  After a
\* torn rotation there is nothing left to deliver.
Owed ==
  IF torn THEN None
  ELSE IF ~BetweenSaves THEN pending
  ELSE IF server = account THEN None ELSE account

\* In a serial setting the two functions together are the handover of Handover, each
\* of its operations atomic: although the one slot is overwritten before the device
\* changes its password, nothing owed is lost but by a rotation torn between its saves,
\* the server gets only what is owed at that moment, and only what it has is cleared
\* (rotation-state-machine.ts:51-60, 108-116).  Other settings map to a handover that
\* never starts.
IfSerial(credential) == IF Serial THEN credential ELSE None

Promise == INSTANCE Handover WITH
  account <- IfSerial(account), server <- IfSerial(server), owed <- IfSerial(Owed),
  lost <- Serial /\ torn

ImplementsHandover == Promise!HandoverSpec

\* In a serial setting every rotation of an account without Factor 2 that reached
\* the account record reaches the server, unless a later one is torn.
EventuallyRegistered ==
  \A c \in 1 .. MaxRotations :
    account = c /\ Serial /\ ~setting.hardened
      ~> ((server = c /\ pending = None) \/ account # c \/ torn)
===============================================================================

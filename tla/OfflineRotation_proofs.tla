------------------------ MODULE OfflineRotation_proofs -------------------------
(***************************************************************************)
(* Proofs about OfflineRotation, for any number of rotations.              *)
(*                                                                         *)
(* TypeOK, ServerNotAhead and HardenedRefused hold in every setting.  The  *)
(* two-phase guarantee (Recoverable, ClearedOnceConfirmed,                 *)
(* ServerFollowsAccount) holds in the serial ones, where the two functions *)
(* implement Handover, the saves and clears of both stores failing and the *)
(* app dying anywhere; runs of the module show that overlapping calls      *)
(* break it.                                                               *)
(***************************************************************************)
EXTENDS OfflineRotation, TLAPS

\* Every credential the module stores is one of the rotations begun.
TypeInv ==
  /\ TypeOK
  /\ begin.step # "idle" => begin.cred \in 1 .. rotations

\* The types of what the indicator shows are preserved by every step.
LEMMA ViewStep ==
  TypeOK /\ [Next]_vars
    => online' \in BOOLEAN /\ indicator' \in [status : Statuses, load : Loads, had : Credential]
<1> SUFFICES ASSUME TypeOK, [Next]_vars
             PROVE  /\ online' \in BOOLEAN
                    /\ indicator' \in [status : Statuses, load : Loads, had : Credential]
  OBVIOUS
<1>1. online \in BOOLEAN /\ pending \in Credential
      /\ indicator \in [status : Statuses, load : Loads, had : Credential]
  BY DEF TypeOK
<1>2. \/ Lock \/ Unlock \/ Crash \/ LoadPending \/ LoadDelivered \/ ConnectivityEvent
      \/ UNCHANGED view
  BY DEF Next, vars, BeginRotation, SavePending, SaveFails, Rewrap, PersistAccount,
     AccountSaveFails, Seal, Reconnect, StartAnswered, ServerFinish, FinishAnswered,
     ClearPending, ClearFails, NetworkFails, LateFinish
<1>3. CASE Lock \/ Unlock \/ Crash
  <2>1. online' = online /\ indicator' \in {Mounted, Unmounted}
    BY <1>3 DEF Lock, Unlock, Crash
  <2>2. Mounted \in [status : Statuses, load : Loads, had : Credential]
    BY <1>1 DEF Mounted, Statuses, Loads
  <2>3. Unmounted \in [status : Statuses, load : Loads, had : Credential]
    BY RotationAssumption DEF Unmounted, Statuses, Loads, Credential, None
  <2> QED
    BY <1>1, <2>1, <2>2, <2>3
<1>4. CASE LoadPending \/ LoadDelivered
  <2>1. online' = online
    BY <1>4 DEF LoadPending, LoadDelivered
  <2>2. indicator' \in [status : Statuses, load : Loads, had : Credential]
    BY <1>1, <1>4 DEF LoadPending, LoadDelivered, Connectivity, Statuses, Loads
  <2> QED
    BY <1>1, <2>1, <2>2
<1>5. CASE ConnectivityEvent
  <2>1. online' \in BOOLEAN
    BY <1>5 DEF ConnectivityEvent
  <2>2. indicator' \in [status : Statuses, load : Loads, had : Credential]
    BY <1>1, <1>5 DEF ConnectivityEvent, Connectivity, Statuses
  <2> QED
    BY <2>1, <2>2
<1>6. CASE UNCHANGED view
  <2>1. online' = online /\ indicator' = indicator
    BY <1>6 DEF view
  <2> QED
    BY <1>1, <2>1
<1> QED
  BY <1>2, <1>3, <1>4, <1>5, <1>6

\* torn stays a truth value.
LEMMA TornStep == torn \in BOOLEAN /\ [Next]_vars => torn' \in BOOLEAN
<1> SUFFICES ASSUME torn \in BOOLEAN, [Next]_vars PROVE torn' \in BOOLEAN
  OBVIOUS
<1>1. CASE Rewrap \/ PersistAccount \/ AccountSaveFails \/ Crash
  BY <1>1, Zenon DEF Rewrap, PersistAccount, AccountSaveFails, Crash
<1>2. CASE ~(Rewrap \/ PersistAccount \/ AccountSaveFails \/ Crash)
  <2>1. torn' = torn
    BY <1>2 DEF Next, vars, BeginRotation, SavePending, SaveFails, Seal, Reconnect,
       StartAnswered, ServerFinish, FinishAnswered, ClearPending, ClearFails,
       NetworkFails, LateFinish, Lock, Unlock, LoadPending, LoadDelivered,
       ConnectivityEvent, Elsewhere
  <2> QED
    BY <2>1
<1> QED
  BY <1>1, <1>2

\* The types are preserved by every step.  The counter rotations bounds the
\* credential of a rotation that is running.
LEMMA TypeStep == TypeInv /\ [Next]_vars => TypeInv'
<1> SUFFICES ASSUME TypeInv, [Next]_vars
             PROVE  /\ setting' \in Settings
                    /\ server' \in Credential /\ account' \in Credential
                    /\ pending' \in Credential
                    /\ session' \in Credential \cup {Locked}
                    /\ rotations' \in Credential
                    /\ wrapped' \in Bytes /\ resident' \in Bytes
                    /\ begin' \in [step : BeginSteps, cred : Credential, dek : Bytes]
                    /\ complete' \in [step : CompleteSteps, cred : Credential]
                    /\ abandoned' \subseteq Credential
                    /\ begin'.step # "idle" => begin'.cred \in 1 .. rotations'
  BY ViewStep, TornStep DEF TypeInv, TypeOK
<1>0. /\ setting \in Settings
      /\ server \in Credential /\ account \in Credential /\ pending \in Credential
      /\ session \in Credential \cup {Locked}
      /\ rotations \in Credential /\ torn \in BOOLEAN
      /\ wrapped \in Bytes /\ resident \in Bytes
      /\ begin \in [step : BeginSteps, cred : Credential, dek : Bytes]
      /\ complete \in [step : CompleteSteps, cred : Credential]
      /\ abandoned \subseteq Credential
      /\ begin.step # "idle" => begin.cred \in 1 .. rotations
  BY DEF TypeInv, TypeOK
<1> USE <1>0, RotationAssumption DEF Credential, None, NotRunning, NotBegun, Bytes,
        BeginSteps, CompleteSteps, keys
<1>1. CASE BeginRotation
  BY <1>1 DEF BeginRotation
<1>2. CASE SavePending
  BY <1>2 DEF SavePending
<1>3. CASE SaveFails
  BY <1>3 DEF SaveFails
<1>4. CASE Rewrap
  <2>1. CASE session = Locked
    BY <1>4, <2>1 DEF Rewrap
  <2>2. CASE session # Locked
    BY <1>4, <2>2 DEF Rewrap
  <2> QED
    BY <2>1, <2>2
<1>5. CASE Seal
  BY <1>5 DEF Seal
<1>6. CASE PersistAccount
  BY <1>6 DEF PersistAccount
<1>7. CASE Reconnect
  BY <1>7 DEF Reconnect
<1>8. CASE StartAnswered
  BY <1>8 DEF StartAnswered
<1>9. CASE ServerFinish
  BY <1>9 DEF ServerFinish
<1>10. CASE FinishAnswered
  BY <1>10 DEF FinishAnswered
<1>11. CASE ClearPending
  BY <1>11 DEF ClearPending
<1>12. CASE NetworkFails
  BY <1>12 DEF NetworkFails, GiveUp
<1>13. CASE LateFinish
  BY <1>13 DEF LateFinish
<1>14. CASE Lock
  BY <1>14 DEF Lock
<1>15. CASE Unlock
  BY <1>15 DEF Unlock
<1>16. CASE Crash
  BY <1>16 DEF Crash, GiveUp
<1>17. CASE LoadPending \/ LoadDelivered \/ ConnectivityEvent
  BY <1>17 DEF LoadPending, LoadDelivered, ConnectivityEvent, Elsewhere
<1>18. CASE AccountSaveFails
  BY <1>18 DEF AccountSaveFails
<1>19. CASE ClearFails
  BY <1>19 DEF ClearFails
<1>20. CASE UNCHANGED vars
  BY <1>20 DEF vars
<1> QED
  BY <1>1, <1>2, <1>3, <1>4, <1>5, <1>7, <1>8, <1>9, <1>10, <1>11, <1>12, <1>13,
     <1>14, <1>15, <1>16, <1>17, <1>18, <1>19, <1>20, <1>6 DEF Next

\* The vault has just been created and its screen is open.
LEMMA TypeInit == Init => TypeInv
<1> SUFFICES ASSUME Init PROVE TypeInv
  OBVIOUS
<1> USE RotationAssumption DEF Init
<1>1. begin \in [step : BeginSteps, cred : Credential, dek : Bytes] /\ begin.step = "idle"
  BY DEF NotBegun, BeginSteps, Credential, None, Bytes
<1>2. indicator \in [status : Statuses, load : Loads, had : Credential]
  BY DEF Mounted, Statuses, Loads, Credential, None
<1>3. complete \in [step : CompleteSteps, cred : Credential] /\ abandoned \subseteq Credential
  BY DEF NotRunning, CompleteSteps, Credential, None
<1>4. /\ setting \in Settings /\ rotations \in Credential
      /\ server \in Credential /\ account \in Credential /\ pending \in Credential
      /\ session \in Credential \cup {Locked}
  BY DEF Credential, None
<1>5. wrapped \in Bytes /\ resident \in Bytes
  BY DEF Bytes
<1>6. torn \in BOOLEAN /\ online \in BOOLEAN
  OBVIOUS
<1> QED
  BY <1>1, <1>2, <1>3, <1>4, <1>5, <1>6 DEF TypeInv, TypeOK

\* Type correctness of the rotation protocol in every setting.
THEOREM Typing == Spec => []TypeOK
<1>1. Init => TypeInv
  BY TypeInit
<1>2. TypeInv => TypeOK
  BY DEF TypeInv
<1> QED
  BY <1>1, <1>2, TypeStep, PTL DEF Spec

-------------------------------------------------------------------------------
\* Why the server is never ahead: a credential is recovered from the pending record
\* only by a session that was opened with it, a session only ever follows the
\* account record, and the account record never goes back, because a rotation that
\* is running carries the newest credential.
AheadInv ==
  /\ TypeInv
  /\ server <= account
  /\ account <= rotations
  /\ session # Locked => session <= account
  /\ begin.step # "idle" => account < begin.cred
  /\ complete.step # "idle" => complete.cred <= account
  /\ \A c \in abandoned : c <= account

\* No step brings the server ahead of the account record.
LEMMA AheadStep == AheadInv /\ [Next]_vars => AheadInv'
<1> SUFFICES ASSUME AheadInv, [Next]_vars PROVE AheadInv'
  OBVIOUS
<1>0. TypeInv'
  BY TypeStep DEF AheadInv
<1> USE <1>0, RotationAssumption DEF AheadInv, TypeInv, TypeOK, Credential, None,
        NotRunning, NotBegun
<1>1. CASE BeginRotation
  BY <1>1 DEF BeginRotation
<1>2. CASE SavePending \/ SaveFails \/ Seal \/ AccountSaveFails
  BY <1>2 DEF SavePending, SaveFails, Seal, AccountSaveFails
<1>3. CASE Rewrap
  <2>1. CASE session = Locked
    BY <1>3, <2>1 DEF Rewrap
  <2>2. CASE session # Locked
    BY <1>3, <2>2 DEF Rewrap
  <2> QED
    BY <2>1, <2>2
<1>4. CASE PersistAccount
  BY <1>4 DEF PersistAccount
<1>5. CASE Reconnect
  BY <1>5 DEF Reconnect
<1>6. CASE StartAnswered \/ FinishAnswered \/ ClearPending \/ ClearFails
  BY <1>6 DEF StartAnswered, FinishAnswered, ClearPending, ClearFails
<1>7. CASE ServerFinish
  BY <1>7 DEF ServerFinish, CompleteSteps
<1>8. CASE NetworkFails
  BY <1>8 DEF NetworkFails, GiveUp
<1>9. CASE LateFinish
  BY <1>9 DEF LateFinish
<1>10. CASE Lock \/ Unlock
  BY <1>10 DEF Lock, Unlock
<1>11. CASE Crash
  <2>1. abandoned' \subseteq abandoned \cup {complete.cred}
        /\ (complete.step = "idle" => abandoned' = abandoned)
    BY <1>11 DEF Crash, GiveUp
  <2> QED
    BY <1>11, <2>1 DEF Crash
<1>12. CASE LoadPending \/ LoadDelivered \/ ConnectivityEvent
  BY <1>12 DEF LoadPending, LoadDelivered, ConnectivityEvent, Elsewhere
<1>13. CASE UNCHANGED vars
  BY <1>13 DEF vars
<1> QED
  BY <1>1, <1>2, <1>4, <1>5, <1>6, <1>7, <1>8, <1>9, <1>10, <1>11, <1>12, <1>13,
     <1>3 DEF Next

\* At registration everybody has credential 0.
LEMMA AheadInit == Init => AheadInv
  BY TypeInit, RotationAssumption DEF Init, AheadInv, NotBegun, NotRunning

\* It holds at first and every step preserves it.
LEMMA Ahead == Spec => []AheadInv
  BY AheadInit, AheadStep, PTL DEF Spec

\* In every setting the server holds no credential newer than the one that
\* opens the local vault.
THEOREM NeverAhead == Spec => []ServerNotAhead
<1>1. AheadInv => ServerNotAhead
  BY DEF AheadInv, ServerNotAhead
<1> QED
  BY <1>1, Ahead, PTL

-------------------------------------------------------------------------------
\* The setting never changes.
LEMMA SettingStays == [Next]_vars => setting' = setting
  BY DEF Next, vars, BeginRotation, SavePending, SaveFails, Rewrap, PersistAccount,
     AccountSaveFails, Seal, Reconnect, StartAnswered, ServerFinish, FinishAnswered,
     ClearPending, ClearFails, NetworkFails, LateFinish, Lock, Unlock, Crash,
     LoadPending, LoadDelivered, ConnectivityEvent, Elsewhere

\* The two phases.  While a rotation is between its saves the slot holds the new
\* credential and nothing else runs; a completion holds the record it loaded, and
\* from its answer on the server has that credential; otherwise the slot is empty
\* and the server agrees with the device, or it holds the device's credential, or the
\* last rotation was torn and its record is newer than the device, which no session
\* can open.  With no lock during a rotation the DEK stays what it is wherever it is
\* held.
TwoPhase ==
  /\ TypeInv
  /\ wrapped = "dek"
  /\ session # Locked => resident = "dek"
  /\ begin.step \in {"seal", "persist"} => begin.dek = "dek"
  /\ abandoned = {}
  /\ begin.step # "idle" => complete.step = "idle" /\ session # Locked
  /\ complete.step # "idle" => complete.cred = pending /\ pending # None
  /\ complete.step \in {"answered", "clear"} => server = complete.cred
  /\ IF BetweenSaves THEN pending = begin.cred
     ELSE IF torn THEN account < pending
     ELSE (pending = account /\ pending # None) \/ (pending = None /\ server = account)

\* Every step of a serial setting keeps the two phases apart.
LEMMA TwoPhaseStep == Serial /\ AheadInv /\ TwoPhase /\ [Next]_vars => TwoPhase'
<1> SUFFICES ASSUME Serial, AheadInv, TwoPhase, [Next]_vars PROVE TwoPhase'
  OBVIOUS
<1>0. TypeInv'
  BY TypeStep DEF TwoPhase
<1> USE <1>0, RotationAssumption DEF Serial, TwoPhase, TypeInv, TypeOK, Credential,
        None, NotRunning, NotBegun, BetweenSaves, keys
<1>1. CASE BeginRotation
  BY <1>1 DEF BeginRotation
<1>2. CASE SavePending
  BY <1>2 DEF SavePending
<1>3. CASE SaveFails
  BY <1>3 DEF SaveFails
<1>4. CASE Rewrap
  BY <1>4 DEF Rewrap
<1>5. CASE PersistAccount
  <2>1. begin.step = "persist" /\ complete.step = "idle"
    BY <1>5 DEF PersistAccount
  <2> QED
    BY <1>5, <2>1 DEF PersistAccount
<1>6. CASE Reconnect
  <2>1. session <= account
    BY <1>6 DEF Reconnect, AheadInv
  <2> QED
    BY <1>6, <2>1 DEF Reconnect
<1>7. CASE StartAnswered
  BY <1>7 DEF StartAnswered
<1>8. CASE ServerFinish
  <2>1. complete.cred <= account /\ account \in Nat /\ pending \in Nat
    BY <1>8 DEF ServerFinish, AheadInv
  <2>2. complete.step # "idle" /\ begin.step = "idle"
    BY <1>8 DEF ServerFinish
  <2>3. pending = account
    BY <2>1, <2>2
  <2> QED
    BY <1>8, <2>2, <2>3 DEF ServerFinish
<1>9. CASE FinishAnswered
  BY <1>9 DEF FinishAnswered
<1>10. CASE ClearPending
  <2>1. complete.cred <= account /\ account \in Nat /\ pending \in Nat
    BY <1>10 DEF ClearPending, AheadInv
  <2>2. complete.step # "idle" /\ begin.step = "idle"
    BY <1>10 DEF ClearPending
  <2>3. pending = account /\ ~torn
    BY <2>1, <2>2
  <2> QED
    BY <1>10, <2>2, <2>3 DEF ClearPending
<1>11. CASE NetworkFails
  BY <1>11 DEF NetworkFails, GiveUp
<1>12. CASE LateFinish
  BY <1>12 DEF LateFinish
<1>13. CASE Lock \/ Unlock
  BY <1>13 DEF Lock, Unlock
<1>14. CASE Crash
  <2>1. abandoned' = {}
    BY <1>14 DEF Crash, GiveUp
  <2>2. CASE BetweenSaves
    <3>1. account < pending
      BY <2>2 DEF AheadInv
    <3> QED
      BY <1>14, <2>1, <2>2, <3>1 DEF Crash
  <2>3. CASE ~BetweenSaves
    BY <1>14, <2>1, <2>3 DEF Crash
  <2> QED
    BY <2>2, <2>3
<1>15. CASE Seal
  BY <1>15 DEF Seal
<1>16. CASE LoadPending \/ LoadDelivered \/ ConnectivityEvent
  BY <1>16 DEF LoadPending, LoadDelivered, ConnectivityEvent, Elsewhere
<1>17. CASE AccountSaveFails
  <2>1. account < pending /\ begin.step = "persist" /\ complete.step = "idle"
    BY <1>17 DEF AccountSaveFails, AheadInv
  <2> QED
    BY <1>17, <2>1 DEF AccountSaveFails
<1>18. CASE ClearFails
  BY <1>18 DEF ClearFails
<1>19. CASE UNCHANGED vars
  BY <1>19 DEF vars
<1> QED
  BY <1>1, <1>2, <1>3, <1>4, <1>5, <1>6, <1>7, <1>8, <1>9, <1>10, <1>11, <1>12,
     <1>13, <1>14, <1>15, <1>16, <1>17, <1>18, <1>19 DEF Next

\* At registration nothing runs and the server agrees with the device.
LEMMA TwoPhaseInit == Init => TwoPhase
  BY TypeInit, RotationAssumption DEF Init, TwoPhase, None, NotRunning, NotBegun,
     BetweenSaves

\* What every reachable state satisfies: the two phases, if the setting is serial.
SerialPhases == AheadInv /\ (Serial => TwoPhase)

\* It holds at first and every step preserves it.
LEMMA Phases == Spec => []SerialPhases
<1>1. Init => SerialPhases
  BY AheadInit, TwoPhaseInit DEF SerialPhases
<1>2. SerialPhases /\ [Next]_vars => SerialPhases'
  BY AheadStep, TwoPhaseStep, SettingStays DEF SerialPhases, Serial
<1> QED
  BY <1>1, <1>2, PTL DEF Spec

\* One function of the engine at a time and no late request: then, whatever save, clear
\* or request fails and wherever the app dies, the account record opens the vault, and
\* unless the last rotation was torn between its saves the device can bring the server
\* to its password.
THEOREM AlwaysRecoverable == Spec => []Recoverable
<1>1. SerialPhases => Recoverable
  BY DEF SerialPhases, TwoPhase, Recoverable, CanRecover, VaultOpens
<1> QED
  BY <1>1, Phases, PTL

\* In such a setting the pending record is deleted only when the server has its
\* credential.
THEOREM ClearedLast == Spec => ClearedOnceConfirmed
<1>1. SerialPhases /\ [Next]_vars
        => [Serial /\ pending # None /\ pending' = None => server = pending]_vars
  <2> SUFFICES ASSUME TwoPhase, Next, pending # None, pending' = None
               PROVE  server = pending
    BY DEF SerialPhases
  <2>1. ClearPending \/ SavePending \/ pending' = pending
    BY DEF Next, BeginRotation, SaveFails, Rewrap, Seal, PersistAccount, AccountSaveFails,
       Reconnect, StartAnswered, ServerFinish, FinishAnswered, ClearFails, NetworkFails,
       LateFinish, Lock, Unlock, Crash, LoadPending, LoadDelivered, ConnectivityEvent, Elsewhere
  <2>2. CASE ClearPending
    BY <2>2 DEF ClearPending, TwoPhase
  <2>3. CASE SavePending
    BY <2>3 DEF SavePending, TwoPhase, TypeInv, None
  <2> QED
    BY <2>1, <2>2, <2>3
<1> QED
  BY <1>1, Phases, PTL DEF Spec, ClearedOnceConfirmed

\* And the server moves only to the credential the device uses at that moment.
THEOREM FollowsAccount == Spec => ServerFollowsAccount
<1>1. SerialPhases /\ [Next]_vars
        => [Serial /\ server' # server => server' = account]_vars
  <2> SUFFICES ASSUME AheadInv, TwoPhase, Next, server' # server
               PROVE  server' = account
    BY DEF SerialPhases
  <2>1. ServerFinish \/ LateFinish
    BY DEF Next, BeginRotation, SavePending, SaveFails, Rewrap, Seal, PersistAccount,
       AccountSaveFails, Reconnect, StartAnswered, FinishAnswered, ClearPending,
       ClearFails, NetworkFails, Lock, Unlock, Crash, LoadPending, LoadDelivered, ConnectivityEvent, Elsewhere
  <2>2. CASE ServerFinish
    <3>1. complete.step # "idle" /\ begin.step = "idle"
      BY <2>2 DEF ServerFinish, TwoPhase
    <3>2. complete.cred <= account /\ account \in Nat /\ pending \in Nat
      BY <3>1 DEF AheadInv, TypeInv, TypeOK, Credential
    <3> QED
      BY <2>2, <3>1, <3>2 DEF ServerFinish, TwoPhase, BetweenSaves
  <2>3. CASE LateFinish
    BY <2>3 DEF LateFinish, TwoPhase
  <2> QED
    BY <2>1, <2>2, <2>3
<1> QED
  BY <1>1, Phases, PTL DEF Spec, ServerFollowsAccount

-------------------------------------------------------------------------------
\* The two functions as one handover.  What is owed, in the states of the two phases
\* and unless a rotation was torn: nothing, if the server agrees with the device, or
\* the device's credential.
LEMMA OwedIs ==
  ASSUME AheadInv, TwoPhase, ~torn
  PROVE  (Owed = None /\ server = account) \/ (Owed = account /\ account # None)
BY RotationAssumption DEF AheadInv, TwoPhase, TypeInv, TypeOK, Owed, BetweenSaves,
   Credential, None

\* While a completion runs the slot is the device's: no torn rotation lies behind it,
\* because its record is newer than any session.
LEMMA Completing ==
  ASSUME AheadInv, TwoPhase, complete.step # "idle"
  PROVE  ~torn /\ pending = account
<1>1. complete.cred <= account /\ complete.cred = pending /\ begin.step = "idle"
  BY DEF AheadInv, TwoPhase
<1>2. account \in Nat /\ pending \in Nat /\ pending # None
  BY DEF TwoPhase, TypeInv, TypeOK, Credential
<1> QED
  BY <1>1, <1>2 DEF TwoPhase, BetweenSaves

\* A step of the code is a step of the handover or none: the password changes with
\* the account record, a rotation torn between its saves loses what is owed, the
\* server gets what is owed, and what it has is not owed any more, be the record
\* cleared or overwritten by the next rotation.
Handover(a, s, o, l, a1, s1, o1, l1) ==
  \/ a1 = a /\ s1 = s /\ o1 = o /\ l1 = l
  \/ a1 \in 1 .. MaxRotations /\ a < a1 /\ o1 = a1 /\ s1 = s /\ l1 = FALSE
  \/ o1 = 0 /\ l1 = TRUE /\ a1 = a /\ s1 = s
  \/ o # 0 /\ s1 = o /\ a1 = a /\ o1 = o /\ l1 = l
  \/ o # 0 /\ s = o /\ o1 = 0 /\ a1 = a /\ s1 = s /\ l1 = l

LEMMA HandoverStep ==
  ASSUME Serial, AheadInv, TwoPhase, TwoPhase', [Next]_vars
  PROVE  Handover(account, server, Owed, torn, account', server', Owed', torn')
<1>0. /\ account \in Nat /\ server \in Nat /\ pending \in Nat /\ begin.cred \in Nat
      /\ MaxRotations \in Nat
  BY RotationAssumption DEF TwoPhase, TypeInv, TypeOK, Credential
<1>b. torn \in BOOLEAN
  BY DEF TwoPhase, TypeInv, TypeOK
<1> USE <1>0, <1>b DEF Handover, Owed, BetweenSaves, None
<1>1. CASE PersistAccount
  <2>1. /\ account' = begin.cred /\ server' = server /\ begin'.step = "idle"
        /\ pending' = begin.cred /\ torn' = FALSE
    BY <1>1 DEF PersistAccount, TwoPhase, NotBegun
  <2>2. account < begin.cred /\ begin.cred \in 1 .. MaxRotations
    BY <1>1, <2>1 DEF PersistAccount, AheadInv, TypeInv, TypeOK, Credential
  <2> QED
    BY <2>1, <2>2
<1>2. CASE SavePending
  <2>1. /\ account' = account /\ server' = server /\ begin'.step = "rewrap"
        /\ torn' = torn /\ ~BetweenSaves
    BY <1>2 DEF SavePending, TwoPhase, TypeInv, TypeOK
  <2>2. CASE torn
    BY <2>1, <2>2
  <2>3. CASE ~torn
    <3>1. Owed' = IF server = account THEN None ELSE account
      BY <2>1, <2>3
    <3> QED
      BY <2>1, <2>3, <3>1, OwedIs
  <2> QED
    BY <2>2, <2>3
<1>3. CASE ServerFinish
  <2>1. /\ begin.step = "idle" /\ begin' = begin /\ account' = account /\ pending' = pending
        /\ server' = complete.cred /\ complete.cred = pending /\ pending # None
        /\ torn' = torn /\ complete.step # "idle"
    BY <1>3 DEF ServerFinish, TwoPhase
  <2>2. ~torn
    BY <2>1, Completing
  <2> QED
    BY <2>1, <2>2
<1>4. CASE ClearPending
  <2>1. /\ begin.step = "idle" /\ begin' = begin /\ account' = account /\ pending' = None
        /\ server' = server /\ server = pending /\ pending # None
        /\ torn' = torn /\ complete.step # "idle"
    BY <1>4 DEF ClearPending, TwoPhase
  <2>2. ~torn
    BY <2>1, Completing
  <2> QED
    BY <2>1, <2>2
<1>5. CASE LateFinish
  BY <1>5 DEF LateFinish, TwoPhase
<1>6. CASE Rewrap
  <2>1. begin.step = "rewrap" /\ begin'.step = "seal" /\ session # Locked
    BY <1>6 DEF Rewrap, TwoPhase, TypeInv, TypeOK
  <2>2. UNCHANGED <<account, server, pending>>
    BY <1>6 DEF Rewrap
  <2>3. torn' = torn
    BY <1>6, <2>1, Zenon DEF Rewrap
  <2> QED
    BY <2>1, <2>2, <2>3
<1>7. CASE Lock
  <2>1. begin.step = "idle" /\ begin'.step = "idle"
    BY <1>7 DEF Lock, Serial, TwoPhase, TypeInv, TypeOK
  <2> QED
    BY <1>7, <2>1 DEF Lock
<1>8. CASE Crash
  <2>1. /\ begin'.step = "idle" /\ UNCHANGED <<account, server, pending>>
        /\ torn' = (torn \/ BetweenSaves)
    BY <1>8 DEF Crash, NotBegun
  <2>2. CASE BetweenSaves
    <3>1. torn' = TRUE
      BY <2>1, <2>2
    <3> QED
      BY <2>1, <3>1
  <2>3. CASE ~BetweenSaves
    <3>1. torn' = torn
      BY <2>1, <2>3, Zenon
    <3> QED
      BY <2>1, <2>3, <3>1
  <2> QED
    BY <2>2, <2>3
<1>9. CASE BeginRotation \/ SaveFails
  <2>1. /\ begin.step \in {"idle", "save"} /\ begin'.step \in {"idle", "save"}
        /\ account' = account /\ server' = server /\ pending' = pending /\ torn' = torn
    BY <1>9 DEF BeginRotation, SaveFails, NotBegun
  <2> QED
    BY <2>1
<1>10. CASE Seal
  <2>1. begin.step = "seal" /\ begin'.step = "persist"
    BY <1>10 DEF Seal, TwoPhase, TypeInv, TypeOK
  <2> QED
    BY <1>10, <2>1 DEF Seal
<1>11. CASE AccountSaveFails
  BY <1>11 DEF AccountSaveFails
<1>12. CASE \/ Reconnect \/ StartAnswered \/ FinishAnswered \/ ClearFails \/ NetworkFails
            \/ Unlock \/ LoadPending \/ LoadDelivered \/ ConnectivityEvent
            \/ UNCHANGED vars
  <2>1. UNCHANGED <<account, server, pending, begin, torn>>
    BY <1>12 DEF Reconnect, StartAnswered, FinishAnswered, ClearFails, NetworkFails,
       Unlock, LoadPending, LoadDelivered, ConnectivityEvent, Elsewhere, vars
  <2> QED
    BY <2>1
<1> QED
  BY <1>1, <1>2, <1>3, <1>4, <1>5, <1>6, <1>7, <1>8, <1>9, <1>10, <1>11, <1>12 DEF Next

\* In a serial setting the engine implements the atomic handover: for any number of
\* rotations, crashes, locks and failures, no password owed to the server is lost but by
\* a rotation torn between its two saves, and the server gets none but the one the
\* device uses (rotation-state-machine.ts:51-60, 108-116).
THEOREM EngineImplementsHandover == Spec => ImplementsHandover
<1>1. Init => Promise!HandoverInit
  BY DEF Init, Promise!HandoverInit, IfSerial, Owed, BetweenSaves, None, NotBegun
<1>2. SerialPhases /\ SerialPhases' /\ AheadInv /\ [Next]_vars
        => [Promise!HandoverNext]_<<IfSerial(account), IfSerial(server), IfSerial(Owed),
                                    Serial /\ torn>>
  <2> SUFFICES ASSUME SerialPhases, SerialPhases', AheadInv, [Next]_vars
               PROVE  \/ Promise!HandoverNext
                      \/ UNCHANGED <<IfSerial(account), IfSerial(server), IfSerial(Owed),
                                     Serial /\ torn>>
    OBVIOUS
  <2>1. Serial' = Serial
    BY SettingStays DEF Serial
  <2>2. CASE ~Serial
    BY <2>1, <2>2 DEF IfSerial
  <2>3. CASE Serial
    <3>1. Handover(account, server, Owed, torn, account', server', Owed', torn')
      BY <2>1, <2>3, HandoverStep DEF SerialPhases
    <3>2. /\ IfSerial(account) = account /\ IfSerial(account)' = account'
          /\ IfSerial(server) = server /\ IfSerial(server)' = server'
          /\ IfSerial(Owed) = Owed /\ IfSerial(Owed)' = Owed'
      BY <2>1, <2>3 DEF IfSerial
    <3>3. torn \in BOOLEAN /\ torn' \in BOOLEAN
      BY <2>1, <2>3 DEF SerialPhases, TwoPhase, TypeInv, TypeOK
    <3>4. (Serial /\ torn) = torn /\ (Serial /\ torn)' = torn'
      BY <2>1, <2>3, <3>3, Zenon
    <3> HIDE DEF IfSerial, Owed
    <3> QED
      BY <3>1, <3>2, <3>4 DEF Handover, Promise!HandoverNext, Promise!ChangePassword,
         Promise!FailChange, Promise!Deliver, Promise!Acknowledge
  <2> QED
    BY <2>2, <2>3
<1> QED
  BY <1>1, <1>2, Phases, Ahead, PTL DEF Spec, ImplementsHandover, Promise!HandoverSpec

-------------------------------------------------------------------------------
\* Why a hardened account loses nothing: its reconnections end at the challenge, so
\* no finish is ever sent and no clear is ever reached.
HardenedInv ==
  /\ TypeInv
  /\ setting.hardened =>
       /\ server = 0 /\ abandoned = {}
       /\ complete.step \in {"idle", "start"}
       /\ account # 0 \/ BetweenSaves => pending # None

\* No step of a hardened account reaches the server or deletes the record.
LEMMA HardenedStep == HardenedInv /\ [Next]_vars => HardenedInv'
<1> SUFFICES ASSUME HardenedInv, [Next]_vars PROVE HardenedInv'
  OBVIOUS
<1>1. TypeInv' /\ setting' = setting
  BY TypeStep, SettingStays DEF HardenedInv
<1> SUFFICES ASSUME setting.hardened
             PROVE  /\ server' = 0 /\ abandoned' = {}
                    /\ complete'.step \in {"idle", "start"}
                    /\ account' # 0 \/ BetweenSaves' => pending' # None
  BY <1>1 DEF HardenedInv
<1> USE DEF HardenedInv, TypeInv, TypeOK, None, NotRunning, NotBegun, BetweenSaves
<1>2. CASE BeginRotation \/ SaveFails \/ Rewrap \/ Seal \/ Lock \/ Unlock
  BY <1>2 DEF BeginRotation, SaveFails, Rewrap, Seal, Lock, Unlock
<1>3. CASE SavePending
  BY <1>3 DEF SavePending
<1>4. CASE PersistAccount \/ AccountSaveFails
  BY <1>4 DEF PersistAccount, AccountSaveFails
<1>5. CASE Reconnect \/ StartAnswered
  BY <1>5 DEF Reconnect, StartAnswered
<1>6. CASE ServerFinish \/ FinishAnswered \/ ClearPending \/ ClearFails \/ LateFinish
  BY <1>6 DEF ServerFinish, FinishAnswered, ClearPending, ClearFails, LateFinish
<1>7. CASE NetworkFails \/ Crash
  BY <1>7 DEF NetworkFails, Crash, GiveUp
<1>8. CASE LoadPending \/ LoadDelivered \/ ConnectivityEvent
  BY <1>8 DEF LoadPending, LoadDelivered, ConnectivityEvent, Elsewhere
<1>9. CASE UNCHANGED vars
  BY <1>9 DEF vars
<1> QED
  BY <1>2, <1>3, <1>4, <1>5, <1>6, <1>7, <1>8, <1>9 DEF Next

\* The desktop client cannot answer Factor 2, and gives up without losing anything: only
\* a rotation torn between its saves costs the record of the current password.
THEOREM RefusedWithoutLoss == Spec => []HardenedRefused
<1>1. Init => HardenedInv
  BY TypeInit, RotationAssumption DEF Init, HardenedInv, None, NotRunning, NotBegun,
     BetweenSaves
<1>2. HardenedInv /\ SerialPhases => HardenedRefused
  BY DEF HardenedInv, SerialPhases, TwoPhase, HardenedRefused, None
<1> QED
  BY <1>1, <1>2, HardenedStep, Phases, PTL DEF Spec

-------------------------------------------------------------------------------
\* Why the indicator tells the truth: a record saved after the mount is newer than
\* the one that was there at the mount, because without overlap the rotation that
\* saves it began after the mount too.
IndicatorInv ==
  /\ TypeInv
  /\ pending <= rotations /\ indicator.had <= rotations
  /\ ~setting.overlap =>
       /\ begin.step # "idle" => session # Locked /\ indicator.had < begin.cred
       /\ indicator.load = "empty" \/ (indicator.load = "delivered"
                                        /\ indicator.status # "pending-sync")
            => pending = None \/ pending > indicator.had
       /\ indicator.load = "asked" /\ pending # None => pending >= indicator.had
  /\ indicator.load = "delivered" =>
       indicator.status \in {"pending-sync", Connectivity(online)}

\* No step makes the indicator lie.
LEMMA IndicatorStep == IndicatorInv /\ [Next]_vars => IndicatorInv'
<1> SUFFICES ASSUME IndicatorInv, [Next]_vars PROVE IndicatorInv'
  OBVIOUS
<1>0. TypeInv' /\ setting' = setting
  BY TypeStep, SettingStays DEF IndicatorInv
<1> USE <1>0, RotationAssumption DEF IndicatorInv, TypeInv, TypeOK, Credential, None,
        NotRunning, NotBegun, keys, view, Connectivity
<1>1. CASE BeginRotation
  BY <1>1 DEF BeginRotation
<1>2. CASE SavePending
  BY <1>2 DEF SavePending
<1>3. CASE SaveFails
  BY <1>3 DEF SaveFails
<1>4. CASE Rewrap
  <2>1. CASE session = Locked
    BY <1>4, <2>1 DEF Rewrap
  <2>2. CASE session # Locked
    BY <1>4, <2>2 DEF Rewrap
  <2> QED
    BY <2>1, <2>2
<1>5. CASE Seal
  BY <1>5 DEF Seal
<1>6. CASE PersistAccount \/ AccountSaveFails
  BY <1>6 DEF PersistAccount, AccountSaveFails
<1>7. CASE Reconnect \/ StartAnswered \/ ServerFinish \/ FinishAnswered \/ ClearFails
  BY <1>7 DEF Reconnect, StartAnswered, ServerFinish, FinishAnswered, ClearFails
<1>8. CASE ClearPending
  BY <1>8 DEF ClearPending
<1>9. CASE NetworkFails \/ LateFinish
  BY <1>9 DEF NetworkFails, LateFinish
<1>10. CASE Lock
  BY <1>10 DEF Lock, Unmounted
<1>11. CASE Unlock
  BY <1>11 DEF Unlock, Mounted
<1>12. CASE Crash
  BY <1>12 DEF Crash, Unmounted
<1>13. CASE LoadPending
  BY <1>13 DEF LoadPending, Elsewhere
<1>14. CASE LoadDelivered
  BY <1>14 DEF LoadDelivered, Elsewhere
<1>15. CASE ConnectivityEvent
  BY <1>15 DEF ConnectivityEvent, Elsewhere
<1>16. CASE UNCHANGED vars
  BY <1>16 DEF vars
<1> QED
  BY <1>1, <1>2, <1>3, <1>6, <1>7, <1>8, <1>9, <1>10, <1>11, <1>12, <1>13, <1>14,
     <1>15, <1>16, <1>4, <1>5 DEF Next

\* Whatever the order of loads, connectivity events, rotations and locks, an indicator
\* that has loaded hides no record that was there when it was mounted.
THEOREM IndicatorTells == Spec => []IndicatorHonest
<1>1. Init => IndicatorInv
  BY TypeInit, RotationAssumption DEF Init, IndicatorInv, Mounted, NotBegun, None
<1>2. IndicatorInv /\ SerialPhases => IndicatorHonest
  BY DEF IndicatorInv, SerialPhases, TwoPhase, TypeInv, TypeOK, BetweenSaves, Credential,
         None, IndicatorHonest
<1> QED
  BY <1>1, <1>2, IndicatorStep, Phases, PTL DEF Spec
===============================================================================

--------------------------- MODULE RotationExchange ---------------------------
(***************************************************************************)
(* What the rotation of a hardened account promises, with every operation  *)
(* atomic: a device that was issued a challenge exchanges it, once, for a  *)
(* record that was never stored before, or loses it.  The promise is read  *)
(* off the doc comment of RotationService (rotation.service.ts:42-45,      *)
(* 87-89, 145).  RotationServer, whose handlers check, clear and replace   *)
(* in three calls, implements it when each device has one request in       *)
(* flight.                                                                 *)
(***************************************************************************)
EXTENDS Naturals

CONSTANTS
  Devices,          \* devices of the account
  MaxRecords,       \* bound: registration records made
  MaxChallenges     \* bound: challenges issued

VARIABLES
  record,           \* the stored record
  issued,           \* challenges issued so far
  outstanding,      \* per device, the challenge it may still exchange, 0 = none
  exchanges         \* the exchanges made: device, record, and challenge as signature

ExchangeInit ==
  /\ record = 0 /\ issued = 0
  /\ outstanding = [d \in Devices |-> 0]
  /\ exchanges = {}

\* A fresh challenge supersedes the outstanding one.
Issue(d) ==
  /\ issued < MaxChallenges
  /\ issued' = issued + 1
  /\ outstanding' = [outstanding EXCEPT ![d] = issued + 1]
  /\ UNCHANGED <<record, exchanges>>

\* Clear and replace in one step.
Exchange(d, r) ==
  /\ outstanding[d] # 0
  /\ \A x \in exchanges : x.record # r
  /\ record' = r
  /\ exchanges' = exchanges \cup
       {[device |-> d, record |-> r, signature |-> outstanding[d]]}
  /\ outstanding' = [outstanding EXCEPT ![d] = 0]
  /\ issued' = issued

\* A failure after the clear, or a crash, which may meet several devices.
Lose(S) ==
  /\ outstanding' = [d \in Devices |-> IF d \in S THEN 0 ELSE outstanding[d]]
  /\ UNCHANGED <<record, issued, exchanges>>

ExchangeNext ==
  \/ \E d \in Devices : Issue(d) \/ \E r \in 1 .. MaxRecords : Exchange(d, r)
  \/ \E S \in SUBSET Devices : Lose(S)

ExchangeSpec ==
  ExchangeInit /\ [][ExchangeNext]_<<record, issued, outstanding, exchanges>>
===============================================================================

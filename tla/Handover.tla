------------------------------- MODULE Handover -------------------------------
(***************************************************************************)
(* What the two functions of an offline rotation promise together, with    *)
(* every operation atomic: the device changes its password and from then   *)
(* on owes it to the server, the server takes what is owed, and only what  *)
(* the server has taken is no longer owed.  A change that fails half-way   *)
(* loses what was owed, and nothing else does.  The promise is read off    *)
(* the two functions and their doc comments (rotation-state-machine.ts:    *)
(* 51-79, 108-135).  OfflineRotation implements it in its serial           *)
(* settings, although it has one slot for what is owed and overwrites it   *)
(* before the device has changed its password.                             *)
(***************************************************************************)
EXTENDS Naturals

CONSTANT MaxRotations   \* bound: rotations of one device

VARIABLES
  account,              \* the credential of the device
  server,               \* the credential of the server
  owed,                 \* the credential the server has still to get, 0 = none
  lost                  \* did the last change fail half-way?

HandoverInit == account = 0 /\ server = 0 /\ owed = 0 /\ lost = FALSE

\* The device goes on with a new password; what was owed before is obsolete.
ChangePassword(c) ==
  /\ account < c
  /\ account' = c /\ owed' = c /\ lost' = FALSE
  /\ server' = server

\* The device keeps its password, and what it owed was overwritten.
FailChange ==
  /\ owed' = 0 /\ lost' = TRUE
  /\ UNCHANGED <<account, server>>

\* The server gets what is owed, once or again.
Deliver ==
  /\ owed # 0
  /\ server' = owed
  /\ UNCHANGED <<account, owed, lost>>

Acknowledge ==
  /\ owed # 0 /\ server = owed
  /\ owed' = 0
  /\ UNCHANGED <<account, server, lost>>

HandoverNext ==
  \/ \E c \in 1 .. MaxRotations : ChangePassword(c)
  \/ FailChange
  \/ Deliver
  \/ Acknowledge

HandoverSpec == HandoverInit /\ [][HandoverNext]_<<account, server, owed, lost>>
===============================================================================

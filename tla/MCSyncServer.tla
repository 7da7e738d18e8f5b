---------------------------- MODULE MCSyncServer ------------------------------
(***************************************************************************)
(* Instances of SyncServer for TLC.  Accounts u1 and u2; d1 and d2 are two *)
(* devices of u1, d3 is the device of u2.                                  *)
(***************************************************************************)
EXTENDS SyncServer, TLC

CONSTANTS u1, u2, d1, d2, d3, r1, r2, a, b

MCDeviceUser == (d1 :> u1) @@ (d3 :> u2)

\* One account, one slot: the case of a single request in flight.
OneUser == (d1 :> u1) @@ (d2 :> u1)
OneSlot == (r1 :> {d1, d2})

\* Two requests of the same user in flight, from either of its devices.
TwoSlotsOneUser == (r1 :> {d1, d2}) @@ (r2 :> {d1, d2})

\* Slot r1 for u1, slot r2 for a second request of u1 or for one of u2.
MixedSlots == (r1 :> {d1}) @@ (r2 :> {d1, d3})

\* Ciphertexts are interchangeable, and so are the two devices of OneSlot.
ContentSymmetry == Permutations(Contents)
SerialSymmetry  == Permutations(Contents) \cup Permutations({d1, d2})
===============================================================================

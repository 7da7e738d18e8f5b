--------------------------- MODULE MCOfflineRotation ---------------------------
(* Instances of OfflineRotation for TLC: every setting, or a single liberty. *)
EXTENDS OfflineRotation

Tame == [hardened |-> FALSE, overlap |-> FALSE, late |-> FALSE]

OverlapOnly == {[Tame EXCEPT !.overlap = TRUE]}
===============================================================================

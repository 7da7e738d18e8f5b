-------------------------------- MODULE MCLogin --------------------------------
(***************************************************************************)
(* Login for TLC.  E-mails, passwords and slots are interchangeable.       *)
(***************************************************************************)
EXTENDS Login, TLC

Symmetry == Permutations(Emails) \cup Permutations(Passwords) \cup Permutations(Slots)
===============================================================================

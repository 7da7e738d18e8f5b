--------------------------- MODULE MCRotationServer ----------------------------
(* Instances of RotationServer for TLC: two devices with a slot each, one device with two. *)
EXTENDS RotationServer, TLC

CONSTANTS d1, d2, h1, h2

\* Each device has one request in flight.
HandlerPerDevice == (h1 :> d1) @@ (h2 :> d2)

\* One device has two requests in flight: a retry overtakes a slow first attempt.
TwoHandlers == (h1 :> d1) @@ (h2 :> d1)
===============================================================================

----------------------------- MODULE MCStartup -----------------------------
(* Startup with two logs of one bot and one of another.                     *)
EXTENDS Startup, TLC

CONSTANTS l1, l2, l3, b1, b2

OwnersOf == l1 :> b1 @@ l2 :> b1 @@ l3 :> b2
=============================================================================

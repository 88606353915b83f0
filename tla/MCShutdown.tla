----------------------------- MODULE MCShutdown -----------------------------
(***************************************************************************)
(* The shutdown of a house with a bridge and one Redstone device, with     *)
(* mailboxes that fill up: the hue server's has room for a batch behind    *)
(* the message that finishes it.                                           *)
(***************************************************************************)
EXTENDS Shutdown

Events == [f \in Faults |-> IF f \in {"none", "bridge"} THEN 3 ELSE 2]

Rooms == [s \in Server |-> IF s = "hue" THEN 2 ELSE 1]
=============================================================================

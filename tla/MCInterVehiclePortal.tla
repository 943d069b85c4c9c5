------------------------ MODULE MCInterVehiclePortal ------------------------
(***************************************************************************)
(* Instances of InterVehiclePortal for TLC: two links, one with a single   *)
(* subscriber and one with two.                                            *)
(***************************************************************************)
EXTENDS InterVehiclePortal

CONSTANTS l1, l2, a, b, c

OneOrTwo == [s \in Subscriptions |-> IF s = a THEN l1 ELSE l2]
=============================================================================

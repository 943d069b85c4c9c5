------------------------ MODULE MCInterProcessPortal ------------------------
(***************************************************************************)
(* Instances of InterProcessPortal for TLC: one process with one group and *)
(* one forwarder, and a second client that the Manager waits for.          *)
(***************************************************************************)
EXTENDS InterProcessPortal

CONSTANTS g, f, self, other
=============================================================================

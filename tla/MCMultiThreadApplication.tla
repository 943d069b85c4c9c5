---------------------- MODULE MCMultiThreadApplication ----------------------
(***************************************************************************)
(* Instances of MultiThreadApplication for TLC: a thread with a loop       *)
(* frequency and one that only handles messages.                           *)
(***************************************************************************)
EXTENDS MultiThreadApplication

CONSTANTS timer, handler
=============================================================================

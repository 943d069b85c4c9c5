--------------------------- MODULE MCIridiumDriver --------------------------
(***************************************************************************)
(* Instances of IridiumDriver for TLC.                                     *)
(***************************************************************************)
EXTENDS IridiumDriver
=============================================================================

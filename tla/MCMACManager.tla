---------------------------- MODULE MCMACManager ----------------------------
(***************************************************************************)
(* Instances of MACManager for TLC: two vehicles with the same cycle of    *)
(* three slots (4 + 3 + 3 units of time), of which the second and third    *)
(* belong to vehicle 2 and to whoever has set always_initiate.             *)
(***************************************************************************)
EXTENDS MACManager

Slot(src, seconds, always) ==
    [src |-> src, slot_seconds |-> seconds, always_initiate |-> always]

Cycle(always) == <<Slot(1, 4, FALSE), Slot(2, 3, FALSE), Slot(0, 3, always)>>

Both == [v \in Vehicles |->
            [type |-> "MAC_FIXED_DECENTRALIZED", modem_id |-> v, slot |-> Cycle(v = 1),
             start_cycle_in_middle |-> v = 1]]

SetForward == 7

SetBack == -3

ClockSteps == {SetForward, SetBack}

ASSUME BothAgree == WholeCycles /\ SlotsAgreed
=============================================================================

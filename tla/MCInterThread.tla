--------------------------- MODULE MCInterThread ----------------------------
(***************************************************************************)
(* Instances of InterThread for TLC: the assignments of channels to stores *)
(* (a store is a data type, a channel a type and a group) and how often    *)
(* each of the two threads publishes and subscribes.                       *)
(***************************************************************************)
EXTENDS InterThread

CONSTANTS t1, t2, c1, c2, s1, s2

TwoStores == [c \in Channels |-> IF c = c1 THEN s1 ELSE s2]

Count(n1, n2) == [t \in Threads |-> IF t = t1 THEN n1 ELSE n2]
PubPoll == Count(1, 2)
SubPoll == Count(2, 0)
=============================================================================

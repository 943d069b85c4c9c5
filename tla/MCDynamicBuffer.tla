-------------------------- MODULE MCDynamicBuffer ---------------------------
(***************************************************************************)
(* Instances of DynamicBuffer for TLC.                                     *)
(***************************************************************************)
EXTENDS DynamicBuffer

CONSTANTS a, b

\* A DynamicBufferConfig with the given fields set.
Config(set) ==
    [f \in ConfigFields |-> IF f \in DOMAIN set THEN set[f] ELSE Unset]

MCDefaultConfig ==
    [ack_required |-> FALSE, blackout_time |-> 0, max_queue |-> 3,
     newest_first |-> TRUE, ttl |-> Fraction(3, 1), value_base |-> Fraction(1, 1)]

MCDataSize == [d \in Data |-> IF d = a THEN 1 ELSE 2]

\* Publishers and subscribers that agree on the order of the queue, and on
\* nothing else.
Eager == Config([newest_first |-> TRUE, max_queue |-> 1, ttl |-> Fraction(1, 1)])
Patient == Config([newest_first |-> TRUE, max_queue |-> 2, blackout_time |-> 1,
                   ttl |-> Fraction(2, 1)])
Fifo == Config([newest_first |-> FALSE, max_queue |-> 2, ttl |-> Fraction(1, 1)])
SlowFifo == Config([newest_first |-> FALSE, max_queue |-> 1, blackout_time |-> 1])
AgreeingLists == {<<Eager>>, <<Patient, Eager>>, <<Fifo>>, <<SlowFifo, Fifo>>}

EqualLists == {<<Config([ack_required |-> TRUE])>>}
=============================================================================

------------------------ MODULE MCModemDriverThread -------------------------
(***************************************************************************)
(* Instances of ModemDriverThread for TLC.                                 *)
(***************************************************************************)
EXTENDS ModemDriverThread

CONSTANTS m1, m2, s1, s2

\* A DynamicBufferConfig with the given fields set.
Config(set) ==
    [f \in ConfigFields |-> IF f \in DOMAIN set THEN set[f] ELSE Unset]

MCDefaultConfig ==
    [ack_required |-> FALSE, blackout_time |-> 0, max_queue |-> 2,
     newest_first |-> TRUE, ttl |-> Fraction(1, 1), value_base |-> Fraction(1, 1)]

MCDataSize == [d \in Data |-> 1]
OneBuffer == [m \in Messages |-> "pose"]

Acked_ == Config([ack_required |-> TRUE])
Shallow == Config([max_queue |-> 1])
Deep == Config([max_queue |-> 2])

AckPublisher == [m \in Messages |-> Acked_]
DeepPublisher == [m \in Messages |-> Deep]
TwoPublishers == [m \in Messages |-> IF m = m1 THEN Acked_ ELSE Shallow]

OneSubscriber == {Shallow}
TwoSubscribers == {Shallow, Acked_}

\* Room for two subscriptions of this vehicle, or for one.
MCSubscriptionCfg == Config([ack_required |-> TRUE, value_base |-> Fraction(1, 0)])
FullSubscriptionCfg ==
    Config([ack_required |-> TRUE, value_base |-> Fraction(1, 0), max_queue |-> 1])
=============================================================================

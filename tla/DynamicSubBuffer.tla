-------------------------- MODULE DynamicSubBuffer --------------------------
(***************************************************************************)
(* goby::acomms::DynamicSubBuffer (src/src/acomms/buffer/dynamic_buffer.h) *)
(* as a value and the operators on it: the time-dependent priority queue   *)
(* of the messages of one group for one destination.                       *)
(*                                                                         *)
(* A sub-buffer is [cfg, data, last_access]:                               *)
(*   cfg          the merged configuration cfg_;                           *)
(*   data         the deque data_, its front first; an element is          *)
(*                [last_send, push_time, data];                            *)
(*   last_access  last_access_, an integer: update() moves it backwards.   *)
(*                                                                         *)
(* Times are whole clock ticks.  Averages (ttl, value_base) are kept as    *)
(* exact fractions [num, den]; den = 0 is the floating-point infinity that *)
(* the driver thread gives to subscription sub-buffers.                    *)
(***************************************************************************)
EXTENDS Integers, Sequences, SequencesExt

CONSTANTS
    Data,           \* the payloads
    DataSize,       \* data_size(): [Data -> Nat], bytes
    Unset,          \* an optional field of DynamicBufferConfig that is absent
    DefaultConfig   \* the defaults of buffer.proto, every field set

ZeroPoint == 0      \* zero_point_: the clock reads more than this at start-up

ConfigFields ==
    {"ack_required", "blackout_time", "max_queue", "newest_first", "ttl",
     "value_base"}

(***************************************************************************)
(* update(cfgs): the merge rules, field by field, over the configurations  *)
(* that set the field.                                                     *)
(***************************************************************************)
Fraction(num, den) == [num |-> num, den |-> den]

Setters(cfgs, field) == {i \in DOMAIN cfgs : cfgs[i][field] # Unset}

MergeField(cfgs, field, merge(_)) ==
    IF Setters(cfgs, field) = {} THEN DefaultConfig[field]
    ELSE merge(Setters(cfgs, field))

Average(cfgs, field) ==
    LET set == Setters(cfgs, field)
    IN  IF set = {} THEN DefaultConfig[field]
        ELSE IF \E i \in set : cfgs[i][field].den = 0 THEN Fraction(1, 0)
        ELSE Fraction(MapThenSumSet(LAMBDA i : cfgs[i][field].num, set),
                      Cardinality(set))

MergeConfigs(cfgs) ==
    [ack_required  |-> MergeField(cfgs, "ack_required",
                           LAMBDA S : \E i \in S : cfgs[i].ack_required),
     blackout_time |-> MergeField(cfgs, "blackout_time",
                           LAMBDA S : Min({cfgs[i].blackout_time : i \in S})),
     max_queue     |-> MergeField(cfgs, "max_queue",
                           LAMBDA S : Max({cfgs[i].max_queue : i \in S})),
     newest_first  |-> MergeField(cfgs, "newest_first",
                           LAMBDA S : \E i \in S : cfgs[i].newest_first),
     ttl           |-> Average(cfgs, "ttl"),
     value_base    |-> Average(cfgs, "value_base")]

\* update(): the data stay as they are; last_access_ moves back by one
\* blackout time on every call, "avoid first access being in blackout".
UpdateSub(s, cfgs) ==
    LET cfg == MergeConfigs(cfgs)
    IN  [s EXCEPT !.cfg = cfg, !.last_access = @ - cfg.blackout_time]

\* The constructor: last_access_ is the time of construction, then update().
NewSub(cfgs, now) ==
    UpdateSub([cfg |-> DefaultConfig, data |-> <<>>, last_access |-> now], cfgs)

(***************************************************************************)
(* top(), top_size(), all_waiting_for_ack(), in_blackout(), top_value().   *)
(***************************************************************************)
\* Mutant: resends when exactly ack_timeout has passed.
Sendable_Early(datum, now, ack_timeout) ==
    datum.last_send = ZeroPoint \/ datum.last_send + ack_timeout <= now

Sendable(datum, now, ack_timeout) ==
    datum.last_send = ZeroPoint \/ datum.last_send + ack_timeout < now

all_waiting_for_ack(s, now, ack_timeout) ==
    \A i \in DOMAIN s.data : ~ Sendable(s.data[i], now, ack_timeout)

\* The datum top() returns, for a sub-buffer that has one to send.
TopIndex(s, now, ack_timeout) ==
    Min({i \in DOMAIN s.data : Sendable(s.data[i], now, ack_timeout)})

\* Mutant: the end of the blackout is taken as outside it.
in_blackout_Exclusive(s, now) == now < s.last_access + s.cfg.blackout_time

in_blackout(s, now) == now <= s.last_access + s.cfg.blackout_time

\* ValueResult of top_value(): the order of the tests matters.
ValueResult(s, now, max_bytes, ack_timeout) ==
    CASE s.data = <<>> -> "EMPTY"
      [] s.data # <<>> /\ in_blackout(s, now) -> "IN_BLACKOUT"
      [] s.data # <<>> /\ ~ in_blackout(s, now)
         /\ all_waiting_for_ack(s, now, ack_timeout)
            -> "ALL_MESSAGES_WAITING_FOR_ACK"
      [] OTHER ->
            IF DataSize[s.data[TopIndex(s, now, ack_timeout)].data] > max_bytes
            THEN "NEXT_MESSAGE_TOO_LARGE" ELSE "VALUE_PROVIDED"

\* The number top_value() returns when it provides one: v_b * dt / ttl.
TopValue(s, now) ==
    Fraction(s.cfg.value_base.num * (now - s.last_access) * s.cfg.ttl.den,
             s.cfg.value_base.den * s.cfg.ttl.num)

Greater(a, b) == a.num * b.den > b.num * a.den

\* Mutant: the access time of the sub-buffer is not refreshed.
TopSub_NoAccess(s, now, ack_timeout) ==
    [s EXCEPT !.data[TopIndex(s, now, ack_timeout)].last_send = now]
\* Mutant: the time of the next attempt is stored in place of the last.
TopSub_Deadline(s, now, ack_timeout) ==
    [s EXCEPT !.data[TopIndex(s, now, ack_timeout)].last_send = now + ack_timeout + 1,
              !.last_access = now]

\* top() marks the datum and the sub-buffer as accessed now.
TopSub(s, now, ack_timeout) ==
    [s EXCEPT !.data[TopIndex(s, now, ack_timeout)].last_send = now,
              !.last_access = now]

(***************************************************************************)
(* push(), expire(), erase(): the sub-buffer left behind, and what the     *)
(* call returns.                                                           *)
(***************************************************************************)
Datum(t, now) == [last_send |-> ZeroPoint, push_time |-> now, data |-> t]

Pushed(s, t, now) ==
    IF s.cfg.newest_first THEN <<Datum(t, now)>> \o s.data
                          ELSE Append(s.data, Datum(t, now))

\* However the queue is ordered, overflow is taken from the back.
PushSub(s, t, now) ==
    LET all == Pushed(s, t, now)
    IN  [s EXCEPT !.data =
            IF Len(all) > s.cfg.max_queue
            THEN SubSeq(all, 1, s.cfg.max_queue) ELSE all]

\* Mutant: the first datum beyond max_queue is popped but not returned.
Exceeded_ButFirst(s, t, now) ==
    LET all == Pushed(s, t, now)
    IN  SubSeq(all, s.cfg.max_queue + 2, Len(all))

Exceeded(s, t, now) ==
    LET all == Pushed(s, t, now)
    IN  SubSeq(all, s.cfg.max_queue + 1, Len(all))

PastTtl(s, datum, now) ==
    (now - datum.push_time) * s.cfg.ttl.den > s.cfg.ttl.num

\* Mutant: expires from the other end.
ExpireSub_WrongEnd(s, now) ==
    LET live == {i \in DOMAIN s.data : ~ PastTtl(s, s.data[i], now)}
    IN  [s EXCEPT !.data =
            IF ~ s.cfg.newest_first
            THEN SubSeq(s.data, 1, Max({0} \cup live))
            ELSE SubSeq(s.data, Min({Len(s.data) + 1} \cup live), Len(s.data))]

\* Expire from the end where the oldest datum is, up to the first live one.
ExpireSub(s, now) ==
    LET live == {i \in DOMAIN s.data : ~ PastTtl(s, s.data[i], now)}
    IN  [s EXCEPT !.data =
            IF s.cfg.newest_first
            THEN SubSeq(s.data, 1, Max({0} \cup live))
            ELSE SubSeq(s.data, Min({Len(s.data) + 1} \cup live), Len(s.data))]

Expired(s, now) ==
    {d \in Range(s.data) : d \notin Range(ExpireSub(s, now).data)}

SameValue(datum, value) ==
    datum.push_time = value.push_time /\ datum.data = value.data

\* Mutant: the two orders are confused.
StopLooking_Swapped(s, datum, value) ==
    IF s.cfg.newest_first THEN datum.push_time > value.push_time
                          ELSE datum.push_time < value.push_time

\* "we're not going to find it so stop looking"
StopLooking(s, datum, value) ==
    IF s.cfg.newest_first THEN datum.push_time < value.push_time
                          ELSE datum.push_time > value.push_time

\* The positions at which the scan of erase() meets the value.
EraseHits(s, value) ==
    {i \in DOMAIN s.data :
        /\ SameValue(s.data[i], value)
        /\ \A j \in 1..(i - 1) : ~ SameValue(s.data[j], value)
                                 /\ ~ StopLooking(s, s.data[j], value)}

\* Mutant: the value is found and left in the deque.
EraseSub_Keeps(s, value) == s

EraseSub(s, value) ==
    LET hits == EraseHits(s, value)
    IN  IF hits = {} THEN s
        ELSE [s EXCEPT !.data = RemoveAt(@, CHOOSE i \in hits : TRUE)]

(***************************************************************************)
(* DynamicBuffer::top(): the contest among the sub-buffers of a map        *)
(* (destination, sub-buffer id) -> sub-buffer whose keys are in scope.     *)
(* The first strictly greatest value wins: destinations are visited in     *)
(* order (std::map), the sub-buffers of one of them in any order           *)
(* (std::unordered_map).                                                   *)
(***************************************************************************)
Contestants(sub, scope, now, max_bytes, ack_timeout) ==
    {k \in scope \cap DOMAIN sub :
        ValueResult(sub[k], now, max_bytes, ack_timeout) = "VALUE_PROVIDED"}

Winners(sub, scope, now, max_bytes, ack_timeout) ==
    LET in == Contestants(sub, scope, now, max_bytes, ack_timeout)
        best == {k \in in : \A j \in in :
                    ~ Greater(TopValue(sub[j], now), TopValue(sub[k], now))}
    IN  {k \in best : \A j \in best : k[1] <= j[1]}

\* Maps with a changing domain.
Put(f, k, v) == [x \in DOMAIN f \cup {k} |-> IF x = k THEN v ELSE f[x]]
Without(f, S) == [x \in DOMAIN f \ S |-> f[x]]
=============================================================================

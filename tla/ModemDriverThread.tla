------------------------- MODULE ModemDriverThread --------------------------
(***************************************************************************)
(* goby::middleware::intervehicle::ModemDriverThread                       *)
(* (src/src/middleware/transport/intervehicle/driver_thread.cpp): the      *)
(* thread that buffers the publications of one link by subscriber, fills   *)
(* the modem's frames from the buffer and matches the acks; with the       *)
(* goby::acomms::UDPDriver under it, a medium that loses, delays, reorders *)
(* and duplicates, and the drivers of the peers.                           *)
(*                                                                         *)
(* The thread runs one handler at a time: the publication handlers between *)
(* two calls of loop(); in loop() the expiry, then the driver (which hands *)
(* received packets to _receive()), then the MAC (whose slot makes the     *)
(* driver call _data_request()).  The MAC is any sequence of slots.  The   *)
(* clock advances between any two steps, so also between two top() calls   *)
(* of one data request.                                                    *)
(***************************************************************************)
EXTENDS DynamicSubBuffer, FiniteSets

CONSTANTS
    ModemId,          \* cfg().modem_id(), also the driver's
    SubnetSize,       \* 2^w for the subnet mask that clears the low w bits
    Dests,            \* the ids that subscriptions come from or go to
    BufferIds,        \* the buffer ids (DCCL id and group) of publications
    SubscriptionKey,  \* the buffer id of forwarded subscriptions
    Messages,         \* publications: the data that are not subscriptions
    BufferOf,         \* [Messages -> BufferIds]
    PublisherCfg,     \* [Messages -> the publisher's DynamicBufferConfig]
    SubscriberCfgs,   \* the configurations subscribers send
    SubscriptionCfg,  \* cfg().subscription_buffer() with ack_required and
                      \* value_base filled in by _forward_subscription()
    AckTimeout,       \* cfg().ack_timeout()
    MaxFrameBytes,    \* the driver's max_frame_size
    SlotFrames,       \* the values of max_num_frames the MAC's slots have
    SlotDests,        \* the dest of the MAC's slots; Query for none
    Query,            \* QUERY_DESTINATION_ID
    MaxTime,          \* bound: the clock stops here
    LastPublish,      \* bound: nothing is published after this time
    MaxFrame,         \* bound: on the frame numbers used
    MaxChanges,       \* bound: on the subscription changes received
    MaxRestarts       \* bound: on the restarts of the process

_broadcast_id == ModemId - (ModemId % SubnetSize)
_id_within_subnet(id) == id - _broadcast_id
_full_id(id) == id + _broadcast_id
_dest_is_in_subnet(id) == id - (id % SubnetSize) = _broadcast_id

Forwards == Data \ Messages        \* the subscriptions this vehicle makes
Peers == {d \in Dests : _dest_is_in_subnet(d) /\ d # _broadcast_id}

ASSUME ModemDriverAssumption ==
    /\ ModemId \in Nat /\ SubnetSize \in Nat \ {0}
    /\ Dests \subseteq Nat
    /\ Query \notin Dests
    /\ SubscriptionKey \notin BufferIds
    /\ Messages \subseteq Data
    /\ BufferOf \in [Messages -> BufferIds]
    /\ SlotFrames \subseteq Nat \ {0}
    /\ MaxTime \in Nat \ {0} /\ LastPublish \in Nat /\ MaxFrame \in Nat

ASSUME BufferConfigAssumption ==
    /\ DataSize \in [Data -> Nat] /\ MaxFrameBytes \in Nat
    /\ DefaultConfig["max_queue"] \in Nat /\ DefaultConfig["blackout_time"] \in Nat
    /\ \A c \in SubscriberCfgs \cup {PublisherCfg[m] : m \in Messages} \cup {SubscriptionCfg} :
          /\ c["max_queue"] = Unset \/ c["max_queue"] \in Nat
          /\ c["blackout_time"] = Unset \/ c["blackout_time"] \in Nat

VARIABLES
    publisher_buffer_cfg_,     \* buffer id -> the publishers' configurations
    subscriber_buffer_cfg_,    \* dest -> buffer id -> its configurations
    subbuffers_created_,       \* buffer id -> the dests with a sub-buffer
    subscription_subbuffers_,  \* the dests with a subscription sub-buffer
    buffer_,                   \* (dest, buffer id) -> sub-buffer
    pending_ack_,              \* frame -> the values sent in it, to be acked
    acking,                    \* frame of the ack being processed -> its full_src
    loaded,                    \* the types whose DCCL metadata are loaded
    next_frame_,               \* the driver's next frame number
    thread,                    \* which part of the thread is running
    request,                   \* the data request being filled
    now,                       \* SteadyClock::now()
    air,                       \* every packet ever sent: any may arrive, late,
                               \* again, or never
    received,                  \* peer -> what it has received
    seen                       \* history: what was published to and by the
                               \* thread, see Init

config == <<publisher_buffer_cfg_, subscriber_buffer_cfg_, subbuffers_created_,
            subscription_subbuffers_, loaded>>
vars == <<config, buffer_, pending_ack_, acking, next_frame_, thread, request, now, air,
          received, seen>>

Value(key, datum) == [key |-> key, push_time |-> datum.push_time, data |-> datum.data]
NoRequest == [start |-> 0, frame |-> 0, last |-> 0, dest |-> Query, room |-> 0,
              frames |-> <<>>, ack |-> FALSE]

Init ==
    /\ publisher_buffer_cfg_ = [b \in BufferIds |-> <<>>]
    /\ subscriber_buffer_cfg_ = [d \in Dests |-> [b \in BufferIds |-> {}]]
    /\ subbuffers_created_ = [b \in BufferIds |-> {}]
    /\ subscription_subbuffers_ = {}
    /\ buffer_ = <<>>
    /\ pending_ack_ = <<>>
    /\ acking = <<>>
    /\ loaded = {}
    /\ next_frame_ = 0
    /\ thread = "idle"
    /\ request = NoRequest
    /\ now = ZeroPoint + 1
    /\ air = {}
    /\ received = [p \in Peers |-> {}]
    /\ seen = [published |-> {},  \* the data handed to the thread
               pushed    |-> {},  \* (dest, datum) put in the buffer
               acked     |-> {},  \* (dest, datum, header.src) of modem_ack_in
               expired   |-> {},  \* (dest, datum, reason) of modem_expire_in
               dropped   |-> {},  \* (dest, datum) lost with its sub-buffer
               overrun   |-> {},  \* (dest, datum) pushed out of the subscriptions
               fired     |-> {},  \* (dest, datum) erased when put in a frame
               unsent    |-> {},  \* (dest, datum) of requests that sent nothing
               changes   |-> 0,   \* subscription changes accepted
               restarts  |-> 0]

-----------------------------------------------------------------------------
(***************************************************************************)
(* Subscriptions and publications.                                         *)
(***************************************************************************)
Cfgs(d, b, subs, pubs) == SetToSeq(subs[d][b]) \o pubs[b]

\* _try_create_or_update_buffer() for each (dest, buffer id) of touched, once
\* the configurations are subs and pubs: those with a publisher and a
\* subscriber get a sub-buffer, or have theirs updated.
Ready(touched, subs, pubs) ==
    {k \in touched : subs[k[1]][k[2]] # {} /\ pubs[k[2]] # <<>>}

Reconfigured(touched, subs, pubs) ==
    LET ready == Ready(touched, subs, pubs)
    IN  [k \in DOMAIN buffer_ \cup ready |->
            IF k \notin ready THEN buffer_[k]
            ELSE IF k \in DOMAIN buffer_
                 THEN UpdateSub(buffer_[k], Cfgs(k[1], k[2], subs, pubs))
                 ELSE NewSub(Cfgs(k[1], k[2], subs, pubs), now)]

\* Mutant: a sub-buffer is created without being recorded.
NowCreated_Unrecorded(touched, subs, pubs) == subbuffers_created_

NowCreated(touched, subs, pubs) ==
    [b \in BufferIds |-> subbuffers_created_[b]
        \cup {d \in Dests : <<d, b>> \in Ready(touched, subs, pubs)}]

\* create() throws when the sub-buffer exists without being recorded as created.
CreateThrows(touched, subs, pubs) ==
    \E k \in Ready(touched, subs, pubs) :
        k[1] \notin subbuffers_created_[k[2]] /\ k \in DOMAIN buffer_

\* The rest of _accept_subscription() when a subscriber remains.
SubscribersBecome(d, b, subs) ==
    LET touched == {<<d, b>>}
    IN  /\ subscriber_buffer_cfg_' = subs
        /\ buffer_' = Reconfigured(touched, subs, publisher_buffer_cfg_)
        /\ subbuffers_created_' = NowCreated(touched, subs, publisher_buffer_cfg_)
        /\ thread' = IF CreateThrows(touched, subs, publisher_buffer_cfg_)
                     THEN "create threw" ELSE "idle"
        /\ seen' = [seen EXCEPT !.changes = @ + 1]
        /\ UNCHANGED <<publisher_buffer_cfg_, subscription_subbuffers_, loaded,
                       pending_ack_, acking, next_frame_, request, now, air, received>>

\* A repeated SUBSCRIBE, an UNSUBSCRIBE of what is not subscribed, and a change
\* of another api_version or from outside of the subnet, change nothing; the
\* subscription report that follows is not modelled.
_accept_subscribe(d, b, cfg) ==
    /\ thread = "idle"
    /\ _dest_is_in_subnet(d)
    /\ cfg \notin subscriber_buffer_cfg_[d][b]
    /\ seen.changes < MaxChanges
    /\ SubscribersBecome(d, b,
          [subscriber_buffer_cfg_ EXCEPT ![d][b] = @ \cup {cfg}])

\* UNSUBSCRIBE while another subscriber of the destination remains.
_accept_unsubscribe(d, b, cfg) ==
    /\ thread = "idle"
    /\ _dest_is_in_subnet(d)
    /\ cfg \in subscriber_buffer_cfg_[d][b]
    /\ subscriber_buffer_cfg_[d][b] # {cfg}
    /\ seen.changes < MaxChanges
    /\ SubscribersBecome(d, b,
          [subscriber_buffer_cfg_ EXCEPT ![d][b] = @ \ {cfg}])

\* UNSUBSCRIBE of the last one: "No more subscribers, removing buffer".
_accept_last_unsubscribe(d, b, cfg) ==
    LET key == <<d, b>>
    IN  /\ thread = "idle"
        /\ _dest_is_in_subnet(d)
        /\ subscriber_buffer_cfg_[d][b] = {cfg}
        /\ seen.changes < MaxChanges
        /\ subscriber_buffer_cfg_' = [subscriber_buffer_cfg_ EXCEPT ![d][b] = {}]
        /\ subbuffers_created_' = [subbuffers_created_ EXCEPT ![b] = @ \ {d}]
        /\ buffer_' = Without(buffer_, {key})
        /\ seen' = [seen EXCEPT !.changes = @ + 1,
                      !.dropped = @ \cup IF key \in DOMAIN buffer_
                          THEN {<<d, x.data>> : x \in Range(buffer_[key].data)}
                          ELSE {}]
        /\ UNCHANGED <<publisher_buffer_cfg_, subscription_subbuffers_, loaded,
                       pending_ack_, acking, next_frame_, thread, request, now, air,
                       received>>

\* Only the first publisher configuration is compared: the loop breaks after it.
IsNewCfg(b, cfg) ==
    publisher_buffer_cfg_[b] = <<>> \/ publisher_buffer_cfg_[b][1] # cfg

\* _buffer_message() without the message's DCCL type: it asks for the metadata
\* and omits the message.
_buffer_message_omit(m) ==
    /\ thread = "idle"
    /\ m \in Messages \ seen.published /\ now <= LastPublish
    /\ BufferOf[m] \notin loaded
    /\ seen' = [seen EXCEPT !.published = @ \cup {m}]
    /\ UNCHANGED <<config, buffer_, pending_ack_, acking, next_frame_, thread, request,
                   now, air, received>>

_buffer_message(m, has_metadata) ==
    LET b == BufferOf[m]
        new == IsNewCfg(b, PublisherCfg[m])
        pubs == IF new THEN [publisher_buffer_cfg_ EXCEPT
                                ![b] = Append(@, PublisherCfg[m])]
                ELSE publisher_buffer_cfg_
        touched == IF new THEN Dests \X {b} ELSE {}
        configured == Reconfigured(touched, subscriber_buffer_cfg_, pubs)
        created == NowCreated(touched, subscriber_buffer_cfg_, pubs)
        to == {<<d, b>> : d \in {x \in created[b] : _dest_is_in_subnet(x)}}
        over == UNION {{<<k[1], x.data, "overflow">> :
                           x \in Range(Exceeded(configured[k], m, now))} :
                           k \in to \cap DOMAIN configured}
    IN  /\ thread = "idle"
        /\ m \in Messages \ seen.published /\ now <= LastPublish
        /\ has_metadata \/ b \in loaded
        /\ loaded' = loaded \cup {b}
        /\ publisher_buffer_cfg_' = pubs
        /\ subbuffers_created_' = created
        /\ buffer_' = [k \in DOMAIN configured |->
                          IF k \in to THEN PushSub(configured[k], m, now)
                          ELSE configured[k]]
        /\ thread' = IF CreateThrows(touched, subscriber_buffer_cfg_, pubs)
                     THEN "create threw"
                     ELSE IF to \subseteq DOMAIN configured THEN "idle"
                     ELSE "push threw"
        /\ seen' = [seen EXCEPT
              !.published = @ \cup {m},
              !.pushed = @ \cup {<<k[1], m>> : k \in to},
              !.expired = @ \cup IF created[b] # {} THEN over
                                 ELSE {<<ModemId, m, "no subscribers">>}]
        /\ UNCHANGED <<subscriber_buffer_cfg_, subscription_subbuffers_,
                       pending_ack_, acking, next_frame_, request, now, air, received>>

\* Mutant: the sub-buffers made for subscriptions are not recorded.
_forward_subscription_Unrecorded(m, dests) ==
    LET to == {<<d, SubscriptionKey>> : d \in {x \in dests : _dest_is_in_subnet(x)}}
    IN  /\ thread = "idle"
        /\ m \in Forwards \ seen.published /\ now <= LastPublish
        /\ buffer_' = [k \in DOMAIN buffer_ \cup to |->
                IF k \in to THEN PushSub(NewSub(<<SubscriptionCfg>>, now), m, now)
                ELSE buffer_[k]]
        /\ seen' = [seen EXCEPT !.published = @ \cup {m}]
        /\ UNCHANGED <<config, pending_ack_, acking, next_frame_, thread, request, now,
                       air, received>>

\* The result of push() is ignored: what overflows here is not reported.
_forward_subscription(m, dests) ==
    LET to == {<<d, SubscriptionKey>> : d \in {x \in dests : _dest_is_in_subnet(x)}}
        Sub(k) == IF k[1] \in subscription_subbuffers_ THEN buffer_[k]
                  ELSE NewSub(<<SubscriptionCfg>>, now)
    IN  /\ thread = "idle"
        /\ m \in Forwards \ seen.published /\ now <= LastPublish
        /\ buffer_' = [k \in DOMAIN buffer_ \cup to |->
                          IF k \in to THEN PushSub(Sub(k), m, now) ELSE buffer_[k]]
        /\ subscription_subbuffers_' = subscription_subbuffers_ \cup {k[1] : k \in to}
        /\ thread' = IF \E k \in to : k[1] \notin subscription_subbuffers_
                                      /\ k \in DOMAIN buffer_
                     THEN "create threw" ELSE "idle"
        /\ seen' = [seen EXCEPT
              !.published = @ \cup {m},
              !.pushed = @ \cup {<<k[1], m>> : k \in to},
              !.overrun = @ \cup UNION {{<<k[1], x.data>> :
                                 x \in Range(Exceeded(Sub(k), m, now))} : k \in to}]
        /\ UNCHANGED <<publisher_buffer_cfg_, subscriber_buffer_cfg_,
                       subbuffers_created_, loaded, pending_ack_, acking, next_frame_,
                       request, now, air, received>>

-----------------------------------------------------------------------------
(***************************************************************************)
(* loop(): expire, driver_->do_work(), mac_.do_work().  The modem report   *)
(* at its end is not modelled.                                             *)
(***************************************************************************)
\* Mutant: what expires is not reported.
LoopExpire_Unreported ==
    /\ thread = "idle"
    /\ thread' = "driver"
    /\ buffer_' = [k \in DOMAIN buffer_ |-> ExpireSub(buffer_[k], now)]
    /\ UNCHANGED <<config, pending_ack_, acking, next_frame_, request, now, air,
                   received, seen>>

\* Mutant: loop() goes straight to the driver.
LoopExpire_Skipped ==
    /\ thread = "idle"
    /\ thread' = "driver"
    /\ UNCHANGED <<config, buffer_, pending_ack_, acking, next_frame_, request, now,
                   air, received, seen>>

LoopExpire ==
    /\ thread = "idle"
    /\ thread' = "driver"
    /\ buffer_' = [k \in DOMAIN buffer_ |-> ExpireSub(buffer_[k], now)]
    /\ seen' = [seen EXCEPT !.expired = @ \cup
                  UNION {{<<k[1], x.data, "ttl">> : x \in Expired(buffer_[k], now)} :
                             k \in DOMAIN buffer_}]
    /\ UNCHANGED <<config, pending_ack_, acking, next_frame_, request, now, air, received>>

\* _receive() of an ACK for this vehicle (packets carry ids within the subnet)
\* that acks frames we expect an ack for.
_receive_ack(p) ==
    /\ thread = "driver"
    /\ p \in air /\ p.type = "ACK"
    /\ _full_id(p.dest) = ModemId
    /\ p.acked \cap DOMAIN pending_ack_ # {}
    /\ thread' = "ack"
    /\ acking' = [f \in p.acked \cap DOMAIN pending_ack_ |-> _full_id(p.src)]
    /\ UNCHANGED <<config, buffer_, pending_ack_, next_frame_, request, now, air,
                   received, seen>>

\* The loop over the frames and their values: one value is reported as acked by
\* the source of the ack, then erased; after the last one of a frame its entry is
\* erased.
AckValue(f) ==
    LET value == Head(pending_ack_[f])
        done == Len(pending_ack_[f]) = 1
    IN  /\ thread = "ack"
        /\ f \in DOMAIN acking /\ \A g \in DOMAIN acking : f <= g
        /\ value.key \in DOMAIN buffer_
        /\ buffer_' = [buffer_ EXCEPT ![value.key] = EraseSub(@, value)]
        /\ seen' = [seen EXCEPT !.acked = @ \cup {<<value.key[1], value.data, acking[f]>>}]
        /\ pending_ack_' = IF done THEN Without(pending_ack_, {f})
                           ELSE [pending_ack_ EXCEPT ![f] = Tail(@)]
        /\ acking' = IF done THEN Without(acking, {f}) ELSE acking
        /\ thread' = IF done /\ DOMAIN acking = {f} THEN "driver" ELSE "ack"
        /\ UNCHANGED <<config, next_frame_, request, now, air, received>>

\* erase() throws when the value's sub-buffer is gone; nothing catches it, and
\* the thread ends.
AckValueThrows(f) ==
    LET value == Head(pending_ack_[f])
    IN  /\ thread = "ack"
        /\ f \in DOMAIN acking /\ \A g \in DOMAIN acking : f <= g
        /\ value.key \notin DOMAIN buffer_
        /\ thread' = "erase threw"
        /\ seen' = [seen EXCEPT !.acked = @ \cup {<<value.key[1], value.data, acking[f]>>}]
        /\ UNCHANGED <<config, buffer_, pending_ack_, acking, next_frame_, request,
                       now, air, received>>

\* mac_.do_work() between slots.
MacIdle ==
    /\ thread = "driver"
    /\ thread' = "idle"
    /\ UNCHANGED <<config, buffer_, pending_ack_, acking, next_frame_, request, now, air,
                   received, seen>>

\* mac_.do_work() at the start of our slot: the driver numbers the frames from
\* next_frame_ and calls _data_request(), which first erases "any pending acks
\* with greater frame numbers".
_data_request(n, dest) ==
    LET last == next_frame_ + n - 1
    IN  /\ thread = "driver"
        /\ last <= MaxFrame
        /\ thread' = "request"
        /\ pending_ack_' = Without(pending_ack_,
                              {f \in DOMAIN pending_ack_ : f >= next_frame_})
        /\ request' = [start |-> next_frame_, frame |-> next_frame_, last |-> last,
                       dest |-> dest, room |-> MaxFrameBytes,
                       frames |-> [f \in next_frame_..last |-> {}], ack |-> FALSE]
        /\ UNCHANGED <<config, buffer_, acking, next_frame_, now, air, received, seen>>

RequestWinners ==
    Winners(buffer_,
            {k \in DOMAIN buffer_ : request.dest = Query \/ k[1] = request.dest},
            now, request.room, AckTimeout)

\* One turn of the loop that fills a frame: the winner of the contest is put
\* in the frame; it stays in the buffer only if an ack is required.
RequestTop(key) ==
    LET sub == TopSub(buffer_[key], now, AckTimeout)
        value == Value(key, buffer_[key].data[TopIndex(buffer_[key], now, AckTimeout)])
        ack == sub.cfg.ack_required
        f == request.frame
    IN  /\ thread = "request" /\ f <= request.last /\ request.room > 0
        /\ key \in RequestWinners
        /\ buffer_' = [buffer_ EXCEPT ![key] = IF ack THEN sub ELSE EraseSub(sub, value)]
        /\ pending_ack_' = IF ~ ack THEN pending_ack_
              ELSE Put(pending_ack_, f, IF f \in DOMAIN pending_ack_
                                        THEN Append(pending_ack_[f], value)
                                        ELSE <<value>>)
        /\ request' = [request EXCEPT !.dest = key[1],
                          !.room = @ - DataSize[value.data],
                          !.frames[f] = @ \cup {value.data},
                          !.ack = @ \/ ack]
        /\ seen' = [seen EXCEPT !.fired = IF ack THEN @
                                          ELSE @ \cup {<<key[1], value.data>>}]
        /\ UNCHANGED <<config, acking, next_frame_, thread, now, air, received>>

\* Mutant: the loop over the frames does not end.
RequestNextFrame_Unbounded ==
    /\ thread = "request"
    /\ request.room = 0 \/ RequestWinners = {}
    /\ request' = [request EXCEPT !.frame = @ + 1, !.room = MaxFrameBytes]
    /\ UNCHANGED <<config, buffer_, pending_ack_, acking, next_frame_, thread, now, air,
                   received, seen>>

\* The frame is full, or the contest has no winner (NoDataException).
RequestNextFrame ==
    /\ thread = "request" /\ request.frame <= request.last
    /\ request.room = 0 \/ RequestWinners = {}
    /\ request' = [request EXCEPT !.frame = @ + 1, !.room = MaxFrameBytes]
    /\ UNCHANGED <<config, buffer_, pending_ack_, acking, next_frame_, thread, now, air,
                   received, seen>>

Packet(r) ==
    [type |-> "DATA", src |-> _id_within_subnet(ModemId),
     dest |-> _id_within_subnet(r.dest), frames |-> r.frames, ack |-> r.ack]

\* What is lost when a request ends: nothing is sent if its first frame is empty,
\* whatever the others hold.
Stranded(r) ==
    IF r.frames[r.start] = {} THEN {<<r.dest, m>> : m \in UNION Range(r.frames)} ELSE {}

\* Mutant: frame numbers are used again.
RequestDone_SameFrames ==
    /\ thread = "request" /\ request.frame > request.last
    /\ thread' = "idle"
    /\ air' = IF request.frames[request.start] = {} THEN air
              ELSE air \cup {Packet(request)}
    /\ request' = NoRequest
    /\ seen' = [seen EXCEPT !.unsent = @ \cup Stranded(request)]
    /\ UNCHANGED <<config, buffer_, pending_ack_, acking, next_frame_, now, received>>

\* _data_request() returns to handle_initiate_transmission(): nothing is sent
\* when the first frame is empty.
RequestDone ==
    /\ thread = "request" /\ request.frame > request.last
    /\ thread' = "idle"
    /\ next_frame_' = request.last + 1
    /\ air' = IF request.frames[request.start] = {} THEN air
              ELSE air \cup {Packet(request)}
    /\ request' = NoRequest
    /\ seen' = [seen EXCEPT !.unsent = @ \cup Stranded(request)]
    /\ UNCHANGED <<config, buffer_, pending_ack_, acking, now, received>>

-----------------------------------------------------------------------------
(***************************************************************************)
(* The driver of peer d gets a packet: UDPDriver::receive_message() acks   *)
(* it and hands it to the peer's _receive(), which publishes each frame    *)
(* that it can unpack.  received is what the peer's _receive() is given.   *)
(***************************************************************************)
Contents(p) == UNION Range(p.frames)

receive_message(d, p) ==
    /\ p \in air /\ p.type = "DATA"
    /\ p.dest \in {_id_within_subnet(d), _id_within_subnet(_broadcast_id)}
    /\ air' = IF p.ack /\ p.dest = _id_within_subnet(d)
              THEN air \cup {[type |-> "ACK", src |-> p.dest, dest |-> p.src,
                              acked |-> DOMAIN p.frames]}
              ELSE air
    /\ received' = [received EXCEPT ![d] = @ \cup Contents(p)]
    /\ UNCHANGED <<config, buffer_, pending_ack_, acking, next_frame_, thread, request,
                   now, seen>>

Tick ==
    /\ now < MaxTime
    /\ now' = now + 1
    /\ UNCHANGED <<config, buffer_, pending_ack_, acking, next_frame_, thread, request,
                   air, received, seen>>

\* The process ends, for any reason, and is started again: the buffer, the
\* subscriptions and the frame numbers are gone, the packets sent are not.
Restart ==
    /\ seen.restarts < MaxRestarts
    /\ publisher_buffer_cfg_' = [b \in BufferIds |-> <<>>]
    /\ subscriber_buffer_cfg_' = [d \in Dests |-> [b \in BufferIds |-> {}]]
    /\ subbuffers_created_' = [b \in BufferIds |-> {}]
    /\ subscription_subbuffers_' = {}
    /\ buffer_' = <<>>
    /\ pending_ack_' = <<>>
    /\ acking' = <<>>
    /\ loaded' = {}
    /\ next_frame_' = 0
    /\ thread' = "idle"
    /\ request' = NoRequest
    /\ seen' = [seen EXCEPT !.restarts = @ + 1, !.pushed = {}, !.dropped = {},
                            !.overrun = {}, !.fired = {}, !.unsent = {}]
    /\ UNCHANGED <<now, air, received>>

Handle ==
    \/ \E d \in Dests, b \in BufferIds, cfg \in SubscriberCfgs :
          \/ _accept_subscribe(d, b, cfg)
          \/ _accept_unsubscribe(d, b, cfg)
          \/ _accept_last_unsubscribe(d, b, cfg)
    \/ \E m \in Messages : _buffer_message_omit(m)
    \/ \E m \in Messages, has_metadata \in BOOLEAN : _buffer_message(m, has_metadata)
    \/ \E m \in Forwards, dests \in SUBSET Dests : _forward_subscription(m, dests)

DataRequest ==
    \/ \E key \in DOMAIN buffer_ : RequestTop(key)
    \/ RequestNextFrame
    \/ RequestDone

Loop ==
    \/ LoopExpire
    \/ \E p \in air : _receive_ack(p)
    \/ \E f \in DOMAIN acking : AckValue(f) \/ AckValueThrows(f)
    \/ MacIdle
    \/ \E n \in SlotFrames, dest \in SlotDests : _data_request(n, dest)
    \/ DataRequest

Next ==
    \/ Handle
    \/ Loop
    \/ \E d \in Peers, p \in air : receive_message(d, p)
    \/ Tick
    \/ Restart

Spec == Init /\ [][Next]_vars

-----------------------------------------------------------------------------
(***************************************************************************)
(* Properties.                                                             *)
(***************************************************************************)
InBuffer(d, m) ==
    \E k \in DOMAIN buffer_ : k[1] = d /\ \E x \in Range(buffer_[k].data) : x.data = m

Transmitted(d, m) ==
    \E p \in air : /\ p.type = "DATA" /\ p.dest = _id_within_subnet(d)
                   /\ m \in Contents(p)

InRequest(d, m) ==
    thread = "request" /\ request.dest = d /\ m \in UNION Range(request.frames)

\* The type of the thread's and the driver's state.  While a data request is
\* filled its frames are numbered from next_frame_.
TypeOK ==
    /\ DOMAIN publisher_buffer_cfg_ = BufferIds
    /\ subscriber_buffer_cfg_ \in [Dests -> [BufferIds -> SUBSET SubscriberCfgs]]
    /\ subbuffers_created_ \in [BufferIds -> SUBSET Dests]
    /\ subscription_subbuffers_ \subseteq Dests
    /\ DOMAIN buffer_ \subseteq Dests \X (BufferIds \cup {SubscriptionKey})
    /\ DOMAIN pending_ack_ \subseteq 0..MaxFrame
    /\ DOMAIN acking \subseteq DOMAIN pending_ack_
    /\ loaded \subseteq BufferIds
    /\ next_frame_ \in 0..(MaxFrame + 1)
    /\ thread \in {"idle", "driver", "ack", "request", "create threw",
                   "push threw", "erase threw"}
    /\ thread = "request" =>
          /\ request.start = next_frame_ /\ request.last \in next_frame_..MaxFrame
          /\ request.frame \in next_frame_..(request.last + 1)
          /\ DOMAIN request.frames = next_frame_..request.last
          /\ request.dest \in Dests \cup SlotDests
    /\ now \in 1..MaxTime
    /\ received \in [Peers -> SUBSET Data]

\* Exactly the destinations with a subscriber, of the buffer ids with a
\* publisher, are recorded as created and have a sub-buffer, whatever the order
\* in which publications, subscriptions and unsubscriptions come; beside them
\* there are the sub-buffers of the forwarded subscriptions.
BuffersMatchSubscriptions ==
    /\ \A b \in BufferIds : subbuffers_created_[b] =
          {d \in Dests : subscriber_buffer_cfg_[d][b] # {} /\ publisher_buffer_cfg_[b] # <<>>}
    /\ DOMAIN buffer_ =
          {k \in Dests \X BufferIds : k[1] \in subbuffers_created_[k[2]]}
          \cup (subscription_subbuffers_ \X {SubscriptionKey})

\* Neither create() nor push() ever throws in the thread.
NoCreateOrPushThrows == thread \notin {"create threw", "push threw"}

\* Nor does erase(), as "create() must be called before using functions that
\* reference this subbuffer ID (e.g. push(...), erase(...))" asks.
NoEraseThrows == thread # "erase threw"

\* When the ack of a value is published, it names as its source the destination
\* of the value, and this destination has received it: no late, repeated or
\* reordered ack is ever taken for another frame's.
AckMeansReceived ==
    \A v \in seen.acked :
        v[1] \in Peers /\ v[2] \in received[v[1]] /\ v[3] = v[1]

\* What is put in the buffer stays there until its ack is published, its expiry
\* is published, its destination unsubscribes or, when no ack is required, until
\* it is on its way in a packet.  Two kinds of values are lost without a word:
\* a subscription of this vehicle that a later one pushes out of a full
\* sub-buffer, as _forward_subscription() ignores what push() returns; and a
\* value without ack_required in a later frame of a request whose first frame
\* is empty, which the driver does not send.
NoSilentLoss ==
    \A v \in seen.pushed :
        \/ InBuffer(v[1], v[2])
        \/ \E a \in seen.acked : a[1] = v[1] /\ a[2] = v[2]
        \/ \E r \in {"ttl", "overflow"} : <<v[1], v[2], r>> \in seen.expired
        \/ v \in seen.dropped
        \/ v \in seen.fired /\ (Transmitted(v[1], v[2]) \/ InRequest(v[1], v[2]))
        \/ v \in seen.overrun /\ v[2] \in Forwards
        \/ v \in seen.fired \cap seen.unsent

\* The updates leave the order of a sub-buffer that holds data as it is, and
\* whether its data need an ack.
KindsKept ==
    \A k \in DOMAIN buffer_ \cap DOMAIN buffer_' : buffer_[k].data # <<>> =>
        /\ buffer_'[k].cfg.ack_required = buffer_[k].cfg.ack_required
        /\ buffer_'[k].cfg.newest_first = buffer_[k].cfg.newest_first

\* Configurations under which they do: the publishers of a buffer id say the
\* same of both, by setting the field or by its default, and no subscriber sets
\* it to anything else.
Says(c, field) == IF c[field] = Unset THEN DefaultConfig[field] ELSE c[field]

Agreed(b, field, x) ==
    /\ \A m \in Messages : BufferOf[m] = b => Says(PublisherCfg[m], field) = x
    /\ \A c \in SubscriberCfgs : c[field] \in {x, Unset}

ConfigsAgree ==
    \A b \in BufferIds, field \in {"ack_required", "newest_first"} :
        \E x \in BOOLEAN : Agreed(b, field, x)

\* A value for which no ack is required is in at most one packet.
UnackedSentOnce ==
    \A p, q \in air : p.type = "DATA" /\ q.type = "DATA" /\ p # q =>
        \A m \in Contents(p) \cap Contents(q) :
            p.dest = q.dest => <<_full_id(p.dest), m>> \notin seen.fired

\* Every message put in the buffer leaves it in the end: acked, sent or expired;
\* unless an erase() that finds nothing has ended the thread.
EventuallyLeaves ==
    \A d \in Dests, m \in Messages :
        <<d, m>> \in seen.pushed ~> (~ InBuffer(d, m) \/ thread = "erase threw")

\* loop() is called at 10 Hz whatever the handlers do, and time passes.
FairSpec == Spec /\ WF_vars(Loop) /\ WF_vars(Tick)
=============================================================================

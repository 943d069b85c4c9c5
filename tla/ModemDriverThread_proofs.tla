---------------------- MODULE ModemDriverThread_proofs ----------------------
(***************************************************************************)
(* For any subnet, destinations, buffer ids, configurations and bounds:    *)
(* the three records that ModemDriverThread keeps of who is to get what    *)
(* agree with its buffer, so create() and push() never throw; its state    *)
(* keeps its types; until the process restarts a message reported as acked *)
(* was received; with one frame per slot no message leaves the buffer      *)
(* unaccounted for; and where the configurations agree on what needs an    *)
(* ack, what needs none is sent once.                                      *)
(***************************************************************************)
EXTENDS ModemDriverThread, DynamicSubBuffer_proofs, FiniteSetTheorems

PubsType == [BufferIds -> Seq({PublisherCfg[m] : m \in Messages})]
SubsType == [Dests -> [BufferIds -> SUBSET SubscriberCfgs]]

\* What BuffersMatchSubscriptions needs of the types.
Configured ==
    /\ publisher_buffer_cfg_ \in PubsType
    /\ subscriber_buffer_cfg_ \in SubsType
    /\ subbuffers_created_ \in [BufferIds -> SUBSET Dests]
    /\ subscription_subbuffers_ \subseteq Dests

\* The inductive invariant.
Matched == Configured /\ BuffersMatchSubscriptions /\ NoCreateOrPushThrows

USE ModemDriverAssumption

\* A (dest, buffer id) has both a subscriber and a publisher.
Paired(d, b, subs, pubs) == subs[d][b] # {} /\ pubs[b] # <<>>

\* _try_create_or_update_buffer(), called for the entries whose configurations
\* may have become a pair, keeps records and buffer in step and does not throw.
LEMMA Recreated ==
    ASSUME Configured, BuffersMatchSubscriptions,
           NEW touched \in SUBSET (Dests \X BufferIds),
           NEW subs \in SubsType, NEW pubs \in PubsType,
           \A d \in Dests, b \in BufferIds :
              /\ Paired(d, b, subscriber_buffer_cfg_, publisher_buffer_cfg_)
                    => Paired(d, b, subs, pubs)
              /\ <<d, b>> \notin touched /\ Paired(d, b, subs, pubs)
                    => Paired(d, b, subscriber_buffer_cfg_, publisher_buffer_cfg_)
    PROVE  /\ NowCreated(touched, subs, pubs) \in [BufferIds -> SUBSET Dests]
           /\ \A b \in BufferIds : NowCreated(touched, subs, pubs)[b] =
                 {d \in Dests : subs[d][b] # {} /\ pubs[b] # <<>>}
           /\ DOMAIN Reconfigured(touched, subs, pubs) =
                 {k \in Dests \X BufferIds : k[1] \in NowCreated(touched, subs, pubs)[k[2]]}
                 \cup (subscription_subbuffers_ \X {SubscriptionKey})
           /\ ~ CreateThrows(touched, subs, pubs)
<1> DEFINE ready == Ready(touched, subs, pubs)
           created == NowCreated(touched, subs, pubs)
<1>1. ready \subseteq Dests \X BufferIds
  BY DEF Ready
<1>2. \A d \in Dests, b \in BufferIds :
         <<d, b>> \in ready <=> <<d, b>> \in touched /\ Paired(d, b, subs, pubs)
  BY DEF Ready, Paired
<1>3. created \in [BufferIds -> SUBSET Dests]
  BY DEF NowCreated, Configured
<1>4. \A b \in BufferIds, d \in Dests :
         d \in created[b] <=> d \in subbuffers_created_[b] \/ <<d, b>> \in ready
  BY DEF NowCreated
<1>5. \A b \in BufferIds, d \in Dests : d \in subbuffers_created_[b]
         <=> Paired(d, b, subscriber_buffer_cfg_, publisher_buffer_cfg_)
  BY DEF BuffersMatchSubscriptions, Paired
<1>6. \A b \in BufferIds, d \in Dests : d \in created[b] <=> Paired(d, b, subs, pubs)
  BY <1>2, <1>4, <1>5
<1>7. \A b \in BufferIds : created[b] = {d \in Dests : subs[d][b] # {} /\ pubs[b] # <<>>}
  BY <1>3, <1>6 DEF Paired
<1>8. DOMAIN Reconfigured(touched, subs, pubs) = DOMAIN buffer_ \cup ready
  BY DEF Reconfigured
<1>9. DOMAIN buffer_ \cup ready =
         {k \in Dests \X BufferIds : k[1] \in created[k[2]]}
         \cup (subscription_subbuffers_ \X {SubscriptionKey})
  <2> HIDE DEF ready, created
  <2>1. DOMAIN buffer_ = {k \in Dests \X BufferIds : k[1] \in subbuffers_created_[k[2]]}
                         \cup (subscription_subbuffers_ \X {SubscriptionKey})
    BY DEF BuffersMatchSubscriptions
  <2>2. \A k \in Dests \X BufferIds :
           k[1] \in created[k[2]] <=> k[1] \in subbuffers_created_[k[2]] \/ k \in ready
    <3> TAKE k \in Dests \X BufferIds
    <3>1. k[1] \in Dests /\ k[2] \in BufferIds /\ k = <<k[1], k[2]>>
      OBVIOUS
    <3> QED BY <1>4, <3>1
  <2> QED BY <1>1, <2>1, <2>2
<1>10. ~ CreateThrows(touched, subs, pubs)
  <2> SUFFICES ASSUME NEW k \in ready, k \in DOMAIN buffer_
               PROVE  k[1] \in subbuffers_created_[k[2]]
    BY DEF CreateThrows
  <2> QED BY <1>1 DEF BuffersMatchSubscriptions
<1> QED BY <1>3, <1>7, <1>8, <1>9, <1>10

-----------------------------------------------------------------------------
\* The initial state satisfies the inductive invariant.
LEMMA InitMatched == Init => Matched
  BY DEF Init, Matched, Configured, PubsType, SubsType, BuffersMatchSubscriptions,
         NoCreateOrPushThrows

\* A step that touches neither the records nor which sub-buffers there are, and
\* throws nothing in create() or push(), preserves it.
LEMMA Unmoved ==
    ASSUME Matched, UNCHANGED config, DOMAIN buffer_' = DOMAIN buffer_,
           thread' \notin {"create threw", "push threw"}
    PROVE  Matched'
  BY DEF Matched, Configured, config, BuffersMatchSubscriptions, NoCreateOrPushThrows

\* SUBSCRIBE, and UNSUBSCRIBE while another subscriber remains.
LEMMA SubscribersStep ==
    ASSUME Matched, NEW d \in Dests, NEW b \in BufferIds,
           NEW S \in SUBSET SubscriberCfgs, S # {},
           SubscribersBecome(d, b, [subscriber_buffer_cfg_ EXCEPT ![d][b] = S])
    PROVE  Matched'
<1> DEFINE subs == [subscriber_buffer_cfg_ EXCEPT ![d][b] = S]
           pubs == publisher_buffer_cfg_
           touched == {<<d, b>>}
<1>1. subs \in SubsType /\ pubs \in PubsType /\ touched \in SUBSET (Dests \X BufferIds)
  BY DEF Matched, Configured, SubsType
<1>2. \A e \in Dests, c \in BufferIds :
         subs[e][c] = IF e = d /\ c = b THEN S ELSE subscriber_buffer_cfg_[e][c]
  BY DEF Matched, Configured, SubsType
<1>3. /\ subscriber_buffer_cfg_' = subs
      /\ publisher_buffer_cfg_' = pubs
      /\ buffer_' = Reconfigured(touched, subs, pubs)
      /\ subbuffers_created_' = NowCreated(touched, subs, pubs)
      /\ subscription_subbuffers_' = subscription_subbuffers_
      /\ ~ CreateThrows(touched, subs, pubs) => thread' = "idle"
  BY DEF SubscribersBecome
<1> HIDE DEF subs
<1>4. \A e \in Dests, c \in BufferIds :
         /\ Paired(e, c, subscriber_buffer_cfg_, publisher_buffer_cfg_) => Paired(e, c, subs, pubs)
         /\ <<e, c>> \notin touched /\ Paired(e, c, subs, pubs)
               => Paired(e, c, subscriber_buffer_cfg_, publisher_buffer_cfg_)
  BY <1>2 DEF Paired
<1> HIDE DEF touched, pubs
<1>5. /\ NowCreated(touched, subs, pubs) \in [BufferIds -> SUBSET Dests]
      /\ \A c \in BufferIds : NowCreated(touched, subs, pubs)[c] =
            {e \in Dests : subs[e][c] # {} /\ pubs[c] # <<>>}
      /\ DOMAIN Reconfigured(touched, subs, pubs) =
            {k \in Dests \X BufferIds : k[1] \in NowCreated(touched, subs, pubs)[k[2]]}
            \cup (subscription_subbuffers_ \X {SubscriptionKey})
      /\ ~ CreateThrows(touched, subs, pubs)
  BY <1>1, <1>4, Recreated DEF Matched
<1>6. Configured'
  BY <1>1, <1>3, <1>5 DEF Matched, Configured
<1>7. BuffersMatchSubscriptions'
  BY <1>3, <1>5 DEF BuffersMatchSubscriptions
<1> QED BY <1>3, <1>5, <1>6, <1>7 DEF Matched, NoCreateOrPushThrows

\* UNSUBSCRIBE of the last subscriber of a destination.
LEMMA LastUnsubscribeStep ==
    ASSUME Matched, NEW d \in Dests, NEW b \in BufferIds, NEW cfg,
           _accept_last_unsubscribe(d, b, cfg)
    PROVE  Matched'
<1>1. /\ subscriber_buffer_cfg_' = [subscriber_buffer_cfg_ EXCEPT ![d][b] = {}]
      /\ subbuffers_created_' = [subbuffers_created_ EXCEPT ![b] = @ \ {d}]
      /\ DOMAIN buffer_' = DOMAIN buffer_ \ {<<d, b>>}
      /\ UNCHANGED <<publisher_buffer_cfg_, subscription_subbuffers_, thread>>
  BY DEF _accept_last_unsubscribe, Without
<1>2. Configured'
  BY <1>1 DEF Matched, Configured, SubsType
<1>3. \A c \in BufferIds : subbuffers_created_'[c] =
         {e \in Dests : subscriber_buffer_cfg_'[e][c] # {} /\ publisher_buffer_cfg_'[c] # <<>>}
  BY <1>1 DEF Matched, Configured, SubsType, BuffersMatchSubscriptions
<1>4. \A k \in Dests \X BufferIds : k[1] \in subbuffers_created_'[k[2]]
         <=> k[1] \in subbuffers_created_[k[2]] /\ k # <<d, b>>
  <2> TAKE k \in Dests \X BufferIds
  <2>1. k[1] \in Dests /\ k[2] \in BufferIds /\ k = <<k[1], k[2]>>
    OBVIOUS
  <2> QED BY <1>1, <2>1 DEF Matched, Configured
<1>5. DOMAIN buffer_' = {k \in Dests \X BufferIds : k[1] \in subbuffers_created_'[k[2]]}
                        \cup (subscription_subbuffers_' \X {SubscriptionKey})
  BY <1>1, <1>4 DEF Matched, BuffersMatchSubscriptions
<1> QED BY <1>1, <1>2, <1>3, <1>5 DEF Matched, BuffersMatchSubscriptions, NoCreateOrPushThrows

\* A publication: its configuration, if new, may pair any subscriber.
LEMMA BufferMessageStep ==
    ASSUME Matched, NEW m \in Messages, NEW has_metadata, _buffer_message(m, has_metadata)
    PROVE  Matched'
<1> DEFINE b == BufferOf[m]
           new == IsNewCfg(b, PublisherCfg[m])
           pubs == IF new THEN [publisher_buffer_cfg_ EXCEPT ![b] = Append(@, PublisherCfg[m])]
                   ELSE publisher_buffer_cfg_
           touched == IF new THEN Dests \X {b} ELSE {}
           subs == subscriber_buffer_cfg_
           configured == Reconfigured(touched, subs, pubs)
           created == NowCreated(touched, subs, pubs)
           to == {<<d, b>> : d \in {x \in created[b] : _dest_is_in_subnet(x)}}
<1>1. b \in BufferIds /\ subs \in SubsType /\ touched \in SUBSET (Dests \X BufferIds)
  BY DEF Matched, Configured
<1>2. pubs \in PubsType
  <2> DEFINE P == {PublisherCfg[i] : i \in Messages}
             list == Append(publisher_buffer_cfg_[b], PublisherCfg[m])
  <2>1. publisher_buffer_cfg_ \in [BufferIds -> Seq(P)]  BY DEF Matched, Configured, PubsType
  <2>2. PublisherCfg[m] \in P  OBVIOUS
  <2> HIDE DEF P
  <2>3. list \in Seq(P)
    <3>1. publisher_buffer_cfg_[b] \in Seq(P)  BY <1>1, <2>1
    <3> QED BY <2>2, <3>1, AppendProperties
  <2>4. pubs = IF new THEN [publisher_buffer_cfg_ EXCEPT ![b] = list] ELSE publisher_buffer_cfg_
    OBVIOUS
  <2> HIDE DEF list, new, pubs
  <2>5. pubs \in [BufferIds -> Seq(P)]  BY <1>1, <2>1, <2>3, <2>4
  <2> QED BY <2>5 DEF P, PubsType
<1>3. \A c \in BufferIds : /\ publisher_buffer_cfg_[c] # <<>> => pubs[c] # <<>>
                           /\ c # b => pubs[c] = publisher_buffer_cfg_[c]
  BY <1>1 DEF Matched, Configured, PubsType
<1>4. \A e \in Dests, c \in BufferIds :
         /\ Paired(e, c, subscriber_buffer_cfg_, publisher_buffer_cfg_) => Paired(e, c, subs, pubs)
         /\ <<e, c>> \notin touched /\ Paired(e, c, subs, pubs)
               => Paired(e, c, subscriber_buffer_cfg_, publisher_buffer_cfg_)
  <2>1. CASE new
    <3>1. \A e \in Dests, c \in BufferIds : <<e, c>> \notin touched => c # b
      BY <2>1
    <3> QED BY <1>3, <3>1 DEF Paired
  <2>2. CASE ~ new
    BY <2>2
  <2> QED BY <2>1, <2>2
<1>5. /\ publisher_buffer_cfg_' = pubs
      /\ subscriber_buffer_cfg_' = subs
      /\ subbuffers_created_' = created
      /\ DOMAIN buffer_' = DOMAIN configured
      /\ subscription_subbuffers_' = subscription_subbuffers_
      /\ ~ CreateThrows(touched, subs, pubs) /\ to \subseteq DOMAIN configured
            => thread' = "idle"
  BY DEF _buffer_message
<1> HIDE DEF pubs, touched, subs, b
<1>6. /\ created \in [BufferIds -> SUBSET Dests]
      /\ \A c \in BufferIds : created[c] = {e \in Dests : subs[e][c] # {} /\ pubs[c] # <<>>}
      /\ DOMAIN configured = {k \in Dests \X BufferIds : k[1] \in created[k[2]]}
                             \cup (subscription_subbuffers_ \X {SubscriptionKey})
      /\ ~ CreateThrows(touched, subs, pubs)
  BY <1>1, <1>2, <1>4, Recreated DEF Matched
<1> HIDE DEF configured, created
<1>7. to \subseteq DOMAIN configured
  BY <1>1, <1>6
<1>8. Configured'
  BY <1>1, <1>2, <1>5, <1>6 DEF Matched, Configured
<1>9. BuffersMatchSubscriptions'
  BY <1>5, <1>6 DEF BuffersMatchSubscriptions
<1> QED BY <1>5, <1>6, <1>7, <1>8, <1>9 DEF Matched, NoCreateOrPushThrows

\* A subscription of this vehicle is put in the buffer of each destination.
LEMMA ForwardStep ==
    ASSUME Matched, NEW m, NEW dests \in SUBSET Dests, _forward_subscription(m, dests)
    PROVE  Matched'
<1> DEFINE ds == {x \in dests : _dest_is_in_subnet(x)}
           to == {<<d, SubscriptionKey>> : d \in ds}
<1>1. /\ UNCHANGED <<publisher_buffer_cfg_, subscriber_buffer_cfg_, subbuffers_created_>>
      /\ DOMAIN buffer_' = DOMAIN buffer_ \cup to
      /\ subscription_subbuffers_' = subscription_subbuffers_ \cup {k[1] : k \in to}
      /\ (\A k \in to : k \in DOMAIN buffer_ => k[1] \in subscription_subbuffers_)
            => thread' = "idle"
  BY DEF _forward_subscription
<1>2. ds \subseteq Dests /\ {k[1] : k \in to} = ds /\ to = ds \X {SubscriptionKey}
  <2>1. ds \subseteq Dests
    OBVIOUS
  <2> HIDE DEF ds
  <2>2. {k[1] : k \in to} = ds
    <3>1. ASSUME NEW d \in ds PROVE d \in {k[1] : k \in to}
      <4>1. <<d, SubscriptionKey>> \in to /\ <<d, SubscriptionKey>>[1] = d
        OBVIOUS
      <4> QED BY <4>1
    <3>2. ASSUME NEW k \in to PROVE k[1] \in ds
      OBVIOUS
    <3> QED BY <3>1, <3>2
  <2>3. to = ds \X {SubscriptionKey}
    OBVIOUS
  <2> QED BY <2>1, <2>2, <2>3
<1> HIDE DEF ds, to
<1>3. \A k \in to : k \in DOMAIN buffer_ => k[1] \in subscription_subbuffers_
  BY <1>2 DEF Matched, BuffersMatchSubscriptions
<1>4. DOMAIN buffer_' = {k \in Dests \X BufferIds : k[1] \in subbuffers_created_'[k[2]]}
                        \cup (subscription_subbuffers_' \X {SubscriptionKey})
  BY <1>1, <1>2 DEF Matched, BuffersMatchSubscriptions
<1>5. Configured'
  BY <1>1, <1>2 DEF Matched, Configured
<1> QED
  BY <1>1, <1>3, <1>4, <1>5 DEF Matched, BuffersMatchSubscriptions, NoCreateOrPushThrows

\* Every step preserves the inductive invariant.
LEMMA NextMatched == Matched /\ [Next]_vars => Matched'
<1> SUFFICES ASSUME Matched, [Next]_vars PROVE Matched'
  OBVIOUS
<1>0. thread \notin {"create threw", "push threw"}
  BY DEF Matched, NoCreateOrPushThrows
<1>1. ASSUME NEW d \in Dests, NEW b \in BufferIds, NEW cfg \in SubscriberCfgs,
             _accept_subscribe(d, b, cfg)
      PROVE  Matched'
  <2> DEFINE S == subscriber_buffer_cfg_[d][b] \cup {cfg}
  <2>1. S \in SUBSET SubscriberCfgs /\ S # {}
    BY DEF Matched, Configured, SubsType
  <2>2. SubscribersBecome(d, b, [subscriber_buffer_cfg_ EXCEPT ![d][b] = S])
    BY <1>1 DEF _accept_subscribe
  <2> QED BY <2>1, <2>2, SubscribersStep
<1>2. ASSUME NEW d \in Dests, NEW b \in BufferIds, NEW cfg \in SubscriberCfgs,
             _accept_unsubscribe(d, b, cfg)
      PROVE  Matched'
  <2> DEFINE S == subscriber_buffer_cfg_[d][b] \ {cfg}
  <2>1. S \in SUBSET SubscriberCfgs /\ S # {}
    BY <1>2 DEF _accept_unsubscribe, Matched, Configured, SubsType
  <2>2. SubscribersBecome(d, b, [subscriber_buffer_cfg_ EXCEPT ![d][b] = S])
    BY <1>2 DEF _accept_unsubscribe
  <2> QED BY <2>1, <2>2, SubscribersStep
<1>3. ASSUME NEW d \in Dests, NEW b \in BufferIds, NEW cfg \in SubscriberCfgs,
             _accept_last_unsubscribe(d, b, cfg)
      PROVE  Matched'
  BY <1>3, LastUnsubscribeStep
<1>4. ASSUME NEW m \in Messages, _buffer_message_omit(m) PROVE Matched'
  BY <1>0, <1>4, Unmoved DEF _buffer_message_omit
<1>5. ASSUME NEW m \in Messages, NEW has_metadata \in BOOLEAN, _buffer_message(m, has_metadata)
      PROVE  Matched'
  BY <1>5, BufferMessageStep
<1>6. ASSUME NEW m \in Forwards, NEW dests \in SUBSET Dests, _forward_subscription(m, dests)
      PROVE  Matched'
  BY <1>6, ForwardStep
<1>7. ASSUME NEW key \in DOMAIN buffer_, RequestTop(key) PROVE Matched'
  BY <1>0, <1>7, Unmoved DEF RequestTop
<1>8. ASSUME RequestNextFrame \/ RequestDone PROVE Matched'
  BY <1>0, <1>8, Unmoved DEF RequestNextFrame, RequestDone
<1>9. ASSUME LoopExpire \/ MacIdle \/ Tick PROVE Matched'
  BY <1>0, <1>9, Unmoved DEF LoopExpire, MacIdle, Tick
<1>10. ASSUME NEW p \in air, _receive_ack(p) PROVE Matched'
  BY <1>0, <1>10, Unmoved DEF _receive_ack
<1>11. ASSUME NEW f \in DOMAIN acking, AckValue(f) PROVE Matched'
  BY <1>0, <1>11, Unmoved DEF AckValue
<1>12. ASSUME NEW f \in DOMAIN acking, AckValueThrows(f) PROVE Matched'
  BY <1>0, <1>12, Unmoved DEF AckValueThrows
<1>13. ASSUME NEW n \in SlotFrames, NEW dest \in SlotDests, _data_request(n, dest) PROVE Matched'
  BY <1>0, <1>13, Unmoved DEF _data_request
<1>14. ASSUME NEW d \in Peers, NEW p \in air, receive_message(d, p) PROVE Matched'
  BY <1>0, <1>14, Unmoved DEF receive_message
<1>15. ASSUME Restart PROVE Matched'
  <2>1. Configured'
    BY <1>15 DEF Restart, Configured, PubsType, SubsType
  <2>2. BuffersMatchSubscriptions'
    <3>1. DOMAIN buffer_' = {}
      BY <1>15 DEF Restart
    <3> QED BY <1>15, <3>1 DEF Restart, BuffersMatchSubscriptions
  <2>3. NoCreateOrPushThrows'
    BY <1>15 DEF Restart, NoCreateOrPushThrows
  <2> QED BY <2>1, <2>2, <2>3 DEF Matched
<1>16. ASSUME UNCHANGED vars PROVE Matched'
  BY <1>0, <1>16, Unmoved DEF vars
<1> QED
  BY <1>1, <1>2, <1>3, <1>4, <1>5, <1>6, <1>7, <1>8, <1>9, <1>10, <1>11, <1>12, <1>13,
     <1>14, <1>15, <1>16
  DEF Next, Handle, Loop, DataRequest

\* The invariant about the records holds in every behaviour.
LEMMA AlwaysMatched == Spec => []Matched
  BY InitMatched, NextMatched, PTL DEF Spec

\* Whatever the order of publications, subscriptions, unsubscriptions and
\* restarts, exactly the destinations with a subscriber, of the buffer ids with
\* a publisher, are recorded as created and have a sub-buffer.
THEOREM BuffersAlwaysMatch == Spec => []BuffersMatchSubscriptions
<1>1. Matched => BuffersMatchSubscriptions
  BY DEF Matched
<1> QED BY <1>1, AlwaysMatched, PTL

\* Neither create() nor push() of the buffer ever throws in the thread.
THEOREM NothingThrownByCreateOrPush == Spec => []NoCreateOrPushThrows
<1>1. Matched => NoCreateOrPushThrows
  BY DEF Matched
<1> QED BY <1>1, AlwaysMatched, PTL

-----------------------------------------------------------------------------
(* What is in the sub-buffers, and what became of what is not. *)

\* The configurations a sub-buffer may have.
AllCfgs == SubscriberCfgs \cup {PublisherCfg[m] : m \in Messages} \cup {SubscriptionCfg}
Merged == {MergeConfigs(cfgs) : cfgs \in Seq(AllCfgs)}

\* A sub-buffer at time n, of data that were published.
Queue(s, n, published) ==
    /\ s \in Subs(Merged)
    /\ Timely(s.data, n) /\ Once(s.data)
    /\ Payloads(s.data) \subseteq published

Reasons == {"ttl", "overflow", "no subscribers"}
SeenType ==
    [published : SUBSET Data, pushed : SUBSET (Dests \X Data), acked : SUBSET (Dests \X Data \X Int),
     expired : SUBSET (Nat \X Data \X Reasons), dropped : SUBSET (Dests \X Data),
     overrun : SUBSET (Dests \X Data), fired : SUBSET (Dests \X Data),
     unsent : SUBSET (Dests \X Data), changes : Nat, restarts : Nat]

HeldIn(buf, d, m) == \E k \in DOMAIN buf : k[1] = d /\ m \in Payloads(buf[k].data)
DoneIn(s, d, m) ==
    \/ <<d, m>> \in s.dropped \cup s.overrun \cup s.fired
    \/ \E a \in s.acked : a[1] = d /\ a[2] = m
    \/ \E r \in {"ttl", "overflow"} : <<d, m, r>> \in s.expired

Stocked ==
    /\ now \in 1..MaxTime
    /\ seen \in SeenType
    /\ \A d \in Dests, b \in BufferIds : IsFiniteSet(subscriber_buffer_cfg_[d][b])
    /\ \A k \in DOMAIN buffer_ : Queue(buffer_[k], now, seen.published)
    /\ \A d \in Dests, m \in Data :
          <<d, m>> \in seen.pushed => HeldIn(buffer_, d, m) \/ DoneIn(seen, d, m)

\* Every list of configurations in use merges to a well-typed one.
LEMMA MergedTypes ==
    /\ \A cfgs \in Seq(AllCfgs) : MergeConfigs(cfgs) \in Merged
                                  /\ MergeConfigs(cfgs).blackout_time \in Nat
    /\ \A c \in Merged : c.max_queue \in Nat
<1>1. ASSUME NEW cfgs \in Seq(AllCfgs)
      PROVE  MergeConfigs(cfgs).max_queue \in Nat /\ MergeConfigs(cfgs).blackout_time \in Nat
  <2>1. Len(cfgs) \in Nat /\ DOMAIN cfgs = 1..Len(cfgs) /\ \A i \in 1..Len(cfgs) : cfgs[i] \in AllCfgs
    BY LenProperties, ElementOfSeq
  <2>2. \A c \in AllCfgs : Valid(c)  BY BufferConfigAssumption DEF AllCfgs, Valid
  <2>3. \A i \in 1..Len(cfgs) : Valid(cfgs[i])  BY <2>1, <2>2
  <2> QED BY ONLY <2>1, <2>3, BufferConfigAssumption, MergeTypes
<1> QED BY <1>1 DEF Merged

\* A finite set as a list.
LEMMA SetListed ==
    ASSUME NEW S, IsFiniteSet(S)
    PROVE  Cardinality(S) \in Nat /\ SetToSeq(S) \in [1..Cardinality(S) -> S]
<1>1. Cardinality(S) \in Nat /\ ExistsBijection(1..Cardinality(S), S)  BY FS_CardinalityType
<1>2. PICK f \in [1..Cardinality(S) -> S] : IsInjective(f)
  BY <1>1 DEF ExistsBijection, Bijection, Injection
<1> QED BY <1>1, <1>2 DEF SetToSeq

\* The configurations of a pair, the subscribers' in some order.
LEMMA CfgsList ==
    ASSUME NEW subs \in SubsType, NEW pubs \in PubsType, NEW d \in Dests, NEW b \in BufferIds,
           IsFiniteSet(subs[d][b])
    PROVE  Cfgs(d, b, subs, pubs) \in Seq(AllCfgs)
<1> DEFINE S == subs[d][b]
<1>1. S \subseteq AllCfgs  BY DEF SubsType, AllCfgs
<1>2. SetToSeq(S) \in [1..Cardinality(S) -> S]  BY SetListed
<1>3. SetToSeq(S) \in Seq(AllCfgs)
  <2> HIDE DEF S
  <2>1. Cardinality(S) \in Nat  BY FS_CardinalityType DEF S
  <2>2. SetToSeq(S) \in [1..Cardinality(S) -> AllCfgs]  BY <1>1, <1>2
  <2> QED BY <2>1, <2>2, SeqDef
<1>4. pubs[b] \in Seq(AllCfgs)
  <2>1. pubs[b] \in Seq({PublisherCfg[m] : m \in Messages})  BY DEF PubsType
  <2> DEFINE P == {PublisherCfg[m] : m \in Messages}
  <2>2. P \subseteq AllCfgs  BY DEF AllCfgs
  <2> HIDE DEF P
  <2>3. pubs[b] \in Seq(P)  BY <2>1 DEF P
  <2>4. /\ Len(pubs[b]) \in Nat /\ DOMAIN pubs[b] = 1..Len(pubs[b])
        /\ \A i \in 1..Len(pubs[b]) : pubs[b][i] \in AllCfgs
        /\ pubs[b] = [i \in 1..Len(pubs[b]) |-> pubs[b][i]]
    BY <2>2, <2>3, LenProperties, ElementOfSeq
  <2> QED BY <2>4
<1> HIDE DEF S
<1>5. SetToSeq(S) \o pubs[b] \in Seq(AllCfgs)  BY <1>3, <1>4, ConcatProperties
<1> QED BY <1>5 DEF Cfgs, S

-----------------------------------------------------------------------------
(* The frames: of the data request, of the packets, and those to be acked. *)

Values == [key : Dests \X (BufferIds \cup {SubscriptionKey}), push_time : Nat, data : Data]
Frames == UNION {[S -> SUBSET Data] : S \in SUBSET Nat}
Requests == [start : Nat, frame : Nat, last : Nat, dest : Dests \cup SlotDests \cup {Query},
             room : Int, frames : Frames, ack : BOOLEAN]
DataPackets == [type : {"DATA"}, src : Int, dest : Int, frames : Frames, ack : BOOLEAN]
AckPackets == [type : {"ACK"}, src : Int, dest : Int, acked : SUBSET Nat]

\* The request being filled: its frames are numbered from next_frame_, and
\* what is in them goes to one destination.
Filling ==
    /\ request.start = next_frame_ /\ request.last \in next_frame_..MaxFrame
    /\ request.frame \in next_frame_..(request.last + 1)
    /\ DOMAIN request.frames = next_frame_..request.last
    /\ request.dest \in Dests \cup SlotDests
    /\ \A f \in DOMAIN request.frames : request.frames[f] # {} => request.dest \in Dests

Framed ==
    /\ loaded \subseteq BufferIds
    /\ next_frame_ \in 0..(MaxFrame + 1)
    /\ thread \in {"idle", "driver", "ack", "request", "create threw", "push threw",
                   "erase threw"}
    /\ DOMAIN pending_ack_ \subseteq 0..MaxFrame
    /\ \A f \in DOMAIN pending_ack_ : pending_ack_[f] \in Seq(Values) /\ pending_ack_[f] # <<>>
    /\ DOMAIN acking \subseteq DOMAIN pending_ack_ /\ \A f \in DOMAIN acking : acking[f] \in Int
    /\ thread \notin {"ack", "erase threw"} => DOMAIN acking = {}
    /\ request \in Requests
    /\ thread = "request" => Filling
    /\ air \subseteq DataPackets \cup AckPackets
    /\ received \in [Peers -> SUBSET Data]

-----------------------------------------------------------------------------
(* The calls on one sub-buffer. *)

\* A well-formed sub-buffer stays one as time passes and more is pushed
\* elsewhere.
LEMMA QueueLater ==
    ASSUME NEW s, NEW n \in Nat, NEW t \in Nat, n <= t, NEW P, NEW R, P \subseteq R, Queue(s, n, P)
    PROVE  Queue(s, t, R)
<1>1. Timely(s.data, t)
  <2> SUFFICES ASSUME NEW i \in DOMAIN s.data
               PROVE  s.data[i].push_time \in 1..t /\ s.data[i].last_send \in 0..t
    BY DEF Timely
  <2>1. s.data[i].push_time \in 1..n /\ s.data[i].last_send \in 0..n  BY DEF Queue, Timely
  <2> QED BY <2>1
<1> QED BY <1>1 DEF Queue

\* A new sub-buffer is well-formed and empty.
LEMMA QueueNew ==
    ASSUME NEW cfgs \in Seq(AllCfgs), NEW n \in Nat, NEW P
    PROVE  Queue(NewSub(cfgs, n), n, P) /\ NewSub(cfgs, n).data = <<>>
<1>1. MergeConfigs(cfgs) \in Merged /\ MergeConfigs(cfgs).blackout_time \in Nat  BY MergedTypes
<1>2. NewSub(cfgs, n) \in Subs(Merged) /\ NewSub(cfgs, n).data = <<>>  BY <1>1, NewSubEffect
<1> QED BY <1>2, EmptyQueue DEF Queue

\* update() keeps a sub-buffer well-formed and its data.
LEMMA QueueUpdate ==
    ASSUME NEW cfgs \in Seq(AllCfgs), NEW s, NEW n, NEW P, Queue(s, n, P)
    PROVE  Queue(UpdateSub(s, cfgs), n, P) /\ UpdateSub(s, cfgs).data = s.data
<1>1. MergeConfigs(cfgs) \in Merged /\ MergeConfigs(cfgs).blackout_time \in Nat  BY MergedTypes
<1>2. s \in Subs(Merged)  BY DEF Queue
<1>3. UpdateSub(s, cfgs) \in Subs(Merged) /\ UpdateSub(s, cfgs).data = s.data
  BY <1>1, <1>2, UpdateSubEffect
<1> QED BY <1>3 DEF Queue

\* push() keeps the new datum and the old ones, but for those it reports as
\* exceeding.
LEMMA QueuePush ==
    ASSUME NEW s, NEW n \in Nat, n > 0, NEW P, Queue(s, n, P), NEW t \in Data, t \notin P
    PROVE  LET over == {d.data : d \in Range(Exceeded(s, t, n))}
           IN  /\ Queue(PushSub(s, t, n), n, P \cup {t})
               /\ Payloads(s.data) \cup {t} \subseteq Payloads(PushSub(s, t, n).data) \cup over
               /\ over \subseteq P \cup {t}
<1> DEFINE over == {d.data : d \in Range(Exceeded(s, t, n))}
           p == PushSub(s, t, n)
<1>1. s \in Subs(Merged) /\ Timely(s.data, n) /\ Once(s.data) /\ t \notin Payloads(s.data)
  BY DEF Queue
<1>2. \A c \in Merged : c.max_queue \in Nat  BY MergedTypes
<1>3. /\ p \in Subs(Merged) /\ Timely(p.data, n) /\ Once(p.data)
      /\ Payloads(p.data) = (Payloads(s.data) \cup {t}) \ over
      /\ over \subseteq Payloads(s.data) \cup {t}
  <2>1. t \in Data /\ n \in Nat /\ n > 0  OBVIOUS
  <2> QED BY ONLY <1>1, <1>2, <2>1, PushSubEffect
<1> HIDE DEF over, p
<1>4. Payloads(s.data) \subseteq P  BY DEF Queue
<1>5. /\ Queue(p, n, P \cup {t}) /\ over \subseteq P \cup {t}
      /\ Payloads(s.data) \cup {t} \subseteq Payloads(p.data) \cup over
  BY <1>3, <1>4 DEF Queue
<1> QED BY <1>5 DEF over, p

\* expire() keeps all data but those it reports as expired.
LEMMA QueueExpire ==
    ASSUME NEW s, NEW n \in Nat, NEW P, Queue(s, n, P)
    PROVE  /\ Queue(ExpireSub(s, n), n, P)
           /\ Payloads(s.data)
                 \subseteq Payloads(ExpireSub(s, n).data) \cup {d.data : d \in Expired(s, n)}
           /\ {d.data : d \in Expired(s, n)} \subseteq P
<1> DEFINE e == ExpireSub(s, n)
           gone == {d.data : d \in Expired(s, n)}
<1>1. s \in Subs(Merged) /\ Timely(s.data, n) /\ Once(s.data) /\ Payloads(s.data) \subseteq P
  BY DEF Queue
<1>2. e \in Subs(Merged) /\ Embeds(e.data, s.data) /\ Payloads(e.data) = Payloads(s.data) \ gone
  BY <1>1, ExpireSubEffect
<1>3. gone \subseteq Payloads(s.data)
  <2>1. Payloads(s.data) = {d.data : d \in Range(s.data)}  BY <1>1, SubTypes, PayloadTypes
  <2> QED BY <2>1 DEF Expired
<1> HIDE DEF e, gone
<1>4. e.data \in Seq(Datums) /\ s.data \in Seq(Datums)  BY <1>1, <1>2, SubTypes
<1>5. Timely(e.data, n) /\ Once(e.data) /\ Payloads(e.data) \subseteq Payloads(s.data)
  BY <1>1, <1>2, <1>4, EmbedsKeeps
<1>6. Queue(e, n, P) /\ Payloads(s.data) \subseteq Payloads(e.data) \cup gone /\ gone \subseteq P
  BY <1>1, <1>2, <1>3, <1>5 DEF Queue
<1> QED BY <1>6 DEF e, gone

\* erase() keeps all data but the value it is called for.
LEMMA QueueErase ==
    ASSUME NEW s, NEW n, NEW P, Queue(s, n, P), NEW value
    PROVE  /\ Queue(EraseSub(s, value), n, P)
           /\ Payloads(s.data) \subseteq Payloads(EraseSub(s, value).data) \cup {value.data}
<1>1. CASE EraseHits(s, value) = {}
  <2>1. EraseSub(s, value) = s  BY <1>1 DEF EraseSub
  <2> QED BY <2>1
<1>2. CASE EraseHits(s, value) # {}
  <2> DEFINE e == EraseSub(s, value)
  <2>1. s \in Subs(Merged) /\ Timely(s.data, n) /\ Once(s.data) /\ Payloads(s.data) \subseteq P
    BY DEF Queue
  <2>2. e \in Subs(Merged) /\ Embeds(e.data, s.data) /\ Payloads(e.data) = Payloads(s.data) \ {value.data}
    BY <1>2, <2>1, EraseSubEffect
  <2> HIDE DEF e
  <2>3. e.data \in Seq(Datums) /\ s.data \in Seq(Datums)  BY <2>1, <2>2, SubTypes
  <2>4. Timely(e.data, n) /\ Once(e.data)  BY <2>1, <2>2, <2>3, EmbedsKeeps
  <2>5. Queue(e, n, P) /\ Payloads(s.data) \subseteq Payloads(e.data) \cup {value.data}
    BY <2>1, <2>2, <2>4 DEF Queue
  <2> QED BY <2>5 DEF e
<1> QED BY <1>1, <1>2

\* top() keeps all data, and provides one of them.
LEMMA QueueTop ==
    ASSUME NEW s, NEW n \in Nat, NEW P, Queue(s, n, P), NEW max_bytes, NEW wait,
           ValueResult(s, n, max_bytes, wait) = "VALUE_PROVIDED"
    PROVE  /\ Queue(TopSub(s, n, wait), n, P)
           /\ Payloads(TopSub(s, n, wait).data) = Payloads(s.data)
           /\ TopSub(s, n, wait).cfg = s.cfg
           /\ TopIndex(s, n, wait) \in DOMAIN s.data
           /\ s.data[TopIndex(s, n, wait)] \in Datums
<1> DEFINE p == TopSub(s, n, wait)
           k == TopIndex(s, n, wait)
<1>1. s \in Subs(Merged) /\ Timely(s.data, n) /\ Once(s.data) /\ Payloads(s.data) \subseteq P
  BY DEF Queue
<1>2. /\ k \in DOMAIN s.data /\ p \in Subs(Merged) /\ p.cfg = s.cfg /\ DOMAIN p.data = DOMAIN s.data
      /\ \A i \in DOMAIN s.data :
            /\ p.data[i].data = s.data[i].data
            /\ p.data[i].push_time = s.data[i].push_time
            /\ p.data[i].last_send = IF i = k THEN n ELSE s.data[i].last_send
  BY <1>1, TopSubEffect
<1> HIDE DEF p, k
<1>3. p.data \in Seq(Datums) /\ s.data \in Seq(Datums)  BY <1>1, <1>2, SubTypes
<1>4. \A i \in DOMAIN s.data :
         /\ p.data[i].data = s.data[i].data /\ p.data[i].push_time = s.data[i].push_time
         /\ p.data[i].last_send = n \/ p.data[i].last_send = s.data[i].last_send
  BY <1>2
<1>5. /\ Timely(s.data, n) => Timely(p.data, n)
      /\ Once(s.data) => Once(p.data)
      /\ Payloads(p.data) = Payloads(s.data)
  <2>1. DOMAIN p.data = DOMAIN s.data /\ n \in Nat  BY <1>2
  <2> QED BY ONLY <1>3, <1>4, <2>1, MarkKeeps
<1>6. s.data[k] \in Datums  BY <1>2, <1>3, Domains
<1>7. Queue(p, n, P)  BY <1>1, <1>2, <1>5 DEF Queue
<1> QED BY <1>2, <1>5, <1>6, <1>7 DEF p, k

-----------------------------------------------------------------------------
(* Every step keeps account of the data. *)

\* What a step must show of the sub-buffers and of what was reported.
LEMMA StockStep ==
    ASSUME Matched, Stocked, now' = now, seen' \in SeenType,
           \A d \in Dests, b \in BufferIds : IsFiniteSet(subscriber_buffer_cfg_'[d][b]),
           \A k \in DOMAIN buffer_' : Queue(buffer_'[k], now, seen'.published),
           \A d \in Dests, m \in Data : DoneIn(seen, d, m) => DoneIn(seen', d, m),
           \A d \in Dests, m \in Data : <<d, m>> \in seen'.pushed \ seen.pushed
              => HeldIn(buffer_', d, m) \/ DoneIn(seen', d, m),
           \A k \in DOMAIN buffer_, m \in Data : m \in Payloads(buffer_[k].data)
              => HeldIn(buffer_', k[1], m) \/ DoneIn(seen', k[1], m)
    PROVE  Stocked'
<1>1. ASSUME NEW d \in Dests, NEW m \in Data, <<d, m>> \in seen'.pushed
      PROVE  HeldIn(buffer_', d, m) \/ DoneIn(seen', d, m)
  <2>1. CASE <<d, m>> \notin seen.pushed  BY <1>1, <2>1
  <2>2. CASE <<d, m>> \in seen.pushed
    <3>1. HeldIn(buffer_, d, m) \/ DoneIn(seen, d, m)  BY <2>2 DEF Stocked
    <3>2. CASE DoneIn(seen, d, m)  BY <3>2
    <3>3. CASE HeldIn(buffer_, d, m)
      <4>1. PICK k \in DOMAIN buffer_ : k[1] = d /\ m \in Payloads(buffer_[k].data)
        BY <3>3 DEF HeldIn
      <4> QED BY <4>1
    <3> QED BY <3>1, <3>2, <3>3
  <2> QED BY <2>1, <2>2
<1> QED BY <1>1 DEF Stocked

\* A step that leaves the sub-buffers and the record of them alone.
LEMMA StockUnmoved ==
    ASSUME Stocked, now' = now, seen' = seen, buffer_' = buffer_,
           subscriber_buffer_cfg_' = subscriber_buffer_cfg_
    PROVE  Stocked'
BY DEF Stocked

\* A key of the buffer.
LEMMA BufferKeys ==
    ASSUME Matched
    PROVE  /\ DOMAIN buffer_ \subseteq Dests \X (BufferIds \cup {SubscriptionKey})
           /\ \A k \in DOMAIN buffer_ : k[1] \in Dests
BY DEF Matched, Configured, BuffersMatchSubscriptions

\* The fields of the history have their types.
LEMMA SeenFields ==
    ASSUME NEW s \in SeenType
    PROVE  /\ s.published \subseteq Data /\ s.pushed \subseteq Dests \X Data
           /\ s.acked \subseteq Dests \X Data \X Int /\ s.dropped \subseteq Dests \X Data
           /\ s.overrun \subseteq Dests \X Data /\ s.unsent \subseteq Dests \X Data
           /\ s.fired \subseteq Dests \X Data /\ s.expired \subseteq Nat \X Data \X Reasons
           /\ s.changes \in Nat /\ s.restarts \in Nat
BY DEF SeenType

\* The history after a restart.
AfterRestart(s) == [s EXCEPT !.restarts = @ + 1, !.pushed = {}, !.dropped = {},
                             !.overrun = {}, !.fired = {}, !.unsent = {}]

\* A restart forgets what became of the data of the process that ended.
LEMMA RestartFields ==
    ASSUME NEW s \in SeenType
    PROVE  LET r == AfterRestart(s)
           IN  /\ r \in SeenType /\ r.restarts = s.restarts + 1 /\ r.published = s.published
               /\ r.pushed = {} /\ r.overrun = {} /\ r.fired = {} /\ r.unsent = {}
<1> DEFINE c == s.restarts + 1
           r == [s EXCEPT !.restarts = c, !.pushed = {}, !.dropped = {}, !.overrun = {},
                          !.fired = {}, !.unsent = {}]
<1>1. c \in Nat  BY SeenFields
<1>2. AfterRestart(s) = r  BY DEF AfterRestart
<1> HIDE DEF c
<1>3. /\ r \in SeenType /\ r.restarts = c /\ r.published = s.published
      /\ r.pushed = {} /\ r.overrun = {} /\ r.fired = {} /\ r.unsent = {}
  BY ONLY s \in SeenType, <1>1 DEF SeenType
<1> HIDE DEF r
<1> QED BY <1>2, <1>3 DEF c

\* The history after a request that ended: what it stranded.
LEMMA DoneFields ==
    ASSUME Stocked, Framed, RequestDone
    PROVE  /\ seen' \in SeenType /\ seen'.published = seen.published
           /\ seen'.pushed = seen.pushed /\ seen'.acked = seen.acked
           /\ seen'.expired = seen.expired /\ seen'.dropped = seen.dropped
           /\ seen'.overrun = seen.overrun /\ seen'.fired = seen.fired
           /\ seen'.unsent = seen.unsent \cup Stranded(request)
           /\ seen'.restarts = seen.restarts
<1> DEFINE U == seen.unsent \cup Stranded(request)
           r == [seen EXCEPT !.unsent = U]
<1>1. seen' = r /\ thread = "request"  BY DEF RequestDone
<1>2. Stranded(request) \subseteq Dests \X Data
  <2> SUFFICES ASSUME NEW m \in UNION Range(request.frames)
               PROVE  request.dest \in Dests /\ m \in Data
    BY DEF Stranded
  <2>1. PICK f \in DOMAIN request.frames : m \in request.frames[f]  BY DEF Range
  <2>2. request \in Requests /\ Filling  BY <1>1 DEF Framed
  <2>3. request.dest \in Dests  BY <2>1, <2>2 DEF Filling
  <2>4. request.frames \in Frames  BY <2>2 DEF Requests
  <2>5. PICK S \in SUBSET Nat : request.frames \in [S -> SUBSET Data]  BY <2>4 DEF Frames
  <2> QED BY <2>1, <2>3, <2>5
<1>3. seen \in SeenType  BY DEF Stocked
<1>4. U \in SUBSET (Dests \X Data)  BY <1>2, <1>3, SeenFields
<1> HIDE DEF U
<1>5. /\ r \in SeenType /\ r.published = seen.published /\ r.pushed = seen.pushed
      /\ r.acked = seen.acked /\ r.expired = seen.expired /\ r.dropped = seen.dropped
      /\ r.overrun = seen.overrun /\ r.fired = seen.fired /\ r.unsent = U
      /\ r.restarts = seen.restarts
  BY ONLY <1>3, <1>4 DEF SeenType
<1> HIDE DEF r
<1> QED BY <1>1, <1>5 DEF U

\* What is accounted for stays so as the history grows.
LEMMA DoneGrows ==
    ASSUME NEW s, NEW r, s.acked \subseteq r.acked, s.dropped \subseteq r.dropped,
           s.overrun \subseteq r.overrun, s.fired \subseteq r.fired, s.expired \subseteq r.expired,
           NEW d, NEW m, DoneIn(s, d, m)
    PROVE  DoneIn(r, d, m)
BY DEF DoneIn

\* The thread starts without sub-buffers.
LEMMA InitStocked == Init => Stocked
<1> SUFFICES ASSUME Init PROVE Stocked
  OBVIOUS
<1>1. now \in 1..MaxTime  BY DEF Init, ZeroPoint
<1>2. seen \in SeenType /\ seen.pushed = {}  BY DEF Init, SeenType
<1>3. \A d \in Dests, b \in BufferIds : IsFiniteSet(subscriber_buffer_cfg_[d][b])
  BY FS_EmptySet DEF Init
<1>4. DOMAIN buffer_ = {}  BY DEF Init
<1> QED BY <1>1, <1>2, <1>3, <1>4 DEF Stocked

\* The sub-buffers once their configurations are those of subs and pubs.
LEMMA ReconfiguredQueues ==
    ASSUME Matched, Stocked, NEW touched \in SUBSET (Dests \X BufferIds),
           NEW subs \in SubsType, NEW pubs \in PubsType,
           \A d \in Dests, b \in BufferIds : IsFiniteSet(subs[d][b])
    PROVE  LET buf == Reconfigured(touched, subs, pubs)
           IN  /\ DOMAIN buffer_ \subseteq DOMAIN buf
               /\ \A k \in DOMAIN buf : Queue(buf[k], now, seen.published)
               /\ \A k \in DOMAIN buffer_ : buf[k].data = buffer_[k].data
<1> DEFINE ready == Ready(touched, subs, pubs)
           buf == Reconfigured(touched, subs, pubs)
           list(k) == Cfgs(k[1], k[2], subs, pubs)
<1>1. \A k \in ready : list(k) \in Seq(AllCfgs)
  <2> SUFFICES ASSUME NEW k \in ready PROVE list(k) \in Seq(AllCfgs)
    OBVIOUS
  <2>1. k[1] \in Dests /\ k[2] \in BufferIds  BY DEF Ready
  <2> QED BY <2>1, CfgsList
<1>2. /\ DOMAIN buf = DOMAIN buffer_ \cup ready
      /\ \A k \in DOMAIN buf :
            buf[k] = IF k \notin ready THEN buffer_[k]
                     ELSE IF k \in DOMAIN buffer_ THEN UpdateSub(buffer_[k], list(k))
                          ELSE NewSub(list(k), now)
  BY DEF Reconfigured
<1> HIDE DEF ready, buf, list
<1>3. now \in Nat /\ \A k \in DOMAIN buffer_ : Queue(buffer_[k], now, seen.published)  BY DEF Stocked
<1>4. ASSUME NEW k \in DOMAIN buf
      PROVE  Queue(buf[k], now, seen.published)
             /\ (k \in DOMAIN buffer_ => buf[k].data = buffer_[k].data)
  <2>1. CASE k \notin ready  BY <1>2, <1>3, <2>1
  <2>2. CASE k \in ready /\ k \in DOMAIN buffer_  BY <1>1, <1>2, <1>3, <2>2, QueueUpdate
  <2>3. CASE k \in ready /\ k \notin DOMAIN buffer_  BY <1>1, <1>2, <1>3, <2>3, QueueNew
  <2> QED BY <2>1, <2>2, <2>3
<1> QED BY <1>2, <1>4 DEF buf

\* A step that neither reports nor forgets anything of the data.
LEMMA SeenChanges ==
    ASSUME NEW s \in SeenType
    PROVE  LET r == [s EXCEPT !.changes = @ + 1]
           IN  /\ r \in SeenType /\ r.published = s.published /\ r.pushed = s.pushed
               /\ \A d, m : DoneIn(s, d, m) => DoneIn(r, d, m)
BY DEF SeenType, DoneIn

\* SUBSCRIBE, and UNSUBSCRIBE while another subscriber remains.
LEMMA StockSubscribers ==
    ASSUME Matched, Stocked, NEW d \in Dests, NEW b \in BufferIds,
           NEW S \in SUBSET SubscriberCfgs, IsFiniteSet(S),
           SubscribersBecome(d, b, [subscriber_buffer_cfg_ EXCEPT ![d][b] = S])
    PROVE  Stocked'
<1> DEFINE subs == [subscriber_buffer_cfg_ EXCEPT ![d][b] = S]
           touched == {<<d, b>>}
           buf == Reconfigured(touched, subs, publisher_buffer_cfg_)
<1>1. subs \in SubsType /\ publisher_buffer_cfg_ \in PubsType
      /\ touched \in SUBSET (Dests \X BufferIds)
  BY DEF Matched, Configured, SubsType
<1>2. \A e \in Dests, c \in BufferIds :
         subs[e][c] = IF e = d /\ c = b THEN S ELSE subscriber_buffer_cfg_[e][c]
  BY DEF Matched, Configured, SubsType
<1>3. /\ subscriber_buffer_cfg_' = subs /\ buffer_' = buf /\ now' = now
      /\ seen' = [seen EXCEPT !.changes = @ + 1]
  BY DEF SubscribersBecome
<1> HIDE DEF subs
<1>4. \A e \in Dests, c \in BufferIds : IsFiniteSet(subs[e][c])  BY <1>2 DEF Stocked
<1> HIDE DEF touched
<1>5. /\ DOMAIN buffer_ \subseteq DOMAIN buf
      /\ \A k \in DOMAIN buf : Queue(buf[k], now, seen.published)
      /\ \A k \in DOMAIN buffer_ : buf[k].data = buffer_[k].data
  BY <1>1, <1>4, ReconfiguredQueues
<1> HIDE DEF buf
<1>6. /\ seen' \in SeenType /\ seen'.published = seen.published /\ seen'.pushed = seen.pushed
      /\ \A e, m : DoneIn(seen, e, m) => DoneIn(seen', e, m)
  BY <1>3, SeenChanges DEF Stocked
<1>7. \A k \in DOMAIN buffer_, m \in Data : m \in Payloads(buffer_[k].data)
         => HeldIn(buffer_', k[1], m) \/ DoneIn(seen', k[1], m)
  BY <1>3, <1>5 DEF HeldIn
<1>8. \A e \in Dests, c \in BufferIds : IsFiniteSet(subscriber_buffer_cfg_'[e][c])
  BY <1>3, <1>4
<1>9. \A k \in DOMAIN buffer_' : Queue(buffer_'[k], now, seen'.published)  BY <1>3, <1>5, <1>6
<1> QED BY <1>3, <1>6, <1>7, <1>8, <1>9, StockStep

\* UNSUBSCRIBE of the last subscriber drops the sub-buffer and what is in it.
LEMMA StockLastUnsubscribe ==
    ASSUME Matched, Stocked, NEW d \in Dests, NEW b \in BufferIds, NEW cfg,
           _accept_last_unsubscribe(d, b, cfg)
    PROVE  Stocked'
<1> DEFINE key == <<d, b>>
           gone == IF key \in DOMAIN buffer_
                   THEN {<<d, x.data>> : x \in Range(buffer_[key].data)} ELSE {}
<1>1. /\ subscriber_buffer_cfg_' = [subscriber_buffer_cfg_ EXCEPT ![d][b] = {}]
      /\ now' = now /\ buffer_' = Without(buffer_, {key})
      /\ seen' = [seen EXCEPT !.changes = @ + 1, !.dropped = @ \cup gone]
  BY DEF _accept_last_unsubscribe
<1>2. DOMAIN buffer_' = DOMAIN buffer_ \ {key} /\ \A k \in DOMAIN buffer_' : buffer_'[k] = buffer_[k]
  BY <1>1 DEF Without
<1>3. key \in DOMAIN buffer_ => gone = {<<d, m>> : m \in Payloads(buffer_[key].data)}
                                /\ Payloads(buffer_[key].data) \subseteq Data
  <2> SUFFICES ASSUME key \in DOMAIN buffer_
               PROVE  gone = {<<d, m>> : m \in Payloads(buffer_[key].data)}
                      /\ Payloads(buffer_[key].data) \subseteq Data
    OBVIOUS
  <2>1. Queue(buffer_[key], now, seen.published) /\ seen.published \subseteq Data
    BY SeenFields DEF Stocked
  <2>2. buffer_[key].data \in Seq(Datums) /\ Payloads(buffer_[key].data) \subseteq Data
    BY <2>1, SubTypes DEF Queue
  <2>3. Payloads(buffer_[key].data) = {x.data : x \in Range(buffer_[key].data)}
    BY <2>2, PayloadTypes
  <2> QED BY <2>2, <2>3
<1>4. gone \subseteq Dests \X Data
  <2>1. CASE key \in DOMAIN buffer_  BY <1>3, <2>1
  <2>2. CASE key \notin DOMAIN buffer_  BY <2>2
  <2> QED BY <2>1, <2>2
<1> HIDE DEF gone
<1>5. /\ seen' \in SeenType /\ seen'.published = seen.published /\ seen'.pushed = seen.pushed
      /\ \A e, m : DoneIn(seen, e, m) => DoneIn(seen', e, m)
      /\ seen'.dropped = seen.dropped \cup gone
  <2>1. seen \in SeenType /\ seen.changes + 1 \in Nat /\ seen.dropped \cup gone \subseteq Dests \X Data
    BY <1>4, SeenFields DEF Stocked
  <2> DEFINE G == seen.dropped \cup gone
             c == seen.changes + 1
  <2>2. seen' = [seen EXCEPT !.changes = c, !.dropped = G] /\ c \in Nat /\ G \in SUBSET (Dests \X Data)
    BY <1>1, <2>1
  <2> HIDE DEF G, c
  <2>3. /\ seen' \in SeenType /\ seen'.published = seen.published /\ seen'.pushed = seen.pushed
        /\ seen'.acked = seen.acked /\ seen'.fired = seen.fired /\ seen'.expired = seen.expired
        /\ seen'.dropped = G /\ seen'.overrun = seen.overrun
    <3> DEFINE r == [seen EXCEPT !.changes = c, !.dropped = G]
    <3>1. seen' = r  BY <2>2
    <3>2. /\ r \in SeenType /\ r.published = seen.published /\ r.pushed = seen.pushed
          /\ r.acked = seen.acked /\ r.fired = seen.fired /\ r.expired = seen.expired
          /\ r.dropped = G /\ r.overrun = seen.overrun
      <4>1. seen \in SeenType /\ c \in Nat /\ G \in SUBSET (Dests \X Data)  BY <2>1, <2>2
      <4> QED BY ONLY <4>1 DEF SeenType
    <3> HIDE DEF r
    <3> QED BY <3>1, <3>2
  <2> QED BY <2>3, DoneGrows DEF G
<1>6. \A e \in Dests, c \in BufferIds : IsFiniteSet(subscriber_buffer_cfg_'[e][c])
  <2>1. \A e \in Dests, c \in BufferIds : subscriber_buffer_cfg_'[e][c] =
           IF e = d /\ c = b THEN {} ELSE subscriber_buffer_cfg_[e][c]
    BY <1>1 DEF Matched, Configured, SubsType
  <2> QED BY <2>1, FS_EmptySet DEF Stocked
<1>7. \A k \in DOMAIN buffer_' : Queue(buffer_'[k], now, seen'.published)
  BY <1>2, <1>5 DEF Stocked
<1>8. ASSUME NEW k \in DOMAIN buffer_, NEW m \in Data, m \in Payloads(buffer_[k].data)
      PROVE  HeldIn(buffer_', k[1], m) \/ DoneIn(seen', k[1], m)
  <2>1. CASE k = key  BY <1>3, <1>5, <1>8, <2>1 DEF DoneIn
  <2>2. CASE k # key  BY <1>2, <1>8, <2>2 DEF HeldIn
  <2> QED BY <2>1, <2>2
<1> QED BY <1>1, <1>5, <1>6, <1>7, <1>8, StockStep

\* A message whose DCCL type is not loaded is not buffered.
LEMMA StockOmit ==
    ASSUME Matched, Stocked, NEW m \in Messages, _buffer_message_omit(m)
    PROVE  Stocked'
<1>1. /\ seen' = [seen EXCEPT !.published = @ \cup {m}] /\ now' = now /\ buffer_' = buffer_
      /\ subscriber_buffer_cfg_' = subscriber_buffer_cfg_
  BY DEF _buffer_message_omit, config
<1>2. /\ seen' \in SeenType /\ seen'.published = seen.published \cup {m}
      /\ seen'.pushed = seen.pushed /\ seen'.acked = seen.acked /\ seen'.fired = seen.fired
      /\ seen'.expired = seen.expired /\ seen'.dropped = seen.dropped
      /\ seen'.overrun = seen.overrun
  BY <1>1 DEF Stocked, SeenType
<1>3. \A d, t : DoneIn(seen, d, t) => DoneIn(seen', d, t)  BY <1>2, DoneGrows
<1>4. \A k \in DOMAIN buffer_' : Queue(buffer_'[k], now, seen'.published)
  <2> SUFFICES ASSUME NEW k \in DOMAIN buffer_ PROVE Queue(buffer_[k], now, seen'.published)
    BY <1>1
  <2>1. Queue(buffer_[k], now, seen.published)  BY DEF Stocked
  <2> QED BY <1>2, <2>1 DEF Queue
<1>5. \A k \in DOMAIN buffer_, t \in Data : t \in Payloads(buffer_[k].data)
         => HeldIn(buffer_', k[1], t) \/ DoneIn(seen', k[1], t)
  BY <1>1 DEF HeldIn
<1>6. \A d \in Dests, b \in BufferIds : IsFiniteSet(subscriber_buffer_cfg_'[d][b])
  BY <1>1 DEF Stocked
<1> QED BY <1>1, <1>2, <1>3, <1>4, <1>5, <1>6, StockStep

\* A publication goes to every destination with a sub-buffer; what overflows
\* there is reported.
LEMMA StockBuffer ==
    ASSUME Matched, Stocked, NEW m \in Messages, NEW has_metadata,
           _buffer_message(m, has_metadata)
    PROVE  Stocked'
<1> DEFINE b == BufferOf[m]
           new == IsNewCfg(b, PublisherCfg[m])
           pubs == IF new THEN [publisher_buffer_cfg_ EXCEPT ![b] = Append(@, PublisherCfg[m])]
                   ELSE publisher_buffer_cfg_
           touched == IF new THEN Dests \X {b} ELSE {}
           subs == subscriber_buffer_cfg_
           buf == Reconfigured(touched, subs, pubs)
           created == NowCreated(touched, subs, pubs)
           to == {<<d, b>> : d \in {x \in created[b] : _dest_is_in_subnet(x)}}
           over(k) == {<<k[1], x.data, "overflow">> : x \in Range(Exceeded(buf[k], m, now))}
           gone == IF created[b] # {} THEN UNION {over(k) : k \in to \cap DOMAIN buf}
                   ELSE {<<ModemId, m, "no subscribers">>}
           sent == {<<k[1], m>> : k \in to}
<1>1. /\ publisher_buffer_cfg_' = pubs /\ subscriber_buffer_cfg_' = subs
      /\ subbuffers_created_' = created /\ now' = now
      /\ buffer_' = [k \in DOMAIN buf |->
                       IF k \in to THEN PushSub(buf[k], m, now) ELSE buf[k]]
      /\ seen' = [seen EXCEPT !.published = @ \cup {m}, !.pushed = @ \cup sent,
                              !.expired = @ \cup gone]
      /\ m \notin seen.published
  BY DEF _buffer_message
<1>2. Matched'  BY BufferMessageStep
<1>3. b \in BufferIds /\ touched \in SUBSET (Dests \X BufferIds)  OBVIOUS
<1>4. subs \in SubsType /\ pubs \in PubsType /\ created \in [BufferIds -> SUBSET Dests]
  BY <1>1, <1>2 DEF Matched, Configured
<1>5. DOMAIN buffer_' = {k \in Dests \X BufferIds : k[1] \in created[k[2]]}
                        \cup (subscription_subbuffers_' \X {SubscriptionKey})
  BY <1>1, <1>2 DEF Matched, BuffersMatchSubscriptions
<1>6. \A d \in Dests, c \in BufferIds : IsFiniteSet(subs[d][c])  BY DEF Stocked
<1> HIDE DEF b, new, pubs, touched, subs
<1>7. /\ DOMAIN buffer_ \subseteq DOMAIN buf
      /\ \A k \in DOMAIN buf : Queue(buf[k], now, seen.published)
      /\ \A k \in DOMAIN buffer_ : buf[k].data = buffer_[k].data
  BY <1>3, <1>4, <1>6, ReconfiguredQueues
<1> HIDE DEF buf, created
<1>8. to \subseteq DOMAIN buf /\ (to # {} => created[b] # {}) /\ \A k \in to : k[1] \in Dests
  BY <1>1, <1>3, <1>4, <1>5
<1> HIDE DEF to
<1>9. m \in Data /\ now \in Nat /\ now > 0 /\ seen \in SeenType  BY DEF Stocked
<1>10. \A k \in to : LET x == {d.data : d \in Range(Exceeded(buf[k], m, now))}
                     IN  /\ Queue(PushSub(buf[k], m, now), now, seen.published \cup {m})
                         /\ Payloads(buf[k].data) \cup {m}
                               \subseteq Payloads(PushSub(buf[k], m, now).data) \cup x
                         /\ x \subseteq seen.published \cup {m}
  <2> SUFFICES ASSUME NEW k \in to
               PROVE  LET x == {d.data : d \in Range(Exceeded(buf[k], m, now))}
                      IN  /\ Queue(PushSub(buf[k], m, now), now, seen.published \cup {m})
                          /\ Payloads(buf[k].data) \cup {m}
                                \subseteq Payloads(PushSub(buf[k], m, now).data) \cup x
                          /\ x \subseteq seen.published \cup {m}
    OBVIOUS
  <2>1. Queue(buf[k], now, seen.published) /\ m \notin seen.published  BY <1>1, <1>7, <1>8
  <2> QED BY ONLY <1>9, <2>1, QueuePush
<1>11. \A k \in to : over(k) \subseteq gone /\ over(k) \subseteq Nat \X Data \X Reasons
  <2> SUFFICES ASSUME NEW k \in to, NEW v \in over(k)
               PROVE  v \in gone /\ v \in Nat \X Data \X Reasons
    OBVIOUS
  <2>1. v \in gone
    <3>1. created[b] # {} /\ k \in to \cap DOMAIN buf  BY <1>8
    <3>2. gone = UNION {over(j) : j \in to \cap DOMAIN buf}  BY <3>1
    <3> HIDE DEF over, gone
    <3> QED BY <3>1, <3>2
  <2>2. PICK x \in Range(Exceeded(buf[k], m, now)) : v = <<k[1], x.data, "overflow">>
    OBVIOUS
  <2>3. x.data \in {d.data : d \in Range(Exceeded(buf[k], m, now))}  OBVIOUS
  <2>4. x.data \in seen.published \cup {m}  BY <1>10, <2>3
  <2>5. x.data \in Data  BY <1>9, <2>4, SeenFields
  <2> QED BY <1>8, <2>1, <2>2, <2>5 DEF Reasons
<1>12. gone \subseteq Nat \X Data \X Reasons /\ sent \subseteq Dests \X Data
  <2>1. sent \subseteq Dests \X Data  BY <1>8, <1>9
  <2>2. CASE created[b] # {}
    <3>1. gone = UNION {over(k) : k \in to \cap DOMAIN buf}  BY <2>2
    <3> HIDE DEF over, gone, sent
    <3> QED BY <1>11, <2>1, <3>1
  <2>3. CASE created[b] = {}
    <3>1. "no subscribers" \in Reasons  BY DEF Reasons
    <3>2. <<ModemId, m, "no subscribers">> \in Nat \X Data \X Reasons  BY <1>9, <3>1
    <3>3. gone = {<<ModemId, m, "no subscribers">>}  BY <2>3
    <3> HIDE DEF gone, sent
    <3> QED BY <2>1, <3>2, <3>3
  <2> QED BY <2>1, <2>2, <2>3
<1> HIDE DEF gone
<1>13. /\ seen' \in SeenType /\ seen'.published = seen.published \cup {m}
       /\ seen'.pushed = seen.pushed \cup sent /\ seen'.acked = seen.acked
       /\ seen'.fired = seen.fired /\ seen'.expired = seen.expired \cup gone
       /\ seen'.dropped = seen.dropped /\ seen'.overrun = seen.overrun
  <2> DEFINE P == seen.published \cup {m}
             A == seen.pushed \cup sent
             X == seen.expired \cup gone
             r == [seen EXCEPT !.published = P, !.pushed = A, !.expired = X]
  <2>1. P \in SUBSET Data /\ A \in SUBSET (Dests \X Data) /\ X \in SUBSET (Nat \X Data \X Reasons)
    BY <1>9, <1>12, SeenFields
  <2>2. seen' = r  BY <1>1
  <2>3. seen \in SeenType  BY <1>9
  <2> HIDE DEF P, A, X
  <2>4. /\ r \in SeenType /\ r.published = P /\ r.pushed = A /\ r.acked = seen.acked
        /\ r.fired = seen.fired /\ r.expired = X /\ r.dropped = seen.dropped
        /\ r.overrun = seen.overrun
    BY ONLY <2>1, <2>3 DEF SeenType
  <2> HIDE DEF r
  <2> QED BY <2>2, <2>4 DEF P, A, X
<1>14. \A d, t : DoneIn(seen, d, t) => DoneIn(seen', d, t)  BY <1>13, DoneGrows
<1>15. \A k \in DOMAIN buffer_' : Queue(buffer_'[k], now, seen'.published)
  <2> SUFFICES ASSUME NEW k \in DOMAIN buf PROVE Queue(buffer_'[k], now, seen'.published)
    BY <1>1
  <2>1. CASE k \in to  BY <1>1, <1>10, <1>13, <2>1
  <2>2. CASE k \notin to
    <3>1. buffer_'[k] = buf[k] /\ Queue(buf[k], now, seen.published)  BY <1>1, <1>7, <2>2
    <3> QED BY <1>13, <3>1 DEF Queue
  <2> QED BY <2>1, <2>2
<1>16. ASSUME NEW k \in DOMAIN buf, NEW t \in Data,
              t \in Payloads(buf[k].data) \/ (k \in to /\ t = m)
       PROVE  HeldIn(buffer_', k[1], t) \/ DoneIn(seen', k[1], t)
  <2>1. CASE t \in Payloads(buffer_'[k].data)  BY <1>1, <2>1 DEF HeldIn
  <2>2. CASE t \notin Payloads(buffer_'[k].data)
    <3>1. k \in to  BY <1>1, <1>16, <2>2
    <3>2. buffer_'[k] = PushSub(buf[k], m, now)  BY <1>1, <3>1
    <3>3. t \in {d.data : d \in Range(Exceeded(buf[k], m, now))}  BY <1>10, <1>16, <2>2, <3>1, <3>2
    <3>4. PICK x \in Range(Exceeded(buf[k], m, now)) : t = x.data  BY <3>3
    <3>5. <<k[1], t, "overflow">> \in over(k)  BY <3>4
    <3>6. <<k[1], t, "overflow">> \in seen'.expired  BY <1>11, <1>13, <3>1, <3>5
    <3> QED BY <3>6 DEF DoneIn
  <2> QED BY <2>1, <2>2
<1>17. \A k \in DOMAIN buffer_, t \in Data : t \in Payloads(buffer_[k].data)
          => HeldIn(buffer_', k[1], t) \/ DoneIn(seen', k[1], t)
  BY <1>7, <1>16
<1>18. \A d \in Dests, t \in Data : <<d, t>> \in seen'.pushed \ seen.pushed
          => HeldIn(buffer_', d, t) \/ DoneIn(seen', d, t)
  <2> SUFFICES ASSUME NEW d \in Dests, NEW t \in Data, <<d, t>> \in sent
               PROVE  HeldIn(buffer_', d, t) \/ DoneIn(seen', d, t)
    BY <1>13
  <2>1. PICK k \in to : <<d, t>> = <<k[1], m>>  OBVIOUS
  <2>2. k[1] = d /\ t = m /\ k \in DOMAIN buf  BY <1>8, <2>1
  <2> QED BY <1>16, <2>1, <2>2
<1>19. \A d \in Dests, c \in BufferIds : IsFiniteSet(subscriber_buffer_cfg_'[d][c])
  BY <1>1, <1>6
<1> HIDE DEF sent
<1> QED BY <1>1, <1>13, <1>14, <1>15, <1>17, <1>18, <1>19, StockStep

\* A subscription of this vehicle goes to each destination; what overflows
\* there is lost without a report, and counted as overrun.
LEMMA StockForward ==
    ASSUME Matched, Stocked, NEW m \in Forwards, NEW dests \in SUBSET Dests,
           _forward_subscription(m, dests)
    PROVE  Stocked'
<1> DEFINE to == {<<d, SubscriptionKey>> : d \in {x \in dests : _dest_is_in_subnet(x)}}
           Sub(k) == IF k[1] \in subscription_subbuffers_ THEN buffer_[k]
                     ELSE NewSub(<<SubscriptionCfg>>, now)
           over(k) == {<<k[1], x.data>> : x \in Range(Exceeded(Sub(k), m, now))}
           gone == UNION {over(k) : k \in to}
           sent == {<<k[1], m>> : k \in to}
<1>1. /\ subscriber_buffer_cfg_' = subscriber_buffer_cfg_ /\ now' = now
      /\ buffer_' = [k \in DOMAIN buffer_ \cup to |->
                       IF k \in to THEN PushSub(Sub(k), m, now) ELSE buffer_[k]]
      /\ seen' = [seen EXCEPT !.published = @ \cup {m}, !.pushed = @ \cup sent,
                              !.overrun = @ \cup gone]
      /\ m \notin seen.published
  BY DEF _forward_subscription
<1>2. \A k \in to : k[1] \in Dests /\ k = <<k[1], SubscriptionKey>>  OBVIOUS
<1>3. \A k \in to : k[1] \in subscription_subbuffers_ <=> k \in DOMAIN buffer_
  <2>1. DOMAIN buffer_ = {k \in Dests \X BufferIds : k[1] \in subbuffers_created_[k[2]]}
                         \cup (subscription_subbuffers_ \X {SubscriptionKey})
    BY DEF Matched, BuffersMatchSubscriptions
  <2> QED BY <1>2, <2>1
<1>4. m \in Data /\ now \in Nat /\ now > 0 /\ seen \in SeenType  BY DEF Stocked, Forwards
<1>5. \A k \in to : /\ Queue(Sub(k), now, seen.published)
                    /\ k \in DOMAIN buffer_ => Sub(k) = buffer_[k]
  <2> SUFFICES ASSUME NEW k \in to
               PROVE  Queue(Sub(k), now, seen.published) /\ (k \in DOMAIN buffer_ => Sub(k) = buffer_[k])
    OBVIOUS
  <2>1. CASE k \in DOMAIN buffer_
    <3>1. Sub(k) = buffer_[k] /\ Queue(buffer_[k], now, seen.published)  BY <1>3, <2>1 DEF Stocked
    <3> QED BY <3>1
  <2>2. CASE k \notin DOMAIN buffer_
    <3>1. Sub(k) = NewSub(<<SubscriptionCfg>>, now)  BY <1>3, <2>2
    <3>2. SubscriptionCfg \in AllCfgs  BY DEF AllCfgs
    <3>3. <<SubscriptionCfg>> \in Seq(AllCfgs)  BY <3>2
    <3>4. Queue(NewSub(<<SubscriptionCfg>>, now), now, seen.published)
      BY ONLY <1>4, <3>3, QueueNew
    <3> QED BY <2>2, <3>1, <3>4
  <2> QED BY <2>1, <2>2
<1> HIDE DEF to, Sub
<1>6. \A k \in to : LET x == {d.data : d \in Range(Exceeded(Sub(k), m, now))}
                    IN  /\ Queue(PushSub(Sub(k), m, now), now, seen.published \cup {m})
                        /\ Payloads(Sub(k).data) \cup {m}
                              \subseteq Payloads(PushSub(Sub(k), m, now).data) \cup x
                        /\ x \subseteq seen.published \cup {m}
  <2> SUFFICES ASSUME NEW k \in to
               PROVE  LET x == {d.data : d \in Range(Exceeded(Sub(k), m, now))}
                      IN  /\ Queue(PushSub(Sub(k), m, now), now, seen.published \cup {m})
                          /\ Payloads(Sub(k).data) \cup {m}
                                \subseteq Payloads(PushSub(Sub(k), m, now).data) \cup x
                          /\ x \subseteq seen.published \cup {m}
    OBVIOUS
  <2>1. Queue(Sub(k), now, seen.published) /\ m \notin seen.published  BY <1>1, <1>5
  <2> QED BY ONLY <1>4, <2>1, QueuePush
<1>7. \A k \in to : over(k) \subseteq Dests \X Data
  <2> SUFFICES ASSUME NEW k \in to, NEW v \in over(k) PROVE v \in Dests \X Data
    OBVIOUS
  <2>1. PICK x \in Range(Exceeded(Sub(k), m, now)) : v = <<k[1], x.data>>
    OBVIOUS
  <2>2. x.data \in {d.data : d \in Range(Exceeded(Sub(k), m, now))}  OBVIOUS
  <2>3. x.data \in seen.published \cup {m}  BY <1>6, <2>2
  <2>4. x.data \in Data  BY <1>4, <2>3, SeenFields
  <2> QED BY <1>2, <2>1, <2>4
<1>8. gone \subseteq Dests \X Data /\ sent \subseteq Dests \X Data
  <2>1. sent \subseteq Dests \X Data  BY <1>2, <1>4
  <2> HIDE DEF over, sent
  <2> QED BY <1>7, <2>1
<1> HIDE DEF gone
<1>9. /\ seen' \in SeenType /\ seen'.published = seen.published \cup {m}
      /\ seen'.pushed = seen.pushed \cup sent /\ seen'.acked = seen.acked
      /\ seen'.fired = seen.fired /\ seen'.overrun = seen.overrun \cup gone
      /\ seen'.expired = seen.expired /\ seen'.dropped = seen.dropped
  <2> DEFINE P == seen.published \cup {m}
             A == seen.pushed \cup sent
             X == seen.overrun \cup gone
             r == [seen EXCEPT !.published = P, !.pushed = A, !.overrun = X]
  <2>1. P \in SUBSET Data /\ A \in SUBSET (Dests \X Data) /\ X \in SUBSET (Dests \X Data)
    BY <1>4, <1>8, SeenFields
  <2>2. seen' = r  BY <1>1
  <2>3. seen \in SeenType  BY <1>4
  <2> HIDE DEF P, A, X
  <2>4. /\ r \in SeenType /\ r.published = P /\ r.pushed = A /\ r.acked = seen.acked
        /\ r.fired = seen.fired /\ r.overrun = X /\ r.expired = seen.expired
        /\ r.dropped = seen.dropped
    BY ONLY <2>1, <2>3 DEF SeenType
  <2> HIDE DEF r
  <2> QED BY <2>2, <2>4 DEF P, A, X
<1>10. \A d, t : DoneIn(seen, d, t) => DoneIn(seen', d, t)  BY <1>9, DoneGrows
<1>11. \A k \in DOMAIN buffer_' : Queue(buffer_'[k], now, seen'.published)
  <2> SUFFICES ASSUME NEW k \in DOMAIN buffer_ \cup to
               PROVE  Queue(buffer_'[k], now, seen'.published)
    BY <1>1
  <2>1. CASE k \in to  BY <1>1, <1>6, <1>9, <2>1
  <2>2. CASE k \notin to
    <3>1. buffer_'[k] = buffer_[k] /\ Queue(buffer_[k], now, seen.published)
      BY <1>1, <2>2 DEF Stocked
    <3> QED BY <1>9, <3>1 DEF Queue
  <2> QED BY <2>1, <2>2
<1>12. ASSUME NEW k \in to, NEW t \in Data, t \in Payloads(Sub(k).data) \cup {m}
       PROVE  HeldIn(buffer_', k[1], t) \/ DoneIn(seen', k[1], t)
  <2>1. k \in DOMAIN buffer_' /\ buffer_'[k] = PushSub(Sub(k), m, now)  BY <1>1
  <2>2. CASE t \in Payloads(buffer_'[k].data)  BY <2>1, <2>2 DEF HeldIn
  <2>3. CASE t \notin Payloads(buffer_'[k].data)
    <3>1. t \in {d.data : d \in Range(Exceeded(Sub(k), m, now))}  BY <1>6, <1>12, <2>1, <2>3
    <3>2. PICK x \in Range(Exceeded(Sub(k), m, now)) : t = x.data  BY <3>1
    <3>3. <<k[1], t>> \in over(k)  BY <3>2
    <3>4. <<k[1], t>> \in gone
      <4> HIDE DEF over
      <4> QED BY <3>3 DEF gone
    <3> QED BY <1>9, <3>4 DEF DoneIn
  <2> QED BY <2>2, <2>3
<1>13. \A k \in DOMAIN buffer_, t \in Data : t \in Payloads(buffer_[k].data)
          => HeldIn(buffer_', k[1], t) \/ DoneIn(seen', k[1], t)
  <2> SUFFICES ASSUME NEW k \in DOMAIN buffer_, NEW t \in Data, t \in Payloads(buffer_[k].data)
               PROVE  HeldIn(buffer_', k[1], t) \/ DoneIn(seen', k[1], t)
    OBVIOUS
  <2>1. CASE k \in to  BY <1>5, <1>12, <2>1
  <2>2. CASE k \notin to
    <3>1. k \in DOMAIN buffer_' /\ buffer_'[k] = buffer_[k]  BY <1>1, <2>2
    <3> QED BY <3>1 DEF HeldIn
  <2> QED BY <2>1, <2>2
<1>14. \A d \in Dests, t \in Data : <<d, t>> \in seen'.pushed \ seen.pushed
          => HeldIn(buffer_', d, t) \/ DoneIn(seen', d, t)
  <2> SUFFICES ASSUME NEW d \in Dests, NEW t \in Data, <<d, t>> \in sent
               PROVE  HeldIn(buffer_', d, t) \/ DoneIn(seen', d, t)
    BY <1>9
  <2>1. PICK k \in to : <<d, t>> = <<k[1], m>>  OBVIOUS
  <2>2. k[1] = d /\ t = m  BY <2>1
  <2> QED BY <1>12, <2>1, <2>2
<1>15. \A d \in Dests, c \in BufferIds : IsFiniteSet(subscriber_buffer_cfg_'[d][c])
  BY <1>1 DEF Stocked
<1> HIDE DEF sent
<1> QED BY <1>1, <1>9, <1>10, <1>11, <1>13, <1>14, <1>15, StockStep

\* loop() expires the data past their time to live, and reports them.
LEMMA StockExpire ==
    ASSUME Matched, Stocked, LoopExpire
    PROVE  Stocked'
<1> DEFINE past(k) == {<<k[1], x.data, "ttl">> : x \in Expired(buffer_[k], now)}
           gone == UNION {past(k) : k \in DOMAIN buffer_}
<1>1. /\ subscriber_buffer_cfg_' = subscriber_buffer_cfg_ /\ now' = now
      /\ buffer_' = [k \in DOMAIN buffer_ |-> ExpireSub(buffer_[k], now)]
      /\ seen' = [seen EXCEPT !.expired = @ \cup gone]
  BY DEF LoopExpire, config
<1>2. now \in Nat /\ seen \in SeenType /\ seen.published \subseteq Data  BY SeenFields DEF Stocked
<1>3. \A k \in DOMAIN buffer_ : k[1] \in Dests  BY BufferKeys
<1>4. \A k \in DOMAIN buffer_ :
         /\ Queue(ExpireSub(buffer_[k], now), now, seen.published)
         /\ Payloads(buffer_[k].data)
               \subseteq Payloads(ExpireSub(buffer_[k], now).data)
                         \cup {d.data : d \in Expired(buffer_[k], now)}
         /\ {d.data : d \in Expired(buffer_[k], now)} \subseteq seen.published
  <2> SUFFICES ASSUME NEW k \in DOMAIN buffer_
               PROVE  /\ Queue(ExpireSub(buffer_[k], now), now, seen.published)
                      /\ Payloads(buffer_[k].data)
                            \subseteq Payloads(ExpireSub(buffer_[k], now).data)
                                      \cup {d.data : d \in Expired(buffer_[k], now)}
                      /\ {d.data : d \in Expired(buffer_[k], now)} \subseteq seen.published
    OBVIOUS
  <2>1. Queue(buffer_[k], now, seen.published)  BY DEF Stocked
  <2> QED BY ONLY <1>2, <2>1, QueueExpire
<1>5. \A k \in DOMAIN buffer_ : past(k) \subseteq Nat \X Data \X Reasons
  <2> SUFFICES ASSUME NEW k \in DOMAIN buffer_, NEW v \in past(k)
               PROVE  v \in Nat \X Data \X Reasons
    OBVIOUS
  <2>1. PICK x \in Expired(buffer_[k], now) : v = <<k[1], x.data, "ttl">>  OBVIOUS
  <2>2. x.data \in {d.data : d \in Expired(buffer_[k], now)}  OBVIOUS
  <2>3. x.data \in Data  BY <1>2, <1>4, <2>2
  <2> QED BY <1>3, <2>1, <2>3 DEF Reasons
<1>6. gone \subseteq Nat \X Data \X Reasons
  <2> HIDE DEF past
  <2> QED BY <1>5
<1> HIDE DEF gone
<1>7. /\ seen' \in SeenType /\ seen'.published = seen.published /\ seen'.pushed = seen.pushed
      /\ seen'.acked = seen.acked /\ seen'.fired = seen.fired /\ seen'.dropped = seen.dropped
      /\ seen'.expired = seen.expired \cup gone /\ seen'.overrun = seen.overrun
  BY <1>1, <1>2, <1>6 DEF SeenType
<1>8. \A d, t : DoneIn(seen, d, t) => DoneIn(seen', d, t)  BY <1>7, DoneGrows
<1>9. \A k \in DOMAIN buffer_' : Queue(buffer_'[k], now, seen'.published)  BY <1>1, <1>4, <1>7
<1>10. ASSUME NEW k \in DOMAIN buffer_, NEW t \in Data, t \in Payloads(buffer_[k].data)
       PROVE  HeldIn(buffer_', k[1], t) \/ DoneIn(seen', k[1], t)
  <2>1. k \in DOMAIN buffer_' /\ buffer_'[k] = ExpireSub(buffer_[k], now)  BY <1>1
  <2>2. CASE t \in Payloads(buffer_'[k].data)  BY <2>1, <2>2 DEF HeldIn
  <2>3. CASE t \notin Payloads(buffer_'[k].data)
    <3>1. t \in {d.data : d \in Expired(buffer_[k], now)}  BY <1>4, <1>10, <2>1, <2>3
    <3>2. PICK x \in Expired(buffer_[k], now) : t = x.data  BY <3>1
    <3>3. <<k[1], t, "ttl">> \in past(k)  BY <3>2
    <3>4. <<k[1], t, "ttl">> \in gone
      <4> HIDE DEF past
      <4> QED BY <3>3 DEF gone
    <3> QED BY <1>7, <3>4 DEF DoneIn
  <2> QED BY <2>2, <2>3
<1>11. \A d \in Dests, c \in BufferIds : IsFiniteSet(subscriber_buffer_cfg_'[d][c])
  BY <1>1 DEF Stocked
<1> QED BY <1>1, <1>7, <1>8, <1>9, <1>10, <1>11, StockStep

\* The first value of a frame to be acked.
LEMMA FirstValue ==
    ASSUME Framed, NEW f \in DOMAIN acking
    PROVE  /\ f \in DOMAIN pending_ack_ /\ Head(pending_ack_[f]) \in Values
           /\ Head(pending_ack_[f]).key[1] \in Dests /\ Head(pending_ack_[f]).data \in Data
<1>1. f \in DOMAIN pending_ack_ /\ pending_ack_[f] \in Seq(Values) /\ pending_ack_[f] # <<>>
  BY DEF Framed
<1>2. Head(pending_ack_[f]) \in Values  BY <1>1, HeadTailProperties
<1> HIDE DEF Framed
<1>3. \A v \in Values : v.key[1] \in Dests /\ v.data \in Data  BY DEF Values
<1> QED BY <1>1, <1>2, <1>3

\* An acked value is erased, if erase() finds it, and reported.
LEMMA StockAck ==
    ASSUME Matched, Stocked, Framed, NEW f \in DOMAIN acking, AckValue(f)
    PROVE  Stocked'
<1> DEFINE value == Head(pending_ack_[f])
           key == value.key
<1>1. /\ subscriber_buffer_cfg_' = subscriber_buffer_cfg_ /\ now' = now
      /\ key \in DOMAIN buffer_
      /\ buffer_' = [buffer_ EXCEPT ![key] = EraseSub(buffer_[key], value)]
      /\ seen' = [seen EXCEPT !.acked = @ \cup {<<key[1], value.data, acking[f]>>}]
  BY DEF AckValue, config
<1>2. key[1] \in Dests /\ value.data \in Data /\ acking[f] \in Int  BY FirstValue DEF Framed
<1> HIDE DEF value, key
<1>3. /\ seen' \in SeenType /\ seen'.published = seen.published /\ seen'.pushed = seen.pushed
      /\ seen'.acked = seen.acked \cup {<<key[1], value.data, acking[f]>>}
      /\ seen'.fired = seen.fired /\ seen'.dropped = seen.dropped
      /\ seen'.overrun = seen.overrun /\ seen'.expired = seen.expired
  <2> DEFINE A == seen.acked \cup {<<key[1], value.data, acking[f]>>}
             r == [seen EXCEPT !.acked = A]
  <2>1. seen \in SeenType /\ A \in SUBSET (Dests \X Data \X Int)
    BY <1>2, SeenFields DEF Stocked
  <2>2. seen' = r  BY <1>1
  <2> HIDE DEF A
  <2>3. /\ r \in SeenType /\ r.published = seen.published /\ r.pushed = seen.pushed
        /\ r.acked = A /\ r.fired = seen.fired /\ r.dropped = seen.dropped
        /\ r.overrun = seen.overrun /\ r.expired = seen.expired
    BY ONLY <2>1 DEF SeenType
  <2> HIDE DEF r
  <2> QED BY <2>2, <2>3 DEF A
<1>4. \A d, t : DoneIn(seen, d, t) => DoneIn(seen', d, t)  BY <1>3, DoneGrows
<1>5. /\ Queue(EraseSub(buffer_[key], value), now, seen.published)
      /\ Payloads(buffer_[key].data)
            \subseteq Payloads(EraseSub(buffer_[key], value).data) \cup {value.data}
  <2>1. Queue(buffer_[key], now, seen.published)  BY <1>1 DEF Stocked
  <2> QED BY <2>1, QueueErase
<1>6. /\ DOMAIN buffer_' = DOMAIN buffer_
      /\ buffer_'[key] = EraseSub(buffer_[key], value)
      /\ \A k \in DOMAIN buffer_ : k # key => buffer_'[k] = buffer_[k]
  BY <1>1
<1>7. \A k \in DOMAIN buffer_' : Queue(buffer_'[k], now, seen'.published)
  BY <1>3, <1>5, <1>6 DEF Stocked
<1>8. ASSUME NEW k \in DOMAIN buffer_, NEW t \in Data, t \in Payloads(buffer_[k].data)
      PROVE  HeldIn(buffer_', k[1], t) \/ DoneIn(seen', k[1], t)
  <2>1. CASE t \in Payloads(buffer_'[k].data)  BY <1>6, <2>1 DEF HeldIn
  <2>2. CASE t \notin Payloads(buffer_'[k].data)
    <3>1. k = key /\ t = value.data  BY <1>5, <1>6, <1>8, <2>2
    <3>2. <<key[1], value.data, acking[f]>> \in seen'.acked  BY <1>3
    <3> QED BY <3>1, <3>2 DEF DoneIn
  <2> QED BY <2>1, <2>2
<1>9. \A d \in Dests, c \in BufferIds : IsFiniteSet(subscriber_buffer_cfg_'[d][c])
  BY <1>1 DEF Stocked
<1> QED BY <1>1, <1>3, <1>4, <1>7, <1>8, <1>9, StockStep

\* A value whose sub-buffer is gone is reported as acked before erase() throws.
LEMMA StockAckThrows ==
    ASSUME Matched, Stocked, Framed, NEW f \in DOMAIN acking, AckValueThrows(f)
    PROVE  Stocked'
<1> DEFINE value == Head(pending_ack_[f])
           key == value.key
<1>1. /\ subscriber_buffer_cfg_' = subscriber_buffer_cfg_ /\ now' = now /\ buffer_' = buffer_
      /\ seen' = [seen EXCEPT !.acked = @ \cup {<<key[1], value.data, acking[f]>>}]
  BY DEF AckValueThrows, config
<1>2. key[1] \in Dests /\ value.data \in Data /\ acking[f] \in Int  BY FirstValue DEF Framed
<1> HIDE DEF value, key
<1>3. /\ seen' \in SeenType /\ seen'.published = seen.published /\ seen'.pushed = seen.pushed
      /\ seen'.acked = seen.acked \cup {<<key[1], value.data, acking[f]>>}
      /\ seen'.fired = seen.fired /\ seen'.dropped = seen.dropped
      /\ seen'.overrun = seen.overrun /\ seen'.expired = seen.expired
  <2> DEFINE A == seen.acked \cup {<<key[1], value.data, acking[f]>>}
             r == [seen EXCEPT !.acked = A]
  <2>1. seen \in SeenType /\ A \in SUBSET (Dests \X Data \X Int)
    BY <1>2, SeenFields DEF Stocked
  <2>2. seen' = r  BY <1>1
  <2> HIDE DEF A
  <2>3. /\ r \in SeenType /\ r.published = seen.published /\ r.pushed = seen.pushed
        /\ r.acked = A /\ r.fired = seen.fired /\ r.dropped = seen.dropped
        /\ r.overrun = seen.overrun /\ r.expired = seen.expired
    BY ONLY <2>1 DEF SeenType
  <2> HIDE DEF r
  <2> QED BY <2>2, <2>3 DEF A
<1>4. \A d, t : DoneIn(seen, d, t) => DoneIn(seen', d, t)  BY <1>3, DoneGrows
<1>5. \A k \in DOMAIN buffer_' : Queue(buffer_'[k], now, seen'.published)
  BY <1>1, <1>3 DEF Stocked
<1>6. \A k \in DOMAIN buffer_, t \in Data : t \in Payloads(buffer_[k].data)
         => HeldIn(buffer_', k[1], t) \/ DoneIn(seen', k[1], t)
  BY <1>1 DEF HeldIn
<1>7. \A d \in Dests, c \in BufferIds : IsFiniteSet(subscriber_buffer_cfg_'[d][c])
  BY <1>1 DEF Stocked
<1> QED BY <1>1, <1>3, <1>4, <1>5, <1>6, <1>7, StockStep

\* The winner of a contest is a sub-buffer with a datum to send.
LEMMA WinnerProvides ==
    ASSUME Matched, Stocked, NEW key \in RequestWinners
    PROVE  /\ key \in DOMAIN buffer_
           /\ request.dest = Query \/ key[1] = request.dest
           /\ LET sub == TopSub(buffer_[key], now, AckTimeout)
                  i == TopIndex(buffer_[key], now, AckTimeout)
              IN  /\ Queue(sub, now, seen.published)
                  /\ Payloads(sub.data) = Payloads(buffer_[key].data)
                  /\ i \in DOMAIN buffer_[key].data /\ buffer_[key].data[i] \in Datums
<1>1. /\ key \in DOMAIN buffer_ /\ (request.dest = Query \/ key[1] = request.dest)
      /\ ValueResult(buffer_[key], now, request.room, AckTimeout) = "VALUE_PROVIDED"
  BY DEF RequestWinners, Winners, Contestants
<1>2. Queue(buffer_[key], now, seen.published) /\ now \in Nat  BY <1>1 DEF Stocked
<1>3. /\ Queue(TopSub(buffer_[key], now, AckTimeout), now, seen.published)
      /\ Payloads(TopSub(buffer_[key], now, AckTimeout).data) = Payloads(buffer_[key].data)
      /\ TopIndex(buffer_[key], now, AckTimeout) \in DOMAIN buffer_[key].data
      /\ buffer_[key].data[TopIndex(buffer_[key], now, AckTimeout)] \in Datums
  BY ONLY <1>1, <1>2, QueueTop
<1> QED BY <1>1, <1>3

\* A value put in a frame leaves the buffer only if no ack is required.
LEMMA StockTop ==
    ASSUME Matched, Stocked, NEW key \in DOMAIN buffer_, RequestTop(key)
    PROVE  Stocked'
<1> DEFINE sub == TopSub(buffer_[key], now, AckTimeout)
           datum == buffer_[key].data[TopIndex(buffer_[key], now, AckTimeout)]
           value == Value(key, datum)
           ack == sub.cfg.ack_required
           left == IF ack THEN sub ELSE EraseSub(sub, value)
           fired == IF ack THEN seen.fired ELSE seen.fired \cup {<<key[1], value.data>>}
<1>1. /\ subscriber_buffer_cfg_' = subscriber_buffer_cfg_ /\ now' = now
      /\ buffer_' = [buffer_ EXCEPT ![key] = left]
      /\ seen' = [seen EXCEPT !.fired = fired]
      /\ key \in RequestWinners
  BY DEF RequestTop, config
<1>2. /\ Queue(sub, now, seen.published) /\ Payloads(sub.data) = Payloads(buffer_[key].data)
      /\ datum \in Datums
  BY <1>1, WinnerProvides
<1>3. value.data \in Data /\ key[1] \in Dests  BY <1>2, DatumTypes, BufferKeys DEF Value
<1> HIDE DEF sub, value, ack
<1>4. /\ Queue(left, now, seen.published)
      /\ Payloads(buffer_[key].data) \subseteq Payloads(left.data)
                                               \cup IF ack THEN {} ELSE {value.data}
  <2>1. CASE ack  BY <1>2, <2>1
  <2>2. CASE ~ ack
    <3>1. /\ Queue(EraseSub(sub, value), now, seen.published)
          /\ Payloads(sub.data) \subseteq Payloads(EraseSub(sub, value).data) \cup {value.data}
      BY <1>2, QueueErase
    <3> QED BY <1>2, <2>2, <3>1
  <2> QED BY <2>1, <2>2
<1>5. seen \in SeenType /\ fired \in SUBSET (Dests \X Data)
  BY <1>3, SeenFields DEF Stocked
<1>6. seen.fired \subseteq fired /\ (~ ack => <<key[1], value.data>> \in fired)  OBVIOUS
<1> HIDE DEF left, fired
<1>7. /\ seen' \in SeenType /\ seen'.published = seen.published /\ seen'.pushed = seen.pushed
      /\ seen'.acked = seen.acked /\ seen'.fired = fired /\ seen'.overrun = seen.overrun
      /\ seen'.dropped = seen.dropped /\ seen'.expired = seen.expired
  BY <1>1, <1>5 DEF SeenType
<1>8. \A d, t : DoneIn(seen, d, t) => DoneIn(seen', d, t)  BY <1>6, <1>7, DoneGrows
<1>9. /\ DOMAIN buffer_' = DOMAIN buffer_ /\ buffer_'[key] = left
      /\ \A k \in DOMAIN buffer_ : k # key => buffer_'[k] = buffer_[k]
  BY <1>1
<1>10. \A k \in DOMAIN buffer_' : Queue(buffer_'[k], now, seen'.published)
  BY <1>4, <1>7, <1>9 DEF Stocked
<1>11. ASSUME NEW k \in DOMAIN buffer_, NEW t \in Data, t \in Payloads(buffer_[k].data)
       PROVE  HeldIn(buffer_', k[1], t) \/ DoneIn(seen', k[1], t)
  <2>1. CASE t \in Payloads(buffer_'[k].data)  BY <1>9, <2>1 DEF HeldIn
  <2>2. CASE t \notin Payloads(buffer_'[k].data)
    <3>1. k = key /\ ~ ack /\ t = value.data  BY <1>4, <1>9, <1>11, <2>2
    <3> QED BY <1>6, <1>7, <3>1 DEF DoneIn
  <2> QED BY <2>1, <2>2
<1>12. \A d \in Dests, c \in BufferIds : IsFiniteSet(subscriber_buffer_cfg_'[d][c])
  BY <1>1 DEF Stocked
<1> QED BY <1>1, <1>7, <1>8, <1>10, <1>11, <1>12, StockStep

\* Time passes.
LEMMA StockTick ==
    ASSUME Stocked, Tick
    PROVE  Stocked'
<1>1. /\ now' = now + 1 /\ now < MaxTime /\ seen' = seen /\ buffer_' = buffer_
      /\ subscriber_buffer_cfg_' = subscriber_buffer_cfg_
  BY DEF Tick, config
<1>2. now \in 1..MaxTime  BY DEF Stocked
<1>3. now' \in 1..MaxTime /\ now' \in Nat /\ now \in Nat /\ now <= now'  BY <1>1, <1>2
<1>4. \A k \in DOMAIN buffer_' : Queue(buffer_'[k], now', seen'.published)
  <2> SUFFICES ASSUME NEW k \in DOMAIN buffer_ PROVE Queue(buffer_[k], now', seen.published)
    BY <1>1
  <2>1. Queue(buffer_[k], now, seen.published) /\ seen.published \subseteq seen.published
    BY DEF Stocked
  <2> QED BY ONLY <1>3, <2>1, QueueLater
<1> QED BY <1>1, <1>3, <1>4 DEF Stocked

\* The end of a request leaves the buffer alone.
LEMMA StockDone ==
    ASSUME Stocked, Framed, RequestDone
    PROVE  Stocked'
<1>1. /\ buffer_' = buffer_ /\ now' = now /\ subscriber_buffer_cfg_' = subscriber_buffer_cfg_
  BY DEF RequestDone, config
<1>2. /\ seen' \in SeenType /\ seen'.published = seen.published /\ seen'.pushed = seen.pushed
      /\ \A d, t : DoneIn(seen, d, t) => DoneIn(seen', d, t)
  BY DoneFields, DoneGrows
<1> QED BY <1>1, <1>2 DEF Stocked

\* A restart forgets what was pushed with what was in the buffer.
LEMMA StockRestart ==
    ASSUME Stocked, Restart
    PROVE  Stocked'
<1> DEFINE r == AfterRestart(seen)
<1>1. /\ seen' = r /\ now' = now /\ buffer_' = <<>>
      /\ subscriber_buffer_cfg_' = [d \in Dests |-> [b \in BufferIds |-> {}]]
  BY DEF Restart, AfterRestart
<1>2. seen \in SeenType  BY DEF Stocked
<1>3. r \in SeenType /\ r.pushed = {}  BY <1>2, RestartFields
<1> HIDE DEF r
<1>4. seen' \in SeenType /\ seen'.pushed = {}  BY <1>1, <1>3
<1>5. \A d \in Dests, b \in BufferIds : IsFiniteSet(subscriber_buffer_cfg_'[d][b])
  BY <1>1, FS_EmptySet
<1>6. DOMAIN buffer_' = {}  BY <1>1
<1>7. now' \in 1..MaxTime  BY <1>1 DEF Stocked
<1> QED BY <1>4, <1>5, <1>6, <1>7 DEF Stocked

\* Every step leaves each message pushed in its sub-buffer or accounted for.
LEMMA NextStocked == Matched /\ Stocked /\ Framed /\ [Next]_vars => Stocked'
<1> SUFFICES ASSUME Matched, Stocked, Framed, [Next]_vars PROVE Stocked'
  OBVIOUS
<1>1. ASSUME NEW d \in Dests, NEW b \in BufferIds, NEW cfg \in SubscriberCfgs,
             _accept_subscribe(d, b, cfg)
      PROVE  Stocked'
  <2> DEFINE S == subscriber_buffer_cfg_[d][b] \cup {cfg}
  <2>1. S \in SUBSET SubscriberCfgs  BY DEF Matched, Configured, SubsType
  <2>2. SubscribersBecome(d, b, [subscriber_buffer_cfg_ EXCEPT ![d][b] = S])
    BY <1>1 DEF _accept_subscribe
  <2>3. IsFiniteSet(S)
    <3>1. IsFiniteSet(subscriber_buffer_cfg_[d][b])  BY DEF Stocked
    <3> QED BY <3>1, FS_AddElement
  <2> HIDE DEF S
  <2> QED BY <2>1, <2>2, <2>3, StockSubscribers
<1>2. ASSUME NEW d \in Dests, NEW b \in BufferIds, NEW cfg \in SubscriberCfgs,
             _accept_unsubscribe(d, b, cfg)
      PROVE  Stocked'
  <2> DEFINE S == subscriber_buffer_cfg_[d][b] \ {cfg}
  <2>1. S \in SUBSET SubscriberCfgs  BY DEF Matched, Configured, SubsType
  <2>2. SubscribersBecome(d, b, [subscriber_buffer_cfg_ EXCEPT ![d][b] = S])
    BY <1>2 DEF _accept_unsubscribe
  <2>3. IsFiniteSet(S)
    <3>1. IsFiniteSet(subscriber_buffer_cfg_[d][b])  BY DEF Stocked
    <3> QED BY <3>1, FS_RemoveElement
  <2> HIDE DEF S
  <2> QED BY <2>1, <2>2, <2>3, StockSubscribers
<1>3. ASSUME NEW d \in Dests, NEW b \in BufferIds, NEW cfg \in SubscriberCfgs,
             _accept_last_unsubscribe(d, b, cfg)
      PROVE  Stocked'
  BY <1>3, StockLastUnsubscribe
<1>4. ASSUME NEW m \in Messages, _buffer_message_omit(m) PROVE Stocked'
  BY <1>4, StockOmit
<1>5. ASSUME NEW m \in Messages, NEW has_metadata \in BOOLEAN, _buffer_message(m, has_metadata)
      PROVE  Stocked'
  BY <1>5, StockBuffer
<1>6. ASSUME NEW m \in Forwards, NEW dests \in SUBSET Dests, _forward_subscription(m, dests)
      PROVE  Stocked'
  BY <1>6, StockForward
<1>7. ASSUME NEW key \in DOMAIN buffer_, RequestTop(key) PROVE Stocked'
  BY <1>7, StockTop
<1>8. ASSUME RequestNextFrame \/ MacIdle PROVE Stocked'
  BY <1>8, StockUnmoved DEF RequestNextFrame, MacIdle, config
<1>18. ASSUME RequestDone PROVE Stocked'
  BY <1>18, StockDone
<1>9. ASSUME LoopExpire PROVE Stocked'
  BY <1>9, StockExpire
<1>10. ASSUME NEW p \in air, _receive_ack(p) PROVE Stocked'
  BY <1>10, StockUnmoved DEF _receive_ack, config
<1>11. ASSUME NEW f \in DOMAIN acking, AckValue(f) PROVE Stocked'
  BY <1>11, StockAck
<1>12. ASSUME NEW f \in DOMAIN acking, AckValueThrows(f) PROVE Stocked'
  BY <1>12, StockAckThrows
<1>13. ASSUME NEW n \in SlotFrames, NEW dest \in SlotDests, _data_request(n, dest) PROVE Stocked'
  BY <1>13, StockUnmoved DEF _data_request, config
<1>14. ASSUME NEW d \in Peers, NEW p \in air, receive_message(d, p) PROVE Stocked'
  BY <1>14, StockUnmoved DEF receive_message, config
<1>15. ASSUME Tick PROVE Stocked'
  BY <1>15, StockTick
<1>16. ASSUME Restart PROVE Stocked'
  BY <1>16, StockRestart
<1>17. ASSUME UNCHANGED vars PROVE Stocked'
  BY <1>17, StockUnmoved DEF vars, config
<1> QED
  BY <1>1, <1>2, <1>3, <1>4, <1>5, <1>6, <1>7, <1>8, <1>9, <1>10, <1>11, <1>12, <1>13,
     <1>14, <1>15, <1>16, <1>17, <1>18
  DEF Next, Handle, Loop, DataRequest

-----------------------------------------------------------------------------
(* Every step keeps the frames well formed. *)

\* The broadcast id is an integer.
LEMMA SubnetIds == _broadcast_id \in Int
<1>1. ModemId % SubnetSize \in 0..(SubnetSize - 1)  OBVIOUS
<1>2. ModemId \in Int /\ ModemId % SubnetSize \in Int  BY <1>1
<1> QED BY <1>2 DEF _broadcast_id

\* The empty request is a request.
LEMMA NoFrames == <<>> \in Frames /\ NoRequest \in Requests
<1>1. <<>> \in [{} -> SUBSET Data] /\ {} \in SUBSET Nat  OBVIOUS
<1>2. <<>> \in Frames  BY <1>1 DEF Frames
<1> QED BY <1>2 DEF NoRequest, Requests

\* A packet in the air is one of data or an ack.
LEMMA PacketTypes ==
    ASSUME Framed, NEW p \in air
    PROVE  /\ p.type = "DATA" => p \in DataPackets
           /\ p.type = "ACK" => p \in AckPackets
           /\ p.type \in {"DATA", "ACK"}
BY DEF Framed, DataPackets, AckPackets

\* The fields of a data packet have their types.
LEMMA DataPacketFields ==
    ASSUME NEW p \in DataPackets
    PROVE  /\ p.src \in Int /\ p.dest \in Int /\ p.ack \in BOOLEAN
           /\ DOMAIN p.frames \subseteq Nat
           /\ \A f \in DOMAIN p.frames : p.frames[f] \subseteq Data
           /\ Contents(p) \subseteq Data
<1>1. p.src \in Int /\ p.dest \in Int /\ p.ack \in BOOLEAN /\ p.frames \in Frames
  BY DEF DataPackets
<1>2. PICK S \in SUBSET Nat : p.frames \in [S -> SUBSET Data]  BY <1>1 DEF Frames
<1>3. DOMAIN p.frames \subseteq Nat /\ \A f \in DOMAIN p.frames : p.frames[f] \subseteq Data
  BY <1>2
<1> HIDE DEF DataPackets
<1>4. Contents(p) \subseteq Data  BY <1>3 DEF Contents, Range
<1> QED BY <1>1, <1>3, <1>4

\* The thread starts without pending frames.
LEMMA InitFramed == Init => Framed
<1> SUFFICES ASSUME Init PROVE Framed
  OBVIOUS
<1>1. request \in Requests  BY NoFrames DEF Init
<1>2. DOMAIN pending_ack_ = {} /\ DOMAIN acking = {} /\ air = {} /\ thread = "idle" /\ loaded = {}
      /\ received \in [Peers -> SUBSET Data] /\ next_frame_ = 0
  BY DEF Init
<1>3. next_frame_ \in 0..(MaxFrame + 1)  BY <1>2
<1> QED BY <1>1, <1>2, <1>3 DEF Framed

\* A step of the thread that has nothing to do with frames.
LEMMA FramesUnmoved ==
    ASSUME Framed, loaded' \subseteq BufferIds,
           UNCHANGED <<pending_ack_, acking, next_frame_, request, air, received>>,
           \/ thread' = thread
           \/ /\ thread \in {"idle", "driver"}
              /\ thread' \in {"idle", "driver", "create threw", "push threw"}
    PROVE  Framed'
<1>1. thread' = thread => (thread' = "request" => Filling')  BY DEF Framed, Filling
<1> QED BY <1>1 DEF Framed

\* An ack lists frames, which are acknowledged one by one.
LEMMA FramesReceiveAck ==
    ASSUME Framed, NEW p \in air, _receive_ack(p)
    PROVE  Framed'
<1>1. /\ thread' = "ack" /\ p.type = "ACK"
      /\ acking' = [f \in p.acked \cap DOMAIN pending_ack_ |-> _full_id(p.src)]
      /\ UNCHANGED <<loaded, pending_ack_, next_frame_, request, air, received>>
  BY DEF _receive_ack, config
<1>2. p.src \in Int
  <2>1. p \in AckPackets  BY <1>1, PacketTypes
  <2> QED BY <2>1 DEF AckPackets
<1>3. _full_id(p.src) \in Int  BY <1>2, SubnetIds DEF _full_id
<1>4. DOMAIN acking' \subseteq DOMAIN pending_ack_' /\ \A f \in DOMAIN acking' : acking'[f] \in Int
  BY <1>1, <1>3
<1> QED BY <1>1, <1>4 DEF Framed

\* An acknowledged value leaves the pending ones.
LEMMA FramesAck ==
    ASSUME Framed, NEW f \in DOMAIN acking, AckValue(f)
    PROVE  Framed'
<1> DEFINE done == Len(pending_ack_[f]) = 1
<1>1. /\ pending_ack_' = IF done THEN Without(pending_ack_, {f})
                         ELSE [pending_ack_ EXCEPT ![f] = Tail(pending_ack_[f])]
      /\ acking' = IF done THEN Without(acking, {f}) ELSE acking
      /\ thread' = IF done /\ DOMAIN acking = {f} THEN "driver" ELSE "ack"
      /\ UNCHANGED <<loaded, next_frame_, request, air, received>>
  BY DEF AckValue, config
<1>2. /\ f \in DOMAIN pending_ack_ /\ DOMAIN acking \subseteq DOMAIN pending_ack_
      /\ \A g \in DOMAIN acking : acking[g] \in Int
      /\ DOMAIN pending_ack_ \subseteq 0..MaxFrame
      /\ \A g \in DOMAIN pending_ack_ : pending_ack_[g] \in Seq(Values) /\ pending_ack_[g] # <<>>
  BY DEF Framed
<1>3. /\ DOMAIN pending_ack_' \subseteq 0..MaxFrame
      /\ \A g \in DOMAIN pending_ack_' :
            pending_ack_'[g] \in Seq(Values) /\ pending_ack_'[g] # <<>>
      /\ DOMAIN acking' \subseteq DOMAIN pending_ack_'
      /\ \A g \in DOMAIN acking' : acking'[g] \in Int
  <2>1. CASE done
    <3>1. /\ DOMAIN pending_ack_' = DOMAIN pending_ack_ \ {f}
          /\ \A g \in DOMAIN pending_ack_' : pending_ack_'[g] = pending_ack_[g]
          /\ DOMAIN acking' = DOMAIN acking \ {f}
          /\ \A g \in DOMAIN acking' : acking'[g] = acking[g]
      BY <1>1, <2>1 DEF Without
    <3> QED BY <1>2, <3>1
  <2>2. CASE ~ done
    <3>1. /\ DOMAIN pending_ack_' = DOMAIN pending_ack_
          /\ \A g \in DOMAIN pending_ack_' :
                pending_ack_'[g] = IF g = f THEN Tail(pending_ack_[f]) ELSE pending_ack_[g]
          /\ acking' = acking
      BY <1>1, <1>2, <2>2
    <3>2. Tail(pending_ack_[f]) \in Seq(Values) /\ Tail(pending_ack_[f]) # <<>>
      <4>1. pending_ack_[f] \in Seq(Values) /\ Len(pending_ack_[f]) # 1 /\ pending_ack_[f] # <<>>
        BY <1>2, <2>2
      <4> DEFINE q == pending_ack_[f]
      <4> HIDE DEF q
      <4>2. q \in Seq(Values) /\ Len(q) # 1 /\ q # <<>>  BY <4>1 DEF q
      <4>3. Len(q) \in Nat /\ Len(q) # 0  BY <4>2, LenProperties, EmptySeq
      <4>4. Tail(q) \in Seq(Values) /\ Len(Tail(q)) = Len(q) - 1  BY <4>2, HeadTailProperties
      <4>5. Len(Tail(q)) # 0  BY <4>2, <4>3, <4>4
      <4>6. Tail(q) # <<>>  BY <4>4, <4>5, EmptySeq
      <4> QED BY <4>4, <4>6 DEF q
    <3> QED BY <1>2, <3>1, <3>2
  <2> QED BY <2>1, <2>2
<1>4. thread' \in {"driver", "ack"} /\ (thread' # "ack" => DOMAIN acking' = {})
  BY <1>1 DEF Without
<1> HIDE DEF done
<1> QED BY <1>1, <1>3, <1>4 DEF Framed

\* So it does if erase() throws.
LEMMA FramesAckThrows ==
    ASSUME Framed, NEW f \in DOMAIN acking, AckValueThrows(f)
    PROVE  Framed'
<1>1. /\ thread' = "erase threw"
      /\ UNCHANGED <<loaded, acking, pending_ack_, next_frame_, request, air, received>>
  BY DEF AckValueThrows, config
<1> QED BY <1>1 DEF Framed

\* A request begins at next_frame_.
LEMMA FramesDataRequest ==
    ASSUME Framed, NEW n \in SlotFrames, NEW dest \in SlotDests, _data_request(n, dest)
    PROVE  Framed'
<1> DEFINE a == next_frame_
           last == next_frame_ + n - 1
           frames == [f \in a..last |-> {}]
           old == {f \in DOMAIN pending_ack_ : f >= next_frame_}
<1>1. /\ thread = "driver" /\ last <= MaxFrame /\ thread' = "request"
      /\ pending_ack_' = Without(pending_ack_, old)
      /\ request' = [start |-> a, frame |-> a, last |-> last, dest |-> dest,
                     room |-> MaxFrameBytes, frames |-> frames, ack |-> FALSE]
      /\ UNCHANGED <<loaded, acking, next_frame_, air, received>>
  BY DEF _data_request, config
<1>2. n \in Nat /\ n # 0 /\ a \in Nat
  <2>1. next_frame_ \in 0..(MaxFrame + 1)  BY DEF Framed
  <2>2. next_frame_ \in Nat  BY <2>1
  <2>3. n \in Nat /\ n # 0  BY ModemDriverAssumption
  <2> QED BY <2>2, <2>3
<1>3. last \in a..MaxFrame /\ last \in Nat /\ a \in a..(last + 1) /\ a..last \subseteq Nat
  BY <1>1, <1>2
<1>4. frames \in Frames /\ DOMAIN frames = a..last /\ \A f \in a..last : frames[f] = {}
  <2>1. frames \in [a..last -> SUBSET Data]  OBVIOUS
  <2>2. a..last \in SUBSET Nat  BY <1>3
  <2> HIDE DEF last, a
  <2> QED BY <2>1, <2>2 DEF Frames
<1>5. /\ DOMAIN pending_ack_' \subseteq DOMAIN pending_ack_
      /\ \A f \in DOMAIN pending_ack_' : pending_ack_'[f] = pending_ack_[f]
  BY <1>1 DEF Without
<1> HIDE DEF a, last, frames, old
<1>6. request' \in Requests
  <2>1. MaxFrameBytes \in Int /\ dest \in Dests \cup SlotDests \cup {Query}  BY BufferConfigAssumption
  <2> QED BY <1>1, <1>2, <1>3, <1>4, <2>1 DEF Requests
<1>7. Filling'
  <2>1. next_frame_' = a  BY <1>1 DEF a
  <2>2. /\ request'.start = a /\ request'.frame = a /\ request'.last = last
        /\ request'.dest = dest /\ request'.frames = frames
    BY <1>1
  <2> QED BY <1>3, <1>4, <2>1, <2>2 DEF Filling
<1>8. DOMAIN acking' = {}  BY <1>1 DEF Framed
<1> QED BY <1>1, <1>5, <1>6, <1>7, <1>8 DEF Framed

\* The fields of a request have their types.
LEMMA RequestFields ==
    ASSUME NEW r \in Requests
    PROVE  /\ r.start \in Nat /\ r.frame \in Nat /\ r.last \in Nat /\ r.room \in Int
           /\ r.dest \in Dests \cup SlotDests \cup {Query} /\ r.ack \in BOOLEAN
           /\ r.frames \in Frames /\ DOMAIN r.frames \subseteq Nat
           /\ \A f \in DOMAIN r.frames : r.frames[f] \subseteq Data
<1>1. /\ r.start \in Nat /\ r.frame \in Nat /\ r.last \in Nat /\ r.room \in Int
      /\ r.dest \in Dests \cup SlotDests \cup {Query} /\ r.ack \in BOOLEAN /\ r.frames \in Frames
  BY DEF Requests
<1>2. PICK S \in SUBSET Nat : r.frames \in [S -> SUBSET Data]  BY <1>1 DEF Frames
<1> QED BY <1>1, <1>2

\* The datum that wins the contest is put in the frame being filled.
LEMMA FramesTopEffect ==
    ASSUME Matched, Stocked, Framed, NEW key \in DOMAIN buffer_, RequestTop(key)
    PROVE  LET sub == TopSub(buffer_[key], now, AckTimeout)
               value == Value(key, buffer_[key].data[TopIndex(buffer_[key], now, AckTimeout)])
               ack == sub.cfg.ack_required
               f == request.frame
           IN  /\ value \in Values /\ value.key = key /\ value.data \in Data
               /\ f \in DOMAIN request.frames /\ f \in 0..MaxFrame /\ f >= next_frame_
               /\ request' \in Requests
               /\ request'.start = request.start /\ request'.frame = f
               /\ request'.last = request.last /\ request'.dest = key[1]
               /\ request'.frames = [request.frames EXCEPT ![f] = @ \cup {value.data}]
               /\ key[1] \in Dests
               /\ request.dest = Query \/ key[1] = request.dest
               /\ pending_ack_' = IF ~ ack THEN pending_ack_
                     ELSE Put(pending_ack_, f, IF f \in DOMAIN pending_ack_
                                               THEN Append(pending_ack_[f], value) ELSE <<value>>)
               /\ seen' = [seen EXCEPT !.fired = IF ack THEN @ ELSE @ \cup {<<key[1], value.data>>}]
               /\ thread = "request" /\ thread' = "request"
               /\ UNCHANGED <<loaded, acking, next_frame_, air, received>>
<1> DEFINE sub == TopSub(buffer_[key], now, AckTimeout)
           datum == buffer_[key].data[TopIndex(buffer_[key], now, AckTimeout)]
           value == Value(key, datum)
           ack == sub.cfg.ack_required
           f == request.frame
           filled == [request.frames EXCEPT ![f] = @ \cup {value.data}]
           room == request.room - DataSize[value.data]
           mark == request.ack \/ ack
<1>1. key \in RequestWinners  BY DEF RequestTop
<1>2. datum \in Datums /\ (request.dest = Query \/ key[1] = request.dest)  BY <1>1, WinnerProvides
<1>3. key \in Dests \X (BufferIds \cup {SubscriptionKey}) /\ key[1] \in Dests  BY BufferKeys
<1>4. value \in Values /\ value.key = key /\ value.data \in Data
  <2>1. datum.push_time \in Nat /\ datum.data \in Data  BY <1>2, DatumTypes
  <2> HIDE DEF datum
  <2> QED BY <1>3, <2>1 DEF Value, Values
<1>5. /\ thread = "request" /\ f <= request.last /\ thread' = "request"
      /\ request' = [request EXCEPT !.dest = key[1], !.room = room,
                                    !.frames = filled, !.ack = mark]
      /\ pending_ack_' = IF ~ ack THEN pending_ack_
            ELSE Put(pending_ack_, f, IF f \in DOMAIN pending_ack_
                                      THEN Append(pending_ack_[f], value) ELSE <<value>>)
      /\ seen' = [seen EXCEPT !.fired = IF ack THEN @ ELSE @ \cup {<<key[1], value.data>>}]
      /\ UNCHANGED <<loaded, acking, next_frame_, air, received>>
  BY DEF RequestTop, config
<1> HIDE DEF value, ack
<1>6. Filling /\ request \in Requests /\ next_frame_ \in 0..(MaxFrame + 1)  BY <1>5 DEF Framed
<1>7. /\ request.last \in next_frame_..MaxFrame /\ f \in next_frame_..(request.last + 1)
      /\ DOMAIN request.frames = next_frame_..request.last
  BY <1>6 DEF Filling
<1> HIDE DEF f
<1>8. f \in next_frame_..request.last /\ f \in 0..MaxFrame /\ f >= next_frame_
  <2>1. request.last \in Int /\ next_frame_ \in Nat  BY <1>6, <1>7
  <2>2. f \in Int /\ f >= next_frame_ /\ f <= request.last /\ request.last <= MaxFrame
    BY <1>5, <1>7, <2>1
  <2> QED BY <2>1, <2>2
<1>9. room \in Int
  <2>1. DataSize[value.data] \in Nat  BY <1>4, BufferConfigAssumption
  <2>2. request.room \in Int  BY <1>6, RequestFields
  <2> QED BY <2>1, <2>2
<1>10. filled \in Frames
  <2>1. request.frames \in Frames  BY <1>6, RequestFields
  <2>2. PICK S \in SUBSET Nat : request.frames \in [S -> SUBSET Data]  BY <2>1 DEF Frames
  <2>3. filled \in [S -> SUBSET Data]  BY <1>4, <2>2
  <2> QED BY <2>2, <2>3 DEF Frames
<1>11. mark \in BOOLEAN  OBVIOUS
<1> DEFINE r == [request EXCEPT !.dest = key[1], !.room = room, !.frames = filled, !.ack = mark]
<1> HIDE DEF room, filled, mark
<1>12. /\ r \in Requests /\ r.start = request.start /\ r.frame = request.frame
       /\ r.last = request.last /\ r.dest = key[1] /\ r.frames = filled
  BY ONLY <1>3, <1>6, <1>9, <1>10, <1>11 DEF Requests
<1>13. request' = r  BY <1>5
<1> HIDE DEF r
<1>14. /\ request' \in Requests /\ request'.start = request.start /\ request'.frame = f
       /\ request'.last = request.last /\ request'.dest = key[1]
       /\ request'.frames = [request.frames EXCEPT ![f] = @ \cup {value.data}]
  BY <1>12, <1>13 DEF f, filled
<1> QED BY <1>2, <1>3, <1>4, <1>5, <1>7, <1>8, <1>14 DEF value, ack, f

\* A value goes into the current frame, to the destination of the request.
LEMMA FramesTop ==
    ASSUME Matched, Stocked, Framed, NEW key \in DOMAIN buffer_, RequestTop(key)
    PROVE  Framed'
<1> DEFINE sub == TopSub(buffer_[key], now, AckTimeout)
           value == Value(key, buffer_[key].data[TopIndex(buffer_[key], now, AckTimeout)])
           ack == sub.cfg.ack_required
           f == request.frame
           list == IF f \in DOMAIN pending_ack_ THEN Append(pending_ack_[f], value) ELSE <<value>>
<1>1. /\ value \in Values /\ value.data \in Data
      /\ f \in DOMAIN request.frames /\ f \in 0..MaxFrame
      /\ request' \in Requests
      /\ request'.start = request.start /\ request'.frame = f
      /\ request'.last = request.last /\ request'.dest = key[1]
      /\ request'.frames = [request.frames EXCEPT ![f] = @ \cup {value.data}]
      /\ key[1] \in Dests
      /\ pending_ack_' = IF ~ ack THEN pending_ack_ ELSE Put(pending_ack_, f, list)
      /\ thread = "request" /\ thread' = "request"
      /\ UNCHANGED <<loaded, acking, next_frame_, air, received>>
  BY FramesTopEffect
<1> HIDE DEF value, ack, f
<1>2. /\ DOMAIN pending_ack_ \subseteq 0..MaxFrame
      /\ \A g \in DOMAIN pending_ack_ : pending_ack_[g] \in Seq(Values) /\ pending_ack_[g] # <<>>
      /\ DOMAIN acking \subseteq DOMAIN pending_ack_ /\ \A g \in DOMAIN acking : acking[g] \in Int
  BY DEF Framed
<1>3. list \in Seq(Values) /\ list # <<>>
  <2>1. CASE f \in DOMAIN pending_ack_
    <3>1. list = Append(pending_ack_[f], value) /\ pending_ack_[f] \in Seq(Values)  BY <1>2, <2>1
    <3>2. Append(pending_ack_[f], value) \in Seq(Values)
          /\ Append(pending_ack_[f], value) # <<>>
      BY <1>1, <3>1, AppendProperties
    <3> QED BY <3>1, <3>2
  <2>2. CASE f \notin DOMAIN pending_ack_  BY <1>1, <2>2
  <2> QED BY <2>1, <2>2
<1> HIDE DEF list
<1>4. /\ DOMAIN pending_ack_' \subseteq 0..MaxFrame
      /\ \A g \in DOMAIN pending_ack_' :
            pending_ack_'[g] \in Seq(Values) /\ pending_ack_'[g] # <<>>
      /\ DOMAIN acking' \subseteq DOMAIN pending_ack_' /\ \A g \in DOMAIN acking' : acking'[g] \in Int
  <2>1. CASE ack
    <3>1. /\ DOMAIN pending_ack_' = DOMAIN pending_ack_ \cup {f}
          /\ \A g \in DOMAIN pending_ack_' :
                pending_ack_'[g] = IF g = f THEN list ELSE pending_ack_[g]
      BY <1>1, <2>1 DEF Put
    <3> QED BY <1>1, <1>2, <1>3, <3>1
  <2>2. CASE ~ ack  BY <1>1, <1>2, <2>2
  <2> QED BY <2>1, <2>2
<1>5. Filling'
  <2>1. Filling  BY <1>1 DEF Framed
  <2>2. DOMAIN request'.frames = DOMAIN request.frames  BY <1>1
  <2> QED BY <1>1, <2>1, <2>2 DEF Filling, f
<1> QED BY <1>1, <1>4, <1>5 DEF Framed

\* The next frame has the next number.
LEMMA FramesNextFrame ==
    ASSUME Framed, RequestNextFrame
    PROVE  Framed'
<1> DEFINE g == request.frame + 1
           r == [request EXCEPT !.frame = g, !.room = MaxFrameBytes]
<1>1. /\ thread = "request" /\ thread' = "request" /\ request.frame <= request.last
      /\ request' = r
      /\ UNCHANGED <<loaded, pending_ack_, acking, next_frame_, air, received>>
  BY DEF RequestNextFrame, config
<1>2. Filling /\ request \in Requests /\ next_frame_ \in 0..(MaxFrame + 1)  BY <1>1 DEF Framed
<1>3. request.frame \in Nat /\ request.last \in Nat  BY <1>2, RequestFields
<1>4. g \in Nat /\ g \in next_frame_..(request.last + 1)
  <2>1. request.frame \in next_frame_..(request.last + 1)  BY <1>2 DEF Filling
  <2> QED BY <1>1, <1>2, <1>3, <2>1
<1>5. MaxFrameBytes \in Int  BY BufferConfigAssumption
<1> HIDE DEF g
<1>6. /\ r \in Requests /\ r.start = request.start /\ r.frame = g /\ r.last = request.last
      /\ r.dest = request.dest /\ r.frames = request.frames
  BY ONLY <1>2, <1>4, <1>5 DEF Requests
<1> HIDE DEF r
<1>7. Filling'  BY <1>1, <1>2, <1>4, <1>6 DEF Filling
<1> QED BY <1>1, <1>6, <1>7 DEF Framed

\* Nothing but data for one destination is sent.
LEMMA PacketSent ==
    ASSUME Framed, RequestDone, request.frames[request.start] # {}
    PROVE  Packet(request) \in DataPackets /\ request.dest \in Dests
<1>1. Filling /\ request \in Requests /\ next_frame_ \in 0..(MaxFrame + 1)
  BY DEF Framed, RequestDone
<1>2. request.start = next_frame_ /\ request.last \in next_frame_..MaxFrame
      /\ DOMAIN request.frames = next_frame_..request.last
  BY <1>1 DEF Filling
<1>3. request.start \in DOMAIN request.frames  BY <1>1, <1>2
<1>4. request.dest \in Dests  BY <1>1, <1>3 DEF Filling
<1>5. _id_within_subnet(request.dest) \in Int /\ _id_within_subnet(ModemId) \in Int
  <2>1. request.dest \in Nat /\ ModemId \in Nat  BY <1>4, ModemDriverAssumption
  <2>2. request.dest \in Int /\ ModemId \in Int  BY <2>1
  <2> QED BY <2>2, SubnetIds DEF _id_within_subnet
<1>6. request.frames \in Frames /\ request.ack \in BOOLEAN  BY <1>1, RequestFields
<1> QED BY <1>4, <1>5, <1>6 DEF Packet, DataPackets

\* A finished request becomes a packet.
LEMMA FramesDone ==
    ASSUME Framed, RequestDone
    PROVE  Framed'
<1>1. /\ thread = "request" /\ thread' = "idle" /\ next_frame_' = request.last + 1
      /\ air' = IF request.frames[request.start] = {} THEN air ELSE air \cup {Packet(request)}
      /\ request' = NoRequest
      /\ UNCHANGED <<loaded, pending_ack_, acking, received>>
  BY DEF RequestDone, config
<1>2. air' \subseteq DataPackets \cup AckPackets
  <2>1. air \subseteq DataPackets \cup AckPackets  BY DEF Framed
  <2> QED BY <1>1, <2>1, PacketSent
<1>3. next_frame_' \in 0..(MaxFrame + 1)
  <2>1. Filling /\ next_frame_ \in 0..(MaxFrame + 1)  BY <1>1 DEF Framed
  <2>2. request.last \in next_frame_..MaxFrame  BY <2>1 DEF Filling
  <2> QED BY <1>1, <2>1, <2>2
<1>4. request' \in Requests  BY <1>1, NoFrames
<1> QED BY <1>1, <1>2, <1>3, <1>4 DEF Framed

\* A peer acknowledges frames of the packet it received.
LEMMA FramesReceive ==
    ASSUME Framed, NEW d \in Peers, NEW p \in air, receive_message(d, p)
    PROVE  Framed'
<1> DEFINE a == [type |-> "ACK", src |-> p.dest, dest |-> p.src, acked |-> DOMAIN p.frames]
<1>1. /\ p.type = "DATA"
      /\ air' = IF p.ack /\ p.dest = _id_within_subnet(d) THEN air \cup {a} ELSE air
      /\ received' = [received EXCEPT ![d] = @ \cup Contents(p)]
      /\ UNCHANGED <<loaded, pending_ack_, acking, next_frame_, thread, request>>
  BY DEF receive_message, config
<1>2. p \in DataPackets  BY <1>1, PacketTypes
<1>3. /\ p.src \in Int /\ p.dest \in Int /\ DOMAIN p.frames \subseteq Nat /\ Contents(p) \subseteq Data
  BY <1>2, DataPacketFields
<1>4. a \in AckPackets  BY <1>3 DEF AckPackets
<1> HIDE DEF a
<1>5. air' \subseteq DataPackets \cup AckPackets  BY <1>1, <1>4 DEF Framed
<1>6. received' \in [Peers -> SUBSET Data]
  <2>1. received \in [Peers -> SUBSET Data]  BY DEF Framed
  <2> QED BY <1>1, <1>3, <2>1
<1>7. thread' = "request" => Filling'  BY <1>1 DEF Framed, Filling
<1> QED BY <1>1, <1>5, <1>6, <1>7 DEF Framed

\* A restart forgets all frames.
LEMMA FramesRestart ==
    ASSUME Framed, Restart
    PROVE  Framed'
<1>1. /\ pending_ack_' = <<>> /\ acking' = <<>> /\ loaded' = {} /\ next_frame_' = 0
      /\ thread' = "idle" /\ request' = NoRequest /\ UNCHANGED <<air, received>>
  BY DEF Restart
<1>2. DOMAIN pending_ack_' = {} /\ DOMAIN acking' = {} /\ next_frame_' \in 0..(MaxFrame + 1)  BY <1>1
<1>3. request' \in Requests  BY <1>1, NoFrames
<1> QED BY <1>1, <1>2, <1>3 DEF Framed

\* Every step keeps the frames in order.
LEMMA NextFramed == Matched /\ Stocked /\ Framed /\ [Next]_vars => Framed'
<1> SUFFICES ASSUME Matched, Stocked, Framed, [Next]_vars PROVE Framed'
  OBVIOUS
<1>0. loaded \subseteq BufferIds  BY DEF Framed
<1>1. ASSUME NEW d \in Dests, NEW b \in BufferIds, NEW cfg \in SubscriberCfgs,
             \/ _accept_subscribe(d, b, cfg) \/ _accept_unsubscribe(d, b, cfg)
             \/ _accept_last_unsubscribe(d, b, cfg)
      PROVE  Framed'
  BY <1>0, <1>1, FramesUnmoved
  DEF _accept_subscribe, _accept_unsubscribe, _accept_last_unsubscribe, SubscribersBecome
<1>2. ASSUME NEW m \in Messages, _buffer_message_omit(m) PROVE Framed'
  BY <1>0, <1>2, FramesUnmoved DEF _buffer_message_omit, config
<1>3. ASSUME NEW m \in Messages, NEW has_metadata \in BOOLEAN, _buffer_message(m, has_metadata)
      PROVE  Framed'
  <2>1. BufferOf[m] \in BufferIds  OBVIOUS
  <2>2. /\ loaded' = loaded \cup {BufferOf[m]} /\ thread = "idle"
        /\ thread' \in {"idle", "driver", "create threw", "push threw"}
        /\ UNCHANGED <<pending_ack_, acking, next_frame_, request, air, received>>
    BY <1>3 DEF _buffer_message
  <2>3. loaded' \subseteq BufferIds  BY <1>0, <2>1, <2>2
  <2> QED BY <2>2, <2>3, FramesUnmoved
<1>4. ASSUME NEW m \in Forwards, NEW dests \in SUBSET Dests, _forward_subscription(m, dests)
      PROVE  Framed'
  BY <1>0, <1>4, FramesUnmoved DEF _forward_subscription
<1>5. ASSUME NEW key \in DOMAIN buffer_, RequestTop(key) PROVE Framed'
  BY <1>5, FramesTop
<1>6. ASSUME RequestNextFrame PROVE Framed'
  BY <1>6, FramesNextFrame
<1>7. ASSUME RequestDone PROVE Framed'
  BY <1>7, FramesDone
<1>8. ASSUME LoopExpire \/ MacIdle \/ Tick PROVE Framed'
  BY <1>0, <1>8, FramesUnmoved DEF LoopExpire, MacIdle, Tick, config
<1>9. ASSUME NEW p \in air, _receive_ack(p) PROVE Framed'
  BY <1>9, FramesReceiveAck
<1>10. ASSUME NEW f \in DOMAIN acking, AckValue(f) PROVE Framed'
  BY <1>10, FramesAck
<1>11. ASSUME NEW f \in DOMAIN acking, AckValueThrows(f) PROVE Framed'
  BY <1>11, FramesAckThrows
<1>12. ASSUME NEW n \in SlotFrames, NEW dest \in SlotDests, _data_request(n, dest) PROVE Framed'
  BY <1>12, FramesDataRequest
<1>13. ASSUME NEW d \in Peers, NEW p \in air, receive_message(d, p) PROVE Framed'
  BY <1>13, FramesReceive
<1>14. ASSUME Restart PROVE Framed'
  BY <1>14, FramesRestart
<1>15. ASSUME UNCHANGED vars PROVE Framed'
  BY <1>0, <1>15, FramesUnmoved DEF vars, config
<1> QED
  BY <1>1, <1>2, <1>3, <1>4, <1>5, <1>6, <1>7, <1>8, <1>9, <1>10, <1>11, <1>12, <1>13,
     <1>14, <1>15
  DEF Next, Handle, Loop, DataRequest

\* The inductive invariant of the rest.
Consistent == Matched /\ Stocked /\ Framed

\* Records, stocks and frames are in order in every behaviour.
LEMMA AlwaysConsistent == Spec => []Consistent
<1>1. Init => Consistent
  BY InitMatched, InitStocked, InitFramed DEF Consistent
<1>2. Consistent /\ [Next]_vars => Consistent'
  BY NextMatched, NextStocked, NextFramed DEF Consistent
<1> QED BY <1>1, <1>2, PTL DEF Spec

\* The state of the thread, of its driver and of the peers keeps its type,
\* whatever is published, sent, lost, acked or restarted; the frames of a data
\* request are numbered from the driver's next frame.
THEOREM DriverTypeCorrect == Spec => []TypeOK
<1>1. Consistent => TypeOK
  <2> SUFFICES ASSUME Consistent PROVE TypeOK
    OBVIOUS
  <2>1. DOMAIN buffer_ \subseteq Dests \X (BufferIds \cup {SubscriptionKey})
    BY BufferKeys DEF Consistent
  <2>2. /\ DOMAIN publisher_buffer_cfg_ = BufferIds
        /\ subscriber_buffer_cfg_ \in [Dests -> [BufferIds -> SUBSET SubscriberCfgs]]
        /\ subbuffers_created_ \in [BufferIds -> SUBSET Dests]
        /\ subscription_subbuffers_ \subseteq Dests
    BY DEF Consistent, Matched, Configured, PubsType, SubsType
  <2>3. now \in 1..MaxTime  BY DEF Consistent, Stocked
  <2>4. Framed  BY DEF Consistent
  <2> QED BY <2>1, <2>2, <2>3, <2>4 DEF Framed, Filling, TypeOK
<1> QED BY <1>1, AlwaysConsistent, PTL

-----------------------------------------------------------------------------
(* Acks, until the process restarts. *)

\* The packet has reached the peer it is for.
Arrived(p) ==
    /\ p.type = "DATA" /\ _full_id(p.dest) \in Peers
    /\ Contents(p) \subseteq received[_full_id(p.dest)]

\* Frame numbers are used once.
Numbered == \A p \in air : p.type = "DATA" => DOMAIN p.frames \subseteq 0..(next_frame_ - 1)

\* An ack is for the frames of a packet that arrived, and so are the frames
\* being acked.
Genuine ==
    /\ \A a \in air : a.type = "ACK" =>
          \E p \in air : Arrived(p) /\ a.acked = DOMAIN p.frames /\ a.src = p.dest
    /\ \A f \in DOMAIN acking :
          \E p \in air : Arrived(p) /\ f \in DOMAIN p.frames /\ acking[f] = _full_id(p.dest)

\* The values to be acked with a frame are for one destination, and were in the
\* frame that was sent or are in the one being filled.
Entered(list, d, data) == \A i \in DOMAIN list : list[i].key[1] = d /\ list[i].data \in data
Sent ==
    \A p \in air, f \in DOMAIN pending_ack_ :
        p.type = "DATA" /\ f \in DOMAIN p.frames
           => Entered(pending_ack_[f], _full_id(p.dest), p.frames[f])
Unsent ==
    \A f \in DOMAIN pending_ack_ : f >= next_frame_
        => /\ thread = "request" /\ f <= request.last
           /\ Entered(pending_ack_[f], request.dest, request.frames[f])

\* The inductive invariant.
Addressed == Numbered /\ Genuine /\ Sent /\ Unsent /\ AckMeansReceived

\* The full id of a destination is regained from its id within the subnet.
LEMMA FullId ==
    ASSUME NEW d \in Dests
    PROVE  _full_id(_id_within_subnet(d)) = d
<1>1. d \in Nat  BY ModemDriverAssumption
<1>2. d \in Int  BY <1>1
<1> QED BY <1>2, SubnetIds DEF _full_id, _id_within_subnet

\* No frame is pending and nothing is in the air at first.
LEMMA InitAddressed == Init => Addressed
<1> SUFFICES ASSUME Init PROVE Addressed
  OBVIOUS
<1>1. air = {} /\ DOMAIN acking = {} /\ DOMAIN pending_ack_ = {} /\ seen.acked = {}
  BY DEF Init
<1> QED BY <1>1 DEF Addressed, Numbered, Genuine, Sent, Unsent, AckMeansReceived

\* A step that touches neither frames nor packets keeps the argument about
\* acks.
LEMMA AddressedUnmoved ==
    ASSUME Addressed, UNCHANGED <<pending_ack_, acking, next_frame_, request, air, received>>,
           seen'.acked = seen.acked, thread' = thread \/ thread # "request"
    PROVE  Addressed'
<1>1. Numbered' /\ Genuine' /\ Sent' /\ AckMeansReceived'
  BY DEF Addressed, Numbered, Genuine, Sent, AckMeansReceived, Arrived
<1>2. Unsent'  BY DEF Addressed, Unsent
<1> QED BY <1>1, <1>2 DEF Addressed

\* An ack that is accepted names frames whose contents its sender received.
LEMMA AddressedReceiveAck ==
    ASSUME Framed, Addressed, NEW p \in air, _receive_ack(p)
    PROVE  Addressed'
<1>1. /\ thread = "driver" /\ p.type = "ACK"
      /\ acking' = [f \in p.acked \cap DOMAIN pending_ack_ |-> _full_id(p.src)]
      /\ UNCHANGED <<pending_ack_, next_frame_, request, air, received, seen>>
  BY DEF _receive_ack
<1>2. PICK q \in air : Arrived(q) /\ p.acked = DOMAIN q.frames /\ p.src = q.dest
  BY <1>1 DEF Addressed, Genuine
<1>3. Genuine'
  <2>1. \A a \in air' : a.type = "ACK" =>
           \E r \in air' : Arrived(r)' /\ a.acked = DOMAIN r.frames /\ a.src = r.dest
    BY <1>1 DEF Addressed, Genuine, Arrived
  <2>2. \A f \in DOMAIN acking' :
           \E r \in air' : Arrived(r)' /\ f \in DOMAIN r.frames /\ acking'[f] = _full_id(r.dest)
    BY <1>1, <1>2 DEF Arrived
  <2> QED BY <2>1, <2>2 DEF Genuine
<1>4. Numbered' /\ Sent' /\ AckMeansReceived'
  BY <1>1 DEF Addressed, Numbered, Sent, AckMeansReceived
<1>5. Unsent'  BY <1>1 DEF Addressed, Unsent
<1> QED BY <1>3, <1>4, <1>5 DEF Addressed

\* A value that is acked was received.
LEMMA AckedArrived ==
    ASSUME Framed, Addressed, NEW f \in DOMAIN acking
    PROVE  LET v == Head(pending_ack_[f])
           IN  v.key[1] \in Peers /\ v.data \in received[v.key[1]] /\ acking[f] = v.key[1]
<1> DEFINE q == pending_ack_[f]
           v == Head(q)
<1>1. PICK p \in air : Arrived(p) /\ f \in DOMAIN p.frames /\ acking[f] = _full_id(p.dest)
  BY DEF Addressed, Genuine
<1>2. f \in DOMAIN pending_ack_ /\ q \in Seq(Values) /\ q # <<>>  BY DEF Framed
<1>3. Entered(q, _full_id(p.dest), p.frames[f])  BY <1>1, <1>2 DEF Addressed, Sent, Arrived
<1> HIDE DEF q
<1>4. v = q[1] /\ 1 \in DOMAIN q
  <2>1. Len(q) \in Nat /\ Len(q) # 0 /\ DOMAIN q = 1..Len(q)  BY <1>2, LenProperties, EmptySeq
  <2>2. 1 \in DOMAIN q  BY <2>1
  <2>3. v = q[1]  BY <1>2, HeadTailProperties
  <2> QED BY <2>2, <2>3
<1> HIDE DEF v
<1>5. v.key[1] = _full_id(p.dest) /\ v.data \in p.frames[f]  BY <1>3, <1>4 DEF Entered
<1>6. p.frames[f] \subseteq Contents(p)  BY <1>1 DEF Contents, Range
<1>7. _full_id(p.dest) \in Peers /\ Contents(p) \subseteq received[_full_id(p.dest)]
  BY <1>1 DEF Arrived
<1> QED BY <1>1, <1>5, <1>6, <1>7 DEF q, v

\* What is then reported as acked is what was received.
LEMMA AddressedAck ==
    ASSUME Stocked, Framed, Addressed, NEW f \in DOMAIN acking, AckValue(f) \/ AckValueThrows(f)
    PROVE  Addressed'
<1> DEFINE v == Head(pending_ack_[f])
<1>1. /\ thread = "ack" /\ UNCHANGED <<next_frame_, request, air, received>>
      /\ seen' = [seen EXCEPT !.acked = @ \cup {<<v.key[1], v.data, acking[f]>>}]
  BY DEF AckValue, AckValueThrows
<1>2. seen'.acked = seen.acked \cup {<<v.key[1], v.data, acking[f]>>}  BY <1>1 DEF Stocked, SeenType
<1>3. v.key[1] \in Peers /\ v.data \in received[v.key[1]] /\ acking[f] = v.key[1]
  BY AckedArrived
<1>4. AckMeansReceived'
  <2> HIDE DEF v
  <2> QED BY <1>1, <1>2, <1>3 DEF Addressed, AckMeansReceived
<1>5. /\ DOMAIN acking' \subseteq DOMAIN acking /\ \A g \in DOMAIN acking' : acking'[g] = acking[g]
      /\ DOMAIN pending_ack_' \subseteq DOMAIN pending_ack_
      /\ \A g \in DOMAIN pending_ack_' : \A d, data :
            Entered(pending_ack_[g], d, data) => Entered(pending_ack_'[g], d, data)
  <2>1. CASE AckValueThrows(f)
    <3>1. UNCHANGED <<acking, pending_ack_>>  BY <2>1 DEF AckValueThrows
    <3> QED BY <3>1
  <2>2. CASE AckValue(f) /\ Len(pending_ack_[f]) = 1
    <3>1. /\ acking' = Without(acking, {f}) /\ pending_ack_' = Without(pending_ack_, {f})
      BY <2>2 DEF AckValue
    <3> QED BY <3>1 DEF Without
  <2>3. CASE AckValue(f) /\ Len(pending_ack_[f]) # 1
    <3>1. acking' = acking /\ pending_ack_' = [pending_ack_ EXCEPT ![f] = Tail(pending_ack_[f])]
      BY <2>3 DEF AckValue
    <3>2. f \in DOMAIN pending_ack_ /\ pending_ack_[f] \in Seq(Values) /\ pending_ack_[f] # <<>>
      BY DEF Framed
    <3> DEFINE q == pending_ack_[f]
    <3>3. ASSUME NEW d, NEW data, Entered(q, d, data) PROVE Entered(Tail(q), d, data)
      <4>1. q \in Seq(Values) /\ q # <<>>  BY <3>2
      <4> HIDE DEF q
      <4>2. /\ Tail(q) \in Seq(Values) /\ Len(Tail(q)) = Len(q) - 1
            /\ \A i \in 1..Len(Tail(q)) : Tail(q)[i] = q[i + 1]
        BY <4>1, HeadTailProperties
      <4>3. /\ Len(q) \in Nat /\ DOMAIN q = 1..Len(q) /\ DOMAIN Tail(q) = 1..Len(Tail(q))
        BY <4>1, <4>2, LenProperties
      <4>4. \A i \in DOMAIN Tail(q) : i + 1 \in DOMAIN q /\ Tail(q)[i] = q[i + 1]
        BY <4>2, <4>3
      <4> QED BY <3>3, <4>4 DEF Entered
    <3>4. /\ DOMAIN pending_ack_' = DOMAIN pending_ack_
          /\ pending_ack_'[f] = Tail(q)
          /\ \A g \in DOMAIN pending_ack_ : g # f => pending_ack_'[g] = pending_ack_[g]
      BY <3>1, <3>2
    <3> QED BY <3>1, <3>3, <3>4
  <2> QED BY <2>1, <2>2, <2>3
<1>6. Numbered'  BY <1>1 DEF Addressed, Numbered
<1>7. Genuine'
  <2>1. \A p : Arrived(p)' <=> Arrived(p)  BY <1>1 DEF Arrived
  <2> QED BY <1>1, <1>5, <2>1 DEF Addressed, Genuine
<1>8. Sent'
  <2> SUFFICES ASSUME NEW p \in air', NEW g \in DOMAIN pending_ack_',
                      p.type = "DATA", g \in DOMAIN p.frames
               PROVE  Entered(pending_ack_'[g], _full_id(p.dest), p.frames[g])
    BY DEF Sent
  <2>1. Entered(pending_ack_[g], _full_id(p.dest), p.frames[g])
    BY <1>1, <1>5 DEF Addressed, Sent
  <2> QED BY <1>5, <2>1
<1>9. Unsent'
  <2> SUFFICES ASSUME NEW g \in DOMAIN pending_ack_', g >= next_frame_' PROVE FALSE
    BY DEF Unsent
  <2>1. thread = "request"  BY <1>1, <1>5 DEF Addressed, Unsent
  <2> QED BY <1>1, <2>1
<1> QED BY <1>4, <1>6, <1>7, <1>8, <1>9 DEF Addressed

\* A new request uses numbers that no packet has.
LEMMA AddressedDataRequest ==
    ASSUME Framed, Addressed, NEW n \in SlotFrames, NEW dest \in SlotDests, _data_request(n, dest)
    PROVE  Addressed'
<1>1. /\ pending_ack_' = Without(pending_ack_, {f \in DOMAIN pending_ack_ : f >= next_frame_})
      /\ UNCHANGED <<acking, next_frame_, air, received, seen>>
  BY DEF _data_request
<1>2. /\ DOMAIN pending_ack_' = DOMAIN pending_ack_ \ {f \in DOMAIN pending_ack_ : f >= next_frame_}
      /\ \A f \in DOMAIN pending_ack_' : pending_ack_'[f] = pending_ack_[f]
  BY <1>1 DEF Without
<1>3. Numbered' /\ Genuine' /\ AckMeansReceived'
  BY <1>1 DEF Addressed, Numbered, Genuine, Arrived, AckMeansReceived
<1>4. Sent'  BY <1>1, <1>2 DEF Addressed, Sent
<1>5. Unsent'  BY <1>1, <1>2 DEF Unsent
<1> QED BY <1>3, <1>4, <1>5 DEF Addressed

\* A value provided becomes pending under the number of the current frame.
LEMMA AddressedTop ==
    ASSUME Matched, Stocked, Framed, Addressed, NEW key \in DOMAIN buffer_, RequestTop(key)
    PROVE  Addressed'
<1> DEFINE sub == TopSub(buffer_[key], now, AckTimeout)
           value == Value(key, buffer_[key].data[TopIndex(buffer_[key], now, AckTimeout)])
           ack == sub.cfg.ack_required
           f == request.frame
           list == IF f \in DOMAIN pending_ack_ THEN Append(pending_ack_[f], value) ELSE <<value>>
           fired == IF ack THEN seen.fired ELSE seen.fired \cup {<<key[1], value.data>>}
<1>1. /\ value \in Values /\ value.key = key
      /\ f \in DOMAIN request.frames /\ f \in 0..MaxFrame /\ f >= next_frame_
      /\ request'.last = request.last /\ request'.dest = key[1]
      /\ request'.frames = [request.frames EXCEPT ![f] = @ \cup {value.data}]
      /\ key[1] \in Dests /\ (request.dest = Query \/ key[1] = request.dest)
      /\ pending_ack_' = IF ~ ack THEN pending_ack_ ELSE Put(pending_ack_, f, list)
      /\ seen' = [seen EXCEPT !.fired = fired]
      /\ thread = "request" /\ thread' = "request"
      /\ UNCHANGED <<acking, next_frame_, air, received>>
  BY FramesTopEffect
<1> HIDE DEF value, ack, f, fired
<1>2. seen'.acked = seen.acked  BY <1>1 DEF Stocked, SeenType
<1>3. Filling /\ next_frame_ \in 0..(MaxFrame + 1)  BY <1>1 DEF Framed
<1>4. f <= request.last /\ f \in Nat /\ next_frame_ \in Nat
  BY <1>1, <1>3 DEF Filling
<1>5. DOMAIN request'.frames = DOMAIN request.frames
      /\ request'.frames[f] = request.frames[f] \cup {value.data}
      /\ \A g \in DOMAIN request.frames : request.frames[g] \subseteq request'.frames[g]
  BY <1>1
<1>6. \A g \in DOMAIN pending_ack_ : g >= next_frame_ =>
         /\ g <= request.last /\ Entered(pending_ack_[g], request'.dest, request'.frames[g])
  <2> SUFFICES ASSUME NEW g \in DOMAIN pending_ack_, g >= next_frame_
               PROVE  g <= request.last /\ Entered(pending_ack_[g], request'.dest, request'.frames[g])
    OBVIOUS
  <2>1. g <= request.last /\ Entered(pending_ack_[g], request.dest, request.frames[g])
    BY DEF Addressed, Unsent
  <2>2. pending_ack_[g] \in Seq(Values) /\ pending_ack_[g] # <<>> /\ g \in Nat
    <3>1. g \in 0..MaxFrame  BY DEF Framed
    <3>2. g \in Nat  BY <3>1
    <3> QED BY <3>2 DEF Framed
  <2> DEFINE q == pending_ack_[g]
  <2>3. 1 \in DOMAIN q /\ q[1] \in Values
    <3>1. q \in Seq(Values) /\ q # <<>>  BY <2>2
    <3> HIDE DEF q
    <3>2. Len(q) \in Nat /\ Len(q) # 0 /\ DOMAIN q = 1..Len(q)  BY <3>1, LenProperties, EmptySeq
    <3>3. 1 \in 1..Len(q)  BY <3>2
    <3> QED BY <3>1, <3>2, <3>3, ElementOfSeq
  <2>4. q[1].key[1] = request.dest  BY <2>1, <2>3 DEF Entered
  <2>5. q[1].key[1] \in Dests
    <3>1. \A v \in Values : v.key[1] \in Dests  BY DEF Values
    <3> QED BY <2>3, <3>1
  <2>6. request.dest # Query  BY <2>4, <2>5, ModemDriverAssumption
  <2>7. request'.dest = request.dest  BY <1>1, <2>6
  <2>8. g \in DOMAIN request.frames
    <3>1. DOMAIN request.frames = next_frame_..request.last /\ request.last \in next_frame_..MaxFrame
      BY <1>3 DEF Filling
    <3> QED BY <1>4, <2>1, <2>2, <3>1
  <2>9. request.frames[g] \subseteq request'.frames[g]  BY <1>5, <2>8
  <2> QED BY <2>1, <2>7, <2>9 DEF Entered
<1>7. Entered(list, request'.dest, request'.frames[f])
  <2>1. value.key[1] = request'.dest /\ value.data \in request'.frames[f]  BY <1>1, <1>5
  <2>2. CASE f \in DOMAIN pending_ack_
    <3> DEFINE q == pending_ack_[f]
    <3>1. Entered(q, request'.dest, request'.frames[f]) /\ q \in Seq(Values)
      BY <1>1, <1>6, <2>2 DEF Framed
    <3>2. list = Append(q, value)  BY <2>2
    <3> HIDE DEF q, list
    <3>3. /\ Len(q) \in Nat /\ DOMAIN q = 1..Len(q)
          /\ DOMAIN Append(q, value) = 1..(Len(q) + 1)
          /\ Append(q, value)[Len(q) + 1] = value
          /\ \A i \in 1..Len(q) : Append(q, value)[i] = q[i]
      BY <1>1, <3>1, AppendProperties, LenProperties
    <3>4. \A i \in 1..(Len(q) + 1) : i = Len(q) + 1 \/ i \in 1..Len(q)  BY <3>3
    <3> QED BY <2>1, <3>1, <3>2, <3>3, <3>4 DEF Entered
  <2>3. CASE f \notin DOMAIN pending_ack_
    <3>1. list = <<value>>  BY <2>3
    <3>2. DOMAIN <<value>> = {1} /\ <<value>>[1] = value  OBVIOUS
    <3> HIDE DEF list
    <3> QED BY <2>1, <3>1, <3>2 DEF Entered
  <2> QED BY <2>2, <2>3
<1> HIDE DEF list
<1>8. /\ DOMAIN pending_ack_' \subseteq DOMAIN pending_ack_ \cup {f}
      /\ \A g \in DOMAIN pending_ack_' :
            \/ g = f /\ pending_ack_'[g] = list
            \/ g \in DOMAIN pending_ack_ /\ pending_ack_'[g] = pending_ack_[g]
  BY <1>1 DEF Put
<1>9. Unsent'
  <2> SUFFICES ASSUME NEW g \in DOMAIN pending_ack_', g >= next_frame_'
               PROVE  /\ thread' = "request" /\ g <= request'.last
                      /\ Entered(pending_ack_'[g], request'.dest, request'.frames[g])
    BY DEF Unsent
  <2>1. CASE g = f /\ pending_ack_'[g] = list  BY <1>1, <1>4, <1>7, <2>1
  <2>2. CASE g \in DOMAIN pending_ack_ /\ pending_ack_'[g] = pending_ack_[g]
    BY <1>1, <1>6, <2>2
  <2> QED BY <1>8, <2>1, <2>2
<1>10. Sent'
  <2> SUFFICES ASSUME NEW p \in air, NEW g \in DOMAIN pending_ack_', p.type = "DATA",
                      g \in DOMAIN p.frames
               PROVE  Entered(pending_ack_'[g], _full_id(p.dest), p.frames[g])
    BY <1>1 DEF Sent
  <2>1. g \in 0..(next_frame_ - 1)  BY DEF Addressed, Numbered
  <2>2. g # f  BY <1>1, <1>4, <2>1
  <2>3. g \in DOMAIN pending_ack_ /\ pending_ack_'[g] = pending_ack_[g]  BY <1>8, <2>2
  <2> QED BY <2>3 DEF Addressed, Sent
<1>11. Numbered' /\ Genuine' /\ AckMeansReceived'
  BY <1>1, <1>2 DEF Addressed, Numbered, Genuine, Arrived, AckMeansReceived
<1> QED BY <1>9, <1>10, <1>11 DEF Addressed

\* The next number is as unused as the current one.
LEMMA AddressedNextFrame ==
    ASSUME Framed, Addressed, RequestNextFrame
    PROVE  Addressed'
<1> DEFINE g == request.frame + 1
           r == [request EXCEPT !.frame = g, !.room = MaxFrameBytes]
<1>1. /\ request' = r
      /\ UNCHANGED <<pending_ack_, acking, next_frame_, thread, air, received, seen>>
  BY DEF RequestNextFrame
<1>2. request \in Requests  BY DEF Framed
<1> HIDE DEF g
<1>3. r.last = request.last /\ r.dest = request.dest /\ r.frames = request.frames
  BY ONLY <1>2 DEF Requests
<1> HIDE DEF r
<1>4. Unsent'  BY <1>1, <1>3 DEF Addressed, Unsent
<1>5. Numbered' /\ Genuine' /\ Sent' /\ AckMeansReceived'
  BY <1>1 DEF Addressed, Numbered, Genuine, Sent, Arrived, AckMeansReceived
<1> QED BY <1>4, <1>5 DEF Addressed

\* The packet sent contains what is pending under its numbers.
LEMMA AddressedDone ==
    ASSUME Stocked, Framed, Addressed, RequestDone
    PROVE  Addressed'
<1> DEFINE new == Packet(request)
<1>1. /\ thread = "request" /\ next_frame_' = request.last + 1
      /\ air' = IF request.frames[request.start] = {} THEN air ELSE air \cup {new}
      /\ UNCHANGED <<pending_ack_, acking, received>>
  BY DEF RequestDone
<1>2. Filling /\ next_frame_ \in 0..(MaxFrame + 1)  BY <1>1 DEF Framed
<1>3. /\ request.last \in next_frame_..MaxFrame
      /\ DOMAIN request.frames = next_frame_..request.last
  BY <1>2 DEF Filling
<1>4. next_frame_ \in Nat /\ request.last \in Nat /\ next_frame_ <= request.last  BY <1>2, <1>3
<1>5. new.type = "DATA" /\ new.frames = request.frames /\ new.dest = _id_within_subnet(request.dest)
  BY DEF Packet
<1>6. new \in air' => new \in air \/ _full_id(new.dest) = request.dest
  <2>1. CASE request.frames[request.start] = {}  BY <1>1, <2>1
  <2>2. CASE request.frames[request.start] # {}
    <3>1. request.dest \in Dests  BY <2>2, PacketSent
    <3> QED BY <1>5, <3>1, FullId
  <2> QED BY <2>1, <2>2
<1> HIDE DEF new
<1>7. \A p \in air' : p \in air \/ p = new  BY <1>1
<1>8. Numbered'
  <2> SUFFICES ASSUME NEW p \in air', p.type = "DATA", NEW f \in DOMAIN p.frames
               PROVE  f \in 0..(next_frame_' - 1)
    BY DEF Numbered
  <2>1. CASE p \in air
    <3>1. f \in 0..(next_frame_ - 1)  BY <2>1 DEF Addressed, Numbered
    <3> QED BY <1>1, <1>4, <3>1
  <2>2. CASE p = new
    <3>1. f \in next_frame_..request.last  BY <1>3, <1>5, <2>2
    <3> QED BY <1>1, <1>4, <3>1
  <2> QED BY <1>7, <2>1, <2>2
<1>9. Genuine'
  <2>1. \A p : Arrived(p)' <=> Arrived(p)  BY <1>1 DEF Arrived
  <2>2. air \subseteq air' /\ \A a \in air' : a.type = "ACK" => a \in air  BY <1>1, <1>5, <1>7
  <2> QED BY <1>1, <2>1, <2>2 DEF Addressed, Genuine
<1>10. Sent'
  <2> SUFFICES ASSUME NEW p \in air', NEW f \in DOMAIN pending_ack_, p.type = "DATA",
                      f \in DOMAIN p.frames
               PROVE  Entered(pending_ack_[f], _full_id(p.dest), p.frames[f])
    BY <1>1 DEF Sent
  <2>1. CASE p \in air  BY <2>1 DEF Addressed, Sent
  <2>2. CASE p = new /\ new \notin air
    <3>1. f \in next_frame_..request.last  BY <1>3, <1>5, <2>2
    <3>2. Entered(pending_ack_[f], request.dest, request.frames[f])
      BY <1>4, <3>1 DEF Addressed, Unsent
    <3> QED BY <1>5, <1>6, <2>2, <3>2
  <2> QED BY <1>7, <2>1, <2>2
<1>11. Unsent'
  <2> SUFFICES ASSUME NEW f \in DOMAIN pending_ack_, f >= request.last + 1 PROVE FALSE
    BY <1>1 DEF Unsent
  <2>1. f \in 0..MaxFrame  BY DEF Framed
  <2>2. f \in Nat /\ f >= next_frame_  BY <1>4, <2>1
  <2>3. f <= request.last  BY <2>2 DEF Addressed, Unsent
  <2> QED BY <1>4, <2>2, <2>3
<1>12. AckMeansReceived'  BY <1>1, DoneFields DEF Addressed, AckMeansReceived
<1> QED BY <1>8, <1>9, <1>10, <1>11, <1>12 DEF Addressed

\* A peer acknowledges what it receives.
LEMMA AddressedReceive ==
    ASSUME Framed, Addressed, NEW d \in Peers, NEW p \in air, receive_message(d, p)
    PROVE  Addressed'
<1> DEFINE a == [type |-> "ACK", src |-> p.dest, dest |-> p.src, acked |-> DOMAIN p.frames]
<1>1. /\ p.type = "DATA"
      /\ air' = IF p.ack /\ p.dest = _id_within_subnet(d) THEN air \cup {a} ELSE air
      /\ received' = [received EXCEPT ![d] = @ \cup Contents(p)]
      /\ UNCHANGED <<pending_ack_, acking, next_frame_, thread, request, seen>>
  BY DEF receive_message
<1>2. a.type = "ACK" /\ a.acked = DOMAIN p.frames /\ a.src = p.dest  OBVIOUS
<1> HIDE DEF a
<1>3. received \in [Peers -> SUBSET Data]  BY DEF Framed
<1>4. /\ \A e \in Peers : received[e] \subseteq received'[e]
      /\ Contents(p) \subseteq received'[d]
  BY <1>1, <1>3
<1>5. \A q : Arrived(q) => Arrived(q)'
  <2> SUFFICES ASSUME NEW q, Arrived(q) PROVE Arrived(q)'
    OBVIOUS
  <2>1. received[_full_id(q.dest)] \subseteq received'[_full_id(q.dest)]  BY <1>4 DEF Arrived
  <2> QED BY <2>1 DEF Arrived
<1>6. air \subseteq air' /\ \A b \in air' : b \in air \/ (b = a /\ p.dest = _id_within_subnet(d))
  BY <1>1
<1>7. p.dest = _id_within_subnet(d) => Arrived(p)'
  <2>1. d \in Dests  BY DEF Peers
  <2>2. _full_id(_id_within_subnet(d)) = d  BY <2>1, FullId
  <2> QED BY <1>1, <1>4, <2>2 DEF Arrived
<1>8. Genuine'
  <2>1. ASSUME NEW b \in air', b.type = "ACK"
        PROVE  \E q \in air' : Arrived(q)' /\ b.acked = DOMAIN q.frames /\ b.src = q.dest
    <3>1. CASE b \in air
      <4>1. PICK q \in air : Arrived(q) /\ b.acked = DOMAIN q.frames /\ b.src = q.dest
        BY <2>1, <3>1 DEF Addressed, Genuine
      <4> QED BY <1>5, <1>6, <4>1
    <3>2. CASE b = a /\ p.dest = _id_within_subnet(d)  BY <1>2, <1>6, <1>7, <3>2
    <3> QED BY <1>6, <3>1, <3>2
  <2>2. ASSUME NEW f \in DOMAIN acking'
        PROVE  \E q \in air' : Arrived(q)' /\ f \in DOMAIN q.frames /\ acking'[f] = _full_id(q.dest)
    <3>1. PICK q \in air : Arrived(q) /\ f \in DOMAIN q.frames /\ acking[f] = _full_id(q.dest)
      BY <1>1, <2>2 DEF Addressed, Genuine
    <3> QED BY <1>1, <1>5, <1>6, <3>1
  <2> QED BY <2>1, <2>2 DEF Genuine
<1>9. \A b \in air' : b.type = "DATA" => b \in air  BY <1>2, <1>6
<1>10. Numbered' /\ Sent'  BY <1>1, <1>9 DEF Addressed, Numbered, Sent
<1>11. Unsent'  BY <1>1 DEF Addressed, Unsent
<1>12. AckMeansReceived'  BY <1>1, <1>4 DEF Addressed, AckMeansReceived
<1> QED BY <1>8, <1>10, <1>11, <1>12 DEF Addressed

\* Only a restart is counted as one.
LEMMA RestartsCounted ==
    ASSUME Matched, Stocked, Framed, [Next]_vars, ~ Restart
    PROVE  seen'.restarts = seen.restarts
<1>0. seen \in SeenType  BY DEF Stocked
<1>1. ASSUME NEW d \in Dests, NEW b \in BufferIds, NEW cfg \in SubscriberCfgs,
             \/ _accept_subscribe(d, b, cfg) \/ _accept_unsubscribe(d, b, cfg)
             \/ _accept_last_unsubscribe(d, b, cfg)
      PROVE  seen'.restarts = seen.restarts
  <2>1. CASE _accept_last_unsubscribe(d, b, cfg)
    BY <1>0, <2>1 DEF _accept_last_unsubscribe, SeenType
  <2>2. CASE _accept_subscribe(d, b, cfg) \/ _accept_unsubscribe(d, b, cfg)
    BY <1>0, <2>2 DEF _accept_subscribe, _accept_unsubscribe, SubscribersBecome, SeenType
  <2> QED BY <1>1, <2>1, <2>2
<1>2. ASSUME NEW m \in Messages, _buffer_message_omit(m) PROVE seen'.restarts = seen.restarts
  BY <1>0, <1>2 DEF _buffer_message_omit, SeenType
<1>3. ASSUME NEW m \in Messages, NEW has_metadata \in BOOLEAN, _buffer_message(m, has_metadata)
      PROVE  seen'.restarts = seen.restarts
  BY <1>0, <1>3 DEF _buffer_message, SeenType
<1>4. ASSUME NEW m \in Forwards, NEW dests \in SUBSET Dests, _forward_subscription(m, dests)
      PROVE  seen'.restarts = seen.restarts
  BY <1>0, <1>4 DEF _forward_subscription, SeenType
<1>5. ASSUME NEW key \in DOMAIN buffer_, RequestTop(key) PROVE seen'.restarts = seen.restarts
  BY <1>0, <1>5 DEF RequestTop, SeenType
<1>6. ASSUME LoopExpire PROVE seen'.restarts = seen.restarts
  BY <1>0, <1>6 DEF LoopExpire, SeenType
<1>7. ASSUME NEW f \in DOMAIN acking, AckValue(f) \/ AckValueThrows(f)
      PROVE  seen'.restarts = seen.restarts
  BY <1>0, <1>7 DEF AckValue, AckValueThrows, SeenType
<1>8. ASSUME \/ RequestNextFrame \/ MacIdle \/ Tick \/ UNCHANGED vars
             \/ \E p \in air : _receive_ack(p)
             \/ \E n \in SlotFrames, dest \in SlotDests : _data_request(n, dest)
             \/ \E d \in Peers, p \in air : receive_message(d, p)
      PROVE  seen'.restarts = seen.restarts
  BY <1>8 DEF RequestNextFrame, MacIdle, Tick, vars, _receive_ack, _data_request,
              receive_message
<1>9. ASSUME RequestDone PROVE seen'.restarts = seen.restarts
  BY <1>9, DoneFields
<1> QED
  BY <1>1, <1>2, <1>3, <1>4, <1>5, <1>6, <1>7, <1>8, <1>9 DEF Next, Handle, Loop, DataRequest

\* Every step but a restart keeps the argument about acks.
LEMMA NextAddressed ==
    ASSUME Matched, Stocked, Framed, Addressed, [Next]_vars, ~ Restart
    PROVE  Addressed'
<1>0. seen \in SeenType  BY DEF Stocked
<1>1. ASSUME NEW d \in Dests, NEW b \in BufferIds, NEW cfg \in SubscriberCfgs,
             \/ _accept_subscribe(d, b, cfg) \/ _accept_unsubscribe(d, b, cfg)
             \/ _accept_last_unsubscribe(d, b, cfg)
      PROVE  Addressed'
  <2>1. seen'.acked = seen.acked
    <3>1. CASE _accept_last_unsubscribe(d, b, cfg)
      BY <1>0, <3>1 DEF _accept_last_unsubscribe, SeenType
    <3>2. CASE _accept_subscribe(d, b, cfg) \/ _accept_unsubscribe(d, b, cfg)
      BY <1>0, <3>2 DEF _accept_subscribe, _accept_unsubscribe, SubscribersBecome, SeenType
    <3> QED BY <1>1, <3>1, <3>2
  <2>2. /\ thread = "idle"
        /\ UNCHANGED <<pending_ack_, acking, next_frame_, request, air, received>>
    BY <1>1 DEF _accept_subscribe, _accept_unsubscribe, _accept_last_unsubscribe, SubscribersBecome
  <2> QED BY <2>1, <2>2, AddressedUnmoved
<1>2. ASSUME NEW m \in Messages, _buffer_message_omit(m) PROVE Addressed'
  <2>1. seen'.acked = seen.acked  BY <1>0, <1>2 DEF _buffer_message_omit, SeenType
  <2> QED BY <1>2, <2>1, AddressedUnmoved DEF _buffer_message_omit
<1>3. ASSUME NEW m \in Messages, NEW has_metadata \in BOOLEAN, _buffer_message(m, has_metadata)
      PROVE  Addressed'
  <2>1. seen'.acked = seen.acked  BY <1>0, <1>3 DEF _buffer_message, SeenType
  <2>2. /\ thread = "idle"
        /\ UNCHANGED <<pending_ack_, acking, next_frame_, request, air, received>>
    BY <1>3 DEF _buffer_message
  <2> QED BY <2>1, <2>2, AddressedUnmoved
<1>4. ASSUME NEW m \in Forwards, NEW dests \in SUBSET Dests, _forward_subscription(m, dests)
      PROVE  Addressed'
  <2>1. seen'.acked = seen.acked  BY <1>0, <1>4 DEF _forward_subscription, SeenType
  <2>2. /\ thread = "idle"
        /\ UNCHANGED <<pending_ack_, acking, next_frame_, request, air, received>>
    BY <1>4 DEF _forward_subscription
  <2> QED BY <2>1, <2>2, AddressedUnmoved
<1>5. ASSUME NEW key \in DOMAIN buffer_, RequestTop(key) PROVE Addressed'
  BY <1>5, AddressedTop
<1>6. ASSUME RequestNextFrame PROVE Addressed'
  BY <1>6, AddressedNextFrame
<1>7. ASSUME RequestDone PROVE Addressed'
  BY <1>7, AddressedDone
<1>8. ASSUME LoopExpire PROVE Addressed'
  <2>1. seen'.acked = seen.acked  BY <1>0, <1>8 DEF LoopExpire, SeenType
  <2>2. /\ thread = "idle"
        /\ UNCHANGED <<pending_ack_, acking, next_frame_, request, air, received>>
    BY <1>8 DEF LoopExpire
  <2> QED BY <2>1, <2>2, AddressedUnmoved
<1>9. ASSUME MacIdle \/ Tick \/ UNCHANGED vars PROVE Addressed'
  BY <1>9, AddressedUnmoved DEF MacIdle, Tick, vars
<1>10. ASSUME NEW p \in air, _receive_ack(p) PROVE Addressed'
  BY <1>10, AddressedReceiveAck
<1>11. ASSUME NEW f \in DOMAIN acking, AckValue(f) \/ AckValueThrows(f) PROVE Addressed'
  BY <1>11, AddressedAck
<1>12. ASSUME NEW n \in SlotFrames, NEW dest \in SlotDests, _data_request(n, dest)
       PROVE  Addressed'
  BY <1>12, AddressedDataRequest
<1>13. ASSUME NEW d \in Peers, NEW p \in air, receive_message(d, p) PROVE Addressed'
  BY <1>13, AddressedReceive
<1> QED
  BY <1>1, <1>2, <1>3, <1>4, <1>5, <1>6, <1>7, <1>8, <1>9, <1>10, <1>11, <1>12, <1>13
  DEF Next, Handle, Loop, DataRequest

\* Until the process restarts, whatever packets are lost, late, repeated or out
\* of order, a value reported as acked by _receive() has reached the destination
\* it is reported for.  (After a restart the frame numbers begin again at zero,
\* and an ack of the earlier process may be taken for one of the new process.)
THEOREM AckedUntilRestartIsReceived == Spec => [](seen.restarts = 0 => AckMeansReceived)
<1> DEFINE I == Consistent /\ (seen.restarts = 0 => Addressed)
<1>1. Init => I
  <2>1. Init => Consistent  BY InitMatched, InitStocked, InitFramed DEF Consistent
  <2> QED BY <2>1, InitAddressed
<1>2. I /\ [Next]_vars => I'
  <2> SUFFICES ASSUME I, [Next]_vars PROVE I'
    OBVIOUS
  <2>1. Consistent' /\ Matched /\ Stocked /\ Framed
    BY NextMatched, NextStocked, NextFramed DEF Consistent
  <2>2. CASE Restart
    <3>1. seen'.restarts # 0
      <4>1. seen \in SeenType /\ seen.restarts \in Nat  BY <2>1, SeenFields DEF Stocked
      <4>2. seen' = AfterRestart(seen)
        BY <2>2 DEF Restart, AfterRestart
      <4>3. seen'.restarts = seen.restarts + 1  BY <4>1, <4>2, RestartFields
      <4> QED BY <4>1, <4>3
    <3> QED BY <2>1, <3>1
  <2>3. CASE ~ Restart
    <3>1. seen'.restarts = seen.restarts  BY <2>1, <2>3, RestartsCounted
    <3>2. Addressed => Addressed'  BY <2>1, <2>3, NextAddressed
    <3> QED BY <2>1, <3>1, <3>2
  <2> QED BY <2>2, <2>3
<1>3. I => (seen.restarts = 0 => AckMeansReceived)
  BY DEF Addressed
<1> HIDE DEF I
<1> QED BY <1>1, <1>2, <1>3, PTL DEF Spec

-----------------------------------------------------------------------------
(* Values sent without an ack. *)

\* What is erased when it is put in a frame has been sent, is in the request
\* being filled, or was in one that sent nothing.  The inductive invariant.
Fired ==
    \A d \in Dests, m \in Data : <<d, m>> \in seen.fired
        => Transmitted(d, m) \/ InRequest(d, m) \/ <<d, m>> \in seen.unsent

\* At first nothing was erased on sending.
LEMMA InitFired == Init => Fired
BY DEF Init, Fired

\* A step that sends nothing keeps the argument about unacked values.
LEMMA FiredUnmoved ==
    ASSUME Fired, seen'.fired = seen.fired, seen.unsent \subseteq seen'.unsent, air \subseteq air',
           (thread' = thread /\ request' = request) \/ thread # "request"
    PROVE  Fired'
<1>1. \A d, m : Transmitted(d, m) => Transmitted(d, m)'  BY DEF Transmitted
<1>2. \A d, m : InRequest(d, m) => InRequest(d, m)'  BY DEF InRequest
<1> QED BY <1>1, <1>2 DEF Fired

\* A value erased on sending is in the frame being filled.
LEMMA FiredTop ==
    ASSUME Matched, Stocked, Framed, Fired, NEW key \in DOMAIN buffer_, RequestTop(key)
    PROVE  Fired'
<1> DEFINE sub == TopSub(buffer_[key], now, AckTimeout)
           value == Value(key, buffer_[key].data[TopIndex(buffer_[key], now, AckTimeout)])
           ack == sub.cfg.ack_required
           f == request.frame
           fired == IF ack THEN seen.fired ELSE seen.fired \cup {<<key[1], value.data>>}
<1>1. /\ f \in DOMAIN request.frames
      /\ request'.dest = key[1]
      /\ request'.frames = [request.frames EXCEPT ![f] = @ \cup {value.data}]
      /\ request.dest = Query \/ key[1] = request.dest
      /\ seen' = [seen EXCEPT !.fired = fired]
      /\ thread = "request" /\ thread' = "request" /\ air' = air
  BY FramesTopEffect
<1>2. fired \subseteq seen.fired \cup {<<key[1], value.data>>}  OBVIOUS
<1> HIDE DEF value, ack, f, fired
<1>3. seen'.fired = fired /\ seen'.unsent = seen.unsent  BY <1>1 DEF Stocked, SeenType
<1>4. \A m : m \in UNION Range(request.frames) => m \in UNION Range(request'.frames)
  BY <1>1 DEF Range
<1>5. value.data \in UNION Range(request'.frames)
  <2>1. f \in DOMAIN request'.frames /\ value.data \in request'.frames[f]  BY <1>1
  <2> QED BY <2>1 DEF Range
<1>6. \A d, m : Transmitted(d, m) => Transmitted(d, m)'  BY <1>1 DEF Transmitted
<1>7. ASSUME NEW d \in Dests, NEW m \in Data, <<d, m>> \in seen'.fired
      PROVE  Transmitted(d, m)' \/ InRequest(d, m)' \/ <<d, m>> \in seen'.unsent
  <2>1. CASE <<d, m>> \in seen.fired
    <3>1. CASE Transmitted(d, m)  BY <1>6, <3>1
    <3>2. CASE InRequest(d, m)
      <4>1. request.dest = d /\ m \in UNION Range(request.frames)  BY <3>2 DEF InRequest
      <4>2. request.dest # Query  BY <4>1, ModemDriverAssumption
      <4> QED BY <1>1, <1>4, <4>1, <4>2 DEF InRequest
    <3>3. CASE <<d, m>> \in seen.unsent  BY <1>3, <3>3
    <3> QED BY <2>1, <3>1, <3>2, <3>3 DEF Fired
  <2>2. CASE <<d, m>> = <<key[1], value.data>>
    <3>1. d = key[1] /\ m = value.data  BY <2>2
    <3> QED BY <1>1, <1>5, <3>1 DEF InRequest
  <2> QED BY <1>2, <1>3, <1>7, <2>1, <2>2
<1> QED BY <1>7 DEF Fired

\* The next frame of a request keeps the frames before it.
LEMMA FiredNextFrame ==
    ASSUME Framed, Fired, RequestNextFrame
    PROVE  Fired'
<1> DEFINE g == request.frame + 1
           r == [request EXCEPT !.frame = g, !.room = MaxFrameBytes]
<1>1. request' = r /\ UNCHANGED <<thread, air, seen>>  BY DEF RequestNextFrame
<1>2. request \in Requests  BY DEF Framed
<1> HIDE DEF g
<1>3. r.dest = request.dest /\ r.frames = request.frames
  BY ONLY <1>2 DEF Requests
<1> HIDE DEF r
<1>4. \A d, m : Transmitted(d, m) => Transmitted(d, m)'  BY <1>1 DEF Transmitted
<1>5. \A d, m : InRequest(d, m) => InRequest(d, m)'  BY <1>1, <1>3 DEF InRequest
<1> QED BY <1>1, <1>3, <1>4, <1>5 DEF Fired

\* A request is sent, or what it strands is recorded.
LEMMA FiredDone ==
    ASSUME Stocked, Framed, Fired, RequestDone
    PROVE  Fired'
<1>1. air' = IF request.frames[request.start] = {} THEN air ELSE air \cup {Packet(request)}
  BY DEF RequestDone
<1>2. seen'.fired = seen.fired /\ seen'.unsent = seen.unsent \cup Stranded(request)
  BY DoneFields
<1>3. ASSUME NEW d \in Dests, NEW m \in Data, <<d, m>> \in seen.fired
      PROVE  Transmitted(d, m)' \/ <<d, m>> \in seen'.unsent
  <2>1. CASE Transmitted(d, m)  BY <1>1, <2>1 DEF Transmitted
  <2>2. CASE InRequest(d, m)
    <3>1. request.dest = d /\ m \in UNION Range(request.frames)  BY <2>2 DEF InRequest
    <3>2. CASE request.frames[request.start] = {}
      <4>1. <<d, m>> \in Stranded(request)  BY <3>1, <3>2 DEF Stranded
      <4> QED BY <1>2, <4>1
    <3>3. CASE request.frames[request.start] # {}
      <4>1. Packet(request) \in air'  BY <1>1, <3>3
      <4>2. /\ Packet(request).type = "DATA" /\ Packet(request).frames = request.frames
            /\ Packet(request).dest = _id_within_subnet(d)
        BY <3>1 DEF Packet
      <4>3. m \in Contents(Packet(request))
        <5> HIDE DEF Packet
        <5> QED BY <3>1, <4>2 DEF Contents
      <4> QED BY <4>1, <4>2, <4>3 DEF Transmitted
    <3> QED BY <3>2, <3>3
  <2>3. CASE <<d, m>> \in seen.unsent  BY <1>2, <2>3
  <2> QED BY <1>3, <2>1, <2>2, <2>3 DEF Fired
<1> QED BY <1>2, <1>3 DEF Fired

\* Every step keeps erased values in a request, in a packet or in the record of
\* those stranded.
LEMMA NextFired ==
    ASSUME Matched, Stocked, Framed, Fired, [Next]_vars
    PROVE  Fired'
<1>0. seen \in SeenType  BY DEF Stocked
<1>1. ASSUME NEW d \in Dests, NEW b \in BufferIds, NEW cfg \in SubscriberCfgs,
             \/ _accept_subscribe(d, b, cfg) \/ _accept_unsubscribe(d, b, cfg)
             \/ _accept_last_unsubscribe(d, b, cfg)
      PROVE  Fired'
  <2>1. seen'.fired = seen.fired /\ seen'.unsent = seen.unsent
    <3>1. CASE _accept_last_unsubscribe(d, b, cfg)
      BY <1>0, <3>1 DEF _accept_last_unsubscribe, SeenType
    <3>2. CASE _accept_subscribe(d, b, cfg) \/ _accept_unsubscribe(d, b, cfg)
      BY <1>0, <3>2 DEF _accept_subscribe, _accept_unsubscribe, SubscribersBecome, SeenType
    <3> QED BY <1>1, <3>1, <3>2
  <2>2. thread = "idle" /\ thread' # "request" /\ air' = air
    BY <1>1 DEF _accept_subscribe, _accept_unsubscribe, _accept_last_unsubscribe, SubscribersBecome
  <2> QED BY <2>1, <2>2, FiredUnmoved
<1>2. ASSUME NEW m \in Messages, _buffer_message_omit(m) PROVE Fired'
  <2>1. seen'.fired = seen.fired /\ seen'.unsent = seen.unsent
    BY <1>0, <1>2 DEF _buffer_message_omit, SeenType
  <2> QED BY <1>2, <2>1, FiredUnmoved DEF _buffer_message_omit
<1>3. ASSUME NEW m \in Messages, NEW has_metadata \in BOOLEAN, _buffer_message(m, has_metadata)
      PROVE  Fired'
  <2>1. seen'.fired = seen.fired /\ seen'.unsent = seen.unsent
    BY <1>0, <1>3 DEF _buffer_message, SeenType
  <2>2. thread = "idle" /\ thread' # "request" /\ air' = air  BY <1>3 DEF _buffer_message
  <2> QED BY <2>1, <2>2, FiredUnmoved
<1>4. ASSUME NEW m \in Forwards, NEW dests \in SUBSET Dests, _forward_subscription(m, dests)
      PROVE  Fired'
  <2>1. seen'.fired = seen.fired /\ seen'.unsent = seen.unsent
    BY <1>0, <1>4 DEF _forward_subscription, SeenType
  <2>2. thread = "idle" /\ thread' # "request" /\ air' = air  BY <1>4 DEF _forward_subscription
  <2> QED BY <2>1, <2>2, FiredUnmoved
<1>5. ASSUME NEW key \in DOMAIN buffer_, RequestTop(key) PROVE Fired'
  BY <1>5, FiredTop
<1>6. ASSUME RequestNextFrame PROVE Fired'
  BY <1>6, FiredNextFrame
<1>7. ASSUME RequestDone PROVE Fired'
  BY <1>7, FiredDone
<1>8. ASSUME LoopExpire PROVE Fired'
  <2>1. seen'.fired = seen.fired /\ seen'.unsent = seen.unsent
    BY <1>0, <1>8 DEF LoopExpire, SeenType
  <2>2. thread = "idle" /\ thread' # "request" /\ air' = air  BY <1>8 DEF LoopExpire
  <2> QED BY <2>1, <2>2, FiredUnmoved
<1>9. ASSUME MacIdle \/ Tick \/ UNCHANGED vars PROVE Fired'
  BY <1>9, FiredUnmoved DEF MacIdle, Tick, vars
<1>10. ASSUME NEW p \in air, _receive_ack(p) PROVE Fired'
  BY <1>10, FiredUnmoved DEF _receive_ack
<1>11. ASSUME NEW f \in DOMAIN acking, AckValue(f) \/ AckValueThrows(f) PROVE Fired'
  <2>1. seen'.fired = seen.fired /\ seen'.unsent = seen.unsent
    BY <1>0, <1>11 DEF AckValue, AckValueThrows, SeenType
  <2>2. thread = "ack" /\ thread' # "request" /\ air' = air
    BY <1>11 DEF AckValue, AckValueThrows
  <2> QED BY <2>1, <2>2, FiredUnmoved
<1>12. ASSUME NEW n \in SlotFrames, NEW dest \in SlotDests, _data_request(n, dest) PROVE Fired'
  BY <1>12, FiredUnmoved DEF _data_request
<1>13. ASSUME NEW d \in Peers, NEW p \in air, receive_message(d, p) PROVE Fired'
  BY <1>13, FiredUnmoved DEF receive_message
<1>14. ASSUME Restart PROVE Fired'
  <2>1. seen' = AfterRestart(seen)  BY <1>14 DEF Restart, AfterRestart
  <2>2. seen'.fired = {}  BY <1>0, <2>1, RestartFields
  <2> QED BY <2>2 DEF Fired
<1> QED
  BY <1>1, <1>2, <1>3, <1>4, <1>5, <1>6, <1>7, <1>8, <1>9, <1>10, <1>11, <1>12, <1>13, <1>14
  DEF Next, Handle, Loop, DataRequest

-----------------------------------------------------------------------------
(* What overflows unreported is a subscription of this vehicle. *)

\* The sub-buffers of the subscriptions hold nothing else.  The inductive
\* invariant.
Homed ==
    /\ \A k \in DOMAIN buffer_ : k[2] = SubscriptionKey => Payloads(buffer_[k].data) \subseteq Forwards
    /\ \A v \in seen.overrun : v[2] \in Forwards

\* At first there are no sub-buffers.
LEMMA InitHomed == Init => Homed
<1> SUFFICES ASSUME Init PROVE Homed
  OBVIOUS
<1>1. DOMAIN buffer_ = {} /\ seen.overrun = {}  BY DEF Init
<1> QED BY <1>1 DEF Homed

\* A step that puts nothing in the sub-buffers of the subscriptions.
LEMMA HomedUnmoved ==
    ASSUME Homed, seen'.overrun = seen.overrun,
           \A k \in DOMAIN buffer_' : k[2] = SubscriptionKey =>
              /\ k \in DOMAIN buffer_
              /\ Payloads(buffer_'[k].data) \subseteq Payloads(buffer_[k].data)
    PROVE  Homed'
BY DEF Homed

\* The sub-buffers of the subscriptions are not reconfigured.
LEMMA ReconfiguredHome ==
    ASSUME NEW touched \in SUBSET (Dests \X BufferIds), NEW subs, NEW pubs,
           NEW k \in DOMAIN Reconfigured(touched, subs, pubs), k[2] = SubscriptionKey
    PROVE  k \in DOMAIN buffer_ /\ Reconfigured(touched, subs, pubs)[k] = buffer_[k]
<1>1. k \notin Ready(touched, subs, pubs)  BY ModemDriverAssumption DEF Ready
<1> QED BY <1>1 DEF Reconfigured

\* A change of the subscribers.
LEMMA HomedSubscribers ==
    ASSUME Stocked, Homed, NEW d \in Dests, NEW b \in BufferIds, NEW subs,
           SubscribersBecome(d, b, subs)
    PROVE  Homed'
<1> DEFINE touched == {<<d, b>>}
<1>1. /\ buffer_' = Reconfigured(touched, subs, publisher_buffer_cfg_)
      /\ seen' = [seen EXCEPT !.changes = @ + 1]
  BY DEF SubscribersBecome
<1>2. touched \in SUBSET (Dests \X BufferIds)  OBVIOUS
<1>3. seen'.overrun = seen.overrun  BY <1>1 DEF Stocked, SeenType
<1> HIDE DEF touched
<1>4. \A k \in DOMAIN buffer_' : k[2] = SubscriptionKey =>
         k \in DOMAIN buffer_ /\ buffer_'[k] = buffer_[k]
  BY <1>1, <1>2, ReconfiguredHome
<1> QED BY <1>3, <1>4, HomedUnmoved

\* A publication goes to other sub-buffers.
LEMMA HomedBuffer ==
    ASSUME Stocked, Homed, NEW m \in Messages, NEW has_metadata,
           _buffer_message(m, has_metadata)
    PROVE  Homed'
<1> DEFINE b == BufferOf[m]
           new == IsNewCfg(b, PublisherCfg[m])
           pubs == IF new THEN [publisher_buffer_cfg_ EXCEPT ![b] = Append(@, PublisherCfg[m])]
                   ELSE publisher_buffer_cfg_
           touched == IF new THEN Dests \X {b} ELSE {}
           buf == Reconfigured(touched, subscriber_buffer_cfg_, pubs)
           created == NowCreated(touched, subscriber_buffer_cfg_, pubs)
           to == {<<d, b>> : d \in {x \in created[b] : _dest_is_in_subnet(x)}}
<1>1. buffer_' = [k \in DOMAIN buf |-> IF k \in to THEN PushSub(buf[k], m, now) ELSE buf[k]]
  BY DEF _buffer_message
<1>2. seen'.overrun = seen.overrun  BY DEF _buffer_message, Stocked, SeenType
<1>3. b \in BufferIds /\ touched \in SUBSET (Dests \X BufferIds)  BY ModemDriverAssumption
<1>4. \A k \in to : k[2] # SubscriptionKey  BY <1>3, ModemDriverAssumption
<1> HIDE DEF to, touched, pubs
<1>5. \A k \in DOMAIN buf : k[2] = SubscriptionKey => k \in DOMAIN buffer_ /\ buf[k] = buffer_[k]
  BY <1>3, ReconfiguredHome
<1> HIDE DEF buf
<1>6. \A k \in DOMAIN buffer_' : k[2] = SubscriptionKey =>
         k \in DOMAIN buffer_ /\ buffer_'[k] = buffer_[k]
  BY <1>1, <1>4, <1>5
<1> QED BY <1>2, <1>6, HomedUnmoved

\* A subscription goes where the others are, and may push out some of them.
LEMMA HomedForward ==
    ASSUME Matched, Stocked, Homed, NEW m \in Forwards, NEW dests \in SUBSET Dests,
           _forward_subscription(m, dests)
    PROVE  Homed'
<1> DEFINE to == {<<d, SubscriptionKey>> : d \in {x \in dests : _dest_is_in_subnet(x)}}
           Sub(k) == IF k[1] \in subscription_subbuffers_ THEN buffer_[k]
                     ELSE NewSub(<<SubscriptionCfg>>, now)
           over(k) == {<<k[1], x.data>> : x \in Range(Exceeded(Sub(k), m, now))}
           gone == UNION {over(k) : k \in to}
<1>1. /\ buffer_' = [k \in DOMAIN buffer_ \cup to |->
                       IF k \in to THEN PushSub(Sub(k), m, now) ELSE buffer_[k]]
      /\ m \notin seen.published
  BY DEF _forward_subscription
<1>2. seen'.overrun = seen.overrun \cup gone
  BY DEF _forward_subscription, Stocked, SeenType
<1>3. \A k \in to : k[1] \in Dests /\ k[2] = SubscriptionKey /\ k = <<k[1], SubscriptionKey>>
  OBVIOUS
<1>4. \A k \in to : k[1] \in subscription_subbuffers_ => k \in DOMAIN buffer_
  <2>1. DOMAIN buffer_ = {k \in Dests \X BufferIds : k[1] \in subbuffers_created_[k[2]]}
                         \cup (subscription_subbuffers_ \X {SubscriptionKey})
    BY DEF Matched, BuffersMatchSubscriptions
  <2> QED BY <1>3, <2>1
<1>5. m \in Data /\ now \in Nat /\ now > 0  BY DEF Stocked, Forwards
<1>6. ASSUME NEW k \in to
      PROVE  /\ Payloads(PushSub(Sub(k), m, now).data) \subseteq Forwards
             /\ {d.data : d \in Range(Exceeded(Sub(k), m, now))} \subseteq Forwards
  <2> DEFINE P == Payloads(Sub(k).data)
  <2>1. Queue(Sub(k), now, P) /\ P \subseteq Forwards /\ m \notin P
    <3>1. CASE k[1] \in subscription_subbuffers_
      <4>1. Sub(k) = buffer_[k] /\ k \in DOMAIN buffer_ /\ k[2] = SubscriptionKey  BY <1>3, <1>4, <3>1
      <4>2. Queue(buffer_[k], now, seen.published)  BY <4>1 DEF Stocked
      <4>3. Payloads(buffer_[k].data) \subseteq Forwards  BY <4>1 DEF Homed
      <4> QED BY <1>1, <4>1, <4>2, <4>3 DEF Queue
    <3>2. CASE k[1] \notin subscription_subbuffers_
      <4>1. Sub(k) = NewSub(<<SubscriptionCfg>>, now)  BY <3>2
      <4>2. SubscriptionCfg \in AllCfgs  BY DEF AllCfgs
      <4>3. <<SubscriptionCfg>> \in Seq(AllCfgs)  BY <4>2
      <4>4. Queue(NewSub(<<SubscriptionCfg>>, now), now, {})
        BY ONLY <1>5, <4>3, QueueNew
      <4>5. P = {}  BY <4>1, <4>4 DEF Queue
      <4> QED BY <4>1, <4>4, <4>5
    <3> QED BY <3>1, <3>2
  <2> HIDE DEF Sub, P
  <2>2. /\ Queue(PushSub(Sub(k), m, now), now, P \cup {m})
        /\ {d.data : d \in Range(Exceeded(Sub(k), m, now))} \subseteq P \cup {m}
    BY ONLY <1>5, <2>1, QueuePush
  <2> QED BY <2>1, <2>2 DEF Queue
<1> HIDE DEF to, Sub
<1>7. \A k \in DOMAIN buffer_' : k[2] = SubscriptionKey => Payloads(buffer_'[k].data) \subseteq Forwards
  <2> SUFFICES ASSUME NEW k \in DOMAIN buffer_ \cup to, k[2] = SubscriptionKey
               PROVE  Payloads(buffer_'[k].data) \subseteq Forwards
    BY <1>1
  <2>1. CASE k \in to  BY <1>1, <1>6, <2>1
  <2>2. CASE k \notin to  BY <1>1, <2>2 DEF Homed
  <2> QED BY <2>1, <2>2
<1>8. \A v \in gone : v[2] \in Forwards
  <2> SUFFICES ASSUME NEW k \in to, NEW v \in over(k) PROVE v[2] \in Forwards
    <3> HIDE DEF over
    <3> QED OBVIOUS
  <2>1. PICK x \in Range(Exceeded(Sub(k), m, now)) : v = <<k[1], x.data>>  OBVIOUS
  <2>2. x.data \in {d.data : d \in Range(Exceeded(Sub(k), m, now))}  OBVIOUS
  <2> QED BY <1>6, <2>1, <2>2
<1> HIDE DEF gone
<1> QED BY <1>2, <1>7, <1>8 DEF Homed

\* The data of a sub-buffer are among those it had.
LEMMA HomedShrinks ==
    ASSUME Stocked, Homed, seen'.overrun = seen.overrun, DOMAIN buffer_' \subseteq DOMAIN buffer_,
           \A k \in DOMAIN buffer_' :
              Queue(buffer_[k], now, Payloads(buffer_[k].data))
                 => Queue(buffer_'[k], now, Payloads(buffer_[k].data))
    PROVE  Homed'
<1>1. ASSUME NEW k \in DOMAIN buffer_'
      PROVE  Payloads(buffer_'[k].data) \subseteq Payloads(buffer_[k].data)
  <2>1. Queue(buffer_[k], now, seen.published)  BY DEF Stocked
  <2>2. Queue(buffer_[k], now, Payloads(buffer_[k].data))  BY <2>1 DEF Queue
  <2>3. Queue(buffer_'[k], now, Payloads(buffer_[k].data))  BY <2>2
  <2> QED BY <2>3 DEF Queue
<1> QED BY <1>1, HomedUnmoved

\* A value put in a frame comes from its sub-buffer.
LEMMA HomedTop ==
    ASSUME Matched, Stocked, Homed, NEW key \in DOMAIN buffer_, RequestTop(key)
    PROVE  Homed'
<1> DEFINE sub == TopSub(buffer_[key], now, AckTimeout)
           value == Value(key, buffer_[key].data[TopIndex(buffer_[key], now, AckTimeout)])
           left == IF sub.cfg.ack_required THEN sub ELSE EraseSub(sub, value)
<1>1. buffer_' = [buffer_ EXCEPT ![key] = left] /\ key \in RequestWinners  BY DEF RequestTop
<1>2. seen'.overrun = seen.overrun  BY DEF RequestTop, Stocked, SeenType
<1>3. Payloads(sub.data) = Payloads(buffer_[key].data) /\ Queue(sub, now, seen.published)
  BY <1>1, WinnerProvides
<1> HIDE DEF sub, value
<1>4. Queue(sub, now, Payloads(buffer_[key].data))  BY <1>3 DEF Queue
<1>5. Queue(EraseSub(sub, value), now, Payloads(buffer_[key].data))
  BY ONLY <1>4, QueueErase
<1>6. Queue(left, now, Payloads(buffer_[key].data))  BY <1>4, <1>5
<1> HIDE DEF left
<1>7. \A k \in DOMAIN buffer_ : buffer_'[k] = IF k = key THEN left ELSE buffer_[k]  BY <1>1
<1>8. DOMAIN buffer_' = DOMAIN buffer_  BY <1>1
<1> QED BY <1>2, <1>6, <1>7, <1>8, HomedShrinks

\* Every step keeps the subscriptions among themselves.
LEMMA NextHomed ==
    ASSUME Matched, Stocked, Framed, Homed, [Next]_vars
    PROVE  Homed'
<1>0. seen \in SeenType /\ now \in Nat  BY DEF Stocked
<1>1. ASSUME NEW d \in Dests, NEW b \in BufferIds, NEW cfg \in SubscriberCfgs,
             _accept_subscribe(d, b, cfg) \/ _accept_unsubscribe(d, b, cfg)
      PROVE  Homed'
  BY <1>1, HomedSubscribers DEF _accept_subscribe, _accept_unsubscribe
<1>2. ASSUME NEW d \in Dests, NEW b \in BufferIds, NEW cfg \in SubscriberCfgs,
             _accept_last_unsubscribe(d, b, cfg)
      PROVE  Homed'
  <2>1. seen'.overrun = seen.overrun  BY <1>0, <1>2 DEF _accept_last_unsubscribe, SeenType
  <2>2. buffer_' = Without(buffer_, {<<d, b>>})  BY <1>2 DEF _accept_last_unsubscribe
  <2>3. \A k \in DOMAIN buffer_' : k \in DOMAIN buffer_ /\ buffer_'[k] = buffer_[k]
    BY <2>2 DEF Without
  <2> QED BY <2>1, <2>3, HomedUnmoved
<1>3. ASSUME NEW m \in Messages, _buffer_message_omit(m) PROVE Homed'
  <2>1. seen'.overrun = seen.overrun /\ buffer_' = buffer_
    BY <1>0, <1>3 DEF _buffer_message_omit, SeenType
  <2> QED BY <2>1, HomedUnmoved
<1>4. ASSUME NEW m \in Messages, NEW has_metadata \in BOOLEAN, _buffer_message(m, has_metadata)
      PROVE  Homed'
  BY <1>4, HomedBuffer
<1>5. ASSUME NEW m \in Forwards, NEW dests \in SUBSET Dests, _forward_subscription(m, dests)
      PROVE  Homed'
  BY <1>5, HomedForward
<1>6. ASSUME NEW key \in DOMAIN buffer_, RequestTop(key) PROVE Homed'
  BY <1>6, HomedTop
<1>7. ASSUME RequestDone PROVE Homed'
  <2>1. seen'.overrun = seen.overrun /\ buffer_' = buffer_
    BY <1>7, DoneFields DEF RequestDone
  <2> QED BY <2>1, HomedUnmoved
<1>8. ASSUME LoopExpire PROVE Homed'
  <2>1. seen'.overrun = seen.overrun  BY <1>0, <1>8 DEF LoopExpire, SeenType
  <2>2. buffer_' = [k \in DOMAIN buffer_ |-> ExpireSub(buffer_[k], now)]  BY <1>8 DEF LoopExpire
  <2>3. ASSUME NEW k \in DOMAIN buffer_, Queue(buffer_[k], now, Payloads(buffer_[k].data))
        PROVE  Queue(ExpireSub(buffer_[k], now), now, Payloads(buffer_[k].data))
    BY ONLY <1>0, <2>3, QueueExpire
  <2> QED BY <2>1, <2>2, <2>3, HomedShrinks
<1>9. ASSUME NEW f \in DOMAIN acking, AckValue(f) PROVE Homed'
  <2> DEFINE value == Head(pending_ack_[f])
             key == value.key
  <2>1. key \in DOMAIN buffer_ /\ buffer_' = [buffer_ EXCEPT ![key] = EraseSub(buffer_[key], value)]
    BY <1>9 DEF AckValue
  <2>2. seen'.overrun = seen.overrun  BY <1>0, <1>9 DEF AckValue, SeenType
  <2> HIDE DEF value, key
  <2>3. ASSUME Queue(buffer_[key], now, Payloads(buffer_[key].data))
        PROVE  Queue(EraseSub(buffer_[key], value), now, Payloads(buffer_[key].data))
    BY ONLY <2>3, QueueErase
  <2>4. /\ DOMAIN buffer_' = DOMAIN buffer_ /\ buffer_'[key] = EraseSub(buffer_[key], value)
        /\ \A k \in DOMAIN buffer_ : k # key => buffer_'[k] = buffer_[k]
    BY <2>1
  <2> QED BY <2>2, <2>3, <2>4, HomedShrinks
<1>10. ASSUME NEW f \in DOMAIN acking, AckValueThrows(f) PROVE Homed'
  <2>1. seen'.overrun = seen.overrun /\ buffer_' = buffer_
    BY <1>0, <1>10 DEF AckValueThrows, SeenType
  <2> QED BY <2>1, HomedUnmoved
<1>11. ASSUME Restart PROVE Homed'
  <2>1. seen' = AfterRestart(seen) /\ DOMAIN buffer_' = {}  BY <1>11 DEF Restart, AfterRestart
  <2>2. seen'.overrun = {}  BY <1>0, <2>1, RestartFields
  <2> QED BY <2>1, <2>2 DEF Homed
<1>12. ASSUME \/ RequestNextFrame \/ MacIdle \/ Tick \/ UNCHANGED vars
              \/ \E p \in air : _receive_ack(p)
              \/ \E n \in SlotFrames, dest \in SlotDests : _data_request(n, dest)
              \/ \E d \in Peers, p \in air : receive_message(d, p)
       PROVE  Homed'
  <2>1. seen' = seen /\ buffer_' = buffer_
    BY <1>12 DEF RequestNextFrame, MacIdle, Tick, vars, _receive_ack, _data_request,
                 receive_message
  <2> QED BY <2>1, HomedUnmoved
<1> QED
  BY <1>1, <1>2, <1>3, <1>4, <1>5, <1>6, <1>7, <1>8, <1>9, <1>10, <1>11, <1>12
  DEF Next, Handle, Loop, DataRequest

\* No value put in the buffer is lost without a word, for any slots, frames,
\* configurations and restarts: it is there until its ack or its expiry is
\* reported, its destination unsubscribes, or, when no ack is required, until it
\* is on its way in a packet; but for the subscriptions of this vehicle that
\* _forward_subscription() lets overflow, and the values without ack_required
\* of a request that the driver does not send as its first frame is empty.
THEOREM NothingLostSilently == Spec => []NoSilentLoss
<1> DEFINE I == Consistent /\ Fired /\ Homed
<1>1. Init => I
  BY InitMatched, InitStocked, InitFramed, InitFired, InitHomed DEF Consistent
<1>2. I /\ [Next]_vars => I'
  BY NextMatched, NextStocked, NextFramed, NextFired, NextHomed DEF Consistent
<1>3. I => NoSilentLoss
  <2> SUFFICES ASSUME I, NEW v \in seen.pushed
               PROVE  \/ InBuffer(v[1], v[2])
                      \/ \E a \in seen.acked : a[1] = v[1] /\ a[2] = v[2]
                      \/ \E r \in {"ttl", "overflow"} : <<v[1], v[2], r>> \in seen.expired
                      \/ v \in seen.dropped
                      \/ v \in seen.fired /\ (Transmitted(v[1], v[2]) \/ InRequest(v[1], v[2]))
                      \/ v \in seen.overrun /\ v[2] \in Forwards
                      \/ v \in seen.fired \cap seen.unsent
    BY DEF NoSilentLoss
  <2>1. Stocked /\ seen.pushed \subseteq Dests \X Data  BY SeenFields DEF Consistent, Stocked
  <2>2. v[1] \in Dests /\ v[2] \in Data /\ v = <<v[1], v[2]>>  BY <2>1
  <2>3. HeldIn(buffer_, v[1], v[2]) \/ DoneIn(seen, v[1], v[2])  BY <2>1, <2>2 DEF Stocked
  <2>4. CASE HeldIn(buffer_, v[1], v[2])
    <3>1. PICK k \in DOMAIN buffer_ : k[1] = v[1] /\ v[2] \in Payloads(buffer_[k].data)
      BY <2>4 DEF HeldIn
    <3>2. Queue(buffer_[k], now, seen.published)  BY <2>1 DEF Stocked
    <3>3. Payloads(buffer_[k].data) = {x.data : x \in Range(buffer_[k].data)}
      BY <3>2, SubTypes, PayloadTypes DEF Queue
    <3> QED BY <3>1, <3>3 DEF InBuffer
  <2>5. CASE v \in seen.fired
    <3>1. Transmitted(v[1], v[2]) \/ InRequest(v[1], v[2]) \/ v \in seen.unsent
      BY <2>2, <2>5 DEF Fired
    <3> QED BY <2>5, <3>1
  <2>6. CASE v \in seen.overrun  BY <2>6 DEF Homed
  <2>7. CASE DoneIn(seen, v[1], v[2])  BY <2>2, <2>5, <2>6, <2>7 DEF DoneIn
  <2> QED BY <2>3, <2>4, <2>7
<1> HIDE DEF I
<1> QED BY <1>1, <1>2, <1>3, PTL DEF Spec

\* A request of one frame has no later frame: what it holds is sent.  The
\* inductive invariant.
Whole ==
    /\ thread = "request" => request.last = request.start
    /\ seen.unsent = {}

\* A step that neither starts nor ends a request keeps it so.
LEMMA WholeUnmoved ==
    ASSUME Whole, seen'.unsent = seen.unsent,
           thread' # "request" \/ (thread = "request" /\ request'.last = request.last
                                     /\ request'.start = request.start)
    PROVE  Whole'
BY DEF Whole

\* Every step of a driver with one frame a packet keeps its requests whole.
LEMMA NextWhole ==
    ASSUME SlotFrames = {1}, Matched, Stocked, Framed, Whole, [Next]_vars
    PROVE  Whole'
<1>0. seen \in SeenType  BY DEF Stocked
<1>f. next_frame_ \in Nat
  <2>1. next_frame_ \in 0..(MaxFrame + 1)  BY DEF Framed
  <2> QED BY <2>1
<1>1. ASSUME NEW d \in Dests, NEW b \in BufferIds, NEW cfg \in SubscriberCfgs,
             \/ _accept_subscribe(d, b, cfg) \/ _accept_unsubscribe(d, b, cfg)
             \/ _accept_last_unsubscribe(d, b, cfg)
      PROVE  Whole'
  <2>1. seen'.unsent = seen.unsent
    <3>1. CASE _accept_last_unsubscribe(d, b, cfg)
      BY <1>0, <3>1 DEF _accept_last_unsubscribe, SeenType
    <3>2. CASE _accept_subscribe(d, b, cfg) \/ _accept_unsubscribe(d, b, cfg)
      BY <1>0, <3>2 DEF _accept_subscribe, _accept_unsubscribe, SubscribersBecome, SeenType
    <3> QED BY <1>1, <3>1, <3>2
  <2>2. thread' # "request"
    BY <1>1 DEF _accept_subscribe, _accept_unsubscribe, _accept_last_unsubscribe, SubscribersBecome
  <2> QED BY <2>1, <2>2, WholeUnmoved
<1>2. ASSUME NEW m \in Messages, \/ _buffer_message_omit(m)
                                 \/ \E has_metadata \in BOOLEAN : _buffer_message(m, has_metadata)
      PROVE  Whole'
  <2>1. seen'.unsent = seen.unsent
    BY <1>0, <1>2 DEF _buffer_message_omit, _buffer_message, SeenType
  <2>2. thread' # "request"  BY <1>2 DEF _buffer_message_omit, _buffer_message
  <2> QED BY <2>1, <2>2, WholeUnmoved
<1>3. ASSUME NEW m \in Forwards, NEW dests \in SUBSET Dests, _forward_subscription(m, dests)
      PROVE  Whole'
  <2>1. seen'.unsent = seen.unsent  BY <1>0, <1>3 DEF _forward_subscription, SeenType
  <2>2. thread' # "request"  BY <1>3 DEF _forward_subscription
  <2> QED BY <2>1, <2>2, WholeUnmoved
<1>4. ASSUME NEW key \in DOMAIN buffer_, RequestTop(key) PROVE Whole'
  <2>1. seen'.unsent = seen.unsent /\ thread = "request"
    BY <1>0, <1>4 DEF RequestTop, SeenType
  <2>2. request'.last = request.last /\ request'.start = request.start
    <3>1. request \in Requests  BY DEF Framed
    <3> QED BY <1>4, <3>1 DEF RequestTop, Requests
  <2> QED BY <2>1, <2>2, WholeUnmoved
<1>5. ASSUME RequestNextFrame PROVE Whole'
  <2>1. request \in Requests  BY DEF Framed
  <2>2. request'.last = request.last /\ request'.start = request.start
    BY <1>5, <2>1 DEF RequestNextFrame, Requests
  <2> QED BY <1>5, <2>2, WholeUnmoved DEF RequestNextFrame
<1>6. ASSUME RequestDone PROVE Whole'
  <2>1. thread = "request" /\ thread' # "request" /\ Filling  BY <1>6 DEF RequestDone, Framed
  <2>2. seen'.unsent = seen.unsent \cup Stranded(request)  BY <1>6, DoneFields
  <2>3. DOMAIN request.frames = {request.start}
    <3>1. /\ request.start = next_frame_ /\ request.last = next_frame_
          /\ DOMAIN request.frames = next_frame_..request.last
      BY <2>1 DEF Filling, Whole
    <3> QED BY <1>f, <3>1
  <2>4. Stranded(request) = {}  BY <2>3 DEF Stranded, Range
  <2> QED BY <2>1, <2>2, <2>4 DEF Whole
<1>7. ASSUME LoopExpire PROVE Whole'
  <2>1. seen'.unsent = seen.unsent  BY <1>0, <1>7 DEF LoopExpire, SeenType
  <2>2. thread' # "request"  BY <1>7 DEF LoopExpire
  <2> QED BY <2>1, <2>2, WholeUnmoved
<1>8. ASSUME NEW f \in DOMAIN acking, AckValue(f) \/ AckValueThrows(f) PROVE Whole'
  <2>1. seen'.unsent = seen.unsent  BY <1>0, <1>8 DEF AckValue, AckValueThrows, SeenType
  <2>2. thread' # "request"  BY <1>8 DEF AckValue, AckValueThrows
  <2> QED BY <2>1, <2>2, WholeUnmoved
<1>9. ASSUME NEW n \in SlotFrames, NEW dest \in SlotDests, _data_request(n, dest) PROVE Whole'
  <2>1. n = 1  OBVIOUS
  <2>2. request'.start = next_frame_ /\ request'.last = next_frame_ + n - 1 /\ seen' = seen
    BY <1>9 DEF _data_request
  <2> QED BY <1>f, <2>1, <2>2 DEF Whole
<1>10. ASSUME Restart PROVE Whole'
  <2>1. seen' = AfterRestart(seen) /\ thread' # "request"  BY <1>10 DEF Restart, AfterRestart
  <2>2. seen'.unsent = {}  BY <1>0, <2>1, RestartFields
  <2> QED BY <2>1, <2>2 DEF Whole
<1>11. ASSUME \/ MacIdle \/ Tick \/ UNCHANGED vars
              \/ \E p \in air : _receive_ack(p)
              \/ \E d \in Peers, p \in air : receive_message(d, p)
       PROVE  Whole'
  <2>1. seen' = seen /\ (thread' # "request" \/ (thread = "request" /\ request' = request))
    BY <1>11 DEF MacIdle, Tick, vars, _receive_ack, receive_message
  <2> QED BY <2>1, WholeUnmoved
<1> QED
  BY <1>1, <1>2, <1>3, <1>4, <1>5, <1>6, <1>7, <1>8, <1>9, <1>10, <1>11
  DEF Next, Handle, Loop, DataRequest

\* With one frame a packet, what is put in a frame and erased is always sent: the
\* exception of NoSilentLoss for requests whose first frame is empty is void.
THEOREM OneFrameStrandsNothing == SlotFrames = {1} => (Spec => [](seen.unsent = {}))
<1> SUFFICES ASSUME SlotFrames = {1} PROVE Spec => [](seen.unsent = {})
  OBVIOUS
<1> DEFINE I == Consistent /\ Whole
<1>1. Init => I
  BY InitMatched, InitStocked, InitFramed DEF Consistent, Init, Whole
<1>2. I /\ [Next]_vars => I'
  BY NextMatched, NextStocked, NextFramed, NextWhole DEF Consistent
<1>3. I => seen.unsent = {}
  BY DEF Whole
<1> HIDE DEF I
<1> QED BY <1>1, <1>2, <1>3, PTL DEF Spec

-----------------------------------------------------------------------------
(* Values sent without an ack are sent once, if updates keep the kind of a     *)
(* sub-buffer.                                                                 *)

\* The buffer id under which a value is pushed.
KeyOf(m) == IF m \in Messages THEN BufferOf[m] ELSE SubscriptionKey

\* A packet carries m to d.
Carries(p, d, m) == p.type = "DATA" /\ p.dest = _id_within_subnet(d) /\ m \in Contents(p)

\* A sub-buffer is sorted, which is what erase() relies on, and holds only
\* values of its buffer id.
Placed(s, b) ==
    /\ Sorted(s.data, s.cfg.newest_first)
    /\ \A m \in Payloads(s.data) : KeyOf(m) = b

\* What is sent, or about to be, was published: a value is published once.
Known ==
    /\ \A d, m : InRequest(d, m) => m \in seen.published
    /\ \A p \in air : p.type = "DATA" => Contents(p) \subseteq seen.published
    /\ \A v \in seen.fired : v[2] \in seen.published

\* A value in the buffer was not erased before, and is not on its way if no ack
\* is required.
Waiting ==
    \A k \in DOMAIN buffer_ : \A m \in Payloads(buffer_[k].data) :
        /\ <<k[1], m>> \notin seen.fired
        /\ ~ buffer_[k].cfg.ack_required =>
              /\ ~ InRequest(k[1], m)
              /\ \A p \in air : ~ Carries(p, k[1], m)

\* A value erased when it was put in a frame is in one packet at most, and in
\* none while it is in the request being filled.
Single ==
    \A d, m : <<d, m>> \in seen.fired =>
        /\ \A p, q \in air : Carries(p, d, m) /\ Carries(q, d, m) => p = q
        /\ InRequest(d, m) => \A p \in air : ~ Carries(p, d, m)

\* The inductive invariant behind UnackedSentOnce.
SentOnce ==
    /\ \A k \in DOMAIN buffer_ : Placed(buffer_[k], k[2])
    /\ Known /\ Waiting /\ Single

\* push() of a value under its buffer id.
LEMMA PlacedPush ==
    ASSUME NEW s, NEW n \in Nat, n > 0, NEW P, Queue(s, n, P), NEW t \in Data, t \notin P,
           Placed(s, KeyOf(t))
    PROVE  /\ Placed(PushSub(s, t, n), KeyOf(t)) /\ PushSub(s, t, n).cfg = s.cfg
           /\ Payloads(PushSub(s, t, n).data) \subseteq Payloads(s.data) \cup {t}
<1> DEFINE p == PushSub(s, t, n)
           over == {d.data : d \in Range(Exceeded(s, t, n))}
<1>1. s \in Subs(Merged) /\ Timely(s.data, n) /\ Once(s.data) /\ t \notin Payloads(s.data)
  BY DEF Queue
<1>2. \A c \in Merged : c.max_queue \in Nat  BY MergedTypes
<1>3. /\ p.cfg = s.cfg /\ Payloads(p.data) = (Payloads(s.data) \cup {t}) \ over
      /\ Sorted(s.data, s.cfg.newest_first) => Sorted(p.data, s.cfg.newest_first)
  <2>1. t \in Data /\ n \in Nat /\ n > 0  OBVIOUS
  <2> QED BY ONLY <1>1, <1>2, <2>1, PushSubEffect
<1> HIDE DEF p, over
<1>4. Placed(p, KeyOf(t)) /\ p.cfg = s.cfg /\ Payloads(p.data) \subseteq Payloads(s.data) \cup {t}
  BY <1>3 DEF Placed
<1> QED BY <1>4 DEF p

\* A sub-buffer that keeps some of its data in their order.
LEMMA PlacedEmbeds ==
    ASSUME NEW s \in Subs(Merged), NEW p \in Subs(Merged), p.cfg = s.cfg, Embeds(p.data, s.data),
           NEW b, Placed(s, b)
    PROVE  Placed(p, b) /\ Payloads(p.data) \subseteq Payloads(s.data)
<1>1. s.data \in Seq(Datums) /\ p.data \in Seq(Datums)  BY SubTypes
<1>2. Sorted(p.data, s.cfg.newest_first) /\ Payloads(p.data) \subseteq Payloads(s.data)
  BY <1>1, EmbedsKeeps DEF Placed
<1> QED BY <1>2 DEF Placed

\* expire() keeps the order.
LEMMA PlacedExpire ==
    ASSUME NEW s, NEW n \in Nat, NEW P, Queue(s, n, P), NEW b, Placed(s, b)
    PROVE  /\ Placed(ExpireSub(s, n), b) /\ ExpireSub(s, n).cfg = s.cfg
           /\ Payloads(ExpireSub(s, n).data) \subseteq Payloads(s.data)
<1> DEFINE e == ExpireSub(s, n)
<1>1. s \in Subs(Merged) /\ Once(s.data)  BY DEF Queue
<1>2. e \in Subs(Merged) /\ e.cfg = s.cfg /\ Embeds(e.data, s.data)  BY <1>1, ExpireSubEffect
<1> HIDE DEF e
<1>3. Placed(e, b) /\ Payloads(e.data) \subseteq Payloads(s.data)  BY <1>1, <1>2, PlacedEmbeds
<1> QED BY <1>2, <1>3 DEF e

\* erase() keeps the order.
LEMMA PlacedErase ==
    ASSUME NEW s, NEW n, NEW P, Queue(s, n, P), NEW b, Placed(s, b), NEW value
    PROVE  /\ Placed(EraseSub(s, value), b) /\ EraseSub(s, value).cfg = s.cfg
           /\ Payloads(EraseSub(s, value).data) \subseteq Payloads(s.data)
<1>1. CASE EraseHits(s, value) = {}
  <2>1. EraseSub(s, value) = s  BY <1>1 DEF EraseSub
  <2> QED BY <2>1
<1>2. CASE EraseHits(s, value) # {}
  <2> DEFINE e == EraseSub(s, value)
  <2>1. s \in Subs(Merged) /\ Once(s.data)  BY DEF Queue
  <2>2. e \in Subs(Merged) /\ e.cfg = s.cfg /\ Embeds(e.data, s.data)
    BY <1>2, <2>1, EraseSubEffect
  <2> HIDE DEF e
  <2>3. Placed(e, b) /\ Payloads(e.data) \subseteq Payloads(s.data)  BY <2>1, <2>2, PlacedEmbeds
  <2> QED BY <2>2, <2>3 DEF e
<1> QED BY <1>1, <1>2

\* top() keeps the order, and erase() of what it provides finds it.
LEMMA PlacedTop ==
    ASSUME NEW s, NEW n \in Nat, NEW P, Queue(s, n, P), NEW max_bytes, NEW wait,
           ValueResult(s, n, max_bytes, wait) = "VALUE_PROVIDED", NEW key, Placed(s, key[2])
    PROVE  LET p == TopSub(s, n, wait)
               value == Value(key, s.data[TopIndex(s, n, wait)])
           IN  /\ Placed(p, key[2]) /\ p.cfg = s.cfg
               /\ value.data \in Payloads(s.data)
               /\ EraseHits(p, value) # {}
               /\ Payloads(EraseSub(p, value).data) = Payloads(s.data) \ {value.data}
<1> DEFINE p == TopSub(s, n, wait)
           k == TopIndex(s, n, wait)
           value == Value(key, s.data[k])
<1>1. s \in Subs(Merged) /\ Timely(s.data, n) /\ Once(s.data)  BY DEF Queue
<1>2. /\ k \in DOMAIN s.data /\ p \in Subs(Merged) /\ p.cfg = s.cfg /\ DOMAIN p.data = DOMAIN s.data
      /\ \A i \in DOMAIN s.data :
            /\ p.data[i].data = s.data[i].data
            /\ p.data[i].push_time = s.data[i].push_time
            /\ p.data[i].last_send = IF i = k THEN n ELSE s.data[i].last_send
  BY <1>1, TopSubEffect
<1>3. value.data = s.data[k].data /\ value.push_time = s.data[k].push_time  BY DEF Value
<1> HIDE DEF p, k, value
<1>4. p.data \in Seq(Datums) /\ s.data \in Seq(Datums)  BY <1>1, <1>2, SubTypes
<1>5. \A i \in DOMAIN s.data :
         /\ p.data[i].data = s.data[i].data /\ p.data[i].push_time = s.data[i].push_time
         /\ p.data[i].last_send = n \/ p.data[i].last_send = s.data[i].last_send
  BY <1>2
<1>6. /\ Once(s.data) => Once(p.data)
      /\ \A nf : Sorted(s.data, nf) => Sorted(p.data, nf)
      /\ Payloads(p.data) = Payloads(s.data)
  <2>1. DOMAIN p.data = DOMAIN s.data /\ n \in Nat  BY <1>2
  <2> QED BY ONLY <1>4, <1>5, <2>1, MarkKeeps
<1>7. Placed(p, key[2])  BY <1>2, <1>6 DEF Placed
<1>8. EraseHits(p, p.data[k]) # {}
  <2>1. Once(p.data) /\ Sorted(p.data, p.cfg.newest_first) /\ k \in DOMAIN p.data
    BY <1>1, <1>2, <1>6, <1>7 DEF Placed
  <2> QED BY <1>2, <2>1, EraseFinds
<1>9. EraseHits(p, value) = EraseHits(p, p.data[k])
  <2>1. p.data[k].data = value.data /\ p.data[k].push_time = value.push_time  BY <1>2, <1>3
  <2>2. \A x : SameValue(x, value) <=> SameValue(x, p.data[k])  BY <2>1 DEF SameValue
  <2>3. \A x : StopLooking(p, x, value) <=> StopLooking(p, x, p.data[k])
    BY <2>1 DEF StopLooking
  <2> QED BY <2>2, <2>3 DEF EraseHits
<1>10. Payloads(EraseSub(p, value).data) = Payloads(p.data) \ {value.data}
  <2>1. Once(p.data) /\ EraseHits(p, value) # {}  BY <1>1, <1>6, <1>8, <1>9
  <2> QED BY ONLY <1>2, <2>1, EraseSubEffect
<1>11. value.data \in Payloads(s.data)  BY <1>2, <1>3 DEF Payloads
<1> QED BY <1>2, <1>6, <1>7, <1>8, <1>9, <1>10, <1>11 DEF p, k, value

\* At first nothing was sent.
LEMMA InitSentOnce == Init => SentOnce
<1> SUFFICES ASSUME Init PROVE SentOnce
  OBVIOUS
<1>1. DOMAIN buffer_ = {} /\ air = {} /\ seen.fired = {} /\ thread = "idle"  BY DEF Init
<1> QED BY <1>1 DEF SentOnce, Known, Waiting, Single, InRequest

\* A step that sends nothing: what is in the buffer was there before, in a
\* sub-buffer of the same kind, or was not published before.
LEMMA SentOnceKept ==
    ASSUME SentOnce,
           \A k \in DOMAIN buffer_' : Placed(buffer_'[k], k[2]),
           \A k \in DOMAIN buffer_' : \A m \in Payloads(buffer_'[k].data) :
              \/ m \notin seen.published
              \/ /\ k \in DOMAIN buffer_ /\ m \in Payloads(buffer_[k].data)
                 /\ buffer_'[k].cfg.ack_required = buffer_[k].cfg.ack_required,
           seen'.fired \subseteq seen.fired, seen.published \subseteq seen'.published,
           \A p \in air' : p.type = "DATA" => p \in air,
           \/ thread' # "request"
           \/ thread' = thread /\ request'.dest = request.dest /\ request'.frames = request.frames
           \/ \A f \in DOMAIN request'.frames : request'.frames[f] = {}
    PROVE  SentOnce'
<1>1. ASSUME NEW d, NEW m, InRequest(d, m)' PROVE InRequest(d, m)
  <2>1. CASE \A f \in DOMAIN request'.frames : request'.frames[f] = {}
    <3>1. m \in UNION Range(request'.frames)  BY <1>1 DEF InRequest
    <3>2. PICK f \in DOMAIN request'.frames : m \in request'.frames[f]  BY <3>1 DEF Range
    <3> QED BY <2>1, <3>2
  <2>2. CASE thread' = thread /\ request'.dest = request.dest /\ request'.frames = request.frames
    BY <1>1, <2>2 DEF InRequest
  <2>3. CASE thread' # "request"  BY <1>1, <2>3 DEF InRequest
  <2> QED BY <2>1, <2>2, <2>3
<1>2. ASSUME NEW p \in air', NEW d, NEW m, Carries(p, d, m) PROVE p \in air
  BY <1>2 DEF Carries
<1>3. Known'
  <2>1. \A d, m : InRequest(d, m)' => m \in seen'.published  BY <1>1 DEF SentOnce, Known
  <2>2. \A p \in air' : p.type = "DATA" => Contents(p) \subseteq seen'.published
    BY DEF SentOnce, Known
  <2>3. \A v \in seen'.fired : v[2] \in seen'.published  BY DEF SentOnce, Known
  <2> QED BY <2>1, <2>2, <2>3 DEF Known
<1>4. Waiting'
  <2> SUFFICES ASSUME NEW k \in DOMAIN buffer_', NEW m \in Payloads(buffer_'[k].data)
               PROVE  /\ <<k[1], m>> \notin seen'.fired
                      /\ ~ buffer_'[k].cfg.ack_required =>
                            /\ ~ InRequest(k[1], m)'
                            /\ \A p \in air' : ~ Carries(p, k[1], m)
    BY DEF Waiting
  <2>1. CASE m \notin seen.published
    <3>1. <<k[1], m>> \notin seen.fired
      <4>1. <<k[1], m>>[2] = m  OBVIOUS
      <4> QED BY <2>1, <4>1 DEF SentOnce, Known
    <3>2. ~ InRequest(k[1], m)  BY <2>1 DEF SentOnce, Known
    <3>3. \A p \in air : ~ Carries(p, k[1], m)  BY <2>1 DEF SentOnce, Known, Carries
    <3> QED BY <1>1, <1>2, <3>1, <3>2, <3>3
  <2>2. CASE /\ k \in DOMAIN buffer_ /\ m \in Payloads(buffer_[k].data)
             /\ buffer_'[k].cfg.ack_required = buffer_[k].cfg.ack_required
    <3>1. /\ <<k[1], m>> \notin seen.fired
          /\ ~ buffer_[k].cfg.ack_required =>
                /\ ~ InRequest(k[1], m)
                /\ \A p \in air : ~ Carries(p, k[1], m)
      BY <2>2 DEF SentOnce, Waiting
    <3> QED BY <1>1, <1>2, <2>2, <3>1
  <2> QED BY <2>1, <2>2
<1>5. Single'
  <2> SUFFICES ASSUME NEW d, NEW m, <<d, m>> \in seen'.fired
               PROVE  /\ \A p, q \in air' : Carries(p, d, m) /\ Carries(q, d, m) => p = q
                      /\ InRequest(d, m)' => \A p \in air' : ~ Carries(p, d, m)
    BY DEF Single
  <2>1. /\ \A p, q \in air : Carries(p, d, m) /\ Carries(q, d, m) => p = q
        /\ InRequest(d, m) => \A p \in air : ~ Carries(p, d, m)
    BY DEF SentOnce, Single
  <2> QED BY <1>1, <1>2, <2>1
<1> QED BY <1>3, <1>4, <1>5 DEF SentOnce

\* A new or updated sub-buffer, when updates keep the kind of one with data.
LEMMA ReconfiguredPlaced ==
    ASSUME Matched, Stocked, SentOnce, NEW touched \in SUBSET (Dests \X BufferIds),
           NEW subs \in SubsType, NEW pubs \in PubsType,
           \A d \in Dests, b \in BufferIds : IsFiniteSet(subs[d][b]),
           \A k \in DOMAIN buffer_ : buffer_[k].data # <<>> =>
              /\ Reconfigured(touched, subs, pubs)[k].cfg.ack_required = buffer_[k].cfg.ack_required
              /\ Reconfigured(touched, subs, pubs)[k].cfg.newest_first = buffer_[k].cfg.newest_first
    PROVE  LET buf == Reconfigured(touched, subs, pubs)
           IN  /\ \A k \in DOMAIN buf : Placed(buf[k], k[2])
               /\ \A k \in DOMAIN buf : \A m \in Payloads(buf[k].data) :
                     /\ k \in DOMAIN buffer_ /\ m \in Payloads(buffer_[k].data)
                     /\ buf[k].cfg.ack_required = buffer_[k].cfg.ack_required
<1> DEFINE ready == Ready(touched, subs, pubs)
           buf == Reconfigured(touched, subs, pubs)
           list(k) == Cfgs(k[1], k[2], subs, pubs)
<1>1. \A k \in ready : list(k) \in Seq(AllCfgs)
  <2> SUFFICES ASSUME NEW k \in ready PROVE list(k) \in Seq(AllCfgs)
    OBVIOUS
  <2>1. k[1] \in Dests /\ k[2] \in BufferIds  BY DEF Ready
  <2> QED BY <2>1, CfgsList
<1>2. /\ DOMAIN buf = DOMAIN buffer_ \cup ready
      /\ \A k \in ready : k \notin DOMAIN buffer_ => buf[k] = NewSub(list(k), now)
  BY DEF Reconfigured
<1>3. \A k \in DOMAIN buffer_ : buf[k].data = buffer_[k].data  BY ReconfiguredQueues
<1>4. \A k \in DOMAIN buffer_ : buffer_[k].data # <<>> =>
         /\ buf[k].cfg.ack_required = buffer_[k].cfg.ack_required
         /\ buf[k].cfg.newest_first = buffer_[k].cfg.newest_first
  OBVIOUS
<1> HIDE DEF ready, buf, list
<1>5. ASSUME NEW k \in DOMAIN buf
      PROVE  \/ buf[k].data = <<>>
             \/ /\ k \in DOMAIN buffer_ /\ buf[k].data = buffer_[k].data
                /\ buf[k].cfg.ack_required = buffer_[k].cfg.ack_required
                /\ buf[k].cfg.newest_first = buffer_[k].cfg.newest_first
  <2>1. CASE k \in DOMAIN buffer_  BY <1>3, <1>4, <2>1
  <2>2. CASE k \notin DOMAIN buffer_
    <3>1. k \in ready /\ buf[k] = NewSub(list(k), now) /\ list(k) \in Seq(AllCfgs)
      BY <1>1, <1>2, <2>2
    <3>2. now \in Nat  BY DEF Stocked
    <3>3. NewSub(list(k), now).data = <<>>  BY <3>1, <3>2, QueueNew
    <3> QED BY <3>1, <3>3
  <2> QED BY <2>1, <2>2
<1>6. ASSUME NEW k \in DOMAIN buf
      PROVE  /\ Placed(buf[k], k[2])
             /\ \A m \in Payloads(buf[k].data) :
                   /\ k \in DOMAIN buffer_ /\ m \in Payloads(buffer_[k].data)
                   /\ buf[k].cfg.ack_required = buffer_[k].cfg.ack_required
  <2>1. CASE buf[k].data = <<>>  BY <2>1, EmptyQueue DEF Placed
  <2>2. CASE /\ k \in DOMAIN buffer_ /\ buf[k].data = buffer_[k].data
             /\ buf[k].cfg.ack_required = buffer_[k].cfg.ack_required
             /\ buf[k].cfg.newest_first = buffer_[k].cfg.newest_first
    BY <2>2 DEF SentOnce, Placed
  <2> QED BY <1>5, <2>1, <2>2
<1> QED BY <1>6 DEF buf

\* SUBSCRIBE, and UNSUBSCRIBE while another subscriber remains.
LEMMA SentOnceSubscribers ==
    ASSUME Matched, Stocked, SentOnce, KindsKept, NEW d \in Dests, NEW b \in BufferIds,
           NEW S \in SUBSET SubscriberCfgs, IsFiniteSet(S),
           SubscribersBecome(d, b, [subscriber_buffer_cfg_ EXCEPT ![d][b] = S])
    PROVE  SentOnce'
<1> DEFINE subs == [subscriber_buffer_cfg_ EXCEPT ![d][b] = S]
           touched == {<<d, b>>}
           buf == Reconfigured(touched, subs, publisher_buffer_cfg_)
<1>1. subs \in SubsType /\ publisher_buffer_cfg_ \in PubsType
      /\ touched \in SUBSET (Dests \X BufferIds)
  BY DEF Matched, Configured, SubsType
<1>2. \A e \in Dests, c \in BufferIds :
         subs[e][c] = IF e = d /\ c = b THEN S ELSE subscriber_buffer_cfg_[e][c]
  BY DEF Matched, Configured, SubsType
<1>3. /\ buffer_' = buf /\ air' = air /\ thread' # "request"
      /\ seen' = [seen EXCEPT !.changes = @ + 1]
  BY DEF SubscribersBecome
<1> HIDE DEF subs
<1>4. \A e \in Dests, c \in BufferIds : IsFiniteSet(subs[e][c])  BY <1>2 DEF Stocked
<1> HIDE DEF touched
<1>5. DOMAIN buffer_ \subseteq DOMAIN buf  BY <1>1, <1>4, ReconfiguredQueues
<1>6. \A k \in DOMAIN buffer_ : buffer_[k].data # <<>> =>
         /\ buf[k].cfg.ack_required = buffer_[k].cfg.ack_required
         /\ buf[k].cfg.newest_first = buffer_[k].cfg.newest_first
  <2> HIDE DEF buf
  <2> QED BY <1>3, <1>5 DEF KindsKept
<1>7. /\ \A k \in DOMAIN buf : Placed(buf[k], k[2])
      /\ \A k \in DOMAIN buf : \A m \in Payloads(buf[k].data) :
            /\ k \in DOMAIN buffer_ /\ m \in Payloads(buffer_[k].data)
            /\ buf[k].cfg.ack_required = buffer_[k].cfg.ack_required
  BY <1>1, <1>4, <1>6, ReconfiguredPlaced
<1> HIDE DEF buf
<1>8. seen'.fired = seen.fired /\ seen'.published = seen.published
  BY <1>3 DEF Stocked, SeenType
<1> QED BY <1>3, <1>7, <1>8, SentOnceKept

\* UNSUBSCRIBE of the last subscriber.
LEMMA SentOnceLastUnsubscribe ==
    ASSUME Matched, Stocked, SentOnce, NEW d \in Dests, NEW b \in BufferIds, NEW cfg,
           _accept_last_unsubscribe(d, b, cfg)
    PROVE  SentOnce'
<1>1. buffer_' = Without(buffer_, {<<d, b>>}) /\ air' = air /\ thread' # "request"
  BY DEF _accept_last_unsubscribe
<1>2. DOMAIN buffer_' \subseteq DOMAIN buffer_ /\ \A k \in DOMAIN buffer_' : buffer_'[k] = buffer_[k]
  BY <1>1 DEF Without
<1>3. seen'.fired = seen.fired /\ seen'.published = seen.published
  <2>1. seen \in SeenType  BY DEF Stocked
  <2> QED BY <2>1 DEF _accept_last_unsubscribe, SeenType
<1>4. \A k \in DOMAIN buffer_' : Placed(buffer_'[k], k[2])  BY <1>2 DEF SentOnce
<1>5. \A k \in DOMAIN buffer_' : \A m \in Payloads(buffer_'[k].data) :
         /\ k \in DOMAIN buffer_ /\ m \in Payloads(buffer_[k].data)
         /\ buffer_'[k].cfg.ack_required = buffer_[k].cfg.ack_required
  BY <1>2
<1> QED BY <1>1, <1>3, <1>4, <1>5, SentOnceKept

\* A step that leaves the buffer alone and sends nothing.
LEMMA SentOnceUnmoved ==
    ASSUME SentOnce, buffer_' = buffer_, seen'.fired = seen.fired,
           seen.published \subseteq seen'.published,
           \A p \in air' : p.type = "DATA" => p \in air,
           \/ thread' # "request"
           \/ thread' = thread /\ request'.dest = request.dest /\ request'.frames = request.frames
           \/ \A f \in DOMAIN request'.frames : request'.frames[f] = {}
    PROVE  SentOnce'
<1>1. \A k \in DOMAIN buffer_' : Placed(buffer_'[k], k[2])  BY DEF SentOnce
<1>2. \A k \in DOMAIN buffer_' : \A m \in Payloads(buffer_'[k].data) :
         /\ k \in DOMAIN buffer_ /\ m \in Payloads(buffer_[k].data)
         /\ buffer_'[k].cfg.ack_required = buffer_[k].cfg.ack_required
  OBVIOUS
<1> QED BY <1>1, <1>2, SentOnceKept

\* push() leaves the configuration alone.
LEMMA PushCfg ==
    ASSUME NEW s, NEW n, NEW P, Queue(s, n, P), NEW t
    PROVE  PushSub(s, t, n).cfg = s.cfg
<1>1. s \in Subs(Merged)  BY DEF Queue
<1> QED BY <1>1 DEF PushSub, Subs

\* A publication, which was not published before.
LEMMA SentOnceBuffer ==
    ASSUME Matched, Stocked, SentOnce, KindsKept, NEW m \in Messages, NEW has_metadata,
           _buffer_message(m, has_metadata)
    PROVE  SentOnce'
<1> DEFINE b == BufferOf[m]
           new == IsNewCfg(b, PublisherCfg[m])
           pubs == IF new THEN [publisher_buffer_cfg_ EXCEPT ![b] = Append(@, PublisherCfg[m])]
                   ELSE publisher_buffer_cfg_
           touched == IF new THEN Dests \X {b} ELSE {}
           subs == subscriber_buffer_cfg_
           buf == Reconfigured(touched, subs, pubs)
           created == NowCreated(touched, subs, pubs)
           to == {<<d, b>> : d \in {x \in created[b] : _dest_is_in_subnet(x)}}
<1>1. /\ publisher_buffer_cfg_' = pubs /\ subscriber_buffer_cfg_' = subs
      /\ buffer_' = [k \in DOMAIN buf |->
                       IF k \in to THEN PushSub(buf[k], m, now) ELSE buf[k]]
      /\ air' = air /\ thread' # "request" /\ m \notin seen.published
  BY DEF _buffer_message
<1>2. Matched'  BY BufferMessageStep
<1>3. b \in BufferIds /\ touched \in SUBSET (Dests \X BufferIds)  OBVIOUS
<1>4. subs \in SubsType /\ pubs \in PubsType  BY <1>1, <1>2 DEF Matched, Configured
<1>5. \A d \in Dests, c \in BufferIds : IsFiniteSet(subs[d][c])  BY DEF Stocked
<1>6. KeyOf(m) = b /\ \A k \in to : k[2] = b  BY DEF KeyOf
<1>7. seen'.fired = seen.fired /\ seen'.published = seen.published \cup {m}
  <2>1. seen \in SeenType  BY DEF Stocked
  <2> QED BY <2>1 DEF _buffer_message, SeenType
<1> HIDE DEF b, new, pubs, touched, subs
<1>8. /\ DOMAIN buffer_ \subseteq DOMAIN buf
      /\ \A k \in DOMAIN buf : Queue(buf[k], now, seen.published)
  BY <1>3, <1>4, <1>5, ReconfiguredQueues
<1>9. \A k \in DOMAIN buf : buffer_'[k].cfg = buf[k].cfg
  <2> HIDE DEF buf, to
  <2> QED BY <1>1, <1>8, PushCfg
<1>10. \A k \in DOMAIN buffer_ : buffer_[k].data # <<>> =>
         /\ buf[k].cfg.ack_required = buffer_[k].cfg.ack_required
         /\ buf[k].cfg.newest_first = buffer_[k].cfg.newest_first
  <2> HIDE DEF buf, to
  <2>1. DOMAIN buffer_' = DOMAIN buf  BY <1>1
  <2> QED BY <1>8, <1>9, <2>1 DEF KindsKept
<1>11. /\ \A k \in DOMAIN buf : Placed(buf[k], k[2])
       /\ \A k \in DOMAIN buf : \A t \in Payloads(buf[k].data) :
             /\ k \in DOMAIN buffer_ /\ t \in Payloads(buffer_[k].data)
             /\ buf[k].cfg.ack_required = buffer_[k].cfg.ack_required
  BY <1>3, <1>4, <1>5, <1>10, ReconfiguredPlaced
<1> HIDE DEF buf, created, to
<1>12. m \in Data /\ now \in Nat /\ now > 0  BY DEF Stocked
<1>13. ASSUME NEW k \in DOMAIN buf
       PROVE  Placed(buffer_'[k], k[2]) /\ Payloads(buffer_'[k].data) \subseteq Payloads(buf[k].data) \cup {m}
  <2>1. CASE k \in to
    <3>1. Queue(buf[k], now, seen.published) /\ m \notin seen.published /\ Placed(buf[k], KeyOf(m))
      BY <1>1, <1>6, <1>8, <1>11, <2>1
    <3>2. /\ Placed(PushSub(buf[k], m, now), KeyOf(m))
          /\ Payloads(PushSub(buf[k], m, now).data) \subseteq Payloads(buf[k].data) \cup {m}
      BY ONLY <1>12, <3>1, PlacedPush
    <3> QED BY <1>1, <1>6, <2>1, <3>2
  <2>2. CASE k \notin to  BY <1>1, <1>11, <2>2
  <2> QED BY <2>1, <2>2
<1>14. DOMAIN buffer_' = DOMAIN buf  BY <1>1
<1>15. \A k \in DOMAIN buffer_' : Placed(buffer_'[k], k[2])  BY <1>13, <1>14
<1>16. \A k \in DOMAIN buffer_' : \A t \in Payloads(buffer_'[k].data) :
          \/ t \notin seen.published
          \/ /\ k \in DOMAIN buffer_ /\ t \in Payloads(buffer_[k].data)
             /\ buffer_'[k].cfg.ack_required = buffer_[k].cfg.ack_required
  BY <1>1, <1>9, <1>11, <1>13, <1>14
<1> QED BY <1>1, <1>7, <1>15, <1>16, SentOnceKept

\* A subscription of this vehicle, which was not published before.
LEMMA SentOnceForward ==
    ASSUME Matched, Stocked, SentOnce, NEW m \in Forwards, NEW dests \in SUBSET Dests,
           _forward_subscription(m, dests)
    PROVE  SentOnce'
<1> DEFINE to == {<<d, SubscriptionKey>> : d \in {x \in dests : _dest_is_in_subnet(x)}}
           Sub(k) == IF k[1] \in subscription_subbuffers_ THEN buffer_[k]
                     ELSE NewSub(<<SubscriptionCfg>>, now)
<1>1. /\ buffer_' = [k \in DOMAIN buffer_ \cup to |->
                       IF k \in to THEN PushSub(Sub(k), m, now) ELSE buffer_[k]]
      /\ m \notin seen.published /\ air' = air /\ thread' # "request"
  BY DEF _forward_subscription
<1>2. \A k \in to : k[1] \in Dests /\ k = <<k[1], SubscriptionKey>> /\ k[2] = SubscriptionKey
  OBVIOUS
<1>3. \A k \in to : k[1] \in subscription_subbuffers_ <=> k \in DOMAIN buffer_
  <2>1. DOMAIN buffer_ = {k \in Dests \X BufferIds : k[1] \in subbuffers_created_[k[2]]}
                         \cup (subscription_subbuffers_ \X {SubscriptionKey})
    BY DEF Matched, BuffersMatchSubscriptions
  <2> QED BY <1>2, <2>1
<1>4. m \in Data /\ now \in Nat /\ now > 0 /\ KeyOf(m) = SubscriptionKey
  BY DEF Stocked, Forwards, KeyOf
<1>5. seen'.fired = seen.fired /\ seen'.published = seen.published \cup {m}
  <2>1. seen \in SeenType  BY DEF Stocked
  <2> QED BY <2>1 DEF _forward_subscription, SeenType
<1>6. ASSUME NEW k \in to
      PROVE  /\ Queue(Sub(k), now, seen.published) /\ Placed(Sub(k), KeyOf(m))
             /\ k \in DOMAIN buffer_ => Sub(k) = buffer_[k]
             /\ k \notin DOMAIN buffer_ => Payloads(Sub(k).data) = {}
  <2>1. CASE k \in DOMAIN buffer_
    <3>1. Sub(k) = buffer_[k] /\ Queue(buffer_[k], now, seen.published)  BY <1>3, <2>1 DEF Stocked
    <3>2. Placed(buffer_[k], k[2])  BY <2>1 DEF SentOnce
    <3> QED BY <1>2, <1>4, <2>1, <3>1, <3>2
  <2>2. CASE k \notin DOMAIN buffer_
    <3>1. Sub(k) = NewSub(<<SubscriptionCfg>>, now)  BY <1>3, <2>2
    <3>2. SubscriptionCfg \in AllCfgs  BY DEF AllCfgs
    <3>3. <<SubscriptionCfg>> \in Seq(AllCfgs)  BY <3>2
    <3>4. /\ Queue(NewSub(<<SubscriptionCfg>>, now), now, seen.published)
          /\ NewSub(<<SubscriptionCfg>>, now).data = <<>>
      BY ONLY <1>4, <3>3, QueueNew
    <3>5. Placed(Sub(k), KeyOf(m)) /\ Payloads(Sub(k).data) = {}
      BY <3>1, <3>4, EmptyQueue DEF Placed
    <3> QED BY <2>2, <3>1, <3>4, <3>5
  <2> QED BY <2>1, <2>2
<1> HIDE DEF to, Sub
<1>7. ASSUME NEW k \in to
      PROVE  /\ Placed(PushSub(Sub(k), m, now), KeyOf(m)) /\ PushSub(Sub(k), m, now).cfg = Sub(k).cfg
             /\ Payloads(PushSub(Sub(k), m, now).data) \subseteq Payloads(Sub(k).data) \cup {m}
  <2>1. Queue(Sub(k), now, seen.published) /\ Placed(Sub(k), KeyOf(m)) /\ m \notin seen.published
    BY <1>1, <1>6
  <2> QED BY ONLY <1>4, <2>1, PlacedPush
<1>8. ASSUME NEW k \in DOMAIN buffer_'
      PROVE  /\ Placed(buffer_'[k], k[2])
             /\ \A t \in Payloads(buffer_'[k].data) :
                   \/ t \notin seen.published
                   \/ /\ k \in DOMAIN buffer_ /\ t \in Payloads(buffer_[k].data)
                      /\ buffer_'[k].cfg.ack_required = buffer_[k].cfg.ack_required
  <2>1. CASE k \in to
    <3>1. buffer_'[k] = PushSub(Sub(k), m, now)  BY <1>1, <2>1
    <3>2. Placed(buffer_'[k], k[2])  BY <1>2, <1>4, <1>7, <2>1, <3>1
    <3>3. CASE k \in DOMAIN buffer_  BY <1>1, <1>6, <1>7, <2>1, <3>1, <3>2, <3>3
    <3>4. CASE k \notin DOMAIN buffer_
      <4>1. Payloads(buffer_'[k].data) \subseteq {m}  BY <1>6, <1>7, <2>1, <3>1, <3>4
      <4> QED BY <1>1, <3>2, <4>1
    <3> QED BY <3>3, <3>4
  <2>2. CASE k \notin to
    <3>1. k \in DOMAIN buffer_ /\ buffer_'[k] = buffer_[k]  BY <1>1, <2>2
    <3> QED BY <3>1 DEF SentOnce
  <2> QED BY <2>1, <2>2
<1> QED BY <1>1, <1>5, <1>8, SentOnceKept

\* loop() expires data.
LEMMA SentOnceExpire ==
    ASSUME Matched, Stocked, SentOnce, LoopExpire
    PROVE  SentOnce'
<1>1. /\ buffer_' = [k \in DOMAIN buffer_ |-> ExpireSub(buffer_[k], now)]
      /\ air' = air /\ thread' # "request"
  BY DEF LoopExpire
<1>2. seen'.fired = seen.fired /\ seen'.published = seen.published
  <2>1. seen \in SeenType  BY DEF Stocked
  <2> QED BY <2>1 DEF LoopExpire, SeenType
<1>3. ASSUME NEW k \in DOMAIN buffer_
      PROVE  /\ Placed(buffer_'[k], k[2]) /\ buffer_'[k].cfg = buffer_[k].cfg
             /\ Payloads(buffer_'[k].data) \subseteq Payloads(buffer_[k].data)
  <2>1. Queue(buffer_[k], now, seen.published) /\ now \in Nat /\ Placed(buffer_[k], k[2])
    BY DEF Stocked, SentOnce
  <2>2. /\ Placed(ExpireSub(buffer_[k], now), k[2]) /\ ExpireSub(buffer_[k], now).cfg = buffer_[k].cfg
        /\ Payloads(ExpireSub(buffer_[k], now).data) \subseteq Payloads(buffer_[k].data)
    BY ONLY <2>1, PlacedExpire
  <2> QED BY <1>1, <2>2
<1>4. DOMAIN buffer_' = DOMAIN buffer_  BY <1>1
<1>5. \A k \in DOMAIN buffer_' : Placed(buffer_'[k], k[2])  BY <1>3, <1>4
<1>6. \A k \in DOMAIN buffer_' : \A m \in Payloads(buffer_'[k].data) :
         /\ k \in DOMAIN buffer_ /\ m \in Payloads(buffer_[k].data)
         /\ buffer_'[k].cfg.ack_required = buffer_[k].cfg.ack_required
  BY <1>3, <1>4
<1> QED BY <1>1, <1>2, <1>5, <1>6, SentOnceKept

\* An acked value is erased.
LEMMA SentOnceAck ==
    ASSUME Matched, Stocked, SentOnce, NEW f \in DOMAIN acking, AckValue(f)
    PROVE  SentOnce'
<1> DEFINE value == Head(pending_ack_[f])
           key == value.key
<1>1. /\ key \in DOMAIN buffer_ /\ air' = air /\ thread' # "request"
      /\ buffer_' = [buffer_ EXCEPT ![key] = EraseSub(buffer_[key], value)]
      /\ seen' = [seen EXCEPT !.acked = @ \cup {<<key[1], value.data, acking[f]>>}]
  BY DEF AckValue
<1> HIDE DEF value, key
<1>2. seen'.fired = seen.fired /\ seen'.published = seen.published  BY <1>1 DEF Stocked, SeenType
<1>3. /\ Placed(EraseSub(buffer_[key], value), key[2])
      /\ EraseSub(buffer_[key], value).cfg = buffer_[key].cfg
      /\ Payloads(EraseSub(buffer_[key], value).data) \subseteq Payloads(buffer_[key].data)
  <2>1. Queue(buffer_[key], now, seen.published) /\ Placed(buffer_[key], key[2])
    BY <1>1 DEF Stocked, SentOnce
  <2> QED BY ONLY <2>1, PlacedErase
<1>4. /\ DOMAIN buffer_' = DOMAIN buffer_
      /\ buffer_'[key] = EraseSub(buffer_[key], value)
      /\ \A k \in DOMAIN buffer_ : k # key => buffer_'[k] = buffer_[k]
  BY <1>1
<1>5. \A k \in DOMAIN buffer_' : Placed(buffer_'[k], k[2])  BY <1>3, <1>4 DEF SentOnce
<1>6. \A k \in DOMAIN buffer_' : \A m \in Payloads(buffer_'[k].data) :
         /\ k \in DOMAIN buffer_ /\ m \in Payloads(buffer_[k].data)
         /\ buffer_'[k].cfg.ack_required = buffer_[k].cfg.ack_required
  BY <1>3, <1>4
<1> QED BY <1>1, <1>2, <1>5, <1>6, SentOnceKept

\* A value put in a frame: erased if it needs no ack, and then in no packet yet.
LEMMA SentOnceTop ==
    ASSUME Matched, Stocked, Framed, SentOnce, NEW key \in DOMAIN buffer_, RequestTop(key)
    PROVE  SentOnce'
<1> DEFINE sub == TopSub(buffer_[key], now, AckTimeout)
           value == Value(key, buffer_[key].data[TopIndex(buffer_[key], now, AckTimeout)])
           ack == sub.cfg.ack_required
           f == request.frame
           left == IF ack THEN sub ELSE EraseSub(sub, value)
           fired == IF ack THEN seen.fired ELSE seen.fired \cup {<<key[1], value.data>>}
           m == value.data
<1>1. /\ f \in DOMAIN request.frames /\ key[1] \in Dests
      /\ request'.dest = key[1]
      /\ request'.frames = [request.frames EXCEPT ![f] = @ \cup {m}]
      /\ request.dest = Query \/ key[1] = request.dest
      /\ seen' = [seen EXCEPT !.fired = fired]
      /\ thread = "request" /\ air' = air
  BY FramesTopEffect
<1>2. buffer_' = [buffer_ EXCEPT ![key] = left] /\ key \in RequestWinners
  BY DEF RequestTop
<1>3. ValueResult(buffer_[key], now, request.room, AckTimeout) = "VALUE_PROVIDED"
  BY <1>2 DEF RequestWinners, Winners, Contestants
<1>4. /\ Queue(buffer_[key], now, seen.published) /\ now \in Nat /\ Placed(buffer_[key], key[2])
      /\ Queue(sub, now, seen.published)
  BY <1>2, WinnerProvides DEF Stocked, SentOnce
<1>5. /\ Placed(sub, key[2]) /\ sub.cfg = buffer_[key].cfg
      /\ m \in Payloads(buffer_[key].data)
      /\ Payloads(EraseSub(sub, value).data) = Payloads(buffer_[key].data) \ {m}
  BY ONLY <1>3, <1>4, PlacedTop
<1>6. Payloads(sub.data) = Payloads(buffer_[key].data)  BY <1>2, WinnerProvides
<1>7. ack = buffer_[key].cfg.ack_required  BY <1>5
<1> HIDE DEF sub, value, ack, f
<1>8. /\ Placed(left, key[2]) /\ left.cfg = buffer_[key].cfg
      /\ Payloads(left.data) \subseteq Payloads(buffer_[key].data)
      /\ ~ ack => m \notin Payloads(left.data)
  <2>1. CASE ack  BY <1>5, <1>6, <2>1
  <2>2. CASE ~ ack
    <3>1. Placed(EraseSub(sub, value), key[2]) /\ EraseSub(sub, value).cfg = sub.cfg
      BY <1>4, <1>5, PlacedErase
    <3> QED BY <1>5, <2>2, <3>1
  <2> QED BY <2>1, <2>2
<1>9. \A v : v \in fired <=> v \in seen.fired \/ (~ ack /\ v = <<key[1], m>>)  OBVIOUS
<1> HIDE DEF left, fired
<1>10. seen'.fired = fired /\ seen'.published = seen.published  BY <1>1 DEF Stocked, SeenType
<1>11. /\ DOMAIN buffer_' = DOMAIN buffer_ /\ buffer_'[key] = left
       /\ \A k \in DOMAIN buffer_ : k # key => buffer_'[k] = buffer_[k]
  BY <1>2
<1>12. /\ \A k \in DOMAIN buffer_ : k \in Dests \X (BufferIds \cup {SubscriptionKey})
       /\ \A k \in DOMAIN buffer_ : k = <<k[1], k[2]>>
  BY BufferKeys
<1>13. ASSUME NEW k \in DOMAIN buffer_, k[1] = key[1], m \in Payloads(buffer_[k].data)
       PROVE  k = key
  <2>1. KeyOf(m) = k[2] /\ KeyOf(m) = key[2]  BY <1>5, <1>13 DEF SentOnce, Placed
  <2> QED BY <1>12, <1>13, <2>1
<1>14. ASSUME NEW k \in DOMAIN buffer_, m \in Payloads(buffer_'[k].data), k[1] = key[1]
       PROVE  k = key /\ ack
  BY <1>8, <1>11, <1>13, <1>14
<1>15. ASSUME NEW d, NEW t, InRequest(d, t)'
       PROVE  d = key[1] /\ (t = m \/ InRequest(d, t))
  <2>1. d = key[1] /\ t \in UNION Range(request'.frames)  BY <1>1, <1>15 DEF InRequest
  <2>2. PICK g \in DOMAIN request'.frames : t \in request'.frames[g]  BY <2>1 DEF Range
  <2>3. g \in DOMAIN request.frames /\ (t = m \/ t \in request.frames[g])  BY <1>1, <2>2
  <2>4. CASE t \in request.frames[g]
    <3>1. Filling  BY <1>1 DEF Framed
    <3>2. request.dest \in Dests  BY <2>3, <2>4, <3>1 DEF Filling
    <3>3. request.dest = key[1]  BY <1>1, <3>2, ModemDriverAssumption
    <3>4. t \in UNION Range(request.frames)  BY <2>3, <2>4 DEF Range
    <3> QED BY <1>1, <2>1, <3>3, <3>4 DEF InRequest
  <2> QED BY <2>1, <2>3, <2>4
<1>16. \A k \in DOMAIN buffer_' : Placed(buffer_'[k], k[2])  BY <1>8, <1>11 DEF SentOnce
<1>17. m \in seen.published  BY <1>4, <1>5 DEF Queue
<1>18. Known'
  <2>1. \A d, t : InRequest(d, t)' => t \in seen'.published
    BY <1>10, <1>15, <1>17 DEF SentOnce, Known
  <2>2. \A p \in air' : p.type = "DATA" => Contents(p) \subseteq seen'.published
    BY <1>1, <1>10 DEF SentOnce, Known
  <2>3. \A v \in seen'.fired : v[2] \in seen'.published
    BY <1>9, <1>10, <1>17 DEF SentOnce, Known
  <2> QED BY <2>1, <2>2, <2>3 DEF Known
<1>19. /\ <<key[1], m>> \notin seen.fired
       /\ ~ ack => \A p \in air : ~ Carries(p, key[1], m)
  BY <1>5, <1>7 DEF SentOnce, Waiting
<1>20. Waiting'
  <2> SUFFICES ASSUME NEW k \in DOMAIN buffer_, NEW t \in Payloads(buffer_'[k].data)
               PROVE  /\ <<k[1], t>> \notin seen'.fired
                      /\ ~ buffer_'[k].cfg.ack_required =>
                            /\ ~ InRequest(k[1], t)'
                            /\ \A p \in air' : ~ Carries(p, k[1], t)
    BY <1>11 DEF Waiting
  <2>1. t \in Payloads(buffer_[k].data) /\ buffer_'[k].cfg = buffer_[k].cfg  BY <1>8, <1>11
  <2>2. /\ <<k[1], t>> \notin seen.fired
        /\ ~ buffer_[k].cfg.ack_required =>
              /\ ~ InRequest(k[1], t)
              /\ \A p \in air : ~ Carries(p, k[1], t)
    BY <2>1 DEF SentOnce, Waiting
  <2>3. <<k[1], t>> \notin seen'.fired
    <3>1. ~ ack => <<k[1], t>> # <<key[1], m>>  BY <1>14
    <3> QED BY <1>9, <1>10, <2>2, <3>1
  <2>4. ASSUME ~ buffer_'[k].cfg.ack_required PROVE ~ InRequest(k[1], t)'
    <3>1. ~ (k[1] = key[1] /\ t = m)  BY <1>7, <1>14, <2>1, <2>4
    <3> QED BY <1>15, <2>1, <2>2, <2>4, <3>1
  <2> QED BY <1>1, <2>1, <2>2, <2>3, <2>4
<1>21. Single'
  <2> SUFFICES ASSUME NEW d, NEW t, <<d, t>> \in seen'.fired
               PROVE  /\ \A p, q \in air' : Carries(p, d, t) /\ Carries(q, d, t) => p = q
                      /\ InRequest(d, t)' => \A p \in air' : ~ Carries(p, d, t)
    BY DEF Single
  <2>1. CASE <<d, t>> \in seen.fired
    <3>1. /\ \A p, q \in air : Carries(p, d, t) /\ Carries(q, d, t) => p = q
          /\ InRequest(d, t) => \A p \in air : ~ Carries(p, d, t)
      BY <2>1 DEF SentOnce, Single
    <3>2. ~ (d = key[1] /\ t = m)  BY <1>19, <2>1
    <3> QED BY <1>1, <1>15, <3>1, <3>2
  <2>2. CASE ~ ack /\ <<d, t>> = <<key[1], m>>
    <3>1. d = key[1] /\ t = m  BY <2>2
    <3> QED BY <1>1, <1>19, <2>2, <3>1
  <2> QED BY <1>9, <1>10, <2>1, <2>2
<1> QED BY <1>16, <1>18, <1>20, <1>21 DEF SentOnce

\* Two destinations with the same id within the subnet are the same.
LEMMA SameDest ==
    ASSUME NEW d \in Dests, NEW e, _id_within_subnet(d) = _id_within_subnet(e),
           e \in Dests
    PROVE  d = e
BY FullId

\* The request becomes a packet.
LEMMA SentOnceDone ==
    ASSUME Matched, Stocked, Framed, SentOnce, RequestDone
    PROVE  SentOnce'
<1>1. /\ thread = "request" /\ thread' = "idle" /\ UNCHANGED buffer_
      /\ air' = IF request.frames[request.start] = {} THEN air ELSE air \cup {Packet(request)}
      /\ seen'.fired = seen.fired /\ seen'.published = seen.published
  BY DoneFields DEF RequestDone
<1>2. CASE request.frames[request.start] = {}
  <2>1. air' = air  BY <1>1, <1>2
  <2> QED BY <1>1, <2>1, SentOnceUnmoved
<1>3. CASE request.frames[request.start] # {}
  <2> DEFINE new == Packet(request)
  <2>1. request.dest \in Dests  BY <1>3, PacketSent
  <2>2. new.dest = _id_within_subnet(request.dest) /\ new.frames = request.frames  BY DEF Packet
  <2>3. air' = air \cup {new}  BY <1>1, <1>3
  <2> HIDE DEF new
  <2>4. \A d, m : ~ InRequest(d, m)'  BY <1>1 DEF InRequest
  <2>5. ASSUME NEW d \in Dests, NEW m, Carries(new, d, m) PROVE InRequest(d, m)
    <3>1. d = request.dest  BY <2>1, <2>2, <2>5, SameDest DEF Carries
    <3>2. m \in UNION Range(request.frames)  BY <2>2, <2>5 DEF Carries, Contents
    <3> QED BY <1>1, <3>1, <3>2 DEF InRequest
  <2>6. Known'
    <3>1. Contents(new) \subseteq seen.published
      <4> SUFFICES ASSUME NEW m \in Contents(new) PROVE m \in seen.published
        OBVIOUS
      <4>1. InRequest(request.dest, m)  BY <1>1, <2>2 DEF InRequest, Contents
      <4> QED BY <4>1 DEF SentOnce, Known
    <3>2. \A p \in air' : p.type = "DATA" => Contents(p) \subseteq seen'.published
      BY <1>1, <2>3, <3>1 DEF SentOnce, Known
    <3> QED BY <1>1, <2>4, <3>2 DEF SentOnce, Known
  <2>7. Waiting'
    <3> SUFFICES ASSUME NEW k \in DOMAIN buffer_, NEW m \in Payloads(buffer_[k].data)
                 PROVE  /\ <<k[1], m>> \notin seen.fired
                        /\ ~ buffer_[k].cfg.ack_required =>
                              \A p \in air' : ~ Carries(p, k[1], m)
      BY <1>1, <2>4 DEF Waiting
    <3>1. k[1] \in Dests  BY BufferKeys
    <3>2. /\ <<k[1], m>> \notin seen.fired
          /\ ~ buffer_[k].cfg.ack_required =>
                /\ ~ InRequest(k[1], m)
                /\ \A p \in air : ~ Carries(p, k[1], m)
      BY DEF SentOnce, Waiting
    <3> QED BY <2>3, <2>5, <3>1, <3>2
  <2>8. Single'
    <3> SUFFICES ASSUME NEW d, NEW m, <<d, m>> \in seen.fired,
                        NEW p \in air', NEW q \in air', Carries(p, d, m), Carries(q, d, m)
                 PROVE  p = q
      BY <1>1, <2>4 DEF Single
    <3>1. d \in Dests  BY SeenFields DEF Stocked
    <3>2. /\ p \in air /\ q \in air => p = q
          /\ InRequest(d, m) => \A r \in air : ~ Carries(r, d, m)
      BY DEF SentOnce, Single
    <3>3. p \in air \/ p = new  BY <2>3
    <3>4. q \in air \/ q = new  BY <2>3
    <3>5. p = new \/ q = new => InRequest(d, m)  BY <2>5, <3>1
    <3> QED BY <3>2, <3>3, <3>4, <3>5
  <2>9. \A k \in DOMAIN buffer_' : Placed(buffer_'[k], k[2])  BY <1>1 DEF SentOnce
  <2> QED BY <2>6, <2>7, <2>8, <2>9 DEF SentOnce
<1> QED BY <1>2, <1>3

\* As long as updates keep the kind of a sub-buffer, every step keeps a value
\* without ack in one packet.
LEMMA NextSentOnce ==
    ASSUME Matched, Stocked, Framed, SentOnce, [Next]_vars, [KindsKept]_vars
    PROVE  SentOnce'
<1>0. seen \in SeenType  BY DEF Stocked
<1>1. CASE UNCHANGED vars
  BY <1>1, SentOnceUnmoved DEF vars
<1>2. ASSUME NEW d \in Dests, NEW b \in BufferIds, NEW cfg \in SubscriberCfgs, KindsKept,
             _accept_subscribe(d, b, cfg)
      PROVE  SentOnce'
  <2> DEFINE S == subscriber_buffer_cfg_[d][b] \cup {cfg}
  <2>1. S \in SUBSET SubscriberCfgs  BY DEF Matched, Configured, SubsType
  <2>2. SubscribersBecome(d, b, [subscriber_buffer_cfg_ EXCEPT ![d][b] = S])
    BY <1>2 DEF _accept_subscribe
  <2>3. IsFiniteSet(S)
    <3>1. IsFiniteSet(subscriber_buffer_cfg_[d][b])  BY DEF Stocked
    <3> QED BY <3>1, FS_AddElement
  <2> HIDE DEF S
  <2> QED BY <1>2, <2>1, <2>2, <2>3, SentOnceSubscribers
<1>3. ASSUME NEW d \in Dests, NEW b \in BufferIds, NEW cfg \in SubscriberCfgs, KindsKept,
             _accept_unsubscribe(d, b, cfg)
      PROVE  SentOnce'
  <2> DEFINE S == subscriber_buffer_cfg_[d][b] \ {cfg}
  <2>1. S \in SUBSET SubscriberCfgs  BY DEF Matched, Configured, SubsType
  <2>2. SubscribersBecome(d, b, [subscriber_buffer_cfg_ EXCEPT ![d][b] = S])
    BY <1>3 DEF _accept_unsubscribe
  <2>3. IsFiniteSet(S)
    <3>1. IsFiniteSet(subscriber_buffer_cfg_[d][b])  BY DEF Stocked
    <3> QED BY <3>1, FS_RemoveElement
  <2> HIDE DEF S
  <2> QED BY <1>3, <2>1, <2>2, <2>3, SentOnceSubscribers
<1>4. ASSUME NEW d \in Dests, NEW b \in BufferIds, NEW cfg \in SubscriberCfgs,
             _accept_last_unsubscribe(d, b, cfg)
      PROVE  SentOnce'
  BY <1>4, SentOnceLastUnsubscribe
<1>5. ASSUME NEW m \in Messages, _buffer_message_omit(m) PROVE SentOnce'
  <2>1. seen'.fired = seen.fired /\ seen'.published = seen.published \cup {m}
    BY <1>0, <1>5 DEF _buffer_message_omit, SeenType
  <2> QED BY <1>5, <2>1, SentOnceUnmoved DEF _buffer_message_omit
<1>6. ASSUME NEW m \in Messages, NEW has_metadata \in BOOLEAN, KindsKept,
             _buffer_message(m, has_metadata)
      PROVE  SentOnce'
  BY <1>6, SentOnceBuffer
<1>7. ASSUME NEW m \in Forwards, NEW dests \in SUBSET Dests, _forward_subscription(m, dests)
      PROVE  SentOnce'
  BY <1>7, SentOnceForward
<1>8. ASSUME NEW key \in DOMAIN buffer_, RequestTop(key) PROVE SentOnce'
  BY <1>8, SentOnceTop
<1>9. ASSUME RequestNextFrame PROVE SentOnce'
  <2> DEFINE g == request.frame + 1
             r == [request EXCEPT !.frame = g, !.room = MaxFrameBytes]
  <2>1. request' = r /\ UNCHANGED <<thread, air, seen, buffer_>>  BY <1>9 DEF RequestNextFrame
  <2>2. request \in Requests  BY DEF Framed
  <2> HIDE DEF g
  <2>3. r.dest = request.dest /\ r.frames = request.frames  BY ONLY <2>2 DEF Requests
  <2> HIDE DEF r
  <2> QED BY <2>1, <2>3, SentOnceUnmoved
<1>10. ASSUME RequestDone PROVE SentOnce'
  BY <1>10, SentOnceDone
<1>11. ASSUME LoopExpire PROVE SentOnce'
  BY <1>11, SentOnceExpire
<1>12. ASSUME MacIdle \/ Tick PROVE SentOnce'
  BY <1>12, SentOnceUnmoved DEF MacIdle, Tick
<1>13. ASSUME NEW p \in air, _receive_ack(p) PROVE SentOnce'
  BY <1>13, SentOnceUnmoved DEF _receive_ack
<1>14. ASSUME NEW f \in DOMAIN acking, AckValue(f) PROVE SentOnce'
  BY <1>14, SentOnceAck
<1>15. ASSUME NEW f \in DOMAIN acking, AckValueThrows(f) PROVE SentOnce'
  <2>1. seen'.fired = seen.fired /\ seen'.published = seen.published
    BY <1>0, <1>15 DEF AckValueThrows, SeenType
  <2>2. buffer_' = buffer_ /\ air' = air /\ thread' # "request"  BY <1>15 DEF AckValueThrows
  <2> QED BY <2>1, <2>2, SentOnceUnmoved
<1>16. ASSUME NEW n \in SlotFrames, NEW dest \in SlotDests, _data_request(n, dest) PROVE SentOnce'
  <2>1. UNCHANGED <<buffer_, air, seen>>  BY <1>16 DEF _data_request
  <2>2. \A f \in DOMAIN request'.frames : request'.frames[f] = {}
    <3> DEFINE last == next_frame_ + n - 1
    <3>1. request'.frames = [f \in next_frame_..last |-> {}]  BY <1>16 DEF _data_request
    <3> HIDE DEF last
    <3> QED BY <3>1
  <2> QED BY <2>1, <2>2, SentOnceUnmoved
<1>17. ASSUME NEW d \in Peers, NEW p \in air, receive_message(d, p) PROVE SentOnce'
  <2>1. UNCHANGED <<buffer_, thread, request, seen>>  BY <1>17 DEF receive_message
  <2>2. \A q \in air' : q.type = "DATA" => q \in air  BY <1>17 DEF receive_message
  <2> QED BY <2>1, <2>2, SentOnceUnmoved
<1>18. ASSUME Restart PROVE SentOnce'
  <2>1. /\ seen' = AfterRestart(seen)
        /\ thread' = "idle" /\ air' = air /\ DOMAIN buffer_' = {}
    BY <1>18 DEF Restart, AfterRestart
  <2>2. seen'.fired = {} /\ seen'.published = seen.published  BY <1>0, <2>1, RestartFields
  <2> QED BY <2>1, <2>2 DEF SentOnce, Known, Waiting, Single, InRequest
<1>19. ~ UNCHANGED vars => KindsKept  OBVIOUS
<1> QED
  BY <1>1, <1>2, <1>3, <1>4, <1>5, <1>6, <1>7, <1>8, <1>9, <1>10, <1>11, <1>12, <1>13,
     <1>14, <1>15, <1>16, <1>17, <1>18, <1>19
  DEF Next, Handle, Loop, DataRequest

\* What is sent once, by the invariant.
LEMMA SentOnceSuffices ==
    ASSUME Stocked, Framed, SentOnce
    PROVE  UnackedSentOnce
<1> SUFFICES ASSUME NEW p \in air, NEW q \in air, p.type = "DATA", q.type = "DATA", p # q,
                    NEW m \in Contents(p) \cap Contents(q), p.dest = q.dest,
                    <<_full_id(p.dest), m>> \in seen.fired
             PROVE  FALSE
  BY DEF UnackedSentOnce
<1> DEFINE d == _full_id(p.dest)
<1>1. p.dest \in Int
  <2>1. p \in DataPackets  BY DEF Framed, AckPackets
  <2> QED BY <2>1 DEF DataPackets
<1>2. _id_within_subnet(d) = p.dest  BY <1>1, SubnetIds DEF _id_within_subnet, _full_id
<1> HIDE DEF d
<1>3. <<d, m>> \in seen.fired  BY DEF d
<1>4. Carries(p, d, m) /\ Carries(q, d, m)  BY <1>2 DEF Carries
<1> QED BY <1>3, <1>4 DEF SentOnce, Single

\* As long as no update changes the order or the ack_required of a sub-buffer
\* with data, a value that _data_request() erases when it puts it in a frame is
\* in one packet at most, through any subscriptions, expiries, acks and restarts.
\* (A sub-buffer that is updated to need no ack holds values that were sent, and
\* sends them again; one that is not sorted does not find what it should erase.)
THEOREM UnackedAlwaysSentOnce == Spec /\ [][KindsKept]_vars => []UnackedSentOnce
<1> DEFINE I == Consistent /\ SentOnce
<1>1. Init => I
  BY InitMatched, InitStocked, InitFramed, InitSentOnce DEF Consistent
<1>2. I /\ [Next]_vars /\ [KindsKept]_vars => I'
  BY NextMatched, NextStocked, NextFramed, NextSentOnce DEF Consistent
<1>3. I => UnackedSentOnce  BY SentOnceSuffices DEF Consistent
<1> HIDE DEF I
<1> QED BY <1>1, <1>2, <1>3, PTL DEF Spec

-----------------------------------------------------------------------------
(* Configurations that agree: updates then keep the kind of a sub-buffer.      *)

\* What the configurations of a buffer id say of a field.
KindOf(b, field) ==
    IF b \in BufferIds THEN CHOOSE x \in BOOLEAN : Agreed(b, field, x)
    ELSE MergeConfigs(<<SubscriptionCfg>>)[field]

OfKind(s, b) ==
    /\ s.cfg.ack_required = KindOf(b, "ack_required")
    /\ s.cfg.newest_first = KindOf(b, "newest_first")

\* The configurations noted for a buffer id are those of its messages.
Noted(pubs) ==
    \A b \in BufferIds : \A i \in DOMAIN pubs[b] :
        \E m \in Messages : BufferOf[m] = b /\ pubs[b][i] = PublisherCfg[m]

\* The inductive invariant: all sub-buffers are of the kind of their buffer id.
Uniform == Noted(publisher_buffer_cfg_) /\ \A k \in DOMAIN buffer_ : OfKind(buffer_[k], k[2])

\* Configurations that set a field to nothing but x, one of which says x of it.
LEMMA SettersAgree ==
    ASSUME NEW cfgs, NEW field, NEW x \in BOOLEAN, NEW j \in DOMAIN cfgs,
           \A i \in DOMAIN cfgs : cfgs[i][field] \in {x, Unset},
           Says(cfgs[j], field) = x
    PROVE  /\ Setters(cfgs, field) = {} => DefaultConfig[field] = x
           /\ Setters(cfgs, field) # {} => (\E i \in Setters(cfgs, field) : cfgs[i][field]) = x
<1> DEFINE S == Setters(cfgs, field)
<1>1. \A i \in S : i \in DOMAIN cfgs /\ cfgs[i][field] = x  BY DEF Setters
<1>2. S = {} => DefaultConfig[field] = x  BY DEF Setters, Says
<1> HIDE DEF S
<1>3. CASE x = TRUE
  <2>1. S # {} => \E i \in S : cfgs[i][field]  BY <1>1, <1>3
  <2> QED BY <1>2, <1>3, <2>1 DEF S
<1>4. CASE x = FALSE
  <2>1. ~ \E i \in S : cfgs[i][field]  BY <1>1, <1>4
  <2> QED BY <1>2, <1>4, <2>1 DEF S
<1> QED BY <1>3, <1>4

\* So they merge to x.
LEMMA MergeAgreed ==
    ASSUME NEW cfgs, NEW x \in BOOLEAN, NEW y \in BOOLEAN, NEW j \in DOMAIN cfgs,
           \A i \in DOMAIN cfgs : /\ cfgs[i]["ack_required"] \in {x, Unset}
                                  /\ cfgs[i]["newest_first"] \in {y, Unset},
           Says(cfgs[j], "ack_required") = x, Says(cfgs[j], "newest_first") = y
    PROVE  MergeConfigs(cfgs).ack_required = x /\ MergeConfigs(cfgs).newest_first = y
<1> DEFINE A == Setters(cfgs, "ack_required")
           N == Setters(cfgs, "newest_first")
           a == \E i \in A : cfgs[i].ack_required
           n == \E i \in N : cfgs[i].newest_first
<1>1. MergeConfigs(cfgs).ack_required = IF A = {} THEN DefaultConfig["ack_required"] ELSE a
  BY DEF MergeConfigs, MergeField
<1>2. MergeConfigs(cfgs).newest_first = IF N = {} THEN DefaultConfig["newest_first"] ELSE n
  BY DEF MergeConfigs, MergeField
<1>3. /\ A = {} => DefaultConfig["ack_required"] = x
      /\ A # {} => a = x
  BY SettersAgree
<1>4. /\ N = {} => DefaultConfig["newest_first"] = y
      /\ N # {} => n = y
  BY SettersAgree
<1> HIDE DEF A, N, a, n
<1> QED BY <1>1, <1>2, <1>3, <1>4

\* What the configurations of a buffer id agree on.
LEMMA KindAgreed ==
    ASSUME ConfigsAgree, NEW b \in BufferIds, NEW field \in {"ack_required", "newest_first"}
    PROVE  KindOf(b, field) \in BOOLEAN /\ Agreed(b, field, KindOf(b, field))
<1>1. \E x \in BOOLEAN : Agreed(b, field, x)  BY DEF ConfigsAgree
<1> DEFINE y == CHOOSE x \in BOOLEAN : Agreed(b, field, x)
<1>2. y \in BOOLEAN /\ Agreed(b, field, y)  BY <1>1
<1>3. KindOf(b, field) = y  BY DEF KindOf
<1> HIDE DEF y
<1> QED BY <1>2, <1>3

\* One of those configurations sets the field to that, or not at all.
LEMMA CfgAgreed ==
    ASSUME ConfigsAgree, NEW b \in BufferIds, NEW field \in {"ack_required", "newest_first"}
    PROVE  /\ \A c \in SubscriberCfgs : c[field] \in {KindOf(b, field), Unset}
           /\ \A m \in Messages : BufferOf[m] = b =>
                 /\ PublisherCfg[m][field] \in {KindOf(b, field), Unset}
                 /\ Says(PublisherCfg[m], field) = KindOf(b, field)
<1> DEFINE x == KindOf(b, field)
<1>1. Agreed(b, field, x)  BY KindAgreed
<1> HIDE DEF x
<1>2. \A c \in SubscriberCfgs : c[field] \in {x, Unset}  BY <1>1 DEF Agreed
<1>3. ASSUME NEW m \in Messages, BufferOf[m] = b
      PROVE  PublisherCfg[m][field] \in {x, Unset} /\ Says(PublisherCfg[m], field) = x
  <2>1. Says(PublisherCfg[m], field) = x  BY <1>1, <1>3 DEF Agreed
  <2> QED BY <2>1 DEF Says
<1> QED BY <1>2, <1>3 DEF x

\* The configurations of a pair merge to the kind of its buffer id.
LEMMA CfgsKind ==
    ASSUME ConfigsAgree, NEW subs \in SubsType, NEW pubs \in PubsType, Noted(pubs),
           NEW d \in Dests, NEW b \in BufferIds, IsFiniteSet(subs[d][b]), pubs[b] # <<>>
    PROVE  LET c == MergeConfigs(Cfgs(d, b, subs, pubs))
           IN  /\ c.ack_required = KindOf(b, "ack_required")
               /\ c.newest_first = KindOf(b, "newest_first")
<1> DEFINE S == subs[d][b]
           q == pubs[b]
           n == Cardinality(S)
           l == SetToSeq(S)
           cfgs == Cfgs(d, b, subs, pubs)
           x == KindOf(b, "ack_required")
           y == KindOf(b, "newest_first")
           Fits(c) == c["ack_required"] \in {x, Unset} /\ c["newest_first"] \in {y, Unset}
<1>1. S \subseteq SubscriberCfgs /\ IsFiniteSet(S)  BY DEF SubsType
<1>2. q \in Seq({PublisherCfg[m] : m \in Messages}) /\ q # <<>>  BY DEF PubsType
<1>3. \A i \in DOMAIN q : \E m \in Messages : BufferOf[m] = b /\ q[i] = PublisherCfg[m]
  BY DEF Noted
<1>4. cfgs = l \o q  BY DEF Cfgs
<1>5. x \in BOOLEAN /\ y \in BOOLEAN  BY KindAgreed
<1>6. \A c \in SubscriberCfgs : Fits(c)  BY CfgAgreed
<1>7. \A i \in DOMAIN q : /\ Fits(q[i]) /\ Says(q[i], "ack_required") = x
                          /\ Says(q[i], "newest_first") = y
  <2> SUFFICES ASSUME NEW i \in DOMAIN q
               PROVE  /\ Fits(q[i]) /\ Says(q[i], "ack_required") = x
                      /\ Says(q[i], "newest_first") = y
    OBVIOUS
  <2>1. PICK m \in Messages : BufferOf[m] = b /\ q[i] = PublisherCfg[m]  BY <1>3
  <2>2. /\ PublisherCfg[m]["ack_required"] \in {x, Unset}
        /\ Says(PublisherCfg[m], "ack_required") = x
    BY <2>1, CfgAgreed
  <2>3. /\ PublisherCfg[m]["newest_first"] \in {y, Unset}
        /\ Says(PublisherCfg[m], "newest_first") = y
    BY <2>1, CfgAgreed
  <2> HIDE DEF x, y, q
  <2> QED BY <2>1, <2>2, <2>3
<1> HIDE DEF S, q, n, l, cfgs, x, y, Fits
<1>8. n \in Nat /\ l \in [1..n -> S]  BY <1>1, SetListed DEF n, l
<1>9. l \in Seq(SubscriberCfgs) /\ Len(l) = n /\ DOMAIN l = 1..n
  <2>1. l \in [1..n -> SubscriberCfgs]  BY <1>1, <1>8
  <2>2. l \in Seq(SubscriberCfgs)  BY <1>8, <2>1, SeqDef
  <2> QED BY <1>8, <2>1, <2>2, LenProperties
<1>10. Len(q) \in Nat /\ DOMAIN q = 1..Len(q) /\ 1 \in DOMAIN q
  <2>1. Len(q) \in Nat /\ DOMAIN q = 1..Len(q)  BY <1>2, LenProperties
  <2>2. Len(q) # 0  BY <1>2, EmptySeq
  <2> QED BY <2>1, <2>2
<1>11. /\ DOMAIN cfgs = 1..(n + Len(q))
       /\ \A i \in 1..n : cfgs[i] = l[i]
       /\ \A i \in 1..Len(q) : cfgs[n + i] = q[i]
  <2> DEFINE T == SubscriberCfgs \cup {PublisherCfg[m] : m \in Messages}
  <2>1. l \in Seq(T)
    <3>1. l \in [1..n -> T]  BY <1>1, <1>8
    <3> QED BY <1>8, <3>1, SeqDef
  <2>2. q \in Seq(T)
    <3>1. \A i \in 1..Len(q) : q[i] \in {PublisherCfg[m] : m \in Messages}
      BY <1>2, <1>10, ElementOfSeq
    <3>2. q = [i \in 1..Len(q) |-> q[i]]  BY <1>2, <1>10
    <3>3. q \in [1..Len(q) -> T]  BY <3>1, <3>2
    <3> QED BY <1>10, <3>3, SeqDef
  <2> HIDE DEF T
  <2>3. /\ Len(l \o q) = Len(l) + Len(q) /\ l \o q \in Seq(T)
        /\ \A i \in 1..(Len(l) + Len(q)) : (l \o q)[i] = IF i <= Len(l) THEN l[i] ELSE q[i - Len(l)]
    BY ONLY <2>1, <2>2, ConcatProperties
  <2>4. DOMAIN (l \o q) = 1..Len(l \o q)  BY <2>3, LenProperties
  <2> QED BY <1>4, <1>8, <1>9, <1>10, <2>3, <2>4
<1>12. \A i \in DOMAIN cfgs : Fits(cfgs[i])
  <2> SUFFICES ASSUME NEW i \in 1..(n + Len(q)) PROVE Fits(cfgs[i])
    BY <1>11
  <2>1. CASE i <= n
    <3>1. i \in 1..n  BY <1>8, <2>1
    <3>2. cfgs[i] \in SubscriberCfgs  BY <1>1, <1>8, <1>11, <3>1
    <3> QED BY <1>6, <3>2
  <2>2. CASE i > n
    <3>1. i - n \in 1..Len(q) /\ n + (i - n) = i  BY <1>8, <1>10, <2>2
    <3>2. cfgs[i] = q[i - n]  BY <1>11, <3>1
    <3> QED BY <1>7, <1>10, <3>1, <3>2
  <2> QED BY <1>8, <1>10, <2>1, <2>2
<1>13. n + 1 \in DOMAIN cfgs /\ cfgs[n + 1] = q[1]  BY <1>8, <1>10, <1>11
<1>14. Says(cfgs[n + 1], "ack_required") = x /\ Says(cfgs[n + 1], "newest_first") = y
  BY <1>7, <1>10, <1>13
<1>15. MergeConfigs(cfgs).ack_required = x /\ MergeConfigs(cfgs).newest_first = y
  <2>1. \A i \in DOMAIN cfgs : /\ cfgs[i]["ack_required"] \in {x, Unset}
                               /\ cfgs[i]["newest_first"] \in {y, Unset}
    BY <1>12 DEF Fits
  <2> QED BY ONLY <1>5, <1>13, <1>14, <2>1, MergeAgreed
<1> QED BY <1>15 DEF cfgs, x, y

\* An update, and a creation, make a sub-buffer of its configurations' kind.
LEMMA ReconfiguredKinds ==
    ASSUME Matched, Stocked, Uniform, ConfigsAgree, NEW touched \in SUBSET (Dests \X BufferIds),
           NEW subs \in SubsType, NEW pubs \in PubsType, Noted(pubs),
           \A d \in Dests, b \in BufferIds : IsFiniteSet(subs[d][b])
    PROVE  LET buf == Reconfigured(touched, subs, pubs)
           IN  \A k \in DOMAIN buf : OfKind(buf[k], k[2])
<1> DEFINE ready == Ready(touched, subs, pubs)
           buf == Reconfigured(touched, subs, pubs)
           list(k) == Cfgs(k[1], k[2], subs, pubs)
           fresh == [cfg |-> DefaultConfig, data |-> <<>>, last_access |-> now]
<1>1. ASSUME NEW k \in ready
      PROVE  /\ MergeConfigs(list(k)).ack_required = KindOf(k[2], "ack_required")
             /\ MergeConfigs(list(k)).newest_first = KindOf(k[2], "newest_first")
  <2>1. k[1] \in Dests /\ k[2] \in BufferIds /\ pubs[k[2]] # <<>>  BY DEF Ready
  <2>2. IsFiniteSet(subs[k[1]][k[2]])  BY <2>1
  <2> DEFINE c == MergeConfigs(Cfgs(k[1], k[2], subs, pubs))
  <2>3. c.ack_required = KindOf(k[2], "ack_required") /\ c.newest_first = KindOf(k[2], "newest_first")
    <3>1. subs \in SubsType /\ pubs \in PubsType /\ Noted(pubs) /\ ConfigsAgree  OBVIOUS
    <3> QED BY ONLY <2>1, <2>2, <3>1, CfgsKind
  <2> QED BY <2>3
<1>2. /\ DOMAIN buf = DOMAIN buffer_ \cup ready
      /\ \A k \in DOMAIN buf :
            buf[k] = IF k \notin ready THEN buffer_[k]
                     ELSE IF k \in DOMAIN buffer_ THEN UpdateSub(buffer_[k], list(k))
                          ELSE UpdateSub(fresh, list(k))
  BY DEF Reconfigured, NewSub
<1> HIDE DEF ready, buf, list
<1>3. ASSUME NEW s, NEW cfgs, "cfg" \in DOMAIN s
      PROVE  UpdateSub(s, cfgs).cfg = MergeConfigs(cfgs)
  BY <1>3 DEF UpdateSub
<1>4. "cfg" \in DOMAIN fresh  OBVIOUS
<1>5. \A k \in DOMAIN buffer_ : "cfg" \in DOMAIN buffer_[k]
  BY DEF Stocked, Queue, Subs
<1> HIDE DEF fresh
<1>6. ASSUME NEW k \in DOMAIN buf PROVE OfKind(buf[k], k[2])
  <2>1. CASE k \notin ready
    <3>1. k \in DOMAIN buffer_ /\ buf[k] = buffer_[k]  BY <1>2, <2>1
    <3> QED BY <3>1 DEF Uniform
  <2>2. CASE k \in ready
    <3>1. buf[k].cfg = MergeConfigs(list(k))  BY <1>2, <1>3, <1>4, <1>5, <2>2
    <3> QED BY <1>1, <2>2, <3>1 DEF OfKind
  <2> QED BY <2>1, <2>2
<1> QED BY <1>6 DEF buf

\* The other calls leave the configuration of a sub-buffer alone.
LEMMA CfgKept ==
    ASSUME NEW s, NEW n, NEW P, Queue(s, n, P), NEW value, NEW wait
    PROVE  /\ ExpireSub(s, n).cfg = s.cfg
           /\ TopSub(s, n, wait).cfg = s.cfg
           /\ EraseSub(s, value).cfg = s.cfg
           /\ EraseSub(TopSub(s, n, wait), value).cfg = s.cfg
<1>1. s \in Subs(Merged)  BY DEF Queue
<1>2. ExpireSub(s, n).cfg = s.cfg  BY <1>1 DEF ExpireSub, Subs
<1>3. TopSub(s, n, wait).cfg = s.cfg /\ "cfg" \in DOMAIN TopSub(s, n, wait)
  BY <1>1 DEF TopSub, Subs
<1>4. \A t : "cfg" \in DOMAIN t => EraseSub(t, value).cfg = t.cfg
  BY DEF EraseSub
<1>5. "cfg" \in DOMAIN s  BY <1>1 DEF Subs
<1> QED BY <1>2, <1>3, <1>4, <1>5

\* A step that leaves the configurations of the sub-buffers that stay alone.
LEMMA UniformKept ==
    ASSUME Uniform, publisher_buffer_cfg_' = publisher_buffer_cfg_,
           \A k \in DOMAIN buffer_' : k \in DOMAIN buffer_ /\ buffer_'[k].cfg = buffer_[k].cfg
    PROVE  Uniform'
BY DEF Uniform, OfKind

\* A subscription of this vehicle.
LEMMA UniformForward ==
    ASSUME Matched, Stocked, Uniform, NEW m \in Forwards, NEW dests \in SUBSET Dests,
           _forward_subscription(m, dests)
    PROVE  Uniform'
<1> DEFINE to == {<<d, SubscriptionKey>> : d \in {x \in dests : _dest_is_in_subnet(x)}}
           Sub(k) == IF k[1] \in subscription_subbuffers_ THEN buffer_[k]
                     ELSE NewSub(<<SubscriptionCfg>>, now)
<1>1. /\ buffer_' = [k \in DOMAIN buffer_ \cup to |->
                       IF k \in to THEN PushSub(Sub(k), m, now) ELSE buffer_[k]]
      /\ publisher_buffer_cfg_' = publisher_buffer_cfg_
  BY DEF _forward_subscription
<1>2. \A k \in to : k[1] \in Dests /\ k = <<k[1], SubscriptionKey>> /\ k[2] = SubscriptionKey
  OBVIOUS
<1>3. \A k \in to : k[1] \in subscription_subbuffers_ <=> k \in DOMAIN buffer_
  <2>1. DOMAIN buffer_ = {k \in Dests \X BufferIds : k[1] \in subbuffers_created_[k[2]]}
                         \cup (subscription_subbuffers_ \X {SubscriptionKey})
    BY DEF Matched, BuffersMatchSubscriptions
  <2> QED BY <1>2, <2>1
<1>4. now \in Nat  BY DEF Stocked
<1>5. ASSUME NEW k \in to PROVE Queue(Sub(k), now, seen.published) /\ OfKind(Sub(k), k[2])
  <2>1. CASE k \in DOMAIN buffer_
    <3>1. Sub(k) = buffer_[k]  BY <1>3, <2>1
    <3> QED BY <2>1, <3>1 DEF Stocked, Uniform
  <2>2. CASE k \notin DOMAIN buffer_
    <3> DEFINE new == NewSub(<<SubscriptionCfg>>, now)
    <3>1. Sub(k) = new  BY <1>3, <2>2
    <3>2. SubscriptionCfg \in AllCfgs  BY DEF AllCfgs
    <3>3. <<SubscriptionCfg>> \in Seq(AllCfgs)  BY <3>2
    <3>4. Queue(new, now, seen.published)  BY ONLY <1>4, <3>3, QueueNew
    <3>5. new.cfg = MergeConfigs(<<SubscriptionCfg>>)  BY DEF NewSub, UpdateSub
    <3> HIDE DEF new
    <3>6. OfKind(new, SubscriptionKey)  BY <3>5 DEF OfKind, KindOf
    <3> HIDE DEF Sub
    <3> QED BY <1>2, <3>1, <3>4, <3>6
  <2> QED BY <2>1, <2>2
<1> HIDE DEF to, Sub
<1>6. ASSUME NEW k \in DOMAIN buffer_' PROVE OfKind(buffer_'[k], k[2])
  <2>1. CASE k \in to
    <3>1. buffer_'[k] = PushSub(Sub(k), m, now)  BY <1>1, <2>1
    <3>2. PushSub(Sub(k), m, now).cfg = Sub(k).cfg  BY <1>5, <2>1, PushCfg
    <3> QED BY <1>5, <2>1, <3>1, <3>2 DEF OfKind
  <2>2. CASE k \notin to
    <3>1. k \in DOMAIN buffer_ /\ buffer_'[k] = buffer_[k]  BY <1>1, <2>2
    <3> QED BY <3>1 DEF Uniform
  <2> QED BY <2>1, <2>2
<1> QED BY <1>1, <1>6 DEF Uniform

\* A publication.
LEMMA UniformBuffer ==
    ASSUME Matched, Stocked, Uniform, ConfigsAgree, NEW m \in Messages, NEW has_metadata,
           _buffer_message(m, has_metadata)
    PROVE  Uniform'
<1> DEFINE b == BufferOf[m]
           new == IsNewCfg(b, PublisherCfg[m])
           pubs == IF new THEN [publisher_buffer_cfg_ EXCEPT ![b] = Append(@, PublisherCfg[m])]
                   ELSE publisher_buffer_cfg_
           touched == IF new THEN Dests \X {b} ELSE {}
           subs == subscriber_buffer_cfg_
           buf == Reconfigured(touched, subs, pubs)
           created == NowCreated(touched, subs, pubs)
           to == {<<d, b>> : d \in {x \in created[b] : _dest_is_in_subnet(x)}}
<1>1. /\ publisher_buffer_cfg_' = pubs /\ subscriber_buffer_cfg_' = subs
      /\ buffer_' = [k \in DOMAIN buf |->
                       IF k \in to THEN PushSub(buf[k], m, now) ELSE buf[k]]
  BY DEF _buffer_message
<1>2. Matched'  BY BufferMessageStep
<1>3. b \in BufferIds /\ touched \in SUBSET (Dests \X BufferIds)  OBVIOUS
<1>4. subs \in SubsType /\ pubs \in PubsType  BY <1>1, <1>2 DEF Matched, Configured
<1>5. \A d \in Dests, c \in BufferIds : IsFiniteSet(subs[d][c])  BY DEF Stocked
<1>6. Noted(pubs)
  <2> SUFFICES ASSUME NEW c \in BufferIds, NEW i \in DOMAIN pubs[c]
               PROVE  \E t \in Messages : BufferOf[t] = c /\ pubs[c][i] = PublisherCfg[t]
    BY DEF Noted
  <2> DEFINE q == publisher_buffer_cfg_[c]
  <2>1. q \in Seq({PublisherCfg[t] : t \in Messages})  BY DEF Matched, Configured, PubsType
  <2>2. \A j \in DOMAIN q : \E t \in Messages : BufferOf[t] = c /\ q[j] = PublisherCfg[t]
    BY DEF Uniform, Noted
  <2>3. CASE pubs[c] = q  BY <2>2, <2>3
  <2>4. CASE c = b /\ pubs[c] = Append(q, PublisherCfg[m])
    <3> HIDE DEF q, pubs
    <3>1. /\ DOMAIN pubs[c] = 1..(Len(q) + 1) /\ DOMAIN q = 1..Len(q) /\ Len(q) \in Nat
          /\ \A j \in 1..Len(q) : pubs[c][j] = q[j]
          /\ pubs[c][Len(q) + 1] = PublisherCfg[m]
      BY <2>1, <2>4
    <3>2. CASE i = Len(q) + 1  BY <2>4, <3>1, <3>2
    <3>3. CASE i # Len(q) + 1
      <4>1. i \in 1..Len(q)  BY <3>1, <3>3
      <4> QED BY <2>2, <3>1, <4>1
    <3> QED BY <3>2, <3>3
  <2>5. pubs[c] = q \/ (c = b /\ pubs[c] = Append(q, PublisherCfg[m]))
    BY DEF Matched, Configured, PubsType
  <2> QED BY <2>3, <2>4, <2>5
<1> HIDE DEF b, new, pubs, touched, subs
<1>7. \A k \in DOMAIN buf : Queue(buf[k], now, seen.published)
  BY <1>3, <1>4, <1>5, ReconfiguredQueues
<1>8. \A k \in DOMAIN buf : OfKind(buf[k], k[2])
  BY <1>3, <1>4, <1>5, <1>6, ReconfiguredKinds
<1> HIDE DEF buf, created, to
<1>9. DOMAIN buffer_' = DOMAIN buf /\ \A k \in DOMAIN buf : buffer_'[k].cfg = buf[k].cfg
  BY <1>1, <1>7, PushCfg
<1>10. \A k \in DOMAIN buffer_' : OfKind(buffer_'[k], k[2])  BY <1>8, <1>9 DEF OfKind
<1> QED BY <1>1, <1>6, <1>10 DEF Uniform

\* SUBSCRIBE, and UNSUBSCRIBE while another subscriber remains.
LEMMA UniformSubscribers ==
    ASSUME Matched, Stocked, Uniform, ConfigsAgree, NEW d \in Dests, NEW b \in BufferIds,
           NEW S \in SUBSET SubscriberCfgs, IsFiniteSet(S),
           SubscribersBecome(d, b, [subscriber_buffer_cfg_ EXCEPT ![d][b] = S])
    PROVE  Uniform'
<1> DEFINE subs == [subscriber_buffer_cfg_ EXCEPT ![d][b] = S]
           touched == {<<d, b>>}
           buf == Reconfigured(touched, subs, publisher_buffer_cfg_)
<1>1. subs \in SubsType /\ publisher_buffer_cfg_ \in PubsType
      /\ touched \in SUBSET (Dests \X BufferIds)
  BY DEF Matched, Configured, SubsType
<1>2. \A e \in Dests, c \in BufferIds :
         subs[e][c] = IF e = d /\ c = b THEN S ELSE subscriber_buffer_cfg_[e][c]
  BY DEF Matched, Configured, SubsType
<1>3. buffer_' = buf /\ publisher_buffer_cfg_' = publisher_buffer_cfg_
  BY DEF SubscribersBecome
<1> HIDE DEF subs
<1>4. \A e \in Dests, c \in BufferIds : IsFiniteSet(subs[e][c])  BY <1>2 DEF Stocked
<1> HIDE DEF touched
<1>5. Noted(publisher_buffer_cfg_)  BY DEF Uniform
<1>6. \A k \in DOMAIN buf : OfKind(buf[k], k[2])  BY <1>1, <1>4, <1>5, ReconfiguredKinds
<1> HIDE DEF buf
<1> QED BY <1>3, <1>5, <1>6 DEF Uniform

\* At first there is no sub-buffer.
LEMMA InitUniform == Init => Uniform
BY DEF Init, Uniform, Noted

\* Every step keeps the kinds of the sub-buffers.
LEMMA NextUniform ==
    ASSUME Matched, Stocked, Framed, Uniform, ConfigsAgree, [Next]_vars
    PROVE  Uniform'
<1>0. \A k \in DOMAIN buffer_ : Queue(buffer_[k], now, seen.published)  BY DEF Stocked
<1>1. CASE UNCHANGED vars
  BY <1>1, UniformKept DEF vars, config
<1>2. ASSUME NEW d \in Dests, NEW b \in BufferIds, NEW cfg \in SubscriberCfgs,
             _accept_subscribe(d, b, cfg)
      PROVE  Uniform'
  <2> DEFINE S == subscriber_buffer_cfg_[d][b] \cup {cfg}
  <2>1. S \in SUBSET SubscriberCfgs  BY DEF Matched, Configured, SubsType
  <2>2. SubscribersBecome(d, b, [subscriber_buffer_cfg_ EXCEPT ![d][b] = S])
    BY <1>2 DEF _accept_subscribe
  <2>3. IsFiniteSet(S)
    <3>1. IsFiniteSet(subscriber_buffer_cfg_[d][b])  BY DEF Stocked
    <3> QED BY <3>1, FS_AddElement
  <2> HIDE DEF S
  <2> QED BY <2>1, <2>2, <2>3, UniformSubscribers
<1>3. ASSUME NEW d \in Dests, NEW b \in BufferIds, NEW cfg \in SubscriberCfgs,
             _accept_unsubscribe(d, b, cfg)
      PROVE  Uniform'
  <2> DEFINE S == subscriber_buffer_cfg_[d][b] \ {cfg}
  <2>1. S \in SUBSET SubscriberCfgs  BY DEF Matched, Configured, SubsType
  <2>2. SubscribersBecome(d, b, [subscriber_buffer_cfg_ EXCEPT ![d][b] = S])
    BY <1>3 DEF _accept_unsubscribe
  <2>3. IsFiniteSet(S)
    <3>1. IsFiniteSet(subscriber_buffer_cfg_[d][b])  BY DEF Stocked
    <3> QED BY <3>1, FS_RemoveElement
  <2> HIDE DEF S
  <2> QED BY <2>1, <2>2, <2>3, UniformSubscribers
<1>4. ASSUME NEW d \in Dests, NEW b \in BufferIds, NEW cfg \in SubscriberCfgs,
             _accept_last_unsubscribe(d, b, cfg)
      PROVE  Uniform'
  <2>1. buffer_' = Without(buffer_, {<<d, b>>}) /\ publisher_buffer_cfg_' = publisher_buffer_cfg_
    BY <1>4 DEF _accept_last_unsubscribe
  <2>2. \A k \in DOMAIN buffer_' : k \in DOMAIN buffer_ /\ buffer_'[k] = buffer_[k]
    BY <2>1 DEF Without
  <2> QED BY <2>1, <2>2, UniformKept
<1>5. ASSUME NEW m \in Messages, _buffer_message_omit(m) PROVE Uniform'
  BY <1>5, UniformKept DEF _buffer_message_omit, config
<1>6. ASSUME NEW m \in Messages, NEW has_metadata \in BOOLEAN, _buffer_message(m, has_metadata)
      PROVE  Uniform'
  BY <1>6, UniformBuffer
<1>7. ASSUME NEW m \in Forwards, NEW dests \in SUBSET Dests, _forward_subscription(m, dests)
      PROVE  Uniform'
  BY <1>7, UniformForward
<1>8. ASSUME NEW key \in DOMAIN buffer_, RequestTop(key) PROVE Uniform'
  <2> DEFINE sub == TopSub(buffer_[key], now, AckTimeout)
             value == Value(key, buffer_[key].data[TopIndex(buffer_[key], now, AckTimeout)])
             left == IF sub.cfg.ack_required THEN sub ELSE EraseSub(sub, value)
  <2>1. buffer_' = [buffer_ EXCEPT ![key] = left] /\ publisher_buffer_cfg_' = publisher_buffer_cfg_
    BY <1>8 DEF RequestTop, config
  <2>2. sub.cfg = buffer_[key].cfg /\ EraseSub(sub, value).cfg = buffer_[key].cfg
    <3> HIDE DEF value
    <3> QED BY <1>0, CfgKept
  <2> HIDE DEF sub, value
  <2>3. left.cfg = buffer_[key].cfg  BY <2>2
  <2> HIDE DEF left
  <2>4. \A k \in DOMAIN buffer_' : k \in DOMAIN buffer_ /\ buffer_'[k].cfg = buffer_[k].cfg
    BY <2>1, <2>3
  <2> QED BY <2>1, <2>4, UniformKept
<1>9. ASSUME LoopExpire PROVE Uniform'
  <2>1. /\ buffer_' = [k \in DOMAIN buffer_ |-> ExpireSub(buffer_[k], now)]
        /\ publisher_buffer_cfg_' = publisher_buffer_cfg_
    BY <1>9 DEF LoopExpire, config
  <2>2. \A k \in DOMAIN buffer_ : ExpireSub(buffer_[k], now).cfg = buffer_[k].cfg
    BY <1>0, CfgKept
  <2> QED BY <2>1, <2>2, UniformKept
<1>10. ASSUME NEW f \in DOMAIN acking, AckValue(f) PROVE Uniform'
  <2> DEFINE value == Head(pending_ack_[f])
             key == value.key
             left == EraseSub(buffer_[key], value)
  <2>1. /\ key \in DOMAIN buffer_ /\ buffer_' = [buffer_ EXCEPT ![key] = left]
        /\ publisher_buffer_cfg_' = publisher_buffer_cfg_
    BY <1>10 DEF AckValue, config
  <2> HIDE DEF value, key
  <2>2. left.cfg = buffer_[key].cfg  BY <1>0, <2>1, CfgKept
  <2> HIDE DEF left
  <2>3. \A k \in DOMAIN buffer_' : k \in DOMAIN buffer_ /\ buffer_'[k].cfg = buffer_[k].cfg
    BY <2>1, <2>2
  <2> QED BY <2>1, <2>3, UniformKept
<1>11. ASSUME NEW f \in DOMAIN acking, AckValueThrows(f) PROVE Uniform'
  BY <1>11, UniformKept DEF AckValueThrows, config
<1>12. ASSUME RequestNextFrame \/ RequestDone \/ MacIdle \/ Tick PROVE Uniform'
  <2>1. UNCHANGED <<buffer_, publisher_buffer_cfg_>>
    BY <1>12 DEF RequestNextFrame, RequestDone, MacIdle, Tick, config
  <2> QED BY <2>1, UniformKept
<1>13. ASSUME NEW p \in air, _receive_ack(p) PROVE Uniform'
  BY <1>13, UniformKept DEF _receive_ack, config
<1>14. ASSUME NEW n \in SlotFrames, NEW dest \in SlotDests, _data_request(n, dest) PROVE Uniform'
  <2>1. UNCHANGED <<buffer_, publisher_buffer_cfg_>>  BY <1>14 DEF _data_request, config
  <2> QED BY <2>1, UniformKept
<1>15. ASSUME NEW d \in Peers, NEW p \in air, receive_message(d, p) PROVE Uniform'
  BY <1>15, UniformKept DEF receive_message, config
<1>16. ASSUME Restart PROVE Uniform'
  BY <1>16 DEF Restart, Uniform, Noted
<1> QED
  BY <1>1, <1>2, <1>3, <1>4, <1>5, <1>6, <1>7, <1>8, <1>9, <1>10, <1>11, <1>12, <1>13,
     <1>14, <1>15, <1>16
  DEF Next, Handle, Loop, DataRequest

\* When the publishers of a buffer id say the same of ack_required and of
\* newest_first and no subscriber contradicts them, no update that a subscription,
\* an unsubscription or a publisher brings about changes either, so that a value
\* sent without an ack is in one packet at most.
THEOREM UnackedSentOnceWhenConfigsAgree == ConfigsAgree => (Spec => []UnackedSentOnce)
<1> SUFFICES ASSUME ConfigsAgree PROVE Spec => []UnackedSentOnce
  OBVIOUS
<1> DEFINE I == Consistent /\ Uniform
<1>1. Init => I
  BY InitMatched, InitStocked, InitFramed, InitUniform DEF Consistent
<1>2. I /\ [Next]_vars => I'
  BY NextMatched, NextStocked, NextFramed, NextUniform DEF Consistent
<1>3. I /\ I' => KindsKept
  BY DEF Uniform, OfKind, KindsKept
<1>4. I /\ [Next]_vars => [KindsKept]_vars  BY <1>2, <1>3
<1> HIDE DEF I
<1>5. Spec => []I  BY <1>1, <1>2, PTL DEF Spec
<1>6. Spec => [][KindsKept]_vars  BY <1>4, <1>5, PTL DEF Spec
<1> QED BY <1>6, UnackedAlwaysSentOnce, PTL
=============================================================================

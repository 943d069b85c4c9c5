--------------------------- MODULE DynamicBuffer ----------------------------
(***************************************************************************)
(* goby::acomms::DynamicBuffer (src/src/acomms/buffer/dynamic_buffer.h): a *)
(* priority queue over the sub-buffers of several destinations, driven by  *)
(* any sequence of calls that its single owner may make while its clock    *)
(* advances.  Calls that throw leave the buffer alone and are stuttering   *)
(* steps: create() of a sub-buffer that exists, push() and erase() of one  *)
(* that does not, top() when no sub-buffer has a value to offer; so are    *)
(* the calls that find nothing to do (erase(), remove(), expire()).        *)
(***************************************************************************)
EXTENDS DynamicSubBuffer, FiniteSets

CONSTANTS
    Dests,        \* modem_id_type: the destination modem ids (integers)
    SubIds,       \* subbuffer_id_type
    ConfigLists,  \* the vectors of configurations a caller may pass
    ByteLimits,   \* the values of top()'s max_bytes
    AckTimeout,   \* the ack_timeout of every top() call
    KeepOrder,    \* whether the owner's updates leave newest_first as it was
    MaxTime,      \* bound: the clock stops here
    MaxDrift      \* bound: how far below the zero point update() may move
                  \* last_access_ (each call moves it, without limit in the code)

ASSUME DynamicBufferAssumption ==
    /\ Dests \subseteq Int
    /\ DataSize \in [Data -> Nat]
    /\ ByteLimits \subseteq Nat
    /\ AckTimeout \in Nat
    /\ KeepOrder \in BOOLEAN
    /\ MaxTime \in Nat \ {0}
    /\ MaxDrift \in Nat

\* A merged configuration: every field has a value of its type.
Configs ==
    [ack_required : BOOLEAN, blackout_time : Nat, max_queue : Nat, newest_first : BOOLEAN,
     ttl : [num : Int, den : Nat], value_base : [num : Int, den : Nat]]

ASSUME ConfigAssumption == \A cfgs \in ConfigLists : MergeConfigs(cfgs) \in Configs

VARIABLES
    sub_,    \* (destination, sub-buffer id) -> sub-buffer
    now,     \* Clock::now()
    call,    \* history: the last call and the sub-buffer it was about
    served,  \* history: sub-buffer -> time of the last top() since the last
             \* create(), replace() or update()
    sent,    \* history: (sub-buffer, datum) -> time top() last returned it
    fate,    \* history: (sub-buffer, datum) pushed -> what became of it
    skipped  \* history: sub-buffer -> contests lost since it was last served

vars == <<sub_, now, call, served, sent, fate, skipped>>
history == <<served, sent, fate, skipped>>

Keys == Dests \X SubIds
Fates == {"queued", "erased", "exceeded", "expired", "removed"}

Call(op, key) == [op |-> op, key |-> key]

\* Every (sub-buffer, datum) of S has the given fate from now on.
Decide(S, outcome) ==
    [v \in DOMAIN fate |-> IF v \in S THEN outcome ELSE fate[v]]
DataOf(key) == {<<key, d.data>> : d \in Range(sub_[key].data)}

Init ==
    /\ sub_ = <<>>
    /\ now = ZeroPoint + 1
    /\ call = Call("none", <<>>)
    /\ served = <<>>
    /\ sent = <<>>
    /\ fate = <<>>
    /\ skipped = <<>>

-----------------------------------------------------------------------------
(***************************************************************************)
(* The calls.                                                              *)
(***************************************************************************)
Forget(key) == served' = Without(served, {key})

create(key, cfgs) ==
    /\ key \notin DOMAIN sub_
    /\ sub_' = Put(sub_, key, NewSub(cfgs, now))
    /\ call' = Call("create", key)
    /\ skipped' = Put(skipped, key, 0)
    /\ Forget(key)
    /\ UNCHANGED <<now, sent, fate>>

\* replace() is remove() followed by create().
replace(key, cfgs) ==
    /\ sub_' = Put(sub_, key, NewSub(cfgs, now))
    /\ call' = Call("replace", key)
    /\ fate' = IF key \in DOMAIN sub_ THEN Decide(DataOf(key), "removed") ELSE fate
    /\ skipped' = Put(skipped, key, 0)
    /\ Forget(key)
    /\ UNCHANGED <<now, sent>>

\* update() of a sub-buffer that exists (of any other it is create()).
update(key, cfgs) ==
    /\ key \in DOMAIN sub_
    /\ sub_[key].last_access > ZeroPoint - MaxDrift
    /\ KeepOrder => MergeConfigs(cfgs).newest_first = sub_[key].cfg.newest_first
    /\ sub_' = [sub_ EXCEPT ![key] = UpdateSub(@, cfgs)]
    /\ call' = Call("update", key)
    /\ Forget(key)
    /\ UNCHANGED <<now, sent, fate, skipped>>

remove(key) ==
    /\ key \in DOMAIN sub_
    /\ sub_' = Without(sub_, {key})
    /\ call' = Call("remove", key)
    /\ fate' = Decide(DataOf(key), "removed")
    /\ skipped' = Without(skipped, {key})
    /\ Forget(key)
    /\ UNCHANGED <<now, sent>>

\* A datum is pushed to a sub-buffer once: publications are distinct.
push(key, t) ==
    /\ key \in DOMAIN sub_
    /\ <<key, t>> \notin DOMAIN fate
    /\ sub_' = [sub_ EXCEPT ![key] = PushSub(@, t, now)]
    /\ call' = Call("push", key)
    /\ fate' = LET over == {<<key, d.data>> : d \in Range(Exceeded(sub_[key], t, now))}
               IN  [v \in DOMAIN fate \cup {<<key, t>>} |->
                       IF v \in over THEN "exceeded"
                       ELSE IF v = <<key, t>> THEN "queued" ELSE fate[v]]
    /\ UNCHANGED <<now, served, sent, skipped>>

\* top() for one destination, or for all of them (QUERY_DESTINATION_ID).
top(scope, max_bytes) ==
    \E key \in Winners(sub_, scope, now, max_bytes, AckTimeout) :
        LET datum == sub_[key].data[TopIndex(sub_[key], now, AckTimeout)]
        IN  /\ sub_' = [sub_ EXCEPT ![key] = TopSub(@, now, AckTimeout)]
            /\ call' = Call("top", key)
            /\ served' = Put(served, key, now)
            /\ sent' = Put(sent, <<key, datum.data>>, now)
            /\ skipped' = [k \in DOMAIN skipped |->
                              IF k = key THEN 0
                              ELSE IF k \in Contestants(sub_, scope, now, max_bytes,
                                                        AckTimeout)
                                   THEN skipped[k] + 1 ELSE skipped[k]]
            /\ UNCHANGED <<now, fate>>

\* erase() of a value some earlier top() returned; TRUE iff it was found.
erase(key, value) ==
    /\ key \in DOMAIN sub_
    /\ EraseHits(sub_[key], value) # {}
    /\ sub_' = [sub_ EXCEPT ![key] = EraseSub(@, value)]
    /\ call' = Call("erase", key)
    /\ fate' = Decide({<<key, value.data>>}, "erased")
    /\ UNCHANGED <<now, served, sent, skipped>>

expire ==
    /\ \E key \in DOMAIN sub_ : Expired(sub_[key], now) # {}
    /\ sub_' = [key \in DOMAIN sub_ |-> ExpireSub(sub_[key], now)]
    /\ call' = Call("expire", <<>>)
    /\ fate' = Decide(UNION {{<<key, d.data>> : d \in Expired(sub_[key], now)} :
                                 key \in DOMAIN sub_}, "expired")
    /\ UNCHANGED <<now, served, sent, skipped>>

Tick ==
    /\ now < MaxTime
    /\ now' = now + 1
    /\ call' = Call("tick", <<>>)
    /\ UNCHANGED <<sub_, served, sent, fate, skipped>>

Scopes == {Keys} \cup {{d} \X SubIds : d \in Dests}

Next ==
    \/ \E key \in Keys, cfgs \in ConfigLists :
          create(key, cfgs) \/ replace(key, cfgs) \/ update(key, cfgs)
    \/ \E key \in Keys : remove(key)
    \/ \E key \in Keys, t \in Data : push(key, t)
    \/ \E scope \in Scopes, max_bytes \in ByteLimits : top(scope, max_bytes)
    \/ \E key \in DOMAIN sub_ :
          \E i \in DOMAIN sub_[key].data : erase(key, sub_[key].data[i])
    \/ expire
    \/ Tick

Spec == Init /\ [][Next]_vars

-----------------------------------------------------------------------------
(***************************************************************************)
(* Properties.                                                             *)
(***************************************************************************)
SubBuffer(s) ==
    /\ DOMAIN s.cfg = ConfigFields
    /\ s.last_access \in Int
    /\ \A i \in DOMAIN s.data :
          /\ s.data[i].data \in Data
          /\ s.data[i].push_time \in 1..now
          /\ s.data[i].last_send \in 0..now

\* The type of the buffer and of the history.
TypeOK ==
    /\ now \in 1..MaxTime
    /\ DOMAIN sub_ \subseteq Keys
    /\ \A key \in DOMAIN sub_ : SubBuffer(sub_[key])
    /\ DOMAIN fate \subseteq Keys \X Data
    /\ \A v \in DOMAIN fate : fate[v] \in Fates
    /\ DOMAIN skipped = DOMAIN sub_

\* erase() "returns true if the value was found": for every value still in a
\* sub-buffer the scan must not take its early exit, "we're not going to find
\* it so stop looking", before it meets the value.
EraseFindsQueued ==
    \A key \in DOMAIN sub_ : \A i \in DOMAIN sub_[key].data :
        EraseHits(sub_[key], sub_[key].data[i]) # {}

\* expire() stops at the first live datum from one end; no datum past its
\* time-to-live may hide behind it.
ExpireTakesAllPastTtl ==
    \A key \in DOMAIN sub_ : \A i \in DOMAIN sub_[key].data :
        PastTtl(sub_[key], sub_[key].data[i], now)
            => sub_[key].data[i] \in Expired(sub_[key], now)

\* Nothing pushed disappears silently: a datum is in its sub-buffer until
\* erase() finds it, push() returns it as exceeded, expire() returns it as
\* expired, or its sub-buffer is removed; after that it is not in it.
Accounted ==
    \A v \in DOMAIN fate :
        fate[v] = "queued"
            <=> v[1] \in DOMAIN sub_ /\ v \in DataOf(v[1])

\* top() does not return the same value twice within ack_timeout.
NoResendWithinAckTimeout ==
    [][\A v \in DOMAIN sent :
          v \in DOMAIN sent' /\ sent'[v] # sent[v]
              => sent'[v] > sent[v] + AckTimeout]_vars

\* Two messages from one sub-buffer are more than blackout_time apart, as
\* long as its configuration is not updated in between.
BlackoutUnlessUpdated ==
    [][call'.op = "top" /\ call'.key \in DOMAIN served
          => now > served[call'.key] + sub_[call'.key].cfg.blackout_time]_vars

\* All sub-buffers have the same configuration, with a value that grows in time.
EqualConfigs ==
    \E c \in Configs :
        /\ \A cfgs \in ConfigLists : MergeConfigs(cfgs) = c
        /\ c.value_base.num > 0 /\ c.value_base.den > 0 /\ c.ttl.num > 0 /\ c.ttl.den > 0

\* An update that leaves the last access as it is.
UpdateInPlace ==
    call'.op = "update" => sub_'[call'.key].last_access = sub_[call'.key].last_access

\* Priority grows with the time since the last access, so among sub-buffers
\* of equal configuration none that could send loses more contests in a row
\* than there are others.
BoundedOvertaking ==
    \A key \in DOMAIN sub_ : skipped[key] < Cardinality(Keys)
=============================================================================

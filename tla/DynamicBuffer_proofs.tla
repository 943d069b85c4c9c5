------------------------ MODULE DynamicBuffer_proofs ------------------------
(***************************************************************************)
(* For any destinations, data, configurations, limits and any sequence of  *)
(* calls: nothing pushed to a DynamicBuffer disappears silently, top()     *)
(* respects ack_timeout and blackout_time, and, as long as the updates do  *)
(* not turn the order of a queue around, the early exits of erase() and    *)
(* expire() miss nothing.  Among sub-buffers of equal configuration none   *)
(* is overtaken more often than there are others.                          *)
(***************************************************************************)
EXTENDS DynamicBuffer, DynamicSubBuffer_proofs, FiniteSetTheorems

-----------------------------------------------------------------------------
(* The inductive invariant. *)

Typed ==
    /\ now \in 1..MaxTime
    /\ DOMAIN sub_ \subseteq Keys
    /\ \A key \in DOMAIN sub_ : sub_[key] \in Subs(Configs)
    /\ DOMAIN fate \subseteq Keys \X Data
    /\ \A v \in DOMAIN fate : fate[v] \in Fates
    /\ DOMAIN skipped = DOMAIN sub_

Clean == \A key \in DOMAIN sub_ : Timely(sub_[key].data, now) /\ Once(sub_[key].data)

\* What is in a sub-buffer is recorded as queued, and the other way around.
Recorded ==
    /\ \A key \in DOMAIN sub_ : \A t \in Payloads(sub_[key].data) :
          <<key, t>> \in DOMAIN fate /\ fate[<<key, t>>] = "queued"
    /\ \A key \in Keys, t \in Data :
          <<key, t>> \in DOMAIN fate /\ fate[<<key, t>>] = "queued"
             => key \in DOMAIN sub_ /\ t \in Payloads(sub_[key].data)

\* A datum in the buffer remembers when top() last returned it.
Remembered ==
    /\ DOMAIN sent \subseteq DOMAIN fate
    /\ \A key \in DOMAIN sub_ : \A i \in DOMAIN sub_[key].data :
          LET d == sub_[key].data[i]
          IN  <<key, d.data>> \in DOMAIN sent
                 => d.last_send = sent[<<key, d.data>>] /\ d.last_send # ZeroPoint

\* A sub-buffer remembers when it was last served.
Accessed ==
    /\ DOMAIN served \subseteq DOMAIN sub_
    /\ \A key \in DOMAIN served : served[key] = sub_[key].last_access

InOrder ==
    KeepOrder => \A key \in DOMAIN sub_ : Sorted(sub_[key].data, sub_[key].cfg.newest_first)

Kept == Typed /\ Clean /\ Recorded /\ Remembered /\ Accessed /\ InOrder

-----------------------------------------------------------------------------
\* The fields of a merged configuration have their types.
LEMMA ConfigTypes ==
    ASSUME NEW c \in Configs
    PROVE  /\ c.newest_first \in BOOLEAN /\ c.max_queue \in Nat /\ c.blackout_time \in Nat
           /\ c.ttl.num \in Int /\ c.ttl.den \in Nat /\ DOMAIN c = ConfigFields
<1>1. c.newest_first \in BOOLEAN /\ c.max_queue \in Nat /\ c.blackout_time \in Nat
  BY DEF Configs
<1>2. c.ttl \in [num : Int, den : Nat]  BY DEF Configs
<1>3. DOMAIN c = ConfigFields  BY DEF Configs, ConfigFields
<1> QED BY <1>1, <1>2, <1>3

-----------------------------------------------------------------------------
(* The calls preserve the invariant. *)

\* The fate of a datum is that it is in its sub-buffer.
Queued(f, key, t) == <<key, t>> \in DOMAIN f /\ f[<<key, t>>] = "queued"

\* The history calls a datum queued exactly when its sub-buffer holds it.
LEMMA RecordedAs ==
    ASSUME Typed, Recorded, NEW key \in Keys, NEW t \in Data
    PROVE  Queued(fate, key, t) <=> key \in DOMAIN sub_ /\ t \in Payloads(sub_[key].data)
BY DEF Recorded, Queued

\* A call that writes one sub-buffer, which is then X.
LEMMA OneSubStep ==
    ASSUME Kept, NEW key \in Keys, NEW X \in Subs(Configs),
           now' = now,
           DOMAIN sub_' = DOMAIN sub_ \cup {key}, sub_'[key] = X,
           \A k \in DOMAIN sub_ : k # key => sub_'[k] = sub_[k],
           DOMAIN skipped' = DOMAIN sub_',
           DOMAIN fate' \subseteq Keys \X Data, \A v \in DOMAIN fate' : fate'[v] \in Fates,
           Timely(X.data, now), Once(X.data),
           KeepOrder => Sorted(X.data, X.cfg.newest_first),
           \A t \in Data : t \in Payloads(X.data) <=> Queued(fate', key, t),
           \A k \in Keys, t \in Data : k # key => (Queued(fate', k, t) <=> Queued(fate, k, t)),
           DOMAIN sent' \subseteq DOMAIN fate',
           \A k \in Keys, t \in Data :
              k # key /\ <<k, t>> \in DOMAIN sent'
                 => <<k, t>> \in DOMAIN sent /\ sent'[<<k, t>>] = sent[<<k, t>>],
           \A i \in DOMAIN X.data :
              <<key, X.data[i].data>> \in DOMAIN sent'
                 => /\ X.data[i].last_send = sent'[<<key, X.data[i].data>>]
                    /\ X.data[i].last_send # ZeroPoint,
           \A k \in DOMAIN served' : k # key => k \in DOMAIN served /\ served'[k] = served[k],
           key \in DOMAIN served' => served'[key] = X.last_access
    PROVE  Kept'
<1> USE DEF Kept
<1>0. DOMAIN sub_' \subseteq Keys /\ \A k \in DOMAIN sub_' : k # key => k \in DOMAIN sub_ /\ sub_'[k] = sub_[k]
  BY DEF Typed
<1>1. Typed'
  <2>1. \A k \in DOMAIN sub_' : sub_'[k] \in Subs(Configs)  BY <1>0 DEF Typed
  <2> QED BY <1>0, <2>1 DEF Typed
<1>2. Clean'
  <2> SUFFICES ASSUME NEW k \in DOMAIN sub_' PROVE Timely(sub_'[k].data, now) /\ Once(sub_'[k].data)
    BY DEF Clean
  <2> QED BY <1>0 DEF Clean
<1>3. Recorded'
  <2>1. ASSUME NEW k \in DOMAIN sub_', NEW t \in Payloads(sub_'[k].data)
        PROVE  Queued(fate', k, t)
    <3>1. k \in Keys /\ sub_'[k] \in Subs(Configs)  BY <1>0, <1>1 DEF Typed
    <3>2. t \in Data  BY <3>1, SubTypes, PayloadTypes
    <3>3. CASE k = key  BY <2>1, <3>2, <3>3
    <3>4. CASE k # key
      <4>1. k \in DOMAIN sub_ /\ t \in Payloads(sub_[k].data)  BY <1>0, <2>1, <3>4
      <4>2. Queued(fate, k, t)  BY <3>1, <3>2, <4>1, RecordedAs
      <4> QED BY <3>1, <3>2, <3>4, <4>2
    <3> QED BY <3>3, <3>4
  <2>2. ASSUME NEW k \in Keys, NEW t \in Data, Queued(fate', k, t)
        PROVE  k \in DOMAIN sub_' /\ t \in Payloads(sub_'[k].data)
    <3>1. CASE k = key  BY <2>2, <3>1
    <3>2. CASE k # key
      <4>1. Queued(fate, k, t)  BY <2>2, <3>2
      <4>2. k \in DOMAIN sub_ /\ t \in Payloads(sub_[k].data)  BY <4>1, RecordedAs
      <4> QED BY <3>2, <4>2
    <3> QED BY <3>1, <3>2
  <2> QED BY <2>1, <2>2 DEF Recorded, Queued
<1>4. Remembered'
  <2> SUFFICES ASSUME NEW k \in DOMAIN sub_', NEW i \in DOMAIN sub_'[k].data,
                      <<k, sub_'[k].data[i].data>> \in DOMAIN sent'
               PROVE  /\ sub_'[k].data[i].last_send = sent'[<<k, sub_'[k].data[i].data>>]
                      /\ sub_'[k].data[i].last_send # ZeroPoint
    BY DEF Remembered
  <2>1. CASE k = key  BY <2>1
  <2>2. CASE k # key
    <3>1. k \in DOMAIN sub_ /\ sub_'[k] = sub_[k] /\ k \in Keys /\ sub_[k] \in Subs(Configs)
      BY <1>0, <2>2 DEF Typed
    <3>2. sub_[k].data[i].data \in Data  BY <3>1, SubTypes, Domains, DatumTypes
    <3>3. /\ <<k, sub_[k].data[i].data>> \in DOMAIN sent
          /\ sent'[<<k, sub_[k].data[i].data>>] = sent[<<k, sub_[k].data[i].data>>]
      BY <2>2, <3>1, <3>2
    <3> QED BY <3>1, <3>3 DEF Remembered
  <2> QED BY <2>1, <2>2
<1>5. Accessed'
  <2>1. ASSUME NEW k \in DOMAIN served' PROVE k \in DOMAIN sub_' /\ served'[k] = sub_'[k].last_access
    BY <2>1 DEF Accessed
  <2> QED BY <2>1 DEF Accessed
<1>6. InOrder'
  <2> SUFFICES ASSUME KeepOrder, NEW k \in DOMAIN sub_'
               PROVE  Sorted(sub_'[k].data, sub_'[k].cfg.newest_first)
    BY DEF InOrder
  <2> QED BY <1>0 DEF InOrder
<1> QED BY <1>1, <1>2, <1>3, <1>4, <1>5, <1>6

\* Decide() changes the fate of the data in S and of no other.
LEMMA DecideEffect ==
    ASSUME NEW S, NEW outcome
    PROVE  /\ DOMAIN Decide(S, outcome) = DOMAIN fate
           /\ \A v \in DOMAIN fate : Decide(S, outcome)[v] = IF v \in S THEN outcome ELSE fate[v]
BY DEF Decide

\* DataOf() pairs a key with the payloads of its sub-buffer.
LEMMA DataOfKey ==
    ASSUME Typed, NEW key \in DOMAIN sub_, NEW k, NEW t
    PROVE  <<k, t>> \in DataOf(key) <=> k = key /\ t \in Payloads(sub_[key].data)
<1>1. sub_[key].data \in Seq(Datums)  BY SubTypes DEF Typed
<1>2. Payloads(sub_[key].data) = {d.data : d \in Range(sub_[key].data)}  BY <1>1, PayloadTypes
<1> QED BY <1>2 DEF DataOf

\* A sub-buffer that starts afresh, empty and not yet served.
LEMMA FreshStep ==
    ASSUME Kept, NEW key \in Keys, NEW cfgs \in ConfigLists,
           sub_' = Put(sub_, key, NewSub(cfgs, now)),
           skipped' = Put(skipped, key, 0),
           Forget(key), now' = now, sent' = sent,
           DOMAIN fate' = DOMAIN fate, \A v \in DOMAIN fate : fate'[v] \in Fates,
           \A t \in Data : ~ Queued(fate', key, t),
           \A k \in Keys, t \in Data : k # key => (Queued(fate', k, t) <=> Queued(fate, k, t))
    PROVE  Kept'
<1> DEFINE X == NewSub(cfgs, now)
<1>1. now \in Nat  BY DEF Kept, Typed
<1>2. X \in Subs(Configs) /\ X.data = <<>>
  <2>1. MergeConfigs(cfgs) \in Configs /\ MergeConfigs(cfgs).blackout_time \in Nat
    BY ConfigAssumption, ConfigTypes
  <2> QED BY <1>1, <2>1, NewSubEffect
<1> HIDE DEF X
<1>3. /\ DOMAIN sub_' = DOMAIN sub_ \cup {key} /\ sub_'[key] = X
      /\ \A k \in DOMAIN sub_ : k # key => sub_'[k] = sub_[k]
      /\ DOMAIN skipped' = DOMAIN sub_'
  BY DEF Put, X, Kept, Typed
<1>4. /\ Timely(X.data, now) /\ Once(X.data) /\ Sorted(X.data, X.cfg.newest_first)
      /\ Payloads(X.data) = {} /\ DOMAIN X.data = {}
  BY <1>2, EmptyQueue
<1>5. key \notin DOMAIN served' /\ \A k \in DOMAIN served' : k \in DOMAIN served /\ served'[k] = served[k]
  BY DEF Forget, Without
<1>6. DOMAIN fate' \subseteq Keys \X Data /\ DOMAIN sent' \subseteq DOMAIN fate'
      /\ \A v \in DOMAIN fate' : fate'[v] \in Fates
  BY DEF Kept, Typed, Remembered
<1>7. \A t \in Data : t \in Payloads(X.data) <=> Queued(fate', key, t)  BY <1>4
<1>8. \A k \in Keys, t \in Data : k # key /\ <<k, t>> \in DOMAIN sent'
         => <<k, t>> \in DOMAIN sent /\ sent'[<<k, t>>] = sent[<<k, t>>]
  OBVIOUS
<1>9. \A i \in DOMAIN X.data : <<key, X.data[i].data>> \in DOMAIN sent'
         => /\ X.data[i].last_send = sent'[<<key, X.data[i].data>>]
            /\ X.data[i].last_send # ZeroPoint
  BY <1>4
<1> QED BY <1>2, <1>3, <1>4, <1>5, <1>6, <1>7, <1>8, <1>9, OneSubStep

\* create() makes an empty sub-buffer: nothing recorded changes.
LEMMA CreateStep ==
    ASSUME Kept, NEW key \in Keys, NEW cfgs \in ConfigLists, create(key, cfgs)
    PROVE  Kept'
<1>1. \A t \in Data : ~ Queued(fate, key, t)  BY RecordedAs DEF create, Kept
<1>2. /\ sub_' = Put(sub_, key, NewSub(cfgs, now)) /\ skipped' = Put(skipped, key, 0)
      /\ Forget(key) /\ now' = now /\ sent' = sent /\ fate' = fate
  BY DEF create
<1>3. \A v \in DOMAIN fate : fate[v] \in Fates  BY DEF Kept, Typed
<1> QED BY <1>1, <1>2, <1>3, FreshStep

\* The data of a sub-buffer that replace() discards are recorded as removed.
LEMMA ReplaceStep ==
    ASSUME Kept, NEW key \in Keys, NEW cfgs \in ConfigLists, replace(key, cfgs)
    PROVE  Kept'
<1>2. /\ sub_' = Put(sub_, key, NewSub(cfgs, now)) /\ skipped' = Put(skipped, key, 0)
      /\ Forget(key) /\ now' = now /\ sent' = sent
  BY DEF replace
<1>3. /\ DOMAIN fate' = DOMAIN fate /\ \A v \in DOMAIN fate : fate'[v] \in Fates
      /\ \A t \in Data : ~ Queued(fate', key, t)
      /\ \A k \in Keys, t \in Data : k # key => (Queued(fate', k, t) <=> Queued(fate, k, t))
  <2>1. CASE key \notin DOMAIN sub_
    <3>1. fate' = fate  BY <2>1 DEF replace
    <3>2. \A t \in Data : ~ Queued(fate, key, t)  BY <2>1, RecordedAs DEF Kept
    <3> QED BY <3>1, <3>2 DEF Kept, Typed
  <2>2. CASE key \in DOMAIN sub_
    <3>1. /\ DOMAIN fate' = DOMAIN fate
          /\ \A v \in DOMAIN fate : fate'[v] = IF v \in DataOf(key) THEN "removed" ELSE fate[v]
      BY <2>2, DecideEffect DEF replace
    <3>2. \A v \in DOMAIN fate : fate'[v] \in Fates  BY <3>1 DEF Kept, Typed, Fates
    <3>3. ASSUME NEW t \in Data PROVE ~ Queued(fate', key, t)
      <4>1. Queued(fate, key, t) <=> <<key, t>> \in DataOf(key)
        BY <2>2, RecordedAs, DataOfKey DEF Kept
      <4> QED BY <3>1, <4>1 DEF Queued
    <3>4. ASSUME NEW k \in Keys, NEW t \in Data, k # key
          PROVE  Queued(fate', k, t) <=> Queued(fate, k, t)
      <4>1. <<k, t>> \notin DataOf(key)  BY <2>2, <3>4, DataOfKey DEF Kept
      <4> QED BY <3>1, <4>1 DEF Queued
    <3> QED BY <3>1, <3>2, <3>3, <3>4
  <2> QED BY <2>1, <2>2
<1> QED BY <1>2, <1>3, FreshStep

\* update() changes configuration and last access, and leaves the deque
\* alone.
LEMMA UpdateStep ==
    ASSUME Kept, NEW key \in Keys, NEW cfgs \in ConfigLists, update(key, cfgs)
    PROVE  Kept'
<1> DEFINE s == sub_[key]
           X == UpdateSub(s, cfgs)
<1>1. key \in DOMAIN sub_ /\ s \in Subs(Configs)  BY DEF update, Kept, Typed
<1>2. X \in Subs(Configs) /\ X.data = s.data /\ X.cfg = MergeConfigs(cfgs)
  <2>1. MergeConfigs(cfgs) \in Configs /\ MergeConfigs(cfgs).blackout_time \in Nat
    BY ConfigAssumption, ConfigTypes
  <2> QED BY <1>1, <2>1, UpdateSubEffect
<1>3. /\ DOMAIN sub_' = DOMAIN sub_ \cup {key} /\ sub_'[key] = X
      /\ \A k \in DOMAIN sub_ : k # key => sub_'[k] = sub_[k]
  <2> HIDE DEF X
  <2>1. sub_' = [sub_ EXCEPT ![key] = X]  BY DEF update, X
  <2> QED BY <1>1, <2>1
<1>4. KeepOrder => Sorted(X.data, X.cfg.newest_first)  BY <1>1, <1>2 DEF update, Kept, InOrder
<1> HIDE DEF X
<1>5. now' = now /\ fate' = fate /\ sent' = sent /\ skipped' = skipped  BY DEF update
<1>6. key \notin DOMAIN served' /\ \A k \in DOMAIN served' : k \in DOMAIN served /\ served'[k] = served[k]
  BY DEF update, Forget, Without
<1>7. Timely(X.data, now) /\ Once(X.data)  BY <1>1, <1>2 DEF Kept, Clean
<1>8. \A t \in Data : t \in Payloads(X.data) <=> Queued(fate', key, t)
  BY <1>1, <1>2, <1>5, RecordedAs DEF Kept
<1>9. \A i \in DOMAIN X.data : <<key, X.data[i].data>> \in DOMAIN sent'
         => /\ X.data[i].last_send = sent'[<<key, X.data[i].data>>]
            /\ X.data[i].last_send # ZeroPoint
  BY <1>1, <1>2, <1>5 DEF Kept, Remembered
<1>10. /\ DOMAIN skipped' = DOMAIN sub_' /\ DOMAIN fate' \subseteq Keys \X Data
       /\ \A v \in DOMAIN fate' : fate'[v] \in Fates
       /\ DOMAIN sent' \subseteq DOMAIN fate'
  BY <1>1, <1>3, <1>5 DEF Kept, Typed, Remembered
<1>11. \A k \in Keys, t \in Data : k # key => (Queued(fate', k, t) <=> Queued(fate, k, t))  BY <1>5
<1> QED BY <1>2, <1>3, <1>4, <1>5, <1>6, <1>7, <1>8, <1>9, <1>10, <1>11, OneSubStep

\* erase() removes the datum it was called for, which is recorded as erased.
LEMMA EraseStep ==
    ASSUME Kept, NEW key \in DOMAIN sub_, NEW i \in DOMAIN sub_[key].data,
           erase(key, sub_[key].data[i])
    PROVE  Kept'
<1> DEFINE s == sub_[key]
           value == s.data[i]
           X == EraseSub(s, value)
<1>1. key \in Keys /\ s \in Subs(Configs) /\ Once(s.data) /\ Timely(s.data, now)  BY DEF Kept, Typed, Clean
<1>2. /\ X \in Subs(Configs) /\ X.cfg = s.cfg /\ X.last_access = s.last_access
      /\ Embeds(X.data, s.data) /\ Payloads(X.data) = Payloads(s.data) \ {value.data}
  BY <1>1, EraseSubEffect DEF erase
<1>3. X.data \in Seq(Datums) /\ s.data \in Seq(Datums)  BY <1>1, <1>2, SubTypes
<1>4. /\ DOMAIN sub_' = DOMAIN sub_ \cup {key} /\ sub_'[key] = X
      /\ \A k \in DOMAIN sub_ : k # key => sub_'[k] = sub_[k]
  <2> HIDE DEF X
  <2>1. sub_' = [sub_ EXCEPT ![key] = X]  BY DEF erase, X
  <2> QED BY <2>1
<1> HIDE DEF X
<1>5. /\ Timely(X.data, now) /\ Once(X.data)
      /\ \A j \in DOMAIN X.data : \E l \in DOMAIN s.data : X.data[j] = s.data[l]
      /\ \A nf : Sorted(s.data, nf) => Sorted(X.data, nf)
  BY <1>1, <1>2, <1>3, EmbedsKeeps
<1>6. KeepOrder => Sorted(X.data, X.cfg.newest_first)  BY <1>2, <1>5 DEF Kept, InOrder
<1>7. now' = now /\ sent' = sent /\ skipped' = skipped /\ served' = served  BY DEF erase
<1>8. /\ DOMAIN fate' = DOMAIN fate
      /\ \A v \in DOMAIN fate : fate'[v] = IF v \in {<<key, value.data>>} THEN "erased" ELSE fate[v]
  BY DecideEffect DEF erase
<1> HIDE DEF value
<1>9. ASSUME NEW t \in Data PROVE t \in Payloads(X.data) <=> Queued(fate', key, t)
  <2>1. Queued(fate, key, t) <=> t \in Payloads(s.data)  BY <1>1, RecordedAs DEF Kept
  <2> QED BY <1>2, <1>8, <2>1 DEF Queued
<1>10. \A k \in Keys, t \in Data : k # key => (Queued(fate', k, t) <=> Queued(fate, k, t))
  BY <1>8 DEF Queued
<1>11. ASSUME NEW j \in DOMAIN X.data, <<key, X.data[j].data>> \in DOMAIN sent'
       PROVE  /\ X.data[j].last_send = sent'[<<key, X.data[j].data>>]
              /\ X.data[j].last_send # ZeroPoint
  <2>1. PICK l \in DOMAIN s.data : X.data[j] = s.data[l]  BY <1>5
  <2> QED BY <1>7, <1>11, <2>1 DEF Kept, Remembered
<1>12. /\ DOMAIN skipped' = DOMAIN sub_' /\ DOMAIN fate' \subseteq Keys \X Data
       /\ \A v \in DOMAIN fate' : fate'[v] \in Fates
       /\ DOMAIN sent' \subseteq DOMAIN fate'
  BY <1>4, <1>7, <1>8 DEF Kept, Typed, Remembered, Fates
<1>13. /\ \A k \in DOMAIN served' : k \in DOMAIN served /\ served'[k] = served[k]
       /\ key \in DOMAIN served' => served'[key] = X.last_access
  BY <1>2, <1>7 DEF Kept, Accessed
<1> QED BY <1>1, <1>2, <1>4, <1>5, <1>6, <1>7, <1>9, <1>10, <1>11, <1>12, <1>13, OneSubStep

\* push() adds a datum newer than all others; what exceeds max_queue is
\* recorded.
LEMMA PushStep ==
    ASSUME Kept, NEW key \in Keys, NEW t \in Data, push(key, t)
    PROVE  Kept'
<1> DEFINE s == sub_[key]
           X == PushSub(s, t, now)
           over == {d.data : d \in Range(Exceeded(s, t, now))}
<1>1. /\ key \in DOMAIN sub_ /\ s \in Subs(Configs) /\ Once(s.data) /\ Timely(s.data, now)
      /\ now \in Nat /\ now > 0 /\ <<key, t>> \notin DOMAIN fate
  BY DEF push, Kept, Typed, Clean
<1>2. t \notin Payloads(s.data)  BY <1>1, RecordedAs DEF Kept, Queued
<1>3. /\ X \in Subs(Configs) /\ X.cfg = s.cfg /\ X.last_access = s.last_access
      /\ Timely(X.data, now) /\ Once(X.data)
      /\ Payloads(X.data) = (Payloads(s.data) \cup {t}) \ over
      /\ over \subseteq Payloads(s.data) \cup {t}
      /\ Sorted(s.data, s.cfg.newest_first) => Sorted(X.data, s.cfg.newest_first)
      /\ \A i \in DOMAIN X.data : X.data[i].data = t \/ \E j \in DOMAIN s.data : X.data[i] = s.data[j]
  <2>1. (\A c \in Configs : c.max_queue \in Nat) /\ t \in Data  BY ConfigTypes
  <2> HIDE DEF s
  <2> QED BY ONLY <1>1, <1>2, <2>1, PushSubEffect
<1>4. /\ DOMAIN sub_' = DOMAIN sub_ \cup {key} /\ sub_'[key] = X
      /\ \A k \in DOMAIN sub_ : k # key => sub_'[k] = sub_[k]
  <2> HIDE DEF X
  <2>1. sub_' = [sub_ EXCEPT ![key] = X]  BY DEF push, X
  <2> QED BY <1>1, <2>1
<1> HIDE DEF X
<1>5. KeepOrder => Sorted(X.data, X.cfg.newest_first)  BY <1>1, <1>3 DEF Kept, InOrder
<1>6. now' = now /\ sent' = sent /\ skipped' = skipped /\ served' = served  BY DEF push
<1>7. /\ DOMAIN fate' = DOMAIN fate \cup {<<key, t>>}
      /\ \A v \in DOMAIN fate' :
            fate'[v] = IF \E x \in over : v = <<key, x>> THEN "exceeded"
                       ELSE IF v = <<key, t>> THEN "queued" ELSE fate[v]
  BY DEF push
<1> HIDE DEF over
<1>8. ASSUME NEW x \in Data PROVE x \in Payloads(X.data) <=> Queued(fate', key, x)
  <2>1. Queued(fate, key, x) <=> x \in Payloads(s.data)  BY <1>1, RecordedAs DEF Kept
  <2>2. Queued(fate', key, x) <=> x \notin over /\ (x = t \/ Queued(fate, key, x))
    BY <1>7 DEF Queued
  <2> QED BY <1>3, <2>1, <2>2
<1>9. \A k \in Keys, x \in Data : k # key => (Queued(fate', k, x) <=> Queued(fate, k, x))
  BY <1>7 DEF Queued
<1>10. ASSUME NEW i \in DOMAIN X.data, <<key, X.data[i].data>> \in DOMAIN sent'
       PROVE  /\ X.data[i].last_send = sent'[<<key, X.data[i].data>>]
              /\ X.data[i].last_send # ZeroPoint
  <2>1. X.data[i].data # t  BY <1>1, <1>6, <1>10 DEF Kept, Remembered
  <2>2. PICK j \in DOMAIN s.data : X.data[i] = s.data[j]  BY <1>3, <2>1
  <2> QED BY <1>1, <1>6, <1>10, <2>2 DEF Kept, Remembered
<1>11. /\ DOMAIN skipped' = DOMAIN sub_' /\ DOMAIN fate' \subseteq Keys \X Data
       /\ DOMAIN sent' \subseteq DOMAIN fate'
  <2>1. DOMAIN skipped' = DOMAIN sub_'  BY <1>1, <1>4, <1>6 DEF Kept, Typed
  <2>2. DOMAIN fate' \subseteq Keys \X Data
    <3>1. <<key, t>> \in Keys \X Data  OBVIOUS
    <3>2. DOMAIN fate \subseteq Keys \X Data  BY DEF Kept, Typed
    <3> QED BY <1>7, <3>1, <3>2
  <2>3. DOMAIN sent' \subseteq DOMAIN fate'  BY <1>6, <1>7 DEF Kept, Remembered
  <2> QED BY <2>1, <2>2, <2>3
<1>12. \A v \in DOMAIN fate' : fate'[v] \in Fates  BY <1>7 DEF Kept, Typed, Fates
<1>13. /\ \A k \in DOMAIN served' : k \in DOMAIN served /\ served'[k] = served[k]
       /\ key \in DOMAIN served' => served'[key] = X.last_access
  BY <1>1, <1>3, <1>6 DEF Kept, Accessed
<1> QED BY <1>3, <1>4, <1>5, <1>6, <1>8, <1>9, <1>10, <1>11, <1>12, <1>13, OneSubStep

\* top() serves one sub-buffer that has a value to offer.
LEMMA TopServes ==
    ASSUME Kept, NEW scope, NEW max_bytes, top(scope, max_bytes)
    PROVE  \E key \in DOMAIN sub_ :
              LET s == sub_[key]
                  k == TopIndex(s, now, AckTimeout)
              IN  /\ ValueResult(s, now, max_bytes, AckTimeout) = "VALUE_PROVIDED"
                  /\ sub_' = [sub_ EXCEPT ![key] = TopSub(s, now, AckTimeout)]
                  /\ call' = Call("top", key)
                  /\ served' = Put(served, key, now)
                  /\ sent' = Put(sent, <<key, s.data[k].data>>, now)
                  /\ DOMAIN skipped' = DOMAIN skipped
                  /\ now' = now /\ fate' = fate
BY DEF top, Winners, Contestants

\* top() changes only the send time of the datum it provides and the last
\* access.
LEMMA TopStep ==
    ASSUME Kept, NEW scope, NEW max_bytes, top(scope, max_bytes)
    PROVE  Kept'
<1>0. PICK key \in DOMAIN sub_ :
         LET s == sub_[key]
             k == TopIndex(s, now, AckTimeout)
         IN  /\ ValueResult(s, now, max_bytes, AckTimeout) = "VALUE_PROVIDED"
             /\ sub_' = [sub_ EXCEPT ![key] = TopSub(s, now, AckTimeout)]
             /\ call' = Call("top", key)
             /\ served' = Put(served, key, now)
             /\ sent' = Put(sent, <<key, s.data[k].data>>, now)
             /\ DOMAIN skipped' = DOMAIN skipped
             /\ now' = now /\ fate' = fate
  BY TopServes
<1> DEFINE s == sub_[key]
           X == TopSub(s, now, AckTimeout)
           k == TopIndex(s, now, AckTimeout)
<1>1. /\ key \in Keys /\ s \in Subs(Configs) /\ Once(s.data) /\ Timely(s.data, now)
      /\ now \in Nat /\ now > 0 /\ AckTimeout \in Nat
  BY DynamicBufferAssumption DEF Kept, Typed, Clean
<1>2. /\ k \in DOMAIN s.data /\ X \in Subs(Configs) /\ X.cfg = s.cfg /\ X.last_access = now
      /\ DOMAIN X.data = DOMAIN s.data
      /\ \A i \in DOMAIN s.data :
            /\ X.data[i].data = s.data[i].data
            /\ X.data[i].push_time = s.data[i].push_time
            /\ X.data[i].last_send = IF i = k THEN now ELSE s.data[i].last_send
  BY <1>0, <1>1, TopSubEffect
<1> HIDE DEF X, k
<1>3. /\ DOMAIN sub_' = DOMAIN sub_ \cup {key} /\ sub_'[key] = X
      /\ \A l \in DOMAIN sub_ : l # key => sub_'[l] = sub_[l]
  <2>1. sub_' = [sub_ EXCEPT ![key] = X]  BY <1>0 DEF X
  <2> QED BY <2>1
<1>4. /\ Timely(X.data, now) /\ Once(X.data) /\ Payloads(X.data) = Payloads(s.data)
      /\ \A nf : Sorted(s.data, nf) => Sorted(X.data, nf)
  <2>1. X.data \in Seq(Datums) /\ s.data \in Seq(Datums)  BY <1>1, <1>2, SubTypes
  <2>2. \A i \in DOMAIN s.data :
           /\ X.data[i].data = s.data[i].data /\ X.data[i].push_time = s.data[i].push_time
           /\ X.data[i].last_send = now \/ X.data[i].last_send = s.data[i].last_send
    BY <1>2
  <2>3. DOMAIN X.data = DOMAIN s.data /\ now \in Nat  BY <1>1, <1>2
  <2>4. /\ Timely(s.data, now) => Timely(X.data, now)
        /\ Once(s.data) => Once(X.data)
        /\ \A nf : Sorted(s.data, nf) => Sorted(X.data, nf)
        /\ Payloads(X.data) = Payloads(s.data)
    BY ONLY <2>1, <2>2, <2>3, MarkKeeps
  <2> QED BY <1>1, <2>4
<1>5. KeepOrder => Sorted(X.data, X.cfg.newest_first)  BY <1>2, <1>4 DEF Kept, InOrder
<1>6. now' = now /\ fate' = fate /\ DOMAIN skipped' = DOMAIN sub_'
  BY <1>0, <1>3 DEF Kept, Typed
<1>7. \A t \in Data : t \in Payloads(X.data) <=> Queued(fate', key, t)
  BY <1>1, <1>4, <1>6, RecordedAs DEF Kept
<1>8. \A l \in Keys, t \in Data : l # key => (Queued(fate', l, t) <=> Queued(fate, l, t))  BY <1>6
<1> DEFINE w == <<key, s.data[k].data>>
<1>9. /\ DOMAIN sent' = DOMAIN sent \cup {w} /\ sent'[w] = now
      /\ \A v \in DOMAIN sent : v # w => sent'[v] = sent[v]
  <2>1. sent' = Put(sent, w, now)  BY <1>0 DEF k
  <2> HIDE DEF w
  <2> QED BY <2>1 DEF Put
<1>10. w \in DOMAIN fate
  <2>1. s.data[k].data \in Payloads(s.data)  BY <1>2 DEF Payloads
  <2> QED BY <2>1 DEF Kept, Recorded
<1>11. /\ DOMAIN sent' \subseteq DOMAIN fate' /\ DOMAIN fate' \subseteq Keys \X Data
       /\ \A v \in DOMAIN fate' : fate'[v] \in Fates
  BY <1>6, <1>9, <1>10 DEF Kept, Remembered, Typed
<1>12. \A l \in Keys, t \in Data : l # key /\ <<l, t>> \in DOMAIN sent'
          => <<l, t>> \in DOMAIN sent /\ sent'[<<l, t>>] = sent[<<l, t>>]
  BY <1>9
<1>13. ASSUME NEW i \in DOMAIN X.data, <<key, X.data[i].data>> \in DOMAIN sent'
       PROVE  /\ X.data[i].last_send = sent'[<<key, X.data[i].data>>]
              /\ X.data[i].last_send # ZeroPoint
  <2>1. CASE i = k
    <3>1. X.data[i].last_send = now /\ <<key, X.data[i].data>> = w  BY <1>2, <2>1
    <3> QED BY <1>1, <1>9, <3>1 DEF ZeroPoint
  <2>2. CASE i # k
    <3>1. s.data[i].data # s.data[k].data  BY <1>1, <1>2, <2>2 DEF Once
    <3>2. <<key, s.data[i].data>> \in DOMAIN sent /\ <<key, s.data[i].data>> # w
      BY <1>2, <1>9, <1>13, <3>1
    <3>3. s.data[i].last_send = sent[<<key, s.data[i].data>>] /\ s.data[i].last_send # ZeroPoint
      BY <1>2, <3>2 DEF Kept, Remembered
    <3> QED BY <1>2, <1>9, <2>2, <3>2, <3>3
  <2> QED BY <2>1, <2>2
<1>14. /\ \A l \in DOMAIN served' : l # key => l \in DOMAIN served /\ served'[l] = served[l]
       /\ key \in DOMAIN served' => served'[key] = X.last_access
  BY <1>0, <1>2 DEF Put
<1> QED BY <1>1, <1>2, <1>3, <1>4, <1>5, <1>6, <1>7, <1>8, <1>11, <1>12, <1>13, <1>14, OneSubStep

\* The data of a sub-buffer that remove() discards are recorded as removed.
LEMMA RemoveStep ==
    ASSUME Kept, NEW key \in Keys, remove(key)
    PROVE  Kept'
<1>1. /\ key \in DOMAIN sub_ /\ DOMAIN sub_' = DOMAIN sub_ \ {key}
      /\ \A k \in DOMAIN sub_' : sub_'[k] = sub_[k]
      /\ DOMAIN skipped' = DOMAIN skipped \ {key}
      /\ DOMAIN served' = DOMAIN served \ {key}
      /\ \A k \in DOMAIN served' : served'[k] = served[k]
      /\ now' = now /\ sent' = sent
  BY DEF remove, Without, Forget
<1>2. /\ DOMAIN fate' = DOMAIN fate
      /\ \A v \in DOMAIN fate : fate'[v] = IF v \in DataOf(key) THEN "removed" ELSE fate[v]
  BY DecideEffect DEF remove
<1>3. ASSUME NEW k \in Keys, NEW t \in Data
      PROVE  Queued(fate', k, t) <=> k # key /\ Queued(fate, k, t)
  <2>1. <<k, t>> \in DataOf(key) <=> k = key /\ t \in Payloads(sub_[key].data)
    BY <1>1, DataOfKey DEF Kept
  <2>2. Queued(fate, key, t) <=> t \in Payloads(sub_[key].data)  BY <1>1, RecordedAs DEF Kept
  <2> QED BY <1>2, <2>1, <2>2 DEF Queued
<1>4. Typed'  BY <1>1, <1>2 DEF Kept, Typed, Fates
<1>5. Clean'  BY <1>1 DEF Kept, Clean
<1>6. Recorded'
  <2>1. ASSUME NEW k \in DOMAIN sub_', NEW t \in Payloads(sub_'[k].data) PROVE Queued(fate', k, t)
    <3>1. k \in DOMAIN sub_ /\ k # key /\ k \in Keys /\ t \in Payloads(sub_[k].data) /\ sub_[k] \in Subs(Configs)
      BY <1>1, <2>1 DEF Kept, Typed
    <3>2. t \in Data  BY <3>1, SubTypes, PayloadTypes
    <3> QED BY <1>3, <3>1, <3>2, RecordedAs DEF Kept
  <2>2. ASSUME NEW k \in Keys, NEW t \in Data, Queued(fate', k, t)
        PROVE  k \in DOMAIN sub_' /\ t \in Payloads(sub_'[k].data)
    <3>1. k # key /\ k \in DOMAIN sub_ /\ t \in Payloads(sub_[k].data)
      BY <1>3, <2>2, RecordedAs DEF Kept
    <3> QED BY <1>1, <3>1
  <2> QED BY <2>1, <2>2 DEF Recorded, Queued
<1>7. Remembered'  BY <1>1, <1>2 DEF Kept, Remembered
<1>8. Accessed'  BY <1>1 DEF Kept, Accessed
<1>9. InOrder'  BY <1>1 DEF Kept, InOrder
<1> QED BY <1>4, <1>5, <1>6, <1>7, <1>8, <1>9 DEF Kept

\* expire() takes data from one end of each deque and records them as
\* expired.
LEMMA ExpireStep ==
    ASSUME Kept, expire
    PROVE  Kept'
<1> DEFINE gone == UNION {{<<key, d.data>> : d \in Expired(sub_[key], now)} : key \in DOMAIN sub_}
<1>1. /\ DOMAIN sub_' = DOMAIN sub_ /\ \A k \in DOMAIN sub_ : sub_'[k] = ExpireSub(sub_[k], now)
      /\ now' = now /\ sent' = sent /\ served' = served /\ skipped' = skipped
  BY DEF expire
<1>2. /\ DOMAIN fate' = DOMAIN fate
      /\ \A v \in DOMAIN fate : fate'[v] = IF v \in gone THEN "expired" ELSE fate[v]
  BY DecideEffect DEF expire
<1>3. \A k \in DOMAIN sub_ : \A t : <<k, t>> \in gone <=> t \in {d.data : d \in Expired(sub_[k], now)}
  OBVIOUS
<1>4. \A k, t : <<k, t>> \in gone => k \in DOMAIN sub_  OBVIOUS
<1> HIDE DEF gone
<1>5. ASSUME NEW k \in DOMAIN sub_
      PROVE  /\ k \in Keys /\ sub_[k] \in Subs(Configs)
             /\ sub_'[k] \in Subs(Configs) /\ sub_'[k].cfg = sub_[k].cfg
             /\ sub_'[k].last_access = sub_[k].last_access
             /\ Timely(sub_'[k].data, now) /\ Once(sub_'[k].data)
             /\ \A nf : Sorted(sub_[k].data, nf) => Sorted(sub_'[k].data, nf)
             /\ \A i \in DOMAIN sub_'[k].data : \E j \in DOMAIN sub_[k].data :
                   sub_'[k].data[i] = sub_[k].data[j]
             /\ Payloads(sub_'[k].data)
                   = Payloads(sub_[k].data) \ {d.data : d \in Expired(sub_[k], now)}
  <2> DEFINE s == sub_[k]
             e == ExpireSub(s, now)
  <2>1. k \in Keys /\ s \in Subs(Configs) /\ Timely(s.data, now) /\ Once(s.data) /\ now \in Nat
    BY DEF Kept, Typed, Clean
  <2>2. /\ e \in Subs(Configs) /\ e.cfg = s.cfg /\ e.last_access = s.last_access /\ Embeds(e.data, s.data)
        /\ Payloads(e.data) = Payloads(s.data) \ {d.data : d \in Expired(s, now)}
    BY <2>1, ExpireSubEffect
  <2>3. e.data \in Seq(Datums) /\ s.data \in Seq(Datums)  BY <2>1, <2>2, SubTypes
  <2>4. e = sub_'[k]  BY <1>1
  <2> HIDE DEF e, s
  <2>5. /\ Timely(e.data, now) /\ Once(e.data)
        /\ \A nf : Sorted(s.data, nf) => Sorted(e.data, nf)
        /\ \A i \in DOMAIN e.data : \E j \in DOMAIN s.data : e.data[i] = s.data[j]
    BY <2>1, <2>2, <2>3, EmbedsKeeps
  <2> QED BY <2>1, <2>2, <2>4, <2>5 DEF s
<1>6. Typed'  BY <1>1, <1>2, <1>5 DEF Kept, Typed, Fates
<1>7. Clean'  BY <1>1, <1>5 DEF Kept, Clean
<1>8. Recorded'
  <2>1. ASSUME NEW k \in DOMAIN sub_', NEW t \in Payloads(sub_'[k].data) PROVE Queued(fate', k, t)
    <3>1. k \in DOMAIN sub_ /\ k \in Keys /\ sub_[k] \in Subs(Configs)  BY <1>1, <1>5
    <3>2. t \in Payloads(sub_[k].data) /\ t \notin {d.data : d \in Expired(sub_[k], now)}
      BY <1>5, <2>1, <3>1
    <3>3. t \in Data  BY <3>1, <3>2, SubTypes, PayloadTypes
    <3>4. Queued(fate, k, t)  BY <3>1, <3>2, <3>3, RecordedAs DEF Kept
    <3>5. <<k, t>> \notin gone  BY <1>3, <3>1, <3>2
    <3> QED BY <1>2, <3>4, <3>5 DEF Queued
  <2>2. ASSUME NEW k \in Keys, NEW t \in Data, Queued(fate', k, t)
        PROVE  k \in DOMAIN sub_' /\ t \in Payloads(sub_'[k].data)
    <3>1. Queued(fate, k, t) /\ <<k, t>> \notin gone  BY <1>2, <2>2 DEF Queued
    <3>2. k \in DOMAIN sub_ /\ t \in Payloads(sub_[k].data)  BY <3>1, RecordedAs DEF Kept
    <3>3. t \notin {d.data : d \in Expired(sub_[k], now)}  BY <1>3, <3>1, <3>2
    <3> QED BY <1>1, <1>5, <3>2, <3>3
  <2> QED BY <2>1, <2>2 DEF Recorded, Queued
<1>9. Remembered'
  <2>1. DOMAIN sent' \subseteq DOMAIN fate'  BY <1>1, <1>2 DEF Kept, Remembered
  <2>2. ASSUME NEW k \in DOMAIN sub_', NEW i \in DOMAIN sub_'[k].data,
               <<k, sub_'[k].data[i].data>> \in DOMAIN sent'
        PROVE  /\ sub_'[k].data[i].last_send = sent'[<<k, sub_'[k].data[i].data>>]
               /\ sub_'[k].data[i].last_send # ZeroPoint
    <3>1. k \in DOMAIN sub_  BY <1>1
    <3>2. PICK j \in DOMAIN sub_[k].data : sub_'[k].data[i] = sub_[k].data[j]  BY <1>5, <3>1
    <3> QED BY <1>1, <2>2, <3>1, <3>2 DEF Kept, Remembered
  <2> QED BY <2>1, <2>2 DEF Remembered
<1>10. Accessed'  BY <1>1, <1>5 DEF Kept, Accessed
<1>11. InOrder'  BY <1>1, <1>5 DEF Kept, InOrder
<1> QED BY <1>6, <1>7, <1>8, <1>9, <1>10, <1>11 DEF Kept

\* Time passes: all that was recorded lies in the past still.
LEMMA TickStep ==
    ASSUME Kept, Tick
    PROVE  Kept'
<1>1. now \in 1..MaxTime /\ now < MaxTime /\ now' = now + 1 /\ MaxTime \in Nat
  BY DynamicBufferAssumption DEF Kept, Typed, Tick
<1>2. UNCHANGED <<sub_, served, sent, fate, skipped>>  BY DEF Tick
<1>3. now' \in 1..MaxTime  BY <1>1
<1>4. ASSUME NEW q \in Seq(Datums), Timely(q, now) PROVE Timely(q, now')
  <2> SUFFICES ASSUME NEW i \in DOMAIN q PROVE q[i].push_time \in 1..now' /\ q[i].last_send \in 0..now'
    BY DEF Timely
  <2>1. q[i].push_time \in 1..now /\ q[i].last_send \in 0..now  BY <1>4 DEF Timely
  <2> QED BY <1>1, <2>1
<1>5. Typed'  BY <1>2, <1>3 DEF Kept, Typed
<1>6. Clean'
  <2> SUFFICES ASSUME NEW k \in DOMAIN sub_ PROVE Timely(sub_[k].data, now') /\ Once(sub_[k].data)
    BY <1>2 DEF Clean
  <2>1. sub_[k].data \in Seq(Datums) /\ Timely(sub_[k].data, now) /\ Once(sub_[k].data)
    BY SubTypes DEF Kept, Typed, Clean
  <2> QED BY <1>4, <2>1
<1>7. Recorded' /\ Remembered' /\ Accessed' /\ InOrder'
  BY <1>2 DEF Kept, Recorded, Remembered, Accessed, InOrder
<1> QED BY <1>5, <1>6, <1>7 DEF Kept

\* The empty buffer satisfies the invariant.
LEMMA InitKept ==
    Init => Kept
<1> SUFFICES ASSUME Init PROVE Kept
  OBVIOUS
<1>1. /\ DOMAIN sub_ = {} /\ DOMAIN served = {} /\ DOMAIN sent = {} /\ DOMAIN fate = {}
      /\ DOMAIN skipped = {} /\ now = 1
  BY DEF Init, ZeroPoint
<1>2. now \in 1..MaxTime  BY <1>1, DynamicBufferAssumption
<1> QED BY <1>1, <1>2 DEF Kept, Typed, Clean, Recorded, Remembered, Accessed, InOrder

\* Every call keeps the invariant.
LEMMA NextKept ==
    Kept /\ [Next]_vars => Kept'
<1> SUFFICES ASSUME Kept, [Next]_vars PROVE Kept'
  OBVIOUS
<1>1. ASSUME NEW key \in Keys, NEW cfgs \in ConfigLists,
             create(key, cfgs) \/ replace(key, cfgs) \/ update(key, cfgs)
      PROVE  Kept'
  BY <1>1, CreateStep, ReplaceStep, UpdateStep
<1>2. ASSUME NEW key \in Keys, remove(key) PROVE Kept'  BY <1>2, RemoveStep
<1>3. ASSUME NEW key \in Keys, NEW t \in Data, push(key, t) PROVE Kept'  BY <1>3, PushStep
<1>4. ASSUME NEW scope \in Scopes, NEW max_bytes \in ByteLimits, top(scope, max_bytes) PROVE Kept'
  BY <1>4, TopStep
<1>5. ASSUME NEW key \in DOMAIN sub_, NEW i \in DOMAIN sub_[key].data, erase(key, sub_[key].data[i])
      PROVE  Kept'
  BY <1>5, EraseStep
<1>6. CASE expire  BY <1>6, ExpireStep
<1>7. CASE Tick  BY <1>7, TickStep
<1>8. CASE UNCHANGED vars
  BY <1>8 DEF vars, Kept, Typed, Clean, Recorded, Remembered, Accessed, InOrder
<1> QED BY <1>1, <1>2, <1>3, <1>4, <1>5, <1>6, <1>7, <1>8 DEF Next

-----------------------------------------------------------------------------
(* The theorems. *)

\* The invariant holds whatever calls are made, in whatever order.
THEOREM AlwaysKept == Spec => []Kept
BY InitKept, NextKept, PTL DEF Spec

\* The types of the sub-buffers and of the record kept of them: no push or
\* send time of a queued datum is ever in the future.
THEOREM BufferTypeCorrect == Spec => []TypeOK
<1>1. Kept => TypeOK
  <2> SUFFICES ASSUME Kept PROVE TypeOK
    OBVIOUS
  <2>1. ASSUME NEW key \in DOMAIN sub_ PROVE SubBuffer(sub_[key])
    <3>1. sub_[key] \in Subs(Configs) /\ Timely(sub_[key].data, now)  BY DEF Kept, Typed, Clean
    <3>2. DOMAIN sub_[key].cfg = ConfigFields /\ sub_[key].last_access \in Int
      BY <3>1, SubTypes, ConfigTypes
    <3>3. \A i \in DOMAIN sub_[key].data : sub_[key].data[i].data \in Data
      BY <3>1, SubTypes, Domains, DatumTypes
    <3> QED BY <3>1, <3>2, <3>3 DEF SubBuffer, Timely
  <2> QED BY <2>1 DEF TypeOK, Kept, Typed
<1> QED BY <1>1, AlwaysKept, PTL

\* Nothing pushed disappears silently: what leaves a sub-buffer was erased,
\* was returned by push() as exceeded or by expire() as expired, or went with
\* the sub-buffer in remove() or replace(); and what left it is not in it.
THEOREM AlwaysAccounted == Spec => []Accounted
<1>1. Kept => Accounted
  <2> SUFFICES ASSUME Kept, NEW v \in DOMAIN fate
               PROVE  fate[v] = "queued" <=> v[1] \in DOMAIN sub_ /\ v \in DataOf(v[1])
    BY DEF Accounted
  <2>1. PICK key \in Keys, t \in Data : v = <<key, t>>  BY DEF Kept, Typed
  <2>2. v[1] = key  BY <2>1
  <2>3. fate[v] = "queued" <=> Queued(fate, key, t)  BY <2>1 DEF Queued
  <2>4. Queued(fate, key, t) <=> key \in DOMAIN sub_ /\ t \in Payloads(sub_[key].data)
    BY RecordedAs DEF Kept
  <2>5. key \in DOMAIN sub_ => (<<key, t>> \in DataOf(key) <=> t \in Payloads(sub_[key].data))
    BY DataOfKey DEF Kept
  <2> QED BY <2>1, <2>2, <2>3, <2>4, <2>5
<1> QED BY <1>1, AlwaysKept, PTL

\* As long as no update() turns newest_first around, the early exit of the
\* scan in erase() is never taken before a value that is still queued.
THEOREM EraseAlwaysFinds == KeepOrder => (Spec => []EraseFindsQueued)
<1> SUFFICES ASSUME KeepOrder PROVE Spec => []EraseFindsQueued
  OBVIOUS
<1>1. Kept => EraseFindsQueued
  <2> SUFFICES ASSUME Kept, NEW key \in DOMAIN sub_, NEW i \in DOMAIN sub_[key].data
               PROVE  EraseHits(sub_[key], sub_[key].data[i]) # {}
    BY DEF EraseFindsQueued
  <2>1. /\ sub_[key] \in Subs(Configs) /\ Once(sub_[key].data)
        /\ Sorted(sub_[key].data, sub_[key].cfg.newest_first)
    BY DEF Kept, Typed, Clean, InOrder
  <2> QED BY <2>1, EraseFinds
<1> QED BY <1>1, AlwaysKept, PTL

\* As long as no update() turns newest_first around, expire(), which stops at
\* the first live datum, leaves nothing behind that is past its time-to-live.
THEOREM ExpireAlwaysTakesAll == KeepOrder => (Spec => []ExpireTakesAllPastTtl)
<1> SUFFICES ASSUME KeepOrder PROVE Spec => []ExpireTakesAllPastTtl
  OBVIOUS
<1>1. Kept => ExpireTakesAllPastTtl
  <2> SUFFICES ASSUME Kept, NEW key \in DOMAIN sub_, NEW i \in DOMAIN sub_[key].data,
                      PastTtl(sub_[key], sub_[key].data[i], now)
               PROVE  sub_[key].data[i] \in Expired(sub_[key], now)
    BY DEF ExpireTakesAllPastTtl
  <2>1. /\ sub_[key] \in Subs(Configs) /\ Once(sub_[key].data) /\ now \in Nat
        /\ Sorted(sub_[key].data, sub_[key].cfg.newest_first)
    BY DEF Kept, Typed, Clean, InOrder
  <2>2. sub_[key].cfg.ttl.num \in Int /\ sub_[key].cfg.ttl.den \in Nat
    BY <2>1, SubTypes, ConfigTypes
  <2> QED BY <2>1, <2>2, ExpireSubEffect
<1> QED BY <1>1, AlwaysKept, PTL

\* The other calls leave the record of what was sent alone.
LEMMA OnlyTopSends ==
    ASSUME [Next]_vars
    PROVE  \/ \E scope \in Scopes, max_bytes \in ByteLimits : top(scope, max_bytes)
           \/ UNCHANGED vars
           \/ sent' = sent /\ call'.op # "top"
<1>1. CASE \E key \in Keys, cfgs \in ConfigLists :
              create(key, cfgs) \/ replace(key, cfgs) \/ update(key, cfgs)
  BY <1>1 DEF create, replace, update, Call
<1>2. CASE \E key \in Keys : remove(key)  BY <1>2 DEF remove, Call
<1>3. CASE \E key \in Keys, t \in Data : push(key, t)  BY <1>3 DEF push, Call
<1>4. CASE \E key \in DOMAIN sub_ : \E i \in DOMAIN sub_[key].data : erase(key, sub_[key].data[i])
  BY <1>4 DEF erase, Call
<1>5. CASE expire  BY <1>5 DEF expire, Call
<1>6. CASE Tick  BY <1>6 DEF Tick, Call
<1> QED BY <1>1, <1>2, <1>3, <1>4, <1>5, <1>6 DEF Next

\* What top() finds: the datum it marks was not sent, or longer ago than
\* ack_timeout, and the sub-buffer's blackout is over.
LEMMA TopRespects ==
    ASSUME Kept, NEW scope, NEW max_bytes, top(scope, max_bytes)
    PROVE  \E key \in DOMAIN sub_, t \in Data :
              /\ call'.op = "top" /\ call'.key = key
              /\ \A v \in DOMAIN sent : v # <<key, t>> => sent'[v] = sent[v]
              /\ sent'[<<key, t>>] = now
              /\ <<key, t>> \in DOMAIN sent => now > sent[<<key, t>>] + AckTimeout
              /\ key \in DOMAIN served => now > served[key] + sub_[key].cfg.blackout_time
<1>0. PICK key \in DOMAIN sub_ :
         LET s == sub_[key]
             k == TopIndex(s, now, AckTimeout)
         IN  /\ ValueResult(s, now, max_bytes, AckTimeout) = "VALUE_PROVIDED"
             /\ sub_' = [sub_ EXCEPT ![key] = TopSub(s, now, AckTimeout)]
             /\ call' = Call("top", key)
             /\ served' = Put(served, key, now)
             /\ sent' = Put(sent, <<key, s.data[k].data>>, now)
             /\ DOMAIN skipped' = DOMAIN skipped
             /\ now' = now /\ fate' = fate
  BY TopServes
<1> DEFINE s == sub_[key]
           k == TopIndex(s, now, AckTimeout)
           t == s.data[k].data
<1>1. s \in Subs(Configs) /\ now \in Nat /\ AckTimeout \in Nat  BY DynamicBufferAssumption DEF Kept, Typed
<1>2. /\ k \in DOMAIN s.data /\ Sendable(s.data[k], now, AckTimeout)
      /\ now > s.last_access + s.cfg.blackout_time
  <2>1. /\ k \in DOMAIN s.data /\ Sendable(s.data[k], now, AckTimeout)
        /\ ~ in_blackout(s, now)
    BY <1>0, <1>1, TopSubEffect
  <2>2. s.last_access \in Int /\ s.cfg.blackout_time \in Nat  BY <1>1, SubTypes, ConfigTypes
  <2> QED BY <1>1, <2>1, <2>2 DEF in_blackout
<1> HIDE DEF k
<1>3. s.data[k] \in Datums /\ t \in Data  BY <1>1, <1>2, SubTypes, Domains, DatumTypes
<1>4. \A v \in DOMAIN sent : v # <<key, t>> => sent'[v] = sent[v]  BY <1>0 DEF Put, k
<1>5. sent'[<<key, t>>] = now  BY <1>0 DEF Put, k
<1>6. ASSUME <<key, t>> \in DOMAIN sent PROVE now > sent[<<key, t>>] + AckTimeout
  <2>1. s.data[k].last_send = sent[<<key, t>>] /\ s.data[k].last_send # ZeroPoint
    BY <1>2, <1>6 DEF Kept, Remembered
  <2>2. s.data[k].last_send + AckTimeout < now  BY <1>2, <2>1 DEF Sendable
  <2>3. s.data[k].last_send \in Nat  BY <1>3, DatumTypes
  <2> QED BY <1>1, <2>1, <2>2, <2>3
<1>7. key \in DOMAIN served => now > served[key] + sub_[key].cfg.blackout_time
  BY <1>2 DEF Kept, Accessed
<1>8. call'.op = "top" /\ call'.key = key  BY <1>0 DEF Call
<1> HIDE DEF t
<1> QED BY <1>3, <1>4, <1>5, <1>6, <1>7, <1>8

\* top() does not return a value again until more than ack_timeout has passed
\* since it last returned it, whatever calls come in between.
THEOREM NeverResentEarly == Spec => NoResendWithinAckTimeout
<1> DEFINE A == \A v \in DOMAIN sent : v \in DOMAIN sent' /\ sent'[v] # sent[v]
                                          => sent'[v] > sent[v] + AckTimeout
<1>1. Kept /\ [Next]_vars => [A]_vars
  <2> SUFFICES ASSUME Kept, [Next]_vars, ~ UNCHANGED vars PROVE A
    OBVIOUS
  <2>1. CASE \E scope \in Scopes, max_bytes \in ByteLimits : top(scope, max_bytes)
    <3>1. PICK scope \in Scopes, max_bytes \in ByteLimits : top(scope, max_bytes)  BY <2>1
    <3>2. PICK key \in DOMAIN sub_, t \in Data :
             /\ \A v \in DOMAIN sent : v # <<key, t>> => sent'[v] = sent[v]
             /\ sent'[<<key, t>>] = now
             /\ <<key, t>> \in DOMAIN sent => now > sent[<<key, t>>] + AckTimeout
      BY <3>1, TopRespects
    <3> QED BY <3>2
  <2>2. CASE sent' = sent  BY <2>2
  <2> QED BY <2>1, <2>2, OnlyTopSends
<1> QED BY <1>1, AlwaysKept, PTL DEF Spec, NoResendWithinAckTimeout

\* Two messages from one sub-buffer are more than its blackout_time apart,
\* unless update() or replace() came between them.
THEOREM BlackoutRespected == Spec => BlackoutUnlessUpdated
<1> DEFINE A == call'.op = "top" /\ call'.key \in DOMAIN served
                   => now > served[call'.key] + sub_[call'.key].cfg.blackout_time
<1>1. Kept /\ [Next]_vars => [A]_vars
  <2> SUFFICES ASSUME Kept, [Next]_vars, ~ UNCHANGED vars PROVE A
    OBVIOUS
  <2>1. CASE \E scope \in Scopes, max_bytes \in ByteLimits : top(scope, max_bytes)
    <3>1. PICK scope \in Scopes, max_bytes \in ByteLimits : top(scope, max_bytes)  BY <2>1
    <3>2. PICK key \in DOMAIN sub_ :
             /\ call'.key = key
             /\ key \in DOMAIN served => now > served[key] + sub_[key].cfg.blackout_time
      BY <3>1, TopRespects
    <3> QED BY <3>2
  <2>2. CASE call'.op # "top"  BY <2>2
  <2> QED BY <2>1, <2>2, OnlyTopSends
<1> QED BY <1>1, AlwaysKept, PTL DEF Spec, BlackoutUnlessUpdated

-----------------------------------------------------------------------------
(* The contest among sub-buffers of equal configuration. *)

\* The sub-buffers that wait less long than k, and the keys without one.
Behind(k) == {j \in Keys \ {k} : j \in DOMAIN sub_ => sub_[j].last_access > sub_[k].last_access}

\* k has lost no more contests than there are keys behind it, and has been out
\* of its blackout since it first lost.
LostFew(k, c) ==
    /\ sub_[k].cfg = c
    /\ skipped[k] \in Nat
    /\ skipped[k] <= Cardinality(Behind(k))
    /\ skipped[k] > 0 => now > sub_[k].last_access + c.blackout_time

\* The inductive invariant behind BoundedOvertaking.
Contested(c) == Kept /\ \A k \in DOMAIN sub_ : LostFew(k, c)

\* c is the one configuration of all sub-buffers.
OnlyConfig(c) ==
    /\ c \in Configs
    /\ \A cfgs \in ConfigLists : MergeConfigs(cfgs) = c
    /\ c.value_base.num > 0 /\ c.value_base.den > 0 /\ c.ttl.num > 0 /\ c.ttl.den > 0

\* A larger factor makes a larger product.
LEMMA LargerProduct ==
    ASSUME NEW p \in Int, p > 0, NEW x \in Int, NEW y \in Int, x > y
    PROVE  p * x > p * y
<1>1. PICK d \in Nat : d = x - y /\ d > 0  OBVIOUS
<1>2. p * d > 0  BY <1>1
<1>3. p * x = p * y + p * d  BY <1>1
<1>4. PICK py \in Int, pd \in Int : py = p * y /\ pd = p * d  BY <1>1
<1> QED BY <1>2, <1>3, <1>4

\* Of two sub-buffers of one configuration the one that waits longer has the
\* greater value.
LEMMA LongerWaitIsGreater ==
    ASSUME NEW c, OnlyConfig(c), NEW s, NEW u, s.cfg = c, u.cfg = c,
           NEW t \in Int, s.last_access \in Int, u.last_access \in Int,
           s.last_access < u.last_access
    PROVE  Greater(TopValue(s, t), TopValue(u, t))
<1>1. c.value_base \in [num : Int, den : Nat] /\ c.ttl \in [num : Int, den : Nat]
  BY DEF OnlyConfig, Configs
<1>2. PICK vn \in Int, vd \in Int, tn \in Int, td \in Int :
         /\ vn = c.value_base.num /\ vd = c.value_base.den /\ tn = c.ttl.num /\ td = c.ttl.den
         /\ vn > 0 /\ vd > 0 /\ tn > 0 /\ td > 0
  BY <1>1 DEF OnlyConfig
<1>3. PICK x \in Int, y \in Int : x = t - s.last_access /\ y = t - u.last_access /\ x > y
  <2>1. t - s.last_access \in Int /\ t - u.last_access \in Int /\ t - s.last_access > t - u.last_access
    OBVIOUS
  <2> QED BY <2>1
<1>4. /\ TopValue(s, t) = Fraction(vn * x * td, vd * tn)
      /\ TopValue(u, t) = Fraction(vn * y * td, vd * tn)
  BY <1>2, <1>3 DEF TopValue
<1>5. PICK p \in Int : p = vn * td * (vd * tn) /\ p > 0
  <2>1. vn * td > 0 /\ vd * tn > 0  BY <1>2
  <2>2. PICK a \in Int, b \in Int : a = vn * td /\ b = vd * tn  OBVIOUS
  <2>3. a * b > 0 /\ a * b \in Int  BY <2>1, <2>2
  <2> QED BY <2>2, <2>3
<1>6. p * x > p * y  BY <1>3, <1>5, LargerProduct
<1>7. vn * x * td * (vd * tn) = p * x /\ vn * y * td * (vd * tn) = p * y  BY <1>5
<1>8. vn * x * td * (vd * tn) > vn * y * td * (vd * tn)  BY <1>6, <1>7
<1> QED BY <1>4, <1>8 DEF Greater, Fraction

\* The sets of keys behind k are finite, and not as many as there are keys.
LEMMA BehindFinite ==
    ASSUME IsFiniteSet(Keys), NEW k \in Keys, NEW S, S \subseteq Keys \ {k}
    PROVE  IsFiniteSet(S) /\ Cardinality(S) \in Nat /\ Cardinality(S) < Cardinality(Keys)
<1>1. IsFiniteSet(Keys \ {k}) /\ Cardinality(Keys \ {k}) = Cardinality(Keys) - 1
  BY FS_RemoveElement
<1>2. IsFiniteSet(S) /\ Cardinality(S) <= Cardinality(Keys \ {k})  BY <1>1, FS_Subset
<1>3. Cardinality(S) \in Nat /\ Cardinality(Keys) \in Nat  BY <1>2, FS_CardinalityType
<1> QED BY <1>1, <1>2, <1>3

\* A sub-buffer that loses no contest: no key gets in front of it.
LEMMA NotOvertaken ==
    ASSUME IsFiniteSet(Keys), NEW c, c.blackout_time \in Nat, NEW k \in Keys, LostFew(k, c),
           now \in Int, now' \in Int, now' >= now,
           sub_[k].last_access \in Int,
           sub_'[k].cfg = c, sub_'[k].last_access = sub_[k].last_access,
           skipped'[k] = skipped[k],
           skipped[k] > 0 => Behind(k) \subseteq Behind(k)'
    PROVE  LostFew(k, c)'
<1> DEFINE B == Behind(k)
           B2 == Behind(k)'
<1>1. B \subseteq Keys \ {k} /\ B2 \subseteq Keys \ {k}  BY DEF Behind
<1> HIDE DEF B, B2
<1>2. /\ Cardinality(B) \in Nat /\ Cardinality(B2) \in Nat /\ IsFiniteSet(B2)
  BY <1>1, BehindFinite
<1>3. skipped[k] \in Nat /\ skipped[k] <= Cardinality(B)  BY DEF LostFew, B
<1>4. skipped[k] > 0 => Cardinality(B) <= Cardinality(B2)  BY <1>2, FS_Subset DEF B, B2
<1>5. skipped[k] <= Cardinality(B2)  BY <1>2, <1>3, <1>4
<1>6. skipped[k] > 0 => now' > sub_[k].last_access + c.blackout_time  BY DEF LostFew
<1> QED BY <1>3, <1>5, <1>6 DEF LostFew, B2

\* A sub-buffer that loses a contest: the winner was not behind it and now is.
LEMMA Overtaken ==
    ASSUME IsFiniteSet(Keys), NEW c, NEW k \in Keys, LostFew(k, c), NEW j,
           sub_'[k].cfg = c, sub_'[k].last_access = sub_[k].last_access, now' = now,
           skipped'[k] = skipped[k] + 1,
           now > sub_[k].last_access + c.blackout_time,
           j \notin Behind(k), Behind(k) \cup {j} \subseteq Behind(k)'
    PROVE  LostFew(k, c)'
<1> DEFINE B == Behind(k)
           B2 == Behind(k)'
<1>1. B \subseteq Keys \ {k} /\ B2 \subseteq Keys \ {k}  BY DEF Behind
<1>2. j \notin B /\ B \cup {j} \subseteq B2  OBVIOUS
<1>3. skipped[k] \in Nat /\ skipped[k] <= Cardinality(B)  BY DEF LostFew
<1> HIDE DEF B, B2
<1>4. Cardinality(B) \in Nat /\ Cardinality(B2) \in Nat /\ IsFiniteSet(B2) /\ IsFiniteSet(B)
  BY <1>1, BehindFinite
<1>5. Cardinality(B \cup {j}) = Cardinality(B) + 1  BY <1>2, <1>4, FS_AddElement
<1>6. Cardinality(B \cup {j}) <= Cardinality(B2)  BY <1>2, <1>4, FS_Subset
<1>7. skipped[k] + 1 \in Nat /\ skipped[k] + 1 <= Cardinality(B2)  BY <1>3, <1>4, <1>5, <1>6
<1> QED BY <1>7 DEF LostFew, B2

\* A sub-buffer that starts to count anew.
LEMMA NoneLost ==
    ASSUME IsFiniteSet(Keys), NEW c, NEW k \in Keys, sub_'[k].cfg = c, skipped'[k] = 0
    PROVE  LostFew(k, c)'
<1> DEFINE B2 == Behind(k)'
<1>1. B2 \subseteq Keys \ {k}  BY DEF Behind
<1> HIDE DEF B2
<1>2. Cardinality(B2) \in Nat  BY <1>1, BehindFinite
<1>3. 0 \in Nat /\ 0 <= Cardinality(B2) /\ ~ (0 > 0)  BY <1>2
<1> QED BY <1>3 DEF LostFew, B2

\* A call that changes no last access, or only the clock.
LEMMA QuietContest ==
    ASSUME IsFiniteSet(Keys), NEW c, OnlyConfig(c), Contested(c), Kept',
           DOMAIN sub_' = DOMAIN sub_, skipped' = skipped, now' >= now,
           \A k \in DOMAIN sub_ : /\ sub_'[k].cfg = c
                                  /\ sub_'[k].last_access = sub_[k].last_access
    PROVE  Contested(c)'
<1>1. c.blackout_time \in Nat  BY ConfigTypes DEF OnlyConfig
<1>2. ASSUME NEW k \in DOMAIN sub_' PROVE LostFew(k, c)'
  <2>1. k \in Keys /\ k \in DOMAIN sub_ /\ LostFew(k, c)  BY DEF Contested, Kept, Typed
  <2>2. sub_[k].last_access \in Int  BY <2>1, SubTypes DEF Contested, Kept, Typed
  <2>3. now \in Int /\ now' \in Int  BY DEF Contested, Kept, Typed
  <2>4. Behind(k) \subseteq Behind(k)'  BY <2>1 DEF Behind
  <2> QED BY <1>1, <2>1, <2>2, <2>3, <2>4, NotOvertaken
<1> QED BY <1>2 DEF Contested

\* A sub-buffer that starts afresh gets behind all that have lost a contest.
LEMMA FreshContest ==
    ASSUME IsFiniteSet(Keys), NEW c, OnlyConfig(c), Contested(c), Kept',
           NEW key \in Keys, NEW cfgs \in ConfigLists,
           sub_' = Put(sub_, key, NewSub(cfgs, now)),
           skipped' = Put(skipped, key, 0), now' = now
    PROVE  Contested(c)'
<1>1. c.blackout_time \in Nat /\ now \in Nat  BY ConfigTypes DEF OnlyConfig, Contested, Kept, Typed
<1>2. PICK X : /\ X = NewSub(cfgs, now) /\ X.cfg = c
               /\ X.last_access = now - c.blackout_time
  <2> DEFINE s == [cfg |-> DefaultConfig, data |-> <<>>, last_access |-> now]
             X == [s EXCEPT !.cfg = c, !.last_access = s.last_access - c.blackout_time]
  <2>1. MergeConfigs(cfgs) = c  BY DEF OnlyConfig
  <2>2. NewSub(cfgs, now) = X  BY <2>1 DEF NewSub, UpdateSub
  <2>3. X.cfg = c /\ X.last_access = now - c.blackout_time  OBVIOUS
  <2> QED BY <2>2, <2>3
<1>3. /\ DOMAIN sub_' = DOMAIN sub_ \cup {key} /\ sub_'[key] = X
      /\ \A k \in DOMAIN sub_ : k # key => sub_'[k] = sub_[k]
      /\ DOMAIN skipped = DOMAIN sub_ /\ skipped'[key] = 0
      /\ \A k \in DOMAIN sub_ : k # key => skipped'[k] = skipped[k]
  <2>1. DOMAIN skipped = DOMAIN sub_  BY DEF Contested, Kept, Typed
  <2> QED BY <1>2, <2>1 DEF Put
<1>4. ASSUME NEW k \in DOMAIN sub_' PROVE LostFew(k, c)'
  <2>1. CASE k = key  BY <1>2, <1>3, <2>1, NoneLost
  <2>2. CASE k # key
    <3>1. k \in Keys /\ k \in DOMAIN sub_ /\ LostFew(k, c) /\ sub_'[k] = sub_[k] /\ skipped'[k] = skipped[k]
      BY <1>3, <2>2 DEF Contested, Kept, Typed
    <3>2. sub_[k].last_access \in Int /\ sub_[k].cfg = c
      BY <3>1, SubTypes DEF Contested, Kept, Typed, LostFew
    <3>3. ASSUME skipped[k] > 0 PROVE Behind(k) \subseteq Behind(k)'
      <4> SUFFICES ASSUME NEW j \in Behind(k) PROVE j \in Behind(k)'
        OBVIOUS
      <4>1. j \in Keys \ {k} /\ (j \in DOMAIN sub_ => sub_[j].last_access > sub_[k].last_access)
        BY DEF Behind
      <4>2. CASE j = key
        <5>1. now > sub_[k].last_access + c.blackout_time  BY <3>1, <3>3 DEF LostFew
        <5>2. now - c.blackout_time > sub_[k].last_access  BY <1>1, <3>2, <5>1
        <5> QED BY <1>2, <1>3, <3>1, <4>1, <4>2, <5>2 DEF Behind
      <4>3. CASE j # key
        <5>1. j \in DOMAIN sub_' => j \in DOMAIN sub_ /\ sub_'[j] = sub_[j]  BY <1>3, <4>3
        <5> QED BY <3>1, <4>1, <5>1 DEF Behind
      <4> QED BY <4>2, <4>3
    <3> QED BY <1>1, <3>1, <3>2, <3>3, NotOvertaken
  <2> QED BY <2>1, <2>2
<1> QED BY <1>4 DEF Contested

\* remove(): one sub-buffer less to lose to.
LEMMA RemoveContest ==
    ASSUME IsFiniteSet(Keys), NEW c, OnlyConfig(c), Contested(c), Kept', NEW key \in Keys, remove(key)
    PROVE  Contested(c)'
<1>1. c.blackout_time \in Nat /\ now \in Int /\ now' = now  BY ConfigTypes DEF OnlyConfig, Contested, Kept, Typed, remove
<1>2. /\ DOMAIN sub_' = DOMAIN sub_ \ {key}
      /\ \A k \in DOMAIN sub_' : sub_'[k] = sub_[k] /\ skipped'[k] = skipped[k]
  BY DEF remove, Without, Contested, Kept, Typed
<1>3. ASSUME NEW k \in DOMAIN sub_' PROVE LostFew(k, c)'
  <2>1. k \in Keys /\ k \in DOMAIN sub_ /\ LostFew(k, c) /\ sub_'[k] = sub_[k] /\ skipped'[k] = skipped[k]
    BY <1>2 DEF Contested, Kept, Typed
  <2>2. sub_[k].last_access \in Int /\ sub_[k].cfg = c
    BY <2>1, SubTypes DEF Contested, Kept, Typed, LostFew
  <2>3. Behind(k) \subseteq Behind(k)'  BY <1>2, <2>1 DEF Behind
  <2> QED BY <1>1, <2>1, <2>2, <2>3, NotOvertaken
<1> QED BY <1>3 DEF Contested

\* top() puts the winner, which waited longest, behind all that have lost.
LEMMA TopContest ==
    ASSUME IsFiniteSet(Keys), NEW c, OnlyConfig(c), Contested(c), Kept',
           NEW scope, NEW max_bytes, top(scope, max_bytes)
    PROVE  Contested(c)'
<1> DEFINE in == Contestants(sub_, scope, now, max_bytes, AckTimeout)
<1>1. PICK key \in in :
         /\ \A j \in in : ~ Greater(TopValue(sub_[j], now), TopValue(sub_[key], now))
         /\ sub_' = [sub_ EXCEPT ![key] = TopSub(sub_[key], now, AckTimeout)]
         /\ skipped' = [k \in DOMAIN skipped |-> IF k = key THEN 0
                                                 ELSE IF k \in in THEN skipped[k] + 1 ELSE skipped[k]]
         /\ now' = now
  BY DEF top, Winners
<1>2. \A k \in in : k \in DOMAIN sub_ /\ ValueResult(sub_[k], now, max_bytes, AckTimeout) = "VALUE_PROVIDED"
  BY DEF Contestants
<1> HIDE DEF in
<1>3. c.blackout_time \in Nat /\ now \in Nat /\ AckTimeout \in Nat /\ DOMAIN skipped = DOMAIN sub_
      /\ DOMAIN sub_ \subseteq Keys
  BY ConfigTypes, DynamicBufferAssumption DEF OnlyConfig, Contested, Kept, Typed
<1>4. \A k \in DOMAIN sub_ : /\ sub_[k] \in Subs(Configs) /\ sub_[k].last_access \in Int
                             /\ sub_[k].cfg = c /\ LostFew(k, c)
  BY SubTypes DEF Contested, Kept, Typed, LostFew
<1>5. ASSUME NEW k \in in PROVE now > sub_[k].last_access + c.blackout_time
  <2>1. sub_[k] \in Subs(Configs) /\ sub_[k].cfg = c /\ sub_[k].last_access \in Int  BY <1>2, <1>4
  <2>2. ~ in_blackout(sub_[k], now)  BY <1>2, <1>3, <2>1, TopSubEffect
  <2> QED BY <1>3, <2>1, <2>2 DEF in_blackout
<1> DEFINE X == TopSub(sub_[key], now, AckTimeout)
<1>6. X.cfg = c /\ X.last_access = now  BY <1>2, <1>3, <1>4, TopSubEffect
<1>7. DOMAIN sub_' = DOMAIN sub_ /\ sub_'[key] = X /\ \A k \in DOMAIN sub_ : k # key => sub_'[k] = sub_[k]
  <2> HIDE DEF X
  <2>1. sub_' = [sub_ EXCEPT ![key] = X]  BY <1>1 DEF X
  <2> QED BY <1>2, <2>1
<1> HIDE DEF X
<1>8. ASSUME NEW k \in DOMAIN sub_, k # key, now > sub_[k].last_access + c.blackout_time
      PROVE  Behind(k) \cup {key} \subseteq Behind(k)'
  <2> SUFFICES ASSUME NEW j \in Behind(k) \cup {key} PROVE j \in Behind(k)'
    OBVIOUS
  <2>1. sub_'[k].last_access = sub_[k].last_access  BY <1>7, <1>8
  <2>2. CASE j = key
    <3>1. now > sub_[k].last_access  BY <1>3, <1>4, <1>8
    <3>2. sub_'[j].last_access = now /\ j \in Keys \ {k}  BY <1>2, <1>3, <1>6, <1>7, <1>8, <2>2
    <3> QED BY <2>1, <3>1, <3>2 DEF Behind
  <2>3. CASE j # key
    <3>1. j \in Keys \ {k} /\ (j \in DOMAIN sub_ => sub_[j].last_access > sub_[k].last_access)
      BY <2>3 DEF Behind
    <3> QED BY <1>7, <2>1, <2>3, <3>1 DEF Behind
  <2> QED BY <2>2, <2>3
<1>9. ASSUME NEW k \in DOMAIN sub_' PROVE LostFew(k, c)'
  <2>0. k \in DOMAIN sub_ /\ k \in Keys /\ LostFew(k, c)  BY <1>3, <1>4, <1>7
  <2>1. CASE k = key
    <3>1. skipped'[k] = 0 /\ sub_'[k].cfg = c  BY <1>1, <1>3, <1>6, <1>7, <2>0, <2>1
    <3> QED BY <2>0, <3>1, NoneLost
  <2>2. CASE k # key /\ k \in in
    <3>1. skipped'[k] = skipped[k] + 1 /\ sub_'[k] = sub_[k] /\ sub_[k].cfg = c
      BY <1>1, <1>3, <1>4, <1>7, <2>0, <2>2
    <3>2. now > sub_[k].last_access + c.blackout_time  BY <1>5, <2>2
    <3>3. key \notin Behind(k)
      <4>1. key \in DOMAIN sub_  BY <1>2
      <4>2. ~ Greater(TopValue(sub_[k], now), TopValue(sub_[key], now))  BY <1>1, <2>2
      <4>3. ~ (sub_[k].last_access < sub_[key].last_access)
        BY <1>3, <1>4, <2>0, <4>1, <4>2, LongerWaitIsGreater
      <4>4. ~ (sub_[key].last_access > sub_[k].last_access)  BY <1>4, <2>0, <4>1, <4>3
      <4> QED BY <4>1, <4>4 DEF Behind
    <3>4. Behind(k) \cup {key} \subseteq Behind(k)'  BY <1>8, <2>0, <2>2, <3>2
    <3> QED BY <1>1, <2>0, <3>1, <3>2, <3>3, <3>4, Overtaken
  <2>3. CASE k # key /\ k \notin in
    <3>1. skipped'[k] = skipped[k] /\ sub_'[k] = sub_[k] /\ sub_[k].cfg = c /\ sub_[k].last_access \in Int
      BY <1>1, <1>3, <1>4, <1>7, <2>0, <2>3
    <3>2. skipped[k] > 0 => Behind(k) \subseteq Behind(k)'  BY <1>8, <2>0, <2>3 DEF LostFew
    <3>3. now \in Int /\ now' \in Int /\ now' >= now  BY <1>1, <1>3
    <3> QED BY <1>3, <2>0, <3>1, <3>2, <3>3, NotOvertaken
  <2> QED BY <2>1, <2>2, <2>3
<1> QED BY <1>9 DEF Contested

\* update() of a configuration without blackout leaves the last access.
LEMMA UpdateKeepsAccess ==
    ASSUME NEW c, OnlyConfig(c), c.blackout_time = 0, Kept, NEW key \in Keys, NEW cfgs \in ConfigLists,
           update(key, cfgs)
    PROVE  sub_'[key].last_access = sub_[key].last_access
<1>1. key \in DOMAIN sub_ /\ sub_[key] \in Subs(Configs) /\ sub_[key].last_access \in Int
  BY SubTypes DEF update, Kept, Typed
<1>2. MergeConfigs(cfgs) = c  BY DEF OnlyConfig
<1> DEFINE s == sub_[key]
           X == [s EXCEPT !.cfg = c, !.last_access = s.last_access - c.blackout_time]
<1>3. UpdateSub(s, cfgs) = X  BY <1>2 DEF UpdateSub
<1>4. X.last_access = s.last_access
  <2>1. X.last_access = s.last_access - c.blackout_time  BY <1>1 DEF Subs
  <2> HIDE DEF X
  <2> QED BY <1>1, <2>1
<1> HIDE DEF X
<1>5. sub_' = [sub_ EXCEPT ![key] = X]  BY <1>3 DEF update
<1> QED BY <1>1, <1>4, <1>5

\* The calls other than top() keep the invariant, if update() leaves the last
\* access as it is.
LEMMA CallsContest ==
    ASSUME IsFiniteSet(Keys), NEW c, OnlyConfig(c), Contested(c), Kept', [Next]_vars,
           [UpdateInPlace]_vars,
           \A scope \in Scopes, max_bytes \in ByteLimits : ~ top(scope, max_bytes)
    PROVE  Contested(c)'
<1>1. Kept /\ now \in Nat /\ now > 0 /\ \A k \in DOMAIN sub_ : sub_[k] \in Subs(Configs) /\ sub_[k].cfg = c
  BY DEF Contested, Kept, Typed, LostFew
<1>2. ASSUME NEW key \in Keys, NEW cfgs \in ConfigLists, create(key, cfgs) \/ replace(key, cfgs)
      PROVE  Contested(c)'
  <2>1. /\ sub_' = Put(sub_, key, NewSub(cfgs, now)) /\ skipped' = Put(skipped, key, 0) /\ now' = now
    BY <1>2 DEF create, replace
  <2> QED BY <2>1, FreshContest
<1>3. ASSUME NEW key \in Keys, NEW cfgs \in ConfigLists, update(key, cfgs) PROVE Contested(c)'
  <2> DEFINE X == UpdateSub(sub_[key], cfgs)
  <2>1. key \in DOMAIN sub_ /\ sub_' = [sub_ EXCEPT ![key] = X] /\ call' = Call("update", key)
        /\ now' = now /\ skipped' = skipped
    BY <1>3 DEF update
  <2>2. X.cfg = c
    <3>1. MergeConfigs(cfgs) = c /\ c \in Configs /\ c.blackout_time \in Nat
      BY ConfigTypes DEF OnlyConfig
    <3> QED BY <1>1, <2>1, <3>1, UpdateSubEffect
  <2> HIDE DEF X
  <2>3. DOMAIN sub_' = DOMAIN sub_ /\ sub_'[key] = X /\ \A k \in DOMAIN sub_ : k # key => sub_'[k] = sub_[k]
    BY <2>1
  <2>4. sub_'[key].last_access = sub_[key].last_access
    <3>1. CASE UpdateInPlace  BY <2>1, <3>1 DEF UpdateInPlace, Call
    <3>2. CASE UNCHANGED vars  BY <3>2 DEF vars
    <3> QED BY <3>1, <3>2
  <2>5. \A k \in DOMAIN sub_ : sub_'[k].cfg = c /\ sub_'[k].last_access = sub_[k].last_access
    BY <1>1, <2>2, <2>3, <2>4
  <2>6. now' >= now  BY <1>1, <2>1
  <2> QED BY <2>1, <2>3, <2>5, <2>6, QuietContest
<1>4. ASSUME NEW key \in Keys, remove(key) PROVE Contested(c)'  BY <1>4, RemoveContest
<1>5. ASSUME NEW key \in Keys, NEW t \in Data, push(key, t) PROVE Contested(c)'
  <2> DEFINE X == PushSub(sub_[key], t, now)
             q == IF Len(Pushed(sub_[key], t, now)) > sub_[key].cfg.max_queue
                  THEN SubSeq(Pushed(sub_[key], t, now), 1, sub_[key].cfg.max_queue)
                  ELSE Pushed(sub_[key], t, now)
  <2>1. key \in DOMAIN sub_ /\ sub_' = [sub_ EXCEPT ![key] = X] /\ now' = now /\ skipped' = skipped
    BY <1>5 DEF push
  <2>2. X.cfg = sub_[key].cfg /\ X.last_access = sub_[key].last_access
    <3>1. X = [sub_[key] EXCEPT !.data = q]  BY DEF PushSub
    <3> HIDE DEF q, X
    <3> QED BY <1>1, <2>1, <3>1 DEF Subs
  <2> HIDE DEF X
  <2>3. DOMAIN sub_' = DOMAIN sub_ /\ sub_'[key] = X /\ \A k \in DOMAIN sub_ : k # key => sub_'[k] = sub_[k]
    BY <2>1
  <2>4. \A k \in DOMAIN sub_ : sub_'[k].cfg = c /\ sub_'[k].last_access = sub_[k].last_access
    BY <1>1, <2>1, <2>2, <2>3
  <2>5. now' >= now  BY <1>1, <2>1
  <2> QED BY <2>1, <2>3, <2>4, <2>5, QuietContest
<1>6. ASSUME NEW key \in DOMAIN sub_, NEW i \in DOMAIN sub_[key].data, erase(key, sub_[key].data[i])
      PROVE  Contested(c)'
  <2> DEFINE X == EraseSub(sub_[key], sub_[key].data[i])
  <2>1. sub_' = [sub_ EXCEPT ![key] = X] /\ now' = now /\ skipped' = skipped
        /\ EraseHits(sub_[key], sub_[key].data[i]) # {}
    BY <1>6 DEF erase
  <2>2. X.cfg = sub_[key].cfg /\ X.last_access = sub_[key].last_access
    BY <1>1, <2>1, EraseSubEffect DEF Kept, Clean
  <2> HIDE DEF X
  <2>3. DOMAIN sub_' = DOMAIN sub_ /\ sub_'[key] = X /\ \A k \in DOMAIN sub_ : k # key => sub_'[k] = sub_[k]
    BY <2>1
  <2>4. \A k \in DOMAIN sub_ : sub_'[k].cfg = c /\ sub_'[k].last_access = sub_[k].last_access
    BY <1>1, <2>2, <2>3
  <2>5. now' >= now  BY <1>1, <2>1
  <2> QED BY <2>1, <2>3, <2>4, <2>5, QuietContest
<1>7. CASE expire
  <2>1. sub_' = [key \in DOMAIN sub_ |-> ExpireSub(sub_[key], now)] /\ now' = now /\ skipped' = skipped
    BY <1>7 DEF expire
  <2>2. ASSUME NEW k \in DOMAIN sub_
        PROVE  sub_'[k].cfg = c /\ sub_'[k].last_access = sub_[k].last_access
    <3>1. sub_'[k] = ExpireSub(sub_[k], now)  BY <2>1
    <3>2. Once(sub_[k].data)  BY <1>1 DEF Kept, Clean
    <3> QED BY <1>1, <3>1, <3>2, ExpireSubEffect
  <2>3. DOMAIN sub_' = DOMAIN sub_ /\ now' >= now  BY <1>1, <2>1
  <2> QED BY <2>1, <2>2, <2>3, QuietContest
<1>8. CASE Tick
  <2>1. sub_' = sub_ /\ skipped' = skipped /\ now' >= now  BY <1>1, <1>8 DEF Tick
  <2> QED BY <1>1, <2>1, QuietContest
<1>9. CASE UNCHANGED vars
  <2>1. sub_' = sub_ /\ skipped' = skipped /\ now' >= now  BY <1>1, <1>9 DEF vars
  <2> QED BY <1>1, <2>1, QuietContest
<1> QED BY <1>2, <1>3, <1>4, <1>5, <1>6, <1>7, <1>8, <1>9 DEF Next

\* All the calls.
LEMMA NextContested ==
    ASSUME IsFiniteSet(Keys), NEW c, OnlyConfig(c), Contested(c), [Next]_vars, [UpdateInPlace]_vars
    PROVE  Contested(c)'
<1>1. Kept'  BY NextKept DEF Contested
<1>2. CASE \E scope \in Scopes, max_bytes \in ByteLimits : top(scope, max_bytes)
  BY <1>1, <1>2, TopContest
<1> QED BY <1>1, <1>2, CallsContest

\* Of sub-buffers of equal configuration none that could send loses more
\* contests in a row than there are others, for any number of them and any calls,
\* as long as update() leaves last_access_ as it is: the winner of top() has waited
\* longest and gets behind all it has beaten.
THEOREM OvertakingIsBounded ==
    IsFiniteSet(Keys) /\ EqualConfigs => (Spec /\ [][UpdateInPlace]_vars => []BoundedOvertaking)
<1> SUFFICES ASSUME IsFiniteSet(Keys), EqualConfigs
             PROVE  Spec /\ [][UpdateInPlace]_vars => []BoundedOvertaking
  OBVIOUS
<1>1. PICK c \in Configs : OnlyConfig(c)  BY DEF EqualConfigs, OnlyConfig
<1>2. Init => Contested(c)
  <2>1. Init => DOMAIN sub_ = {}  BY DEF Init
  <2> QED BY <2>1, InitKept DEF Contested
<1>3. Contested(c) /\ [Next]_vars /\ [UpdateInPlace]_vars => Contested(c)'  BY <1>1, NextContested
<1>4. Contested(c) => BoundedOvertaking
  <2> SUFFICES ASSUME Contested(c), NEW k \in DOMAIN sub_
               PROVE  skipped[k] < Cardinality(Keys)
    BY DEF BoundedOvertaking
  <2>1. k \in Keys /\ skipped[k] \in Nat /\ skipped[k] <= Cardinality(Behind(k))
    BY DEF Contested, Kept, Typed, LostFew
  <2>2. Behind(k) \subseteq Keys \ {k}  BY DEF Behind
  <2>3. Cardinality(Behind(k)) \in Nat /\ Cardinality(Behind(k)) < Cardinality(Keys)
    BY <2>1, <2>2, BehindFinite
  <2>4. Cardinality(Keys) \in Nat  BY FS_CardinalityType
  <2> QED BY <2>1, <2>3, <2>4
<1> QED BY <1>2, <1>3, <1>4, PTL DEF Spec

\* Without blackout, update() leaves last_access_ as it is: no sequence of calls
\* lets a sub-buffer be overtaken more often.
THEOREM OvertakingIsBoundedWithoutBlackout ==
    IsFiniteSet(Keys) /\ EqualConfigs
        /\ (\A cfgs \in ConfigLists : MergeConfigs(cfgs).blackout_time = 0)
        => (Spec => []BoundedOvertaking)
<1> SUFFICES ASSUME IsFiniteSet(Keys), EqualConfigs,
                    \A cfgs \in ConfigLists : MergeConfigs(cfgs).blackout_time = 0
             PROVE  Spec => []BoundedOvertaking
  OBVIOUS
<1>1. Kept /\ [Next]_vars => [UpdateInPlace]_vars
  <2> SUFFICES ASSUME Kept, Next, call'.op = "update"
               PROVE  sub_'[call'.key].last_access = sub_[call'.key].last_access
    BY DEF UpdateInPlace
  <2>1. PICK key \in Keys, cfgs \in ConfigLists : update(key, cfgs)
    <3>1. \A key, cfgs : create(key, cfgs) \/ replace(key, cfgs) => call'.op # "update"
      BY DEF create, replace, Call
    <3>2. \A key, t : remove(key) \/ push(key, t) => call'.op # "update"
      BY DEF remove, push, Call
    <3>3. \A scope, max_bytes : top(scope, max_bytes) => call'.op # "update"  BY DEF top, Call
    <3>4. \A key, value : erase(key, value) => call'.op # "update"  BY DEF erase, Call
    <3>5. expire \/ Tick => call'.op # "update"  BY DEF expire, Tick, Call
    <3> QED BY <3>1, <3>2, <3>3, <3>4, <3>5 DEF Next
  <2>2. call'.key = key  BY <2>1 DEF update, Call
  <2>3. PICK c \in Configs : OnlyConfig(c)  BY DEF EqualConfigs, OnlyConfig
  <2>4. c.blackout_time = 0  BY <2>3 DEF OnlyConfig
  <2> QED BY <2>1, <2>2, <2>3, <2>4, UpdateKeepsAccess
<1> QED BY <1>1, AlwaysKept, OvertakingIsBounded, PTL DEF Spec
=============================================================================

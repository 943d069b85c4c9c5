------------------------- MODULE InterThread_proofs -------------------------
(***************************************************************************)
(* For any number of threads, channels and stores, and any bounds:         *)
(* InterThread keeps its type, runs no callback and no publish() with      *)
(* poll_mutex held, loses no wake-up and, if no thread subscribes twice to *)
(* the same channel, implements the abstract mailboxes.                    *)
(***************************************************************************)
EXTENDS InterThread, SequenceTheorems, TLAPS

-----------------------------------------------------------------------------
(***************************************************************************)
(* The inductive invariant.                                                *)
(***************************************************************************)
InPublish(p) == pc[p] \in {"insert", "notify", "signal"}

InCallback(t) ==
    pc[t] \in {"batch", "callback"} \/ (InPublish(t) /\ publishing[t].return = "callback")

\* A datum being inserted has a number within the bound.
Numbered ==
    \A p \in Threads : /\ published[p] <= MaxPublications[p]
                       /\ pc[p] = "insert" => published[p] > 0

\* poll_mutex is held in the rounds that have found nothing yet, and only there.
Locks ==
    \A t \in Threads :
        /\ poll_mutex[t] => pc[t] = "poll" /\ ~ polled[t].found
        /\ pc[t] = "poll" /\ ~ polled[t].found => poll_mutex[t]
        /\ InCallback(t) => polled[t].found

\* What is queued, or is about to be, is subscribed to; a thread that ends has
\* still to visit the stores of its subscriptions.
Queues ==
    /\ \A p, t \in Threads : pc[p] = "insert" /\ publishing[p].to[t] > 0
            => subscriptions[publishing[p].chan][t] > 0
    /\ \A t \in Threads, c \in Channels :
            /\ data_[t][c] # <<>> => subscriptions[c][t] > 0
            /\ pc[t] = "exit" /\ subscriptions[c][t] > 0 => StoreOf[c] \in leaving[t]

\* p has still to take the poll_mutex of t before it notifies it.
WillLock(p, t) ==
    /\ WillNotify(p, t)
    /\ ~ (pc[p] = "signal" /\ publishing[p].target = t)

\* What arrives in a store that a fruitless round has already polled comes with
\* a notification that cannot happen before the round ends.
Limbo ==
    \A t \in Threads, c \in Channels :
        /\ pc[t] = "poll" /\ ~ polled[t].found
        /\ StoreOf[c] \notin polled[t].left
        /\ data_[t][c] # <<>>
        => \E p \in Threads : WillLock(p, t)

Safe == TypeOK /\ Numbered /\ Locks /\ Queues /\ Limbo /\ NoLostWakeup

-----------------------------------------------------------------------------
USE InterThreadAssumption

\* A position counted round and round a sequence of length L is one of its own.
LEMMA RoundPosition ==
    ASSUME NEW j \in Nat, NEW L \in Nat, L # 0
    PROVE  (j % L) + 1 \in 1..L
<1>1. (j % L) \in 0..(L - 1)
  BY Z3
<1> QED BY <1>1

\* What poll() collects from a queue is a sequence of the queue's data.
LEMMA CollectedType ==
    ASSUME TypeOK, NEW t \in Threads, NEW c \in Channels
    PROVE  Collected(t, c) \in Seq(Data)
<1>1. PICK q \in Seq(Data), k \in Nat : q = data_[t][c] /\ k = subscriptions[c][t]
  BY DEF TypeOK
<1>2. PICK L \in Nat : L = Len(q)
  OBVIOUS
<1>3. PICK n \in Nat : n = k * L
  OBVIOUS
<1>4. ASSUME NEW i \in 1..n PROVE q[((i - 1) % L) + 1] \in Data
  <2>1. L # 0
    BY <1>3, <1>4
  <2>2. ((i - 1) % L) + 1 \in 1..L
    BY <2>1, RoundPosition
  <2> QED BY <2>2, <1>2
<1>5. Collected(t, c) = [i \in 1..n |-> q[((i - 1) % L) + 1]]
  BY <1>1, <1>2, <1>3 DEF Collected
<1> QED BY <1>4, <1>5

\* A step of thread t.
Step(t) == Choose(t) \/ Continue(t) \/ SpuriousWake(t) \/ Timeout(t)

\* The types of the variables that more than one action changes.
SubscriptionsType == [Channels -> [Threads -> Nat]]
QueuesType == [Threads -> [Channels -> Seq(Data)]]
CallType == [chan : Channels, to : [Threads -> Nat], notify : SUBSET Threads,
             target : Threads, return : {"user", "callback"}]
CallsType == [Threads -> CallType]

\* A function keeps its type when one of its values is replaced by another.
LEMMA Update ==
    ASSUME NEW S, NEW V, NEW f \in [S -> V], NEW x \in S, NEW v \in V
    PROVE  [f EXCEPT ![x] = v] \in [S -> V]
  OBVIOUS

\* So do the three changes of a publish() call's record.
LEMMA CallUpdate ==
    ASSUME NEW k \in CallType, NEW to \in [Threads -> Nat],
           NEW notify \in SUBSET Threads, NEW u \in Threads
    PROVE  /\ [k EXCEPT !.to = to, !.notify = notify] \in CallType
           /\ [k EXCEPT !.notify = notify] \in CallType
           /\ [k EXCEPT !.target = u] \in CallType
  BY DEF CallType

\* The record of a round.
RoundType == [left : SUBSET Stores, found : BOOLEAN]

\* A round keeps its type when a store is polled.
LEMMA RoundUpdate ==
    ASSUME NEW k \in RoundType, NEW left \in SUBSET Stores, NEW found \in BOOLEAN
    PROVE  [k EXCEPT !.left = left, !.found = found] \in RoundType
  BY DEF RoundType

\* Every step of a thread preserves the type invariant.
LEMMA TypeStep ==
    ASSUME TypeOK, Numbered, Queues,
           NEW t \in Threads, Step(t)
    PROVE  TypeOK'
<1> USE DEF subVars, pubVars, pollVars
<1>1. ASSUME NEW c \in Channels, subscribe(t, c) PROVE TypeOK'
  <2>1. subscriptions' \in SubscriptionsType
    BY <1>1, SMTT(30) DEF subscribe, TypeOK, SubscriptionsType
  <2>2. stores_' \in [Threads -> SUBSET Stores] /\ subscribed' \in [Threads -> Nat]
    BY <1>1, SMTT(30) DEF subscribe, TypeOK
  <2>3. ASSUME NEW u \in Threads, NEW d \in Channels, subscriptions'[d][u] > 0
        PROVE  StoreOf[d] \in stores_'[u]
    <3>1. CASE d = c /\ u = t
      BY <1>1, <3>1 DEF subscribe, TypeOK
    <3>2. CASE ~ (d = c /\ u = t)
      <4>1. subscriptions[d][u] = subscriptions'[d][u]
        BY <1>1, <3>2 DEF subscribe, TypeOK
      <4> QED BY <1>1, <2>3, <4>1 DEF subscribe, TypeOK
    <3> QED BY <3>1, <3>2
  <2> QED BY <1>1, <2>1, <2>2, <2>3 DEF subscribe, TypeOK, SubscriptionsType
<1>2. ASSUME NEW C \in SUBSET Channels, RemoveChannels(t, C),
             leaving' \in [Threads -> SUBSET Stores], UNCHANGED pc
      PROVE  TypeOK'
  <2>1. subscriptions' \in SubscriptionsType
    BY <1>2 DEF RemoveChannels, TypeOK, SubscriptionsType
  <2>2. data_' \in QueuesType
    BY <1>2, SMTT(30) DEF RemoveChannels, TypeOK, QueuesType
  <2>3. ASSUME NEW u \in Threads, NEW d \in Channels
        PROVE  subscriptions'[d][u] > 0 => StoreOf[d] \in stores_'[u]
    BY <1>2 DEF RemoveChannels, TypeOK
  <2> QED BY <1>2, <2>1, <2>2, <2>3 DEF RemoveChannels, TypeOK, SubscriptionsType, QueuesType
<1>3. ASSUME NEW c \in Channels, unsubscribe(t, c) PROVE TypeOK'
  BY <1>3, <1>2 DEF unsubscribe, TypeOK
<1>4. ASSUME NEW s \in Stores, unsubscribe_all_groups(t, s) PROVE TypeOK'
  BY <1>4, <1>2 DEF unsubscribe_all_groups, TypeOK
<1>5. ASSUME unsubscribe_all(t) PROVE TypeOK'
  BY <1>5 DEF unsubscribe_all, TypeOK, Locations
<1>6. ASSUME remove(t) PROVE TypeOK'
  <2>1. ASSUME NEW d \in Channels PROVE ~ (subscriptions[d][t] > 0)
    BY <1>6 DEF remove, Queues
  <2> QED BY <1>6, <2>1 DEF remove, TypeOK, Locations
<1>7. ASSUME NEW c \in Channels, NEW echo \in BOOLEAN, publish(t, c, echo) PROVE TypeOK'
  <2>1. publishing' \in CallsType
    <3> DEFINE to == [u \in Threads |-> IF u # t \/ echo THEN subscriptions[c][u] ELSE 0]
    <3>1. to \in [Threads -> Nat]
      BY DEF TypeOK
    <3>2. pc[t] \in {"user", "callback"}
      BY <1>7 DEF publish, InUserCode
    <3> HIDE DEF to
    <3>3. Publication(t, c, to, pc[t]) \in CallType
      BY <3>1, <3>2 DEF Publication, CallType
    <3>4. publishing' = [publishing EXCEPT ![t] = Publication(t, c, to, pc[t])]
      BY <1>7 DEF publish, to
    <3> QED BY <3>3, <3>4, Update DEF TypeOK, CallsType, CallType
  <2>2. published' \in [Threads -> Nat] /\ pc' \in [Threads -> Locations]
    BY <1>7 DEF publish, TypeOK, Locations
  <2> QED BY <1>7, <2>1, <2>2 DEF publish, TypeOK, CallsType, CallType
<1>8. ASSUME NEW u \in Threads, Insert(t, u) PROVE TypeOK'
  <2> DEFINE c == publishing[t].chan
  <2>1. c \in Channels
    BY DEF TypeOK
  <2>2. publishing' \in CallsType
    <3> DEFINE to == [publishing[t].to EXCEPT ![u] = @ - 1]
               notify == publishing[t].notify \cup {u}
               r == [publishing[t] EXCEPT !.to = to, !.notify = notify]
    <3>1. publishing[t] \in CallType /\ notify \in SUBSET Threads
      BY DEF TypeOK, CallType
    <3>4. to \in [Threads -> Nat]
      <4>1. publishing[t].to \in [Threads -> Nat] /\ publishing[t].to[u] > 0
        BY <1>8, <3>1 DEF Insert, CallType
      <4> QED BY <4>1
    <3>2. publishing' = [publishing EXCEPT ![t] = r]
      BY <1>8 DEF Insert, TypeOK
    <3>3. r \in CallType
      BY <3>1, <3>4, CallUpdate
    <3> HIDE DEF r
    <3> QED BY <3>2, <3>3, Update DEF TypeOK, CallsType, CallType
  <2>3. [src |-> t, num |-> published[t]] \in Data
    BY <1>8 DEF Insert, TypeOK, Numbered, Data, Numbers
  <2>4. data_' \in QueuesType
    <3>1. Append(data_[u][c], [src |-> t, num |-> published[t]]) \in Seq(Data)
      BY <2>1, <2>3 DEF TypeOK
    <3>2. [data_[u] EXCEPT ![c] = Append(@, [src |-> t, num |-> published[t]])]
             \in [Channels -> Seq(Data)]
      BY <2>1, <3>1, Update DEF TypeOK
    <3>3. data_' = [data_ EXCEPT ![u] =
              [data_[u] EXCEPT ![c] = Append(@, [src |-> t, num |-> published[t]])]]
      <4>1. data_' = [data_ EXCEPT ![u][c] =
                          Append(data_[u][c], [src |-> t, num |-> published[t]])]
        BY <1>8 DEF Insert
      <4> HIDE DEF c
      <4> QED BY <2>1, <4>1 DEF TypeOK
    <3> QED BY <3>2, <3>3, Update DEF TypeOK, QueuesType
  <2>5. entered' \in [Threads -> [Channels -> [Threads -> Nat]]]
    <3>1. entered \in [Threads -> [Channels -> [Threads -> Nat]]] /\ published[t] \in Nat
      BY DEF TypeOK
    <3>2. entered' = [entered EXCEPT ![u][c][t] = published[t]]  BY <1>8 DEF Insert
    <3>3. c \in Channels  BY <2>1
    <3> HIDE DEF c
    <3>4. entered[u] \in [Channels -> [Threads -> Nat]]
          /\ entered[u][c] \in [Threads -> Nat]
      BY ONLY <3>1, <3>3, u \in Threads
    <3>5. [entered[u][c] EXCEPT ![t] = published[t]] \in [Threads -> Nat]
      BY ONLY <3>1, <3>4, t \in Threads, Update
    <3>6. [entered[u] EXCEPT ![c] = [entered[u][c] EXCEPT ![t] = published[t]]]
             \in [Channels -> [Threads -> Nat]]
      BY ONLY <3>3, <3>4, <3>5, Update
    <3>7. [entered EXCEPT ![u] = [entered[u] EXCEPT ![c] =
                                     [entered[u][c] EXCEPT ![t] = published[t]]]]
             \in [Threads -> [Channels -> [Threads -> Nat]]]
      BY ONLY <3>1, <3>6, u \in Threads, Update
    <3> QED BY ONLY <3>2, <3>7
  <2> QED BY <1>8, <2>2, <2>4, <2>5 DEF Insert, TypeOK, QueuesType, CallsType, CallType
<1>9. ASSUME InsertDone(t) PROVE TypeOK'
  BY <1>9 DEF InsertDone, TypeOK, Locations
<1>10. ASSUME NEW u \in Threads, NotifyLock(t, u) PROVE TypeOK'
  <2>1. publishing' \in CallsType
    <3>1. [publishing[t] EXCEPT !.target = u] \in CallType
      <4>1. publishing[t] \in CallType
        BY DEF TypeOK, CallType
      <4> QED BY <4>1, CallUpdate
    <3>2. publishing' = [publishing EXCEPT ![t] = [publishing[t] EXCEPT !.target = u]]
      BY <1>10 DEF NotifyLock, TypeOK
    <3> QED BY <3>1, <3>2, Update DEF TypeOK, CallsType, CallType
  <2> QED BY <1>10, <2>1 DEF NotifyLock, TypeOK, CallsType, CallType, Locations
<1>11. ASSUME Signal(t) PROVE TypeOK'
  <2>1. publishing' \in CallsType
    <3> DEFINE r == [publishing[t] EXCEPT !.notify = @ \ {publishing[t].target}]
    <3>1. r \in CallType
      <4>1. publishing[t] \in CallType /\ publishing[t].notify \ {publishing[t].target} \in SUBSET Threads
        BY DEF TypeOK, CallType
      <4> QED BY <4>1, CallUpdate
    <3>2. publishing' = [publishing EXCEPT ![t] = r]
      BY <1>11 DEF Signal, TypeOK
    <3> QED BY <3>1, <3>2, Update DEF TypeOK, CallsType, CallType
  <2> QED BY <1>11, <2>1, ZenonT(40) DEF Signal, TypeOK, CallsType, CallType, Locations
<1>12. ASSUME PublishDone(t) PROVE TypeOK'
  <2>1. NoPublication(t) \in CallType
    BY DEF NoPublication, Publication, CallType
  <2>2. publishing' \in CallsType
    BY <1>12, <2>1, Update DEF PublishDone, TypeOK, CallsType, CallType
  <2>3. pc' \in [Threads -> Locations]
    BY <1>12 DEF PublishDone, TypeOK, Locations
  <2> QED BY <1>12, <2>2, <2>3 DEF PublishDone, TypeOK, CallsType, CallType
<1>13. ASSUME BeginRound(t) PROVE TypeOK'
  BY <1>13 DEF BeginRound, TypeOK, Locations
<1>14. ASSUME NEW s \in Stores, poll(t, s) PROVE TypeOK'
  <2>1. data_' \in QueuesType
    <3>1. [c \in Channels |-> IF c \in InStore(s) THEN <<>> ELSE data_[t][c]]
             \in [Channels -> Seq(Data)]
      BY DEF TypeOK
    <3> QED BY <1>14, <3>1, Update DEF poll, TypeOK, QueuesType
  <2>2. batch' \in QueuesType
    <3>1. [c \in Channels |-> IF c \in InStore(s) THEN Collected(t, c) ELSE <<>>]
             \in [Channels -> Seq(Data)]
      BY CollectedType
    <3> QED BY <1>14, <3>1, Update DEF poll, TypeOK, QueuesType
  <2>3. poll_mutex' \in [Threads -> BOOLEAN] /\ pc' \in [Threads -> Locations]
    BY <1>14 DEF poll, TypeOK, Locations
  <2>4. polled' \in [Threads -> [left : SUBSET Stores, found : BOOLEAN]]
    <3> DEFINE items == \E c \in InStore(s) : Collected(t, c) # <<>>
               left == polled[t].left \ {s}
               found == polled[t].found \/ items
    <3>1. polled' = [polled EXCEPT ![t] = [polled[t] EXCEPT !.left = left, !.found = found]]
      BY <1>14 DEF poll
    <3> HIDE DEF items
    <3>2. polled[t] \in RoundType /\ left \in SUBSET Stores /\ found \in BOOLEAN
      BY DEF TypeOK, RoundType
    <3>3. [polled[t] EXCEPT !.left = left, !.found = found] \in RoundType
      BY <3>2, RoundUpdate
    <3> HIDE DEF left, found
    <3> QED BY <3>1, <3>3, Update DEF TypeOK, RoundType
  <2> QED BY <1>14, <2>1, <2>2, <2>3, <2>4 DEF poll, TypeOK, QueuesType
<1>15. ASSUME NEW c \in Channels, RunCallback(t, c) PROVE TypeOK'
  <2>1. batch' \in QueuesType
    BY <1>15 DEF RunCallback, TypeOK, QueuesType
  <2> QED BY <1>15, <2>1 DEF RunCallback, TypeOK, QueuesType, Locations
<1>16. ASSUME EndCallback(t) PROVE TypeOK'
  BY <1>16 DEF EndCallback, TypeOK, Locations
<1>17. ASSUME PollFound(t) \/ Wait(t) \/ SpuriousWake(t) \/ Timeout(t) PROVE TypeOK'
  <2>1. pc' \in [Threads -> Locations]
    BY <1>17, ZenonT(40) DEF PollFound, Wait, SpuriousWake, Timeout, TypeOK, Locations
  <2>2. poll_mutex' \in [Threads -> BOOLEAN]
    BY <1>17 DEF PollFound, Wait, SpuriousWake, Timeout, TypeOK
  <2>3. spurious' \in [Threads -> Nat]
    <3>1. spurious' = spurious \/ spurious' = [spurious EXCEPT ![t] = @ + 1]
      BY <1>17 DEF PollFound, Wait, SpuriousWake, Timeout
    <3>2. spurious[t] + 1 \in Nat
      BY DEF TypeOK
    <3>3. [spurious EXCEPT ![t] = @ + 1] \in [Threads -> Nat]
      BY <3>2, Update DEF TypeOK
    <3> QED BY <3>1, <3>3 DEF TypeOK
  <2> QED BY <1>17, <2>1, <2>2, <2>3 DEF PollFound, Wait, SpuriousWake, Timeout, TypeOK
<1> QED
  BY <1>1, <1>3, <1>4, <1>5, <1>6, <1>7, <1>8, <1>9, <1>10, <1>11, <1>12, <1>13, <1>14,
     <1>15, <1>16, <1>17 DEF Step, Choose, Continue, _poll_all, Wake

\* What an insertion does to the record of the call, field by field, and to
\* the data queues.
LEMMA InsertEffect ==
    ASSUME TypeOK, NEW p \in Threads, NEW u \in Threads, Insert(p, u)
    PROVE  /\ \A q \in Threads : q # p => publishing'[q] = publishing[q]
           /\ publishing'[p].chan = publishing[p].chan
           /\ publishing'[p].return = publishing[p].return
           /\ publishing'[p].target = publishing[p].target
           /\ publishing'[p].notify = publishing[p].notify \cup {u}
           /\ publishing'[p].to = [publishing[p].to EXCEPT ![u] = @ - 1]
           /\ \A v \in Threads, d \in Channels :
                 v # u \/ d # publishing[p].chan => data_'[v][d] = data_[v][d]
<1> DEFINE to == [publishing[p].to EXCEPT ![u] = @ - 1]
           notify == publishing[p].notify \cup {u}
           r == [publishing[p] EXCEPT !.to = to, !.notify = notify]
<1>1. publishing' = [publishing EXCEPT ![p] = r]
  BY DEF Insert, TypeOK
<1>2. publishing'[p] = r /\ \A q \in Threads : q # p => publishing'[q] = publishing[q]
  BY <1>1 DEF TypeOK
<1>3. publishing[p] \in CallType
  BY DEF TypeOK, CallType
<1>4. /\ r.chan = publishing[p].chan /\ r.return = publishing[p].return
      /\ r.target = publishing[p].target /\ r.to = to /\ r.notify = notify
  <2> HIDE DEF to, notify
  <2> QED BY <1>3 DEF CallType
<1>5. \A v \in Threads, d \in Channels :
         v # u \/ d # publishing[p].chan => data_'[v][d] = data_[v][d]
  BY DEF Insert, TypeOK
<1> QED BY <1>2, <1>4, <1>5

\* subscribe() adds a subscription and takes none.
LEMMA SubscribeEffect ==
    ASSUME TypeOK, NEW t \in Threads, NEW c \in Channels, subscribe(t, c),
           NEW u \in Threads, NEW d \in Channels
    PROVE  /\ subscriptions[d][u] > 0 => subscriptions'[d][u] > 0
           /\ d # c \/ u # t => subscriptions'[d][u] = subscriptions[d][u]
<1>1. CASE d = c /\ u = t
  <2>1. subscriptions'[c][t] = subscriptions[c][t] + 1 /\ subscriptions[c][t] \in Nat
    BY DEF subscribe, TypeOK
  <2> QED BY <1>1, <2>1
<1>2. CASE d # c \/ u # t
  <2>1. subscriptions'[d][u] = subscriptions[d][u]
    BY <1>2 DEF subscribe, TypeOK
  <2> QED BY <1>2, <2>1
<1> QED BY <1>1, <1>2


\* Every step of a thread preserves Numbered.
LEMMA NumberedStep ==
    ASSUME TypeOK, Numbered, NEW t \in Threads, Step(t)
    PROVE  Numbered'
<1> USE DEF subVars, pubVars, pollVars
<1> SUFFICES ASSUME NEW p \in Threads
             PROVE  /\ published'[p] <= MaxPublications[p]
                    /\ pc'[p] = "insert" => published'[p] > 0
  BY DEF Numbered
<1>1. ASSUME NEW c \in Channels, NEW echo \in BOOLEAN, publish(t, c, echo)
      PROVE  /\ published'[p] <= MaxPublications[p]
             /\ pc'[p] = "insert" => published'[p] > 0
  BY <1>1 DEF publish, TypeOK, Numbered
<1>2. ASSUME published' = published, pc'[p] = "insert" => pc[p] = "insert"
      PROVE  /\ published'[p] <= MaxPublications[p]
             /\ pc'[p] = "insert" => published'[p] > 0
  BY <1>2 DEF Numbered
<1>3. ASSUME NEW c \in Channels, subscribe(t, c) \/ unsubscribe(t, c) \/ RunCallback(t, c)
      PROVE  published' = published /\ (pc'[p] = "insert" => pc[p] = "insert")
  BY <1>3 DEF subscribe, unsubscribe, RemoveChannels, RunCallback, TypeOK
<1>4. ASSUME NEW s \in Stores, unsubscribe_all_groups(t, s) \/ poll(t, s)
      PROVE  published' = published /\ (pc'[p] = "insert" => pc[p] = "insert")
  BY <1>4 DEF unsubscribe_all_groups, RemoveChannels, poll, TypeOK
<1>5. ASSUME NEW u \in Threads, Insert(t, u) \/ NotifyLock(t, u)
      PROVE  published' = published /\ (pc'[p] = "insert" => pc[p] = "insert")
  BY <1>5 DEF Insert, NotifyLock, TypeOK
<1>6. ASSUME \/ unsubscribe_all(t) \/ remove(t) \/ InsertDone(t) \/ Signal(t)
             \/ PublishDone(t) \/ _poll_all(t) \/ EndCallback(t)
      PROVE  published' = published /\ (pc'[p] = "insert" => pc[p] = "insert")
  BY <1>6, ZenonT(40) DEF unsubscribe_all, remove, InsertDone, Signal, PublishDone, _poll_all,
              BeginRound, EndCallback, TypeOK
<1>7. ASSUME PollFound(t) \/ Wait(t) \/ Wake(t) \/ SpuriousWake(t) \/ Timeout(t)
      PROVE  published' = published /\ (pc'[p] = "insert" => pc[p] = "insert")
  BY <1>7 DEF PollFound, Wait, Wake, BeginRound, SpuriousWake, Timeout, TypeOK
<1> QED
  BY <1>1, <1>2, <1>3, <1>4, <1>5, <1>6, <1>7 DEF Step, Choose, Continue

\* Every step of a thread preserves Locks.
LEMMA LocksStep ==
    ASSUME TypeOK, Locks, NEW t \in Threads, Step(t)
    PROVE  Locks'
<1> USE DEF subVars, pubVars, pollVars
<1> DEFINE Lock(u) == /\ poll_mutex[u] => pc[u] = "poll" /\ ~ polled[u].found
                      /\ pc[u] = "poll" /\ ~ polled[u].found => poll_mutex[u]
                      /\ InCallback(u) => polled[u].found
<1> SUFFICES ASSUME NEW p \in Threads PROVE Lock(p)'
  BY DEF Locks
<1>a. Lock(p)
  BY DEF Locks
<1>0. ASSUME pc'[p] = pc[p], poll_mutex'[p] = poll_mutex[p], polled'[p] = polled[p],
             publishing'[p].return = publishing[p].return
      PROVE  Lock(p)'
  BY <1>a, <1>0 DEF InCallback, InPublish
<1>1. ASSUME NEW c \in Channels, NEW echo \in BOOLEAN, publish(t, c, echo) PROVE Lock(p)'
  BY <1>1, <1>0, <1>a DEF publish, Publication, InUserCode, InCallback, InPublish, TypeOK
<1>2. ASSUME NEW c \in Channels, subscribe(t, c) \/ unsubscribe(t, c) PROVE Lock(p)'
  BY <1>2, <1>0 DEF subscribe, unsubscribe, RemoveChannels
<1>3. ASSUME NEW c \in Channels, RunCallback(t, c) PROVE Lock(p)'
  BY <1>3, <1>0, <1>a DEF RunCallback, InCallback, InPublish, TypeOK
<1>4. ASSUME NEW s \in Stores, unsubscribe_all_groups(t, s) PROVE Lock(p)'
  BY <1>4, <1>0 DEF unsubscribe_all_groups, RemoveChannels
<1>5. ASSUME NEW s \in Stores, poll(t, s) PROVE Lock(p)'
  <2>1. CASE p # t
    BY <1>5, <1>0, <2>1 DEF poll, TypeOK
  <2>2. CASE p = t
    <3> DEFINE items == \E c \in InStore(s) : Collected(t, c) # <<>>
    <3>1. /\ pc'[t] = IF items THEN "batch" ELSE "poll"
          /\ polled'[t].found = (polled[t].found \/ items)
          /\ poll_mutex'[t] = (poll_mutex[t] /\ ~ items)
      BY <1>5 DEF poll, TypeOK
    <3>2. pc[t] = "poll"
      BY <1>5 DEF poll
    <3> HIDE DEF items
    <3> QED BY <2>2, <3>1, <3>2, <1>a DEF InCallback, InPublish, TypeOK
  <2> QED BY <2>1, <2>2
<1>6. ASSUME NEW u \in Threads, Insert(t, u) PROVE Lock(p)'
  <2>1. publishing'[p].return = publishing[p].return
    BY <1>6, InsertEffect
  <2> QED BY <1>6, <1>0, <2>1 DEF Insert
<1>7. ASSUME NEW u \in Threads, NotifyLock(t, u) PROVE Lock(p)'
  <2>1. publishing'[p].return = publishing[p].return
    BY <1>7 DEF NotifyLock, TypeOK
  <2>2. InCallback(p)' <=> InCallback(p)
    BY <1>7, <2>1 DEF NotifyLock, TypeOK, InCallback, InPublish
  <2> QED BY <1>7, <1>a, <2>2 DEF NotifyLock, TypeOK
<1>8. ASSUME unsubscribe_all(t) PROVE Lock(p)'
  <2>1. pc' = pc \/ (pc[t] = "user" /\ pc' = [pc EXCEPT ![t] = "exit"])
    BY <1>8 DEF unsubscribe_all
  <2> QED BY <1>8, <1>0, <1>a, <2>1 DEF unsubscribe_all, TypeOK, InCallback, InPublish
<1>16. ASSUME remove(t) PROVE Lock(p)'
  BY <1>16, <1>a DEF remove, TypeOK, InCallback, InPublish
<1>9. ASSUME InsertDone(t) PROVE Lock(p)'
  BY <1>9, <1>a DEF InsertDone, TypeOK, InCallback, InPublish
<1>10. ASSUME Signal(t) PROVE Lock(p)'
  <2>1. publishing'[p].return = publishing[p].return
    BY <1>10 DEF Signal, TypeOK
  <2>2. InCallback(p)' <=> InCallback(p)
    BY <1>10, <2>1 DEF Signal, TypeOK, InCallback, InPublish
  <2> QED BY <1>10, <1>a, <2>2 DEF Signal, TypeOK
<1>11. ASSUME PublishDone(t) PROVE Lock(p)'
  BY <1>11, <1>a DEF PublishDone, TypeOK, InCallback, InPublish
<1>12. ASSUME BeginRound(t) PROVE Lock(p)'
  BY <1>12, <1>a DEF BeginRound, TypeOK, InCallback, InPublish
<1>13. ASSUME EndCallback(t) PROVE Lock(p)'
  BY <1>13, <1>a DEF EndCallback, TypeOK, InCallback, InPublish
<1>14. ASSUME PollFound(t) \/ Wait(t) PROVE Lock(p)'
  BY <1>14, <1>a, ZenonT(40) DEF PollFound, Wait, TypeOK, InCallback, InPublish
<1>15. ASSUME SpuriousWake(t) \/ Timeout(t) PROVE Lock(p)'
  BY <1>15, <1>a, ZenonT(40) DEF SpuriousWake, Timeout, TypeOK, InCallback, InPublish
<1> QED
  BY <1>1, <1>2, <1>3, <1>4, <1>5, <1>6, <1>7, <1>8, <1>9, <1>10, <1>11, <1>12, <1>13,
     <1>14, <1>15, <1>16 DEF Step, Choose, Continue, _poll_all, Wake

\* Every step of a thread preserves Queues.
LEMMA QueuesStep ==
    ASSUME TypeOK, Queues, NEW t \in Threads, Step(t)
    PROVE  Queues'
<1> USE DEF subVars, pubVars, pollVars
<1> DEFINE Aimed(p, u) == pc[p] = "insert" /\ publishing[p].to[u] > 0
                             => subscriptions[publishing[p].chan][u] > 0
           Kept(u, d) == /\ data_[u][d] # <<>> => subscriptions[d][u] > 0
                         /\ pc[u] = "exit" /\ subscriptions[d][u] > 0
                               => StoreOf[d] \in leaving[u]
<1>a. \A p, u \in Threads : Aimed(p, u)
  BY DEF Queues
<1>b. \A u \in Threads, d \in Channels : Kept(u, d)
  BY DEF Queues
<1> SUFFICES /\ \A p, u \in Threads : Aimed(p, u)'
             /\ \A u \in Threads, d \in Channels : Kept(u, d)'
  BY DEF Queues
<1>1. ASSUME NEW p \in Threads, NEW u \in Threads PROVE Aimed(p, u)'
  <2> USE <1>a
  <2>1. ASSUME NEW c \in Channels, subscribe(t, c) PROVE Aimed(p, u)'
    <3>1. publishing[p].chan \in Channels
      BY DEF TypeOK
    <3> QED BY <2>1, <3>1, SubscribeEffect DEF subscribe
  <2>2. ASSUME NEW C \in SUBSET Channels, RemoveChannels(t, C), UNCHANGED pc PROVE Aimed(p, u)'
    BY <2>2 DEF RemoveChannels, NoReader, TypeOK
  <2>3. ASSUME NEW c \in Channels, NEW echo \in BOOLEAN, publish(t, c, echo) PROVE Aimed(p, u)'
    <3>1. CASE p # t
      BY <2>3, <3>1 DEF publish, TypeOK
    <3>2. CASE p = t
      <4>1. publishing'[t] = Publication(t, c, [w \in Threads |->
                  IF w # t \/ echo THEN subscriptions[c][w] ELSE 0], pc[t])
        BY <2>3 DEF publish, TypeOK
      <4>2. /\ publishing'[t].chan = c
            /\ publishing'[t].to[u] = IF u # t \/ echo THEN subscriptions[c][u] ELSE 0
        BY <4>1 DEF Publication
      <4> QED BY <2>3, <3>2, <4>2 DEF publish
    <3> QED BY <3>1, <3>2
  <2>4. ASSUME NEW v \in Threads, Insert(t, v) PROVE Aimed(p, u)'
    <3>1. publishing'[p].chan = publishing[p].chan
      BY <2>4, InsertEffect
    <3>2. publishing'[p].to[u] > 0 => publishing[p].to[u] > 0
      <4>1. CASE p # t
        <5>1. \A q \in Threads : q # t => publishing'[q] = publishing[q]
          BY <2>4, InsertEffect
        <5> QED BY <4>1, <5>1
      <4>2. CASE p = t
        <5>1. publishing'[t].to = [publishing[t].to EXCEPT ![v] = @ - 1]
          BY <2>4, InsertEffect
        <5>2. publishing[t].to \in [Threads -> Nat] /\ publishing[t].to[v] > 0
          BY <2>4 DEF Insert, TypeOK
        <5> QED BY <4>2, <5>1, <5>2
      <4> QED BY <4>1, <4>2
    <3> QED BY <2>4, <3>1, <3>2 DEF Insert, TypeOK
  <2>5. ASSUME NEW v \in Threads, NotifyLock(t, v) PROVE Aimed(p, u)'
    BY <2>5 DEF NotifyLock, TypeOK
  <2>6. ASSUME Signal(t) PROVE Aimed(p, u)'
    BY <2>6 DEF Signal, TypeOK
  <2>7. ASSUME PublishDone(t) PROVE Aimed(p, u)'
    BY <2>7 DEF PublishDone, TypeOK
  <2>8. ASSUME publishing' = publishing, subscriptions' = subscriptions,
               pc'[p] = "insert" => pc[p] = "insert"
        PROVE  Aimed(p, u)'
    BY <2>8
  <2>9. ASSUME NEW c \in Channels, RunCallback(t, c) PROVE Aimed(p, u)'
    BY <2>8, <2>9 DEF RunCallback, TypeOK
  <2>10. ASSUME NEW s \in Stores, poll(t, s) PROVE Aimed(p, u)'
    BY <2>8, <2>10 DEF poll, TypeOK
  <2>11. ASSUME \/ unsubscribe_all(t) \/ remove(t) \/ InsertDone(t) \/ BeginRound(t)
                \/ EndCallback(t)
         PROVE  Aimed(p, u)'
    <3>1. publishing' = publishing /\ subscriptions' = subscriptions
      BY <2>11 DEF unsubscribe_all, remove, InsertDone, BeginRound, EndCallback
    <3>2. pc'[p] = "insert" => pc[p] = "insert"
      BY <2>11 DEF unsubscribe_all, remove, InsertDone, BeginRound, EndCallback, TypeOK
    <3> QED BY <2>8, <3>1, <3>2
  <2>12. ASSUME PollFound(t) \/ Wait(t) \/ SpuriousWake(t) \/ Timeout(t) PROVE Aimed(p, u)'
    <3>1. publishing' = publishing /\ subscriptions' = subscriptions
      BY <2>12 DEF PollFound, Wait, SpuriousWake, Timeout
    <3>2. pc'[p] = "insert" => pc[p] = "insert"
      BY <2>12 DEF PollFound, Wait, SpuriousWake, Timeout, TypeOK
    <3> QED BY <2>8, <3>1, <3>2
  <2>13. ASSUME NEW c \in Channels, unsubscribe(t, c) PROVE Aimed(p, u)'
    BY <2>2, <2>13 DEF unsubscribe
  <2>14. ASSUME NEW s \in Stores, unsubscribe_all_groups(t, s) PROVE Aimed(p, u)'
    BY <2>2, <2>14 DEF unsubscribe_all_groups
  <2> QED
    BY <2>1, <2>3, <2>4, <2>5, <2>6, <2>7, <2>9, <2>10, <2>11, <2>12, <2>13, <2>14
    DEF Step, Choose, Continue, _poll_all, Wake
<1>2. ASSUME NEW u \in Threads, NEW d \in Channels PROVE Kept(u, d)'
  <2>0. Kept(u, d)
    BY <1>b
  <2>1. ASSUME NEW c \in Channels, subscribe(t, c) PROVE Kept(u, d)'
    <3>1. /\ subscriptions[d][u] > 0 => subscriptions'[d][u] > 0
          /\ d # c \/ u # t => subscriptions'[d][u] = subscriptions[d][u]
      BY <2>1, SubscribeEffect
    <3>2. pc[t] # "exit"
      BY <2>1 DEF subscribe, InUserCode
    <3> QED BY <2>1, <2>0, <3>1, <3>2 DEF subscribe
  <2>2. ASSUME NEW c \in Channels, unsubscribe(t, c) PROVE Kept(u, d)'
    BY <2>2, <2>0 DEF unsubscribe, RemoveChannels, TypeOK
  <2>3. ASSUME NEW s \in Stores, unsubscribe_all_groups(t, s) PROVE Kept(u, d)'
    <3>1. CASE u # t
      BY <2>3, <2>0, <3>1 DEF unsubscribe_all_groups, RemoveChannels, TypeOK
    <3>2. CASE u = t /\ StoreOf[d] = s
      BY <2>3, <3>2 DEF unsubscribe_all_groups, RemoveChannels, TypeOK
    <3>3. CASE u = t /\ StoreOf[d] # s
      BY <2>3, <2>0, <3>3 DEF unsubscribe_all_groups, RemoveChannels, TypeOK
    <3> QED BY <3>1, <3>2, <3>3
  <2>4. ASSUME unsubscribe_all(t) PROVE Kept(u, d)'
    BY <2>4, <2>0 DEF unsubscribe_all, InUserCode, TypeOK
  <2>5. ASSUME NEW v \in Threads, Insert(t, v) PROVE Kept(u, d)'
    <3>1. CASE u = v /\ d = publishing[t].chan
      BY <2>5, <2>0, <3>1, <1>a DEF Insert
    <3>2. CASE ~ (u = v /\ d = publishing[t].chan)
      <4>1. data_'[u][d] = data_[u][d]
        <5>1. \A w \in Threads, e \in Channels :
                 w # v \/ e # publishing[t].chan => data_'[w][e] = data_[w][e]
          BY <2>5, InsertEffect
        <5> QED BY <3>2, <5>1
      <4> QED BY <2>5, <2>0, <4>1 DEF Insert
    <3> QED BY <3>1, <3>2
  <2>6. ASSUME NEW s \in Stores, poll(t, s) PROVE Kept(u, d)'
    <3>1. data_'[u][d] # <<>> => data_[u][d] # <<>>
      BY <2>6 DEF poll, TypeOK
    <3>2. pc'[u] = "exit" => pc[u] = "exit"
      BY <2>6 DEF poll, TypeOK
    <3> QED BY <2>6, <2>0, <3>1, <3>2 DEF poll
  <2>7. ASSUME data_' = data_, subscriptions' = subscriptions, leaving' = leaving,
               pc'[u] = "exit" => pc[u] = "exit"
        PROVE  Kept(u, d)'
    BY <2>0, <2>7
  <2>8. ASSUME NEW c \in Channels, NEW echo \in BOOLEAN, publish(t, c, echo) PROVE Kept(u, d)'
    BY <2>7, <2>8 DEF publish, TypeOK
  <2>9. ASSUME NEW c \in Channels, RunCallback(t, c) PROVE Kept(u, d)'
    BY <2>7, <2>9 DEF RunCallback, TypeOK
  <2>10. ASSUME NEW v \in Threads, NotifyLock(t, v) PROVE Kept(u, d)'
    BY <2>7, <2>10 DEF NotifyLock, TypeOK
  <2>11. ASSUME \/ remove(t) \/ InsertDone(t) \/ BeginRound(t) \/ EndCallback(t)
                \/ Signal(t) \/ PublishDone(t)
         PROVE  Kept(u, d)'
    <3>1. data_' = data_ /\ subscriptions' = subscriptions /\ leaving' = leaving
      BY <2>11 DEF remove, InsertDone, BeginRound, EndCallback, Signal, PublishDone
    <3>2. pc'[u] = "exit" => pc[u] = "exit"
      BY <2>11, ZenonT(40) DEF remove, InsertDone, BeginRound, EndCallback, Signal, PublishDone, TypeOK
    <3> QED BY <2>7, <3>1, <3>2
  <2>12. ASSUME PollFound(t) \/ Wait(t) \/ SpuriousWake(t) \/ Timeout(t) PROVE Kept(u, d)'
    <3>1. data_' = data_ /\ subscriptions' = subscriptions /\ leaving' = leaving
      BY <2>12 DEF PollFound, Wait, SpuriousWake, Timeout
    <3>2. pc'[u] = "exit" => pc[u] = "exit"
      BY <2>12 DEF PollFound, Wait, SpuriousWake, Timeout, TypeOK
    <3> QED BY <2>7, <3>1, <3>2
  <2> QED
    BY <2>1, <2>2, <2>3, <2>4, <2>5, <2>6, <2>8, <2>9, <2>10, <2>11, <2>12
    DEF Step, Choose, Continue, _poll_all, Wake
<1> QED BY <1>1, <1>2

\* A thread in publish() stays where it is but for its own steps of publish().
LEMMA PublisherStep ==
    ASSUME TypeOK, NEW t \in Threads, Step(t), NEW p \in Threads, InPublish(p)
    PROVE  \/ pc'[p] = pc[p] /\ publishing'[p] = publishing[p]
           \/ /\ p = t
              /\ \/ \E v \in Threads : Insert(t, v) \/ NotifyLock(t, v)
                 \/ InsertDone(t) \/ Signal(t) \/ PublishDone(t)
<1> USE DEF subVars, pubVars, pollVars
<1> DEFINE Same == pc'[p] = pc[p] /\ publishing'[p] = publishing[p]
<1>0. pc[p] \in {"insert", "notify", "signal"}
  BY DEF InPublish
<1>2. ASSUME NEW c \in Channels, subscribe(t, c) \/ unsubscribe(t, c) PROVE Same
  BY <1>2 DEF subscribe, unsubscribe, RemoveChannels
<1>3. ASSUME NEW s \in Stores, unsubscribe_all_groups(t, s) PROVE Same
  BY <1>3 DEF unsubscribe_all_groups, RemoveChannels
<1>4. ASSUME NEW c \in Channels, NEW echo \in BOOLEAN, publish(t, c, echo) PROVE Same
  BY <1>4, <1>0 DEF publish, InUserCode, TypeOK
<1>5. ASSUME NEW s \in Stores, poll(t, s) PROVE Same
  BY <1>5, <1>0 DEF poll, TypeOK
<1>6. ASSUME NEW c \in Channels, RunCallback(t, c) PROVE Same
  BY <1>6, <1>0 DEF RunCallback, TypeOK
<1>7. ASSUME unsubscribe_all(t) \/ remove(t) \/ _poll_all(t) \/ Wake(t) PROVE Same
  <2>1. publishing' = publishing /\ pc'[p] = pc[p]
    BY <1>7, <1>0 DEF unsubscribe_all, InUserCode, remove, _poll_all, Wake, BeginRound, TypeOK
  <2> QED BY <2>1
<1>8. ASSUME EndCallback(t) \/ PollFound(t) \/ Wait(t) \/ SpuriousWake(t) \/ Timeout(t)
      PROVE  Same
  <2>1. publishing' = publishing /\ pc'[p] = pc[p]
    BY <1>8, <1>0 DEF EndCallback, PollFound, Wait, SpuriousWake, Timeout, TypeOK
  <2> QED BY <2>1
<1>9. ASSUME p # t, \E v \in Threads : Insert(t, v) \/ NotifyLock(t, v) PROVE Same
  BY <1>9, ZenonT(40) DEF Insert, NotifyLock, TypeOK
<1>10. ASSUME p # t, InsertDone(t) \/ Signal(t) \/ PublishDone(t) PROVE Same
  BY <1>10, <1>0 DEF InsertDone, Signal, PublishDone, TypeOK
<1> QED
  BY <1>2, <1>3, <1>4, <1>5, <1>6, <1>7, <1>8, <1>9, <1>10 DEF Step, Choose, Continue

\* A notification still to be given stays so until the notified thread is not
\* waiting.
LEMMA WillNotifyStays ==
    ASSUME TypeOK, NEW t \in Threads, Step(t),
           NEW p \in Threads, NEW u \in Threads, WillNotify(p, u)
    PROVE  WillNotify(p, u)' \/ pc'[u] # "wait"
<1> USE DEF subVars, pubVars, pollVars
<1>0. pc[p] \in {"insert", "notify", "signal"} /\ u \in publishing[p].notify
  BY DEF WillNotify
<1>1. ASSUME pc'[p] = pc[p], publishing'[p] = publishing[p] PROVE WillNotify(p, u)'
  BY <1>1, <1>0 DEF WillNotify
<1>2. ASSUME NEW v \in Threads, Insert(p, v) PROVE WillNotify(p, u)'
  <2>1. publishing'[p].notify = publishing[p].notify \cup {v}
    BY <1>2, InsertEffect
  <2> QED BY <1>2, <1>0, <2>1 DEF Insert, WillNotify
<1>3. ASSUME NEW v \in Threads, NotifyLock(p, v) PROVE WillNotify(p, u)'
  <2>1. publishing'[p].notify = publishing[p].notify
    BY <1>3 DEF NotifyLock, TypeOK
  <2> QED BY <1>3, <1>0, <2>1 DEF NotifyLock, WillNotify, TypeOK
<1>4. ASSUME InsertDone(p) PROVE WillNotify(p, u)'
  BY <1>4, <1>0 DEF InsertDone, WillNotify, TypeOK
<1>5. ASSUME Signal(p) PROVE WillNotify(p, u)' \/ pc'[u] # "wait"
  <2>1. CASE publishing[p].target # u
    <3>1. publishing'[p].notify = publishing[p].notify \ {publishing[p].target}
      BY <1>5 DEF Signal, TypeOK
    <3> QED BY <1>5, <1>0, <2>1, <3>1 DEF Signal, WillNotify
  <2>2. CASE publishing[p].target = u
    BY <1>5, <2>2 DEF Signal
  <2> QED BY <2>1, <2>2
<1>6. ~ PublishDone(p)
  BY <1>0 DEF PublishDone
<1>7. InPublish(p)
  BY <1>0 DEF InPublish
<1> QED BY <1>1, <1>2, <1>3, <1>4, <1>5, <1>6, <1>7, PublisherStep

\* The notifier of a thread that holds its poll_mutex cannot take it.
LEMMA WillLockStays ==
    ASSUME TypeOK, NEW t \in Threads, Step(t), NEW p \in Threads, NEW u \in Threads,
           WillLock(p, u), poll_mutex[u]
    PROVE  WillLock(p, u)'
<1> USE DEF subVars, pubVars, pollVars
<1>0. /\ pc[p] \in {"insert", "notify", "signal"} /\ u \in publishing[p].notify
      /\ pc[p] = "signal" => publishing[p].target # u
  BY DEF WillLock, WillNotify
<1>1. ASSUME pc'[p] = pc[p], publishing'[p] = publishing[p] PROVE WillLock(p, u)'
  BY <1>1, <1>0 DEF WillLock, WillNotify
<1>2. ASSUME NEW v \in Threads, Insert(p, v) PROVE WillLock(p, u)'
  <2>1. publishing'[p].notify = publishing[p].notify \cup {v}
    BY <1>2, InsertEffect
  <2>2. pc' = pc /\ pc[p] = "insert"
    BY <1>2 DEF Insert
  <2> QED BY <1>0, <2>1, <2>2 DEF WillLock, WillNotify
<1>3. ASSUME NEW v \in Threads, NotifyLock(p, v) PROVE WillLock(p, u)'
  <2>1. publishing'[p].notify = publishing[p].notify /\ publishing'[p].target = v
    BY <1>3 DEF NotifyLock, TypeOK
  <2>2. v # u /\ pc'[p] = "signal"
    BY <1>3 DEF NotifyLock, TypeOK
  <2> QED BY <1>0, <2>1, <2>2 DEF WillLock, WillNotify
<1>4. ASSUME InsertDone(p) PROVE WillLock(p, u)'
  BY <1>4, <1>0 DEF InsertDone, WillLock, WillNotify, TypeOK
<1>5. ASSUME Signal(p) PROVE WillLock(p, u)'
  <2>1. publishing'[p].notify = publishing[p].notify \ {publishing[p].target}
    BY <1>5 DEF Signal, TypeOK
  <2>2. pc'[p] = "notify" /\ publishing[p].target # u
    BY <1>5, <1>0 DEF Signal
  <2> QED BY <1>0, <2>1, <2>2 DEF WillLock, WillNotify
<1>6. ~ PublishDone(p)
  BY <1>0 DEF PublishDone
<1>7. InPublish(p)
  BY <1>0 DEF InPublish
<1> QED BY <1>1, <1>2, <1>3, <1>4, <1>5, <1>6, <1>7, PublisherStep

\* Every step of a thread preserves Limbo.
LEMMA LimboStep ==
    ASSUME TypeOK, Locks, Queues, Limbo, NEW t \in Threads, Step(t)
    PROVE  Limbo'
<1> USE DEF subVars, pubVars, pollVars
<1> DEFINE Missed(u, c) == /\ pc[u] = "poll" /\ ~ polled[u].found
                           /\ StoreOf[c] \notin polled[u].left
                           /\ data_[u][c] # <<>>
<1> SUFFICES ASSUME NEW u \in Threads, NEW c \in Channels, Missed(u, c)'
             PROVE  \E p \in Threads : WillLock(p, u)'
  BY DEF Limbo
<1>0. ASSUME Missed(u, c) PROVE \E p \in Threads : WillLock(p, u)'
  <2>1. PICK p \in Threads : WillLock(p, u)
    BY <1>0 DEF Limbo
  <2>2. poll_mutex[u]
    BY <1>0 DEF Locks
  <2> QED BY <2>1, <2>2, WillLockStays
<1>1. ASSUME NEW v \in Threads, Insert(t, v) PROVE \E p \in Threads : WillLock(p, u)'
  <2>1. CASE v = u
    <3>1. publishing'[t].notify = publishing[t].notify \cup {u}
      BY <1>1, <2>1, InsertEffect
    <3>2. pc'[t] = "insert"
      BY <1>1 DEF Insert
    <3> QED BY <3>1, <3>2 DEF WillLock, WillNotify
  <2>2. CASE v # u
    <3>1. \A w \in Threads, d \in Channels :
             w # v \/ d # publishing[t].chan => data_'[w][d] = data_[w][d]
      BY <1>1, InsertEffect
    <3> QED BY <1>1, <1>0, <2>2, <3>1 DEF Insert
  <2> QED BY <2>1, <2>2
<1>2. ASSUME BeginRound(t) PROVE Missed(u, c)
  <2>1. CASE u = t
    <3>1. StoreOf[c] \notin stores_[t] /\ data_[t][c] # <<>>
      BY <1>2, <2>1 DEF BeginRound, TypeOK
    <3> QED BY <3>1 DEF TypeOK, Queues
  <2>2. CASE u # t
    BY <1>2, <2>2 DEF BeginRound, TypeOK
  <2> QED BY <2>1, <2>2
<1>3. ASSUME NEW s \in Stores, poll(t, s) PROVE Missed(u, c)
  <2>1. CASE u = t
    <3>1. data_'[t][c] = IF c \in InStore(s) THEN <<>> ELSE data_[t][c]
      BY <1>3 DEF poll, TypeOK
    <3>2. polled'[t].left = polled[t].left \ {s} /\ (polled[t].found => polled'[t].found)
      <4> DEFINE items == \E d \in InStore(s) : Collected(t, d) # <<>>
                 left == polled[t].left \ {s}
                 found == polled[t].found \/ items
      <4>1. polled' = [polled EXCEPT ![t] = [polled[t] EXCEPT !.left = left, !.found = found]]
        BY <1>3 DEF poll
      <4> HIDE DEF items
      <4>2. polled[t] \in RoundType /\ left \in SUBSET Stores /\ found \in BOOLEAN
        BY DEF TypeOK, RoundType
      <4>3. polled'[t] = [polled[t] EXCEPT !.left = left, !.found = found]
        BY <4>1 DEF TypeOK
      <4> HIDE DEF left, found
      <4>4. polled'[t].left = left /\ polled'[t].found = found
        BY <4>2, <4>3 DEF RoundType
      <4> QED BY <4>4 DEF left, found
    <3> QED BY <1>3, <2>1, <3>1, <3>2 DEF poll, InStore
  <2>2. CASE u # t
    BY <1>3, <2>2 DEF poll, TypeOK
  <2> QED BY <2>1, <2>2
<1>4. ASSUME EndCallback(t) PROVE Missed(u, c)
  BY <1>4 DEF EndCallback, Locks, InCallback, TypeOK
<1>5. ASSUME PublishDone(t) PROVE Missed(u, c)
  BY <1>5 DEF PublishDone, TypeOK
<1>6. ASSUME NEW d \in Channels, unsubscribe(t, d) PROVE Missed(u, c)
  BY <1>6 DEF unsubscribe, RemoveChannels, TypeOK
<1>7. ASSUME NEW s \in Stores, unsubscribe_all_groups(t, s) PROVE Missed(u, c)
  BY <1>7 DEF unsubscribe_all_groups, RemoveChannels, TypeOK
<1>8. ASSUME NEW d \in Channels, subscribe(t, d) \/ RunCallback(t, d) PROVE Missed(u, c)
  BY <1>8 DEF subscribe, RunCallback, TypeOK
<1>9. ASSUME NEW d \in Channels, NEW echo \in BOOLEAN, publish(t, d, echo) PROVE Missed(u, c)
  BY <1>9 DEF publish, TypeOK
<1>10. ASSUME NEW v \in Threads, NotifyLock(t, v) PROVE Missed(u, c)
  BY <1>10 DEF NotifyLock, TypeOK
<1>11. ASSUME Signal(t) PROVE Missed(u, c)
  BY <1>11 DEF Signal, TypeOK
<1>12. ASSUME unsubscribe_all(t) \/ remove(t) \/ InsertDone(t) PROVE Missed(u, c)
  BY <1>12 DEF unsubscribe_all, remove, InsertDone, TypeOK
<1>13. ASSUME PollFound(t) \/ Wait(t) \/ SpuriousWake(t) \/ Timeout(t) PROVE Missed(u, c)
  BY <1>13 DEF PollFound, Wait, SpuriousWake, Timeout, TypeOK
<1> QED
  BY <1>0, <1>1, <1>2, <1>3, <1>4, <1>5, <1>6, <1>7, <1>8, <1>9, <1>10, <1>11, <1>12, <1>13
  DEF Step, Choose, Continue, _poll_all, Wake

\* Every step of a thread preserves NoLostWakeup.
LEMMA WakeupStep ==
    ASSUME TypeOK, TypeOK', Limbo, NoLostWakeup, NEW t \in Threads, Step(t)
    PROVE  NoLostWakeup'
<1> USE DEF subVars, pubVars, pollVars
<1> SUFFICES ASSUME NEW u \in Threads, pc'[u] = "wait", data_'[u] # Empty
             PROVE  \E p \in Threads : WillNotify(p, u)'
  BY DEF NoLostWakeup
<1>0. PICK c \in Channels : data_'[u][c] # <<>>
  BY DEF TypeOK, Empty
<1>1. ASSUME pc[u] = "wait", data_[u][c] # <<>> PROVE \E p \in Threads : WillNotify(p, u)'
  <2>1. data_[u] # Empty
    BY <1>1 DEF Empty
  <2>2. PICK p \in Threads : WillNotify(p, u)
    BY <1>1, <2>1 DEF NoLostWakeup
  <2> QED BY <2>2, WillNotifyStays
<1>2. ASSUME NEW v \in Threads, Insert(t, v) PROVE \E p \in Threads : WillNotify(p, u)'
  <2>1. CASE v = u
    <3>1. publishing'[t].notify = publishing[t].notify \cup {u}
      BY <1>2, <2>1, InsertEffect
    <3> QED BY <1>2, <3>1 DEF Insert, WillNotify
  <2>2. CASE v # u
    <3>1. \A w \in Threads, d \in Channels :
             w # v \/ d # publishing[t].chan => data_'[w][d] = data_[w][d]
      BY <1>2, InsertEffect
    <3> QED BY <1>2, <1>1, <1>0, <2>2, <3>1 DEF Insert
  <2> QED BY <2>1, <2>2
<1>3. ASSUME Wait(t) PROVE \E p \in Threads : WillNotify(p, u)'
  <2>1. CASE u # t
    BY <1>3, <1>1, <1>0, <2>1 DEF Wait, TypeOK
  <2>2. CASE u = t
    <3>1. PICK p \in Threads : WillLock(p, u)
      BY <1>3, <1>0, <2>2 DEF Wait, Limbo
    <3>2. pc[t] = "poll" /\ WillNotify(p, u) /\ p # t
      BY <1>3, <3>1 DEF Wait, WillLock, WillNotify
    <3> QED BY <1>3, <3>2 DEF Wait, WillNotify, TypeOK
  <2> QED BY <2>1, <2>2
<1>4. ASSUME NEW s \in Stores, poll(t, s) PROVE pc[u] = "wait" /\ data_[u][c] # <<>>
  BY <1>4, <1>0 DEF poll, TypeOK
<1>5. ASSUME PublishDone(t) PROVE pc[u] = "wait" /\ data_[u][c] # <<>>
  BY <1>5, <1>0 DEF PublishDone, TypeOK
<1>14. ASSUME EndCallback(t) PROVE pc[u] = "wait" /\ data_[u][c] # <<>>
  BY <1>14, <1>0 DEF EndCallback, TypeOK
<1>6. ASSUME NEW d \in Channels, unsubscribe(t, d) PROVE pc[u] = "wait" /\ data_[u][c] # <<>>
  BY <1>6, <1>0 DEF unsubscribe, RemoveChannels, TypeOK
<1>7. ASSUME NEW s \in Stores, unsubscribe_all_groups(t, s)
      PROVE  pc[u] = "wait" /\ data_[u][c] # <<>>
  BY <1>7, <1>0 DEF unsubscribe_all_groups, RemoveChannels, TypeOK
<1>8. ASSUME NEW d \in Channels, subscribe(t, d) \/ RunCallback(t, d)
      PROVE  pc[u] = "wait" /\ data_[u][c] # <<>>
  BY <1>8, <1>0 DEF subscribe, RunCallback, TypeOK
<1>9. ASSUME NEW d \in Channels, NEW echo \in BOOLEAN, publish(t, d, echo)
      PROVE  pc[u] = "wait" /\ data_[u][c] # <<>>
  BY <1>9, <1>0 DEF publish, TypeOK
<1>10. ASSUME NEW v \in Threads, NotifyLock(t, v) PROVE pc[u] = "wait" /\ data_[u][c] # <<>>
  BY <1>10, <1>0 DEF NotifyLock, TypeOK
<1>11. ASSUME Signal(t) \/ BeginRound(t) PROVE pc[u] = "wait" /\ data_[u][c] # <<>>
  BY <1>11, <1>0 DEF Signal, BeginRound, TypeOK
<1>12. ASSUME unsubscribe_all(t) \/ remove(t) \/ InsertDone(t)
       PROVE  pc[u] = "wait" /\ data_[u][c] # <<>>
  BY <1>12, <1>0, ZenonT(40) DEF unsubscribe_all, remove, InsertDone, TypeOK
<1>13. ASSUME PollFound(t) \/ SpuriousWake(t) \/ Timeout(t)
       PROVE  pc[u] = "wait" /\ data_[u][c] # <<>>
  BY <1>13, <1>0 DEF PollFound, SpuriousWake, Timeout, TypeOK
<1> QED
  BY <1>1, <1>2, <1>3, <1>4, <1>5, <1>6, <1>7, <1>8, <1>9, <1>10, <1>11, <1>12, <1>13,
     <1>14
  DEF Step, Choose, Continue, _poll_all, Wake

-----------------------------------------------------------------------------
\* The initial state satisfies the inductive invariant.
LEMMA InitSafe == Init => Safe
<1> SUFFICES ASSUME Init PROVE Safe
  OBVIOUS
<1>1. TypeOK
  <2>1. \A p \in Threads : NoPublication(p) \in CallType
    BY DEF NoPublication, Publication, CallType
  <2>2. publishing \in CallsType
    BY <2>1 DEF Init, CallsType
  <2>3. data_ \in QueuesType /\ batch \in QueuesType
    BY DEF Init, Empty, QueuesType
  <2>4. /\ stores_ \in [Threads -> SUBSET Stores] /\ leaving \in [Threads -> SUBSET Stores]
        /\ pc \in [Threads -> Locations] /\ poll_mutex \in [Threads -> BOOLEAN]
    BY DEF Init, Locations
  <2>5. /\ subscriptions \in SubscriptionsType
        /\ published \in [Threads -> Nat] /\ subscribed \in [Threads -> Nat]
        /\ spurious \in [Threads -> Nat]
        /\ entered \in [Threads -> [Channels -> [Threads -> Nat]]]
    BY DEF Init, SubscriptionsType
  <2>6. polled \in [Threads -> RoundType]
    BY DEF Init, RoundType
  <2>7. \A t \in Threads, c \in Channels : ~ (subscriptions[c][t] > 0)
    BY DEF Init
  <2> QED
    BY <2>2, <2>3, <2>4, <2>5, <2>6, <2>7
    DEF TypeOK, CallsType, CallType, QueuesType, SubscriptionsType, RoundType
<1>2. Numbered /\ Locks /\ Queues /\ Limbo /\ NoLostWakeup
  BY DEF Init, Empty, Numbered, Locks, InCallback, InPublish, Queues, Limbo, NoLostWakeup
<1> QED BY <1>1, <1>2 DEF Safe

\* Every step preserves it.
LEMMA NextSafe == Safe /\ [Next]_vars => Safe'
<1> SUFFICES ASSUME Safe, [Next]_vars PROVE Safe'
  OBVIOUS
<1>1. CASE Next
  <2>1. PICK t \in Threads : Step(t)
    BY <1>1 DEF Next, Step
  <2>2. TypeOK'
    BY <2>1, TypeStep DEF Safe
  <2>3. Numbered'
    BY <2>1, NumberedStep DEF Safe
  <2>4. Locks'
    BY <2>1, LocksStep DEF Safe
  <2>5. Queues'
    BY <2>1, QueuesStep DEF Safe
  <2>6. Limbo'
    BY <2>1, LimboStep DEF Safe
  <2>7. NoLostWakeup'
    BY <2>1, <2>2, WakeupStep DEF Safe
  <2> QED BY <2>2, <2>3, <2>4, <2>5, <2>6, <2>7 DEF Safe
<1>2. CASE UNCHANGED vars
  BY <1>2, ZenonT(40) DEF vars, subVars, pubVars, pollVars, Safe, TypeOK, Numbered, Locks, InCallback,
              InPublish, Queues, Limbo, WillLock, WillNotify, NoLostWakeup
<1> QED BY <1>1, <1>2

\* The inductive invariant holds in every behaviour.
LEMMA AlwaysSafe == Spec => []Safe
  BY InitSafe, NextSafe, PTL DEF Spec

\* The type invariant: every variable keeps its type, and poll_all() polls the
\* stores of all the subscriptions of its thread.
THEOREM TypeCorrect == Spec => []TypeOK
<1>1. Safe => TypeOK
  BY DEF Safe
<1> QED BY <1>1, AlwaysSafe, PTL

\* No thread waits on its condition variable with data in its queues unless a
\* publish() call is still to notify it.
THEOREM WakeupsNotLost == Spec => []NoLostWakeup
<1>1. Safe => NoLostWakeup
  BY DEF Safe
<1> QED BY <1>1, AlwaysSafe, PTL

\* No thread publishes, or runs a callback, with its poll_mutex held.
THEOREM UnlockedInPublish == Spec => []PublishesUnlocked
<1>1. Safe => PublishesUnlocked
  BY DEF Safe, Locks, PublishesUnlocked
<1> QED BY <1>1, AlwaysSafe, PTL

-----------------------------------------------------------------------------
(***************************************************************************)
(* What the refinement needs beyond the invariant Safe.                    *)
(***************************************************************************)
\* No thread is subscribed twice to a channel.
Single == \A c \in Channels, t \in Threads : subscriptions[c][t] <= 1

\* What a publisher has still to insert, it inserts once, and it is newer than
\* all that it has inserted before.
Newer ==
    \A p, t \in Threads, c \in Channels :
        /\ entered[t][c][p] <= published[p]
        /\ pc[p] = "insert" /\ publishing[p].to[t] > 0 /\ publishing[p].chan = c
              => publishing[p].to[t] <= 1 /\ entered[t][c][p] < published[p]

\* Only a thread that runs callbacks has collected data.
Batches == \A t \in Threads : ~ InCallback(t) => batch[t] = Empty

Refines == Safe /\ Single /\ Newer /\ Batches

-----------------------------------------------------------------------------
(***************************************************************************)
(* The steps preserve it.                                                  *)
(***************************************************************************)
\* The steps that change neither what is queued, nor collected, nor published.
Quiet(t) ==
    \/ \E c \in Channels : subscribe(t, c)
    \/ \E u \in Threads : NotifyLock(t, u)
    \/ unsubscribe_all(t) \/ remove(t) \/ InsertDone(t) \/ Signal(t) \/ PublishDone(t)
    \/ BeginRound(t) /\ pc[t] \in {"user", "woken"}
    \/ EndCallback(t) \/ PollFound(t) \/ Wait(t) \/ SpuriousWake(t) \/ Timeout(t)

\* An unsubscription, from one channel or from all of a store.
Unsubscription(t) ==
    \/ \E c \in Channels : unsubscribe(t, c)
    \/ \E s \in Stores : unsubscribe_all_groups(t, s)

\* A step of a thread is one of those that move data, or leaves them where
\* they are.
LEMMA KindsOfStep ==
    ASSUME NEW t \in Threads, Step(t)
    PROVE  \/ Quiet(t)
           \/ Unsubscription(t)
           \/ \E c \in Channels, echo \in BOOLEAN : publish(t, c, echo)
           \/ \E u \in Threads : Insert(t, u)
           \/ \E c \in Channels : RunCallback(t, c)
           \/ \E s \in Stores : poll(t, s)
  BY DEF Step, Choose, Continue, Quiet, Unsubscription, _poll_all, Wake

\* A quiet step moves no data and begins no publication.
LEMMA QuietEffect ==
    ASSUME TypeOK, NEW t \in Threads, Quiet(t)
    PROVE  /\ UNCHANGED <<data_, batch, published, entered>>
           /\ \A p \in Threads : pc'[p] = "insert" =>
                 pc[p] = "insert" /\ publishing'[p] = publishing[p]
<1> USE DEF subVars, pubVars, pollVars
<1> DEFINE Goal == /\ UNCHANGED <<data_, batch, published, entered>>
                   /\ \A p \in Threads : pc'[p] = "insert" =>
                         pc[p] = "insert" /\ publishing'[p] = publishing[p]
<1>1. ASSUME NEW c \in Channels, subscribe(t, c) PROVE Goal
  BY <1>1 DEF subscribe
<1>2. ASSUME NEW u \in Threads, NotifyLock(t, u) PROVE Goal
  BY <1>2 DEF NotifyLock, TypeOK
<1>3. ASSUME unsubscribe_all(t) PROVE Goal
  BY <1>3 DEF unsubscribe_all, TypeOK
<1>4. ASSUME remove(t) \/ InsertDone(t) PROVE Goal
  BY <1>4 DEF remove, InsertDone, TypeOK
<1>5. ASSUME Signal(t) PROVE Goal
  BY <1>5 DEF Signal, TypeOK
<1>6. ASSUME PublishDone(t) PROVE Goal
  BY <1>6 DEF PublishDone, TypeOK
<1>7. ASSUME BeginRound(t) \/ EndCallback(t) \/ PollFound(t) \/ Wait(t) PROVE Goal
  BY <1>7 DEF BeginRound, EndCallback, PollFound, Wait, TypeOK
<1>8. ASSUME SpuriousWake(t) \/ Timeout(t) PROVE Goal
  BY <1>8 DEF SpuriousWake, Timeout, TypeOK
<1> QED BY <1>1, <1>2, <1>3, <1>4, <1>5, <1>6, <1>7, <1>8 DEF Quiet

\* An unsubscription removes whole queues, of the thread itself only.
LEMMA UnsubscriptionEffect ==
    ASSUME TypeOK, NEW t \in Threads, Unsubscription(t)
    PROVE  /\ UNCHANGED <<pc, batch, pubVars>>
           /\ \A u \in Threads, c \in Channels :
                 /\ subscriptions'[c][u] = 0 \/ subscriptions'[c][u] = subscriptions[c][u]
                 /\ data_'[u][c] = data_[u][c] \/ (u = t /\ data_'[u][c] = <<>>)
<1>1. PICK C \in SUBSET Channels : RemoveChannels(t, C) /\ UNCHANGED pc
  BY DEF Unsubscription, unsubscribe, unsubscribe_all_groups
<1>2. ASSUME NEW u \in Threads, NEW c \in Channels
      PROVE  /\ subscriptions'[c][u] = 0 \/ subscriptions'[c][u] = subscriptions[c][u]
             /\ data_'[u][c] = data_[u][c] \/ (u = t /\ data_'[u][c] = <<>>)
  <2>1. subscriptions'[c][u] = 0 \/ subscriptions'[c][u] = subscriptions[c][u]
    BY <1>1 DEF RemoveChannels, TypeOK
  <2>2. data_'[u][c] = data_[u][c] \/ (u = t /\ data_'[u][c] = <<>>)
    BY <1>1 DEF RemoveChannels, TypeOK
  <2> QED BY <2>1, <2>2
<1> QED BY <1>1, <1>2 DEF RemoveChannels, pubVars, pollVars

\* Every step of a thread preserves Single, if subscribe() is not called for a
\* channel that the thread is already subscribed to.
LEMMA SingleStep ==
    ASSUME MaxPerChannel = 1, TypeOK, Single, NEW t \in Threads, Step(t)
    PROVE  Single'
<1> USE DEF subVars, pubVars, pollVars
<1> SUFFICES ASSUME NEW c \in Channels, NEW u \in Threads PROVE subscriptions'[c][u] <= 1
  BY DEF Single
<1>0. subscriptions[c][u] <= 1 /\ subscriptions[c][u] \in Nat  BY DEF Single, TypeOK
<1>1. ASSUME NEW d \in Channels, subscribe(t, d) PROVE subscriptions'[c][u] <= 1
  <2>1. CASE d = c /\ u = t
    <3>1. subscriptions'[c][u] = subscriptions[c][u] + 1 /\ subscriptions[c][u] < 1
      BY <1>1, <2>1 DEF subscribe, TypeOK
    <3> QED BY <3>1, <1>0
  <2>2. CASE ~ (d = c /\ u = t)
    BY <1>0, <1>1, <2>2, SubscribeEffect
  <2> QED BY <2>1, <2>2
<1>2. ASSUME Unsubscription(t) PROVE subscriptions'[c][u] <= 1
  <2>1. subscriptions'[c][u] = 0 \/ subscriptions'[c][u] = subscriptions[c][u]
    BY <1>2, UnsubscriptionEffect
  <2> QED BY <2>1, <1>0
<1>3. ASSUME Quiet(t), \A d \in Channels : ~ subscribe(t, d) PROVE subscriptions' = subscriptions
  BY <1>3, ZenonT(40) DEF Quiet, NotifyLock, unsubscribe_all, remove, InsertDone, Signal, PublishDone,
     BeginRound, EndCallback, PollFound, Wait, SpuriousWake, Timeout
<1>4. ASSUME NEW d \in Channels, NEW echo \in BOOLEAN, publish(t, d, echo)
      PROVE  subscriptions' = subscriptions
  BY <1>4 DEF publish
<1>5. ASSUME NEW v \in Threads, Insert(t, v) PROVE subscriptions' = subscriptions
  BY <1>5 DEF Insert
<1>6. ASSUME NEW d \in Channels, RunCallback(t, d) PROVE subscriptions' = subscriptions
  BY <1>6 DEF RunCallback
<1>7. ASSUME NEW s \in Stores, poll(t, s) PROVE subscriptions' = subscriptions
  BY <1>7 DEF poll
<1> QED BY <1>0, <1>1, <1>2, <1>3, <1>4, <1>5, <1>6, <1>7, KindsOfStep

\* What an insertion enters.
LEMMA EnteredEffect ==
    ASSUME TypeOK, NEW p \in Threads, NEW u \in Threads, Insert(p, u),
           NEW v \in Threads, NEW d \in Channels, NEW q \in Threads
    PROVE  entered'[v][d][q] = IF v = u /\ d = publishing[p].chan /\ q = p
                               THEN published[p] ELSE entered[v][d][q]
<1> DEFINE c == publishing[p].chan
<1>1. c \in Channels  BY DEF TypeOK
<1>2. entered' = [entered EXCEPT ![u][c][p] = published[p]]  BY DEF Insert
<1>3. entered \in [Threads -> [Channels -> [Threads -> Nat]]]  BY DEF TypeOK
<1> HIDE DEF c
<1>4. entered'[v][d][q] = IF v = u /\ d = c /\ q = p THEN published[p] ELSE entered[v][d][q]
  BY <1>1, <1>2, <1>3
<1> QED BY <1>4 DEF c

\* Every step of a thread preserves Newer.
LEMMA NewerStep ==
    ASSUME TypeOK, Single, Newer, NEW t \in Threads, Step(t)
    PROVE  Newer'
<1> USE DEF subVars, pubVars, pollVars
<1> SUFFICES ASSUME NEW p \in Threads, NEW u \in Threads, NEW c \in Channels
             PROVE  /\ entered'[u][c][p] <= published'[p]
                    /\ pc'[p] = "insert" /\ publishing'[p].to[u] > 0 /\ publishing'[p].chan = c
                          => publishing'[p].to[u] <= 1 /\ entered'[u][c][p] < published'[p]
  BY DEF Newer
<1>0. /\ entered[u][c][p] <= published[p]
      /\ pc[p] = "insert" /\ publishing[p].to[u] > 0 /\ publishing[p].chan = c
            => publishing[p].to[u] <= 1 /\ entered[u][c][p] < published[p]
  BY DEF Newer
<1>a. entered[u][c][p] \in Nat /\ published[p] \in Nat  BY DEF TypeOK
<1> DEFINE Goal == /\ entered'[u][c][p] <= published'[p]
                   /\ pc'[p] = "insert" /\ publishing'[p].to[u] > 0 /\ publishing'[p].chan = c
                         => publishing'[p].to[u] <= 1 /\ entered'[u][c][p] < published'[p]
<1>1. ASSUME entered'[u][c][p] = entered[u][c][p], published'[p] = published[p],
             pc'[p] = "insert" => pc[p] = "insert" /\ publishing'[p] = publishing[p]
      PROVE  Goal
  BY <1>0, <1>1
<1>2. ASSUME Quiet(t) PROVE Goal
  BY <1>1, <1>2, QuietEffect
<1>3. ASSUME Unsubscription(t) PROVE Goal
  BY <1>1, <1>3, UnsubscriptionEffect
<1>4. ASSUME NEW d \in Channels, NEW echo \in BOOLEAN, publish(t, d, echo) PROVE Goal
  <2>1. CASE p # t
    BY <1>1, <1>4, <2>1 DEF publish, TypeOK
  <2>2. CASE p = t
    <3> DEFINE to == [v \in Threads |-> IF v # t \/ echo THEN subscriptions[d][v] ELSE 0]
    <3>1. publishing'[t] = Publication(t, d, to, pc[t]) /\ published'[t] = published[t] + 1
      BY <1>4 DEF publish, TypeOK
    <3>2. publishing'[t].to = to  BY <3>1 DEF Publication
    <3>3. to[u] <= 1  BY DEF Single
    <3>4. entered'[u][c][p] = entered[u][c][p]  BY <1>4 DEF publish
    <3> HIDE DEF to
    <3> QED BY <2>2, <3>1, <3>2, <3>3, <3>4, <1>0, <1>a
  <2> QED BY <2>1, <2>2
<1>5. ASSUME NEW v \in Threads, Insert(t, v) PROVE Goal
  <2>1. published' = published /\ pc' = pc  BY <1>5 DEF Insert
  <2>2. CASE p # t
    <3>1. entered'[u][c][p] = entered[u][c][p]  BY <1>5, <2>2, EnteredEffect
    <3>2. publishing'[p] = publishing[p]  BY <1>5, <2>2, InsertEffect
    <3> QED BY <3>1, <3>2, <2>1, <1>1
  <2>3. CASE p = t /\ publishing[t].chan # c
    <3>1. entered'[u][c][p] = entered[u][c][p]  BY <1>5, <2>3, EnteredEffect
    <3>2. publishing'[t].chan = publishing[t].chan  BY <1>5, InsertEffect
    <3> QED BY <3>1, <3>2, <2>1, <2>3, <1>0
  <2>4. CASE p = t /\ publishing[t].chan = c /\ u # v
    <3>1. entered'[u][c][p] = entered[u][c][p]  BY <1>5, <2>4, EnteredEffect
    <3>2. publishing[t].to \in [Threads -> Nat]  BY DEF TypeOK
    <3>3. publishing'[t].to = [publishing[t].to EXCEPT ![v] = @ - 1]  BY <1>5, InsertEffect
    <3>4. publishing'[t].chan = publishing[t].chan  BY <1>5, InsertEffect
    <3>5. publishing'[t].to[u] = publishing[t].to[u]  BY <2>4, <3>2, <3>3
    <3> QED BY <3>1, <3>4, <3>5, <2>1, <2>4, <1>0
  <2>5. CASE p = t /\ publishing[t].chan = c /\ u = v
    <3>1. entered'[u][c][p] = published[p]  BY <1>5, <2>5, EnteredEffect
    <3>2. publishing[t].to \in [Threads -> Nat] /\ pc[t] = "insert" /\ publishing[t].to[u] > 0
      BY <1>5, <2>5 DEF TypeOK, Insert
    <3>6. publishing'[t].to = [publishing[t].to EXCEPT ![v] = @ - 1]  BY <1>5, InsertEffect
    <3>3. publishing'[t].to[u] = publishing[t].to[u] - 1  BY <2>5, <3>2, <3>6
    <3>4. publishing[t].to[u] <= 1  BY <1>0, <2>5, <3>2
    <3>5. ~ (publishing'[t].to[u] > 0)  BY <3>2, <3>3, <3>4
    <3> QED BY <3>1, <3>5, <2>1, <2>5, <1>a
  <2> QED BY <2>2, <2>3, <2>4, <2>5
<1>6. ASSUME NEW d \in Channels, RunCallback(t, d) PROVE Goal
  BY <1>1, <1>6 DEF RunCallback, TypeOK
<1>7. ASSUME NEW s \in Stores, poll(t, s) PROVE Goal
  BY <1>1, <1>7 DEF poll, TypeOK
<1> HIDE DEF Goal
<1>8. Goal
  BY <1>2, <1>3, <1>4, <1>5, <1>6, <1>7, KindsOfStep
<1> QED BY <1>8 DEF Goal

\* The remainder of a number below the divisor is the number.
LEMMA SmallModulo == ASSUME NEW n \in Nat, n # 0, NEW j \in 0..(n - 1) PROVE j % n = j
OBVIOUS

\* With one subscription, what poll() collects from a queue is the queue.
LEMMA CollectedOnce ==
    ASSUME TypeOK, Queues, Single, NEW t \in Threads, NEW c \in Channels
    PROVE  Collected(t, c) = data_[t][c]
<1>1. PICK q \in Seq(Data), k \in Nat : q = data_[t][c] /\ k = subscriptions[c][t]
  BY DEF TypeOK
<1>2. PICK L \in Nat : L = Len(q)
  OBVIOUS
<1>3. Collected(t, c) = [i \in 1..(k * L) |-> q[((i - 1) % L) + 1]]
  BY <1>1, <1>2 DEF Collected
<1>4. k <= 1 /\ (q # <<>> => k > 0)
  BY <1>1 DEF Single, Queues
<1>5. CASE q = <<>>
  <2>1. L = 0  BY <1>2, <1>5
  <2>2. 1..(k * L) = {}  BY <2>1
  <2>3. Collected(t, c) = <<>>
    <3> DEFINE f == Collected(t, c)
    <3>1. f \in Seq(Data) /\ DOMAIN f = {}  BY <1>3, <2>2, CollectedType
    <3> HIDE DEF f
    <3>2. Len(f) \in Nat /\ 1..Len(f) = {}  BY <3>1, LenProperties
    <3>3. Len(f) # 0 => 1 \in 1..Len(f)  BY <3>2
    <3>4. Len(f) = 0  BY <3>2, <3>3
    <3> QED BY <3>1, <3>4, EmptySeq DEF f
  <2> QED BY <2>3, <1>1, <1>5
<1>6. CASE q # <<>>
  <2>1. k = 1 /\ k * L = L  BY <1>4, <1>6
  <2>2. L # 0  BY <1>2, <1>6, EmptySeq
  <2>3. ASSUME NEW i \in 1..L PROVE ((i - 1) % L) + 1 = i
    <3>1. (i - 1) \in 0..(L - 1)  BY <2>3
    <3>2. PICK j \in 0..(L - 1) : j = i - 1  BY <3>1
    <3>3. j % L = j  BY <1>2, <2>2, SmallModulo
    <3> QED BY <3>2, <3>3
  <2>4. Collected(t, c) = [i \in 1..L |-> q[((i - 1) % L) + 1]]  BY <1>3, <2>1
  <2>5. q = [i \in 1..L |-> q[i]]  BY <1>2
  <2> QED BY <2>3, <2>4, <2>5, <1>1
<1> QED BY <1>5, <1>6

\* What one poll() does to the thread's data: they move from the queues of the
\* store to the batch.
LEMMA PollEffect ==
    ASSUME TypeOK, Queues, Single, NEW t \in Threads, NEW s \in Stores, poll(t, s),
           NEW c \in Channels
    PROVE  /\ c \in InStore(s) => batch'[t][c] = data_[t][c] /\ data_'[t][c] = <<>>
           /\ c \notin InStore(s) => batch'[t][c] = <<>> /\ data_'[t][c] = data_[t][c]
<1>1. batch' = [batch EXCEPT ![t] = [d \in Channels |->
                   IF d \in InStore(s) THEN Collected(t, d) ELSE <<>>]]
  BY DEF poll
<1>2. batch'[t][c] = IF c \in InStore(s) THEN Collected(t, c) ELSE <<>>
  BY <1>1 DEF TypeOK
<1>3. data_' = [data_ EXCEPT ![t] = [d \in Channels |->
                   IF d \in InStore(s) THEN <<>> ELSE data_[t][d]]]
  BY DEF poll
<1>4. data_'[t][c] = IF c \in InStore(s) THEN <<>> ELSE data_[t][c]
  BY <1>3 DEF TypeOK
<1> QED BY <1>2, <1>4, CollectedOnce

\* Every step of a thread preserves Batches.
LEMMA BatchesStep ==
    ASSUME TypeOK, batch' \in QueuesType, Queues, Single, Batches, NEW t \in Threads, Step(t)
    PROVE  Batches'
<1> USE DEF subVars, pubVars, pollVars
<1> SUFFICES ASSUME NEW p \in Threads PROVE ~ InCallback(p)' => batch'[p] = Empty
  BY DEF Batches
<1> DEFINE Goal == ~ InCallback(p)' => batch'[p] = Empty
<1>0. ~ InCallback(p) => batch[p] = Empty  BY DEF Batches
<1>1. ASSUME InCallback(p) => InCallback(p)', batch'[p] = batch[p] PROVE Goal
  BY <1>0, <1>1
<1>2. ASSUME NEW c \in Channels, NEW echo \in BOOLEAN, publish(t, c, echo) PROVE Goal
  <2>1. batch' = batch  BY <1>2 DEF publish
  <2>2. CASE p # t
    <3>1. pc'[p] = pc[p] /\ publishing'[p] = publishing[p]
      BY <1>2, <2>2 DEF publish, TypeOK
    <3> QED BY <1>1, <2>1, <3>1 DEF InCallback, InPublish
  <2>3. CASE p = t
    <3>1. pc'[t] = "insert" /\ publishing'[t].return = pc[t] /\ pc[t] \in {"user", "callback"}
      BY <1>2 DEF publish, Publication, InUserCode, TypeOK
    <3> QED BY <1>1, <2>1, <2>3, <3>1 DEF InCallback, InPublish
  <2> QED BY <2>2, <2>3
<1>3. ASSUME NEW c \in Channels, subscribe(t, c) \/ unsubscribe(t, c) PROVE Goal
  BY <1>1, <1>3 DEF subscribe, unsubscribe, RemoveChannels, InCallback, InPublish
<1>4. ASSUME NEW s \in Stores, unsubscribe_all_groups(t, s) PROVE Goal
  BY <1>1, <1>4 DEF unsubscribe_all_groups, RemoveChannels, InCallback, InPublish
<1>5. ASSUME NEW c \in Channels, RunCallback(t, c) PROVE Goal
  <2>1. CASE p = t
    BY <1>5, <2>1 DEF RunCallback, TypeOK, InCallback
  <2>2. CASE p # t
    BY <1>1, <1>5, <2>2 DEF RunCallback, TypeOK, InCallback, InPublish
  <2> QED BY <2>1, <2>2
<1>6. ASSUME NEW s \in Stores, poll(t, s) PROVE Goal
  <2>1. CASE p # t
    <3>1. pc'[p] = pc[p] /\ batch'[p] = batch[p] /\ publishing' = publishing
      BY <1>6, <2>1 DEF poll, TypeOK
    <3> QED BY <1>1, <3>1 DEF InCallback, InPublish
  <2>2. CASE p = t /\ \E c \in InStore(s) : Collected(t, c) # <<>>
    <3>1. pc'[t] = "batch"  BY <1>6, <2>2 DEF poll, TypeOK
    <3> QED BY <2>2, <3>1 DEF InCallback
  <2>3. CASE p = t /\ \A c \in InStore(s) : Collected(t, c) = <<>>
    <3>1. ASSUME NEW c \in Channels PROVE batch'[t][c] = <<>>
      BY <1>6, <2>3, PollEffect, CollectedOnce
    <3>2. batch'[t] \in [Channels -> Seq(Data)]  BY DEF QueuesType
    <3>3. batch'[t] = Empty  BY <3>1, <3>2 DEF Empty
    <3> QED BY <2>3, <3>3
  <2> QED BY <2>1, <2>2, <2>3
<1>7. ASSUME NEW u \in Threads, Insert(t, u) PROVE Goal
  <2>1. publishing'[p].return = publishing[p].return  BY <1>7, InsertEffect
  <2> QED BY <1>1, <1>7, <2>1 DEF Insert, InCallback, InPublish
<1>8. ASSUME NEW u \in Threads, NotifyLock(t, u) PROVE Goal
  <2>1. publishing'[p].return = publishing[p].return  BY <1>8 DEF NotifyLock, TypeOK
  <2>2. InCallback(p)' <=> InCallback(p)
    BY <1>8, <2>1 DEF NotifyLock, TypeOK, InCallback, InPublish
  <2> QED BY <1>1, <1>8, <2>2 DEF NotifyLock
<1>9. ASSUME unsubscribe_all(t) PROVE Goal
  <2>1. pc' = pc \/ (pc[t] = "user" /\ pc' = [pc EXCEPT ![t] = "exit"])
    BY <1>9 DEF unsubscribe_all
  <2> QED BY <1>1, <1>9, <2>1 DEF unsubscribe_all, TypeOK, InCallback, InPublish
<1>10. ASSUME remove(t) \/ InsertDone(t) PROVE Goal
  BY <1>1, <1>10 DEF remove, InsertDone, TypeOK, InCallback, InPublish
<1>11. ASSUME Signal(t) PROVE Goal
  <2>1. publishing'[p].return = publishing[p].return  BY <1>11 DEF Signal, TypeOK
  <2> QED BY <1>1, <1>11, <2>1 DEF Signal, TypeOK, InCallback, InPublish
<1>12. ASSUME PublishDone(t) PROVE Goal
  <2>1. CASE p # t
    BY <1>1, <1>12, <2>1 DEF PublishDone, TypeOK, InCallback, InPublish
  <2>2. CASE p = t
    <3>1. pc'[t] = publishing[t].return /\ pc[t] = "notify" /\ batch' = batch
      BY <1>12 DEF PublishDone, TypeOK
    <3> QED BY <1>1, <2>2, <3>1 DEF InCallback, InPublish
  <2> QED BY <2>1, <2>2
<1>13. ASSUME BeginRound(t), pc[t] \in {"user", "woken"} PROVE Goal
  BY <1>1, <1>13 DEF BeginRound, TypeOK, InCallback, InPublish
<1>14. ASSUME EndCallback(t) PROVE Goal
  <2>1. CASE p # t
    BY <1>1, <1>14, <2>1 DEF EndCallback, TypeOK, InCallback, InPublish
  <2>2. CASE p = t
    <3>1. batch' = batch /\ (batch[t] # Empty => pc'[t] = "batch")
      BY <1>14 DEF EndCallback, TypeOK
    <3> QED BY <2>2, <3>1 DEF InCallback
  <2> QED BY <2>1, <2>2
<1>15. ASSUME PollFound(t) \/ Wait(t) PROVE Goal
  BY <1>1, <1>15, ZenonT(40) DEF PollFound, Wait, TypeOK, InCallback, InPublish
<1>16. ASSUME SpuriousWake(t) \/ Timeout(t) PROVE Goal
  BY <1>1, <1>16, ZenonT(40) DEF SpuriousWake, Timeout, TypeOK, InCallback, InPublish
<1> HIDE DEF Goal
<1>17. Goal
  BY <1>2, <1>3, <1>4, <1>5, <1>6, <1>7, <1>8, <1>9, <1>10, <1>11, <1>12, <1>13,
     <1>14, <1>15, <1>16, KindsOfStep DEF Quiet, Unsubscription
<1> QED BY <1>17 DEF Goal

\* The strengthened invariant.
LEMMA AlwaysRefines == MaxPerChannel = 1 => (Spec => []Refines)
<1> SUFFICES ASSUME MaxPerChannel = 1 PROVE Spec => []Refines
  OBVIOUS
<1>1. Init => Refines
  <2> SUFFICES ASSUME Init PROVE Refines
    OBVIOUS
  <2>1. Safe  BY InitSafe
  <2>2. Single
    <3>1. \A c \in Channels, t \in Threads : subscriptions[c][t] = 0  BY DEF Init
    <3> QED BY <3>1 DEF Single
  <2>3. Newer  BY DEF Init, Newer
  <2>4. Batches  BY DEF Init, Batches
  <2> QED BY <2>1, <2>2, <2>3, <2>4 DEF Refines
<1>2. Refines /\ [Next]_vars => Refines'
  <2> SUFFICES ASSUME Refines, [Next]_vars PROVE Refines'
    OBVIOUS
  <2>1. Safe'  BY NextSafe DEF Refines
  <2>2. CASE Next
    <3>1. PICK t \in Threads : Step(t)  BY <2>2 DEF Next, Step
    <3>2. TypeOK /\ TypeOK' /\ Locks /\ Queues  BY <2>1 DEF Refines, Safe
    <3>3. Single /\ Newer /\ Batches  BY DEF Refines
    <3>4. Single'  BY <3>1, <3>2, <3>3, SingleStep
    <3>5. Newer'  BY <3>1, <3>2, <3>3, NewerStep
    <3>7. batch' \in QueuesType  BY <3>2 DEF TypeOK, QueuesType
    <3>6. Batches'  BY <3>1, <3>2, <3>3, <3>7, BatchesStep
    <3> QED BY <2>1, <3>4, <3>5, <3>6 DEF Refines
  <2>3. CASE UNCHANGED vars
    BY <2>1, <2>3 DEF Refines, Single, Newer, Batches, InCallback, InPublish, vars, subVars,
                      pubVars, pollVars
  <2> QED BY <2>2, <2>3
<1> QED BY <1>1, <1>2, PTL DEF Spec

-----------------------------------------------------------------------------
(***************************************************************************)
(* The refinement, step by step.                                           *)
(***************************************************************************)
\* Mailboxes that are equal one by one are equal.
LEMMA SameBoxes ==
    ASSUME NEW f \in QueuesType, NEW g \in QueuesType,
           \A t \in Threads, c \in Channels : f[t][c] = g[t][c]
    PROVE  f = g
<1>1. ASSUME NEW t \in Threads PROVE f[t] = g[t]
  <2>1. f[t] \in [Channels -> Seq(Data)] /\ g[t] \in [Channels -> Seq(Data)]
    BY DEF QueuesType
  <2> QED BY <2>1
<1> QED BY <1>1 DEF QueuesType

\* One mailbox replaced.
LEMMA OneBox ==
    ASSUME NEW f \in QueuesType, NEW g \in QueuesType, NEW t \in Threads, NEW c \in Channels,
           \A u \in Threads, d \in Channels : u # t \/ d # c => g[u][d] = f[u][d]
    PROVE  g = [f EXCEPT ![t][c] = g[t][c]]
<1> DEFINE h == [f EXCEPT ![t][c] = g[t][c]]
<1>1. f[t] \in [Channels -> Seq(Data)] /\ g[t] \in [Channels -> Seq(Data)]  BY DEF QueuesType
<1>2. g[t] = [f[t] EXCEPT ![c] = g[t][c]]
  <2>1. ASSUME NEW d \in Channels PROVE g[t][d] = [f[t] EXCEPT ![c] = g[t][c]][d]
    BY <1>1
  <2> QED BY <1>1, <2>1
<1>3. ASSUME NEW u \in Threads, u # t PROVE g[u] = f[u]
  <2>1. f[u] \in [Channels -> Seq(Data)] /\ g[u] \in [Channels -> Seq(Data)]  BY DEF QueuesType
  <2>2. \A d \in Channels : g[u][d] = f[u][d]  BY <1>3
  <2> QED BY <2>1, <2>2
<1>4. h = [f EXCEPT ![t] = [f[t] EXCEPT ![c] = g[t][c]]]  BY DEF QueuesType
<1>5. g = [f EXCEPT ![t] = g[t]]
  BY <1>3 DEF QueuesType
<1> QED BY <1>2, <1>4, <1>5

\* The data collected and the data queued, one after the other.
Boxes(b, q) == [t \in Threads |-> [c \in Channels |-> b[t][c] \o q[t][c]]]

\* A mailbox is the collected batch, then the queue in the store.
LEMMA BoxesType ==
    ASSUME NEW b \in QueuesType, NEW q \in QueuesType
    PROVE  /\ Boxes(b, q) \in QueuesType
           /\ \A t \in Threads, c \in Channels :
                 /\ Boxes(b, q)[t][c] = b[t][c] \o q[t][c]
                 /\ b[t][c] \in Seq(Data) /\ q[t][c] \in Seq(Data)
<1>1. \A t \in Threads, c \in Channels : b[t][c] \in Seq(Data) /\ q[t][c] \in Seq(Data)
  BY DEF QueuesType
<1>2. \A t \in Threads, c \in Channels : b[t][c] \o q[t][c] \in Seq(Data)
  BY <1>1, ConcatProperties
<1> QED BY <1>1, <1>2 DEF Boxes, QueuesType

\* A datum added to the queue is added to the mailbox; a datum taken from the
\* batch is taken from the mailbox.
LEMMA AppendBox ==
    ASSUME NEW x \in Seq(Data), NEW y \in Seq(Data), NEW m \in Data
    PROVE  Append(x \o y, m) = x \o Append(y, m)
<1>1. <<m>> \in Seq(Data) /\ x \o y \in Seq(Data)  BY ConcatProperties
<1>2. Append(x \o y, m) = (x \o y) \o <<m>> /\ Append(y, m) = y \o <<m>>
  BY <1>1, AppendIsConcat
<1>3. (x \o y) \o <<m>> = x \o (y \o <<m>>)  BY <1>1, ConcatAssociative
<1> QED BY <1>2, <1>3

\* To run a callback on the first of the batch is to read the first of the
\* mailbox.
LEMMA TailBox ==
    ASSUME NEW x \in Seq(Data), NEW y \in Seq(Data), x # <<>>
    PROVE  x \o y # <<>> /\ Tail(x \o y) = Tail(x) \o y
  BY SMTT(30)

\* What was collected for delivery is a prefix of the mailbox.
LEMMA CollectedIsPrefix ==
    ASSUME NEW S, NEW x \in Seq(S), NEW y \in Seq(S)
    PROVE  /\ Len(x) \in 0..Len(x \o y) /\ Len(x \o y) \in 0..Len(x \o y)
           /\ x = SubSeq(x \o y, 1, Len(x))
           /\ x \o y = SubSeq(x \o y, 1, Len(x \o y))
<1>1. Len(x) \in Nat /\ Len(y) \in Nat /\ x \o y \in Seq(S) /\ Len(x \o y) = Len(x) + Len(y)
  BY ConcatProperties, LenProperties
<1>2. x = SubSeq(x \o y, 1, Len(x))
  <2>1. CASE Len(x) = 0
    <3>1. x = <<>>  BY <2>1, EmptySeq
    <3>2. SubSeq(x \o y, 1, Len(x)) = <<>>  BY <2>1, SubSeqEmpty
    <3> QED BY <3>1, <3>2
  <2>2. CASE Len(x) # 0
    <3>1. 1 \in 1..Len(x) /\ Len(x) \in 1..Len(x)  BY <1>1, <2>2
    <3>2. SubSeq(x \o y, 1, Len(x)) = SubSeq(x, 1, Len(x))  BY <3>1, SubSeqOfConcat1
    <3> QED BY <3>2, SubSeqFull
  <2> QED BY <2>1, <2>2
<1>3. x \o y = SubSeq(x \o y, 1, Len(x \o y))  BY <1>1, SubSeqFull
<1> QED BY <1>1, <1>2, <1>3

\* Every step of a thread is a step of the mailboxes, or changes none of them.
LEMMA StepRefines ==
    ASSUME Refines, data_' \in QueuesType, batch' \in QueuesType, NEW t \in Threads, Step(t)
    PROVE  Mail!Next \/ UNCHANGED <<Undelivered, entered>>
<1> USE DEF subVars, pubVars, pollVars
<1>0. TypeOK /\ Queues /\ Numbered /\ Single /\ Newer /\ Batches  BY DEF Refines, Safe
<1>1. /\ data_ \in QueuesType /\ batch \in QueuesType
      /\ data_' \in QueuesType /\ batch' \in QueuesType
  BY <1>0 DEF TypeOK, QueuesType
<1>2. Undelivered = Boxes(batch, data_) /\ Undelivered' = Boxes(batch', data_')
  BY DEF Undelivered, Boxes
<1>3. /\ Undelivered \in QueuesType /\ Undelivered' \in QueuesType
      /\ \A u \in Threads, c \in Channels :
            /\ Undelivered[u][c] = batch[u][c] \o data_[u][c]
            /\ Undelivered'[u][c] = batch'[u][c] \o data_'[u][c]
            /\ batch[u][c] \in Seq(Data) /\ data_[u][c] \in Seq(Data)
  <2>1. /\ Boxes(batch, data_) \in QueuesType
        /\ \A u \in Threads, c \in Channels :
              /\ Boxes(batch, data_)[u][c] = batch[u][c] \o data_[u][c]
              /\ batch[u][c] \in Seq(Data) /\ data_[u][c] \in Seq(Data)
    BY ONLY <1>1, BoxesType, ZenonT(40)
  <2>2. /\ Boxes(batch', data_') \in QueuesType
        /\ \A u \in Threads, c \in Channels :
              Boxes(batch', data_')[u][c] = batch'[u][c] \o data_'[u][c]
    BY ONLY <1>1, BoxesType, ZenonT(40)
  <2> QED BY ONLY <2>1, <2>2, <1>2
<1>4. ASSUME Quiet(t) PROVE UNCHANGED <<Undelivered, entered>>
  BY <1>0, <1>2, <1>4, QuietEffect
<1>5. ASSUME NEW c \in Channels, NEW echo \in BOOLEAN, publish(t, c, echo)
      PROVE  UNCHANGED <<Undelivered, entered>>
  BY <1>2, <1>5 DEF publish
<1>6. ASSUME NEW u \in Threads, Insert(t, u) PROVE Mail!Next
  <2> DEFINE c == publishing[t].chan
             m == [src |-> t, num |-> published[t]]
  <2>1. c \in Channels  BY <1>0 DEF TypeOK
  <2>2. published[t] \in Numbers
    BY <1>0, <1>6 DEF TypeOK, Numbered, Insert, Numbers
  <2>3. m \in Data  BY <2>2 DEF Data
  <2>4. published[t] > entered[u][c][t]
    <3>1. entered[u][c][t] < published[t]  BY <1>0, <1>6, <2>1 DEF Newer, Insert
    <3>2. entered[u][c][t] \in Nat /\ published[t] \in Nat  BY <1>0, <2>1 DEF TypeOK
    <3> QED BY <3>1, <3>2
  <2>5. /\ entered' = [entered EXCEPT ![u][c][t] = published[t]]
        /\ data_' = [data_ EXCEPT ![u][c] = Append(@, m)]
        /\ batch' = batch
    BY <1>6 DEF Insert
  <2> HIDE DEF c, m
  <2>6. Undelivered' = [Undelivered EXCEPT ![u][c] = Append(@, m)]
    <3> DEFINE x == batch[u][c]
               y == data_[u][c]
    <3>1. /\ data_'[u][c] = Append(y, m)
          /\ \A v \in Threads, d \in Channels : v # u \/ d # c => data_'[v][d] = data_[v][d]
      <4>1. data_ \in QueuesType  BY <1>1
      <4> QED BY ONLY <4>1, <2>1, <2>5, u \in Threads DEF QueuesType
    <3>2. /\ Undelivered[u][c] = x \o y /\ Undelivered'[u][c] = x \o Append(y, m)
          /\ x \in Seq(Data) /\ y \in Seq(Data)
      <4>1. batch'[u][c] = x  BY <2>5
      <4>2. Undelivered[u][c] = x \o y /\ x \in Seq(Data) /\ y \in Seq(Data)
        BY ONLY <1>3, <2>1, u \in Threads
      <4>3. Undelivered'[u][c] = batch'[u][c] \o data_'[u][c]
        BY ONLY <1>3, <2>1, u \in Threads
      <4> HIDE DEF x, y
      <4> QED BY ONLY <4>1, <4>2, <4>3, <3>1
    <3>3. Append(x \o y, m) = x \o Append(y, m)
      <4> HIDE DEF x, y
      <4> QED BY <2>3, <3>2, AppendBox
    <3>4. Undelivered'[u][c] = Append(Undelivered[u][c], m)
      BY ONLY <3>2, <3>3
    <3>5. ASSUME NEW v \in Threads, NEW d \in Channels, v # u \/ d # c
          PROVE  Undelivered'[v][d] = Undelivered[v][d]
      <4>1. batch'[v][d] = batch[v][d] /\ data_'[v][d] = data_[v][d]  BY <2>5, <3>1, <3>5
      <4> QED BY ONLY <4>1, <1>3, v \in Threads, d \in Channels
    <3>6. Undelivered' = [Undelivered EXCEPT ![u][c] = Undelivered'[u][c]]
      BY <1>3, <2>1, <3>5, OneBox
    <3> QED BY ONLY <3>4, <3>6
  <2>7. Mail!Enter(u, c, t, published[t])
    BY <2>4, <2>5, <2>6 DEF Mail!Enter, m
  <2> QED BY <2>1, <2>2, <2>7 DEF Mail!Next
<1>7. ASSUME NEW c \in Channels, RunCallback(t, c) PROVE Mail!Next
  <2>1. /\ batch[t][c] # <<>> /\ batch' = [batch EXCEPT ![t][c] = Tail(@)]
        /\ data_' = data_ /\ entered' = entered
    BY <1>7 DEF RunCallback
  <2>2. Undelivered[t][c] # <<>> /\ Undelivered' = [Undelivered EXCEPT ![t][c] = Tail(@)]
    <3> DEFINE x == batch[t][c]
               y == data_[t][c]
    <3>1. /\ batch'[t][c] = Tail(x)
          /\ \A v \in Threads, d \in Channels : v # t \/ d # c => batch'[v][d] = batch[v][d]
      <4>1. batch \in QueuesType  BY <1>1
      <4> QED BY ONLY <4>1, <2>1, t \in Threads, c \in Channels DEF QueuesType
    <3>2. /\ Undelivered[t][c] = x \o y /\ Undelivered'[t][c] = Tail(x) \o y
          /\ x \in Seq(Data) /\ y \in Seq(Data) /\ x # <<>>
      <4>1. /\ Undelivered[t][c] = x \o y /\ Undelivered'[t][c] = batch'[t][c] \o data_'[t][c]
            /\ x \in Seq(Data) /\ y \in Seq(Data)
        BY ONLY <1>3, t \in Threads, c \in Channels
      <4>2. x # <<>> /\ data_'[t][c] = y  BY ONLY <2>1
      <4> HIDE DEF x, y
      <4> QED BY ONLY <4>1, <4>2, <3>1
    <3>3. x \o y # <<>> /\ Tail(x \o y) = Tail(x) \o y
      <4> HIDE DEF x, y
      <4> QED BY <3>2, TailBox
    <3>4. Undelivered[t][c] # <<>> /\ Undelivered'[t][c] = Tail(Undelivered[t][c])
      BY ONLY <3>2, <3>3
    <3>5. ASSUME NEW v \in Threads, NEW d \in Channels, v # t \/ d # c
          PROVE  Undelivered'[v][d] = Undelivered[v][d]
      <4>1. batch'[v][d] = batch[v][d] /\ data_'[v][d] = data_[v][d]  BY <2>1, <3>1, <3>5
      <4> QED BY ONLY <4>1, <1>3, v \in Threads, d \in Channels
    <3>6. Undelivered' = [Undelivered EXCEPT ![t][c] = Undelivered'[t][c]]
      BY <1>3, <3>5, OneBox
    <3> QED BY ONLY <3>4, <3>6
  <2>3. Mail!Deliver(t, c)  BY <2>1, <2>2 DEF Mail!Deliver
  <2> QED BY <2>3 DEF Mail!Next
<1>8. ASSUME Unsubscription(t) PROVE Mail!Next
  <2>1. /\ batch' = batch /\ entered' = entered
        /\ \A u \in Threads, c \in Channels :
              data_'[u][c] = data_[u][c] \/ (u = t /\ data_'[u][c] = <<>>)
    BY <1>0, <1>8, UnsubscriptionEffect
  <2>2. \A u \in Threads, c \in Channels :
           /\ Undelivered[u][c] = batch[u][c] \o data_[u][c]
           /\ Undelivered'[u][c] = batch[u][c] \o data_'[u][c]
           /\ batch[u][c] \in Seq(Data) /\ data_[u][c] \in Seq(Data)
    BY ONLY <1>3, <2>1
  <2>3. ASSUME NEW c \in Channels
        PROVE  \E kept \in 0..Len(Undelivered[t][c]) :
                  Undelivered'[t][c] = SubSeq(Undelivered[t][c], 1, kept)
    <3> DEFINE x == batch[t][c]
               y == data_[t][c]
    <3>1. x \in Seq(Data) /\ y \in Seq(Data)  BY <2>2
    <3>2. /\ Len(x) \in 0..Len(x \o y) /\ Len(x \o y) \in 0..Len(x \o y)
          /\ x = SubSeq(x \o y, 1, Len(x))
          /\ x \o y = SubSeq(x \o y, 1, Len(x \o y))
      BY <3>1, CollectedIsPrefix
    <3>3. Undelivered'[t][c] = x \/ Undelivered'[t][c] = x \o y
      <4>1. CASE data_'[t][c] = y  BY <4>1, <2>2
      <4>2. CASE data_'[t][c] = <<>>
        <5>1. x \o <<>> = x  BY <3>1, ConcatEmptySeq
        <5> QED BY <4>2, <5>1, <2>2
      <4> QED BY <4>1, <4>2, <2>1
    <3>4. Undelivered[t][c] = x \o y  BY <2>2
    <3> HIDE DEF x, y
    <3> QED BY <3>2, <3>3, <3>4
  <2>4. ASSUME NEW u \in Threads \ {t} PROVE Undelivered'[u] = Undelivered[u]
    <3>1. ASSUME NEW c \in Channels PROVE Undelivered'[u][c] = Undelivered[u][c]
      <4>1. data_'[u][c] = data_[u][c]  BY ONLY <2>1, u \in Threads \ {t}, c \in Channels
      <4> QED BY ONLY <4>1, <2>2, u \in Threads \ {t}, c \in Channels
    <3>2. Undelivered'[u] \in [Channels -> Seq(Data)] /\ Undelivered[u] \in [Channels -> Seq(Data)]
      BY ONLY <1>3, u \in Threads \ {t} DEF QueuesType
    <3> QED BY <3>1, <3>2
  <2>5. Mail!Discard(t)  BY <2>1, <2>3, <2>4 DEF Mail!Discard
  <2> QED BY <2>5 DEF Mail!Next
<1>9. ASSUME NEW s \in Stores, poll(t, s) PROVE UNCHANGED <<Undelivered, entered>>
  <2>1. entered' = entered  BY <1>9 DEF poll
  <2>2. batch[t] = Empty
    BY <1>0, <1>9 DEF Batches, poll, InCallback, InPublish
  <2>3. ASSUME NEW u \in Threads, NEW c \in Channels
        PROVE  batch'[u][c] \o data_'[u][c] = batch[u][c] \o data_[u][c]
    <3>1. CASE u # t
      <4>1. batch'[u] = batch[u] /\ data_'[u] = data_[u]  BY <1>0, <1>9, <3>1 DEF poll, TypeOK
      <4> QED BY <4>1
    <3>2. CASE u = t
      <4>1. batch[t][c] = <<>>  BY <2>2 DEF Empty
      <4>2. data_[t][c] \in Seq(Data)  BY <1>1 DEF QueuesType
      <4>3. <<>> \o data_[t][c] = data_[t][c] /\ data_[t][c] \o <<>> = data_[t][c]
        BY <4>2, ConcatEmptySeq
      <4>4. \/ batch'[t][c] = data_[t][c] /\ data_'[t][c] = <<>>
            \/ batch'[t][c] = <<>> /\ data_'[t][c] = data_[t][c]
        BY <1>0, <1>9, PollEffect
      <4> QED BY <3>2, <4>1, <4>3, <4>4
    <3> QED BY <3>1, <3>2
  <2>4. Boxes(batch', data_') = Boxes(batch, data_)  BY <2>3 DEF Boxes
  <2> QED BY <1>2, <2>1, <2>4
<1> QED BY <1>4, <1>5, <1>6, <1>7, <1>8, <1>9, KindsOfStep

\* The interthread layer implements the mailboxes, for any threads, channels,
\* stores and bounds, when no thread subscribes to a channel twice: a datum that
\* SubscriptionStore::publish() inserts reaches each subscriber at most once, in
\* the order of its publisher, is posted to the callbacks in the order of
\* insertion, and is lost to nothing but an unsubscription, whatever threads
\* subscribe, unsubscribe, publish and poll at the same time.
THEOREM ImplementsMailboxes == MaxPerChannel = 1 => (Spec => MailboxSpec)
<1> SUFFICES ASSUME MaxPerChannel = 1 PROVE Spec => MailboxSpec
  OBVIOUS
<1>1. Init => Mail!Init
  BY DEF Init, Mail!Init, Undelivered, Empty
<1>2. Refines /\ TypeOK' /\ [Next]_vars => [Mail!Next]_<<Undelivered, entered>>
  <2> SUFFICES ASSUME Refines, TypeOK', [Next]_vars
               PROVE  Mail!Next \/ UNCHANGED <<Undelivered, entered>>
    OBVIOUS
  <2>1. CASE Next
    <3>1. PICK t \in Threads : Step(t)  BY <2>1 DEF Next, Step
    <3>2. data_' \in QueuesType /\ batch' \in QueuesType  BY DEF TypeOK, QueuesType
    <3> QED BY <3>1, <3>2, StepRefines
  <2>2. CASE UNCHANGED vars
    BY <2>2 DEF vars, subVars, pubVars, pollVars, Undelivered
  <2> QED BY <2>1, <2>2
<1>3. Refines => TypeOK  BY DEF Refines, Safe
<1>4. Spec => []Refines  BY AlwaysRefines
<1> QED BY <1>1, <1>2, <1>3, <1>4, PTL DEF Spec, MailboxSpec, Mail!Spec
=============================================================================

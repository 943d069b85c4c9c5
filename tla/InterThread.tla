---------------------------- MODULE InterThread -----------------------------
(***************************************************************************)
(* The interthread layer: goby::middleware::detail::SubscriptionStore      *)
(* (src/src/middleware/transport/detail/subscription_store.h) under        *)
(* PollerInterface::_poll_all (src/src/middleware/transport/interface.h),  *)
(* with every lock and condition variable on which the threads of a        *)
(* process meet.                                                           *)
(*                                                                         *)
(* A channel is a (data type, group) pair; StoreOf gives its data type,    *)
(* that is its SubscriptionStore.  The condition variable and the          *)
(* poll_mutex of a thread are its own; subscription_mutex_ is the store's. *)
(* Critical sections that hold a mutex throughout and touch what only it   *)
(* guards are one step: the insertion of a datum and the collection of a   *)
(* store's data (data_mutex), subscribe() and unsubscribe() (exclusive     *)
(* subscription_mutex_).  What a step sees before a lock is released and   *)
(* what it does afterwards are different steps.                            *)
(***************************************************************************)
EXTENDS Integers, Sequences

CONSTANTS
    Threads,
    Channels,
    Stores,
    StoreOf,          \* [Channels -> Stores]
    Timed,            \* the threads that poll with a timeout
    MaxPublications,  \* bounds: [Threads -> publications it makes]
    MaxSubscribes,    \* bounds: [Threads -> subscribe() calls it makes]
    MaxPerChannel,    \* bound: subscriptions a thread holds to one channel
    MaxSpurious       \* bound: spurious wake-ups per thread

ASSUME InterThreadAssumption ==
    /\ Channels # {} /\ StoreOf \in [Channels -> Stores]
    /\ Timed \subseteq Threads
    /\ MaxPublications \in [Threads -> Nat]
    /\ MaxSubscribes \in [Threads -> Nat]
    /\ MaxPerChannel \in Nat /\ MaxSpurious \in Nat

VARIABLES
    subscriptions,  \* [Channels -> [Threads -> Nat]]: entries of
                    \* subscription_groups_ (and their callbacks)
    stores_,        \* [Threads -> the stores poll_all() polls for the thread]
    data_,          \* [Threads -> [Channels -> sequence of data]]: DataQueues
    leaving,        \* [Threads -> stores unsubscribe_all() has still to visit]
    pc,             \* [Threads -> where it is]
    polled,         \* [Threads -> [left : stores still to poll in this round,
                    \*              found : whether it found any datum]]
    batch,          \* [Threads -> [Channels -> collected data to be posted]]
    poll_mutex,     \* [Threads -> whether the thread itself holds its poll_mutex]
    publishing,     \* [Threads -> the publish() call it is in]
    published,      \* [Threads -> number of publications made]
    subscribed,     \* [Threads -> number of subscribe() calls made]
    spurious,       \* [Threads -> number of spurious wake-ups]
    entered         \* history: last datum of each publisher per data queue

subVars == <<subscriptions, stores_, leaving, subscribed>>
pubVars == <<publishing, published, entered>>
pollVars == <<polled, batch, poll_mutex, spurious>>
vars == <<subVars, pubVars, pollVars, data_, pc>>

\* "user": outside poll(); "callback": in a callback; "exit", "ended": in and
\* after the destructor; "insert", "notify", "signal": in publish(); the
\* others: in _poll_all().
Locations == {"user", "callback", "exit", "ended", "insert", "notify", "signal",
              "poll", "wait", "woken", "batch"}

Numbers == UNION {1..MaxPublications[p] : p \in Threads}

Data == [src : Threads, num : Numbers]

\* to: per thread the entries still to be served; notify: the threads whose
\* condition variable is still to be notified; target: the one being notified.
Publication(p, c, to, return) ==
    [chan |-> c, to |-> to, notify |-> {}, target |-> p, return |-> return]

NoPublication(p) ==
    Publication(p, CHOOSE c \in Channels : TRUE, [u \in Threads |-> 0], "user")

Empty == [c \in Channels |-> <<>>]

Init ==
    /\ subscriptions = [c \in Channels |-> [t \in Threads |-> 0]]
    /\ stores_ = [t \in Threads |-> {}]
    /\ data_ = [t \in Threads |-> Empty]
    /\ leaving = [t \in Threads |-> {}]
    /\ pc = [t \in Threads |-> "user"]
    /\ polled = [t \in Threads |-> [left |-> {}, found |-> FALSE]]
    /\ batch = [t \in Threads |-> Empty]
    /\ poll_mutex = [t \in Threads |-> FALSE]
    /\ publishing = [p \in Threads |-> NoPublication(p)]
    /\ published = [t \in Threads |-> 0]
    /\ subscribed = [t \in Threads |-> 0]
    /\ spurious = [t \in Threads |-> 0]
    /\ entered = [t \in Threads |-> [c \in Channels |-> [p \in Threads |-> 0]]]

-----------------------------------------------------------------------------
(***************************************************************************)
(* subscribe(), unsubscribe(), unsubscribe_all(): by a thread, for itself, *)
(* from user code or a callback, under the exclusive subscription_mutex_,  *)
(* which a publish() in its insertion loop holds shared.                   *)
(***************************************************************************)
InUserCode(t) == pc[t] \in {"user", "callback"} /\ leaving[t] = {}

NoReader(s) ==
    \A p \in Threads : ~ (pc[p] = "insert" /\ StoreOf[publishing[p].chan] = s)

\* Mutant: poll_all() is not told of the new store.
subscribe_NoInsert(t, c) ==
    /\ InUserCode(t)
    /\ NoReader(StoreOf[c])
    /\ subscribed[t] < MaxSubscribes[t]
    /\ subscriptions[c][t] < MaxPerChannel
    /\ subscriptions' = [subscriptions EXCEPT ![c][t] = @ + 1]
    /\ subscribed' = [subscribed EXCEPT ![t] = @ + 1]
    /\ UNCHANGED <<stores_, data_, leaving, pc, pubVars, pollVars>>

subscribe(t, c) ==
    /\ InUserCode(t)
    /\ NoReader(StoreOf[c])
    /\ subscribed[t] < MaxSubscribes[t]
    /\ subscriptions[c][t] < MaxPerChannel
    /\ subscriptions' = [subscriptions EXCEPT ![c][t] = @ + 1]
    /\ stores_' = [stores_ EXCEPT ![t] = @ \cup {StoreOf[c]}]
    /\ subscribed' = [subscribed EXCEPT ![t] = @ + 1]
    /\ UNCHANGED <<data_, leaving, pc, pubVars, pollVars>>

\* The subscriptions of t to the channels C go, and their data queues.
RemoveChannels(t, C) ==
    /\ \A c \in C : NoReader(StoreOf[c])
    /\ subscriptions' = [c \in Channels |-> IF c \in C
            THEN [subscriptions[c] EXCEPT ![t] = 0] ELSE subscriptions[c]]
    /\ data_' = [data_ EXCEPT ![t] = [c \in Channels |->
                                          IF c \in C THEN <<>> ELSE @[c]]]
    /\ UNCHANGED <<stores_, subscribed, pubVars, pollVars>>

\* The thread must have subscribed: its entry of data_ is not checked for.
unsubscribe(t, c) ==
    /\ InUserCode(t)
    /\ subscriptions[c][t] > 0
    /\ RemoveChannels(t, {c})
    /\ UNCHANGED <<leaving, pc>>

\* The stores are visited one by one; ~InterThreadTransporter() does so too.
unsubscribe_all(t) ==
    /\ InUserCode(t)
    /\ \/ (\E c \in Channels : subscriptions[c][t] > 0) /\ UNCHANGED pc
       \/ pc[t] = "user" /\ pc' = [pc EXCEPT ![t] = "exit"]
    /\ leaving' = [leaving EXCEPT ![t] = stores_[t]]
    /\ UNCHANGED <<subscriptions, stores_, data_, subscribed, pubVars, pollVars>>

unsubscribe_all_groups(t, s) ==
    /\ s \in leaving[t]
    /\ leaving' = [leaving EXCEPT ![t] = @ \ {s}]
    /\ RemoveChannels(t, {c \in Channels : StoreOf[c] = s})
    /\ UNCHANGED pc

remove(t) ==
    /\ pc[t] = "exit"
    /\ leaving[t] = {}
    /\ stores_' = [stores_ EXCEPT ![t] = {}]
    /\ pc' = [pc EXCEPT ![t] = "ended"]
    /\ UNCHANGED <<subscriptions, data_, leaving, subscribed, pubVars, pollVars>>

-----------------------------------------------------------------------------
(***************************************************************************)
(* publish(): under the shared subscription_mutex_ the datum is pushed to  *)
(* the queue of each subscription's thread, one at a time; then, unlocked, *)
(* each of these threads is notified, after its poll_mutex was held once.  *)
(* (A thread with several subscriptions is notified as often; all but the  *)
(* last of these are spurious wake-ups to it.)                             *)
(***************************************************************************)
publish(p, c, echo) ==
    /\ InUserCode(p)
    /\ published[p] < MaxPublications[p]
    /\ published' = [published EXCEPT ![p] = @ + 1]
    /\ publishing' = [publishing EXCEPT ![p] =
           Publication(p, c, [u \in Threads |->
               IF u # p \/ echo THEN subscriptions[c][u] ELSE 0], pc[p])]
    /\ pc' = [pc EXCEPT ![p] = "insert"]
    /\ UNCHANGED <<subVars, data_, entered, pollVars>>

\* Mutant: a new datum overtakes the ones queued.
Insert_Front(p, t) ==
    LET c == publishing[p].chan
    IN  /\ pc[p] = "insert"
        /\ publishing[p].to[t] > 0
        /\ publishing' = [publishing EXCEPT ![p].to[t] = @ - 1,
                                            ![p].notify = @ \cup {t}]
        /\ data_' = [data_ EXCEPT ![t][c] =
                        <<[src |-> p, num |-> published[p]]>> \o @]
        /\ entered' = [entered EXCEPT ![t][c][p] = published[p]]
        /\ UNCHANGED <<subVars, pc, published, pollVars>>

Insert(p, t) ==
    LET c == publishing[p].chan
    IN  /\ pc[p] = "insert"
        /\ publishing[p].to[t] > 0
        /\ publishing' = [publishing EXCEPT ![p].to[t] = @ - 1,
                                            ![p].notify = @ \cup {t}]
        /\ data_' = [data_ EXCEPT ![t][c] =
                        Append(@, [src |-> p, num |-> published[p]])]
        /\ entered' = [entered EXCEPT ![t][c][p] = published[p]]
        /\ UNCHANGED <<subVars, pc, published, pollVars>>

InsertDone(p) ==
    /\ pc[p] = "insert"
    /\ \A t \in Threads : publishing[p].to[t] = 0
    /\ pc' = [pc EXCEPT ![p] = "notify"]
    /\ UNCHANGED <<subVars, data_, pubVars, pollVars>>

\* Mutant: the notifier does not take poll_mutex.
NotifyLock_None(p, t) ==
    /\ pc[p] = "notify"
    /\ t \in publishing[p].notify
    /\ publishing' = [publishing EXCEPT ![p].target = t]
    /\ pc' = [pc EXCEPT ![p] = "signal"]
    /\ UNCHANGED <<subVars, data_, published, entered, pollVars>>

\* "lock to ensure the other thread isn't in the limbo region between
\* _poll_all() and wait()"; the lock is released at once.
NotifyLock(p, t) ==
    /\ pc[p] = "notify"
    /\ t \in publishing[p].notify
    /\ ~ poll_mutex[t]
    /\ publishing' = [publishing EXCEPT ![p].target = t]
    /\ pc' = [pc EXCEPT ![p] = "signal"]
    /\ UNCHANGED <<subVars, data_, published, entered, pollVars>>

\* notify_all() on the condition variable of the target: a notification that
\* finds nobody waiting is lost.
Signal(p) ==
    LET t == publishing[p].target
    IN  /\ pc[p] = "signal"
        /\ publishing' = [publishing EXCEPT ![p].notify = @ \ {t}]
        /\ pc' = [u \in Threads |->
                     IF u = p THEN "notify"
                     ELSE IF u = t /\ pc[u] = "wait" THEN "woken" ELSE pc[u]]
        /\ UNCHANGED <<subVars, data_, published, entered, pollVars>>

PublishDone(p) ==
    /\ pc[p] = "notify"
    /\ publishing[p].notify = {}
    /\ pc' = [pc EXCEPT ![p] = publishing[p].return]
    /\ publishing' = [publishing EXCEPT ![p] = NoPublication(p)]
    /\ UNCHANGED <<subVars, data_, published, entered, pollVars>>

-----------------------------------------------------------------------------
(***************************************************************************)
(* _poll_all() of thread t.  It holds poll_mutex from its first look into  *)
(* a store until it finds a datum or waits.                                *)
(***************************************************************************)
\* Mutant: a round does not reset the count of the items found.
BeginRound_NoReset(t) ==
    /\ polled' = [polled EXCEPT ![t].left = stores_[t]]
    /\ poll_mutex' = [poll_mutex EXCEPT ![t] = TRUE]
    /\ pc' = [pc EXCEPT ![t] = "poll"]
    /\ UNCHANGED <<subVars, data_, pubVars, batch, spurious>>

BeginRound(t) ==
    /\ polled' = [polled EXCEPT ![t] = [left |-> stores_[t], found |-> FALSE]]
    /\ poll_mutex' = [poll_mutex EXCEPT ![t] = TRUE]
    /\ pc' = [pc EXCEPT ![t] = "poll"]
    /\ UNCHANGED <<subVars, data_, pubVars, batch, spurious>>

_poll_all(t) ==
    /\ pc[t] = "user"
    /\ InUserCode(t)
    /\ BeginRound(t)

\* Each subscription of t to c is given all that is queued, so a thread with
\* n subscriptions, whose queue has each datum n times, is given n * n.
Collected(t, c) ==
    [i \in 1..(subscriptions[c][t] * Len(data_[t][c])) |->
        data_[t][c][((i - 1) % Len(data_[t][c])) + 1]]

InStore(s) == {c \in Channels : StoreOf[c] = s}

\* SubscriptionStore::poll() up to the callbacks.
poll(t, s) ==
    LET items == \E c \in InStore(s) : Collected(t, c) # <<>>
    IN  /\ pc[t] = "poll"
        /\ s \in polled[t].left
        /\ polled' = [polled EXCEPT ![t].left = @ \ {s},
                                    ![t].found = @ \/ items]
        /\ batch' = [batch EXCEPT ![t] = [c \in Channels |->
                         IF c \in InStore(s) THEN Collected(t, c) ELSE <<>>]]
        /\ data_' = [data_ EXCEPT ![t] = [c \in Channels |->
                         IF c \in InStore(s) THEN <<>> ELSE @[c]]]
        /\ poll_mutex' = [poll_mutex EXCEPT ![t] = @ /\ ~ items]
        /\ pc' = [pc EXCEPT ![t] = IF items THEN "batch" ELSE "poll"]
        /\ UNCHANGED <<subVars, pubVars, spurious>>

\* The callbacks of a batch, in order within a channel; the channels come in
\* the order of a hash map, left open here.
RunCallback(t, c) ==
    /\ pc[t] = "batch"
    /\ batch[t][c] # <<>>
    /\ batch' = [batch EXCEPT ![t][c] = Tail(@)]
    /\ pc' = [pc EXCEPT ![t] = "callback"]
    /\ UNCHANGED <<subVars, data_, pubVars, polled, poll_mutex, spurious>>

EndCallback(t) ==
    /\ pc[t] = "callback"
    /\ InUserCode(t)
    /\ pc' = [pc EXCEPT ![t] = IF batch[t] = Empty THEN "poll" ELSE "batch"]
    /\ UNCHANGED <<subVars, data_, pubVars, pollVars>>

\* A round with data ends the poll; without, the thread releases poll_mutex
\* and waits on its condition variable, in one step.
PollFound(t) ==
    /\ pc[t] = "poll"
    /\ polled[t].left = {}
    /\ polled[t].found
    /\ pc' = [pc EXCEPT ![t] = "user"]
    /\ UNCHANGED <<subVars, data_, pubVars, pollVars>>

Wait(t) ==
    /\ pc[t] = "poll"
    /\ polled[t].left = {}
    /\ ~ polled[t].found
    /\ poll_mutex' = [poll_mutex EXCEPT ![t] = FALSE]
    /\ pc' = [pc EXCEPT ![t] = "wait"]
    /\ UNCHANGED <<subVars, data_, pubVars, polled, batch, spurious>>

Wake(t) ==
    /\ pc[t] = "woken"
    /\ BeginRound(t)

SpuriousWake(t) ==
    /\ pc[t] = "wait"
    /\ spurious[t] < MaxSpurious
    /\ spurious' = [spurious EXCEPT ![t] = @ + 1]
    /\ pc' = [pc EXCEPT ![t] = "woken"]
    /\ UNCHANGED <<subVars, data_, pubVars, polled, batch, poll_mutex>>

Timeout(t) ==
    /\ t \in Timed
    /\ pc[t] = "wait"
    /\ pc' = [pc EXCEPT ![t] = "user"]
    /\ UNCHANGED <<subVars, data_, pubVars, pollVars>>

-----------------------------------------------------------------------------
\* What a thread does of its own will, and what it then has to do.
Choose(t) ==
    \/ \E c \in Channels : \/ subscribe(t, c)
                           \/ unsubscribe(t, c)
                           \/ \E echo \in BOOLEAN : publish(t, c, echo)
    \/ unsubscribe_all(t)

Continue(t) ==
    \/ \E s \in Stores : unsubscribe_all_groups(t, s) \/ poll(t, s)
    \/ \E u \in Threads : Insert(t, u) \/ NotifyLock(t, u)
    \/ \E c \in Channels : RunCallback(t, c)
    \/ remove(t) \/ InsertDone(t) \/ Signal(t) \/ PublishDone(t)
    \/ _poll_all(t) \/ EndCallback(t) \/ PollFound(t) \/ Wait(t) \/ Wake(t)

Next == \E t \in Threads : Choose(t) \/ Continue(t) \/ SpuriousWake(t) \/ Timeout(t)

Spec == Init /\ [][Next]_vars

\* Threads run, callbacks return, and an application polls again and again.
FairSpec == Spec /\ \A t \in Threads : WF_vars(Continue(t))

-----------------------------------------------------------------------------
(***************************************************************************)
(* Properties                                                              *)
(***************************************************************************)
\* Every variable has its type, and a thread polls the stores of all its
\* subscriptions.
TypeOK ==
    /\ subscriptions \in [Channels -> [Threads -> Nat]]
    /\ stores_ \in [Threads -> SUBSET Stores]
    /\ leaving \in [Threads -> SUBSET Stores]
    /\ data_ \in [Threads -> [Channels -> Seq(Data)]]
    /\ batch \in [Threads -> [Channels -> Seq(Data)]]
    /\ pc \in [Threads -> Locations]
    /\ polled \in [Threads -> [left : SUBSET Stores, found : BOOLEAN]]
    /\ poll_mutex \in [Threads -> BOOLEAN]
    /\ publishing \in [Threads -> [chan : Channels, to : [Threads -> Nat],
                                   notify : SUBSET Threads, target : Threads,
                                   return : {"user", "callback"}]]
    /\ published \in [Threads -> Nat]
    /\ subscribed \in [Threads -> Nat]
    /\ spurious \in [Threads -> Nat]
    /\ entered \in [Threads -> [Channels -> [Threads -> Nat]]]
    /\ \A t \in Threads, c \in Channels :
          subscriptions[c][t] > 0 => StoreOf[c] \in stores_[t]

\* p has still to notify t of what it inserted.
WillNotify(p, t) ==
    /\ pc[p] \in {"insert", "notify", "signal"}
    /\ t \in publishing[p].notify

\* No wake-up is lost: a thread that waits on its condition variable while
\* one of its data queues holds a datum is still to be notified (publish()
\* takes poll_mutex between the insertion and the notification so that it
\* cannot fall between the last look into a store and the wait).
NoLostWakeup ==
    \A t \in Threads :
        pc[t] = "wait" /\ data_[t] # Empty => \E p \in Threads : WillNotify(p, t)

\* publish() takes the poll_mutex of others: a thread in it, or in a callback,
\* has released its own (otherwise two threads publishing to each other would
\* wait for each other, and one with echo for itself).
PublishesUnlocked ==
    \A t \in Threads :
        pc[t] \in {"insert", "notify", "signal", "batch", "callback"} => ~ poll_mutex[t]

\* The data of a thread that its subscriptions have still to see, oldest first:
\* the batch that poll() has collected, then the queue in the store.
Undelivered == [t \in Threads |-> [c \in Channels |-> batch[t][c] \o data_[t][c]]]

Mail == INSTANCE Mailboxes WITH mailbox <- Undelivered, entered <- entered

\* With at most one subscription per thread and channel, the stores are the
\* mailboxes of the abstract specification: each datum at most once, in
\* order, lost only to an unsubscription.
MailboxSpec == Mail!Spec

\* A datum in a thread's queue is eventually posted (or unsubscribed from),
\* though the thread may be about to wait when it arrives.
Delivered ==
    \A t \in Threads : (data_[t] # Empty \/ batch[t] # Empty)
                          ~> (data_[t] = Empty /\ batch[t] = Empty)
=============================================================================

------------------------- MODULE InterProcessPortal -------------------------
(***************************************************************************)
(* goby::zeromq::InterProcessPortal (zeromq/transport/interprocess.h and   *)
(* .cpp) of one process: the main thread, the read thread that owns the    *)
(* SUB socket, and the InterProcessForwarders of the other threads         *)
(* (middleware/transport/interprocess.h), with the hold state that the     *)
(* Manager of gobyd keeps for all clients.                                 *)
(*                                                                         *)
(* The main and the read thread exchange InprocControl messages over a     *)
(* pair of queues.  subscribe() and unsubscribe() of the main thread send  *)
(* a request and take messages until the ack comes; what comes in between  *)
(* goes to control_buffer_.  Between polls the main thread sleeps on the   *)
(* condition variable of its Poller (module InterThread).                  *)
(***************************************************************************)
EXTENDS Integers, Sequences, SequencesExt, FiniteSets

CONSTANTS
    Groups,             \* identifiers (group, scheme and type) of the application
    ManagerResponse,    \* the identifier of groups::manager_response
    Slash,              \* the filter "/" of the regular expressions
    Portal,             \* subscriber id of the main thread
    Forwarders,         \* subscriber ids of the threads with a forwarder
    Self,               \* client_name of this process
    required_clients_,  \* the Manager's list
    None,
    Timed,              \* does the main thread have a loop frequency?
    Hwm,                \* high water mark of the control queue to the main thread
    MaxOutstanding,     \* bound: hold state requests on their way
    MaxTraffic,         \* bound: messages from other processes and publications together
    MaxCalls            \* bound: calls of the main thread, and of the forwarders

ASSUME PortalAssumption ==
    /\ ManagerResponse \notin Groups /\ Slash \notin Groups \cup {ManagerResponse}
    /\ Portal \notin Forwarders /\ None \notin Forwarders
    /\ IsFiniteSet(Groups)
    /\ Timed \in BOOLEAN
    /\ Hwm \in Nat \ {0}

Ids == Groups \cup {ManagerResponse}
Filters == Ids \cup {Slash}
Kinds == {"publication", "subscription", "regex", "all"}

VARIABLES
    main,              \* the main thread: where it is, what it still has to send,
                       \* where it goes then, and whether this poll had items
    read,              \* the read thread: alive_, hold_, have_pubsub_sockets_ and
                       \* the message it is blocked on
    toMain, toRead,    \* the queues of the PAIR sockets
    control_buffer_,
    filters,           \* [Filters -> Nat], the SUB socket's count of each filter
    portal_subscriptions_,      \* [Ids -> Nat], number of subscriptions
    forwarder_subscriptions_,   \* [Ids -> the forwarder whose subscription is kept]
    forwarder_subscription_identifiers_, \* [Forwarders -> SUBSET Ids]
    regex_subscriptions_,       \* subscriber ids with a regex subscription
    hold_, ready_,
    publish_queue_,    \* numbers of the publications that wait for the hold
    sent,              \* numbers of the publications sent, in order
    mail,              \* [Kinds -> Seq], to_portal_group_ by type of datum
    forwarder,         \* [Forwarders -> {"alive", "leaving", "gone"}]
    reported_clients_, \* of the Manager
    requests,          \* ManagerRequests (their ready) on the way to the Manager
    responses,         \* ManagerResponses (client and hold) on the way to this process
    seen               \* history: calls, forwarded calls, publications and data so
                       \* far, the data handled, forwarders posted to when gone,
                       \* and whether the response to the hold request was cut off

control == <<toMain, toRead, control_buffer_>>
book == <<portal_subscriptions_, forwarder_subscriptions_,
          forwarder_subscription_identifiers_, regex_subscriptions_>>
outbox == <<publish_queue_, sent>>
gobyd == <<reported_clients_, requests, responses>>
vars == <<main, read, control, filters, book, hold_, ready_, outbox, mail,
          forwarder, gobyd, seen>>

Control(type) == [type |-> type, id |-> None, client |-> None, hold |-> TRUE, n |-> 0]
About(type, id) == [Control(type) EXCEPT !.id = id]

Init ==
    /\ main = [at |-> "init", todo |-> <<>>, back |-> "poll", items |-> FALSE]
    /\ read = [alive |-> TRUE, hold |-> TRUE, connected |-> FALSE, blocked |-> <<>>]
    /\ toMain = <<>> /\ toRead = <<>> /\ control_buffer_ = <<>>
    /\ filters = [f \in Filters |-> 0]
    /\ portal_subscriptions_ = [i \in Ids |-> 0]
    /\ forwarder_subscriptions_ = [i \in Ids |-> None]
    /\ forwarder_subscription_identifiers_ = [s \in Forwarders |-> {}]
    /\ regex_subscriptions_ = {}
    /\ hold_ = TRUE /\ ready_ = FALSE
    /\ publish_queue_ = <<>> /\ sent = <<>>
    /\ mail = [k \in Kinds |-> <<>>]
    /\ forwarder = [s \in Forwarders |-> "alive"]
    /\ reported_clients_ = {} /\ requests = <<>> /\ responses = <<>>
    /\ seen = [calls |-> 0, forwarded |-> 0, published |-> 0, data |-> 0,
               handled |-> <<>>, dead |-> {}, cut |-> FALSE]

-----------------------------------------------------------------------------
(* The control queues. *)

\* The main thread leaves what it was doing to send these requests first.
Call(todo, back) ==
    main' = [main EXCEPT !.todo = todo,
                         !.back = IF todo = <<>> THEN "poll" ELSE back,
                         !.at = IF todo = <<>> THEN back ELSE "call"]

\* send_control_msg() of the main thread, and the wait for an ack.
SendControl ==
    /\ main.at = "call"
    /\ toRead' = Append(toRead, Head(main.todo))
    /\ IF Head(main.todo).type \in {"SUBSCRIBE", "UNSUBSCRIBE"}
       THEN main' = [main EXCEPT !.at = "ack"]
       ELSE Call(Tail(main.todo), main.back)
    /\ UNCHANGED <<read, toMain, control_buffer_, filters, book, hold_, ready_, outbox,
                   mail, forwarder, gobyd, seen>>

Acks_Subscribe(m, request) == m.type = "SUBSCRIBE_ACK" /\ request.type = "SUBSCRIBE"

Acks(m, request) == \/ m.type = "SUBSCRIBE_ACK" /\ request.type = "SUBSCRIBE"
                    \/ m.type = "UNSUBSCRIBE_ACK" /\ request.type = "UNSUBSCRIBE"

KeepForLater_Not(m) == control_buffer_

KeepForLater(m) == Append(control_buffer_, m)

\* recv() of the loops in subscribe() and unsubscribe().
RecvAck ==
    /\ main.at = "ack"
    /\ toMain # <<>>
    /\ toMain' = Tail(toMain)
    /\ IF Acks(Head(toMain), Head(main.todo))
       THEN Call(Tail(main.todo), main.back) /\ UNCHANGED control_buffer_
       ELSE control_buffer_' = KeepForLater(Head(toMain)) /\ UNCHANGED main
    /\ UNCHANGED <<read, toRead, filters, book, hold_, ready_, outbox, mail, forwarder,
                   gobyd, seen>>

\* send_control_msg() of the read thread: it blocks on a full queue, and then
\* notifies the Poller without its poll_mutex: a main thread that has polled
\* and not begun to wait misses it.
ReadSends(m) ==
    IF Len(toMain) < Hwm
    THEN /\ toMain' = Append(toMain, m)
         /\ main' = IF main.at = "waiting" THEN [main EXCEPT !.at = "poll"] ELSE main
         /\ UNCHANGED read
    ELSE read' = [read EXCEPT !.blocked = <<m>>] /\ UNCHANGED <<main, toMain>>

Unblock ==
    /\ read.blocked # <<>>
    /\ Len(toMain) < Hwm
    /\ toMain' = Append(toMain, Head(read.blocked))
    /\ read' = [read EXCEPT !.blocked = <<>>]
    /\ main' = IF main.at = "waiting" THEN [main EXCEPT !.at = "poll"] ELSE main
    /\ UNCHANGED <<toRead, control_buffer_, filters, book, hold_, ready_, outbox, mail,
                   forwarder, gobyd, seen>>

-----------------------------------------------------------------------------
(* The read thread. *)

Reading == read.alive /\ read.blocked = <<>>

\* The Manager's answer to PROVIDE_PUB_SUB_SOCKETS.
manager_data ==
    /\ Reading
    /\ ~ read.connected
    /\ read' = [read EXCEPT !.connected = TRUE]
    /\ toMain' = Append(toMain, Control("PUB_CONFIGURATION"))
    /\ UNCHANGED <<main, toRead, control_buffer_, filters, book, hold_, ready_, outbox,
                   mail, forwarder, gobyd, seen>>

\* No answer within manager_timeout_seconds: the process dies.
NoResponse ==
    /\ Reading
    /\ ~ read.connected
    /\ read' = [read EXCEPT !.alive = FALSE]
    /\ main' = [main EXCEPT !.at = "gone"]
    /\ UNCHANGED <<control, filters, book, hold_, ready_, outbox, mail, forwarder, gobyd, seen>>

\* A command of the main thread.
control_data ==
    /\ Reading
    /\ toRead # <<>>
    /\ toRead' = Tail(toRead)
    /\ LET m == Head(toRead)
       IN  \/ /\ m.type = "SUBSCRIBE"
              /\ filters' = [filters EXCEPT ![m.id] = @ + 1]
              /\ ReadSends(Control("SUBSCRIBE_ACK"))
           \/ /\ m.type = "UNSUBSCRIBE"
              /\ filters' = [filters EXCEPT ![m.id] = IF @ > 0 THEN @ - 1 ELSE 0]
              /\ ReadSends(Control("UNSUBSCRIBE_ACK"))
           \/ /\ m.type = "NOTIFY_HOLD_STATE"
              /\ read' = [read EXCEPT !.hold = m.hold]
              /\ UNCHANGED <<main, toMain, filters>>
           \/ /\ m.type = "SHUTDOWN"
              /\ read' = [read EXCEPT !.alive = FALSE]
              /\ UNCHANGED <<main, toMain, filters>>
    /\ UNCHANGED <<control_buffer_, book, hold_, ready_, outbox, mail, forwarder, gobyd, seen>>

Traffic == seen.data + seen.published + Len(mail["publication"])

Matches(i) == filters[i] > 0 \/ filters[Slash] > 0

\* Data from other processes, and the Manager's answers, through the SUB socket.
subscribe_data ==
    /\ Reading
    /\ \/ \E i \in Groups :
             /\ Matches(i)
             /\ Traffic < MaxTraffic
             /\ seen' = [seen EXCEPT !.data = @ + 1]
             /\ ReadSends([About("RECEIVE", i) EXCEPT !.n = seen.data + 1])
             /\ UNCHANGED responses
       \/ /\ responses # <<>>
          /\ responses' = Tail(responses)
          /\ IF Matches(ManagerResponse)
             THEN ReadSends([About("RECEIVE", ManagerResponse) EXCEPT
                                !.client = Head(responses).client, !.hold = Head(responses).hold])
             ELSE UNCHANGED <<main, read, toMain>>
          /\ UNCHANGED seen
    /\ UNCHANGED <<toRead, control_buffer_, filters, book, hold_, ready_, outbox, mail,
                   forwarder, reported_clients_, requests>>

\* Requests for the hold state of which the read thread has not seen the end.
Outstanding ==
    Len(SelectSeq(toMain \o control_buffer_ \o main.todo \o toRead \o read.blocked,
                  LAMBDA m : \/ m.type \in {"REQUEST_HOLD_STATE", "NOTIFY_HOLD_STATE"}
                             \/ m.type = "RECEIVE" /\ m.id = ManagerResponse))
    + Len(requests) + Len(responses)

\* run(): every hold_state_request_period_ while holding.
RequestHoldState ==
    /\ Reading
    /\ read.connected /\ read.hold
    /\ Outstanding < MaxOutstanding
    /\ ReadSends(Control("REQUEST_HOLD_STATE"))
    /\ UNCHANGED <<toRead, control_buffer_, filters, book, hold_, ready_, outbox, mail,
                   forwarder, gobyd, seen>>

-----------------------------------------------------------------------------
(* The Manager. *)

hold_state(reported) == reported # required_clients_

Report(c, ready) ==
    /\ reported_clients_' = IF ready /\ c \in required_clients_
                            THEN reported_clients_ \cup {c} ELSE reported_clients_
    /\ responses' = Append(responses, [client |-> c, hold |-> hold_state(reported_clients_')])

\* PROVIDE_HOLD_STATE of this client: the response goes out to all clients.
handle_request ==
    /\ requests # <<>>
    /\ requests' = Tail(requests)
    /\ Report(Self, Head(requests))
    /\ UNCHANGED <<main, read, control, filters, book, hold_, ready_, outbox, mail,
                   forwarder, seen>>

\* A request published before the sockets are connected is lost.
LoseRequest ==
    /\ requests # <<>>
    /\ requests' = Tail(requests)
    /\ UNCHANGED <<main, read, control, filters, book, hold_, ready_, outbox, mail,
                   forwarder, reported_clients_, responses, seen>>

\* Another client reports.
OtherRequest(c) ==
    /\ c \in required_clients_ \ ({Self} \cup reported_clients_)
    /\ Outstanding < MaxOutstanding
    /\ Report(c, TRUE)
    /\ UNCHANGED <<main, read, control, filters, book, hold_, ready_, outbox, mail,
                   forwarder, requests, seen>>

-----------------------------------------------------------------------------
(* The main thread: subscriptions.  Each operator changes the books and calls *)
(* the read thread; the main thread does nothing else until that is done.     *)

Requests(type, ids) == [k \in 1..Cardinality(ids) |-> About(type, SetToSeq(ids)[k])]

If(condition, type, id) == IF condition THEN <<About(type, id)>> ELSE <<>>

_subscribe_Again(i, back) ==
    /\ Call(<<About("SUBSCRIBE", i)>>, back)
    /\ portal_subscriptions_' = [portal_subscriptions_ EXCEPT ![i] = @ + 1]
    /\ UNCHANGED <<forwarder_subscriptions_, forwarder_subscription_identifiers_,
                   regex_subscriptions_>>

_subscribe(i, back) ==
    /\ Call(If(forwarder_subscriptions_[i] = None /\ portal_subscriptions_[i] = 0,
               "SUBSCRIBE", i), back)
    /\ portal_subscriptions_' = [portal_subscriptions_ EXCEPT ![i] = @ + 1]
    /\ UNCHANGED <<forwarder_subscriptions_, forwarder_subscription_identifiers_,
                   regex_subscriptions_>>

_unsubscribe_One(i, back) ==
    /\ Call(If(forwarder_subscriptions_[i] = None, "UNSUBSCRIBE", i), back)
    /\ portal_subscriptions_' = [portal_subscriptions_ EXCEPT ![i] = @ - 1]
    /\ UNCHANGED <<forwarder_subscriptions_, forwarder_subscription_identifiers_,
                   regex_subscriptions_>>

_unsubscribe(i, back) ==
    /\ Call(If(forwarder_subscriptions_[i] = None, "UNSUBSCRIBE", i), back)
    /\ portal_subscriptions_' = [portal_subscriptions_ EXCEPT ![i] = 0]
    /\ UNCHANGED <<forwarder_subscriptions_, forwarder_subscription_identifiers_,
                   regex_subscriptions_>>

_subscribe_regex(s, back) ==
    /\ Call(If(regex_subscriptions_ = {}, "SUBSCRIBE", Slash), back)
    /\ regex_subscriptions_' = regex_subscriptions_ \cup {s}
    /\ UNCHANGED <<portal_subscriptions_, forwarder_subscriptions_,
                   forwarder_subscription_identifiers_>>

\* no_forwarder_subscribers, computed while the caller's own entry is still there.
NoForwarderSubscribers(i) ==
    \A s \in Forwarders : i \notin forwarder_subscription_identifiers_[s]

\* _forwarder_unsubscribe() of each of the identifiers.
Erased(s, ids) ==
    {i \in ids \cap forwarder_subscription_identifiers_[s] : NoForwarderSubscribers(i)}

_forwarder_unsubscribe(s, ids) ==
    /\ forwarder_subscriptions_' = [i \in Ids |->
          IF i \in Erased(s, ids) THEN None ELSE forwarder_subscriptions_[i]]
    /\ forwarder_subscription_identifiers_' =
          [forwarder_subscription_identifiers_ EXCEPT ![s] = @ \ ids]
    /\ UNCHANGED portal_subscriptions_

ForwarderFilters(s, ids) ==
    Requests("UNSUBSCRIBE", {i \in Erased(s, ids) : portal_subscriptions_[i] = 0})

LastRegex(s) == regex_subscriptions_ # {} /\ regex_subscriptions_ \ {s} = {}

\* A second unsubscribe() of one identifier finds no filter: it is sent once here.
_unsubscribe_all(s, back) ==
    /\ IF s = Portal
       THEN /\ Call(Requests("UNSUBSCRIBE", {i \in Ids : /\ portal_subscriptions_[i] > 0
                                                         /\ forwarder_subscriptions_[i] = None})
                       \o If(LastRegex(s), "UNSUBSCRIBE", Slash), back)
            /\ portal_subscriptions_' = [i \in Ids |-> 0]
            /\ UNCHANGED <<forwarder_subscriptions_, forwarder_subscription_identifiers_>>
       ELSE /\ Call(ForwarderFilters(s, Ids) \o If(LastRegex(s), "UNSUBSCRIBE", Slash), back)
            /\ _forwarder_unsubscribe(s, Ids)
    /\ regex_subscriptions_' = regex_subscriptions_ \ {s}

\* A SUBSCRIBE of forwarder s; only the first one of an identifier is kept.
ForwardedSubscribe(s, i, back) ==
    /\ IF i \in forwarder_subscription_identifiers_[s]
       THEN Call(<<>>, back) /\ UNCHANGED <<forwarder_subscriptions_,
                                            forwarder_subscription_identifiers_>>
       ELSE /\ Call(If(forwarder_subscriptions_[i] = None /\ portal_subscriptions_[i] = 0,
                       "SUBSCRIBE", i), back)
            /\ forwarder_subscriptions_' = [forwarder_subscriptions_ EXCEPT
                                              ![i] = IF @ = None THEN s ELSE @]
            /\ forwarder_subscription_identifiers_' =
                  [forwarder_subscription_identifiers_ EXCEPT ![s] = @ \cup {i}]
    /\ UNCHANGED <<portal_subscriptions_, regex_subscriptions_>>

ForwardedUnsubscribe(s, i, back) ==
    /\ Call(ForwarderFilters(s, {i}), back)
    /\ _forwarder_unsubscribe(s, {i})
    /\ UNCHANGED regex_subscriptions_

publish_Unheld(n) == sent' = Append(sent, n) /\ UNCHANGED publish_queue_

\* InterProcessPortalMainThread::publish() of the n-th publication.
publish(n) ==
    IF hold_ THEN publish_queue_' = Append(publish_queue_, n) /\ UNCHANGED sent
    ELSE sent' = Append(sent, n) /\ UNCHANGED publish_queue_

-----------------------------------------------------------------------------
(* The main thread: what the application does between polls and in callbacks. *)

\* The application's code runs.
AtWork == main.at = "poll" \/ (main.at = "control" /\ main.items)

Working == AtWork /\ seen.calls < MaxCalls

Counted == seen' = [seen EXCEPT !.calls = @ + 1]

Subscribe(i) ==
    /\ Working
    /\ Counted
    /\ _subscribe(i, main.at)
    /\ UNCHANGED <<read, control, filters, hold_, ready_, outbox, mail, forwarder, gobyd>>

Unsubscribe(i) ==
    /\ Working
    /\ Counted
    /\ _unsubscribe(i, main.at)
    /\ UNCHANGED <<read, control, filters, hold_, ready_, outbox, mail, forwarder, gobyd>>

SubscribeRegex ==
    /\ Working
    /\ Counted
    /\ _subscribe_regex(Portal, main.at)
    /\ UNCHANGED <<read, control, filters, hold_, ready_, outbox, mail, forwarder, gobyd>>

\* unsubscribe_all() takes the subscription to the Manager's answers with it.
UnsubscribeAll ==
    /\ Working
    /\ seen' = [seen EXCEPT !.calls = @ + 1, !.cut = @ \/ hold_]
    /\ _unsubscribe_all(Portal, main.at)
    /\ UNCHANGED <<read, control, filters, hold_, ready_, outbox, mail, forwarder, gobyd>>

Publish ==
    /\ AtWork
    /\ Traffic < MaxTraffic
    /\ seen' = [seen EXCEPT !.published = @ + 1]
    /\ publish(seen.published + 1)
    /\ UNCHANGED <<main, read, control, filters, book, hold_, ready_, mail, forwarder, gobyd>>

ready ==
    /\ AtWork
    /\ ~ ready_
    /\ ready_' = TRUE
    /\ UNCHANGED <<main, read, control, filters, book, hold_, outbox, mail, forwarder, gobyd, seen>>

\* ~InterProcessPortalImplementation(), after the threads have been joined.
Shutdown ==
    /\ main.at = "poll"
    /\ \A s \in Forwarders : forwarder[s] = "gone"
    /\ toRead' = Append(toRead, Control("SHUTDOWN"))
    /\ main' = [main EXCEPT !.at = "joining"]
    /\ UNCHANGED <<read, toMain, control_buffer_, filters, book, hold_, ready_, outbox,
                   mail, forwarder, gobyd, seen>>

Join ==
    /\ main.at = "joining"
    /\ ~ read.alive
    /\ main' = [main EXCEPT !.at = "gone"]
    /\ UNCHANGED <<read, control, filters, book, hold_, ready_, outbox, mail, forwarder, gobyd, seen>>

-----------------------------------------------------------------------------
(* The main thread: polling. *)

set_publish_cfg_Unsubscribed ==
    /\ main.at = "init"
    /\ toMain # <<>>
    /\ toMain' = Tail(toMain)
    /\ IF Head(toMain).type = "PUB_CONFIGURATION" THEN main' = [main EXCEPT !.at = "poll"]
       ELSE UNCHANGED main
    /\ UNCHANGED <<read, toRead, control_buffer_, filters, book, hold_, ready_, outbox, mail,
                   forwarder, gobyd, seen>>

\* _init(): waits for the publish socket and subscribes to the Manager's answers.
set_publish_cfg ==
    /\ main.at = "init"
    /\ toMain # <<>>
    /\ toMain' = Tail(toMain)
    /\ IF Head(toMain).type = "PUB_CONFIGURATION" THEN _subscribe(ManagerResponse, "poll")
       ELSE UNCHANGED <<main, book>>
    /\ UNCHANGED <<read, toRead, control_buffer_, filters, hold_, ready_, outbox, mail,
                   forwarder, gobyd, seen>>

\* A forwarder's message, from the inner poller.
TakeMail(kind) ==
    /\ main.at = "poll"
    /\ mail[kind] # <<>>
    /\ mail' = [mail EXCEPT ![kind] = Tail(@)]
    /\ LET d == Head(mail[kind])
       IN  \/ /\ kind = "publication"
              /\ publish(seen.published + 1)
              /\ seen' = [seen EXCEPT !.published = @ + 1]
              /\ UNCHANGED <<main, book>>
           \/ /\ kind = "subscription"
              /\ IF d.action = "SUBSCRIBE" THEN ForwardedSubscribe(d.from, d.id, "poll")
                 ELSE ForwardedUnsubscribe(d.from, d.id, "poll")
              /\ UNCHANGED <<outbox, seen>>
           \/ /\ kind = "regex"
              /\ _subscribe_regex(d.from, "poll")
              /\ UNCHANGED <<outbox, seen>>
           \/ /\ kind = "all"
              /\ _unsubscribe_all(d.from, "poll")
              /\ UNCHANGED <<outbox, seen>>
    /\ UNCHANGED <<read, control, filters, hold_, ready_, forwarder, gobyd>>

\* _poll(), reached when the inner poller had nothing: takes all control messages.
PollControl ==
    /\ main.at = "poll"
    /\ \A k \in Kinds : mail[k] = <<>>
    /\ control_buffer_' = control_buffer_ \o toMain
    /\ toMain' = <<>>
    /\ main' = [main EXCEPT !.at = "control", !.items = FALSE]
    /\ UNCHANGED <<read, toRead, filters, book, hold_, ready_, outbox, mail, forwarder, gobyd, seen>>

\* The forwarders to whom a datum is posted: the one whose subscription is kept,
\* and at most one of those with a regex subscription.
Posted(id, regex) ==
    {forwarder_subscriptions_[id]} \cup
    (IF regex \cap Forwarders = {} THEN {} ELSE {CHOOSE s \in regex \cap Forwarders : TRUE})

QueueAfter_Kept(off) == publish_queue_

\* publish_queue_.clear() when the hold goes off.
QueueAfter(off) == IF off THEN <<>> ELSE publish_queue_

\* publish_ready() after set_hold_state().
DoneWithManager(off) == ~ hold_ \/ off

\* set_hold_state() of the portal's callback, and the unsubscription that
\* follows when the hold is off.
Respond(m) ==
    LET off == hold_ /\ m.client = Self /\ ~ m.hold
        told == IF m.client = Self
                THEN <<[Control("NOTIFY_HOLD_STATE") EXCEPT !.hold = m.hold]>> ELSE <<>>
        done == DoneWithManager(off)
        todo == told \o If(done /\ forwarder_subscriptions_[ManagerResponse] = None,
                           "UNSUBSCRIBE", ManagerResponse)
    IN  /\ hold_' = (hold_ /\ ~ off)
        /\ sent' = IF off THEN sent \o publish_queue_ ELSE sent
        /\ publish_queue_' = QueueAfter(off)
        /\ main' = [main EXCEPT !.items = TRUE,
                                !.todo = todo,
                                !.back = IF todo = <<>> THEN "poll" ELSE "control",
                                !.at = IF todo = <<>> THEN "control" ELSE "call"]
        /\ portal_subscriptions_' = [portal_subscriptions_ EXCEPT
                                       ![ManagerResponse] = IF done THEN 0 ELSE @]

\* One control message.
HandleControl ==
    /\ main.at = "control"
    /\ control_buffer_ # <<>>
    /\ control_buffer_' = Tail(control_buffer_)
    /\ LET m == Head(control_buffer_)
       IN  \/ /\ m.type = "RECEIVE"
              /\ IF m.id = ManagerResponse /\ portal_subscriptions_[m.id] > 0 THEN Respond(m)
                 ELSE /\ main' = [main EXCEPT !.items = TRUE]
                      /\ UNCHANGED <<hold_, outbox, portal_subscriptions_>>
              /\ seen' = [seen EXCEPT
                    !.handled = IF m.n > 0 THEN Append(@, m.n) ELSE @,
                    !.dead = @ \cup {s \in Posted(m.id, regex_subscriptions_) \ {None} :
                                       forwarder[s] = "gone"}]
              /\ UNCHANGED requests
           \/ /\ m.type = "REQUEST_HOLD_STATE"
              /\ requests' = Append(requests, ready_)
              /\ UNCHANGED <<main, hold_, outbox, portal_subscriptions_, seen>>
    /\ UNCHANGED <<read, toMain, toRead, filters, forwarder_subscriptions_,
                   forwarder_subscription_identifiers_, regex_subscriptions_, ready_, mail,
                   forwarder, reported_clients_, responses>>

\* _poll() returns: with items to the application, without to the wait, which
\* poll_mutex protects from the forwarders and not from the read thread.
EndPoll ==
    /\ main.at = "control"
    /\ control_buffer_ = <<>>
    /\ main' = [main EXCEPT !.at = IF main.items THEN "poll" ELSE "limbo", !.items = FALSE]
    /\ UNCHANGED <<read, control, filters, book, hold_, ready_, outbox, mail, forwarder, gobyd, seen>>

Wait ==
    /\ main.at = "limbo"
    /\ main' = [main EXCEPT !.at = "waiting"]
    /\ UNCHANGED <<read, control, filters, book, hold_, ready_, outbox, mail, forwarder, gobyd, seen>>

Timeout ==
    /\ main.at = "waiting"
    /\ Timed
    /\ main' = [main EXCEPT !.at = "poll"]
    /\ UNCHANGED <<read, control, filters, book, hold_, ready_, outbox, mail, forwarder, gobyd, seen>>

-----------------------------------------------------------------------------
(* The forwarders. *)

\* Published on to_portal_group_ under the poll_mutex of the main thread.
ToPortal(kind, d) ==
    /\ main.at \notin {"limbo", "joining", "gone"}
    /\ mail' = [mail EXCEPT ![kind] = Append(@, d)]
    /\ main' = IF main.at = "waiting" THEN [main EXCEPT !.at = "poll"] ELSE main
    /\ UNCHANGED <<read, control, filters, book, hold_, ready_, outbox, gobyd>>

Datum(s, action, id) == [from |-> s, action |-> action, id |-> id]

InFlight(s) == \E k \in Kinds : \E j \in 1..Len(mail[k]) : mail[k][j].from = s

ForwarderCalls(s) ==
    /\ forwarder[s] = "alive"
    /\ seen.forwarded < MaxCalls
    /\ \/ \E i \in Groups, action \in {"SUBSCRIBE", "UNSUBSCRIBE"} :
             ToPortal("subscription", Datum(s, action, i))
       \/ ToPortal("regex", Datum(s, "SUBSCRIBE", Slash))
       \/ /\ Traffic < MaxTraffic
          /\ ToPortal("publication", Datum(s, "PUBLISH", None))
    /\ seen' = [seen EXCEPT !.forwarded = @ + 1]
    /\ UNCHANGED forwarder

\* ~InterProcessForwarder(): unsubscribe_all(), and a sleep that is taken to be
\* long enough for the portal to have handled it.
ForwarderLeaves(s) ==
    /\ forwarder[s] = "alive"
    /\ ToPortal("all", Datum(s, "ALL", None))
    /\ forwarder' = [forwarder EXCEPT ![s] = "leaving"]
    /\ UNCHANGED seen

ForwarderGone(s) ==
    /\ forwarder[s] = "leaving"
    /\ ~ InFlight(s)
    /\ forwarder' = [forwarder EXCEPT ![s] = "gone"]
    /\ UNCHANGED <<main, read, control, filters, book, hold_, ready_, outbox, mail, gobyd, seen>>

-----------------------------------------------------------------------------
ReadContinues == Unblock \/ control_data \/ subscribe_data \/ RequestHoldState

ReadThread == ReadContinues \/ manager_data \/ NoResponse

Manager == handle_request \/ LoseRequest \/ \E c \in required_clients_ : OtherRequest(c)

MainContinues ==
    \/ SendControl \/ RecvAck \/ set_publish_cfg
    \/ \E k \in Kinds : TakeMail(k)
    \/ PollControl \/ HandleControl \/ EndPoll \/ Wait \/ Timeout \/ Join

Application ==
    \/ \E i \in Groups : Subscribe(i) \/ Unsubscribe(i)
    \/ SubscribeRegex \/ UnsubscribeAll \/ Publish \/ ready \/ Shutdown

Forwarder(s) == ForwarderCalls(s) \/ ForwarderLeaves(s) \/ ForwarderGone(s)

Next == ReadThread \/ Manager \/ MainContinues \/ Application \/ \E s \in Forwarders : Forwarder(s)

Spec == Init /\ [][Next]_vars

\* Both threads are scheduled, the application polls whenever it has nothing
\* else to do, and not all requests for the hold state are lost.
FairSpec ==
    /\ Spec
    /\ WF_vars(MainContinues) /\ WF_vars(ReadContinues) /\ SF_vars(handle_request)

-----------------------------------------------------------------------------
(* Properties. *)

\* Within a call of the read thread?
Calling == main.at \in {"call", "ack"}

TypeOK ==
    /\ main.at \in {"init", "poll", "call", "ack", "control", "limbo", "waiting",
                    "joining", "gone"}
    /\ Calling => main.todo # <<>> /\ main.back \in {"poll", "control"}
    /\ Len(toMain) <= Hwm /\ Len(read.blocked) <= 1
    /\ filters \in [Filters -> Nat]
    /\ portal_subscriptions_ \in [Ids -> Nat]
    /\ forwarder_subscriptions_ \in [Ids -> Forwarders \cup {None}]
    /\ forwarder_subscription_identifiers_ \in [Forwarders -> SUBSET Ids]
    /\ regex_subscriptions_ \subseteq Forwarders \cup {Portal}
    /\ hold_ \in BOOLEAN /\ ready_ \in BOOLEAN
    /\ reported_clients_ \subseteq required_clients_

\* Whenever the main thread is not within a call, the SUB socket has exactly
\* the filters that the books ask for, each once: no subscription of the portal,
\* of a forwarder or by regular expression goes without data, and none of the
\* subscriptions that share a filter takes it away from the others.
FiltersMatchBooks ==
    ~ Calling =>
        /\ \A i \in Ids : filters[i] =
              IF portal_subscriptions_[i] > 0 \/ forwarder_subscriptions_[i] # None
              THEN 1 ELSE 0
        /\ filters[Slash] = IF regex_subscriptions_ # {} THEN 1 ELSE 0
        /\ \A i \in Ids, s \in Forwarders :
              i \in forwarder_subscription_identifiers_[s] => forwarder_subscriptions_[i] # None

\* The publications are sent in the order in which they were made, those of the
\* time of the hold before the others, and none is lost on the way.
SentInOrder == sent \o publish_queue_ = [n \in 1..seen.published |-> n]

\* Nothing is published before every required client, and this one if it is
\* required, has said that it is ready.
HoldRespected ==
    sent # <<>> => /\ reported_clients_ = required_clients_
                   /\ Self \in required_clients_ => ready_

\* The data with the numbers k + 1 to n are in the queue q, each once, in order.
Carries(q, k, n) ==
    /\ \A d \in (k + 1)..n : \E j \in 1..Len(q) : q[j].n = d
    /\ \A j \in 1..Len(q) : q[j].n > 0 => /\ q[j].n \in (k + 1)..n
                                          /\ \A i \in 1..(j - 1) : q[i].n < q[j].n

\* What the read thread has received reaches the callbacks, once and in order,
\* also when it arrives while the main thread waits for an ack.
ReceivedInOrder ==
    LET handled == Len(seen.handled)
    IN  /\ handled <= seen.data
        /\ seen.handled = [d \in 1..handled |-> d]
        /\ Carries(control_buffer_ \o toMain \o read.blocked, handled, seen.data)

\* subscribe(), unsubscribe() and the destructor return, whatever else is in the
\* queue, unless the read thread is blocked on a full queue that the destructor
\* no longer empties.
CallsReturn ==
    (Calling \/ main.at = "joining")
        ~> (main.at \notin {"call", "ack", "joining"} \/ (main.at = "joining" /\ read.blocked # <<>>))

\* Once all required clients are ready the hold is released, and what was
\* published before is sent, unless unsubscribe_all() cut off the Manager's
\* answers or the process is ending.
HoldReleased ==
    (main.at = "poll" /\ reported_clients_ = required_clients_)
        ~> ((~ hold_ /\ publish_queue_ = <<>>) \/ seen.cut \/ main.at \in {"joining", "gone"})

\* A forwarder waits in its destructor "so that we don't delete ourself (and thus
\* our inner()) before the Portal has deleted all the subscriptions"
\* (middleware/transport/interprocess.h:320): nothing is posted to one that is gone.
PostedToTheLiving == seen.dead = {}
=============================================================================

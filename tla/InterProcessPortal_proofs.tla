---------------------- MODULE InterProcessPortal_proofs ----------------------
(***************************************************************************)
(* For any groups, forwarders, required clients, queue lengths and bounds: *)
(* the filters of the SUB socket agree with the books of the main thread,  *)
(* nothing is published before all required clients are ready, the         *)
(* publications are sent in order, none lost, and the data received reach  *)
(* the callbacks in order.                                                 *)
(***************************************************************************)
EXTENDS InterProcessPortal, FiniteSetTheorems, SequenceTheorems, TLAPS

-----------------------------------------------------------------------------
(* The inductive invariant. *)

Clients == required_clients_ \cup {Self, None}
CallTypes == {"SUBSCRIBE", "UNSUBSCRIBE"}
AckTypes == {"SUBSCRIBE_ACK", "UNSUBSCRIBE_ACK"}
Types == CallTypes \cup AckTypes \cup
         {"PUB_CONFIGURATION", "RECEIVE", "REQUEST_HOLD_STATE", "NOTIFY_HOLD_STATE", "SHUTDOWN"}
Messages ==
    {m \in [type : Types, id : Filters \cup {None}, client : Clients, hold : BOOLEAN, n : Nat] :
        IF m.type = "RECEIVE" THEN m.id \in Ids ELSE m.n = 0}
Responses == [client : Clients, hold : BOOLEAN]
Data == [from : Forwarders, action : {"SUBSCRIBE", "UNSUBSCRIBE", "PUBLISH", "ALL"},
         id : Filters \cup {None}]
Places == {"init", "poll", "call", "ack", "control", "limbo", "waiting", "joining", "gone"}

\* What TypeOK leaves out: the messages, the records and the history.
Mains == [at : Places, todo : Seq(Messages), back : {"poll", "control"}, items : BOOLEAN]
Reads == [alive : BOOLEAN, hold : BOOLEAN, connected : BOOLEAN, blocked : Seq(Messages)]
Histories == [calls : Nat, forwarded : Nat, published : Nat, data : Nat, handled : Seq(Nat),
              dead : SUBSET Forwarders, cut : BOOLEAN]

Threads == /\ main \in Mains
           /\ read \in Reads
           /\ seen \in Histories

Queues ==
    /\ toMain \in Seq(Messages) /\ toRead \in Seq(Messages) /\ control_buffer_ \in Seq(Messages)
    /\ requests \in Seq(BOOLEAN) /\ responses \in Seq(Responses)
    /\ publish_queue_ \in Seq(Nat) /\ sent \in Seq(Nat)

Mailed ==
    /\ mail \in [Kinds -> Seq(Data)]
    /\ \A j \in 1..Len(mail["subscription"]) : mail["subscription"][j].id \in Groups

\* Before the Manager has answered the read thread has nothing to do.
Fresh ==
    ~ read.connected => /\ toMain = <<>> /\ toRead = <<>> /\ read.blocked = <<>>
                        /\ main.at \in {"init", "gone"}
                        /\ \A f \in Filters : filters[f] = 0

\* Publications wait during the hold, and none does after it.
UpTo(k) == [n \in 1..k |-> n]

Held ==
    IF hold_ THEN sent = <<>> /\ publish_queue_ = UpTo(seen.published)
    ELSE publish_queue_ = <<>> /\ sent = UpTo(seen.published)

AllReported == reported_clients_ = required_clients_

Holding(q) == \A j \in 1..Len(q) : q[j].hold

\* Nobody says that the hold is off before all have reported.
Truthful ==
    \/ AllReported
    \/ /\ hold_
       /\ Holding(toMain) /\ Holding(control_buffer_) /\ Holding(read.blocked)
       /\ Holding(responses)

\* The Manager hears that this client is ready when it is.
Ready ==
    ready_ \/ /\ Self \notin reported_clients_
              /\ \A j \in 1..Len(requests) : ~ requests[j]

\* No request to the SUB socket in q; no ack, and just one.
NoCall(q) == \A j \in 1..Len(q) : q[j].type \notin CallTypes
NoAck(q) == \A j \in 1..Len(q) : q[j].type \notin AckTypes
OneAck(q) == \E j \in 1..Len(q) : /\ q[j].type \in AckTypes
                                  /\ \A k \in 1..Len(q) : k # j => q[k].type \notin AckTypes

\* The read thread is asked for one thing at a time, and the ack that the main
\* thread takes is the one to its latest request.
Asked ==
    IF main.at = "ack"
    THEN \A j \in 1..Len(toRead) : toRead[j].type \in CallTypes
                                      => j = Len(toRead) /\ toRead[j] = main.todo[1]
    ELSE NoCall(toRead)

Answered ==
    \/ NoAck(toMain) /\ NoAck(read.blocked)
    \/ /\ main.at = "ack" /\ NoCall(toRead)
       /\ \/ OneAck(toMain) /\ NoAck(read.blocked)
          \/ NoAck(toMain) /\ OneAck(read.blocked)

\* No call asks for two things about the same filter.
Unique(todo) ==
    \A j, k \in 1..Len(todo) :
        todo[j].type \in CallTypes /\ todo[k].type \in CallTypes /\ todo[j].id = todo[k].id => j = k

Called == Calling => main.todo # <<>> /\ Unique(main.todo)

\* Is there a request of this type for filter f in todo?
Asks(todo, f, type) == \E k \in 1..Len(todo) : todo[k].type = type /\ todo[k].id = f

\* What the read thread has not done yet of the main thread's call.
Left == IF main.at = "ack" /\ NoCall(toRead) THEN Tail(main.todo) ELSE main.todo

Pending(f, type) == Calling /\ Asks(Left, f, type)

\* Do the books ask for filter f?
Wanted(f) ==
    IF f = Slash THEN regex_subscriptions_ # {}
    ELSE portal_subscriptions_[f] > 0 \/ forwarder_subscriptions_[f] # None

\* The requests on their way bring the filters to where the books are.
Settled ==
    \A f \in Filters :
        /\ Pending(f, "SUBSCRIBE") => filters[f] = 0 /\ Wanted(f)
        /\ Pending(f, "UNSUBSCRIBE") => filters[f] \in {0, 1} /\ ~ Wanted(f)
        /\ ~ Pending(f, "SUBSCRIBE") /\ ~ Pending(f, "UNSUBSCRIBE")
              => filters[f] = IF Wanted(f) THEN 1 ELSE 0

\* The books, in which an identifier of a forwarder has a subscription that is kept.
Books ==
    /\ portal_subscriptions_ \in [Ids -> Nat]
    /\ forwarder_subscriptions_ \in [Ids -> Forwarders \cup {None}]
    /\ forwarder_subscription_identifiers_ \in [Forwarders -> SUBSET Ids]
    /\ regex_subscriptions_ \subseteq Forwarders \cup {Portal}
    /\ \A i \in Ids, s \in Forwarders :
          i \in forwarder_subscription_identifiers_[s] => forwarder_subscriptions_[i] # None

\* The rest of TypeOK.
Limits ==
    /\ Len(toMain) <= Hwm /\ Len(read.blocked) <= 1
    /\ filters \in [Filters -> Nat]
    /\ hold_ \in BOOLEAN /\ ready_ \in BOOLEAN
    /\ reported_clients_ \subseteq required_clients_

Typed == Threads /\ Queues /\ Mailed /\ Limits /\ Fresh
Release == Held /\ Truthful /\ Ready
Requested == Books /\ Called /\ Asked /\ Answered /\ Settled

Sound == Typed /\ Release /\ Requested

-----------------------------------------------------------------------------
(* Sequences of messages. *)

\* The elements of the rest of a queue.
LEMMA TailElements ==
    ASSUME NEW S, NEW q \in Seq(S), q # <<>>
    PROVE  /\ Tail(q) \in Seq(S) /\ Len(Tail(q)) = Len(q) - 1 /\ Len(q) \in Nat \ {0}
           /\ \A j \in 1..Len(Tail(q)) : Tail(q)[j] = q[j + 1] /\ j + 1 \in 1..Len(q)
           /\ Head(q) = q[1] /\ Head(q) \in S
BY HeadTailProperties, LenProperties

\* The elements of a queue with one more.
LEMMA AppendElements ==
    ASSUME NEW S, NEW q \in Seq(S), NEW m \in S
    PROVE  /\ Append(q, m) \in Seq(S) /\ Len(Append(q, m)) = Len(q) + 1 /\ Len(q) \in Nat
           /\ \A j \in 1..Len(q) : Append(q, m)[j] = q[j]
           /\ Append(q, m)[Len(q) + 1] = m
           /\ Append(q, m) # <<>>
BY AppendProperties, LenProperties

\* The elements of two queues one after the other.
LEMMA ConcatElements ==
    ASSUME NEW S, NEW q \in Seq(S), NEW r \in Seq(S)
    PROVE  /\ q \o r \in Seq(S) /\ Len(q \o r) = Len(q) + Len(r)
           /\ Len(q) \in Nat /\ Len(r) \in Nat
           /\ \A j \in 1..Len(q) : (q \o r)[j] = q[j]
           /\ \A j \in (Len(q) + 1)..Len(q \o r) : /\ (q \o r)[j] = r[j - Len(q)]
                                                   /\ j - Len(q) \in 1..Len(r)
BY ConcatProperties, LenProperties

\* A queue without a release of the hold stays one under the queue
\* operations.
LEMMA HoldingQueues ==
    ASSUME NEW S, NEW q \in Seq(S), Holding(q)
    PROVE  /\ \A m \in S : m.hold => Holding(Append(q, m))
           /\ \A r \in Seq(S) : Holding(r) => Holding(q \o r)
           /\ q # <<>> => Holding(Tail(q)) /\ Head(q).hold
<1>1. ASSUME NEW m \in S, m.hold PROVE Holding(Append(q, m))
  BY <1>1, AppendElements DEF Holding
<1>2. ASSUME NEW r \in Seq(S), Holding(r) PROVE Holding(q \o r)
  <2> SUFFICES ASSUME NEW j \in 1..Len(q \o r) PROVE (q \o r)[j].hold
    BY DEF Holding
  <2>1. CASE j \in 1..Len(q)  BY <2>1, ConcatElements DEF Holding
  <2>2. CASE j \in (Len(q) + 1)..Len(q \o r)  BY <1>2, <2>2, ConcatElements DEF Holding
  <2>3. Len(q) \in Nat /\ Len(r) \in Nat /\ Len(q \o r) = Len(q) + Len(r)  BY ConcatElements
  <2> QED BY <2>1, <2>2, <2>3
<1>3. ASSUME q # <<>> PROVE Holding(Tail(q)) /\ Head(q).hold
  BY <1>3, TailElements DEF Holding
<1> QED BY <1>1, <1>2, <1>3

\* A queue without a request stays one when anything else is appended or it
\* is read.
LEMMA NoCallQueues ==
    ASSUME NEW q \in Seq(Messages), NoCall(q)
    PROVE  /\ \A m \in Messages : m.type \notin CallTypes => NoCall(Append(q, m))
           /\ q # <<>> => NoCall(Tail(q)) /\ Head(q).type \notin CallTypes
<1>1. ASSUME NEW m \in Messages, m.type \notin CallTypes PROVE NoCall(Append(q, m))
  BY <1>1, AppendElements DEF NoCall
<1>2. ASSUME q # <<>> PROVE NoCall(Tail(q)) /\ Head(q).type \notin CallTypes
  BY <1>2, TailElements DEF NoCall
<1> QED BY <1>1, <1>2

\* An ack appended to a queue without acks is the only one.
LEMMA NoAckQueues ==
    ASSUME NEW q \in Seq(Messages), NoAck(q)
    PROVE  /\ \A m \in Messages : IF m.type \in AckTypes THEN OneAck(Append(q, m))
                                  ELSE NoAck(Append(q, m))
           /\ q # <<>> => NoAck(Tail(q)) /\ Head(q).type \notin AckTypes
<1>1. ASSUME NEW m \in Messages, m.type \notin AckTypes PROVE NoAck(Append(q, m))
  BY <1>1, AppendElements DEF NoAck
<1>2. ASSUME NEW m \in Messages, m.type \in AckTypes PROVE OneAck(Append(q, m))
  <2>1. Len(q) + 1 \in 1..Len(Append(q, m))  BY AppendElements
  <2>2. \A k \in 1..Len(Append(q, m)) : k # Len(q) + 1 => Append(q, m)[k].type \notin AckTypes
    BY AppendElements DEF NoAck
  <2> QED BY <1>2, <2>1, <2>2, AppendElements DEF OneAck
<1>3. ASSUME q # <<>> PROVE NoAck(Tail(q)) /\ Head(q).type \notin AckTypes
  BY <1>3, TailElements DEF NoAck
<1> QED BY <1>1, <1>2, <1>3

\* A queue with one ack keeps it until it is read.
LEMMA OneAckQueues ==
    ASSUME NEW q \in Seq(Messages), OneAck(q)
    PROVE  /\ \A m \in Messages : m.type \notin AckTypes => OneAck(Append(q, m))
           /\ q # <<>>
           /\ IF Head(q).type \in AckTypes THEN NoAck(Tail(q)) ELSE OneAck(Tail(q))
<1>1. PICK i \in 1..Len(q) : /\ q[i].type \in AckTypes
                             /\ \A k \in 1..Len(q) : k # i => q[k].type \notin AckTypes
  BY DEF OneAck
<1>2. q # <<>> /\ Len(q) \in Nat  BY <1>1, LenProperties
<1>3. ASSUME NEW m \in Messages, m.type \notin AckTypes PROVE OneAck(Append(q, m))
  <2>1. i \in 1..Len(Append(q, m)) /\ Append(q, m)[i].type \in AckTypes
    BY <1>1, AppendElements
  <2>2. \A k \in 1..Len(Append(q, m)) : k # i => Append(q, m)[k].type \notin AckTypes
    BY <1>1, <1>3, AppendElements
  <2> QED BY <2>1, <2>2 DEF OneAck
<1>4. CASE Head(q).type \in AckTypes
  <2>1. i = 1  BY <1>1, <1>2, <1>4, TailElements
  <2>2. NoAck(Tail(q))  BY <1>1, <1>2, <2>1, TailElements DEF NoAck
  <2> QED BY <1>2, <1>3, <1>4, <2>2
<1>5. CASE Head(q).type \notin AckTypes
  <2>1. i # 1  BY <1>1, <1>2, <1>5, TailElements
  <2>2. i - 1 \in 1..Len(Tail(q)) /\ Tail(q)[i - 1] = q[i]  BY <1>1, <1>2, <2>1, TailElements
  <2>3. \A k \in 1..Len(Tail(q)) : k # i - 1 => Tail(q)[k].type \notin AckTypes
    BY <1>1, <1>2, TailElements
  <2>4. OneAck(Tail(q))  BY <1>1, <2>2, <2>3 DEF OneAck
  <2> QED BY <1>2, <1>3, <1>5, <2>4
<1> QED BY <1>4, <1>5

-----------------------------------------------------------------------------
(* Messages and calls. *)

\* Control messages are messages, and do not release the hold.
LEMMA MessageTypes ==
    /\ \A type \in Types \ {"RECEIVE"} : /\ Control(type) \in Messages
                                        /\ Control(type).type = type /\ Control(type).hold
    /\ \A type \in CallTypes, id \in Filters : /\ About(type, id) \in Messages
                                               /\ About(type, id).type = type
                                               /\ About(type, id).id = id
                                               /\ About(type, id).hold
BY DEF Control, About, Messages, Clients, Types, CallTypes

\* So is a notification of the hold state, with the state it carries.
LEMMA NotifyType ==
    ASSUME NEW h \in BOOLEAN
    PROVE  /\ [Control("NOTIFY_HOLD_STATE") EXCEPT !.hold = h] \in Messages
           /\ [Control("NOTIFY_HOLD_STATE") EXCEPT !.hold = h].type = "NOTIFY_HOLD_STATE"
BY DEF Control, Messages, Clients, Types

\* So are received data, and the answers of the Manager.
LEMMA ReceiveTypes ==
    /\ \A i \in Groups, k \in Nat :
          /\ [About("RECEIVE", i) EXCEPT !.n = k] \in Messages
          /\ [About("RECEIVE", i) EXCEPT !.n = k].type = "RECEIVE"
          /\ [About("RECEIVE", i) EXCEPT !.n = k].hold
    /\ \A c \in Clients, h \in BOOLEAN :
          /\ [About("RECEIVE", ManagerResponse) EXCEPT !.client = c, !.hold = h] \in Messages
          /\ [About("RECEIVE", ManagerResponse) EXCEPT !.client = c, !.hold = h].type = "RECEIVE"
          /\ [About("RECEIVE", ManagerResponse) EXCEPT !.client = c, !.hold = h].hold = h
BY DEF Control, About, Messages, Clients, Types, Filters, Ids

\* A call that waits for acks sets the main thread's list of requests, or
\* returns at once.
LEMMA CallEffect ==
    ASSUME main \in Mains, NEW todo \in Seq(Messages), NEW back \in {"poll", "control"},
           Call(todo, back)
    PROVE  /\ main' \in Mains
           /\ main'.todo = todo
           /\ main'.at = IF todo = <<>> THEN back ELSE "call"
           /\ main'.items = main.items
BY DEF Call, Mains, Places

\* A request made under a condition is a list of at most one.
LEMMA IfTypes ==
    ASSUME NEW c \in BOOLEAN, NEW type \in CallTypes, NEW id \in Filters
    PROVE  /\ If(c, type, id) \in Seq(Messages)
           /\ c => If(c, type, id) = <<About(type, id)>>
           /\ ~ c => If(c, type, id) = <<>>
<1>1. About(type, id) \in Messages  BY MessageTypes
<1> QED BY <1>1 DEF If

\* The counters of the history keep their types.
LEMMA HistoryTypes ==
    ASSUME NEW h \in Histories
    PROVE  /\ [h EXCEPT !.calls = @ + 1] \in Histories
           /\ [h EXCEPT !.forwarded = @ + 1] \in Histories
           /\ [h EXCEPT !.data = @ + 1] \in Histories /\ h.data + 1 \in Nat
           /\ [h EXCEPT !.published = @ + 1] \in Histories /\ h.published \in Nat
           /\ [h EXCEPT !.calls = @ + 1].published = h.published
           /\ [h EXCEPT !.forwarded = @ + 1].published = h.published
           /\ [h EXCEPT !.data = @ + 1].published = h.published
           /\ [h EXCEPT !.published = @ + 1].published = h.published + 1
<1>1. /\ h.calls + 1 \in Nat /\ h.forwarded + 1 \in Nat /\ h.data + 1 \in Nat
      /\ h.published + 1 \in Nat /\ h.published \in Nat
  BY DEF Histories
<1>2. ASSUME NEW k \in Nat
      PROVE  /\ [h EXCEPT !.calls = k] \in Histories
             /\ [h EXCEPT !.forwarded = k] \in Histories
             /\ [h EXCEPT !.data = k] \in Histories
             /\ [h EXCEPT !.published = k] \in Histories
  BY DEF Histories
<1>3. ASSUME NEW k
      PROVE  /\ [h EXCEPT !.calls = k].published = h.published
             /\ [h EXCEPT !.forwarded = k].published = h.published
             /\ [h EXCEPT !.data = k].published = h.published
             /\ [h EXCEPT !.published = k].published = k
  BY DEF Histories
<1> QED BY <1>1, <1>2, <1>3

\* What the read thread's send_control_msg() does.
LEMMA ReadSendsEffect ==
    ASSUME main \in Mains, read \in Reads, toMain \in Seq(Messages), Len(toMain) <= Hwm,
           read.blocked = <<>>, NEW m \in Messages, ReadSends(m)
    PROVE  /\ main' \in Mains /\ read' \in Reads
           /\ toMain' \in Seq(Messages) /\ Len(toMain') <= Hwm /\ Len(read'.blocked) <= 1
           /\ main'.todo = main.todo /\ main'.back = main.back
           /\ main'.at = main.at \/ (main.at = "waiting" /\ main'.at = "poll")
           /\ read'.connected = read.connected /\ read'.alive = read.alive
           /\ \/ toMain' = Append(toMain, m) /\ read'.blocked = <<>>
              \/ toMain' = toMain /\ read'.blocked = <<m>>
<1>0. Hwm \in Nat  BY PortalAssumption
<1>1. CASE Len(toMain) < Hwm
  <2>1. /\ toMain' = Append(toMain, m) /\ read' = read
        /\ main' = IF main.at = "waiting" THEN [main EXCEPT !.at = "poll"] ELSE main
    BY <1>1 DEF ReadSends
  <2>2. toMain' \in Seq(Messages) /\ Len(toMain') <= Hwm  BY <1>0, <1>1, <2>1, AppendElements
  <2>3. /\ main' \in Mains /\ main'.todo = main.todo /\ main'.back = main.back
        /\ main'.at = main.at \/ (main.at = "waiting" /\ main'.at = "poll")
    BY <2>1 DEF Mains, Places
  <2> QED BY <2>1, <2>2, <2>3
<1>2. CASE ~ (Len(toMain) < Hwm)
  <2>1. read' = [read EXCEPT !.blocked = <<m>>] /\ main' = main /\ toMain' = toMain
    BY <1>2 DEF ReadSends
  <2>2. <<m>> \in Seq(Messages) /\ Len(<<m>>) = 1  OBVIOUS
  <2>3. /\ read' \in Reads /\ read'.blocked = <<m>>
        /\ read'.connected = read.connected /\ read'.alive = read.alive
    BY <2>1, <2>2 DEF Reads
  <2> QED BY <2>1, <2>2, <2>3
<1> QED BY <1>1, <1>2

-----------------------------------------------------------------------------
(* What the operations on the books do. *)

\* An empty list asks for nothing.
LEMMA AsksEmpty == \A f, type : ~ Asks(<<>>, f, type) /\ Unique(<<>>)
BY DEF Asks, Unique

\* What a list asks for is what its first request asks for, then the rest.
LEMMA AsksTail ==
    ASSUME NEW todo \in Seq(Messages), todo # <<>>
    PROVE  /\ \A f, type : Asks(todo, f, type) <=> \/ Head(todo).type = type /\ Head(todo).id = f
                                                   \/ Asks(Tail(todo), f, type)
           /\ Unique(todo) =>
                /\ Unique(Tail(todo))
                /\ Head(todo).type \in CallTypes
                      => \A type \in CallTypes : ~ Asks(Tail(todo), Head(todo).id, type)
<1> USE TailElements
<1>1. ASSUME NEW f, NEW type, Asks(todo, f, type)
      PROVE  (Head(todo).type = type /\ Head(todo).id = f) \/ Asks(Tail(todo), f, type)
  <2>1. PICK k \in 1..Len(todo) : todo[k].type = type /\ todo[k].id = f  BY <1>1 DEF Asks
  <2>2. CASE k = 1  BY <2>1, <2>2
  <2>3. CASE k # 1
    <3>1. k - 1 \in 1..Len(Tail(todo)) /\ Tail(todo)[k - 1] = todo[k]  BY <2>3
    <3> QED BY <2>1, <3>1 DEF Asks
  <2> QED BY <2>2, <2>3
<1>2. ASSUME NEW f, NEW type, (Head(todo).type = type /\ Head(todo).id = f) \/ Asks(Tail(todo), f, type)
      PROVE  Asks(todo, f, type)
  <2>1. CASE Head(todo).type = type /\ Head(todo).id = f
    <3>1. 1 \in 1..Len(todo)  OBVIOUS
    <3> QED BY <2>1, <3>1 DEF Asks
  <2>2. CASE Asks(Tail(todo), f, type)
    <3>1. PICK k \in 1..Len(Tail(todo)) : Tail(todo)[k].type = type /\ Tail(todo)[k].id = f
      BY <2>2 DEF Asks
    <3>2. k + 1 \in 1..Len(todo) /\ Tail(todo)[k] = todo[k + 1]  OBVIOUS
    <3> QED BY <3>1, <3>2 DEF Asks
  <2> QED BY <1>2, <2>1, <2>2
<1>3. ASSUME Unique(todo) PROVE Unique(Tail(todo))
  BY <1>3 DEF Unique
<1>4. ASSUME Unique(todo), Head(todo).type \in CallTypes, NEW type \in CallTypes,
             Asks(Tail(todo), Head(todo).id, type)
      PROVE  FALSE
  <2>1. PICK k \in 1..Len(Tail(todo)) : Tail(todo)[k].type = type /\ Tail(todo)[k].id = Head(todo).id
    BY <1>4 DEF Asks
  <2>2. k + 1 \in 1..Len(todo) /\ Tail(todo)[k] = todo[k + 1] /\ 1 \in 1..Len(todo)  OBVIOUS
  <2> QED BY <1>4, <2>1, <2>2 DEF Unique
<1> QED BY <1>1, <1>2, <1>3, <1>4

\* A list of one request asks for that alone.
LEMMA AsksOne ==
    ASSUME NEW id \in Filters, NEW t \in CallTypes
    PROVE  /\ Unique(<<About(t, id)>>)
           /\ \A f, type : Asks(<<About(t, id)>>, f, type) <=> f = id /\ type = t
<1>1. About(t, id) \in Messages /\ About(t, id).type = t /\ About(t, id).id = id
  BY MessageTypes DEF Types
<1> DEFINE m == About(t, id)
<1> HIDE DEF m
<1>2. Len(<<m>>) = 1 /\ <<m>>[1] = m  OBVIOUS
<1>3. Unique(<<m>>)  BY <1>2 DEF Unique
<1>4. \A f, type : Asks(<<m>>, f, type) <=> m.type = type /\ m.id = f
  BY <1>2 DEF Asks
<1> QED BY <1>1, <1>3, <1>4 DEF m

\* Two lists about different filters ask together for what each asks for.
LEMMA AsksConcat ==
    ASSUME NEW q \in Seq(Messages), NEW r \in Seq(Messages), Unique(q), Unique(r),
           \A f \in Filters \cup {None}, s \in CallTypes, t \in CallTypes :
              ~ (Asks(q, f, s) /\ Asks(r, f, t))
    PROVE  /\ Unique(q \o r)
           /\ \A f, type : Asks(q \o r, f, type) <=> Asks(q, f, type) \/ Asks(r, f, type)
<1> DEFINE x == q \o r
<1>1. /\ x \in Seq(Messages) /\ Len(x) = Len(q) + Len(r) /\ Len(q) \in Nat /\ Len(r) \in Nat
      /\ \A j \in 1..Len(q) : x[j] = q[j]
      /\ \A j \in (Len(q) + 1)..Len(x) : x[j] = r[j - Len(q)] /\ j - Len(q) \in 1..Len(r)
  BY ConcatElements
<1> HIDE DEF x
<1>2. ASSUME NEW f, NEW type, Asks(x, f, type) PROVE Asks(q, f, type) \/ Asks(r, f, type)
  <2>1. PICK k \in 1..Len(x) : x[k].type = type /\ x[k].id = f  BY <1>2 DEF Asks
  <2>2. CASE k \in 1..Len(q)  BY <1>1, <2>1, <2>2 DEF Asks
  <2>3. CASE k \in (Len(q) + 1)..Len(x)  BY <1>1, <2>1, <2>3 DEF Asks
  <2> QED BY <1>1, <2>2, <2>3
<1>3. ASSUME NEW f, NEW type, Asks(q, f, type) \/ Asks(r, f, type) PROVE Asks(x, f, type)
  <2>1. CASE Asks(q, f, type)
    <3>1. PICK k \in 1..Len(q) : q[k].type = type /\ q[k].id = f  BY <2>1 DEF Asks
    <3>2. k \in 1..Len(x) /\ x[k] = q[k]  BY <1>1
    <3> QED BY <3>1, <3>2 DEF Asks
  <2>2. CASE Asks(r, f, type)
    <3>1. PICK k \in 1..Len(r) : r[k].type = type /\ r[k].id = f  BY <2>2 DEF Asks
    <3>2. /\ k + Len(q) \in (Len(q) + 1)..Len(x) /\ k + Len(q) \in 1..Len(x)
          /\ (k + Len(q)) - Len(q) = k
      BY <1>1
    <3>3. x[k + Len(q)] = r[k]  BY <1>1, <3>2
    <3> QED BY <3>1, <3>2, <3>3 DEF Asks
  <2> QED BY <1>3, <2>1, <2>2
<1>4. ASSUME NEW j \in 1..Len(x), NEW k \in 1..Len(x),
             x[j].type \in CallTypes, x[k].type \in CallTypes, x[j].id = x[k].id
      PROVE  j = k
  <2>0. x[j].id \in Filters \cup {None}
    <3>1. x[j] \in Messages  BY <1>1, ElementOfSeq
    <3> QED BY <3>1 DEF Messages
  <2>1. CASE j \in 1..Len(q) /\ k \in 1..Len(q)  BY <1>1, <1>4, <2>1 DEF Unique
  <2>2. CASE j \notin 1..Len(q) /\ k \notin 1..Len(q)
    <3>1. /\ x[j] = r[j - Len(q)] /\ j - Len(q) \in 1..Len(r)
          /\ x[k] = r[k - Len(q)] /\ k - Len(q) \in 1..Len(r)
      <4>1. j \in (Len(q) + 1)..Len(x) /\ k \in (Len(q) + 1)..Len(x)  BY <1>1, <2>2
      <4> QED BY <1>1, <4>1
    <3>2. j - Len(q) = k - Len(q)  BY <1>4, <3>1 DEF Unique
    <3> QED BY <1>1, <3>2
  <2>3. ASSUME NEW a \in 1..Len(x), NEW b \in 1..Len(x), a \in 1..Len(q), b \notin 1..Len(q),
               x[a].type \in CallTypes, x[b].type \in CallTypes, x[a].id = x[b].id,
               x[a].id \in Filters \cup {None}
        PROVE  FALSE
    <3>1. Asks(q, x[a].id, x[a].type)  BY <1>1, <2>3 DEF Asks
    <3>2. x[b] = r[b - Len(q)] /\ b - Len(q) \in 1..Len(r)  BY <1>1, <2>3
    <3>3. Asks(r, x[b].id, x[b].type)  BY <3>2 DEF Asks
    <3> QED BY <2>3, <3>1, <3>3
  <2> QED BY <1>4, <2>0, <2>1, <2>2, <2>3
<1>5. Unique(x)  BY <1>4 DEF Unique
<1> QED BY <1>2, <1>3, <1>5 DEF x

\* SetToSeq() lists a finite set, each member once.
LEMMA SetToSeqCovers ==
    ASSUME NEW S, IsFiniteSet(S)
    PROVE  /\ SetToSeq(S) \in [1..Cardinality(S) -> S]
           /\ IsInjective(SetToSeq(S))
           /\ \A x \in S : \E k \in 1..Cardinality(S) : SetToSeq(S)[k] = x
           /\ Cardinality(S) \in Nat
<1> DEFINE n == Cardinality(S)
           e == SetToSeq(S)
<1>1. n \in Nat /\ ExistsBijection(1..n, S)  BY FS_CardinalityType
<1>2. \E h \in [1..n -> S] : IsInjective(h)
  BY <1>1 DEF ExistsBijection, Bijection, Injection
<1>3. e \in [1..n -> S] /\ IsInjective(e)  BY <1>2 DEF SetToSeq
<1>4. e \in Injection(1..n, S)  BY <1>3 DEF Injection
<1>5. Cardinality(1..n) = n
  <2>1. Cardinality(1..n) = IF 1 > n THEN 0 ELSE n - 1 + 1  BY <1>1, FS_Interval
  <2> QED BY <2>1, <1>1
<1>6. e \in Surjection(1..n, S)
  <2> HIDE DEF e, n
  <2>1. Cardinality(1..n) = Cardinality(S) <=> e \in Surjection(1..n, S)  BY <1>4, FS_Injection
  <2> QED BY <2>1, <1>5 DEF n
<1> QED BY <1>1, <1>3, <1>6 DEF Surjection

\* A request per filter of a finite set asks for each of them, once.
LEMMA AsksRequests ==
    ASSUME NEW ids \in SUBSET Filters, IsFiniteSet(ids), NEW t \in CallTypes
    PROVE  /\ Requests(t, ids) \in Seq(Messages)
           /\ Unique(Requests(t, ids))
           /\ \A f, type : Asks(Requests(t, ids), f, type) <=> f \in ids /\ type = t
<1> DEFINE n == Cardinality(ids)
           e == SetToSeq(ids)
           r == Requests(t, ids)
<1>1. /\ n \in Nat /\ e \in [1..n -> ids] /\ IsInjective(e)
      /\ \A x \in ids : \E k \in 1..n : e[k] = x
  BY SetToSeqCovers
<1>2. r = [k \in 1..n |-> About(t, e[k])]  BY DEF Requests
<1> HIDE DEF n, e, r
<1>3. \A k \in 1..n : /\ r[k] \in Messages /\ r[k] = About(t, e[k])
                      /\ r[k].type = t /\ r[k].id = e[k] /\ e[k] \in ids
  <2> SUFFICES ASSUME NEW k \in 1..n
               PROVE  /\ r[k] \in Messages /\ r[k] = About(t, e[k])
                      /\ r[k].type = t /\ r[k].id = e[k] /\ e[k] \in ids
    OBVIOUS
  <2>1. r[k] = About(t, e[k]) /\ e[k] \in ids  BY <1>1, <1>2
  <2> QED BY <2>1, MessageTypes DEF Types
<1>4. r \in Seq(Messages) /\ Len(r) = n
  <2>1. r \in [1..n -> Messages]  BY <1>2, <1>3
  <2> QED BY <1>1, <2>1, LenProperties, SeqDef
<1>5. Unique(r)  BY <1>1, <1>3, <1>4 DEF Unique, IsInjective
<1>6. ASSUME NEW f, NEW type PROVE Asks(r, f, type) <=> f \in ids /\ type = t
  BY <1>1, <1>3, <1>4 DEF Asks
<1> QED BY <1>4, <1>5, <1>6 DEF r

\* An operation on the books leaves the main thread with the requests that
\* bring the filters to where the books then are.
Filed(back) ==
    /\ main' \in Mains
    /\ main'.at = IF main'.todo = <<>> THEN back ELSE "call"
    /\ Books'
    /\ Unique(main'.todo)
    /\ \A f \in Filters :
          /\ Asks(main'.todo, f, "SUBSCRIBE") => ~ Wanted(f) /\ Wanted(f)'
          /\ Asks(main'.todo, f, "UNSUBSCRIBE") => ~ Wanted(f)'
          /\ ~ Asks(main'.todo, f, "SUBSCRIBE") /\ ~ Asks(main'.todo, f, "UNSUBSCRIBE")
                => (Wanted(f)' <=> Wanted(f))

Backs == {"poll", "control"}

\* One request, made exactly when the last or first owner of a filter
\* changed, covers the change of the books.
LEMMA IfFiled ==
    ASSUME main \in Mains, NEW c \in BOOLEAN, NEW t \in CallTypes, NEW id \in Filters,
           NEW back \in Backs, Call(If(c, t, id), back), Books',
           \A f \in Filters \ {id} : Wanted(f)' <=> Wanted(f),
           c /\ t = "SUBSCRIBE" => ~ Wanted(id) /\ Wanted(id)',
           c /\ t = "UNSUBSCRIBE" => ~ Wanted(id)',
           ~ c => (Wanted(id)' <=> Wanted(id))
    PROVE  Filed(back)
<1>1. If(c, t, id) \in Seq(Messages)  BY IfTypes DEF Types
<1>2. /\ main' \in Mains /\ main'.todo = If(c, t, id)
      /\ main'.at = IF main'.todo = <<>> THEN back ELSE "call"
  BY <1>1, CallEffect DEF Backs
<1>3. CASE c
  <2>1. main'.todo = <<About(t, id)>>  BY <1>2, <1>3 DEF If
  <2>2. /\ Unique(main'.todo)
        /\ \A f, type : Asks(main'.todo, f, type) <=> f = id /\ type = t
    BY <2>1, AsksOne
  <2>3. ASSUME NEW f \in Filters
        PROVE  /\ Asks(main'.todo, f, "SUBSCRIBE") => ~ Wanted(f) /\ Wanted(f)'
               /\ Asks(main'.todo, f, "UNSUBSCRIBE") => ~ Wanted(f)'
               /\ ~ Asks(main'.todo, f, "SUBSCRIBE") /\ ~ Asks(main'.todo, f, "UNSUBSCRIBE")
                     => (Wanted(f)' <=> Wanted(f))
    <3>1. CASE f = id
      <4>1. CASE t = "SUBSCRIBE"  BY <1>3, <2>2, <3>1, <4>1
      <4>2. CASE t = "UNSUBSCRIBE"  BY <1>3, <2>2, <3>1, <4>2
      <4> QED BY <4>1, <4>2 DEF CallTypes
    <3>2. CASE f # id  BY <2>2, <3>2
    <3> QED BY <3>1, <3>2
  <2> QED BY <1>2, <2>2, <2>3 DEF Filed
<1>4. CASE ~ c
  <2>1. main'.todo = <<>>  BY <1>2, <1>4 DEF If
  <2>2. Unique(main'.todo) /\ \A f, type : ~ Asks(main'.todo, f, type)  BY <2>1, AsksEmpty
  <2> QED BY <1>2, <1>4, <2>2 DEF Filed
<1> QED BY <1>3, <1>4

\* _subscribe() asks for a filter exactly when nobody wanted it before.
LEMMA SubscribeFiled ==
    ASSUME main \in Mains, Books, NEW i \in Ids, NEW back \in Backs, _subscribe(i, back)
    PROVE  Filed(back)
<1> DEFINE c == forwarder_subscriptions_[i] = None /\ portal_subscriptions_[i] = 0
<1>1. /\ portal_subscriptions_' = [portal_subscriptions_ EXCEPT ![i] = @ + 1]
      /\ UNCHANGED <<forwarder_subscriptions_, forwarder_subscription_identifiers_,
                     regex_subscriptions_>>
      /\ Call(If(c, "SUBSCRIBE", i), back)
  BY DEF _subscribe
<1>2. i # Slash /\ i \in Filters  BY PortalAssumption DEF Ids, Filters
<1>3. Books'  BY <1>1 DEF Books
<1>4. \A f \in Filters \ {i} : Wanted(f)' <=> Wanted(f)
  BY <1>1 DEF Wanted, Books, Filters
<1>5. Wanted(i)' /\ (c <=> ~ Wanted(i))
  BY <1>1, <1>2 DEF Wanted, Books
<1> HIDE DEF c
<1>6. c \in BOOLEAN  BY DEF c
<1> QED BY <1>1, <1>2, <1>3, <1>4, <1>5, <1>6, IfFiled DEF CallTypes

\* _unsubscribe() gives a filter up exactly when nobody wants it any more.
LEMMA UnsubscribeFiled ==
    ASSUME main \in Mains, Books, NEW i \in Ids, NEW back \in Backs, _unsubscribe(i, back)
    PROVE  Filed(back)
<1> DEFINE c == forwarder_subscriptions_[i] = None
<1>1. /\ portal_subscriptions_' = [portal_subscriptions_ EXCEPT ![i] = 0]
      /\ UNCHANGED <<forwarder_subscriptions_, forwarder_subscription_identifiers_,
                     regex_subscriptions_>>
      /\ Call(If(c, "UNSUBSCRIBE", i), back)
  BY DEF _unsubscribe
<1>2. i # Slash /\ i \in Filters  BY PortalAssumption DEF Ids, Filters
<1>3. Books'  BY <1>1 DEF Books
<1>4. \A f \in Filters \ {i} : Wanted(f)' <=> Wanted(f)
  BY <1>1 DEF Wanted, Books, Filters
<1>5. (c => ~ Wanted(i)') /\ (~ c => Wanted(i) /\ Wanted(i)')
  BY <1>1, <1>2 DEF Wanted, Books
<1> HIDE DEF c
<1>6. c \in BOOLEAN  BY DEF c
<1> QED BY <1>1, <1>2, <1>3, <1>4, <1>5, <1>6, IfFiled DEF CallTypes

\* _subscribe_regex() asks for the empty filter with the first regex.
LEMMA SubscribeRegexFiled ==
    ASSUME main \in Mains, Books, NEW s \in Forwarders \cup {Portal}, NEW back \in Backs,
           _subscribe_regex(s, back)
    PROVE  Filed(back)
<1> DEFINE c == regex_subscriptions_ = {}
<1>1. /\ regex_subscriptions_' = regex_subscriptions_ \cup {s}
      /\ UNCHANGED <<forwarder_subscriptions_, forwarder_subscription_identifiers_,
                     portal_subscriptions_>>
      /\ Call(If(c, "SUBSCRIBE", Slash), back)
  BY DEF _subscribe_regex
<1>2. Slash \in Filters  BY DEF Filters
<1>3. Books'  BY <1>1 DEF Books
<1>4. \A f \in Filters \ {Slash} : Wanted(f)' <=> Wanted(f)  BY <1>1 DEF Wanted
<1>5. Wanted(Slash)' /\ (c <=> ~ Wanted(Slash))  BY <1>1 DEF Wanted
<1> HIDE DEF c
<1>6. c \in BOOLEAN  BY DEF c
<1> QED BY <1>1, <1>2, <1>3, <1>4, <1>5, <1>6, IfFiled DEF CallTypes

\* no_forwarder_subscribers is never true: the caller's own entry is there.
LEMMA NothingErased ==
    ASSUME Books, NEW s \in Forwarders, NEW ids
    PROVE  /\ Erased(s, ids) = {} /\ ForwarderFilters(s, ids) = <<>>
           /\ _forwarder_unsubscribe(s, ids) =>
                 forwarder_subscriptions_' = forwarder_subscriptions_
<1>1. Erased(s, ids) = {}  BY DEF Erased, NoForwarderSubscribers
<1>2. {i \in Erased(s, ids) : portal_subscriptions_[i] = 0} = {}  BY <1>1
<1>3. Requests("UNSUBSCRIBE", {}) = <<>>
  <2>1. Cardinality({}) = 0  BY FS_EmptySet
  <2> QED BY <2>1 DEF Requests
<1>4. _forwarder_unsubscribe(s, ids) => forwarder_subscriptions_' = forwarder_subscriptions_
  BY <1>1 DEF _forwarder_unsubscribe, Books
<1> QED BY <1>1, <1>2, <1>3, <1>4 DEF ForwarderFilters

\* A forwarder's subscription asks for a filter exactly when nobody wanted
\* it before.
LEMMA ForwardedSubscribeFiled ==
    ASSUME main \in Mains, Books, NEW s \in Forwarders, NEW i \in Ids, NEW back \in Backs,
           ForwardedSubscribe(s, i, back)
    PROVE  Filed(back)
<1> DEFINE c == /\ i \notin forwarder_subscription_identifiers_[s]
                /\ forwarder_subscriptions_[i] = None /\ portal_subscriptions_[i] = 0
<1>1. i # Slash /\ i \in Filters  BY PortalAssumption DEF Ids, Filters
<1>2. portal_subscriptions_' = portal_subscriptions_ /\ regex_subscriptions_' = regex_subscriptions_
  BY DEF ForwardedSubscribe
<1>3. CASE i \in forwarder_subscription_identifiers_[s]
  <2>1. UNCHANGED <<forwarder_subscriptions_, forwarder_subscription_identifiers_>>
    BY <1>3 DEF ForwardedSubscribe
  <2>2. Call(If(c, "SUBSCRIBE", i), back)  BY <1>3 DEF ForwardedSubscribe, If
  <2>3. Books'  BY <1>2, <2>1 DEF Books
  <2>4. \A f \in Filters : Wanted(f)' <=> Wanted(f)  BY <1>2, <2>1 DEF Wanted
  <2>5. ~ c  BY <1>3
  <2> HIDE DEF c
  <2>6. c \in BOOLEAN  BY DEF c
  <2> QED BY <1>1, <2>2, <2>3, <2>4, <2>5, <2>6, IfFiled DEF CallTypes
<1>4. CASE i \notin forwarder_subscription_identifiers_[s]
  <2>1. /\ forwarder_subscriptions_' = [forwarder_subscriptions_ EXCEPT
                                          ![i] = IF @ = None THEN s ELSE @]
        /\ forwarder_subscription_identifiers_' =
              [forwarder_subscription_identifiers_ EXCEPT ![s] = @ \cup {i}]
    BY <1>4 DEF ForwardedSubscribe
  <2>2. Call(If(c, "SUBSCRIBE", i), back)
    <3>1. c = (forwarder_subscriptions_[i] = None /\ portal_subscriptions_[i] = 0)  BY <1>4
    <3> QED BY <1>4, <3>1 DEF ForwardedSubscribe
  <2>3. /\ forwarder_subscriptions_' \in [Ids -> Forwarders \cup {None}]
        /\ forwarder_subscriptions_'[i] # None
        /\ \A j \in Ids \ {i} : forwarder_subscriptions_'[j] = forwarder_subscriptions_[j]
    BY <2>1, PortalAssumption DEF Books
  <2>4. /\ forwarder_subscription_identifiers_' \in [Forwarders -> SUBSET Ids]
        /\ \A u \in Forwarders, j \in Ids \ {i} : j \in forwarder_subscription_identifiers_'[u]
                                         => j \in forwarder_subscription_identifiers_[u]
    BY <2>1 DEF Books
  <2>5. Books'
    <3>1. \A j \in Ids, u \in Forwarders :
             j \in forwarder_subscription_identifiers_'[u] => forwarder_subscriptions_'[j] # None
      BY <2>3, <2>4 DEF Books
    <3> QED BY <1>2, <2>3, <2>4, <3>1 DEF Books
  <2>6. \A f \in Filters \ {i} : Wanted(f)' <=> Wanted(f)
    BY <1>2, <2>3 DEF Wanted, Filters
  <2>7. Wanted(i)' /\ (c <=> ~ Wanted(i))
    BY <1>1, <1>2, <1>4, <2>3 DEF Wanted, Books
  <2> HIDE DEF c
  <2>8. c \in BOOLEAN  BY DEF c
  <2> QED BY <1>1, <2>2, <2>5, <2>6, <2>7, <2>8, IfFiled DEF CallTypes
<1> QED BY <1>3, <1>4

\* A forwarder's unsubscription leaves books and filters in step.
LEMMA ForwardedUnsubscribeFiled ==
    ASSUME main \in Mains, Books, NEW s \in Forwarders, NEW i \in Ids, NEW back \in Backs,
           ForwardedUnsubscribe(s, i, back)
    PROVE  Filed(back)
<1>1. /\ Call(<<>>, back)
      /\ forwarder_subscriptions_' = forwarder_subscriptions_
      /\ portal_subscriptions_' = portal_subscriptions_ /\ regex_subscriptions_' = regex_subscriptions_
      /\ forwarder_subscription_identifiers_' =
            [forwarder_subscription_identifiers_ EXCEPT ![s] = @ \ {i}]
  BY NothingErased DEF ForwardedUnsubscribe, _forwarder_unsubscribe
<1>2. Books'  BY <1>1 DEF Books
<1>3. \A f \in Filters : Wanted(f)' <=> Wanted(f)  BY <1>1 DEF Wanted
<1>4. <<>> = If(FALSE, "SUBSCRIBE", Slash)  BY DEF If
<1> QED BY <1>1, <1>2, <1>3, <1>4, IfFiled DEF CallTypes, Filters

\* _unsubscribe_all() gives up each filter that nobody wants any more, once.
LEMMA UnsubscribeAllFiled ==
    ASSUME main \in Mains, Books, NEW s \in Forwarders \cup {Portal}, NEW back \in Backs,
           _unsubscribe_all(s, back)
    PROVE  Filed(back)
<1> DEFINE c == LastRegex(s)
           ids == {i \in Ids : portal_subscriptions_[i] > 0 /\ forwarder_subscriptions_[i] = None}
           last == If(c, "UNSUBSCRIBE", Slash)
<1>0. /\ regex_subscriptions_' = regex_subscriptions_ \ {s}
      /\ c \in BOOLEAN
      /\ c => regex_subscriptions_' = {}
      /\ ~ c => (regex_subscriptions_' = {} <=> regex_subscriptions_ = {})
  BY DEF _unsubscribe_all, LastRegex
<1>1. Slash \in Filters /\ Slash \notin Ids /\ Ids \subseteq Filters
  BY PortalAssumption DEF Filters, Ids
<1>2. CASE s = Portal
  <2>1. /\ Call(Requests("UNSUBSCRIBE", ids) \o last, back)
        /\ portal_subscriptions_' = [i \in Ids |-> 0]
        /\ UNCHANGED <<forwarder_subscriptions_, forwarder_subscription_identifiers_>>
    BY <1>2 DEF _unsubscribe_all
  <2>2. Books'  BY <1>0, <2>1 DEF Books
  <2>3. IsFiniteSet(ids) /\ ids \in SUBSET Filters
    <3>1. IsFiniteSet(Ids)  BY PortalAssumption, FS_AddElement DEF Ids
    <3> QED BY <1>1, <3>1, FS_Subset
  <2>4. /\ \A f \in ids : ~ Wanted(f)'
        /\ \A f \in Ids \ ids : Wanted(f)' <=> Wanted(f)
    BY <1>1, <2>1 DEF Wanted, Books
  <2>5. (c => ~ Wanted(Slash)') /\ (~ c => (Wanted(Slash)' <=> Wanted(Slash)))
    BY <1>0 DEF Wanted
  <2>6. Slash \notin ids  BY <1>1
  <2> DEFINE q == Requests("UNSUBSCRIBE", ids)
  <2> HIDE DEF c, ids
  <2>7. /\ q \in Seq(Messages) /\ Unique(q)
        /\ \A f, type : Asks(q, f, type) <=> f \in ids /\ type = "UNSUBSCRIBE"
    BY <2>3, AsksRequests DEF CallTypes
  <2>8. /\ last \in Seq(Messages) /\ Unique(last)
        /\ \A f, type : Asks(last, f, type) <=> c /\ f = Slash /\ type = "UNSUBSCRIBE"
    <3>1. last \in Seq(Messages)  BY <1>0, <1>1, IfTypes DEF Types, CallTypes
    <3>2. CASE c
      <4>1. last = <<About("UNSUBSCRIBE", Slash)>>  BY <3>2 DEF If
      <4> HIDE DEF last
      <4> QED BY <1>1, <3>1, <3>2, <4>1, AsksOne DEF CallTypes
    <3>3. CASE ~ c
      <4>1. last = <<>>  BY <3>3 DEF If
      <4> HIDE DEF last
      <4> QED BY <3>1, <3>3, <4>1, AsksEmpty
    <3> QED BY <3>2, <3>3
  <2> HIDE DEF q, last
  <2>9. /\ q \o last \in Seq(Messages) /\ Unique(q \o last)
        /\ \A f, type : Asks(q \o last, f, type) <=> Asks(q, f, type) \/ Asks(last, f, type)
    <3>1. \A f \in Filters \cup {None}, a \in CallTypes, t \in CallTypes :
             ~ (Asks(q, f, a) /\ Asks(last, f, t))
      BY <2>6, <2>7, <2>8
    <3>2. q \o last \in Seq(Messages)  BY <2>7, <2>8, ConcatElements
    <3> QED BY <2>7, <2>8, <3>1, <3>2, AsksConcat
  <2>10. /\ main' \in Mains /\ main'.todo = q \o last
         /\ main'.at = IF main'.todo = <<>> THEN back ELSE "call"
    BY <2>1, <2>9, CallEffect DEF Backs, q
  <2>11. ASSUME NEW f \in Filters
         PROVE  /\ Asks(main'.todo, f, "SUBSCRIBE") => ~ Wanted(f) /\ Wanted(f)'
                /\ Asks(main'.todo, f, "UNSUBSCRIBE") => ~ Wanted(f)'
                /\ ~ Asks(main'.todo, f, "SUBSCRIBE") /\ ~ Asks(main'.todo, f, "UNSUBSCRIBE")
                      => (Wanted(f)' <=> Wanted(f))
    <3>1. ~ Asks(main'.todo, f, "SUBSCRIBE")  BY <2>7, <2>8, <2>9, <2>10
    <3>2. Asks(main'.todo, f, "UNSUBSCRIBE") <=> f \in ids \/ (c /\ f = Slash)
      BY <2>7, <2>8, <2>9, <2>10
    <3>3. f \in Ids \/ f = Slash  BY DEF Filters
    <3> QED BY <1>0, <2>4, <2>5, <2>6, <3>1, <3>2, <3>3
  <2> QED BY <2>2, <2>9, <2>10, <2>11 DEF Filed
<1>3. CASE s # Portal
  <2>1. s \in Forwarders  BY <1>3
  <2>2. /\ Call(<<>> \o last, back)
        /\ forwarder_subscriptions_' = forwarder_subscriptions_
        /\ portal_subscriptions_' = portal_subscriptions_
        /\ forwarder_subscription_identifiers_' =
              [forwarder_subscription_identifiers_ EXCEPT ![s] = @ \ Ids]
    BY <1>3, <2>1, NothingErased DEF _unsubscribe_all, _forwarder_unsubscribe
  <2>3. <<>> \o last = last
    <3>1. last \in Seq(Messages)  BY <1>0, <1>1, IfTypes DEF Types, CallTypes
    <3> HIDE DEF last
    <3> QED BY <3>1, ConcatEmptySeq
  <2>4. Books'  BY <1>0, <2>2 DEF Books
  <2>5. \A f \in Filters \ {Slash} : Wanted(f)' <=> Wanted(f)  BY <2>2 DEF Wanted
  <2>6. (c => ~ Wanted(Slash)') /\ (~ c => (Wanted(Slash)' <=> Wanted(Slash)))
    BY <1>0 DEF Wanted
  <2> HIDE DEF c
  <2> QED BY <1>0, <1>1, <2>2, <2>3, <2>4, <2>5, <2>6, IfFiled DEF CallTypes
<1> QED BY <1>2, <1>3

\* set_hold_state() and the unsubscription that follows it.
LEMMA RespondFiled ==
    ASSUME main \in Mains, Books, hold_ \in BOOLEAN, NEW m \in Messages, Respond(m),
           UNCHANGED <<forwarder_subscriptions_, forwarder_subscription_identifiers_,
                       regex_subscriptions_>>
    PROVE  Filed("control")
<1> DEFINE off == hold_ /\ m.client = Self /\ ~ m.hold
           note == [Control("NOTIFY_HOLD_STATE") EXCEPT !.hold = m.hold]
           told == IF m.client = Self THEN <<note>> ELSE <<>>
           done == DoneWithManager(off)
           c == done /\ forwarder_subscriptions_[ManagerResponse] = None
           last == If(c, "UNSUBSCRIBE", ManagerResponse)
<1>1. /\ main' = [main EXCEPT !.items = TRUE,
                              !.todo = told \o last,
                              !.back = IF told \o last = <<>> THEN "poll" ELSE "control",
                              !.at = IF told \o last = <<>> THEN "control" ELSE "call"]
      /\ portal_subscriptions_' = [portal_subscriptions_ EXCEPT
                                     ![ManagerResponse] = IF done THEN 0 ELSE @]
  BY DEF Respond
<1>2. ManagerResponse \in Ids /\ ManagerResponse \in Filters /\ ManagerResponse # Slash
  BY PortalAssumption DEF Ids, Filters
<1>3. done \in BOOLEAN /\ c \in BOOLEAN  BY DEF DoneWithManager
<1>4. note \in Messages /\ note.type = "NOTIFY_HOLD_STATE"
  BY NotifyType DEF Messages
<1> HIDE DEF off, note, done
<1>5. Books'  BY <1>1, <1>2 DEF Books
<1>6. \A f \in Filters \ {ManagerResponse} : Wanted(f)' <=> Wanted(f)
  BY <1>1, <1>2 DEF Wanted, Books, Filters
<1>7. (c => ~ Wanted(ManagerResponse)') /\ (~ c => (Wanted(ManagerResponse)' <=> Wanted(ManagerResponse)))
  BY <1>1, <1>2, <1>3 DEF Wanted, Books
<1> HIDE DEF c
<1>8. /\ told \in Seq(Messages) /\ Unique(told)
      /\ \A f : \A type \in CallTypes : ~ Asks(told, f, type)
  <2>1. CASE m.client = Self
    <3>1. told = <<note>>  BY <2>1
    <3>2. <<note>> \in Seq(Messages) /\ Len(<<note>>) = 1 /\ <<note>>[1] = note  BY <1>4
    <3> QED BY <1>4, <3>1, <3>2 DEF Unique, Asks, CallTypes
  <2>2. CASE m.client # Self
    <3>1. told = <<>>  BY <2>2
    <3> HIDE DEF told
    <3> QED BY <3>1, AsksEmpty
  <2> QED BY <2>1, <2>2
<1>9. /\ last \in Seq(Messages) /\ Unique(last)
      /\ \A f, type : Asks(last, f, type) <=> c /\ f = ManagerResponse /\ type = "UNSUBSCRIBE"
  <2>1. last \in Seq(Messages)  BY <1>2, <1>3, IfTypes DEF Types, CallTypes
  <2>2. CASE c
    <3>1. last = <<About("UNSUBSCRIBE", ManagerResponse)>>  BY <2>2 DEF If
    <3> HIDE DEF last
    <3> QED BY <1>2, <2>1, <2>2, <3>1, AsksOne DEF CallTypes
  <2>3. CASE ~ c
    <3>1. last = <<>>  BY <2>3 DEF If
    <3> HIDE DEF last
    <3> QED BY <2>1, <2>3, <3>1, AsksEmpty
  <2> QED BY <2>2, <2>3
<1> DEFINE todo == told \o last
<1> HIDE DEF told, last
<1>10. /\ todo \in Seq(Messages) /\ Unique(todo)
       /\ \A f, type : Asks(todo, f, type) <=> Asks(told, f, type) \/ Asks(last, f, type)
  <2>1. todo \in Seq(Messages)  BY <1>8, <1>9, ConcatElements
  <2> QED BY <1>8, <1>9, <2>1, AsksConcat
<1>11. main' = [main EXCEPT !.items = TRUE, !.todo = todo,
                            !.back = IF todo = <<>> THEN "poll" ELSE "control",
                            !.at = IF todo = <<>> THEN "control" ELSE "call"]
  BY <1>1
<1> HIDE DEF todo
<1>12. /\ main' \in Mains /\ main'.todo = todo
       /\ main'.at = IF main'.todo = <<>> THEN "control" ELSE "call"
  BY <1>10, <1>11 DEF Mains, Places
<1>13. ASSUME NEW f \in Filters
       PROVE  /\ Asks(main'.todo, f, "SUBSCRIBE") => ~ Wanted(f) /\ Wanted(f)'
              /\ Asks(main'.todo, f, "UNSUBSCRIBE") => ~ Wanted(f)'
              /\ ~ Asks(main'.todo, f, "SUBSCRIBE") /\ ~ Asks(main'.todo, f, "UNSUBSCRIBE")
                    => (Wanted(f)' <=> Wanted(f))
  <2>1. ~ Asks(main'.todo, f, "SUBSCRIBE")  BY <1>8, <1>9, <1>10, <1>12 DEF CallTypes
  <2>2. Asks(main'.todo, f, "UNSUBSCRIBE") <=> c /\ f = ManagerResponse
    BY <1>8, <1>9, <1>10, <1>12 DEF CallTypes
  <2> QED BY <1>6, <1>7, <2>1, <2>2
<1> QED BY <1>5, <1>10, <1>12, <1>13 DEF Filed

-----------------------------------------------------------------------------
(* The calls of the read thread. *)

\* With no call under way the filters are those the books want.
LEMMA IdleFilters ==
    ASSUME ~ Calling, Settled, Asked
    PROVE  /\ \A f \in Filters : filters[f] = IF Wanted(f) THEN 1 ELSE 0
           /\ NoCall(toRead)
BY DEF Settled, Pending, Asked, Calling

\* The main thread begins to call.
LEMMA FiledRequested ==
    ASSUME Settled, Asked, ~ Calling, NEW back \in Backs, Filed(back),
           UNCHANGED <<toRead, filters>>
    PROVE  Books' /\ Called' /\ Asked' /\ Settled'
<1>1. /\ \A f \in Filters : filters'[f] = IF Wanted(f) THEN 1 ELSE 0
      /\ NoCall(toRead')
  BY IdleFilters
<1>2. /\ main'.at = IF main'.todo = <<>> THEN back ELSE "call"
      /\ Books' /\ Unique(main'.todo)
      /\ \A f \in Filters :
            /\ Asks(main'.todo, f, "SUBSCRIBE") => ~ Wanted(f) /\ Wanted(f)'
            /\ Asks(main'.todo, f, "UNSUBSCRIBE") => ~ Wanted(f)'
            /\ ~ Asks(main'.todo, f, "SUBSCRIBE") /\ ~ Asks(main'.todo, f, "UNSUBSCRIBE")
                  => (Wanted(f)' <=> Wanted(f))
  BY DEF Filed
<1>3. main'.at # "ack" /\ (Calling' <=> main'.todo # <<>>)  BY <1>2 DEF Calling, Backs
<1>4. Left' = main'.todo  BY <1>3 DEF Left
<1>5. \A f, type : Pending(f, type)' <=> Asks(main'.todo, f, type)
  <2> SUFFICES ASSUME NEW f, NEW type PROVE Pending(f, type)' <=> Asks(main'.todo, f, type)
    OBVIOUS
  <2>1. Pending(f, type)' <=> Calling' /\ Asks(main'.todo, f, type)  BY <1>4 DEF Pending
  <2>2. main'.todo = <<>> => ~ Asks(main'.todo, f, type)  BY AsksEmpty
  <2> QED BY <1>3, <2>1, <2>2
<1>6. Called'  BY <1>2, <1>3 DEF Called
<1>7. Asked'  BY <1>1, <1>3 DEF Asked
<1>8. ASSUME NEW f \in Filters
      PROVE  /\ Pending(f, "SUBSCRIBE")' => filters'[f] = 0 /\ Wanted(f)'
             /\ Pending(f, "UNSUBSCRIBE")' => filters'[f] \in {0, 1} /\ ~ Wanted(f)'
             /\ ~ Pending(f, "SUBSCRIBE")' /\ ~ Pending(f, "UNSUBSCRIBE")'
                   => filters'[f] = IF Wanted(f)' THEN 1 ELSE 0
  BY <1>1, <1>2, <1>5
<1> QED BY <1>2, <1>6, <1>7, <1>8 DEF Settled

\* The main thread does something else.
LEMMA QuietRequested ==
    ASSUME Books, Called, Asked, Settled, UNCHANGED <<filters, book>>,
           \/ main'.todo = main.todo /\ main'.at = main.at /\ toRead' = toRead
           \/ ~ Calling /\ main'.at \notin {"call", "ack"} /\ NoCall(toRead')
    PROVE  Books' /\ Called' /\ Asked' /\ Settled'
<1>1. Books'  BY DEF Books, book
<1>2. \A f : Wanted(f)' <=> Wanted(f)  BY DEF Wanted, book
<1>3. CASE main'.todo = main.todo /\ main'.at = main.at /\ toRead' = toRead
  <2>1. Called' /\ Asked'  BY <1>3 DEF Called, Asked, Calling
  <2>2. Left' = Left /\ (Calling' <=> Calling)  BY <1>3 DEF Left, Calling
  <2>3. \A f, type : Pending(f, type)' <=> Pending(f, type)  BY <2>2 DEF Pending
  <2>4. Settled'  BY <1>2, <2>3 DEF Settled
  <2> QED BY <1>1, <2>1, <2>4
<1>4. CASE ~ Calling /\ main'.at \notin {"call", "ack"} /\ NoCall(toRead')
  <2>1. ~ Calling'  BY <1>4 DEF Calling
  <2>2. Called' /\ Asked'  BY <1>4, <2>1 DEF Called, Asked
  <2>3. \A f, type : ~ Pending(f, type)'  BY <2>1 DEF Pending
  <2>4. \A f \in Filters : filters'[f] = IF Wanted(f)' THEN 1 ELSE 0
    BY <1>2, <1>4, IdleFilters
  <2>5. Settled'  BY <2>3, <2>4 DEF Settled
  <2> QED BY <1>1, <2>2, <2>5
<1> QED BY <1>3, <1>4

\* A step that neither sends a request nor an ack keeps the count of acks.
LEMMA QuietAnswered ==
    ASSUME Answered,
           \/ main'.at = main.at /\ UNCHANGED <<toRead, toMain>> /\ read'.blocked = read.blocked
           \/ /\ main.at # "ack"
              /\ NoAck(toMain) => NoAck(toMain')
              /\ NoAck(read.blocked) => NoAck(read'.blocked)
    PROVE  Answered'
BY DEF Answered

\* The read thread sends something that is not an ack.
LEMMA SendsAnswered ==
    ASSUME Answered, toMain \in Seq(Messages), read.blocked = <<>>, toRead' = toRead,
           NEW m \in Messages, m.type \notin AckTypes,
           main'.at = main.at \/ main.at # "ack",
           \/ toMain' = Append(toMain, m) /\ read'.blocked = <<>>
           \/ toMain' = toMain /\ read'.blocked = <<m>>
    PROVE  Answered'
<1>1. NoAck(<<>>) /\ ~ OneAck(<<>>)  BY DEF NoAck, OneAck
<1>2. NoAck(<<m>>)
  <2>1. Len(<<m>>) = 1 /\ <<m>>[1] = m  OBVIOUS
  <2> QED BY <2>1 DEF NoAck
<1>3. NoAck(read'.blocked)  BY <1>1, <1>2
<1>4. NoAck(toMain) => NoAck(toMain')  BY NoAckQueues
<1>5. OneAck(toMain) => OneAck(toMain')  BY OneAckQueues
<1>6. CASE NoAck(toMain)  BY <1>3, <1>4, <1>6 DEF Answered
<1>7. CASE ~ NoAck(toMain)
  <2>1. main.at = "ack" /\ NoCall(toRead) /\ OneAck(toMain)  BY <1>1, <1>7 DEF Answered
  <2> QED BY <1>3, <1>5, <2>1 DEF Answered
<1> QED BY <1>6, <1>7

\* send_control_msg() of the main thread.
LEMMA SendControlRequested ==
    ASSUME main \in Mains, toRead \in Seq(Messages), Books, Called, Asked, Answered, Settled,
           SendControl
    PROVE  /\ main' \in Mains /\ toRead' \in Seq(Messages) /\ main'.at \notin {"init", "gone"}
           /\ Books' /\ Called' /\ Asked' /\ Answered' /\ Settled'
<1> DEFINE todo == main.todo
           m == Head(todo)
<1>1. /\ main.at = "call" /\ toRead' = Append(toRead, m)
      /\ UNCHANGED <<read, toMain, filters, book>>
  BY DEF SendControl
<1>2. todo \in Seq(Messages) /\ todo # <<>> /\ Unique(todo)
  BY <1>1 DEF Called, Calling, Mains
<1>3. /\ m \in Messages /\ m = todo[1] /\ Tail(todo) \in Seq(Messages)
      /\ Len(todo) \in Nat \ {0}
  BY <1>2, TailElements
<1>4. toRead' \in Seq(Messages) /\ toRead'[Len(toRead')] = m /\ Len(toRead') = Len(toRead) + 1
      /\ Len(toRead) \in Nat /\ \A j \in 1..Len(toRead) : toRead'[j] = toRead[j]
  BY <1>1, <1>3, AppendElements
<1>5. NoCall(toRead) /\ NoAck(toMain) /\ NoAck(read.blocked)
  BY <1>1 DEF Asked, Answered
<1>6. Books'  BY <1>1 DEF Books, book
<1>7. \A f : Wanted(f)' <=> Wanted(f)  BY <1>1 DEF Wanted, book
<1>8. \A f, type : Pending(f, type) <=> Asks(todo, f, type)
  BY <1>1 DEF Pending, Left, Calling
<1>9. Answered'  BY <1>1, <1>5, QuietAnswered
<1>10. CASE m.type \in CallTypes
  <2>1. main' = [main EXCEPT !.at = "ack"]  BY <1>10 DEF SendControl, CallTypes
  <2>2. main' \in Mains /\ main'.at = "ack" /\ main'.todo = todo  BY <2>1 DEF Mains, Places
  <2> HIDE DEF todo, m
  <2>3. Called'  BY <1>2, <2>2 DEF Called
  <2>4. Asked'
    <3> SUFFICES ASSUME NEW j \in 1..Len(toRead'), toRead'[j].type \in CallTypes
                 PROVE  j = Len(toRead') /\ toRead'[j] = main'.todo[1]
      BY <2>2 DEF Asked
    <3>1. j \notin 1..Len(toRead)  BY <1>4, <1>5 DEF NoCall
    <3>2. j = Len(toRead')  BY <1>4, <3>1
    <3> QED BY <1>3, <1>4, <2>2, <3>2
  <2>5. ~ NoCall(toRead')
    <3>1. Len(toRead') \in 1..Len(toRead')  BY <1>4
    <3> QED BY <1>4, <1>10, <3>1 DEF NoCall
  <2>6. Left' = todo /\ Calling'  BY <2>2, <2>5 DEF Left, Calling
  <2>7. \A f, type : Pending(f, type)' <=> Pending(f, type)  BY <1>8, <2>6 DEF Pending
  <2>8. Settled'  BY <1>1, <1>7, <2>7 DEF Settled
  <2> QED BY <1>4, <1>6, <1>9, <2>2, <2>3, <2>4, <2>8
<1>11. CASE m.type \notin CallTypes
  <2>1. Call(Tail(todo), main.back)  BY <1>11 DEF SendControl, CallTypes
  <2>2. main.back \in {"poll", "control"}  BY DEF Mains
  <2>3. /\ main' \in Mains /\ main'.todo = Tail(todo)
        /\ main'.at = IF Tail(todo) = <<>> THEN main.back ELSE "call"
    BY <1>3, <2>1, <2>2, CallEffect
  <2> HIDE DEF todo, m
  <2>4. main'.at # "ack" /\ (Calling' <=> Tail(todo) # <<>>)  BY <2>2, <2>3 DEF Calling
  <2>5. Unique(Tail(todo))  BY <1>2, AsksTail
  <2>6. Called'  BY <2>3, <2>4, <2>5 DEF Called
  <2>7. Asked'  BY <1>1, <1>3, <1>5, <1>11, <2>4, NoCallQueues DEF Asked
  <2>8. Left' = Tail(todo)  BY <2>3, <2>4 DEF Left
  <2>9. \A f : \A type \in CallTypes : Pending(f, type)' <=> Pending(f, type)
    <3> SUFFICES ASSUME NEW f, NEW type \in CallTypes
                 PROVE  Pending(f, type)' <=> Pending(f, type)
      OBVIOUS
    <3>1. Asks(todo, f, type) <=> Asks(Tail(todo), f, type)
      BY <1>2, <1>11, AsksTail DEF m
    <3>2. Tail(todo) = <<>> => ~ Asks(Tail(todo), f, type)  BY AsksEmpty
    <3>3. Pending(f, type)' <=> Calling' /\ Asks(Tail(todo), f, type)  BY <2>8 DEF Pending
    <3> QED BY <1>8, <2>4, <3>1, <3>2, <3>3
  <2>10. Settled'  BY <1>1, <1>7, <2>9 DEF Settled, CallTypes
  <2>11. main'.at \notin {"init", "gone"}  BY <2>2, <2>3
  <2> QED BY <1>4, <1>6, <1>9, <2>3, <2>6, <2>7, <2>10, <2>11
<1> QED BY <1>10, <1>11

\* The main thread takes a message while it waits for an ack.
LEMMA RecvAckRequested ==
    ASSUME main \in Mains, toMain \in Seq(Messages), control_buffer_ \in Seq(Messages),
           Books, Called, Asked, Answered, Settled, RecvAck
    PROVE  /\ main' \in Mains /\ toMain' \in Seq(Messages) /\ Len(toMain') <= Len(toMain)
           /\ control_buffer_' \in Seq(Messages) /\ main'.at \notin {"init", "gone"}
           /\ Books' /\ Called' /\ Asked' /\ Answered' /\ Settled'
<1> DEFINE todo == main.todo
           m == Head(toMain)
<1>1. /\ main.at = "ack" /\ toMain # <<>> /\ toMain' = Tail(toMain)
      /\ UNCHANGED <<read, toRead, filters, book>>
  BY DEF RecvAck
<1>2. todo \in Seq(Messages) /\ todo # <<>> /\ Unique(todo)
  BY <1>1 DEF Called, Calling, Mains
<1>3. /\ m \in Messages /\ toMain' \in Seq(Messages) /\ Len(toMain') <= Len(toMain)
  BY <1>1, TailElements
<1>4. \/ NoAck(toMain') /\ NoAck(read'.blocked)
      \/ /\ NoCall(toRead') /\ m.type \notin AckTypes
         /\ \/ OneAck(toMain') /\ NoAck(read'.blocked)
            \/ NoAck(toMain') /\ OneAck(read'.blocked)
  <2>1. NoAck(toMain) => NoAck(toMain') /\ m.type \notin AckTypes  BY <1>1, NoAckQueues
  <2>2. OneAck(toMain) => IF m.type \in AckTypes THEN NoAck(toMain') ELSE OneAck(toMain')
    BY <1>1, OneAckQueues
  <2> QED BY <1>1, <2>1, <2>2 DEF Answered
<1>5. CASE Acks(m, Head(todo))
  <2>1. Call(Tail(todo), main.back) /\ control_buffer_' = control_buffer_
    BY <1>5 DEF RecvAck
  <2>2. main.back \in {"poll", "control"}  BY DEF Mains
  <2>3. Tail(todo) \in Seq(Messages)  BY <1>2, TailElements
  <2>4. /\ main' \in Mains /\ main'.todo = Tail(todo)
        /\ main'.at = IF Tail(todo) = <<>> THEN main.back ELSE "call"
    BY <2>1, <2>2, <2>3, CallEffect
  <2>5. m.type \in AckTypes  BY <1>5 DEF Acks, AckTypes
  <2>6. NoCall(toRead)
    <3>1. ~ NoAck(toMain)  BY <1>1, <2>5, NoAckQueues
    <3> QED BY <3>1 DEF Answered
  <2> HIDE DEF todo, m
  <2>7. main'.at # "ack" /\ (Calling' <=> Tail(todo) # <<>>)  BY <2>2, <2>4 DEF Calling
  <2>8. Called'
    <3>1. Unique(Tail(todo))  BY <1>2, AsksTail
    <3> QED BY <2>4, <2>7, <3>1 DEF Called
  <2>9. Asked'  BY <1>1, <2>6, <2>7 DEF Asked
  <2>10. Answered'  BY <1>4, <2>5 DEF Answered
  <2>11. Left = Tail(todo) /\ Left' = Tail(todo)  BY <1>1, <2>4, <2>6, <2>7 DEF Left, todo
  <2>12. \A f, type : Pending(f, type)' <=> Pending(f, type)
    <3> SUFFICES ASSUME NEW f, NEW type PROVE Pending(f, type)' <=> Pending(f, type)
      OBVIOUS
    <3>1. Tail(todo) = <<>> => ~ Asks(Tail(todo), f, type)  BY AsksEmpty
    <3>2. Pending(f, type)' <=> Calling' /\ Asks(Tail(todo), f, type)  BY <2>11 DEF Pending
    <3>3. Pending(f, type) <=> Asks(Tail(todo), f, type)  BY <1>1, <2>11 DEF Pending, Calling
    <3> QED BY <2>7, <3>1, <3>2, <3>3
  <2>13. Books' /\ \A f : Wanted(f)' <=> Wanted(f)  BY <1>1 DEF Books, Wanted, book
  <2>14. Settled'  BY <1>1, <2>12, <2>13 DEF Settled
  <2>15. main'.at \notin {"init", "gone"}  BY <2>2, <2>4
  <2> QED BY <1>3, <2>1, <2>4, <2>8, <2>9, <2>10, <2>13, <2>14, <2>15
<1>6. CASE ~ Acks(m, Head(todo))
  <2>1. control_buffer_' = Append(control_buffer_, m) /\ main' = main
    BY <1>6 DEF RecvAck, KeepForLater
  <2>2. control_buffer_' \in Seq(Messages)  BY <1>3, <2>1, AppendElements
  <2>3. Books' /\ Called' /\ Asked' /\ Settled'  BY <1>1, <2>1, QuietRequested
  <2>4. Answered'  BY <1>1, <1>4, <2>1 DEF Answered
  <2> QED BY <1>1, <1>3, <2>1, <2>2, <2>3, <2>4
<1> QED BY <1>5, <1>6

\* A command at the head of the read thread's queue is the last of a call.
LEMMA CommandIsLast ==
    ASSUME main \in Mains, toRead \in Seq(Messages), toRead # <<>>, Called, Asked, Answered,
           Head(toRead).type \in CallTypes
    PROVE  /\ main.at = "ack" /\ Tail(toRead) = <<>> /\ Head(toRead) = Head(main.todo)
           /\ main.todo \in Seq(Messages) /\ main.todo # <<>> /\ Unique(main.todo)
           /\ Left = main.todo /\ NoAck(toMain) /\ NoAck(read.blocked)
<1>1. Head(toRead) = toRead[1] /\ 1 \in 1..Len(toRead) /\ Len(Tail(toRead)) = Len(toRead) - 1
      /\ Tail(toRead) \in Seq(Messages)
  BY TailElements
<1>2. ~ NoCall(toRead)  BY <1>1 DEF NoCall
<1>3. main.at = "ack"  BY <1>2 DEF Asked
<1>4. Len(toRead) = 1 /\ toRead[1] = main.todo[1]  BY <1>1, <1>3 DEF Asked
<1>5. main.todo \in Seq(Messages) /\ main.todo # <<>> /\ Unique(main.todo)
  BY <1>3 DEF Called, Calling, Mains
<1>6. Head(main.todo) = main.todo[1]  BY <1>5, TailElements
<1>7. Tail(toRead) = <<>>
  <2>1. Len(Tail(toRead)) = 0  BY <1>1, <1>4
  <2> QED BY <1>1, <2>1, EmptySeq
<1>8. Left = main.todo  BY <1>2 DEF Left
<1>9. NoAck(toMain) /\ NoAck(read.blocked)  BY <1>2 DEF Answered
<1> QED BY <1>1, <1>3, <1>4, <1>5, <1>6, <1>7, <1>8, <1>9

\* The read thread has handled a subscribe or an unsubscribe.
LEMMA CommandRequested ==
    ASSUME main \in Mains, toRead \in Seq(Messages), toRead # <<>>, toMain \in Seq(Messages),
           Books, Called, Asked, Answered, Settled, filters \in [Filters -> Nat],
           Head(toRead).type \in CallTypes, toRead' = Tail(toRead), UNCHANGED book,
           main'.at = main.at, main'.todo = main.todo, read.blocked = <<>>,
           NEW ack \in Messages, ack.type \in AckTypes,
           \/ toMain' = Append(toMain, ack) /\ read'.blocked = <<>>
           \/ toMain' = toMain /\ read'.blocked = <<ack>>,
           filters' = [filters EXCEPT ![Head(toRead).id] =
                          IF Head(toRead).type = "SUBSCRIBE" THEN @ + 1
                          ELSE IF @ > 0 THEN @ - 1 ELSE 0]
    PROVE  Books' /\ Called' /\ Asked' /\ Answered' /\ Settled'
<1> DEFINE todo == main.todo
           m == Head(toRead)
<1>1. /\ main.at = "ack" /\ toRead' = <<>> /\ m = Head(todo)
      /\ todo \in Seq(Messages) /\ todo # <<>> /\ Unique(todo)
      /\ Left = todo /\ NoAck(toMain) /\ NoAck(read.blocked)
  BY CommandIsLast
<1>2. NoCall(toRead')
  <2>1. NoCall(<<>>)  BY DEF NoCall
  <2> QED BY ONLY <1>1, <2>1
<1>3. Left' = Tail(todo) /\ Calling /\ Calling'  BY <1>1, <1>2 DEF Left, Calling
<1>4. Called'  BY <1>1, <1>3 DEF Called
<1>5. Asked'  BY <1>1, <1>2 DEF Asked, NoCall
<1>6. Answered'
  <2>1. CASE toMain' = Append(toMain, ack) /\ read'.blocked = <<>>
    <3>1. OneAck(toMain')  BY <1>1, <2>1, NoAckQueues
    <3>2. NoAck(read'.blocked)  BY <2>1 DEF NoAck
    <3> QED BY <1>1, <1>2, <3>1, <3>2 DEF Answered
  <2>2. CASE toMain' = toMain /\ read'.blocked = <<ack>>
    <3>1. OneAck(<<ack>>)
      <4>1. Len(<<ack>>) = 1 /\ <<ack>>[1] = ack /\ 1 \in 1..Len(<<ack>>)  OBVIOUS
      <4>2. \A k \in 1..Len(<<ack>>) : k = 1  BY <4>1
      <4> QED BY <4>1, <4>2 DEF OneAck
    <3> QED BY <1>1, <1>2, <2>2, <3>1 DEF Answered
  <2> QED BY <2>1, <2>2
<1>7. Books' /\ \A f : Wanted(f)' <=> Wanted(f)  BY DEF Books, Wanted, book
<1>8. m.type \in CallTypes  OBVIOUS
<1>9. ASSUME NEW f \in Filters
      PROVE  /\ Pending(f, "SUBSCRIBE")' => filters'[f] = 0 /\ Wanted(f)'
             /\ Pending(f, "UNSUBSCRIBE")' => filters'[f] \in {0, 1} /\ ~ Wanted(f)'
             /\ ~ Pending(f, "SUBSCRIBE")' /\ ~ Pending(f, "UNSUBSCRIBE")'
                   => filters'[f] = IF Wanted(f)' THEN 1 ELSE 0
  <2> HIDE DEF todo, m
  <2>1. \A type \in CallTypes :
           /\ Pending(f, type) <=> (m.type = type /\ m.id = f) \/ Asks(Tail(todo), f, type)
           /\ Pending(f, type)' <=> Asks(Tail(todo), f, type)
    BY <1>1, <1>3, AsksTail DEF Pending
  <2>2. /\ Pending(f, "SUBSCRIBE") => filters[f] = 0 /\ Wanted(f)
        /\ Pending(f, "UNSUBSCRIBE") => filters[f] \in {0, 1} /\ ~ Wanted(f)
        /\ ~ Pending(f, "SUBSCRIBE") /\ ~ Pending(f, "UNSUBSCRIBE")
              => filters[f] = IF Wanted(f) THEN 1 ELSE 0
    BY DEF Settled
  <2>3. CASE m.id = f
    <3>1. filters'[f] = IF m.type = "SUBSCRIBE" THEN filters[f] + 1
                        ELSE IF filters[f] > 0 THEN filters[f] - 1 ELSE 0
      BY <2>3 DEF m
    <3>2. ~ Pending(f, "SUBSCRIBE")' /\ ~ Pending(f, "UNSUBSCRIBE")'
      BY <1>1, <1>8, <2>1, <2>3, AsksTail DEF CallTypes
    <3>3. CASE m.type = "SUBSCRIBE"
      <4>1. Pending(f, "SUBSCRIBE")  BY <2>1, <2>3, <3>3 DEF CallTypes
      <4>2. filters[f] = 0 /\ Wanted(f)  BY <2>2, <4>1
      <4> QED BY <1>7, <3>1, <3>2, <3>3, <4>2
    <3>4. CASE m.type = "UNSUBSCRIBE"
      <4>1. Pending(f, "UNSUBSCRIBE")  BY <2>1, <2>3, <3>4 DEF CallTypes
      <4>2. filters[f] \in {0, 1} /\ ~ Wanted(f)  BY <2>2, <4>1
      <4>3. filters'[f] = 0  BY <3>1, <3>4, <4>2
      <4> QED BY <1>7, <3>2, <4>2, <4>3
    <3> QED BY <1>8, <3>3, <3>4 DEF CallTypes
  <2>4. CASE m.id # f
    <3>1. filters'[f] = filters[f]  BY <2>4 DEF m
    <3>2. \A type \in CallTypes : Pending(f, type)' <=> Pending(f, type)  BY <2>1, <2>4
    <3> QED BY <1>7, <2>2, <3>1, <3>2 DEF CallTypes
  <2> QED BY <2>3, <2>4
<1> QED BY <1>4, <1>5, <1>6, <1>7, <1>9 DEF Settled

-----------------------------------------------------------------------------
(* Every step keeps the types and the requests. *)

Ordered == Typed /\ Requested

\* The main thread and the forwarders do something that is no call.
LEMMA ElsewhereOrdered ==
    ASSUME Ordered, UNCHANGED <<read, toMain, toRead, filters, book>>,
           Threads', Queues', Mailed', hold_' \in BOOLEAN, ready_' \in BOOLEAN,
           reported_clients_' \subseteq required_clients_,
           \/ main'.at = main.at /\ main'.todo = main.todo
           \/ main.at \notin {"init", "gone", "call", "ack"} /\ main'.at \notin {"call", "ack"}
    PROVE  Ordered'
<1> USE DEF Ordered, Typed, Requested
<1>1. Limits'  BY DEF Limits
<1>2. Fresh'  BY DEF Fresh
<1>3. Books' /\ Called' /\ Asked' /\ Settled'
  <2>1. main.at \notin {"call", "ack"} => ~ Calling /\ NoCall(toRead')  BY DEF Calling, Asked
  <2> QED BY <2>1, QuietRequested
<1>4. Answered'  BY QuietAnswered
<1> QED BY <1>1, <1>2, <1>3, <1>4

\* The main thread changes the books and begins to call.
LEMMA FiledOrdered ==
    ASSUME Ordered, ~ Calling, main.at # "init" \/ toMain # <<>>, main.at # "gone",
           NEW back \in Backs, Filed(back),
           UNCHANGED <<read, toRead, filters>>, seen' \in Histories,
           Queues', Mailed', hold_' \in BOOLEAN, ready_' \in BOOLEAN,
           reported_clients_' \subseteq required_clients_,
           toMain' = toMain \/ (toMain # <<>> /\ toMain' = Tail(toMain))
    PROVE  Ordered'
<1> USE DEF Ordered, Typed, Requested
<1>1. Threads'
  <2>1. main' \in Mains  BY DEF Filed
  <2> QED BY <2>1 DEF Threads
<1>2. Books' /\ Called' /\ Asked' /\ Settled'  BY FiledRequested
<1>3. Len(toMain') <= Hwm /\ (NoAck(toMain) => NoAck(toMain'))
  <2>1. Len(toMain) <= Hwm /\ toMain \in Seq(Messages) /\ Hwm \in Nat
    BY PortalAssumption DEF Limits, Queues
  <2>2. CASE toMain' = toMain  BY <2>1, <2>2
  <2>3. CASE toMain # <<>> /\ toMain' = Tail(toMain)
    BY <2>1, <2>3, TailElements, NoAckQueues
  <2> QED BY <2>2, <2>3
<1>4. Limits'  BY <1>3 DEF Limits
<1>5. Fresh'  BY DEF Fresh
<1>6. Answered'
  <2>1. main.at # "ack"  BY DEF Calling
  <2> QED BY <1>3, <2>1, QuietAnswered
<1> QED BY <1>1, <1>2, <1>4, <1>5, <1>6

\* The read thread sends something that is not an ack.
LEMMA SendsOrdered ==
    ASSUME Ordered, read.connected, read.blocked = <<>>,
           NEW m \in Messages, m.type \notin AckTypes, ReadSends(m),
           UNCHANGED <<toRead, control_buffer_, filters, book, hold_, ready_, outbox, mail,
                       reported_clients_, requests>>,
           seen' \in Histories, responses' \in Seq(Responses)
    PROVE  Ordered'
<1> USE DEF Ordered, Typed, Requested
<1>1. /\ main' \in Mains /\ read' \in Reads
      /\ toMain' \in Seq(Messages) /\ Len(toMain') <= Hwm /\ Len(read'.blocked) <= 1
      /\ main'.todo = main.todo
      /\ main'.at = main.at \/ (main.at = "waiting" /\ main'.at = "poll")
      /\ read'.connected = read.connected
      /\ \/ toMain' = Append(toMain, m) /\ read'.blocked = <<>>
         \/ toMain' = toMain /\ read'.blocked = <<m>>
  BY ReadSendsEffect DEF Threads, Queues, Limits
<1>2. Threads'  BY <1>1 DEF Threads
<1>3. Queues'  BY <1>1 DEF Queues, outbox
<1>4. Mailed'  BY DEF Mailed
<1>5. Limits'  BY <1>1 DEF Limits
<1>6. Fresh'  BY <1>1 DEF Fresh
<1>7. Books' /\ Called' /\ Asked' /\ Settled'
  <2>1. main.at \notin {"call", "ack"} => ~ Calling /\ NoCall(toRead')  BY DEF Calling, Asked
  <2> QED BY <1>1, <2>1, QuietRequested
<1>8. Answered'
  <2>1. main'.at = main.at \/ main.at # "ack"  BY <1>1
  <2> QED BY <1>1, <2>1, SendsAnswered DEF Queues
<1> QED BY <1>2, <1>3, <1>4, <1>5, <1>6, <1>7, <1>8

\* A blocked read thread that gets through keeps types and requests in
\* order.
LEMMA UnblockOrdered ==
    ASSUME Ordered, Unblock PROVE Ordered'
<1> USE DEF Ordered, Typed, Requested
<1> DEFINE m == Head(read.blocked)
<1>1. /\ read.blocked # <<>> /\ Len(toMain) < Hwm /\ toMain' = Append(toMain, m)
      /\ read' = [read EXCEPT !.blocked = <<>>]
      /\ main' = IF main.at = "waiting" THEN [main EXCEPT !.at = "poll"] ELSE main
      /\ UNCHANGED <<toRead, control_buffer_, filters, book, hold_, ready_, outbox, mail, gobyd, seen>>
  BY DEF Unblock
<1>2. /\ read.blocked \in Seq(Messages) /\ m \in Messages /\ Len(read.blocked) = 1
      /\ Tail(read.blocked) = <<>> /\ Hwm \in Nat
  <2>1. read.blocked \in Seq(Messages)  BY DEF Threads, Reads
  <2>2. Len(read.blocked) <= 1 /\ Hwm \in Nat  BY PortalAssumption DEF Limits
  <2>3. Len(read.blocked) = 1 /\ m \in Messages /\ Tail(read.blocked) \in Seq(Messages)
    <3> DEFINE b == read.blocked
    <3>1. b \in Seq(Messages) /\ b # <<>> /\ Len(b) <= 1  BY <1>1, <2>1, <2>2
    <3> HIDE DEF b
    <3>2. Len(b) \in Nat \ {0} /\ Head(b) \in Messages /\ Tail(b) \in Seq(Messages)
      BY <3>1, TailElements
    <3>3. Len(b) \in Nat /\ Len(b) # 0 /\ Len(b) <= 1  BY <3>1, <3>2
    <3>4. Len(b) = 1
      <4>1. \A k \in Nat : k # 0 /\ k <= 1 => k = 1  OBVIOUS
      <4> QED BY ONLY <3>3, <4>1, Zenon
    <3> QED BY ONLY <3>2, <3>4 DEF b, m
  <2>4. Len(Tail(read.blocked)) = 0  BY <1>1, <2>1, <2>3, TailElements
  <2> QED BY <2>1, <2>2, <2>3, <2>4, EmptySeq
<1>3. /\ main' \in Mains /\ main'.todo = main.todo
      /\ main'.at = main.at \/ (main.at = "waiting" /\ main'.at = "poll")
  BY <1>1 DEF Threads, Mains, Places
<1>4. read' \in Reads /\ read'.blocked = <<>> /\ read'.connected = read.connected
  <2>1. <<>> \in Seq(Messages)  OBVIOUS
  <2> QED BY <1>1, <2>1 DEF Threads, Reads
<1>5. toMain' \in Seq(Messages) /\ Len(toMain') <= Hwm
  BY <1>1, <1>2, AppendElements DEF Queues
<1>6. Threads'  BY <1>1, <1>3, <1>4 DEF Threads
<1>7. Queues'  BY <1>1, <1>5 DEF Queues, outbox, gobyd
<1>8. Mailed'  BY <1>1 DEF Mailed
<1>9. Limits'
  <2>1. Len(<<>>) = 0  OBVIOUS
  <2> QED BY <1>1, <1>4, <1>5, <2>1 DEF Limits, gobyd
<1>10. Fresh'  BY <1>1, <1>4 DEF Fresh
<1>11. Books' /\ Called' /\ Asked' /\ Settled'
  <2>1. main.at \notin {"call", "ack"} => ~ Calling /\ NoCall(toRead')
    BY <1>1 DEF Calling, Asked
  <2> QED BY <1>1, <1>3, <2>1, QuietRequested
<1>12. Answered'
  <2>1. NoAck(<<>>)  BY DEF NoAck
  <2>2. NoAck(read.blocked) => m.type \notin AckTypes  BY <1>1, <1>2, NoAckQueues
  <2>3. OneAck(read.blocked) => m.type \in AckTypes
    <3>1. ~ OneAck(<<>>)  BY DEF OneAck
    <3> QED BY <1>1, <1>2, <3>1, OneAckQueues
  <2>4. toMain \in Seq(Messages)  BY DEF Queues
  <2> HIDE DEF m
  <2>5. /\ NoAck(toMain) => IF m.type \in AckTypes THEN OneAck(toMain') ELSE NoAck(toMain')
        /\ OneAck(toMain) /\ m.type \notin AckTypes => OneAck(toMain')
    BY <1>1, <1>2, <2>4, NoAckQueues, OneAckQueues
  <2>6. main.at = "ack" => main'.at = "ack"  BY <1>3
  <2> QED BY <1>1, <1>4, <2>1, <2>2, <2>3, <2>5, <2>6 DEF Answered
<1> QED BY <1>6, <1>7, <1>8, <1>9, <1>10, <1>11, <1>12

\* The read thread, one step of its loop.
LEMMA ReadOrdered ==
    ASSUME Ordered, ReadThread PROVE Ordered'
<1> USE DEF Ordered, Typed, Requested
<1>1. CASE Unblock  BY <1>1, UnblockOrdered
<1>2. CASE manager_data
  <2> DEFINE m == Control("PUB_CONFIGURATION")
  <2>1. /\ ~ read.connected /\ read.alive /\ read' = [read EXCEPT !.connected = TRUE]
        /\ toMain' = Append(toMain, m)
        /\ UNCHANGED <<main, toRead, control_buffer_, filters, book, hold_, ready_, outbox,
                       mail, gobyd, seen>>
    BY <1>2 DEF manager_data, Reading
  <2>2. m \in Messages /\ m.type \notin AckTypes  BY MessageTypes DEF Types, AckTypes
  <2>3. read' \in Reads /\ read'.blocked = read.blocked /\ read'.connected
    BY <2>1 DEF Threads, Reads
  <2>4. toMain = <<>> /\ main.at \notin {"call", "ack"}  BY <2>1 DEF Fresh
  <2> HIDE DEF m
  <2>5. toMain' = <<m>> /\ toMain' \in Seq(Messages) /\ Len(toMain') = 1 /\ toMain'[1] = m
    BY <2>1, <2>2, <2>4
  <2>6. Threads'  BY <2>1, <2>3 DEF Threads
  <2>7. Queues'  BY <2>1, <2>5 DEF Queues, outbox, gobyd
  <2>8. Mailed'  BY <2>1 DEF Mailed
  <2>9. Limits'
    <3>1. 1 <= Hwm  BY PortalAssumption
    <3> QED BY <2>1, <2>3, <2>5, <3>1 DEF Limits, gobyd
  <2>10. Fresh'  BY <2>3 DEF Fresh
  <2>11. Books' /\ Called' /\ Asked' /\ Settled'  BY <2>1, QuietRequested
  <2>12. Answered'
    <3>1. NoAck(toMain')  BY <2>2, <2>5 DEF NoAck
    <3> QED BY <2>3, <2>4, <3>1, QuietAnswered
  <2> QED BY <2>6, <2>7, <2>8, <2>9, <2>10, <2>11, <2>12
<1>3. CASE NoResponse
  <2>1. /\ ~ read.connected /\ read' = [read EXCEPT !.alive = FALSE]
        /\ main' = [main EXCEPT !.at = "gone"]
        /\ UNCHANGED <<control, filters, book, hold_, ready_, outbox, mail, gobyd, seen>>
    BY <1>3 DEF NoResponse
  <2>2. read' \in Reads /\ read'.blocked = read.blocked /\ read'.connected = read.connected
    BY <2>1 DEF Threads, Reads
  <2>3. main' \in Mains /\ main'.at = "gone"  BY <2>1 DEF Threads, Mains, Places
  <2>4. main.at \notin {"call", "ack"}  BY <2>1 DEF Fresh
  <2>5. Threads'  BY <2>1, <2>2, <2>3 DEF Threads
  <2>6. Queues'  BY <2>1 DEF Queues, outbox, gobyd, control
  <2>7. Mailed'  BY <2>1 DEF Mailed
  <2>8. Limits'  BY <2>1, <2>2 DEF Limits, gobyd, control
  <2>9. Fresh'  BY <2>1, <2>2, <2>3 DEF Fresh, control
  <2>10. Books' /\ Called' /\ Asked' /\ Settled'
    <3>1. ~ Calling /\ NoCall(toRead')  BY <2>1, <2>4 DEF Calling, Asked, control
    <3> QED BY <2>1, <2>3, <3>1, QuietRequested
  <2>11. Answered'  BY <2>1, <2>2, <2>4, QuietAnswered DEF control
  <2> QED BY <2>5, <2>6, <2>7, <2>8, <2>9, <2>10, <2>11
<1>4. CASE subscribe_data
  <2>1. /\ read.blocked = <<>>
        /\ UNCHANGED <<toRead, control_buffer_, filters, book, hold_, ready_, outbox, mail,
                       reported_clients_, requests>>
    BY <1>4 DEF subscribe_data, Reading
  <2>2. \A i \in Ids : Matches(i) => read.connected
    <3> SUFFICES ASSUME NEW i \in Ids, Matches(i), ~ read.connected PROVE FALSE
      BY DEF Threads, Reads
    <3>1. i \in Filters /\ Slash \in Filters  BY DEF Filters
    <3> QED BY <3>1 DEF Matches, Fresh
  <2>3. ASSUME NEW i \in Groups, Matches(i), seen' = [seen EXCEPT !.data = @ + 1],
               ReadSends([About("RECEIVE", i) EXCEPT !.n = seen.data + 1]), UNCHANGED responses
        PROVE  Ordered'
    <3> DEFINE m == [About("RECEIVE", i) EXCEPT !.n = seen.data + 1]
    <3>1. seen' \in Histories /\ seen.data + 1 \in Nat  BY <2>3, HistoryTypes DEF Threads
    <3>2. m \in Messages /\ m.type \notin AckTypes  BY <3>1, ReceiveTypes DEF AckTypes
    <3>3. responses' \in Seq(Responses)  BY <2>3 DEF Queues
    <3>4. read.connected  BY <2>2, <2>3 DEF Ids
    <3>5. ReadSends(m)  BY <2>3
    <3> HIDE DEF m
    <3> QED BY <2>1, <3>1, <3>2, <3>3, <3>4, <3>5, SendsOrdered
  <2>4. ASSUME responses # <<>>, responses' = Tail(responses), UNCHANGED seen,
               IF Matches(ManagerResponse)
               THEN ReadSends([About("RECEIVE", ManagerResponse) EXCEPT
                                  !.client = Head(responses).client, !.hold = Head(responses).hold])
               ELSE UNCHANGED <<main, read, toMain>>
        PROVE  Ordered'
    <3> DEFINE r == Head(responses)
               m == [About("RECEIVE", ManagerResponse) EXCEPT !.client = r.client, !.hold = r.hold]
    <3>1. responses' \in Seq(Responses) /\ r \in Responses
      BY <2>4, TailElements DEF Queues
    <3>2. seen' \in Histories  BY <2>4 DEF Threads
    <3>3. CASE Matches(ManagerResponse)
      <4>1. r.client \in Clients /\ r.hold \in BOOLEAN  BY <3>1 DEF Responses
      <4>2. m \in Messages /\ m.type \notin AckTypes  BY <4>1, ReceiveTypes DEF AckTypes
      <4>3. read.connected  BY <2>2, <3>3 DEF Ids
      <4>4. ReadSends(m)  BY <2>4, <3>3
      <4> HIDE DEF m
      <4> QED BY <2>1, <3>1, <3>2, <4>2, <4>3, <4>4, SendsOrdered
    <3>4. CASE ~ Matches(ManagerResponse)
      <4>1. UNCHANGED <<main, read, toMain>>  BY <2>4, <3>4
      <4>2. Threads'  BY <2>4, <4>1 DEF Threads
      <4>3. Queues'  BY <2>1, <3>1, <4>1 DEF Queues, outbox
      <4>4. Mailed'  BY <2>1 DEF Mailed
      <4>5. UNCHANGED <<read, toMain, toRead, filters, book>>  BY <2>1, <4>1
      <4>6. /\ hold_' \in BOOLEAN /\ ready_' \in BOOLEAN
            /\ reported_clients_' \subseteq required_clients_
        BY <2>1 DEF Limits
      <4> QED BY <4>1, <4>2, <4>3, <4>4, <4>5, <4>6, ElsewhereOrdered
    <3> QED BY <3>3, <3>4
  <2> QED BY <1>4, <2>3, <2>4 DEF subscribe_data
<1>5. CASE RequestHoldState
  <2> DEFINE m == Control("REQUEST_HOLD_STATE")
  <2>1. m \in Messages /\ m.type \notin AckTypes  BY MessageTypes DEF Types, AckTypes
  <2>2. /\ read.blocked = <<>> /\ read.connected /\ ReadSends(m)
        /\ UNCHANGED <<toRead, control_buffer_, filters, book, hold_, ready_, outbox, mail,
                       gobyd, seen>>
    BY <1>5 DEF RequestHoldState, Reading
  <2> HIDE DEF m
  <2>3. seen' \in Histories /\ responses' \in Seq(Responses)
    BY <2>2 DEF Threads, Queues, gobyd
  <2> QED BY <2>1, <2>2, <2>3, SendsOrdered DEF gobyd
<1>6. CASE control_data
  <2> DEFINE m == Head(toRead)
  <2>1. /\ read.blocked = <<>> /\ toRead # <<>> /\ toRead' = Tail(toRead)
        /\ UNCHANGED <<control_buffer_, book, hold_, ready_, outbox, mail, gobyd, seen>>
    BY <1>6 DEF control_data, Reading
  <2>2. /\ toRead \in Seq(Messages) /\ m \in Messages /\ toRead' \in Seq(Messages)
    BY <2>1, TailElements DEF Queues
  <2>3. read.connected  BY <2>1 DEF Fresh, Threads, Reads
  <2>4. main \in Mains /\ read \in Reads /\ toMain \in Seq(Messages) /\ Len(toMain) <= Hwm
        /\ filters \in [Filters -> Nat]
    BY DEF Threads, Queues, Limits
  <2>5. Mailed'  BY <2>1 DEF Mailed
  <2>6. ASSUME NEW ack \in Messages, ack.type \in AckTypes, ReadSends(ack), m.type \in CallTypes,
               filters' = [filters EXCEPT ![m.id] =
                              IF m.type = "SUBSCRIBE" THEN @ + 1 ELSE IF @ > 0 THEN @ - 1 ELSE 0]
        PROVE  Ordered'
    <3>1. /\ main' \in Mains /\ read' \in Reads
          /\ toMain' \in Seq(Messages) /\ Len(toMain') <= Hwm /\ Len(read'.blocked) <= 1
          /\ main'.todo = main.todo
          /\ main'.at = main.at \/ (main.at = "waiting" /\ main'.at = "poll")
          /\ read'.connected = read.connected
          /\ \/ toMain' = Append(toMain, ack) /\ read'.blocked = <<>>
             \/ toMain' = toMain /\ read'.blocked = <<ack>>
      BY <2>1, <2>4, <2>6, ReadSendsEffect
    <3>2. main.at = "ack"  BY <2>1, <2>2, <2>4, <2>6, CommandIsLast
    <3>3. main'.at = main.at  BY <3>1, <3>2
    <3>4. filters' \in [Filters -> Nat]
      <4>1. \A f \in Filters : (IF m.type = "SUBSCRIBE" THEN filters[f] + 1
                               ELSE IF filters[f] > 0 THEN filters[f] - 1 ELSE 0) \in Nat
        BY ONLY <2>4
      <4> HIDE DEF m
      <4> QED BY ONLY <2>4, <2>6, <4>1
    <3>5. Threads'  BY <2>1, <3>1 DEF Threads
    <3>6. Queues'  BY <2>1, <2>2, <3>1 DEF Queues, outbox, gobyd
    <3>7. Limits'  BY <2>1, <3>1, <3>4 DEF Limits, gobyd
    <3>8. Fresh'  BY <2>3, <3>1 DEF Fresh
    <3>9. Books' /\ Called' /\ Asked' /\ Answered' /\ Settled'
      BY <2>1, <2>2, <2>4, <2>6, <3>1, <3>3, CommandRequested
    <3> QED BY <2>5, <3>5, <3>6, <3>7, <3>8, <3>9
  <2>7. ASSUME m.type \notin CallTypes, read' \in Reads, read'.blocked = read.blocked,
               read'.connected = read.connected, UNCHANGED <<main, toMain, filters>>
        PROVE  Ordered'
    <3>1. Threads'  BY <2>1, <2>7 DEF Threads
    <3>2. Queues'  BY <2>1, <2>2, <2>7 DEF Queues, outbox, gobyd
    <3>3. Limits'  BY <2>1, <2>7 DEF Limits, gobyd
    <3>4. Fresh'  BY <2>3, <2>7 DEF Fresh
    <3>5. /\ Len(toRead) \in Nat \ {0} /\ Len(toRead') = Len(toRead) - 1
          /\ \A j \in 1..Len(toRead') : toRead'[j] = toRead[j + 1]
      BY <2>1, <2>2, TailElements
    <3>6. NoCall(toRead) <=> NoCall(toRead')
      <4>1. NoCall(toRead) => NoCall(toRead')  BY <2>1, <2>2, NoCallQueues
      <4>2. ASSUME NoCall(toRead') PROVE NoCall(toRead)
        <5> SUFFICES ASSUME NEW j \in 1..Len(toRead) PROVE toRead[j].type \notin CallTypes
          BY DEF NoCall
        <5>1. CASE j = 1  BY <2>1, <2>2, <2>7, <5>1, TailElements
        <5>2. CASE j # 1
          <6>1. j - 1 \in 1..Len(toRead') /\ (j - 1) + 1 = j
            <7>1. Len(toRead) \in Nat \ {0} /\ Len(toRead') = Len(toRead) - 1  BY <3>5
            <7> QED BY <5>2, <7>1
          <6>2. toRead'[j - 1] = toRead[j]  BY ONLY <3>5, <6>1
          <6> QED BY <4>2, <6>1, <6>2 DEF NoCall
        <5> QED BY <5>1, <5>2
      <4> QED BY <4>1, <4>2
    <3>7. Asked'
      <4>1. CASE main.at = "ack"
        <5> SUFFICES ASSUME NEW j \in 1..Len(toRead'), toRead'[j].type \in CallTypes
                     PROVE  j = Len(toRead') /\ toRead'[j] = main'.todo[1]
          BY <2>7, <4>1 DEF Asked
        <5>1. j + 1 \in 1..Len(toRead) /\ toRead[j + 1] = toRead'[j]  BY <3>5
        <5>2. j + 1 = Len(toRead) /\ toRead[j + 1] = main.todo[1]  BY <4>1, <5>1 DEF Asked
        <5> QED BY <2>7, <3>5, <5>1, <5>2
      <4>2. CASE main.at # "ack"  BY <2>7, <3>6, <4>2 DEF Asked
      <4> QED BY <4>1, <4>2
    <3>8. Called' /\ Left' = Left /\ (Calling' <=> Calling)
      BY <2>7, <3>6 DEF Called, Calling, Left
    <3>9. \A f, type : Pending(f, type)' <=> Pending(f, type)  BY <3>8 DEF Pending
    <3>10. Books' /\ \A f : Wanted(f)' <=> Wanted(f)  BY <2>1 DEF Books, Wanted, book
    <3>11. Settled'  BY <2>7, <3>9, <3>10 DEF Settled
    <3>12. Answered'  BY <2>7, <3>6 DEF Answered
    <3> QED BY <2>5, <3>1, <3>2, <3>3, <3>4, <3>7, <3>8, <3>10, <3>11, <3>12
  <2>8. CASE /\ m.type = "SUBSCRIBE"
             /\ filters' = [filters EXCEPT ![m.id] = @ + 1]
             /\ ReadSends(Control("SUBSCRIBE_ACK"))
    <3>1. Control("SUBSCRIBE_ACK") \in Messages /\ Control("SUBSCRIBE_ACK").type \in AckTypes
      BY MessageTypes DEF Types, AckTypes
    <3> HIDE DEF m
    <3> QED BY <2>6, <2>8, <3>1 DEF CallTypes
  <2>9. CASE /\ m.type = "UNSUBSCRIBE"
             /\ filters' = [filters EXCEPT ![m.id] = IF @ > 0 THEN @ - 1 ELSE 0]
             /\ ReadSends(Control("UNSUBSCRIBE_ACK"))
    <3>1. Control("UNSUBSCRIBE_ACK") \in Messages /\ Control("UNSUBSCRIBE_ACK").type \in AckTypes
      BY MessageTypes DEF Types, AckTypes
    <3> HIDE DEF m
    <3> QED BY <2>6, <2>9, <3>1 DEF CallTypes
  <2>10. CASE /\ m.type = "NOTIFY_HOLD_STATE"
              /\ read' = [read EXCEPT !.hold = m.hold]
              /\ UNCHANGED <<main, toMain, filters>>
    <3>1. m.hold \in BOOLEAN  BY <2>2 DEF Messages
    <3> HIDE DEF m
    <3>2. read' \in Reads /\ read'.blocked = read.blocked /\ read'.connected = read.connected
      BY <2>4, <2>10, <3>1 DEF Reads
    <3> QED BY <2>7, <2>10, <3>2 DEF CallTypes
  <2>11. CASE /\ m.type = "SHUTDOWN"
              /\ read' = [read EXCEPT !.alive = FALSE]
              /\ UNCHANGED <<main, toMain, filters>>
    <3> HIDE DEF m
    <3>1. read' \in Reads /\ read'.blocked = read.blocked /\ read'.connected = read.connected
      BY <2>4, <2>11 DEF Reads
    <3> QED BY <2>7, <2>11, <3>1 DEF CallTypes
  <2> QED BY <1>6, <2>8, <2>9, <2>10, <2>11 DEF control_data
<1> QED BY <1>1, <1>2, <1>3, <1>4, <1>5, <1>6 DEF ReadThread, ReadContinues

\* So does a step of the Manager.
LEMMA ManagerOrdered ==
    ASSUME Ordered, Manager PROVE Ordered'
<1> USE DEF Ordered, Typed, Requested
<1>0. /\ requests \in Seq(BOOLEAN) /\ responses \in Seq(Responses)
      /\ reported_clients_ \subseteq required_clients_
      /\ hold_ \in BOOLEAN /\ ready_ \in BOOLEAN
  BY DEF Queues, Limits
<1>1. ASSUME UNCHANGED <<main, read, control, filters, book, hold_, ready_, outbox, mail, seen>>,
             requests' \in Seq(BOOLEAN), responses' \in Seq(Responses),
             reported_clients_' \subseteq required_clients_
      PROVE  Ordered'
  <2>1. Threads'  BY <1>1 DEF Threads
  <2>2. Queues'  BY <1>1 DEF Queues, control, outbox
  <2>3. Mailed'  BY <1>1 DEF Mailed
  <2>4. UNCHANGED <<read, toMain, toRead, filters, book>>  BY <1>1 DEF control
  <2> QED BY <1>0, <1>1, <2>1, <2>2, <2>3, <2>4, ElsewhereOrdered
<1>2. ASSUME NEW c \in Clients, NEW ready_c \in BOOLEAN, Report(c, ready_c)
      PROVE  /\ responses' \in Seq(Responses)
             /\ reported_clients_' \subseteq required_clients_
  <2> DEFINE r == [client |-> c, hold |-> hold_state(reported_clients_')]
  <2>1. r \in Responses  BY DEF Responses, hold_state
  <2>2. responses' = Append(responses, r)  BY <1>2 DEF Report
  <2>3. reported_clients_' \subseteq required_clients_  BY <1>0, <1>2 DEF Report
  <2> HIDE DEF r
  <2> QED BY <1>0, <2>1, <2>2, <2>3, AppendElements
<1>3. CASE handle_request
  <2>1. /\ requests # <<>> /\ requests' = Tail(requests) /\ Report(Self, Head(requests))
        /\ UNCHANGED <<main, read, control, filters, book, hold_, ready_, outbox, mail, seen>>
    BY <1>3 DEF handle_request
  <2>2. requests' \in Seq(BOOLEAN) /\ Head(requests) \in BOOLEAN  BY <1>0, <2>1, TailElements
  <2> QED BY <1>1, <1>2, <2>1, <2>2 DEF Clients
<1>4. CASE LoseRequest
  <2>1. /\ requests # <<>> /\ requests' = Tail(requests)
        /\ UNCHANGED <<main, read, control, filters, book, hold_, ready_, outbox, mail, seen,
                       reported_clients_, responses>>
    BY <1>4 DEF LoseRequest
  <2>2. requests' \in Seq(BOOLEAN)  BY <1>0, <2>1, TailElements
  <2> QED BY <1>0, <1>1, <2>1, <2>2
<1>5. ASSUME NEW c \in required_clients_, OtherRequest(c) PROVE Ordered'
  <2>1. /\ Report(c, TRUE)
        /\ UNCHANGED <<main, read, control, filters, book, hold_, ready_, outbox, mail, seen,
                       requests>>
    BY <1>5 DEF OtherRequest
  <2> QED BY <1>0, <1>1, <1>2, <2>1 DEF Clients
<1> QED BY <1>3, <1>4, <1>5 DEF Manager

\* publish() queues or sends a number.
LEMMA PublishTypes ==
    ASSUME publish_queue_ \in Seq(Nat), sent \in Seq(Nat), NEW k \in Nat, publish(k)
    PROVE  publish_queue_' \in Seq(Nat) /\ sent' \in Seq(Nat)
<1>1. Append(publish_queue_, k) \in Seq(Nat) /\ Append(sent, k) \in Seq(Nat)  BY AppendElements
<1> QED BY <1>1 DEF publish

\* What the main thread and the forwarders post to the portal.
LEMMA ForwarderOrdered ==
    ASSUME Ordered, NEW s \in Forwarders, Forwarder(s) PROVE Ordered'
<1> USE DEF Ordered, Typed, Requested
<1>0. hold_ \in BOOLEAN /\ ready_ \in BOOLEAN /\ reported_clients_ \subseteq required_clients_
  BY DEF Limits
<1>1. ASSUME NEW kind \in Kinds, NEW d \in Data, ToPortal(kind, d), seen' \in Histories,
             kind = "subscription" => d.id \in Groups
      PROVE  Ordered'
  <2>1. /\ main.at \notin {"limbo", "joining", "gone"}
        /\ mail' = [mail EXCEPT ![kind] = Append(@, d)]
        /\ main' = IF main.at = "waiting" THEN [main EXCEPT !.at = "poll"] ELSE main
        /\ UNCHANGED <<read, control, filters, book, hold_, ready_, outbox, gobyd>>
    BY <1>1 DEF ToPortal
  <2>2. /\ main' \in Mains /\ main'.todo = main.todo
        /\ main'.at = main.at \/ (main.at = "waiting" /\ main'.at = "poll")
    BY <2>1 DEF Threads, Mains, Places
  <2>3. Threads'  BY <1>1, <2>1, <2>2 DEF Threads
  <2>4. Queues'  BY <2>1 DEF Queues, control, outbox, gobyd
  <2>5. Mailed'
    <3>1. mail \in [Kinds -> Seq(Data)] /\ mail[kind] \in Seq(Data)  BY DEF Mailed
    <3>2. Append(mail[kind], d) \in Seq(Data)  BY <3>1, AppendElements
    <3>3. mail' \in [Kinds -> Seq(Data)]  BY <2>1, <3>1, <3>2
    <3>4. \A j \in 1..Len(mail'["subscription"]) : mail'["subscription"][j].id \in Groups
      <4>1. CASE kind # "subscription"
        <5>1. mail'["subscription"] = mail["subscription"]  BY <2>1, <3>1, <4>1 DEF Kinds
        <5> QED BY <5>1 DEF Mailed
      <4>2. CASE kind = "subscription"
        <5> DEFINE q == mail["subscription"]
        <5>1. mail'["subscription"] = Append(q, d) /\ q \in Seq(Data) /\ d.id \in Groups
          BY <1>1, <2>1, <3>1, <4>2 DEF Kinds
        <5>2. \A j \in 1..Len(q) : q[j].id \in Groups  BY DEF Mailed
        <5> HIDE DEF q
        <5>3. ASSUME NEW j \in 1..Len(Append(q, d)) PROVE Append(q, d)[j].id \in Groups
          BY <5>1, <5>2, AppendElements
        <5> QED BY <5>1, <5>3
      <4> QED BY <4>1, <4>2
    <3> QED BY <3>3, <3>4 DEF Mailed
  <2>6. UNCHANGED <<read, toMain, toRead, filters, book>>  BY <2>1 DEF control
  <2>7. \/ main'.at = main.at /\ main'.todo = main.todo
        \/ main.at \notin {"init", "gone", "call", "ack"} /\ main'.at \notin {"call", "ack"}
    BY <2>2
  <2> QED BY <1>0, <2>1, <2>3, <2>4, <2>5, <2>6, <2>7, ElsewhereOrdered DEF gobyd
<1>2. CASE ForwarderCalls(s)
  <2>1. seen' = [seen EXCEPT !.forwarded = @ + 1]  BY <1>2 DEF ForwarderCalls
  <2>2. seen' \in Histories  BY <2>1, HistoryTypes DEF Threads
  <2>3. ASSUME NEW i \in Groups, NEW action \in {"SUBSCRIBE", "UNSUBSCRIBE"},
               ToPortal("subscription", Datum(s, action, i))
        PROVE  Ordered'
    <3>1. Datum(s, action, i) \in Data /\ Datum(s, action, i).id \in Groups
      BY DEF Datum, Data, Filters, Ids
    <3> QED BY <1>1, <2>2, <2>3, <3>1 DEF Kinds
  <2>4. CASE ToPortal("regex", Datum(s, "SUBSCRIBE", Slash))
    <3>1. Datum(s, "SUBSCRIBE", Slash) \in Data  BY DEF Datum, Data, Filters
    <3> QED BY <1>1, <2>2, <2>4, <3>1 DEF Kinds
  <2>5. CASE ToPortal("publication", Datum(s, "PUBLISH", None))
    <3>1. Datum(s, "PUBLISH", None) \in Data  BY DEF Datum, Data
    <3> QED BY <1>1, <2>2, <2>5, <3>1 DEF Kinds
  <2> QED BY <1>2, <2>3, <2>4, <2>5 DEF ForwarderCalls
<1>3. CASE ForwarderLeaves(s)
  <2>1. ToPortal("all", Datum(s, "ALL", None)) /\ seen' = seen  BY <1>3 DEF ForwarderLeaves
  <2>2. Datum(s, "ALL", None) \in Data  BY DEF Datum, Data
  <2>3. seen' \in Histories  BY <2>1 DEF Threads
  <2> QED BY <1>1, <2>1, <2>2, <2>3 DEF Kinds
<1>4. CASE ForwarderGone(s)
  <2>1. UNCHANGED <<main, read, control, filters, book, hold_, ready_, outbox, mail, gobyd, seen>>
    BY <1>4 DEF ForwarderGone
  <2>2. Threads' /\ Mailed'  BY <2>1 DEF Threads, Mailed
  <2>3. Queues'  BY <2>1 DEF Queues, control, outbox, gobyd
  <2>4. UNCHANGED <<read, toMain, toRead, filters, book>>  BY <2>1 DEF control
  <2> QED BY <1>0, <2>1, <2>2, <2>3, <2>4, ElsewhereOrdered DEF gobyd
<1> QED BY <1>2, <1>3, <1>4 DEF Forwarder

\* What the application does between polls and in callbacks.
LEMMA ApplicationOrdered ==
    ASSUME Ordered, Application PROVE Ordered'
<1> USE DEF Ordered, Typed, Requested
<1>0. /\ main \in Mains /\ seen \in Histories /\ toRead \in Seq(Messages)
      /\ publish_queue_ \in Seq(Nat) /\ sent \in Seq(Nat)
      /\ hold_ \in BOOLEAN /\ ready_ \in BOOLEAN /\ reported_clients_ \subseteq required_clients_
  BY DEF Threads, Queues, Limits
<1>1. AtWork => main.at \in Backs /\ ~ Calling /\ main.at \notin {"init", "gone", "call", "ack"}
  BY DEF AtWork, Backs, Calling
<1>2. ASSUME AtWork, NEW back \in Backs, Filed(back), seen' \in Histories,
             UNCHANGED <<read, control, filters, hold_, ready_, outbox, mail, gobyd>>
      PROVE  Ordered'
  <2>1. Queues' /\ Mailed'  BY <1>2 DEF Queues, Mailed, control, outbox, gobyd
  <2>2. UNCHANGED <<read, toMain, toRead, filters>>  BY <1>2 DEF control
  <2>3. ~ Calling /\ main.at # "init" /\ main.at # "gone"  BY <1>1, <1>2
  <2>4. hold_' = hold_ /\ ready_' = ready_ /\ reported_clients_' = reported_clients_
    BY <1>2 DEF gobyd
  <2> QED BY <1>0, <1>2, <2>1, <2>2, <2>3, <2>4, FiledOrdered
<1>3. ASSUME NEW i \in Groups, Subscribe(i) PROVE Ordered'
  <2>1. /\ AtWork /\ seen' = [seen EXCEPT !.calls = @ + 1] /\ _subscribe(i, main.at)
        /\ UNCHANGED <<read, control, filters, hold_, ready_, outbox, mail, gobyd>>
    BY <1>3 DEF Subscribe, Working, Counted
  <2>2. Filed(main.at)  BY <1>0, <1>1, <2>1, SubscribeFiled DEF Ids
  <2>3. seen' \in Histories  BY <1>0, <2>1, HistoryTypes
  <2> QED BY <1>1, <1>2, <2>1, <2>2, <2>3
<1>4. ASSUME NEW i \in Groups, Unsubscribe(i) PROVE Ordered'
  <2>1. /\ AtWork /\ seen' = [seen EXCEPT !.calls = @ + 1] /\ _unsubscribe(i, main.at)
        /\ UNCHANGED <<read, control, filters, hold_, ready_, outbox, mail, gobyd>>
    BY <1>4 DEF Unsubscribe, Working, Counted
  <2>2. Filed(main.at)  BY <1>0, <1>1, <2>1, UnsubscribeFiled DEF Ids
  <2>3. seen' \in Histories  BY <1>0, <2>1, HistoryTypes
  <2> QED BY <1>1, <1>2, <2>1, <2>2, <2>3
<1>5. CASE SubscribeRegex
  <2>1. /\ AtWork /\ seen' = [seen EXCEPT !.calls = @ + 1] /\ _subscribe_regex(Portal, main.at)
        /\ UNCHANGED <<read, control, filters, hold_, ready_, outbox, mail, gobyd>>
    BY <1>5 DEF SubscribeRegex, Working, Counted
  <2>2. Filed(main.at)  BY <1>0, <1>1, <2>1, SubscribeRegexFiled
  <2>3. seen' \in Histories  BY <1>0, <2>1, HistoryTypes
  <2> QED BY <1>1, <1>2, <2>1, <2>2, <2>3
<1>6. CASE UnsubscribeAll
  <2>1. /\ AtWork /\ seen' = [seen EXCEPT !.calls = @ + 1, !.cut = @ \/ hold_]
        /\ _unsubscribe_all(Portal, main.at)
        /\ UNCHANGED <<read, control, filters, hold_, ready_, outbox, mail, gobyd>>
    BY <1>6 DEF UnsubscribeAll, Working
  <2>2. Filed(main.at)  BY <1>0, <1>1, <2>1, UnsubscribeAllFiled
  <2>3. seen' \in Histories
    <3> DEFINE h == [seen EXCEPT !.calls = @ + 1]
    <3>1. h \in Histories  BY <1>0, HistoryTypes
    <3>2. h.cut \in BOOLEAN /\ (h.cut \/ hold_) \in BOOLEAN  BY <3>1 DEF Histories
    <3>3. seen' = [h EXCEPT !.cut = @ \/ hold_]  BY <2>1
    <3> HIDE DEF h
    <3>4. [h EXCEPT !.cut = @ \/ hold_] \in Histories  BY ONLY <3>1, <3>2 DEF Histories
    <3> QED BY ONLY <3>3, <3>4
  <2> QED BY <1>1, <1>2, <2>1, <2>2, <2>3
<1>7. CASE Publish
  <2>1. /\ AtWork /\ seen' = [seen EXCEPT !.published = @ + 1] /\ publish(seen.published + 1)
        /\ UNCHANGED <<main, read, control, filters, book, hold_, ready_, mail, gobyd>>
    BY <1>7 DEF Publish
  <2>2. seen' \in Histories /\ seen.published + 1 \in Nat  BY <1>0, <2>1, HistoryTypes
  <2>3. publish_queue_' \in Seq(Nat) /\ sent' \in Seq(Nat)  BY <1>0, <2>1, <2>2, PublishTypes
  <2>4. Threads' /\ Mailed'  BY <2>1, <2>2 DEF Threads, Mailed
  <2>5. Queues'  BY <2>1, <2>3 DEF Queues, control, gobyd
  <2>6. UNCHANGED <<read, toMain, toRead, filters, book>>  BY <2>1 DEF control
  <2> QED BY <1>0, <2>1, <2>4, <2>5, <2>6, ElsewhereOrdered DEF gobyd
<1>8. CASE ready
  <2>1. /\ ready_' = TRUE
        /\ UNCHANGED <<main, read, control, filters, book, hold_, outbox, mail, gobyd, seen>>
    BY <1>8 DEF ready
  <2>2. Threads' /\ Mailed'  BY <2>1 DEF Threads, Mailed
  <2>3. Queues'  BY <2>1 DEF Queues, control, outbox, gobyd
  <2>4. UNCHANGED <<read, toMain, toRead, filters, book>>  BY <2>1 DEF control
  <2> QED BY <1>0, <2>1, <2>2, <2>3, <2>4, ElsewhereOrdered DEF gobyd
<1>9. CASE Shutdown
  <2> DEFINE m == Control("SHUTDOWN")
  <2>1. /\ main.at = "poll" /\ toRead' = Append(toRead, m)
        /\ main' = [main EXCEPT !.at = "joining"]
        /\ UNCHANGED <<read, toMain, control_buffer_, filters, book, hold_, ready_, outbox,
                       mail, gobyd, seen>>
    BY <1>9 DEF Shutdown
  <2>2. m \in Messages /\ m.type \notin CallTypes  BY MessageTypes DEF Types, CallTypes
  <2> HIDE DEF m
  <2>3. main' \in Mains /\ main'.at = "joining"  BY <1>0, <2>1 DEF Mains, Places
  <2>4. toRead' \in Seq(Messages)  BY <1>0, <2>1, <2>2, AppendElements
  <2>5. ~ Calling /\ NoCall(toRead)  BY <2>1 DEF Calling, Asked
  <2>6. NoCall(toRead')  BY <1>0, <2>1, <2>2, <2>5, NoCallQueues
  <2>7. Threads' /\ Mailed'  BY <2>1, <2>3 DEF Threads, Mailed
  <2>8. Queues'  BY <2>1, <2>4 DEF Queues, outbox, gobyd
  <2>9. Limits'  BY <2>1 DEF Limits, gobyd
  <2>10. Fresh'  BY <2>1 DEF Fresh
  <2>11. Books' /\ Called' /\ Asked' /\ Settled'  BY <2>1, <2>3, <2>5, <2>6, QuietRequested
  <2>12. Answered'  BY <2>1, QuietAnswered
  <2> QED BY <2>7, <2>8, <2>9, <2>10, <2>11, <2>12
<1> QED BY <1>3, <1>4, <1>5, <1>6, <1>7, <1>8, <1>9 DEF Application

\* One control message.
LEMMA HandleControlOrdered ==
    ASSUME Ordered, HandleControl PROVE Ordered'
<1> USE DEF Ordered, Typed, Requested
<1> DEFINE m == Head(control_buffer_)
<1>0. /\ main \in Mains /\ seen \in Histories /\ control_buffer_ \in Seq(Messages)
      /\ publish_queue_ \in Seq(Nat) /\ sent \in Seq(Nat) /\ requests \in Seq(BOOLEAN)
      /\ hold_ \in BOOLEAN /\ ready_ \in BOOLEAN /\ reported_clients_ \subseteq required_clients_
  BY DEF Threads, Queues, Limits
<1>1. /\ main.at = "control" /\ control_buffer_ # <<>> /\ control_buffer_' = Tail(control_buffer_)
      /\ UNCHANGED <<read, toMain, toRead, filters, forwarder_subscriptions_,
                     forwarder_subscription_identifiers_, regex_subscriptions_, ready_, mail,
                     reported_clients_, responses>>
  BY DEF HandleControl
<1>2. m \in Messages /\ control_buffer_' \in Seq(Messages)  BY <1>0, <1>1, TailElements
<1>3. Mailed'  BY <1>1 DEF Mailed
<1>4. CASE /\ m.type = "REQUEST_HOLD_STATE"
           /\ requests' = Append(requests, ready_)
           /\ UNCHANGED <<main, hold_, outbox, portal_subscriptions_, seen>>
  <2>1. requests' \in Seq(BOOLEAN)  BY <1>0, <1>4, AppendElements
  <2>2. Threads'  BY <1>1, <1>4 DEF Threads
  <2>3. Queues'  BY <1>1, <1>2, <1>4, <2>1 DEF Queues, outbox
  <2>4. UNCHANGED <<read, toMain, toRead, filters, book>>  BY <1>1, <1>4 DEF book
  <2> QED BY <1>0, <1>1, <1>3, <1>4, <2>2, <2>3, <2>4, ElsewhereOrdered
<1>5. CASE /\ m.type = "RECEIVE"
           /\ IF m.id = ManagerResponse /\ portal_subscriptions_[m.id] > 0 THEN Respond(m)
              ELSE /\ main' = [main EXCEPT !.items = TRUE]
                   /\ UNCHANGED <<hold_, outbox, portal_subscriptions_>>
           /\ seen' = [seen EXCEPT
                 !.handled = IF m.n > 0 THEN Append(@, m.n) ELSE @,
                 !.dead = @ \cup {s \in Posted(m.id, regex_subscriptions_) \ {None} :
                                    forwarder[s] = "gone"}]
           /\ UNCHANGED requests
  <2>1. m.id \in Ids /\ m.n \in Nat  BY <1>2, <1>5 DEF Messages
  <2> DEFINE late == {s \in Posted(m.id, regex_subscriptions_) \ {None} : forwarder[s] = "gone"}
             numbers == IF m.n > 0 THEN Append(seen.handled, m.n) ELSE seen.handled
  <2>2. late \subseteq Forwarders
    <3>1. forwarder_subscriptions_[m.id] \in Forwarders \cup {None}  BY <2>1 DEF Books
    <3>2. regex_subscriptions_ \cap Forwarders # {} =>
             (CHOOSE s \in regex_subscriptions_ \cap Forwarders : TRUE) \in Forwarders
      OBVIOUS
    <3> QED BY <3>1, <3>2 DEF Posted
  <2>3. numbers \in Seq(Nat)
    <3>1. seen.handled \in Seq(Nat)  BY <1>0 DEF Histories
    <3>2. Append(seen.handled, m.n) \in Seq(Nat)  BY <2>1, <3>1, AppendElements
    <3> QED BY <3>1, <3>2
  <2>4. seen' = [seen EXCEPT !.handled = numbers, !.dead = @ \cup late]  BY <1>5
  <2> HIDE DEF late, numbers
  <2>5. seen' \in Histories
    <3>1. seen.dead \cup late \in SUBSET Forwarders  BY <1>0, <2>2 DEF Histories
    <3>2. [seen EXCEPT !.handled = numbers, !.dead = seen.dead \cup late] \in Histories
      BY ONLY <1>0, <2>3, <3>1 DEF Histories
    <3> QED BY ONLY <2>4, <3>2
  <2>6. CASE m.id = ManagerResponse /\ portal_subscriptions_[m.id] > 0
    <3>1. Respond(m)  BY <1>5, <2>6
    <3> DEFINE off == hold_ /\ m.client = Self /\ ~ m.hold
    <3>2. /\ hold_' = (hold_ /\ ~ off)
          /\ sent' = IF off THEN sent \o publish_queue_ ELSE sent
          /\ publish_queue_' = IF off THEN <<>> ELSE publish_queue_
      BY <3>1 DEF Respond, QueueAfter
    <3>3. hold_' \in BOOLEAN  BY <1>0, <3>2
    <3>4. sent' \in Seq(Nat) /\ publish_queue_' \in Seq(Nat)
      <4>1. sent \o publish_queue_ \in Seq(Nat)  BY <1>0, ConcatElements
      <4>2. <<>> \in Seq(Nat)  OBVIOUS
      <4> HIDE DEF off
      <4> QED BY <1>0, <3>2, <4>1, <4>2
    <3> HIDE DEF off, m
    <3>5. Filed("control")  BY <1>0, <1>1, <1>2, <3>1, RespondFiled
    <3>6. Queues'  BY <1>1, <1>2, <1>5, <3>4 DEF Queues
    <3>7. ~ Calling /\ main.at # "init" /\ main.at # "gone"  BY <1>1 DEF Calling
    <3>8. UNCHANGED <<read, toRead, filters>> /\ toMain' = toMain  BY <1>1
    <3>9. ready_' = ready_ /\ reported_clients_' = reported_clients_  BY <1>1
    <3> QED BY <1>0, <1>3, <2>5, <3>3, <3>5, <3>6, <3>7, <3>8, <3>9, FiledOrdered DEF Backs
  <2>7. CASE ~ (m.id = ManagerResponse /\ portal_subscriptions_[m.id] > 0)
    <3>1. main' = [main EXCEPT !.items = TRUE] /\ UNCHANGED <<hold_, outbox, portal_subscriptions_>>
      BY <1>5, <2>7
    <3> HIDE DEF m
    <3>2. main' \in Mains /\ main'.at = main.at /\ main'.todo = main.todo
      BY <1>0, <3>1 DEF Mains
    <3>3. Threads'  BY <1>1, <2>5, <3>2 DEF Threads
    <3>4. Queues'  BY <1>1, <1>2, <1>5, <3>1 DEF Queues, outbox
    <3>5. UNCHANGED <<read, toMain, toRead, filters, book>>  BY <1>1, <3>1 DEF book
    <3> QED BY <1>0, <1>1, <1>3, <3>1, <3>2, <3>3, <3>4, <3>5, ElsewhereOrdered
  <2> QED BY <2>6, <2>7
<1> QED BY <1>4, <1>5 DEF HandleControl

\* A forwarder's message.
LEMMA TakeMailOrdered ==
    ASSUME Ordered, NEW kind \in Kinds, TakeMail(kind) PROVE Ordered'
<1> USE DEF Ordered, Typed, Requested
<1> DEFINE d == Head(mail[kind])
<1>0. /\ main \in Mains /\ seen \in Histories
      /\ publish_queue_ \in Seq(Nat) /\ sent \in Seq(Nat)
      /\ hold_ \in BOOLEAN /\ ready_ \in BOOLEAN /\ reported_clients_ \subseteq required_clients_
  BY DEF Threads, Queues, Limits
<1>1. /\ main.at = "poll" /\ mail[kind] # <<>> /\ mail' = [mail EXCEPT ![kind] = Tail(@)]
      /\ UNCHANGED <<read, control, filters, hold_, ready_, gobyd>>
  BY DEF TakeMail
<1>2. mail \in [Kinds -> Seq(Data)] /\ mail[kind] \in Seq(Data)  BY DEF Mailed
<1>3. d \in Data /\ d.from \in Forwarders /\ Tail(mail[kind]) \in Seq(Data)
  <2>1. d \in Data /\ Tail(mail[kind]) \in Seq(Data)  BY <1>1, <1>2, TailElements
  <2> HIDE DEF d
  <2> QED BY <2>1 DEF Data
<1>4. kind = "subscription" => d.id \in Ids
  <2> SUFFICES ASSUME kind = "subscription" PROVE d.id \in Groups
    BY DEF Ids
  <2> DEFINE q == mail["subscription"]
  <2>1. q \in Seq(Data) /\ q # <<>> /\ d = Head(q) /\ \A j \in 1..Len(q) : q[j].id \in Groups
    BY <1>1, <1>2 DEF Mailed
  <2> HIDE DEF q, d
  <2> QED BY <2>1, TailElements
<1>5. Mailed'
  <2>1. mail' \in [Kinds -> Seq(Data)]  BY <1>1, <1>2, <1>3
  <2>2. CASE kind # "subscription"
    <3>1. mail'["subscription"] = mail["subscription"]  BY <1>1, <1>2, <2>2 DEF Kinds
    <3> QED BY <2>1, <3>1 DEF Mailed
  <2>3. CASE kind = "subscription"
    <3> DEFINE q == mail["subscription"]
    <3>1. mail'["subscription"] = Tail(q) /\ q \in Seq(Data) /\ q # <<>>
      BY <1>1, <1>2, <2>3 DEF Kinds
    <3>2. \A j \in 1..Len(q) : q[j].id \in Groups  BY DEF Mailed
    <3> HIDE DEF q
    <3>3. \A j \in 1..Len(Tail(q)) : Tail(q)[j].id \in Groups  BY <3>1, <3>2, TailElements
    <3> QED BY <2>1, <3>1, <3>3 DEF Mailed
  <2> QED BY <2>2, <2>3
<1>6. UNCHANGED <<read, toMain, toRead, filters>>  BY <1>1 DEF control
<1>7. hold_' = hold_ /\ ready_' = ready_ /\ reported_clients_' = reported_clients_
  BY <1>1 DEF gobyd
<1>8. ASSUME Filed("poll"), UNCHANGED <<outbox, seen>> PROVE Ordered'
  <2>1. Queues'  BY <1>1, <1>8 DEF Queues, control, outbox, gobyd
  <2>2. ~ Calling /\ main.at # "init" /\ main.at # "gone"  BY <1>1 DEF Calling
  <2>3. seen' \in Histories  BY <1>0, <1>8
  <2> QED BY <1>0, <1>5, <1>6, <1>7, <1>8, <2>1, <2>2, <2>3, FiledOrdered DEF Backs
<1>9. CASE /\ kind = "publication" /\ publish(seen.published + 1)
           /\ seen' = [seen EXCEPT !.published = @ + 1] /\ UNCHANGED <<main, book>>
  <2>1. seen' \in Histories /\ seen.published + 1 \in Nat  BY <1>0, <1>9, HistoryTypes
  <2>2. publish_queue_' \in Seq(Nat) /\ sent' \in Seq(Nat)  BY <1>0, <1>9, <2>1, PublishTypes
  <2>3. Threads'  BY <1>6, <1>9, <2>1 DEF Threads
  <2>4. Queues'  BY <1>1, <2>2 DEF Queues, control, gobyd
  <2> QED BY <1>0, <1>5, <1>6, <1>7, <1>9, <2>3, <2>4, ElsewhereOrdered
<1>10. CASE /\ kind = "subscription"
            /\ IF d.action = "SUBSCRIBE" THEN ForwardedSubscribe(d.from, d.id, "poll")
               ELSE ForwardedUnsubscribe(d.from, d.id, "poll")
            /\ UNCHANGED <<outbox, seen>>
  <2>1. CASE d.action = "SUBSCRIBE"
    <3>1. ForwardedSubscribe(d.from, d.id, "poll")  BY <1>10, <2>1
    <3> HIDE DEF d
    <3> QED BY <1>0, <1>3, <1>4, <1>8, <1>10, <3>1, ForwardedSubscribeFiled DEF Backs
  <2>2. CASE d.action # "SUBSCRIBE"
    <3>1. ForwardedUnsubscribe(d.from, d.id, "poll")  BY <1>10, <2>2
    <3> HIDE DEF d
    <3> QED BY <1>0, <1>3, <1>4, <1>8, <1>10, <3>1, ForwardedUnsubscribeFiled DEF Backs
  <2> QED BY <2>1, <2>2
<1>11. CASE /\ kind = "regex" /\ _subscribe_regex(d.from, "poll") /\ UNCHANGED <<outbox, seen>>
  <2> HIDE DEF d
  <2> QED BY <1>0, <1>3, <1>8, <1>11, SubscribeRegexFiled DEF Backs
<1>12. CASE /\ kind = "all" /\ _unsubscribe_all(d.from, "poll") /\ UNCHANGED <<outbox, seen>>
  <2> HIDE DEF d
  <2> QED BY <1>0, <1>3, <1>8, <1>12, UnsubscribeAllFiled DEF Backs
<1> QED BY <1>9, <1>10, <1>11, <1>12 DEF TakeMail

\* The main thread, without the application.
LEMMA MainOrdered ==
    ASSUME Ordered, MainContinues PROVE Ordered'
<1> USE DEF Ordered, Typed, Requested
<1>0. /\ main \in Mains /\ seen \in Histories
      /\ toMain \in Seq(Messages) /\ toRead \in Seq(Messages) /\ control_buffer_ \in Seq(Messages)
      /\ Len(toMain) <= Hwm /\ Hwm \in Nat
      /\ hold_ \in BOOLEAN /\ ready_ \in BOOLEAN /\ reported_clients_ \subseteq required_clients_
  BY PortalAssumption DEF Threads, Queues, Limits
<1>1. CASE SendControl
  <2>1. /\ main.at = "call"
        /\ UNCHANGED <<read, toMain, control_buffer_, filters, hold_, ready_, outbox, mail, gobyd, seen>>
    BY <1>1 DEF SendControl
  <2>2. /\ main' \in Mains /\ toRead' \in Seq(Messages)
        /\ Books' /\ Called' /\ Asked' /\ Answered' /\ Settled'
    BY <1>0, <1>1, SendControlRequested
  <2>3. Threads' /\ Mailed'  BY <2>1, <2>2 DEF Threads, Mailed
  <2>4. Queues'  BY <2>1, <2>2 DEF Queues, outbox, gobyd
  <2>5. Limits'  BY <2>1 DEF Limits, gobyd
  <2>6. Fresh'  BY <2>1 DEF Fresh
  <2> QED BY <2>2, <2>3, <2>4, <2>5, <2>6
<1>2. CASE RecvAck
  <2>1. /\ main.at = "ack"
        /\ UNCHANGED <<read, toRead, filters, hold_, ready_, outbox, mail, gobyd, seen>>
    BY <1>2 DEF RecvAck
  <2>2. /\ main' \in Mains /\ toMain' \in Seq(Messages) /\ Len(toMain') <= Len(toMain)
        /\ control_buffer_' \in Seq(Messages)
        /\ Books' /\ Called' /\ Asked' /\ Answered' /\ Settled'
    BY <1>0, <1>2, RecvAckRequested
  <2>3. Threads' /\ Mailed'  BY <2>1, <2>2 DEF Threads, Mailed
  <2>4. Queues'  BY <2>1, <2>2 DEF Queues, outbox, gobyd
  <2>5. Len(toMain') <= Hwm
    <3>1. Len(toMain) \in Nat /\ Len(toMain') \in Nat  BY <1>0, <2>2, LenProperties
    <3> QED BY <1>0, <2>2, <3>1
  <2>6. Limits'  BY <2>1, <2>5 DEF Limits, gobyd
  <2>7. Fresh'  BY <2>1 DEF Fresh
  <2> QED BY <2>2, <2>3, <2>4, <2>6, <2>7
<1>3. CASE set_publish_cfg
  <2>1. /\ main.at = "init" /\ toMain # <<>> /\ toMain' = Tail(toMain)
        /\ UNCHANGED <<read, toRead, control_buffer_, filters, hold_, ready_, outbox, mail, gobyd, seen>>
    BY <1>3 DEF set_publish_cfg
  <2>2. toMain' \in Seq(Messages) /\ Len(toMain') = Len(toMain) - 1 /\ Len(toMain) \in Nat
    BY <1>0, <2>1, TailElements
  <2>3. Queues'  BY <2>1, <2>2 DEF Queues, outbox, gobyd
  <2>4. Mailed'  BY <2>1 DEF Mailed
  <2>5. ~ Calling  BY <2>1 DEF Calling
  <2>6. hold_' = hold_ /\ ready_' = ready_ /\ reported_clients_' = reported_clients_ /\ seen' = seen
    BY <2>1 DEF gobyd
  <2>7. CASE Head(toMain).type = "PUB_CONFIGURATION"
    <3>1. _subscribe(ManagerResponse, "poll")  BY <1>3, <2>7 DEF set_publish_cfg
    <3>2. Filed("poll")  BY <1>0, <3>1, SubscribeFiled DEF Backs, Ids
    <3>3. UNCHANGED <<read, toRead, filters>> /\ main.at # "gone"  BY <2>1
    <3> QED BY <1>0, <2>1, <2>3, <2>4, <2>5, <2>6, <3>2, <3>3, FiledOrdered DEF Backs
  <2>8. CASE Head(toMain).type # "PUB_CONFIGURATION"
    <3>1. main' = main /\ UNCHANGED book  BY <1>3, <2>8 DEF set_publish_cfg
    <3>2. Threads'  BY <2>1, <3>1 DEF Threads
    <3>3. Limits'
      <4>1. Len(toMain') <= Hwm  BY <1>0, <2>2
      <4> QED BY <2>1, <4>1 DEF Limits, gobyd
    <3>4. Fresh'  BY <2>1 DEF Fresh
    <3>5. Books' /\ Called' /\ Asked' /\ Settled'  BY <2>1, <3>1, QuietRequested
    <3>6. Answered'
      <4>1. NoAck(toMain) => NoAck(toMain')  BY <1>0, <2>1, NoAckQueues
      <4> QED BY <2>1, <4>1, QuietAnswered
    <3> QED BY <2>3, <2>4, <3>2, <3>3, <3>4, <3>5, <3>6
  <2> QED BY <2>7, <2>8
<1>4. CASE PollControl
  <2>1. /\ main.at = "poll" /\ control_buffer_' = control_buffer_ \o toMain /\ toMain' = <<>>
        /\ main' = [main EXCEPT !.at = "control", !.items = FALSE]
        /\ UNCHANGED <<read, toRead, filters, book, hold_, ready_, outbox, mail, gobyd, seen>>
    BY <1>4 DEF PollControl
  <2>2. main' \in Mains /\ main'.at = "control"  BY <1>0, <2>1 DEF Mains, Places
  <2>3. control_buffer_' \in Seq(Messages)  BY <1>0, <2>1, ConcatElements
  <2>4. <<>> \in Seq(Messages) /\ Len(<<>>) = 0 /\ NoAck(<<>>)  BY DEF NoAck
  <2>5. Threads' /\ Mailed'  BY <2>1, <2>2 DEF Threads, Mailed
  <2>6. Queues'  BY <2>1, <2>3, <2>4 DEF Queues, outbox, gobyd
  <2>7. Limits'
    <3>1. Len(toMain') <= Hwm  BY <1>0, <2>1, <2>4
    <3> QED BY <2>1, <3>1 DEF Limits, gobyd
  <2>8. Fresh'  BY <2>1 DEF Fresh
  <2>9. Books' /\ Called' /\ Asked' /\ Settled'
    <3>1. ~ Calling /\ NoCall(toRead')  BY <2>1 DEF Calling, Asked
    <3> QED BY <2>1, <2>2, <3>1, QuietRequested
  <2>10. Answered'  BY <2>1, <2>4, QuietAnswered
  <2> QED BY <2>5, <2>6, <2>7, <2>8, <2>9, <2>10
<1>5. ASSUME main.at \notin {"init", "gone", "call", "ack"}, main' \in Mains,
             main'.at \notin {"call", "ack"},
             UNCHANGED <<read, control, filters, book, hold_, ready_, outbox, mail, gobyd, seen>>
      PROVE  Ordered'
  <2>1. Threads' /\ Mailed'  BY <1>5 DEF Threads, Mailed
  <2>2. Queues'  BY <1>5 DEF Queues, control, outbox, gobyd
  <2>3. UNCHANGED <<read, toMain, toRead, filters, book>>  BY <1>5 DEF control
  <2>4. hold_' = hold_ /\ ready_' = ready_ /\ reported_clients_' = reported_clients_
    BY <1>5 DEF gobyd
  <2> QED BY <1>0, <1>5, <2>1, <2>2, <2>3, <2>4, ElsewhereOrdered
<1>6. CASE EndPoll
  <2>1. main' \in Mains /\ main'.at \in {"poll", "limbo"} /\ main.at = "control"
    BY <1>0, <1>6 DEF EndPoll, Mains, Places
  <2> QED BY <1>5, <1>6, <2>1 DEF EndPoll
<1>7. CASE Wait
  <2>1. main' \in Mains /\ main'.at = "waiting" /\ main.at = "limbo"
    BY <1>0, <1>7 DEF Wait, Mains, Places
  <2> QED BY <1>5, <1>7, <2>1 DEF Wait
<1>8. CASE Timeout
  <2>1. main' \in Mains /\ main'.at = "poll" /\ main.at = "waiting"
    BY <1>0, <1>8 DEF Timeout, Mains, Places
  <2> QED BY <1>5, <1>8, <2>1 DEF Timeout
<1>9. CASE Join
  <2>1. main' \in Mains /\ main'.at = "gone" /\ main.at = "joining"
    BY <1>0, <1>9 DEF Join, Mains, Places
  <2> QED BY <1>5, <1>9, <2>1 DEF Join
<1> QED BY <1>1, <1>2, <1>3, <1>4, <1>6, <1>7, <1>8, <1>9, HandleControlOrdered, TakeMailOrdered
        DEF MainContinues

-----------------------------------------------------------------------------
(* Every step keeps the hold. *)

\* No queue of control messages has one more that says that the hold is off.
NoNewRelease ==
    Holding(toMain) /\ Holding(control_buffer_) /\ Holding(read.blocked) /\ Holding(responses)
        => Holding(toMain') /\ Holding(control_buffer_') /\ Holding(read'.blocked) /\ Holding(responses')

\* A step that publishes nothing and creates no release keeps the argument
\* about the hold.
LEMMA QuietRelease ==
    ASSUME Release, UNCHANGED <<hold_, outbox, reported_clients_, requests, ready_>>,
           seen'.published = seen.published, NoNewRelease
    PROVE  Release'
<1> USE DEF Release
<1>1. Held'  BY DEF Held, outbox
<1>2. Truthful'  BY DEF Truthful, AllReported, NoNewRelease
<1>3. Ready'  BY DEF Ready
<1> QED BY <1>1, <1>2, <1>3

\* The numbers up to k, then k + 1, are the numbers up to k + 1.
LEMMA UpToNext ==
    ASSUME NEW k \in Nat
    PROVE  Append(UpTo(k), k + 1) = UpTo(k + 1)
<1>1. UpTo(k) \in Seq(Nat) /\ UpTo(k + 1) \in Seq(Nat) /\ Len(UpTo(k)) = k /\ Len(UpTo(k + 1)) = k + 1
  <2>1. UpTo(k) \in [1..k -> Nat] /\ UpTo(k + 1) \in [1..(k + 1) -> Nat]  BY DEF UpTo
  <2>2. k + 1 \in Nat  OBVIOUS
  <2> QED BY <2>1, <2>2, LenProperties, SeqDef
<1> DEFINE q == Append(UpTo(k), k + 1)
<1>2. /\ q \in Seq(Nat) /\ Len(q) = k + 1 /\ q[k + 1] = k + 1
      /\ \A j \in 1..k : q[j] = UpTo(k)[j]
  BY <1>1, AppendElements
<1>3. \A j \in 1..(k + 1) : q[j] = UpTo(k + 1)[j]
  <2> SUFFICES ASSUME NEW j \in 1..(k + 1) PROVE q[j] = UpTo(k + 1)[j]
    OBVIOUS
  <2>1. UpTo(k + 1)[j] = j  BY DEF UpTo
  <2>2. CASE j = k + 1  BY <1>2, <2>1, <2>2
  <2>3. CASE j # k + 1
    <3>1. j \in 1..k  BY <2>3
    <3>2. UpTo(k)[j] = j  BY <3>1 DEF UpTo
    <3> QED BY <1>2, <2>1, <3>1, <3>2
  <2> QED BY <2>2, <2>3
<1> HIDE DEF q
<1>4. q = UpTo(k + 1)  BY <1>1, <1>2, <1>3, SeqEqual
<1> QED BY <1>4 DEF q

\* A publication waits or is sent, after the ones before it.
LEMMA PublishRelease ==
    ASSUME Ordered, Release, publish(seen.published + 1), seen' = [seen EXCEPT !.published = @ + 1],
           UNCHANGED <<hold_, ready_, control, read, gobyd>>
    PROVE  Release'
<1> USE DEF Release
<1>1. seen.published \in Nat /\ seen'.published = seen.published + 1
  BY HistoryTypes DEF Ordered, Typed, Threads
<1>2. Append(UpTo(seen.published), seen.published + 1) = UpTo(seen'.published)
  BY <1>1, UpToNext
<1>3. Held'
  <2>1. CASE hold_  BY <1>2, <2>1 DEF Held, publish
  <2>2. CASE ~ hold_  BY <1>2, <2>2 DEF Held, publish
  <2> QED BY <2>1, <2>2
<1>4. Truthful'  BY DEF Truthful, AllReported, control, gobyd
<1>5. Ready'  BY DEF Ready, gobyd
<1> QED BY <1>3, <1>4, <1>5

\* What the read thread passes on releases the hold only if the Manager did.
LEMMA SendsRelease ==
    ASSUME Ordered, Release, read.blocked = <<>>, NEW m \in Messages, ReadSends(m),
           UNCHANGED <<control_buffer_, hold_, outbox, reported_clients_, requests, ready_>>,
           seen'.published = seen.published,
           Holding(responses) => Holding(responses') /\ m.hold
    PROVE  Release'
<1>1. \/ toMain' = Append(toMain, m) /\ read'.blocked = <<>>
      \/ toMain' = toMain /\ read'.blocked = <<m>>
  BY ReadSendsEffect DEF Ordered, Typed, Threads, Queues, Limits
<1>2. toMain \in Seq(Messages)  BY DEF Ordered, Typed, Queues
<1>3. NoNewRelease
  <2> SUFFICES ASSUME Holding(toMain), Holding(control_buffer_), Holding(responses)
               PROVE  Holding(toMain') /\ Holding(control_buffer_') /\ Holding(read'.blocked)
                      /\ Holding(responses')
    BY DEF NoNewRelease
  <2>1. m.hold /\ Holding(responses') /\ Holding(control_buffer_')  OBVIOUS
  <2>2. Holding(<<>>)  BY DEF Holding
  <2>3. Holding(<<m>>)
    <3>1. Len(<<m>>) = 1 /\ <<m>>[1] = m  OBVIOUS
    <3> QED BY <2>1, <3>1 DEF Holding
  <2>4. Holding(Append(toMain, m))  BY <1>2, <2>1, HoldingQueues
  <2> QED BY <1>1, <2>1, <2>2, <2>3, <2>4
<1> QED BY <1>3, QuietRelease

\* The read thread keeps the argument about the hold.
LEMMA ReadRelease ==
    ASSUME Ordered, Release, ReadThread PROVE Release'
<1>0. /\ toMain \in Seq(Messages) /\ responses \in Seq(Responses) /\ read \in Reads
      /\ seen \in Histories /\ read.blocked \in Seq(Messages)
  BY DEF Ordered, Typed, Threads, Queues, Reads
<1>1. CASE Unblock
  <2> DEFINE m == Head(read.blocked)
  <2>1. /\ read.blocked # <<>> /\ toMain' = Append(toMain, m)
        /\ read' = [read EXCEPT !.blocked = <<>>]
        /\ UNCHANGED <<control_buffer_, hold_, ready_, outbox, gobyd, seen>>
    BY <1>1 DEF Unblock
  <2>2. read'.blocked = <<>>  BY <1>0, <2>1 DEF Reads
  <2>3. m \in Messages  BY <1>0, <2>1, TailElements
  <2>4. Holding(read.blocked) => m.hold  BY <1>0, <2>1, HoldingQueues
  <2> HIDE DEF m
  <2>5. Holding(toMain) /\ m.hold => Holding(toMain')  BY <1>0, <2>1, <2>3, HoldingQueues
  <2>6. Holding(<<>>)  BY DEF Holding
  <2>7. NoNewRelease  BY <2>1, <2>2, <2>4, <2>5, <2>6 DEF NoNewRelease, gobyd
  <2> QED BY <2>1, <2>7, QuietRelease DEF gobyd
<1>2. CASE manager_data
  <2> DEFINE m == Control("PUB_CONFIGURATION")
  <2>1. /\ read' = [read EXCEPT !.connected = TRUE] /\ toMain' = Append(toMain, m)
        /\ UNCHANGED <<control_buffer_, hold_, ready_, outbox, gobyd, seen>>
    BY <1>2 DEF manager_data
  <2>2. m \in Messages /\ m.hold  BY MessageTypes DEF Types
  <2> HIDE DEF m
  <2>3. read'.blocked = read.blocked  BY <1>0, <2>1 DEF Reads
  <2>4. Holding(toMain) => Holding(toMain')  BY <1>0, <2>1, <2>2, HoldingQueues
  <2>5. NoNewRelease  BY <2>1, <2>3, <2>4 DEF NoNewRelease, gobyd
  <2> QED BY <2>1, <2>5, QuietRelease DEF gobyd
<1>3. CASE NoResponse
  <2>1. /\ read' = [read EXCEPT !.alive = FALSE]
        /\ UNCHANGED <<control, hold_, ready_, outbox, gobyd, seen>>
    BY <1>3 DEF NoResponse
  <2>2. read'.blocked = read.blocked  BY <1>0, <2>1 DEF Reads
  <2>3. NoNewRelease  BY <2>1, <2>2 DEF NoNewRelease, gobyd, control
  <2> QED BY <2>1, <2>3, QuietRelease DEF gobyd
<1>4. CASE subscribe_data
  <2>1. /\ read.blocked = <<>>
        /\ UNCHANGED <<control_buffer_, hold_, ready_, outbox, reported_clients_, requests>>
    BY <1>4 DEF subscribe_data, Reading
  <2>2. ASSUME NEW i \in Groups, seen' = [seen EXCEPT !.data = @ + 1],
               ReadSends([About("RECEIVE", i) EXCEPT !.n = seen.data + 1]), UNCHANGED responses
        PROVE  Release'
    <3> DEFINE m == [About("RECEIVE", i) EXCEPT !.n = seen.data + 1]
    <3>1. seen'.published = seen.published /\ seen.data + 1 \in Nat  BY <1>0, <2>2, HistoryTypes
    <3>2. m \in Messages /\ m.hold  BY <3>1, ReceiveTypes
    <3>3. ReadSends(m)  BY <2>2
    <3> HIDE DEF m
    <3> QED BY <2>1, <2>2, <3>1, <3>2, <3>3, SendsRelease
  <2>3. ASSUME responses # <<>>, responses' = Tail(responses), UNCHANGED seen,
               IF Matches(ManagerResponse)
               THEN ReadSends([About("RECEIVE", ManagerResponse) EXCEPT
                                  !.client = Head(responses).client, !.hold = Head(responses).hold])
               ELSE UNCHANGED <<main, read, toMain>>
        PROVE  Release'
    <3> DEFINE r == Head(responses)
               m == [About("RECEIVE", ManagerResponse) EXCEPT !.client = r.client, !.hold = r.hold]
    <3>1. r \in Responses  BY <1>0, <2>3, TailElements
    <3>2. Holding(responses) => Holding(responses') /\ r.hold  BY <1>0, <2>3, HoldingQueues
    <3>3. CASE Matches(ManagerResponse)
      <4>1. r.client \in Clients /\ r.hold \in BOOLEAN  BY <3>1 DEF Responses
      <4>2. m \in Messages /\ m.hold = r.hold  BY <4>1, ReceiveTypes
      <4>3. ReadSends(m)  BY <2>3, <3>3
      <4> HIDE DEF m, r
      <4> QED BY <2>1, <2>3, <3>2, <4>2, <4>3, SendsRelease
    <3>4. CASE ~ Matches(ManagerResponse)
      <4>1. read' = read /\ toMain' = toMain  BY <2>3, <3>4
      <4>2. NoNewRelease  BY <2>1, <3>2, <4>1 DEF NoNewRelease
      <4> QED BY <2>1, <2>3, <4>2, QuietRelease
    <3> QED BY <3>3, <3>4
  <2> QED BY <1>4, <2>2, <2>3 DEF subscribe_data
<1>5. CASE RequestHoldState
  <2> DEFINE m == Control("REQUEST_HOLD_STATE")
  <2>1. m \in Messages /\ m.hold  BY MessageTypes DEF Types
  <2>2. /\ read.blocked = <<>> /\ ReadSends(m)
        /\ UNCHANGED <<control_buffer_, hold_, ready_, outbox, gobyd, seen>>
    BY <1>5 DEF RequestHoldState, Reading
  <2> HIDE DEF m
  <2> QED BY <2>1, <2>2, SendsRelease DEF gobyd
<1>6. CASE control_data
  <2> DEFINE m == Head(toRead)
  <2>1. /\ read.blocked = <<>>
        /\ UNCHANGED <<control_buffer_, hold_, ready_, outbox, gobyd, seen>>
    BY <1>6 DEF control_data, Reading
  <2>2. ASSUME NEW ack \in Messages, ack.hold, ReadSends(ack) PROVE Release'
    BY <2>1, <2>2, SendsRelease DEF gobyd
  <2>3. ASSUME read'.blocked = read.blocked, toMain' = toMain PROVE Release'
    <3>1. NoNewRelease  BY <2>1, <2>3 DEF NoNewRelease, gobyd
    <3> QED BY <2>1, <3>1, QuietRelease DEF gobyd
  <2>4. /\ Control("SUBSCRIBE_ACK") \in Messages /\ Control("SUBSCRIBE_ACK").hold
        /\ Control("UNSUBSCRIBE_ACK") \in Messages /\ Control("UNSUBSCRIBE_ACK").hold
    BY MessageTypes DEF Types, AckTypes
  <2>5. \/ ReadSends(Control("SUBSCRIBE_ACK")) \/ ReadSends(Control("UNSUBSCRIBE_ACK"))
        \/ read' = [read EXCEPT !.hold = m.hold] /\ toMain' = toMain
        \/ read' = [read EXCEPT !.alive = FALSE] /\ toMain' = toMain
    BY <1>6 DEF control_data
  <2>6. CASE read' = [read EXCEPT !.hold = m.hold] /\ toMain' = toMain
    BY <1>0, <2>3, <2>6 DEF Reads
  <2>7. CASE read' = [read EXCEPT !.alive = FALSE] /\ toMain' = toMain
    BY <1>0, <2>3, <2>7 DEF Reads
  <2> QED BY <2>2, <2>4, <2>5, <2>6, <2>7
<1> QED BY <1>1, <1>2, <1>3, <1>4, <1>5, <1>6 DEF ReadThread, ReadContinues

\* The Manager says that the hold is off when all have reported.
LEMMA ManagerRelease ==
    ASSUME Ordered, Release, Manager PROVE Release'
<1> USE DEF Release
<1>0. /\ requests \in Seq(BOOLEAN) /\ responses \in Seq(Responses)
      /\ reported_clients_ \subseteq required_clients_
  BY DEF Ordered, Typed, Queues, Limits
<1>1. ASSUME NEW c \in Clients, NEW b \in BOOLEAN, Report(c, b),
             UNCHANGED <<read, control, hold_>>
      PROVE  /\ Truthful'
             /\ reported_clients_' \subseteq reported_clients_ \cup {c}
             /\ ~ b => reported_clients_' = reported_clients_
  <2> DEFINE r == [client |-> c, hold |-> hold_state(reported_clients_')]
  <2>1. responses' = Append(responses, r) /\ r.hold = hold_state(reported_clients_')
    BY <1>1 DEF Report
  <2>2. r \in Responses  BY DEF Responses, hold_state
  <2>3. /\ reported_clients_ \subseteq reported_clients_'
        /\ reported_clients_' \subseteq reported_clients_ \cup {c}
        /\ reported_clients_' \subseteq required_clients_
        /\ ~ b => reported_clients_' = reported_clients_
    BY <1>0, <1>1 DEF Report
  <2> HIDE DEF r
  <2>4. CASE reported_clients_' = required_clients_
    BY <2>3, <2>4 DEF Truthful, AllReported
  <2>5. CASE reported_clients_' # required_clients_
    <3>1. r.hold  BY <2>1, <2>5 DEF hold_state
    <3>2. ~ AllReported  BY <2>3, <2>5 DEF AllReported
    <3>3. Holding(responses) => Holding(responses')  BY <1>0, <2>1, <2>2, <3>1, HoldingQueues
    <3> QED BY <1>1, <2>3, <3>2, <3>3 DEF Truthful, control
  <2> QED BY <2>3, <2>4, <2>5
<1>2. CASE handle_request
  <2>1. /\ requests # <<>> /\ requests' = Tail(requests) /\ Report(Self, Head(requests))
        /\ UNCHANGED <<read, control, hold_, ready_, outbox, seen>>
    BY <1>2 DEF handle_request
  <2>2. /\ Head(requests) \in BOOLEAN /\ Head(requests) = requests[1] /\ 1 \in 1..Len(requests)
        /\ \A j \in 1..Len(requests') : requests'[j] = requests[j + 1] /\ j + 1 \in 1..Len(requests)
    BY <1>0, <2>1, TailElements
  <2>3. /\ Truthful'
        /\ ~ Head(requests) => reported_clients_' = reported_clients_
    BY <1>1, <2>1, <2>2 DEF Clients
  <2>4. Held'  BY <2>1 DEF Held, outbox
  <2>5. Ready'
    <3>1. CASE ready_  BY <2>1, <3>1 DEF Ready
    <3>2. CASE ~ ready_
      <4>1. Self \notin reported_clients_ /\ \A j \in 1..Len(requests) : ~ requests[j]
        BY <3>2 DEF Ready
      <4>2. reported_clients_' = reported_clients_  BY <2>2, <2>3, <4>1
      <4>3. \A j \in 1..Len(requests') : ~ requests'[j]  BY <2>2, <4>1
      <4> QED BY <4>1, <4>2, <4>3 DEF Ready
    <3> QED BY <3>1, <3>2
  <2> QED BY <2>3, <2>4, <2>5
<1>3. CASE LoseRequest
  <2>1. /\ requests # <<>> /\ requests' = Tail(requests)
        /\ UNCHANGED <<read, control, hold_, ready_, outbox, reported_clients_, responses, seen>>
    BY <1>3 DEF LoseRequest
  <2>2. \A j \in 1..Len(requests') : requests'[j] = requests[j + 1] /\ j + 1 \in 1..Len(requests)
    BY <1>0, <2>1, TailElements
  <2>3. Held'  BY <2>1 DEF Held, outbox
  <2>4. Truthful'  BY <2>1 DEF Truthful, AllReported, control
  <2>5. Ready'  BY <2>1, <2>2 DEF Ready
  <2> QED BY <2>3, <2>4, <2>5
<1>4. ASSUME NEW c \in required_clients_, OtherRequest(c) PROVE Release'
  <2>1. /\ c # Self /\ Report(c, TRUE)
        /\ UNCHANGED <<read, control, hold_, ready_, outbox, seen, requests>>
    BY <1>4 DEF OtherRequest
  <2>2. Truthful' /\ reported_clients_' \subseteq reported_clients_ \cup {c}
    BY <1>1, <2>1 DEF Clients
  <2>3. Held'  BY <2>1 DEF Held, outbox
  <2>4. Ready'  BY <2>1, <2>2 DEF Ready
  <2> QED BY <2>2, <2>3, <2>4
<1> QED BY <1>2, <1>3, <1>4 DEF Manager

\* A message that says that the hold is off comes from a Manager to whom all
\* have reported.
LEMMA HandleControlRelease ==
    ASSUME Ordered, Release, HandleControl PROVE Release'
<1> USE DEF Release
<1> DEFINE m == Head(control_buffer_)
<1>0. /\ control_buffer_ \in Seq(Messages) /\ requests \in Seq(BOOLEAN) /\ seen \in Histories
      /\ publish_queue_ \in Seq(Nat) /\ ready_ \in BOOLEAN /\ hold_ \in BOOLEAN
  BY DEF Ordered, Typed, Threads, Queues, Limits
<1>1. /\ control_buffer_ # <<>> /\ control_buffer_' = Tail(control_buffer_)
      /\ UNCHANGED <<read, toMain, ready_, reported_clients_, responses>>
  BY DEF HandleControl
<1>2. Holding(control_buffer_) => Holding(control_buffer_') /\ m.hold
  BY <1>0, <1>1, HoldingQueues
<1>3. NoNewRelease  BY <1>1, <1>2 DEF NoNewRelease
<1>4. CASE /\ m.type = "REQUEST_HOLD_STATE"
           /\ requests' = Append(requests, ready_)
           /\ UNCHANGED <<main, hold_, outbox, portal_subscriptions_, seen>>
  <2>1. Held'  BY <1>4 DEF Held, outbox
  <2>2. Truthful'  BY <1>1, <1>3, <1>4 DEF Truthful, AllReported, NoNewRelease
  <2>3. Ready'
    <3>1. CASE ready_  BY <1>1, <3>1 DEF Ready
    <3>2. CASE ~ ready_
      <4>1. Self \notin reported_clients_' /\ \A j \in 1..Len(requests) : ~ requests[j]
        BY <1>1, <3>2 DEF Ready
      <4>2. ASSUME NEW j \in 1..Len(requests') PROVE ~ requests'[j]
        BY <1>0, <1>4, <3>2, <4>1, AppendElements
      <4> QED BY <4>1, <4>2 DEF Ready
    <3> QED BY <3>1, <3>2
  <2> QED BY <2>1, <2>2, <2>3
<1>5. CASE /\ m.type = "RECEIVE"
           /\ IF m.id = ManagerResponse /\ portal_subscriptions_[m.id] > 0 THEN Respond(m)
              ELSE /\ main' = [main EXCEPT !.items = TRUE]
                   /\ UNCHANGED <<hold_, outbox, portal_subscriptions_>>
           /\ seen' = [seen EXCEPT
                 !.handled = IF m.n > 0 THEN Append(@, m.n) ELSE @,
                 !.dead = @ \cup {s \in Posted(m.id, regex_subscriptions_) \ {None} :
                                    forwarder[s] = "gone"}]
           /\ UNCHANGED requests
  <2>1. seen'.published = seen.published  BY <1>0, <1>5 DEF Histories
  <2>2. CASE m.id = ManagerResponse /\ portal_subscriptions_[m.id] > 0
    <3> DEFINE off == hold_ /\ m.client = Self /\ ~ m.hold
    <3>1. /\ hold_' = (hold_ /\ ~ off)
          /\ sent' = IF off THEN sent \o publish_queue_ ELSE sent
          /\ publish_queue_' = IF off THEN <<>> ELSE publish_queue_
      BY <1>5, <2>2 DEF Respond, QueueAfter
    <3>2. CASE off
      <4>1. ~ m.hold /\ hold_  BY <3>2
      <4>2. AllReported  BY <1>2, <4>1 DEF Truthful
      <4>3. sent = <<>> /\ publish_queue_ = UpTo(seen.published)  BY <4>1 DEF Held
      <4>4. <<>> \o publish_queue_ = publish_queue_  BY <1>0, ConcatEmptySeq
      <4>5. ~ hold_' /\ sent' = publish_queue_ /\ publish_queue_' = <<>>
        <5>1. ~ hold_' /\ sent' = sent \o publish_queue_ /\ publish_queue_' = <<>>
          BY <3>1, <3>2
        <5> QED BY <4>3, <4>4, <5>1
      <4>6. Held'  BY <2>1, <4>3, <4>5 DEF Held
      <4>7. Truthful'  BY <1>1, <4>2 DEF Truthful, AllReported
      <4>8. Ready'  BY <1>1, <1>5 DEF Ready
      <4> QED BY <4>6, <4>7, <4>8
    <3>3. CASE ~ off
      <4>1. hold_' = hold_ /\ sent' = sent /\ publish_queue_' = publish_queue_
        BY <1>0, <3>1, <3>3
      <4> QED BY <1>1, <1>3, <1>5, <2>1, <4>1, QuietRelease DEF outbox
    <3> QED BY <3>2, <3>3
  <2>3. CASE ~ (m.id = ManagerResponse /\ portal_subscriptions_[m.id] > 0)
    <3>1. UNCHANGED <<hold_, outbox>>  BY <1>5, <2>3
    <3> QED BY <1>1, <1>3, <1>5, <2>1, <3>1, QuietRelease
  <2> QED BY <2>2, <2>3
<1> QED BY <1>4, <1>5 DEF HandleControl

\* The main thread keeps the argument about the hold.
LEMMA MainRelease ==
    ASSUME Ordered, Release, MainContinues PROVE Release'
<1>0. /\ toMain \in Seq(Messages) /\ control_buffer_ \in Seq(Messages) /\ main \in Mains
  BY DEF Ordered, Typed, Threads, Queues
<1>1. ASSUME UNCHANGED <<read, hold_, ready_, outbox, gobyd, seen>>,
             Holding(toMain) /\ Holding(control_buffer_)
                => Holding(toMain') /\ Holding(control_buffer_')
      PROVE  Release'
  <2>1. NoNewRelease  BY <1>1 DEF NoNewRelease, gobyd
  <2> QED BY <1>1, <2>1, QuietRelease DEF gobyd
<1>2. CASE SendControl  BY <1>1, <1>2 DEF SendControl
<1>3. CASE RecvAck
  <2>1. /\ toMain # <<>> /\ toMain' = Tail(toMain)
        /\ UNCHANGED <<read, hold_, ready_, outbox, gobyd, seen>>
        /\ \/ control_buffer_' = control_buffer_
           \/ control_buffer_' = Append(control_buffer_, Head(toMain))
    BY <1>3 DEF RecvAck, KeepForLater
  <2>2. Head(toMain) \in Messages  BY <1>0, <2>1, TailElements
  <2>3. Holding(toMain) => Holding(toMain') /\ Head(toMain).hold  BY <1>0, <2>1, HoldingQueues
  <2>4. Holding(control_buffer_) /\ Head(toMain).hold => Holding(control_buffer_')
    BY <1>0, <2>1, <2>2, HoldingQueues
  <2> QED BY <1>1, <2>1, <2>3, <2>4
<1>4. CASE set_publish_cfg
  <2>1. /\ toMain # <<>> /\ toMain' = Tail(toMain) /\ control_buffer_' = control_buffer_
        /\ UNCHANGED <<read, hold_, ready_, outbox, gobyd, seen>>
    BY <1>4 DEF set_publish_cfg
  <2>2. Holding(toMain) => Holding(toMain')  BY <1>0, <2>1, HoldingQueues
  <2> QED BY <1>1, <2>1, <2>2
<1>5. ASSUME NEW kind \in Kinds, TakeMail(kind) PROVE Release'
  <2>1. UNCHANGED <<read, control, hold_, ready_, gobyd>>  BY <1>5 DEF TakeMail
  <2>2. \/ publish(seen.published + 1) /\ seen' = [seen EXCEPT !.published = @ + 1]
        \/ UNCHANGED <<outbox, seen>>
    BY <1>5 DEF TakeMail
  <2>3. CASE publish(seen.published + 1) /\ seen' = [seen EXCEPT !.published = @ + 1]
    BY <2>1, <2>3, PublishRelease
  <2>4. CASE UNCHANGED <<outbox, seen>>  BY <1>1, <2>1, <2>4 DEF control
  <2> QED BY <2>2, <2>3, <2>4
<1>6. CASE PollControl
  <2>1. /\ control_buffer_' = control_buffer_ \o toMain /\ toMain' = <<>>
        /\ UNCHANGED <<read, hold_, ready_, outbox, gobyd, seen>>
    BY <1>6 DEF PollControl
  <2>2. Holding(<<>>)  BY DEF Holding
  <2>3. Holding(control_buffer_) /\ Holding(toMain) => Holding(control_buffer_')
    BY <1>0, <2>1, HoldingQueues
  <2> QED BY <1>1, <2>1, <2>2, <2>3
<1>7. CASE EndPoll \/ Wait \/ Timeout \/ Join
  <2>1. UNCHANGED <<read, control, hold_, ready_, outbox, gobyd, seen>>
    BY <1>7 DEF EndPoll, Wait, Timeout, Join
  <2> QED BY <1>1, <2>1 DEF control
<1> QED BY <1>2, <1>3, <1>4, <1>5, <1>6, <1>7, HandleControlRelease DEF MainContinues

\* Application and forwarders keep the argument about the hold.
LEMMA OthersRelease ==
    ASSUME Ordered, Release, Application \/ \E s \in Forwarders : Forwarder(s) PROVE Release'
<1>0. seen \in Histories  BY DEF Ordered, Typed, Threads
<1>1. ASSUME UNCHANGED <<read, toMain, control_buffer_, hold_, ready_, outbox, gobyd>>,
             seen'.published = seen.published
      PROVE  Release'
  <2>1. NoNewRelease  BY <1>1 DEF NoNewRelease, gobyd
  <2> QED BY <1>1, <2>1, QuietRelease DEF gobyd
<1>2. ASSUME NEW i \in Groups, Subscribe(i) \/ Unsubscribe(i) PROVE Release'
  <2>1. /\ seen' = [seen EXCEPT !.calls = @ + 1]
        /\ UNCHANGED <<read, control, hold_, ready_, outbox, gobyd>>
    BY <1>2 DEF Subscribe, Unsubscribe, Counted
  <2>2. seen'.published = seen.published  BY <1>0, <2>1, HistoryTypes
  <2> QED BY <1>1, <2>1, <2>2 DEF control
<1>3. CASE SubscribeRegex
  <2>1. /\ seen' = [seen EXCEPT !.calls = @ + 1]
        /\ UNCHANGED <<read, control, hold_, ready_, outbox, gobyd>>
    BY <1>3 DEF SubscribeRegex, Counted
  <2>2. seen'.published = seen.published  BY <1>0, <2>1, HistoryTypes
  <2> QED BY <1>1, <2>1, <2>2 DEF control
<1>4. CASE UnsubscribeAll
  <2>1. /\ seen' = [seen EXCEPT !.calls = @ + 1, !.cut = @ \/ hold_]
        /\ UNCHANGED <<read, control, hold_, ready_, outbox, gobyd>>
    BY <1>4 DEF UnsubscribeAll
  <2>2. seen'.published = seen.published  BY <1>0, <2>1 DEF Histories
  <2> QED BY <1>1, <2>1, <2>2 DEF control
<1>5. CASE Publish
  BY <1>5, PublishRelease DEF Publish
<1>6. CASE ready
  <2>1. ready_' /\ UNCHANGED <<read, control, hold_, outbox, gobyd, seen>>  BY <1>6 DEF ready
  <2>2. Held'  BY <2>1 DEF Release, Held, outbox
  <2>3. Truthful'  BY <2>1 DEF Release, Truthful, AllReported, control, gobyd
  <2>4. Ready'  BY <2>1 DEF Ready
  <2> QED BY <2>2, <2>3, <2>4 DEF Release
<1>7. CASE Shutdown  BY <1>1, <1>7 DEF Shutdown
<1>8. ASSUME NEW s \in Forwarders, Forwarder(s) PROVE Release'
  <2>1. /\ UNCHANGED <<read, control, hold_, ready_, outbox, gobyd>>
        /\ seen' = seen \/ seen' = [seen EXCEPT !.forwarded = @ + 1]
    BY <1>8 DEF Forwarder, ForwarderCalls, ForwarderLeaves, ForwarderGone, ToPortal
  <2>2. seen'.published = seen.published  BY <1>0, <2>1, HistoryTypes
  <2> QED BY <1>1, <2>1, <2>2 DEF control
<1> QED BY <1>2, <1>3, <1>4, <1>5, <1>6, <1>7, <1>8 DEF Application

-----------------------------------------------------------------------------
(* The theorems. *)

\* The portal starts in a sound state.
LEMMA InitSound == Init => Sound
<1> SUFFICES ASSUME Init PROVE Sound
  OBVIOUS
<1> USE DEF Init
<1>0. /\ <<>> \in Seq(Messages) /\ <<>> \in Seq(Nat) /\ <<>> \in Seq(Data) /\ <<>> \in Seq(BOOLEAN)
      /\ <<>> \in Seq(Responses) /\ Len(<<>>) = 0
  OBVIOUS
<1>1. Threads
  <2>1. main \in Mains  BY <1>0 DEF Mains, Places
  <2>2. read \in Reads  BY <1>0 DEF Reads
  <2>3. seen \in Histories  BY <1>0 DEF Histories
  <2> QED BY <2>1, <2>2, <2>3 DEF Threads
<1>2. Queues  BY <1>0 DEF Queues
<1>3. Mailed
  <2>1. mail \in [Kinds -> Seq(Data)]  BY <1>0
  <2>2. mail["subscription"] = <<>>  BY DEF Kinds
  <2> QED BY <1>0, <2>1, <2>2 DEF Mailed
<1>4. Limits
  <2>1. Hwm \in Nat /\ read.blocked = <<>>  BY PortalAssumption
  <2>2. Len(toMain) = 0 /\ Len(read.blocked) = 0  BY <1>0, <2>1
  <2>3. Len(toMain) <= Hwm /\ Len(read.blocked) <= 1  BY ONLY <2>1, <2>2
  <2>4. filters \in [Filters -> Nat] /\ reported_clients_ \subseteq required_clients_  OBVIOUS
  <2> QED BY <2>3, <2>4 DEF Limits
<1>5. Fresh  BY DEF Fresh
<1>6. Held
  <2>1. UpTo(seen.published) = <<>>  BY DEF UpTo
  <2> QED BY <2>1 DEF Held
<1>7. Truthful
  <2>1. Holding(<<>>)  BY DEF Holding
  <2> QED BY <2>1 DEF Truthful
<1>8. Ready  BY <1>0 DEF Ready
<1>9. Books  BY DEF Books
<1>10. ~ Calling  BY DEF Calling
<1>11. Called  BY <1>10 DEF Called
<1>12. Asked  BY <1>0 DEF Asked, NoCall
<1>13. Answered
  <2>1. NoAck(<<>>)  BY DEF NoAck
  <2> QED BY <2>1 DEF Answered
<1>14. Settled
  <2>1. \A f \in Filters : ~ Wanted(f) /\ filters[f] = 0  BY DEF Wanted, Filters
  <2> QED BY <1>10, <2>1 DEF Settled, Pending
<1> QED BY <1>1, <1>2, <1>3, <1>4, <1>5, <1>6, <1>7, <1>8, <1>9, <1>11, <1>12, <1>13, <1>14
        DEF Sound, Typed, Release, Requested

\* Every step keeps it sound.
LEMMA StepSound == Sound /\ [Next]_vars => Sound'
<1> SUFFICES ASSUME Sound, [Next]_vars PROVE Sound'
  OBVIOUS
<1>0. Ordered /\ Release  BY DEF Sound, Ordered
<1>1. CASE ReadThread  BY <1>0, <1>1, ReadOrdered, ReadRelease DEF Sound, Ordered
<1>2. CASE Manager  BY <1>0, <1>2, ManagerOrdered, ManagerRelease DEF Sound, Ordered
<1>3. CASE MainContinues  BY <1>0, <1>3, MainOrdered, MainRelease DEF Sound, Ordered
<1>4. CASE Application  BY <1>0, <1>4, ApplicationOrdered, OthersRelease DEF Sound, Ordered
<1>5. ASSUME NEW s \in Forwarders, Forwarder(s) PROVE Sound'
  BY <1>0, <1>5, ForwarderOrdered, OthersRelease DEF Sound, Ordered
<1>6. CASE UNCHANGED vars
  <2> USE <1>6 DEF vars, control, book, outbox, gobyd
  <2>1. Threads' /\ Queues' /\ Mailed'  BY <1>0 DEF Ordered, Typed, Threads, Queues, Mailed
  <2>2. hold_' \in BOOLEAN /\ ready_' \in BOOLEAN /\ reported_clients_' \subseteq required_clients_
    BY <1>0 DEF Ordered, Typed, Limits
  <2>3. Ordered'  BY <1>0, <2>1, <2>2, ElsewhereOrdered
  <2>4. Release'
    <3>1. NoNewRelease  BY DEF NoNewRelease
    <3> QED BY <1>0, <3>1, QuietRelease
  <2> QED BY <2>3, <2>4 DEF Sound, Ordered
<1> QED BY <1>1, <1>2, <1>3, <1>4, <1>5, <1>6 DEF Next

\* The inductive invariant: the control queues carry one call and its ack at a
\* time, the pending calls bring the filters to the books, and what is said of
\* the hold is true.
THEOREM AlwaysSound == Spec => []Sound
BY InitSound, StepSound, PTL DEF Spec

\* Type correctness, for any groups, forwarders and bounds: the books and the
\* filters keep their shape and the control queue to the main thread never
\* exceeds its high water mark.
THEOREM PortalTypeCorrect == Spec => []TypeOK
<1>1. Sound => TypeOK
  <2> SUFFICES ASSUME Sound PROVE TypeOK
    OBVIOUS
  <2>1. main.at \in Places /\ main.back \in {"poll", "control"}
    BY DEF Sound, Typed, Threads, Mains
  <2>2. Calling => main.todo # <<>>  BY DEF Sound, Requested, Called
  <2> QED BY <2>1, <2>2 DEF Sound, Typed, Requested, Limits, Books, TypeOK, Places
<1> QED BY <1>1, AlwaysSound, PTL

\* Whenever no subscribe() or unsubscribe() of the main thread is under way, the
\* SUB socket of the read thread has the filters that the books of the portal,
\* the forwarders and the regular expressions ask for, each once, for any
\* interleaving of the two threads and the forwarders.
THEOREM FiltersAlwaysMatch == Spec => []FiltersMatchBooks
<1>1. Sound => FiltersMatchBooks
  <2> SUFFICES ASSUME Sound, ~ Calling PROVE
        /\ \A i \in Ids : filters[i] =
              IF portal_subscriptions_[i] > 0 \/ forwarder_subscriptions_[i] # None THEN 1 ELSE 0
        /\ filters[Slash] = IF regex_subscriptions_ # {} THEN 1 ELSE 0
        /\ \A i \in Ids, s \in Forwarders :
              i \in forwarder_subscription_identifiers_[s] => forwarder_subscriptions_[i] # None
    BY DEF FiltersMatchBooks
  <2>1. \A f \in Filters : filters[f] = IF Wanted(f) THEN 1 ELSE 0
    BY IdleFilters DEF Sound, Requested
  <2>2. ASSUME NEW i \in Ids
        PROVE  filters[i] = IF portal_subscriptions_[i] > 0 \/ forwarder_subscriptions_[i] # None
                            THEN 1 ELSE 0
    <3>1. i \in Filters /\ i # Slash  BY PortalAssumption DEF Filters, Ids
    <3> QED BY <2>1, <3>1 DEF Wanted
  <2>3. filters[Slash] = IF regex_subscriptions_ # {} THEN 1 ELSE 0
    BY <2>1 DEF Wanted, Filters
  <2> QED BY <2>2, <2>3 DEF Sound, Requested, Books
<1> QED BY <1>1, AlwaysSound, PTL

\* publish() and the release of the hold send the publications in the order in
\* which they were made, those of the time of the hold first, and lose none,
\* whenever the answer of the Manager comes.
THEOREM AlwaysSentInOrder == Spec => []SentInOrder
<1>1. Sound => SentInOrder
  <2> SUFFICES ASSUME Sound PROVE sent \o publish_queue_ = UpTo(seen.published)
    BY DEF SentInOrder, UpTo
  <2>1. Held /\ publish_queue_ \in Seq(Nat) /\ sent \in Seq(Nat)
    BY DEF Sound, Release, Typed, Queues
  <2>2. <<>> \o publish_queue_ = publish_queue_ /\ sent \o <<>> = sent
    BY <2>1, ConcatEmptySeq
  <2> QED BY <2>1, <2>2 DEF Held
<1> QED BY <1>1, AlwaysSound, PTL

\* No publication leaves the process before every required client has reported
\* to the Manager, and this one, if required, only after its ready(), however
\* the requests and the responses for the hold state are delayed or lost.
THEOREM HoldAlwaysRespected == Spec => []HoldRespected
<1>1. Sound => HoldRespected
  <2> SUFFICES ASSUME Sound, sent # <<>>
               PROVE  reported_clients_ = required_clients_ /\ (Self \in required_clients_ => ready_)
    BY DEF HoldRespected
  <2>1. ~ hold_  BY DEF Sound, Release, Held
  <2>2. reported_clients_ = required_clients_
    BY <2>1 DEF Sound, Release, Truthful, AllReported
  <2> QED BY <2>2 DEF Sound, Release, Ready
<1> QED BY <1>1, AlwaysSound, PTL

-----------------------------------------------------------------------------
(* What is received reaches the callbacks in order. *)

\* What is on its way to the callbacks.
Inbound == control_buffer_ \o toMain \o read.blocked

\* Before the main thread has its publish socket nothing can be received.
Untouched == main.at = "init" => seen.data = 0 /\ \A f \in Filters : filters[f] = 0

Receipt == ReceivedInOrder /\ Untouched

\* Only received data carry a number.
LEMMA MessageNumber ==
    /\ \A m \in Messages : m.n \in Nat
    /\ \A m \in Messages : m.type # "RECEIVE" => m.n = 0
    /\ \A i \in Groups, k \in Nat : [About("RECEIVE", i) EXCEPT !.n = k].n = k
    /\ \A c, h : [About("RECEIVE", ManagerResponse) EXCEPT !.client = c, !.hold = h].n = 0
<1>1. \A m \in Messages : m.n \in Nat  BY DEF Messages
<1>2. \A m \in Messages : m.type # "RECEIVE" => m.n = 0  BY DEF Messages
<1>3. \A i \in Groups, k \in Nat : [About("RECEIVE", i) EXCEPT !.n = k].n = k
  BY DEF About, Control
<1>4. \A c, h : [About("RECEIVE", ManagerResponse) EXCEPT !.client = c, !.hold = h].n = 0
  BY DEF About, Control
<1> QED BY <1>1, <1>2, <1>3, <1>4

\* A message at the end of the queue: the next datum, or none.
LEMMA CarriesAppend ==
    ASSUME NEW q \in Seq(Messages), NEW m \in Messages, NEW k \in Nat, NEW n \in Nat,
           k <= n, Carries(q, k, n)
    PROVE  /\ m.n = n + 1 => Carries(Append(q, m), k, n + 1)
           /\ m.n = 0 => Carries(Append(q, m), k, n)
<1> DEFINE r == Append(q, m)
<1>1. /\ r \in Seq(Messages) /\ Len(r) = Len(q) + 1 /\ Len(q) \in Nat
      /\ (\A j \in 1..Len(q) : r[j] = q[j]) /\ r[Len(q) + 1] = m
  BY AppendElements
<1> HIDE DEF r
<1>2. \A j \in 1..Len(q) : q[j].n > 0 => /\ q[j].n \in (k + 1)..n
                                         /\ \A i \in 1..(j - 1) : q[i].n < q[j].n
  BY DEF Carries
<1>3. \A d \in (k + 1)..n : \E j \in 1..Len(r) : r[j].n = d
  <2> SUFFICES ASSUME NEW d \in (k + 1)..n PROVE \E j \in 1..Len(r) : r[j].n = d
    OBVIOUS
  <2>1. PICK j \in 1..Len(q) : q[j].n = d  BY DEF Carries
  <2>2. j \in 1..Len(r) /\ r[j].n = d  BY <1>1, <2>1
  <2> QED BY <2>2
<1>4. \A j \in 1..Len(q) : \A i \in 1..(j - 1) : i \in 1..Len(q)  BY <1>1
<1>5. \A j \in 1..Len(q) : r[j].n > 0 => /\ r[j].n \in (k + 1)..n
                                         /\ \A i \in 1..(j - 1) : r[i].n < r[j].n
  BY <1>1, <1>2, <1>4
<1>6. \A j \in 1..Len(r) : j \in 1..Len(q) \/ j = Len(q) + 1  BY <1>1
<1>7. ASSUME m.n = n + 1 PROVE Carries(r, k, n + 1)
  <2>1. \A d \in (k + 1)..(n + 1) : \E j \in 1..Len(r) : r[j].n = d
    <3> SUFFICES ASSUME NEW d \in (k + 1)..(n + 1) PROVE \E j \in 1..Len(r) : r[j].n = d
      OBVIOUS
    <3>1. CASE d = n + 1
      <4>1. Len(q) + 1 \in 1..Len(r) /\ r[Len(q) + 1].n = d  BY <1>1, <1>7, <3>1
      <4> QED BY <4>1
    <3>2. CASE d # n + 1
      <4>1. d \in (k + 1)..n  BY <3>2
      <4> QED BY <1>3, <4>1
    <3> QED BY <3>1, <3>2
  <2>2. \A i \in 1..Len(q) : r[i].n < n + 1
    <3> SUFFICES ASSUME NEW i \in 1..Len(q) PROVE r[i].n < n + 1
      OBVIOUS
    <3>1. r[i].n \in Nat
      <4>1. r[i] \in Messages  BY <1>1, ElementOfSeq
      <4> QED BY <4>1, MessageNumber
    <3>2. r[i].n > 0 => r[i].n \in (k + 1)..n  BY <1>5
    <3> QED BY <3>1, <3>2
  <2>3. \A j \in 1..Len(r) : r[j].n > 0 => /\ r[j].n \in (k + 1)..(n + 1)
                                           /\ \A i \in 1..(j - 1) : r[i].n < r[j].n
    <3> SUFFICES ASSUME NEW j \in 1..Len(r), r[j].n > 0
                 PROVE  /\ r[j].n \in (k + 1)..(n + 1)
                        /\ \A i \in 1..(j - 1) : r[i].n < r[j].n
      OBVIOUS
    <3>1. CASE j \in 1..Len(q)
      <4>1. r[j].n \in (k + 1)..n /\ \A i \in 1..(j - 1) : r[i].n < r[j].n  BY <1>5, <3>1
      <4> QED BY <4>1
    <3>2. CASE j = Len(q) + 1
      <4>1. r[j].n = n + 1 /\ n + 1 \in (k + 1)..(n + 1)  BY <1>1, <1>7, <3>2
      <4>2. \A i \in 1..(j - 1) : i \in 1..Len(q)  BY <1>1, <3>2
      <4> QED BY <2>2, <4>1, <4>2
    <3> QED BY <1>6, <3>1, <3>2
  <2> QED BY <2>1, <2>3 DEF Carries
<1>8. ASSUME m.n = 0 PROVE Carries(r, k, n)
  <2>1. \A j \in 1..Len(r) : r[j].n > 0 => j \in 1..Len(q)  BY <1>1, <1>6, <1>8
  <2> QED BY <1>3, <1>5, <2>1 DEF Carries
<1> QED BY <1>7, <1>8 DEF r

\* A message that is not a datum leaves the queue.
LEMMA CarriesDrop ==
    ASSUME NEW q \in Seq(Messages), NEW r \in Seq(Messages), NEW k \in Nat, NEW n \in Nat,
           NEW l \in 1..Len(q), q[l].n = 0, Len(r) = Len(q) - 1,
           \A j \in 1..Len(r) : r[j] = IF j < l THEN q[j] ELSE q[j + 1],
           Carries(q, k, n)
    PROVE  Carries(r, k, n)
<1>0. Len(q) \in Nat /\ Len(r) \in Nat  BY LenProperties
<1>1. \A d \in (k + 1)..n : \E j \in 1..Len(r) : r[j].n = d
  <2> SUFFICES ASSUME NEW d \in (k + 1)..n PROVE \E j \in 1..Len(r) : r[j].n = d
    OBVIOUS
  <2>1. PICK j \in 1..Len(q) : q[j].n = d  BY DEF Carries
  <2>2. j # l  BY <2>1
  <2>3. CASE j < l
    <3>1. j \in 1..Len(r) /\ r[j].n = d  BY <1>0, <2>1, <2>3
    <3> QED BY <3>1
  <2>4. CASE j > l
    <3>1. j - 1 \in 1..Len(r) /\ ~ (j - 1 < l) /\ (j - 1) + 1 = j  BY <1>0, <2>4
    <3>2. r[j - 1].n = d  BY <2>1, <3>1
    <3> QED BY <3>1, <3>2
  <2> QED BY <2>2, <2>3, <2>4
<1>2. ASSUME NEW j \in 1..Len(r), r[j].n > 0
      PROVE  r[j].n \in (k + 1)..n /\ \A i \in 1..(j - 1) : r[i].n < r[j].n
  <2>1. CASE j < l
    <3>1. r[j] = q[j] /\ j \in 1..Len(q)  BY <1>0, <2>1
    <3>2. \A i \in 1..(j - 1) : r[i] = q[i] /\ i \in 1..(j - 1)
      <4>1. \A i \in 1..(j - 1) : i \in 1..Len(r) /\ i < l  BY <1>0, <2>1
      <4> QED BY <4>1
    <3> QED BY <1>2, <3>1, <3>2 DEF Carries
  <2>2. CASE ~ (j < l)
    <3>1. r[j] = q[j + 1] /\ j + 1 \in 1..Len(q)  BY <1>0, <2>2
    <3>2. ASSUME NEW i \in 1..(j - 1) PROVE r[i].n < r[j].n
      <4>1. i \in 1..Len(r) /\ i \in 1..((j + 1) - 1) /\ i + 1 \in 1..((j + 1) - 1)  BY <1>0
      <4>2. r[i] = q[i] \/ r[i] = q[i + 1]  BY <4>1
      <4>3. \A x \in 1..((j + 1) - 1) : q[x].n < q[j + 1].n  BY <1>2, <3>1 DEF Carries
      <4> QED BY <3>1, <4>1, <4>2, <4>3
    <3>3. r[j].n \in (k + 1)..n  BY <1>2, <3>1 DEF Carries
    <3> QED BY <3>2, <3>3
  <2> QED BY <2>1, <2>2
<1> QED BY <1>1, <1>2 DEF Carries

\* The first message of the queue, when it is a datum, is the next one.
LEMMA CarriesTail ==
    ASSUME NEW q \in Seq(Messages), NEW k \in Nat, NEW n \in Nat, q # <<>>, Head(q).n > 0,
           Carries(q, k, n)
    PROVE  Head(q).n = k + 1 /\ k + 1 <= n /\ Carries(Tail(q), k + 1, n)
<1> DEFINE r == Tail(q)
<1>1. /\ r \in Seq(Messages) /\ Len(r) = Len(q) - 1 /\ Len(q) \in Nat \ {0} /\ Head(q) = q[1]
      /\ \A j \in 1..Len(r) : r[j] = q[j + 1] /\ j + 1 \in 1..Len(q)
  BY TailElements
<1> HIDE DEF r
<1>2. 1 \in 1..Len(q) /\ q[1].n \in (k + 1)..n  BY <1>1 DEF Carries
<1>3. \A j \in 1..Len(q) : q[j].n > 0 /\ j # 1 => q[1].n < q[j].n
  <2> SUFFICES ASSUME NEW j \in 1..Len(q), q[j].n > 0, j # 1 PROVE q[1].n < q[j].n
    OBVIOUS
  <2>1. 1 \in 1..(j - 1)  OBVIOUS
  <2> QED BY <2>1 DEF Carries
<1>4. q[1].n = k + 1
  <2>1. k + 1 \in (k + 1)..n  BY <1>2
  <2>2. PICK j \in 1..Len(q) : q[j].n = k + 1  BY <2>1 DEF Carries
  <2>3. CASE j = 1  BY <2>2, <2>3
  <2>4. CASE j # 1
    <3>1. q[1].n < k + 1  BY <1>3, <2>2, <2>4
    <3> QED BY <1>2, <3>1
  <2> QED BY <2>3, <2>4
<1>5. \A d \in ((k + 1) + 1)..n : \E j \in 1..Len(r) : r[j].n = d
  <2> SUFFICES ASSUME NEW d \in ((k + 1) + 1)..n PROVE \E j \in 1..Len(r) : r[j].n = d
    OBVIOUS
  <2>1. d \in (k + 1)..n  OBVIOUS
  <2>2. PICK j \in 1..Len(q) : q[j].n = d  BY <2>1 DEF Carries
  <2>3. j # 1  BY <1>4, <2>2
  <2>4. j - 1 \in 1..Len(r) /\ (j - 1) + 1 = j  BY <1>1, <2>3
  <2>5. r[j - 1].n = d  BY <1>1, <2>2, <2>4
  <2> QED BY <2>4, <2>5
<1>6. ASSUME NEW j \in 1..Len(r), r[j].n > 0
      PROVE  r[j].n \in ((k + 1) + 1)..n /\ \A i \in 1..(j - 1) : r[i].n < r[j].n
  <2>1. r[j] = q[j + 1] /\ j + 1 \in 1..Len(q) /\ j + 1 # 1  BY <1>1
  <2>2. q[j + 1].n \in (k + 1)..n /\ q[1].n < q[j + 1].n  BY <1>3, <1>6, <2>1 DEF Carries
  <2>3. ASSUME NEW i \in 1..(j - 1) PROVE r[i].n < r[j].n
    <3>1. i \in 1..Len(r) /\ i + 1 \in 1..((j + 1) - 1)  BY <1>1
    <3>2. q[i + 1].n < q[j + 1].n  BY <1>6, <2>1, <3>1 DEF Carries
    <3> QED BY <1>1, <2>1, <3>1, <3>2
  <2> QED BY <1>4, <2>1, <2>2, <2>3
<1> QED BY <1>1, <1>2, <1>4, <1>5, <1>6 DEF Carries, r

\* Buffer, control queue and blocked message are one queue: to send is to
\* append to it.
LEMMA QueueOrder ==
    ASSUME NEW c \in Seq(Messages), NEW t \in Seq(Messages), NEW b \in Seq(Messages)
    PROVE  /\ c \o t \o b \in Seq(Messages)
           /\ \A m \in Messages : /\ c \o Append(t, m) \o <<>> = Append(c \o t \o <<>>, m)
                                  /\ c \o t \o <<m>> = Append(c \o t \o <<>>, m)
                                  /\ c \o Append(t, m) \o <<>> = c \o t \o <<m>>
           /\ t # <<>> => Append(c, Head(t)) \o Tail(t) \o b = c \o t \o b
           /\ (c \o t) \o <<>> \o b = c \o t \o b
<1>0. <<>> \in Seq(Messages) /\ c \o t \in Seq(Messages)  BY ConcatProperties
<1>1. c \o t \o b \in Seq(Messages)  BY <1>0, ConcatProperties
<1>2. (c \o t) \o <<>> = c \o t  BY <1>0, ConcatEmptySeq
<1>3. ASSUME NEW m \in Messages
      PROVE  /\ c \o Append(t, m) \o <<>> = Append(c \o t \o <<>>, m)
             /\ c \o t \o <<m>> = Append(c \o t \o <<>>, m)
  <2>1. <<m>> \in Seq(Messages)  OBVIOUS
  <2>2. Append(c \o t, m) = (c \o t) \o <<m>>  BY <1>0, AppendIsConcat
  <2>3. Append(t, m) = t \o <<m>> /\ Append(t, m) \in Seq(Messages)
    BY AppendIsConcat, AppendProperties
  <2>4. (c \o t) \o <<m>> = c \o (t \o <<m>>)  BY <2>1, ConcatAssociative
  <2>5. c \o Append(t, m) \in Seq(Messages)  BY <2>3, ConcatProperties
  <2>6. (c \o Append(t, m)) \o <<>> = c \o Append(t, m)  BY <2>5, ConcatEmptySeq
  <2> QED BY <1>2, <2>2, <2>3, <2>4, <2>6
<1>4. ASSUME t # <<>> PROVE Append(c, Head(t)) \o Tail(t) = c \o t
  <2> DEFINE h == Head(t)
             r == Tail(t)
  <2>1. h \in Messages /\ r \in Seq(Messages)  BY <1>4, HeadTailProperties
  <2>2. t = <<h>> \o r
    <3> DEFINE x == <<h>> \o r
    <3>1. <<h>> \in Seq(Messages) /\ Len(<<h>>) = 1 /\ <<h>>[1] = h  BY <2>1
    <3>2. /\ x \in Seq(Messages) /\ Len(x) = 1 + Len(r)
          /\ \A j \in 1..(1 + Len(r)) : x[j] = IF j <= 1 THEN <<h>>[j] ELSE r[j - 1]
      BY <2>1, <3>1, ConcatProperties
    <3>3. /\ Len(r) = Len(t) - 1 /\ Len(t) \in Nat \ {0} /\ h = t[1]
          /\ \A j \in 1..Len(r) : r[j] = t[j + 1]
      BY <1>4, TailElements
    <3> HIDE DEF x, h, r
    <3>4. ASSUME NEW j \in 1..Len(t) PROVE x[j] = t[j]
      <4>1. j \in 1..(1 + Len(r))  BY <3>3
      <4>2. CASE j <= 1
        <5>1. j = 1  BY <4>2
        <5> QED BY <3>1, <3>2, <3>3, <4>1, <5>1
      <4>3. CASE ~ (j <= 1)
        <5>1. j - 1 \in 1..Len(r) /\ (j - 1) + 1 = j  BY <3>3, <4>3
        <5> QED BY <3>2, <3>3, <4>1, <4>3, <5>1
      <4> QED BY <4>2, <4>3
    <3>5. Len(x) = Len(t)  BY <3>2, <3>3
    <3>6. x = t  BY <3>2, <3>4, <3>5, SeqEqual
    <3> QED BY <3>6 DEF x
  <2> HIDE DEF h, r
  <2>3. <<h>> \in Seq(Messages)  BY <2>1
  <2>4. (c \o <<h>>) \o r = c \o (<<h>> \o r)  BY <2>1, <2>3, ConcatAssociative
  <2>5. Append(c, h) = c \o <<h>>  BY <2>1, AppendIsConcat
  <2>6. Append(c, h) \o r = c \o t  BY <2>2, <2>4, <2>5
  <2> QED BY <2>6 DEF h, r
<1> QED BY <1>1, <1>2, <1>3, <1>4

\* Taking a message without a datum from the control queue loses no datum.
LEMMA DropSecond ==
    ASSUME NEW c \in Seq(Messages), NEW t \in Seq(Messages), NEW b \in Seq(Messages), t # <<>>,
           NEW k \in Nat, NEW n \in Nat, Carries(c \o t \o b, k, n), Head(t).n = 0
    PROVE  Carries(c \o Tail(t) \o b, k, n)
<1> DEFINE x == c \o t
           q == x \o b
           s == Tail(t)
           y == c \o s
           r == y \o b
           l == Len(c) + 1
<1>1. /\ s \in Seq(Messages) /\ Len(s) = Len(t) - 1 /\ Len(t) \in Nat \ {0} /\ Head(t) = t[1]
      /\ \A j \in 1..Len(s) : s[j] = t[j + 1]
  BY TailElements
<1>2. /\ x \in Seq(Messages) /\ Len(x) = Len(c) + Len(t) /\ Len(c) \in Nat
      /\ \A j \in 1..Len(c) + Len(t) : x[j] = IF j <= Len(c) THEN c[j] ELSE t[j - Len(c)]
  BY ConcatProperties, LenProperties
<1>3. /\ y \in Seq(Messages) /\ Len(y) = Len(c) + Len(s)
      /\ \A j \in 1..Len(c) + Len(s) : y[j] = IF j <= Len(c) THEN c[j] ELSE s[j - Len(c)]
  BY <1>1, ConcatProperties
<1> HIDE DEF s, x, y
<1>a. x \in Seq(Messages) /\ y \in Seq(Messages)  BY <1>2, <1>3
<1>4. /\ q \in Seq(Messages) /\ Len(q) = Len(x) + Len(b) /\ Len(b) \in Nat
      /\ \A j \in 1..Len(x) + Len(b) : q[j] = IF j <= Len(x) THEN x[j] ELSE b[j - Len(x)]
  BY <1>a, ConcatProperties, LenProperties
<1>5. /\ r \in Seq(Messages) /\ Len(r) = Len(y) + Len(b)
      /\ \A j \in 1..Len(y) + Len(b) : r[j] = IF j <= Len(y) THEN y[j] ELSE b[j - Len(y)]
  BY <1>a, ConcatProperties
<1>6. Carries(q, k, n)  BY DEF x
<1> HIDE DEF q, r
<1>7. l \in 1..Len(q) /\ l <= Len(x) /\ Len(r) = Len(q) - 1  BY <1>1, <1>2, <1>3, <1>4, <1>5
<1>8. q[l].n = 0
  <2>1. q[l] = x[l]  BY <1>4, <1>7
  <2>2. l \in 1..Len(c) + Len(t) /\ ~ (l <= Len(c)) /\ l - Len(c) = 1  BY <1>1, <1>2
  <2>3. x[l] = t[1]  BY <1>2, <2>2
  <2> QED BY <1>1, <2>1, <2>3
<1>9. ASSUME NEW j \in 1..Len(r) PROVE r[j] = IF j < l THEN q[j] ELSE q[j + 1]
  <2>0. /\ j \in 1..Len(y) + Len(b) /\ j \in 1..Len(x) + Len(b) /\ j + 1 \in 1..Len(x) + Len(b)
        /\ Len(x) = Len(y) + 1 /\ Len(y) \in Nat
    BY <1>1, <1>2, <1>3, <1>4, <1>5
  <2>1. CASE j <= Len(c)
    <3>1. /\ j <= Len(y) /\ j <= Len(x) /\ j \in 1..Len(c) + Len(s) /\ j \in 1..Len(c) + Len(t)
          /\ j < l
      BY <1>1, <1>2, <1>3, <2>1
    <3>2. r[j] = y[j] /\ q[j] = x[j]  BY <1>4, <1>5, <2>0, <3>1
    <3>3. y[j] = c[j] /\ x[j] = c[j]  BY <1>2, <1>3, <2>1, <3>1
    <3> QED BY <3>1, <3>2, <3>3
  <2>2. CASE ~ (j <= Len(c)) /\ j <= Len(y)
    <3>1. /\ j + 1 <= Len(x) /\ j \in 1..Len(c) + Len(s) /\ j + 1 \in 1..Len(c) + Len(t)
          /\ ~ (j < l) /\ ~ (j + 1 <= Len(c))
          /\ j - Len(c) \in 1..Len(s) /\ (j - Len(c)) + 1 = (j + 1) - Len(c)
      BY <1>1, <1>2, <1>3, <2>2
    <3>2. r[j] = y[j] /\ q[j + 1] = x[j + 1]  BY <1>4, <1>5, <2>0, <2>2, <3>1
    <3>3. y[j] = s[j - Len(c)]  BY <1>3, <2>2, <3>1
    <3>4. x[j + 1] = t[(j + 1) - Len(c)]  BY <1>2, <3>1
    <3>5. s[j - Len(c)] = t[(j + 1) - Len(c)]  BY <1>1, <3>1
    <3> QED BY <3>1, <3>2, <3>3, <3>4, <3>5
  <2>3. CASE ~ (j <= Len(y))
    <3>1. ~ (j + 1 <= Len(x)) /\ ~ (j < l) /\ j - Len(y) = (j + 1) - Len(x)
      BY <1>1, <1>2, <1>3, <2>0, <2>3
    <3>2. r[j] = b[j - Len(y)] /\ q[j + 1] = b[(j + 1) - Len(x)]
      BY <1>4, <1>5, <2>0, <2>3, <3>1
    <3> QED BY <3>1, <3>2
  <2>4. Len(c) <= Len(y)
    <3>1. Len(s) \in Nat  BY <1>1
    <3> QED BY <1>2, <1>3, <3>1
  <2> QED BY <1>2, <2>0, <2>1, <2>2, <2>3, <2>4
<1> HIDE DEF l
<1>10. Carries(r, k, n)  BY <1>4, <1>5, <1>6, <1>7, <1>8, <1>9, CarriesDrop
<1> QED BY <1>10 DEF r, y, s

\* The buffered messages are the first of that queue.
LEMMA TailFirst ==
    ASSUME NEW c \in Seq(Messages), NEW t \in Seq(Messages), NEW b \in Seq(Messages), c # <<>>
    PROVE  /\ c \o t \o b # <<>> /\ Head(c \o t \o b) = Head(c)
           /\ Tail(c) \o t \o b = Tail(c \o t \o b)
<1>1. ASSUME NEW q \in Seq(Messages), NEW r \in Seq(Messages), q # <<>>
      PROVE  q \o r # <<>> /\ Head(q \o r) = Head(q) /\ Tail(q) \o r = Tail(q \o r)
  <2> DEFINE x == q \o r
             s == Tail(q)
             y == s \o r
  <2>1. /\ x \in Seq(Messages) /\ Len(x) = Len(q) + Len(r) /\ Len(r) \in Nat
        /\ \A j \in 1..Len(q) + Len(r) : x[j] = IF j <= Len(q) THEN q[j] ELSE r[j - Len(q)]
    BY ConcatProperties, LenProperties
  <2>2. /\ s \in Seq(Messages) /\ Len(s) = Len(q) - 1 /\ Len(q) \in Nat \ {0} /\ Head(q) = q[1]
        /\ \A j \in 1..Len(s) : s[j] = q[j + 1]
    BY <1>1, TailElements
  <2>3. /\ y \in Seq(Messages) /\ Len(y) = Len(s) + Len(r)
        /\ \A j \in 1..Len(s) + Len(r) : y[j] = IF j <= Len(s) THEN s[j] ELSE r[j - Len(s)]
    BY <2>2, ConcatProperties
  <2>4. x # <<>>  BY <1>1, ConcatEqualIffEmpty
  <2> HIDE DEF x, s, y
  <2>5. Head(x) = x[1] /\ Len(Tail(x)) = Len(x) - 1 /\ Tail(x) \in Seq(Messages)
        /\ \A j \in 1..Len(Tail(x)) : Tail(x)[j] = x[j + 1]
    BY <2>1, <2>4, TailElements
  <2>6. x[1] = q[1]
    <3>1. 1 \in 1..Len(q) + Len(r) /\ 1 <= Len(q)  BY <2>1, <2>2
    <3> QED BY <2>1, <3>1
  <2>7. Len(y) = Len(Tail(x))  BY <2>1, <2>2, <2>3, <2>5
  <2>8. ASSUME NEW j \in 1..Len(y) PROVE y[j] = Tail(x)[j]
    <3>1. j \in 1..Len(s) + Len(r) /\ j + 1 \in 1..Len(q) + Len(r) /\ j \in 1..Len(Tail(x))
      BY <2>1, <2>2, <2>3, <2>7
    <3>2. CASE j <= Len(s)
      <4>1. j + 1 <= Len(q) /\ j \in 1..Len(s)  BY <2>2, <3>2
      <4> QED BY <2>1, <2>2, <2>3, <2>5, <3>1, <3>2, <4>1
    <3>3. CASE ~ (j <= Len(s))
      <4>1. ~ (j + 1 <= Len(q)) /\ j - Len(s) = (j + 1) - Len(q)  BY <2>2, <3>3
      <4> QED BY <2>1, <2>3, <2>5, <3>1, <3>3, <4>1
    <3> QED BY <3>2, <3>3
  <2>9. y = Tail(x)  BY <2>3, <2>5, <2>7, <2>8, SeqEqual
  <2> QED BY <2>2, <2>4, <2>5, <2>6, <2>9 DEF x, y, s
<1>2. c \o t \in Seq(Messages) /\ c \o t # <<>> /\ Head(c \o t) = Head(c) /\ Tail(c) \o t = Tail(c \o t)
  BY <1>1, ConcatProperties
<1> DEFINE x == c \o t
<1> HIDE DEF x
<1>3. x \o b # <<>> /\ Head(x \o b) = Head(x) /\ Tail(x) \o b = Tail(x \o b)
  BY <1>1, <1>2 DEF x
<1> QED BY <1>2, <1>3 DEF x

\* A step that leaves the queue and the history of the data alone.
LEMMA QuietReceipt ==
    ASSUME Receipt, Inbound' = Inbound, seen'.data = seen.data, seen'.handled = seen.handled,
           filters' = filters, main'.at = "init" => main.at = "init"
    PROVE  Receipt'
<1>1. ReceivedInOrder'  BY DEF Receipt, ReceivedInOrder, Inbound
<1>2. Untouched'  BY DEF Receipt, Untouched
<1> QED BY <1>1, <1>2 DEF Receipt

\* A message is put at the end of the queue.
LEMMA SendsReceipt ==
    ASSUME Ordered, Receipt, NEW m \in Messages, Inbound' = Append(Inbound, m),
           \/ m.n = 0 /\ seen'.data = seen.data
           \/ m.n = seen.data + 1 /\ seen'.data = seen.data + 1,
           seen'.handled = seen.handled
    PROVE  ReceivedInOrder'
<1> DEFINE k == Len(seen.handled)
<1>1. seen.data \in Nat /\ seen.handled \in Seq(Nat) /\ k \in Nat
  BY LenProperties DEF Ordered, Typed, Threads, Histories
<1>2. Inbound \in Seq(Messages)
  BY QueueOrder DEF Ordered, Typed, Threads, Queues, Reads, Inbound
<1>3. k <= seen.data /\ seen.handled = UpTo(k) /\ Carries(Inbound, k, seen.data)
  BY DEF Receipt, ReceivedInOrder, Inbound, UpTo
<1> HIDE DEF k
<1>4. Carries(Inbound', k, seen'.data)  BY <1>1, <1>2, <1>3, CarriesAppend
<1>5. k <= seen'.data  BY <1>1, <1>3
<1> QED BY <1>3, <1>4, <1>5 DEF ReceivedInOrder, Inbound, UpTo, k

\* A message that is no datum leaves the queue to the main thread.
LEMMA DropsReceipt ==
    ASSUME Ordered, Receipt, toMain # <<>>, Head(toMain).n = 0, toMain' = Tail(toMain),
           UNCHANGED <<control_buffer_, read, seen>>
    PROVE  ReceivedInOrder'
<1> DEFINE k == Len(seen.handled)
<1>1. seen.data \in Nat /\ k \in Nat
  BY LenProperties DEF Ordered, Typed, Threads, Histories
<1>2. control_buffer_ \in Seq(Messages) /\ toMain \in Seq(Messages) /\ read.blocked \in Seq(Messages)
  BY DEF Ordered, Typed, Threads, Queues, Reads
<1>3. k <= seen.data /\ seen.handled = UpTo(k) /\ Carries(control_buffer_ \o toMain \o read.blocked, k, seen.data)
  BY DEF Receipt, ReceivedInOrder, UpTo
<1> HIDE DEF k
<1>4. Carries(control_buffer_ \o Tail(toMain) \o read.blocked, k, seen.data)
  BY <1>1, <1>2, <1>3, DropSecond
<1> QED BY <1>3, <1>4 DEF ReceivedInOrder, UpTo, k

\* A datum the read thread passes on is the next one.
LEMMA ReadSendsReceipt ==
    ASSUME Ordered, Receipt, read.blocked = <<>>, NEW m \in Messages, ReadSends(m),
           UNCHANGED control_buffer_,
           \/ m.n = 0 /\ seen'.data = seen.data
           \/ m.n = seen.data + 1 /\ seen'.data = seen.data + 1,
           seen'.handled = seen.handled
    PROVE  ReceivedInOrder' /\ (main'.at = "init" => main.at = "init")
<1>1. /\ \/ toMain' = Append(toMain, m) /\ read'.blocked = <<>>
         \/ toMain' = toMain /\ read'.blocked = <<m>>
      /\ main'.at = main.at \/ (main.at = "waiting" /\ main'.at = "poll")
  BY ReadSendsEffect DEF Ordered, Typed, Threads, Queues, Limits
<1>2. toMain \in Seq(Messages) /\ control_buffer_ \in Seq(Messages) /\ <<>> \in Seq(Messages)
  BY DEF Ordered, Typed, Queues
<1>3. Inbound' = Append(Inbound, m)
  <2>1. /\ control_buffer_ \o Append(toMain, m) \o <<>> = Append(control_buffer_ \o toMain \o <<>>, m)
        /\ control_buffer_ \o toMain \o <<m>> = Append(control_buffer_ \o toMain \o <<>>, m)
    BY <1>2, QueueOrder
  <2>2. Inbound = control_buffer_ \o toMain \o <<>>  BY DEF Inbound
  <2>3. Inbound' = control_buffer_ \o toMain' \o read'.blocked  BY DEF Inbound
  <2>4. CASE toMain' = Append(toMain, m) /\ read'.blocked = <<>>  BY <2>1, <2>2, <2>3, <2>4
  <2>5. CASE toMain' = toMain /\ read'.blocked = <<m>>  BY <2>1, <2>2, <2>3, <2>5
  <2> QED BY <1>1, <2>4, <2>5
<1>4. ReceivedInOrder'  BY <1>3, SendsReceipt
<1> QED BY <1>1, <1>4

\* The read thread keeps the order of received data.
LEMMA ReadReceipt ==
    ASSUME Ordered, Receipt, ReadThread PROVE Receipt'
<1>0. /\ toMain \in Seq(Messages) /\ control_buffer_ \in Seq(Messages) /\ toRead \in Seq(Messages)
      /\ read \in Reads /\ main \in Mains /\ responses \in Seq(Responses)
      /\ seen \in Histories /\ read.blocked \in Seq(Messages) /\ <<>> \in Seq(Messages)
  BY DEF Ordered, Typed, Threads, Queues, Reads
<1>1. CASE Unblock
  <2> DEFINE m == Head(read.blocked)
  <2>1. /\ read.blocked # <<>> /\ toMain' = Append(toMain, m)
        /\ read' = [read EXCEPT !.blocked = <<>>]
        /\ main' = IF main.at = "waiting" THEN [main EXCEPT !.at = "poll"] ELSE main
        /\ UNCHANGED <<control_buffer_, filters, seen>>
    BY <1>1 DEF Unblock
  <2>2. read'.blocked = <<>>  BY <1>0, <2>1 DEF Reads
  <2>3. m \in Messages /\ read.blocked = <<m>>
    <3>1. Len(read.blocked) <= 1  BY DEF Ordered, Typed, Limits
    <3>2. m \in Messages /\ m = read.blocked[1] /\ Len(read.blocked) \in Nat \ {0}
      BY <1>0, <2>1, TailElements
    <3>3. Len(read.blocked) = 1
      <4>1. \A x \in Nat \ {0} : x <= 1 => x = 1  OBVIOUS
      <4> QED BY <3>1, <3>2, <4>1, Zenon
    <3>4. <<m>> \in Seq(Messages) /\ Len(<<m>>) = 1 /\ <<m>>[1] = m  BY <3>2
    <3>5. \A j \in 1..Len(read.blocked) : read.blocked[j] = <<m>>[j]
      BY <3>2, <3>3, <3>4
    <3>6. read.blocked = <<m>>  BY <1>0, <3>3, <3>4, <3>5, SeqEqual
    <3> QED BY <3>2, <3>6
  <2> HIDE DEF m
  <2>4. main'.at = "init" => main.at = "init"  BY <1>0, <2>1 DEF Mains
  <2>5. control_buffer_ \o Append(toMain, m) \o <<>> = control_buffer_ \o toMain \o <<m>>
    BY <1>0, <2>3, QueueOrder
  <2>6. Inbound' = Inbound  BY <2>1, <2>2, <2>3, <2>5 DEF Inbound
  <2> QED BY <2>1, <2>4, <2>6, QuietReceipt
<1>2. CASE manager_data
  <2> DEFINE m == Control("PUB_CONFIGURATION")
  <2>1. /\ read' = [read EXCEPT !.connected = TRUE] /\ toMain' = Append(toMain, m)
        /\ read.blocked = <<>>
        /\ UNCHANGED <<control_buffer_, filters, main, seen>>
    BY <1>2 DEF manager_data, Reading
  <2>2. m \in Messages /\ m.type = "PUB_CONFIGURATION"  BY MessageTypes DEF Types
  <2> HIDE DEF m
  <2>3. read'.blocked = <<>> /\ m.n = 0  BY <1>0, <2>1, <2>2, MessageNumber DEF Reads
  <2>4. control_buffer_ \o Append(toMain, m) \o <<>> = Append(control_buffer_ \o toMain \o <<>>, m)
    BY <1>0, <2>2, QueueOrder
  <2>5. Inbound' = Append(Inbound, m)  BY <2>1, <2>3, <2>4 DEF Inbound
  <2>6. ReceivedInOrder'  BY <2>1, <2>2, <2>3, <2>5, SendsReceipt
  <2> QED BY <2>1, <2>6 DEF Receipt, Untouched
<1>3. CASE NoResponse
  <2>1. /\ read' = [read EXCEPT !.alive = FALSE] /\ main' = [main EXCEPT !.at = "gone"]
        /\ UNCHANGED <<control, filters, seen>>
    BY <1>3 DEF NoResponse
  <2>2. read'.blocked = read.blocked /\ main'.at = "gone"  BY <1>0, <2>1 DEF Reads, Mains
  <2>3. Inbound' = Inbound  BY <2>1, <2>2 DEF Inbound, control
  <2> QED BY <2>1, <2>2, <2>3, QuietReceipt
<1>4. CASE subscribe_data
  <2>1. read.blocked = <<>> /\ UNCHANGED <<control_buffer_, filters>>
    BY <1>4 DEF subscribe_data, Reading
  <2>2. ASSUME NEW i \in Groups, Matches(i), seen' = [seen EXCEPT !.data = @ + 1],
               ReadSends([About("RECEIVE", i) EXCEPT !.n = seen.data + 1])
        PROVE  Receipt'
    <3> DEFINE m == [About("RECEIVE", i) EXCEPT !.n = seen.data + 1]
    <3>1. /\ seen'.data = seen.data + 1 /\ seen'.handled = seen.handled /\ seen.data + 1 \in Nat
      BY <1>0, <2>2 DEF Histories
    <3>2. m \in Messages /\ m.n = seen.data + 1  BY <3>1, ReceiveTypes, MessageNumber
    <3>3. ReadSends(m)  BY <2>2
    <3> HIDE DEF m
    <3>4. ReceivedInOrder' /\ (main'.at = "init" => main.at = "init")
      BY <2>1, <3>1, <3>2, <3>3, ReadSendsReceipt
    <3>5. main.at # "init"
      <4>1. i \in Filters /\ Slash \in Filters  BY DEF Filters, Ids
      <4>2. filters[i] # 0 \/ filters[Slash] # 0  BY <2>2, <4>1 DEF Matches
      <4> QED BY <4>1, <4>2 DEF Receipt, Untouched
    <3> QED BY <3>4, <3>5 DEF Receipt, Untouched
  <2>3. ASSUME responses # <<>>, UNCHANGED seen,
               IF Matches(ManagerResponse)
               THEN ReadSends([About("RECEIVE", ManagerResponse) EXCEPT
                                  !.client = Head(responses).client, !.hold = Head(responses).hold])
               ELSE UNCHANGED <<main, read, toMain>>
        PROVE  Receipt'
    <3> DEFINE r == Head(responses)
               m == [About("RECEIVE", ManagerResponse) EXCEPT !.client = r.client, !.hold = r.hold]
    <3>1. CASE Matches(ManagerResponse)
      <4>1. r \in Responses  BY <1>0, <2>3, TailElements
      <4>2. r.client \in Clients /\ r.hold \in BOOLEAN  BY <4>1 DEF Responses
      <4>3. m \in Messages /\ m.n = 0
        <5>1. m \in Messages  BY <4>2, ReceiveTypes
        <5>2. m.n = 0  BY MessageNumber
        <5> QED BY <5>1, <5>2
      <4>4. ReadSends(m)  BY <2>3, <3>1
      <4> HIDE DEF m, r
      <4>5. ReceivedInOrder' /\ (main'.at = "init" => main.at = "init")
        BY <2>1, <2>3, <4>3, <4>4, ReadSendsReceipt
      <4> QED BY <2>1, <2>3, <4>5 DEF Receipt, Untouched
    <3>2. CASE ~ Matches(ManagerResponse)
      <4>1. main' = main /\ read' = read /\ toMain' = toMain  BY <2>3, <3>2
      <4>2. Inbound' = Inbound  BY <2>1, <4>1 DEF Inbound
      <4> QED BY <2>1, <2>3, <4>1, <4>2, QuietReceipt
    <3> QED BY <3>1, <3>2
  <2> QED BY <1>4, <2>2, <2>3 DEF subscribe_data
<1>5. CASE RequestHoldState
  <2> DEFINE m == Control("REQUEST_HOLD_STATE")
  <2>1. m \in Messages /\ m.type = "REQUEST_HOLD_STATE"  BY MessageTypes DEF Types
  <2>2. read.blocked = <<>> /\ ReadSends(m) /\ UNCHANGED <<control_buffer_, filters, seen>>
    BY <1>5 DEF RequestHoldState, Reading
  <2> HIDE DEF m
  <2>3. m.n = 0  BY <2>1, MessageNumber
  <2>4. ReceivedInOrder' /\ (main'.at = "init" => main.at = "init")
    BY <2>1, <2>2, <2>3, ReadSendsReceipt
  <2> QED BY <2>2, <2>4 DEF Receipt, Untouched
<1>6. CASE control_data
  <2> DEFINE m == Head(toRead)
  <2>1. read.blocked = <<>> /\ toRead # <<>> /\ UNCHANGED <<control_buffer_, seen>>
    BY <1>6 DEF control_data, Reading
  <2>2. ASSUME NEW ack \in Messages, ack.n = 0, ReadSends(ack), m.type \in CallTypes PROVE Receipt'
    <3>1. ReceivedInOrder' /\ (main'.at = "init" => main.at = "init")
      BY <2>1, <2>2, ReadSendsReceipt
    <3>2. main.at = "ack"
      BY <1>0, <2>1, <2>2, CommandIsLast DEF Ordered, Requested
    <3> QED BY <3>1, <3>2 DEF Receipt, Untouched
  <2>3. ASSUME read'.blocked = read.blocked, UNCHANGED <<main, toMain, filters>> PROVE Receipt'
    <3>1. Inbound' = Inbound  BY <2>1, <2>3 DEF Inbound
    <3> QED BY <2>1, <2>3, <3>1, QuietReceipt
  <2>4. /\ Control("SUBSCRIBE_ACK") \in Messages /\ Control("SUBSCRIBE_ACK").n = 0
        /\ Control("UNSUBSCRIBE_ACK") \in Messages /\ Control("UNSUBSCRIBE_ACK").n = 0
    <3>1. \A type \in AckTypes : /\ Control(type) \in Messages
                                 /\ Control(type).type # "RECEIVE"
      BY MessageTypes DEF Types, AckTypes
    <3> QED BY <3>1, MessageNumber DEF AckTypes
  <2>5. \/ m.type = "SUBSCRIBE" /\ ReadSends(Control("SUBSCRIBE_ACK"))
        \/ m.type = "UNSUBSCRIBE" /\ ReadSends(Control("UNSUBSCRIBE_ACK"))
        \/ read' = [read EXCEPT !.hold = m.hold] /\ UNCHANGED <<main, toMain, filters>>
        \/ read' = [read EXCEPT !.alive = FALSE] /\ UNCHANGED <<main, toMain, filters>>
    BY <1>6 DEF control_data
  <2>6. CASE read' = [read EXCEPT !.hold = m.hold] /\ UNCHANGED <<main, toMain, filters>>
    BY <1>0, <2>3, <2>6 DEF Reads
  <2>7. CASE read' = [read EXCEPT !.alive = FALSE] /\ UNCHANGED <<main, toMain, filters>>
    BY <1>0, <2>3, <2>7 DEF Reads
  <2> QED BY <2>2, <2>4, <2>5, <2>6, <2>7 DEF CallTypes
<1> QED BY <1>1, <1>2, <1>3, <1>4, <1>5, <1>6 DEF ReadThread, ReadContinues

\* A call leaves the main thread initialised.
LEMMA CallPlace ==
    ASSUME main \in Mains, NEW todo, NEW back \in {"poll", "control"}, Call(todo, back)
    PROVE  main'.at # "init"
BY DEF Call, Mains

\* The operations on the books: the main thread goes on or calls.
LEMMA BooksPlace ==
    ASSUME main \in Mains, NEW back \in {"poll", "control"}
    PROVE  /\ \A i : _subscribe(i, back) \/ _unsubscribe(i, back) => main'.at # "init"
           /\ \A s : _subscribe_regex(s, back) \/ _unsubscribe_all(s, back) => main'.at # "init"
           /\ \A s, i : ForwardedSubscribe(s, i, back) \/ ForwardedUnsubscribe(s, i, back)
                           => main'.at # "init"
<1>1. ASSUME NEW todo, Call(todo, back) PROVE main'.at # "init"  BY <1>1, CallPlace
<1>2. \A i : _subscribe(i, back) => main'.at # "init"  BY <1>1 DEF _subscribe
<1>3. \A i : _unsubscribe(i, back) => main'.at # "init"  BY <1>1 DEF _unsubscribe
<1>4. \A s : _subscribe_regex(s, back) => main'.at # "init"  BY <1>1 DEF _subscribe_regex
<1>5. \A s : _unsubscribe_all(s, back) => main'.at # "init"  BY <1>1 DEF _unsubscribe_all
<1>6. \A s, i : ForwardedSubscribe(s, i, back) => main'.at # "init"  BY <1>1 DEF ForwardedSubscribe
<1>7. \A s, i : ForwardedUnsubscribe(s, i, back) => main'.at # "init"
  BY <1>1 DEF ForwardedUnsubscribe
<1> QED BY <1>2, <1>3, <1>4, <1>5, <1>6, <1>7

\* A control message is handled: a datum is the next one for the callbacks.
LEMMA HandleControlReceipt ==
    ASSUME Ordered, Receipt, HandleControl PROVE Receipt'
<1> DEFINE m == Head(control_buffer_)
           k == Len(seen.handled)
           n == seen.data
<1>0. /\ control_buffer_ \in Seq(Messages) /\ toMain \in Seq(Messages) /\ main \in Mains
      /\ read.blocked \in Seq(Messages) /\ seen \in Histories
      /\ n \in Nat /\ k \in Nat /\ seen.handled \in Seq(Nat)
  BY LenProperties DEF Ordered, Typed, Threads, Queues, Reads, Histories
<1>1. /\ main.at = "control" /\ control_buffer_ # <<>> /\ control_buffer_' = Tail(control_buffer_)
      /\ UNCHANGED <<read, toMain, filters>>
  BY DEF HandleControl
<1>2. m \in Messages /\ m.n \in Nat  BY <1>0, <1>1, TailElements, MessageNumber
<1>3. /\ Inbound \in Seq(Messages) /\ Inbound # <<>> /\ Head(Inbound) = m /\ Inbound' = Tail(Inbound)
  <2>1. /\ control_buffer_ \o toMain \o read.blocked \in Seq(Messages)
        /\ control_buffer_ \o toMain \o read.blocked # <<>>
        /\ Head(control_buffer_ \o toMain \o read.blocked) = m
        /\ Tail(control_buffer_) \o toMain \o read.blocked
              = Tail(control_buffer_ \o toMain \o read.blocked)
    BY <1>0, <1>1, QueueOrder, TailFirst
  <2>2. Inbound' = Tail(control_buffer_) \o toMain \o read.blocked  BY <1>1 DEF Inbound
  <2> QED BY <2>1, <2>2 DEF Inbound
<1>4. k <= n /\ seen.handled = UpTo(k) /\ Carries(Inbound, k, n)
  BY DEF Receipt, ReceivedInOrder, Inbound, UpTo
<1>5. /\ main'.at # "init"
      /\ seen'.data = n
      /\ seen'.handled = IF m.n > 0 THEN Append(seen.handled, m.n) ELSE seen.handled
  <2>1. CASE /\ m.type = "REQUEST_HOLD_STATE" /\ UNCHANGED <<main, seen>>
    <3>1. m.n = 0  BY <1>2, <2>1, MessageNumber
    <3> QED BY <1>1, <2>1, <3>1
  <2>2. CASE /\ IF m.id = ManagerResponse /\ portal_subscriptions_[m.id] > 0 THEN Respond(m)
                ELSE main' = [main EXCEPT !.items = TRUE]
             /\ \E x : seen' = [seen EXCEPT
                  !.handled = IF m.n > 0 THEN Append(@, m.n) ELSE @, !.dead = x]
    <3>1. /\ seen'.data = n
          /\ seen'.handled = IF m.n > 0 THEN Append(seen.handled, m.n) ELSE seen.handled
      BY <1>0, <2>2 DEF Histories
    <3>2. main'.at # "init"
      <4>1. CASE m.id = ManagerResponse /\ portal_subscriptions_[m.id] > 0
        <5>1. \E todo : main' = [main EXCEPT !.items = TRUE, !.todo = todo,
                                    !.back = IF todo = <<>> THEN "poll" ELSE "control",
                                    !.at = IF todo = <<>> THEN "control" ELSE "call"]
          BY <2>2, <4>1 DEF Respond
        <5> QED BY <1>0, <5>1 DEF Mains
      <4>2. CASE ~ (m.id = ManagerResponse /\ portal_subscriptions_[m.id] > 0)
        BY <1>0, <1>1, <2>2, <4>2 DEF Mains
      <4> QED BY <4>1, <4>2
    <3> QED BY <3>1, <3>2
  <2> QED BY <2>1, <2>2 DEF HandleControl
<1> HIDE DEF m, k, n
<1>6. CASE m.n > 0
  <2>1. m.n = k + 1 /\ k + 1 <= n /\ Carries(Inbound', k + 1, n)
    BY <1>0, <1>3, <1>4, <1>6, CarriesTail
  <2>2. seen'.handled = UpTo(k + 1)  BY <1>0, <1>4, <1>5, <1>6, <2>1, UpToNext
  <2>3. Len(seen'.handled) = k + 1
    <3>1. seen'.handled = Append(seen.handled, m.n)  BY <1>5, <1>6
    <3>2. Len(Append(seen.handled, m.n)) = Len(seen.handled) + 1  BY <1>0, <1>2, AppendProperties
    <3> QED BY <3>1, <3>2 DEF k
  <2>4. ReceivedInOrder'  BY <1>5, <2>1, <2>2, <2>3 DEF ReceivedInOrder, Inbound, UpTo
  <2> QED BY <1>5, <2>4 DEF Receipt, Untouched
<1>7. CASE ~ (m.n > 0)
  <2>1. m.n = 0  BY <1>2, <1>7
  <2>2. /\ 1 \in 1..Len(Inbound) /\ Inbound[1].n = 0 /\ Inbound' \in Seq(Messages)
        /\ Len(Inbound') = Len(Inbound) - 1
        /\ \A j \in 1..Len(Inbound') : Inbound'[j] = Inbound[j + 1]
    BY <1>3, <2>1, TailElements
  <2>3. \A j \in 1..Len(Inbound') : Inbound'[j] = IF j < 1 THEN Inbound[j] ELSE Inbound[j + 1]
    <3>1. \A j \in 1..Len(Inbound') : ~ (j < 1)  BY <2>2, LenProperties
    <3> QED BY <2>2, <3>1
  <2>4. Carries(Inbound', k, n)  BY <1>0, <1>3, <1>4, <2>2, <2>3, CarriesDrop
  <2>5. seen'.handled = seen.handled  BY <1>5, <1>7
  <2>6. ReceivedInOrder'  BY <1>4, <1>5, <2>4, <2>5 DEF ReceivedInOrder, Inbound, UpTo, k
  <2> QED BY <1>5, <2>6 DEF Receipt, Untouched
<1> QED BY <1>6, <1>7

\* The main thread, which may set data aside while it waits for an ack,
\* keeps their order.
LEMMA MainReceipt ==
    ASSUME Ordered, Receipt, MainContinues PROVE Receipt'
<1>0. /\ toMain \in Seq(Messages) /\ control_buffer_ \in Seq(Messages) /\ main \in Mains
      /\ read.blocked \in Seq(Messages) /\ seen \in Histories /\ seen.data \in Nat
      /\ main.back \in {"poll", "control"}
  BY DEF Ordered, Typed, Threads, Queues, Reads, Mains, Histories
<1>1. ASSUME UNCHANGED <<read, toMain, control_buffer_, filters>>,
             seen'.data = seen.data, seen'.handled = seen.handled, main'.at = "init" => main.at = "init"
      PROVE  Receipt'
  <2>1. Inbound' = Inbound  BY <1>1 DEF Inbound
  <2> QED BY <1>1, <2>1, QuietReceipt
<1>2. CASE SendControl
  <2>1. /\ UNCHANGED <<read, toMain, control_buffer_, filters, seen>>
        /\ main' = [main EXCEPT !.at = "ack"] \/ Call(Tail(main.todo), main.back)
    BY <1>2 DEF SendControl
  <2>2. main'.at # "init"
    <3>1. CASE main' = [main EXCEPT !.at = "ack"]  BY <1>0, <3>1 DEF Mains
    <3>2. CASE Call(Tail(main.todo), main.back)  BY <1>0, <3>2, CallPlace
    <3> QED BY <2>1, <3>1, <3>2
  <2> QED BY <1>1, <2>1, <2>2
<1>3. CASE RecvAck
  <2> DEFINE m == Head(toMain)
  <2>1. /\ main.at = "ack" /\ toMain # <<>> /\ toMain' = Tail(toMain)
        /\ UNCHANGED <<read, filters, seen>>
        /\ \/ /\ Acks(m, Head(main.todo)) /\ Call(Tail(main.todo), main.back)
              /\ control_buffer_' = control_buffer_
           \/ control_buffer_' = Append(control_buffer_, m) /\ main' = main
    BY <1>3 DEF RecvAck, KeepForLater
  <2>2. CASE /\ Acks(m, Head(main.todo)) /\ Call(Tail(main.todo), main.back)
             /\ control_buffer_' = control_buffer_
    <3>1. m \in Messages  BY <1>0, <2>1, TailElements
    <3>2. m.type # "RECEIVE"  BY <2>2 DEF Acks
    <3>3. m.n = 0  BY <3>1, <3>2, MessageNumber
    <3>4. main'.at # "init"  BY <1>0, <2>2, CallPlace
    <3>5. ReceivedInOrder'  BY <2>1, <2>2, <3>3, DropsReceipt
    <3> QED BY <3>4, <3>5 DEF Receipt, Untouched
  <2>3. CASE control_buffer_' = Append(control_buffer_, m) /\ main' = main
    <3>1. Append(control_buffer_, m) \o Tail(toMain) \o read.blocked
             = control_buffer_ \o toMain \o read.blocked
      BY <1>0, <2>1, QueueOrder
    <3>2. Inbound' = Inbound  BY <2>1, <2>3, <3>1 DEF Inbound
    <3> QED BY <2>1, <2>3, <3>2, QuietReceipt
  <2> QED BY <2>1, <2>2, <2>3
<1>4. CASE set_publish_cfg
  <2> DEFINE m == Head(toMain)
  <2>1. /\ main.at = "init" /\ toMain # <<>> /\ toMain' = Tail(toMain)
        /\ UNCHANGED <<read, control_buffer_, filters, seen>>
    BY <1>4 DEF set_publish_cfg
  <2>2. m.n = 0
    <3> DEFINE q == control_buffer_ \o toMain
               x == q \o read.blocked
               l == Len(control_buffer_) + 1
    <3>1. m = toMain[1] /\ m \in Messages /\ Len(toMain) \in Nat \ {0}
      BY <1>0, <2>1, TailElements
    <3>2. /\ q \in Seq(Messages) /\ Len(q) = Len(control_buffer_) + Len(toMain)
          /\ Len(control_buffer_) \in Nat
          /\ \A j \in 1..Len(control_buffer_) + Len(toMain) :
                q[j] = IF j <= Len(control_buffer_) THEN control_buffer_[j]
                       ELSE toMain[j - Len(control_buffer_)]
      BY <1>0, ConcatProperties, LenProperties
    <3>3. l \in 1..Len(q) /\ ~ (l <= Len(control_buffer_)) /\ l - Len(control_buffer_) = 1
      BY <3>1, <3>2
    <3>4. q[l] = m  BY <3>1, <3>2, <3>3
    <3>5. q \in Seq(Messages) /\ Len(q) \in Nat  BY <3>2, LenProperties
    <3> HIDE DEF q, l
    <3>6. /\ x \in Seq(Messages) /\ Len(x) = Len(q) + Len(read.blocked)
          /\ \A j \in 1..Len(q) : x[j] = q[j]
          /\ Len(read.blocked) \in Nat
      BY <1>0, <3>5, ConcatElements
    <3>7. l \in 1..Len(x) /\ x[l] = m  BY <3>3, <3>4, <3>5, <3>6
    <3>8. Carries(x, Len(seen.handled), 0)
      BY <2>1 DEF Receipt, Untouched, ReceivedInOrder, q
    <3>9. Len(seen.handled) \in Nat
      <4>1. seen.handled \in Seq(Nat)  BY <1>0 DEF Histories
      <4> QED BY <4>1, LenProperties
    <3>10. (Len(seen.handled) + 1)..0 = {}  BY <3>9
    <3>11. ~ (m.n > 0)  BY <3>7, <3>8, <3>10 DEF Carries
    <3>12. m.n \in Nat  BY <3>1, MessageNumber
    <3> QED BY <3>11, <3>12
  <2>3. ReceivedInOrder'  BY <2>1, <2>2, DropsReceipt
  <2> QED BY <2>1, <2>3 DEF Receipt, Untouched
<1>5. ASSUME NEW kind \in Kinds, TakeMail(kind) PROVE Receipt'
  <2> DEFINE d == Head(mail[kind])
  <2>1. main.at = "poll" /\ UNCHANGED <<read, control, filters>>  BY <1>5 DEF TakeMail
  <2>2. \/ seen' = [seen EXCEPT !.published = @ + 1] /\ main' = main
        \/ ForwardedSubscribe(d.from, d.id, "poll") /\ seen' = seen
        \/ ForwardedUnsubscribe(d.from, d.id, "poll") /\ seen' = seen
        \/ _subscribe_regex(d.from, "poll") /\ seen' = seen
        \/ _unsubscribe_all(d.from, "poll") /\ seen' = seen
    BY <1>5 DEF TakeMail
  <2>3. seen'.data = seen.data /\ seen'.handled = seen.handled  BY <1>0, <2>2 DEF Histories
  <2>4. main'.at # "init"
    <3> HIDE DEF d
    <3>1. "poll" \in {"poll", "control"}  OBVIOUS
    <3> QED BY <1>0, <2>1, <2>2, <3>1, BooksPlace
  <2> QED BY <1>1, <2>1, <2>3, <2>4 DEF control
<1>6. CASE PollControl
  <2>1. /\ control_buffer_' = control_buffer_ \o toMain /\ toMain' = <<>>
        /\ main' = [main EXCEPT !.at = "control", !.items = FALSE]
        /\ UNCHANGED <<read, filters, seen>>
    BY <1>6 DEF PollControl
  <2>2. (control_buffer_ \o toMain) \o <<>> \o read.blocked = control_buffer_ \o toMain \o read.blocked
    BY <1>0, QueueOrder
  <2>3. Inbound' = Inbound  BY <2>1, <2>2 DEF Inbound
  <2>4. main'.at # "init"  BY <1>0, <2>1 DEF Mains
  <2> QED BY <2>1, <2>3, <2>4, QuietReceipt
<1>7. CASE EndPoll \/ Wait \/ Timeout \/ Join
  <2>1. UNCHANGED <<read, control, filters, seen>>
    BY <1>7 DEF EndPoll, Wait, Timeout, Join
  <2>2. main'.at # "init"
    <3>1. \/ main' = [main EXCEPT !.at = "poll", !.items = FALSE]
          \/ main' = [main EXCEPT !.at = "limbo", !.items = FALSE]
          \/ \E place \in {"waiting", "poll", "gone"} : main' = [main EXCEPT !.at = place]
      BY <1>7 DEF EndPoll, Wait, Timeout, Join
    <3> QED BY <1>0, <3>1 DEF Mains
  <2> QED BY <1>1, <2>1, <2>2 DEF control
<1> QED BY <1>2, <1>3, <1>4, <1>5, <1>6, <1>7, HandleControlReceipt DEF MainContinues

\* Manager, application and forwarders do not touch received data.
LEMMA OthersReceipt ==
    ASSUME Ordered, Receipt, Manager \/ Application \/ \E s \in Forwarders : Forwarder(s)
    PROVE  Receipt'
<1>0. seen \in Histories /\ main \in Mains  BY DEF Ordered, Typed, Threads
<1>1. ASSUME UNCHANGED <<read, toMain, control_buffer_, filters>>,
             seen'.data = seen.data, seen'.handled = seen.handled, main'.at = "init" => main.at = "init"
      PROVE  Receipt'
  <2>1. Inbound' = Inbound  BY <1>1 DEF Inbound
  <2> QED BY <1>1, <2>1, QuietReceipt
<1>2. CASE Manager
  <2>1. UNCHANGED <<read, control, filters, main, seen>>
    BY <1>2 DEF Manager, handle_request, LoseRequest, OtherRequest
  <2> QED BY <1>1, <2>1 DEF control
<1>3. ASSUME NEW i \in Groups, Subscribe(i) \/ Unsubscribe(i) PROVE Receipt'
  <2>1. /\ seen' = [seen EXCEPT !.calls = @ + 1] /\ main.at \in {"poll", "control"}
        /\ UNCHANGED <<read, control, filters>>
        /\ _subscribe(i, main.at) \/ _unsubscribe(i, main.at)
    BY <1>3 DEF Subscribe, Unsubscribe, Counted, Working, AtWork
  <2>2. main'.at # "init"  BY <1>0, <2>1, BooksPlace
  <2>3. seen'.data = seen.data /\ seen'.handled = seen.handled  BY <1>0, <2>1 DEF Histories
  <2> QED BY <1>1, <2>1, <2>2, <2>3 DEF control
<1>4. CASE SubscribeRegex \/ UnsubscribeAll
  <2>1. /\ \/ seen' = [seen EXCEPT !.calls = @ + 1]
           \/ seen' = [seen EXCEPT !.calls = @ + 1, !.cut = @ \/ hold_]
        /\ main.at \in {"poll", "control"}
        /\ UNCHANGED <<read, control, filters>>
        /\ _subscribe_regex(Portal, main.at) \/ _unsubscribe_all(Portal, main.at)
    BY <1>4 DEF SubscribeRegex, UnsubscribeAll, Counted, Working, AtWork
  <2>2. main'.at # "init"  BY <1>0, <2>1, BooksPlace
  <2>3. seen'.data = seen.data /\ seen'.handled = seen.handled  BY <1>0, <2>1 DEF Histories
  <2> QED BY <1>1, <2>1, <2>2, <2>3 DEF control
<1>5. CASE Publish \/ ready
  <2>1. /\ seen' = seen \/ seen' = [seen EXCEPT !.published = @ + 1]
        /\ UNCHANGED <<main, read, control, filters>>
    BY <1>5 DEF Publish, ready
  <2>2. seen'.data = seen.data /\ seen'.handled = seen.handled  BY <1>0, <2>1 DEF Histories
  <2> QED BY <1>1, <2>1, <2>2 DEF control
<1>6. CASE Shutdown
  <2>1. /\ main' = [main EXCEPT !.at = "joining"]
        /\ UNCHANGED <<read, toMain, control_buffer_, filters, seen>>
    BY <1>6 DEF Shutdown
  <2>2. main'.at # "init"  BY <1>0, <2>1 DEF Mains
  <2> QED BY <1>1, <2>1, <2>2
<1>7. ASSUME NEW s \in Forwarders, Forwarder(s) PROVE Receipt'
  <2>1. /\ UNCHANGED <<read, control, filters>>
        /\ main' = main \/ (main.at = "waiting" /\ main' = [main EXCEPT !.at = "poll"])
        /\ seen' = seen \/ seen' = [seen EXCEPT !.forwarded = @ + 1]
    BY <1>7 DEF Forwarder, ForwarderCalls, ForwarderLeaves, ForwarderGone, ToPortal
  <2>2. seen'.data = seen.data /\ seen'.handled = seen.handled  BY <1>0, <2>1 DEF Histories
  <2>3. main'.at = "init" => main.at = "init"  BY <1>0, <2>1 DEF Mains
  <2> QED BY <1>1, <2>1, <2>2, <2>3 DEF control
<1> QED BY <1>2, <1>3, <1>4, <1>5, <1>6, <1>7 DEF Application

\* What the read thread receives through the SUB socket reaches the callbacks,
\* once and in order: through a full control queue, past the acks that
\* subscribe() and unsubscribe() wait for, and through control_buffer_.
THEOREM AlwaysReceivedInOrder == Spec => []ReceivedInOrder
<1>1. Init => Receipt
  <2> SUFFICES ASSUME Init PROVE Receipt
    OBVIOUS
  <2>1. /\ control_buffer_ = <<>> /\ toMain = <<>> /\ read.blocked = <<>>
        /\ seen.handled = <<>> /\ seen.data = 0
    BY DEF Init
  <2>2. /\ <<>> \o <<>> \o <<>> = <<>> /\ Len(<<>>) = 0 /\ 1..0 = {} /\ (0 + 1)..0 = {}
        /\ [d \in 1..0 |-> d] = <<>>
    OBVIOUS
  <2>3. Carries(<<>>, 0, 0)  BY <2>2 DEF Carries
  <2>4. ReceivedInOrder  BY <2>1, <2>2, <2>3 DEF ReceivedInOrder
  <2>5. Untouched  BY DEF Init, Untouched
  <2> QED BY <2>4, <2>5 DEF Receipt
<1>2. Sound /\ Receipt /\ [Next]_vars => Receipt'
  <2> SUFFICES ASSUME Sound, Receipt, [Next]_vars PROVE Receipt'
    OBVIOUS
  <2>0. Ordered  BY DEF Sound, Ordered
  <2>1. CASE ReadThread  BY <2>0, <2>1, ReadReceipt
  <2>2. CASE MainContinues  BY <2>0, <2>2, MainReceipt
  <2>3. CASE Manager \/ Application \/ \E s \in Forwarders : Forwarder(s)
    BY <2>0, <2>3, OthersReceipt
  <2>4. CASE UNCHANGED vars
    <3>1. Inbound' = Inbound  BY <2>4 DEF Inbound, vars, control
    <3> QED BY <2>4, <3>1, QuietReceipt DEF vars
  <2> QED BY <2>1, <2>2, <2>3, <2>4 DEF Next
<1>3. Receipt => ReceivedInOrder  BY DEF Receipt
<1> QED BY <1>1, <1>2, <1>3, AlwaysSound, PTL DEF Spec
=============================================================================

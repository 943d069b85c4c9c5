------------------------- MODULE InterVehiclePortal -------------------------
(***************************************************************************)
(* goby::middleware::InterVehiclePortal (middleware/transport/             *)
(* intervehicle.h) of one process with its modem driver threads (links),   *)
(* and the file in which it keeps the subscriptions of other vehicles      *)
(* between restarts (persist_subscriptions).                               *)
(*                                                                         *)
(* A subscription of another vehicle arrives at a link, goes to the portal *)
(* (modem_data_in), from there to all links (modem_subscription_forward_rx)*)
(* and is taken up by the link whose subnet the subscriber is in.  Each    *)
(* time the link reports all it has (subscription_report), and the portal  *)
(* writes what all links have reported to the file.  After a restart the   *)
(* file is read, removed, and replayed when all links are ready.           *)
(*                                                                         *)
(* A subscription is a subscriber, a buffer id and a configuration; what a *)
(* link does with it is the subject of module ModemDriverThread.           *)
(***************************************************************************)
EXTENDS Integers, Sequences, SequencesExt, FiniteSets

CONSTANTS
    Links,          \* modem ids of the links
    Subscriptions,  \* that other vehicles may make
    LinkOf,         \* [Subscriptions -> Links], the subnet of the subscriber
    MaxRadio,       \* bound: messages of other vehicles
    MaxCrashes      \* bound: crashes of the process

ASSUME PersistAssumption ==
    /\ Links # {} /\ IsFiniteSet(Links) /\ IsFiniteSet(Subscriptions)
    /\ LinkOf \in [Subscriptions -> Links]

Actions == {"SUBSCRIBE", "UNSUBSCRIBE"}

VARIABLES
    file,      \* the subscriptions in the file
    portal,    \* the main thread: where it is and where it goes from a write,
               \* former_sub_collection_, drivers_ready_ and sub_reports_
    link,      \* [Links -> "starting", "subscribed" to the portal, or "ready"]
    accepted,  \* [Links -> SUBSET Subscriptions], subscriber_buffer_cfg_
    ready,     \* number of modem_driver_ready in the portal's mailbox
    data_in,   \* the portal's mailbox of received messages
    received_, \* those that wait for the outer poll
    rx,        \* [Links -> Seq], mailboxes of modem_subscription_forward_rx
    reports,   \* the portal's mailbox of subscription reports
    world      \* history: what the other vehicles want, which of it may
               \* differ after a crash, and the messages and crashes so far

mailboxes == <<ready, data_in, received_, rx, reports>>
vars == <<file, portal, link, accepted, mailboxes, world>>

Start == [at |-> "start", back |-> "init", former |-> {}, drivers_ready |-> 0,
          sub_reports |-> [l \in Links |-> {}]]

NoMail ==
    /\ ready = 0
    /\ data_in = <<>> /\ received_ = <<>> /\ reports = <<>>
    /\ rx = [l \in Links |-> <<>>]

Init ==
    /\ file = {}
    /\ portal = Start
    /\ link = [l \in Links |-> "starting"]
    /\ accepted = [l \in Links |-> {}]
    /\ NoMail
    /\ world = [wanted |-> {}, excused |-> {}, radio |-> 0, crashes |-> 0]

-----------------------------------------------------------------------------
(* The links. *)

\* The constructor of ModemDriverThread subscribes to the portal ...
Construct(l) ==
    /\ portal.at # "start"
    /\ link[l] = "starting"
    /\ link' = [link EXCEPT ![l] = "subscribed"]
    /\ UNCHANGED <<file, portal, accepted, mailboxes, world>>

DriverReady_Repeats(l) ==
    /\ link[l] = "subscribed"
    /\ ready < Cardinality(Links)
    /\ ready' = ready + 1
    /\ \/ link' = [link EXCEPT ![l] = "ready"]
       \/ UNCHANGED link
    /\ UNCHANGED <<file, portal, accepted, data_in, received_, rx, reports, world>>

\* ... and says so when the driver has started.
DriverReady(l) ==
    /\ link[l] = "subscribed"
    /\ link' = [link EXCEPT ![l] = "ready"]
    /\ ready' = ready + 1
    /\ UNCHANGED <<file, portal, accepted, data_in, received_, rx, reports, world>>

\* _accept_subscription() of the next forwarded message.
_accept_subscription(l) ==
    /\ link[l] = "ready"
    /\ rx[l] # <<>>
    /\ rx' = [rx EXCEPT ![l] = Tail(@)]
    /\ LET m == Head(rx[l])
       IN  IF LinkOf[m.subscription] # l THEN UNCHANGED <<accepted, reports>>
           ELSE /\ accepted' = [accepted EXCEPT ![l] =
                      IF m.action = "SUBSCRIBE" THEN @ \cup {m.subscription}
                      ELSE @ \ {m.subscription}]
                /\ reports' = Append(reports, [link |-> l, subscriptions |-> accepted'[l]])
    /\ UNCHANGED <<file, portal, link, ready, data_in, received_, world>>

\* A message of another vehicle arrives and is acknowledged.  An unsubscription
\* may reach its link before the subscription is replayed, and is then undone.
_receive(s, action) ==
    /\ link[LinkOf[s]] = "ready"
    /\ world.radio < MaxRadio
    /\ data_in' = Append(data_in, [subscription |-> s, action |-> action])
    /\ world' = [world EXCEPT
          !.radio = @ + 1,
          !.wanted = IF action = "SUBSCRIBE" THEN @ \cup {s} ELSE @ \ {s},
          !.excused = IF action = "UNSUBSCRIBE" /\ s \in portal.former /\ portal.back = "init"
                      THEN @ \cup {s} ELSE @ \ {s}]
    /\ UNCHANGED <<file, portal, link, accepted, ready, received_, rx, reports>>

-----------------------------------------------------------------------------
(* The main thread of the portal. *)

\* _set_up_persistent_subscriptions(): the file is read, emptied and removed;
\* then the links are started.
_set_up_persistent_subscriptions ==
    /\ portal.at = "start"
    /\ portal' = [portal EXCEPT !.at = "init", !.former = file]
    /\ file' = {}
    /\ UNCHANGED <<link, accepted, mailboxes, world>>

Polling == portal.at \in {"init", "running"}

PollReady ==
    /\ Polling
    /\ ready > 0
    /\ ready' = ready - 1
    /\ portal' = [portal EXCEPT !.drivers_ready = @ + 1]
    /\ UNCHANGED <<file, link, accepted, data_in, received_, rx, reports, world>>

PollData ==
    /\ Polling
    /\ data_in # <<>>
    /\ data_in' = Tail(data_in)
    /\ received_' = Append(received_, Head(data_in))
    /\ UNCHANGED <<file, portal, link, accepted, ready, rx, reports, world>>

Noted_Alone(r) == [l \in Links |-> IF l = r.link THEN r.subscriptions ELSE {}]

\* sub_reports_ with a new report.
Noted(r) == [portal.sub_reports EXCEPT ![r.link] = r.subscriptions]

\* A subscription report: opening the file for writing empties it ...
PollReport ==
    /\ Polling
    /\ reports # <<>>
    /\ reports' = Tail(reports)
    /\ portal' = [portal EXCEPT !.sub_reports = Noted(Head(reports)),
                                !.at = "writing", !.back = portal.at]
    /\ file' = {}
    /\ UNCHANGED <<link, accepted, ready, data_in, received_, rx, world>>

Collection == UNION {portal.sub_reports[l] : l \in Links}

\* ... and then the collection of all reports is printed.
PrintCollection ==
    /\ portal.at = "writing"
    /\ file' = Collection
    /\ portal' = [portal EXCEPT !.at = portal.back]
    /\ UNCHANGED <<link, accepted, mailboxes, world>>

\* publish() of forwarded subscriptions reaches the links that have subscribed.
Forwarded(messages) ==
    [l \in Links |-> IF link[l] = "starting" THEN rx[l] ELSE rx[l] \o messages]

\* _poll(), only if the inner poller had nothing: all of received_ is forwarded.
_poll ==
    /\ Polling
    /\ ready = 0 /\ data_in = <<>> /\ reports = <<>>
    /\ received_ # <<>>
    /\ received_' = <<>>
    /\ rx' = Forwarded(received_)
    /\ UNCHANGED <<file, portal, link, accepted, ready, data_in, reports, world>>

DriversReady_AnyOne == portal.drivers_ready > 0

DriversReady_OneMore == portal.drivers_ready > Cardinality(Links)

\* drivers_ready_ < modem_drivers_.size() no more.
DriversReady == portal.drivers_ready >= Cardinality(Links)

\* The end of _init(): the former subscriptions are replayed.
Replay ==
    /\ portal.at = "init"
    /\ DriversReady
    /\ portal' = [portal EXCEPT !.at = "running", !.back = "running"]
    /\ rx' = Forwarded([j \in 1..Cardinality(portal.former) |->
                          [subscription |-> SetToSeq(portal.former)[j], action |-> "SUBSCRIBE"]])
    /\ UNCHANGED <<file, link, accepted, ready, data_in, received_, reports, world>>

\* The process crashes, or is ended (the destructor writes nothing), and starts
\* again.  Of a file that is being written any part may be left.
Crash ==
    /\ portal.at # "start"
    /\ world.crashes < MaxCrashes
    /\ file' \in IF portal.at = "writing" THEN SUBSET Collection ELSE {file}
    /\ world' = [world EXCEPT !.crashes = @ + 1,
                              !.excused = (world.wanted \ file') \cup (file' \ world.wanted)]
    /\ portal' = Start
    /\ link' = [l \in Links |-> "starting"]
    /\ accepted' = [l \in Links |-> {}]
    /\ ready' = 0 /\ data_in' = <<>> /\ received_' = <<>> /\ reports' = <<>>
    /\ rx' = [l \in Links |-> <<>>]

-----------------------------------------------------------------------------
MainThread == \/ _set_up_persistent_subscriptions \/ Replay \/ PrintCollection
              \/ PollReady \/ PollData \/ PollReport \/ _poll

Link(l) == Construct(l) \/ DriverReady(l) \/ _accept_subscription(l)

Next == \/ MainThread
        \/ \E l \in Links : Link(l)
        \/ \E s \in Subscriptions, action \in Actions : _receive(s, action)
        \/ Crash

Spec == Init /\ [][Next]_vars

\* The threads are scheduled, the application polls, and the drivers start up.
FairSpec == Spec /\ WF_vars(MainThread) /\ \A l \in Links : WF_vars(Link(l))

-----------------------------------------------------------------------------
(* Properties. *)

Messages == [subscription : Subscriptions, action : Actions]

TypeOK ==
    /\ file \subseteq Subscriptions
    /\ portal \in [at : {"start", "init", "running", "writing"}, back : {"init", "running"},
                   former : SUBSET Subscriptions, drivers_ready : 0..Cardinality(Links),
                   sub_reports : [Links -> SUBSET Subscriptions]]
    /\ link \in [Links -> {"starting", "subscribed", "ready"}]
    /\ accepted \in [Links -> SUBSET Subscriptions]
    /\ ready \in Nat
    /\ data_in \in Seq(Messages) /\ received_ \in Seq(Messages)
    /\ rx \in [Links -> Seq(Messages)]
    /\ reports \in Seq([link : Links, subscriptions : SUBSET Subscriptions])
    /\ world \in [wanted : SUBSET Subscriptions, excused : SUBSET Subscriptions,
                  radio : Nat, crashes : Nat]

\* Nothing is on its way within the process.
Settled == portal.at = "running" /\ NoMail

Accepted == UNION {accepted[l] : l \in Links}

\* Once all messages are handled the file holds exactly the subscriptions that
\* the links serve, of all links, however their reports and the replay were
\* interleaved.
FileMatchesLinks == Settled => file = Collection /\ file = Accepted

\* Once all messages are handled the links serve what the other vehicles want,
\* through restarts: subscriptions that were in the file are replayed to the
\* right link and none is doubly ended or revived.  The exceptions are those that
\* the file did not hold, or held too much, when the process crashed (while it
\* was being written, or between its removal at the start and the replay), and
\* those ended by their subscriber before they were replayed.
NothingForgotten ==
    Settled => \A s \in Subscriptions \ world.excused :
                  s \in world.wanted <=> s \in accepted[LinkOf[s]]

\* A subscription that is in the file at a crash, or received later, is served
\* in the end, however often the process restarts.
Restored ==
    \A s \in Subscriptions :
        (s \in world.wanted \ world.excused)
            ~> (s \in accepted[LinkOf[s]] \/ s \notin world.wanted \/ s \in world.excused)
=============================================================================

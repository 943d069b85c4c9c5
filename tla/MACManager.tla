----------------------------- MODULE MACManager -----------------------------
(***************************************************************************)
(* goby::acomms::MACManager (acomms/amac/mac_manager.cpp): time division   *)
(* medium access on several vehicles.  Each has its own clock, its own     *)
(* list of slots and its own idea of which slot is next; what keeps them   *)
(* from talking at the same time is only that all count cycles from the    *)
(* same reference time.                                                    *)
(*                                                                         *)
(* Time goes on for ever and the model stays finite: a clock is the time   *)
(* since the reference, which comes round after Period (the day for        *)
(* REFERENCE_START_OF_DAY), and next_slot_t_ is kept as the time until     *)
(* then, negative when it has passed.                                      *)
(***************************************************************************)
EXTENDS Integers, Sequences, FiniteSets, FiniteSetsExt

CONSTANTS
    Vehicles,
    Config,         \* [Vehicles -> [type, modem_id, slot, start_cycle_in_middle]], MACConfig
    AllowedSkew,    \* allowed_skew_
    Period,         \* time from one reference to the next
    BROADCAST_ID,
    Prompt,         \* do_work() is called within this time, unless the thread stalls
    MaxStalls,      \* bound: units of time by which threads stall
    MaxSteps,       \* bound: steps of a clock
    Steps,          \* sizes of the steps of a clock
    MaxCalls        \* bound: calls other than do_work()

Slots(v) == Config[v].slot

ASSUME MACAssumption ==
    /\ \A v \in Vehicles :
          /\ Config[v].type \in {"MAC_FIXED_DECENTRALIZED", "MAC_POLLED"}
          /\ Config[v].start_cycle_in_middle \in BOOLEAN
          /\ Slots(v) \in Seq([src : Int, slot_seconds : Nat \ {0}, always_initiate : BOOLEAN])
    /\ AllowedSkew \in Nat /\ Period \in Nat \ {0} /\ Prompt \in Nat \ {0}
    /\ Steps \subseteq Int

VARIABLES
    mac,     \* [Vehicles -> its MACManager: started_up_, the list, current_slot_ (an
             \* index) and next_slot_t_ (relative to now)]
    now,     \* [Vehicles -> its clock]
    talk,    \* [Vehicles -> how long its last transmission may still last, and by
             \* how much its clock was wrong when it began]
    world    \* history: stalls, steps and calls so far, and how wrong the clocks are

vars == <<mac, now, talk, world>>

Init ==
    /\ mac = [v \in Vehicles |-> [started_up |-> FALSE, list |-> <<>>,
                                  current_slot |-> 1, next_slot_t |-> 0]]
    /\ \E t \in 0..(Period - 1) : now = [v \in Vehicles |-> t]
    /\ talk = [v \in Vehicles |-> [left |-> 0, wrong |-> 0]]
    /\ world = [stalls |-> 0, steps |-> 0, calls |-> 0, wrong |-> [v \in Vehicles |-> 0]]

-----------------------------------------------------------------------------
(* The schedule. *)

\* The time from the start of the cycle to the start of slot j.
StartOf(list, j) ==
    LET at[i \in 1..(Len(list) + 1)] == IF i = 1 THEN 0 ELSE at[i - 1] + list[i - 1].slot_seconds
    IN  at[j]

cycle_duration(list) == StartOf(list, Len(list) + 1)

\* The time until the first cycle that begins after t.
next_cycle_time(list, t) == ((t \div cycle_duration(list)) + 1) * cycle_duration(list) - t

\* ++current_slot_, from the end back to the beginning.
NextIndex(list, j) == IF j = Len(list) THEN 1 ELSE j + 1

increment_slot(m) ==
    [m EXCEPT !.next_slot_t = @ + m.list[m.current_slot].slot_seconds,
              !.current_slot = NextIndex(m.list, @)]

\* The loop of update(): from the start of this cycle, slots are skipped until
\* one that does not lie in the past.
InMiddle(m, t) ==
    LET since == t % cycle_duration(m.list)
        future == {j \in 1..Len(m.list) : StartOf(m.list, j) >= since}
    IN  IF future = {} THEN [m EXCEPT !.current_slot = 1,
                                      !.next_slot_t = cycle_duration(m.list) - since]
        ELSE [m EXCEPT !.current_slot = Min(future),
                       !.next_slot_t = StartOf(m.list, Min(future)) - since]

update_KeepsSlot(v, m, t) ==
    IF m.list = <<>> THEN [m EXCEPT !.started_up = FALSE]
    ELSE IF Config[v].start_cycle_in_middle /\ Len(m.list) > 1 THEN InMiddle(m, t)
    ELSE [m EXCEPT !.next_slot_t = next_cycle_time(m.list, t)]

\* update() at time t.
update(v, m, t) ==
    IF m.list = <<>> THEN [m EXCEPT !.started_up = FALSE]
    ELSE IF Config[v].start_cycle_in_middle /\ Len(m.list) > 1 THEN InMiddle(m, t)
    ELSE [m EXCEPT !.current_slot = 1, !.next_slot_t = next_cycle_time(m.list, t)]

-----------------------------------------------------------------------------
(* Calls of the owner. *)

Call ==
    /\ world.calls < MaxCalls
    /\ world' = [world EXCEPT !.calls = @ + 1]
    /\ UNCHANGED <<now, talk>>

\* restart(): nothing if the MAC is running.
Restarted(v, m) ==
    IF m.started_up THEN m ELSE update(v, [m EXCEPT !.started_up = TRUE], now[v])

\* startup() fills the list and starts the MAC; it is called once, by the
\* constructor of the driver thread.  With MAC_NONE, which MACAssumption leaves
\* out, it does nothing.
startup(v) ==
    /\ Call
    /\ ~ mac[v].started_up
    /\ mac' = [mac EXCEPT ![v] = Restarted(v, [@ EXCEPT !.list = Slots(v)])]

restart(v) ==
    /\ Call
    /\ mac' = [mac EXCEPT ![v] = Restarted(v, @)]

Stopped(m) == [m EXCEPT !.current_slot = 1, !.started_up = FALSE]

shutdown(v) ==
    /\ Call
    /\ mac' = [mac EXCEPT ![v] = Stopped(@)]

\* handle_mac_cycle_update(): the list is cleared, assigned again or left as it is,
\* then update(), and then the MAC is started or stopped if the message says so.
\* The messages for another modem, which are ignored, the edits of single slots
\* and set_silent(), which concerns the driver, are left out.
handle_mac_cycle_update(v, list, cycle_state) ==
    /\ Call
    /\ LET updated == update(v, [mac[v] EXCEPT !.list = list], now[v])
       IN  mac' = [mac EXCEPT ![v] = CASE cycle_state = "STARTED" -> Restarted(v, updated)
                                       [] cycle_state = "STOPPED" -> Stopped(updated)
                                       [] OTHER -> updated]

-----------------------------------------------------------------------------
(* do_work(). *)

we_are_transmitting(v, slot) ==
    \/ /\ Config[v].type = "MAC_FIXED_DECENTRALIZED"
       /\ slot.src = Config[v].modem_id \/ slot.always_initiate
    \/ /\ Config[v].type = "MAC_POLLED"
       /\ slot.src # BROADCAST_ID

ClockSkew_Unchecked(late) == FALSE

ClockSkew_Always(late) == late > 0

ClockSkew(late) == late > AllowedSkew

\* A transmission takes some time, and may last until the end of its slot.
begin_slot(v) ==
    LET m == mac[v]
        slot == m.list[m.current_slot]
    IN  IF ClockSkew(- m.next_slot_t)
        THEN /\ mac' = [mac EXCEPT ![v] = update(v, m, now[v])]
             /\ UNCHANGED talk
        ELSE /\ mac' = [mac EXCEPT ![v] = increment_slot(m)]
             /\ talk' = IF ~ we_are_transmitting(v, slot) THEN talk
                        ELSE [talk EXCEPT ![v] = [left |-> Max({1, m.next_slot_t + slot.slot_seconds}),
                                                  wrong |-> world.wrong[v]]]

do_work(v) ==
    /\ mac[v].started_up
    /\ mac[v].next_slot_t < 0
    /\ begin_slot(v)
    /\ UNCHANGED <<now, world>>

-----------------------------------------------------------------------------
(* Time. *)

Late(v) == mac[v].started_up /\ - mac[v].next_slot_t >= Prompt

\* Clocks of MACs that are not running go on too; their next slot is old.
Later(m, t) == IF m.started_up THEN [m EXCEPT !.next_slot_t = @ - t] ELSE [m EXCEPT !.next_slot_t = 0]

Tick ==
    /\ (\E v \in Vehicles : Late(v)) => world.stalls < MaxStalls
    /\ now' = [v \in Vehicles |-> (now[v] + 1) % Period]
    /\ mac' = [v \in Vehicles |-> Later(mac[v], 1)]
    /\ talk' = [v \in Vehicles |-> IF talk[v].left <= 1 THEN [left |-> 0, wrong |-> 0]
                                   ELSE [talk[v] EXCEPT !.left = @ - 1]]
    /\ world' = IF \E v \in Vehicles : Late(v) THEN [world EXCEPT !.stalls = @ + 1] ELSE world

\* The clock of one vehicle is set.
ClockStep(v, d) ==
    /\ world.steps < MaxSteps
    /\ now' = [now EXCEPT ![v] = (@ + d) % Period]
    /\ mac' = [mac EXCEPT ![v] = Later(@, d)]
    /\ world' = [world EXCEPT !.steps = @ + 1, !.wrong[v] = (@ + d) % Period]
    /\ UNCHANGED talk

-----------------------------------------------------------------------------
Owner(v) == \/ startup(v) \/ restart(v) \/ shutdown(v)
            \/ \E list \in {<<>>, Slots(v), mac[v].list}, state \in {"STARTED", "STOPPED", "none"} :
                  handle_mac_cycle_update(v, list, state)

Next == \/ \E v \in Vehicles : \/ Owner(v) \/ do_work(v)
                               \/ \E d \in Steps : ClockStep(v, d)
        \/ Tick

Spec == Init /\ [][Next]_vars

\* Time passes, and the owner calls do_work() from its loop.
FairSpec == Spec /\ WF_vars(Tick) /\ \A v \in Vehicles : WF_vars(do_work(v))

-----------------------------------------------------------------------------
(* Configurations that work. *)

\* The time between two references is a whole number of cycles, on each vehicle.
WholeCycles == \A v \in Vehicles : Slots(v) # <<>> => Period % cycle_duration(Slots(v)) = 0

\* The vehicles agree on the number and the lengths of the slots, no slot is
\* transmitted in by two of them, and none is as short as the allowed skew.
SlotsAgreed ==
    \A v, w \in Vehicles :
        /\ Len(Slots(v)) = Len(Slots(w))
        /\ \A j \in 1..Len(Slots(v)) :
              /\ Slots(v)[j].slot_seconds = Slots(w)[j].slot_seconds
              /\ Slots(v)[j].slot_seconds > AllowedSkew
              /\ v # w => ~ (we_are_transmitting(v, Slots(v)[j]) /\ we_are_transmitting(w, Slots(w)[j]))

-----------------------------------------------------------------------------
(* Properties. *)

\* A MAC that runs is in phase with the reference, whatever calls, stalls and
\* steps of its clock there were: current_slot_ is a slot of its list, and
\* next_slot_t_ the time at which, counted from the reference, this slot begins.
InPhase ==
    \A v \in Vehicles : mac[v].started_up =>
        /\ mac[v].current_slot \in 1..Len(mac[v].list)
        /\ (now[v] + mac[v].next_slot_t) % cycle_duration(mac[v].list)
               = StartOf(mac[v].list, mac[v].current_slot)

\* Two vehicles whose clocks agreed when they began to transmit do not transmit
\* at the same time, if no slot is shorter than the skew that is allowed.
NoCollision ==
    \A v, w \in Vehicles :
        (v # w /\ talk[v].left > 0 /\ talk[w].left > 0) => talk[v].wrong # talk[w].wrong

\* A MAC that is left running gets its turn again and again, however its clock
\* was set before.
TakesTurns == \A v \in Vehicles : <>[](mac[v].started_up) => []<>(talk[v].left > 0)
=============================================================================

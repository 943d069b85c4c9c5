--------------------------- MODULE IridiumDriver ----------------------------
(***************************************************************************)
(* goby::acomms::IridiumDriver (acomms/modemdriver/iridium_driver.cpp) and *)
(* its state machine (iridium_driver_fsm.h and .cpp): three orthogonal     *)
(* regions (the command line, short burst data, the call) that share one   *)
(* queue of AT commands to the satellite modem and react to its answers.   *)
(*                                                                         *)
(* process_event() returns when the events that the reactions post have    *)
(* been processed too, so that a step of the driver is a whole             *)
(* process_event(): fsm.ev holds the posted events in between.  The order  *)
(* of do_work() (call, write, read, write) does not restrict the order of  *)
(* the steps, since each of them may have nothing to do.                   *)
(***************************************************************************)
EXTENDS Integers, Sequences

CONSTANTS
    dial_attempts,
    RETRIES_BEFORE_RESET,
    DATA_BUFFER_CAPACITY,
    Straddle,   \* may the lines of one answer be read in two calls of do_work()?
    MaxFetched, \* bound: transmissions that the MAC initiates, messages fetched in calls
    MaxOdd,     \* bound: commands that get lost, errors, echoes and failed writes
    MaxNetwork  \* bound: calls and messages announced by the network, lines of the other end

ASSUME IridiumAssumption ==
    /\ dial_attempts \in Nat \ {0} /\ RETRIES_BEFORE_RESET \in Nat
    /\ DATA_BUFFER_CAPACITY \in Nat \ {0}
    /\ Straddle \in BOOLEAN

VARIABLES
    fsm,       \* the state machine: the state of each region (at, sbd, call) with
               \* their data, the AT commands at_out, serial_tx_buffer (tx) and
               \* the posted events ev
    data_out,  \* number of messages in the buffer for calls
    received,  \* rates of the received messages that driver has still to take up
    rx,        \* lines from the modem
    modem,     \* the modem: "command" or "data" mode, is there a carrier, does it ring?
    use_dtr,   \* configuration: hang up with the DTR line?
    world      \* numbers of the bounded events so far

vars == <<fsm, data_out, received, rx, modem, use_dtr, world>>

Event(type) == [type |-> type, arg |-> "none"]
With(type, arg) == [type |-> type, arg |-> arg]

At(cmd) == [cmd |-> cmd, tries |-> 0]
Push(f, cmd) == [f EXCEPT !.at_out = Append(@, At(cmd))]
Post(f, events) == [f EXCEPT !.ev = @ \o events]

FirstCmd(f) == IF f.at_out = <<>> THEN "none" ELSE Head(f.at_out).cmd

-----------------------------------------------------------------------------
(* States and what is done on entering them.  "Online" has no command line and *)
(* no SBD region; entering Command creates both anew.  "config" stands for the *)
(* commands that Configure pushes one after the other.                         *)

Enter(f, state) ==
    LET g == [f EXCEPT !.at = state]
    IN  CASE state = "Configure"        -> Push(g, "config")
          [] state = "HangingUp"        -> Push(Push(g, "+++"), "H")
          [] state = "PostDisconnected" -> Push(g, "+CEER")
          [] state = "Dial"             -> Push([g EXCEPT !.dials = 1], "D")
          [] state = "Answer"           -> Push(g, "A")
          [] state = "Ready"            -> g

NewCommand(f) == [f EXCEPT !.at_out = <<>>, !.sbd = "SBDReady", !.data = FALSE,
                           !.alert = FALSE, !.sbd_rx = "empty"]

EnterCommand(f, state) == Enter(NewCommand(f), state)

Active == [at |-> "Configure", dials |-> 0, sbd |-> "SBDReady", data |-> FALSE,
           alert |-> FALSE, sbd_rx |-> "empty", call |-> "NotOnCall", bye_sent |-> FALSE,
           bye_received |-> FALSE, at_out |-> <<At("config")>>, tx |-> <<>>, ev |-> <<>>]

Init ==
    /\ fsm = Active
    /\ data_out = 0 /\ received = <<>>
    /\ rx = <<>>
    /\ modem = [mode |-> "command", carrier |-> FALSE, ringing |-> FALSE]
    /\ use_dtr \in BOOLEAN
    /\ world = [fetched |-> 0, odd |-> 0, network |-> 0]

-----------------------------------------------------------------------------
(* Reactions. *)

InCommand(f) == f.at # "Online"

\* Command::in_state_react(EvAck).
Acked(f, response) ==
    CASE response = "0" -> IF FirstCmd(f) = "+SBDD2" THEN Post(f, <<Event("SBDSendBufferCleared")>>)
                           ELSE IF f.at_out # <<>> THEN f
                           ELSE Push(Post(f, <<Event("SBDWriteComplete")>>), "AT")
      [] response = "1" -> f
      [] f.at_out = <<>> -> f
      [] OTHER -> LET rest == Tail(f.at_out)
                      failed == response = "OK" /\ FirstCmd(f) \in {"H", "D"}
                      then(condition, type) == IF condition THEN <<Event(type)>> ELSE <<>>
                  IN  Post([f EXCEPT !.at_out = rest],
                           then(failed, "NoCarrier") \o then(response = "READY", "SBDWriteReady")
                               \o then(rest = <<>>, "AtEmpty"))

\* The state EvNoCarrier leads to: Dial tries again, and OnCall ends.
NoCarrier_KeepsCall(f) ==
    CASE f.at = "Dial"   -> IF f.dials < dial_attempts
                            THEN Push([f EXCEPT !.dials = @ + 1], "D") ELSE Enter(f, "Ready")
      [] f.at = "Answer" -> Enter(f, "Ready")
      [] OTHER -> IF f.call = "OnCall" THEN [f EXCEPT !.call = "NotOnCall"] ELSE f

NoCarrier(f) ==
    CASE f.at = "Dial"   -> IF f.dials < dial_attempts
                            THEN Push([f EXCEPT !.dials = @ + 1], "D") ELSE Enter(f, "Ready")
      [] f.at = "Answer" -> Enter(f, "Ready")
      [] OTHER -> IF f.call = "OnCall"
                  THEN Post([f EXCEPT !.call = "NotOnCall"], <<Event("Disconnect")>>) ELSE f

\* The states that EvAtEmpty leaves for Ready.
UntilAtEmpty_NotPostDisconnected == {"Configure", "HangingUp"}

UntilAtEmpty == {"Configure", "HangingUp", "PostDisconnected"}

\* The reactions of region 0 and of the call.
LineReaction(f, e) ==
    CASE e.type = "Reset" -> [Active EXCEPT !.ev = f.ev, !.tx = f.tx]
      [] e.type = "Ack" /\ InCommand(f) -> Acked(f, e.arg)
      [] e.type = "Ring" /\ f.at = "Ready" -> Enter(f, "Answer")
      [] e.type = "Dial" /\ f.at = "Ready" /\ f.call = "NotOnCall" -> Enter(f, "Dial")
      [] e.type = "NoCarrier" -> NoCarrier(f)
      [] e.type = "Connect" /\ f.call = "NotOnCall" ->
            Post([f EXCEPT !.call = "OnCall", !.bye_sent = FALSE, !.bye_received = FALSE,
                           !.tx = <<"goby">> \o @], <<Event("Online")>>)
      [] e.type = "Online" /\ InCommand(f) -> [NewCommand(f) EXCEPT !.at = "Online"]
      [] e.type = "Disconnect" /\ ~ InCommand(f) -> EnterCommand(f, "PostDisconnected")
      [] e.type = "Hangup" /\ ~ InCommand(f) -> EnterCommand(f, "HangingUp")
      [] e.type = "AtEmpty" /\ f.at \in UntilAtEmpty -> Enter(f, "Ready")
      [] OTHER -> f

\* The state after SBDTransmit, which depends on the modem's report.
Transmitted(f, report) ==
    LET g == [f EXCEPT !.data = FALSE]
    IN  IF report = "message" THEN Push([g EXCEPT !.sbd = "SBDReceive"], "+SBDRB")
        ELSE [g EXCEPT !.sbd = "SBDReady"]

\* The reactions of the SBD region, which exists only within Command.
SBDReaction(f, e) ==
    CASE e.type = "SBDBeginData" /\ f.sbd = "SBDReady" ->
            Push([f EXCEPT !.sbd = "SBDClearBuffers", !.data = (e.arg = "data"),
                           !.alert = (e.arg = "alert"), !.sbd_rx = "empty"], "+SBDD2")
      [] e.type = "SBDSendBufferCleared" /\ f.sbd = "SBDClearBuffers" ->
            LET g == [f EXCEPT !.sbd = "SBDWrite"]
            IN  IF f.data THEN Push(g, "+SBDWB") ELSE Post(g, <<Event("SBDWriteComplete")>>)
      [] e.type = "SBDWriteReady" /\ f.sbd = "SBDWrite" -> [f EXCEPT !.tx = Append(@, "sbd data")]
      [] e.type = "SBDWriteComplete" /\ f.sbd = "SBDWrite" ->
            Push([f EXCEPT !.sbd = "SBDTransmit"], IF f.alert THEN "+SBDIXA" ELSE "+SBDIX")
      [] e.type = "SBDTransmitComplete" /\ f.sbd = "SBDTransmit" -> Transmitted(f, e.arg)
      [] e.type = "SBDReceiveComplete" /\ f.sbd = "SBDReceive" -> [f EXCEPT !.sbd = "SBDReady"]
      [] OTHER -> f

IsSBD(e) == e.type \in {"SBDBeginData", "SBDSendBufferCleared", "SBDWriteReady",
                        "SBDWriteComplete", "SBDTransmitComplete", "SBDReceiveComplete"}

Reaction(f, e) == IF ~ IsSBD(e) THEN LineReaction(f, e)
                  ELSE IF InCommand(f) THEN SBDReaction(f, e) ELSE f

\* process_event(): the posted events too, in the order in which they were posted.
\* The result is the only member of Processed(f): TLC evaluates the members of a set
\* once, and the argument of an operator whenever it is used.
RECURSIVE Processed(_)
Processed(f) ==
    IF f.ev = <<>> THEN {f}
    ELSE UNION {Processed(g) : g \in {Reaction([f EXCEPT !.ev = Tail(@)], Head(f.ev))}}

process_event(events) == fsm' \in Processed(Post(fsm, events))

-----------------------------------------------------------------------------
(* The driver. *)

\* Unless answers straddle the calls of do_work(), all lines are read before
\* anything else happens.
Between == Straddle \/ rx = <<>>

\* The events that a line from the modem causes in Command.
Posted(line) ==
    CASE line \in {"OK", "READY", "0", "1"} -> <<With("Ack", line)>>
      [] line = "RING" -> <<Event("Ring")>>
      [] line = "NO CARRIER" -> <<With("Ack", line), Event("NoCarrier")>>
      [] line = "CONNECT" -> <<With("Ack", line), Event("Connect")>>
      [] line = "ERROR" -> <<Event("Reset")>>
      [] line = "SBDRING" -> <<With("SBDBeginData", "alert")>>
      [] line \in {"sent", "message", "failed"} -> <<With("SBDTransmitComplete", line)>>
      [] OTHER -> <<>>

\* handle_sbd_rx(): a received message comes in two lines, and any other line
\* that comes while +SBDRB is the first command is taken for a part of it.
handle_sbd_rx(line) ==
    IF line = "rest" /\ fsm.sbd_rx = "part"
    THEN /\ fsm' \in LET f == Push([fsm EXCEPT !.at_out = Tail(@), !.sbd_rx = "all"], "config")
                     IN  Processed(Post(f, <<Event("SBDReceiveComplete")>>))
         /\ received' = Append(received, "SBD")
    ELSE /\ fsm' = [fsm EXCEPT !.sbd_rx = IF line = "part" /\ @ = "empty" THEN "part" ELSE "garbled"]
         /\ UNCHANGED received

\* Command::in_state_react(EvRxSerial), with the command E that turns off the echo.
ReadInCommand(line) ==
    \/ FirstCmd(fsm) = "+SBDRB" /\ handle_sbd_rx(line)
    \/ /\ FirstCmd(fsm) # "+SBDRB"
       /\ IF line = "echo" /\ FirstCmd(fsm) \notin {"none", "E"}
          THEN fsm' = [fsm EXCEPT !.at_out = <<Head(@), At("E")>> \o Tail(@)]
          ELSE process_event(Posted(line))
       /\ UNCHANGED received

\* OnCall::in_state_react(EvRxOnCallSerial).
ReadOnCall(line) ==
    /\ CASE line = "NO CARRIER" -> process_event(<<Event("NoCarrier")>>)
         [] line = "bye" -> fsm' = [fsm EXCEPT !.bye_received = TRUE]
         [] OTHER -> UNCHANGED fsm
    /\ received' = IF line = "packet" THEN Append(received, "RUDICS") ELSE received

Read ==
    /\ rx # <<>>
    /\ rx' = Tail(rx)
    /\ IF InCommand(fsm) THEN ReadInCommand(Head(rx)) ELSE ReadOnCall(Head(rx))
    /\ UNCHANGED <<data_out, modem, use_dtr, world>>

\* No answer is coming.
TimedOut == Head(fsm.at_out).tries > 0 /\ fsm.tx = <<>> /\ rx = <<>>

\* try_serial_tx() in Command: the first command is sent, or sent again.
WriteCommand ==
    /\ Between
    /\ InCommand(fsm)
    /\ fsm.at_out # <<>>
    /\ Head(fsm.at_out).tries = 0 \/ TimedOut
    /\ IF Head(fsm.at_out).tries >= RETRIES_BEFORE_RESET
       THEN process_event(<<Event("Reset")>>)
       ELSE fsm' = [fsm EXCEPT !.at_out = <<[Head(@) EXCEPT !.tries = @ + 1]>> \o Tail(@),
                               !.sbd_rx = IF FirstCmd(fsm) = "+SBDRB" THEN "empty" ELSE @,
                               !.tx = Append(@, FirstCmd(fsm))]
    /\ UNCHANGED <<data_out, received, rx, modem, use_dtr, world>>

\* try_serial_tx() while nothing is to be sent yet also forgets a message that has
\* been received in part.
ForgetPart ==
    /\ Between
    /\ InCommand(fsm)
    /\ FirstCmd(fsm) = "+SBDRB"
    /\ fsm.sbd_rx # "empty"
    /\ fsm' = [fsm EXCEPT !.sbd_rx = "empty"]
    /\ UNCHANGED <<data_out, received, rx, modem, use_dtr, world>>

\* try_serial_tx() on a call: OnCall::in_state_react(EvTxOnCallSerial).
WriteData ==
    /\ Between
    /\ ~ InCommand(fsm)
    /\ data_out > 0
    /\ data_out' = data_out - 1
    /\ fsm' = [fsm EXCEPT !.tx = Append(@, "packet")]
    /\ UNCHANGED <<received, rx, modem, use_dtr, world>>

\* buffer_data_out(): a full buffer loses its oldest message.
buffer_data_out == data_out' = IF data_out < DATA_BUFFER_CAPACITY THEN data_out + 1 ELSE data_out

\* send() of a message at this rate, after the events posted so far.
send(rate, events) ==
    IF rate = "RUDICS" \/ fsm.call = "OnCall"
    THEN buffer_data_out /\ process_event(events)
    ELSE process_event(events \o <<With("SBDBeginData", "data")>>) /\ UNCHANGED data_out

\* handle_initiate_transmission(): with data, or with none as a mailbox check.
handle_initiate_transmission(rate, empty) ==
    /\ Between
    /\ world.fetched < MaxFetched
    /\ world' = [world EXCEPT !.fetched = @ + 1]
    /\ IF empty THEN /\ rate = "SBD"
                     /\ process_event(<<With("SBDBeginData", "check")>>)
                     /\ UNCHANGED data_out
       ELSE send(rate, IF rate = "RUDICS" THEN <<Event("Dial")>> ELSE <<>>)
    /\ UNCHANGED <<received, rx, modem, use_dtr>>

\* receive(): a message that asks for an ack is acked at its rate.
receive(ack_requested) ==
    /\ Between
    /\ received # <<>>
    /\ received' = Tail(received)
    /\ IF ack_requested THEN send(Head(received), <<>>) ELSE UNCHANGED <<fsm, data_out>>
    /\ UNCHANGED <<rx, modem, use_dtr, world>>

\* do_work() on a call: more data are fetched ...
Pull ==
    /\ Between
    /\ fsm.call = "OnCall" /\ ~ fsm.bye_sent
    /\ data_out = 0
    /\ world.fetched < MaxFetched
    /\ world' = [world EXCEPT !.fetched = @ + 1]
    /\ buffer_data_out
    /\ UNCHANGED <<fsm, received, rx, modem, use_dtr>>

\* ... when there are no more it says bye ...
SendBye ==
    /\ Between
    /\ fsm.call = "OnCall" /\ ~ fsm.bye_sent
    /\ fsm' = [fsm EXCEPT !.bye_sent = TRUE, !.tx = <<"bye">> \o @]
    /\ UNCHANGED <<data_out, received, rx, modem, use_dtr, world>>

CallOver_Byes == fsm.bye_sent /\ fsm.bye_received

\* Nothing was read or written for hangup_seconds_after_empty.  There is no
\* clock: do_work() may find so whatever waits to be sent.
Silent == TRUE

CallOver == (fsm.bye_sent /\ fsm.bye_received) \/ Silent

\* ... and it hangs up when both ends have, or after hangup_seconds_after_empty.
\* EvHangup has no effect outside Online.
hangup ==
    /\ Between
    /\ fsm.call = "OnCall"
    /\ use_dtr \/ ~ InCommand(fsm)
    /\ CallOver
    /\ process_event(<<Event(IF use_dtr THEN "NoCarrier" ELSE "Hangup")>>)
    /\ modem' = IF use_dtr THEN [modem EXCEPT !.mode = "command", !.carrier = FALSE] ELSE modem
    /\ UNCHANGED <<data_out, received, rx, use_dtr, world>>

Driver == \/ Read \/ WriteCommand \/ ForgetPart \/ WriteData \/ Pull \/ SendBye \/ hangup
          \/ \E rate \in {"RUDICS", "SBD"}, empty \in BOOLEAN : handle_initiate_transmission(rate, empty)
          \/ \E ack \in BOOLEAN : receive(ack)

-----------------------------------------------------------------------------
(* The modem and the other end. *)

Odd == world.odd < MaxOdd /\ world' = [world EXCEPT !.odd = @ + 1]

\* The answers to a command in command mode.
Answers(cmd) ==
    CASE cmd = "D" -> {<<"CONNECT">>, <<"NO CARRIER">>}
      [] cmd = "A" -> IF modem.ringing THEN {<<"CONNECT">>} ELSE {<<"NO CARRIER">>}
      [] cmd = "+SBDD2" -> {<<"0", "OK">>}
      [] cmd = "+SBDWB" -> {<<"READY">>}
      [] cmd = "sbd data" -> {<<"0", "OK">>}
      [] cmd \in {"+SBDIX", "+SBDIXA"} -> {<<"sent", "OK">>, <<"message", "OK">>, <<"failed", "OK">>}
      [] cmd = "+SBDRB" -> {<<"part", "rest", "OK">>}
      [] cmd \in {"goby", "bye", "packet"} -> {<<>>}
      [] OTHER -> {<<"OK">>}

OddAnswers(cmd) ==
    CASE cmd = "sbd data" -> {<<"1", "OK">>}
      [] cmd \in {"goby", "bye", "packet"} -> {<<>>}
      [] cmd = "config" -> {<<>>, <<"ERROR">>, <<"echo", "OK">>}
      [] OTHER -> {<<>>, <<"ERROR">>}

\* try_serial_tx() writes a line, and what the modem does with it; in data mode
\* all but +++ goes to the other end.  That nothing is written for a while after
\* +++ only delays this step.
Obey ==
    /\ fsm.tx # <<>>
    /\ fsm' = [fsm EXCEPT !.tx = Tail(@)]
    /\ LET cmd == Head(fsm.tx)
       IN  IF modem.mode = "data"
           THEN /\ rx' = IF cmd = "+++" THEN Append(rx, "OK") ELSE rx
                /\ modem' = IF cmd = "+++" THEN [modem EXCEPT !.mode = "command"] ELSE modem
           ELSE \E answer \in Answers(cmd) :
                   /\ rx' = rx \o answer
                   /\ modem' = CASE answer = <<"CONNECT">> -> [mode |-> "data", carrier |-> TRUE,
                                                               ringing |-> FALSE]
                                 [] cmd = "H" -> [modem EXCEPT !.carrier = FALSE]
                                 [] OTHER -> modem
    /\ UNCHANGED <<data_out, received, use_dtr, world>>

Disobey ==
    /\ fsm.tx # <<>>
    /\ Odd
    /\ fsm' = [fsm EXCEPT !.tx = Tail(@)]
    /\ \E answer \in OddAnswers(Head(fsm.tx)) :
          rx' = IF modem.mode = "data" THEN rx ELSE rx \o answer
    /\ UNCHANGED <<data_out, received, modem, use_dtr>>

\* The network announces a call or a message.
Alert(line) ==
    /\ modem.mode = "command" /\ ~ modem.carrier
    /\ world.network < MaxNetwork
    /\ world' = [world EXCEPT !.network = @ + 1]
    /\ rx' = Append(rx, line)
    /\ modem' = IF line = "RING" THEN [modem EXCEPT !.ringing = TRUE] ELSE modem
    /\ UNCHANGED <<fsm, data_out, received, use_dtr>>

\* The other end sends, and says bye.
RemoteSends(line) ==
    /\ modem.mode = "data"
    /\ world.network < MaxNetwork
    /\ world' = [world EXCEPT !.network = @ + 1]
    /\ rx' = Append(rx, line)
    /\ UNCHANGED <<fsm, data_out, received, modem, use_dtr>>

\* The carrier is lost, or the other end hangs up.
CarrierLost ==
    /\ modem.carrier
    /\ modem' = [modem EXCEPT !.mode = "command", !.carrier = FALSE]
    /\ rx' = Append(rx, "NO CARRIER")
    /\ UNCHANGED <<fsm, data_out, received, use_dtr, world>>

\* The other end hangs up when this one has left the call and is silent.
RemoteHangsUp == fsm.call = "NotOnCall" /\ CarrierLost

World == \/ Obey \/ Disobey \/ CarrierLost
         \/ \E line \in {"RING", "SBDRING"} : Alert(line)
         \/ \E line \in {"packet", "bye"} : RemoteSends(line)

Next == Driver \/ World

Spec == Init /\ [][Next]_vars

\* The owner calls do_work() for ever, so that whatever waits for it is done; the
\* modem handles its lines, and the other end does not stay alone on a call.
FairSpec ==
    /\ Spec
    /\ WF_vars(Read) /\ SF_vars(WriteCommand) /\ SF_vars(WriteData)
    /\ SF_vars(hangup) /\ WF_vars(Obey) /\ WF_vars(RemoteHangsUp)

-----------------------------------------------------------------------------
(* Properties. *)

\* The regions agree after every event: the command line is given up only
\* during a call, and a call without it is one that is being ended.
RegionsAgree ==
    /\ fsm.at = "Online" => fsm.call = "OnCall"
    /\ fsm.call = "OnCall" => fsm.at \in {"Online", "HangingUp"}

\* Every activity of the command line ends, ready for the next one or online,
\* whatever is lost on the way to the modem; except that the answer to something
\* else (written SBD data, a call that was given up) may take away the D or A of a
\* state that waits for its outcome.
CommandReturns ==
    (fsm.at \notin {"Ready", "Online"})
        ~> (fsm.at \in {"Ready", "Online"} \/ (fsm.at \in {"Dial", "Answer"} /\ fsm.at_out = <<>>))

\* Calls end, with or without DTR, also when +++ or H gets no answer.
CallsEnd == (fsm.call = "OnCall") ~> (fsm.call = "NotOnCall")
=============================================================================

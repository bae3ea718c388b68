------------------------------- MODULE CapLora -------------------------------
(***************************************************************************)
(* adapters/radio: CapLora1262Transport over LinuxCapLora1262Radio, the    *)
(* half-duplex driver of the SX1262, and the chip it talks to.             *)
(*                                                                         *)
(* A call of the transport is a series of bus transfers.  Each transfer is *)
(* one step, may fail, and the chip goes on hearing and sending between    *)
(* two of them.  `op` is the call in progress: `at` names the next         *)
(* transfer that is followed by a decision, `todo` holds the commands      *)
(* still to be written when the rest of the call is straight-line.         *)
(***************************************************************************)
EXTENDS Integers, Sequences, FiniteSets, SequencesExt

CONSTANTS
  Outgoing,     \* datagrams the application sends
  Incoming,     \* datagrams other stations send, of at most mtu bytes
  Empty,        \* a reception of zero bytes
  Oversize,     \* a reception of more than mtu bytes
  Nothing,      \* no datagram
  MaxSends      \* bound: datagrams accepted in one run

ASSUME CapLoraAssumption ==
  /\ MaxSends \in Nat
  /\ Nothing \notin Outgoing \cup Incoming \cup {Empty, Oversize}

VARIABLES
  chip,         \* the SX1262 (external)
  antenna,      \* the PI4IOE5V6408 drives the antenna switch (external)
  descriptors,  \* open file descriptors
  driver,       \* the flags of LinuxCapLora1262Radio::Impl
  transport,    \* closed_ and pending_receive_ of CapLora1262Transport
  op,           \* the call in progress
  \* History:
  faults,       \* buses on which a transfer has failed
  sent, aired,  \* datagrams accepted by try_send, and sent by the chip
  owed          \* a reception that ended unobserved and is still to be read
                \* or to be dropped by poll

vars == <<chip, antenna, descriptors, driver, transport, op,
          faults, sent, aired, owed>>

ReceiveErrors == {"HeaderError", "CrcError"}
ReceiveIrqs ==
  {"RxDone", "PreambleDetected", "HeaderValid", "Timeout"} \cup ReceiveErrors
TransmitIrqs == {"TxDone", "Timeout"}

Heard == Incoming \cup {Empty, Oversize}

Idle == [at |-> "idle", call |-> "none", data |-> Nothing, irq |-> {},
         todo |-> << >>, then |-> "none"]

\* start_receive, and the register writes of configure_radio before it.
Mutant_StartReceive == <<"PacketParams", "ClearIrq", "IrqMaskReceive">>
StartReceive == <<"PacketParams", "ClearIrq", "IrqMaskReceive", "SetRx">>

ConfigureRadio ==
  <<"SetStandby", "Regulator", "Tcxo", "Calibrate", "CalibrateImage",
    "PacketType", "BufferBase", "Frequency", "Modulation", "PaConfig",
    "TxParams", "Ocp", "SyncWord">> \o StartReceive

\* The writes of try_start_transmit after the channel was found free.
Mutant_StartTransmit ==
  <<"SetStandby", "PacketParams", "WriteBuffer", "ClearIrq", "SetTx">>
StartTransmit ==
  <<"SetStandby", "PacketParams", "WriteBuffer", "ClearIrq",
    "IrqMaskTransmit", "SetTx">>

Init ==
  /\ chip = [mode |-> "reset", irq |-> {}, mask |-> {}, buffer |-> Nothing,
             hearing |-> Nothing]
  /\ antenna = FALSE
  /\ descriptors = {}
  /\ driver = [antenna_switch_enabled |-> FALSE, receiving |-> FALSE,
               transmitting |-> FALSE, initialized |-> FALSE,
               closed |-> FALSE]
  /\ transport = [closed |-> FALSE, pending |-> Nothing]
  /\ op = [Idle EXCEPT !.call = "init", !.at = "open"]
  /\ faults = {}
  /\ sent = << >> /\ aired = << >>
  /\ owed = Nothing

Ready == driver.initialized /\ ~driver.closed

-----------------------------------------------------------------------------
(***************************************************************************)
(* The chip.  An interrupt is latched only while it is enabled, and the    *)
(* IRQ line is high while an enabled one is latched.                       *)
(***************************************************************************)
IrqHigh == chip.irq \cap chip.mask # {}

Raise(c, bits) == [c EXCEPT !.irq = @ \cup (bits \cap c.mask)]

\* What a command does to the chip: ceasing to listen loses the packet that
\* is being heard.
Commanded(command) ==
  CASE command = "SetStandby" ->
         [chip EXCEPT !.mode = "standby", !.hearing = Nothing]
    [] command = "ClearIrq" -> [chip EXCEPT !.irq = {}]
    [] command = "ClearSeen" -> [chip EXCEPT !.irq = @ \ op.irq]
    [] command = "IrqMaskReceive" -> [chip EXCEPT !.mask = ReceiveIrqs]
    [] command = "IrqMaskTransmit" -> [chip EXCEPT !.mask = TransmitIrqs]
    [] command = "WriteBuffer" -> [chip EXCEPT !.buffer = op.data]
    [] command = "SetRx" ->
         [chip EXCEPT !.mode = "rx", !.hearing = Nothing]
    [] command = "SetTx" -> [chip EXCEPT !.mode = "tx"]
    [] OTHER -> chip

ChipOnly == UNCHANGED <<antenna, descriptors, driver, transport, op, faults,
                        sent>>

\* A packet, or noise taken for one, begins.
ChipHears ==
  /\ chip.mode = "rx" /\ chip.hearing = Nothing
  /\ \E d \in Heard :
       chip' = Raise([chip EXCEPT !.hearing = d], {"PreambleDetected"})
  /\ ChipOnly /\ UNCHANGED <<aired, owed>>

\* The call in progress, if any, has yet to look at the interrupts.
Unobserved == op.at \in {"idle", "poll", "channel"}

\* It ends well, with a damaged header or payload, or it was noise.
ChipReceives ==
  /\ chip.mode = "rx" /\ chip.hearing # Nothing
  /\ LET ended == [chip EXCEPT !.hearing = Nothing]
         whole == [ended EXCEPT !.buffer = chip.hearing]
     IN \/ /\ chip' = Raise(whole, {"HeaderValid", "RxDone"})
           /\ owed' = IF Unobserved THEN chip.hearing ELSE Nothing
        \/ /\ chip' = Raise(whole, {"HeaderValid", "RxDone", "CrcError"})
           /\ owed' = Nothing
        \/ /\ \/ chip' = Raise(ended, {"HeaderError"})
              \/ chip' = ended
           /\ UNCHANGED owed
  /\ ChipOnly /\ UNCHANGED aired

\* A transmission ends; the chip gives up after kTxTimeoutUnits.
ChipTransmits ==
  /\ chip.mode = "tx"
  /\ \/ /\ chip' = Raise([chip EXCEPT !.mode = "standby"], {"TxDone"})
        /\ aired' = Append(aired, chip.buffer)
     \/ /\ chip' = Raise([chip EXCEPT !.mode = "standby"], {"Timeout"})
        /\ UNCHANGED aired
  /\ ChipOnly /\ UNCHANGED owed

-----------------------------------------------------------------------------
(***************************************************************************)
(* shutdown and fail_closed.  Sleep is written only to an initialized      *)
(* radio; the antenna switch is turned off only when it is believed to be  *)
(* on; neither result is looked at.                                        *)
(***************************************************************************)
SleepOutcomes(failed) ==
  IF driver.initialized
    THEN {[chip EXCEPT !.mode = "sleep", !.hearing = Nothing]}
         \cup (IF "spi" \in failed THEN {chip} ELSE {})
    ELSE {chip}

AntennaOutcomes(failed) ==
  IF driver.antenna_switch_enabled
    THEN {FALSE, antenna /\ "i2c" \in failed}
    ELSE {antenna}

Shutdown ==
  IF driver.closed
    THEN UNCHANGED <<driver, descriptors, chip, antenna, faults>>
    ELSE \E failed \in SUBSET {"spi", "i2c"} :
           /\ faults' = faults \cup failed
           /\ chip' \in SleepOutcomes(failed)
           /\ antenna' \in AntennaOutcomes(failed)
           /\ driver' = [driver EXCEPT !.initialized = FALSE,
                           !.receiving = FALSE, !.transmitting = FALSE,
                           !.closed = TRUE, !.antenna_switch_enabled = FALSE]
           /\ descriptors' = {}

Close == /\ transport' = [closed |-> TRUE, pending |-> Nothing]
         /\ op' = Idle
         /\ owed' = Nothing
         /\ UNCHANGED <<sent, aired>>

\* CapLora1262Transport::fail_closed, and the constructor over a radio that
\* did not become ready.
FailClosed == Close /\ Shutdown

\* A transfer failed: it may or may not have reached the device.
Fault(bus) == faults' = faults \cup {bus}

-----------------------------------------------------------------------------
(***************************************************************************)
(* Initialization, part by part.  Every failure ends in shutdown.          *)
(***************************************************************************)
\* An invalid configuration opens nothing.
OpenDevices ==
  /\ op.at = "open"
  /\ \E opened \in SUBSET {"spi", "i2c", "chip"} :
       /\ descriptors' = opened
       /\ op' = [op EXCEPT !.at = IF opened = {"spi", "i2c", "chip"}
                                    THEN "lines" ELSE "abandon"]
  /\ UNCHANGED <<chip, antenna, driver, transport, faults, sent, aired, owed>>

\* request_gpio for the three lines; the chip descriptor was temporary.
RequestLines ==
  /\ op.at = "lines"
  /\ \E granted \in SUBSET {"reset", "irq", "busy"} :
       /\ descriptors' = (descriptors \ {"chip"}) \cup granted
       /\ op' = [op EXCEPT !.at = IF granted = {"reset", "irq", "busy"}
                                    THEN "switch" ELSE "abandon"]
  /\ UNCHANGED <<chip, antenna, driver, transport, faults, sent, aired, owed>>

\* The SPI mode ioctls, set_antenna_switch(true) and reset_radio.
EnableSwitch ==
  /\ op.at = "switch"
  /\ \/ /\ op' = [op EXCEPT !.at = "reset"]
        /\ antenna' = TRUE
        /\ driver' = [driver EXCEPT !.antenna_switch_enabled = TRUE]
        /\ UNCHANGED faults
     \/ /\ op' = [op EXCEPT !.at = "abandon"]
        /\ antenna' \in BOOLEAN
        /\ Fault("i2c")
        /\ UNCHANGED driver
     \/ /\ op' = [op EXCEPT !.at = "abandon"]
        /\ Fault("spi")
        /\ UNCHANGED <<antenna, driver>>
  /\ UNCHANGED <<chip, descriptors, transport, sent, aired, owed>>

ResetRadio ==
  /\ op.at = "reset"
  /\ \/ /\ op' = [op EXCEPT !.at = "write", !.todo = ConfigureRadio,
                            !.then = "initialized"]
        /\ UNCHANGED faults
     \/ /\ op' = [op EXCEPT !.at = "abandon"]
        /\ Fault("gpio")
  /\ UNCHANGED <<chip, antenna, descriptors, driver, transport, sent, aired,
                 owed>>

\* initialize calls shutdown, and the transport built over the radio that
\* is not ready closes.
AbandonInitialize == op.at = "abandon" /\ FailClosed

-----------------------------------------------------------------------------
(***************************************************************************)
(* Straight-line writes.  write_command waits for BUSY and writes; a       *)
(* command that failed may have been executed.                             *)
(***************************************************************************)
Write ==
  /\ op.at = "write" /\ op.todo # << >>
  /\ chip' = Commanded(Head(op.todo))
  /\ op' = [op EXCEPT !.todo = Tail(@)]
  /\ UNCHANGED <<antenna, descriptors, driver, transport, faults, sent,
                 aired, owed>>

WriteFails ==
  /\ op.at = "write" /\ op.todo # << >>
  /\ chip' \in {chip, Commanded(Head(op.todo))}
  /\ \E bus \in {"spi", "gpio"} : Fault(bus)
  /\ op' = [op EXCEPT !.at = "fail"]
  /\ UNCHANGED <<antenna, descriptors, driver, transport, sent, aired, owed>>

\* The call has returned Failed: initialize shuts down, poll and
\* try_start_transmit make the transport fail closed.
Fail == op.at = "fail" /\ FailClosed

Written(result) == op.at = "write" /\ op.todo = << >> /\ op.then = result

Initialized ==
  /\ Written("initialized")
  /\ driver' = [driver EXCEPT !.initialized = TRUE, !.receiving = TRUE,
                              !.transmitting = FALSE]
  /\ op' = Idle
  /\ UNCHANGED <<chip, antenna, descriptors, transport, faults, sent, aired,
                 owed>>

-----------------------------------------------------------------------------
(***************************************************************************)
(* try_receive and try_send both begin with service_radio, that is poll.   *)
(***************************************************************************)
TryReceive ==
  /\ op = Idle /\ ~transport.closed
  /\ op' = [Idle EXCEPT !.call = "receive", !.at = "poll"]
  /\ UNCHANGED <<chip, antenna, descriptors, driver, transport, faults, sent,
                 aired, owed>>

TrySend ==
  /\ op = Idle /\ ~transport.closed
  /\ Len(sent) < MaxSends
  /\ \E d \in Outgoing :
       op' = [Idle EXCEPT !.call = "send", !.at = "poll", !.data = d]
  /\ UNCHANGED <<chip, antenna, descriptors, driver, transport, faults, sent,
                 aired, owed>>

\* Where the call goes on after service_radio: try_send tries to transmit,
\* try_receive hands over what is pending.
Serviced == IF op.call = "send"
              THEN [op EXCEPT !.at = "channel", !.irq = {}, !.then = "none"]
              ELSE [op EXCEPT !.at = "hand_over", !.then = "none"]

\* A transfer of `at` that fails changes nothing but fails the call.
ReadFails ==
  /\ op.at \in {"poll", "poll_irq", "read_packet", "channel", "rssi"}
  /\ \E bus \in {"spi", "gpio"} : Fault(bus)
  /\ op' = [op EXCEPT !.at = "fail"]
  /\ UNCHANGED <<chip, antenna, descriptors, driver, transport, sent, aired,
                 owed>>

ReadOnly == UNCHANGED <<chip, antenna, descriptors, driver, transport, faults,
                        sent, aired, owed>>

Poll ==
  /\ op.at = "poll"
  /\ op' = IF IrqHigh THEN [op EXCEPT !.at = "poll_irq"] ELSE Serviced
  /\ ReadOnly

Restart(irq, result) ==
  [op EXCEPT !.at = "write", !.irq = irq, !.then = result,
             !.todo = <<"ClearSeen">> \o StartReceive]

\* read_irq, and the tests of poll in their order.
PollIrqNext ==
  IF "Timeout" \in chip.irq /\ driver.transmitting
    THEN [op EXCEPT !.at = "fail"]
  ELSE IF chip.irq \cap ({"Timeout", "TxDone"} \cup ReceiveErrors) # {}
    THEN Restart(chip.irq, "listening")
  ELSE IF "RxDone" \notin chip.irq
    THEN Serviced
  ELSE [op EXCEPT !.at = "read_packet", !.irq = chip.irq]

PollIrq == op.at = "poll_irq" /\ op' = PollIrqNext /\ ReadOnly

\* get_rx_buffer_status and read_buffer.  service_radio keeps the datagram
\* when it has a valid size and none is pending; since nothing else looks at
\* pending_receive_ before the call returns, it is kept here.
Kept(d) ==
  IF d \notin {Empty, Oversize} /\ transport.pending = Nothing
    THEN d ELSE transport.pending
ReadPacket ==
  /\ op.at = "read_packet"
  /\ transport' = [transport EXCEPT !.pending = Kept(chip.buffer)]
  /\ op' = Restart(op.irq, "listening")
  /\ owed' = Nothing
  /\ UNCHANGED <<chip, antenna, descriptors, driver, faults, sent, aired>>

\* Poll has found a receive error: it does not look for RxDone, and drops a
\* packet that is there as well.
SeenError == op.irq \cap ReceiveErrors # {}

\* start_receive has finished.
Listening ==
  /\ Written("listening")
  /\ driver' = [driver EXCEPT !.receiving = TRUE, !.transmitting = FALSE]
  /\ op' = Serviced
  /\ owed' = IF SeenError THEN Nothing ELSE owed
  /\ UNCHANGED <<chip, antenna, descriptors, transport, faults, sent, aired>>

\* The rest of try_receive: the pending datagram, if any, goes to the caller.
HandOver ==
  /\ op.at = "hand_over"
  /\ transport' = [transport EXCEPT !.pending = Nothing]
  /\ op' = Idle
  /\ UNCHANGED <<chip, antenna, descriptors, driver, faults, sent, aired, owed>>

-----------------------------------------------------------------------------
(***************************************************************************)
(* try_start_transmit: busy while transmitting, while the IRQ line is      *)
(* high or a reception is latched, and while the channel is loud.          *)
(***************************************************************************)
Mutant_ChannelBusy ==
  \/ IrqHigh
  \/ chip.irq \cap {"PreambleDetected", "HeaderValid", "RxDone"} # {}
Mutant_ChannelIgnoresIrq == driver.transmitting
ChannelBusy ==
  \/ driver.transmitting
  \/ IrqHigh
  \/ chip.irq \cap {"PreambleDetected", "HeaderValid", "RxDone"} # {}

CheckChannel ==
  /\ op.at = "channel"
  /\ op' = IF ChannelBusy THEN Idle ELSE [op EXCEPT !.at = "rssi"]
  /\ ReadOnly

ListenBeforeTalk ==
  /\ op.at = "rssi"
  /\ \/ op' = Idle
     \/ op' = [op EXCEPT !.at = "write", !.todo = StartTransmit,
                         !.then = "started"]
  /\ ReadOnly

Started ==
  /\ Written("started")
  /\ driver' = [driver EXCEPT !.transmitting = TRUE, !.receiving = FALSE]
  /\ sent' = Append(sent, op.data)
  /\ op' = Idle
  /\ UNCHANGED <<chip, antenna, descriptors, transport, faults, aired, owed>>

\* close(), between two calls.
CloseTransport ==
  /\ op = Idle /\ ~transport.closed
  /\ FailClosed

-----------------------------------------------------------------------------
Initialize == \/ OpenDevices \/ RequestLines \/ EnableSwitch \/ ResetRadio
              \/ AbandonInitialize \/ Initialized

Step == \/ Write \/ WriteFails \/ ReadFails \/ Fail \/ Poll \/ PollIrq
        \/ ReadPacket \/ Listening \/ HandOver \/ CheckChannel
        \/ ListenBeforeTalk \/ Started

Next == \/ Initialize \/ Step \/ TryReceive \/ TrySend \/ CloseTransport
        \/ ChipHears \/ ChipReceives \/ ChipTransmits

Spec == Init /\ [][Next]_vars

\* A call that was begun runs to its end; the main loop calls try_receive in
\* every pass; the chip ends a transmission in its timeout at the latest.
Fairness == /\ WF_vars(Initialize)
            /\ WF_vars(Step)
            /\ WF_vars(TryReceive)
            /\ WF_vars(ChipTransmits)

FairSpec == Spec /\ Fairness

-----------------------------------------------------------------------------
\* Between two calls the flags of the driver tell what the chip does: it
\* listens with the receive interrupts on, or it sends, or it has sent and the
\* interrupt that says so is waiting.  A driver that is wrong about this is
\* deaf, or never sends again (driver lines 430-447, 655-686).
FlagsMatchChip ==
  op = Idle /\ Ready =>
    IF driver.transmitting
      THEN chip.mode = "tx" \/ (IrqHigh /\ chip.irq \cap TransmitIrqs # {})
      ELSE driver.receiving /\ chip.mode = "rx" /\ chip.mask = ReceiveIrqs

\* What try_send accepted goes on the air, once, in order, and whole: nothing
\* is accepted before the chip has ended the previous one.  Only a chip timeout
\* or the closing of the radio loses one (driver lines 602-604).
AcceptedIsAired ==
  ~driver.closed =>
    /\ IsPrefix(aired, IF op.then = "started" THEN Append(sent, op.data)
                                             ELSE sent)
    /\ Len(aired) < Len(sent) =>
         driver.transmitting /\ Len(sent) = Len(aired) + 1

\* A whole packet whose reception ended before the call in progress looked at
\* the interrupts, and that no later packet has overwritten, stays in the chip
\* until poll has read it: neither a restart of the receiver nor the start of a
\* transmission wipes it.  The one exception is an error: a HeaderError or
\* CrcError that is latched with the packet, of a reception before or after it,
\* is tested first, and poll drops both.  (A packet that ends between the look
\* and the restart can be wiped too.)  (driver lines 606-616, 693-709).
ReceptionKept ==
  owed # Nothing =>
    \/ /\ "RxDone" \in chip.irq
       /\ chip.buffer = owed
       /\ chip.mode = "rx"
    \/ SeenError

\* An ended reception or a receive error that poll has not seen yet.
Unserved == chip.irq \cap ({"RxDone"} \cup ReceiveErrors) # {}

\* What makes try_start_transmit answer Busy passes.  A transmission ends: with
\* TxDone the receiver is on again, with the chip's timeout the radio is closed.
\* An interrupt that poll acts on is acted on: an ended reception or a receive
\* error does not keep the sender waiting for ever (driver lines 655-709).  (A
\* preamble without a packet does stay latched until the next packet ends.)
RadioRecovers ==
  /\ driver.transmitting ~> ~driver.transmitting
  /\ Unserved ~> ~Unserved \/ driver.closed
=============================================================================

---------------------------- MODULE CapLoraProofs ----------------------------
(***************************************************************************)
(* For every set of datagrams and any number of sends: what the driver     *)
(* believes of the chip is so, what was accepted goes on the air, and an   *)
(* ended reception is kept until it is read, whatever transfer fails.      *)
(***************************************************************************)
EXTENDS CapLora, SequenceTheorems, TLAPS

Irqs == ReceiveIrqs \cup TransmitIrqs
Data == Outgoing \cup Heard \cup {Nothing}
Modes == {"reset", "standby", "rx", "tx", "sleep"}

Chip == [mode : Modes, irq : SUBSET Irqs, mask : SUBSET Irqs, buffer : Data,
         hearing : Data]

Commands ==
  {"PacketParams", "ClearIrq", "ClearSeen", "IrqMaskReceive",
   "IrqMaskTransmit", "SetRx", "SetTx", "SetStandby", "WriteBuffer",
   "Regulator", "Tcxo", "Calibrate", "CalibrateImage", "PacketType",
   "BufferBase", "Frequency", "Modulation", "PaConfig", "TxParams", "Ocp",
   "SyncWord"}

Places ==
  {"open", "lines", "switch", "reset", "abandon", "write", "fail", "idle",
   "poll", "poll_irq", "read_packet", "hand_over", "channel", "rssi"}

Op == [at : Places, call : {"none", "init", "receive", "send"}, data : Data,
       irq : SUBSET Irqs, todo : Seq(Commands),
       then : {"none", "initialized", "listening", "started"}]

TypeOK ==
  /\ chip \in Chip
  /\ driver \in [antenna_switch_enabled : BOOLEAN, receiving : BOOLEAN,
                 transmitting : BOOLEAN, initialized : BOOLEAN,
                 closed : BOOLEAN]
  /\ transport \in [closed : BOOLEAN, pending : Data]
  /\ op \in Op
  /\ sent \in Seq(Data) /\ aired \in Seq(Data)

RestartReceive == <<"ClearSeen">> \o StartReceive

\* The commands still to be written are the last ones of the program.
Left == Len(op.todo)
Rest(program) ==
  /\ Left <= Len(program)
  /\ \A i \in 1 .. Left : op.todo[i] = program[i + Len(program) - Left]

\* A listening chip has the receive interrupts on and none of a transmission.
ListensWell ==
  chip.mode = "rx" => chip.mask = ReceiveIrqs /\ chip.irq \cap TransmitIrqs = {}

\* A reception that is owed is latched, and poll will look or is looking; or
\* poll has seen an error with it and is restarting the receiver.
Owed ==
  owed # Nothing =>
    \/ /\ chip.mode = "rx" /\ chip.buffer = owed /\ "RxDone" \in chip.irq
       /\ op.at \in {"idle", "poll", "poll_irq", "read_packet", "channel",
                    "fail"}
    \/ /\ SeenError
       /\ (op.at = "write" /\ op.then = "listening") \/ op.at = "fail"

Booting ==
  /\ ~driver.initialized /\ ~driver.transmitting
  /\ sent = << >> /\ aired = << >> /\ chip.mode # "tx"
  /\ op.then \in {"none", "initialized"}
  /\ \/ /\ op.at \in {"open", "lines", "switch", "reset", "abandon"}
        /\ chip.mode # "rx" /\ chip.irq = {}
     \/ /\ op.at = "write" /\ op.then = "initialized"
        /\ Rest(ConfigureRadio)
        /\ Left > 0 => chip.mode # "rx" /\ chip.irq = {}
        /\ Left <= 1 => chip.mask = ReceiveIrqs
        /\ Left = 0 => chip.mode = "rx"
     \/ op.at = "fail"

Listens ==
  /\ driver.receiving /\ ~driver.transmitting
  /\ chip.mode = "rx" /\ aired = sent

\* On the air, or sent, or given up and not yet known to the driver.
Sends ==
  /\ driver.transmitting /\ chip.mask = TransmitIrqs
  /\ \/ chip.mode = "tx" /\ chip.irq = {} /\ sent = Append(aired, chip.buffer)
     \/ chip.mode = "standby" /\ chip.irq = {"TxDone"} /\ aired = sent
     \/ /\ chip.mode = "standby" /\ chip.irq = {"Timeout"}
        /\ \E d \in Data : sent = Append(aired, d)

Restarting ==
  /\ Rest(RestartReceive) /\ aired = sent
  /\ chip.mode \in {"rx", "standby"}
  /\ Left <= 2 => chip.irq \cap TransmitIrqs = {}
  /\ Left <= 1 => chip.mask = ReceiveIrqs
  /\ Left = 0 => chip.mode = "rx"

Starting ==
  /\ Rest(StartTransmit) /\ ~driver.transmitting
  /\ Left = 6 => chip.mode = "rx"
  /\ Left \in 1 .. 5 => chip.mode = "standby"
  /\ Left > 0 => aired = sent
  /\ Left <= 3 => chip.buffer = op.data
  /\ Left \in 1 .. 2 => chip.irq = {}
  /\ Left <= 1 => chip.mask = TransmitIrqs
  /\ Left = 0 =>
       \/ chip.mode = "tx" /\ chip.irq = {} /\ aired = sent
       \/ /\ chip.mode = "standby" /\ chip.irq = {"TxDone"}
          /\ aired = Append(sent, op.data)
       \/ chip.mode = "standby" /\ chip.irq = {"Timeout"} /\ aired = sent

\* A call that has failed and is about to close the radio.
Failing ==
  IF op.then = "started"
  THEN /\ ~driver.transmitting
       /\ aired = sent \/ aired = Append(sent, op.data)
       /\ chip.mode = "tx" => aired = sent /\ chip.buffer = op.data
  ELSE /\ \/ aired = sent
          \/ driver.transmitting /\ \E d \in Data : sent = Append(aired, d)
       /\ chip.mode = "tx" => /\ driver.transmitting
                              /\ sent = Append(aired, chip.buffer)

Running ==
  /\ driver.initialized
  /\ \/ /\ op.at \in {"idle", "poll", "channel", "hand_over"}
        /\ op.then = "none" /\ (Listens \/ Sends)
     \/ /\ op.at = "poll_irq" /\ op.then = "none"
        /\ Listens \/ (Sends /\ chip.mode = "standby")
     \/ op.at \in {"read_packet", "rssi"} /\ op.then = "none" /\ Listens
     \/ op.at = "write" /\ op.then = "listening" /\ Restarting
     \/ op.at = "write" /\ op.then = "started" /\ Starting
     \/ op.at = "fail" /\ Failing

Phases ==
  /\ transport.closed = driver.closed
  /\ IF driver.closed THEN op = Idle ELSE Booting \/ Running

IInv == TypeOK /\ ListensWell /\ Owed /\ Phases

-----------------------------------------------------------------------------
(* The chip and the programs written to it. *)

LEMMA CommandFields ==
  ASSUME TypeOK, NEW c
  PROVE  LET d == Commanded(c) IN
         /\ d \in Chip
         /\ d.mode = IF c = "SetStandby" THEN "standby"
                     ELSE IF c = "SetRx" THEN "rx"
                     ELSE IF c = "SetTx" THEN "tx" ELSE chip.mode
         /\ d.irq = IF c = "ClearIrq" THEN {}
                    ELSE IF c = "ClearSeen" THEN chip.irq \ op.irq
                    ELSE chip.irq
         /\ d.mask = IF c = "IrqMaskReceive" THEN ReceiveIrqs
                     ELSE IF c = "IrqMaskTransmit" THEN TransmitIrqs
                     ELSE chip.mask
         /\ d.buffer = IF c = "WriteBuffer" THEN op.data ELSE chip.buffer
<1>1. /\ chip \in Chip /\ op.data \in Data /\ Nothing \in Data
      /\ ReceiveIrqs \in SUBSET Irqs /\ TransmitIrqs \in SUBSET Irqs
      /\ chip.irq \ op.irq \in SUBSET Irqs /\ {} \in SUBSET Irqs
  BY DEF TypeOK, Data, Irqs, Chip, Op
<1>2. /\ "standby" \in Modes /\ "rx" \in Modes /\ "tx" \in Modes
  BY DEF Modes
<1>3. CASE c = "SetStandby"
  BY <1>1, <1>2, <1>3 DEF Commanded, Chip
<1>4. CASE c = "SetRx"
  BY <1>1, <1>2, <1>4 DEF Commanded, Chip
<1>5. CASE c = "SetTx"
  BY <1>1, <1>2, <1>5 DEF Commanded, Chip
<1>6. CASE c = "ClearIrq"
  BY <1>1, <1>6 DEF Commanded, Chip
<1>7. CASE c = "ClearSeen"
  BY <1>1, <1>7 DEF Commanded, Chip
<1>8. CASE c = "IrqMaskReceive"
  BY <1>1, <1>8 DEF Commanded, Chip
<1>9. CASE c = "IrqMaskTransmit"
  BY <1>1, <1>9 DEF Commanded, Chip
<1>10. CASE c = "WriteBuffer"
  BY <1>1, <1>10 DEF Commanded, Chip
<1>11. CASE c \notin {"SetStandby", "SetRx", "SetTx", "ClearIrq", "ClearSeen",
                      "IrqMaskReceive", "IrqMaskTransmit", "WriteBuffer"}
  BY <1>1, <1>11 DEF Commanded
<1> QED
  BY <1>3, <1>4, <1>5, <1>6, <1>7, <1>8, <1>9, <1>10, <1>11

LEMMA Programs ==
  /\ StartReceive \in Seq(Commands) /\ Len(StartReceive) = 4
  /\ StartReceive[1] = "PacketParams" /\ StartReceive[2] = "ClearIrq"
  /\ StartReceive[3] = "IrqMaskReceive" /\ StartReceive[4] = "SetRx"
  /\ StartTransmit \in Seq(Commands) /\ Len(StartTransmit) = 6
  /\ StartTransmit[1] = "SetStandby" /\ StartTransmit[2] = "PacketParams"
  /\ StartTransmit[3] = "WriteBuffer" /\ StartTransmit[4] = "ClearIrq"
  /\ StartTransmit[5] = "IrqMaskTransmit" /\ StartTransmit[6] = "SetTx"
BY DEF StartReceive, StartTransmit, Commands

LEMMA JoinedPrograms ==
  ASSUME NEW s \in Seq(Commands), NEW t \in Seq(Commands)
  PROVE  /\ s \o t \in Seq(Commands) /\ Len(s \o t) = Len(s) + Len(t)
         /\ \A i \in 1 .. Len(s) + Len(t) :
              (s \o t)[i] = IF i <= Len(s) THEN s[i] ELSE t[i - Len(s)]
BY ConcatProperties

LEMMA RestartProgram ==
  /\ RestartReceive \in Seq(Commands) /\ Len(RestartReceive) = 5
  /\ RestartReceive[1] = "ClearSeen" /\ RestartReceive[2] = "PacketParams"
  /\ RestartReceive[3] = "ClearIrq" /\ RestartReceive[4] = "IrqMaskReceive"
  /\ RestartReceive[5] = "SetRx"
<1>1. <<"ClearSeen">> \in Seq(Commands) /\ Len(<<"ClearSeen">>) = 1
      /\ <<"ClearSeen">>[1] = "ClearSeen"
  BY DEF Commands
<1>2. /\ RestartReceive \in Seq(Commands) /\ Len(RestartReceive) = 5
      /\ \A i \in 1 .. 5 : RestartReceive[i] =
           IF i <= 1 THEN <<"ClearSeen">>[i] ELSE StartReceive[i - 1]
  <2> DEFINE first == <<"ClearSeen">>
  <2>1. first \in Seq(Commands) /\ Len(first) = 1
    BY <1>1
  <2>2. RestartReceive = first \o StartReceive
    BY DEF RestartReceive
  <2> HIDE DEF first
  <2>3. /\ RestartReceive \in Seq(Commands) /\ Len(RestartReceive) = 5
        /\ \A i \in 1 .. 5 : RestartReceive[i] =
             IF i <= 1 THEN first[i] ELSE StartReceive[i - 1]
    <3>1. /\ first \o StartReceive \in Seq(Commands)
          /\ Len(first \o StartReceive) = Len(first) + Len(StartReceive)
          /\ \A i \in 1 .. Len(first) + Len(StartReceive) :
               (first \o StartReceive)[i] =
                 IF i <= Len(first) THEN first[i] ELSE StartReceive[i - Len(first)]
      BY <2>1, Programs, JoinedPrograms
    <3> QED
      BY <2>1, <2>2, <3>1, Programs
  <2> QED
    BY <2>3 DEF first
<1> QED
  BY <1>1, <1>2, Programs

LEMMA ConfigureProgram ==
  /\ ConfigureRadio \in Seq(Commands) /\ Len(ConfigureRadio) = 17
  /\ \A i \in 1 .. 14 :
       ConfigureRadio[i] \notin {"SetRx", "SetTx", "ClearIrq", "ClearSeen",
         "IrqMaskReceive", "IrqMaskTransmit", "WriteBuffer"}
  /\ ConfigureRadio[15] = "ClearIrq" /\ ConfigureRadio[16] = "IrqMaskReceive"
  /\ ConfigureRadio[17] = "SetRx"
<1> DEFINE before == <<"SetStandby", "Regulator", "Tcxo", "Calibrate",
             "CalibrateImage", "PacketType", "BufferBase", "Frequency",
             "Modulation", "PaConfig", "TxParams", "Ocp", "SyncWord">>
<1>1. before \in Seq(Commands) /\ Len(before) = 13
  BY DEF Commands
<1>2. \A i \in 1 .. 13 :
        before[i] \notin {"SetRx", "SetTx", "ClearIrq", "ClearSeen",
          "IrqMaskReceive", "IrqMaskTransmit", "WriteBuffer"}
  OBVIOUS
<1>3. ConfigureRadio = before \o StartReceive
  BY DEF ConfigureRadio
<1> HIDE DEF before
<1>4. /\ ConfigureRadio \in Seq(Commands) /\ Len(ConfigureRadio) = 17
      /\ \A i \in 1 .. 17 : ConfigureRadio[i] =
           IF i <= 13 THEN before[i] ELSE StartReceive[i - 13]
  <2>1. /\ before \o StartReceive \in Seq(Commands)
        /\ Len(before \o StartReceive) = Len(before) + Len(StartReceive)
        /\ \A i \in 1 .. Len(before) + Len(StartReceive) :
             (before \o StartReceive)[i] =
               IF i <= Len(before) THEN before[i]
               ELSE StartReceive[i - Len(before)]
    BY <1>1, Programs, JoinedPrograms
  <2>2. Len(before) = 13 /\ Len(before) + Len(StartReceive) = 17
    BY <1>1, Programs
  <2> QED
    BY <1>3, <2>1, <2>2
<1>5. \A i \in 1 .. 14 : i \in 1 .. 13 \/ i = 14
  OBVIOUS
<1>6. /\ ConfigureRadio[14] = "PacketParams" /\ ConfigureRadio[15] = "ClearIrq"
      /\ ConfigureRadio[16] = "IrqMaskReceive" /\ ConfigureRadio[17] = "SetRx"
  BY <1>4, Programs
<1>7. \A i \in 1 .. 13 : ConfigureRadio[i] = before[i]
  BY <1>4
<1>8. ConfigureRadio \in Seq(Commands) /\ Len(ConfigureRadio) = 17
  BY <1>4
<1>9. \A i \in 1 .. 14 :
        ConfigureRadio[i] \notin {"SetRx", "SetTx", "ClearIrq", "ClearSeen",
          "IrqMaskReceive", "IrqMaskTransmit", "WriteBuffer"}
  BY <1>2, <1>5, <1>6, <1>7
<1> QED
  BY <1>6, <1>8, <1>9

\* One command of the program is written.
LEMMA Advanced ==
  ASSUME TypeOK, op.todo # << >>, NEW program \in Seq(Commands), Rest(program)
  PROVE  /\ Left \in 1 .. Len(program) /\ Len(program) \in Nat
         /\ Head(op.todo) = program[Len(program) - Left + 1]
<1>1. op.todo \in Seq(Commands)
  BY DEF TypeOK, Op
<1>2. /\ Left \in Nat /\ Left > 0 /\ Head(op.todo) = op.todo[1]
      /\ Len(program) \in Nat
  BY <1>1 DEF Left
<1>3. Left <= Len(program) /\ op.todo[1] = program[1 + Len(program) - Left]
  BY <1>2 DEF Rest
<1> QED
  BY <1>2, <1>3

LEMMA RestAdvanced ==
  ASSUME TypeOK, op.todo # << >>, op' = [op EXCEPT !.todo = Tail(@)],
         NEW program \in Seq(Commands), Rest(program)
  PROVE  /\ Rest(program)' /\ Left' = Left - 1
         /\ op' \in Op
         /\ op'.at = op.at /\ op'.then = op.then /\ op'.data = op.data
<1>1. op.todo \in Seq(Commands)
  BY DEF TypeOK, Op
<1>2. /\ Tail(op.todo) \in Seq(Commands) /\ Len(Tail(op.todo)) = Left - 1
      /\ \A i \in 1 .. Left - 1 : Tail(op.todo)[i] = op.todo[i + 1]
  BY <1>1 DEF Left
<1>3. /\ op'.todo = Tail(op.todo)
      /\ op' \in Op
      /\ op'.at = op.at /\ op'.then = op.then /\ op'.data = op.data
  BY <1>2 DEF TypeOK, Op
<1>4. Left \in Nat /\ Len(program) \in Nat
  BY <1>1 DEF Left
<1>5. Left' = Left - 1
  BY <1>2, <1>3 DEF Left
<1>6. Rest(program)'
  <2>1. Left' <= Len(program)
    BY <1>4, <1>5 DEF Rest
  <2>2. ASSUME NEW i \in 1 .. Left'
        PROVE  op'.todo[i] = program[i + Len(program) - Left']
    <3>1. i \in 1 .. Left - 1 /\ i + 1 \in 1 .. Left
      BY <1>4, <1>5
    <3>2. op'.todo[i] = op.todo[i + 1]
      BY <1>2, <1>3, <3>1
    <3>3. op.todo[i + 1] = program[i + 1 + Len(program) - Left]
      BY <3>1 DEF Rest
    <3>4. i + 1 + Len(program) - Left = i + Len(program) - Left'
      BY <1>4, <1>5, <3>1
    <3> QED
      BY <3>2, <3>3, <3>4
  <2> QED
    BY <2>1, <2>2 DEF Rest
<1> QED
  BY <1>3, <1>5, <1>6

-----------------------------------------------------------------------------
(* The next command of each program. *)

LEMMA BootCommand ==
  ASSUME IInv, ~driver.closed, op.at = "write", op.then = "initialized",
         op.todo # << >>
  PROVE  LET d == Commanded(Head(op.todo)) IN
         /\ Left \in 1 .. 17 /\ d \in Chip /\ d.mode # "tx"
         /\ Left > 1 => d.mode # "rx" /\ d.irq = {}
         /\ Left <= 2 => d.mask = ReceiveIrqs
         /\ Left = 1 => d.mode = "rx" /\ d.irq = {}
<1> DEFINE c == Head(op.todo)
           d == Commanded(c)
<1>1. Booting /\ TypeOK
  BY DEF IInv, Phases, Running
<1>2. /\ Rest(ConfigureRadio)
      /\ Left > 0 => chip.mode # "rx" /\ chip.irq = {}
      /\ Left <= 1 => chip.mask = ReceiveIrqs
      /\ chip.mode # "tx"
  BY <1>1 DEF Booting
<1>3. Left \in 1 .. 17 /\ c = ConfigureRadio[17 - Left + 1]
  BY <1>1, <1>2, Advanced, ConfigureProgram
<1> HIDE DEF c
<1>4. /\ d \in Chip
      /\ d.mode = IF c = "SetStandby" THEN "standby"
                  ELSE IF c = "SetRx" THEN "rx"
                  ELSE IF c = "SetTx" THEN "tx" ELSE chip.mode
      /\ d.irq = IF c = "ClearIrq" THEN {}
                 ELSE IF c = "ClearSeen" THEN chip.irq \ op.irq
                 ELSE chip.irq
      /\ d.mask = IF c = "IrqMaskReceive" THEN ReceiveIrqs
                  ELSE IF c = "IrqMaskTransmit" THEN TransmitIrqs
                  ELSE chip.mask
  BY <1>1, CommandFields
<1> HIDE DEF d
<1>5. CASE Left > 3
  <2>1. 17 - Left + 1 \in 1 .. 14
    BY <1>3, <1>5
  <2>2. c \notin {"SetRx", "SetTx", "ClearIrq", "ClearSeen",
         "IrqMaskReceive", "IrqMaskTransmit", "WriteBuffer"}
    BY <1>3, <2>1, ConfigureProgram
  <2>3. d \in Chip /\ d.mode # "tx" /\ d.mode # "rx" /\ d.irq = {}
    BY <1>2, <1>3, <1>4, <2>2
  <2> QED
    BY <1>3, <1>5, <2>3 DEF d, c
<1>6. CASE Left = 3
  <2>1. c = "ClearIrq"
    BY <1>3, <1>6, ConfigureProgram
  <2>2. d \in Chip /\ d.mode # "tx" /\ d.mode # "rx" /\ d.irq = {}
    BY <1>2, <1>3, <1>4, <2>1
  <2> QED
    BY <1>3, <1>6, <2>2 DEF d, c
<1>7. CASE Left = 2
  <2>1. c = "IrqMaskReceive"
    BY <1>3, <1>7, ConfigureProgram
  <2>2. /\ d \in Chip /\ d.mode # "tx" /\ d.mode # "rx" /\ d.irq = {}
        /\ d.mask = ReceiveIrqs
    BY <1>2, <1>3, <1>4, <2>1
  <2> QED
    BY <1>3, <1>7, <2>2 DEF d, c
<1>8. CASE Left = 1
  <2>1. c = "SetRx"
    BY <1>3, <1>8, ConfigureProgram
  <2>2. d \in Chip /\ d.mode = "rx" /\ d.irq = {} /\ d.mask = ReceiveIrqs
    BY <1>2, <1>3, <1>4, <1>8, <2>1
  <2> QED
    BY <1>3, <1>8, <2>2 DEF d, c
<1> QED
  BY <1>3, <1>5, <1>6, <1>7, <1>8

LEMMA RestartCommand ==
  ASSUME IInv, ~driver.closed, op.at = "write", op.then = "listening",
         op.todo # << >>
  PROVE  LET d == Commanded(Head(op.todo)) IN
         /\ Left \in 1 .. 5 /\ d \in Chip /\ d.mode \in {"rx", "standby"}
         /\ Left <= 3 => d.irq \cap TransmitIrqs = {}
         /\ Left <= 2 => d.mask = ReceiveIrqs
         /\ Left = 1 => d.mode = "rx"
         /\ d.mode = "rx" => d.mask = ReceiveIrqs /\ d.irq \cap TransmitIrqs = {}
<1> DEFINE c == Head(op.todo)
           d == Commanded(c)
<1>1. Restarting /\ TypeOK /\ ListensWell
  BY DEF IInv, Phases, Running, Booting
<1>2. /\ Rest(RestartReceive) /\ chip.mode \in {"rx", "standby"}
      /\ Left <= 2 => chip.irq \cap TransmitIrqs = {}
      /\ Left <= 1 => chip.mask = ReceiveIrqs
      /\ chip.mode = "rx" => /\ chip.mask = ReceiveIrqs
                             /\ chip.irq \cap TransmitIrqs = {}
  BY <1>1 DEF Restarting, ListensWell
<1>3. Left \in 1 .. 5 /\ c = RestartReceive[5 - Left + 1]
  BY <1>1, <1>2, Advanced, RestartProgram
<1> HIDE DEF c
<1>4. /\ d \in Chip
      /\ d.mode = IF c = "SetStandby" THEN "standby"
                  ELSE IF c = "SetRx" THEN "rx"
                  ELSE IF c = "SetTx" THEN "tx" ELSE chip.mode
      /\ d.irq = IF c = "ClearIrq" THEN {}
                 ELSE IF c = "ClearSeen" THEN chip.irq \ op.irq
                 ELSE chip.irq
      /\ d.mask = IF c = "IrqMaskReceive" THEN ReceiveIrqs
                  ELSE IF c = "IrqMaskTransmit" THEN TransmitIrqs
                  ELSE chip.mask
  BY <1>1, CommandFields
<1> HIDE DEF d
<1>5. /\ Left = 5 => c = "ClearSeen"
      /\ Left = 4 => c = "PacketParams"
      /\ Left = 3 => c = "ClearIrq"
      /\ Left = 2 => c = "IrqMaskReceive"
      /\ Left = 1 => c = "SetRx"
  BY <1>3, RestartProgram
<1>6. Left = 1 \/ Left = 2 \/ Left = 3 \/ Left = 4 \/ Left = 5
  BY <1>3
<1>7. /\ d.mode \in {"rx", "standby"}
      /\ Left <= 3 => d.irq \cap TransmitIrqs = {}
      /\ Left <= 2 => d.mask = ReceiveIrqs
      /\ Left = 1 => d.mode = "rx"
      /\ d.mode = "rx" => d.mask = ReceiveIrqs /\ d.irq \cap TransmitIrqs = {}
  BY <1>2, <1>4, <1>5, <1>6
<1> QED
  BY <1>3, <1>4, <1>7 DEF c, d

LEMMA StartCommand ==
  ASSUME IInv, ~driver.closed, op.at = "write", op.then = "started",
         op.todo # << >>
  PROVE  LET d == Commanded(Head(op.todo)) IN
         /\ Left \in 1 .. 6 /\ d \in Chip
         /\ Left > 1 => d.mode = "standby"
         /\ Left <= 4 => d.buffer = op.data
         /\ Left <= 3 => d.irq = {}
         /\ Left <= 2 => d.mask = TransmitIrqs
         /\ Left = 1 => d.mode = "tx"
<1> DEFINE c == Head(op.todo)
           d == Commanded(c)
<1>1. Starting /\ TypeOK
  BY DEF IInv, Phases, Running, Booting
<1>2. Rest(StartTransmit)
  BY <1>1 DEF Starting
<1>3. Left \in 1 .. 6 /\ c = StartTransmit[6 - Left + 1]
  BY <1>1, <1>2, Advanced, Programs
<1>4. /\ Left \in 1 .. 5 => chip.mode = "standby"
      /\ Left <= 3 => chip.buffer = op.data
      /\ Left \in 1 .. 2 => chip.irq = {}
      /\ Left <= 1 => chip.mask = TransmitIrqs
  BY <1>1 DEF Starting
<1> HIDE DEF c
<1>5. /\ d \in Chip
      /\ d.mode = IF c = "SetStandby" THEN "standby"
                  ELSE IF c = "SetRx" THEN "rx"
                  ELSE IF c = "SetTx" THEN "tx" ELSE chip.mode
      /\ d.irq = IF c = "ClearIrq" THEN {}
                 ELSE IF c = "ClearSeen" THEN chip.irq \ op.irq
                 ELSE chip.irq
      /\ d.mask = IF c = "IrqMaskReceive" THEN ReceiveIrqs
                  ELSE IF c = "IrqMaskTransmit" THEN TransmitIrqs
                  ELSE chip.mask
      /\ d.buffer = IF c = "WriteBuffer" THEN op.data ELSE chip.buffer
  BY <1>1, CommandFields
<1> HIDE DEF d
<1>6. /\ Left = 6 => c = "SetStandby"
      /\ Left = 5 => c = "PacketParams"
      /\ Left = 4 => c = "WriteBuffer"
      /\ Left = 3 => c = "ClearIrq"
      /\ Left = 2 => c = "IrqMaskTransmit"
      /\ Left = 1 => c = "SetTx"
  BY <1>3, Programs
<1>7. Left = 1 \/ Left = 2 \/ Left = 3 \/ Left = 4 \/ Left = 5 \/ Left = 6
  BY <1>3
<1>8. /\ Left > 1 => d.mode = "standby"
      /\ Left <= 4 => d.buffer = op.data
      /\ Left <= 3 => d.irq = {}
      /\ Left <= 2 => d.mask = TransmitIrqs
      /\ Left = 1 => d.mode = "tx"
  BY <1>4, <1>5, <1>6, <1>7
<1> QED
  BY <1>3, <1>5, <1>8 DEF c, d

-----------------------------------------------------------------------------
(* Steps: the commands. *)

LEMMA IdleFields ==
  /\ Idle \in Op /\ Idle.at = "idle" /\ Idle.then = "none"
  /\ Idle.todo = << >> /\ Idle.irq = {} /\ Idle.data = Nothing
BY DEF Idle, Op, Places, Data

\* A radio that is open is being set up or runs.
LEMMA OpenPhases ==
  ASSUME IInv, op.at # "idle"
  PROVE  ~driver.closed /\ ~transport.closed /\ (Booting \/ Running)
BY IdleFields DEF IInv, Phases, TypeOK

LEMMA WriteKeeps ==
  ASSUME IInv, Write
  PROVE  IInv'
<1>1. /\ op.at = "write" /\ op.todo # << >>
      /\ chip' = Commanded(Head(op.todo))
      /\ op' = [op EXCEPT !.todo = Tail(@)]
      /\ UNCHANGED <<driver, transport, sent, aired, owed>>
  BY DEF Write
<1>2. /\ ~driver.closed /\ TypeOK /\ transport.closed = driver.closed
      /\ Owed'
  <2>1. op'.at = op.at /\ op'.then = op.then /\ op'.irq = op.irq
    BY <1>1 DEF IInv, TypeOK, Op
  <2> QED
    BY <1>1, <2>1, OpenPhases DEF IInv, Phases, Owed, SeenError
<1>3. CASE op.then = "initialized"
  <2>1. Booting /\ Rest(ConfigureRadio)
    BY <1>1, <1>2, <1>3, OpenPhases DEF Running, Booting
  <2>2. /\ Left \in 1 .. 17 /\ chip' \in Chip /\ chip'.mode # "tx"
        /\ Left > 1 => chip'.mode # "rx" /\ chip'.irq = {}
        /\ Left <= 2 => chip'.mask = ReceiveIrqs
        /\ Left = 1 => chip'.mode = "rx" /\ chip'.irq = {}
    BY <1>1, <1>2, <1>3, BootCommand
  <2>3. /\ Rest(ConfigureRadio)' /\ Left' = Left - 1 /\ op' \in Op
        /\ op'.at = op.at /\ op'.then = op.then
    BY <1>1, <1>2, <2>1, RestAdvanced, ConfigureProgram
  <2>4. Booting'
    BY <1>1, <1>3, <2>1, <2>2, <2>3 DEF Booting
  <2>5. ListensWell'
    BY <2>2 DEF ListensWell
  <2> QED
    BY <1>1, <1>2, <2>2, <2>3, <2>4, <2>5 DEF IInv, TypeOK, Phases
<1>4. CASE op.then = "listening"
  <2>1. Restarting /\ Rest(RestartReceive) /\ driver.initialized
    BY <1>1, <1>2, <1>4, OpenPhases DEF Running, Booting, Restarting
  <2>2. /\ Left \in 1 .. 5 /\ chip' \in Chip /\ chip'.mode \in {"rx", "standby"}
        /\ Left <= 3 => chip'.irq \cap TransmitIrqs = {}
        /\ Left <= 2 => chip'.mask = ReceiveIrqs
        /\ Left = 1 => chip'.mode = "rx"
        /\ chip'.mode = "rx" => /\ chip'.mask = ReceiveIrqs
                                /\ chip'.irq \cap TransmitIrqs = {}
    BY <1>1, <1>2, <1>4, RestartCommand
  <2>3. /\ Rest(RestartReceive)' /\ Left' = Left - 1 /\ op' \in Op
        /\ op'.at = op.at /\ op'.then = op.then
    BY <1>1, <1>2, <2>1, RestAdvanced, RestartProgram
  <2>4. Restarting'
    BY <1>1, <2>1, <2>2, <2>3 DEF Restarting
  <2>5. ListensWell'
    BY <2>2 DEF ListensWell
  <2> QED
    BY <1>1, <1>2, <1>4, <2>1, <2>2, <2>3, <2>4, <2>5
       DEF IInv, TypeOK, Phases, Running
<1>5. CASE op.then = "started"
  <2>1. Starting /\ Rest(StartTransmit) /\ driver.initialized
    BY <1>1, <1>2, <1>5, OpenPhases DEF Running, Booting, Starting
  <2>2. /\ Left \in 1 .. 6 /\ chip' \in Chip
        /\ Left > 1 => chip'.mode = "standby"
        /\ Left <= 4 => chip'.buffer = op.data
        /\ Left <= 3 => chip'.irq = {}
        /\ Left <= 2 => chip'.mask = TransmitIrqs
        /\ Left = 1 => chip'.mode = "tx"
    BY <1>1, <1>2, <1>5, StartCommand
  <2>3. /\ Rest(StartTransmit)' /\ Left' = Left - 1 /\ op' \in Op
        /\ op'.at = op.at /\ op'.then = op.then /\ op'.data = op.data
    BY <1>1, <1>2, <2>1, RestAdvanced, Programs
  <2>4. Starting'
    BY <1>1, <2>1, <2>2, <2>3 DEF Starting
  <2>5. ListensWell'
    BY <2>2 DEF ListensWell
  <2> QED
    BY <1>1, <1>2, <1>5, <2>1, <2>2, <2>3, <2>4, <2>5
       DEF IInv, TypeOK, Phases, Running
<1> QED
  BY <1>1, <1>2, <1>3, <1>4, <1>5, OpenPhases DEF Booting, Running

LEMMA WriteFailsKeeps ==
  ASSUME IInv, WriteFails
  PROVE  IInv'
<1> DEFINE d == Commanded(Head(op.todo))
<1>1. /\ op.at = "write" /\ op.todo # << >>
      /\ chip' = chip \/ chip' = d
      /\ op' = [op EXCEPT !.at = "fail"]
      /\ UNCHANGED <<driver, transport, sent, aired, owed>>
  BY DEF WriteFails
<1>2. /\ ~driver.closed /\ TypeOK /\ transport.closed = driver.closed
      /\ Owed' /\ ListensWell
  <2>1. op'.at = "fail" /\ op'.irq = op.irq
    BY <1>1 DEF IInv, TypeOK, Op
  <2> QED
    BY <1>1, <2>1, OpenPhases DEF IInv, Phases, Owed, SeenError
<1>3. /\ op' \in Op /\ op'.at = "fail" /\ op'.then = op.then
      /\ op'.data = op.data
  BY <1>1, <1>2 DEF TypeOK, Op, Places
<1>4. CASE op.then = "initialized"
  <2>1. Booting
    BY <1>1, <1>2, <1>4, OpenPhases DEF Running
  <2>2. /\ Left \in 1 .. 17 /\ d \in Chip /\ d.mode # "tx"
        /\ Left > 1 => d.mode # "rx" /\ d.irq = {}
        /\ Left <= 2 => d.mask = ReceiveIrqs
        /\ Left = 1 => d.mode = "rx" /\ d.irq = {}
    BY <1>1, <1>2, <1>4, BootCommand
  <2> HIDE DEF d
  <2>3. chip' \in Chip /\ chip'.mode # "tx" /\ ListensWell'
    BY <1>1, <1>2, <2>1, <2>2 DEF Booting, ListensWell, TypeOK
  <2>4. Booting'
    BY <1>1, <1>3, <2>1, <2>3 DEF Booting
  <2> QED
    BY <1>1, <1>2, <1>3, <2>3, <2>4 DEF IInv, TypeOK, Phases
<1>5. CASE op.then = "listening"
  <2>1. Restarting /\ driver.initialized
    BY <1>1, <1>2, <1>5, OpenPhases DEF Running, Booting
  <2>2. /\ d \in Chip /\ d.mode \in {"rx", "standby"}
        /\ d.mode = "rx" => d.mask = ReceiveIrqs /\ d.irq \cap TransmitIrqs = {}
    BY <1>1, <1>2, <1>5, RestartCommand
  <2> HIDE DEF d
  <2>3. chip' \in Chip /\ chip'.mode # "tx" /\ ListensWell'
    BY <1>1, <1>2, <2>1, <2>2 DEF Restarting, ListensWell, TypeOK
  <2>4. Failing'
    BY <1>1, <1>3, <1>5, <2>1, <2>3 DEF Failing, Restarting
  <2> QED
    BY <1>1, <1>2, <1>3, <2>1, <2>3, <2>4 DEF IInv, TypeOK, Phases, Running
<1>6. CASE op.then = "started"
  <2>1. Starting /\ driver.initialized
    BY <1>1, <1>2, <1>6, OpenPhases DEF Running, Booting
  <2>2. /\ Left \in 1 .. 6 /\ d \in Chip
        /\ Left > 1 => d.mode = "standby"
        /\ Left <= 4 => d.buffer = op.data
        /\ Left = 1 => d.mode = "tx"
    BY <1>1, <1>2, <1>6, StartCommand
  <2> HIDE DEF d
  <2>3. /\ chip' \in Chip /\ ListensWell'
        /\ chip'.mode = "tx" => chip'.buffer = op.data
    BY <1>1, <1>2, <2>1, <2>2 DEF Starting, ListensWell, TypeOK
  <2>4. Failing'
    BY <1>1, <1>3, <1>6, <2>1, <2>2, <2>3 DEF Failing, Starting
  <2> QED
    BY <1>1, <1>2, <1>3, <2>1, <2>3, <2>4 DEF IInv, TypeOK, Phases, Running
<1> QED
  BY <1>1, <1>2, <1>4, <1>5, <1>6, OpenPhases DEF Booting, Running

-----------------------------------------------------------------------------
(* Steps: the chip on its own. *)

\* Interrupts and packets of a listening chip.
LEMMA ListeningChip ==
  ASSUME IInv, chip.mode = "rx", chip' \in Chip, chip'.mode = "rx",
         chip'.mask = chip.mask, chip'.irq \cap TransmitIrqs = {},
         UNCHANGED <<driver, transport, op, sent, aired>>, Owed'
  PROVE  IInv'
<1>1. ListensWell'
  BY DEF IInv, ListensWell
<1>2. TypeOK'
  BY DEF IInv, TypeOK
<1>3. Booting => Booting'
  BY DEF Booting, IInv, ListensWell, Rest, Left
<1>4. Listens => Listens'
  BY DEF Listens
<1>5. ~Sends
  BY DEF Sends
<1>6. Restarting => Restarting'
  BY DEF Restarting, IInv, ListensWell, Rest, Left
<1>7. Starting => Starting'
  <2> SUFFICES ASSUME Starting PROVE Starting'
    OBVIOUS
  <2>1. Left \in Nat /\ Left <= 6
    BY Programs DEF IInv, TypeOK, Op, Left, Starting, Rest
  <2>2. Left = 6
    <3>1. Left = 6 \/ Left \in 1 .. 5 \/ Left = 0
      BY <2>1
    <3> QED
      BY <3>1 DEF Starting
  <2>3. Rest(StartTransmit)' /\ Left' = 6 /\ ~driver.transmitting /\ aired = sent
    BY <2>2 DEF Starting, Rest, Left
  <2> QED
    BY <2>3 DEF Starting
<1>8. Failing => Failing'
  BY DEF Failing
<1>9. Running => Running'
  BY <1>4, <1>5, <1>6, <1>7, <1>8 DEF Running
<1> QED
  BY <1>1, <1>2, <1>3, <1>9 DEF IInv, Phases

LEMMA ChipHearsKeeps ==
  ASSUME IInv, ChipHears
  PROVE  IInv'
<1>1. PICK h \in Heard :
        chip' = Raise([chip EXCEPT !.hearing = h], {"PreambleDetected"})
  BY DEF ChipHears
<1>2. /\ chip.mode = "rx" /\ chip \in Chip /\ chip.mask = ReceiveIrqs
      /\ chip.irq \cap TransmitIrqs = {} /\ h \in Data
      /\ UNCHANGED <<driver, transport, op, sent, aired, owed>>
  BY DEF ChipHears, ChipOnly, IInv, TypeOK, ListensWell, Data
<1>3. /\ chip' \in Chip /\ chip'.mode = "rx" /\ chip'.mask = chip.mask
      /\ chip'.buffer = chip.buffer
      /\ chip'.irq = chip.irq \cup ({"PreambleDetected"} \cap chip.mask)
  BY <1>1, <1>2 DEF Raise, Chip
<1>4. chip'.irq \cap TransmitIrqs = {}
  BY <1>2, <1>3 DEF TransmitIrqs
<1>5. Owed'
  BY <1>2, <1>3 DEF IInv, Owed, SeenError
<1> QED
  BY <1>2, <1>3, <1>4, <1>5, ListeningChip

LEMMA ChipReceivesKeeps ==
  ASSUME IInv, ChipReceives
  PROVE  IInv'
<1>1. /\ chip.mode = "rx" /\ chip.hearing # Nothing /\ chip \in Chip
      /\ chip.mask = ReceiveIrqs /\ chip.irq \cap TransmitIrqs = {}
      /\ chip.hearing \in Data /\ Nothing \in Data
      /\ UNCHANGED <<driver, transport, op, sent, aired>>
  BY DEF ChipReceives, ChipOnly, IInv, TypeOK, ListensWell, Data, Chip
<1> DEFINE ended == [chip EXCEPT !.hearing = Nothing]
           whole == [ended EXCEPT !.buffer = chip.hearing]
<1>2. /\ ended \in Chip /\ ended.mode = "rx" /\ ended.mask = chip.mask
      /\ ended.irq = chip.irq /\ ended.buffer = chip.buffer
  BY <1>1 DEF Chip
<1>3. /\ whole \in Chip /\ whole.mode = "rx" /\ whole.mask = chip.mask
      /\ whole.irq = chip.irq /\ whole.buffer = chip.hearing
  <2> HIDE DEF ended
  <2> QED
    BY <1>1, <1>2 DEF Chip
<1>4. \A c \in Chip : \A bits :
        LET r == Raise(c, bits) IN
        /\ r \in Chip /\ r.mode = c.mode /\ r.mask = c.mask
        /\ r.buffer = c.buffer /\ r.irq = c.irq \cup (bits \cap c.mask)
  BY DEF Raise, Chip
<1>5. \/ /\ chip' = Raise(whole, {"HeaderValid", "RxDone"})
         /\ owed' = IF Unobserved THEN chip.hearing ELSE Nothing
      \/ chip' = Raise(whole, {"HeaderValid", "RxDone", "CrcError"})
         /\ owed' = Nothing
      \/ chip' = Raise(ended, {"HeaderError"}) /\ owed' = owed
      \/ chip' = ended /\ owed' = owed
  BY DEF ChipReceives
<1> HIDE DEF ended, whole
<1>6. CASE /\ chip' = Raise(whole, {"HeaderValid", "RxDone"})
           /\ owed' = IF Unobserved THEN chip.hearing ELSE Nothing
  <2>1. /\ chip' \in Chip /\ chip'.mode = "rx" /\ chip'.mask = chip.mask
        /\ chip'.buffer = chip.hearing
        /\ chip'.irq = chip.irq \cup ({"HeaderValid", "RxDone"} \cap chip.mask)
    BY <1>1, <1>3, <1>4, <1>6
  <2>2. chip'.irq \cap TransmitIrqs = {}
    BY <1>1, <2>1 DEF TransmitIrqs
  <2>3. Owed'
    BY <1>1, <1>6, <2>1 DEF Owed, Unobserved, ReceiveErrors, ReceiveIrqs
  <2> QED
    BY <1>1, <2>1, <2>2, <2>3, ListeningChip
<1>7. CASE chip' = Raise(whole, {"HeaderValid", "RxDone", "CrcError"})
           /\ owed' = Nothing
  <2>1. /\ chip' \in Chip /\ chip'.mode = "rx" /\ chip'.mask = chip.mask
        /\ chip'.irq = chip.irq
             \cup ({"HeaderValid", "RxDone", "CrcError"} \cap chip.mask)
    BY <1>1, <1>3, <1>4, <1>7
  <2>2. chip'.irq \cap TransmitIrqs = {}
    BY <1>1, <2>1 DEF TransmitIrqs
  <2>3. Owed'
    BY <1>7 DEF Owed
  <2> QED
    BY <1>1, <2>1, <2>2, <2>3, ListeningChip
<1>8. CASE chip' = Raise(ended, {"HeaderError"}) /\ owed' = owed
  <2>1. /\ chip' \in Chip /\ chip'.mode = "rx" /\ chip'.mask = chip.mask
        /\ chip'.buffer = chip.buffer
        /\ chip'.irq = chip.irq \cup ({"HeaderError"} \cap chip.mask)
    BY <1>1, <1>2, <1>4, <1>8
  <2>2. chip'.irq \cap TransmitIrqs = {}
    BY <1>1, <2>1 DEF TransmitIrqs
  <2>3. Owed'
    BY <1>1, <1>8, <2>1 DEF IInv, Owed, SeenError
  <2> QED
    BY <1>1, <2>1, <2>2, <2>3, ListeningChip
<1>9. CASE chip' = ended /\ owed' = owed
  <2>1. Owed'
    BY <1>1, <1>2, <1>9 DEF IInv, Owed, SeenError
  <2> QED
    BY <1>1, <1>2, <1>9, <2>1, ListeningChip
<1> QED
  BY <1>5, <1>6, <1>7, <1>8, <1>9

LEMMA AppendedTo ==
  ASSUME NEW s \in Seq(Data), NEW d \in Data
  PROVE  Append(s, d) \in Seq(Data)
OBVIOUS

LEMMA ChipTransmitsKeeps ==
  ASSUME IInv, ChipTransmits
  PROVE  IInv'
<1> DEFINE done == [chip EXCEPT !.mode = "standby"]
<1>1. /\ chip.mode = "tx" /\ chip \in Chip /\ chip.buffer \in Data
      /\ UNCHANGED <<driver, transport, op, sent, owed>>
      /\ aired \in Seq(Data)
  BY DEF ChipTransmits, ChipOnly, IInv, TypeOK, Chip
<1>2. /\ done \in Chip /\ done.mode = "standby" /\ done.mask = chip.mask
      /\ done.irq = chip.irq /\ done.buffer = chip.buffer
  BY <1>1 DEF Chip, Modes
<1>3. \A c \in Chip : \A bits :
        LET r == Raise(c, bits) IN
        /\ r \in Chip /\ r.mode = c.mode /\ r.mask = c.mask
        /\ r.buffer = c.buffer /\ r.irq = c.irq \cup (bits \cap c.mask)
  BY DEF Raise, Chip
<1>4. \/ chip' = Raise(done, {"TxDone"}) /\ aired' = Append(aired, chip.buffer)
      \/ chip' = Raise(done, {"Timeout"}) /\ aired' = aired
  BY DEF ChipTransmits
<1> HIDE DEF done
<1>5. /\ chip' \in Chip /\ chip'.mode = "standby" /\ chip'.mask = chip.mask
      /\ chip'.buffer = chip.buffer
      /\ \/ /\ chip'.irq = chip.irq \cup ({"TxDone"} \cap chip.mask)
            /\ aired' = Append(aired, chip.buffer)
         \/ /\ chip'.irq = chip.irq \cup ({"Timeout"} \cap chip.mask)
            /\ aired' = aired
  BY <1>2, <1>3, <1>4
<1>6. TypeOK'
  BY <1>1, <1>5, AppendedTo DEF IInv, TypeOK
<1>7. ListensWell' /\ Owed'
  BY <1>1, <1>5 DEF IInv, ListensWell, Owed, SeenError
<1>8. ~driver.closed => Running
  BY <1>1 DEF IInv, Phases, Booting
<1>9. Sends => Sends'
  BY <1>1, <1>5 DEF Sends, TransmitIrqs
<1>10. Starting => Starting'
  <2> SUFFICES ASSUME Starting PROVE Starting'
    OBVIOUS
  <2>1. Left \in Nat /\ Left <= 6
    BY Programs DEF IInv, TypeOK, Op, Left, Starting, Rest
  <2>2. Left = 0
    <3>1. Left = 6 \/ Left \in 1 .. 5 \/ Left = 0
      BY <2>1
    <3> QED
      BY <1>1, <3>1 DEF Starting
  <2>3. /\ Rest(StartTransmit)' /\ Left' = 0
        /\ chip.mask = TransmitIrqs /\ chip.irq = {} /\ aired = sent
        /\ chip.buffer = op.data /\ ~driver.transmitting
    BY <1>1, <2>2 DEF Starting, Rest, Left
  <2>4. \/ /\ chip'.mode = "standby" /\ chip'.irq = {"TxDone"}
           /\ aired' = Append(sent', op'.data)
        \/ chip'.mode = "standby" /\ chip'.irq = {"Timeout"} /\ aired' = sent'
    BY <1>1, <1>5, <2>3 DEF TransmitIrqs
  <2> QED
    BY <1>1, <1>5, <2>3, <2>4 DEF Starting
<1>11. Failing => Failing'
  BY <1>1, <1>5 DEF Failing
<1>12. Running => Running'
  BY <1>1, <1>5, <1>9, <1>10, <1>11 DEF Running, Listens, Restarting
<1> QED
  BY <1>1, <1>6, <1>7, <1>8, <1>12 DEF IInv, Phases

-----------------------------------------------------------------------------
(* Steps: closing and setting up. *)

\* Whatever the outcome of the last transfers, the radio is closed.
LEMMA FailClosedKeeps ==
  ASSUME IInv, FailClosed
  PROVE  IInv'
<1>1. /\ transport' = [closed |-> TRUE, pending |-> Nothing] /\ op' = Idle
      /\ owed' = Nothing /\ UNCHANGED <<sent, aired>> /\ Shutdown
  BY DEF FailClosed, Close
<1>2. /\ chip' \in Chip /\ chip'.mode \in {chip.mode, "sleep"}
      /\ chip'.mask = chip.mask /\ chip'.irq = chip.irq
  <2>1. chip \in Chip
    BY DEF IInv, TypeOK
  <2> DEFINE asleep == [chip EXCEPT !.mode = "sleep", !.hearing = Nothing]
  <2>2. /\ asleep \in Chip /\ asleep.mode = "sleep"
        /\ asleep.mask = chip.mask /\ asleep.irq = chip.irq
    <3>1. "sleep" \in Modes /\ Nothing \in Data
      BY DEF Modes, Data
    <3> QED
      BY <2>1, <3>1 DEF Chip
  <2>3. chip' = chip \/ chip' = asleep
    BY <1>1 DEF Shutdown, SleepOutcomes
  <2> HIDE DEF asleep
  <2> QED
    BY <2>1, <2>2, <2>3
<1>3. /\ driver' \in [antenna_switch_enabled : BOOLEAN, receiving : BOOLEAN,
                      transmitting : BOOLEAN, initialized : BOOLEAN,
                      closed : BOOLEAN]
      /\ driver'.closed = TRUE
  BY <1>1 DEF Shutdown, IInv, TypeOK
<1>4. TypeOK'
  BY <1>1, <1>2, <1>3, IdleFields DEF IInv, TypeOK, Data
<1>5. ListensWell' /\ Owed'
  BY <1>1, <1>2 DEF IInv, ListensWell, Owed
<1> QED
  BY <1>1, <1>3, <1>4, <1>5 DEF IInv, Phases

LEMMA OpMoved ==
  ASSUME TypeOK, NEW a \in Places, op' = [op EXCEPT !.at = a]
  PROVE  /\ op' \in Op /\ op'.at = a /\ op'.then = op.then
         /\ op'.data = op.data /\ op'.todo = op.todo
BY DEF TypeOK, Op

\* A step of the initialization before the first command.
LEMMA BootStep ==
  ASSUME IInv, op.at \in {"open", "lines", "switch", "reset"},
         op' = [op EXCEPT !.at = "lines"] \/ op' = [op EXCEPT !.at = "switch"]
           \/ op' = [op EXCEPT !.at = "reset"]
           \/ op' = [op EXCEPT !.at = "abandon"],
         UNCHANGED <<chip, transport, sent, aired, owed>>,
         \/ driver' = driver
         \/ driver' = [driver EXCEPT !.antenna_switch_enabled = TRUE]
  PROVE  IInv'
<1>1. /\ ~driver.closed /\ Booting /\ TypeOK /\ owed = Nothing
      /\ transport.closed = driver.closed /\ ListensWell
  BY OpenPhases DEF Running, IInv, Phases, Owed
<1>2. /\ op' \in Op /\ op'.at \in {"lines", "switch", "reset", "abandon"}
      /\ op'.then = op.then
  BY <1>1, OpMoved DEF Places
<1>3. /\ driver' \in [antenna_switch_enabled : BOOLEAN, receiving : BOOLEAN,
                      transmitting : BOOLEAN, initialized : BOOLEAN,
                      closed : BOOLEAN]
      /\ driver'.closed = driver.closed
      /\ driver'.initialized = driver.initialized
      /\ driver'.transmitting = driver.transmitting
  BY <1>1 DEF TypeOK
<1>4. Booting'
  BY <1>1, <1>2, <1>3 DEF Booting
<1> QED
  BY <1>1, <1>2, <1>3, <1>4 DEF IInv, TypeOK, ListensWell, Owed, Phases

LEMMA ResetRadioKeeps ==
  ASSUME IInv, ResetRadio
  PROVE  IInv'
<1>1. /\ op.at = "reset" /\ UNCHANGED <<chip, driver, transport, sent, aired, owed>>
  BY DEF ResetRadio
<1>2. CASE op' = [op EXCEPT !.at = "abandon"]
  BY <1>1, <1>2, BootStep
<1>3. CASE op' = [op EXCEPT !.at = "write", !.todo = ConfigureRadio,
                            !.then = "initialized"]
  <2>1. /\ ~driver.closed /\ Booting /\ TypeOK /\ owed = Nothing
        /\ transport.closed = driver.closed /\ ListensWell
    BY <1>1, OpenPhases DEF Running, IInv, Phases, Owed
  <2>2. /\ op' \in Op /\ op'.at = "write" /\ op'.then = "initialized"
        /\ op'.todo = ConfigureRadio
    BY <1>3, <2>1, ConfigureProgram DEF TypeOK, Op, Places
  <2>3. Rest(ConfigureRadio)' /\ Left' = 17
    BY <2>2, ConfigureProgram DEF Rest, Left
  <2>4. Booting'
    BY <1>1, <2>1, <2>2, <2>3 DEF Booting
  <2> QED
    BY <1>1, <2>1, <2>2, <2>4 DEF IInv, TypeOK, ListensWell, Owed, Phases
<1> QED
  BY <1>2, <1>3 DEF ResetRadio

LEMMA InitializedKeeps ==
  ASSUME IInv, Initialized
  PROVE  IInv'
<1>1. /\ op.at = "write" /\ op.todo = << >> /\ op.then = "initialized"
      /\ driver' = [driver EXCEPT !.initialized = TRUE, !.receiving = TRUE,
                                  !.transmitting = FALSE]
      /\ op' = Idle /\ UNCHANGED <<chip, transport, sent, aired, owed>>
  BY DEF Initialized, Written
<1>2. /\ ~driver.closed /\ Booting /\ TypeOK /\ owed = Nothing
      /\ transport.closed = driver.closed /\ ListensWell
  BY <1>1, OpenPhases DEF Running, IInv, Phases, Owed
<1>3. chip.mode = "rx" /\ aired = sent
  <2>1. Left = 0
    BY <1>1 DEF Left
  <2> QED
    BY <1>1, <1>2, <2>1 DEF Booting
<1>4. /\ driver' \in [antenna_switch_enabled : BOOLEAN, receiving : BOOLEAN,
                      transmitting : BOOLEAN, initialized : BOOLEAN,
                      closed : BOOLEAN]
      /\ driver'.initialized = TRUE /\ driver'.receiving = TRUE
      /\ driver'.transmitting = FALSE /\ driver'.closed = driver.closed
  BY <1>1, <1>2 DEF TypeOK
<1>5. Running'
  BY <1>1, <1>3, <1>4, IdleFields DEF Running, Listens
<1> QED
  BY <1>1, <1>2, <1>4, <1>5, IdleFields
     DEF IInv, TypeOK, ListensWell, Owed, Phases

LEMMA InitializeKeeps ==
  ASSUME IInv, Initialize
  PROVE  IInv'
<1>1. CASE OpenDevices
  BY <1>1, BootStep DEF OpenDevices
<1>2. CASE RequestLines
  BY <1>2, BootStep DEF RequestLines
<1>3. CASE EnableSwitch
  BY <1>3, BootStep DEF EnableSwitch
<1> QED
  BY <1>1, <1>2, <1>3, ResetRadioKeeps, InitializedKeeps, FailClosedKeeps
     DEF Initialize, AbandonInitialize

-----------------------------------------------------------------------------
(* Steps: the calls. *)

LEMMA ServicedFields ==
  ASSUME TypeOK
  PROVE  /\ Serviced \in Op /\ Serviced.at \in {"channel", "hand_over"}
         /\ Serviced.then = "none"
BY DEF TypeOK, Op, Places, Serviced

LEMMA RestartFields ==
  ASSUME TypeOK, NEW irq \in SUBSET Irqs
  PROVE  LET o == Restart(irq, "listening") IN
         /\ o \in Op /\ o.at = "write" /\ o.then = "listening"
         /\ o.todo = RestartReceive
BY RestartProgram DEF TypeOK, Op, Places, Restart, RestartReceive

\* A step of a call that only looks: the phase is named by where it goes.
LEMMA CallStep ==
  ASSUME IInv, ~driver.closed, Running, op' \in Op, owed = Nothing \/ Owed',
         UNCHANGED <<chip, driver, transport, sent, aired, owed>>, Running'
  PROVE  IInv'
BY DEF IInv, TypeOK, ListensWell, Owed, Phases

LEMMA IdleRuns ==
  ASSUME IInv, op = Idle, ~transport.closed
  PROVE  /\ ~driver.closed /\ driver.initialized /\ Running
         /\ Listens \/ Sends
BY IdleFields DEF IInv, Phases, Booting, Running

LEMMA TryKeeps ==
  ASSUME IInv, TryReceive \/ TrySend
  PROVE  IInv'
<1>1. /\ op = Idle /\ ~transport.closed
      /\ UNCHANGED <<chip, driver, transport, sent, aired, owed>>
  BY DEF TryReceive, TrySend
<1>2. op' \in Op /\ op'.at = "poll" /\ op'.then = "none"
  <2>1. CASE TryReceive
    <3>1. op' = [Idle EXCEPT !.call = "receive", !.at = "poll"]
      BY <2>1 DEF TryReceive
    <3> QED
      BY <3>1, IdleFields DEF Op, Places
  <2>2. CASE TrySend
    <3>1. PICK d \in Outgoing :
            op' = [Idle EXCEPT !.call = "send", !.at = "poll", !.data = d]
      BY <2>2 DEF TrySend
    <3>2. d \in Data
      BY DEF Data
    <3> QED
      BY <3>1, <3>2, IdleFields DEF Op, Places
  <2> QED
    BY <2>1, <2>2
<1>3. /\ ~driver.closed /\ driver.initialized /\ Running
      /\ Listens \/ Sends
  BY <1>1, IdleRuns
<1>4. Running'
  BY <1>1, <1>2, <1>3 DEF Running, Listens, Sends
<1>5. Owed'
  BY <1>1, <1>2, IdleFields DEF IInv, Owed
<1> QED
  BY <1>1, <1>2, <1>3, <1>4, <1>5, CallStep

LEMMA ReadFailsKeeps ==
  ASSUME IInv, ReadFails
  PROVE  IInv'
<1>1. /\ op.at \in {"poll", "poll_irq", "read_packet", "channel", "rssi"}
      /\ op' = [op EXCEPT !.at = "fail"]
      /\ UNCHANGED <<chip, driver, transport, sent, aired, owed>>
  BY DEF ReadFails
<1>2. /\ ~driver.closed /\ Running /\ driver.initialized /\ TypeOK
      /\ op.then = "none" /\ (Listens \/ Sends)
  BY <1>1, OpenPhases DEF Booting, Running, IInv
<1>3. op' \in Op /\ op'.at = "fail" /\ op'.then = "none"
  BY <1>1, <1>2, OpMoved DEF Places
<1>4. Failing'
  <2>1. /\ \/ aired = sent
           \/ driver.transmitting /\ \E d \in Data : sent = Append(aired, d)
        /\ chip.mode = "tx" => /\ driver.transmitting
                               /\ sent = Append(aired, chip.buffer)
    <3>1. chip.buffer \in Data
      BY <1>2 DEF TypeOK, Chip
    <3> QED
      BY <1>2, <3>1 DEF Listens, Sends
  <2> QED
    BY <1>1, <1>3, <2>1 DEF Failing
<1>5. Running'
  BY <1>1, <1>2, <1>3, <1>4 DEF Running
<1>6. Owed'
  BY <1>1, <1>3 DEF IInv, Owed
<1> QED
  BY <1>1, <1>2, <1>3, <1>5, <1>6, CallStep

LEMMA PollKeeps ==
  ASSUME IInv, Poll
  PROVE  IInv'
<1>1. /\ op.at = "poll"
      /\ op' = IF IrqHigh THEN [op EXCEPT !.at = "poll_irq"] ELSE Serviced
      /\ UNCHANGED <<chip, driver, transport, sent, aired, owed>>
  BY DEF Poll, ReadOnly
<1>2. /\ ~driver.closed /\ Running /\ driver.initialized /\ TypeOK
      /\ op.then = "none" /\ (Listens \/ Sends)
  BY <1>1, OpenPhases DEF Booting, Running, IInv
<1>3. CASE IrqHigh
  <2>1. op' \in Op /\ op'.at = "poll_irq" /\ op'.then = "none"
    BY <1>1, <1>2, <1>3, OpMoved DEF Places
  <2>2. Sends => chip.mode = "standby"
    BY <1>3 DEF Sends, IrqHigh
  <2>3. Running'
    BY <1>1, <1>2, <2>1, <2>2 DEF Running, Listens, Sends
  <2>4. Owed'
    BY <1>1, <2>1 DEF IInv, Owed
  <2> QED
    BY <1>1, <1>2, <2>1, <2>3, <2>4, CallStep
<1>4. CASE ~IrqHigh
  <2>1. op' \in Op /\ op'.at \in {"channel", "hand_over"} /\ op'.then = "none"
    BY <1>1, <1>2, <1>4, ServicedFields
  <2>2. owed = Nothing
    BY <1>1, <1>4 DEF IrqHigh, IInv, Owed, ListensWell, ReceiveIrqs
  <2>3. Running'
    BY <1>1, <1>2, <2>1 DEF Running, Listens, Sends
  <2> QED
    BY <1>1, <1>2, <2>1, <2>2, <2>3, CallStep
<1> QED
  BY <1>3, <1>4

\* The restart of the receiver begins.
LEMMA RestartBegins ==
  ASSUME IInv, ~driver.closed, driver.initialized, aired = sent,
         chip.mode \in {"rx", "standby"}, NEW irq \in SUBSET Irqs,
         op' = Restart(irq, "listening"),
         UNCHANGED <<chip, driver, sent, aired>>
  PROVE  op' \in Op /\ Running'
<1>1. /\ op' \in Op /\ op'.at = "write" /\ op'.then = "listening"
      /\ op'.todo = RestartReceive
  BY RestartFields DEF IInv
<1>2. Rest(RestartReceive)' /\ Left' = 5
  <2>1. Left' = 5
    BY <1>1, RestartProgram DEF Left
  <2>2. \A i \in 1 .. 5 : i + 5 - 5 = i
    OBVIOUS
  <2> QED
    BY <1>1, <2>1, <2>2, RestartProgram DEF Rest
<1>3. Restarting'
  BY <1>2 DEF Restarting
<1> QED
  BY <1>1, <1>3 DEF Running

LEMMA PollIrqKeeps ==
  ASSUME IInv, PollIrq
  PROVE  IInv'
<1>1. /\ op.at = "poll_irq" /\ op' = PollIrqNext
      /\ UNCHANGED <<chip, driver, transport, sent, aired, owed>>
  BY DEF PollIrq, ReadOnly
<1>2. /\ ~driver.closed /\ Running /\ driver.initialized /\ TypeOK
      /\ op.then = "none" /\ (Listens \/ (Sends /\ chip.mode = "standby"))
      /\ chip.irq \in SUBSET Irqs
  BY <1>1, OpenPhases DEF Booting, Running, IInv, TypeOK, Chip
<1>3. CASE "Timeout" \in chip.irq /\ driver.transmitting
  <2>1. op' \in Op /\ op'.at = "fail" /\ op'.then = "none"
    BY <1>1, <1>2, <1>3, OpMoved DEF PollIrqNext, Places
  <2>2. Running'
    BY <1>1, <1>2, <2>1 DEF Running, Failing, Listens, Sends
  <2>3. Owed'
    BY <1>1, <2>1 DEF IInv, Owed
  <2> QED
    BY <1>1, <1>2, <2>1, <2>2, <2>3, CallStep
<1>4. CASE /\ ~("Timeout" \in chip.irq /\ driver.transmitting)
           /\ chip.irq \cap ({"Timeout", "TxDone"} \cup ReceiveErrors) # {}
  <2>1. op' = Restart(chip.irq, "listening")
    BY <1>1, <1>4 DEF PollIrqNext
  <2>2. aired = sent /\ chip.mode \in {"rx", "standby"}
    BY <1>2, <1>4 DEF Listens, Sends
  <2>3. op' \in Op /\ Running'
    BY <1>1, <1>2, <2>1, <2>2, RestartBegins
  <2>4. Owed'
    <3>1. op'.irq = chip.irq /\ op'.at = "write" /\ op'.then = "listening"
      BY <1>2, <2>1 DEF Restart, TypeOK, Op
    <3>2. owed # Nothing => chip.irq \cap ReceiveErrors # {}
      BY <1>1, <1>4 DEF IInv, Owed, ListensWell, TransmitIrqs
    <3> QED
      BY <1>1, <3>1, <3>2 DEF Owed, SeenError
  <2> QED
    BY <1>1, <1>2, <2>3, <2>4, CallStep
<1>5. CASE /\ ~("Timeout" \in chip.irq /\ driver.transmitting)
           /\ chip.irq \cap ({"Timeout", "TxDone"} \cup ReceiveErrors) = {}
           /\ "RxDone" \notin chip.irq
  <2>1. op' \in Op /\ op'.at \in {"channel", "hand_over"} /\ op'.then = "none"
    BY <1>1, <1>2, <1>5, ServicedFields DEF PollIrqNext
  <2>2. owed = Nothing
    BY <1>1, <1>5 DEF IInv, Owed
  <2>3. Running'
    BY <1>1, <1>2, <2>1 DEF Running, Listens, Sends
  <2> QED
    BY <1>1, <1>2, <2>1, <2>2, <2>3, CallStep
<1>6. CASE /\ ~("Timeout" \in chip.irq /\ driver.transmitting)
           /\ chip.irq \cap ({"Timeout", "TxDone"} \cup ReceiveErrors) = {}
           /\ "RxDone" \in chip.irq
  <2>1. op' = [op EXCEPT !.at = "read_packet", !.irq = chip.irq]
    BY <1>1, <1>6 DEF PollIrqNext
  <2>2. op' \in Op /\ op'.at = "read_packet" /\ op'.then = "none"
    BY <1>2, <2>1 DEF TypeOK, Op, Places
  <2>3. Listens
    BY <1>2, <1>6 DEF Sends
  <2>4. Running'
    BY <1>1, <1>2, <2>2, <2>3 DEF Running, Listens
  <2>5. Owed'
    BY <1>1, <2>2 DEF IInv, Owed
  <2> QED
    BY <1>1, <1>2, <2>2, <2>4, <2>5, CallStep
<1> QED
  BY <1>3, <1>4, <1>5, <1>6

LEMMA ReadPacketKeeps ==
  ASSUME IInv, ReadPacket
  PROVE  IInv'
<1>1. /\ op.at = "read_packet" /\ op' = Restart(op.irq, "listening")
      /\ transport' = [transport EXCEPT !.pending = Kept(chip.buffer)]
      /\ owed' = Nothing /\ UNCHANGED <<chip, driver, sent, aired>>
  BY DEF ReadPacket
<1>2. /\ ~driver.closed /\ driver.initialized /\ TypeOK /\ Listens
      /\ transport.closed = driver.closed /\ op.irq \in SUBSET Irqs
  BY <1>1, OpenPhases DEF Booting, Running, IInv, TypeOK, Op, Phases
<1>3. op' \in Op /\ Running'
  BY <1>1, <1>2, RestartBegins DEF Listens
<1>4. Kept(chip.buffer) \in Data
  BY <1>2 DEF Kept, TypeOK, Chip
<1>5. /\ transport' \in [closed : BOOLEAN, pending : Data]
      /\ transport'.closed = transport.closed
  BY <1>1, <1>2, <1>4 DEF TypeOK
<1> QED
  BY <1>1, <1>2, <1>3, <1>5 DEF IInv, TypeOK, ListensWell, Owed, Phases

LEMMA ListeningKeeps ==
  ASSUME IInv, Listening
  PROVE  IInv'
<1>1. /\ op.at = "write" /\ op.todo = << >> /\ op.then = "listening"
      /\ driver' = [driver EXCEPT !.receiving = TRUE, !.transmitting = FALSE]
      /\ op' = Serviced /\ UNCHANGED <<chip, transport, sent, aired>>
      /\ owed' = IF SeenError THEN Nothing ELSE owed
  BY DEF Listening, Written
<1>2. /\ ~driver.closed /\ Restarting /\ driver.initialized /\ TypeOK
      /\ owed' = Nothing /\ transport.closed = driver.closed
  BY <1>1, OpenPhases DEF Booting, Running, IInv, Phases, Owed
<1>3. chip.mode = "rx" /\ aired = sent
  <2>1. Left = 0
    BY <1>1 DEF Left
  <2> QED
    BY <1>2, <2>1 DEF Restarting
<1>4. /\ driver' \in [antenna_switch_enabled : BOOLEAN, receiving : BOOLEAN,
                      transmitting : BOOLEAN, initialized : BOOLEAN,
                      closed : BOOLEAN]
      /\ driver'.initialized = driver.initialized /\ driver'.receiving = TRUE
      /\ driver'.transmitting = FALSE /\ driver'.closed = driver.closed
  BY <1>1, <1>2 DEF TypeOK
<1>5. op' \in Op /\ op'.at \in {"channel", "hand_over"} /\ op'.then = "none"
  BY <1>1, <1>2, ServicedFields
<1>6. Running'
  BY <1>1, <1>2, <1>3, <1>4, <1>5 DEF Running, Listens
<1> QED
  BY <1>1, <1>2, <1>4, <1>5, <1>6 DEF IInv, TypeOK, ListensWell, Owed, Phases

LEMMA HandOverKeeps ==
  ASSUME IInv, HandOver
  PROVE  IInv'
<1>1. /\ op.at = "hand_over" /\ op' = Idle
      /\ transport' = [transport EXCEPT !.pending = Nothing]
      /\ UNCHANGED <<chip, driver, sent, aired, owed>>
  BY DEF HandOver
<1>2. /\ ~driver.closed /\ driver.initialized /\ TypeOK /\ (Listens \/ Sends)
      /\ transport.closed = driver.closed
  BY <1>1, OpenPhases DEF Booting, Running, IInv, Phases
<1>3. /\ transport' \in [closed : BOOLEAN, pending : Data]
      /\ transport'.closed = transport.closed
  BY <1>1, <1>2 DEF TypeOK, Data
<1>4. Running'
  BY <1>1, <1>2, IdleFields DEF Running, Listens, Sends
<1> QED
  BY <1>1, <1>2, <1>3, <1>4, IdleFields
     DEF IInv, TypeOK, ListensWell, Owed, Phases

LEMMA CheckChannelKeeps ==
  ASSUME IInv, CheckChannel
  PROVE  IInv'
<1>1. /\ op.at = "channel"
      /\ op' = IF ChannelBusy THEN Idle ELSE [op EXCEPT !.at = "rssi"]
      /\ UNCHANGED <<chip, driver, transport, sent, aired, owed>>
  BY DEF CheckChannel, ReadOnly
<1>2. /\ ~driver.closed /\ Running /\ driver.initialized /\ TypeOK
      /\ op.then = "none" /\ (Listens \/ Sends)
  BY <1>1, OpenPhases DEF Booting, Running, IInv
<1>3. CASE ChannelBusy
  <2>1. op' \in Op /\ op'.at = "idle" /\ op'.then = "none"
    BY <1>1, <1>3, IdleFields
  <2>2. Running'
    BY <1>1, <1>2, <2>1 DEF Running, Listens, Sends
  <2>3. Owed'
    BY <1>1, <2>1 DEF IInv, Owed
  <2> QED
    BY <1>1, <1>2, <2>1, <2>2, <2>3, CallStep
<1>4. CASE ~ChannelBusy
  <2>1. op' \in Op /\ op'.at = "rssi" /\ op'.then = "none"
    BY <1>1, <1>2, <1>4, OpMoved DEF Places
  <2>2. Listens /\ owed = Nothing
    BY <1>1, <1>2, <1>4 DEF ChannelBusy, Sends, IInv, Owed
  <2>3. Running'
    BY <1>1, <1>2, <2>1, <2>2 DEF Running, Listens
  <2> QED
    BY <1>1, <1>2, <2>1, <2>2, <2>3, CallStep
<1> QED
  BY <1>3, <1>4

LEMMA ListenBeforeTalkKeeps ==
  ASSUME IInv, ListenBeforeTalk
  PROVE  IInv'
<1>1. /\ op.at = "rssi"
      /\ UNCHANGED <<chip, driver, transport, sent, aired, owed>>
  BY DEF ListenBeforeTalk, ReadOnly
<1>2. /\ ~driver.closed /\ Running /\ driver.initialized /\ TypeOK
      /\ op.then = "none" /\ Listens /\ owed = Nothing
  BY <1>1, OpenPhases DEF Booting, Running, IInv, Owed
<1>3. CASE op' = Idle
  <2>1. op' \in Op /\ op'.at = "idle" /\ op'.then = "none"
    BY <1>3, IdleFields
  <2>2. Running'
    BY <1>1, <1>2, <2>1 DEF Running, Listens
  <2> QED
    BY <1>1, <1>2, <2>1, <2>2, CallStep
<1>4. CASE op' = [op EXCEPT !.at = "write", !.todo = StartTransmit,
                            !.then = "started"]
  <2>1. /\ op' \in Op /\ op'.at = "write" /\ op'.then = "started"
        /\ op'.todo = StartTransmit
    BY <1>2, <1>4, Programs DEF TypeOK, Op, Places
  <2>2. Rest(StartTransmit)' /\ Left' = 6
    BY <2>1, Programs DEF Rest, Left
  <2>3. Starting'
    BY <1>1, <1>2, <2>2 DEF Starting, Listens
  <2>4. Running'
    BY <1>1, <1>2, <2>1, <2>3 DEF Running
  <2> QED
    BY <1>1, <1>2, <2>1, <2>4, CallStep
<1> QED
  BY <1>3, <1>4 DEF ListenBeforeTalk

LEMMA StartedKeeps ==
  ASSUME IInv, Started
  PROVE  IInv'
<1>1. /\ op.at = "write" /\ op.todo = << >> /\ op.then = "started"
      /\ driver' = [driver EXCEPT !.transmitting = TRUE, !.receiving = FALSE]
      /\ sent' = Append(sent, op.data)
      /\ op' = Idle /\ UNCHANGED <<chip, transport, aired, owed>>
  BY DEF Started, Written
<1>2. /\ ~driver.closed /\ Starting /\ driver.initialized /\ TypeOK
      /\ owed = Nothing /\ transport.closed = driver.closed
      /\ op.data \in Data /\ Left = 0
  BY <1>1, OpenPhases DEF Booting, Running, IInv, Phases, Owed, TypeOK, Op, Left
<1>3. /\ driver' \in [antenna_switch_enabled : BOOLEAN, receiving : BOOLEAN,
                      transmitting : BOOLEAN, initialized : BOOLEAN,
                      closed : BOOLEAN]
      /\ driver'.initialized = driver.initialized
      /\ driver'.transmitting = TRUE /\ driver'.closed = driver.closed
  BY <1>1, <1>2 DEF TypeOK
<1>4. /\ chip.buffer = op.data /\ chip.mask = TransmitIrqs
      /\ \/ chip.mode = "tx" /\ chip.irq = {} /\ aired = sent
         \/ /\ chip.mode = "standby" /\ chip.irq = {"TxDone"}
            /\ aired = Append(sent, op.data)
         \/ chip.mode = "standby" /\ chip.irq = {"Timeout"} /\ aired = sent
  BY <1>2 DEF Starting
<1>5. Sends'
  BY <1>1, <1>2, <1>3, <1>4 DEF Sends
<1>6. Running'
  BY <1>1, <1>2, <1>3, <1>5, IdleFields DEF Running
<1>7. sent' \in Seq(Data)
  BY <1>1, <1>2, AppendedTo DEF TypeOK
<1> QED
  BY <1>1, <1>2, <1>3, <1>6, <1>7, IdleFields
     DEF IInv, TypeOK, ListensWell, Owed, Phases

-----------------------------------------------------------------------------

LEMMA InitHolds ==
  ASSUME Init
  PROVE  IInv
<1>1. op = [Idle EXCEPT !.call = "init", !.at = "open"]
  BY DEF Init
<1>2. op \in Op /\ op.at = "open" /\ op.then = "none"
  BY <1>1, IdleFields DEF Op, Places
<1>3. /\ chip \in Chip /\ chip.mode = "reset" /\ chip.irq = {}
      /\ owed = Nothing
  BY DEF Init, Chip, Modes, Data
<1>4. /\ driver \in [antenna_switch_enabled : BOOLEAN, receiving : BOOLEAN,
                     transmitting : BOOLEAN, initialized : BOOLEAN,
                     closed : BOOLEAN]
      /\ ~driver.closed /\ ~driver.initialized /\ ~driver.transmitting
      /\ transport \in [closed : BOOLEAN, pending : Data]
      /\ transport.closed = driver.closed
  BY DEF Init, Data
<1>5. sent = << >> /\ aired = << >>
  BY DEF Init
<1>6. Booting
  BY <1>2, <1>3, <1>4, <1>5 DEF Booting
<1> QED
  BY <1>2, <1>3, <1>4, <1>5, <1>6 DEF IInv, TypeOK, ListensWell, Owed, Phases

LEMMA NextKeeps ==
  ASSUME IInv, [Next]_vars
  PROVE  IInv'
<1>1. CASE UNCHANGED vars
  <2>1. UNCHANGED <<chip, driver, transport, op, sent, aired, owed>>
    BY <1>1 DEF vars
  <2>2. Rest(RestartReceive)' = Rest(RestartReceive)
        /\ Rest(StartTransmit)' = Rest(StartTransmit)
        /\ Rest(ConfigureRadio)' = Rest(ConfigureRadio) /\ Left' = Left
    BY <2>1 DEF Rest, Left
  <2>3. Booting => Booting'
    BY <2>1, <2>2 DEF Booting
  <2>4. Running => Running'
    <3>1. /\ Restarting => Restarting'
          /\ Starting => Starting'
          /\ Failing => Failing'
      BY <2>1, <2>2 DEF Restarting, Starting, Failing
    <3>2. (Listens => Listens') /\ (Sends => Sends')
      BY <2>1 DEF Listens, Sends
    <3> QED
      BY <2>1, <3>1, <3>2 DEF Running
  <2> QED
    BY <2>1, <2>3, <2>4 DEF IInv, TypeOK, ListensWell, Owed, SeenError, Phases
<1>2. CASE Step
  BY <1>2, WriteKeeps, WriteFailsKeeps, ReadFailsKeeps, FailClosedKeeps,
     PollKeeps, PollIrqKeeps, ReadPacketKeeps, ListeningKeeps, HandOverKeeps,
     CheckChannelKeeps, ListenBeforeTalkKeeps, StartedKeeps DEF Step, Fail
<1> QED
  BY <1>1, <1>2, InitializeKeeps, TryKeeps, FailClosedKeeps, ChipHearsKeeps,
     ChipReceivesKeeps, ChipTransmitsKeeps DEF Next, CloseTransport

\* The invariant behind the theorems below: where the call in progress is tells
\* what the chip does, which of its interrupts are on, and how what was sent
\* compares with what was accepted (driver lines 430-447, 594-709).
THEOREM CapLoraInvariant == Spec => []IInv
<1>1. Init => IInv
  BY InitHolds
<1>2. IInv /\ [Next]_vars => IInv'
  BY NextKeeps
<1> QED
  BY <1>1, <1>2, PTL DEF Spec

\* Between two calls the driver is right about the chip, whichever transfers
\* failed before (driver lines 430-447, 655-686).
THEOREM DriverKnowsChip == Spec => []FlagsMatchChip
<1>1. IInv => FlagsMatchChip
  <2> SUFFICES ASSUME IInv, op = Idle, Ready
               PROVE  IF driver.transmitting
                      THEN \/ chip.mode = "tx"
                           \/ IrqHigh /\ chip.irq \cap TransmitIrqs # {}
                      ELSE /\ driver.receiving /\ chip.mode = "rx"
                           /\ chip.mask = ReceiveIrqs
    BY DEF FlagsMatchChip
  <2>1. Listens \/ Sends
    BY IdleRuns DEF Ready, IInv, Phases
  <2> QED
    BY <2>1 DEF Listens, Sends, IInv, ListensWell, IrqHigh, TransmitIrqs
<1> QED
  BY <1>1, CapLoraInvariant, PTL

LEMMA PrefixOfItself ==
  ASSUME NEW s \in Seq(Data)
  PROVE  IsPrefix(s, s)
BY DEF IsPrefix

LEMMA PrefixOfLonger ==
  ASSUME NEW s \in Seq(Data), NEW d \in Data
  PROVE  IsPrefix(s, Append(s, d)) /\ Len(Append(s, d)) = Len(s) + 1
BY DEF IsPrefix

\* While the radio is open the chip has sent what try_send accepted, in order
\* and once, but for the one datagram it is sending (driver lines 602-604,
\* 655-686).
THEOREM AcceptedGoesOut == Spec => []AcceptedIsAired
<1>1. IInv => AcceptedIsAired
  <2> SUFFICES ASSUME IInv, ~driver.closed
               PROVE  /\ IsPrefix(aired, IF op.then = "started"
                                         THEN Append(sent, op.data) ELSE sent)
                      /\ Len(aired) < Len(sent) =>
                           /\ driver.transmitting
                           /\ Len(sent) = Len(aired) + 1
    BY DEF AcceptedIsAired
  <2>1. /\ aired \in Seq(Data) /\ sent \in Seq(Data) /\ op.data \in Data
        /\ chip.buffer \in Data /\ Len(sent) \in Nat
    BY DEF IInv, TypeOK, Op, Chip
  <2>2. CASE op.then = "started"
    <3>1. aired = sent \/ aired = Append(sent, op.data)
      <4>1. Running
        BY <2>2 DEF IInv, Phases, Booting
      <4>2. Starting \/ Failing
        BY <2>2, <4>1 DEF Running
      <4>3. Left \in Nat
        BY DEF IInv, TypeOK, Op, Left
      <4> QED
        BY <2>2, <4>2, <4>3 DEF Starting, Failing
    <3>2. IsPrefix(aired, Append(sent, op.data)) /\ ~(Len(aired) < Len(sent))
      <4>1. CASE aired = sent
        BY <2>1, <4>1, PrefixOfLonger
      <4>2. CASE aired = Append(sent, op.data)
        <5>1. aired \in Seq(Data) /\ Len(aired) = Len(sent) + 1
          BY <2>1, <4>2, PrefixOfLonger
        <5>2. ~(Len(aired) < Len(sent))
          BY <2>1, <5>1
        <5>3. IsPrefix(aired, aired)
          BY <5>1, PrefixOfItself
        <5> QED
          BY <4>2, <5>2, <5>3, Zenon
      <4> QED
        BY <3>1, <4>1, <4>2
    <3> QED
      BY <2>2, <3>2
  <2>3. CASE op.then # "started"
    <3>1. \/ aired = sent
          \/ driver.transmitting /\ \E d \in Data : sent = Append(aired, d)
      BY <2>1, <2>3
         DEF IInv, Phases, Booting, Running, Listens, Sends, Restarting, Failing
    <3>2. CASE aired = sent
      <4>1. IsPrefix(aired, sent) /\ ~(Len(aired) < Len(sent))
        BY <2>1, <3>2, PrefixOfItself
      <4> QED
        BY <2>3, <4>1
    <3>3. ASSUME driver.transmitting, NEW d \in Data, sent = Append(aired, d)
          PROVE  /\ IsPrefix(aired, sent) /\ Len(sent) = Len(aired) + 1
      BY <2>1, <3>3, PrefixOfLonger
    <3> QED
      BY <2>3, <3>1, <3>2, <3>3
  <2> QED
    BY <2>2, <2>3
<1> QED
  BY <1>1, CapLoraInvariant, PTL

\* A whole packet that ended before the call in progress looked at the
\* interrupts stays in the chip until poll has read it, or has found a receive
\* error latched with it, which it tests first and drops the packet for (driver
\* lines 606-616, 693-709).
THEOREM EndedReceptionKept == Spec => []ReceptionKept
<1>1. IInv => ReceptionKept
  BY DEF IInv, Owed, ReceptionKept
<1> QED
  BY <1>1, CapLoraInvariant, PTL
=============================================================================

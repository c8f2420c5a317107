--------------------------- MODULE Ps2Controller ---------------------------
(***************************************************************************)
(* Bringing up the PS/2 controller (core/src/ps2.rs), the interrupt        *)
(* controller behind it (architecture/x86_64/interrupts.rs) and the mouse  *)
(* packet assembler that IRQ12 feeds.                                      *)
(*                                                                         *)
(* `initialize` and `initialize_keyboard_polling` are programs of port     *)
(* operations run one at a time, while the firmware's keyboard and mouse   *)
(* may already be sending.  The controller has one output byte for three   *)
(* writers - itself, the keyboard and the mouse - and every read takes     *)
(* whatever is in it.  External: the controller executes a command when it *)
(* is written (QEMU's does; ADR 0053 scopes the driver to it), a disabled  *)
(* port keeps its bytes, a request latched by the PIC while masked is      *)
(* delivered once unmasked, and reading an empty buffer repeats the last   *)
(* byte: the delayed acknowledgement initialize's comment reports.         *)
(***************************************************************************)
EXTENDS Integers, Sequences, FiniteSets, SequencesExt

CONSTANTS
    Variants,       \* subset of {"full", "polling"}
    Healths,        \* "ok", or how the controller fails
    SelfTestResets, \* whether the self test may reset the configuration byte
    Quiet,          \* devices stay silent from the firmware's end to the first sti
    LeftOver,       \* a byte of a packet the firmware left in the mouse
    Packets,        \* mouse packets: <<byte0, dx, dy>>
    KeyBytes,       \* keyboard bytes
    MaxPackets, MaxKeys,
    WaitLimit       \* IO_WAIT_LIMIT, 100,000 in the code

Ps2Bounds == MaxPackets \in Nat /\ MaxKeys \in Nat /\ WaitLimit \in Nat \ {0}

VARIABLES
    variant, health,
    at,         \* next step of the program
    guard,      \* the wait loop's counter
    status,     \* running, ok, or the Ps2Error returned
    config,     \* initialize's local copy of the configuration byte, as bits
    ctl,        \* the controller: its ports, configuration bits, pending operand
    output,     \* the output buffer: at most one [src, byte]
    last,       \* what the data port last returned
    toSend,     \* bytes the controller and the devices still hold
    imr, irr, isr, \* the PICs: masked, requested and in-service lines
    enabled,    \* RFLAGS.IF: set once the launcher waits
    mouse,      \* MOUSE_ASSEMBLER
    events,     \* raw mouse events published
    packets, keys, \* history: sent since streaming was asked for
    answers     \* history: <<what was awaited, who wrote it>>

vars == <<variant, health, at, guard, status, config, ctl, output, last, toSend,
          imr, irr, isr, enabled, mouse, events, packets, keys, answers>>

program == <<at, guard, status, config, answers>>
env == <<variant, health, packets, keys>>

MOUSE_ACK == \hFA
SELF_TEST_PASS == \h55

(* Configuration bits: IRQ1, IRQ12, system flag, translation. *)
ConfigBits == {0, 1, 2, 6}

Byte(bits) == (IF 0 \in bits THEN 1 ELSE 0) + (IF 1 \in bits THEN 2 ELSE 0)
              + (IF 2 \in bits THEN 4 ELSE 0) + (IF 6 \in bits THEN 64 ELSE 0)

Bits(byte) == {i \in 0..7 : (byte \div 2^i) % 2 = 1}

----------------------------------------------------------------------------
(* The programs. *)

(* Mutant: the buffer is flushed before the ports are disabled. *)
DisableAndReadEarlyFlush ==
    << <<"flush", "">>, <<"command", "disable1">>, <<"command", "disable2">>,
       <<"command", "readConfig">>, <<"read", "config">>,
       <<"command", "writeConfig">>, <<"data", "config">>,
       <<"command", "test">>, <<"read", "test">> >>

DisableAndRead ==
    << <<"command", "disable1">>, <<"command", "disable2">>, <<"flush", "">>,
       <<"command", "readConfig">>, <<"read", "config">>,
       <<"command", "writeConfig">>, <<"data", "config">>,
       <<"command", "test">>, <<"read", "test">> >>

EnableBoth ==
    << <<"command", "enable1">>, <<"command", "enable2">>,
       <<"command", "toMouse">>, <<"data", "stream">>, <<"read", "ack">>,
       <<"flush", "">>, <<"arm", "">>,
       <<"unmask", 1>>, <<"unmask", 2>>, <<"unmask", 12>> >>

PollPort1 ==
    << <<"command", "readConfig">>, <<"read", "config">>,
       <<"command", "writeConfig">>, <<"data", "config">>,
       <<"command", "enable1">>, <<"flush", "">> >>

Program == DisableAndRead \o IF variant = "full" THEN EnableBoth ELSE PollPort1

Op == Program[at][1]
Arg == Program[at][2]

(* The configuration each variant asks for. *)
Wanted(bits) == IF variant = "full" THEN (bits \cup {0, 1}) \ {6} ELSE (bits \ {0, 1}) \cup {6}

----------------------------------------------------------------------------
Init ==
    /\ variant \in Variants /\ health \in Healths
    /\ at = 1 /\ guard = 0 /\ status = "running" /\ config = {} /\ answers = {}
    /\ ctl \in [port1 : {TRUE}, port2 : BOOLEAN, bits : {{2}, {0, 2, 6}}, operand : {""},
                streaming : BOOLEAN]
    /\ output \in {<<>>} \cup {<<[src |-> "keyboard", byte |-> k]>> : k \in KeyBytes}
    /\ last = 0
    /\ toSend \in {[controller |-> <<>>, keyboard |-> <<>>, mouse |-> q] :
                     q \in IF ctl.streaming THEN {<<>>, <<LeftOver>>} ELSE {<<>>}}
    /\ imr = [master |-> 0..7, slave |-> 0..7] /\ irr = {} /\ isr = {}
    /\ enabled = FALSE
    /\ mouse = [stage |-> <<>>, left |-> FALSE, expectAck |-> FALSE]
    /\ events = <<>> /\ packets = <<>> /\ keys = 0

----------------------------------------------------------------------------
(* The controller. *)

InputReady == health # "absent"
OutputFull == output # <<>> \/ health \in {"absent", "stuck"}

DataByte == CASE health \in {"absent", "stuck"} -> \hFF
              [] health \notin {"absent", "stuck"} /\ output # <<>> -> output[1].byte
              [] OTHER -> last

(* Who wrote the byte. *)
DataSource == IF output # <<>> THEN output[1].src ELSE "controller"

(* A byte enters the buffer and raises its line, if that is reported. *)
Put(item) ==
    /\ output' = <<item>>
    /\ irr' = irr \cup CASE item.src = "keyboard" /\ 0 \in ctl'.bits -> {1}
                         [] item.src = "mouse" /\ 1 \in ctl'.bits -> {12}
                         [] OTHER -> {}

(* The controller's answer to a command waits while the buffer is full. *)
Answer(byte) ==
    CASE health \in {"mute", "stuck"} -> UNCHANGED <<output, irr, toSend>>
      [] health \notin {"mute", "stuck"} /\ output = <<>> ->
            Put([src |-> "controller", byte |-> byte]) /\ UNCHANGED toSend
      [] OTHER -> toSend' = [toSend EXCEPT !.controller = Append(@, byte)] /\ UNCHANGED <<output, irr>>

Executes(command) ==
    CASE command = "disable1" -> ctl' = [ctl EXCEPT !.port1 = FALSE] /\ UNCHANGED <<output, irr, toSend>>
      [] command = "disable2" -> ctl' = [ctl EXCEPT !.port2 = FALSE] /\ UNCHANGED <<output, irr, toSend>>
      [] command = "enable1" -> ctl' = [ctl EXCEPT !.port1 = TRUE] /\ UNCHANGED <<output, irr, toSend>>
      [] command = "enable2" -> ctl' = [ctl EXCEPT !.port2 = TRUE] /\ UNCHANGED <<output, irr, toSend>>
      [] command = "readConfig" -> UNCHANGED ctl /\ Answer(Byte(ctl.bits))
      [] command = "test" ->
            /\ \/ UNCHANGED ctl
               \/ TRUE \in SelfTestResets /\ ctl' = [ctl EXCEPT !.bits = {2}]
            /\ Answer(IF health = "failing" THEN \hFC ELSE SELF_TEST_PASS)
      [] OTHER -> ctl' = [ctl EXCEPT !.operand = command] /\ UNCHANGED <<output, irr, toSend>>

(* The mouse acknowledges the streaming command behind what it holds. *)
Takes(arg) ==
    IF ctl.operand = "writeConfig"
    THEN ctl' = [ctl EXCEPT !.operand = "", !.bits = config \cap ConfigBits] /\ UNCHANGED toSend
    ELSE /\ ctl' = [ctl EXCEPT !.operand = "", !.streaming = TRUE]
         /\ toSend' = [toSend EXCEPT !.mouse =
                         IF health = "nomouse" THEN @ ELSE @ \o <<MOUSE_ACK>>]

(* The next byte of the controller, or of a device whose port is enabled,  *)
(* reaches the buffer.                                                     *)
Deliver(device) ==
    /\ output = <<>> /\ health \notin {"absent", "mute", "stuck"}
    /\ toSend[device] # <<>>
    /\ device = "keyboard" => ctl.port1
    /\ device = "mouse" => ctl.port2
    /\ UNCHANGED ctl
    /\ Put([src |-> device, byte |-> Head(toSend[device])])
    /\ toSend' = [toSend EXCEPT ![device] = Tail(@)]
    /\ UNCHANGED <<variant, health, at, guard, status, config, last, imr, isr, enabled, mouse,
                   events, packets, keys, answers>>

(* No request from before the first sti is outstanding. *)
Settled == enabled /\ irr = {} /\ output = <<>>

MayMove == Quiet => Settled \/ packets # <<>> \/ keys > 0

MouseMoves(p) ==
    /\ \E i \in 1..(at - 1) : Program[i] = <<"data", "stream">>
    /\ status \in {"running", "ok"} /\ health = "ok" /\ MayMove
    /\ Len(packets) < MaxPackets
    /\ packets' = Append(packets, p)
    /\ toSend' = [toSend EXCEPT !.mouse = @ \o p]
    /\ UNCHANGED <<variant, health, at, guard, status, config, ctl, output, last, imr, irr, isr,
                   enabled, mouse, events, keys, answers>>

KeyPressed(k) ==
    /\ MayMove \/ variant = "polling"
    /\ keys < MaxKeys
    /\ keys' = keys + 1
    /\ toSend' = [toSend EXCEPT !.keyboard = Append(@, k)]
    /\ UNCHANGED <<variant, health, at, guard, status, config, ctl, output, last, imr, irr, isr,
                   enabled, mouse, events, packets, answers>>

----------------------------------------------------------------------------
(* The driver's steps. *)

Fails(error) ==
    /\ status' = error /\ guard' = 0
    /\ UNCHANGED <<at, config, answers, ctl, output, last, toSend, imr, irr, isr, enabled, mouse,
                   events, env>>

Advance ==
    /\ at' = at + 1 /\ guard' = 0
    /\ status' = IF at = Len(Program) THEN "ok" ELSE "running"

(* wait_input_ready and read_data_blocking: IO_WAIT_LIMIT polls. *)
Waits(error) ==
    IF guard + 1 >= WaitLimit THEN Fails(error)
    ELSE /\ guard' = guard + 1
         /\ UNCHANGED <<at, status, config, answers, ctl, output, last, toSend, imr, irr, isr,
                        enabled, mouse, events, env>>

WriteCommand ==
    /\ status = "running" /\ Op = "command"
    /\ IF ~InputReady THEN Waits("InputTimeout")
       ELSE /\ Executes(Arg) /\ Advance
            /\ UNCHANGED <<config, answers, last, imr, isr, enabled, mouse, events, env>>

WriteData ==
    /\ status = "running" /\ Op = "data"
    /\ IF ~InputReady THEN Waits("InputTimeout")
       ELSE /\ Takes(Arg) /\ Advance
            /\ UNCHANGED <<config, answers, output, last, imr, irr, isr, enabled, mouse, events, env>>

Expected == CASE Arg = "test" -> {SELF_TEST_PASS}
              [] Arg = "ack" -> {MOUSE_ACK}
              [] OTHER -> 0..255

Rejected == IF Arg = "test" THEN "ControllerSelfTestFailed" ELSE "MouseAckTimeout"

ReadData ==
    /\ status = "running" /\ Op = "read"
    /\ IF ~OutputFull THEN Waits("OutputTimeout")
       ELSE /\ last' = DataByte /\ output' = <<>>
            /\ answers' = answers \cup {<<Arg, DataSource>>}
            /\ config' = IF Arg = "config" THEN Wanted(Bits(DataByte)) ELSE config
            /\ IF DataByte \in Expected THEN Advance
               ELSE status' = Rejected /\ guard' = 0 /\ UNCHANGED at
            /\ UNCHANGED <<ctl, toSend, imr, irr, isr, enabled, mouse, events, env>>

(* flush_output_buffer: bytes that arrive between two of its polls are     *)
(* flushed too.                                                            *)
Flush ==
    /\ status = "running" /\ Op = "flush"
    /\ IF OutputFull /\ guard < WaitLimit
       THEN /\ last' = DataByte /\ output' = <<>> /\ guard' = guard + 1
            /\ UNCHANGED <<at, status>>
       ELSE Advance /\ UNCHANGED <<last, output>>
    /\ UNCHANGED <<config, answers, ctl, toSend, imr, irr, isr, enabled, mouse, events, env>>

Arm ==
    /\ status = "running" /\ Op = "arm"
    /\ mouse' = [mouse EXCEPT !.expectAck = TRUE]
    /\ Advance
    /\ UNCHANGED <<config, answers, ctl, output, last, toSend, imr, irr, isr, enabled, events, env>>

(* set_irq_mask clears the line's bit on its own PIC. *)
SetIrqMask(irq) == IF irq < 8 THEN [imr EXCEPT !.master = @ \ {irq}]
                   ELSE [imr EXCEPT !.slave = @ \ {irq % 8}]

Unmask ==
    /\ status = "running" /\ Op = "unmask"
    /\ imr' = SetIrqMask(Arg)
    /\ Advance
    /\ UNCHANGED <<config, answers, ctl, output, last, toSend, irr, isr, enabled, mouse, events, env>>

(* The launcher waits with interrupts enabled.  The timer enables them before *)
(* initialize already; the lines are still masked then except between the    *)
(* unmask steps, which are the last ones and read nothing from the device.   *)
Launcher ==
    /\ status = "ok" /\ variant = "full" /\ ~enabled
    /\ enabled' = TRUE
    /\ UNCHANGED <<variant, health, program, ctl, output, last, toSend, imr, irr, isr, mouse, events,
                   packets, keys>>

----------------------------------------------------------------------------
(* Interrupts. *)

Unmasked(irq) == IF irq < 8 THEN irq \notin imr.master
                 ELSE irq % 8 \notin imr.slave /\ 2 \notin imr.master

(* Deliverable lines: unmasked, and no line of their priority in service. *)
Pending == {irq \in irr : Unmasked(irq) /\ isr = {}}

vector_for_irq(irq) == IF irq < 8 THEN 32 + irq ELSE 40 + (irq - 8)

(* The lines send_eoi ends: the slave's and the cascade for IRQ8-15. *)
Eoi(vector) == IF vector - 32 >= 8 THEN {vector - 32, 2} ELSE {vector - 32}

AsI8(byte) == IF byte >= 128 THEN byte - 256 ELSE byte

(* normalize_ps2_relative_y: wrapping negation, -128 stays. *)
NegatedI8(byte) == IF byte = 128 THEN -128 ELSE -AsI8(byte)

(* The events of a complete packet, and the left button after it. *)
PacketEvents(left, p) ==
    LET down == p[1] % 2 = 1
    IN (IF down # left THEN <<[kind |-> "button", dx |-> 0, dy |-> 0, left |-> down]>> ELSE <<>>)
       \o IF p[2] # 0 \/ p[3] # 0
          THEN <<[kind |-> "moved", dx |-> AsI8(p[2]), dy |-> NegatedI8(p[3]), left |-> FALSE]>>
          ELSE <<>>

ValidByte0(byte) == 3 \in Bits(byte)

(* MouseAssembler::feed. *)
Assembled(m, byte) ==
    IF m.expectAck /\ byte = MOUSE_ACK THEN [m EXCEPT !.expectAck = FALSE]
    ELSE LET n == [m EXCEPT !.expectAck = FALSE]
         IN CASE m.stage = <<>> -> [n EXCEPT !.stage = IF ValidByte0(byte) THEN <<byte>> ELSE <<>>]
              [] Len(m.stage) = 1 -> [n EXCEPT !.stage = Append(@, byte)]
              [] Len(m.stage) = 2 -> [n EXCEPT !.stage = <<>>, !.left = m.stage[1] % 2 = 1]

Completes(m, byte) == Len(m.stage) = 2 /\ ~(m.expectAck /\ byte = MOUSE_ACK)

(* external_interrupt_handler: the line's top half reads the data port     *)
(* without asking whose byte it is, then the lines are ended.              *)
Serve(irq) ==
    LET vector == vector_for_irq(irq)
        byte == DataByte
    IN /\ enabled /\ irq \in Pending /\ \A other \in Pending : irq <= other
       /\ irr' = irr \ {irq}
       /\ isr' = (isr \cup IF irq >= 8 THEN {irq, 2} ELSE {irq}) \ Eoi(vector)
       /\ last' = byte /\ output' = <<>>
       /\ IF vector = 44
          THEN /\ mouse' = Assembled(mouse, byte)
               /\ events' = IF Completes(mouse, byte)
                            THEN events \o PacketEvents(mouse.left, Append(mouse.stage, byte))
                            ELSE events
          ELSE UNCHANGED <<mouse, events>>
       /\ UNCHANGED <<variant, health, program, ctl, toSend, imr, enabled, packets, keys>>

Driver == WriteCommand \/ WriteData \/ ReadData \/ Flush \/ Arm \/ Unmask

Kernel == Driver \/ Launcher \/ (\E irq \in {1, 12} : Serve(irq))

Idle == UNCHANGED vars

Next ==
    \/ Kernel
    \/ \E d \in {"controller", "keyboard", "mouse"} : Deliver(d)
    \/ \E p \in Packets : MouseMoves(p)
    \/ \E k \in KeyBytes : KeyPressed(k)
    \/ Idle

(* The driver's code runs, and unmasked interrupts are taken.  The devices *)
(* owe nothing.                                                            *)
Spec == Init /\ [][Next]_vars /\ WF_vars(Kernel)

----------------------------------------------------------------------------
(* Properties. *)

(* Every variable has its kind; the buffer holds one byte. *)
TypeOK ==
    /\ at \in 1..(Len(Program) + 1) /\ guard \in 0..WaitLimit
    /\ status \in {"running", "ok", "InputTimeout", "OutputTimeout", "ControllerSelfTestFailed",
                   "MouseAckTimeout"}
    /\ Len(output) <= 1 /\ ctl.bits \subseteq ConfigBits
    /\ irr \subseteq {1, 12} /\ isr \subseteq {1, 2, 12}
    /\ Len(mouse.stage) <= 2

(* What the driver takes for the configuration and the self test's result  *)
(* was written by the controller, never a key or a mouse byte that was     *)
(* pending when the boot loader left or arrived meanwhile.                 *)
AnswersAreTheControllers ==
    \A a \in answers : a[1] \in {"config", "test"} => a[2] = "controller"

(* Success leaves interrupts reaching the kernel from both devices: both   *)
(* ports and reports on, translation off, IRQ1, IRQ12 and the cascade open.*)
(* Anything else leaves every line masked.                                 *)
UnmaskedExactlyOnSuccess ==
    variant = "full" =>
        /\ status = "ok" =>
              /\ ctl.port1 /\ ctl.port2 /\ ctl.streaming
              /\ {0, 1} \subseteq ctl.bits /\ 6 \notin ctl.bits
              /\ Unmasked(1) /\ Unmasked(12)
        /\ status \notin {"ok", "running"} => ~Unmasked(1) /\ ~Unmasked(12)

(* The polling variant ends with no interrupt reported and translation on, *)
(* also when the self test resets the configuration.                       *)
PollingIsSilent ==
    (variant = "polling" /\ status = "ok") =>
        /\ {0, 1} \cap ctl.bits = {} /\ 6 \in ctl.bits
        /\ ctl.port1 /\ ~ctl.port2

(* The events of a sequence of packets. *)
Reported(ps) == FoldLeft(LAMBDA acc, p : [left |-> p[1] % 2 = 1,
                                          events |-> acc.events \o PacketEvents(acc.left, p)],
                         [left |-> FALSE, events |-> <<>>], ps).events

(* When the devices are silent until the launcher waits, every mouse       *)
(* packet becomes exactly its button change and its motion, the delayed    *)
(* acknowledgement notwithstanding, with keys pressed in between.          *)
MouseEventsExact ==
    (Quiet /\ variant = "full") =>
        /\ IsPrefix(events, Reported(packets))
        /\ (packets # <<>> /\ toSend.mouse = <<>> /\ output = <<>> /\ irr = {}) =>
              events = Reported(packets)

=============================================================================

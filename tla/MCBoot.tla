------------------------------- MODULE MCBoot -------------------------------
(***************************************************************************)
(* Instances of the boot components for TLC: the loader, the order of the  *)
(* boot, address spaces, the scheduler bring-up, the audio drivers and the *)
(* input drivers.  They run one after another on one processor and share   *)
(* no state: a behaviour exercises the part its initial state names, the   *)
(* variables of the others rest.                                           *)
(*                                                                         *)
(* Loader: text and data; a data segment whose last page is half used; an  *)
(* entry in data; a writable text; segments that overlap or start inside a *)
(* page.  Spaces: a program that starts inside a page, one linked where    *)
(* the allocator's first frames are, two segments in one page, data where  *)
(* the launch puts its own pages, writable code, an entry in data; one     *)
(* descriptor reaches past the managed range.  Audio: codecs of two groups *)
(* of two widgets, and the PCI buses worth telling apart.                  *)
(*                                                                         *)
(* Keyboard: the IRQ1 decoder on a set-2 keyboard, the polled console on   *)
(* either set, and the two physical diagnostics.  Ps2: bring-up against    *)
(* healthy and failing controllers, the mouse stream, the polling variant. *)
(* Usb: port polling with two ports that change, and the mouse sequence.   *)
(***************************************************************************)
EXTENDS Integers, Sequences

Seg(offset, vaddr, filesz, memsz, w, x) ==
    [offset |-> offset, vaddr |-> vaddr, filesz |-> filesz, memsz |-> memsz,
     w |-> w, x |-> x, align |-> 2]

File(list, entry) == [header |-> TRUE, segments |-> list, entry |-> entry, len |-> 8]

KernelFiles ==
    {File(<<Seg(0, 0, 2, 2, FALSE, TRUE), Seg(2, 2, 2, 2, TRUE, FALSE)>>, 0),
     File(<<Seg(0, 0, 2, 2, FALSE, TRUE), Seg(2, 4, 1, 3, TRUE, FALSE)>>, 1),
     File(<<Seg(0, 0, 2, 2, FALSE, TRUE), Seg(2, 2, 2, 2, TRUE, FALSE)>>, 3),
     File(<<Seg(0, 0, 2, 2, TRUE, TRUE)>>, 0),
     File(<<Seg(0, 0, 2, 4, FALSE, TRUE), Seg(2, 2, 2, 2, TRUE, FALSE)>>, 0),
     [File(<<Seg(0, 0, 2, 2, FALSE, TRUE),
             [Seg(3, 3, 2, 2, TRUE, FALSE) EXCEPT !.align = 1]>>, 0)
        EXCEPT !.len = 5]}

Segment(offset, vaddr, filesz, memsz, write, execute) ==
    [load |-> TRUE, offset |-> offset, vaddr |-> vaddr, filesz |-> filesz, memsz |-> memsz,
     align |-> 1, write |-> write, execute |-> execute]

Image(entry, headers) == [length |-> 6, entry |-> entry, headers |-> headers]

UserPrograms ==
    {Image(49, <<Segment(1, 49, 3, 3, FALSE, TRUE), Segment(4, 52, 1, 4, TRUE, FALSE)>>),
     Image(12, <<Segment(0, 12, 2, 2, FALSE, TRUE)>>),
     Image(48, <<Segment(0, 48, 1, 1, FALSE, TRUE), Segment(1, 49, 1, 1, TRUE, FALSE)>>),
     Image(48, <<Segment(0, 48, 2, 2, FALSE, TRUE), Segment(2, 58, 1, 1, TRUE, FALSE)>>),
     Image(48, <<Segment(0, 48, 2, 2, TRUE, TRUE)>>),
     Image(52, <<Segment(0, 48, 2, 2, FALSE, TRUE), Segment(2, 52, 1, 1, TRUE, FALSE)>>)}

Described(start, pages, conventional) ==
    [start |-> start, pages |-> pages, conventional |-> conventional]

FirmwareMaps ==
    {[descriptors |-> {Described(0, 2, TRUE), Described(2, 1, FALSE), Described(3, 25, TRUE)},
      reserved |-> {4}],
     [descriptors |-> {Described(0, 3, FALSE), Described(3, 13, TRUE), Described(16, 20, TRUE)},
      reserved |-> {5, 6}]}

Node(type, start, count) == [type |-> type, start |-> start, count |-> count]

Codec(f1, f2, w) ==
    [n \in 0..6 |-> CASE n = 0 -> Node(9, 1, 2)
                      [] n = 1 -> Node(f1, 3, 2)
                      [] n = 2 -> Node(f2, 5, 2)
                      [] OTHER -> Node(w[n], 0, 0)]

(* Audio and modem groups; widgets: DAC, pin, mixer *)
AllCodecs == {Codec(f1, f2, w) : f1 \in {1, 2}, f2 \in {1, 2}, w \in [3..6 -> {0, 2, 4}]}

OneCodec == {Codec(2, 1, <<9, 9, 0, 2, 4, 0>>)}

AllBuses == {<<a, b>> : a \in {"none", "hda_io_bar", "hda", "ac97", "ac97_bad_bar", "ac97_rejects"},
                        b \in {"other", "hda", "ac97", "ac97_high_port"}}

WakeSequence == <<"Space", "Space", "Backspace", "Backspace", "W", "A", "K", "E", "Enter">>

MousePackets == {<<\h09, 0, 0>>, <<\h28, 5, \h80>>, <<\h08, \hFA, 0>>}

Diagonal == {<<\h08, \h09, \h08>>}

AllHealths == {"ok", "absent", "mute", "stuck", "failing", "nomouse"}

Report(len, buttons, dx, dy) ==
    [len |-> len, buttons |-> buttons, dx |-> dx, dy |-> dy, aux |-> 7]

OneReport == {Report(3, {}, 1, 0)}

MouseReports ==
    {Report(2, {}, 0, 0), Report(3, {}, -128, 1), Report(3, {0}, 0, 0), Report(4, {0, 2}, 127, 0)}

-----------------------------------------------------------------------------
VARIABLE part  \* the part of the system this behaviour exercises

(* The loader, the firmware and the pages *)
VARIABLES machine, elf, modes, loaderPc, mem, key, ticks, own, scratch, segments,
          tables, fb, captured, loaderBuffer, info, free

loaderVars == <<machine, elf, modes, loaderPc, mem, key, ticks, own, scratch, segments,
                tables, fb, captured, loaderBuffer, info, free>>

Loader == INSTANCE BootLoader WITH
    pc <- loaderPc, buffer <- loaderBuffer, Machines <- {"big", "small", "low", "old"},
    Images <- KernelFiles, Modes <- {<<"direct", "preferred">>, <<"blt">>},
    TablePool <- 14, ExtraCapacity <- 1, MaxTicks <- 2

(* The order of the boot *)
VARIABLES image, bootPc, root, maps, isolated, reclaimed, found, disk, bootReady,
          bootResult, failed, outcome

bootVars == <<image, bootPc, root, maps, isolated, reclaimed, found, disk, bootReady,
              bootResult, failed, outcome>>

Boot == INSTANCE BootSequence WITH
    pc <- bootPc, ready <- bootReady, result <- bootResult,
    Kinds <- {"verify", "phase13", "virtio_net", "probe", "normal_session", "pyth_services", "legacy_shell"},
    Modes <- {"default", "rejected", "launch", "deferred", "late"},
    Devices <- {"hda", "ahci", "sdhci"}

(* The page allocator, the roots and the programs in them *)
VARIABLES memory, table, bytes, spaces, cr3, process, builds, total

spacesVars == <<memory, table, bytes, spaces, cr3, process, builds, total>>

Spaces == INSTANCE AddressSpace WITH
    PAGE_SIZE <- 2, AddressLimit <- 192, USER_VIRT_MIN <- 2, USER_VIRT_MAX <- 64,
    MAX_LOAD_SEGMENTS <- 2, MAX_USER_COPY_MAPPINGS <- 6, MemoryMaps <- FirmwareMaps,
    MAX_MANAGED_PAGES <- 28, TwoMiB <- 1, Span <- 16, MAX_TABLE_FRAMES <- 6,
    MAX_RETAINED_USER_FRAMES <- 6, Programs <- UserPrograms, MaxBuilds <- 4

(* The scheduler bring-up and the timer *)
VARIABLES stk, ifl, ctx, step, active, runs, cursor, termination, log

schedulerVars == <<stk, ifl, ctx, step, active, runs, cursor, termination, log>>

Scheduler == INSTANCE Scheduler

(* The HDA and AC97 drivers and devices *)
VARIABLES mode, bus, audioPc, spins, hdaAt, ac97At, crst, statests, graph, ici, walk,
          path, routed, stream, hdaBuf, hdaBdl, hdaEnd, ac97, pcm, bdl, seen

audioVars == <<mode, bus, audioPc, spins, hdaAt, ac97At, crst, statests, graph, ici,
               walk, path, routed, stream, hdaBuf, hdaBdl, hdaEnd, ac97, pcm, bdl, seen>>

AudioCodec == INSTANCE AudioDevice WITH
    pc <- audioPc, Modes <- {"verify"}, Buses <- {<<"other", "hda">>},
    CodecGraphs <- AllCodecs, CodecSets <- {{}, {1}}, SpinBudget <- 2, Entries <- 2

AudioEngines == INSTANCE AudioDevice WITH
    pc <- audioPc, Modes <- {"verify", "normal"}, Buses <- AllBuses,
    CodecGraphs <- OneCodec, CodecSets <- {{0}}, SpinBudget <- 2, Entries <- 3

(* The keyboard decoders and their consumers *)
VARIABLES keyboardConsumer, transport, wire, held, keyboardAt, wrong, pressed, dec, out,
          line, keyLog, keyboardResult

keyboardVars == <<keyboardConsumer, transport, wire, held, keyboardAt, wrong, pressed,
                  dec, out, line, keyLog, keyboardResult>>

KeyboardIrq == INSTANCE KeyboardInput WITH
    consumer <- keyboardConsumer, at <- keyboardAt, result <- keyboardResult,
    Consumers <- {"irq"}, Transports <- {2}, Script <- <<>>,
    WrongKeys <- {"A", "Enter", "F1", "PadEnter"}, MaxWrong <- 4, MaxWire <- 5,
    MaxHeld <- 2, KeyLogCapacity <- 12

KeyboardConsole == INSTANCE KeyboardInput WITH
    consumer <- keyboardConsumer, at <- keyboardAt, result <- keyboardResult,
    Consumers <- {"console"}, Transports <- {1, 2}, Script <- <<>>,
    WrongKeys <- {"Space", "A", "J", "Escape", "PadEnter", "F1"}, MaxWrong <- 3,
    MaxWire <- 4, MaxHeld <- 2, KeyLogCapacity <- 12

KeyboardDiagnostics == INSTANCE KeyboardInput WITH
    consumer <- keyboardConsumer, at <- keyboardAt, result <- keyboardResult,
    Consumers <- {"wake", "diagnostic"}, Transports <- {1, 2}, Script <- WakeSequence,
    WrongKeys <- {"A", "W", "Backspace", "Enter", "Space"}, MaxWrong <- 2, MaxWire <- 4,
    MaxHeld <- 1, KeyLogCapacity <- 10

(* The 8042 controller and its driver *)
VARIABLES variant, health, ps2At, guard, ps2Status, config, ctl, output, last, toSend,
          imr, irr, isr, enabled, mouse, ps2Events, packets, keys, answers

ps2Vars == <<variant, health, ps2At, guard, ps2Status, config, ctl, output, last,
             toSend, imr, irr, isr, enabled, mouse, ps2Events, packets, keys, answers>>

Ps2BringUp == INSTANCE Ps2Controller WITH
    at <- ps2At, status <- ps2Status, events <- ps2Events, Variants <- {"full"},
    Healths <- AllHealths, SelfTestResets <- {FALSE}, Quiet <- FALSE, LeftOver <- 8,
    Packets <- Diagonal, KeyBytes <- {28}, MaxPackets <- 2, MaxKeys <- 1, WaitLimit <- 3

Ps2Mouse == INSTANCE Ps2Controller WITH
    at <- ps2At, status <- ps2Status, events <- ps2Events, Variants <- {"full"},
    Healths <- {"ok"}, SelfTestResets <- {FALSE}, Quiet <- TRUE, LeftOver <- 8,
    Packets <- MousePackets, KeyBytes <- {28}, MaxPackets <- 3, MaxKeys <- 2,
    WaitLimit <- 3

Ps2Polling == INSTANCE Ps2Controller WITH
    at <- ps2At, status <- ps2Status, events <- ps2Events, Variants <- {"polling"},
    Healths <- AllHealths, SelfTestResets <- {TRUE, FALSE}, Quiet <- TRUE,
    LeftOver <- 8, Packets <- MousePackets, KeyBytes <- {28}, MaxPackets <- 2,
    MaxKeys <- 1, WaitLimit <- 3

(* The stages and screens of the USB probe *)
VARIABLES level, usbPc, snapshot, usbStatus, change, error, usbResult, decoded, failure,
          connected, toggles, baseline, gate, attempt, usbRing, ordinal, summary, route,
          viewing, keysLeft, screen, usbReady, samples, usbReports, said

usbVars == <<level, usbPc, snapshot, usbStatus, change, error, usbResult, decoded,
             failure, connected, toggles, baseline, gate, attempt, usbRing, ordinal,
             summary, route, viewing, keysLeft, screen, usbReady, samples, usbReports,
             said>>

UsbPorts == INSTANCE UsbProbeBoot WITH
    pc <- usbPc, status <- usbStatus, result <- usbResult, ring <- usbRing,
    ready <- usbReady, reports <- usbReports, Levels <- {0, 1, 2, 3, 8, 9},
    Ports <- {1, 2}, MaxToggles <- 4, MaxAttempts <- 5, StableSamples <- 3,
    Reports <- 3, RingTrbs <- 3, ReportSet <- OneReport, KeySet <- {"Space"},
    MaxKeys <- 0

UsbMouse == INSTANCE UsbProbeBoot WITH
    pc <- usbPc, status <- usbStatus, result <- usbResult, ring <- usbRing,
    ready <- usbReady, reports <- usbReports, Levels <- {10, 11}, Ports <- {1},
    MaxToggles <- 1, MaxAttempts <- 2, StableSamples <- 1, Reports <- 3, RingTrbs <- 3,
    ReportSet <- MouseReports, KeySet <- {"Space", "Backspace", "Other"}, MaxKeys <- 6

(* The rings shared with the xHCI host controller *)
VARIABLES stage, phase, control, expected, producer, xhciConsumer, xhciRing, xhciEvents,
          dequeue, controller, xhciBuffer, produced, consumed, xhciReports

xhciVars == <<stage, phase, control, expected, producer, xhciConsumer, xhciRing,
              xhciEvents, dequeue, controller, xhciBuffer, produced, consumed,
              xhciReports>>

Xhci == INSTANCE XhciDriver WITH
    consumer <- xhciConsumer, ring <- xhciRing, events <- xhciEvents,
    buffer <- xhciBuffer, reports <- xhciReports, InterruptTrbs <- 4, EventTrbs <- 3,
    ControlTrbs <- 13, MaxReports <- 6, MaxPortEvents <- 2

(* The assumptions of the components on their constants. *)
ASSUME Bounds ==
    /\ Loader!PoolAssumption /\ Loader!TickAssumption
    /\ Spaces!AddressSpaceAssumption /\ AudioCodec!AudioBounds
    /\ AudioEngines!AudioBounds /\ KeyboardIrq!KeyboardBounds
    /\ KeyboardConsole!KeyboardBounds /\ KeyboardDiagnostics!KeyboardBounds
    /\ Ps2BringUp!Ps2Bounds /\ Ps2Mouse!Ps2Bounds /\ Ps2Polling!Ps2Bounds
    /\ UsbPorts!ProbeBounds /\ UsbMouse!ProbeBounds /\ Xhci!XhciDriverAssumption

-----------------------------------------------------------------------------
(* A component that is not exercised rests at a value nothing reads. *)
Off == "off"

LoaderOff ==
    /\ machine = Off /\ elf = Off /\ modes = Off /\ loaderPc = Off /\ mem = Off
    /\ key = Off /\ ticks = Off /\ own = Off /\ scratch = Off /\ segments = Off
    /\ tables = Off /\ fb = Off /\ captured = Off /\ loaderBuffer = Off /\ info = Off
    /\ free = Off

BootOff ==
    /\ image = Off /\ bootPc = Off /\ root = Off /\ maps = Off /\ isolated = Off
    /\ reclaimed = Off /\ found = Off /\ disk = Off /\ bootReady = Off
    /\ bootResult = Off /\ failed = Off /\ outcome = Off

SpacesOff ==
    /\ memory = Off /\ table = Off /\ bytes = Off /\ spaces = Off /\ cr3 = Off
    /\ process = Off /\ builds = Off /\ total = Off

SchedulerOff ==
    /\ stk = Off /\ ifl = Off /\ ctx = Off /\ step = Off /\ active = Off
    /\ runs = Off /\ cursor = Off /\ termination = Off /\ log = Off

AudioOff ==
    /\ mode = Off /\ bus = Off /\ audioPc = Off /\ spins = Off /\ hdaAt = Off
    /\ ac97At = Off /\ crst = Off /\ statests = Off /\ graph = Off /\ ici = Off
    /\ walk = Off /\ path = Off /\ routed = Off /\ stream = Off /\ hdaBuf = Off
    /\ hdaBdl = Off /\ hdaEnd = Off /\ ac97 = Off /\ pcm = Off /\ bdl = Off
    /\ seen = Off

KeyboardOff ==
    /\ keyboardConsumer = Off /\ transport = Off /\ wire = Off /\ held = Off
    /\ keyboardAt = Off /\ wrong = Off /\ pressed = Off /\ dec = Off /\ out = Off
    /\ line = Off /\ keyLog = Off /\ keyboardResult = Off

Ps2Off ==
    /\ variant = Off /\ health = Off /\ ps2At = Off /\ guard = Off /\ ps2Status = Off
    /\ config = Off /\ ctl = Off /\ output = Off /\ last = Off /\ toSend = Off
    /\ imr = Off /\ irr = Off /\ isr = Off /\ enabled = Off /\ mouse = Off
    /\ ps2Events = Off /\ packets = Off /\ keys = Off /\ answers = Off

UsbOff ==
    /\ level = Off /\ usbPc = Off /\ snapshot = Off /\ usbStatus = Off
    /\ change = Off /\ error = Off /\ usbResult = Off /\ decoded = Off
    /\ failure = Off /\ connected = Off /\ toggles = Off /\ baseline = Off
    /\ gate = Off /\ attempt = Off /\ usbRing = Off /\ ordinal = Off /\ summary = Off
    /\ route = Off /\ viewing = Off /\ keysLeft = Off /\ screen = Off
    /\ usbReady = Off /\ samples = Off /\ usbReports = Off /\ said = Off

XhciOff ==
    /\ stage = Off /\ phase = Off /\ control = Off /\ expected = Off
    /\ producer = Off /\ xhciConsumer = Off /\ xhciRing = Off /\ xhciEvents = Off
    /\ dequeue = Off /\ controller = Off /\ xhciBuffer = Off /\ produced = Off
    /\ consumed = Off /\ xhciReports = Off

vars == <<part, loaderVars, bootVars, spacesVars, schedulerVars, audioVars, keyboardVars,
          ps2Vars, usbVars, xhciVars>>

Init ==
    \/ /\ part = "loader" /\ Loader!Init
       /\ BootOff /\ SpacesOff /\ SchedulerOff /\ AudioOff /\ KeyboardOff /\ Ps2Off
       /\ UsbOff /\ XhciOff
    \/ /\ part = "boot" /\ Boot!Init
       /\ LoaderOff /\ SpacesOff /\ SchedulerOff /\ AudioOff /\ KeyboardOff /\ Ps2Off
       /\ UsbOff /\ XhciOff
    \/ /\ part = "spaces" /\ Spaces!Init
       /\ LoaderOff /\ BootOff /\ SchedulerOff /\ AudioOff /\ KeyboardOff /\ Ps2Off
       /\ UsbOff /\ XhciOff
    \/ /\ part = "scheduler" /\ Scheduler!Init
       /\ LoaderOff /\ BootOff /\ SpacesOff /\ AudioOff /\ KeyboardOff /\ Ps2Off
       /\ UsbOff /\ XhciOff
    \/ /\ part = "audio codec" /\ AudioCodec!Init
       /\ LoaderOff /\ BootOff /\ SpacesOff /\ SchedulerOff /\ KeyboardOff /\ Ps2Off
       /\ UsbOff /\ XhciOff
    \/ /\ part = "audio engines" /\ AudioEngines!Init
       /\ LoaderOff /\ BootOff /\ SpacesOff /\ SchedulerOff /\ KeyboardOff /\ Ps2Off
       /\ UsbOff /\ XhciOff
    \/ /\ part = "keyboard irq" /\ KeyboardIrq!Init
       /\ LoaderOff /\ BootOff /\ SpacesOff /\ SchedulerOff /\ AudioOff /\ Ps2Off
       /\ UsbOff /\ XhciOff
    \/ /\ part = "keyboard console" /\ KeyboardConsole!Init
       /\ LoaderOff /\ BootOff /\ SpacesOff /\ SchedulerOff /\ AudioOff /\ Ps2Off
       /\ UsbOff /\ XhciOff
    \/ /\ part = "keyboard diagnostics" /\ KeyboardDiagnostics!Init
       /\ LoaderOff /\ BootOff /\ SpacesOff /\ SchedulerOff /\ AudioOff /\ Ps2Off
       /\ UsbOff /\ XhciOff
    \/ /\ part = "ps2 bring-up" /\ Ps2BringUp!Init
       /\ LoaderOff /\ BootOff /\ SpacesOff /\ SchedulerOff /\ AudioOff
       /\ KeyboardOff /\ UsbOff /\ XhciOff
    \/ /\ part = "ps2 mouse" /\ Ps2Mouse!Init
       /\ LoaderOff /\ BootOff /\ SpacesOff /\ SchedulerOff /\ AudioOff
       /\ KeyboardOff /\ UsbOff /\ XhciOff
    \/ /\ part = "ps2 polling" /\ Ps2Polling!Init
       /\ LoaderOff /\ BootOff /\ SpacesOff /\ SchedulerOff /\ AudioOff
       /\ KeyboardOff /\ UsbOff /\ XhciOff
    \/ /\ part = "usb ports" /\ UsbPorts!Init
       /\ LoaderOff /\ BootOff /\ SpacesOff /\ SchedulerOff /\ AudioOff
       /\ KeyboardOff /\ Ps2Off /\ XhciOff
    \/ /\ part = "usb mouse" /\ UsbMouse!Init
       /\ LoaderOff /\ BootOff /\ SpacesOff /\ SchedulerOff /\ AudioOff
       /\ KeyboardOff /\ Ps2Off /\ XhciOff
    \/ /\ part = "xhci" /\ Xhci!Init
       /\ LoaderOff /\ BootOff /\ SpacesOff /\ SchedulerOff /\ AudioOff
       /\ KeyboardOff /\ Ps2Off /\ UsbOff

Next ==
    \/ /\ part = "loader" /\ Loader!Next
       /\ UNCHANGED <<part, bootVars, spacesVars, schedulerVars, audioVars,
                       keyboardVars, ps2Vars, usbVars, xhciVars>>
    \/ /\ part = "boot" /\ Boot!Next
       /\ UNCHANGED <<part, loaderVars, spacesVars, schedulerVars, audioVars,
                       keyboardVars, ps2Vars, usbVars, xhciVars>>
    \/ /\ part = "spaces" /\ Spaces!Next
       /\ UNCHANGED <<part, loaderVars, bootVars, schedulerVars, audioVars,
                       keyboardVars, ps2Vars, usbVars, xhciVars>>
    \/ /\ part = "scheduler" /\ Scheduler!Next
       /\ UNCHANGED <<part, loaderVars, bootVars, spacesVars, audioVars, keyboardVars,
                       ps2Vars, usbVars, xhciVars>>
    \/ /\ part = "audio codec" /\ AudioCodec!Next
       /\ UNCHANGED <<part, loaderVars, bootVars, spacesVars, schedulerVars,
                       keyboardVars, ps2Vars, usbVars, xhciVars>>
    \/ /\ part = "audio engines" /\ AudioEngines!Next
       /\ UNCHANGED <<part, loaderVars, bootVars, spacesVars, schedulerVars,
                       keyboardVars, ps2Vars, usbVars, xhciVars>>
    \/ /\ part = "keyboard irq" /\ KeyboardIrq!Next
       /\ UNCHANGED <<part, loaderVars, bootVars, spacesVars, schedulerVars, audioVars,
                       ps2Vars, usbVars, xhciVars>>
    \/ /\ part = "keyboard console" /\ KeyboardConsole!Next
       /\ UNCHANGED <<part, loaderVars, bootVars, spacesVars, schedulerVars, audioVars,
                       ps2Vars, usbVars, xhciVars>>
    \/ /\ part = "keyboard diagnostics" /\ KeyboardDiagnostics!Next
       /\ UNCHANGED <<part, loaderVars, bootVars, spacesVars, schedulerVars, audioVars,
                       ps2Vars, usbVars, xhciVars>>
    \/ /\ part = "ps2 bring-up" /\ Ps2BringUp!Next
       /\ UNCHANGED <<part, loaderVars, bootVars, spacesVars, schedulerVars, audioVars,
                       keyboardVars, usbVars, xhciVars>>
    \/ /\ part = "ps2 mouse" /\ Ps2Mouse!Next
       /\ UNCHANGED <<part, loaderVars, bootVars, spacesVars, schedulerVars, audioVars,
                       keyboardVars, usbVars, xhciVars>>
    \/ /\ part = "ps2 polling" /\ Ps2Polling!Next
       /\ UNCHANGED <<part, loaderVars, bootVars, spacesVars, schedulerVars, audioVars,
                       keyboardVars, usbVars, xhciVars>>
    \/ /\ part = "usb ports" /\ UsbPorts!Next
       /\ UNCHANGED <<part, loaderVars, bootVars, spacesVars, schedulerVars, audioVars,
                       keyboardVars, ps2Vars, xhciVars>>
    \/ /\ part = "usb mouse" /\ UsbMouse!Next
       /\ UNCHANGED <<part, loaderVars, bootVars, spacesVars, schedulerVars, audioVars,
                       keyboardVars, ps2Vars, xhciVars>>
    \/ /\ part = "xhci" /\ Xhci!Next
       /\ UNCHANGED <<part, loaderVars, bootVars, spacesVars, schedulerVars, audioVars,
                       keyboardVars, ps2Vars, usbVars>>

Fair1 ==
    \/ /\ part = "boot" /\ (Boot!Next /\ ~Boot!Waiting)
       /\ UNCHANGED <<part, loaderVars, spacesVars, schedulerVars, audioVars,
                       keyboardVars, ps2Vars, usbVars, xhciVars>>
    \/ /\ part = "scheduler" /\ Scheduler!HandlerStep
       /\ UNCHANGED <<part, loaderVars, bootVars, spacesVars, audioVars, keyboardVars,
                       ps2Vars, usbVars, xhciVars>>
    \/ /\ part = "audio engines" /\ AudioEngines!Driver
       /\ UNCHANGED <<part, loaderVars, bootVars, spacesVars, schedulerVars,
                       keyboardVars, ps2Vars, usbVars, xhciVars>>
    \/ /\ part = "ps2 bring-up" /\ Ps2BringUp!Kernel
       /\ UNCHANGED <<part, loaderVars, bootVars, spacesVars, schedulerVars, audioVars,
                       keyboardVars, usbVars, xhciVars>>
    \/ /\ part = "ps2 mouse" /\ Ps2Mouse!Kernel
       /\ UNCHANGED <<part, loaderVars, bootVars, spacesVars, schedulerVars, audioVars,
                       keyboardVars, usbVars, xhciVars>>
    \/ /\ part = "ps2 polling" /\ Ps2Polling!Kernel
       /\ UNCHANGED <<part, loaderVars, bootVars, spacesVars, schedulerVars, audioVars,
                       keyboardVars, usbVars, xhciVars>>
    \/ /\ part = "usb ports" /\ UsbPorts!Probe
       /\ UNCHANGED <<part, loaderVars, bootVars, spacesVars, schedulerVars, audioVars,
                       keyboardVars, ps2Vars, xhciVars>>
    \/ /\ part = "usb mouse" /\ UsbMouse!Probe
       /\ UNCHANGED <<part, loaderVars, bootVars, spacesVars, schedulerVars, audioVars,
                       keyboardVars, ps2Vars, xhciVars>>
    \/ /\ part = "xhci" /\ Xhci!Driver
       /\ UNCHANGED <<part, loaderVars, bootVars, spacesVars, schedulerVars, audioVars,
                       keyboardVars, ps2Vars, usbVars>>

Fair2 ==
    \/ /\ part = "scheduler" /\ Scheduler!Tick
       /\ UNCHANGED <<part, loaderVars, bootVars, spacesVars, audioVars, keyboardVars,
                       ps2Vars, usbVars, xhciVars>>

FairSwitch ==
    \/ /\ part = "scheduler" /\ (Scheduler!BootStep \/ Scheduler!TaskStep \/ Scheduler!Restore)
       /\ UNCHANGED <<part, loaderVars, bootVars, spacesVars, audioVars, keyboardVars,
                       ps2Vars, usbVars, xhciVars>>

(* The loader is one thread whose every statement moves its pc *)
LoaderMoves == part = "loader" /\ Loader!Moves /\ UNCHANGED part

Spec == Init /\ [][Next]_vars /\ WF_vars(Fair1) /\ WF_vars(Fair2) /\ SF_vars(FairSwitch) /\ WF_<<part, loaderPc>>(LoaderMoves)

-----------------------------------------------------------------------------
(* LoaderSafe: no page in use is free to the firmware or the kernel, the   *)
(* kernel reads the memory map the firmware ended with, what is handed off *)
(* is reachable under the new tables exactly when firmware placed it at or *)
(* above 2 MiB and below the ceiling of the identity map (less than the    *)
(* "wherever firmware allocated them" of paging.rs:6-10: a handoff placed  *)
(* outside faults, and only such a one), the kernel is mapped where it     *)
(* links with no page writable and executable, and scratch memory goes     *)
(* back (boot/src/main.rs, paging.rs, elf.rs).                             *)
LoaderSafe ==
    part = "loader" =>
        /\ Loader!TypeOK /\ Loader!NoLiveFrameFree /\ Loader!KernelReadsFinalMap
        /\ Loader!HandoffReachable /\ Loader!KernelMappedSafely /\ Loader!ScratchReturned

(* BootSafe: in every build kernel work runs under the kernel's root, no   *)
(* stage faults, a marker of success ends only a boot that did the work,   *)
(* ring 3 is entered prepared, and a program that has to be on disk is     *)
(* (main.rs, normal_boot.rs).                                              *)
BootSafe ==
    part = "boot" =>
        /\ Boot!TypeOK /\ Boot!KernelWorkUnderKernelRoot /\ Boot!NoKernelFault
        /\ Boot!HonestEnd /\ Boot!RingThreePrepared /\ Boot!ProgramReachesDisk

(* SpacesSafe: frames are accounted for and have one owner, a user root    *)
(* reaches its own pages and nothing of the kernel's, guard pages stay     *)
(* unmapped, the active root is never freed, the copy map is backed, and   *)
(* an image is loaded where it links with an executable entry              *)
(* (memory/physical.rs, memory/virtual.rs, user_elf.rs).                   *)
SpacesSafe ==
    part = "spaces" =>
        /\ Spaces!TypeOK /\ Spaces!AccountExact /\ Spaces!FramesExclusive
        /\ Spaces!UserReach /\ Spaces!GuardPages /\ Spaces!KernelReach
        /\ Spaces!ActiveRootKept /\ Spaces!CopyMapBacked /\ Spaces!ImageLoaded
        /\ Spaces!EntryExecutable /\ Spaces!RecoveryIsolated

(* SchedulerSafe: with the timer interrupting anywhere every context a     *)
(* switch restores is one that was saved, markers come in order and the    *)
(* self tests succeed (scheduler.rs, interrupts.rs).                       *)
SchedulerSafe ==
    part = "scheduler" =>
        /\ Scheduler!TypeOK /\ Scheduler!ContextsKept
        /\ Scheduler!MarkersInOrder /\ Scheduler!SelfTestsSucceed

(* AudioSafe: answers of the codec are those to the commands asked, over   *)
(* rings that wrap; enumeration ends at a route and playback uses it; the  *)
(* engine fetches only described and written samples, and a mix is played  *)
(* in full (audio.rs).                                                     *)
AudioSafe ==
    /\ part = "audio codec" =>
          /\ AudioCodec!AnswersMatchCommands /\ AudioCodec!EnumerationResolves
          /\ AudioCodec!PlaybackIsRouted
    /\ part = "audio engines" =>
          /\ AudioEngines!TypeOK /\ AudioEngines!NoTornSamples
          /\ AudioEngines!FetchesDescribed /\ AudioEngines!MixPlayedInFull

(* KeyboardExact: bytes become keys exactly.  The session builds' IRQ1     *)
(* decoder (input_drivers.rs) queues one key-down per press with two keys  *)
(* held, repeats, releases out of order and extended keys; the console,    *)
(* from a first key that tells the two scan-code sets apart, delivers      *)
(* every press once and in order; the wake recogniser (physical_wake.rs)   *)
(* equals a line editor over the six keys it hears, and what it accepts is *)
(* `wake` and Enter pressed one after another unless there was a Backspace *)
(* or a key it does not hear, which it passes over (line 186; the exact    *)
(* sequence of ADR 0074:26,33 is not kept there); and the input diagnostic *)
(* accepts its nine keys and nothing else, past the capacity of its log.   *)
KeyboardExact ==
    /\ part = "keyboard irq" => KeyboardIrq!TypeOK /\ KeyboardIrq!IrqKeyDownsExact
    /\ part = "keyboard console" => KeyboardConsole!ConsoleExactOnceSettled
    /\ part = "keyboard diagnostics" =>
          /\ KeyboardDiagnostics!WakeAgreesWithKeys
          /\ KeyboardDiagnostics!WakeSequenceExact
          /\ KeyboardDiagnostics!DiagnosticExact

(* Ps2Exact: initialize (ps2.rs) never takes a byte of a device for the    *)
(* controller's answer and opens the interrupt lines exactly when it       *)
(* succeeds, with keys pressed and mouse bytes arriving at any step; every *)
(* mouse packet becomes exactly its events, in order, if the devices keep  *)
(* quiet until initialize has ended (Quiet: a byte flushed in the middle   *)
(* of a packet would shift the ones after it); the polling variant leaves  *)
(* interrupts unreported even if the self test resets the configuration.   *)
Ps2Exact ==
    /\ part = "ps2 bring-up" =>
          /\ Ps2BringUp!TypeOK
          /\ Ps2BringUp!AnswersAreTheControllers /\ Ps2BringUp!UnmaskedExactlyOnSuccess
    /\ part = "ps2 mouse" => Ps2Mouse!TypeOK /\ Ps2Mouse!MouseEventsExact
    /\ part = "ps2 polling" => Ps2Polling!PollingIsSilent

(* UsbExact: a port is probed only after a steady connection, and one that *)
(* arrives alone and stays is found before the poll gives up; the summary  *)
(* of the mouse reports is exact, READY follows traversal, activation and  *)
(* cursor motion in that order, and an error reaches the screen            *)
(* (usb_xhci_probe_screen.rs).  Below it driver and controller agree on    *)
(* rings that wrap: events and reports are taken once and in order         *)
(* (usb_xhci_driver.rs).                                                   *)
UsbExact ==
    /\ part = "usb ports" => UsbPorts!TargetWasStable /\ UsbPorts!NoSteadyArrivalMissed
    /\ part = "usb mouse" =>
          /\ UsbMouse!TypeOK /\ UsbMouse!SummaryExact /\ UsbMouse!SequenceIsWhole
          /\ UsbMouse!ReadyIsProven /\ UsbMouse!ErrorIsShown
    /\ part = "xhci" =>
          Xhci!TypeOK /\ Xhci!EventsInOrder /\ Xhci!ReportsInOrder /\ Xhci!RingInStep

(* BootWaits, BootServed: what has to be followed by what. *)
BootWaits ==
    \/ part \in {"loader", "boot", "scheduler", "audio engines", "ps2 bring-up", "usb mouse"}
    \/ part = "ps2 mouse" /\ enabled /\ output # <<>>
    \/ part = "xhci" /\ phase = "rung"

BootServed ==
    \/ part = "loader" /\ loaderPc \in Loader!Ends
    \/ part = "boot" /\ (outcome # "running" \/ Boot!Waiting)
    \/ part = "scheduler" /\ Scheduler!Top.at = "done"
    \/ part = "audio engines" /\ audioPc \in AudioEngines!Ends
    \/ part = "ps2 bring-up" /\ ps2Status # "running"
    \/ part = "ps2 mouse" /\ output = <<>>
    \/ part = "usb mouse" /\ usbPc \in {"done", "keys"}
    \/ part = "xhci" /\ phase # "rung"

(* BootProgress: the loader ends although the firmware keeps changing its  *)
(* map, a boot ends or waits for a click, the scheduler bring-up completes *)
(* although the timer interrupts it again and again, the audio test and    *)
(* the controller's initialize end whatever the device does, a byte in the *)
(* output buffer is taken once interrupts are enabled, the USB probe ends  *)
(* or waits for a key, and no xHCI request waits for ever.                 *)
BootProgress == BootWaits ~> BootServed
=============================================================================

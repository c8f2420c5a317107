---------------------------- MODULE UsbProbeBoot ----------------------------
(***************************************************************************)
(* The USB/xHCI probe image (core/src/usb_xhci_probe_boot.rs): find the    *)
(* controller, read its registers and ports, wait for a mouse to be        *)
(* plugged in and stay, run the deepest driver probe the build contains,   *)
(* capture a fixed number of mouse reports, in the viewing build wait for  *)
(* the cursor to be activated from the keyboard, draw one final screen and *)
(* say READY.                                                              *)
(*                                                                         *)
(* `level` stands for the cargo features, each of which implies the one    *)
(* before.  A driver probe's or a capture's own failure (XhciDriver),      *)
(* mapping, register and framebuffer errors are free choices here; the     *)
(* ports change under the poll at any time.  Serial text is left out.      *)
(***************************************************************************)
EXTENDS Integers, Sequences, FiniteSets, SequencesExt

CONSTANTS
    Levels,         \* builds explored: subset of 0..11
    Ports,
    MaxToggles,     \* times a port changes while polled
    MaxAttempts,    \* XHCI_SWAP_POLL_ATTEMPTS, 3,000,000 in the code
    StableSamples,  \* XHCI_CONNECTED_STABLE_SAMPLES, 1,024 in the code
    Reports,        \* XHCI_BOOT_MOUSE_RECURRING_REPORTS, 16 in the code
    RingTrbs,       \* XHCI_INTERRUPT_RING_TRBS, 16 in the code
    ReportSet,      \* raw mouse reports: [len, buttons, dx, dy, aux]
    KeySet, MaxKeys \* keys pressed while activation is awaited

ProbeBounds ==
    /\ Levels \subseteq 0..11 /\ Ports \subseteq Nat \ {0}
    /\ {MaxToggles, MaxAttempts, MaxKeys} \subseteq Nat
    /\ StableSamples \in Nat \ {0} /\ Reports \in Nat /\ RingTrbs \in Nat \ {0, 1}

PORT == 1
SWAP == 2
COMMAND == 3
DECODE == 9
RECURRING == 10
VIEWING == 11

VARIABLES
    level, pc,
    snapshot, status, change, error,  \* xhci_snapshot, port_status, port_change, xhci_error
    result, decoded, failure,         \* the probe's result, the decoded report, its error
    connected, toggles,               \* external: connected ports
    baseline, gate, attempt,          \* poll_for_port_status_change
    ring,                             \* the interrupt ring's producer
    ordinal, summary,                 \* run_boot_mouse_recurring_probe
    route,                            \* traversal_routed, cursor_activated, cursor_routed
    viewing,                          \* focus mark active; activation keys matched
    keysLeft, screen, ready,
    samples, reports, said            \* histories: port samples, reports, routes

vars == <<level, pc, snapshot, status, change, error, result, decoded, failure, connected, toggles,
          baseline, gate, attempt, ring, ordinal, summary, route, viewing, keysLeft, screen, ready,
          samples, reports, said>>

found == <<snapshot, status, change, error>>
outcome == <<result, decoded, failure>>
polling == <<baseline, gate, attempt, samples>>
sequence == <<ring, ordinal, summary, route, viewing, reports, said>>
final == <<screen, ready>>
outside == <<level, connected, toggles, keysLeft>>

NoGate == [port |-> 0, count |-> 0]

NewSummary == [count |-> 0, dx |-> 0, dy |-> 0, last |-> {}, pressed |-> {}, released |-> {},
               aux |-> -1]

Init ==
    /\ level \in Levels /\ pc = "scan"
    /\ snapshot = FALSE /\ status = FALSE /\ change = 0 /\ error = "none"
    /\ result = FALSE /\ decoded = FALSE /\ failure = "none"
    /\ connected \in SUBSET Ports /\ toggles = 0
    /\ baseline = {} /\ gate = NoGate /\ attempt = 0
    /\ ring = [index |-> 0, cycle |-> TRUE, wraps |-> 0]
    /\ ordinal = 1 /\ summary = NewSummary
    /\ route = [traversal |-> FALSE, activated |-> FALSE, cursor |-> FALSE]
    /\ viewing = [mark |-> FALSE, matched |-> 0]
    /\ keysLeft = MaxKeys /\ screen = "none" /\ ready = FALSE
    /\ samples = <<>> /\ reports = <<>> /\ said = <<>>

----------------------------------------------------------------------------
(* Discovery. *)

(* run_probe and first_xhci. *)
Scan ==
    /\ pc = "scan"
    /\ pc' \in {"map", "frame"}
    /\ UNCHANGED <<found, outcome, polling, sequence, final, outside>>

Refused(e) == error' = e /\ pc' = "frame" /\ UNCHANGED <<snapshot, change>>

MapMmio ==
    /\ pc = "map"
    /\ \/ pc' = "snapshot" /\ UNCHANGED found
       \/ Refused("mapping") /\ UNCHANGED status
    /\ UNCHANGED <<outcome, polling, sequence, final, outside>>

ReadSnapshot ==
    /\ pc = "snapshot"
    /\ \/ /\ snapshot' = TRUE
          /\ pc' = IF level >= PORT THEN "ports" ELSE "frame"
          /\ UNCHANGED <<status, change, error>>
       \/ Refused("registers") /\ UNCHANGED status
    /\ UNCHANGED <<outcome, polling, sequence, final, outside>>

ReadPorts ==
    /\ pc = "ports"
    /\ \/ /\ status' = TRUE /\ baseline' = connected
          /\ pc' = IF level >= SWAP THEN "prompt" ELSE "frame"
          /\ UNCHANGED <<snapshot, change, error>>
       \/ Refused("ports") /\ UNCHANGED <<status, baseline>>
    /\ UNCHANGED <<outcome, gate, attempt, samples, sequence, final, outside>>

(* Without its prompt on screen the swap is not attempted. *)
PromptSwap ==
    /\ pc = "prompt"
    /\ pc' \in {"poll", "frame"}
    /\ UNCHANGED <<found, outcome, polling, sequence, final, outside>>

(* A device is plugged in or pulled. *)
Toggle(p) ==
    /\ pc = "poll" /\ toggles < MaxToggles
    /\ connected' = IF p \in connected THEN connected \ {p} ELSE connected \cup {p}
    /\ toggles' = toggles + 1
    /\ UNCHANGED <<level, pc, found, outcome, polling, sequence, keysLeft, final>>

(* first_connected_port: the lowest port that was not connected. *)
FirstConnected(before, after) ==
    IF after \ before = {} THEN 0
    ELSE CHOOSE p \in after \ before : \A q \in after \ before : p <= q

(* StableConnectedPortGate::observe: <<gate, chosen port or 0>>. *)
Observed(before, after) ==
    LET tracked == gate.port \in after
        edge == FirstConnected(before, after)
        next == CASE tracked -> [gate EXCEPT !.count = @ + 1]
                  [] ~tracked /\ edge # 0 -> [port |-> edge, count |-> 1]
                  [] OTHER -> NoGate
    IN IF next.port # 0 /\ next.count >= StableSamples THEN <<NoGate, next.port>> ELSE <<next, 0>>

AfterChange == CASE level = SWAP -> "frame"
                 [] level \in COMMAND..DECODE -> "probe"
                 [] OTHER -> "begin"

(* One sample of poll_for_port_status_change. *)
Poll ==
    /\ pc = "poll" /\ attempt < MaxAttempts
    /\ samples' = Append(samples, connected)
    /\ gate' = Observed(baseline, connected)[1]
    /\ LET port == Observed(baseline, connected)[2]
       IN IF port # 0
          THEN change' = port /\ pc' = AfterChange /\ UNCHANGED <<baseline, attempt>>
          ELSE baseline' = connected /\ attempt' = attempt + 1 /\ UNCHANGED <<change, pc>>
    /\ UNCHANGED <<snapshot, status, error, outcome, sequence, final, outside>>

(* The registers cannot be read, or the attempts are used up. *)
PollFails ==
    /\ pc = "poll"
    /\ Refused(IF attempt = MaxAttempts THEN "timeout" ELSE "ports")
    /\ status' = FALSE
    /\ UNCHANGED <<outcome, polling, sequence, final, outside>>

----------------------------------------------------------------------------
(* The one-shot probes of the driver. *)

Fails(f) == failure' = f /\ pc' = "frame" /\ UNCHANGED <<result, decoded>>

RunProbe ==
    /\ pc = "probe"
    /\ \/ /\ result' = TRUE /\ pc' = "frame"
          /\ decoded' \in IF level = DECODE THEN BOOLEAN ELSE {FALSE}
          /\ UNCHANGED failure
       \/ Fails("driver")
    /\ UNCHANGED <<found, polling, sequence, final, outside>>

----------------------------------------------------------------------------
(* The recurring mouse sequence. *)

Begin ==
    /\ pc = "begin"
    /\ \/ pc' = "capture" /\ UNCHANGED outcome
       \/ level = VIEWING /\ Fails("viewing")
       \/ Fails("driver")
    /\ UNCHANGED <<found, polling, sequence, final, outside>>

(* XhciInterruptTransferProducer::complete. *)
Completed(r) ==
    IF r.index + 1 = RingTrbs - 1
    THEN [index |-> 0, cycle |-> ~r.cycle, wraps |-> r.wraps + 1]
    ELSE [r EXCEPT !.index = @ + 1]

(* UsbBootMouseSequenceSummary::observe. *)
Observe(s, r) ==
    [count |-> s.count + 1, dx |-> s.dx + r.dx, dy |-> s.dy + r.dy, last |-> r.buttons,
     pressed |-> s.pressed \cup r.buttons,
     released |-> s.released \cup (s.last \ r.buttons),
     aux |-> IF r.len = 4 THEN r.aux ELSE s.aux]

Moves(r) == r.dx # 0 \/ r.dy # 0

(* One report is captured, decoded, summed up and, in the viewing build,   *)
(* routed to the traversal or to the focus mark.                           *)
Capture(r) ==
    /\ pc = "capture" /\ ordinal <= Reports
    /\ ring' = Completed(ring)
    /\ IF r.len \notin {3, 4}
       THEN Fails("decode") /\ UNCHANGED <<ordinal, summary, route, reports, said>>
       ELSE /\ summary' = Observe(summary, r) /\ reports' = Append(reports, r)
            /\ CASE level = RECURRING \/ ~Moves(r) ->
                      /\ ordinal' = ordinal + 1
                      /\ UNCHANGED <<pc, outcome, route, said>>
                 [] level = VIEWING /\ Moves(r) /\ viewing.mark ->
                      /\ route' = [route EXCEPT !.cursor = TRUE]
                      /\ said' = Append(said, "cursor")
                      /\ \/ ordinal' = ordinal + 1 /\ UNCHANGED <<pc, outcome>>
                         \/ Fails("viewing") /\ UNCHANGED ordinal
                 [] OTHER ->
                      /\ route' = [route EXCEPT !.traversal = TRUE]
                      /\ said' = Append(said, "traversal")
                      /\ IF route.activated THEN ordinal' = ordinal + 1 /\ UNCHANGED pc
                         ELSE pc' = "activate" /\ UNCHANGED ordinal
                      /\ UNCHANGED outcome
    /\ UNCHANGED <<found, polling, viewing, final, outside>>

CaptureFails ==
    /\ pc = "capture" /\ ordinal <= Reports
    /\ Fails("driver")
    /\ UNCHANGED <<found, polling, sequence, final, outside>>

(* wait_for_cursor_activation: the keyboard comes up and the panel is      *)
(* drawn, or the sequence ends.                                            *)
Activate ==
    /\ pc = "activate"
    /\ \/ pc' = "keys" /\ UNCHANGED outcome
       \/ Fails("viewing")
    /\ UNCHANGED <<found, polling, sequence, final, outside>>

Activation == <<"Space", "Space", "Backspace", "Backspace">>

(* SessionControlInterpreter::observe: activation keys matched so far. *)
Matched(n, key) == IF key = Activation[n + 1] THEN n + 1 ELSE IF key = "Space" THEN 1 ELSE 0

Key(key) ==
    /\ pc = "keys" /\ keysLeft > 0
    /\ keysLeft' = keysLeft - 1
    /\ said' = Append(said, key)
    /\ LET n == Matched(viewing.matched, key)
       IN IF n = Len(Activation)
          THEN /\ viewing' = [mark |-> TRUE, matched |-> 0]
               /\ route' = [route EXCEPT !.activated = TRUE]
               /\ ordinal' = ordinal + 1 /\ pc' = "capture"
          ELSE /\ viewing' = [viewing EXCEPT !.matched = n]
               /\ UNCHANGED <<route, ordinal, pc>>
    /\ UNCHANGED <<level, connected, toggles, found, outcome, polling, ring, summary, reports, final>>

(* viewing_input_terminal_ready. *)
TerminalReady(rendered) == route.traversal /\ route.activated /\ route.cursor /\ rendered

Finish ==
    /\ pc = "capture" /\ ordinal > Reports
    /\ CASE summary.count # Reports \/ ring.wraps # 1 -> Fails("terminal")
         [] level = VIEWING /\ ~(summary.count # Reports \/ ring.wraps # 1)
              /\ ~(viewing.mark /\ TerminalReady(TRUE)) -> Fails("viewing")
         [] OTHER -> /\ result' = TRUE /\ pc' = "frame" /\ UNCHANGED <<decoded, failure>>
    /\ UNCHANGED <<found, polling, sequence, final, outside>>

----------------------------------------------------------------------------
(* The final screen. *)

(* render_viewing_input_success_frame; if it fails the result becomes an   *)
(* error.                                                                  *)
SuccessFrame ==
    /\ pc = "frame" /\ level = VIEWING /\ result
    /\ pc' = "screen"
    /\ \/ UNCHANGED outcome
       \/ failure' = "viewing" /\ result' = FALSE /\ UNCHANGED decoded
    /\ UNCHANGED <<found, polling, sequence, final, outside>>

NoFrame ==
    /\ pc = "frame" /\ ~(level = VIEWING /\ result)
    /\ pc' = "screen"
    /\ UNCHANGED <<found, outcome, polling, sequence, final, outside>>

(* Which panel the build's match on result, error, status and change picks.*)
SwapPanel == IF status /\ change # 0 THEN "swap" ELSE "identity"

OneShotPanel ==
    IF result THEN "result"
    ELSE IF failure # "none" /\ SwapPanel = "swap" THEN "error" ELSE SwapPanel

DecodePanel == IF result /\ ~decoded THEN "transfer" ELSE OneShotPanel

RecurringPanel == OneShotPanel

Panel == CASE level < SWAP -> "identity"
           [] level = SWAP -> SwapPanel
           [] level = DECODE -> DecodePanel
           [] level >= RECURRING -> RecurringPanel
           [] OTHER -> OneShotPanel

(* boot_mouse_recurring_terminal_ready and the viewing terminal: below the *)
(* recurring build READY says only that the probe ended.                   *)
SaysReady(rendered) ==
    /\ level >= RECURRING => result /\ failure = "none" /\ rendered
    /\ level = VIEWING => TerminalReady(rendered)

Screen ==
    /\ pc = "screen" /\ pc' = "done"
    /\ \E rendered \in IF level = VIEWING /\ result THEN {TRUE} ELSE BOOLEAN :
          /\ screen' = IF rendered THEN Panel ELSE "none"
          /\ ready' = SaysReady(rendered)
    /\ UNCHANGED <<found, outcome, polling, sequence, outside>>

(* The end, or nobody presses another key. *)
Halt == (pc = "done" \/ (pc = "keys" /\ keysLeft = 0)) /\ UNCHANGED vars

Probe == \/ Scan \/ MapMmio \/ ReadSnapshot \/ ReadPorts \/ PromptSwap \/ Poll \/ PollFails
         \/ RunProbe \/ Begin \/ CaptureFails \/ Activate \/ Finish
         \/ SuccessFrame \/ NoFrame \/ Screen
         \/ \E r \in ReportSet : Capture(r)

Next == Probe \/ (\E p \in Ports : Toggle(p)) \/ (\E k \in KeySet : Key(k)) \/ Halt

(* The probe's code runs; nobody has to plug a mouse in or press a key.    *)
Spec == Init /\ [][Next]_vars /\ WF_vars(Probe)

----------------------------------------------------------------------------
(* Properties. *)

(* Every variable has its kind. *)
TypeOK ==
    /\ change \in Ports \cup {0} /\ attempt \in 0..MaxAttempts
    /\ gate.port \in Ports \cup {0} /\ gate.count \in 0..(StableSamples - 1)
    /\ ordinal \in 1..(Reports + 1) /\ ring.index \in 0..(RingTrbs - 2)
    /\ viewing.matched \in 0..3
    /\ failure \in {"none", "driver", "decode", "terminal", "viewing"}

(* The port a driver probe is run on was seen connected in StableSamples   *)
(* consecutive samples, the last ones taken.                               *)
TargetWasStable ==
    change # 0 =>
        LET n == Len(samples)
        IN /\ n >= StableSamples
           /\ \A i \in (n - StableSamples + 1)..n : change \in samples[i]

(* An arrival that stays is not missed: when the poll gives up, no port    *)
(* that arrived while no other was connected has stayed long enough.       *)
NoSteadyArrivalMissed ==
    error = "timeout" =>
        \A p \in Ports : \A i \in 1..(Len(samples) - StableSamples) :
            ~ /\ samples[i] = {}
              /\ \A j \in (i + 1)..(i + StableSamples) : samples[j] = {p}

(* What the summary says of the reports, computed from all of them. *)
SumOf(f(_)) == FoldLeft(LAMBDA acc, r : acc + f(r), 0, reports)

(* The running summary agrees with the sequence as a whole: the totals are *)
(* the sums, and a button counts as released exactly when it was down in   *)
(* some report and up in a later one.                                      *)
SummaryExact ==
    /\ summary.count = Len(reports)
    /\ summary.dx = SumOf(LAMBDA r : r.dx) /\ summary.dy = SumOf(LAMBDA r : r.dy)
    /\ summary.pressed = UNION {reports[i].buttons : i \in DOMAIN reports}
    /\ summary.released = {b \in summary.pressed :
                             \E i, j \in DOMAIN reports :
                                 i < j /\ b \in reports[i].buttons /\ b \notin reports[j].buttons}

(* A sequence of the full length passes its own terminal checks: the ring  *)
(* wraps exactly once.                                                     *)
SequenceIsWhole == failure # "terminal"

(* The viewing build says READY only after a motion was routed to the      *)
(* traversal, then the exact key sequence activated the cursor, then a     *)
(* motion moved the focus mark.                                            *)
ReadyIsProven ==
    (ready /\ level = VIEWING) =>
        \E i \in DOMAIN said :
            /\ i > 1 /\ i + 3 <= Len(said) /\ said[1] = "traversal"
            /\ SubSeq(said, i, i + 3) = Activation
            /\ \E k \in DOMAIN said : k > i + 3 /\ said[k] = "cursor"
            /\ \A k \in DOMAIN said : said[k] = "cursor" => k > i + 3

(* Errors reach the screen: a probe that failed never ends on a result     *)
(* panel, and a build that proves something never says READY with one.     *)
ErrorIsShown ==
    pc = "done" =>
        /\ failure # "none" => screen \in {"error", "none"}
        /\ (level >= RECURRING /\ (failure # "none" \/ error # "none" \/ screen = "none")) => ~ready

=============================================================================

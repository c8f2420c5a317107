----------------------------- MODULE XhciDriver -----------------------------
(***************************************************************************)
(* The USB host controller driver (core/src/usb_xhci_driver.rs): bring-up, *)
(* four commands, four control transfers and a series of interrupt         *)
(* transfers into one report buffer.  Driver and controller share rings of *)
(* TRBs whose ownership is told by a cycle bit; both sides toggle it when  *)
(* they pass the end of a ring.                                            *)
(*                                                                         *)
(* The command and control rings are used once from their start, so of a   *)
(* TRB there only its index is kept.  The interrupt ring (InterruptTrbs,   *)
(* the last one a link) and the event ring (EventTrbs) are kept entry by   *)
(* entry.  The link TRB is written once, with cycle one, and never again.  *)
(* Descriptors, contexts and registers are left out: a malformed           *)
(* descriptor is a completion that is not a success.                       *)
(***************************************************************************)
EXTENDS Naturals, Sequences, SequencesExt

CONSTANTS
    InterruptTrbs,   \* XHCI_INTERRUPT_RING_TRBS
    EventTrbs,       \* XHCI_EVENT_RING_TRBS
    ControlTrbs,     \* XHCI_CONTROL_RING_TRBS
    MaxReports,      \* XHCI_BOOT_MOUSE_RECURRING_REPORTS
    MaxPortEvents    \* bound on the port events of the controller

(* The four control transfers take 11 TRBs and leave the last one.         *)
(* The link is followed only while the controller's cycle is one: twice    *)
(* the data TRBs is all the ring can carry                                 *)
XhciDriverAssumption ==
    /\ InterruptTrbs \in Nat /\ InterruptTrbs > 1
    /\ EventTrbs \in Nat /\ EventTrbs > 1
    /\ ControlTrbs \in Nat /\ ControlTrbs > 11 /\ MaxPortEvents \in Nat
    /\ MaxReports \in Nat /\ MaxReports <= 2 * (InterruptTrbs - 1)

VARIABLES
    stage,      \* the request of the enumeration, then "report"
    phase,      \* "start", "ready", "rung", "failed"
    control,    \* control_index
    expected,   \* the TRB whose completion is awaited
    producer,   \* XhciInterruptTransferProducer
    consumer,   \* XhciEventRingConsumer
    ring,       \* the interrupt ring
    events,     \* the event ring
    dequeue,    \* what the driver last wrote to ERDP
    controller, \* the controller's cursors and the doorbells it has not served
    buffer,     \* the report buffer
    produced, consumed,   \* events posted and accepted, in order
    reports     \* reports handed to the caller

vars == <<stage, phase, control, expected, producer, consumer, ring, events, dequeue,
          controller, buffer, produced, consumed, reports>>

Commands == {"noop", "enable_slot", "address_device", "configure_endpoint"}
Stages == <<"noop", "enable_slot", "address_device", "device_descriptor", "header",
            "configuration", "configure_endpoint", "set_configuration", "report">>
Link == InterruptTrbs - 1
Pointer(r, i) == [ring |-> r, index |-> i]
NoPointer == Pointer("none", 0)
Event(type, pointer, code) == [type |-> type, pointer |-> pointer, code |-> code]

Init ==
    /\ stage = 1 /\ phase = "start" /\ control = 0 /\ expected = NoPointer
    /\ producer = [index |-> 0, cycle |-> 1, inFlight |-> FALSE]
    /\ consumer = [index |-> 0, cycle |-> 1]
    /\ ring = [i \in 0 .. Link |-> IF i = Link THEN 1 ELSE 0]
    /\ events = [i \in 0 .. EventTrbs - 1 |-> [cycle |-> 0, event |-> 0]]
    /\ dequeue = 0
    /\ controller = [door |-> {}, deq |-> 0, cycle |-> 1, held |-> FALSE,
                     enq |-> 0, enqCycle |-> 1, count |-> 0]
    /\ buffer = 0 /\ produced = << >> /\ consumed = << >> /\ reports = << >>

-----------------------------------------------------------------------------
(* The driver                                                              *)

Fail ==
    /\ phase' = "failed"
    /\ UNCHANGED <<stage, control, expected, producer, ring, controller, buffer, produced, reports>>

(* stop, reset, wait, configure rings, start, reset the port: each step    *)
(* waits for a register and may give up                                    *)
initialize_command_probe ==
    /\ phase = "start" /\ phase' = "ready"
    /\ UNCHANGED <<stage, control, expected, producer, consumer, ring, events, dequeue,
                   controller, buffer, produced, consumed, reports>>

bring_up_timeout ==
    /\ phase = "start" /\ Fail
    /\ UNCHANGED <<consumer, events, dequeue, consumed>>

Ready(s) == phase = "ready" /\ Stages[stage] = s

Ring(pointer) ==
    /\ expected' = pointer
    /\ controller' = [controller EXCEPT !.door = @ \cup {pointer}]
    /\ phase' = "rung"

(* The command index of each stage is a constant of the code *)
CommandIndex(s) ==
    CASE s = "noop" -> 0 [] s = "enable_slot" -> 1 [] s = "address_device" -> 2
      [] s = "configure_endpoint" -> 3

submit_command(s) ==
    /\ s \in Commands /\ Ready(s)
    /\ Ring(Pointer("command", CommandIndex(s)))
    /\ UNCHANGED <<stage, control, producer, consumer, ring, events, dequeue, buffer,
                   produced, consumed, reports>>

(* reserve_control_transfer: setup, data and status, or setup and status *)
Trbs(s) == IF s = "set_configuration" THEN 2 ELSE 3

submit_ep0_control_transfer(s) ==
    /\ s \in {"device_descriptor", "header", "configuration", "set_configuration"}
    /\ Ready(s)
    /\ control + Trbs(s) - 1 < ControlTrbs - 1
    /\ control' = control + Trbs(s)
    /\ Ring(Pointer("control", control + Trbs(s) - 1))
    /\ UNCHANGED <<stage, producer, consumer, ring, events, dequeue, buffer, produced,
                   consumed, reports>>

(* capture_next: arm, clear the buffer, write the TRB, ring the doorbell.  *)
(* It may be called again after an error and then finds the transfer armed *)
capture_next ==
    /\ phase \in {"ready", "failed"} /\ Stages[stage] = "report" /\ Len(reports) < MaxReports
    /\ ~producer.inFlight
    /\ producer' = [producer EXCEPT !.inFlight = TRUE]
    /\ ring' = [ring EXCEPT ![producer.index] = producer.cycle]
    /\ buffer' = 0
    /\ Ring(Pointer("interrupt", producer.index))
    /\ UNCHANGED <<stage, control, consumer, events, dequeue, produced, consumed, reports>>

-----------------------------------------------------------------------------
(* Polling the event ring                                                  *)

Arrived == phase = "rung" /\ events[consumer.index].cycle = consumer.cycle

NextEvent == events[consumer.index].event

(* Mutant: the expected cycle is kept at the wrap *)
AdvanceKeepsCycle == [consumer EXCEPT !.index = (@ + 1) % EventTrbs]

advance ==
    IF consumer.index + 1 = EventTrbs
    THEN [index |-> 0, cycle |-> 1 - consumer.cycle]
    ELSE [consumer EXCEPT !.index = @ + 1]

(* accept_event_at_consumer and ack_event: the new dequeue pointer *)
Accept ==
    /\ consumer' = advance
    /\ dequeue' = advance.index
    /\ consumed' = Append(consumed, NextEvent)
    /\ UNCHANGED events

Matches == NextEvent.pointer = expected /\ NextEvent.code = "ok"

(* While a command is awaited other events are passed over *)
skip_event ==
    /\ Arrived /\ Stages[stage] \in Commands /\ NextEvent.type # "command"
    /\ Accept
    /\ UNCHANGED <<stage, phase, control, expected, producer, ring, controller, buffer,
                   produced, reports>>

request_complete ==
    /\ Arrived /\ Stages[stage] # "report"
    /\ NextEvent.type = IF Stages[stage] \in Commands THEN "command" ELSE "transfer"
    /\ Matches
    /\ Accept
    /\ stage' = stage + 1 /\ phase' = "ready" /\ expected' = NoPointer
    /\ UNCHANGED <<control, producer, ring, controller, buffer, produced, reports>>

(* complete: on to the next data TRB; past the last one the cycle toggles *)
complete ==
    IF producer.index + 1 = Link
    THEN [index |-> 0, cycle |-> 1 - producer.cycle, inFlight |-> FALSE]
    ELSE [producer EXCEPT !.index = @ + 1, !.inFlight = FALSE]

(* capture_interrupt_report_prefix: the report is read from the buffer *)
report_complete ==
    /\ Arrived /\ Stages[stage] = "report"
    /\ NextEvent.type = "transfer" /\ Matches
    /\ Accept
    /\ reports' = Append(reports, buffer)
    /\ producer' = complete
    /\ phase' = "ready" /\ expected' = NoPointer
    /\ UNCHANGED <<stage, control, ring, controller, buffer, produced>>

(* A wrong type, pointer or code; the event is consumed and the probe ends *)
unexpected_event ==
    /\ Arrived
    /\ \/ Stages[stage] \in Commands /\ NextEvent.type = "command" /\ ~Matches
       \/ Stages[stage] \notin Commands /\ (NextEvent.type # "transfer" \/ ~Matches)
    /\ Accept /\ Fail

poll_timeout ==
    /\ phase = "rung" /\ ~Arrived
    /\ Fail
    /\ UNCHANGED <<consumer, events, dequeue, consumed>>

-----------------------------------------------------------------------------
(* The controller                                                          *)

Full == (controller.enq + 1) % EventTrbs = dequeue

Post(event, c) ==
    /\ ~Full
    /\ events' = [events EXCEPT ![controller.enq] =
                     [cycle |-> controller.enqCycle, event |-> event]]
    /\ produced' = Append(produced, event)
    /\ controller' =
          [c EXCEPT !.enq = (@ + 1) % EventTrbs,
                    !.enqCycle = IF controller.enq + 1 = EventTrbs THEN 1 - @ ELSE @]

ServesRequest(pointer, code) ==
    /\ pointer \in controller.door /\ pointer.ring # "interrupt"
    /\ Post(Event(IF pointer.ring = "command" THEN "command" ELSE "transfer", pointer, code),
            [controller EXCEPT !.door = @ \ {pointer}])
    /\ UNCHANGED <<stage, phase, control, expected, producer, consumer, ring, dequeue, buffer,
                   consumed, reports>>

Owned(c) == ring[c.deq] = c.cycle

(* A link whose cycle matches is followed and toggles the cycle *)
FollowsLink ==
    /\ controller.door # {} /\ controller.deq = Link /\ Owned(controller)
    /\ controller' = [controller EXCEPT !.deq = 0, !.cycle = 1 - @]
    /\ UNCHANGED <<stage, phase, control, expected, producer, consumer, ring, events, dequeue,
                   buffer, produced, consumed, reports>>

(* The controller takes a transfer it owns and writes the next report *)
WritesReport ==
    /\ \E p \in controller.door : p.ring = "interrupt"
    /\ controller.deq # Link /\ Owned(controller) /\ ~controller.held
    /\ buffer' = controller.count + 1
    /\ controller' = [controller EXCEPT !.held = TRUE, !.count = @ + 1]
    /\ UNCHANGED <<stage, phase, control, expected, producer, consumer, ring, events, dequeue,
                   produced, consumed, reports>>

PostsReport(code) ==
    /\ controller.held
    /\ Post(Event("transfer", Pointer("interrupt", controller.deq), code),
            [controller EXCEPT !.held = FALSE, !.deq = @ + 1,
                               !.door = {p \in @ : p.ring # "interrupt"}])
    /\ UNCHANGED <<stage, phase, control, expected, producer, consumer, ring, dequeue, buffer,
                   consumed, reports>>

PostsPortEvent ==
    /\ phase # "start"
    /\ Len(SelectSeq(produced, LAMBDA e : e.type = "port")) < MaxPortEvents
    /\ Post(Event("port", NoPointer, "ok"), controller)
    /\ UNCHANGED <<stage, phase, control, expected, producer, consumer, ring, dequeue, buffer,
                   consumed, reports>>

-----------------------------------------------------------------------------
Driver ==
    \/ initialize_command_probe \/ bring_up_timeout
    \/ \E s \in Commands : submit_command(s)
    \/ \E s \in {"device_descriptor", "header", "configuration", "set_configuration"} :
          submit_ep0_control_transfer(s)
    \/ capture_next
    \/ skip_event \/ request_complete \/ report_complete \/ unexpected_event \/ poll_timeout

Controller ==
    \/ \E p \in controller.door, code \in {"ok", "bad"} : ServesRequest(p, code)
    \/ FollowsLink \/ WritesReport
    \/ \E code \in {"ok", "bad"} : PostsReport(code)
    \/ PostsPortEvent

Next == Driver \/ Controller

(* The driver runs on; nothing is assumed of the controller *)
Spec == Init /\ [][Next]_vars /\ WF_vars(Driver)

-----------------------------------------------------------------------------
(* Properties                                                              *)

(* TypeOK: cursors stay inside their rings; in particular no data TRB is   *)
(* written over a link and the control transfers fit into their ring.      *)
TypeOK ==
    /\ stage \in DOMAIN Stages /\ phase \in {"start", "ready", "rung", "failed"}
    /\ control \in 0 .. ControlTrbs - 1
    /\ producer \in [index : 0 .. Link - 1, cycle : {0, 1}, inFlight : BOOLEAN]
    /\ consumer \in [index : 0 .. EventTrbs - 1, cycle : {0, 1}]
    /\ controller.deq \in 0 .. Link /\ controller.enq \in 0 .. EventTrbs - 1
    /\ ring[Link] = 1 /\ dequeue \in 0 .. EventTrbs - 1

(* EventsInOrder: the driver accepts exactly the events the controller     *)
(* posted, in order, across wraps of the event ring: none is taken twice   *)
(* as a stale entry of the round before and none is missed                 *)
(* (accept_event_at_consumer, advance, ack_event).                         *)
EventsInOrder == IsPrefix(consumed, produced)

(* ReportsInOrder: the reports handed out are the ones the controller      *)
(* wrote, each once and in order; the buffer is not cleared or read while  *)
(* the controller may write it, not even when a capture is tried again     *)
(* after a timeout (arm, prepare_interrupt_transfer_at).                   *)
ReportsInOrder ==
    /\ \A i \in DOMAIN reports : reports[i] = i
    /\ controller.held => buffer = controller.count

(* RingInStep: an armed transfer the controller has not taken is found by  *)
(* it: from its dequeue pointer it reaches that TRB, with the right cycle, *)
(* over at most the link.  Otherwise the report would never come.          *)
AfterLink(c) ==
    IF c.deq = Link /\ Owned(c) THEN [deq |-> 0, cycle |-> 1 - c.cycle]
    ELSE [deq |-> c.deq, cycle |-> c.cycle]

RingInStep ==
    Pointer("interrupt", producer.index) \in controller.door /\ producer.inFlight
        => LET c == AfterLink(controller)
           IN c.deq = producer.index /\ Owned(c)

=============================================================================

---------------------------- MODULE NetworkPort ----------------------------
(***************************************************************************)
(* The network port (core/src/network_port.rs), the legacy virtio driver   *)
(* behind it (core/src/virtio_net.rs) and the system call in front of it   *)
(* (core/src/syscall.rs).  One consumer process sends and receives frames; *)
(* a kernel-only owner resets the port for good.  The device works on the  *)
(* shared rings and buffers at the same time as the driver.                *)
(*                                                                         *)
(* Ring indices are 16 bits wide and wrap (IndexModulus), the rings have   *)
(* QueueSize entries and RxCount receive buffers circulate in them.  The   *)
(* bytes of a frame are its number; of its length only whether it is legal *)
(* is kept.  The device looks for receive buffers when a frame arrives and *)
(* for transmissions when it is notified.                                  *)
(***************************************************************************)
EXTENDS CapabilityTable, Sequences, SequencesExt

CONSTANTS
    Consumer, Intruder,  \* the processes that are launched with the port
    Owner,               \* the kernel service that may reset the port
    PortResource, ConsoleResource,
    QueueSize,           \* MAX_QUEUE_SIZE
    IndexModulus,        \* 2^16
    RxCount,             \* RX_DESCRIPTOR_COUNT
    MaxFrames            \* bound on the frames that arrive and that are sent

NetworkPortAssumption ==
    /\ QueueSize \in Nat \ {0} /\ IndexModulus \in Nat /\ RxCount \in Nat \ {0}
    /\ RxCount <= QueueSize /\ RxCount < IndexModulus
    /\ IndexModulus % QueueSize = 0 /\ MaxFrames \in Nat

VARIABLES
    caps,       \* the capability table of the system calls
    port,       \* NetworkPort: state, bound pair, and whether a transport is there
    granted,    \* the pair of handles the boot granted
    driver,     \* VirtioTransport
    rx, tx,     \* the rings in shared memory
    buffers,    \* what the packet slots hold
    device,     \* the device's own indices and activity
    call,       \* the request being served
    answer,     \* status of the last request that was answered
    arrived, delivered,   \* frames put into buffers, frames handed to the consumer
    sent, wire, done      \* frames accepted for sending, seen on the wire, answered OK

vars == <<caps, port, granted, driver, rx, tx, buffers, device, call, answer,
          arrived, delivered, sent, wire, done>>

Callers == {Consumer, Intruder}
Handles == [slot : 1 .. CapabilitySlots, generation : 1 .. 2]
Descriptors == 0 .. RxCount - 1
NoDescriptor == RxCount          \* also the id a faulty device reports
NoFrame == 0
Idle == [op |-> "none", step |-> "none", caller |-> Owner, frame |-> NoFrame,
         desc |-> NoDescriptor, mark |-> 0]
Next1(i) == (i + 1) % IndexModulus
At(i) == i % QueueSize

history == <<arrived, delivered, sent, wire, done>>

-----------------------------------------------------------------------------
(* Boot: the transport is brought up, the port registered and its two      *)
(* capabilities granted and bound before a process runs                    *)

Down == [lifecycle |-> "Discovered", rxAvail |-> 0, rxUsed |-> 0, txAvail |-> 0,
         txUsed |-> 0, recycle |-> NoDescriptor]

Init ==
    /\ caps = EmptyTable
    /\ port = [state |-> "None", bound |-> FALSE, transport |-> FALSE]
    /\ granted = [consumer |-> InvalidHandle, owner |-> InvalidHandle]
    /\ driver = Down
    /\ rx = [entry |-> [i \in 0 .. QueueSize - 1 |-> 0], idx |-> 0,
             used |-> [i \in 0 .. QueueSize - 1 |-> [id |-> 0, legal |-> TRUE]], usedIdx |-> 0]
    /\ tx = [idx |-> 0, usedIdx |-> 0, id |-> 0, quiet |-> FALSE]
    /\ buffers = [rx |-> [d \in Descriptors |-> NoFrame], tx |-> NoFrame]
    /\ device = [on |-> FALSE, rxSeen |-> 0, rxHeld |-> NoDescriptor,
                 txSeen |-> 0, kicked |-> FALSE, busy |-> FALSE]
    /\ call = Idle
    /\ answer = "none"
    /\ arrived = << >> /\ delivered = << >> /\ sent = << >> /\ wire = << >> /\ done = 0

(* initialize_inner: reset, features, queues, buffers, DRIVER_OK, notify   *)
initialize ==
    /\ port.state = "None" /\ driver.lifecycle = "Discovered"
    /\ driver' = [driver EXCEPT !.lifecycle = "Operational", !.rxAvail = RxCount]
    /\ rx' = [rx EXCEPT !.entry = [i \in DOMAIN @ |-> IF i < RxCount THEN i ELSE 0],
                        !.idx = RxCount]
    /\ device' = [device EXCEPT !.on = TRUE]
    /\ port' = [port EXCEPT !.state = "READY", !.transport = TRUE]
    /\ UNCHANGED <<caps, granted, tx, buffers, call, answer, history>>

(* Any failure of the bring-up fails the device and no port is registered  *)
initialize_fails ==
    /\ port.state = "None" /\ driver.lifecycle = "Discovered"
    /\ driver' = [Down EXCEPT !.lifecycle = "Failed"]
    /\ UNCHANGED <<caps, port, granted, rx, tx, buffers, device, call, answer, history>>

grant_network_port_consumer_capabilities ==
    /\ port.state = "READY" /\ granted.owner = InvalidHandle
    /\ LET c == grant(caps, Consumer, PortResource, {"READ", "SEND"})
           o == grant(c.table, Owner, PortResource, {"WRITE"})
       IN /\ c.handle # InvalidHandle
          /\ caps' = o.table
          /\ granted' = IF o.handle = InvalidHandle THEN granted
                        ELSE [consumer |-> c.handle, owner |-> o.handle]
    /\ UNCHANGED <<port, driver, rx, tx, buffers, device, call, answer, history>>

bind_network_port_capabilities ==
    /\ validate(caps, Consumer, granted.consumer, PortResource, {"READ", "SEND"})
    /\ validate(caps, Owner, granted.owner, PortResource, {"WRITE"})
    /\ port.state = "READY" /\ ~port.bound
    /\ port' = [port EXCEPT !.bound = TRUE]
    /\ UNCHANGED <<caps, granted, driver, rx, tx, buffers, device, call, answer, history>>

-----------------------------------------------------------------------------
(* Ends of the port.  Both drop the transport and revoke the bound pair.   *)

revoke_bound_capabilities(table) ==
    IF ~port.bound THEN table
    ELSE revoke(revoke(table, granted.consumer), granted.owner)

Ended(state) == [state |-> state, bound |-> FALSE, transport |-> FALSE]

Answered(status) == call' = Idle /\ answer' = status

fail_transport ==
    /\ Answered("TRANSPORT_ERROR")
    /\ port' = Ended("FAILED")
    /\ caps' = revoke_bound_capabilities(caps)

(* fail_device: the queues are forgotten and FAILED is written, which does *)
(* not stop the device                                                     *)
fail_device == driver' = [Down EXCEPT !.lifecycle = "Failed"]

-----------------------------------------------------------------------------
(* The request of a process, admitted or refused before anything else      *)

(* Processes run, and the owner tears down, after the pair was bound *)
Launched == call = Idle /\ (port.bound \/ port.state \in {"FAILED", "RESET"})

grant_console_capability(holder) ==
    /\ Launched
    /\ caps' = grant(caps, holder, ConsoleResource, {"WRITE"}).table
    /\ caps' # caps
    /\ UNCHANGED <<port, granted, driver, rx, tx, buffers, device, call, answer, history>>

Required(op) == CASE op = "SEND" -> {"SEND"} [] op = "RESET" -> {"WRITE"} [] OTHER -> {"READ"}

dispatch_network_port_request(caller, handle, op) ==
    validate(caps, caller, handle, PortResource, Required(op)) /\ port.state = "READY"

(* Refused, or a description or a malformed request: only an answer        *)
RefusedStatus(caller, handle, op) ==
    CASE ~validate(caps, caller, handle, PortResource, Required(op)) -> {"DENIED"}
      [] port.state = "FAILED" -> {"FAILED"}
      [] port.state = "RESET" -> {"NOT_READY"}
      [] OTHER -> {"BAD_REQUEST", "BUFFER_TOO_SMALL"} \cup (IF op = "DESCRIBE" THEN {"OK"} ELSE {})

Refuse(caller, handle, op) ==
    /\ Launched
    /\ answer' \in RefusedStatus(caller, handle, op)
    /\ UNCHANGED <<caps, port, granted, driver, rx, tx, buffers, device, call, history>>

StartSend(caller, handle) ==
    /\ Launched /\ Len(sent) < MaxFrames
    /\ dispatch_network_port_request(caller, handle, "SEND")
    /\ call' = [Idle EXCEPT !.op = "SEND", !.step = "fill", !.caller = caller,
                            !.frame = Len(sent) + 1]
    /\ UNCHANGED <<caps, port, granted, driver, rx, tx, buffers, device, answer, history>>

StartReceive(caller, handle) ==
    /\ Launched
    /\ dispatch_network_port_request(caller, handle, "RECEIVE")
    /\ call' = [Idle EXCEPT !.op = "RECEIVE", !.caller = caller, !.mark = rx.idx,
                            !.step = IF driver.recycle = NoDescriptor THEN "take" ELSE "publish"]
    /\ UNCHANGED <<caps, port, granted, driver, rx, tx, buffers, device, answer, history>>

(* RESET by the owner; the status register may never read zero.  The       *)
(* device stops as soon as zero is written, or not at all.                 *)
reset(ok) ==
    /\ Launched
    /\ validate(caps, Owner, granted.owner, PortResource, {"WRITE"})
    /\ driver' = IF ok THEN [Down EXCEPT !.lifecycle = "Reset"] ELSE driver
    /\ device' = IF ok THEN [device EXCEPT !.on = FALSE] ELSE device
    /\ port' = Ended("RESET")
    /\ caps' = revoke_bound_capabilities(caps)
    /\ Answered(IF ok THEN "OK" ELSE "TRANSPORT_ERROR")
    /\ UNCHANGED <<granted, rx, tx, buffers, history>>

-----------------------------------------------------------------------------
(* transmit_frame, one action per access to shared memory                  *)

Sending(step) == call.op = "SEND" /\ call.step = step
Step(step) == call' = [call EXCEPT !.step = step]

write_packet ==
    /\ Sending("fill")
    /\ driver.lifecycle = "Operational"
    /\ buffers' = [buffers EXCEPT !.tx = call.frame]
    /\ Step("publish")
    /\ UNCHANGED <<caps, port, granted, driver, rx, tx, device, answer, history>>

publish_transmit ==
    /\ Sending("publish")
    /\ tx' = [tx EXCEPT !.idx = Next1(driver.txAvail)]
    /\ driver' = [driver EXCEPT !.txAvail = Next1(@)]
    /\ sent' = Append(sent, call.frame)
    /\ Step("notify")
    /\ UNCHANGED <<caps, port, granted, rx, buffers, device, answer, arrived, delivered, wire, done>>

(* notify_queue: unless the device asked not to be notified *)
notify_transmit ==
    /\ Sending("notify")
    /\ device' = IF tx.quiet THEN device ELSE [device EXCEPT !.kicked = TRUE]
    /\ Step("poll")
    /\ UNCHANGED <<caps, port, granted, driver, rx, tx, buffers, answer, history>>

(* wait_for_used finds a completion, of the expected descriptor or not *)
finish_transmit ==
    /\ Sending("poll") /\ tx.usedIdx # driver.txUsed
    /\ driver' = [driver EXCEPT !.txUsed = IF tx.id = NoDescriptor THEN @ ELSE Next1(@)]
    /\ IF tx.id = 0
       THEN /\ Answered("OK") /\ done' = done + 1
            /\ UNCHANGED <<port, caps>>
       ELSE fail_transport /\ UNCHANGED done
    /\ UNCHANGED <<granted, rx, tx, buffers, device, arrived, delivered, sent, wire>>

(* NIC_POLL_LIMIT polls without a completion *)
transmit_timeout ==
    /\ Sending("poll") /\ tx.usedIdx = driver.txUsed
    /\ fail_device
    /\ fail_transport
    /\ UNCHANGED <<granted, rx, tx, buffers, device, history>>

-----------------------------------------------------------------------------
(* try_receive_into: hand the last buffer back, then take a completion     *)

Receiving(step) == call.op = "RECEIVE" /\ call.step = step

(* Mutant: the buffer is announced in the wrong entry of the ring *)
PublishNextEntry ==
    /\ Receiving("publish")
    /\ rx' = [rx EXCEPT !.entry[At(driver.rxAvail + 1)] = driver.recycle]
    /\ Step("index")
    /\ UNCHANGED <<caps, port, granted, driver, tx, buffers, device, answer, history>>

(* publish_available: ring entry, fence, index *)
publish_receive_entry ==
    /\ Receiving("publish")
    /\ rx' = [rx EXCEPT !.entry[At(driver.rxAvail)] = driver.recycle]
    /\ Step("index")
    /\ UNCHANGED <<caps, port, granted, driver, tx, buffers, device, answer, history>>

recycle_pending_receive ==
    /\ Receiving("index")
    /\ rx' = [rx EXCEPT !.idx = Next1(driver.rxAvail)]
    /\ driver' = [driver EXCEPT !.rxAvail = Next1(@), !.recycle = NoDescriptor]
    /\ Step("take")
    /\ UNCHANGED <<caps, port, granted, tx, buffers, device, answer, history>>

receive_empty ==
    /\ Receiving("take") /\ rx.usedIdx = driver.rxUsed
    /\ Answered("EMPTY")
    /\ UNCHANGED <<caps, port, granted, driver, rx, tx, buffers, device, history>>

(* try_take_used and receive_length: a bad id or a length that is not a    *)
(* frame's ends the port                                                   *)
try_take_used ==
    /\ Receiving("take") /\ rx.usedIdx # driver.rxUsed
    /\ LET u == rx.used[At(driver.rxUsed)]
       IN /\ driver' = [driver EXCEPT !.rxUsed = IF u.id = NoDescriptor THEN @ ELSE Next1(@),
                                      !.recycle = IF u.id = NoDescriptor THEN @ ELSE u.id]
          /\ IF u.id # NoDescriptor /\ u.legal
             THEN /\ call' = [call EXCEPT !.step = "copy", !.desc = u.id]
                  /\ UNCHANGED <<answer, port, caps>>
             ELSE fail_transport
    /\ UNCHANGED <<granted, rx, tx, buffers, device, history>>

(* Copied to the consumer from the shared buffer *)
copy_frame ==
    /\ Receiving("copy")
    /\ delivered' = Append(delivered, buffers.rx[call.desc])
    /\ Answered("OK")
    /\ UNCHANGED <<caps, port, granted, driver, rx, tx, buffers, device, arrived, sent, wire, done>>

-----------------------------------------------------------------------------
(* The device                                                              *)

(* A frame arrives; the device writes it into the next available buffer *)
DeviceFills ==
    /\ device.on /\ device.rxHeld = NoDescriptor /\ Len(arrived) < MaxFrames
    /\ device.rxSeen # rx.idx
    /\ LET d == rx.entry[At(device.rxSeen)]
       IN /\ buffers' = [buffers EXCEPT !.rx[d] = Len(arrived) + 1]
          /\ device' = [device EXCEPT !.rxSeen = Next1(@), !.rxHeld = d]
    /\ arrived' = Append(arrived, Len(arrived) + 1)
    /\ UNCHANGED <<caps, port, granted, driver, rx, tx, call, answer, delivered, sent, wire, done>>

(* The completion; a faulty device reports a wrong id or length *)
DeviceCompletes(id, legal) ==
    /\ device.on /\ device.rxHeld # NoDescriptor
    /\ id \in {device.rxHeld, NoDescriptor}
    /\ rx' = [rx EXCEPT !.used[At(rx.usedIdx)] = [id |-> id, legal |-> legal],
                        !.usedIdx = Next1(@)]
    /\ device' = [device EXCEPT !.rxHeld = NoDescriptor]
    /\ UNCHANGED <<caps, port, granted, driver, tx, buffers, call, answer, history>>

(* Woken by a notification, the device asks for silence and works *)
DeviceWakes ==
    /\ device.on /\ device.kicked /\ ~device.busy
    /\ device' = [device EXCEPT !.kicked = FALSE, !.busy = TRUE]
    /\ tx' = [tx EXCEPT !.quiet = TRUE]
    /\ UNCHANGED <<caps, port, granted, driver, rx, buffers, call, answer, history>>

DeviceTransmits(id) ==
    /\ device.on /\ device.busy /\ device.txSeen # tx.idx
    /\ wire' = Append(wire, buffers.tx)
    /\ device' = [device EXCEPT !.txSeen = Next1(@)]
    /\ tx' = [tx EXCEPT !.id = id, !.usedIdx = Next1(@)]
    /\ UNCHANGED <<caps, port, granted, driver, rx, buffers, call, answer, arrived, delivered, sent, done>>

(* Notifications are asked for again, then the ring looked at once more *)
DeviceRests ==
    /\ device.on /\ device.busy /\ tx.quiet /\ device.txSeen = tx.idx
    /\ tx' = [tx EXCEPT !.quiet = FALSE]
    /\ UNCHANGED <<caps, port, granted, driver, rx, buffers, device, call, answer, history>>

DeviceSleeps ==
    /\ device.on /\ device.busy /\ ~tx.quiet
    /\ IF device.txSeen = tx.idx
       THEN device' = [device EXCEPT !.busy = FALSE] /\ UNCHANGED tx
       ELSE tx' = [tx EXCEPT !.quiet = TRUE] /\ UNCHANGED device
    /\ UNCHANGED <<caps, port, granted, driver, rx, buffers, call, answer, history>>

-----------------------------------------------------------------------------
Boot ==
    \/ initialize \/ initialize_fails
    \/ grant_network_port_consumer_capabilities
    \/ \E p \in Callers : grant_console_capability(p)
    \/ bind_network_port_capabilities

Request ==
    \/ \E p \in Callers, h \in Handles, op \in {"DESCRIBE", "SEND", "RECEIVE", "RESET"} :
          Refuse(p, h, op)
    \/ \E p \in Callers, h \in Handles : StartSend(p, h) \/ StartReceive(p, h)
    \/ \E ok \in BOOLEAN : reset(ok)

Driver ==
    \/ write_packet \/ publish_transmit \/ notify_transmit
    \/ finish_transmit \/ transmit_timeout
    \/ publish_receive_entry \/ recycle_pending_receive
    \/ receive_empty \/ try_take_used \/ copy_frame

Device ==
    \/ DeviceFills
    \/ \E id \in 0 .. NoDescriptor, legal \in BOOLEAN : DeviceCompletes(id, legal)
    \/ DeviceWakes
    \/ \E id \in {0, NoDescriptor} : DeviceTransmits(id)
    \/ DeviceRests \/ DeviceSleeps

Next == Boot \/ Request \/ Driver \/ Device

(* The driver's code runs on, whatever the device does *)
Spec == Init /\ [][Next]_vars /\ WF_vars(Driver)

-----------------------------------------------------------------------------
(* Properties                                                              *)

(* TypeOK: the tables, rings and accounts keep their types, and every      *)
(* index stays within its width.                                           *)
TypeOK ==
    /\ DOMAIN caps = 1 .. CapabilitySlots
    /\ port.state \in {"None", "READY", "FAILED", "RESET"}
    /\ port.transport = (port.state = "READY") /\ (port.bound => port.transport)
    /\ driver \in [lifecycle : {"Discovered", "Operational", "Failed", "Reset"},
                   rxAvail : 0 .. IndexModulus - 1, rxUsed : 0 .. IndexModulus - 1,
                   txAvail : 0 .. IndexModulus - 1, txUsed : 0 .. IndexModulus - 1,
                   recycle : 0 .. NoDescriptor]
    /\ \A i \in DOMAIN rx.entry : rx.entry[i] \in Descriptors
    /\ call.step \in {"none", "fill", "publish", "notify", "poll", "index", "take", "copy"}
    /\ done \in 0 .. MaxFrames

(* ReceivedInOrder: the frames handed to the consumer are the ones that    *)
(* arrived, in order, none missing, repeated or overwritten while it was   *)
(* copied from the buffer it shares with the device (try_receive_into).    *)
ReceivedInOrder == IsPrefix(delivered, arrived)

(* BuffersAccounted: while the port is in service each receive buffer is   *)
(* in exactly one place: offered to the device, held by it, completed, or  *)
(* waiting to be recycled; across wrapping indices none is lost or offered *)
(* twice (recycle_pending_receive, mark_received_slot).                    *)
Between(from, to) ==
    {i \in 0 .. IndexModulus - 1 :
        (i + IndexModulus - from) % IndexModulus < (to + IndexModulus - from) % IndexModulus}

Places(d) ==
    Cardinality({i \in Between(device.rxSeen, rx.idx) : rx.entry[At(i)] = d})
    + Cardinality({i \in Between(driver.rxUsed, rx.usedIdx) : rx.used[At(i)].id = d})
    + (IF device.rxHeld = d THEN 1 ELSE 0) + (IF driver.recycle = d THEN 1 ELSE 0)

BuffersAccounted ==
    port.state = "READY" /\ (\A i \in Between(driver.rxUsed, rx.usedIdx) :
                                rx.used[At(i)].id # NoDescriptor)
        => \A d \in Descriptors : Places(d) = 1

(* SentUnchanged: what the device puts on the wire are the accepted        *)
(* frames, in order and as they were given, and a send answered OK is on   *)
(* the wire: the transmit buffer is never filled again while the device    *)
(* may still read it, also after a timeout (transmit_frame).               *)
SentUnchanged == IsPrefix(wire, sent) /\ done <= Len(wire)

(* KickNotLost: while the driver polls for a transmission the device has   *)
(* not seen, the device is awake or has been notified: reading the         *)
(* suppression flag after publishing the index loses no wake-up            *)
(* (notify_queue, queue_notification_suppressed).                          *)
KickNotLost ==
    Sending("poll") /\ device.on /\ device.txSeen # tx.idx => device.kicked \/ device.busy

(* AuthorityFollowsPort: only the consumer's requests reach the transport, *)
(* only while the port is in service, and once the port has ended, with a  *)
(* transport error or by reset, neither of the two bound handles is valid. *)
AuthorityFollowsPort ==
    /\ call # Idle => call.caller = Consumer /\ port.state = "READY"
    /\ answer = "TRANSPORT_ERROR" => port.state \in {"FAILED", "RESET"}
    /\ port.state \in {"FAILED", "RESET"} =>
          /\ ~validate(caps, Consumer, granted.consumer, PortResource, {})
          /\ ~validate(caps, Owner, granted.owner, PortResource, {})

=============================================================================

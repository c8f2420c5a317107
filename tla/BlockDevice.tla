----------------------------- MODULE BlockDevice -----------------------------
(***************************************************************************)
(* core/src/block_device.rs: selection of a disk and synchronous sector    *)
(* requests through virtio or AHCI, with the device beside the driver.     *)
(* Both drivers share one static request buffer.  The virtio driver zeroes *)
(* its queue and resets the device before every request; the AHCI driver   *)
(* waits for the task file only after it has filled the buffer and the     *)
(* command table.                                                          *)
(*                                                                         *)
(* PCI configuration is the outcome of each scan; descriptors, FIS and     *)
(* registers are reduced to the fields that say what is transferred.       *)
(***************************************************************************)
EXTENDS Naturals, FiniteSets, TLAPS

CONSTANTS
    Capacity,    \* capacity_sectors; one more sector is asked for
    Values, Blank,
    Scans,       \* outcomes of the two scans the bus may give
    Slow         \* a device may need longer than REQUEST_POLL_LIMIT

(* No disk, a disk brought up, or one whose registers or port refuse *)
ScanOutcomes == {"absent", "ok", "error"}

BlockDeviceAssumption ==
    /\ Capacity \in Nat /\ Blank \notin Values /\ Slow \in BOOLEAN
    /\ Scans \subseteq [{"virtio", "ahci"} -> ScanOutcomes]

Sectors == 0 .. Capacity - 1

VARIABLES
    scan, backend,    \* outcomes of the scans, the selected device
    pc,               \* step of execute_sector_request
    call, answer,     \* the request and the last answer
    request,          \* header or command table: operation and sector
    buffer, status,   \* data and status byte of the request
    used,             \* used index is one; command issue bit was cleared
    pending,          \* the device was notified and has not looked
    device,           \* what the device is doing
    fault,            \* task file error of the AHCI port
    medium,           \* the disk
    late              \* history: a failed write that was handed over

vars == <<scan, backend, pc, call, answer, request, buffer, status, used, pending, device,
          fault, medium, late>>

memory == <<request, buffer, status, used>>
external == <<pending, device, fault, medium>>
config == <<scan, backend>>

NoCall == [op |-> "none"]
Calls == [op : {"read"}, sector : 0 .. Capacity]
         \cup [op : {"write"}, sector : 0 .. Capacity, value : Values]
Failed == [ok |-> FALSE, value |-> Blank]
Done(v) == [ok |-> TRUE, value |-> v]
Idle == [phase |-> "idle"]

Init ==
    /\ scan \in Scans /\ backend = "none"
    /\ pc = "idle" /\ call = NoCall /\ answer = Failed
    /\ request = NoCall /\ buffer = Blank /\ status = "unset" /\ used = FALSE
    /\ pending = FALSE /\ device = Idle /\ fault = FALSE
    /\ medium = [s \in Sectors |-> Blank] /\ late = NoCall

-----------------------------------------------------------------------------
(* Virtio first; AHCI only if there is no virtio disk at all *)
select_device ==
    /\ backend = "none"
    /\ LET found == IF scan["virtio"] # "absent" THEN "virtio" ELSE "ahci"
       IN backend' = IF scan[found] = "ok" THEN found ELSE "failed"
    /\ UNCHANGED <<scan, pc, call, answer, request, buffer, status, used, late>>
    /\ UNCHANGED external

execute_sector_request(c) ==
    /\ backend \in {"virtio", "ahci"} /\ pc = "idle"
    /\ IF c.sector < Capacity
       THEN pc' = "called" /\ call' = c /\ UNCHANGED answer
       ELSE answer' = Failed /\ UNCHANGED <<pc, call>>
    /\ UNCHANGED <<late, memory, external, config>>

(* The answer; a write that was handed over may still be carried out *)
Return(a, issued) ==
    /\ answer' = a /\ pc' = "idle" /\ call' = NoCall
    /\ late' = IF ~issued THEN late
               ELSE IF a.ok \/ call.op = "read" THEN NoCall ELSE call
    /\ UNCHANGED <<memory, external, config>>

Header == [op |-> call.op, sector |-> call.sector]

Filled == IF call.op = "write" THEN call.value ELSE Blank

-----------------------------------------------------------------------------
(* virtio                                                                  *)

zero_queue ==
    /\ backend = "virtio" /\ pc = "called"
    /\ used' = FALSE /\ pc' = "zeroed"
    /\ UNCHANGED <<call, answer, request, buffer, status, late, external, config>>

(* Status zero: the device forgets what it was doing *)
reset_device ==
    /\ pc = "zeroed" /\ pc' = "reset"
    /\ pending' = FALSE /\ device' = Idle
    /\ UNCHANGED <<call, answer, fault, medium, late, memory, config>>

queue_size_changed == pc = "reset" /\ Return(Failed, FALSE)

(* Mutant: the status byte is not preset *)
StatusNotPreset ==
    /\ backend = "virtio" /\ pc = "reset" /\ pc' = "prepared"
    /\ request' = Header /\ buffer' = Filled
    /\ UNCHANGED <<call, answer, status, used, late, external, config>>

prepare_request ==
    /\ backend = "virtio" /\ pc = "reset" /\ pc' = "prepared"
    /\ request' = Header /\ buffer' = Filled /\ status' = "unset"
    /\ UNCHANGED <<call, answer, used, late, external, config>>

submit_request ==
    /\ backend = "virtio" /\ pc = "prepared"
    /\ pending' = TRUE /\ pc' = "polling"
    /\ UNCHANGED <<call, answer, device, fault, medium, late, memory, config>>

poll_used ==
    /\ backend = "virtio" /\ pc = "polling" /\ used
    /\ Return(IF status = "ok" THEN Done(IF call.op = "read" THEN buffer ELSE Blank)
              ELSE Failed, TRUE)

-----------------------------------------------------------------------------
(* AHCI                                                                    *)

(* The data buffer is filled and the command table written first *)
prepare_ahci_command ==
    /\ backend = "ahci" /\ pc = "called" /\ pc' = "prepared"
    /\ request' = Header /\ buffer' = Filled
    /\ UNCHANGED <<call, answer, status, used, late, external, config>>

(* BSY or DRQ in the task file: the drive works on a command it has fetched, *)
(* not one that is only issued.                                             *)
Busy == device # Idle

wait_for_ahci_task_file_ready ==
    /\ backend = "ahci" /\ pc = "prepared" /\ ~Busy
    /\ pc' = "ready"
    /\ UNCHANGED <<call, answer, late, memory, external, config>>

issue_ahci_command ==
    /\ pc = "ready" /\ pc' = "polling"
    /\ pending' = TRUE /\ used' = FALSE
    /\ UNCHANGED <<call, answer, request, buffer, status, device, fault, medium, late, config>>

(* Errors are looked at before the issue bit; nothing clears them *)
wait_for_ahci_command_complete ==
    /\ backend = "ahci" /\ pc = "polling" /\ (fault \/ used)
    /\ Return(IF fault THEN Failed ELSE Done(IF call.op = "read" THEN buffer ELSE Blank), TRUE)

timeout ==
    /\ Slow
    /\ \/ pc = "prepared" /\ backend = "ahci" /\ Busy /\ Return(Failed, FALSE)
       \/ pc = "polling" /\ ~used /\ ~fault /\ Return(Failed, TRUE)

-----------------------------------------------------------------------------
(* The device                                                              *)

DeviceFetches ==
    /\ pending /\ device = Idle /\ ~fault
    /\ pending' = FALSE
    /\ device' = [phase |-> "fetched", request |-> request]
    /\ UNCHANGED <<pc, call, answer, late, fault, medium, memory, config>>

DeviceMoves ==
    /\ device.phase = "fetched"
    /\ device' = [device EXCEPT !.phase = "moved"]
    /\ IF device.request.op = "write"
       THEN medium' = [medium EXCEPT ![device.request.sector] = buffer] /\ UNCHANGED buffer
       ELSE buffer' = medium[device.request.sector] /\ UNCHANGED medium
    /\ UNCHANGED <<pc, call, answer, late, request, status, used, pending, fault, config>>

DeviceRefuses ==
    /\ device.phase = "fetched"
    /\ IF backend = "virtio"
       THEN /\ status' = "error" /\ device' = [device EXCEPT !.phase = "answered"]
            /\ UNCHANGED fault
       ELSE fault' = TRUE /\ device' = Idle /\ UNCHANGED status
    /\ UNCHANGED <<pc, call, answer, late, request, buffer, used, pending, medium, config>>

DeviceAnswers ==
    /\ device.phase = "moved" /\ status' = "ok"
    /\ device' = [device EXCEPT !.phase = "answered"]
    /\ UNCHANGED <<pc, call, answer, late, request, buffer, used, pending, medium, fault, config>>

DeviceSignals ==
    /\ device.phase = "answered"
    /\ used' = TRUE /\ device' = Idle
    /\ UNCHANGED <<pc, call, answer, late, request, buffer, status, pending, medium, fault, config>>

-----------------------------------------------------------------------------
Driver ==
    \/ zero_queue \/ reset_device \/ queue_size_changed \/ prepare_request \/ submit_request
    \/ poll_used
    \/ prepare_ahci_command \/ wait_for_ahci_task_file_ready \/ issue_ahci_command
    \/ wait_for_ahci_command_complete
    \/ timeout

Device == DeviceFetches \/ DeviceMoves \/ DeviceRefuses \/ DeviceAnswers \/ DeviceSignals

Next ==
    \/ select_device
    \/ \E c \in Calls : execute_sector_request(c)
    \/ Driver \/ Device

(* The driver polls on; of the device nothing is assumed *)
Spec == Init /\ [][Next]_vars /\ WF_vars(Driver)

-----------------------------------------------------------------------------
(* Properties                                                              *)

(* TypeOK: in particular the device only ever works on sectors of the disk *)
(* and nothing reaches it before a disk was selected.                      *)
TypeOK ==
    /\ call \in {c \in Calls : c.sector < Capacity} \cup {NoCall}
    /\ late.op \in {"none", "write"}
    /\ answer \in [ok : BOOLEAN, value : Values \cup {Blank}]
    /\ medium \in [Sectors -> Values \cup {Blank}]
    /\ device # Idle => device.request.op \in {"read", "write"} /\ device.request.sector < Capacity
    /\ (pc = "idle") = (call = NoCall)

(* StoreImplemented: through timeouts, late completions and stale ring      *)
(* contents every answer is true: a good read returned the sector, a good  *)
(* write is on the disk, and no sector changes but that of a write that    *)
(* was asked for (execute_sector_request).                                 *)
Store == INSTANCE SectorStore WITH disk <- medium
StoreImplemented == Store!Spec

------------------------------------------------------------------------------
(* The proof that the sector requests implement the abstract SectorStore,  *)
(* for every capacity, every set of contents and every bus: through virtio *)
(* with a device of any speed, through AHCI with a device that ends its    *)
(* commands within the poll limit.                                         *)

Datum == Values \cup {Blank}

Requests == [op : {"read", "write"}, sector : Sectors]

WriteCalls == [op : {"write"}, sector : Sectors, value : Values]

ReadCalls == [op : {"read"}, sector : Sectors]

(* The state is made of values of the right kind. *)
Typed ==
    /\ scan \in Scans /\ backend \in {"none", "virtio", "ahci", "failed"}
    /\ pc \in {"idle", "called", "zeroed", "reset", "prepared", "ready", "polling"}
    /\ IF pc = "idle" THEN call = NoCall ELSE call \in ReadCalls \cup WriteCalls
    /\ late \in WriteCalls \cup {NoCall}
    /\ answer \in [ok : BOOLEAN, value : Datum]
    /\ request \in Requests \cup {NoCall}
    /\ buffer \in Datum /\ status \in {"unset", "ok", "error"} /\ used \in BOOLEAN
    /\ pending \in BOOLEAN /\ fault \in BOOLEAN
    /\ device \in [phase : {"fetched", "moved", "answered"}, request : Requests] \cup {Idle}
    /\ medium \in [Sectors -> Datum]

(* Which backend runs which step, and which of them may be left by a       *)
(* timeout.                                                                *)
Backends ==
    /\ pc # "idle" \/ pending \/ device # Idle => backend \in {"virtio", "ahci"}
    /\ pc \in {"zeroed", "reset"} => backend = "virtio"
    /\ pc = "ready" => backend = "ahci"
    /\ fault => backend = "ahci"
    /\ backend = "ahci" => ~Slow

(* The device still has an effect in store. *)
Working == (pending /\ ~fault) \/ device.phase = "fetched"

(* The device works on the one request in memory; while the next one is    *)
(* put together it is at rest.                                             *)
DeviceFollows ==
    /\ pending => device = Idle /\ request # NoCall
    /\ fault => device = Idle
    /\ device # Idle => device.request = request /\ pc \in {"idle", "called", "zeroed", "polling"}
    /\ pc \in {"reset", "prepared", "ready"} => ~Working
    /\ backend = "ahci" /\ pc # "polling" => device = Idle /\ ~Working

(* A request that was given up and is still with the device is the failed  *)
(* write the store may yet carry out.                                      *)
LateIsKnown ==
    pc \in {"idle", "called", "zeroed"} /\ Working /\ request.op = "write" =>
        late = [op |-> "write", sector |-> request.sector, value |-> buffer]

(* What the call asked for is there. *)
Served ==
    /\ call.op = "write" => medium[call.sector] = call.value
    /\ call.op = "read" => medium[call.sector] = buffer

(* The request in memory is that of the call, and whatever the driver      *)
(* takes for success comes after the transfer: the preset status byte of   *)
(* virtio, the cleared issue bit of AHCI.                                  *)
RequestInHand ==
    /\ pc \in {"prepared", "ready", "polling"} =>
          request = Header /\ (call.op = "write" => buffer = call.value)
    /\ backend = "virtio" /\ pc = "prepared" => status = "unset"
    /\ pc = "polling" /\ device.phase = "moved" => Served
    /\ pc = "polling" /\ backend = "ahci" /\ device.phase = "answered" => Served
    /\ pc = "polling" /\ backend = "virtio" /\ status = "ok" => ~Working /\ Served
    /\ pc = "polling" /\ backend = "ahci" /\ used => ~Working /\ device = Idle /\ Served

IInv == Typed /\ Backends /\ DeviceFollows /\ LateIsKnown /\ RequestInHand

(* The hypothesis on the bus: where a device may be slower than the poll   *)
(* limit, the disk that is found is a virtio disk.                         *)
SlowOnlyVirtio == Slow => \A f \in Scans : f["virtio"] # "absent"

(* The machine as init finds it: nothing asked for, the device at rest. *)
LEMMA InitEstablishes ==
    ASSUME BlockDeviceAssumption, Init
    PROVE  IInv
BY DEF BlockDeviceAssumption, Init, IInv, Typed, Backends, DeviceFollows, LateIsKnown,
       RequestInHand, Working, Served, Idle, NoCall, Failed, Datum, Header

(* Every step of driver and device keeps the invariant, the timeout that   *)
(* leaves a request with the device included.                              *)
LEMMA StepPreserves ==
    ASSUME BlockDeviceAssumption, SlowOnlyVirtio, IInv, [Next]_vars
    PROVE  IInv'
<1> USE DEF IInv, Typed, Backends, DeviceFollows, LateIsKnown, RequestInHand, Working,
            Served, Idle, NoCall, Failed, Datum, Header, external, memory, config,
            Requests, WriteCalls, ReadCalls
<1>1. CASE select_device
  <2>1. pc = "idle" /\ ~pending /\ device = Idle /\ ~fault
    BY <1>1 DEF select_device
  <2>2. backend' \in {"virtio", "ahci", "failed"} /\ (backend' = "ahci" => ~Slow)
    <3>1. scan["virtio"] \in ScanOutcomes /\ (Slow => scan["virtio"] # "absent")
      BY DEF SlowOnlyVirtio, BlockDeviceAssumption
    <3> QED
      BY <1>1, <3>1 DEF select_device, ScanOutcomes
  <2> QED
    BY <1>1, <2>1, <2>2 DEF select_device
<1>2. ASSUME NEW c \in Calls, execute_sector_request(c) PROVE IInv'
  <2>1. CASE c.sector < Capacity
    <3>1. c \in ReadCalls \cup WriteCalls
      BY <2>1 DEF Calls, Sectors, BlockDeviceAssumption
    <3>2. pc' = "called" /\ call' = c /\ UNCHANGED answer
      BY <1>2, <2>1 DEF execute_sector_request
    <3> QED
      BY <1>2, <3>1, <3>2 DEF execute_sector_request
  <2>2. CASE ~(c.sector < Capacity)
    <3>1. /\ answer' = Failed
          /\ UNCHANGED <<scan, backend, pc, call, request, buffer, status, used, pending,
                         device, fault, medium, late>>
      BY <1>2, <2>2 DEF execute_sector_request
    <3> QED
      BY <3>1
  <2> QED
    BY <2>1, <2>2
<1>3. CASE zero_queue
  <2>1. Typed'
    BY <1>3 DEF zero_queue
  <2>2. Backends'
    BY <1>3 DEF zero_queue
  <2>3. DeviceFollows'
    BY <1>3 DEF zero_queue
  <2>4. LateIsKnown'
    BY <1>3 DEF zero_queue
  <2>5. RequestInHand'
    BY <1>3 DEF zero_queue
  <2> QED
    BY <2>1, <2>2, <2>3, <2>4, <2>5
<1>4. CASE reset_device
  BY <1>4 DEF reset_device
<1>5. CASE queue_size_changed
  BY <1>5 DEF queue_size_changed, Return
<1>6. CASE prepare_request
  BY <1>6 DEF prepare_request, Filled
<1>7. CASE submit_request
  BY <1>7 DEF submit_request
<1>8. CASE poll_used
  BY <1>8 DEF poll_used, Return, Done
<1>9. CASE prepare_ahci_command
  BY <1>9 DEF prepare_ahci_command, Filled
<1>10. CASE wait_for_ahci_task_file_ready
  BY <1>10 DEF wait_for_ahci_task_file_ready
<1>11. CASE issue_ahci_command
  <2>1. Typed'
    BY <1>11 DEF issue_ahci_command
  <2>2. Backends'
    BY <1>11 DEF issue_ahci_command
  <2>3. DeviceFollows'
    BY <1>11 DEF issue_ahci_command
  <2>4. LateIsKnown'
    BY <1>11 DEF issue_ahci_command
  <2>5. RequestInHand'
    BY <1>11 DEF issue_ahci_command
  <2> QED
    BY <2>1, <2>2, <2>3, <2>4, <2>5
<1>12. CASE wait_for_ahci_command_complete
  BY <1>12 DEF wait_for_ahci_command_complete, Return, Done
<1>13. CASE timeout
  <2>0. pc = "polling" /\ backend = "virtio" /\ ~used /\ Return(Failed, TRUE)
    BY <1>13 DEF timeout
  <2>1. Typed'
    BY <2>0 DEF Return
  <2>2. Backends'
    BY <2>0 DEF Return
  <2>3. DeviceFollows'
    BY <2>0 DEF Return
  <2>4. LateIsKnown'
    BY <2>0 DEF Return
  <2>5. RequestInHand'
    BY <2>0 DEF Return
  <2> QED
    BY <2>1, <2>2, <2>3, <2>4, <2>5
<1>14. CASE DeviceFetches
  <2>1. Typed'
    BY <1>14 DEF DeviceFetches
  <2>2. Backends'
    BY <1>14 DEF DeviceFetches
  <2>3. DeviceFollows'
    BY <1>14 DEF DeviceFetches
  <2>4. LateIsKnown'
    BY <1>14 DEF DeviceFetches
  <2>5. RequestInHand'
    BY <1>14 DEF DeviceFetches
  <2> QED
    BY <2>1, <2>2, <2>3, <2>4, <2>5
<1>15. CASE DeviceMoves
  BY <1>15 DEF DeviceMoves
<1>16. CASE DeviceRefuses
  <2>1. Typed'
    <3>1. device' \in [phase : {"fetched", "moved", "answered"}, request : Requests] \cup {Idle}
      BY <1>16 DEF DeviceRefuses
    <3>2. status' \in {"unset", "ok", "error"} /\ fault' \in BOOLEAN
      BY <1>16 DEF DeviceRefuses
    <3> QED
      BY <1>16, <3>1, <3>2 DEF DeviceRefuses
  <2>2. Backends'
    BY <1>16 DEF DeviceRefuses
  <2>3. DeviceFollows'
    BY <1>16 DEF DeviceRefuses
  <2>4. LateIsKnown'
    BY <1>16 DEF DeviceRefuses
  <2>5. RequestInHand'
    BY <1>16 DEF DeviceRefuses
  <2> QED
    BY <2>1, <2>2, <2>3, <2>4, <2>5
<1>17. CASE DeviceAnswers
  BY <1>17 DEF DeviceAnswers
<1>18. CASE DeviceSignals
  BY <1>18 DEF DeviceSignals
<1>19. CASE UNCHANGED vars
  BY <1>19 DEF vars
<1> QED
  BY <1>1, <1>2, <1>3, <1>4, <1>5, <1>6, <1>7, <1>8, <1>9, <1>10, <1>11, <1>12, <1>13,
     <1>14, <1>15, <1>16, <1>17, <1>18, <1>19 DEF Next, Driver, Device

(* Every step of driver and device is a step of the store or leaves it     *)
(* alone: only DeviceMoves changes the disk, carrying out the call or a    *)
(* write that was given up, and only the three returns answer.             *)
LEMMA StepRefines ==
    ASSUME BlockDeviceAssumption, IInv, [Next]_vars
    PROVE  [Store!Next]_(Store!vars)
<1> USE DEF Store!vars
<1> USE DEF IInv, Typed
<1>1. ASSUME NEW c \in Calls, execute_sector_request(c) PROVE Store!Next
  <2>1. CASE c.sector < Capacity
    <3>1. c \in Store!Calls
      BY <2>1 DEF Calls, Store!Calls, Sectors, BlockDeviceAssumption
    <3>2. Store!Request(c)
      BY <1>1, <2>1 DEF execute_sector_request, external, Store!Request, Store!NoCall, NoCall
    <3> QED
      BY <3>1, <3>2 DEF Store!Next
  <2>2. CASE ~(c.sector < Capacity)
    BY <1>1, <2>2 DEF execute_sector_request, external, Store!Refuses, Store!NoCall, NoCall,
          Store!Failed, Failed, Store!Next
  <2> QED
    BY <2>1, <2>2
<1>2. ASSUME NEW issued \in BOOLEAN, pc # "idle", Return(Failed, issued) PROVE Store!Fails
  BY <1>2 DEF Return, external, Store!Fails, Store!NoCall, NoCall, Store!Failed, Failed,
        ReadCalls, WriteCalls
<1>3. ASSUME pc = "polling", Served,
             Return(Done(IF call.op = "read" THEN buffer ELSE Blank), TRUE)
      PROVE  Store!ReadReturns \/ Store!WriteReturns
  BY <1>3 DEF Return, external, Done, Served, Store!ReadReturns, Store!WriteReturns,
        Store!Done, Store!NoCall, NoCall, ReadCalls, WriteCalls
<1>4. CASE select_device \/ zero_queue \/ reset_device \/ prepare_request \/ submit_request
           \/ prepare_ahci_command \/ wait_for_ahci_task_file_ready \/ issue_ahci_command
           \/ DeviceFetches \/ DeviceRefuses \/ DeviceAnswers \/ DeviceSignals
  BY <1>4 DEF select_device, zero_queue, reset_device, prepare_request, submit_request,
        prepare_ahci_command, wait_for_ahci_task_file_ready, issue_ahci_command,
        DeviceFetches, DeviceRefuses, DeviceAnswers, DeviceSignals, external
<1>5. CASE queue_size_changed
  BY <1>2, <1>5 DEF queue_size_changed, Store!Next
<1>6. CASE poll_used
  <2>1. CASE status = "ok"
    BY <1>3, <1>6, <2>1 DEF poll_used, RequestInHand, Store!Next
  <2>2. CASE status # "ok"
    BY <1>2, <1>6, <2>2 DEF poll_used, Store!Next
  <2> QED
    BY <2>1, <2>2
<1>7. CASE wait_for_ahci_command_complete
  <2>1. CASE fault
    BY <1>2, <1>7, <2>1 DEF wait_for_ahci_command_complete, Store!Next
  <2>2. CASE ~fault
    BY <1>3, <1>7, <2>2 DEF wait_for_ahci_command_complete, RequestInHand, Store!Next
  <2> QED
    BY <2>1, <2>2
<1>8. CASE timeout
  BY <1>2, <1>8 DEF timeout, Store!Next
<1>9. CASE DeviceMoves
  <2>1. device # Idle /\ device.request = request
    BY <1>9 DEF DeviceMoves, Idle, DeviceFollows
  <2>2. CASE request.op = "write" /\ pc = "polling"
    <3>1. call.op = "write" /\ call.sector = request.sector /\ call.value = buffer
      BY <2>2 DEF RequestInHand, Header
    <3>2. Store!TakesEffect(call)
      BY <1>9, <2>1, <2>2, <3>1 DEF DeviceMoves, Store!TakesEffect
    <3> QED
      BY <3>2 DEF Store!Next
  <2>3. CASE request.op = "write" /\ pc # "polling"
    <3>1. late = [op |-> "write", sector |-> request.sector, value |-> buffer]
      BY <1>9, <2>1, <2>3 DEF DeviceMoves, DeviceFollows, LateIsKnown, Working
    <3>2. Store!TakesEffect(late)
      BY <1>9, <2>1, <2>3, <3>1 DEF DeviceMoves, Store!TakesEffect
    <3> QED
      BY <3>2 DEF Store!Next
  <2>4. CASE request.op # "write"
    BY <1>9, <2>1, <2>4 DEF DeviceMoves
  <2> QED
    BY <2>2, <2>3, <2>4
<1>10. CASE UNCHANGED vars
  BY <1>10 DEF vars
<1> QED
  BY <1>1, <1>4, <1>5, <1>6, <1>7, <1>8, <1>9, <1>10 DEF Next, Driver, Device

(* Seen through execute_sector_request the disk is the abstract store: a   *)
(* read returns the last value that took effect, a write that is answered  *)
(* ok has taken effect, and a write that failed takes effect once, later,  *)
(* or never.  The hypothesis leaves out an AHCI device slower than the     *)
(* poll limit, whose command the driver gives up without stopping it.      *)
THEOREM StoreHolds ==
    ASSUME BlockDeviceAssumption, SlowOnlyVirtio PROVE Spec => StoreImplemented
<1>1. Init => IInv /\ Store!Init
  BY InitEstablishes DEF Init, Store!Init, Store!NoCall, NoCall, Store!Failed, Failed
<1>2. IInv /\ [Next]_vars => IInv' /\ [Store!Next]_(Store!vars)
  BY StepPreserves, StepRefines
<1> QED
  BY <1>1, <1>2, PTL DEF Spec, StoreImplemented, Store!Spec

==============================================================================

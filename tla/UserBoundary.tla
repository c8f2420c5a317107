---------------------------- MODULE UserBoundary ----------------------------
(***************************************************************************)
(* The boundary between PythCore and ring 3: entering user mode and coming *)
(* back from it (core/src/user_mode.rs), the exception handler that        *)
(* decides what a trap means (architecture/x86_64/exceptions.rs), the      *)
(* process on whose behalf system calls run (process_context.rs) and the   *)
(* system call gate itself (syscall.rs).                                   *)
(*                                                                         *)
(* The kernel enters ring 3 in three ways.  A proof entry arms one         *)
(* expected trap and has no process.  A returnable entry binds a process   *)
(* and comes back by a breakpoint or with a captured fault.  A persistent  *)
(* entry binds a process and never comes back: a fault or the graph's exit *)
(* call leaves the machine in safe idle.  Which of these is under way is   *)
(* spread over a dozen independent flags; the properties are about these   *)
(* flags agreeing with what the machine is doing.                          *)
(*                                                                         *)
(* Recovery addresses are the number of the finite entry that stored them, *)
(* so a jump into the frame of an earlier entry can be told from one into  *)
(* the live frame.  User memory is a class of buffer: readable and         *)
(* writable, read only, misaligned, or outside the caller's copy map.      *)
(* The object and task services behind their calls answer freely here      *)
(* (modules ObjectService and TaskService); the network port call is       *)
(* module NetworkPort's.                                                   *)
(***************************************************************************)
EXTENDS CapabilityTable, Integers

CONSTANTS
    MaxEntries,      \* ring 3 entries explored
    MaxQueue,        \* bytes or events a device has pending
    MaxArms,         \* times the proof call is armed
    MaxMutations,    \* object mutations explored
    Granted          \* the resources whose capabilities are granted

UserBoundaryAssumption ==
    /\ MaxEntries \in Nat \ {0} /\ MaxQueue \in Nat
    /\ MaxArms \in Nat \ {0} /\ MaxMutations \in Nat
    /\ Granted \subseteq {"console", "control", "input", "log", "viewing"}

VARIABLES
    build,       \* "verify" or "normal": which calls are compiled in
    mode,        \* "kernel", "user", "returned", "idle", "panic", "reboot"
    launch,      \* how ring 3 was entered last
    entries,     \* entries made so far
    frame,       \* the finite entry whose kernel frame is live, 0 for none
    um,          \* the statics of user_mode.rs
    process,     \* CURRENT_PROCESS
    gate,        \* EXPECTED_SYSCALL, SYSCALL_RETURNED, SYSCALL_LAST_RESULT
    table,       \* SYSCALL_CAPABILITIES
    com2, input, \* bytes and events waiting
    objects,     \* mutations of the retained services, in memory and on disk
    verdict,     \* what the last finite entry was reported as
    seen         \* what really happened, for the properties

vars == <<build, mode, launch, entries, frame, um, process, gate,
          table, com2, input, objects, verdict, seen>>

devices == <<com2, input>>

Principals == {"session", "graph"}
NoProcess == "none"

Breakpoint == 3
PageFault == 14
Vectors == {Breakpoint, 6, PageFault}

Kinds == {"ObjectShell", "PythGraphRuntime", "PythNativeGraph"}

(* The statics as the image is loaded; clear_returnable_user_process_state *)
(* returns all but the persistent pair to this                             *)
Cleared ==
    [expBreakpoint |-> FALSE, expVector |-> 0, returned |-> FALSE, recovery |-> 0,
     active |-> FALSE, principal |-> NoProcess, captured |-> FALSE, vector |-> 0,
     persistent |-> FALSE, kind |-> "none"]

clear_returnable_user_process_state(u) ==
    [Cleared EXCEPT !.persistent = u.persistent, !.kind = u.kind]

clear_current_process == NoProcess

NoTrap == [vector |-> 0, process |-> NoProcess]

Init ==
    /\ build \in {"verify", "normal"}
    /\ mode = "kernel" /\ launch = "none" /\ entries = 0 /\ frame = 0
    /\ um = Cleared
    /\ process = NoProcess
    /\ gate = [armed |-> FALSE, returned |-> FALSE, last |-> "none"]
    /\ table = EmptyTable
    /\ com2 = 0 /\ input = 0
    /\ objects = [ram |-> 0, disk |-> 0]
    /\ verdict = [of |-> "none"]
    /\ seen = [jump |-> 0, trap |-> NoTrap, arms |-> 0, proofs |-> 0,
               okCall |-> FALSE, held |-> {}, exits |-> 0]
-----------------------------------------------------------------------------
(* Capabilities the launch code grants, and revokes when a session ends    *)

Resources == {"console", "control", "input", "log", "viewing"}

RightsOf(resource) ==
    CASE resource = "console" -> {"READ", "WRITE"}
      [] resource = "control" -> {"WRITE"}
      [] resource = "input"   -> {"INPUT"}
      [] resource = "log"     -> {"LOG"}
      [] resource = "viewing" -> {"SEND"}

(* grant_console_capability and its siblings; the viewing capability goes  *)
(* to the session runtime only                                             *)
GrantTo(p, resource) ==
    /\ mode = "kernel"
    /\ resource = "viewing" => p = "session"
    /\ LET g == grant(table, p, resource, RightsOf(resource))
       IN /\ g.created
          /\ table' = g.table
          /\ seen' = [seen EXCEPT !.held = @ \cup {<<p, resource>>}]
    /\ UNCHANGED <<build, mode, launch, entries, frame, um, process,
                   gate, devices, objects, verdict>>

(* bind_session_input_capability: a capability that was there before the   *)
(* call stays when binding the queue fails                                 *)
BindSessionInput(p, bound) ==
    /\ mode = "kernel"
    /\ LET g == grant(table, p, "input", {"INPUT"})
           keep == bound \/ ~g.created
       IN /\ g.handle # InvalidHandle
          /\ table' = IF keep THEN g.table ELSE revoke(g.table, g.handle)
          /\ seen' = IF keep THEN [seen EXCEPT !.held = @ \cup {<<p, "input">>}] ELSE seen
    /\ UNCHANGED <<build, mode, launch, entries, frame, um, process,
                   gate, devices, objects, verdict>>

RevokeSlot(s) ==
    /\ mode = "kernel"
    /\ table[s].state = "Active"
    /\ table' = revoke(table, Handle(s, table[s].generation))
    /\ seen' = [seen EXCEPT !.held = @ \ {<<table[s].holder, table[s].resource>>}]
    /\ UNCHANGED <<build, mode, launch, entries, frame, um, process,
                   gate, devices, objects, verdict>>
-----------------------------------------------------------------------------
(* Entering ring 3                                                         *)

(* prepare_ring3_return_abi: the last thing a finite entry does            *)
PrepareKeepsFirst(u, id) ==
    [u EXCEPT !.returned = FALSE, !.recovery = IF @ = 0 THEN id ELSE @]

prepare_ring3_return(u, id) == [u EXCEPT !.returned = FALSE, !.recovery = id]

EnterFinite(u, how) ==
    /\ entries < MaxEntries
    /\ entries' = entries + 1
    /\ frame' = entries + 1
    /\ um' = prepare_ring3_return(u, entries + 1)
    /\ mode' = "user" /\ launch' = how
    /\ verdict' = [of |-> "none"]

(* run_user_entry with an expected breakpoint or an expected fault         *)
run_user_entry(vector) ==
    /\ mode = "kernel" /\ build = "verify"
    /\ EnterFinite([um EXCEPT !.expBreakpoint = (vector = Breakpoint),
                              !.expVector = IF vector = Breakpoint THEN 0 ELSE vector],
                   "proof")
    /\ seen' = [seen EXCEPT !.trap = NoTrap, !.okCall = FALSE]
    /\ UNCHANGED <<build, process, gate, table, devices, objects>>

(* syscall::run_self_test: the proof call is armed for the entry           *)
run_syscall_test ==
    /\ mode = "kernel" /\ build = "verify"
    /\ seen.arms < MaxArms
    /\ gate' = [armed |-> TRUE, returned |-> FALSE, last |-> "OK"]
    /\ EnterFinite([um EXCEPT !.expBreakpoint = TRUE, !.expVector = 0], "syscall_test")
    /\ seen' = [seen EXCEPT !.trap = NoTrap, !.okCall = FALSE, !.arms = @ + 1]
    /\ UNCHANGED <<build, process, table, devices, objects>>

(* run_general_abi_self_test dispatches from the kernel: an information    *)
(* call, an armed proof call, and an unknown call with the gate armed once *)
(* more, which an unknown number does not consume                          *)
run_general_abi_self_test ==
    /\ mode = "kernel" /\ build = "verify"
    /\ seen.arms + 1 < MaxArms
    /\ gate' = [gate EXCEPT !.armed = TRUE]
    /\ seen' = [seen EXCEPT !.arms = @ + 2, !.proofs = @ + 1]
    /\ UNCHANGED <<build, mode, launch, entries, frame, um, process,
                   table, devices, objects, verdict>>

activate_returnable_user_process(u, p) ==
    [clear_returnable_user_process_state(u) EXCEPT
        !.principal = p, !.active = TRUE, !.expBreakpoint = TRUE]

run_returnable_user_process(p) ==
    /\ mode = "kernel"
    /\ process' = p
    /\ EnterFinite(activate_returnable_user_process(um, p), "returnable")
    /\ seen' = [seen EXCEPT !.trap = NoTrap, !.okCall = FALSE]
    /\ UNCHANGED <<build, gate, table, devices, objects>>

(* enter_persistent_user_process, enter_pyth_graph_runtime and             *)
(* enter_pyth_native_graph                                                 *)
enter_persistent(p, kind) ==
    /\ mode = "kernel" /\ build = "normal"
    /\ entries < MaxEntries
    /\ (kind = "ObjectShell") = (p = "session")
    /\ entries' = entries + 1
    /\ process' = p
    /\ um' = [um EXCEPT !.persistent = TRUE, !.kind = kind]
    /\ mode' = "user" /\ launch' = "persistent"
    /\ verdict' = [of |-> "none"]
    /\ seen' = [seen EXCEPT !.trap = NoTrap, !.okCall = FALSE]
    /\ UNCHANGED <<build, frame, gate, table, devices, objects>>
-----------------------------------------------------------------------------
(* Traps                                                                   *)

ToSafeIdle(u) == [u EXCEPT !.persistent = FALSE, !.kind = "none"]

(* handle_user_breakpoint                                                  *)
BreakpointTaken(vector) == vector = Breakpoint /\ um.expBreakpoint

handle_user_breakpoint(u) == [u EXCEPT !.expBreakpoint = FALSE, !.returned = TRUE]

(* The three branches of handle_user_fault                                 *)
expected_user_fault(u) == [u EXCEPT !.expVector = 0, !.returned = TRUE]

returnable_user_fault(u, vector) ==
    [u EXCEPT !.vector = vector, !.captured = TRUE, !.active = FALSE,
              !.expBreakpoint = FALSE, !.expVector = 0, !.returned = TRUE]

(* exception_handler for a trap out of ring 3.  The kernel's own expected  *)
(* breakpoint and page fault come last; they are armed and taken within    *)
(* one straight piece of boot code, never across an entry.                 *)
UserTrap(vector) ==
    /\ mode = "user"
    /\ LET told == [seen EXCEPT !.trap = [vector |-> vector, process |-> process]]
           jump == [told EXCEPT !.jump = um.recovery]
       IN \/ /\ BreakpointTaken(vector)
             /\ um' = handle_user_breakpoint(um)
             /\ mode' = "returned" /\ seen' = jump
             /\ UNCHANGED process
          \/ /\ ~BreakpointTaken(vector)
             /\ um.expVector = vector
             /\ um' = expected_user_fault(um)
             /\ mode' = "returned" /\ seen' = jump
             /\ UNCHANGED process
          \/ /\ ~BreakpointTaken(vector) /\ um.expVector # vector
             /\ um.active
             /\ um' = returnable_user_fault(um, vector)
             /\ process' = clear_current_process
             /\ mode' = "returned" /\ seen' = jump
          \/ /\ ~BreakpointTaken(vector) /\ um.expVector # vector /\ ~um.active
             /\ um.persistent
             /\ um' = ToSafeIdle(um)
             /\ process' = clear_current_process
             /\ mode' = "idle" /\ seen' = told
          \/ /\ ~BreakpointTaken(vector) /\ um.expVector # vector /\ ~um.active
             /\ ~um.persistent
             /\ mode' = "panic" /\ seen' = told
             /\ UNCHANGED <<um, process>>
    /\ UNCHANGED <<build, launch, entries, frame, gate, table, devices, objects, verdict>>

(* finish_returnable_user_process, and the tail of run_user_entry and of   *)
(* syscall::run_self_test                                                  *)
finish_returnable_user_process(u) ==
    CASE ~u.returned -> [of |-> "DidNotReturn"]
      [] u.returned /\ u.captured ->
           [of |-> "FaultContained", principal |-> u.principal, vector |-> u.vector]
      [] OTHER -> [of |-> "Ok"]

finish_user_entry(u, g) ==
    CASE ~u.returned -> [of |-> "DidNotReturn"]
      [] u.returned /\ launch = "syscall_test" /\ (~g.returned \/ g.last # "OK") ->
           [of |-> "BadResult"]
      [] OTHER -> [of |-> "Ok"]

(* A self test that fails ends the boot                                    *)
Finish ==
    /\ mode = "returned"
    /\ frame' = 0
    /\ \/ /\ launch = "returnable"
          /\ mode' = "kernel"
          /\ verdict' = finish_returnable_user_process(um)
          /\ um' = clear_returnable_user_process_state(um)
          /\ process' = clear_current_process
       \/ /\ launch # "returnable"
          /\ verdict' = finish_user_entry(um, gate)
          /\ mode' = IF verdict'.of = "Ok" THEN "kernel" ELSE "panic"
          /\ UNCHANGED <<um, process>>
    /\ seen' = [seen EXCEPT !.jump = 0]
    /\ UNCHANGED <<build, launch, entries, gate, table, devices, objects>>
-----------------------------------------------------------------------------
(* System calls.  A request is a well-formed one or one with a single      *)
(* thing wrong with it; Handles are all the caller can name.               *)

(* validate_user_buffer: alignment first, then the copy map                *)
validate_user_buffer(buffer, access) ==
    IF access = "Read" THEN buffer \in {"rw", "ro"} ELSE buffer = "rw"

Handles == {Handle(s, g) : s \in 1 .. CapabilitySlots, g \in 1 .. 2}

ObjectOps == {"Create", "CreatePackaged", "Query", "Inspect", "Revise", "History", "Unknown"}
TaskOps == {"CreateTask", "ReadActive", "ReadContext", "ListProposals"}

object_operation_mutates(op) == op \in {"Create", "CreatePackaged", "Revise"}
task_operation_mutates(op) == op \in {"CreateTask", "ReadContext"}

(* The fields of a call: capability, plain arguments, the buffer the       *)
(* kernel reads, the buffer it writes, the operation and its own buffers   *)
Good(kind) ==
    [kind |-> kind, cap |-> InvalidHandle, args |-> "good", in |-> "ro", out |-> "rw",
     header |-> "good", op |-> "none", opIn |-> "good", opOut |-> "good",
     record |-> "OK"]

WithCap(kind) == {[Good(kind) EXCEPT !.cap = h] : h \in Handles}

(* The request and its variants with one of these fields set otherwise     *)
Variants(r, args, in, out) ==
    {r} \cup (IF args THEN {[r EXCEPT !.args = "bad"]} ELSE {})
        \cup {[r EXCEPT !.in = b] : b \in in}
        \cup {[r EXCEPT !.out = b] : b \in out}

ServiceVariants(r) ==
    Variants(r, TRUE, {"unmapped", "misaligned"}, {"ro"})
    \cup {[r EXCEPT !.header = "bad"], [r EXCEPT !.opIn = "long"],
          [r EXCEPT !.opIn = "unmapped"],
          [r EXCEPT !.opOut = "small"], [r EXCEPT !.opOut = "unmapped"]}

Plain ==
    {Good("AbiInfo"), Good("Unsupported"), Good("SystemLogProof")}
    \cup WithCap("ConsoleRead") \cup WithCap("SystemReboot")
    \cup UNION {Variants(r, TRUE, {}, {}) : r \in WithCap("ConsoleWrite")
                  \cup WithCap("SessionWait") \cup WithCap("SessionViewingPresent")}
    \cup UNION {Variants(r, TRUE, {}, {"ro", "misaligned"}) : r \in WithCap("SessionInputTryRead")}
    \cup UNION {Variants(r, TRUE, {"unmapped", "misaligned"}, {}) : r \in WithCap("PythGraphLog")}
    \cup Variants(Good("PackageContext"), TRUE, {}, {"ro"})
    \cup Variants(Good("PythGraphExit"), TRUE, {"unmapped"}, {})
    \cup {[Good("PythGraphExit") EXCEPT !.record = x] : x \in {"bad", "RuntimeError"}}

(* The calls a device, the queue or the presenter may answer with no       *)
Answered == {"ConsoleRead", "SessionInputTryRead", "SessionWait", "SessionViewingPresent"}

(* The well-formed service requests, and all of them: only a well-formed   *)
(* one reaches the service, which may deny it or fail to persist it        *)
WellFormed ==
    {[Good("ObjectRequest") EXCEPT !.op = o] : o \in ObjectOps}
    \cup {[Good("TaskRequest") EXCEPT !.op = o] : o \in TaskOps}

Service ==
    WellFormed
    \cup UNION {ServiceVariants(r) : r \in {x \in WellFormed :
                   x.op \in {"Revise", "Query", "CreatePackaged", "ReadContext"}}}

Holds(h, resource, rights) == validate(table, process, h, resource, rights)

(* What a call answers, and which of the effects below it has: OK, Data (a *)
(* byte or an event), Status (any other number of the ABI) or Error, the   *)
(* three codes for an unsupported, an unexpected and a failed call.        *)
Answer(code, effect) == [code |-> code, effect |-> effect]
Refused == Answer("Error", "none")

(* COM2 first; with nothing there, a key of the physical keyboard (ok)     *)
dispatch_console_read(r, ok) ==
    IF process # NoProcess /\ Holds(r.cap, "console", {"READ"})
    THEN Answer(IF com2 > 0 \/ ok THEN "Data" ELSE "Status", "read_com2") ELSE Refused

dispatch_console_write(r) ==
    IF process # NoProcess /\ r.args = "good" /\ Holds(r.cap, "console", {"WRITE"})
    THEN Answer("OK", "write_com2") ELSE Refused

dispatch_system_reboot(r) ==
    IF process # NoProcess /\ Holds(r.cap, "control", {"WRITE"})
    THEN Answer("OK", "reboot") ELSE Refused

dispatch_pyth_graph_log(r) ==
    IF /\ build = "normal"
       /\ r.args = "good" /\ process # NoProcess
       /\ Holds(r.cap, "log", {"LOG"})
       /\ r.in \in {"rw", "ro", "misaligned"}    \* bytes need no alignment
    THEN Answer("OK", "log") ELSE Refused

(* The presenter refuses another holder or a revision out of turn (~ok)    *)
dispatch_session_viewing_present(r, ok) ==
    IF /\ process # NoProcess /\ Holds(r.cap, "viewing", {"SEND"})
       /\ process = "session" /\ ok
    THEN Answer("OK", "present") ELSE Refused

DequeueBeforeValidate(r, ok) ==
    IF process # NoProcess /\ Holds(r.cap, "input", {"INPUT"}) /\ r.args = "good" /\ ok
    THEN Answer(IF ~validate_user_buffer(r.out, "Write") THEN "Error"
                ELSE IF input > 0 THEN "Data" ELSE "Status", "read_input")
    ELSE Refused

(* Everything is validated before the event leaves the queue, which hands  *)
(* it out only to the holder it is bound to (ok)                           *)
dispatch_session_input_try_read(r, ok) ==
    IF /\ process # NoProcess /\ Holds(r.cap, "input", {"INPUT"})
       /\ r.args = "good"
       /\ validate_user_buffer(r.out, "Write") /\ ok
    THEN Answer(IF input > 0 THEN "Data" ELSE "Status", "read_input") ELSE Refused

(* The wait needs the input capability, some console capability of the     *)
(* caller's and the queue bound to it (ok); it sleeps until a device has   *)
(* something and validates again                                           *)
dispatch_session_wait(r, ok) ==
    IF /\ r.args = "good" /\ process = "session" /\ ok
       /\ Holds(r.cap, "input", {"INPUT"})
       /\ \E h \in Handles : Holds(h, "console", {"READ"})
    THEN Answer("Status", "none") ELSE Refused

dispatch_package_context(r) ==
    CASE build = "verify" -> Answer("Status", "none")
      [] build = "normal" /\ r.args # "good" -> Answer("Status", "none")
      [] OTHER -> IF process # NoProcess /\ validate_user_buffer(r.out, "Write")
                  THEN Answer("Status", "write_user") ELSE Refused

(* Object and task requests: both fixed buffers, then the header, then the *)
(* operation's own buffers, then the service.  A malformed header, a small *)
(* output and a denial are responses, written by a call that succeeds; a   *)
(* bad pointer fails the call.                                             *)
FixedBuffersValid(r) ==
    /\ r.args = "good"
    /\ validate_user_buffer(r.in, "Read")
    /\ validate_user_buffer(r.out, "Write")

ServiceRequest(r, usesInput, usesOutput, mutates, ok, persisted) ==
    CASE build = "verify" \/ process = NoProcess \/ ~FixedBuffersValid(r) -> Refused
      [] OTHER ->
         CASE r.header # "good" -> Answer("OK", "write_user")
           [] r.header = "good" /\ usesInput /\ r.opIn # "good" -> Refused
           [] r.header = "good" /\ ~(usesInput /\ r.opIn # "good")
              /\ usesOutput /\ r.opOut = "small" -> Answer("OK", "write_user")
           [] r.header = "good" /\ ~(usesInput /\ r.opIn # "good")
              /\ usesOutput /\ r.opOut = "unmapped" -> Refused
           [] OTHER ->
              CASE ~ok -> Answer("OK", "write_user")
                [] ok /\ mutates /\ persisted -> Answer("OK", "mutate_durable")
                [] ok /\ mutates /\ ~persisted -> Answer("Error", "mutate_memory")
                [] OTHER -> Answer("OK", "write_user")

(* checked_package_defined_create_input: a record of another size or ABI   *)
(* is answered like a bad header, a bad pointer fails the call             *)
PackagedInput(r) ==
    IF r.op = "CreatePackaged" /\ r.opIn = "long" THEN [r EXCEPT !.header = "bad"] ELSE r

dispatch_object_request(r, ok, persisted) ==
    ServiceRequest(PackagedInput(r), r.op \in {"Revise", "CreatePackaged"}, r.op = "Query",
                   object_operation_mutates(r.op), ok /\ r.op # "Unknown", persisted)

dispatch_task_request(r, ok, persisted) ==
    IF build = "verify" THEN Answer("Error", "none")
    ELSE ServiceRequest(r, TRUE, r.op \in {"ReadContext", "ListProposals"},
                        task_operation_mutates(r.op), ok, persisted)

is_active_pyth_graph_process ==
    um.persistent /\ um.kind \in {"PythGraphRuntime", "PythNativeGraph"}

dispatch_pyth_graph_exit(r) ==
    IF /\ build = "normal" /\ r.args = "good"
       /\ process # NoProcess /\ is_active_pyth_graph_process
       /\ validate_user_buffer(r.in, "Read")
       /\ r.record \in {"OK", "RuntimeError"}
    THEN Answer("OK", "exit") ELSE Refused

(* dispatch: an unknown number is refused before the proof gate is looked  *)
(* at, and the gate is consumed before the proof call runs                 *)
dispatch(r, ok, persisted) ==
    CASE r.kind = "Unsupported" -> Answer("Error", "none")
      [] r.kind = "AbiInfo" -> Answer("Status", "none")
      [] r.kind = "SystemLogProof" ->
           IF gate.armed THEN Answer("OK", "proof") ELSE Answer("Error", "none")
      [] r.kind = "ConsoleRead" -> dispatch_console_read(r, ok)
      [] r.kind = "ConsoleWrite" -> dispatch_console_write(r)
      [] r.kind = "SystemReboot" -> dispatch_system_reboot(r)
      [] r.kind = "ObjectRequest" -> dispatch_object_request(r, ok, persisted)
      [] r.kind = "TaskRequest" -> dispatch_task_request(r, ok, persisted)
      [] r.kind = "PythGraphLog" -> dispatch_pyth_graph_log(r)
      [] r.kind = "PythGraphExit" -> dispatch_pyth_graph_exit(r)
      [] r.kind = "PackageContext" -> dispatch_package_context(r)
      [] r.kind = "SessionInputTryRead" -> dispatch_session_input_try_read(r, ok)
      [] r.kind = "SessionWait" -> dispatch_session_wait(r, ok)
      [] r.kind = "SessionViewingPresent" -> dispatch_session_viewing_present(r, ok)

(* swap(false): the gate is down after the proof call, taken or not        *)
GateAfter(r) == gate.armed /\ r.kind # "SystemLogProof"

TakeOne(n) == IF n > 0 THEN n - 1 ELSE n

(* syscall_dispatch_abi: the call, with what the service, device or queue  *)
(* behind it says to it (ok, persisted); its answer is stored for the self *)
(* test                                                                    *)
Syscall(r, ok, persisted) ==
    /\ mode = "user"
    /\ \E a \in {dispatch(r, ok, persisted)} :
       LET e == a.effect
       IN /\ e \in {"mutate_durable", "mutate_memory"} => objects.ram < MaxMutations
          /\ gate' = IF e \in {"reboot", "exit"} THEN [gate EXCEPT !.armed = GateAfter(r)]
                     ELSE [armed |-> GateAfter(r), returned |-> TRUE, last |-> a.code]
          /\ com2' = IF e = "read_com2" THEN TakeOne(com2) ELSE com2
          /\ input' = IF e = "read_input" THEN TakeOne(input) ELSE input
          /\ objects' = CASE e = "mutate_durable" ->
                               [ram |-> objects.ram + 1, disk |-> objects.ram + 1]
                          [] e = "mutate_memory" -> [objects EXCEPT !.ram = @ + 1]
                          [] OTHER -> objects
          /\ mode' = CASE e = "reboot" -> "reboot" [] e = "exit" -> "idle" [] OTHER -> mode
          /\ um' = IF e = "exit" THEN ToSafeIdle(um) ELSE um
          /\ process' = IF e = "exit" THEN clear_current_process ELSE process
          /\ seen' = [seen EXCEPT
                        !.proofs = IF e = "proof" THEN @ + 1 ELSE @,
                        !.okCall = @ \/ (a.code = "OK" /\ launch = "syscall_test"),
                        !.exits = IF e = "exit" THEN @ + 1 ELSE @]
    /\ UNCHANGED <<build, launch, entries, frame, table, verdict>>
-----------------------------------------------------------------------------
(* Devices: a byte or an event arrives                                     *)
DeviceInput ==
    /\ mode \in {"kernel", "user"}
    /\ \/ com2 < MaxQueue /\ com2' = com2 + 1 /\ UNCHANGED input
       \/ input < MaxQueue /\ input' = input + 1 /\ UNCHANGED com2
    /\ UNCHANGED <<build, mode, launch, entries, frame, um, process,
                   gate, table, objects, verdict, seen>>

(* Safe idle, a panic and a reboot are the ends of a boot; the kernel may  *)
(* also have nothing left to run                                           *)
Stopped == mode \in {"kernel", "idle", "panic", "reboot"} /\ UNCHANGED vars

KernelNext ==
    \/ \E p \in Principals, res \in Granted : GrantTo(p, res)
    \/ \E p \in Principals, bound \in BOOLEAN : BindSessionInput(p, bound)
    \/ \E s \in 1 .. CapabilitySlots : RevokeSlot(s)
    \/ \E v \in Vectors : run_user_entry(v)
    \/ run_syscall_test
    \/ run_general_abi_self_test
    \/ \E p \in Principals : run_returnable_user_process(p)
    \/ \E p \in Principals, k \in Kinds : enter_persistent(p, k)
    \/ Finish

UserNext ==
    \/ \E v \in Vectors : UserTrap(v)
    \/ \E r \in Plain : Syscall(r, TRUE, TRUE)
    \/ \E r \in Plain : r.kind \in Answered /\ Syscall(r, FALSE, TRUE)
    \/ \E r \in Service : Syscall(r, TRUE, TRUE)
    \/ \E r \in WellFormed : Syscall(r, TRUE, FALSE) \/ Syscall(r, FALSE, TRUE)

Next == KernelNext \/ UserNext \/ DeviceInput \/ Stopped

Spec == Init /\ [][Next]_vars
-----------------------------------------------------------------------------
TypeOK ==
    /\ mode \in {"kernel", "user", "returned", "idle", "panic", "reboot"}
    /\ um.expVector \in Vectors \cup {0} /\ um.recovery \in 0 .. MaxEntries
    /\ process \in Principals \cup {NoProcess}
    /\ com2 \in 0 .. MaxQueue /\ input \in 0 .. MaxQueue
    /\ objects.disk \in 0 .. objects.ram
    /\ \A s \in DOMAIN table : table[s].state \in {"None", "Active", "Revoked"}

(* A trap that resumes the kernel resumes the frame of the entry that is   *)
(* under way: jump_to_kernel_recovery never lands in the frame of an entry *)
(* that has returned, nor at the zero a cleared recovery holds.            *)
RecoveryIsLive ==
    mode = "returned" => seen.jump = frame /\ frame # 0

(* While a persistent process runs nothing expects a return: there is no   *)
(* kernel frame to come back to, so a leftover expectation of an earlier   *)
(* finite entry would turn its fault into a jump into a dead frame.        *)
PersistentIsFinal ==
    mode = "user" /\ launch = "persistent" =>
        ~um.expBreakpoint /\ um.expVector = 0 /\ ~um.active /\ um.persistent

(* The process system calls run for is the one in ring 3: bound while a    *)
(* returnable or persistent process runs, and nobody at any other time.    *)
CallerIsRunning ==
    /\ mode \in {"kernel", "idle"} => process = NoProcess
    /\ mode = "user" => (process # NoProcess) = (launch \in {"returnable", "persistent"})
    /\ mode = "user" /\ um.active => process = um.principal

(* A fault of a user process is contained: only a proof entry, which is    *)
(* part of the boot's own self test, can bring the kernel down.            *)
FaultContained ==
    mode = "panic" => seen.trap.process = NoProcess /\ launch \in {"proof", "syscall_test"}

(* The report of a returnable run tells this run's fault: its vector and   *)
(* the principal it happened to, and a fault exactly when it did not end   *)
(* by the breakpoint.                                                      *)
ReportIsThisRun ==
    mode = "kernel" /\ launch = "returnable" /\ verdict.of # "none" =>
        IF seen.trap.vector = Breakpoint THEN verdict.of = "Ok"
        ELSE verdict = [of |-> "FaultContained", principal |-> seen.trap.process,
                        vector |-> seen.trap.vector]

(* The proof call runs at most once for each time it was armed, whatever   *)
(* calls ring 3 makes in between.                                          *)
ProofCallCounted ==
    seen.proofs + (IF gate.armed THEN 1 ELSE 0) <= seen.arms

(* The self test of the gate passes only if a call of this very entry      *)
(* succeeded.                                                              *)
SelfTestHonest ==
    mode = "kernel" /\ launch = "syscall_test" /\ verdict.of = "Ok" => seen.okCall

(* Safe idle is reached with nothing left bound, and a graph's exit is     *)
(* accepted from a graph process once.                                     *)
SafeIdleIsClean ==
    /\ mode = "idle" => ~um.persistent /\ um.kind = "none" /\ process = NoProcess
    /\ seen.exits = 1 => mode = "idle" /\ launch = "persistent"
    /\ seen.exits \in {0, 1}

(* What a call consumes it consumes with authority granted and not yet     *)
(* revoked: bytes of the console, events of the session, the machine       *)
(* itself.  A handle that was revoked, or that belongs to another process, *)
(* consumes nothing.                                                       *)
ConsumedWithAuthority ==
    /\ com2' < com2 => <<process, "console">> \in seen.held
    /\ input' < input => <<process, "input">> \in seen.held
    /\ mode' = "reboot" /\ mode # "reboot" => <<process, "control">> \in seen.held

(* A call that reports failure has consumed nothing; a mutation that was   *)
(* not made durable is reported as a failure.                              *)
FailureConsumesNothing ==
    /\ com2' < com2 => gate'.last = "Data"
    /\ input' < input => gate'.last = "Data"
    /\ objects'.ram # objects.ram =>
          (gate'.last = "OK") = (objects'.disk = objects'.ram)

(* Only a graph process ends by the exit call: the shell and a returnable  *)
(* process are never taken to safe idle by it.                             *)
OnlyGraphsExit ==
    seen'.exits > seen.exits => um.kind \in {"PythGraphRuntime", "PythNativeGraph"}
=============================================================================

---------------------------- MODULE BootSequence ----------------------------
(* pythcore_entry: one long function that brings the kernel up, with a       *)
(* different tail for every build of the kernel image.  Each tail is a list  *)
(* of instructions that an interpreter executes one at a time, because what  *)
(* can go wrong is their order: page table roots are built by one stage,     *)
(* switched to by another and given back by a third; a ring 3 proof leaves   *)
(* its result in a local that is looked at only after the kernel root is     *)
(* back; and device windows exist only in the roots that were told of them.  *)
(*                                                                           *)
(* Serial markers, colours and diagnostics are left out: every check below   *)
(* that passes prints one.  A check that fails prints PYTHOS:PANIC (or a     *)
(* more precise line) and leaves through qemu_exit::panic.  Stages that an    *)
(* optional feature adds (evidence log, SDHCI backend) are all included.     *)
EXTENDS Naturals, Sequences, FiniteSets

CONSTANTS Kinds,      \* the builds explored: feature sets of Cargo.toml
          Modes,      \* graph modes of the control sector, in the graph build
          Devices     \* MMIO devices the machine may have

VARIABLES image,      \* the features compiled in, and the graph mode on disk
          pc,         \* the next instruction of the image's script
          root,       \* the page table root in CR3
          maps,       \* root |-> the device windows mapped in it
          isolated,   \* roots whose isolation was validated
          reclaimed,  \* roots whose frames went back to the allocator
          found,      \* devices the PCI probes found
          disk,       \* the block device selected
          ready,      \* facilities and stages that completed
          result,     \* ring 3 proofs whose error nobody has looked at yet
          failed,     \* hard stages and proofs that failed (history)
          outcome

vars == <<image, pc, root, maps, isolated, reclaimed, found, disk, ready,
          result, failed, outcome>>

Roots == {"loader", "kernel", "user", "service_a", "service_b", "process",
          "elf", "elf_fault", "elf_pointer", "elf_hardware", "probe",
          "shell", "session", "graph"}

Images == (Kinds \X {"none"}) \cup ({"graph"} \X Modes)

Outcomes == {"running", "success", "panic", "fault", "spin", "shell", "session", "graph"}

(***************************************************************************)
(* Instructions.                                                           *)
(***************************************************************************)

I(op, arg, devs) == [op |-> op, arg |-> arg, devs |-> devs]

(* A list of checks, each fatal: if stage().is_err() { PANIC }. *)
Checks(stages) == [n \in 1..Len(stages) |-> I("check", stages[n], {})]

(* Switch to a root, run a ring 3 proof, and restore the kernel root before *)
(* anything looks at the result.                                            *)
ProofUnder(r, proof) ==
    <<I("activate", r, {}), I("ring3", proof, {}), I("activate", "kernel", {})>>

(* if result.is_err() { PANIC }, for the results of one or more proofs. *)
Verdict(proofs) == <<I("verdict", "proofs", proofs)>>

(* Mutant: the proof's early return leaves the user root in CR3. *)
UserProofNotRestored(r, proof) ==
    <<I("activate", r, {}), I("ring3", proof, {})>> \o Verdict({proof})

UserProof(r, proof) == ProofUnder(r, proof) \o Verdict({proof})

(***************************************************************************)
(* The prefix every image shares, and the tails of the verify images.      *)
(***************************************************************************)

Prefix == Checks(<<"boot_info", "evidence_attach", "physical_memory", "gdt", "idt">>)

VerifyPrelude == Checks(<<"entry_hardening", "interrupts">>)

DeviceProbes ==
    <<I("probe", "hda", {}), I("probe", "ahci", {}), I("probe", "sdhci", {}),
      I("build", "kernel", {"hda", "ahci", "sdhci"})>>

(* A finite probe: the smallest kernel root, the probe's own root prepared *)
(* while the loader's identity map still reaches every frame, and only the *)
(* facilities that a returning ring 3 program needs.                       *)
ProbeKernelRoot == <<I("build", "kernel", {})>>

ProbePrepare == <<I("build", "probe", {}), I("isolate", "probe", {})>>

ProbeTail ==
    <<I("activate", "kernel", {})>>
    \o Checks(<<"validate_active", "identity_map_removed", "stack_guards">>)
    \o <<I("setup", "syscall", {})>> \o Checks(<<"user_stacks">>)
    \o UserProof("probe", "probe_program")
    \o <<I("exit", "success", {})>>

UserRoots ==
    <<I("build", "user", {}), I("build", "service_a", {}), I("build", "service_b", {}),
      I("build", "process", {}), I("build", "elf", {}), I("build", "elf_fault", {}),
      I("build", "elf_pointer", {}), I("build", "elf_hardware", {}),
      I("isolate", "user", {}), I("isolate", "service_a", {}), I("isolate", "service_b", {}),
      I("isolate", "process", {})>>

KernelSwitch == <<I("activate", "kernel", {})>> \o Checks(<<"evidence_rebase", "validate_active">>)

VirtioNetTail == Checks(<<"virtio_net_probe">>) \o <<I("exit", "success", {})>>

KernelFacilities ==
    <<I("touch", "sdhci", {})>>
    \o Checks(<<"identity_map_removed", "stack_guards", "boot_metadata", "timer", "clock",
                "tasks", "kernel_stacks", "context_switch", "scheduler", "idle", "preemption",
                "termination", "acceptance">>)

ServiceStages ==
    Checks(<<"service_identity", "ipc_channels", "bounded_queues", "request_reply",
             "capability_handles", "shared_memory", "permission_validation", "revocation",
             "negative_authorization", "audit", "init_payload", "interpreter", "system_api",
             "value_validation", "service_manager", "exception_containment", "service_restart",
             "async_events">>)

InteractiveStages ==
    Checks(<<"input_drivers", "input_events", "software_renderer", "font_system", "compositor",
             "window_interaction", "widgets", "shell_apps">>)
    \o <<I("touch", "hda", {}), I("soft", "hda_output", {})>>
    \o Checks(<<"audio_device", "audio_driver", "audio_buffers", "pcm", "mixing", "boot_assets",
                "cinematic", "graceful_fallback">>)

StorageStages ==
    <<I("select", "block_device", {}), I("touch", "disk", {})>>
    \o Checks(<<"storage_service", "journal", "commit_markers", "crash_recovery", "typed_objects",
                "relationships", "revision_history", "workspace_objects", "object_browser">>)
    \o <<I("touch", "disk", {})>> \o <<I("window", "kill_window", {})>> \o Checks(<<"persistent_objects">>)

(* The first ring 3 proof runs under the kernel root itself, the others     *)
(* under the user root; the system call proof sets up the gate on the way.  *)
RingThreeStages ==
    <<I("ring3", "user_mode", {})>> \o Verdict({"user_mode"})
    \o UserProof("user", "isolated_user")
    \o UserProof("user", "syscall_entry")
    \o Checks(<<"user_stacks">>)
    \o <<I("activate", "user", {}), I("inspect", "stack_protections", {}),
         I("ring3", "guarded_stack", {}), I("activate", "kernel", {})>>
    \o Verdict({"stack_protections", "guarded_stack"})

ProcessStages ==
    Checks(<<"service_runtimes", "guarded_shared_memory">>)
    \o <<I("reclaim", "process", {})>>
    \o Checks(<<"reclaim_accounting", "process_termination", "memory_quota", "cpu_quota">>)

(* Each user fault is contained once more in the process table. *)
FaultStages ==
    UserProof("user", "illegal_instruction") \o Checks(<<"crash_containment">>)
    \o UserProof("user", "bad_pointer") \o Checks(<<"bad_pointer_containment">>)

BoundaryStages ==
    Checks(<<"capability_boundary", "user_elf_rejection", "general_syscall_abi", "user_copy">>)

DynamicStages ==
    Checks(<<"dynamic_capabilities", "process_launch">>)
    \o UserProof("elf_fault", "dynamic_fault")

(* Three dynamic programs run before their results are judged together. *)
AdversarialStages ==
    ProofUnder("elf", "dynamic_program")
    \o ProofUnder("elf_pointer", "dynamic_bad_pointer")
    \o ProofUnder("elf_hardware", "dynamic_hardware")
    \o Verdict({"dynamic_program", "dynamic_bad_pointer", "dynamic_hardware"})
    \o Checks(<<"forged_capability", "bad_syscall_pointer">>)

FinalStages ==
    <<I("touch", "disk", {})>>
    \o Checks(<<"block_allocator", "dynamic_objects", "fragmentation", "storage_quotas",
                "storage_concurrency">>)
    \o <<I("touch", "disk", {})>>
    \o Checks(<<"general_persistence", "storage_adversarial", "locator", "locator_adversarial">>)

PackageTail == <<I("touch", "disk", {})>> \o Checks(<<"package_acceptance", "restore_stack">>) \o <<I("exit", "success", {})>>

MilestoneTail == Checks(<<"storage_screen", "evidence_snapshot", "evidence_terminal", "nothing_dropped">>) \o <<I("exit", "success", {})>>

VerifySequence ==
    Prefix \o VerifyPrelude \o DeviceProbes \o UserRoots \o KernelSwitch \o KernelFacilities
    \o ServiceStages \o InteractiveStages \o StorageStages \o RingThreeStages \o ProcessStages
    \o FaultStages \o BoundaryStages \o DynamicStages \o AdversarialStages \o FinalStages

(***************************************************************************)
(* The normal images.                                                      *)
(***************************************************************************)

(* The windows of the block drivers, handed to every root that will be in   *)
(* CR3 while a system call writes an object.                                *)
SupervisorMappings == {"ahci", "sdhci"}

NormalRoots(normal_session) ==
    Checks(<<"shell_program">>)
    \o <<I("probe", "ahci", {}), I("probe", "sdhci", {})>>
    \o (IF normal_session
        THEN <<I("build", "shell", SupervisorMappings), I("isolate", "shell", {}),
               I("prepare", "session", {}), I("build", "kernel", {"ahci", "sdhci"})>>
        ELSE <<I("build", "kernel", {"ahci", "sdhci"}),
               I("build", "shell", SupervisorMappings), I("isolate", "shell", {})>>)

NormalFacilities ==
    <<I("activate", "kernel", {}), I("touch", "sdhci", {})>>
    \o Checks(<<"interrupts", "timer", "clock", "tasks", "kernel_stacks">>)
    \o <<I("setup", "syscall", {})>> \o Checks(<<"user_stacks">>)
    \o <<I("select", "block_device", {})>>

RestoreServices == <<I("touch", "disk", {})>> \o Checks(<<"object_service", "package_service">>)

(* Cinematic and sound are best effort; a PS/2 controller that does not    *)
(* come up is skipped, one that does is waited on until a click arrives.   *)
Presentation ==
    <<I("soft", "cinematic", {}), I("soft", "ps2", {}), I("wait", "click", {}), I("soft", "keyboard", {})>>

ShellTail ==
    Presentation
    \o Checks(<<"shell_process", "bind_shell_process", "bootstrap_block">>)
    \o <<I("activate", "shell", {}), I("enter", "shell", {})>>

ServiceLaunch == Checks(<<"service_packages_match", "supervisor_action">>)

GraphLaunch(mode) ==
    CASE mode = "default" -> ShellTail
      [] mode = "rejected" -> <<I("need", "rejection", {})>> \o ShellTail
      [] mode = "launch" -> <<I("need", "graph", {}), I("activate", "graph", {})>>
                            \o <<I("bind", "import", {}), I("enter", "graph", {})>>
      [] mode = "deferred" -> <<I("need", "graph", {})>> \o Checks(<<"deferred_capability">>)
                              \o <<I("activate", "graph", {}), I("bind", "import", {}), I("enter", "graph", {})>>
      [] mode = "late" -> <<I("build", "graph", {}), I("activate", "graph", {}),
                            I("bind", "import", {}), I("enter", "graph", {})>>

(* Graph roots are prepared beside the shell's, before the switch; one that *)
(* cannot be prepared is remembered as missing and not fatal.               *)
PrepareGraphs(mode) ==
    IF mode \in {"launch", "deferred"} THEN <<I("prepare", "graph", SupervisorMappings)>>
    ELSE IF mode = "rejected" THEN <<I("soft", "rejection", {})>> ELSE <<>>

NormalSequence(kind, mode) ==
    Prefix \o NormalRoots(kind = "normal_session") \o PrepareGraphs(mode) \o NormalFacilities
    \o (IF kind = "graph" THEN <<I("touch", "disk", {})>> \o Checks(<<"control_sector">>) ELSE <<>>)
    \o RestoreServices
    \o (CASE kind = "normal_session" -> <<I("soft", "cinematic", {}), I("enter", "session", {})>>
          [] kind = "pyth_services" -> ServiceLaunch \o ShellTail
          [] kind = "legacy_shell" -> ShellTail
          [] kind = "graph" -> GraphLaunch(mode))

Script(i) ==
    CASE i[1] = "verify" -> VerifySequence \o MilestoneTail
      [] i[1] = "phase13" -> VerifySequence \o PackageTail
      [] i[1] = "virtio_net" -> Prefix \o VerifyPrelude \o DeviceProbes \o UserRoots \o KernelSwitch \o VirtioNetTail
      [] i[1] = "probe" -> Prefix \o VerifyPrelude \o ProbeKernelRoot \o ProbePrepare \o ProbeTail
      [] OTHER -> NormalSequence(i[1], i[2])

(***************************************************************************)
(* The interpreter.                                                        *)
(***************************************************************************)

Here(op) == outcome = "running" /\ Script(image)[pc].op = op

Arg == Script(image)[pc].arg

Step == pc' = pc + 1

Panic(what) == /\ failed' = failed \cup {what}
               /\ outcome' = "panic"

Init ==
    /\ image \in Images
    /\ pc = 1 /\ root = "loader" /\ maps = [r \in {"loader"} |-> {}]
    /\ isolated = {} /\ reclaimed = {} /\ found = {} /\ disk = "none"
    /\ ready = {} /\ result = {} /\ failed = {} /\ outcome = "running"

Check ==
    /\ Here("check")
    /\ \/ Step /\ ready' = ready \cup {Arg} /\ UNCHANGED <<failed, outcome>>
       \/ Panic(Arg) /\ UNCHANGED <<pc, ready>>
    /\ UNCHANGED <<image, root, maps, isolated, reclaimed, found, disk, result>>

(* syscall::initialize cannot fail. *)
Setup ==
    /\ Here("setup") /\ Step
    /\ ready' = ready \cup {Arg}
    /\ UNCHANGED <<image, root, maps, isolated, reclaimed, found, disk, result, failed, outcome>>

(* When the test bench asks for it, the store proof stops and waits to be   *)
(* killed.                                                                  *)
Window ==
    /\ Here("window")
    /\ \/ Step /\ UNCHANGED outcome
       \/ outcome' = "spin" /\ UNCHANGED pc
    /\ UNCHANGED <<image, root, maps, isolated, reclaimed, found, disk, ready, result, failed>>

Soft ==
    /\ Here("soft") /\ Step
    /\ ready' \in {ready, ready \cup {Arg}}
    /\ UNCHANGED <<image, root, maps, isolated, reclaimed, found, disk, result, failed, outcome>>

Probe ==
    /\ Here("probe")
    /\ \/ Step /\ found' \in {found, found \cup ({Arg} \cap Devices)} /\ UNCHANGED <<failed, outcome>>
       \/ Arg = "sdhci" /\ Panic("sdhci_probe") /\ UNCHANGED <<pc, found>>
    /\ UNCHANGED <<image, root, maps, isolated, reclaimed, disk, ready, result>>

Build ==
    /\ Here("build")
    /\ \/ /\ Step
          /\ maps' = [r \in DOMAIN maps \cup {Arg} |->
                        IF r = Arg THEN Script(image)[pc].devs \cap found ELSE maps[r]]
          /\ UNCHANGED <<failed, outcome>>
       \/ Panic(Arg) /\ UNCHANGED <<pc, maps>>
    /\ UNCHANGED <<image, root, isolated, reclaimed, found, disk, ready, result>>

(* prepare and store_pyth_runtime_launch: the root may not come about. *)
Prepare ==
    /\ Here("prepare") /\ Step
    /\ \/ UNCHANGED <<maps, isolated>>
       \/ /\ maps' = [r \in DOMAIN maps \cup {Arg} |->
                        IF r = Arg THEN Script(image)[pc].devs \cap found ELSE maps[r]]
          /\ isolated' = isolated \cup {Arg}
    /\ UNCHANGED <<image, root, reclaimed, found, disk, ready, result, failed, outcome>>

(* let Some(launch) = ... else { PANIC } *)
Need ==
    /\ Here("need")
    /\ IF Arg \in DOMAIN maps \cup ready
       THEN Step /\ UNCHANGED <<failed, outcome>>
       ELSE Panic("missing_launch") /\ UNCHANGED pc
    /\ UNCHANGED <<image, root, maps, isolated, reclaimed, found, disk, ready, result>>

Isolate ==
    /\ Here("isolate")
    /\ \/ Step /\ isolated' = isolated \cup {Arg} /\ UNCHANGED <<failed, outcome>>
       \/ Panic(Arg) /\ UNCHANGED <<pc, isolated>>
    /\ UNCHANGED <<image, root, maps, reclaimed, found, disk, ready, result>>

(* activate loads CR3: a root that is not there, or whose frames were given *)
(* back, faults on the next fetch.                                          *)
Activate ==
    /\ Here("activate")
    /\ IF Arg \in DOMAIN maps \ reclaimed
       THEN Step /\ root' = Arg /\ UNCHANGED outcome
       ELSE outcome' = "fault" /\ UNCHANGED <<pc, root>>
    /\ UNCHANGED <<image, maps, isolated, reclaimed, found, disk, ready, result, failed>>

(* A ring 3 proof leaves its verdict in a local. *)
RingThree ==
    /\ Here("ring3") /\ Step
    /\ \/ UNCHANGED <<result, failed>>
       \/ result' = result \cup {Arg} /\ failed' = failed \cup {Arg}
    /\ UNCHANGED <<image, root, maps, isolated, reclaimed, found, disk, ready, outcome>>

(* Reading the page tables of the user root, which only that root maps. *)
Inspect ==
    /\ Here("inspect")
    /\ \/ Step /\ UNCHANGED <<result, failed>>
       \/ pc' = pc + 2 /\ result' = result \cup {Arg} /\ failed' = failed \cup {Arg}
    /\ UNCHANGED <<image, root, maps, isolated, reclaimed, found, disk, ready, outcome>>

Judge ==
    /\ Here("verdict")
    /\ IF result \cap Script(image)[pc].devs # {}
       THEN Panic(Arg) /\ UNCHANGED pc
       ELSE Step /\ UNCHANGED <<failed, outcome>>
    /\ result' = result \ Script(image)[pc].devs
    /\ UNCHANGED <<image, root, maps, isolated, reclaimed, found, disk, ready>>

Reclaim ==
    /\ Here("reclaim")
    /\ \/ Step /\ reclaimed' = reclaimed \cup {Arg} /\ UNCHANGED <<failed, outcome>>
       \/ Panic(Arg) /\ UNCHANGED <<pc, reclaimed>>
    /\ UNCHANGED <<image, root, maps, isolated, found, disk, ready, result>>

(* select_device: virtio first (port I/O), then AHCI, then SDHCI. *)
Select ==
    /\ Here("select")
    /\ \/ /\ Step
          /\ disk' \in {"virtio"} \cup (IF "ahci" \in found THEN {"ahci"} ELSE {"sdhci"} \cap found)
          /\ UNCHANGED <<failed, outcome>>
       \/ Panic(Arg) /\ UNCHANGED <<pc, disk>>
    /\ UNCHANGED <<image, root, maps, isolated, reclaimed, found, ready, result>>

(* A driver reads a register through its fixed virtual window. *)
Touch ==
    /\ Here("touch")
    /\ LET d == IF Arg = "disk" THEN disk ELSE Arg
       IN  IF d \in found /\ d \notin maps[root]
           THEN outcome' = "fault" /\ UNCHANGED pc
           ELSE Step /\ UNCHANGED outcome
    /\ UNCHANGED <<image, root, maps, isolated, reclaimed, found, disk, ready, result, failed>>

(* run_until_click polls the controller that came up, without a limit. *)
Wait ==
    /\ Here("wait")
    /\ \/ Step /\ UNCHANGED <<failed, outcome>>
       \/ "ps2" \in ready /\ Panic(Arg) /\ UNCHANGED pc
    /\ UNCHANGED <<image, root, maps, isolated, reclaimed, found, disk, ready, result>>

(* bind_deferred_import_after_activation, the one check made under a user   *)
(* root: the import is written through that root's alias.                   *)
Bind ==
    /\ Here("bind")
    /\ \/ Step /\ ready' = ready \cup {Arg} /\ UNCHANGED <<failed, outcome>>
       \/ Panic(Arg) /\ UNCHANGED <<pc, ready>>
    /\ UNCHANGED <<image, root, maps, isolated, reclaimed, found, disk, result>>

Leave ==
    /\ outcome = "running" /\ Script(image)[pc].op \in {"exit", "enter"}
    /\ outcome' = Arg
    /\ UNCHANGED <<image, pc, root, maps, isolated, reclaimed, found, disk, ready, result, failed>>

Ended == outcome # "running" /\ UNCHANGED vars

Next ==
    \/ Check \/ Setup \/ Window \/ Soft \/ Probe \/ Build \/ Prepare \/ Need \/ Isolate \/ Activate
    \/ RingThree \/ Inspect \/ Judge \/ Reclaim \/ Select \/ Touch \/ Wait \/ Bind
    \/ Leave \/ Ended

Spec == Init /\ [][Next]_vars

(* The boot processor runs whatever comes next, except that a click comes  *)
(* from a person: waiting for it may last.                                  *)
Waiting == Here("wait") /\ "ps2" \in ready

-----------------------------------------------------------------------------
TypeOK ==
    /\ image \in Images /\ pc \in 1..Len(Script(image))
    /\ root \in DOMAIN maps /\ DOMAIN maps \subseteq Roots
    /\ \A r \in DOMAIN maps : maps[r] \subseteq Devices
    /\ isolated \subseteq Roots /\ reclaimed \subseteq Roots /\ found \subseteq Devices
    /\ disk \in {"none", "virtio"} \cup Devices
    /\ result \subseteq failed /\ outcome \in Outcomes

(* Kernel stages that follow the switch run under the kernel root: every    *)
(* check, verdict, reclaim and driver access does, whatever the ring 3      *)
(* proof before it answered, and so does the panic exit of a failed proof.  *)
KernelWorkUnderKernelRoot ==
    root # "loader" =>
      (\A op \in {"check", "verdict", "reclaim", "select", "touch", "soft", "wait"} :
         Here(op) => root = "kernel")

(* No instruction switches to a root that is missing or given back, and no  *)
(* driver reads a window the current root does not map, on any combination  *)
(* of devices.                                                              *)
NoKernelFault == outcome # "fault"

(* A success exit, and the entry into any persistent program, means that    *)
(* no hard stage and no ring 3 proof failed on the way.                     *)
HonestEnd == outcome \notin {"running", "panic", "fault", "spin"} => failed = {}

(* Ring 3 is entered only with traps installed, never under the loader's    *)
(* root, and a program that makes system calls finds its gate and its       *)
(* guarded stacks prepared; user roots were checked for isolation, or (the  *)
(* dynamic programs) their entry was validated as they were built.          *)
RingThreePrepared ==
    /\ Here("ring3") =>
         /\ root # "loader" /\ root \notin reclaimed /\ {"gdt", "idt"} \subseteq ready
         /\ Arg = "probe_program" => {"syscall", "user_stacks"} \subseteq ready
         /\ root \in {"user", "probe"} => root \in isolated
    /\ outcome \in {"shell", "graph", "session"} =>
         {"idt", "interrupts", "timer", "clock", "tasks", "kernel_stacks", "syscall",
          "user_stacks", "object_service", "package_service"} \subseteq ready

(* The program that owns the machine after boot can reach the disk: its     *)
(* system calls run under its own root, so that root maps the window of the *)
(* selected device.  The late graph writes nothing.                         *)
ProgramReachesDisk ==
    outcome \in {"shell", "graph"} /\ image[2] # "late" =>
      disk \in {"virtio"} \cup maps[root]

=============================================================================

# PythOS: a TLA+ verification project

PythOS is a single-core x86-64 operating system in Rust. A UEFI loader (`boot/`) starts
a kernel (`core/`) that keeps a small typed object store on a block device, runs ring 3
processes that reach it through system calls guarded by capabilities, manages tasks
proposed by an assistant process, installs packages, executes graph programs
(`shared/pyth_tig`, `user/pyth-runtime`) and drives storage, input, audio and network
devices. Many boot images are finite: they run one proof or probe, print markers and end.

This directory holds TLA+ models of the parts whose correctness depends on orders of
events that tests hardly produce, the TLC runs that check them, and proofs checked by
TLAPS. `PROJECT.json` maps every definition to the lines it models, lists the hazards at
their lines, and gives for each property a mutant: a mapped definition with a plausible
mistake, under which TLC finds the property violated.

## Inventory

| component | state it keeps | operations | what is hard |
|---|---|---|---|
| object checkpoint | two ordinary and two candidate slots of sectors | write, write candidate, read back, recover | a stop between two sector writes; a write refused, torn or lost |
| object service | five bounded tables, quotas, capabilities, counters; a checkpoint of some of them | create, query, inspect, revise, history | memory ahead of the disk after a failed store; a boot that restores some state and starts other state afresh; tables that fill half way through a call |
| task service | tasks, proposals, events and relations kept as objects | propose, approve, reject, suspend, revive, complete, ... | an operation on several objects of which one fails |
| names | records, relationships, revision histories | bind, resolve a locator, revise, browse | resolution through several records under changing authority |
| packages | registry, content, candidates, anchors, contexts | prepare, publish, disable, uninstall, launch, recover | two pairs of slots written apart and read together; an error reported for a write that lands |
| graph runtime | a package, a bootstrap block, an interpreter | verify, bind imports, enter, interpret | the interpreter trusts what the verifier checked |
| system call boundary | a dozen flags: caller, recovery point, armed trap, reports | enter, trap, fault, call, exit | flags of an earlier entry found by a later one |
| processes, IPC, quotas | identities, processes, grants, rings, regions | spawn, grant, send, receive, charge, end | a spawn whose later step fails; wrap of a shared ring |
| sessions | an input ring, a presenter, four capabilities | publish, wait, draw, recover | an interrupt between a test and a sleep; a ring that fills |
| scheduler | contexts, the run queue, step flags | switch, tick | the timer interrupting a switch |
| memory | bitmap of frames, page tables, copy map | allocate, build, activate, reclaim | a build that fails half way; who owns a frame |
| block, eMMC drivers | rings, command tables, one buffer | read, write a sector | a time-out racing a late completion |
| network port | virtio rings, capabilities of one consumer | send, receive, reset, revoke | the device working on the rings at the same time |
| network protocols | scripts of frames, a TCP client | connect, read, write, close | loss, repetition, swapping, damage |
| input drivers | decoders, the 8042, xHCI rings | bring-up, interrupts, polls | bytes of a device that look like the controller's answer; cycle bits |
| audio | HDA and AC97 rings | bring-up, play, mix | engines that fetch while the driver writes |
| boot | the loader's tables, the kernel's stages and roots | load, map, start | the memory map changing under the loader; a stage under the wrong root |
| hardware probes | the PCI walk, BARs, capability lists | scan, read, enable | bridge loops, malformed lists |

The kernel handles one system call at a time on one core. Hard orders come from a stop of
the machine between two sector writes, from devices that work beside the driver, from
interrupts between any two steps, from operations retried after an error whose effect is
unknown, and from callers of different authority taking turns.

Correct means, for each: what was reported as done is so after any later stop; tables that
describe the same things agree; no order of calls yields authority nobody granted; what a
driver hands up is what the device meant, once and in order; a marker is printed only over
a true statement; and every wait the code bounds ends.

## Modules

One module per component. State and actions carry the names of the source where TLA+
allows it; a definition with "mutant" in its comment, or defined just before the one it
varies and used nowhere, belongs to the mutants of `PROJECT.json`.

| module | models |
|---|---|
| `AtomicCheckpoint` | abstract: one register with begin, install, confirm, abandon |
| `ObjectCheckpoint` | `object_service_checkpoint.rs`: one action per sector write, its loss, its refusal, the read-back, crash, boot |
| `ObjectCheckpointProofs` | theorems about `ObjectCheckpoint` |
| `ObjectService` | `object_service.rs` with its tables; the persist after each call over the register of `AtomicCheckpoint` |
| `ObjectServiceProofs` | theorem about `ObjectService` |
| `TaskService` | `task_service.rs`: a staged copy with a `result` that plays the part of `?` |
| `TaskServiceProofs` | theorem about `TaskService` |
| `ObjectNamespace` | `object_locator.rs`, `object_relationships.rs`, `revision_history.rs`, `typed_object_format.rs`, `workspace_objects.rs`, `object_browser.rs` |
| `PackagePublication` | the durable side of `package_service.rs`: one action per slot or extent written |
| `PackageRegistry` | record tables and content blocks of `package_registry.rs`, `package_content_store.rs` |
| `PackagePublicationProofs` | theorem about `PackagePublication` |
| `PackageAcceptance` | `package_acceptance.rs`, driving `PackagePublication` over several boots |
| `TigVerifier`, `TigRuntime` | `shared/pyth_tig`; launch and interpreter |
| `CapabilityTable` | `capabilities.rs`, operators used by the modules that own a table |
| `UserBoundary` | `user_mode.rs`, `syscall.rs`, `process_context.rs`, `exceptions.rs` |
| `KernelIpc` | `ipc_channels.rs`, `permission_validation.rs`, `shared_memory.rs`, `resource_quotas.rs`; theorem |
| `ServiceProcesses` | `service_identity.rs`, `dynamic_capabilities.rs`, `process*.rs`, `service_manager.rs` |
| `NormalSession`, `SessionRuntime` | the retained session up to the recovery shell, with every return reason and a return whose record does not validate; the three finite session proofs |
| `Scheduler` | `scheduler.rs`, `context_switch.rs`, the timer handler |
| `AddressSpace` | `memory/physical.rs`, `memory/virtual.rs`, `user_elf.rs`, `user_copy.rs` |
| `SectorStore` | abstract: what a caller of `read_sector` and `write_sector` may rely on |
| `BlockDevice` | `block_device.rs`: virtio and AHCI with the device; theorem |
| `SdhciEmmc` | `sdhci.rs`, `sdhci_emmc.rs` with host and card |
| `StorageAllocator`, `StorageJournal` | allocator, journals, write gate, quotas of the storage self tests |
| `SnapshotWindow` | `persistent_objects.rs`, `general_storage_persistence.rs`, and theorems |
| `NetworkPort` | `network_port.rs`, `virtio_net.rs` and the system call in front |
| `NetworkProbe`, `TcpStream` | the nine protocol probes; the TCP client of `user/probes/socket` |
| `KeyboardInput`, `Ps2Controller`, `UsbProbeBoot`, `XhciDriver` | the input drivers |
| `AudioDevice` | `audio.rs` with its DMA engines |
| `BootLoader`, `BootSequence` | `boot/`; `pythcore_entry` for every image |
| `PciDiscovery`, `NetworkHardwareProbe` | the diagnostic images |

### Composition

`ObjectService` uses the register that `ObjectCheckpoint` is shown to implement, so the
sectors do not appear in it; `TaskService` and `PackagePublication` use the same two
outcomes of a store. `BlockDevice` and `SdhciEmmc` implement one `SectorStore`.
`PackageAcceptance` extends `PackagePublication`. `TigRuntime` extends `TigVerifier`.

Six suites (`MCNetwork`, `MCStorage`, `MCObjects`, `MCPackages`, `MCBoot`, `MCProcesses`) instantiate the components for TLC. A behaviour of a suite exercises one
part: the initial state chooses `part`, the other components rest at `Off`. The state graph
is the disjoint union of the graphs of the parts, so a suite property "part = x => P" says
of instance x what a run of its own would. This is sound because the code runs these
components in different boot images, or one after another to their ends, or behind calls
that do not overlap; where two interact they are in one module or extend each other.

### Abstractions

* Contents of objects, frames and programs are left out except what a property tells
  apart: the schema reference of a package-defined object, the number of a frame, the
  classes of ELF segment a validator distinguishes.
* Checksums and digests are collision free: a header records what it was computed over.
* A torn sector decodes as nothing. In `ObjectCheckpoint` a sector is the unit; in
  `PackagePublication` a slot or extent is, because each is readable only whole. In
  `SnapshotWindow` a sector write leaves the old or the new sector: a tail sector half
  cleared would be refused by every later boot.
* A device error is reported for a write that was refused or torn, for one that landed, or for
  the reading back of one that landed; with `LateErrors` false (`PackagePublication`) the
  last two do not happen to the anchor, which is what the schema properties need.
* Registers report what the source tests: an issued AHCI command keeps the port busy from the
  moment the device has taken it (`Busy`), an eMMC card never fails to program, because the
  driver ignores the R1 error bits that would say so.
* Inputs are bounded to what the source can tell apart: a proposal names a task or none,
  not an id a task gets only later; the session console receives the bytes of a short line; descriptors
  of one memory map do not overlap.
* Object service capabilities carry read and write and are not revoked outside tests, so
  a capability there is a pair of holder and object.
* Devices, firmware, keyboard, peer and wire are environments (marked external in the
  map), free to act in any order, including the faults named in each module.

## Runs

Passing runs and their sizes:

| run | distinct states | what it checks |
|---|---|---|
| `checkpoint_lossy` | 998,000 | two contents, four generations, so each slot is rewritten, beside candidates of two generations that share a slot; a write may be refused, torn or (one per operation) lost: `AckedRecoverable`, `CandidateReadableByIdentity` |
| `checkpoint_exact` | 58,000 | a device that keeps what it acknowledges: `ImplementsRegister`, `RestoredNeverRegresses`, `WriterFinishes` |
| `objects` | 820,000 | `ObjectsSafe`, `TasksSafe`, `NamesExact`, `RegistryConsistent`, `ObjectSteps`; deadlock checked |
| `publication` | 820,000 | `PackagePublication` with device errors that may be reported for a write that did land: `PublicationSafe` |
| `packages` | 600,000 | `PackagePublication` without such errors and the acceptance scenarios: `WorldsSound`; the graphs: `GraphsSound`, `PackageProgress` |
| `network` | 488,000 | `PortExact`, `ProbesHonest`, `StreamExact`, `NetworkProgress` |
| `snapshot_window` | 4,300 | two proofs, two arms, three faults: `WindowInv` |
| `storage` | 822,000 | `StoreImplemented`, `SelfTestsExact`, `DiscoveryExact`, `StorageProgress` |
| `boot` | 630,000 | `LoaderSafe`, `BootSafe`, `SpacesSafe`, `SchedulerSafe`, `AudioSafe`, `KeyboardExact`, `Ps2Exact`, `UsbExact`, `BootProgress` |
| `processes` | 901,000 | `BoundarySafe`, `IpcExact`, `ServicesSafe`, `SessionsSafe`, `ProcessSteps`, `ProcessProgress` |

A suite property is the conjunction of the properties its components define; each has its
own comment in the component. Deadlock is checked in `objects`, where the machine can always
stop and start, in `snapshot_window` and in the checkpoint runs; elsewhere images end, or
the bound on generations ends an install.

With lost writes the register refinement does not hold and is not claimed: an attempt whose
invalidation was lost and that then failed can be completed by the remains of a later one.

### Bounds, and why they are enough

* Tables have two to five entries, so that each can be full before every other; rings two
  or three, so that they wrap; indices and generations wrap at 4 where the code has 2^16 or
  2^32. `NetworkPort` has three capability slots, `TaskService` seven objects, so that an
  approval can fail at each of its steps.
* Poll budgets are 2 or 3 (`PollLimit` for 100,000,000, `WaitLimit` for 100,000,
  `SpinBudget` for 1,000,000): the code only tests whether the budget is used up, so two
  reads that fail and one more tell all cases apart.
* `PackagePublication` has two packages, two content blocks and four generations, so
  that each slot of each pair is reused.
* `TcpStream` is run twice: one flight of three bytes and one fault, flights of two with
  two faults; a fault is a segment lost, repeated, swapped or damaged, or a send that fails.
  A wait takes a bounded number of segments (`MAX_RECEIVE_POLL_ATTEMPTS`). `NetworkProbe` has two faults of the wire.
* `UserBoundary` is run twice: with one capability slot and object calls, and
  (`BoundaryWait`) with two slots and none, so that a session can hold the two grants its
  wait needs.
* `KeyboardInput`: a key log of 10 for 12 in the part that overruns it. Sessions: five
  keys through a ring of three, the least with which a lost event could splice an
  activation together; keys and motions in a part of their own.
* `BootLoader`: a page is two bytes, a page table three entries, a GiB two page tables, 24
  frames, four machines: `big` and `small` with memory where the loader expects it, `low` with
  memory below 2 MiB and `old` with memory above 4 GiB and no 1 GiB pages, on which the switch
  of tables may end in `faulted`. `AddressSpace`: two levels of tables for four.
* `PciDiscovery`: three buses of two devices of two functions, a report of two, every
  topology with loops and shared secondary buses; recursion is a stack.
  `NetworkHardwareProbe`: three BAR slots, 64-value dwords, a window of 32 bytes, every
  capability list over three offsets.
* `UsbProbeBoot`: samples, attempts and reports scaled to two or three; `level` stands for
  the cargo features.
* Graphs (families in `MCPackages`): every wiring of three blocks and a family of four, the smallest
  with which one dominator sweep is not enough; every program shape the repository ships
  with every one-field change.

### Fairness

Fairness is put on code that runs, never on a device, a user or a failure.

* `ObjectCheckpoint`: weak fairness of the next sector write, the read-back and the boot. A
  checkpoint is one synchronous call on one core; a stopped machine is started again.
* Suites: weak fairness of the driver, kernel or process of each part, which nothing can
  suspend for ever on one core, and of a conforming peer. `KernelIpc`: of each side's
  receive. `Scheduler`: strong fairness of the switch, because timer interrupts may come
  again and again in between. `BootLoader`: of the loader only, not of firmware events.
  `BootSequence`: all but the click it waits for. `UsbProbeBoot`: all but the activation
  keys. `PackageAcceptance`: of the driver and of the harness that cuts the power where a
  scenario asks for it.

### Disagreements found

Two runs show a document contradicted by the code:

* `timestamps_after_boot`: the timestamp counter restarts at 1, so an object revised before
  a reboot cannot be revised after it until the counter has caught up.
* `tcp_fin_out_of_turn`: `wait_for_ack` counts a FIN whatever its sequence number; a FIN
  that overtakes data makes the client skip a byte.

Others were met while modelling. The models follow the code; properties are stated so that
they hold of it, and where one is restricted for it its comment says so:

* `object_service.rs:330`: quotas start empty at a boot while a query lists the first
  entries only, so notes beyond them cannot be reopened (ADR 0051: "shell can reopen
  reachable objects").
* `object_service.rs:404`: a field revision of a package-defined object drops its schema
  reference; the next boot stops in reconciliation.
* `package_content_store.rs:471`: after a boot a prepared candidate cannot be published,
  because contents restored from the device are not in the byte cache.
* `block_device.rs:480`: an uninstall whose anchor write times out but lands reclaims a
  schema that a running process may still use.
* `block_device.rs:586`: a timed-out AHCI command is not stopped, and the next request
  fills the shared buffer before it waits: the earlier command may carry out the new
  contents. Hence the part "slow ahci" is checked to answer, not to implement the store.
* `main.rs:1984`: with HDA and AC97 both present, both play (ADR 0048 prefers HDA).
* `input_drivers.rs:340`: before the set is known, a set-1 byte that is no supported key
  but is a set-2 make code settles the wrong set.
* `physical_wake.rs:186`: a key that is no letter of `wake` is passed over, so W A X K E is
  accepted; ADR 0074 asks for the exact sequence. `WakeAgreesWithKeys` judges the keys the
  code listens to (`Heard`) and says so; `WakeSequenceExact` asks for the five keys one after
  another unless such a key or a Backspace was pressed since some W.
* `ps2.rs:386`: a mouse stream out of step by one byte need not resynchronise.
* `boot/src/paging.rs:116`: nothing below 2 MiB is identity mapped, nor above 4 GiB on a CPU
  without 1 GiB pages (134), and no allocation of the loader keeps away from either; lines
  6-10 promise the structures "wherever firmware allocated them". `HandoffReachable` states
  the restriction: what lies in the covered range is reachable, what does not is not, and a
  fault at the switch means the image, the boot info or the map lay outside.
* `virtio_net.rs:266`: a receive answered EMPTY publishes the previous buffer.
* `network_hardware_register_probe.rs:131`: a 64-bit BAR of value zero is mapped and read.
* `usb_xhci_probe.rs:776`: an odd CAPLENGTH makes every operational read unaligned.
* `tcp_probe.rs:112`: a probe that faults leaves the port's capabilities unrevoked.
* `scheduler.rs:604`: a tick between step and marker swaps two markers the boot test waits
  for in order.
* `context_switch.rs:172`: `popfq` enables interrupts on the stack being left; the odd/even
  steps keep the nested handler from switching (`ContextsKept`).
* `normal_session.rs:419`: a divide error of the session ends in the fatal stop, not in the
  recovery shell.
* `normal_init.rs:249`: a comment says a later build would fault; it succeeds through the
  scratch alias.
* `user/probes/session-input/src/main.rs:166`: the error exit spins without trapping.
* `user/probes/socket/src/secure.rs:221`: every read error is taken for tampering.
* `pyth_graph_loader.rs:149`: `PACKAGE_VALID` is printed without the profile check on the
  package path.
* `pyth_runtime_launch.rs:672`: only the first of two deferred workspace imports is bound.

## Proofs

TLC checks small instances; these theorems hold for every value of the constants that
satisfies the named assumptions.

### The checkpoint (`ObjectCheckpointProofs`)

For every number of table sectors, every set of contents, every bound on generations and
every set of candidate generations (assumptions: at least one table sector, a blank sector
that is not the torn one, the types of the bounds):

* `TypeCorrect`, `Durable`, `CandidateDurable`: `Spec => []TypeOK`, `[]AckedRecoverable`,
  `[]CandidateReadableByIdentity`, with and without lost writes.
* `NeverRegresses`, `RegisterImplemented`: with `~LossyDevice`,
  `Spec => RestoredNeverRegresses` and `Spec => ImplementsRegister`.

`AckedRecoverable` is not inductive: it says nothing about a slot half written. The
inductive invariant `IInv` adds that every header lies in the slot it is labelled with
(`HeadersInPlace`), that the slot being written agrees with the writer on every sector it
has passed, except the one that was lost (`WrittenSoFar`), that the writer works in the slot
of its generation, one above what the slot it spares decodes to (`WriterPlaced`), and that
the last reported checkpoint sits in a slot the writer does not touch (`Recovers`,
`CandidatesKept`). For the refinement `ExactInv` adds that nothing was lost. Then the slot
under construction decodes to nothing from the invalidation to the commit write and to the
intended checkpoint from then on (`SlotUnderConstruction`); so each sector write, finished
or cut short, leaves what a boot would restore alone or installs exactly the next
generation (`SectorEffect`), and the steps of a writer are Begin, stutters, one Install,
Confirm or Abandon of the register.

### The object service (`ObjectServiceProofs`)

* `ServiceDurable`: under `CapacityAssumption` and `IdAssumption`, for every set of ids and
  every capacity, `Spec` implies that `TypeOK`, `TablesAgree`, `SnapshotRestorable`,
  `AckedSurvives`, `HistoryComplete`, `NoForeignAuthority` and `AnswersFresh` hold always,
  through failed stores, crashes and reboots.
* `ObjectsAreSafe` (in `MCObjects`): `Spec => []ObjectsSafe` for the suite the run `objects`
  checks. Its lemmas show that the constants meet the assumptions and that a step of another
  part leaves the object service alone; the rest is `ServiceDurable`'s own invariant.

`TablesAgree` alone says nothing of a machine that is down, and none of the seven relates
memory to the register, which an answer depends on. The inductive invariant is
`Inv == IInv /\ AInv`. `IInv` says that
the tables in memory and those of the stored snapshot are sound (`Tables`, `Image`: no id or
block twice, the bitmap just the blocks, the history of every object whole), that memory is
never behind the register (`Ahead`), that a store under way is of the memory as it stands
and for the reply that waits (`StoreInHand`), and that this reply names the current revision
of its object (`ReplyInHand`). Two lemmas carry the argument: `CreateComplete`, by counting,
that an object with a slot and a block also finds room in the relationship and revision
tables, so that `create_object`, which does not work on a staged copy, never stops half way;
and `HistoryAdvances`, that a revision stamped later than the current one leaves the history
whole. The latter needs `replace_object`'s check on the timestamp and not that the counter
is ahead of the history, which a reboot breaks (`timestamps_after_boot`).

`AInv` adds the types and who holds what: every capability names the shell's
workspace, an object of it or a schema (`Proper`), and stays so, since an object never
changes its workspace; the capability, prior-revision and quota tables stay within their
capacities (`Rights`, `Few`), also when a query grants several at once, for which
`FirstBounded` counts the slots `First` picks; and the stored snapshot is as good as memory,
because a boot restores from it. For the proof `ObjectService` keeps the capability table as
a set of entries instead of a sequence with no entry twice: no operation reads its order.

### The task service (`TaskServiceProofs`)

* `TasksHold`: under `TaskServiceAssumption`, for every capacity and any number of boots,
  `Spec` implies that `TypeOK`, `StatusFollowsEvents`, `ApprovalAtomic` and
  `DecisionDurable` hold always.
* `TasksAreSafe` (in `MCObjects`): `Spec => []TasksSafe` for the suite of the run `objects`.

An operation works on a staged copy in up to five steps, any of which may fail, and is
installed only when all succeeded. `Steady(s, k)` is the invariant of a staged copy: every
task but `k`, the one whose status was just revised, has the status its latest event
announces, and decision events and decided proposals match one for one (`Marks`). One lemma
per step (`StepStatus`, `StepEvent`, `StepDecision`, `StepRelated`) says what it does to
that and how many objects it costs, one lemma per operation (`ApproveSound`, `RejectSound`,
`TransitionSound`) puts the steps together: at the end `k` is nobody, or the result is an
error and the copy is dropped. Between two calls memory and the stored state are `Sound`,
with one relation for each approval; what was answered stands in the stored proposals, and a
verdict not yet answered stands in memory and names a proposal not answered before, so that
the store that lets the call answer keeps both (`CommitDecides`).

### Kernel IPC (`KernelIpc`)

* `IpcHolds`: under `KernelIpcAssumption`, for every queue depth, number of messages and
  number of quota records, `Spec` implies `[](TypeOK /\ ChannelExact /\ QuotaHolds)` and
  `[][RegionWrittenByHolder /\ SentByHolder]_vars`.

Messages are numbered as they are accepted. `Ring` says that the ring holds the last ones,
numbered upwards from the head, in slots that wrap at the depth, and nothing elsewhere;
`Direction` that of one side's accepted messages a prefix was received and the others wait
in the ring, and that nothing else waits for its peer. Neither suffices alone: that a
delivery is the *next* message of its side follows from the head holding the smallest number
of the ring. `PlaceWraps` and `PlacesDiffer` carry the modular arithmetic. The two action
properties follow from the steps of `validate` (`OnlyHolders`) and need no invariant.
`SelfTestsAccept` evaluates the self tests with a fold and stays with TLC.

### The block device (`BlockDevice`)

* `StoreHolds`: `Spec => StoreImplemented`, for every capacity and contents, under
  `SlowOnlyVirtio`: where a device may outlast the poll limit, a virtio disk is found. The
  hypothesis is needed: a timed-out AHCI command is not stopped and shares the buffer.

The invariant says which backend runs which step, that the device works only on the one
request in memory and is at rest while the next is put together (`DeviceFollows`), that a
request given up but still with the device is the failed write the store may yet carry out
(`LateIsKnown`), and that what the driver takes for success was served (`RequestInHand`).
Each step then maps to a step of `SectorStore` or to none. The proof found an overlapping
CASE in the model of `select_device`, now written as the code decides.

### Package publication (`PackagePublicationProofs`)

* `PublicationHolds`: `Spec => []PublicationSafe`, for every set of releases, every finite
  set of content blocks and every bound (`PackagePublicationAssumption`), with and without
  device errors reported for writes that did land. It covers `PublishedWorldKept`,
  `NoRevival`, `LiveCountsExact` and, without late errors, `SchemaRetained`.

None of these is inductive: they compare what was reported with what a boot would select and
say nothing about the slots between two writes. The inductive invariant `IInv` says

* while the kernel runs, the anchor it works from is whole on the device and names its world
  up to the retention counts, which only memory recomputes; beside it the registry slots hold
  at most its successor (`BaseWhole`, `RegistriesFollow`), and what was reported as published
  is carried on by it (`ToldKept`); without late errors no anchor is ahead (`AnchorsBehind`);
* while it is down, the same of the world a boot would select (`Down`, `Selectable`);
* slots hold what belongs there, and an anchor names every package that can still be changed
  (`InPlace`): this is why a disable or uninstall, which keeps the object candidate of the
  current anchor, writes an anchor that is complete;
* an operation under way builds the successor world in blocks and slots the current one does
  not use (`PrepareInHand`, `ChangeInHand`), and at its anchor write all that the anchor names
  is on the device (`AnchorReady`); a prepared candidate continues the current world
  (`PreparedInHand`);
* retention counts are those of the live objects, every stored reference is a live one, and
  cached contents belong to packages the objects know (`References`).

`WriteBeside` then shows that no write before the anchor, finished, torn or cut off, touches
the kernel's world, and `SelectedFollows` that a boot selects that world or the successor an
interrupted anchor write left whole. The proof needed one fact that the model did not state:
contents of different packages never share a block, now a conjunct of `TypeOK`.

### The reboot proofs (`SnapshotWindow`)

* `WindowHolds`: `Spec => []WindowInv`, for every number of arms and faults. The invariant
  adds that a write in flight is one of the five the code plans, each with what it stands
  on (`WriteIsPlanned`), and what the disk holds at the steps that follow a write
  (`StepsFollowWrites`).

### Only model-checked

* Liveness (`WriterFinishes` and the `*Progress` properties) and `ENABLED` are outside what
  the prover handles.
* So is induction over data: what a fold, a sort, `SelectSeq` or a recursive function yields
  for every input. `NamesExact` (the locator grammar), `RegistryConsistent` (sorted tables),
  `SessionsSafe` (selections from histories), `SelfTestsExact` (recovery of
  every journal prefix), `GraphsSound` (the verifier's fixpoints) and the self tests in
  `IpcExact` and `ServicesSafe` are of this kind. Where a property could be said place by
  place instead it was, as `ChannelExact` is, and then proved.
* `StoreImplemented` of the suite needs `SdhciEmmc`, `Ahci` and `Virtio` to implement
  `SectorStore`; `StoreHolds` proves it of `BlockDevice`, TLC checks it of `SdhciEmmc`.
* The boot, network, boundary and session suites (`LoaderSafe`, `BootSafe`, `SpacesSafe`,
  `SchedulerSafe`, `AudioSafe`, `KeyboardExact`, `Ps2Exact`, `UsbExact`, `DiscoveryExact`,
  `PortExact`, `ProbesHonest`, `StreamExact`, `BoundarySafe`, `WorldsSound`) and the action
  properties `ObjectSteps` and `ProcessSteps` (but for the part of `IpcHolds`) are
  model-checked. Nothing is known to stand in the way of their proofs but their size.

## Not modelled, and why

* Rendering, boot presentation, the wording of markers and the drawing of panels: output.
* The compiler, build scripts and host tools: not part of the running system.
* Byte layouts of records, packages, frames and descriptors: bounded and sequential, served
  by the repository's unit tests; here a structure is accepted or refused by the conditions
  the decoder tests.
* Register programming of the PIC, PIT and CPU tables; the kernel heap; page-table levels
  beyond two.
* The native execution kind of the graph runtime; `task_context` scoring; argument vectors;
  the fixed in-kernel runtimes that only hold constants.
* The legacy IRQ path of the default keyboard build.

## Plan

Done: the components above with their suites; the theorems above. Next, in order of what
they say about the system: `SdhciEmmc` as an implementation of `SectorStore`, which would
give `StoreImplemented` of the whole suite; `SchedulerSafe`; `BoundarySafe`.

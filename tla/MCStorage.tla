----------------------------- MODULE MCStorage ------------------------------
(***************************************************************************)
(* Instances of the storage and hardware discovery components for TLC.     *)
(* The verification boot runs its storage self tests and its drivers one   *)
(* after another and a diagnostic image runs one probe, so a behaviour     *)
(* exercises the part its initial state names and the variables of the     *)
(* others rest.                                                            *)
(*                                                                         *)
(* Block: a virtio disk; an AHCI disk whose commands end within the poll   *)
(* limit; one whose commands may outlive it.  Discovery: three buses with  *)
(* bridge loops, shared secondary buses and hidden functions.  Registers:  *)
(* every layout of three BARs; every capability list over three offsets.   *)
(***************************************************************************)
EXTENDS Integers, Sequences, TLC

(* A virtio disk, a broken one, or none and no AHCI disk either *)
VirtioScans == {[virtio |-> "ok", ahci |-> "ok"], [virtio |-> "error", ahci |-> "ok"],
                [virtio |-> "absent", ahci |-> "error"]}

AhciScans == {[virtio |-> "absent", ahci |-> "ok"]}

AbsentFn == [class |-> "absent", to |-> 0]

Fn(c) == [class |-> c, to |-> 0]

Bridge(b) == [class |-> "bridge", to |-> b]

Dev(m, f, g) == [multi |-> m, functions |-> (0 :> f) @@ (1 :> g)]

NoDev == Dev(FALSE, AbsentFn, AbsentFn)

RootDevs ==
    {NoDev, Dev(TRUE, AbsentFn, Fn("wanted"))}
    \cup {Dev(m, f, g) : m \in BOOLEAN,
                         f \in {Fn("same"), Bridge(0), Bridge(1), Bridge(2)},
                         g \in {AbsentFn, Fn("wanted"), Bridge(1)}}

LeafDevs ==
    {NoDev, Dev(FALSE, Fn("wanted"), AbsentFn), Dev(TRUE, Fn("same"), Fn("wanted")),
     Dev(TRUE, Bridge(1), Bridge(2)), Dev(TRUE, Fn("other"), Bridge(0)),
     Dev(FALSE, Bridge(2), Fn("same"))}

AllTopologies ==
    {(0 :> ((0 :> a) @@ (1 :> b))) @@ (1 :> ((0 :> NoDev) @@ (1 :> c)))
        @@ (2 :> ((0 :> d) @@ (1 :> NoDev))) :
        a \in RootDevs,
        b \in {NoDev, Dev(FALSE, Fn("wanted"), AbsentFn), Dev(TRUE, Bridge(2), Fn("same"))},
        c \in LeafDevs, d \in LeafDevs}

-----------------------------------------------------------------------------
VARIABLE part  \* the part of the system this behaviour exercises

(* The virtio and AHCI disk drivers and the device *)
VARIABLES scan, backend, blockPc, blockCall, blockAnswer, request, buffer, status, used,
          pending, device, fault, blockMedium, blockLate

blockVars == <<scan, backend, blockPc, blockCall, blockAnswer, request, buffer, status,
               used, pending, device, fault, blockMedium, blockLate>>

Virtio == INSTANCE BlockDevice WITH
    pc <- blockPc, call <- blockCall, answer <- blockAnswer, medium <- blockMedium,
    late <- blockLate, Capacity <- 2, Values <- {"v1", "v2"}, Blank <- "blank",
    Scans <- VirtioScans, Slow <- TRUE

Ahci == INSTANCE BlockDevice WITH
    pc <- blockPc, call <- blockCall, answer <- blockAnswer, medium <- blockMedium,
    late <- blockLate, Capacity <- 2, Values <- {"v1", "v2"}, Blank <- "blank",
    Scans <- AhciScans, Slow <- FALSE

SlowAhci == INSTANCE BlockDevice WITH
    pc <- blockPc, call <- blockCall, answer <- blockAnswer, medium <- blockMedium,
    late <- blockLate, Capacity <- 2, Values <- {"v1", "v2"}, Blank <- "blank",
    Scans <- AhciScans, Slow <- TRUE

(* The SDHCI host driver, the host and the card *)
VARIABLES phase, program, emmcAt, sent, attempts, block, addressing, capacity, emmcCall,
          emmcAnswer, host, card, emmcMedium, emmcLate

emmcVars == <<phase, program, emmcAt, sent, attempts, block, addressing, capacity,
              emmcCall, emmcAnswer, host, card, emmcMedium, emmcLate>>

Emmc == INSTANCE SdhciEmmc WITH
    at <- emmcAt, call <- emmcCall, answer <- emmcAnswer, medium <- emmcMedium,
    late <- emmcLate, Capacity <- 3, Values <- {"v1"}, Blank <- "blank",
    BlockBytes <- 2, MaxArgument <- 3, Attempts <- 2

(* The reboot and torn-write proofs and the disk *)
VARIABLES disk, windowAt, windowPc, write, marker, arms, faults, kept, torn

windowVars == <<disk, windowAt, windowPc, write, marker, arms, faults, kept, torn>>

Window == INSTANCE SnapshotWindow WITH
    at <- windowAt, pc <- windowPc, Stores <- 2, MaxArms <- 2, MaxFaults <- 3

(* The extent allocator, its journal and the object store *)
VARIABLES owner, allocator, allocatorJournal, objects, held, commits

allocatorVars == <<owner, allocator, allocatorJournal, objects, held, commits>>

Allocator == INSTANCE StorageAllocator WITH
    journal <- allocatorJournal, BlockCount <- 5, JOURNAL_CAPACITY <- 4,
    MaxDynamicObjects <- 4, ObjectIds <- {"o1", "o2", "o3", "o4", "o5"},
    Kinds <- {"window", "note"}

(* The storage service: capability gate, journal, write gate and quotas *)
VARIABLES structure, table, journalJournal, gate, tokens, quotas, charged

journalVars == <<structure, table, journalJournal, gate, tokens, quotas, charged>>

Journal == INSTANCE StorageJournal WITH
    journal <- journalJournal, CapabilitySlots <- 4, GenerationModulus <- 4,
    Services <- {"s1", "s2", "s3"}, Owner <- "s1", Readers <- {"s3"},
    CapacitySectors <- 2, JOURNAL_CAPACITY <- 3, GenerationMax <- 4,
    MaxStorageQuotas <- 2, MaxBlocks <- 3

(* The PCI walk of the storage, USB and network probes *)
VARIABLES probe, pci, armed, discoveryPc, stack, visited, report, overflowed, selected,
          stages, discoveryWrote, discoveryMarks

discoveryVars == <<probe, pci, armed, discoveryPc, stack, visited, report, overflowed,
                   selected, stages, discoveryWrote, discoveryMarks>>

Discovery == INSTANCE PciDiscovery WITH
    pc <- discoveryPc, wrote <- discoveryWrote, marks <- discoveryMarks,
    Probes <- {"storage", "usb", "network"}, Buses <- {0, 1, 2}, Devices <- 2,
    Functions <- 2, Capacity <- 2, Topologies <- AllTopologies, Armed <- {TRUE, FALSE}

(* The register probes of the network controller *)
VARIABLES image, registersPc, controller, raw, command, list, layout, current, entries,
          pm, failure, plan, original, registersWrote, touched, registersMarks

registersVars == <<image, registersPc, controller, raw, command, list, layout, current,
                   entries, pm, failure, plan, original, registersWrote, touched,
                   registersMarks>>

Registers == INSTANCE NetworkHardwareProbe WITH
    pc <- registersPc, wrote <- registersWrote, marks <- registersMarks,
    Images <- {"bar", "register", "enable"},
    Controllers <- {"none", "intel", "realtek", "other"}, Slots <- 3, RealtekSlot <- 1,
    WordSize <- 64, WindowLen <- 32, BarWords <- {0, 4, 16, 32, 33, 34, 36, 38, 63},
    Commands <- SUBSET {"MSE", "BM"}, FirstPointer <- 4, PointerAlign <- 2,
    ConfigTop <- 9, MaxEntries <- 3, PmHeader <- 4, Pointers <- {0}

Capabilities == INSTANCE NetworkHardwareProbe WITH
    pc <- registersPc, wrote <- registersWrote, marks <- registersMarks,
    Images <- {"capability"}, Controllers <- {"none", "other"}, Slots <- 3,
    RealtekSlot <- 1, WordSize <- 64, WindowLen <- 32, BarWords <- {0},
    Commands <- {{}}, FirstPointer <- 4, PointerAlign <- 2, ConfigTop <- 9,
    MaxEntries <- 3, PmHeader <- 4, Pointers <- {0, 2, 4, 5, 6, 8}

(* The assumptions of the components on their constants. *)
ASSUME Bounds ==
    /\ Virtio!BlockDeviceAssumption /\ Ahci!BlockDeviceAssumption
    /\ SlowAhci!BlockDeviceAssumption /\ Emmc!SdhciEmmcAssumption
    /\ Window!SnapshotWindowAssumption /\ Allocator!StorageAllocatorAssumption
    /\ Journal!StorageJournalAssumption /\ Journal!CapabilityTableAssumption
    /\ Discovery!DiscoveryBounds /\ Registers!NetworkProbeBounds
    /\ Capabilities!NetworkProbeBounds

-----------------------------------------------------------------------------
(* A component that is not exercised rests at a value nothing reads. *)
Off == "off"

BlockOff ==
    /\ scan = Off /\ backend = Off /\ blockPc = Off /\ blockCall = Off
    /\ blockAnswer = Off /\ request = Off /\ buffer = Off /\ status = Off
    /\ used = Off /\ pending = Off /\ device = Off /\ fault = Off
    /\ blockMedium = Off /\ blockLate = Off

EmmcOff ==
    /\ phase = Off /\ program = Off /\ emmcAt = Off /\ sent = Off /\ attempts = Off
    /\ block = Off /\ addressing = Off /\ capacity = Off /\ emmcCall = Off
    /\ emmcAnswer = Off /\ host = Off /\ card = Off /\ emmcMedium = Off
    /\ emmcLate = Off

WindowOff ==
    /\ disk = Off /\ windowAt = Off /\ windowPc = Off /\ write = Off /\ marker = Off
    /\ arms = Off /\ faults = Off /\ kept = Off /\ torn = Off

AllocatorOff ==
    /\ owner = Off /\ allocator = Off /\ allocatorJournal = Off /\ objects = Off
    /\ held = Off /\ commits = Off

JournalOff ==
    /\ structure = Off /\ table = Off /\ journalJournal = Off /\ gate = Off
    /\ tokens = Off /\ quotas = Off /\ charged = Off

DiscoveryOff ==
    /\ probe = Off /\ pci = Off /\ armed = Off /\ discoveryPc = Off /\ stack = Off
    /\ visited = Off /\ report = Off /\ overflowed = Off /\ selected = Off
    /\ stages = Off /\ discoveryWrote = Off /\ discoveryMarks = Off

RegistersOff ==
    /\ image = Off /\ registersPc = Off /\ controller = Off /\ raw = Off
    /\ command = Off /\ list = Off /\ layout = Off /\ current = Off /\ entries = Off
    /\ pm = Off /\ failure = Off /\ plan = Off /\ original = Off
    /\ registersWrote = Off /\ touched = Off /\ registersMarks = Off

vars == <<part, blockVars, emmcVars, windowVars, allocatorVars, journalVars, discoveryVars,
          registersVars>>

Init ==
    \/ /\ part = "virtio" /\ Virtio!Init
       /\ EmmcOff /\ WindowOff /\ AllocatorOff /\ JournalOff /\ DiscoveryOff
       /\ RegistersOff
    \/ /\ part = "ahci" /\ Ahci!Init
       /\ EmmcOff /\ WindowOff /\ AllocatorOff /\ JournalOff /\ DiscoveryOff
       /\ RegistersOff
    \/ /\ part = "slow ahci" /\ SlowAhci!Init
       /\ EmmcOff /\ WindowOff /\ AllocatorOff /\ JournalOff /\ DiscoveryOff
       /\ RegistersOff
    \/ /\ part = "emmc" /\ Emmc!Init
       /\ BlockOff /\ WindowOff /\ AllocatorOff /\ JournalOff /\ DiscoveryOff
       /\ RegistersOff
    \/ /\ part = "window" /\ Window!Init
       /\ BlockOff /\ EmmcOff /\ AllocatorOff /\ JournalOff /\ DiscoveryOff
       /\ RegistersOff
    \/ /\ part = "allocator" /\ Allocator!Init
       /\ BlockOff /\ EmmcOff /\ WindowOff /\ JournalOff /\ DiscoveryOff /\ RegistersOff
    \/ /\ part = "journal" /\ Journal!Init
       /\ BlockOff /\ EmmcOff /\ WindowOff /\ AllocatorOff /\ DiscoveryOff
       /\ RegistersOff
    \/ /\ part = "discovery" /\ Discovery!Init
       /\ BlockOff /\ EmmcOff /\ WindowOff /\ AllocatorOff /\ JournalOff /\ RegistersOff
    \/ /\ part = "registers" /\ Registers!Init
       /\ BlockOff /\ EmmcOff /\ WindowOff /\ AllocatorOff /\ JournalOff /\ DiscoveryOff
    \/ /\ part = "capabilities" /\ Capabilities!Init
       /\ BlockOff /\ EmmcOff /\ WindowOff /\ AllocatorOff /\ JournalOff /\ DiscoveryOff

Next ==
    \/ /\ part = "virtio" /\ Virtio!Next
       /\ UNCHANGED <<part, emmcVars, windowVars, allocatorVars, journalVars,
                       discoveryVars, registersVars>>
    \/ /\ part = "ahci" /\ Ahci!Next
       /\ UNCHANGED <<part, emmcVars, windowVars, allocatorVars, journalVars,
                       discoveryVars, registersVars>>
    \/ /\ part = "slow ahci" /\ SlowAhci!Next
       /\ UNCHANGED <<part, emmcVars, windowVars, allocatorVars, journalVars,
                       discoveryVars, registersVars>>
    \/ /\ part = "emmc" /\ Emmc!Next
       /\ UNCHANGED <<part, blockVars, windowVars, allocatorVars, journalVars,
                       discoveryVars, registersVars>>
    \/ /\ part = "window" /\ Window!Next
       /\ UNCHANGED <<part, blockVars, emmcVars, allocatorVars, journalVars,
                       discoveryVars, registersVars>>
    \/ /\ part = "allocator" /\ Allocator!Next
       /\ UNCHANGED <<part, blockVars, emmcVars, windowVars, journalVars,
                       discoveryVars, registersVars>>
    \/ /\ part = "journal" /\ Journal!Next
       /\ UNCHANGED <<part, blockVars, emmcVars, windowVars, allocatorVars,
                       discoveryVars, registersVars>>
    \/ /\ part = "discovery" /\ Discovery!Next
       /\ UNCHANGED <<part, blockVars, emmcVars, windowVars, allocatorVars,
                       journalVars, registersVars>>
    \/ /\ part = "registers" /\ Registers!Next
       /\ UNCHANGED <<part, blockVars, emmcVars, windowVars, allocatorVars,
                       journalVars, discoveryVars>>
    \/ /\ part = "capabilities" /\ Capabilities!Next
       /\ UNCHANGED <<part, blockVars, emmcVars, windowVars, allocatorVars,
                       journalVars, discoveryVars>>

Fair ==
    \/ /\ part = "virtio" /\ Virtio!Driver
       /\ UNCHANGED <<part, emmcVars, windowVars, allocatorVars, journalVars,
                       discoveryVars, registersVars>>
    \/ /\ part = "ahci" /\ Ahci!Driver
       /\ UNCHANGED <<part, emmcVars, windowVars, allocatorVars, journalVars,
                       discoveryVars, registersVars>>
    \/ /\ part = "slow ahci" /\ SlowAhci!Driver
       /\ UNCHANGED <<part, emmcVars, windowVars, allocatorVars, journalVars,
                       discoveryVars, registersVars>>
    \/ /\ part = "emmc" /\ Emmc!Driver
       /\ UNCHANGED <<part, blockVars, windowVars, allocatorVars, journalVars,
                       discoveryVars, registersVars>>
    \/ /\ part = "window" /\ (Window!Kernel \/ Window!write_sector \/ Window!EndBoot \/ Window!PowerOn)
       /\ UNCHANGED <<part, blockVars, emmcVars, allocatorVars, journalVars,
                       discoveryVars, registersVars>>
    \/ /\ part = "discovery" /\ Discovery!Next
       /\ UNCHANGED <<part, blockVars, emmcVars, windowVars, allocatorVars,
                       journalVars, registersVars>>

Spec == Init /\ [][Next]_vars /\ WF_vars(Fair)

-----------------------------------------------------------------------------
(* StoreImplemented: an abstract disk on which every answered write is     *)
(* there, every answered read is true and a request given up on may land   *)
(* late (SectorStore) is implemented by the virtio driver, by the AHCI     *)
(* driver as long as commands end within the poll limit, and by the SDHCI  *)
(* driver over a host and a card that lose, delay and give up              *)
(* (block_device.rs, sdhci.rs).  While a component rests its               *)
(* state does not change.                                                  *)
StoreImplemented ==
    /\ part \in {"virtio", "ahci"} => Virtio!Store!Init
    /\ part = "emmc" => Emmc!Store!Init
    /\ [][(part \in {"virtio", "ahci"}) => [Virtio!Store!Next]_(Virtio!Store!vars)]_blockVars
    /\ [][(part = "emmc") => [Emmc!Store!Next]_(Emmc!Store!vars)]_emmcVars

(* SelfTestsExact: extents and bitmap partition the disk, the metadata     *)
(* journal recovers to the last commit and stops at damage, a snapshot     *)
(* restores the store it was taken from and a damaged one is refused       *)
(* (storage_allocator.rs); the storage service's journal holds authorised  *)
(* writes only, recovers the committed prefix, has one live write token    *)
(* and charges what is held (storage_journal.rs, storage_quotas.rs).       *)
SelfTestsExact ==
    /\ part = "allocator" =>
          /\ Allocator!TypeOK /\ Allocator!ExtentsPartitionTheBitmap
          /\ Allocator!RecoveryEndsAtTheCommit /\ Allocator!RecoveryStopsAtDamage
          /\ Allocator!SnapshotRestores /\ Allocator!DamagedSnapshotRefused
    /\ part = "journal" =>
          /\ Journal!TypeOK /\ Journal!JournalHoldsAuthorisedWrites
          /\ Journal!RecoveryIsTheCommittedPrefix
          /\ Journal!OneLiveToken /\ Journal!QuotaCountsHeldBlocks

(* DiscoveryExact: over bridge loops and shared buses the walk reports     *)
(* every controller once up to its capacity, and the storage image writes  *)
(* only when armed and after four good stages (storage_probe.rs,           *)
(* usb_xhci_probe.rs); registers of the network controller are read only   *)
(* while memory decodes and the command word is as it was or the failure   *)
(* is said; a capability list is accepted exactly when it is well formed   *)
(* and is reported whole (network_hardware_*_probe.rs).                    *)
DiscoveryExact ==
    /\ part = "discovery" =>
          /\ Discovery!TypeOK /\ Discovery!WalkExact
          /\ Discovery!SelectionSound /\ Discovery!WriteIsEarned
    /\ part = "registers" =>
          /\ Registers!TypeOK /\ Registers!EveryBarReportedOnce /\ Registers!ReadWhileDecoding
          /\ Registers!CommandRestored /\ Registers!ReadyMeans
    /\ part = "capabilities" => Capabilities!TypeOK /\ Capabilities!CapabilityWalkExact

(* StorageWaits, StorageServed: what has to be followed by what. *)
StorageWaits ==
    \/ part \in {"virtio", "slow ahci"} /\ blockCall # Virtio!NoCall
    \/ part = "emmc" /\ emmcCall # Emmc!NoCall
    \/ part \in {"discovery", "window"}

StorageServed ==
    \/ part \in {"virtio", "slow ahci"} /\ blockCall = Virtio!NoCall
    \/ part = "emmc" /\ emmcCall = Emmc!NoCall
    \/ part = "discovery" /\ "READY" \in discoveryMarks
    \/ part = "window" /\ windowPc = "done"

(* StorageProgress: every sector request is answered, also by a device     *)
(* that stays silent; the walk of any topology ends; and after any faults  *)
(* boots of the verification image keep passing.                           *)
StorageProgress == StorageWaits ~> StorageServed
=============================================================================

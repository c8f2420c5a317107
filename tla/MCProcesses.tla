---------------------------- MODULE MCProcesses -----------------------------
(***************************************************************************)
(* Instances of the process components for TLC: the ring 3 boundary and    *)
(* its calls, channels and quotas, services and their processes, the       *)
(* session proofs and the normal session.  A boot image runs one of these  *)
(* to its end before another begins: a behaviour exercises the part its    *)
(* initial state names, the variables of the others rest.                  *)
(*                                                                         *)
(* Boundary: two entries of a process with one capability; one entry of a  *)
(* normal image's process with two, which session_wait needs to succeed.   *)
(* Ipc: one record with a quota of two, two records with a quota of one.   *)
(* Proofs: the bridge, the runtime and the viewing profile.  Session: four *)
(* kinds of bytes at the console with one event, a byte more without; five *)
(* keys, and keys with motions, through a ring of three slots.             *)
(***************************************************************************)
EXTENDS Integers, Sequences

-----------------------------------------------------------------------------
VARIABLE part  \* the part of the system this behaviour exercises

(* Ring 3, its entries and its calls *)
VARIABLES build, mode, launch, entries, frame, um, process, gate, boundaryTable, com2,
          input, objects, boundaryVerdict, seen

boundaryVars == <<build, mode, launch, entries, frame, um, process, gate, boundaryTable,
                  com2, input, objects, boundaryVerdict, seen>>

Boundary == INSTANCE UserBoundary WITH
    table <- boundaryTable, verdict <- boundaryVerdict, CapabilitySlots <- 1,
    GenerationModulus <- 4, MaxEntries <- 2, MaxQueue <- 1, MaxArms <- 2,
    MaxMutations <- 1, Granted <- {"console", "control", "input", "log", "viewing"}

BoundaryWait == INSTANCE UserBoundary WITH
    table <- boundaryTable, verdict <- boundaryVerdict, CapabilitySlots <- 2,
    GenerationModulus <- 4, MaxEntries <- 1, MaxQueue <- 0, MaxArms <- 1,
    MaxMutations <- 0, Granted <- {"console"}

(* Channels, shared regions and quotas *)
VARIABLES channel, ipcTable, region, quota, sent, got, ipcSelftest

ipcVars == <<channel, ipcTable, region, quota, sent, got, ipcSelftest>>

Ipc == INSTANCE KernelIpc WITH
    table <- ipcTable, selftest <- ipcSelftest, CapabilitySlots <- 2,
    GenerationModulus <- 4, Depth <- 2, MaxSends <- 3, MaxQuota <- 2, QuotaRecords <- 1

IpcQuotas == INSTANCE KernelIpc WITH
    table <- ipcTable, selftest <- ipcSelftest, CapabilitySlots <- 2,
    GenerationModulus <- 4, Depth <- 2, MaxSends <- 2, MaxQuota <- 1, QuotaRecords <- 2

(* Services, their managers and processes *)
VARIABLES identities, servicesTable, processes, environment, slots, managers,
          servicesPart, servicesSelftest

servicesVars == <<identities, servicesTable, processes, environment, slots, managers,
                  servicesPart, servicesSelftest>>

Services == INSTANCE ServiceProcesses WITH
    table <- servicesTable, part <- servicesPart, selftest <- servicesSelftest,
    CapabilitySlots <- 3, GenerationModulus <- 4, Tasks <- {1, 2}, MaxServices <- 2,
    MaxProcesses <- 2, MaxGrants <- 2, MaxEnvironment <- 2, MaxId <- 4,
    MaxGeneration <- 1

(* The session proofs: kernel, process and devices *)
VARIABLES pc, prepared, bootstrap, proofTable, proofCaller, proofOutcome,
          proofPresenter, proofQueue, proofUser, page, proofVerdict, proofProduced,
          proofDelivered, injected

proofVars == <<pc, prepared, bootstrap, proofTable, proofCaller, proofOutcome,
               proofPresenter, proofQueue, proofUser, page, proofVerdict, proofProduced,
               proofDelivered, injected>>

RuntimeProof == INSTANCE SessionRuntime WITH
    table <- proofTable, caller <- proofCaller, outcome <- proofOutcome,
    presenter <- proofPresenter, queue <- proofQueue, user <- proofUser,
    verdict <- proofVerdict, produced <- proofProduced, delivered <- proofDelivered,
    Profile <- "runtime", Capacity <- 1, Kinds <- {"A", "Motion", "Space"}, Spare <- 2,
    MaxWrong <- 4, PollLimit <- 2

ViewingProof == INSTANCE SessionRuntime WITH
    table <- proofTable, caller <- proofCaller, outcome <- proofOutcome,
    presenter <- proofPresenter, queue <- proofQueue, user <- proofUser,
    verdict <- proofVerdict, produced <- proofProduced, delivered <- proofDelivered,
    Profile <- "viewing", Capacity <- 2,
    Kinds <- {"Space", "Backspace", "Motion", "Enter"}, Spare <- 1, MaxWrong <- 1,
    PollLimit <- 2

BridgeProof == INSTANCE SessionRuntime WITH
    table <- proofTable, caller <- proofCaller, outcome <- proofOutcome,
    presenter <- proofPresenter, queue <- proofQueue, user <- proofUser,
    verdict <- proofVerdict, produced <- proofProduced, delivered <- proofDelivered,
    Profile <- "bridge", Capacity <- 2, Kinds <- {"Space", "Backspace", "Motion"},
    Spare <- 1, MaxWrong <- 6, PollLimit <- 2

(* The normal session: kernel, shell, devices and screen *)
VARIABLES phase, supervisor, boundary, sessionOutcome, root, sessionCaller,
          sessionTable, sessionPresenter, sessionQueue, irqs, sessionUser, rx,
          sessionProduced, sessionDelivered, typed, replies

sessionVars == <<phase, supervisor, boundary, sessionOutcome, root, sessionCaller,
                 sessionTable, sessionPresenter, sessionQueue, irqs, sessionUser, rx,
                 sessionProduced, sessionDelivered, typed, replies>>

SessionInput == INSTANCE NormalSession WITH
    outcome <- sessionOutcome, caller <- sessionCaller, table <- sessionTable,
    presenter <- sessionPresenter, queue <- sessionQueue, user <- sessionUser,
    produced <- sessionProduced, delivered <- sessionDelivered, QUEUE_CAPACITY <- 3,
    Kinds <- {"Space", "Backspace"}, MaxEvents <- 5, Bytes <- {"s", "CR"},
    MaxBytes <- 0, MaxLine <- 2, CounterMax <- 5, Extent <- 2, Vectors <- {6}

SessionMotion == INSTANCE NormalSession WITH
    outcome <- sessionOutcome, caller <- sessionCaller, table <- sessionTable,
    presenter <- sessionPresenter, queue <- sessionQueue, user <- sessionUser,
    produced <- sessionProduced, delivered <- sessionDelivered, QUEUE_CAPACITY <- 3,
    Kinds <- {"Space", "Motion"}, MaxEvents <- 4, Bytes <- {"s", "CR"}, MaxBytes <- 0,
    MaxLine <- 2, CounterMax <- 4, Extent <- 2, Vectors <- {6}

SessionConsole == INSTANCE NormalSession WITH
    outcome <- sessionOutcome, caller <- sessionCaller, table <- sessionTable,
    presenter <- sessionPresenter, queue <- sessionQueue, user <- sessionUser,
    produced <- sessionProduced, delivered <- sessionDelivered, QUEUE_CAPACITY <- 2,
    Kinds <- {"Motion"}, MaxEvents <- 1, Bytes <- {"s", "hi", "CR", "LF"},
    MaxBytes <- 3, MaxLine <- 1, CounterMax <- 1, Extent <- 2, Vectors <- {14}

SessionLines == INSTANCE NormalSession WITH
    outcome <- sessionOutcome, caller <- sessionCaller, table <- sessionTable,
    presenter <- sessionPresenter, queue <- sessionQueue, user <- sessionUser,
    produced <- sessionProduced, delivered <- sessionDelivered, QUEUE_CAPACITY <- 2,
    Kinds <- {"Motion"}, MaxEvents <- 0, Bytes <- {"s", "r", "CR"}, MaxBytes <- 4,
    MaxLine <- 1, CounterMax <- 1, Extent <- 2, Vectors <- {14}

(* The assumptions of the components on their constants. *)
ASSUME Bounds ==
    /\ Boundary!UserBoundaryAssumption /\ Boundary!CapabilityTableAssumption
    /\ BoundaryWait!UserBoundaryAssumption /\ BoundaryWait!CapabilityTableAssumption
    /\ Ipc!KernelIpcAssumption /\ Ipc!CapabilityTableAssumption
    /\ IpcQuotas!KernelIpcAssumption /\ IpcQuotas!CapabilityTableAssumption
    /\ Services!ServiceProcessesAssumption /\ Services!CapabilityTableAssumption
    /\ RuntimeProof!SessionRuntimeAssumption /\ ViewingProof!SessionRuntimeAssumption
    /\ BridgeProof!SessionRuntimeAssumption /\ SessionInput!SessionAssumption
    /\ SessionMotion!SessionAssumption /\ SessionConsole!SessionAssumption
    /\ SessionLines!SessionAssumption

-----------------------------------------------------------------------------
(* A component that is not exercised rests at a value nothing reads. *)
Off == "off"

BoundaryOff ==
    /\ build = Off /\ mode = Off /\ launch = Off /\ entries = Off /\ frame = Off
    /\ um = Off /\ process = Off /\ gate = Off /\ boundaryTable = Off /\ com2 = Off
    /\ input = Off /\ objects = Off /\ boundaryVerdict = Off /\ seen = Off

IpcOff ==
    /\ channel = Off /\ ipcTable = Off /\ region = Off /\ quota = Off /\ sent = Off
    /\ got = Off /\ ipcSelftest = Off

ServicesOff ==
    /\ identities = Off /\ servicesTable = Off /\ processes = Off
    /\ environment = Off /\ slots = Off /\ managers = Off /\ servicesPart = Off
    /\ servicesSelftest = Off

ProofOff ==
    /\ pc = Off /\ prepared = Off /\ bootstrap = Off /\ proofTable = Off
    /\ proofCaller = Off /\ proofOutcome = Off /\ proofPresenter = Off
    /\ proofQueue = Off /\ proofUser = Off /\ page = Off /\ proofVerdict = Off
    /\ proofProduced = Off /\ proofDelivered = Off /\ injected = Off

SessionOff ==
    /\ phase = Off /\ supervisor = Off /\ boundary = Off /\ sessionOutcome = Off
    /\ root = Off /\ sessionCaller = Off /\ sessionTable = Off
    /\ sessionPresenter = Off /\ sessionQueue = Off /\ irqs = Off
    /\ sessionUser = Off /\ rx = Off /\ sessionProduced = Off
    /\ sessionDelivered = Off /\ typed = Off /\ replies = Off

vars == <<part, boundaryVars, ipcVars, servicesVars, proofVars, sessionVars>>

Init ==
    \/ /\ part = "boundary" /\ Boundary!Init
       /\ IpcOff /\ ServicesOff /\ ProofOff /\ SessionOff
    \/ /\ part = "boundary wait" /\ BoundaryWait!Init /\ build = "normal"
       /\ IpcOff /\ ServicesOff /\ ProofOff /\ SessionOff
    \/ /\ part = "ipc" /\ Ipc!Init
       /\ BoundaryOff /\ ServicesOff /\ ProofOff /\ SessionOff
    \/ /\ part = "ipc quotas" /\ IpcQuotas!Init
       /\ BoundaryOff /\ ServicesOff /\ ProofOff /\ SessionOff
    \/ /\ part = "services" /\ Services!Init
       /\ BoundaryOff /\ IpcOff /\ ProofOff /\ SessionOff
    \/ /\ part = "runtime proof" /\ RuntimeProof!Init
       /\ BoundaryOff /\ IpcOff /\ ServicesOff /\ SessionOff
    \/ /\ part = "viewing proof" /\ ViewingProof!Init
       /\ BoundaryOff /\ IpcOff /\ ServicesOff /\ SessionOff
    \/ /\ part = "bridge proof" /\ BridgeProof!Init
       /\ BoundaryOff /\ IpcOff /\ ServicesOff /\ SessionOff
    \/ /\ part = "session input" /\ SessionInput!Init
       /\ BoundaryOff /\ IpcOff /\ ServicesOff /\ ProofOff
    \/ /\ part = "session motion" /\ SessionMotion!Init
       /\ BoundaryOff /\ IpcOff /\ ServicesOff /\ ProofOff
    \/ /\ part = "session console" /\ SessionConsole!Init
       /\ BoundaryOff /\ IpcOff /\ ServicesOff /\ ProofOff
    \/ /\ part = "session lines" /\ SessionLines!Init
       /\ BoundaryOff /\ IpcOff /\ ServicesOff /\ ProofOff

Next ==
    \/ /\ part = "boundary" /\ Boundary!Next
       /\ UNCHANGED <<part, ipcVars, servicesVars, proofVars, sessionVars>>
    \/ /\ part = "boundary wait" /\ BoundaryWait!Next
       /\ UNCHANGED <<part, ipcVars, servicesVars, proofVars, sessionVars>>
    \/ /\ part = "ipc" /\ Ipc!Next
       /\ UNCHANGED <<part, boundaryVars, servicesVars, proofVars, sessionVars>>
    \/ /\ part = "ipc quotas" /\ IpcQuotas!Next
       /\ UNCHANGED <<part, boundaryVars, servicesVars, proofVars, sessionVars>>
    \/ /\ part = "services" /\ Services!Next
       /\ UNCHANGED <<part, boundaryVars, ipcVars, proofVars, sessionVars>>
    \/ /\ part = "runtime proof" /\ RuntimeProof!Next
       /\ UNCHANGED <<part, boundaryVars, ipcVars, servicesVars, sessionVars>>
    \/ /\ part = "viewing proof" /\ ViewingProof!Next
       /\ UNCHANGED <<part, boundaryVars, ipcVars, servicesVars, sessionVars>>
    \/ /\ part = "bridge proof" /\ BridgeProof!Next
       /\ UNCHANGED <<part, boundaryVars, ipcVars, servicesVars, sessionVars>>
    \/ /\ part = "session input" /\ SessionInput!Next
       /\ UNCHANGED <<part, boundaryVars, ipcVars, servicesVars, proofVars>>
    \/ /\ part = "session motion" /\ SessionMotion!Next
       /\ UNCHANGED <<part, boundaryVars, ipcVars, servicesVars, proofVars>>
    \/ /\ part = "session console" /\ SessionConsole!Next
       /\ UNCHANGED <<part, boundaryVars, ipcVars, servicesVars, proofVars>>
    \/ /\ part = "session lines" /\ SessionLines!Next
       /\ UNCHANGED <<part, boundaryVars, ipcVars, servicesVars, proofVars>>

Fair1 ==
    \/ /\ part = "ipc" /\ Ipc!Receive("owner")
       /\ UNCHANGED <<part, boundaryVars, servicesVars, proofVars, sessionVars>>
    \/ /\ part = "ipc quotas" /\ IpcQuotas!Receive("owner")
       /\ UNCHANGED <<part, boundaryVars, servicesVars, proofVars, sessionVars>>
    \/ /\ part = "runtime proof" /\ RuntimeProof!Kernel
       /\ UNCHANGED <<part, boundaryVars, ipcVars, servicesVars, sessionVars>>
    \/ /\ part = "viewing proof" /\ ViewingProof!Kernel
       /\ UNCHANGED <<part, boundaryVars, ipcVars, servicesVars, sessionVars>>
    \/ /\ part = "bridge proof" /\ BridgeProof!Kernel
       /\ UNCHANGED <<part, boundaryVars, ipcVars, servicesVars, sessionVars>>
    \/ /\ part = "session input" /\ SessionInput!Kernel
       /\ UNCHANGED <<part, boundaryVars, ipcVars, servicesVars, proofVars>>
    \/ /\ part = "session motion" /\ SessionMotion!Kernel
       /\ UNCHANGED <<part, boundaryVars, ipcVars, servicesVars, proofVars>>
    \/ /\ part = "session console" /\ SessionConsole!Kernel
       /\ UNCHANGED <<part, boundaryVars, ipcVars, servicesVars, proofVars>>
    \/ /\ part = "session lines" /\ SessionLines!Kernel
       /\ UNCHANGED <<part, boundaryVars, ipcVars, servicesVars, proofVars>>

Fair2 ==
    \/ /\ part = "ipc" /\ Ipc!Receive("peer")
       /\ UNCHANGED <<part, boundaryVars, servicesVars, proofVars, sessionVars>>
    \/ /\ part = "ipc quotas" /\ IpcQuotas!Receive("peer")
       /\ UNCHANGED <<part, boundaryVars, servicesVars, proofVars, sessionVars>>
    \/ /\ part = "runtime proof" /\ RuntimeProof!Process
       /\ UNCHANGED <<part, boundaryVars, ipcVars, servicesVars, sessionVars>>
    \/ /\ part = "viewing proof" /\ ViewingProof!Process
       /\ UNCHANGED <<part, boundaryVars, ipcVars, servicesVars, sessionVars>>
    \/ /\ part = "bridge proof" /\ BridgeProof!Process
       /\ UNCHANGED <<part, boundaryVars, ipcVars, servicesVars, sessionVars>>
    \/ /\ part = "session input" /\ SessionInput!Controller
       /\ UNCHANGED <<part, boundaryVars, ipcVars, servicesVars, proofVars>>
    \/ /\ part = "session motion" /\ SessionMotion!Controller
       /\ UNCHANGED <<part, boundaryVars, ipcVars, servicesVars, proofVars>>
    \/ /\ part = "session console" /\ SessionConsole!Controller
       /\ UNCHANGED <<part, boundaryVars, ipcVars, servicesVars, proofVars>>
    \/ /\ part = "session lines" /\ SessionLines!Controller
       /\ UNCHANGED <<part, boundaryVars, ipcVars, servicesVars, proofVars>>

Fair3 ==
    \/ /\ part = "session input" /\ SessionInput!TimerTick
       /\ UNCHANGED <<part, boundaryVars, ipcVars, servicesVars, proofVars>>
    \/ /\ part = "session motion" /\ SessionMotion!TimerTick
       /\ UNCHANGED <<part, boundaryVars, ipcVars, servicesVars, proofVars>>
    \/ /\ part = "session console" /\ SessionConsole!TimerTick
       /\ UNCHANGED <<part, boundaryVars, ipcVars, servicesVars, proofVars>>
    \/ /\ part = "session lines" /\ SessionLines!TimerTick
       /\ UNCHANGED <<part, boundaryVars, ipcVars, servicesVars, proofVars>>

Spec == Init /\ [][Next]_vars /\ WF_vars(Fair1) /\ WF_vars(Fair2) /\ WF_vars(Fair3)

-----------------------------------------------------------------------------
(* BoundarySafe: across entries, faults, reports and exits the recovery    *)
(* point is live when ring 3 runs, a persistent entry is final, calls are  *)
(* served for the process that runs, a fault does not leave it, a report   *)
(* is of this run, and safe idle holds nothing (user_mode.rs, syscall.rs). *)
BoundarySafe ==
    /\ part = "boundary" =>
          /\ Boundary!TypeOK /\ Boundary!RecoveryIsLive /\ Boundary!PersistentIsFinal
          /\ Boundary!CallerIsRunning /\ Boundary!FaultContained
          /\ Boundary!ReportIsThisRun /\ Boundary!ProofCallCounted
          /\ Boundary!SelfTestHonest /\ Boundary!SafeIdleIsClean
    /\ part = "boundary wait" =>
          /\ BoundaryWait!TypeOK /\ BoundaryWait!RecoveryIsLive
          /\ BoundaryWait!PersistentIsFinal
          /\ BoundaryWait!CallerIsRunning /\ BoundaryWait!FaultContained
          /\ BoundaryWait!ReportIsThisRun /\ BoundaryWait!ProofCallCounted
          /\ BoundaryWait!SelfTestHonest /\ BoundaryWait!SafeIdleIsClean

(* IpcExact: a channel neither loses nor repeats nor reorders a message of *)
(* either side while its ring wraps, no charge exceeds a quota, and the    *)
(* self tests accept (ipc_channels.rs, resource_quotas.rs).                *)
IpcExact ==
    /\ part = "ipc" =>
          Ipc!TypeOK /\ Ipc!ChannelExact /\ Ipc!QuotaHolds /\ Ipc!SelfTestsAccept
    /\ part = "ipc quotas" =>
          /\ IpcQuotas!TypeOK /\ IpcQuotas!ChannelExact
          /\ IpcQuotas!QuotaHolds /\ IpcQuotas!SelfTestsAccept

(* ServicesSafe: every capability of a service comes from its policy and   *)
(* every grant is honoured, identities are distinct although they are      *)
(* given back and handed out again, and the self tests accept              *)
(* (service_identity.rs, dynamic_capabilities.rs, process.rs).             *)
ServicesSafe ==
    part = "services" =>
        /\ Services!TypeOK /\ Services!AuthorityFromPolicy /\ Services!GrantsHonoured
        /\ Services!IdentitiesDistinct /\ Services!SelfTestsAccept

(* SessionsSafe: a session proof is READY only when earned and never       *)
(* alarms without cause, and its page records what was drawn; in the       *)
(* normal session screen, presenter and session agree, an activation is    *)
(* real, events are delivered once and in order, the shell alone holds its *)
(* authority and every console line gets its reply                         *)
(* (session_runtime_probe.rs, normal_session.rs, session-runtime).         *)
SessionsSafe ==
    /\ part = "runtime proof" =>
          RuntimeProof!TypeOK /\ RuntimeProof!ReadyIsEarned /\ RuntimeProof!NoFalseAlarm
    /\ part = "bridge proof" =>
          BridgeProof!TypeOK /\ BridgeProof!ReadyIsEarned /\ BridgeProof!NoFalseAlarm
    /\ part = "viewing proof" =>
          /\ ViewingProof!TypeOK /\ ViewingProof!ReadyIsEarned
          /\ ViewingProof!NoFalseAlarm /\ ViewingProof!ScreenIsRecorded
    /\ part = "session input" =>
          /\ SessionInput!TypeOK /\ SessionInput!ScreenTracksSession
          /\ SessionInput!ActivationIsReal /\ SessionInput!DeliveryExact
          /\ SessionInput!TrackersAgree
    /\ part = "session motion" =>
          /\ SessionMotion!TypeOK /\ SessionMotion!ScreenTracksSession
          /\ SessionMotion!DeliveryExact /\ SessionMotion!TrackersAgree
    /\ part = "session console" =>
          SessionConsole!ShellAloneAuthorised /\ SessionConsole!RepliesMatchLines
    /\ part = "session lines" =>
          SessionLines!ShellAloneAuthorised /\ SessionLines!RepliesMatchLines

(* ProcessSteps: what a single step may never do.  Bytes, events and the   *)
(* machine are consumed with authority held at that moment, a failed call  *)
(* consumes nothing and only a graph leaves by the exit call; a shared     *)
(* region changes only to what a holder of WRITE wrote, and a message is   *)
(* accepted only from a holder of SEND; a process that ended is never      *)
(* scheduled again and a failure touches one service; a status line        *)
(* reports what is true when it is written.                                *)
ProcessSteps ==
    [][/\ (part = "boundary") =>
             /\ Boundary!ConsumedWithAuthority /\ Boundary!FailureConsumesNothing
             /\ Boundary!OnlyGraphsExit
       /\ (part = "boundary wait") =>
             /\ BoundaryWait!ConsumedWithAuthority
             /\ BoundaryWait!FailureConsumesNothing /\ BoundaryWait!OnlyGraphsExit
       /\ (part \in {"ipc", "ipc quotas"}) =>
             Ipc!RegionWrittenByHolder /\ Ipc!SentByHolder
       /\ (part = "services") => Services!EndedForGood /\ Services!FailureContained
       /\ (part \in {"session console", "session lines"}) => SessionConsole!StatusTruthful]_vars

(* ProcessWaits, ProcessServed: what has to be followed by what. *)
ProcessWaits ==
    \/ part = "ipc" /\ Ipc!Accepted = 3
    \/ part = "ipc quotas" /\ Ipc!Accepted = 2
    \/ part \in {"runtime proof", "viewing proof"}
    \/ part \in {"session input", "session motion"} /\ phase = "user" /\ sessionQueue.head # sessionQueue.tail
    \/ part \in {"session console", "session lines"} /\ phase = "user" /\ rx # <<>>
    \/ part \in {"session input", "session motion", "session console", "session lines"} /\ phase \in {"returned", "recover"}

ProcessServed ==
    \/ part \in {"ipc", "ipc quotas"} /\ channel.length = 0
    \/ part \in {"runtime proof", "viewing proof"} /\ pc = "end"
    \/ part \in {"session input", "session motion"} /\ phase = "user" /\ sessionQueue.head = sessionQueue.tail
    \/ part \in {"session console", "session lines"} /\ phase = "user" /\ rx = <<>>
    \/ part \in {"session input", "session motion", "session console", "session lines"} /\ phase \in {"shell", "fatal"}

(* ProcessProgress: a channel whose two sides keep receiving drains; the   *)
(* session proofs end whatever the devices do; an event in the ring and a  *)
(* byte at COM2, which raises no interrupt, reach the running session; and *)
(* a session that ended leads to the recovery shell or the fatal stop.     *)
ProcessProgress == ProcessWaits ~> ProcessServed
=============================================================================

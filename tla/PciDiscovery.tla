---------------------------- MODULE PciDiscovery ----------------------------
(***************************************************************************)
(* The PCI walk of the diagnostic images: scan_bus and scan_function of    *)
(* storage_probe, usb_xhci_probe and network_hardware_probe (the same code *)
(* three times), the bounded report each fills, the choice of a controller *)
(* from it, and what the storage image then does with an SD host.          *)
(*                                                                         *)
(* A function is what read_function tells of it: absent, a controller the  *)
(* probe wants most ("wanted": xHCI, SD host, non-Ethernet network), one   *)
(* of its class ("same"), another device, or a bridge to a bus.  Recursion *)
(* is a stack of frames; a frame points at the next function to read.      *)
(***************************************************************************)
EXTENDS Integers, Sequences, FiniteSets, SequencesExt

CONSTANTS
    Probes,         \* subset of {"storage", "usb", "network"}
    Buses,          \* 0..255 in the code
    Devices,        \* PCI_DEVICE_COUNT, 32 in the code
    Functions,      \* PCI_FUNCTION_COUNT, 8 in the code
    Capacity,       \* report capacity, 16 or 8 in the code
    Topologies,     \* bus -> device -> [multi, functions]
    Armed           \* hardware-probe-emmc-write, subset of BOOLEAN

DiscoveryBounds ==
    /\ {Devices, Functions, Capacity} \subseteq Nat \ {0} /\ 0 \in Buses

VARIABLES probe, pci, armed, pc, stack, visited, report, overflowed, selected, stages, wrote, marks

vars == <<probe, pci, armed, pc, stack, visited, report, overflowed, selected, stages, wrote, marks>>

world == <<probe, pci, armed>>

Positions == Buses \X (0..(Devices - 1)) \X (0..(Functions - 1))

Absent == [class |-> "absent", to |-> 0]

At(p) == pci[p[1]][p[2]].functions[p[3]]

Init ==
    /\ probe \in Probes /\ pci \in Topologies
    /\ armed \in (IF probe = "storage" THEN Armed ELSE {FALSE})
    /\ pc = "scan" /\ stack = <<<<0, 0, 0>>>> /\ visited = {0}
    /\ report = <<>> /\ overflowed = FALSE
    /\ selected = <<>> /\ stages = {} /\ wrote = FALSE /\ marks = {}

----------------------------------------------------------------------------
(* The walk. *)

(* classify, classify_usb_controller, classify_storage_controller. *)
Classified(p) == At(p).class \in {"wanted", "same"}

(* record: a full report only remembers that it overflowed. *)
Recorded(p) ==
    IF ~Classified(p) THEN [report |-> report, overflowed |-> overflowed]
    ELSE IF Len(report) >= Capacity THEN [report |-> report, overflowed |-> TRUE]
    ELSE [report |-> Append(report, p), overflowed |-> overflowed]

(* The function scan_bus reads next: functions 1 to 7 only of a present,   *)
(* multifunction device.                                                   *)
After(p) ==
    IF p[3] + 1 < Functions /\ (p[3] > 0 \/ (At(p).class # "absent" /\ pci[p[1]][p[2]].multi))
    THEN <<p[1], p[2], p[3] + 1>> ELSE <<p[1], p[2] + 1, 0>>

(* is_pci_to_pci_bridge with a secondary bus not seen before. *)
Enters(p) == At(p).class = "bridge" /\ At(p).to # 0 /\ At(p).to \notin visited

Top == stack[Len(stack)]

(* scan_function of the function on top, and the first lines of scan_bus   *)
(* for the bus behind it.                                                  *)
Scan ==
    /\ pc = "scan" /\ stack # <<>> /\ Top[2] < Devices
    /\ report' = Recorded(Top).report /\ overflowed' = Recorded(Top).overflowed
    /\ IF Enters(Top)
       THEN /\ stack' = Append([stack EXCEPT ![Len(stack)] = After(Top)], <<At(Top).to, 0, 0>>)
            /\ visited' = visited \cup {At(Top).to}
       ELSE stack' = [stack EXCEPT ![Len(stack)] = After(Top)] /\ UNCHANGED visited
    /\ UNCHANGED <<world, pc, selected, stages, wrote, marks>>

Return ==
    /\ pc = "scan" /\ stack # <<>> /\ Top[2] = Devices
    /\ stack' = Front(stack)
    /\ UNCHANGED <<world, pc, visited, report, overflowed, selected, stages, wrote, marks>>

Firsts(class) == {i \in DOMAIN report : At(report[i]).class = class
                                        /\ \A j \in 1..(i - 1) : At(report[j]).class # class}

(* first_xhci, select_sdhci_controller; preferred_controller falls back to *)
(* the first one.                                                          *)
Selected ==
    IF Firsts("wanted") # {} THEN {report[i] : i \in Firsts("wanted")}
    ELSE IF probe = "network" THEN {report[i] : i \in DOMAIN report \cap {1}}
    ELSE {}

Select ==
    /\ pc = "scan" /\ stack = <<>>
    /\ selected' = SetToSeq(Selected)
    /\ IF probe = "storage" /\ Selected # {} THEN pc' = "snapshot" /\ UNCHANGED marks
       ELSE /\ pc' = "done"
            /\ marks' = {"READY"} \cup (IF probe = "storage" /\ ~armed THEN {"NO_DISK_WRITES"} ELSE {})
    /\ UNCHANGED <<world, stack, visited, report, overflowed, stages, wrote>>

----------------------------------------------------------------------------
(* hardware_probe_boot::run with an SD host. *)

StageOrder == <<"snapshot", "initialize", "identify", "read", "write">>

(* The nested matches: a stage is only tried when the one before it was    *)
(* good, the write only in the armed build.                                *)
NextStage(s, ok) ==
    LET i == CHOOSE j \in 1..5 : StageOrder[j] = s
        last == IF armed THEN 5 ELSE 4
    IN IF ok /\ i < last THEN StageOrder[i + 1] ELSE "report"

(* One sdhci_probe call (SdhciEmmc), good or failed. *)
Stage ==
    /\ pc \in Range(StageOrder)
    /\ \E ok \in BOOLEAN :
        /\ stages' = IF ok THEN stages \cup {pc} ELSE stages
        /\ pc' = NextStage(pc, ok)
    /\ wrote' = (wrote \/ pc = "write")
    /\ UNCHANGED <<world, stack, visited, report, overflowed, selected, marks>>

Report ==
    /\ pc = "report" /\ pc' = "done"
    /\ marks' = {"READY"} \cup (IF armed THEN {} ELSE {"NO_DISK_WRITES"})
    /\ UNCHANGED <<world, stack, visited, report, overflowed, selected, stages, wrote>>

Halt == pc = "done" /\ UNCHANGED vars

Next == Scan \/ Return \/ Select \/ Stage \/ Report \/ Halt

(* One core runs the walk and nothing interrupts it. *)
Spec == Init /\ [][Next]_vars /\ WF_vars(Next)

----------------------------------------------------------------------------
(* Properties. *)

(* The recursion of scan_bus stays within one frame per bus (the kernel    *)
(* stack has room for a bounded depth only), and the report within its     *)
(* capacity.                                                               *)
TypeOK ==
    /\ Len(stack) <= Cardinality(Buses)
    /\ \A i \in DOMAIN stack : stack[i] \in Buses \X (0..Devices) \X (0..(Functions - 1))
    /\ visited \subseteq Buses
    /\ Len(report) <= Capacity /\ \A i \in DOMAIN report : report[i] \in Positions

(* The functions a bus shows to a scan. *)
Visible(b) ==
    {p \in Positions : /\ p[1] = b /\ At(p).class # "absent"
                       /\ p[3] > 0 => (At(<<b, p[2], 0>>).class # "absent" /\ pci[b][p[2]].multi)}

(* The buses that bridges lead to from bus 0. *)
Reachable ==
    LET grow(bs) == bs \cup {At(p).to : p \in {q \in UNION {Visible(b) : b \in bs} :
                                                 At(q).class = "bridge"}}
        layer[n \in 0..Cardinality(Buses)] == IF n = 0 THEN {0} ELSE grow(layer[n - 1])
    IN layer[Cardinality(Buses)]

Controllers == {p \in UNION {Visible(b) : b \in Reachable} : Classified(p)}

(* A finished walk has reported each controller that bridges lead to once  *)
(* and nothing else, up to the capacity, and says so when there were more, *)
(* whatever loops and shared secondary buses the bridges form.             *)
WalkExact ==
    (pc # "scan") =>
        /\ Range(report) \subseteq Controllers
        /\ \A i, j \in DOMAIN report : i # j => report[i] # report[j]
        /\ overflowed <=> Cardinality(Controllers) > Capacity
        /\ ~overflowed => Range(report) = Controllers

(* The storage and USB images only touch a controller of the wanted kind,  *)
(* and find one whenever there is one, unless the report overflowed.       *)
SelectionSound ==
    (pc # "scan") =>
        /\ probe # "network" => \A i \in DOMAIN selected : At(selected[i]).class = "wanted"
        /\ selected = <<>> => overflowed \/ \A p \in Controllers :
                                              probe # "network" /\ At(p).class # "wanted"

(* The eMMC is only written by the armed build, after every stage before   *)
(* it was good on the same controller, and NO_DISK_WRITES is true.         *)
WriteIsEarned ==
    /\ wrote => armed /\ {"snapshot", "initialize", "identify", "read"} \subseteq stages
    /\ "NO_DISK_WRITES" \in marks => ~wrote

=============================================================================

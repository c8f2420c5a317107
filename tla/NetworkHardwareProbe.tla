------------------------ MODULE NetworkHardwareProbe ------------------------
(***************************************************************************)
(* The network hardware diagnostic images (ADR 0106 to 0109): after the    *)
(* PCI walk (PciDiscovery) has chosen a controller, the BAR image reports  *)
(* its six base address registers, the capability image walks its          *)
(* capability list, the register image reads one device register if memory *)
(* space is enabled, and the enable image turns memory space on for that   *)
(* read and restores the command word.                                     *)
(*                                                                         *)
(* Configuration space is scaled: a BAR dword has WordSize values with the *)
(* code's four flag bits, a window is WindowLen bytes; capability pointers *)
(* run over FirstPointer..ConfigTop in steps of PointerAlign.  The device  *)
(* decides whether a command write takes effect; a mapping or a screen may *)
(* fail.  Serial wording and screen contents are left out.                 *)
(***************************************************************************)
EXTENDS Integers, Sequences, FiniteSets

CONSTANTS
    Images,         \* subset of {"bar", "capability", "register", "enable"}
    Controllers,    \* subset of {"none", "intel", "realtek", "other"}
    Slots,          \* BAR slots, 6 in the code
    RealtekSlot,    \* 2 in the code
    WordSize,       \* 2^32 in the code
    WindowLen,      \* NETWORK_REGISTER_WINDOW_LEN, 0x1000 in the code
    BarWords,       \* BAR dwords explored
    Commands,       \* command words at boot: sets of bits
    FirstPointer, PointerAlign, ConfigTop,  \* 0x40, 4 and 0xFF in the code
    MaxEntries,     \* MAX_CAPABILITY_ENTRIES, 48 in the code
    PmHeader,       \* header length of the recognized capability
    Pointers        \* capability pointers explored

NetworkProbeBounds ==
    /\ {Slots, WordSize, WindowLen, MaxEntries, PmHeader} \subseteq Nat \ {0}
    /\ RealtekSlot \in 0..(Slots - 1) /\ BarWords \subseteq 0..(WordSize - 1)
    /\ WordSize % WindowLen = 0 /\ WindowLen % 16 = 0
    /\ Pointers \subseteq 0..ConfigTop

VARIABLES
    image, pc, controller,
    raw,            \* the BAR dwords
    command,        \* external: the device's command bits
    list,           \* external: [present, first, next, id] capability bytes
    layout,         \* NetworkBarLayout: [bars, malformed]
    current, entries, pm, failure,  \* parse_capability_list
    plan,           \* physical base of the window, -1 before
    original, wrote,                \* the command word read first; command written
    touched,        \* command bits when the register was read, or "no"
    marks

vars == <<image, pc, controller, raw, command, list, layout, current, entries, pm, failure, plan,
          original, wrote, touched, marks>>

setup == <<image, controller, raw, list>>
walk == <<current, entries, pm, failure>>
target == <<layout, plan>>
transition == <<original, wrote, touched>>

ValidPointer(o) == o \in FirstPointer..ConfigTop /\ o % PointerAlign = 0

Offsets == {o \in FirstPointer..ConfigTop : ValidPointer(o)}

NoList == [present |-> FALSE, first |-> 0, next |-> [o \in Offsets |-> 0],
           id |-> [o \in Offsets |-> "unknown"]]

NoBar == [kind |-> "none", base |-> 0]

NoLayout == [bars |-> [s \in 0..(Slots - 1) |-> NoBar], malformed |-> FALSE]

Lists == [present : BOOLEAN, first : Pointers, next : [Offsets -> Pointers],
          id : [Offsets -> {"pm", "unknown"}]]

Init ==
    /\ image \in Images /\ pc = "scan" /\ controller \in Controllers
    /\ IF image = "capability" THEN raw = [s \in 0..(Slots - 1) |-> 0] /\ list \in Lists
                               ELSE raw \in [0..(Slots - 1) -> BarWords] /\ list = NoList
    /\ command \in Commands
    /\ layout = NoLayout /\ current = 0 /\ entries = <<>> /\ pm = 0 /\ failure = "none"
    /\ plan = -1 /\ original = {} /\ wrote = FALSE /\ touched = {"no"}
    /\ marks = {}

----------------------------------------------------------------------------
(* The controller. *)

Found ==
    /\ pc = "scan" /\ controller # "none"
    /\ pc' = CASE image = "bar" -> "bars" [] image = "capability" -> "header" [] OTHER -> "setup"
    /\ UNCHANGED <<setup, command, walk, target, transition, marks>>

(* The BAR and capability images end without READY; the other two skip. *)
NotFound ==
    /\ pc = "scan" /\ controller = "none"
    /\ pc' = IF image \in {"bar", "capability"} THEN "done" ELSE "skip"
    /\ UNCHANGED <<setup, command, walk, target, transition, marks>>

----------------------------------------------------------------------------
(* BARs. *)

(* What the low dword alone says of a slot. *)
BarKind(w) == CASE w = 0 -> "none"
                [] w # 0 /\ w % 2 = 1 -> "io"
                [] w # 0 /\ w % 8 = 0 -> "memory32"
                [] w # 0 /\ w % 8 = 2 -> "below1m"
                [] w # 0 /\ w % 8 = 4 -> "memory64"
                [] w % 8 = 6 -> "reserved"

LowBase(w) == w - (w % (IF BarKind(w) = "io" THEN 4 ELSE 16))

(* The slots decode_bar_layout stops at: all but the second half of a pair.*)
Scanned(r) ==
    LET at[s \in 0..(Slots - 1)] ==
            s = 0 \/ ~(at[s - 1] /\ BarKind(r[s - 1]) = "memory64")
    IN at

(* decode_bar_layout. *)
DecodeBarLayout(r) ==
    LET scanned == Scanned(r)
        last == Slots - 1
        bad(s) == scanned[s] /\ (BarKind(r[s]) = "reserved" \/ (BarKind(r[s]) = "memory64" /\ s = last))
    IN [bars |-> [s \in 0..last |->
                    IF ~scanned[s] \/ BarKind(r[s]) = "none" \/ bad(s) THEN NoBar
                    ELSE [kind |-> BarKind(r[s]),
                          base |-> LowBase(r[s])
                                   + (IF BarKind(r[s]) = "memory64" THEN WordSize * r[s + 1] ELSE 0)]],
        malformed |-> \E s \in 0..last : bad(s)]

(* is_consumed_high_slot, the report's own test. *)
ConsumedHighSlot(l, s) == s > 0 /\ l.bars[s - 1].kind = "memory64"

ReportBars ==
    /\ pc = "bars" /\ pc' = "done"
    /\ layout' = DecodeBarLayout(raw)
    /\ marks' \in {{"READY", "SCREEN"}, {"SCREEN_FAILED"}}
    /\ UNCHANGED <<setup, command, walk, plan, transition>>

----------------------------------------------------------------------------
(* The capability list. *)

ReadHeader ==
    /\ pc = "header"
    /\ current' = IF list.present THEN list.first ELSE 0
    /\ pc' = "walk"
    /\ UNCHANGED <<setup, command, entries, pm, failure, target, transition, marks>>

HeaderLen(id) == IF id = "pm" THEN PmHeader ELSE 1

(* What parse_capability_list finds wrong with the current pointer, in the *)
(* order it looks.                                                         *)
WalkError ==
    LET seen == \E i \in DOMAIN entries : entries[i] = current
    IN CASE Len(entries) = MaxEntries -> "limit"
         [] Len(entries) < MaxEntries /\ ~ValidPointer(current) -> "pointer"
         [] Len(entries) < MaxEntries /\ ValidPointer(current) /\ seen -> "repeated"
         [] Len(entries) < MaxEntries /\ ValidPointer(current) /\ ~seen
              /\ list.id[current] = "pm" /\ current + HeaderLen("pm") - 1 > ConfigTop -> "header"
         [] OTHER -> "none"

(* record_first_offset. *)
FirstOffset(id) == IF id = "pm" /\ pm = 0 THEN current ELSE pm

Walk ==
    /\ pc = "walk" /\ current # 0 /\ WalkError = "none"
    /\ entries' = Append(entries, current)
    /\ pm' = FirstOffset(list.id[current])
    /\ current' = list.next[current]
    /\ UNCHANGED <<pc, setup, command, failure, target, transition, marks>>

WalkFails ==
    /\ pc = "walk" /\ current # 0 /\ WalkError # "none"
    /\ failure' = WalkError /\ pc' = "done"
    /\ marks' \in {{"MALFORMED", "SCREEN"}, {"MALFORMED", "SCREEN_FAILED"}}
    /\ UNCHANGED <<setup, command, current, entries, pm, target, transition>>

WalkEnds ==
    /\ pc = "walk" /\ current = 0 /\ pc' = "done"
    /\ marks' \in {{"READY", "SCREEN"}, {"SCREEN_FAILED"}}
    /\ UNCHANGED <<setup, command, walk, target, transition>>

----------------------------------------------------------------------------
(* The one register. *)

(* prepare_target_plan: the window's base, or -1. *)
TargetPlan(l) ==
    LET bar == l.bars[IF controller = "realtek" THEN RealtekSlot ELSE 0]
    IN IF \/ controller = "other" \/ l.malformed
          \/ bar.kind \in {"none", "io"}
          \/ bar.base % WindowLen # 0
          \/ bar.base + WindowLen >= WordSize * WordSize
       THEN -1 ELSE bar.base

(* discover_setup, discover_enable_setup: only the enable image may start  *)
(* with memory space off.                                                  *)
Setup ==
    /\ pc = "setup"
    /\ original' = command /\ layout' = DecodeBarLayout(raw)
    /\ plan' = IF image = "register" /\ "MSE" \notin command THEN -1
               ELSE TargetPlan(DecodeBarLayout(raw))
    /\ pc' = IF plan' = -1 THEN "skip" ELSE "map"
    /\ UNCHANGED <<setup, command, walk, wrote, touched, marks>>

(* emit_skip. *)
Skip ==
    /\ pc = "skip" /\ pc' = "done"
    /\ marks' \in {{"SKIPPED", "READY", "SCREEN"}, {"SKIPPED", "READY", "SCREEN_FAILED"}}
    /\ UNCHANGED <<setup, command, walk, target, transition>>

Failed(m) == pc' = "done" /\ marks' = marks \cup m

MapWindow ==
    /\ pc = "map"
    /\ \/ pc' = (IF image = "enable" /\ "MSE" \notin original THEN "write" ELSE "read")
          /\ UNCHANGED marks
       \/ Failed(IF image = "enable" THEN {"FAILED"} ELSE {"SKIPPED", "READY"})
    /\ UNCHANGED <<setup, command, walk, target, transition>>

(* A command write takes effect, or leaves what the device makes of it. *)
Writes(c) == command' \in {c} \cup SUBSET {"MSE", "BM"}

(* write_controller_command_word with memory space on; refused if bus      *)
(* mastering is on.                                                        *)
WriteEnable ==
    /\ pc = "write"
    /\ IF "BM" \in original
       THEN Failed({"FAILED"}) /\ UNCHANGED <<command, wrote>>
       ELSE Writes(original \cup {"MSE"}) /\ wrote' = TRUE /\ pc' = "readback" /\ UNCHANGED marks
    /\ UNCHANGED <<setup, walk, target, original, touched>>

(* Mutant: a failed readback ends the probe at once. *)
EnableReadbackGivesUp ==
    /\ pc = "readback"
    /\ IF command = original \cup {"MSE"} THEN pc' = "read" /\ UNCHANGED marks
       ELSE Failed({"FAILED"})
    /\ UNCHANGED <<setup, command, walk, target, transition>>

(* validate_enable_readback; a failure restores (fail_after_write). *)
EnableReadback ==
    /\ pc = "readback"
    /\ pc' = IF command = original \cup {"MSE"} THEN "read" ELSE "undo"
    /\ UNCHANGED <<setup, command, walk, target, transition, marks>>

ReadRegister ==
    /\ pc = "read"
    /\ touched' = command
    /\ IF wrote THEN pc' = "restore" /\ UNCHANGED marks
       ELSE IF image = "enable" THEN pc' = "screen" /\ UNCHANGED marks
       ELSE pc' = "done" /\ marks' = {"REACHABLE", "READY"}
    /\ UNCHANGED <<setup, command, walk, target, original, wrote>>

(* The original word is written back and read back. *)
Restore ==
    /\ pc \in {"restore", "undo"}
    /\ Writes(original)
    /\ CASE command' # original -> Failed({"RESTORE_FAILED", "FAILED"})
         [] command' = original /\ pc = "undo" -> Failed({"FAILED"})
         [] OTHER -> pc' = "screen" /\ UNCHANGED marks
    /\ UNCHANGED <<setup, walk, target, transition>>

EnableScreen ==
    /\ pc = "screen"
    /\ \/ Failed({"REACHABLE", "READY"})
       \/ Failed({"FAILED"})
    /\ UNCHANGED <<setup, command, walk, target, transition>>

Halt == pc = "done" /\ UNCHANGED vars

Next == \/ Found \/ NotFound \/ ReportBars \/ ReadHeader \/ Walk \/ WalkFails \/ WalkEnds
        \/ Setup \/ Skip \/ MapWindow \/ WriteEnable \/ EnableReadback \/ ReadRegister
        \/ Restore \/ EnableScreen \/ Halt

Spec == Init /\ [][Next]_vars

----------------------------------------------------------------------------
(* Properties. *)

(* Every variable has its kind; the capability table never overflows,      *)
(* and the planned window never wraps the address space.                   *)
TypeOK ==
    /\ Len(entries) <= MaxEntries /\ \A i \in DOMAIN entries : ValidPointer(entries[i])
    /\ current \in 0..ConfigTop /\ pm \in {0} \cup Offsets
    /\ failure \in {"none", "limit", "pointer", "repeated", "header"}
    /\ plan \in {-1} \cup 0..(WordSize * WordSize - WindowLen - 1)
    /\ command \subseteq {"MSE", "BM"} /\ wrote \in BOOLEAN

(* Every nonzero BAR dword is reported exactly once: as a BAR of its own,  *)
(* as the high half of the one before it, or as malformed.  The decoder's  *)
(* skipping and the report's own test for it agree on every layout.        *)
EveryBarReportedOnce ==
    (pc = "done" /\ layout # NoLayout) =>
        \A s \in 0..(Slots - 1) :
            /\ ConsumedHighSlot(layout, s) => layout.bars[s] = NoBar
            /\ (~ConsumedHighSlot(layout, s) /\ raw[s] # 0 /\ layout.bars[s] = NoBar)
                    => layout.malformed

(* The pointers of the list, followed without any bookkeeping. *)
Chain ==
    LET at[n \in 0..(MaxEntries + 1)] ==
            IF n = 0 THEN list.first
            ELSE IF ValidPointer(at[n - 1]) THEN list.next[at[n - 1]] ELSE at[n - 1]
    IN at

WellFormed(n) ==
    /\ Chain[n] = 0
    /\ \A i \in 0..(n - 1) : /\ ValidPointer(Chain[i])
                             /\ Chain[i] + HeaderLen(list.id[Chain[i]]) - 1 <= ConfigTop

(* parse_capability_list accepts exactly the lists whose pointers lead to  *)
(* zero through valid offsets and headers that fit, and then reports all   *)
(* of them in order and the first power management entry.                  *)
CapabilityWalkExact ==
    (image = "capability" /\ pc = "done" /\ controller # "none" /\ list.present) =>
        /\ failure = "none" <=> \E n \in 0..MaxEntries : WellFormed(n)
        /\ failure = "none" =>
             /\ entries = [i \in 1..Len(entries) |-> Chain[i - 1]]
             /\ pm = IF \E i \in DOMAIN entries : list.id[entries[i]] = "pm"
                     THEN entries[CHOOSE i \in DOMAIN entries :
                            /\ list.id[entries[i]] = "pm"
                            /\ \A j \in 1..(i - 1) : list.id[entries[j]] # "pm"]
                     ELSE 0

(* The register is only read while the device decodes memory. *)
ReadWhileDecoding == touched # {"no"} => "MSE" \in touched

(* The probe leaves the device as it found it, or says that it could not. *)
CommandRestored == (pc = "done" /\ controller # "none" /\ original # command /\ plan # -1)
                        => "RESTORE_FAILED" \in marks

(* READY means what the decisions say: in the capability and BAR images a  *)
(* rendered result of a well-formed walk; reachability only with the       *)
(* register read and the command word as it was.                           *)
ReadyMeans ==
    "READY" \in marks =>
        /\ image \in {"bar", "capability"} => "SCREEN" \in marks /\ failure = "none"
        /\ "REACHABLE" \in marks <=> touched # {"no"}
        /\ "REACHABLE" \in marks => command = original /\ "FAILED" \notin marks

=============================================================================

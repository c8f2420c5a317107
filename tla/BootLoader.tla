----------------------------- MODULE BootLoader -----------------------------
(* efi_main: the UEFI loader that reads PYTHCORE.ELF, INIT.PAK and the font, *)
(* builds the first page tables, retains the firmware's memory map, leaves   *)
(* boot services and jumps into the kernel, whose first act                  *)
(* (memory::physical::initialize) is to decide from that map which frames    *)
(* are free.  The firmware is external: it places allocations where it       *)
(* likes, fails any of them, and allocates and frees on its own timer events *)
(* until boot services end, each time changing the map and its key.          *)
(*                                                                           *)
(* Addresses are scaled: a page is PageBytes bytes, a page table PtEntries   *)
(* pages, a "GiB" two page tables.  Physical frames run 0..TopFrame; the     *)
(* first PtEntries of them stand for the first 2 MiB, the ones from Limit on *)
(* for what lies above 4 GiB.                                                *)
EXTENDS Integers, Sequences, FiniteSets, SequencesExt

CONSTANTS Machines,       \* which of "big", "small", "low" and "old" machines boot
          Images,         \* PYTHCORE.ELF files found on the boot volume
          Modes,          \* mode lists of the graphics output protocol
          TablePool,      \* TABLE_POOL_PAGES
          ExtraCapacity,  \* EXTRA_DESCRIPTOR_CAPACITY
          MaxTicks        \* bound: firmware events that change the map

PoolAssumption == TablePool \in Nat \ {0}
TickAssumption == MaxTicks \in Nat /\ ExtraCapacity \in Nat

VARIABLES machine,    \* gib, high, low, top: the CPU and the firmware's placement
          elf, modes, \* the kernel file and the display modes
          pc,         \* the next statement of efi_main
          mem,        \* frame |-> type in the firmware's memory map
          key,        \* the firmware's map key
          ticks,
          own,        \* object |-> the frames it lives in
          scratch,    \* what a file read still holds: pool frames, handles
          segments,   \* LoadedKernel.segments
          tables,     \* BootPageTables: nodes, leaves
          fb,         \* the framebuffer: base frame and pages
          captured,   \* CapturedMemoryMap: len, capacity, map_key
          buffer,     \* the descriptors in the retained map buffer
          info,       \* PythBootInfo.memory_map_len, in descriptors
          free        \* the kernel's free frames

vars == <<machine, elf, modes, pc, mem, key, ticks, own, scratch, segments,
          tables, fb, captured, buffer, info, free>>

PageBytes == 2
PtEntries == 3
GiB == 2 * PtEntries
TopFrame == 4 * GiB - 1
Limit == 3 * GiB             \* 4 GiB: MAX_MANAGED_PAGES, IDENTITY_MAP_FALLBACK_END
Hole == Limit - PtEntries - 1   \* where memory below 4 GiB gives way to devices
Objects == {"image", "log", "kernel", "pak", "font", "info", "stack", "tables", "map"}

(* fail(): the marker, a red screen, and out. *)
Fail == pc' = "failed"

(***************************************************************************)
(* The firmware (external): the memory map and its allocator.              *)
(***************************************************************************)

(* The map is a list of maximal runs of frames of one type. *)
RunStarts(m) == {f \in 0..TopFrame : f = 0 \/ m[f - 1] # m[f]}

RunEnd(m, f) == CHOOSE e \in f + 1..TopFrame + 1 :
                    /\ \A g \in f..e - 1 : m[g] = m[f]
                    /\ e = TopFrame + 1 \/ m[e] # m[f]

Descriptors(m) ==
    LET starts == SelectSeq([n \in 1..TopFrame + 1 |-> n - 1], LAMBDA f : f \in RunStarts(m))
    IN  [n \in DOMAIN starts |->
           [start |-> starts[n], end |-> RunEnd(m, starts[n]), type |-> m[starts[n]]]]

(* The runs of n conventional frames, and the one the firmware hands out. *)
Conventional(m) == {f \in 1..TopFrame : m[f] = "conv"}

Fits(conv, n) == {f \in conv : \A g \in f..f + n - 1 : g \in conv}

Placed(conv, n) ==
    LET starts == Fits(conv, n)
        first == IF machine.top THEN CHOOSE f \in starts : \A g \in starts : g <= f
                                ELSE CHOOSE f \in starts : \A g \in starts : f <= g
    IN  first..first + n - 1

Taken(m, frames) == [f \in DOMAIN m |-> IF f \in frames THEN "loader" ELSE m[f]]

Released(m, frames) == [f \in DOMAIN m |-> IF f \in frames THEN "conv" ELSE m[f]]

(* AllocatePages or AllocatePool of LOADER_DATA for object o. *)
Allocate(o, n) ==
    /\ Fits(Conventional(mem), n) # {}
    /\ LET frames == Placed(Conventional(mem), n)
       IN  /\ mem' = Taken(mem, frames)
           /\ own' = [own EXCEPT ![o] = frames]
    /\ key' = key + 1

(***************************************************************************)
(* graphics.rs                                                             *)
(***************************************************************************)

IsDirect(mode) == mode \in {"preferred", "direct"}

(* The first direct 1024x768 mode, or else the first direct mode; 0 when the *)
(* display can only be drawn to through the firmware.                        *)
SelectMode(list) ==
    LET direct == {n \in DOMAIN list : IsDirect(list[n])}
        wanted == {n \in direct : list[n] = "preferred"}
        least(S) == CHOOSE n \in S : \A k \in S : n <= k
    IN  CASE wanted # {} -> least(wanted)
          [] wanted = {} /\ direct # {} -> least(direct)
          [] OTHER -> 0

(***************************************************************************)
(* elf.rs                                                                  *)
(***************************************************************************)

Overlap(s, t) == s.vaddr < t.vaddr + t.memsz /\ t.vaddr < s.vaddr + s.memsz

ValidSegment(file, n) ==
    LET s == file.segments[n]
    IN  /\ s.filesz <= s.memsz /\ s.memsz # 0
        /\ ~(s.w /\ s.x)
        /\ s.align \in {1, 2, 4, 8}
        /\ s.vaddr >= 0                      \* KERNEL_VIRT_MIN
        /\ s.offset + s.filesz <= file.len
        /\ s.vaddr % s.align = s.offset % s.align
        /\ \A k \in 1..n - 1 : ~Overlap(s, file.segments[k])

EntryIsExecutable(file) ==
    \E n \in DOMAIN file.segments :
        LET s == file.segments[n]
        IN  s.x /\ file.entry >= s.vaddr /\ file.entry < s.vaddr + s.memsz

ValidateElf(file) ==
    /\ file.header
    /\ Len(file.segments) \in 1..16
    /\ \A n \in DOMAIN file.segments : ValidSegment(file, n)
    /\ EntryIsExecutable(file)

PageCount(bytes) == (bytes + PageBytes - 1) \div PageBytes

(* load_segments, one segment after the other: the frames each one got, or   *)
(* an early end when the firmware has no run that long.                      *)
LoadSegments(file, conventional) ==
    LET Load(acc, s) ==
          LET n == PageCount(s.memsz)
          IN  IF ~acc.ok \/ Fits(acc.conv, n) = {} THEN [acc EXCEPT !.ok = FALSE]
              ELSE LET frames == Placed(acc.conv, n)
                       base == CHOOSE f \in frames : f - 1 \notin frames
                   IN  [ok |-> TRUE,
                        conv |-> {f \in acc.conv : f \notin frames},
                        frames |-> acc.frames \cup frames,
                        loaded |-> Append(acc.loaded,
                           [phys |-> base, vaddr |-> s.vaddr, pages |-> n,
                            w |-> s.w, x |-> s.x])]
    IN  FoldLeft(Load, [ok |-> TRUE, conv |-> conventional, frames |-> {}, loaded |-> <<>>],
                 file.segments)

(***************************************************************************)
(* paging.rs: a table is named by the indices that lead to it, a leaf by    *)
(* all of its indices; two indices make a 1 GiB page, three a 2 MiB page.   *)
(***************************************************************************)

EmptyTables == [ok |-> TRUE, nodes |-> {<<>>}, leaves |-> <<>>]

EnsureTable(t, path) ==
    CASE ~t.ok \/ path \in t.nodes -> t
      [] path \in DOMAIN t.leaves -> [t EXCEPT !.ok = FALSE]
      [] Cardinality(t.nodes) >= TablePool -> [t EXCEPT !.ok = FALSE]
      [] OTHER -> [t EXCEPT !.nodes = @ \cup {path}]

MapPage(t, page) ==
    LET at == FoldLeft(LAMBDA u, n : EnsureTable(u, SubSeq(page.virt, 1, n)),
                       t, [n \in 1..Len(page.virt) - 1 |-> n])
    IN  IF ~at.ok \/ page.virt \in (DOMAIN at.leaves) \cup at.nodes
        THEN [at EXCEPT !.ok = FALSE]
        ELSE [at EXCEPT !.leaves = @ @@ (page.virt :> page)]

Page(virt, frame, w, x) == [virt |-> virt, frame |-> frame, w |-> w, x |-> x]

(* Mutant: the loop with 1 GiB pages stops where the other one does. *)
MutMapIdentity(gib) ==
    <<Page(<<0, 0, 1>>, PtEntries, TRUE, TRUE)>>
    \o (IF gib THEN [n \in 1..2 |-> Page(<<0, n>>, n * GiB, TRUE, TRUE)]
        ELSE [n \in 1..4 |-> Page(<<0, 1 + (n - 1) \div 2, (n - 1) % 2>>,
                                  GiB + (n - 1) * PtEntries, TRUE, TRUE)])

(* map_identity: the first 2 MiB stay out; 1 GiB pages to the top where the   *)
(* CPU has them, 2 MiB pages to 4 GiB where it has not.                      *)
MapIdentity(gib) ==
    <<Page(<<0, 0, 1>>, PtEntries, TRUE, TRUE)>>
    \o (IF gib THEN [n \in 1..3 |-> Page(<<0, n>>, n * GiB, TRUE, TRUE)]
        ELSE [n \in 1..4 |-> Page(<<0, 1 + (n - 1) \div 2, (n - 1) % 2>>,
                                  GiB + (n - 1) * PtEntries, TRUE, TRUE)])

Window(slot, first, frame, pages, w, x) ==
    [n \in 1..pages |->
       Page(<<slot, 0, (first + n - 1) \div PtEntries, (first + n - 1) % PtEntries>>,
            frame + n - 1, w, x)]

DeviceSlot == 1
StackSlot == 2
KernelSlot == 3

(* One kernel segment with the permissions of its flags. *)
MapSegment(s) ==
    Window(KernelSlot, s.vaddr \div PageBytes, s.phys, s.pages, s.w /\ ~s.x, s.x)

(* A segment that does not start on a page is refused by map_4k. *)
Aligned(loaded) == \A n \in DOMAIN loaded : loaded[n].vaddr % PageBytes = 0

Build(gib, loaded, frame, stack) ==
    LET kernel == FoldLeft(LAMBDA acc, s : acc \o MapSegment(s), <<>>, loaded)
        pages == MapIdentity(gib) \o kernel
                 \o Window(DeviceSlot, 0, frame.base, frame.pages, TRUE, FALSE)
                 \o Window(StackSlot, 1, stack, 1, TRUE, FALSE)
        built == FoldLeft(MapPage, EmptyTables, pages)
    IN  [built EXCEPT !.ok = @ /\ Aligned(loaded)]

(* The pages through which a frame can be read at its physical address. *)
Identity(t, f) ==
    LET path == <<0, f \div GiB, (f % GiB) \div PtEntries>>
    IN  \E n \in 2..3 : SubSeq(path, 1, n) \in DOMAIN t.leaves

(***************************************************************************)
(* Initial states.                                                         *)
(***************************************************************************)

(* "big": 1 GiB pages and memory above 4 GiB; "small": neither; "old": memory *)
(* above 4 GiB and no 1 GiB pages; "low": the first 2 MiB are conventional    *)
(* too.                                                                      *)
FirstMap(kind) ==
    [f \in 0..TopFrame |->
       CASE f = 0 -> "boot"
         [] f \in 1..PtEntries - 1 -> IF kind = "low" THEN "conv" ELSE "boot"
         [] f \in PtEntries..Hole - 1 -> "conv"
         [] f \in Hole..Limit - 1 -> "mmio"
         [] f \in Limit..Limit + 3 -> IF kind \in {"big", "old"} THEN "conv" ELSE "absent"
         [] OTHER -> "mmio"]

Framebuffers == {[base |-> Hole, pages |-> 1],
                 [base |-> Hole, pages |-> PtEntries + 1],
                 [base |-> TopFrame, pages |-> 1]}

Init ==
    /\ \E kind \in Machines, top \in BOOLEAN :
          /\ machine = [kind |-> kind, gib |-> kind \notin {"small", "old"}, top |-> top]
          /\ mem = Taken(FirstMap(kind), Placed(Conventional(FirstMap(kind)), 1))
          /\ own = [o \in Objects |-> IF o = "image" THEN Placed(Conventional(FirstMap(kind)), 1)
                                                     ELSE {}]
    /\ elf \in Images /\ modes \in Modes
    /\ fb \in Framebuffers
    /\ pc = "log" /\ key = 1 /\ ticks = 0
    /\ scratch = [pool |-> {}, handles |-> {}]
    /\ segments = <<>> /\ tables = EmptyTables
    /\ captured = [len |-> 0, capacity |-> 0, map_key |-> 0]
    /\ buffer = <<>> /\ info = 0 /\ free = {}

(***************************************************************************)
(* efi_main.                                                               *)
(***************************************************************************)

Rest == <<machine, elf, modes, fb, ticks>>
Handed == <<captured, buffer, info, free>>

(* The evidence log is optional: a machine without room for it boots on. *)
AllocateLog ==
    /\ pc = "log" /\ pc' = "gop"
    /\ \/ Allocate("log", 1)
       \/ UNCHANGED <<mem, own, key>>
    /\ UNCHANGED <<Rest, Handed, scratch, segments, tables>>

InitializeGop ==
    /\ pc = "gop"
    /\ \/ SelectMode(modes) # 0 /\ pc' = "kernel_file"
       \/ Fail                       \* no protocol, no direct mode, SetMode failed
    /\ UNCHANGED <<Rest, Handed, mem, own, key, scratch, segments, tables>>

(* read_*_file: open the volume and the file, take a pool of the largest size *)
(* allowed, read, close both.  A missing file, a failed or empty read and a   *)
(* file that fills the pool all give everything back.                        *)
ReadFile(from, to) ==
    /\ pc = from
    /\ \/ /\ Fits(Conventional(mem), 1) # {}
          /\ LET pool == Placed(Conventional(mem), 1)
             IN  /\ mem' = Taken(mem, pool)
                 /\ scratch' = [pool |-> pool, handles |-> {}]
          /\ key' = key + 1
          /\ pc' = to
       \/ Fail /\ UNCHANGED <<mem, key, scratch>>
    /\ UNCHANGED <<Rest, Handed, own, segments, tables>>

(* free_pool after the contents were used, whatever came of them. *)
FreePool(m) ==
    /\ mem' = Released(m, scratch.pool)
    /\ scratch' = [scratch EXCEPT !.pool = {}]

LoadPythcore ==
    /\ pc = "kernel_load"
    /\ LET load == LoadSegments(elf, Conventional(mem))
       IN  IF ValidateElf(elf)
           THEN /\ FreePool(Taken(mem, load.frames))
                /\ own' = [own EXCEPT !["kernel"] = load.frames]
                /\ segments' = load.loaded
                /\ IF load.ok THEN pc' = "pak_file" ELSE Fail
           ELSE FreePool(mem) /\ Fail /\ UNCHANGED <<own, segments>>
    /\ key' = key + 1
    /\ UNCHANGED <<Rest, Handed, tables>>

(* load_init_pak and load_font: pages of their own for the contents, then    *)
(* the pool goes back; a bad INIT.PAK or a failed allocation frees it too.    *)
LoadBlob(o, from, to) ==
    /\ pc = from
    /\ \/ /\ Fits(Conventional(mem), 1) # {} /\ pc' = to
          /\ own' = [own EXCEPT ![o] = Placed(Conventional(mem), 1)]
          /\ FreePool(Taken(mem, Placed(Conventional(mem), 1)))
       \/ Fail /\ FreePool(mem) /\ UNCHANGED own
    /\ key' = key + 1
    /\ UNCHANGED <<Rest, Handed, segments, tables>>

ReadKernelFile == ReadFile("kernel_file", "kernel_load")
ReadInitFile == ReadFile("pak_file", "pak_load")
ReadFontFile == ReadFile("font_file", "font_load")

LoadInitPak == LoadBlob("pak", "pak_load", "font_file")
LoadFont == LoadBlob("font", "font_load", "firmware")

(* An ACPI or SMBIOS table: absent, found in its newer or its older form, or  *)
(* found with a length or checksum that does not hold.                        *)
TableStates == {"absent", "new", "old", "corrupt"}

(* The newer form is looked for first; only a table that checks out counts.   *)
Usable(found) == found \in {"new", "old"}

(* firmware::discover: an RSDP and an SMBIOS entry that check out. *)
DiscoverTables ==
    /\ pc = "firmware"
    /\ \E rsdp, smbios \in TableStates :
          IF Usable(rsdp) /\ Usable(smbios) THEN pc' = "info" ELSE Fail
    /\ UNCHANGED <<Rest, Handed, mem, own, key, scratch, segments, tables>>

AllocateFor(o, from, to) ==
    /\ pc = from
    /\ \/ Allocate(o, 1) /\ pc' = to
       \/ Fail /\ UNCHANGED <<mem, own, key>>
    /\ UNCHANGED <<Rest, Handed, scratch, segments, tables>>

AllocateStack == AllocateFor("stack", "stack", "tables")

(* paging::build, or the refusal of a CPU without NX or of a full pool. *)
BuildTables ==
    /\ pc = "build"
    /\ LET stack == CHOOSE f \in own["stack"] : TRUE
           built == Build(machine.gib, segments, fb, stack)
       IN  \/ built.ok /\ tables' = built /\ pc' = "sizing"
           \/ Fail /\ UNCHANGED tables
    /\ UNCHANGED <<Rest, Handed, mem, own, key, scratch, segments>>

(***************************************************************************)
(* memory_map.rs and exit_boot_services.rs                                 *)
(***************************************************************************)

(* The sizing call, the extra room, and the pool of that capacity: which is  *)
(* itself one more change to the map being measured.                         *)
SizeMap ==
    /\ pc = "sizing"
    /\ \/ /\ Allocate("map", 1) /\ pc' = "capture"
          /\ captured' = [captured EXCEPT
                            !.capacity = Len(Descriptors(mem)) + ExtraCapacity]
       \/ Fail /\ UNCHANGED <<mem, own, key, captured>>
    /\ UNCHANGED <<Rest, scratch, segments, tables, buffer, info, free>>

(* GetMemoryMap into the buffer: the descriptors overwrite its start, what    *)
(* an earlier and longer map left behind stays after them.                   *)
GetMap(to) ==
    LET now == Descriptors(mem)
    IN  \/ /\ Len(now) <= captured.capacity
           /\ buffer' = now \o SubSeq(buffer, Len(now) + 1, Len(buffer))
           /\ captured' = [captured EXCEPT !.len = Len(now), !.map_key = key]
           /\ pc' = to
        \/ Fail /\ UNCHANGED <<buffer, captured>>

CaptureMap ==
    /\ pc = "capture"
    /\ GetMap("populate")
    /\ UNCHANGED <<Rest, mem, own, key, scratch, segments, tables, info, free>>

Populate(from, to) ==
    /\ pc = from /\ pc' = to
    /\ info' = captured.len
    /\ UNCHANGED <<Rest, mem, own, key, scratch, segments, tables, captured, buffer, free>>

(* exit_once: the key decides. *)
ExitOnce(from, stale) ==
    /\ pc = from
    /\ \/ captured.map_key = key /\ pc' = "handoff"
       \/ captured.map_key # key /\ pc' = stale
       \/ Fail
    /\ UNCHANGED <<Rest, Handed, mem, own, key, scratch, segments, tables>>

(* CapturedMemoryMap::refresh: the same buffer, no allocation. *)
RefreshMap ==
    /\ pc = "refresh"
    /\ GetMap("repopulate")
    /\ UNCHANGED <<Rest, mem, own, key, scratch, segments, tables, info, free>>

(* What is read through its physical address under the new tables. *)
Readable(o) == \A f \in own[o] : Identity(tables, f)

(* enter_pythcore: interrupts off, NX on, CR3, stack, jump.  The instruction  *)
(* after the write to CR3 is fetched through the new tables, from the image.  *)
EnterPythcore ==
    /\ pc = "handoff"
    /\ pc' = IF Readable("image") THEN "entered" ELSE "faulted"
    /\ UNCHANGED <<Rest, Handed, mem, own, key, scratch, segments, tables>>

(***************************************************************************)
(* core/src/memory/physical.rs: the kernel takes the frames over.          *)
(***************************************************************************)

Span(frames) ==
    LET low == CHOOSE f \in frames : \A g \in frames : f <= g
        high == CHOOSE f \in frames : \A g \in frames : g <= f
    IN  low..high

(* Only these four are named to the allocator; everything else the loader    *)
(* made is kept only by its memory type.                                     *)
RequiredRanges == Span(own["kernel"]) \cup own["pak"] \cup own["font"]
                  \cup fb.base..fb.base + fb.pages - 1

PageOwner(type, f) ==
    IF type = "conv" /\ f \notin RequiredRanges THEN "free" ELSE "reserved"

FreeFrames(list) ==
    UNION {{f \in d.start..d.end - 1 : PageOwner(d.type, f) = "free"} :
             d \in {list[n] : n \in {k \in DOMAIN list : list[k].end <= Limit}}}

(* The boot info and the map it points to are read where the loader left them. *)
InitializePhysical ==
    /\ pc = "entered"
    /\ LET usable == FreeFrames(SubSeq(buffer, 1, info))
       IN  CASE ~(Readable("info") /\ Readable("map")) ->
                  pc' = "faulted" /\ UNCHANGED free
             [] Readable("info") /\ Readable("map")
                /\ ((\E f \in RequiredRanges : f >= Limit) \/ usable = {}) ->
                  pc' = "refused" /\ UNCHANGED free
             [] OTHER -> pc' = "running" /\ free' = usable
    /\ UNCHANGED <<Rest, mem, own, key, scratch, segments, tables, captured, buffer, info>>

(***************************************************************************)
(* The firmware's own events, while boot services last.                    *)
(***************************************************************************)

(* "faulted": a triple fault, with no handlers of the kernel's yet. *)
Ends == {"running", "refused", "failed", "faulted"}

FirmwareFrames == {PtEntries + 3, 2 * GiB - 3}

FirmwareTick ==
    /\ ticks < MaxTicks
    /\ pc \notin {"handoff", "entered"} \cup Ends
    /\ \E f \in FirmwareFrames :
          \/ mem[f] = "conv" /\ mem' = [mem EXCEPT ![f] = "boot"]
          \/ mem[f] = "boot" /\ mem' = [mem EXCEPT ![f] = "conv"]
    /\ key' = key + 1 /\ ticks' = ticks + 1
    /\ UNCHANGED <<machine, elf, modes, fb, pc, own, scratch, segments, tables, Handed>>

(* The kernel runs on, or the machine has stopped. *)
Over == pc \in Ends /\ UNCHANGED vars

LoaderStep ==
    \/ AllocateLog \/ InitializeGop
    \/ ReadKernelFile \/ LoadPythcore
    \/ ReadInitFile \/ LoadInitPak
    \/ ReadFontFile \/ LoadFont
    \/ DiscoverTables
    \/ AllocateFor("info", "info", "stack")
    \/ AllocateStack
    \/ AllocateFor("tables", "tables", "build")
    \/ BuildTables \/ SizeMap \/ CaptureMap
    \/ Populate("populate", "exit") \/ ExitOnce("exit", "refresh")
    \/ RefreshMap
    \/ Populate("repopulate", "exit_again") \/ ExitOnce("exit_again", "failed")
    \/ EnterPythcore \/ InitializePhysical

Next == LoaderStep \/ FirmwareTick \/ Over

Stages == {"log", "gop", "kernel_file", "kernel_load", "pak_file", "pak_load",
           "font_file", "font_load", "firmware", "info", "stack", "tables", "build",
           "sizing", "capture", "populate", "exit", "refresh", "repopulate",
           "exit_again", "handoff", "entered", "running", "refused", "failed", "faulted"}

(* The loader is the only thread, and every statement of it moves pc: until  *)
(* it has ended it keeps moving.  Nothing is asked of the firmware's events.  *)
Moves == pc \notin Ends /\ pc' \in Stages \ {pc}

Spec == Init /\ [][Next]_vars /\ WF_pc(Moves)

(***************************************************************************)
(* Properties.                                                             *)
(***************************************************************************)

TypeOK ==
    /\ pc \in Stages
    /\ mem \in [0..TopFrame -> {"conv", "loader", "boot", "mmio", "absent"}]
    /\ own \in [Objects -> SUBSET (0..TopFrame)]
    /\ key \in Nat /\ ticks \in 0..MaxTicks
    /\ free \subseteq 0..TopFrame
    /\ info \in 0..Len(buffer)
    /\ Cardinality(tables.nodes) <= TablePool

Live == UNION {own[o] : o \in Objects}

(* memory::physical::initialize frees no frame that something still lives    *)
(* in: the loader's stack, page tables, boot info, map and log are named in   *)
(* no range and are kept only because the final map calls them loader data,   *)
(* and every frame the firmware took late is still taken.                     *)
NoLiveFrameFree ==
    pc = "running" => \A f \in free : f \notin Live /\ mem[f] = "conv"

(* The kernel reads exactly the map that ExitBootServices accepted, also when *)
(* the first key went stale and a shorter or longer map replaced the first.  *)
KernelReadsFinalMap ==
    pc \in {"handoff", "entered", "running", "refused"} =>
        SubSeq(buffer, 1, info) = Descriptors(mem)

(* What map_identity promises: 2 MiB up to the ceiling its page size affords. *)
Covered(f) == f >= PtEntries /\ (machine.gib \/ f < Limit)

(* paging.rs:6-10 promises the loader image, boot info, map, init bundle,    *)
(* font and log at their physical addresses after the CR3 switch "wherever    *)
(* firmware allocated them".  The code keeps that only from 2 MiB (line 116)  *)
(* up to 512 GiB, or to 4 GiB on a CPU without 1 GiB pages (line 134), and    *)
(* the property says exactly so: what lies there is reachable, what does not  *)
(* is not, and the handoff faults only for an image, boot info or map placed  *)
(* outside.                                                                  *)
HandoffReachable ==
    /\ pc \in {"entered", "running", "refused"} =>
          \A o \in {"image", "info", "map", "pak", "font", "log"} :
              \A f \in own[o] : Identity(tables, f) <=> Covered(f)
    /\ pc = "faulted" =>
          \E o \in {"image", "info", "map"} : \E f \in own[o] : ~Covered(f)

(* At the jump the entry point is mapped executable, no kernel page is both   *)
(* writable and executable, every segment is mapped in full, and the page     *)
(* below the bootstrap stack faults.                                         *)
KernelMappedSafely ==
    pc = "entered" =>
        LET leaf(v) == tables.leaves[<<KernelSlot, 0, v \div PtEntries, v % PtEntries>>]
            pages == UNION {LET s == segments[n]
                            IN  {s.vaddr \div PageBytes + k : k \in 0..s.pages - 1} :
                              n \in DOMAIN segments}
        IN  /\ elf.entry \div PageBytes \in pages
            /\ leaf(elf.entry \div PageBytes).x
            /\ \A v \in pages : ~(leaf(v).w /\ leaf(v).x)
            /\ \A n \in DOMAIN segments :
                  segments[n].w => leaf(segments[n].vaddr \div PageBytes).w
            /\ <<StackSlot, 0, 0, 0>> \notin DOMAIN tables.leaves

(* The buffers the files were read into are back with the firmware before the *)
(* final map is taken, so the kernel does not lose them.                      *)
ScratchReturned ==
    pc \in {"sizing", "capture", "handoff", "entered"} =>
        /\ scratch.pool = {}
        /\ \A f \in DOMAIN mem : mem[f] = "loader" => f \in Live

=============================================================================

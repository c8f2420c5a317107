----------------------------- MODULE AddressSpace -----------------------------
(***************************************************************************)
(* Physical pages and address spaces: the bitmap allocator                 *)
(* (core/src/memory/physical.rs), the construction, checking, switching    *)
(* and reclaiming of kernel and user page tables                           *)
(* (core/src/memory/virtual.rs, user_root_policy.rs), the loading of a     *)
(* user program into its frames, and the copy map bound with the process   *)
(* (core/src/process_context.rs).                                          *)
(* Admission of a user program is core/src/user_elf.rs, the map of user    *)
(* ranges the kernel trusts during a system call core/src/user_copy.rs.    *)
(*                                                                         *)
(* Two levels of tables stand for four: a root entry covers Span virtual   *)
(* pages.  Page numbers stand for addresses.  The kernel image lies above  *)
(* the user half; its pages, the devices and the boot stack have frames    *)
(* the allocator never hands out.  A build is one call: a list of mapping  *)
(* requests folded over the builder, any of which may fail; what a failed  *)
(* build has taken is not given back.                                      *)
(***************************************************************************)
EXTENDS Integers, FiniteSets, Sequences, SequencesExt

CONSTANTS
    PAGE_SIZE,
    AddressLimit,            \* u64::MAX; a checked addition that leaves the range fails
    USER_VIRT_MIN,
    USER_VIRT_MAX,
    MAX_LOAD_SEGMENTS,
    MAX_USER_COPY_MAPPINGS,
    MemoryMaps,          \* what the firmware may report
    MAX_MANAGED_PAGES,
    TwoMiB,              \* MIN_ALLOCATABLE_PHYSICAL and the low guard, in pages
    Span,                \* pages under one root entry
    MAX_TABLE_FRAMES,
    MAX_RETAINED_USER_FRAMES,
    Programs,            \* user programs in the init bundle
    MaxBuilds            \* bound on the builds of one boot

AddressSpaceAssumption ==
    /\ PAGE_SIZE \in Nat \ {0} /\ AddressLimit \in Nat
    /\ USER_VIRT_MIN \in Nat /\ USER_VIRT_MAX \in USER_VIRT_MIN .. AddressLimit
    /\ USER_VIRT_MIN % PAGE_SIZE = 0 /\ USER_VIRT_MAX % PAGE_SIZE = 0
    /\ MAX_LOAD_SEGMENTS \in Nat \ {0} /\ MAX_USER_COPY_MAPPINGS \in Nat \ {0}
    /\ MAX_MANAGED_PAGES \in Nat /\ TwoMiB \in 1 .. MAX_MANAGED_PAGES
    /\ USER_VIRT_MIN = TwoMiB * PAGE_SIZE
    /\ MAX_MANAGED_PAGES <= USER_VIRT_MAX \div PAGE_SIZE
    /\ MAX_TABLE_FRAMES \in Nat /\ MAX_RETAINED_USER_FRAMES \in Nat /\ MaxBuilds \in Nat

VARIABLES
    memory,              \* PhysicalMemory and its bitmap of pages that are not free
    table,               \* page-table contents of each frame
    bytes,               \* other contents of each frame
    spaces,              \* the roots that were built
    cr3,                 \* the active root
    process,             \* the user process that is running
    builds,              \* number of builds started
    total                \* pages the firmware described

vars == <<memory, table, bytes, spaces, cr3, process, builds, total>>

-----------------------------------------------------------------------------
(* Programs: a file length, an entry and the program headers.  Addresses    *)
(* are bytes here, pages below.                                            *)

FirstPage(address) == address \div PAGE_SIZE

EndPage(end) == (end + PAGE_SIZE - 1) \div PAGE_SIZE

Pages(segment) ==
    FirstPage(segment.vaddr) .. EndPage(segment.vaddr + segment.memsz) - 1

(* parse_program_header: the checks of one header against the file and the *)
(* segments admitted before it                                             *)
HeaderFits(header, length) ==
    /\ header.load
    /\ header.memsz # 0 /\ header.filesz <= header.memsz
    /\ header.offset + header.filesz <= length
    /\ header.vaddr + header.memsz <= AddressLimit
    /\ header.vaddr >= USER_VIRT_MIN /\ header.vaddr + header.memsz <= USER_VIRT_MAX
    /\ header.align # 0 /\ header.vaddr % header.align = header.offset % header.align
    /\ ~(header.write /\ header.execute)

Overlap(s, t) == Pages(s) \cap Pages(t) # {}

parse_program_header(header, before, length) ==
    /\ Len(before) < MAX_LOAD_SEGMENTS
    /\ HeaderFits(header, length)
    /\ \A i \in DOMAIN before : ~Overlap(header, before[i])

entry_inside_executable_segment(program) ==
    \E i \in DOMAIN program.headers :
        LET s == program.headers[i]
        IN s.execute /\ program.entry \in s.vaddr .. s.vaddr + s.memsz - 1

validate(program) ==
    /\ program.headers # <<>>
    /\ \A i \in DOMAIN program.headers :
          parse_program_header(program.headers[i], SubSeq(program.headers, 1, i - 1),
                               program.length)
    /\ entry_inside_executable_segment(program)

-----------------------------------------------------------------------------
(* The copy map: a sequence of ranges, each readable, some writable        *)

Mapping(start, length, write) == [start |-> start, end |-> start + length, write |-> write]

(* add_mapping, and FALSE where the code returns an error *)
Addable(map, mapping) ==
    /\ Len(map) < MAX_USER_COPY_MAPPINGS
    /\ mapping.start # 0 /\ mapping.start < mapping.end /\ mapping.end <= AddressLimit
    /\ \A i \in DOMAIN map : ~(mapping.start < map[i].end /\ map[i].start < mapping.end)

(* The mappings of a launch, added one by one; an error refuses the launch *)
CopyMapAccepted(map) ==
    \A i \in DOMAIN map : Addable(SubSeq(map, 1, i - 1), map[i])

(* A range is trusted when one mapping contains it and allows the access   *)
validate_range(map, ptr, length, access) ==
    /\ ptr # 0 /\ length # 0 /\ ptr + length <= AddressLimit
    /\ \E i \in DOMAIN map :
          /\ ptr >= map[i].start /\ ptr + length <= map[i].end
          /\ access = "Write" => map[i].write

SegmentMapping(segment) ==
    LET pages == Pages(segment)
        first == FirstPage(segment.vaddr)
    IN Mapping(first * PAGE_SIZE, Cardinality(pages) * PAGE_SIZE, segment.write)

add_validated_elf_segments(program) ==
    [i \in DOMAIN program.headers |-> SegmentMapping(program.headers[i])]

-----------------------------------------------------------------------------
Frames == 0 .. MAX_MANAGED_PAGES - 1

-----------------------------------------------------------------------------
(* The layout.  Virtual pages of the kernel image, in address order        *)

KernelBase == USER_VIRT_MAX \div PAGE_SIZE
Text == KernelBase
UserCode == KernelBase + 1             \* USER_CODE_PAGE, in .rodata
Data == KernelBase + 2
SyscallGuardLow == KernelBase + 3
SyscallGuardHigh == KernelBase + 5
Stacks == {0, 1}
StackGuard(i) == KernelBase + 6 + 2 * i
UserStack(i) == KernelBase + 7 + 2 * i
KernelImageLen == 10
BootStack == KernelBase + KernelImageLen
Device == KernelBase + Span            \* framebuffer or controller registers
Alias == KernelBase + Span + 1         \* PYTH_GRAPH_BOOTSTRAP_KERNEL_ALIAS
Scratch == KernelBase + 2 * Span       \* LATE_FRAME_SCRATCH_VIRT
AllPages == 0 .. Scratch + Span - 1

(* Where the program finds what the launch hands it *)
BootstrapPage == KernelBase - 3
PackagePage == KernelBase - 2
ResultPage == KernelBase - 1

(* The loader's frame behind a kernel page: never one the allocator owns   *)
Backing(v) == MAX_MANAGED_PAGES + v

(* The loader's tables map every frame at its own address *)
Loader == MAX_MANAGED_PAGES

NoEntry == [present |-> FALSE, frame |-> 0, user |-> FALSE, write |-> FALSE, nx |-> FALSE]
Entry(f, user, write, nx) ==
    [present |-> TRUE, frame |-> f, user |-> user, write |-> write, nx |-> nx]
ZeroTable == [i \in 0 .. Span - 1 |-> NoEntry]
ZeroBytes == [i \in 0 .. PAGE_SIZE - 1 |-> 0]

(* What a frame holds before anything zeroed it *)
StaleTable == [ZeroTable EXCEPT ![Span - 1] = Entry(0, TRUE, TRUE, TRUE)]
StaleBytes == [i \in 0 .. PAGE_SIZE - 1 |-> -1]

-----------------------------------------------------------------------------
(* Physical memory                                                         *)

DescriptorPages(d) == d.start .. d.start + d.pages - 1

(* A descriptor that reaches past the managed range is left out whole      *)
Considered(map) ==
    {d \in map.descriptors : d.start + d.pages <= MAX_MANAGED_PAGES}

TotalPages(map) == UNION {DescriptorPages(d) : d \in Considered(map)}

page_owner(map) ==
    UNION {DescriptorPages(d) : d \in {e \in Considered(map) : e.conventional}} \ map.reserved

(* The free pages are those page_owner gives to no one.  Descriptors of one   *)
(* map do not overlap, as UEFI requires: the code would count a page of two   *)
(* descriptors twice and let the later one own it.                           *)
initialize(map) ==
    /\ page_owner(map) # {}
    /\ memory = [bitmap |-> Frames \ page_owner(map),
                 free_pages |-> Cardinality(page_owner(map)),
                 reserved_pages |-> Cardinality(TotalPages(map) \ page_owner(map))]
    /\ total = Cardinality(TotalPages(map))

Allocatable(m) == {f \in Frames \ m.bitmap : f >= TwoMiB}

FirstFree(m) == CHOOSE f \in Allocatable(m) : \A g \in Allocatable(m) : f <= g

allocate_unzeroed_page(m) ==
    [bitmap |-> m.bitmap \cup {FirstFree(m)}, free_pages |-> m.free_pages - 1,
     reserved_pages |-> m.reserved_pages + 1]

ReleaseOneMore(m, frames) ==
    [bitmap |-> m.bitmap \ (frames \cup {Max(frames) + 1}),
     free_pages |-> m.free_pages + Cardinality(frames),
     reserved_pages |-> m.reserved_pages - Cardinality(frames)]

release_allocated_page(m, frames) ==
    [bitmap |-> m.bitmap \ frames, free_pages |-> m.free_pages + Cardinality(frames),
     reserved_pages |-> m.reserved_pages - Cardinality(frames)]

-----------------------------------------------------------------------------
(* Walking a root                                                          *)

RootEntry(t, root, v) == t[root][v \div Span]

(* What the hardware finds for a page; NoEntry where nothing is mapped     *)
translate_from_root(t, root, v) ==
    LET e == RootEntry(t, root, v)
    IN IF e.present THEN t[e.frame][v % Span] ELSE NoEntry

(* The user bit must hold at every level *)
user_can_access_from_root(t, root, v) ==
    LET e == RootEntry(t, root, v)
    IN e.present /\ e.user /\ t[e.frame][v % Span].present /\ t[e.frame][v % Span].user

(* How the kernel writes a frame: its identity mapping, else the scratch   *)
(* alias, whose table must be there and closed to the user                 *)
with_writable_physical_frame(f) ==
    \/ cr3 = Loader
    \/ LET e == translate_from_root(table, cr3, f) IN e.present /\ e.frame = f /\ e.write
    \/ LET e == RootEntry(table, cr3, Scratch) IN e.present /\ ~e.user

-----------------------------------------------------------------------------
(* The builder: what it has taken and written so far                       *)

Failed(b) == [b EXCEPT !.ok = FALSE]

Cleared(b, f) == [b EXCEPT !.table[f] = ZeroTable, !.bytes[f] = ZeroBytes]

zero_physical_frame(b, f) == Cleared(b, f)

(* A frame the kernel cannot reach goes back *)
allocate_zeroed_frame(b) ==
    IF Allocatable(b.memory) = {} \/ ~with_writable_physical_frame(FirstFree(b.memory))
    THEN Failed(b)
    ELSE zero_physical_frame([b EXCEPT !.memory = allocate_unzeroed_page(@)],
                             FirstFree(b.memory))

remember_frame(b, f) ==
    IF Len(b.frames) >= MAX_TABLE_FRAMES THEN Failed(b)
    ELSE [b EXCEPT !.frames = Append(@, f)]

remember_retained_user_frame(b, f) ==
    IF Len(b.retained) >= MAX_RETAINED_USER_FRAMES THEN Failed(b)
    ELSE [b EXCEPT !.retained = Append(@, f)]

Root(b) == b.frames[1]

(* A frame f that was taken for a table is remembered, then entered in the *)
(* root                                                                    *)
Remembered(b, f) == IF b.ok THEN remember_frame(b, f) ELSE b

Entered(b, v, f, user) ==
    IF b.ok THEN [b EXCEPT !.table[Root(b)][v \div Span] = Entry(f, user, TRUE, FALSE)] ELSE b

(* A table that is there is opened to the user when a user page needs it   *)
ensure_table(b, v, user) ==
    IF RootEntry(b.table, Root(b), v).present
    THEN [b EXCEPT !.table[Root(b)][v \div Span].user = @ \/ user]
    ELSE LET f == FirstFree(b.memory)
         IN Entered(Remembered(allocate_zeroed_frame(b), f), v, f, user)

(* A page that is already mapped to the frame keeps its permissions, unless *)
(* the request is a user's; to another frame, the build fails              *)
WithLeaf(b, v, entry) ==
    LET pt == RootEntry(b.table, Root(b), v).frame
        old == b.table[pt][v % Span]
    IN IF ~b.ok THEN b
       ELSE IF ~old.present \/ (old.frame = entry.frame /\ entry.user)
       THEN [b EXCEPT !.table[pt][v % Span] = entry]
       ELSE IF old.frame = entry.frame THEN b ELSE Failed(b)

map_4k(b, v, entry) ==
    IF ~b.ok \/ v < TwoMiB THEN Failed(b)
    ELSE WithLeaf(ensure_table(b, v, entry.user), v, entry)

(* Each table of the root is mapped at its own address; mapping one may    *)
(* add another, which the loop reaches in its turn                         *)
map_allocated_table_frames(b) ==
    FoldLeft(LAMBDA c, i : IF ~c.ok \/ i > Len(c.frames) THEN c
                           ELSE map_4k(c, c.frames[i], Entry(c.frames[i], FALSE, TRUE, TRUE)),
             b, [i \in 1 .. MAX_TABLE_FRAMES |-> i])

(* The scratch alias gets its table and no leaf *)
NoLeaf(b, v) ==
    IF ~b.ok \/ translate_from_root(b.table, Root(b), v).present THEN Failed(b) ELSE b

reserve_late_frame_scratch_alias(b) ==
    IF ~b.ok THEN b ELSE NoLeaf(ensure_table(b, Scratch, FALSE), Scratch)

-----------------------------------------------------------------------------
(* What each kind of root maps                                             *)

Map(v, f, write, nx) == [kind |-> "map", page |-> v, entry |-> Entry(f, FALSE, write, nx)]
MapUser(v, f, write, nx) == [kind |-> "map", page |-> v, entry |-> Entry(f, TRUE, write, nx)]

KernelPage(v) == Map(v, Backing(v), v \notin {Text, UserCode}, v # Text)

map_kernel_segments ==
    LET mapped == SelectSeq([i \in 1 .. KernelImageLen |-> KernelBase + i - 1],
                            LAMBDA v : v \notin {SyscallGuardLow, SyscallGuardHigh})
    IN [i \in DOMAIN mapped |-> KernelPage(mapped[i])]

SelectedStack(kind) == IF kind = "shell" THEN 1 ELSE 0

for_selected_user_stack(kind) ==
    IF kind \in {"session", "shell"} THEN {SelectedStack(kind)} ELSE Stacks

map_user_stack_pages(kind) ==
    LET selected == SetToSortSeq(for_selected_user_stack(kind), <)
    IN [i \in DOMAIN selected |->
          MapUser(UserStack(selected[i]), Backing(UserStack(selected[i])), TRUE, TRUE)]

map_user_mode_proof_pages ==
    <<MapUser(UserCode, Backing(UserCode), FALSE, FALSE)>> \o map_user_stack_pages("proof")

map_bootstrap_stack == <<Map(BootStack, Backing(BootStack), TRUE, TRUE)>>

map_supervisor_mappings == <<Map(Device, Backing(Device), TRUE, TRUE)>>

(* One request for each page of a segment, whose frame is allocated then   *)
map_user_elf_segment(s) ==
    [k \in 1 .. Cardinality(Pages(s)) |->
        [kind |-> "elf", page |-> FirstPage(s.vaddr) + k - 1, segment |-> s]]

ElfRequests(program) ==
    FlattenSeq([i \in DOMAIN program.headers |-> map_user_elf_segment(program.headers[i])])

(* The bytes of a page: the file's where the segment has them, else zeros. *)
(* Byte k of the file is k + 1.                                            *)
copy_user_elf_page(s, v) ==
    [i \in 0 .. PAGE_SIZE - 1 |->
        LET a == v * PAGE_SIZE + i
        IN IF a \in s.vaddr .. s.vaddr + s.filesz - 1 THEN s.offset + (a - s.vaddr) + 1 ELSE 0]

(* A step that follows another is not taken once that one has failed       *)
ThenMap(b, v, entry) == IF b.ok THEN map_4k(b, v, entry) ELSE b

Filled(b, f, s, v) ==
    IF b.ok THEN remember_retained_user_frame([b EXCEPT !.bytes[f] = copy_user_elf_page(s, v)], f)
    ELSE b

TakeElf(b, request) ==
    LET f == FirstFree(b.memory)
        s == request.segment
    IN ThenMap(Filled(allocate_zeroed_frame(b), f, s, request.page), request.page,
               Entry(f, TRUE, s.write, ~s.execute))

(* A payload frame joins the ledger of the root, then is mapped            *)
TakePayload(b, request) ==
    ThenMap(remember_retained_user_frame(b, request.entry.frame), request.page, request.entry)

Take(b, request) ==
    IF ~b.ok THEN b
    ELSE CASE request.kind = "map" -> map_4k(b, request.page, request.entry)
           [] request.kind = "elf" -> TakeElf(b, request)
           [] request.kind = "payload" -> TakePayload(b, request)

(* The pages handed to the program, and which of them it may write         *)
PayloadPages(kind) ==
    CASE kind = "elf" -> <<>>
      [] kind = "shell" -> <<BootstrapPage>>
      [] OTHER -> <<BootstrapPage, PackagePage, ResultPage>>

PayloadWritable(v) == v = ResultPage

build_with_user_elf_inner(kind, program, payload) ==
    LET payloads == [k \in DOMAIN payload |->
                       LET v == PayloadPages(kind)[k]
                       IN [MapUser(v, payload[k], PayloadWritable(v), TRUE)
                             EXCEPT !.kind = "payload"]]
        alias == IF kind = "graph" THEN <<Map(Alias, payload[1], TRUE, TRUE)>> ELSE <<>>
    IN map_kernel_segments \o map_user_stack_pages(kind) \o map_bootstrap_stack
         \o alias \o map_supervisor_mappings \o ElfRequests(program) \o payloads

(* The kernel root also maps the recovery shell's bootstrap page           *)
build_inner(shells) ==
    map_kernel_segments \o map_user_mode_proof_pages \o map_bootstrap_stack
      \o map_supervisor_mappings
      \o SetToSeq({Map(s.retained[Len(s.retained)], s.retained[Len(s.retained)], TRUE, TRUE) :
                     s \in shells})

ProofRequests == map_kernel_segments \o map_user_mode_proof_pages \o map_bootstrap_stack

(* A whole build: the root, the requests, the alias, the self-map          *)
Built(m, t, y, requests) ==
    LET empty == [ok |-> TRUE, memory |-> m, table |-> t, bytes |-> y,
                  frames |-> <<>>, retained |-> <<>>]
    IN map_allocated_table_frames(reserve_late_frame_scratch_alias(
         FoldLeft(Take, Remembered(allocate_zeroed_frame(empty), FirstFree(m)), requests)))

-----------------------------------------------------------------------------
(* The checks of a root before it is used                                  *)

validate_user_stack_protections(t, root) ==
    \A i \in Stacks : user_can_access_from_root(t, root, UserStack(i))
                      /\ ~user_can_access_from_root(t, root, StackGuard(i))

validate_user_payload_mapping(t, root, v, writable) ==
    /\ user_can_access_from_root(t, root, v)
    /\ LET e == translate_from_root(t, root, v) IN e.write = writable /\ e.nx

validate_selected_stack(t, root, selected) ==
    \A i \in Stacks :
        /\ ~user_can_access_from_root(t, root, StackGuard(i))
        /\ IF i = selected THEN validate_user_payload_mapping(t, root, UserStack(i), TRUE)
           ELSE ~user_can_access_from_root(t, root, UserStack(i))

validate_user_elf_code(t, root, entry) ==
    /\ user_can_access_from_root(t, root, FirstPage(entry))
    /\ ~user_can_access_from_root(t, root, Text) /\ ~user_can_access_from_root(t, root, Data)

validate_supervisor_mapping(t, root, v, f) ==
    /\ translate_from_root(t, root, v).present /\ translate_from_root(t, root, v).frame = f
    /\ ~user_can_access_from_root(t, root, v)

validate_isolated_from(t, root) ==
    /\ user_can_access_from_root(t, root, UserCode)
    /\ user_can_access_from_root(t, root, UserStack(0))
    /\ ~user_can_access_from_root(t, root, Text) /\ ~user_can_access_from_root(t, root, Data)

(* The checks of a launch *)
LaunchChecks(b, kind, program, payload) ==
    LET t == b.table  root == Root(b) IN
    /\ IF kind \in {"session", "shell"}
       THEN validate_selected_stack(t, root, SelectedStack(kind))
       ELSE validate_user_stack_protections(t, root)
    /\ validate_user_elf_code(t, root, program.entry)
    /\ \A k \in DOMAIN payload :
          validate_user_payload_mapping(t, root, PayloadPages(kind)[k],
                                        PayloadWritable(PayloadPages(kind)[k]))
    /\ validate_supervisor_mapping(t, root, Device, Backing(Device))
    /\ kind = "graph" => validate_supervisor_mapping(t, root, Alias, payload[1])

(* No frame the failed session's user reaches is reached from the shell's *)
validate_recovery_isolation(shell, failed) ==
    LET failed_stack == translate_from_root(table, failed.root, UserStack(0)).frame
        excluded == ToSet(failed.retained) \cup {failed_stack}
    IN /\ validate_selected_stack(table, shell.root, 1)
       /\ validate_selected_stack(table, failed.root, 0)
       /\ ToSet(shell.retained) \cap excluded = {}
       /\ \A v \in AllPages :
             user_can_access_from_root(table, shell.root, v)
               => translate_from_root(table, shell.root, v).frame \notin excluded

-----------------------------------------------------------------------------
(* The copy map bound with the process, from the same launch record        *)

CopyPage(v, write) == Mapping(v * PAGE_SIZE, PAGE_SIZE, write)

StackMapping(kind) ==
    <<CopyPage(UserStack(IF kind = "shell" THEN 1 ELSE 0), TRUE)>>

PayloadMappings(kind) ==
    [k \in DOMAIN PayloadPages(kind) |->
        CopyPage(PayloadPages(kind)[k], PayloadWritable(PayloadPages(kind)[k]))]

CopyMap(kind, program) ==
    CASE kind \in {"shell", "elf"} ->
           add_validated_elf_segments(program) \o StackMapping(kind) \o PayloadMappings(kind)
      [] kind = "graph" -> StackMapping(kind) \o PayloadMappings(kind)
      [] kind = "session" ->
           StackMapping(kind) \o PayloadMappings(kind) \o add_validated_elf_segments(program)

-----------------------------------------------------------------------------
(* Operations                                                              *)

NoProcess == [on |-> FALSE]
NoProgram == [length |-> 0, entry |-> 0, headers |-> <<>>]

Init ==
    /\ \E map \in MemoryMaps : initialize(map)
    /\ table = [f \in Frames |-> StaleTable]
    /\ bytes = [f \in Frames |-> StaleBytes]
    /\ spaces = {} /\ cr3 = Loader /\ process = NoProcess /\ builds = 0

Of(kind) == {s \in spaces : s.kind = kind}

MayBuild(kind) ==
    /\ builds < MaxBuilds /\ ~process.on
    /\ kind \in {"kernel", "shell", "session", "graph"} => Of(kind) = {}
    /\ cr3 = Loader \/ cr3 \in {s.root : s \in Of("kernel")}

(* What a build leaves behind, whether it succeeded or not                 *)
Finish(b, checked, kind, program) ==
    /\ memory' = b.memory /\ table' = b.table /\ bytes' = b.bytes
    /\ builds' = builds + 1
    /\ spaces' = IF b.ok /\ checked
                 THEN spaces \cup {[kind |-> kind, program |-> program, root |-> Root(b),
                                    frames |-> b.frames, retained |-> b.retained]}
                 ELSE spaces
    /\ UNCHANGED <<cr3, process, total>>

BuildKernel ==
    /\ MayBuild("kernel")
    /\ Finish(Built(memory, table, bytes, build_inner(Of("shell"))), TRUE, "kernel", NoProgram)

BuildProof ==
    /\ MayBuild("proof")
    /\ \E b \in {Built(memory, table, bytes, ProofRequests)} :
          Finish(b, b.ok => validate_isolated_from(b.table, Root(b)), "proof", NoProgram)

Handed(p, b, f) ==
    [b |-> b, payload |-> IF b.ok THEN Append(p.payload, f) ELSE p.payload]

(* The payload pages are taken and zeroed first.  The shell and the        *)
(* session write them at their physical address, as long as the loader's   *)
(* tables are active; the graph launch goes through the alias.             *)
TakeFrames(kind) ==
    FoldLeft(LAMBDA p, v :
               IF ~p.b.ok THEN p ELSE Handed(p, allocate_zeroed_frame(p.b), FirstFree(p.b.memory)),
             [b |-> [ok |-> TRUE, memory |-> memory, table |-> table, bytes |-> bytes,
                     frames |-> <<>>, retained |-> <<>>],
              payload |-> <<>>],
             PayloadPages(kind))

BuildUser(kind, program) ==
    /\ MayBuild(kind)
    /\ kind \in {"shell", "session"} => cr3 = Loader
    /\ validate(program) /\ CopyMapAccepted(CopyMap(kind, program))
    /\ \E taken \in {TakeFrames(kind)} :
          IF taken.b.ok
          THEN \E b \in {Built(taken.b.memory, taken.b.table, taken.b.bytes,
                               build_with_user_elf_inner(kind, program, taken.payload))} :
                  Finish(b, b.ok => LaunchChecks(b, kind, program, taken.payload), kind, program)
          ELSE Finish(taken.b, FALSE, kind, program)

(* The kernel root is activated at start and whenever a user has returned  *)
ActivateKernel ==
    /\ ~process.on
    /\ \E s \in Of("kernel") : cr3 # s.root /\ cr3' = s.root
    /\ UNCHANGED <<memory, table, bytes, spaces, process, builds, total>>

(* activate of a user root, then the entry with the process bound          *)
Enter(s) ==
    /\ ~process.on /\ s.kind # "kernel" /\ cr3 \in {k.root : k \in Of("kernel")}
    /\ cr3' = s.root
    /\ process' = [on |-> TRUE, kind |-> s.kind,
                   copy_map |-> IF s.kind = "proof" THEN <<>> ELSE CopyMap(s.kind, s.program)]
    /\ UNCHANGED <<memory, table, bytes, spaces, builds, total>>

(* The process exits or faults: its binding is cleared first.  The shell   *)
(* and the graph stay.                                                     *)
Exit ==
    /\ process.on /\ process.kind \in {"proof", "elf", "session"}
    /\ process' = NoProcess
    /\ UNCHANGED <<memory, table, bytes, spaces, cr3, builds, total>>

NotActive(s) == cr3 # s.root

(* Only the roots of the process tests are ever reclaimed                  *)
reclaim(s) ==
    /\ s.kind = "proof" /\ ~process.on /\ NotActive(s)
    /\ memory' = release_allocated_page(memory, ToSet(s.frames) \cup ToSet(s.retained))
    /\ spaces' = spaces \ {s}
    /\ UNCHANGED <<table, bytes, cr3, process, builds, total>>

Next ==
    \/ BuildKernel
    \/ BuildProof
    \/ \E kind \in {"elf", "shell", "graph", "session"}, program \in Programs :
          BuildUser(kind, program)
    \/ ActivateKernel
    \/ \E s \in spaces : Enter(s)
    \/ Exit
    \/ \E s \in spaces : reclaim(s)

Spec == Init /\ [][Next]_vars

-----------------------------------------------------------------------------
(* Properties                                                              *)

Kinds == {"kernel", "proof", "elf", "shell", "graph", "session"}

(* The variables keep their types.  Sequences of frames name managed ones. *)
TypeOK ==
    /\ memory.bitmap \subseteq Frames /\ memory.free_pages \in Nat
    /\ memory.reserved_pages \in Nat
    /\ DOMAIN table = Frames /\ DOMAIN bytes = Frames
    /\ \A s \in spaces : s.kind \in Kinds /\ s.root = s.frames[1]
                         /\ ToSet(s.frames) \cup ToSet(s.retained) \subseteq Frames
    /\ cr3 \in Frames \cup {Loader} /\ builds \in 0 .. MaxBuilds

Owned(s) == ToSet(s.frames) \cup ToSet(s.retained)

(* The counters of the allocator agree with its bitmap after any mix of    *)
(* builds, failed builds and reclaims (PhysicalMemory, allocate and        *)
(* release).                                                               *)
AccountExact ==
    /\ memory.free_pages = Cardinality(Frames \ memory.bitmap)
    /\ memory.free_pages + memory.reserved_pages = total

(* Every frame of a root is allocated, and belongs to no other root and in *)
(* only one role (reclaim would otherwise free a frame somebody uses).     *)
FramesExclusive ==
    /\ \A s \in spaces : /\ Owned(s) \subseteq memory.bitmap
                         /\ Cardinality(Owned(s)) = Len(s.frames) + Len(s.retained)
    /\ \A s, r \in spaces : s # r => Owned(s) \cap Owned(r) = {}

(* What a user reaches from its root: its own ledger's frames, the stacks  *)
(* selected for it and, in the tests, the code page; nothing a page held   *)
(* before, and no page that is both writable and executable.               *)
UserReach ==
    \A s \in spaces, v \in AllPages :
        user_can_access_from_root(table, s.root, v) =>
            LET e == translate_from_root(table, s.root, v) IN
            /\ e.frame \in ToSet(s.retained)
                             \cup {Backing(UserStack(i)) : i \in for_selected_user_stack(s.kind)}
                             \cup (IF s.kind \in {"kernel", "proof"} THEN {Backing(UserCode)}
                                   ELSE {})
            /\ ~(e.write /\ ~e.nx)

(* The pages around the system-call stack are mapped in no root, and the   *)
(* user never reaches the guard under its own stack.                       *)
GuardPages ==
    \A s \in spaces :
        /\ ~translate_from_root(table, s.root, SyscallGuardLow).present
        /\ ~translate_from_root(table, s.root, SyscallGuardHigh).present
        /\ \A i \in Stacks : ~user_can_access_from_root(table, s.root, StackGuard(i))

(* From any root the kernel reaches every frame it may have to write: the  *)
(* root's own tables at their address, any other through the alias, which  *)
(* no user reaches and which is empty between calls.                       *)
KernelReach ==
    \A s \in spaces :
        /\ \A i \in DOMAIN s.frames :
              /\ translate_from_root(table, s.root, s.frames[i])
                   = Entry(s.frames[i], FALSE, TRUE, TRUE)
        /\ LET e == RootEntry(table, s.root, Scratch) IN e.present /\ ~e.user
        /\ ~translate_from_root(table, s.root, Scratch).present

(* The active root is made of frames that nobody may be given.             *)
ActiveRootKept ==
    cr3 # Loader => \E s \in spaces : s.root = cr3 /\ Owned(s) \subseteq memory.bitmap

(* While a process runs, every range validate_range admits for it, across  *)
(* page boundaries too, is mapped for the user in the active root with the *)
(* access asked for: the kernel's copy does not fault and reaches nothing  *)
(* the user could not.                                                     *)
CopyMapBacked ==
    process.on =>
        \A ptr \in 1 .. AddressLimit, length \in {1, PAGE_SIZE + 1}, access \in {"Read", "Write"} :
            validate_range(process.copy_map, ptr, length, access) =>
                \A v \in FirstPage(ptr) .. EndPage(ptr + length) - 1 :
                    /\ user_can_access_from_root(table, cr3, v)
                    /\ access = "Write" => translate_from_root(table, cr3, v).write

(* Each byte of a loaded segment is the file's, and zero past the file's   *)
(* part, wherever the segment starts in its page and however many pages it *)
(* spans (copy_user_elf_page).                                             *)
ImageLoaded ==
    \A s \in spaces : \A i \in DOMAIN s.program.headers :
        LET h == s.program.headers[i] IN
        \A v \in Pages(h) : \A k \in 0 .. PAGE_SIZE - 1 :
            LET a == v * PAGE_SIZE + k
            IN bytes[translate_from_root(table, s.root, v).frame][k]
                 = IF a >= h.vaddr /\ a < h.vaddr + h.filesz THEN h.offset + a - h.vaddr + 1
                   ELSE 0

(* The entry of every loaded program lies in a page its user may execute   *)
(* and not write.                                                          *)
EntryExecutable ==
    \A s \in spaces :
        s.kind \notin {"kernel", "proof"} =>
            /\ user_can_access_from_root(table, s.root, FirstPage(s.program.entry))
            /\ LET e == translate_from_root(table, s.root, FirstPage(s.program.entry))
               IN ~e.nx /\ ~e.write

(* Whenever both roots exist the isolation check of normal init would pass *)
(* : the shell reaches nothing of the session that failed.                 *)
RecoveryIsolated ==
    \A shell \in Of("shell"), failed \in Of("session") :
        validate_recovery_isolation(shell, failed)

=============================================================================

-------------------------- MODULE StorageAllocator --------------------------
(***************************************************************************)
(* The block allocator, its metadata journal and the dynamic object store  *)
(* over it (core/src/storage_allocator.rs, dynamic_object_store.rs).       *)
(*                                                                         *)
(* A bitmap is the set of the blocks in use.  Three owners keep an         *)
(* allocator: a journaled one, which commits each record before it appends *)
(* the next (storage_allocator::run_self_test and storage_adversarial), a  *)
(* plain one that allocates and frees runs of blocks, and the object       *)
(* store.  owner says which of the three this behaviour follows.           *)
(***************************************************************************)
EXTENDS Naturals, Sequences, SequencesExt, FiniteSets

CONSTANTS
    BlockCount,          \* block_count of the allocator
    JOURNAL_CAPACITY,    \* records of the metadata journal (8)
    MaxDynamicObjects,   \* MAX_DYNAMIC_OBJECTS
    ObjectIds, Kinds     \* identity and contents of a typed object

StorageAllocatorAssumption ==
    /\ BlockCount \in 1 .. 64
    /\ JOURNAL_CAPACITY \in Nat \ {0}
    /\ MaxDynamicObjects \in Nat \ {0}

VARIABLES
    owner,       \* "journaled", "plain" or "store"
    allocator,   \* bitmap and committed_bitmap
    journal,     \* AllocatorJournal: the records appended so far
    objects,     \* DynamicObjectStore: a slot table
    held,        \* the extents the owner has been given and not returned
    commits      \* every bitmap the journaled owner was told is committed

vars == <<owner, allocator, journal, objects, held, commits>>

----------------------------------------------------------------------------
(* Extents and bitmaps *)

Blocks == 0 .. BlockCount - 1

BlockExtent(start, count) == [start |-> start, count |-> count]

NoExtent == BlockExtent(0, 0)

BlocksOf(extent) == extent.start .. extent.start + extent.count - 1

validate_extent(extent) ==
    extent.count # 0 /\ extent.start + extent.count <= BlockCount

extent_is_free(bitmap, extent) ==
    validate_extent(extent) /\ BlocksOf(extent) \cap bitmap = {}

bitmap_with_extent(bitmap, extent, used) ==
    IF used THEN bitmap \cup BlocksOf(extent) ELSE bitmap \ BlocksOf(extent)

bitmap_outside_block_count(bitmap) == ~ bitmap \subseteq Blocks

Starts(bitmap, requested) ==
    {start \in Blocks : extent_is_free(bitmap, BlockExtent(start, requested))}

(* First fit; NoExtent is OutOfSpace, or InvalidExtent for a request of no *)
(* blocks or of more than there are                                        *)
find_free_extent(bitmap, requested) ==
    LET starts == Starts(bitmap, requested)
    IN IF requested = 0 \/ starts = {} THEN NoExtent
       ELSE BlockExtent(CHOOSE s \in starts : \A t \in starts : s <= t, requested)

(* BlockAllocator::new *)
NewAllocator == [bitmap |-> {}, committed_bitmap |-> {}]

NoAllocator == [bitmap |-> {BlockCount}, committed_bitmap |-> {BlockCount}]

restore_from_bitmap(bitmap) ==
    IF bitmap_outside_block_count(bitmap) THEN NoAllocator
    ELSE [bitmap |-> bitmap, committed_bitmap |-> bitmap]

Allocated(a, extent) ==
    LET next == bitmap_with_extent(a.bitmap, extent, TRUE)
    IN [bitmap |-> next, committed_bitmap |-> next]

Freed(a, extent) ==
    LET next == bitmap_with_extent(a.bitmap, extent, FALSE)
    IN [bitmap |-> next, committed_bitmap |-> next]

----------------------------------------------------------------------------
(* The metadata journal *)

(* A record before its commit carries neither checksum nor marker; sound   *)
(* says that the stored checksum is the one of the record's fields         *)
Record(generation, previous, next) ==
    [generation |-> generation, previous_bitmap |-> previous, next_bitmap |-> next,
     sound |-> FALSE, commit_marker |-> FALSE]

validate_record(record) == record.commit_marker /\ record.sound

(* next_generation starts at 1 and advances with every append *)
next_generation == Len(journal) + 1

(* The longest prefix of valid records each of which starts where the one  *)
(* before it ended                                                         *)
recover_allocator_journal(records) ==
    LET Follows(i) ==
            /\ validate_record(records[i])
            /\ records[i].previous_bitmap = IF i = 1 THEN {} ELSE records[i - 1].next_bitmap
        n == Max({0} \cup {i \in 1 .. Len(records) : \A j \in 1 .. i : Follows(j)})
    IN [replayed_records |-> n, rolled_back_records |-> Len(records) - n,
        committed_bitmap |-> IF n = 0 THEN {} ELSE records[n].next_bitmap]

Pending == journal # <<>> /\ ~ Last(journal).commit_marker

----------------------------------------------------------------------------
(* The dynamic object store *)

NoSlot == [id |-> "none", kind |-> "none", extent |-> NoExtent]

Slots == 1 .. MaxDynamicObjects

Used(table) == {i \in Slots : table[i] # NoSlot}

find_index(table, id) == {i \in Used(table) : table[i].id = id}

free_slot(table) == Slots \ Used(table)

(* object_records and allocator_bitmap: what a checkpoint writes down *)
Snapshot == [bitmap |-> allocator.committed_bitmap, records |-> objects]

extent_bitmap(extent) == BlocksOf(extent)

NoStore == [allocator |-> NoAllocator, objects |-> [i \in Slots |-> NoSlot]]

(* Every extent lies inside the store, is marked in the bitmap and meets no *)
(* other; no identity occurs twice; the bitmap marks nothing else.          *)
(* NoStore is the refusal                                                   *)
restore_from_records(snapshot) ==
    LET r == snapshot.records
        used == Used(r)
        seen == UNION {extent_bitmap(r[i].extent) : i \in used}
    IN IF /\ restore_from_bitmap(snapshot.bitmap) # NoAllocator
          /\ \A i \in used : validate_extent(r[i].extent)
          /\ \A i, j \in used : i # j =>
                 /\ extent_bitmap(r[i].extent) \cap extent_bitmap(r[j].extent) = {}
                 /\ r[i].id # r[j].id
          /\ seen = snapshot.bitmap
       THEN [allocator |-> restore_from_bitmap(snapshot.bitmap), objects |-> r]
       ELSE NoStore

----------------------------------------------------------------------------

Init ==
    /\ owner \in {"journaled", "plain", "store"}
    /\ allocator = NewAllocator
    /\ journal = <<>>
    /\ objects = [i \in Slots |-> NoSlot]
    /\ held = {}
    /\ commits = <<>>

(* The journaled owner.  The record is appended before the bitmap moves,   *)
(* so a full journal refuses the allocation                                *)
allocate_journaled(n) ==
    LET extent == find_free_extent(allocator.bitmap, n)
        next == bitmap_with_extent(allocator.bitmap, extent, TRUE)
    IN /\ owner = "journaled" /\ ~ Pending
       /\ extent # NoExtent
       /\ Len(journal) < JOURNAL_CAPACITY
       /\ journal' = Append(journal,
                        Record(next_generation, allocator.committed_bitmap, next))
       /\ allocator' = [allocator EXCEPT !.bitmap = next]
       /\ held' = held \cup {extent}
       /\ UNCHANGED <<owner, objects, commits>>

commit_last ==
    /\ owner = "journaled" /\ Pending
    /\ journal' = [journal EXCEPT ![Len(journal)].sound = TRUE,
                                  ![Len(journal)].commit_marker = TRUE]
    /\ allocator' = restore_from_bitmap(Last(journal).next_bitmap)
    /\ commits' = Append(commits, Last(journal).next_bitmap)
    /\ UNCHANGED <<owner, objects, held>>

(* The medium spoils the checksum of one record; at most one is spoilt *)
Spoil(i) ==
    /\ owner = "journaled" /\ ~ Pending
    /\ \A j \in DOMAIN journal : journal[j].sound
    /\ i \in DOMAIN journal
    /\ journal' = [journal EXCEPT ![i].sound = FALSE]
    /\ UNCHANGED <<owner, allocator, objects, held, commits>>

(* The plain owner *)
allocate(n) ==
    LET extent == find_free_extent(allocator.bitmap, n)
    IN /\ owner = "plain"
       /\ extent # NoExtent
       /\ allocator' = Allocated(allocator, extent)
       /\ held' = held \cup {extent}
       /\ UNCHANGED <<owner, journal, objects, commits>>

free(extent) ==
    /\ owner = "plain"
    /\ validate_extent(extent)
    /\ allocator' = Freed(allocator, extent)
    /\ held' = held \ {extent}
    /\ UNCHANGED <<owner, journal, objects, commits>>

(* The store: one block per object.  The slot is found before the block is *)
(* allocated, so a full table takes no block                               *)
create_object(id, kind) ==
    LET extent == find_free_extent(allocator.bitmap, 1)
        slot == CHOOSE i \in free_slot(objects) : \A j \in free_slot(objects) : i <= j
    IN /\ owner = "store"
       /\ find_index(objects, id) = {}
       /\ free_slot(objects) # {}
       /\ extent # NoExtent
       /\ allocator' = Allocated(allocator, extent)
       /\ objects' = [objects EXCEPT ![slot] = [id |-> id, kind |-> kind, extent |-> extent]]
       /\ held' = held \cup {extent}
       /\ UNCHANGED <<owner, journal, commits>>

replace_object(id, kind) ==
    /\ owner = "store"
    /\ \E i \in find_index(objects, id) :
          objects' = [objects EXCEPT ![i].kind = kind]
    /\ UNCHANGED <<owner, allocator, journal, held, commits>>

delete_object(id) ==
    /\ owner = "store"
    /\ \E i \in find_index(objects, id) :
          /\ allocator' = Freed(allocator, objects[i].extent)
          /\ objects' = [objects EXCEPT ![i] = NoSlot]
          /\ held' = held \ {objects[i].extent}
    /\ UNCHANGED <<owner, journal, commits>>

Next ==
    \/ \E n \in 1 .. 2 : allocate_journaled(n) \/ allocate(n)
    \/ commit_last
    \/ \E i \in 1 .. JOURNAL_CAPACITY : Spoil(i)
    \/ \E extent \in held : free(extent)
    \/ \E id \in ObjectIds :
          \/ \E kind \in Kinds : create_object(id, kind) \/ replace_object(id, kind)
          \/ delete_object(id)
    \/ UNCHANGED vars

Spec == Init /\ [][Next]_vars

----------------------------------------------------------------------------

(* Type invariant of the allocator, its journal and the object store *)
TypeOK ==
    /\ owner \in {"journaled", "plain", "store"}
    /\ allocator \in [bitmap : SUBSET Blocks, committed_bitmap : SUBSET Blocks]
    /\ Len(journal) <= JOURNAL_CAPACITY
    /\ \A i \in DOMAIN journal : journal[i].generation = i
    /\ \A i \in Slots : objects[i].id \in ObjectIds \cup {"none"}
    /\ \A extent \in held : validate_extent(extent)

(* No two holders share a block and no block is marked that nobody holds:  *)
(* the bitmap of an allocator is exactly the disjoint union of the extents *)
(* it has handed out and not taken back.                                   *)
ExtentsPartitionTheBitmap ==
    /\ UNION {BlocksOf(e) : e \in held} = allocator.bitmap
    /\ \A e, f \in held : e # f => BlocksOf(e) \cap BlocksOf(f) = {}

(* Whatever the moment of the crash, replaying an undamaged journal ends   *)
(* in the bitmap the owner was last told is committed: a torn allocation   *)
(* is rolled back and a committed one is never lost.                       *)
RecoveryEndsAtTheCommit ==
    owner = "journaled" /\ (\A i \in DOMAIN journal : journal[i].commit_marker => journal[i].sound)
        => recover_allocator_journal(journal).committed_bitmap = allocator.committed_bitmap

(* With a spoilt record the replay stops at it: what is recovered is the   *)
(* bitmap of an earlier commit, every record counted once as replayed or   *)
(* rolled back, and no later record is applied over the hole.              *)
RecoveryStopsAtDamage ==
    owner = "journaled" =>
        LET report == recover_allocator_journal(journal)
            n == report.replayed_records
        IN /\ n + report.rolled_back_records = Len(journal)
           /\ n <= Len(commits)
           /\ report.committed_bitmap = IF n = 0 THEN {} ELSE commits[n]
           /\ \A i \in DOMAIN journal : ~ journal[i].sound => n < i

(* A store's own snapshot always restores to that store: no sequence of    *)
(* creations, replacements and deletions reaches a state whose checkpoint  *)
(* the next boot would refuse.                                             *)
SnapshotRestores ==
    owner = "store" =>
        restore_from_records(Snapshot) = [allocator |-> allocator, objects |-> objects]

(* A snapshot in which one record was lost, moved to other blocks or given *)
(* another record's identity is refused as a whole.                        *)
DamagedSnapshotRefused ==
    owner = "store" =>
        \A i \in Used(objects) :
            LET With(slot) == [Snapshot EXCEPT !.records[i] = slot]
            IN /\ restore_from_records(With(NoSlot)) = NoStore
               /\ \A start \in 0 .. BlockCount : start # objects[i].extent.start =>
                      restore_from_records(With([objects[i] EXCEPT !.extent.start = start])) = NoStore
               /\ \A j \in Used(objects) \ {i} :
                      restore_from_records(With([objects[i] EXCEPT !.id = objects[j].id])) = NoStore
=============================================================================

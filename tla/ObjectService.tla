--------------------------- MODULE ObjectService ---------------------------
(***************************************************************************)
(* The retained object service (core/src/object_service.rs) with its four  *)
(* tables (object store, relationship index, revision history, capability  *)
(* table), its storage quotas, and the checkpoint every mutating system    *)
(* call ends with.                                                         *)
(*                                                                         *)
(* One system call runs at a time.  A call that mutated the service sets   *)
(* reply; persist_object_service then stores a snapshot in the checkpoint  *)
(* register (AtomicCheckpoint, which ObjectCheckpoint implements) and only *)
(* a confirmed store lets the reply out.  The machine may stop at any      *)
(* point; a boot rebuilds the service from the register.                   *)
(*                                                                         *)
(* An object's contents are left out except for one thing: whether the     *)
(* record still carries the schema reference of a package-defined object.  *)
(***************************************************************************)
EXTENDS Naturals, Sequences, FiniteSets

CONSTANTS
    Shell, Intruder,    \* the two callers a boot knows
    Runtimes,           \* graph runtimes, known once they are launched
    TaskStorage,        \* the identity task objects are charged to
    MaxObjects,         \* MAX_DYNAMIC_OBJECTS, 24
    MaxPrior,           \* MAX_REVISIONS, 8
    CapabilitySlots,    \* CAPABILITY_TABLE_SLOTS, 32
    MaxQuotas,          \* MAX_STORAGE_QUOTAS, 4
    MaxQueryResults,    \* MAX_QUERY_RESULTS, 8
    LastNote,           \* bound on note ids; KNOWN_EXTERNAL_NOTE_ID follows
    TaskIds, SchemaIds, \* ids the task and package services may ask for
    MaxTicks,           \* bound on the timestamp counter
    MaxStores           \* bound on the checkpoints of a behaviour

FirstNote == 1
ExternalNote == LastNote + 1
NoteIds == FirstNote .. LastNote

ServiceAssumption ==
    /\ Cardinality({Shell, Intruder, TaskStorage}) = 3
    /\ {Shell, Intruder, TaskStorage} \cap Runtimes = {}
CapacityAssumption ==
    /\ MaxObjects \in Nat \ {0} /\ MaxPrior \in Nat
    /\ CapabilitySlots \in Nat \ {0}
    /\ MaxQuotas \in Nat \ {0, 1} /\ MaxQueryResults \in Nat \ {0}
    /\ MaxTicks \in Nat /\ MaxStores \in Nat
IdAssumption ==
    /\ LastNote \in Nat \ {0}
    /\ TaskIds \subseteq {n \in Nat : n > ExternalNote + 1}
    /\ SchemaIds \subseteq {n \in Nat : n > ExternalNote + 1}
    /\ TaskIds \cap SchemaIds = {}

VARIABLES
    machine,        \* "up", "down", or "panicked" (boot gave up)
    objects,        \* DynamicObjectStore slots, in slot order
    bitmap,         \* the allocator's used blocks
    index,          \* ids known to the relationship store
    belongs,        \* id -> workspace, the BelongsTo relationships
    current,        \* id -> current revision
    prior,          \* superseded revisions
    capabilities,   \* entries of the capability slots in use
    quotas,         \* service -> storage quota record
    next_note,      \* next_shell_note_id
    next_ticks,     \* next_timestamp_ticks
    reply,          \* the answer a mutating call will give, or NoReply
    cell, pending, confirmed,   \* the checkpoint register
    acked           \* id -> last revision a caller was told about

memory == <<objects, bitmap, index, belongs, current, prior>>
authority == <<capabilities, quotas>>
counters == <<next_note, next_ticks>>
register == <<cell, pending, confirmed>>
vars == <<machine, memory, authority, counters, reply, register, acked>>

-----------------------------------------------------------------------------
(* The checkpoint register *)

NoSnapshot == [objects |-> << >>]
Nothing == [generation |-> 0, snapshot |-> NoSnapshot]

Register == INSTANCE AtomicCheckpoint WITH Contents <- {NoSnapshot}

-----------------------------------------------------------------------------
(* Tables *)

Services == {Shell, Intruder, TaskStorage} \cup Runtimes
Callers == {Shell, Intruder} \cup Runtimes

ShellWorkspace == 0
ExternalWorkspace == ExternalNote + 1
Workspaces == {ShellWorkspace, ExternalWorkspace}

ObjectIds == NoteIds \cup {ExternalNote} \cup TaskIds \cup SchemaIds
(* ObjectKind, without Package: a package object (create_package_object, 524)
   takes a slot and is never revised here; PackagePublication has it.      *)
Kinds == {"Note", "Task", "SchemaDefinition", "PackageDefined"}
Blocks == 0 .. MaxObjects - 1

Records == [id : ObjectIds, kind : Kinds, block : Blocks, schema : BOOLEAN]
Revisions == [revision : Nat, ticks : Nat]

Ids(table) == {table[i].id : i \in DOMAIN table}

RecordOf(table, id) == table[CHOOSE i \in DOMAIN table : table[i].id = id]

(* Function f with the new entry x -> y *)
With(f, x, y) == [z \in DOMAIN f \cup {x} |-> IF z = x THEN y ELSE f[z]]

NoReply == [id |-> 0, revision |-> 0]

(* CapabilityTable::validate.  Every capability of this service carries    *)
(* READ and WRITE, and none is revoked outside tests, so a valid handle is *)
(* an entry of the caller for the resource.                                *)
Entry(caller, resource) == [holder |-> caller, resource |-> resource]

Holds(caller, resource) == Entry(caller, resource) \in capabilities

(* CapabilityTable::grant: an equal entry is reused, else a slot is taken. *)
Granted(caller, resource) == capabilities \cup {Entry(caller, resource)}

CanGrant(caller, resource) ==
    Cardinality(Granted(caller, resource)) <= CapabilitySlots

-----------------------------------------------------------------------------
(* Storage quotas *)

NewQuota(limit) == [limit |-> limit, used |-> 0]

CanRegister(service) ==
    service \in DOMAIN quotas \/ Cardinality(DOMAIN quotas) < MaxQuotas

(* ensure_storage_quota: registered, or raised to the store's capacity *)
Ensured(service) ==
    IF service \in DOMAIN quotas
    THEN [quotas EXCEPT ![service].limit = IF @ < MaxObjects THEN MaxObjects ELSE @]
    ELSE With(quotas, service, NewQuota(MaxObjects))

CanCharge(table, service) ==
    service \in DOMAIN table /\ table[service].used < table[service].limit

Charged(table, service) == [table EXCEPT ![service].used = @ + 1]

-----------------------------------------------------------------------------
(* The stages of a create, each with the condition under which it succeeds *)

(* DynamicObjectStore::create_object: a fresh id, a free slot, a block *)
CanStore(id) ==
    /\ id \notin Ids(objects)
    /\ Len(objects) < MaxObjects
    /\ Blocks \ bitmap # {}

(* BlockAllocator::allocate(1): the first free block *)
FreeBlock == CHOOSE b \in Blocks \ bitmap : \A c \in Blocks \ bitmap : b <= c

(* BoundedRelationshipStore::insert_object, two slots are for the roots *)
CanIndex(id) == id \notin index /\ Cardinality(index) < MaxObjects + 2

CanRelate(id) == id \notin DOMAIN belongs /\ Cardinality(DOMAIN belongs) < MaxObjects

(* BoundedRevisionHistory::create_object *)
CanRecord(id) ==
    id \notin DOMAIN current /\ Cardinality(DOMAIN current) < MaxObjects

Stored(id, kind) ==
    Append(objects, [id |-> id, kind |-> kind, block |-> FreeBlock,
                     schema |-> kind = "PackageDefined"])

FirstRevision == [revision |-> 1, ticks |-> next_ticks]

(* What the tables become when the create gets as far as the flags say *)
CreateStages(id, kind, stored, related, recorded) ==
    /\ objects' = IF stored THEN Stored(id, kind) ELSE objects
    /\ bitmap' = IF stored THEN bitmap \cup {FreeBlock} ELSE bitmap
    /\ index' = IF stored THEN index \cup {id} ELSE index
    /\ belongs' = IF related THEN With(belongs, id, ShellWorkspace) ELSE belongs
    /\ next_ticks' = IF related \/ recorded THEN next_ticks + 1 ELSE next_ticks
    /\ current' = IF recorded THEN With(current, id, FirstRevision) ELSE current
    /\ UNCHANGED prior

-----------------------------------------------------------------------------
(* The state of a freshly seeded service, and of a restored one *)

SeededObjects ==
    <<[id |-> ExternalNote, kind |-> "Note", block |-> 0, schema |-> FALSE]>>

SeededSnapshot ==
    [objects |-> SeededObjects,
     bitmap |-> {0},
     belongs |-> [id \in {ExternalNote} |-> ExternalWorkspace],
     current |-> [id \in {ExternalNote} |-> [revision |-> 1, ticks |-> 1]],
     prior |-> {}]

(* initialize_runtime_authority and the charge of seed_external_note *)
SeededQuotas ==
    [s \in {Shell, Intruder} |->
        IF s = Shell THEN NewQuota(MaxQueryResults) ELSE [limit |-> 1, used |-> 1]]

SeededCapabilities == {Entry(Shell, ShellWorkspace)}

(* Mutant: the revision numbers are not encoded *)
SnapshotOfFirstRevisions ==
    [objects |-> objects,
     bitmap |-> bitmap,
     belongs |-> [id \in DOMAIN belongs \cap Ids(objects) |-> belongs[id]],
     current |-> [id \in DOMAIN current |-> [current[id] EXCEPT !.revision = 1]],
     prior |-> prior]

(* encode_snapshot_into *)
Snapshot ==
    [objects |-> objects,
     bitmap |-> bitmap,
     belongs |-> [id \in DOMAIN belongs \cap Ids(objects) |-> belongs[id]],
     current |-> current,
     prior |-> prior]

(* next_shell_note_id of a snapshot *)
next_shell_note_id(s) ==
    LET used == Ids(s.objects) \cap NoteIds
    IN  IF used = {} THEN FirstNote
        ELSE 1 + (CHOOSE n \in used : \A m \in used : m <= n)

(* DynamicObjectStore::restore_from_records: no id and no block twice, and *)
(* the bitmap is exactly the blocks of the records.                        *)
ObjectsRestorable(s) ==
    /\ s.bitmap \subseteq Blocks
    /\ s.bitmap = {s.objects[i].block : i \in DOMAIN s.objects}
    /\ \A i, j \in DOMAIN s.objects :
            i # j => /\ s.objects[i].block # s.objects[j].block
                     /\ s.objects[i].id # s.objects[j].id

(* BoundedRevisionHistory::restore_from_records *)
RevisionsRestorable(s) == \A p \in s.prior : p.id \in DOMAIN s.current

(* restore_dynamic_objects, restore_relationships and the revision history:*)
(* everything a snapshot must satisfy for the boot to go on.               *)
Restorable(s) ==
    /\ ObjectsRestorable(s)
    /\ DOMAIN s.belongs \subseteq Ids(s.objects)
    /\ RevisionsRestorable(s)

(* package_schema_reference_for_object: a package-defined object without   *)
(* its schema reference is a bad snapshot.                                 *)
SchemaReferencesReadable(table) ==
    \A i \in DOMAIN table : table[i].kind = "PackageDefined" => table[i].schema

(* Only the note id counter, the tables and the relationship index come    *)
(* from the snapshot; capabilities, quotas and the timestamp counter are   *)
(* the seeded ones (write_decoded_snapshot_into over write_seeded_into).   *)
RestoreFrom(s) ==
    /\ objects' = s.objects
    /\ bitmap' = s.bitmap
    /\ index' = Workspaces \cup Ids(s.objects)
    /\ belongs' = s.belongs
    /\ current' = s.current
    /\ prior' = s.prior
    /\ capabilities' = SeededCapabilities
    /\ quotas' = SeededQuotas
    /\ next_note' = next_shell_note_id(s)
    /\ next_ticks' = 2

Init ==
    /\ machine = "up"
    /\ objects = SeededSnapshot.objects
    /\ bitmap = SeededSnapshot.bitmap
    /\ index = Workspaces \cup {ExternalNote}
    /\ belongs = SeededSnapshot.belongs
    /\ current = SeededSnapshot.current
    /\ prior = {}
    /\ capabilities = SeededCapabilities
    /\ quotas = SeededQuotas
    /\ next_note = FirstNote
    /\ next_ticks = 2
    /\ reply = NoReply
    /\ cell = Nothing /\ pending = Nothing /\ confirmed = Nothing
    /\ acked = [id \in {} |-> 0]

-----------------------------------------------------------------------------
(* System calls *)

(* No call is under way.  The bounds close the model. *)
Ready ==
    /\ machine = "up"
    /\ reply = NoReply
    /\ next_ticks < MaxTicks
    /\ cell.generation < MaxStores

(* create_object, every stage of it.  A create whose object cannot be      *)
(* stored or indexed gives back its block and its charge but not its id;   *)
(* one that fails later leaves what the earlier stages did, and its error  *)
(* is not followed by a store.                                             *)
create_object(caller) ==
    LET id == next_note
        stored == CanStore(id) /\ CanIndex(id)
        related == stored /\ CanRelate(id)
        recorded == related /\ CanRecord(id)
        granted == recorded /\ CanGrant(caller, id)
    IN  /\ Ready
        /\ next_note \in NoteIds
        /\ Holds(caller, ShellWorkspace)
        /\ CanCharge(quotas, caller)
        /\ next_note' = next_note + 1
        /\ quotas' = IF stored THEN Charged(quotas, caller) ELSE quotas
        /\ CreateStages(id, "Note", stored, related, recorded)
        /\ capabilities' = IF granted THEN Granted(caller, id)
                           ELSE capabilities
        /\ reply' = IF granted THEN [id |-> id, revision |-> 1] ELSE NoReply
        /\ UNCHANGED <<machine, register, acked>>

(* create_package_defined_object, on a staged copy of the service that is  *)
(* dropped unless every stage and the package service's reconciliation of  *)
(* schema references succeed.                                              *)
create_package_defined_object(caller, schema) ==
    LET id == next_note
    IN  /\ Ready
        /\ next_note \in NoteIds
        /\ Holds(caller, ShellWorkspace)
        /\ schema \in DOMAIN current
        /\ CanRegister(caller) /\ CanCharge(Ensured(caller), caller)
        /\ CanStore(id) /\ CanIndex(id) /\ CanRelate(id) /\ CanRecord(id)
        /\ CanGrant(caller, id)
        /\ SchemaReferencesReadable(objects)
        /\ next_note' = next_note + 1
        /\ quotas' = Charged(Ensured(caller), caller)
        /\ CreateStages(id, "PackageDefined", TRUE, TRUE, TRUE)
        /\ capabilities' = Granted(caller, id)
        /\ reply' = [id |-> id, revision |-> 1]
        /\ UNCHANGED <<machine, register, acked>>

(* create_schema_definition_object (create_internal_object), reached when  *)
(* a package is published: staged, related to no workspace, not followed   *)
(* by a store of the ordinary checkpoint.                                  *)
create_internal_object(caller, id) ==
    /\ Ready
    /\ CanRegister(caller) /\ CanCharge(Ensured(caller), caller)
    /\ CanStore(id) /\ CanIndex(id) /\ CanRecord(id)
    /\ CanGrant(caller, id)
    /\ quotas' = Charged(Ensured(caller), caller)
    /\ CreateStages(id, "SchemaDefinition", TRUE, FALSE, TRUE)
    /\ capabilities' = Granted(caller, id)
    /\ UNCHANGED <<machine, next_note, reply, register, acked>>

(* create_task_service_object, under a task system call: the task service  *)
(* works on a staged copy, so a failure at any stage leaves nothing.       *)
create_task_service_object(id) ==
    /\ Ready
    /\ CanRegister(TaskStorage) /\ CanCharge(Ensured(TaskStorage), TaskStorage)
    /\ CanStore(id) /\ CanIndex(id) /\ CanRelate(id) /\ CanRecord(id)
    /\ quotas' = Charged(Ensured(TaskStorage), TaskStorage)
    /\ CreateStages(id, "Task", TRUE, TRUE, TRUE)
    /\ reply' = [id |-> id, revision |-> 1]
    /\ UNCHANGED <<machine, capabilities, next_note, register, acked>>

(* replace_object and update_object on staged copies: the timestamp must   *)
(* be newer than the revision's, and the old revision must find a slot.    *)
Revise(id, schema) ==
    LET old == current[id]
    IN  /\ next_ticks > old.ticks
        /\ Cardinality(prior) < MaxPrior
        /\ prior' = prior \cup {[id |-> id, revision |-> old.revision,
                                 ticks |-> old.ticks]}
        /\ current' = [current EXCEPT ![id] =
                         [revision |-> old.revision + 1, ticks |-> next_ticks]]
        /\ objects' = [i \in DOMAIN objects |->
                         IF objects[i].id = id
                         THEN [objects[i] EXCEPT !.schema = schema] ELSE objects[i]]
        /\ next_ticks' = next_ticks + 1
        /\ reply' = [id |-> id, revision |-> old.revision + 1]

(* revise_field builds a record with the one field it was given, whatever  *)
(* fields the object had.                                                  *)
revise_field(caller, id) ==
    /\ Ready
    /\ Holds(caller, id)
    /\ id \in DOMAIN current \cap Ids(objects)
    /\ Revise(id, FALSE)
    /\ UNCHANGED <<machine, bitmap, index, belongs, authority, next_note,
                   register, acked>>

(* revise_task_service_object: a task record of the same kind *)
revise_task_service_object(id) ==
    /\ Ready
    /\ id \in DOMAIN current \cap Ids(objects)
    /\ RecordOf(objects, id).kind = "Task"
    /\ Revise(id, FALSE)
    /\ UNCHANGED <<machine, bitmap, index, belongs, authority, next_note,
                   register, acked>>

(* The slots of the notes of the shell workspace *)
Listed ==
    {i \in DOMAIN objects :
        /\ objects[i].kind = "Note"
        /\ objects[i].id \in DOMAIN belongs
        /\ belongs[objects[i].id] = ShellWorkspace}

(* The first n of the slots in S, in slot order *)
First(S, n) == {i \in S : Cardinality({j \in S : j <= i}) <= n}

(* query_objects: a capability for each note listed, until the table of    *)
(* capabilities is full; the ones granted by then stay.                    *)
QueryCapabilities(caller) ==
    LET missing == {i \in First(Listed, MaxQueryResults) : ~Holds(caller, objects[i].id)}
        granted == First(missing, CapabilitySlots - Cardinality(capabilities))
    IN  capabilities \cup {Entry(caller, objects[i].id) : i \in granted}

query_objects(caller) ==
    /\ Ready
    /\ Holds(caller, ShellWorkspace)
    /\ capabilities' = QueryCapabilities(caller)
    /\ UNCHANGED <<machine, memory, quotas, counters, reply, register, acked>>

(* grant_workspace_capability, for a runtime that is being launched.  The  *)
(* quota stays registered when the capability table is full.               *)
grant_workspace_capability(caller) ==
    /\ Ready
    /\ CanRegister(caller)
    /\ quotas' = IF caller \in DOMAIN quotas THEN quotas
                 ELSE With(quotas, caller, NewQuota(MaxQueryResults))
    /\ capabilities' = IF CanGrant(caller, ShellWorkspace)
                       THEN Granted(caller, ShellWorkspace)
                       ELSE capabilities
    /\ UNCHANGED <<machine, memory, counters, reply, register, acked>>

-----------------------------------------------------------------------------
(* persist_object_service, a crash and a boot *)

PersistBegin ==
    /\ machine = "up"
    /\ reply # NoReply
    /\ Register!Begin(Snapshot)
    /\ UNCHANGED <<machine, memory, authority, counters, reply, acked>>

PersistInstall ==
    /\ machine = "up"
    /\ reply # NoReply
    /\ Register!Install
    /\ pending' = pending
    /\ UNCHANGED <<machine, memory, authority, counters, reply, acked>>

(* The checkpoint was written and read back: the reply goes out. *)
PersistConfirm ==
    /\ machine = "up"
    /\ reply # NoReply
    /\ Register!Confirm
    /\ reply' = NoReply
    /\ acked' = With(acked, reply.id, reply.revision)
    /\ UNCHANGED <<machine, memory, authority, counters>>

(* The checkpoint reports an error, before or after the instant it         *)
(* installs the snapshot: the call fails, the memory keeps the mutation.   *)
PersistFail ==
    /\ machine = "up"
    /\ reply # NoReply
    /\ Register!Abandon
    /\ reply' = NoReply
    /\ UNCHANGED <<machine, memory, authority, counters, acked>>

Crash ==
    /\ machine # "down"
    /\ machine' = "down"
    /\ reply' = NoReply
    /\ pending' = Nothing
    /\ UNCHANGED <<cell, confirmed>>
    /\ UNCHANGED <<memory, authority, counters, acked>>

(* restore_or_initialize_in_place, then the package service's              *)
(* reconciliation of schema references; a failure of either is a panic.    *)
Boot ==
    LET s == IF cell = Nothing THEN SeededSnapshot ELSE cell.snapshot
    IN  /\ machine = "down"
        /\ machine' = IF Restorable(s) /\ SchemaReferencesReadable(s.objects)
                      THEN "up" ELSE "panicked"
        /\ RestoreFrom(s)
        /\ UNCHANGED <<reply, register, acked>>

Next ==
    \/ \E caller \in Callers :
          \/ create_object(caller)
          \/ query_objects(caller)
    \/ \E caller \in Callers, id \in ObjectIds : revise_field(caller, id)
    \/ \E caller \in Callers, schema \in SchemaIds :
          create_package_defined_object(caller, schema)
    \/ \E caller \in Runtimes :
          \/ grant_workspace_capability(caller)
          \/ \E id \in SchemaIds : create_internal_object(caller, id)
    \/ \E id \in TaskIds :
          \/ create_task_service_object(id)
          \/ revise_task_service_object(id)
    \/ PersistBegin
    \/ PersistInstall
    \/ PersistConfirm
    \/ PersistFail
    \/ Crash
    \/ Boot

Spec == Init /\ [][Next]_vars

-----------------------------------------------------------------------------
(* Properties *)

Capabilities == [holder : Services, resource : ObjectIds \cup Workspaces]

(* TypeOK: every table holds records of its type, and no sequence of calls *)
(* overfills the prior-revision table or the capability table.             *)
TypeOK ==
    /\ machine \in {"up", "down", "panicked"}
    /\ objects \in Seq(Records)
    /\ bitmap \in SUBSET Blocks
    /\ index \in SUBSET (ObjectIds \cup Workspaces)
    /\ DOMAIN belongs \subseteq ObjectIds
    /\ \A id \in DOMAIN belongs : belongs[id] \in Workspaces
    /\ DOMAIN current \subseteq ObjectIds
    /\ \A id \in DOMAIN current : current[id] \in Revisions
    /\ prior \in SUBSET [id : ObjectIds, revision : Nat, ticks : Nat]
    /\ Cardinality(prior) <= MaxPrior
    /\ capabilities \in SUBSET Capabilities
    /\ Cardinality(capabilities) <= CapabilitySlots
    /\ DOMAIN quotas \subseteq Services
    /\ next_note \in Nat
    /\ next_ticks \in Nat
    /\ reply = NoReply \/ reply \in [id : ObjectIds, revision : Nat]

(* The object store, the relationship index, the workspace relationships   *)
(* and the revision history name the same objects, so no create is ever    *)
(* left half done by a table that is full before the others.               *)
TablesAgree ==
    machine = "up" =>
        /\ index = Workspaces \cup Ids(objects)
        /\ DOMAIN current = Ids(objects)
        /\ DOMAIN belongs =
              {objects[i].id : i \in {j \in DOMAIN objects :
                                        objects[j].kind # "SchemaDefinition"}}

(* Whatever is stored, by whichever sequence of calls, failures and        *)
(* reboots, passes every check the restore makes.                          *)
SnapshotRestorable == cell # Nothing => Restorable(cell.snapshot)

(* A create or revise that was answered is part of what a boot restores.   *)
AckedSurvives ==
    \A id \in DOMAIN acked :
        /\ cell # Nothing
        /\ id \in DOMAIN cell.snapshot.current
        /\ cell.snapshot.current[id].revision >= acked[id]

(* For every object the history holds exactly the revisions before the     *)
(* current one, with timestamps in revision order.                         *)
HistoryComplete ==
    \A id \in DOMAIN current :
        LET old == {p \in prior : p.id = id}
        IN  /\ {p.revision : p \in old} = 1 .. current[id].revision - 1
            /\ \A p \in old : p.ticks < current[id].ticks
            /\ \A p, q \in old : p.revision < q.revision => p.ticks < q.ticks

(* A capability on an object is held by nobody but callers whose workspace *)
(* it belongs to, or who installed it: no sequence of queries, creates and *)
(* reboots gives anyone the note of the external workspace, or gives the   *)
(* intruder anything.                                                      *)
NoForeignAuthority ==
    \A c \in capabilities :
        /\ c.holder \in {Shell} \cup Runtimes
        /\ c.resource # ShellWorkspace =>
              \/ c.resource \in SchemaIds
              \/ c.resource \in DOMAIN belongs
                 /\ belongs[c.resource] = ShellWorkspace

(* No caller is ever told the same revision of the same object twice, not  *)
(* even on the two sides of a crash that dropped an unanswered call.       *)
AnswersFresh ==
    reply # NoReply /\ reply.id \in DOMAIN acked => reply.revision > acked[reply.id]

(* Said of the code and not true of it *)

(* A running service can stamp a new revision of any of its objects.       *)
(* core/src/syscall.rs: a reboot "restores exactly this state".            *)
TimestampsAhead ==
    machine = "up" => \A id \in DOMAIN current : current[id].ticks < next_ticks

=============================================================================

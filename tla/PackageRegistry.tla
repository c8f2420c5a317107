--------------------------- MODULE PackageRegistry ---------------------------
(***************************************************************************)
(* The records of the package registry (core/src/package_registry.rs), the *)
(* content store beside it (package_content_store.rs), the package source  *)
(* and artifact checks before an install (package_source.rs,               *)
(* shared/src/package_format.rs) and the operations of package_service.rs  *)
(* on them: install, disable, uninstall, retention of schemas and launch.  *)
(*                                                                         *)
(* PackagePublication has the durable side of the same service, with its   *)
(* crashes; here every operation runs to its end and what is followed is   *)
(* how the five record tables, the block bitmap, the object identities and *)
(* the runtime contexts stay consistent with each other.                   *)
(*                                                                         *)
(* A release is an artifact; its digest is the release itself.  A locator  *)
(* is a pair <<package locator, export name>> of ordered names below the   *)
(* one namespace root the service uses.  Revisions and schema identities follow the package   *)
(* identity (one schema for each package) and are left out.                *)
(***************************************************************************)
EXTENDS Naturals, Sequences, FiniteSets, SequencesExt

CONSTANTS
    Releases,       \* the artifacts offered by the package source
    Artifact,       \* Artifact[r]: what the bytes of r hold
    Blocks,         \* PACKAGE_CONTENT_MAX_BLOCKS
    MaxPackages,    \* MAX_REGISTRY_PACKAGES
    MaxContents,    \* MAX_REGISTRY_CONTENT and PACKAGE_CONTENT_MAX_STAGED_RECORDS
    MaxExports,     \* MAX_REGISTRY_EXPORTS
    MaxRequirements,\* MAX_REGISTRY_REQUIREMENTS
    MaxContexts,    \* MAX_REQUIREMENT_RECORDS, the bound on runtime contexts
    MaxRetention,   \* bound on the references to one schema
    Processes,      \* processes that may launch an export
    Handles         \* capabilities a process may supply: owner and rights

PackageRegistryAssumption ==
    /\ Blocks \in Nat /\ MaxPackages \in Nat /\ MaxContents \in Nat
    /\ MaxExports \in Nat /\ MaxRequirements \in Nat /\ MaxContexts \in Nat
    /\ MaxRetention \in Nat

VARIABLES
    registry,   \* the five tables
    store,      \* committed and staged bitmaps, records held, their number
    next,       \* next_package_object_id (next_schema_object_id moves with it)
    contexts,   \* runtime_contexts
    answer,     \* the last PackageLaunchResult, or NoLaunch
    ever        \* the releases ever installed, by package identity

vars == <<registry, store, next, contexts, answer, ever>>

NoExport == [locator |-> <<0, 0>>, package |-> 0, release |-> "none", content |-> 0, kind |-> "None"]
NoLaunch == [process |-> "none", export |-> NoExport, grants |-> <<>>]

empty == [packages |-> <<>>, schemas |-> <<>>, contents |-> <<>>,
          exports |-> <<>>, requirements |-> <<>>]

Failed == [empty EXCEPT !.packages = <<[id |-> 0, release |-> "none", status |-> "Failed"]>>]

-----------------------------------------------------------------------------
(* The artifact: parsed in one pass, any fault refuses it *)

(* ManifestV0::parse: records strictly ascending by type and name; parse:  *)
(* ranges, digests and content table                                       *)
parse_artifact(r) ==
    /\ Artifact[r].sealed
    /\ Len(Artifact[r].contents) <= MaxContents

-----------------------------------------------------------------------------
(* Adding records.  A registry that refuses a record is Failed: the caller *)
(* abandons the staged copy.                                               *)

Statuses == {"Ok", "Disabled", "Tombstoned"}

Keyed(records, Same(_)) == \E i \in DOMAIN records : Same(records[i])

add_package_record(r, record) ==
    IF Len(r.packages) >= MaxPackages \/ Keyed(r.packages, LAMBDA p : p.id = record.id)
    THEN Failed ELSE [r EXCEPT !.packages = Append(@, record)]

add_schema_record(r, record) ==
    IF Len(r.schemas) >= MaxPackages \/ Keyed(r.schemas, LAMBDA s : s.id = record.id)
    THEN Failed ELSE [r EXCEPT !.schemas = Append(@, record)]

ExtentOf(c) == c.start .. (c.start + c.blocks - 1)

add_content_record(r, record) ==
    IF \/ record.blocks > 0 /\ record.start + record.blocks > Blocks
       \/ Len(r.contents) >= MaxContents
       \/ Keyed(r.contents, LAMBDA c : c.package = record.package /\ c.index = record.index)
    THEN Failed ELSE [r EXCEPT !.contents = Append(@, record)]

(* package_record_for_export and the status it may have *)
PackageIn(r, export, statuses) ==
    \E i \in DOMAIN r.packages :
        /\ r.packages[i].id = export.package
        /\ r.packages[i].release = export.release
        /\ r.packages[i].status \in statuses

(* add_export_record, add_export_record_from_snapshot: insert_export_record *)
insert_export_record(r, record, statuses) ==
    IF \/ ~PackageIn(r, record, statuses)
       \/ Len(r.exports) >= MaxExports
       \/ Keyed(r.exports, LAMBDA e : e.locator = record.locator)
    THEN Failed ELSE [r EXCEPT !.exports = Append(@, record)]

(* export_record_for_requirement: the first export of that locator *)
ExportsAt(r, locator) == SelectSeq(r.exports, LAMBDA e : e.locator = locator)

(* add_requirement_record, add_requirement_record_from_snapshot *)
insert_requirement_record(r, record, statuses) ==
    IF \/ ExportsAt(r, record.locator) = <<>>
       \/ ~PackageIn(r, ExportsAt(r, record.locator)[1], statuses)
       \/ Len(r.requirements) >= MaxRequirements
       \/ Keyed(r.requirements, LAMBDA q : /\ q.locator = record.locator
                                            /\ (q.id = record.id \/ q.slot = record.slot))
    THEN Failed ELSE [r EXCEPT !.requirements = Append(@, record)]

(* A sequence of records, each added to what the one before left *)
AddAll(r, records, Add(_, _)) ==
    FoldLeft(LAMBDA q, record : IF q = Failed THEN Failed ELSE Add(q, record), r, records)

published_content_for_export(r, export) ==
    Keyed(r.contents, LAMBDA c : c.package = export.package /\ c.index = export.content)

-----------------------------------------------------------------------------
(* Snapshots *)

Before(a, b) == a[1] < b[1] \/ (a[1] = b[1] /\ a[2] < b[2])

(* encode_snapshot: every table in the order of its key, so that the bytes *)
(* do not depend on the order in which the records came                    *)
encode_snapshot(r) ==
    [packages |-> SortSeq(r.packages, LAMBDA a, b : a.id < b.id),
     schemas |-> SortSeq(r.schemas, LAMBDA a, b : a.id < b.id),
     contents |-> SortSeq(r.contents,
                     LAMBDA a, b : Before(<<a.package, a.index>>, <<b.package, b.index>>)),
     exports |-> SortSeq(r.exports, LAMBDA a, b : Before(a.locator, b.locator)),
     requirements |-> SortSeq(r.requirements,
                     LAMBDA a, b : \/ Before(a.locator, b.locator)
                                   \/ a.locator = b.locator /\ a.id < b.id)]

SameRecords(r, q) ==
    \A table \in DOMAIN empty : ToSet(r[table]) = ToSet(q[table]) /\ Len(r[table]) = Len(q[table])

(* decode_snapshot_into: every record is added again, and checked again,   *)
(* against the tables before it.  Disabled packages may have exports.      *)
decode_snapshot_into(bytes) ==
    LET live == {"Ok", "Disabled"}
        packages == AddAll(empty, bytes.packages, add_package_record)
        schemas == AddAll(packages, bytes.schemas, add_schema_record)
        contents == AddAll(schemas, bytes.contents, add_content_record)
        exports == AddAll(contents, bytes.exports,
                     LAMBDA r, e : IF published_content_for_export(r, e)
                                   THEN insert_export_record(r, e, live) ELSE Failed)
    IN  AddAll(exports, bytes.requirements,
            LAMBDA r, q : insert_requirement_record(r, q, live))

(* next_package_object_id after a restore: one above the highest record *)
next_package_object_id(r) ==
    LET ids == {r.packages[i].id : i \in DOMAIN r.packages}
    IN  CHOOSE n \in 1 .. MaxPackages + 1 :
            /\ \A id \in ids : id < n
            /\ n = 1 \/ n - 1 \in ids

-----------------------------------------------------------------------------
(* The content store *)

FreeStarts(s, count) ==
    {b \in 0 .. Blocks - count : \A c \in b .. b + count - 1 : c \notin s.committed \cup s.staged}

(* Mutant: blocks staged a moment ago are looked at as free *)
FreeOfCommitted(s, count) ==
    {b \in 0 .. Blocks - count : \A c \in b .. b + count - 1 : c \notin s.committed}

(* range_is_free *)
range_is_free(s, count) == FreeStarts(s, count)

(* stage_content: digest, extent, one more slot; state is the store, the   *)
(* records staged so far and whether one was refused                       *)
stage_content(state, content, package, release) ==
    LET index == Len(state.staged)
        starts == IF content.blocks > Blocks THEN {} ELSE range_is_free(state.store, content.blocks)
        start == IF content.blocks = 0 THEN 0
                 ELSE CHOOSE b \in starts : \A c \in starts : b <= c
        refused == \/ ~content.digestOk
                   \/ content.blocks > 0 /\ starts = {}
                   \/ index >= MaxContents
    IN  IF state.refused \/ refused THEN [state EXCEPT !.refused = TRUE]
        ELSE [store |-> [state.store EXCEPT !.staged = @ \cup (start .. start + content.blocks - 1)],
              staged |-> Append(state.staged,
                  [package |-> package, release |-> release, index |-> index,
                   start |-> start, blocks |-> content.blocks, retention |-> 0]),
              refused |-> FALSE]

rollback(s) == [s EXCEPT !.staged = {}]

(* commit, after validate_commit_capacity *)
commit(s, staged) ==
    [committed |-> s.committed \cup s.staged, staged |-> {},
     held |-> s.held \cup ToSet(staged), count |-> s.count + Len(staged)]

live_bitmap_from_registry(r) == UNION {ExtentOf(r.contents[i]) : i \in DOMAIN r.contents}

(* retain_only_registry_content: the slots take the registry's fields *)
retain_only_registry_content(s, r) ==
    [committed |-> live_bitmap_from_registry(r), staged |-> {},
     held |-> {c \in ToSet(r.contents) :
                 \E d \in s.held : d.package = c.package /\ d.index = c.index},
     count |-> Len(r.contents)]

-----------------------------------------------------------------------------
(* Install *)

(* add_manifest_exports_and_requirements_to_registry: every export, then   *)
(* every requirement, which names its export by locator and may name one   *)
(* of another package                                                      *)
add_manifest(r, release, package) ==
    LET a == Artifact[release]
        exports == AddAll(r, a.exports, LAMBDA q, e :
            IF e.content >= Len(a.contents) THEN Failed
            ELSE insert_export_record(q, [locator |-> e.locator, package |-> package,
                     release |-> release, content |-> e.content, kind |-> e.kind], {"Ok"}))
    IN  AddAll(exports, a.requirements,
            LAMBDA q, x : IF x.rights = {} THEN Failed
                          ELSE insert_requirement_record(q, x, {"Ok"}))

Staged(release, package) ==
    FoldLeft(LAMBDA state, c : stage_content(state, c, package, release),
             [store |-> rollback(store), staged |-> <<>>, refused |-> FALSE],
             Artifact[release].contents)

(* The registry an install builds in its staged copy *)
Candidate(release, package, staged) ==
    LET one == add_package_record(registry, [id |-> package, release |-> release, status |-> "Ok"])
        two == IF one = Failed THEN Failed
               ELSE add_schema_record(one, [id |-> package, package |-> package, index |-> 0])
        three == AddAll(two, staged, add_content_record)
    IN  IF three = Failed THEN Failed ELSE add_manifest(three, release, package)

(* What the store is left with by an install that is refused *)
rollback_after_error(state) == rollback(state.store)

(* install_compatibility; install authority and the source read precede it *)
install(release) ==
    LET state == Staged(release, next)
        candidate == Candidate(release, next, state.staged)
        accepted == /\ parse_artifact(release)
                    /\ Artifact[release].contents # <<>>
                    /\ ~state.refused
                    /\ Artifact[release].contents[1].bytes > 0
                    /\ candidate # Failed
                    /\ store.count + Len(state.staged) <= MaxContents
    IN  /\ answer' = NoLaunch
        /\ IF accepted
           THEN /\ registry' = candidate
                /\ store' = commit(state.store, state.staged)
                /\ next' = next + 1
                /\ ever' = Append(ever, release)
           ELSE /\ store' = IF parse_artifact(release) /\ Artifact[release].contents # <<>>
                            THEN rollback_after_error(state) ELSE store
                /\ UNCHANGED <<registry, next, ever>>
        /\ UNCHANGED contexts

-----------------------------------------------------------------------------
(* Disable and uninstall *)

StatusOf(r, p) ==
    IF \E i \in DOMAIN r.packages : r.packages[i].id = p
    THEN r.packages[CHOOSE i \in DOMAIN r.packages : r.packages[i].id = p].status ELSE "None"

WithStatus(r, p, status) ==
    [r EXCEPT !.packages = [i \in DOMAIN @ |->
        IF @[i].id = p THEN [@[i] EXCEPT !.status = status] ELSE @[i]]]

disable(p) ==
    /\ StatusOf(registry, p) \in {"Ok", "Disabled"}
    /\ registry' = WithStatus(registry, p, "Disabled")
    /\ answer' = NoLaunch
    /\ UNCHANGED <<store, next, contexts, ever>>

remove_exports_for_package(r, p) ==
    [r EXCEPT !.exports = SelectSeq(@, LAMBDA e : e.package # p)]

(* requirement_belongs_to_package: by the export at its locator *)
remove_requirements_for_package(r, p) ==
    [r EXCEPT !.requirements = SelectSeq(@, LAMBDA q :
        ~(/\ ExportsAt(r, q.locator) # <<>>
          /\ ExportsAt(r, q.locator)[1].package = p))]

(* tombstone: the requirements go while their exports are still there *)
tombstone(r, p) ==
    remove_exports_for_package(
        remove_requirements_for_package(WithStatus(r, p, "Tombstoned"), p), p)

(* retained_schema_descriptor_content *)
RetainedDescriptor(r, c) ==
    /\ c.retention > 0
    /\ Keyed(r.schemas, LAMBDA s : s.package = c.package /\ s.index = c.index)

(* Mutant: every content of the package goes *)
reclaim_everything(r, p) ==
    [r EXCEPT !.contents = SelectSeq(@, LAMBDA c : c.package # p)]

reclaim_tombstoned_package_content(r, p) ==
    [r EXCEPT !.contents = SelectSeq(@, LAMBDA c : c.package # p \/ RetainedDescriptor(r, c))]

package_has_live_runtime_context(p) ==
    \E i \in DOMAIN contexts : contexts[i].export.package = p

uninstall(p) ==
    /\ StatusOf(registry, p) \in {"Ok", "Disabled"}
    /\ ~package_has_live_runtime_context(p)
    /\ LET r == reclaim_tombstoned_package_content(tombstone(registry, p), p)
       IN  /\ registry' = r
           /\ store' = retain_only_registry_content(store, r)
    /\ answer' = NoLaunch
    /\ UNCHANGED <<next, contexts, ever>>

-----------------------------------------------------------------------------
(* References to the schema of a package *)

DescriptorAt(r, p) ==
    {i \in DOMAIN r.contents : r.contents[i].package = p /\ r.contents[i].index = 0}

(* adjust_schema_descriptor_retention, one up or one down *)
adjust_schema_descriptor_retention(p, up) ==
    \E i \in DescriptorAt(registry, p) :
        /\ IF up THEN registry.contents[i].retention < MaxRetention
           ELSE registry.contents[i].retention > 0
        /\ registry' = [registry EXCEPT !.contents[i].retention = IF up THEN @ + 1 ELSE @ - 1]
        /\ answer' = NoLaunch
        /\ UNCHANGED <<store, next, contexts, ever>>

-----------------------------------------------------------------------------
(* Launch *)

(* export_for_locator: only of an active package *)
export_for_locator(locator) ==
    SelectSeq(ExportsAt(registry, locator), LAMBDA e : PackageIn(registry, e, {"Ok"}))

RequirementsOf(r, export) ==
    SelectSeq(r.requirements, LAMBDA q : q.locator = export.locator)

(* find_supplied_launch_grant and the validator: supplied is a sequence of *)
(* <<requirement id, handle>>, the first of the id is taken                *)
SuppliedFor(requirement, supplied) ==
    SelectSeq(supplied, LAMBDA g : g[1] = requirement.id)

validate_launch_requirement_grant(process, requirement, handle) ==
    /\ handle.owner = process
    /\ requirement.rights \subseteq handle.rights

validate_launch_authority(process, export, supplied) ==
    \A i \in DOMAIN RequirementsOf(registry, export) :
        LET q == RequirementsOf(registry, export)[i]
        IN  /\ SuppliedFor(q, supplied) # <<>>
            /\ validate_launch_requirement_grant(process, q, SuppliedFor(q, supplied)[1][2])

(* record_runtime_context: an equal context is refreshed *)
record_runtime_context(context) ==
    IF context \in ToSet(contexts) THEN contexts ELSE Append(contexts, context)

launch(process, locator, supplied) ==
    LET found == export_for_locator(locator)
        context == [process |-> process, export |-> found[1]]
    IN  /\ found # <<>>
        /\ found[1].kind = "Tool"
        /\ validate_launch_authority(process, found[1], supplied)
        /\ context \in ToSet(contexts) \/ Len(contexts) < MaxContexts
        /\ contexts' = record_runtime_context(context)
        /\ answer' = [process |-> process, export |-> found[1],
               grants |-> [i \in DOMAIN RequirementsOf(registry, found[1]) |->
                   [slot |-> RequirementsOf(registry, found[1])[i].slot,
                    handle |-> SuppliedFor(RequirementsOf(registry, found[1])[i], supplied)[1][2]]]]
        /\ UNCHANGED <<registry, store, next, ever>>

-----------------------------------------------------------------------------
Locators == UNION {{Artifact[r].exports[i].locator : i \in DOMAIN Artifact[r].exports} : r \in Releases}
Ids == UNION {{Artifact[r].requirements[i].id : i \in DOMAIN Artifact[r].requirements} : r \in Releases}

(* The grants a caller sends: one handle for each of some requirement ids  *)
Supplies == UNION {{[i \in 1 .. Cardinality(ids) |-> <<SetToSeq(ids)[i], h>>] : h \in Handles} : ids \in SUBSET Ids}

Init ==
    /\ registry = empty
    /\ store = [committed |-> {}, staged |-> {}, held |-> {}, count |-> 0]
    /\ next = 1
    /\ contexts = <<>>
    /\ answer = NoLaunch
    /\ ever = <<>>

Next ==
    \/ \E r \in Releases : install(r)
    \/ \E p \in 1 .. MaxPackages :
          \/ disable(p)
          \/ uninstall(p)
          \/ adjust_schema_descriptor_retention(p, TRUE)
          \/ adjust_schema_descriptor_retention(p, FALSE)
    \/ \E process \in Processes, locator \in Locators, supplied \in Supplies :
          launch(process, locator, supplied)

Spec == Init /\ [][Next]_vars

-----------------------------------------------------------------------------
(* Types: nothing stays staged between two operations, the tables are      *)
(* within their bounds and the contexts within theirs.                     *)
TypeOK ==
    /\ store.staged = {}
    /\ store.count = Len(registry.contents) /\ store.count <= MaxContents
    /\ \A i \in DOMAIN registry.packages : registry.packages[i].status \in Statuses
    /\ Len(registry.exports) <= MaxExports
    /\ Len(registry.requirements) <= MaxRequirements
    /\ Len(contexts) <= MaxContexts /\ IsInjective(contexts)
    /\ next \in 1 .. MaxPackages + 1

(* Whatever was installed, disabled, uninstalled or retained, the snapshot *)
(* of the registry is accepted by decode_snapshot_into, which checks every *)
(* record again, and gives back the same tables; the identities a restored *)
(* service hands out continue where the running one would.                 *)
SnapshotRestores ==
    /\ SameRecords(decode_snapshot_into(encode_snapshot(registry)), registry)
    /\ next_package_object_id(registry) = next

(* The allocator's bitmap is exactly the blocks the registry lists and no  *)
(* block belongs to two contents, so that an install can never overwrite   *)
(* the bytes of a package or of a retained schema (range_is_free, commit,  *)
(* retain_only_registry_content).                                          *)
BlocksOwnedOnce ==
    /\ store.committed = live_bitmap_from_registry(registry)
    /\ \A i, j \in DOMAIN registry.contents :
        i # j => ExtentOf(registry.contents[i]) \cap ExtentOf(registry.contents[j]) = {}
    /\ \A i \in DOMAIN registry.contents :
        \E c \in store.held : c.package = registry.contents[i].package
                              /\ c.index = registry.contents[i].index
                              /\ ExtentOf(c) = ExtentOf(registry.contents[i])

(* A name resolves to one export, of the release its package was installed *)
(* with; no import slot and no requirement id of an export is declared     *)
(* twice, so a launch fills every slot of the graph at most once, although *)
(* manifests of several packages may add requirements to one export.       *)
NamesAndSlotsUnambiguous ==
    /\ \A i, j \in DOMAIN registry.exports :
        i # j => registry.exports[i].locator # registry.exports[j].locator
    /\ \A i \in DOMAIN registry.exports :
        ever[registry.exports[i].package] = registry.exports[i].release
    /\ \A i, j \in DOMAIN registry.requirements :
        (i # j /\ registry.requirements[i].locator = registry.requirements[j].locator)
        => /\ registry.requirements[i].id # registry.requirements[j].id
           /\ registry.requirements[i].slot # registry.requirements[j].slot

(* A program that was launched keeps its export, its content and its       *)
(* descriptor for as long as its runtime context is there: disabling its   *)
(* package takes none of them, uninstalling is refused                     *)
(* (package_has_live_runtime_context).                                     *)
ContextKeepsExport ==
    \A i \in DOMAIN contexts :
        LET e == contexts[i].export
        IN  /\ e \in ToSet(registry.exports)
            /\ published_content_for_export(registry, e)
            /\ DescriptorAt(registry, e.package) # {}

(* A schema descriptor with references outlives its package: uninstall     *)
(* keeps the content record and its blocks (reclaim_tombstoned_package_    *)
(* content), and a record whose references are counted never goes.         *)
ReferencedSchemaKept ==
    \A p \in 1 .. MaxPackages :
        (\E i \in DescriptorAt(registry, p) : registry.contents[i].retention > 0)
        => \E j \in DescriptorAt(registry', p) :
              \E i \in DescriptorAt(registry, p) :
                  ExtentOf(registry'.contents[j]) = ExtentOf(registry.contents[i])

(* A launch answers with a handle of the caller for every import of the    *)
(* export, each with the rights its manifest requires, and only for a      *)
(* package that is active at that moment (validate_launch_authority,       *)
(* export_for_locator).                                                    *)
LaunchFullyGranted ==
    answer' \notin {NoLaunch, answer} =>
        /\ StatusOf(registry, answer'.export.package) = "Ok"
        /\ \A i \in DOMAIN registry.requirements :
            registry.requirements[i].locator = answer'.export.locator =>
                \E k \in DOMAIN answer'.grants :
                    /\ answer'.grants[k].slot = registry.requirements[i].slot
                    /\ answer'.grants[k].handle.owner = answer'.process
                    /\ registry.requirements[i].rights \subseteq answer'.grants[k].handle.rights
=============================================================================

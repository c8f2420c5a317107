-------------------------- MODULE PackagePublication -------------------------
(***************************************************************************)
(* Durable publication of package worlds (core/src/package_service.rs,     *)
(* package_registry.rs, package_candidate_store.rs and                     *)
(* package_content_store.rs), together with the ordinary object checkpoint *)
(* whose package-defined objects refer to the schemas of packages.         *)
(*                                                                         *)
(* A world is a registry generation, an object candidate checkpoint and    *)
(* the contents the registry lists.  Registry, candidate and anchor have   *)
(* two slots each, chosen by the parity of a generation.  A world is       *)
(* selected by a boot when an anchor names it and everything the anchor    *)
(* names is found on the device.                                           *)
(*                                                                         *)
(* A digest is the value it digests: the hash functions are taken to be    *)
(* collision free.  Transaction ids advance with the registry generation   *)
(* and order anchors the same way, so they are left out.  Of the contents  *)
(* of a package only the schema descriptor is kept, the one content whose  *)
(* life may outlast the package.                                           *)
(***************************************************************************)
EXTENDS Naturals, Sequences, FiniteSets

CONSTANTS
    Releases,       \* the artifacts an install may be given
    Blocks,         \* PACKAGE_CONTENT blocks, 1 .. n
    MaxPackages,    \* bound on the packages ever installed
    MaxGeneration,  \* bound on registry and object generations
    MaxEdits,       \* bound on the objects created by processes
    LateErrors      \* an anchor write reported as failed may have reached the medium

PackagePublicationAssumption ==
    /\ Blocks \subseteq Nat \ {0} /\ IsFiniteSet(Blocks)
    /\ MaxPackages \in Nat /\ MaxGeneration \in Nat /\ MaxEdits \in Nat
    /\ LateErrors \in BOOLEAN

VARIABLES
    disk,       \* registry, candidate, anchor slots and content blocks
    ordinary,   \* the ordinary object checkpoint
    running,
    registry,   \* PackageService.registry
    anchored,   \* the object candidate the current anchor names, or NoCandidate
    objects,    \* the live object service
    prepared,   \* prepared_candidate and what is kept with it, or NoPrepared
    cached,     \* package -> retention of the content bytes held in memory
    contexts,   \* packages with a runtime context
    call,       \* the operation under way and its next write, or Idle
    told        \* the registry last reported as published

memory == <<registry, anchored, objects, prepared, cached, contexts>>
vars == <<disk, ordinary, running, memory, call, told>>

-----------------------------------------------------------------------------
Parity == 0 .. 1

NoRegistry == [generation |-> 0, packages |-> << >>]
NoCandidate == [generation |-> 0, packages |-> {}, instances |-> << >>, notes |-> 0]
NoAnchor == [registry |-> NoRegistry, object |-> NoCandidate, package |-> 0]
NoContent == <<0, 0>>
NoPrepared == [registry |-> NoRegistry, object |-> NoCandidate, package |-> 0,
               live |-> NoCandidate]
Idle == [op |-> "Idle", step |-> "None", registry |-> NoRegistry,
         object |-> NoCandidate, package |-> 0]

Kept(r) == {p \in DOMAIN r.packages : r.packages[p].block # 0}
ContentOf(r, p) == <<p, r.packages[p].release>>

(* The content blocks the registry lists: the allocator's committed bitmap *)
live_bitmap_from_registry(r) == {r.packages[p].block : p \in Kept(r)}

FreeBlocks(r) == Blocks \ live_bitmap_from_registry(r)

(* allocate_staged: the first free extent *)
allocate_staged(r) == CHOOSE b \in FreeBlocks(r) : \A c \in FreeBlocks(r) : b <= c

-----------------------------------------------------------------------------
(* Reading worlds back *)

read_validate_candidate_content(d, r) ==
    \A p \in Kept(r) : d.contents[r.packages[p].block] = ContentOf(r, p)

(* A registry or candidate slot is read by the generation and the digest   *)
(* of what is expected there.                                              *)
read_candidate_registry_generation(d, r) == d.registries[r.generation % 2] = r

read_object_service_candidate_checkpoint(d, object) ==
    d.candidates[object.generation % 2] = object

registry_matches_object_snapshot(a) ==
    a.package \in DOMAIN a.registry.packages \cap a.object.packages

(* publication_anchor_is_complete, also the checks of restore_from_storage *)
publication_anchor_is_complete(d, a) ==
    /\ a # NoAnchor
    /\ read_candidate_registry_generation(d, a.registry)
    /\ read_object_service_candidate_checkpoint(d, a.object)
    /\ registry_matches_object_snapshot(a)
    /\ read_validate_candidate_content(d, a.registry)

CompleteAnchors(d) ==
    {s \in Parity : publication_anchor_is_complete(d, d.anchors[s])}

(* Mutant: the first complete anchor is taken *)
FirstCompleteAnchor(d) ==
    IF CompleteAnchors(d) = {} THEN NoAnchor
    ELSE d.anchors[CHOOSE s \in CompleteAnchors(d) : \A t \in CompleteAnchors(d) : s <= t]

(* restore_from_storage_with_scratch: the complete anchor with the highest *)
(* registry generation                                                     *)
SelectedAnchor(d) ==
    IF CompleteAnchors(d) = {} THEN NoAnchor
    ELSE d.anchors[CHOOSE s \in CompleteAnchors(d) : \A t \in CompleteAnchors(d) :
                     d.anchors[t].registry.generation <= d.anchors[s].registry.generation]

selected_registry_tombstones_anchor_package(selected, a) ==
    /\ selected.generation > a.registry.generation
    /\ a.package \in DOMAIN selected.packages
    /\ selected.packages[a.package].status = "Tombstoned"

ensure_candidate_backing_slots_available(d, registryGeneration, objectGeneration, selected) ==
    \A s \in CompleteAnchors(d) :
        LET a == d.anchors[s]
        IN  \/ /\ a.registry.generation % 2 # registryGeneration % 2
               /\ a.object.generation % 2 # objectGeneration % 2
            \/ selected_registry_tombstones_anchor_package(selected, a)

-----------------------------------------------------------------------------
(* Schema references *)

CountOf(instances, p) == Cardinality({i \in DOMAIN instances : instances[i] = p})

(* reconcile_schema_references: every retention count is recomputed *)
reconcile_schema_references(r, instances) ==
    [r EXCEPT !.packages = [p \in DOMAIN r.packages |->
        [r.packages[p] EXCEPT !.refs = CountOf(instances, p)]]]

(* It fails on a reference whose schema or descriptor content is gone.     *)
Reconcilable(r, instances) ==
    \A i \in DOMAIN instances : instances[i] \in Kept(r)

-----------------------------------------------------------------------------
(* Staged registries *)

Successor(r) == [r EXCEPT !.generation = @ + 1]

WithPackage(r, release) ==
    [Successor(r) EXCEPT !.packages =
        Append(@, [status |-> "Ok", release |-> release,
                   block |-> allocate_staged(r), refs |-> 0])]

WithDisabled(r, p) == [Successor(r) EXCEPT !.packages[p].status = "Disabled"]

(* tombstone and reclaim_tombstoned_package_content: a referenced schema   *)
(* descriptor is kept, everything else is given up                         *)
WithTombstone(r, p) ==
    [Successor(r) EXCEPT !.packages[p].status = "Tombstoned",
                         !.packages[p].block = IF r.packages[p].refs > 0 THEN @ ELSE 0]

-----------------------------------------------------------------------------
Init ==
    /\ disk = [registries |-> [s \in Parity |-> NoRegistry],
               candidates |-> [s \in Parity |-> NoCandidate],
               anchors |-> [s \in Parity |-> NoAnchor],
               contents |-> [b \in Blocks |-> NoContent]]
    /\ ordinary = NoCandidate
    /\ running = TRUE
    /\ registry = NoRegistry
    /\ anchored = NoCandidate
    /\ objects = NoCandidate
    /\ prepared = NoPrepared
    /\ cached = << >>
    /\ contexts = {}
    /\ call = Idle
    /\ told = NoRegistry

Ready == running /\ call = Idle

(* prepare_install_candidate up to its first write.  The object candidate  *)
(* is the live object service with the package's objects, one generation   *)
(* on.                                                                     *)
prepare_install_candidate(release) ==
    LET staged == WithPackage(registry, release)
        package == Len(staged.packages)
        object == [objects EXCEPT !.generation = @ + 1, !.packages = @ \cup {package}]
    IN  /\ Ready
        /\ prepared = NoPrepared
        /\ FreeBlocks(registry) # {}
        /\ package <= MaxPackages
        /\ staged.generation <= MaxGeneration /\ object.generation <= MaxGeneration
        /\ ensure_candidate_backing_slots_available(disk, staged.generation,
                                                    object.generation, registry)
        /\ call' = [op |-> "Prepare", step |-> "Content", registry |-> staged,
                    object |-> object, package |-> package]
        /\ UNCHANGED <<disk, ordinary, running, memory, told>>

(* reconstruct_from_validated_candidate_registry: the bytes of every       *)
(* content are in memory, under the retention count the registry has       *)
ContentCached(r, package) ==
    \A p \in Kept(r) \ {package} : p \in DOMAIN cached /\ cached[p] = r.packages[p].refs

CanPublish ==
    /\ prepared # NoPrepared
    /\ prepared.live = objects
    /\ read_candidate_registry_generation(disk, prepared.registry)
    /\ read_object_service_candidate_checkpoint(disk, prepared.object)
    /\ read_validate_candidate_content(disk, prepared.registry)
    /\ ContentCached(prepared.registry, prepared.package)

(* publish_install_candidate up to the anchor write *)
publish_install_candidate ==
    /\ Ready
    /\ CanPublish
    /\ call' = [op |-> "Publish", step |-> "Anchor", registry |-> prepared.registry,
                object |-> prepared.object, package |-> prepared.package]
    /\ UNCHANGED <<disk, ordinary, running, memory, told>>

(* disable and uninstall up to their first write; anchored is NoCandidate  *)
(* only while no package exists                                            *)
disable(p) ==
    /\ Ready
    /\ prepared = NoPrepared
    /\ p \in DOMAIN registry.packages
    /\ registry.packages[p].status \in {"Ok", "Disabled"}
    /\ registry.generation < MaxGeneration
    /\ call' = [op |-> "Disable", step |-> "Registry", registry |-> WithDisabled(registry, p),
                object |-> anchored, package |-> p]
    /\ UNCHANGED <<disk, ordinary, running, memory, told>>

uninstall(p) ==
    /\ Ready
    /\ prepared = NoPrepared
    /\ p \notin contexts
    /\ p \in DOMAIN registry.packages
    /\ registry.packages[p].status \in {"Ok", "Disabled"}
    /\ registry.generation < MaxGeneration
    /\ call' = [op |-> "Uninstall", step |-> "Registry", registry |-> WithTombstone(registry, p),
                object |-> anchored, package |-> p]
    /\ UNCHANGED <<disk, ordinary, running, memory, told>>

-----------------------------------------------------------------------------
(* The writes of an operation.  A slot or an extent of several sectors is  *)
(* one write here: it becomes readable only when it is whole.              *)

AnchorOf(c) == [registry |-> c.registry, object |-> c.object, package |-> c.package]

Put(d, c) ==
    CASE c.step = "Content" ->
           [d EXCEPT !.contents[c.registry.packages[c.package].block]
                        = ContentOf(c.registry, c.package)]
      [] c.step = "Registry" -> [d EXCEPT !.registries[c.registry.generation % 2] = c.registry]
      [] c.step = "Object" -> [d EXCEPT !.candidates[c.object.generation % 2] = c.object]
      [] c.step = "Anchor" -> [d EXCEPT !.anchors[c.registry.generation % 2] = AnchorOf(c)]

Shred(d, c) ==
    CASE c.step = "Content" ->
           [d EXCEPT !.contents[c.registry.packages[c.package].block] = NoContent]
      [] c.step = "Registry" -> [d EXCEPT !.registries[c.registry.generation % 2] = NoRegistry]
      [] c.step = "Object" -> [d EXCEPT !.candidates[c.object.generation % 2] = NoCandidate]
      [] c.step = "Anchor" -> [d EXCEPT !.anchors[c.registry.generation % 2] = NoAnchor]

(* write_candidate_content *)
WriteContent ==
    /\ running /\ call.step = "Content"
    /\ disk' = Put(disk, call)
    /\ call' = [call EXCEPT !.step = "Registry"]
    /\ UNCHANGED <<ordinary, running, memory, told>>

(* write_candidate_registry_generation, with its read-back *)
WriteRegistry ==
    /\ running /\ call.step = "Registry"
    /\ disk' = Put(disk, call)
    /\ call' = [call EXCEPT !.step = IF call.op = "Prepare" THEN "Object" ELSE "Anchor"]
    /\ UNCHANGED <<ordinary, running, memory, told>>

(* persist_candidate_snapshot and the end of prepare_install_candidate *)
WriteCandidate ==
    /\ running /\ call.step = "Object"
    /\ disk' = Put(disk, call)
    /\ prepared' = [registry |-> call.registry, object |-> call.object,
                    package |-> call.package, live |-> objects]
    /\ call' = Idle
    /\ UNCHANGED <<ordinary, running, registry, anchored, objects, cached, contexts, told>>

(* What publish, uninstall and disable leave of the bytes in memory *)
CachedAfter(c) ==
    CASE c.op = "Publish" -> [p \in Kept(c.registry) |-> c.registry.packages[p].refs]
      [] c.op = "Uninstall" -> [p \in Kept(c.registry) \cap DOMAIN cached |->
                                  c.registry.packages[p].refs]
      [] OTHER -> cached

(* write_publication_anchor and the swap of the live world *)
WriteAnchor ==
    /\ running /\ call.step = "Anchor"
    /\ disk' = Put(disk, call)
    /\ registry' = call.registry
    /\ anchored' = call.object
    /\ objects' = IF call.op = "Publish" THEN call.object ELSE objects
    /\ prepared' = NoPrepared
    /\ cached' = CachedAfter(call)
    /\ told' = call.registry
    /\ call' = Idle
    /\ UNCHANGED <<ordinary, running, contexts>>

(* The device reports an error, of a write, of the reading back of what    *)
(* was written, or prepare finds no capacity behind the last one: the      *)
(* operation ends, the memory stays.                                       *)
WriteFails ==
    /\ running /\ call # Idle
    /\ \/ disk' \in {disk, Shred(disk, call)}
       \/ (LateErrors \/ call.step # "Anchor") /\ disk' = Put(disk, call)
    /\ call' = Idle
    /\ UNCHANGED <<ordinary, running, memory, told>>

-----------------------------------------------------------------------------
(* recover_with_object_service: the unpublished candidate is ignored *)
recover_with_object_service ==
    /\ Ready
    /\ anchored # NoCandidate
    /\ Reconcilable(registry, objects.instances)
    /\ registry' = reconcile_schema_references(registry, objects.instances)
    /\ prepared' = NoPrepared
    /\ UNCHANGED <<disk, ordinary, running, anchored, objects, cached, contexts, call, told>>

(* launch_with_validator: exports of enabled packages only *)
launch(p) ==
    /\ Ready
    /\ p \in DOMAIN registry.packages
    /\ registry.packages[p].status = "Ok"
    /\ contexts' = contexts \cup {p}
    /\ UNCHANGED <<disk, ordinary, running, registry, anchored, objects, prepared, cached, call, told>>

Edits == Len(objects.instances) + objects.notes

(* persist_object_service: the generation follows the one on the device;   *)
(* a failed store leaves the old checkpoint or the new one                 *)
Persisted(o) ==
    {ordinary, [o EXCEPT !.generation = ordinary.generation + 1]}

(* dispatch_package_defined_create_to_service: the references are          *)
(* reconciled before the object is installed, then the checkpoint stored   *)
create_package_defined_object(p) ==
    LET staged == [objects EXCEPT !.instances = Append(@, p)]
    IN  /\ Ready
        /\ p \in contexts
        /\ Edits < MaxEdits
        /\ ordinary.generation < MaxGeneration
        /\ Reconcilable(registry, staged.instances)
        /\ registry' = reconcile_schema_references(registry, staged.instances)
        /\ objects' = staged
        /\ ordinary' \in Persisted(staged)
        /\ UNCHANGED <<disk, running, anchored, prepared, cached, contexts, call, told>>

create_object ==
    LET staged == [objects EXCEPT !.notes = @ + 1]
    IN  /\ Ready
        /\ Edits < MaxEdits
        /\ ordinary.generation < MaxGeneration
        /\ objects' = staged
        /\ ordinary' \in Persisted(staged)
        /\ UNCHANGED <<disk, running, registry, anchored, prepared, cached, contexts, call, told>>

-----------------------------------------------------------------------------
Crash ==
    /\ running
    /\ running' = FALSE
    /\ disk' \in IF call = Idle THEN {disk} ELSE {disk, Put(disk, call), Shred(disk, call)}
    /\ call' = Idle
    /\ UNCHANGED <<ordinary, memory, told>>

(* initialize_object_service_from_device, restore_from_storage and         *)
(* reconcile_schema_references_from_object_service; a reference that       *)
(* cannot be reconciled stops the boot.                                    *)
Boot ==
    LET selected == SelectedAnchor(disk)
    IN  /\ ~running
        /\ Reconcilable(selected.registry, ordinary.instances)
        /\ running' = TRUE
        /\ objects' = ordinary
        /\ registry' = reconcile_schema_references(selected.registry, ordinary.instances)
        /\ anchored' = selected.object
        /\ prepared' = NoPrepared
        /\ cached' = << >>
        /\ contexts' = {}
        /\ UNCHANGED <<disk, ordinary, call, told>>

PackageIds == 1 .. MaxPackages

Next ==
    \/ \E release \in Releases : prepare_install_candidate(release)
    \/ publish_install_candidate
    \/ \E p \in PackageIds :
            \/ disable(p)
            \/ uninstall(p)
            \/ launch(p)
            \/ create_package_defined_object(p)
    \/ WriteContent
    \/ WriteRegistry
    \/ WriteCandidate
    \/ WriteAnchor
    \/ WriteFails
    \/ recover_with_object_service
    \/ create_object
    \/ Crash
    \/ Boot

Spec == Init /\ [][Next]_vars

-----------------------------------------------------------------------------
(* Properties *)

PackageRecords == [status : {"Ok", "Disabled", "Tombstoned"}, release : Releases,
                   block : Nat, refs : Nat]
Registries == [generation : Nat, packages : Seq(PackageRecords)]
Candidates == [generation : Nat, packages : SUBSET Nat, instances : Seq(Nat), notes : Nat]

(* TypeOK: the shapes of slots and memory; no two packages of the live     *)
(* registry share a content block, and no process runs from a package that *)
(* is tombstoned.                                                          *)
TypeOK ==
    /\ \A s \in Parity : /\ disk.registries[s] \in Registries
                         /\ disk.candidates[s] \in Candidates
    /\ {registry, told, call.registry, prepared.registry} \subseteq Registries
    /\ {ordinary, objects, anchored} \subseteq Candidates
    /\ running \in BOOLEAN
    /\ contexts \subseteq {p \in DOMAIN registry.packages :
                               registry.packages[p].status # "Tombstoned"}
    /\ \A p, q \in Kept(registry) :
          registry.packages[p].block = registry.packages[q].block => p = q

(* PublishedWorldKept: once publish, disable or uninstall has reported     *)
(* success, every later boot selects that registry or a newer one, whole:  *)
(* no install, failed write or crash destroys the registry slot, object    *)
(* candidate or content of the selected world.                             *)
PublishedWorldKept ==
    LET selected == SelectedAnchor(disk).registry
    IN  /\ selected.generation >= told.generation
        /\ selected.generation = told.generation => selected = told

(* NoRevival: a package reported as uninstalled is never again launchable  *)
(* or without its tombstone, and one reported as installed keeps its       *)
(* release: package identities are not given out twice across boots.       *)
NoRevival ==
    running => \A p \in DOMAIN told.packages :
        /\ p \in DOMAIN registry.packages
        /\ registry.packages[p].release = told.packages[p].release
        /\ told.packages[p].status = "Tombstoned" => registry.packages[p].status = "Tombstoned"

(* SchemaRetained: the schema descriptor of every stored package-defined   *)
(* object is in the world a boot would select, so that the boot's          *)
(* reconciliation succeeds, although counts are recomputed only in memory  *)
(* and the two checkpoints are written apart.                              *)
SchemaRetained == Reconcilable(SelectedAnchor(disk).registry, ordinary.instances)

(* LiveCountsExact: between operations the retention counts that decide    *)
(* what an uninstall reclaims are the references of the live objects,      *)
(* across publish, uninstall, recovery and boot.                           *)
LiveCountsExact ==
    Ready => \A p \in DOMAIN registry.packages :
        registry.packages[p].refs = CountOf(objects.instances, p)

(* PublicationSafe: the four together.  An error reported for an anchor    *)
(* that did reach the medium leaves the kernel in the old world and the    *)
(* device in the new one: an object created in between may then refer to a *)
(* schema the next boot no longer finds, so SchemaRetained is claimed only *)
(* without such errors.                                                    *)
PublicationSafe ==
    /\ TypeOK
    /\ PublishedWorldKept
    /\ NoRevival
    /\ LiveCountsExact
    /\ ~LateErrors => SchemaRetained

=============================================================================

------------------------- MODULE PackageAcceptance --------------------------
(***************************************************************************)
(* The package acceptance driver (core/src/package_acceptance.rs): one     *)
(* scenario per disk image, chosen by the label of the first package       *)
(* source, which installs, restores, launches, disables and uninstalls     *)
(* packages, checks the world it finds and writes markers.  Scenarios with *)
(* a power cut run over several boots and find out from the publication    *)
(* anchors on the device in which boot they are.                           *)
(*                                                                         *)
(* The driver is a script whose steps are the operations of the package    *)
(* service (PackagePublication, sector writes and crashes included) and    *)
(* checks; a check that fails ends the boot with PYTHOS:PANIC.             *)
(***************************************************************************)
EXTENDS PackagePublication

CONSTANTS
    CutAnywhere,    \* the power may fail at any step, or only where the driver waits for it
    MaxBoots        \* bound on the boots of one image

PackageAcceptanceAssumption == CutAnywhere \in BOOLEAN /\ MaxBoots \in Nat

VARIABLES
    scenario,   \* the scenario the label selects
    sources,    \* the package sources of the boot image
    script,     \* what the driver has left to do in this boot
    verdict,    \* run, waiting for the cut, passed, failed or off
    out,        \* the markers written in this boot
    first,      \* the package the scenario installed or found, or 0
    second,     \* the package it installed after that, or 0
    caps,       \* the live grants of PACKAGE_ACCEPTANCE_CAPABILITIES
    required,   \* a launch requirement was recorded for the export
    spoiled,    \* the sector of the launch content was overwritten
    boots

inBoot == <<out, first, second, caps, required>>
driver == <<scenario, sources, script, verdict, inBoot, spoiled, boots>>
allVars == <<vars, driver>>

-----------------------------------------------------------------------------
(* Package sources *)

MAX_PACKAGE_SOURCES == 2

(* A source record names its own position and carries the digest of its    *)
(* artifact; "shape" stands for its magic, lengths and reserved bytes.     *)
Source(id, shape, digest, artifact) ==
    [id |-> id, shape |-> shape, digest |-> digest, artifact |-> artifact]

package_source_from_record(s, ordinal) == s.shape /\ s.id = ordinal /\ s.digest

validate_package_sources ==
    /\ Len(sources) \in 1 .. MAX_PACKAGE_SOURCES
    /\ \A i \in DOMAIN sources : /\ package_source_from_record(sources[i], i)
                                 /\ sources[i].artifact

GoodSources == [i \in 1 .. 2 |-> Source(i, TRUE, TRUE, TRUE)]

-----------------------------------------------------------------------------
(* What the driver reads back *)

(* Mutant: only slot A is looked at *)
anchor_in_slot_a == disk.anchors[0] # NoAnchor

publication_anchor_exists == \E s \in Parity : disk.anchors[s] # NoAnchor

(* PackageRecoveryReport: a newer anchor than the selected one was found *)
previous_published_world_selected ==
    \E s \in Parity :
        disk.anchors[s].registry.generation > SelectedAnchor(disk).registry.generation

With(r, status) == {p \in DOMAIN r.packages : r.packages[p].status = status}
HasStatus(r, p, status) == p \in With(r, status)

(* Besides the descriptor an installed package has its launch content,     *)
(* which only an uninstall gives up.                                       *)
content_count(r) ==
    Cardinality(Kept(r)) + Cardinality(DOMAIN r.packages \ With(r, "Tombstoned"))

resolve_export(r) ==
    IF With(r, "Ok") # {} THEN "Ok"
    ELSE IF With(r, "Disabled") # {} THEN "PackageDisabled" ELSE "ExportMissing"

(* The package whose export the locator names *)
Exporting(r) == CHOOSE p \in With(r, "Ok") : TRUE

read_launch_content(r) ==
    IF resolve_export(r) # "Ok" THEN "NotFound" ELSE IF spoiled THEN "ContentCorrupt" ELSE "Ok"

DescriptorReadable(r, p) == p \in Kept(r) /\ disk.contents[r.packages[p].block] = ContentOf(r, p)

assert_installed_content_readable(r, p) ==
    DescriptorReadable(r, p) /\ r.packages[p].status # "Tombstoned" /\ ~spoiled

(* rebuild_locator_mirrors: the packages a locator leads to *)
locator_mirrors(r) == With(r, "Ok")

locator_resolves_package(r, p) == p \in locator_mirrors(r)

snapshot_contains_current_object(o, p) == p \in o.packages

anchor_slot_for_generation(generation) == generation % 2

assert_schema_descriptor_retained(r, p) ==
    DescriptorReadable(r, p) /\ r.packages[p].refs > 0

validate_launch_export(r) == resolve_export(r) = "Ok" /\ Exporting(r) = first

validate_active_package_state(r, p) ==
    /\ HasStatus(r, p, "Ok")
    /\ resolve_export(r) = "Ok" /\ Exporting(r) = p
    /\ assert_installed_content_readable(r, p)

validate_disabled_package_state(r, p) ==
    /\ HasStatus(r, p, "Disabled")
    /\ Len(r.packages) = 1 /\ content_count(r) >= 2
    /\ resolve_export(r) = "PackageDisabled"
    /\ assert_installed_content_readable(r, p)

validate_tombstoned_package_history(r, p) ==
    /\ HasStatus(r, p, "Tombstoned")
    /\ resolve_export(r) = "Ok" => Exporting(r) # p
    /\ p \notin Kept(r)

validate_tombstoned_registry_shape(r, p) ==
    HasStatus(r, p, "Tombstoned") /\ content_count(r) = 0

validate_tombstoned_package_state(r, p) ==
    validate_tombstoned_package_history(r, p) /\ validate_tombstoned_registry_shape(r, p)

validate_schema_retained_tombstone_state(r, p) ==
    /\ HasStatus(r, p, "Tombstoned")
    /\ content_count(r) = 1
    /\ assert_schema_descriptor_retained(r, p)

(* One object of the package's schema, with the schema it refers to *)
validate_package_defined_schema_instance(o, p) ==
    Len(o.instances) = 1 /\ o.instances[1] = p /\ snapshot_contains_current_object(o, p)

(* The registry slot of an unpublished generation that has more packages *)
Unpublished(r) ==
    {disk.registries[s] : s \in {t \in Parity :
        /\ disk.registries[t].generation > r.generation
        /\ Len(disk.registries[t].packages) > Len(r.packages)}}

candidate_content_is_live(r, block) == block \in live_bitmap_from_registry(r)

candidate_content_is_reclaimable(r, block) == block \notin live_bitmap_from_registry(r)

newest_package_record(r) == Len(r.packages)

validate_previous_boundary_after_reboot(r) ==
    /\ Len(r.packages) = 1
    /\ \E candidate \in Unpublished(r) :
         LET b == CHOOSE p \in DOMAIN candidate.packages : p \notin DOMAIN r.packages
         IN  /\ candidate_content_is_reclaimable(r, candidate.packages[b].block)
             /\ disk.anchors[anchor_slot_for_generation(candidate.generation)] = NoAnchor
             /\ ~locator_resolves_package(r, b)

(* Mutant: one package will do *)
published_boundary_with_one(r) ==
    LET newest == newest_package_record(r)
    IN  /\ Len(r.packages) >= 1
        /\ candidate_content_is_live(r, r.packages[newest].block)
        /\ DescriptorReadable(r, newest)
        /\ locator_resolves_package(r, newest)

validate_published_boundary_after_reboot(r) ==
    LET newest == newest_package_record(r)
    IN  /\ Len(r.packages) >= 2
        /\ candidate_content_is_live(r, r.packages[newest].block)
        /\ DescriptorReadable(r, newest)
        /\ locator_resolves_package(r, newest)

validate_durable_candidate ==
    LET candidate == disk.registries[prepared.registry.generation % 2]
    IN  /\ candidate = prepared.registry
        /\ Kept(candidate) # {}
        /\ read_validate_candidate_content(disk, candidate)
        /\ read_object_service_candidate_checkpoint(disk, prepared.object)
        /\ snapshot_contains_current_object(prepared.object, prepared.package)

-----------------------------------------------------------------------------
(* Scripts *)

Do(op, arg, mark) == [do |-> op, arg |-> arg, mark |-> mark]
Check(name, mark) == Do("check", name, mark)

(* install_with_candidate_checkpoint *)
Install(release) == <<Do("prepare", release, ""), Do("publish", release, "")>>

install_launch_fixture_into_service == <<Do("grant", "install", "")>> \o Install("A")

install_and_restore_launch_fixture ==
    <<Do("objects", "", "")>> \o install_launch_fixture_into_service
    \o <<Do("restore", "newest", ""), Check("fixture", "INSTALLED_RESTORED")>>

run_package_launch_acceptance(kind) ==
    install_and_restore_launch_fixture \o <<Check("export", "EXPORT_RESOLVED")>> \o
    (CASE kind = "grant_denied" ->
            <<Do("require", "", ""), Do("launch", "RequiredGrantMissing", "CAPABILITY_DENIED"),
              Check("no context", "LAUNCH_DENIED_READY")>>
       [] kind = "non_launch" ->
            <<Do("launch", "BadRequest", "NON_LAUNCH_EXPORT_DENIED"),
              Check("no context", "LAUNCH_DENIED_READY")>>
       [] kind = "corrupt_content" ->
            <<Do("corrupt", "", ""), Check("corrupt", "CONTENT_CORRUPT_DENIED"),
              Check("no context", "LAUNCH_DENIED_READY")>>
       [] kind = "pythtig_denied" ->
            <<Check("content", "CONTENT_VERIFIED"), Check("effect fork", "PYTHTIG_DENIED"),
              Check("no context", "LAUNCH_DENIED_READY")>>
       [] kind = "launch" ->
            <<Check("content", "CONTENT_VERIFIED"), Check("verified", "PYTHTIG_VERIFIED"),
              Do("require", "", ""), Do("grant", "launch", ""), Do("launch", "Ok", "GRANTS_VALIDATED"),
              Check("bound", "PROCESS_CREATED"), Do("enter", "log", "LAUNCH_READY")>>)

launch_package_for_acceptance ==
    <<Check("content", ""), Check("verified", ""), Do("require", "", ""),
      Do("grant", "launch", ""), Do("launch", "Ok", ""), Check("bound", "")>>

run_package_uninstall_disable_acceptance ==
    install_and_restore_launch_fixture \o launch_package_for_acceptance \o
    <<Do("disable", "", ""), Check("disabled", ""), Check("bound", ""),
      Do("grant", "second", ""), Do("launch", "PackageDisabled", ""),
      Do("recover", "", ""), Check("disabled", ""), Check("bound", ""),
      Check("fresh disabled", "DISABLE_READY")>>

run_package_uninstall_live_process_denied_acceptance ==
    install_and_restore_launch_fixture \o launch_package_for_acceptance \o
    <<Do("uninstall", "LiveProcessExists", ""), Check("active", ""),
      Check("bound", "LIVE_PROCESS_DENIED")>>

run_package_uninstall_tombstone_acceptance ==
    install_and_restore_launch_fixture \o
    <<Check("active", ""), Do("uninstall", "Ok", ""), Check("tombstoned", "TOMBSTONED"),
      Check("not visible", "CONTENT_RECLAIMED"), Check("fresh tombstoned", "UNINSTALL_READY")>>

run_package_uninstall_reinstall_acceptance ==
    <<Do("objects", "", "")>> \o install_launch_fixture_into_service \o
    <<Do("restore", "newest", ""), Do("uninstall", "Ok", ""), Check("tombstoned", "")>> \o
    install_launch_fixture_into_service \o
    <<Check("reinstalled", "REINSTALL_IDENTITY_READY")>>

run_package_uninstall_recovery_acceptance(again) ==
    IF ~again
    THEN install_and_restore_launch_fixture \o
         <<Do("uninstall", "Ok", ""), Check("tombstoned", "TOMBSTONE_ANCHOR_PUBLISHED"),
           Do("wait", "", "")>>
    ELSE <<Do("restore", "any", ""), Do("find", "Tombstoned", ""), Check("shape", ""),
           Check("not half visible", "UNINSTALL_RECOVERY_READY")>>

(* From the install to the process that creates an object; the grant it    *)
(* needs is recorded by the driver or required by the manifest             *)
runtime_creation(requirement) ==
    install_and_restore_launch_fixture \o
    <<Check("export", "EXPORT_RESOLVED"), Check("content", "CONTENT_VERIFIED"),
      Check("verified", "PYTHTIG_VERIFIED"), Do(requirement, "", ""), Do("grant", "launch", ""),
      Do("launch", "Ok", "GRANTS_VALIDATED"), Check("bound", "PROCESS_CREATED"),
      Do("enter", "create", "OBJECT_FLOW_ACCEPTANCE_COMPLETE"), Do("wait", "", "")>>

restored_with_objects ==
    <<Do("restore", "newest", ""), Do("objects", "", ""), Do("reconcile", "", "")>>

run_package_uninstall_schema_retained_acceptance(again) ==
    IF ~again THEN runtime_creation("require")
    ELSE restored_with_objects \o
         <<Do("find", "Ok", ""), Check("instance", ""), Check("descriptor", ""),
           Do("uninstall", "Ok", ""), Check("retained", "TOMBSTONED"), Check("not visible", ""),
           Check("fresh retained", "SCHEMA_RETAINED")>>

run_independent_package_post_create_acceptance ==
    <<Do("find", "Ok", ""), Check("instance", ""), Check("descriptor", "OBJECT_CREATED"),
      Do("uninstall", "Ok", ""), Check("retained", ""), Check("not visible", "UNINSTALLED")>>

run_independent_package_post_uninstall_recovery_acceptance ==
    <<Do("find", "Tombstoned", ""), Check("retained", ""),
      Check("instance", "PHASE_13_COMPLETE")>>

run_independent_package_acceptance(again) ==
    IF ~again THEN runtime_creation("manifest") ELSE restored_with_objects \o <<Do("branch", "", "")>>

run_publication_boundary_boot_one(publish) ==
    <<Do("grant", "install", ""), Do("objects", "", "")>> \o Install("A") \o
    <<Do("prepare", "B", "CANDIDATE_READY"), Check("candidate", "CANDIDATE_VALIDATED")>> \o
    (IF publish THEN <<Do("publish", "B", "ANCHOR_PUBLISHED")>> ELSE << >>) \o
    <<Do("wait", "", "")>>

run_publication_boundary_acceptance(again, publish) ==
    IF ~again THEN run_publication_boundary_boot_one(publish)
    ELSE <<Do("restore", "newest", "WORLD_SELECTED")>> \o
         (IF publish THEN <<Check("published", "MIRRORS_REBUILT")>>
                     ELSE <<Check("previous", "CANDIDATE_IGNORED_RECLAIMABLE")>>)

run_install_success_acceptance ==
    <<Do("grant", "install", "SOURCE_AUTHORITY_READY"), Do("objects", "", ""),
      Do("install", "Ok", "STAGED"), Check("installed", "INSTALL_READY")>>

run_install_source_denied_acceptance ==
    <<Do("grant", "install only", ""), Do("objects", "", ""),
      Do("install", "SourceReadDenied", "SOURCE_DENIED")>>

(* The seed writes its world itself; the restore of main.rs follows *)
restore_stack_smoke ==
    <<Do("grant", "install", ""), Do("objects", "", ""), Do("seed", "A", ""),
      Do("publish", "A", "RESTORE_STACK_SEEDED"), Do("restore", "newest", ""),
      Check("seeded", "RESTORE_STACK_SAFE")>>

LaunchScenarios == {"launch", "grant_denied", "corrupt_content", "pythtig_denied", "non_launch"}
MultiBoot == {"before_anchor", "after_anchor", "kill_during", "schema_retained", "independent"}
SingleBoot == {"format", "install", "source_denied", "smoke", "disable", "live_denied",
               "tombstone", "reinstall"}
Scenarios == LaunchScenarios \cup MultiBoot \cup SingleBoot

(* The scenarios that run on the acceptance stack, by stack mode *)
PACKAGE_STACK_MODES ==
    <<"install", "source_denied", "before_anchor", "after_anchor", "launch", "grant_denied",
      "corrupt_content", "pythtig_denied", "non_launch", "disable", "live_denied", "tombstone",
      "reinstall", "kill_during", "schema_retained", "independent">>

stack_mode(s) == CHOOSE i \in DOMAIN PACKAGE_STACK_MODES : PACKAGE_STACK_MODES[i] = s

(* Only these are handed the boot information and the frame allocator *)
runtime_target_from_stack_context == {"launch", "schema_retained", "independent"}

run_format_acceptance == <<Check("sources", "FORMAT_VALID"), Check("invalid", "FORMAT_READY")>>

package_acceptance_stack_entry(mode, again) ==
    LET s == PACKAGE_STACK_MODES[mode]
    IN
    CASE s = "install" -> run_install_success_acceptance
      [] s = "source_denied" -> run_install_source_denied_acceptance
      [] s = "before_anchor" -> run_publication_boundary_acceptance(again, FALSE)
      [] s = "after_anchor" -> run_publication_boundary_acceptance(again, TRUE)
      [] s \in LaunchScenarios -> run_package_launch_acceptance(s)
      [] s = "disable" -> run_package_uninstall_disable_acceptance
      [] s = "live_denied" -> run_package_uninstall_live_process_denied_acceptance
      [] s = "tombstone" -> run_package_uninstall_tombstone_acceptance
      [] s = "reinstall" -> run_package_uninstall_reinstall_acceptance
      [] s = "kill_during" -> run_package_uninstall_recovery_acceptance(again)
      [] s = "schema_retained" -> run_package_uninstall_schema_retained_acceptance(again)
      [] s = "independent" -> run_independent_package_acceptance(again)

(* run_package_format_acceptance: the label of the first source decides *)
script_for(label, again) ==
    CASE label = "format" -> run_format_acceptance
      [] label = "smoke" -> restore_stack_smoke
      [] OTHER -> package_acceptance_stack_entry(stack_mode(label), again)

-----------------------------------------------------------------------------
(* Steps *)

Now == script[1]
At(op) == Ready /\ verdict = "run" /\ script # << >> /\ Now.do = op
Marked == IF Now.mark = "" THEN out ELSE out \cup {Now.mark}

Continue == script' = Tail(script) /\ out' = Marked /\ UNCHANGED verdict
Fail == verdict' = "failed" /\ UNCHANGED <<script, out>>
Judge(ok) == IF ok THEN Continue ELSE Fail

(* A fresh service restored from the device finds r, with no newer anchor *)
Fresh == SelectedAnchor(disk).registry
FreshSelected == SelectedAnchor(disk) # NoAnchor /\ ~previous_published_world_selected

(* The process still has its context and the grant it was launched with *)
Bound == first \in contexts /\ "launch" \in caps

assert_no_launch_runtime_context == contexts = {}

Holds(name) ==
    CASE name = "sources" -> validate_package_sources
      [] name = "invalid" -> TRUE
      [] name = "fixture" -> Len(registry.packages) = 1 /\ content_count(registry) >= 2
      [] name = "export" -> validate_launch_export(registry)
      [] name = "content" -> read_launch_content(registry) = "Ok"
      [] name = "corrupt" -> read_launch_content(registry) = "ContentCorrupt"
      [] name = "verified" -> scenario # "pythtig_denied"
      [] name = "effect fork" -> scenario = "pythtig_denied"
      [] name = "no context" -> assert_no_launch_runtime_context
      [] name = "bound" -> Bound
      [] name = "active" -> validate_active_package_state(registry, first)
      [] name = "disabled" -> validate_disabled_package_state(registry, first)
      [] name = "tombstoned" -> validate_tombstoned_package_state(registry, first)
      [] name = "shape" -> validate_tombstoned_registry_shape(registry, first)
      [] name = "not visible" -> ~locator_resolves_package(registry, first)
      [] name = "not half visible" -> /\ ~locator_resolves_package(registry, first)
                                      /\ resolve_export(registry) # "Ok"
      [] name = "fresh disabled" -> FreshSelected /\ validate_disabled_package_state(Fresh, first)
      [] name = "fresh tombstoned" -> /\ FreshSelected
                                      /\ validate_tombstoned_package_state(Fresh, first)
                                      /\ ~locator_resolves_package(Fresh, first)
      [] name = "reinstalled" -> /\ first # second /\ Len(registry.packages) = 2
                                 /\ validate_tombstoned_package_history(registry, first)
                                 /\ validate_active_package_state(registry, second)
      [] name = "instance" -> validate_package_defined_schema_instance(objects, first)
      [] name = "descriptor" -> assert_schema_descriptor_retained(registry, first)
      [] name = "retained" -> validate_schema_retained_tombstone_state(registry, first)
      [] name = "fresh retained" ->
            /\ FreshSelected /\ Reconcilable(Fresh, ordinary.instances)
            /\ validate_schema_retained_tombstone_state(
                   reconcile_schema_references(Fresh, ordinary.instances), first)
            /\ validate_package_defined_schema_instance(ordinary, first)
      [] name = "candidate" -> validate_durable_candidate
      [] name = "previous" -> validate_previous_boundary_after_reboot(registry)
      [] name = "published" -> validate_published_boundary_after_reboot(registry)
      [] name = "installed" -> /\ Len(registry.packages) = 1
                               /\ Cardinality(locator_mirrors(registry)) = 1
      [] name = "seeded" -> registry = told /\ Len(registry.packages) = 1

check ==
    /\ At("check")
    /\ Judge(Holds(Now.arg))
    /\ UNCHANGED <<vars, scenario, sources, first, second, caps, required, spoiled, boots>>

(* capabilities_for_acceptance clears the table before the driver grants   *)
(* the authority to install; a launch adds to what is there                *)
(* (capabilities_state_for_acceptance).                                    *)
capabilities_for_acceptance(grants) == grants

capabilities_state_for_acceptance(grants) == caps \cup grants

grant ==
    /\ At("grant")
    /\ caps' = CASE Now.arg = "install" -> capabilities_for_acceptance({"source", "install"})
                 [] Now.arg = "install only" -> capabilities_for_acceptance({"install"})
                 [] OTHER -> capabilities_state_for_acceptance({Now.arg})
    /\ Continue
    /\ UNCHANGED <<vars, scenario, sources, first, second, required, spoiled, boots>>

(* object_service_for_acceptance: restored from the ordinary checkpoint *)
object_service_for_acceptance ==
    /\ At("objects")
    /\ objects' = ordinary
    /\ Continue
    /\ UNCHANGED <<disk, ordinary, running, registry, anchored, prepared, cached, contexts, call,
                   told, scenario, sources, first, second, caps, required, spoiled, boots>>

Authorised == {"source", "install"} \subseteq caps

(* What prepare_install_candidate refuses before it writes *)
CandidateRefused ==
    \/ ~Authorised
    \/ prepared # NoPrepared
    \/ FreeBlocks(registry) = {}
    \/ ~ensure_candidate_backing_slots_available(disk, registry.generation + 1,
                                                 objects.generation + 1, registry)

prepare ==
    /\ At("prepare")
    /\ \/ ~CandidateRefused /\ prepare_install_candidate(Now.arg) /\ Continue
       \/ CandidateRefused /\ Fail /\ UNCHANGED vars
    /\ UNCHANGED <<scenario, sources, first, second, caps, required, spoiled, boots>>

(* seed_restore_stack_smoke_world: the same writes, from an empty registry *)
(* and without looking at the slots                                        *)
seed ==
    LET staged == WithPackage(NoRegistry, Now.arg)
    IN  /\ At("seed")
        /\ call' = [op |-> "Prepare", step |-> "Content", registry |-> staged,
                    object |-> [objects EXCEPT !.generation = @ + 1, !.packages = @ \cup {1}],
                    package |-> 1]
        /\ Continue
        /\ UNCHANGED <<disk, ordinary, running, memory, told, scenario, sources, first, second,
                       caps, required, spoiled, boots>>

(* What the install result names: the first package, then the second *)
publish ==
    /\ At("publish")
    /\ \/ /\ CanPublish /\ publish_install_candidate /\ Continue
          /\ first' = IF first = 0 THEN prepared.package ELSE first
          /\ second' = IF first = 0 THEN 0 ELSE prepared.package
       \/ ~CanPublish /\ Fail /\ UNCHANGED <<vars, first, second>>
    /\ UNCHANGED <<scenario, sources, caps, required, spoiled, boots>>

(* install_into: the registry and the object service in memory only *)
install_into ==
    /\ At("install")
    /\ Judge(Now.arg = IF Authorised THEN "Ok" ELSE "SourceReadDenied")
    /\ IF Authorised
       THEN /\ registry' = WithPackage(registry, "A")
            /\ objects' = [objects EXCEPT !.packages = @ \cup {Len(registry.packages) + 1}]
            /\ first' = Len(registry.packages) + 1
       ELSE UNCHANGED <<registry, objects, first>>
    /\ UNCHANGED <<disk, ordinary, running, anchored, prepared, cached, contexts, call, told,
                   scenario, sources, second, caps, required, spoiled, boots>>

(* restore_from_storage into the restored service, and the report *)
restore ==
    LET selected == SelectedAnchor(disk)
        ok == selected # NoAnchor /\ (Now.arg = "newest" => ~previous_published_world_selected)
    IN  /\ At("restore")
        /\ Judge(ok)
        /\ IF ok THEN /\ registry' = selected.registry
                      /\ anchored' = selected.object
                      /\ prepared' = NoPrepared
                      /\ cached' = << >>
                      /\ contexts' = {}
                      /\ required' = FALSE
                 ELSE UNCHANGED <<registry, anchored, prepared, cached, contexts, required>>
        /\ UNCHANGED <<disk, ordinary, running, objects, call, told, scenario, sources, first,
                       second, caps, spoiled, boots>>

reconcile ==
    LET ok == Reconcilable(registry, objects.instances)
    IN  /\ At("reconcile")
        /\ Judge(ok)
        /\ registry' = IF ok THEN reconcile_schema_references(registry, objects.instances)
                             ELSE registry
        /\ UNCHANGED <<disk, ordinary, running, anchored, objects, prepared, cached, contexts,
                       call, told, scenario, sources, first, second, caps, required, spoiled, boots>>

(* package_record_with_status: the first such record *)
package_record_with_status(status) ==
    CHOOSE p \in With(registry, status) : \A q \in With(registry, status) : p <= q

find ==
    /\ At("find")
    /\ Judge(With(registry, Now.arg) # {})
    /\ first' = IF With(registry, Now.arg) # {} THEN package_record_with_status(Now.arg)
                ELSE first
    /\ UNCHANGED <<vars, scenario, sources, second, caps, required, spoiled, boots>>

(* run_independent_package_recovery_acceptance *)
branch ==
    /\ At("branch")
    /\ IF registry.packages = << >> THEN Fail
       ELSE /\ script' = IF With(registry, "Ok") # {}
                         THEN run_independent_package_post_create_acceptance
                         ELSE run_independent_package_post_uninstall_recovery_acceptance
            /\ UNCHANGED <<verdict, out>>
    /\ UNCHANGED <<vars, scenario, sources, first, second, caps, required, spoiled, boots>>

record_launch_requirement ==
    /\ At("require")
    /\ Judge(resolve_export(registry) = "Ok" /\ ~required)
    /\ required' = TRUE
    /\ UNCHANGED <<vars, scenario, sources, first, second, caps, spoiled, boots>>

(* requirement_record_for_export: the manifest of the independent package  *)
(* requires the workspace itself                                           *)
requirement_record_for_export ==
    /\ At("manifest")
    /\ Judge(resolve_export(registry) = "Ok")
    /\ required' = TRUE
    /\ UNCHANGED <<vars, scenario, sources, first, second, caps, spoiled, boots>>

(* launch_with_validator: the export, its kind, then its requirements.     *)
(* The grant is the last one the driver added to the table.                *)
launch_status ==
    IF resolve_export(registry) # "Ok" THEN resolve_export(registry)
    ELSE IF scenario = "non_launch" THEN "BadRequest"
    ELSE IF required /\ "launch" \notin caps THEN "RequiredGrantMissing"
    ELSE "Ok"

Launched == IF launch_status = "Ok" THEN {first} ELSE {}

launch_with_validator ==
    /\ At("launch")
    /\ Judge(launch_status = Now.arg)
    /\ contexts' = contexts \cup Launched
    /\ UNCHANGED <<disk, ordinary, running, registry, anchored, objects, prepared, cached, call,
                   told, scenario, sources, first, second, caps, required, spoiled, boots>>

(* corrupt_launch_content overwrites the first sector of the content *)
corrupt_launch_content ==
    /\ At("corrupt")
    /\ spoiled' = TRUE
    /\ Continue
    /\ UNCHANGED <<vars, scenario, sources, first, second, caps, required, boots>>

disable_package ==
    /\ At("disable")
    /\ disable(first)
    /\ Continue
    /\ UNCHANGED <<scenario, sources, first, second, caps, required, spoiled, boots>>

uninstall_package ==
    /\ At("uninstall")
    /\ \/ first \in contexts /\ Judge(Now.arg = "LiveProcessExists") /\ UNCHANGED vars
       \/ Now.arg = "Ok" /\ uninstall(first) /\ Continue
    /\ UNCHANGED <<scenario, sources, first, second, caps, required, spoiled, boots>>

(* recover: the candidate is forgotten, contexts and grants stay *)
recover ==
    /\ At("recover")
    /\ prepared' = NoPrepared
    /\ Continue
    /\ UNCHANGED <<disk, ordinary, running, registry, anchored, objects, cached, contexts, call,
                   told, scenario, sources, first, second, caps, required, spoiled, boots>>

(* The runtime process: it writes the log, or creates one object of the    *)
(* package's schema, whose store succeeds                                  *)
enter ==
    /\ At("enter")
    /\ scenario \in runtime_target_from_stack_context
    /\ Continue
    /\ \/ Now.arg = "create" /\ create_package_defined_object(first) /\ ordinary' # ordinary
       \/ Now.arg = "log" /\ UNCHANGED vars
    /\ UNCHANGED <<scenario, sources, first, second, caps, required, spoiled, boots>>

wait_for_power_cut ==
    /\ At("wait")
    /\ verdict' = "waiting"
    /\ UNCHANGED <<vars, scenario, sources, script, inBoot, spoiled, boots>>

Finish ==
    /\ Ready /\ verdict = "run" /\ script = << >>
    /\ verdict' = "passed"
    /\ UNCHANGED <<vars, scenario, sources, script, inBoot, spoiled, boots>>

Writes == (WriteContent \/ WriteRegistry \/ WriteCandidate \/ WriteAnchor) /\ UNCHANGED driver

-----------------------------------------------------------------------------
(* Power *)

Complete == verdict = "passed" /\ (scenario = "independent" => "PHASE_13_COMPLETE" \in out)

AwaitsCut == verdict = "waiting" \/ (verdict = "passed" /\ ~Complete)

PowerCut ==
    /\ AwaitsCut \/ (CutAnywhere /\ verdict = "run")
    /\ Crash
    /\ verdict' = "off"
    /\ script' = << >>
    /\ out' = {} /\ first' = 0 /\ second' = 0 /\ caps' = {} /\ required' = FALSE
    /\ UNCHANGED <<scenario, sources, spoiled, boots>>

(* The next boot of the same image starts with empty services. *)
PowerOn ==
    /\ ~running /\ boots < MaxBoots /\ scenario \in MultiBoot
    /\ running' = TRUE
    /\ registry' = NoRegistry /\ anchored' = NoCandidate /\ objects' = NoCandidate
    /\ prepared' = NoPrepared /\ cached' = << >> /\ contexts' = {}
    /\ verdict' = "run"
    /\ script' = script_for(scenario, publication_anchor_exists)
    /\ boots' = boots + 1
    /\ UNCHANGED <<disk, ordinary, call, told, scenario, sources, inBoot, spoiled>>

Stopped ==
    /\ \/ Complete
       \/ verdict = "failed"
       \/ verdict = "off" /\ (boots = MaxBoots \/ scenario \notin MultiBoot)
    /\ UNCHANGED allVars

(* The sources of the format scenario: one record may be wrong in one way *)
SourceVariants ==
    {GoodSources, << >>, Append(GoodSources, Source(3, TRUE, TRUE, TRUE))} \cup
    {[GoodSources EXCEPT ![2] = s] :
        s \in {Source(1, TRUE, TRUE, TRUE), Source(2, FALSE, TRUE, TRUE),
               Source(2, TRUE, FALSE, TRUE), Source(2, TRUE, TRUE, FALSE)}}

AcceptanceInit ==
    /\ Init
    /\ scenario \in Scenarios
    /\ sources \in IF scenario = "format" THEN SourceVariants ELSE {GoodSources}
    /\ script = script_for(scenario, FALSE)
    /\ verdict = "run" /\ out = {}
    /\ first = 0 /\ second = 0 /\ caps = {} /\ required = FALSE /\ spoiled = FALSE
    /\ boots = 1

AcceptanceNext ==
    \/ check
    \/ grant
    \/ object_service_for_acceptance
    \/ prepare
    \/ seed
    \/ publish
    \/ install_into
    \/ restore
    \/ reconcile
    \/ find
    \/ branch
    \/ record_launch_requirement
    \/ requirement_record_for_export
    \/ launch_with_validator
    \/ corrupt_launch_content
    \/ disable_package
    \/ uninstall_package
    \/ recover
    \/ enter
    \/ wait_for_power_cut
    \/ Finish
    \/ Writes
    \/ PowerCut
    \/ PowerOn
    \/ Stopped

AcceptanceSpec == AcceptanceInit /\ [][AcceptanceNext]_allVars

-----------------------------------------------------------------------------
(* Properties *)

(* AcceptanceTypeOK: the driver's variables; it looks at a package it has  *)
(* only when that package exists.                                          *)
AcceptanceTypeOK ==
    /\ verdict \in {"run", "waiting", "passed", "failed", "off"}
    /\ {first, second} \subseteq 0 .. MaxPackages
    /\ (Ready /\ verdict = "run") => {first, second} \subseteq {0} \cup DOMAIN registry.packages
    /\ caps \subseteq {"source", "install", "launch", "second"}
    /\ boots \in 1 .. MaxBoots
    /\ running <=> verdict # "off"

(* AcceptancePasses: with the power cut only where the driver waits for    *)
(* it, no check of any scenario fails, in any of its boots; the format     *)
(* scenario fails on bad sources only.                                     *)
AcceptancePasses ==
    verdict = "failed" => (scenario = "format" /\ ~(sources = GoodSources))

(* BadSourceDenied: no source with a wrong position, digest, shape or      *)
(* artifact, and no surplus source, gets the format scenario to its marker.*)
BadSourceDenied == "FORMAT_READY" \in out => sources = GoodSources

Published == SelectedAnchor(disk).registry
OnDisk(p) == Published.packages[p]

(* ReadyIsTrue: a final marker is written only over a device that bears it *)
(* out, wherever the power failed on the way: the selected world has the   *)
(* status, the content and the object the marker speaks of.                *)
ReadyIsTrue ==
    /\ "CANDIDATE_IGNORED_RECLAIMABLE" \in out =>
         /\ Len(Published.packages) = 1
         /\ \E s \in Parity : /\ Len(disk.registries[s].packages) = 2
                              /\ disk.registries[s].packages[2].block # OnDisk(1).block
                              /\ \A t \in Parity : disk.anchors[t].registry # disk.registries[s]
    /\ "MIRRORS_REBUILT" \in out => With(Published, "Ok") = {1, 2}
    /\ "UNINSTALL_RECOVERY_READY" \in out => DOMAIN Published.packages = With(Published, "Tombstoned")
    /\ out \cap {"SCHEMA_RETAINED", "PHASE_13_COMPLETE"} # {} =>
         /\ ordinary.instances = <<first>>
         /\ OnDisk(first).status = "Tombstoned" /\ OnDisk(first).refs = 1
         /\ DescriptorReadable(Published, first)
    /\ "DISABLE_READY" \in out => OnDisk(first).status = "Disabled" /\ Bound
    /\ "UNINSTALL_READY" \in out => OnDisk(first).status = "Tombstoned" /\ Kept(Published) = {}
    /\ "REINSTALL_IDENTITY_READY" \in out =>
         OnDisk(first).status = "Tombstoned" /\ OnDisk(second).status = "Ok"
    /\ "RESTORE_STACK_SAFE" \in out => Published = registry

(* DeniedLeavesNothing: a scenario that ends with a refused launch leaves  *)
(* no runtime context and the package installed and launchable, so the     *)
(* refusal cannot block its uninstall.                                     *)
DeniedLeavesNothing ==
    (scenario \in LaunchScenarios \ {"launch"} /\ running) =>
        /\ contexts = {}
        /\ "LAUNCH_DENIED_READY" \in out => With(Published, "Ok") = {first}

(* UnpublishedNeverSelected: from the validated candidate to the end of    *)
(* the scenario, whatever boot, the world without it is the selected one   *)
(* until its anchor is written.                                            *)
UnpublishedNeverSelected ==
    scenario = "before_anchor" => Len(Published.packages) <= 1

=============================================================================

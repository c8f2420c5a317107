-------------------------- MODULE ServiceProcesses --------------------------
(***************************************************************************)
(* Service identities (core/src/service_identity.rs), the dynamic process  *)
(* table with its initial grants (dynamic_capabilities.rs), launch         *)
(* environments (process_launch.rs), the termination table (process.rs),   *)
(* and the lifecycle managers of services (service_manager.rs).            *)
(*                                                                         *)
(* Several steps make up a spawn (identity, process number, one grant      *)
(* after the other) and none of them is undone when a later one fails.     *)
(***************************************************************************)
EXTENDS CapabilityTable, SequencesExt

CONSTANTS
    Tasks,          \* task identifiers: numbers
    MaxServices,    \* MAX_SERVICES
    MaxProcesses,   \* MAX_DYNAMIC_PROCESSES and MAX_PROCESSES
    MaxGrants,      \* MAX_PROCESS_CAPABILITIES
    MaxEnvironment, \* MAX_LAUNCH_STRINGS
    MaxId,          \* bound: identities handed out
    MaxGeneration   \* bound: restarts of a service

ServiceProcessesAssumption ==
    /\ Tasks \subseteq Nat
    /\ {MaxServices, MaxProcesses, MaxGrants, MaxEnvironment, MaxId, MaxGeneration} \subseteq Nat \ {0}

VARIABLES
    identities,   \* records and next_id
    table,        \* the capability table
    processes,    \* the dynamic process table, in slot order
    environment,  \* the environment handed to every launched process
    slots,        \* process.rs: states in slot order
    managers,     \* service_manager.rs: one manager for each service
    part,         \* which of the parts, which share no state, this run exercises
    selftest

vars == <<identities, table, processes, environment, slots, managers, part, selftest>>

Resources == {"r1", "r2"}

Keys == {"k1", "k2"}

NewIdentities ==
    [records |-> [i \in 1 .. MaxServices |-> [service |-> 0, task |-> 0, active |-> FALSE]],
     next |-> 1]

Inactive(ids) == {i \in 1 .. MaxServices : ~ids.records[i].active}

-----------------------------------------------------------------------------
\* An identity is the number of its slot
SlotAsIdentity(ids, task) ==
    LET slot == FirstSlot(Inactive(ids))
    IN IF Inactive(ids) = {}
       THEN [ids |-> ids, answer |-> "TableFull", service |-> 0]
       ELSE [ids |-> [ids EXCEPT !.records[slot] =
                          [service |-> slot, task |-> task, active |-> TRUE],
                          !.next = @ + 1],
             answer |-> "Ok", service |-> slot]

register_task(ids, task) ==
    LET slot == FirstSlot(Inactive(ids))
    IN IF Inactive(ids) = {}
       THEN [ids |-> ids, answer |-> "TableFull", service |-> 0]
       ELSE [ids |-> [ids EXCEPT !.records[slot] =
                          [service |-> ids.next, task |-> task, active |-> TRUE],
                          !.next = @ + 1],
             answer |-> "Ok", service |-> ids.next]

Holding(ids, service) ==
    {i \in 1 .. MaxServices : ids.records[i].active /\ ids.records[i].service = service}

unregister(ids, service) ==
    IF Holding(ids, service) = {} THEN ids
    ELSE [ids EXCEPT !.records[FirstSlot(Holding(ids, service))].active = FALSE]

(* 0 stands for None                                                       *)
task_for(ids, service) ==
    IF Holding(ids, service) = {} THEN 0
    ELSE ids.records[FirstSlot(Holding(ids, service))].task

(* One grant of the policy after the other; at the first that fails the    *)
(* ones before it stay in the capability table                             *)
add_initial_grants(t, service, policy) ==
    FoldLeft(LAMBDA acc, g :
                IF ~acc.ok THEN acc
                ELSE LET made == grant(acc.table, service, g.resource, g.rights)
                     IN IF made.handle = InvalidHandle
                        THEN [acc EXCEPT !.ok = FALSE]
                        ELSE [acc EXCEPT !.table = made.table,
                                         !.held = Append(@, [handle |-> made.handle,
                                                             resource |-> g.resource])],
             [table |-> t, held |-> <<>>, ok |-> TRUE], policy)

(* DynamicProcessTable::spawn: the whole state it may leave behind         *)
spawn(ids, t, procs, task, policy) ==
    LET registered == register_task(ids, task)
        granted == add_initial_grants(t, registered.service, policy)
        refused == [ids |-> ids, table |-> t, processes |-> procs]
    IN CASE \/ \E i \in DOMAIN procs : procs[i].task = task
            \/ Len(procs) = MaxProcesses
            \/ registered.answer # "Ok" -> refused
         [] OTHER ->
              [ids |-> registered.ids, table |-> granted.table,
               processes |-> IF granted.ok
                             THEN Append(procs, [task |-> task, service |-> registered.service,
                                                 held |-> granted.held, policy |-> policy])
                             ELSE procs]

(* The answer of CapabilityTable::validate that use_capability tells apart *)
CheckOf(t, service, handle, resource, required) ==
    CASE validate(t, service, handle, resource, required) -> "Ok"
      [] ~validate(t, service, handle, resource, required)
            /\ validate(t, service, handle, resource, {}) -> "MissingRights"
      [] OTHER -> "Other"

(* The handles held for the resource in the order of the grants: one that  *)
(* lacks the rights is passed over, one that is refused for another reason *)
(* ends the search                                                         *)
use_capability(t, process, resource, required) ==
    LET mine == SelectSeq(process.held, LAMBDA h : h.resource = resource)
        check(i) == CheckOf(t, process.service, mine[i].handle, resource, required)
    IN \E i \in DOMAIN mine :
          /\ check(i) = "Ok"
          /\ \A j \in 1 .. i - 1 : check(j) = "MissingRights"

insert(env, key, resource) ==
    IF Len(env) = MaxEnvironment \/ \E i \in DOMAIN env : env[i].key = key
    THEN env
    ELSE Append(env, [key |-> key, resource |-> resource])

(* None of the entries has the key, or the process may not read it         *)
read_env(t, process, env, key) ==
    \E i \in DOMAIN env :
        env[i].key = key /\ use_capability(t, process, env[i].resource, {"READ"})

-----------------------------------------------------------------------------
(* process.rs                                                              *)

SpawnSlot(sl, task, root) ==
    IF Len(sl) = MaxProcesses \/ \E i \in DOMAIN sl : sl[i].task = task
    THEN sl
    ELSE Append(sl, [task |-> task, root |-> root, state |-> "Runnable"])

terminate(sl, task) ==
    [i \in DOMAIN sl |->
        IF sl[i].task = task /\ sl[i].state = "Runnable"
        THEN [sl[i] EXCEPT !.state = "Terminated"] ELSE sl[i]]

mark_address_space_reclaimed(sl, task, root) ==
    [i \in DOMAIN sl |->
        IF sl[i].task = task /\ sl[i].state = "Terminated" /\ sl[i].root = root
        THEN [sl[i] EXCEPT !.state = "Reclaimed"] ELSE sl[i]]

(* 0 stands for UnknownProcess                                             *)
next_runnable(sl) ==
    LET runnable == {i \in DOMAIN sl : sl[i].state = "Runnable"}
    IN IF runnable = {} THEN 0 ELSE sl[FirstSlot(runnable)].task

-----------------------------------------------------------------------------
(* service_manager.rs                                                      *)

NewManager(service) == [service |-> service, state |-> "Starting", generation |-> 0]

mark_ready(m, service) ==
    IF m.service = service /\ m.state = "Starting" THEN [m EXCEPT !.state = "Ready"] ELSE m

contain_exception(m, service) ==
    IF m.service = service THEN [m EXCEPT !.state = "Failed"] ELSE m

restart_failed(m, service) ==
    IF m.service = service /\ m.state = "Failed"
    THEN [m EXCEPT !.state = "Starting", !.generation = @ + 1] ELSE m

dispatch_event(m, service) ==
    m.service = service /\ m.state = "Ready"

-----------------------------------------------------------------------------
(* The self tests of the boot, each on tables of its own                   *)

service_identity_self_test ==
    LET old == register_task(NewIdentities, 10)
        gone == unregister(old.ids, old.service)
        new == register_task(gone, 11)
    IN /\ old.service # new.service
       /\ task_for(new.ids, old.service) = 0
       /\ task_for(new.ids, new.service) = 11

Proof(policy) == spawn(NewIdentities, EmptyTable, <<>>, 20, policy)

dynamic_capabilities_self_test ==
    LET empty == Proof(<<>>)
        granted == Proof(<<[resource |-> "r1", rights |-> {"READ", "SEND"}]>>)
    IN /\ task_for(empty.ids, empty.processes[1].service) = 20
       /\ empty.processes[1].held = <<>>
       /\ ~use_capability(empty.table, empty.processes[1], "r1", {"READ"})
       /\ Len(granted.processes[1].held) = 1
       /\ use_capability(granted.table, granted.processes[1], "r1", {"READ"})

process_launch_self_test ==
    LET env == insert(<<>>, "k1", "r1")
        denied == Proof(<<>>)
        allowed == Proof(<<[resource |-> "r1", rights |-> {"READ"}]>>)
    IN /\ ~read_env(denied.table, denied.processes[1], env, "k1")
       /\ read_env(allowed.table, allowed.processes[1], env, "k1")

(* run_termination_self_test and run_crash_containment_self_test, which    *)
(* process_model.rs runs once for each fault it provokes                   *)
process_self_test ==
    LET one == terminate(SpawnSlot(<<>>, 84, 1), 84)
        two == terminate(SpawnSlot(SpawnSlot(<<>>, 90, 1), 91, 2), 90)
    IN /\ next_runnable(one) = 0
       /\ mark_address_space_reclaimed(one, 84, 1)[1].state = "Reclaimed"
       /\ next_runnable(two) = 91

service_manager_self_test ==
    LET ready == mark_ready(NewManager(1), 1)
        failed == contain_exception(NewManager(2), 2)
        restarted == restart_failed(failed, 2)
    IN /\ ready.state = "Ready" /\ failed.state = "Failed"
       /\ restarted.state = "Starting" /\ restarted.generation = 1
       /\ mark_ready(restarted, 2).state = "Ready"
       /\ ~dispatch_event(failed, 2) /\ dispatch_event(ready, 1)

(* The boot runs them in order and panics at the first that fails; they    *)
(* use tables of their own and leave nothing behind                        *)
RunSelfTests ==
  IF
    /\ service_identity_self_test /\ dynamic_capabilities_self_test
    /\ process_launch_self_test /\ process_self_test /\ service_manager_self_test
  THEN "passed" ELSE "panic"

-----------------------------------------------------------------------------
Init ==
    /\ identities = NewIdentities
    /\ table = EmptyTable
    /\ processes = <<>>
    /\ environment = <<>>
    /\ slots = <<>>
    /\ managers = <<>>
    /\ part \in {"grants", "processes", "lifecycle"}
    /\ selftest = RunSelfTests

Running(p) == part = p

Policies ==
    {<<>>,
     <<[resource |-> "r1", rights |-> {"READ"}]>>,
     <<[resource |-> "r1", rights |-> {"SEND"}], [resource |-> "r1", rights |-> {"READ"}]>>,
     <<[resource |-> "r1", rights |-> {"READ"}], [resource |-> "r2", rights |-> {"READ"}]>>}

Spawn(task, policy) ==
    LET s == spawn(identities, table, processes, task, policy)
    IN /\ Running("grants")
       /\ identities.next < MaxId
       /\ Len(policy) <= MaxGrants
       /\ identities' = s.ids
       /\ table' = s.table
       /\ processes' = s.processes
       /\ UNCHANGED <<environment, slots, managers, part, selftest>>

Unregister(service) ==
    /\ identities' = unregister(identities, service)
    /\ UNCHANGED <<table, processes, environment, slots, managers, part, selftest>>

Revoke(slot) ==
    /\ Running("grants")
    /\ table[slot].state = "Active"
    /\ table' = revoke(table, Handle(slot, table[slot].generation))
    /\ UNCHANGED <<identities, processes, environment, slots, managers, part, selftest>>

InsertEnvironment(key, resource) ==
    /\ Running("grants")
    /\ environment' = insert(environment, key, resource)
    /\ UNCHANGED <<identities, table, processes, slots, managers, part, selftest>>

StartProcess(task) ==
    /\ Running("processes")
    /\ slots' = SpawnSlot(slots, task, task)
    /\ UNCHANGED <<identities, table, processes, environment, managers, part, selftest>>

EndProcess(task) ==
    /\ Running("processes")
    /\ \/ slots' = terminate(slots, task)
       \/ \E root \in Tasks : slots' = mark_address_space_reclaimed(slots, task, root)
    /\ UNCHANGED <<identities, table, processes, environment, managers, part, selftest>>

NewService(task) ==
    LET registered == register_task(identities, task)
    IN /\ Running("lifecycle")
       /\ identities.next < MaxId
       /\ registered.answer = "Ok"
       /\ identities' = registered.ids
       /\ managers' = Append(managers, NewManager(registered.service))
       /\ UNCHANGED <<table, processes, environment, slots, part, selftest>>

(* Every manager is handed the identity the caller names                   *)
Manage(i, service) ==
    /\ Running("lifecycle")
    /\ \/ managers' = [managers EXCEPT ![i] = mark_ready(@, service)]
       \/ managers' = [managers EXCEPT ![i] = contain_exception(@, service)]
       \/ /\ managers[i].generation < MaxGeneration
          /\ managers' = [managers EXCEPT ![i] = restart_failed(@, service)]
    /\ UNCHANGED <<identities, table, processes, environment, slots, part, selftest>>

Next ==
    \/ \E t \in Tasks :
          \/ \E p \in Policies : Spawn(t, p)
          \/ StartProcess(t) \/ EndProcess(t) \/ NewService(t)
    \/ \E s \in 1 .. MaxId : Unregister(s)
    \/ \E s \in DOMAIN table : Revoke(s)
    \/ \E k \in Keys, r \in Resources : InsertEnvironment(k, r)
    \/ \E i \in DOMAIN managers, s \in 1 .. MaxId : Manage(i, s)

Spec == Init /\ [][Next]_vars

-----------------------------------------------------------------------------
(* The state is what the structures of the code can hold.                  *)
TypeOK ==
    /\ identities.next \in 1 .. MaxId
    /\ Len(processes) <= MaxProcesses /\ Len(slots) <= MaxProcesses
    /\ Len(environment) <= MaxEnvironment
    /\ \A i \in DOMAIN managers : managers[i].state \in {"Starting", "Ready", "Failed"}

(* A process holds what its creator's policy named and nothing else, also  *)
(* when the slot of its identity had another owner before or an earlier    *)
(* spawn failed after making some of its grants.                           *)
AuthorityFromPolicy ==
    \A i \in DOMAIN processes, s \in DOMAIN table :
        table[s].state = "Active" /\ table[s].holder = processes[i].service =>
            \E g \in ToSet(processes[i].policy) :
                g.resource = table[s].resource /\ g.rights = table[s].rights

(* A grant is honoured when it is used: use_capability says yes exactly    *)
(* for rights that an active entry of the process covers, unless a handle  *)
(* it got earlier for the same resource has been revoked; and a value of   *)
(* the environment is read exactly by the processes that may read the      *)
(* resource its key was inserted with.                                     *)
GrantsHonoured ==
    \A i \in DOMAIN processes :
        LET process == processes[i]
            mine(r) == {s \in DOMAIN table : /\ table[s].state # "None"
                                             /\ table[s].holder = process.service
                                             /\ table[s].resource = r}
            good(r, q) == {s \in mine(r) : table[s].state = "Active" /\ q \subseteq table[s].rights}
        IN /\ \A r \in Resources, q \in {{"READ"}, {"SEND"}} :
                 LET told == use_capability(table, process, r, q)
                 IN /\ told => good(r, q) # {}
                    /\ good(r, q) # {} /\ (\A s \in mine(r) : table[s].state = "Active") => told
           /\ \A e \in ToSet(environment) :
                 read_env(table, process, environment, e.key) => good(e.resource, {"READ"}) # {}

(* Identities stay distinct: no two processes share one, and an identity   *)
(* that is active names one task.                                          *)
IdentitiesDistinct ==
    /\ \A i, j \in DOMAIN processes : i # j => processes[i].service # processes[j].service
    /\ \A i \in DOMAIN processes :
          task_for(identities, processes[i].service) \in {0, processes[i].task}

(* An address space is given back only after its process was ended, and a  *)
(* process that was ended is never scheduled again.                        *)
EndedForGood ==
    \A i \in DOMAIN slots :
       /\ slots'[i].state = "Reclaimed" => slots[i].state \in {"Terminated", "Reclaimed"}
       /\ slots[i].state # "Runnable" => next_runnable(slots') # slots[i].task

(* A failure is contained: what is done to one service changes no other,   *)
(* also when identities were given back and handed out again, and a        *)
(* service that failed takes events again only in a new generation.        *)
FailureContained ==
    /\ Cardinality({i \in DOMAIN managers : managers'[i] # managers[i]}) <= 1
    /\ \A i, j \in DOMAIN managers : i # j => managers[i].service # managers[j].service
    /\ \A i \in DOMAIN managers :
          /\ ~dispatch_event(managers[i], managers[i].service)
          /\ dispatch_event(managers'[i], managers[i].service)
          => managers[i].state = "Starting"

(* The boot's own self tests accept these structures.                      *)
SelfTestsAccept == selftest # "panic"
=============================================================================

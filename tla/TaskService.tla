---------------------------- MODULE TaskService ----------------------------
(***************************************************************************)
(* The task service (core/src/task_service.rs): tasks, proposals, events,  *)
(* relations and relevance assertions kept as objects of the retained      *)
(* object service, decided by the user, proposed by the task steward.      *)
(*                                                                         *)
(* Every operation works on a staged copy of the object service and        *)
(* installs it only if all of its creates and revisions succeeded; the     *)
(* system call then stores the object checkpoint before it answers.  The   *)
(* store is the atomic register of AtomicCheckpoint: an error or a crash   *)
(* leaves the old or the new contents.                                     *)
(*                                                                         *)
(* Titles, fingerprints, scores and reasons are left out: no transition    *)
(* depends on them.  Of the object tables the capacity, the count of prior *)
(* revisions and the timestamps are kept, because each can refuse a step.  *)
(***************************************************************************)
EXTENDS Naturals, Sequences, FiniteSets

CONSTANTS
    Steward,        \* the static task steward process
    Natives,        \* other processes that may be launched as stewards
    Nobody,
    MaxObjects,     \* object slots left to the task service
    MaxPrior,       \* MAX_REVISIONS, prior revisions of all objects
    MaxExtras,      \* bound on appended events and relevance assertions
    MaxBoots        \* bound on the boots of a behaviour

TaskServiceAssumption ==
    /\ MaxObjects \in Nat /\ MaxPrior \in Nat
    /\ MaxExtras \in Nat /\ MaxBoots \in Nat \ {0}
    /\ Steward \notin Natives /\ Nobody \notin Natives \cup {Steward}

VARIABLES
    service,    \* the task objects in memory
    saved,      \* the task objects a boot restores
    extra,      \* holder of the extra steward capability, or Nobody
    unsaved,    \* the call under way has mutated the service
    verdict,    \* what the call under way decides, or NoVerdict
    answered,   \* the decisions users were told of, in order
    running,    \* the machine is up
    boots       \* boots so far

vars == <<service, saved, extra, unsaved, verdict, answered, running, boots>>

-----------------------------------------------------------------------------
(* Records.  A task or proposal is named by its place in creation order,   *)
(* which is also its slot order; 0 names none.                             *)

Statuses == {"Active", "Suspended", "Completed", "Abandoned"}
ProposalStatuses == {"Pending", "Approved", "Rejected"}
ProposalKinds == {"NewTask", "Continuation"}   \* Child, Branch, Related are as NewTask
EventKinds == {"Created", "Suspended", "Revived", "Completed", "Abandoned",
               "ProposalCreated", "ProposalApproved", "ProposalRejected", "Appended"}

Empty == [result |-> "Ok", tasks |-> << >>, proposals |-> << >>, events |-> << >>,
          relations |-> << >>, assertions |-> 0, prior |-> 0, ticks |-> 2]

NoVerdict == [proposal |-> 0, status |-> "Pending"]

ObjectCount(s) == Len(s.tasks) + Len(s.proposals) + Len(s.events)
                  + Len(s.relations) + s.assertions

(* What only fills slots and changes no task: bounded to keep TLC finite   *)
Extras(s) == s.assertions + Len(SelectSeq(s.events, LAMBDA e : e.kind = "Appended"))

ActiveTasks(s) == {t \in DOMAIN s.tasks : s.tasks[t].status = "Active"}

(* active_task_id_in: the first active task in slot order, or none *)
active_task_id_in(s) ==
    IF ActiveTasks(s) = {} THEN 0
    ELSE CHOOSE t \in ActiveTasks(s) : \A u \in ActiveTasks(s) : t <= u

-----------------------------------------------------------------------------
(* Steps on a staged copy.  A step that fails leaves an error, as the ?    *)
(* operator returns from the operation; the staged copy is then dropped.   *)

Failed(s) == [s EXCEPT !.result = "Err"]

(* create_task_service_object: one slot, one tick; grown is the staged     *)
(* copy with the record of the object                                      *)
Created(s, grown) ==
    IF s.result = "Err" \/ ObjectCount(s) >= MaxObjects THEN Failed(s)
    ELSE [grown EXCEPT !.ticks = @ + 1]

(* revise_task_service_object: a newer timestamp than the record's, and a  *)
(* slot for the revision it supersedes                                     *)
Revised(s, records, id, changed) ==
    IF \/ s.result = "Err"
       \/ id \notin DOMAIN records
       \/ s.ticks <= records[id].ticks
       \/ s.prior >= MaxPrior
    THEN Failed(s)
    ELSE [changed EXCEPT !.prior = @ + 1, !.ticks = @ + 1]

set_task_status_on(s, t, status) ==
    Revised(s, s.tasks, t, [s EXCEPT !.tasks[t] = [status |-> status, ticks |-> s.ticks]])

append_event_on(s, kind, t, p) ==
    Created(s, [s EXCEPT !.events = Append(@, [kind |-> kind, task |-> t, proposal |-> p])])

WithTask(s) ==
    Created(s, [s EXCEPT !.tasks = Append(@, [status |-> "Active", ticks |-> s.ticks])])

WithProposal(s, proposal) ==
    Created(s, [s EXCEPT !.proposals = Append(@, proposal)])

(* The revision of a proposal that decides it *)
Decided(s, p, status) ==
    Revised(s, s.proposals, p,
            [s EXCEPT !.proposals[p] = [@ EXCEPT !.status = status, !.ticks = s.ticks]])

(* relation_record, for the task an approval starts or resumes *)
Related(s, source, proposal) ==
    Created(s, [s EXCEPT !.relations = Append(@, [source |-> source,
                                                  target |-> proposal.target,
                                                  kind |-> proposal.kind])])

(* relevance_assertion_record *)
Asserted(s) == Created(s, [s EXCEPT !.assertions = @ + 1])

(* set_task_status_on and append_event_on for the task that gives way to   *)
(* a new task (proposal 0) or to an approved one                           *)
Suspended(s, t, p) ==
    append_event_on(set_task_status_on(s, t, "Suspended"), "Suspended", t, p)

-----------------------------------------------------------------------------
(* The operations on a staged copy *)

create_task_staged(s) ==
    LET active == active_task_id_in(s)
        cleared == IF active = 0 THEN s ELSE Suspended(s, active, 0)
        made == WithTask(cleared)
    IN  append_event_on(made, "Created", Len(made.tasks), 0)

create_proposal_staged(s, kind, target, candidate) ==
    LET proposal == [status |-> "Pending", kind |-> kind, target |-> target,
                     candidate |-> candidate, ticks |-> s.ticks]
        made == WithProposal(s, proposal)
    IN  append_event_on(made, "ProposalCreated", target, Len(made.proposals))

(* The resumed task, or the place of the task to be created *)
ApprovedTask(s, p) ==
    LET proposal == s.proposals[p]
    IN  IF proposal.kind = "Continuation"
        THEN IF proposal.candidate = 0 THEN proposal.target ELSE proposal.candidate
        ELSE Len(s.tasks) + 1

(* Mutant: a failed step does not stop the approval *)
approve_unstaged(s, p, suspend) ==
    LET proposal == s.proposals[p]
        task == ApprovedTask(s, p)
        started == IF proposal.kind = "Continuation"
                   THEN set_task_status_on(s, task, "Active") ELSE WithTask(s)
        related == Related(started, task, proposal)
        decided == Decided([related EXCEPT !.result = "Ok"], p, "Approved")
    IN  [append_event_on([decided EXCEPT !.result = "Ok"], "ProposalApproved", task, p)
            EXCEPT !.result = "Ok"]

(* approve_proposal: the task, the suspension of the task that was active  *)
(* before (if asked for), the relation, the decision, the event            *)
approve_proposal_staged(s, p, suspend) ==
    LET proposal == s.proposals[p]
        task == ApprovedTask(s, p)
        active == active_task_id_in(s)
        started == IF proposal.kind = "Continuation"
                   THEN set_task_status_on(s, task, "Active") ELSE WithTask(s)
        cleared == IF suspend /\ active \notin {0, task} THEN Suspended(started, active, p)
                   ELSE started
        related == Related(cleared, task, proposal)
        decided == Decided(related, p, "Approved")
    IN  append_event_on(decided, "ProposalApproved", task, p)

reject_proposal_staged(s, p) ==
    append_event_on(Decided(s, p, "Rejected"), "ProposalRejected",
                    s.proposals[p].target, p)

EventOf(status) == IF status = "Active" THEN "Revived" ELSE status

transition_task_staged(s, t, status) ==
    append_event_on(set_task_status_on(s, t, status), EventOf(status), t, 0)

-----------------------------------------------------------------------------
Init ==
    /\ service = Empty
    /\ saved = Empty
    /\ extra = Nobody
    /\ unsaved = FALSE
    /\ verdict = NoVerdict
    /\ answered = << >>
    /\ running = TRUE
    /\ boots = 1

Ready == running /\ ~unsaved

(* The tail of every operation: install the staged copy if it is whole *)
Commit(staged) ==
    /\ staged.result = "Ok"
    /\ service' = staged
    /\ unsaved' = TRUE
    /\ UNCHANGED <<saved, extra, answered, running, boots>>

create_task ==
    /\ Ready
    /\ Commit(create_task_staged(service))
    /\ UNCHANGED verdict

(* create_proposal names its tasks without looking them up. *)
create_proposal(caller, kind, target, candidate) ==
    /\ Ready
    /\ caller \in {Steward, extra}
    /\ Commit(create_proposal_staged(service, kind, target, candidate))
    /\ UNCHANGED verdict

approve_proposal(p, suspend) ==
    /\ Ready
    /\ p \in DOMAIN service.proposals
    /\ service.proposals[p].status = "Pending"
    /\ Commit(approve_proposal_staged(service, p, suspend))
    /\ verdict' = [proposal |-> p, status |-> "Approved"]

reject_proposal(p) ==
    /\ Ready
    /\ p \in DOMAIN service.proposals
    /\ service.proposals[p].status = "Pending"
    /\ Commit(reject_proposal_staged(service, p))
    /\ verdict' = [proposal |-> p, status |-> "Rejected"]

(* suspend_task, revive_task, complete_task and abandon_task, whatever the *)
(* task's status is                                                        *)
transition_task(t, status) ==
    /\ Ready
    /\ Commit(transition_task_staged(service, t, status))
    /\ UNCHANGED verdict

(* task_status_in reads field 1 of any object, and the first field of a    *)
(* proposal, of an event coded 1 to 4 and possibly of an assertion reads   *)
(* as a status as well: the event is then appended to no task (0).         *)
ReadsAsTask(s, t) ==
    \/ t \in DOMAIN s.tasks
    \/ /\ t = 0
       /\ \/ s.proposals # << >>
          \/ s.assertions > 0
          \/ \E e \in DOMAIN s.events :
                s.events[e].kind \in {"Created", "ProposalCreated",
                                     "ProposalApproved", "Suspended"}

append_task_event(t) ==
    /\ Ready
    /\ ReadsAsTask(service, t)
    /\ Extras(service) < MaxExtras
    /\ Commit(append_event_on(service, "Appended", t, 0))
    /\ UNCHANGED verdict

(* read_context_summary by the static steward records an assertion. *)
read_context_summary ==
    /\ Ready
    /\ Extras(service) < MaxExtras
    /\ Commit(Asserted(service))
    /\ UNCHANGED verdict

(* grant_steward_proposal_capability: one extra holder, the last one *)
grant_steward_proposal_capability(caller) ==
    /\ Ready
    /\ extra' = caller
    /\ UNCHANGED <<service, saved, unsaved, verdict, answered, running, boots>>

(* persist_object_service succeeded: the call answers. *)
PersistOk ==
    /\ running /\ unsaved
    /\ saved' = service
    /\ unsaved' = FALSE
    /\ verdict' = NoVerdict
    /\ answered' = IF verdict = NoVerdict THEN answered
                   ELSE Append(answered, verdict)
    /\ UNCHANGED <<service, extra, running, boots>>

(* The store reported an error; the call does, and the memory stays. *)
PersistError ==
    /\ running /\ unsaved
    /\ saved' \in {saved, service}
    /\ unsaved' = FALSE
    /\ verdict' = NoVerdict
    /\ UNCHANGED <<service, extra, answered, running, boots>>

Crash ==
    /\ running
    /\ boots < MaxBoots
    /\ running' = FALSE
    /\ saved' \in IF unsaved THEN {saved, service} ELSE {saved}
    /\ unsaved' = FALSE
    /\ verdict' = NoVerdict
    /\ UNCHANGED <<service, extra, answered, boots>>

(* The tables are restored; the timestamp counter and the task authority   *)
(* start afresh.                                                           *)
Boot ==
    /\ ~running
    /\ running' = TRUE
    /\ boots' = boots + 1
    /\ service' = [saved EXCEPT !.ticks = 2]
    /\ extra' = Nobody
    /\ UNCHANGED <<saved, unsaved, verdict, answered>>

TaskNames == 0 .. MaxObjects

(* The candidate of a proposal that is no continuation is never read.      *)
Candidates(kind) == IF kind = "Continuation" THEN 0 .. Len(service.tasks) ELSE {0}

Proposals == 1 .. MaxObjects

(* create_proposal takes any ids.  Here target and candidate are a task or    *)
(* none (0), a bound of the model: an id a task gets only later is left out.  *)
Next ==
    \/ create_task
    \/ \E caller \in Natives \cup {Steward}, kind \in ProposalKinds,
          target \in 0 .. Len(service.tasks) :
            \E candidate \in Candidates(kind) :
                create_proposal(caller, kind, target, candidate)
    \/ \E p \in Proposals :
            \/ \E suspend \in BOOLEAN : approve_proposal(p, suspend)
            \/ reject_proposal(p)
    \/ \E t \in TaskNames :
            \/ \E status \in Statuses : transition_task(t, status)
            \/ append_task_event(t)
    \/ read_context_summary
    \/ \E caller \in Natives : grant_steward_proposal_capability(caller)
    \/ PersistOk
    \/ PersistError
    \/ Crash
    \/ Boot

Spec == Init /\ [][Next]_vars

-----------------------------------------------------------------------------
(* Properties *)

(* TypeOK: no operation leaves the record shapes or the two table limits   *)
(* (MAX_DYNAMIC_OBJECTS and MAX_REVISIONS, which restore checks again), in *)
(* memory or on disk.                                                      *)
States == [result : {"Ok"}, tasks : Seq([status : Statuses, ticks : Nat]),
           proposals : Seq([status : ProposalStatuses, kind : ProposalKinds,
                            target : Nat, candidate : Nat, ticks : Nat]),
           events : Seq([kind : EventKinds, task : Nat, proposal : Nat]),
           relations : Seq([source : Nat, target : Nat, kind : ProposalKinds]),
           assertions : Nat, prior : 0 .. MaxPrior, ticks : Nat]

TypeOK ==
    /\ \A s \in {service, saved} : s \in States /\ ObjectCount(s) <= MaxObjects
    /\ extra \in Natives \cup {Nobody}
    /\ unsaved \in BOOLEAN /\ running \in BOOLEAN /\ boots \in 1 .. MaxBoots
    /\ verdict \in [proposal : 0 .. MaxObjects, status : ProposalStatuses]
    /\ answered \in Seq([proposal : 1 .. MaxObjects, status : ProposalStatuses])

(* StatusFollowsEvents: in memory and in every state a boot restores, the  *)
(* status of each task is the one its latest status event announces; the   *)
(* status revision and its event are never installed one without the other.*)
Announces(kind) ==
    CASE kind \in {"Created", "Revived", "ProposalApproved"} -> {"Active"}
      [] kind \in {"Suspended", "Completed", "Abandoned"} -> {kind}
      [] OTHER -> {}

StatusEvents(s, t) ==
    {e \in DOMAIN s.events : s.events[e].task = t /\ Announces(s.events[e].kind) # {}}

StatusFollowsEvents ==
    \A s \in {service, saved} : \A t \in DOMAIN s.tasks :
        \E e \in StatusEvents(s, t) :
            /\ \A f \in StatusEvents(s, t) : f <= e
            /\ s.tasks[t].status \in Announces(s.events[e].kind)

(* ApprovalAtomic: a proposal is approved exactly when one approval event  *)
(* names it, one relation was made for each approval, and the approved     *)
(* task exists, in memory and in every state a boot restores: the several  *)
(* objects an approval touches are never seen partly changed.              *)
EventsOf(s, kind, p) ==
    {e \in DOMAIN s.events : s.events[e].kind = kind /\ s.events[e].proposal = p}

ApprovalAtomic ==
    \A s \in {service, saved} :
        /\ \A p \in DOMAIN s.proposals :
              /\ Cardinality(EventsOf(s, "ProposalApproved", p))
                    = IF s.proposals[p].status = "Approved" THEN 1 ELSE 0
              /\ Cardinality(EventsOf(s, "ProposalRejected", p))
                    = IF s.proposals[p].status = "Rejected" THEN 1 ELSE 0
              /\ \A e \in EventsOf(s, "ProposalApproved", p) :
                    s.events[e].task \in DOMAIN s.tasks
        /\ Len(s.relations)
              = Cardinality({p \in DOMAIN s.proposals : s.proposals[p].status = "Approved"})

(* DecisionDurable: a decision the user was told of is what a boot         *)
(* restores, for ever after, and no proposal is decided twice, however     *)
(* many stores failed and however many crashes and retries there were.     *)
DecisionDurable ==
    /\ \A i \in DOMAIN answered :
          /\ answered[i].proposal \in DOMAIN saved.proposals
          /\ saved.proposals[answered[i].proposal].status = answered[i].status
    /\ \A i, j \in DOMAIN answered :
          answered[i].proposal = answered[j].proposal => i = j
=============================================================================

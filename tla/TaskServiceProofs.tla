------------------------- MODULE TaskServiceProofs -------------------------
(***************************************************************************)
(* The task service keeps tasks, events, proposals and relations in step,  *)
(* and answered decisions for ever: proofs for TaskService.                *)
(***************************************************************************)
EXTENDS TaskService, FiniteSetTheorems, SequenceTheorems, TLAPS

-----------------------------------------------------------------------------
(* Proofs.  First what a step on a staged copy does to its tables.  Fits   *)
(* holds of every staged copy, also of one whose step failed.              *)

TaskRec == [status : Statuses, ticks : Nat]
ProposalRec == [status : ProposalStatuses, kind : ProposalKinds,
                target : Nat, candidate : Nat, ticks : Nat]
EventRec == [kind : EventKinds, task : Nat, proposal : Nat]
RelationRec == [source : Nat, target : Nat, kind : ProposalKinds]

Staged == [result : {"Ok", "Err"}, tasks : Seq(TaskRec), proposals : Seq(ProposalRec),
           events : Seq(EventRec), relations : Seq(RelationRec),
           assertions : Nat, prior : 0 .. MaxPrior, ticks : Nat]

Fits(s) == s \in Staged /\ ObjectCount(s) <= MaxObjects

Tables(x, T, P, E, R, a) ==
    /\ x.tasks = T /\ x.proposals = P /\ x.events = E /\ x.relations = R
    /\ x.assertions = a

(* ObjectCount, of tables *)
Count(T, P, E, R, a) == Len(T) + Len(P) + Len(E) + Len(R) + a

(* ObjectCount, by tables. *)
LEMMA Counted ==
    ASSUME NEW s
    PROVE  ObjectCount(s) = Count(s.tasks, s.proposals, s.events, s.relations, s.assertions)
  BY DEF ObjectCount, Count

(* One more record in a table is one more object. *)
LEMMA CountGrows ==
    ASSUME NEW T \in Seq(TaskRec), NEW P \in Seq(ProposalRec), NEW E \in Seq(EventRec),
           NEW R \in Seq(RelationRec), NEW a \in Nat
    PROVE  /\ Count(T, P, E, R, a) \in Nat
           /\ Count(T, P, E, R, a + 1) = Count(T, P, E, R, a) + 1
           /\ \A r \in TaskRec : Count(Append(T, r), P, E, R, a) = Count(T, P, E, R, a) + 1
           /\ \A r \in ProposalRec : Count(T, Append(P, r), E, R, a) = Count(T, P, E, R, a) + 1
           /\ \A r \in EventRec : Count(T, P, Append(E, r), R, a) = Count(T, P, E, R, a) + 1
           /\ \A r \in RelationRec : Count(T, P, E, Append(R, r), a) = Count(T, P, E, R, a) + 1
  BY DEF Count

(* The fields of a staged copy and their types. *)
LEMMA Parts ==
    ASSUME NEW s \in Staged
    PROVE  /\ s.result \in {"Ok", "Err"}
           /\ s.tasks \in Seq(TaskRec) /\ s.proposals \in Seq(ProposalRec)
           /\ s.events \in Seq(EventRec) /\ s.relations \in Seq(RelationRec)
           /\ s.assertions \in Nat /\ s.prior \in 0 .. MaxPrior /\ s.ticks \in Nat
           /\ ObjectCount(s) \in Nat
  BY DEF Staged, ObjectCount

(* A failed step leaves the tables as they are. *)
LEMMA FailedFits ==
    ASSUME NEW s, Fits(s), NEW x, x = Failed(s)
    PROVE  Fits(x) /\ x.result = "Err"
<1>1. /\ x \in Staged /\ x.result = "Err"
      /\ Tables(x, s.tasks, s.proposals, s.events, s.relations, s.assertions)
  BY DEF Fits, Failed, Staged, Tables
<1> QED BY <1>1, Counted DEF Fits, Tables

(* A newer timestamp changes no table. *)
LEMMA TicksReplaced ==
    ASSUME NEW s \in Staged, NEW k \in Nat, NEW g, g = [s EXCEPT !.ticks = k]
    PROVE  /\ g \in Staged
           /\ Tables(g, s.tasks, s.proposals, s.events, s.relations, s.assertions)
  BY DEF Staged, Tables

(* Nor does the count of superseded revisions. *)
LEMMA PriorReplaced ==
    ASSUME NEW s \in Staged, NEW f \in 0 .. MaxPrior, NEW k \in Nat, NEW g,
           g = [s EXCEPT !.prior = f, !.ticks = k]
    PROVE  /\ g \in Staged
           /\ Tables(g, s.tasks, s.proposals, s.events, s.relations, s.assertions)
  BY DEF Staged, Tables

(* A staged copy with other assertions. *)
LEMMA AssertionsReplaced ==
    ASSUME NEW s \in Staged, NEW k \in Nat, NEW g, g = [s EXCEPT !.assertions = k]
    PROVE  /\ g \in Staged /\ g.result = s.result
           /\ Tables(g, s.tasks, s.proposals, s.events, s.relations, k)
  BY DEF Staged, Tables

(* create_task_service_object fails, or fills one slot that was free. *)
LEMMA CreatedEffect ==
    ASSUME TaskServiceAssumption, NEW s, Fits(s), NEW g \in Staged,
           ObjectCount(g) = ObjectCount(s) + 1, g.result = s.result,
           NEW x, x = Created(s, g)
    PROVE  /\ Fits(x)
           /\ x.result = "Ok" =>
                /\ s.result = "Ok"
                /\ Tables(x, g.tasks, g.proposals, g.events, g.relations, g.assertions)
<1>0. s \in Staged /\ s.result \in {"Ok", "Err"} /\ ObjectCount(s) \in Nat /\ g.ticks + 1 \in Nat
  BY Parts DEF Fits
<1>1. CASE s.result = "Err" \/ ObjectCount(s) >= MaxObjects
  <2>1. x = Failed(s)
    BY <1>1 DEF Created
  <2> QED BY <2>1, FailedFits
<1>2. CASE s.result = "Ok" /\ ~(ObjectCount(s) >= MaxObjects)
  <2>1. x = [g EXCEPT !.ticks = g.ticks + 1]
    BY <1>2 DEF Created
  <2>2. x \in Staged /\ Tables(x, g.tasks, g.proposals, g.events, g.relations, g.assertions)
    BY <2>1, <1>0, TicksReplaced
  <2>3. ObjectCount(x) = ObjectCount(g)
    BY <2>2, Counted DEF Tables
  <2> QED BY <1>0, <1>2, <2>2, <2>3 DEF Fits, TaskServiceAssumption
<1> QED BY <1>0, <1>1, <1>2

(* revise_task_service_object fails, or installs the revision and keeps the*)
(* number of objects.                                                      *)
LEMMA RevisedEffect ==
    ASSUME TaskServiceAssumption, NEW s, Fits(s), NEW records, NEW id, NEW g,
           id \in DOMAIN records =>
               /\ g \in Staged /\ ObjectCount(g) = ObjectCount(s)
               /\ g.result = s.result /\ g.prior = s.prior,
           NEW x, x = Revised(s, records, id, g)
    PROVE  /\ Fits(x)
           /\ x.result = "Ok" =>
                /\ s.result = "Ok" /\ id \in DOMAIN records
                /\ Tables(x, g.tasks, g.proposals, g.events, g.relations, g.assertions)
<1>0. s \in Staged /\ s.result \in {"Ok", "Err"} /\ s.prior \in 0 .. MaxPrior
  BY Parts DEF Fits
<1> DEFINE bad == \/ s.result = "Err"
                  \/ id \notin DOMAIN records
                  \/ s.ticks <= records[id].ticks
                  \/ s.prior >= MaxPrior
<1>1. CASE bad
  <2>1. x = Failed(s)
    BY <1>1 DEF Revised
  <2> QED BY <2>1, FailedFits
<1>2. CASE ~bad
  <2>0. g \in Staged /\ g.ticks + 1 \in Nat /\ g.prior + 1 \in 0 .. MaxPrior
    BY <1>2, <1>0, Parts DEF TaskServiceAssumption
  <2>1. x = [g EXCEPT !.prior = g.prior + 1, !.ticks = g.ticks + 1]
    BY <1>2, <2>0 DEF Revised, Staged
  <2>2. x \in Staged /\ Tables(x, g.tasks, g.proposals, g.events, g.relations, g.assertions)
    BY <2>1, <2>0, PriorReplaced
  <2>3. ObjectCount(x) = ObjectCount(g)
    BY <2>2, Counted DEF Tables
  <2> QED BY <1>0, <1>2, <2>2, <2>3 DEF Fits
<1> QED BY <1>1, <1>2

(* A staged copy with other tasks. *)
LEMMA TasksReplaced ==
    ASSUME NEW s \in Staged, NEW e \in Seq(TaskRec), NEW g, g = [s EXCEPT !.tasks = e]
    PROVE  /\ g \in Staged /\ g.result = s.result /\ g.prior = s.prior
           /\ Tables(g, e, s.proposals, s.events, s.relations, s.assertions)
  BY DEF Staged, Tables

(* A staged copy with other proposals. *)
LEMMA ProposalsReplaced ==
    ASSUME NEW s \in Staged, NEW e \in Seq(ProposalRec), NEW g, g = [s EXCEPT !.proposals = e]
    PROVE  /\ g \in Staged /\ g.result = s.result /\ g.prior = s.prior
           /\ Tables(g, s.tasks, e, s.events, s.relations, s.assertions)
  BY DEF Staged, Tables

(* A staged copy with other events. *)
LEMMA EventsReplaced ==
    ASSUME NEW s \in Staged, NEW e \in Seq(EventRec), NEW g, g = [s EXCEPT !.events = e]
    PROVE  /\ g \in Staged /\ g.result = s.result /\ g.prior = s.prior
           /\ Tables(g, s.tasks, s.proposals, e, s.relations, s.assertions)
  BY DEF Staged, Tables

(* A staged copy with other relations. *)
LEMMA RelationsReplaced ==
    ASSUME NEW s \in Staged, NEW e \in Seq(RelationRec), NEW g, g = [s EXCEPT !.relations = e]
    PROVE  /\ g \in Staged /\ g.result = s.result /\ g.prior = s.prior
           /\ Tables(g, s.tasks, s.proposals, s.events, e, s.assertions)
  BY DEF Staged, Tables

(* append_event_on fails or appends its event and nothing else. *)
LEMMA EventAppended ==
    ASSUME TaskServiceAssumption, NEW s, Fits(s), NEW kind \in EventKinds, NEW t \in Nat,
           NEW p \in Nat,
           NEW x, x = append_event_on(s, kind, t, p)
    PROVE  /\ Fits(x)
           /\ x.result = "Ok" =>
                /\ s.result = "Ok"
                /\ Tables(x, s.tasks, s.proposals,
                          Append(s.events, [kind |-> kind, task |-> t, proposal |-> p]),
                          s.relations, s.assertions)
<1> DEFINE r == [kind |-> kind, task |-> t, proposal |-> p]
           e == Append(s.events, r)
           g == [s EXCEPT !.events = e]
<1>0. s \in Staged /\ s.events \in Seq(EventRec) /\ r \in EventRec
  BY Parts DEF Fits, EventRec
<1>1. e \in Seq(EventRec)
  BY <1>0
<1>2. x = Created(s, g)
  BY <1>0 DEF append_event_on
<1> HIDE DEF g
<1>3. /\ g \in Staged /\ g.result = s.result
      /\ Tables(g, s.tasks, s.proposals, e, s.relations, s.assertions)
  BY <1>0, <1>1, EventsReplaced DEF g
<1>4. ObjectCount(g) = ObjectCount(s) + 1
  <2>1. /\ s.tasks \in Seq(TaskRec) /\ s.proposals \in Seq(ProposalRec)
        /\ s.events \in Seq(EventRec) /\ s.relations \in Seq(RelationRec)
        /\ s.assertions \in Nat
    BY <1>0, Parts
  <2>2. ObjectCount(g) = Count(s.tasks, s.proposals, e, s.relations, s.assertions)
    BY <1>3, Counted DEF Tables
  <2> QED BY <1>0, <2>1, <2>2, Counted, CountGrows
<1> QED BY <1>2, <1>3, <1>4, CreatedEffect DEF Tables

(* A task create fails or appends an active task. *)
LEMMA TaskCreated ==
    ASSUME TaskServiceAssumption, NEW s, Fits(s),
           NEW x, x = WithTask(s)
    PROVE  /\ Fits(x)
           /\ x.result = "Ok" =>
                /\ s.result = "Ok"
                /\ Tables(x, Append(s.tasks, [status |-> "Active", ticks |-> s.ticks]),
                          s.proposals, s.events, s.relations, s.assertions)
<1> DEFINE r == [status |-> "Active", ticks |-> s.ticks]
           e == Append(s.tasks, r)
           g == [s EXCEPT !.tasks = e]
<1>0. s \in Staged /\ s.tasks \in Seq(TaskRec) /\ r \in TaskRec
  BY Parts DEF Fits, TaskRec, Statuses
<1>1. e \in Seq(TaskRec)
  BY <1>0
<1>2. x = Created(s, g)
  BY <1>0 DEF WithTask
<1> HIDE DEF g
<1>3. /\ g \in Staged /\ g.result = s.result
      /\ Tables(g, e, s.proposals, s.events, s.relations, s.assertions)
  BY <1>0, <1>1, TasksReplaced DEF g
<1>4. ObjectCount(g) = ObjectCount(s) + 1
  <2>1. /\ s.tasks \in Seq(TaskRec) /\ s.proposals \in Seq(ProposalRec)
        /\ s.events \in Seq(EventRec) /\ s.relations \in Seq(RelationRec)
        /\ s.assertions \in Nat
    BY <1>0, Parts
  <2>2. ObjectCount(g) = Count(e, s.proposals, s.events, s.relations, s.assertions)
    BY <1>3, Counted DEF Tables
  <2> QED BY <1>0, <2>1, <2>2, Counted, CountGrows
<1> QED BY <1>2, <1>3, <1>4, CreatedEffect DEF Tables

(* A proposal create fails or appends the proposal. *)
LEMMA ProposalCreated ==
    ASSUME TaskServiceAssumption, NEW s, Fits(s), NEW r \in ProposalRec,
           NEW x, x = WithProposal(s, r)
    PROVE  /\ Fits(x)
           /\ x.result = "Ok" =>
                /\ s.result = "Ok"
                /\ Tables(x, s.tasks, Append(s.proposals, r), s.events, s.relations, s.assertions)
<1> DEFINE e == Append(s.proposals, r)
           g == [s EXCEPT !.proposals = e]
<1>0. s \in Staged /\ s.proposals \in Seq(ProposalRec)
  BY Parts DEF Fits
<1>1. e \in Seq(ProposalRec)
  BY <1>0
<1>2. x = Created(s, g)
  BY <1>0 DEF WithProposal
<1> HIDE DEF g
<1>3. /\ g \in Staged /\ g.result = s.result
      /\ Tables(g, s.tasks, e, s.events, s.relations, s.assertions)
  BY <1>0, <1>1, ProposalsReplaced DEF g
<1>4. ObjectCount(g) = ObjectCount(s) + 1
  <2>1. /\ s.tasks \in Seq(TaskRec) /\ s.proposals \in Seq(ProposalRec)
        /\ s.events \in Seq(EventRec) /\ s.relations \in Seq(RelationRec)
        /\ s.assertions \in Nat
    BY <1>0, Parts
  <2>2. ObjectCount(g) = Count(s.tasks, e, s.events, s.relations, s.assertions)
    BY <1>3, Counted DEF Tables
  <2> QED BY <1>0, <2>1, <2>2, Counted, CountGrows
<1> QED BY <1>2, <1>3, <1>4, CreatedEffect DEF Tables

(* A relation create fails or appends the relation. *)
LEMMA RelationCreated ==
    ASSUME TaskServiceAssumption, NEW s, Fits(s), NEW t \in Nat, NEW q \in ProposalRec,
           NEW x, x = Related(s, t, q)
    PROVE  /\ Fits(x)
           /\ x.result = "Ok" =>
                /\ s.result = "Ok"
                /\ Tables(x, s.tasks, s.proposals, s.events,
                          Append(s.relations, [source |-> t, target |-> q.target, kind |-> q.kind]),
                          s.assertions)
<1> DEFINE r == [source |-> t, target |-> q.target, kind |-> q.kind]
           e == Append(s.relations, r)
           g == [s EXCEPT !.relations = e]
<1>0. s \in Staged /\ s.relations \in Seq(RelationRec) /\ r \in RelationRec
  BY Parts DEF Fits, RelationRec, ProposalRec
<1>1. e \in Seq(RelationRec)
  BY <1>0
<1>2. x = Created(s, g)
  BY <1>0 DEF Related
<1> HIDE DEF g
<1>3. /\ g \in Staged /\ g.result = s.result
      /\ Tables(g, s.tasks, s.proposals, s.events, e, s.assertions)
  BY <1>0, <1>1, RelationsReplaced DEF g
<1>4. ObjectCount(g) = ObjectCount(s) + 1
  <2>1. /\ s.tasks \in Seq(TaskRec) /\ s.proposals \in Seq(ProposalRec)
        /\ s.events \in Seq(EventRec) /\ s.relations \in Seq(RelationRec)
        /\ s.assertions \in Nat
    BY <1>0, Parts
  <2>2. ObjectCount(g) = Count(s.tasks, s.proposals, s.events, e, s.assertions)
    BY <1>3, Counted DEF Tables
  <2> QED BY <1>0, <2>1, <2>2, Counted, CountGrows
<1> QED BY <1>2, <1>3, <1>4, CreatedEffect DEF Tables

(* An assertion create fails or counts one more assertion. *)
LEMMA AssertionCreated ==
    ASSUME TaskServiceAssumption, NEW s, Fits(s), NEW x, x = Asserted(s)
    PROVE  /\ Fits(x)
           /\ x.result = "Ok" =>
                /\ s.result = "Ok"
                /\ Tables(x, s.tasks, s.proposals, s.events, s.relations, s.assertions + 1)
<1> DEFINE e == s.assertions + 1
           g == [s EXCEPT !.assertions = e]
<1>0. s \in Staged /\ e \in Nat
  BY Parts DEF Fits
<1>2. x = Created(s, g)
  BY <1>0 DEF Asserted
<1> HIDE DEF g
<1>3. /\ g \in Staged /\ g.result = s.result
      /\ Tables(g, s.tasks, s.proposals, s.events, s.relations, e)
  BY <1>0, AssertionsReplaced DEF g
<1>4. ObjectCount(g) = ObjectCount(s) + 1
  <2>1. /\ s.tasks \in Seq(TaskRec) /\ s.proposals \in Seq(ProposalRec)
        /\ s.events \in Seq(EventRec) /\ s.relations \in Seq(RelationRec)
        /\ s.assertions \in Nat
    BY <1>0, Parts
  <2>2. ObjectCount(g) = Count(s.tasks, s.proposals, s.events, s.relations, e)
    BY <1>3, Counted DEF Tables
  <2> QED BY <1>0, <2>1, <2>2, Counted, CountGrows
<1> QED BY <1>2, <1>3, <1>4, CreatedEffect DEF Tables

(* set_task_status_on fails or gives a task that exists the status. *)
LEMMA StatusSet ==
    ASSUME TaskServiceAssumption, NEW s, Fits(s), NEW i, NEW status \in Statuses,
           NEW x, x = set_task_status_on(s, i, status)
    PROVE  /\ Fits(x)
           /\ x.result = "Ok" =>
                /\ s.result = "Ok" /\ i \in DOMAIN s.tasks
                /\ Tables(x, [s.tasks EXCEPT ![i] = [status |-> status, ticks |-> s.ticks]],
                          s.proposals, s.events, s.relations, s.assertions)
<1> DEFINE r == [status |-> status, ticks |-> s.ticks]
           e == [s.tasks EXCEPT ![i] = r]
           g == [s EXCEPT !.tasks[i] = [status |-> status, ticks |-> s.ticks]]
<1>0. s \in Staged /\ s.tasks \in Seq(TaskRec) /\ s.ticks \in Nat
  BY Parts DEF Fits
<1>1. x = Revised(s, s.tasks, i, g)
  BY DEF set_task_status_on
<1>2. ASSUME i \in DOMAIN s.tasks
      PROVE  /\ g \in Staged /\ g.result = s.result /\ g.prior = s.prior
             /\ Tables(g, e, s.proposals, s.events, s.relations, s.assertions)
             /\ ObjectCount(g) = ObjectCount(s)
  <2>1. r \in TaskRec
    BY <1>0 DEF TaskRec
  <2>2. e \in Seq(TaskRec) /\ Len(e) = Len(s.tasks)
    BY <1>0, <1>2, <2>1
  <2>3. g = [s EXCEPT !.tasks = e]
    BY <1>0 DEF Staged
  <2> HIDE DEF g, e
  <2>4. /\ g \in Staged /\ g.result = s.result /\ g.prior = s.prior
        /\ Tables(g, e, s.proposals, s.events, s.relations, s.assertions)
    BY <1>0, <2>2, <2>3, TasksReplaced
  <2>5. ObjectCount(g) = ObjectCount(s)
    BY <2>2, <2>4, Counted DEF Tables, Count
  <2> QED BY <2>4, <2>5
<1> HIDE DEF g
<1>3. /\ Fits(x)
      /\ x.result = "Ok" =>
           /\ s.result = "Ok" /\ i \in DOMAIN s.tasks
           /\ Tables(x, g.tasks, g.proposals, g.events, g.relations, g.assertions)
  BY <1>1, <1>2, RevisedEffect
<1> QED BY <1>2, <1>3 DEF Tables

(* A decided proposal is a proposal. *)
LEMMA ProposalRevised ==
    ASSUME NEW q \in ProposalRec, NEW status \in ProposalStatuses, NEW k \in Nat
    PROVE  [q EXCEPT !.status = status, !.ticks = k] \in ProposalRec
  BY DEF ProposalRec

(* The revision of a decision fails or decides a proposal that exists. *)
LEMMA ProposalDecided ==
    ASSUME TaskServiceAssumption, NEW s, Fits(s), NEW i, NEW status \in ProposalStatuses,
           NEW x, x = Decided(s, i, status)
    PROVE  /\ Fits(x)
           /\ x.result = "Ok" =>
                /\ s.result = "Ok" /\ i \in DOMAIN s.proposals
                /\ Tables(x, s.tasks,
                          [s.proposals EXCEPT ![i] = [@ EXCEPT !.status = status, !.ticks = s.ticks]],
                          s.events, s.relations, s.assertions)
<1> DEFINE r == [s.proposals[i] EXCEPT !.status = status, !.ticks = s.ticks]
           e == [s.proposals EXCEPT ![i] = r]
           g == [s EXCEPT !.proposals[i] = [@ EXCEPT !.status = status, !.ticks = s.ticks]]
<1>0. s \in Staged /\ s.proposals \in Seq(ProposalRec) /\ s.ticks \in Nat
  BY Parts DEF Fits
<1>1. x = Revised(s, s.proposals, i, g)
  BY DEF Decided
<1>2. ASSUME i \in DOMAIN s.proposals
      PROVE  /\ g \in Staged /\ g.result = s.result /\ g.prior = s.prior
             /\ Tables(g, s.tasks, e, s.events, s.relations, s.assertions)
             /\ ObjectCount(g) = ObjectCount(s)
  <2>0. s.proposals[i] \in ProposalRec
    BY <1>0, <1>2
  <2>1. r \in ProposalRec
    BY <1>0, <2>0, ProposalRevised
  <2>2. e \in Seq(ProposalRec) /\ Len(e) = Len(s.proposals)
    BY <1>0, <1>2, <2>1
  <2>3. g = [s EXCEPT !.proposals = e]
    BY <1>0 DEF Staged
  <2> HIDE DEF g, e
  <2>4. /\ g \in Staged /\ g.result = s.result /\ g.prior = s.prior
        /\ Tables(g, s.tasks, e, s.events, s.relations, s.assertions)
    BY <1>0, <2>2, <2>3, ProposalsReplaced
  <2>5. ObjectCount(g) = ObjectCount(s)
    BY <2>2, <2>4, Counted DEF Tables, Count
  <2> QED BY <2>4, <2>5
<1> HIDE DEF g
<1>3. /\ Fits(x)
      /\ x.result = "Ok" =>
           /\ s.result = "Ok" /\ i \in DOMAIN s.proposals
           /\ Tables(x, g.tasks, g.proposals, g.events, g.relations, g.assertions)
  BY <1>1, <1>2, RevisedEffect
<1> QED BY <1>2, <1>3 DEF Tables

-----------------------------------------------------------------------------
(* Events against tasks and proposals.  Within an operation one task may   *)
(* be ahead of its events (Follows names it) and the decision of a         *)
(* proposal and its event are taken together (MarksDecision).              *)

(* The latest status event of task t in E announces status. *)
Says(E, t, status) ==
    \E e \in DOMAIN E :
        /\ E[e].task = t /\ status \in Announces(E[e].kind)
        /\ \A f \in DOMAIN E : E[f].task = t /\ Announces(E[f].kind) # {} => f <= e

(* StatusFollowsEvents for the tasks T and events E, but for task k; every  *)
(* task when k is 0                                                        *)
Follows(T, E, k) == \A t \in DOMAIN T : t # k => Says(E, t, T[t].status)

Marked(E, kind, p) == {e \in DOMAIN E : E[e].kind = kind /\ E[e].proposal = p}

Approved(P) == {p \in DOMAIN P : P[p].status = "Approved"}

(* The decision events of E are those of the decided proposals of P, one   *)
(* each, and approvals name tasks of T.                                    *)
Marks(T, P, E) ==
    /\ \A p \in DOMAIN P :
          /\ P[p].status = "Approved" => \E e : Marked(E, "ProposalApproved", p) = {e}
          /\ P[p].status # "Approved" => Marked(E, "ProposalApproved", p) = {}
          /\ P[p].status = "Rejected" => \E e : Marked(E, "ProposalRejected", p) = {e}
          /\ P[p].status # "Rejected" => Marked(E, "ProposalRejected", p) = {}
    /\ \A e \in DOMAIN E :
          /\ E[e].kind \in {"ProposalApproved", "ProposalRejected"} => E[e].proposal \in DOMAIN P
          /\ E[e].kind = "ProposalApproved" => E[e].task \in DOMAIN T

(* The places of an appended sequence. *)
LEMMA Appended ==
    ASSUME NEW S, NEW E \in Seq(S), NEW r \in S
    PROVE  /\ Append(E, r) \in Seq(S) /\ Len(Append(E, r)) = Len(E) + 1
           /\ DOMAIN Append(E, r) = DOMAIN E \cup {Len(E) + 1}
           /\ Len(E) + 1 \notin DOMAIN E
           /\ Append(E, r)[Len(E) + 1] = r
           /\ \A e \in DOMAIN E : Append(E, r)[e] = E[e] /\ e <= Len(E) + 1
           /\ \A e \in DOMAIN E : ~(Len(E) + 1 <= e)
  OBVIOUS

(* A new status event is the latest of its task. *)
LEMMA SaysNew ==
    ASSUME NEW E \in Seq(EventRec), NEW r \in EventRec, NEW status \in Announces(r.kind)
    PROVE  Says(Append(E, r), r.task, status)
<1> DEFINE F == Append(E, r)
           n == Len(E) + 1
<1>1. /\ DOMAIN F = DOMAIN E \cup {n} /\ F[n] = r
      /\ \A e \in DOMAIN E : F[e] = E[e] /\ e <= n
  BY Appended
<1>2. n <= n
  OBVIOUS
<1> HIDE DEF F, n
<1> QED BY <1>1, <1>2 DEF Says, F

(* An event of another task, or one that announces no status, leaves the   *)
(* latest status event.                                                    *)
LEMMA SaysKept ==
    ASSUME NEW E \in Seq(EventRec), NEW r \in EventRec, NEW t, NEW status, Says(E, t, status),
           r.task # t \/ Announces(r.kind) = {}
    PROVE  Says(Append(E, r), t, status)
<1> DEFINE F == Append(E, r)
           n == Len(E) + 1
<1>1. /\ DOMAIN F = DOMAIN E \cup {n} /\ F[n] = r
      /\ \A e \in DOMAIN E : F[e] = E[e] /\ e <= n
  BY Appended
<1> HIDE DEF F, n
<1>2. PICK e \in DOMAIN E :
        /\ E[e].task = t /\ status \in Announces(E[e].kind)
        /\ \A f \in DOMAIN E : E[f].task = t /\ Announces(E[f].kind) # {} => f <= e
  BY DEF Says
<1>3. F[e].task = t /\ status \in Announces(F[e].kind)
  BY <1>1, <1>2
<1>4. ASSUME NEW f \in DOMAIN F, F[f].task = t, Announces(F[f].kind) # {} PROVE f <= e
  BY <1>1, <1>2, <1>4
<1> QED BY <1>1, <1>3, <1>4 DEF Says, F

(* A created task is the one task without its event yet. *)
LEMMA FollowsTask ==
    ASSUME NEW T \in Seq(TaskRec), NEW E, Follows(T, E, 0), NEW r \in TaskRec
    PROVE  Follows(Append(T, r), E, Len(T) + 1)
<1> DEFINE U == Append(T, r)
           n == Len(T) + 1
<1>1. /\ DOMAIN U = DOMAIN T \cup {n}
      /\ \A e \in DOMAIN T : U[e] = T[e]
  BY Appended
<1>2. 0 \notin DOMAIN T
  OBVIOUS
<1> HIDE DEF U, n
<1> QED BY <1>1, <1>2 DEF Follows, U, n

(* So is a task whose status was set. *)
LEMMA FollowsStatus ==
    ASSUME NEW T \in Seq(TaskRec), NEW E, Follows(T, E, 0), NEW i, NEW r
    PROVE  Follows([T EXCEPT ![i] = r], E, i)
<1>1. 0 \notin DOMAIN T
  OBVIOUS
<1> QED BY <1>1 DEF Follows

(* The event that announces its status completes it. *)
LEMMA FollowsEvent ==
    ASSUME NEW T \in Seq(TaskRec), NEW E \in Seq(EventRec), NEW k, Follows(T, E, k),
           NEW r \in EventRec, r.task = k, T[k].status \in Announces(r.kind)
    PROVE  Follows(T, Append(E, r), 0)
<1> SUFFICES ASSUME NEW t \in DOMAIN T
             PROVE  Says(Append(E, r), t, T[t].status)
  BY DEF Follows
<1>1. CASE t = k
  BY <1>1, SaysNew
<1>2. CASE t # k
  BY <1>2, SaysKept DEF Follows
<1> QED BY <1>1, <1>2

(* A status and its event together leave every other task as it was. *)
LEMMA FollowsTransition ==
    ASSUME NEW T \in Seq(TaskRec), NEW E \in Seq(EventRec), NEW k, Follows(T, E, k),
           NEW i \in DOMAIN T, NEW a \in TaskRec, NEW r \in EventRec, r.task = i,
           a.status \in Announces(r.kind)
    PROVE  Follows([T EXCEPT ![i] = a], Append(E, r), k)
<1> DEFINE U == [T EXCEPT ![i] = a]
<1>1. DOMAIN U = DOMAIN T /\ U[i] = a /\ \A t \in DOMAIN T : t # i => U[t] = T[t]
  OBVIOUS
<1> HIDE DEF U
<1> SUFFICES ASSUME NEW t \in DOMAIN U, t # k
             PROVE  Says(Append(E, r), t, U[t].status)
  BY DEF Follows, U
<1>2. CASE t = i
  BY <1>1, <1>2, SaysNew
<1>3. CASE t # i
  BY <1>1, <1>3, SaysKept DEF Follows
<1> QED BY <1>2, <1>3

(* An event that announces nothing changes nothing here. *)
LEMMA FollowsQuiet ==
    ASSUME NEW T \in Seq(TaskRec), NEW E \in Seq(EventRec), NEW k, Follows(T, E, k),
           NEW r \in EventRec, Announces(r.kind) = {}
    PROVE  Follows(T, Append(E, r), k)
<1> SUFFICES ASSUME NEW t \in DOMAIN T, t # k
             PROVE  Says(Append(E, r), t, T[t].status)
  BY DEF Follows
<1> QED BY SaysKept DEF Follows

(* What each kind of event announces. *)
LEMMA Announced ==
    ASSUME NEW kind
    PROVE  /\ kind \in {"Created", "Revived", "ProposalApproved"} => Announces(kind) = {"Active"}
           /\ kind = "Suspended" => Announces(kind) = {"Suspended"}
           /\ kind = "Completed" => Announces(kind) = {"Completed"}
           /\ kind = "Abandoned" => Announces(kind) = {"Abandoned"}
           /\ kind \in {"ProposalCreated", "ProposalRejected", "Appended"} => Announces(kind) = {}
  BY DEF Announces

(* The events of a kind for a proposal, after an append. *)
LEMMA MarkedAppend ==
    ASSUME NEW E \in Seq(EventRec), NEW r \in EventRec, NEW kind, NEW p
    PROVE  Marked(Append(E, r), kind, p)
             = IF r.kind = kind /\ r.proposal = p THEN Marked(E, kind, p) \cup {Len(E) + 1}
               ELSE Marked(E, kind, p)
<1> DEFINE F == Append(E, r)
           n == Len(E) + 1
<1>1. /\ DOMAIN F = DOMAIN E \cup {n} /\ F[n] = r /\ n \notin DOMAIN E
      /\ \A e \in DOMAIN E : F[e] = E[e]
  BY Appended
<1> HIDE DEF F, n
<1> QED BY <1>1 DEF Marked, F, n

(* Tasks never go, so approvals go on naming tasks that exist. *)
LEMMA MarksTask ==
    ASSUME NEW T, NEW P, NEW E, Marks(T, P, E), NEW U, DOMAIN T \subseteq DOMAIN U
    PROVE  Marks(U, P, E)
  BY DEF Marks

(* An event that decides nothing leaves the marks. *)
LEMMA MarksEvent ==
    ASSUME NEW T, NEW P, NEW E \in Seq(EventRec), Marks(T, P, E), NEW r \in EventRec,
           r.kind \notin {"ProposalApproved", "ProposalRejected"}
    PROVE  Marks(T, P, Append(E, r))
<1> DEFINE F == Append(E, r)
           n == Len(E) + 1
<1>1. /\ DOMAIN F = DOMAIN E \cup {n} /\ F[n] = r /\ n \notin DOMAIN E
      /\ \A e \in DOMAIN E : F[e] = E[e]
  BY Appended
<1>2. \A p : /\ Marked(F, "ProposalApproved", p) = Marked(E, "ProposalApproved", p)
             /\ Marked(F, "ProposalRejected", p) = Marked(E, "ProposalRejected", p)
  BY MarkedAppend
<1> HIDE DEF F, n
<1> QED BY <1>1, <1>2 DEF Marks, F

(* A new proposal is pending and no event has named it yet. *)
LEMMA MarksProposal ==
    ASSUME NEW T, NEW P \in Seq(ProposalRec), NEW E, Marks(T, P, E),
           NEW r \in ProposalRec, r.status = "Pending"
    PROVE  /\ Marks(T, Append(P, r), E)
           /\ Approved(Append(P, r)) = Approved(P)
<1> DEFINE Q == Append(P, r)
           n == Len(P) + 1
<1>1. /\ DOMAIN Q = DOMAIN P \cup {n} /\ Q[n] = r /\ n \notin DOMAIN P
      /\ \A e \in DOMAIN P : Q[e] = P[e]
  BY Appended
<1> HIDE DEF Q, n
<1>2. Marked(E, "ProposalApproved", n) = {} /\ Marked(E, "ProposalRejected", n) = {}
  BY <1>1 DEF Marks, Marked
<1>3. Marks(T, Q, E)
  BY <1>1, <1>2 DEF Marks
<1>4. Approved(Q) = Approved(P)
  BY <1>1 DEF Approved
<1> QED BY <1>3, <1>4 DEF Q

(* A decision with its event marks that proposal and no other. *)
LEMMA MarksDecision ==
    ASSUME NEW T, NEW P \in Seq(ProposalRec), NEW E \in Seq(EventRec), Marks(T, P, E),
           NEW p \in DOMAIN P, P[p].status = "Pending",
           NEW Q, DOMAIN Q = DOMAIN P, \A q \in DOMAIN P \ {p} : Q[q] = P[q],
           NEW r \in EventRec, r.proposal = p,
           \/ /\ Q[p].status = "Approved" /\ r.kind = "ProposalApproved" /\ r.task \in DOMAIN T
           \/ Q[p].status = "Rejected" /\ r.kind = "ProposalRejected"
    PROVE  Marks(T, Q, Append(E, r))
<1> DEFINE F == Append(E, r)
           n == Len(E) + 1
<1>1. /\ DOMAIN F = DOMAIN E \cup {n} /\ F[n] = r /\ n \notin DOMAIN E
      /\ \A e \in DOMAIN E : F[e] = E[e]
  BY Appended
<1>2. \A q \in DOMAIN P \ {p} :
         /\ Marked(F, "ProposalApproved", q) = Marked(E, "ProposalApproved", q)
         /\ Marked(F, "ProposalRejected", q) = Marked(E, "ProposalRejected", q)
  BY MarkedAppend
<1>3. /\ Marked(E, "ProposalApproved", p) = {}
      /\ Marked(E, "ProposalRejected", p) = {}
  BY DEF Marks
<1>4. /\ r.kind = "ProposalApproved" =>
            /\ Marked(F, "ProposalApproved", p) = {n}
            /\ Marked(F, "ProposalRejected", p) = {}
      /\ r.kind = "ProposalRejected" =>
            /\ Marked(F, "ProposalRejected", p) = {n}
            /\ Marked(F, "ProposalApproved", p) = {}
  BY <1>3, MarkedAppend
<1> HIDE DEF F, n
<1>5. ASSUME NEW q \in DOMAIN Q
      PROVE  /\ Q[q].status = "Approved" => \E e : Marked(F, "ProposalApproved", q) = {e}
             /\ Q[q].status # "Approved" => Marked(F, "ProposalApproved", q) = {}
             /\ Q[q].status = "Rejected" => \E e : Marked(F, "ProposalRejected", q) = {e}
             /\ Q[q].status # "Rejected" => Marked(F, "ProposalRejected", q) = {}
  <2>1. CASE q = p
    <3>1. CASE Q[p].status = "Approved" /\ r.kind = "ProposalApproved"
      BY <2>1, <3>1, <1>4
    <3>2. CASE Q[p].status = "Rejected" /\ r.kind = "ProposalRejected"
      BY <2>1, <3>2, <1>4
    <3> QED BY <3>1, <3>2
  <2>2. CASE q # p
    <3>1. /\ q \in DOMAIN P /\ Q[q] = P[q]
          /\ Marked(F, "ProposalApproved", q) = Marked(E, "ProposalApproved", q)
          /\ Marked(F, "ProposalRejected", q) = Marked(E, "ProposalRejected", q)
      BY <2>2, <1>2
    <3>2. /\ P[q].status = "Approved" => \E e : Marked(E, "ProposalApproved", q) = {e}
          /\ P[q].status # "Approved" => Marked(E, "ProposalApproved", q) = {}
          /\ P[q].status = "Rejected" => \E e : Marked(E, "ProposalRejected", q) = {e}
          /\ P[q].status # "Rejected" => Marked(E, "ProposalRejected", q) = {}
      BY <3>1 DEF Marks
    <3> QED BY <3>1, <3>2
  <2> QED BY <2>1, <2>2
<1>6. ASSUME NEW e \in DOMAIN F
      PROVE  /\ F[e].kind \in {"ProposalApproved", "ProposalRejected"} => F[e].proposal \in DOMAIN Q
             /\ F[e].kind = "ProposalApproved" => F[e].task \in DOMAIN T
  BY <1>1 DEF Marks
<1> QED BY <1>5, <1>6 DEF Marks, F

(* An approval is one more approved proposal, a rejection none. *)
LEMMA ApprovedGrows ==
    ASSUME NEW P \in Seq(ProposalRec), NEW p \in DOMAIN P, P[p].status = "Pending",
           NEW Q, DOMAIN Q = DOMAIN P, \A q \in DOMAIN P \ {p} : Q[q] = P[q]
    PROVE  /\ IsFiniteSet(Approved(P)) /\ Cardinality(Approved(P)) \in Nat
           /\ Q[p].status = "Approved" => Cardinality(Approved(Q)) = Cardinality(Approved(P)) + 1
           /\ Q[p].status = "Rejected" => Approved(Q) = Approved(P)
<1>1. IsFiniteSet(DOMAIN P) /\ Approved(P) \subseteq DOMAIN P
  <2>1. DOMAIN P = 1 .. Len(P) /\ Len(P) \in Nat
    OBVIOUS
  <2>2. 1 \in Int /\ Len(P) \in Int
    BY <2>1
  <2>3. IsFiniteSet(1 .. Len(P))
    BY <2>2, FS_Interval
  <2>4. Approved(P) \subseteq DOMAIN P
    BY DEF Approved
  <2> QED BY <2>1, <2>3, <2>4
<1>2. IsFiniteSet(Approved(P)) /\ Cardinality(Approved(P)) \in Nat
  BY <1>1, FS_Subset, FS_CardinalityType
<1>3. p \notin Approved(P)
  BY DEF Approved
<1>4. Q[p].status = "Approved" => Approved(Q) = Approved(P) \cup {p}
  BY DEF Approved
<1>5. Q[p].status = "Rejected" => Approved(Q) = Approved(P)
  BY DEF Approved
<1> QED BY <1>2, <1>3, <1>4, <1>5, FS_AddElement

-----------------------------------------------------------------------------
(* The steps and then the operations, on staged copies *)

Steady(s, k) == Follows(s.tasks, s.events, k) /\ Marks(s.tasks, s.proposals, s.events)

(* A step of a staged copy went well: what it may not touch *)
SameDecisions(s, x) == x.proposals = s.proposals /\ x.relations = s.relations

(* The tables of a copy that fits. *)
LEMMA Typed ==
    ASSUME NEW s, Fits(s)
    PROVE  /\ s \in Staged /\ s.result \in {"Ok", "Err"}
           /\ s.tasks \in Seq(TaskRec) /\ s.proposals \in Seq(ProposalRec)
           /\ s.events \in Seq(EventRec) /\ s.relations \in Seq(RelationRec)
           /\ s.ticks \in Nat
           /\ Len(s.tasks) \in Nat /\ DOMAIN s.tasks = 1 .. Len(s.tasks)
           /\ Len(s.proposals) \in Nat /\ DOMAIN s.proposals = 1 .. Len(s.proposals)
  BY Parts DEF Fits

(* set_task_status_on, on a copy that follows its events. *)
LEMMA StepStatus ==
    ASSUME TaskServiceAssumption, NEW s, Fits(s), Steady(s, 0),
           NEW i, NEW status \in Statuses,
           NEW x, x = set_task_status_on(s, i, status), x.result = "Ok"
    PROVE  /\ Fits(x) /\ Steady(x, i) /\ SameDecisions(s, x)
           /\ i \in DOMAIN s.tasks /\ DOMAIN x.tasks = DOMAIN s.tasks
           /\ x.tasks[i].status = status
           /\ \A u \in DOMAIN s.tasks \ {i} : x.tasks[u] = s.tasks[u]
<1> DEFINE T == [s.tasks EXCEPT ![i] = [status |-> status, ticks |-> s.ticks]]
<1>1. /\ Fits(x) /\ i \in DOMAIN s.tasks
      /\ Tables(x, T, s.proposals, s.events, s.relations, s.assertions)
  BY StatusSet
<1>2. s.tasks \in Seq(TaskRec) /\ Follows(s.tasks, s.events, 0)
      /\ Marks(s.tasks, s.proposals, s.events)
  BY Typed DEF Steady
<1>3. DOMAIN T = DOMAIN s.tasks /\ \A u \in DOMAIN s.tasks \ {i} : T[u] = s.tasks[u]
  BY <1>2
<1>4. T[i].status = status
  BY <1>1, <1>2
<1>5. Follows(T, s.events, i)
  BY <1>2, FollowsStatus
<1> HIDE DEF T
<1>6. Marks(T, s.proposals, s.events)
  BY <1>2, <1>3, MarksTask
<1> QED BY <1>1, <1>3, <1>4, <1>5, <1>6 DEF Steady, Tables, SameDecisions

(* A task create, on such a copy. *)
LEMMA StepTask ==
    ASSUME TaskServiceAssumption, NEW s, Fits(s), Steady(s, 0),
           NEW x, x = WithTask(s), x.result = "Ok"
    PROVE  /\ Fits(x) /\ Steady(x, Len(s.tasks) + 1) /\ SameDecisions(s, x)
           /\ Len(x.tasks) = Len(s.tasks) + 1
           /\ DOMAIN x.tasks = DOMAIN s.tasks \cup {Len(s.tasks) + 1}
           /\ x.tasks[Len(s.tasks) + 1].status = "Active"
<1> DEFINE r == [status |-> "Active", ticks |-> s.ticks]
           T == Append(s.tasks, r)
<1>1. /\ Fits(x)
      /\ Tables(x, T, s.proposals, s.events, s.relations, s.assertions)
  BY TaskCreated
<1>2. s.tasks \in Seq(TaskRec) /\ s.events \in Seq(EventRec) /\ s.ticks \in Nat
      /\ Follows(s.tasks, s.events, 0) /\ Marks(s.tasks, s.proposals, s.events)
  BY Typed DEF Steady
<1>3. r \in TaskRec /\ r.status = "Active"
  BY <1>2 DEF TaskRec, Statuses
<1> HIDE DEF r
<1>4. /\ DOMAIN T = DOMAIN s.tasks \cup {Len(s.tasks) + 1} /\ T[Len(s.tasks) + 1] = r
      /\ Len(T) = Len(s.tasks) + 1
  BY <1>2, <1>3, Appended
<1>5. Follows(T, s.events, Len(s.tasks) + 1)
  BY <1>2, <1>3, FollowsTask
<1> HIDE DEF T
<1>6. Marks(T, s.proposals, s.events)
  BY <1>2, <1>4, MarksTask
<1> QED BY <1>1, <1>3, <1>4, <1>5, <1>6 DEF Steady, Tables, SameDecisions

(* The event of the one task that is without it. *)
LEMMA StepEvent ==
    ASSUME TaskServiceAssumption, NEW s, Fits(s),
           NEW kind \in EventKinds \ {"ProposalApproved", "ProposalRejected"},
           NEW t \in Nat, NEW p \in Nat, Steady(s, t),
           s.tasks[t].status \in Announces(kind),
           NEW x, x = append_event_on(s, kind, t, p), x.result = "Ok"
    PROVE  /\ Fits(x) /\ Steady(x, 0) /\ SameDecisions(s, x)
           /\ x.tasks = s.tasks
<1> DEFINE r == [kind |-> kind, task |-> t, proposal |-> p]
           E == Append(s.events, r)
<1>1. /\ Fits(x)
      /\ Tables(x, s.tasks, s.proposals, E, s.relations, s.assertions)
  BY EventAppended
<1>2. s.tasks \in Seq(TaskRec) /\ s.events \in Seq(EventRec)
      /\ Follows(s.tasks, s.events, t) /\ Marks(s.tasks, s.proposals, s.events)
  BY Typed DEF Steady
<1>3. r \in EventRec /\ r.kind = kind /\ r.task = t
  BY DEF EventRec
<1>4. s.tasks[t].status \in Announces(r.kind)
  BY <1>3
<1> HIDE DEF r
<1>5. Follows(s.tasks, E, 0)
  BY <1>2, <1>3, <1>4, FollowsEvent
<1>6. Marks(s.tasks, s.proposals, E)
  BY <1>2, <1>3, MarksEvent
<1> QED BY <1>1, <1>5, <1>6 DEF Steady, Tables, SameDecisions

(* An event that announces nothing. *)
LEMMA StepQuiet ==
    ASSUME TaskServiceAssumption, NEW s, Fits(s), NEW k, Steady(s, k),
           NEW kind \in {"ProposalCreated", "Appended"}, NEW t \in Nat, NEW p \in Nat,
           NEW x, x = append_event_on(s, kind, t, p), x.result = "Ok"
    PROVE  /\ Fits(x) /\ Steady(x, k) /\ SameDecisions(s, x)
           /\ x.tasks = s.tasks
<1> DEFINE r == [kind |-> kind, task |-> t, proposal |-> p]
           E == Append(s.events, r)
<1>0. kind \in EventKinds
  BY DEF EventKinds
<1>1. /\ Fits(x)
      /\ Tables(x, s.tasks, s.proposals, E, s.relations, s.assertions)
  BY <1>0, EventAppended
<1>2. s.tasks \in Seq(TaskRec) /\ s.events \in Seq(EventRec)
      /\ Follows(s.tasks, s.events, k) /\ Marks(s.tasks, s.proposals, s.events)
  BY Typed DEF Steady
<1>3. r \in EventRec /\ r.kind = kind
  BY <1>0 DEF EventRec
<1>4. Announces(r.kind) = {}
  BY <1>3, Announced
<1> HIDE DEF r
<1>5. Follows(s.tasks, E, k)
  BY <1>2, <1>3, <1>4, FollowsQuiet
<1>6. Marks(s.tasks, s.proposals, E)
  BY <1>2, <1>3, MarksEvent
<1> QED BY <1>1, <1>5, <1>6 DEF Steady, Tables, SameDecisions

(* The decision of a proposal with its event, last in approve_proposal and *)
(* reject_proposal.                                                        *)
LEMMA StepDecision ==
    ASSUME TaskServiceAssumption, NEW s, Fits(s), NEW k, Steady(s, k),
           NEW p, p \in DOMAIN s.proposals => s.proposals[p].status = "Pending",
           NEW status, NEW kind, NEW t \in Nat,
           \/ /\ status = "Approved" /\ kind = "ProposalApproved" /\ k = t
              /\ t \in DOMAIN s.tasks /\ s.tasks[t].status = "Active"
           \/ status = "Rejected" /\ kind = "ProposalRejected" /\ k = 0,
           p \in Nat,
           NEW x, x = append_event_on(Decided(s, p, status), kind, t, p), x.result = "Ok"
    PROVE  /\ Fits(x) /\ s.result = "Ok"
           /\ Steady(x, 0)
           /\ x.tasks = s.tasks /\ x.relations = s.relations
           /\ p \in DOMAIN s.proposals /\ DOMAIN x.proposals = DOMAIN s.proposals
           /\ \A q \in DOMAIN s.proposals \ {p} : x.proposals[q] = s.proposals[q]
           /\ x.proposals[p].status = status
<1> DEFINE y == Decided(s, p, status)
           P == [s.proposals EXCEPT ![p] = [@ EXCEPT !.status = status, !.ticks = s.ticks]]
           r == [kind |-> kind, task |-> t, proposal |-> p]
           E == Append(s.events, r)
<1>0. status \in ProposalStatuses /\ kind \in EventKinds
  BY DEF ProposalStatuses, EventKinds
<1>1. /\ Fits(y)
      /\ y.result = "Ok" =>
           /\ s.result = "Ok" /\ p \in DOMAIN s.proposals
           /\ Tables(y, s.tasks, P, s.events, s.relations, s.assertions)
  BY <1>0, ProposalDecided
<1> HIDE DEF y
<1>2. /\ Fits(x) /\ y.result = "Ok"
      /\ Tables(x, y.tasks, y.proposals, Append(y.events, r), y.relations, y.assertions)
  BY <1>0, <1>1, EventAppended DEF y
<1>3. /\ s.result = "Ok" /\ p \in DOMAIN s.proposals
      /\ Tables(x, s.tasks, P, E, s.relations, s.assertions)
  BY <1>1, <1>2 DEF Tables
<1>4. /\ s.tasks \in Seq(TaskRec) /\ s.events \in Seq(EventRec)
      /\ s.proposals \in Seq(ProposalRec) /\ s.ticks \in Nat
      /\ Follows(s.tasks, s.events, k) /\ Marks(s.tasks, s.proposals, s.events)
  BY Typed DEF Steady
<1>5. r \in EventRec /\ r.kind = kind /\ r.task = t /\ r.proposal = p
  BY <1>0 DEF EventRec
<1>6. /\ DOMAIN P = DOMAIN s.proposals
      /\ \A q \in DOMAIN s.proposals \ {p} : P[q] = s.proposals[q]
  BY <1>4
<1>7. P[p].status = status
  <2>1. s.proposals[p] \in ProposalRec
    BY <1>3, <1>4
  <2>2. P[p] = [s.proposals[p] EXCEPT !.status = status, !.ticks = s.ticks]
    BY <1>3, <1>4
  <2> HIDE DEF P
  <2> QED BY <2>1, <2>2 DEF ProposalRec
<1> HIDE DEF P, r
<1>8. Marks(s.tasks, P, E)
  BY <1>3, <1>4, <1>5, <1>6, <1>7, MarksDecision
<1>9. Follows(s.tasks, E, 0)
  <2>1. CASE status = "Approved"
    <3>1. Announces(r.kind) = {"Active"} /\ s.tasks[t].status = "Active"
      BY <2>1, <1>5, Announced
    <3> QED BY <2>1, <3>1, <1>4, <1>5, FollowsEvent
  <2>2. CASE status = "Rejected"
    <3>1. Announces(r.kind) = {}
      BY <2>2, <1>5, Announced
    <3> QED BY <2>2, <3>1, <1>4, <1>5, FollowsQuiet
  <2> QED BY <2>1, <2>2
<1> QED BY <1>2, <1>3, <1>6, <1>7, <1>8, <1>9 DEF Steady, Tables

(* The relation of an approval. *)
LEMMA StepRelated ==
    ASSUME TaskServiceAssumption, NEW s, Fits(s), NEW k, Steady(s, k),
           NEW t \in Nat, NEW q \in ProposalRec,
           NEW x, x = Related(s, t, q), x.result = "Ok"
    PROVE  /\ Fits(x) /\ Steady(x, k) /\ x.tasks = s.tasks /\ x.proposals = s.proposals
           /\ Len(x.relations) = Len(s.relations) + 1
<1> DEFINE r == [source |-> t, target |-> q.target, kind |-> q.kind]
<1>1. /\ Fits(x)
      /\ Tables(x, s.tasks, s.proposals, s.events, Append(s.relations, r), s.assertions)
  BY RelationCreated
<1>2. s.relations \in Seq(RelationRec)
  BY Typed
<1>3. r \in RelationRec
  BY DEF RelationRec, ProposalRec
<1> HIDE DEF r
<1>4. Len(Append(s.relations, r)) = Len(s.relations) + 1
  BY <1>2, <1>3
<1> QED BY <1>1, <1>4 DEF Steady, Tables

(* What holds of the task objects between two calls *)
Sound(s) ==
    /\ Fits(s) /\ s.result = "Ok" /\ Steady(s, 0)
    /\ Len(s.relations) = Cardinality(Approved(s.proposals))

(* No proposal goes and no decision changes. *)
KeepsDecisions(P, Q) ==
    \A p \in DOMAIN P : p \in DOMAIN Q /\ (P[p].status # "Pending" => Q[p].status = P[p].status)

(* Of the tasks of s only t may have changed in x. *)
OnlyTask(s, x, t) ==
    /\ t \in DOMAIN s.tasks /\ DOMAIN x.tasks = DOMAIN s.tasks
    /\ \A u \in DOMAIN s.tasks \ {t} : x.tasks[u] = s.tasks[u]

(* After an error no event is appended. *)
LEMMA FailureStays ==
    ASSUME NEW s, Fits(s), s.result = "Err", NEW kind, NEW t, NEW p,
           NEW x, x = append_event_on(s, kind, t, p)
    PROVE  Fits(x) /\ x.result = "Err"
<1>1. x = Failed(s)
  BY DEF append_event_on, Created
<1> QED BY <1>1, FailedFits

(* An event that was appended followed no error. *)
LEMMA Backwards ==
    ASSUME TaskServiceAssumption, NEW s, Fits(s),
           NEW kind \in EventKinds, NEW t \in Nat, NEW p \in Nat,
           NEW x, x = append_event_on(s, kind, t, p), x.result = "Ok"
    PROVE  s.result = "Ok"
  BY EventAppended

(* set_task_status_on, then the event that announces the status. *)
LEMMA StepTransition ==
    ASSUME TaskServiceAssumption, NEW s, Fits(s), NEW k, s.result = "Ok" => Steady(s, k),
           NEW t, NEW p \in Nat, NEW status \in Statuses,
           NEW kind \in EventKinds, kind # "ProposalApproved", kind # "ProposalRejected",
           status \in Announces(kind),
           NEW x, x = append_event_on(set_task_status_on(s, t, status), kind, t, p)
    PROVE  /\ Fits(x)
           /\ x.result = "Ok" =>
                /\ s.result = "Ok" /\ Steady(x, k) /\ SameDecisions(s, x)
                /\ OnlyTask(s, x, t)
<1> DEFINE y == set_task_status_on(s, t, status)
           a == [status |-> status, ticks |-> s.ticks]
           T == [s.tasks EXCEPT ![t] = a]
           r == [kind |-> kind, task |-> t, proposal |-> p]
<1>1. /\ Fits(y) /\ y.result \in {"Ok", "Err"}
      /\ y.result = "Ok" =>
           /\ s.result = "Ok" /\ t \in DOMAIN s.tasks
           /\ Tables(y, T, s.proposals, s.events, s.relations, s.assertions)
  BY StatusSet, Typed
<1> HIDE DEF y
<1>2. CASE y.result = "Err"
  <2>1. Fits(x) /\ x.result = "Err"
    BY <1>1, <1>2, FailureStays DEF y
  <2> QED BY <2>1
<1>3. CASE y.result = "Ok"
  <2>1. /\ t \in Nat /\ t \in DOMAIN s.tasks /\ s.ticks \in Nat
        /\ s.tasks \in Seq(TaskRec) /\ s.events \in Seq(EventRec)
    BY <1>1, <1>3, Typed
  <2>2. Follows(s.tasks, s.events, k) /\ Marks(s.tasks, s.proposals, s.events)
    BY <1>1, <1>3 DEF Steady
  <2>3. /\ Fits(x)
        /\ x.result = "Ok" =>
             Tables(x, y.tasks, y.proposals, Append(y.events, r), y.relations, y.assertions)
    BY <1>1, <2>1, EventAppended DEF y
  <2>4. x.result = "Ok" => Tables(x, T, s.proposals, Append(s.events, r), s.relations, s.assertions)
    BY <1>1, <1>3, <2>3 DEF Tables
  <2>5. r \in EventRec /\ r.kind = kind /\ r.task = t /\ a \in TaskRec /\ a.status = status
    BY <2>1 DEF EventRec, TaskRec
  <2> HIDE DEF a, r
  <2>6. DOMAIN T = DOMAIN s.tasks /\ \A u \in DOMAIN s.tasks \ {t} : T[u] = s.tasks[u]
    BY <2>1
  <2>7. Follows(T, Append(s.events, r), k)
    BY <2>1, <2>2, <2>5, FollowsTransition
  <2> HIDE DEF T
  <2>8. Marks(T, s.proposals, s.events)
    BY <2>2, <2>6, MarksTask
  <2>9. Marks(T, s.proposals, Append(s.events, r))
    BY <2>1, <2>5, <2>8, MarksEvent
  <2> QED BY <1>1, <1>3, <2>3, <2>4, <2>6, <2>7, <2>9 DEF Steady, Tables, SameDecisions, OnlyTask
<1> QED BY <1>1, <1>2, <1>3

(* The suspension of the task that gives way. *)
LEMMA StepSuspended ==
    ASSUME TaskServiceAssumption, NEW s, Fits(s), NEW k, s.result = "Ok" => Steady(s, k),
           NEW t, NEW p \in Nat, NEW x, x = Suspended(s, t, p)
    PROVE  /\ Fits(x)
           /\ x.result = "Ok" =>
                /\ s.result = "Ok" /\ Steady(x, k) /\ SameDecisions(s, x)
                /\ OnlyTask(s, x, t)
<1>1. x = append_event_on(set_task_status_on(s, t, "Suspended"), "Suspended", t, p)
  BY DEF Suspended
<1>2. "Suspended" \in Statuses /\ "Suspended" \in EventKinds
  BY DEF Statuses, EventKinds
<1>3. "Suspended" \in Announces("Suspended")
  BY Announced
<1> QED BY <1>1, <1>2, <1>3, StepTransition

(* suspend_task, revive_task, complete_task and abandon_task. *)
LEMMA TransitionSound ==
    ASSUME TaskServiceAssumption, NEW s, Sound(s), NEW t, NEW status \in Statuses,
           NEW x, x = transition_task_staged(s, t, status), x.result = "Ok"
    PROVE  Sound(x) /\ KeepsDecisions(s.proposals, x.proposals)
<1> DEFINE kind == EventOf(status)
<1>1. x = append_event_on(set_task_status_on(s, t, status), kind, t, 0)
  BY DEF transition_task_staged
<1>2. kind \in EventKinds /\ kind # "ProposalApproved" /\ kind # "ProposalRejected"
  BY DEF EventOf, EventKinds, Statuses
<1>3. status \in Announces(kind)
  BY Announced DEF EventOf, Statuses
<1> HIDE DEF kind
<1>4. Fits(x) /\ Steady(x, 0) /\ SameDecisions(s, x)
  BY <1>1, <1>2, <1>3, StepTransition DEF Sound
<1> QED BY <1>4 DEF Sound, KeepsDecisions, SameDecisions

(* create_task. *)
LEMMA TaskSound ==
    ASSUME TaskServiceAssumption, NEW s, Sound(s),
           NEW x, x = create_task_staged(s), x.result = "Ok"
    PROVE  Sound(x) /\ KeepsDecisions(s.proposals, x.proposals)
<1> DEFINE active == active_task_id_in(s)
           cleared == IF active = 0 THEN s ELSE Suspended(s, active, 0)
           made == WithTask(cleared)
<1>1. x = append_event_on(made, "Created", Len(made.tasks), 0)
  BY DEF create_task_staged
<1> HIDE DEF active
<1>2. /\ Fits(cleared)
      /\ cleared.result = "Ok" => Steady(cleared, 0) /\ SameDecisions(s, cleared)
  <2>1. CASE active = 0
    BY <2>1 DEF Sound, SameDecisions
  <2>2. CASE active # 0
    <3>1. cleared = Suspended(s, active, 0)
      BY <2>2
    <3> HIDE DEF cleared
    <3> QED BY <3>1, StepSuspended DEF Sound
  <2> QED BY <2>1, <2>2
<1> HIDE DEF cleared
<1>3. Fits(made) /\ (made.result = "Ok" => cleared.result = "Ok")
  BY <1>2, TaskCreated
<1> HIDE DEF made
<1>4. "Created" \in EventKinds \ {"ProposalApproved", "ProposalRejected"} /\ Len(made.tasks) \in Nat
  BY <1>3, Typed DEF EventKinds
<1>5. made.result = "Ok" /\ cleared.result = "Ok"
  BY <1>1, <1>3, <1>4, Backwards
<1> DEFINE n == Len(cleared.tasks) + 1
<1>6. /\ Steady(made, n) /\ SameDecisions(cleared, made)
      /\ Len(made.tasks) = n /\ made.tasks[n].status = "Active"
  BY <1>2, <1>5, StepTask DEF made
<1> HIDE DEF n
<1>7. "Active" \in Announces("Created")
  BY Announced
<1>8. Fits(x) /\ Steady(x, 0) /\ SameDecisions(made, x)
  BY <1>1, <1>3, <1>4, <1>6, <1>7, StepEvent
<1> QED BY <1>2, <1>5, <1>6, <1>8 DEF Sound, KeepsDecisions, SameDecisions

(* create_proposal. *)
LEMMA ProposalSound ==
    ASSUME TaskServiceAssumption, NEW s, Sound(s), NEW kind \in ProposalKinds,
           NEW target \in Nat, NEW candidate \in Nat,
           NEW x, x = create_proposal_staged(s, kind, target, candidate), x.result = "Ok"
    PROVE  Sound(x) /\ KeepsDecisions(s.proposals, x.proposals)
<1> DEFINE r == [status |-> "Pending", kind |-> kind, target |-> target,
                 candidate |-> candidate, ticks |-> s.ticks]
           made == WithProposal(s, r)
<1>0. Fits(s) /\ s.tasks \in Seq(TaskRec) /\ s.proposals \in Seq(ProposalRec) /\ s.ticks \in Nat
      /\ s.events \in Seq(EventRec)
  BY Typed DEF Sound
<1>1. x = append_event_on(made, "ProposalCreated", target, Len(made.proposals))
  BY DEF create_proposal_staged
<1>2. r \in ProposalRec /\ r.status = "Pending"
  BY <1>0 DEF ProposalRec, ProposalStatuses
<1> HIDE DEF r
<1>3. /\ Fits(made)
      /\ made.result = "Ok" =>
           Tables(made, s.tasks, Append(s.proposals, r), s.events, s.relations, s.assertions)
  BY <1>0, <1>2, ProposalCreated
<1> HIDE DEF made
<1>4. "ProposalCreated" \in EventKinds /\ Len(made.proposals) \in Nat
  BY <1>3, Typed DEF EventKinds
<1>5. made.result = "Ok"
  BY <1>1, <1>3, <1>4, Backwards
<1>6. /\ Marks(s.tasks, Append(s.proposals, r), s.events)
      /\ Approved(Append(s.proposals, r)) = Approved(s.proposals)
  BY <1>0, <1>2, MarksProposal DEF Sound, Steady
<1>7. Steady(made, 0)
  BY <1>3, <1>5, <1>6 DEF Steady, Tables, Sound
<1>8. Fits(x) /\ Steady(x, 0) /\ SameDecisions(made, x)
  BY <1>1, <1>3, <1>4, <1>7, StepQuiet
<1>9. KeepsDecisions(s.proposals, Append(s.proposals, r))
  <2>1. /\ DOMAIN s.proposals \subseteq DOMAIN Append(s.proposals, r)
        /\ \A p \in DOMAIN s.proposals : Append(s.proposals, r)[p] = s.proposals[p]
    BY <1>0, <1>2, Appended
  <2> QED BY <2>1 DEF KeepsDecisions
<1> QED BY <1>3, <1>5, <1>6, <1>8, <1>9 DEF Sound, Tables, SameDecisions

(* append_task_event. *)
LEMMA EventSound ==
    ASSUME TaskServiceAssumption, NEW s, Sound(s), NEW t \in Nat,
           NEW x, x = append_event_on(s, "Appended", t, 0), x.result = "Ok"
    PROVE  Sound(x) /\ KeepsDecisions(s.proposals, x.proposals)
<1>1. Fits(x) /\ Steady(x, 0) /\ SameDecisions(s, x)
  BY StepQuiet DEF Sound
<1> QED BY <1>1 DEF Sound, KeepsDecisions, SameDecisions

(* The assertion of read_context_summary. *)
LEMMA AssertionSound ==
    ASSUME TaskServiceAssumption, NEW s, Sound(s), NEW x, x = Asserted(s), x.result = "Ok"
    PROVE  Sound(x) /\ KeepsDecisions(s.proposals, x.proposals)
<1>1. Fits(x) /\ Tables(x, s.tasks, s.proposals, s.events, s.relations, s.assertions + 1)
  BY AssertionCreated DEF Sound
<1> QED BY <1>1 DEF Sound, Steady, KeepsDecisions, Tables

(* The proposals after a decision of p *)
DecidedAs(P, Q, p, status) ==
    /\ p \in DOMAIN P /\ DOMAIN Q = DOMAIN P /\ P[p].status = "Pending"
    /\ \A q \in DOMAIN P \ {p} : Q[q] = P[q]
    /\ Q[p].status = status

(* A decision changes no other decision. *)
LEMMA DecidedKeeps ==
    ASSUME NEW P, NEW Q, NEW p, NEW status, DecidedAs(P, Q, p, status)
    PROVE  KeepsDecisions(P, Q)
  BY DEF KeepsDecisions, DecidedAs

(* reject_proposal. *)
LEMMA RejectSound ==
    ASSUME TaskServiceAssumption, NEW s, Sound(s), NEW p \in DOMAIN s.proposals,
           s.proposals[p].status = "Pending",
           NEW x, x = reject_proposal_staged(s, p), x.result = "Ok"
    PROVE  Sound(x) /\ DecidedAs(s.proposals, x.proposals, p, "Rejected")
<1> DEFINE t == s.proposals[p].target
<1>0. Fits(s) /\ s.proposals \in Seq(ProposalRec) /\ p \in Nat
  BY Typed DEF Sound
<1>1. t \in Nat
  <2>1. s.proposals[p] \in ProposalRec
    BY <1>0
  <2> QED BY <2>1 DEF ProposalRec
<1>2. x = append_event_on(Decided(s, p, "Rejected"), "ProposalRejected", t, p)
  BY DEF reject_proposal_staged
<1> HIDE DEF t
<1>3. /\ Fits(x) /\ Steady(x, 0)
      /\ x.tasks = s.tasks /\ x.relations = s.relations
      /\ DOMAIN x.proposals = DOMAIN s.proposals
      /\ \A q \in DOMAIN s.proposals \ {p} : x.proposals[q] = s.proposals[q]
      /\ x.proposals[p].status = "Rejected"
  <2>1. Steady(s, 0)
    BY DEF Sound
  <2> QED BY <1>0, <1>1, <1>2, <2>1, StepDecision
<1>4. Approved(x.proposals) = Approved(s.proposals)
  BY <1>0, <1>3, ApprovedGrows
<1> QED BY <1>3, <1>4 DEF Sound, DecidedAs

(* approve_proposal, for a new task and for a continuation, with and       *)
(* without a suspension.                                                   *)
LEMMA ApproveSound ==
    ASSUME TaskServiceAssumption, NEW s, Sound(s), NEW p \in DOMAIN s.proposals,
           s.proposals[p].status = "Pending", NEW suspend,
           NEW x, x = approve_proposal_staged(s, p, suspend), x.result = "Ok"
    PROVE  Sound(x) /\ DecidedAs(s.proposals, x.proposals, p, "Approved")
<1> DEFINE proposal == s.proposals[p]
           task == ApprovedTask(s, p)
           active == active_task_id_in(s)
           started == IF proposal.kind = "Continuation"
                      THEN set_task_status_on(s, task, "Active") ELSE WithTask(s)
           cleared == IF suspend /\ active \notin {0, task} THEN Suspended(started, active, p)
                      ELSE started
           related == Related(cleared, task, proposal)
<1>0. x = append_event_on(Decided(related, p, "Approved"), "ProposalApproved", task, p)
  BY DEF approve_proposal_staged
<1>1. /\ Fits(s) /\ s.proposals \in Seq(ProposalRec) /\ s.proposals[p] \in ProposalRec
      /\ p \in Nat /\ Len(s.tasks) \in Nat /\ "Active" \in Statuses
  <2>1. Fits(s) /\ s.proposals \in Seq(ProposalRec) /\ p \in Nat /\ Len(s.tasks) \in Nat
    BY Typed DEF Sound
  <2> QED BY <2>1 DEF Statuses
<1>2. task \in Nat
  BY <1>1 DEF ApprovedTask, ProposalRec
<1>3. proposal.kind # "Continuation" => task = Len(s.tasks) + 1
  BY DEF ApprovedTask
<1> HIDE DEF task, active
<1>4. /\ Fits(started)
      /\ started.result = "Ok" =>
           /\ Steady(started, task) /\ SameDecisions(s, started)
           /\ task \in DOMAIN started.tasks /\ started.tasks[task].status = "Active"
  <2>1. CASE proposal.kind = "Continuation"
    <3>1. started = set_task_status_on(s, task, "Active")
      BY <2>1
    <3> HIDE DEF started
    <3>2. Fits(started)
      BY <1>1, <3>1, StatusSet
    <3>3. started.result = "Ok" =>
            /\ Steady(started, task) /\ SameDecisions(s, started)
            /\ task \in DOMAIN started.tasks /\ started.tasks[task].status = "Active"
      BY <1>1, <3>1, StepStatus DEF Sound
    <3> QED BY <3>2, <3>3
  <2>2. CASE proposal.kind # "Continuation"
    <3>1. started = WithTask(s) /\ task = Len(s.tasks) + 1
      BY <2>2, <1>3
    <3> HIDE DEF started
    <3>2. Fits(started)
      BY <1>1, <3>1, TaskCreated
    <3>3. started.result = "Ok" =>
            /\ Steady(started, Len(s.tasks) + 1) /\ SameDecisions(s, started)
            /\ task \in DOMAIN started.tasks /\ started.tasks[task].status = "Active"
      BY <1>1, <3>1, StepTask DEF Sound
    <3> QED BY <3>1, <3>2, <3>3
  <2> QED BY <2>1, <2>2
<1> HIDE DEF started
<1>5. /\ Fits(cleared)
      /\ cleared.result = "Ok" =>
           /\ Steady(cleared, task) /\ SameDecisions(s, cleared)
           /\ task \in DOMAIN cleared.tasks /\ cleared.tasks[task].status = "Active"
  <2>1. CASE suspend /\ active \notin {0, task}
    <3>1. cleared = Suspended(started, active, p) /\ active # task
      BY <2>1
    <3> HIDE DEF cleared
    <3>2. /\ Fits(cleared)
          /\ cleared.result = "Ok" =>
               /\ started.result = "Ok" /\ Steady(cleared, task)
               /\ SameDecisions(started, cleared) /\ OnlyTask(started, cleared, active)
      BY <1>1, <1>4, <3>1, StepSuspended
    <3> QED BY <1>4, <3>1, <3>2 DEF SameDecisions, OnlyTask
  <2>2. CASE ~(suspend /\ active \notin {0, task})
    BY <2>2, <1>4
  <2> QED BY <2>1, <2>2
<1> HIDE DEF cleared
<1>6. Fits(related) /\ (related.result = "Ok" => cleared.result = "Ok")
  BY <1>1, <1>2, <1>5, RelationCreated
<1> HIDE DEF related
<1>7. related.result = "Ok"
  <2> DEFINE y == Decided(related, p, "Approved")
  <2>1. "Approved" \in ProposalStatuses /\ "ProposalApproved" \in EventKinds
    BY DEF ProposalStatuses, EventKinds
  <2>2. Fits(y) /\ (y.result = "Ok" => related.result = "Ok")
    BY <1>6, <2>1, ProposalDecided
  <2> HIDE DEF y
  <2>3. x = append_event_on(y, "ProposalApproved", task, p)
    BY <1>0 DEF y
  <2> QED BY <1>1, <1>2, <2>1, <2>2, <2>3, Backwards
<1>8. /\ Steady(related, task) /\ related.tasks = cleared.tasks
      /\ related.proposals = cleared.proposals
      /\ Len(related.relations) = Len(cleared.relations) + 1
  BY <1>1, <1>2, <1>5, <1>6, <1>7, StepRelated DEF related
<1>9. /\ task \in DOMAIN related.tasks /\ related.tasks[task].status = "Active"
      /\ related.proposals = s.proposals /\ Len(related.relations) = Len(s.relations) + 1
  BY <1>5, <1>6, <1>7, <1>8 DEF SameDecisions
<1>10. /\ Fits(x) /\ Steady(x, 0)
       /\ x.relations = related.relations
       /\ DOMAIN x.proposals = DOMAIN related.proposals
       /\ \A q \in DOMAIN related.proposals \ {p} : x.proposals[q] = related.proposals[q]
       /\ x.proposals[p].status = "Approved"
  BY <1>0, <1>1, <1>2, <1>6, <1>8, <1>9, StepDecision
<1>12. DecidedAs(s.proposals, x.proposals, p, "Approved")
  BY <1>9, <1>10 DEF DecidedAs
<1>13. Cardinality(Approved(x.proposals)) = Cardinality(Approved(s.proposals)) + 1
  BY <1>1, <1>12, ApprovedGrows DEF DecidedAs
<1> QED BY <1>9, <1>10, <1>12, <1>13 DEF Sound

-----------------------------------------------------------------------------
(* The inductive invariant: what is in memory and what is saved are sound, *)
(* every answered decision stands in both, and the verdict of the call     *)
(* under way stands in memory and was never answered.                      *)

Decisions == [proposal : 1 .. MaxObjects, status : {"Approved", "Rejected"}]

(* Decision d stands in the proposals P. *)
Stands(P, d) == d.proposal \in DOMAIN P /\ P[d.proposal].status = d.status

StandAll(P, A) == \A i \in DOMAIN A : Stands(P, A[i])

Once(A) == \A i, j \in DOMAIN A : A[i].proposal = A[j].proposal => i = j

Unanswered(A, d) == \A i \in DOMAIN A : A[i].proposal # d.proposal

Flags ==
    /\ extra \in Natives \cup {Nobody}
    /\ unsaved \in BOOLEAN /\ running \in BOOLEAN /\ boots \in 1 .. MaxBoots
    /\ unsaved => running
    /\ ~running => boots < MaxBoots

Answers ==
    /\ answered \in Seq(Decisions) /\ Once(answered)
    /\ StandAll(saved.proposals, answered)
    /\ running => StandAll(service.proposals, answered)

Verdict ==
    \/ verdict = NoVerdict
    \/ /\ unsaved /\ verdict \in Decisions
       /\ Stands(service.proposals, verdict) /\ Unanswered(answered, verdict)

Inv == Sound(service) /\ Sound(saved) /\ Flags /\ Answers /\ Verdict

(* A boot restores the tables as they were. *)
LEMMA SoundRestored ==
    ASSUME NEW s, Sound(s), NEW x, x = [s EXCEPT !.ticks = 2]
    PROVE  Sound(x) /\ x.proposals = s.proposals
<1>1. s \in Staged /\ s.result = "Ok" /\ ObjectCount(s) <= MaxObjects
  BY DEF Sound, Fits
<1>2. x \in Staged /\ Tables(x, s.tasks, s.proposals, s.events, s.relations, s.assertions)
  BY <1>1, TicksReplaced
<1>3. x.result = "Ok"
  BY <1>1 DEF Staged
<1>4. ObjectCount(x) = ObjectCount(s)
  BY <1>2, Counted DEF Tables
<1> QED BY <1>1, <1>2, <1>3, <1>4 DEF Sound, Fits, Tables, Steady

(* The first boot. *)
LEMMA SoundEmpty ==
    ASSUME TaskServiceAssumption
    PROVE  Sound(Empty)
<1> DEFINE s == Empty
<1>1. /\ s.tasks = << >> /\ s.proposals = << >> /\ s.events = << >> /\ s.relations = << >>
      /\ s.assertions = 0 /\ s.result = "Ok"
  BY DEF Empty
<1>2. s \in Staged
  BY DEF Empty, Staged, TaskServiceAssumption
<1> HIDE DEF s
<1>3. ObjectCount(s) <= MaxObjects
  BY <1>1 DEF ObjectCount, TaskServiceAssumption
<1>4. Steady(s, 0)
  BY <1>1 DEF Steady, Follows, Marks
<1>5. Approved(s.proposals) = {}
  BY <1>1 DEF Approved
<1>6. Len(s.relations) = Cardinality(Approved(s.proposals))
  BY <1>1, <1>5, FS_EmptySet
<1> QED BY <1>1, <1>2, <1>3, <1>4, <1>6 DEF Sound, Fits, s

(* What keeps decisions keeps the answered ones. *)
LEMMA StandKept ==
    ASSUME NEW P, NEW Q, KeepsDecisions(P, Q), NEW A \in Seq(Decisions), StandAll(P, A)
    PROVE  StandAll(Q, A)
<1> SUFFICES ASSUME NEW i \in DOMAIN A PROVE Stands(Q, A[i])
  BY DEF StandAll
<1>1. A[i] \in Decisions
  OBVIOUS
<1>2. A[i].status # "Pending"
  BY <1>1 DEF Decisions
<1> QED BY <1>2 DEF StandAll, Stands, KeepsDecisions

(* The invariant holds at the first boot. *)
LEMMA Initial ==
    ASSUME TaskServiceAssumption, Init
    PROVE  Inv
<1>1. Sound(service) /\ Sound(saved)
  BY SoundEmpty DEF Init
<1>2. Flags
  <2>1. 1 \in 1 .. MaxBoots
    BY DEF TaskServiceAssumption
  <2>2. /\ extra = Nobody /\ unsaved = FALSE /\ running = TRUE /\ boots = 1
    BY DEF Init
  <2> QED BY <2>1, <2>2 DEF Flags
<1>3. Answers
  <2>1. answered = << >>
    BY DEF Init
  <2>2. answered \in Seq(Decisions) /\ DOMAIN answered = {}
    BY <2>1
  <2> QED BY <2>2 DEF Answers, Once, StandAll
<1>4. Verdict
  BY DEF Init, Verdict
<1> QED BY <1>1, <1>2, <1>3, <1>4 DEF Inv

(* A call that decides nothing keeps the invariant. *)
LEMMA CommitKeeps ==
    ASSUME Inv, Ready, NEW x, Commit(x), UNCHANGED verdict,
           Sound(x), KeepsDecisions(service.proposals, x.proposals)
    PROVE  Inv'
<1>1. /\ running /\ ~unsaved /\ service' = x /\ unsaved' = TRUE
      /\ saved' = saved /\ extra' = extra /\ answered' = answered /\ running' = running
      /\ boots' = boots /\ verdict' = verdict
  BY DEF Ready, Commit
<1>2. Flags'
  BY <1>1 DEF Inv, Flags
<1>3. StandAll(x.proposals, answered)
  BY <1>1, StandKept DEF Inv, Answers
<1>4. Answers'
  BY <1>1, <1>3 DEF Inv, Answers
<1>5. verdict = NoVerdict
  BY <1>1 DEF Inv, Verdict
<1>6. Verdict'
  BY <1>1, <1>5 DEF Verdict
<1> QED BY <1>1, <1>2, <1>4, <1>6 DEF Inv

(* So does one that decides, and its verdict was never answered before. *)
LEMMA CommitDecides ==
    ASSUME Inv, Ready, NEW x, Commit(x), Sound(x),
           NEW p \in Proposals, NEW status \in {"Approved", "Rejected"},
           DecidedAs(service.proposals, x.proposals, p, status),
           verdict' = [proposal |-> p, status |-> status]
    PROVE  Inv'
<1>1. /\ running /\ ~unsaved /\ service' = x /\ unsaved' = TRUE
      /\ saved' = saved /\ extra' = extra /\ answered' = answered /\ running' = running
      /\ boots' = boots
  BY DEF Ready, Commit
<1>2. Flags'
  BY <1>1 DEF Inv, Flags
<1>3. /\ answered \in Seq(Decisions) /\ StandAll(service.proposals, answered)
  BY <1>1 DEF Inv, Answers
<1>4. StandAll(x.proposals, answered)
  BY <1>3, DecidedKeeps, StandKept
<1>5. Answers'
  BY <1>1, <1>4 DEF Inv, Answers
<1>6. verdict' \in Decisions /\ verdict'.proposal = p /\ verdict'.status = status
  BY DEF Decisions, Proposals
<1>7. Stands(service'.proposals, verdict')
  BY <1>1, <1>6 DEF Stands, DecidedAs
<1>8. Unanswered(answered', verdict')
  <2> SUFFICES ASSUME NEW i \in DOMAIN answered PROVE answered[i].proposal # p
    BY <1>1, <1>6 DEF Unanswered
  <2>1. answered[i] \in Decisions
    BY <1>3
  <2>2. answered[i].status # "Pending"
    BY <2>1 DEF Decisions
  <2>3. service.proposals[p].status = "Pending"
    BY DEF DecidedAs
  <2> QED BY <1>3, <2>2, <2>3 DEF StandAll, Stands
<1>9. Verdict'
  BY <1>1, <1>6, <1>7, <1>8 DEF Verdict
<1> QED BY <1>1, <1>2, <1>5, <1>9 DEF Inv

(* The store succeeded: the verdict joins the answers. *)
LEMMA Answering ==
    ASSUME Inv, PersistOk
    PROVE  Inv'
<1>1. /\ running /\ unsaved /\ saved' = service /\ service' = service /\ unsaved' = FALSE
      /\ verdict' = NoVerdict /\ extra' = extra /\ running' = running /\ boots' = boots
  BY DEF PersistOk
<1>2. Flags'
  BY <1>1 DEF Inv, Flags
<1>3. /\ answered \in Seq(Decisions) /\ Once(answered) /\ StandAll(service.proposals, answered)
  BY <1>1 DEF Inv, Answers
<1>4. answered' \in Seq(Decisions) /\ Once(answered') /\ StandAll(service.proposals, answered')
  <2>1. CASE verdict = NoVerdict
    BY <2>1, <1>3 DEF PersistOk
  <2>2. CASE verdict # NoVerdict
    <3>1. /\ verdict \in Decisions /\ Stands(service.proposals, verdict)
          /\ Unanswered(answered, verdict)
      BY <2>2 DEF Inv, Verdict
    <3>2. answered' = Append(answered, verdict)
      BY <2>2 DEF PersistOk
    <3> DEFINE n == Len(answered) + 1
    <3>3. /\ answered' \in Seq(Decisions)
          /\ DOMAIN answered' = DOMAIN answered \cup {n} /\ answered'[n] = verdict
          /\ \A i \in DOMAIN answered : answered'[i] = answered[i]
      BY <1>3, <3>1, <3>2, Appended
    <3> HIDE DEF n
    <3>4. Once(answered')
      BY <1>3, <3>1, <3>3 DEF Once, Unanswered
    <3>5. StandAll(service.proposals, answered')
      BY <1>3, <3>1, <3>3 DEF StandAll
    <3> QED BY <3>3, <3>4, <3>5
  <2> QED BY <2>1, <2>2
<1>5. Answers'
  BY <1>1, <1>4 DEF Answers
<1>6. Verdict'
  BY <1>1 DEF Verdict
<1> QED BY <1>1, <1>2, <1>5, <1>6 DEF Inv

(* The store failed or power was lost: old or new contents, both with every*)
(* answered decision.                                                      *)
LEMMA Storing ==
    ASSUME Inv, PersistError \/ Crash
    PROVE  Inv'
<1>1. /\ running /\ service' = service /\ unsaved' = FALSE /\ verdict' = NoVerdict
      /\ extra' = extra /\ answered' = answered /\ boots' = boots
      /\ saved' = saved \/ saved' = service
  <2>1. CASE PersistError
    BY <2>1 DEF PersistError
  <2>2. CASE Crash
    BY <2>2 DEF Crash
  <2> QED BY <2>1, <2>2
<1>2. Flags'
  <2>1. CASE PersistError
    BY <2>1, <1>1 DEF Inv, Flags, PersistError
  <2>2. CASE Crash
    BY <2>2, <1>1 DEF Inv, Flags, Crash
  <2> QED BY <2>1, <2>2
<1>3. Sound(service)' /\ Sound(saved)'
  BY <1>1 DEF Inv
<1>4. /\ answered \in Seq(Decisions) /\ Once(answered)
      /\ StandAll(saved.proposals, answered) /\ StandAll(service.proposals, answered)
  BY <1>1 DEF Inv, Answers
<1>5. Answers'
  BY <1>1, <1>4 DEF Answers
<1>6. Verdict'
  BY <1>1 DEF Verdict
<1> QED BY <1>2, <1>3, <1>5, <1>6 DEF Inv

(* A boot continues from what is saved. *)
LEMMA Booting ==
    ASSUME TaskServiceAssumption, Inv, Boot
    PROVE  Inv'
<1>1. /\ ~running /\ running' = TRUE /\ boots' = boots + 1 /\ service' = [saved EXCEPT !.ticks = 2]
      /\ extra' = Nobody /\ saved' = saved /\ unsaved' = unsaved /\ verdict' = verdict
      /\ answered' = answered
  BY DEF Boot
<1>2. Sound(service') /\ service'.proposals = saved.proposals
  BY <1>1, SoundRestored DEF Inv
<1>3. Flags'
  BY <1>1 DEF Inv, Flags, TaskServiceAssumption
<1>4. Answers'
  BY <1>1, <1>2 DEF Inv, Answers
<1>5. ~unsaved
  BY <1>1 DEF Inv, Flags
<1>6. Verdict'
  BY <1>1, <1>5 DEF Inv, Verdict
<1> QED BY <1>1, <1>2, <1>3, <1>4, <1>6 DEF Inv

(* Every step keeps the invariant. *)
LEMMA Step ==
    ASSUME TaskServiceAssumption, Inv, [Next]_vars
    PROVE  Inv'
<1>0. Sound(service) /\ Fits(service) /\ Len(service.tasks) \in Nat /\ MaxObjects \in Nat
  <2>1. Sound(service) /\ Fits(service)
    BY DEF Inv, Sound
  <2> QED BY <2>1, Typed DEF TaskServiceAssumption
<1>1. CASE create_task
  <2>1. Ready /\ Commit(create_task_staged(service)) /\ UNCHANGED verdict
    BY <1>1 DEF create_task
  <2> DEFINE x == create_task_staged(service)
  <2>2. x.result = "Ok"
    BY <2>1 DEF Commit
  <2>3. Sound(x) /\ KeepsDecisions(service.proposals, x.proposals)
    BY <1>0, <2>2, TaskSound
  <2> QED BY <2>1, <2>3, CommitKeeps
<1>2. ASSUME NEW caller, NEW kind \in ProposalKinds, NEW target \in 0 .. Len(service.tasks),
             NEW candidate \in Candidates(kind), create_proposal(caller, kind, target, candidate)
      PROVE  Inv'
  <2> DEFINE x == create_proposal_staged(service, kind, target, candidate)
  <2>1. Ready /\ Commit(x) /\ UNCHANGED verdict
    BY <1>2 DEF create_proposal
  <2>2. x.result = "Ok"
    BY <2>1 DEF Commit
  <2>3. target \in Nat /\ candidate \in Nat
    BY <1>0, <1>2 DEF Candidates
  <2>4. Sound(x) /\ KeepsDecisions(service.proposals, x.proposals)
    BY <1>0, <2>2, <2>3, ProposalSound
  <2> QED BY <2>1, <2>4, CommitKeeps
<1>3. ASSUME NEW p \in Proposals, NEW suspend, approve_proposal(p, suspend)
      PROVE  Inv'
  <2> DEFINE x == approve_proposal_staged(service, p, suspend)
  <2>1. /\ Ready /\ Commit(x) /\ p \in DOMAIN service.proposals
        /\ service.proposals[p].status = "Pending"
        /\ verdict' = [proposal |-> p, status |-> "Approved"]
    BY <1>3 DEF approve_proposal
  <2>2. x.result = "Ok"
    BY <2>1 DEF Commit
  <2>3. Sound(x) /\ DecidedAs(service.proposals, x.proposals, p, "Approved")
    BY <1>0, <2>1, <2>2, ApproveSound
  <2> QED BY <2>1, <2>3, CommitDecides
<1>4. ASSUME NEW p \in Proposals, reject_proposal(p)
      PROVE  Inv'
  <2> DEFINE x == reject_proposal_staged(service, p)
  <2>1. /\ Ready /\ Commit(x) /\ p \in DOMAIN service.proposals
        /\ service.proposals[p].status = "Pending"
        /\ verdict' = [proposal |-> p, status |-> "Rejected"]
    BY <1>4 DEF reject_proposal
  <2>2. x.result = "Ok"
    BY <2>1 DEF Commit
  <2>3. Sound(x) /\ DecidedAs(service.proposals, x.proposals, p, "Rejected")
    BY <1>0, <2>1, <2>2, RejectSound
  <2> QED BY <2>1, <2>3, CommitDecides
<1>5. ASSUME NEW t \in TaskNames, NEW status \in Statuses, transition_task(t, status)
      PROVE  Inv'
  <2> DEFINE x == transition_task_staged(service, t, status)
  <2>1. Ready /\ Commit(x) /\ UNCHANGED verdict
    BY <1>5 DEF transition_task
  <2>2. x.result = "Ok"
    BY <2>1 DEF Commit
  <2>3. Sound(x) /\ KeepsDecisions(service.proposals, x.proposals)
    BY <1>0, <2>2, TransitionSound
  <2> QED BY <2>1, <2>3, CommitKeeps
<1>6. ASSUME NEW t \in TaskNames, append_task_event(t)
      PROVE  Inv'
  <2> DEFINE x == append_event_on(service, "Appended", t, 0)
  <2>1. Ready /\ Commit(x) /\ UNCHANGED verdict
    BY <1>6 DEF append_task_event
  <2>2. x.result = "Ok"
    BY <2>1 DEF Commit
  <2>3. t \in Nat
    BY <1>0 DEF TaskNames
  <2>4. Sound(x) /\ KeepsDecisions(service.proposals, x.proposals)
    BY <1>0, <2>2, <2>3, EventSound
  <2> QED BY <2>1, <2>4, CommitKeeps
<1>7. CASE read_context_summary
  <2> DEFINE x == Asserted(service)
  <2>1. Ready /\ Commit(x) /\ UNCHANGED verdict
    BY <1>7 DEF read_context_summary
  <2>2. x.result = "Ok"
    BY <2>1 DEF Commit
  <2>3. Sound(x) /\ KeepsDecisions(service.proposals, x.proposals)
    BY <1>0, <2>2, AssertionSound
  <2> QED BY <2>1, <2>3, CommitKeeps
<1>8. ASSUME NEW caller \in Natives, grant_steward_proposal_capability(caller)
      PROVE  Inv'
  <2>1. /\ extra' = caller /\ service' = service /\ saved' = saved /\ unsaved' = unsaved
        /\ verdict' = verdict /\ answered' = answered /\ running' = running /\ boots' = boots
    BY <1>8 DEF grant_steward_proposal_capability
  <2> QED BY <2>1 DEF Inv, Flags, Answers, Verdict
<1>9. CASE PersistOk
  BY <1>9, Answering
<1>10. CASE PersistError \/ Crash
  BY <1>10, Storing
<1>11. CASE Boot
  BY <1>11, Booting
<1>12. CASE UNCHANGED vars
  <2>1. /\ service' = service /\ saved' = saved /\ extra' = extra /\ unsaved' = unsaved
        /\ verdict' = verdict /\ answered' = answered /\ running' = running /\ boots' = boots
    BY <1>12 DEF vars
  <2> QED BY <2>1 DEF Inv, Flags, Answers, Verdict
<1> QED BY <1>1, <1>2, <1>3, <1>4, <1>5, <1>6, <1>7, <1>8, <1>9, <1>10, <1>11, <1>12 DEF Next

(* The invariant implies the four properties. *)
LEMMA Consequences ==
    ASSUME TaskServiceAssumption, Inv
    PROVE  TypeOK /\ StatusFollowsEvents /\ ApprovalAtomic /\ DecisionDurable
<1>1. TypeOK
  <2>1. ASSUME NEW s, Sound(s)
        PROVE  s \in States /\ ObjectCount(s) <= MaxObjects
    <3>1. s \in Staged /\ s.result = "Ok" /\ ObjectCount(s) <= MaxObjects
      BY <2>1 DEF Sound, Fits
    <3>2. s \in States
      BY <3>1 DEF Staged, States, TaskRec, ProposalRec, EventRec, RelationRec
    <3> QED BY <3>1, <3>2
  <2>2. \A s \in {service, saved} : s \in States /\ ObjectCount(s) <= MaxObjects
    BY <2>1 DEF Inv
  <2>3. Flags /\ MaxObjects \in Nat
    BY DEF Inv, TaskServiceAssumption
  <2>4. verdict \in [proposal : 0 .. MaxObjects, status : ProposalStatuses]
    <3>1. NoVerdict \in [proposal : 0 .. MaxObjects, status : ProposalStatuses]
      BY <2>3 DEF NoVerdict, ProposalStatuses
    <3>2. Decisions \subseteq [proposal : 0 .. MaxObjects, status : ProposalStatuses]
      BY <2>3 DEF Decisions, ProposalStatuses
    <3> QED BY <3>1, <3>2 DEF Inv, Verdict
  <2>5. answered \in Seq([proposal : 1 .. MaxObjects, status : ProposalStatuses])
    <3>1. Decisions \subseteq [proposal : 1 .. MaxObjects, status : ProposalStatuses]
      BY DEF Decisions, ProposalStatuses
    <3>2. answered \in Seq(Decisions)
      BY DEF Inv, Answers

    <3> QED BY <3>1, <3>2, SeqMonotonic
  <2> QED BY <2>2, <2>3, <2>4, <2>5 DEF TypeOK, Flags
<1>2. StatusFollowsEvents
  <2>1. ASSUME NEW s, Sound(s), NEW t \in DOMAIN s.tasks
        PROVE  \E e \in StatusEvents(s, t) :
                  /\ \A f \in StatusEvents(s, t) : f <= e
                  /\ s.tasks[t].status \in Announces(s.events[e].kind)
    <3>1. Fits(s) /\ t # 0
      BY <2>1, Typed DEF Sound
    <3>2. Says(s.events, t, s.tasks[t].status)
      BY <2>1, <3>1 DEF Sound, Steady, Follows
    <3> QED BY <3>2 DEF Says, StatusEvents
  <2> QED BY <2>1 DEF Inv, StatusFollowsEvents
<1>3. ApprovalAtomic
  <2>1. ASSUME NEW s, Sound(s), NEW p \in DOMAIN s.proposals
        PROVE  /\ Cardinality(EventsOf(s, "ProposalApproved", p))
                     = IF s.proposals[p].status = "Approved" THEN 1 ELSE 0
               /\ Cardinality(EventsOf(s, "ProposalRejected", p))
                     = IF s.proposals[p].status = "Rejected" THEN 1 ELSE 0
               /\ \A e \in EventsOf(s, "ProposalApproved", p) : s.events[e].task \in DOMAIN s.tasks
    <3>1. Marks(s.tasks, s.proposals, s.events)
      BY <2>1 DEF Sound, Steady
    <3>2. /\ s.proposals[p].status = "Approved" => \E e : EventsOf(s, "ProposalApproved", p) = {e}
          /\ s.proposals[p].status # "Approved" => EventsOf(s, "ProposalApproved", p) = {}
          /\ s.proposals[p].status = "Rejected" => \E e : EventsOf(s, "ProposalRejected", p) = {e}
          /\ s.proposals[p].status # "Rejected" => EventsOf(s, "ProposalRejected", p) = {}
      BY <3>1 DEF Marks, Marked, EventsOf
    <3>3. \A e : Cardinality({e}) = 1
      BY FS_Singleton
    <3>4. Cardinality({}) = 0
      BY FS_EmptySet
    <3>5. \A e \in EventsOf(s, "ProposalApproved", p) : s.events[e].task \in DOMAIN s.tasks
      BY <3>1 DEF Marks, EventsOf
    <3> QED BY <3>2, <3>3, <3>4, <3>5
  <2>2. ASSUME NEW s, Sound(s)
        PROVE  Len(s.relations)
                 = Cardinality({p \in DOMAIN s.proposals : s.proposals[p].status = "Approved"})
    BY <2>2 DEF Sound, Approved
  <2> QED BY <2>1, <2>2 DEF Inv, ApprovalAtomic
<1>4. DecisionDurable
  BY DEF Inv, Answers, StandAll, Stands, Once, DecisionDurable
<1> QED BY <1>1, <1>2, <1>3, <1>4

(* TasksHold: for any number of object slots, prior revisions, stewards    *)
(* and boots, in memory and in every state a boot restores, every task has *)
(* the status its latest status event announces, every proposal is decided *)
(* whole (revision, one event, one relation, a task that exists) or not at *)
(* all, and a decision a user was told of is what every later boot         *)
(* restores, and is never taken twice (task_service.rs).                   *)
THEOREM TasksHold ==
    ASSUME TaskServiceAssumption
    PROVE  Spec => [](TypeOK /\ StatusFollowsEvents /\ ApprovalAtomic /\ DecisionDurable)
<1>1. Init => Inv
  BY Initial
<1>2. Inv /\ [Next]_vars => Inv'
  BY Step
<1>3. Inv => TypeOK /\ StatusFollowsEvents /\ ApprovalAtomic /\ DecisionDurable
  BY Consequences
<1> QED BY <1>1, <1>2, <1>3, PTL DEF Spec
=============================================================================

--------------------------- MODULE SessionRuntime ---------------------------
(***************************************************************************)
(* The three finite proofs of the session's ring-3 side: the input bridge, *)
(* the retained session runtime and the viewing session.  The kernel       *)
(* prepares one launch, grants the capabilities, binds the input stream    *)
(* (and the presenter), enters ring 3, and when the process has trapped or *)
(* faulted it restores its own root, judges the result page and ends the   *)
(* machine with success or with a panic.                                   *)
(*                                                                         *)
(* Concurrency: one CPU; the PS/2 interrupt publishes events between the   *)
(* steps of the ring-3 process, which polls.  What the build selects with  *)
(* features is the constant Profile.                                       *)
(***************************************************************************)
EXTENDS Integers, Sequences, FiniteSets, SequencesExt

CONSTANTS
    Profile,      \* "bridge", "runtime" or "viewing"
    Capacity,     \* usable slots of the session input ring
    Kinds,        \* what the devices may produce
    Spare,        \* bound: events beyond those the proof needs
    MaxWrong,     \* bound: events that are not the scripted one
    PollLimit     \* SESSION_RUNTIME_EMPTY_POLL_LIMIT

EventKinds == {"A", "Space", "Backspace", "Enter", "Motion"}

SessionRuntimeAssumption ==
    /\ Profile \in {"bridge", "runtime", "viewing"}
    /\ Capacity \in Nat \ {0} /\ PollLimit \in Nat \ {0}
    /\ Spare \in Nat /\ MaxWrong \in Nat
    /\ Kinds \subseteq EventKinds

\* The events each proof expects, in order.
Script ==
    CASE Profile = "bridge" -> <<"Space", "Space", "Backspace", "Backspace", "Motion">>
      [] Profile = "runtime" -> <<"A", "Motion">>
      [] Profile = "viewing" -> <<"Motion", "Space", "Space", "Backspace", "Backspace",
                                  "Motion", "Enter">>

\* After how many events the graph is invoked.
Checkpoints ==
    CASE Profile = "bridge" -> <<>>
      [] Profile = "runtime" -> <<1, 2>>
      [] Profile = "viewing" -> <<3, 6>>

CheckpointSet == {Checkpoints[i] : i \in DOMAIN Checkpoints}

VARIABLES
    pc,         \* where the kernel, or the process while it runs, is
    prepared,   \* PREPARED_PROBE holds a launch
    bootstrap,  \* the bootstrap page, with the fixture and package pages it names
    table,      \* capabilities granted to the process
    caller,     \* a process is bound as the current caller
    outcome,    \* how ring 3 came back: "none", "trap" or "fault"
    presenter,  \* PresentationService.accepted, a sequence of what it drew
    queue,      \* SessionInputQueue
    user,       \* the process's memory
    page,       \* the result page
    verdict,    \* "none", "ready", "recovery" or "panic"
    produced,   \* history: events the devices produced
    delivered,  \* history: events handed to the process
    injected    \* history: a part outside this model failed

vars == <<pc, prepared, bootstrap, table, caller, outcome, presenter, queue, user, page, verdict,
          produced, delivered, injected>>

-----------------------------------------------------------------------------
(* The bootstrap, checked by the kernel that writes it and by the process *)

\* Pages are numbered; 0 is the null pointer.
PACKAGE_PAGE == 1
FIXTURE_PAGE == 2
RESULT_PAGE == 3

Identities == [service |-> "service", runtime |-> "runtime", graph |-> "graph"]

Distinct(ids) ==
    /\ ids.service # ids.runtime /\ ids.service # ids.graph /\ ids.runtime # ids.graph
    /\ "zero" \notin {ids.service, ids.runtime, ids.graph}

\* build_session_runtime_fixture
Fixture == [count |-> 2, pages |-> <<FIXTURE_PAGE, FIXTURE_PAGE>>,
            payloads |-> <<"slice2-one", "slice2-two">>]

Blank == [ids |-> [service |-> "zero", runtime |-> "zero", graph |-> "zero"],
          caps |-> {}, import |-> "zero", digest |-> "zero", package_ptr |-> 0,
          fixture_ptr |-> 0, result_ptr |-> 0, graph_result_ptr |-> 0, fixture |-> Fixture]

\* run: what the kernel writes once it has the three capabilities.
Bootstrap(caps) ==
    [ids |-> Identities, caps |-> caps, import |-> "command", digest |-> "package",
     package_ptr |-> PACKAGE_PAGE, fixture_ptr |-> FIXTURE_PAGE,
     result_ptr |-> RESULT_PAGE, graph_result_ptr |-> RESULT_PAGE, fixture |-> Fixture]

\* validate_graph: exactly one import, the session command.
GraphValid(b) == b.import = "command"

\* validate_session_runtime_bootstrap
BootstrapValid(b) ==
    /\ Distinct(b.ids) /\ {"input", "console"} \subseteq b.caps
    /\ b.fixture_ptr # 0 /\ b.result_ptr # 0 /\ b.fixture_ptr # b.result_ptr
    /\ GraphValid(b)

\* validate_session_runtime_fixture
FixtureValid(b) ==
    /\ BootstrapValid(b) /\ b.fixture.count = 2
    /\ \A i \in 1..2 : b.fixture.pages[i] = b.fixture_ptr

\* The process's recovery boundary, and its own copy of the expected layout.
RecoveryBoundary(b) == "console" \in b.caps /\ b.result_ptr = RESULT_PAGE

OuterValid(b) ==
    /\ BootstrapValid(b) /\ b.ids = Identities
    /\ b.digest # "zero" /\ b.package_ptr = PACKAGE_PAGE
    /\ b.fixture_ptr = FIXTURE_PAGE
    /\ b.result_ptr = RESULT_PAGE /\ b.graph_result_ptr = RESULT_PAGE

FixtureContract(b) ==
    FixtureValid(b) /\ b.fixture.payloads = <<"slice2-one", "slice2-two">>

\* prepare_graph_package: the digest of the page is the one announced.
PackageValid(b) == b.digest = "package"

-----------------------------------------------------------------------------
(* The input ring, as in session_input.rs *)

\* publish: a full ring drops the newest event and spends its number.
Published(q, kind) ==
    [q EXCEPT !.next = @ + 1,
              !.pending = IF Len(@) = Capacity THEN @
                          ELSE Append(@, [sequence |-> q.next, kind |-> kind])]

\* try_read_session
Received(q) ==
    LET event == Head(q.pending)
    IN  [sequence |-> event.sequence, kind |-> event.kind,
         gap |-> event.sequence # q.expected]

Popped(q) ==
    [q EXCEPT !.pending = Tail(@), !.expected = Head(q.pending).sequence + 1]

-----------------------------------------------------------------------------
(* The process's own state *)

Zeroed == [status |-> "zero", events |-> 0, invocations |-> 0, before |-> 0, final |-> 0,
           activations |-> 0, traversals |-> 0, checkpoints |-> <<>>,
           snapshots |-> <<>>, exits |-> <<>>, results |-> <<>>]

\* index counts the accepted events; expected is -1 before the first one.
NewUser ==
    [index |-> 0, expected |-> -1, polls |-> 0, view |-> [step |-> 0, focus |-> -1],
     result |-> Zeroed]

ActivationKeys == <<"Space", "Space", "Backspace", "Backspace">>

\* SessionViewing::observe on a continuous event: a motion moves the focus mark
\* once there is one, the four keys in a row create it.
Observed(view, kind) ==
    IF kind = "Motion"
    THEN [view EXCEPT !.focus = IF @ = -1 THEN -1 ELSE @ + 1]
    ELSE LET step == IF kind = ActivationKeys[view.step + 1] THEN view.step + 1
                     ELSE IF kind = "Space" THEN 1 ELSE 0
         IN  IF step = 4 THEN [step |-> 0, focus |-> 0] ELSE [view EXCEPT !.step = step]

\* accept and acceptance_event: no flag, the next number, the scripted shape.
\* The finite proofs take the number of their first event as it comes; viewing
\* insists on zero.
Accepts(u, event) ==
    /\ ~event.gap
    /\ IF Profile = "viewing" THEN event.sequence = u.index
       ELSE u.expected = -1 \/ event.sequence = u.expected
    /\ event.kind = Script[u.index + 1]

\* What an accepted event leaves: the counters of the session's result.
Accepted(u, event) ==
    LET view == Observed(u.view, event.kind)
        r == u.result
    IN  [u EXCEPT
            !.index = @ + 1, !.expected = event.sequence + 1, !.polls = 0, !.view = view,
            !.result = [r EXCEPT
                !.events = @ + 1,
                !.activations = @ + (IF u.view.focus = -1 /\ view.focus = 0 THEN 1 ELSE 0),
                !.traversals = @ + (IF event.kind = "Motion" /\ view.focus = -1
                                    THEN 1 ELSE 0)]]

\* SessionCommandHost: one read, then one emission of the same payload; every
\* other host call is denied, and a denial ends the graph with an error.
HostCalls == {"command_read", "command_result_emit", "emit_other_text", "object_create"}

HostCall(host, call) ==
    IF host.denied THEN host
    ELSE IF call = "command_read" /\ ~host.read THEN [host EXCEPT !.read = TRUE]
    ELSE IF call = "command_result_emit" /\ host.read /\ host.result = "none"
         THEN [host EXCEPT !.result = "OK"]
    ELSE [host EXCEPT !.denied = TRUE]

Invoked(calls) ==
    FoldLeft(HostCall, [read |-> FALSE, result |-> "none", denied |-> FALSE], calls)

-----------------------------------------------------------------------------
(* Launch *)

Init ==
    /\ pc = "prepare" /\ prepared = FALSE /\ bootstrap = Blank /\ table = {} /\ caller = FALSE
    /\ outcome = "none"
    /\ presenter = [bound |-> FALSE, drawn |-> <<>>]
    /\ queue = [pending |-> <<>>, next |-> 0, expected |-> 0, bound |-> FALSE]
    /\ user = NewUser /\ page = Zeroed /\ verdict = "none"
    /\ produced = <<>> /\ delivered = <<>> /\ injected = FALSE

\* An error of prepare or run: PYTHOS:PANIC and the machine ends.
Panics == pc' = "end" /\ verdict' = "panic"

\* Loading, frames, address space and grants are other components: each may fail.
FailsOutside == Panics /\ injected' = TRUE

\* prepare: the runtime, the graph and their identities.
Prepare ==
    /\ pc = "prepare"
    /\ \/ pc' = "build" /\ UNCHANGED <<verdict, injected>>
       \/ FailsOutside
    /\ UNCHANGED <<prepared, bootstrap, table, caller, outcome, presenter, queue, user,
                   page, produced, delivered>>

\* prepare: the four pages, the address space, the checks of every mapping and
\* the slot, which must be empty.
Build ==
    /\ pc = "build"
    /\ \/ ~prepared /\ prepared' = TRUE /\ pc' = "take" /\ UNCHANGED <<verdict, injected>>
       \/ FailsOutside /\ UNCHANGED prepared
    /\ UNCHANGED <<bootstrap, table, caller, outcome, presenter, queue, user, page, produced, delivered>>

\* run: the slot is emptied, the artifacts are loaded again and compared.
Take ==
    /\ pc = "take" /\ prepared
    /\ prepared' = FALSE
    /\ \/ pc' = "grant" /\ UNCHANGED <<verdict, injected>>
       \/ FailsOutside
    /\ UNCHANGED <<bootstrap, table, caller, outcome, presenter, queue, user, page, produced, delivered>>

\* establish_session_runtime_authority_with; binding the stream empties it.
Grant ==
    /\ pc = "grant"
    /\ \/ /\ table' = {"console", "input"} \cup (IF Profile = "bridge" THEN {} ELSE {"command"})
          /\ queue' = [queue EXCEPT !.pending = <<>>, !.expected = queue.next, !.bound = TRUE]
          /\ pc' = IF Profile = "bridge" THEN "ps2" ELSE "bootstrap"
          /\ UNCHANGED <<verdict, injected>>
       \/ /\ \E kept \in {{}, {"console"}, {"console", "command"}} : table' = kept
          /\ FailsOutside /\ UNCHANGED queue
    /\ UNCHANGED <<prepared, bootstrap, caller, outcome, presenter, user, page, produced, delivered>>

WriteBootstrap ==
    /\ pc = "bootstrap"
    /\ bootstrap' = Bootstrap(table)
    /\ IF BootstrapValid(bootstrap') /\ FixtureValid(bootstrap')
       THEN /\ pc' = IF Profile = "viewing" THEN "bind" ELSE "ps2"
            /\ UNCHANGED verdict
       ELSE Panics
    /\ UNCHANGED <<prepared, table, caller, outcome, presenter, queue, user, page,
                   produced, delivered, injected>>

\* The viewing extension of the bootstrap page names a fourth capability.
BindPresenter ==
    /\ pc = "bind"
    /\ \/ /\ presenter' = [presenter EXCEPT !.bound = TRUE]
          /\ table' = table \cup {"presentation"}
          /\ pc' = "ps2" /\ UNCHANGED <<verdict, injected>>
       \/ FailsOutside /\ UNCHANGED <<presenter, table>>
    /\ UNCHANGED <<prepared, bootstrap, caller, outcome, queue, user, page, produced, delivered>>

\* ps2::initialize, the user root, ring 3.
FirstStep == IF Profile = "bridge" THEN "gate" ELSE "boot"

Enter ==
    /\ pc = "ps2"
    /\ \/ pc' = FirstStep /\ caller' = TRUE /\ UNCHANGED <<verdict, injected>>
       \/ FailsOutside /\ UNCHANGED caller
    /\ UNCHANGED <<prepared, bootstrap, table, outcome, presenter, queue, user, page, produced, delivered>>

-----------------------------------------------------------------------------
(* Devices and the process *)

InUser == pc \in {"boot", "gate", "forge", "poll", "present", "graph", "finish", "recover",
                  "spin", "trap"}

Wrong(kinds) ==
    Cardinality({i \in DOMAIN kinds : i > Len(Script) \/ kinds[i] # Script[i]})

Publish ==
    /\ InUser /\ Len(produced) < Len(Script) + Spare
    /\ \E kind \in Kinds :
        /\ Wrong(Append(produced, kind)) <= MaxWrong
        /\ queue' = Published(queue, kind) /\ produced' = Append(produced, kind)
    /\ UNCHANGED <<pc, prepared, bootstrap, table, caller, outcome, presenter, user, page, verdict,
                   delivered, injected>>

UserStays == UNCHANGED <<prepared, bootstrap, table, caller, outcome, verdict, produced>>

\* _start of the runtime: without a boundary it can write to, it traps at once;
\* otherwise every disagreement is reported in the result page.
Boot ==
    /\ pc = "boot"
    /\ pc' = IF ~RecoveryBoundary(bootstrap) THEN "trap"
             ELSE IF OuterValid(bootstrap) /\ FixtureContract(bootstrap)
                     /\ PackageValid(bootstrap)
             THEN (IF Profile = "viewing" THEN "present" ELSE "poll")
             ELSE "recover"
    /\ UserStays /\ UNCHANGED <<presenter, queue, user, page, delivered, injected>>

\* The bridge waits for the byte G on its console, then tries a forged handle
\* and checks that its output record is untouched.
Gate ==
    /\ pc = "gate" /\ "console" \in table
    /\ pc' = "forge"
    /\ UserStays /\ UNCHANGED <<presenter, queue, user, page, delivered, injected>>

\* A handle of another generation is refused before the queue is looked at.
Forge ==
    /\ pc = "forge"
    /\ pc' = "poll"
    /\ UserStays /\ UNCHANGED <<presenter, queue, user, page, delivered, injected>>

\* The process gives up after PollLimit empty reads; the bridge never does.
PolledEmpty ==
    IF Profile = "bridge" THEN UNCHANGED <<pc, user>>
    ELSE /\ user' = [user EXCEPT !.polls = @ + 1]
         /\ pc' = IF user.polls + 1 >= PollLimit THEN "recover" ELSE "poll"

NextStep(u) == IF u.index = Len(Script) THEN "finish" ELSE "poll"

\* Where an accepted event leads, and where a refused one does.
AfterEvent(u) ==
    IF Profile = "viewing" THEN "present"
    ELSE IF u.index \in CheckpointSet THEN "graph" ELSE NextStep(u)

Refused == IF Profile = "bridge" THEN "spin" ELSE "recover"

Poll ==
    /\ pc = "poll" /\ "input" \in table /\ queue.bound
    /\ IF queue.pending = <<>>
       THEN PolledEmpty /\ UNCHANGED <<queue, delivered>>
       ELSE LET event == Received(queue)
            IN  /\ queue' = Popped(queue)
                /\ delivered' = Append(delivered, event)
                /\ IF Accepts(user, event)
                   THEN /\ user' = Accepted(user, event)
                        /\ pc' = AfterEvent(user')
                   ELSE UNCHANGED user /\ pc' = Refused
    /\ UserStays /\ UNCHANGED <<presenter, page, injected>>

AfterPresent(u) == IF u.index \in CheckpointSet THEN "graph" ELSE NextStep(u)

\* present: the revision must be the next one; the snapshot is recorded in the
\* result only after the presenter has drawn it.
Present ==
    /\ pc = "present" /\ "presentation" \in table /\ presenter.bound
    /\ \/ /\ user.index = Len(presenter.drawn)
          /\ presenter' = [presenter EXCEPT !.drawn = Append(@, user.view.focus)]
          /\ user' = [user EXCEPT !.result.snapshots = Append(@, user.view.focus)]
          /\ pc' = AfterPresent(user) /\ UNCHANGED injected
       \/ /\ pc' = "recover" /\ injected' = TRUE          \* the renderer refuses
          /\ UNCHANGED <<presenter, user>>
    /\ UserStays /\ UNCHANGED <<queue, page, delivered>>

(* Mutant: the count that is retained for the second invocation is compared
   with the event count of the other build. *)
\* reset_invocation_local: the events counted before the second invocation.
Retained(u) == u.result.events = Checkpoints[1]

\* run_command_host_and_graph for the next ordinal, with reset_invocation_local
\* after the first.  Which host calls the graph makes is its own business.
Recorded(u, host, nodes) ==
    LET r == u.result
        first == r.invocations = 0
    IN  [u EXCEPT !.result = [r EXCEPT
            !.invocations = @ + 1,
            !.exits = Append(@, [ok |-> ~host.denied, nodes |-> nodes]),
            !.results = Append(@, host.result),
            !.checkpoints = Append(@, r.events),
            !.before = IF first THEN r.events ELSE @,
            !.final = IF first THEN @ ELSE r.events]]

CallSequences == UNION {[1..n -> HostCalls] : n \in 0..2}

Graph ==
    /\ pc = "graph" /\ "command" \in table
    /\ \E calls \in CallSequences, nodes \in {1, 2} :
        LET host == Invoked(calls)
            good == ~host.denied /\ host.result # "none"
        IN  /\ user' = Recorded(user, host, nodes)
            /\ pc' = IF good /\ (user.result.invocations = 0 => Retained(user))
                     THEN NextStep(user) ELSE "recover"
            /\ injected' = (injected \/ ~good \/ nodes # 1)
    /\ UserStays /\ UNCHANGED <<presenter, queue, page, delivered>>

\* validate_session_viewing_result and validate_session_runtime_return.
ExpectedSnapshots == <<-1, -1, -1, -1, -1, 0, 1, 1>>

CountsValid(r) ==
    /\ r.events = Len(Script) /\ r.invocations = 2
    /\ IF Profile = "viewing"
       THEN /\ r.traversals = 1 /\ r.activations = 1 /\ r.checkpoints = <<3, 6>>
            /\ r.snapshots = ExpectedSnapshots
       ELSE r.before = 1 /\ r.final = 2

InvocationsValid(r) ==
    /\ \A i \in 1..2 : r.exits[i].ok /\ r.results[i] = "OK"
    /\ r.exits[1] = r.exits[2]

\* The result is written complete only if it would be accepted.
Finish ==
    /\ pc = "finish"
    /\ IF Profile = "bridge" THEN pc' = "trap" /\ UNCHANGED page
       ELSE IF CountsValid(user.result)
       THEN pc' = "trap" /\ page' = [user.result EXCEPT !.status = "complete"]
       ELSE pc' = "recover" /\ UNCHANGED page
    /\ UserStays /\ UNCHANGED <<presenter, queue, user, delivered, injected>>

\* recover_orchestration
Recover ==
    /\ pc = "recover"
    /\ page' = [user.result EXCEPT !.status = "recovery"]
    /\ pc' = "trap"
    /\ UserStays /\ UNCHANGED <<presenter, queue, user, delivered, injected>>

\* error of the bridge: it spins and never traps.
Spin == pc = "spin" /\ UNCHANGED vars

Returns(how) == outcome' = how /\ caller' = FALSE /\ pc' = "returned"

Trap ==
    /\ pc = "trap" /\ Returns("trap")
    /\ UNCHANGED <<prepared, bootstrap, table, presenter, queue, user, page, verdict, produced,
                   delivered, injected>>

\* handle_user_fault: native code may fault at any of its instructions.
NativeFault ==
    /\ InUser /\ Returns("fault") /\ injected' = TRUE
    /\ UNCHANGED <<prepared, bootstrap, table, presenter, queue, user, page, verdict, produced,
                   delivered>>

-----------------------------------------------------------------------------
(* The kernel's verdict *)

\* What the kernel finds in the result page, and on the presenter.
PageAccepted ==
    /\ page.status = "complete" /\ CountsValid(page) /\ InvocationsValid(page)
    /\ Profile = "viewing" => Len(presenter.drawn) = 8 /\ Last(presenter.drawn) = 1

Judge ==
    /\ pc = "returned" /\ ~caller
    /\ \/ /\ outcome = "trap" /\ (Profile = "bridge" \/ PageAccepted)
          /\ verdict' = "ready" /\ pc' = "end" /\ UNCHANGED injected
       \/ /\ outcome = "trap" /\ ~(Profile = "bridge" \/ PageAccepted)
          /\ Panics /\ UNCHANGED injected
       \/ /\ outcome = "fault" /\ UNCHANGED injected
          /\ pc' = "end" /\ verdict' = IF Profile = "bridge" THEN "panic" ELSE "recovery"
       \/ FailsOutside                           \* the kernel root is not valid
    /\ UNCHANGED <<prepared, bootstrap, table, caller, outcome, presenter, queue, user, page,
                   produced, delivered>>

Ended == pc = "end" /\ UNCHANGED vars

-----------------------------------------------------------------------------

Kernel ==
    Prepare \/ Build \/ Take \/ Grant \/ WriteBootstrap \/ BindPresenter \/ Enter \/ Judge

Process ==
    Boot \/ Gate \/ Forge \/ Poll \/ Present \/ Graph \/ Finish \/ Recover \/ Trap

Next == Kernel \/ Process \/ NativeFault \/ Publish \/ Spin \/ Ended

\* The CPU keeps running the kernel or the process; the devices owe nothing.
Spec == Init /\ [][Next]_vars /\ WF_vars(Kernel) /\ WF_vars(Process)

-----------------------------------------------------------------------------
(* Properties *)

\* The types; the process counts no more events than it accepted.
TypeOK ==
    /\ verdict \in {"none", "ready", "recovery", "panic"}
    /\ outcome \in {"none", "trap", "fault"}
    /\ table \subseteq {"console", "input", "command", "presentation"}
    /\ user.index \in 0..Len(Script) /\ user.polls \in 0..PollLimit
    /\ user.result.events = user.index
    /\ Len(queue.pending) <= Capacity
    /\ page.status \in {"zero", "complete", "recovery"}
    /\ prepared \in BOOLEAN /\ caller \in BOOLEAN /\ injected \in BOOLEAN

\* The machine reports readiness only when the devices really produced the
\* scripted events, first and without anything lost between them, and the
\* process received each of them once, in order and unflagged
\* (session_runtime_probe::run, session_input_probe::run).
ReadyIsEarned ==
    verdict = "ready" =>
        /\ IsPrefix(Script, produced)
        /\ delivered = [i \in DOMAIN Script |->
                          [sequence |-> i - 1, kind |-> Script[i], gap |-> FALSE]]
        /\ Profile # "bridge" =>
               page.status = "complete" /\ page.results = <<"OK", "OK">>

Lost(i) ==
    /\ i <= Len(produced)
    /\ \A e \in DOMAIN delivered : delivered[e].sequence # i - 1
    /\ \A e \in DOMAIN queue.pending : queue.pending[e].sequence # i - 1

Deviates ==
    \E i \in DOMAIN Script :
        (i <= Len(produced) /\ produced[i] # Script[i]) \/ Lost(i)

\* The checks of the process and of the kernel agree with each other: when no
\* other component fails and the input comes in time, as scripted and with
\* nothing lost, nobody complains, whatever the interleaving with the devices.
NoFalseAlarm ==
    (verdict = "panic" \/ pc = "spin") /\ ~injected /\ user.polls < PollLimit => Deviates

\* Whatever the process writes into the result page about the screen is what
\* the presenter has drawn, revision by revision, after a failure too.
ScreenIsRecorded == page.status # "zero" => page.snapshots = presenter.drawn

=============================================================================

---------------------------- MODULE NormalSession ----------------------------
(***************************************************************************)
(* The retained normal session (ADR 0093): the kernel prepares one launch, *)
(* grants four capabilities, binds the input queue and the presenter,      *)
(* enables PS/2 and enters the session's ring-3 controller; when the       *)
(* controller returns, faults or could not be launched, the supervisor     *)
(* takes every authority back and enters the recovery shell, once.         *)
(*                                                                         *)
(* Concurrency: one CPU.  System calls run with interrupts disabled, so    *)
(* each one is a single step; the PS/2 interrupt publishes between the     *)
(* steps of the controller and while the wait system call sleeps.  COM2    *)
(* raises no interrupt.  Session memory is private, so a system call and   *)
(* the computation on its result are one step.                             *)
(***************************************************************************)
EXTENDS Integers, Sequences, SequencesExt

CONSTANTS
    QUEUE_CAPACITY,   \* slots of the input ring (16 in the code)
    Kinds,            \* the events a device may produce, a subset of EventKinds
    MaxEvents,        \* bound: events the devices produce
    Bytes,            \* the bytes a peer may type on COM2, a subset of Alphabet
    MaxBytes,         \* bound: bytes the peer types
    MaxLine,          \* NORMAL_SESSION_MAX_COMMAND_LEN
    CounterMax,       \* u64::MAX of the session's counters
    Extent,           \* width of the viewport (one axis)
    Vectors           \* exception vectors native code may raise

\* A key or a motion; "Other" is any key that is not part of the activation.
EventKinds == {"Space", "Backspace", "Other", "Motion"}

\* "s" and "r" stand for the words status and recover, "x" for another ASCII
\* byte, "hi" for a byte that is not ASCII.
Alphabet == {"s", "r", "x", "hi", "CR", "LF"}

SessionAssumption ==
    /\ QUEUE_CAPACITY \in Nat \ {0, 1} /\ MaxEvents \in Nat /\ MaxBytes \in Nat
    /\ Kinds \subseteq EventKinds /\ Bytes \subseteq Alphabet
    /\ MaxLine \in Nat \ {0} /\ CounterMax \in Nat /\ Extent \in Nat \ {0}
    /\ Vectors \subseteq 0..31

Caps == {"console", "input", "command", "presentation"}
GrantOrder == <<"console", "input", "command", "presentation">>
Reasons == {"Explicit", "Input", "Presentation", "Graph", "Console", "Bootstrap", "Counter"}

\* Why the launch ended; the vector is that of a native fault, 0 otherwise.
\* "NullFault" is a native fault at address 0, "Invalid" a return whose record
\* cannot be read or does not validate.
Outcome(reason, vector) == [reason |-> reason, vector |-> vector]

VARIABLES
    phase,       \* where the kernel is in normal_session::run
    supervisor,  \* NormalSessionSupervisor.state
    boundary,    \* KernelRecovery: which grants, presenter and queue it must undo
    outcome,     \* what ended the launch
    root,        \* the active address space
    caller,      \* process_context's current process
    table,       \* the session's live capabilities in the system call table
    presenter,   \* PresentationService
    queue,       \* SessionInputQueue
    irqs,        \* PS/2 interrupts unmasked
    user,        \* the controller's own memory and program counter
    rx,          \* bytes COM2 has received and nobody has read
    produced,    \* history: the events the devices produced, in order
    delivered,   \* history: what SESSION_INPUT_TRY_READ handed to the session
    typed,       \* history: the bytes COM2 received
    replies      \* history: the lines the session wrote to COM2

kernel == <<phase, supervisor, boundary, outcome, root, caller, table>>
history == <<produced, delivered, typed, replies>>
vars == <<kernel, presenter, queue, irqs, user, rx, history>>

-----------------------------------------------------------------------------
(* The input ring *)

None == [sequence |-> -1, kind |-> "none"]

EmptyQueue ==
    [slots |-> [i \in 0..(QUEUE_CAPACITY - 1) |-> None], head |-> 0, tail |-> 0,
     next_sequence |-> 0, mode |-> "Compatibility", holder |-> "none", expected |-> 0]

Advance(i) == (i + 1) % QUEUE_CAPACITY

\* session_ready: head and tail differ.
Pending(q) == q.head # q.tail

\* publish: the sequence number is spent even when the newest event is dropped.
RingFull(q) == Advance(q.tail) = q.head

Published(q, kind) ==
    LET numbered == [q EXCEPT !.next_sequence = @ + 1]
    IN  IF RingFull(q) THEN numbered
        ELSE [numbered EXCEPT
                !.slots[q.tail] = [sequence |-> q.next_sequence, kind |-> kind],
                !.tail = Advance(q.tail)]

\* bind_session_consumer_quiescent: flush, then expect the next number.
Bound(q) ==
    [q EXCEPT !.head = q.tail, !.expected = q.next_sequence,
              !.holder = "session", !.mode = "Session"]

\* pop and the gap flag of try_read_session.
Popped(q) ==
    [q EXCEPT !.slots[q.head] = None, !.head = Advance(q.head),
              !.expected = q.slots[q.head].sequence + 1]

Received(q) ==
    LET event == q.slots[q.head]
    IN  [sequence |-> event.sequence, kind |-> event.kind,
         gap |-> event.sequence # q.expected]

-----------------------------------------------------------------------------
(* The controller: recogniser, viewing state and line editor *)

Activation == <<"Space", "Space", "Backspace", "Backspace">>

Viewing == [expected |-> -1, poisoned |-> FALSE, index |-> 0, active |-> FALSE,
            position |-> Extent \div 2, motions |-> 0]

\* ViewingState::snapshot
Snapshot(v) == IF v.active THEN v.position ELSE -1

\* SessionControlInterpreter::observe, for a key.
Recognised(v, key) ==
    IF key = Activation[v.index + 1]
    THEN IF v.index + 1 = Len(Activation)
         THEN [v EXCEPT !.index = 0, !.active = TRUE]
         ELSE [v EXCEPT !.index = @ + 1]
    ELSE [v EXCEPT !.index = IF key = "Space" THEN 1 ELSE 0]

\* ViewingState::route_relative_motion with a motion of +1, clamped.
Routed(v) ==
    IF v.active
    THEN [v EXCEPT !.position = IF @ + 1 > Extent - 1 THEN Extent - 1 ELSE @ + 1]
    ELSE [v EXCEPT !.motions = @ + 1]

\* SessionViewing::continuity
Discontinuous(v, event) ==
    /\ ~event.gap
    /\ event.sequence # (IF v.expected = -1 THEN 0 ELSE v.expected)

ObservedNoReset(v, event) ==
    IF Discontinuous(v, event) THEN [v EXCEPT !.index = 0, !.poisoned = TRUE]
    ELSE LET w == [v EXCEPT !.expected = event.sequence + 1]
         IN  IF event.kind = "Motion" THEN Routed(w) ELSE Recognised(w, event.kind)

\* SessionViewing::observe
Observed(v, event) ==
    IF Discontinuous(v, event) THEN [v EXCEPT !.index = 0, !.poisoned = TRUE]
    ELSE LET w == [v EXCEPT !.index = IF event.gap THEN 0 ELSE @,
                            !.expected = event.sequence + 1]
         IN  IF event.kind = "Motion" THEN Routed(w) ELSE Recognised(w, event.kind)

NewUser ==
    [pc |-> "initialize", viewing |-> Viewing, events |-> 0, commands |-> 0,
     revision |-> 0, line |-> <<>>, line_invalid |-> FALSE, suppress_lf |-> FALSE,
     did_work |-> FALSE, woken |-> FALSE]

\* finish_line clears the editor whatever the line was.
LineCleared(u) == [u EXCEPT !.line = <<>>, !.line_invalid = FALSE]

\* consume_console_byte, for a byte that does not finish a line.
Appended(u, byte) ==
    IF u.line_invalid THEN u
    ELSE IF byte = "hi" \/ Len(u.line) = MaxLine THEN [u EXCEPT !.line_invalid = TRUE]
    ELSE [u EXCEPT !.line = Append(@, byte)]

Command(u) ==
    IF u.line_invalid THEN "other"
    ELSE IF u.line = <<"s">> THEN "status"
    ELSE IF u.line = <<"r">> THEN "recover"
    ELSE "other"

-----------------------------------------------------------------------------
(* Launch *)

Init ==
    /\ phase = "grant" /\ supervisor = "Prepared" /\ outcome = Outcome("none", 0)
    /\ boundary = [grants |-> {}, presenter |-> FALSE, queue |-> FALSE]
    /\ root = "kernel" /\ caller = "none" /\ table = {}
    /\ presenter = [bound |-> FALSE, disabled |-> FALSE, accepted |-> <<>>]
    /\ queue = EmptyQueue /\ irqs = FALSE /\ user = NewUser /\ rx = <<>>
    /\ produced = <<>> /\ delivered = <<>> /\ typed = <<>> /\ replies = <<>>

\* Every failed launch stage leads to the supervisor with reason Launch.
LaunchFailed == phase' = "recover" /\ outcome' = Outcome("Launch", 0)

\* grant_normal_session_capabilities: four fresh grants, then the queue; when
\* the k-th grant or the binding is refused, the grants made are revoked.
Rollback(granted, owned) == granted \ owned

Grant ==
    /\ phase = "grant"
    /\ \E count \in 0..4 :
        LET owned == {GrantOrder[i] : i \in 1..count}
        IN  IF count = 4 /\ queue.mode = "Compatibility"
            THEN /\ table' = table \cup owned
                 /\ queue' = Bound(queue)
                 /\ boundary' = [boundary EXCEPT !.grants = owned, !.queue = TRUE]
                 /\ phase' = "bootstrap" /\ UNCHANGED outcome
            ELSE /\ table' = Rollback(table \cup owned, owned) /\ LaunchFailed
                 /\ UNCHANGED <<queue, boundary>>
    /\ UNCHANGED <<supervisor, root, caller, presenter, irqs, user, rx, history>>

\* The prepared image was refused, or the bootstrap could not be written.
RefuseLaunch ==
    /\ phase \in {"grant", "bootstrap"} /\ LaunchFailed
    /\ UNCHANGED <<supervisor, boundary, root, caller, table, presenter, queue,
                   irqs, user, rx, history>>

\* session_presentation::bind
BindPresenter ==
    /\ phase = "bootstrap"
    /\ \/ /\ ~presenter.bound /\ ~presenter.disabled
          /\ presenter' = [presenter EXCEPT !.bound = TRUE]
          /\ boundary' = [boundary EXCEPT !.presenter = TRUE]
          /\ phase' = "ps2" /\ UNCHANGED outcome
       \/ LaunchFailed /\ UNCHANGED <<presenter, boundary>>
    /\ UNCHANGED <<supervisor, root, caller, table, queue, irqs, user, rx, history>>

\* ps2::initialize unmasks the interrupts last; its errors come before.
InitializePs2 ==
    /\ phase = "ps2"
    /\ \/ irqs' = TRUE /\ phase' = "begin" /\ UNCHANGED outcome
       \/ LaunchFailed /\ UNCHANGED irqs
    /\ UNCHANGED <<supervisor, boundary, root, caller, table, presenter, queue,
                   user, rx, history>>

\* supervisor.begin, the session's root, run_returnable_user_process.
Enter ==
    /\ phase = "begin" /\ supervisor = "Prepared"
    /\ supervisor' = "Running" /\ root' = "session" /\ caller' = "session"
    /\ phase' = "user"
    /\ UNCHANGED <<boundary, outcome, table, presenter, queue, irqs, user, rx, history>>

-----------------------------------------------------------------------------
(* Devices *)

InterruptsOn == irqs /\ phase \in {"begin", "user", "shell"}

\* The PS/2 interrupt; it also ends the halt of a sleeping wait.
Publish ==
    /\ InterruptsOn /\ Len(produced) < MaxEvents
    /\ \E kind \in Kinds :
        /\ queue' = Published(queue, kind)
        /\ produced' = Append(produced, kind)
    /\ user' = [user EXCEPT !.woken = (user.pc = "sleep") \/ @]
    /\ UNCHANGED <<kernel, presenter, irqs, rx, delivered, typed, replies>>

\* The timer interrupt ends the halt and changes nothing else.
TimerTick ==
    /\ phase = "user" /\ user.pc = "sleep"
    /\ user' = [user EXCEPT !.woken = TRUE]
    /\ UNCHANGED <<kernel, presenter, queue, irqs, rx, history>>

Type ==
    /\ phase = "user" /\ Len(typed) < MaxBytes
    /\ \E byte \in Bytes : rx' = Append(rx, byte) /\ typed' = Append(typed, byte)
    /\ UNCHANGED <<kernel, presenter, queue, irqs, user, produced, delivered, replies>>

-----------------------------------------------------------------------------
(* The controller's steps *)

Running == phase = "user" /\ caller = "session"

At(pc) == Running /\ user.pc = pc

\* return_with_reason and the expected breakpoint: the caller is cleared with
\* the other transients before the kernel looks at the outcome.
EndsWith(result) == phase' = "returned" /\ caller' = "none" /\ outcome' = result

Ends(reason) == EndsWith(Outcome(reason, 0))

Stays == UNCHANGED <<phase, caller, outcome>>

\* session_viewing_present: capability, holder, exact next revision, render.
Presented(revision, snapshot) ==
    /\ "presentation" \in table /\ presenter.bound
    /\ revision = (IF presenter.accepted = <<>> THEN 0 ELSE presenter.accepted[1] + 1)
    /\ presenter' = [presenter EXCEPT !.accepted = <<revision, snapshot>>]

PresentRefused == UNCHANGED presenter /\ Ends("Presentation")

Initialize ==
    /\ At("initialize")
    /\ \/ /\ Presented(0, Snapshot(user.viewing)) /\ Stays
          /\ user' = [user EXCEPT !.pc = "input"]
          /\ replies' = Append(replies, [line |-> "READY"])
       \/ PresentRefused /\ UNCHANGED <<user, replies>>
       \/ /\ Presented(0, Snapshot(user.viewing))     \* the READY line is refused
          /\ Ends("Console") /\ UNCHANGED <<user, replies>>
       \/ /\ Ends("Bootstrap")                        \* the bootstrap page is
          /\ UNCHANGED <<presenter, user, replies>>
    /\ UNCHANGED <<supervisor, boundary, root, table, queue, irqs, rx, produced,
                   delivered, typed>>

\* step: try_input, the checked counters, observe.
CountEvent(u, viewing) ==
    [u EXCEPT !.viewing = viewing, !.events = @ + 1, !.revision = @ + 1,
              !.did_work = TRUE, !.pc = "present"]

TryInput ==
    /\ At("input") /\ "input" \in table /\ queue.holder = "session"
    /\ IF ~Pending(queue)
       THEN /\ user' = [user EXCEPT !.pc = "console", !.did_work = FALSE]
            /\ Stays /\ UNCHANGED <<queue, delivered>>
       ELSE LET event == Received(queue)
                viewing == Observed(user.viewing, event)
            IN  /\ queue' = Popped(queue)
                /\ delivered' = Append(delivered, event)
                /\ IF user.events = CounterMax \/ user.revision = CounterMax
                   THEN Ends("Counter") /\ UNCHANGED user
                   ELSE IF viewing.poisoned
                   THEN Ends("Input") /\ user' = [user EXCEPT !.viewing = viewing]
                   ELSE Stays /\ user' = CountEvent(user, viewing)
    /\ UNCHANGED <<supervisor, boundary, root, table, presenter, irqs, rx,
                   produced, typed, replies>>

Present ==
    /\ At("present")
    /\ \/ /\ Presented(user.revision, Snapshot(user.viewing)) /\ Stays
          /\ user' = [user EXCEPT !.pc = "console"]
       \/ PresentRefused /\ UNCHANGED user
    /\ UNCHANGED <<supervisor, boundary, root, table, queue, irqs, rx, history>>

\* run_status: the counts the reply carries, the command itself included.
StatusReply(u) ==
    [line |-> "STATUS", events |-> u.events, commands |-> u.commands + 1,
     revision |-> u.revision, snapshot |-> Snapshot(u.viewing)]

\* finish_line, on the editor as it was before the terminator.
FinishLine(u) ==
    LET cleared == LineCleared(u)
    IN  CASE Command(u) = "status" ->
               \/ /\ u.commands = CounterMax /\ Ends("Counter")
                  /\ user' = cleared /\ UNCHANGED replies
               \/ /\ u.commands < CounterMax /\ Ends("Graph")
                  /\ user' = cleared /\ UNCHANGED replies
               \/ /\ u.commands < CounterMax /\ Stays
                  /\ user' = [cleared EXCEPT !.commands = @ + 1]
                  /\ replies' = Append(replies, StatusReply(u))
          [] Command(u) = "recover" ->
               Ends("Explicit") /\ user' = cleared /\ UNCHANGED replies
          [] OTHER ->
               /\ Stays /\ user' = cleared
               /\ replies' = Append(replies, [line |-> "COMMAND_REJECTED"])

\* The line feed that follows a carriage return is part of the same terminator.
Swallowed(u, byte) == u.suppress_lf /\ byte = "LF"

TryConsole ==
    /\ At("console") /\ "console" \in table
    /\ IF rx = <<>>
       THEN /\ user' = [user EXCEPT !.pc = IF user.did_work THEN "input" ELSE "wait"]
            /\ Stays /\ UNCHANGED <<rx, replies>>
       ELSE LET byte == Head(rx)
                u == [user EXCEPT !.pc = "input", !.suppress_lf = byte = "CR"]
            IN  /\ rx' = Tail(rx)
                /\ IF Swallowed(user, byte) THEN user' = u /\ Stays /\ UNCHANGED replies
                   ELSE IF byte \in {"CR", "LF"} THEN FinishLine(u)
                   ELSE user' = Appended(u, byte) /\ Stays /\ UNCHANGED replies
    /\ UNCHANGED <<supervisor, boundary, root, table, presenter, queue, irqs,
                   produced, delivered, typed>>

\* The read of COM2 is refused, or the reply to the line the byte completes.
ConsoleRefused ==
    /\ At("console") /\ Ends("Console")
    /\ rx' \in {rx, SubSeq(rx, 2, Len(rx))}
    /\ UNCHANGED <<supervisor, boundary, root, table, presenter, queue, irqs, user,
                   history>>

\* session_wait_with: readiness is checked with interrupts off; sti;hlt;cli.
Wait ==
    /\ At("wait") /\ {"input", "console"} \subseteq table
    /\ user' = IF Pending(queue) \/ rx # <<>> THEN [user EXCEPT !.pc = "input"]
               ELSE [user EXCEPT !.pc = "sleep", !.woken = FALSE]
    /\ UNCHANGED <<kernel, presenter, queue, irqs, rx, history>>

Wake ==
    /\ At("sleep") /\ user.woken
    /\ user' = [user EXCEPT !.pc = "input"]
    /\ UNCHANGED <<kernel, presenter, queue, irqs, rx, history>>

\* handle_user_fault: any vector raised by ring-3 code is contained.
NativeFault ==
    /\ Running /\ user.pc # "sleep"
    /\ \E reason \in {"NativeFault", "NullFault"}, vector \in Vectors :
           EndsWith(Outcome(reason, vector))
    /\ UNCHANGED <<supervisor, boundary, root, table, presenter, queue, irqs, user,
                   rx, history>>

-----------------------------------------------------------------------------
(* Recovery *)

\* fatal: a diagnostic, then interrupts off for good.
Fatal == phase' = "fatal"

\* run, after the return: kernel root, caller, the record and recovery_decision.
Returned ==
    /\ phase = "returned"
    /\ root' = "kernel"
    /\ \/ phase' = "recover" /\ UNCHANGED outcome
       \/ /\ phase' = "recover" /\ outcome.reason \in Reasons
          /\ outcome' = Outcome("Invalid", 0)
       \/ Fatal /\ UNCHANGED outcome         \* validate_active refuses the root
    /\ UNCHANGED <<supervisor, boundary, caller, table, presenter, queue,
                   irqs, user, rx, history>>

\* recovery_decision accepts a valid record's reason, and a fault of vector 6,
\* 13 or 14 at an address other than 0.  The principal it also compares is the
\* session's: no other process runs.
Decided ==
    /\ outcome.reason \notin {"NullFault", "Invalid"}
    /\ outcome.reason = "NativeFault" => outcome.vector \in {6, 13, 14}

\* revoke_grants and disable_presenter: both run before either is judged.
Revoked == table \ boundary.grants

Disabled ==
    IF boundary.presenter
    THEN [presenter EXCEPT !.bound = FALSE, !.disabled = TRUE, !.accepted = <<>>]
    ELSE presenter

Recoverable == supervisor \in {"Prepared", "Running"}

Recover ==
    /\ phase = "recover" /\ Recoverable
    /\ root' = "kernel"
    /\ \/ /\ caller = "none"
          /\ table' = Revoked /\ presenter' = Disabled
          /\ boundary.queue <=> queue.mode = "Session"
          /\ supervisor' = "Recovered"
          /\ phase' = IF Decided THEN "reenter" ELSE "fatal"
       \/ /\ Fatal /\ supervisor' = "Recovering"      \* root or caller refused
          /\ UNCHANGED <<table, presenter>>
       \/ /\ Fatal /\ supervisor' = "Recovering"      \* judged after both were undone
          /\ caller = "none" /\ table' = Revoked /\ presenter' = Disabled
    /\ UNCHANGED <<boundary, outcome, caller, queue, irqs, user, rx, history>>

\* enter_recovery_shell
EnterShell ==
    /\ phase = "reenter"
    /\ \/ phase' = "shell" /\ root' = "shell" /\ caller' = "shell"
       \/ Fatal /\ UNCHANGED <<root, caller>>
    /\ UNCHANGED <<supervisor, boundary, outcome, table, presenter, queue, irqs,
                   user, rx, history>>

-----------------------------------------------------------------------------

Kernel ==
    Grant \/ RefuseLaunch \/ BindPresenter \/ InitializePs2 \/ Enter
        \/ Returned \/ Recover \/ EnterShell

Controller == Initialize \/ TryInput \/ Present \/ TryConsole \/ ConsoleRefused
                  \/ Wait \/ Wake

Next == Kernel \/ Controller \/ NativeFault \/ Publish \/ TimerTick \/ Type

\* The CPU runs the kernel and the controller, and the timer keeps ticking.
Spec ==
    /\ Init /\ [][Next]_vars
    /\ WF_vars(Kernel) /\ WF_vars(Controller) /\ WF_vars(TimerTick)

-----------------------------------------------------------------------------
(* Properties *)

Phases == {"grant", "bootstrap", "ps2", "begin", "user", "returned", "recover",
           "reenter", "shell", "fatal"}

\* The focus mark stays inside the viewport, the line inside its buffer and the
\* queue's indices inside the ring, whatever arrives.
TypeOK ==
    /\ phase \in Phases /\ table \subseteq Caps
    /\ supervisor \in {"Prepared", "Running", "Recovering", "Recovered"}
    /\ outcome \in [reason : {"none", "Launch", "NativeFault", "NullFault", "Invalid"}
                              \cup Reasons,
                    vector : Vectors \cup {0}]
    /\ queue.head \in DOMAIN queue.slots /\ queue.tail \in DOMAIN queue.slots
    /\ user.viewing.position \in 0..(Extent - 1) /\ user.viewing.index \in 0..3
    /\ Len(user.line) <= MaxLine
    /\ {user.events, user.commands, user.revision} \subseteq 0..CounterMax

\* When the recovery shell runs, nothing of the session is left: no capability
\* of its four, no presenter it could draw with, no address space or caller of
\* its own, however far the launch had come (run, recover, the rollback).
ShellAloneAuthorised ==
    phase = "shell" =>
        /\ table = {} /\ ~presenter.bound
        /\ root = "shell" /\ caller = "shell" /\ supervisor = "Recovered"

\* Each time the controller starts a step, the screen shows the state the
\* session has, at the revision it counts, and every delivered event is in it.
ScreenTracksSession ==
    At("input") =>
        /\ presenter.accepted = <<user.revision, Snapshot(user.viewing)>>
        /\ user.events = Len(delivered) /\ user.revision = user.events

Keys == SelectSeq(produced, LAMBDA k : k # "Motion")

\* The focus mark appears only if the keys Space Space Backspace Backspace were
\* really pressed one after the other: an event lost in a full ring never
\* splices an activation together.
ActivationIsReal ==
    user.viewing.active =>
        \E i \in 0..(Len(Keys) - 4) : SubSeq(Keys, i + 1, i + 4) = Activation

\* The session receives the published events in order, none twice and none
\* changed, and an event is flagged exactly when one before it was lost.
DeliveryExact ==
    \A i \in 1..Len(delivered) :
        LET previous == IF i = 1 THEN -1 ELSE delivered[i - 1].sequence
        IN  /\ delivered[i].sequence > previous
            /\ delivered[i].kind = produced[delivered[i].sequence + 1]
            /\ delivered[i].gap <=> delivered[i].sequence # previous + 1

\* The kernel's expected number and the session's agree: the session never
\* ends because of an unflagged discontinuity.
TrackersAgree == outcome.reason # "Input"

(* Reference line splitter, on everything the session has read. *)
Read == SubSeq(typed, 1, Len(typed) - Len(rx))

LineEnds(s) ==
    {i \in 1..Len(s) : s[i] = "CR" \/ (s[i] = "LF" /\ (i = 1 \/ s[i - 1] # "CR"))}

LineStart(s, end) ==
    1 + CHOOSE j \in 0..(end - 1) :
            /\ j = 0 \/ s[j] \in {"CR", "LF"}
            /\ \A k \in (j + 1)..(end - 1) : s[k] \notin {"CR", "LF"}

ReplyTo(line) == IF line = <<"s">> THEN "STATUS" ELSE "COMMAND_REJECTED"

ExpectedReplies ==
    LET ends == SetToSortSeq(LineEnds(Read), <)
        lines == [i \in DOMAIN ends |-> SubSeq(Read, LineStart(Read, ends[i]), ends[i] - 1)]
        served == SelectSeq(lines, LAMBDA l : l # <<"r">>)
    IN  [i \in DOMAIN served |-> ReplyTo(served[i])]

\* Every line typed on COM2 gets exactly its reply, in order: a carriage return
\* followed by a line feed ends one line, and a line that is too long or not
\* ASCII is refused whole and leaves nothing behind for the next one.
RepliesMatchLines ==
    phase = "user" /\ replies # <<>> =>
        [i \in 1..(Len(replies) - 1) |-> replies[i + 1].line] = ExpectedReplies

\* A status line reports what is true when it is written: the events the kernel
\* delivered, the revision and mark the presenter accepted last, and the status
\* commands completed, this one included.
StatusTruthful ==
    replies' # replies /\ Last(replies').line = "STATUS" =>
      LET r == Last(replies')
      IN  /\ r.events = Len(delivered)
          /\ <<r.revision, r.snapshot>> = presenter.accepted
          /\ r.commands = Len(SelectSeq(replies', LAMBDA x : x.line = "STATUS"))

=============================================================================

------------------------------ MODULE Scheduler ------------------------------
(***************************************************************************)
(* The scheduler bring-up of core/src/context_switch.rs and                *)
(* core/src/scheduler.rs: six self tests that core/src/main.rs runs one    *)
(* after the other on a single CPU while the 100 Hz timer interrupts it.   *)
(* The CPU is modelled as a stack of code positions and the interrupt      *)
(* flag.  A timer interrupt pushes the handler of interrupts.rs on         *)
(* whatever stack is active; a context switch saves the active stack in    *)
(* one ContextFrame and then, as two separate steps, loads the flags of    *)
(* the next frame (popfq) and its registers and stack.  Between the two    *)
(* an interrupt can arrive on the stack that is being left.                *)
(***************************************************************************)
EXTENDS Naturals, Sequences, FiniteSets

VARIABLES
    stk,          \* the active stack: a sequence of frames, the last is running
    ifl,          \* RFLAGS.IF
    ctx,          \* the static ContextFrames
    step,         \* SWITCH_STEP, PREEMPT_STEP and SCHEDTEST_STEP
    active,       \* PREEMPT_ACTIVE and SCHEDTEST_ACTIVE
    runs,         \* TASK_A_RUNS, TASK_B_RUNS and IDLE_RUNS
    cursor,       \* RoundRobinScheduler::cursor of the cooperative test
    termination,  \* TERMINATION_STATE
    log           \* the serial markers written so far

vars == <<stk, ifl, ctx, step, active, runs, cursor, termination, log>>

(***************************************************************************)
(* Tasks, contexts and code positions.                                     *)
(***************************************************************************)

\* The step at which each stepping task may run its first and its second part.
Turn == [csA |-> <<0, 2>>, csB |-> <<1, 3>>,
         prA |-> <<0, 4>>, prB |-> <<2, 6>>,
         stA |-> <<0, 6>>, stB |-> <<2, 8>>, stC |-> <<4, 10>>]

TestOf(t) ==
    CASE t \in {"csA", "csB"} -> "cs"
      [] t \in {"prA", "prB"} -> "pr"
      [] t \in {"stA", "stB", "stC"} -> "st"

\* EXPECTED_SWITCH_STEPS, EXPECTED_PREEMPT_STEP, EXPECTED_SCHEDTEST_STEP.
ExpectedStep == [cs |-> 4, pr |-> 8, st |-> 12]

\* EXPECTED_TASK_RUNS and EXPECTED_IDLE_RUNS.
ExpectedRuns == [coA |-> 2, coB |-> 2, idle |-> 1]

BootContexts == {"csBoot", "coBoot", "prBoot", "tmBoot", "stBoot"}
TaskContexts == DOMAIN Turn \cup DOMAIN ExpectedRuns \cup {"term"}
Contexts == BootContexts \cup TaskContexts

Frame(t, at, r) == [task |-> t, at |-> at, round |-> r]

Labels == {"enter", "mark", "store", "arm", "yield", "halt", "irq", "iret",
           "restore", "start", "next", "check", "panic", "done"}

Frames == [task : TaskContexts \cup BootContexts \cup
                  {"boot", "timer", "cs", "co", "id", "pr", "tm", "st"},
           at : Labels, round : 0..5]

Top == stk[Len(stk)]
At(t, at) == Top.task = t /\ Top.at = at
Below == SubSeq(stk, 1, Len(stk) - 1)
GotoFrame(f) == stk' = Append(Below, f)
Goto(at) == GotoFrame([Top EXCEPT !.at = at])

(***************************************************************************)
(* context_switch_abi.  SwitchSave stores the stack as it will be when the *)
(* saved side resumes, then popfq takes the interrupt flag of `next'       *)
(* although the old stack is still in use; Restore does the rest.          *)
(***************************************************************************)

\* ContextFrame::new: a frame at the entry of the task, interrupts enabled.
NewFrame(t) == [stk |-> <<Frame(t, "enter", 1)>>, ifl |-> TRUE]

SwitchSave(frames, current, next, resume) ==
    /\ ctx' = [frames EXCEPT ![current] = [stk |-> resume, ifl |-> ifl]]
    /\ ifl' = frames[next].ifl
    /\ stk' = Append(resume, Frame(next, "restore", 0))

Restore ==
    /\ Top.at = "restore"
    /\ stk' = ctx[Top.task].stk
    /\ UNCHANGED <<ifl, ctx, step, active, runs, cursor, termination, log>>

(***************************************************************************)
(* RoundRobinScheduler::next_ready over tasks, a sequence of records.      *)
(* The result is the index found, or 0 for NoReadyTask, and the cursor.    *)
(***************************************************************************)

NextReady(tasks, cur) ==
    LET n == Len(tasks)
        ready == {k \in 0..(n - 1) : tasks[((cur + k) % n) + 1].ready}
    IN IF ready = {} THEN [index |-> 0, cursor |-> cur]
       ELSE LET k == CHOOSE k \in ready : \A j \in ready : k <= j
            IN [index |-> ((cur + k) % n) + 1, cursor |-> (cur + k + 1) % n]

Cooperative == <<[id |-> "coA", ready |-> TRUE], [id |-> "coB", ready |-> TRUE]>>

(***************************************************************************)
(* Initial state: main.rs has enabled the timer and calls the first test.  *)
(***************************************************************************)

Init ==
    /\ stk = <<Frame("cs", "start", 1)>>
    /\ ifl = TRUE
    /\ ctx = [c \in Contexts |-> [stk |-> <<>>, ifl |-> TRUE]]
    /\ step = [cs |-> 0, pr |-> 0, st |-> 0]
    /\ active = [pr |-> FALSE, st |-> FALSE]
    /\ runs = [coA |-> 0, coB |-> 0, idle |-> 0]
    /\ cursor = 0
    /\ termination = "none"
    /\ log = <<>>

(***************************************************************************)
(* The boot side: each self test prepares its frames, switches to its      *)
(* first task and checks what the tasks left when the switch returns.      *)
(* A failed check is main.rs's PANIC.                                      *)
(***************************************************************************)

Fresh(tasks) ==
    [c \in Contexts |-> IF c \in tasks THEN NewFrame(c) ELSE ctx[c]]

\* context_switch::run_self_test up to its switch.
SwitchTest ==
    /\ At("cs", "start")
    /\ step' = [step EXCEPT !.cs = 0]
    /\ SwitchSave(Fresh({"csA", "csB"}), "csBoot", "csA", Append(Below, Frame("cs", "check", 1)))
    /\ UNCHANGED <<active, runs, cursor, termination, log>>

\* scheduler::run_self_test up to its loop over `expected'.
CooperativeTest ==
    /\ At("co", "start")
    /\ runs' = [runs EXCEPT !.coA = 0, !.coB = 0]
    /\ cursor' = 0
    /\ ctx' = Fresh({"coA", "coB"})
    /\ GotoFrame(Frame("co", "next", 1))
    /\ UNCHANGED <<ifl, step, active, termination, log>>

\* One turn of that loop: next_ready, the comparison, switch_to.
CooperativeTurn ==
    /\ At("co", "next") /\ Top.round <= 4
    /\ LET next == NextReady(Cooperative, cursor)
           expected == <<"coA", "coB", "coA", "coB">>[Top.round]
       IN IF next.index = 0 \/ Cooperative[next.index].id # expected
          THEN Goto("panic") /\ UNCHANGED <<ifl, ctx, cursor>>
          ELSE /\ cursor' = next.cursor
               /\ SwitchSave(ctx, "coBoot", expected, Append(Below, Frame("co", "next", Top.round + 1)))
    /\ UNCHANGED <<step, active, runs, termination, log>>

CooperativeEnd ==
    /\ At("co", "next") /\ Top.round = 5
    /\ Goto("check")
    /\ UNCHANGED <<ifl, ctx, step, active, runs, cursor, termination, log>>

\* run_idle_self_test up to its switch.
IdleTest ==
    /\ At("id", "start")
    /\ runs' = [runs EXCEPT !.idle = 0]
    /\ IF NextReady(<<>>, 0).index # 0
       THEN Goto("panic") /\ UNCHANGED <<ifl, ctx>>
       ELSE SwitchSave(Fresh({"idle"}), "coBoot", "idle", Append(Below, Frame("id", "check", 1)))
    /\ UNCHANGED <<step, active, cursor, termination, log>>

\* run_preemption_self_test up to its switch.
PreemptionTest ==
    /\ At("pr", "start")
    /\ step' = [step EXCEPT !.pr = 0]
    /\ active' = [active EXCEPT !.pr = FALSE]
    /\ SwitchSave(Fresh({"prA", "prB"}), "prBoot", "prA", Append(Below, Frame("pr", "check", 1)))
    /\ UNCHANGED <<runs, cursor, termination, log>>

\* run_task_termination_self_test up to its switch.
TerminationTest ==
    /\ At("tm", "start")
    /\ termination' = "ready"
    /\ SwitchSave(Fresh({"term"}), "tmBoot", "term", Append(Below, Frame("tm", "check", 1)))
    /\ UNCHANGED <<step, active, runs, cursor, log>>

\* run_scheduler_acceptance_self_test: the counter, the flag, then the frames.
AcceptanceStart ==
    /\ At("st", "start")
    /\ step' = [step EXCEPT !.st = 0]
    /\ Goto("arm")
    /\ UNCHANGED <<ifl, ctx, active, runs, cursor, termination, log>>

AcceptanceArm ==
    /\ At("st", "arm")
    /\ active' = [active EXCEPT !.st = TRUE]
    /\ Goto("next")
    /\ UNCHANGED <<ifl, ctx, step, runs, cursor, termination, log>>

AcceptanceSwitch ==
    /\ At("st", "next")
    /\ SwitchSave(Fresh({"stA", "stB", "stC"}), "stBoot", "stA",
                  Append(Below, Frame("st", "check", 1)))
    /\ UNCHANGED <<step, active, runs, cursor, termination, log>>

\* What each self test demands once it has control again.
Passed(test) ==
    CASE test \in {"cs", "pr", "st"} -> step[test] = ExpectedStep[test]
      [] test = "co" -> \A t \in {"coA", "coB"} : runs[t] = ExpectedRuns[t]
      [] test = "id" -> runs.idle = ExpectedRuns.idle
      [] test = "tm" -> /\ termination = "exited"
                        /\ NextReady(<<[id |-> "coA", ready |-> FALSE]>>, 0).index = 0

\* The order in which main.rs calls them.
Following == [cs |-> "co", co |-> "id", id |-> "pr", pr |-> "tm", tm |-> "st"]

\* The end of a self test and the call of the next one.
TestEnd(test) ==
    /\ At(test, "check")
    /\ active' = IF test \in {"pr", "st"} THEN [active EXCEPT ![test] = FALSE] ELSE active
    /\ termination' = IF test = "tm" /\ termination = "exited" THEN "reclaimed" ELSE termination
    /\ IF ~Passed(test)
       THEN Goto("panic") /\ UNCHANGED log
       ELSE /\ log' = Append(log, test)
            /\ IF test = "st" THEN Goto("done")
               ELSE GotoFrame(Frame(Following[test], "start", 1))
    /\ UNCHANGED <<ifl, ctx, step, runs, cursor>>

(***************************************************************************)
(* The tasks.  Every one writes its marker in a step of its own: a timer   *)
(* interrupt may come before and after it.                                 *)
(***************************************************************************)

Mark(t, next) ==
    /\ At(t, "mark")
    /\ log' = Append(log, t)
    /\ Goto(next)
    /\ UNCHANGED <<ifl, ctx, step, active, runs, cursor, termination>>

\* compare_exchange on the test's step at the entry of a task or in its loop:
\* the first one halts the task when it fails, a later one spins.
ExchangeStep(t) ==
    LET due == step[TestOf(t)] = Turn[t][Top.round]
    IN /\ At(t, "enter")
       /\ due \/ Top.round = 1 \/ TestOf(t) = "cs"
       /\ Goto(IF due THEN "mark" ELSE "halt")
       /\ step' = IF due THEN [step EXCEPT ![TestOf(t)] = @ + 1] ELSE step
       /\ UNCHANGED <<ifl, ctx, active, runs, cursor, termination, log>>

\* context_switch::task_a_entry and task_b_entry: exchange, marker, switch.
SwitchTargets == [csA |-> <<"csB", "csB">>, csB |-> <<"csA", "csBoot">>]

SwitchTask(t) ==
    \/ ExchangeStep(t)
    \/ Mark(t, "yield")
    \/ /\ At(t, "yield")
       /\ SwitchSave(ctx, t, SwitchTargets[t][Top.round],
                     Append(Below, IF Top.round = 1 THEN Frame(t, "enter", 2) ELSE Frame(t, "halt", 2)))
       /\ UNCHANGED <<step, active, runs, cursor, termination, log>>

\* scheduler::task_a_entry, task_b_entry and idle_task_entry.
CountedTask(t) ==
    \/ /\ At(t, "enter")
       /\ runs' = [runs EXCEPT ![t] = @ + 1]
       /\ Goto(IF runs[t] >= ExpectedRuns[t] THEN "halt" ELSE "mark")
       /\ UNCHANGED <<ifl, ctx, step, active, cursor, termination, log>>
    \/ Mark(t, "yield")
    \/ /\ At(t, "yield")  \* yield_to_scheduler
       /\ SwitchSave(ctx, t, "coBoot", Append(Below, Frame(t, "enter", 1)))
       /\ UNCHANGED <<step, active, runs, cursor, termination, log>>

\* The loads of preempt_task_a_entry and preempt_task_b_entry.
PreemptLoad(t) ==
    LET due == step.pr = Turn[t][Top.round]
    IN /\ At(t, "enter")
       /\ due \/ Top.round = 1
       /\ Goto(IF due THEN "mark" ELSE "halt")
       /\ UNCHANGED <<ifl, ctx, step, active, runs, cursor, termination, log>>

\* Their stores, and the store that arms the timer handler in task A.
\* Mutant: task A stores its step and never arms the timer handler.
PreemptStoreUnarmed(t) ==
    /\ At(t, "store")
    /\ step' = [step EXCEPT !.pr = Turn[t][Top.round] + 1]
    /\ GotoFrame(Frame(t, "enter", 2))
    /\ UNCHANGED <<ifl, ctx, active, runs, cursor, termination, log>>

PreemptStore(t) ==
    /\ At(t, "store")
    /\ step' = [step EXCEPT !.pr = Turn[t][Top.round] + 1]
    /\ GotoFrame(IF t = "prA" /\ Top.round = 1 THEN Frame(t, "arm", 1) ELSE Frame(t, "enter", 2))
    /\ UNCHANGED <<ifl, ctx, active, runs, cursor, termination, log>>

PreemptArm(t) ==
    /\ At(t, "arm")
    /\ active' = [active EXCEPT !.pr = TRUE]
    /\ GotoFrame(Frame(t, "enter", 2))
    /\ UNCHANGED <<ifl, ctx, step, runs, cursor, termination, log>>

PreemptTask(t) ==
    \/ PreemptLoad(t)
    \/ Mark(t, "store")
    \/ PreemptStore(t)
    \/ PreemptArm(t)

\* schedtest_task_a_entry, _b_entry and _c_entry: exchange first, marker after.
AcceptanceTask(t) ==
    \/ ExchangeStep(t)
    \/ /\ At(t, "mark")
       /\ log' = Append(log, t)
       /\ GotoFrame(Frame(t, "enter", 2))
       /\ UNCHANGED <<ifl, ctx, step, active, runs, cursor, termination>>

\* terminating_task_entry.
TerminatingTask ==
    \/ /\ At("term", "enter")
       /\ Goto(IF termination = "ready" THEN "mark" ELSE "halt")
       /\ termination' = IF termination = "ready" THEN "running" ELSE termination
       /\ UNCHANGED <<ifl, ctx, step, active, runs, cursor, log>>
    \/ Mark("term", "store")
    \/ /\ At("term", "store")
       /\ termination' = "exited"
       /\ SwitchSave(ctx, "term", "tmBoot", Append(Below, Frame("term", "halt", 1)))
       /\ UNCHANGED <<step, active, runs, cursor, log>>

(***************************************************************************)
(* The timer interrupt: external_interrupt_handler acknowledges it and     *)
(* calls handle_timer_preemption, which switches at the odd steps only.    *)
(***************************************************************************)

\* The current and the next context at each step that switches.
Handoffs ==
    [pr |-> [s \in {1, 3, 5, 7} |->
               CASE s = 1 -> <<"prA", "prB">> [] s = 3 -> <<"prB", "prA">>
                 [] s = 5 -> <<"prA", "prB">> [] s = 7 -> <<"prB", "prBoot">>],
     st |-> [s \in {1, 3, 5, 7, 9, 11} |->
               CASE s = 1 -> <<"stA", "stB">> [] s = 3 -> <<"stB", "stC">>
                 [] s = 5 -> <<"stC", "stA">> [] s = 7 -> <<"stA", "stB">>
                 [] s = 9 -> <<"stB", "stC">> [] s = 11 -> <<"stC", "stBoot">>]]

\* The test the handler acts for: PREEMPT_ACTIVE is read first.
Ticked == {t \in {"pr", "st"} : active[t] /\ (t = "st" => ~active.pr)}

Switching(t) == t \in Ticked /\ step[t] \in DOMAIN Handoffs[t]

Tick ==
    /\ ifl
    /\ stk' = Append(stk, Frame("timer", "irq", 0))
    /\ ifl' = FALSE
    /\ UNCHANGED <<ctx, step, active, runs, cursor, termination, log>>

\* Nothing to switch: the handler returns.
TickIgnored ==
    /\ At("timer", "irq")
    /\ \A t \in {"pr", "st"} : ~Switching(t)
    /\ Goto("iret")
    /\ UNCHANGED <<ifl, ctx, step, active, runs, cursor, termination, log>>

\* Mutant: the step is not advanced before the switch.
TickSwitchStale(t) ==
    /\ At("timer", "irq") /\ Switching(t)
    /\ LET pair == Handoffs[t][step[t]]
       IN SwitchSave(ctx, pair[1], pair[2], Append(Below, Frame("timer", "iret", 0)))
    /\ UNCHANGED <<step, active, runs, cursor, termination, log>>

\* switch_on_timer and switch_on_scheduler_test_timer, with the last step's
\* arm, which also disarms the handler.
TickSwitch(t) ==
    /\ At("timer", "irq") /\ Switching(t)
    /\ step' = [step EXCEPT ![t] = @ + 1]
    /\ active' = [active EXCEPT ![t] = step[t] + 1 # ExpectedStep[t]]
    /\ LET pair == Handoffs[t][step[t]]
       IN SwitchSave(ctx, pair[1], pair[2], Append(Below, Frame("timer", "iret", 0)))
    /\ UNCHANGED <<runs, cursor, termination, log>>

\* iretq: only code that had interrupts enabled is interrupted.
InterruptReturn ==
    /\ At("timer", "iret")
    /\ stk' = Below
    /\ ifl' = TRUE
    /\ UNCHANGED <<ctx, step, active, runs, cursor, termination, log>>

(***************************************************************************)
(* The specification.  Code makes progress between two interrupts (strong  *)
(* fairness: 10 ms lie between two ticks) and the timer keeps ticking.     *)
(***************************************************************************)

BootStep ==
    \/ SwitchTest \/ CooperativeTest \/ CooperativeTurn \/ CooperativeEnd
    \/ IdleTest \/ PreemptionTest \/ TerminationTest
    \/ AcceptanceStart \/ AcceptanceArm \/ AcceptanceSwitch
    \/ \E test \in {"cs", "co", "id", "pr", "tm", "st"} : TestEnd(test)

TaskStep ==
    \/ \E t \in {"csA", "csB"} : SwitchTask(t)
    \/ \E t \in {"coA", "coB", "idle"} : CountedTask(t)
    \/ \E t \in {"prA", "prB"} : PreemptTask(t)
    \/ \E t \in {"stA", "stB", "stC"} : AcceptanceTask(t)
    \/ TerminatingTask

HandlerStep ==
    \/ TickIgnored
    \/ \E t \in {"pr", "st"} : TickSwitch(t)
    \/ InterruptReturn

Next == BootStep \/ TaskStep \/ Restore \/ HandlerStep \/ Tick

Spec == Init /\ [][Next]_vars

(***************************************************************************)
(* Properties.                                                             *)
(***************************************************************************)

IsStack(s) == \A i \in 1..Len(s) : s[i] \in Frames

\* The types of the CPU, the context frames and the static counters.
TypeOK ==
    /\ stk # <<>> /\ IsStack(stk)
    /\ ifl \in BOOLEAN
    /\ DOMAIN ctx = Contexts
    /\ \A c \in Contexts : ctx[c].ifl \in BOOLEAN /\ IsStack(ctx[c].stk)
    /\ step \in [{"cs", "pr", "st"} -> 0..12]
    /\ active \in [{"pr", "st"} -> BOOLEAN]
    /\ runs \in [DOMAIN ExpectedRuns -> 0..3]
    /\ cursor \in 0..1
    /\ termination \in {"none", "ready", "running", "exited", "reclaimed"}

\* Every saved context belongs to the task it is named after and was saved at
\* a point where that task, and not another one's half-done restore, was
\* running: resuming it continues the task exactly where it stopped.
\* (context_switch_abi reenables interrupts before it has left the old stack;
\* handle_preemption_tick must not switch in that window.)
ContextsKept ==
    \A c \in Contexts :
        LET s == ctx[c].stk
        IN s # <<>> =>
             /\ IF c \in BootContexts THEN s[1].task \notin TaskContexts ELSE s[1].task = c
             /\ \A i \in 1..Len(s) : s[i].at # "restore"

\* The markers scripts/test-boot.py waits for, in its order.
ExpectedLog ==
    <<"csA", "csB", "csA", "csB", "cs", "coA", "coB", "coA", "coB", "co", "idle", "id",
      "prA", "prB", "prA", "prB", "pr", "term", "tm",
      "stA", "stB", "stC", "stA", "stB", "stC", "st">>

\* Up to the acceptance test the markers come in the order the boot test
\* waits for, whenever the timer ticks.
MarkersInOrder ==
    \A i \in 1..Len(log) : i <= 19 => log[i] = ExpectedLog[i]

\* No task reaches halt_bad_switch or halt_bad_schedule, and no self test
\* returns an error to main.rs, wherever the interrupts fall.
SelfTestsSucceed == Top.at \notin {"halt", "panic"}

=============================================================================

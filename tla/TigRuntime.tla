----------------------------- MODULE TigRuntime -----------------------------
(***************************************************************************)
(* One launch of a PythTIG graph: PythCore verifies the package and checks *)
(* the runtime profile (pyth_graph_loader.rs), authorises the imports and  *)
(* builds the bootstrap block, binds the deferred import after the address *)
(* space is active and enters ring 3 (pyth_runtime_launch.rs,              *)
(* normal_boot.rs); the runtime validates the bootstrap and interprets the *)
(* graph (user/pyth-runtime).  The two sides meet only in the package and  *)
(* the bootstrap: the interpreter trusts that the verifier ran.            *)
(*                                                                         *)
(* A launch is [path, deferred, workspace]: "named" is a graph of the init *)
(* bundle, "package" an export of an installed package, "command" the      *)
(* graph of the normal session.  The host behind the Host trait is         *)
(* external: any call may fail, be denied, or answer anything its type     *)
(* allows.                                                                 *)
(***************************************************************************)
EXTENDS TigVerifier

CONSTANTS Packages,     \* packages offered for a launch
          Launches,     \* launches under test
          Budget,       \* PYTH_GRAPH_DEFAULT_BUDGET, scaled down
          HostScalars   \* values a host may return in an integer field

BudgetAssumption == Budget \in Nat \ {0}

VARIABLES pkg, launch,
          phase,     \* load, bind, enter, start, run, exit, done;
                     \* refused, halted (kernel panic), spin (runtime gave up)
          verdict,   \* answer of verify_bytes, "none" before
          bindings,  \* capability per import index
          budget, block, at,
          values,    \* Option<Value> per node
          results,   \* Option<HostCallResult> per node
          effects,   \* history: host calls made, with the token each consumed
          exit       \* the exit record

vars == <<pkg, launch, phase, verdict, bindings, budget, block, at, values,
          results, effects, exit>>

Handle(kind, rights) == [kind |-> kind, rights |-> rights]

Zero == Handle("zero", {})

Refused == Handle("refused", {})

NoneYet == [type |-> "none", x |-> 0, cap |-> Zero]

Scalar(type, x) == [type |-> type, x |-> x, cap |-> Zero]

NoResult == [made |-> FALSE, cap |-> FALSE, utf8 |-> FALSE, x |-> 0]

NoExit == [status |-> "none", error |-> "none", last |-> NoValue]

(* A launch before anything of the package has been read.                   *)
Fresh ==
    /\ launch \in Launches
    /\ phase = "load" /\ verdict = "none"
    /\ bindings = << >> /\ budget = 0 /\ block = 0 /\ at = 0
    /\ values = << >> /\ results = << >> /\ effects = << >> /\ exit = NoExit

Init == pkg \in Packages /\ Fresh

-----------------------------------------------------------------------------
(* Admission                                                                *)

ProfileOpcodes ==
    {"ConstU64", "EffectStart", "ConstBytes", "ConstUtf8", "HostResult", "Eq",
     "LessThanU64", "SystemLog", "ObjectCreate", "ObjectQuery", "ObjectInspect",
     "ObjectRevise", "ObjectHistory", "TaskContextRead", "TaskProposalEmit",
     "CommandRead", "CommandResultEmit", "Branch", "Jump", "Return"}

ValidatePhase2RuntimeProfile(p) ==
    /\ \A i \in DOMAIN p.blocks :
         LET t == Terminator(p, i) IN
         t.op = "Jump" => p.blocks[t.aux0].params = 0 /\ Provided(t) = 0
    /\ \A n \in DOMAIN p.nodes :
         \/ p.nodes[n].op \in ProfileOpcodes
         \/ p.nodes[n].op = "BlockParam" /\ p.nodes[n].type = "Capability"

(* load_named_pyth_graph enforces the profile; validate_package_export_graph*)
(* stops after the verifier.                                                *)
Load ==
    /\ phase = "load"
    /\ verdict' = VerifyBytes(pkg)
    /\ phase' = CASE verdict' = "panic"       -> "halted"
                  [] verdict' # "accepted"    -> "refused"
                  [] launch.path = "package"  -> "bind"
                  [] ValidatePhase2RuntimeProfile(pkg) -> "bind"
                  [] OTHER                    -> "refused"
    /\ UNCHANGED <<pkg, launch, bindings, budget, block, at, values, results, effects, exit>>

-----------------------------------------------------------------------------
(* Import authorisation                                                     *)

LogCap == Handle("Log", {"READ"})

WorkspaceCap == Handle("Workspace", {"CREATE", "QUERY"})

StewardCap == Handle("Task", {"READ", "CREATE"})

CommandCap == Handle("Command", {"READ", "APPEND"})

TestObjectCap == Handle("Object", {"READ"})

ValidObjectWorkspaceRights(rights) == rights # {} /\ rights \subseteq {"CREATE", "QUERY"}

WorkspaceImport(i) == i.kind = "Workspace" /\ ValidObjectWorkspaceRights(i.rights)

TaskImport(i) == i.kind = "Task" /\ i.rights \in {{"READ"}, {"CREATE"}}

LogImport(i) == i.kind = "Log" /\ i.rights = {"READ"}

(* What the import may be bound to before the kind of launch is considered: *)
(* the handle itself, Zero to be filled after activation, or Refused.       *)
LaunchCapability(i, granted) ==
    CASE launch.path = "command" ->
           IF i.kind = "Command" /\ i.rights = {"READ", "APPEND"} THEN CommandCap ELSE Refused
      [] launch.path = "package" ->
           IF ~(LogImport(i) \/ WorkspaceImport(i) \/ TaskImport(i)) THEN Refused
           ELSE IF i.slot \in granted THEN Handle(i.kind, i.rights) ELSE Zero
      [] launch.deferred = "TestObject" ->
           IF i.kind = "Object" /\ i.rights = {"READ"} THEN Zero ELSE Refused
      [] LogImport(i) -> LogCap
      [] WorkspaceImport(i) /\ launch.deferred = "None" ->
           IF launch.workspace THEN WorkspaceCap ELSE Zero
      [] WorkspaceImport(i) /\ launch.deferred = "Workspace" -> Zero
      [] TaskImport(i) /\ launch.deferred = "None" -> StewardCap
      [] TaskImport(i) /\ launch.deferred = "Steward" -> Zero
      [] OTHER -> Refused

BindImportCapability(i, granted) ==
    LET capability == LaunchCapability(i, granted) IN
    IF capability = Zero /\ launch.deferred = "None" THEN Refused ELSE capability

(* build_pyth_graph_bootstrap_with_binding, build_pyth_command_graph_...,   *)
(* prepare_package_launch_runtime_bootstrap; granted is the set of import   *)
(* slots the package service issued a grant for.                            *)
BuildBootstrap ==
    /\ phase = "bind"
    /\ \E granted \in IF launch.path = "package"
                      THEN SUBSET {pkg.imports[i].slot : i \in DOMAIN pkg.imports}
                      ELSE {{}} :
         LET bound == [i \in DOMAIN pkg.imports |-> BindImportCapability(pkg.imports[i], granted)]
         IN IF \/ DOMAIN pkg.imports = {}
               \/ launch.path = "command" /\ Count(pkg.imports) # 1
               \/ \E i \in DOMAIN bound : bound[i] = Refused
            THEN phase' = "refused" /\ bindings' = bindings
            ELSE phase' = "enter" /\ bindings' = bound
    /\ UNCHANGED <<pkg, launch, verdict, budget, block, at, values, results, effects, exit>>

-----------------------------------------------------------------------------
(* launch_pyth_graph_runtime_with_deferred_import: the grant the kernel     *)
(* makes for the deferred import, bind_deferred_import, the markers, entry. *)

DeferredCapability ==
    CASE launch.deferred = "Workspace" -> WorkspaceCap
      [] launch.deferred = "Steward"   -> StewardCap
      [] OTHER                         -> TestObjectCap

DeferredMatches(i) ==
    CASE launch.deferred = "Workspace" -> WorkspaceImport(pkg.imports[i])
      [] launch.deferred = "Steward"   -> pkg.imports[i].kind = "Task"
      [] OTHER -> pkg.imports[i].kind = "Object" /\ pkg.imports[i].rights = {"READ"}

(* The first matching import; the steward binds every task import.          *)
BindDeferredImport ==
    LET matching == {i \in DOMAIN pkg.imports : DeferredMatches(i)}
        chosen == IF launch.deferred = "Steward" THEN matching
                  ELSE {i \in matching : \A j \in matching : i <= j}
    IN [i \in DOMAIN bindings |-> IF i \in chosen THEN DeferredCapability ELSE bindings[i]]

EnterRuntime ==
    /\ phase = "enter"
    /\ \E grantOk \in BOOLEAN :
         IF launch.deferred = "None"
         THEN grantOk /\ phase' = "start" /\ bindings' = bindings
         ELSE IF grantOk /\ \E i \in DOMAIN pkg.imports : DeferredMatches(i)
         THEN phase' = "start" /\ bindings' = BindDeferredImport
         ELSE phase' = "halted" /\ bindings' = bindings
    /\ UNCHANGED <<pkg, launch, verdict, budget, block, at, values, results, effects, exit>>

(* _start: validate_bootstrap and import_table_into give up on a zero       *)
(* capability; otherwise a fresh interpreter starts at the entry block.     *)
StartRuntime ==
    /\ phase = "start"
    /\ IF \E i \in DOMAIN bindings : bindings[i] = Zero
       THEN phase' = "spin" /\ UNCHANGED <<budget, block, at, values, results>>
       ELSE /\ phase' = "run" /\ budget' = Budget
            /\ block' = pkg.entry /\ at' = pkg.blocks[pkg.entry].first
            /\ values' = [n \in DOMAIN pkg.nodes |-> NoneYet]
            /\ results' = [n \in DOMAIN pkg.nodes |-> NoResult]
    /\ UNCHANGED <<pkg, launch, verdict, bindings, effects, exit>>

-----------------------------------------------------------------------------
(* The interpreter                                                          *)

Node == IF at \in DOMAIN pkg.nodes THEN pkg.nodes[at]
        ELSE [op |-> "none", type |-> "none", in |-> <<NoValue, NoValue, NoValue, NoValue>>,
              aux0 |-> 0, aux1 |-> 0, imm |-> 0, block |-> 0]

Dispatching(ops) == phase = "run" /\ budget > 0 /\ Node.op \in ops

Spend == budget' = budget - 1

Fail(error) ==
    /\ phase' = "exit"
    /\ exit' = [status |-> "RuntimeError", error |-> error, last |-> at]
    /\ UNCHANGED <<block, at, values>>

(* store_value, then the next node of the block; a block that ends without  *)
(* a terminator is an error.                                                *)
Store(value) ==
    /\ values' = [values EXCEPT ![at] = value]
    /\ block' = block
    /\ IF at + 1 < BlockEnd(pkg.blocks[block])
       THEN at' = at + 1 /\ UNCHANGED <<phase, exit>>
       ELSE /\ at' = at /\ phase' = "exit"
            /\ exit' = [status |-> "RuntimeError", error |-> "InvalidBlock", last |-> at]

Unmoved == UNCHANGED <<pkg, launch, verdict, bindings>>

ExecBlockParam ==
    /\ Dispatching({"BlockParam"})
    /\ Spend
    /\ LET slots == {i \in DOMAIN pkg.imports : pkg.imports[i].slot = Node.aux0}
       IN IF Node.type # "Capability" THEN Fail("UnsupportedOpcode")
          ELSE IF \A i \in slots : bindings[i] = Zero THEN Fail("MissingImport")
          ELSE \E i \in slots : /\ bindings[i] # Zero
                                /\ Store([NoneYet EXCEPT !.type = "Capability", !.cap = bindings[i]])
    /\ Unmoved /\ UNCHANGED <<results, effects>>

ConstType ==
    CASE Node.op = "ConstBool"   -> "Bool"
      [] Node.op = "ConstUtf8"   -> "Utf8"
      [] Node.op = "ConstBytes"  -> "Bytes"
      [] Node.op = "EffectStart" -> "Effect"
      [] OTHER                   -> Node.type

ConstTypes == {"U64", "ObjectId", "RevisionId", "TaskId", "ProposalId", "ErrorCode"}

ConstError ==
    CASE Node.op = "ConstBool" /\ Node.type # "Bool"          -> "UnsupportedOpcode"
      [] Node.op = "ConstBool" /\ Node.imm \notin {0, 1}      -> "InvalidValue"
      [] Node.op = "ConstU64" /\ Node.type \notin ConstTypes  -> "UnsupportedOpcode"
      [] Node.op = "ConstU64" /\ Node.type = "ErrorCode" /\ Node.imm > U16Max -> "InvalidValue"
      [] Node.op = "ConstUtf8" /\ (Node.aux1 > U16Max \/ Node.aux0 + Node.aux1 > pkg.strings)
                                                              -> "InvalidString"
      [] Node.op = "ConstBytes" /\ Node.aux0 + Node.aux1 > pkg.pool -> "InvalidString"
      [] OTHER                                                -> "none"

ExecConst ==
    /\ Dispatching({"ConstBool", "ConstU64", "ConstUtf8", "ConstBytes", "EffectStart"})
    /\ Spend
    /\ IF ConstError # "none" THEN Fail(ConstError)
       ELSE Store(Scalar(ConstType, IF Node.op = "EffectStart" THEN at ELSE Node.imm))
    /\ Unmoved /\ UNCHANGED <<results, effects>>

(* The expect_* sequence of each operation, in operand order.               *)
Expected ==
    [Eq |-> <<"U64", "U64">>, LessThanU64 |-> <<"U64", "U64">>, Branch |-> <<"Bool">>,
     SystemLog         |-> <<"Effect", "Capability", "Utf8">>,
     ObjectCreate      |-> <<"Effect", "Capability", "Utf8">>,
     ObjectQuery       |-> <<"Effect", "Capability", "Utf8">>,
     ObjectInspect     |-> <<"Effect", "Capability", "ObjectId">>,
     ObjectRevise      |-> <<"Effect", "Capability", "ObjectId", "Bytes">>,
     ObjectHistory     |-> <<"Effect", "Capability", "ObjectId">>,
     TaskContextRead   |-> <<"Effect", "Capability">>,
     TaskProposalEmit  |-> <<"Effect", "Capability", "TaskId", "U64">>,
     CommandRead       |-> <<"Effect", "Capability">>,
     CommandResultEmit |-> <<"Effect", "Capability", "ErrorCode", "Utf8">>]

Operand(k) == IF Node.in[k] \in DOMAIN values THEN values[Node.in[k]] ELSE NoneYet

OperandError ==
    LET want == Expected[Node.op]
        bad == {k \in DOMAIN want : Operand(k).type # want[k]}
    IN IF bad = {} THEN "none"
       ELSE LET k == CHOOSE j \in bad : \A l \in bad : j <= l
            IN IF Operand(k).type = "none" THEN "InvalidInput" ELSE "InvalidValue"

ExecCompare ==
    /\ Dispatching({"Eq", "LessThanU64"})
    /\ Spend
    /\ LET holds == IF Node.op = "Eq" THEN Operand(1).x = Operand(2).x
                    ELSE Operand(1).x < Operand(2).x
       IN IF Node.type # "Bool" THEN Fail("UnsupportedOpcode")
          ELSE IF OperandError # "none" THEN Fail(OperandError)
          ELSE Store(Scalar("Bool", IF holds THEN 1 ELSE 0))
    /\ Unmoved /\ UNCHANGED <<results, effects>>

ResultFieldType(op, f) ==
    LET fields == CASE op = "TaskContextRead" -> <<"TaskId", "TaskId", "U64", "U64", "Utf8">>
                    [] op = "CommandRead" -> <<"U64", "ObjectId", "TaskId", "ProposalId", "Utf8">>
                    [] OTHER -> <<"ErrorCode", "ObjectId", "RevisionId", "Capability", "Utf8">>
    IN IF f + 1 \in DOMAIN fields THEN fields[f + 1] ELSE "none"

ExecHostResult ==
    /\ Dispatching({"HostResult"})
    /\ Spend
    /\ LET producer == Node.in[1]
           answer == IF producer \in DOMAIN results THEN results[producer] ELSE NoResult
           type == IF answer.made THEN ResultFieldType(pkg.nodes[producer].op, Node.aux0) ELSE "none"
           error == CASE producer \notin DOMAIN results            -> "InvalidInput"
                      [] type = "none"                             -> "InvalidValue"
                      [] type = "Capability" /\ ~answer.cap        -> "InvalidValue"
                      [] type = "Utf8" /\ ~answer.utf8             -> "InvalidString"
                      [] OTHER                                     -> "none"
       IN IF error # "none" THEN Fail(error)
          ELSE Store([type |-> type, x |-> IF type = "U64" THEN answer.x ELSE 0,
                      cap |-> IF type = "Capability"
                              THEN Handle("Object", {"READ", "REVISE"}) ELSE Zero])
    /\ Unmoved /\ UNCHANGED <<results, effects>>

UnitCalls == {"SystemLog", "TaskProposalEmit", "CommandResultEmit"}

TextCalls == {"TaskContextRead", "CommandRead"}

HostCalls == DOMAIN HostSignatures \cap DOMAIN Expected

(* Answers of the host that reach the interpreter: an error, a result whose *)
(* reserved or length fields are out of form, or a well-formed result.      *)
HostAnswers ==
    {[error |-> e, result |-> NoResult] : e \in {"Denied", "Failed"}}
      \cup (IF Node.op \in UnitCalls THEN {[error |-> "none", result |-> NoResult]}
            ELSE {[error |-> "InvalidValue", result |-> NoResult]}
                   \cup {[error |-> IF Node.op \in TextCalls /\ ~u THEN "InvalidString" ELSE "none",
                          result |-> [made |-> TRUE, cap |-> c, utf8 |-> u, x |-> x]] :
                         c \in BOOLEAN, u \in BOOLEAN,
                         x \in IF Node.op \in TextCalls THEN HostScalars ELSE {0}})

ExecHostCall ==
    /\ Dispatching(HostCalls)
    /\ Spend
    /\ IF OperandError # "none"
       THEN Fail(OperandError) /\ UNCHANGED <<results, effects>>
       ELSE /\ effects' = Append(effects, [node |-> at, consumed |-> Operand(1).x,
                                           cap |-> Operand(2).cap])
            /\ \E answer \in HostAnswers :
                 IF answer.error # "none" THEN Fail(answer.error) /\ results' = results
                 ELSE /\ results' = [results EXCEPT ![at] = answer.result]
                      /\ Store(Scalar("Effect", at))
    /\ Unmoved

ExecTransfer ==
    /\ Dispatching({"Jump", "Branch"})
    /\ Spend
    /\ LET target == IF Node.op = "Jump" \/ Operand(1).x = 1 THEN Node.aux0 ELSE Node.aux1
       IN IF Node.op = "Branch" /\ OperandError # "none" THEN Fail(OperandError)
          ELSE IF target \notin DOMAIN pkg.blocks THEN Fail("InvalidBlock")
          ELSE /\ block' = target /\ at' = pkg.blocks[target].first
               /\ UNCHANGED <<phase, values, exit>>
    /\ Unmoved /\ UNCHANGED <<results, effects>>

ExecReturn ==
    /\ Dispatching({"Return"})
    /\ Spend
    /\ phase' = "exit"
    /\ exit' = [status |-> "Ok", error |-> "none", last |-> at]
    /\ Unmoved /\ UNCHANGED <<block, at, values, results, effects>>

InterpretedOpcodes ==
    {"BlockParam", "ConstBool", "ConstU64", "ConstUtf8", "ConstBytes", "EffectStart",
     "HostResult", "Jump", "Return"} \cup DOMAIN Expected

ExecUnsupported ==
    /\ phase = "run" /\ budget > 0 /\ Node.op \notin InterpretedOpcodes
    /\ Spend
    /\ Fail(IF Node.op = "none" THEN "InvalidNode" ELSE "UnsupportedOpcode")
    /\ Unmoved /\ UNCHANGED <<results, effects>>

ExhaustBudget ==
    /\ phase = "run" /\ budget = 0
    /\ phase' = "exit"
    /\ exit' = [status |-> "BudgetExhausted", error |-> "BudgetExhausted", last |-> at]
    /\ Unmoved /\ UNCHANGED <<budget, block, at, values, results, effects>>

(* dispatch_pyth_graph_exit: the record is validated, reported and the      *)
(* graph process ends.                                                      *)
ReportExit ==
    /\ phase = "exit"
    /\ exit.status # "Ok" \/ exit.error = "none"
    /\ phase' = "done"
    /\ Unmoved /\ UNCHANGED <<budget, block, at, values, results, effects, exit>>

Interpret ==
    \/ ExecBlockParam \/ ExecConst \/ ExecCompare \/ ExecHostResult \/ ExecHostCall
    \/ ExecTransfer \/ ExecReturn \/ ExecUnsupported \/ ExhaustBudget
    \/ ReportExit

Next == Load \/ BuildBootstrap \/ EnterRuntime \/ StartRuntime \/ Interpret

Spec == Init /\ [][Next]_vars

-----------------------------------------------------------------------------
(* Properties                                                               *)

Entered == phase \in {"start", "run", "exit", "done", "spin"}

(* Shape of the state.                                                      *)
TypeOK ==
    /\ launch \in Launches
    /\ phase \in {"load", "bind", "enter", "start", "run", "exit", "done",
                  "refused", "halted", "spin"}
    /\ budget \in 0..Budget
    /\ Entered => DOMAIN bindings = DOMAIN pkg.imports
    /\ phase = "run" => block \in DOMAIN pkg.blocks
    /\ Len(effects) <= Budget
    /\ exit.status \in {"none", "Ok", "RuntimeError", "BudgetExhausted"}

(* Whatever the bytes, no stage of the verifier indexes outside the tables  *)
(* an earlier stage left unchecked: PythCore never panics in verify_bytes.  *)
NeverPanics == verdict # "panic"

(* An accepted package has no hidden bytes: every byte after the header     *)
(* belongs to exactly one section.                                          *)
SectionsTile ==
    phase = "bind" =>
      \A byte \in HeaderSize..pkg.size - 1 :
        Cardinality({k \in 1..6 : byte \in pkg.sections[k].start..SectionEnd(pkg.sections[k]) - 1}) = 1

(* The in-place dominator iteration of compute_dominators computes          *)
(* dominance: b is in the set of c exactly when every path from the entry   *)
(* to c passes b.                                                           *)
DominatorsExact ==
    phase \in {"bind", "refused"} /\ verdict \in {"available", "semantics", "referenced",
                                                  "canonical", "accepted"} =>
      LET dom == ComputeDominators(pkg) IN
      \A b, c \in DOMAIN pkg.blocks :
        b \in dom[c] <=> b = c \/ c \notin ReachedFrom(pkg, {pkg.entry}, {b})

(* Type soundness across the kernel and ring-3 halves: whatever path the    *)
(* interpreter takes, a value it stores has the type its node declared to   *)
(* the verifier.                                                            *)
ValuesTyped ==
    phase \in {"run", "exit"} =>
      \A n \in DOMAIN pkg.nodes :
        values[n].type # "none" => values[n].type = pkg.nodes[n].type

(* An admitted graph is never stuck: the interpreter finds every block,     *)
(* node and operand it looks up, so an exit with one of those errors is     *)
(* impossible; a bad value can only come from the host or an error code     *)
(* constant too wide for its type.                                          *)
AdmittedNeverStuck ==
    /\ exit.error \notin {"InvalidBlock", "InvalidNode", "InvalidInput", "MissingImport"}
    /\ exit.error = "InvalidValue" =>
         \/ pkg.nodes[exit.last].op \in {"ConstU64", "HostResult"}
         \/ effects # << >> /\ effects[Len(effects)].node = exit.last
    /\ exit.error = "InvalidString" =>
         \/ pkg.nodes[exit.last].op = "HostResult"
         \/ effects # << >> /\ effects[Len(effects)].node = exit.last

(* Every host call carries a capability of the kind and with the right the  *)
(* operation requires, whether it came from an import or from an earlier    *)
(* result.                                                                  *)
DeclaredAuthority ==
    \A i \in DOMAIN effects :
      LET sig == Signature(pkg.nodes[effects[i].node].op) IN
      /\ effects[i].cap.kind = sig.kind
      /\ sig.rights \subseteq effects[i].cap.rights

(* The effect order the verifier fixes in the table is the order of the     *)
(* calls: a node called for the first time consumes the token of the call   *)
(* made just before it.                                                     *)
EffectsLinear ==
    \A i \in 2..Len(effects) :
      (\A j \in 1..i - 1 : effects[j].node # effects[i].node) =>
        effects[i].consumed = effects[i - 1].node

(* A graph launched by name or for the session never reaches an operation   *)
(* the interpreter does not implement.                                      *)
ProfileSufficient == launch.path # "package" => exit.error # "UnsupportedOpcode"

=============================================================================

----------------------------- MODULE MCPackages -----------------------------
(***************************************************************************)
(* Instances of the package components for TLC: the two-anchor publication *)
(* of package_service.rs, alone and driven by the acceptance scenarios,    *)
(* and the launch of a graph.  A boot image runs one of them: a behaviour  *)
(* exercises the part its initial state names, the variables of the others *)
(* rest.                                                                   *)
(*                                                                         *)
(* Publication: power cuts and device errors at every write, none of them  *)
(* reported for a write that did land (PackagePublication.cfg has those).  *)
(* Acceptance: with the cuts the harness makes, and with cuts anywhere.    *)
(* Graphs: the families below, written after the instances they draw on.   *)
(***************************************************************************)
EXTENDS Integers, Sequences

PackageLaunch == {[path |-> "package", deferred |-> "None", workspace |-> FALSE]}

AllLaunches ==
    [path : {"named"}, deferred : {"None", "Workspace", "Steward", "TestObject"},
     workspace : {FALSE}]
      \cup {[path |-> "named", deferred |-> "None", workspace |-> TRUE]}
      \cup [path : {"package", "command"}, deferred : {"None"}, workspace : {FALSE}]

-----------------------------------------------------------------------------
VARIABLE part  \* the part of the system this behaviour exercises

(* The published package world and the candidate *)
VARIABLES publicationDisk, publicationOrdinary, publicationRunning, publicationRegistry,
          publicationAnchored, publicationObjects, publicationPrepared,
          publicationCached, publicationContexts, publicationCall, publicationTold

publicationVars == <<publicationDisk, publicationOrdinary, publicationRunning,
                     publicationRegistry, publicationAnchored, publicationObjects,
                     publicationPrepared, publicationCached, publicationContexts,
                     publicationCall, publicationTold>>

Publication == INSTANCE PackagePublication WITH
    disk <- publicationDisk, ordinary <- publicationOrdinary,
    running <- publicationRunning, registry <- publicationRegistry,
    anchored <- publicationAnchored, objects <- publicationObjects,
    prepared <- publicationPrepared, cached <- publicationCached,
    contexts <- publicationContexts, call <- publicationCall, told <- publicationTold,
    Releases <- {"A"}, Blocks <- {1, 2}, MaxPackages <- 2, MaxGeneration <- 4,
    MaxEdits <- 1, LateErrors <- FALSE

(* The acceptance scenarios and the world they drive *)
VARIABLES acceptanceDisk, acceptanceOrdinary, acceptanceRunning, acceptanceRegistry,
          acceptanceAnchored, acceptanceObjects, acceptancePrepared, acceptanceCached,
          acceptanceContexts, acceptanceCall, acceptanceTold, scenario, sources, script,
          acceptanceVerdict, out, first, second, caps, required, spoiled, boots

acceptanceVars == <<acceptanceDisk, acceptanceOrdinary, acceptanceRunning,
                    acceptanceRegistry, acceptanceAnchored, acceptanceObjects,
                    acceptancePrepared, acceptanceCached, acceptanceContexts,
                    acceptanceCall, acceptanceTold, scenario, sources, script,
                    acceptanceVerdict, out, first, second, caps, required, spoiled,
                    boots>>

Acceptance == INSTANCE PackageAcceptance WITH
    disk <- acceptanceDisk, ordinary <- acceptanceOrdinary,
    running <- acceptanceRunning, registry <- acceptanceRegistry,
    anchored <- acceptanceAnchored, objects <- acceptanceObjects,
    prepared <- acceptancePrepared, cached <- acceptanceCached,
    contexts <- acceptanceContexts, call <- acceptanceCall, told <- acceptanceTold,
    verdict <- acceptanceVerdict, Releases <- {"A", "B"}, Blocks <- {1, 2},
    MaxPackages <- 2, MaxGeneration <- 6, MaxEdits <- 1, LateErrors <- FALSE,
    CutAnywhere <- FALSE, MaxBoots <- 4

AcceptanceCuts == INSTANCE PackageAcceptance WITH
    disk <- acceptanceDisk, ordinary <- acceptanceOrdinary,
    running <- acceptanceRunning, registry <- acceptanceRegistry,
    anchored <- acceptanceAnchored, objects <- acceptanceObjects,
    prepared <- acceptancePrepared, cached <- acceptanceCached,
    contexts <- acceptanceContexts, call <- acceptanceCall, told <- acceptanceTold,
    verdict <- acceptanceVerdict, Releases <- {"A", "B"}, Blocks <- {1, 2},
    MaxPackages <- 2, MaxGeneration <- 6, MaxEdits <- 1, LateErrors <- FALSE,
    CutAnywhere <- TRUE, MaxBoots <- 4

(* The launch of a graph, its verifier and interpreter *)
VARIABLES pkg, launch, phase, graphVerdict, bindings, budget, block, at, values,
          results, effects, exit

graphVars == <<pkg, launch, phase, graphVerdict, bindings, budget, block, at, values,
               results, effects, exit>>

GraphFlow == INSTANCE TigRuntime WITH
    verdict <- graphVerdict, MaxNodes <- 12, MaxBlocks <- 4, MaxImports <- 2,
    Budget <- 7, HostScalars <- {0, 1}, Packages <- {}, Launches <- PackageLaunch

GraphPrograms == INSTANCE TigRuntime WITH
    verdict <- graphVerdict, MaxNodes <- 12, MaxBlocks <- 4, MaxImports <- 2,
    Budget <- 15, HostScalars <- {0, 1}, Packages <- {}, Launches <- AllLaunches

-----------------------------------------------------------------------------
(* Graph families.  Control flow: every way to wire three blocks.  Block   *)
(* tables: every small table over four nodes.  Layouts: sections moved     *)
(* around their places.  Programs: the shapes the repository ships (log,   *)
(* object flow, steward, command loop) with every one-field change, and    *)
(* the object flow with every two.                                         *)

Ins(s) == [k \in 1..4 |-> IF k <= Len(s) THEN s[k] ELSE GraphFlow!NoValue]

\* A node as a tuple: opcode, type, block, inputs, aux0, aux1, immediate.
Nd(op, type, blk, ins, a0, a1, imm) ==
    [op |-> op, type |-> type, block |-> blk, in |-> Ins(ins),
     aux0 |-> a0, aux1 |-> a1, imm |-> imm]

Blk(id, node, count, params) ==
    [id |-> id, first |-> node, count |-> count, params |-> params,
     terminator |-> node + count - 1]

Table(s) == [k \in 0..Len(s) - 1 |-> s[k + 1]]

Imp(slot, kind, rights) == [slot |-> slot, kind |-> kind, rights |-> rights, type |-> "Capability"]

SectionLens(nb, nn, ni, strings, pool) == <<8, 24 * nb, 40 * nn, 24 * ni, pool, strings>>

Tiled(lens) ==
    LET start[k \in 1..6] == IF k = 1 THEN GraphFlow!HeaderSize ELSE start[k - 1] + lens[k - 1]
    IN [k \in 1..6 |-> [start |-> start[k], len |-> lens[k]]]

Pack(entry, blocks, nodes, imports) ==
    LET s == Tiled(SectionLens(Len(blocks), Len(nodes), Len(imports), 4, 4))
    IN [marks |-> TRUE, minor |-> 1, checksum |-> TRUE, sections |-> s,
        size |-> GraphFlow!SectionEnd(s[6]), entry |-> entry, blocks |-> Table(blocks),
        nodes |-> Table(nodes), imports |-> Table(imports),
        strings |-> 4, pool |-> 4, utf8 |-> TRUE]

LogImports == <<Imp(0, "Log", {"READ"})>>

-----------------------------------------------------------------------------
(* Control flow: three blocks, each with or without a ConstBool.            *)

TermShapes ==
    {[op |-> "Return", of |-> 0, t0 |-> 0, t1 |-> 0]}
      \cup [op : {"Jump"}, of : {0}, t0 : 0..3, t1 : {0}]
      \cup {[op |-> "Branch", of |-> o, t0 |-> t[1], t1 |-> t[2]] :
              o \in 0..2, t \in {<<0, 1>>, <<2, 0>>, <<1, 2>>, <<0, 3>>}}

BlockShapes == [body : BOOLEAN, term : TermShapes]

FirstOf(shapes, b) ==
    LET size(k) == IF shapes[k].body THEN 2 ELSE 1
    IN IF b = 0 THEN 0 ELSE IF b = 1 THEN size(0) ELSE size(0) + size(1)

FlowNodes(shapes, entry) ==
    LET body(b) ==
          LET t == shapes[b].term
              value == Nd("ConstBool", "Bool", b, <<>>, 0, 0, (b + entry) % 2)
              last == Nd(t.op, "Unit", b,
                         IF t.op = "Branch" THEN <<FirstOf(shapes, t.of)>> ELSE <<>>,
                         t.t0, t.t1, 0)
          IN IF shapes[b].body THEN <<value, last>> ELSE <<last>>
    IN body(0) \o body(1) \o body(2)

FlowPackage(shapes, entry) ==
    Pack(entry,
         [k \in 1..3 |-> Blk(k - 1, FirstOf(shapes, k - 1),
                             IF shapes[k - 1].body THEN 2 ELSE 1, 0)],
         FlowNodes(shapes, entry), LogImports)

(* Four blocks, the first three with a ConstBool: the smallest size at      *)
(* which one dominator sweep is not enough.                                 *)

MeshTerms(b) ==
    LET branches(os, ts) == {[op |-> "Branch", of |-> o, t0 |-> t[1], t1 |-> t[2]] :
                               o \in os, t \in ts}
        pairs == {<<1, 2>>, <<2, 3>>, <<3, 1>>}
    IN IF b = 0
       THEN [op : {"Jump"}, of : {0}, t0 : 1..3, t1 : {0}] \cup branches({0}, pairs)
       ELSE {[op |-> "Return", of |-> 0, t0 |-> 0, t1 |-> 0]}
              \cup [op : {"Jump"}, of : {0}, t0 : 0..4, t1 : {0}]
              \cup branches({1, 2, 3}, pairs)

MeshPackage(terms) ==
    LET value(b) == Nd("ConstBool", "Bool", b, <<>>, 0, 0, b % 2)
        last(b) == Nd(terms[b].op, "Unit", b,
                      IF terms[b].op = "Branch" THEN <<2 * terms[b].of>> ELSE <<>>,
                      terms[b].t0, terms[b].t1, 0)
    IN Pack(0, <<Blk(0, 0, 2, 0), Blk(1, 2, 2, 0), Blk(2, 4, 2, 0), Blk(3, 6, 1, 0)>>,
            <<value(0), last(0), value(1), last(1), value(2), last(2), last(3)>>, LogImports)

-----------------------------------------------------------------------------
(* Block tables over four fixed nodes, and section layouts.                 *)

TwoBlockNodes ==
    <<Nd("BlockParam", "Capability", 0, <<>>, 0, 0, 0),
      Nd("Jump", "Unit", 0, <<>>, 1, 0, 0),
      Nd("ConstU64", "U64", 1, <<>>, 0, 0, 0),
      Nd("Return", "Unit", 1, <<>>, 0, 0, 0)>>

TableRows == [first : 0..3, count : 0..3, terminator : {0, 1, 3, 4}, params : {0, 1}]

BlockTable(a, b) ==
    [Pack(0, <<Blk(0, 0, 2, 0), Blk(1, 2, 2, 0)>>, TwoBlockNodes, LogImports) EXCEPT
       !.blocks = [i \in 0..1 |->
          LET row == IF i = 0 THEN a ELSE b
          IN [id |-> i, first |-> row.first, count |-> row.count, params |-> row.params,
              terminator |-> row.terminator]]]

OneBlock == Pack(0, <<Blk(0, 0, 1, 0)>>, <<Nd("Return", "Unit", 0, <<>>, 0, 0, 0)>>, LogImports)

Layout(d, e) ==
    [OneBlock EXCEPT !.sections = [k \in 1..6 |-> [start |-> @[k].start + d[k], len |-> @[k].len]],
                     !.size = @ + e]

Damaged == {[OneBlock EXCEPT !.checksum = FALSE], [OneBlock EXCEPT !.marks = FALSE],
            [OneBlock EXCEPT !.minor = 2], [OneBlock EXCEPT !.utf8 = FALSE],
            [OneBlock EXCEPT !.entry = 1], [OneBlock EXCEPT !.imports = << >>]}

FlowFamily ==
    \/ \E s \in [0..2 -> BlockShapes], e \in {0, 1} : pkg = FlowPackage(s, e)
    \/ \E t0 \in MeshTerms(0), t1 \in MeshTerms(1), t2 \in MeshTerms(2), t3 \in MeshTerms(3) :
         pkg = MeshPackage([b \in 0..3 |-> <<t0, t1, t2, t3>>[b + 1]])
    \/ \E a, b \in TableRows : a.params = 0 /\ pkg = BlockTable(a, b)
    \/ \E d \in [1..6 -> {-4, 0, 4}], e \in {0, 4} : pkg = Layout(d, e)
    \/ pkg \in Damaged

-----------------------------------------------------------------------------
(* Programs                                                                 *)

HelloNodes ==
    <<Nd("BlockParam", "Capability", 0, <<>>, 0, 0, 0),
      Nd("EffectStart", "Effect", 0, <<>>, 0, 0, 0),
      Nd("ConstUtf8", "Utf8", 0, <<>>, 0, 4, 0),
      Nd("SystemLog", "Effect", 0, <<1, 0, 2>>, 0, 0, 0),
      Nd("SystemLog", "Effect", 0, <<3, 0, 2>>, 0, 0, 0),
      Nd("Return", "Unit", 0, <<>>, 0, 0, 0)>>

Hello == Pack(0, <<Blk(0, 0, 6, 0)>>, HelloNodes, LogImports)

ObjectNodes ==
    <<Nd("BlockParam", "Capability", 0, <<>>, 0, 0, 0),
      Nd("BlockParam", "Capability", 0, <<>>, 1, 0, 0),
      Nd("EffectStart", "Effect", 0, <<>>, 0, 0, 0),
      Nd("ConstUtf8", "Utf8", 0, <<>>, 0, 4, 0),
      Nd("ObjectCreate", "Effect", 0, <<2, 1, 3>>, 0, 0, 0),
      Nd("HostResult", "ObjectId", 0, <<4>>, 1, 0, 0),
      Nd("HostResult", "Capability", 0, <<4>>, 3, 0, 0),
      Nd("ObjectInspect", "Effect", 0, <<4, 6, 5>>, 0, 0, 0),
      Nd("HostResult", "Utf8", 0, <<7>>, 4, 0, 0),
      Nd("SystemLog", "Effect", 0, <<7, 0, 8>>, 0, 0, 0),
      Nd("Return", "Unit", 0, <<>>, 0, 0, 0)>>

ObjectFlow ==
    Pack(0, <<Blk(0, 0, 11, 0)>>, ObjectNodes,
         <<Imp(0, "Log", {"READ"}), Imp(1, "Workspace", {"CREATE"})>>)

ReviseNodes ==
    <<Nd("BlockParam", "Capability", 0, <<>>, 0, 0, 0),
      Nd("EffectStart", "Effect", 0, <<>>, 0, 0, 0),
      Nd("ConstUtf8", "Utf8", 0, <<>>, 0, 4, 0),
      Nd("ObjectQuery", "Effect", 0, <<1, 0, 2>>, 0, 0, 0),
      Nd("HostResult", "ObjectId", 0, <<3>>, 1, 0, 0),
      Nd("HostResult", "Capability", 0, <<3>>, 3, 0, 0),
      Nd("ConstBytes", "Bytes", 0, <<>>, 0, 4, 0),
      Nd("ObjectRevise", "Effect", 0, <<3, 5, 4, 6>>, 0, 0, 0),
      Nd("ObjectHistory", "Effect", 0, <<7, 5, 4>>, 0, 0, 0),
      Nd("Return", "Unit", 0, <<>>, 0, 0, 0)>>

ReviseFlow ==
    Pack(0, <<Blk(0, 0, 10, 0)>>, ReviseNodes, <<Imp(0, "Workspace", {"CREATE", "QUERY"})>>)

StewardNodes ==
    <<Nd("BlockParam", "Capability", 0, <<>>, 0, 0, 0),
      Nd("BlockParam", "Capability", 0, <<>>, 1, 0, 0),
      Nd("EffectStart", "Effect", 0, <<>>, 0, 0, 0),
      Nd("TaskContextRead", "Effect", 0, <<2, 0>>, 0, 0, 0),
      Nd("HostResult", "TaskId", 0, <<3>>, 1, 0, 0),
      Nd("HostResult", "U64", 0, <<3>>, 2, 0, 0),
      Nd("ConstU64", "U64", 0, <<>>, 0, 0, 1),
      Nd("LessThanU64", "Bool", 0, <<5, 6>>, 0, 0, 0),
      Nd("Branch", "Unit", 0, <<7>>, 2, 1, 0),
      Nd("TaskProposalEmit", "Effect", 1, <<3, 1, 4, 5>>, 0, 0, 0),
      Nd("Jump", "Unit", 1, <<>>, 2, 0, 0),
      Nd("Return", "Unit", 2, <<>>, 0, 0, 0)>>

Steward ==
    Pack(0, <<Blk(0, 0, 9, 0), Blk(1, 9, 2, 0), Blk(2, 11, 1, 0)>>, StewardNodes,
         <<Imp(0, "Task", {"READ"}), Imp(1, "Task", {"CREATE"})>>)

CommandNodes ==
    <<Nd("BlockParam", "Capability", 0, <<>>, 0, 0, 0),
      Nd("EffectStart", "Effect", 0, <<>>, 0, 0, 0),
      Nd("ConstU64", "ErrorCode", 0, <<>>, 0, 0, 0),
      Nd("ConstU64", "U64", 0, <<>>, 0, 0, 1),
      Nd("Jump", "Unit", 0, <<>>, 1, 0, 0),
      Nd("CommandRead", "Effect", 1, <<1, 0>>, 0, 0, 0),
      Nd("HostResult", "U64", 1, <<5>>, 0, 0, 0),
      Nd("HostResult", "Utf8", 1, <<5>>, 4, 0, 0),
      Nd("Eq", "Bool", 1, <<6, 3>>, 0, 0, 0),
      Nd("CommandResultEmit", "Effect", 1, <<5, 0, 2, 7>>, 0, 0, 0),
      Nd("Branch", "Unit", 1, <<8>>, 2, 1, 0),
      Nd("Return", "Unit", 2, <<>>, 0, 0, 0)>>

CommandLoop ==
    Pack(0, <<Blk(0, 0, 5, 0), Blk(1, 5, 6, 0), Blk(2, 11, 1, 0)>>, CommandNodes,
         <<Imp(0, "Command", {"READ", "APPEND"})>>)

\* A parameterised block, which only the package path admits.
ParamNodes ==
    <<Nd("ConstU64", "U64", 0, <<>>, 0, 0, 1),
      Nd("Jump", "Unit", 0, <<0>>, 1, 0, 0),
      Nd("BlockParam", "U64", 1, <<>>, 0, 0, 0),
      Nd("Return", "Unit", 1, <<>>, 0, 0, 0)>>

Param == Pack(0, <<Blk(0, 0, 2, 0), Blk(1, 2, 2, 1)>>, ParamNodes, LogImports)

TestObject ==
    Pack(0, <<Blk(0, 0, 5, 0)>>,
         <<Nd("BlockParam", "Capability", 0, <<>>, 0, 0, 0),
           Nd("EffectStart", "Effect", 0, <<>>, 0, 0, 0),
           Nd("ConstU64", "ObjectId", 0, <<>>, 0, 0, 1),
           Nd("ObjectInspect", "Effect", 0, <<1, 0, 2>>, 0, 0, 0),
           Nd("Return", "Unit", 0, <<>>, 0, 0, 0)>>,
         <<Imp(0, "Object", {"READ"})>>)

BasePrograms == {Hello, ObjectFlow, ReviseFlow, Steward, CommandLoop, Param, TestObject}

\* Every change of one field of one node.
Changed(n) ==
    {[n EXCEPT !.op = o] : o \in {"ConstU64", "ConstBool", "EffectStart", "SystemLog",
                                  "ObjectInspect", "ObjectRevise", "TaskSuspend", "AddU64",
                                  "BlockParam", "Return"}}
      \cup {[n EXCEPT !.type = t] : t \in {"U64", "Bool", "Capability", "ErrorCode", "Effect"}}
      \cup {[n EXCEPT !.in[k] = x] : k \in 1..4, x \in 0..8 \cup {GraphFlow!NoValue}}
      \cup {[n EXCEPT !.aux0 = x] : x \in 0..5}
      \cup {[n EXCEPT !.imm = GraphFlow!U16Max + 1]}

\* Another authority, kind or slot of an import.
ImportChanges(p) ==
    UNION {{[p EXCEPT !.imports[i].rights = r] :
              r \in {{"READ"}, {"CREATE"}, {"QUERY"}, {"READ", "CREATE"}}}
           \cup {[p EXCEPT !.imports[i].kind = k] : k \in {"Log", "Workspace", "Object"}}
           \cup {[p EXCEPT !.imports[i].slot = 1 - i]} :
           i \in DOMAIN p.imports}

(* The programs, every change of one node or import, and every two operand  *)
(* changes of the object flow.                                              *)
ProgramFamily ==
    \/ pkg \in BasePrograms
    \/ \E p \in BasePrograms : \E n \in DOMAIN p.nodes : \E c \in Changed(p.nodes[n]) :
         pkg = [p EXCEPT !.nodes[n] = c]
    \/ \E p \in BasePrograms : pkg \in ImportChanges(p)
    \/ /\ launch = [path |-> "named", deferred |-> "None", workspace |-> TRUE]
       /\ \E n \in 4..9 : \E m \in n + 1 .. 9, k, l \in 1..3, x, y \in 0..9 :
             pkg = [ObjectFlow EXCEPT !.nodes[n].in[k] = x, !.nodes[m].in[l] = y]

(* The assumptions of the components on their constants. *)
ASSUME Bounds ==
    /\ Publication!PackagePublicationAssumption
    /\ Acceptance!PackageAcceptanceAssumption
    /\ Acceptance!PackagePublicationAssumption
    /\ AcceptanceCuts!PackageAcceptanceAssumption
    /\ AcceptanceCuts!PackagePublicationAssumption /\ GraphFlow!BudgetAssumption
    /\ GraphFlow!LimitsAssumption /\ GraphPrograms!BudgetAssumption
    /\ GraphPrograms!LimitsAssumption

-----------------------------------------------------------------------------
(* A component that is not exercised rests at a value nothing reads. *)
Off == "off"

PublicationOff ==
    /\ publicationDisk = Off /\ publicationOrdinary = Off /\ publicationRunning = Off
    /\ publicationRegistry = Off /\ publicationAnchored = Off
    /\ publicationObjects = Off /\ publicationPrepared = Off
    /\ publicationCached = Off /\ publicationContexts = Off /\ publicationCall = Off
    /\ publicationTold = Off

AcceptanceOff ==
    /\ acceptanceDisk = Off /\ acceptanceOrdinary = Off /\ acceptanceRunning = Off
    /\ acceptanceRegistry = Off /\ acceptanceAnchored = Off
    /\ acceptanceObjects = Off /\ acceptancePrepared = Off /\ acceptanceCached = Off
    /\ acceptanceContexts = Off /\ acceptanceCall = Off /\ acceptanceTold = Off
    /\ scenario = Off /\ sources = Off /\ script = Off /\ acceptanceVerdict = Off
    /\ out = Off /\ first = Off /\ second = Off /\ caps = Off /\ required = Off
    /\ spoiled = Off /\ boots = Off

GraphOff ==
    /\ pkg = Off /\ launch = Off /\ phase = Off /\ graphVerdict = Off
    /\ bindings = Off /\ budget = Off /\ block = Off /\ at = Off /\ values = Off
    /\ results = Off /\ effects = Off /\ exit = Off

vars == <<part, publicationVars, acceptanceVars, graphVars>>

Init ==
    \/ /\ part = "publication" /\ Publication!Init
       /\ AcceptanceOff /\ GraphOff
    \/ /\ part = "acceptance" /\ Acceptance!AcceptanceInit
       /\ PublicationOff /\ GraphOff
    \/ /\ part = "acceptance cuts" /\ AcceptanceCuts!AcceptanceInit
       /\ PublicationOff /\ GraphOff
    \/ /\ part = "graph flow" /\ GraphFlow!Fresh /\ FlowFamily
       /\ PublicationOff /\ AcceptanceOff
    \/ /\ part = "graph programs" /\ GraphPrograms!Fresh /\ ProgramFamily
       /\ PublicationOff /\ AcceptanceOff

Next ==
    \/ /\ part = "publication" /\ Publication!Next
       /\ UNCHANGED <<part, acceptanceVars, graphVars>>
    \/ /\ part = "acceptance" /\ Acceptance!AcceptanceNext
       /\ UNCHANGED <<part, publicationVars, graphVars>>
    \/ /\ part = "acceptance cuts" /\ AcceptanceCuts!AcceptanceNext
       /\ UNCHANGED <<part, publicationVars, graphVars>>
    \/ /\ part = "graph flow" /\ GraphFlow!Next
       /\ UNCHANGED <<part, publicationVars, acceptanceVars>>
    \/ /\ part = "graph programs" /\ GraphPrograms!Next
       /\ UNCHANGED <<part, publicationVars, acceptanceVars>>

Fair ==
    \/ /\ part = "acceptance" /\ Acceptance!AcceptanceNext
       /\ UNCHANGED <<part, publicationVars, graphVars>>
    \/ /\ part = "graph programs" /\ GraphPrograms!Interpret
       /\ UNCHANGED <<part, publicationVars, acceptanceVars>>

Spec == Init /\ [][Next]_vars /\ WF_vars(Fair)

-----------------------------------------------------------------------------
(* WorldsSound: a boot finds the last published world whole and, without   *)
(* late device errors, the schema of every stored object in it             *)
(* (package_service.rs, package_content_store.rs).  Every acceptance       *)
(* scenario passes on good sources and is denied on bad ones; with power   *)
(* cuts anywhere READY is printed only over a world that is there, a       *)
(* denial leaves nothing behind and an unpublished candidate is never      *)
(* selected (package_acceptance.rs).                                       *)
WorldsSound ==
    /\ part = "publication" => Publication!PublicationSafe
    /\ part = "acceptance" =>
          /\ Acceptance!AcceptanceTypeOK /\ Acceptance!AcceptancePasses
          /\ Acceptance!BadSourceDenied
    /\ part = "acceptance cuts" =>
          /\ AcceptanceCuts!ReadyIsTrue /\ AcceptanceCuts!DeniedLeavesNothing
          /\ AcceptanceCuts!UnpublishedNeverSelected

(* GraphsSound: what the verifier admits the interpreter runs without a    *)
(* panic or an untyped value, computed dominators are the dominators, and  *)
(* a host call uses declared authority in the order of its effects         *)
(* (shared/src/pyth_tig/verify.rs, user/pyth-runtime).                     *)
GraphsSound ==
    /\ part = "graph flow" =>
          /\ GraphFlow!TypeOK /\ GraphFlow!NeverPanics /\ GraphFlow!SectionsTile
          /\ GraphFlow!DominatorsExact /\ GraphFlow!ValuesTyped /\ GraphFlow!AdmittedNeverStuck
    /\ part = "graph programs" =>
          /\ GraphPrograms!TypeOK /\ GraphPrograms!NeverPanics /\ GraphPrograms!ValuesTyped
          /\ GraphPrograms!AdmittedNeverStuck /\ GraphPrograms!DeclaredAuthority
          /\ GraphPrograms!EffectsLinear /\ GraphPrograms!ProfileSufficient

(* PackageWaits, PackageServed: what has to be followed by what. *)
PackageWaits ==
    \/ part = "acceptance" /\ sources = Acceptance!GoodSources
    \/ part = "graph programs" /\ phase = "run"

PackageServed ==
    \/ part = "acceptance" /\ Acceptance!Complete
    \/ part = "graph programs" /\ phase = "done"

(* PackageProgress: every scenario on good sources comes to its end, over  *)
(* as many boots as it takes, when steps do not stall and the harness does *)
(* cut the power; a graph that starts ends by its return, an error or its  *)
(* budget.                                                                 *)
PackageProgress == PackageWaits ~> PackageServed
=============================================================================

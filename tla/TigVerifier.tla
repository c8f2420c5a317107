---------------------------- MODULE TigVerifier ----------------------------
(***************************************************************************)
(* Admission of a PythTIG graph package (shared/src/pyth_tig): decoding of *)
(* the section layout (format.rs) and the verifier pipeline (verify.rs)    *)
(* over the decoded tables, with the opcode signatures of opcode.rs.       *)
(*                                                                         *)
(* A package p is a record:                                                *)
(*   marks, minor, checksum  header words and integrity sum as expected    *)
(*   sections, size          the six (start, len) ranges and package bytes *)
(*   entry                   entry block                                   *)
(*   blocks, nodes, imports  the record tables, functions from 0..n-1      *)
(*   strings, pool, utf8     table lengths; whether every string is UTF-8  *)
(* Block, node and import records keep the source's fields; opcodes, types *)
(* and rights are names and sets of names.  Error identities inside one    *)
(* verifier stage are abstracted to the name of the stage.                 *)
(***************************************************************************)
EXTENDS Integers, Sequences, FiniteSets, SequencesExt

CONSTANTS MaxNodes, MaxBlocks, MaxImports  \* format.rs limits, scaled down

LimitsAssumption ==
    /\ MaxNodes \in Nat \ {0} /\ MaxBlocks \in Nat \ {0} /\ MaxImports \in Nat

NoValue == 1000000          \* NO_VALUE, above every node index

HeaderSize == 96            \* PYTH_GRAPH_HEADER_SIZE

SupportedMinor == 1         \* PYTH_TIG_MINOR

U16Max == 65535

PythTypes == {"Unit", "Bool", "U64", "I64", "Bytes", "Utf8", "ObjectId",
              "RevisionId", "TaskId", "ProposalId", "Capability", "Effect",
              "ErrorCode"}

ResourceKinds == {"Log", "Workspace", "Object", "Task", "Graph", "Command"}

RightNames == {"READ", "QUERY", "REVISE", "CREATE", "APPEND", "APPROVE", "CONTROL"}

-----------------------------------------------------------------------------
(* Opcode signatures                                                        *)

Pure(inputs, result) ==
    [inputs |-> inputs, result |-> result, effectful |-> FALSE,
     kind |-> "none", rights |-> {}]

HostSig(inputs, kind, right) ==
    [inputs |-> <<"Effect", "Capability">> \o inputs, result |-> "Effect",
     effectful |-> TRUE, kind |-> kind, rights |-> {right}]

PureSignatures ==
    [BlockParam  |-> Pure(<<>>, "Unit"),
     ConstBool   |-> Pure(<<>>, "Bool"),
     ConstU64    |-> Pure(<<>>, "U64"),
     ConstI64    |-> Pure(<<>>, "I64"),
     ConstBytes  |-> Pure(<<>>, "Bytes"),
     ConstUtf8   |-> Pure(<<>>, "Utf8"),
     EffectStart |-> Pure(<<>>, "Effect"),
     HostResult  |-> Pure(<<"Effect">>, "Unit"),
     Eq          |-> Pure(<<"U64", "U64">>, "Bool"),
     LessThanU64 |-> Pure(<<"U64", "U64">>, "Bool"),
     AddU64      |-> Pure(<<"U64", "U64">>, "U64"),
     SubU64      |-> Pure(<<"U64", "U64">>, "U64"),
     BoolAnd     |-> Pure(<<"Bool", "Bool">>, "Bool"),
     BoolOr      |-> Pure(<<"Bool", "Bool">>, "Bool"),
     BoolNot     |-> Pure(<<"Bool">>, "Bool"),
     Select      |-> Pure(<<"Bool", "U64", "U64">>, "U64"),
     Jump        |-> Pure(<<>>, "Unit"),
     Branch      |-> Pure(<<"Bool">>, "Unit"),
     Return      |-> Pure(<<>>, "Unit")]

HostSignatures ==
    [SystemLog              |-> HostSig(<<"Utf8">>, "Log", "READ"),
     ObjectCreate           |-> HostSig(<<"Utf8">>, "Workspace", "CREATE"),
     ObjectQuery            |-> HostSig(<<"Utf8">>, "Workspace", "QUERY"),
     ObjectInspect          |-> HostSig(<<"ObjectId">>, "Object", "READ"),
     ObjectRevise           |-> HostSig(<<"ObjectId", "Bytes">>, "Object", "REVISE"),
     ObjectHistory          |-> HostSig(<<"ObjectId">>, "Object", "READ"),
     TaskActiveRead         |-> HostSig(<<>>, "Task", "READ"),
     TaskProposalEmit       |-> HostSig(<<"TaskId", "U64">>, "Task", "CREATE"),
     TaskProposalApprove    |-> HostSig(<<"ProposalId">>, "Task", "APPROVE"),
     TaskSuspend            |-> HostSig(<<"TaskId">>, "Task", "CONTROL"),
     TaskRevive             |-> HostSig(<<"TaskId">>, "Task", "CONTROL"),
     TaskContextRead        |-> HostSig(<<>>, "Task", "READ"),
     GraphQueryRelated      |-> HostSig(<<"ObjectId">>, "Graph", "QUERY"),
     RelevanceAssertionEmit |-> HostSig(<<"ObjectId", "ObjectId">>, "Graph", "APPEND"),
     CapabilityRequestEmit  |-> HostSig(<<"Utf8">>, "Task", "APPEND"),
     CommandRead            |-> HostSig(<<>>, "Command", "READ"),
     CommandResultEmit      |-> HostSig(<<"ErrorCode", "Utf8">>, "Command", "APPEND")]

Opcodes == DOMAIN PureSignatures \cup DOMAIN HostSignatures

Signature(op) ==
    IF op \in DOMAIN PureSignatures THEN PureSignatures[op] ELSE HostSignatures[op]

Terminators == {"Jump", "Branch", "Return"}

-----------------------------------------------------------------------------
(* PythGraphPackage::decode                                                 *)

Count(f) == Cardinality(DOMAIN f)

SectionEnd(s) == s.start + s.len

ValidateHeader(p) ==
    /\ p.marks
    /\ p.minor <= SupportedMinor
    /\ Count(p.blocks) <= MaxBlocks
    /\ Count(p.nodes) <= MaxNodes
    /\ Count(p.imports) <= MaxImports

(* Sections in table order, each starting where the previous one ends, the  *)
(* four record tables aligned, the last ending at the last byte.            *)
ValidateSections(p) ==
    /\ \A k \in 1..6 : SectionEnd(p.sections[k]) <= p.size
    /\ \A k \in 1..4 : p.sections[k].start % 4 = 0
    /\ \A k \in 1..6 : p.sections[k].start
                         = (IF k = 1 THEN HeaderSize ELSE SectionEnd(p.sections[k - 1]))
    /\ SectionEnd(p.sections[6]) = p.size

Decode(p) ==
    /\ p.size >= HeaderSize
    /\ ValidateHeader(p)
    /\ ValidateSections(p)
    /\ p.checksum

-----------------------------------------------------------------------------
(* verify_known_types, verify_known_opcodes, verify_block_ranges            *)

KnownRecords(p) ==
    \A n \in DOMAIN p.nodes : /\ p.nodes[n].type \in PythTypes
                              /\ p.nodes[n].op \in Opcodes

BlockEnd(b) == b.first + b.count

Owned(b) == b.first .. BlockEnd(b) - 1

VerifyBlockRanges(p) ==
    /\ \A i \in DOMAIN p.blocks :
         LET b == p.blocks[i] IN
         /\ b.id = i /\ b.count # 0 /\ BlockEnd(b) <= Count(p.nodes)
         /\ \A j \in DOMAIN p.blocks : j < i => Owned(b) \cap Owned(p.blocks[j]) = {}
         /\ \A n \in Owned(b) : p.nodes[n].block = i
         /\ \A n \in Owned(b) : p.nodes[n].op \in Terminators <=> n = BlockEnd(b) - 1
         /\ b.terminator = BlockEnd(b) - 1
    /\ DOMAIN p.nodes \subseteq UNION {Owned(p.blocks[i]) : i \in DOMAIN p.blocks}

-----------------------------------------------------------------------------
(* verify_control_flow, verify_reachable_blocks                             *)

Terminator(p, i) == p.nodes[p.blocks[i].terminator]

Targets(p, i) ==
    LET t == Terminator(p, i) IN
    CASE t.op = "Jump"   -> {t.aux0}
      [] t.op = "Branch" -> {t.aux0, t.aux1}
      [] OTHER           -> {}

Provided(n) == Cardinality({k \in 1..4 : n.in[k] # NoValue})

ValidateJumpArity(p, t) ==
    LET target == p.blocks[t.aux0] IN
    /\ Provided(t) = target.params
    /\ \A k \in 1..target.params :
         /\ k <= 4 /\ t.in[k] # NoValue
         /\ target.first + k - 1 \in DOMAIN p.nodes
         /\ p.nodes[target.first + k - 1].op = "BlockParam"
         /\ t.in[k] \in DOMAIN p.nodes
         /\ p.nodes[t.in[k]].type = p.nodes[target.first + k - 1].type

VerifyControlFlow(p) ==
    \A i \in DOMAIN p.blocks :
      LET t == Terminator(p, i) IN
      /\ Targets(p, i) \subseteq DOMAIN p.blocks
      /\ CASE t.op = "Jump"   -> ValidateJumpArity(p, t)
           [] t.op = "Branch" -> \A j \in Targets(p, i) : p.blocks[j].params = 0
           [] OTHER           -> TRUE

(* The blocks the worklist reaches from the entry in at most k rounds.      *)
ReachedFrom(p, starts, avoid) ==
    LET R[k \in 0..Count(p.blocks)] ==
          IF k = 0 THEN starts \ avoid
          ELSE R[k - 1] \cup (UNION {Targets(p, i) : i \in R[k - 1]} \ avoid)
    IN R[Count(p.blocks)]

VerifyReachableBlocks(p) ==
    /\ p.entry \in DOMAIN p.blocks
    /\ ReachedFrom(p, {p.entry}, {}) = DOMAIN p.blocks

-----------------------------------------------------------------------------
(* compute_dominators, verify_value_availability                            *)

Predecessors(p, i) == {j \in DOMAIN p.blocks : i \in Targets(p, j)}

DominatorsOneSweep(p) ==
    LET all == DOMAIN p.blocks
        step(dom, i) ==
          IF i = p.entry THEN dom
          ELSE [dom EXCEPT ![i] =
                  {i} \cup {b \in all : \A j \in Predecessors(p, i) : b \in dom[j]}]
    IN FoldLeft(step, [i \in all |-> IF i = p.entry THEN {i} ELSE all],
                [k \in 1..Count(p.blocks) |-> k - 1])

(* Sweeps over the blocks in table order, each block's set updated in place *)
(* from its predecessors' current sets, until a sweep changes nothing: as   *)
(* many sweeps as blocks, since a sweep follows at least one edge of every  *)
(* path from the entry.                                                     *)
ComputeDominators(p) ==
    LET all == DOMAIN p.blocks
        order == [k \in 1..Count(p.blocks) |-> k - 1]
        step(dom, i) ==
          IF i = p.entry THEN dom
          ELSE [dom EXCEPT ![i] =
                  {i} \cup {b \in all : \A j \in Predecessors(p, i) : b \in dom[j]}]
        Swept[k \in Nat] ==
          IF k = 0 THEN [i \in all |-> IF i = p.entry THEN {i} ELSE all]
          ELSE LET dom == Swept[k - 1]
               IN FoldLeft(step, dom, order)
    IN Swept[Count(p.blocks)]

UseAvailable(p, dom, n, x) ==
    /\ x \in DOMAIN p.nodes
    /\ IF p.nodes[x].block = p.nodes[n].block
       THEN x < n
       ELSE p.nodes[x].block \in dom[p.nodes[n].block]

VerifyValueAvailability(p) ==
    LET dom == ComputeDominators(p) IN
    \A n \in DOMAIN p.nodes : \A k \in 1..4 :
      p.nodes[n].in[k] # NoValue => UseAvailable(p, dom, n, p.nodes[n].in[k])

-----------------------------------------------------------------------------
(* verify_semantics: one pass over the nodes in table order.  A type is     *)
(* known to the pass once its node has been visited; before that the table  *)
(* still holds Unit.                                                        *)

SeenType(p, n, x) == IF x <= n THEN p.nodes[x].type ELSE "Unit"

OpcodeAcceptsResult(op, actual) ==
    \/ actual = Signature(op).result
    \/ op = "BlockParam"
    \/ op = "ConstU64" /\ actual \in {"ObjectId", "RevisionId", "TaskId",
                                      "ProposalId", "ErrorCode"}

VerifyOpcodeSignature(p, n) ==
    LET node == p.nodes[n]
        sig == Signature(node.op)
    IN /\ OpcodeAcceptsResult(node.op, node.type)
       /\ \A k \in 1..Len(sig.inputs) :
            /\ node.in[k] \in DOMAIN p.nodes
            /\ SeenType(p, n, node.in[k]) = sig.inputs[k]
       /\ \A k \in Len(sig.inputs) + 1 .. 4 : node.in[k] = NoValue

VerifyImportBlockParam(p, n) ==
    LET node == p.nodes[n] IN
    /\ node.block = p.entry
    /\ \E i \in DOMAIN p.imports : /\ p.imports[i].slot = node.aux0
                                   /\ p.imports[i].type = "Capability"

(* host_result_field_schema: the type of each field a producer exposes.     *)
ObjectResultFields ==
    (0 :> "ErrorCode" @@ 1 :> "ObjectId")

HostResultSchema(op) ==
    CASE op = "ObjectCreate"    -> ObjectResultFields @@ 2 :> "RevisionId" @@ 3 :> "Capability"
      [] op = "ObjectQuery"     -> ObjectResultFields @@ 3 :> "Capability"
      [] op = "ObjectInspect"   -> ObjectResultFields @@ 2 :> "RevisionId" @@ 4 :> "Utf8"
      [] op = "ObjectRevise"    -> ObjectResultFields @@ 2 :> "RevisionId"
      [] op = "ObjectHistory"   -> ObjectResultFields @@ 2 :> "RevisionId"
      [] op = "TaskContextRead" -> 0 :> "TaskId" @@ 1 :> "TaskId" @@ 2 :> "U64"
                                     @@ 3 :> "U64" @@ 4 :> "Utf8"
      [] op = "CommandRead"     -> 0 :> "U64" @@ 1 :> "ObjectId" @@ 2 :> "TaskId"
                                     @@ 3 :> "ProposalId" @@ 4 :> "Utf8"
      [] OTHER                  -> << >>

VerifyHostResult(p, n) ==
    LET node == p.nodes[n]
        producer == node.in[1]
    IN /\ producer < n
       /\ \A k \in producer + 1 .. n - 1 :
            p.nodes[k].op = "HostResult" /\ p.nodes[k].in[1] = producer
       /\ Signature(p.nodes[producer].op).effectful
       /\ \A k \in 2..4 : node.in[k] = NoValue
       /\ LET schema == HostResultSchema(p.nodes[producer].op)
          IN node.aux0 \in DOMAIN schema /\ schema[node.aux0] = node.type

(* The newest effect value in table order before node n.                    *)
CurrentEffect(p, n) ==
    LET earlier == {m \in DOMAIN p.nodes : /\ m < n
                                           /\ \/ p.nodes[m].op = "EffectStart"
                                              \/ Signature(p.nodes[m].op).effectful}
    IN IF earlier = {} THEN NoValue ELSE CHOOSE m \in earlier : \A k \in earlier : k <= m

VerifyEffectStart(p, n) ==
    /\ \A m \in DOMAIN p.nodes : m < n => p.nodes[m].op # "EffectStart"
    /\ p.nodes[n].type = "Effect"
    /\ Provided(p.nodes[n]) = 0

VerifyEffectInput(p, n) ==
    LET producer == p.nodes[n].in[1] IN
    /\ producer # NoValue
    /\ \A m \in DOMAIN p.nodes :
         m < n /\ Signature(p.nodes[m].op).effectful => p.nodes[m].in[1] # producer
    /\ producer = CurrentEffect(p, n)

ImportRights(p, slot) ==
    LET i == CHOOSE j \in DOMAIN p.imports : p.imports[j].slot = slot
    IN [kind |-> p.imports[i].kind, rights |-> p.imports[i].rights]

(* capability_origins: a declared import, or the object capability that a   *)
(* create or a query returns.                                               *)
CapabilityOrigin(p, x) ==
    IF p.nodes[x].op = "BlockParam"
    THEN ImportRights(p, p.nodes[x].aux0)
    ELSE [kind |-> "Object", rights |-> {"READ", "REVISE"}]

VerifyHostImport(p, n) ==
    LET x == p.nodes[n].in[2]
        sig == Signature(p.nodes[n].op)
    IN /\ SeenType(p, n, x) = "Capability"
       /\ CapabilityOrigin(p, x).kind = sig.kind
       /\ sig.rights \subseteq CapabilityOrigin(p, x).rights

(* verify_capability_inputs and the type table checks are left out: a        *)
(* capability reaches an input only from an import whose origin is checked    *)
(* below, and a type is a member of PythTypes, so they refuse nothing more.   *)
VerifyNodeSemantics(p, n) ==
    LET op == p.nodes[n].op IN
    /\ p.nodes[n].type = "Capability" => op \in {"BlockParam", "HostResult"}
    /\ CASE op = "HostResult" -> VerifyHostResult(p, n)
         [] op = "Jump"       -> TRUE
         [] OTHER             -> VerifyOpcodeSignature(p, n)
    /\ op = "BlockParam" /\ p.nodes[n].type = "Capability" => VerifyImportBlockParam(p, n)
    /\ op = "EffectStart" => VerifyEffectStart(p, n)
    /\ Signature(op).effectful => VerifyEffectInput(p, n) /\ VerifyHostImport(p, n)

VerifySemantics(p) == \A n \in DOMAIN p.nodes : VerifyNodeSemantics(p, n)

-----------------------------------------------------------------------------
(* verify_referenced_ranges, verify_canonical_encoding                      *)

VerifyReferencedRanges(p) ==
    /\ p.utf8
    /\ \A n \in DOMAIN p.nodes :
         LET end == p.nodes[n].aux0 + p.nodes[n].aux1 IN
         /\ p.nodes[n].op = "ConstUtf8" => end <= p.strings
         /\ p.nodes[n].op = "ConstBytes" => end <= p.pool

NodeFieldsCanonical(node) ==
    /\ node.op \notin {"ConstBytes", "ConstUtf8", "Branch"} => node.aux1 = 0
    /\ \/ node.op \in {"ConstBytes", "ConstUtf8", "Branch", "Jump", "HostResult"}
       \/ node.op = "BlockParam" /\ node.type = "Capability"
       \/ node.aux0 = 0
    /\ node.op \notin {"ConstBool", "ConstU64", "ConstI64"} => node.imm = 0
    /\ node.op = "ConstBool" => node.imm \in {0, 1}

VerifyCanonicalEncoding(p) ==
    /\ \A i \in DOMAIN p.blocks :
         /\ p.blocks[i].first = IF i = 0 THEN 0 ELSE BlockEnd(p.blocks[i - 1])
         /\ p.blocks[i].params <= 4
    /\ \A n \in DOMAIN p.nodes : NodeFieldsCanonical(p.nodes[n])
    /\ \A i \in DOMAIN p.imports :
         /\ p.imports[i].slot = i
         /\ p.imports[i].type \in PythTypes
         /\ p.imports[i].kind \in ResourceKinds
         /\ p.imports[i].rights \subseteq RightNames

-----------------------------------------------------------------------------
(* verify_bytes: decoding, then the stages of verify_package in order       *)

Stages ==
    <<"decode", "known", "ranges", "control", "reachable", "available",
      "semantics", "referenced", "canonical">>

StageAccepts(p, stage) ==
    CASE stage = "decode"     -> Decode(p)
      [] stage = "known"      -> KnownRecords(p)
      [] stage = "ranges"     -> VerifyBlockRanges(p)
      [] stage = "control"    -> VerifyControlFlow(p)
      [] stage = "reachable"  -> VerifyReachableBlocks(p)
      [] stage = "available"  -> VerifyValueAvailability(p)
      [] stage = "semantics"  -> VerifySemantics(p)
      [] stage = "referenced" -> VerifyReferencedRanges(p)
      [] stage = "canonical"  -> VerifyCanonicalEncoding(p)

(* What a stage indexes or expects without checking it again.  Outside      *)
(* these bounds the code panics in PythCore: an unknown opcode in an expect,*)
(* a terminator or target outside its table, an input index outside the     *)
(* fixed arrays of verify_semantics.                                        *)
StageInBounds(p, stage) ==
    CASE stage \in {"decode", "known"} -> TRUE
      [] stage = "ranges" -> KnownRecords(p)
      [] stage = "control" ->
           \A i \in DOMAIN p.blocks : /\ BlockEnd(p.blocks[i]) - 1 \in DOMAIN p.nodes
                                     /\ p.blocks[i].terminator \in DOMAIN p.nodes
      [] stage \in {"reachable", "available"} ->
           \A i \in DOMAIN p.blocks : /\ p.blocks[i].terminator \in DOMAIN p.nodes
                                     /\ Targets(p, i) \subseteq DOMAIN p.blocks
      [] stage = "semantics" ->
           \A n \in DOMAIN p.nodes : \A k \in 1..4 :
             p.nodes[n].in[k] \in DOMAIN p.nodes \cup {NoValue}
      [] OTHER -> KnownRecords(p)

VerifyBytes(p) ==
    FoldLeft(LAMBDA verdict, stage :
               CASE verdict # "accepted"    -> verdict
                 [] ~StageInBounds(p, stage) -> "panic"
                 [] StageAccepts(p, stage)  -> "accepted"
                 [] OTHER                   -> stage,
             "accepted", Stages)
=============================================================================

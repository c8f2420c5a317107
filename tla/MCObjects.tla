----------------------------- MODULE MCObjects ------------------------------
(***************************************************************************)
(* Instances of the object components for TLC: the object service, the     *)
(* task service, names and revisions, and the package registry.  Each      *)
(* keeps tables of its own behind calls that do not overlap, so each       *)
(* behaviour exercises the part its initial state names and the variables  *)
(* of the others rest.                                                     *)
(*                                                                         *)
(* Objects: three free slots beside the external note, so that the store   *)
(* and the quotas fill up, and two prior revisions, so that the history    *)
(* does.  Names: Target2 is never inserted, and a binding record may be    *)
(* missing, carry a name, carry none or be a note.  Registry: a release    *)
(* that exports a tool with a requirement, one that adds a requirement to  *)
(* that export, one that claims a name and a slot of it, one whose second  *)
(* content is not what its table says, and one torn.                       *)
(***************************************************************************)
EXTENDS Integers, Sequences, TLAPS

Content(n, bytes, ok) == [blocks |-> n, bytes |-> bytes, digestOk |-> ok]

Export(locator, content, kind) == [locator |-> locator, content |-> content, kind |-> kind]

Need(locator, id, slot, rights) ==
    [locator |-> locator, id |-> id, slot |-> slot, rights |-> rights]

Tool == <<1, 1>>

View == <<1, 2>>

Artifacts ==
    [tool |-> [sealed |-> TRUE, contents |-> <<Content(1, 1, TRUE), Content(1, 1, TRUE)>>,
               exports |-> <<Export(Tool, 1, "Tool")>>,
               requirements |-> <<Need(Tool, 1, 0, {"READ"})>>],
     addon |-> [sealed |-> TRUE, contents |-> <<Content(1, 1, TRUE)>>,
                exports |-> <<Export(View, 0, "Document")>>,
                requirements |-> <<Need(Tool, 2, 1, {"READ", "WRITE"})>>],
     rival |-> [sealed |-> TRUE, contents |-> <<Content(1, 1, TRUE), Content(2, 2, TRUE)>>,
                exports |-> <<Export(View, 1, "Tool")>>,
                requirements |-> <<Need(View, 1, 0, {"WRITE"}), Need(Tool, 3, 0, {"READ"})>>],
     broken |-> [sealed |-> TRUE, contents |-> <<Content(1, 1, TRUE), Content(2, 1, FALSE)>>,
                 exports |-> <<>>, requirements |-> <<>>],
     torn |-> [sealed |-> FALSE, contents |-> <<Content(1, 1, TRUE)>>,
               exports |-> <<>>, requirements |-> <<>>]]

LaunchHandles == {[owner |-> "shell", rights |-> {"READ"}],
                  [owner |-> "shell", rights |-> {"READ", "WRITE"}],
                  [owner |-> "runtime", rights |-> {"WRITE"}]}

-----------------------------------------------------------------------------
VARIABLE part  \* the part of the system this behaviour exercises

(* The object service and its checkpoint *)
VARIABLES machine, objects, bitmap, index, belongs, current, prior, capabilities,
          quotas, next_note, next_ticks, reply, cell, pending, confirmed, acked

objectsVars == <<machine, objects, bitmap, index, belongs, current, prior, capabilities,
                 quotas, next_note, next_ticks, reply, cell, pending, confirmed, acked>>

Objects == INSTANCE ObjectServiceProofs WITH
    Shell <- "shell", Intruder <- "intruder", Runtimes <- {"runtime"},
    TaskStorage <- "task storage", MaxObjects <- 4, MaxPrior <- 2, CapabilitySlots <- 4,
    MaxQuotas <- 4, MaxQueryResults <- 2, LastNote <- 3, TaskIds <- {6},
    SchemaIds <- {7}, MaxTicks <- 5, MaxStores <- 2

(* The task service and its checkpoint *)
VARIABLES service, saved, extra, unsaved, verdict, answered, running, boots

tasksVars == <<service, saved, extra, unsaved, verdict, answered, running, boots>>

Tasks == INSTANCE TaskServiceProofs WITH
    Steward <- "steward", Natives <- {"native"}, Nobody <- "nobody", MaxObjects <- 7,
    MaxPrior <- 2, MaxExtras <- 1, MaxBoots <- 2

(* Relationships, revisions and locators *)
VARIABLES namesPart, rel, hist, browser, text

namesVars == <<namesPart, rel, hist, browser, text>>

(* Its operators, to build the tables it starts from *)
Empty == INSTANCE ObjectNamespace WITH
    part <- namesPart, Links <- {}, Bindings <- {}, Written <- {}, ObjectCapacity <- 2, RelationshipCapacity <- 4, CurrentCapacity <- 2,
    RevisionCapacity <- 2, BrowserCapacity <- 2, MaxSegments <- 2,
    MaxSegmentBytes <- 2, MaxTime <- 3, Alphabet <- {"l", "/", "\\", ":", ".", "*"},
    MaxText <- 5

NamedLinks ==
    {Empty!Link(Empty!Root, "NameBinding", Empty!Bound),
     Empty!Link(Empty!Root, "NameBinding", Empty!Bound2),
     Empty!Link(Empty!Child, "NameBinding", Empty!Bound2),
     Empty!Link(Empty!Bound, "BindingTarget", Empty!Child),
     Empty!Link(Empty!Bound, "BindingTarget", Empty!Target),
     Empty!Link(Empty!Bound2, "BindingTarget", Empty!Target),
     Empty!Link(Empty!Bound2, "BindingTarget", Empty!Target2)}

FirstBinding ==
    {<<>>, <<Empty!NotesBinding(Empty!Bound)>>,
     <<Empty!locator_binding_record(Empty!Bound, Empty!Today)>>,
     <<Empty!Record(Empty!Bound, "NameBinding", 1)>>, <<Empty!NoteRecord(Empty!Bound)>>}

SecondBinding ==
    {<<>>, <<Empty!NotesBinding(Empty!Bound2)>>,
     <<Empty!locator_binding_record(Empty!Bound2, Empty!Today)>>}

NamedBindings ==
    {Empty!CreatedInOrder(<<Empty!RootRecord, Empty!Record(Empty!Child, "WorkspaceSession", 1)>>
                          \o a \o b \o c) :
        a \in FirstBinding, b \in SecondBinding, c \in {<<>>, <<Empty!NoteRecord(Empty!Target)>>}}

WrittenNotes ==
    {Empty!NoteRecord(1), Empty!Record(1, "Note", 2), Empty!NoteRecord(2), Empty!NoteRecord(3)}

Names == INSTANCE ObjectNamespace WITH
    part <- namesPart, ObjectCapacity <- 2, RelationshipCapacity <- 4,
    CurrentCapacity <- 2, RevisionCapacity <- 2, BrowserCapacity <- 2, MaxSegments <- 2,
    MaxSegmentBytes <- 2, MaxTime <- 3, Alphabet <- {"l", "/", "\\", ":", ".", "*"},
    MaxText <- 5, Links <- NamedLinks, Bindings <- NamedBindings,
    Written <- WrittenNotes

(* The package registry, its records and content blocks *)
VARIABLES registry, store, next, contexts, answer, ever

registryVars == <<registry, store, next, contexts, answer, ever>>

Registry == INSTANCE PackageRegistry WITH
    Releases <- {"tool", "addon", "rival", "broken", "torn"}, Artifact <- Artifacts,
    Blocks <- 6, MaxPackages <- 4, MaxContents <- 5, MaxExports <- 2,
    MaxRequirements <- 3, MaxContexts <- 1, MaxRetention <- 1,
    Processes <- {"shell", "runtime"}, Handles <- LaunchHandles

(* The assumptions of the components on their constants. *)
ASSUME Bounds ==
    /\ Objects!ServiceAssumption /\ Objects!CapacityAssumption
    /\ Objects!IdAssumption /\ Tasks!TaskServiceAssumption
    /\ Names!ObjectNamespaceAssumption /\ Registry!PackageRegistryAssumption

-----------------------------------------------------------------------------
(* A component that is not exercised rests at a value nothing reads. *)
Off == "off"

ObjectsOff ==
    /\ machine = Off /\ objects = Off /\ bitmap = Off /\ index = Off /\ belongs = Off
    /\ current = Off /\ prior = Off /\ capabilities = Off /\ quotas = Off
    /\ next_note = Off /\ next_ticks = Off /\ reply = Off /\ cell = Off
    /\ pending = Off /\ confirmed = Off /\ acked = Off

TasksOff ==
    /\ service = Off /\ saved = Off /\ extra = Off /\ unsaved = Off /\ verdict = Off
    /\ answered = Off /\ running = Off /\ boots = Off

NamesOff ==
    /\ namesPart = Off /\ rel = Off /\ hist = Off /\ browser = Off /\ text = Off

RegistryOff ==
    /\ registry = Off /\ store = Off /\ next = Off /\ contexts = Off /\ answer = Off
    /\ ever = Off

vars == <<part, objectsVars, tasksVars, namesVars, registryVars>>

Init ==
    \/ /\ part = "objects" /\ Objects!Init
       /\ TasksOff /\ NamesOff /\ RegistryOff
    \/ /\ part = "tasks" /\ Tasks!Init
       /\ ObjectsOff /\ NamesOff /\ RegistryOff
    \/ /\ part = "names" /\ Names!Init
       /\ ObjectsOff /\ TasksOff /\ RegistryOff
    \/ /\ part = "registry" /\ Registry!Init
       /\ ObjectsOff /\ TasksOff /\ NamesOff

Next ==
    \/ /\ part = "objects" /\ Objects!Next
       /\ UNCHANGED <<part, tasksVars, namesVars, registryVars>>
    \/ /\ part = "tasks" /\ Tasks!Next
       /\ UNCHANGED <<part, objectsVars, namesVars, registryVars>>
    \/ /\ part = "names" /\ Names!Next
       /\ UNCHANGED <<part, objectsVars, tasksVars, registryVars>>
    \/ /\ part = "registry" /\ Registry!Next
       /\ UNCHANGED <<part, objectsVars, tasksVars, namesVars>>

Spec == Init /\ [][Next]_vars

-----------------------------------------------------------------------------
(* ObjectsSafe: the object service (object_service.rs).  The tables agree  *)
(* with the allocation bitmap and the index, what is in memory can be      *)
(* restored from a checkpoint of it, an acknowledged change survives any   *)
(* power cut, history keeps every revision or says it is full, no process  *)
(* gets a handle it was not given, and an answer is of the present state.  *)
ObjectsSafe ==
    part = "objects" =>
        /\ Objects!TypeOK /\ Objects!TablesAgree /\ Objects!SnapshotRestorable
        /\ Objects!AckedSurvives /\ Objects!HistoryComplete
        /\ Objects!NoForeignAuthority /\ Objects!AnswersFresh

(* TasksSafe: the task service (task_service.rs).  The status of a task is *)
(* the one its events say, a proposal is decided whole or not at all, and  *)
(* a decision that was answered survives a power cut.                      *)
TasksSafe ==
    part = "tasks" =>
        /\ Tasks!TypeOK /\ Tasks!StatusFollowsEvents
        /\ Tasks!ApprovalAtomic /\ Tasks!DecisionDurable

(* NamesExact: the locator syntax and the walk along name bindings equal   *)
(* their reference definitions under every authority, revision history has *)
(* no gaps and restores, records survive encoding, and the self tests pass *)
(* (object_locator.rs, object_relationships.rs, revision_history.rs,       *)
(* object_browser.rs).                                                     *)
NamesExact ==
    part = "names" =>
        /\ Names!TypeOK /\ Names!ResolvesExactly /\ Names!SyntaxExactly
        /\ Names!HistoryWithoutGaps /\ Names!RecordsRoundTrip /\ Names!SelfTestsPass

(* RegistryConsistent: through installs that fail half way, uninstalls and *)
(* reclaims every content block has one owner, names and import slots stay *)
(* unambiguous, a launch context keeps its export, and a snapshot restores *)
(* the registry it was taken from (package_registry.rs,                    *)
(*  package_content_store.rs).                                             *)
RegistryConsistent ==
    part = "registry" =>
        /\ Registry!TypeOK /\ Registry!SnapshotRestores /\ Registry!BlocksOwnedOnce
        /\ Registry!NamesAndSlotsUnambiguous /\ Registry!ContextKeepsExport

(* ObjectSteps: what a single call may never do.  A relationship added     *)
(* later never leads a name to another object; a schema descriptor with    *)
(* references never goes; a launch grants every import with the rights its *)
(* manifest requires, for a package that is active.                        *)
ObjectSteps ==
    [][/\ (part = "names") => Names!NeverRedirected
       /\ (part = "registry") => Registry!ReferencedSchemaKept /\ Registry!LaunchFullyGranted]_vars

(* TimestampsAhead: the next revision an object service takes is later     *)
(* than every one it holds, also after a boot (next_timestamp).            *)
TimestampsAhead == part = "objects" => Objects!TimestampsAhead

-----------------------------------------------------------------------------
(* The theorems of the components, of the system the runs check *)

(* The constants of this instance meet the assumptions of ObjectService.   *)
LEMMA ObjectsBounded == Objects!CapacityAssumption /\ Objects!IdAssumption
BY Bounds

(* The objects start in the inductive invariant of ObjectServiceProofs.    *)
LEMMA ObjectsStart == Init => (part = "objects" => Objects!Inv)
<1>1. Objects!Init => Objects!Inv
  BY ObjectsBounded, Objects!Initial
<1> QED
  BY <1>1 DEF Init

(* A step of the objects keeps it; a step of another part is none of theirs.*)
LEMMA ObjectsStep ==
    ASSUME part = "objects" => Objects!Inv, [Next]_vars
    PROVE  (part = "objects" => Objects!Inv)'
<1>1. CASE part = "objects" /\ Objects!Next /\ part' = part
  BY <1>1, ObjectsBounded, Objects!Step
<1>2. CASE UNCHANGED vars
  <2>1. part' = part /\ UNCHANGED Objects!vars
    BY <1>2 DEF vars, objectsVars, Objects!vars, Objects!memory, Objects!authority,
         Objects!counters, Objects!register
  <2> QED
    BY <2>1, ObjectsBounded, Objects!Step
<1>3. CASE part # "objects" /\ part' = part
  BY <1>3
<1> QED
  BY <1>1, <1>2, <1>3 DEF Next

(* What ObjectServiceProofs proves of the object service for every capacity*)
(* and every set of ids (object_service.rs) is what the run checks here:   *)
(* the system whose parts this module puts side by side keeps ObjectsSafe. *)
THEOREM ObjectsAreSafe == Spec => []ObjectsSafe
<1>1. Init => (part = "objects" => Objects!Inv)
  BY ObjectsStart
<1>2. (part = "objects" => Objects!Inv) /\ [Next]_vars => (part = "objects" => Objects!Inv)'
  BY ObjectsStep
<1>3. (part = "objects" => Objects!Inv) => ObjectsSafe
  BY ObjectsBounded, Objects!Consequences DEF ObjectsSafe
<1> QED
  BY <1>1, <1>2, <1>3, PTL DEF Spec

(* The constants of this instance meet the assumptions of TaskService.     *)
LEMMA TasksBounded == Tasks!TaskServiceAssumption
BY Bounds

(* The tasks start in the inductive invariant of TaskServiceProofs.        *)
LEMMA TasksStart == Init => (part = "tasks" => Tasks!Inv)
<1>1. Tasks!Init => Tasks!Inv
  BY TasksBounded, Tasks!Initial
<1> QED
  BY <1>1 DEF Init

(* A step of the tasks keeps it; a step of another part is none of theirs. *)
LEMMA TasksStep ==
    ASSUME part = "tasks" => Tasks!Inv, [Next]_vars
    PROVE  (part = "tasks" => Tasks!Inv)'
<1>1. CASE part = "tasks" /\ Tasks!Next /\ part' = part
  BY <1>1, TasksBounded, Tasks!Step
<1>2. CASE UNCHANGED vars
  <2>1. part' = part /\ UNCHANGED Tasks!vars
    BY <1>2 DEF vars, tasksVars, Tasks!vars
  <2> QED
    BY <2>1, TasksBounded, Tasks!Step
<1>3. CASE part # "tasks" /\ part' = part
  BY <1>3
<1> QED
  BY <1>1, <1>2, <1>3 DEF Next

(* The same of the task service (task_service.rs), from TaskServiceProofs: *)
(* decisions are whole and durable in the system as it is checked here.    *)
THEOREM TasksAreSafe == Spec => []TasksSafe
<1>1. Init => (part = "tasks" => Tasks!Inv)
  BY TasksStart
<1>2. (part = "tasks" => Tasks!Inv) /\ [Next]_vars => (part = "tasks" => Tasks!Inv)'
  BY TasksStep
<1>3. (part = "tasks" => Tasks!Inv) => TasksSafe
  BY TasksBounded, Tasks!Consequences DEF TasksSafe
<1> QED
  BY <1>1, <1>2, <1>3, PTL DEF Spec
=============================================================================

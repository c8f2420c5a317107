---------------------- MODULE PackagePublicationProofs ----------------------
(***************************************************************************)
(* Proof that PackagePublication keeps the published world, for every set  *)
(* of releases and content blocks and every bound.                         *)
(***************************************************************************)
EXTENDS PackagePublication, FiniteSetTheorems, SequenceTheorems, WellFoundedInduction, TLAPS

-----------------------------------------------------------------------------
(* The inductive invariant *)

Anchors == [registry : Registries, object : Candidates, package : Nat]
Contents == Nat \X (Releases \cup {0})
Disks == [registries : [Parity -> Registries], candidates : [Parity -> Candidates],
          anchors : [Parity -> Anchors], contents : [Blocks -> Contents]]

Calls == [op : {"Idle", "Prepare", "Publish", "Disable", "Uninstall"},
          step : {"None", "Content", "Registry", "Object", "Anchor"},
          registry : Registries, object : Candidates, package : Nat]
Prepareds == [registry : Registries, object : Candidates, package : Nat, live : Candidates]

(* The packages a call may still disable or uninstall *)
Alive(r) == {p \in DOMAIN r.packages : r.packages[p].status # "Tombstoned"}

(* A registry of the code: an untombstoned package has its content, in     *)
(* blocks of its own                                                       *)
Sound(r) ==
    /\ r \in Registries
    /\ Alive(r) \subseteq Kept(r)
    /\ \A p \in Kept(r) : r.packages[p].block \in Blocks
    /\ \A p, q \in Kept(r) : r.packages[p].block = r.packages[q].block => p = q

(* Equal but for the retention counts, which only memory recomputes *)
SameWorld(a, b) ==
    /\ a.generation = b.generation
    /\ DOMAIN a.packages = DOMAIN b.packages
    /\ \A p \in DOMAIN a.packages : /\ a.packages[p].status = b.packages[p].status
                                    /\ a.packages[p].release = b.packages[p].release
                                    /\ a.packages[p].block = b.packages[p].block

(* No package of a is lost, renamed or revived in b *)
Continues(a, b) ==
    \A p \in DOMAIN a.packages :
        /\ p \in DOMAIN b.packages
        /\ b.packages[p].release = a.packages[p].release
        /\ a.packages[p].status = "Tombstoned" => b.packages[p].status = "Tombstoned"

Counted(r, instances) ==
    \A p \in DOMAIN r.packages : r.packages[p].refs = CountOf(instances, p)

Types ==
    /\ disk \in Disks
    /\ ordinary \in Candidates /\ objects \in Candidates /\ anchored \in Candidates
    /\ running \in BOOLEAN
    /\ prepared \in Prepareds /\ call \in Calls
    /\ told \in Registries
    /\ contexts \subseteq Alive(registry)
    /\ Sound(registry) /\ Sound(prepared.registry) /\ Sound(call.registry)
    /\ call = Idle \/ (running /\ call.step # "None")

(* Slots hold what belongs there *)
InPlace(d) ==
    /\ \A s \in Parity :
          d.registries[s].generation > 0 => d.registries[s].generation % 2 = s
    /\ \A s \in Parity :
          \/ d.anchors[s] = NoAnchor
          \/ /\ d.anchors[s].registry.generation > 0
             /\ d.anchors[s].registry.generation % 2 = s
             /\ Sound(d.anchors[s].registry)
             /\ Alive(d.anchors[s].registry) \subseteq d.anchors[s].object.packages

(* The anchor the kernel works from *)
Base(d) == IF registry.generation = 0 THEN NoAnchor ELSE d.anchors[registry.generation % 2]

(* What the registry slots hold beside r is at most its successor *)
RegistriesFollow(d, r) ==
    \A s \in Parity :
        /\ d.registries[s].generation <= r.generation + 1
        /\ d.registries[s].generation > r.generation => Continues(r, d.registries[s])

(* The world of the kernel is whole on the device, whatever else is *)
BaseWhole(d) ==
    /\ registry.generation > 0 => publication_anchor_is_complete(d, Base(d))
    /\ SameWorld(Base(d).registry, registry)
    /\ Base(d).object = anchored
    /\ RegistriesFollow(d, registry)

ToldKept(r) ==
    /\ told.generation <= r.generation
    /\ told.generation = r.generation => told = r
    /\ Continues(told, r)

(* Without late errors no anchor is ahead of r *)
AnchorsBehind(d, r) ==
    ~LateErrors => \A s \in Parity : d.anchors[s].registry.generation <= r.generation

Up == running => BaseWhole(disk) /\ ToldKept(Base(disk).registry) /\ AnchorsBehind(disk, registry)

(* What holds of the world r a boot would select from d *)
Selectable(d, r) ==
    /\ ToldKept(r)
    /\ RegistriesFollow(d, r)
    /\ AnchorsBehind(d, r)
    /\ ~LateErrors => Reconcilable(r, ordinary.instances)

Down == ~running => Selectable(disk, SelectedAnchor(disk).registry)

(* All that AnchorOf(c) names is on the device *)
AnchorReady(d, c) ==
    /\ read_candidate_registry_generation(d, c.registry)
    /\ read_object_service_candidate_checkpoint(d, c.object)
    /\ c.package \in DOMAIN c.registry.packages \cap c.object.packages
    /\ read_validate_candidate_content(d, c.registry)

(* The call under way builds the successor of the kernel's world beside it *)
PrepareInHand ==
    /\ call.step \in {"Content", "Registry", "Object"}
    /\ call.package \in Alive(call.registry)
    /\ call.registry.packages[call.package].block \notin live_bitmap_from_registry(registry)
    /\ registry.generation > 0 => call.object.generation % 2 # anchored.generation % 2
    /\ call.object.packages = objects.packages \cup {call.package}
    /\ call.object.instances = objects.instances
    /\ Alive(registry) \subseteq Alive(call.registry)
    /\ prepared = NoPrepared

ChangeInHand ==
    /\ call.step \in {"Registry", "Anchor"}
    /\ call.object = anchored
    /\ registry.generation > 0
    /\ call.package \in DOMAIN call.registry.packages \cap anchored.packages
    /\ DOMAIN call.registry.packages = DOMAIN registry.packages
    /\ \A p \in Kept(call.registry) :
          /\ p \in Kept(registry)
          /\ call.registry.packages[p].block = registry.packages[p].block
          /\ call.registry.packages[p].release = registry.packages[p].release

CallInHand ==
    call # Idle =>
        /\ call.registry.generation = registry.generation + 1
        /\ Continues(registry, call.registry)
        /\ contexts \subseteq Alive(call.registry)
        /\ Counted(call.registry, objects.instances)
        /\ Reconcilable(call.registry, objects.instances)
        /\ call.op \in {"Prepare", "Publish", "Disable", "Uninstall"}
        /\ call.op = "Prepare" => PrepareInHand
        /\ call.op \in {"Disable", "Uninstall"} => ChangeInHand
        /\ call.op = "Publish" => /\ call.step = "Anchor"
                                  /\ call.object.instances = objects.instances
                                  /\ Kept(call.registry) \subseteq call.object.packages
        /\ call.step = "Anchor" => /\ AnchorReady(disk, call)
                                   /\ Alive(call.registry) \subseteq call.object.packages

(* The candidate that waits for its publication *)
PreparedInHand ==
    prepared # NoPrepared =>
        /\ prepared.registry.generation = registry.generation + 1
        /\ Continues(registry, prepared.registry)
        /\ Alive(registry) \subseteq Alive(prepared.registry)
        /\ prepared.package \in DOMAIN prepared.registry.packages
        /\ prepared.object.packages = prepared.live.packages \cup {prepared.package}
        /\ prepared.object.instances = prepared.live.instances
        /\ Counted(prepared.registry, prepared.live.instances)
        /\ Reconcilable(prepared.registry, prepared.live.instances)

(* The kernel's references, and those a boot restores *)
References ==
    /\ Counted(registry, objects.instances)
    /\ DOMAIN cached \subseteq objects.packages
    /\ running =>
          /\ Reconcilable(registry, objects.instances)
          /\ \A i \in DOMAIN ordinary.instances : \E j \in DOMAIN objects.instances :
                objects.instances[j] = ordinary.instances[i]

IInv ==
    /\ Types
    /\ InPlace(disk)
    /\ Up
    /\ Down
    /\ CallInHand
    /\ PreparedInHand
    /\ References

-----------------------------------------------------------------------------
(* The operators *)

(* A nonempty set of naturals has a first element: allocate_staged returns *)
(* a free block.                                                           *)
LEMMA AllocatedIsFree ==
    ASSUME PackagePublicationAssumption, NEW r, FreeBlocks(r) # {}
    PROVE  allocate_staged(r) \in FreeBlocks(r)
<1> DEFINE S == FreeBlocks(r)
<1>1. S \subseteq Nat
  BY DEF FreeBlocks, PackagePublicationAssumption
<1>2. PICK b \in S : \A c \in S : ~(<<c, b>> \in OpToRel(<, Nat))
  BY <1>1, NatLessThanWellFounded, WFMin
<1>3. \A c \in S : ~(c < b)
  BY <1>1, <1>2 DEF OpToRel
<1>4. \A c \in S : b <= c
  BY <1>1, <1>3
<1> QED
  BY <1>4 DEF allocate_staged

(* A count is a natural number, positive for what is counted.              *)
LEMMA CountType ==
    ASSUME NEW instances \in Seq(Nat), NEW p
    PROVE  /\ CountOf(instances, p) \in Nat
           /\ CountOf(instances, p) = 0 <=> \A i \in DOMAIN instances : instances[i] # p
<1> DEFINE S == {i \in DOMAIN instances : instances[i] = p}
<1>1. IsFiniteSet(1 .. Len(instances))
  BY FS_Interval
<1>2. S \in SUBSET (1 .. Len(instances))
  OBVIOUS
<1>3. IsFiniteSet(S)
  BY <1>1, <1>2, FS_Subset
<1>4. Cardinality(S) \in Nat /\ (Cardinality(S) = 0 <=> S = {})
  BY <1>3, FS_CardinalityType, FS_EmptySet
<1> QED
  BY <1>4 DEF CountOf

(* A registry is its two fields.                                           *)
LEMMA RegistryExcept ==
    ASSUME NEW r \in Registries
    PROVE  /\ \A f : [r EXCEPT !.packages = f] = [generation |-> r.generation, packages |-> f]
           /\ Successor(r) = [generation |-> r.generation + 1, packages |-> r.packages]
BY DEF Registries, Successor

(* reconcile_schema_references changes retention counts only.              *)
LEMMA ReconcileFields ==
    ASSUME NEW r \in Registries, NEW instances \in Seq(Nat)
    PROVE  LET n == reconcile_schema_references(r, instances)
           IN  /\ n \in Registries
               /\ n.generation = r.generation
               /\ DOMAIN n.packages = DOMAIN r.packages
               /\ \A p \in DOMAIN r.packages :
                     /\ n.packages[p].status = r.packages[p].status
                     /\ n.packages[p].release = r.packages[p].release
                     /\ n.packages[p].block = r.packages[p].block
                     /\ n.packages[p].refs = CountOf(instances, p)
<1> DEFINE f == [p \in DOMAIN r.packages |-> [r.packages[p] EXCEPT !.refs = CountOf(instances, p)]]
<1>1. r.packages \in Seq(PackageRecords) /\ DOMAIN r.packages = 1 .. Len(r.packages)
  BY DEF Registries
<1>2. ASSUME NEW p \in DOMAIN r.packages
      PROVE  /\ f[p] \in PackageRecords
             /\ f[p].status = r.packages[p].status /\ f[p].release = r.packages[p].release
             /\ f[p].block = r.packages[p].block /\ f[p].refs = CountOf(instances, p)
  <2>1. r.packages[p] \in PackageRecords
    BY <1>1
  <2> QED
    BY <2>1, CountType DEF PackageRecords
<1>3. f \in Seq(PackageRecords)
  <2>1. f \in [1 .. Len(r.packages) -> PackageRecords]
    BY <1>1, <1>2
  <2>2. Len(r.packages) \in Nat
    BY <1>1
  <2> HIDE DEF f
  <2>3. [1 .. Len(r.packages) -> PackageRecords] \in {[1 .. n -> PackageRecords] : n \in Nat}
    BY <2>2
  <2> QED
    BY <2>1, <2>3, SeqDef
<1>4. reconcile_schema_references(r, instances) = [generation |-> r.generation, packages |-> f]
  <2> HIDE DEF f
  <2>1. reconcile_schema_references(r, instances) = [r EXCEPT !.packages = f]
    BY DEF reconcile_schema_references, f
  <2> QED
    BY <2>1, RegistryExcept
<1> HIDE DEF f
<1> QED
  <2>1. DOMAIN f = DOMAIN r.packages
    BY DEF f
  <2> QED
    BY <1>2, <1>3, <1>4, <2>1 DEF Registries

(* What the staged registries of an install, a disable and an uninstall    *)
(* have in common with the one they are staged from.                       *)
LEMMA WithPackageFields ==
    ASSUME PackagePublicationAssumption, NEW r \in Registries, NEW release \in Releases,
           FreeBlocks(r) # {}
    PROVE  LET n == WithPackage(r, release)
               last == Len(r.packages) + 1
           IN  /\ n \in Registries
               /\ n.generation = r.generation + 1
               /\ Len(n.packages) = last
               /\ DOMAIN n.packages = DOMAIN r.packages \cup {last}
               /\ last \notin DOMAIN r.packages
               /\ \A p \in DOMAIN r.packages : n.packages[p] = r.packages[p]
               /\ n.packages[last] = [status |-> "Ok", release |-> release,
                                      block |-> allocate_staged(r), refs |-> 0]
<1> DEFINE new == [status |-> "Ok", release |-> release, block |-> allocate_staged(r), refs |-> 0]
<1>1. new \in PackageRecords
  BY AllocatedIsFree DEF PackageRecords, FreeBlocks, PackagePublicationAssumption
<1>2. r.packages \in Seq(PackageRecords) /\ r.generation \in Nat
  BY DEF Registries
<1>3. WithPackage(r, release) = [generation |-> r.generation + 1, packages |-> Append(r.packages, new)]
  <2> HIDE DEF new
  <2>1. WithPackage(r, release) = [Successor(r) EXCEPT !.packages = Append(Successor(r).packages, new)]
    BY DEF WithPackage, new
  <2>2. Successor(r).packages = r.packages /\ Successor(r).generation = r.generation + 1
    BY RegistryExcept
  <2>3. Successor(r) \in Registries
    BY <1>2, RegistryExcept DEF Registries
  <2> QED
    BY <2>1, <2>2, <2>3, RegistryExcept
<1> HIDE DEF new
<1>4. /\ Append(r.packages, new) \in Seq(PackageRecords)
      /\ Len(Append(r.packages, new)) = Len(r.packages) + 1
      /\ DOMAIN Append(r.packages, new) = 1 .. Len(r.packages) + 1
      /\ \A p \in 1 .. Len(r.packages) : Append(r.packages, new)[p] = r.packages[p]
      /\ Append(r.packages, new)[Len(r.packages) + 1] = new
  BY <1>1, <1>2
<1>5. DOMAIN r.packages = 1 .. Len(r.packages) /\ Len(r.packages) \in Nat
  BY <1>2
<1> QED
  BY <1>2, <1>3, <1>4, <1>5 DEF Registries, new

LEMMA ChangedFields ==
    ASSUME NEW r \in Registries, NEW p \in DOMAIN r.packages,
           NEW n \in {WithDisabled(r, p), WithTombstone(r, p)}
    PROVE  /\ n \in Registries
           /\ n.generation = r.generation + 1
           /\ DOMAIN n.packages = DOMAIN r.packages
           /\ \A q \in DOMAIN r.packages : /\ n.packages[q].release = r.packages[q].release
                                           /\ n.packages[q].refs = r.packages[q].refs
                                           /\ q # p => n.packages[q] = r.packages[q]
           /\ n = WithDisabled(r, p) => /\ n.packages[p].status = "Disabled"
                                        /\ n.packages[p].block = r.packages[p].block
           /\ n = WithTombstone(r, p) =>
                 /\ n.packages[p].status = "Tombstoned"
                 /\ n.packages[p].block = IF r.packages[p].refs > 0 THEN r.packages[p].block ELSE 0
<1>1. r.packages \in Seq(PackageRecords) /\ r.generation \in Nat
  BY DEF Registries
<1>2. r.packages[p] \in PackageRecords
  BY <1>1
<1>3. ASSUME NEW x \in PackageRecords PROVE [r.packages EXCEPT ![p] = x] \in Seq(PackageRecords)
  BY <1>1, <1>3
<1>4. CASE n = WithDisabled(r, p)
  <2> DEFINE x == [r.packages[p] EXCEPT !.status = "Disabled"]
  <2>1. n = [generation |-> r.generation + 1, packages |-> [r.packages EXCEPT ![p] = x]]
    BY <1>4 DEF WithDisabled, Successor, Registries
  <2>2. /\ x \in PackageRecords /\ x.status = "Disabled" /\ x.release = r.packages[p].release
        /\ x.block = r.packages[p].block /\ x.refs = r.packages[p].refs
    BY <1>2 DEF PackageRecords
  <2> HIDE DEF x
  <2>3. /\ n.packages[p] = x /\ \A q \in DOMAIN r.packages : q # p => n.packages[q] = r.packages[q]
        /\ DOMAIN n.packages = DOMAIN r.packages
    BY <1>1, <2>1
  <2>4. n # WithTombstone(r, p)
    <3>1. WithTombstone(r, p).packages[p].status = "Tombstoned"
      BY <1>1, <1>2 DEF WithTombstone, Successor, Registries, PackageRecords
    <3> QED
      BY <2>2, <2>3, <3>1
  <2> QED
    BY <1>1, <1>3, <2>1, <2>2, <2>3, <2>4 DEF Registries
<1>5. CASE n = WithTombstone(r, p)
  <2> DEFINE b == IF r.packages[p].refs > 0 THEN r.packages[p].block ELSE 0
             x == [r.packages[p] EXCEPT !.status = "Tombstoned", !.block = b]
  <2>1. n = [generation |-> r.generation + 1, packages |-> [r.packages EXCEPT ![p] = x]]
    BY <1>1, <1>2, <1>5 DEF WithTombstone, Successor, Registries, PackageRecords
  <2>2. /\ x \in PackageRecords /\ x.status = "Tombstoned" /\ x.release = r.packages[p].release
        /\ x.block = b /\ x.refs = r.packages[p].refs
    BY <1>2 DEF PackageRecords
  <2> HIDE DEF x
  <2>3. /\ n.packages[p] = x /\ \A q \in DOMAIN r.packages : q # p => n.packages[q] = r.packages[q]
        /\ DOMAIN n.packages = DOMAIN r.packages
    BY <1>1, <2>1
  <2>4. n # WithDisabled(r, p)
    <3>1. WithDisabled(r, p).packages[p].status = "Disabled"
      BY <1>1, <1>2 DEF WithDisabled, Successor, Registries, PackageRecords
    <3> QED
      BY <2>2, <2>3, <3>1
  <2> QED
    BY <1>1, <1>3, <2>1, <2>2, <2>3, <2>4 DEF Registries
<1> QED
  BY <1>4, <1>5

(* Worlds that differ in their counts only are the same to every check.    *)
LEMMA SameWorldCarries ==
    ASSUME NEW a, NEW b, SameWorld(a, b)
    PROVE  /\ SameWorld(b, a)
           /\ Alive(a) = Alive(b) /\ Kept(a) = Kept(b)
           /\ live_bitmap_from_registry(a) = live_bitmap_from_registry(b)
           /\ \A c : /\ Continues(a, c) <=> Continues(b, c)
                     /\ Continues(c, a) <=> Continues(c, b)
           /\ \A instances : Reconcilable(a, instances) <=> Reconcilable(b, instances)
<1>1. SameWorld(b, a)
  BY DEF SameWorld
<1>2. Alive(a) = Alive(b) /\ Kept(a) = Kept(b)
  BY DEF SameWorld, Alive, Kept
<1>3. live_bitmap_from_registry(a) = live_bitmap_from_registry(b)
  <2>1. \A p \in Kept(a) : a.packages[p].block = b.packages[p].block
    BY DEF Kept, SameWorld
  <2> QED
    BY <1>2, <2>1 DEF live_bitmap_from_registry
<1>4. \A c : Continues(a, c) <=> Continues(b, c)
  BY DEF SameWorld, Continues
<1>5. \A c : Continues(c, a) <=> Continues(c, b)
  BY DEF SameWorld, Continues
<1> QED
  BY <1>1, <1>2, <1>3, <1>4, <1>5 DEF Reconcilable

LEMMA ContinuesTransitive ==
    ASSUME NEW a, NEW b, NEW c, Continues(a, b), Continues(b, c)
    PROVE  Continues(a, c)
BY DEF Continues

LEMMA ReconcileSame ==
    ASSUME NEW r, Sound(r), NEW instances \in Seq(Nat)
    PROVE  LET n == reconcile_schema_references(r, instances)
           IN  Sound(n) /\ SameWorld(n, r) /\ Counted(n, instances)
<1> DEFINE n == reconcile_schema_references(r, instances)
<1>1. r \in Registries
  BY DEF Sound
<1>2. /\ n \in Registries /\ n.generation = r.generation /\ DOMAIN n.packages = DOMAIN r.packages
      /\ \A p \in DOMAIN r.packages : /\ n.packages[p].status = r.packages[p].status
                                      /\ n.packages[p].release = r.packages[p].release
                                      /\ n.packages[p].block = r.packages[p].block
                                      /\ n.packages[p].refs = CountOf(instances, p)
  BY <1>1, ReconcileFields
<1> HIDE DEF n
<1>3. SameWorld(n, r)
  BY <1>2 DEF SameWorld
<1>4. Kept(n) = Kept(r) /\ Alive(n) = Alive(r)
  BY <1>3, SameWorldCarries
<1>5. \A p \in Kept(r) : n.packages[p].block = r.packages[p].block
  BY <1>2 DEF Kept
<1>6. Sound(n)
  BY <1>2, <1>4, <1>5 DEF Sound
<1>7. Counted(n, instances)
  BY <1>2 DEF Counted
<1> QED
  BY <1>3, <1>6, <1>7 DEF n

-----------------------------------------------------------------------------
(* What a boot selects *)

(* The complete anchor with the highest generation, when there is one.     *)
LEMMA SelectedHighest ==
    ASSUME NEW d \in Disks
    PROVE  /\ CompleteAnchors(d) = {} => SelectedAnchor(d) = NoAnchor
           /\ CompleteAnchors(d) # {} =>
                 \E s \in CompleteAnchors(d) :
                    /\ SelectedAnchor(d) = d.anchors[s]
                    /\ \A t \in CompleteAnchors(d) :
                          d.anchors[t].registry.generation <= d.anchors[s].registry.generation
<1>1. \A s \in Parity : d.anchors[s].registry.generation \in Nat
  BY DEF Disks, Anchors, Registries
<1>2. CompleteAnchors(d) \subseteq {0, 1} /\ Parity = {0, 1}
  BY DEF CompleteAnchors, Parity
<1>3. CompleteAnchors(d) # {} =>
        \E s \in CompleteAnchors(d) : \A t \in CompleteAnchors(d) :
            d.anchors[t].registry.generation <= d.anchors[s].registry.generation
  BY <1>1, <1>2
<1> QED
  BY <1>3 DEF SelectedAnchor

(* While the kernel's world is whole, a boot selects it or its successor,  *)
(* and nothing that was reported is undone.                                *)
LEMMA SelectedFollows ==
    ASSUME registry \in Registries, told \in Registries,
           NEW d \in Disks, InPlace(d), BaseWhole(d), ToldKept(Base(d).registry)
    PROVE  LET sel == SelectedAnchor(d)
           IN  /\ sel = NoAnchor \/ publication_anchor_is_complete(d, sel)
               /\ \/ sel = Base(d)
                  \/ /\ sel.registry.generation = registry.generation + 1
                     /\ sel = d.anchors[sel.registry.generation % 2]
               /\ ToldKept(sel.registry)
               /\ RegistriesFollow(d, sel.registry)
<1> DEFINE sel == SelectedAnchor(d)
           g == registry.generation
<1>1. /\ g \in Nat /\ told.generation \in Nat
      /\ \A s \in Parity : /\ d.registries[s].generation \in Nat
                           /\ d.anchors[s].registry.generation \in Nat
  BY DEF Disks, Anchors, Registries
<1>2. g % 2 \in Parity
  BY <1>1 DEF Parity
<1>3. CASE CompleteAnchors(d) = {}
  <2>1. sel = NoAnchor
    BY <1>3, SelectedHighest
  <2>2. g = 0
    BY <1>1, <1>2, <1>3 DEF BaseWhole, Base, CompleteAnchors
  <2> QED
    BY <2>1, <2>2 DEF Base, BaseWhole, SameWorld, RegistriesFollow, Continues, NoAnchor, NoRegistry
<1>4. CASE CompleteAnchors(d) # {}
  <2>1. PICK s \in CompleteAnchors(d) :
            /\ sel = d.anchors[s]
            /\ \A t \in CompleteAnchors(d) :
                  d.anchors[t].registry.generation <= d.anchors[s].registry.generation
    BY <1>4, SelectedHighest
  <2>2. s \in Parity /\ publication_anchor_is_complete(d, sel)
    BY <2>1 DEF CompleteAnchors
  <2> DEFINE h == sel.registry.generation
  <2>3. h > 0 /\ h % 2 = s /\ h \in Nat
    BY <1>1, <2>1, <2>2 DEF InPlace, publication_anchor_is_complete
  <2>4. d.registries[s] = sel.registry
    BY <2>2, <2>3 DEF publication_anchor_is_complete, read_candidate_registry_generation
  <2>5. h <= g + 1 /\ (h > g => Continues(registry, sel.registry))
    BY <2>2, <2>4 DEF BaseWhole, RegistriesFollow
  <2>6. CASE g = 0
    <3>1. h = g + 1 /\ told.generation = 0 /\ DOMAIN told.packages = {}
      BY <1>1, <2>3, <2>5, <2>6 DEF ToldKept, Base, NoAnchor, NoRegistry
    <3>2. RegistriesFollow(d, sel.registry)
      BY <1>1, <2>3, <2>6, <3>1 DEF BaseWhole, RegistriesFollow
    <3> QED
      BY <2>1, <2>2, <2>3, <2>6, <3>1, <3>2 DEF ToldKept, Continues
  <2>7. CASE g > 0
    <3>1. g % 2 \in CompleteAnchors(d) /\ Base(d) = d.anchors[g % 2]
      BY <1>2, <2>7 DEF BaseWhole, Base, CompleteAnchors
    <3>2. Base(d).registry.generation = g /\ h >= g
      BY <1>1, <1>2, <2>1, <3>1 DEF BaseWhole, SameWorld
    <3>3. d.registries[g % 2] = Base(d).registry
      BY <2>7, <3>2 DEF BaseWhole, publication_anchor_is_complete, read_candidate_registry_generation
    <3>4. CASE h = g
      <4>1. sel = Base(d)
        BY <2>1, <2>3, <3>1, <3>4
      <4>2. RegistriesFollow(d, sel.registry)
        <5>1. \A c : Continues(sel.registry, c) <=> Continues(registry, c)
          BY <4>1, SameWorldCarries DEF BaseWhole
        <5> QED
          BY <3>2, <3>4, <5>1 DEF BaseWhole, RegistriesFollow
      <4> QED
        BY <2>2, <4>1, <4>2
    <3>5. CASE h = g + 1
      <4>1. \A t \in Parity : t = s \/ t = g % 2
        BY <1>1, <2>3, <3>5 DEF Parity
      <4>2. RegistriesFollow(d, sel.registry)
        BY <1>1, <2>3, <2>4, <3>2, <3>3, <3>5, <4>1 DEF RegistriesFollow
      <4>3. Continues(told, sel.registry)
        <5>1. Continues(told, registry)
          BY SameWorldCarries DEF BaseWhole, ToldKept
        <5>2. Continues(registry, sel.registry)
          BY <1>1, <2>5, <3>5
        <5> QED
          BY <5>1, <5>2, ContinuesTransitive
      <4>4. told.generation < h
        BY <1>1, <3>2, <3>5 DEF ToldKept
      <4> QED
        BY <1>1, <2>1, <2>2, <2>3, <3>5, <4>2, <4>3, <4>4 DEF ToldKept
    <3> QED
      BY <1>1, <2>3, <2>5, <3>2, <3>4, <3>5
  <2> QED
    BY <1>1, <2>6, <2>7
<1> QED
  BY <1>3, <1>4

-----------------------------------------------------------------------------
(* The writes of a call *)

(* What the device holds once the write is over, finished or cut off *)
Effect(done) == IF done THEN Put(disk, call) ELSE Shred(disk, call)

(* A write, finished or shredded, changes one slot or block.               *)
LEMMA OneWrite ==
    ASSUME Types, CallInHand, call # Idle,
           NEW done \in BOOLEAN, NEW d, d = Effect(done)
    PROVE  /\ d \in Disks
           /\ \/ /\ call.step = "Content"
                 /\ \E x \in Contents : d.contents =
                       [disk.contents EXCEPT ![call.registry.packages[call.package].block] = x]
                 /\ d.registries = disk.registries /\ d.candidates = disk.candidates
                 /\ d.anchors = disk.anchors
              \/ /\ call.step = "Registry"
                 /\ \E x \in {call.registry, NoRegistry} :
                       d.registries = [disk.registries EXCEPT ![call.registry.generation % 2] = x]
                 /\ d.candidates = disk.candidates /\ d.anchors = disk.anchors
                 /\ d.contents = disk.contents
              \/ /\ call.step = "Object"
                 /\ \E x \in {call.object, NoCandidate} :
                       d.candidates = [disk.candidates EXCEPT ![call.object.generation % 2] = x]
                 /\ d.registries = disk.registries /\ d.anchors = disk.anchors
                 /\ d.contents = disk.contents
              \/ /\ call.step = "Anchor"
                 /\ d.anchors = [disk.anchors EXCEPT ![call.registry.generation % 2] =
                                    IF done THEN AnchorOf(call) ELSE NoAnchor]
                 /\ d.registries = disk.registries /\ d.candidates = disk.candidates
                 /\ d.contents = disk.contents
<1>1. /\ call \in Calls /\ disk \in Disks
      /\ call.step \in {"Content", "Registry", "Object", "Anchor"}
  BY DEF Types, Calls
<1>2. /\ call.registry \in Registries /\ call.object \in Candidates /\ call.package \in Nat
      /\ call.registry.generation \in Nat /\ call.object.generation \in Nat
  BY <1>1 DEF Calls, Registries, Candidates
<1>3. call.registry.generation % 2 \in Parity /\ call.object.generation % 2 \in Parity
  BY <1>2 DEF Parity
<1>4. NoRegistry \in Registries /\ NoCandidate \in Candidates
  BY DEF NoRegistry, NoCandidate, Registries, Candidates
<1>5. NoAnchor \in Anchors /\ AnchorOf(call) \in Anchors
  BY <1>2, <1>4 DEF NoAnchor, AnchorOf, Anchors
<1>6. CASE call.step = "Content"
  <2> DEFINE b == call.registry.packages[call.package].block
             x == IF done THEN ContentOf(call.registry, call.package) ELSE NoContent
  <2>1. call.package \in Kept(call.registry) /\ b \in Blocks
    <3>1. call.package \in Alive(call.registry)
      BY <1>6 DEF CallInHand, PrepareInHand, ChangeInHand
    <3> QED
      BY <3>1 DEF Types, Sound
  <2>2. x \in Contents
    <3>1. call.registry.packages \in Seq(PackageRecords)
      BY <1>2 DEF Registries
    <3>2. call.registry.packages[call.package] \in PackageRecords
      BY <2>1, <3>1 DEF Kept
    <3>3. call.registry.packages[call.package].release \in Releases
      BY <3>2 DEF PackageRecords
    <3>4. ContentOf(call.registry, call.package) \in Contents /\ NoContent \in Contents
      BY <1>2, <3>3 DEF Contents, ContentOf, NoContent
    <3> QED
      BY <3>4
  <2>3. d = [disk EXCEPT !.contents = [disk.contents EXCEPT ![b] = x]]
    BY <1>6 DEF Effect, Put, Shred
  <2> HIDE DEF x, b
  <2>4. [disk.contents EXCEPT ![b] = x] \in [Blocks -> Contents]
    BY <1>1, <2>1, <2>2 DEF Disks
  <2>5. /\ d \in Disks /\ d.contents = [disk.contents EXCEPT ![b] = x]
        /\ d.registries = disk.registries /\ d.candidates = disk.candidates
        /\ d.anchors = disk.anchors
    BY <1>1, <2>3, <2>4 DEF Disks
  <2> QED
    BY <1>6, <2>2, <2>5 DEF b
<1>7. CASE call.step = "Registry"
  <2> DEFINE x == IF done THEN call.registry ELSE NoRegistry
             i == call.registry.generation % 2
  <2>1. d = [disk EXCEPT !.registries = [disk.registries EXCEPT ![i] = x]]
    BY <1>7 DEF Effect, Put, Shred
  <2>2. x \in {call.registry, NoRegistry} /\ x \in Registries
    BY <1>2, <1>4
  <2> HIDE DEF x, i
  <2>3. [disk.registries EXCEPT ![i] = x] \in [Parity -> Registries]
    BY <1>1, <2>2 DEF Disks
  <2>4. /\ d \in Disks /\ d.registries = [disk.registries EXCEPT ![i] = x]
        /\ d.candidates = disk.candidates /\ d.anchors = disk.anchors
        /\ d.contents = disk.contents
    BY <1>1, <2>1, <2>3 DEF Disks
  <2> QED
    BY <1>7, <2>2, <2>4 DEF i
<1>8. CASE call.step = "Object"
  <2> DEFINE x == IF done THEN call.object ELSE NoCandidate
             i == call.object.generation % 2
  <2>1. d = [disk EXCEPT !.candidates = [disk.candidates EXCEPT ![i] = x]]
    BY <1>8 DEF Effect, Put, Shred
  <2>2. x \in {call.object, NoCandidate} /\ x \in Candidates
    BY <1>2, <1>4
  <2> HIDE DEF x, i
  <2>3. [disk.candidates EXCEPT ![i] = x] \in [Parity -> Candidates]
    BY <1>1, <2>2 DEF Disks
  <2>4. /\ d \in Disks /\ d.candidates = [disk.candidates EXCEPT ![i] = x]
        /\ d.registries = disk.registries /\ d.anchors = disk.anchors
        /\ d.contents = disk.contents
    BY <1>1, <2>1, <2>3 DEF Disks
  <2> QED
    BY <1>8, <2>2, <2>4 DEF i
<1>9. CASE call.step = "Anchor"
  <2> DEFINE x == IF done THEN AnchorOf(call) ELSE NoAnchor
             i == call.registry.generation % 2
  <2>1. d = [disk EXCEPT !.anchors = [disk.anchors EXCEPT ![i] = x]]
    BY <1>9 DEF Effect, Put, Shred
  <2>2. x \in Anchors
    BY <1>5
  <2> HIDE DEF x, i
  <2>3. [disk.anchors EXCEPT ![i] = x] \in [Parity -> Anchors]
    BY <1>1, <2>2 DEF Disks
  <2>4. /\ d \in Disks /\ d.anchors = [disk.anchors EXCEPT ![i] = x]
        /\ d.registries = disk.registries /\ d.candidates = disk.candidates
        /\ d.contents = disk.contents
    BY <1>1, <2>1, <2>3 DEF Disks
  <2> QED
    BY <1>9, <2>4 DEF i, x
<1> QED
  BY <1>1, <1>6, <1>7, <1>8, <1>9

(* No write touches the world the kernel works from.                       *)
LEMMA WriteBeside ==
    ASSUME Types, InPlace(disk), BaseWhole(disk), CallInHand, call # Idle,
           NEW done \in BOOLEAN, NEW d, d = Effect(done)
    PROVE  /\ d \in Disks
           /\ InPlace(d)
           /\ BaseWhole(d) /\ Base(d) = Base(disk)
           /\ \A s \in Parity :
                 \/ d.anchors[s].registry.generation = 0
                 \/ d.anchors[s] = disk.anchors[s]
                 \/ done /\ call.step = "Anchor" /\ d.anchors[s] = AnchorOf(call)
<1> DEFINE g == registry.generation
           h == call.registry.generation
<1>1. /\ g \in Nat /\ h = g + 1 /\ disk \in Disks /\ d \in Disks
      /\ g % 2 \in Parity /\ h % 2 \in Parity /\ g % 2 # h % 2
  <2>1. g \in Nat /\ h = g + 1
    BY DEF Types, Sound, Registries, CallInHand
  <2>2. disk \in Disks /\ d \in Disks
    BY OneWrite DEF Types
  <2> QED
    BY <2>1, <2>2 DEF Parity
<1>2. NoAnchor.registry = NoRegistry /\ NoRegistry.generation = 0
  BY DEF NoAnchor, NoRegistry
<1>3. CASE call.step = "Content"
  <2> DEFINE b == call.registry.packages[call.package].block
  <2>1. PICK x \in Contents : d.contents = [disk.contents EXCEPT ![b] = x]
    BY <1>3, OneWrite
  <2>2. /\ d.registries = disk.registries /\ d.candidates = disk.candidates
        /\ d.anchors = disk.anchors
    BY <1>3, OneWrite
  <2>3. b \notin live_bitmap_from_registry(registry)
    BY <1>3 DEF CallInHand, PrepareInHand, ChangeInHand
  <2>4. Base(d) = Base(disk)
    BY <2>2 DEF Base
  <2>5. ASSUME g > 0, NEW p \in Kept(Base(disk).registry)
        PROVE  LET c == Base(disk).registry.packages[p].block IN c # b /\ c \in Blocks
    <3>1. live_bitmap_from_registry(Base(disk).registry) = live_bitmap_from_registry(registry)
      BY SameWorldCarries DEF BaseWhole
    <3>2. Sound(Base(disk).registry)
      BY <1>1, <2>5 DEF InPlace, Base, BaseWhole, publication_anchor_is_complete
    <3> QED
      BY <2>3, <2>5, <3>1, <3>2 DEF live_bitmap_from_registry, Sound
  <2>6. g > 0 => read_validate_candidate_content(d, Base(d).registry)
    BY <1>1, <2>1, <2>4, <2>5 DEF BaseWhole, publication_anchor_is_complete,
       read_validate_candidate_content, Disks
  <2> QED
    BY <1>1, <2>2, <2>4, <2>6 DEF InPlace, BaseWhole, publication_anchor_is_complete,
       read_candidate_registry_generation, read_object_service_candidate_checkpoint,
       RegistriesFollow
<1>4. CASE call.step = "Registry"
  <2>1. PICK x \in {call.registry, NoRegistry} : d.registries = [disk.registries EXCEPT ![h % 2] = x]
    BY <1>4, OneWrite
  <2>2. /\ d.contents = disk.contents /\ d.candidates = disk.candidates
        /\ d.anchors = disk.anchors
    BY <1>4, OneWrite
  <2>3. Base(d) = Base(disk)
    BY <2>2 DEF Base
  <2>4. \A s \in Parity : d.registries[s] = IF s = h % 2 THEN x ELSE disk.registries[s]
    BY <1>1, <2>1 DEF Disks
  <2>5. InPlace(d)
    BY <1>1, <1>2, <2>2, <2>4 DEF InPlace
  <2>6. RegistriesFollow(d, registry)
    BY <1>1, <1>2, <2>4 DEF BaseWhole, RegistriesFollow, CallInHand
  <2>7. g > 0 => read_candidate_registry_generation(d, Base(d).registry)
    BY <1>1, <2>3, <2>4 DEF BaseWhole, SameWorld, publication_anchor_is_complete,
       read_candidate_registry_generation
  <2> QED
    BY <1>1, <2>2, <2>3, <2>5, <2>6, <2>7 DEF BaseWhole, publication_anchor_is_complete,
       read_object_service_candidate_checkpoint, read_validate_candidate_content
<1>5. CASE call.step = "Object"
  <2>1. PICK x \in {call.object, NoCandidate} :
            d.candidates = [disk.candidates EXCEPT ![call.object.generation % 2] = x]
    BY <1>5, OneWrite
  <2>2. /\ d.registries = disk.registries /\ d.contents = disk.contents
        /\ d.anchors = disk.anchors
    BY <1>5, OneWrite
  <2>3. Base(d) = Base(disk)
    BY <2>2 DEF Base
  <2>4. g > 0 => /\ call.object.generation % 2 # anchored.generation % 2
                 /\ anchored.generation % 2 \in Parity
    BY <1>5 DEF CallInHand, PrepareInHand, ChangeInHand, Types, Candidates, Parity
  <2>5. g > 0 => read_object_service_candidate_checkpoint(d, Base(d).object)
    BY <1>1, <2>1, <2>3, <2>4 DEF BaseWhole, publication_anchor_is_complete,
       read_object_service_candidate_checkpoint, Disks
  <2> QED
    BY <1>1, <2>2, <2>3, <2>5 DEF InPlace, BaseWhole, publication_anchor_is_complete,
       read_candidate_registry_generation, read_validate_candidate_content, RegistriesFollow
<1>6. CASE call.step = "Anchor"
  <2> DEFINE x == IF done THEN AnchorOf(call) ELSE NoAnchor
  <2>1. d.anchors = [disk.anchors EXCEPT ![h % 2] = x]
    BY <1>6, OneWrite
  <2>2. /\ d.registries = disk.registries /\ d.contents = disk.contents
        /\ d.candidates = disk.candidates
    BY <1>6, OneWrite
  <2>3. \A s \in Parity : d.anchors[s] = IF s = h % 2 THEN x ELSE disk.anchors[s]
    BY <1>1, <2>1 DEF Disks
  <2>4. x = NoAnchor \/ /\ x.registry = call.registry /\ x.object = call.object
                        /\ Sound(x.registry) /\ Alive(x.registry) \subseteq x.object.packages
    BY <1>6 DEF AnchorOf, Types, CallInHand
  <2>5. x = NoAnchor \/ (done /\ x = AnchorOf(call))
    <3>1. CASE done
      BY <3>1
    <3>2. CASE ~done
      BY <3>2
    <3> QED
      BY <3>1, <3>2
  <2> HIDE DEF x
  <2>6. Base(d) = Base(disk)
    BY <1>1, <2>3 DEF Base
  <2>7. InPlace(d)
    BY <1>1, <2>2, <2>3, <2>4 DEF InPlace
  <2>8. BaseWhole(d)
    BY <2>2, <2>6 DEF BaseWhole, publication_anchor_is_complete,
       read_candidate_registry_generation, read_object_service_candidate_checkpoint,
       read_validate_candidate_content, RegistriesFollow
  <2> QED
    BY <1>1, <1>2, <1>6, <2>3, <2>5, <2>6, <2>7, <2>8
<1> QED
  BY <1>3, <1>4, <1>5, <1>6, OneWrite

-----------------------------------------------------------------------------
(* The initial state *)

LEMMA InitEstablishes ==
    ASSUME PackagePublicationAssumption, Init
    PROVE  IInv
<1>1. /\ NoRegistry \in Registries /\ NoCandidate \in Candidates /\ NoContent \in Contents
      /\ NoRegistry.generation = 0 /\ NoRegistry.packages = << >>
      /\ DOMAIN NoRegistry.packages = {}
  BY DEF NoRegistry, NoCandidate, NoContent, Registries, Candidates, Contents
<1>2. /\ NoAnchor \in Anchors /\ NoAnchor.registry = NoRegistry /\ NoAnchor.object = NoCandidate
      /\ Idle \in Calls /\ Idle.registry = NoRegistry
      /\ NoPrepared \in Prepareds /\ NoPrepared.registry = NoRegistry
  BY <1>1 DEF NoAnchor, Anchors, Idle, Calls, NoPrepared, Prepareds
<1>3. Alive(NoRegistry) = {} /\ Kept(NoRegistry) = {} /\ Sound(NoRegistry)
  BY <1>1 DEF Alive, Kept, Sound
<1>4. /\ disk \in Disks
      /\ \A s \in Parity : disk.registries[s] = NoRegistry /\ disk.anchors[s] = NoAnchor
  BY <1>1, <1>2 DEF Init, Disks
<1>5. Types
  BY <1>1, <1>2, <1>3, <1>4 DEF Init, Types
<1>6. InPlace(disk)
  BY <1>1, <1>4 DEF InPlace
<1>7. Up
  <2>1. Base(disk) = NoAnchor
    BY <1>1 DEF Init, Base
  <2> QED
    BY <1>1, <1>2, <1>4, <2>1 DEF Init, Up, BaseWhole, SameWorld, RegistriesFollow, ToldKept,
       Continues, AnchorsBehind
<1>8. Down /\ CallInHand /\ PreparedInHand
  BY DEF Init, Down, CallInHand, PreparedInHand
<1>9. References
  <2>1. objects.instances = << >> /\ ordinary.instances = << >> /\ DOMAIN cached = {}
    BY DEF Init, NoCandidate
  <2> QED
    BY <1>1, <2>1 DEF Init, References, Counted, Reconcilable
<1> QED
  BY <1>5, <1>6, <1>7, <1>8, <1>9 DEF IInv

(* A step that leaves the device, the memory and the account alone keeps   *)
(* what the invariant says of them.                                        *)
LEMMA MemoryKept ==
    ASSUME IInv, UNCHANGED <<disk, ordinary, running, memory, told>>
    PROVE  InPlace(disk)' /\ Up' /\ Down' /\ PreparedInHand' /\ References'
<1>1. /\ disk' = disk /\ ordinary' = ordinary /\ running' = running /\ registry' = registry
      /\ anchored' = anchored /\ objects' = objects /\ prepared' = prepared /\ cached' = cached
      /\ contexts' = contexts /\ told' = told
  BY DEF memory
<1>2. InPlace(disk)'
  BY <1>1 DEF IInv
<1>3. Up'
  BY <1>1 DEF IInv, Up, BaseWhole, Base, ToldKept
<1>4. Down'
  BY <1>1 DEF IInv, Down, Selectable, ToldKept
<1>5. PreparedInHand'
  BY <1>1 DEF IInv, PreparedInHand
<1>6. References'
  BY <1>1 DEF IInv, References
<1> QED
  BY <1>2, <1>3, <1>4, <1>5, <1>6

-----------------------------------------------------------------------------
(* The calls, up to their first write *)

(* While anything is installed the kernel's anchor names every package a   *)
(* call can change.                                                        *)
LEMMA AliveAnchored ==
    ASSUME IInv, running
    PROVE  /\ Alive(registry) \subseteq anchored.packages
           /\ DOMAIN registry.packages # {} => registry.generation > 0
           /\ registry.generation \in Nat
           /\ registry.generation > 0 =>
                 /\ publication_anchor_is_complete(disk, Base(disk))
                 /\ Base(disk) = disk.anchors[registry.generation % 2]
                 /\ registry.generation % 2 \in Parity
                 /\ Base(disk).registry.generation = registry.generation
<1>1. /\ registry.generation \in Nat /\ BaseWhole(disk) /\ InPlace(disk)
      /\ SameWorld(Base(disk).registry, registry) /\ Base(disk).object = anchored
  BY DEF IInv, Types, Sound, Registries, Up, BaseWhole
<1>2. CASE registry.generation = 0
  <2>1. DOMAIN registry.packages = {}
    BY <1>1, <1>2 DEF Base, NoAnchor, NoRegistry, SameWorld
  <2> QED
    BY <1>1, <1>2, <2>1 DEF Alive
<1>3. CASE registry.generation > 0
  <2>1. registry.generation % 2 \in Parity /\ Base(disk) = disk.anchors[registry.generation % 2]
    BY <1>1, <1>3 DEF Base, Parity
  <2>2. publication_anchor_is_complete(disk, Base(disk))
    BY <1>1, <1>3 DEF BaseWhole
  <2>3. Alive(Base(disk).registry) \subseteq Base(disk).object.packages
    BY <1>1, <2>1, <2>2 DEF InPlace, publication_anchor_is_complete
  <2>4. Alive(Base(disk).registry) = Alive(registry)
    BY <1>1, SameWorldCarries
  <2> QED
    BY <1>1, <1>3, <2>1, <2>2, <2>3, <2>4 DEF SameWorld
<1> QED
  BY <1>1, <1>2, <1>3

(* The object candidate of an install                                      *)
LEMMA StagedObject ==
    ASSUME NEW c \in Candidates, NEW p \in Nat
    PROVE  LET o == [c EXCEPT !.generation = @ + 1, !.packages = @ \cup {p}]
           IN  /\ o \in Candidates /\ o.generation = c.generation + 1
               /\ o.packages = c.packages \cup {p} /\ o.instances = c.instances
<1>1. \A g \in Nat, x \in SUBSET Nat :
        LET o == [c EXCEPT !.generation = g, !.packages = x]
        IN  /\ o \in Candidates /\ o.generation = g
            /\ o.packages = x /\ o.instances = c.instances
  BY DEF Candidates
<1>2. c.generation + 1 \in Nat /\ c.packages \cup {p} \in SUBSET Nat
  BY DEF Candidates
<1> QED
  BY <1>1, <1>2

LEMMA PrepareBegins ==
    ASSUME PackagePublicationAssumption, IInv, NEW release \in Releases,
           prepare_install_candidate(release)
    PROVE  IInv'
<1> DEFINE n == WithPackage(registry, release)
           last == Len(registry.packages) + 1
           o == [objects EXCEPT !.generation = @ + 1, !.packages = @ \cup {Len(n.packages)}]
<1>1. /\ registry \in Registries /\ registry.packages \in Seq(PackageRecords)
      /\ objects \in Candidates /\ objects.instances \in Seq(Nat)
      /\ Sound(registry)
  <2>1. Sound(registry) /\ objects \in Candidates
    BY DEF IInv, Types
  <2> QED
    BY <2>1 DEF Sound, Registries, Candidates
<1>2. running /\ prepared = NoPrepared /\ FreeBlocks(registry) # {}
  BY DEF prepare_install_candidate, Ready
<1>3. /\ n \in Registries
      /\ n.generation = registry.generation + 1
      /\ Len(n.packages) = last
      /\ DOMAIN n.packages = DOMAIN registry.packages \cup {last}
      /\ last \notin DOMAIN registry.packages
      /\ \A p \in DOMAIN registry.packages : n.packages[p] = registry.packages[p]
      /\ n.packages[last] = [status |-> "Ok", release |-> release,
                             block |-> allocate_staged(registry), refs |-> 0]
  BY <1>1, <1>2, WithPackageFields
<1>4. /\ allocate_staged(registry) \in Blocks \ {0}
      /\ allocate_staged(registry) \notin live_bitmap_from_registry(registry)
  BY <1>2, AllocatedIsFree DEF FreeBlocks, PackagePublicationAssumption
<1>5. /\ n.packages[last].status = "Ok" /\ n.packages[last].block = allocate_staged(registry)
      /\ n.packages[last].refs = 0
  BY <1>3
<1>6. last \in Nat
  BY <1>1
<1>7. /\ o \in Candidates /\ o.generation = objects.generation + 1
      /\ o.packages = objects.packages \cup {last} /\ o.instances = objects.instances
  <2> HIDE DEF n
  <2>1. Len(n.packages) = last
    BY <1>3
  <2> QED
    BY <1>1, <1>6, <2>1, StagedObject
<1>8. /\ call' = [op |-> "Prepare", step |-> "Content", registry |-> n, object |-> o,
                  package |-> Len(n.packages)]
      /\ UNCHANGED <<disk, ordinary, running, memory, told>>
      /\ ensure_candidate_backing_slots_available(disk, n.generation, o.generation, registry)
  BY DEF prepare_install_candidate
<1> HIDE DEF n, o
<1>9. /\ call'.registry = n /\ call'.object = o /\ call'.package = last
      /\ call'.op = "Prepare" /\ call'.step = "Content" /\ call' \in Calls
  BY <1>3, <1>6, <1>7, <1>8 DEF Calls
<1>10. Kept(n) = Kept(registry) \cup {last} /\ Alive(n) = Alive(registry) \cup {last}
  BY <1>3, <1>4, <1>5 DEF Kept, Alive
<1>11. Sound(n)
  <2>1. \A p \in Kept(registry) : /\ n.packages[p].block = registry.packages[p].block
                                  /\ n.packages[p].block # n.packages[last].block
    BY <1>3, <1>4, <1>5 DEF Kept, live_bitmap_from_registry
  <2> QED
    BY <1>1, <1>3, <1>4, <1>5, <1>10, <2>1 DEF Sound
<1>12. Continues(registry, n)
  BY <1>3 DEF Continues
<1>13. Reconcilable(registry, objects.instances) /\ Counted(registry, objects.instances)
  BY <1>2 DEF IInv, References
<1>14. Reconcilable(n, objects.instances)
  BY <1>10, <1>13 DEF Reconcilable
<1>15. Counted(n, objects.instances)
  <2>1. \A i \in DOMAIN objects.instances : objects.instances[i] # last
    BY <1>3, <1>13 DEF Reconcilable, Kept
  <2>2. CountOf(objects.instances, last) = 0
    BY <1>1, <2>1, CountType
  <2> QED
    BY <1>3, <1>5, <1>13, <2>2 DEF Counted
<1>16. registry.generation > 0 => o.generation % 2 # anchored.generation % 2
  <2>1. ASSUME registry.generation > 0
        PROVE  o.generation % 2 # anchored.generation % 2
    <3> DEFINE a == disk.anchors[registry.generation % 2]
    <3>1. registry.generation % 2 \in CompleteAnchors(disk)
      BY <1>2, <2>1, AliveAnchored DEF CompleteAnchors
    <3>2. a.registry.generation = registry.generation /\ a.object = anchored
      BY <1>2, <2>1, AliveAnchored DEF IInv, Up, BaseWhole
    <3>3. ~selected_registry_tombstones_anchor_package(registry, a)
      BY <1>2, <3>2, AliveAnchored DEF selected_registry_tombstones_anchor_package
    <3> QED
      BY <1>8, <3>1, <3>2, <3>3 DEF ensure_candidate_backing_slots_available
  <2> QED
    BY <2>1
<1>17. /\ registry' = registry /\ anchored' = anchored /\ objects' = objects
       /\ contexts' = contexts /\ prepared' = prepared
  BY <1>8 DEF memory
<1>18. Types'
  BY <1>2, <1>8, <1>9, <1>11, <1>17 DEF IInv, Types
<1>19. PrepareInHand'
  <2>1. call'.registry.packages[call'.package].block = allocate_staged(registry)
    BY <1>5, <1>9
  <2> QED
    BY <1>2, <1>4, <1>7, <1>9, <1>10, <1>16, <1>17, <2>1 DEF PrepareInHand
<1>20. CallInHand'
  BY <1>3, <1>9, <1>10, <1>12, <1>14, <1>15, <1>17, <1>19 DEF CallInHand, IInv, Types
<1> QED
  BY <1>8, <1>18, <1>20, MemoryKept DEF IInv

LEMMA PublishBegins ==
    ASSUME IInv, publish_install_candidate
    PROVE  IInv'
<1>1. /\ running /\ CanPublish /\ prepared # NoPrepared /\ prepared.live = objects
      /\ call' = [op |-> "Publish", step |-> "Anchor", registry |-> prepared.registry,
                  object |-> prepared.object, package |-> prepared.package]
      /\ UNCHANGED <<disk, ordinary, running, memory, told>>
  BY DEF publish_install_candidate, Ready, CanPublish
<1>2. prepared \in Prepareds /\ PreparedInHand /\ Sound(prepared.registry)
  BY DEF IInv, Types
<1>3. /\ call'.registry = prepared.registry /\ call'.object = prepared.object
      /\ call'.package = prepared.package /\ call'.op = "Publish" /\ call'.step = "Anchor"
      /\ call' \in Calls
  BY <1>1, <1>2 DEF Calls, Prepareds
<1>4. /\ registry' = registry /\ anchored' = anchored /\ objects' = objects /\ disk' = disk
      /\ contexts' = contexts /\ prepared' = prepared /\ running' = running
  BY <1>1 DEF memory
<1>5. Kept(prepared.registry) \subseteq prepared.object.packages
  <2>1. \A p \in Kept(prepared.registry) \ {prepared.package} : p \in DOMAIN cached
    BY <1>1 DEF CanPublish, ContentCached
  <2>2. DOMAIN cached \subseteq objects.packages
    BY DEF IInv, References
  <2>3. prepared.object.packages = objects.packages \cup {prepared.package}
    BY <1>1, <1>2 DEF PreparedInHand
  <2> QED
    BY <2>1, <2>2, <2>3
<1>6. Alive(prepared.registry) \subseteq prepared.object.packages
  BY <1>2, <1>5 DEF Sound
<1>7. AnchorReady(disk, call')
  <2>1. prepared.package \in DOMAIN prepared.registry.packages \cap prepared.object.packages
    BY <1>1, <1>2 DEF PreparedInHand
  <2> QED
    BY <1>1, <1>3, <2>1 DEF AnchorReady, CanPublish
<1>8. /\ Counted(prepared.registry, objects.instances)
      /\ Reconcilable(prepared.registry, objects.instances)
      /\ prepared.object.instances = objects.instances
      /\ prepared.registry.generation = registry.generation + 1
      /\ Continues(registry, prepared.registry)
      /\ contexts \subseteq Alive(prepared.registry)
  BY <1>1, <1>2 DEF PreparedInHand, IInv, Types
<1>9. Types'
  BY <1>1, <1>2, <1>3, <1>4 DEF IInv, Types
<1>10. CallInHand'
  BY <1>3, <1>4, <1>5, <1>6, <1>7, <1>8 DEF CallInHand
<1> QED
  BY <1>1, <1>9, <1>10, MemoryKept DEF IInv

(* disable and uninstall *)
LEMMA ChangeBegins ==
    ASSUME IInv, NEW p \in PackageIds, disable(p) \/ uninstall(p)
    PROVE  IInv'
<1> DEFINE n == call'.registry
<1>1. /\ running /\ p \in DOMAIN registry.packages /\ p \in Alive(registry)
      /\ UNCHANGED <<disk, ordinary, running, memory, told>>
  BY DEF disable, uninstall, Ready, Alive
<1>2. /\ registry \in Registries /\ Sound(registry) /\ anchored \in Candidates
      /\ objects \in Candidates /\ contexts \subseteq Alive(registry)
  BY DEF IInv, Types, Sound
<1>3. /\ call'.op \in {"Disable", "Uninstall"} /\ call'.step = "Registry"
      /\ call'.object = anchored /\ call'.package = p
      /\ n \in {WithDisabled(registry, p), WithTombstone(registry, p)}
      /\ n = WithDisabled(registry, p) \/ p \notin contexts
      /\ call' = [op |-> call'.op, step |-> "Registry", registry |-> n, object |-> anchored,
                  package |-> p]
  BY DEF disable, uninstall
<1> HIDE DEF n
<1>4. /\ n \in Registries
      /\ n.generation = registry.generation + 1
      /\ DOMAIN n.packages = DOMAIN registry.packages
      /\ \A q \in DOMAIN registry.packages :
            /\ n.packages[q].release = registry.packages[q].release
            /\ n.packages[q].refs = registry.packages[q].refs
            /\ q # p => n.packages[q] = registry.packages[q]
      /\ n = WithDisabled(registry, p) => /\ n.packages[p].status = "Disabled"
                                          /\ n.packages[p].block = registry.packages[p].block
      /\ n = WithTombstone(registry, p) =>
            /\ n.packages[p].status = "Tombstoned"
            /\ n.packages[p].block =
                  IF registry.packages[p].refs > 0 THEN registry.packages[p].block ELSE 0
  BY <1>1, <1>2, <1>3, ChangedFields
<1>5. p \in Kept(registry)
  BY <1>1, <1>2 DEF Sound
<1>6. \A q \in Kept(n) : /\ q \in Kept(registry)
                         /\ n.packages[q].block = registry.packages[q].block
                         /\ n.packages[q].release = registry.packages[q].release
  BY <1>3, <1>4, <1>5 DEF Kept
<1>7. Alive(n) \subseteq Alive(registry) /\ Alive(registry) \ {p} \subseteq Alive(n)
  BY <1>1, <1>4 DEF Alive
<1>8. n = WithDisabled(registry, p) => p \in Alive(n)
  BY <1>1, <1>4 DEF Alive
<1>9. Sound(n)
  <2>1. Alive(n) \subseteq Kept(n)
    <3>1. ASSUME NEW q \in Alive(n) PROVE q \in Kept(n)
      <4>1. q \in Kept(registry) /\ q \in DOMAIN n.packages
        BY <1>2, <1>7, <3>1 DEF Sound, Alive
      <4>2. q = p => n.packages[q].block = registry.packages[q].block
        BY <1>3, <1>4, <3>1 DEF Alive
      <4> QED
        BY <1>4, <4>1, <4>2 DEF Kept
    <3> QED
      BY <3>1
  <2> QED
    BY <1>2, <1>4, <1>6, <2>1 DEF Sound
<1>10. contexts \subseteq Alive(n)
  BY <1>2, <1>3, <1>7, <1>8
<1>11. Continues(registry, n)
  BY <1>1, <1>4 DEF Continues, Alive
<1>12. Counted(registry, objects.instances) /\ Reconcilable(registry, objects.instances)
  BY <1>1 DEF IInv, References
<1>13. Counted(n, objects.instances)
  BY <1>4, <1>12 DEF Counted
<1>14. Reconcilable(n, objects.instances)
  <2>1. ASSUME NEW i \in DOMAIN objects.instances PROVE objects.instances[i] \in Kept(n)
    <3> DEFINE q == objects.instances[i]
    <3>1. q \in Kept(registry) /\ q \in DOMAIN registry.packages
      BY <1>12, <2>1 DEF Reconcilable, Kept
    <3>2. objects.instances \in Seq(Nat)
      BY <1>2 DEF Candidates
    <3>3. CountOf(objects.instances, q) \in Nat /\ CountOf(objects.instances, q) # 0
      BY <2>1, <3>2, CountType
    <3>4. registry.packages[q].refs > 0
      BY <1>12, <3>1, <3>3 DEF Counted
    <3>5. n.packages[q].block = registry.packages[q].block
      BY <1>3, <1>4, <3>1, <3>4
    <3> QED
      BY <1>4, <3>1, <3>5 DEF Kept
  <2> QED
    BY <2>1 DEF Reconcilable
<1>15. /\ registry' = registry /\ anchored' = anchored /\ objects' = objects
       /\ contexts' = contexts /\ prepared' = prepared /\ running' = running
  BY <1>1 DEF memory
<1>16. registry.generation > 0 /\ p \in anchored.packages
  BY <1>1, AliveAnchored
<1>17. p \in Nat /\ call' \in Calls /\ call'.registry = n
  <2>1. p \in Nat
    BY <1>1, <1>2 DEF Registries
  <2> QED
    BY <1>2, <1>3, <1>4, <2>1 DEF Calls, n
<1>18. Types'
  BY <1>1, <1>3, <1>9, <1>15, <1>17 DEF IInv, Types
<1>19. ChangeInHand'
  BY <1>1, <1>3, <1>4, <1>6, <1>15, <1>16, <1>17 DEF ChangeInHand
<1>20. CallInHand'
  BY <1>3, <1>4, <1>10, <1>11, <1>13, <1>14, <1>15, <1>17, <1>19 DEF CallInHand
<1> QED
  BY <1>1, <1>18, <1>20, MemoryKept DEF IInv

-----------------------------------------------------------------------------
(* The writes *)

(* A write before the anchor leaves the kernel's world as it is.           *)
LEMMA WriteKeepsUp ==
    ASSUME IInv, running, call # Idle, NEW done \in BOOLEAN,
           disk' = Effect(done), UNCHANGED <<running, registry, anchored, told>>,
           done => call.step # "Anchor"
    PROVE  disk' \in Disks /\ InPlace(disk)' /\ Up' /\ Down'
<1>1. Types /\ InPlace(disk) /\ BaseWhole(disk) /\ CallInHand
  BY DEF IInv, Up
<1>2. /\ disk' \in Disks /\ InPlace(disk') /\ BaseWhole(disk') /\ Base(disk') = Base(disk)
      /\ \A s \in Parity : \/ disk'.anchors[s].registry.generation = 0
                           \/ disk'.anchors[s] = disk.anchors[s]
  <2>1. /\ disk' \in Disks /\ InPlace(disk') /\ BaseWhole(disk') /\ Base(disk') = Base(disk)
        /\ \A s \in Parity :
              \/ disk'.anchors[s].registry.generation = 0
              \/ disk'.anchors[s] = disk.anchors[s]
              \/ done /\ call.step = "Anchor" /\ disk'.anchors[s] = AnchorOf(call)
    BY <1>1, WriteBeside
  <2> QED
    BY <2>1
<1>3. registry.generation \in Nat
  BY <1>1 DEF Types, Sound, Registries
<1>4. AnchorsBehind(disk', registry)
  BY <1>2, <1>3 DEF IInv, Up, AnchorsBehind
<1>5. Base(disk)' = Base(disk)
  BY <1>2 DEF Base
<1>6. BaseWhole(disk)'
  BY <1>2, <1>5 DEF BaseWhole
<1>7. ToldKept(Base(disk).registry)'
  BY <1>5 DEF IInv, Up, ToldKept
<1>8. Up'
  BY <1>4, <1>6, <1>7 DEF Up
<1>9. Down'
  BY DEF Down
<1> QED
  BY <1>2, <1>8, <1>9

LEMMA ContentWritten ==
    ASSUME IInv, WriteContent
    PROVE  IInv'
<1>1. /\ running /\ call.step = "Content" /\ call # Idle /\ disk' = Effect(TRUE)
      /\ call' = [call EXCEPT !.step = "Registry"]
      /\ UNCHANGED <<ordinary, running, memory, told>>
  BY DEF WriteContent, Effect, Idle
<1>2. /\ registry' = registry /\ anchored' = anchored /\ objects' = objects /\ told' = told
      /\ contexts' = contexts /\ prepared' = prepared /\ running' = running /\ cached' = cached
      /\ ordinary' = ordinary
  BY <1>1 DEF memory
<1>3. disk' \in Disks /\ InPlace(disk)' /\ Up' /\ Down'
  BY <1>1, <1>2, WriteKeepsUp
<1>4. call \in Calls /\ CallInHand /\ Sound(call.registry)
  BY DEF IInv, Types
<1>5. /\ call' \in Calls /\ call'.registry = call.registry /\ call'.object = call.object
      /\ call'.package = call.package /\ call'.op = call.op /\ call'.step = "Registry"
  BY <1>1, <1>4 DEF Calls
<1>6. call.op = "Prepare" /\ PrepareInHand
  BY <1>1, <1>4 DEF CallInHand, ChangeInHand
<1>7. Types'
  <2>1. running' /\ call'.step # "None"
    BY <1>1, <1>2, <1>5
  <2> QED
    BY <1>2, <1>3, <1>4, <1>5, <2>1 DEF IInv, Types
<1>8. CallInHand'
  <2>1. PrepareInHand'
    BY <1>2, <1>5, <1>6 DEF PrepareInHand
  <2> QED
    BY <1>1, <1>2, <1>4, <1>5, <1>6, <2>1 DEF CallInHand
<1>9. PreparedInHand' /\ References'
  BY <1>2 DEF IInv, PreparedInHand, References
<1> QED
  BY <1>3, <1>7, <1>8, <1>9 DEF IInv

(* The registry slot of a disable or an uninstall completes its world: the *)
(* objects and contents are those of the kernel's world.                   *)
LEMMA RegistryWritten ==
    ASSUME IInv, WriteRegistry
    PROVE  IInv'
<1>1. /\ running /\ call.step = "Registry" /\ call # Idle /\ disk' = Effect(TRUE)
      /\ call' = [call EXCEPT !.step = IF call.op = "Prepare" THEN "Object" ELSE "Anchor"]
      /\ UNCHANGED <<ordinary, running, memory, told>>
  BY DEF WriteRegistry, Effect, Idle
<1>2. /\ registry' = registry /\ anchored' = anchored /\ objects' = objects /\ told' = told
      /\ contexts' = contexts /\ prepared' = prepared /\ running' = running /\ cached' = cached
      /\ ordinary' = ordinary
  BY <1>1 DEF memory
<1>3. disk' \in Disks /\ InPlace(disk)' /\ Up' /\ Down'
  BY <1>1, <1>2, WriteKeepsUp
<1>4. call \in Calls /\ CallInHand /\ Sound(call.registry)
  BY DEF IInv, Types
<1>5. /\ call' \in Calls /\ call'.registry = call.registry /\ call'.object = call.object
      /\ call'.package = call.package /\ call'.op = call.op
      /\ call'.step = IF call.op = "Prepare" THEN "Object" ELSE "Anchor"
  BY <1>1, <1>4 DEF Calls
<1>6. Types'
  <2>1. running' /\ call'.step # "None"
    BY <1>1, <1>2, <1>5
  <2> QED
    BY <1>2, <1>3, <1>4, <1>5, <2>1 DEF IInv, Types
<1>7. CASE call.op = "Prepare"
  <2>1. PrepareInHand'
    BY <1>1, <1>2, <1>4, <1>5, <1>7 DEF CallInHand, PrepareInHand
  <2>2. CallInHand'
    BY <1>1, <1>2, <1>4, <1>5, <1>7, <2>1 DEF CallInHand
  <2> QED
    BY <1>2, <1>3, <1>6, <2>2 DEF IInv, PreparedInHand, References
<1>8. CASE call.op \in {"Disable", "Uninstall"}
  <2>1. ChangeInHand
    BY <1>1, <1>4, <1>8 DEF CallInHand
  <2>2. ChangeInHand'
    BY <1>2, <1>5, <1>8, <2>1 DEF ChangeInHand
  <2>3. /\ registry.generation > 0 /\ publication_anchor_is_complete(disk', Base(disk)')
        /\ SameWorld(Base(disk)'.registry, registry) /\ Base(disk)'.object = anchored
    <3>1. running' /\ registry.generation > 0
      BY <1>1, <1>2, <2>1 DEF ChangeInHand
    <3>2. BaseWhole(disk)'
      BY <1>3, <3>1 DEF Up
    <3> QED
      BY <1>2, <3>1, <3>2 DEF BaseWhole
  <2>4. read_candidate_registry_generation(disk', call.registry)
    <3>1. disk' = [disk EXCEPT !.registries[call.registry.generation % 2] = call.registry]
      BY <1>1 DEF Effect, Put
    <3>2. call.registry.generation % 2 \in Parity
      BY <1>4 DEF Sound, Registries, Parity
    <3> QED
      BY <3>1, <3>2 DEF IInv, Types, Disks, read_candidate_registry_generation
  <2>5. read_object_service_candidate_checkpoint(disk', call.object)
    BY <2>1, <2>3 DEF ChangeInHand, publication_anchor_is_complete
  <2>6. read_validate_candidate_content(disk', call.registry)
    <3>1. ASSUME NEW p \in Kept(call.registry)
          PROVE  disk'.contents[call.registry.packages[p].block] = ContentOf(call.registry, p)
      <4> DEFINE r == Base(disk)'.registry
      <4>1. /\ p \in Kept(r) /\ r.packages[p].block = call.registry.packages[p].block
            /\ r.packages[p].release = call.registry.packages[p].release
        BY <2>1, <2>3, <3>1, SameWorldCarries DEF ChangeInHand, SameWorld, Kept
      <4>2. disk'.contents[r.packages[p].block] = ContentOf(r, p)
        BY <2>3, <4>1 DEF publication_anchor_is_complete, read_validate_candidate_content
      <4> QED
        BY <4>1, <4>2 DEF ContentOf
    <3> QED
      BY <3>1 DEF read_validate_candidate_content
  <2>7. Alive(call.registry) \subseteq call.object.packages
    <3>1. Alive(call.registry) \subseteq Alive(registry)
      BY <1>1, <1>4, <2>1 DEF CallInHand, ChangeInHand, Continues, Alive
    <3> QED
      BY <1>1, <2>1, <3>1, AliveAnchored DEF ChangeInHand
  <2>8. AnchorReady(disk, call)'
    BY <1>5, <2>1, <2>4, <2>5, <2>6 DEF AnchorReady, ChangeInHand
  <2>9. CallInHand'
    BY <1>1, <1>2, <1>4, <1>5, <1>8, <2>2, <2>7, <2>8 DEF CallInHand
  <2> QED
    BY <1>2, <1>3, <1>6, <2>9 DEF IInv, PreparedInHand, References
<1> QED
  BY <1>1, <1>4, <1>7, <1>8 DEF CallInHand

LEMMA CandidateWritten ==
    ASSUME IInv, WriteCandidate
    PROVE  IInv'
<1>1. /\ running /\ call.step = "Object" /\ call # Idle /\ disk' = Effect(TRUE) /\ call' = Idle
      /\ prepared' = [registry |-> call.registry, object |-> call.object,
                      package |-> call.package, live |-> objects]
      /\ UNCHANGED <<ordinary, running, registry, anchored, objects, cached, contexts, told>>
  BY DEF WriteCandidate, Effect, Idle
<1>2. disk' \in Disks /\ InPlace(disk)' /\ Up' /\ Down'
  BY <1>1, WriteKeepsUp
<1>3. call \in Calls /\ CallInHand /\ Sound(call.registry) /\ objects \in Candidates
  BY DEF IInv, Types
<1>4. call.op = "Prepare" /\ PrepareInHand
  BY <1>1, <1>3 DEF CallInHand, ChangeInHand
<1>5. prepared' \in Prepareds /\ prepared'.registry = call.registry
  BY <1>1, <1>3 DEF Calls, Prepareds
<1>6. Idle \in Calls /\ Sound(Idle.registry)
  BY DEF Idle, Calls, NoRegistry, NoCandidate, Registries, Candidates, Sound, Alive, Kept
<1>7. Types'
  BY <1>1, <1>2, <1>3, <1>5, <1>6 DEF IInv, Types
<1>8. CallInHand'
  BY <1>1 DEF CallInHand
<1>9. PreparedInHand'
  <2>1. call.package \in DOMAIN call.registry.packages
    BY <1>4 DEF PrepareInHand, Alive
  <2> QED
    BY <1>1, <1>3, <1>4, <2>1 DEF CallInHand, PrepareInHand, PreparedInHand
<1>10. References'
  BY <1>1 DEF IInv, References
<1> QED
  BY <1>2, <1>7, <1>8, <1>9, <1>10 DEF IInv

(* The anchor write of a call that has got so far makes its world whole.   *)
LEMMA AnchorCompletes ==
    ASSUME Types, CallInHand, call # Idle, call.step = "Anchor"
    PROVE  LET d == Put(disk, call)
           IN  /\ d.anchors[call.registry.generation % 2] = AnchorOf(call)
               /\ call.registry.generation % 2 \in Parity
               /\ AnchorOf(call).registry = call.registry /\ AnchorOf(call).object = call.object
               /\ publication_anchor_is_complete(d, AnchorOf(call))
<1> DEFINE d == Put(disk, call)
           i == call.registry.generation % 2
<1>1. d = Effect(TRUE)
  BY DEF Effect
<1>2. /\ d \in Disks /\ d.anchors = [disk.anchors EXCEPT ![i] = AnchorOf(call)]
      /\ d.registries = disk.registries /\ d.candidates = disk.candidates
      /\ d.contents = disk.contents
  BY <1>1, OneWrite
<1> HIDE DEF d
<1>3. i \in Parity /\ call.registry.generation > 0
  <2>1. call.registry.generation \in Nat /\ registry.generation \in Nat
    BY DEF Types, Sound, Registries
  <2>2. call.registry.generation = registry.generation + 1
    BY DEF CallInHand
  <2>3. i \in Parity
    BY <2>1 DEF Parity
  <2> QED
    BY <2>1, <2>2, <2>3
<1>4. d.anchors[i] = AnchorOf(call)
  BY <1>2, <1>3 DEF Types, Disks
<1>5. /\ AnchorOf(call).registry = call.registry /\ AnchorOf(call).object = call.object
      /\ AnchorOf(call).package = call.package
  BY DEF AnchorOf
<1>6. AnchorOf(call) # NoAnchor
  BY <1>3, <1>5 DEF NoAnchor, NoRegistry
<1>7. AnchorReady(disk, call)
  BY DEF CallInHand
<1>8. publication_anchor_is_complete(d, AnchorOf(call))
  BY <1>2, <1>5, <1>6, <1>7 DEF AnchorReady, publication_anchor_is_complete,
     read_candidate_registry_generation, read_object_service_candidate_checkpoint,
     registry_matches_object_snapshot, read_validate_candidate_content
<1> QED
  BY <1>3, <1>4, <1>5, <1>8 DEF d

LEMMA IdleTyped == Idle \in Calls /\ Sound(Idle.registry)
BY DEF Idle, Calls, NoRegistry, NoCandidate, Registries, Candidates, Sound, Alive, Kept

LEMMA UnpreparedTyped == NoPrepared \in Prepareds /\ Sound(NoPrepared.registry)
BY DEF NoPrepared, Prepareds, NoRegistry, NoCandidate, Registries, Candidates, Sound, Alive, Kept

(* The swap of the live world *)
LEMMA AnchorWritten ==
    ASSUME IInv, WriteAnchor
    PROVE  IInv'
<1> DEFINE g == registry.generation
           h == call.registry.generation
           a == AnchorOf(call)
<1>1. /\ running /\ call.step = "Anchor" /\ call # Idle /\ disk' = Effect(TRUE)
      /\ disk' = Put(disk, call) /\ registry' = call.registry /\ anchored' = call.object
      /\ objects' = IF call.op = "Publish" THEN call.object ELSE objects
      /\ prepared' = NoPrepared /\ cached' = CachedAfter(call) /\ told' = call.registry
      /\ call' = Idle /\ UNCHANGED <<ordinary, running, contexts>>
  BY DEF WriteAnchor, Effect, Idle
<1>2. /\ Types /\ InPlace(disk) /\ BaseWhole(disk) /\ CallInHand /\ call \in Calls
      /\ Sound(call.registry) /\ call.registry \in Registries /\ call.object \in Candidates
      /\ AnchorsBehind(disk, registry) /\ objects \in Candidates
  BY <1>1 DEF IInv, Up, Types, Sound, Calls
<1>3. g \in Nat /\ h = g + 1 /\ h \in Nat
  BY <1>1, <1>2 DEF Types, Sound, Registries, CallInHand
<1>4. /\ disk'.anchors[h % 2] = a /\ h % 2 \in Parity /\ a.registry = call.registry
      /\ a.object = call.object /\ publication_anchor_is_complete(disk', a)
  BY <1>1, <1>2, AnchorCompletes
<1>5. /\ disk' \in Disks /\ InPlace(disk') /\ BaseWhole(disk')
      /\ \A s \in Parity : \/ disk'.anchors[s].registry.generation = 0
                           \/ disk'.anchors[s] = disk.anchors[s]
                           \/ disk'.anchors[s] = a
  BY <1>1, <1>2, WriteBeside
<1> HIDE DEF a
<1>6. Base(disk)' = a
  <2>1. registry'.generation = h /\ h # 0
    BY <1>1, <1>3
  <2> QED
    BY <1>4, <2>1 DEF Base
<1>7. RegistriesFollow(disk', call.registry)
  <2>1. \A s \in Parity : disk'.registries[s].generation \in Nat
    BY <1>5 DEF Disks, Registries
  <2>2. \A s \in Parity : disk'.registries[s].generation <= h
    BY <1>3, <1>5 DEF BaseWhole, RegistriesFollow
  <2> QED
    BY <1>3, <2>1, <2>2 DEF RegistriesFollow
<1>8. AnchorsBehind(disk', call.registry)
  <2>1. \A s \in Parity : disk.anchors[s].registry.generation \in Nat
    BY <1>2 DEF Types, Disks, Anchors, Registries
  <2> QED
    BY <1>2, <1>3, <1>4, <1>5, <2>1 DEF AnchorsBehind
<1>9. BaseWhole(disk)'
  <2>1. registry' = call.registry /\ anchored' = call.object
    BY <1>1
  <2>2. Base(disk)'.registry = call.registry /\ Base(disk)'.object = call.object
    BY <1>4, <1>6
  <2> QED
    BY <1>4, <1>6, <1>7, <2>1, <2>2 DEF BaseWhole, SameWorld
<1>10. ToldKept(Base(disk).registry)'
  <2>1. told' = call.registry /\ Base(disk)'.registry = call.registry
    BY <1>1, <1>4, <1>6
  <2>2. Continues(call.registry, call.registry) /\ h <= h
    BY <1>3 DEF Continues
  <2> QED
    BY <2>1, <2>2 DEF ToldKept
<1>11. Up' /\ Down'
  BY <1>1, <1>8, <1>9, <1>10 DEF Up, Down
<1>12. /\ objects' \in Candidates /\ objects'.instances = objects.instances
       /\ call.op = "Publish" => objects' = call.object
       /\ call.op # "Publish" => objects' = objects
  <2>1. CASE call.op = "Publish"
    <3>1. objects' = call.object
      BY <1>1, <2>1
    <3> QED
      BY <1>1, <1>2, <2>1, <3>1 DEF CallInHand
  <2>2. CASE call.op # "Publish"
    <3>1. objects' = objects
      BY <1>1, <2>2
    <3> QED
      BY <1>2, <2>2, <3>1
  <2> QED
    BY <2>1, <2>2
<1>13. Types'
  <2>1. contexts' \subseteq Alive(registry')
    BY <1>1, <1>2 DEF CallInHand
  <2> QED
    BY <1>1, <1>2, <1>5, <1>12, <2>1, IdleTyped, UnpreparedTyped DEF Types
<1>14. CallInHand' /\ PreparedInHand'
  BY <1>1 DEF CallInHand, PreparedInHand
<1>15. DOMAIN cached' \subseteq objects'.packages
  <2>1. DOMAIN cached \subseteq objects.packages
    BY DEF IInv, References
  <2>2. CASE call.op = "Publish"
    BY <1>1, <1>2, <1>12, <2>2 DEF CachedAfter, CallInHand
  <2>3. CASE call.op = "Uninstall"
    BY <1>1, <1>12, <2>1, <2>3 DEF CachedAfter
  <2>4. CASE call.op \notin {"Publish", "Uninstall"}
    BY <1>1, <1>12, <2>1, <2>4 DEF CachedAfter
  <2> QED
    BY <2>2, <2>3, <2>4
<1>16. References'
  BY <1>1, <1>2, <1>12, <1>15 DEF IInv, References, CallInHand
<1> QED
  BY <1>5, <1>11, <1>13, <1>14, <1>16 DEF IInv

LEMMA WriteFailed ==
    ASSUME PackagePublicationAssumption, IInv, WriteFails
    PROVE  IInv'
<1>1. /\ running /\ call # Idle /\ call' = Idle /\ UNCHANGED <<ordinary, running, memory, told>>
      /\ \/ disk' = disk
         \/ disk' = Effect(FALSE)
         \/ (LateErrors \/ call.step # "Anchor") /\ disk' = Effect(TRUE)
  BY DEF WriteFails, Effect
<1>2. /\ registry' = registry /\ anchored' = anchored /\ objects' = objects /\ told' = told
      /\ contexts' = contexts /\ prepared' = prepared /\ running' = running /\ cached' = cached
      /\ ordinary' = ordinary
  BY <1>1 DEF memory
<1>3. CASE disk' = disk
  <2>1. InPlace(disk)' /\ Up' /\ Down' /\ PreparedInHand' /\ References'
    BY <1>1, <1>3, MemoryKept
  <2> QED
    BY <1>1, <1>2, <1>3, <2>1, IdleTyped DEF IInv, Types, CallInHand
<1>4. ASSUME NEW done \in BOOLEAN, disk' = Effect(done),
             done => LateErrors \/ call.step # "Anchor"
      PROVE  IInv'
  <2>1. Types /\ InPlace(disk) /\ BaseWhole(disk) /\ CallInHand
    BY <1>1 DEF IInv, Up
  <2>2. /\ disk' \in Disks /\ InPlace(disk') /\ BaseWhole(disk') /\ Base(disk') = Base(disk)
        /\ \A s \in Parity :
              \/ disk'.anchors[s].registry.generation = 0
              \/ disk'.anchors[s] = disk.anchors[s]
              \/ done /\ call.step = "Anchor" /\ disk'.anchors[s] = AnchorOf(call)
    BY <1>1, <1>4, <2>1, WriteBeside
  <2>3. AnchorsBehind(disk', registry)
    <3>1. registry.generation \in Nat
      BY <2>1 DEF Types, Sound, Registries
    <3>2. AnchorsBehind(disk, registry)
      BY <1>1 DEF IInv, Up
    <3> QED
      BY <1>4, <2>2, <3>1, <3>2 DEF AnchorsBehind
  <2>4. Base(disk)' = Base(disk)
    BY <1>2, <2>2 DEF Base
  <2>5. BaseWhole(disk)'
    BY <1>2, <2>2, <2>4 DEF BaseWhole
  <2>6. ToldKept(Base(disk).registry)'
    BY <1>1, <1>2, <2>4 DEF IInv, Up, ToldKept
  <2>7. Up' /\ Down'
    BY <1>1, <1>2, <2>3, <2>5, <2>6 DEF Up, Down
  <2>8. PreparedInHand' /\ References'
    BY <1>2 DEF IInv, PreparedInHand, References
  <2>9. Types' /\ CallInHand'
    BY <1>1, <1>2, <2>1, <2>2, IdleTyped DEF Types, CallInHand
  <2> QED
    BY <2>2, <2>7, <2>8, <2>9 DEF IInv
<1> QED
  BY <1>1, <1>3, <1>4

(* The power is cut, perhaps within a write: what a boot will select is    *)
(* the kernel's world or, when the anchor got through, the one that was    *)
(* about to replace it.                                                    *)
LEMMA Crashed ==
    ASSUME IInv, Crash
    PROVE  IInv'
<1>1. /\ running /\ running' = FALSE /\ call' = Idle /\ UNCHANGED <<ordinary, memory, told>>
      /\ \/ disk' = disk
         \/ call # Idle /\ \E done \in BOOLEAN : disk' = Effect(done)
  BY DEF Crash, Effect
<1>2. /\ registry' = registry /\ anchored' = anchored /\ objects' = objects /\ told' = told
      /\ contexts' = contexts /\ prepared' = prepared /\ cached' = cached /\ ordinary' = ordinary
  BY <1>1 DEF memory
<1>3. /\ Types /\ InPlace(disk) /\ BaseWhole(disk) /\ CallInHand /\ AnchorsBehind(disk, registry)
      /\ ToldKept(Base(disk).registry) /\ registry \in Registries /\ told \in Registries
      /\ registry.generation \in Nat /\ disk \in Disks
  BY <1>1 DEF IInv, Up, Types, Sound, Registries
<1>4. /\ disk' \in Disks /\ InPlace(disk') /\ BaseWhole(disk') /\ Base(disk') = Base(disk)
      /\ \A s \in Parity :
            \/ disk'.anchors[s].registry.generation = 0
            \/ disk'.anchors[s] = disk.anchors[s]
            \/ /\ call # Idle /\ call.step = "Anchor" /\ disk' = Put(disk, call)
               /\ disk'.anchors[s] = AnchorOf(call)
  <2>1. CASE disk' = disk
    BY <1>3, <2>1
  <2>2. CASE disk' # disk
    <3>1. PICK done \in BOOLEAN : disk' = Effect(done)
      BY <1>1, <2>2
    <3>2. call # Idle
      BY <1>1, <2>2
    <3>3. /\ disk' \in Disks /\ InPlace(disk') /\ BaseWhole(disk') /\ Base(disk') = Base(disk)
          /\ \A s \in Parity :
                \/ disk'.anchors[s].registry.generation = 0
                \/ disk'.anchors[s] = disk.anchors[s]
                \/ done /\ call.step = "Anchor" /\ disk'.anchors[s] = AnchorOf(call)
      BY <1>3, <3>1, <3>2, WriteBeside
    <3>4. done => disk' = Put(disk, call)
      BY <3>1 DEF Effect
    <3> QED
      BY <3>2, <3>3, <3>4
  <2> QED
    BY <2>1, <2>2
<1> DEFINE sel == SelectedAnchor(disk')
<1>5. /\ \/ sel = Base(disk)
         \/ /\ sel.registry.generation = registry.generation + 1
            /\ sel = disk'.anchors[sel.registry.generation % 2]
      /\ ToldKept(sel.registry) /\ RegistriesFollow(disk', sel.registry)
  <2>1. ToldKept(Base(disk').registry)
    BY <1>3, <1>4
  <2> QED
    BY <1>3, <1>4, <2>1, SelectedFollows
<1> HIDE DEF sel
<1>6. Base(disk).registry.generation = registry.generation /\ SameWorld(Base(disk).registry, registry)
  BY <1>3 DEF BaseWhole, SameWorld
<1>7. sel.registry.generation >= registry.generation /\ sel.registry.generation \in Nat
  BY <1>3, <1>5, <1>6
<1>8. AnchorsBehind(disk', sel.registry)
  <2>1. ASSUME ~LateErrors, NEW s \in Parity
        PROVE  disk'.anchors[s].registry.generation <= sel.registry.generation
    <3>1. CASE disk'.anchors[s].registry.generation = 0
      BY <1>7, <3>1
    <3>2. CASE disk'.anchors[s] = disk.anchors[s]
      <4>1. disk.anchors[s].registry.generation \in Nat
        BY <1>3 DEF Disks, Anchors, Registries
      <4>2. disk.anchors[s].registry.generation <= registry.generation
        BY <1>3, <2>1 DEF AnchorsBehind
      <4> QED
        BY <1>3, <1>7, <3>2, <4>1, <4>2
    <3>3. CASE /\ call # Idle /\ call.step = "Anchor" /\ disk' = Put(disk, call)
               /\ disk'.anchors[s] = AnchorOf(call)
      <4>1. /\ disk'.anchors[call.registry.generation % 2] = AnchorOf(call)
            /\ call.registry.generation % 2 \in Parity
            /\ publication_anchor_is_complete(disk', AnchorOf(call))
        BY <1>3, <3>3, AnchorCompletes
      <4>2. call.registry.generation % 2 \in CompleteAnchors(disk')
        BY <4>1 DEF CompleteAnchors
      <4>3. AnchorOf(call).registry.generation <= sel.registry.generation
        BY <1>4, <4>1, <4>2, SelectedHighest DEF sel
      <4> QED
        BY <3>3, <4>3
    <3> QED
      BY <1>4, <3>1, <3>2, <3>3
  <2> QED
    BY <2>1 DEF AnchorsBehind
<1>9. ~LateErrors => Reconcilable(sel.registry, ordinary.instances)
  <2>1. ASSUME NEW r, Reconcilable(r, objects.instances) PROVE Reconcilable(r, ordinary.instances)
    <3>1. \A i \in DOMAIN ordinary.instances : \E j \in DOMAIN objects.instances :
              objects.instances[j] = ordinary.instances[i]
      BY <1>1 DEF IInv, References
    <3> QED
      BY <2>1, <3>1 DEF Reconcilable
  <2>2. CASE sel = Base(disk)
    <3>1. Reconcilable(registry, objects.instances)
      BY <1>1 DEF IInv, References
    <3>2. Reconcilable(sel.registry, objects.instances)
      BY <1>6, <2>2, <3>1, SameWorldCarries
    <3> QED
      BY <2>1, <3>2
  <2>3. ASSUME ~LateErrors, sel # Base(disk)
        PROVE  Reconcilable(sel.registry, ordinary.instances)
    <3> DEFINE s == sel.registry.generation % 2
    <3>1. /\ sel.registry.generation = registry.generation + 1 /\ sel = disk'.anchors[s]
          /\ s \in Parity
      BY <1>5, <1>7, <2>3 DEF Parity
    <3>2. disk'.anchors[s] # disk.anchors[s]
      BY <1>3, <2>3, <3>1 DEF AnchorsBehind
    <3>3. call # Idle /\ sel = AnchorOf(call)
      BY <1>3, <1>4, <3>1, <3>2
    <3>4. sel.registry = call.registry
      BY <3>3 DEF AnchorOf
    <3>5. Reconcilable(call.registry, objects.instances)
      BY <1>3, <3>3 DEF CallInHand
    <3> QED
      BY <2>1, <3>4, <3>5
  <2> QED
    BY <2>2, <2>3
<1>10. Down'
  BY <1>2, <1>5, <1>8, <1>9 DEF Down, Selectable, ToldKept, sel
<1>11. Types'
  BY <1>1, <1>2, <1>3, <1>4, IdleTyped DEF Types
<1>12. Up' /\ CallInHand'
  BY <1>1 DEF Up, CallInHand
<1>13. PreparedInHand'
  BY <1>2 DEF IInv, PreparedInHand
<1>14. References'
  BY <1>1, <1>2 DEF IInv, References
<1> QED
  BY <1>4, <1>10, <1>11, <1>12, <1>13, <1>14 DEF IInv

-----------------------------------------------------------------------------
(* The steps that write no package slot *)

(* Counting the references again leaves the kernel in the same world.      *)
LEMMA Recounted ==
    ASSUME IInv, running, NEW instances \in Seq(Nat),
           registry' = reconcile_schema_references(registry, instances),
           UNCHANGED <<disk, running, anchored, told>>
    PROVE  /\ Sound(registry') /\ SameWorld(registry', registry)
           /\ Counted(registry', instances)
           /\ InPlace(disk)' /\ Up' /\ Down'
<1>1. /\ Sound(registry) /\ BaseWhole(disk) /\ InPlace(disk) /\ AnchorsBehind(disk, registry)
      /\ ToldKept(Base(disk).registry)
  BY DEF IInv, Types, Up
<1>2. Sound(registry') /\ SameWorld(registry', registry) /\ Counted(registry', instances)
  BY <1>1, ReconcileSame
<1>3. /\ registry'.generation = registry.generation
      /\ \A c : Continues(registry', c) <=> Continues(registry, c)
  <2>1. registry'.generation = registry.generation
    BY <1>2 DEF SameWorld
  <2>2. \A c : Continues(registry', c) <=> Continues(registry, c)
    BY <1>2, SameWorldCarries
  <2> QED
    BY <2>1, <2>2
<1>4. Base(disk)' = Base(disk)
  BY <1>3 DEF Base
<1>5. SameWorld(Base(disk).registry, registry')
  BY <1>1, <1>2 DEF BaseWhole, SameWorld
<1>6. RegistriesFollow(disk, registry')
  BY <1>1, <1>3 DEF BaseWhole, RegistriesFollow
<1>7. BaseWhole(disk)'
  BY <1>1, <1>3, <1>4, <1>5, <1>6 DEF BaseWhole
<1>8. ToldKept(Base(disk).registry)'
  BY <1>1, <1>4 DEF ToldKept
<1>9. AnchorsBehind(disk, registry)'
  BY <1>1, <1>3 DEF AnchorsBehind
<1> QED
  BY <1>1, <1>2, <1>7, <1>8, <1>9 DEF Up, Down

LEMMA Recovered ==
    ASSUME IInv, recover_with_object_service
    PROVE  IInv'
<1>1. /\ running /\ call = Idle /\ prepared' = NoPrepared
      /\ Reconcilable(registry, objects.instances)
      /\ registry' = reconcile_schema_references(registry, objects.instances)
      /\ UNCHANGED <<disk, ordinary, running, anchored, objects, cached, contexts, call, told>>
  BY DEF recover_with_object_service, Ready
<1>2. objects.instances \in Seq(Nat) /\ Types
  BY DEF IInv, Types, Candidates
<1>3. /\ Sound(registry') /\ SameWorld(registry', registry)
      /\ Counted(registry', objects.instances) /\ InPlace(disk)' /\ Up' /\ Down'
  BY <1>1, <1>2, Recounted
<1>4. /\ Alive(registry') = Alive(registry)
      /\ Reconcilable(registry', objects.instances)
  BY <1>1, <1>3, SameWorldCarries
<1>5. Types'
  BY <1>1, <1>2, <1>3, <1>4, UnpreparedTyped DEF Types
<1>6. CallInHand' /\ PreparedInHand'
  BY <1>1 DEF CallInHand, PreparedInHand
<1>7. References'
  BY <1>1, <1>3, <1>4 DEF IInv, References
<1> QED
  BY <1>3, <1>5, <1>6, <1>7 DEF IInv

LEMMA Launched ==
    ASSUME IInv, NEW p \in PackageIds, launch(p)
    PROVE  IInv'
<1>1. /\ running /\ call = Idle /\ contexts' = contexts \cup {p} /\ p \in Alive(registry)
      /\ UNCHANGED <<disk, ordinary, running, registry, anchored, objects, prepared, cached,
                     call, told>>
  BY DEF launch, Ready, Alive
<1>2. Types' /\ CallInHand'
  BY <1>1 DEF IInv, Types, CallInHand
<1>3. InPlace(disk)' /\ Up' /\ Down'
  BY <1>1 DEF IInv, Up, BaseWhole, Base, ToldKept, Down
<1>4. PreparedInHand' /\ References'
  BY <1>1 DEF IInv, PreparedInHand, References
<1> QED
  BY <1>2, <1>3, <1>4 DEF IInv

(* What persist_object_service may leave                                   *)
LEMMA PersistedTyped ==
    ASSUME ordinary \in Candidates, NEW o \in Candidates, NEW x \in Persisted(o)
    PROVE  x \in Candidates /\ (x = ordinary \/ x.instances = o.instances)
BY DEF Persisted, Candidates

LEMMA DefinedObjectCreated ==
    ASSUME PackagePublicationAssumption, IInv, NEW p \in PackageIds,
           create_package_defined_object(p)
    PROVE  IInv'
<1> DEFINE o == [objects EXCEPT !.instances = Append(@, p)]
<1>1. /\ running /\ call = Idle /\ Reconcilable(registry, o.instances)
      /\ registry' = reconcile_schema_references(registry, o.instances)
      /\ objects' = o /\ ordinary' \in Persisted(o)
      /\ UNCHANGED <<disk, running, anchored, prepared, cached, contexts, call, told>>
  BY DEF create_package_defined_object, Ready
<1>2. /\ Types /\ objects \in Candidates /\ ordinary \in Candidates
      /\ objects.instances \in Seq(Nat) /\ p \in Nat
  BY DEF IInv, Types, Candidates, PackageIds
<1>3. /\ o \in Candidates /\ o.instances = Append(objects.instances, p)
      /\ o.packages = objects.packages
  <2>1. \A x \in Seq(Nat) : LET c == [objects EXCEPT !.instances = x]
                            IN  /\ c \in Candidates /\ c.instances = x
                                /\ c.packages = objects.packages
    BY <1>2 DEF Candidates
  <2>2. Append(objects.instances, p) \in Seq(Nat)
    BY <1>2
  <2> QED
    BY <2>1, <2>2
<1> HIDE DEF o
<1>4. o.instances \in Seq(Nat)
  BY <1>2, <1>3
<1>5. \A i \in DOMAIN objects.instances : i \in DOMAIN o.instances /\ o.instances[i] = objects.instances[i]
  BY <1>2, <1>3
<1>6. ordinary' \in Candidates /\ (ordinary' = ordinary \/ ordinary'.instances = o.instances)
  BY <1>1, <1>2, <1>3, PersistedTyped
<1>7. /\ Sound(registry') /\ SameWorld(registry', registry)
      /\ Counted(registry', o.instances) /\ InPlace(disk)' /\ Up' /\ Down'
  BY <1>1, <1>4, Recounted
<1>8. /\ Alive(registry') = Alive(registry)
      /\ Reconcilable(registry', o.instances)
      /\ \A c : Continues(registry', c) <=> Continues(registry, c)
      /\ registry'.generation = registry.generation
  BY <1>1, <1>7, SameWorldCarries DEF SameWorld
<1>9. Types'
  BY <1>1, <1>2, <1>3, <1>6, <1>7, <1>8 DEF Types
<1>10. CallInHand'
  BY <1>1 DEF CallInHand
<1>11. PreparedInHand'
  BY <1>1, <1>8 DEF IInv, PreparedInHand
<1>12. \A i \in DOMAIN ordinary'.instances : \E j \in DOMAIN o.instances :
          o.instances[j] = ordinary'.instances[i]
  <2>1. \A i \in DOMAIN ordinary.instances : \E j \in DOMAIN objects.instances :
            objects.instances[j] = ordinary.instances[i]
    BY <1>1 DEF IInv, References
  <2> QED
    BY <1>5, <1>6, <2>1
<1>13. References'
  BY <1>1, <1>3, <1>7, <1>8, <1>12 DEF IInv, References
<1> QED
  BY <1>7, <1>9, <1>10, <1>11, <1>13 DEF IInv

LEMMA ObjectCreated ==
    ASSUME IInv, create_object
    PROVE  IInv'
<1> DEFINE o == [objects EXCEPT !.notes = @ + 1]
<1>1. /\ running /\ call = Idle /\ objects' = o /\ ordinary' \in Persisted(o)
      /\ UNCHANGED <<disk, running, registry, anchored, prepared, cached, contexts, call, told>>
  BY DEF create_object, Ready
<1>2. /\ Types /\ objects \in Candidates /\ ordinary \in Candidates
  BY DEF IInv, Types
<1>3. o \in Candidates /\ o.instances = objects.instances /\ o.packages = objects.packages
  BY <1>2 DEF Candidates
<1> HIDE DEF o
<1>4. ordinary' \in Candidates /\ (ordinary' = ordinary \/ ordinary'.instances = o.instances)
  BY <1>1, <1>2, <1>3, PersistedTyped
<1>5. Types'
  BY <1>1, <1>2, <1>3, <1>4 DEF Types
<1>6. InPlace(disk)' /\ Up' /\ Down'
  BY <1>1 DEF IInv, Up, BaseWhole, Base, ToldKept, Down
<1>7. CallInHand' /\ PreparedInHand'
  BY <1>1 DEF IInv, CallInHand, PreparedInHand
<1>8. References'
  BY <1>1, <1>3, <1>4 DEF IInv, References
<1> QED
  BY <1>5, <1>6, <1>7, <1>8 DEF IInv

(* The boot takes over the world it selects.                               *)
LEMMA Booted ==
    ASSUME IInv, Boot
    PROVE  IInv'
<1> DEFINE sel == SelectedAnchor(disk)
<1>1. /\ ~running /\ Reconcilable(sel.registry, ordinary.instances) /\ running' = TRUE
      /\ objects' = ordinary
      /\ registry' = reconcile_schema_references(sel.registry, ordinary.instances)
      /\ anchored' = sel.object /\ prepared' = NoPrepared /\ cached' = << >> /\ contexts' = {}
      /\ UNCHANGED <<disk, ordinary, call, told>>
  BY DEF Boot
<1>2. /\ Types /\ disk \in Disks /\ InPlace(disk) /\ call = Idle
      /\ ordinary \in Candidates /\ ordinary.instances \in Seq(Nat)
      /\ Selectable(disk, sel.registry)
  BY <1>1 DEF IInv, Types, Down, Candidates
<1>3. \/ sel = NoAnchor
      \/ \E s \in Parity : sel = disk.anchors[s] /\ publication_anchor_is_complete(disk, sel)
  BY <1>2, SelectedHighest DEF CompleteAnchors
<1> HIDE DEF sel
<1>4. /\ NoAnchor.registry = NoRegistry /\ NoAnchor.object = NoCandidate
      /\ Sound(NoRegistry) /\ NoRegistry.generation = 0 /\ NoCandidate \in Candidates
  BY DEF NoAnchor, NoRegistry, NoCandidate, Registries, Candidates, Sound, Alive, Kept
<1>5. /\ Sound(sel.registry) /\ sel.object \in Candidates
      /\ \/ sel = NoAnchor
         \/ /\ sel.registry.generation > 0 /\ publication_anchor_is_complete(disk, sel)
            /\ sel = disk.anchors[sel.registry.generation % 2]
  <2>1. CASE sel = NoAnchor
    BY <1>4, <2>1
  <2>2. CASE sel # NoAnchor
    <3>1. PICK s \in Parity : sel = disk.anchors[s] /\ publication_anchor_is_complete(disk, sel)
      BY <1>3, <2>2
    <3>2. sel.object \in Candidates
      BY <1>2, <3>1 DEF Disks, Anchors
    <3> QED
      BY <1>2, <2>2, <3>1, <3>2 DEF InPlace
  <2> QED
    BY <2>1, <2>2
<1>6. /\ Sound(registry') /\ SameWorld(registry', sel.registry)
      /\ Counted(registry', ordinary.instances)
  BY <1>1, <1>2, <1>5, ReconcileSame
<1>7. /\ registry'.generation = sel.registry.generation
      /\ \A c : Continues(registry', c) <=> Continues(sel.registry, c)
      /\ Reconcilable(registry', ordinary.instances)
      /\ SameWorld(sel.registry, registry')
  BY <1>1, <1>6, SameWorldCarries DEF SameWorld
<1>8. Base(disk)' = sel
  <2>1. CASE sel = NoAnchor
    <3>1. registry'.generation = 0
      BY <1>4, <1>7, <2>1
    <3> QED
      BY <2>1, <3>1 DEF Base
  <2>2. CASE sel # NoAnchor
    <3>1. /\ registry'.generation > 0 /\ registry'.generation \in Nat
          /\ sel = disk.anchors[registry'.generation % 2]
      BY <1>5, <1>6, <1>7, <2>2 DEF Sound, Registries
    <3>2. disk' = disk
      BY <1>1
    <3>3. registry'.generation # 0
      <4> DEFINE g == registry'.generation
      <4>1. g > 0 /\ g \in Nat
        BY <3>1
      <4> HIDE DEF g
      <4>2. g # 0
        BY <4>1
      <4> QED
        BY <4>2 DEF g
    <3>4. sel = disk'.anchors[registry'.generation % 2]
      BY <3>1, <3>2
    <3> HIDE <1>1, <3>1
    <3> QED
      BY <3>2, <3>3, <3>4 DEF Base
  <2> QED
    BY <2>1, <2>2
<1>9. registry'.generation > 0 => publication_anchor_is_complete(disk, sel)
  BY <1>4, <1>5, <1>7
<1>10. RegistriesFollow(disk, registry')
  BY <1>2, <1>7 DEF Selectable, RegistriesFollow
<1>11. BaseWhole(disk)'
  BY <1>1, <1>7, <1>8, <1>9, <1>10 DEF BaseWhole
<1>12. ToldKept(Base(disk).registry)'
  BY <1>1, <1>2, <1>8 DEF Selectable, ToldKept
<1>13. AnchorsBehind(disk, registry)'
  BY <1>1, <1>2, <1>7 DEF Selectable, AnchorsBehind
<1>14. Up' /\ Down'
  BY <1>1, <1>11, <1>12, <1>13 DEF Up, Down
<1>15. Types'
  BY <1>1, <1>2, <1>5, <1>6, UnpreparedTyped DEF Types
<1>16. CallInHand' /\ PreparedInHand'
  BY <1>1, <1>2 DEF CallInHand, PreparedInHand
<1>17. References'
  <2>1. DOMAIN cached' = {}
    BY <1>1
  <2> QED
    BY <1>1, <1>6, <1>7, <2>1 DEF References
<1> QED
  BY <1>1, <1>2, <1>14, <1>15, <1>16, <1>17 DEF IInv

-----------------------------------------------------------------------------
(* The theorem *)

LEMMA StepPreserves ==
    ASSUME PackagePublicationAssumption, IInv, [Next]_vars
    PROVE  IInv'
<1>1. CASE UNCHANGED vars
  <2>1. call' = call /\ UNCHANGED <<disk, ordinary, running, memory, told>>
    BY <1>1 DEF vars
  <2>2. InPlace(disk)' /\ Up' /\ Down' /\ PreparedInHand' /\ References'
    BY <2>1, MemoryKept
  <2>3. /\ registry' = registry /\ anchored' = anchored /\ objects' = objects /\ told' = told
        /\ contexts' = contexts /\ prepared' = prepared /\ running' = running
        /\ ordinary' = ordinary /\ disk' = disk
    BY <2>1 DEF memory
  <2>4. Types' /\ CallInHand'
    BY <2>1, <2>3 DEF IInv, Types, CallInHand, PrepareInHand, ChangeInHand
  <2> QED
    BY <2>2, <2>4 DEF IInv
<1>2. CASE Next
  BY <1>2, PrepareBegins, PublishBegins, ChangeBegins, ContentWritten, RegistryWritten,
     CandidateWritten, AnchorWritten, WriteFailed, Crashed, Recovered, Launched,
     DefinedObjectCreated, ObjectCreated, Booted DEF Next
<1> QED
  BY <1>1, <1>2

LEMMA InvariantSuffices ==
    ASSUME IInv
    PROVE  PublicationSafe
<1> DEFINE sel == SelectedAnchor(disk)
<1>1. /\ Types /\ disk \in Disks /\ registry \in Registries /\ told \in Registries
      /\ registry.generation \in Nat /\ InPlace(disk)
  BY DEF IInv, Types, Sound, Registries
<1>2. running => /\ BaseWhole(disk) /\ ToldKept(Base(disk).registry)
                 /\ AnchorsBehind(disk, registry)
                 /\ ToldKept(sel.registry)
                 /\ \/ sel = Base(disk)
                    \/ /\ sel.registry.generation = registry.generation + 1
                       /\ sel = disk.anchors[sel.registry.generation % 2]
  BY <1>1, SelectedFollows DEF IInv, Up
<1>3. TypeOK
  <2>1. \A s \in Parity : disk.registries[s] \in Registries /\ disk.candidates[s] \in Candidates
    BY <1>1 DEF Disks
  <2>2. {registry, told, call.registry, prepared.registry} \subseteq Registries
    BY <1>1 DEF Types, Sound
  <2>3. contexts \subseteq {p \in DOMAIN registry.packages :
                                registry.packages[p].status # "Tombstoned"}
    BY <1>1 DEF Types, Alive
  <2> QED
    BY <1>1, <2>1, <2>2, <2>3 DEF TypeOK, Types, Sound
<1>4. ToldKept(sel.registry)
  BY <1>2 DEF IInv, Down, Selectable
<1>5. PublishedWorldKept
  BY <1>4 DEF ToldKept, PublishedWorldKept
<1>6. NoRevival
  <2>1. running => Continues(told, registry)
    BY <1>2, SameWorldCarries DEF BaseWhole, ToldKept
  <2> QED
    BY <2>1 DEF NoRevival, Continues
<1>7. LiveCountsExact
  BY DEF IInv, References, Counted, LiveCountsExact
<1>8. ~LateErrors => SchemaRetained
  <2>1. CASE ~running
    BY <2>1 DEF IInv, Down, Selectable, SchemaRetained
  <2>2. CASE running
    <3>1. ~LateErrors => sel = Base(disk)
      <4>1. sel # Base(disk) => /\ sel.registry.generation = registry.generation + 1
                                /\ sel = disk.anchors[sel.registry.generation % 2]
                                /\ sel.registry.generation % 2 \in Parity
        BY <1>1, <1>2, <2>2 DEF Parity
      <4> HIDE DEF sel
      <4> QED
        BY <1>1, <1>2, <2>2, <4>1 DEF AnchorsBehind
    <3>2. Reconcilable(registry, ordinary.instances)
      BY <2>2 DEF IInv, References, Reconcilable
    <3>3. Reconcilable(Base(disk).registry, ordinary.instances)
      BY <1>2, <2>2, <3>2, SameWorldCarries DEF BaseWhole
    <3> QED
      BY <3>1, <3>3 DEF SchemaRetained
  <2> QED
    BY <2>1, <2>2
<1> QED
  BY <1>3, <1>5, <1>6, <1>7, <1>8 DEF PublicationSafe

(* For any releases, content blocks and bounds, through power cuts and     *)
(* device errors at every write of install, publish, disable and uninstall *)
(* (package_service.rs), reported or late: a boot selects the last world   *)
(* reported as published or a newer one, whole; no package reported as     *)
(* uninstalled comes back; the retention counts are those of the live      *)
(* objects; and, without late errors, every stored object's schema is in   *)
(* the world a boot selects.                                               *)
THEOREM PublicationHolds ==
    ASSUME PackagePublicationAssumption
    PROVE  Spec => []PublicationSafe
<1>1. Init => IInv
  BY InitEstablishes
<1>2. IInv /\ [Next]_vars => IInv'
  BY StepPreserves
<1>3. IInv => PublicationSafe
  BY InvariantSuffices
<1> QED
  BY <1>1, <1>2, <1>3, PTL DEF Spec
=============================================================================

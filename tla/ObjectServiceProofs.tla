------------------------- MODULE ObjectServiceProofs -------------------------
(***************************************************************************)
(* Proof that the object service keeps its tables in agreement and within  *)
(* their capacity, its history whole, its answers durable and its          *)
(* authority with the callers it was given to, for every set of ids and    *)
(* every capacity.                                                         *)
(***************************************************************************)
EXTENDS ObjectService, FiniteSetTheorems, SequenceTheorems, WellFoundedInduction, TLAPS

-----------------------------------------------------------------------------
(* The inductive invariant *)

Priors == [id : ObjectIds, revision : Nat, ticks : Nat]

(* The object store: no id and no block twice, a bitmap of just the blocks *)
StoreSound(o, bits) ==
    /\ o \in Seq(Records)
    /\ bits = {o[i].block : i \in DOMAIN o}
    /\ \A i, j \in DOMAIN o : i # j => o[i].block # o[j].block /\ o[i].id # o[j].id

(* The ids a workspace lists *)
ListedIds(o) ==
    {o[i].id : i \in {j \in DOMAIN o : o[j].kind # "SchemaDefinition"}}

Earlier(p, id) == {x \in p : x.id = id}

(* HistoryComplete, of any tables *)
HistoryOf(c, p, id) ==
    /\ {x.revision : x \in Earlier(p, id)} = 1 .. c[id].revision - 1
    /\ \A x \in Earlier(p, id) : x.ticks < c[id].ticks
    /\ \A x, y \in Earlier(p, id) : x.revision < y.revision => x.ticks < y.ticks

HistorySound(o, c, p) ==
    /\ DOMAIN c = Ids(o)
    /\ \A id \in DOMAIN c : c[id] \in Revisions /\ c[id].revision > 0
    /\ p \subseteq Priors
    /\ \A x \in p : x.id \in DOMAIN c
    /\ \A id \in DOMAIN c : HistoryOf(c, p, id)

Tables ==
    /\ StoreSound(objects, bitmap)
    /\ index = Workspaces \cup Ids(objects)
    /\ DOMAIN belongs = ListedIds(objects)
    /\ HistorySound(objects, current, prior)

(* The same of a snapshot *)
Image(s) ==
    /\ StoreSound(s.objects, s.bitmap)
    /\ DOMAIN s.belongs = ListedIds(s.objects)
    /\ HistorySound(s.objects, s.current, s.prior)

(* No object of c is lost or older in d *)
Extends(c, d) ==
    \A id \in DOMAIN c : id \in DOMAIN d /\ c[id].revision <= d[id].revision

(* The memory of a machine that is up is what the register holds, or newer *)
Ahead == machine # "down" /\ cell # Nothing => Extends(cell.snapshot.current, current)

(* A store under way is of the memory as it stands, for the waiting reply *)
StoreInHand ==
    pending # Nothing => reply # NoReply /\ pending.snapshot = Snapshot

ReplyInHand ==
    reply # NoReply => /\ machine = "up"
                       /\ reply.id \in DOMAIN current
                       /\ reply.revision = current[reply.id].revision

IInv ==
    /\ Tables
    /\ next_ticks \in Nat
    /\ cell # Nothing => Image(cell.snapshot)
    /\ Ahead
    /\ StoreInHand
    /\ ReplyInHand
    /\ \A id \in DOMAIN acked : acked[id] \in Nat
    /\ AckedSurvives
    /\ AnswersFresh

-----------------------------------------------------------------------------
(* The operators *)

(* A function with one more entry.                                         *)
LEMMA WithEntry ==
    ASSUME NEW f, NEW x, NEW y
    PROVE  /\ DOMAIN With(f, x, y) = DOMAIN f \cup {x}
           /\ With(f, x, y)[x] = y
           /\ \A z \in DOMAIN f : z # x => With(f, x, y)[z] = f[z]
BY DEF With

(* BlockAllocator::allocate returns a free block.                          *)
LEMMA FreeBlockIsFree ==
    ASSUME CapacityAssumption, Blocks \ bitmap # {}
    PROVE  FreeBlock \in Blocks \ bitmap
<1> DEFINE S == Blocks \ bitmap
<1>1. S \subseteq Nat
  BY DEF Blocks, CapacityAssumption
<1>2. PICK b \in S : \A c \in S : ~(<<c, b>> \in OpToRel(<, Nat))
  BY <1>1, NatLessThanWellFounded, WFMin
<1>3. \A c \in S : ~(c < b)
  BY <1>1, <1>2 DEF OpToRel
<1>4. \A c \in S : b <= c
  BY <1>1, <1>3
<1> QED
  BY <1>4 DEF FreeBlock

(* A table has at most as many ids as slots.                               *)
LEMMA IdsBounded ==
    ASSUME NEW o \in Seq(Records)
    PROVE  IsFiniteSet(Ids(o)) /\ Cardinality(Ids(o)) \in Nat /\ Cardinality(Ids(o)) <= Len(o)
<1> DEFINE f == [i \in 1 .. Len(o) |-> o[i].id]
<1>1. Len(o) \in Nat /\ DOMAIN o = 1 .. Len(o)
  OBVIOUS
<1>2. f \in Surjection(1 .. Len(o), Ids(o))
  BY <1>1 DEF Surjection, Ids
<1>3. IsFiniteSet(1 .. Len(o)) /\ Cardinality(1 .. Len(o)) = Len(o)
  BY <1>1, FS_Interval
<1> HIDE DEF f
<1>4. IsFiniteSet(Ids(o)) /\ Cardinality(Ids(o)) <= Cardinality(1 .. Len(o))
  BY <1>2, <1>3, FS_Surjection
<1> QED
  BY <1>3, <1>4, FS_CardinalityType

(* An object that can be stored and indexed can be related and recorded:   *)
(* no create of create_object stops half way.                              *)
LEMMA CreateComplete ==
    ASSUME CapacityAssumption, Tables, NEW id, CanStore(id)
    PROVE  CanRelate(id) /\ CanRecord(id)
<1>1. objects \in Seq(Records) /\ Len(objects) \in Nat /\ Len(objects) < MaxObjects
      /\ MaxObjects \in Nat
  BY DEF Tables, StoreSound, CanStore, CapacityAssumption
<1>2. /\ IsFiniteSet(Ids(objects)) /\ Cardinality(Ids(objects)) \in Nat
      /\ Cardinality(Ids(objects)) <= Len(objects)
  BY <1>1, IdsBounded
<1>3. DOMAIN belongs \in SUBSET Ids(objects)
  BY DEF Tables, ListedIds, Ids
<1>4. /\ Cardinality(DOMAIN belongs) <= Cardinality(Ids(objects))
      /\ Cardinality(DOMAIN belongs) \in Nat
  BY <1>2, <1>3, FS_Subset, FS_CardinalityType
<1>5. id \notin DOMAIN belongs /\ id \notin DOMAIN current
  BY <1>3 DEF CanStore, Tables, HistorySound
<1>6. DOMAIN current = Ids(objects)
  BY DEF Tables, HistorySound
<1>7. Cardinality(DOMAIN belongs) < MaxObjects
  BY <1>1, <1>2, <1>4
<1>8. Cardinality(DOMAIN current) < MaxObjects
  BY <1>1, <1>2, <1>6
<1> QED
  BY <1>5, <1>7, <1>8 DEF CanRelate, CanRecord

-----------------------------------------------------------------------------
(* The tables *)

(* One more record with a fresh id and a fresh block.                      *)
LEMMA StoreGrows ==
    ASSUME NEW o, NEW bits, StoreSound(o, bits), NEW r \in Records,
           r.id \notin Ids(o), r.block \notin bits
    PROVE  LET n == Append(o, r)
           IN  /\ StoreSound(n, bits \cup {r.block})
               /\ Ids(n) = Ids(o) \cup {r.id}
               /\ ListedIds(n) = IF r.kind = "SchemaDefinition" THEN ListedIds(o)
                                 ELSE ListedIds(o) \cup {r.id}
<1> DEFINE n == Append(o, r)
<1>1. /\ o \in Seq(Records) /\ Len(o) \in Nat /\ DOMAIN o = 1 .. Len(o)
      /\ n \in Seq(Records) /\ DOMAIN n = DOMAIN o \cup {Len(o) + 1}
      /\ Len(o) + 1 \notin DOMAIN o
      /\ n[Len(o) + 1] = r /\ \A i \in DOMAIN o : n[i] = o[i]
  BY DEF StoreSound
<1> HIDE DEF n
<1>2. Ids(n) = Ids(o) \cup {r.id}
  BY <1>1 DEF Ids
<1>3. bits \cup {r.block} = {n[i].block : i \in DOMAIN n}
  BY <1>1 DEF StoreSound
<1>4. \A i, j \in DOMAIN n : i # j => n[i].block # n[j].block /\ n[i].id # n[j].id
  <2> SUFFICES ASSUME NEW i \in DOMAIN n, NEW j \in DOMAIN n, i # j
               PROVE  n[i].block # n[j].block /\ n[i].id # n[j].id
    OBVIOUS
  <2>1. CASE i \in DOMAIN o /\ j \in DOMAIN o
    BY <1>1, <2>1 DEF StoreSound
  <2>2. ASSUME NEW k \in DOMAIN o
        PROVE  n[k].block \in bits /\ n[k].id \in Ids(o)
    BY <1>1, <2>2 DEF StoreSound, Ids
  <2>3. CASE i \notin DOMAIN o /\ j \in DOMAIN o
    BY <1>1, <2>2, <2>3
  <2>4. CASE i \in DOMAIN o /\ j \notin DOMAIN o
    BY <1>1, <2>2, <2>4
  <2> QED
    BY <1>1, <2>1, <2>3, <2>4
<1>5. CASE r.kind = "SchemaDefinition"
  <2>1. {j \in DOMAIN n : n[j].kind # "SchemaDefinition"}
           = {j \in DOMAIN o : o[j].kind # "SchemaDefinition"}
    BY <1>1, <1>5
  <2>2. ListedIds(n) = ListedIds(o)
    BY <1>1, <2>1 DEF ListedIds
  <2> QED
    BY <1>1, <1>2, <1>3, <1>4, <1>5, <2>2 DEF StoreSound, n
<1>6. CASE r.kind # "SchemaDefinition"
  <2>1. {j \in DOMAIN n : n[j].kind # "SchemaDefinition"}
           = {j \in DOMAIN o : o[j].kind # "SchemaDefinition"} \cup {Len(o) + 1}
    BY <1>1, <1>6
  <2>2. ListedIds(n) = ListedIds(o) \cup {r.id}
    BY <1>1, <2>1 DEF ListedIds
  <2> QED
    BY <1>1, <1>2, <1>3, <1>4, <1>6, <2>2 DEF StoreSound, n
<1> QED
  BY <1>5, <1>6

(* A first revision of a fresh id.                                         *)
LEMMA HistoryGrows ==
    ASSUME NEW o, NEW n, NEW c, NEW p, HistorySound(o, c, p), NEW id \in ObjectIds,
           id \notin DOMAIN c, Ids(n) = Ids(o) \cup {id}, NEW ticks \in Nat
    PROVE  LET d == With(c, id, [revision |-> 1, ticks |-> ticks])
           IN  HistorySound(n, d, p) /\ Extends(c, d) /\ d[id].revision = 1
<1> DEFINE d == With(c, id, [revision |-> 1, ticks |-> ticks])
<1>1. /\ DOMAIN d = DOMAIN c \cup {id} /\ d[id] = [revision |-> 1, ticks |-> ticks]
      /\ \A z \in DOMAIN c : d[z] = c[z]
  BY DEF With
<1> HIDE DEF d
<1>2. HistoryOf(d, p, id)
  <2>1. Earlier(p, id) = {}
    BY DEF HistorySound, Earlier
  <2>2. 1 .. d[id].revision - 1 = {}
    BY <1>1
  <2> QED
    BY <2>1, <2>2 DEF HistoryOf
<1>3. \A z \in DOMAIN c : HistoryOf(d, p, z)
  BY <1>1 DEF HistorySound, HistoryOf
<1>4. \A z \in DOMAIN d : d[z] \in Revisions /\ d[z].revision > 0
  BY <1>1 DEF HistorySound, Revisions
<1>5. HistorySound(n, d, p)
  BY <1>1, <1>2, <1>3, <1>4 DEF HistorySound
<1>6. Extends(c, d)
  BY <1>1 DEF Extends, HistorySound, Revisions
<1> QED
  BY <1>1, <1>5, <1>6 DEF d

(* The next revision of an object, stamped later than the current one.     *)
LEMMA HistoryAdvances ==
    ASSUME NEW o, NEW n, NEW c, NEW p, HistorySound(o, c, p), NEW id \in DOMAIN c,
           DOMAIN c \subseteq ObjectIds,
           Ids(n) = Ids(o), NEW ticks \in Nat, ticks > c[id].ticks
    PROVE  LET old == c[id]
               d == [c EXCEPT ![id] = [revision |-> old.revision + 1, ticks |-> ticks]]
               q == p \cup {[id |-> id, revision |-> old.revision, ticks |-> old.ticks]}
           IN  HistorySound(n, d, q) /\ Extends(c, d) /\ d[id].revision = old.revision + 1
<1> DEFINE old == c[id]
           new == [id |-> id, revision |-> old.revision, ticks |-> old.ticks]
           d == [c EXCEPT ![id] = [revision |-> old.revision + 1, ticks |-> ticks]]
           q == p \cup {new}
<1>1. /\ DOMAIN d = DOMAIN c /\ d[id] = [revision |-> old.revision + 1, ticks |-> ticks]
      /\ \A z \in DOMAIN c : z # id => d[z] = c[z]
  OBVIOUS
<1>2. old.revision \in Nat /\ old.revision > 0 /\ old.ticks \in Nat
  BY DEF HistorySound, Revisions
<1>3. new \in Priors /\ new.id = id /\ new.revision = old.revision /\ new.ticks = old.ticks
  BY <1>2 DEF Priors
<1>4. q = p \cup {new}
  OBVIOUS
<1> HIDE DEF d, new, q
<1>5. HistoryOf(d, q, id)
  <2>1. Earlier(q, id) = Earlier(p, id) \cup {new}
    BY <1>3, <1>4 DEF Earlier
  <2>2. /\ {x.revision : x \in Earlier(p, id)} = 1 .. old.revision - 1
        /\ \A x \in Earlier(p, id) : x.ticks < old.ticks /\ x.ticks \in Nat
        /\ \A x \in Earlier(p, id) : x.revision \in Nat /\ x.revision < old.revision
        /\ \A x, y \in Earlier(p, id) : x.revision < y.revision => x.ticks < y.ticks
    <3>1. HistoryOf(c, p, id) /\ p \subseteq Priors
      BY DEF HistorySound
    <3>2. \A x \in Earlier(p, id) : x.revision \in 1 .. old.revision - 1 /\ x \in Priors
      BY <3>1 DEF HistoryOf, Earlier
    <3> QED
      BY <1>2, <3>1, <3>2 DEF HistoryOf, Priors
  <2>3. {x.revision : x \in Earlier(q, id)} = (1 .. old.revision - 1) \cup {old.revision}
    BY <1>3, <2>1, <2>2
  <2>4. (1 .. old.revision - 1) \cup {old.revision} = 1 .. d[id].revision - 1
    BY <1>1, <1>2
  <2>5. \A x \in Earlier(q, id) : x.ticks < d[id].ticks
    BY <1>1, <1>2, <1>3, <2>1, <2>2
  <2>6. \A x, y \in Earlier(q, id) : x.revision < y.revision => x.ticks < y.ticks
    BY <1>2, <1>3, <2>1, <2>2
  <2> QED
    BY <2>3, <2>4, <2>5, <2>6 DEF HistoryOf
<1>6. \A z \in DOMAIN c : z # id => HistoryOf(d, q, z)
  <2> SUFFICES ASSUME NEW z \in DOMAIN c, z # id PROVE HistoryOf(d, q, z)
    OBVIOUS
  <2>1. Earlier(q, z) = Earlier(p, z)
    BY <1>3, <1>4 DEF Earlier
  <2> QED
    BY <1>1, <2>1 DEF HistorySound, HistoryOf
<1>7. \A z \in DOMAIN d : d[z] \in Revisions /\ d[z].revision > 0
  BY <1>1, <1>2 DEF HistorySound, Revisions
<1>8. q \subseteq Priors /\ \A x \in q : x.id \in DOMAIN d
  BY <1>1, <1>3, <1>4 DEF HistorySound
<1>9. HistorySound(n, d, q)
  BY <1>1, <1>5, <1>6, <1>7, <1>8 DEF HistorySound
<1>10. Extends(c, d)
  BY <1>1, <1>2 DEF Extends, HistorySound, Revisions
<1> QED
  BY <1>1, <1>9, <1>10 DEF d, q, new

-----------------------------------------------------------------------------
(* What the calls do to the tables *)

(* The tables grow by one object.                                          *)
LEMMA TablesGrow ==
    ASSUME CapacityAssumption, Tables, next_ticks \in Nat,
           NEW id \in ObjectIds, NEW kind \in Kinds, NEW related \in BOOLEAN,
           related <=> kind # "SchemaDefinition",
           CanStore(id), CreateStages(id, kind, TRUE, related, TRUE)
    PROVE  /\ Tables' /\ next_ticks' \in Nat /\ Extends(current, current')
           /\ id \in DOMAIN current' /\ id \notin DOMAIN current
           /\ current'[id].revision = 1
<1> DEFINE r == [id |-> id, kind |-> kind, block |-> FreeBlock,
                 schema |-> kind = "PackageDefined"]
<1>1. FreeBlock \in Blocks \ bitmap
  BY FreeBlockIsFree DEF CanStore
<1>2. /\ r \in Records /\ r.id = id /\ r.block = FreeBlock /\ r.kind = kind
  BY <1>1 DEF Records
<1>3. /\ objects' = Append(objects, r) /\ bitmap' = bitmap \cup {r.block}
      /\ index' = index \cup {id} /\ prior' = prior /\ next_ticks' = next_ticks + 1
      /\ belongs' = IF related THEN With(belongs, id, ShellWorkspace) ELSE belongs
      /\ current' = With(current, id, [revision |-> 1, ticks |-> next_ticks])
  BY DEF CreateStages, Stored, FirstRevision
<1> HIDE DEF r
<1>4. StoreSound(objects, bitmap) /\ HistorySound(objects, current, prior)
      /\ DOMAIN current = Ids(objects)
  BY DEF Tables, HistorySound
<1>5. r.id \notin Ids(objects) /\ r.block \notin bitmap
  BY <1>1, <1>2 DEF CanStore
<1>6. /\ StoreSound(objects', bitmap') /\ Ids(objects') = Ids(objects) \cup {id}
      /\ ListedIds(objects') = IF kind = "SchemaDefinition" THEN ListedIds(objects)
                               ELSE ListedIds(objects) \cup {id}
  BY <1>2, <1>3, <1>4, <1>5, StoreGrows
<1>7. /\ HistorySound(objects', current', prior') /\ Extends(current, current')
      /\ current'[id].revision = 1
  BY <1>2, <1>3, <1>4, <1>5, <1>6, HistoryGrows
<1>8. DOMAIN belongs' = ListedIds(objects')
  <2>1. CASE related
    <3>1. DOMAIN belongs' = DOMAIN belongs \cup {id}
      BY <1>3, <2>1, WithEntry
    <3> QED
      BY <1>6, <2>1, <3>1 DEF Tables
  <2>2. CASE ~related
    BY <1>3, <1>6, <2>2 DEF Tables
  <2> QED
    BY <2>1, <2>2
<1>9. index' = Workspaces \cup Ids(objects')
  BY <1>3, <1>6 DEF Tables
<1>10. Tables'
  BY <1>6, <1>7, <1>8, <1>9 DEF Tables
<1>11. id \in DOMAIN current'
  BY <1>6, <1>7 DEF HistorySound
<1> QED
  BY <1>2, <1>3, <1>4, <1>5, <1>7, <1>10, <1>11

(* The same objects with another content and one more revision.            *)
LEMMA TablesAdvance ==
    ASSUME Tables, next_ticks \in Nat, NEW id \in DOMAIN current, NEW schema \in BOOLEAN,
           Revise(id, schema), UNCHANGED <<bitmap, index, belongs>>
    PROVE  /\ Tables' /\ next_ticks' \in Nat /\ Extends(current, current')
           /\ id \in DOMAIN current'
           /\ current'[id].revision = current[id].revision + 1
           /\ reply' = [id |-> id, revision |-> current'[id].revision]
<1>1. /\ next_ticks > current[id].ticks /\ next_ticks' = next_ticks + 1
      /\ prior' = prior \cup {[id |-> id, revision |-> current[id].revision,
                               ticks |-> current[id].ticks]}
      /\ current' = [current EXCEPT ![id] = [revision |-> current[id].revision + 1,
                                             ticks |-> next_ticks]]
      /\ objects' = [i \in DOMAIN objects |->
                       IF objects[i].id = id THEN [objects[i] EXCEPT !.schema = schema]
                       ELSE objects[i]]
      /\ reply' = [id |-> id, revision |-> current[id].revision + 1]
  BY DEF Revise
<1>2. /\ objects \in Seq(Records) /\ StoreSound(objects, bitmap)
      /\ HistorySound(objects, current, prior) /\ DOMAIN current = Ids(objects)
      /\ Len(objects) \in Nat /\ DOMAIN objects = 1 .. Len(objects)
  BY DEF Tables, StoreSound, HistorySound
<1>3. /\ DOMAIN objects' = DOMAIN objects
      /\ \A i \in DOMAIN objects : /\ objects'[i] \in Records
                                   /\ objects'[i].id = objects[i].id
                                   /\ objects'[i].block = objects[i].block
                                   /\ objects'[i].kind = objects[i].kind
  <2>1. \A i \in DOMAIN objects : objects[i] \in Records
    BY <1>2
  <2>2. \A o \in Records : /\ [o EXCEPT !.schema = schema] \in Records
                           /\ [o EXCEPT !.schema = schema].id = o.id
                           /\ [o EXCEPT !.schema = schema].block = o.block
                           /\ [o EXCEPT !.schema = schema].kind = o.kind
    BY DEF Records
  <2> QED
    BY <1>1, <2>1, <2>2
<1>4. objects' \in Seq(Records)
  <2>1. objects' \in [1 .. Len(objects) -> Records]
    BY <1>1, <1>2, <1>3
  <2>2. [1 .. Len(objects) -> Records] \in {[1 .. n -> Records] : n \in Nat}
    BY <1>2
  <2> QED
    BY <2>1, <2>2, SeqDef
<1>5. StoreSound(objects', bitmap')
  BY <1>2, <1>3, <1>4 DEF StoreSound
<1>6. Ids(objects') = Ids(objects) /\ ListedIds(objects') = ListedIds(objects)
  <2>1. {j \in DOMAIN objects' : objects'[j].kind # "SchemaDefinition"}
           = {j \in DOMAIN objects : objects[j].kind # "SchemaDefinition"}
    BY <1>3
  <2> QED
    BY <1>3, <2>1 DEF Ids, ListedIds
<1>7. DOMAIN current \subseteq ObjectIds
  <2>1. \A i \in DOMAIN objects : objects[i].id \in ObjectIds
    <3>1. \A i \in DOMAIN objects : objects[i] \in Records
      BY <1>2
    <3> QED
      BY <3>1 DEF Records
  <2> QED
    BY <1>2, <2>1 DEF Ids
<1>8. /\ HistorySound(objects', current', prior') /\ Extends(current, current')
      /\ current'[id].revision = current[id].revision + 1
  <2>1. next_ticks > current[id].ticks
    BY <1>1
  <2>2. LET old == current[id]
            d == [current EXCEPT ![id] = [revision |-> old.revision + 1, ticks |-> next_ticks]]
            q == prior \cup {[id |-> id, revision |-> old.revision, ticks |-> old.ticks]}
        IN  HistorySound(objects', d, q) /\ Extends(current, d)
            /\ d[id].revision = old.revision + 1
    BY <1>2, <1>6, <1>7, <2>1, HistoryAdvances
  <2> QED
    BY <1>1, <2>2
<1>9. DOMAIN current' = DOMAIN current
  BY <1>1
<1>10. Tables'
  BY <1>5, <1>6, <1>8 DEF Tables
<1> QED
  BY <1>1, <1>8, <1>9, <1>10

-----------------------------------------------------------------------------
(* The steps *)

(* The tables of a first boot are sound.                                   *)
LEMMA SeededSound ==
    ASSUME CapacityAssumption
    PROVE  Image(SeededSnapshot) /\ Ids(SeededSnapshot.objects) = {ExternalNote}
<1> DEFINE s == SeededSnapshot
           r == [id |-> ExternalNote, kind |-> "Note", block |-> 0, schema |-> FALSE]
<1>1. /\ s.objects = <<r>> /\ s.bitmap = {0} /\ s.prior = {}
      /\ DOMAIN s.belongs = {ExternalNote}
      /\ s.current = [id \in {ExternalNote} |-> [revision |-> 1, ticks |-> 1]]
  BY DEF SeededSnapshot, SeededObjects
<1>2. r \in Records /\ r.id = ExternalNote /\ r.block = 0 /\ r.kind = "Note"
  BY DEF Records, ObjectIds, Kinds, Blocks, CapacityAssumption
<1> HIDE DEF r, s
<1>3. StoreSound(s.objects, s.bitmap) /\ Ids(s.objects) = {ExternalNote}
      /\ ListedIds(s.objects) = {ExternalNote}
  <2>1. s.objects \in Seq(Records) /\ DOMAIN s.objects = {1} /\ s.objects[1] = r
    BY <1>1, <1>2
  <2>2. {j \in DOMAIN s.objects : s.objects[j].kind # "SchemaDefinition"} = {1}
    BY <1>2, <2>1
  <2> QED
    BY <1>1, <1>2, <2>1, <2>2 DEF StoreSound, Ids, ListedIds
<1>4. HistorySound(s.objects, s.current, s.prior)
  <2>1. /\ DOMAIN s.current = {ExternalNote} /\ s.current[ExternalNote] \in Revisions
        /\ s.current[ExternalNote].revision = 1
    BY <1>1 DEF Revisions
  <2>2. HistoryOf(s.current, s.prior, ExternalNote)
    BY <1>1, <2>1 DEF HistoryOf, Earlier
  <2> QED
    BY <1>1, <1>3, <2>1, <2>2 DEF HistorySound
<1> QED
  BY <1>1, <1>3, <1>4 DEF Image, s

(* A first boot.                                                           *)
LEMMA InitEstablishes == ASSUME CapacityAssumption, Init PROVE IInv
<1>1. /\ objects = SeededSnapshot.objects /\ bitmap = SeededSnapshot.bitmap
      /\ belongs = SeededSnapshot.belongs /\ current = SeededSnapshot.current
      /\ prior = SeededSnapshot.prior /\ index = Workspaces \cup {ExternalNote}
      /\ next_ticks = 2 /\ cell = Nothing /\ pending = Nothing /\ reply = NoReply
      /\ DOMAIN acked = {}
  BY DEF Init, SeededSnapshot
<1>2. Tables
  BY <1>1, SeededSound DEF Tables, Image
<1> QED
  BY <1>1, <1>2 DEF IInv, Ahead, StoreInHand, ReplyInHand, AckedSurvives, AnswersFresh

(* While no call is under way nothing is being stored.                     *)
LEMMA ReadyIdle ==
    ASSUME IInv, Ready
    PROVE  pending = Nothing /\ reply = NoReply /\ machine = "up"
BY DEF IInv, StoreInHand, Ready

(* A call that leaves the tables sound, loses nothing and answers, if it   *)
(* does, with a revision the object did not have before.                   *)
LEMMA CallPreserves ==
    ASSUME IInv, Ready, Tables', next_ticks' \in Nat, Extends(current, current'),
           UNCHANGED <<machine, register, acked>>,
           reply' # NoReply =>
               /\ reply'.id \in DOMAIN current'
               /\ reply'.revision = current'[reply'.id].revision
               /\ reply'.id \in DOMAIN current => reply'.revision > current[reply'.id].revision
    PROVE  IInv'
<1>1. /\ pending = Nothing /\ reply = NoReply /\ machine = "up"
      /\ machine' = machine /\ cell' = cell /\ pending' = pending /\ acked' = acked
  BY ReadyIdle DEF register
<1>2. \A id \in DOMAIN current : current[id].revision \in Nat
  BY DEF IInv, Tables, HistorySound, Revisions
<1>3. \A id \in DOMAIN current' : current'[id].revision \in Nat
  BY DEF Tables, HistorySound, Revisions
<1>4. cell # Nothing => \A id \in DOMAIN cell.snapshot.current :
                           cell.snapshot.current[id].revision \in Nat
  BY DEF IInv, Image, HistorySound, Revisions
<1>5. Ahead'
  BY <1>1, <1>2, <1>3, <1>4 DEF IInv, Ahead, Extends
<1>6. StoreInHand' /\ ReplyInHand'
  BY <1>1 DEF StoreInHand, ReplyInHand
<1>7. AnswersFresh'
  <2> SUFFICES ASSUME reply' # NoReply, reply'.id \in DOMAIN acked
               PROVE  reply'.revision > acked[reply'.id]
    BY <1>1 DEF AnswersFresh
  <2> DEFINE id == reply'.id
  <2>1. /\ cell # Nothing /\ id \in DOMAIN cell.snapshot.current
        /\ cell.snapshot.current[id].revision >= acked[id] /\ acked[id] \in Nat
    BY DEF IInv, AckedSurvives
  <2>2. id \in DOMAIN current /\ cell.snapshot.current[id].revision <= current[id].revision
    BY <1>1, <2>1 DEF IInv, Ahead, Extends
  <2>3. reply'.revision > current[id].revision /\ reply'.revision \in Nat
    BY <1>3, <2>2
  <2> QED
    BY <1>2, <1>4, <2>1, <2>2, <2>3
<1>8. AckedSurvives' /\ \A id \in DOMAIN acked' : acked'[id] \in Nat
  BY <1>1 DEF IInv, AckedSurvives
<1>9. cell' # Nothing => Image(cell'.snapshot)
  BY <1>1 DEF IInv
<1> QED
  BY <1>5, <1>6, <1>7, <1>8, <1>9 DEF IInv

(* A call that touches authority only.                                     *)
LEMMA MemoryKept ==
    ASSUME IInv, UNCHANGED <<machine, memory, next_ticks, reply, register, acked>>
    PROVE  IInv'
<1>1. /\ machine' = machine /\ objects' = objects /\ bitmap' = bitmap /\ index' = index
      /\ belongs' = belongs /\ current' = current /\ prior' = prior
      /\ next_ticks' = next_ticks /\ reply' = reply
      /\ cell' = cell /\ pending' = pending /\ acked' = acked
  BY DEF memory, register
<1>2. Tables' /\ Snapshot' = Snapshot
  BY <1>1 DEF IInv, Tables, Snapshot
<1> QED
  BY <1>1, <1>2 DEF IInv, Ahead, StoreInHand, ReplyInHand, AckedSurvives, AnswersFresh

(* A create answers with the first revision of a new object.               *)
LEMMA CreatePreserves ==
    ASSUME CapacityAssumption, IInv, Ready, NEW id \in ObjectIds, NEW kind \in Kinds,
           NEW related \in BOOLEAN, related <=> kind # "SchemaDefinition",
           CanStore(id), CreateStages(id, kind, TRUE, related, TRUE),
           UNCHANGED <<machine, register, acked>>,
           reply' \in {NoReply, [id |-> id, revision |-> 1]}
    PROVE  IInv'
<1>1. /\ Tables' /\ next_ticks' \in Nat /\ Extends(current, current')
      /\ id \in DOMAIN current' /\ id \notin DOMAIN current /\ current'[id].revision = 1
  BY TablesGrow DEF IInv
<1> QED
  BY <1>1, CallPreserves

(* create_object, complete or refused before it stored anything.           *)
LEMMA CreateObjectStep ==
    ASSUME CapacityAssumption, IInv, NEW caller \in Callers, create_object(caller)
    PROVE  IInv'
<1> DEFINE id == next_note
           stored == CanStore(id) /\ CanIndex(id)
           related == stored /\ CanRelate(id)
           recorded == related /\ CanRecord(id)
<1>1. /\ Ready /\ id \in ObjectIds /\ CreateStages(id, "Note", stored, related, recorded)
      /\ reply' \in {NoReply, [id |-> id, revision |-> 1]}
      /\ ~recorded => reply' = NoReply
      /\ UNCHANGED <<machine, register, acked>>
  BY DEF create_object, ObjectIds
<1>2. CASE stored
  <2>1. related /\ recorded
    BY <1>2, CreateComplete DEF IInv
  <2>2. CreateStages(id, "Note", TRUE, TRUE, TRUE)
    BY <1>1, <1>2, <2>1 DEF CreateStages
  <2>3. CanStore(id)
    BY <1>2
  <2> HIDE DEF stored, related, recorded
  <2> QED
    BY <1>1, <2>2, <2>3, CreatePreserves DEF Kinds
<1>3. CASE ~stored
  <2>1. UNCHANGED <<memory, next_ticks>>
    BY <1>1, <1>3 DEF CreateStages, memory
  <2>2. reply' = reply
    BY <1>1, <1>3 DEF Ready
  <2> QED
    BY <1>1, <2>1, <2>2, MemoryKept
<1> QED
  BY <1>2, <1>3

(* The creates that work on a staged copy.                                 *)
LEMMA StagedCreateStep ==
    ASSUME CapacityAssumption, IInv, NEW caller, NEW id,
           \/ \E schema \in SchemaIds : create_package_defined_object(caller, schema)
           \/ id \in SchemaIds /\ create_internal_object(caller, id)
           \/ id \in TaskIds /\ create_task_service_object(id)
    PROVE  IInv'
<1>1. ASSUME NEW schema \in SchemaIds, create_package_defined_object(caller, schema)
      PROVE  IInv'
  <2>1. /\ Ready /\ next_note \in ObjectIds /\ CanStore(next_note)
        /\ CreateStages(next_note, "PackageDefined", TRUE, TRUE, TRUE)
        /\ reply' = [id |-> next_note, revision |-> 1]
        /\ UNCHANGED <<machine, register, acked>>
    BY <1>1 DEF create_package_defined_object, ObjectIds
  <2> QED
    BY <2>1, CreatePreserves DEF Kinds
<1>2. CASE id \in SchemaIds /\ create_internal_object(caller, id)
  <2>1. /\ Ready /\ id \in ObjectIds /\ CanStore(id)
        /\ CreateStages(id, "SchemaDefinition", TRUE, FALSE, TRUE)
        /\ reply' = NoReply
        /\ UNCHANGED <<machine, register, acked>>
    BY <1>2 DEF create_internal_object, ObjectIds, Ready
  <2> QED
    BY <2>1, CreatePreserves DEF Kinds
<1>3. CASE id \in TaskIds /\ create_task_service_object(id)
  <2>1. /\ Ready /\ id \in ObjectIds /\ CanStore(id)
        /\ CreateStages(id, "Task", TRUE, TRUE, TRUE)
        /\ reply' = [id |-> id, revision |-> 1]
        /\ UNCHANGED <<machine, register, acked>>
    BY <1>3 DEF create_task_service_object, ObjectIds
  <2> QED
    BY <2>1, CreatePreserves DEF Kinds
<1> QED
  BY <1>1, <1>2, <1>3

(* revise_field and revise_task_service_object.                            *)
LEMMA ReviseStep ==
    ASSUME IInv, NEW caller, NEW id,
           revise_field(caller, id) \/ revise_task_service_object(id)
    PROVE  IInv'
<1>1. /\ Ready /\ id \in DOMAIN current /\ Revise(id, FALSE)
      /\ UNCHANGED <<bitmap, index, belongs>>
      /\ UNCHANGED <<machine, register, acked>>
  BY DEF revise_field, revise_task_service_object
<1>2. Tables /\ next_ticks \in Nat
  BY DEF IInv
<1>3. /\ Tables' /\ next_ticks' \in Nat /\ Extends(current, current')
      /\ id \in DOMAIN current'
      /\ current'[id].revision = current[id].revision + 1
      /\ reply' = [id |-> id, revision |-> current'[id].revision]
  BY <1>1, <1>2, TablesAdvance
<1>4. current[id].revision \in Nat
  BY <1>1 DEF IInv, Tables, HistorySound, Revisions
<1>5. /\ reply'.id = id /\ reply'.revision = current'[id].revision
      /\ reply'.revision > current[id].revision
  BY <1>3, <1>4
<1> QED
  BY <1>1, <1>3, <1>5, CallPreserves

(* query_objects and grant_workspace_capability.                           *)
LEMMA AuthorityStep ==
    ASSUME IInv, NEW caller, query_objects(caller) \/ grant_workspace_capability(caller)
    PROVE  IInv'
BY MemoryKept DEF query_objects, grant_workspace_capability, counters

-----------------------------------------------------------------------------
(* persist_object_service, a crash and a boot *)

(* What encode_snapshot_into writes of sound tables is sound.              *)
LEMMA SnapshotSound == ASSUME Tables PROVE Image(Snapshot)
<1>1. /\ Snapshot.objects = objects /\ Snapshot.bitmap = bitmap
      /\ Snapshot.current = current /\ Snapshot.prior = prior
      /\ DOMAIN Snapshot.belongs = DOMAIN belongs \cap Ids(objects)
  BY DEF Snapshot
<1>2. ListedIds(objects) \subseteq Ids(objects)
  BY DEF ListedIds, Ids
<1> QED
  BY <1>1, <1>2 DEF Image, Tables

(* Nothing that a boot or a store keeps is older than itself.              *)
LEMMA ExtendsItself ==
    ASSUME NEW o, NEW c, NEW p, HistorySound(o, c, p) PROVE Extends(c, c)
BY DEF Extends, HistorySound, Revisions

(* The four steps of a store.                                              *)
LEMMA PersistStep ==
    ASSUME IInv, PersistBegin \/ PersistInstall \/ PersistConfirm \/ PersistFail
    PROVE  IInv'
<1>1. /\ machine' = machine /\ objects' = objects /\ bitmap' = bitmap /\ index' = index
      /\ belongs' = belongs /\ current' = current /\ prior' = prior
      /\ next_ticks' = next_ticks /\ machine = "up" /\ reply # NoReply
  BY DEF PersistBegin, PersistInstall, PersistConfirm, PersistFail, memory, counters
<1>2. Tables' /\ Snapshot' = Snapshot /\ next_ticks' \in Nat /\ Image(Snapshot)
  BY <1>1, SnapshotSound DEF IInv, Tables, Snapshot
<1>3. CASE PersistBegin
  <2>1. /\ cell' = cell /\ reply' = reply /\ acked' = acked
        /\ pending' = [generation |-> cell.generation + 1, snapshot |-> Snapshot]
    BY <1>3 DEF PersistBegin, Register!Begin
  <2>2. pending'.snapshot = Snapshot
    BY <2>1
  <2> QED
    BY <1>1, <1>2, <2>1, <2>2
    DEF IInv, Ahead, StoreInHand, ReplyInHand, AckedSurvives, AnswersFresh
<1>4. CASE PersistInstall
  <2>1. /\ cell' = pending /\ pending' = pending /\ reply' = reply /\ acked' = acked
        /\ pending # Nothing
    BY <1>4 DEF PersistInstall, Register!Install
  <2>2. cell'.snapshot = Snapshot /\ Snapshot.current = current
    BY <2>1 DEF IInv, StoreInHand, Snapshot
  <2>3. Extends(current, current)
    BY ExtendsItself DEF IInv, Tables
  <2>4. AckedSurvives'
    <3> SUFFICES ASSUME NEW id \in DOMAIN acked
                 PROVE  id \in DOMAIN current /\ current[id].revision >= acked[id]
      BY <2>1, <2>2 DEF AckedSurvives
    <3>1. /\ cell # Nothing /\ id \in DOMAIN cell.snapshot.current
          /\ cell.snapshot.current[id].revision >= acked[id] /\ acked[id] \in Nat
      BY DEF IInv, AckedSurvives
    <3>2. id \in DOMAIN current /\ cell.snapshot.current[id].revision <= current[id].revision
      BY <1>1, <3>1 DEF IInv, Ahead, Extends
    <3>3. cell.snapshot.current[id].revision \in Nat /\ current[id].revision \in Nat
      BY <3>1, <3>2 DEF IInv, Image, Tables, HistorySound, Revisions
    <3> QED
      BY <3>1, <3>2, <3>3
  <2>5. Ahead' /\ StoreInHand' /\ ReplyInHand' /\ AnswersFresh'
    BY <1>1, <1>2, <2>1, <2>2, <2>3
    DEF IInv, Ahead, StoreInHand, ReplyInHand, AnswersFresh
  <2>6. \A id \in DOMAIN acked' : acked'[id] \in Nat
    BY <2>1 DEF IInv
  <2> QED
    BY <1>2, <2>2, <2>4, <2>5, <2>6 DEF IInv
<1>5. CASE PersistConfirm
  <2>1. /\ cell' = cell /\ cell = pending /\ pending # Nothing /\ pending' = Nothing
        /\ reply' = NoReply /\ acked' = With(acked, reply.id, reply.revision)
    BY <1>5 DEF PersistConfirm, Register!Confirm
  <2>2. cell.snapshot.current = current
    BY <2>1 DEF IInv, StoreInHand, Snapshot
  <2>3. reply.id \in DOMAIN current /\ reply.revision = current[reply.id].revision
    BY <1>1 DEF IInv, ReplyInHand
  <2>4. reply.revision \in Nat
    BY <2>3 DEF IInv, Tables, HistorySound, Revisions
  <2>5. /\ DOMAIN acked' = DOMAIN acked \cup {reply.id}
        /\ acked'[reply.id] = reply.revision
        /\ \A id \in DOMAIN acked : id # reply.id => acked'[id] = acked[id]
    BY <2>1 DEF With
  <2>6. \A id \in DOMAIN acked' : acked'[id] \in Nat
    BY <2>4, <2>5 DEF IInv
  <2>7. AckedSurvives'
    BY <2>1, <2>2, <2>3, <2>4, <2>5 DEF IInv, AckedSurvives
  <2> QED
    BY <1>1, <1>2, <2>1, <2>6, <2>7 DEF IInv, Ahead, StoreInHand, ReplyInHand, AnswersFresh
<1>6. CASE PersistFail
  <2>1. /\ cell' = cell /\ pending' = Nothing /\ reply' = NoReply /\ acked' = acked
    BY <1>6 DEF PersistFail, Register!Abandon
  <2> QED
    BY <1>1, <1>2, <2>1
    DEF IInv, Ahead, StoreInHand, ReplyInHand, AckedSurvives, AnswersFresh
<1> QED
  BY <1>3, <1>4, <1>5, <1>6

(* The machine stops.                                                      *)
LEMMA CrashStep == ASSUME IInv, Crash PROVE IInv'
<1>1. /\ machine' = "down" /\ reply' = NoReply /\ pending' = Nothing /\ cell' = cell
      /\ objects' = objects /\ bitmap' = bitmap /\ index' = index
      /\ belongs' = belongs /\ current' = current /\ prior' = prior
      /\ next_ticks' = next_ticks /\ acked' = acked
  BY DEF Crash, memory, counters
<1>2. Tables'
  BY <1>1 DEF IInv, Tables
<1> QED
  BY <1>1, <1>2 DEF IInv, Ahead, StoreInHand, ReplyInHand, AckedSurvives, AnswersFresh

(* A boot rebuilds sound tables from what the register holds.              *)
LEMMA BootStep == ASSUME CapacityAssumption, IInv, Boot PROVE IInv'
<1> DEFINE s == IF cell = Nothing THEN SeededSnapshot ELSE cell.snapshot
<1>1. /\ RestoreFrom(s) /\ machine = "down" /\ reply' = reply /\ acked' = acked
      /\ cell' = cell /\ pending' = pending
  BY DEF Boot, register
<1>2. reply = NoReply /\ pending = Nothing
  BY <1>1 DEF IInv, ReplyInHand, StoreInHand
<1>3. Image(s) /\ (cell # Nothing => s = cell.snapshot)
  BY SeededSound DEF IInv
<1> HIDE DEF s
<1>4. /\ objects' = s.objects /\ bitmap' = s.bitmap
      /\ index' = Workspaces \cup Ids(s.objects) /\ belongs' = s.belongs
      /\ current' = s.current /\ prior' = s.prior /\ next_ticks' = 2
  BY <1>1 DEF RestoreFrom
<1>5. Tables' /\ next_ticks' \in Nat
  BY <1>3, <1>4 DEF Tables, Image
<1>6. Extends(s.current, s.current)
  BY <1>3, ExtendsItself DEF Image
<1>7. Ahead'
  BY <1>1, <1>3, <1>4, <1>6 DEF Ahead
<1> QED
  BY <1>1, <1>2, <1>5, <1>7
  DEF IInv, StoreInHand, ReplyInHand, AckedSurvives, AnswersFresh

-----------------------------------------------------------------------------
(* The first invariant is inductive *)

(* Every step of the service keeps the first invariant.                    *)
LEMMA StepPreserves ==
    ASSUME CapacityAssumption, IInv, [Next]_vars PROVE IInv'
<1>1. ASSUME NEW caller \in Callers, create_object(caller) PROVE IInv'
  BY <1>1, CreateObjectStep
<1>2. ASSUME NEW caller \in Callers, query_objects(caller) PROVE IInv'
  BY <1>2, AuthorityStep
<1>3. ASSUME NEW caller \in Callers, NEW id \in ObjectIds, revise_field(caller, id)
      PROVE  IInv'
  BY <1>3, ReviseStep
<1>4. ASSUME NEW caller \in Callers, NEW schema \in SchemaIds,
             create_package_defined_object(caller, schema)
      PROVE  IInv'
  BY <1>4, StagedCreateStep
<1>5. ASSUME NEW caller \in Runtimes, grant_workspace_capability(caller) PROVE IInv'
  BY <1>5, AuthorityStep
<1>6. ASSUME NEW caller \in Runtimes, NEW id \in SchemaIds, create_internal_object(caller, id)
      PROVE  IInv'
  BY <1>6, StagedCreateStep
<1>7. ASSUME NEW id \in TaskIds, create_task_service_object(id) PROVE IInv'
  BY <1>7, StagedCreateStep
<1>8. ASSUME NEW id \in TaskIds, revise_task_service_object(id) PROVE IInv'
  BY <1>8, ReviseStep
<1>9. CASE UNCHANGED vars
  BY <1>9, MemoryKept DEF vars, counters
<1> QED
  BY <1>1, <1>2, <1>3, <1>4, <1>5, <1>6, <1>7, <1>8, <1>9,
     PersistStep, CrashStep, BootStep DEF Next

(* A sound snapshot passes every check of restore_from_records.            *)
LEMMA ImageRestorable == ASSUME NEW s, Image(s) PROVE Restorable(s)
<1>1. s.bitmap \subseteq Blocks
  <2>1. \A i \in DOMAIN s.objects : s.objects[i] \in Records
    BY DEF Image, StoreSound
  <2> QED
    BY <2>1 DEF Image, StoreSound, Records
<1>2. DOMAIN s.belongs \subseteq Ids(s.objects)
  BY DEF Image, ListedIds, Ids
<1> QED
  BY <1>1, <1>2
  DEF Image, StoreSound, HistorySound, Restorable, ObjectsRestorable, RevisionsRestorable

(* What the first invariant says of the tables and the register.           *)
LEMMA InvariantSuffices ==
    ASSUME IInv
    PROVE  /\ TablesAgree /\ SnapshotRestorable /\ AckedSurvives
           /\ HistoryComplete /\ AnswersFresh
<1>1. TablesAgree
  BY DEF IInv, Tables, TablesAgree, HistorySound, ListedIds
<1>2. SnapshotRestorable
  BY ImageRestorable DEF IInv, SnapshotRestorable
<1>3. HistoryComplete
  BY DEF IInv, Tables, HistorySound, HistoryOf, Earlier, HistoryComplete
<1> QED
  BY <1>1, <1>2, <1>3 DEF IInv

-----------------------------------------------------------------------------
(* Types, capacities and authority *)

(* Every listed object belongs to one of the two workspaces *)
Placed(b) == \A id \in DOMAIN b : b[id] \in Workspaces

(* The prior-revision table is not overfull *)
Few(p) == IsFiniteSet(p) /\ Cardinality(p) <= MaxPrior

(* The capability table is not overfull *)
Rights(c) ==
    c \subseteq Capabilities /\ IsFiniteSet(c) /\ Cardinality(c) <= CapabilitySlots

(* NoForeignAuthority, of any tables *)
Proper(c, b) ==
    /\ c.holder \in {Shell} \cup Runtimes
    /\ c.resource # ShellWorkspace =>
          \/ c.resource \in SchemaIds
          \/ c.resource \in DOMAIN b /\ b[c.resource] = ShellWorkspace

AInv ==
    /\ machine \in {"up", "down", "panicked"}
    /\ Rights(capabilities)
    /\ \A c \in capabilities : Proper(c, belongs)
    /\ Placed(belongs)
    /\ Few(prior)
    /\ cell # Nothing => Placed(cell.snapshot.belongs) /\ Few(cell.snapshot.prior)
    /\ DOMAIN quotas \subseteq Services
    /\ next_note \in Nat
    /\ reply = NoReply \/ reply \in [id : ObjectIds, revision : Nat]

(* An entry of the capability table is what it was granted as.             *)
LEMMA EntryFields ==
    ASSUME NEW caller, NEW resource
    PROVE  /\ Entry(caller, resource).holder = caller
           /\ Entry(caller, resource).resource = resource
           /\ caller \in Services /\ resource \in ObjectIds \cup Workspaces =>
                 Entry(caller, resource) \in Capabilities
BY DEF Entry, Capabilities

(* The first n slots of a finite set of slots are at most n.               *)
LEMMA FirstBounded ==
    ASSUME NEW S \in SUBSET Nat, IsFiniteSet(S), NEW n \in Nat
    PROVE  IsFiniteSet(First(S, n)) /\ Cardinality(First(S, n)) <= n
<1> DEFINE upto(i) == {j \in S : j <= i}
           F == First(S, n)
           rank == [i \in F |-> Cardinality(upto(i))]
<1>1. \A i \in S : IsFiniteSet(upto(i)) /\ Cardinality(upto(i)) \in Nat
  <2> SUFFICES ASSUME NEW i \in S
               PROVE  IsFiniteSet(upto(i)) /\ Cardinality(upto(i)) \in Nat
    OBVIOUS
  <2>1. upto(i) \in SUBSET S
    OBVIOUS
  <2> HIDE DEF upto
  <2> QED
    BY <2>1, FS_Subset, FS_CardinalityType
<1>2. \A i \in S : Cardinality(upto(i)) # 0
  <2> SUFFICES ASSUME NEW i \in S PROVE Cardinality(upto(i)) # 0
    OBVIOUS
  <2>0. i \in Nat /\ i <= i
    OBVIOUS
  <2>1. i \in upto(i)
    BY <2>0
  <2>2. IsFiniteSet(upto(i))
    BY <1>1
  <2> HIDE DEF upto
  <2> QED
    BY <2>1, <2>2, FS_EmptySet
<1>3. \A i, j \in S : i < j => Cardinality(upto(i)) # Cardinality(upto(j))
  <2> SUFFICES ASSUME NEW i \in S, NEW j \in S, i < j
               PROVE  Cardinality(upto(i)) # Cardinality(upto(j))
    OBVIOUS
  <2>0. i \in Nat /\ j \in Nat /\ \A k \in S : k \in Nat
    OBVIOUS
  <2>1. j \in upto(j) /\ j \notin upto(i)
    BY <2>0
  <2>4. ASSUME NEW k \in S, k <= i PROVE k <= j
    BY <2>0, <2>4
  <2>5. upto(i) \in SUBSET upto(j)
    BY <2>4
  <2>2. IsFiniteSet(upto(j))
    BY <1>1
  <2> HIDE DEF upto
  <2>3. Cardinality(upto(j)) = Cardinality(upto(i)) => upto(j) = upto(i)
    BY <2>2, <2>5, FS_Subset
  <2> QED
    BY <2>1, <2>3
<1>4. F \subseteq S /\ \A i \in F : Cardinality(upto(i)) <= n
  BY DEF First
<1> HIDE DEF F, upto
<1>5. \A i \in F : rank[i] \in 1 .. n
  BY <1>1, <1>2, <1>4
<1>6. \A i, j \in F : rank[i] = rank[j] => i = j
  <2> SUFFICES ASSUME NEW i \in F, NEW j \in F, rank[i] = rank[j], i # j
               PROVE  FALSE
    OBVIOUS
  <2>1. i \in Nat /\ j \in Nat /\ i \in S /\ j \in S
    BY <1>4
  <2>2. i < j \/ j < i
    BY <2>1
  <2> QED
    BY <1>3, <2>1, <2>2
<1>7. rank \in Injection(F, 1 .. n)
  <2>1. rank \in [F -> 1 .. n]
    BY <1>5
  <2> QED
    BY <1>6, <2>1 DEF Injection, IsInjective
<1>8. IsFiniteSet(1 .. n) /\ Cardinality(1 .. n) = n
  BY FS_Interval
<1> HIDE DEF rank
<1>9. IsFiniteSet(F) /\ Cardinality(F) <= n
  BY <1>7, <1>8, FS_Injection
<1> QED
  BY <1>9 DEF F

(* grant: one more entry, when the table takes it.                         *)
LEMMA GrantKeeps ==
    ASSUME CapacityAssumption, Rights(capabilities),
           NEW caller \in Services, NEW id \in ObjectIds \cup Workspaces,
           CanGrant(caller, id)
    PROVE  Rights(Granted(caller, id))
<1>1. Entry(caller, id) \in Capabilities
  BY EntryFields
<1> DEFINE e == Entry(caller, id)
<1> HIDE DEF e
<1>2. Granted(caller, id) = capabilities \cup {e}
  BY DEF Granted, e
<1>3. IsFiniteSet(capabilities \cup {e})
  BY FS_AddElement DEF Rights
<1>4. Cardinality(capabilities \cup {e}) <= CapabilitySlots
  BY <1>2 DEF CanGrant
<1> QED
  BY <1>1, <1>2, <1>3, <1>4 DEF Rights, e

(* A prior revision more, when the table takes it.                         *)
LEMMA OneMorePrior ==
    ASSUME CapacityAssumption, Few(prior), Cardinality(prior) < MaxPrior, NEW x
    PROVE  Few(prior \cup {x})
<1>1. /\ IsFiniteSet(prior \cup {x}) /\ Cardinality(prior) \in Nat
      /\ Cardinality(prior \cup {x}) =
            IF x \in prior THEN Cardinality(prior) ELSE Cardinality(prior) + 1
  BY FS_AddElement, FS_CardinalityType DEF Few
<1> QED
  BY <1>1 DEF Few, CapacityAssumption

(* query_objects grants no more entries than there are slots, and only for *)
(* the notes of the shell workspace.                                       *)
LEMMA QueryKeeps ==
    ASSUME CapacityAssumption, Tables, Rights(capabilities), NEW caller \in Services
    PROVE  /\ Rights(QueryCapabilities(caller))
           /\ \A c \in QueryCapabilities(caller) :
                 \/ c \in capabilities
                 \/ /\ c.holder = caller
                    /\ c.resource \in DOMAIN belongs
                    /\ belongs[c.resource] = ShellWorkspace
<1> DEFINE results == First(Listed, MaxQueryResults)
           missing == {i \in results : ~Holds(caller, objects[i].id)}
           left == CapabilitySlots - Cardinality(capabilities)
           granted == First(missing, left)
           new == [i \in granted |-> Entry(caller, objects[i].id)]
           added == {Entry(caller, objects[i].id) : i \in granted}
<1>1. /\ objects \in Seq(Records) /\ Len(objects) \in Nat
      /\ DOMAIN objects = 1 .. Len(objects)
      /\ \A i \in DOMAIN objects : objects[i].id \in ObjectIds
  <2>1. objects \in Seq(Records)
    BY DEF Tables, StoreSound
  <2>2. \A i \in DOMAIN objects : objects[i] \in Records
    BY <2>1
  <2> QED
    BY <2>1, <2>2 DEF Records
<1>2. /\ granted \subseteq missing /\ missing \subseteq Listed
      /\ \A i \in Listed : /\ i \in DOMAIN objects /\ objects[i].id \in DOMAIN belongs
                           /\ belongs[objects[i].id] = ShellWorkspace
  BY DEF First, Listed
<1>3. IsFiniteSet(missing) /\ missing \in SUBSET Nat
  <2>1. IsFiniteSet(1 .. Len(objects))
    BY <1>1, FS_Interval
  <2>2. missing \in SUBSET (1 .. Len(objects))
    BY <1>1, <1>2
  <2> HIDE DEF missing
  <2>3. missing \in SUBSET Nat
    BY <1>1, <2>2
  <2> QED
    BY <2>1, <2>2, <2>3, FS_Subset
<1>4. /\ Cardinality(capabilities) \in Nat /\ IsFiniteSet(capabilities)
      /\ Cardinality(capabilities) <= CapabilitySlots
      /\ CapabilitySlots \in Nat /\ left \in Nat
  <2>1. IsFiniteSet(capabilities) /\ Cardinality(capabilities) <= CapabilitySlots
        /\ CapabilitySlots \in Nat
    BY DEF Rights, CapacityAssumption
  <2>2. Cardinality(capabilities) \in Nat
    BY <2>1, FS_CardinalityType
  <2> QED
    BY <2>1, <2>2
<1> HIDE DEF missing
<1>5. IsFiniteSet(granted) /\ Cardinality(granted) <= left
  <2> HIDE DEF left
  <2> QED
    BY <1>3, <1>4, FirstBounded
<1>6. new \in Surjection(granted, added)
  <2> HIDE DEF granted
  <2> QED
    BY DEF Surjection
<1> HIDE DEF new, granted
<1>7. IsFiniteSet(added) /\ Cardinality(added) <= Cardinality(granted)
  BY <1>5, <1>6, FS_Surjection
<1>8. \A c \in added : /\ c \in Capabilities /\ c.holder = caller
                       /\ c.resource \in DOMAIN belongs
                       /\ belongs[c.resource] = ShellWorkspace
  <2> SUFFICES ASSUME NEW i \in granted
               PROVE  LET c == Entry(caller, objects[i].id)
                      IN  /\ c \in Capabilities /\ c.holder = caller
                          /\ c.resource \in DOMAIN belongs
                          /\ belongs[c.resource] = ShellWorkspace
    OBVIOUS
  <2>1. /\ objects[i].id \in ObjectIds /\ objects[i].id \in DOMAIN belongs
        /\ belongs[objects[i].id] = ShellWorkspace
    BY <1>1, <1>2
  <2> QED
    BY <2>1, EntryFields
<1>9. QueryCapabilities(caller) = capabilities \cup added
  BY DEF QueryCapabilities, granted, missing
<1> HIDE DEF added
<1>10. /\ IsFiniteSet(capabilities \cup added)
       /\ Cardinality(capabilities \cup added) <= CapabilitySlots
  <2>1. /\ IsFiniteSet(capabilities \cup added)
        /\ Cardinality(capabilities \cup added) =
              Cardinality(capabilities) + Cardinality(added)
              - Cardinality(capabilities \cap added)
    BY <1>4, <1>7, FS_Union
  <2>2. IsFiniteSet(capabilities \cap added)
    BY <1>4, FS_Intersection
  <2>3. Cardinality(capabilities \cap added) \in Nat /\ Cardinality(added) \in Nat
        /\ Cardinality(granted) \in Nat
    BY <1>5, <1>7, <2>2, FS_CardinalityType
  <2> QED
    BY <1>4, <1>5, <1>7, <2>1, <2>3
<1>11. Rights(capabilities \cup added)
  BY <1>8, <1>10 DEF Rights
<1> QED
  BY <1>8, <1>9, <1>11

(* The note counter of a snapshot is a number.                             *)
LEMMA NoteCounter ==
    ASSUME IdAssumption, NEW s
    PROVE  next_shell_note_id(s) \in Nat
<1> DEFINE used == Ids(s.objects) \cap NoteIds
           gaps == {LastNote - n : n \in used}
<1>1. used \subseteq Nat /\ \A n \in used : n <= LastNote
  BY DEF NoteIds, FirstNote, IdAssumption
<1>2. ASSUME used # {}
      PROVE  \E n \in used : \A m \in used : m <= n
  <2> HIDE DEF used
  <2>6. ASSUME NEW n \in used PROVE LastNote - n \in Nat
    BY <1>1, <2>6 DEF IdAssumption
  <2>1. gaps \subseteq Nat /\ gaps # {}
    BY <1>2, <2>6
  <2>2. PICK g \in gaps : \A h \in gaps : ~(<<h, g>> \in OpToRel(<, Nat))
    <3> HIDE DEF gaps
    <3> QED
      BY <2>1, NatLessThanWellFounded, WFMin
  <2>3. \A h \in gaps : ~(h < g)
    BY <2>1, <2>2 DEF OpToRel
  <2>4. PICK n \in used : g = LastNote - n
    OBVIOUS
  <2>5. ASSUME NEW m \in used PROVE m <= n
    BY <1>1, <2>3, <2>4 DEF IdAssumption
  <2> QED
    BY <2>5
<1>3. CASE used = {}
  BY <1>3 DEF next_shell_note_id, FirstNote
<1>4. CASE used # {}
  <2> DEFINE top == CHOOSE n \in used : \A m \in used : m <= n
  <2>1. top \in used
    BY <1>2, <1>4
  <2>2. next_shell_note_id(s) = 1 + top
    BY <1>4 DEF next_shell_note_id
  <2> QED
    BY <1>1, <2>1, <2>2
<1> QED
  BY <1>3, <1>4

(* Registering and charging a service keeps the table to known services.   *)
LEMMA QuotasKept ==
    ASSUME DOMAIN quotas \subseteq Services, NEW service \in Services
    PROVE  /\ DOMAIN Ensured(service) \subseteq Services
           /\ DOMAIN Charged(Ensured(service), service) \subseteq Services
           /\ DOMAIN Charged(quotas, service) \subseteq Services
           /\ DOMAIN With(quotas, service, NewQuota(MaxQueryResults)) \subseteq Services
<1>1. DOMAIN Ensured(service) \subseteq Services
  BY DEF Ensured, With
<1> QED
  BY <1>1 DEF Charged, With

(* A caller that holds the shell workspace is the shell or a runtime.      *)
LEMMA HolderKnown ==
    ASSUME AInv, NEW caller, Holds(caller, ShellWorkspace)
    PROVE  caller \in {Shell} \cup Runtimes
BY EntryFields DEF AInv, Holds, Proper

(* A wider list of shell objects keeps every entry proper.                 *)
LEMMA ProperKept ==
    ASSUME NEW b, NEW id, NEW c, Proper(c, b)
    PROVE  Proper(c, With(b, id, ShellWorkspace))
BY DEF Proper, With

(* The entry a create grants is proper: the object is in the shell         *)
(* workspace, or a schema the caller installs.                             *)
LEMMA CreateKeeps ==
    ASSUME CapacityAssumption, AInv, NEW caller \in Services, NEW id \in ObjectIds,
           NEW kind, NEW related \in BOOLEAN, related \/ id \in SchemaIds,
           CreateStages(id, kind, TRUE, related, TRUE),
           UNCHANGED <<machine, register>>,
           DOMAIN quotas' \subseteq Services, next_note' \in Nat,
           \/ capabilities' = capabilities
           \/ /\ caller \in {Shell} \cup Runtimes /\ CanGrant(caller, id)
              /\ capabilities' = Granted(caller, id),
           reply' \in {NoReply, [id |-> id, revision |-> 1]}
    PROVE  AInv'
<1>1. /\ prior' = prior /\ machine' = machine /\ cell' = cell
      /\ belongs' = IF related THEN With(belongs, id, ShellWorkspace) ELSE belongs
  BY DEF CreateStages, register
<1>2. Placed(belongs')
  BY <1>1 DEF With, AInv, Placed, Workspaces
<1>3. \A c \in capabilities : Proper(c, belongs')
  BY <1>1, ProperKept DEF AInv
<1>4. Rights(capabilities') /\ \A c \in capabilities' : Proper(c, belongs')
  <2>1. CASE capabilities' = capabilities
    BY <1>3, <2>1 DEF AInv
  <2>2. CASE /\ caller \in {Shell} \cup Runtimes /\ CanGrant(caller, id)
             /\ capabilities' = Granted(caller, id)
    <3>1. Rights(capabilities)
      BY DEF AInv
    <3>2. Rights(capabilities')
      BY <2>2, <3>1, GrantKeeps
    <3>3. id \in SchemaIds \/ (id \in DOMAIN belongs' /\ belongs'[id] = ShellWorkspace)
      BY <1>1 DEF With
    <3>4. Proper(Entry(caller, id), belongs')
      BY <2>2, <3>3, EntryFields DEF Proper
    <3> QED
      BY <1>3, <2>2, <3>2, <3>4 DEF Granted
  <2> QED
    BY <2>1, <2>2
<1>5. reply' = NoReply \/ reply' \in [id : ObjectIds, revision : Nat]
  OBVIOUS
<1> QED
  BY <1>1, <1>2, <1>4, <1>5 DEF AInv

(* create_object.                                                          *)
LEMMA CreateObjectKeeps ==
    ASSUME CapacityAssumption, IInv, AInv, NEW caller \in Callers, create_object(caller)
    PROVE  AInv'
<1> DEFINE id == next_note
           stored == CanStore(id) /\ CanIndex(id)
           related == stored /\ CanRelate(id)
           recorded == related /\ CanRecord(id)
           granted == recorded /\ CanGrant(caller, id)
<1>1. /\ id \in ObjectIds /\ CreateStages(id, "Note", stored, related, recorded)
      /\ Holds(caller, ShellWorkspace) /\ Ready
      /\ next_note' = next_note + 1
      /\ quotas' = IF stored THEN Charged(quotas, caller) ELSE quotas
      /\ capabilities' = IF granted THEN Granted(caller, id) ELSE capabilities
      /\ reply' = IF granted THEN [id |-> id, revision |-> 1] ELSE NoReply
      /\ UNCHANGED <<machine, register, acked>>
  BY DEF create_object, ObjectIds
<1>2. caller \in Services /\ caller \in {Shell} \cup Runtimes
  BY <1>1, HolderKnown DEF Services
<1>3. next_note' \in Nat /\ DOMAIN quotas' \subseteq Services
  BY <1>1, <1>2, QuotasKept DEF AInv
<1>4. CASE stored
  <2>1. related /\ recorded
    BY <1>4, CreateComplete DEF IInv
  <2>2. CreateStages(id, "Note", TRUE, TRUE, TRUE)
    BY <1>1, <1>4, <2>1 DEF CreateStages
  <2>3. \/ capabilities' = capabilities
        \/ /\ caller \in {Shell} \cup Runtimes /\ CanGrant(caller, id)
           /\ capabilities' = Granted(caller, id)
    BY <1>1, <1>2
  <2>4. reply' \in {NoReply, [id |-> id, revision |-> 1]} /\ UNCHANGED <<machine, register>>
    BY <1>1
  <2> HIDE DEF stored, related, recorded, granted
  <2> QED
    BY <1>1, <1>2, <1>3, <2>2, <2>3, <2>4, CreateKeeps
<1>5. CASE ~stored
  <2>1. belongs' = belongs /\ prior' = prior /\ capabilities' = capabilities
        /\ reply' = NoReply /\ machine' = machine /\ cell' = cell
    BY <1>1, <1>5 DEF CreateStages, register
  <2> QED
    BY <1>3, <2>1 DEF AInv
<1> QED
  BY <1>4, <1>5

(* create_package_defined_object.                                          *)
LEMMA CreatePackageKeeps ==
    ASSUME CapacityAssumption, AInv, NEW caller \in Callers, NEW schema,
           create_package_defined_object(caller, schema)
    PROVE  AInv'
<1>1. /\ next_note \in ObjectIds
      /\ CreateStages(next_note, "PackageDefined", TRUE, TRUE, TRUE)
      /\ Holds(caller, ShellWorkspace) /\ CanGrant(caller, next_note)
      /\ next_note' = next_note + 1
      /\ quotas' = Charged(Ensured(caller), caller)
      /\ capabilities' = Granted(caller, next_note)
      /\ reply' = [id |-> next_note, revision |-> 1]
      /\ UNCHANGED <<machine, register>>
  BY DEF create_package_defined_object, ObjectIds
<1>2. caller \in Services /\ caller \in {Shell} \cup Runtimes
  BY <1>1, HolderKnown DEF Services
<1>3. next_note' \in Nat /\ DOMAIN quotas' \subseteq Services
  BY <1>1, <1>2, QuotasKept DEF AInv
<1> QED
  BY <1>1, <1>2, <1>3, CreateKeeps

(* create_schema_definition_object.                                        *)
LEMMA CreateSchemaKeeps ==
    ASSUME CapacityAssumption, IInv, AInv, NEW caller \in Runtimes, NEW id \in SchemaIds,
           create_internal_object(caller, id)
    PROVE  AInv'
<1>1. /\ id \in ObjectIds /\ caller \in Services /\ caller \in {Shell} \cup Runtimes
      /\ CreateStages(id, "SchemaDefinition", TRUE, FALSE, TRUE)
      /\ CanGrant(caller, id)
      /\ next_note' = next_note
      /\ quotas' = Charged(Ensured(caller), caller)
      /\ capabilities' = Granted(caller, id)
      /\ reply' = NoReply
      /\ UNCHANGED <<machine, register>>
  BY DEF create_internal_object, ObjectIds, Ready, Services
<1>2. next_note' \in Nat /\ DOMAIN quotas' \subseteq Services
  BY <1>1, QuotasKept DEF AInv
<1> QED
  BY <1>1, <1>2, CreateKeeps

(* create_task_service_object.                                             *)
LEMMA CreateTaskKeeps ==
    ASSUME CapacityAssumption, AInv, NEW id \in TaskIds, create_task_service_object(id)
    PROVE  AInv'
<1>1. /\ id \in ObjectIds /\ TaskStorage \in Services
      /\ CreateStages(id, "Task", TRUE, TRUE, TRUE)
      /\ next_note' = next_note
      /\ quotas' = Charged(Ensured(TaskStorage), TaskStorage)
      /\ capabilities' = capabilities
      /\ reply' = [id |-> id, revision |-> 1]
      /\ UNCHANGED <<machine, register>>
  BY DEF create_task_service_object, ObjectIds, Services
<1>2. next_note' \in Nat /\ DOMAIN quotas' \subseteq Services
  BY <1>1, QuotasKept DEF AInv
<1> QED
  BY <1>1, <1>2, CreateKeeps

(* revise_field and revise_task_service_object.                            *)
LEMMA ReviseKeeps ==
    ASSUME CapacityAssumption, IInv, AInv, NEW caller, NEW id,
           revise_field(caller, id) \/ revise_task_service_object(id)
    PROVE  AInv'
<1>1. /\ id \in DOMAIN current /\ Revise(id, FALSE)
      /\ machine' = machine /\ belongs' = belongs /\ capabilities' = capabilities
      /\ quotas' = quotas /\ next_note' = next_note /\ cell' = cell
  BY DEF revise_field, revise_task_service_object, authority, register
<1>2. PICK x : prior' = prior \cup {x}
  BY <1>1 DEF Revise
<1>3. Cardinality(prior) < MaxPrior
  BY <1>1 DEF Revise
<1>4. Few(prior')
  BY <1>2, <1>3, OneMorePrior DEF AInv
<1>5. reply' = [id |-> id, revision |-> current[id].revision + 1]
  BY <1>1 DEF Revise
<1>6. id \in ObjectIds
  <2>1. \A i \in DOMAIN objects : objects[i] \in Records
    BY DEF IInv, Tables, StoreSound
  <2> QED
    BY <1>1, <2>1 DEF IInv, Tables, HistorySound, Ids, Records
<1>7. current[id].revision + 1 \in Nat
  BY <1>1 DEF IInv, Tables, HistorySound, Revisions
<1>8. reply' \in [id : ObjectIds, revision : Nat]
  BY <1>5, <1>6, <1>7
<1> QED
  BY <1>1, <1>4, <1>8 DEF AInv

(* query_objects and grant_workspace_capability.                           *)
LEMMA AuthorityKeeps ==
    ASSUME CapacityAssumption, IInv, AInv, NEW caller,
           \/ caller \in Callers /\ query_objects(caller)
           \/ caller \in Runtimes /\ grant_workspace_capability(caller)
    PROVE  AInv'
<1>1. /\ machine' = machine /\ belongs' = belongs /\ prior' = prior /\ cell' = cell
      /\ next_note' = next_note /\ reply' = reply /\ caller \in Services
  BY DEF query_objects, grant_workspace_capability, memory, counters, register,
         Services, Callers
<1>2. CASE caller \in Callers /\ query_objects(caller)
  <2>1. /\ capabilities' = QueryCapabilities(caller) /\ quotas' = quotas
        /\ Holds(caller, ShellWorkspace)
    BY <1>2 DEF query_objects
  <2>2. caller \in {Shell} \cup Runtimes
    BY <2>1, HolderKnown
  <2>3. Tables /\ Rights(capabilities)
    BY DEF IInv, AInv
  <2>4. /\ Rights(capabilities')
        /\ \A c \in capabilities' : \/ c \in capabilities
                                    \/ /\ c.holder = caller
                                       /\ c.resource \in DOMAIN belongs
                                       /\ belongs[c.resource] = ShellWorkspace
    BY <1>1, <2>1, <2>3, QueryKeeps
  <2>5. \A c \in capabilities' : Proper(c, belongs)
    BY <2>2, <2>4 DEF AInv, Proper
  <2> QED
    BY <1>1, <2>1, <2>4, <2>5 DEF AInv
<1>3. CASE caller \in Runtimes /\ grant_workspace_capability(caller)
  <2>1. /\ quotas' = IF caller \in DOMAIN quotas THEN quotas
                     ELSE With(quotas, caller, NewQuota(MaxQueryResults))
        /\ capabilities' = IF CanGrant(caller, ShellWorkspace)
                           THEN Granted(caller, ShellWorkspace) ELSE capabilities
    BY <1>3 DEF grant_workspace_capability
  <2>2. DOMAIN quotas' \subseteq Services
    BY <1>1, <2>1, QuotasKept DEF AInv
  <2>3. ShellWorkspace \in ObjectIds \cup Workspaces
    BY DEF Workspaces
  <2>4. Rights(capabilities')
    BY <1>1, <2>1, <2>3, GrantKeeps DEF AInv
  <2>5. Proper(Entry(caller, ShellWorkspace), belongs)
    BY <1>3, EntryFields DEF Proper
  <2>6. \A c \in capabilities' : Proper(c, belongs)
    BY <2>1, <2>5 DEF AInv, Granted
  <2> QED
    BY <1>1, <2>2, <2>4, <2>6 DEF AInv
<1> QED
  BY <1>2, <1>3

(* A store writes tables within their capacity.                            *)
LEMMA PersistKeeps ==
    ASSUME IInv, AInv, PersistBegin \/ PersistInstall \/ PersistConfirm \/ PersistFail
    PROVE  AInv'
<1>1. /\ machine' = machine /\ belongs' = belongs /\ prior' = prior
      /\ capabilities' = capabilities /\ quotas' = quotas /\ next_note' = next_note
      /\ (reply' = reply \/ reply' = NoReply)
  BY DEF PersistBegin, PersistInstall, PersistConfirm, PersistFail, memory, authority,
         counters
<1>2. cell' = cell \/ (cell' = pending /\ pending # Nothing)
  BY DEF PersistBegin, PersistInstall, PersistConfirm, PersistFail,
         Register!Begin, Register!Install, Register!Confirm, Register!Abandon
<1>3. Snapshot.prior = prior /\ Placed(Snapshot.belongs)
  BY DEF Snapshot, AInv, Placed
<1>4. cell' # Nothing => Placed(cell'.snapshot.belongs) /\ Few(cell'.snapshot.prior)
  BY <1>2, <1>3 DEF IInv, StoreInHand, AInv
<1> QED
  BY <1>1, <1>4 DEF AInv

(* The machine stops.                                                      *)
LEMMA CrashKeeps == ASSUME AInv, Crash PROVE AInv'
BY DEF AInv, Crash, memory, authority, counters

(* A boot starts over with the one entry of the shell.                     *)
LEMMA SeededKeeps ==
    ASSUME CapacityAssumption, NEW b
    PROVE  /\ Rights(SeededCapabilities) /\ \A c \in SeededCapabilities : Proper(c, b)
           /\ DOMAIN SeededQuotas \subseteq Services
           /\ Placed(SeededSnapshot.belongs) /\ Few(SeededSnapshot.prior)
<1>1. Entry(Shell, ShellWorkspace) \in Capabilities /\ Proper(Entry(Shell, ShellWorkspace), b)
  BY EntryFields DEF Services, Workspaces, Proper
<1>2. IsFiniteSet(SeededCapabilities) /\ Cardinality(SeededCapabilities) = 1
  BY FS_Singleton DEF SeededCapabilities
<1>3. Rights(SeededCapabilities)
  BY <1>1, <1>2 DEF Rights, SeededCapabilities, CapacityAssumption
<1>4. Placed(SeededSnapshot.belongs)
  BY DEF Placed, SeededSnapshot, Workspaces
<1>5. Few(SeededSnapshot.prior)
  BY FS_EmptySet DEF Few, SeededSnapshot, CapacityAssumption
<1> QED
  BY <1>1, <1>3, <1>4, <1>5 DEF SeededCapabilities, SeededQuotas, Services

(* A boot: the tables of the register, the authority of a first boot.      *)
LEMMA BootKeeps == ASSUME CapacityAssumption, IdAssumption, AInv, Boot PROVE AInv'
<1> DEFINE s == IF cell = Nothing THEN SeededSnapshot ELSE cell.snapshot
<1>1. /\ RestoreFrom(s) /\ machine' \in {"up", "panicked"} /\ reply' = reply /\ cell' = cell
  BY DEF Boot, register
<1>2. Placed(s.belongs) /\ Few(s.prior)
  BY SeededKeeps DEF AInv
<1> HIDE DEF s
<1>3. /\ belongs' = s.belongs /\ prior' = s.prior /\ capabilities' = SeededCapabilities
      /\ quotas' = SeededQuotas /\ next_note' = next_shell_note_id(s)
  BY <1>1 DEF RestoreFrom
<1>4. next_note' \in Nat
  BY <1>3, NoteCounter
<1>5. /\ Rights(capabilities') /\ \A c \in capabilities' : Proper(c, belongs')
      /\ DOMAIN quotas' \subseteq Services
  BY <1>3, SeededKeeps
<1> QED
  BY <1>1, <1>2, <1>3, <1>4, <1>5 DEF AInv

(* A first boot.                                                           *)
LEMMA InitKeeps == ASSUME CapacityAssumption, Init PROVE AInv
<1>1. /\ Rights(capabilities) /\ \A c \in capabilities : Proper(c, belongs)
      /\ DOMAIN quotas \subseteq Services /\ Placed(belongs) /\ Few(prior)
  BY SeededKeeps DEF Init, SeededSnapshot
<1> QED
  BY <1>1 DEF Init, AInv, FirstNote

(* Every step keeps the second invariant.                                  *)
LEMMA StepKeeps ==
    ASSUME CapacityAssumption, IdAssumption, IInv, AInv, [Next]_vars PROVE AInv'
<1>1. ASSUME NEW caller \in Callers, create_object(caller) PROVE AInv'
  BY <1>1, CreateObjectKeeps
<1>2. ASSUME NEW caller \in Callers, query_objects(caller) PROVE AInv'
  BY <1>2, AuthorityKeeps
<1>3. ASSUME NEW caller \in Callers, NEW id \in ObjectIds, revise_field(caller, id)
      PROVE  AInv'
  BY <1>3, ReviseKeeps
<1>4. ASSUME NEW caller \in Callers, NEW schema \in SchemaIds,
             create_package_defined_object(caller, schema)
      PROVE  AInv'
  BY <1>4, CreatePackageKeeps
<1>5. ASSUME NEW caller \in Runtimes, grant_workspace_capability(caller) PROVE AInv'
  BY <1>5, AuthorityKeeps
<1>6. ASSUME NEW caller \in Runtimes, NEW id \in SchemaIds, create_internal_object(caller, id)
      PROVE  AInv'
  BY <1>6, CreateSchemaKeeps
<1>7. ASSUME NEW id \in TaskIds, create_task_service_object(id) PROVE AInv'
  BY <1>7, CreateTaskKeeps
<1>8. ASSUME NEW id \in TaskIds, revise_task_service_object(id) PROVE AInv'
  BY <1>8, ReviseKeeps
<1>9. CASE UNCHANGED vars
  BY <1>9 DEF AInv, vars, memory, authority, counters, register
<1> QED
  BY <1>1, <1>2, <1>3, <1>4, <1>5, <1>6, <1>7, <1>8, <1>9,
     PersistKeeps, CrashKeeps, BootKeeps DEF Next

(* The two invariants give every property of the run.                      *)
LEMMA AuthoritySuffices ==
    ASSUME IInv, AInv PROVE TypeOK /\ NoForeignAuthority
<1>1. NoForeignAuthority
  BY DEF AInv, Proper, NoForeignAuthority
<1>2. \A i \in DOMAIN objects : objects[i] \in Records
  BY DEF IInv, Tables, StoreSound
<1>3. bitmap \subseteq Blocks /\ Ids(objects) \subseteq ObjectIds
  BY <1>2 DEF IInv, Tables, StoreSound, Records, Ids
<1>4. ListedIds(objects) \subseteq Ids(objects)
  BY DEF ListedIds, Ids
<1>5. /\ index \subseteq ObjectIds \cup Workspaces
      /\ DOMAIN belongs \subseteq ObjectIds /\ DOMAIN current \subseteq ObjectIds
  BY <1>3, <1>4 DEF IInv, Tables, HistorySound
<1>6. /\ objects \in Seq(Records) /\ prior \subseteq Priors
      /\ \A id \in DOMAIN current : current[id] \in Revisions
  BY DEF IInv, Tables, StoreSound, HistorySound
<1>7. TypeOK
  BY <1>3, <1>5, <1>6 DEF IInv, AInv, TypeOK, Rights, Placed, Few, Priors
<1> QED
  BY <1>1, <1>7

-----------------------------------------------------------------------------
(* Both invariants, and the theorem *)

Inv == IInv /\ AInv

(* A first boot.                                                           *)
LEMMA Initial == ASSUME CapacityAssumption, Init PROVE Inv
BY InitEstablishes, InitKeeps DEF Inv

(* Every step keeps both invariants.                                       *)
LEMMA Step == ASSUME CapacityAssumption, IdAssumption, Inv, [Next]_vars PROVE Inv'
BY StepPreserves, StepKeeps DEF Inv

(* The two give every safety property of the service.                      *)
LEMMA Consequences ==
    ASSUME Inv
    PROVE  /\ TypeOK /\ TablesAgree /\ SnapshotRestorable /\ AckedSurvives
           /\ HistoryComplete /\ NoForeignAuthority /\ AnswersFresh
BY InvariantSuffices, AuthoritySuffices DEF Inv

(* Whatever calls, failed stores, crashes and reboots happen, in any order *)
(* and for any ids and capacities: no table overflows; the four tables of  *)
(* the service name the same objects, so that no create_object stops half  *)
(* way; what the checkpoint holds passes every check of the restore; every *)
(* answered revision is in it; the history of every object is whole; no    *)
(* one but the shell and the graph runtimes ever holds a capability, and   *)
(* never on the note of the external workspace; and no answer repeats a    *)
(* revision a caller was already told.                                     *)
THEOREM ServiceDurable ==
    ASSUME CapacityAssumption, IdAssumption
    PROVE  Spec => [](/\ TypeOK /\ TablesAgree /\ SnapshotRestorable /\ AckedSurvives
                      /\ HistoryComplete /\ NoForeignAuthority /\ AnswersFresh)
<1>1. Init => Inv
  BY Initial
<1>2. Inv /\ [Next]_vars => Inv'
  BY Step
<1>3. Inv => /\ TypeOK /\ TablesAgree /\ SnapshotRestorable /\ AckedSurvives
             /\ HistoryComplete /\ NoForeignAuthority /\ AnswersFresh
  BY Consequences
<1> QED
  BY <1>1, <1>2, <1>3, PTL DEF Spec
=============================================================================

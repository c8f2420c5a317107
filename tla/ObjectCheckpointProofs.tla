----------------------- MODULE ObjectCheckpointProofs -----------------------
(***************************************************************************)
(* Proofs about ObjectCheckpoint for every number of table sectors, every  *)
(* table contents and a device that may lose one write per operation.      *)
(***************************************************************************)
EXTENDS ObjectCheckpoint, TLAPS

Other(s) == IF s = "A" THEN "B" ELSE "A"

(* A header found in a slot was written for that slot, and for an ordinary *)
(* or candidate slot under a generation of that slot's parity.             *)
InPlace(s, header) ==
    header.ok =>
        /\ header.slot = s
        /\ header.generation # 0
        /\ s \in OrdinarySlots => slot_for_generation(header.generation) = s
        /\ s \in CandidateSlots => candidate_slot_for_generation(header.generation) = s

HeadersInPlace(d) == \A s \in Slots : InPlace(s, d[s].header)

(* Every sector already written holds what the writer put there, but for   *)
(* the one write the device may have lost.                                 *)
Account(w, image) ==
    /\ w.lost = Unlost \/ w.lost < w.step
    /\ w.step \in 1 .. CommitStep /\ w.lost # 0 => image.commit = NoSector
    /\ \A i \in Tables : i < w.step /\ w.lost # i
          => image.tables[i] = w.snapshot[i]
    /\ w.step > HeaderStep /\ w.lost # HeaderStep
          => image.header = HeaderOf(w)
    /\ w.step = VerifyStep
          => image.commit = IF w.lost = CommitStep
                            THEN NoSector ELSE CommitOf(w)

WrittenSoFar == writer.active => Account(writer, disk[writer.slot])

(* The writer works in the slot its generation selects, and an ordinary    *)
(* writer leaves the slot of the generation before its own alone.          *)
WriterPlaced ==
    writer.active =>
        /\ writer.generation # 0
        /\ writer.slot \in OrdinarySlots =>
              /\ writer.slot = slot_for_generation(writer.generation)
              /\ decode_ordinary_slot(disk[Other(writer.slot)]).generation + 1
                    = writer.generation
              /\ acked.generation < writer.generation
              /\ acked.generation + 1 = writer.generation
                    => acked = decode_ordinary_slot(disk[Other(writer.slot)])
        /\ writer.slot \in CandidateSlots =>
              /\ writer.slot = candidate_slot_for_generation(writer.generation)
              /\ ackedCandidate[writer.slot] = Absent

CandidatesKept(d) ==
    \A s \in CandidateSlots :
        ackedCandidate[s] # Absent => decode_candidate_slot(d[s]) = ackedCandidate[s]

Recovers(d, a) ==
    /\ Restored(d).generation >= a.generation
    /\ Restored(d).generation = a.generation => Restored(d) = a

IInv == /\ TypeOK
        /\ HeadersInPlace(disk)
        /\ WrittenSoFar
        /\ WriterPlaced
        /\ Recovers(disk, acked)
        /\ CandidatesKept(disk)

-----------------------------------------------------------------------------
(* Slots, images and what they decode to *)

(* The value that stands for no checkpoint has the type of one. *)
LEMMA AbsentType == Absent \in Checkpoints /\ Absent.generation = 0
  BY DataAssumption DEF Absent, Checkpoints, Snapshots

(* The initial sectors and the ones an interrupted write leaves are typed. *)
LEMMA EmptyTypes == NoHeader \in Headers /\ NoSector \in Sectors
  BY DataAssumption DEF NoHeader, NoSector, Headers, Sectors, Snapshots,
                        Slots, OrdinarySlots

(* Decoding any image yields a checkpoint or Absent. *)
LEMMA DecodeType ==
  ASSUME NEW image \in Images
  PROVE  /\ decode_ordinary_slot(image) \in Checkpoints
         /\ decode_candidate_slot(image) \in Checkpoints
  BY AbsentType DEF decode_ordinary_slot, decode_candidate_slot, Decodes,
                    Images, Headers, Checkpoints

(* Recovery yields a checkpoint or Absent. *)
LEMMA RestoredType ==
  ASSUME NEW d \in [Slots -> Images]
  PROVE  Restored(d) \in Checkpoints
  <1>1. d["A"] \in Images /\ d["B"] \in Images
    BY DEF Slots, OrdinarySlots
  <1>2. QED
    BY <1>1, DecodeType DEF Restored, select_highest_generation

(* Every outcome of a sector write, finished or not, is an image. *)
LEMMA ImageTypes ==
  ASSUME NEW image \in Images, NEW w \in Writers
  PROVE  Written(image, w) \in Images /\ Shredded(image, w) \in Images
  <1>1. HeaderOf(w) \in Headers /\ CommitOf(w) \in Sectors
    BY DEF HeaderOf, CommitOf, Headers, Sectors, Writers
  <1>2. \A h \in Headers : [image EXCEPT !.header = h] \in Images
    BY DEF Images
  <1>3. \A c \in Sectors : [image EXCEPT !.commit = c] \in Images
    BY DEF Images
  <1>4. \A i \in Tables, v \in TableData \cup {Torn} :
            [image EXCEPT !.tables[i] = v] \in Images
    BY DEF Images
  <1>5. \A i \in Tables : w.snapshot[i] \in TableData
    BY DEF Writers, Snapshots
  <1>6. Written(image, w) \in Images
    BY <1>1, <1>2, <1>3, <1>4, <1>5, EmptyTypes DEF Written
  <1>7. Shredded(image, w) \in Images
    BY <1>2, <1>3, <1>4, EmptyTypes DEF Shredded
  <1>8. QED
    BY <1>6, <1>7

(* A sector write leaves the header it found, its own, or none. *)
LEMMA ImageHeaders ==
  ASSUME NEW image \in Images, NEW w \in Writers
  PROVE  \A new \in Interrupted(image, w) :
            new.header \in {image.header, HeaderOf(w), NoHeader}
  <1>1. Written(image, w).header \in {image.header, HeaderOf(w)}
    BY DEF Written, Images
  <1>2. Shredded(image, w).header \in {image.header, NoHeader}
    BY DEF Shredded, Images
  <1>3. QED
    BY <1>1, <1>2 DEF Interrupted

-----------------------------------------------------------------------------
(* Types *)

(* The initial state is typed. *)
LEMMA InitTypeOK == Init => TypeOK
  <1> SUFFICES ASSUME Init PROVE TypeOK
    OBVIOUS
  <1>2. disk \in [Slots -> Images]
    BY EmptyTypes, DataAssumption DEF Init, Images
  <1>3. writer \in Writers
    BY TableCountAssumption, DataAssumption
    DEF Init, Idle, Writers, Snapshots, Slots, OrdinarySlots, Unlost, VerifyStep
  <1>4. QED
    BY <1>2, <1>3, AbsentType DEF Init, TypeOK

(* The writer left behind by a finished, failed or cut-off operation. *)
LEMMA IdleType == Idle \in Writers
  BY TableCountAssumption, DataAssumption
  DEF Idle, Writers, Snapshots, Slots, OrdinarySlots, Unlost, VerifyStep

(* A slot chosen by parity is a slot of the right kind. *)
LEMMA SlotTypes ==
  ASSUME NEW g \in Nat
  PROVE  /\ slot_for_generation(g) \in OrdinarySlots
         /\ candidate_slot_for_generation(g) \in CandidateSlots
  BY DEF slot_for_generation, candidate_slot_for_generation, OrdinarySlots,
         CandidateSlots

(* A freshly begun writer is typed. *)
LEMMA StartType ==
  ASSUME NEW s \in Slots, NEW g \in Nat, NEW c \in Snapshots
  PROVE  Start(s, g, c) \in Writers
  BY TableCountAssumption DEF Start, Writers, Unlost, VerifyStep

(* Every step of the model keeps the types. *)
LEMMA NextTypeOK == TypeOK /\ [Next]_vars => TypeOK'
  <1> SUFFICES ASSUME TypeOK, [Next]_vars PROVE TypeOK'
    OBVIOUS
  <1> USE DEF TypeOK
  <1>1. ASSUME NEW snapshot \in Snapshots, BeginCheckpoint(snapshot)
        PROVE  TypeOK'
    <2>1. Restored(disk).generation + 1 \in Nat
      BY RestoredType DEF Checkpoints
    <2>2. writer' \in Writers
      BY <1>1, <2>1, SlotTypes, StartType DEF BeginCheckpoint, Slots
    <2>3. QED
      BY <1>1, <2>2 DEF BeginCheckpoint
  <1>2. ASSUME NEW generation \in CandidateGenerations,
               NEW snapshot \in Snapshots,
               BeginCandidate(generation, snapshot)
        PROVE  TypeOK'
    <2>1. generation \in Nat
      BY CandidateGenerationsAssumption
    <2>2. writer' \in Writers
      BY <1>2, <2>1, SlotTypes, StartType DEF BeginCandidate, Slots
    <2>3. ackedCandidate' \in [CandidateSlots -> Checkpoints]
      BY <1>2, AbsentType DEF BeginCandidate
    <2>4. QED
      BY <1>2, <2>2, <2>3 DEF BeginCandidate
  <1>3. CASE WriteSector
    <2>1. disk[writer.slot] \in Images
      BY DEF Writers
    <2>2. disk' \in [Slots -> Images]
      BY <1>3, <2>1, ImageTypes DEF WriteSector
    <2>3. writer' \in Writers
      BY <1>3, TableCountAssumption DEF WriteSector, Writers, VerifyStep
    <2>4. QED
      BY <1>3, <2>2, <2>3 DEF WriteSector
  <1>4. CASE LoseSector
    <2>1. writer.step + 1 \in 0 .. VerifyStep /\ writer.step \in 0 .. Unlost
      BY <1>4, TableCountAssumption DEF LoseSector, Writers, VerifyStep, Unlost
    <2>2. writer' \in Writers
      BY <1>4, <2>1 DEF LoseSector, Writers
    <2>3. QED
      BY <1>4, <2>2 DEF LoseSector
  <1>5. CASE FailSector
    <2>1. disk[writer.slot] \in Images
      BY DEF Writers
    <2>2. Interrupted(disk[writer.slot], writer) \subseteq Images
      BY <2>1, ImageTypes DEF Interrupted
    <2>3. disk' \in [Slots -> Images]
      BY <1>5, <2>2 DEF FailSector
    <2>4. QED
      BY <1>5, <2>3, IdleType DEF FailSector
  <1>6. CASE Verify
    <2>1. disk[writer.slot] \in Images
      BY DEF Writers
    <2>2. acked' \in Checkpoints
      BY <1>6 DEF Verify, Writers, Checkpoints
    <2>3. ackedCandidate' \in [CandidateSlots -> Checkpoints]
      BY <1>6, <2>1, DecodeType DEF Verify
    <2>4. QED
      BY <1>6, <2>2, <2>3, IdleType DEF Verify
  <1>7. CASE Crash
    <2>1. disk[writer.slot] \in Images
      BY DEF Writers
    <2>2. Interrupted(disk[writer.slot], writer) \subseteq Images
      BY <2>1, ImageTypes DEF Interrupted
    <2>3. disk' \in [Slots -> Images]
      BY <1>7, <2>2 DEF Crash
    <2>4. QED
      BY <1>7, <2>3, IdleType DEF Crash
  <1>8. CASE Boot
    BY <1>8 DEF Boot
  <1>9. CASE UNCHANGED vars
    BY <1>9 DEF vars
  <1>10. QED
    BY <1>1, <1>2, <1>3, <1>4, <1>5, <1>6, <1>7, <1>8, <1>9 DEF Next

(* Type correctness of the checkpoint model. *)
THEOREM TypeCorrect == Spec => []TypeOK
  <1>1. QED
    BY InitTypeOK, NextTypeOK, PTL DEF Spec

-----------------------------------------------------------------------------
(* Where generations live *)

(* What an ordinary slot decodes to carries a generation of its parity. *)
LEMMA DecodeInPlace ==
  ASSUME NEW d \in [Slots -> Images], HeadersInPlace(d), NEW s \in OrdinarySlots
  PROVE  \/ decode_ordinary_slot(d[s]) = Absent
         \/ /\ decode_ordinary_slot(d[s]).generation # 0
            /\ slot_for_generation(decode_ordinary_slot(d[s]).generation) = s
  BY DEF HeadersInPlace, InPlace, decode_ordinary_slot, Decodes, Slots

(* Consecutive generations live in different slots. *)
LEMMA ParityAlternates ==
  ASSUME NEW g \in Nat
  PROVE  slot_for_generation(g) = Other(slot_for_generation(g + 1))
  BY DEF slot_for_generation, Other

(* As long as one slot holds the acknowledged checkpoint or a newer one,   *)
(* recovery finds it whatever the other slot holds.                        *)
LEMMA OtherSlotRecovers ==
  ASSUME NEW d \in [Slots -> Images], HeadersInPlace(d),
         NEW a \in Checkpoints, NEW t \in OrdinarySlots,
         a.generation <= decode_ordinary_slot(d[Other(t)]).generation,
         a.generation = decode_ordinary_slot(d[Other(t)]).generation
             => a = decode_ordinary_slot(d[Other(t)])
  PROVE  Recovers(d, a)
  <1> DEFINE first == decode_ordinary_slot(d["A"])
             second == decode_ordinary_slot(d["B"])
  <1>1. first \in Checkpoints /\ second \in Checkpoints
    BY DecodeType DEF Slots, OrdinarySlots
  <1>2. first.generation \in Nat /\ second.generation \in Nat /\ a.generation \in Nat
    BY <1>1 DEF Checkpoints
  <1>3. \/ first = Absent
        \/ first.generation # 0 /\ slot_for_generation(first.generation) = "A"
    BY DecodeInPlace DEF OrdinarySlots
  <1>4. \/ second = Absent
        \/ second.generation # 0 /\ slot_for_generation(second.generation) = "B"
    BY DecodeInPlace DEF OrdinarySlots
  <1>5. first.generation = second.generation => first = second
    BY <1>2, <1>3, <1>4, AbsentType
  <1>6. \/ /\ a.generation <= first.generation
           /\ a.generation = first.generation => a = first
        \/ /\ a.generation <= second.generation
           /\ a.generation = second.generation => a = second
    BY DEF Other, OrdinarySlots
  <1>7. Restored(d) = IF second.generation > first.generation THEN second ELSE first
    BY DEF Restored, select_highest_generation
  <1> HIDE DEF first, second
  <1>8. QED
    BY <1>2, <1>5, <1>6, <1>7 DEF Recovers

(* The restored checkpoint is in the slot the next checkpoint spares. *)
LEMMA NextSlotSpares ==
  ASSUME NEW d \in [Slots -> Images], HeadersInPlace(d)
  PROVE  decode_ordinary_slot(
            d[Other(slot_for_generation(Restored(d).generation + 1))]) = Restored(d)
  <1> DEFINE first == decode_ordinary_slot(d["A"])
             second == decode_ordinary_slot(d["B"])
  <1>1. first \in Checkpoints /\ second \in Checkpoints
    BY DecodeType DEF Slots, OrdinarySlots
  <1>2. first.generation \in Nat /\ second.generation \in Nat
    BY <1>1 DEF Checkpoints
  <1>3. \/ first = Absent
        \/ first.generation # 0 /\ slot_for_generation(first.generation) = "A"
    BY DecodeInPlace DEF OrdinarySlots
  <1>4. \/ second = Absent
        \/ second.generation # 0 /\ slot_for_generation(second.generation) = "B"
    BY DecodeInPlace DEF OrdinarySlots
  <1>5. Restored(d) = IF second.generation > first.generation THEN second ELSE first
    BY DEF Restored, select_highest_generation
  <1>6. Other(slot_for_generation(Restored(d).generation + 1))
            = slot_for_generation(Restored(d).generation)
    BY <1>2, <1>5, ParityAlternates
  <1>7. CASE Restored(d) = Absent
    <2>1. first = Absent /\ second = Absent
      BY <1>2, <1>3, <1>4, <1>5, <1>7, AbsentType
    <2>2. slot_for_generation(Restored(d).generation) \in {"A", "B"}
      BY DEF slot_for_generation
    <2>3. QED
      BY <1>6, <1>7, <2>1, <2>2
  <1>8. CASE Restored(d) # Absent
    BY <1>3, <1>4, <1>5, <1>6, <1>8
  <1>9. QED
    BY <1>7, <1>8

-----------------------------------------------------------------------------
(* Durability *)

(* A sector write, finished or cut short, keeps every promise made before  *)
(* it and leaves the other slots alone.                                    *)
LEMMA SectorWrite ==
  ASSUME IInv, writer.active,
         NEW image \in Interrupted(disk[writer.slot], writer),
         NEW d, d = [disk EXCEPT ![writer.slot] = image]
  PROVE  /\ HeadersInPlace(d)
         /\ Recovers(d, acked)
         /\ CandidatesKept(d)
         /\ \A s \in Slots : s # writer.slot => d[s] = disk[s]
  <1> USE DEF IInv
  <1>1. /\ disk \in [Slots -> Images]
        /\ writer \in Writers
        /\ writer.slot \in Slots
        /\ writer.generation \in Nat
        /\ acked \in Checkpoints
    BY DEF TypeOK, Writers
  <1>2. image \in Images
    BY <1>1, ImageTypes DEF Interrupted
  <1>3. d \in [Slots -> Images]
    BY <1>1, <1>2
  <1>4. \A s \in Slots : s # writer.slot => d[s] = disk[s]
    BY <1>1
  <1>5. d[writer.slot] = image
    BY <1>1
  <1>6. InPlace(writer.slot, HeaderOf(writer))
    BY <1>1 DEF WriterPlaced, InPlace, HeaderOf, Slots
  <1>7. InPlace(writer.slot, NoHeader)
    BY DEF InPlace, NoHeader
  <1>8. InPlace(writer.slot, image.header)
    <2>1. image.header \in {disk[writer.slot].header, HeaderOf(writer), NoHeader}
      BY <1>1, ImageHeaders
    <2>2. InPlace(writer.slot, disk[writer.slot].header)
      BY <1>1 DEF HeadersInPlace
    <2>3. QED
      BY <1>6, <1>7, <2>1, <2>2
  <1>9. HeadersInPlace(d)
    BY <1>4, <1>5, <1>8 DEF HeadersInPlace
  <1>10. Recovers(d, acked)
    <2>1. CASE writer.slot \in OrdinarySlots
      <3>1. Other(writer.slot) \in Slots /\ Other(writer.slot) # writer.slot
        BY <2>1 DEF Other, OrdinarySlots, Slots
      <3>2. d[Other(writer.slot)] = disk[Other(writer.slot)]
        BY <1>4, <3>1
      <3>3. decode_ordinary_slot(disk[Other(writer.slot)]) \in Checkpoints
        BY <1>1, <3>1, DecodeType
      <3>4. /\ decode_ordinary_slot(disk[Other(writer.slot)]).generation + 1
                  = writer.generation
            /\ acked.generation < writer.generation
            /\ acked.generation + 1 = writer.generation
                  => acked = decode_ordinary_slot(disk[Other(writer.slot)])
        BY <2>1 DEF WriterPlaced
      <3>5. /\ acked.generation \in Nat
            /\ decode_ordinary_slot(disk[Other(writer.slot)]).generation \in Nat
        BY <1>1, <3>3 DEF Checkpoints
      <3>6. /\ acked.generation
                  <= decode_ordinary_slot(disk[Other(writer.slot)]).generation
            /\ acked.generation
                  = decode_ordinary_slot(disk[Other(writer.slot)]).generation
                  => acked = decode_ordinary_slot(disk[Other(writer.slot)])
        BY <1>1, <3>4, <3>5
      <3>7. QED
        BY <1>1, <1>3, <1>9, <2>1, <3>2, <3>6, OtherSlotRecovers
    <2>2. CASE writer.slot \in CandidateSlots
      <3>1. d["A"] = disk["A"] /\ d["B"] = disk["B"]
        BY <1>4, <2>2 DEF Slots, OrdinarySlots, CandidateSlots
      <3>2. QED
        BY <3>1 DEF Recovers, Restored
    <2>3. QED
      BY <1>1, <2>1, <2>2 DEF Slots
  <1>11. CandidatesKept(d)
    <2> SUFFICES ASSUME NEW s \in CandidateSlots, ackedCandidate[s] # Absent
                 PROVE  decode_candidate_slot(d[s]) = ackedCandidate[s]
      BY DEF CandidatesKept
    <2>1. s # writer.slot
      BY DEF WriterPlaced
    <2>2. d[s] = disk[s]
      BY <1>4, <2>1 DEF Slots
    <2>3. QED
      BY <2>2 DEF CandidatesKept
  <1>12. QED
    BY <1>4, <1>9, <1>10, <1>11

(* The initial state satisfies the inductive invariant. *)
LEMMA InitIInv == Init => IInv
  <1> SUFFICES ASSUME Init PROVE IInv
    OBVIOUS
  <1>1. TypeOK
    BY InitTypeOK
  <1>2. \A s \in Slots : ~disk[s].header.ok /\ ~disk[s].commit.ok
    BY DEF Init, NoHeader, NoSector
  <1>3. HeadersInPlace(disk)
    BY <1>2 DEF HeadersInPlace, InPlace
  <1>4. ~writer.active
    BY DEF Init, Idle
  <1>5. Recovers(disk, acked)
    <2>1. decode_ordinary_slot(disk["A"]) = Absent /\ decode_ordinary_slot(disk["B"]) = Absent
      BY <1>2 DEF decode_ordinary_slot, Decodes, Slots, OrdinarySlots
    <2>2. Restored(disk) = Absent
      BY <2>1 DEF Restored, select_highest_generation
    <2>3. QED
      BY <2>2, AbsentType DEF Recovers, Init
  <1>6. CandidatesKept(disk)
    BY DEF CandidatesKept, Init
  <1>7. QED
    BY <1>1, <1>3, <1>4, <1>5, <1>6 DEF IInv, WrittenSoFar, WriterPlaced

(* The read-back accepts only the image the writer meant to write. *)
LEMMA ReadBackExact ==
  ASSUME IInv, writer.active, writer.step = VerifyStep, Decodes(disk[writer.slot])
  PROVE  /\ disk[writer.slot].header.generation = writer.generation
         /\ disk[writer.slot].tables = writer.snapshot
  <1> DEFINE image == disk[writer.slot]
  <1>1. /\ image \in Images
        /\ writer.snapshot \in [Tables -> TableData]
        /\ writer.lost \in 0 .. Unlost
    BY DEF IInv, TypeOK, Writers, Snapshots
  <1>2. image.tables \in [Tables -> TableData \cup {Torn}]
    BY <1>1 DEF Images
  <1>3. /\ image.commit = IF writer.lost = CommitStep THEN NoSector ELSE CommitOf(writer)
        /\ \A i \in Tables : i < writer.step /\ writer.lost # i
              => image.tables[i] = writer.snapshot[i]
        /\ writer.step > HeaderStep /\ writer.lost # HeaderStep
              => image.header = HeaderOf(writer)
    BY DEF IInv, WrittenSoFar, Account
  <1>4. writer.lost # CommitStep /\ image.commit = CommitOf(writer)
    BY <1>3 DEF Decodes, NoSector
  <1>5. image.header.generation = writer.generation
    BY <1>4 DEF Decodes, CommitOf
  <1>6. image.tables = writer.snapshot
    <2>1. CASE writer.lost = HeaderStep
      <3>1. \A i \in Tables : i < writer.step /\ writer.lost # i
        BY <2>1, TableCountAssumption DEF Tables, HeaderStep, VerifyStep
      <3>2. \A i \in Tables : image.tables[i] = writer.snapshot[i]
        BY <1>3, <3>1
      <3>3. QED
        BY <1>1, <1>2, <3>2
    <2>2. CASE writer.lost # HeaderStep
      <3>1. writer.step > HeaderStep
        BY TableCountAssumption DEF HeaderStep, VerifyStep
      <3>2. image.header = HeaderOf(writer)
        BY <1>3, <2>2, <3>1
      <3>3. QED
        BY <3>2 DEF Decodes, HeaderOf
    <2>3. QED
      BY <2>1, <2>2
  <1>7. QED
    BY <1>5, <1>6

(* A sector write, stored or lost, keeps the account of the sectors. *)
LEMMA SectorAccount ==
  ASSUME IInv, writer.active, writer.step < VerifyStep,
         NEW w, NEW image,
         \/ /\ w = [writer EXCEPT !.step = @ + 1]
            /\ image = Written(disk[writer.slot], writer)
         \/ /\ w = [writer EXCEPT !.step = @ + 1, !.lost = writer.step]
            /\ writer.lost = Unlost
            /\ image = disk[writer.slot]
  PROVE  Account(w, image)
  <1> DEFINE old == disk[writer.slot]
  <1>1. /\ old \in Images
        /\ writer \in Writers
        /\ writer.step \in 0 .. VerifyStep
        /\ writer.lost \in 0 .. Unlost
    BY DEF IInv, TypeOK, Writers
  <1>2. /\ writer.lost = Unlost \/ writer.lost < writer.step
        /\ writer.step \in 1 .. CommitStep /\ writer.lost # 0
              => old.commit = NoSector
        /\ \A i \in Tables : i < writer.step /\ writer.lost # i
              => old.tables[i] = writer.snapshot[i]
        /\ writer.step > HeaderStep /\ writer.lost # HeaderStep
              => old.header = HeaderOf(writer)
    BY DEF IInv, WrittenSoFar, Account
  <1>3. /\ w.step = writer.step + 1
        /\ w.snapshot = writer.snapshot
        /\ HeaderOf(w) = HeaderOf(writer)
        /\ CommitOf(w) = CommitOf(writer)
    BY <1>1 DEF Writers, HeaderOf, CommitOf
  <1>4. \/ w.lost = writer.lost /\ image = Written(old, writer)
        \/ w.lost = writer.step /\ writer.lost = Unlost /\ image = old
    BY <1>1 DEF Writers
  <1>5. w.lost = Unlost \/ w.lost < w.step
    BY <1>1, <1>2, <1>3, <1>4 DEF Unlost, VerifyStep
  <1>16. /\ 0 \notin Tables /\ HeaderStep \notin Tables /\ CommitStep \notin Tables
        /\ HeaderStep # 0 /\ CommitStep # 0 /\ HeaderStep # CommitStep
    BY TableCountAssumption DEF Tables, HeaderStep, CommitStep
  <1>6. writer.step = 0 => Written(old, writer) = [old EXCEPT !.commit = NoSector]
    BY <1>16 DEF Written
  <1>7. writer.step \in Tables =>
            Written(old, writer)
                = [old EXCEPT !.tables[writer.step] = writer.snapshot[writer.step]]
    <2> SUFFICES ASSUME writer.step \in Tables
                 PROVE  Written(old, writer)
                    = [old EXCEPT !.tables[writer.step] = writer.snapshot[writer.step]]
      OBVIOUS
    <2>1. writer.step # 0 /\ writer.step # HeaderStep /\ writer.step # CommitStep
      BY <1>16
    <2> HIDE DEF old
    <2>2. QED
      BY <2>1 DEF Written
  <1>8. writer.step = HeaderStep =>
            Written(old, writer) = [old EXCEPT !.header = HeaderOf(writer)]
    BY <1>16 DEF Written
  <1>9. writer.step = CommitStep =>
            Written(old, writer) = [old EXCEPT !.commit = CommitOf(writer)]
    BY <1>16 DEF Written
  <1>10. \/ writer.step = 0
         \/ writer.step \in Tables
         \/ writer.step = HeaderStep
         \/ writer.step = CommitStep
    BY <1>1, TableCountAssumption DEF Tables, HeaderStep, CommitStep, VerifyStep
  <1>11. w.step \in 1 .. CommitStep /\ w.lost # 0 => image.commit = NoSector
    <2>1. writer.step = 0 => Written(old, writer).commit = NoSector
      BY <1>1, <1>6 DEF Images
    <2>2. writer.step \in Tables \/ writer.step = HeaderStep
             => Written(old, writer).commit = old.commit
      BY <1>1, <1>7, <1>8 DEF Images
    <2>3. QED
      BY <1>1, <1>2, <1>3, <1>4, <1>10, <2>1, <2>2, TableCountAssumption
      DEF Tables, HeaderStep, CommitStep, Unlost
  <1>12. ASSUME NEW i \in Tables, i < w.step, w.lost # i
         PROVE  image.tables[i] = w.snapshot[i]
    <2>1. writer.step = i => Written(old, writer).tables[i] = writer.snapshot[i]
      BY <1>1, <1>7, <1>12 DEF Images
    <2>2. writer.step # i => Written(old, writer).tables[i] = old.tables[i]
      BY <1>1, <1>6, <1>7, <1>8, <1>9, <1>10, <1>12 DEF Images
    <2>3. i \in Nat /\ i # Unlost
      BY <1>12, TableCountAssumption DEF Tables, Unlost
    <2>4. QED
      BY <1>1, <1>2, <1>3, <1>4, <1>12, <2>1, <2>2, <2>3
  <1>13. w.step > HeaderStep /\ w.lost # HeaderStep => image.header = HeaderOf(w)
    <2>1. writer.step = HeaderStep => Written(old, writer).header = HeaderOf(writer)
      BY <1>1, <1>8 DEF Images
    <2>2. writer.step = CommitStep => Written(old, writer).header = old.header
      BY <1>1, <1>9 DEF Images
    <2>3. w.step > HeaderStep => writer.step = HeaderStep \/ writer.step = CommitStep
      BY <1>1, <1>3, <1>10, TableCountAssumption DEF Tables, HeaderStep, CommitStep
    <2>4. QED
      BY <1>1, <1>2, <1>3, <1>4, <2>1, <2>2, <2>3, TableCountAssumption
      DEF HeaderStep, CommitStep, Unlost
  <1>14. w.step = VerifyStep => image.commit = IF w.lost = CommitStep
                                              THEN NoSector ELSE CommitOf(w)
    <2>1. w.step = VerifyStep => writer.step = CommitStep
      BY <1>1, <1>3, TableCountAssumption DEF VerifyStep, CommitStep
    <2>2. writer.step = CommitStep => Written(old, writer).commit = CommitOf(writer)
      BY <1>1, <1>9 DEF Images
    <2>3. writer.step = CommitStep => writer.lost # CommitStep
      BY <1>1, <1>2, TableCountAssumption DEF CommitStep, Unlost
    <2>4. writer.step = CommitStep /\ writer.lost = Unlost => old.commit = NoSector
      BY <1>2, TableCountAssumption DEF CommitStep, Unlost
    <2>5. QED
      BY <1>3, <1>4, <2>1, <2>2, <2>3, <2>4
  <1>15. QED
    BY <1>5, <1>11, <1>12, <1>13, <1>14 DEF Account

(* Every step keeps the inductive invariant. *)
LEMMA NextIInv == IInv /\ [Next]_vars => IInv'
  <1> SUFFICES ASSUME IInv, [Next]_vars PROVE IInv'
    OBVIOUS
  <1>a. TypeOK'
    BY NextTypeOK DEF IInv
  <1>b. /\ disk \in [Slots -> Images]
        /\ writer \in Writers
        /\ writer.slot \in Slots
        /\ writer.generation \in Nat
        /\ acked \in Checkpoints
        /\ acked.generation \in Nat
    BY DEF IInv, TypeOK, Writers, Checkpoints
  <1>1. ASSUME NEW snapshot \in Snapshots, BeginCheckpoint(snapshot)
        PROVE  IInv'
    <2> DEFINE g == Restored(disk).generation + 1
    <2>1. Restored(disk).generation \in Nat /\ g \in Nat /\ g # 0
      BY <1>b, RestoredType DEF Checkpoints
    <2>2. /\ writer' = Start(slot_for_generation(g), g, snapshot)
          /\ disk' = disk /\ acked' = acked /\ ackedCandidate' = ackedCandidate
      BY <1>1 DEF BeginCheckpoint
    <2>3. decode_ordinary_slot(disk[Other(slot_for_generation(g))]) = Restored(disk)
      BY <1>b, NextSlotSpares DEF IInv
    <2>4. slot_for_generation(g) \in OrdinarySlots
          /\ slot_for_generation(g) \notin CandidateSlots
      BY <2>1 DEF slot_for_generation, OrdinarySlots, CandidateSlots
    <2>5. /\ writer'.slot = slot_for_generation(g)
          /\ writer'.generation = g
          /\ writer'.step = 0
          /\ writer'.lost = Unlost
      BY <2>2 DEF Start
    <2>6. Recovers(disk, acked)
      BY DEF IInv
    <2>7. WriterPlaced'
      BY <1>b, <2>1, <2>2, <2>3, <2>4, <2>5, <2>6 DEF WriterPlaced, Recovers
    <2>8. WrittenSoFar'
      BY <2>2, <2>5, TableCountAssumption
      DEF WrittenSoFar, Account, Tables, HeaderStep, VerifyStep
    <2>9. QED
      BY <1>a, <2>2, <2>7, <2>8 DEF IInv, CandidatesKept
  <1>2. ASSUME NEW generation \in CandidateGenerations,
               NEW snapshot \in Snapshots,
               BeginCandidate(generation, snapshot)
        PROVE  IInv'
    <2> DEFINE slot == candidate_slot_for_generation(generation)
    <2>1. generation \in Nat /\ generation # 0
      BY CandidateGenerationsAssumption
    <2>2. slot \in CandidateSlots /\ slot \notin OrdinarySlots
      BY DEF candidate_slot_for_generation, OrdinarySlots, CandidateSlots
    <2>3. /\ writer' = Start(slot, generation, snapshot)
          /\ disk' = disk /\ acked' = acked
          /\ ackedCandidate' = [ackedCandidate EXCEPT ![slot] = Absent]
      BY <1>2 DEF BeginCandidate
    <2>4. /\ writer'.slot = slot
          /\ writer'.generation = generation
          /\ writer'.step = 0
          /\ writer'.lost = Unlost
      BY <2>3 DEF Start
    <2>5. ackedCandidate \in [CandidateSlots -> Checkpoints]
      BY DEF IInv, TypeOK
    <2>6. WriterPlaced'
      BY <2>1, <2>2, <2>3, <2>4, <2>5 DEF WriterPlaced
    <2>7. WrittenSoFar'
      BY <2>3, <2>4, TableCountAssumption
      DEF WrittenSoFar, Account, Tables, HeaderStep, VerifyStep
    <2>8. CandidatesKept(disk)'
      BY <2>3, <2>5 DEF IInv, CandidatesKept
    <2>9. QED
      BY <1>a, <2>3, <2>6, <2>7, <2>8 DEF IInv
  <1>3. CASE WriteSector
    <2> DEFINE image == Written(disk[writer.slot], writer)
    <2>1. /\ writer.active /\ writer.step < VerifyStep
          /\ disk' = [disk EXCEPT ![writer.slot] = image]
          /\ writer' = [writer EXCEPT !.step = @ + 1]
          /\ acked' = acked /\ ackedCandidate' = ackedCandidate
      BY <1>3 DEF WriteSector
    <2>2. image \in Interrupted(disk[writer.slot], writer)
      BY DEF Interrupted
    <2>3. /\ HeadersInPlace(disk')
          /\ Recovers(disk', acked)
          /\ CandidatesKept(disk')
          /\ \A s \in Slots : s # writer.slot => disk'[s] = disk[s]
      BY <2>1, <2>2, SectorWrite
    <2>4. /\ writer'.slot = writer.slot
          /\ writer'.generation = writer.generation
          /\ disk'[writer'.slot] = image
      BY <1>b, <2>1 DEF Writers
    <2> HIDE DEF image
    <2>5. WrittenSoFar'
      <3>1. image = Written(disk[writer.slot], writer)
        BY DEF image
      <3>2. QED
        BY <2>1, <2>4, <3>1, SectorAccount DEF WrittenSoFar
    <2>6. WriterPlaced'
      <3>1. writer.slot \in OrdinarySlots =>
                disk'[Other(writer.slot)] = disk[Other(writer.slot)]
        BY <2>3 DEF Other, Slots, OrdinarySlots
      <3>2. QED
        BY <2>1, <2>4, <3>1 DEF IInv, WriterPlaced
    <2>7. QED
      BY <1>a, <2>1, <2>3, <2>5, <2>6 DEF IInv, CandidatesKept
  <1>4. CASE LoseSector
    <2>1. /\ writer.active /\ writer.step < VerifyStep /\ writer.lost = Unlost
          /\ writer' = [writer EXCEPT !.step = @ + 1, !.lost = writer.step]
          /\ disk' = disk /\ acked' = acked /\ ackedCandidate' = ackedCandidate
      BY <1>4 DEF LoseSector
    <2>2. /\ writer'.slot = writer.slot
          /\ writer'.generation = writer.generation
      BY <1>b, <2>1 DEF Writers
    <2>3. WrittenSoFar'
      BY <2>1, <2>2, SectorAccount DEF WrittenSoFar
    <2>4. WriterPlaced'
      BY <2>1, <2>2 DEF IInv, WriterPlaced
    <2>5. QED
      BY <1>a, <2>1, <2>3, <2>4 DEF IInv, CandidatesKept
  <1>5. ASSUME writer' = Idle, acked' = acked, ackedCandidate' = ackedCandidate,
               \/ disk' = disk
               \/ /\ writer.active
                  /\ \E image \in Interrupted(disk[writer.slot], writer) :
                        disk' = [disk EXCEPT ![writer.slot] = image]
        PROVE  IInv'
    <2>1. HeadersInPlace(disk') /\ Recovers(disk', acked) /\ CandidatesKept(disk')
      <3>1. CASE disk' = disk
        BY <3>1 DEF IInv
      <3>2. CASE /\ writer.active
                 /\ \E image \in Interrupted(disk[writer.slot], writer) :
                        disk' = [disk EXCEPT ![writer.slot] = image]
        BY <3>2, SectorWrite
      <3>3. QED
        BY <1>5, <3>1, <3>2
    <2>2. ~writer'.active
      BY <1>5 DEF Idle
    <2>3. QED
      BY <1>5, <1>a, <2>1, <2>2 DEF IInv, WrittenSoFar, WriterPlaced, CandidatesKept
  <1>6. CASE FailSector
    BY <1>5, <1>6 DEF FailSector
  <1>7. CASE Crash
    BY <1>5, <1>7 DEF Crash
  <1>8. CASE Verify
    <2> DEFINE image == disk[writer.slot]
               written == [generation |-> writer.generation,
                           snapshot |-> writer.snapshot]
    <2>1. /\ writer.active /\ writer.step = VerifyStep
          /\ disk' = disk /\ writer' = Idle
          /\ acked' = IF writer.slot \in OrdinarySlots /\ Decodes(image)
                      THEN written ELSE acked
          /\ ackedCandidate' = IF writer.slot \in CandidateSlots
                               THEN [ackedCandidate EXCEPT
                                       ![writer.slot] = decode_candidate_slot(image)]
                               ELSE ackedCandidate
      BY <1>8 DEF Verify
    <2>2. ~writer'.active
      BY <2>1 DEF Idle
    <2>3. Recovers(disk, acked')
      <3>1. CASE writer.slot \in OrdinarySlots /\ Decodes(image)
        <4>1. image.header.slot = writer.slot
          BY <1>b, <3>1 DEF IInv, HeadersInPlace, InPlace, Decodes
        <4>2. decode_ordinary_slot(image) = written
          BY <2>1, <3>1, <4>1, ReadBackExact DEF decode_ordinary_slot
        <4>3. Other(writer.slot) \in OrdinarySlots
              /\ Other(Other(writer.slot)) = writer.slot
          BY <3>1 DEF Other, OrdinarySlots
        <4>4. acked' = written /\ acked' \in Checkpoints
              /\ acked'.generation = writer.generation
          BY <1>a, <2>1, <3>1 DEF TypeOK
        <4>5. /\ acked'.generation
                    <= decode_ordinary_slot(disk[Other(Other(writer.slot))]).generation
              /\ acked' = decode_ordinary_slot(disk[Other(Other(writer.slot))])
          BY <1>b, <4>2, <4>3, <4>4
        <4>6. HeadersInPlace(disk)
          BY DEF IInv
        <4>7. QED
          BY <1>b, <4>3, <4>4, <4>5, <4>6, OtherSlotRecovers
      <3>2. CASE ~(writer.slot \in OrdinarySlots /\ Decodes(image))
        <4>1. acked' = acked
          BY <2>1, <3>2
        <4>2. QED
          BY <4>1 DEF IInv
      <3>3. QED
        BY <3>1, <3>2
    <2>4. CandidatesKept(disk)'
      <3>1. ackedCandidate \in [CandidateSlots -> Checkpoints]
        BY DEF IInv, TypeOK
      <3>2. QED
        BY <2>1, <3>1 DEF IInv, CandidatesKept
    <2>5. QED
      BY <1>a, <2>1, <2>2, <2>3, <2>4 DEF IInv, WrittenSoFar, WriterPlaced
  <1>9. CASE Boot
    BY <1>9, <1>a DEF Boot, IInv, WrittenSoFar, WriterPlaced, CandidatesKept
  <1>10. CASE UNCHANGED vars
    BY <1>10, <1>a DEF vars, IInv, WrittenSoFar, WriterPlaced, CandidatesKept
  <1>11. QED
    BY <1>1, <1>2, <1>3, <1>4, <1>6, <1>7, <1>8, <1>9, <1>10 DEF Next

(* The inductive invariant holds throughout. *)
LEMMA Inductive == Spec => []IInv
  <1>1. QED
    BY InitIInv, NextIInv, PTL DEF Spec

(* Durability: what write_object_service_checkpoint reported as written is *)
(* restored by any later boot, or a later checkpoint is, whatever writes   *)
(* are interrupted, refused, torn or (one per operation) lost.             *)
THEOREM Durable == Spec => []AckedRecoverable
  <1>1. IInv => AckedRecoverable
    BY DEF IInv, Recovers, AckedRecoverable
  <1>2. QED
    BY Inductive, <1>1, PTL

(* A candidate whose identity was handed out stays readable by it until a  *)
(* candidate of the same slot is begun.                                    *)
THEOREM CandidateDurable == Spec => []CandidateReadableByIdentity
  <1>1. IInv => CandidateReadableByIdentity
    <2> SUFFICES ASSUME IInv, NEW s \in CandidateSlots, ackedCandidate[s] # Absent
                 PROVE  CandidateReadable(disk, ackedCandidate[s])
      BY DEF CandidateReadableByIdentity
    <2>1. decode_candidate_slot(disk[s]) = ackedCandidate[s]
      BY DEF IInv, CandidatesKept
    <2>2. Decodes(disk[s]) /\ disk[s].header.generation = ackedCandidate[s].generation
      BY <2>1 DEF decode_candidate_slot
    <2>3. candidate_slot_for_generation(ackedCandidate[s].generation) = s
      BY <2>2 DEF IInv, HeadersInPlace, InPlace, Decodes, Slots
    <2>4. QED
      BY <2>1, <2>3 DEF CandidateReadable
  <1>2. QED
    BY Inductive, <1>1, PTL

-----------------------------------------------------------------------------
(* A device that keeps what it says it wrote *)

(* What the writer means to install *)
Intended(w) == [generation |-> w.generation, snapshot |-> w.snapshot]

(* No write is lost, and an ordinary writer that has written nothing yet   *)
(* finds the checkpoint a boot would restore in the slot it spares.        *)
NothingLost ==
    writer.active =>
        /\ writer.lost = Unlost
        /\ writer.slot \in OrdinarySlots /\ writer.step = 0 =>
              Restored(disk) = decode_ordinary_slot(disk[Other(writer.slot)])

ExactInv == IInv /\ NothingLost

(* A slot that decodes to nothing leaves the choice to the other slot. *)
LEMMA OtherIsRestored ==
  ASSUME NEW d \in [Slots -> Images], NEW s \in OrdinarySlots,
         HeadersInPlace(d), decode_ordinary_slot(d[s]) = Absent
  PROVE  Restored(d) = decode_ordinary_slot(d[Other(s)])
  <1> DEFINE first == decode_ordinary_slot(d["A"])
             second == decode_ordinary_slot(d["B"])
  <1>1. first \in Checkpoints /\ second \in Checkpoints
    BY DecodeType DEF Slots, OrdinarySlots
  <1>2. first.generation \in Nat /\ second.generation \in Nat
    BY <1>1 DEF Checkpoints
  <1>3. \/ second = Absent
        \/ second.generation # 0
    BY DecodeInPlace DEF OrdinarySlots
  <1>4. Restored(d) = IF second.generation > first.generation THEN second ELSE first
    BY DEF Restored, select_highest_generation
  <1>5. \/ s = "A" /\ first = Absent /\ Other(s) = "B"
        \/ s = "B" /\ second = Absent /\ Other(s) = "A"
    BY DEF Other, OrdinarySlots
  <1> HIDE DEF first, second
  <1>6. CASE s = "A" /\ first = Absent /\ Other(s) = "B"
    <2>1. Restored(d) = second
      BY <1>2, <1>3, <1>4, <1>6, AbsentType
    <2>2. QED
      BY <1>6, <2>1 DEF second
  <1>7. CASE s = "B" /\ second = Absent /\ Other(s) = "A"
    <2>1. Restored(d) = first
      BY <1>2, <1>4, <1>7, AbsentType
    <2>2. QED
      BY <1>7, <2>1 DEF first
  <1>8. QED
    BY <1>5, <1>6, <1>7

(* A slot that decodes to a newer generation than the other is restored. *)
LEMMA NewerIsRestored ==
  ASSUME NEW d \in [Slots -> Images], NEW s \in OrdinarySlots,
         decode_ordinary_slot(d[s]).generation
             = decode_ordinary_slot(d[Other(s)]).generation + 1
  PROVE  Restored(d) = decode_ordinary_slot(d[s])
  <1> DEFINE first == decode_ordinary_slot(d["A"])
             second == decode_ordinary_slot(d["B"])
  <1>1. first \in Checkpoints /\ second \in Checkpoints
    BY DecodeType DEF Slots, OrdinarySlots
  <1>2. first.generation \in Nat /\ second.generation \in Nat
    BY <1>1 DEF Checkpoints
  <1>3. Restored(d) = IF second.generation > first.generation THEN second ELSE first
    BY DEF Restored, select_highest_generation
  <1>4. \/ s = "A" /\ first.generation = second.generation + 1
        \/ s = "B" /\ second.generation = first.generation + 1
    BY DEF Other, OrdinarySlots
  <1> HIDE DEF first, second
  <1>5. \/ s = "A" /\ Restored(d) = first
        \/ s = "B" /\ Restored(d) = second
    BY <1>2, <1>3, <1>4
  <1>6. QED
    BY <1>5 DEF first, second

(* Until the commit sector is written, the slot under construction decodes *)
(* to nothing; from then on it decodes to what the writer meant.           *)
LEMMA SlotUnderConstruction ==
  ASSUME NEW image \in Images, NEW w \in Writers, w.slot \in OrdinarySlots,
         w.lost = Unlost, Account(w, image)
  PROVE  /\ w.step \in 1 .. CommitStep => decode_ordinary_slot(image) = Absent
         /\ w.step = VerifyStep => /\ Decodes(image)
                                   /\ decode_ordinary_slot(image) = Intended(w)
  <1>1. w.step \in 1 .. CommitStep => decode_ordinary_slot(image) = Absent
    <2>1. w.lost # 0
      BY TableCountAssumption DEF Unlost
    <2>2. w.step \in 1 .. CommitStep => ~image.commit.ok
      BY <2>1 DEF Account, NoSector
    <2>3. QED
      BY <2>2 DEF decode_ordinary_slot, Decodes
  <1>2. ASSUME w.step = VerifyStep
        PROVE  Decodes(image) /\ decode_ordinary_slot(image) = Intended(w)
    <2>1. image.header = HeaderOf(w) /\ image.commit = CommitOf(w)
      BY <1>2, TableCountAssumption
      DEF Account, Unlost, HeaderStep, CommitStep, VerifyStep
    <2>2. \A i \in Tables : i < w.step /\ w.lost # i
      BY <1>2, TableCountAssumption DEF Tables, VerifyStep, Unlost
    <2>3. \A i \in Tables : image.tables[i] = w.snapshot[i]
      BY <2>2 DEF Account
    <2>4. /\ image.tables \in [Tables -> TableData \cup {Torn}]
          /\ w.snapshot \in [Tables -> TableData]
      BY DEF Images, Writers, Snapshots
    <2>5. image.tables = w.snapshot
      BY <2>3, <2>4
    <2>6. QED
      BY <2>1, <2>5
      DEF Decodes, decode_ordinary_slot, Intended, HeaderOf, CommitOf
  <1>3. QED
    BY <1>1, <1>2

(* What a boot would restore while a writer is at work.                    *)
LEMMA RestoredDuringWrite ==
  ASSUME ExactInv, writer.active, writer.slot \in OrdinarySlots
  PROVE  /\ writer.step # VerifyStep
              => /\ Restored(disk) = decode_ordinary_slot(disk[Other(writer.slot)])
                 /\ Restored(disk).generation + 1 = writer.generation
         /\ writer.step = VerifyStep
              => /\ Restored(disk) = Intended(writer)
                 /\ Decodes(disk[writer.slot])
  <1>1. /\ disk \in [Slots -> Images]
        /\ writer \in Writers
        /\ writer.slot \in Slots
        /\ writer.step \in 0 .. VerifyStep
        /\ disk[writer.slot] \in Images
    BY DEF ExactInv, IInv, TypeOK, Writers
  <1>2. /\ writer.lost = Unlost
        /\ Account(writer, disk[writer.slot])
        /\ HeadersInPlace(disk)
    BY DEF ExactInv, IInv, NothingLost, WrittenSoFar
  <1>3. decode_ordinary_slot(disk[Other(writer.slot)]).generation + 1
            = writer.generation
    BY DEF ExactInv, IInv, WriterPlaced
  <1>4. ASSUME writer.step # VerifyStep
        PROVE  Restored(disk) = decode_ordinary_slot(disk[Other(writer.slot)])
    <2>1. CASE writer.step = 0
      BY <2>1 DEF ExactInv, NothingLost
    <2>2. CASE writer.step # 0
      <3>1. writer.step \in 1 .. CommitStep
        BY <1>1, <1>4, <2>2, TableCountAssumption DEF CommitStep, VerifyStep
      <3>2. decode_ordinary_slot(disk[writer.slot]) = Absent
        BY <1>1, <1>2, <3>1, SlotUnderConstruction
      <3>3. QED
        BY <1>1, <1>2, <3>2, OtherIsRestored
    <2>3. QED
      BY <2>1, <2>2
  <1>5. ASSUME writer.step = VerifyStep
        PROVE  Restored(disk) = Intended(writer) /\ Decodes(disk[writer.slot])
    <2>1. /\ Decodes(disk[writer.slot])
          /\ decode_ordinary_slot(disk[writer.slot]) = Intended(writer)
      BY <1>1, <1>2, <1>5, SlotUnderConstruction
    <2>2. Intended(writer).generation = writer.generation
      BY DEF Intended
    <2>3. QED
      BY <1>1, <1>3, <2>1, <2>2, NewerIsRestored
  <1>6. QED
    BY <1>3, <1>4, <1>5

(* A sector write cut short leaves a slot that decodes to nothing, or, in  *)
(* the middle of the tables, one whose commit sector is already invalid.   *)
LEMMA ShreddedUndecodable ==
  ASSUME ExactInv, writer.active, writer.step # VerifyStep
  PROVE  ~Decodes(Shredded(disk[writer.slot], writer))
  <1> DEFINE old == disk[writer.slot]
  <1>1. /\ old \in Images
        /\ writer.step \in 0 .. VerifyStep
    BY DEF ExactInv, IInv, TypeOK, Writers
  <1>2. writer.step \in 1 .. CommitStep => old.commit = NoSector
    <2>1. writer.lost = Unlost /\ Account(writer, old)
      BY DEF ExactInv, IInv, NothingLost, WrittenSoFar
    <2>2. QED
      BY <2>1, TableCountAssumption DEF Account, Unlost
  <1> HIDE DEF old
  <1>3. CASE writer.step \in Tables
    <2>1. Shredded(old, writer) = [old EXCEPT !.tables[writer.step] = Torn]
      BY <1>3, TableCountAssumption
      DEF Shredded, Tables, HeaderStep, CommitStep
    <2>2. Shredded(old, writer).commit = NoSector
      BY <1>1, <1>2, <1>3, <2>1, TableCountAssumption DEF Images, Tables, CommitStep
    <2>3. QED
      BY <2>2 DEF Decodes, NoSector, old
  <1>4. CASE writer.step = HeaderStep
    <2>1. Shredded(old, writer) = [old EXCEPT !.header = NoHeader]
      BY <1>4, TableCountAssumption DEF Shredded, Tables, HeaderStep, CommitStep
    <2>2. Shredded(old, writer).header = NoHeader
      BY <1>1, <2>1 DEF Images
    <2>3. QED
      BY <2>2 DEF Decodes, NoHeader, old
  <1>5. CASE writer.step \in {0, CommitStep}
    <2>1. Shredded(old, writer) = [old EXCEPT !.commit = NoSector]
      BY <1>5, TableCountAssumption DEF Shredded, Tables, HeaderStep, CommitStep
    <2>2. Shredded(old, writer).commit = NoSector
      BY <1>1, <2>1 DEF Images
    <2>3. QED
      BY <2>2 DEF Decodes, NoSector, old
  <1>6. QED
    BY <1>1, <1>3, <1>4, <1>5, TableCountAssumption
    DEF Tables, HeaderStep, CommitStep, VerifyStep

(* A sector write, finished or cut short, leaves what a boot would restore *)
(* alone, or is the commit write and installs the checkpoint.              *)
LEMMA SectorEffect ==
  ASSUME ExactInv, writer.active,
         NEW image \in Interrupted(disk[writer.slot], writer),
         NEW d, d = [disk EXCEPT ![writer.slot] = image]
  PROVE  \/ Restored(d) = Restored(disk)
         \/ /\ writer.slot \in OrdinarySlots
            /\ Restored(d) = Intended(writer)
            /\ Restored(disk).generation + 1 = writer.generation
  <1>1. /\ disk \in [Slots -> Images]
        /\ writer \in Writers
        /\ writer.slot \in Slots
        /\ writer.step \in 0 .. VerifyStep
        /\ disk[writer.slot] \in Images
        /\ writer.generation \in Nat
    BY DEF ExactInv, IInv, TypeOK, Writers
  <1>2. /\ image \in Images
        /\ d \in [Slots -> Images]
        /\ d[writer.slot] = image
    BY <1>1, ImageTypes DEF Interrupted
  <1>3. HeadersInPlace(d)
        /\ \A s \in Slots : s # writer.slot => d[s] = disk[s]
    BY SectorWrite DEF ExactInv
  <1>4. CASE writer.slot \notin OrdinarySlots
    <2>1. d["A"] = disk["A"] /\ d["B"] = disk["B"]
      BY <1>3, <1>4 DEF Slots, OrdinarySlots
    <2>2. QED
      BY <2>1 DEF Restored
  <1>5. CASE writer.slot \in OrdinarySlots
    <2>1. Other(writer.slot) \in Slots /\ Other(writer.slot) # writer.slot
      BY <1>5 DEF Other, OrdinarySlots, Slots
    <2>2. d[Other(writer.slot)] = disk[Other(writer.slot)]
      BY <1>3, <2>1
    <2>3. image = disk[writer.slot] => d = disk
      BY <1>1
    <2>4. CASE image = disk[writer.slot]
      BY <2>3, <2>4
    <2>5. CASE writer.step # VerifyStep /\ image = Shredded(disk[writer.slot], writer)
      <3>1. ~Decodes(image)
        BY <1>1, <1>5, <2>5, ShreddedUndecodable
      <3>2. decode_ordinary_slot(image) = Absent
        BY <3>1 DEF decode_ordinary_slot
      <3>3. Restored(d) = decode_ordinary_slot(d[Other(writer.slot)])
        BY <1>2, <1>3, <1>5, <3>2, OtherIsRestored
      <3>4. QED
        BY <1>5, <2>2, <2>5, <3>3, RestoredDuringWrite
    <2>6. CASE writer.step # VerifyStep /\ image = Written(disk[writer.slot], writer)
      <3> DEFINE w == [writer EXCEPT !.step = @ + 1]
      <3>1. writer.step < VerifyStep
        BY <1>1, <2>6, TableCountAssumption DEF VerifyStep
      <3>2. Account(w, image)
        BY <2>6, <3>1, SectorAccount DEF ExactInv
      <3>3. /\ w \in Writers
            /\ w.step = writer.step + 1
            /\ w.slot = writer.slot
            /\ w.lost = writer.lost
            /\ Intended(w) = Intended(writer)
        BY <1>1, <3>1, TableCountAssumption DEF Writers, VerifyStep, Intended
      <3>4. writer.lost = Unlost
        BY DEF ExactInv, NothingLost
      <3> HIDE DEF w
      <3>5. /\ w.step \in 1 .. CommitStep => decode_ordinary_slot(image) = Absent
            /\ w.step = VerifyStep => decode_ordinary_slot(image) = Intended(writer)
        BY <1>2, <1>5, <3>2, <3>3, <3>4, SlotUnderConstruction
      <3>6. w.step \in 1 .. CommitStep \/ w.step = VerifyStep
        BY <1>1, <3>1, <3>3, TableCountAssumption DEF CommitStep, VerifyStep
      <3>7. CASE w.step \in 1 .. CommitStep
        <4>1. Restored(d) = decode_ordinary_slot(d[Other(writer.slot)])
          BY <1>2, <1>3, <1>5, <3>5, <3>7, OtherIsRestored
        <4>2. QED
          BY <1>5, <2>2, <2>6, <4>1, RestoredDuringWrite
      <3>8. CASE w.step = VerifyStep
        <4>1. decode_ordinary_slot(d[writer.slot]) = Intended(writer)
          BY <1>2, <3>5, <3>8
        <4>2. Intended(writer).generation = writer.generation
          BY DEF Intended
        <4>3. decode_ordinary_slot(d[Other(writer.slot)]).generation + 1
                  = writer.generation
          BY <1>5, <2>2 DEF ExactInv, IInv, WriterPlaced
        <4>4. Restored(d) = Intended(writer)
          BY <1>2, <1>5, <4>1, <4>2, <4>3, NewerIsRestored
        <4>5. QED
          BY <1>5, <2>6, <4>4, RestoredDuringWrite
      <3>9. QED
        BY <3>6, <3>7, <3>8
    <2>7. CASE writer.step = VerifyStep
      <3>1. image = disk[writer.slot]
        BY <2>7, TableCountAssumption
        DEF Interrupted, Written, Shredded, Tables, HeaderStep, CommitStep, VerifyStep
      <3>2. QED
        BY <2>4, <3>1
    <2>8. QED
      BY <2>4, <2>5, <2>6, <2>7 DEF Interrupted
  <1>6. QED
    BY <1>4, <1>5

(* On such a device every step keeps the stronger invariant. *)
LEMMA NextExactInv ==
  ASSUME ~LossyDevice
  PROVE  ExactInv /\ [Next]_vars => ExactInv'
  <1> SUFFICES ASSUME ExactInv, [Next]_vars PROVE ExactInv'
    OBVIOUS
  <1>a. IInv'
    BY NextIInv DEF ExactInv
  <1>b. /\ disk \in [Slots -> Images]
        /\ writer \in Writers
        /\ HeadersInPlace(disk)
    BY DEF ExactInv, IInv, TypeOK
  <1>1. ASSUME NEW snapshot \in Snapshots, BeginCheckpoint(snapshot)
        PROVE  NothingLost'
    <2>1. /\ writer'.slot = slot_for_generation(Restored(disk).generation + 1)
          /\ writer'.lost = Unlost
          /\ disk' = disk
      BY <1>1 DEF BeginCheckpoint, Start
    <2>2. decode_ordinary_slot(disk[Other(writer'.slot)]) = Restored(disk)
      BY <1>b, <2>1, NextSlotSpares
    <2>3. QED
      BY <2>1, <2>2 DEF NothingLost
  <1>2. ASSUME NEW generation \in CandidateGenerations,
               NEW snapshot \in Snapshots,
               BeginCandidate(generation, snapshot)
        PROVE  NothingLost'
    <2>1. /\ writer'.slot = candidate_slot_for_generation(generation)
          /\ writer'.lost = Unlost
      BY <1>2 DEF BeginCandidate, Start
    <2>2. writer'.slot \notin OrdinarySlots
      BY <2>1 DEF candidate_slot_for_generation, OrdinarySlots
    <2>3. QED
      BY <2>1, <2>2 DEF NothingLost
  <1>3. ASSUME WriteSector PROVE NothingLost'
    <2>1. /\ writer.active
          /\ writer'.lost = writer.lost
          /\ writer'.step = writer.step + 1
          /\ writer.step \in Nat
      BY <1>3, <1>b, TableCountAssumption DEF WriteSector, Writers, VerifyStep
    <2>2. writer'.step # 0
      BY <2>1
    <2>3. QED
      BY <2>1, <2>2 DEF ExactInv, NothingLost
  <1>4. ASSUME LoseSector PROVE NothingLost'
    BY <1>4 DEF LoseSector
  <1>5. ASSUME FailSector \/ Verify \/ Crash PROVE NothingLost'
    <2>1. ~writer'.active
      BY <1>5 DEF FailSector, Verify, Crash, Idle
    <2>2. QED
      BY <2>1 DEF NothingLost
  <1>6. ASSUME Boot \/ UNCHANGED vars PROVE NothingLost'
    BY <1>6 DEF Boot, vars, ExactInv, NothingLost
  <1>7. NothingLost'
    BY <1>1, <1>2, <1>3, <1>4, <1>5, <1>6 DEF Next
  <1>8. QED
    BY <1>a, <1>7 DEF ExactInv

(* No writer is at work at first. *)
LEMMA InitExactInv == Init => ExactInv
  BY InitIInv DEF Init, Idle, ExactInv, NothingLost

(* Every step leaves what a boot would restore alone or installs the       *)
(* checkpoint an ordinary writer is storing, under the next generation.    *)
LEMMA RestoredStep ==
  ASSUME ~LossyDevice, ExactInv, [Next]_vars
  PROVE  \/ Restored(disk') = Restored(disk)
         \/ /\ writer.active /\ writer.slot \in OrdinarySlots
            /\ Restored(disk') = Intended(writer)
            /\ Restored(disk).generation + 1 = writer.generation
  <1>1. CASE disk' = disk
    BY <1>1
  <1>2. CASE /\ writer.active
             /\ \E image \in Interrupted(disk[writer.slot], writer) :
                    disk' = [disk EXCEPT ![writer.slot] = image]
    <2>1. PICK image \in Interrupted(disk[writer.slot], writer) :
              disk' = [disk EXCEPT ![writer.slot] = image]
      BY <1>2
    <2>2. \/ Restored([disk EXCEPT ![writer.slot] = image]) = Restored(disk)
          \/ /\ writer.slot \in OrdinarySlots
             /\ Restored([disk EXCEPT ![writer.slot] = image]) = Intended(writer)
             /\ Restored(disk).generation + 1 = writer.generation
      BY <1>2, SectorEffect
    <2>3. QED
      BY <1>2, <2>1, <2>2
  <1>3. WriteSector => writer.active
             /\ \E image \in Interrupted(disk[writer.slot], writer) :
                    disk' = [disk EXCEPT ![writer.slot] = image]
    BY DEF WriteSector, Interrupted
  <1>4. QED
    BY <1>1, <1>2, <1>3
    DEF Next, vars, BeginCheckpoint, BeginCandidate, LoseSector, FailSector,
        Verify, Crash, Boot

(* On a device that keeps what it says it wrote, the generation a boot     *)
(* would restore never goes back: not while write_slot_image rewrites the  *)
(* older slot, not when a write is refused or cut short.                   *)
THEOREM NeverRegresses ==
  ASSUME ~LossyDevice
  PROVE  Spec => RestoredNeverRegresses
  <1>1. ExactInv /\ [Next]_vars
            => [Restored(disk').generation >= Restored(disk).generation]_vars
    <2> SUFFICES ASSUME ExactInv, [Next]_vars
                 PROVE  Restored(disk').generation >= Restored(disk).generation
      OBVIOUS
    <2>1. Restored(disk).generation \in Nat
      BY RestoredType DEF ExactInv, IInv, TypeOK, Checkpoints
    <2>2. \/ Restored(disk') = Restored(disk)
          \/ Restored(disk').generation = Restored(disk).generation + 1
      BY RestoredStep DEF Intended
    <2>3. QED
      BY <2>1, <2>2
  <1>2. QED
    BY InitExactInv, NextExactInv, <1>1, PTL DEF Spec, RestoredNeverRegresses

(* The store in progress as AtomicCheckpoint sees it: a candidate write is *)
(* none of its business.                                                   *)
Pending == IF writer.active /\ writer.slot \in OrdinarySlots
           THEN Intended(writer) ELSE Absent

(* A store in progress is never mistaken for none: its generation is not   *)
(* zero.                                                                   *)
LEMMA PendingIsSomething ==
  ASSUME ExactInv, writer.active, writer.slot \in OrdinarySlots
  PROVE  Pending = Intended(writer) /\ Intended(writer) # Absent
  <1>1. Intended(writer).generation # Absent.generation
    BY AbsentType DEF ExactInv, IInv, WriterPlaced, Intended
  <1>2. QED
    BY <1>1 DEF Pending

(* Every step is a step of the register or leaves it alone. *)
LEMMA StepRefinesRegister ==
  ASSUME ~LossyDevice, ExactInv, [Next]_vars
  PROVE  [Register!Next]_(Register!vars)
  <1>a. Register!vars = <<Restored(disk), Pending, acked>>
    BY DEF Register!vars, Pending, Intended
  <1>b. (Register!vars)' = <<Restored(disk'), Pending', acked'>>
    BY DEF Register!vars, Pending, Intended, Restored
  <1>1. ASSUME NEW snapshot \in Snapshots, BeginCheckpoint(snapshot)
        PROVE  Register!Begin(snapshot)
    <2> DEFINE g == Restored(disk).generation + 1
    <2>1. /\ ~writer.active
          /\ writer' = Start(slot_for_generation(g), g, snapshot)
          /\ disk' = disk /\ acked' = acked
      BY <1>1 DEF BeginCheckpoint
    <2>2. slot_for_generation(g) \in OrdinarySlots
      BY DEF slot_for_generation, OrdinarySlots
    <2>3. Pending = Absent
      BY <2>1 DEF Pending
    <2>4. Pending' = [generation |-> g, snapshot |-> snapshot]
      BY <2>1, <2>2 DEF Pending, Intended, Start
    <2>5. QED
      BY <2>1, <2>3, <2>4 DEF Register!Begin, Pending, Intended, Restored
  <1>2. ASSUME writer.active, writer.slot \in OrdinarySlots, acked' = acked,
               Pending' \in {Pending, Absent}
        PROVE  [Register!Next]_(Register!vars)
    <2>1. Pending = Intended(writer) /\ Pending # Absent
      BY <1>2, PendingIsSomething
    <2>2. CASE Restored(disk') = Restored(disk) /\ Pending' = Pending
      BY <1>2, <1>a, <1>b, <2>2
    <2>3. CASE Restored(disk') = Restored(disk) /\ Pending' = Absent
      <3>1. Register!Abandon
        BY <1>2, <2>1, <2>3 DEF Register!Abandon, Pending, Intended, Restored
      <3>2. QED
        BY <3>1 DEF Register!Next
    <2>4. CASE /\ Restored(disk') = Intended(writer)
               /\ Restored(disk).generation + 1 = writer.generation
      <3>1. Restored(disk).generation + 1 = Pending.generation
        BY <2>1, <2>4 DEF Intended
      <3>2. Register!Install
        BY <1>2, <2>1, <2>4, <3>1 DEF Register!Install, Pending, Intended, Restored
      <3>3. QED
        BY <3>2 DEF Register!Next
    <2>5. QED
      BY <1>2, <2>2, <2>3, <2>4, RestoredStep
  <1>3. ASSUME ~(writer.active /\ writer.slot \in OrdinarySlots), acked' = acked,
               Pending' = Absent
        PROVE  [Register!Next]_(Register!vars)
    <2>1. Pending = Absent
      BY <1>3 DEF Pending
    <2>2. Restored(disk') = Restored(disk)
      BY <1>3, RestoredStep
    <2>3. QED
      BY <1>3, <1>a, <1>b, <2>1, <2>2
  <1>4. ASSUME NEW generation \in CandidateGenerations,
               NEW snapshot \in Snapshots,
               BeginCandidate(generation, snapshot)
        PROVE  [Register!Next]_(Register!vars)
    <2>1. ~writer.active /\ acked' = acked
      BY <1>4 DEF BeginCandidate
    <2>2. writer'.slot \notin OrdinarySlots
      BY <1>4 DEF BeginCandidate, Start, candidate_slot_for_generation, OrdinarySlots
    <2>3. Pending' = Absent
      BY <2>2 DEF Pending, Absent
    <2>4. QED
      BY <1>3, <2>1, <2>3
  <1>5. CASE WriteSector
    <2>1. acked' = acked
      BY <1>5 DEF WriteSector
    <2>2. writer \in Writers
      BY DEF ExactInv, IInv, TypeOK
    <2>3. /\ writer'.active = writer.active
          /\ writer'.slot = writer.slot
          /\ writer'.generation = writer.generation
          /\ writer'.snapshot = writer.snapshot
      BY <1>5, <2>2 DEF WriteSector, Writers
    <2>4. Pending' = Pending
      BY <2>3 DEF Pending, Intended, Absent
    <2>5. QED
      BY <1>2, <1>3, <2>1, <2>4 DEF Pending
  <1>6. CASE LoseSector
    BY <1>6 DEF LoseSector
  <1>7. CASE FailSector \/ Crash
    <2>1. acked' = acked /\ ~writer'.active
      BY <1>7 DEF FailSector, Crash, Idle
    <2>2. Pending' = Absent
      BY <2>1 DEF Pending, Absent
    <2>3. QED
      BY <1>2, <1>3, <2>1, <2>2
  <1>8. CASE Verify
    <2>1. ~writer'.active
      BY <1>8 DEF Verify, Idle
    <2>2. Pending' = Absent
      BY <2>1 DEF Pending, Absent
    <2>3. CASE writer.slot \in OrdinarySlots
      <3>1. writer.active /\ writer.step = VerifyStep /\ disk' = disk
        BY <1>8 DEF Verify
      <3>2. Restored(disk) = Intended(writer) /\ Decodes(disk[writer.slot])
        BY <2>3, <3>1, RestoredDuringWrite
      <3>3. acked' = Intended(writer)
        BY <1>8, <2>3, <3>2 DEF Verify, Intended
      <3>4. Pending = Intended(writer) /\ Pending # Absent
        BY <2>3, <3>1, PendingIsSomething
      <3>5. Register!Confirm
        BY <2>2, <3>1, <3>2, <3>3, <3>4
        DEF Register!Confirm, Pending, Intended, Restored
      <3>6. QED
        BY <3>5 DEF Register!Next
    <2>4. CASE writer.slot \notin OrdinarySlots
      <3>1. acked' = acked
        BY <1>8, <2>4 DEF Verify
      <3>2. QED
        BY <1>3, <2>2, <2>4, <3>1
    <2>5. QED
      BY <2>3, <2>4
  <1>9. CASE Boot \/ UNCHANGED vars
    BY <1>9, <1>a, <1>b DEF Boot, vars, Pending, Intended, Absent
  <1>10. QED
    BY <1>1, <1>4, <1>5, <1>6, <1>7, <1>8, <1>9 DEF Next, Register!Next

(* On a device that keeps what it says it wrote, the two slots seen from a *)
(* boot are one atomic register: a checkpoint takes effect at the instant  *)
(* its commit sector is written, whole or not at all, and is confirmed     *)
(* only after that.                                                        *)
THEOREM RegisterImplemented ==
  ASSUME ~LossyDevice
  PROVE  Spec => ImplementsRegister
  <1>1. Init => Register!Init
    <2> SUFFICES ASSUME Init PROVE Register!Init
      OBVIOUS
    <2>1. \A s \in Slots : ~disk[s].commit.ok
      BY DEF Init, NoSector
    <2>2. Restored(disk) = Absent
      BY <2>1 DEF Restored, select_highest_generation, decode_ordinary_slot, Decodes,
                  Slots, OrdinarySlots
    <2>3. ~writer.active /\ acked = Absent
      BY DEF Init, Idle
    <2>4. QED
      BY <2>2, <2>3 DEF Register!Init
  <1>2. ExactInv /\ [Next]_vars => [Register!Next]_(Register!vars)
    BY StepRefinesRegister
  <1>3. QED
    BY InitExactInv, NextExactInv, <1>1, <1>2, PTL
    DEF Spec, ImplementsRegister, Register!Spec
=============================================================================

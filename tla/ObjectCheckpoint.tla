-------------------------- MODULE ObjectCheckpoint --------------------------
(***************************************************************************)
(* The two-slot checkpoint of the object service                           *)
(* (core/src/object_service_checkpoint.rs), one sector write at a time.    *)
(*                                                                         *)
(* A slot is a header sector, TableCount table sectors and a commit        *)
(* sector.  A checkpoint is written by write_slot_image in a fixed order:  *)
(* invalidate the commit sector, write the tables, write the header, write *)
(* the commit sector; the caller then reads the slot back and decodes it   *)
(* before it reports success.  The machine may stop between any two sector *)
(* writes or in the middle of one, a sector write may be refused by the    *)
(* device, and a sector write may be reported done although nothing was    *)
(* stored (at most one per operation), which is what the read-back is for. *)
(*                                                                         *)
(* The 64-bit checksum in the header is taken to be collision-free: the    *)
(* header records the table contents it was computed over.                 *)
(***************************************************************************)
EXTENDS Naturals

CONSTANTS
    TableCount,     \* table sectors of a slot (24 in the code)
    TableData,      \* what one table sector can hold
    Blank,          \* an all-zero table sector
    Torn,           \* what an interrupted write leaves: decodes as nothing
    LossyDevice,    \* the device may report a write done and store nothing
    MaxGeneration,  \* bound on the generations a behaviour may reach
    CandidateGenerations    \* the generations candidates are written under

ASSUME TableCountAssumption == TableCount \in Nat \ {0}
ASSUME DataAssumption == Blank \in TableData /\ Torn \notin TableData
ASSUME LossyDeviceAssumption == LossyDevice \in BOOLEAN
ASSUME MaxGenerationAssumption == MaxGeneration \in Nat
ASSUME CandidateGenerationsAssumption == CandidateGenerations \subseteq Nat \ {0}

VARIABLES
    disk,           \* slot -> image
    writer,         \* the checkpoint operation under way
    up,             \* the machine is running
    acked,          \* the last ordinary checkpoint reported as written
    ackedCandidate  \* candidate slot -> the candidate reported as written

vars == <<disk, writer, up, acked, ackedCandidate>>

-----------------------------------------------------------------------------
(* Slots and sectors *)

OrdinarySlots == {"A", "B"}
CandidateSlots == {"CandidateA", "CandidateB"}
Slots == OrdinarySlots \cup CandidateSlots

Tables == 1 .. TableCount
Snapshots == [Tables -> TableData]

Sectors == [ok : BOOLEAN, generation : Nat]
Headers == [ok : BOOLEAN, generation : Nat, slot : Slots, sum : Snapshots]
Images == [header : Headers,
           tables : [Tables -> TableData \cup {Torn}],
           commit : Sectors]

NoSector == [ok |-> FALSE, generation |-> 0]
NoHeader == [ok |-> FALSE, generation |-> 0, slot |-> "A",
             sum |-> [i \in Tables |-> Blank]]

Checkpoints == [generation : Nat, snapshot : Snapshots]

(* Absent stands for Option::None; a generation is never zero. *)
Absent == [generation |-> 0, snapshot |-> [i \in Tables |-> Blank]]

(* Mutant: two generations in a row share a slot *)
slot_for_generation_pair(g) == IF (g \div 2) % 2 = 1 THEN "A" ELSE "B"

slot_for_generation(g) == IF g % 2 = 1 THEN "A" ELSE "B"

candidate_slot_for_generation(g) ==
    IF g % 2 = 1 THEN "CandidateA" ELSE "CandidateB"

-----------------------------------------------------------------------------
(* Recovery *)

(* encode_slot_into_with_generation: the image a writer puts on the device *)
HeaderOf(w) == [ok |-> TRUE, generation |-> w.generation, slot |-> w.slot,
                sum |-> w.snapshot]
CommitOf(w) == [ok |-> TRUE, generation |-> w.generation]

(* Mutant: the checksum is not compared *)
DecodesAnySum(image) ==
    /\ image.commit.ok
    /\ image.header.ok
    /\ image.header.generation = image.commit.generation

(* decode_slot_into: both magics, equal generations, matching checksum *)
Decodes(image) ==
    /\ image.commit.ok
    /\ image.header.ok
    /\ image.header.generation = image.commit.generation
    /\ image.tables = image.header.sum

(* decode_ordinary_slot refuses an image labelled as a candidate, and      *)
(* read_object_service_candidate_checkpoint one labelled as ordinary.      *)
decode_ordinary_slot(image) ==
    IF Decodes(image) /\ image.header.slot \in OrdinarySlots
    THEN [generation |-> image.header.generation, snapshot |-> image.tables]
    ELSE Absent

decode_candidate_slot(image) ==
    IF Decodes(image) /\ image.header.slot \in CandidateSlots
    THEN [generation |-> image.header.generation, snapshot |-> image.tables]
    ELSE Absent

select_highest_generation(first, second) ==
    IF second.generation > first.generation THEN second ELSE first

(* with_restored_object_service_checkpoint *)
Restored(d) ==
    select_highest_generation(decode_ordinary_slot(d["A"]),
                              decode_ordinary_slot(d["B"]))

(* read_object_service_candidate_checkpoint, given a published identity *)
CandidateReadable(d, identity) ==
    decode_candidate_slot(d[candidate_slot_for_generation(identity.generation)])
        = identity

-----------------------------------------------------------------------------
(* write_slot_image: step 0 invalidates the commit sector, steps           *)
(* 1..TableCount write the tables, then the header, then the commit        *)
(* sector.  The step after that is the read-back.                          *)

HeaderStep == TableCount + 1
CommitStep == TableCount + 2
VerifyStep == TableCount + 3

Unlost == TableCount + 4     \* no write of this operation has been lost

Writers == [active : BOOLEAN, slot : Slots, generation : Nat,
            snapshot : Snapshots, step : 0 .. VerifyStep, lost : 0 .. Unlost]

Idle == [active |-> FALSE, slot |-> "A", generation |-> 0,
         snapshot |-> [i \in Tables |-> Blank], step |-> 0, lost |-> Unlost]

Start(slot, generation, snapshot) ==
    [active |-> TRUE, slot |-> slot, generation |-> generation,
     snapshot |-> snapshot, step |-> 0, lost |-> Unlost]

(* The image after the writer's current sector write *)
Written(image, w) ==
    CASE w.step = 0           -> [image EXCEPT !.commit = NoSector]
      [] w.step \in Tables    -> [image EXCEPT !.tables[w.step] = w.snapshot[w.step]]
      [] w.step = HeaderStep  -> [image EXCEPT !.header = HeaderOf(w)]
      [] w.step = CommitStep  -> [image EXCEPT !.commit = CommitOf(w)]
      [] OTHER                -> image

(* The image when that sector write was cut short *)
Shredded(image, w) ==
    CASE w.step \in Tables    -> [image EXCEPT !.tables[w.step] = Torn]
      [] w.step = HeaderStep  -> [image EXCEPT !.header = NoHeader]
      [] w.step \in {0, CommitStep} -> [image EXCEPT !.commit = NoSector]
      [] OTHER                -> image

(* What may be on the device once the current sector write has failed *)
Interrupted(image, w) == {image, Written(image, w), Shredded(image, w)}

-----------------------------------------------------------------------------
Init ==
    /\ disk = [s \in Slots |-> [header |-> NoHeader,
                                tables |-> [i \in Tables |-> Blank],
                                commit |-> NoSector]]
    /\ writer = Idle
    /\ up = TRUE
    /\ acked = Absent
    /\ ackedCandidate = [s \in CandidateSlots |-> Absent]

(* Mutant: the generation follows the last success, not the device *)
BeginAfterLastSuccess(snapshot) ==
    LET generation == acked.generation + 1
    IN  /\ up
        /\ ~writer.active
        /\ generation <= MaxGeneration
        /\ writer' = Start(slot_for_generation(generation), generation, snapshot)
        /\ UNCHANGED <<disk, up, acked, ackedCandidate>>

(* write_object_service_checkpoint: the generation follows the one on the  *)
(* device, whatever generation the caller's snapshot carries.              *)
BeginCheckpoint(snapshot) ==
    LET generation == Restored(disk).generation + 1
    IN  /\ up
        /\ ~writer.active
        /\ generation <= MaxGeneration
        /\ writer' = Start(slot_for_generation(generation), generation, snapshot)
        /\ UNCHANGED <<disk, up, acked, ackedCandidate>>

(* write_object_service_candidate_checkpoint: the caller names the         *)
(* generation, and the slot it names gives up the candidate it held.       *)
BeginCandidate(generation, snapshot) ==
    LET slot == candidate_slot_for_generation(generation)
    IN  /\ up
        /\ ~writer.active
        /\ writer' = Start(slot, generation, snapshot)
        /\ ackedCandidate' = [ackedCandidate EXCEPT ![slot] = Absent]
        /\ UNCHANGED <<disk, up, acked>>

(* Mutant: the loop over the table sectors does not advance *)
WriteSectorAgain ==
    /\ up
    /\ writer.active
    /\ writer.step < VerifyStep
    /\ disk' = [disk EXCEPT ![writer.slot] = Written(@, writer)]
    /\ writer' = [writer EXCEPT !.step = IF @ \in Tables THEN @ ELSE @ + 1]
    /\ UNCHANGED <<up, acked, ackedCandidate>>

(* Mutant: the loop runs one sector too far *)
WriteSectorPastEnd ==
    /\ up
    /\ writer.active
    /\ writer.step <= VerifyStep
    /\ disk' = [disk EXCEPT ![writer.slot] = Written(@, writer)]
    /\ writer' = [writer EXCEPT !.step = @ + 1]
    /\ UNCHANGED <<up, acked, ackedCandidate>>

WriteSector ==
    /\ up
    /\ writer.active
    /\ writer.step < VerifyStep
    /\ disk' = [disk EXCEPT ![writer.slot] = Written(@, writer)]
    /\ writer' = [writer EXCEPT !.step = @ + 1]
    /\ UNCHANGED <<up, acked, ackedCandidate>>

(* The device reports the write done and stores nothing. *)
LoseSector ==
    /\ LossyDevice
    /\ up
    /\ writer.active
    /\ writer.step < VerifyStep
    /\ writer.lost = Unlost
    /\ writer' = [writer EXCEPT !.step = @ + 1, !.lost = writer.step]
    /\ UNCHANGED <<disk, up, acked, ackedCandidate>>

(* The device reports an error, of a write or of the read-back: the        *)
(* operation stops where it is.                                            *)
FailSector ==
    /\ up
    /\ writer.active
    /\ \E image \in Interrupted(disk[writer.slot], writer) :
            disk' = [disk EXCEPT ![writer.slot] = image]
    /\ writer' = Idle
    /\ UNCHANGED <<up, acked, ackedCandidate>>

(* Mutant: success is reported without decoding what was read back *)
VerifyNothing ==
    LET written == [generation |-> writer.generation,
                    snapshot |-> writer.snapshot]
    IN  /\ up
        /\ writer.active
        /\ writer.step = VerifyStep
        /\ acked' = IF writer.slot \in OrdinarySlots THEN written ELSE acked
        /\ ackedCandidate' = IF writer.slot \in CandidateSlots
                             THEN [ackedCandidate EXCEPT ![writer.slot] = written]
                             ELSE ackedCandidate
        /\ writer' = Idle
        /\ UNCHANGED <<disk, up>>

(* The read-back: decode_slot for a checkpoint, the identity computed from *)
(* the image read for a candidate.  An undecodable image is an error.      *)
Verify ==
    LET image == disk[writer.slot]
    IN  /\ up
        /\ writer.active
        /\ writer.step = VerifyStep
        /\ acked' = IF writer.slot \in OrdinarySlots /\ Decodes(image)
                    THEN [generation |-> writer.generation,
                          snapshot |-> writer.snapshot]
                    ELSE acked
        /\ ackedCandidate' = IF writer.slot \in CandidateSlots
                             THEN [ackedCandidate EXCEPT
                                     ![writer.slot] = decode_candidate_slot(image)]
                             ELSE ackedCandidate
        /\ writer' = Idle
        /\ UNCHANGED <<disk, up>>

(* Power is lost, possibly in the middle of a sector write. *)
Crash ==
    /\ up
    /\ up' = FALSE
    /\ IF writer.active
       THEN \E image \in Interrupted(disk[writer.slot], writer) :
                disk' = [disk EXCEPT ![writer.slot] = image]
       ELSE disk' = disk
    /\ writer' = Idle
    /\ UNCHANGED <<acked, ackedCandidate>>

Boot ==
    /\ ~up
    /\ up' = TRUE
    /\ UNCHANGED <<disk, writer, acked, ackedCandidate>>

Next ==
    \/ \E snapshot \in Snapshots : BeginCheckpoint(snapshot)
    \/ \E generation \in CandidateGenerations, snapshot \in Snapshots :
            BeginCandidate(generation, snapshot)
    \/ WriteSector
    \/ LoseSector
    \/ FailSector
    \/ Verify
    \/ Crash
    \/ Boot

(* A checkpoint operation is one synchronous call: it runs on while the    *)
(* machine is up.  A stopped machine is eventually started again.          *)
Fairness == WF_vars(WriteSector) /\ WF_vars(Verify) /\ WF_vars(Boot)

Spec == Init /\ [][Next]_vars /\ Fairness

-----------------------------------------------------------------------------
(* Properties *)

(* TypeOK: every sector of every slot decodes as its kind or as nothing,   *)
(* and write_slot_image's loop stays within the slot.                      *)
TypeOK ==
    /\ disk \in [Slots -> Images]
    /\ writer \in Writers
    /\ up \in BOOLEAN
    /\ acked \in Checkpoints
    /\ ackedCandidate \in [CandidateSlots -> Checkpoints]

(* Whatever is interrupted, refused or lost, and at whichever sector, the  *)
(* checkpoint last reported as written by write_object_service_checkpoint  *)
(* or a later one is what a boot would restore, unchanged.                 *)
AckedRecoverable ==
    LET restored == Restored(disk)
    IN  /\ restored.generation >= acked.generation
        /\ restored.generation = acked.generation => restored = acked

(* A candidate whose identity was handed out by                            *)
(* write_object_service_candidate_checkpoint can be read back by that      *)
(* identity until another candidate of the same slot is begun; ordinary    *)
(* checkpoints and interrupted writes never disturb it.                    *)
CandidateReadableByIdentity ==
    \A s \in CandidateSlots :
        ackedCandidate[s] # Absent => CandidateReadable(disk, ackedCandidate[s])

(* On a device that keeps what it says it wrote, the generation a boot     *)
(* would restore never goes back, not even while a slot is rewritten.      *)
RestoredNeverRegresses ==
    [][Restored(disk').generation >= Restored(disk).generation]_vars

(* Every checkpoint operation ends, with a success, an error or a crash.   *)
WriterFinishes == writer.active ~> ~writer.active

(* The slots, seen from a boot, are one atomic register.                   *)
Register == INSTANCE AtomicCheckpoint WITH
    Contents <- Snapshots,
    Nothing <- Absent,
    cell <- Restored(disk),
    pending <- IF writer.active /\ writer.slot \in OrdinarySlots
               THEN [generation |-> writer.generation,
                     snapshot |-> writer.snapshot]
               ELSE Absent,
    confirmed <- acked

ImplementsRegister == Register!Spec
=============================================================================

--------------------------- MODULE SnapshotWindow ---------------------------
(***************************************************************************)
(* The reboot and torn-write proofs of the verification boot:              *)
(* persistent_objects.rs (sectors 30 to 32) and then                       *)
(* general_storage_persistence.rs (sectors 40 to 42).  Each keeps three    *)
(* sectors: a control sector the test harness arms, the snapshot, and a    *)
(* sector for the tail that is deliberately left without a commit marker.  *)
(*                                                                         *)
(* A sector is abstracted to what decode_snapshot tells apart.  A write is *)
(* two steps, handed to the device and finished; a device error or a power *)
(* cut in between leaves the old or the new sector.                        *)
(***************************************************************************)
EXTENDS Naturals, TLAPS

CONSTANTS
    Stores,       \* how many proofs the boot runs, in order
    MaxArms,      \* bound: times the harness arms a control sector
    MaxFaults     \* bound: power cuts and device errors

SnapshotWindowAssumption ==
    Stores \in Nat \ {0} /\ MaxArms \in Nat /\ MaxFaults \in Nat

VARIABLES
    disk,      \* the three sectors of each store
    at,        \* the store whose proof runs
    pc,        \* where it is
    write,     \* the write the device is working on
    marker,    \* the last marker each store has printed in this boot
    arms, faults,
    kept,      \* stores whose snapshot a boot has reported as PERSISTED
    torn       \* stores with a tail no boot has reported as recovered

vars == <<disk, at, pc, write, marker, arms, faults, kept, torn>>

StoreIds == 1 .. Stores

Sectors == {"control", "snapshot", "torn"}

NoWrite == [sector |-> "none", value |-> "zero", then |-> "off", failed |-> "off"]

Sector(s) == disk[at][s]

----------------------------------------------------------------------------
(* What the code sees in a sector *)

control_requests_torn_write(sector) == sector = "armed"

sector_is_empty(sector) == sector = "zero"

encode_snapshot(committed) == IF committed THEN "committed" ELSE "unmarked"

(* Mutant: the commit marker is not looked at *)
MutDecodeUnmarked(sector) ==
    CASE sector \in {"committed", "unmarked"} -> "Ok"
      [] OTHER -> "BadSnapshot"

(* Magic and version first, then the commit marker, then the checksum *)
decode_snapshot(sector) ==
    CASE sector = "committed" -> "Ok"
      [] sector = "unmarked" -> "TornWrite"
      [] OTHER -> "BadSnapshot"

verify_expected_snapshot(sector) == decode_snapshot(sector) = "Ok"

----------------------------------------------------------------------------

Init ==
    /\ disk = [s \in StoreIds |-> [k \in Sectors |-> "zero"]]
    /\ at = 1 /\ pc = "off" /\ write = NoWrite
    /\ marker = [s \in StoreIds |-> "none"]
    /\ arms = 0 /\ faults = 0
    /\ kept = {} /\ torn = {}

(* External: the harness arms a store while the machine is off *)
Arm(s) ==
    /\ pc = "off" /\ arms < MaxArms
    /\ disk' = [disk EXCEPT ![s]["control"] = "armed"]
    /\ arms' = arms + 1
    /\ UNCHANGED <<at, pc, write, marker, faults, kept, torn>>

PowerOn ==
    /\ pc = "off"
    /\ pc' = "control" /\ at' = 1
    /\ marker' = [s \in StoreIds |-> "none"]
    /\ UNCHANGED <<disk, write, arms, faults, kept, torn>>

Ask(sector, value, then, failed) ==
    /\ write' = [sector |-> sector, value |-> value, then |-> then, failed |-> failed]
    /\ pc' = "writing"

Say(m) == marker' = [marker EXCEPT ![at] = m]

(* run_self_test reads the control sector first *)
ReadControl ==
    /\ pc = "control"
    /\ IF control_requests_torn_write(Sector("control"))
       THEN pc' = "window" ELSE pc' = "stored"
    /\ UNCHANGED <<disk, at, write, marker, arms, faults, kept, torn>>

(* Mutant: the window disarms the control sector first *)
MutWindowDisarmsFirst ==
    \/ /\ pc = "window" /\ Ask("control", "zero", "window_torn", "spin")
       /\ UNCHANGED <<disk, at, marker, arms, faults, kept, torn>>
    \/ /\ pc = "window_torn" /\ Ask("torn", encode_snapshot(FALSE), "window_end", "spin")
       /\ UNCHANGED <<disk, at, marker, arms, faults, kept, torn>>
    \/ /\ pc = "window_end" /\ pc' = "spin" /\ Say("KILL_WINDOW")
       /\ UNCHANGED <<disk, at, write, arms, faults, kept, torn>>

(* write_torn_commit_window: the committed snapshot, then the torn tail,   *)
(* then the control sector is disarmed; whatever happens it then spins     *)
write_torn_commit_window ==
    \/ /\ pc = "window" /\ Ask("snapshot", encode_snapshot(TRUE), "window_torn", "spin")
       /\ UNCHANGED <<disk, at, marker, arms, faults, kept, torn>>
    \/ /\ pc = "window_torn" /\ Ask("torn", encode_snapshot(FALSE), "window_control", "spin")
       /\ UNCHANGED <<disk, at, marker, arms, faults, kept, torn>>
    \/ /\ pc = "window_control" /\ Ask("control", "zero", "window_end", "spin")
       /\ UNCHANGED <<disk, at, marker, arms, faults, kept, torn>>
    \/ /\ pc = "window_end" /\ pc' = "spin" /\ Say("KILL_WINDOW")
       /\ UNCHANGED <<disk, at, write, arms, faults, kept, torn>>

(* A snapshot that does not decode is written anew *)
Stored ==
    /\ pc = "stored"
    /\ IF decode_snapshot(Sector("snapshot")) # "Ok"
       THEN Ask("snapshot", encode_snapshot(TRUE), "created", "panic")
       ELSE pc' = "restored" /\ UNCHANGED write
    /\ UNCHANGED <<disk, at, marker, arms, faults, kept, torn>>

Created ==
    /\ pc = "created" /\ pc' = "restored" /\ Say("CREATED")
    /\ UNCHANGED <<disk, at, write, arms, faults, kept, torn>>

Restored ==
    /\ pc = "restored"
    /\ IF verify_expected_snapshot(Sector("snapshot"))
       THEN pc' = "torn" /\ Say("RESTORED") /\ kept' = kept \cup {at}
       ELSE pc' = "panic" /\ UNCHANGED <<marker, kept>>
    /\ UNCHANGED <<disk, at, write, arms, faults, torn>>

TornTail ==
    /\ pc = "torn"
    /\ CASE sector_is_empty(Sector("torn")) -> pc' = "next" /\ UNCHANGED write
         [] decode_snapshot(Sector("torn")) = "TornWrite" ->
              Ask("torn", "zero", "recovered", "panic")
         [] OTHER -> pc' = "panic" /\ UNCHANGED write
    /\ UNCHANGED <<disk, at, marker, arms, faults, kept, torn>>

Recovered ==
    /\ pc = "recovered" /\ pc' = "next" /\ Say("TORN_WRITE_RECOVERED")
    /\ torn' = torn \ {at}
    /\ UNCHANGED <<disk, at, write, arms, faults, kept>>

(* PHASE_7_COMPLETE leads to the next proof, PHASE_10_COMPLETE ends them *)
NextProof ==
    /\ pc = "next"
    /\ IF at < Stores THEN at' = at + 1 /\ pc' = "control"
       ELSE pc' = "done" /\ UNCHANGED at
    /\ UNCHANGED <<disk, write, marker, arms, faults, kept, torn>>

(* The device *)
After(applied) ==
    /\ IF applied
       THEN /\ disk' = [disk EXCEPT ![at][write.sector] = write.value]
            /\ torn' = IF write.sector = "torn" /\ write.value # "zero"
                       THEN torn \cup {at} ELSE torn
       ELSE UNCHANGED <<disk, torn>>
    /\ write' = NoWrite

write_sector ==
    /\ pc = "writing" /\ After(TRUE) /\ pc' = write.then
    /\ UNCHANGED <<at, marker, arms, faults, kept>>

DeviceError ==
    /\ pc = "writing" /\ faults < MaxFaults
    /\ \E applied \in BOOLEAN : After(applied)
    /\ pc' = write.failed /\ faults' = faults + 1
    /\ UNCHANGED <<at, marker, arms, kept>>

PowerCut ==
    /\ pc \notin {"off", "spin", "panic", "done"} /\ faults < MaxFaults
    /\ \/ pc = "writing" /\ \E applied \in BOOLEAN : After(applied)
       \/ pc # "writing" /\ UNCHANGED <<disk, torn, write>>
    /\ pc' = "off" /\ faults' = faults + 1
    /\ UNCHANGED <<at, marker, arms, kept>>

(* The harness ends a machine that spins, has left with a panic or has     *)
(* finished, and boots the same image again                                *)
EndBoot ==
    /\ pc \in {"spin", "panic", "done"}
    /\ pc' = "off"
    /\ UNCHANGED <<disk, at, write, marker, arms, faults, kept, torn>>

Kernel ==
    \/ ReadControl \/ write_torn_commit_window \/ Stored \/ Created
    \/ Restored \/ TornTail \/ Recovered \/ NextProof

Next ==
    \/ \E s \in StoreIds : Arm(s)
    \/ PowerOn \/ Kernel \/ write_sector \/ DeviceError \/ PowerCut \/ EndBoot

Spec == Init /\ [][Next]_vars

----------------------------------------------------------------------------

(* Type invariant of the two proofs and their sectors *)
TypeOK ==
    /\ \A s \in StoreIds :
          /\ disk[s]["control"] \in {"zero", "armed"}
          /\ disk[s]["snapshot"] \in {"zero", "committed"}
          /\ disk[s]["torn"] \in {"zero", "unmarked"}
    /\ at \in StoreIds
    /\ (pc = "writing") = (write # NoWrite)
    /\ arms \in 0 .. MaxArms /\ faults \in 0 .. MaxFaults

(* A snapshot that one boot reported as persisted is there at every later  *)
(* moment, power cuts and device errors included.                          *)
PersistedIsKept ==
    \A s \in kept : disk[s]["snapshot"] = "committed"

(* KILL_WINDOW is printed only once the snapshot is committed, the tail is *)
(* torn and the control sector is disarmed: the harness that kills the     *)
(* machine there finds a tail to recover and does not meet the window      *)
(* again.                                                                  *)
WindowIsComplete ==
    \A s \in StoreIds : marker[s] = "KILL_WINDOW" /\ pc = "spin" =>
        /\ disk[s]["snapshot"] = "committed"
        /\ disk[s]["torn"] = "unmarked"
        /\ disk[s]["control"] = "zero"

(* A store's tail is nonempty exactly while a tear is unreported, except   *)
(* for the step between clearing it and saying so: a recovery is announced *)
(* for every tear that reached the disk and for nothing else.              *)
RecoveryReportsRealTears ==
    \A s \in StoreIds :
        /\ disk[s]["torn"] = "unmarked" => s \in torn
        /\ marker[s] = "TORN_WRITE_RECOVERED" /\ at = s /\ pc = "next" => disk[s]["torn"] = "zero"
        /\ pc = "recovered" => at \in torn

(* What the two proofs of the verification boot keep at every moment. *)
WindowInv ==
    TypeOK /\ PersistedIsKept /\ WindowIsComplete /\ RecoveryReportsRealTears

----------------------------------------------------------------------------
(* Why WindowInv holds for any number of stores, arms and faults *)

(* The five writes the code asks for, each with what it stands on: the     *)
(* tail is torn only after the snapshot is committed, the control sector   *)
(* is disarmed only after the tail is torn, and only a torn tail is        *)
(* cleared.                                                                *)
SnapshotWrite(then, failed) ==
    write = [sector |-> "snapshot", value |-> "committed", then |-> then, failed |-> failed]

TearWrite ==
    /\ write = [sector |-> "torn", value |-> "unmarked", then |-> "window_control", failed |-> "spin"]
    /\ disk[at]["snapshot"] = "committed"

DisarmWrite ==
    /\ write = [sector |-> "control", value |-> "zero", then |-> "window_end", failed |-> "spin"]
    /\ disk[at]["snapshot"] = "committed" /\ disk[at]["torn"] = "unmarked"

ClearWrite ==
    /\ write = [sector |-> "torn", value |-> "zero", then |-> "recovered", failed |-> "panic"]
    /\ at \in torn

WriteIsPlanned ==
    \/ SnapshotWrite("window_torn", "spin") \/ TearWrite \/ DisarmWrite
    \/ SnapshotWrite("created", "panic") \/ ClearWrite

(* What the disk holds at the steps that follow a write, and the markers   *)
(* that allow no further step of this boot.                                *)
StepsFollowWrites ==
    /\ pc \in {"window_torn", "window_control", "window_end"} => disk[at]["snapshot"] = "committed"
    /\ pc \in {"window_control", "window_end"} => disk[at]["torn"] = "unmarked"
    /\ pc = "window_end" => disk[at]["control"] = "zero"
    /\ pc \in {"recovered", "next"} => disk[at]["torn"] = "zero"
    /\ \A s \in StoreIds : marker[s] = "KILL_WINDOW" => pc \in {"spin", "off"}

Contents == {"zero", "armed", "committed", "unmarked"}

Markers == {"none", "KILL_WINDOW", "CREATED", "RESTORED", "TORN_WRITE_RECOVERED"}

SectorsSound ==
    /\ disk \in [StoreIds -> [Sectors -> Contents]] /\ torn \subseteq StoreIds
    /\ \A s \in StoreIds :
          /\ disk[s]["control"] \in {"zero", "armed"}
          /\ disk[s]["snapshot"] \in {"zero", "committed"}
          /\ disk[s]["torn"] \in {"zero", "unmarked"}
          /\ disk[s]["torn"] = "unmarked" => s \in torn

IInv ==
    /\ SectorsSound /\ marker \in [StoreIds -> Markers] /\ kept \subseteq StoreIds
    /\ WindowInv
    /\ pc = "writing" => WriteIsPlanned
    /\ StepsFollowWrites

(* The initial state: empty sectors, no write under way. *)
LEMMA InitEstablishes ==
    ASSUME SnapshotWindowAssumption, Init
    PROVE  IInv
BY SMT DEF SnapshotWindowAssumption, Init, IInv, SectorsSound, Contents, Markers, Sectors, StoreIds,
       NoWrite, WindowInv, TypeOK, PersistedIsKept, WindowIsComplete,
       RecoveryReportsRealTears, StepsFollowWrites

(* A write that the device finishes or tears off is one of the five, and   *)
(* leaves the sectors typed, the reported snapshots committed and every    *)
(* nonempty tail unreported.                                               *)
LEMMA WriteEffect ==
    ASSUME SnapshotWindowAssumption, IInv, pc = "writing",
           NEW applied \in BOOLEAN, After(applied), at' = at, kept' = kept
    PROVE  write' = NoWrite /\ SectorsSound' /\ PersistedIsKept'
<1> USE DEF IInv, SectorsSound, Contents, Sectors, WindowInv, TypeOK, PersistedIsKept,
            RecoveryReportsRealTears
<1>1. CASE ~applied
  BY <1>1 DEF After
<1>2. CASE applied /\ (SnapshotWrite("window_torn", "spin") \/ SnapshotWrite("created", "panic"))
  <2>1. disk' = [disk EXCEPT ![at]["snapshot"] = "committed"] /\ torn' = torn
    BY <1>2 DEF After, SnapshotWrite
  <2> QED
    BY <1>2, <2>1 DEF After
<1>3. CASE applied /\ TearWrite
  <2>1. disk' = [disk EXCEPT ![at]["torn"] = "unmarked"] /\ torn' = torn \cup {at}
    BY <1>3 DEF After, TearWrite
  <2> QED
    BY <1>3, <2>1 DEF After
<1>4. CASE applied /\ DisarmWrite
  <2>1. disk' = [disk EXCEPT ![at]["control"] = "zero"] /\ torn' = torn
    BY <1>4 DEF After, DisarmWrite
  <2> QED
    BY <1>4, <2>1 DEF After
<1>5. CASE applied /\ ClearWrite
  <2>1. disk' = [disk EXCEPT ![at]["torn"] = "zero"] /\ torn' = torn
    BY <1>5 DEF After, ClearWrite
  <2> QED
    BY <1>5, <2>1 DEF After
<1> QED
  BY <1>1, <1>2, <1>3, <1>4, <1>5 DEF WriteIsPlanned

(* Every step keeps the invariant. *)
LEMMA StepPreserves ==
    ASSUME SnapshotWindowAssumption, IInv, [Next]_vars
    PROVE  IInv'
<1> USE DEF SnapshotWindowAssumption, IInv, SectorsSound, Contents, Markers, Sectors, StoreIds,
        NoWrite, WindowInv, TypeOK, PersistedIsKept, WindowIsComplete,
        RecoveryReportsRealTears, StepsFollowWrites, WriteIsPlanned,
        SnapshotWrite, TearWrite, DisarmWrite, ClearWrite
<1>1. ASSUME NEW s \in StoreIds, Arm(s) PROVE IInv'
  BY <1>1 DEF Arm
<1>2. CASE PowerOn
  BY <1>2 DEF PowerOn
<1>3. CASE ReadControl
  BY <1>3 DEF ReadControl, control_requests_torn_write
<1>4. CASE write_torn_commit_window
  <2>1. CASE pc = "window"
    <3>1. /\ write' = [sector |-> "snapshot", value |-> "committed",
                      then |-> "window_torn", failed |-> "spin"] /\ pc' = "writing"
          /\ UNCHANGED <<disk, at, marker, arms, faults, kept, torn>>
      BY <1>4, <2>1 DEF write_torn_commit_window, Ask, encode_snapshot
    <3>2. write' # NoWrite
      BY <3>1
    <3> QED
      BY <2>1, <3>1, <3>2
  <2>2. CASE pc = "window_torn"
    <3>1. /\ write' = [sector |-> "torn", value |-> "unmarked",
                      then |-> "window_control", failed |-> "spin"] /\ pc' = "writing"
          /\ UNCHANGED <<disk, at, marker, arms, faults, kept, torn>>
      BY <1>4, <2>2 DEF write_torn_commit_window, Ask, encode_snapshot
    <3>2. write' # NoWrite
      BY <3>1
    <3> QED
      BY <2>2, <3>1, <3>2
  <2>3. CASE pc = "window_control"
    <3>1. /\ write' = [sector |-> "control", value |-> "zero",
                      then |-> "window_end", failed |-> "spin"] /\ pc' = "writing"
          /\ UNCHANGED <<disk, at, marker, arms, faults, kept, torn>>
      BY <1>4, <2>3 DEF write_torn_commit_window, Ask, encode_snapshot
    <3>2. write' # NoWrite
      BY <3>1
    <3> QED
      BY <2>3, <3>1, <3>2
  <2>4. CASE pc = "window_end"
    <3>1. /\ marker' = [marker EXCEPT ![at] = "KILL_WINDOW"] /\ pc' = "spin"
          /\ UNCHANGED <<disk, at, write, arms, faults, kept, torn>>
      BY <1>4, <2>4 DEF write_torn_commit_window, Say
    <3> QED
      BY <2>4, <3>1
  <2> QED
    BY <1>4, <2>1, <2>2, <2>3, <2>4 DEF write_torn_commit_window
<1>5. CASE Stored
  BY <1>5 DEF Stored, Ask, Sector, encode_snapshot, decode_snapshot
<1>6. CASE Created
  BY <1>6 DEF Created, Say
<1>7. CASE Restored
  <2>1. CASE disk[at]["snapshot"] = "committed"
    <3>1. /\ marker' = [marker EXCEPT ![at] = "RESTORED"]
          /\ kept' = kept \cup {at} /\ pc' = "torn"
      BY <1>7, <2>1 DEF Restored, Say, Sector, verify_expected_snapshot, decode_snapshot
    <3> QED
      BY <1>7, <2>1, <3>1 DEF Restored
  <2>2. CASE disk[at]["snapshot"] # "committed"
    <3>1. pc' = "panic" /\ UNCHANGED <<marker, kept>>
      BY <1>7, <2>2 DEF Restored, Sector, verify_expected_snapshot, decode_snapshot
    <3> QED
      BY <1>7, <3>1 DEF Restored
  <2> QED
    BY <2>1, <2>2
<1>8. CASE TornTail
  BY <1>8 DEF TornTail, Ask, Sector, sector_is_empty, decode_snapshot
<1>9. CASE Recovered
  BY <1>9 DEF Recovered, Say
<1>10. CASE NextProof
  BY <1>10 DEF NextProof
<1>11. CASE write_sector
  <2>1. After(TRUE)
    BY <1>11 DEF write_sector
  <2>2. write' = NoWrite /\ SectorsSound' /\ PersistedIsKept'
    BY <1>11, <2>1, WriteEffect DEF write_sector
  <2>3. CASE SnapshotWrite("window_torn", "spin")
    <3>1. disk' = [disk EXCEPT ![at]["snapshot"] = "committed"] /\ pc' = "window_torn"
      BY <1>11, <2>3 DEF write_sector, After
    <3> QED
      BY <1>11, <2>2, <3>1 DEF write_sector
  <2>4. CASE TearWrite
    <3>1. disk' = [disk EXCEPT ![at]["torn"] = "unmarked"] /\ pc' = "window_control"
      BY <1>11, <2>4 DEF write_sector, After
    <3> QED
      BY <1>11, <2>2, <2>4, <3>1 DEF write_sector
  <2>5. CASE DisarmWrite
    <3>1. disk' = [disk EXCEPT ![at]["control"] = "zero"] /\ pc' = "window_end"
      BY <1>11, <2>5 DEF write_sector, After
    <3> QED
      BY <1>11, <2>2, <2>5, <3>1 DEF write_sector
  <2>6. CASE SnapshotWrite("created", "panic")
    <3>1. pc' = "created"
      BY <1>11, <2>6 DEF write_sector
    <3> QED
      BY <1>11, <2>2, <3>1 DEF write_sector
  <2>7. CASE ClearWrite
    <3>1. /\ disk' = [disk EXCEPT ![at]["torn"] = "zero"]
          /\ pc' = "recovered" /\ torn' = torn
      BY <1>11, <2>7 DEF write_sector, After
    <3> QED
      BY <1>11, <2>2, <2>7, <3>1 DEF write_sector
  <2> QED
    BY <1>11, <2>3, <2>4, <2>5, <2>6, <2>7 DEF write_sector
<1>12. CASE DeviceError
  <2>1. PICK applied \in BOOLEAN : After(applied)
    BY <1>12 DEF DeviceError
  <2>2. pc' \in {"spin", "panic"}
    BY <1>12 DEF DeviceError
  <2>3. write' = NoWrite /\ SectorsSound' /\ PersistedIsKept'
    BY <1>12, <2>1, WriteEffect DEF DeviceError
  <2> QED
    BY <1>12, <2>2, <2>3 DEF DeviceError
<1>13. CASE PowerCut
  <2>1. CASE pc = "writing"
    <3>1. PICK applied \in BOOLEAN : After(applied)
      BY <1>13, <2>1 DEF PowerCut
    <3>2. write' = NoWrite /\ SectorsSound' /\ PersistedIsKept'
      BY <1>13, <2>1, <3>1, WriteEffect DEF PowerCut
    <3>3. pc' = "off" /\ faults' \in 0 .. MaxFaults /\ UNCHANGED <<at, marker, arms, kept>>
      BY <1>13 DEF PowerCut
    <3> QED
      BY <2>1, <3>2, <3>3
  <2>2. CASE pc # "writing"
    <3>1. /\ pc' = "off" /\ faults' \in 0 .. MaxFaults
          /\ UNCHANGED <<disk, at, write, marker, arms, kept, torn>>
      BY <1>13, <2>2 DEF PowerCut
    <3> QED
      BY <2>2, <3>1
  <2> QED
    BY <2>1, <2>2
<1>14. CASE EndBoot
  BY <1>14 DEF EndBoot
<1>15. CASE UNCHANGED vars
  BY <1>15 DEF vars
<1> QED
  BY <1>1, <1>2, <1>3, <1>4, <1>5, <1>6, <1>7, <1>8, <1>9, <1>10, <1>11,
     <1>12, <1>13, <1>14, <1>15 DEF Next, Kernel

(* Over any number of boots, with any store interrupted before or after    *)
(* any sector write, the verification boot reports no snapshot that is not *)
(* kept, opens the kill window only when all three of its writes are on    *)
(* the disk, and reports a recovered tear only where a tear was.           *)
THEOREM WindowHolds ==
    ASSUME SnapshotWindowAssumption PROVE Spec => []WindowInv
<1>1. Init => IInv
  BY InitEstablishes
<1>2. IInv /\ [Next]_vars => IInv'
  BY StepPreserves
<1>3. IInv => WindowInv
  BY DEF IInv
<1> QED
  BY <1>1, <1>2, <1>3, PTL DEF Spec
=============================================================================

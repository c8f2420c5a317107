------------------------------ MODULE SdhciEmmc ------------------------------
(***************************************************************************)
(* The eMMC back end (core/src/sdhci.rs, sdhci_emmc.rs): bring-up of host  *)
(* controller and card and single block reads and writes by programmed     *)
(* I/O, all by polling.  The driver is straight-line code made of a few    *)
(* kinds of steps: enable status bits, wait until the data line is free,   *)
(* issue a command, await a status bit, move the block.  Each operation is *)
(* such a program; a failing step ends it, and nothing is reset after.     *)
(*                                                                         *)
(* Host controller and card run beside it: a bit of the status register is *)
(* latched only while enabled, a response may be lost, a data phase may be *)
(* given up by the host, and the card programs a block after the transfer. *)
(* The card never fails to program: the driver does not read the R1 error  *)
(* bits, so no step of it would tell such a card from a good one.          *)
(***************************************************************************)
EXTENDS Naturals, Sequences

CONSTANTS
    Capacity,     \* sectors of the card
    Values, Blank,
    BlockBytes,   \* EMMC_LOGICAL_BLOCK_SIZE
    MaxArgument,  \* u32::MAX
    Attempts      \* EMMC_OCR_ATTEMPT_LIMIT, EMMC_WRITE_READY_ATTEMPT_LIMIT

SdhciEmmcAssumption ==
    /\ Capacity \in Nat /\ BlockBytes \in Nat /\ MaxArgument \in Nat /\ Attempts \in Nat
    /\ BlockBytes > 0 /\ Attempts > 0 /\ Blank \notin Values

Sectors == 0 .. Capacity - 1

VARIABLES
    phase,          \* "off", "bring_up", "up", "absent"
    program, at,    \* the operation and its current step
    sent,           \* the command of the step: "no", "cleared", "yes"
    attempts,       \* of CMD1 or CMD13
    block,          \* the block read, or to be written
    addressing, capacity,   \* the EmmcCard of the driver
    call, answer,
    host,           \* registers and FIFO of the controller
    card,           \* state, operation and program buffer of the card
    medium,
    late            \* history: the write a failed request left with the card

driver == <<phase, program, at, sent, attempts, block, addressing, capacity, call, answer, late>>
vars == <<driver, host, card, medium>>

NoCall == [op |-> "none"]
Calls == [op : {"read"}, sector : 0 .. Capacity]
         \cup [op : {"write"}, sector : 0 .. Capacity, value : Values]
Failed == [ok |-> FALSE, value |-> Blank]
Done(v) == [ok |-> TRUE, value |-> v]

Step(kind, what) == [kind |-> kind, what |-> what]
Enable(bits) == Step("enable", bits)
Free == Step("free", "")
Await(bit) == Step("await", bit)
Command(index) == Step("command", index)
Move == Step("move", "")

IdentificationBits == {"cc", "err"}
ReadBits == {"cc", "tc", "brr", "err"}
WriteBits == {"cc", "tc", "bwr", "err"}

ReadTransfer(index) ==
    <<Enable(ReadBits), Free, Command(index), Await("brr"), Move, Await("tc")>>

(* identify_emmc_with_io, select_card, set_block_length_512, read_ext_csd *)
initialize_emmc_card ==
    <<Enable(IdentificationBits), Command(0), Command(1), Command(2), Command(3), Command(9),
      Command(7), Free, Command(16), Free>> \o ReadTransfer(8)

read_single_block == ReadTransfer(17)

write_single_block ==
    <<Enable(WriteBits), Free, Command(24), Await("bwr"), Move, Await("tc"), Command(13)>>

Quiet == [inhibit |-> FALSE, command |-> <<>>, status |-> {}, enabled |-> {}, fifo |-> <<>>]

Init ==
    /\ phase = "off" /\ program = << >> /\ at = 0 /\ sent = "no" /\ attempts = 0
    /\ block = Blank /\ addressing = "none" /\ capacity = 0
    /\ call = NoCall /\ answer = Failed /\ late = NoCall
    /\ host = Quiet
    /\ card \in {[state |-> "idle", mode |-> m, sectors |-> n, sector |-> 0, write |-> NoCall,
                  buffer |-> Blank] : m \in {"Byte", "Sector"}, n \in {0, Capacity}}
    /\ medium = [s \in Sectors |-> Blank]

-----------------------------------------------------------------------------
(* Starting and ending an operation                                        *)

(* initialize_with_io: reset, clock and power, then the identification *)
initialize_device ==
    /\ phase = "off" /\ phase' = "bring_up"
    /\ program' = initialize_emmc_card /\ at' = 1 /\ host' = Quiet
    /\ UNCHANGED <<sent, attempts, block, addressing, capacity, call, answer, late, card, medium>>

initialize_fails ==
    /\ phase = "off" /\ phase' = "absent"
    /\ UNCHANGED <<program, at, sent, attempts, block, addressing, capacity, call, answer, late,
                   host, card, medium>>

command_argument(mode, lba) == IF mode = "Sector" THEN lba ELSE lba * BlockBytes

checked(lba) == lba < capacity /\ command_argument(addressing, lba) <= MaxArgument

(* read_sector, write_sector: no register is touched for a bad address *)
sector_request(c) ==
    /\ phase = "up" /\ call = NoCall
    /\ IF checked(c.sector)
       THEN /\ call' = c /\ at' = 1
            /\ program' = IF c.op = "read" THEN read_single_block ELSE write_single_block
            /\ block' = IF c.op = "read" THEN Blank ELSE c.value
            /\ UNCHANGED answer
       ELSE answer' = Failed /\ UNCHANGED <<call, at, program, block>>
    /\ UNCHANGED <<phase, sent, attempts, addressing, capacity, late, host, card, medium>>

Reset == sent' = "no" /\ attempts' = 0

Fail ==
    /\ Reset /\ answer' = Failed
    /\ IF phase = "up" THEN UNCHANGED phase ELSE phase' = "absent"
    /\ call' = NoCall /\ program' = << >> /\ at' = 0
    /\ late' = IF card.state \in {"rcv", "prg"} THEN card.write ELSE NoCall
    /\ UNCHANGED <<block, addressing, capacity, card, medium>>

(* After the last step: the card is known, or the request is answered *)
operation_ends ==
    /\ at > 0 /\ at > Len(program)
    /\ IF phase = "bring_up"
       THEN /\ phase' = IF card.sectors = 0 THEN "absent" ELSE "up"
            /\ addressing' = card.mode /\ capacity' = card.sectors
            /\ UNCHANGED answer
       ELSE /\ answer' = Done(IF call.op = "read" THEN block ELSE Blank)
            /\ UNCHANGED <<phase, addressing, capacity>>
    /\ call' = NoCall /\ program' = << >> /\ at' = 0 /\ late' = NoCall
    /\ UNCHANGED <<sent, attempts, block, host, card, medium>>

At(kind) == at \in DOMAIN program /\ program[at].kind = kind
What == program[at].what
Onwards == at' = at + 1 /\ Reset

-----------------------------------------------------------------------------
(* The steps                                                               *)

enable_status_reporting ==
    /\ At("enable") /\ Onwards
    /\ host' = [host EXCEPT !.enabled = What]
    /\ UNCHANGED <<phase, program, block, addressing, capacity, call, answer, late, card, medium>>

wait_data_not_inhibited ==
    /\ At("free") /\ ~host.inhibit /\ Onwards
    /\ UNCHANGED <<phase, program, block, addressing, capacity, call, answer, late, host, card,
                   medium>>

clear_interrupt_status ==
    /\ At("command") /\ sent = "no" /\ host.command = << >>
    /\ host' = [host EXCEPT !.status = {}] /\ sent' = "cleared"
    /\ UNCHANGED <<phase, program, at, attempts, block, addressing, capacity, call, answer, late,
                   card, medium>>

Argument == IF call = NoCall THEN 0 ELSE command_argument(addressing, call.sector)

issue_command ==
    /\ At("command") /\ sent = "cleared" /\ sent' = "yes"
    /\ host' = [host EXCEPT !.command = <<What, Argument>>,
                            !.inhibit = @ \/ What \in {8, 17, 24}]
    /\ UNCHANGED <<phase, program, at, attempts, block, addressing, capacity, call, answer, late,
                   card, medium>>

Erred == host.status \cap {"err"} # {}

(* The response; CMD1 and CMD13 are repeated until the card is ready *)
wait_command_complete ==
    /\ At("command") /\ sent = "yes" /\ ~Erred /\ "cc" \in host.status
    /\ host' = [host EXCEPT !.status = @ \ {"cc"}]
    /\ \E ready \in IF What = 1 THEN BOOLEAN
                    ELSE {What = 13 => card.state # "prg"} :
          \/ ready /\ Onwards
          \/ ~ready /\ attempts + 1 < Attempts
             /\ attempts' = attempts + 1 /\ sent' = "no" /\ UNCHANGED at
    /\ UNCHANGED <<phase, program, block, addressing, capacity, call, answer, late, card, medium>>

never_ready ==
    /\ At("command") /\ What \in {1, 13} /\ sent = "yes" /\ ~Erred /\ "cc" \in host.status
    /\ attempts + 1 = Attempts /\ (What = 13 => card.state = "prg")
    /\ Fail
    /\ host' = [host EXCEPT !.status = @ \ {"cc"}]

wait_data_status ==
    /\ At("await") /\ ~Erred /\ What \in host.status /\ Onwards
    /\ host' = IF What = "tc" THEN [host EXCEPT !.status = @ \ {"tc", "brr", "bwr"}] ELSE host
    /\ UNCHANGED <<phase, program, block, addressing, capacity, call, answer, late, card, medium>>

(* An error is written back and ends the operation *)
status_error ==
    /\ At("await") \/ (At("command") /\ sent = "yes")
    /\ Erred /\ Fail
    /\ host' = [host EXCEPT !.status = {}]

(* The data port: an empty FIFO gives no data of the card, and without a   *)
(* transfer in progress the host ignores what is written                   *)
move_block ==
    /\ At("move") /\ Onwards
    /\ IF program[at - 1].what = "brr"
       THEN /\ block' = IF host.fifo = << >> THEN Blank ELSE host.fifo[1]
            /\ host' = [host EXCEPT !.fifo = << >>]
       ELSE /\ host' = [host EXCEPT !.fifo = IF host.inhibit THEN <<block>> ELSE @]
            /\ UNCHANGED block
    /\ UNCHANGED <<phase, program, addressing, capacity, call, answer, late, card, medium>>

poll_timeout ==
    /\ \/ At("free") /\ host.inhibit
       \/ At("command") /\ sent = "no" /\ host.command # << >>
       \/ At("command") /\ sent = "yes" /\ host.status = {}
       \/ At("await") /\ ~Erred /\ What \notin host.status
    /\ Fail /\ UNCHANGED host

-----------------------------------------------------------------------------
(* Host controller and card                                                *)

Latch(bits) == host.status \cup (bits \cap host.enabled)

CardAddress(argument) == IF card.mode = "Sector" THEN argument ELSE argument \div BlockBytes

(* What a command does in a state it is legal in *)
CardStep(index, argument) ==
    CASE index = 0 -> [card EXCEPT !.state = "idle"]
      [] index = 1 /\ card.state \in {"idle", "ready"} -> [card EXCEPT !.state = "ready"]
      [] index = 2 /\ card.state = "ready" -> [card EXCEPT !.state = "ident"]
      [] index = 3 /\ card.state = "ident" -> [card EXCEPT !.state = "stby"]
      [] index = 9 /\ card.state = "stby" -> card
      [] index = 7 /\ card.state = "stby" -> [card EXCEPT !.state = "tran"]
      [] index \in {13, 16} /\ card.state \in {"tran", "prg"} -> card
      [] index = 8 /\ card.state = "tran" -> [card EXCEPT !.state = "ext"]
      [] index = 17 /\ card.state = "tran" ->
            [card EXCEPT !.state = "data", !.sector = CardAddress(argument)]
      [] index = 24 /\ card.state = "tran" ->
            [card EXCEPT !.state = "rcv", !.sector = CardAddress(argument), !.write = call]
      [] OTHER -> [card EXCEPT !.state = "illegal"]

Taken == CardStep(host.command[1], host.command[2])

CardResponds ==
    /\ host.command # << >> /\ Taken.state # "illegal"
    /\ card' = Taken
    /\ \E bits \in {{"cc"}, {"err"}} :
          host' = [host EXCEPT !.command = << >>, !.status = Latch(bits)]
    /\ UNCHANGED <<driver, medium>>

(* No response: the card did not hear the command or may not obey it *)
CommandLost ==
    /\ host.command # << >>
    /\ host' = [host EXCEPT !.command = << >>, !.status = Latch({"err"}),
                            !.inhibit = IF host.command[1] \in {8, 17, 24} THEN FALSE ELSE @]
    /\ UNCHANGED <<driver, card, medium>>

DataArrives ==
    /\ card.state \in {"data", "ext"} /\ host.command = << >> /\ host.fifo = << >>
    /\ host.inhibit /\ "brr" \notin host.status
    /\ host' = [host EXCEPT !.status = Latch({"brr"}),
                            !.fifo = <<IF card.state = "data" THEN medium[card.sector] ELSE Blank>>]
    /\ UNCHANGED <<driver, card, medium>>

ReadCompletes ==
    /\ card.state \in {"data", "ext"} /\ host.fifo = << >> /\ "brr" \in host.status
    /\ host' = [host EXCEPT !.status = Latch({"tc"}), !.inhibit = FALSE]
    /\ card' = [card EXCEPT !.state = "tran"]
    /\ UNCHANGED <<driver, medium>>

BufferFree ==
    /\ card.state = "rcv" /\ host.command = << >> /\ host.fifo = << >>
    /\ "bwr" \notin host.status
    /\ host' = [host EXCEPT !.status = Latch({"bwr"})]
    /\ UNCHANGED <<driver, card, medium>>

(* The transfer is complete while the card goes on programming *)
WriteCompletes ==
    /\ card.state = "rcv" /\ host.fifo # << >>
    /\ host' = [host EXCEPT !.status = Latch({"tc"}), !.inhibit = FALSE, !.fifo = << >>]
    /\ card' = [card EXCEPT !.state = "prg", !.buffer = host.fifo[1]]
    /\ UNCHANGED <<driver, medium>>

CardPrograms ==
    /\ card.state = "prg"
    /\ medium' = [medium EXCEPT ![card.sector] = card.buffer]
    /\ card' = [card EXCEPT !.state = "tran"]
    /\ UNCHANGED <<driver, host>>

(* The data timeout of the host: the transfer is given up *)
DataGivenUp ==
    /\ card.state \in {"data", "ext", "rcv"} /\ host.command = << >> /\ host.inhibit
    /\ host' = [host EXCEPT !.status = Latch({"err"}), !.inhibit = FALSE, !.fifo = << >>]
    /\ card' = [card EXCEPT !.state = "tran"]
    /\ UNCHANGED <<driver, medium>>

-----------------------------------------------------------------------------
Driver ==
    \/ initialize_device \/ initialize_fails
    \/ operation_ends
    \/ enable_status_reporting \/ wait_data_not_inhibited
    \/ clear_interrupt_status \/ issue_command \/ wait_command_complete \/ never_ready
    \/ wait_data_status \/ status_error \/ move_block \/ poll_timeout

Device ==
    \/ CardResponds \/ CommandLost \/ DataArrives \/ ReadCompletes \/ BufferFree
    \/ WriteCompletes \/ CardPrograms \/ DataGivenUp

Next ==
    \/ Driver \/ Device
    \/ \E c \in Calls : sector_request(c)

(* The driver polls on; of host and card nothing is assumed *)
Spec == Init /\ [][Next]_vars /\ WF_vars(Driver)

-----------------------------------------------------------------------------
(* Properties                                                              *)

(* TypeOK: in particular a block command names a sector the card has.      *)
TypeOK ==
    /\ phase \in {"off", "bring_up", "up", "absent"} /\ attempts < Attempts
    /\ call # NoCall => phase = "up" /\ program # << >>
    /\ card.sector \in Sectors
    /\ host.status \subseteq {"cc", "tc", "brr", "bwr", "err"}
    /\ medium \in [Sectors -> Values \cup {Blank}]

(* StoreImplemented: whatever is lost, late or given up, a good read        *)
(* returned the sector, a good write is programmed, and no sector changes  *)
(* but that of a write that was asked for (read_single_block,              *)
(* write_single_block).                                                    *)
Store == INSTANCE SectorStore WITH disk <- medium
StoreImplemented == Store!Spec

=============================================================================

--------------------------- MODULE StorageJournal ---------------------------
(***************************************************************************)
(* The write path of the storage service: the capability gate             *)
(* (core/src/storage_service.rs), the append-only journal of write         *)
(* intents (storage_journal.rs), the serialising write gate                *)
(* (storage_concurrency.rs) and the block quotas (storage_quotas.rs).      *)
(*                                                                         *)
(* Services call these on tables of their own; structure says which of     *)
(* them this behaviour drives.  A journal's caller commits each record     *)
(* before it appends the next one.                                         *)
(***************************************************************************)
EXTENDS CapabilityTable, Sequences, SequencesExt

CONSTANTS
    Services,            \* registered service identities
    Owner,               \* the service the two storage capabilities go to
    Readers,             \* services that may only read
    CapacitySectors,     \* capacity of the selected device
    JOURNAL_CAPACITY,    \* records of the journal (8)
    GenerationMax,       \* stands for u64::MAX of the write gate
    MaxStorageQuotas,    \* MAX_STORAGE_QUOTAS (4)
    MaxBlocks            \* the largest limit a quota is registered with

StorageJournalAssumption ==
    /\ Owner \in Services /\ Readers \subseteq Services \ {Owner}
    /\ CapacitySectors \in Nat /\ MaxBlocks \in Nat
    /\ JOURNAL_CAPACITY \in Nat \ {0} /\ GenerationMax \in Nat \ {0, 1}
    /\ MaxStorageQuotas \in Nat \ {0}

VARIABLES
    structure,   \* "journal", "gate" or "quotas"
    table,       \* the capability table
    journal,     \* AppendOnlyJournal
    gate,        \* StorageWriteGate: owner and generation
    tokens,      \* every WriteToken handed out, spent or not
    quotas,      \* StorageQuotaTable: the active records
    charged      \* blocks each service holds

vars == <<structure, table, journal, gate, tokens, quotas, charged>>

STORAGE_RESOURCE_ID == "storage"

NoService == "none"

ReadWrite == {"READ", "WRITE"}

(* The grants of the self tests: the owner gets a handle to read and write *)
(* and one to read, every other service one handle                         *)
Grants ==
    LET g1 == grant(EmptyTable, Owner, STORAGE_RESOURCE_ID, ReadWrite).table
        g2 == grant(g1, Owner, STORAGE_RESOURCE_ID, {"READ"}).table
        Rest(s) == IF s \in Readers THEN {"READ"} ELSE ReadWrite
    IN FoldSet(LAMBDA s, t : grant(t, s, STORAGE_RESOURCE_ID, Rest(s)).table,
               g2, Services \ {Owner})

Handles == {Handle(s, 1) : s \in 1 .. CapabilitySlots}

----------------------------------------------------------------------------
(* The storage service *)

Requests == [operation : {"Read", "Write"}, start_sector : 0 .. CapacitySectors,
             sector_count : 0 .. 2]

required_rights(request) ==
    IF request.operation = "Read" THEN {"READ"} ELSE {"WRITE"}

validate_range(request) ==
    /\ request.sector_count # 0
    /\ request.start_sector + request.sector_count <= CapacitySectors

authorize_request(caller, handle, request) ==
    /\ validate(table, caller, handle, STORAGE_RESOURCE_ID, required_rights(request))
    /\ validate_range(request)

----------------------------------------------------------------------------
(* The journal of write intents *)

validate_committed(record) == record.commit_marker /\ record.sound

recover_committed_prefix(records) ==
    LET n == Max({0} \cup {i \in 1 .. Len(records) :
                       \A j \in 1 .. i : validate_committed(records[j])})
    IN [replayed_records |-> n, rolled_back_records |-> Len(records) - n,
        last_sequence |-> IF n = 0 THEN 0 ELSE records[n].sequence]

Pending == journal # <<>> /\ ~ Last(journal).commit_marker

(* append_write: reads are refused, and so is a write when the journal is  *)
(* full                                                                    *)
append_write(caller, request) ==
    /\ request.operation = "Write"
    /\ Len(journal) < JOURNAL_CAPACITY
    /\ journal' = Append(journal,
           [sequence |-> Len(journal) + 1, request |-> request, by |-> caller,
            sound |-> FALSE, commit_marker |-> FALSE])

journal_first_write(caller, handle, request) ==
    /\ structure = "journal" /\ ~ Pending
    /\ authorize_request(caller, handle, request)
    /\ append_write(caller, request)
    /\ UNCHANGED <<structure, table, gate, tokens, quotas, charged>>

commit_last ==
    /\ structure = "journal" /\ Pending
    /\ journal' = [journal EXCEPT ![Len(journal)].sound = TRUE,
                                  ![Len(journal)].commit_marker = TRUE]
    /\ UNCHANGED <<structure, table, gate, tokens, quotas, charged>>

(* The medium spoils the checksum of one committed record *)
Spoil(i) ==
    /\ structure = "journal" /\ ~ Pending
    /\ \A j \in DOMAIN journal : journal[j].sound
    /\ i \in DOMAIN journal
    /\ journal' = [journal EXCEPT ![i].sound = FALSE]
    /\ UNCHANGED <<structure, table, gate, tokens, quotas, charged>>

----------------------------------------------------------------------------
(* The write gate *)

(* The owner is written before the generation is advanced: at the last     *)
(* generation the call fails, hands out no token and leaves the gate taken *)
begin_write(caller, handle) ==
    /\ structure = "gate"
    /\ validate(table, caller, handle, STORAGE_RESOURCE_ID, {"WRITE"})
    /\ gate.owner = NoService
    /\ IF gate.generation < GenerationMax
       THEN /\ gate' = [owner |-> caller, generation |-> gate.generation + 1]
            /\ tokens' = tokens \cup {[owner |-> caller, generation |-> gate.generation]}
       ELSE gate' = [gate EXCEPT !.owner = caller] /\ UNCHANGED tokens
    /\ UNCHANGED <<structure, table, journal, quotas, charged>>

(* Mutant: any token of the current owner is good *)
MutOwnerOnly(token) == gate.owner = token.owner

Current(token) ==
    gate.owner = token.owner /\ gate.generation = token.generation + 1

(* A token is a value: its holder may present it again after the commit *)
commit_write(token) ==
    /\ structure = "gate"
    /\ Current(token)
    /\ gate' = [gate EXCEPT !.owner = NoService]
    /\ UNCHANGED <<structure, table, journal, tokens, quotas, charged>>

Revoke(handle) ==
    /\ structure \in {"journal", "gate"}
    /\ Live(table, handle) /\ table[handle.slot].state = "Active"
    /\ table' = revoke(table, handle)
    /\ UNCHANGED <<structure, journal, gate, tokens, quotas, charged>>

----------------------------------------------------------------------------
(* The block quotas *)

Registered == DOMAIN quotas

register(service, max_blocks) ==
    /\ structure = "quotas"
    /\ service \notin Registered
    /\ Cardinality(Registered) < MaxStorageQuotas
    /\ quotas' = [s \in Registered \cup {service} |->
                    IF s = service THEN [max_blocks |-> max_blocks, used_blocks |-> 0]
                    ELSE quotas[s]]
    /\ UNCHANGED <<structure, table, journal, gate, tokens, charged>>

charge_blocks(service, blocks) ==
    /\ structure = "quotas" /\ service \in Registered
    /\ quotas[service].used_blocks + blocks <= quotas[service].max_blocks
    /\ quotas' = [quotas EXCEPT ![service].used_blocks = @ + blocks]
    /\ charged' = [charged EXCEPT ![service] = @ + blocks]
    /\ UNCHANGED <<structure, table, journal, gate, tokens>>

ensure_minimum_limit(service, min_blocks) ==
    /\ structure = "quotas" /\ service \in Registered
    /\ quotas[service].max_blocks < min_blocks
    /\ quotas' = [quotas EXCEPT ![service].max_blocks = min_blocks]
    /\ UNCHANGED <<structure, table, journal, gate, tokens, charged>>

(* More than is used is refused (checked_sub); the caller gives back       *)
(* blocks it holds                                                         *)
release_blocks(service, blocks) ==
    /\ structure = "quotas" /\ service \in Registered
    /\ blocks <= charged[service]
    /\ blocks <= quotas[service].used_blocks
    /\ quotas' = [quotas EXCEPT ![service].used_blocks = @ - blocks]
    /\ charged' = [charged EXCEPT ![service] = @ - blocks]
    /\ UNCHANGED <<structure, table, journal, gate, tokens>>

----------------------------------------------------------------------------

Init ==
    /\ structure \in {"journal", "gate", "quotas"}
    /\ table = Grants
    /\ journal = <<>>
    /\ gate = [owner |-> NoService, generation |-> 1]
    /\ tokens = {}
    /\ quotas = [s \in {} |-> 0]
    /\ charged = [s \in Services |-> 0]

Next ==
    \/ \E caller \in Services, handle \in Handles :
          \/ \E request \in Requests : journal_first_write(caller, handle, request)
          \/ begin_write(caller, handle)
    \/ commit_last
    \/ \E i \in 1 .. JOURNAL_CAPACITY : Spoil(i)
    \/ \E token \in tokens : commit_write(token)
    \/ \E handle \in Handles : Revoke(handle)
    \/ \E service \in Services :
          \/ \E limit \in 1 .. MaxBlocks :
                register(service, limit) \/ ensure_minimum_limit(service, limit)
          \/ \E blocks \in 1 .. 2 :
                charge_blocks(service, blocks) \/ release_blocks(service, blocks)
    \/ UNCHANGED vars

Spec == Init /\ [][Next]_vars

----------------------------------------------------------------------------

(* Type invariant of the storage write path *)
TypeOK ==
    /\ structure \in {"journal", "gate", "quotas"}
    /\ DOMAIN table = 1 .. CapabilitySlots
    /\ \A i \in DOMAIN journal : journal[i].sequence = i /\ journal[i].by \in Services
    /\ gate.owner \in Services \cup {NoService}
    /\ gate.generation \in 1 .. GenerationMax
    /\ Registered \subseteq Services

(* The journal holds nothing but writes that fit the device, each asked    *)
(* for by a service some entry of the table has ever given WRITE: neither  *)
(* a read-only handle nor another service's handle reaches it.             *)
JournalHoldsAuthorisedWrites ==
    \A i \in DOMAIN journal :
        /\ journal[i].request.operation = "Write"
        /\ LET r == journal[i].request IN
              r.start_sector .. r.start_sector + r.sector_count - 1
                  \subseteq 0 .. CapacitySectors - 1
        /\ \E e \in DOMAIN table :
              /\ table[e].state # "None"
              /\ table[e].holder = journal[i].by
              /\ "WRITE" \in table[e].rights

(* Recovery replays exactly the records before the first that is torn or   *)
(* spoilt: an undamaged journal loses no committed record and takes the    *)
(* pending one back, and last_sequence names the last record replayed.     *)
RecoveryIsTheCommittedPrefix ==
    structure = "journal" =>
        LET report == recover_committed_prefix(journal)
            bad == {i \in DOMAIN journal : ~ (journal[i].commit_marker /\ journal[i].sound)}
            n == IF bad = {} THEN Len(journal)
                 ELSE (CHOOSE i \in bad : \A j \in bad : i <= j) - 1
        IN /\ report.replayed_records = n
           /\ report.last_sequence = n
           /\ (\A i \in DOMAIN journal : journal[i].commit_marker => journal[i].sound)
                 => n = Cardinality({i \in DOMAIN journal : journal[i].commit_marker})

(* At most one of all the tokens ever handed out opens the gate, and while *)
(* the gate is taken one does: no stale token releases another writer, and *)
(* the writer at the gate can always leave it.  (The last generation is    *)
(* excepted: there begin_write takes the gate and hands out no token.)     *)
OneLiveToken ==
    LET live == {t \in tokens : Current(t)}
    IN /\ Cardinality(live) <= 1
       /\ gate.owner # NoService /\ gate.generation < GenerationMax => live # {}

(* The quota of a service counts the blocks it holds, never more than its  *)
(* limit, through any order of charges, releases and raised limits.        *)
QuotaCountsHeldBlocks ==
    \A s \in Registered :
        /\ quotas[s].used_blocks = charged[s]
        /\ quotas[s].used_blocks <= quotas[s].max_blocks
=============================================================================

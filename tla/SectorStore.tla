----------------------------- MODULE SectorStore -----------------------------
(***************************************************************************)
(* What the kernel may rely on when it calls read_sector and write_sector  *)
(* of core/src/block_device.rs: one request at a time, a successful read   *)
(* returns the sector, a successful write has changed it, and a failed     *)
(* write may change its own sector at some time up to the answer of the    *)
(* next request.  No other sector ever changes.                            *)
(***************************************************************************)
CONSTANTS Sectors, Values, Blank

VARIABLES
    disk,   \* contents of each sector
    call,   \* the request being served
    late,   \* a failed write that may still take effect
    answer  \* the last answer

vars == <<disk, call, late, answer>>

NoCall == [op |-> "none"]
Calls == [op : {"read"}, sector : Sectors]
         \cup [op : {"write"}, sector : Sectors, value : Values]

Failed == [ok |-> FALSE, value |-> Blank]
Done(v) == [ok |-> TRUE, value |-> v]

Init ==
    /\ disk = [s \in Sectors |-> Blank]
    /\ call = NoCall /\ late = NoCall /\ answer = Failed

Request(c) ==
    /\ call = NoCall /\ call' = c
    /\ UNCHANGED <<disk, late, answer>>

TakesEffect(c) ==
    /\ c.op = "write"
    /\ disk' = [disk EXCEPT ![c.sector] = c.value]
    /\ UNCHANGED <<call, late, answer>>

ReadReturns ==
    /\ call.op = "read" /\ answer' = Done(disk[call.sector])
    /\ call' = NoCall /\ late' = NoCall
    /\ UNCHANGED disk

WriteReturns ==
    /\ call.op = "write" /\ disk[call.sector] = call.value
    /\ answer' = Done(Blank)
    /\ call' = NoCall /\ late' = NoCall
    /\ UNCHANGED disk

Fails ==
    /\ call # NoCall /\ call' = NoCall
    /\ late' \in {call, late, NoCall}
    /\ answer' = Failed
    /\ UNCHANGED disk

(* A sector beyond the capacity *)
Refuses == call = NoCall /\ answer' = Failed /\ UNCHANGED <<disk, call, late>>

Next ==
    \/ \E c \in Calls : Request(c)
    \/ TakesEffect(call) \/ TakesEffect(late)
    \/ ReadReturns \/ WriteReturns \/ Fails \/ Refuses

Spec == Init /\ [][Next]_vars
=============================================================================

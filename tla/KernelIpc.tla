----------------------------- MODULE KernelIpc -----------------------------
(***************************************************************************)
(* Kernel IPC: a channel of two services with one bounded ring for both    *)
(* directions (core/src/ipc_channels.rs), sending under a SEND capability  *)
(* (permission_validation.rs), the shared region guarded by READ and WRITE *)
(* (shared_memory.rs) and the memory and CPU quota tables                  *)
(* (resource_quotas.rs), with the self tests the boot runs on each.        *)
(*                                                                         *)
(* A message is a number; its checksum is right when it is created and     *)
(* nothing writes to it afterwards, so verify always succeeds.  sent and   *)
(* got are history: the messages accepted and delivered in each direction. *)
(***************************************************************************)
EXTENDS CapabilityTable, SequencesExt, WellFoundedInduction, TLAPS

CONSTANTS
    Depth,         \* CHANNEL_QUEUE_DEPTH
    MaxSends,      \* bound: messages accepted over a run
    MaxQuota,      \* bound: the largest quota registered
    QuotaRecords   \* MAX_QUOTA_RECORDS

KernelIpcAssumption == {Depth, MaxSends, MaxQuota, QuotaRecords} \subseteq Nat \ {0}

VARIABLES channel, table, region, quota, sent, got, selftest

vars == <<channel, table, region, quota, sent, got, selftest>>

Services == {"owner", "peer", "stranger"}

Resources == {"channel", "region"}

None == [to |-> "none", message |-> 0]

Peer == [owner |-> "peer", peer |-> "owner"]

NewChannel == [queue |-> [i \in 0 .. Depth - 1 |-> None], head |-> 0, length |-> 0]

NewQuotas == [i \in 1 .. QuotaRecords |-> [service |-> "none", max |-> 0, used |-> 0]]

-----------------------------------------------------------------------------
(* The operations, as functions from the state they read to the state they *)
(* leave and the answer they give                                          *)

has_endpoint_pair(from, to) ==
    from \in DOMAIN Peer /\ to = Peer[from]

(* The slot i places behind slot h of the ring                             *)
Place(h, i) == (h + i) % Depth

\* The tail ignores where the head is
TailAtLength(c, from, to, m) ==
    CASE ~has_endpoint_pair(from, to) -> [c |-> c, answer |-> "InvalidEndpoint"]
      [] has_endpoint_pair(from, to) /\ c.length = Depth -> [c |-> c, answer |-> "QueueFull"]
      [] OTHER -> [c |-> [c EXCEPT !.queue[c.length % Depth] = [to |-> to, message |-> m],
                                   !.length = @ + 1],
                   answer |-> "Ok"]

send(c, from, to, m) ==
    CASE ~has_endpoint_pair(from, to) -> [c |-> c, answer |-> "InvalidEndpoint"]
      [] has_endpoint_pair(from, to) /\ c.length = Depth -> [c |-> c, answer |-> "QueueFull"]
      [] OTHER -> [c |-> [c EXCEPT !.queue[Place(c.head, c.length)] =
                                        [to |-> to, message |-> m],
                                   !.length = @ + 1],
                   answer |-> "Ok"]

(* Both directions share the ring: a message for the other service at the  *)
(* head makes the ring look empty                                          *)
receive(c, receiver) ==
    LET queued == c.queue[c.head]
    IN CASE receiver \notin DOMAIN Peer -> [c |-> c, answer |-> "InvalidEndpoint", message |-> 0]
         [] receiver \in DOMAIN Peer /\ queued.to # receiver ->
              [c |-> c, answer |-> "QueueEmpty", message |-> 0]
         [] OTHER -> [c |-> [c EXCEPT !.queue[c.head] = None,
                                      !.head = Place(@, 1),
                                      !.length = @ - 1],
                      answer |-> "Ok", message |-> queued.message]

(* The loop holds the channel: no other service can send while it waits,   *)
(* so every turn of it sees what the first one saw                         *)
receive_reply_or_timeout(c, receiver, ticks) ==
    LET first == receive(c, receiver)
    IN IF ticks = 0 \/ first.answer = "QueueEmpty"
       THEN [c |-> c, answer |-> "ReplyTimeout", message |-> 0]
       ELSE first

(* Which check of validate fails, in its order                             *)
ValidateAnswer(t, caller, handle, resource, required) ==
    CASE ~Live(t, handle) -> "InvalidHandle"
      [] Live(t, handle) /\ t[handle.slot].state # "Active" -> "Revoked"
      [] Live(t, handle) /\ t[handle.slot].state = "Active" ->
            CASE t[handle.slot].holder # caller -> "WrongHolder"
              [] t[handle.slot].holder = caller /\ t[handle.slot].resource # resource ->
                   "WrongResource"
              [] OTHER -> IF required \subseteq t[handle.slot].rights
                          THEN "Ok" ELSE "MissingRights"

send_with_capability(t, c, caller, handle, to, m) ==
    LET checked == ValidateAnswer(t, caller, handle, "channel", {"SEND"})
    IN IF checked = "Ok" THEN send(c, caller, to, m) ELSE [c |-> c, answer |-> checked]

read(t, r, caller, handle) ==
    [answer |-> ValidateAnswer(t, caller, handle, "region", {"READ"}), bytes |-> r]

write(t, r, caller, handle, bytes) ==
    LET checked == ValidateAnswer(t, caller, handle, "region", {"WRITE"})
    IN [answer |-> checked, region |-> IF checked = "Ok" THEN bytes ELSE r]

Of(q, service) == {i \in DOMAIN q : q[i].service = service}

register(q, service, max) ==
    LET free == Of(q, "none")
    IN IF Of(q, service) # {} \/ free = {}
       THEN [q |-> q, answer |-> "TableFull"]
       ELSE [q |-> [q EXCEPT ![FirstSlot(free)] = [service |-> service, max |-> max, used |-> 0]],
             answer |-> "Ok"]

(* charge_pages, and charge_tick which charges 1                           *)
charge(q, service, n) ==
    LET record == FirstSlot(Of(q, service))
    IN CASE Of(q, service) = {} -> [q |-> q, answer |-> "UnknownService"]
         [] Of(q, service) # {} /\ q[record].used + n > q[record].max ->
              [q |-> q, answer |-> "Exceeded"]
         [] OTHER -> [q |-> [q EXCEPT ![record].used = @ + n], answer |-> "Ok"]

-----------------------------------------------------------------------------
(* The self tests, each on tables of its own                               *)

ipc_self_test ==
    LET s == send(NewChannel, "owner", "peer", 1)
        r == receive(s.c, "peer")
    IN s.answer = "Ok" /\ r.answer = "Ok" /\ r.message = 1

bounded_queue_self_test ==
    LET full == FoldLeft(LAMBDA c, m : send(c, "owner", "peer", m).c, NewChannel,
                         [m \in 1 .. Depth |-> m])
        first == receive(full, "peer")
        second == receive(first.c, "peer")
    IN /\ send(full, "owner", "peer", Depth + 1).answer = "QueueFull"
       /\ first.message = 1 /\ second.message = 2
       /\ receive(second.c, "peer").answer = "QueueEmpty"

request_reply_self_test ==
    LET request == receive(send(NewChannel, "owner", "peer", 1).c, "peer")
        replied == send(request.c, "peer", "owner", 2)
        reply == receive_reply_or_timeout(replied.c, "owner", 1)
    IN /\ request.message = 1
       /\ replied.answer = "Ok"
       /\ reply.answer = "Ok" /\ reply.message = 2
       /\ receive_reply_or_timeout(reply.c, "owner", 1).answer = "ReplyTimeout"

(* run_shared_memory_self_test and run_guarded_phase8_self_test: the       *)
(* reader's handle reads and does not write, and another service cannot    *)
(* use it at all                                                           *)
shared_memory_self_test ==
    LET g == grant(EmptyTable, "owner", "region", {"READ"})
        after == write(g.table, "initial", "owner", g.handle, "dropped")
        foreign == write(g.table, after.region, "peer", g.handle, "dropped")
    IN /\ read(g.table, "initial", "owner", g.handle) = [answer |-> "Ok", bytes |-> "initial"]
       /\ after.answer = "MissingRights"
       /\ foreign.answer = "WrongHolder"
       /\ read(g.table, foreign.region, "owner", g.handle).bytes = "initial"

permission_validation_self_test ==
    LET allowed == grant(EmptyTable, "owner", "channel", {"SEND"})
        denied == grant(allowed.table, "owner", "channel", {"READ"})
        first == send_with_capability(denied.table, NewChannel, "owner", allowed.handle, "peer", 1)
    IN /\ first.answer = "Ok"
       /\ send_with_capability(denied.table, first.c, "owner", denied.handle, "peer", 1).answer
             = "MissingRights"

(* The bridge of the system call self test: the same channel, and the      *)
(* message comes out again                                                 *)
run_capability_gated_ipc_bridge ==
    LET g == grant(EmptyTable, "owner", "channel", {"SEND"})
        s == send_with_capability(g.table, NewChannel, "owner", g.handle, "peer", 1)
    IN s.answer = "Ok" /\ receive(s.c, "peer").message = 1

(* run_memory_self_test and run_cpu_self_test                              *)
quota_self_test ==
    LET registered == register(NewQuotas, "owner", 2)
        one == charge(registered.q, "owner", 1)
        denied == charge(one.q, "owner", 2)
        two == charge(denied.q, "owner", 1)
    IN /\ registered.answer = "Ok" /\ one.answer = "Ok"
       /\ denied.answer = "Exceeded" /\ denied.q = one.q
       /\ two.answer = "Ok" /\ charge(two.q, "owner", 1).answer = "Exceeded"

(* The boot runs them in order and panics at the first that fails; they    *)
(* use tables of their own and leave nothing behind                        *)
RunSelfTests ==
  IF
    /\ ipc_self_test /\ bounded_queue_self_test /\ request_reply_self_test
    /\ shared_memory_self_test /\ permission_validation_self_test
    /\ run_capability_gated_ipc_bridge /\ quota_self_test
  THEN "passed" ELSE "panic"

-----------------------------------------------------------------------------
Init ==
    /\ channel = NewChannel
    /\ table = EmptyTable
    /\ region = "initial"
    /\ quota = NewQuotas
    /\ sent = [s \in DOMAIN Peer |-> <<>>]
    /\ got = [s \in DOMAIN Peer |-> <<>>]
    /\ selftest = RunSelfTests

Granted ==
    [owner |-> {<<"channel", {"SEND"}>>}, peer |-> {<<"channel", {"SEND"}>>, <<"region", {"READ"}>>},
     stranger |-> {<<"region", {"WRITE"}>>}]

Grant(holder) ==
    /\ \E g \in Granted[holder] : table' = grant(table, holder, g[1], g[2]).table
    /\ UNCHANGED <<channel, region, quota, sent, got, selftest>>

Handles == {Handle(s, g) : s \in DOMAIN table, g \in {1, 2}}

Revoke(handle) ==
    /\ table' = revoke(table, handle)
    /\ UNCHANGED <<channel, region, quota, sent, got, selftest>>

Accepted == Len(sent["owner"]) + Len(sent["peer"])

Send(caller, handle, to) ==
    LET m == Accepted + 1
        s == send_with_capability(table, channel, caller, handle, to, m)
    IN /\ m <= MaxSends
       /\ channel' = s.c
       /\ sent' = IF s.answer = "Ok" THEN [sent EXCEPT ![caller] = Append(@, m)] ELSE sent
       /\ UNCHANGED <<table, region, quota, got, selftest>>

(* mutant: the loop of receive_reply_or_timeout runs once too few           *)
ReceiveOneTickShort(who) ==
    LET r == receive_reply_or_timeout(channel, who, 0)
    IN /\ channel' = r.c
       /\ got' = IF r.answer = "Ok" THEN [got EXCEPT ![Peer[who]] = Append(@, r.message)] ELSE got
       /\ UNCHANGED <<table, region, quota, sent, selftest>>

(* receive, and receive_reply_or_timeout with one tick or more: the same   *)
(* effect on the channel                                                   *)
Receive(who) ==
    LET r == receive_reply_or_timeout(channel, who, 1)
    IN /\ channel' = r.c
       /\ got' = IF r.answer = "Ok" THEN [got EXCEPT ![Peer[who]] = Append(@, r.message)] ELSE got
       /\ UNCHANGED <<table, region, quota, sent, selftest>>

Write(caller, handle) ==
    /\ region' = write(table, region, caller, handle, caller).region
    /\ UNCHANGED <<channel, table, quota, sent, got, selftest>>

Register(service) ==
    /\ \E max \in 1 .. MaxQuota : quota' = register(quota, service, max).q
    /\ UNCHANGED <<channel, table, region, sent, got, selftest>>

Charge(service) ==
    /\ \E n \in 1 .. MaxQuota : quota' = charge(quota, service, n).q
    /\ UNCHANGED <<channel, table, region, sent, got, selftest>>

Next ==
    \/ \E s \in Services :
          \/ Grant(s) \/ Receive(s) \/ Register(s) \/ Charge(s)
          \/ \E h \in Handles : Write(s, h) \/ \E to \in DOMAIN Peer : Send(s, h, to)
    \/ \E h \in Handles : Revoke(h)

(* Each endpoint keeps asking for its messages                             *)
Spec ==
    /\ Init /\ [][Next]_vars
    /\ \A s \in DOMAIN Peer : WF_vars(Receive(s))

-----------------------------------------------------------------------------
(* The state is what the structures of the code can hold.                  *)
TypeOK ==
    /\ channel.head \in 0 .. Depth - 1
    /\ channel.length \in 0 .. Depth
    /\ region \in {"initial"} \cup Services
    /\ \A i \in DOMAIN quota : quota[i].used \in Nat
    /\ selftest \in {"passed", "panic"}

(* What waits at place i of the ring, counted from the head                *)
Cell(c, i) == c.queue[Place(c.head, i)]

Waiting(c, to) == {i \in 0 .. c.length - 1 : Cell(c, i).to = to}

(* What one service's sends were accepted for is, at every moment, what    *)
(* the other has received followed by what still waits in the ring, in     *)
(* the order of the sends: nothing is lost, repeated, overtaken or handed  *)
(* to the wrong side although both directions share the ring and it wraps. *)
ChannelExact ==
    /\ \A s \in DOMAIN Peer :
          /\ Len(got[s]) <= Len(sent[s])
          /\ \A k \in 1 .. Len(got[s]) : got[s][k] = sent[s][k]
          /\ \A k \in Len(got[s]) + 1 .. Len(sent[s]) :
                \E i \in Waiting(channel, Peer[s]) : Cell(channel, i).message = sent[s][k]
          /\ \A i \in Waiting(channel, Peer[s]) :
                \E k \in Len(got[s]) + 1 .. Len(sent[s]) : sent[s][k] = Cell(channel, i).message
    /\ \A i, j \in 0 .. channel.length - 1 :
          i < j => Cell(channel, i).message < Cell(channel, j).message

(* The shared region is only ever changed to what a service wrote while it *)
(* held a WRITE capability for it, however grants, revocations and foreign *)
(* handles are mixed.                                                      *)
RegionWrittenByHolder ==
    region' # region =>
       \E s \in DOMAIN table : /\ table[s].state = "Active"
                               /\ table[s].holder = region'
                               /\ table[s].resource = "region"
                               /\ "WRITE" \in table[s].rights

(* A message is only ever accepted from a service that held a SEND         *)
(* capability for the channel at that moment.                              *)
SentByHolder ==
    \A s \in DOMAIN Peer :
        sent'[s] # sent[s] =>
           \E e \in DOMAIN table : /\ table[e].state = "Active"
                                   /\ table[e].holder = s
                                   /\ table[e].resource = "channel"
                                   /\ "SEND" \in table[e].rights

(* No sequence of charges takes a service past the quota it registered     *)
(* with, and a service has one record.                                     *)
QuotaHolds ==
    \A i, j \in DOMAIN quota :
        /\ quota[i].used <= quota[i].max
        /\ quota[i].service = quota[j].service /\ i # j => quota[i].service = "none"

(* The boot's own self tests accept these structures.                      *)
SelfTestsAccept == selftest # "panic"

-----------------------------------------------------------------------------
(* The proof.  With n messages accepted the ring holds the last of them,   *)
(* numbered upwards from the head (Ring), and in each direction what was   *)
(* sent is what was received followed by what waits (Direction).           *)

(* The ring c after n messages were accepted: the last of them, in order,  *)
(* from the head on, and nothing in any other place                        *)
Ring(c, n) ==
    /\ c \in [queue : [0 .. Depth - 1 -> [to : {"none", "owner", "peer"}, message : Nat]],
              head : 0 .. Depth - 1, length : 0 .. Depth]
    /\ \A i \in 0 .. Depth - 1 :
          IF i < c.length
          THEN Cell(c, i).to \in {"owner", "peer"} /\ Cell(c, i).message = n - c.length + i + 1
          ELSE Cell(c, i) = None

(* One direction: the sends st from a service to the service to, and what  *)
(* of them was received, gt, with n messages accepted                      *)
Direction(c, n, st, gt, to) ==
    /\ st \in Seq(Nat) /\ gt \in Seq(Nat) /\ Len(gt) <= Len(st)
    /\ \A k \in 1 .. Len(st) : st[k] <= n
    /\ \A k, l \in 1 .. Len(st) : k < l => st[k] < st[l]
    /\ \A k \in 1 .. Len(gt) : gt[k] = st[k]
    /\ \A k \in Len(gt) + 1 .. Len(st) :
          \E i \in 0 .. c.length - 1 : Cell(c, i).to = to /\ Cell(c, i).message = st[k]
    /\ \A i \in 0 .. c.length - 1 :
          Cell(c, i).to = to =>
              \E k \in Len(gt) + 1 .. Len(st) : st[k] = Cell(c, i).message

(* d is the ring c with message m for the service to behind the last one   *)
Pushed(c, d, to, m) ==
    d = [c EXCEPT !.queue[Place(c.head, c.length)] = [to |-> to, message |-> m],
                  !.length = @ + 1]

(* What such a step does to the places of the ring                         *)
Grown(c, d, to, n) ==
    /\ Ring(d, n + 1) /\ d.length = c.length + 1
    /\ Cell(d, c.length) = [to |-> to, message |-> n + 1]
    /\ \A i \in 0 .. c.length - 1 : Cell(d, i) = Cell(c, i)

(* Where a place of the ring is: the index wraps at most once.             *)
LEMMA Wraps ==
    ASSUME NEW d \in Nat \ {0}, NEW a \in Nat, a < d + d
    PROVE  a % d = IF a < d THEN a ELSE a - d
<1>1. CASE a < d
  BY <1>1
<1>2. CASE ~(a < d)
  <2>1. a = d * 1 + (a - d) /\ a - d \in 0 .. d - 1
    BY <1>2
  <2> QED
    BY <1>2, <2>1
<1> QED
  BY <1>1, <1>2

(* The same for the slot i places behind slot h.                           *)
LEMMA PlaceWraps ==
    ASSUME Depth \in Nat \ {0}, NEW h \in 0 .. Depth - 1, NEW i \in 0 .. Depth
    PROVE  Place(h, i) = IF h + i < Depth THEN h + i ELSE h + i - Depth
<1>1. PICK a \in Nat : a = h + i
  OBVIOUS
<1>2. a < Depth + Depth
  BY <1>1
<1>3. a % Depth = IF a < Depth THEN a ELSE a - Depth
  BY <1>2, Wraps
<1>4. Place(h, i) = a % Depth
  BY <1>1 DEF Place
<1> QED
  BY <1>1, <1>3, <1>4

(* No two places of the ring are the same slot.                            *)
LEMMA PlacesDiffer ==
    ASSUME Depth \in Nat \ {0}, NEW h \in 0 .. Depth - 1, NEW i \in 0 .. Depth - 1,
           NEW j \in 0 .. Depth - 1
    PROVE  /\ Place(h, i) \in 0 .. Depth - 1
           /\ Place(h, i) = Place(h, j) => i = j
<1>1. Place(h, i) = IF h + i < Depth THEN h + i ELSE h + i - Depth
  BY PlaceWraps
<1>2. Place(h, j) = IF h + j < Depth THEN h + j ELSE h + j - Depth
  BY PlaceWraps
<1> QED
  BY <1>1, <1>2

(* The slot after the head is the head of what follows.                    *)
LEMMA PlacesFollow ==
    ASSUME Depth \in Nat \ {0}, NEW h \in 0 .. Depth - 1, NEW g, g = Place(h, 1)
    PROVE  /\ g \in 0 .. Depth - 1
           /\ Place(h, 0) = h
           /\ Place(g, Depth - 1) = h
           /\ \A i \in 0 .. Depth - 2 : Place(g, i) = Place(h, i + 1)
<1>1. g = IF h + 1 < Depth THEN h + 1 ELSE 0
  BY PlaceWraps
<1>2. g \in 0 .. Depth - 1
  BY <1>1
<1>3. Place(h, 0) = h
  BY PlaceWraps
<1>4. Place(g, Depth - 1) = IF g + (Depth - 1) < Depth THEN g + (Depth - 1)
                            ELSE g + (Depth - 1) - Depth
  BY <1>2, PlaceWraps
<1>5. ASSUME NEW i \in 0 .. Depth - 2 PROVE Place(g, i) = Place(h, i + 1)
  <2>1. Place(g, i) = IF g + i < Depth THEN g + i ELSE g + i - Depth
    BY <1>2, PlaceWraps
  <2>2. Place(h, i + 1) = IF h + (i + 1) < Depth THEN h + (i + 1) ELSE h + (i + 1) - Depth
    BY PlaceWraps
  <2> QED
    BY <1>1, <2>1, <2>2
<1> QED
  BY <1>1, <1>2, <1>3, <1>4, <1>5

(* send puts the message at the first empty place.                         *)
LEMMA RingGrows ==
    ASSUME KernelIpcAssumption, NEW c, NEW n \in Nat, Ring(c, n), c.length < Depth,
           NEW to \in {"owner", "peer"}, NEW d, Pushed(c, d, to, n + 1)
    PROVE  Grown(c, d, to, n)
<1> DEFINE e == [to |-> to, message |-> n + 1]
<1>1. /\ Depth \in Nat \ {0} /\ c.length \in 0 .. Depth - 1 /\ c.head \in 0 .. Depth - 1
      /\ c.queue \in [0 .. Depth - 1 -> [to : {"none", "owner", "peer"}, message : Nat]]
  BY DEF KernelIpcAssumption, Ring
<1>2. /\ d.head = c.head /\ d.length = c.length + 1
      /\ d.queue = [c.queue EXCEPT ![Place(c.head, c.length)] = e]
      /\ d = [queue |-> d.queue, head |-> d.head, length |-> d.length]
  BY DEF Ring, Pushed
<1>3. e \in [to : {"none", "owner", "peer"}, message : Nat] /\ e.to = to /\ e.message = n + 1
  OBVIOUS
<1> HIDE DEF e
<1>4. d \in [queue : [0 .. Depth - 1 -> [to : {"none", "owner", "peer"}, message : Nat]],
             head : 0 .. Depth - 1, length : 0 .. Depth]
  <2>1. d.queue \in [0 .. Depth - 1 -> [to : {"none", "owner", "peer"}, message : Nat]]
    BY <1>1, <1>2, <1>3
  <2>2. d.length \in 0 .. Depth /\ d.head \in 0 .. Depth - 1
    BY <1>1, <1>2
  <2> QED
    BY <1>2, <2>1, <2>2
<1>5. Cell(d, c.length) = e
  <2>1. Place(c.head, c.length) \in 0 .. Depth - 1
    BY <1>1, PlacesDiffer
  <2> QED
    BY <1>1, <1>2, <2>1 DEF Cell
<1>6. \A i \in 0 .. Depth - 1 : i # c.length => Cell(d, i) = Cell(c, i)
  <2> SUFFICES ASSUME NEW i \in 0 .. Depth - 1, i # c.length PROVE Cell(d, i) = Cell(c, i)
    OBVIOUS
  <2>1. Place(c.head, i) # Place(c.head, c.length)
    BY <1>1, PlacesDiffer
  <2>2. Place(c.head, i) \in 0 .. Depth - 1
    BY <1>1, PlacesDiffer
  <2> QED
    BY <1>1, <1>2, <2>1, <2>2 DEF Cell
<1>7. \A i \in 0 .. Depth - 1 :
          IF i < d.length
          THEN Cell(d, i).to \in {"owner", "peer"} /\ Cell(d, i).message = n + 1 - d.length + i + 1
          ELSE Cell(d, i) = None
  <2> SUFFICES ASSUME NEW i \in 0 .. Depth - 1
               PROVE  IF i < d.length
                      THEN /\ Cell(d, i).to \in {"owner", "peer"}
                           /\ Cell(d, i).message = n + 1 - d.length + i + 1
                      ELSE Cell(d, i) = None
    OBVIOUS
  <2>1. CASE i = c.length
    BY <1>1, <1>2, <1>3, <1>5, <2>1
  <2>2. CASE i # c.length
    <3>1. Cell(d, i) = Cell(c, i)
      BY <1>6, <2>2
    <3>2. IF i < c.length
          THEN Cell(c, i).to \in {"owner", "peer"} /\ Cell(c, i).message = n - c.length + i + 1
          ELSE Cell(c, i) = None
      BY DEF Ring
    <3> QED
      BY <1>1, <1>2, <2>2, <3>1, <3>2
  <2> QED
    BY <2>1, <2>2
<1>8. Ring(d, n + 1)
  BY <1>4, <1>7 DEF Ring
<1> QED
  BY <1>1, <1>2, <1>5, <1>6, <1>8 DEF e, Grown

(* receive takes the message at the head away and moves every other one    *)
(* one place nearer.                                                       *)
LEMMA RingShrinks ==
    ASSUME KernelIpcAssumption, NEW c, NEW n \in Nat, Ring(c, n), c.length > 0, NEW d,
           d = [c EXCEPT !.queue[c.head] = None, !.head = Place(@, 1), !.length = @ - 1]
    PROVE  /\ Ring(d, n) /\ d.length = c.length - 1
           /\ \A i \in 0 .. d.length - 1 : Cell(d, i) = Cell(c, i + 1)
<1>1. /\ Depth \in Nat \ {0} /\ c.length \in 1 .. Depth /\ c.head \in 0 .. Depth - 1
      /\ c.queue \in [0 .. Depth - 1 -> [to : {"none", "owner", "peer"}, message : Nat]]
  BY DEF KernelIpcAssumption, Ring
<1>2. /\ d.head = Place(c.head, 1) /\ d.length = c.length - 1
      /\ d.queue = [c.queue EXCEPT ![c.head] = None]
      /\ d = [queue |-> d.queue, head |-> d.head, length |-> d.length]
  BY DEF Ring
<1>3. None \in [to : {"none", "owner", "peer"}, message : Nat]
  BY DEF None
<1>4. d.head \in 0 .. Depth - 1
  BY <1>1, <1>2, PlacesFollow
<1>5. d \in [queue : [0 .. Depth - 1 -> [to : {"none", "owner", "peer"}, message : Nat]],
             head : 0 .. Depth - 1, length : 0 .. Depth]
  <2>1. d.queue \in [0 .. Depth - 1 -> [to : {"none", "owner", "peer"}, message : Nat]]
    BY <1>1, <1>2, <1>3
  <2>2. d.length \in 0 .. Depth
    BY <1>1, <1>2
  <2> QED
    BY <1>2, <1>4, <2>1, <2>2
<1>6. \A i \in 0 .. Depth - 1 : i < Depth - 1 => Cell(d, i) = Cell(c, i + 1)
  <2> SUFFICES ASSUME NEW i \in 0 .. Depth - 1, i < Depth - 1
               PROVE  Cell(d, i) = Cell(c, i + 1)
    OBVIOUS
  <2>0. i \in 0 .. Depth - 2 /\ i + 1 \in 0 .. Depth - 1 /\ 0 \in 0 .. Depth - 1 /\ i + 1 # 0
    BY <1>1
  <2>1. Place(d.head, i) = Place(c.head, i + 1)
    BY <1>1, <1>2, <2>0, PlacesFollow
  <2>3. Place(c.head, i + 1) \in 0 .. Depth - 1
    BY <1>1, <2>0, PlacesDiffer
  <2>4. Place(c.head, i + 1) # Place(c.head, 0)
    BY <1>1, <2>0, PlacesDiffer
  <2>5. Place(c.head, 0) = c.head
    BY <1>1, <1>2, PlacesFollow
  <2> QED
    BY <1>1, <1>2, <2>1, <2>3, <2>4, <2>5 DEF Cell
<1>7. Cell(d, Depth - 1) = None
  <2>1. Place(d.head, Depth - 1) = c.head
    BY <1>1, <1>2, PlacesFollow
  <2> QED
    BY <1>1, <1>2, <2>1 DEF Cell
<1>8. \A i \in 0 .. Depth - 1 :
          IF i < d.length
          THEN Cell(d, i).to \in {"owner", "peer"} /\ Cell(d, i).message = n - d.length + i + 1
          ELSE Cell(d, i) = None
  <2> SUFFICES ASSUME NEW i \in 0 .. Depth - 1
               PROVE  IF i < d.length
                      THEN /\ Cell(d, i).to \in {"owner", "peer"}
                           /\ Cell(d, i).message = n - d.length + i + 1
                      ELSE Cell(d, i) = None
    OBVIOUS
  <2>1. CASE i = Depth - 1
    BY <1>1, <1>2, <1>7, <2>1
  <2>2. CASE i # Depth - 1
    <3>1. i < Depth - 1 /\ i + 1 \in 0 .. Depth - 1
      BY <1>1, <2>2
    <3>2. Cell(d, i) = Cell(c, i + 1)
      BY <1>6, <3>1
    <3>3. IF i + 1 < c.length
          THEN /\ Cell(c, i + 1).to \in {"owner", "peer"}
               /\ Cell(c, i + 1).message = n - c.length + (i + 1) + 1
          ELSE Cell(c, i + 1) = None
      BY <3>1 DEF Ring
    <3>4. n - c.length + (i + 1) + 1 = n - d.length + i + 1 /\ (i < d.length <=> i + 1 < c.length)
      BY <1>1, <1>2
    <3> QED
      BY <3>2, <3>3, <3>4
  <2> QED
    BY <2>1, <2>2
<1>9. Ring(d, n)
  BY <1>5, <1>8 DEF Ring
<1>10. \A i \in 0 .. d.length - 1 : i \in 0 .. Depth - 1 /\ i < Depth - 1
  BY <1>1, <1>2
<1> QED
  BY <1>2, <1>6, <1>9, <1>10
(* A message sent the other way is none of this direction's.               *)
LEMMA DirectionIgnores ==
    ASSUME NEW c, NEW d, NEW n \in Nat, NEW st, NEW gt, NEW to, NEW e,
           Direction(c, n, st, gt, to), c.length \in Nat, d.length = c.length + 1,
           Cell(d, c.length) = e, e.to # to,
           \A i \in 0 .. c.length - 1 : Cell(d, i) = Cell(c, i)
    PROVE  Direction(d, n + 1, st, gt, to)
<1>1. /\ st \in Seq(Nat) /\ gt \in Seq(Nat) /\ Len(gt) <= Len(st)
      /\ \A k \in 1 .. Len(st) : st[k] \in Nat /\ st[k] <= n
      /\ \A k, l \in 1 .. Len(st) : k < l => st[k] < st[l]
      /\ \A k \in 1 .. Len(gt) : gt[k] = st[k]
  BY DEF Direction
<1>2. \A k \in 1 .. Len(st) : st[k] <= n + 1
  BY <1>1
<1>3. ASSUME NEW k \in Len(gt) + 1 .. Len(st)
      PROVE  \E i \in 0 .. d.length - 1 : Cell(d, i).to = to /\ Cell(d, i).message = st[k]
  <2>1. PICK i \in 0 .. c.length - 1 : Cell(c, i).to = to /\ Cell(c, i).message = st[k]
    BY DEF Direction
  <2>2. i \in 0 .. d.length - 1 /\ Cell(d, i) = Cell(c, i)
    OBVIOUS
  <2> QED
    BY <2>1, <2>2
<1>4. ASSUME NEW i \in 0 .. d.length - 1, Cell(d, i).to = to
      PROVE  \E k \in Len(gt) + 1 .. Len(st) : st[k] = Cell(d, i).message
  <2>1. i # c.length
    BY <1>4
  <2>2. i \in 0 .. c.length - 1 /\ Cell(d, i) = Cell(c, i)
    BY <2>1
  <2> QED
    BY <1>4, <2>2 DEF Direction
<1> QED
  BY <1>1, <1>2, <1>3, <1>4 DEF Direction

(* A message sent this way is the last of this direction.                  *)
LEMMA DirectionSends ==
    ASSUME NEW c, NEW d, NEW n \in Nat, NEW st, NEW gt, NEW to, NEW e, NEW ss,
           Direction(c, n, st, gt, to), c.length \in Nat, d.length = c.length + 1,
           Cell(d, c.length) = e, e.to = to, e.message = n + 1, ss = Append(st, n + 1),
           \A i \in 0 .. c.length - 1 : Cell(d, i) = Cell(c, i)
    PROVE  Direction(d, n + 1, ss, gt, to)
<1>1. /\ st \in Seq(Nat) /\ gt \in Seq(Nat) /\ Len(gt) <= Len(st)
      /\ \A k \in 1 .. Len(st) : st[k] \in Nat /\ st[k] <= n
      /\ \A k, l \in 1 .. Len(st) : k < l => st[k] < st[l]
      /\ \A k \in 1 .. Len(gt) : gt[k] = st[k]
      /\ Len(st) \in Nat /\ Len(gt) \in Nat
  BY DEF Direction
<1>2. /\ ss \in Seq(Nat) /\ Len(ss) = Len(st) + 1 /\ ss[Len(st) + 1] = n + 1
      /\ \A k \in 1 .. Len(st) : ss[k] = st[k]
  BY <1>1
<1>3. /\ \A k \in 1 .. Len(ss) : ss[k] <= n + 1
      /\ \A k, l \in 1 .. Len(ss) : k < l => ss[k] < ss[l]
      /\ \A k \in 1 .. Len(gt) : gt[k] = ss[k]
      /\ Len(gt) <= Len(ss)
  BY <1>1, <1>2
<1>4. ASSUME NEW k \in Len(gt) + 1 .. Len(ss)
      PROVE  \E i \in 0 .. d.length - 1 : Cell(d, i).to = to /\ Cell(d, i).message = ss[k]
  <2>1. CASE k = Len(st) + 1
    <3>1. c.length \in 0 .. d.length - 1 /\ ss[k] = n + 1
      BY <1>2, <2>1
    <3> QED
      BY <3>1
  <2>2. CASE k # Len(st) + 1
    <3>1. k \in Len(gt) + 1 .. Len(st) /\ ss[k] = st[k]
      BY <1>1, <1>2, <2>2
    <3>2. PICK i \in 0 .. c.length - 1 : Cell(c, i).to = to /\ Cell(c, i).message = st[k]
      BY <3>1 DEF Direction
    <3>3. i \in 0 .. d.length - 1 /\ Cell(d, i) = Cell(c, i)
      OBVIOUS
    <3> QED
      BY <3>1, <3>2, <3>3
  <2> QED
    BY <2>1, <2>2
<1>5. ASSUME NEW i \in 0 .. d.length - 1, Cell(d, i).to = to
      PROVE  \E k \in Len(gt) + 1 .. Len(ss) : ss[k] = Cell(d, i).message
  <2>1. CASE i = c.length
    <3>1. Len(st) + 1 \in Len(gt) + 1 .. Len(ss)
      BY <1>1, <1>2
    <3> QED
      BY <1>2, <2>1, <3>1
  <2>2. CASE i # c.length
    <3>1. i \in 0 .. c.length - 1 /\ Cell(d, i) = Cell(c, i)
      BY <2>2
    <3>2. PICK k \in Len(gt) + 1 .. Len(st) : st[k] = Cell(c, i).message
      BY <1>5, <3>1 DEF Direction
    <3>3. k \in Len(gt) + 1 .. Len(ss) /\ ss[k] = st[k]
      BY <1>1, <1>2
    <3> QED
      BY <3>1, <3>2, <3>3
  <2> QED
    BY <2>1, <2>2
<1> QED
  BY <1>1, <1>2, <1>3, <1>4, <1>5 DEF Direction

(* A message for the other side leaves the ring.                           *)
LEMMA DirectionRests ==
    ASSUME NEW c, NEW d, NEW n \in Nat, NEW st, NEW gt, NEW to,
           Direction(c, n, st, gt, to), c.length \in Nat \ {0}, d.length = c.length - 1,
           Cell(c, 0).to # to, \A i \in 0 .. d.length - 1 : Cell(d, i) = Cell(c, i + 1)
    PROVE  Direction(d, n, st, gt, to)
<1>1. /\ st \in Seq(Nat) /\ gt \in Seq(Nat) /\ Len(gt) <= Len(st)
      /\ \A k \in 1 .. Len(st) : st[k] <= n
      /\ \A k, l \in 1 .. Len(st) : k < l => st[k] < st[l]
      /\ \A k \in 1 .. Len(gt) : gt[k] = st[k]
  BY DEF Direction
<1>2. ASSUME NEW k \in Len(gt) + 1 .. Len(st)
      PROVE  \E i \in 0 .. d.length - 1 : Cell(d, i).to = to /\ Cell(d, i).message = st[k]
  <2>1. PICK i \in 0 .. c.length - 1 : Cell(c, i).to = to /\ Cell(c, i).message = st[k]
    BY DEF Direction
  <2>2. i # 0
    BY <2>1
  <2>3. i - 1 \in 0 .. d.length - 1 /\ (i - 1) + 1 = i
    BY <2>2
  <2>4. Cell(d, i - 1) = Cell(c, (i - 1) + 1)
    BY <2>3
  <2> QED
    BY <2>1, <2>3, <2>4
<1>3. ASSUME NEW i \in 0 .. d.length - 1, Cell(d, i).to = to
      PROVE  \E k \in Len(gt) + 1 .. Len(st) : st[k] = Cell(d, i).message
  <2>1. i + 1 \in 0 .. c.length - 1 /\ Cell(d, i) = Cell(c, i + 1)
    OBVIOUS
  <2> QED
    BY <1>3, <2>1 DEF Direction
<1> QED
  BY <1>1, <1>2, <1>3 DEF Direction

(* The message at the head is the next this direction has to deliver: any  *)
(* earlier one would wait before it.                                       *)
LEMMA DirectionDelivers ==
    ASSUME NEW c, NEW d, NEW n \in Nat, NEW st, NEW gt, NEW to, NEW m, NEW gg,
           Direction(c, n, st, gt, to), c.length \in Nat \ {0}, d.length = c.length - 1,
           Cell(c, 0).to = to, Cell(c, 0).message = m, gg = Append(gt, m),
           \A i \in 0 .. d.length - 1 : Cell(d, i) = Cell(c, i + 1),
           \A i \in 1 .. c.length - 1 : Cell(c, i).message > m
    PROVE  Direction(d, n, st, gg, to)
<1>1. /\ st \in Seq(Nat) /\ gt \in Seq(Nat) /\ Len(gt) <= Len(st)
      /\ \A k \in 1 .. Len(st) : st[k] <= n /\ st[k] \in Nat
      /\ \A k, l \in 1 .. Len(st) : k < l => st[k] < st[l]
      /\ \A k \in 1 .. Len(gt) : gt[k] = st[k]
      /\ Len(st) \in Nat /\ Len(gt) \in Nat
  BY DEF Direction
<1>2. PICK z \in Len(gt) + 1 .. Len(st) : st[z] = m
  <2>1. 0 \in 0 .. c.length - 1
    OBVIOUS
  <2> QED
    BY <2>1 DEF Direction
<1>3. Len(gt) + 1 \in Len(gt) + 1 .. Len(st) /\ z \in 1 .. Len(st) /\ Len(gt) + 1 \in 1 .. Len(st)
  BY <1>1
<1>4. st[Len(gt) + 1] = m
  <2>1. PICK i \in 0 .. c.length - 1 : Cell(c, i).message = st[Len(gt) + 1]
    BY <1>3 DEF Direction
  <2>2. CASE i = 0
    BY <2>1, <2>2
  <2>3. CASE i # 0
    <3>1. st[Len(gt) + 1] > m
      BY <2>1, <2>3
    <3>2. Len(gt) + 1 = z \/ Len(gt) + 1 < z
      BY <1>1, <1>2
    <3>3. st[Len(gt) + 1] <= st[z]
      BY <1>1, <1>3, <3>2
    <3> QED
      BY <1>1, <1>2, <1>3, <3>1, <3>3
  <2> QED
    BY <2>2, <2>3
<1>5. /\ gg \in Seq(Nat) /\ Len(gg) = Len(gt) + 1 /\ gg[Len(gt) + 1] = m
      /\ \A k \in 1 .. Len(gt) : gg[k] = gt[k]
  <2>1. m \in Nat
    BY <1>1, <1>2, <1>3
  <2> QED
    BY <1>1, <2>1
<1>6. Len(gg) <= Len(st) /\ \A k \in 1 .. Len(gg) : gg[k] = st[k]
  BY <1>1, <1>3, <1>4, <1>5
<1>7. ASSUME NEW k \in Len(gg) + 1 .. Len(st)
      PROVE  \E i \in 0 .. d.length - 1 : Cell(d, i).to = to /\ Cell(d, i).message = st[k]
  <2>0. k \in Len(gt) + 1 .. Len(st) /\ Len(gt) + 1 < k /\ k \in 1 .. Len(st)
    BY <1>1, <1>5
  <2>1. PICK i \in 0 .. c.length - 1 : Cell(c, i).to = to /\ Cell(c, i).message = st[k]
    BY <2>0 DEF Direction
  <2>2. i # 0
    <3>1. m < st[k] /\ m \in Nat /\ st[k] \in Nat
      BY <1>1, <1>3, <1>4, <2>0
    <3> QED
      BY <2>1, <3>1
  <2>3. i - 1 \in 0 .. d.length - 1 /\ (i - 1) + 1 = i
    BY <2>2
  <2>4. Cell(d, i - 1) = Cell(c, (i - 1) + 1)
    BY <2>3
  <2> QED
    BY <2>1, <2>3, <2>4
<1>8. ASSUME NEW i \in 0 .. d.length - 1, Cell(d, i).to = to
      PROVE  \E k \in Len(gg) + 1 .. Len(st) : st[k] = Cell(d, i).message
  <2>1. i + 1 \in 0 .. c.length - 1 /\ i + 1 \in 1 .. c.length - 1 /\ Cell(d, i) = Cell(c, i + 1)
    OBVIOUS
  <2>2. PICK k \in Len(gt) + 1 .. Len(st) : st[k] = Cell(c, i + 1).message
    BY <1>8, <2>1 DEF Direction
  <2>3. st[k] > m
    BY <2>1, <2>2
  <2>4. k # Len(gt) + 1
    <3>1. ~(m > m)
      BY <1>1, <1>3, <1>4
    <3> QED
      BY <1>4, <2>3, <3>1
  <2>5. k \in Len(gg) + 1 .. Len(st)
    BY <1>1, <1>5, <2>4
  <2> QED
    BY <2>1, <2>2, <2>5
<1> QED
  BY <1>1, <1>5, <1>6, <1>7, <1>8 DEF Direction
-----------------------------------------------------------------------------
(* The inductive invariant *)

Quotas == [service : Services \cup {"none"}, max : Nat, used : Nat]

Inv ==
    /\ Ring(channel, Accepted)
    /\ DOMAIN sent = DOMAIN Peer /\ DOMAIN got = DOMAIN Peer
    /\ \A s \in DOMAIN Peer : Direction(channel, Accepted, sent[s], got[s], Peer[s])
    /\ region \in {"initial"} \cup Services
    /\ quota \in [1 .. QuotaRecords -> Quotas]
    /\ QuotaHolds
    /\ selftest \in {"passed", "panic"}

(* The two endpoints.                                                      *)
LEMMA Endpoints ==
    /\ DOMAIN Peer = {"owner", "peer"} /\ Peer["owner"] = "peer" /\ Peer["peer"] = "owner"
BY DEF Peer

(* The first of some slots is one of them.                                 *)
LEMMA FirstSlotIsOne ==
    ASSUME NEW S \in SUBSET Nat, S # {} PROVE FirstSlot(S) \in S
<1>1. PICK b \in S : \A c \in S : ~(<<c, b>> \in OpToRel(<, Nat))
  BY NatLessThanWellFounded, WFMin
<1>2. \A c \in S : ~(c < b)
  BY <1>1 DEF OpToRel
<1>3. \A c \in S : b <= c
  BY <1>2
<1> QED
  BY <1>3 DEF FirstSlot

(* An empty ring, no history, no quota.                                    *)
LEMMA Initial == ASSUME KernelIpcAssumption, Init PROVE Inv
<1>1. /\ channel = NewChannel /\ DOMAIN sent = DOMAIN Peer /\ DOMAIN got = DOMAIN Peer
      /\ \A s \in DOMAIN Peer : sent[s] = <<>> /\ got[s] = <<>>
      /\ region = "initial" /\ quota = NewQuotas
  BY DEF Init
<1>2. Accepted = 0
  BY <1>1, Endpoints DEF Accepted
<1>3. Depth \in Nat \ {0} /\ QuotaRecords \in Nat
  BY DEF KernelIpcAssumption
<1>4. /\ channel.head = 0 /\ channel.length = 0
      /\ channel.queue = [i \in 0 .. Depth - 1 |-> None]
      /\ channel = [queue |-> channel.queue, head |-> channel.head, length |-> channel.length]
  BY <1>1 DEF NewChannel
<1>5. ASSUME NEW i \in 0 .. Depth - 1 PROVE Cell(channel, i) = None
  <2>1. 0 \in 0 .. Depth - 1
    BY <1>3
  <2>2. Place(0, i) \in 0 .. Depth - 1
    BY <1>3, <2>1, PlacesDiffer
  <2> QED
    BY <1>4, <2>2 DEF Cell
<1>6. Ring(channel, Accepted)
  <2>1. channel.queue \in [0 .. Depth - 1 -> [to : {"none", "owner", "peer"}, message : Nat]]
    BY <1>4 DEF None
  <2>2. channel.head \in 0 .. Depth - 1 /\ channel.length \in 0 .. Depth
    BY <1>3, <1>4
  <2> QED
    BY <1>4, <1>5, <2>1, <2>2 DEF Ring
<1>7. ASSUME NEW s \in DOMAIN Peer
      PROVE  Direction(channel, Accepted, sent[s], got[s], Peer[s])
  <2>1. sent[s] = <<>> /\ got[s] = <<>> /\ 0 .. channel.length - 1 = {}
    BY <1>1, <1>4
  <2>2. <<>> \in Seq(Nat) /\ Len(<<>>) = 0
    OBVIOUS
  <2> QED
    BY <2>1, <2>2 DEF Direction
<1>8. quota \in [1 .. QuotaRecords -> Quotas] /\ QuotaHolds
  BY <1>1, <1>3 DEF NewQuotas, Quotas, QuotaHolds
<1>9. selftest \in {"passed", "panic"}
  BY DEF Init, RunSelfTests
<1> QED
  BY <1>1, <1>6, <1>7, <1>8, <1>9 DEF Inv

(* What an accepted send is.                                               *)
LEMMA SendCases ==
    ASSUME NEW caller, NEW handle, NEW to, Send(caller, handle, to)
    PROVE  \/ channel' = channel /\ sent' = sent
           \/ /\ has_endpoint_pair(caller, to) /\ channel.length # Depth
              /\ ValidateAnswer(table, caller, handle, "channel", {"SEND"}) = "Ok"
              /\ channel' = [channel EXCEPT
                                !.queue[Place(channel.head, channel.length)] =
                                    [to |-> to, message |-> Accepted + 1],
                                !.length = @ + 1]
              /\ sent' = [sent EXCEPT ![caller] = Append(@, Accepted + 1)]
<1> DEFINE m == Accepted + 1
           s == send_with_capability(table, channel, caller, handle, to, m)
           checked == ValidateAnswer(table, caller, handle, "channel", {"SEND"})
<1>1. /\ channel' = s.c
      /\ sent' = IF s.answer = "Ok" THEN [sent EXCEPT ![caller] = Append(@, m)] ELSE sent
  BY DEF Send
<1> HIDE DEF m, checked
<1>2. CASE checked # "Ok"
  <2>1. s = [c |-> channel, answer |-> checked]
    BY <1>2 DEF send_with_capability, checked
  <2> QED
    BY <1>1, <1>2, <2>1
<1>3. CASE checked = "Ok"
  <2>1. s = send(channel, caller, to, m)
    BY <1>3 DEF send_with_capability, checked
  <2>2. CASE ~has_endpoint_pair(caller, to)
    <3>1. s = [c |-> channel, answer |-> "InvalidEndpoint"]
      BY <2>1, <2>2 DEF send
    <3> QED
      BY <1>1, <3>1
  <2>3. CASE has_endpoint_pair(caller, to) /\ channel.length = Depth
    <3>1. s = [c |-> channel, answer |-> "QueueFull"]
      BY <2>1, <2>3 DEF send
    <3> QED
      BY <1>1, <3>1
  <2>4. CASE has_endpoint_pair(caller, to) /\ channel.length # Depth
    <3>1. s = [c |-> [channel EXCEPT !.queue[Place(channel.head, channel.length)] =
                                        [to |-> to, message |-> m],
                                     !.length = @ + 1],
               answer |-> "Ok"]
      BY <2>1, <2>4 DEF send
    <3> QED
      BY <1>1, <1>3, <2>4, <3>1 DEF m, checked
  <2> QED
    BY <2>2, <2>3, <2>4
<1> QED
  BY <1>2, <1>3

(* What a delivery is.                                                     *)
LEMMA ReceiveCases ==
    ASSUME NEW who, Receive(who)
    PROVE  \/ channel' = channel /\ got' = got
           \/ /\ who \in DOMAIN Peer /\ channel.queue[channel.head].to = who
              /\ channel' = [channel EXCEPT !.queue[channel.head] = None,
                                            !.head = Place(@, 1), !.length = @ - 1]
              /\ got' = [got EXCEPT ![Peer[who]] =
                                 Append(@, channel.queue[channel.head].message)]
<1> DEFINE r == receive_reply_or_timeout(channel, who, 1)
           first == receive(channel, who)
           queued == channel.queue[channel.head]
<1>1. /\ channel' = r.c
      /\ got' = IF r.answer = "Ok" THEN [got EXCEPT ![Peer[who]] = Append(@, r.message)] ELSE got
  BY DEF Receive
<1>2. r = IF first.answer = "QueueEmpty"
          THEN [c |-> channel, answer |-> "ReplyTimeout", message |-> 0] ELSE first
  BY DEF receive_reply_or_timeout
<1> HIDE DEF r
<1>3. CASE who \notin DOMAIN Peer
  <2>1. first = [c |-> channel, answer |-> "InvalidEndpoint", message |-> 0]
    BY <1>3 DEF receive
  <2> QED
    BY <1>1, <1>2, <2>1
<1>4. CASE who \in DOMAIN Peer /\ queued.to # who
  <2>1. first = [c |-> channel, answer |-> "QueueEmpty", message |-> 0]
    BY <1>4 DEF receive
  <2> QED
    BY <1>1, <1>2, <2>1
<1>5. CASE who \in DOMAIN Peer /\ queued.to = who
  <2>1. first = [c |-> [channel EXCEPT !.queue[channel.head] = None,
                                       !.head = Place(@, 1), !.length = @ - 1],
                 answer |-> "Ok", message |-> queued.message]
    BY <1>5 DEF receive
  <2> QED
    BY <1>1, <1>2, <1>5, <2>1
<1> QED
  BY <1>3, <1>4, <1>5

(* A send keeps both directions exact.                                     *)
LEMMA SendStep ==
    ASSUME KernelIpcAssumption, Inv, NEW caller, NEW handle, NEW to, Send(caller, handle, to)
    PROVE  Inv'
<1>0. region' = region /\ quota' = quota /\ got' = got /\ selftest' = selftest
  BY DEF Send
<1>1. CASE channel' = channel /\ sent' = sent
  BY <1>0, <1>1 DEF Inv, Accepted, QuotaHolds
<1>2. CASE /\ has_endpoint_pair(caller, to) /\ channel.length # Depth
           /\ channel' = [channel EXCEPT
                             !.queue[Place(channel.head, channel.length)] =
                                 [to |-> to, message |-> Accepted + 1],
                             !.length = @ + 1]
           /\ sent' = [sent EXCEPT ![caller] = Append(@, Accepted + 1)]
  <2> DEFINE n == Accepted
             e == [to |-> to, message |-> n + 1]
  <2>1. /\ caller \in {"owner", "peer"} /\ to \in {"owner", "peer"} /\ to = Peer[caller]
        /\ to # caller
    BY <1>2, Endpoints DEF has_endpoint_pair
  <2>2. /\ DOMAIN sent = {"owner", "peer"}
        /\ \A s \in {"owner", "peer"} : sent[s] \in Seq(Nat) /\ Len(sent[s]) \in Nat
    BY Endpoints DEF Inv, Direction
  <2>3. n \in Nat /\ n = Len(sent["owner"]) + Len(sent["peer"])
    BY <2>2 DEF Accepted
  <2>4. /\ DOMAIN sent' = DOMAIN sent /\ sent'[caller] = Append(sent[caller], n + 1)
        /\ \A s \in {"owner", "peer"} : s # caller => sent'[s] = sent[s]
    BY <1>2, <2>1, <2>2
  <2>5. Accepted' = n + 1
    <3>1. Accepted' = Len(sent'["owner"]) + Len(sent'["peer"])
      BY DEF Accepted
    <3>2. Len(sent'[caller]) = Len(sent[caller]) + 1
      BY <2>1, <2>2, <2>4
    <3> QED
      BY <2>1, <2>2, <2>3, <2>4, <3>1, <3>2
  <2>6. Ring(channel, n) /\ channel.length \in Nat /\ channel.length < Depth
    BY <1>2 DEF Inv, Ring, KernelIpcAssumption
  <2> HIDE DEF n
  <2>7. Pushed(channel, channel', to, n + 1)
    BY <1>2 DEF n, Pushed
  <2>8. /\ Ring(channel', n + 1) /\ channel'.length = channel.length + 1
        /\ Cell(channel', channel.length) = e
        /\ \A i \in 0 .. channel.length - 1 : Cell(channel', i) = Cell(channel, i)
    <3>1. n \in Nat /\ to \in {"owner", "peer"}
      BY <2>1, <2>3
    <3>2. Ring(channel, n) /\ channel.length < Depth
      BY <2>6
    <3>3. Grown(channel, channel', to, n)
      BY <2>7, <3>1, <3>2, RingGrows
    <3> QED
      BY <3>3 DEF Grown
  <2>9. e.to = to /\ e.message = n + 1
    OBVIOUS
  <2> HIDE DEF e
  <2>10. ASSUME NEW s \in {"owner", "peer"}
         PROVE  Direction(channel', n + 1, sent'[s], got[s], Peer[s])
    <3>1. Direction(channel, n, sent[s], got[s], Peer[s])
      BY Endpoints DEF Inv, n
    <3>2. CASE s = caller
      <4>1. sent'[s] = Append(sent[s], n + 1) /\ e.to = Peer[s]
        BY <2>1, <2>4, <2>9, <3>2
      <4> QED
        BY <2>3, <2>6, <2>8, <2>9, <3>1, <4>1, DirectionSends
    <3>3. CASE s # caller
      <4>1. sent'[s] = sent[s] /\ e.to # Peer[s]
        BY <2>1, <2>4, <2>9, <3>3, Endpoints
      <4> QED
        BY <2>3, <2>6, <2>8, <3>1, <4>1, DirectionIgnores
    <3> QED
      BY <3>2, <3>3
  <2>11. QuotaHolds'
    BY <1>0 DEF Inv, QuotaHolds
  <2> QED
    BY <1>0, <2>4, <2>5, <2>8, <2>10, <2>11, Endpoints DEF Inv
<1> QED
  BY <1>1, <1>2, SendCases

(* A delivery takes the oldest message, which is the next of its side.     *)
LEMMA ReceiveStep ==
    ASSUME KernelIpcAssumption, Inv, NEW who, Receive(who)
    PROVE  Inv'
<1>0. region' = region /\ quota' = quota /\ sent' = sent /\ selftest' = selftest
  BY DEF Receive
<1>1. CASE channel' = channel /\ got' = got
  BY <1>0, <1>1 DEF Inv, Accepted, QuotaHolds
<1>2. CASE /\ who \in DOMAIN Peer /\ channel.queue[channel.head].to = who
           /\ channel' = [channel EXCEPT !.queue[channel.head] = None,
                                         !.head = Place(@, 1), !.length = @ - 1]
           /\ got' = [got EXCEPT ![Peer[who]] =
                              Append(@, channel.queue[channel.head].message)]
  <2> DEFINE n == Accepted
             m == channel.queue[channel.head].message
             from == Peer[who]
  <2>1. /\ who \in {"owner", "peer"} /\ from \in {"owner", "peer"} /\ Peer[from] = who
        /\ DOMAIN got = {"owner", "peer"} /\ Depth \in Nat \ {0}
    BY <1>2, Endpoints DEF Inv, KernelIpcAssumption
  <2>2. n \in Nat
    BY Endpoints DEF Inv, Direction, Accepted
  <2>3. Ring(channel, n) /\ channel.head \in 0 .. Depth - 1 /\ channel.length \in 0 .. Depth
    BY DEF Inv, Ring
  <2>4. Cell(channel, 0) = channel.queue[channel.head]
    <3>1. Place(channel.head, 0) = channel.head
      BY <2>1, <2>3, PlacesFollow
    <3> QED
      BY <3>1 DEF Cell
  <2>5. Cell(channel, 0).to = who /\ Cell(channel, 0).message = m
    BY <1>2, <2>4
  <2>6. channel.length \in Nat \ {0}
    <3>1. 0 \in 0 .. Depth - 1 /\ None.to = "none"
      BY <2>1 DEF None
    <3>2. ~(0 < channel.length) => Cell(channel, 0) = None
      BY <2>3, <3>1 DEF Ring
    <3> QED
      BY <2>1, <2>3, <2>5, <3>1, <3>2
  <2> HIDE DEF n, m, from
  <2>7. ASSUME NEW i \in 1 .. channel.length - 1 PROVE Cell(channel, i).message > m
    <3>1. /\ i \in 0 .. Depth - 1 /\ 0 \in 0 .. Depth - 1 /\ i < channel.length
          /\ 0 < channel.length
      BY <2>1, <2>3, <2>6
    <3>2. Cell(channel, i).message = n - channel.length + i + 1
      BY <2>3, <3>1 DEF Ring
    <3>3. Cell(channel, 0).message = n - channel.length + 0 + 1
      BY <2>3, <3>1 DEF Ring
    <3> QED
      BY <2>2, <2>3, <2>5, <3>1, <3>2, <3>3
  <2>8. /\ Ring(channel', n) /\ channel'.length = channel.length - 1
        /\ \A i \in 0 .. channel'.length - 1 : Cell(channel', i) = Cell(channel, i + 1)
    <3>1. channel' = [channel EXCEPT !.queue[channel.head] = None,
                                     !.head = Place(@, 1), !.length = @ - 1]
      BY <1>2
    <3>2. channel.length > 0
      BY <2>6
    <3> QED
      BY <2>2, <2>3, <3>1, <3>2, RingShrinks
  <2>9. Accepted' = n
    BY <1>0 DEF Accepted, n
  <2>10. /\ DOMAIN got' = DOMAIN got /\ got'[from] = Append(got[from], m)
         /\ \A s \in {"owner", "peer"} : s # from => got'[s] = got[s]
    BY <1>2, <2>1 DEF from, m
  <2>11. ASSUME NEW s \in {"owner", "peer"}
         PROVE  Direction(channel', n, sent[s], got'[s], Peer[s])
    <3>1. Direction(channel, n, sent[s], got[s], Peer[s])
      BY Endpoints DEF Inv, n
    <3>2. CASE s = from
      <4>1. Cell(channel, 0).to = Peer[s] /\ got'[s] = Append(got[s], m)
        BY <2>1, <2>5, <2>10, <3>2
      <4> QED
        BY <2>2, <2>5, <2>6, <2>7, <2>8, <3>1, <4>1, DirectionDelivers
    <3>3. CASE s # from
      <4>1. Cell(channel, 0).to # Peer[s] /\ got'[s] = got[s]
        BY <2>1, <2>5, <2>10, <3>3, Endpoints
      <4> QED
        BY <2>2, <2>6, <2>8, <3>1, <4>1, DirectionRests
    <3> QED
      BY <3>2, <3>3
  <2>12. QuotaHolds'
    BY <1>0 DEF Inv, QuotaHolds
  <2> QED
    BY <1>0, <2>8, <2>9, <2>10, <2>11, <2>12, Endpoints DEF Inv
<1> QED
  BY <1>1, <1>2, ReceiveCases

(* register takes a free record for a service that has none.               *)
LEMMA RegisterStep ==
    ASSUME KernelIpcAssumption, Inv, NEW service \in Services, Register(service)
    PROVE  Inv'
<1>1. /\ channel' = channel /\ region' = region /\ sent' = sent /\ got' = got
      /\ selftest' = selftest
  BY DEF Register
<1>2. PICK max \in 1 .. MaxQuota : quota' = register(quota, service, max).q
  BY DEF Register
<1>3. /\ quota \in [1 .. QuotaRecords -> Quotas] /\ max \in Nat /\ QuotaRecords \in Nat
      /\ service # "none"
  BY DEF Inv, KernelIpcAssumption, Services
<1>4. quota' \in [1 .. QuotaRecords -> Quotas] /\ QuotaHolds'
  <2>1. CASE Of(quota, service) # {} \/ Of(quota, "none") = {}
    <3>1. quota' = quota
      BY <1>2, <2>1 DEF register
    <3> QED
      BY <1>3, <3>1 DEF Inv, QuotaHolds
  <2>2. CASE Of(quota, service) = {} /\ Of(quota, "none") # {}
    <3> DEFINE x == FirstSlot(Of(quota, "none"))
               y == [service |-> service, max |-> max, used |-> 0]
    <3>1. Of(quota, "none") \in SUBSET Nat
      BY <1>3 DEF Of
    <3>2. x \in Of(quota, "none")
      BY <2>2, <3>1, FirstSlotIsOne
    <3>3. x \in 1 .. QuotaRecords
      BY <1>3, <3>2 DEF Of
    <3>4. quota' = [quota EXCEPT ![x] = y]
      BY <1>2, <2>2 DEF register
    <3>5. y \in Quotas /\ y.service = service /\ y.used = 0 /\ y.max = max
      BY <1>3 DEF Quotas
    <3> HIDE DEF x, y
    <3>6. /\ quota'[x] = y /\ \A i \in 1 .. QuotaRecords : i # x => quota'[i] = quota[i]
          /\ DOMAIN quota' = 1 .. QuotaRecords /\ quota' \in [1 .. QuotaRecords -> Quotas]
      BY <1>3, <3>3, <3>4, <3>5
    <3>7. \A i \in 1 .. QuotaRecords : quota[i].service # service
      BY <1>3, <2>2 DEF Of
    <3>8. \A i, j \in 1 .. QuotaRecords :
             /\ quota[i].used <= quota[i].max
             /\ quota[i].service = quota[j].service /\ i # j => quota[i].service = "none"
      BY <1>3 DEF Inv, QuotaHolds
    <3>9. QuotaHolds'
      BY <1>3, <3>5, <3>6, <3>7, <3>8 DEF QuotaHolds
    <3> QED
      BY <3>6, <3>9
  <2> QED
    BY <2>1, <2>2
<1> QED
  BY <1>1, <1>4 DEF Inv, Accepted

(* charge stays within the record it charges.                              *)
LEMMA ChargeStep ==
    ASSUME KernelIpcAssumption, Inv, NEW service \in Services, Charge(service)
    PROVE  Inv'
<1>1. /\ channel' = channel /\ region' = region /\ sent' = sent /\ got' = got
      /\ selftest' = selftest
  BY DEF Charge
<1>2. PICK n \in 1 .. MaxQuota : quota' = charge(quota, service, n).q
  BY DEF Charge
<1>3. quota \in [1 .. QuotaRecords -> Quotas] /\ n \in Nat /\ QuotaRecords \in Nat
  BY DEF Inv, KernelIpcAssumption
<1> DEFINE x == FirstSlot(Of(quota, service))
<1>4. quota' \in [1 .. QuotaRecords -> Quotas] /\ QuotaHolds'
  <2>1. CASE Of(quota, service) = {}
    <3>1. quota' = quota
      BY <1>2, <2>1 DEF charge
    <3> QED
      BY <1>3, <3>1 DEF Inv, QuotaHolds
  <2>2. CASE Of(quota, service) # {} /\ quota[x].used + n > quota[x].max
    <3>1. quota' = quota
      BY <1>2, <2>2 DEF charge
    <3> QED
      BY <1>3, <3>1 DEF Inv, QuotaHolds
  <2>3. CASE Of(quota, service) # {} /\ ~(quota[x].used + n > quota[x].max)
    <3>1. Of(quota, service) \in SUBSET Nat
      BY <1>3 DEF Of
    <3>2. x \in Of(quota, service)
      BY <2>3, <3>1, FirstSlotIsOne
    <3>3. x \in 1 .. QuotaRecords
      BY <1>3, <3>2 DEF Of
    <3>4. quota' = [quota EXCEPT ![x].used = @ + n]
      BY <1>2, <2>3 DEF charge
    <3> HIDE DEF x
    <3>5. quota[x].used + n <= quota[x].max /\ quota[x] \in Quotas
      <4>1. quota[x].used \in Nat /\ quota[x].max \in Nat /\ quota[x] \in Quotas
        BY <1>3, <3>3 DEF Quotas
      <4> QED
        BY <1>3, <2>3, <4>1
    <3>6. /\ quota'[x] \in Quotas /\ quota'[x].service = quota[x].service
          /\ quota'[x].max = quota[x].max /\ quota'[x].used = quota[x].used + n
      <4>1. quota'[x] = [quota[x] EXCEPT !.used = @ + n]
        BY <1>3, <3>3, <3>4
      <4>2. ASSUME NEW r \in Quotas, NEW g, g = [r EXCEPT !.used = @ + n]
            PROVE  g \in Quotas /\ g.service = r.service /\ g.max = r.max /\ g.used = r.used + n
        BY <1>3, <4>2 DEF Quotas
      <4> QED
        BY <3>5, <4>1, <4>2
    <3>7. /\ \A i \in 1 .. QuotaRecords : i # x => quota'[i] = quota[i]
          /\ DOMAIN quota' = 1 .. QuotaRecords
      BY <1>3, <3>4
    <3>8. quota' \in [1 .. QuotaRecords -> Quotas]
      BY <1>3, <3>3, <3>4, <3>6, <3>7
    <3>9. \A i, j \in 1 .. QuotaRecords :
             /\ quota[i].used <= quota[i].max
             /\ quota[i].service = quota[j].service /\ i # j => quota[i].service = "none"
      BY <1>3 DEF Inv, QuotaHolds
    <3>10. \A i \in 1 .. QuotaRecords : /\ quota'[i].service = quota[i].service
                                        /\ quota'[i].used <= quota'[i].max
      BY <3>5, <3>6, <3>7, <3>9
    <3>11. QuotaHolds'
      BY <3>7, <3>9, <3>10 DEF QuotaHolds
    <3> QED
      BY <3>8, <3>11
  <2> QED
    BY <2>1, <2>2, <2>3
<1> QED
  BY <1>1, <1>4 DEF Inv, Accepted

(* A grant or a revocation touches the capability table only, a write the  *)
(* region only.                                                            *)
LEMMA OtherStep ==
    ASSUME Inv, UNCHANGED <<channel, quota, sent, got, selftest>>,
           region' \in {region} \cup Services
    PROVE  Inv'
BY DEF Inv, Accepted, QuotaHolds

(* Every step keeps the invariant.                                         *)
LEMMA Step == ASSUME KernelIpcAssumption, Inv, [Next]_vars PROVE Inv'
<1>1. ASSUME NEW s \in Services, Grant(s) \/ Receive(s) \/ Register(s) \/ Charge(s)
      PROVE  Inv'
  BY <1>1, OtherStep, ReceiveStep, RegisterStep, ChargeStep DEF Grant
<1>2. ASSUME NEW s \in Services, NEW h, Write(s, h) PROVE Inv'
  <2>1. region' \in {region} \cup Services
    BY <1>2 DEF Write, write
  <2> QED
    BY <1>2, <2>1, OtherStep DEF Write
<1>3. ASSUME NEW s, NEW h, NEW to, Send(s, h, to) PROVE Inv'
  BY <1>3, SendStep
<1>4. ASSUME NEW h, Revoke(h) PROVE Inv'
  BY <1>4, OtherStep DEF Revoke
<1>5. CASE UNCHANGED vars
  BY <1>5, OtherStep DEF vars
<1> QED
  BY <1>1, <1>2, <1>3, <1>4, <1>5 DEF Next

(* What the invariant says of the ring and the histories.                  *)
LEMMA Consequences ==
    ASSUME KernelIpcAssumption, Inv PROVE TypeOK /\ ChannelExact /\ QuotaHolds
<1>1. TypeOK
  BY DEF Inv, Ring, TypeOK, Quotas
<1>2. ASSUME NEW s \in DOMAIN Peer
      PROVE  /\ Len(got[s]) <= Len(sent[s])
             /\ \A k \in 1 .. Len(got[s]) : got[s][k] = sent[s][k]
             /\ \A k \in Len(got[s]) + 1 .. Len(sent[s]) :
                   \E i \in Waiting(channel, Peer[s]) : Cell(channel, i).message = sent[s][k]
             /\ \A i \in Waiting(channel, Peer[s]) :
                   \E k \in Len(got[s]) + 1 .. Len(sent[s]) : sent[s][k] = Cell(channel, i).message
  <2>1. Direction(channel, Accepted, sent[s], got[s], Peer[s])
    BY DEF Inv
  <2> QED
    BY <2>1 DEF Direction, Waiting
<1>3. ASSUME NEW i \in 0 .. channel.length - 1, NEW j \in 0 .. channel.length - 1, i < j
      PROVE  Cell(channel, i).message < Cell(channel, j).message
  <2>1. /\ channel.length \in 0 .. Depth /\ Depth \in Nat /\ i \in 0 .. Depth - 1
        /\ j \in 0 .. Depth - 1
    BY DEF Inv, Ring, KernelIpcAssumption
  <2>2. /\ Cell(channel, i).message = Accepted - channel.length + i + 1
        /\ Cell(channel, j).message = Accepted - channel.length + j + 1
    BY <2>1 DEF Inv, Ring
  <2>3. Accepted \in Nat
    BY Endpoints DEF Inv, Direction, Accepted
  <2> QED
    BY <1>3, <2>1, <2>2, <2>3
<1>4. ChannelExact
  BY <1>2, <1>3 DEF ChannelExact
<1> QED
  BY <1>1, <1>4 DEF Inv

(* validate answers Ok for nobody but the holder of an active entry.       *)
LEMMA OnlyHolders ==
    ASSUME NEW caller, NEW handle, NEW resource, NEW right,
           ValidateAnswer(table, caller, handle, resource, {right}) = "Ok"
    PROVE  \E e \in DOMAIN table : /\ table[e].state = "Active" /\ table[e].holder = caller
                                   /\ table[e].resource = resource /\ right \in table[e].rights
<1>1. Live(table, handle)
  BY DEF ValidateAnswer
<1>2. table[handle.slot].state = "Active"
  BY <1>1 DEF ValidateAnswer
<1>3. /\ table[handle.slot].holder = caller /\ table[handle.slot].resource = resource
      /\ right \in table[handle.slot].rights
  BY <1>1, <1>2 DEF ValidateAnswer
<1> QED
  BY <1>1, <1>2, <1>3 DEF Live

(* What a step may change, and who may make it.                            *)
LEMMA StepAuthorised == ASSUME [Next]_vars PROVE RegionWrittenByHolder /\ SentByHolder
<1>1. ASSUME NEW s, NEW h, Write(s, h) PROVE RegionWrittenByHolder /\ SentByHolder
  <2>1. sent' = sent
    BY <1>1 DEF Write
  <2>2. CASE ValidateAnswer(table, s, h, "region", {"WRITE"}) = "Ok"
    <3>1. region' = s
      BY <1>1, <2>2 DEF Write, write
    <3> QED
      BY <2>1, <2>2, <3>1, OnlyHolders DEF RegionWrittenByHolder, SentByHolder
  <2>3. CASE ValidateAnswer(table, s, h, "region", {"WRITE"}) # "Ok"
    <3>1. region' = region
      BY <1>1, <2>3 DEF Write, write
    <3> QED
      BY <2>1, <3>1 DEF RegionWrittenByHolder, SentByHolder
  <2> QED
    BY <2>2, <2>3
<1>2. ASSUME NEW s, NEW h, NEW to, Send(s, h, to) PROVE RegionWrittenByHolder /\ SentByHolder
  <2>1. region' = region
    BY <1>2 DEF Send
  <2>2. CASE sent' = sent
    BY <2>1, <2>2 DEF RegionWrittenByHolder, SentByHolder
  <2>3. CASE /\ ValidateAnswer(table, s, h, "channel", {"SEND"}) = "Ok"
             /\ sent' = [sent EXCEPT ![s] = Append(@, Accepted + 1)]
    <3>1. \A z \in DOMAIN Peer : sent'[z] # sent[z] => z = s
      BY <2>3
    <3>2. \E e \in DOMAIN table : /\ table[e].state = "Active" /\ table[e].holder = s
                                  /\ table[e].resource = "channel" /\ "SEND" \in table[e].rights
      <4>1. ValidateAnswer(table, s, h, "channel", {"SEND"}) = "Ok"
        BY <2>3
      <4> QED
        BY <4>1, OnlyHolders
    <3>3. SentByHolder
      BY <3>1, <3>2 DEF SentByHolder
    <3> QED
      BY <2>1, <3>3 DEF RegionWrittenByHolder
  <2> QED
    BY <1>2, <2>2, <2>3, SendCases
<1>3. CASE UNCHANGED <<region, sent>>
  BY <1>3 DEF RegionWrittenByHolder, SentByHolder
<1> QED
  BY <1>1, <1>2, <1>3 DEF Next, vars, Grant, Receive, Register, Charge, Revoke

(* Whatever the two services send, receive, grant and revoke, however      *)
(* often the shared ring of ipc_channels.rs wraps and whatever its depth,  *)
(* the channel delivers what it accepted, in order and to the right side,  *)
(* the quotas of resource_quotas.rs hold, and only a holder writes to the  *)
(* region or has a message accepted.                                       *)
THEOREM IpcHolds ==
    ASSUME KernelIpcAssumption
    PROVE  Spec => /\ [](TypeOK /\ ChannelExact /\ QuotaHolds)
                   /\ [][RegionWrittenByHolder /\ SentByHolder]_vars
<1>1. Init => Inv
  BY Initial
<1>2. Inv /\ [Next]_vars => Inv'
  BY Step
<1>3. Inv => TypeOK /\ ChannelExact /\ QuotaHolds
  BY Consequences
<1>4. [Next]_vars => RegionWrittenByHolder /\ SentByHolder
  BY StepAuthorised
<1> QED
  BY <1>1, <1>2, <1>3, <1>4, PTL DEF Spec

=============================================================================

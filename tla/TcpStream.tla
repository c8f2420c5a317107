----------------------------- MODULE TcpStream ------------------------------
(***************************************************************************)
(* The TCP client of the secure transport consumer                         *)
(* (user/probes/socket/src/secure.rs) and the session that drives it:      *)
(* connect, the TLS handshake, one protected request and response, the     *)
(* close_notify and close_tcp.                                             *)
(*                                                                         *)
(* The client is stop-and-wait.  It keeps two sequence numbers, a receive  *)
(* buffer that is compacted in place, and peer_fin; it accepts only the    *)
(* next expected segment and never retransmits.  The peer is a conforming  *)
(* endpoint that may pipeline up to Flight bytes, and may retransmit.  The *)
(* wire may lose, duplicate or swap up to Faults segments.                 *)
(*                                                                         *)
(* Sequence numbers are relative to the initial ones: byte i of a stream   *)
(* has number i, the SYN 0, and the FIN comes after the last byte.         *)
(***************************************************************************)
EXTENDS Naturals, Sequences

CONSTANTS
    Script,         \* what the TLS client asks of the stream, in order
    Response,       \* the position in Script of the read of the response
    PeerBytes,      \* how many bytes the peer sends
    Mss,            \* the peer's largest segment
    Flight,         \* how many unacknowledged bytes the peer may have
    PayloadBytes,   \* STREAM_TCP_PAYLOAD_BYTES
    RxBytes,        \* STREAM_RX_BYTES
    Faults          \* faults of the wire, the port, the clock and the peer

SizesAssumption ==
    /\ PeerBytes \in Nat /\ Flight \in Nat /\ Faults \in Nat
    /\ Mss \in 1..RxBytes /\ PayloadBytes \in Nat \ {0} /\ RxBytes \in Nat

VARIABLES
    pc,         \* what the client waits for
    pos,        \* position in Script
    left,       \* bytes the current operation still has to move
    s,          \* [local, peer, fin]: local_sequence, peer_sequence, peer_fin
    rx,         \* [mem, start, len]: the receive buffer
    delivered,  \* the bytes handed to TLS
    tamper,     \* TAMPER_REJECTED was written
    early,      \* a FIN was counted before its turn (history)
    altered,    \* the peer alters a byte of the response
    toPeer, toClient, peer, faults

vars == <<pc, pos, left, s, rx, delivered, tamper, early, altered, toPeer, toClient, peer, faults>>

\* Byte 0 is the zeroed buffer.
Stream == [i \in 1..PeerBytes |-> i]
Ended == pc \in {"success", "error"}

Seg(flags, seq, ack, data) == [flags |-> flags, seq |-> seq, ack |-> ack, data |-> data]
Arp == Seg("ARP", 0, 0, << >>)

Buffered == [i \in 1..rx.len |-> rx.mem[rx.start + i - 1]]

Init ==
    /\ pc = "new" /\ pos = 0 /\ left = 0
    /\ s = [local |-> 0, peer |-> 0, fin |-> FALSE]
    /\ rx = [mem |-> [i \in 0..(RxBytes - 1) |-> 0], start |-> 0, len |-> 0]
    /\ delivered = << >> /\ tamper = FALSE /\ early = FALSE
    /\ altered \in BOOLEAN
    /\ toPeer = << >> /\ toClient = << >>
    /\ peer = [rcv |-> 0, snd |-> 0, una |-> 0]
    /\ faults = Faults

-----------------------------------------------------------------------------
(* What one received segment does to the stream.  Each handler answers      *)
(* [s, rx, out, res]: the new state, the segments sent, and the outcome:    *)
(* "more", "done", "eof" or "err".                                          *)

Outcome(st, buf, out, res) == [s |-> st, rx |-> buf, out |-> out, res |-> res]
Failed == Outcome(s, rx, << >>, "err")
Ack(st) == Seg("ACK", st.local, st.peer, << >>)

\* accept_peer_data: what fits.
Fits(n) == n <= RxBytes - rx.len

\* The buffer start moved without the bytes.
CompactedBlind(n) ==
    IF n > RxBytes - (rx.start + rx.len) THEN [rx EXCEPT !.start = 0] ELSE rx

\* copy_within: the buffered bytes move to the front when the tail is too short.
Compacted(n) ==
    IF n > RxBytes - (rx.start + rx.len)
    THEN [rx EXCEPT !.start = 0,
                    !.mem = [i \in DOMAIN rx.mem |->
                               IF i < rx.len THEN rx.mem[rx.start + i] ELSE rx.mem[i]]]
    ELSE rx

\* The bytes after those already buffered.
Stored(buf, data) ==
    [buf EXCEPT !.len = buf.len + Len(data),
                !.mem = [i \in DOMAIN buf.mem |->
                           IF i \in (buf.start + buf.len)..(buf.start + buf.len + Len(data) - 1)
                           THEN data[i - buf.start - buf.len + 1] ELSE buf.mem[i]]]

\* accept_peer_data takes exactly the next bytes of the peer's stream.
Acceptable(seg) == seg.seq = s.peer /\ Fits(Len(seg.data))

\* Sequence and buffer after the segment was taken.
Accepted(seg) ==
    [s  |-> [s EXCEPT !.peer = @ + Len(seg.data)],
     rx |-> Stored(Compacted(Len(seg.data)), seg.data)]

\* receive_segment: only TCP segments of this connection decode.
Decodes(seg) == seg.flags # "ARP"

\* wait_for_ack: data and FIN are taken on the way; a FIN is counted without
\* looking at its sequence number.
wait_for_ack(seg) ==
    LET data == Len(seg.data) > 0
        a == IF data THEN Accepted(seg) ELSE [s |-> s, rx |-> rx]
        f == IF seg.flags = "FIN_ACK" THEN [a.s EXCEPT !.fin = TRUE, !.peer = @ + 1] ELSE a.s
        out == (IF data THEN << Ack(a.s) >> ELSE << >>)
               \o (IF seg.flags = "FIN_ACK" THEN << Ack(f) >> ELSE << >>)
    IN  IF ~Decodes(seg) \/ (data /\ ~Acceptable(seg)) THEN Failed
        ELSE Outcome(f, a.rx, out, IF seg.ack >= s.local THEN "done" ELSE "more")

\* Read::read with an empty buffer.
read_segment(seg) ==
    LET a == Accepted(seg)
        f == [s EXCEPT !.fin = TRUE, !.peer = @ + 1]
    IN  CASE ~Decodes(seg) -> Failed
          [] Decodes(seg) /\ Len(seg.data) > 0 ->
                IF Acceptable(seg) THEN Outcome(a.s, a.rx, << Ack(a.s) >>, "more") ELSE Failed
          [] Decodes(seg) /\ Len(seg.data) = 0 /\ seg.flags = "FIN_ACK" ->
                IF seg.seq = s.peer THEN Outcome(f, rx, << Ack(f) >>, "eof") ELSE Failed
          [] OTHER -> Outcome(s, rx, << >>, "more")

\* close_tcp, after its FIN was sent: data is taken but not acknowledged.
close_segment(seg) ==
    LET a == Accepted(seg)
        f == [s EXCEPT !.fin = TRUE, !.peer = @ + 1]
    IN  CASE ~Decodes(seg) -> Failed
          [] Decodes(seg) /\ seg.flags = "FIN_ACK" ->
                IF seg.seq = s.peer THEN Outcome(f, rx, << Ack(f) >>, "done") ELSE Failed
          [] Decodes(seg) /\ seg.flags # "FIN_ACK" /\ Len(seg.data) > 0 ->
                IF Acceptable(seg)
                THEN Outcome(a.s, a.rx, << >>, IF seg.ack >= s.local /\ s.fin THEN "done" ELSE "more")
                ELSE Failed
          [] OTHER -> Outcome(s, rx, << >>, IF seg.ack >= s.local /\ s.fin THEN "done" ELSE "more")

\* connect, after the SYN.
syn_segment(seg) ==
    LET up == [s EXCEPT !.local = 1, !.peer = 1]
    IN  IF seg = Seg("SYN_ACK", 0, 1, << >>) THEN Outcome(up, rx, << Ack(up) >>, "done") ELSE Failed

Handled(seg) ==
    CASE pc = "arp"   -> IF seg = Arp THEN Outcome(s, rx, << Seg("SYN", 0, 0, << >>) >>, "done") ELSE Failed
      [] pc = "syn"   -> syn_segment(seg)
      [] pc = "ack"   -> wait_for_ack(seg)
      [] pc = "read"  -> read_segment(seg)
      [] pc = "close" -> close_segment(seg)

-----------------------------------------------------------------------------
(* The session: start() and embedded-tls, which turns each stage into reads *)
(* and writes of the stream.                                                *)

Waiting == pc \in {"arp", "syn", "ack", "read", "close"}

\* A failed operation: the read of the response is reported as tampering and
\* the session goes on to close; a failed close_notify is then ignored;
\* anything else is the error exit.
Fail ==
    IF pos = Response THEN pc' = "next" /\ pos' = pos + 1 /\ tamper' = TRUE
    ELSE IF pos = Response + 1 /\ tamper THEN pc' = "next" /\ pos' = pos + 1 /\ UNCHANGED tamper
    ELSE pc' = "error" /\ UNCHANGED <<pos, tamper>>

Fault == faults > 0 /\ faults' = faults - 1

\* connect: the ARP request.
Connect ==
    /\ pc = "new"
    /\ pc' = "arp"
    /\ toPeer' = Append(toPeer, Arp)
    /\ UNCHANGED <<pos, left, s, rx, delivered, tamper, early, altered, toClient, peer, faults>>

\* The next stage of the session begins.
Begin ==
    /\ pc = "next"
    /\ pos < Len(Script)
    /\ LET op == Script[pos + 1]
       IN  /\ pos' = pos + 1
           /\ left' = op.n
           /\ pc' = CASE op.op = "write" -> "writing"
                      [] op.op = "read"  -> "reading"
                      [] op.op = "close" -> "closing"
    /\ UNCHANGED <<s, rx, delivered, tamper, early, altered, toPeer, toClient, peer, faults>>

\* Write::write, one chunk: the next segment and wait_for_ack.
WriteChunk ==
    /\ pc = "writing" /\ left > 0
    /\ LET n == IF left < PayloadBytes THEN left ELSE PayloadBytes
       IN  /\ toPeer' = Append(toPeer, Seg("ACK", s.local, s.peer, [i \in 1..n |-> s.local + i - 1]))
           /\ s' = [s EXCEPT !.local = @ + n]
           /\ left' = left - n
    /\ pc' = "ack"
    /\ UNCHANGED <<pos, rx, delivered, tamper, early, altered, toClient, peer, faults>>

WriteDone ==
    /\ pc = "writing" /\ left = 0
    /\ pc' = "next"
    /\ UNCHANGED <<pos, left, s, rx, delivered, tamper, early, altered, toPeer, toClient, peer, faults>>

\* Read::read with bytes in the buffer, into an output of any size.
ReadBuffered ==
    /\ pc = "reading" /\ left > 0 /\ rx.len > 0
    /\ \E n \in 1..(IF left < rx.len THEN left ELSE rx.len) :
          /\ delivered' = delivered \o SubSeq(Buffered, 1, n)
          /\ left' = left - n
          /\ rx' = [rx EXCEPT !.len = @ - n,
                              !.start = IF rx.len = n THEN 0 ELSE rx.start + n]
    /\ UNCHANGED <<pc, pos, s, tamper, early, altered, toPeer, toClient, peer, faults>>

\* Read::read with an empty buffer waits for a segment, unless the peer has
\* finished: the end of the stream is an error of the TLS client.
ReadEmpty ==
    /\ pc = "reading" /\ left > 0 /\ rx.len = 0
    /\ IF s.fin THEN Fail ELSE pc' = "read" /\ UNCHANGED <<pos, tamper>>
    /\ UNCHANGED <<left, s, rx, delivered, early, altered, toPeer, toClient, peer, faults>>

\* The response record is complete: TLS rejects it when it was altered.
ReadDone ==
    /\ pc = "reading" /\ left = 0
    /\ IF pos = Response /\ altered THEN Fail
       ELSE pc' = "next" /\ UNCHANGED <<pos, tamper>>
    /\ UNCHANGED <<left, s, rx, delivered, early, altered, toPeer, toClient, peer, faults>>

\* close_tcp sends the FIN.
CloseSend ==
    /\ pc = "closing"
    /\ toPeer' = Append(toPeer, Seg("FIN_ACK", s.local, s.peer, << >>))
    /\ s' = [s EXCEPT !.local = @ + 1]
    /\ pc' = "close"
    /\ UNCHANGED <<pos, left, rx, delivered, tamper, early, altered, toClient, peer, faults>>

\* send_frame fails before the ARP request, a chunk or the FIN is out: connect,
\* write or close_tcp returns with the stream as it was.
SendFails ==
    /\ pc \in {"new", "closing"} \/ (pc = "writing" /\ left > 0)
    /\ Fault /\ Fail
    /\ UNCHANGED <<left, s, rx, delivered, early, altered, toPeer, toClient, peer>>

\* Where the session stands after a segment was handled.
After(res) ==
    CASE res = "err" -> Fail
      [] res = "eof" -> Fail
      [] res = "more" -> /\ pc' = IF pc = "read" THEN "reading" ELSE pc
                         /\ UNCHANGED <<pos, tamper>>
      [] res = "done" -> /\ pc' = CASE pc = "arp" -> "syn" [] pc = "syn" -> "next"
                                    [] pc = "ack" -> "writing" [] pc = "close" -> "success"
                         /\ UNCHANGED <<pos, tamper>>

CountsEarly(seg) == pc = "ack" /\ seg.flags = "FIN_ACK" /\ seg.seq # s.peer

\* One segment from receive_frame, handled to the end; a send inside the
\* handler may fail after the state was changed, and the segment may be the last
\* of the MAX_RECEIVE_POLL_ATTEMPTS that wait_for_ack and close_tcp look at,
\* which only a misbehaving peer or wire can fill without the one awaited.
Receive ==
    /\ Waiting /\ toClient # << >>
    /\ LET r == Handled(Head(toClient))
       IN  /\ s' = r.s
           /\ rx' = r.rx
           /\ early' = (early \/ CountsEarly(Head(toClient)))
           /\ \/ toPeer' = toPeer \o r.out /\ After(r.res) /\ UNCHANGED faults
              \/ r.out # << >> /\ Fault /\ Fail /\ UNCHANGED toPeer
              \/ /\ r.res = "more" /\ pc \in {"ack", "close"}
                 /\ toPeer' = toPeer \o r.out /\ Fault /\ Fail
    /\ toClient' = Tail(toClient)
    /\ UNCHANGED <<left, delivered, altered, peer>>

PeerCanSend ==
    /\ peer.rcv >= 1 /\ peer.una >= 1
    /\ peer.snd = PeerBytes + 1 \/ (peer.snd <= PeerBytes /\ peer.snd + 1 - peer.una <= Flight)

\* Only connect bounds its polls.
PollsExhaustedConnect ==
    /\ pc \in {"arp", "syn"} /\ toClient = << >>
    /\ \/ toPeer = << >> /\ ~PeerCanSend /\ UNCHANGED faults
       \/ Fault
    /\ Fail
    /\ UNCHANGED <<left, s, rx, delivered, early, altered, toPeer, toClient, peer>>

\* The poll budget of receive_frame runs out: nothing is coming, or it is late.
PollsExhausted ==
    /\ Waiting /\ toClient = << >>
    /\ \/ toPeer = << >> /\ ~PeerCanSend /\ UNCHANGED faults
       \/ Fault
    /\ Fail
    /\ UNCHANGED <<left, s, rx, delivered, early, altered, toPeer, toClient, peer>>

Client ==
    \/ Connect \/ Begin \/ WriteChunk \/ WriteDone \/ ReadBuffered \/ ReadEmpty
    \/ ReadDone \/ CloseSend \/ SendFails \/ Receive \/ PollsExhausted

-----------------------------------------------------------------------------
(* The peer and the wire.                                                   *)

PeerAck(rcv) == Seg("ACK", peer.snd, rcv, << >>)

PeerReceive ==
    /\ toPeer # << >>
    /\ toPeer' = Tail(toPeer)
    /\ LET seg == Head(toPeer)
           una == IF seg.ack > peer.una /\ seg.ack <= peer.snd THEN seg.ack ELSE peer.una
           more == Len(seg.data) + (IF seg.flags = "FIN_ACK" THEN 1 ELSE 0)
       IN  CASE seg.flags = "ARP" -> toClient' = Append(toClient, Arp) /\ UNCHANGED peer
             [] seg.flags = "SYN" ->
                  /\ peer' = [rcv |-> 1, snd |-> 1, una |-> 0]
                  /\ toClient' = Append(toClient, Seg("SYN_ACK", 0, 1, << >>))
             [] seg.flags \in {"ACK", "FIN_ACK"} /\ more = 0 ->
                  peer' = [peer EXCEPT !.una = una] /\ UNCHANGED toClient
             [] OTHER ->
                  LET rcv == IF seg.seq = peer.rcv THEN peer.rcv + more ELSE peer.rcv
                  IN  /\ peer' = [peer EXCEPT !.una = una, !.rcv = rcv]
                      /\ toClient' = Append(toClient, PeerAck(rcv))
    /\ UNCHANGED <<pc, pos, left, s, rx, delivered, tamper, early, altered, faults>>

\* The peer sends what its window allows once the connection is up.
PeerSend ==
    /\ peer.rcv >= 1 /\ peer.una >= 1
    /\ \/ \E n \in 1..Mss :
             /\ peer.snd + n <= PeerBytes + 1
             /\ peer.snd + n - peer.una <= Flight
             /\ toClient' = Append(toClient,
                    Seg("ACK", peer.snd, peer.rcv, SubSeq(Stream, peer.snd, peer.snd + n - 1)))
             /\ peer' = [peer EXCEPT !.snd = @ + n]
       \/ /\ peer.snd = PeerBytes + 1
          /\ toClient' = Append(toClient, Seg("FIN_ACK", peer.snd, peer.rcv, << >>))
          /\ peer' = [peer EXCEPT !.snd = @ + 1]
    /\ UNCHANGED <<pc, pos, left, s, rx, delivered, tamper, early, altered, toPeer, faults>>

PeerRetransmit ==
    /\ Fault
    /\ peer.una >= 1 /\ peer.una < peer.snd
    /\ toClient' = Append(toClient,
            IF peer.una <= PeerBytes THEN Seg("ACK", peer.una, peer.rcv, << Stream[peer.una] >>)
            ELSE Seg("FIN_ACK", peer.una, peer.rcv, << >>))
    /\ UNCHANGED <<pc, pos, left, s, rx, delivered, tamper, early, altered, toPeer, peer>>

Disturbed(q) ==
    { SubSeq(q, 1, i - 1) \o SubSeq(q, i + 1, Len(q)) : i \in DOMAIN q }
    \union { SubSeq(q, 1, i) \o SubSeq(q, i, Len(q)) : i \in DOMAIN q }
    \union { [q EXCEPT ![i] = q[i + 1], ![i + 1] = q[i]] : i \in 1..(Len(q) - 1) }

WireFault ==
    /\ Fault
    /\ \/ toPeer' \in Disturbed(toPeer) /\ UNCHANGED toClient
       \/ toClient' \in Disturbed(toClient) /\ UNCHANGED toPeer
    /\ UNCHANGED <<pc, pos, left, s, rx, delivered, tamper, early, altered, peer>>

Next == Client \/ PeerReceive \/ PeerSend \/ PeerRetransmit \/ WireFault

\* The probe runs alone and polls; a conforming peer answers and sends.
Spec == Init /\ [][Next]_vars /\ WF_vars(Client) /\ WF_vars(PeerReceive) /\ WF_vars(PeerSend)

-----------------------------------------------------------------------------

TypeOK ==
    /\ pc \in {"new", "arp", "syn", "next", "writing", "ack", "reading", "read",
               "closing", "close", "success", "error"}
    /\ pos \in 0..Len(Script)
    /\ rx.start \in 0..RxBytes /\ rx.len \in 0..RxBytes /\ rx.start + rx.len <= RxBytes
    /\ faults \in 0..Faults

Intact ==
    LET seen == delivered \o Buffered
    IN  Len(seen) <= PeerBytes /\ seen = SubSeq(Stream, 1, Len(seen))

\* Whatever the wire and the peer do, what TLS was given followed by what is
\* buffered is a prefix of the peer's stream: no byte is lost, repeated,
\* reordered or overwritten by the in-place compaction (accept_peer_data),
\* as long as wait_for_ack has not counted a FIN out of turn.
StreamIntegrity == ~early => Intact

\* The same without the exception.
StreamIntact == Intact

\* While no fault has happened, the sequence arithmetic is exact: the client
\* acknowledges what it has accepted and expects nothing else.
SequenceExact ==
    faults = Faults /\ s.peer > 0 =>
        s.peer = 1 + Len(delivered) + rx.len + (IF s.fin THEN 1 ELSE 0)

\* A fault-free exchange with a conforming peer that keeps within the
\* receive buffer reaches CLOSE_OK or the tamper exit, never the error exit.
ErrorNeedsFault == pc = "error" => faults < Faults

\* An altered response is never released: the session that decrypted it
\* rejected it (start, the match on tls.read).
AlteredNeverReleased == pc = "success" /\ altered => tamper

=============================================================================

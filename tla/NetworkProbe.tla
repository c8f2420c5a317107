---------------------------- MODULE NetworkProbe ----------------------------
(***************************************************************************)
(* The finite user-mode network probes (user/probes): each one validates   *)
(* its bootstrap page and the port description, then plays a fixed script  *)
(* of frames against one peer, writing a serial marker after each stage.   *)
(* A frame that is not exactly the next one expected, any port status      *)
(* other than OK or EMPTY, and an exhausted poll budget end the probe in   *)
(* its error exit; there is no retransmission.  Around it, the kernel's    *)
(* launcher (core/src/*_probe.rs) installs the port, grants and binds the  *)
(* capabilities, runs the probe and tears the port down again.             *)
(*                                                                         *)
(* The wire is the environment: it may lose, duplicate, swap or damage     *)
(* frames, up to Faults of them.  The peer is a conforming endpoint: it    *)
(* answers what it receives by the rules of the protocol, not by the       *)
(* probe's tables.                                                         *)
(***************************************************************************)
EXTENDS Naturals, Sequences, FiniteSets

CONSTANTS
    Probes,     \* the probes of this instance
    Faults      \* how many faults the wire, the port and the clock may have

ProbesAssumption ==
    Probes \subseteq {"network-port", "link-layer", "arp", "ipv4", "icmp",
                      "udp", "dns", "tcp", "socket"}
FaultsAssumption == Faults \in Nat

VARIABLES
    probe,      \* which probe is running
    kernel,     \* its launcher: [stage, port, cap, denied]
    step,       \* position in its script
    exit,       \* "no", "success" (int3) or "error" (ud2)
    marks,      \* the markers written, in order
    socket,     \* SocketService: [state, handle, next]
    toPeer,     \* frames on their way to the peer
    toProbe,    \* frames on their way to the probe
    peer,       \* the peer's connection: [rcv, snd, una, served, fin]
    faults      \* faults left

vars == <<probe, kernel, step, exit, marks, socket, toPeer, toProbe, peer, faults>>
user == <<step, exit, marks, socket, toPeer, toProbe, peer>>

-----------------------------------------------------------------------------
(* Frames.  Sequence numbers are relative to each side's initial one, and  *)
(* a payload is its length: six bytes in each direction.                    *)

Frame(proto, op, seq, ack, len) ==
    [proto |-> proto, op |-> op, seq |-> seq, ack |-> ack, len |-> len]

Plain(proto, op) == Frame(proto, op, 0, 0, 0)

Garbage == Plain("none", "damaged")

\* expected_tcp_segment: the ten segments of the exchange, 0 to 9.
Segment(i) ==
    << Frame("tcp", "SYN",     0, 0, 0),
       Frame("tcp", "SYN_ACK", 0, 1, 0),
       Frame("tcp", "ACK",     1, 1, 0),
       Frame("tcp", "ACK",     1, 1, 6),
       Frame("tcp", "ACK",     1, 7, 6),
       Frame("tcp", "ACK",     7, 7, 0),
       Frame("tcp", "FIN_ACK", 7, 7, 0),
       Frame("tcp", "ACK",     7, 8, 0),
       Frame("tcp", "FIN_ACK", 7, 8, 0),
       Frame("tcp", "ACK",     8, 8, 0) >>[i + 1]

-----------------------------------------------------------------------------
(* Scripts: what _start does after the description was accepted.            *)

Send(f) == [do |-> "send", frame |-> f]
Recv(f) == [do |-> "recv", frame |-> f]
Mark(m) == [do |-> "mark", mark |-> m]
Call(c) == [do |-> "call", call |-> c]

ArpSetup == << Send(Plain("arp", "request")), Recv(Plain("arp", "reply")) >>

\* ipv4, icmp, udp and dns: ARP, then one request and its reply.
RequestReply(proto) ==
    ArpSetup \o << Mark("ARP_SETUP_OK"),
                   Send(Plain(proto, "request")), Mark("TX_OK"),
                   Recv(Plain(proto, "reply")), Mark("RX_OK") >>

Ipv4Script == RequestReply("ipv4")
IcmpScript == RequestReply("icmp")
UdpScript  == RequestReply("udp")
DnsScript  == RequestReply("dns")

ArpScript ==
    << Send(Plain("arp", "request")), Mark("TX_OK"),
       Recv(Plain("arp", "reply")), Mark("RX_OK") >>

\* consumer_phase of the network-port probe, up to its denial checks.
PortScript ==
    << Send(Plain("raw", "request")), Mark("TX_OK"),
       Recv(Plain("raw", "reply")), Mark("RX_OK") >>

\* receive_exchange: two frames that must be refused, then the exchange.
LinkScript ==
    << Send(Plain("link", "request")), Mark("TX_OK"),
       Recv(Plain("link", "wrong_destination")), Mark("WRONG_DESTINATION_DENIED"),
       Recv(Plain("link", "wrong_ethertype")), Mark("WRONG_ETHERTYPE_DENIED"),
       Recv(Plain("link", "reply")), Mark("RX_OK") >>

TcpScript ==
    ArpSetup \o
    << Mark("ARP_SETUP_OK"),
       Send(Segment(0)), Recv(Segment(1)), Send(Segment(2)), Mark("HANDSHAKE_OK"),
       Send(Segment(3)), Mark("TX_OK"), Recv(Segment(4)), Mark("RX_OK"),
       Send(Segment(5)), Send(Segment(6)), Recv(Segment(7)), Recv(Segment(8)),
       Send(Segment(9)), Mark("CLOSE_OK") >>

\* The socket probe: the same exchange with SocketService asked at each stage.
SocketScript ==
    << Call("open"), Mark("OPEN_GRANTED") >> \o ArpSetup \o
    << Send(Segment(0)), Recv(Segment(1)), Send(Segment(2)),
       Call("establish"), Mark("HANDSHAKE_OK"),
       Call("send"), Send(Segment(3)), Mark("TX_OK"),
       Recv(Segment(4)), Call("receive"), Mark("RX_OK"),
       Send(Segment(5)), Send(Segment(6)), Recv(Segment(7)), Recv(Segment(8)),
       Send(Segment(9)), Call("close"), Mark("CLOSE_OK") >>

Script(p) ==
    CASE p = "network-port" -> PortScript
      [] p = "link-layer"   -> LinkScript
      [] p = "arp"          -> ArpScript
      [] p = "ipv4"         -> Ipv4Script
      [] p = "icmp"         -> IcmpScript
      [] p = "udp"          -> UdpScript
      [] p = "dns"          -> DnsScript
      [] p = "tcp"          -> TcpScript
      [] p = "socket"       -> SocketScript

\* empty_receive_poll_exhausted: three probes poll without a limit.
PollsBounded(p) == p \notin {"network-port", "link-layer", "arp"}

-----------------------------------------------------------------------------
(* SocketService of the socket probe.                                       *)

Closed == [state |-> "Closed", handle |-> 0, next |-> 1]

\* What each call leaves behind when it succeeds.
SocketAfter(call) ==
    CASE call = "open"      -> [socket EXCEPT !.state = "Opening", !.handle = socket.next]
      [] call = "establish" -> [socket EXCEPT !.state = "Established"]
      [] call = "close"     -> [state |-> "Closed", handle |-> 0, next |-> socket.next + 1]
      [] OTHER              -> socket

SocketAllows(call) ==
    CASE call = "open"      -> socket.handle = 0
      [] call = "establish" -> socket.handle # 0 /\ socket.state = "Opening"
      [] OTHER              -> socket.handle # 0 /\ socket.state = "Established"

-----------------------------------------------------------------------------

Init ==
    /\ probe \in Probes
    /\ \E d \in IF probe = "socket" THEN BOOLEAN ELSE {FALSE} :
          kernel = [stage |-> "prepare", port |-> "none", cap |-> "none", denied |-> d]
    /\ step = 0
    /\ exit = "no"
    /\ marks = << >>
    /\ socket = Closed
    /\ toPeer = << >>
    /\ toProbe = << >>
    /\ peer = [rcv |-> 0, snd |-> 0, una |-> 0, served |-> {}, fin |-> FALSE]
    /\ faults = Faults

-----------------------------------------------------------------------------
(* The launcher: run() of core/src/*_probe.rs, one stage after the other.   *)
(* Any stage may fail, and a failure is the panic exit of main.             *)

Fault == faults > 0 /\ faults' = faults - 1

\* The stage succeeds and leaves k, or it fails and main panics.
Stage(name, k) ==
    /\ kernel.stage = name
    /\ \/ kernel' = k /\ UNCHANGED faults
       \/ kernel' = [kernel EXCEPT !.stage = "panic"] /\ Fault
    /\ UNCHANGED <<probe, user>>

\* prepare_named, take_prepared, and the manifest and image checks of run.
Prepare ==
    Stage("prepare", [kernel EXCEPT !.stage = IF kernel.denied THEN "bootstrap" ELSE "install"])

\* initialize_transport and install_operational_transport
Install == Stage("install", [kernel EXCEPT !.stage = "grant", !.port = "operational"])

\* grant_network_port_consumer_capabilities, bind_network_port_capabilities
Grant == Stage("grant", [kernel EXCEPT !.stage = "bind", !.cap = "granted"])

Bind == Stage("bind", [kernel EXCEPT !.stage = "bootstrap"])

\* write_bootstrap and the console capability
WriteBootstrap == Stage("bootstrap", [kernel EXCEPT !.stage = "user"])

\* run_user_then_restore: int3 returns; a faulted probe is an error of run.
UserReturns ==
    /\ kernel.stage = "user" /\ exit # "no"
    /\ kernel' = [kernel EXCEPT !.stage =
                     IF exit = "error" THEN "panic"
                     ELSE IF kernel.denied THEN "ready" ELSE "teardown"]
    /\ UNCHANGED <<probe, user, faults>>

\* teardown_network_port_capabilities: the port resets, the capability goes.
Teardown ==
    Stage("teardown", [kernel EXCEPT !.stage = "ready", !.port = "reset", !.cap = "revoked"])

Launcher ==
    \/ Prepare \/ Install \/ Grant \/ Bind \/ WriteBootstrap
    \/ UserReturns \/ Teardown

-----------------------------------------------------------------------------
(* The probe.                                                               *)

Running == kernel.stage = "user" /\ exit = "no"
Current == Script(probe)[step]
Doing(what) == Running /\ step >= 1 /\ step <= Len(Script(probe)) /\ Current.do = what

\* _start up to the description: the page, DESCRIBE, and what it says.
Bootstrap ==
    /\ Running /\ step = 0
    /\ \/ /\ ~kernel.denied
          /\ step' = 1
          /\ UNCHANGED <<exit, marks, faults>>
       \/ /\ faults > 0
          /\ faults' = faults - 1
          /\ exit' = "error"
          /\ UNCHANGED <<step, marks>>
       \/ /\ kernel.denied         \* launched without a capability
          /\ marks' = << "DENIED_BOOTSTRAPPED", "OPEN_WITHOUT_CAP_DENIED" >>
          /\ exit' = "success"
          /\ UNCHANGED <<step, faults>>
    /\ UNCHANGED <<probe, kernel, socket, toPeer, toProbe, peer>>

\* send_frame: OK queues the frame; any other status is the error exit.
SendStep ==
    /\ Doing("send")
    /\ \/ /\ toPeer' = Append(toPeer, Current.frame)
          /\ step' = step + 1
          /\ UNCHANGED <<exit, faults>>
       \/ /\ faults > 0
          /\ faults' = faults - 1
          /\ exit' = "error"
          /\ UNCHANGED <<toPeer, step>>
    /\ UNCHANGED <<probe, kernel, marks, socket, toProbe, peer>>

\* A probe that takes any frame for the one it waits for.
RecvStepAny ==
    /\ Doing("recv")
    /\ toProbe # << >>
    /\ toProbe' = Tail(toProbe)
    /\ step' = step + 1
    /\ UNCHANGED <<probe, kernel, exit, marks, socket, toPeer, peer, faults>>

\* receive_matching_frame with a frame: exactly the expected one, or the error exit.
RecvStep ==
    /\ Doing("recv")
    /\ toProbe # << >>
    /\ toProbe' = Tail(toProbe)
    /\ IF Head(toProbe) = Current.frame
       THEN step' = step + 1 /\ UNCHANGED exit
       ELSE exit' = "error" /\ UNCHANGED step
    /\ UNCHANGED <<probe, kernel, marks, socket, toPeer, peer, faults>>

PeerIdle == toPeer = << >> /\ toProbe = << >>

\* The poll budget runs out with nothing received: the peer has nothing
\* more to send, or is slower than the budget.
PollsExhausted ==
    /\ Doing("recv")
    /\ PollsBounded(probe)
    /\ toProbe = << >>
    /\ \/ PeerIdle /\ UNCHANGED faults
       \/ faults > 0 /\ faults' = faults - 1
    /\ exit' = "error"
    /\ UNCHANGED <<probe, kernel, step, marks, socket, toPeer, toProbe, peer>>

\* The port answers TRY_RECEIVE with an error status.
ReceiveFails ==
    /\ Doing("recv")
    /\ faults > 0
    /\ faults' = faults - 1
    /\ exit' = "error"
    /\ UNCHANGED <<probe, kernel, step, marks, socket, toPeer, toProbe, peer>>

MarkStep ==
    /\ Doing("mark")
    /\ marks' = Append(marks, Current.mark)
    /\ step' = step + 1
    /\ UNCHANGED <<probe, kernel, exit, socket, toPeer, toProbe, peer, faults>>

CallStep ==
    /\ Doing("call")
    /\ IF SocketAllows(Current.call)
       THEN socket' = SocketAfter(Current.call) /\ step' = step + 1 /\ UNCHANGED exit
       ELSE exit' = "error" /\ UNCHANGED <<socket, step>>
    /\ UNCHANGED <<probe, kernel, marks, toPeer, toProbe, peer, faults>>

Succeed ==
    /\ Running
    /\ step = Len(Script(probe)) + 1
    /\ exit' = "success"
    /\ UNCHANGED <<probe, kernel, step, marks, socket, toPeer, toProbe, peer, faults>>

-----------------------------------------------------------------------------
(* The peer, an endpoint that follows the protocols.                        *)

\* What a datagram protocol answers.
Answers(f) ==
    CASE f.proto = "link" ->
            << Plain("link", "wrong_destination"), Plain("link", "wrong_ethertype"),
               Plain("link", "reply") >>
      [] f.op = "request" -> << Plain(f.proto, "reply") >>
      [] OTHER -> << >>

PeerDatagram(f) ==
    /\ f.proto \notin {"tcp", "none"}
    /\ toProbe' = toProbe \o Answers(f)
    /\ peer' = [peer EXCEPT !.served = @ \union {f.proto}]

\* TCP: in-order segments advance rcv; data is answered with data, FIN with
\* an acknowledgment and the peer's own FIN, anything out of order with a
\* duplicate acknowledgment.
PeerSegment(f) ==
    /\ f.proto = "tcp"
    /\ LET una == IF f.ack > peer.una /\ f.ack <= peer.snd THEN f.ack ELSE peer.una
           ack(rcv) == Frame("tcp", "ACK", peer.snd, rcv, 0)
       IN  CASE f.op = "SYN" ->
                    /\ peer' = [peer EXCEPT !.rcv = 1, !.snd = 1]
                    /\ toProbe' = Append(toProbe, Frame("tcp", "SYN_ACK", 0, 1, 0))
             [] f.op # "SYN" /\ f.seq # peer.rcv ->
                    /\ peer' = [peer EXCEPT !.una = una]
                    /\ toProbe' = Append(toProbe, ack(peer.rcv))
             [] f.seq = peer.rcv /\ f.op = "ACK" /\ f.len > 0 ->
                    /\ peer' = [peer EXCEPT !.rcv = @ + f.len, !.snd = @ + 6, !.una = una,
                                            !.served = @ \union {"tcp"}]
                    /\ toProbe' = Append(toProbe, Frame("tcp", "ACK", peer.snd, f.seq + f.len, 6))
             [] f.seq = peer.rcv /\ f.op = "FIN_ACK" ->
                    /\ peer' = [peer EXCEPT !.rcv = @ + 1, !.snd = @ + 1, !.una = una, !.fin = TRUE]
                    /\ toProbe' = toProbe \o
                         << ack(f.seq + 1), Frame("tcp", "FIN_ACK", peer.snd, f.seq + 1, 0) >>
             [] OTHER ->
                    /\ peer' = [peer EXCEPT !.una = una]
                    /\ UNCHANGED toProbe

PeerStep ==
    /\ toPeer # << >>
    /\ toPeer' = Tail(toPeer)
    /\ \/ PeerDatagram(Head(toPeer))
       \/ PeerSegment(Head(toPeer))
       \/ Head(toPeer).proto = "none" /\ UNCHANGED <<toProbe, peer>>
    /\ UNCHANGED <<probe, kernel, step, exit, marks, socket, faults>>

\* The wire damages a queue of frames in one place.
Without(q, i) == SubSeq(q, 1, i - 1) \o SubSeq(q, i + 1, Len(q))
Damaged(q) ==
    { Without(q, i) : i \in DOMAIN q }
    \union { SubSeq(q, 1, i) \o SubSeq(q, i, Len(q)) : i \in DOMAIN q }
    \union { [q EXCEPT ![i] = q[i + 1], ![i + 1] = q[i]] : i \in 1..(Len(q) - 1) }
    \union { [q EXCEPT ![i] = Garbage] : i \in DOMAIN q }

WireFault ==
    /\ faults > 0
    /\ faults' = faults - 1
    /\ \/ toPeer' \in Damaged(toPeer) /\ UNCHANGED toProbe
       \/ toProbe' \in Damaged(toProbe) /\ UNCHANGED toPeer
    /\ UNCHANGED <<probe, kernel, step, exit, marks, socket, peer>>

ProbeStep ==
    \/ Launcher
    \/ Bootstrap \/ SendStep \/ RecvStep \/ PollsExhausted
    \/ MarkStep \/ CallStep \/ Succeed

Next == ProbeStep \/ ReceiveFails \/ PeerStep \/ WireFault

\* The probe is the only user process and polls without blocking; the peer
\* answers what reaches it.
Spec == Init /\ [][Next]_vars /\ WF_vars(ProbeStep) /\ WF_vars(PeerStep)

-----------------------------------------------------------------------------

TypeOK ==
    /\ probe \in Probes
    /\ kernel.stage \in {"prepare", "install", "grant", "bind", "bootstrap", "user",
                        "teardown", "ready", "panic"}
    /\ step \in 0..(Len(Script(probe)) + 1)
    /\ exit \in {"no", "success", "error"}
    /\ socket.state \in {"Closed", "Opening", "Established"}
    /\ peer.rcv \in 0..8 /\ peer.snd \in 0..8 /\ peer.una \in 0..8
    /\ faults \in 0..Faults

Proto == IF probe \in {"tcp", "socket"} THEN "tcp"
         ELSE IF probe = "network-port" THEN "raw"
         ELSE IF probe = "link-layer" THEN "link" ELSE probe

Has(m) == \E i \in DOMAIN marks : marks[i] = m

\* RX_OK is evidence about the other side: whatever the wire did, the peer
\* had accepted the probe's request before the marker was written
\* (receive_matching_frame followed by write_marker in each probe).
ReplyMeansServed == Has("RX_OK") => Proto \in peer.served

\* CLOSE_OK means that the peer accepted every byte and the FIN, and that
\* the socket probe dropped its handle before it said so.
CloseMeansClosed ==
    Has("CLOSE_OK") => peer.fin /\ peer.rcv = 8 /\ socket.handle = 0

\* Against a conforming peer the error exit needs a fault: the hard-coded
\* segment tables agree with the sequence arithmetic of TCP.
ErrorNeedsFault == exit = "error" => faults < Faults

\* The READY markers are written only after the probe succeeded and, when
\* it had a port, after the port was reset and the capability revoked
\* (run, after run_user_then_restore).
ReadyMeansReleased ==
    kernel.stage = "ready" =>
        /\ exit = "success"
        /\ ~kernel.denied => kernel.port = "reset" /\ kernel.cap = "revoked"

=============================================================================

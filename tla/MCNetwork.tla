----------------------------- MODULE MCNetwork ------------------------------
(***************************************************************************)
(* Instances of the network components for TLC: the capability-guarded     *)
(* port over the virtio rings, the protocol probes against a conforming    *)
(* peer over a faulty wire, and the secure transport session over its TCP  *)
(* client.  Each image runs one of them: a behaviour exercises the part    *)
(* its initial state names and the variables of the others rest.           *)
(***************************************************************************)
EXTENDS Integers, Sequences

AllProbes == {"network-port", "link-layer", "arp", "ipv4", "icmp", "udp", "dns", "tcp", "socket"}

SessionScript ==
    << [op |-> "write", n |-> 1],       \* ClientHello
       [op |-> "read",  n |-> 2],       \* the server's flight
       [op |-> "write", n |-> 2],       \* Finished and the request
       [op |-> "read",  n |-> 2],       \* the response
       [op |-> "write", n |-> 1],       \* close_notify
       [op |-> "close", n |-> 0] >>

-----------------------------------------------------------------------------
VARIABLE part  \* the part of the system this behaviour exercises

(* The port, its driver and the device *)
VARIABLES caps, port, granted, driver, portRx, tx, buffers, device, call, answer,
          arrived, portDelivered, sent, wire, done

portVars == <<caps, port, granted, driver, portRx, tx, buffers, device, call, answer,
              arrived, portDelivered, sent, wire, done>>

Port == INSTANCE NetworkPort WITH
    rx <- portRx, delivered <- portDelivered, CapabilitySlots <- 3,
    GenerationModulus <- 4, Consumer <- "consumer", Intruder <- "intruder",
    Owner <- "owner", PortResource <- "port", ConsoleResource <- "console",
    QueueSize <- 2, IndexModulus <- 4, RxCount <- 2, MaxFrames <- 3

(* A probe, its launcher, the wire and the peer *)
VARIABLES probe, kernel, step, exit, marks, socket, probeToPeer, toProbe, probePeer,
          probeFaults

probeVars == <<probe, kernel, step, exit, marks, socket, probeToPeer, toProbe,
               probePeer, probeFaults>>

Probe == INSTANCE NetworkProbe WITH
    toPeer <- probeToPeer, peer <- probePeer, faults <- probeFaults,
    Probes <- AllProbes, Faults <- 2

(* The TCP client, the wire and the server *)
VARIABLES pc, pos, left, s, streamRx, streamDelivered, tamper, early, altered,
          streamToPeer, toClient, streamPeer, streamFaults

streamVars == <<pc, pos, left, s, streamRx, streamDelivered, tamper, early, altered,
                streamToPeer, toClient, streamPeer, streamFaults>>

Stream == INSTANCE TcpStream WITH
    rx <- streamRx, delivered <- streamDelivered, toPeer <- streamToPeer,
    peer <- streamPeer, faults <- streamFaults, Script <- SessionScript, Response <- 4,
    PeerBytes <- 4, Mss <- 2, Flight <- 3, PayloadBytes <- 1, RxBytes <- 3, Faults <- 1

FaultyStream == INSTANCE TcpStream WITH
    rx <- streamRx, delivered <- streamDelivered, toPeer <- streamToPeer,
    peer <- streamPeer, faults <- streamFaults, Script <- SessionScript, Response <- 4,
    PeerBytes <- 4, Mss <- 2, Flight <- 2, PayloadBytes <- 1, RxBytes <- 3, Faults <- 2

(* The assumptions of the components on their constants. *)
ASSUME Bounds ==
    /\ Port!NetworkPortAssumption /\ Port!CapabilityTableAssumption
    /\ Probe!ProbesAssumption /\ Probe!FaultsAssumption /\ Stream!SizesAssumption
    /\ FaultyStream!SizesAssumption

-----------------------------------------------------------------------------
(* A component that is not exercised rests at a value nothing reads. *)
Off == "off"

PortOff ==
    /\ caps = Off /\ port = Off /\ granted = Off /\ driver = Off /\ portRx = Off
    /\ tx = Off /\ buffers = Off /\ device = Off /\ call = Off /\ answer = Off
    /\ arrived = Off /\ portDelivered = Off /\ sent = Off /\ wire = Off /\ done = Off

ProbeOff ==
    /\ probe = Off /\ kernel = Off /\ step = Off /\ exit = Off /\ marks = Off
    /\ socket = Off /\ probeToPeer = Off /\ toProbe = Off /\ probePeer = Off
    /\ probeFaults = Off

StreamOff ==
    /\ pc = Off /\ pos = Off /\ left = Off /\ s = Off /\ streamRx = Off
    /\ streamDelivered = Off /\ tamper = Off /\ early = Off /\ altered = Off
    /\ streamToPeer = Off /\ toClient = Off /\ streamPeer = Off /\ streamFaults = Off

vars == <<part, portVars, probeVars, streamVars>>

Init ==
    \/ /\ part = "port" /\ Port!Init
       /\ ProbeOff /\ StreamOff
    \/ /\ part = "probe" /\ Probe!Init
       /\ PortOff /\ StreamOff
    \/ /\ part = "stream" /\ Stream!Init
       /\ PortOff /\ ProbeOff
    \/ /\ part = "faulty stream" /\ FaultyStream!Init
       /\ PortOff /\ ProbeOff

Next ==
    \/ /\ part = "port" /\ Port!Next
       /\ UNCHANGED <<part, probeVars, streamVars>>
    \/ /\ part = "probe" /\ Probe!Next
       /\ UNCHANGED <<part, portVars, streamVars>>
    \/ /\ part = "stream" /\ Stream!Next
       /\ UNCHANGED <<part, portVars, probeVars>>
    \/ /\ part = "faulty stream" /\ FaultyStream!Next
       /\ UNCHANGED <<part, portVars, probeVars>>

Fair1 ==
    \/ /\ part = "port" /\ Port!Driver
       /\ UNCHANGED <<part, probeVars, streamVars>>
    \/ /\ part = "probe" /\ Probe!ProbeStep
       /\ UNCHANGED <<part, portVars, streamVars>>
    \/ /\ part = "stream" /\ Stream!Client
       /\ UNCHANGED <<part, portVars, probeVars>>
    \/ /\ part = "faulty stream" /\ FaultyStream!Client
       /\ UNCHANGED <<part, portVars, probeVars>>

Fair2 ==
    \/ /\ part = "probe" /\ Probe!PeerStep
       /\ UNCHANGED <<part, portVars, streamVars>>
    \/ /\ part = "stream" /\ Stream!PeerReceive
       /\ UNCHANGED <<part, portVars, probeVars>>
    \/ /\ part = "faulty stream" /\ FaultyStream!PeerReceive
       /\ UNCHANGED <<part, portVars, probeVars>>

Fair3 ==
    \/ /\ part = "stream" /\ Stream!PeerSend
       /\ UNCHANGED <<part, portVars, probeVars>>
    \/ /\ part = "faulty stream" /\ FaultyStream!PeerSend
       /\ UNCHANGED <<part, portVars, probeVars>>

Spec == Init /\ [][Next]_vars /\ WF_vars(Fair1) /\ WF_vars(Fair2) /\ WF_vars(Fair3)

-----------------------------------------------------------------------------
(* PortExact: frames reach the consumer in order and unchanged, a buffer   *)
(* is neither lost nor offered to the device twice while the ring indices  *)
(* wrap, a notification is not lost, and nobody holds authority over a     *)
(* port that has failed or gone (network_port.rs, virtio_net.rs).          *)
PortExact ==
    part = "port" =>
        /\ Port!TypeOK /\ Port!ReceivedInOrder /\ Port!BuffersAccounted
        /\ Port!SentUnchanged /\ Port!KickNotLost /\ Port!AuthorityFollowsPort

(* ProbesHonest: what the markers of a probe say is true of the peer: a    *)
(* reply was served, a close is closed on both sides, an error needs a     *)
(* fault of the wire, and readiness means the port was released (arp_,     *)
(* ipv4_, icmp_, udp_, dns_, tcp_ and socket_probe.rs, user/probes).       *)
ProbesHonest ==
    part = "probe" =>
        /\ Probe!TypeOK /\ Probe!ReplyMeansServed /\ Probe!CloseMeansClosed
        /\ Probe!ErrorNeedsFault /\ Probe!ReadyMeansReleased

(* StreamExact: through segmentation, compaction and faults of the wire,   *)
(* the port, the clock or the peer the bytes handed to TLS are the         *)
(* bytes the server sent, the sequence arithmetic is exact, an altered     *)
(* response is never released, and an error needs a fault                  *)
(* (user/probes/socket/src/secure.rs).                                     *)
StreamExact ==
    /\ part = "stream" =>
          /\ Stream!TypeOK /\ Stream!StreamIntegrity /\ Stream!SequenceExact
          /\ Stream!ErrorNeedsFault /\ Stream!AlteredNeverReleased
    /\ part = "faulty stream" =>
          /\ FaultyStream!TypeOK /\ FaultyStream!StreamIntegrity /\ FaultyStream!SequenceExact
          /\ FaultyStream!ErrorNeedsFault /\ FaultyStream!AlteredNeverReleased

(* NetworkWaits, NetworkServed: what has to be followed by what. *)
NetworkWaits ==
    \/ part = "port" /\ call # Port!Idle
    \/ part \in {"probe", "stream", "faulty stream"}

NetworkServed ==
    \/ part = "port" /\ call = Port!Idle
    \/ /\ part = "probe"
       /\ \/ kernel.stage \in {"ready", "panic"}
          \/ probe \in {"network-port", "link-layer", "arp"} /\ probeFaults < 2
    \/ part \in {"stream", "faulty stream"} /\ Stream!Ended

(* NetworkProgress: every call on the port is answered although the device *)
(* may stay silent, a probe with a poll limit exits whatever the wire      *)
(* does, and every secure session ends.                                    *)
NetworkProgress == NetworkWaits ~> NetworkServed

(* StreamIntact: no byte of the server's stream is skipped, also when a    *)
(* FIN arrives before the data it follows (the FIN handling of             *)
(* wait_for_ack).                                                          *)
StreamIntact ==
    /\ part = "stream" => Stream!StreamIntact
    /\ part = "faulty stream" => FaultyStream!StreamIntact
=============================================================================

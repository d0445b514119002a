------------------------------- MODULE Packets -------------------------------
(***************************************************************************)
(* The way of a message from one node to a Linux bridge, byte by byte: the *)
(* checks and the serialization of the sender, the frame on the air, what  *)
(* the kernel captures, the socket filter, and the parsing and checking of *)
(* the receiver. The sender is a node of this network or of another one on *)
(* the same channel. Delivery and EspNow start where this module ends.     *)
(***************************************************************************)
EXTENDS SerDes, RawCapture, FiniteSets

CONSTANTS
  Messages,    \* [type, topic, payload]: what the senders send
  Networks,    \* [ssid, password, version]: the networks around
  Network,     \* the bridge's own
  Destinations, SenderMac,
  Nonces, Reserved,
  Radiotaps,   \* [present, words, other, signal]: the headers the driver makes
  NextReads,   \* what the next read() may have written so far
  Trailers,    \* what the driver leaves after the frame: a check sequence or nothing
  Alterations  \* [at, byte]: bytes in which other traffic differs

\* Drivers align fields to their natural boundaries, counted from the start of the
\* header: TSFT to 8 bytes, CHANNEL and FHSS to 2. The words before the fields are of
\* 4 bytes, and FLAGS and RATE of 1.
Padding(r) ==
  (IF "TSFT" \in r.present /\ r.words % 2 = 1 THEN 4 ELSE 0)
    + (IF /\ {"CHANNEL", "FHSS"} \cap r.present # {}
          /\ ("FLAGS" \in r.present) # ("RATE" \in r.present)
         THEN 1 ELSE 0)

\* The length of a header: its first words, those that extend "present", the
\* fields that are read with what aligns them, and others.
FieldsEnd(r) == Padding(r) + FieldsSize(r.present)
HeaderLength(r) == 8 + 4 * r.words + FieldsEnd(r) + Len(r.other)

ASSUME NodesAssumption ==
  /\ LocalMac \in ByteString(6) /\ SenderMac \in ByteString(6)
  /\ Destinations \subseteq ByteString(6)
  /\ Network \in Networks /\ Network.version = PROTO_VERSION
  /\ \A net \in Networks : net.ssid \in ByteString(4) /\ net.version \in Byte

\* Mutant: the length is not checked.
TooBig_Never(m) == FALSE

TooBig(m) == PacketLength(m) > MAX_PACKET_LENGTH

\* The payload of a probe is configured, and nothing checks that it fits: this is
\* presupposed.
PROBE_REQ == 10
ASSUME MessagesAssumption ==
  /\ Messages \subseteq [type : Byte, topic : Seq(Byte), payload : Seq(Byte)]
  /\ \A m \in Messages : m.type = PROBE_REQ => PacketLength(m) <= MAX_PACKET_LENGTH
  /\ Nonces \subseteq ByteString(8) /\ Reserved \subseteq ByteString(3)

\* A header leaves room for the longest frame in the buffer of the adapter, and
\* what is altered are bytes that every frame has.
ASSUME CaptureAssumption ==
  /\ \A r \in Radiotaps :
       /\ r.words \in Nat /\ r.signal \in -128..127 /\ r.other \in Seq(Byte)
       /\ HeaderLength(r) <= MAX_PACKET_SIZE - ActionFrameLen - MAX_PACKET_LENGTH
  /\ Trailers \subseteq Seq(Byte) /\ NextReads \subseteq Seq(Byte)
  /\ \A read \in NextReads : Len(read) <= MAX_PACKET_SIZE
  /\ \A alteration \in Alterations :
       /\ alteration.at \in 1..ActionFrameLen + HeaderLen + PayloadLen
       /\ alteration.byte \in Byte \cup {-1}

VARIABLES
  stage,      \* "idle", "refused", "air", "captured", "filtered", "handed" or "done"
  origin,     \* history: what was sent, by whom, and whether it is still that
  radiotap,   \* history: the header of the capture
  frame,      \* the bytes on their way, and then the capture they were read from
  buffer,     \* the buffer of the capture thread
  handed,     \* what the new thread was given: [at, data, rssi]
  reread,     \* history: whether the buffer was read into since
  delivered   \* the set of what reached ESPNOW::receive()

vars == <<stage, origin, radiotap, frame, buffer, handed, reread, delivered>>
reading == <<buffer, handed, reread, delivered>>

TypeOK ==
  /\ stage \in {"idle", "refused", "air", "captured", "filtered", "handed", "done"}
  /\ \A i \in DOMAIN frame : frame[i] \in Byte
  /\ stage = "air" => Len(TXRadiotap) + Len(frame) <= MAX_PACKET_SIZE
  /\ Len(buffer) <= MAX_PACKET_SIZE
  /\ \A p \in handed : p.at + 5 <= Len(buffer)
  /\ Cardinality(delivered) <= 1

NoOrigin ==
  [net |-> Network, dst |-> LocalMac, m |-> CHOOSE m \in Messages : TRUE, altered |-> TRUE]
NoRadiotap == CHOOSE r \in Radiotaps : TRUE

Init ==
  /\ stage = "idle" /\ frame = <<>>
  /\ buffer = <<>> /\ handed = {} /\ reread = FALSE /\ delivered = {}
  /\ origin = NoOrigin /\ radiotap = NoRadiotap

\* ESPNOW::send() refuses the message.
Refuse(m) ==
  /\ stage = "idle" /\ TooBig(m)
  /\ stage' = "refused"
  /\ UNCHANGED <<origin, radiotap, frame, reading>>

\* ESPNOW::send(), or connectToBridge(), which sends its probe without that check.
Send(net, m, dst, nonce, reserved) ==
  /\ stage = "idle"
  /\ m.type = PROBE_REQ \/ ~TooBig(m)
  /\ stage' = "air"
  /\ origin' = [net |-> net, dst |-> dst, m |-> m, altered |-> FALSE]
  /\ frame' = ActionFrame(dst, SenderMac, Serialize(net, m, nonce, reserved))
  /\ UNCHANGED <<radiotap, reading>>

Altered(f, alteration) ==
  IF alteration.byte = -1 THEN SubSeq(f, 1, alteration.at)
  ELSE [f EXCEPT ![alteration.at] = alteration.byte]

\* Not this frame but another one that looks like it, or only a part of it.
OtherTraffic(alteration) ==
  /\ stage = "air" /\ ~origin.altered
  /\ origin' = [origin EXCEPT !.altered = TRUE]
  /\ frame' = Altered(frame, alteration)
  /\ UNCHANGED <<stage, radiotap, reading>>

\* The header the driver puts before the frame. What is in the fields but the signal,
\* and between them, is not told apart.
RadiotapBytes(r) ==
  LET first == <<FromBits([i \in 1..8 |-> i <= 6 /\ Fields[i] \in r.present]), 0, 0,
                 IF r.words > 0 THEN 128 ELSE 0>>
      words == [i \in 1..4 * r.words |-> IF i % 4 = 0 /\ i < 4 * r.words THEN 128 ELSE 0]
      fields == [i \in 1..FieldsEnd(r) |->
                   IF "ANT_SIGNAL" \in r.present /\ i = FieldsEnd(r)
                     THEN r.signal % 256 ELSE 7]
  IN <<0, 0, HeaderLength(r) % 256, HeaderLength(r) \div 256>>
       \o first \o words \o fields \o r.other

Capture(r, trailer) ==
  /\ stage = "air"
  /\ stage' = "captured" /\ radiotap' = r
  /\ frame' = RadiotapBytes(r) \o frame \o trailer
  /\ UNCHANGED <<origin, reading>>

\* The kernel hands on what the filter passes.
RunFilter ==
  /\ stage = "captured"
  /\ stage' = IF Passes(frame) THEN "filtered" ELSE "done"
  /\ UNCHANGED <<origin, radiotap, frame, reading>>

Read(data) == IF Len(data) > MAX_PACKET_SIZE THEN SubSeq(data, 1, MAX_PACKET_SIZE) ELSE data

\* handlerThread() reads as much as its buffer holds, parses it and starts a thread for
\* what it finds.
Parse ==
  /\ stage = "filtered"
  /\ buffer' = Read(frame)
  /\ handed' = RawPacket(Read(frame))
  /\ stage' = IF handed' = {} THEN "done" ELSE "handed"
  /\ UNCHANGED <<origin, radiotap, frame, reread, delivered>>

\* The buffer with what is read next in its first bytes.
Overlaid(data) ==
  [i \in 1..(IF Len(data) > Len(buffer) THEN Len(data) ELSE Len(buffer)) |->
     IF i <= Len(data) THEN data[i] ELSE buffer[i]]

\* handlerThread() goes on before the new thread has started: another capture, or the
\* beginning of one, is read into the same buffer.
ReadNext(data) ==
  /\ stage = "handed" /\ ~reread
  /\ buffer' = Overlaid(data)
  /\ reread' = TRUE
  /\ UNCHANGED <<stage, origin, radiotap, frame, handed, delivered>>

\* What recvCb() makes of what it is given, with the address that the buffer holds by then.
Received ==
  UNION {{[m |-> m, src |-> SubSeq(buffer, p.at, p.at + 5), rssi |-> p.rssi]
            : m \in Deserialize(Network, p.data)} : p \in handed}

Receive ==
  /\ stage = "handed"
  /\ stage' = "done"
  /\ delivered' = Received
  /\ UNCHANGED <<origin, radiotap, frame, buffer, handed, reread>>

Again ==
  /\ stage \in {"refused", "done"}
  /\ stage' = "idle" /\ frame' = <<>>
  /\ buffer' = <<>> /\ handed' = {} /\ reread' = FALSE /\ delivered' = {}
  /\ origin' = NoOrigin /\ radiotap' = NoRadiotap

Next ==
  \/ \E m \in Messages : Refuse(m)
  \/ \E net \in Networks, m \in Messages, dst \in Destinations,
        nonce \in Nonces, reserved \in Reserved : Send(net, m, dst, nonce, reserved)
  \/ \E alteration \in Alterations : OtherTraffic(alteration)
  \/ \E r \in Radiotaps, trailer \in Trailers : Capture(r, trailer)
  \/ RunFilter \/ Parse
  \/ \E data \in NextReads : ReadNext(data)
  \/ Receive \/ Again

Spec == Init /\ [][Next]_vars
------------------------------------------------------------------------------
(* What the properties presuppose of the nodes and of what is altered.     *)

\* The bridge's address, if it ends like that of all nodes, is that of all nodes:
\* the filter compares the ends first, and never goes back to the other address.
MacIsClear == MacPart2 = <<255, 255, 255, 255>> => LocalMac = Broadcast

\* Another network differs in what the header of a packet tells.
DistinctNetworks ==
  \A net \in Networks :
    net # Network => net.ssid # Network.ssid \/ net.version # PROTO_VERSION

\* A byte is altered that is neither of the sender's address, which nothing checks, nor of
\* the header of the packet, whose nonce the cipher takes as it comes; or bytes are lost
\* that what follows the frame cannot replace.
Detectable ==
  \A alteration \in Alterations :
    \/ alteration.byte \in Byte /\ alteration.at \notin 11..16 \cup 40..52
    \/ alteration.byte = -1 /\ \A trailer \in Trailers : alteration.at + Len(trailer) < 59
------------------------------------------------------------------------------
(* The properties.                                                         *)

\* What is delivered is what a node of this very network (SSID and protocol
\* version) sent, with its type, topic and payload: no frame of another network, no
\* part of one, and no misread length gets through. It comes under the sender's
\* address if the capture thread does not read on before that address is taken over.
DeliveredIntact ==
  \A d \in delivered :
    /\ origin.net = Network
    /\ d.m = origin.m
    /\ d.src = SenderMac \/ reread

\* The comment on recvCb() has it that its first argument is the source's address.
\* When the capture thread reads on first, it is what lies there of another frame.
SourceIsSender == \A d \in delivered : d.src = SenderMac

DriverSignal == IF "ANT_SIGNAL" \in radiotap.present THEN radiotap.signal ELSE SIGNAL_MIN

\* Whatever fields and words the header of the driver has, aligned as drivers do, and
\* whatever is left after the frame, a message of this network to this bridge, or to
\* all, arrives; and it has the signal strength the driver gave if no field before it
\* needed to be aligned.
FittingAccepted ==
  stage = "done" /\ ~origin.altered /\ origin.net = Network
    /\ origin.dst \in {LocalMac, Broadcast} =>
      \E d \in delivered : Padding(radiotap) = 0 => d.rssi = DriverSignal

\* The comment on what parsing hands on has it that this is the received signal's
\* strength. Behind padding, which the parser does not know, it is another byte.
SignalIsRead == \A d \in delivered : d.rssi = DriverSignal

\* The fields of the frame that are those of an ESP-NOW frame to this bridge.
IsEspNow(f) ==
  /\ Len(f) >= 38
  /\ f[1] \in 208..211
  /\ SubSeq(f, 5, 10) \in {LocalMac, Broadcast}
  /\ SubSeq(f, 25, 28) = <<127>> \o OUI
  /\ f[33] = 221 /\ SubSeq(f, 35, 37) = OUI /\ f[38] = 4

\* The filter's program, jumps and masks and all, passes exactly the action frames
\* of ESP-NOW to this address or to all. (Its comment also names acknowledgements;
\* they do not pass, and nothing in the adapter would look at them.)
FilterExact ==
  stage = "captured" =>
    (Passes(frame) <=> IsEspNow(SubSeq(frame, RadiotapLen(frame) + 1, Len(frame))))
==============================================================================

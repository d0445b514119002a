------------------------------- MODULE SerDes --------------------------------
(***************************************************************************)
(* ESP-NOW packets as bytes: src/common/espnow_ser_des.cpp over the layout *)
(* of espnow_packet.hpp, and the stream cipher of chacha20.hpp. Of the     *)
(* cipher's blocks only this is kept: a byte of the stream is a function   *)
(* of the password, the nonce, the block's counter and the position in it. *)
(***************************************************************************)
EXTENDS Bytes, Sequences, FiniteSets

CONSTANT Block(_, _, _, _)   \* the byte at a position of a block of the stream

PROTO_VERSION == 1
MAX_PACKET_LENGTH == 250
HeaderLen == 13   \* SSID (4), nonce (8), version
PayloadLen == 7   \* type, reserved (3), checksum, topic length, payload length

\* The sum of all bytes, in a byte: each bit counts as often as it is set.
Sum(s) ==
  LET n(b) == Weight[b] * Cardinality({i \in DOMAIN s : Bit(s[i], b)})
  IN (n(1) + n(2) + n(3) + n(4) + n(5) + n(6) + n(7) + n(8)) % 256

\* Mutant: the byte that holds the checksum counts.
Checksum_WithItself(s, existing) == Sum(s)

Checksum(s, existing) == (Sum(s) - existing) % 256

\* crypt() on a new Chacha20: a new block, with the next counter, each 64 bytes.
Crypt(password, nonce, s) ==
  [i \in DOMAIN s |-> BitXor(s[i], Block(password, nonce, (i - 1) \div 64, (i - 1) % 64))]

PacketLength(m) == HeaderLen + PayloadLen + Len(m.topic) + Len(m.payload)

\* The reserved bytes are whatever the new buffer held.
Serialize(net, m, nonce, reserved) ==
  LET body(checksum) ==
        <<m.type>> \o reserved \o <<checksum, Len(m.topic) % 256, Len(m.payload) % 256>>
          \o m.topic \o m.payload
      plain == body(Checksum(body(0), 0))
  IN net.ssid \o nonce \o <<net.version>> \o Crypt(net.password, nonce, plain)

\* Mutant: any version will do.
ValidHeader_AnyVersion(net, data) == SubSeq(data, 1, 4) = net.ssid

ValidHeader(net, data) ==
  SubSeq(data, 1, 4) = net.ssid /\ data[HeaderLen] = PROTO_VERSION

Plain(net, data) ==
  Crypt(net.password, SubSeq(data, 5, 12), SubSeq(data, HeaderLen + 1, Len(data)))

ValidPayload(plain) ==
  /\ plain[5] = Checksum(plain, plain[5])
  /\ PayloadLen + plain[6] + plain[7] = Len(plain)

Decode(plain) ==
  [type |-> plain[1],
   topic |-> SubSeq(plain, PayloadLen + 1, PayloadLen + plain[6]),
   payload |-> SubSeq(plain, PayloadLen + plain[6] + 1, PayloadLen + plain[6] + plain[7])]

\* The message in the data, in a set that is empty when there is none.
Deserialize(net, data) ==
  IF Len(data) >= HeaderLen + PayloadLen /\ ValidHeader(net, data)
    THEN LET plain == Plain(net, data)
         IN IF ValidPayload(plain) THEN {Decode(plain)} ELSE {}
    ELSE {}
==============================================================================

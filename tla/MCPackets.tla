------------------------------ MODULE MCPackets ------------------------------
(***************************************************************************)
(* An instance of Packets for TLC: byte strings of a few lengths around    *)
(* the limits of the packet, a keystream that tells its inputs apart, and  *)
(* the radiotap headers and frames a capture may return.                   *)
(***************************************************************************)
EXTENDS Packets, Bitwise, Folds

MCLocalMac == <<2, 16, 32, 48, 64, 80>>
MCOtherMac == <<2, 16, 32, 48, 64, 81>>
MCSenderMac == <<2, 1, 2, 3, 4, 5>>
MCSignalMin == -1000
MCDestinations == {MCLocalMac, MCOtherMac, Broadcast}

MCBlock(password, nonce, counter, position) ==
  (password + 3 * nonce[1] + 89 * counter + 37 * position) % 256

Content(n) == [i \in 1..n |-> (7 * i) % 256]
Message(type, topic, payload) ==
  [type |-> type, topic |-> Content(topic), payload |-> Content(payload)]

\* The operators of Bytes are those of the library, and Sum adds up.
ASSUME BytewiseAssumption ==
  \A a, b \in {0, 1, 2, 4, 8, 15, 16, 32, 64, 85, 127, 128, 170, 208, 240, 252, 255} :
    BitXor(a, b) = a ^^ b /\ BitAnd(a, b) = a & b /\ BitOr(a, b) = (a | b)
ASSUME SumAssumption ==
  \A n \in 0..60 :
    Sum(Content(n)) =
      MapThenFoldSet(LAMBDA x, y : x + y, 0, LAMBDA i : Content(n)[i],
                     LAMBDA S : CHOOSE i \in S : TRUE, 1..n) % 256

\* No topic, no payload; a block of the stream filled and exceeded; the longest
\* packet, and one more; more than the buffer of the Linux adapter holds.
MCMessages ==
  {Message(10, 0, 0), Message(20, 1, 56), Message(20, 57, 1), Message(31, 30, 200),
   Message(31, 30, 201), Message(20, 240, 240)}

MCNetwork == [ssid |-> <<1, 2, 3, 4>>, password |-> 11, version |-> 1]
MCNetworks ==
  {MCNetwork, [MCNetwork EXCEPT !.ssid = <<1, 2, 3, 5>>], [MCNetwork EXCEPT !.version = 2]}

MCNonces == {<<0, 1, 2, 3, 4, 5, 6, 7>>}
MCReserved == {<<0, 0, 0>>, <<255, 1, 254>>}

MCRadiotaps ==
  {[present |-> {"TSFT", "FLAGS", "RATE", "CHANNEL", "ANT_SIGNAL"}, words |-> 0,
    other |-> <<0, 1>>, signal |-> -40],
   [present |-> {"TSFT", "FLAGS", "ANT_SIGNAL"}, words |-> 2, other |-> <<>>, signal |-> -91],
   [present |-> {"FLAGS"}, words |-> 1, other |-> <<1, 2, 3, 4>>, signal |-> 0],
   [present |-> {"TSFT", "FLAGS", "CHANNEL", "ANT_SIGNAL"}, words |-> 1, other |-> <<>>,
    signal |-> -60],
   [present |-> {"FLAGS", "ANT_SIGNAL"}, words |-> 0,
    other |-> [i \in 1..213 |-> 1], signal |-> 5]}
\* Padding() is what comes of aligning field after field.
ASSUME PaddingAssumption ==
  \A present \in SUBSET {Fields[i] : i \in 1..6}, words \in 0..4 :
    LET Alignment(f) == CASE f = "TSFT" -> 8 [] f \in {"CHANNEL", "FHSS"} -> 2 [] OTHER -> 1
        Aligned(at, n) == ((at + n - 1) \div n) * n
        end[i \in 0..6] ==
          IF i = 0 THEN 8 + 4 * words
          ELSE IF Fields[i] \notin present THEN end[i - 1]
          ELSE Aligned(end[i - 1], Alignment(Fields[i])) + FieldSize[Fields[i]]
    IN end[6] = 8 + 4 * words + FieldsEnd([present |-> present, words |-> words])

\* The capture of a neighbour's frame, its first bytes, and as much as may reach into
\* the address of the frame before.
MCNextReads ==
  LET r == CHOOSE r \in MCRadiotaps : r.signal = -40
      c == RadiotapBytes(r) \o ActionFrame(MCLocalMac, MCOtherMac, Content(30))
  IN {c, SubSeq(c, 1, 8), SubSeq(c, 1, 40)}

MCTrailers == {<<>>, <<170, 187, 204, 221>>}

\* One byte of each field the filter looks at, others that it does not, the encrypted
\* type, checksum and length of the topic, and ends.
MCAlterations ==
  {[at |-> p[1], byte |-> p[2]] : p \in
    {<<1, 209>>, <<1, 128>>, <<1, 216>>, <<1, 212>>, <<2, 1>>, <<5, 0>>,
     <<10, 80>>, <<10, 255>>, <<25, 126>>, <<28, 0>>, <<30, 9>>, <<33, 220>>, <<34, 4>>,
     <<34, 29>>, <<37, 0>>, <<38, 5>>, <<39, 2>>, <<53, 9>>, <<57, 1>>, <<58, 200>>,
     <<37, -1>>, <<38, -1>>, <<39, -1>>, <<45, -1>>}}

\* The instance is one the theorems speak of.
ASSUME HypothesesAssumption == MacIsClear /\ DistinctNetworks /\ Detectable
==============================================================================

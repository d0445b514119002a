----------------------------- MODULE RawCapture ------------------------------
(***************************************************************************)
(* Frames of the Linux adapter, src/linux/espnow_adapter.cpp: the action   *)
(* frame that send() writes, the socket filter that the kernel runs on     *)
(* what it captures, and the parsing of what passes. A frame is a sequence *)
(* of bytes, and offset k of the code is index k + 1.                      *)
(***************************************************************************)
EXTENDS Bytes, Sequences

CONSTANTS LocalMac, SIGNAL_MIN

Broadcast == <<255, 255, 255, 255, 255, 255>>
OUI == <<24, 254, 52>>
FRAME_TYPE_ACTION == 208
MAX_PACKET_SIZE == 512

ActionFrameLen == 39
TXRadiotap == <<0, 0, 9, 0, 4, 0, 0, 0, 2>>

\* VendorSpecificContent::setPayloadLen(), getPayloadLen(): in one byte.
ContentLen(n) == (n + 5) % 256
DataLen(len) == (len - 5) % 256

ActionFrame(dst, src, data) ==
  <<FRAME_TYPE_ACTION, 0, 0, 0>> \o dst \o src \o Broadcast \o <<0, 0>>
    \o <<127>> \o OUI \o <<0, 0, 0, 0>>
    \o <<221, ContentLen(Len(data))>> \o OUI \o <<4, 1>> \o data
------------------------------------------------------------------------------
(* The filter. A word is its four bytes, the highest first. *)

Word == ByteString(4)
Number(w) == ((w[1] * 256 + w[2]) * 256 + w[3]) * 256 + w[4]
AndWord(v, w) == <<BitAnd(v[1], w[1]), BitAnd(v[2], w[2]), BitAnd(v[3], w[3]), BitAnd(v[4], w[4])>>
OrWord(v, w) == <<BitOr(v[1], w[1]), BitOr(v[2], w[2]), BitOr(v[3], w[3]), BitOr(v[4], w[4])>>
Zero == <<0, 0, 0, 0>>

\* Mutant: in the order of the host.
MacPart1_Swapped == <<0, 0, LocalMac[2], LocalMac[1]>>

MacPart1 == <<0, 0, LocalMac[1], LocalMac[2]>>
MacPart2 == <<LocalMac[3], LocalMac[4], LocalMac[5], LocalMac[6]>>

\* The program of attachSocketFilter(): operation, the jump if true and if not,
\* and the constant.
Filter == <<
  <<"ldb_abs", 0, 0, 3>>, <<"lsh", 0, 0, 8>>, <<"tax", 0, 0, 0>>, <<"ldb_abs", 0, 0, 2>>,
  <<"or_x", 0, 0, 0>>, <<"tax", 0, 0, 0>>, <<"ldb", 0, 0, 0>>,
  <<"and", 0, 0, <<0, 0, 0, 252>>>>, <<"jeq", 0, 29, <<0, 0, 0, 208>>>>,
  <<"ldb", 0, 0, 0>>, <<"jset", 27, 0, <<0, 0, 0, 4>>>>, <<"jset", 0, 9, <<0, 0, 0, 8>>>>,
  <<"ldb", 0, 0, 1>>, <<"jset", 0, 7, <<0, 0, 0, 1>>>>,
  <<"ldw", 0, 0, 18>>, <<"jeq", 0, 2, MacPart2>>, <<"ldh", 0, 0, 16>>,
  <<"jeq", 10, 20, MacPart1>>, <<"jeq", 0, 19, <<255, 255, 255, 255>>>>,
  <<"ldh", 0, 0, 16>>, <<"jeq", 7, 17, <<0, 0, 255, 255>>>>,
  <<"ldw", 0, 0, 6>>, <<"jeq", 0, 2, MacPart2>>, <<"ldh", 0, 0, 4>>,
  <<"jeq", 3, 13, MacPart1>>, <<"jeq", 0, 12, <<255, 255, 255, 255>>>>,
  <<"ldh", 0, 0, 4>>, <<"jeq", 0, 10, <<0, 0, 255, 255>>>>,
  <<"ldw", 0, 0, 24>>, <<"jeq", 0, 8, <<127, 24, 254, 52>>>>,
  <<"ldb", 0, 0, 32>>, <<"jeq", 0, 6, <<0, 0, 0, 221>>>>,
  <<"ldw", 0, 0, 33>>, <<"and", 0, 0, <<0, 255, 255, 255>>>>,
  <<"jeq", 0, 3, <<0, 24, 254, 52>>>>,
  <<"ldb", 0, 0, 37>>, <<"jeq", 0, 1, <<0, 0, 0, 4>>>>,
  <<"ret", 0, 0, TRUE>>, <<"ret", 0, 0, FALSE>> >>

Size(op) == CASE op = "ldw" -> 4 [] op = "ldh" -> 2 [] OTHER -> 1
Load(data, at, size) ==
  LET b(i) == data[at + i]
  IN CASE size = 4 -> <<b(1), b(2), b(3), b(4)>>
       [] size = 2 -> <<0, 0, b(1), b(2)>>
       [] OTHER -> <<0, 0, 0, b(1)>>

\* One instruction of the machine: pc is the next one, a the accumulator and x the
\* index register. The only shift is one by a byte. A load past the end of the
\* packet ends the program, and the packet is dropped.
Step(data, s) ==
  LET op == Filter[s.pc][1]
      k == Filter[s.pc][4]
      next(a, x) == [pc |-> s.pc + 1, a |-> a, x |-> x]
      jump(condition) ==
        [pc |-> s.pc + 1 + Filter[s.pc][IF condition THEN 2 ELSE 3], a |-> s.a, x |-> s.x]
      at == IF op = "ldb_abs" THEN k ELSE Number(s.x) + k
  IN CASE op = "ret" -> s
       [] op = "jeq" -> jump(s.a = k)
       [] op = "jset" -> jump(AndWord(s.a, k) # Zero)
       [] op = "and" -> next(AndWord(s.a, k), s.x)
       [] op = "tax" -> next(s.a, s.a)
       [] op = "lsh" -> next(<<s.a[2], s.a[3], s.a[4], 0>>, s.x)
       [] op = "or_x" -> next(OrWord(s.a, s.x), s.x)
       [] OTHER -> IF at + Size(op) <= Len(data) THEN next(Load(data, at, Size(op)), s.x)
                   ELSE [pc |-> Len(Filter), a |-> s.a, x |-> s.x]

\* All jumps go forward: as many steps as there are instructions end at a "ret".
Passes(data) ==
  LET run[n \in 0..Len(Filter)] ==
        IF n = 0 THEN [pc |-> 1, a |-> Zero, x |-> Zero] ELSE Step(data, run[n - 1])
  IN Filter[run[Len(Filter)].pc] = <<"ret", 0, 0, TRUE>>
------------------------------------------------------------------------------
(* Parsing *)

\* What radiotap fields there may be, in this order, and their sizes.
Fields == <<"TSFT", "FLAGS", "RATE", "CHANNEL", "FHSS", "ANT_SIGNAL">>
FieldSize == [TSFT |-> 8, FLAGS |-> 1, RATE |-> 1, CHANNEL |-> 4, FHSS |-> 2, ANT_SIGNAL |-> 1]

\* The size of the fields before the signal, and of all.
SignalOffset(present) ==
  LET size(f) == IF f \in present THEN FieldSize[f] ELSE 0
  IN size("TSFT") + size("FLAGS") + size("RATE") + size("CHANNEL") + size("FHSS")
FieldsSize(present) ==
  SignalOffset(present) + IF "ANT_SIGNAL" \in present THEN FieldSize.ANT_SIGNAL ELSE 0

Present(data) == {Fields[i] : i \in {j \in 1..6 : Bit(data[5], j)}}
RadiotapLen(data) == data[3] + 256 * data[4]

\* Whether the n-th word of the field "present" is followed by one more.
Extended(data, n) == data[8 + 4 * n] >= 128

\* How many words follow the first one: -1 when they do not fit.
Extensions(data) ==
  LET room == (RadiotapLen(data) - 8 - FieldsSize(Present(data))) \div 4
      last == {n \in 0..room : ~Extended(data, n)}
  IN IF ~Extended(data, 0) THEN 0
     ELSE IF last = {} THEN -1 ELSE CHOOSE n \in last : \A m \in last : n <= m

\* The code takes each field to follow the one before it at once.

\* Mutant: the words that extend "present" are taken for fields.
Signal_AtFirst(data) ==
  LET b == data[8 + SignalOffset(Present(data)) + 1]
  IN IF "ANT_SIGNAL" \notin Present(data) THEN SIGNAL_MIN ELSE IF b > 127 THEN b - 256 ELSE b

Signal(data) ==
  LET b == data[8 + 4 * Extensions(data) + SignalOffset(Present(data)) + 1]
  IN IF "ANT_SIGNAL" \notin Present(data) THEN SIGNAL_MIN ELSE IF b > 127 THEN b - 256 ELSE b

ValidRadiotap(data) ==
  /\ Len(data) >= 8
  /\ Len(data) >= 8 + FieldsSize(Present(data))
  /\ Extensions(data) >= 0

\* processIEEE80211RawAction(): what the new thread is given, the data and where the
\* sender's address is, in a set that is empty when the frame is dropped. The data are
\* copied, the address stays where it is: the thread gets a pointer to it.
ActionData(frame) ==
  IF Len(frame) >= ActionFrameLen /\ Len(frame) >= ActionFrameLen + DataLen(frame[34])
    THEN {[at |-> 11,
           data |-> SubSeq(frame, ActionFrameLen + 1, ActionFrameLen + DataLen(frame[34]))]}
    ELSE {}

\* processIEEE80211RawPacket()
RawPacket(data) ==
  IF ~ValidRadiotap(data) THEN {}
  ELSE LET frame == SubSeq(data, RadiotapLen(data) + 1, Len(data))
       IN IF frame[1] # FRAME_TYPE_ACTION THEN {}
          ELSE {[at |-> RadiotapLen(data) + p.at, data |-> p.data, rssi |-> Signal(data)]
                  : p \in ActionData(frame)}
==============================================================================

-------------------------------- MODULE Bytes --------------------------------
(***************************************************************************)
(* The operators ^, & and | of C++ on bytes, bit by bit. They are written  *)
(* out because proofs about them need it; the instance for TLC compares    *)
(* them with those of the module Bitwise.                                  *)
(***************************************************************************)
EXTENDS Integers

Byte == 0..255
ByteString(n) == [1..n -> Byte]

Weight == <<1, 2, 4, 8, 16, 32, 64, 128>>
Bit(b, i) == (b \div Weight[i]) % 2 = 1

\* The byte that has the bits i with f[i].
FromBits(f) ==
  LET w(i) == IF f[i] THEN Weight[i] ELSE 0
  IN w(1) + w(2) + w(3) + w(4) + w(5) + w(6) + w(7) + w(8)

BitXor(a, b) == FromBits([i \in 1..8 |-> Bit(a, i) # Bit(b, i)])
BitAnd(a, b) == FromBits([i \in 1..8 |-> Bit(a, i) /\ Bit(b, i)])
BitOr(a, b) == FromBits([i \in 1..8 |-> Bit(a, i) \/ Bit(b, i)])
==============================================================================

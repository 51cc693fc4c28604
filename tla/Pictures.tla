------------------------------ MODULE Pictures -------------------------------
(***************************************************************************)
(* base64_encode (Base64) against a decoder of RFC 4648.                   *)
(***************************************************************************)
EXTENDS Integers, Sequences

B64 == INSTANCE Base64

\* Three bytes have four characters of 6 bits: the i-th byte begins in character
\* Place(i) and ends in the one after it.
Place(i) == i + (i - 1) \div 3

ByteAt(text, i) ==
  LET a == text[Place(i)]
      b == text[Place(i) + 1]
  IN  CASE i % 3 = 1 -> 4 * a + b \div 16
        [] i % 3 = 2 -> 16 * (a % 16) + b \div 4
        [] i % 3 = 0 -> 64 * (a % 4) + b

\* text is the bytes: whole groups of four, as many characters as the bits of the
\* bytes fill, padding after them and nowhere else, and each byte is found.
Decodes(text, bytes) ==
  LET n == Len(bytes)
  IN  /\ Len(text) = 4 * ((n + 2) \div 3)
      /\ \A i \in 1..Len(text) :
           IF i <= n + (n + 2) \div 3 THEN text[i] \in 0..63 ELSE text[i] = B64!Pad
      /\ \A i \in 1..n : ByteAt(text, i) = bytes[i]

=============================================================================

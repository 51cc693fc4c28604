------------------------------- MODULE Base64 --------------------------------
(***************************************************************************)
(* base64_encode of utils.cpp, with which pictures go to the client.  A    *)
(* character is its index in b64_chars, the padding character is Pad.      *)
(***************************************************************************)
EXTENDS Integers, Sequences

Pad == 64

\* val is an int that wraps on long inputs.  No more than its 12 low bits are
\* ever read; 16 of them are kept here.
Width == 2^16

Shift(v, n) == IF n >= 0 THEN v \div 2^n ELSE v * 2^(-n)

\* while (valb >= 0): at most two characters leave for a byte.
Drain(s) ==
  IF s.valb < 0 THEN s
  ELSE [val |-> s.val, valb |-> s.valb - 6, out |-> Append(s.out, Shift(s.val, s.valb) % 64)]
Drained(s) == Drain(Drain(s))

Taken(s, c) ==
  Drained([val |-> (s.val * 256 + c) % Width, valb |-> s.valb + 8, out |-> s.out])

Started == [val |-> 0, valb |-> -6, out |-> <<>>]

Encoding(bytes) ==
  LET s[i \in 0..Len(bytes)] == IF i = 0 THEN Started ELSE Taken(s[i - 1], bytes[i])
  IN  s[Len(bytes)]

\* What is left goes into one more character.
Flushed(s) ==
  IF s.valb > -6 THEN Append(s.out, Shift(s.val * 256, s.valb + 8) % 64) ELSE s.out

Filled(out) == out \o [i \in 1..((4 - (Len(out) % 4)) % 4) |-> Pad]

base64_encode(bytes) == Filled(Flushed(Encoding(bytes)))

=============================================================================

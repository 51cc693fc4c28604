----------------------------- MODULE BinaryData ------------------------------
(***************************************************************************)
(* What the binary formats of the bundled json.hpp carry.  A number is its *)
(* 64-bit word, 8 bytes with the most significant first: two's complement  *)
(* for number_integer, IEEE 754 for number_float.  A float that is read    *)
(* from text keeps the text (strtod is left out), and a NaN has no payload.*)
(* A name or a string is its sequence of bytes; a subtype of -1 is none.   *)
(***************************************************************************)
EXTENDS Integers, Sequences, SequencesExt, FiniteSetsExt, TLC, Loops

Null == [type |-> "null"]
Boolean(b) == [type |-> "boolean", is |-> b]
Integer(word) == [type |-> "integer", word |-> word]
Unsigned(word) == [type |-> "unsigned", word |-> word]
Float(word) == [type |-> "float", word |-> word]
FloatText(chars) == [type |-> "float_text", bytes |-> chars]
Text(bytes) == [type |-> "string", bytes |-> bytes]
Binary(bytes, subtype) == [type |-> "binary", bytes |-> bytes, subtype |-> subtype]
Array(elems) == [type |-> "array", elems |-> elems]
Object(members) == [type |-> "object", members |-> members]

None == -1    \* no subtype

-----------------------------------------------------------------------------
(* Words.                                                                   *)

Fill(b, k) == [i \in 1..k |-> b]
Low(word, k) == SubSeq(word, 9 - k, 8)              \* a cast to k bytes
Complement(word) == [i \in 1..8 |-> 255 - word[i]]  \* -1 - n

ZeroExtend(bytes) == Fill(0, 8 - Len(bytes)) \o bytes
SignExtend(bytes) == Fill(IF bytes[1] >= 128 THEN 255 ELSE 0, 8 - Len(bytes)) \o bytes

Negative(word) == word[1] >= 128

\* n <= max and min <= n <= max of the unsigned and the signed type of k bytes.
FitsUnsigned(word, k) == ZeroExtend(Low(word, k)) = word
FitsSigned(word, k) == SignExtend(Low(word, k)) = word

\* A size as a word and a word as a size.  No input is as long as 2^24 bytes; that
\* a count of 2^64 - 1 is taken for detail::unknown_size() is left out.
Huge == 2^24
Unknown == Huge + 1
WordOf(n) == Fill(0, 5) \o <<n \div 2^16, (n \div 2^8) % 2^8, n % 2^8>>
SizeOf(word) ==
  IF FitsUnsigned(word, 3) THEN word[6] * 2^16 + word[7] * 2^8 + word[8] ELSE Huge

\* 10 * word + digit as 9 bytes, the first of them what does not fit.
TimesTen(word, digit) ==
  LET step(r, b) == <<(10 * b + r[1]) \div 256, (10 * b + r[1]) % 256>> \o Tail(r)
  IN  Through(step, <<digit>>, Reverse(word), Seq(0..255))

\* word \div 10, and the digit that remains.
DividedByTen(word) ==
  LET step(r, b) == [digits |-> Append(r.digits, (r.rest * 256 + b) \div 10),
                     rest |-> (r.rest * 256 + b) % 10]
  IN  Through(step, [digits |-> <<>>, rest |-> 0], word, [digits : Seq(0..255), rest : 0..9])
-----------------------------------------------------------------------------
(* Floats of 4 and 8 bytes.                                                 *)

Exponent(word) == (word[1] % 128) * 16 + word[2] \div 16
Mantissa23(word) == (word[2] % 16) * 2^19 + word[3] * 2^11 + word[4] * 2^3 + word[5] \div 32
Below23(word) == <<word[5] % 32, word[6], word[7], word[8]>>

Single(sign, exponent, mantissa) ==
  <<sign * 128 + exponent \div 2, (exponent % 2) * 128 + mantissa \div 2^16,
    (mantissa \div 2^8) % 2^8, mantissa % 2^8>>

IsFinite(word) == Exponent(word) # 2047
IsZero(word) == Tail(word) = Fill(0, 7) /\ word[1] % 128 = 0

\* Whether static_cast<float> is exact: the exponent and the mantissa fit, in a
\* subnormal float with the bits that are shifted out.
IsSingle(word) ==
  \/ IsZero(word)
  \/ /\ Below23(word) = Fill(0, 4)
     /\ \/ Exponent(word) \in 897..1150
        \/ /\ Exponent(word) \in 874..896
           /\ (2^23 + Mantissa23(word)) % 2^(897 - Exponent(word)) = 0

\* static_cast<float> where it is exact, or the word is no finite number.
Narrow(word) ==
  LET sign == word[1] \div 128
      e == Exponent(word)
  IN  CASE e = 2047       -> Single(sign, 255, Mantissa23(word))
        [] e \in 897..1150 -> Single(sign, e - 896, Mantissa23(word))
        [] e \in 874..896  -> Single(sign, 0, (2^23 + Mantissa23(word)) \div 2^(897 - e))
        [] OTHER          -> Single(sign, 0, 0)

\* The double (-1)^sign * m * 2^e, for m below 2^24.
Ldexp(sign, m, e) ==
  LET top == Max({k \in 0..23 : m >= 2^k})
      exponent == top + e + 1023
      m23 == (m - 2^top) * 2^(23 - top)
  IN  IF m = 0 THEN <<sign * 128>> \o Fill(0, 7)
      ELSE <<sign * 128 + exponent \div 16, (exponent % 16) * 16 + m23 \div 2^19,
             (m23 \div 2^11) % 256, (m23 \div 2^3) % 256, (m23 % 8) * 32, 0, 0, 0>>

Infinite(sign) == <<sign * 128 + 127, 240, 0, 0, 0, 0, 0, 0>>
QuietNaN(sign) == <<sign * 128 + 127, 248, 0, 0, 0, 0, 0, 0>>

\* static_cast<double> of a float.
Widen(bytes) ==
  LET sign == bytes[1] \div 128
      e == (bytes[1] % 128) * 2 + bytes[2] \div 128
      m == (bytes[2] % 128) * 2^16 + bytes[3] * 2^8 + bytes[4]
  IN  CASE e = 255 /\ m = 0 -> Infinite(sign)
        [] e = 255 /\ m # 0 -> QuietNaN(sign)
        [] e = 0            -> Ldexp(sign, m, -149)
        [] OTHER            -> Ldexp(sign, 2^23 + m, e - 150)

-----------------------------------------------------------------------------
(* The markers of UBJSON and BJData.                                        *)

Mark ==
  [N |-> 78, Z |-> 90, T |-> 84, F |-> 70, B |-> 66, C |-> 67, S |-> 83, H |-> 72,
   i |-> 105, U |-> 85, I |-> 73, u |-> 117, l |-> 108, m |-> 109, L |-> 76, M |-> 77,
   h |-> 104, d |-> 100, D |-> 68, array |-> 91, end_array |-> 93,
   object |-> 123, end_object |-> 125, type |-> 36, count |-> 35]

SignedWidth == (Mark.i :> 1) @@ (Mark.I :> 2) @@ (Mark.l :> 4) @@ (Mark.L :> 8)
BjdataWidth == (Mark.u :> 2) @@ (Mark.m :> 4) @@ (Mark.M :> 8)

\* The names of an annotated array: _ArraySize_, _ArrayType_ and _ArrayData_.
ArrayKey(last) == <<95, 65, 114, 114, 97, 121>> \o last \o <<95>>
ArraySize == ArrayKey(<<83, 105, 122, 101>>)
ArrayType == ArrayKey(<<84, 121, 112, 101>>)
ArrayData == ArrayKey(<<68, 97, 116, 97>>)

\* Its types: byte char double single, int8 to int64 and uint8 to uint64.
IntName(bits) == <<105, 110, 116>> \o bits
UIntName(bits) == <<117>> \o IntName(bits)
TypeName ==
  (Mark.B :> <<98, 121, 116, 101>>) @@ (Mark.C :> <<99, 104, 97, 114>>)
  @@ (Mark.D :> <<100, 111, 117, 98, 108, 101>>) @@ (Mark.d :> <<115, 105, 110, 103, 108, 101>>)
  @@ (Mark.i :> IntName(<<56>>)) @@ (Mark.I :> IntName(<<49, 54>>)) @@ (Mark.l :> IntName(<<51, 50>>))
  @@ (Mark.L :> IntName(<<54, 52>>)) @@ (Mark.U :> UIntName(<<56>>)) @@ (Mark.u :> UIntName(<<49, 54>>))
  @@ (Mark.m :> UIntName(<<51, 50>>)) @@ (Mark.M :> UIntName(<<54, 52>>))

=============================================================================

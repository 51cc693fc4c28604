---------------------------- MODULE BinaryWriter -----------------------------
(***************************************************************************)
(* binary_writer: a value as CBOR, MessagePack, UBJSON, BJData or BSON.    *)
(* how says which of the last ones: use_count and use_type of to_ubjson,   *)
(* bjdata, and its draft3.                                                 *)
(***************************************************************************)
EXTENDS BinaryData

\* std::map keeps its keys in the order of their bytes.
Before(s, t) ==
  \/ Len(s) < Len(t) /\ s = SubSeq(t, 1, Len(s))
  \/ \E i \in 1..Len(s) :
       i <= Len(t) /\ s[i] < t[i] /\ SubSeq(s, 1, i - 1) = SubSeq(t, 1, i - 1)

RECURSIVE Ordered(_)
Ordered(keys) ==
  LET first == CHOOSE k \in keys : \A j \in keys \ {k} : Before(k, j)
  IN  IF keys = {} THEN <<>> ELSE <<first>> \o Ordered(keys \ {first})

Keys(members) == Ordered(DOMAIN members)
Concat(n, Part(_)) == Joined([i \in 1..n |-> Part(i)])

\* The narrowest of 1, 2, 4 and 8 bytes that hold a word, as the power of 2.
Width(word) == Min({w \in 0..3 : FitsUnsigned(word, 2^w)})
-----------------------------------------------------------------------------
(* CBOR: a head with a number up to 23 in it or in the bytes after it.      *)

CborHead(base, word) ==
  IF FitsUnsigned(word, 1) /\ word[8] <= 23 THEN <<base + word[8]>>
  ELSE <<base + 24 + Width(word)>> \o Low(word, 2^Width(word))

CborLiteral(j) ==
  CASE j.type = "null" -> <<246>>
    [] OTHER           -> IF j.is THEN <<245>> ELSE <<244>>

CborInteger(word) ==
  IF Negative(word) THEN CborHead(32, Complement(word)) ELSE CborHead(0, word)
CborUnsigned(word) == CborHead(0, word)

write_compact_float(word, prefixes) ==
  IF ~IsFinite(word) \/ IsSingle(word)
    THEN <<prefixes[1]>> \o Narrow(word)
    ELSE <<prefixes[2]>> \o word

CborFloat(word) ==
  CASE ~IsFinite(word) /\ Mantissa23(word) # 0 -> <<249, 126, 0>>
    [] ~IsFinite(word) /\ Mantissa23(word) = 0 -> <<249, IF Negative(word) THEN 252 ELSE 124, 0>>
    [] OTHER -> write_compact_float(word, <<250, 251>>)

CborString(bytes) == CborHead(96, WordOf(Len(bytes))) \o bytes

\* A subtype goes before the bytes as a tag, in at least one byte of its own.
CborBinary(j) ==
  LET subtype == WordOf(j.subtype)
  IN  (IF j.subtype = None THEN <<>> ELSE <<216 + Width(subtype)>> \o Low(subtype, 2^Width(subtype)))
      \o CborHead(64, WordOf(Len(j.bytes))) \o j.bytes

RECURSIVE write_cbor(_)
CborArray(elems) ==
  CborHead(128, WordOf(Len(elems))) \o Concat(Len(elems), LAMBDA i : write_cbor(elems[i]))
CborObject(members) ==
  LET keys == Keys(members)
  IN  CborHead(160, WordOf(Len(keys)))
      \o Concat(Len(keys), LAMBDA i : CborString(keys[i]) \o write_cbor(members[keys[i]]))

write_cbor(j) ==
  CASE j.type \in {"null", "boolean"} -> CborLiteral(j)
    [] j.type = "integer"  -> CborInteger(j.word)
    [] j.type = "unsigned" -> CborUnsigned(j.word)
    [] j.type = "float"    -> CborFloat(j.word)
    [] j.type = "string"   -> CborString(j.bytes)
    [] j.type = "binary"   -> CborBinary(j)
    [] j.type = "array"    -> CborArray(j.elems)
    [] j.type = "object"   -> CborObject(j.members)
-----------------------------------------------------------------------------
(* MessagePack.                                                             *)

MsgpackLiteral(j) ==
  CASE j.type = "null" -> <<192>>
    [] OTHER           -> IF j.is THEN <<195>> ELSE <<194>>

MsgpackUnsigned(word) ==
  IF FitsUnsigned(word, 1) /\ word[8] < 128 THEN <<word[8]>>
  ELSE <<204 + Width(word)>> \o Low(word, 2^Width(word))

MsgpackInteger(word) ==
  LET w == Min({k \in 0..3 : FitsSigned(word, 2^k)})
  IN  CASE ~Negative(word) -> MsgpackUnsigned(word)
        [] Negative(word) /\ FitsSigned(word, 1) /\ word[8] >= 224 -> <<word[8]>>
        [] OTHER -> <<208 + w>> \o Low(word, 2^w)

MsgpackFloat(word) == write_compact_float(word, <<202, 203>>)

\* A count up to a limit in the first byte, else one of the wider heads from
\* which on it has at least 2^least bytes.
MsgpackHead(n, fix, limit, wide, least) ==
  LET word == WordOf(n)
      w == Max({least, Width(word)})
  IN  IF n <= limit THEN <<fix + n>> ELSE <<wide + w - least>> \o Low(word, 2^w)

MsgpackString(bytes) == MsgpackHead(Len(bytes), 160, 31, 217, 0) \o bytes

\* With a subtype, the sizes 1, 2, 4, 8 and 16 have a head of their own.
MsgpackBinary(j) ==
  LET n == Len(j.bytes)
      head == CASE j.subtype = None -> MsgpackHead(n, 0, -1, 196, 0)
                [] j.subtype # None /\ n \in {1, 2, 4, 8, 16} ->
                     <<212 + CHOOSE k \in 0..4 : 2^k = n>>
                [] OTHER -> MsgpackHead(n, 0, -1, 199, 0)
  IN  head \o (IF j.subtype = None THEN <<>> ELSE <<j.subtype % 256>>) \o j.bytes

RECURSIVE write_msgpack(_)
MsgpackArray(elems) ==
  MsgpackHead(Len(elems), 144, 15, 220, 1) \o Concat(Len(elems), LAMBDA i : write_msgpack(elems[i]))
MsgpackObject(members) ==
  LET keys == Keys(members)
  IN  MsgpackHead(Len(keys), 128, 15, 222, 1)
      \o Concat(Len(keys), LAMBDA i : MsgpackString(keys[i]) \o write_msgpack(members[keys[i]]))

write_msgpack(j) ==
  CASE j.type \in {"null", "boolean"} -> MsgpackLiteral(j)
    [] j.type = "integer"  -> MsgpackInteger(j.word)
    [] j.type = "unsigned" -> MsgpackUnsigned(j.word)
    [] j.type = "float"    -> MsgpackFloat(j.word)
    [] j.type = "string"   -> MsgpackString(j.bytes)
    [] j.type = "binary"   -> MsgpackBinary(j)
    [] j.type = "array"    -> MsgpackArray(j.elems)
    [] j.type = "object"   -> MsgpackObject(j.members)
-----------------------------------------------------------------------------
(* UBJSON and BJData.                                                       *)

\* write_number: BJData is little-endian.
Ordering(bytes, how) == IF how.bjdata THEN Reverse(bytes) ELSE bytes

\* The types in the order in which they are tried.
Markers(how) ==
  IF how.bjdata THEN <<Mark.i, Mark.U, Mark.I, Mark.u, Mark.l, Mark.m, Mark.L, Mark.M>>
  ELSE <<Mark.i, Mark.U, Mark.I, Mark.l, Mark.L>>

Bytes(c) == (SignedWidth @@ BjdataWidth @@ (Mark.U :> 1))[c]

IntegerFits(word, c) ==
  IF c \in DOMAIN SignedWidth THEN FitsSigned(word, Bytes(c))
  ELSE ~Negative(word) /\ FitsUnsigned(word, Bytes(c))
UnsignedFits(word, c) ==
  IF c \in DOMAIN SignedWidth THEN ~Negative(word) /\ FitsSigned(word, Bytes(c))
  ELSE FitsUnsigned(word, Bytes(c))

FirstThat(markers, Fits(_)) ==
  LET fitting == {i \in 1..Len(markers) : Fits(markers[i])}
  IN  IF fitting = {} THEN Mark.H ELSE markers[Min(fitting)]

\* Mutant: the prefix of a negative number is taken for the one of its bits.
PrefixOfBits(j, how) ==
  CASE j.type = "null" -> Mark.Z
    [] j.type = "boolean" -> IF j.is THEN Mark.T ELSE Mark.F
    [] j.type \in {"integer", "unsigned"} -> FirstThat(Markers(how), LAMBDA c : UnsignedFits(j.word, c))
    [] j.type = "float" -> Mark.D
    [] j.type = "string" -> Mark.S
    [] j.type \in {"array", "binary"} -> Mark.array
    [] j.type = "object" -> Mark.object

\* The marker that a value will be written with.
ubjson_prefix(j, how) ==
  CASE j.type = "null" -> Mark.Z
    [] j.type = "boolean" -> IF j.is THEN Mark.T ELSE Mark.F
    [] j.type = "integer" -> FirstThat(Markers(how), LAMBDA c : IntegerFits(j.word, c))
    [] j.type = "unsigned" -> FirstThat(Markers(how), LAMBDA c : UnsignedFits(j.word, c))
    [] j.type = "float" -> Mark.D
    [] j.type = "string" -> Mark.S
    [] j.type \in {"array", "binary"} -> Mark.array
    [] j.type = "object" -> Mark.object

Prefixed(c, add_prefix, bytes) == (IF add_prefix THEN <<c>> ELSE <<>>) \o bytes

\* dump() of a number without sign.
RECURSIVE Decimal(_)
Decimal(word) ==
  LET d == DividedByTen(word)
  IN  (IF d.digits = WordOf(0) THEN <<>> ELSE Decimal(d.digits)) \o <<48 + d.rest>>

RECURSIVE write_unsigned(_, _, _)
write_unsigned(word, add_prefix, how) ==
  LET c == FirstThat(Markers(how), LAMBDA m : UnsignedFits(word, m))
  IN  Prefixed(c, add_prefix,
               IF c = Mark.H THEN write_unsigned(WordOf(Len(Decimal(word))), TRUE, how) \o Decimal(word)
               ELSE Ordering(Low(word, Bytes(c)), how))

write_integer(word, add_prefix, how) ==
  LET c == FirstThat(Markers(how), LAMBDA m : IntegerFits(word, m))
  IN  Prefixed(c, add_prefix, Ordering(Low(word, Bytes(c)), how))

write_float(word, add_prefix, how) == Prefixed(Mark.D, add_prefix, Ordering(word, how))

WriteSize(n, how) == write_unsigned(WordOf(n), TRUE, how)
UbjsonString(bytes, how) == WriteSize(Len(bytes), how) \o bytes

\* Types that an optimized container of BJData may not have.
bjdx == {Mark.array, Mark.object, Mark.S, Mark.H, Mark.T, Mark.F, Mark.N, Mark.Z}

\* The type of a container whose elements all have one, else 0.
CommonType(items, how) ==
  LET types == {ubjson_prefix(items[i], how) : i \in 1..Len(items)}
  IN  IF how.use_type /\ Cardinality(types) = 1 /\ ~(how.bjdata /\ types \subseteq bjdx)
        THEN CHOOSE t \in types : TRUE ELSE 0

\* Between the brackets: the type, the count, and the items or else an end.
Container(open, close, type, n, items, add_prefix, how) ==
  Prefixed(open, add_prefix,
           (IF type # 0 THEN <<Mark.type, type>> ELSE <<>>)
           \o (IF how.use_count THEN <<Mark.count>> \o WriteSize(n, how) ELSE <<>>)
           \o items
           \o (IF how.use_count THEN <<>> ELSE <<close>>))

UbjsonBinary(bytes, add_prefix, how) ==
  LET byte == IF how.bjdata /\ how.draft3 THEN Mark.B ELSE Mark.U
      typed == how.use_type /\ (byte = Mark.B \/ bytes # <<>>)
  IN  Container(Mark.array, Mark.end_array, IF typed THEN byte ELSE 0, Len(bytes),
                IF how.use_type THEN bytes ELSE Concat(Len(bytes), LAMBDA i : <<byte, bytes[i]>>),
                add_prefix, how)
-----------------------------------------------------------------------------
(* Annotated arrays of BJData.                                              *)

Items(j) ==
  CASE j.type = "array" -> j.elems
    [] j.type = "null"  -> <<>>
    [] OTHER            -> <<j>>

IsAnnotated(members) == DOMAIN members = {ArraySize, ArrayType, ArrayData}

\* Its type is known, and there are as many elements as the dimensions say.
IsNdarray(members) ==
  LET dims == Items(members[ArraySize])
      size == FoldLeft(LAMBDA n, d : n * SizeOf(d.word), 1, dims)
  IN  /\ members[ArrayType].bytes \in {TypeName[c] : c \in DOMAIN TypeName}
      /\ Len(Items(members[ArrayData])) = IF dims = <<>> THEN 0 ELSE size

\* An element is cast to the type: the bits of its word, whatever its own type.
NdElement(j, c) ==
  CASE c \in {Mark.C, Mark.B} -> Low(j.word, 1)
    [] c = Mark.d             -> Narrow(j.word)
    [] c = Mark.D             -> j.word
    [] OTHER                  -> Low(j.word, Bytes(c))

RECURSIVE write_ubjson(_, _, _)

write_bjdata_ndarray(members, how) ==
  LET c == CHOOSE m \in DOMAIN TypeName : TypeName[m] = members[ArrayType].bytes
      data == Items(members[ArrayData])
  IN  <<Mark.array, Mark.type, c, Mark.count>> \o write_ubjson(members[ArraySize], TRUE, how)
      \o Concat(Len(data), LAMBDA i : Ordering(NdElement(data[i], c), how))

UbjsonArray(elems, add_prefix, how) ==
  LET type == CommonType(elems, how)
  IN  Container(Mark.array, Mark.end_array, type, Len(elems),
                Concat(Len(elems), LAMBDA i : write_ubjson(elems[i], type = 0, how)), add_prefix, how)

UbjsonObject(members, add_prefix, how) ==
  LET keys == Keys(members)
      type == CommonType([i \in 1..Len(keys) |-> members[keys[i]]], how)
  IN  IF how.bjdata /\ IsAnnotated(members) /\ IsNdarray(members)
        THEN write_bjdata_ndarray(members, how)
        ELSE Container(Mark.object, Mark.end_object, type, Len(keys),
                       Concat(Len(keys), LAMBDA i : UbjsonString(keys[i], how)
                                                    \o write_ubjson(members[keys[i]], type = 0, how)),
                       add_prefix, how)

write_ubjson(j, add_prefix, how) ==
  CASE j.type \in {"null", "boolean"} -> Prefixed(ubjson_prefix(j, how), add_prefix, <<>>)
    [] j.type = "integer"  -> write_integer(j.word, add_prefix, how)
    [] j.type = "unsigned" -> write_unsigned(j.word, add_prefix, how)
    [] j.type = "float"    -> write_float(j.word, add_prefix, how)
    [] j.type = "string"   -> Prefixed(Mark.S, add_prefix, UbjsonString(j.bytes, how))
    [] j.type = "binary"   -> UbjsonBinary(j.bytes, add_prefix, how)
    [] j.type = "array"    -> UbjsonArray(j.elems, add_prefix, how)
    [] j.type = "object"   -> UbjsonObject(j.members, add_prefix, how)
-----------------------------------------------------------------------------
(* BSON.  Sizes are computed before anything is written; a name with a byte *)
(* 0 throws there.                                                          *)

IsInt32(word) == FitsSigned(word, 4)
SmallUnsigned(word) == ~Negative(word) /\ FitsSigned(word, 4)

calc_bson_entry_header_size(name) == 1 + Len(name) + 1
calc_bson_string_size(bytes) == 4 + Len(bytes) + 1
calc_bson_integer_size(word) == IF IsInt32(word) THEN 4 ELSE 8
calc_bson_unsigned_size(word) == IF SmallUnsigned(word) THEN 4 ELSE 8
calc_bson_binary_size(bytes) == 4 + Len(bytes) + 1

IndexName(i) == Decimal(WordOf(i - 1))    \* std::to_string
RECURSIVE Total(_)
Total(sizes) ==
  LET half == Len(sizes) \div 2
  IN  CASE Len(sizes) = 0 -> 0
        [] Len(sizes) = 1 -> sizes[1]
        [] OTHER -> Total(SubSeq(sizes, 1, half)) + Total(SubSeq(sizes, half + 1, Len(sizes)))
Sum(n, Part(_)) == Total([i \in 1..n |-> Part(i)])

RECURSIVE calc_bson_element_size(_, _)
calc_bson_array_size(elems) ==
  4 + Sum(Len(elems), LAMBDA i : calc_bson_element_size(IndexName(i), elems[i])) + 1
calc_bson_object_size(members) ==
  LET keys == Keys(members)
  IN  4 + Sum(Len(keys), LAMBDA i : calc_bson_element_size(keys[i], members[keys[i]])) + 1

calc_bson_element_size(name, j) ==
  calc_bson_entry_header_size(name) +
    CASE j.type = "object"   -> calc_bson_object_size(j.members)
      [] j.type = "array"    -> calc_bson_array_size(j.elems)
      [] j.type = "binary"   -> calc_bson_binary_size(j.bytes)
      [] j.type = "boolean"  -> 1
      [] j.type = "float"    -> 8
      [] j.type = "integer"  -> calc_bson_integer_size(j.word)
      [] j.type = "unsigned" -> calc_bson_unsigned_size(j.word)
      [] j.type = "string"   -> calc_bson_string_size(j.bytes)
      [] j.type = "null"     -> 0

LittleEndian(word, k) == Reverse(Low(word, k))
Int32(n) == LittleEndian(WordOf(n), 4)
write_bson_entry_header(name, type) == <<type>> \o name \o <<0>>

write_bson_boolean(name, b) == write_bson_entry_header(name, 8) \o <<IF b THEN 1 ELSE 0>>
write_bson_double(name, word) == write_bson_entry_header(name, 1) \o LittleEndian(word, 8)
write_bson_string(name, bytes) ==
  write_bson_entry_header(name, 2) \o Int32(Len(bytes) + 1) \o bytes \o <<0>>
write_bson_null(name) == write_bson_entry_header(name, 10)
write_bson_integer(name, word) ==
  IF IsInt32(word) THEN write_bson_entry_header(name, 16) \o LittleEndian(word, 4)
  ELSE write_bson_entry_header(name, 18) \o LittleEndian(word, 8)
write_bson_unsigned(name, word) ==
  IF SmallUnsigned(word) THEN write_bson_entry_header(name, 16) \o LittleEndian(word, 4)
  ELSE write_bson_entry_header(name, IF Negative(word) THEN 17 ELSE 18) \o LittleEndian(word, 8)
write_bson_binary(name, j) ==
  write_bson_entry_header(name, 5) \o Int32(Len(j.bytes))
  \o <<IF j.subtype = None THEN 0 ELSE j.subtype % 256>> \o j.bytes

RECURSIVE write_bson_element(_, _)
write_bson_object(members) ==
  LET keys == Keys(members)
  IN  Int32(calc_bson_object_size(members))
      \o Concat(Len(keys), LAMBDA i : write_bson_element(keys[i], members[keys[i]])) \o <<0>>
write_bson_object_entry(name, members) == write_bson_entry_header(name, 3) \o write_bson_object(members)
write_bson_array(name, elems) ==
  write_bson_entry_header(name, 4) \o Int32(calc_bson_array_size(elems))
  \o Concat(Len(elems), LAMBDA i : write_bson_element(IndexName(i), elems[i])) \o <<0>>

write_bson_element(name, j) ==
  CASE j.type = "object"   -> write_bson_object_entry(name, j.members)
    [] j.type = "array"    -> write_bson_array(name, j.elems)
    [] j.type = "binary"   -> write_bson_binary(name, j)
    [] j.type = "boolean"  -> write_bson_boolean(name, j.is)
    [] j.type = "float"    -> write_bson_double(name, j.word)
    [] j.type = "integer"  -> write_bson_integer(name, j.word)
    [] j.type = "unsigned" -> write_bson_unsigned(name, j.word)
    [] j.type = "string"   -> write_bson_string(name, j.bytes)
    [] j.type = "null"     -> write_bson_null(name)

\* Whether a name somewhere in a value has a byte 0.
RECURSIVE HasZeroKey(_)
HasZeroKey(j) ==
  CASE j.type = "object" -> \E k \in DOMAIN j.members : 0 \in ToSet(k) \/ HasZeroKey(j.members[k])
    [] j.type = "array"  -> \E i \in 1..Len(j.elems) : HasZeroKey(j.elems[i])
    [] OTHER             -> FALSE

\* Whether write_bson throws, and what it writes otherwise.
bson_throws(j) == j.type # "object" \/ HasZeroKey(j)
write_bson(j) == write_bson_object(j.members)

=============================================================================

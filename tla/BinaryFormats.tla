---------------------------- MODULE BinaryFormats ----------------------------
(***************************************************************************)
(* What the binary formats promise of a value: what is written reads back, *)
(* and every encoding that a format allows is read.  The encodings are     *)
(* those of RFC 8949 (CBOR) and of the specifications of MessagePack,      *)
(* UBJSON and BJData, produced in a style: how wide lengths and integers   *)
(* are, and which of the other choices of a format are taken.              *)
(***************************************************************************)
EXTENDS BinaryData

Reader == INSTANCE BinaryReader
Writer == INSTANCE BinaryWriter

\* Values are equal as operator== has it: an integer that is not negative and the
\* same unsigned number are one value.
RECURSIVE Normal(_)
Normal(v) ==
  CASE v.type = "integer" -> IF Negative(v.word) THEN v ELSE Unsigned(v.word)
    [] v.type = "array"   -> Array([i \in 1..Len(v.elems) |-> Normal(v.elems[i])])
    [] v.type = "object"  -> Object([k \in DOMAIN v.members |-> Normal(v.members[k])])
    [] OTHER              -> v

Ways ==
  {[format |-> "cbor", tags |-> "store"], [format |-> "msgpack", tags |-> "error"],
   [format |-> "bson", tags |-> "error"]}
  \cup {[format |-> "ubjson", tags |-> "error", use_count |-> c, use_type |-> t,
         bjdata |-> FALSE, draft3 |-> FALSE] : c \in BOOLEAN, t \in BOOLEAN}
  \cup {[format |-> "bjdata", tags |-> "error", use_count |-> c, use_type |-> t,
         bjdata |-> TRUE, draft3 |-> d] : c \in BOOLEAN, t \in BOOLEAN, d \in BOOLEAN}

\* Types without counts are the caller's to avoid: three assertions of write_ubjson
\* say so, which the Release build leaves out, and what it writes then has no end that
\* a reader could tell from a value.  By default there are neither.
IsWay(how) == how.format \in {"ubjson", "bjdata"} => (how.use_type => how.use_count)

Written(v, how) ==
  CASE how.format = "cbor"    -> Writer!write_cbor(v)
    [] how.format = "msgpack" -> Writer!write_msgpack(v)
    [] how.format = "bson"    -> Writer!write_bson(v)
    [] OTHER                  -> Writer!write_ubjson(v, TRUE, how)

Read(bytes, how) == Reader!sax_parse(bytes, how)

\* What a value comes back as: formats without byte strings make them arrays,
\* MessagePack and BSON have one byte for the subtype, BSON 0 for none, and an
\* annotated array of BJData that has one row or no element becomes a plain one.
ByteArray(bytes) == Array([i \in 1..Len(bytes) |-> Unsigned(WordOf(bytes[i]))])

ComesBackBinary(v, how) ==
  CASE how.format = "cbor" -> v
    [] how.format \in {"msgpack", "bson"} /\ v.subtype # None -> Binary(v.bytes, v.subtype % 256)
    [] how.format \in {"msgpack", "bson"} /\ v.subtype = None ->
         Binary(v.bytes, IF how.format = "bson" THEN 0 ELSE None)
    [] OTHER -> IF how.draft3 /\ how.use_type THEN Binary(v.bytes, None) ELSE ByteArray(v.bytes)

IsPlain(members) ==
  LET dims == members[ArraySize].elems
  IN  Len(dims) <= 1 \/ (Len(dims) = 2 /\ dims[1].word = WordOf(1))
      \/ \E i \in 1..Len(dims) : dims[i].word = WordOf(0)

RECURSIVE ComesBack(_, _)
ComesBack(v, how) ==
  CASE v.type = "binary" -> ComesBackBinary(v, how)
    [] v.type = "array"  -> Array([i \in 1..Len(v.elems) |-> ComesBack(v.elems[i], how)])
    [] v.type = "object" ->
         IF /\ how.format = "bjdata" /\ Writer!IsAnnotated(v.members) /\ Writer!IsNdarray(v.members)
            /\ IsPlain(v.members)
           THEN ComesBack(v.members[ArrayData], how)
           ELSE Object([k \in DOMAIN v.members |-> ComesBack(v.members[k], how)])
    [] OTHER -> Normal(v)

\* The lengths at which an encoding of n bytes is cut: all of the first ones, and
\* the one before the last.
Cuts(n) == {k \in 0..40 : k < n} \cup {n - 1}

\* Written and read back in one way; what was cut off or has more after it is no
\* value.  The size at the start of a BSON document, which the reader does not
\* use, is the length of the document.
RoundTrip(v, how) ==
  \A bytes \in {SubSeq(Written(v, how), 1, Len(Written(v, how)))} :
    LET r == Read(bytes, how)
    IN  /\ r.ok /\ Normal(r.value) = ComesBack(v, how)
        /\ \A n \in Cuts(Len(bytes)) : ~Read(SubSeq(bytes, 1, n), how).ok
        /\ ~Read(Append(bytes, 0), how).ok
        /\ how.format = "bson" => SizeOf(ZeroExtend(Reverse(SubSeq(bytes, 1, 4)))) = Len(bytes)

RoundTrips(v) ==
  \A how \in {w \in Ways : IsWay(w)} :
    (how.format = "bson" => ~Writer!bson_throws(v)) => RoundTrip(v, how)
-----------------------------------------------------------------------------
(* Encodings in a style.  width is the least number of bytes of an integer  *)
(* or a length, as a power of 2 and one more, 0 being in the head itself.   *)

Styles == [width : 0..4, other : BOOLEAN]

Wider(width, word) == Min({w \in 1..4 : w >= width /\ FitsUnsigned(word, 2^(w - 1))})
WiderSigned(width, word) == Min({w \in 1..4 : w >= width /\ FitsSigned(word, 2^(w - 1))})

CborHead(base, word, s) ==
  LET w == Wider(s.width, word)
  IN  IF s.width = 0 /\ FitsUnsigned(word, 1) /\ word[8] <= 23 THEN <<base + word[8]>>
      ELSE <<base + 23 + w>> \o Low(word, 2^(w - 1))

\* The floats that also have 2 bytes: 1, -2, the largest and the smallest ones.
Halves ==
  << <<Ldexp(0, 1, 0), <<60, 0>> >>, <<Ldexp(1, 1, 1), <<192, 0>> >>,
     <<Ldexp(0, 2047, 5), <<123, 255>> >>, <<Ldexp(0, 1, -24), <<0, 1>> >>,
     <<Ldexp(1, 1023, -24), <<131, 255>> >>, <<Infinite(1), <<252, 0>> >>,
     <<QuietNaN(0), <<126, 0>> >> >>

HalfOf(word) == SelectSeq(Halves, LAMBDA h : h[1] = word)

FloatBytes(word, s, prefixes) ==
  CASE s.width <= 2 /\ HalfOf(word) # <<>> /\ prefixes[1] # 0 -> <<prefixes[1]>> \o HalfOf(word)[1][2]
    [] s.width = 3 /\ (IsSingle(word) \/ ~IsFinite(word)) -> <<prefixes[2]>> \o Narrow(word)
    [] OTHER -> <<prefixes[3]>> \o word

Halved(bytes) == <<SubSeq(bytes, 1, Len(bytes) \div 2), SubSeq(bytes, (Len(bytes) \div 2) + 1, Len(bytes))>>

\* The names in order, or backwards.
Names(members, s) == IF s.other THEN Reverse(Writer!Keys(members)) ELSE Writer!Keys(members)

\* CBOR.  The other choices: indefinite lengths, and tags that are to be ignored.
CborBytes(base, bytes, s) ==
  IF s.other
    THEN <<base + 31>> \o Joined([i \in 1..2 |-> CborHead(base, WordOf(Len(Halved(bytes)[i])), s)
                                                     \o Halved(bytes)[i]]) \o <<255>>
    ELSE CborHead(base, WordOf(Len(bytes)), s) \o bytes

RECURSIVE Cbor(_, _)
Cbor(v, s) ==
  LET list(base, n, items) ==
        IF s.other THEN <<base + 31>> \o items \o <<255>> ELSE CborHead(base, WordOf(n), s) \o items
      tag == CASE s.other /\ s.width = 0 -> <<198>>
               [] s.other /\ s.width > 0 -> CborHead(192, WordOf(77), s)
               [] OTHER -> <<>>
  IN  CASE v.type = "null"    -> <<246>>
        [] v.type = "boolean" -> tag \o <<IF v.is THEN 245 ELSE 244>>
        [] v.type = "unsigned" -> tag \o CborHead(0, v.word, s)
        [] v.type = "integer" -> CborHead(32, Complement(v.word), s)
        [] v.type = "float"   -> FloatBytes(v.word, s, <<249, 250, 251>>)
        [] v.type = "string"  -> tag \o CborBytes(96, v.bytes, s)
        [] v.type = "binary"  -> CborBytes(64, v.bytes, s)
        [] v.type = "array"   ->
             tag \o list(128, Len(v.elems), Joined([i \in 1..Len(v.elems) |-> Cbor(v.elems[i], s)]))
        [] v.type = "object"  ->
             LET names == Names(v.members, s)
             IN  list(160, Len(names), Joined([i \in 1..Len(names) |->
                                        CborBytes(96, names[i], s) \o Cbor(v.members[names[i]], s)]))

\* MessagePack.  The other choice: signed types for numbers that have no sign.
MsgpackLength(n, fix, limit, wide, least, s) ==
  LET w == Max({least, Wider(s.width, WordOf(n))})
  IN  IF s.width = 0 /\ n <= limit THEN <<fix + n>> ELSE <<wide + w - least>> \o Low(WordOf(n), 2^(w - 1))

MsgpackInt(word, signed, s) ==
  LET u == Wider(s.width, word)
      i == WiderSigned(s.width, word)
  IN  IF signed \/ (s.other /\ ~Negative(word))
        THEN <<207 + i>> \o Low(word, 2^(i - 1)) ELSE <<203 + u>> \o Low(word, 2^(u - 1))

Narrower(s) == IF s.width = 4 THEN [s EXCEPT !.width = 3] ELSE s

RECURSIVE Msgpack(_, _)
Msgpack(v, s) ==
  LET text(bytes) == MsgpackLength(Len(bytes), 160, 31, 217, 1, Narrower(s)) \o bytes
  IN  CASE v.type = "null"    -> <<192>>
        [] v.type = "boolean" -> <<IF v.is THEN 195 ELSE 194>>
        [] v.type = "unsigned" -> MsgpackInt(v.word, FALSE, s)
        [] v.type = "integer" -> MsgpackInt(v.word, TRUE, s)
        [] v.type = "float"   -> FloatBytes(v.word, s, <<0, 202, 203>>)
        [] v.type = "string"  -> text(v.bytes)
        [] v.type = "binary"  -> MsgpackLength(Len(v.bytes), 0, -1, 196, 1, Narrower(s)) \o v.bytes
        [] v.type = "array"   ->
             MsgpackLength(Len(v.elems), 144, 15, 220, 2, Narrower(s))
             \o Joined([i \in 1..Len(v.elems) |-> Msgpack(v.elems[i], s)])
        [] v.type = "object"  ->
             LET names == Names(v.members, s)
             IN  MsgpackLength(Len(names), 128, 15, 222, 2, Narrower(s))
                 \o Joined([i \in 1..Len(names) |-> text(names[i]) \o Msgpack(v.members[names[i]], s)])

\* UBJSON and BJData.  The other choices: no-ops, counts, and one byte as a char.
UbjsonInt(word, signed, s, bjdata) ==
  LET i == WiderSigned(s.width, word)
      u == Wider(s.width, word)
      order(bytes) == IF bjdata THEN Reverse(bytes) ELSE bytes
      U == IF bjdata THEN <<Mark.U, Mark.u, Mark.m, Mark.M>> ELSE <<Mark.U>>
  IN  CASE ~signed /\ u <= Len(U) /\ (s.other \/ Negative(word)) -> <<U[u]>> \o order(Low(word, 2^(u - 1)))
        [] ~signed /\ u > Len(U) /\ Negative(word) ->
             <<Mark.H, Mark.I, 0, Len(Writer!Decimal(word))>> \o Writer!Decimal(word)
        [] OTHER -> <<(<<Mark.i, Mark.I, Mark.l, Mark.L>>)[i]>> \o order(Low(word, 2^(i - 1)))

RECURSIVE Ubjson(_, _, _)
Ubjson(v, s, bjdata) ==
  LET order(bytes) == IF bjdata THEN Reverse(bytes) ELSE bytes
      text(bytes) == UbjsonInt(WordOf(Len(bytes)), FALSE, s, bjdata) \o bytes
      noop == IF s.other THEN <<Mark.N, Mark.N>> ELSE <<>>
      list(open, n, items, close) ==
        IF s.other THEN <<open>> \o noop \o <<Mark.count>> \o noop
                        \o UbjsonInt(WordOf(n), FALSE, s, bjdata) \o items
        ELSE <<open>> \o items \o <<close>>
      float == FloatBytes(v.word, s, <<IF bjdata THEN Mark.h ELSE 0, Mark.d, Mark.D>>)
  IN  CASE v.type = "null"    -> <<Mark.Z>>
        [] v.type = "boolean" -> noop \o <<IF v.is THEN Mark.T ELSE Mark.F>>
        [] v.type = "unsigned" -> noop \o UbjsonInt(v.word, FALSE, s, bjdata)
        [] v.type = "integer" -> noop \o UbjsonInt(v.word, TRUE, s, bjdata)
        [] v.type = "float"   -> <<Head(float)>> \o order(Tail(float))
        [] v.type = "string"  -> IF s.other /\ Len(v.bytes) = 1 /\ v.bytes[1] < 128 THEN <<Mark.C>> \o v.bytes
                                 ELSE <<Mark.S>> \o text(v.bytes)
        [] v.type = "array"   ->
             list(Mark.array, Len(v.elems),
                  Joined([i \in 1..Len(v.elems) |-> Ubjson(v.elems[i], s, bjdata)]), Mark.end_array)
        [] v.type = "object"  ->
             LET names == Names(v.members, s)
             IN  list(Mark.object, Len(names),
                      Joined([i \in 1..Len(names) |->
                        text(names[i]) \o Ubjson(v.members[names[i]], s, bjdata)]), Mark.end_object)

\* Byte strings have no encoding of their own in UBJSON, and none with a subtype is
\* tried here.
RECURSIVE HasBinary(_)
HasBinary(v) ==
  CASE v.type = "array"  -> \E i \in 1..Len(v.elems) : HasBinary(v.elems[i])
    [] v.type = "object" -> \E k \in DOMAIN v.members : HasBinary(v.members[k])
    [] OTHER             -> v.type = "binary"

\* The reader takes every encoding of a value for the value.
EveryEncodingRead(v) ==
  \A s \in Styles :
    LET reads(bytes, how) == LET r == Read(bytes, how) IN r.ok /\ Normal(r.value) = Normal(v)
        n == Normal(v)
    IN  /\ reads(Cbor(n, s), [format |-> "cbor", tags |-> "ignore"])
        /\ reads(Msgpack(n, s), [format |-> "msgpack", tags |-> "error"])
        /\ ~HasBinary(v) =>
             /\ reads(Ubjson(n, s, FALSE), [format |-> "ubjson", tags |-> "error"])
             /\ reads(Ubjson(n, s, TRUE), [format |-> "bjdata", tags |-> "error"])

=============================================================================

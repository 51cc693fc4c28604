---------------------------- MODULE BinaryReader -----------------------------
(***************************************************************************)
(* binary_reader: CBOR, MessagePack, UBJSON, BJData and BSON into a value, *)
(* as from_cbor and its siblings use it.  Every parse error ends the       *)
(* reading, and what was read of the value is dropped with it.  A reader   *)
(* takes c, the byte got last, and p, the place after it; how says which   *)
(* format is read and what becomes of CBOR tags.                           *)
(***************************************************************************)
EXTENDS BinaryData

Json == INSTANCE JsonText WITH WordBits <- 8

Eof == -1
At(in, p) == IF p <= Len(in) THEN in[p] ELSE Eof    \* get()

\* What was read and the place after it, or nothing.
Got(value, next) == [ok |-> TRUE, value |-> value, next |-> next]
Fail == [ok |-> FALSE]

Then(r, F(_, _)) == IF r.ok THEN F(r.value, r.next) ELSE Fail

\* get_ignore_noop: the place of the next byte that is no 'N'.
RECURSIVE get_ignore_noop(_, _)
get_ignore_noop(in, p) == IF At(in, p) = Mark.N THEN get_ignore_noop(in, p + 1) ELSE p

IsUbjson(how) == how.format \in {"ubjson", "bjdata"}
Bjdata(how) == how.format = "bjdata"

\* get_to and byte_swap: k bytes, the most significant first.
get_number(in, p, k, how) ==
  LET bytes == SubSeq(in, p, p + k - 1)
  IN  IF p + k - 1 > Len(in) THEN Fail
      ELSE Got(IF how.format \in {"bson", "bjdata"} THEN Reverse(bytes) ELSE bytes, p + k)

get_unsigned(in, p, k, how) ==
  Then(get_number(in, p, k, how), LAMBDA b, q : Got(Unsigned(ZeroExtend(b)), q))
get_signed(in, p, k, how) ==
  Then(get_number(in, p, k, how), LAMBDA b, q : Got(Integer(SignExtend(b)), q))
get_size(in, p, k, how) ==
  Then(get_number(in, p, k, how), LAMBDA b, q : Got(SizeOf(ZeroExtend(b)), q))

\* The len bytes of a string, of which a negative number is none.
get_string(in, p, len) ==
  CASE len <= 0              -> Got(<<>>, p)
    [] p + len - 1 > Len(in) -> Fail
    [] OTHER                 -> Got(SubSeq(in, p, p + len - 1), p + len)

get_binary(in, p, len) == get_string(in, p, len)

get_single(in, p, how) ==
  Then(get_number(in, p, 4, how), LAMBDA b, q : Got(Float(Widen(b)), q))
get_double(in, p, how) ==
  Then(get_number(in, p, 8, how), LAMBDA b, q : Got(Float(b), q))

\* Mutant: the smallest floats of two bytes are taken for ones with a leading bit.
HalfLeadingBit(b) ==
  LET sign == b[1] \div 128
      exp == (b[1] \div 4) % 32
      mant == (b[1] % 4) * 256 + b[2]
  IN  CASE exp = 31 /\ mant = 0  -> Infinite(sign)
        [] exp = 31 /\ mant # 0  -> QuietNaN(sign)
        [] OTHER                 -> Ldexp(sign, mant + 1024, exp - 25)

\* A half-precision float of two bytes.
HalfValue(b) ==
  LET sign == b[1] \div 128
      exp == (b[1] \div 4) % 32
      mant == (b[1] % 4) * 256 + b[2]
  IN  CASE exp = 0               -> Ldexp(sign, mant, -24)
        [] exp = 31 /\ mant = 0  -> Infinite(sign)
        [] exp = 31 /\ mant # 0  -> QuietNaN(sign)
        [] OTHER                 -> Ldexp(sign, mant + 1024, exp - 25)

get_half(in, p, how) ==
  Then(get_number(in, p, 2, how), LAMBDA b, q : Got(Float(HalfValue(b)), q))
-----------------------------------------------------------------------------
(* CBOR: strings, and numbers without what contains others.                 *)

\* The number after a head: its low 5 bits, or the 1, 2, 4 or 8 bytes after it.
CborSize(in, c, p, how) ==
  IF c % 32 <= 23 THEN Got(c % 32, p) ELSE get_size(in, p, 2^((c % 32) - 24), how)

CborUnsigned(in, c, p, how) ==
  IF c <= 23 THEN Got(Unsigned(WordOf(c)), p) ELSE get_unsigned(in, p, 2^(c - 24), how)

CborNegative(in, c, p, how) ==
  IF c <= 55 THEN Got(Integer(Complement(WordOf(c - 32))), p)
  ELSE Then(get_number(in, p, 2^(c - 56), how),
            LAMBDA b, q : Got(Integer(Complement(ZeroExtend(b))), q))

\* A string of a given length, or chunks up to a byte 0xFF.
RECURSIVE CborBytes(_, _, _, _, _), CborChunks(_, _, _, _)
CborBytes(in, c, p, base, how) ==
  CASE c \in base..(base + 27) ->
         Then(CborSize(in, c, p, how), LAMBDA n, q : get_string(in, q, n))
    [] c = base + 31 -> CborChunks(in, p, base, how)
    [] OTHER -> Fail
CborChunks(in, p, base, how) ==
  IF At(in, p) = 255 THEN Got(<<>>, p + 1)
  ELSE Then(CborBytes(in, At(in, p), p + 1, base, how),
            LAMBDA s, q : Then(CborChunks(in, q, base, how), LAMBDA rest, r : Got(s \o rest, r)))

get_cbor_string(in, c, p, how) == CborBytes(in, c, p, 96, how)
get_cbor_binary(in, c, p, how) == CborBytes(in, c, p, 64, how)

CborText(in, c, p, how) ==
  Then(get_cbor_string(in, c, p, how), LAMBDA s, q : Got(Text(s), q))
CborBinary(in, c, p, subtype, how) ==
  Then(get_cbor_binary(in, c, p, how), LAMBDA b, q : Got(Binary(b, subtype), q))

CborLiteral(c, p) ==
  Got(CASE c = 244 -> Boolean(FALSE) [] c = 245 -> Boolean(TRUE) [] c = 246 -> Null, p)

CborHalf(in, p, how) == get_half(in, p, how)
CborFloat(in, c, p, how) == IF c = 250 THEN get_single(in, p, how) ELSE get_double(in, p, how)
-----------------------------------------------------------------------------
(* MessagePack: likewise.                                                   *)

MsgpackFixint(c, p) == Got(Unsigned(WordOf(c)), p)
MsgpackNegative(c, p) == Got(Integer(SignExtend(<<c>>)), p)

MsgpackUnsigned(in, c, p, how) == get_unsigned(in, p, 2^(c - 204), how)
MsgpackSigned(in, c, p, how) == get_signed(in, p, 2^(c - 208), how)

MsgpackLiteral(c, p) ==
  Got(CASE c = 192 -> Null [] c = 194 -> Boolean(FALSE) [] c = 195 -> Boolean(TRUE), p)

MsgpackFloat(in, c, p, how) == IF c = 202 THEN get_single(in, p, how) ELSE get_double(in, p, how)

get_msgpack_string(in, c, p, how) ==
  CASE c \in 160..191 -> get_string(in, p, c % 32)
    [] c \in 217..219 ->
         Then(get_size(in, p, 2^(c - 217), how), LAMBDA n, q : get_string(in, q, n))
    [] OTHER -> Fail

MsgpackText(in, c, p, how) ==
  Then(get_msgpack_string(in, c, p, how), LAMBDA s, q : Got(Text(s), q))

\* bin 8 to 32, ext 8 to 32 and fixext 1 to 16; of the last two a subtype precedes
\* the bytes.
get_msgpack_binary(in, c, p, how) ==
  LET extended(n, q) ==
        Then(get_size(in, q, 1, how),
             LAMBDA subtype, r : Then(get_binary(in, r, n), LAMBDA b, s : Got(Binary(b, subtype), s)))
  IN  CASE c \in 196..198 ->
             Then(get_size(in, p, 2^(c - 196), how),
                  LAMBDA n, q : Then(get_binary(in, q, n), LAMBDA b, r : Got(Binary(b, None), r)))
        [] c \in 199..201 -> Then(get_size(in, p, 2^(c - 199), how), extended)
        [] c \in 212..216 -> extended(2^(c - 212), p)

MsgpackBinary(in, c, p, how) == get_msgpack_binary(in, c, p, how)
-----------------------------------------------------------------------------
(* UBJSON and BJData: likewise.                                             *)

Widths(how) == SignedWidth @@ (Mark.U :> 1) @@ (IF Bjdata(how) THEN BjdataWidth ELSE <<>>)

\* A size of a signed type is negative or not; -1 stands for all that are.
UbjsonSize(in, c, p, how) ==
  Then(get_number(in, p, Widths(how)[c], how),
       LAMBDA b, q : Got(IF c \in DOMAIN SignedWidth /\ b[1] >= 128 THEN -1
                         ELSE SizeOf(ZeroExtend(b)), q))

get_ubjson_string(in, c, p, how) ==
  IF c \notin DOMAIN Widths(how) THEN Fail
  ELSE Then(UbjsonSize(in, c, p, how), LAMBDA n, q : get_string(in, q, n))

UbjsonInteger(in, c, p, how) ==
  IF c \in DOMAIN SignedWidth THEN get_signed(in, p, SignedWidth[c], how)
  ELSE get_unsigned(in, p, Widths(how)[c], how)

UbjsonChar(in, p) == IF At(in, p) \in 0..127 THEN Got(Text(<<in[p]>>), p + 1) ELSE Fail

UbjsonText(in, p, how) ==
  Then(get_ubjson_string(in, At(in, p), p + 1, how), LAMBDA s, q : Got(Text(s), q))

\* The number that a text stands for: of 64 bits if it has no fraction, no
\* exponent and is in range, else a float.
NumberOf(chars) ==
  LET negative == chars[1] = 45
      step(w, c) == IF Len(w) = 8 /\ TimesTen(w, c - 48)[1] = 0
                      THEN Tail(TimesTen(w, c - 48)) ELSE <<>>
      word == Through(step, WordOf(0), IF negative THEN Tail(chars) ELSE chars, Seq(0..255))
      whole == \A i \in 1..Len(chars) : chars[i] = 45 \/ chars[i] \in 48..57
      minus == LET c == Complement(word)
                   k == Max({i \in 0..8 : \A j \in (i + 1)..8 : c[j] = 255})
               IN  [j \in 1..8 |-> CASE j < k -> c[j] [] j = k -> c[j] + 1 [] OTHER -> 0]
  IN  CASE ~whole \/ (whole /\ word = <<>>)           -> FloatText(chars)
        [] whole /\ word # <<>> /\ ~negative         -> Unsigned(word)
        [] whole /\ word # <<>> /\ negative ->
             IF word = WordOf(0) \/ Negative(minus) THEN Integer(minus) ELSE FloatText(chars)

\* The text of a high-precision number is one number token of JSON.
NumberText(text) ==
  LET from == Json!skip_bom(text)
      token == Json!scan(text, from)
      chars == SelectSeq(SubSeq(text, from, token.next - 1), LAMBDA c : c \notin Json!WhiteSpace)
  IN  IF /\ from > 0 /\ token.type = "value" /\ token.value.type \in {"integer", "float"}
         /\ Json!scan(text, token.next).type = "end_of_input"
        THEN {NumberOf(chars)} ELSE {}

-----------------------------------------------------------------------------
(* BSON: the zero-terminated names.                                         *)

RECURSIVE get_bson_cstr(_, _)
get_bson_cstr(in, p) ==
  CASE At(in, p) = Eof -> Fail
    [] At(in, p) = 0   -> Got(<<>>, p + 1)
    [] OTHER -> Then(get_bson_cstr(in, p + 1), LAMBDA s, q : Got(<<in[p]>> \o s, q))

-----------------------------------------------------------------------------
(* What contains values.                                                    *)

RECURSIVE Value(_, _, _, _), Items(_, _, _, _, _, _), UpTo(_, _, _, _, _, _), All(_, _, _, _, _, _)
RECURSIVE get_ubjson_value(_, _, _, _), get_ubjson_size_value(_, _, _, _, _)
RECURSIVE get_ubjson_size_type(_, _, _, _), parse_bson_element_internal(_, _, _, _)

\* The value at a place, of the type of a marker unless that is 0.
Skipped(in, p, how) == IF IsUbjson(how) THEN get_ignore_noop(in, p) ELSE p
Next(in, p, how) == LET q == Skipped(in, p, how) IN Value(in, At(in, q), q + 1, how)
Element(in, p, marker, how) ==
  IF marker = 0 THEN Next(in, p, how) ELSE get_ubjson_value(in, marker, p, how)

Key(in, c, p, how) ==
  CASE how.format = "cbor"    -> get_cbor_string(in, c, p, how)
    [] how.format = "msgpack" -> get_msgpack_string(in, c, p, how)
    [] how.format = "bson"    -> get_bson_cstr(in, p)
    [] OTHER                  -> get_ubjson_string(in, c, p, how)

\* What was read so far with one item more, a value or a name and a value; the type
\* of a BSON value is before its name.
Member(in, p, q, marker, how) ==
  IF how.format = "bson" THEN parse_bson_element_internal(in, in[p], q, how)
  ELSE Element(in, q, marker, how)
Item(in, r, p, marker, keyed, how) ==
  IF keyed
    THEN Then(Key(in, At(in, p), p + 1, how),
              LAMBDA k, q : Then(Member(in, p, q, marker, how),
                                 LAMBDA v, n : Got(Append(r.value, <<k, v>>), n)))
    ELSE Then(Element(in, p, marker, how), LAMBDA v, n : Got(Append(r.value, v), n))

\* With n items more, the first half of them before the second.
Items(in, r, n, marker, keyed, how) ==
  IF r.ok /\ n > 1
    THEN Items(in, Items(in, r, n \div 2, marker, keyed, how), n - (n \div 2), marker, keyed, how)
    ELSE IF r.ok /\ n = 1 THEN Item(in, r, r.next, marker, keyed, how) ELSE r

\* With up to n more, as far as the byte that ends them.
UpTo(in, r, n, stop, keyed, how) ==
  IF r.ok /\ At(in, Skipped(in, r.next, how)) # stop
    THEN IF n = 1 THEN Item(in, r, Skipped(in, r.next, how), 0, keyed, how)
         ELSE UpTo(in, UpTo(in, r, n \div 2, stop, keyed, how), n - (n \div 2), stop, keyed, how)
    ELSE r

\* With as many as there are: n, then twice as many, and so on; the byte that ends
\* them is read.
All(in, r, n, stop, keyed, how) ==
  IF r.ok
    THEN IF At(in, Skipped(in, r.next, how)) = stop THEN Got(r.value, Skipped(in, r.next, how) + 1)
         ELSE All(in, UpTo(in, r, n, stop, keyed, how), 2 * n, stop, keyed, how)
    ELSE Fail
Until(in, p, stop, keyed, how) == All(in, Got(<<>>, p), 1, stop, keyed, how)

\* Of several members with one name the last stays.
LastOfEach(ms) ==
  LET names == {ms[i][1] : i \in 1..Len(ms)}
  IN  [k \in names |-> ms[Max({i \in 1..Len(ms) : ms[i][1] = k})][2]]

AsArray(r) == Then(r, LAMBDA es, q : Got(Array(es), q))
AsObject(r) == Then(r, LAMBDA ms, q : Got(Object(LastOfEach(ms)), q))
-----------------------------------------------------------------------------
(* CBOR.                                                                    *)

get_cbor_array(in, p, len, how) ==
  AsArray(IF len # Unknown THEN Items(in, Got(<<>>, p), len, 0, FALSE, how)
          ELSE Until(in, p, 255, FALSE, how))

get_cbor_object(in, p, len, how) ==
  AsObject(IF len # Unknown THEN Items(in, Got(<<>>, p), len, 0, TRUE, how)
           ELSE Until(in, p, 255, TRUE, how))

CborCount(in, c, p, how) == IF c % 32 = 31 THEN Got(Unknown, p) ELSE CborSize(in, c, p, how)

CborArray(in, c, p, how) ==
  Then(CborCount(in, c, p, how), LAMBDA n, q : get_cbor_array(in, q, n, how))
CborObject(in, c, p, how) ==
  Then(CborCount(in, c, p, how), LAMBDA n, q : get_cbor_object(in, q, n, how))

\* A tag is an error, or skipped, or stored as the subtype of the byte string that
\* must follow; the tags 6 to 20 of the head itself are skipped in the last case.
CborTag(in, c, p, how) ==
  LET tag == IF c \in 216..219 THEN get_size(in, p, 2^(c - 216), how) ELSE Got(c % 32, p)
  IN  CASE how.tags = "error" -> Fail
        [] how.tags = "store" /\ c \in 216..219 ->
             Then(tag, LAMBDA n, q : CborBinary(in, At(in, q), q + 1, n, how))
        [] OTHER -> Then(tag, LAMBDA n, q : Next(in, q, how))

parse_cbor_internal(in, c, p, how) ==
  CASE c \in 0..27                          -> CborUnsigned(in, c, p, how)
    [] c \in 32..59                         -> CborNegative(in, c, p, how)
    [] c \in (64..91) \cup {95}             -> CborBinary(in, c, p, None, how)
    [] c \in (96..123) \cup {127}           -> CborText(in, c, p, how)
    [] c \in (128..155) \cup {159}          -> CborArray(in, c, p, how)
    [] c \in (160..187) \cup {191}          -> CborObject(in, c, p, how)
    [] c \in (198..212) \cup (216..219)     -> CborTag(in, c, p, how)
    [] c \in 244..246                       -> CborLiteral(c, p)
    [] c = 249                              -> CborHalf(in, p, how)
    [] c \in {250, 251}                     -> CborFloat(in, c, p, how)
    [] OTHER                                -> Fail
-----------------------------------------------------------------------------
(* MessagePack.                                                             *)

get_msgpack_array(in, p, len, how) == AsArray(Items(in, Got(<<>>, p), len, 0, FALSE, how))
get_msgpack_object(in, p, len, how) == AsObject(Items(in, Got(<<>>, p), len, 0, TRUE, how))

MsgpackFixmap(in, c, p, how) == get_msgpack_object(in, p, c % 16, how)
MsgpackFixarray(in, c, p, how) == get_msgpack_array(in, p, c % 16, how)
MsgpackArray(in, c, p, how) ==
  Then(get_size(in, p, 2 * (c - 219), how), LAMBDA n, q : get_msgpack_array(in, q, n, how))
MsgpackMap(in, c, p, how) ==
  Then(get_size(in, p, 2 * (c - 221), how), LAMBDA n, q : get_msgpack_object(in, q, n, how))

parse_msgpack_internal(in, c, p, how) ==
  CASE c \in 0..127                         -> MsgpackFixint(c, p)
    [] c \in 128..143                       -> MsgpackFixmap(in, c, p, how)
    [] c \in 144..159                       -> MsgpackFixarray(in, c, p, how)
    [] c \in (160..191) \cup (217..219)     -> MsgpackText(in, c, p, how)
    [] c \in {192, 194, 195}                -> MsgpackLiteral(c, p)
    [] c \in (196..201) \cup (212..216)     -> MsgpackBinary(in, c, p, how)
    [] c \in {202, 203}                     -> MsgpackFloat(in, c, p, how)
    [] c \in 204..207                       -> MsgpackUnsigned(in, c, p, how)
    [] c \in 208..211                       -> MsgpackSigned(in, c, p, how)
    [] c \in {220, 221}                     -> MsgpackArray(in, c, p, how)
    [] c \in {222, 223}                     -> MsgpackMap(in, c, p, how)
    [] c \in 224..255                       -> MsgpackNegative(c, p)
    [] OTHER                                -> Fail
-----------------------------------------------------------------------------
(* UBJSON and BJData.                                                       *)

Sized(size, dims) == [size |-> size, dims |-> dims]

\* The dimensions of an array: as many as counted, of a type or each of its own,
\* or up to the end of the list.
RECURSIVE Dimensions(_, _, _, _, _), DimensionsUntil(_, _, _, _)
Dimensions(in, p, n, type, how) ==
  CASE n = 0 -> Got(<<>>, p)
    [] n = 1 -> Then(get_ubjson_size_value(in, p, type, TRUE, how), LAMBDA s, q : Got(<<s.size>>, q))
    [] OTHER ->
         Then(Dimensions(in, p, n \div 2, type, how),
              LAMBDA ds, q : Then(Dimensions(in, q, n - (n \div 2), type, how),
                                  LAMBDA rest, r : Got(ds \o rest, r)))
DimensionsUntil(in, c, p, how) ==
  IF c = Mark.end_array THEN Got(<<>>, p)
  ELSE Then(get_ubjson_size_value(in, p, c, TRUE, how),
            LAMBDA s, q : LET n == get_ignore_noop(in, q)
                          IN  Then(DimensionsUntil(in, At(in, n), n + 1, how),
                                   LAMBDA rest, r : Got(<<s.size>> \o rest, r)))

get_ubjson_ndarray_size(in, p, how) ==
  Then(get_ubjson_size_type(in, p, TRUE, how),
       LAMBDA st, q : CASE st.size = Unknown -> DimensionsUntil(in, st.c, q, how)
                        [] st.size # Unknown /\ st.type = Mark.N -> Got(<<>>, q)
                        [] OTHER -> Dimensions(in, q, st.size, st.type, how))

\* The size that dimensions amount to: one row counts as a plain array, a
\* dimension of 0 makes it empty, and only the others are annotated.
DimensionsSize(dims, p) ==
  LET times(k, d) == IF k > Huge \div d THEN Huge ELSE k * d
      n == Len(dims)
      product == FoldLeft(times, 1, dims)
  IN  CASE n = 1 \/ (n = 2 /\ dims[1] = 1)     -> Got(Sized(dims[n], <<>>), p)
        [] n # 1 /\ 0 \in ToSet(dims)          -> Got(Sized(0, <<>>), p)
        [] n = 0                               -> Got(Sized(0, <<>>), p)
        [] OTHER -> IF product >= Huge THEN Fail ELSE Got(Sized(product, dims), p)

\* Without a prefix (0) the next byte is one.  Dimensions have no dimensions.
get_ubjson_size_value(in, p, prefix, is_ndarray, how) ==
  LET n == get_ignore_noop(in, p)
      c == IF prefix = 0 THEN At(in, n) ELSE prefix
      q == IF prefix = 0 THEN n + 1 ELSE p
  IN  CASE c \in DOMAIN Widths(how) ->
             Then(UbjsonSize(in, c, q, how),
                  LAMBDA size, r : IF size < 0 THEN Fail ELSE Got(Sized(size, <<>>), r))
        [] c = Mark.array /\ Bjdata(how) /\ ~is_ndarray ->
             Then(get_ubjson_ndarray_size(in, q, how), DimensionsSize)
        [] OTHER -> Fail

bjd_optimized_type_markers ==
  {Mark.F, Mark.H, Mark.N, Mark.S, Mark.T, Mark.Z, Mark.array, Mark.object}

\* An optional type and an optional count; c is the byte got last.
get_ubjson_size_type(in, p, inside_ndarray, how) ==
  LET n == get_ignore_noop(in, p)
      type == At(in, n + 1)
      hash == get_ignore_noop(in, n + 2)
      result(s, t, dims) == [size |-> s, type |-> t, dims |-> dims, c |-> At(in, n)]
  IN  CASE At(in, n) = Mark.type ->
             IF \/ Bjdata(how) /\ type \in bjd_optimized_type_markers
                \/ type = Eof \/ At(in, hash) # Mark.count
               THEN Fail
               ELSE Then(get_ubjson_size_value(in, hash + 1, 0, FALSE, how),
                         LAMBDA s, q : IF inside_ndarray /\ s.dims # <<>> THEN Fail
                                       ELSE Got(result(s.size, type, s.dims), q))
        [] At(in, n) = Mark.count ->
             Then(get_ubjson_size_value(in, n + 1, 0, FALSE, how),
                  LAMBDA s, q : IF s.dims # <<>> THEN Fail ELSE Got(result(s.size, 0, <<>>), q))
        [] OTHER -> Got(result(Unknown, 0, <<>>), n + 1)

\* An array with dimensions becomes an annotated object; its bytes are numbers.
AnnotatedArray(in, p, st, how) ==
  IF st.type \notin DOMAIN TypeName THEN Fail
  ELSE Then(Items(in, Got(<<>>, p), st.size, IF st.type \in {Mark.C, Mark.B} THEN Mark.U ELSE st.type, FALSE, how),
            LAMBDA es, q :
              Got(Object((ArraySize :> Array([i \in 1..Len(st.dims) |-> Unsigned(WordOf(st.dims[i]))]))
                         @@ (ArrayType :> Text(TypeName[st.type])) @@ (ArrayData :> Array(es))), q))

get_ubjson_array(in, p, how) ==
  Then(get_ubjson_size_type(in, p, FALSE, how),
       LAMBDA st, q :
         CASE st.dims # <<>> -> AnnotatedArray(in, q, st, how)
           [] st.dims = <<>> /\ st.size = Unknown -> AsArray(Until(in, q - 1, Mark.end_array, FALSE, how))
           [] OTHER ->
                CASE Bjdata(how) /\ st.type = Mark.B ->
                       Then(get_binary(in, q, st.size), LAMBDA b, r : Got(Binary(b, None), r))
                  [] st.type = Mark.N -> Got(Array(<<>>), q)
                  [] OTHER -> AsArray(Items(in, Got(<<>>, q), st.size, st.type, FALSE, how)))

get_ubjson_object(in, p, how) ==
  Then(get_ubjson_size_type(in, p, FALSE, how),
       LAMBDA st, q :
         CASE st.dims # <<>> -> Fail
           [] st.dims = <<>> /\ st.size = Unknown ->
                AsObject(Until(in, q - 1, Mark.end_object, TRUE, how))
           [] OTHER -> AsObject(Items(in, Got(<<>>, q), st.size, st.type, TRUE, how)))

get_ubjson_high_precision_number(in, p, how) ==
  Then(get_ubjson_size_value(in, p, 0, TRUE, how),
       LAMBDA s, q : Then(get_string(in, q, s.size),
         LAMBDA text, r : IF NumberText(text) = {} THEN Fail
                          ELSE Got(CHOOSE v \in NumberText(text) : TRUE, r)))

get_ubjson_value(in, c, p, how) ==
  CASE c = Mark.T -> Got(Boolean(TRUE), p)
    [] c = Mark.F -> Got(Boolean(FALSE), p)
    [] c = Mark.Z -> Got(Null, p)
    [] c = Mark.B /\ Bjdata(how) -> get_unsigned(in, p, 1, how)
    [] c \in DOMAIN Widths(how)  -> UbjsonInteger(in, c, p, how)
    [] c = Mark.h /\ Bjdata(how) -> get_half(in, p, how)
    [] c = Mark.d -> get_single(in, p, how)
    [] c = Mark.D -> get_double(in, p, how)
    [] c = Mark.H -> get_ubjson_high_precision_number(in, p, how)
    [] c = Mark.C -> UbjsonChar(in, p)
    [] c = Mark.S -> UbjsonText(in, p, how)
    [] c = Mark.array  -> get_ubjson_array(in, p, how)
    [] c = Mark.object -> get_ubjson_object(in, p, how)
    [] OTHER -> Fail
-----------------------------------------------------------------------------
(* BSON.  The size of a document is read and not used.                      *)

\* A length of 4 bytes that is signed; -1 stands for the negative ones.
BsonLength(in, p, how) ==
  Then(get_number(in, p, 4, how),
       LAMBDA b, q : Got(IF b[1] >= 128 THEN -1 ELSE SizeOf(ZeroExtend(b)), q))

\* The byte after the characters is not looked at.
get_bson_string(in, p, len) ==
  IF len < 1 THEN Fail
  ELSE Then(get_string(in, p, len - 1),
            LAMBDA s, q : IF At(in, q) = Eof THEN Fail ELSE Got(Text(s), q + 1))

get_bson_binary(in, p, len, how) ==
  IF len < 0 THEN Fail
  ELSE Then(get_size(in, p, 1, how),
            LAMBDA subtype, q : Then(get_binary(in, q, len),
              LAMBDA b, r : Got(Binary(b, subtype), r)))

\* The names and the values up to a byte 0; an array drops the names.
parse_bson_element_list(in, p, how) == Until(in, p, 0, TRUE, how)

parse_bson_internal(in, p, how) ==
  Then(get_number(in, p, 4, how),
       LAMBDA size, q : AsObject(parse_bson_element_list(in, q, how)))

parse_bson_array(in, p, how) ==
  Then(get_number(in, p, 4, how),
       LAMBDA size, q : Then(parse_bson_element_list(in, q, how),
         LAMBDA ms, r : Got(Array([i \in 1..Len(ms) |-> ms[i][2]]), r)))

parse_bson_element_internal(in, element_type, p, how) ==
  CASE element_type = 1  -> get_double(in, p, how)
    [] element_type = 2  -> Then(BsonLength(in, p, how), LAMBDA n, q : get_bson_string(in, q, n))
    [] element_type = 3  -> parse_bson_internal(in, p, how)
    [] element_type = 4  -> parse_bson_array(in, p, how)
    [] element_type = 5  -> Then(BsonLength(in, p, how), LAMBDA n, q : get_bson_binary(in, q, n, how))
    [] element_type = 8  -> Got(Boolean(At(in, p) # 0), p + 1)
    [] element_type = 10 -> Got(Null, p)
    [] element_type = 16 -> get_signed(in, p, 4, how)
    [] element_type = 17 -> get_unsigned(in, p, 8, how)
    [] element_type = 18 -> get_signed(in, p, 8, how)
    [] OTHER             -> Fail
-----------------------------------------------------------------------------
Value(in, c, p, how) ==
  CASE how.format = "cbor"    -> parse_cbor_internal(in, c, p, how)
    [] how.format = "msgpack" -> parse_msgpack_internal(in, c, p, how)
    [] OTHER                  -> get_ubjson_value(in, c, p, how)

\* A value and then the end of the input.
sax_parse(in, how) ==
  LET r == IF how.format = "bson" THEN parse_bson_internal(in, 1, how) ELSE Next(in, 1, how)
  IN  Then(r, LAMBDA v, p : IF At(in, Skipped(in, p, how)) # Eof THEN Fail ELSE Got(v, p))

=============================================================================

------------------------------ MODULE JsonText -------------------------------
(***************************************************************************)
(* JSON text as the programs read and write it: json::parse of a string    *)
(* and dump, from the bundled json.hpp with the options the programs use   *)
(* (no callback, no comments, no trailing commas, strict errors, no        *)
(* ensure_ascii).  A text is a sequence of bytes.  Floating-point numbers  *)
(* are kept as their text: of strtod there is only whether its result is   *)
(* finite, and the printing of doubles is left out.                        *)
(***************************************************************************)
EXTENDS Integers, Sequences, SequencesExt, FiniteSetsExt, Loops

CONSTANT WordBits    \* the width of the integers, 64 in the code

Nothing == -1        \* eof()
Quote == 34
Backslash == 92
Digit == 48..57

\* Values of basic_json.
Null == [type |-> "null"]
Boolean(b) == [type |-> "boolean", is |-> b]
Integer(n) == [type |-> "integer", number |-> n]
Float(text) == [type |-> "float", text |-> text]
Text(bytes) == [type |-> "string", bytes |-> bytes]
Array(elems) == [type |-> "array", elems |-> elems]
Object(members) == [type |-> "object", members |-> members]

At(text, i) == IF i <= Len(text) THEN text[i] ELSE Nothing

\* The order of texts, byte by byte, in which std::map keeps its keys.
Before(s, t) ==
  \/ Len(s) < Len(t) /\ s = SubSeq(t, 1, Len(s))
  \/ \E i \in 1..Len(s) :
       i <= Len(t) /\ s[i] < t[i] /\ SubSeq(s, 1, i - 1) = SubSeq(t, 1, i - 1)

\* A token: its type, the value it stands for and where the next one starts.
Token(type, value, next) == [type |-> type, value |-> value, next |-> next]
Structural(type, next) == Token(type, Null, next)
ParseError == Structural("parse_error", 0)
-----------------------------------------------------------------------------
(* Strings.                                                                 *)

\* A character of a string: its bytes and the place after it.
Char(bytes, next) == [bytes |-> bytes, next |-> next]
BadChar == Char(<<>>, 0)

Hex(c) ==
  CASE c \in Digit   -> c - 48
    [] c \in 65..70  -> c - 55
    [] c \in 97..102 -> c - 87
    [] OTHER         -> -1

\* The 4 digits from place i on.
get_codepoint(text, i) ==
  LET d == [k \in 0..3 |-> Hex(At(text, i + k))]
  IN  IF \E k \in 0..3 : d[k] = -1 THEN -1
      ELSE d[0] * 4096 + d[1] * 256 + d[2] * 16 + d[3]

Utf8(c) ==
  LET low(shift) == 128 + ((c \div 2^shift) % 64)
  IN  CASE c < 128              -> <<c>>
        [] c \in 128..2047      -> <<192 + c \div 64, low(0)>>
        [] c \in 2048..65535    -> <<224 + c \div 4096, low(6), low(0)>>
        [] OTHER                -> <<240 + c \div 2^18, low(12), low(6), low(0)>>

High == 55296..56319    \* 0xD800..0xDBFF
Low == 56320..57343     \* 0xDC00..0xDFFF

\* Mutant: a low surrogate may stand alone.
UnicodeLone(text, i) ==
  LET first == get_codepoint(text, i)
  IN  IF first = -1 \/ first \in High THEN BadChar ELSE Char(Utf8(first), i + 4)

\* \u, place i being the first digit: a high surrogate needs a low one after it.
Unicode(text, i) ==
  LET first == get_codepoint(text, i)
      second == IF At(text, i + 4) = Backslash /\ At(text, i + 5) = 117
                  THEN get_codepoint(text, i + 6) ELSE -1
  IN  CASE first = -1 \/ first \in Low       -> BadChar
        [] first \in High /\ second \in Low  ->
             Char(Utf8(first * 1024 + second - 56613888), i + 10)    \* 0x35FDC00
        [] first \in High /\ second \notin Low -> BadChar
        [] OTHER                             -> Char(Utf8(first), i + 4)

\* The characters after a backslash and the bytes that they stand for.
Plain == {Quote, Backslash, 47}
Short == << <<98, 8>>, <<102, 12>>, <<110, 10>>, <<114, 13>>, <<116, 9>> >>

Escape(text, i) ==
  LET c == At(text, i)
      short == SelectSeq(Short, LAMBDA e : e[1] = c)
  IN  CASE c \in Plain  -> Char(<<c>>, i + 1)
        [] c = 117      -> Unicode(text, i + 1)
        [] short # <<>> -> Char(<<short[1][2]>>, i + 1)
        [] OTHER        -> BadChar

\* The ranges of the bytes that must follow a lead byte.
Follows(lead) ==
  CASE lead \in 194..223                      -> << 128..191 >>
    [] lead = 224                             -> << 160..191, 128..191 >>
    [] lead \in (225..236) \cup (238..239)    -> << 128..191, 128..191 >>
    [] lead = 237                             -> << 128..159, 128..191 >>
    [] lead = 240                             -> << 144..191, 128..191, 128..191 >>
    [] lead \in 241..243                      -> << 128..191, 128..191, 128..191 >>
    [] lead = 244                             -> << 128..143, 128..191, 128..191 >>

next_byte_in_range(text, i, ranges) ==
  LET n == Len(ranges)
  IN  IF \A k \in 1..n : At(text, i + k) \in ranges[k]
        THEN Char([k \in 1..(n + 1) |-> text[i + k - 1]], i + n + 1)
        ELSE BadChar

Control == 0..31
Unescaped == (32..127) \ {Quote, Backslash}
Lead == 194..244

\* Bytes that start no character, and the end of the input, end the string too.
CharAt(text, i) ==
  LET c == At(text, i)
  IN  CASE c = Backslash    -> Escape(text, i + 1)
        [] c \in Control    -> BadChar
        [] c \in Unescaped  -> Char(<<c>>, i + 1)
        [] c \in Lead       -> next_byte_in_range(text, i, Follows(c))
        [] OTHER            -> BadChar

RECURSIVE scan_string(_, _)
scan_string(text, i) ==
  IF At(text, i) = Quote THEN Token("string", Text(<<>>), i + 1)
  ELSE LET c == CharAt(text, i)
           rest == scan_string(text, c.next)
       IN  IF c.next = 0 \/ rest.next = 0 THEN ParseError
           ELSE [rest EXCEPT !.value.bytes = c.bytes \o @]
-----------------------------------------------------------------------------
(* Numbers: the gotos of scan_number.                                       *)

Exp == {69, 101}

\* Per label, the characters that are read there and where each leads.
IntegerMoves ==
  [init     |-> << <<{45}, "minus">>, <<{48}, "zero">>, <<49..57, "any1">> >>,
   minus    |-> << <<{48}, "zero">>, <<49..57, "any1">> >>,
   zero     |-> << <<{46}, "decimal1">>, <<Exp, "exponent">> >>,
   any1     |-> << <<Digit, "any1">>, <<{46}, "decimal1">>, <<Exp, "exponent">> >>]

FractionMoves ==
  [decimal1 |-> << <<Digit, "decimal2">> >>,
   decimal2 |-> << <<Digit, "decimal2">>, <<Exp, "exponent">> >>,
   exponent |-> << <<{43, 45}, "sign">>, <<Digit, "any2">> >>,
   sign     |-> << <<Digit, "any2">> >>,
   any2     |-> << <<Digit, "any2">> >>]

Moves == IntegerMoves @@ FractionMoves

Done == {"zero", "any1", "decimal2", "any2"}

\* strtoull and strtoll; what is out of range becomes a float.
Converted(chars) ==
  LET negative == chars[1] = 45
      step(v, c) == IF v > 2^WordBits THEN v ELSE 10 * v + (c - 48)
      n == Through(step, 0, IF negative THEN Tail(chars) ELSE chars, Nat)
  IN  CASE negative /\ n <= 2^(WordBits - 1) -> Integer(-n)
        [] ~negative /\ n < 2^WordBits       -> Integer(n)
        [] OTHER                             -> Float(chars)

\* What strtod rounds to infinity is the largest double and half a unit or more,
\* 0.17976931348623158079... * 10^309, of which these are the first 20 digits: enough
\* for numbers of at most 20 digits.
TooLarge == <<49, 55, 57, 55, 54, 57, 51, 49, 51, 52, 56, 54, 50, 51, 49, 53, 56, 48, 55, 57>>

\* isfinite of the float that is 0.d * 10^power, d its digits without leading zeros.
IsFinite(chars) ==
  LET e == Min({i \in 1..Len(chars) : chars[i] \in Exp} \cup {Len(chars) + 1})
      point == Min({i \in 1..(e - 1) : chars[i] = 46} \cup {e})
      nonzero == {i \in 1..(e - 1) : chars[i] \in 49..57}
      first == Min(nonzero)
      d == SelectSeq(SubSeq(chars, first, e - 1), LAMBDA c : c \in Digit)
      exponent == SubSeq(chars, e + 1, Len(chars))
      step(v, c) == IF v > 10000 THEN v ELSE 10 * v + (c - 48)
      size == Through(step, 0, SelectSeq(exponent, LAMBDA c : c \in Digit), Nat)
      power == (IF first < point THEN point - first ELSE point - first + 1)
               + (IF exponent # <<>> /\ exponent[1] = 45 THEN -size ELSE size)
  IN  nonzero = {} \/ power < 309 \/ (power = 309 /\ ~Before(TooLarge, d))

\* From a label and place i on: the label that no character leads on from, and its
\* place.
RECURSIVE NumberEnd(_, _, _)
NumberEnd(text, i, label) ==
  LET move == SelectSeq(Moves[label], LAMBDA m : At(text, i) \in m[1])
  IN  IF move = <<>> THEN [label |-> label, next |-> i] ELSE NumberEnd(text, i + 1, move[1][2])

scan_number(text, i) ==
  LET at == NumberEnd(text, i, "init")
      chars == SubSeq(text, i, at.next - 1)
  IN  CASE at.label \notin Done               -> ParseError
        [] at.label \in {"decimal2", "any2"}  -> Token("value", Float(chars), at.next)
        [] OTHER                               -> Token("value", Converted(chars), at.next)
-----------------------------------------------------------------------------
(* The scanner.                                                             *)

WhiteSpace == {32, 9, 10, 13}

scan_literal(text, i, literal, value) ==
  IF SubSeq(text, i, i + Len(literal) - 1) = literal
    THEN Token("value", value, i + Len(literal))
    ELSE ParseError

RECURSIVE scan(_, _)
scan(text, i) ==
  LET c == At(text, i)
  IN  CASE c \in WhiteSpace -> scan(text, i + 1)
        [] c = 91           -> Structural("begin_array", i + 1)
        [] c = 93           -> Structural("end_array", i + 1)
        [] c = 123          -> Structural("begin_object", i + 1)
        [] c = 125          -> Structural("end_object", i + 1)
        [] c = 58           -> Structural("name_separator", i + 1)
        [] c = 44           -> Structural("value_separator", i + 1)
        [] c = 116          -> scan_literal(text, i, <<116, 114, 117, 101>>, Boolean(TRUE))
        [] c = 102          -> scan_literal(text, i, <<102, 97, 108, 115, 101>>, Boolean(FALSE))
        [] c = 110          -> scan_literal(text, i, <<110, 117, 108, 108>>, Null)
        [] c = Quote        -> scan_string(text, i + 1)
        [] c = 45 \/ c \in Digit -> scan_number(text, i)
        [] c \in {0, Nothing}    -> Structural("end_of_input", 0)
        [] OTHER                 -> ParseError

\* Where the first token may start: after a whole byte order mark, if there is one.
skip_bom(text) ==
  CASE At(text, 1) # 239                       -> 1
    [] SubSeq(text, 1, 3) = <<239, 187, 191>>  -> 4
    [] OTHER                                   -> 0

RECURSIVE Tokens(_, _)
Tokens(text, i) ==
  LET t == scan(text, i)
  IN  <<t>> \o (IF t.next = 0 THEN <<>> ELSE Tokens(text, t.next))
-----------------------------------------------------------------------------
(* The parser and the document it builds.  A place in the document is the   *)
(* path to it: the keys and the indices on the way.                         *)

RECURSIVE Get(_, _)
Get(v, path) ==
  IF Len(path) = 0 THEN v
  ELSE Get(IF v.type = "array" THEN v.elems[Head(path)] ELSE v.members[Head(path)], Tail(path))

RECURSIVE Put(_, _, _)
Put(v, path, w) ==
  CASE Len(path) = 0 -> w
    [] Len(path) > 0 /\ v.type = "array" ->
         [v EXCEPT !.elems[Head(path)] = Put(@, Tail(path), w)]
    [] Len(path) > 0 /\ v.type = "object" ->
         [v EXCEPT !.members[Head(path)] = Put(@, Tail(path), w)]

\* A key joins the object on top of ref_stack, unless it is there already.
key(p, name) ==
  LET object == Get(p.root, Last(p.refs))
      members == object.members
      added == [k \in DOMAIN members \cup {name} |-> IF k \in DOMAIN members THEN members[k] ELSE Null]
  IN  [p EXCEPT !.root = Put(@, Last(p.refs), Object(added)),
                !.element = Append(Last(p.refs), name)]

\* handle_value: the value becomes the document, the next element of the array
\* or the member of the key read last.
Place(p) ==
  CASE p.refs = <<>> -> <<>>
    [] p.refs # <<>> /\ Get(p.root, Last(p.refs)).type = "array" ->
         Append(Last(p.refs), Len(Get(p.root, Last(p.refs)).elems) + 1)
    [] OTHER -> p.element

handle_value(p, v) ==
  IF p.refs # <<>> /\ Get(p.root, Last(p.refs)).type = "array"
    THEN [p EXCEPT !.root =
            Put(@, Last(p.refs), Array(Append(Get(@, Last(p.refs)).elems, v)))]
    ELSE [p EXCEPT !.root = Put(@, Place(p), v)]

start(p, v) == [handle_value(p, v) EXCEPT !.refs = Append(@, Place(p))]
end(p) == [p EXCEPT !.refs = Front(@)]

\* What the parser expects next; its stack of states says of every structure
\* that is not finished whether it is an array.
Start == [at |-> "value", states |-> <<>>, root |-> Null, refs |-> <<>>, element |-> <<>>]
To(p, at) == [p EXCEPT !.at = at]
Entered(p, isArray) == [p EXCEPT !.states = Append(@, isArray)]
Left(p) == [end(p) EXCEPT !.states = Front(@)]
Rejected(p) == To(p, "error")

\* A float that is not finite is refused like what is no value: out_of_range.
OnValue(p, t) ==
  LET infinite == t.value.type = "float" /\ ~IsFinite(t.value.text)
  IN  CASE t.type = "begin_object" -> To(start(p, Object(<<>>)), "first_key")
        [] t.type = "begin_array"  -> To(start(p, Array(<<>>)), "first_element")
        [] t.type \in {"value", "string"} /\ ~infinite -> To(handle_value(p, t.value), "next")
        [] OTHER                   -> Rejected(p)

OnKey(p, t) ==
  IF t.type = "string" THEN To(key(p, t.value.bytes), "colon") ELSE Rejected(p)

\* After a value: nothing more at the top (parse is strict), else a comma or
\* the end of the structure.
OnNext(p, t) ==
  CASE p.states = <<>> -> To(p, IF t.type = "end_of_input" THEN "done" ELSE "error")
    [] p.states # <<>> /\ Last(p.states) ->
         (CASE t.type = "value_separator" -> To(p, "value")
            [] t.type = "end_array"       -> Left(p)
            [] OTHER                      -> Rejected(p))
    [] OTHER ->
         (CASE t.type = "value_separator" -> To(p, "key")
            [] t.type = "end_object"      -> Left(p)
            [] OTHER                      -> Rejected(p))

sax_parse_internal(p, t) ==
  CASE p.at = "value" -> OnValue(p, t)
    [] p.at = "first_element" ->
         IF t.type = "end_array" THEN To(end(p), "next") ELSE OnValue(Entered(p, TRUE), t)
    [] p.at = "first_key" ->
         IF t.type = "end_object" THEN To(end(p), "next") ELSE OnKey(Entered(p, FALSE), t)
    [] p.at = "key"   -> OnKey(p, t)
    [] p.at = "colon" -> IF t.type = "name_separator" THEN To(p, "value") ELSE Rejected(p)
    [] p.at = "next"  -> OnNext(p, t)
    [] OTHER          -> p

parse(text) ==
  LET from == skip_bom(text)
      p == FoldLeft(sax_parse_internal, Start, Tokens(text, from))
  IN  IF from > 0 /\ p.at = "done" THEN [ok |-> TRUE, value |-> p.root]
      ELSE [ok |-> FALSE, value |-> Null]
-----------------------------------------------------------------------------
(* The serializer.                                                          *)

ACCEPT == 0
REJECT == 1

\* The class of a byte, the upper half of utf8d.
ByteClass(b) ==
  CASE b \in 0..127 -> 0   [] b \in 128..143 -> 1  [] b \in 144..159 -> 9
    [] b \in 160..191 -> 7 [] b \in 192..193 -> 8  [] b \in 194..223 -> 2
    [] b = 224 -> 10       [] b = 237 -> 4         [] b \in (225..239) \ {237} -> 3
    [] b = 240 -> 11       [] b \in 241..243 -> 6  [] b = 244 -> 5
    [] b \in 245..255 -> 8

\* Its lower half: from the start state by class, and per state 2..8 the classes
\* that lead on, and where.
First == <<0, 1, 2, 3, 5, 8, 7, 1, 1, 1, 4, 6>>
Onward ==
  << <<{1, 7, 9}, 0>>, <<{1, 7, 9}, 2>>, <<{7}, 2>>, <<{1, 9}, 2>>,
     <<{7, 9}, 3>>, <<{1, 7, 9}, 3>>, <<{1}, 3>> >>

decode(state, byte) ==
  CASE state = ACCEPT -> First[ByteClass(byte) + 1]
    [] state = REJECT -> REJECT
    [] OTHER -> IF ByteClass(byte) \in Onward[state - 1][1] THEN Onward[state - 1][2] ELSE REJECT

HexChar(d) == IF d < 10 THEN 48 + d ELSE 87 + d

\* Mutant: the backslash itself is not escaped.
EscapedQuotesOnly(b) ==
  LET short == SelectSeq(Short, LAMBDA e : e[2] = b)
  IN  CASE b = Quote      -> <<Backslash, b>>
        [] short # <<>>   -> <<Backslash, short[1][1]>>
        [] b < 32 /\ short = <<>> -> <<Backslash, 117, 48, 48, HexChar(b \div 16), HexChar(b % 16)>>
        [] OTHER          -> <<b>>

\* A character of one byte.  Those of several bytes are above 0x7F: copied.
Escaped(b) ==
  LET short == SelectSeq(Short, LAMBDA e : e[2] = b)
  IN  CASE b \in {Quote, Backslash} -> <<Backslash, b>>
        [] short # <<>>             -> <<Backslash, short[1][1]>>
        [] b < 32 /\ short = <<>>   -> <<Backslash, 117, 48, 48, HexChar(b \div 16), HexChar(b % 16)>>
        [] OTHER                    -> <<b>>

\* No byte was rejected, and the last character is complete.
Accepted(s) ==
  LET state[i \in 0..Len(s)] == IF i = 0 THEN ACCEPT ELSE decode(state[i - 1], s[i])
  IN  state[Len(s)] = ACCEPT

\* What is written, and whether it is written at all: ill-formed text throws.
dump_escaped(s) ==
  [ok |-> Accepted(s), out |-> FlattenSeq([i \in 1..Len(s) |-> Escaped(s[i])])]

Quoted(s) == <<Quote>> \o dump_escaped(s).out \o <<Quote>>

count_digits(n) == CHOOSE d \in 1..10 : n < 10^d /\ (d = 1 \/ n >= 10^(d - 1))

dump_integer(n) ==
  LET abs == IF n < 0 THEN -n ELSE n
      d == count_digits(abs)
  IN  (IF n < 0 THEN <<45>> ELSE <<>>) \o [i \in 1..d |-> 48 + ((abs \div 10^(d - i)) % 10)]

Keys(members) == SetToSortSeq(DOMAIN members, Before)

\* step is 0 for dump() and the indentation for dump(step); at is where the
\* brackets of this value stand.
Line(step, at) == IF step = 0 THEN <<>> ELSE <<10>> \o [i \in 1..at |-> 32]

Scalar(v) ==
  CASE v.type = "null"    -> <<110, 117, 108, 108>>
    [] v.type = "boolean" -> IF v.is THEN <<116, 114, 117, 101>> ELSE <<102, 97, 108, 115, 101>>
    [] v.type = "integer" -> dump_integer(v.number)

RECURSIVE dump(_, _, _)
dump(v, step, at) ==
  LET list(open, items, close) ==
        IF items = <<>> THEN <<open, close>>
        ELSE <<open>>
             \o FlattenSeq([i \in 1..Len(items) |->
                  (IF i = 1 THEN <<>> ELSE <<44>>) \o Line(step, at + step) \o items[i]])
             \o Line(step, at) \o <<close>>
      colon == IF step = 0 THEN <<58>> ELSE <<58, 32>>
  IN  CASE v.type = "string" -> Quoted(v.bytes)
        [] v.type = "array"  ->
             list(91, [i \in 1..Len(v.elems) |-> dump(v.elems[i], step, at + step)], 93)
        [] v.type = "object" ->
             list(123, [i \in 1..Len(Keys(v.members)) |->
                          Quoted(Keys(v.members)[i]) \o colon
                          \o dump(v.members[Keys(v.members)[i]], step, at + step)], 125)
        [] OTHER -> Scalar(v)

=============================================================================

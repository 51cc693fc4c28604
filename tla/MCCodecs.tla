------------------------------ MODULE MCCodecs -------------------------------
(* Codecs for TLC: the symbols and the lengths of the inputs.               *)
EXTENDS Codecs

\* Blocks of a secret: one character differs from the others.
Blocks == {[i \in 1..8 |-> IF i = p THEN x ELSE y] : p \in 1..8, x \in {4, 31}, y \in {0, 10}}

Words == {"[", "]", "{", "}", ",", ":", "a", "b", "null", "end"}

-----------------------------------------------------------------------------
(* Values for the binary formats: the numbers on both sides of every width, *)
(* lengths likewise, floats that have fewer bytes and floats that do not.   *)

F == INSTANCE BinaryData

U(n) == F!Unsigned(F!WordOf(n))
Minus(n) == F!Integer(F!Complement(F!WordOf(n - 1)))
High(b, n) == F!Fill(255, 8 - n) \o F!Fill(b, 1) \o F!Fill(0, n - 1)

Naturals64 ==
  {U(n) : n \in {0, 23, 24, 127, 128, 255, 256, 32767, 32768, 65535, 65536}}
  \cup {F!Unsigned(F!Fill(0, 8 - n) \o F!Fill(b, 1) \o F!Fill(c, n - 1)) :
          n \in {4, 8}, b \in {127, 128, 255}, c \in {0, 255}}
Integers64 ==
  {F!Integer(F!WordOf(200))}
  \cup {Minus(n) : n \in {1, 24, 25, 32, 33, 128, 129, 256, 257, 32768, 32769, 65536, 65537}}
  \cup {F!Integer(High(b, n)) : b \in {127, 128}, n \in {4, 8}}
Tenth == F!Float(<<63, 185, 153, 153, 153, 153, 153, 154>>)
Floats64 ==
  {Tenth} \cup {F!Float(F!Infinite(1)), F!Float(F!QuietNaN(0))}
  \cup {F!Float(F!Ldexp(x[1], x[2], x[3])) :
          x \in {<<0, 0, 0>>, <<1, 0, 0>>, <<0, 1, 0>>, <<1, 1, 1>>, <<1, 3, -2>>, <<0, 2047, 5>>,
                 <<0, 1, -24>>, <<1, 1023, -24>>, <<0, 1, -149>>, <<0, 1, -150>>, <<0, 5, -149>>,
                 <<0, 2^23 + 1, -150>>, <<0, 2^24 - 1, 104>>, <<0, 1, 128>>}}
Bytes == {F!Text(<<>>), F!Text(<<65>>), F!Text(<<0, 200>>), F!Binary(<<>>, F!None), F!Binary(<<1, 255>>, F!None)}
Subtyped == {F!Binary(<<7>>, 0), F!Binary(<<7, 8, 9>>, 200), F!Binary(<<0, 1, 2, 3, 4, 5, 6, 7>>, 5),
             F!Binary(<<7>>, 300), F!Binary(<<7, 8, 9>>, 70000)}
Lengthy ==
  {F!Text(F!Fill(65, n)) : n \in {23, 24, 31, 32, 127, 128, 255, 256}}
  \cup {F!Binary(F!Fill(3, n), F!None) : n \in {23, 24, 255, 256}}
  \cup {F!Array([i \in 1..n |-> U(i)]) : n \in {15, 16, 23, 24, 256}}
  \cup {F!Object([k \in {<<i>> : i \in 1..n} |-> F!Null]) : n \in {15, 16, 24}}
Containers ==
  {F!Array(<<>>), F!Object(<<>>), F!Array(<<F!Boolean(TRUE), F!Boolean(TRUE)>>), F!Array(<<F!Null>>),
   F!Array(<<F!Array(<<F!Text(<<65>>)>>), F!Array(<<>>)>>), F!Object(<<0, 97>> :> F!Null),
   F!Object((<<97>> :> U(1)) @@ (<<97, 98>> :> Minus(3))), F!Object(<<>> :> F!Text(<<66>>))}

\* Arrays of more than one dimension as BJData annotates them: all the types of
\* elements, one row, no element, and a size that is not that of the data.
Annotated(type, sizes, data) ==
  F!Object((F!ArrayType :> F!Text(F!TypeName[type]))
           @@ (F!ArraySize :> F!Array([i \in 1..Len(sizes) |-> U(sizes[i])]))
           @@ (F!ArrayData :> F!Array(data)))
Matrices ==
  LET m == F!Mark
  IN  {Annotated(m.i, <<2, 2>>, <<U(1), Minus(1), U(127), Minus(128)>>), Annotated(m.u, <<2>>, <<U(1), U(65535)>>),
       Annotated(m.I, <<1, 2>>, <<U(1), Minus(2)>>), Annotated(m.U, <<0, 2>>, <<>>),
       Annotated(m.U, <<2, 2>>, <<U(1)>>), Annotated(m.D, <<2, 1>>, <<Tenth, F!Float(F!Ldexp(0, 1, 0))>>),
       Annotated(m.d, <<2, 1>>, <<F!Float(F!Ldexp(0, 1, 0)), F!Float(F!Ldexp(1, 3, 5))>>),
       Annotated(m.B, <<2, 1>>, <<U(1), U(200)>>), Annotated(m.C, <<2, 1, 1>>, <<U(65), U(200)>>),
       Annotated(m.M, <<2, 1>>, <<F!Unsigned(F!Fill(255, 8)), U(2)>>),
       Annotated(m.l, <<1, 2>>, <<Minus(5), U(2)>>), Annotated(m.L, <<3, 1>>, <<Minus(5), U(2), U(0)>>)}


\* Documents: of 11 elements, with the names that pointers must escape.
J == INSTANCE JsonText WITH WordBits <- 8
Ones(n) == [i \in 1..n |-> J!Integer(i)]
Documents ==
  {J!Null, J!Boolean(TRUE), J!Text(<<47>>), J!Array(<<>>), J!Object(<<>>), J!Array(Ones(1)), J!Array(Ones(3)),
   J!Array(Ones(11)), J!Array(<<J!Null, J!Array(Ones(2))>>), J!Array(<<J!Array(Ones(1)), J!Array(<<>>)>>),
   J!Object(<<97>> :> J!Integer(1)), J!Object(<<97>> :> J!Null), J!Object(<<48>> :> J!Integer(1)),
   J!Object((<<97>> :> J!Integer(2)) @@ (<<98>> :> J!Array(Ones(2)))),
   J!Object(<<97>> :> J!Object((<<98>> :> J!Integer(1)) @@ (<<99>> :> J!Null))),
   J!Object((<<47>> :> J!Integer(1)) @@ (<<126>> :> J!Array(Ones(1))) @@ (<<126, 49>> :> J!Object(<<45>> :> J!Null))),
   J!Object((<<>> :> J!Array(Ones(2))) @@ (<<45>> :> J!Array(<<J!Object(<<47>> :> J!Null)>>))),
   J!Array(<<J!Object(<<97>> :> J!Integer(1)), J!Object((<<97>> :> J!Integer(2)) @@ (<<126>> :> J!Null))>>)}

Literals == {F!Null, F!Boolean(TRUE), F!Boolean(FALSE)}
Single == Literals \cup Naturals64 \cup Integers64 \cup Floats64 \cup Bytes \cup Lengthy \cup Containers
Mixed2 == {F!Boolean(TRUE), U(1), U(255), U(256), Minus(1), Minus(129), Tenth, F!Text(<<65>>), F!Array(<<>>)}
Parts == {<<v>> : v \in Single} \cup (Mixed2 \X Mixed2)
-----------------------------------------------------------------------------
\* Alerts around the Korean midnight: of a plain day, of the end of a month, of a
\* year and of February in a leap year; and captures that come to nothing.
AlertTimes ==
  {<<2025, 12, 31, 14, 59, 59>>, <<2025, 12, 31, 15, 0, 0>>, <<2026, 1, 1, 9, 30, 5>>,
   <<2024, 2, 28, 15, 0, 0>>, <<2024, 2, 29, 14, 59, 59>>, <<2024, 2, 29, 23, 0, 10>>,
   <<2025, 2, 28, 20, 0, 0>>, <<2025, 9, 30, 16, 5, 0>>, <<2025, 10, 9, 0, 0, 0>>}
Captures ==
  [utc : AlertTimes, image : {<<255, 216>>}, throws : {FALSE}]
    \cup [utc : {<<2025, 12, 31, 15, 0, 0>>}, image : {<<255>>, <<>>}, throws : BOOLEAN]
    \cup [utc : {<<>>}, image : {<<255>>}, throws : {FALSE}]

\* Lines of .env, among them comments, blanks around and '=' inside; the last is a
\* password with two '@'.
EnvLines ==
  {<<>>, <<85, 61, 97>>, <<9, 85, 32, 61, 32, 32, 98, 32>>, <<35, 85, 61, 99>>, <<85>>,
   <<61, 97>>, <<75, 61, 61, 35>>, <<80, 61, 97, 64, 98>>, <<80, 61, 64, 97, 32, 64, 9>>}

\* HOST, RTSP_PORT, RTSP_PATH and DB_FILE; and without a host.
OtherLines(host) == <<host, <<82, 61, 53>>, <<84, 61, 47, 115>>, <<68, 61, 100>>>>

\* Of numbers around the largest double: 1.797693134862315, the same without the
\* point, -0.000, 8, 9, e308, e293 and e312.
Leading == <<55, 57, 55, 54, 57, 51, 49, 51, 52, 56, 54, 50, 51, 49, 53>>
LargeParts ==
  {<<49, 46>> \o Leading, <<49>> \o Leading, <<45, 48, 46, 48, 48, 48>>, <<56>>, <<57>>,
   <<101, 51, 48, 56>>, <<101, 50, 57, 51>>, <<101, 51, 49, 50>>}

MCSymbols ==
  [data |-> {0, 3, 15, 16, 255},
   answers |-> {"ACK", "NACK"},
   account |-> {32, 37, 38, 47, 58, 61, 65, 200},
   secret |-> Blocks,
   captures |-> Captures,
   env |-> EnvLines,
   picture |-> {0, 1, 63, 64, 128, 255},
   json |-> Words,
   member |-> Words \ {"end", "null"},
   number |-> {43, 45, 46, 48, 57, 101},
   large |-> LargeParts,
   escapes |-> {65, 233, 8364, 55357, 56832},
   values |-> Parts \cup {<<v>> : v \in Subtyped \cup Matrices},
   encodings |-> Parts,
   pointers |-> {45, 47, 48, 49, 97, 126},
   documents |-> Documents,
   text |-> {<<55>>, <<65, 58>>, <<233, 97, 47>>},
   bytes |-> {10, 31, 34, 92, 128, 144, 160, 194, 224, 237, 240, 244}]

\* An object with a member already, to which more is added; texts as long as a
\* small symbol of two blocks (version 3) and a URI (version 8, uneven blocks) need.
Long(n) == [i \in 1..n |-> 97 + (i % 26)]

MCSeeds ==
  [k \in DOMAIN MCSymbols |->
     CASE k = "env" -> {OtherLines(<<72, 61, 104>>), OtherLines(<<72, 32>>)}
       [] k = "member" -> {<<"{", "b", ":", "[", "]", ",">>, <<"[", "{", "a", ":", "b", "}", ",">>}
       [] k = "pointers" -> {<<47>>, <<97>>}
       [] k = "text"   -> {<<>>, <<Long(20), <<65>>>>, <<Long(128), <<65>>>>}
       [] OTHER        -> {<<>>}]

MCMaxLen ==
  [data |-> 3, answers |-> 5, account |-> 3, secret |-> 2, picture |-> 4, captures |-> 3, env |-> 7,
   json |-> 4, member |-> 11, number |-> 5, large |-> 4, escapes |-> 3, text |-> 3, bytes |-> 4,
   values |-> 1, encodings |-> 1, pointers |-> 5, documents |-> 2]

\* Secrets of two blocks, as random_base32(16) makes them, and nothing else.
SecretsOnly == [secret |-> 2]

=============================================================================

------------------------------- MODULE Codecs --------------------------------
(***************************************************************************)
(* The pure algorithms of the programs against reference definitions.  An  *)
(* input grows symbol by symbol, so that every sequence up to a length is  *)
(* tried; kind says which algorithm it is meant for.  The properties about *)
(* JSON and QR codes are about the inputs that a step of Grow makes.       *)
(***************************************************************************)
EXTENDS Frames, Pictures, Loops, SequencesExt, FiniteSetsExt, TLC

\* In place of HMAC-SHA1, a function that every byte of key and message affects.
Mixed(key, message) ==
  [i \in 1..20 |-> Through(LAMBDA h, b : (31 * h + b) % 65521, i, key \o message, Nat) % 256]

Otp == INSTANCE OtpCodec WITH Hmac <- Mixed, SignedChar <- FALSE

\* Bits most significant first, and the bytes of a sequence of bits.
BitsOf(values, width) == Joined([i \in 1..Len(values) |-> Frame!Bits(values[i], width)])
GroupsOf(bits, width) ==
  [j \in 1..(Len(bits) \div width) |-> Frame!Value(SubSeq(bits, width * (j - 1) + 1, width * j))]
-----------------------------------------------------------------------------
(* One-time passwords and pictures.                                         *)

\* RFC 6238: the counter in 8 bytes, the key decoded from base32.
AppCode(uri, time) ==
  LET key == GroupsOf(BitsOf(uri.secret, 5), 8)
      count == time \div uri.interval
      hash == Mixed(key, <<0, 0, 0, 0>> \o GroupsOf(<<0, 0>> \o Frame!Bits(count, 30), 8))
      at == hash[20] % 16
  IN  Frame!Value(Tail(BitsOf(SubSeq(hash, at + 1, at + 4), 8))) % 10^uri.digits

\* byte_secret: its comment says that it "converts the byte secret from base32 to
\* the actual data", the data that an authenticator makes its codes from.
SecretDecoded ==
  kind = "secret" => Otp!byte_secret(Joined(input)) = GroupsOf(BitsOf(Joined(input), 5), 8)

\* generate_otp_uri and verify_otp: an authenticator that reads the URI made for
\* an id and a secret knows the id and the secret, and the code it shows is
\* accepted as long as its 30 seconds last, leading zeros or not.  The code is so
\* for the secrets in which no block of 8 characters but the last ends in A..E
\* (values below 5); byte_secret cuts the others short, against SecretDecoded.  For
\* the empty id there is no URI at all.
EnrolledAppAccepted ==
  /\ kind = "account" =>
       LET uri == Otp!get_uri(Otp!Totp(input, <<1>>))
       IN  IF input = <<>> THEN uri = Otp!NoUri ELSE Otp!parse(uri).account = input
  /\ kind = "secret" /\ input # <<>> =>
       LET secret == Joined(input)
           totp == Otp!Totp(<<65>>, secret)
           app == Otp!parse(Otp!get_uri(totp))
       IN  /\ app.secret = secret
           /\ (\A i \in 1..(Len(input) - 1) : Last(input[i]) >= 5) =>
                \A t \in {29, 1800000000}, late \in {0, 29} :
                  (t + late) \div 30 = t \div 30 =>
                    Otp!verify(totp, AppCode(app, t), t + late)

Table == INSTANCE Detections

\* Nine hours later on the calendar, without counting seconds.
NextDay(t) ==
  CASE t[3] < Table!DaysIn(t[1], t[2]) -> [t EXCEPT ![3] = @ + 1]
    [] t[3] = Table!DaysIn(t[1], t[2]) /\ t[2] < 12 -> [t EXCEPT ![2] = @ + 1, ![3] = 1]
    [] OTHER -> [t EXCEPT ![1] = @ + 1, ![2] = 1, ![3] = 1]
Korean(t) ==
  IF t[4] < 15 THEN [t EXCEPT ![4] = @ + 9] ELSE NextDay([t EXCEPT ![4] = @ - 15])

Earlier(s, t) == \E i \in 1..6 : s[i] < t[i] /\ \A j \in 1..(i - 1) : s[j] = t[j]

\* What the captures of a sequence, [utc, image, throws], leave in the table.
Captured(seq) ==
  FoldLeft(LAMBDA rows, c : Table!capture_screen_and_save(rows, c.utc, c.image, c.throws),
           <<>>, seq)

\* An end of a range: the text of a time as it is saved, or without its zone.  The
\* latter is before every text of its second.
End(utc, zone) ==
  LET text == Table!strftime(Korean(utc)) IN IF zone THEN text ELSE SubSeq(text, 1, 19)

InRange(utc, from, to, zone) ==
  ~Earlier(utc, from) /\ IF zone THEN ~Earlier(to, utc) ELSE Earlier(utc, to)

\* capture_screen_and_save, handle_detection_request: the pictures are saved under
\* the text of a time nine hours later and selected by comparing texts.  A client
\* that asks for the time between two moments gets the pictures of exactly the alerts
\* from the one to the other, the oldest first and whole, across midnight, the end
\* of a month and of a year and a leap day, in whatever order they were saved and
\* however many captures came to nothing.  The last second belongs to the range if
\* the end is written with the zone.  When the SELECT fails after some rows the answer
\* does not say so: it has the oldest pictures of the range, as many as were read.
PicturesAnswered ==
  /\ kind = "picture" => Decodes(B64!base64_encode(input), input)
  /\ kind = "captures" =>
       LET saved == SelectSeq(input, LAMBDA c :
                       c.utc # Table!NoTime /\ c.image # <<>> /\ ~c.throws)
           times == {c.utc : c \in Range(input)} \ {Table!NoTime}
           rows  == Captured(input)
           is(a, i) == /\ a.timestamp = Table!strftime(Korean(saved[i].utc))
                       /\ Decodes(a.image, saved[i].image)
       IN  \A from, to \in times, zone \in BOOLEAN :
             LET due == {i \in 1..Len(saved) : InRange(saved[i].utc, from, to, zone)}
                 before(i) == Cardinality({k \in due : Earlier(saved[k].utc, saved[i].utc)})
                 upto(i) == Cardinality({k \in due : ~Earlier(saved[i].utc, saved[k].utc)})
             IN  \A n \in 0..Len(saved) :
                   LET answer == Table!handle_detection_request(
                                   rows, End(from, zone), End(to, zone), n)
                   IN  /\ Len(answer) = Min({n, Cardinality(due)})
                       /\ \A j \in 1..Len(answer) :
                            \E i \in due : is(answer[j], i) /\ j \in (before(i) + 1)..upto(i)
                       /\ n >= Cardinality(due) =>
                            \A i \in due : \E a \in Range(answer) : is(a, i)
-----------------------------------------------------------------------------
(* Configuration files.                                                     *)

Conf == INSTANCE Config

\* t is text without the blanks around it.
IsCore(t, text) ==
  /\ t # <<>> => Head(t) \notin Conf!Blank /\ Last(t) \notin Conf!Blank
  /\ \E i \in 0..(Len(text) - Len(t)) :
       /\ SubSeq(text, i + 1, i + Len(t)) = t
       /\ \A j \in (1..i) \cup ((i + Len(t) + 1)..Len(text)) : text[j] \in Conf!Blank

\* The line gives the variable its value.
Says(line, name, value) ==
  \E p \in 1..Len(line) :
    /\ line[p] = Conf!Equals /\ \A q \in 1..(p - 1) : line[q] # Conf!Equals
    /\ line[1] # Conf!Hash
    /\ IsCore(name, SubSeq(line, 1, p - 1))
    /\ IsCore(value, SubSeq(line, p + 1, Len(line)))

Slices(text) == {SubSeq(text, i, j) : i \in 1..(Len(text) + 1), j \in 0..Len(text)}

\* What a reader of the URL takes for user, password and host: the authority
\* ends at the first '/', the user at the first ':', the password at the last '@'.
UrlParts(url) ==
  LET authority == SubSeq(url, 1, Min({i \in 1..Len(url) : url[i] = 47}) - 1)
      at == Max({i \in 1..Len(authority) : authority[i] = Conf!At})
      colon == Min({i \in 1..at : authority[i] = 58})
  IN  [username |-> SubSeq(authority, 1, colon - 1),
       password |-> Otp!urldecode(SubSeq(authority, colon + 1, at - 1)),
       host |-> SubSeq(authority, at + 1, Max({i \in at..Len(authority) : authority[i] = 58}) - 1)]

Names == Range(Conf!Required) \cup {Conf!Trackid}
Account(config) == [f \in DOMAIN config \cap DOMAIN Conf!Required |-> config[f]]
ConfigFile(entries, value) == [is_open |-> TRUE, values |-> [e \in entries |-> value]]

\* What a process has before it loads its configuration: nothing, or what an earlier
\* load of a .env with some of the variables left.
Unloaded == [env |-> [n \in {} |-> <<>>], config |-> [f \in {} |-> <<>>], ok |-> FALSE]
Loaded(names) ==
  Conf!load_all_config(Unloaded,
    [is_open |-> TRUE, lines |-> SetToSeq({n \o <<Conf!Equals, 122>> : n \in names})],
    ConfigFile(Range(Conf!Entries), <<0>>))
Before == {Unloaded} \cup {Loaded(names) : names \in {Names, Names \ {Conf!Trackid, Conf!Required.host}}}

\* load_all_config, get_rtsp_url: each variable has the value of the last line that
\* gives it one, without the blanks around it; comments and lines without '=' give
\* none.  Loading again, as parse_metadata does (where a comment says that this is
\* ignored), reads both files anew: only a variable that .env no longer gives keeps
\* the value of before, which setenv left in the environment.
\* With a variable missing in both, the load fails and the account stays as it was; with
\* an entry of config.json missing it fails too, with the account loaded.  The URL of
\* the camera has the user, the password and the host, whatever '@' the password has.
ConfigurationRead ==
  kind = "env" =>
    LET load(s, j) == Conf!load_all_config(s, [is_open |-> TRUE, lines |-> input], j)
        all == Range(Conf!Entries)
        given == [n \in Names |->
          {i \in 1..Len(input) : \E v \in Slices(input[i]) : Says(input[i], n, v)}]
    IN  \A s \in Before : LET r == load(s, ConfigFile(all, <<1>>)) IN
          /\ DOMAIN r.env \cap Names = {n \in Names : n \in DOMAIN s.env \/ given[n] # {}}
          /\ \A n \in DOMAIN r.env \cap Names :
               IF given[n] = {} THEN r.env[n] = s.env[n] ELSE Says(input[Max(given[n])], n, r.env[n])
          /\ \A e \in all : r.config[e] = <<1>>
          /\ r.ok <=> Range(Conf!Required) \subseteq DOMAIN r.env
          /\ ~r.ok => Account(r.config) = Account(s.config)
          /\ r.ok =>
               /\ Account(r.config) = [f \in DOMAIN Conf!Required |-> r.env[Conf!Required[f]]]
               /\ \A f \in {"username", "password", "host"} :
                    UrlParts(Conf!get_rtsp_url(r.config))[f] = r.config[f]
          /\ \A e \in {"dist_threshold", "timeout_ms", "port4"} : LET lacking == load(s, ConfigFile(all \ {e}, <<1>>)) IN
               ~lacking.ok /\ Account(lacking.config) = Account(r.config)
-----------------------------------------------------------------------------
(* JSON: the grammar of RFC 8259 on token names, for texts made of tokens.  *)

Json == INSTANCE JsonText WITH WordBits <- 8

Spelling ==
  ("[" :> <<91>>) @@ ("]" :> <<93>>) @@ ("{" :> <<123>>) @@ ("}" :> <<125>>)
  @@ ("," :> <<44>>) @@ (":" :> <<58, 32>>) @@ ("a" :> <<34, 97, 34>>)
  @@ ("b" :> <<34, 98, 34>>) @@ ("null" :> <<32, 110, 117, 108, 108, 10>>) @@ ("end" :> <<0>>)

Name == [a |-> <<97>>, b |-> <<98>>]

Inner(ts) == SubSeq(ts, 2, Len(ts) - 1)
Within(ts, open, close) == Len(ts) >= 2 /\ ts[1] = open /\ Last(ts) = close
Commas(ts) == {k \in 1..Len(ts) : ts[k] = ","}

\* The values (one or none) that tokens denote, alone, as the elements of an
\* array, and as the members of an object, of which the last of a name counts.
RECURSIVE Denoted(_), Elements(_), Members(_)
Denoted(ts) ==
  CASE Len(ts) = 1 /\ ts[1] \in {"a", "b"} -> {Json!Text(Name[ts[1]])}
    [] Len(ts) = 1 /\ ts[1] = "null"       -> {Json!Null}
    [] Len(ts) # 1 /\ Within(ts, "[", "]") ->
         {Json!Array(es) : es \in IF Len(ts) = 2 THEN {<<>>} ELSE Elements(Inner(ts))}
    [] Len(ts) # 1 /\ Within(ts, "{", "}") ->
         {Json!Object(ms) : ms \in IF Len(ts) = 2 THEN {<<>>} ELSE Members(Inner(ts))}
    [] OTHER -> {}
Elements(ts) ==
  {<<v>> : v \in Denoted(ts)}
  \cup UNION {{<<v>> \o es : v \in Denoted(SubSeq(ts, 1, k - 1)), es \in Elements(SubSeq(ts, k + 1, Len(ts)))}
               : k \in Commas(ts)}
Members(ts) ==
  (IF Len(ts) >= 3 /\ ts[1] \in {"a", "b"} /\ ts[2] = ":"
     THEN {Name[ts[1]] :> v : v \in Denoted(SubSeq(ts, 3, Len(ts)))} ELSE {})
  \cup UNION {{later @@ first : first \in Members(SubSeq(ts, 1, k - 1)), later \in Members(SubSeq(ts, k + 1, Len(ts)))}
               : k \in Commas(ts)}

UpToEnd(ts) == SubSeq(ts, 1, Min({i \in 1..Len(ts) : ts[i] = "end"} \cup {Len(ts) + 1}) - 1)

\* Numbers: an optional minus, digits without a leading zero, optionally a
\* fraction, optionally an exponent.
Digits(cs) == cs # <<>> /\ \A i \in 1..Len(cs) : cs[i] \in 48..57
Whole(cs) == Digits(cs) /\ (cs[1] = 48 => Len(cs) = 1)
Signed(cs) == IF cs # <<>> /\ cs[1] = 45 THEN Tail(cs) ELSE cs
Power(cs) == cs # <<>> /\ Digits(IF cs[1] \in {43, 45} THEN Tail(cs) ELSE cs)
IsNumber(cs) ==
  LET n == Len(cs)
      fraction(i, j) == i = j \/ (cs[i] = 46 /\ Digits(SubSeq(cs, i + 1, j - 1)))
      power(j) == j = n + 1 \/ (cs[j] = 101 /\ Power(SubSeq(cs, j + 1, n)))
  IN  \E i \in 1..(n + 1) : \E j \in i..(n + 1) :
        Whole(Signed(SubSeq(cs, 1, i - 1))) /\ fraction(i, j) /\ power(j)

NumberOf(cs) ==
  LET n == FoldLeft(LAMBDA v, c : 10 * v + c - 48, 0, Signed(cs))
      v == IF cs[1] = 45 THEN -n ELSE n
  IN  IF Whole(Signed(cs)) /\ Len(cs) <= 4 /\ v \in -128..255 THEN Json!Integer(v) ELSE Json!Float(cs)

\* Whether a number rounds to a double that is not infinite: written out, it has no
\* digit but 0 at 10^309 or above, and those from 10^308 down are not above
\* the ones of 2^1024 - 2^970 (at most 20 digits are written).
Largest == <<1, 7, 9, 7, 6, 9, 3, 1, 3, 4, 8, 6, 2, 3, 1, 5, 8, 0, 7, 9>>
IsDouble(cs) ==
  LET n == Len(cs)
      e == Min({i \in 1..n : cs[i] = 101} \cup {n + 1})
      point == Min({i \in 1..(e - 1) : cs[i] = 46} \cup {e})
      size == FoldLeft(LAMBDA v, c : 10 * Min({v, 10^6}) + c - 48, 0,
                       SelectSeq(SubSeq(cs, e + 1, n), LAMBDA c : c \in 48..57))
      exponent == IF e < n /\ cs[e + 1] = 45 THEN -size ELSE size
      place == [i \in {i \in 1..(e - 1) : cs[i] \in 48..57} |->
                  exponent + point - i - (IF i < point THEN 1 ELSE 0)]
      digit(k) == IF \E i \in DOMAIN place : place[i] = k
                    THEN cs[CHOOSE i \in DOMAIN place : place[i] = k] - 48 ELSE 0
  IN  /\ \A i \in DOMAIN place : place[i] >= 309 => cs[i] = 48
      /\ ~\E i \in 1..Len(Largest) :
            digit(309 - i) > Largest[i] /\ \A j \in 1..(i - 1) : digit(309 - j) = Largest[j]

\* UTF-8 by the arithmetic of its bytes: the code points, -1 for what is none.
Leads == << 0..127, 192..223, 224..239, 240..247 >>
Points == << 0..127, 128..2047, (2048..55295) \cup (57344..65535), 65536..1114111 >>

RECURSIVE CodePoints(_)
CodePoints(s) ==
  LET n == Min({k \in 1..4 : s[1] \in Leads[k]} \cup {5})
      whole == n <= 4 /\ Len(s) >= n /\ \A i \in 2..n : s[i] \in 128..191
      point == FoldLeft(LAMBDA v, b : 64 * v + b - 128, s[1] - Min(Leads[n]), SubSeq(s, 2, n))
  IN  CASE s = <<>> -> <<>>
        [] s # <<>> /\ whole /\ point \in Points[n] -> <<point>> \o CodePoints(SubSeq(s, n + 1, Len(s)))
        [] OTHER -> <<-1>>

\* UTF-16: the code points of a sequence of units.
RECURSIVE Units(_)
Units(us) ==
  CASE us = <<>> -> <<>>
    [] us # <<>> /\ us[1] \notin 55296..57343 -> <<us[1]>> \o Units(Tail(us))
    [] OTHER ->
         IF Len(us) >= 2 /\ us[1] < 56320 /\ us[2] \in 56320..57343
           THEN <<65536 + (us[1] - 55296) * 1024 + (us[2] - 56320)>> \o Units(SubSeq(us, 3, Len(us)))
           ELSE <<-1>>

WellFormed(points) == \A i \in 1..Len(points) : points[i] # -1
InQuotes(bytes) == <<34>> \o bytes \o <<34>>
UnitText(u) == <<92, 117>> \o [i \in 1..4 |-> Json!HexChar((u \div 16^(4 - i)) % 16)]

\* The text that an input spells: tokens, characters or pieces of a large number.
Spelled(k, word) ==
  CASE k \in {"json", "member"} -> Joined([i \in 1..Len(word) |-> Spelling[word[i]]])
    [] k = "number" -> word
    [] k = "large"  -> Joined(word)

\* It is read as it should be.
ReadsAsDenoted(k, word) ==
  /\ k \in {"json", "member"} =>
       LET r == Json!parse(Spelled(k, word))
           denoted == Denoted(UpToEnd(word))
       IN  IF denoted = {} THEN ~r.ok ELSE r.ok /\ denoted = {r.value}
  /\ k \in {"number", "large"} =>
       LET text == Spelled(k, word)
           r == Json!parse(text)
       IN  IF IsNumber(text) /\ IsDouble(text) THEN r.ok /\ r.value = NumberOf(text) ELSE ~r.ok
  /\ k = "escapes" =>
       LET r == Json!parse(InQuotes(Joined([i \in 1..Len(word) |-> UnitText(word[i])])))
       IN  IF WellFormed(Units(word)) THEN r.ok /\ CodePoints(r.value.bytes) = Units(word) ELSE ~r.ok

\* What was read is written and read again.
ReadsBack(k, word) ==
  /\ k \in {"json", "member", "number"} =>
       LET r == Json!parse(Spelled(k, word))
       IN  r.ok /\ r.value.type # "float" =>
             \A step \in {0, 2} : Json!parse(Json!dump(r.value, step, 0)) = r
  /\ k = "bytes" =>
       LET d == Json!dump_escaped(word)
           r == Json!parse(InQuotes(d.out))
       IN  /\ d.ok <=> WellFormed(CodePoints(word))
           /\ d.ok => r.ok /\ r.value.bytes = word

\* json::parse: a text is accepted exactly when it is JSON up to its end or its
\* first NUL without a number too large for a double, and gives the value it denotes,
\* whatever is nested in what, which comma or colon is missing and whichever key
\* comes twice; a number that is no integer of the word becomes a float; \u escapes
\* give the UTF-8 of their code points, surrogates in pairs only.
JsonTextAccepted == [][\A word \in {input'} : ReadsAsDenoted(kind, word)]_vars

\* dump and parse: what parse accepted (floats apart) is written so that it reads
\* back as the same value, on one line or indented; a string of any bytes is
\* written exactly when it is UTF-8, and reads back byte by byte.
JsonRoundTrip == [][\A word \in {input'} : ReadsBack(kind, word)]_vars
-----------------------------------------------------------------------------
(* QR symbols: a reader, with the tables of ISO/IEC 18004 up to version 10. *)

Qr == INSTANCE QrCode

Centres == << {}, {6, 18}, {6, 22}, {6, 26}, {6, 30}, {6, 34}, {6, 22, 38}, {6, 24, 42}, {6, 26, 46}, {6, 28, 50} >>
FormatCodes ==
  << <<>>,
     <<21522, 20773, 24188, 23371, 17913, 16590, 20375, 19104>>,
     <<13663, 12392, 16177, 14854, 9396, 8579, 11994, 11245>>,
     <<5769, 5054, 7399, 6608, 1890, 597, 3340, 2107>> >>
VersionCodes == <<31892, 34236, 39577, 42195>>    \* of versions 7..10

\* The modules that hold no data.
IsFunction(v, x, y) ==
  LET n == 4 * v + 17
      corner(a, b) == (a <= 8 /\ b <= 8) \/ (a >= n - 8 /\ b <= 8) \/ (a <= 8 /\ b >= n - 8)
  IN  \/ corner(x, y) \/ 6 \in {x, y}
      \/ v >= 7 /\ ((x <= 5 /\ y >= n - 11) \/ (y <= 5 /\ x >= n - 11))
      \/ \E a \in Centres[v], b \in Centres[v] :
           x \in (a - 2)..(a + 2) /\ y \in (b - 2)..(b + 2) /\ ~corner(a, b)

\* The modules of the data in the order of reading.
Reading(v) ==
  LET n == 4 * v + 17
      at(k) == LET pair == k \div (2 * n)
                   step == (k % (2 * n)) \div 2
                   x == n - 1 - 2 * pair - (k % 2)
               IN  <<IF n - 1 - 2 * pair <= 6 THEN x - 1 ELSE x,
                     IF pair % 2 = 0 THEN n - 1 - step ELSE step>>
  IN  SelectSeq([k \in 1..(n * (n - 1)) |-> at(k - 1)], LAMBDA m : ~IsFunction(v, m[1], m[2]))

\* GF(256): the first powers of 2; a product is that of polynomials over GF(2),
\* with the powers from 8 on replaced.
Alpha == <<1, 2, 4, 8, 16, 32, 64, 128, 29, 58, 116, 232, 205, 135, 19,
           38, 76, 152, 45, 90, 180, 117, 234, 201, 143, 3, 6, 12, 24, 48>>

Bit(a, i) == (a \div 2^i) % 2

Product(a, b) ==
  LET pairs(m) == {p \in (0..7) \X (0..7) :
                     Bit(a, p[1]) = 1 /\ Bit(b, p[2]) = 1 /\ Bit(Alpha[p[1] + p[2] + 1], m) = 1}
  IN  [m \in 0..7 |-> Cardinality(pairs(m)) % 2]

Plus(bits, c) ==
  LET s(m) == 2^m * ((bits[m] + Bit(c, m)) % 2)
  IN  s(0) + s(1) + s(2) + s(3) + s(4) + s(5) + s(6) + s(7)

\* A codeword polynomial has the first powers of 2 as its zeros.
IsCodeword(word, roots) ==
  \A r \in 1..roots :
    LET times == [a \in 0..255, c \in 0..255 |-> Plus(Product(a, Alpha[r]), c)]
    IN  Through(LAMBDA a, c : times[a, c], 0, word, 0..255) = 0

Block(words, v, e, b) ==
  LET blocks == Qr!NUM_ERROR_CORRECTION_BLOCKS[e][v]
      ecc == Qr!ECC_CODEWORDS_PER_BLOCK[e][v]
      total == Len(words) - ecc * blocks
      low == total \div blocks
      short == blocks - (total % blocks)
  IN  [data |-> [i \in 1..(IF b <= short THEN low ELSE low + 1) |->
                   IF i <= low THEN words[(i - 1) * blocks + b] ELSE words[low * blocks + b - short]],
       ecc |-> [i \in 1..ecc |-> words[total + (i - 1) * blocks + b]]]

\* The text of a mode indicator, a count and the characters.
TextOf(bits, v) ==
  LET number(from, len) == Frame!Value(SubSeq(bits, from + 1, from + len))
      mode == number(0, 4)
      width == CASE mode = 1 -> IF v <= 9 THEN 10 ELSE 12
                 [] mode = 2 -> IF v <= 9 THEN 9 ELSE 11
                 [] mode = 4 -> IF v <= 9 THEN 8 ELSE 16
      count == number(4, width)
      digit(i) == LET g == (i - 1) \div 3
                      size == Min({3, count - 3 * g})
                  IN  (number(4 + width + 10 * g, 3 * size + 1) \div 10^(size - 1 - ((i - 1) % 3))) % 10
      sign(i) == LET g == (i - 1) \div 2
                     size == Min({2, count - 2 * g})
                 IN  (number(4 + width + 11 * g, 5 * size + 1) \div 45^(size - 1 - ((i - 1) % 2))) % 45
  IN  [i \in 1..count |->
         CASE mode = 1 -> 48 + digit(i)
           [] mode = 2 -> Qr!ALPHANUMERIC_CHARSET[sign(i) + 1]
           [] mode = 4 -> number(4 + width + 8 * (i - 1), 8)]

\* Whether a reader that follows the standard finds the text in the symbol.
Readable(symbol, text) ==
  LET n == symbol.size
      v == (n - 17) \div 4
      dark(x, y) == symbol.modules[<<x, y>>]
      bit(x, y) == IF dark(x, y) THEN 1 ELSE 0
      first == Frame!Value([i \in 1..15 |->
                 IF i <= 8 THEN bit(IF i <= 6 THEN i - 1 ELSE i, 8)
                 ELSE bit(8, IF i = 9 THEN 7 ELSE 15 - i)])
      second == Frame!Value([i \in 1..15 |-> IF i <= 7 THEN bit(8, n - i) ELSE bit(n - 16 + i, 8)])
      meant == {c \in (2..4) \X (0..7) : FormatCodes[c[1]][c[2] + 1] = first}
      versionBit(i) == (VersionCodes[v - 6] \div 2^i) % 2
      order == Reading(v)
      unmasked(mask) == [i \in 1..Len(order) |->
        IF dark(order[i][1], order[i][2]) # Qr!Inverts(mask, order[i][1], order[i][2]) THEN 1 ELSE 0]
      blocks(words, e) ==
        Qr!Tuple([b \in 1..Qr!NUM_ERROR_CORRECTION_BLOCKS[e][v] |-> Block(words, v, e, b)])
  IN  /\ DOMAIN symbol.modules = (0..(n - 1)) \X (0..(n - 1))
      /\ first = second /\ Cardinality(meant) = 1 /\ dark(8, n - 8)
      /\ v >= 7 => \A i \in 0..17 : LET a == n - 11 + (i % 3)
                                        b == i \div 3
                                    IN  versionBit(i) = bit(a, b) /\ versionBit(i) = bit(b, a)
      /\ \A c \in meant : \A bs \in {blocks(Qr!Tuple(GroupsOf(Qr!Tuple(unmasked(c[2])), 8)), c[1])} :
           /\ \A b \in 1..Len(bs) : IsCodeword(bs[b].data \o bs[b].ecc, Len(bs[b].ecc))
           /\ TextOf(Qr!Tuple(BitsOf(Joined([b \in 1..Len(bs) |-> bs[b].data]), 8)), v) = text

\* What a camera sees in the picture: the dark squares and the light ones between
\* them, with the light border that a reader needs to find the symbol.
Scanned(svg) ==
  LET first == Min({p[1] : p \in svg.path})
      n == Max({p[1] : p \in svg.path}) - first + 1
  IN  [size |-> n, modules |-> [m \in Qr!Square(n) |-> <<m[1] + first, m[2] + first>> \in svg.path]]

HasQuietZone(svg) ==
  \A p \in svg.path : \A i \in 1..2 : p[i] >= 4 /\ p[i] + 1 <= svg.viewbox - 4

\* set_content, get_svg: a reader of the picture finds four light modules around
\* the symbol, the two copies of the format equal and in its table, likewise the
\* version from 7 on; with the mask taken off and the blocks separated, every block
\* is a Reed-Solomon codeword, the level is the one that was asked for or higher,
\* and the data is the text, whatever its length, its characters and the mask that
\* the penalties chose.
QrReadable ==
  [][kind = "text" =>
       \A code \in {Qr!Code(Joined(input'))} : \A svg \in {Qr!get_svg(Qr!Symbol(code))} :
         \A symbol \in {Scanned(svg)} :
           HasQuietZone(svg) /\ Readable(symbol, Joined(input'))]_vars
-----------------------------------------------------------------------------
(* The binary formats of the JSON library: an input is a sequence of parts, *)
(* each a sequence of values.                                               *)

Formats == INSTANCE BinaryFormats

\* The values as the elements of an array, and as the members of an object.
Holding(values) ==
  {Formats!Array(values),
   Formats!Object([name \in {<<96 + i>> : i \in 1..Len(values)} |-> values[name[1] - 96]])}

\* to_cbor, to_msgpack, to_ubjson, to_bjdata and to_bson with from_...: a value is
\* written so that it reads back as itself, or as what the format has in its place, in
\* every format and with every option for counts and types but types without counts; a
\* byte less or a byte more and it is refused; the size that a BSON document begins
\* with, computed ahead of writing, is its length.
BinaryRoundTrip ==
  [][kind = "values" => \A values \in {Joined(input')} :
       \A v \in Holding(values) : Formats!RoundTrips(v)]_vars

\* from_cbor, from_msgpack, from_ubjson and from_bjdata: every encoding that the
\* format allows for a value, not just the shortest that the writer chooses, is
\* read as that value: wider integers and lengths, half floats, strings and
\* containers of indefinite length, tags to be ignored, no-ops, counts.
BinaryEncodingsRead ==
  [][kind = "encodings" => \A values \in {Joined(input')} :
       \A v \in Holding(values) : Formats!EveryEncodingRead(v)]_vars
-----------------------------------------------------------------------------
(* JSON pointers, patches and differences.                                  *)

Patch == INSTANCE JsonPatch

\* RFC 6901: a pointer is empty or begins with a slash, and a tilde has 0 or 1
\* after it.
IsPointer(text) ==
  /\ text = <<>> \/ text[1] = 47
  /\ \A i \in 1..Len(text) : text[i] = 126 => i < Len(text) /\ text[i + 1] \in {48, 49}

One == Json!Integer(1)
Trees ==
  {Json!Null, One, Json!Array(<<>>), Json!Array(<<One, Json!Null>>), Json!Object(<<97>> :> One),
   Json!Object((<<126>> :> Json!Array(<<One>>)) @@ (<<47>> :> One) @@ (<<>> :> Json!Object(<<48>> :> One))),
   Json!Array(<<Json!Object((<<48>> :> One) @@ (<<49>> :> Json!Null)), Json!Array(<<Json!Array(<<One>>), One>>)>>)}

RECURSIVE Places(_)
Places(v) ==
  {<<>>} \cup
  (CASE v.type = "array"  -> UNION {{<<Patch!Decimal(i - 1)>> \o q : q \in Places(v.elems[i])} : i \in 1..Len(v.elems)}
     [] v.type = "object" -> UNION {{<<k>> \o q : q \in Places(v.members[k])} : k \in DOMAIN v.members}
     [] OTHER             -> {})

\* What a pointer reaches in a document, and what is done through it.
Reaches(v, tokens, text) ==
  LET new == Json!Text(<<110>>)
      at == Patch!get_checked(v, tokens)
      put == Patch!get_unchecked(v, tokens, new)
      added == Patch!patch_inplace(v, <<Patch!Addition(text, new)>>)
      elsewhere == {q \in Places(v) : ~IsPrefix(q, tokens) /\ ~IsPrefix(tokens, q)}
      named == tokens # <<>> /\ Last(tokens) # Patch!Dash
      parent == Patch!get_checked(v, Front(tokens)).value
      childless == parent.type \notin {"array", "object", "null"}
  IN  /\ at.ok <=> tokens \in Places(v)
      /\ Patch!contains(v, tokens) # "throws" => (at.ok <=> Patch!contains(v, tokens) = "yes")
      /\ put.ok /\ Patch!Dash \notin ToSet(tokens) => Patch!get_checked(put.value, tokens) = Patch!Done(new)
      /\ \A q \in elsewhere : Patch!get_checked(put.value, q) = Patch!get_checked(v, q)
      /\ at.ok => put = Patch!patch_inplace(v, <<Patch!Replacement(text, new)>>)
      /\ at.ok /\ tokens # <<>> =>
           Patch!patch_inplace(v, <<[op |-> "move", path |-> text, from |-> text]>>) = Patch!Done(v)
      /\ added.ok /\ tokens # <<>> /\ childless => added.value = v
      /\ added.ok /\ named /\ ~childless =>
           /\ Patch!patch_inplace(added.value, <<[op |-> "test", path |-> text, value |-> new]>>) = added
           /\ parent.type = "array" \/ (parent.type = "object" /\ ~at.ok) =>
                Patch!patch_inplace(added.value, <<Patch!Removal(text)>>) = Patch!Done(v)

\* Flattening forgets which containers were empty, and takes an object whose first
\* name is 0 for an array.
RECURSIVE Keeps(_)
Keeps(v) ==
  CASE v.type = "array"  -> v.elems # <<>> /\ \A i \in 1..Len(v.elems) : Keeps(v.elems[i])
    [] v.type = "object" -> /\ DOMAIN v.members \notin {{}} /\ <<48>> \notin DOMAIN v.members
                            /\ \A k \in DOMAIN v.members : Keeps(v.members[k])
    [] OTHER -> TRUE

Compared(s, t) ==
  LET flat == Patch!flatten(s)
      found(path) == Patch!get_checked(s, Patch!split(path).value)
  IN  /\ Patch!patch_inplace(s, Patch!diff(s, t, <<>>)) = Patch!Done(t)
      /\ Patch!merge_patch(Patch!merge_patch(s, t), t) = Patch!merge_patch(s, t)
      /\ \A path \in DOMAIN flat.members :
           found(path).ok /\ (Patch!IsPrimitive(found(path).value) => found(path).value = flat.members[path])
      /\ Keeps(s) => Patch!unflatten(flat) = Patch!Done(s)

\* json_pointer: a text is a pointer exactly when RFC 6901 says so, and its tokens
\* give the text again; at() finds exactly the places of a document; an assignment
\* through a pointer is found there and changes no other place; what a patch adds to
\* an object, an array or null it also finds and can remove again, to another value it
\* adds nothing and reports no error, and moving a value to where it is changes nothing.
\* diff, patch, merge_patch, flatten: the difference of two documents makes the one
\* into the other, whatever is nested and however the names are spelled; merging twice
\* is merging once; unflatten undoes flatten unless a container is empty or a member
\* is called 0.
PatchesReach ==
  [][/\ kind = "pointers" => \A text \in {input'} : \A p \in {Patch!split(text)} :
          /\ p.ok <=> IsPointer(text)
          /\ p.ok => /\ Patch!to_string(p.value) = text
                     /\ \A v \in Trees : Reaches(v, p.value, text)
     /\ kind = "documents" => \A word \in {input'} :
          Len(word) = 2 => Compared(word[1], word[2])]_vars

=============================================================================

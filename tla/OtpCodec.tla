------------------------------ MODULE OtpCodec -------------------------------
(***************************************************************************)
(* One-time passwords: what cotp makes of a secret, a time and a key that  *)
(* a client sends, and the otpauth URI that enrols an authenticator.       *)
(*                                                                         *)
(* A secret is the sequence of the values (0..31) of its base32 characters *)
(* and a name the sequence of its bytes.  HMAC-SHA1 is external: any       *)
(* function of key and message to 20 bytes.                                *)
(***************************************************************************)
EXTENDS Naturals, Sequences, SequencesExt, FiniteSetsExt

CONSTANTS
  Hmac(_, _),
  SignedChar    \* whether char is signed: it is on x86, not on the ARM boards

SHA1 == <<83, 72, 65, 49>>
Issuer == <<79, 84, 80, 32, 67>>    \* stands for "OTP Console Program"

\* A TOTP object as the server makes it: SHA1, 6 digits, 30 seconds.
Totp(id, secret) ==
  [account |-> id, issuer |-> Issuer, secret |-> secret, algorithm |-> SHA1,
   digits |-> 6, interval |-> 30]
-----------------------------------------------------------------------------
(* The secret: base32 to bytes, 8 characters to 5 bytes.                    *)

\* What character k (0..7) of a block adds to the byte it starts in.
High(k, n) ==
  LET bit == (5 * k) % 8
  IN  IF bit <= 3 THEN n * 2^(3 - bit) ELSE n \div 2^(bit - 3)

\* What it leaves for the next byte.
Low(k, n) ==
  LET bit == (5 * k) % 8
  IN  IF bit <= 3 THEN 0 ELSE (n * 2^(11 - bit)) % 256

\* The bits that the characters set in a byte are disjoint: OR is addition.
BlockByte(block, octet) ==
  MapThenSumSet(LAMBDA k : High(k, block[k + 1]), {k \in 0..7 : (5 * k) \div 8 = octet})
  + MapThenSumSet(LAMBDA k : Low(k, block[k + 1]), {k \in 0..7 : (5 * k) \div 8 + 1 = octet})

Block(secret, i) == SubSeq(secret, 8 * i + 1, 8 * i + 8)

\* Mutant: the blocks follow each other 6 bytes apart.
SparseSecret(secret) ==
  [j \in 1..((5 * Len(secret)) \div 8) |->
     IF (j - 1) % 6 < 5 THEN BlockByte(Block(secret, (j - 1) \div 6), (j - 1) % 6) ELSE 0]

\* The loop ends with the first block whose last character is one of A..E; the
\* bytes of the blocks after it stay 0.  After a last block that ends otherwise
\* the loop goes once more, finds the end of the string and stores nothing but a
\* 0 behind the vector.  Defined for whole blocks, as random_base32(16) makes.
byte_secret(secret) ==
  LET n == Len(secret) \div 8
      last == Min({i \in 0..(n - 1) : secret[8 * i + 8] < 5} \cup {n})
  IN  [j \in 1..(5 * n) |->
         IF (j - 1) \div 5 <= last THEN BlockByte(Block(secret, (j - 1) \div 5), (j - 1) % 5)
         ELSE 0]
-----------------------------------------------------------------------------
(* The code for a counter, and the comparison with a key.                   *)

\* The low 4 bytes of the value, in 8.
to_bytes(value) == [i \in 1..8 |-> IF i <= 4 THEN 0 ELSE (value \div 256^(8 - i)) % 256]

to_string(n) ==
  LET digits == CHOOSE d \in 1..10 : (d = 10 \/ n < 10^d) /\ (d = 1 \/ n >= 10^(d - 1))
  IN  [i \in 1..digits |-> (n \div 10^(digits - i)) % 10]

Padded(text, digits) ==
  IF Len(text) < digits THEN [i \in 1..(digits - Len(text)) |-> 0] \o text ELSE text

generate(totp, counter) ==
  LET hash == Hmac(byte_secret(totp.secret), to_bytes(counter))
      offset == hash[20] % 16
      code == (hash[offset + 1] % 128) * 2^24 + hash[offset + 2] * 2^16
              + hash[offset + 3] * 2^8 + hash[offset + 4]
  IN  Padded(to_string(code % 10^totp.digits), totp.digits)

timecode(totp, time) == time \div totp.interval

\* verify(key, for_time, 0), as verify_otp calls it.
verify(totp, key, time) ==
  Padded(to_string(key), totp.digits) = generate(totp, timecode(totp, time))
-----------------------------------------------------------------------------
(* The URI.                                                                 *)

Reserved == {34, 35, 37, 38, 60, 62, 63, 64, 91, 92, 93, 94, 96, 123, 124, 125, 126}

Percent == 37
Colon == 58
HexDigit(d) == IF d < 10 THEN 48 + d ELSE 87 + d
h2d(c) == IF c < 58 THEN c - 48 ELSE c - 87

urlencode(bytes) ==
  FlattenSeq([i \in 1..Len(bytes) |->
    LET c == bytes[i]
    IN  IF c <= 32 \/ c \in Reserved \/ (SignedChar /\ c >= 128)
          THEN <<Percent, HexDigit(c \div 16), HexDigit(c % 16)>>
          ELSE <<c>>])

RECURSIVE urldecode(_)
urldecode(text) ==
  CASE text = <<>> -> <<>>
    [] text # <<>> /\ Head(text) # Percent -> <<Head(text)>> \o urldecode(Tail(text))
    [] OTHER -> <<16 * h2d(text[2]) + h2d(text[3])>> \o urldecode(SubSeq(text, 4, Len(text)))

\* A parameter: its key, where its '=' is, how long it is, and its value.
Param(key, at, value) == [key |-> key, at |-> at, value |-> value, size |-> at + 1 + Len(value)]

NoUri == [label |-> <<>>, params |-> <<>>]    \* the empty string

\* build_uri and get_uri: the label and the parameters; nothing for an account or
\* an issuer without a name.  build_uri puts the interval where the counter
\* belongs, so that the period is the default one.
get_uri(totp) ==
  IF totp.issuer = <<>> \/ totp.account = <<>> THEN NoUri
  ELSE [label |-> urlencode(totp.issuer) \o <<Colon>> \o urlencode(totp.account),
        params |-> << Param("secret", 6, totp.secret),
                      Param("issuer", 6, urlencode(totp.issuer)),
                      Param("algorithm", 9, totp.algorithm),
                      Param("digits", 6, to_string(totp.digits)),
                      Param("period", 6, to_string(30)) >>]

\* get_params looks for the '=' of a parameter from the place where the parameter
\* starts in the whole text: of these it finds the first one only.
get_params(params) ==
  LET start[i \in 1..Len(params)] ==
        IF i = 1 THEN 0 ELSE start[i - 1] + params[i - 1].size + 1
      found == {i \in 1..Len(params) : params[i].at >= start[i]}
  IN  [k \in {params[i].key : i \in found} |->
         params[CHOOSE i \in found : params[i].key = k].value]

Number(digits) == FoldLeft(LAMBDA n, d : 10 * n + d, 0, digits)

\* parse: what the reader of a URI learns.  A parameter that is not found has its
\* default; the label holds the issuer, a colon and the account.
parse(uri) ==
  LET label == urldecode(uri.label)
      colon == Min({i \in 1..Len(label) : label[i] = Colon})
      params == get_params(uri.params)
      given(key) == key \in DOMAIN params
  IN  [issuer |-> IF given("issuer") THEN urldecode(params["issuer"])
                  ELSE SubSeq(label, 1, colon - 1),
       account |-> SubSeq(label, colon + 1, Len(label)),
       secret |-> params["secret"],
       algorithm |-> IF given("algorithm") THEN params["algorithm"] ELSE SHA1,
       digits |-> IF given("digits") THEN Number(params["digits"]) ELSE 6,
       interval |-> IF given("period") THEN Number(params["period"]) ELSE 30]

=============================================================================

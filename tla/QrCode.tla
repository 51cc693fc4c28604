------------------------------- MODULE QrCode --------------------------------
(***************************************************************************)
(* The QR symbol of an enrolment URI: qrcodegen's encodeText as            *)
(* QR_code::set_content calls it, with level MEDIUM, any version, the      *)
(* level boosted and the mask chosen by penalty.  A text is a sequence of  *)
(* bytes, a symbol a function from <<x, y>> to whether the module is dark. *)
(***************************************************************************)
EXTENDS Integers, Sequences, SequencesExt, FiniteSetsExt, TLC, Bitwise, Loops

\* Levels LOW, MEDIUM, QUARTILE and HIGH are 1..4; the versions index the tables.
ECC_CODEWORDS_PER_BLOCK == <<
  << 7, 10, 15, 20, 26, 18, 20, 24, 30, 18, 20, 24, 26, 30, 22, 24, 28, 30, 28, 28,
    28, 28, 30, 30, 26, 28, 30, 30, 30, 30, 30, 30, 30, 30, 30, 30, 30, 30, 30, 30>>,
  <<10, 16, 26, 18, 24, 16, 18, 22, 22, 26, 30, 22, 22, 24, 24, 28, 28, 26, 26, 26,
    26, 28, 28, 28, 28, 28, 28, 28, 28, 28, 28, 28, 28, 28, 28, 28, 28, 28, 28, 28>>,
  <<13, 22, 18, 26, 18, 24, 18, 22, 20, 24, 28, 26, 24, 20, 30, 24, 28, 28, 26, 30,
    28, 30, 30, 30, 30, 28, 30, 30, 30, 30, 30, 30, 30, 30, 30, 30, 30, 30, 30, 30>>,
  <<17, 28, 22, 16, 22, 28, 26, 26, 24, 28, 24, 28, 22, 24, 24, 30, 28, 28, 26, 28,
    30, 24, 30, 30, 30, 30, 30, 30, 30, 30, 30, 30, 30, 30, 30, 30, 30, 30, 30, 30>> >>

NUM_ERROR_CORRECTION_BLOCKS == <<
  <<1, 1, 1, 1, 1, 2, 2, 2, 2, 4, 4, 4, 4, 4, 6, 6, 6, 6, 7, 8,
    8, 9, 9, 10, 12, 12, 12, 13, 14, 15, 16, 17, 18, 19, 19, 20, 21, 22, 24, 25>>,
  <<1, 1, 1, 2, 2, 4, 4, 4, 5, 5, 5, 8, 9, 9, 10, 10, 11, 13, 14, 16,
    17, 17, 18, 20, 21, 23, 25, 26, 28, 29, 31, 33, 35, 37, 38, 40, 43, 45, 47, 49>>,
  <<1, 1, 2, 2, 4, 4, 6, 6, 8, 8, 8, 10, 12, 16, 12, 17, 16, 18, 21, 20,
    23, 23, 25, 27, 29, 34, 34, 35, 38, 40, 43, 45, 48, 51, 53, 56, 59, 62, 65, 68>>,
  <<1, 1, 2, 4, 4, 4, 5, 6, 8, 8, 11, 11, 16, 16, 18, 16, 19, 21, 25, 25,
    25, 34, 30, 32, 35, 37, 40, 42, 45, 48, 51, 54, 57, 60, 63, 66, 70, 74, 77, 81>> >>

MAX_VERSION == 40

getBit(v, i) == (v \div 2^i) % 2

\* The bits of a value that appendBits adds, as 0 and 1.
Bits(v, len) == [i \in 1..len |-> getBit(v, len - i)]

\* The same sequence, evaluated.
Tuple(s) == SubSeq(s, 1, Len(s))
-----------------------------------------------------------------------------
(* The segment of a text.                                                   *)

ALPHANUMERIC_CHARSET ==
  [i \in 1..45 |-> IF i <= 10 THEN 47 + i ELSE IF i <= 36 THEN 54 + i
                   ELSE <<32, 36, 37, 42, 43, 45, 46, 47, 58>>[i - 36]]

Charset == {ALPHANUMERIC_CHARSET[i] : i \in 1..45}
Index(c) == CHOOSE i \in 0..44 : ALPHANUMERIC_CHARSET[i + 1] = c

isNumeric(text) == \A i \in 1..Len(text) : text[i] \in 48..57
isAlphanumeric(text) == \A i \in 1..Len(text) : text[i] \in Charset

\* The values in groups of n, each group a number to a base; a group of k values
\* takes width[k] bits.
Packed(values, n, base, width) ==
  LET groups == (Len(values) + n - 1) \div n
      group(g) == SubSeq(values, n * (g - 1) + 1, n * g)
      short(g) == IF n * g <= Len(values) THEN group(g)
                  ELSE SubSeq(values, n * (g - 1) + 1, Len(values))
  IN  Joined([g \in 1..groups |->
        Bits(FoldLeft(LAMBDA v, d : base * v + d, 0, short(g)), width[Len(short(g))])])

\* A mode: its indicator and the widths of its count for versions up to 9, 26, 40.
NUMERIC == [bits |-> 1, count |-> <<10, 12, 14>>]
ALPHANUMERIC == [bits |-> 2, count |-> <<9, 11, 13>>]
BYTE == [bits |-> 4, count |-> <<8, 16, 16>>]

makeNumeric(text) ==
  [mode |-> NUMERIC, numChars |-> Len(text),
   data |-> Packed([i \in 1..Len(text) |-> text[i] - 48], 3, 10, <<4, 7, 10>>)]
makeAlphanumeric(text) ==
  [mode |-> ALPHANUMERIC, numChars |-> Len(text),
   data |-> Packed([i \in 1..Len(text) |-> Index(text[i])], 2, 45, <<6, 11>>)]
makeBytes(text) ==
  [mode |-> BYTE, numChars |-> Len(text), data |-> Packed(text, 1, 256, <<8>>)]

\* A text is not empty: then it is one segment.
makeSegments(text) ==
  CASE isNumeric(text)                             -> makeNumeric(text)
    [] ~isNumeric(text) /\ isAlphanumeric(text)    -> makeAlphanumeric(text)
    [] OTHER                                       -> makeBytes(text)

numCharCountBits(mode, version) ==
  mode.count[IF version <= 9 THEN 1 ELSE IF version <= 26 THEN 2 ELSE 3]

\* -1 when the count does not fit its field.
getTotalBits(seg, version) ==
  LET ccbits == numCharCountBits(seg.mode, version)
  IN  IF seg.numChars >= 2^ccbits THEN -1 ELSE 4 + ccbits + Len(seg.data)
-----------------------------------------------------------------------------
(* The data codewords.                                                      *)

getNumRawDataModules(version) ==
  LET align == version \div 7 + 2
  IN  (16 * version + 128) * version + 64
      - (IF version >= 2 THEN (25 * align - 10) * align - 55 ELSE 0)
      - (IF version >= 7 THEN 36 ELSE 0)

getNumDataCodewords(version, ecl) ==
  getNumRawDataModules(version) \div 8
  - ECC_CODEWORDS_PER_BLOCK[ecl][version] * NUM_ERROR_CORRECTION_BLOCKS[ecl][version]

Fits(seg, version, ecl) ==
  getTotalBits(seg, version) \in 0..(8 * getNumDataCodewords(version, ecl))

\* The smallest version, at level MEDIUM; then the highest level that still fits.
\* A text that fits no version throws data_too_long: those are left out.
MEDIUM == 2
Version(seg) == Min({v \in 1..MAX_VERSION : Fits(seg, v, MEDIUM)})
Boosted(seg, version) == Max({MEDIUM} \cup {e \in 2..4 : Fits(seg, version, e)})

\* Segment, terminator, zeros up to a byte, and 0xEC and 0x11 in turn.
DataCodewords(seg, version, ecl) ==
  LET capacity == 8 * getNumDataCodewords(version, ecl)
      used == Bits(seg.mode.bits, 4)
              \o Bits(seg.numChars, numCharCountBits(seg.mode, version)) \o seg.data
      ended == used \o Bits(0, Min({4, capacity - Len(used)}))
      bytes == Tuple(ended \o Bits(0, (8 - (Len(ended) % 8)) % 8))
      n == Len(bytes) \div 8
      byte(i) == FoldLeft(LAMBDA v, b : 2 * v + b, 0, SubSeq(bytes, 8 * i - 7, 8 * i))
  IN  Tuple([i \in 1..(capacity \div 8) |->
        IF i <= n THEN byte(i) ELSE IF (i - n) % 2 = 1 THEN 236 ELSE 17])
-----------------------------------------------------------------------------
(* Reed-Solomon codes over GF(2^8/0x11D), and the interleaving of blocks.   *)

Double(z) == IF z >= 128 THEN (2 * z) ^^ 285 ELSE 2 * z

reedSolomonMultiply(x, y) ==
  LET product == [a \in 0..255, b \in 0..255 |->
        LET z[i \in 0..8] ==
              IF i = 0 THEN 0
              ELSE LET d == Double(z[i - 1]) IN IF getBit(b, 8 - i) = 1 THEN d ^^ a ELSE d
        IN  z[8]]
  IN  product[x, y]

\* The product of (x - 2^i) for i below degree, its leading 1 left out.
reedSolomonComputeDivisor(degree) ==
  LET root[i \in 0..degree] == IF i = 0 THEN 1 ELSE reedSolomonMultiply(root[i - 1], 2)
      times == [p \in Seq(0..255), r \in 0..255 |->
        Tuple([j \in 1..degree |->
          reedSolomonMultiply(p[j], r) ^^ (IF j < degree THEN p[j + 1] ELSE 0)])]
      product[i \in 0..degree] ==
        IF i = 0 THEN Tuple([j \in 1..degree |-> IF j = degree THEN 1 ELSE 0])
        ELSE times[product[i - 1], root[i - 1]]
  IN  product[degree]

reedSolomonComputeRemainder(data, divisor) ==
  LET n == Len(divisor)
      divide(b) == [r \in Seq(0..255) |->
        LET factor == b ^^ r[1]
        IN  Tuple([i \in 1..n |->
              (IF i < n THEN r[i + 1] ELSE 0) ^^ reedSolomonMultiply(divisor[i], factor)])]
  IN  Through(LAMBDA r, b : divide(b)[r], Tuple([i \in 1..n |-> 0]), data, Seq(0..255))

\* Mutant: the blocks follow each other instead of taking turns.
Concatenated(blocks) == Joined(blocks)

\* Byte i of every block that has one, for i from 1 on.
Interleaved(blocks) ==
  Joined([i \in 1..Len(Last(blocks)) |->
    LET having == SelectSeq(blocks, LAMBDA b : Len(b) >= i)
    IN  [j \in 1..Len(having) |-> having[j][i]]])

\* Data first, error correction after it: the long blocks are the last ones.
addEccAndInterleave(data, version, ecl) ==
  LET numBlocks == NUM_ERROR_CORRECTION_BLOCKS[ecl][version]
      eccLen == ECC_CODEWORDS_PER_BLOCK[ecl][version]
      raw == getNumRawDataModules(version) \div 8
      short == numBlocks - (raw % numBlocks)
      size == raw \div numBlocks - eccLen
      from(i) == (i - 1) * size + Max({0, i - 1 - short})
      block(i) == SubSeq(data, from(i) + 1, from(i + 1))
      divisor == reedSolomonComputeDivisor(eccLen)
      blocks == Tuple([i \in 1..numBlocks |-> block(i)])
      eccs == Tuple([i \in 1..numBlocks |-> reedSolomonComputeRemainder(blocks[i], divisor)])
  IN  Tuple(Interleaved(blocks) \o Interleaved(eccs))
-----------------------------------------------------------------------------
(* The function patterns: functions from modules to colours.  f @@ g is g   *)
(* drawn first and f over it.                                               *)

Side(version) == 4 * version + 17
Square(n) == (0..(n - 1)) \X (0..(n - 1))
Distance(m, x, y) == Max({m[1] - x, x - m[1], m[2] - y, y - m[2]})

Timing(n) == [m \in {c \in Square(n) : 6 \in {c[1], c[2]}} |-> (m[1] + m[2]) % 2 = 0]

drawFinderPattern(n, x, y) ==
  [m \in {c \in Square(n) : Distance(c, x, y) <= 4} |-> Distance(m, x, y) \notin {2, 4}]

drawAlignmentPattern(x, y) ==
  [m \in ((x - 2)..(x + 2)) \X ((y - 2)..(y + 2)) |-> Distance(m, x, y) # 1]

\* The positions, in ascending order.
getAlignmentPatternPositions(version) ==
  LET num == version \div 7 + 2
      step == IF version = 32 THEN 26
              ELSE ((version * 4 + num * 2 + 1) \div (num * 2 - 2)) * 2
  IN  IF version = 1 THEN <<>>
      ELSE [i \in 1..num |-> IF i = 1 THEN 6 ELSE Side(version) - 7 - (num - i) * step]

Alignments(version) ==
  LET at == getAlignmentPatternPositions(version)
      n == Len(at)
      centres == ((1..n) \X (1..n)) \ {<<1, 1>>, <<1, n>>, <<n, 1>>}
  IN  FoldSet(LAMBDA c, f : drawAlignmentPattern(at[c[1]], at[c[2]]) @@ f, <<>>, centres)

\* A BCH code: v with the remainder of its division by a generator of a degree.
Bch(v, degree, generator) ==
  LET rem[i \in 0..degree] ==
        IF i = 0 THEN v
        ELSE LET r == rem[i - 1]
             IN  IF r >= 2^(degree - 1) THEN (2 * r) ^^ generator ELSE 2 * r
  IN  v * 2^degree + rem[degree]

getFormatBits(ecl) == <<1, 0, 3, 2>>[ecl]

Format(ecl, mask) ==
  Bch(getFormatBits(ecl) * 8 + mask, 10, 1335) ^^ 21522    \* 0x537, 0x5412

\* Where bit i of the format goes in either copy.
FirstCopy(i) ==
  CASE i <= 5 -> <<8, i>>
    [] i = 6  -> <<8, 7>>
    [] i = 7  -> <<8, 8>>
    [] i = 8  -> <<7, 8>>
    [] i >= 9 -> <<14 - i, 8>>
SecondCopy(n, i) == IF i < 8 THEN <<n - 1 - i, 8>> ELSE <<8, n - 15 + i>>

drawFormatBits(n, ecl, mask) ==
  LET bits == Format(ecl, mask)
      copies == {FirstCopy(i) : i \in 0..14} \cup {SecondCopy(n, i) : i \in 0..14}
      bit(m) == CHOOSE i \in 0..14 : m \in {FirstCopy(i), SecondCopy(n, i)}
  IN  (<<8, n - 8>> :> TRUE) @@ [m \in copies |-> getBit(bits, bit(m)) = 1]

drawVersion(version) ==
  LET bits == Bch(version, 12, 7973)    \* 0x1F25
      a == Side(version) - 11
      block == (a..(a + 2)) \X (0..5)
      flipped == (0..5) \X (a..(a + 2))
  IN  IF version < 7 THEN <<>>
      ELSE [m \in block |-> getBit(bits, 3 * m[2] + m[1] - a) = 1]
           @@ [m \in flipped |-> getBit(bits, 3 * m[1] + m[2] - a) = 1]

\* The format bits are drawn over again once the mask is known.
drawFunctionPatterns(version) ==
  LET n == Side(version)
  IN  drawVersion(version) @@ drawFormatBits(n, MEDIUM, 0) @@ Alignments(version)
      @@ drawFinderPattern(n, 3, n - 4) @@ drawFinderPattern(n, n - 4, 3)
      @@ drawFinderPattern(n, 3, 3) @@ Timing(n)
-----------------------------------------------------------------------------
(* The codewords in the modules that are left, and the mask.                *)

\* Step k of the scan: pairs of columns from the right, up and down in turn.
Scan(n, k) ==
  LET right == n - 1 - 2 * (k \div (2 * n))
      column == IF right <= 6 THEN right - 1 ELSE right
      vert == (k % (2 * n)) \div 2
      upward == ((column + 1) \div 2) % 2 = 0
  IN  <<column - (k % 2), IF upward THEN n - 1 - vert ELSE vert>>

\* The modules of the bits, in order; those that are left over stay light.
Places(n, reserved) ==
  SelectSeq([k \in 1..(n * (n - 1)) |-> Scan(n, k - 1)], LAMBDA m : m \notin reserved)

drawCodewords(n, reserved, codewords) ==
  LET places == Places(n, reserved)
      bit(i) == getBit(codewords[(i - 1) \div 8 + 1], 7 - ((i - 1) % 8)) = 1
      dark == {places[i] : i \in {i \in 1..(8 * Len(codewords)) : bit(i)}}
  IN  [m \in {places[i] : i \in 1..Len(places)} |-> m \in dark]

Inverts(mask, x, y) ==
  CASE mask = 0 -> (x + y) % 2 = 0
    [] mask = 1 -> y % 2 = 0
    [] mask = 2 -> x % 3 = 0
    [] mask = 3 -> (x + y) % 3 = 0
    [] mask = 4 -> (x \div 3 + y \div 2) % 2 = 0
    [] mask = 5 -> ((x * y) % 2) + ((x * y) % 3) = 0
    [] mask = 6 -> (((x * y) % 2) + ((x * y) % 3)) % 2 = 0
    [] mask = 7 -> (((x + y) % 2) + ((x * y) % 3)) % 2 = 0

\* The modules of the data, masked.
applyMask(mask, data) == [m \in DOMAIN data |-> data[m] # Inverts(mask, m[1], m[2])]

\* The lengths of the runs of a line, light and dark in turn, the first one light
\* (perhaps empty); a border as long as the line is on both sides.
RunHistory(line) ==
  LET n == Len(line)
      ends == SelectSeq([i \in 1..n |-> i], LAMBDA i : i = n \/ line[i] # line[i + 1])
      runs == [j \in 1..Len(ends) |-> ends[j] - (IF j = 1 THEN 0 ELSE ends[j - 1])]
      all == (IF line[1] THEN <<0>> ELSE <<>>) \o runs \o (IF line[n] THEN <<0>> ELSE <<>>)
  IN  Tuple([j \in 1..Len(all) |-> all[j] + (IF j = 1 THEN n ELSE 0) + (IF j = Len(all) THEN n ELSE 0)])

\* A run of 5 or more, its border not counted, costs its length less 2.
RunPenalty(line) ==
  LET n == Len(line)
      same(i, j) == \A k \in i..j : line[k] = line[i]
      starts == {i \in 1..(n - 4) : same(i, i + 4) /\ (i = 1 \/ line[i] # line[i - 1])}
  IN  MapThenSumSet(LAMBDA i : Max({j \in i..n : same(i, j)}) - i - 1, starts)

\* finderPenaltyCountPatterns for every light run: it and the 6 runs before it.
FinderPatterns(history) ==
  LET like(k) ==
        LET h == [i \in 0..6 |-> history[k - i]]
            core == h[2] = h[1] /\ h[3] = 3 * h[1] /\ h[4] = h[1] /\ h[5] = h[1]
        IN  (IF core /\ h[0] >= 4 * h[1] /\ h[6] >= h[1] THEN 1 ELSE 0)
            + (IF core /\ h[6] >= 4 * h[1] /\ h[0] >= h[1] THEN 1 ELSE 0)
  IN  MapThenSumSet(like, {k \in 7..Len(history) : k % 2 = 1})

LinePenalty(line) == RunPenalty(line) + 40 * FinderPatterns(RunHistory(line))

getPenaltyScore(n, symbol) ==
  LET row(y) == Tuple([i \in 1..n |-> symbol[<<i - 1, y>>]])
      column(x) == Tuple([i \in 1..n |-> symbol[<<x, i - 1>>]])
      block(m) == \A dx \in 0..1, dy \in 0..1 : symbol[<<m[1] + dx, m[2] + dy>>] = symbol[m]
      dark == Cardinality({m \in Square(n) : symbol[m]})
      off == Max({20 * dark - 10 * n * n, 10 * n * n - 20 * dark})
  IN  Through(LAMBDA sum, i : sum + LinePenalty(row(i)) + LinePenalty(column(i)),
              0, [i \in 1..n |-> i - 1], Nat)
      + 3 * Cardinality({m \in Square(n - 1) : block(m)})
      + 10 * ((off + n * n - 1) \div (n * n) - 1)

\* The symbol with a mask: version, level and everything drawn.
Drawn(patterns, n, ecl, mask, data) ==
  drawFormatBits(n, ecl, mask) @@ patterns @@ applyMask(mask, data)

\* encodeSegments: what is to be drawn.
Code(text) ==
  LET seg == makeSegments(text)
      version == Version(seg)
      ecl == Boosted(seg, version)
  IN  [version |-> version, ecl |-> ecl,
       codewords |-> addEccAndInterleave(DataCodewords(seg, version, ecl), version, ecl)]

\* The constructor: the mask is the first one of the lowest penalty.
Symbol(code) ==
  LET n == Side(code.version)
      patterns == drawFunctionPatterns(code.version)
      data == drawCodewords(n, DOMAIN patterns, code.codewords)
      drawn(mask) == Drawn(patterns, n, code.ecl, mask, data)
      penalty == Tuple([i \in 1..8 |-> getPenaltyScore(n, drawn(i - 1))])
      mask == Min({i \in 0..7 : \A j \in 1..8 : penalty[i + 1] <= penalty[j]})
  IN  [size |-> n, modules |-> drawn(mask)]

encodeText(text) == Symbol(Code(text))

m_border == 4

\* The picture: a square of the side viewbox and, in it, a unit square at each of
\* the places in path.
get_svg(symbol) ==
  [viewbox |-> symbol.size + 2 * m_border,
   path |-> {<<m[1] + m_border, m[2] + m_border>> : m \in {c \in Square(symbol.size) : symbol.modules[c]}}]

=============================================================================

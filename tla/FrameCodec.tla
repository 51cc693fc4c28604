----------------------------- MODULE FrameCodec ------------------------------
(***************************************************************************)
(* The bytes on the UART of a board: crc16 and encode_frame of             *)
(* board_control.cpp (send_time.cpp has the same three functions again),   *)
(* the fields of a time frame, and the receiver of send_frame_with_ack.    *)
(***************************************************************************)
EXTENDS Naturals, Sequences

DLE == 16
STX == 2
ETX == 3
ACK == 170
NACK == 85
CMD_SYNC_TIME == 3

\* A word is the sequence of its bits, the most significant first.
Bits(v, n) == [i \in 1..n |-> (v \div 2^(n - i)) % 2]
Value(bits) ==
  LET value[i \in 0..Len(bits)] == IF i = 0 THEN 0 ELSE 2 * value[i - 1] + bits[i]
  IN  value[Len(bits)]

\* reverse and reverse16 take the bits of val from the last to the first.
reverse(val) == [i \in 1..Len(val) |-> val[Len(val) - i + 1]]

\* The values of a uint16_t.
Words == [1..16 -> {0, 1}]

Xor(a, b) == [i \in 1..16 |-> (a[i] + b[i]) % 2]
-----------------------------------------------------------------------------
\* One turn of the inner loop: the bit shifted out decides on the XOR.
CrcBit(crc) ==
  LET shifted == SubSeq(crc, 2, 16) \o <<0>>
  IN  IF crc[1] = 1 THEN Xor(shifted, Bits(32773, 16)) ELSE shifted    \* 0x8005

\* What byte b makes of the register: reverse(b, 8) << 8 is taken into it, and it
\* turns 8 times.
CrcByte(b) ==
  [crc \in Words |->
     LET turned[i \in 0..8] ==
           IF i = 0 THEN Xor(crc, reverse(Bits(b, 8)) \o Bits(0, 8)) ELSE CrcBit(turned[i - 1])
     IN  turned[8]]

\* The register after all of the data.
Register(data) ==
  LET crc[i \in 0..Len(data)] ==
        IF i = 0 THEN Bits(0, 16) ELSE CrcByte(data[i])[crc[i - 1]]
  IN  crc[Len(data)]

crc16(data) == reverse(Register(data))

\* The bytes that follow the data: the CRC, high byte first.
High(word) == Value(SubSeq(word, 1, 8))
Low(word) == Value(SubSeq(word, 9, 16))
Sealed(data) == data \o <<High(crc16(data)), Low(crc16(data))>>

\* A byte that looks like DLE is sent twice.
Stuff(frame, b) == IF b = DLE THEN frame \o <<DLE, DLE>> ELSE Append(frame, b)

\* Mutant: only the data is stuffed, not the CRC.
StuffedData(payload) ==
  LET frame[i \in 0..Len(payload)] ==
        IF i = 0 THEN <<>>
        ELSE IF i <= Len(payload) - 2 THEN Stuff(frame[i - 1], payload[i])
        ELSE Append(frame[i - 1], payload[i])
  IN  frame[Len(payload)]

Stuffed(payload) ==
  LET frame[i \in 0..Len(payload)] == IF i = 0 THEN <<>> ELSE Stuff(frame[i - 1], payload[i])
  IN  frame[Len(payload)]

encode_frame(id, command, extra_data) ==
  <<DLE, STX>> \o Stuffed(Sealed(<<2^(id - 1), command>> \o extra_data)) \o <<DLE, ETX>>

\* The hour in the 12 hours of a display, and whether it is after noon.
Hour12(h) == IF h > 12 THEN h - 12 ELSE IF h = 0 THEN 12 ELSE h
IsPm(h) == IF h >= 12 THEN 1 ELSE 0

\* The frame of send_time_sync_from_system for the fields of struct tm.
time_sync(id, t) ==
  encode_frame(id, CMD_SYNC_TIME,
    <<t.year % 100, t.mon + 1, t.mday, Hour12(t.hour), t.min, t.sec, IsPm(t.hour)>>)
-----------------------------------------------------------------------------
(* The receiver: its state, the bytes it has collected, and the answer that *)
(* made send_frame_with_ack return.                                         *)

Listening == [state |-> "WAIT_DLE", payload |-> <<>>, returned |-> FALSE]

Valid(payload) == Len(payload) = 3 /\ payload = Sealed(<<payload[1]>>)

\* The byte after a DLE in a frame.  After a NACK the break leaves the switch
\* before the state is reset: the receiver stays in WAIT_ETX with its payload.
AtEnd(r, rx) ==
  LET answer == IF rx = ETX /\ Valid(r.payload) THEN r.payload[1] ELSE 0
  IN  CASE answer = ACK  -> [r EXCEPT !.returned = TRUE]
        [] answer = NACK -> r
        [] OTHER         -> Listening

Receive(r, rx) ==
  CASE r.returned -> r
    [] r.state = "WAIT_DLE" /\ ~r.returned ->
         IF rx = DLE THEN [r EXCEPT !.state = "WAIT_STX"] ELSE r
    [] r.state = "WAIT_STX" /\ ~r.returned ->
         CASE rx = STX -> [r EXCEPT !.state = "IN_FRAME", !.payload = <<>>]
           [] rx = DLE -> r
           [] OTHER    -> [r EXCEPT !.state = "WAIT_DLE"]
    [] r.state = "IN_FRAME" /\ ~r.returned ->
         IF rx = DLE THEN [r EXCEPT !.state = "WAIT_ETX"]
         ELSE [r EXCEPT !.payload = Append(@, rx)]
    [] r.state = "WAIT_ETX" /\ ~r.returned -> AtEnd(r, rx)

\* The states of the receiver, what a byte makes of each, and what bytes make of the
\* first one.
Receivers ==
  [state : {"WAIT_DLE", "WAIT_STX", "IN_FRAME", "WAIT_ETX"}, payload : Seq(Nat), returned : BOOLEAN]
Receiving(rx) == [r \in Receivers |-> Receive(r, rx)]

Received(bytes) ==
  LET r[i \in 0..Len(bytes)] == IF i = 0 THEN Listening ELSE Receiving(bytes[i])[r[i - 1]]
  IN  r[Len(bytes)]

=============================================================================

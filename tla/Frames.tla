------------------------------- MODULE Frames --------------------------------
(***************************************************************************)
(* The bytes to and from a board (FrameCodec) against reference            *)
(* definitions: the CRC of a standard, a board that removes the stuffing,  *)
(* and the receiver that handles whole answers, which BoardLink has.       *)
(***************************************************************************)
EXTENDS Inputs, Integers

Frame == INSTANCE FrameCodec

\* The data of frames are bytes, the answers of a board ACK and NACK.
ASSUME FrameInputs ==
  /\ "data" \in DOMAIN MaxLen =>
       Seeds["data"] \subseteq Seq(0..255) /\ Symbols["data"] \subseteq 0..255
  /\ "answers" \in DOMAIN MaxLen =>
       /\ Seeds["answers"] \subseteq Seq({"ACK", "NACK"})
       /\ Symbols["answers"] \subseteq {"ACK", "NACK"}

\* CRC-16/ARC as a standard gives it: least significant bit first, 0xA001.
ReferenceBit(c) ==
  LET shifted == <<0>> \o SubSeq(c, 1, 15)
  IN  IF c[16] = 1 THEN Frame!Xor(shifted, Frame!Bits(40961, 16)) ELSE shifted

ReferenceByte(b) ==
  [c \in Frame!Words |->
     LET turned[i \in 0..8] ==
           IF i = 0 THEN Frame!Xor(c, Frame!Bits(0, 8) \o Frame!Bits(b, 8))
           ELSE ReferenceBit(turned[i - 1])
     IN  turned[8]]

CrcReference(data) ==
  LET crc[i \in 0..Len(data)] ==
        IF i = 0 THEN Frame!Bits(0, 16) ELSE ReferenceByte(data[i])[crc[i - 1]]
  IN  crc[Len(data)]

\* What a board makes of the bytes between DLE STX and DLE ETX: DLE DLE is one
\* byte 16, a DLE with anything else after it is an error.
Torn == <<-1>>

Unstuff(r, b) ==
  CASE r.state = "plain" /\ b # Frame!DLE  -> [r EXCEPT !.content = Append(@, b)]
    [] r.state = "plain" /\ b = Frame!DLE  -> [r EXCEPT !.state = "dle"]
    [] r.state = "dle" /\ b = Frame!DLE    -> [state |-> "plain", content |-> Append(r.content, b)]
    [] OTHER                               -> [r EXCEPT !.state = "torn"]

Fresh == [state |-> "plain", content |-> <<>>]

Unstuffing(bytes) ==
  LET r[i \in 0..Len(bytes)] == IF i = 0 THEN Fresh ELSE Unstuff(r[i - 1], bytes[i])
  IN  r[Len(bytes)]

Unstuffed(bytes) ==
  LET r == Unstuffing(bytes) IN IF r.state = "plain" THEN r.content ELSE Torn

\* The receiver as BoardLink has it: a positive answer counts unless the
\* receiver is out of step, and every other answer puts it out of step or back.
Answer(r, a) ==
  CASE r.returned -> r
    [] ~r.returned /\ ~r.deaf /\ a = "ACK" -> [r EXCEPT !.returned = TRUE]
    [] OTHER -> [r EXCEPT !.deaf = ~@]

Awaiting == [returned |-> FALSE, deaf |-> FALSE]

Answered(answers) ==
  LET r[i \in 0..Len(answers)] == IF i = 0 THEN Awaiting ELSE Answer(r[i - 1], answers[i])
  IN  r[Len(answers)]

AnswerBytes(a) ==
  <<Frame!DLE, Frame!STX>>
  \o Frame!Sealed(<<IF a = "ACK" THEN Frame!ACK ELSE Frame!NACK>>)
  \o <<Frame!DLE, Frame!ETX>>

BytesOf(answers) ==
  LET bytes[i \in 0..Len(answers)] ==
        IF i = 0 THEN <<>> ELSE bytes[i - 1] \o AnswerBytes(answers[i])
  IN  bytes[Len(answers)]

\* encode_frame: between its delimiters a frame has nothing that looks like one,
\* and a board that removes the stuffing finds its own mask, the command, the
\* data and a CRC that a standard CRC-16 unit accepts, whatever bytes the data
\* and the CRC consist of; the hour of a time frame is the one of the clock.
\* The receiver of send_frame_with_ack, reading the bytes of any sequence of
\* whole answers, returns exactly when the message-level receiver of BoardLink
\* does: a NACK costs the answer after it, and no more than that one.
FramesDecode ==
  /\ kind = "data" =>
       \A id \in 1..8, command \in 1..3 :
         LET frame == Frame!encode_frame(id, command, input)
             n == Len(frame)
             content == Unstuffed(SubSeq(frame, 3, n - 2))
             data == <<2^(id - 1), command>> \o input
             crc == CrcReference(data)
         IN  /\ SubSeq(frame, 1, 2) = <<Frame!DLE, Frame!STX>>
             /\ SubSeq(frame, n - 1, n) = <<Frame!DLE, Frame!ETX>>
             /\ content = data \o <<Frame!High(crc), Frame!Low(crc)>>
  /\ kind = "data" /\ input = <<>> =>
       \A h \in 0..23 :
         LET t == [year |-> 126, mon |-> 9, mday |-> 16, hour |-> h, min |-> 16, sec |-> 0]
             c == Unstuffed(SubSeq(Frame!time_sync(5, t), 3, Len(Frame!time_sync(5, t)) - 2))
         IN  /\ SubSeq(c, 1, 5) = <<16, 3, 26, 10, 16>>
             /\ c[6] \in 1..12 /\ h = (c[6] % 12) + 12 * c[9]
  /\ kind = "answers" =>
       Frame!Received(BytesOf(input)).returned = Answered(input).returned

=============================================================================

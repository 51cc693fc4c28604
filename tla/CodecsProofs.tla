---------------------------- MODULE CodecsProofs -----------------------------
(***************************************************************************)
(* FramesDecode of Frames for inputs of every length.  The loops of        *)
(* FrameCodec and Frames are recursive functions over the positions of a   *)
(* sequence; a loop is shown to take its elements one by one, and what it  *)
(* computes follows by induction over sequences.  crc16 and the CRC of the *)
(* standard are mirror images in every turn; a board that removes the      *)
(* stuffing has found the payload so far after each of its bytes; and the  *)
(* receiver of bytes is in step with the receiver of whole answers.        *)
(* base64_encode of Pictures likewise: after each byte all bytes before it *)
(* are in the text, and the bits of the last one are there or in val.      *)
(***************************************************************************)
EXTENDS Frames, Pictures, SequenceTheorems, WellFoundedInduction, TLAPS

-----------------------------------------------------------------------------
(* Induction, and loops written as recursive functions.                     *)

\* Induction over the natural numbers, for a set instead of a predicate.
LEMMA InductionLemma ==
  ASSUME NEW T, 0 \in T, \A n \in Nat : n \in T => n + 1 \in T
  PROVE  Nat \subseteq T
<1> SUFFICES ASSUME Nat \ T # {} PROVE FALSE
  OBVIOUS
<1>1. PICK x \in Nat \ T : \A y \in Nat \ T : <<y, x>> \notin OpToRel(<, Nat)
  BY NatLessThanWellFounded, WFMin, Zenon
<1>2. \A y \in Nat \ T : ~(y < x)
  BY <1>1, Zenon DEF OpToRel
<1>3. x # 0 /\ x \in Nat
  BY Zenon
<1>4. x - 1 \in Nat /\ x - 1 < x /\ (x - 1) + 1 = x
  BY <1>3
<1>5. x - 1 \in T
  BY <1>2, <1>4, Zenon
<1>6. (x - 1) + 1 \in T
  BY <1>4, <1>5, Zenon
<1>7. QED
  BY <1>4, <1>6, Zenon

\* A loop takes the elements of s one by one: f is its step, g its states.
IsStep(f, R, B) == f \in [R \X B -> R]
IsRun(g, f, R, r0, s) ==
  /\ g \in [0..Len(s) -> R]
  /\ g[0] = r0
  /\ \A i \in 1..Len(s) : g[i] = f[<<g[i - 1], s[i]>>]

\* The state in which the loop ends.
Result(f, R, r0, s) == (CHOOSE g : IsRun(g, f, R, r0, s))[Len(s)]

\* Every loop runs to the end of its sequence.
LEMMA LoopLemma ==
  ASSUME NEW R, NEW B, NEW f, IsStep(f, R, B), NEW r0 \in R, NEW s \in Seq(B)
  PROVE  \E g : IsRun(g, f, R, r0, s)
<1> USE DEF IsStep
<1> DEFINE Runs(n) == {g \in [0..n -> R] :
                         g[0] = r0 /\ \A i \in 1..n : g[i] = f[<<g[i - 1], s[i]>>]}
           T == {n \in Nat : n <= Len(s) => Runs(n) # {}}
<1>1. 0 \in T
  <2>1. [i \in 0..0 |-> r0] \in Runs(0)
    OBVIOUS
  <2>2. QED
    BY <2>1
<1>2. \A n \in Nat : n \in T => n + 1 \in T
  <2> SUFFICES ASSUME NEW n \in Nat, n \in T, n + 1 <= Len(s)
               PROVE  Runs(n + 1) # {}
    OBVIOUS
  <2>1. PICK g : g \in Runs(n)
    OBVIOUS
  <2> DEFINE h == [i \in 0..(n + 1) |-> IF i = n + 1 THEN f[<<g[n], s[n + 1]>>] ELSE g[i]]
  <2>2. s[n + 1] \in B /\ g[n] \in R
    BY <2>1
  <2>3. f[<<g[n], s[n + 1]>>] \in R
    BY <2>2
  <2>4. h \in [0..(n + 1) -> R]
    BY <2>1, <2>3
  <2>5. h[0] = r0
    BY <2>1
  <2>6. \A i \in 1..(n + 1) : h[i] = f[<<h[i - 1], s[i]>>]
    <3> SUFFICES ASSUME NEW i \in 1..(n + 1) PROVE h[i] = f[<<h[i - 1], s[i]>>]
      OBVIOUS
    <3>1. h[i - 1] = g[i - 1]
      OBVIOUS
    <3>2. CASE i = n + 1
      <4>1. h[i] = f[<<g[n], s[n + 1]>>] /\ i - 1 = n
        BY <3>2
      <4>2. QED
        BY <3>1, <3>2, <4>1, Zenon
    <3>3. CASE i # n + 1
      <4>1. i \in 1..n /\ h[i] = g[i]
        BY <3>3
      <4>2. QED
        BY <2>1, <3>1, <4>1, Zenon
    <3>4. QED
      BY <3>2, <3>3
  <2>7. h \in Runs(n + 1)
    BY <2>4, <2>5, <2>6
  <2>8. QED
    BY <2>7
<1> HIDE DEF T
<1>3. Len(s) \in T
  BY <1>1, <1>2, InductionLemma
<1>4. Runs(Len(s)) # {}
  BY <1>3 DEF T
<1>5. QED
  BY <1>4 DEF IsRun

\* Two loops that start alike and step alike end alike.
Alike(g, h, n) == g[0] = h[0] /\ \A i \in 1..n : g[i - 1] = h[i - 1] => g[i] = h[i]

\* Two loops that step alike have the same states.
LEMMA AgreeLemma ==
  ASSUME NEW n \in Nat, NEW g, NEW h, Alike(g, h, n)
  PROVE  g[n] = h[n]
<1> USE DEF Alike
<1> DEFINE T == {k \in Nat : k <= n => g[k] = h[k]}
<1>1. 0 \in T
  OBVIOUS
<1>2. \A k \in Nat : k \in T => k + 1 \in T
  OBVIOUS
<1> HIDE DEF T
<1>3. Nat \subseteq T
  BY <1>1, <1>2, InductionLemma, Zenon
<1>4. QED
  BY <1>3 DEF T

Follows(g, f, R, r0, s) ==
  /\ g[0] = r0
  /\ \A i \in 1..Len(s) : g[i - 1] \in R => g[i] = f[<<g[i - 1], s[i]>>]

\* What loops return: a loop that steps like f, as long as its states are in R,
\* returns what f's loop does.
LEMMA ResultIs ==
  ASSUME NEW R, NEW B, NEW f, IsStep(f, R, B), NEW r0 \in R, NEW s \in Seq(B),
         NEW g, Follows(g, f, R, r0, s)
  PROVE  g[Len(s)] = Result(f, R, r0, s) /\ g[Len(s)] \in R
<1> DEFINE h == CHOOSE h : IsRun(h, f, R, r0, s)
<1>1. IsRun(h, f, R, r0, s)
  BY LoopLemma, Zenon
<1> HIDE DEF h
<1>2. Len(s) \in Nat
  OBVIOUS
<1>3. \A i \in 1..Len(s) : i - 1 \in 0..Len(s)
  BY <1>2
<1>4. \A i \in 1..Len(s) : h[i - 1] \in R /\ h[i] = f[<<h[i - 1], s[i]>>]
  BY <1>1, <1>3, Zenon DEF IsRun
<1>5. Alike(g, h, Len(s))
  BY <1>1, <1>4, Zenon DEF IsRun, Alike, Follows
<1>6. g[Len(s)] = h[Len(s)]
  BY <1>2, <1>5, AgreeLemma, Zenon
<1>7. Len(s) \in 0..Len(s)
  BY <1>2
<1>8. h[Len(s)] \in R
  BY <1>1, <1>7, Zenon DEF IsRun
<1>9. QED
  BY <1>6, <1>7, <1>8, Zenon DEF Result, h

\* The result, element by element.
Applied(f, r, b) == f[<<r, b>>]

\* A loop over nothing returns its first state.
LEMMA ResultEmpty ==
  ASSUME NEW R, NEW B, NEW f, IsStep(f, R, B), NEW r0 \in R
  PROVE  Result(f, R, r0, <<>>) = r0
<1>1. <<>> \in Seq(B) /\ Len(<<>>) = 0
  OBVIOUS
<1>2. PICK g : IsRun(g, f, R, r0, <<>>)
  BY <1>1, LoopLemma, Zenon
<1>3. Follows(g, f, R, r0, <<>>)
  BY <1>2, Zenon DEF IsRun, Follows
<1>4. g[Len(<<>>)] = Result(f, R, r0, <<>>)
  BY <1>1, <1>3, ResultIs, Zenon
<1>5. QED
  BY <1>1, <1>2, <1>4, Zenon DEF IsRun

\* A loop returns a state.
LEMMA ResultType ==
  ASSUME NEW R, NEW B, NEW f, IsStep(f, R, B), NEW r0 \in R, NEW s \in Seq(B)
  PROVE  Result(f, R, r0, s) \in R
<1>1. PICK g : IsRun(g, f, R, r0, s)
  BY LoopLemma, Zenon
<1>2. Follows(g, f, R, r0, s)
  BY <1>1, Zenon DEF IsRun, Follows
<1>3. QED
  BY <1>2, ResultIs, Zenon

\* A loop over one element more takes one step more.
LEMMA ResultAppend ==
  ASSUME NEW R, NEW B, NEW f, IsStep(f, R, B), NEW r0 \in R, NEW s \in Seq(B), NEW b \in B
  PROVE  Result(f, R, r0, Append(s, b)) = Applied(f, Result(f, R, r0, s), b)
<1> DEFINE t == Append(s, b)
<1>1. /\ t \in Seq(B) /\ Len(t) = Len(s) + 1 /\ Len(s) \in Nat /\ t[Len(s) + 1] = b
      /\ \A i \in 1..Len(s) : t[i] = s[i] /\ i \in 1..(Len(s) + 1)
      /\ Len(s) + 1 \in 1..(Len(s) + 1) /\ (Len(s) + 1) - 1 = Len(s)
  OBVIOUS
<1> HIDE DEF t
<1>2. PICK h : IsRun(h, f, R, r0, t)
  BY <1>1, LoopLemma, Zenon
<1>3. Follows(h, f, R, r0, s) /\ Follows(h, f, R, r0, t)
  BY <1>1, <1>2, Zenon DEF IsRun, Follows
<1>4. h[Len(s)] = Result(f, R, r0, s)
  BY <1>3, ResultIs, Zenon
<1>5. h[Len(t)] = Result(f, R, r0, t)
  <2>1. t \in Seq(B) /\ Follows(h, f, R, r0, t)
    BY <1>1, <1>3, Zenon
  <2>2. QED
    BY <2>1, ResultIs
<1>6. h[Len(s) + 1] = f[<<h[(Len(s) + 1) - 1], t[Len(s) + 1]>>]
  BY <1>1, <1>2, Zenon DEF IsRun
<1>7. QED
  BY <1>1, <1>4, <1>5, <1>6, Zenon DEF t, Applied

\* Induction over sequences, likewise for a set.
LEMMA SeqInduction ==
  ASSUME NEW B, NEW T, <<>> \in T,
         \A s \in Seq(B), b \in B : s \in T => Append(s, b) \in T
  PROVE  \A s \in Seq(B) : s \in T
<1> DEFINE K == {n \in Nat : \A s \in Seq(B) : Len(s) = n => s \in T}
<1>1. 0 \in K
  <2>1. \A s \in Seq(B) : Len(s) = 0 => s = <<>>
    BY EmptySeq
  <2>2. QED
    BY <2>1
<1>2. \A n \in Nat : n \in K => n + 1 \in K
  <2> SUFFICES ASSUME NEW n \in Nat, n \in K, NEW s \in Seq(B), Len(s) = n + 1
               PROVE  s \in T
    OBVIOUS
  <2>1. s # <<>>
    OBVIOUS
  <2>2. PICK t \in Seq(B), b \in B : s = Append(t, b)
    BY <2>1, SequenceEmptyOrAppend
  <2>3. Len(t) = n
    BY <2>2
  <2>4. t \in T
    BY <2>3
  <2>5. QED
    BY <2>2, <2>4, Zenon
<1> HIDE DEF K
<1>3. Nat \subseteq K
  BY <1>1, <1>2, InductionLemma, Zenon
<1>4. ASSUME NEW s \in Seq(B) PROVE s \in T
  <2>1. Len(s) \in K
    BY <1>3
  <2>2. QED
    BY <2>1 DEF K
<1>5. QED
  BY <1>4

-----------------------------------------------------------------------------
(* The loops of FrameCodec and Frames.                                      *)

\* The states of a board that removes the stuffing, and of the receiver of whole
\* answers.
Decoders == [state : {"plain", "dle", "torn"}, content : Seq(Nat)]
Listeners == [returned : BOOLEAN, deaf : BOOLEAN]
Answers == {"ACK", "NACK"}
Strings == Seq(Nat)
Numbers == Nat

\* A byte takes the receiver of send_frame_with_ack from a state to a state.
LEMMA ReceiveType ==
  ASSUME NEW r \in Frame!Receivers, NEW rx \in Nat
  PROVE  Frame!Receive(r, rx) \in Frame!Receivers
<1> USE DEF Frame!Receivers
<1>1. Frame!Listening \in Frame!Receivers
  BY DEF Frame!Listening
<1>2. Frame!AtEnd(r, rx) \in Frame!Receivers
  <2>1. [r EXCEPT !.returned = TRUE] \in Frame!Receivers
    OBVIOUS
  <2>2. QED
    BY <1>1, <2>1, Zenon DEF Frame!AtEnd
<1>3. /\ [r EXCEPT !.state = "WAIT_STX"] \in Frame!Receivers
      /\ [r EXCEPT !.state = "WAIT_ETX"] \in Frame!Receivers
      /\ [r EXCEPT !.state = "WAIT_DLE"] \in Frame!Receivers
      /\ [r EXCEPT !.state = "IN_FRAME", !.payload = <<>>] \in Frame!Receivers
      /\ [r EXCEPT !.payload = Append(@, rx)] \in Frame!Receivers
  <2>1. Append(r.payload, rx) \in Seq(Nat)
    OBVIOUS
  <2>2. [r EXCEPT !.payload = Append(@, rx)] \in Frame!Receivers
    BY <2>1
  <2>3. /\ [r EXCEPT !.state = "WAIT_STX"] \in Frame!Receivers
        /\ [r EXCEPT !.state = "WAIT_ETX"] \in Frame!Receivers
        /\ [r EXCEPT !.state = "WAIT_DLE"] \in Frame!Receivers
    OBVIOUS
  <2>4. [r EXCEPT !.state = "IN_FRAME", !.payload = <<>>] \in Frame!Receivers
    <3>1. <<>> \in Seq(Nat)
      OBVIOUS
    <3>2. QED
      BY <3>1, Zenon
  <2>5. QED
    BY <2>2, <2>3, <2>4, Zenon
<1>4. r.returned \in BOOLEAN /\ r.state \in {"WAIT_DLE", "WAIT_STX", "IN_FRAME", "WAIT_ETX"}
  OBVIOUS
<1> HIDE DEF Frame!Receivers
<1>5. QED
  BY <1>2, <1>3, <1>4 DEF Frame!Receive

\* A byte takes a board from a state to a state.
LEMMA UnstuffType ==
  ASSUME NEW r \in Decoders, NEW b \in Nat
  PROVE  Unstuff(r, b) \in Decoders
<1> USE DEF Decoders
<1>1. Append(r.content, b) \in Seq(Nat)
  OBVIOUS
<1>2. [r EXCEPT !.content = Append(@, b)] \in Decoders
  BY <1>1
<1>3. [state |-> "plain", content |-> Append(r.content, b)] \in Decoders
  BY <1>1
<1>4. [r EXCEPT !.state = "dle"] \in Decoders /\ [r EXCEPT !.state = "torn"] \in Decoders
  OBVIOUS
<1> HIDE DEF Decoders
<1>5. QED
  BY <1>2, <1>3, <1>4 DEF Unstuff

\* An answer takes the receiver of whole answers from a state to a state.
LEMMA AnswerType ==
  ASSUME NEW r \in Listeners, NEW a \in Answers
  PROVE  Answer(r, a) \in Listeners
  BY DEF Answer, Listeners

\* A byte of the payload adds bytes to the frame of encode_frame.
LEMMA StuffType ==
  ASSUME NEW q \in Seq(Nat), NEW b \in Nat
  PROVE  Frame!Stuff(q, b) \in Seq(Nat)
  BY DEF Frame!Stuff, Frame!DLE

\* send_frame_with_ack takes the bytes of answers one by one.
LEMMA ReceivedLemma ==
  /\ Frame!Received(<<>>) = Frame!Listening
  /\ \A s \in Seq(Nat) :
       /\ Frame!Received(s) \in Frame!Receivers
       /\ \A b \in Nat : Frame!Received(Append(s, b)) = Frame!Receive(Frame!Received(s), b)
<1> DEFINE f == [p \in Frame!Receivers \X Nat |-> Frame!Receive(p[1], p[2])]
<1>1. IsStep(f, Frame!Receivers, Nat)
  BY ReceiveType DEF IsStep
<1>2. Frame!Listening \in Frame!Receivers
  BY DEF Frame!Listening, Frame!Receivers
<1>3. \A r \in Frame!Receivers, b \in Nat :
        Applied(f, r, b) = Frame!Receiving(b)[r] /\ Frame!Receiving(b)[r] = Frame!Receive(r, b)
  BY DEF Applied, Frame!Receiving
<1> HIDE DEF f
<1>4. ASSUME NEW s \in Seq(Nat)
      PROVE  Frame!Received(s) = Result(f, Frame!Receivers, Frame!Listening, s)
  <2> DEFINE body(g) ==
        [i \in 0..Len(s) |-> IF i = 0 THEN Frame!Listening ELSE Frame!Receiving(s[i])[g[i - 1]]]
      c == CHOOSE g : g = body(g)
  <2>1. PICK g : IsRun(g, f, Frame!Receivers, Frame!Listening, s)
    BY <1>1, <1>2, LoopLemma, Zenon
  <2>2. \A i \in 1..Len(s) : s[i] \in Nat /\ i \in 0..Len(s) /\ i # 0 /\ i - 1 \in 0..Len(s)
    OBVIOUS
  <2>3. 0 \in 0..Len(s) /\ \A i \in 0..Len(s) : i = 0 \/ i \in 1..Len(s)
    OBVIOUS
  <2>4. \A i \in 1..Len(s) : g[i] = Frame!Receiving(s[i])[g[i - 1]]
    BY <1>3, <2>1, <2>2, Zenon DEF IsRun, Applied
  <2>5. g = body(g)
    BY <2>1, <2>3, <2>4, Zenon DEF IsRun
  <2>6. c = body(c)
    BY <2>5, Zenon
  <2>7. Frame!Received(s) = c[Len(s)]
    BY Zenon DEF Frame!Received
  <2> HIDE DEF c
  <2>8. \A i \in 0..Len(s) : c[i] = IF i = 0 THEN Frame!Listening ELSE Frame!Receiving(s[i])[c[i - 1]]
    BY <2>6, Zenon
  <2> HIDE DEF body
  <2>9. Follows(c, f, Frame!Receivers, Frame!Listening, s)
    BY <1>3, <2>2, <2>3, <2>8, Zenon DEF Follows, Applied
  <2>10. c[Len(s)] = Result(f, Frame!Receivers, Frame!Listening, s)
    BY <1>1, <1>2, <2>9, ResultIs
  <2>11. QED
    BY <2>7, <2>10, Zenon
<1>5. Frame!Received(<<>>) = Frame!Listening
  <2>1. <<>> \in Seq(Nat)
    OBVIOUS
  <2>2. Result(f, Frame!Receivers, Frame!Listening, <<>>) = Frame!Listening
    BY <1>1, <1>2, ResultEmpty
  <2>3. QED
    BY <1>4, <2>1, <2>2, Zenon
<1>6. ASSUME NEW s \in Seq(Nat)
      PROVE  Frame!Received(s) \in Frame!Receivers
  <2>1. Result(f, Frame!Receivers, Frame!Listening, s) \in Frame!Receivers
    BY <1>1, <1>2, ResultType
  <2>2. QED
    BY <1>4, <2>1, Zenon
<1>7. ASSUME NEW s \in Seq(Nat), NEW b \in Nat
      PROVE  Frame!Received(Append(s, b)) = Frame!Receive(Frame!Received(s), b)
  <2>1. Append(s, b) \in Seq(Nat)
    OBVIOUS
  <2>2. Result(f, Frame!Receivers, Frame!Listening, Append(s, b)) = Applied(f, Result(f, Frame!Receivers, Frame!Listening, s), b)
    BY <1>1, <1>2, ResultAppend
  <2>3. Applied(f, Frame!Received(s), b) = Frame!Receive(Frame!Received(s), b)
    <3>1. \A r \in Frame!Receivers, x \in Nat : Applied(f, r, x) = Frame!Receive(r, x)
      BY <1>3, Zenon
    <3>2. QED
      BY <1>6, <3>1, Zenon
  <2>4. QED
    BY <1>4, <2>1, <2>2, <2>3, Zenon
<1>8. QED
  BY <1>5, <1>6, <1>7, Zenon

\* A board takes the bytes of a frame one by one.
LEMMA UnstuffingLemma ==
  /\ Unstuffing(<<>>) = Fresh
  /\ \A s \in Seq(Nat) :
       /\ Unstuffing(s) \in Decoders
       /\ \A b \in Nat : Unstuffing(Append(s, b)) = Unstuff(Unstuffing(s), b)
<1> DEFINE f == [p \in Decoders \X Nat |-> Unstuff(p[1], p[2])]
<1>1. IsStep(f, Decoders, Nat)
  BY UnstuffType DEF IsStep
<1>2. Fresh \in Decoders
  BY DEF Fresh, Decoders
<1>3. \A r \in Decoders, b \in Nat : Applied(f, r, b) = Unstuff(r, b)
  BY DEF Applied
<1> HIDE DEF f
<1>4. ASSUME NEW s \in Seq(Nat)
      PROVE  Unstuffing(s) = Result(f, Decoders, Fresh, s)
  <2> DEFINE body(g) ==
        [i \in 0..Len(s) |-> IF i = 0 THEN Fresh ELSE Unstuff(g[i - 1], s[i])]
      c == CHOOSE g : g = body(g)
  <2>1. PICK g : IsRun(g, f, Decoders, Fresh, s)
    BY <1>1, <1>2, LoopLemma, Zenon
  <2>2. \A i \in 1..Len(s) : s[i] \in Nat /\ i \in 0..Len(s) /\ i # 0 /\ i - 1 \in 0..Len(s)
    OBVIOUS
  <2>3. 0 \in 0..Len(s) /\ \A i \in 0..Len(s) : i = 0 \/ i \in 1..Len(s)
    OBVIOUS
  <2>4. \A i \in 1..Len(s) : g[i] = Unstuff(g[i - 1], s[i])
    BY <1>3, <2>1, <2>2, Zenon DEF IsRun, Applied
  <2>5. g = body(g)
    BY <2>1, <2>3, <2>4, Zenon DEF IsRun
  <2>6. c = body(c)
    BY <2>5, Zenon
  <2>7. Unstuffing(s) = c[Len(s)]
    BY Zenon DEF Unstuffing
  <2> HIDE DEF c
  <2>8. \A i \in 0..Len(s) : c[i] = IF i = 0 THEN Fresh ELSE Unstuff(c[i - 1], s[i])
    BY <2>6, Zenon
  <2> HIDE DEF body
  <2>9. Follows(c, f, Decoders, Fresh, s)
    BY <1>3, <2>2, <2>3, <2>8, Zenon DEF Follows, Applied
  <2>10. c[Len(s)] = Result(f, Decoders, Fresh, s)
    BY <1>1, <1>2, <2>9, ResultIs
  <2>11. QED
    BY <2>7, <2>10, Zenon
<1>5. Unstuffing(<<>>) = Fresh
  <2>1. <<>> \in Seq(Nat)
    OBVIOUS
  <2>2. Result(f, Decoders, Fresh, <<>>) = Fresh
    BY <1>1, <1>2, ResultEmpty
  <2>3. QED
    BY <1>4, <2>1, <2>2, Zenon
<1>6. ASSUME NEW s \in Seq(Nat)
      PROVE  Unstuffing(s) \in Decoders
  <2>1. Result(f, Decoders, Fresh, s) \in Decoders
    BY <1>1, <1>2, ResultType
  <2>2. QED
    BY <1>4, <2>1, Zenon
<1>7. ASSUME NEW s \in Seq(Nat), NEW b \in Nat
      PROVE  Unstuffing(Append(s, b)) = Unstuff(Unstuffing(s), b)
  <2>1. Append(s, b) \in Seq(Nat)
    OBVIOUS
  <2>2. Result(f, Decoders, Fresh, Append(s, b)) = Applied(f, Result(f, Decoders, Fresh, s), b)
    BY <1>1, <1>2, ResultAppend
  <2>3. QED
    BY <1>3, <1>4, <1>6, <2>1, <2>2, Zenon
<1>8. QED
  BY <1>5, <1>6, <1>7, Zenon

\* The receiver of whole answers takes them one by one.
LEMMA AnsweredLemma ==
  /\ Answered(<<>>) = Awaiting
  /\ \A s \in Seq(Answers) :
       /\ Answered(s) \in Listeners
       /\ \A b \in Answers : Answered(Append(s, b)) = Answer(Answered(s), b)
<1> DEFINE f == [p \in Listeners \X Answers |-> Answer(p[1], p[2])]
<1>1. IsStep(f, Listeners, Answers)
  BY AnswerType DEF IsStep
<1>2. Awaiting \in Listeners
  BY DEF Awaiting, Listeners
<1>3. \A r \in Listeners, b \in Answers : Applied(f, r, b) = Answer(r, b)
  BY DEF Applied
<1> HIDE DEF f
<1>4. ASSUME NEW s \in Seq(Answers)
      PROVE  Answered(s) = Result(f, Listeners, Awaiting, s)
  <2> DEFINE body(g) ==
        [i \in 0..Len(s) |-> IF i = 0 THEN Awaiting ELSE Answer(g[i - 1], s[i])]
      c == CHOOSE g : g = body(g)
  <2>1. PICK g : IsRun(g, f, Listeners, Awaiting, s)
    BY <1>1, <1>2, LoopLemma, Zenon
  <2>2. \A i \in 1..Len(s) : s[i] \in Answers /\ i \in 0..Len(s) /\ i # 0 /\ i - 1 \in 0..Len(s)
    OBVIOUS
  <2>3. 0 \in 0..Len(s) /\ \A i \in 0..Len(s) : i = 0 \/ i \in 1..Len(s)
    OBVIOUS
  <2>4. \A i \in 1..Len(s) : g[i] = Answer(g[i - 1], s[i])
    BY <1>3, <2>1, <2>2, Zenon DEF IsRun, Applied
  <2>5. g = body(g)
    BY <2>1, <2>3, <2>4, Zenon DEF IsRun
  <2>6. c = body(c)
    BY <2>5, Zenon
  <2>7. Answered(s) = c[Len(s)]
    BY Zenon DEF Answered
  <2> HIDE DEF c
  <2>8. \A i \in 0..Len(s) : c[i] = IF i = 0 THEN Awaiting ELSE Answer(c[i - 1], s[i])
    BY <2>6, Zenon
  <2> HIDE DEF body
  <2>9. Follows(c, f, Listeners, Awaiting, s)
    BY <1>3, <2>2, <2>3, <2>8, Zenon DEF Follows, Applied
  <2>10. c[Len(s)] = Result(f, Listeners, Awaiting, s)
    BY <1>1, <1>2, <2>9, ResultIs
  <2>11. QED
    BY <2>7, <2>10, Zenon
<1>5. Answered(<<>>) = Awaiting
  <2>1. <<>> \in Seq(Answers)
    OBVIOUS
  <2>2. Result(f, Listeners, Awaiting, <<>>) = Awaiting
    BY <1>1, <1>2, ResultEmpty
  <2>3. QED
    BY <1>4, <2>1, <2>2, Zenon
<1>6. ASSUME NEW s \in Seq(Answers)
      PROVE  Answered(s) \in Listeners
  <2>1. Result(f, Listeners, Awaiting, s) \in Listeners
    BY <1>1, <1>2, ResultType
  <2>2. QED
    BY <1>4, <2>1, Zenon
<1>7. ASSUME NEW s \in Seq(Answers), NEW b \in Answers
      PROVE  Answered(Append(s, b)) = Answer(Answered(s), b)
  <2>1. Append(s, b) \in Seq(Answers)
    OBVIOUS
  <2>2. Result(f, Listeners, Awaiting, Append(s, b)) = Applied(f, Result(f, Listeners, Awaiting, s), b)
    BY <1>1, <1>2, ResultAppend
  <2>3. QED
    BY <1>3, <1>4, <1>6, <2>1, <2>2, Zenon
<1>8. QED
  BY <1>5, <1>6, <1>7, Zenon

\* encode_frame stuffs the bytes of a payload one by one.
LEMMA StuffedLemma ==
  /\ Frame!Stuffed(<<>>) = <<>>
  /\ \A s \in Seq(Nat) :
       /\ Frame!Stuffed(s) \in Strings
       /\ \A b \in Nat : Frame!Stuffed(Append(s, b)) = Frame!Stuff(Frame!Stuffed(s), b)
<1> DEFINE f == [p \in Strings \X Nat |-> Frame!Stuff(p[1], p[2])]
<1>1. IsStep(f, Strings, Nat)
  BY StuffType DEF IsStep, Strings
<1>2. <<>> \in Strings
  BY DEF Strings
<1>3. \A r \in Strings, b \in Nat : Applied(f, r, b) = Frame!Stuff(r, b)
  BY DEF Applied
<1> HIDE DEF f
<1>4. ASSUME NEW s \in Seq(Nat)
      PROVE  Frame!Stuffed(s) = Result(f, Strings, <<>>, s)
  <2> DEFINE body(g) ==
        [i \in 0..Len(s) |-> IF i = 0 THEN <<>> ELSE Frame!Stuff(g[i - 1], s[i])]
      c == CHOOSE g : g = body(g)
  <2>1. PICK g : IsRun(g, f, Strings, <<>>, s)
    BY <1>1, <1>2, LoopLemma, Zenon
  <2>2. \A i \in 1..Len(s) : s[i] \in Nat /\ i \in 0..Len(s) /\ i # 0 /\ i - 1 \in 0..Len(s)
    OBVIOUS
  <2>3. 0 \in 0..Len(s) /\ \A i \in 0..Len(s) : i = 0 \/ i \in 1..Len(s)
    OBVIOUS
  <2>4. \A i \in 1..Len(s) : g[i] = Frame!Stuff(g[i - 1], s[i])
    BY <1>3, <2>1, <2>2, Zenon DEF IsRun, Applied
  <2>5. g = body(g)
    BY <2>1, <2>3, <2>4, Zenon DEF IsRun
  <2>6. c = body(c)
    BY <2>5, Zenon
  <2>7. Frame!Stuffed(s) = c[Len(s)]
    BY Zenon DEF Frame!Stuffed
  <2> HIDE DEF c
  <2>8. \A i \in 0..Len(s) : c[i] = IF i = 0 THEN <<>> ELSE Frame!Stuff(c[i - 1], s[i])
    BY <2>6, Zenon
  <2> HIDE DEF body
  <2>9. Follows(c, f, Strings, <<>>, s)
    BY <1>3, <2>2, <2>3, <2>8, Zenon DEF Follows, Applied
  <2>10. c[Len(s)] = Result(f, Strings, <<>>, s)
    BY <1>1, <1>2, <2>9, ResultIs
  <2>11. QED
    BY <2>7, <2>10, Zenon
<1>5. Frame!Stuffed(<<>>) = <<>>
  <2>1. <<>> \in Seq(Nat)
    OBVIOUS
  <2>2. Result(f, Strings, <<>>, <<>>) = <<>>
    BY <1>1, <1>2, ResultEmpty
  <2>3. QED
    BY <1>4, <2>1, <2>2, Zenon
<1>6. ASSUME NEW s \in Seq(Nat)
      PROVE  Frame!Stuffed(s) \in Strings
  <2>1. Result(f, Strings, <<>>, s) \in Strings
    BY <1>1, <1>2, ResultType
  <2>2. QED
    BY <1>4, <2>1, Zenon
<1>7. ASSUME NEW s \in Seq(Nat), NEW b \in Nat
      PROVE  Frame!Stuffed(Append(s, b)) = Frame!Stuff(Frame!Stuffed(s), b)
  <2>1. Append(s, b) \in Seq(Nat)
    OBVIOUS
  <2>2. Result(f, Strings, <<>>, Append(s, b)) = Applied(f, Result(f, Strings, <<>>, s), b)
    BY <1>1, <1>2, ResultAppend
  <2>3. QED
    BY <1>3, <1>4, <1>6, <2>1, <2>2, Zenon
<1>8. QED
  BY <1>5, <1>6, <1>7, Zenon

-----------------------------------------------------------------------------
(* Words: the CRC of board_control.cpp is the mirror image of the standard's. *)

\* A uint16_t is a sequence of 16 bits.
LEMMA WordSeq ==
  ASSUME NEW w \in Frame!Words
  PROVE  w \in Seq({0, 1}) /\ Len(w) = 16 /\ \A i \in 1..16 : w[i] \in {0, 1}
<1>1. w = [i \in 1..16 |-> w[i]] /\ \A i \in 1..16 : w[i] \in {0, 1}
  BY DEF Frame!Words
<1>2. [i \in 1..16 |-> w[i]] \in Seq({0, 1}) /\ Len([i \in 1..16 |-> w[i]]) = 16
  BY <1>1
<1>3. QED
  BY <1>1, <1>2, Zenon

\* A sequence of 16 bits is a uint16_t.
LEMMA SeqWord ==
  ASSUME NEW w \in Seq({0, 1}), Len(w) = 16
  PROVE  w \in Frame!Words
<1>1. w \in [1..Len(w) -> {0, 1}]
  BY LenProperties, Zenon
<1>2. QED
  BY <1>1, Zenon DEF Frame!Words

\* Two bytes make a word.
LEMMA ConcatWord ==
  ASSUME NEW u \in Seq({0, 1}), NEW v \in Seq({0, 1}), Len(u) = 8, Len(v) = 8
  PROVE  /\ u \o v \in Frame!Words
         /\ \A i \in 1..16 : (u \o v)[i] = IF i <= 8 THEN u[i] ELSE v[i - 8]
<1>1. /\ u \o v \in Seq({0, 1})
      /\ Len(u \o v) = Len(u) + Len(v)
      /\ \A i \in 1..Len(u) + Len(v) : (u \o v)[i] = IF i <= Len(u) THEN u[i] ELSE v[i - Len(u)]
  BY ConcatProperties, Zenon
<1>2. Len(u) + Len(v) = 16
  OBVIOUS
<1>3. u \o v \in Frame!Words
  BY <1>1, <1>2, SeqWord
<1>4. QED
  BY <1>1, <1>2, <1>3, Zenon

\* The bits of a number, in 8 and in 16 places.
LEMMA BitsLemma ==
  ASSUME NEW v \in Nat
  PROVE  /\ Frame!Bits(v, 8) \in Seq({0, 1}) /\ Len(Frame!Bits(v, 8)) = 8
         /\ \A i \in 1..8 : Frame!Bits(v, 8)[i] \in {0, 1}
         /\ Frame!Bits(v, 16) \in Frame!Words
  BY DEF Frame!Bits, Frame!Words

\* XOR, bit by bit.
LEMMA XorLemma ==
  ASSUME NEW v \in Frame!Words, NEW w \in Frame!Words
  PROVE  /\ Frame!Xor(v, w) \in Frame!Words
         /\ \A i \in 1..16 : Frame!Xor(v, w)[i] = (v[i] + w[i]) % 2
  BY DEF Frame!Xor, Frame!Words

\* reverse16, bit by bit.
LEMMA ReverseLemma ==
  ASSUME NEW w \in Frame!Words
  PROVE  /\ Frame!reverse(w) \in Frame!Words
         /\ \A i \in 1..16 : Frame!reverse(w)[i] = w[17 - i]
<1>1. Len(w) = 16 /\ \A i \in 1..16 : w[i] \in {0, 1}
  BY WordSeq
<1>2. Frame!reverse(w) = [i \in 1..16 |-> w[16 - i + 1]]
  BY <1>1, Zenon DEF Frame!reverse
<1>3. \A i \in 1..16 : w[16 - i + 1] \in {0, 1} /\ w[16 - i + 1] = w[17 - i]
  BY <1>1
<1>4. [i \in 1..16 |-> w[16 - i + 1]] \in [1..16 -> {0, 1}]
  BY <1>3, Zenon
<1>5. QED
  BY <1>2, <1>3, <1>4, Zenon DEF Frame!Words

\* reverse16 undoes itself.
LEMMA ReverseTwice ==
  ASSUME NEW w \in Frame!Words
  PROVE  Frame!reverse(Frame!reverse(w)) = w
<1>1. PICK m : m = Frame!reverse(w)
  OBVIOUS
<1>2. m \in Frame!Words /\ \A i \in 1..16 : m[i] = w[17 - i]
  BY <1>1, ReverseLemma
<1>3. PICK n : n = Frame!reverse(m)
  OBVIOUS
<1>4. n \in Frame!Words /\ \A i \in 1..16 : n[i] = m[17 - i]
  BY <1>2, <1>3, ReverseLemma
<1>5. \A i \in 1..16 : n[i] = w[i]
  BY <1>2, <1>4
<1>6. n = w
  BY <1>4, <1>5 DEF Frame!Words
<1>7. QED
  BY <1>1, <1>3, <1>6, Zenon

\* The constants 0x8005 and 0xA001: each is the other in reverse.
LEMMA PolynomialLemma ==
  /\ \A i \in 1..16 : Frame!Bits(32773, 16)[i] = IF i \in {1, 14, 16} THEN 1 ELSE 0
  /\ \A i \in 1..16 : Frame!Bits(40961, 16)[i] = IF i \in {1, 3, 16} THEN 1 ELSE 0
<1>1. Frame!Bits(32773, 16) = <<1, 0, 0, 0, 0, 0, 0, 0, 0, 0, 0, 0, 0, 1, 0, 1>>
  BY DEF Frame!Bits
<1>2. Frame!Bits(40961, 16) = <<1, 0, 1, 0, 0, 0, 0, 0, 0, 0, 0, 0, 0, 0, 0, 1>>
  BY DEF Frame!Bits
<1>3. QED
  BY <1>1, <1>2

\* One turn, bit by bit.
LEMMA CrcBitLemma ==
  ASSUME NEW w \in Frame!Words
  PROVE  /\ Frame!CrcBit(w) \in Frame!Words
         /\ \A i \in 1..16 :
              Frame!CrcBit(w)[i] = ((IF i = 16 THEN 0 ELSE w[i + 1])
                                    + (IF w[1] = 1 /\ i \in {1, 14, 16} THEN 1 ELSE 0)) % 2
<1> DEFINE shifted == SubSeq(w, 2, 16) \o <<0>>
<1>1. shifted \in Frame!Words /\ \A i \in 1..16 : shifted[i] = IF i = 16 THEN 0 ELSE w[i + 1]
  <2>1. /\ SubSeq(w, 2, 16) \in Seq({0, 1}) /\ Len(SubSeq(w, 2, 16)) = 15
        /\ \A i \in 1..15 : SubSeq(w, 2, 16)[i] = w[i + 1]
    BY WordSeq
  <2>2. <<0>> \in Seq({0, 1}) /\ Len(<<0>>) = 1 /\ <<0>>[1] = 0
    OBVIOUS
  <2>3. shifted \in Seq({0, 1}) /\ Len(shifted) = 16
    BY <2>1, <2>2
  <2>4. \A i \in 1..16 : shifted[i] = IF i = 16 THEN 0 ELSE w[i + 1]
    BY <2>1, <2>2
  <2>5. QED
    BY <2>3, <2>4, SeqWord
<1> HIDE DEF shifted
<1>2. Frame!CrcBit(w) = IF w[1] = 1 THEN Frame!Xor(shifted, Frame!Bits(32773, 16)) ELSE shifted
  BY DEF Frame!CrcBit, shifted
<1>3. Frame!Bits(32773, 16) \in Frame!Words
  BY BitsLemma
<1>4. /\ Frame!Xor(shifted, Frame!Bits(32773, 16)) \in Frame!Words
      /\ \A i \in 1..16 : Frame!Xor(shifted, Frame!Bits(32773, 16))[i]
                          = (shifted[i] + Frame!Bits(32773, 16)[i]) % 2
  BY <1>1, <1>3, XorLemma
<1>5. CASE w[1] = 1
  BY <1>1, <1>2, <1>4, <1>5, PolynomialLemma
<1>6. CASE w[1] # 1
  <2>1. \A i \in 1..16 : shifted[i] \in {0, 1}
    BY <1>1, WordSeq
  <2>2. QED
    BY <1>1, <1>2, <1>6, <2>1
<1>7. QED
  BY <1>5, <1>6

\* The standard's turn of the register, bit by bit.
LEMMA ReferenceBitLemma ==
  ASSUME NEW w \in Frame!Words
  PROVE  /\ ReferenceBit(w) \in Frame!Words
         /\ \A i \in 1..16 :
              ReferenceBit(w)[i] = ((IF i = 1 THEN 0 ELSE w[i - 1])
                                    + (IF w[16] = 1 /\ i \in {1, 3, 16} THEN 1 ELSE 0)) % 2
<1> DEFINE shifted == <<0>> \o SubSeq(w, 1, 15)
<1>1. shifted \in Frame!Words /\ \A i \in 1..16 : shifted[i] = IF i = 1 THEN 0 ELSE w[i - 1]
  <2>1. /\ SubSeq(w, 1, 15) \in Seq({0, 1}) /\ Len(SubSeq(w, 1, 15)) = 15
        /\ \A i \in 1..15 : SubSeq(w, 1, 15)[i] = w[i]
    BY WordSeq
  <2>2. <<0>> \in Seq({0, 1}) /\ Len(<<0>>) = 1 /\ <<0>>[1] = 0
    OBVIOUS
  <2>3. shifted \in Seq({0, 1}) /\ Len(shifted) = 16
    BY <2>1, <2>2
  <2>4. \A i \in 1..16 : shifted[i] = IF i = 1 THEN 0 ELSE w[i - 1]
    BY <2>1, <2>2
  <2>5. QED
    BY <2>3, <2>4, SeqWord
<1> HIDE DEF shifted
<1>2. ReferenceBit(w) = IF w[16] = 1 THEN Frame!Xor(shifted, Frame!Bits(40961, 16)) ELSE shifted
  BY DEF ReferenceBit, shifted
<1>3. Frame!Bits(40961, 16) \in Frame!Words
  BY BitsLemma
<1>4. /\ Frame!Xor(shifted, Frame!Bits(40961, 16)) \in Frame!Words
      /\ \A i \in 1..16 : Frame!Xor(shifted, Frame!Bits(40961, 16))[i]
                          = (shifted[i] + Frame!Bits(40961, 16)[i]) % 2
  BY <1>1, <1>3, XorLemma
<1>5. CASE w[16] = 1
  BY <1>1, <1>2, <1>4, <1>5, PolynomialLemma
<1>6. CASE w[16] # 1
  <2>1. \A i \in 1..16 : shifted[i] \in {0, 1}
    BY <1>1, WordSeq
  <2>2. QED
    BY <1>1, <1>2, <1>6, <2>1
<1>7. QED
  BY <1>5, <1>6

\* A turn of the mirror image is the mirror image of the turn.
LEMMA MirrorBit ==
  ASSUME NEW w \in Frame!Words
  PROVE  Frame!CrcBit(Frame!reverse(w)) = Frame!reverse(ReferenceBit(w))
<1> DEFINE m == Frame!reverse(w)
           r == ReferenceBit(w)
<1>1. m \in Frame!Words /\ \A i \in 1..16 : m[i] = w[17 - i]
  BY ReverseLemma
<1>2. r \in Frame!Words
  BY ReferenceBitLemma
<1>3. Frame!reverse(r) \in Frame!Words /\ \A i \in 1..16 : Frame!reverse(r)[i] = r[17 - i]
  BY <1>2, ReverseLemma
<1>4. Frame!CrcBit(m) \in Frame!Words
  BY <1>1, CrcBitLemma
<1>5. ASSUME NEW i \in 1..16
      PROVE  Frame!CrcBit(m)[i] = Frame!reverse(r)[i]
  <2>1. Frame!CrcBit(m)[i] = ((IF i = 16 THEN 0 ELSE m[i + 1])
                              + (IF m[1] = 1 /\ i \in {1, 14, 16} THEN 1 ELSE 0)) % 2
    BY <1>1, CrcBitLemma
  <2>2. r[17 - i] = ((IF 17 - i = 1 THEN 0 ELSE w[(17 - i) - 1])
                     + (IF w[16] = 1 /\ 17 - i \in {1, 3, 16} THEN 1 ELSE 0)) % 2
    BY ReferenceBitLemma
  <2>3. m[1] = w[16] /\ (i # 16 => m[i + 1] = w[(17 - i) - 1])
    BY <1>1
  <2>4. (i = 16 <=> 17 - i = 1) /\ (i \in {1, 14, 16} <=> 17 - i \in {1, 3, 16})
    OBVIOUS
  <2>5. QED
    BY <1>3, <2>1, <2>2, <2>3, <2>4
<1>6. QED
  BY <1>3, <1>4, <1>5 DEF Frame!Words

\* A byte enters the register at its high end, in reverse; the reference takes it
\* in at the low end.
LEMMA InLemma ==
  ASSUME NEW b \in Nat
  PROVE  /\ Frame!reverse(Frame!Bits(b, 8)) \o Frame!Bits(0, 8) \in Frame!Words
         /\ Frame!Bits(0, 8) \o Frame!Bits(b, 8) \in Frame!Words
         /\ Frame!reverse(Frame!Bits(b, 8)) \o Frame!Bits(0, 8) = Frame!reverse(Frame!Bits(0, 8) \o Frame!Bits(b, 8))
<1>1. PICK d : d = Frame!Bits(b, 8)
  OBVIOUS
<1>2. PICK z : z = Frame!Bits(0, 8)
  OBVIOUS
<1>3. PICK m : m = Frame!reverse(d)
  OBVIOUS
<1>4. d \in Seq({0, 1}) /\ Len(d) = 8 /\ \A i \in 1..8 : d[i] \in {0, 1}
  BY <1>1, BitsLemma
<1>5. z \in Seq({0, 1}) /\ Len(z) = 8 /\ \A i \in 1..8 : z[i] = 0
  <2>1. z = <<0, 0, 0, 0, 0, 0, 0, 0>>
    BY <1>2 DEF Frame!Bits
  <2>2. z \in Seq({0, 1}) /\ Len(z) = 8
    BY <1>2, BitsLemma
  <2>3. QED
    BY <2>1, <2>2
<1>6. m \in Seq({0, 1}) /\ Len(m) = 8 /\ \A i \in 1..8 : m[i] = d[9 - i]
  <2>1. m = [i \in 1..8 |-> d[8 - i + 1]]
    BY <1>3, <1>4, Zenon DEF Frame!reverse
  <2>2. \A i \in 1..8 : d[8 - i + 1] \in {0, 1} /\ d[8 - i + 1] = d[9 - i]
    BY <1>4
  <2>3. QED
    BY <2>1, <2>2
<1>7. m \o z \in Frame!Words /\ \A i \in 1..16 : (m \o z)[i] = IF i <= 8 THEN d[9 - i] ELSE 0
  <2>1. PICK x : x = m \o z
    OBVIOUS
  <2>2. x \in Frame!Words /\ \A i \in 1..16 : x[i] = IF i <= 8 THEN m[i] ELSE z[i - 8]
    BY <1>5, <1>6, <2>1, ConcatWord
  <2>3. \A i \in 1..16 : (i <= 8 => m[i] = d[9 - i]) /\ (~(i <= 8) => z[i - 8] = 0)
    BY <1>5, <1>6
  <2>4. \A i \in 1..16 : x[i] = IF i <= 8 THEN d[9 - i] ELSE 0
    <3> SUFFICES ASSUME NEW i \in 1..16 PROVE x[i] = IF i <= 8 THEN d[9 - i] ELSE 0
      OBVIOUS
    <3>1. CASE i <= 8
      BY <2>2, <2>3, <3>1
    <3>2. CASE ~(i <= 8)
      BY <2>2, <2>3, <3>2
    <3>3. QED
      BY <3>1, <3>2, Zenon
  <2>5. QED
    BY <2>1, <2>2, <2>4, Zenon
<1>8. z \o d \in Frame!Words /\ \A i \in 1..16 : (z \o d)[i] = IF i <= 8 THEN 0 ELSE d[i - 8]
  <2>1. /\ z \o d \in Frame!Words
        /\ \A i \in 1..16 : (z \o d)[i] = IF i <= 8 THEN z[i] ELSE d[i - 8]
    BY <1>4, <1>5, ConcatWord
  <2>2. \A i \in 1..16 : (IF i <= 8 THEN z[i] ELSE d[i - 8]) = (IF i <= 8 THEN 0 ELSE d[i - 8])
    BY <1>5
  <2>3. QED
    BY <2>1, <2>2, Zenon
<1>9. m \o z = Frame!reverse(z \o d)
  <2>1. PICK x : x = m \o z
    OBVIOUS
  <2>2. PICK y : y = z \o d
    OBVIOUS
  <2>3. PICK u : u = Frame!reverse(y)
    OBVIOUS
  <2>4. u \in Frame!Words /\ \A i \in 1..16 : u[i] = y[17 - i]
    BY <1>8, <2>2, <2>3, ReverseLemma
  <2>5. x \in Frame!Words /\ \A i \in 1..16 : x[i] = IF i <= 8 THEN d[9 - i] ELSE 0
    BY <1>7, <2>1, Zenon
  <2>6. \A i \in 1..16 : y[i] = IF i <= 8 THEN 0 ELSE d[i - 8]
    BY <1>8, <2>2, Zenon
  <2>7. \A i \in 1..16 : x[i] = u[i]
    BY <2>4, <2>5, <2>6
  <2>8. x = u
    BY <2>4, <2>5, <2>7 DEF Frame!Words
  <2>9. QED
    BY <2>1, <2>2, <2>3, <2>8, Zenon
<1>10. QED
  BY <1>1, <1>2, <1>3, <1>7, <1>8, <1>9, Zenon

\* What crc16 takes into its register is the mirror image of what the standard does.
LEMMA MirrorXor ==
  ASSUME NEW v \in Frame!Words, NEW w \in Frame!Words
  PROVE  Frame!Xor(Frame!reverse(v), Frame!reverse(w)) = Frame!reverse(Frame!Xor(v, w))
<1> DEFINE x == Frame!Xor(v, w)
           y == Frame!Xor(Frame!reverse(v), Frame!reverse(w))
<1>1. x \in Frame!Words /\ \A i \in 1..16 : x[i] = (v[i] + w[i]) % 2
  BY XorLemma
<1>2. /\ Frame!reverse(v) \in Frame!Words /\ \A i \in 1..16 : Frame!reverse(v)[i] = v[17 - i]
      /\ Frame!reverse(w) \in Frame!Words /\ \A i \in 1..16 : Frame!reverse(w)[i] = w[17 - i]
  BY ReverseLemma
<1>3. y \in Frame!Words /\ \A i \in 1..16 : y[i] = (Frame!reverse(v)[i] + Frame!reverse(w)[i]) % 2
  BY <1>2, XorLemma
<1> HIDE DEF x, y
<1>4. Frame!reverse(x) \in Frame!Words /\ \A i \in 1..16 : Frame!reverse(x)[i] = x[17 - i]
  BY <1>1, ReverseLemma
<1>5. \A i \in 1..16 : y[i] = Frame!reverse(x)[i]
  BY <1>1, <1>2, <1>3, <1>4
<1>6. QED
  BY <1>3, <1>4, <1>5 DEF x, y, Frame!Words

\* The eight turns for a byte.
LEMMA CrcByteRun ==
  ASSUME NEW b \in Nat, NEW w \in Frame!Words
  PROVE  \E t : /\ t[0] = Frame!Xor(w, Frame!reverse(Frame!Bits(b, 8)) \o Frame!Bits(0, 8))
                /\ \A i \in 1..8 : t[i - 1] \in Frame!Words /\ t[i] = Frame!CrcBit(t[i - 1])
                /\ t[8] \in Frame!Words /\ Frame!CrcByte(b)[w] = t[8]
<1> DEFINE x0 == Frame!Xor(w, Frame!reverse(Frame!Bits(b, 8)) \o Frame!Bits(0, 8))
           f == [p \in Frame!Words \X {0, 1} |-> Frame!CrcBit(p[1])]
           eight == Frame!Bits(0, 8)
<1>1. IsStep(f, Frame!Words, {0, 1})
  BY CrcBitLemma DEF IsStep
<1>2. x0 \in Frame!Words
  BY InLemma, XorLemma
<1>3. eight \in Seq({0, 1}) /\ Len(eight) = 8
  BY BitsLemma
<1>4. \A r \in Frame!Words, d \in {0, 1} : Applied(f, r, d) = Frame!CrcBit(r)
  BY DEF Applied
<1> DEFINE body(g) == [i \in 0..8 |-> IF i = 0 THEN x0 ELSE Frame!CrcBit(g[i - 1])]
           c == CHOOSE g : g = body(g)
<1> HIDE DEF x0, f, eight
<1>5. PICK g : IsRun(g, f, Frame!Words, x0, eight)
  BY <1>1, <1>2, <1>3, LoopLemma
<1>6. \A i \in 1..8 : eight[i] \in {0, 1} /\ i \in 0..8 /\ i # 0 /\ i - 1 \in 0..8
  <2>1. \A i \in 1..8 : eight[i] \in {0, 1}
    BY BitsLemma DEF eight
  <2>2. QED
    BY <2>1
<1>7. 0 \in 0..8 /\ 8 \in 0..8 /\ \A i \in 0..8 : i = 0 \/ i \in 1..8
  OBVIOUS
<1>8. /\ g \in [0..8 -> Frame!Words] /\ g[0] = x0
      /\ \A i \in 1..8 : g[i - 1] \in Frame!Words /\ g[i] = Frame!CrcBit(g[i - 1])
  BY <1>3, <1>4, <1>5, <1>6, Zenon DEF IsRun, Applied
<1>9. g = body(g)
  BY <1>7, <1>8, Zenon
<1>10. c = body(c)
  BY <1>9, Zenon
<1>11. Frame!CrcByte(b)[w] = c[8]
  BY Zenon DEF Frame!CrcByte, x0
<1> HIDE DEF c
<1>12. \A i \in 0..8 : c[i] = IF i = 0 THEN x0 ELSE Frame!CrcBit(c[i - 1])
  BY <1>10, Zenon
<1> HIDE DEF body
<1>13. Alike(c, g, 8)
  BY <1>6, <1>7, <1>8, <1>12, Zenon DEF Alike
<1>14. c[8] = g[8]
  BY <1>13, AgreeLemma
<1>15. g[8] \in Frame!Words
  BY <1>7, <1>8, Zenon
<1>16. QED
  BY <1>8, <1>11, <1>14, <1>15, Zenon DEF x0

\* The eight turns of the reference.
LEMMA ReferenceByteRun ==
  ASSUME NEW b \in Nat, NEW w \in Frame!Words
  PROVE  \E t : /\ t[0] = Frame!Xor(w, Frame!Bits(0, 8) \o Frame!Bits(b, 8))
                /\ \A i \in 1..8 : t[i - 1] \in Frame!Words /\ t[i] = ReferenceBit(t[i - 1])
                /\ t[8] \in Frame!Words /\ ReferenceByte(b)[w] = t[8]
<1> DEFINE x0 == Frame!Xor(w, Frame!Bits(0, 8) \o Frame!Bits(b, 8))
           f == [p \in Frame!Words \X {0, 1} |-> ReferenceBit(p[1])]
           eight == Frame!Bits(0, 8)
<1>1. IsStep(f, Frame!Words, {0, 1})
  BY ReferenceBitLemma DEF IsStep
<1>2. x0 \in Frame!Words
  BY InLemma, XorLemma
<1>3. eight \in Seq({0, 1}) /\ Len(eight) = 8
  BY BitsLemma
<1>4. \A r \in Frame!Words, d \in {0, 1} : Applied(f, r, d) = ReferenceBit(r)
  BY DEF Applied
<1> DEFINE body(g) == [i \in 0..8 |-> IF i = 0 THEN x0 ELSE ReferenceBit(g[i - 1])]
           c == CHOOSE g : g = body(g)
<1> HIDE DEF x0, f, eight
<1>5. PICK g : IsRun(g, f, Frame!Words, x0, eight)
  BY <1>1, <1>2, <1>3, LoopLemma
<1>6. \A i \in 1..8 : eight[i] \in {0, 1} /\ i \in 0..8 /\ i # 0 /\ i - 1 \in 0..8
  <2>1. \A i \in 1..8 : eight[i] \in {0, 1}
    BY BitsLemma DEF eight
  <2>2. QED
    BY <2>1
<1>7. 0 \in 0..8 /\ 8 \in 0..8 /\ \A i \in 0..8 : i = 0 \/ i \in 1..8
  OBVIOUS
<1>8. /\ g \in [0..8 -> Frame!Words] /\ g[0] = x0
      /\ \A i \in 1..8 : g[i - 1] \in Frame!Words /\ g[i] = ReferenceBit(g[i - 1])
  BY <1>3, <1>4, <1>5, <1>6, Zenon DEF IsRun, Applied
<1>9. g = body(g)
  BY <1>7, <1>8, Zenon
<1>10. c = body(c)
  BY <1>9, Zenon
<1>11. ReferenceByte(b)[w] = c[8]
  BY Zenon DEF ReferenceByte, x0
<1> HIDE DEF c
<1>12. \A i \in 0..8 : c[i] = IF i = 0 THEN x0 ELSE ReferenceBit(c[i - 1])
  BY <1>10, Zenon
<1> HIDE DEF body
<1>13. Alike(c, g, 8)
  BY <1>6, <1>7, <1>8, <1>12, Zenon DEF Alike
<1>14. c[8] = g[8]
  BY <1>13, AgreeLemma
<1>15. g[8] \in Frame!Words
  BY <1>7, <1>8, Zenon
<1>16. QED
  BY <1>8, <1>11, <1>14, <1>15, Zenon DEF x0

\* What a byte makes of the mirror image is the mirror image of what it makes.
LEMMA MirrorByte ==
  ASSUME NEW b \in Nat, NEW w \in Frame!Words
  PROVE  Frame!CrcByte(b)[Frame!reverse(w)] = Frame!reverse(ReferenceByte(b)[w])
<1> DEFINE m == Frame!reverse(w)
           d == Frame!reverse(Frame!Bits(b, 8)) \o Frame!Bits(0, 8)
           e == Frame!Bits(0, 8) \o Frame!Bits(b, 8)
<1>1. m \in Frame!Words
  BY ReverseLemma
<1>2. d \in Frame!Words /\ e \in Frame!Words /\ d = Frame!reverse(e)
  BY InLemma
<1>3. PICK g : /\ g[0] = Frame!Xor(m, d)
               /\ \A i \in 1..8 : g[i - 1] \in Frame!Words /\ g[i] = Frame!CrcBit(g[i - 1])
               /\ g[8] \in Frame!Words /\ Frame!CrcByte(b)[m] = g[8]
  BY <1>1, CrcByteRun, Zenon
<1>4. PICK h : /\ h[0] = Frame!Xor(w, e)
               /\ \A i \in 1..8 : h[i - 1] \in Frame!Words /\ h[i] = ReferenceBit(h[i - 1])
               /\ h[8] \in Frame!Words /\ ReferenceByte(b)[w] = h[8]
  BY ReferenceByteRun, Zenon
<1> HIDE DEF d, e
<1> DEFINE k == [i \in 0..8 |-> Frame!reverse(h[i])]
<1>5. k[0] = Frame!reverse(h[0]) /\ k[8] = Frame!reverse(h[8])
  OBVIOUS
<1>6. \A i \in 1..8 : k[i] = Frame!reverse(h[i]) /\ k[i - 1] = Frame!reverse(h[i - 1])
  OBVIOUS
<1> HIDE DEF k
<1>7. g[0] = k[0]
  BY <1>2, <1>3, <1>4, <1>5, MirrorXor, Zenon
<1>8. \A i \in 1..8 : k[i] = Frame!CrcBit(k[i - 1])
  BY <1>4, <1>6, MirrorBit, Zenon
<1>9. Alike(g, k, 8)
  BY <1>3, <1>7, <1>8, Zenon DEF Alike
<1>10. g[8] = k[8]
  BY <1>9, AgreeLemma
<1>11. QED
  BY <1>3, <1>4, <1>5, <1>10, Zenon

\* A byte takes the register from a word to a word, in crc16 and in the standard.
LEMMA ByteType ==
  ASSUME NEW b \in Nat, NEW w \in Frame!Words
  PROVE  Frame!CrcByte(b)[w] \in Frame!Words /\ ReferenceByte(b)[w] \in Frame!Words
  BY CrcByteRun, ReferenceByteRun, Zenon

\* crc16 takes the bytes of the data one by one.
LEMMA RegisterLemma ==
  /\ Frame!Register(<<>>) = Frame!Bits(0, 16)
  /\ \A s \in Seq(Nat) :
       /\ Frame!Register(s) \in Frame!Words
       /\ \A b \in Nat : Frame!Register(Append(s, b)) = Frame!CrcByte(b)[Frame!Register(s)]
<1> DEFINE f == [p \in Frame!Words \X Nat |-> Frame!CrcByte(p[2])[p[1]]]
<1>1. IsStep(f, Frame!Words, Nat)
  BY ByteType DEF IsStep
<1>2. Frame!Bits(0, 16) \in Frame!Words
  BY BitsLemma
<1>3. \A r \in Frame!Words, b \in Nat : Applied(f, r, b) = Frame!CrcByte(b)[r]
  BY DEF Applied
<1> HIDE DEF f
<1>4. ASSUME NEW s \in Seq(Nat)
      PROVE  Frame!Register(s) = Result(f, Frame!Words, Frame!Bits(0, 16), s)
  <2> DEFINE body(g) ==
        [i \in 0..Len(s) |-> IF i = 0 THEN Frame!Bits(0, 16) ELSE Frame!CrcByte(s[i])[g[i - 1]]]
      c == CHOOSE g : g = body(g)
  <2>1. PICK g : IsRun(g, f, Frame!Words, Frame!Bits(0, 16), s)
    BY <1>1, <1>2, LoopLemma, Zenon
  <2>2. \A i \in 1..Len(s) : s[i] \in Nat /\ i \in 0..Len(s) /\ i # 0 /\ i - 1 \in 0..Len(s)
    OBVIOUS
  <2>3. 0 \in 0..Len(s) /\ \A i \in 0..Len(s) : i = 0 \/ i \in 1..Len(s)
    OBVIOUS
  <2>4. \A i \in 1..Len(s) : g[i] = Frame!CrcByte(s[i])[g[i - 1]]
    BY <1>3, <2>1, <2>2, Zenon DEF IsRun, Applied
  <2>5. g = body(g)
    BY <2>1, <2>3, <2>4, Zenon DEF IsRun
  <2>6. c = body(c)
    BY <2>5, Zenon
  <2>7. Frame!Register(s) = c[Len(s)]
    BY Zenon DEF Frame!Register
  <2> HIDE DEF c
  <2>8. \A i \in 0..Len(s) : c[i] = IF i = 0 THEN Frame!Bits(0, 16) ELSE Frame!CrcByte(s[i])[c[i - 1]]
    BY <2>6, Zenon
  <2> HIDE DEF body
  <2>9. Follows(c, f, Frame!Words, Frame!Bits(0, 16), s)
    BY <1>3, <2>2, <2>3, <2>8, Zenon DEF Follows, Applied
  <2>10. c[Len(s)] = Result(f, Frame!Words, Frame!Bits(0, 16), s)
    BY <1>1, <1>2, <2>9, ResultIs
  <2>11. QED
    BY <2>7, <2>10, Zenon
<1>5. Frame!Register(<<>>) = Frame!Bits(0, 16)
  <2>1. <<>> \in Seq(Nat)
    OBVIOUS
  <2>2. Result(f, Frame!Words, Frame!Bits(0, 16), <<>>) = Frame!Bits(0, 16)
    BY <1>1, <1>2, ResultEmpty
  <2>3. QED
    BY <1>4, <2>1, <2>2, Zenon
<1>6. ASSUME NEW s \in Seq(Nat)
      PROVE  Frame!Register(s) \in Frame!Words
  <2>1. Result(f, Frame!Words, Frame!Bits(0, 16), s) \in Frame!Words
    BY <1>1, <1>2, ResultType
  <2>2. QED
    BY <1>4, <2>1, Zenon
<1>7. ASSUME NEW s \in Seq(Nat), NEW b \in Nat
      PROVE  Frame!Register(Append(s, b)) = Frame!CrcByte(b)[Frame!Register(s)]
  <2>1. Append(s, b) \in Seq(Nat)
    OBVIOUS
  <2>2. Result(f, Frame!Words, Frame!Bits(0, 16), Append(s, b)) = Applied(f, Result(f, Frame!Words, Frame!Bits(0, 16), s), b)
    BY <1>1, <1>2, ResultAppend
  <2>3. QED
    BY <1>3, <1>4, <1>6, <2>1, <2>2, Zenon
<1>8. QED
  BY <1>5, <1>6, <1>7, Zenon

\* So does the reference.
LEMMA ReferenceLemma ==
  /\ CrcReference(<<>>) = Frame!Bits(0, 16)
  /\ \A s \in Seq(Nat) :
       /\ CrcReference(s) \in Frame!Words
       /\ \A b \in Nat : CrcReference(Append(s, b)) = ReferenceByte(b)[CrcReference(s)]
<1> DEFINE f == [p \in Frame!Words \X Nat |-> ReferenceByte(p[2])[p[1]]]
<1>1. IsStep(f, Frame!Words, Nat)
  BY ByteType DEF IsStep
<1>2. Frame!Bits(0, 16) \in Frame!Words
  BY BitsLemma
<1>3. \A r \in Frame!Words, b \in Nat : Applied(f, r, b) = ReferenceByte(b)[r]
  BY DEF Applied
<1> HIDE DEF f
<1>4. ASSUME NEW s \in Seq(Nat)
      PROVE  CrcReference(s) = Result(f, Frame!Words, Frame!Bits(0, 16), s)
  <2> DEFINE body(g) ==
        [i \in 0..Len(s) |-> IF i = 0 THEN Frame!Bits(0, 16) ELSE ReferenceByte(s[i])[g[i - 1]]]
      c == CHOOSE g : g = body(g)
  <2>1. PICK g : IsRun(g, f, Frame!Words, Frame!Bits(0, 16), s)
    BY <1>1, <1>2, LoopLemma, Zenon
  <2>2. \A i \in 1..Len(s) : s[i] \in Nat /\ i \in 0..Len(s) /\ i # 0 /\ i - 1 \in 0..Len(s)
    OBVIOUS
  <2>3. 0 \in 0..Len(s) /\ \A i \in 0..Len(s) : i = 0 \/ i \in 1..Len(s)
    OBVIOUS
  <2>4. \A i \in 1..Len(s) : g[i] = ReferenceByte(s[i])[g[i - 1]]
    BY <1>3, <2>1, <2>2, Zenon DEF IsRun, Applied
  <2>5. g = body(g)
    BY <2>1, <2>3, <2>4, Zenon DEF IsRun
  <2>6. c = body(c)
    BY <2>5, Zenon
  <2>7. CrcReference(s) = c[Len(s)]
    BY Zenon DEF CrcReference
  <2> HIDE DEF c
  <2>8. \A i \in 0..Len(s) : c[i] = IF i = 0 THEN Frame!Bits(0, 16) ELSE ReferenceByte(s[i])[c[i - 1]]
    BY <2>6, Zenon
  <2> HIDE DEF body
  <2>9. Follows(c, f, Frame!Words, Frame!Bits(0, 16), s)
    BY <1>3, <2>2, <2>3, <2>8, Zenon DEF Follows, Applied
  <2>10. c[Len(s)] = Result(f, Frame!Words, Frame!Bits(0, 16), s)
    BY <1>1, <1>2, <2>9, ResultIs
  <2>11. QED
    BY <2>7, <2>10, Zenon
<1>5. CrcReference(<<>>) = Frame!Bits(0, 16)
  <2>1. <<>> \in Seq(Nat)
    OBVIOUS
  <2>2. Result(f, Frame!Words, Frame!Bits(0, 16), <<>>) = Frame!Bits(0, 16)
    BY <1>1, <1>2, ResultEmpty
  <2>3. QED
    BY <1>4, <2>1, <2>2, Zenon
<1>6. ASSUME NEW s \in Seq(Nat)
      PROVE  CrcReference(s) \in Frame!Words
  <2>1. Result(f, Frame!Words, Frame!Bits(0, 16), s) \in Frame!Words
    BY <1>1, <1>2, ResultType
  <2>2. QED
    BY <1>4, <2>1, Zenon
<1>7. ASSUME NEW s \in Seq(Nat), NEW b \in Nat
      PROVE  CrcReference(Append(s, b)) = ReferenceByte(b)[CrcReference(s)]
  <2>1. Append(s, b) \in Seq(Nat)
    OBVIOUS
  <2>2. Result(f, Frame!Words, Frame!Bits(0, 16), Append(s, b)) = Applied(f, Result(f, Frame!Words, Frame!Bits(0, 16), s), b)
    BY <1>1, <1>2, ResultAppend
  <2>3. QED
    BY <1>3, <1>4, <1>6, <2>1, <2>2, Zenon
<1>8. QED
  BY <1>5, <1>6, <1>7, Zenon

\* crc16 of board_control.cpp and send_time.cpp, which shifts to the left a register
\* of bits in reverse, computes for every sequence of bytes the CRC-16/ARC of the
\* standard, which shifts to the right.
THEOREM CrcIsStandard ==
  \A data \in Seq(Nat) : Frame!crc16(data) = CrcReference(data)
<1> DEFINE T == {s \in Seq(Nat) : Frame!Register(s) = Frame!reverse(CrcReference(s))}
<1>1. <<>> \in T
  <2> DEFINE z == Frame!Bits(0, 16)
  <2>1. z \in Frame!Words /\ \A i \in 1..16 : z[i] = 0
    <3>1. z = <<0, 0, 0, 0, 0, 0, 0, 0, 0, 0, 0, 0, 0, 0, 0, 0>>
      BY DEF Frame!Bits
    <3>2. z \in Frame!Words
      BY BitsLemma
    <3>3. \A i \in 1..16 : z[i] = 0
      BY <3>1
    <3>4. QED
      BY <3>2, <3>3, Zenon
  <2> HIDE DEF z
  <2>2. Frame!reverse(z) \in Frame!Words /\ \A i \in 1..16 : Frame!reverse(z)[i] = z[17 - i]
    BY <2>1, ReverseLemma
  <2>3. Frame!reverse(z) = z
    BY <2>1, <2>2 DEF Frame!Words
  <2>4. Frame!Register(<<>>) = z /\ CrcReference(<<>>) = z
    BY RegisterLemma, ReferenceLemma, Zenon DEF z
  <2>5. <<>> \in Seq(Nat)
    OBVIOUS
  <2>6. QED
    BY <2>3, <2>4, <2>5, Zenon
<1>2. ASSUME NEW s \in Seq(Nat), NEW b \in Nat, s \in T
      PROVE  Append(s, b) \in T
  <2>1. Append(s, b) \in Seq(Nat)
    OBVIOUS
  <2>2. CrcReference(s) \in Frame!Words /\ Frame!Register(s) = Frame!reverse(CrcReference(s))
    BY <1>2, ReferenceLemma, Zenon
  <2>3. Frame!Register(Append(s, b)) = Frame!CrcByte(b)[Frame!Register(s)]
    BY RegisterLemma, Zenon
  <2>4. CrcReference(Append(s, b)) = ReferenceByte(b)[CrcReference(s)]
    BY ReferenceLemma, Zenon
  <2>5. Frame!CrcByte(b)[Frame!reverse(CrcReference(s))]
          = Frame!reverse(ReferenceByte(b)[CrcReference(s)])
    BY <2>2, MirrorByte, Zenon
  <2>6. QED
    BY <2>1, <2>2, <2>3, <2>4, <2>5, Zenon
<1> HIDE DEF T
<1>3. \A s \in Seq(Nat) : s \in T
  BY <1>1, <1>2, SeqInduction
<1>4. ASSUME NEW s \in Seq(Nat)
      PROVE  Frame!crc16(s) = CrcReference(s)
  <2>1. Frame!Register(s) = Frame!reverse(CrcReference(s))
    BY <1>3, Zenon DEF T
  <2>2. CrcReference(s) \in Frame!Words
    BY ReferenceLemma, Zenon
  <2>3. QED
    BY <2>1, <2>2, ReverseTwice, Zenon DEF Frame!crc16
<1>5. QED
  BY <1>4

-----------------------------------------------------------------------------
(* The bytes of a CRC.                                                      *)

\* The value of a word, bit by bit.
LEMMA ValueLemma ==
  /\ Frame!Value(<<>>) = 0
  /\ \A s \in Seq({0, 1}) :
       /\ Frame!Value(s) \in Numbers
       /\ \A b \in {0, 1} : Frame!Value(Append(s, b)) = 2 * Frame!Value(s) + b
<1> DEFINE f == [p \in Numbers \X {0, 1} |-> 2 * p[1] + p[2]]
<1>1. IsStep(f, Numbers, {0, 1})
  BY DEF IsStep, Numbers
<1>2. 0 \in Numbers
  BY DEF Numbers
<1>3. \A r \in Numbers, b \in {0, 1} : Applied(f, r, b) = 2 * r + b
  BY DEF Applied
<1> HIDE DEF f
<1>4. ASSUME NEW s \in Seq({0, 1})
      PROVE  Frame!Value(s) = Result(f, Numbers, 0, s)
  <2> DEFINE body(g) ==
        [i \in 0..Len(s) |-> IF i = 0 THEN 0 ELSE 2 * g[i - 1] + s[i]]
      c == CHOOSE g : g = body(g)
  <2>1. PICK g : IsRun(g, f, Numbers, 0, s)
    BY <1>1, <1>2, LoopLemma, Zenon
  <2>2. \A i \in 1..Len(s) : s[i] \in {0, 1} /\ i \in 0..Len(s) /\ i # 0 /\ i - 1 \in 0..Len(s)
    OBVIOUS
  <2>3. 0 \in 0..Len(s) /\ \A i \in 0..Len(s) : i = 0 \/ i \in 1..Len(s)
    OBVIOUS
  <2>4. \A i \in 1..Len(s) : g[i] = 2 * g[i - 1] + s[i]
    BY <1>3, <2>1, <2>2, Zenon DEF IsRun, Applied
  <2>5. g = body(g)
    BY <2>1, <2>3, <2>4, Zenon DEF IsRun
  <2>6. c = body(c)
    BY <2>5, Zenon
  <2>7. Frame!Value(s) = c[Len(s)]
    BY Zenon DEF Frame!Value
  <2> HIDE DEF c
  <2>8. \A i \in 0..Len(s) : c[i] = IF i = 0 THEN 0 ELSE 2 * c[i - 1] + s[i]
    BY <2>6, Zenon
  <2> HIDE DEF body
  <2>9. Follows(c, f, Numbers, 0, s)
    BY <1>3, <2>2, <2>3, <2>8, Zenon DEF Follows, Applied
  <2>10. c[Len(s)] = Result(f, Numbers, 0, s)
    BY <1>1, <1>2, <2>9, ResultIs
  <2>11. QED
    BY <2>7, <2>10, Zenon
<1>5. Frame!Value(<<>>) = 0
  <2>1. <<>> \in Seq({0, 1})
    OBVIOUS
  <2>2. Result(f, Numbers, 0, <<>>) = 0
    BY <1>1, <1>2, ResultEmpty
  <2>3. QED
    BY <1>4, <2>1, <2>2, Zenon
<1>6. ASSUME NEW s \in Seq({0, 1})
      PROVE  Frame!Value(s) \in Numbers
  <2>1. Result(f, Numbers, 0, s) \in Numbers
    BY <1>1, <1>2, ResultType
  <2>2. QED
    BY <1>4, <2>1, Zenon
<1>7. ASSUME NEW s \in Seq({0, 1}), NEW b \in {0, 1}
      PROVE  Frame!Value(Append(s, b)) = 2 * Frame!Value(s) + b
  <2>1. Append(s, b) \in Seq({0, 1})
    OBVIOUS
  <2>2. Result(f, Numbers, 0, Append(s, b)) = Applied(f, Result(f, Numbers, 0, s), b)
    BY <1>1, <1>2, ResultAppend
  <2>3. QED
    BY <1>3, <1>4, <1>6, <2>1, <2>2, Zenon
<1>8. QED
  BY <1>5, <1>6, <1>7, Zenon

\* One bit more.
LEMMA PrefixValue ==
  ASSUME NEW s \in Seq({0, 1}), NEW k \in Nat, k < Len(s)
  PROVE  /\ Frame!Value(SubSeq(s, 1, k)) \in Nat
         /\ s[k + 1] \in {0, 1}
         /\ Frame!Value(SubSeq(s, 1, k + 1)) = 2 * Frame!Value(SubSeq(s, 1, k)) + s[k + 1]
<1>1. k + 1 \in 1..Len(s) /\ \A i \in 1..k : i \in 1..Len(s)
  OBVIOUS
<1>2. s[k + 1] \in {0, 1} /\ \A i \in 1..k : s[i] \in {0, 1}
  BY <1>1, ElementOfSeq, Zenon
<1>3. SubSeq(s, 1, k) \in Seq({0, 1})
  BY <1>2, SubSeqProperties
<1>4. SubSeq(s, 1, k + 1) = Append(SubSeq(s, 1, k), s[k + 1])
  BY <1>1
<1>5. Frame!Value(SubSeq(s, 1, k)) \in Nat
  BY <1>3, ValueLemma, Zenon DEF Numbers
<1>6. Frame!Value(Append(SubSeq(s, 1, k), s[k + 1])) = 2 * Frame!Value(SubSeq(s, 1, k)) + s[k + 1]
  BY <1>2, <1>3, ValueLemma, Zenon
<1>7. QED
  BY <1>2, <1>4, <1>5, <1>6, Zenon

\* The value of a byte.
LEMMA ByteValue ==
  ASSUME NEW s \in Seq({0, 1}), Len(s) = 8
  PROVE  Frame!Value(s)
           = 2 * (2 * (2 * (2 * (2 * (2 * (2 * (2 * 0 + s[1]) + s[2]) + s[3]) + s[4]) + s[5]) + s[6]) + s[7]) + s[8]
<1> DEFINE v(k) == Frame!Value(SubSeq(s, 1, k))
<1>0. v(0) = 0
  <2>1. SubSeq(s, 1, 0) = <<>>
    OBVIOUS
  <2>2. QED
    BY <2>1, ValueLemma, Zenon
<1>9. v(8) = Frame!Value(s)
  <2>1. SubSeq(s, 1, 8) = s
    BY SubSeqFull
  <2>2. QED
    BY <2>1, Zenon
<1>10. ASSUME NEW k \in 0..7
       PROVE  v(k) \in Nat /\ s[k + 1] \in {0, 1} /\ v(k + 1) = 2 * v(k) + s[k + 1]
  <2>1. k \in Nat /\ k < Len(s)
    OBVIOUS
  <2>2. QED
    BY <2>1, PrefixValue, Zenon
<1> HIDE DEF v
<1>11. /\ v(1) = 2 * v(0) + s[1] /\ v(2) = 2 * v(1) + s[2] /\ v(3) = 2 * v(2) + s[3]
       /\ v(4) = 2 * v(3) + s[4] /\ v(5) = 2 * v(4) + s[5] /\ v(6) = 2 * v(5) + s[6]
       /\ v(7) = 2 * v(6) + s[7] /\ v(8) = 2 * v(7) + s[8]
  <2>1. /\ v(0 + 1) = 2 * v(0) + s[0 + 1] /\ v(1 + 1) = 2 * v(1) + s[1 + 1]
        /\ v(2 + 1) = 2 * v(2) + s[2 + 1] /\ v(3 + 1) = 2 * v(3) + s[3 + 1]
        /\ v(4 + 1) = 2 * v(4) + s[4 + 1] /\ v(5 + 1) = 2 * v(5) + s[5 + 1]
        /\ v(6 + 1) = 2 * v(6) + s[6 + 1] /\ v(7 + 1) = 2 * v(7) + s[7 + 1]
    BY <1>10
  <2>2. QED
    BY <2>1
<1>12. v(8) = 2 * (2 * (2 * (2 * (2 * (2 * (2 * (2 * 0 + s[1]) + s[2]) + s[3]) + s[4]) + s[5]) + s[6]) + s[7]) + s[8]
  BY <1>0, <1>11, Zenon
<1>13. QED
  BY <1>9, <1>12, Zenon

\* The two bytes of a CRC, from its bits.
LEMMA HighLow ==
  ASSUME NEW w \in Frame!Words
  PROVE  /\ Frame!High(w) \in Nat /\ Frame!Low(w) \in Nat
         /\ Frame!High(w) = 2 * (2 * (2 * (2 * (2 * (2 * (2 * (2 * 0 + w[1]) + w[2]) + w[3]) + w[4]) + w[5]) + w[6]) + w[7]) + w[8]
         /\ Frame!Low(w) = 2 * (2 * (2 * (2 * (2 * (2 * (2 * (2 * 0 + w[9]) + w[10]) + w[11]) + w[12]) + w[13]) + w[14]) + w[15]) + w[16]
<1>1. PICK u : u = SubSeq(w, 1, 8)
  OBVIOUS
<1>2. PICK v : v = SubSeq(w, 9, 16)
  OBVIOUS
<1>3. /\ u \in Seq({0, 1}) /\ Len(u) = 8 /\ \A i \in 1..8 : u[i] = w[i]
      /\ v \in Seq({0, 1}) /\ Len(v) = 8 /\ \A i \in 1..8 : v[i] = w[i + 8]
  BY <1>1, <1>2, WordSeq
<1>4. Frame!Value(u) \in Nat /\ Frame!Value(v) \in Nat
  BY <1>3, ValueLemma, Zenon DEF Numbers
<1>5. Frame!High(w) = Frame!Value(u) /\ Frame!Low(w) = Frame!Value(v)
  BY <1>1, <1>2, Zenon DEF Frame!High, Frame!Low
<1>6. /\ Frame!Value(u) = 2 * (2 * (2 * (2 * (2 * (2 * (2 * (2 * 0 + u[1]) + u[2]) + u[3]) + u[4]) + u[5]) + u[6]) + u[7]) + u[8]
      /\ Frame!Value(v) = 2 * (2 * (2 * (2 * (2 * (2 * (2 * (2 * 0 + v[1]) + v[2]) + v[3]) + v[4]) + v[5]) + v[6]) + v[7]) + v[8]
  BY <1>3, ByteValue, Zenon
<1>7. /\ u[1] = w[1] /\ u[2] = w[2] /\ u[3] = w[3] /\ u[4] = w[4]
      /\ u[5] = w[5] /\ u[6] = w[6] /\ u[7] = w[7] /\ u[8] = w[8]
      /\ v[1] = w[9] /\ v[2] = w[10] /\ v[3] = w[11] /\ v[4] = w[12]
      /\ v[5] = w[13] /\ v[6] = w[14] /\ v[7] = w[15] /\ v[8] = w[16]
  BY <1>3
<1>8. QED
  BY <1>4, <1>5, <1>6, <1>7, Zenon

\* The turns of the register for the bytes ACK and NACK.
LEMMA TurnLemma ==
  ASSUME NEW w \in Frame!Words, NEW v \in Frame!Words,
         \A i \in 1..16 : v[i] = ((IF i = 16 THEN 0 ELSE w[i + 1])
                                  + (IF w[1] = 1 /\ i \in {1, 14, 16} THEN 1 ELSE 0)) % 2
  PROVE  Frame!CrcBit(w) = v
<1>1. PICK u : u = Frame!CrcBit(w)
  OBVIOUS
<1>2. u \in Frame!Words /\ \A i \in 1..16 : u[i] = v[i]
  BY <1>1, CrcBitLemma
<1>3. u = v
  <2>1. u \in [1..16 -> {0, 1}] /\ v \in [1..16 -> {0, 1}]
    BY <1>2, Zenon DEF Frame!Words
  <2>2. QED
    BY <1>2, <2>1
<1>4. QED
  BY <1>1, <1>3, Zenon

\* The registers on the way from ACK and from NACK, named by their values.
R5500 == <<0, 1, 0, 1, 0, 1, 0, 1, 0, 0, 0, 0, 0, 0, 0, 0>>
RAA00 == <<1, 0, 1, 0, 1, 0, 1, 0, 0, 0, 0, 0, 0, 0, 0, 0>>
RD405 == <<1, 1, 0, 1, 0, 1, 0, 0, 0, 0, 0, 0, 0, 1, 0, 1>>
R280F == <<0, 0, 1, 0, 1, 0, 0, 0, 0, 0, 0, 0, 1, 1, 1, 1>>
R501E == <<0, 1, 0, 1, 0, 0, 0, 0, 0, 0, 0, 1, 1, 1, 1, 0>>
RA03C == <<1, 0, 1, 0, 0, 0, 0, 0, 0, 0, 1, 1, 1, 1, 0, 0>>
RC07D == <<1, 1, 0, 0, 0, 0, 0, 0, 0, 1, 1, 1, 1, 1, 0, 1>>
R00FF == <<0, 0, 0, 0, 0, 0, 0, 0, 1, 1, 1, 1, 1, 1, 1, 1>>
R01FE == <<0, 0, 0, 0, 0, 0, 0, 1, 1, 1, 1, 1, 1, 1, 1, 0>>
R03FC == <<0, 0, 0, 0, 0, 0, 1, 1, 1, 1, 1, 1, 1, 1, 0, 0>>

\* The inner loop of crc16 turns each of these registers into the next.
LEMMA AnswerTurns ==
  /\ Frame!CrcBit(R5500) = RAA00 /\ Frame!CrcBit(RAA00) = RD405 /\ Frame!CrcBit(RD405) = R280F
  /\ Frame!CrcBit(R280F) = R501E /\ Frame!CrcBit(R501E) = RA03C /\ Frame!CrcBit(RA03C) = RC07D
  /\ Frame!CrcBit(RC07D) = R00FF /\ Frame!CrcBit(R00FF) = R01FE /\ Frame!CrcBit(R01FE) = R03FC
<1>1. /\ R5500 \in Frame!Words /\ RAA00 \in Frame!Words /\ RD405 \in Frame!Words /\ R280F \in Frame!Words
      /\ R501E \in Frame!Words /\ RA03C \in Frame!Words /\ RC07D \in Frame!Words /\ R00FF \in Frame!Words
      /\ R01FE \in Frame!Words /\ R03FC \in Frame!Words
  BY DEF Frame!Words, R5500, RAA00, RD405, R280F, R501E, RA03C, RC07D, R00FF, R01FE, R03FC
<1>2. Frame!CrcBit(R5500) = RAA00
  <2>1. \A i \in 1..16 : RAA00[i] = ((IF i = 16 THEN 0 ELSE R5500[i + 1])
                                 + (IF R5500[1] = 1 /\ i \in {1, 14, 16} THEN 1 ELSE 0)) % 2
    BY DEF R5500, RAA00
  <2>2. QED
    BY <1>1, <2>1, TurnLemma
<1>3. Frame!CrcBit(RAA00) = RD405
  <2>1. \A i \in 1..16 : RD405[i] = ((IF i = 16 THEN 0 ELSE RAA00[i + 1])
                                 + (IF RAA00[1] = 1 /\ i \in {1, 14, 16} THEN 1 ELSE 0)) % 2
    BY DEF RAA00, RD405
  <2>2. QED
    BY <1>1, <2>1, TurnLemma
<1>4. Frame!CrcBit(RD405) = R280F
  <2>1. \A i \in 1..16 : R280F[i] = ((IF i = 16 THEN 0 ELSE RD405[i + 1])
                                 + (IF RD405[1] = 1 /\ i \in {1, 14, 16} THEN 1 ELSE 0)) % 2
    BY DEF RD405, R280F
  <2>2. QED
    BY <1>1, <2>1, TurnLemma
<1>5. Frame!CrcBit(R280F) = R501E
  <2>1. \A i \in 1..16 : R501E[i] = ((IF i = 16 THEN 0 ELSE R280F[i + 1])
                                 + (IF R280F[1] = 1 /\ i \in {1, 14, 16} THEN 1 ELSE 0)) % 2
    BY DEF R280F, R501E
  <2>2. QED
    BY <1>1, <2>1, TurnLemma
<1>6. Frame!CrcBit(R501E) = RA03C
  <2>1. \A i \in 1..16 : RA03C[i] = ((IF i = 16 THEN 0 ELSE R501E[i + 1])
                                 + (IF R501E[1] = 1 /\ i \in {1, 14, 16} THEN 1 ELSE 0)) % 2
    BY DEF R501E, RA03C
  <2>2. QED
    BY <1>1, <2>1, TurnLemma
<1>7. Frame!CrcBit(RA03C) = RC07D
  <2>1. \A i \in 1..16 : RC07D[i] = ((IF i = 16 THEN 0 ELSE RA03C[i + 1])
                                 + (IF RA03C[1] = 1 /\ i \in {1, 14, 16} THEN 1 ELSE 0)) % 2
    BY DEF RA03C, RC07D
  <2>2. QED
    BY <1>1, <2>1, TurnLemma
<1>8. Frame!CrcBit(RC07D) = R00FF
  <2>1. \A i \in 1..16 : R00FF[i] = ((IF i = 16 THEN 0 ELSE RC07D[i + 1])
                                 + (IF RC07D[1] = 1 /\ i \in {1, 14, 16} THEN 1 ELSE 0)) % 2
    BY DEF RC07D, R00FF
  <2>2. QED
    BY <1>1, <2>1, TurnLemma
<1>9. Frame!CrcBit(R00FF) = R01FE
  <2>1. \A i \in 1..16 : R01FE[i] = ((IF i = 16 THEN 0 ELSE R00FF[i + 1])
                                 + (IF R00FF[1] = 1 /\ i \in {1, 14, 16} THEN 1 ELSE 0)) % 2
    BY DEF R00FF, R01FE
  <2>2. QED
    BY <1>1, <2>1, TurnLemma
<1>10. Frame!CrcBit(R01FE) = R03FC
  <2>1. \A i \in 1..16 : R03FC[i] = ((IF i = 16 THEN 0 ELSE R01FE[i + 1])
                                 + (IF R01FE[1] = 1 /\ i \in {1, 14, 16} THEN 1 ELSE 0)) % 2
    BY DEF R01FE, R03FC
  <2>2. QED
    BY <1>1, <2>1, TurnLemma
<1>11. QED
  BY <1>2, <1>3, <1>4, <1>5, <1>6, <1>7, <1>8, <1>9, <1>10

\* Nothing is changed by the XOR with 0.
LEMMA XorZero ==
  ASSUME NEW w \in Frame!Words
  PROVE  Frame!Xor(Frame!Bits(0, 16), w) = w
<1>1. PICK z : z = Frame!Bits(0, 16)
  OBVIOUS
<1>2. z \in Frame!Words /\ \A i \in 1..16 : z[i] = 0
  BY <1>1 DEF Frame!Bits, Frame!Words
<1>3. PICK u : u = Frame!Xor(z, w)
  OBVIOUS
<1>4. u \in [1..16 -> {0, 1}] /\ w \in [1..16 -> {0, 1}] /\ \A i \in 1..16 : u[i] = w[i]
  BY <1>2, <1>3, XorLemma DEF Frame!Words
<1>5. u = w
  BY <1>4
<1>6. QED
  BY <1>1, <1>3, <1>5, Zenon

\* What a byte makes of an empty register, turn by turn.
LEMMA ByteRegister ==
  ASSUME NEW b \in Nat, NEW x,
         Frame!Xor(Frame!Bits(0, 16), Frame!reverse(Frame!Bits(b, 8)) \o Frame!Bits(0, 8)) = x
  PROVE  \E t : /\ t[0] = x /\ Frame!Register(<<b>>) = t[8]
                /\ t[1] = Frame!CrcBit(t[0]) /\ t[2] = Frame!CrcBit(t[1])
                /\ t[3] = Frame!CrcBit(t[2]) /\ t[4] = Frame!CrcBit(t[3])
                /\ t[5] = Frame!CrcBit(t[4]) /\ t[6] = Frame!CrcBit(t[5])
                /\ t[7] = Frame!CrcBit(t[6]) /\ t[8] = Frame!CrcBit(t[7])
<1>1. Frame!Bits(0, 16) \in Frame!Words
  BY BitsLemma
<1>2. PICK t : /\ t[0] = Frame!Xor(Frame!Bits(0, 16), Frame!reverse(Frame!Bits(b, 8)) \o Frame!Bits(0, 8))
               /\ \A i \in 1..8 : t[i - 1] \in Frame!Words /\ t[i] = Frame!CrcBit(t[i - 1])
               /\ t[8] \in Frame!Words /\ Frame!CrcByte(b)[Frame!Bits(0, 16)] = t[8]
  BY <1>1, CrcByteRun
<1>3. /\ t[1] = Frame!CrcBit(t[1 - 1]) /\ t[2] = Frame!CrcBit(t[2 - 1])
      /\ t[3] = Frame!CrcBit(t[3 - 1]) /\ t[4] = Frame!CrcBit(t[4 - 1])
      /\ t[5] = Frame!CrcBit(t[5 - 1]) /\ t[6] = Frame!CrcBit(t[6 - 1])
      /\ t[7] = Frame!CrcBit(t[7 - 1]) /\ t[8] = Frame!CrcBit(t[8 - 1])
  BY <1>2
<1>4. /\ t[1] = Frame!CrcBit(t[0]) /\ t[2] = Frame!CrcBit(t[1]) /\ t[3] = Frame!CrcBit(t[2])
      /\ t[4] = Frame!CrcBit(t[3]) /\ t[5] = Frame!CrcBit(t[4]) /\ t[6] = Frame!CrcBit(t[5])
      /\ t[7] = Frame!CrcBit(t[6]) /\ t[8] = Frame!CrcBit(t[7])
  BY <1>3
<1>5. <<b>> = Append(<<>>, b) /\ <<>> \in Seq(Nat)
  OBVIOUS
<1>6. Frame!Register(<<b>>) = Frame!CrcByte(b)[Frame!Bits(0, 16)]
  BY <1>5, RegisterLemma, Zenon
<1>7. QED
  BY <1>2, <1>4, <1>6, Zenon

\* What ACK and NACK put into an empty register.
LEMMA AnswerIn ==
  /\ Frame!Xor(Frame!Bits(0, 16), Frame!reverse(Frame!Bits(170, 8)) \o Frame!Bits(0, 8)) = R5500
  /\ Frame!Xor(Frame!Bits(0, 16), Frame!reverse(Frame!Bits(85, 8)) \o Frame!Bits(0, 8)) = RAA00
<1>1. PICK a : a = Frame!reverse(Frame!Bits(170, 8))
  OBVIOUS
<1>2. PICK n : n = Frame!reverse(Frame!Bits(85, 8))
  OBVIOUS
<1>3. PICK z : z = Frame!Bits(0, 8)
  OBVIOUS
<1>4. a = <<0, 1, 0, 1, 0, 1, 0, 1>>
  BY <1>1 DEF Frame!reverse, Frame!Bits
<1>5. n = <<1, 0, 1, 0, 1, 0, 1, 0>>
  BY <1>2 DEF Frame!reverse, Frame!Bits
<1>6. z = <<0, 0, 0, 0, 0, 0, 0, 0>>
  BY <1>3 DEF Frame!Bits
<1>7. /\ a \in Seq({0, 1}) /\ Len(a) = 8
      /\ n \in Seq({0, 1}) /\ Len(n) = 8
      /\ z \in Seq({0, 1}) /\ Len(z) = 8
  BY <1>4, <1>5, <1>6
<1>8. a \o z = R5500 /\ a \o z \in Frame!Words
  <2>1. PICK w : w = a \o z
    OBVIOUS
  <2>2. w \in Frame!Words /\ \A i \in 1..16 : w[i] = IF i <= 8 THEN a[i] ELSE z[i - 8]
    BY <1>7, <2>1, ConcatWord, Zenon
  <2>3. \A i \in 1..16 : w[i] = R5500[i]
    BY <1>4, <1>6, <2>2 DEF R5500
  <2>4. w \in [1..16 -> {0, 1}] /\ R5500 \in [1..16 -> {0, 1}]
    BY <2>2 DEF Frame!Words, R5500
  <2>5. w = R5500
    BY <2>3, <2>4
  <2>6. QED
    BY <2>1, <2>2, <2>5, Zenon
<1>9. n \o z = RAA00 /\ n \o z \in Frame!Words
  <2>1. PICK w : w = n \o z
    OBVIOUS
  <2>2. w \in Frame!Words /\ \A i \in 1..16 : w[i] = IF i <= 8 THEN n[i] ELSE z[i - 8]
    BY <1>7, <2>1, ConcatWord, Zenon
  <2>3. \A i \in 1..16 : w[i] = RAA00[i]
    BY <1>5, <1>6, <2>2 DEF RAA00
  <2>4. w \in [1..16 -> {0, 1}] /\ RAA00 \in [1..16 -> {0, 1}]
    BY <2>2 DEF Frame!Words, RAA00
  <2>5. w = RAA00
    BY <2>3, <2>4
  <2>6. QED
    BY <2>1, <2>2, <2>5, Zenon
<1>10. /\ Frame!Xor(Frame!Bits(0, 16), a \o z) = R5500
       /\ Frame!Xor(Frame!Bits(0, 16), n \o z) = RAA00
  BY <1>8, <1>9, XorZero, Zenon
<1>11. QED
  BY <1>1, <1>2, <1>3, <1>10

\* The register after the byte of an answer.
LEMMA AnswerRegister ==
  /\ Frame!Register(<<170>>) = R01FE
  /\ Frame!Register(<<85>>) = R03FC
<1>1. PICK a \in Nat : a = 170
  OBVIOUS
<1>2. PICK n \in Nat : n = 85
  OBVIOUS
<1>3. /\ Frame!Xor(Frame!Bits(0, 16), Frame!reverse(Frame!Bits(a, 8)) \o Frame!Bits(0, 8)) = R5500
      /\ Frame!Xor(Frame!Bits(0, 16), Frame!reverse(Frame!Bits(n, 8)) \o Frame!Bits(0, 8)) = RAA00
  BY <1>1, <1>2, AnswerIn
<1>4. Frame!Register(<<a>>) = R01FE
  <2>1. PICK t : /\ t[0] = R5500 /\ Frame!Register(<<a>>) = t[8]
                 /\ t[1] = Frame!CrcBit(t[0]) /\ t[2] = Frame!CrcBit(t[1])
                 /\ t[3] = Frame!CrcBit(t[2]) /\ t[4] = Frame!CrcBit(t[3])
                 /\ t[5] = Frame!CrcBit(t[4]) /\ t[6] = Frame!CrcBit(t[5])
                 /\ t[7] = Frame!CrcBit(t[6]) /\ t[8] = Frame!CrcBit(t[7])
    BY <1>3, ByteRegister
  <2>2. QED
    BY <2>1, AnswerTurns
<1>5. Frame!Register(<<n>>) = R03FC
  <2>1. PICK t : /\ t[0] = RAA00 /\ Frame!Register(<<n>>) = t[8]
                 /\ t[1] = Frame!CrcBit(t[0]) /\ t[2] = Frame!CrcBit(t[1])
                 /\ t[3] = Frame!CrcBit(t[2]) /\ t[4] = Frame!CrcBit(t[3])
                 /\ t[5] = Frame!CrcBit(t[4]) /\ t[6] = Frame!CrcBit(t[5])
                 /\ t[7] = Frame!CrcBit(t[6]) /\ t[8] = Frame!CrcBit(t[7])
    BY <1>3, ByteRegister
  <2>2. QED
    BY <2>1, AnswerTurns
<1>6. QED
  BY <1>1, <1>2, <1>4, <1>5

\* An answer, sealed: no byte of it looks like DLE.
LEMMA AnswerSealed ==
  /\ Frame!Sealed(<<170>>) = <<170, 127, 128>>
  /\ Frame!Sealed(<<85>>) = <<85, 63, 192>>
<1>1. Frame!Sealed(<<170>>) = <<170, 127, 128>>
  <2>1. PICK d : d = <<170>>
    OBVIOUS
  <2>2. PICK w : w = Frame!crc16(d)
    OBVIOUS
  <2>3. R01FE \in Frame!Words /\ w = Frame!reverse(R01FE)
    BY <2>1, <2>2, AnswerRegister DEF Frame!crc16, Frame!Words, R01FE
  <2>4. w \in Frame!Words /\ \A i \in 1..16 : w[i] = R01FE[17 - i]
    BY <2>3, ReverseLemma
  <2>5. /\ w[1] = 0 /\ w[2] = 1 /\ w[3] = 1 /\ w[4] = 1 /\ w[5] = 1 /\ w[6] = 1 /\ w[7] = 1 /\ w[8] = 1
        /\ w[9] = 1 /\ w[10] = 0 /\ w[11] = 0 /\ w[12] = 0 /\ w[13] = 0 /\ w[14] = 0 /\ w[15] = 0 /\ w[16] = 0
    BY <2>4 DEF R01FE
  <2>6. Frame!High(w) = 127 /\ Frame!Low(w) = 128
    BY <2>4, <2>5, HighLow
  <2>7. Frame!Sealed(d) = d \o <<Frame!High(w), Frame!Low(w)>>
    BY <2>2, Zenon DEF Frame!Sealed
  <2>8. PICK h : h = Frame!High(w)
    OBVIOUS
  <2>9. PICK l : l = Frame!Low(w)
    OBVIOUS
  <2>10. Frame!Sealed(d) = d \o <<h, l>>
    BY <2>7, <2>8, <2>9, Zenon
  <2>11. QED
    BY <2>1, <2>6, <2>8, <2>9, <2>10
<1>2. Frame!Sealed(<<85>>) = <<85, 63, 192>>
  <2>1. PICK d : d = <<85>>
    OBVIOUS
  <2>2. PICK w : w = Frame!crc16(d)
    OBVIOUS
  <2>3. R03FC \in Frame!Words /\ w = Frame!reverse(R03FC)
    BY <2>1, <2>2, AnswerRegister DEF Frame!crc16, Frame!Words, R03FC
  <2>4. w \in Frame!Words /\ \A i \in 1..16 : w[i] = R03FC[17 - i]
    BY <2>3, ReverseLemma
  <2>5. /\ w[1] = 0 /\ w[2] = 0 /\ w[3] = 1 /\ w[4] = 1 /\ w[5] = 1 /\ w[6] = 1 /\ w[7] = 1 /\ w[8] = 1
        /\ w[9] = 1 /\ w[10] = 1 /\ w[11] = 0 /\ w[12] = 0 /\ w[13] = 0 /\ w[14] = 0 /\ w[15] = 0 /\ w[16] = 0
    BY <2>4 DEF R03FC
  <2>6. Frame!High(w) = 63 /\ Frame!Low(w) = 192
    BY <2>4, <2>5, HighLow
  <2>7. Frame!Sealed(d) = d \o <<Frame!High(w), Frame!Low(w)>>
    BY <2>2, Zenon DEF Frame!Sealed
  <2>8. PICK h : h = Frame!High(w)
    OBVIOUS
  <2>9. PICK l : l = Frame!Low(w)
    OBVIOUS
  <2>10. Frame!Sealed(d) = d \o <<h, l>>
    BY <2>7, <2>8, <2>9, Zenon
  <2>11. QED
    BY <2>1, <2>6, <2>8, <2>9, <2>10
<1>3. QED
  BY <1>1, <1>2

\* A sealed payload is a string of bytes.
LEMMA SealedType ==
  ASSUME NEW data \in Seq(Nat)
  PROVE  Frame!Sealed(data) \in Seq(Nat)
<1>1. PICK w : w = Frame!crc16(data)
  OBVIOUS
<1>2. w \in Frame!Words
  BY <1>1, RegisterLemma, ReverseLemma, Zenon DEF Frame!crc16
<1>3. PICK h \in Nat : h = Frame!High(w)
  BY <1>2, HighLow
<1>4. PICK l \in Nat : l = Frame!Low(w)
  BY <1>2, HighLow
<1>5. data \o <<h, l>> \in Seq(Nat)
  OBVIOUS
<1>6. QED
  BY <1>1, <1>3, <1>4, <1>5, Zenon DEF Frame!Sealed

\* Strings of bytes, one after the other.
LEMMA ConcatType ==
  ASSUME NEW q \in Strings, NEW t \in Strings
  PROVE  q \o t \in Strings
  BY ConcatProperties, Zenon DEF Strings

\* Concatenation of strings is associative.
LEMMA Regroup ==
  \A s, t, u \in Strings : (s \o t) \o u = s \o (t \o u)
  BY ConcatAssociative, SMTT(30) DEF Strings

\* Two bytes more.
LEMMA TwoBytes ==
  ASSUME NEW q \in Strings, NEW b1 \in Nat, NEW b2 \in Nat
  PROVE  <<b1, b2>> \in Strings /\ q \o <<b1, b2>> = Append(Append(q, b1), b2)
  BY DEF Strings

\* Three bytes more.
LEMMA ThreeBytes ==
  ASSUME NEW q \in Strings, NEW b1 \in Nat, NEW b2 \in Nat, NEW b3 \in Nat
  PROVE  /\ <<b1, b2, b3>> \in Strings
         /\ q \o <<b1, b2, b3>> = Append(Append(Append(q, b1), b2), b3)
  BY DEF Strings

\* The bytes of an answer.
LEMMA AnswerBytesLemma ==
  /\ AnswerBytes("ACK") = <<16, 2>> \o <<170, 127, 128>> \o <<16, 3>>
  /\ AnswerBytes("NACK") = <<16, 2>> \o <<85, 63, 192>> \o <<16, 3>>
<1>1. PICK a : a = Frame!Sealed(<<170>>)
  OBVIOUS
<1>2. PICK n : n = Frame!Sealed(<<85>>)
  OBVIOUS
<1>3. a = <<170, 127, 128>> /\ n = <<85, 63, 192>>
  BY <1>1, <1>2, AnswerSealed
<1>4. AnswerBytes("ACK") = <<16, 2>> \o a \o <<16, 3>>
  BY <1>1 DEF AnswerBytes, Frame!DLE, Frame!STX, Frame!ETX, Frame!ACK
<1>5. AnswerBytes("NACK") = <<16, 2>> \o n \o <<16, 3>>
  BY <1>2 DEF AnswerBytes, Frame!DLE, Frame!STX, Frame!ETX, Frame!NACK
<1>6. QED
  BY <1>3, <1>4, <1>5

\* The bytes of one answer more make a string.
LEMMA BytesType ==
  ASSUME NEW q \in Strings, NEW a \in Answers
  PROVE  q \o AnswerBytes(a) \in Strings
<1>1. PICK first : first = <<16, 2>>
  OBVIOUS
<1>2. PICK last : last = <<16, 3>>
  OBVIOUS
<1>3. PICK ack : ack = <<170, 127, 128>>
  OBVIOUS
<1>4. PICK nack : nack = <<85, 63, 192>>
  OBVIOUS
<1>5. first \in Strings /\ last \in Strings /\ ack \in Strings /\ nack \in Strings
  BY <1>1, <1>2, <1>3, <1>4 DEF Strings
<1>6. AnswerBytes(a) = first \o ack \o last \/ AnswerBytes(a) = first \o nack \o last
  BY <1>1, <1>2, <1>3, <1>4, AnswerBytesLemma DEF Answers
<1>7. QED
  BY <1>5, <1>6, ConcatType, Zenon

\* The bytes of answers, answer by answer.
LEMMA BytesOfLemma ==
  /\ BytesOf(<<>>) = <<>>
  /\ \A s \in Seq(Answers) :
       /\ BytesOf(s) \in Strings
       /\ \A b \in Answers : BytesOf(Append(s, b)) = BytesOf(s) \o AnswerBytes(b)
<1> DEFINE f == [p \in Strings \X Answers |-> p[1] \o AnswerBytes(p[2])]
<1>1. IsStep(f, Strings, Answers)
  BY BytesType DEF IsStep
<1>2. <<>> \in Strings
  BY DEF Strings
<1>3. \A r \in Strings, b \in Answers : Applied(f, r, b) = r \o AnswerBytes(b)
  BY DEF Applied
<1> HIDE DEF f
<1>4. ASSUME NEW s \in Seq(Answers)
      PROVE  BytesOf(s) = Result(f, Strings, <<>>, s)
  <2> DEFINE body(g) ==
        [i \in 0..Len(s) |-> IF i = 0 THEN <<>> ELSE g[i - 1] \o AnswerBytes(s[i])]
      c == CHOOSE g : g = body(g)
  <2>1. PICK g : IsRun(g, f, Strings, <<>>, s)
    BY <1>1, <1>2, LoopLemma, Zenon
  <2>2. \A i \in 1..Len(s) : s[i] \in Answers /\ i \in 0..Len(s) /\ i # 0 /\ i - 1 \in 0..Len(s)
    OBVIOUS
  <2>3. 0 \in 0..Len(s) /\ \A i \in 0..Len(s) : i = 0 \/ i \in 1..Len(s)
    OBVIOUS
  <2>4. \A i \in 1..Len(s) : g[i] = g[i - 1] \o AnswerBytes(s[i])
    BY <1>3, <2>1, <2>2, Zenon DEF IsRun, Applied
  <2>5. g = body(g)
    BY <2>1, <2>3, <2>4, Zenon DEF IsRun
  <2>6. c = body(c)
    BY <2>5, Zenon
  <2>7. BytesOf(s) = c[Len(s)]
    BY Zenon DEF BytesOf
  <2> HIDE DEF c
  <2>8. \A i \in 0..Len(s) : c[i] = IF i = 0 THEN <<>> ELSE c[i - 1] \o AnswerBytes(s[i])
    BY <2>6, Zenon
  <2> HIDE DEF body
  <2>9. Follows(c, f, Strings, <<>>, s)
    BY <1>3, <2>2, <2>3, <2>8, Zenon DEF Follows, Applied
  <2>10. c[Len(s)] = Result(f, Strings, <<>>, s)
    BY <1>1, <1>2, <2>9, ResultIs
  <2>11. QED
    BY <2>7, <2>10, Zenon
<1>5. BytesOf(<<>>) = <<>>
  <2>1. <<>> \in Seq(Answers)
    OBVIOUS
  <2>2. Result(f, Strings, <<>>, <<>>) = <<>>
    BY <1>1, <1>2, ResultEmpty
  <2>3. QED
    BY <1>4, <2>1, <2>2, Zenon
<1>6. ASSUME NEW s \in Seq(Answers)
      PROVE  BytesOf(s) \in Strings
  <2>1. Result(f, Strings, <<>>, s) \in Strings
    BY <1>1, <1>2, ResultType
  <2>2. QED
    BY <1>4, <2>1, Zenon
<1>7. ASSUME NEW s \in Seq(Answers), NEW b \in Answers
      PROVE  BytesOf(Append(s, b)) = BytesOf(s) \o AnswerBytes(b)
  <2>1. Append(s, b) \in Seq(Answers)
    OBVIOUS
  <2>2. Result(f, Strings, <<>>, Append(s, b)) = Applied(f, Result(f, Strings, <<>>, s), b)
    BY <1>1, <1>2, ResultAppend
  <2>3. QED
    BY <1>3, <1>4, <1>6, <2>1, <2>2, Zenon
<1>8. QED
  BY <1>5, <1>6, <1>7, Zenon

-----------------------------------------------------------------------------
(* Frames.                                                                  *)

\* A board that removes the stuffing is between two bytes after each byte of the
\* payload, and has found the payload up to it.
THEOREM StuffingIsRemoved ==
  \A p \in Seq(Nat) : Unstuffing(Frame!Stuffed(p)) = [state |-> "plain", content |-> p]
<1> DEFINE T == {p \in Seq(Nat) : Unstuffing(Frame!Stuffed(p)) = [state |-> "plain", content |-> p]}
<1>1. <<>> \in T
  <2>1. Unstuffing(Frame!Stuffed(<<>>)) = [state |-> "plain", content |-> <<>>]
    BY StuffedLemma, UnstuffingLemma, Zenon DEF Fresh
  <2>2. QED
    BY <2>1
<1>2. ASSUME NEW p \in Seq(Nat), NEW b \in Nat, p \in T
      PROVE  Append(p, b) \in T
  <2>1. PICK q : q = Frame!Stuffed(p)
    OBVIOUS
  <2>2. q \in Seq(Nat) /\ Frame!Stuffed(Append(p, b)) = Frame!Stuff(q, b)
    BY <2>1, StuffedLemma, Zenon DEF Strings
  <2>3. PICK r : r = Unstuffing(q)
    OBVIOUS
  <2>4. r = [state |-> "plain", content |-> p]
    BY <1>2, <2>1, <2>3, Zenon
  <2>5. Unstuffing(Frame!Stuff(q, b)) = [state |-> "plain", content |-> Append(p, b)]
    <3>1. CASE b = 16
      <4>1. PICK q1 : q1 = Append(q, 16)
        OBVIOUS
      <4>2. q1 \in Seq(Nat) /\ Frame!Stuff(q, b) = Append(q1, 16) /\ 16 \in Nat
        BY <2>2, <3>1, <4>1 DEF Frame!Stuff, Frame!DLE
      <4>3. PICK r1 : r1 = Unstuff(r, 16)
        OBVIOUS
      <4>4. Unstuffing(q1) = r1
        BY <2>2, <2>3, <4>1, <4>2, <4>3, UnstuffingLemma
      <4>5. Unstuffing(Append(q1, 16)) = Unstuff(r1, 16)
        BY <4>2, <4>4, UnstuffingLemma
      <4>6. r1 = [state |-> "dle", content |-> p]
        BY <2>4, <4>3 DEF Unstuff, Frame!DLE
      <4>7. Unstuff(r1, 16) = [state |-> "plain", content |-> Append(p, 16)]
        BY <4>6 DEF Unstuff, Frame!DLE
      <4>8. QED
        BY <3>1, <4>2, <4>5, <4>7
    <3>2. CASE b # 16
      <4>1. Frame!Stuff(q, b) = Append(q, b)
        BY <3>2 DEF Frame!Stuff, Frame!DLE
      <4>2. Unstuffing(Append(q, b)) = Unstuff(r, b)
        BY <2>2, <2>3, UnstuffingLemma, Zenon
      <4>3. Unstuff(r, b) = [state |-> "plain", content |-> Append(p, b)]
        BY <2>4, <3>2 DEF Unstuff, Frame!DLE
      <4>4. QED
        BY <4>1, <4>2, <4>3, Zenon
    <3>3. QED
      BY <3>1, <3>2, Zenon
  <2>6. Append(p, b) \in Seq(Nat)
    OBVIOUS
  <2>7. QED
    BY <2>2, <2>5, <2>6, Zenon
<1> HIDE DEF T
<1>3. \A p \in Seq(Nat) : p \in T
  BY <1>1, <1>2, SeqInduction, Zenon
<1>4. QED
  BY <1>3, Zenon DEF T

\* What is between the delimiters of a frame.
LEMMA DelimiterLemma ==
  ASSUME NEW q \in Seq(Nat), NEW f, f = <<16, 2>> \o q \o <<16, 3>>
  PROVE  /\ SubSeq(f, 1, 2) = <<16, 2>>
         /\ SubSeq(f, 3, Len(f) - 2) = q
         /\ SubSeq(f, Len(f) - 1, Len(f)) = <<16, 3>>
<1>1. /\ f \in Seq(Nat) /\ Len(f) = Len(q) + 4 /\ Len(q) \in Nat
      /\ f[1] = 16 /\ f[2] = 2 /\ f[Len(q) + 3] = 16 /\ f[Len(q) + 4] = 3
      /\ \A i \in 1..Len(q) : f[i + 2] = q[i]
  OBVIOUS
<1>2. SubSeq(f, 1, 2) = <<16, 2>>
  <2>1. PICK u : u = SubSeq(f, 1, 2)
    OBVIOUS
  <2>2. u \in Seq(Nat) /\ Len(u) = 2 /\ u[1] = 16 /\ u[2] = 2
    BY <1>1, <2>1
  <2>3. u = <<16, 2>>
    BY <2>2
  <2>4. QED
    BY <2>1, <2>3
<1>3. SubSeq(f, Len(f) - 1, Len(f)) = <<16, 3>>
  <2>1. PICK u : u = SubSeq(f, Len(f) - 1, Len(f))
    OBVIOUS
  <2>2. u \in Seq(Nat) /\ Len(u) = 2 /\ u[1] = 16 /\ u[2] = 3
    BY <1>1, <2>1
  <2>3. u = <<16, 3>>
    BY <2>2
  <2>4. QED
    BY <2>1, <2>3
<1>4. SubSeq(f, 3, Len(f) - 2) = q
  <2>1. PICK u : u = SubSeq(f, 3, Len(f) - 2)
    OBVIOUS
  <2>2. u \in Seq(Nat) /\ Len(u) = Len(q) /\ \A i \in 1..Len(q) : u[i] = q[i]
    BY <1>1, <2>1
  <2>3. u = q
    BY <2>2, SeqEqual
  <2>4. QED
    BY <2>1, <2>3, Zenon
<1>5. QED
  BY <1>2, <1>3, <1>4, Zenon

\* encode_frame: a board that removes the stuffing finds its mask, the command,
\* the data and the CRC that a standard unit computes, for every data.
THEOREM EveryFrameDecodes ==
  \A id \in 1..8, command \in Nat, extra_data \in Seq(Nat) :
    LET frame == Frame!encode_frame(id, command, extra_data)
        data == <<2^(id - 1), command>> \o extra_data
        crc == CrcReference(data)
    IN  /\ SubSeq(frame, 1, 2) = <<Frame!DLE, Frame!STX>>
        /\ SubSeq(frame, Len(frame) - 1, Len(frame)) = <<Frame!DLE, Frame!ETX>>
        /\ Unstuffed(SubSeq(frame, 3, Len(frame) - 2)) = data \o <<Frame!High(crc), Frame!Low(crc)>>
<1> SUFFICES ASSUME NEW id \in 1..8, NEW command \in Nat, NEW extra_data \in Seq(Nat)
             PROVE  LET frame == Frame!encode_frame(id, command, extra_data)
                        data == <<2^(id - 1), command>> \o extra_data
                        crc == CrcReference(data)
                    IN  /\ SubSeq(frame, 1, 2) = <<Frame!DLE, Frame!STX>>
                        /\ SubSeq(frame, Len(frame) - 1, Len(frame)) = <<Frame!DLE, Frame!ETX>>
                        /\ Unstuffed(SubSeq(frame, 3, Len(frame) - 2))
                             = data \o <<Frame!High(crc), Frame!Low(crc)>>
  BY Zenon
<1>1. PICK frame : frame = Frame!encode_frame(id, command, extra_data)
  OBVIOUS
<1>2. PICK data : data = <<2^(id - 1), command>> \o extra_data
  OBVIOUS
<1>3. PICK mask : mask = 2^(id - 1)
  OBVIOUS
<1>4. mask \in Nat
  <2>1. \/ id = 1 \/ id = 2 \/ id = 3 \/ id = 4 \/ id = 5 \/ id = 6 \/ id = 7 \/ id = 8
    OBVIOUS
  <2>2. 2^(1 - 1) \in Nat /\ 2^(2 - 1) \in Nat /\ 2^(3 - 1) \in Nat /\ 2^(4 - 1) \in Nat
    OBVIOUS
  <2>3. 2^(5 - 1) \in Nat /\ 2^(6 - 1) \in Nat /\ 2^(7 - 1) \in Nat /\ 2^(8 - 1) \in Nat
    OBVIOUS
  <2>4. QED
    BY <1>3, <2>1, <2>2, <2>3, Zenon
<1>5. data = <<mask, command>> \o extra_data
  BY <1>2, <1>3, Zenon
<1>6. data \in Seq(Nat)
  BY <1>4, <1>5
<1>7. PICK p : p = Frame!Sealed(data)
  OBVIOUS
<1>8. p \in Seq(Nat)
  BY <1>6, <1>7, SealedType, Zenon
<1>9. PICK q : q = Frame!Stuffed(p)
  OBVIOUS
<1>10. q \in Seq(Nat)
  BY <1>8, <1>9, StuffedLemma, Zenon DEF Strings
<1>11. frame = <<16, 2>> \o q \o <<16, 3>>
  BY <1>1, <1>2, <1>7, <1>9, Zenon DEF Frame!encode_frame, Frame!DLE, Frame!STX, Frame!ETX
<1>12. /\ SubSeq(frame, 1, 2) = <<16, 2>>
       /\ SubSeq(frame, 3, Len(frame) - 2) = q
       /\ SubSeq(frame, Len(frame) - 1, Len(frame)) = <<16, 3>>
  BY <1>10, <1>11, DelimiterLemma, Zenon
<1>13. PICK r : r = Unstuffing(q)
  OBVIOUS
<1>14. r = [state |-> "plain", content |-> p]
  BY <1>8, <1>9, <1>13, StuffingIsRemoved, Zenon
<1>15. r.state = "plain" /\ r.content = p
  BY <1>14
<1>16. Unstuffed(q) = p
  BY <1>13, <1>15, Zenon DEF Unstuffed
<1>17. p = data \o <<Frame!High(CrcReference(data)), Frame!Low(CrcReference(data))>>
  BY <1>6, <1>7, CrcIsStandard, Zenon DEF Frame!Sealed
<1>18. QED
  BY <1>1, <1>2, <1>12, <1>16, <1>17, Zenon DEF Frame!DLE, Frame!STX, Frame!ETX

\* Concatenation, byte by byte.
LEMMA ConcatLemma ==
  ASSUME NEW a \in Seq(Nat), NEW b \in Seq(Nat)
  PROVE  /\ a \o b \in Seq(Nat) /\ Len(a \o b) = Len(a) + Len(b)
         /\ \A i \in 1..Len(a) + Len(b) : (a \o b)[i] = IF i <= Len(a) THEN a[i] ELSE b[i - Len(a)]
  BY ConcatProperties, Zenon

\* The first five bytes of a string.
LEMMA FirstFive ==
  ASSUME NEW c \in Seq(Nat), Len(c) >= 5
  PROVE  /\ SubSeq(c, 1, 5) \in Seq(Nat) /\ Len(SubSeq(c, 1, 5)) = 5
         /\ \A i \in 1..5 : SubSeq(c, 1, 5)[i] = c[i]
<1>1. PICK u : u = SubSeq(c, 1, 5)
  OBVIOUS
<1>2. \A i \in 1..5 : c[i] \in Nat
  OBVIOUS
<1>3. u \in Seq(Nat) /\ Len(u) = 5 /\ \A i \in 1..5 - 1 + 1 : u[i] = c[1 + i - 1]
  BY <1>1, <1>2, SubSeqProperties
<1>4. \A i \in 1..5 : u[i] = c[i]
  BY <1>3
<1>5. QED
  BY <1>1, <1>3, <1>4, Zenon

\* The fields of a time frame.
LEMMA TimeFields ==
  ASSUME NEW b \in Seq(Nat), Len(b) = 2, b[1] = 16, b[2] = 3,
         NEW d \in Seq(Nat), Len(d) = 7, d[1] = 26, d[2] = 10, d[3] = 16,
         NEW e \in Seq(Nat), Len(e) = 2
  PROVE  /\ SubSeq(b \o d \o e, 1, 5) = <<16, 3, 26, 10, 16>>
         /\ (b \o d \o e)[6] = d[4] /\ (b \o d \o e)[9] = d[7]
<1>1. PICK m : m = b \o d
  OBVIOUS
<1>2. /\ m \in Seq(Nat) /\ Len(m) = Len(b) + Len(d)
      /\ \A i \in 1..Len(b) + Len(d) : m[i] = IF i <= Len(b) THEN b[i] ELSE d[i - Len(b)]
  BY <1>1, ConcatLemma, Zenon
<1>3. /\ Len(m) = 9 /\ m[1] = 16 /\ m[2] = 3 /\ m[3] = 26 /\ m[4] = 10 /\ m[5] = 16
      /\ m[6] = d[4] /\ m[9] = d[7]
  BY <1>2
<1>4. PICK c : c = m \o e
  OBVIOUS
<1>5. /\ c \in Seq(Nat) /\ Len(c) = Len(m) + Len(e)
      /\ \A i \in 1..Len(m) + Len(e) : c[i] = IF i <= Len(m) THEN m[i] ELSE e[i - Len(m)]
  <2>1. /\ m \o e \in Seq(Nat) /\ Len(m \o e) = Len(m) + Len(e)
        /\ \A i \in 1..Len(m) + Len(e) : (m \o e)[i] = IF i <= Len(m) THEN m[i] ELSE e[i - Len(m)]
    BY <1>2, ConcatLemma, Zenon
  <2>2. QED
    BY <1>4, <2>1, Zenon
<1>6. /\ Len(c) = 11 /\ c[1] = 16 /\ c[2] = 3 /\ c[3] = 26 /\ c[4] = 10 /\ c[5] = 16
      /\ c[6] = d[4] /\ c[9] = d[7]
  BY <1>3, <1>5
<1>7. PICK u : u = SubSeq(c, 1, 5)
  OBVIOUS
<1>8. u \in Seq(Nat) /\ Len(u) = 5 /\ \A i \in 1..5 : u[i] = c[i]
  <2>1. Len(c) >= 5
    BY <1>6
  <2>2. QED
    BY <1>5, <1>7, <2>1, FirstFive, Zenon
<1>9. u[1] = 16 /\ u[2] = 3 /\ u[3] = 26 /\ u[4] = 10 /\ u[5] = 16
  BY <1>6, <1>8
<1>10. u = <<16, 3, 26, 10, 16>>
  BY <1>8, <1>9
<1>11. QED
  BY <1>1, <1>4, <1>6, <1>7, <1>10

\* send_time_sync_from_system: a board finds the hour of the clock in a time frame.
THEOREM HourOfClock ==
  \A h \in 0..23 :
    LET t == [year |-> 126, mon |-> 9, mday |-> 16, hour |-> h, min |-> 16, sec |-> 0]
        c == Unstuffed(SubSeq(Frame!time_sync(5, t), 3, Len(Frame!time_sync(5, t)) - 2))
    IN  /\ SubSeq(c, 1, 5) = <<16, 3, 26, 10, 16>>
        /\ c[6] \in 1..12 /\ h = (c[6] % 12) + 12 * c[9]
<1> TAKE h \in 0..23
<1> DEFINE t == [year |-> 126, mon |-> 9, mday |-> 16, hour |-> h, min |-> 16, sec |-> 0]
           frame == Frame!time_sync(5, t)
           c == Unstuffed(SubSeq(frame, 3, Len(frame) - 2))
<1>1. PICK twelve \in 1..12 : twelve = Frame!Hour12(h)
  BY DEF Frame!Hour12
<1>2. PICK pm \in {0, 1} : pm = Frame!IsPm(h)
  BY DEF Frame!IsPm
<1>3. h = (twelve % 12) + 12 * pm
  BY <1>1, <1>2 DEF Frame!Hour12, Frame!IsPm
<1>4. PICK d : d = <<26, 10, 16, twelve, 16, 0, pm>>
  OBVIOUS
<1>5. /\ d \in Seq(Nat) /\ Len(d) = 7
      /\ d[1] = 26 /\ d[2] = 10 /\ d[3] = 16 /\ d[4] = twelve /\ d[7] = pm
  BY <1>4
<1>6. <<t.year % 100, t.mon + 1, t.mday, Frame!Hour12(t.hour), t.min, t.sec, Frame!IsPm(t.hour)>> = d
  <2>1. /\ t.year % 100 = 26 /\ t.mon + 1 = 10 /\ t.mday = 16 /\ t.hour = h
        /\ t.min = 16 /\ t.sec = 0
    OBVIOUS
  <2> HIDE DEF t
  <2>2. QED
    BY <1>1, <1>2, <1>4, <2>1
<1> HIDE DEF t
<1>7. PICK id \in 1..8 : id = 5
  OBVIOUS
<1>8. PICK command \in Nat : command = 3
  OBVIOUS
<1>9. frame = Frame!encode_frame(id, command, d)
  BY <1>6, <1>7, <1>8 DEF Frame!time_sync, Frame!CMD_SYNC_TIME
<1> HIDE DEF frame
<1>10. PICK b : b = <<2^(id - 1), command>>
  OBVIOUS
<1>11. b \in Seq(Nat) /\ Len(b) = 2 /\ b[1] = 16 /\ b[2] = 3
  BY <1>7, <1>8, <1>10
<1>12. PICK crc : crc = CrcReference(b \o d)
  OBVIOUS
<1>13. crc \in Frame!Words
  <2>1. b \o d \in Seq(Nat)
    BY <1>5, <1>11, ConcatProperties, Zenon
  <2>2. QED
    BY <1>12, <2>1, ReferenceLemma, Zenon
<1>14. PICK e : e = <<Frame!High(crc), Frame!Low(crc)>>
  OBVIOUS
<1>15. e \in Seq(Nat) /\ Len(e) = 2
  BY <1>13, <1>14, HighLow
<1>16. c = b \o d \o e
  BY <1>5, <1>9, <1>10, <1>12, <1>14, EveryFrameDecodes, Zenon
<1> HIDE DEF c
<1>17. SubSeq(c, 1, 5) = <<16, 3, 26, 10, 16>> /\ c[6] = twelve /\ c[9] = pm
  <2>1. /\ SubSeq(b \o d \o e, 1, 5) = <<16, 3, 26, 10, 16>>
        /\ (b \o d \o e)[6] = d[4] /\ (b \o d \o e)[9] = d[7]
    BY <1>5, <1>11, <1>15, TimeFields
  <2>2. QED
    BY <1>5, <1>16, <2>1
<1>18. SubSeq(c, 1, 5) = <<16, 3, 26, 10, 16>> /\ c[6] \in 1..12 /\ h = (c[6] % 12) + 12 * c[9]
  BY <1>3, <1>17
<1>19. QED
  BY <1>18, Zenon DEF c, frame, t

-----------------------------------------------------------------------------
(* Answers.                                                                 *)

\* A state of the receiver that has not returned.
At(state, payload) == [state |-> state, payload |-> payload, returned |-> FALSE]

\* What the receiver does with a byte, state by state.
LEMMA ReceiveLemma ==
  ASSUME NEW p \in Seq(Nat), NEW b \in Nat
  PROVE  /\ Frame!Receive(At("WAIT_DLE", p), 16) = At("WAIT_STX", p)
         /\ b # 16 => Frame!Receive(At("WAIT_DLE", p), b) = At("WAIT_DLE", p)
         /\ Frame!Receive(At("WAIT_STX", p), 2) = At("IN_FRAME", <<>>)
         /\ Frame!Receive(At("WAIT_STX", p), 3) = At("WAIT_DLE", p)
         /\ Frame!Receive(At("IN_FRAME", p), 16) = At("WAIT_ETX", p)
         /\ b # 16 => Frame!Receive(At("IN_FRAME", p), b) = At("IN_FRAME", Append(p, b))
         /\ Frame!Receive(At("WAIT_ETX", p), 16) = At("WAIT_DLE", <<>>)
<1> USE DEF Frame!Receive, Frame!DLE, Frame!STX
<1>1. Frame!Receive(At("WAIT_DLE", p), 16) = At("WAIT_STX", p)
  BY DEF At
<1>2. b # 16 => Frame!Receive(At("WAIT_DLE", p), b) = At("WAIT_DLE", p)
  BY DEF At
<1>3. Frame!Receive(At("WAIT_STX", p), 2) = At("IN_FRAME", <<>>)
  <2>1. PICK r : r = At("WAIT_STX", p)
    OBVIOUS
  <2>2. r.state = "WAIT_STX" /\ r.returned = FALSE /\ r.payload = p /\ r \in Frame!Receivers
    BY <2>1 DEF At, Frame!Receivers
  <2>3. PICK empty : empty = <<>>
    OBVIOUS
  <2>4. empty \in Seq(Nat)
    BY <2>3
  <2>5. PICK e : e = [r EXCEPT !.state = "IN_FRAME", !.payload = empty]
    OBVIOUS
  <2>6. Frame!Receive(r, 2) = e
    BY <2>2, <2>3, <2>5
  <2>7. e \in Frame!Receivers /\ e.state = "IN_FRAME" /\ e.payload = empty /\ e.returned = FALSE
    BY <2>2, <2>4, <2>5 DEF Frame!Receivers
  <2>8. e = [state |-> e.state, payload |-> e.payload, returned |-> e.returned]
    BY <2>7 DEF Frame!Receivers
  <2>9. QED
    BY <2>1, <2>3, <2>6, <2>7, <2>8, Zenon DEF At
<1>4. Frame!Receive(At("WAIT_STX", p), 3) = At("WAIT_DLE", p)
  <2>1. PICK r : r = At("WAIT_STX", p)
    OBVIOUS
  <2>2. r.state = "WAIT_STX" /\ r.returned = FALSE /\ r.payload = p /\ r \in Frame!Receivers
    BY <2>1 DEF At, Frame!Receivers
  <2>5. PICK e : e = [r EXCEPT !.state = "WAIT_DLE"]
    OBVIOUS
  <2>6. Frame!Receive(r, 3) = e
    BY <2>2, <2>5
  <2>7. e \in Frame!Receivers /\ e.state = "WAIT_DLE" /\ e.payload = p /\ e.returned = FALSE
    BY <2>2, <2>5 DEF Frame!Receivers
  <2>8. e = [state |-> e.state, payload |-> e.payload, returned |-> e.returned]
    BY <2>7 DEF Frame!Receivers
  <2>9. QED
    BY <2>1, <2>6, <2>7, <2>8, Zenon DEF At
<1>5. Frame!Receive(At("IN_FRAME", p), 16) = At("WAIT_ETX", p)
  BY DEF At
<1>6. b # 16 => Frame!Receive(At("IN_FRAME", p), b) = At("IN_FRAME", Append(p, b))
  BY DEF At
<1>7. Frame!Receive(At("WAIT_ETX", p), 16) = At("WAIT_DLE", <<>>)
  <2>1. Frame!AtEnd(At("WAIT_ETX", p), 16) = Frame!Listening
    BY DEF Frame!AtEnd, Frame!ETX, Frame!ACK, Frame!NACK
  <2>2. QED
    BY <2>1 DEF At, Frame!Listening
<1>8. QED
  BY <1>1, <1>2, <1>3, <1>4, <1>5, <1>6, <1>7

\* A receiver that has returned takes no more bytes.
LEMMA ReturnedStays ==
  ASSUME NEW r, r.returned, NEW b
  PROVE  Frame!Receive(r, b) = r
  BY DEF Frame!Receive

\* The end of an answer: a positive one makes send_frame_with_ack return, a
\* negative one leaves the receiver where it is.
LEMMA EndLemma ==
  /\ Frame!Receive(At("WAIT_ETX", <<170, 127, 128>>), 3).returned
  /\ Frame!Receive(At("WAIT_ETX", <<85, 63, 192>>), 3) = At("WAIT_ETX", <<85, 63, 192>>)
<1>1. PICK a : a = <<170, 127, 128>>
  OBVIOUS
<1>2. PICK n : n = <<85, 63, 192>>
  OBVIOUS
<1>3. Frame!Valid(a) /\ a[1] = 170
  <2>1. a[1] = 170 /\ Len(a) = 3
    BY <1>1
  <2>2. Frame!Sealed(<<a[1]>>) = a
    BY <1>1, <2>1, AnswerSealed
  <2>3. QED
    BY <2>1, <2>2, Zenon DEF Frame!Valid
<1>4. Frame!Valid(n) /\ n[1] = 85
  <2>1. n[1] = 85 /\ Len(n) = 3
    BY <1>2
  <2>2. Frame!Sealed(<<n[1]>>) = n
    BY <1>2, <2>1, AnswerSealed
  <2>3. QED
    BY <2>1, <2>2, Zenon DEF Frame!Valid
<1>5. ASSUME NEW p
      PROVE  Frame!Receive(At("WAIT_ETX", p), 3) = Frame!AtEnd(At("WAIT_ETX", p), 3)
  BY DEF Frame!Receive, At
<1>6. Frame!AtEnd(At("WAIT_ETX", a), 3) = [At("WAIT_ETX", a) EXCEPT !.returned = TRUE]
  BY <1>3 DEF Frame!AtEnd, At, Frame!ETX, Frame!ACK, Frame!NACK
<1>7. Frame!AtEnd(At("WAIT_ETX", n), 3) = At("WAIT_ETX", n)
  BY <1>4 DEF Frame!AtEnd, At, Frame!ETX, Frame!ACK, Frame!NACK
<1>8. [At("WAIT_ETX", a) EXCEPT !.returned = TRUE].returned
  BY DEF At
<1>9. Frame!Receive(At("WAIT_ETX", a), 3).returned
  BY <1>5, <1>6, <1>8
<1>10. Frame!Receive(At("WAIT_ETX", n), 3) = At("WAIT_ETX", n)
  BY <1>5, <1>7
<1>11. QED
  BY <1>1, <1>2, <1>9, <1>10

\* send_frame_with_ack, one byte further.
LEMMA ReceivedAppend ==
  ASSUME NEW q \in Strings, NEW b \in Nat
  PROVE  /\ Append(q, b) \in Strings
         /\ Frame!Received(Append(q, b)) = Frame!Receive(Frame!Received(q), b)
<1>1. Append(q, b) \in Strings
  BY DEF Strings
<1>2. QED
  BY <1>1, ReceivedLemma, Zenon DEF Strings

\* The bytes of an answer, one by one.
LEMMA SevenBytes ==
  ASSUME NEW q \in Strings, NEW b1 \in Nat, NEW b2 \in Nat, NEW b3 \in Nat,
         NEW b4 \in Nat, NEW b5 \in Nat, NEW b6 \in Nat, NEW b7 \in Nat
  PROVE  Frame!Received(q \o (<<b1, b2>> \o <<b3, b4, b5>> \o <<b6, b7>>))
           = Frame!Receive(Frame!Receive(Frame!Receive(Frame!Receive(Frame!Receive(Frame!Receive(
               Frame!Receive(Frame!Received(q), b1), b2), b3), b4), b5), b6), b7)
<1>1. PICK t : t = <<b1, b2>>
  OBVIOUS
<1>2. PICK u : u = <<b3, b4, b5>>
  OBVIOUS
<1>3. PICK v : v = <<b6, b7>>
  OBVIOUS
<1>4. t \in Strings /\ u \in Strings /\ v \in Strings
  BY <1>1, <1>2, <1>3, TwoBytes, ThreeBytes, Zenon
<1>5. PICK m : m = t \o u
  OBVIOUS
<1>6. PICK x : x = q \o t
  OBVIOUS
<1>7. PICK y : y = x \o u
  OBVIOUS
<1>8. m \in Strings /\ x \in Strings /\ y \in Strings
  BY <1>4, <1>5, <1>6, <1>7, ConcatType, Zenon
<1>9. q \o (m \o v) = y \o v
  <2>1. q \o (m \o v) = (q \o m) \o v
    BY <1>4, <1>8, Regroup, Zenon
  <2>2. q \o m = x \o u
    BY <1>4, <1>5, <1>6, Regroup, Zenon
  <2>3. QED
    BY <1>7, <2>1, <2>2, Zenon
<1>10. x = Append(Append(q, b1), b2)
  BY <1>1, <1>6, TwoBytes, Zenon
<1>11. y = Append(Append(Append(x, b3), b4), b5)
  <2>1. x \o <<b3, b4, b5>> = Append(Append(Append(x, b3), b4), b5)
    BY <1>8, ThreeBytes
  <2>2. QED
    BY <1>2, <1>7, <2>1, Zenon
<1>12. y \o v = Append(Append(y, b6), b7)
  BY <1>3, <1>8, TwoBytes, Zenon
<1>13. PICK r1, r2 : /\ r1 = Frame!Receive(Frame!Received(q), b1)
                     /\ r2 = Frame!Receive(r1, b2) /\ r2 = Frame!Received(x)
  BY <1>10, ReceivedAppend, Zenon
<1>14. PICK r3, r4, r5 : /\ r3 = Frame!Receive(r2, b3) /\ r4 = Frame!Receive(r3, b4)
                         /\ r5 = Frame!Receive(r4, b5) /\ r5 = Frame!Received(y)
  <2>1. PICK x1 : x1 = Append(x, b3)
    OBVIOUS
  <2>2. PICK x2 : x2 = Append(x1, b4)
    OBVIOUS
  <2>3. x1 \in Strings /\ Frame!Received(x1) = Frame!Receive(r2, b3)
    BY <1>8, <1>13, <2>1, ReceivedAppend, Zenon
  <2>4. x2 \in Strings /\ Frame!Received(x2) = Frame!Receive(Frame!Received(x1), b4)
    BY <2>2, <2>3, ReceivedAppend, Zenon
  <2>5. Frame!Received(y) = Frame!Receive(Frame!Received(x2), b5)
    BY <1>11, <2>1, <2>2, <2>4, ReceivedAppend, Zenon
  <2>6. QED
    BY <2>3, <2>4, <2>5, Zenon
<1>15. PICK r6 : r6 = Frame!Receive(r5, b6) /\ Frame!Received(y \o v) = Frame!Receive(r6, b7)
  <2>1. PICK y1 : y1 = Append(y, b6)
    OBVIOUS
  <2>2. y1 \in Strings /\ Frame!Received(y1) = Frame!Receive(r5, b6)
    BY <1>8, <1>14, <2>1, ReceivedAppend, Zenon
  <2>3. Frame!Received(y \o v) = Frame!Receive(Frame!Received(y1), b7)
    BY <1>12, <2>1, <2>2, ReceivedAppend, Zenon
  <2>4. QED
    BY <2>2, <2>3, Zenon
<1>16. QED
  BY <1>1, <1>2, <1>3, <1>5, <1>9, <1>13, <1>14, <1>15, Zenon

\* Both receivers after the same answers: they have returned together, and while
\* they have not, the one out of step is in WAIT_ETX with the negative answer.
InStep(r, l) ==
  /\ r.returned = l.returned
  /\ ~l.returned =>
       IF l.deaf THEN r = At("WAIT_ETX", <<85, 63, 192>>)
       ELSE \E p \in Seq(Nat) : r = At("WAIT_DLE", p)

\* An answer that begins in WAIT_DLE is read up to its last byte.
LEMMA HeardLemma ==
  ASSUME NEW q \in Strings, NEW p \in Seq(Nat), Frame!Received(q) = At("WAIT_DLE", p),
         NEW x \in Nat, NEW y \in Nat, NEW z \in Nat, x # 16, y # 16, z # 16
  PROVE  Frame!Received(q \o (<<16, 2>> \o <<x, y, z>> \o <<16, 3>>))
           = Frame!Receive(At("WAIT_ETX", <<x, y, z>>), 3)
<1>1. PICK dle \in Nat : dle = 16
  OBVIOUS
<1>2. PICK stx \in Nat : stx = 2
  OBVIOUS
<1>3. PICK etx \in Nat : etx = 3
  OBVIOUS
<1>4. PICK r1, r2, r3, r4, r5, r6 :
        /\ r1 = Frame!Receive(Frame!Received(q), dle) /\ r2 = Frame!Receive(r1, stx)
        /\ r3 = Frame!Receive(r2, x) /\ r4 = Frame!Receive(r3, y) /\ r5 = Frame!Receive(r4, z)
        /\ r6 = Frame!Receive(r5, dle)
        /\ Frame!Received(q \o (<<dle, stx>> \o <<x, y, z>> \o <<dle, etx>>)) = Frame!Receive(r6, etx)
  <2>1. Frame!Received(q \o (<<dle, stx>> \o <<x, y, z>> \o <<dle, etx>>))
          = Frame!Receive(Frame!Receive(Frame!Receive(Frame!Receive(Frame!Receive(Frame!Receive(
              Frame!Receive(Frame!Received(q), dle), stx), x), y), z), dle), etx)
    BY SevenBytes
  <2>2. QED
    BY <2>1, Zenon
<1>5. r1 = At("WAIT_STX", p)
  BY <1>1, <1>4, ReceiveLemma
<1>6. r2 = At("IN_FRAME", <<>>)
  BY <1>2, <1>4, <1>5, ReceiveLemma
<1>7. PICK p0 : p0 = <<>>
  OBVIOUS
<1>8. PICK p1 : p1 = Append(p0, x)
  OBVIOUS
<1>9. PICK p2 : p2 = Append(p1, y)
  OBVIOUS
<1>10. PICK p3 : p3 = Append(p2, z)
  OBVIOUS
<1>11. p0 \in Seq(Nat) /\ p1 \in Seq(Nat) /\ p2 \in Seq(Nat) /\ p3 \in Seq(Nat)
  BY <1>7, <1>8, <1>9, <1>10
<1>12. p3 = <<x, y, z>>
  <2>1. <<x, y, z>> = Append(Append(Append(<<>>, x), y), z)
    BY SMT
  <2>2. QED
    BY <1>7, <1>8, <1>9, <1>10, <2>1, Zenon
<1>13. r3 = At("IN_FRAME", p1)
  <2>1. Frame!Receive(At("IN_FRAME", p0), x) = At("IN_FRAME", Append(p0, x))
    BY <1>11, ReceiveLemma
  <2>2. QED
    BY <1>4, <1>6, <1>7, <1>8, <2>1, Zenon
<1>14. r4 = At("IN_FRAME", p2)
  BY <1>4, <1>9, <1>11, <1>13, ReceiveLemma
<1>15. r5 = At("IN_FRAME", p3)
  BY <1>4, <1>10, <1>11, <1>14, ReceiveLemma
<1>16. r6 = At("WAIT_ETX", p3)
  BY <1>1, <1>4, <1>11, <1>15, ReceiveLemma
<1>17. QED
  BY <1>1, <1>2, <1>3, <1>4, <1>12, <1>16

\* An answer that begins in WAIT_ETX: its DLE resets the receiver, the rest of it is
\* passed over.
LEMMA UnheardLemma ==
  ASSUME NEW q \in Strings, NEW p \in Seq(Nat), Frame!Received(q) = At("WAIT_ETX", p),
         NEW x \in Nat, NEW y \in Nat, NEW z \in Nat, x # 16, y # 16, z # 16
  PROVE  Frame!Received(q \o (<<16, 2>> \o <<x, y, z>> \o <<16, 3>>)) = At("WAIT_DLE", <<>>)
<1>1. PICK dle \in Nat : dle = 16
  OBVIOUS
<1>2. PICK stx \in Nat : stx = 2
  OBVIOUS
<1>3. PICK etx \in Nat : etx = 3
  OBVIOUS
<1>4. PICK r1, r2, r3, r4, r5, r6 :
        /\ r1 = Frame!Receive(Frame!Received(q), dle) /\ r2 = Frame!Receive(r1, stx)
        /\ r3 = Frame!Receive(r2, x) /\ r4 = Frame!Receive(r3, y) /\ r5 = Frame!Receive(r4, z)
        /\ r6 = Frame!Receive(r5, dle)
        /\ Frame!Received(q \o (<<dle, stx>> \o <<x, y, z>> \o <<dle, etx>>)) = Frame!Receive(r6, etx)
  <2>1. Frame!Received(q \o (<<dle, stx>> \o <<x, y, z>> \o <<dle, etx>>))
          = Frame!Receive(Frame!Receive(Frame!Receive(Frame!Receive(Frame!Receive(Frame!Receive(
              Frame!Receive(Frame!Received(q), dle), stx), x), y), z), dle), etx)
    BY SevenBytes
  <2>2. QED
    BY <2>1, Zenon
<1>5. PICK e : e = <<>>
  OBVIOUS
<1>6. e \in Seq(Nat)
  BY <1>5
<1>7. r1 = At("WAIT_DLE", e)
  BY <1>1, <1>4, <1>5, ReceiveLemma
<1>8. stx # 16 /\ \A b \in Nat : b # 16 => Frame!Receive(At("WAIT_DLE", e), b) = At("WAIT_DLE", e)
  BY <1>2, <1>6, ReceiveLemma
<1>9. r2 = At("WAIT_DLE", e) /\ r3 = At("WAIT_DLE", e) /\ r4 = At("WAIT_DLE", e) /\ r5 = At("WAIT_DLE", e)
  BY <1>4, <1>7, <1>8
<1>10. r6 = At("WAIT_STX", e)
  BY <1>1, <1>4, <1>6, <1>9, ReceiveLemma
<1>11. Frame!Receive(r6, etx) = At("WAIT_DLE", e)
  BY <1>3, <1>6, <1>10, ReceiveLemma
<1>12. QED
  BY <1>1, <1>2, <1>3, <1>4, <1>5, <1>11

\* The bytes after the answer that made it return change nothing.
LEMMA OverLemma ==
  ASSUME NEW q \in Strings, Frame!Received(q).returned,
         NEW x \in Nat, NEW y \in Nat, NEW z \in Nat
  PROVE  Frame!Received(q \o (<<16, 2>> \o <<x, y, z>> \o <<16, 3>>)) = Frame!Received(q)
<1>1. PICK dle \in Nat : dle = 16
  OBVIOUS
<1>2. PICK stx \in Nat : stx = 2
  OBVIOUS
<1>3. PICK etx \in Nat : etx = 3
  OBVIOUS
<1>4. PICK r1, r2, r3, r4, r5, r6 :
        /\ r1 = Frame!Receive(Frame!Received(q), dle) /\ r2 = Frame!Receive(r1, stx)
        /\ r3 = Frame!Receive(r2, x) /\ r4 = Frame!Receive(r3, y) /\ r5 = Frame!Receive(r4, z)
        /\ r6 = Frame!Receive(r5, dle)
        /\ Frame!Received(q \o (<<dle, stx>> \o <<x, y, z>> \o <<dle, etx>>)) = Frame!Receive(r6, etx)
  <2>1. Frame!Received(q \o (<<dle, stx>> \o <<x, y, z>> \o <<dle, etx>>))
          = Frame!Receive(Frame!Receive(Frame!Receive(Frame!Receive(Frame!Receive(Frame!Receive(
              Frame!Receive(Frame!Received(q), dle), stx), x), y), z), dle), etx)
    BY SevenBytes
  <2>2. QED
    BY <2>1, Zenon
<1>5. PICK r : r = Frame!Received(q)
  OBVIOUS
<1>6. r.returned /\ \A b : Frame!Receive(r, b) = r
  BY <1>5, ReturnedStays, Zenon
<1>7. Frame!Received(q \o (<<dle, stx>> \o <<x, y, z>> \o <<dle, etx>>)) = r
  BY <1>4, <1>5, <1>6, Zenon
<1>8. QED
  BY <1>1, <1>2, <1>3, <1>5, <1>7

\* send_frame_with_ack: reading the bytes of any answers, the receiver returns
\* exactly when the receiver of whole answers does.  A negative answer leaves it in
\* WAIT_ETX, and that costs the next answer and no more.
THEOREM ReceiversAgree ==
  \A answers \in Seq(Answers) : InStep(Frame!Received(BytesOf(answers)), Answered(answers))
<1> DEFINE T == {s \in Seq(Answers) : InStep(Frame!Received(BytesOf(s)), Answered(s))}
<1>1. <<>> \in T
  <2>1. /\ Frame!Received(BytesOf(<<>>)) = Frame!Listening
        /\ Answered(<<>>) = Awaiting
    BY BytesOfLemma, ReceivedLemma, AnsweredLemma, Zenon
  <2>2. Frame!Listening = At("WAIT_DLE", <<>>) /\ Frame!Listening.returned = FALSE
    BY DEF Frame!Listening, At
  <2>3. Awaiting.returned = FALSE /\ Awaiting.deaf = FALSE
    BY DEF Awaiting
  <2>4. <<>> \in Seq(Nat) /\ <<>> \in Seq(Answers)
    OBVIOUS
  <2>5. InStep(Frame!Listening, Awaiting)
    BY <2>2, <2>3, <2>4, Zenon DEF InStep
  <2>6. QED
    BY <2>1, <2>4, <2>5, Zenon
<1>2. ASSUME NEW s \in Seq(Answers), InStep(Frame!Received(BytesOf(s)), Answered(s))
      PROVE  InStep(Frame!Received(BytesOf(Append(s, "ACK"))), Answered(Append(s, "ACK")))
  <2>1. PICK q : q = BytesOf(s)
    OBVIOUS
  <2>2. PICK l : l = Answered(s)
    OBVIOUS
  <2>3. "ACK" \in Answers
    BY DEF Answers
  <2>4. q \in Strings /\ BytesOf(Append(s, "ACK")) = q \o AnswerBytes("ACK")
    BY <2>1, <2>3, BytesOfLemma, Zenon
  <2>5. l \in Listeners /\ Answered(Append(s, "ACK")) = Answer(l, "ACK")
    BY <2>2, <2>3, AnsweredLemma, Zenon
  <2>6. PICK f : f = q \o AnswerBytes("ACK")
    OBVIOUS
  <2>7. f = q \o (<<16, 2>> \o <<170, 127, 128>> \o <<16, 3>>)
    BY <2>6, AnswerBytesLemma
  <2>8. InStep(Frame!Received(q), l)
    BY <1>2, <2>1, <2>2, Zenon
  <2>9. l.returned \in BOOLEAN /\ l.deaf \in BOOLEAN
    BY <2>5 DEF Listeners
  <2>10. CASE l.returned
    <3>1. Frame!Received(q).returned
      BY <2>8, <2>9, <2>10 DEF InStep
    <3>2. Frame!Received(f) = Frame!Received(q)
      BY <2>4, <2>7, <3>1, OverLemma
    <3>3. Answer(l, "ACK") = l
      BY <2>10 DEF Answer
    <3>4. QED
      BY <2>4, <2>5, <2>6, <2>8, <3>2, <3>3, Zenon
  <2>11. CASE ~l.returned /\ l.deaf
    <3>1. PICK p : p = <<85, 63, 192>>
      OBVIOUS
    <3>2. p \in Seq(Nat)
      BY <3>1
    <3>3. Frame!Received(q) = At("WAIT_ETX", p)
      BY <2>8, <2>11, <3>1 DEF InStep
    <3>4. Frame!Received(f) = At("WAIT_DLE", <<>>)
      BY <2>4, <2>7, <3>2, <3>3, UnheardLemma
    <3>5. PICK m : m = Answer(l, "ACK")
      OBVIOUS
    <3>6. m.returned = FALSE /\ m.deaf = FALSE
      BY <2>5, <2>9, <2>11, <3>5 DEF Answer, Listeners
    <3>7. At("WAIT_DLE", <<>>).returned = FALSE /\ <<>> \in Seq(Nat)
      BY DEF At
    <3>8. InStep(Frame!Received(f), m)
      BY <3>4, <3>6, <3>7, Zenon DEF InStep
    <3>9. QED
      BY <2>4, <2>5, <2>6, <3>5, <3>8, Zenon
  <2>12. CASE ~l.returned /\ ~l.deaf
    <3>1. PICK p \in Seq(Nat) : Frame!Received(q) = At("WAIT_DLE", p)
      BY <2>8, <2>12, Zenon DEF InStep
    <3>2. Frame!Received(f) = Frame!Receive(At("WAIT_ETX", <<170, 127, 128>>), 3)
      BY <2>4, <2>7, <3>1, HeardLemma
    <3>3. PICK m : m = Answer(l, "ACK")
      OBVIOUS
    <3>4. m.returned = TRUE
      BY <2>5, <2>9, <2>12, <3>3 DEF Answer, Listeners
    <3>5. Frame!Received(f).returned = TRUE
      BY <3>2, EndLemma
    <3>6. InStep(Frame!Received(f), m)
      BY <3>4, <3>5, Zenon DEF InStep
    <3>7. QED
      BY <2>4, <2>5, <2>6, <3>3, <3>6, Zenon
  <2>13. QED
    BY <2>9, <2>10, <2>11, <2>12, Zenon
<1>3. ASSUME NEW s \in Seq(Answers), InStep(Frame!Received(BytesOf(s)), Answered(s))
      PROVE  InStep(Frame!Received(BytesOf(Append(s, "NACK"))), Answered(Append(s, "NACK")))
  <2>1. PICK q : q = BytesOf(s)
    OBVIOUS
  <2>2. PICK l : l = Answered(s)
    OBVIOUS
  <2>3. "NACK" \in Answers
    BY DEF Answers
  <2>4. q \in Strings /\ BytesOf(Append(s, "NACK")) = q \o AnswerBytes("NACK")
    BY <2>1, <2>3, BytesOfLemma, Zenon
  <2>5. l \in Listeners /\ Answered(Append(s, "NACK")) = Answer(l, "NACK")
    BY <2>2, <2>3, AnsweredLemma, Zenon
  <2>6. PICK f : f = q \o AnswerBytes("NACK")
    OBVIOUS
  <2>7. f = q \o (<<16, 2>> \o <<85, 63, 192>> \o <<16, 3>>)
    BY <2>6, AnswerBytesLemma
  <2>8. InStep(Frame!Received(q), l)
    BY <1>3, <2>1, <2>2, Zenon
  <2>9. l.returned \in BOOLEAN /\ l.deaf \in BOOLEAN
    BY <2>5 DEF Listeners
  <2>10. CASE l.returned
    <3>1. Frame!Received(q).returned
      BY <2>8, <2>9, <2>10 DEF InStep
    <3>2. Frame!Received(f) = Frame!Received(q)
      BY <2>4, <2>7, <3>1, OverLemma
    <3>3. Answer(l, "NACK") = l
      BY <2>10 DEF Answer
    <3>4. QED
      BY <2>4, <2>5, <2>6, <2>8, <3>2, <3>3, Zenon
  <2>11. CASE ~l.returned /\ l.deaf
    <3>1. PICK p : p = <<85, 63, 192>>
      OBVIOUS
    <3>2. p \in Seq(Nat)
      BY <3>1
    <3>3. Frame!Received(q) = At("WAIT_ETX", p)
      BY <2>8, <2>11, <3>1 DEF InStep
    <3>4. Frame!Received(f) = At("WAIT_DLE", <<>>)
      BY <2>4, <2>7, <3>2, <3>3, UnheardLemma
    <3>5. PICK m : m = Answer(l, "NACK")
      OBVIOUS
    <3>6. m.returned = FALSE /\ m.deaf = FALSE
      BY <2>5, <2>9, <2>11, <3>5 DEF Answer, Listeners
    <3>7. At("WAIT_DLE", <<>>).returned = FALSE /\ <<>> \in Seq(Nat)
      BY DEF At
    <3>8. InStep(Frame!Received(f), m)
      BY <3>4, <3>6, <3>7, Zenon DEF InStep
    <3>9. QED
      BY <2>4, <2>5, <2>6, <3>5, <3>8, Zenon
  <2>12. CASE ~l.returned /\ ~l.deaf
    <3>1. PICK p \in Seq(Nat) : Frame!Received(q) = At("WAIT_DLE", p)
      BY <2>8, <2>12, Zenon DEF InStep
    <3>2. Frame!Received(f) = Frame!Receive(At("WAIT_ETX", <<85, 63, 192>>), 3)
      BY <2>4, <2>7, <3>1, HeardLemma
    <3>3. PICK m : m = Answer(l, "NACK")
      OBVIOUS
    <3>4. m.returned = FALSE /\ m.deaf = TRUE
      BY <2>5, <2>9, <2>12, <3>3 DEF Answer, Listeners
    <3>5. Frame!Received(f) = At("WAIT_ETX", <<85, 63, 192>>)
      BY <3>2, EndLemma
    <3>6. At("WAIT_ETX", <<85, 63, 192>>).returned = FALSE
      BY DEF At
    <3>7. InStep(Frame!Received(f), m)
      BY <3>4, <3>5, <3>6 DEF InStep
    <3>8. QED
      BY <2>4, <2>5, <2>6, <3>3, <3>7, Zenon
  <2>13. QED
    BY <2>9, <2>10, <2>11, <2>12, Zenon
<1>4. ASSUME NEW s \in Seq(Answers), NEW a \in Answers, s \in T
      PROVE  Append(s, a) \in T
  <2>1. a = "ACK" \/ a = "NACK"
    BY DEF Answers
  <2>2. Append(s, a) \in Seq(Answers)
    OBVIOUS
  <2>3. InStep(Frame!Received(BytesOf(Append(s, a))), Answered(Append(s, a)))
    BY <1>2, <1>3, <1>4, <2>1, Zenon
  <2>4. QED
    BY <2>2, <2>3, Zenon
<1> HIDE DEF T
<1>5. \A s \in Seq(Answers) : s \in T
  BY <1>1, <1>4, SeqInduction, Zenon
<1>6. QED
  BY <1>5, Zenon DEF T

-----------------------------------------------------------------------------
(* The inputs.                                                              *)

\* What an input is made of.
InputType ==
  /\ kind \in DOMAIN MaxLen
  /\ kind = "data" => input \in Seq(0..255)
  /\ kind = "answers" => input \in Seq(Answers)

\* An input stays what its seed and its symbols make it.
LEMMA InputTypeCorrect == Spec => []InputType
<1>1. Init => InputType
  BY FrameInputs, Zenon DEF Init, InputType, Answers
<1>2. InputType /\ [Grow]_vars => InputType'
  <2> SUFFICES ASSUME InputType, [Grow]_vars PROVE InputType'
    OBVIOUS
  <2>1. CASE Grow
    <3>1. PICK s \in Symbols[kind] : input' = Append(input, s)
      BY <2>1, Zenon DEF Grow
    <3>2. kind' = kind
      BY <2>1, Zenon DEF Grow
    <3>3. ASSUME kind = "data" PROVE input' \in Seq(0..255)
      <4>1. s \in 0..255 /\ input \in Seq(0..255)
        BY <3>1, <3>3, FrameInputs, Zenon DEF InputType
      <4>2. QED
        BY <3>1, <4>1
    <3>4. ASSUME kind = "answers" PROVE input' \in Seq(Answers)
      <4>1. s \in Answers /\ input \in Seq(Answers)
        BY <3>1, <3>4, FrameInputs, Zenon DEF InputType, Answers
      <4>2. QED
        BY <3>1, <4>1
    <3>5. QED
      BY <3>2, <3>3, <3>4, Zenon DEF InputType
  <2>2. CASE UNCHANGED vars
    BY <2>2, Zenon DEF InputType, vars
  <2>3. QED
    BY <2>1, <2>2
<1>3. QED
  BY <1>1, <1>2, PTL DEF Spec

\* A string of bytes is a string of numbers.
LEMMA BytesAreNumbers ==
  ASSUME NEW s \in Seq(0..255)
  PROVE  s \in Seq(Nat)
<1>1. PICK B : B = 0..255
  OBVIOUS
<1>2. B \subseteq Nat /\ s \in Seq(B)
  BY <1>1
<1>3. QED
  BY <1>2, SeqMonotonic, Zenon

\* encode_frame, send_time_sync_from_system and the receiver of
\* send_frame_with_ack: FramesDecode holds of every input that grows from seeds of
\* bytes and of answers, however long.
THEOREM FramesDecodeCorrect == Spec => []FramesDecode
<1>1. InputType => FramesDecode
  <2> SUFFICES ASSUME InputType PROVE FramesDecode
    OBVIOUS
  <2>1. ASSUME kind = "data"
        PROVE  \A id \in 1..8, command \in 1..3 :
                 LET frame == Frame!encode_frame(id, command, input)
                     n == Len(frame)
                     content == Unstuffed(SubSeq(frame, 3, n - 2))
                     data == <<2^(id - 1), command>> \o input
                     crc == CrcReference(data)
                 IN  /\ SubSeq(frame, 1, 2) = <<Frame!DLE, Frame!STX>>
                     /\ SubSeq(frame, n - 1, n) = <<Frame!DLE, Frame!ETX>>
                     /\ content = data \o <<Frame!High(crc), Frame!Low(crc)>>
    <3>1. input \in Seq(0..255)
      BY <2>1, Zenon DEF InputType
    <3>2. input \in Seq(Nat) /\ \A command \in 1..3 : command \in Nat
      <4>1. 0..255 \subseteq Nat /\ \A command \in 1..3 : command \in Nat
        OBVIOUS
      <4>2. QED
        BY <3>1, <4>1, BytesAreNumbers
    <3>3. QED
      BY <3>2, EveryFrameDecodes, Zenon
  <2>2. ASSUME kind = "answers"
        PROVE  Frame!Received(BytesOf(input)).returned = Answered(input).returned
    <3>1. input \in Seq(Answers)
      BY <2>2, Zenon DEF InputType
    <3>2. QED
      BY <3>1, ReceiversAgree, Zenon DEF InStep
  <2>3. QED
    BY <2>1, <2>2, HourOfClock, Zenon DEF FramesDecode
<1>2. QED
  BY <1>1, InputTypeCorrect, PTL

-----------------------------------------------------------------------------
(* base64_encode.                                                           *)

Octets == 0..255
Sextets == 0..63
Encoders == [val : Nat, valb : {-6, -4, -2}, out : Seq(Sextets)]

\* What base64_encode makes of val and a byte.
Kept(v, c) == (v * 256 + c) % B64!Width

\* w is what is left of a value after a byte when k has been cut off.
Cut(v, c, k, w) == v * 256 + c = 65536 * k + w

\* The low 6, 10 and 12 bits of a value that has taken a byte are bits of the byte
\* and of what was pending, whatever has been cut off.
LEMMA LowBits ==
  ASSUME NEW v \in Nat, NEW c \in Octets, NEW k \in Int, NEW w \in Nat,
         Cut(v, c, k, w)
  PROVE  /\ (w \div 4) % 64 = c \div 4
         /\ (w \div 16) % 64 = (v % 4) * 16 + c \div 16
         /\ (w \div 64) % 64 = (v % 16) * 4 + c \div 64
         /\ (w \div 1) % 64 = c % 64
         /\ w % 4 = c % 4
         /\ w % 16 = c % 16
<1>1. (w \div 4) % 64 = c \div 4
  BY SMT DEF Cut, Octets
<1>2. (w \div 16) % 64 = (v % 4) * 16 + c \div 16
  BY SMT DEF Cut, Octets
<1>3. (w \div 64) % 64 = (v % 16) * 4 + c \div 64
  BY SMT DEF Cut, Octets
<1>4. (w \div 1) % 64 = c % 64
  BY SMT DEF Cut, Octets
<1>5. w % 4 = c % 4 /\ w % 16 = c % 16
  BY SMT DEF Cut, Octets
<1>6. QED
  BY <1>1, <1>2, <1>3, <1>4, <1>5, Zenon

\* A number is what is cut off and what is left.
LEMMA CutOff ==
  ASSUME NEW x \in Nat
  PROVE  /\ x = 65536 * (x \div 65536) + (x % 65536)
         /\ x \div 65536 \in Int
         /\ x % 65536 \in Nat
  BY SMT

\* The 16 bits kept.
KeptBits(w, v, c) ==
  /\ w \in Nat
  /\ (w \div 4) % 64 = c \div 4
  /\ (w \div 16) % 64 = (v % 4) * 16 + c \div 16
  /\ (w \div 64) % 64 = (v % 16) * 4 + c \div 64
  /\ (w \div 1) % 64 = c % 64
  /\ w % 4 = c % 4
  /\ w % 16 = c % 16

\* val after a byte has the bits of the byte and of what was pending.
LEMMA TakenBits ==
  ASSUME NEW v \in Nat, NEW c \in Octets, NEW w, w = Kept(v, c)
  PROVE  KeptBits(w, v, c)
<1>1. v * 256 + c \in Nat
  BY SMT DEF Octets
<1>2. PICK x \in Nat : x = v * 256 + c
  BY <1>1, Zenon
<1>3. w = x % 65536
  BY <1>2, SMT DEF Kept, B64!Width
<1>4. PICK k : k = x \div 65536
  OBVIOUS
<1>5. k \in Int /\ w \in Nat /\ x = 65536 * k + w
  BY <1>3, <1>4, CutOff, SMT
<1>6. Cut(v, c, k, w)
  BY <1>2, <1>5, SMT DEF Cut
<1>7. QED
  BY <1>5, <1>6, LowBits, SMT DEF KeptBits

\* The byte that a character takes from val.
LEMMA ShiftLemma ==
  ASSUME NEW w \in Nat
  PROVE  /\ B64!Shift(w, 0) = w \div 1
         /\ B64!Shift(w, 2) = w \div 4
         /\ B64!Shift(w, 4) = w \div 16
         /\ B64!Shift(w, 6) = w \div 64
  BY DEF B64!Shift

\* One turn of the while, for the values that valb has.
LEMMA DrainLemma ==
  ASSUME NEW w, NEW o
  PROVE  /\ B64!Drain([val |-> w, valb |-> 0, out |-> o])
              = [val |-> w, valb |-> -6, out |-> Append(o, B64!Shift(w, 0) % 64)]
         /\ B64!Drain([val |-> w, valb |-> 2, out |-> o])
              = [val |-> w, valb |-> -4, out |-> Append(o, B64!Shift(w, 2) % 64)]
         /\ B64!Drain([val |-> w, valb |-> 4, out |-> o])
              = [val |-> w, valb |-> -2, out |-> Append(o, B64!Shift(w, 4) % 64)]
         /\ B64!Drain([val |-> w, valb |-> 6, out |-> o])
              = [val |-> w, valb |-> 0, out |-> Append(o, B64!Shift(w, 6) % 64)]
  BY SMT DEF B64!Drain

\* A byte gives one character, or two when a group of three bytes is complete.
LEMMA TakenLemma ==
  ASSUME NEW s \in Encoders, NEW c \in Octets,
         NEW w, w = Kept(s.val, c)
  PROVE  /\ s.valb = -6 => B64!Taken(s, c) =
              [val |-> w, valb |-> -4, out |-> Append(s.out, (w \div 4) % 64)]
         /\ s.valb = -4 => B64!Taken(s, c) =
              [val |-> w, valb |-> -2, out |-> Append(s.out, (w \div 16) % 64)]
         /\ s.valb = -2 => B64!Taken(s, c) =
              [val |-> w, valb |-> -6,
               out |-> Append(Append(s.out, (w \div 64) % 64), (w \div 1) % 64)]
<1>1. w \in Nat
  BY TakenBits, SMT DEF Encoders, KeptBits
<1>2. PICK o : o = s.out
  OBVIOUS
<1>3. PICK v : v = s.valb + 8
  OBVIOUS
<1>4. B64!Taken(s, c) = B64!Drained([val |-> w, valb |-> v, out |-> o])
  BY <1>2, <1>3, SMT DEF B64!Taken, Kept
<1>5. s.valb \in {-6, -4, -2}
  BY DEF Encoders
<1>6. PICK x2 : x2 = (w \div 4) % 64
  OBVIOUS
<1>7. PICK x4 : x4 = (w \div 16) % 64
  OBVIOUS
<1>8. PICK x6 : x6 = (w \div 64) % 64
  OBVIOUS
<1>9. PICK x0 : x0 = (w \div 1) % 64
  OBVIOUS
<1>10. /\ B64!Shift(w, 2) % 64 = x2 /\ B64!Shift(w, 4) % 64 = x4
       /\ B64!Shift(w, 6) % 64 = x6 /\ B64!Shift(w, 0) % 64 = x0
  BY <1>1, <1>6, <1>7, <1>8, <1>9, ShiftLemma, Zenon
<1>11. s.valb = -6 => B64!Taken(s, c) = [val |-> w, valb |-> -4, out |-> Append(o, x2)]
  <2>1. s.valb = -6 => v = 2
    BY <1>3
  <2>2. B64!Drain([val |-> w, valb |-> 2, out |-> o]) = [val |-> w, valb |-> -4, out |-> Append(o, x2)]
    BY <1>10, DrainLemma
  <2>3. PICK y : y = Append(o, x2)
    OBVIOUS
  <2>4. B64!Drain([val |-> w, valb |-> -4, out |-> y]) = [val |-> w, valb |-> -4, out |-> y]
    BY SMT DEF B64!Drain
  <2>5. B64!Drained([val |-> w, valb |-> 2, out |-> o]) = [val |-> w, valb |-> -4, out |-> y]
    BY <2>2, <2>3, <2>4, Zenon DEF B64!Drained
  <2>6. QED
    BY <1>4, <2>1, <2>3, <2>5, Zenon
<1>12. s.valb = -4 => B64!Taken(s, c) = [val |-> w, valb |-> -2, out |-> Append(o, x4)]
  <2>1. s.valb = -4 => v = 4
    BY <1>3
  <2>2. B64!Drain([val |-> w, valb |-> 4, out |-> o]) = [val |-> w, valb |-> -2, out |-> Append(o, x4)]
    BY <1>10, DrainLemma
  <2>3. PICK y : y = Append(o, x4)
    OBVIOUS
  <2>4. B64!Drain([val |-> w, valb |-> -2, out |-> y]) = [val |-> w, valb |-> -2, out |-> y]
    BY SMT DEF B64!Drain
  <2>5. B64!Drained([val |-> w, valb |-> 4, out |-> o]) = [val |-> w, valb |-> -2, out |-> y]
    BY <2>2, <2>3, <2>4, Zenon DEF B64!Drained
  <2>6. QED
    BY <1>4, <2>1, <2>3, <2>5, Zenon
<1>13. s.valb = -2 =>
         B64!Taken(s, c) = [val |-> w, valb |-> -6, out |-> Append(Append(o, x6), x0)]
  <2>1. s.valb = -2 => v = 6
    BY <1>3
  <2>2. PICK y : y = Append(o, x6)
    OBVIOUS
  <2>3. B64!Drain([val |-> w, valb |-> 6, out |-> o]) = [val |-> w, valb |-> 0, out |-> y]
    BY <1>10, <2>2, DrainLemma
  <2>4. B64!Drain([val |-> w, valb |-> 0, out |-> y]) = [val |-> w, valb |-> -6, out |-> Append(y, x0)]
    BY <1>10, DrainLemma
  <2>5. B64!Drained([val |-> w, valb |-> 6, out |-> o]) = [val |-> w, valb |-> -6, out |-> Append(y, x0)]
    BY <2>3, <2>4, Zenon DEF B64!Drained
  <2>6. QED
    BY <1>4, <2>1, <2>2, <2>5, Zenon
<1>14. QED
  BY <1>2, <1>6, <1>7, <1>8, <1>9, <1>11, <1>12, <1>13, Zenon

\* A byte takes base64_encode from a state to a state.
LEMMA TakenType ==
  ASSUME NEW s \in Encoders, NEW c \in Octets
  PROVE  B64!Taken(s, c) \in Encoders
<1>1. PICK w : w = Kept(s.val, c)
  OBVIOUS
<1>2. w \in Nat /\ s.out \in Seq(Sextets) /\ s.valb \in {-6, -4, -2}
  BY <1>1, TakenBits, SMT DEF Encoders, KeptBits
<1>3. /\ (w \div 4) % 64 \in Sextets /\ (w \div 16) % 64 \in Sextets
      /\ (w \div 64) % 64 \in Sextets /\ (w \div 1) % 64 \in Sextets
  BY <1>2 DEF Sextets
<1>4. \A v \in {-6, -4, -2}, o \in Seq(Sextets) : [val |-> w, valb |-> v, out |-> o] \in Encoders
  BY <1>2 DEF Encoders
<1>5. \A o \in Seq(Sextets), x \in Sextets : Append(o, x) \in Seq(Sextets)
  OBVIOUS
<1>6. CASE s.valb = -6
  <2>1. Append(s.out, (w \div 4) % 64) \in Seq(Sextets)
    BY <1>2, <1>3, <1>5, Zenon
  <2>2. B64!Taken(s, c) = [val |-> w, valb |-> -4, out |-> Append(s.out, (w \div 4) % 64)]
    BY <1>1, <1>6, TakenLemma
  <2>3. QED
    BY <1>4, <2>1, <2>2, Zenon
<1>7. CASE s.valb = -4
  <2>1. Append(s.out, (w \div 16) % 64) \in Seq(Sextets)
    BY <1>2, <1>3, <1>5, Zenon
  <2>2. B64!Taken(s, c) = [val |-> w, valb |-> -2, out |-> Append(s.out, (w \div 16) % 64)]
    BY <1>1, <1>7, TakenLemma
  <2>3. QED
    BY <1>4, <2>1, <2>2, Zenon
<1>8. CASE s.valb = -2
  <2>1. Append(Append(s.out, (w \div 64) % 64), (w \div 1) % 64) \in Seq(Sextets)
    BY <1>2, <1>3, <1>5, Zenon
  <2>2. B64!Taken(s, c) = [val |-> w, valb |-> -6,
          out |-> Append(Append(s.out, (w \div 64) % 64), (w \div 1) % 64)]
    BY <1>1, <1>8, TakenLemma
  <2>3. QED
    BY <1>4, <2>1, <2>2, Zenon
<1>9. QED
  BY <1>2, <1>6, <1>7, <1>8, Zenon

\* base64_encode takes the bytes of a picture one by one.
LEMMA EncodingLemma ==
  /\ B64!Encoding(<<>>) = B64!Started
  /\ \A s \in Seq(Octets) :
       /\ B64!Encoding(s) \in Encoders
       /\ \A b \in Octets : B64!Encoding(Append(s, b)) = B64!Taken(B64!Encoding(s), b)
<1> DEFINE f == [p \in Encoders \X Octets |-> B64!Taken(p[1], p[2])]
<1>1. IsStep(f, Encoders, Octets)
  BY TakenType DEF IsStep
<1>2. B64!Started \in Encoders
  BY DEF B64!Started, Encoders, Sextets
<1>3. \A r \in Encoders, b \in Octets : Applied(f, r, b) = B64!Taken(r, b)
  BY DEF Applied
<1> HIDE DEF f
<1>4. ASSUME NEW s \in Seq(Octets)
      PROVE  B64!Encoding(s) = Result(f, Encoders, B64!Started, s)
  <2> DEFINE body(g) ==
        [i \in 0..Len(s) |-> IF i = 0 THEN B64!Started ELSE B64!Taken(g[i - 1], s[i])]
      c == CHOOSE g : g = body(g)
  <2>1. PICK g : IsRun(g, f, Encoders, B64!Started, s)
    BY <1>1, <1>2, LoopLemma, Zenon
  <2>2. \A i \in 1..Len(s) : s[i] \in Octets /\ i \in 0..Len(s) /\ i # 0 /\ i - 1 \in 0..Len(s)
    OBVIOUS
  <2>3. 0 \in 0..Len(s) /\ \A i \in 0..Len(s) : i = 0 \/ i \in 1..Len(s)
    OBVIOUS
  <2>4. \A i \in 1..Len(s) : g[i] = B64!Taken(g[i - 1], s[i])
    BY <1>3, <2>1, <2>2, Zenon DEF IsRun, Applied
  <2>5. g = body(g)
    BY <2>1, <2>3, <2>4, Zenon DEF IsRun
  <2>6. c = body(c)
    BY <2>5, Zenon
  <2>7. B64!Encoding(s) = c[Len(s)]
    BY Zenon DEF B64!Encoding
  <2> HIDE DEF c
  <2>8. \A i \in 0..Len(s) : c[i] = IF i = 0 THEN B64!Started ELSE B64!Taken(c[i - 1], s[i])
    BY <2>6, Zenon
  <2> HIDE DEF body
  <2>9. Follows(c, f, Encoders, B64!Started, s)
    BY <1>3, <2>2, <2>3, <2>8, Zenon DEF Follows, Applied
  <2>10. c[Len(s)] = Result(f, Encoders, B64!Started, s)
    BY <1>1, <1>2, <2>9, ResultIs
  <2>11. QED
    BY <2>7, <2>10, Zenon
<1>5. B64!Encoding(<<>>) = B64!Started
  <2>1. <<>> \in Seq(Octets)
    OBVIOUS
  <2>2. Result(f, Encoders, B64!Started, <<>>) = B64!Started
    BY <1>1, <1>2, ResultEmpty
  <2>3. QED
    BY <1>4, <2>1, <2>2, Zenon
<1>6. ASSUME NEW s \in Seq(Octets)
      PROVE  B64!Encoding(s) \in Encoders
  <2>1. Result(f, Encoders, B64!Started, s) \in Encoders
    BY <1>1, <1>2, ResultType
  <2>2. QED
    BY <1>4, <2>1, Zenon
<1>7. ASSUME NEW s \in Seq(Octets), NEW b \in Octets
      PROVE  B64!Encoding(Append(s, b)) = B64!Taken(B64!Encoding(s), b)
  <2>1. Append(s, b) \in Seq(Octets)
    OBVIOUS
  <2>2. Result(f, Encoders, B64!Started, Append(s, b)) = Applied(f, Result(f, Encoders, B64!Started, s), b)
    BY <1>1, <1>2, ResultAppend
  <2>3. QED
    BY <1>3, <1>4, <1>6, <2>1, <2>2, Zenon
<1>8. QED
  BY <1>5, <1>6, <1>7, Zenon

\* Where the bytes of a group of three are found in its four characters.
LEMMA PlaceLemma ==
  ASSUME NEW m \in Nat
  PROVE  /\ Place(3 * m + 1) = 4 * m + 1 /\ (3 * m + 1) % 3 = 1
         /\ Place(3 * m + 2) = 4 * m + 2 /\ (3 * m + 2) % 3 = 2
         /\ Place(3 * m + 3) = 4 * m + 3 /\ (3 * m + 3) % 3 = 0
  BY SMT DEF Place

\* The bytes of whole groups, and the first of a group whose second is there, end
\* within the characters of the groups.
LEMMA PlaceBound ==
  ASSUME NEW m \in Nat, NEW i \in Nat \ {0}
  PROVE  /\ Place(i) \in Nat \ {0}
         /\ i <= 3 * m => Place(i) + 1 <= 4 * m
         /\ i <= 3 * m + 1 => Place(i) + 1 <= 4 * m + 2
  BY SMT DEF Place

\* A decoder's view of the three bytes of a group.
LEMMA ByteAtLemma ==
  ASSUME NEW m \in Nat, NEW o
  PROVE  /\ ByteAt(o, 3 * m + 1) = 4 * o[4 * m + 1] + o[4 * m + 2] \div 16
         /\ ByteAt(o, 3 * m + 2) = 16 * (o[4 * m + 2] % 16) + o[4 * m + 3] \div 4
         /\ ByteAt(o, 3 * m + 3) = 64 * (o[4 * m + 3] % 4) + o[4 * m + 4]
<1>1. /\ (4 * m + 1) + 1 = 4 * m + 2 /\ (4 * m + 2) + 1 = 4 * m + 3
      /\ (4 * m + 3) + 1 = 4 * m + 4
  BY SMT
<1>2. ByteAt(o, 3 * m + 1) = 4 * o[4 * m + 1] + o[4 * m + 2] \div 16
  <2>1. PICK i : i = 3 * m + 1
    OBVIOUS
  <2>2. Place(i) = 4 * m + 1 /\ i % 3 = 1
    BY <2>1, PlaceLemma, Zenon
  <2>3. QED
    BY <1>1, <2>1, <2>2 DEF ByteAt
<1>3. ByteAt(o, 3 * m + 2) = 16 * (o[4 * m + 2] % 16) + o[4 * m + 3] \div 4
  <2>1. PICK i : i = 3 * m + 2
    OBVIOUS
  <2>2. Place(i) = 4 * m + 2 /\ i % 3 = 2
    BY <2>1, PlaceLemma, Zenon
  <2>3. QED
    BY <1>1, <2>1, <2>2 DEF ByteAt
<1>4. ByteAt(o, 3 * m + 3) = 64 * (o[4 * m + 3] % 4) + o[4 * m + 4]
  <2>1. PICK i : i = 3 * m + 3
    OBVIOUS
  <2>2. Place(i) = 4 * m + 3 /\ i % 3 = 0
    BY <2>1, PlaceLemma, Zenon
  <2>3. QED
    BY <1>1, <2>1, <2>2 DEF ByteAt
<1>5. QED
  BY <1>2, <1>3, <1>4, Zenon

\* A byte from its parts, and the parts of a character that has bits of two bytes.
LEMMA PartsLemma ==
  ASSUME NEW v \in Nat, NEW c \in Octets
  PROVE  /\ 4 * (c \div 4) + (c % 4) = c
         /\ 16 * (c \div 16) + (c % 16) = c
         /\ 64 * (c \div 64) + (c % 64) = c
         /\ ((v % 4) * 16 + c \div 16) \div 16 = v % 4
         /\ ((v % 4) * 16 + c \div 16) % 16 = c \div 16
         /\ ((v % 16) * 4 + c \div 64) \div 4 = v % 16
         /\ ((v % 16) * 4 + c \div 64) % 4 = c \div 64
         /\ ((v % 4) * 16) \div 16 = v % 4
         /\ ((v % 16) * 4) \div 4 = v % 16
  BY SMT DEF Octets

\* The first k bytes of t are found in o.
Found(o, t, k) == \A i \in 1..k : ByteAt(o, i) = t[i]

Same(o, p, k) == \A i \in 1..k : p[i] = o[i]

\* Bytes are found as long as their characters stay.
LEMMA FoundStays ==
  ASSUME NEW m \in Nat, NEW o, NEW p, NEW t, NEW u,
         Same(o, p, 4 * m), Same(t, u, 3 * m), Found(o, t, 3 * m)
  PROVE  Found(p, u, 3 * m)
<1> SUFFICES ASSUME NEW i \in 1..(3 * m) PROVE ByteAt(p, i) = u[i]
  BY DEF Found
<1>1. i \in Nat \ {0} /\ i <= 3 * m /\ 4 * m \in Nat
  OBVIOUS
<1>2. Place(i) \in Nat \ {0} /\ Place(i) + 1 <= 4 * m
  BY <1>1, PlaceBound, SMT
<1>3. Place(i) \in 1..(4 * m) /\ Place(i) + 1 \in 1..(4 * m)
  BY <1>1, <1>2, SMT
<1>4. p[Place(i)] = o[Place(i)] /\ p[Place(i) + 1] = o[Place(i) + 1]
  BY <1>3, Zenon DEF Same
<1>5. ByteAt(p, i) = ByteAt(o, i)
  BY <1>4, Zenon DEF ByteAt
<1>6. QED
  BY <1>5, Zenon DEF Found, Same

\* The same for the first byte of a group with two characters.
LEMMA FoundStaysToo ==
  ASSUME NEW m \in Nat, NEW o, NEW p, NEW t, NEW u,
         Same(o, p, 4 * m + 2), Same(t, u, 3 * m + 1), Found(o, t, 3 * m + 1)
  PROVE  Found(p, u, 3 * m + 1)
<1> SUFFICES ASSUME NEW i \in 1..(3 * m + 1) PROVE ByteAt(p, i) = u[i]
  BY DEF Found
<1>1. i \in Nat \ {0} /\ i <= 3 * m + 1 /\ 4 * m + 2 \in Nat
  OBVIOUS
<1>2. Place(i) \in Nat \ {0} /\ Place(i) + 1 <= 4 * m + 2
  BY <1>1, PlaceBound, SMT
<1>3. Place(i) \in 1..(4 * m + 2) /\ Place(i) + 1 \in 1..(4 * m + 2)
  BY <1>1, <1>2, SMT
<1>4. p[Place(i)] = o[Place(i)] /\ p[Place(i) + 1] = o[Place(i) + 1]
  BY <1>3, Zenon DEF Same
<1>5. ByteAt(p, i) = ByteAt(o, i)
  BY <1>4, Zenon DEF ByteAt
<1>6. QED
  BY <1>5, Zenon DEF Found, Same

\* What base64_encode has written after whole groups, after one byte more and
\* after two, and what of the last byte is pending in val.
Coded0(s, t, m) ==
  /\ Len(t) = 3 * m /\ Len(s.out) = 4 * m /\ s.valb = -6
  /\ Found(s.out, t, 3 * m)
Coded1(s, t, m) ==
  /\ Len(t) = 3 * m + 1 /\ Len(s.out) = 4 * m + 1 /\ s.valb = -4
  /\ Found(s.out, t, 3 * m)
  /\ s.out[4 * m + 1] = t[3 * m + 1] \div 4 /\ s.val % 4 = t[3 * m + 1] % 4
Coded2(s, t, m) ==
  /\ Len(t) = 3 * m + 2 /\ Len(s.out) = 4 * m + 2 /\ s.valb = -2
  /\ Found(s.out, t, 3 * m + 1)
  /\ s.out[4 * m + 2] % 16 = t[3 * m + 2] \div 16 /\ s.val % 16 = t[3 * m + 2] % 16

\* p is q with one element more, x.
Longer(q, x, p, l) == Len(p) = l + 1 /\ p[l + 1] = x /\ \A i \in 1..l : p[i] = q[i]

\* Append makes a sequence one longer.
LEMMA AppendLemma ==
  ASSUME NEW S, NEW q \in Seq(S), NEW x \in S, NEW l, l = Len(q)
  PROVE  Append(q, x) \in Seq(S) /\ Longer(q, x, Append(q, x), l)
  BY SMT DEF Longer

\* The first byte of a group: one character, two bits pending.
LEMMA FirstByte ==
  ASSUME NEW s \in Encoders, NEW t \in Seq(Octets), NEW c \in Octets, NEW m \in Nat,
         Coded0(s, t, m)
  PROVE  Coded1(B64!Taken(s, c), Append(t, c), m)
<1>1. PICK w : w = Kept(s.val, c)
  OBVIOUS
<1>2. PICK x : x = (w \div 4) % 64
  OBVIOUS
<1>3. PICK o : o = s.out
  OBVIOUS
<1>4. s.val \in Nat /\ o \in Seq(Sextets) /\ s.valb = -6 /\ Len(t) = 3 * m /\ Len(o) = 4 * m
      /\ Found(o, t, 3 * m)
  BY <1>3, SMT DEF Encoders, Coded0
<1>i. KeptBits(w, s.val, c)
  BY <1>1, <1>4, TakenBits, Zenon
<1>5. w \in Nat /\ x = c \div 4 /\ w % 4 = c % 4
  BY <1>2, <1>i, SMT DEF KeptBits
<1>6. x \in Sextets
  BY <1>5, SMT DEF Sextets, Octets
<1>7. PICK p : p = Append(o, x)
  OBVIOUS
<1>8. PICK u : u = Append(t, c)
  OBVIOUS
<1>9. PICK r : r = B64!Taken(s, c)
  OBVIOUS
<1>10. r.val = w /\ r.valb = -4 /\ r.out = p
  BY <1>1, <1>2, <1>3, <1>4, <1>7, <1>9, TakenLemma
<1>11. Len(p) = 4 * m + 1 /\ p[4 * m + 1] = x /\ Same(o, p, 4 * m)
  <2>1. p \in Seq(Sextets) /\ Longer(o, x, p, Len(o))
    BY <1>4, <1>6, <1>7, AppendLemma, Zenon
  <2>2. QED
    BY <1>4, <2>1, SMT DEF Longer, Same
<1>12. Len(u) = 3 * m + 1 /\ u[3 * m + 1] = c /\ Same(t, u, 3 * m)
  <2>1. Longer(t, c, u, Len(t))
    BY <1>8, AppendLemma, Zenon
  <2>2. QED
    BY <1>4, <2>1, SMT DEF Longer, Same
<1>13. Found(p, u, 3 * m)
  BY <1>4, <1>11, <1>12, FoundStays, Zenon
<1>14. Coded1(r, u, m)
  BY <1>5, <1>10, <1>11, <1>12, <1>13, Zenon DEF Coded1
<1>15. QED
  BY <1>8, <1>9, <1>14, Zenon

\* A byte is found once the character that ends it is there.
LEMMA FoundOne ==
  ASSUME NEW o, NEW t, NEW k \in Nat, Found(o, t, k), ByteAt(o, k + 1) = t[k + 1]
  PROVE  Found(o, t, k + 1)
<1> SUFFICES ASSUME NEW i \in 1..(k + 1) PROVE ByteAt(o, i) = t[i]
  BY DEF Found
<1>1. i \in 1..k \/ i = k + 1
  OBVIOUS
<1>2. QED
  BY <1>1, Zenon DEF Found

\* The second byte of a group: one character ends the first byte, four bits pending.
LEMMA SecondByte ==
  ASSUME NEW s \in Encoders, NEW t \in Seq(Octets), NEW c \in Octets, NEW m \in Nat,
         Coded1(s, t, m)
  PROVE  Coded2(B64!Taken(s, c), Append(t, c), m)
<1>1. PICK w : w = Kept(s.val, c)
  OBVIOUS
<1>2. PICK x : x = (w \div 16) % 64
  OBVIOUS
<1>3. PICK o : o = s.out
  OBVIOUS
<1>a. PICK v : v = s.val
  OBVIOUS
<1>b. PICK b : b = t[3 * m + 1]
  OBVIOUS
<1>4. /\ v \in Nat /\ o \in Seq(Sextets) /\ s.valb = -4
      /\ Len(t) = 3 * m + 1 /\ Len(o) = 4 * m + 1 /\ Found(o, t, 3 * m)
      /\ o[4 * m + 1] = b \div 4 /\ v % 4 = b % 4
  BY <1>3, <1>a, <1>b, SMT DEF Encoders, Coded1
<1>c. b \in Octets
  BY <1>b, <1>4, SMT
<1>i. KeptBits(w, s.val, c)
  BY <1>1, <1>4, <1>a, TakenBits, Zenon
<1>5. w \in Nat /\ x = (v % 4) * 16 + c \div 16 /\ w % 16 = c % 16
  BY <1>2, <1>i, <1>a, SMT DEF KeptBits
<1>d. x \div 16 = b % 4 /\ x % 16 = c \div 16
  BY <1>4, <1>5, PartsLemma, Zenon
<1>6. x \in Sextets
  BY <1>2, <1>5, SMT DEF Sextets
<1>7. PICK p : p = Append(o, x)
  OBVIOUS
<1>8. PICK u : u = Append(t, c)
  OBVIOUS
<1>9. PICK r : r = B64!Taken(s, c)
  OBVIOUS
<1>10. r.val = w /\ r.valb = -2 /\ r.out = p
  <2>1. r = [val |-> w, valb |-> -2, out |-> p]
    BY <1>1, <1>2, <1>3, <1>4, <1>7, <1>9, TakenLemma, Zenon
  <2>2. QED
    BY <2>1
<1>11. Len(p) = 4 * m + 2 /\ p[4 * m + 2] = x /\ p[4 * m + 1] = o[4 * m + 1] /\ Same(o, p, 4 * m)
  <2>1. p \in Seq(Sextets) /\ Longer(o, x, p, Len(o))
    BY <1>4, <1>6, <1>7, AppendLemma, Zenon
  <2>2. QED
    BY <1>4, <2>1, SMT DEF Longer, Same
<1>12. Len(u) = 3 * m + 2 /\ u[3 * m + 2] = c /\ u[3 * m + 1] = b /\ Same(t, u, 3 * m)
  <2>1. Longer(t, c, u, Len(t))
    BY <1>8, AppendLemma, Zenon
  <2>2. QED
    BY <1>4, <1>b, <2>1, SMT DEF Longer, Same
<1>13. Found(p, u, 3 * m)
  BY <1>4, <1>11, <1>12, FoundStays, Zenon
<1>14. ByteAt(p, 3 * m + 1) = 4 * (b \div 4) + (b % 4)
  BY <1>4, <1>11, <1>d, ByteAtLemma, Zenon
<1>15. ByteAt(p, 3 * m + 1) = u[3 * m + 1]
  BY <1>4, <1>12, <1>14, <1>c, PartsLemma, Zenon
<1>16. Found(p, u, 3 * m + 1)
  <2>1. 3 * m \in Nat
    BY SMT
  <2>2. QED
    BY <1>13, <1>15, <2>1, FoundOne, Zenon
<1>17. Coded2(r, u, m)
  BY <1>5, <1>10, <1>11, <1>12, <1>16, <1>d, Zenon DEF Coded2
<1>18. QED
  BY <1>8, <1>9, <1>17, Zenon

\* The third byte of a group: two characters end the group.
LEMMA ThirdByte ==
  ASSUME NEW s \in Encoders, NEW t \in Seq(Octets), NEW c \in Octets, NEW m \in Nat,
         Coded2(s, t, m)
  PROVE  Coded0(B64!Taken(s, c), Append(t, c), m + 1)
<1>1. PICK w : w = Kept(s.val, c)
  OBVIOUS
<1>2. PICK x : x = (w \div 64) % 64
  OBVIOUS
<1>e. PICK y : y = (w \div 1) % 64
  OBVIOUS
<1>3. PICK o : o = s.out
  OBVIOUS
<1>a. PICK v : v = s.val
  OBVIOUS
<1>b. PICK b : b = t[3 * m + 2]
  OBVIOUS
<1>4. /\ v \in Nat /\ o \in Seq(Sextets) /\ s.valb = -2
      /\ Len(t) = 3 * m + 2 /\ Len(o) = 4 * m + 2 /\ Found(o, t, 3 * m + 1)
      /\ o[4 * m + 2] % 16 = b \div 16 /\ v % 16 = b % 16
  BY <1>3, <1>a, <1>b, SMT DEF Encoders, Coded2
<1>c. b \in Octets
  BY <1>b, <1>4, SMT
<1>i. KeptBits(w, s.val, c)
  BY <1>1, <1>4, <1>a, TakenBits, Zenon
<1>5. w \in Nat /\ x = (v % 16) * 4 + c \div 64 /\ y = c % 64
  BY <1>2, <1>i, <1>a, <1>e, SMT DEF KeptBits
<1>d. x \div 4 = b % 16 /\ x % 4 = c \div 64
  BY <1>4, <1>5, PartsLemma, Zenon
<1>6. x \in Sextets /\ y \in Sextets
  <2>1. x \in Sextets
    BY <1>2, <1>5, SMT DEF Sextets
  <2>2. y \in Sextets
    BY <1>5, SMT DEF Sextets, Octets
  <2>3. QED
    BY <2>1, <2>2
<1>7. PICK p : p = Append(o, x)
  OBVIOUS
<1>f. PICK q : q = Append(p, y)
  OBVIOUS
<1>8. PICK u : u = Append(t, c)
  OBVIOUS
<1>9. PICK r : r = B64!Taken(s, c)
  OBVIOUS
<1>10. r.valb = -6 /\ r.out = q
  <2>1. B64!Taken(s, c) = [val |-> w, valb |-> -6,
          out |-> Append(Append(s.out, (w \div 64) % 64), (w \div 1) % 64)]
    <3>1. s.valb = -2
      BY <1>4, Zenon
    <3>2. QED
      BY <1>1, <3>1, TakenLemma
  <2>2. r = [val |-> w, valb |-> -6, out |-> q]
    BY <1>2, <1>3, <1>7, <1>9, <1>e, <1>f, <2>1, Zenon
  <2>3. QED
    BY <2>2
<1>11. /\ Len(p) = 4 * m + 3 /\ p \in Seq(Sextets) /\ p[4 * m + 3] = x
       /\ p[4 * m + 2] = o[4 * m + 2] /\ \A i \in 1..(4 * m + 2) : p[i] = o[i]
  <2>1. p \in Seq(Sextets) /\ Longer(o, x, p, Len(o))
    BY <1>4, <1>6, <1>7, AppendLemma, Zenon
  <2>2. QED
    BY <1>4, <2>1, SMT DEF Longer, Same
<1>g. /\ Len(q) = 4 * m + 4 /\ q[4 * m + 4] = y /\ q[4 * m + 3] = x
      /\ q[4 * m + 2] = o[4 * m + 2] /\ \A i \in 1..(4 * m + 3) : q[i] = p[i]
  <2>1. Longer(p, y, q, Len(p))
    BY <1>6, <1>11, <1>f, AppendLemma, Zenon
  <2>2. QED
    BY <1>11, <2>1, SMT DEF Longer
<1>h. Same(o, q, 4 * m + 2)
  BY <1>11, <1>g, SMT DEF Same
<1>12. /\ Len(u) = 3 * m + 3 /\ u[3 * m + 3] = c /\ u[3 * m + 2] = b
       /\ Same(t, u, 3 * m + 1)
  <2>1. Longer(t, c, u, Len(t))
    BY <1>8, AppendLemma, Zenon
  <2>2. QED
    BY <1>4, <1>b, <2>1, SMT DEF Longer, Same
<1>13. Found(q, u, 3 * m + 1)
  BY <1>4, <1>h, <1>12, FoundStaysToo, Zenon
<1>14. ByteAt(q, 3 * m + 2) = 16 * (b \div 16) + (b % 16)
  <2>1. ByteAt(q, 3 * m + 2) = 16 * (q[4 * m + 2] % 16) + q[4 * m + 3] \div 4
    BY ByteAtLemma
  <2>2. QED
    BY <1>4, <1>g, <1>d, <2>1, Zenon
<1>15. ByteAt(q, 3 * m + 2) = u[3 * m + 2]
  BY <1>4, <1>12, <1>14, <1>c, PartsLemma, Zenon
<1>16. ByteAt(q, 3 * m + 3) = 64 * (c \div 64) + (c % 64)
  <2>1. ByteAt(q, 3 * m + 3) = 64 * (q[4 * m + 3] % 4) + q[4 * m + 4]
    BY ByteAtLemma
  <2>2. QED
    BY <1>5, <1>g, <1>d, <2>1, Zenon
<1>17. ByteAt(q, 3 * m + 3) = u[3 * m + 3]
  BY <1>4, <1>12, <1>16, PartsLemma, Zenon
<1>18. Found(q, u, 3 * (m + 1))
  <2>1. /\ 3 * m + 1 \in Nat /\ (3 * m + 1) + 1 = 3 * m + 2
        /\ 3 * m + 2 \in Nat /\ (3 * m + 2) + 1 = 3 * m + 3 /\ 3 * (m + 1) = 3 * m + 3
    BY SMT
  <2>2. Found(q, u, 3 * m + 2)
    BY <1>13, <1>15, <2>1, FoundOne, Zenon
  <2>3. QED
    BY <1>17, <2>1, <2>2, FoundOne, Zenon
<1>19. Len(u) = 3 * (m + 1) /\ Len(q) = 4 * (m + 1)
  BY <1>12, <1>g, SMT
<1>20. Coded0(r, u, m + 1)
  BY <1>10, <1>18, <1>19, Zenon DEF Coded0
<1>21. QED
  BY <1>8, <1>9, <1>20, Zenon

\* Whatever the bytes of a picture, base64_encode is in one of three positions.
Coded(s, t) == \E m \in Nat : Coded0(s, t, m) \/ Coded1(s, t, m) \/ Coded2(s, t, m)

\* base64_encode is in one of these positions after every sequence of bytes.
LEMMA EncodingCoded == \A t \in Seq(Octets) : Coded(B64!Encoding(t), t)
<1> DEFINE T == {t \in Seq(Octets) : Coded(B64!Encoding(t), t)}
<1>1. <<>> \in T
  <2>1. B64!Encoding(<<>>) = B64!Started /\ <<>> \in Seq(Octets)
    BY EncodingLemma
  <2>2. Found(B64!Started.out, <<>>, 3 * 0)
    BY SMT DEF Found
  <2>3. Coded0(B64!Started, <<>>, 0)
    BY <2>2, SMT DEF Coded0, B64!Started
  <2>4. Coded(B64!Started, <<>>)
    BY <2>3, Zenon DEF Coded
  <2>5. QED
    BY <2>1, <2>4, Zenon
<1>2. ASSUME NEW t \in Seq(Octets), NEW c \in Octets, t \in T
      PROVE  Append(t, c) \in T
  <2>1. PICK s : s = B64!Encoding(t)
    OBVIOUS
  <2>2. s \in Encoders /\ B64!Encoding(Append(t, c)) = B64!Taken(s, c)
    BY <2>1, EncodingLemma, Zenon
  <2>3. PICK m \in Nat : Coded0(s, t, m) \/ Coded1(s, t, m) \/ Coded2(s, t, m)
    BY <1>2, <2>1, Zenon DEF Coded
  <2>4. m + 1 \in Nat
    BY SMT
  <2>5. Coded(B64!Taken(s, c), Append(t, c))
    <3>1. CASE Coded0(s, t, m)
      BY <2>2, <3>1, FirstByte, Zenon DEF Coded
    <3>2. CASE Coded1(s, t, m)
      BY <2>2, <3>2, SecondByte, Zenon DEF Coded
    <3>3. CASE Coded2(s, t, m)
      BY <2>2, <2>4, <3>3, ThirdByte, Zenon DEF Coded
    <3>4. QED
      BY <2>3, <3>1, <3>2, <3>3, Zenon
  <2>6. Append(t, c) \in Seq(Octets)
    OBVIOUS
  <2>7. QED
    BY <2>2, <2>5, <2>6, Zenon
<1> HIDE DEF T
<1>3. \A t \in Seq(Octets) : t \in T
  BY <1>1, <1>2, SeqInduction, Zenon
<1>4. QED
  BY <1>3, Zenon DEF T

\* The padding: as many characters as fill the last group of four.
FilledTo(q, f, l) ==
  /\ Len(f) = l
  /\ \A i \in 1..Len(q) : f[i] = q[i]
  /\ \A i \in 1..l : i > Len(q) => f[i] = B64!Pad

\* base64_encode fills up the last group.
LEMMA FilledLemma ==
  ASSUME NEW m \in Nat, NEW j \in {0, 2, 3}, NEW q \in Seq(Sextets), Len(q) = 4 * m + j
  PROVE  FilledTo(q, B64!Filled(q), IF j = 0 THEN 4 * m ELSE 4 * m + 4)
<1>1. PICK k : k = (4 - (Len(q) % 4)) % 4
  OBVIOUS
<1>2. k \in Nat /\ Len(q) + k = IF j = 0 THEN 4 * m ELSE 4 * m + 4
  <2>1. (4 * m + j) % 4 = j
    BY SMT
  <2>2. k = (4 - j) % 4
    BY <1>1, <2>1, Zenon
  <2>3. k = IF j = 0 THEN 0 ELSE 4 - j
    BY <2>2, SMT
  <2>4. QED
    BY <2>3, SMT
<1>3. PICK p : p = [i \in 1..k |-> B64!Pad]
  OBVIOUS
<1>4. p \in Seq(Nat) /\ Len(p) = k /\ \A i \in 1..k : p[i] = B64!Pad
  <2>1. p \in [1..k -> Nat] /\ \A i \in 1..k : p[i] = B64!Pad
    BY <1>3, SMT DEF B64!Pad
  <2>2. p \in Seq(Nat)
    BY <1>2, <2>1
  <2>3. Len(p) \in Nat /\ 1..Len(p) = 1..k
    BY <2>1, <2>2, LenProperties, Zenon
  <2>4. Len(p) = k
    <3>1. Len(p) <= k
      BY <1>2, <2>3
    <3>2. k <= Len(p)
      BY <1>2, <2>3
    <3>3. QED
      BY <1>2, <2>3, <3>1, <3>2
  <2>5. QED
    BY <2>1, <2>2, <2>4, Zenon
<1>5. q \in Seq(Nat) /\ Len(q) \in Nat
  <2>1. Sextets \subseteq Nat
    BY SMT DEF Sextets
  <2>2. q \in Seq(Nat)
    BY <2>1, SeqMonotonic, Zenon
  <2>3. QED
    BY <2>2
<1>6. B64!Filled(q) = q \o p
  BY <1>1, <1>3, Zenon DEF B64!Filled
<1>7. PICK f : f = q \o p
  OBVIOUS
<1>8. /\ Len(f) = Len(q) + k
      /\ \A i \in 1..(Len(q) + k) : f[i] = IF i <= Len(q) THEN q[i] ELSE p[i - Len(q)]
  <2>1. /\ Len(f) = Len(q) + Len(p)
        /\ \A i \in 1..(Len(q) + Len(p)) : f[i] = IF i <= Len(q) THEN q[i] ELSE p[i - Len(q)]
    BY <1>4, <1>5, <1>7, ConcatProperties, Zenon
  <2>2. QED
    BY <1>4, <2>1, Zenon
<1>9. FilledTo(q, f, Len(q) + k)
  <2>1. PICK n \in Nat : n = Len(q)
    BY <1>5, Zenon
  <2>2. \A i \in 1..n : f[i] = q[i]
    BY <1>2, <1>8, <2>1
  <2>3. ASSUME NEW i \in 1..(n + k), i > n
        PROVE  f[i] = B64!Pad
    <3>1. i - n \in 1..k /\ ~(i <= n)
      BY <1>2, <2>3
    <3>2. QED
      BY <1>4, <1>8, <2>1, <3>1, Zenon
  <2>4. QED
    BY <1>8, <2>1, <2>2, <2>3, Zenon DEF FilledTo
<1>10. QED
  BY <1>2, <1>6, <1>7, <1>9, Zenon

\* The character that the pending bits go into.
LEMMA FlushBits ==
  ASSUME NEW v \in Nat
  PROVE  /\ ((v * 256) \div 16) % 64 = (v % 4) * 16
         /\ ((v * 256) \div 64) % 64 = (v % 16) * 4
         /\ (v % 4) * 16 \in 0..63 /\ (v % 16) * 4 \in 0..63
  BY SMT

\* base64_encode flushes what is pending.
LEMMA FlushedLemma ==
  ASSUME NEW s \in Encoders
  PROVE  /\ s.valb = -6 => B64!Flushed(s) = s.out
         /\ s.valb = -4 => B64!Flushed(s) = Append(s.out, (s.val % 4) * 16)
         /\ s.valb = -2 => B64!Flushed(s) = Append(s.out, (s.val % 16) * 4)
<1>1. PICK v : v = s.val
  OBVIOUS
<1>2. v \in Nat
  BY <1>1 DEF Encoders
<1>3. PICK z : z = v * 256
  OBVIOUS
<1>4. z \in Nat
  BY <1>2, <1>3
<1>5. B64!Shift(z, 4) = z \div 16 /\ B64!Shift(z, 6) = z \div 64
  BY <1>4, ShiftLemma
<1>6. B64!Shift(z, 4) % 64 = (v % 4) * 16 /\ B64!Shift(z, 6) % 64 = (v % 16) * 4
  <2>1. (z \div 16) % 64 = (v % 4) * 16 /\ (z \div 64) % 64 = (v % 16) * 4
    BY <1>2, <1>3, FlushBits, SMT
  <2>2. QED
    BY <1>5, <2>1, Zenon
<1>7. /\ s.valb = -6 => ~(s.valb > -6)
      /\ s.valb = -4 => s.valb > -6 /\ s.valb + 8 = 4
      /\ s.valb = -2 => s.valb > -6 /\ s.valb + 8 = 6
  BY SMT
<1>8. B64!Flushed(s) = IF s.valb > -6 THEN Append(s.out, B64!Shift(z, s.valb + 8) % 64) ELSE s.out
  BY <1>1, <1>3, Zenon DEF B64!Flushed
<1>9. QED
  BY <1>1, <1>6, <1>7, <1>8, Zenon

\* A text decodes when its bytes are found and the padding fills the last group.
LEMMA DecodesLemma ==
  ASSUME NEW t \in Seq(Octets), NEW q \in Seq(Sextets), NEW f,
         Len(q) = Len(t) + (Len(t) + 2) \div 3,
         FilledTo(q, f, 4 * ((Len(t) + 2) \div 3)),
         Found(f, t, Len(t))
  PROVE  Decodes(f, t)
<1>1. PICK n \in Nat : n = Len(t)
  OBVIOUS
<1>2. PICK l : l = 4 * ((n + 2) \div 3)
  OBVIOUS
<1>3. PICK k : k = n + (n + 2) \div 3
  OBVIOUS
<1>4. l \in Nat /\ k \in Nat /\ Len(q) = k
  BY <1>1, <1>2, <1>3
<1>5. /\ Len(f) = l
      /\ \A i \in 1..k : f[i] = q[i]
      /\ \A i \in 1..l : i > k => f[i] = B64!Pad
  BY <1>1, <1>2, <1>4, Zenon DEF FilledTo
<1>6. \A i \in 1..k : q[i] \in 0..63
  BY <1>4 DEF Sextets
<1>7. \A i \in 1..l : IF i <= k THEN f[i] \in 0..63 ELSE f[i] = B64!Pad
  <2> SUFFICES ASSUME NEW i \in 1..l PROVE IF i <= k THEN f[i] \in 0..63 ELSE f[i] = B64!Pad
    OBVIOUS
  <2>1. CASE i <= k
    <3>1. i \in 1..k
      BY <1>4, <2>1
    <3>2. QED
      BY <1>5, <1>6, <2>1, <3>1, Zenon
  <2>2. CASE ~(i <= k)
    <3>1. i > k
      BY <1>4, <2>2
    <3>2. QED
      BY <1>5, <2>2, <3>1, Zenon
  <2>3. QED
    BY <2>1, <2>2, Zenon
<1>8. QED
  BY <1>1, <1>2, <1>3, <1>5, <1>7, Zenon DEF Decodes, Found

\* How many characters there are after whole groups, one byte more and two.
LEMMA CountLemma ==
  ASSUME NEW m \in Nat
  PROVE  /\ (3 * m + 2) \div 3 = m
         /\ ((3 * m + 1) + 2) \div 3 = m + 1
         /\ ((3 * m + 2) + 2) \div 3 = m + 1
  BY SMT

\* A sequence is the same as itself.
LEMMA SameItself == ASSUME NEW t, NEW k PROVE Same(t, t, k)
  BY DEF Same

\* A picture of whole groups needs neither flush nor padding.
LEMMA WholeGroups ==
  ASSUME NEW s \in Encoders, NEW t \in Seq(Octets), NEW m \in Nat, Coded0(s, t, m)
  PROVE  Decodes(B64!Filled(B64!Flushed(s)), t)
<1>1. PICK q : q = s.out
  OBVIOUS
<1>2. /\ q \in Seq(Sextets) /\ s.valb = -6
      /\ Len(t) = 3 * m /\ Len(q) = 4 * m /\ Found(q, t, 3 * m)
  BY <1>1, SMT DEF Encoders, Coded0
<1>3. B64!Flushed(s) = q
  BY <1>1, <1>2, FlushedLemma, Zenon
<1>4. PICK f : f = B64!Filled(q)
  OBVIOUS
<1>5. FilledTo(q, f, 4 * m)
  <2>1. Len(q) = 4 * m + 0
    BY <1>2
  <2>2. FilledTo(q, B64!Filled(q), IF 0 = 0 THEN 4 * m ELSE 4 * m + 4)
    BY <1>2, <2>1, FilledLemma
  <2>3. QED
    BY <1>4, <2>2
<1>6. Same(q, f, 4 * m)
  BY <1>2, <1>5, Zenon DEF FilledTo, Same
<1>7. Found(f, t, 3 * m)
  <2>1. Same(t, t, 3 * m)
    BY SameItself, Zenon
  <2>2. QED
    BY <1>2, <1>6, <2>1, FoundStays, Zenon
<1>8. Len(q) = Len(t) + (Len(t) + 2) \div 3 /\ 4 * ((Len(t) + 2) \div 3) = 4 * m
  BY <1>2, CountLemma, SMT
<1>9. Decodes(f, t)
  BY <1>2, <1>5, <1>7, <1>8, DecodesLemma, Zenon
<1>10. QED
  BY <1>3, <1>4, <1>9, Zenon

\* One byte over: a character more and two of padding.
LEMMA OneOver ==
  ASSUME NEW s \in Encoders, NEW t \in Seq(Octets), NEW m \in Nat, Coded1(s, t, m)
  PROVE  Decodes(B64!Filled(B64!Flushed(s)), t)
<1>1. PICK o : o = s.out
  OBVIOUS
<1>2. PICK v : v = s.val
  OBVIOUS
<1>3. PICK b : b = t[3 * m + 1]
  OBVIOUS
<1>4. /\ v \in Nat /\ o \in Seq(Sextets) /\ s.valb = -4
      /\ Len(t) = 3 * m + 1 /\ Len(o) = 4 * m + 1 /\ Found(o, t, 3 * m)
      /\ o[4 * m + 1] = b \div 4 /\ v % 4 = b % 4
  BY <1>1, <1>2, <1>3, SMT DEF Encoders, Coded1
<1>5. b \in Octets
  BY <1>3, <1>4, SMT
<1>6. PICK y : y = (v % 4) * 16
  OBVIOUS
<1>7. y \in Sextets /\ y \div 16 = b % 4
  <2>1. y \in Sextets
    BY <1>4, <1>6, FlushBits, Zenon DEF Sextets
  <2>2. y \div 16 = b % 4
    BY <1>4, <1>5, <1>6, PartsLemma, Zenon
  <2>3. QED
    BY <2>1, <2>2, Zenon
<1>8. PICK q : q = Append(o, y)
  OBVIOUS
<1>9. B64!Flushed(s) = q
  BY <1>1, <1>2, <1>4, <1>6, <1>8, FlushedLemma, Zenon
<1>10. /\ q \in Seq(Sextets) /\ Len(q) = 4 * m + 2 /\ q[4 * m + 2] = y
       /\ \A i \in 1..(4 * m + 1) : q[i] = o[i]
  <2>1. q \in Seq(Sextets) /\ Longer(o, y, q, Len(o))
    BY <1>4, <1>7, <1>8, AppendLemma, Zenon
  <2>2. Len(o) = 4 * m + 1 /\ (4 * m + 1) + 1 = 4 * m + 2
    BY <1>4
  <2>3. QED
    BY <2>1, <2>2, Zenon DEF Longer
<1>11. PICK f : f = B64!Filled(q)
  OBVIOUS
<1>12. FilledTo(q, f, 4 * m + 4)
  <2>1. FilledTo(q, B64!Filled(q), IF 2 = 0 THEN 4 * m ELSE 4 * m + 4)
    BY <1>10, FilledLemma
  <2>2. QED
    BY <1>11, <2>1
<1>13. \A i \in 1..(4 * m + 2) : f[i] = q[i]
  BY <1>10, <1>12, Zenon DEF FilledTo
<1>14. /\ 4 * m + 2 \in 1..(4 * m + 2) /\ 4 * m + 1 \in 1..(4 * m + 1)
       /\ \A i \in 1..(4 * m + 1) : i \in 1..(4 * m + 2)
       /\ \A i \in 1..(4 * m) : i \in 1..(4 * m + 2) /\ i \in 1..(4 * m + 1)
  BY SMT
<1>15. f[4 * m + 2] = y /\ f[4 * m + 1] = o[4 * m + 1] /\ Same(o, f, 4 * m)
  BY <1>10, <1>13, <1>14, Zenon DEF Same
<1>16. Found(f, t, 3 * m)
  <2>1. Same(t, t, 3 * m)
    BY SameItself, Zenon
  <2>2. QED
    BY <1>4, <1>15, <2>1, FoundStays, Zenon
<1>17. ByteAt(f, 3 * m + 1) = t[3 * m + 1]
  <2>1. ByteAt(f, 3 * m + 1) = 4 * f[4 * m + 1] + f[4 * m + 2] \div 16
    BY ByteAtLemma
  <2>2. ByteAt(f, 3 * m + 1) = 4 * (b \div 4) + (b % 4)
    BY <1>4, <1>7, <1>15, <2>1, Zenon
  <2>3. QED
    BY <1>3, <1>4, <1>5, <2>2, PartsLemma, Zenon
<1>18. Found(f, t, 3 * m + 1)
  <2>1. 3 * m \in Nat /\ (3 * m) + 1 = 3 * m + 1
    BY SMT
  <2>2. QED
    BY <1>16, <1>17, <2>1, FoundOne, Zenon
<1>19. Len(q) = Len(t) + (Len(t) + 2) \div 3 /\ 4 * ((Len(t) + 2) \div 3) = 4 * m + 4
  <2>1. PICK k : k = (Len(t) + 2) \div 3
    OBVIOUS
  <2>2. k = m + 1
    BY <1>4, <2>1, CountLemma, Zenon
  <2>3. Len(t) = 3 * m + 1 /\ Len(q) = 4 * m + 2
    BY <1>4, <1>10, Zenon
  <2>4. Len(q) = Len(t) + k /\ 4 * k = 4 * m + 4
    BY <2>2, <2>3, SMT
  <2>5. QED
    BY <2>1, <2>4, Zenon
<1>20. Decodes(f, t)
  BY <1>4, <1>10, <1>12, <1>18, <1>19, DecodesLemma, Zenon
<1>21. QED
  BY <1>9, <1>11, <1>20, Zenon

\* Two bytes over: a character more and one of padding.
LEMMA TwoOver ==
  ASSUME NEW s \in Encoders, NEW t \in Seq(Octets), NEW m \in Nat, Coded2(s, t, m)
  PROVE  Decodes(B64!Filled(B64!Flushed(s)), t)
<1>1. PICK o : o = s.out
  OBVIOUS
<1>2. PICK v : v = s.val
  OBVIOUS
<1>3. PICK b : b = t[3 * m + 2]
  OBVIOUS
<1>4. /\ v \in Nat /\ o \in Seq(Sextets) /\ s.valb = -2
      /\ Len(t) = 3 * m + 2 /\ Len(o) = 4 * m + 2 /\ Found(o, t, 3 * m + 1)
      /\ o[4 * m + 2] % 16 = b \div 16 /\ v % 16 = b % 16
  BY <1>1, <1>2, <1>3, SMT DEF Encoders, Coded2
<1>5. b \in Octets
  BY <1>3, <1>4, SMT
<1>6. PICK y : y = (v % 16) * 4
  OBVIOUS
<1>7. y \in Sextets /\ y \div 4 = b % 16
  <2>1. y \in Sextets
    BY <1>4, <1>6, FlushBits, Zenon DEF Sextets
  <2>2. y \div 4 = b % 16
    BY <1>4, <1>5, <1>6, PartsLemma, Zenon
  <2>3. QED
    BY <2>1, <2>2, Zenon
<1>8. PICK q : q = Append(o, y)
  OBVIOUS
<1>9. B64!Flushed(s) = q
  BY <1>1, <1>2, <1>4, <1>6, <1>8, FlushedLemma, Zenon
<1>10. /\ q \in Seq(Sextets) /\ Len(q) = 4 * m + 3 /\ q[4 * m + 3] = y
       /\ \A i \in 1..(4 * m + 2) : q[i] = o[i]
  <2>1. q \in Seq(Sextets) /\ Longer(o, y, q, Len(o))
    BY <1>4, <1>7, <1>8, AppendLemma, Zenon
  <2>2. Len(o) = 4 * m + 2 /\ (4 * m + 2) + 1 = 4 * m + 3
    BY <1>4
  <2>3. QED
    BY <2>1, <2>2, Zenon DEF Longer
<1>11. PICK f : f = B64!Filled(q)
  OBVIOUS
<1>12. FilledTo(q, f, 4 * m + 4)
  <2>1. FilledTo(q, B64!Filled(q), IF 3 = 0 THEN 4 * m ELSE 4 * m + 4)
    BY <1>10, FilledLemma
  <2>2. QED
    BY <1>11, <2>1
<1>13. \A i \in 1..(4 * m + 3) : f[i] = q[i]
  BY <1>10, <1>12, Zenon DEF FilledTo
<1>14. /\ 4 * m + 3 \in 1..(4 * m + 3) /\ 4 * m + 2 \in 1..(4 * m + 2)
       /\ \A i \in 1..(4 * m + 2) : i \in 1..(4 * m + 3)
       /\ \A i \in 1..(4 * m) : i \in 1..(4 * m + 3) /\ i \in 1..(4 * m + 2)
  BY SMT
<1>15. f[4 * m + 3] = y /\ f[4 * m + 2] = o[4 * m + 2] /\ Same(o, f, 4 * m + 2)
  BY <1>10, <1>13, <1>14, Zenon DEF Same
<1>16. Found(f, t, 3 * m + 1)
  <2>1. Same(t, t, 3 * m + 1)
    BY SameItself, Zenon
  <2>2. QED
    BY <1>4, <1>15, <2>1, FoundStaysToo, Zenon
<1>17. ByteAt(f, 3 * m + 2) = t[3 * m + 2]
  <2>1. ByteAt(f, 3 * m + 2) = 16 * (f[4 * m + 2] % 16) + f[4 * m + 3] \div 4
    BY ByteAtLemma
  <2>2. ByteAt(f, 3 * m + 2) = 16 * (b \div 16) + (b % 16)
    BY <1>4, <1>7, <1>15, <2>1, Zenon
  <2>3. QED
    BY <1>3, <1>4, <1>5, <2>2, PartsLemma, Zenon
<1>18. Found(f, t, 3 * m + 2)
  <2>1. 3 * m + 1 \in Nat /\ (3 * m + 1) + 1 = 3 * m + 2
    BY SMT
  <2>2. QED
    BY <1>16, <1>17, <2>1, FoundOne, Zenon
<1>19. Len(q) = Len(t) + (Len(t) + 2) \div 3 /\ 4 * ((Len(t) + 2) \div 3) = 4 * m + 4
  <2>1. PICK k : k = (Len(t) + 2) \div 3
    OBVIOUS
  <2>2. k = m + 1
    BY <1>4, <2>1, CountLemma, Zenon
  <2>3. Len(t) = 3 * m + 2 /\ Len(q) = 4 * m + 3
    BY <1>4, <1>10, Zenon
  <2>4. Len(q) = Len(t) + k /\ 4 * k = 4 * m + 4
    BY <2>2, <2>3, SMT
  <2>5. QED
    BY <2>1, <2>4, Zenon
<1>20. Decodes(f, t)
  BY <1>4, <1>10, <1>12, <1>18, <1>19, DecodesLemma, Zenon
<1>21. QED
  BY <1>9, <1>11, <1>20, Zenon

\* base64_encode: the text of every picture, of whatever length and bytes, is
\* whole groups of four characters from which a decoder gets each byte of the
\* picture, with padding at the end only and no more of it than the last group needs;
\* that val loses its high bits on the way does no harm.
THEOREM EveryPictureDecodes ==
  \A picture \in Seq(0..255) : Decodes(B64!base64_encode(picture), picture)
<1> SUFFICES ASSUME NEW t \in Seq(Octets) PROVE Decodes(B64!base64_encode(t), t)
  BY Zenon DEF Octets
<1>1. PICK s : s = B64!Encoding(t)
  OBVIOUS
<1>2. s \in Encoders /\ Coded(s, t)
  BY <1>1, EncodingLemma, EncodingCoded, Zenon
<1>3. B64!base64_encode(t) = B64!Filled(B64!Flushed(s))
  BY <1>1, Zenon DEF B64!base64_encode
<1>4. PICK m \in Nat : Coded0(s, t, m) \/ Coded1(s, t, m) \/ Coded2(s, t, m)
  BY <1>2, Zenon DEF Coded
<1>5. QED
  BY <1>2, <1>3, <1>4, WholeGroups, OneOver, TwoOver, Zenon

=============================================================================

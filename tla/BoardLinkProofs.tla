--------------------------- MODULE BoardLinkProofs ---------------------------
(***************************************************************************)
(* The board link for any alerts, boards, retries and bounds.  The         *)
(* inductive invariant says what an alert that nobody disturbed can rely   *)
(* on: it is alone at its board, only its own frames are under way, an ACK *)
(* in the input queue answers its present command, and the display shows   *)
(* the last command carried out.  From it follow the promise of            *)
(* CommandLink and what the display shows during and after an alert.       *)
(***************************************************************************)
EXTENDS BoardLink, TLAPS

\* What is in a queue.
Elems(q) == {q[i] : i \in 1..Len(q)}

\* Command c of alert t has been begun.
Started(t, c) == phase[t] = c \/ phase[t] \in After(c)

\* What may be on its way to the board of an alert that nobody has disturbed:
\* frames of the command it is at and, while it sleeps, of send_time.
Own(t, f) ==
  \/ f.by = t /\ f.cmd = IF phase[t] = "off" THEN "off" ELSE "on"
  \/ f.by = TimeSync /\ phase[t] = "asleep"

\* Alert t is at work at a board and nobody else has been there.
Mine(t) == t \notin crowded /\ Active(t) /\ board[t] \in Boards

\* Nothing has been sent, carried out or acknowledged before its command began.
OrderInv ==
  /\ \A b \in Boards : \A f \in Elems(frames[b]) :
       f.by \in Alerts => Started(f.by, f.cmd) /\ board[f.by] = b
  /\ \A k \in ran : Started(k[1], k[2])
  /\ \A t \in Alerts : phase[t] = "idle" => board[t] = NoBoard
  /\ \A t \in Alerts : \A c \in acked[t] : phase[t] \in After(c) /\ board[t] \in Boards

\* An undisturbed alert is the only one at its board.
AloneInv ==
  \A t, u \in Alerts :
    Active(t) /\ Active(u) /\ board[t] = board[u] /\ t \notin crowded => t = u

\* Only its own frames are on their way to the board.
FramesInv ==
  \A t \in Alerts : Mine(t) => \A f \in Elems(frames[board[t]]) : Own(t, f)

\* An ACK that it can read is for the command it is at.
AnswersInv ==
  \A t \in Alerts : Mine(t) /\ step[t] = "wait" /\ "ACK" \in Elems(answers[board[t]])
                    => <<t, phase[t]>> \in ran

\* The display shows the last command that the board has carried out for it.
DisplayInv ==
  \A t \in Alerts : Mine(t) =>
    /\ <<t, phase[t]>> \in ran => display[board[t]] = phase[t]
    /\ phase[t] = "asleep" /\ "on" \in acked[t] => display[board[t]] = "on"

\* No alert for board b has been disturbed.
Clean(b) == \A t \in Alerts : board[t] = b => t \notin crowded

\* Between such alerts no LCD-on is under way, and a display that is on has an alert
\* at work or one whose LCD-off was not acknowledged.
DarkInv ==
  \A b \in Boards : Clean(b) =>
    /\ (\A t \in Alerts : board[t] = b => ~Active(t)) =>
          \A f \in Elems(frames[b]) : f.cmd # "on"
    /\ display[b] = "on" =>
          \E t \in Alerts : /\ board[t] = b
                            /\ Active(t) \/ (phase[t] = "done" /\ "off" \notin acked[t])

Inv == TypeOK /\ OrderInv /\ AloneInv /\ FramesInv /\ AnswersInv /\ DisplayInv /\ DarkInv

\* What sending to a queue and taking from it do to its elements.
LEMMA QueueLemma ==
  ASSUME NEW S, NEW q \in Seq(S)
  PROVE  /\ \A x \in S : /\ Append(q, x) \in Seq(S)
                        /\ Elems(Append(q, x)) = Elems(q) \cup {x}
         /\ q # <<>> => /\ Tail(q) \in Seq(S)
                        /\ Head(q) \in S
                        /\ Head(q) \in Elems(q)
                        /\ Elems(Tail(q)) \subseteq Elems(q)
         /\ Elems(q) \subseteq S
<1>1. ASSUME NEW x \in S
      PROVE  /\ Append(q, x) \in Seq(S)
             /\ Elems(Append(q, x)) = Elems(q) \cup {x}
  <2>1. /\ Append(q, x) \in Seq(S)
        /\ Len(Append(q, x)) = Len(q) + 1
        /\ \A i \in 1..Len(q) : Append(q, x)[i] = q[i]
        /\ Append(q, x)[Len(q) + 1] = x
        /\ Len(q) \in Nat
    OBVIOUS
  <2> DEFINE a == Append(q, x)
  <2> HIDE DEF a
  <2>2. 1..(Len(q) + 1) = 1..Len(q) \cup {Len(q) + 1}
    BY <2>1
  <2>3. Elems(a) = Elems(q) \cup {x}
    BY <2>1, <2>2 DEF Elems, a
  <2>4. QED
    BY <2>1, <2>3 DEF a
<1>2. ASSUME q # <<>>
      PROVE  /\ Tail(q) \in Seq(S)
             /\ Head(q) \in S
             /\ Head(q) \in Elems(q)
             /\ Elems(Tail(q)) \subseteq Elems(q)
  <2>1. /\ Tail(q) \in Seq(S)
        /\ Len(q) \in Nat \ {0}
        /\ Len(Tail(q)) = Len(q) - 1
        /\ \A i \in 1..Len(Tail(q)) : Tail(q)[i] = q[i + 1]
        /\ Head(q) = q[1]
        /\ q[1] \in S
    BY <1>2
  <2>2. 1 \in 1..Len(q) /\ \A i \in 1..(Len(q) - 1) : i + 1 \in 1..Len(q)
    BY <2>1
  <2>3. QED
    BY <2>1, <2>2 DEF Elems
<1>3. Elems(q) \subseteq S
  BY DEF Elems
<1>4. QED
  BY <1>1, <1>2, <1>3

\* The types that every other part of the proof rests on.
LEMMA TypesLemma ==
  ASSUME TypeOK
  PROVE  /\ \A t \in Alerts : /\ phase[t] \in {"idle", "on", "asleep", "off", "done"}
                              /\ acked[t] \subseteq Commands
         /\ \A b \in Boards : /\ Elems(frames[b]) \subseteq Frame
                              /\ Elems(answers[b]) \subseteq {"ACK", "NACK"}
         /\ \A f \in Frame : f.by \in Alerts => f.cmd \in Commands
         /\ TimeSync \notin Alerts
<1>1. \A b \in Boards : frames[b] \in Seq(Frame) /\ answers[b] \in Seq({"ACK", "NACK"})
  BY DEF TypeOK
<1>2. \A b \in Boards : /\ Elems(frames[b]) \subseteq Frame
                        /\ Elems(answers[b]) \subseteq {"ACK", "NACK"}
  <2> TAKE b \in Boards
  <2>1. Elems(frames[b]) \subseteq Frame
    BY <1>1, QueueLemma
  <2>2. Elems(answers[b]) \subseteq {"ACK", "NACK"}
    BY <1>1, QueueLemma
  <2>3. QED
    BY <2>1, <2>2
<1>3. \A f \in Frame : f.by \in Alerts => f.cmd \in Commands
  BY NamesAssumption DEF Frame
<1>4. QED
  BY <1>2, <1>3, NamesAssumption DEF TypeOK

\* A step that only reads answers, or gives up waiting for one, keeps everything.
LEMMA QuietStep ==
  ASSUME Inv, TypeOK',
         UNCHANGED <<phase, board, acked, frames, display, ran, crowded>>,
         \A b \in Boards : Elems(answers'[b]) \subseteq Elems(answers[b]),
         \A t \in Alerts : step'[t] = "wait" => step[t] = "wait"
  PROVE  Inv'
<1>1. OrderInv'
  BY DEF Inv, OrderInv, Started
<1>2. AloneInv'
  BY DEF Inv, AloneInv, Active
<1>3. FramesInv'
  BY DEF Inv, FramesInv, Mine, Active, Own
<1>4. AnswersInv'
  BY DEF Inv, AnswersInv, Mine, Active
<1>5. DisplayInv'
  BY DEF Inv, DisplayInv, Mine, Active
<1>6. DarkInv'
  BY DEF Inv, DarkInv, Clean, Active
<1>7. QED
  BY <1>1, <1>2, <1>3, <1>4, <1>5, <1>6 DEF Inv

\* control_board returns.  Its alert is at most one phase further, so what was
\* on its way to the board may still be so.
LEMMA ReturnStep ==
  ASSUME Inv, NEW t \in Alerts, NEW ok \in BOOLEAN,
         InCall(t), Return(t, ok),
         ok => board[t] \in Boards /\ (t \notin crowded => <<t, phase[t]>> \in ran),
         UNCHANGED <<exited, board, frames, display, detections, syncs, ran, crowded>>,
         answers' \in [Boards -> Seq({"ACK", "NACK"})],
         \A b \in Boards : Elems(answers'[b]) \subseteq Elems(answers[b])
  PROVE  Inv'
<1> DEFINE next == IF phase[t] = "on" THEN "asleep" ELSE "done"
<1>0. TypeOK
  BY DEF Inv
<1>1. /\ phase[t] \in Commands
      /\ phase' = [phase EXCEPT ![t] = next]
      /\ phase'[t] = next
      /\ \A u \in Alerts \ {t} : phase'[u] = phase[u]
  BY <1>0 DEF Return, InCall, TypeOK
<1>2. /\ acked' \in [Alerts -> SUBSET Commands]
      /\ acked'[t] = IF ok THEN acked[t] \cup {phase[t]} ELSE acked[t]
      /\ \A u \in Alerts \ {t} : acked'[u] = acked[u]
  BY <1>0, <1>1 DEF Return, TypeOK
<1>3. /\ step'[t] = "send"
      /\ \A u \in Alerts \ {t} : step'[u] = step[u]
      /\ step' \in [Alerts -> {"send", "wait"}]
  BY <1>0 DEF Return, TypeOK
<1>4. phase' \in [Alerts -> {"idle", "on", "asleep", "off", "done"}]
  BY <1>0, <1>1 DEF TypeOK
<1>5. TypeOK'
  <2>1. attempt' \in [Alerts -> 0..(Retries - 1)] /\ deaf' \in [Alerts -> BOOLEAN]
    BY <1>0, RetriesAssumption DEF Return, TypeOK
  <2>2. \A u \in Alerts : step'[u] = "wait" => InCall(u)' /\ board'[u] \in Boards
    BY <1>0, <1>1, <1>3 DEF InCall, TypeOK
  <2>3. QED
    BY <1>0, <1>2, <1>3, <1>4, <2>1, <2>2 DEF TypeOK
<1>6. \A u \in Alerts : Active(u)' => Active(u)
  BY <1>1 DEF Active, Commands
<1>7. \A u \in Alerts : \A c \in Commands : Started(u, c) => Started(u, c)'
  BY <1>0, <1>1 DEF Started, After, Commands
<1>8. OrderInv'
  <2>1. \A b \in Boards : \A f \in Elems(frames'[b]) :
          f.by \in Alerts => Started(f.by, f.cmd)' /\ board'[f.by] = b
    <3> SUFFICES ASSUME NEW b \in Boards, NEW f \in Elems(frames[b]), f.by \in Alerts
                 PROVE  Started(f.by, f.cmd)' /\ board[f.by] = b
      OBVIOUS
    <3>1. Started(f.by, f.cmd) /\ board[f.by] = b
      BY DEF Inv, OrderInv
    <3>2. f.cmd \in Commands
      BY <1>0, TypesLemma
    <3>3. QED
      BY <1>7, <3>1, <3>2
  <2>2. \A k \in ran' : Started(k[1], k[2])'
    BY <1>0, <1>7 DEF Inv, OrderInv, TypeOK
  <2>3. \A u \in Alerts : phase'[u] = "idle" => board'[u] = NoBoard
    BY <1>1 DEF Inv, OrderInv
  <2>4. \A u \in Alerts : \A c \in acked'[u] : phase'[u] \in After(c) /\ board'[u] \in Boards
    <3> SUFFICES ASSUME NEW u \in Alerts, NEW c \in acked'[u]
                 PROVE  phase'[u] \in After(c) /\ board[u] \in Boards
      OBVIOUS
    <3>1. CASE c \in acked[u]
      <4>1. phase[u] \in After(c) /\ board[u] \in Boards
        BY <3>1 DEF Inv, OrderInv
      <4>2. phase'[u] \in After(c)
        BY <1>1, <4>1 DEF After, Commands
      <4>3. QED
        BY <4>1, <4>2
    <3>2. CASE c \notin acked[u]
      <4>1. u = t /\ c = phase[t] /\ ok
        BY <1>2, <3>2
      <4>2. QED
        BY <1>1, <4>1 DEF After, Commands
    <3>3. QED
      BY <3>1, <3>2
  <2>5. QED
    BY <2>1, <2>2, <2>3, <2>4 DEF OrderInv
<1>9. AloneInv'
  BY <1>6 DEF Inv, AloneInv
<1>10. FramesInv'
  <2> SUFFICES ASSUME NEW u \in Alerts, Mine(u)', NEW f \in Elems(frames[board[u]])
               PROVE  Own(u, f)'
    BY DEF FramesInv
  <2>1. Own(u, f)
    BY <1>6 DEF Inv, FramesInv, Mine
  <2>2. CASE u = t
    BY <1>1, <2>1, <2>2 DEF Own, Mine, Active, Commands
  <2>3. CASE u # t
    BY <1>1, <2>1, <2>3 DEF Own
  <2>4. QED
    BY <2>2, <2>3
<1>11. AnswersInv'
  <2> SUFFICES ASSUME NEW u \in Alerts, Mine(u)', step'[u] = "wait",
                      "ACK" \in Elems(answers'[board[u]])
               PROVE  <<u, phase'[u]>> \in ran
    BY DEF AnswersInv
  <2>1. u # t /\ Mine(u) /\ step[u] = "wait" /\ "ACK" \in Elems(answers[board[u]])
    BY <1>3, <1>6 DEF Mine
  <2>2. QED
    BY <1>1, <2>1 DEF Inv, AnswersInv
<1>12. DisplayInv'
  <2> SUFFICES ASSUME NEW u \in Alerts, Mine(u)'
               PROVE  /\ <<u, phase'[u]>> \in ran => display[board[u]] = phase'[u]
                      /\ phase'[u] = "asleep" /\ "on" \in acked'[u] => display[board[u]] = "on"
    BY DEF DisplayInv
  <2>1. Mine(u)
    BY <1>6 DEF Mine
  <2>2. CASE u = t
    <3>1. phase[t] = "on" /\ phase'[t] = "asleep"
      BY <1>1, <2>2 DEF Mine, Active, Commands
    <3>2. <<t, "asleep">> \notin ran
      BY <1>0 DEF TypeOK, Commands
    <3>3. "on" \notin acked[t]
      BY <3>1 DEF Inv, OrderInv, After
    <3>4. "on" \in acked'[t] => <<t, "on">> \in ran
      BY <1>2, <2>1, <2>2, <3>1, <3>3 DEF Mine
    <3>5. QED
      BY <2>1, <2>2, <3>1, <3>2, <3>4 DEF Inv, DisplayInv
  <2>3. CASE u # t
    BY <1>1, <1>2, <2>1, <2>3 DEF Inv, DisplayInv
  <2>4. QED
    BY <2>2, <2>3
<1>13. DarkInv'
  <2> SUFFICES ASSUME NEW b \in Boards, Clean(b)'
               PROVE  /\ (\A u \in Alerts : board[u] = b => ~Active(u)') =>
                            \A f \in Elems(frames[b]) : f.cmd # "on"
                      /\ display[b] = "on" =>
                            \E u \in Alerts :
                              /\ board[u] = b
                              /\ Active(u)' \/ (phase'[u] = "done" /\ "off" \notin acked'[u])
    BY DEF DarkInv
  <2>1. Clean(b)
    BY DEF Clean
  <2>2. ASSUME \A u \in Alerts : board[u] = b => ~Active(u)', NEW f \in Elems(frames[b])
        PROVE  f.cmd # "on"
    <3>1. CASE board[t] = b
      <4>1. phase[t] = "off"
        BY <1>1, <2>2, <3>1 DEF Active, Commands
      <4>2. Mine(t)
        BY <2>1, <3>1, <4>1 DEF Mine, Active, Clean
      <4>3. Own(t, f)
        BY <3>1, <4>2 DEF Inv, FramesInv
      <4>4. QED
        BY <4>1, <4>3 DEF Own
    <3>2. CASE board[t] # b
      <4>1. \A u \in Alerts : board[u] = b => ~Active(u)
        BY <1>1, <2>2, <3>2 DEF Active
      <4>2. QED
        BY <2>1, <4>1 DEF Inv, DarkInv
    <3>3. QED
      BY <3>1, <3>2
  <2>3. ASSUME display[b] = "on"
        PROVE  \E u \in Alerts :
                 /\ board[u] = b
                 /\ Active(u)' \/ (phase'[u] = "done" /\ "off" \notin acked'[u])
    <3>1. PICK u \in Alerts : /\ board[u] = b
                              /\ Active(u) \/ (phase[u] = "done" /\ "off" \notin acked[u])
      BY <2>1, <2>3 DEF Inv, DarkInv
    <3>2. CASE u # t
      BY <1>1, <1>2, <3>1, <3>2 DEF Active
    <3>3. CASE u = t /\ phase[t] = "on"
      BY <1>1, <3>1, <3>3 DEF Active
    <3>4. CASE u = t /\ phase[t] = "off"
      <4>1. Mine(t)
        BY <2>1, <3>1, <3>4 DEF Mine, Active, Clean
      <4>2. "off" \notin acked[t]
        BY <3>4 DEF Inv, OrderInv, After
      <4>3. ~ ok
        BY <2>3, <3>1, <3>4, <4>1 DEF Inv, DisplayInv, Mine
      <4>4. QED
        BY <1>1, <1>2, <3>1, <3>4, <4>2, <4>3
    <3>5. QED
      BY <1>1, <3>2, <3>3, <3>4 DEF Commands
  <2>4. QED
    BY <2>2, <2>3
<1>14. QED
  BY <1>5, <1>8, <1>9, <1>10, <1>11, <1>12, <1>13 DEF Inv

\* The board takes a frame, and carries it out or not.
LEMMA BoardLemma ==
  ASSUME Inv, NEW b \in Boards, BoardStep(b)
  PROVE  Inv'
<1> DEFINE f == Head(frames[b])
<1> HIDE DEF f
<1>0. TypeOK /\ frames[b] # <<>>
  BY DEF Inv, BoardStep, BoardRuns, BoardMisses
<1>1. /\ f \in Frame
      /\ f \in Elems(frames[b])
      /\ Tail(frames[b]) \in Seq(Frame)
      /\ Elems(Tail(frames[b])) \subseteq Elems(frames[b])
  <2>1. frames[b] \in Seq(Frame)
    BY <1>0 DEF TypeOK
  <2>2. QED
    BY <1>0, <2>1, QueueLemma DEF f
<1>2. /\ frames' = [frames EXCEPT ![b] = Tail(frames[b])]
      /\ UNCHANGED <<exited, phase, step, board, attempt, deaf, acked, detections, syncs, crowded>>
  BY DEF BoardStep, BoardRuns, BoardMisses
<1>3. /\ frames' \in [Boards -> Seq(Frame)]
      /\ \A a \in Boards : Elems(frames'[a]) \subseteq Elems(frames[a])
  BY <1>0, <1>1, <1>2 DEF TypeOK
<1>4. /\ answers' \in [Boards -> Seq({"ACK", "NACK"})]
      /\ \A a \in Boards \ {b} : answers'[a] = answers[a]
  <2>1. answers[b] \in Seq({"ACK", "NACK"})
    BY <1>0 DEF TypeOK
  <2>2. /\ Append(answers[b], "ACK") \in Seq({"ACK", "NACK"})
        /\ Append(answers[b], "NACK") \in Seq({"ACK", "NACK"})
    BY <2>1, QueueLemma
  <2>3. \/ answers' = answers
        \/ answers' = [answers EXCEPT ![b] = Append(answers[b], "ACK")]
        \/ answers' = [answers EXCEPT ![b] = Append(answers[b], "NACK")]
    BY DEF BoardStep, BoardRuns, BoardMisses
  <2>4. answers \in [Boards -> Seq({"ACK", "NACK"})]
    BY <1>0 DEF TypeOK
  <2>5. QED
    BY <2>2, <2>3, <2>4
<1>5. \/ /\ f.cmd \in Commands
         /\ display' = [display EXCEPT ![b] = f.cmd]
         /\ ran' = ran \cup {<<f.by, f.cmd>>}
      \/ /\ f.cmd \notin Commands
         /\ UNCHANGED <<display, ran>>
      \/ /\ UNCHANGED <<display, ran>>
         /\ "ACK" \in Elems(answers'[b]) => "ACK" \in Elems(answers[b])
  <2>1. CASE BoardRuns(b)
    BY <2>1 DEF BoardRuns, f
  <2>2. CASE BoardMisses(b)
    <3>1. Elems(answers'[b]) \subseteq Elems(answers[b]) \cup {"NACK"}
      <4>1. answers[b] \in Seq({"ACK", "NACK"})
        BY <1>0 DEF TypeOK
      <4>2. Elems(Append(answers[b], "NACK")) = Elems(answers[b]) \cup {"NACK"}
        BY <4>1, QueueLemma
      <4>3. QED
        BY <1>0, <2>2, <4>2 DEF BoardMisses, TypeOK
    <3>2. QED
      BY <2>2, <3>1 DEF BoardMisses
  <2>3. QED
    BY <2>1, <2>2 DEF BoardStep
<1>6. f.cmd \in Commands => f.by \in Alerts
  BY <1>1 DEF Frame, Commands
<1>7. TypeOK'
  <2>1. display' \in [Boards -> Commands] /\ ran' \subseteq Alerts \X Commands
    <3>1. display \in [Boards -> Commands] /\ ran \subseteq Alerts \X Commands
      BY <1>0 DEF TypeOK
    <3>2. display' \in [Boards -> Commands]
      BY <1>5, <3>1
    <3>3. ran' \subseteq Alerts \X Commands
      BY <1>5, <1>6, <3>1
    <3>4. QED
      BY <3>2, <3>3
  <2>2. QED
    BY <1>0, <1>2, <1>3, <1>4, <2>1 DEF TypeOK, InCall
<1>8. OrderInv'
  <2>1. \A a \in Boards : \A g \in Elems(frames'[a]) :
          g.by \in Alerts => Started(g.by, g.cmd)' /\ board'[g.by] = a
    BY <1>2, <1>3 DEF Inv, OrderInv, Started
  <2>2. \A k \in ran' : Started(k[1], k[2])'
    <3> SUFFICES ASSUME NEW k \in ran' PROVE Started(k[1], k[2])
      BY <1>2 DEF Started
    <3>1. CASE k \in ran
      BY <3>1 DEF Inv, OrderInv
    <3>2. CASE k \notin ran
      <4>1. k = <<f.by, f.cmd>> /\ f.by \in Alerts
        BY <1>5, <1>6, <3>2
      <4>2. Started(f.by, f.cmd)
        BY <1>1, <4>1 DEF Inv, OrderInv
      <4>3. QED
        BY <4>1, <4>2
    <3>3. QED
      BY <3>1, <3>2
  <2>3. QED
    BY <1>2, <2>1, <2>2 DEF Inv, OrderInv
<1>9. AloneInv'
  BY <1>2 DEF Inv, AloneInv, Active
<1>10. FramesInv'
  BY <1>2, <1>3 DEF Inv, FramesInv, Mine, Own, Active
\* The frame is one of an undisturbed alert's own, so that it has carried out
\* just the command the alert is at.
<1>11. ASSUME NEW t \in Alerts, Mine(t), board[t] = b
       PROVE  /\ f.cmd \in Commands => /\ f.by = t
                                       /\ f.cmd = IF phase[t] = "off" THEN "off" ELSE "on"
              /\ f.cmd \notin Commands => phase[t] = "asleep"
  <2>1. Own(t, f)
    BY <1>1, <1>11 DEF Inv, FramesInv
  <2>2. QED
    BY <1>6, <2>1, NamesAssumption DEF Own, Commands
<1>12. AnswersInv'
  <2> SUFFICES ASSUME NEW t \in Alerts, Mine(t)', step[t] = "wait",
                      "ACK" \in Elems(answers'[board[t]])
               PROVE  <<t, phase[t]>> \in ran'
    BY <1>2 DEF AnswersInv
  <2>1. Mine(t) /\ phase[t] \in Commands /\ ran \subseteq ran'
    BY <1>0, <1>2, <1>5 DEF Mine, Active, TypeOK, InCall
  <2>2. CASE board[t] # b
    BY <1>4, <2>1, <2>2 DEF Inv, AnswersInv, Mine
  <2>3. CASE board[t] = b
    BY <1>5, <1>11, <2>1, <2>3 DEF Inv, AnswersInv, Commands
  <2>4. QED
    BY <2>2, <2>3
<1>13. DisplayInv'
  <2> SUFFICES ASSUME NEW t \in Alerts, Mine(t)'
               PROVE  /\ <<t, phase[t]>> \in ran' => display'[board[t]] = phase[t]
                      /\ phase[t] = "asleep" /\ "on" \in acked[t] => display'[board[t]] = "on"
    BY <1>2 DEF DisplayInv
  <2>1. Mine(t) /\ display \in [Boards -> Commands]
    BY <1>0, <1>2 DEF Mine, Active, TypeOK
  <2>2. /\ <<t, phase[t]>> \in ran => display[board[t]] = phase[t]
        /\ phase[t] = "asleep" /\ "on" \in acked[t] => display[board[t]] = "on"
    BY <2>1 DEF Inv, DisplayInv
  <2>3. CASE UNCHANGED <<display, ran>>
    BY <2>2, <2>3
  <2>4. CASE /\ f.cmd \in Commands
             /\ display' = [display EXCEPT ![b] = f.cmd]
             /\ ran' = ran \cup {<<f.by, f.cmd>>}
    <3>1. CASE board[t] = b
      BY <1>11, <2>1, <2>2, <2>4, <3>1 DEF Mine, Active, Commands
    <3>2. CASE board[t] # b
      <4>1. display'[board[t]] = display[board[t]]
        BY <2>1, <2>4, <3>2 DEF Mine
      <4>2. f.by # t /\ (<<t, phase[t]>> \in ran' => <<t, phase[t]>> \in ran)
        BY <1>1, <2>4, <3>2 DEF Inv, OrderInv
      <4>3. QED
        BY <2>2, <4>1, <4>2
    <3>3. QED
      BY <3>1, <3>2
  <2>5. QED
    BY <1>5, <2>3, <2>4
<1>14. DarkInv'
  <2> SUFFICES ASSUME NEW a \in Boards, Clean(a)'
               PROVE  /\ (\A u \in Alerts : board[u] = a => ~Active(u)) =>
                            \A g \in Elems(frames'[a]) : g.cmd # "on"
                      /\ display'[a] = "on" =>
                            \E u \in Alerts :
                              /\ board[u] = a
                              /\ Active(u) \/ (phase[u] = "done" /\ "off" \notin acked[u])
    BY <1>2 DEF DarkInv, Active
  <2>1. Clean(a)
    BY <1>2 DEF Clean
  <2>2. /\ (\A u \in Alerts : board[u] = a => ~Active(u)) =>
             \A g \in Elems(frames[a]) : g.cmd # "on"
        /\ display[a] = "on" =>
             \E u \in Alerts :
               /\ board[u] = a
               /\ Active(u) \/ (phase[u] = "done" /\ "off" \notin acked[u])
    BY <2>1 DEF Inv, DarkInv
  <2>3. display'[a] = "on" => display[a] = "on" \/ (a = b /\ f.cmd = "on")
    BY <1>0, <1>5 DEF TypeOK
  <2>4. a = b /\ f.cmd = "on" => \E u \in Alerts : board[u] = a /\ Active(u)
    BY <1>1, <2>2
  <2>5. QED
    BY <1>3, <2>2, <2>3, <2>4
<1>15. QED
  BY <1>7, <1>8, <1>9, <1>10, <1>12, <1>13, <1>14 DEF Inv

\* A thread is started for an alert.  Whoever is at the same board is crowded.
LEMMA RaiseLemma ==
  ASSUME Inv, NEW t \in Alerts, NEW b \in Boards \cup {NoBoard}, Raise(t, b)
  PROVE  Inv'
<1> DEFINE others == {u \in Alerts : Active(u) /\ board[u] = b}
<1>0. TypeOK /\ phase[t] = "idle"
  BY DEF Inv, Raise
<1>1. /\ phase'[t] = "on"
      /\ \A u \in Alerts \ {t} : phase'[u] = phase[u]
      /\ phase' \in [Alerts -> {"idle", "on", "asleep", "off", "done"}]
      /\ board'[t] = b
      /\ \A u \in Alerts \ {t} : board'[u] = board[u]
      /\ board' \in [Alerts -> Boards \cup {NoBoard}]
  BY <1>0 DEF Raise, TypeOK
<1>2. UNCHANGED <<exited, step, attempt, deaf, acked, frames, answers, display, detections, syncs, ran>>
  BY DEF Raise, line
<1>3. /\ crowded' \subseteq Alerts
      /\ crowded \cup others \subseteq crowded'
      /\ others # {} \/ (b \in Boards /\ frames[b] # <<>>) => t \in crowded'
  BY <1>0 DEF Raise, TypeOK
<1> HIDE DEF others
<1>4. /\ board[t] = NoBoard /\ NoBoard \notin Boards
      /\ step[t] # "wait"
      /\ acked[t] = {}
      /\ \A c \in Commands : ~Started(t, c)
  <2>1. board[t] = NoBoard /\ NoBoard \notin Boards /\ step[t] # "wait"
    BY <1>0, NamesAssumption DEF Inv, OrderInv, TypeOK, InCall, Commands
  <2>2. \A c \in Commands : ~Started(t, c)
    BY <1>0 DEF Started, After, Commands
  <2>3. acked[t] = {}
    BY <1>0, <2>1 DEF Inv, OrderInv
  <2>4. QED
    BY <2>1, <2>2, <2>3
<1>5. TypeOK'
  BY <1>0, <1>1, <1>2, <1>3, <1>4 DEF TypeOK, InCall
<1>6. OrderInv'
  <2>1. \A a \in Boards : \A f \in Elems(frames[a]) :
          f.by \in Alerts => f.by # t /\ Started(f.by, f.cmd) /\ board[f.by] = a
    <3> SUFFICES ASSUME NEW a \in Boards, NEW f \in Elems(frames[a]), f.by \in Alerts
                 PROVE  f.by # t /\ Started(f.by, f.cmd) /\ board[f.by] = a
      OBVIOUS
    <3>1. Started(f.by, f.cmd) /\ board[f.by] = a
      BY DEF Inv, OrderInv
    <3>2. f.cmd \in Commands
      BY <1>0, TypesLemma
    <3>3. QED
      BY <1>4, <3>1, <3>2
  <2>2. \A k \in ran : k[1] # t /\ k[1] \in Alerts /\ Started(k[1], k[2])
    <3> SUFFICES ASSUME NEW k \in ran PROVE k[1] # t /\ k[1] \in Alerts /\ Started(k[1], k[2])
      OBVIOUS
    <3>1. k[1] \in Alerts /\ k[2] \in Commands
      BY <1>0 DEF TypeOK
    <3>2. Started(k[1], k[2])
      BY DEF Inv, OrderInv
    <3>3. QED
      BY <1>4, <3>1, <3>2
  <2>3. \A u \in Alerts \ {t} : \A c : Started(u, c)' <=> Started(u, c)
    BY <1>1 DEF Started
  <2>4. \A u \in Alerts : phase'[u] = "idle" => board'[u] = NoBoard
    BY <1>1 DEF Inv, OrderInv
  <2>5. \A u \in Alerts : \A c \in acked'[u] : phase'[u] \in After(c) /\ board'[u] \in Boards
    BY <1>1, <1>2, <1>4 DEF Inv, OrderInv
  <2>6. \A a \in Boards : \A f \in Elems(frames'[a]) :
          f.by \in Alerts => Started(f.by, f.cmd)' /\ board'[f.by] = a
    BY <1>1, <1>2, <2>1, <2>3
  <2>7. \A k \in ran' : Started(k[1], k[2])'
    BY <1>2, <2>2, <2>3
  <2>8. QED
    BY <2>4, <2>5, <2>6, <2>7 DEF OrderInv
<1>7. \A u \in Alerts \ {t} : Active(u)' <=> Active(u)
  BY <1>1 DEF Active
<1>8. AloneInv'
  <2> SUFFICES ASSUME NEW u \in Alerts, NEW v \in Alerts, Active(u)', Active(v)',
                      board'[u] = board'[v], u \notin crowded', u # v
               PROVE  FALSE
    BY DEF AloneInv
  <2>1. CASE u # t /\ v # t
    BY <1>1, <1>3, <1>7, <2>1 DEF Inv, AloneInv
  <2>2. CASE u = t
    <3>1. v \in others
      BY <1>1, <1>7, <2>2 DEF others
    <3>2. QED
      BY <1>3, <2>2, <3>1
  <2>3. CASE v = t
    BY <1>1, <1>3, <1>7, <2>3 DEF others
  <2>4. QED
    BY <2>1, <2>2, <2>3
<1>9. \A u \in Alerts \ {t} : Mine(u)' => Mine(u)
  BY <1>1, <1>3, <1>7 DEF Mine
<1>10. FramesInv'
  <2> SUFFICES ASSUME NEW u \in Alerts, Mine(u)', NEW f \in Elems(frames[board'[u]])
               PROVE  Own(u, f)'
    BY <1>2 DEF FramesInv
  <2>1. CASE u = t
    <3>1. b \in Boards /\ t \notin crowded'
      BY <1>1, <2>1 DEF Mine
    <3>2. frames[b] = <<>>
      BY <1>3, <3>1
    <3>3. Elems(frames[b]) = {}
      BY <3>2 DEF Elems
    <3>4. QED
      BY <1>1, <2>1, <3>3
  <2>2. CASE u # t
    BY <1>1, <1>9, <2>2 DEF Inv, FramesInv, Own
  <2>3. QED
    BY <2>1, <2>2
<1>11. AnswersInv'
  BY <1>1, <1>2, <1>4, <1>9 DEF Inv, AnswersInv
<1>12. DisplayInv'
  <2> SUFFICES ASSUME NEW u \in Alerts, Mine(u)'
               PROVE  /\ <<u, phase'[u]>> \in ran => display[board'[u]] = phase'[u]
                      /\ phase'[u] = "asleep" /\ "on" \in acked[u] => display[board'[u]] = "on"
    BY <1>2 DEF DisplayInv
  <2>1. CASE u = t
    <3>1. <<t, "on">> \notin ran
      BY <1>4 DEF Inv, OrderInv, Commands
    <3>2. QED
      BY <1>1, <2>1, <3>1
  <2>2. CASE u # t
    BY <1>1, <1>9, <2>2 DEF Inv, DisplayInv
  <2>3. QED
    BY <2>1, <2>2
<1>13. DarkInv'
  <2> SUFFICES ASSUME NEW a \in Boards, Clean(a)'
               PROVE  /\ (\A u \in Alerts : board'[u] = a => ~Active(u)') =>
                            \A f \in Elems(frames[a]) : f.cmd # "on"
                      /\ display[a] = "on" =>
                            \E u \in Alerts :
                              /\ board'[u] = a
                              /\ Active(u)' \/ (phase'[u] = "done" /\ "off" \notin acked[u])
    BY <1>2 DEF DarkInv
  <2>1. CASE a = b
    <3>1. Active(t)' /\ board'[t] = a
      BY <1>1, <2>1 DEF Active
    <3>2. QED
      BY <3>1
  <2>2. CASE a # b
    <3>1. \A u \in Alerts : (board'[u] = a <=> board[u] = a) /\ (board[u] = a => u # t)
      BY <1>1, <1>4, <2>2
    <3>2. Clean(a)
      BY <1>3, <3>1 DEF Clean
    <3>3. /\ (\A u \in Alerts : board[u] = a => ~Active(u)) =>
               \A f \in Elems(frames[a]) : f.cmd # "on"
          /\ display[a] = "on" =>
               \E u \in Alerts :
                 /\ board[u] = a
                 /\ Active(u) \/ (phase[u] = "done" /\ "off" \notin acked[u])
      BY <3>2 DEF Inv, DarkInv
    <3>4. QED
      BY <1>1, <1>7, <3>1, <3>3
  <2>3. QED
    BY <2>1, <2>2
<1>14. QED
  BY <1>5, <1>6, <1>8, <1>10, <1>11, <1>12, <1>13 DEF Inv

\* An attempt to send a command: the frame is the alert's own, and with the input
\* queue flushed no answer to an earlier command is left.
LEMMA SendLemma ==
  ASSUME Inv, NEW t \in Alerts, SendFrame(t)
  PROVE  Inv'
<1> DEFINE b == board[t]
           f == [by |-> t, cmd |-> phase[t]]
<1>0. TypeOK /\ InCall(t) /\ b \in Boards
  BY DEF Inv, SendFrame
<1>1. f \in Frame /\ f.by = t /\ f.cmd = phase[t] /\ phase[t] \in Commands
  BY <1>0 DEF InCall, Frame
<1>2. /\ frames' = [frames EXCEPT ![b] = Append(frames[b], f)]
      /\ answers' = [answers EXCEPT ![b] = <<>>]
      /\ step' = [step EXCEPT ![t] = "wait"]
      /\ deaf' = [deaf EXCEPT ![t] = FALSE]
      /\ UNCHANGED <<exited, phase, board, attempt, acked, display, detections, syncs, ran, crowded>>
  BY DEF SendFrame, Flushed
<1> HIDE DEF f
<1>3. /\ frames' \in [Boards -> Seq(Frame)]
      /\ Elems(frames'[b]) = Elems(frames[b]) \cup {f}
      /\ \A a \in Boards \ {b} : frames'[a] = frames[a]
  <2>1. frames \in [Boards -> Seq(Frame)] /\ frames[b] \in Seq(Frame)
    BY <1>0 DEF TypeOK
  <2>2. /\ Append(frames[b], f) \in Seq(Frame)
        /\ Elems(Append(frames[b], f)) = Elems(frames[b]) \cup {f}
    BY <1>1, <2>1, QueueLemma
  <2>3. QED
    BY <1>0, <1>2, <2>1, <2>2
<1>4. /\ answers' \in [Boards -> Seq({"ACK", "NACK"})]
      /\ Elems(answers'[b]) = {}
      /\ \A a \in Boards \ {b} : answers'[a] = answers[a]
  <2>1. <<>> \in Seq({"ACK", "NACK"}) /\ Elems(<<>>) = {}
    BY DEF Elems
  <2>2. answers \in [Boards -> Seq({"ACK", "NACK"})]
    BY <1>0 DEF TypeOK
  <2>3. QED
    BY <1>0, <1>2, <2>1, <2>2
<1>5. TypeOK'
  <2>1. step' \in [Alerts -> {"send", "wait"}] /\ deaf' \in [Alerts -> BOOLEAN]
    BY <1>0, <1>2 DEF TypeOK
  <2>2. \A u \in Alerts : step'[u] = "wait" => InCall(u)' /\ board'[u] \in Boards
    BY <1>0, <1>2 DEF TypeOK, InCall
  <2>3. QED
    BY <1>0, <1>2, <1>3, <1>4, <2>1, <2>2 DEF TypeOK
<1>6. OrderInv'
  <2>1. Started(t, f.cmd)
    BY <1>1 DEF Started
  <2>2. \A a \in Boards : \A g \in Elems(frames'[a]) :
          g.by \in Alerts => Started(g.by, g.cmd) /\ board[g.by] = a
    <3> SUFFICES ASSUME NEW a \in Boards, NEW g \in Elems(frames'[a]), g.by \in Alerts
                 PROVE  Started(g.by, g.cmd) /\ board[g.by] = a
      OBVIOUS
    <3>1. g \in Elems(frames[a]) \/ (g = f /\ a = b)
      BY <1>3
    <3>2. CASE g \in Elems(frames[a])
      BY <3>2 DEF Inv, OrderInv
    <3>3. CASE g = f /\ a = b
      BY <1>1, <2>1, <3>3
    <3>4. QED
      BY <3>1, <3>2, <3>3
  <2>3. QED
    BY <1>2, <2>2 DEF Inv, OrderInv, Started
<1>7. AloneInv'
  BY <1>2 DEF Inv, AloneInv, Active
<1>8. ASSUME NEW u \in Alerts, Mine(u)'
      PROVE  Mine(u) /\ (board[u] = b => u = t)
  <2>1. Mine(u)
    BY <1>2, <1>8 DEF Mine, Active
  <2>2. Active(t)
    BY <1>0 DEF InCall, Active, Commands
  <2>3. QED
    BY <2>1, <2>2 DEF Inv, AloneInv, Mine
<1>9. FramesInv'
  <2> SUFFICES ASSUME NEW u \in Alerts, Mine(u)', NEW g \in Elems(frames'[board[u]])
               PROVE  Own(u, g)
    BY <1>2 DEF FramesInv, Own
  <2>1. CASE g \in Elems(frames[board[u]])
    BY <1>8, <2>1 DEF Inv, FramesInv
  <2>2. CASE g \notin Elems(frames[board[u]])
    <3>1. g = f /\ board[u] = b
      BY <1>3, <1>8, <2>2 DEF Mine
    <3>2. QED
      BY <1>1, <1>8, <3>1 DEF Own, Commands
  <2>3. QED
    BY <2>1, <2>2
<1>10. AnswersInv'
  <2> SUFFICES ASSUME NEW u \in Alerts, Mine(u)', step'[u] = "wait",
                      "ACK" \in Elems(answers'[board[u]])
               PROVE  <<u, phase[u]>> \in ran
    BY <1>2 DEF AnswersInv
  <2>1. board[u] # b /\ Mine(u)
    BY <1>4, <1>8
  <2>2. step[u] = "wait" /\ answers'[board[u]] = answers[board[u]]
    BY <1>0, <1>2, <1>4, <2>1 DEF Mine, TypeOK
  <2>3. QED
    BY <2>1, <2>2 DEF Inv, AnswersInv
<1>11. DisplayInv'
  BY <1>2, <1>8 DEF Inv, DisplayInv
<1>12. DarkInv'
  <2>1. Active(t)
    BY <1>0 DEF InCall, Active, Commands
  <2>2. ASSUME NEW a \in Boards, Clean(a), \A u \in Alerts : board[u] = a => ~Active(u)
        PROVE  \A g \in Elems(frames'[a]) : g.cmd # "on"
    <3>1. a # b
      BY <2>1, <2>2
    <3>2. QED
      BY <1>3, <2>2, <3>1 DEF Inv, DarkInv
  <2>3. QED
    BY <1>2, <2>2 DEF Inv, DarkInv, Clean, Active
<1>13. QED
  BY <1>5, <1>6, <1>7, <1>9, <1>10, <1>11, <1>12 DEF Inv

\* The five seconds are over: nothing is on its way to the board any more.
LEMMA WakeLemma ==
  ASSUME Inv, NEW t \in Alerts, Wake(t)
  PROVE  Inv'
<1>0. TypeOK /\ phase[t] = "asleep" /\ step[t] # "wait"
  BY DEF Inv, Wake, TypeOK, InCall, Commands
<1>1. /\ phase'[t] = "off"
      /\ \A u \in Alerts \ {t} : phase'[u] = phase[u]
      /\ phase' \in [Alerts -> {"idle", "on", "asleep", "off", "done"}]
      /\ UNCHANGED <<exited, step, board, attempt, deaf, acked, frames, answers, display,
                     detections, syncs, ran, crowded>>
  BY <1>0 DEF Wake, TypeOK, line
<1>2. board[t] \in Boards => Elems(frames[board[t]]) = {}
  BY DEF Wake, Elems
<1>3. TypeOK'
  <2>1. \A u \in Alerts : step'[u] = "wait" => InCall(u)' /\ board'[u] \in Boards
    BY <1>0, <1>1 DEF TypeOK, InCall
  <2>2. QED
    BY <1>0, <1>1, <2>1 DEF TypeOK
<1>4. \A u \in Alerts : Active(u)' <=> Active(u)
  BY <1>0, <1>1 DEF Active
<1>5. \A u \in Alerts : \A c \in Commands : Started(u, c) => Started(u, c)'
  BY <1>0, <1>1 DEF Started, After, Commands
<1>6. OrderInv'
  <2>1. \A a \in Boards : \A f \in Elems(frames[a]) :
          f.by \in Alerts => Started(f.by, f.cmd)' /\ board[f.by] = a
    <3> SUFFICES ASSUME NEW a \in Boards, NEW f \in Elems(frames[a]), f.by \in Alerts
                 PROVE  Started(f.by, f.cmd)' /\ board[f.by] = a
      OBVIOUS
    <3>1. Started(f.by, f.cmd) /\ board[f.by] = a
      BY DEF Inv, OrderInv
    <3>2. f.cmd \in Commands
      BY <1>0, TypesLemma
    <3>3. QED
      BY <1>5, <3>1, <3>2
  <2>2. \A k \in ran : Started(k[1], k[2])'
    BY <1>0, <1>5 DEF Inv, OrderInv, TypeOK
  <2>3. \A u \in Alerts : \A c \in acked[u] : phase'[u] \in After(c) /\ board[u] \in Boards
    <3> SUFFICES ASSUME NEW u \in Alerts, NEW c \in acked[u]
                 PROVE  phase'[u] \in After(c) /\ board[u] \in Boards
      OBVIOUS
    <3>1. phase[u] \in After(c) /\ board[u] \in Boards
      BY DEF Inv, OrderInv
    <3>2. QED
      BY <1>0, <1>1, <3>1 DEF After
  <2>4. \A u \in Alerts : phase'[u] = "idle" => board[u] = NoBoard
    BY <1>1 DEF Inv, OrderInv
  <2>5. QED
    BY <1>1, <2>1, <2>2, <2>3, <2>4 DEF OrderInv
<1>7. AloneInv'
  BY <1>1, <1>4 DEF Inv, AloneInv
<1>8. \A u \in Alerts : Mine(u)' <=> Mine(u)
  BY <1>1, <1>4 DEF Mine
<1>9. FramesInv'
  <2> SUFFICES ASSUME NEW u \in Alerts, Mine(u), NEW f \in Elems(frames[board[u]])
               PROVE  Own(u, f)'
    BY <1>1, <1>8 DEF FramesInv
  <2>1. u # t
    BY <1>2 DEF Mine
  <2>2. QED
    BY <1>1, <2>1 DEF Inv, FramesInv, Own
<1>10. AnswersInv'
  BY <1>0, <1>1, <1>8 DEF Inv, AnswersInv
<1>11. DisplayInv'
  <2>1. <<t, "off">> \notin ran
    BY <1>0 DEF Inv, OrderInv, Started, After
  <2>2. QED
    BY <1>1, <1>8, <2>1 DEF Inv, DisplayInv
<1>12. DarkInv'
  <2> SUFFICES ASSUME NEW a \in Boards, Clean(a)'
               PROVE  /\ (\A u \in Alerts : board[u] = a => ~Active(u)') =>
                            \A f \in Elems(frames[a]) : f.cmd # "on"
                      /\ display[a] = "on" =>
                            \E u \in Alerts :
                              /\ board[u] = a
                              /\ Active(u)' \/ (phase'[u] = "done" /\ "off" \notin acked[u])
    BY <1>1 DEF DarkInv
  <2>1. Clean(a)
    BY <1>1 DEF Clean
  <2>2. /\ (\A u \in Alerts : board[u] = a => ~Active(u)) =>
             \A f \in Elems(frames[a]) : f.cmd # "on"
        /\ display[a] = "on" =>
             \E u \in Alerts :
               /\ board[u] = a
               /\ Active(u) \/ (phase[u] = "done" /\ "off" \notin acked[u])
    BY <2>1 DEF Inv, DarkInv
  <2>3. \A u \in Alerts : phase[u] = "done" => phase'[u] = "done"
    BY <1>0, <1>1
  <2>4. QED
    BY <1>4, <2>2, <2>3
<1>13. QED
  BY <1>3, <1>6, <1>7, <1>9, <1>10, <1>11, <1>12 DEF Inv

\* send_time writes to a port: alerts that talk to the board are crowded.
LEMMA SyncLemma ==
  ASSUME Inv, NEW b \in Boards, SyncTime(b)
  PROVE  Inv'
<1> DEFINE f == [by |-> TimeSync, cmd |-> "sync"]
<1>0. TypeOK
  BY DEF Inv
<1>1. f \in Frame /\ f.by = TimeSync /\ f.cmd = "sync"
  BY DEF Frame
<1>2. /\ frames' = [frames EXCEPT ![b] = Append(frames[b], f)]
      /\ crowded' = crowded \cup {t \in Alerts : InCall(t) /\ board[t] = b}
      /\ syncs < MaxSync /\ syncs' = syncs + 1
      /\ UNCHANGED <<exited, phase, step, board, attempt, deaf, acked, answers, display,
                     detections, ran>>
  BY DEF SyncTime
<1> HIDE DEF f
<1>3. /\ frames' \in [Boards -> Seq(Frame)]
      /\ Elems(frames'[b]) = Elems(frames[b]) \cup {f}
      /\ \A a \in Boards \ {b} : frames'[a] = frames[a]
  <2>1. frames \in [Boards -> Seq(Frame)] /\ frames[b] \in Seq(Frame)
    BY <1>0 DEF TypeOK
  <2>2. /\ Append(frames[b], f) \in Seq(Frame)
        /\ Elems(Append(frames[b], f)) = Elems(frames[b]) \cup {f}
    BY <1>1, <2>1, QueueLemma
  <2>3. QED
    BY <1>0, <1>2, <2>1, <2>2
<1>4. TypeOK'
  <2>1. syncs' \in 0..MaxSync
    BY <1>0, <1>2, BoundAssumption DEF TypeOK
  <2>2. crowded' \subseteq Alerts
    BY <1>0, <1>2 DEF TypeOK
  <2>3. QED
    BY <1>0, <1>2, <1>3, <2>1, <2>2 DEF TypeOK, InCall
<1>5. OrderInv'
  <2>1. \A a \in Boards : \A g \in Elems(frames'[a]) :
          g.by \in Alerts => Started(g.by, g.cmd) /\ board[g.by] = a
    <3> SUFFICES ASSUME NEW a \in Boards, NEW g \in Elems(frames'[a]), g.by \in Alerts
                 PROVE  Started(g.by, g.cmd) /\ board[g.by] = a
      OBVIOUS
    <3>1. g \in Elems(frames[a])
      BY <1>1, <1>3, NamesAssumption
    <3>2. QED
      BY <3>1 DEF Inv, OrderInv
  <2>2. QED
    BY <1>2, <2>1 DEF Inv, OrderInv, Started
<1>6. AloneInv'
  BY <1>2 DEF Inv, AloneInv, Active
<1>7. \A u \in Alerts : Mine(u)' => Mine(u) /\ (board[u] = b => phase[u] = "asleep")
  BY <1>0, <1>2 DEF Mine, Active, InCall, Commands
<1>8. FramesInv'
  <2> SUFFICES ASSUME NEW u \in Alerts, Mine(u)', NEW g \in Elems(frames'[board[u]])
               PROVE  Own(u, g)
    BY <1>2 DEF FramesInv, Own
  <2>1. CASE g \in Elems(frames[board[u]])
    BY <1>7, <2>1 DEF Inv, FramesInv
  <2>2. CASE g \notin Elems(frames[board[u]])
    <3>1. g = f /\ board[u] = b
      BY <1>3, <1>7, <2>2 DEF Mine
    <3>2. QED
      BY <1>1, <1>7, <3>1 DEF Own
  <2>3. QED
    BY <2>1, <2>2
<1>9. AnswersInv'
  BY <1>2, <1>7 DEF Inv, AnswersInv
<1>10. DisplayInv'
  BY <1>2, <1>7 DEF Inv, DisplayInv
<1>11. DarkInv'
  <2> SUFFICES ASSUME NEW a \in Boards, Clean(a)'
               PROVE  /\ (\A u \in Alerts : board[u] = a => ~Active(u)) =>
                            \A g \in Elems(frames'[a]) : g.cmd # "on"
                      /\ display[a] = "on" =>
                            \E u \in Alerts :
                              /\ board[u] = a
                              /\ Active(u) \/ (phase[u] = "done" /\ "off" \notin acked[u])
    BY <1>2 DEF DarkInv, Active
  <2>1. Clean(a)
    BY <1>2 DEF Clean
  <2>2. \A g \in Elems(frames'[a]) : g \in Elems(frames[a]) \/ g.cmd # "on"
    BY <1>1, <1>3
  <2>3. /\ (\A u \in Alerts : board[u] = a => ~Active(u)) =>
             \A g \in Elems(frames[a]) : g.cmd # "on"
        /\ display[a] = "on" =>
             \E u \in Alerts :
               /\ board[u] = a
               /\ Active(u) \/ (phase[u] = "done" /\ "off" \notin acked[u])
    BY <2>1 DEF Inv, DarkInv
  <2>4. QED
    BY <2>2, <2>3
<1>12. QED
  BY <1>4, <1>5, <1>6, <1>8, <1>9, <1>10, <1>11 DEF Inv

\* The first answer in the input queue is read.
LEMMA TailLemma ==
  ASSUME TypeOK, NEW b \in Boards, answers[b] # <<>>,
         answers' = [answers EXCEPT ![b] = Tail(answers[b])]
  PROVE  /\ answers' \in [Boards -> Seq({"ACK", "NACK"})]
         /\ \A a \in Boards : Elems(answers'[a]) \subseteq Elems(answers[a])
         /\ Head(answers[b]) \in Elems(answers[b])
<1>1. answers \in [Boards -> Seq({"ACK", "NACK"})] /\ answers[b] \in Seq({"ACK", "NACK"})
  BY DEF TypeOK
<1>2. /\ Tail(answers[b]) \in Seq({"ACK", "NACK"})
      /\ Elems(Tail(answers[b])) \subseteq Elems(answers[b])
      /\ Head(answers[b]) \in Elems(answers[b])
  BY <1>1, QueueLemma
<1>3. QED
  BY <1>1, <1>2

\* A call returns in one of three ways: there is no port, a last attempt is over,
\* or an acknowledgement is read.
Returns(t, ok) ==
  /\ InCall(t) /\ Return(t, ok)
  /\ ok => board[t] \in Boards /\ (t \notin crowded => <<t, phase[t]>> \in ran)
  /\ UNCHANGED <<exited, board, frames, display, detections, syncs, ran, crowded>>
  /\ answers' \in [Boards -> Seq({"ACK", "NACK"})]
  /\ \A b \in Boards : Elems(answers'[b]) \subseteq Elems(answers[b])

\* Reading an answer is either the end of a call that the board has carried out,
\* if nobody disturbed it, or leaves the alert waiting.
LEMMA AnswerLemma ==
  ASSUME Inv, NEW t \in Alerts, TakeAnswer(t)
  PROVE  \/ Returns(t, TRUE)
         \/ /\ TypeOK'
            /\ UNCHANGED <<exited, phase, step, board, attempt, acked, frames, display,
                           detections, syncs, ran, crowded>>
            /\ \A b \in Boards : Elems(answers'[b]) \subseteq Elems(answers[b])
<1> DEFINE b == board[t]
<1>1. TypeOK /\ InCall(t) /\ step[t] = "wait" /\ b \in Boards
  BY DEF Inv, TakeAnswer, TypeOK
<1>2. /\ answers[b] # <<>>
      /\ answers' = [answers EXCEPT ![b] = Tail(answers[b])]
      /\ UNCHANGED <<exited, board, frames, display, detections, syncs, ran, crowded>>
  BY DEF TakeAnswer
<1>3. /\ answers' \in [Boards -> Seq({"ACK", "NACK"})]
      /\ \A a \in Boards : Elems(answers'[a]) \subseteq Elems(answers[a])
      /\ Head(answers[b]) \in Elems(answers[b])
  BY <1>1, <1>2, TailLemma
<1>4. CASE Head(answers[b]) = "ACK" /\ Return(t, TRUE)
  <2>1. t \notin crowded => <<t, phase[t]>> \in ran
    BY <1>1, <1>3, <1>4 DEF Inv, AnswersInv, Mine, Active, InCall, Commands
  <2>2. QED
    BY <1>1, <1>2, <1>3, <1>4, <2>1 DEF Returns
<1>5. CASE deaf' = [deaf EXCEPT ![t] = ~deaf[t]] /\ UNCHANGED <<acked, phase, step, attempt>>
  <2>1. deaf' \in [Alerts -> BOOLEAN]
    BY <1>1, <1>5 DEF TypeOK
  <2>2. TypeOK'
    BY <1>1, <1>2, <1>3, <1>5, <2>1 DEF TypeOK, InCall
  <2>3. QED
    BY <1>2, <1>3, <1>5, <2>2
<1>6. QED
  BY <1>4, <1>5 DEF TakeAnswer, Positive

\* The end of an attempt is either the end of the call or leaves the alert ready
\* for the next one.
LEMMA TimeOutLemma ==
  ASSUME Inv, NEW t \in Alerts, TimeOut(t)
  PROVE  \/ Returns(t, FALSE)
         \/ /\ TypeOK'
            /\ UNCHANGED <<exited, phase, board, acked, deaf, frames, answers, display,
                           detections, syncs, ran, crowded>>
            /\ \A u \in Alerts : step'[u] = "wait" => step[u] = "wait"
<1>1. /\ TypeOK /\ InCall(t) /\ step[t] = "wait"
      /\ UNCHANGED <<exited, board, frames, answers, display, detections, syncs, ran, crowded>>
  BY DEF Inv, TimeOut, line
<1>2. CASE AttemptsLeft(t) /\ attempt' = [attempt EXCEPT ![t] = attempt[t] + 1]
           /\ step' = [step EXCEPT ![t] = "send"] /\ UNCHANGED <<acked, phase, deaf>>
  <2>1. attempt[t] + 1 \in 0..(Retries - 1)
    BY <1>1, <1>2, RetriesAssumption DEF AttemptsLeft, TypeOK
  <2>2. attempt' \in [Alerts -> 0..(Retries - 1)]
    BY <1>1, <1>2, <2>1 DEF TypeOK
  <2>3. /\ step' \in [Alerts -> {"send", "wait"}]
        /\ \A u \in Alerts : step'[u] = "wait" => step[u] = "wait"
    BY <1>1, <1>2 DEF TypeOK
  <2>4. TypeOK'
    BY <1>1, <1>2, <2>2, <2>3 DEF TypeOK, InCall
  <2>5. QED
    BY <1>1, <1>2, <2>3, <2>4
<1>3. CASE Return(t, FALSE)
  <2>1. answers' \in [Boards -> Seq({"ACK", "NACK"})]
    BY <1>1 DEF TypeOK
  <2>2. QED
    BY <1>1, <1>3, <2>1 DEF Returns
<1>4. QED
  BY <1>2, <1>3 DEF TimeOut

\* An alert for a board without a UART.
LEMMA NoPortLemma ==
  ASSUME Inv, NEW t \in Alerts, NoPort(t)
  PROVE  Returns(t, FALSE)
BY DEF Inv, NoPort, Returns, TypeOK, line

\* Every step preserves the invariant.
LEMMA InvStep == Inv /\ [Next]_vars => Inv'
<1> SUFFICES ASSUME Inv, [Next]_vars PROVE Inv'
  OBVIOUS
<1>0. TypeOK
  BY DEF Inv
<1>1. ASSUME NEW t \in Alerts, NEW ok \in BOOLEAN, Returns(t, ok) PROVE Inv'
  BY <1>1, ReturnStep DEF Returns
<1>2. ASSUME NEW t \in Alerts, NoPort(t) PROVE Inv'
  BY <1>1, <1>2, NoPortLemma
<1>3. ASSUME NEW t \in Alerts, OpenFails(t) PROVE Inv'
  <2>1. TypeOK'
    BY <1>0, <1>3 DEF OpenFails, TypeOK, InCall, line
  <2>2. QED
    BY <1>3, <2>1, QuietStep DEF OpenFails, line
<1>4. ASSUME NEW t \in Alerts, TakeAnswer(t) PROVE Inv'
  BY <1>1, <1>4, AnswerLemma, QuietStep
<1>5. ASSUME NEW t \in Alerts, TimeOut(t) PROVE Inv'
  BY <1>1, <1>5, TimeOutLemma, QuietStep
<1>6. ASSUME NEW t \in Alerts, CaptureScreen(t) PROVE Inv'
  <2>1. TypeOK'
    BY <1>0, <1>6 DEF CaptureScreen, TypeOK, InCall, line
  <2>2. QED
    BY <1>6, <2>1, QuietStep DEF CaptureScreen, line
<1>7. ASSUME NEW b \in Boards, TearAnswer(b) PROVE Inv'
  <2>1. /\ answers' \in [Boards -> Seq({"ACK", "NACK"})]
        /\ \A a \in Boards : Elems(answers'[a]) \subseteq Elems(answers[a])
    BY <1>0, <1>7, TailLemma DEF TearAnswer
  <2>2. PICK D \in SUBSET Waiting(b) :
          deaf' = [t \in Alerts |-> IF t \in Waiting(b) THEN t \in D ELSE deaf[t]]
    BY <1>7 DEF TearAnswer
  <2>3. deaf' \in [Alerts -> BOOLEAN]
    <3>1. \A t \in Alerts : deaf[t] \in BOOLEAN /\ (t \in D) \in BOOLEAN
      BY <1>0 DEF TypeOK
    <3>2. \A t \in Alerts : (IF t \in Waiting(b) THEN t \in D ELSE deaf[t]) \in BOOLEAN
      BY <3>1
    <3>3. QED
      BY <2>2, <3>2, Zenon
  <2>4. TypeOK'
    BY <1>0, <1>7, <2>1, <2>3 DEF TearAnswer, TypeOK, InCall
  <2>5. QED
    BY <1>7, <2>1, <2>4, QuietStep DEF TearAnswer
<1>8. CASE UNCHANGED vars
  <2>1. TypeOK'
    BY <1>0, <1>8 DEF vars, line, TypeOK, InCall
  <2>2. QED
    BY <1>8, <2>1, QuietStep DEF vars, line
<1>9. QED
  BY <1>2, <1>3, <1>4, <1>5, <1>6, <1>7, <1>8, RaiseLemma, SendLemma, WakeLemma, BoardLemma,
     SyncLemma DEF Next, AlertStep

\* Inv holds at every moment.
LEMMA InvAlways == Spec => []Inv
<1>1. Init => Inv
  <2> SUFFICES ASSUME Init PROVE Inv
    OBVIOUS
  <2>1. \A b \in Boards : Elems(frames[b]) = {} /\ Elems(answers[b]) = {}
    BY DEF Init, Elems
  <2>2. TypeOK
    <3>1. <<>> \in Seq(Frame) /\ <<>> \in Seq({"ACK", "NACK"})
      OBVIOUS
    <3>2. 0 \in 0..(Retries - 1) /\ 0 \in 0..MaxSync
      BY RetriesAssumption, BoundAssumption
    <3>3. QED
      BY <3>1, <3>2 DEF Init, TypeOK, Commands
  <2>3. OrderInv /\ AloneInv /\ FramesInv /\ AnswersInv /\ DisplayInv /\ DarkInv
    BY <2>1 DEF Init, OrderInv, AloneInv, FramesInv, AnswersInv, DisplayInv, DarkInv, Mine, Active
  <2>4. QED
    BY <2>2, <2>3 DEF Inv
<1>2. QED
  BY <1>1, InvStep, PTL DEF Spec
-----------------------------------------------------------------------------
(* The theorems.                                                            *)

\* Every variable has its type for any alerts, boards and number of retries; in
\* particular send_frame_with_ack never makes more than Retries attempts.
THEOREM TypeCorrect == Spec => []TypeOK
BY InvAlways, PTL DEF Inv

\* When control_board_async is over for every alert of a board, undisturbed and with
\* its LCD-off acknowledged, the display is off.
THEOREM AlwaysDarkAfterAlerts == Spec => []DarkAfterAlerts
<1>1. Inv => DarkAfterAlerts
  <2> SUFFICES ASSUME Inv, NEW b \in Boards,
                      \A t \in Alerts : board[t] = b =>
                        phase[t] = "done" /\ "off" \in acked[t] /\ t \notin crowded
               PROVE  display[b] = "off"
    BY DEF DarkAfterAlerts
  <2>1. Clean(b)
    BY DEF Clean
  <2>2. display[b] # "on"
    BY <2>1 DEF Inv, DarkInv, Active
  <2>3. QED
    BY <2>2 DEF Inv, TypeOK, Commands
<1>2. QED
  BY <1>1, InvAlways, PTL

\* A picture that the capture thread saves while its alert sleeps shows the display
\* on, if the LCD-on was acknowledged and nobody else was at the board.
THEOREM DetectionsAlwaysShowAlert == Spec => DetectionsShowAlert
<1> DEFINE Shown == \A t \in detections' \ detections :
                      phase[t] = "asleep" /\ "on" \in acked[t] /\ t \notin crowded
                      => display[board[t]] = "on"
<1>1. Inv /\ [Next]_vars => [Shown]_vars
  <2> SUFFICES ASSUME Inv, Next, NEW t \in detections' \ detections,
                      phase[t] = "asleep", "on" \in acked[t], t \notin crowded
               PROVE  display[board[t]] = "on"
    BY DEF vars
  <2>1. t \in Alerts
    BY InvStep DEF Inv, TypeOK
  <2>2. Mine(t)
    BY <2>1 DEF Inv, OrderInv, Mine, Active
  <2>3. QED
    BY <2>1, <2>2 DEF Inv, DisplayInv
<1>2. QED
  BY <1>1, InvAlways, PTL DEF Spec, DetectionsShowAlert
-----------------------------------------------------------------------------
(* The refinement.                                                          *)

\* The abstract calls and their states: the refinement mapping of BoardLink.
Calls == Alerts \X Commands

Call == [k \in Calls |-> CallState(k[1], k[2])]

\* A step that moves one call only.
LEMMA CallLemma ==
  ASSUME NEW k \in Calls, NEW v, CallState(k[1], k[2])' = v,
         \A j \in Calls \ {k} : CallState(j[1], j[2])' = CallState(j[1], j[2])
  PROVE  Call' = [Call EXCEPT ![k] = v]
BY DEF Call

\* The return of control_board is the end of one abstract call.
LEMMA ReturnsLemma ==
  ASSUME Inv, NEW t \in Alerts, NEW c \in Commands, phase[t] = c,
         NEW ok \in BOOLEAN, Returns(t, ok)
  PROVE  Link!Next
<1> DEFINE k == <<t, c>>
           v == IF ok THEN "ok" ELSE "failed"
<1>1. k \in Calls /\ k[1] = t /\ k[2] = c /\ TypeOK
  BY DEF Calls, Inv
<1>2. /\ phase'[t] = IF c = "on" THEN "asleep" ELSE "done"
      /\ \A u \in Alerts \ {t} : phase'[u] = phase[u] /\ acked'[u] = acked[u]
      /\ acked'[t] = IF ok THEN acked[t] \cup {c} ELSE acked[t]
      /\ UNCHANGED <<ran, crowded>>
  BY <1>1 DEF Returns, Return, TypeOK
<1>3. c \notin acked[t]
  BY DEF Inv, OrderInv, After, Commands
<1>4. CallState(t, c) = "busy"
  BY DEF CallState, After, Commands
<1>5. CallState(t, c)' = v
  BY <1>2, <1>3 DEF CallState, After, Commands
<1>6. ASSUME NEW j \in Calls \ {k} PROVE CallState(j[1], j[2])' = CallState(j[1], j[2])
  <2>1. PICK u \in Alerts, d \in Commands : j = <<u, d>>
    BY <1>6 DEF Calls
  <2>2. CASE u # t
    BY <1>2, <2>1, <2>2 DEF CallState
  <2>3. CASE u = t /\ d # c
    BY <1>2, <2>1, <2>3 DEF CallState, After, Commands
  <2>4. QED
    BY <2>1, <2>2, <2>3
<1>7. Call[k] = "busy" /\ Call' = [Call EXCEPT ![k] = v]
  <2>1. Call[k] = "busy"
    BY <1>1, <1>4 DEF Call
  <2>2. QED
    BY <1>1, <1>5, <1>6, <2>1, CallLemma
<1>8. ok => k \in ran \cup (crowded \X Commands)
  BY DEF Returns
<1>9. CASE ok
  BY <1>1, <1>2, <1>7, <1>8, <1>9 DEF Link!Next, Link!Succeed, Call, Calls
<1>10. CASE ~ok
  BY <1>1, <1>2, <1>7, <1>10 DEF Link!Next, Link!Fail, Call, Calls
<1>11. QED
  BY <1>9, <1>10

\* An alert that begins a command begins one abstract call.
LEMMA BeginsLemma ==
  ASSUME NEW t \in Alerts, NEW c \in Commands,
         CallState(t, c) = "idle", CallState(t, c)' = "busy",
         \A j \in Calls \ {<<t, c>>} : CallState(j[1], j[2])' = CallState(j[1], j[2]),
         ran' = ran, crowded \subseteq crowded', crowded' \subseteq Alerts
  PROVE  Link!Next
<1> DEFINE k == <<t, c>>
<1>1. k \in Calls /\ k[1] = t /\ k[2] = c
  BY DEF Calls
<1>2. Call[k] = "idle" /\ Call' = [Call EXCEPT ![k] = "busy"]
  BY <1>1, CallLemma DEF Call
<1>3. \E D \in SUBSET Calls : (crowded \X Commands)' = (crowded \X Commands) \cup D
  <2>1. (crowded \X Commands)' \in SUBSET Calls
    BY DEF Calls, Commands
  <2>2. (crowded \X Commands)' = (crowded \X Commands) \cup (crowded \X Commands)'
    BY DEF Commands
  <2>3. QED
    BY <2>1, <2>2
<1>4. QED
  BY <1>1, <1>2, <1>3 DEF Link!Next, Link!Begin, Call, Calls

\* Every step of the link is a step of the abstract one or leaves it alone.
LEMMA LinkStep == Inv /\ [Next]_vars => [Link!Next]_(Link!vars)
<1> SUFFICES ASSUME Inv, [Next]_vars PROVE Link!Next \/ UNCHANGED Link!vars
  OBVIOUS
<1>0. TypeOK /\ TypeOK'
  BY InvStep DEF Inv
<1>1. ASSUME UNCHANGED <<phase, acked, ran, crowded>> PROVE UNCHANGED Link!vars
  BY <1>1 DEF Link!vars, CallState
<1>2. ASSUME NEW t \in Alerts, NEW ok \in BOOLEAN, Returns(t, ok) PROVE Link!Next
  BY <1>2, ReturnsLemma DEF Returns, InCall
<1>3. ASSUME NEW t \in Alerts, NEW b \in Boards \cup {NoBoard}, Raise(t, b) PROVE Link!Next
  <2>1. /\ phase[t] = "idle" /\ phase'[t] = "on"
        /\ \A u \in Alerts \ {t} : phase'[u] = phase[u]
        /\ UNCHANGED <<acked, ran>>
        /\ crowded \subseteq crowded' /\ crowded' \subseteq Alerts
    BY <1>0, <1>3 DEF Raise, TypeOK
  <2>2. CallState(t, "on") = "idle" /\ CallState(t, "on")' = "busy"
    BY <2>1 DEF CallState, After
  <2>3. ASSUME NEW j \in Calls \ {<<t, "on">>}
        PROVE  CallState(j[1], j[2])' = CallState(j[1], j[2])
    <3>1. PICK u \in Alerts, d \in Commands : j = <<u, d>>
      BY <2>3 DEF Calls
    <3>2. CASE u # t
      BY <2>1, <3>1, <3>2 DEF CallState
    <3>3. CASE u = t /\ d = "off"
      BY <2>1, <3>1, <3>3 DEF CallState, After
    <3>4. QED
      BY <2>3, <3>1, <3>2, <3>3 DEF Commands
  <2>4. "on" \in Commands
    BY DEF Commands
  <2>5. QED
    BY <2>1, <2>2, <2>3, <2>4, BeginsLemma
<1>4. ASSUME NEW t \in Alerts, Wake(t) PROVE Link!Next
  <2>1. /\ phase[t] = "asleep" /\ phase'[t] = "off"
        /\ \A u \in Alerts \ {t} : phase'[u] = phase[u]
        /\ UNCHANGED <<acked, ran, crowded>>
        /\ crowded' \subseteq Alerts
    BY <1>0, <1>4 DEF Wake, TypeOK
  <2>2. CallState(t, "off") = "idle" /\ CallState(t, "off")' = "busy"
    BY <2>1 DEF CallState, After
  <2>3. ASSUME NEW j \in Calls \ {<<t, "off">>}
        PROVE  CallState(j[1], j[2])' = CallState(j[1], j[2])
    <3>1. PICK u \in Alerts, d \in Commands : j = <<u, d>>
      BY <2>3 DEF Calls
    <3>2. CASE u # t
      BY <2>1, <3>1, <3>2 DEF CallState
    <3>3. CASE u = t /\ d = "on"
      BY <2>1, <3>1, <3>3 DEF CallState, After
    <3>4. QED
      BY <2>3, <3>1, <3>2, <3>3 DEF Commands
  <2>4. "off" \in Commands
    BY DEF Commands
  <2>5. QED
    BY <2>1, <2>2, <2>3, <2>4, BeginsLemma
<1>5. ASSUME NEW b \in Boards, SyncTime(b) PROVE Link!Next
  <2>1. /\ UNCHANGED <<phase, acked, ran>>
        /\ crowded \subseteq crowded' /\ crowded' \subseteq Alerts
    BY <1>0, <1>5 DEF SyncTime, TypeOK
  <2>2. Call' = Call
    BY <2>1 DEF Call, CallState
  <2>3. (crowded \X Commands)' \in SUBSET Calls
    BY <2>1 DEF Calls, Commands
  <2>4. (crowded \X Commands)' = (crowded \X Commands) \cup (crowded \X Commands)'
    BY <2>1 DEF Commands
  <2>5. \E D \in SUBSET Calls : (crowded \X Commands)' = (crowded \X Commands) \cup D
    BY <2>3, <2>4
  <2>6. QED
    BY <2>1, <2>2, <2>5 DEF Link!Next, Link!Disturb, Call, Calls
<1>6. ASSUME NEW b \in Boards, BoardRuns(b), Head(frames[b]).cmd \in Commands PROVE Link!Next
  <2> DEFINE f == Head(frames[b])
             k == <<f.by, f.cmd>>
  <2>1. /\ UNCHANGED <<phase, acked, crowded>>
        /\ ran' = ran \cup {k}
    BY <1>6 DEF BoardRuns
  <2>2. f \in Frame /\ f \in Elems(frames[b])
    <3>1. frames[b] \in Seq(Frame) /\ frames[b] # <<>>
      BY <1>0, <1>6 DEF TypeOK, BoardRuns
    <3>2. QED
      BY <3>1, QueueLemma
  <2> HIDE DEF f
  <2>3. f.by \in Alerts /\ f.cmd \in Commands
    BY <1>6, <2>2 DEF Frame, Commands, f
  <2>4. Started(f.by, f.cmd)
    BY <2>2, <2>3 DEF Inv, OrderInv
  <2>5. CallState(f.by, f.cmd) # "idle"
    BY <2>4 DEF CallState, Started
  <2>6. k \in Calls /\ Call[k] # "idle" /\ Call' = Call
    BY <2>1, <2>3, <2>5 DEF Call, Calls, CallState
  <2>7. QED
    BY <2>1, <2>6 DEF Link!Next, Link!Run, Call, Calls
<1>7. ASSUME NEW b \in Boards, BoardStep(b) PROVE Link!Next \/ UNCHANGED Link!vars
  BY <1>1, <1>6, <1>7 DEF BoardStep, BoardRuns, BoardMisses
<1>8. ASSUME NEW t \in Alerts, AlertStep(t) PROVE Link!Next \/ UNCHANGED Link!vars
  <2>1. CASE NoPort(t)
    BY <1>2, <2>1, NoPortLemma
  <2>2. CASE TakeAnswer(t)
    BY <1>1, <1>2, <2>2, AnswerLemma
  <2>3. CASE TimeOut(t)
    BY <1>1, <1>2, <2>3, TimeOutLemma
  <2>4. CASE OpenFails(t) \/ SendFrame(t)
    BY <1>1, <2>4 DEF OpenFails, SendFrame
  <2>5. QED
    BY <1>4, <1>8, <2>1, <2>2, <2>3, <2>4 DEF AlertStep
<1>9. ASSUME \/ UNCHANGED vars
             \/ \E t \in Alerts : CaptureScreen(t)
             \/ \E b \in Boards : TearAnswer(b)
      PROVE  UNCHANGED Link!vars
  BY <1>1, <1>9 DEF vars, CaptureScreen, TearAnswer
<1>10. QED
  BY <1>3, <1>5, <1>7, <1>8, <1>9 DEF Next

\* send_lcd_on_with_ack and send_lcd_off_with_ack keep the promise of CommandLink for
\* any number of alerts, boards, retries, frames under way and lost answers.
THEOREM CommandsAlwaysAcknowledged == Spec => CommandsAcknowledged
<1>1. Init => Link!Init
  <2> SUFFICES ASSUME Init PROVE Link!Init
    OBVIOUS
  <2>1. \A t \in Alerts, c \in Commands : CallState(t, c) = "idle"
    BY DEF Init, CallState, After, Commands
  <2>2. ran = {} /\ crowded \X Commands = {}
    BY DEF Init
  <2>3. QED
    BY <2>1, <2>2 DEF Link!Init
<1>2. QED
  BY <1>1, LinkStep, InvAlways, PTL DEF Spec, CommandsAcknowledged, Link!Spec

==============================================================================

----------------------------- MODULE BoardLink -------------------------------
(***************************************************************************)
(* The alerts of the control program: control_board_async, one detached    *)
(* thread per alert, switches a board's display on, starts a capture       *)
(* thread, sleeps 5 s and switches the display off; every command goes     *)
(* through send_frame_with_ack on a UART that all alerts for the board,    *)
(* and the process send_time, share.                                       *)
(*                                                                         *)
(* A frame and an answer are single messages here; FrameCodec models their *)
(* bytes and checks that the byte-wise receiver behaves as TakeAnswer      *)
(* does.  The board is external: it takes the frames in order, as late as  *)
(* it likes, may miss one, reject one, or carry one out, and its answer    *)
(* may be lost.  Answers that arrived wait in the input queue of the UART. *)
(***************************************************************************)
EXTENDS Naturals, Sequences

CONSTANTS
  Alerts,      \* alert threads
  Boards,      \* boards with a UART
  NoBoard,     \* board_id -1, or any other without a UART
  TimeSync,    \* the process send_time
  Retries,     \* attempts of a command (3 in the code)
  MaxSync,     \* bound on the frames of send_time
  MaxFlight,   \* bound on the frames on their way to a board
  CanFail      \* whether opening a port can fail

ASSUME NamesAssumption == NoBoard \notin Boards /\ TimeSync \notin Alerts

ASSUME RetriesAssumption == Retries \in Nat \ {0}

ASSUME BoundAssumption == MaxSync \in Nat /\ MaxFlight \in Nat \ {0} /\ CanFail \in BOOLEAN

VARIABLES
  exited,    \* the control program has ended by exit(1)
  phase,     \* what an alert does: "idle", "on", "asleep", "off" or "done"
  step,      \* where its command is: "send" or "wait"
  board,     \* the board it is for
  attempt,   \* attempts already made
  deaf,      \* the receiver is out of step and loses the next answer
  acked,     \* the commands that have returned true
  frames,    \* per board: frames on their way to it
  answers,   \* per board: answers in the input queue of the UART
  display,   \* per board: "on" or "off"
  detections,\* alerts with a picture in the table detections
  syncs,     \* frames send_time has sent
  ran,       \* history: <<alert, command>> carried out by the board
  crowded    \* history: alerts that did not have their port to themselves

line == <<frames, answers, display>>
vars == <<exited, phase, step, board, attempt, deaf, acked, line,
          detections, syncs, ran, crowded>>

Commands == {"on", "off"}

Active(t) == phase[t] \in {"on", "asleep", "off"}

\* While an alert is in one of these phases it is inside control_board.
InCall(t) == phase[t] \in Commands

\* The phases that come after the one in which command c is sent.
After(c) == IF c = "on" THEN {"asleep", "off", "done"} ELSE {"done"}

Waiting(b) == {t \in Alerts : InCall(t) /\ step[t] = "wait" /\ board[t] = b}

Init ==
  /\ exited = FALSE
  /\ phase = [t \in Alerts |-> "idle"]
  /\ step = [t \in Alerts |-> "send"]
  /\ board = [t \in Alerts |-> NoBoard]
  /\ attempt = [t \in Alerts |-> 0]
  /\ deaf = [t \in Alerts |-> FALSE]
  /\ acked = [t \in Alerts |-> {}]
  /\ frames = [b \in Boards |-> <<>>]
  /\ answers = [b \in Boards |-> <<>>]
  /\ display = [b \in Boards |-> "off"]
  /\ detections = {}
  /\ syncs = 0
  /\ ran = {}
  /\ crowded = {}
-----------------------------------------------------------------------------
(* The alert thread.                                                        *)

\* analyze_risk_and_alert starts the thread; it begins with control_board.
Raise(t, b) ==
  /\ ~exited
  /\ phase[t] = "idle"
  /\ phase' = [phase EXCEPT ![t] = "on"]
  /\ board' = [board EXCEPT ![t] = b]
  /\ LET others == {u \in Alerts : Active(u) /\ board[u] = b}
         late == b \in Boards /\ frames[b] # <<>>
     IN  crowded' = crowded \cup others \cup IF others # {} \/ late THEN {t} ELSE {}
  /\ UNCHANGED <<exited, step, attempt, deaf, acked, line, detections,
                 syncs, ran>>

\* A command returns: the alert goes on in its next phase.
Return(t, ok) ==
  /\ acked' = IF ok THEN [acked EXCEPT ![t] = @ \cup {phase[t]}] ELSE acked
  /\ phase' = [phase EXCEPT ![t] = IF @ = "on" THEN "asleep" ELSE "done"]
  /\ step' = [step EXCEPT ![t] = "send"]
  /\ attempt' = [attempt EXCEPT ![t] = 0]
  /\ deaf' = [deaf EXCEPT ![t] = FALSE]

\* control_board finds no port for the board and gives up at once.
NoPort(t) ==
  /\ ~exited
  /\ InCall(t) /\ board[t] \notin Boards
  /\ Return(t, FALSE)
  /\ UNCHANGED <<exited, board, line, detections, syncs, ran, crowded>>

\* The new BoardController cannot open the device: open_port ends the process.
OpenFails(t) ==
  /\ ~exited
  /\ CanFail
  /\ InCall(t) /\ step[t] = "send" /\ attempt[t] = 0 /\ board[t] \in Boards
  /\ exited' = TRUE
  /\ UNCHANGED <<phase, step, board, attempt, deaf, acked, line,
                 detections, syncs, ran, crowded>>

\* Mutant: what is left in the input queue is read as the answer.
NotFlushed(b) == answers[b]

\* tcflush(fd, TCIFLUSH).
Flushed(b) == <<>>

\* An attempt: the input queue is flushed, whoever the answers in it are for,
\* the frame is written, and the receiver starts afresh.
SendFrame(t) ==
  /\ ~exited
  /\ InCall(t) /\ step[t] = "send" /\ board[t] \in Boards
  /\ LET b == board[t]
     IN  /\ Len(frames[b]) < MaxFlight
         /\ answers' = [answers EXCEPT ![b] = Flushed(b)]
         /\ frames' = [frames EXCEPT ![b] = Append(@, [by |-> t, cmd |-> phase[t]])]
  /\ step' = [step EXCEPT ![t] = "wait"]
  /\ deaf' = [deaf EXCEPT ![t] = FALSE]
  /\ UNCHANGED <<exited, phase, board, attempt, acked, display, detections,
                 syncs, ran, crowded>>

\* Mutant: a rejected command counts as carried out.
AnyAnswer(answer) == TRUE

Positive(answer) == answer = "ACK"

\* An answer is read.  A rejection leaves the receiver in WAIT_ETX, where it
\* takes the first byte of the next answer for the end of this one.
TakeAnswer(t) ==
  /\ ~exited
  /\ InCall(t) /\ step[t] = "wait"
  /\ LET b == board[t]
     IN  /\ answers[b] # <<>>
         /\ answers' = [answers EXCEPT ![b] = Tail(@)]
         /\ IF ~deaf[t] /\ Positive(Head(answers[b]))
              THEN Return(t, TRUE)
              ELSE /\ deaf' = [deaf EXCEPT ![t] = ~@]
                   /\ UNCHANGED <<acked, phase, step, attempt>>
  /\ UNCHANGED <<exited, board, frames, display, detections, syncs, ran, crowded>>

\* Two threads read the same port byte by byte: they tear an answer apart, and
\* neither need be in step afterwards.
TearAnswer(b) ==
  /\ ~exited
  /\ answers[b] # <<>>
  /\ \E t, u \in Waiting(b) : t # u
  /\ answers' = [answers EXCEPT ![b] = Tail(@)]
  /\ \E D \in SUBSET Waiting(b) :
       deaf' = [t \in Alerts |-> IF t \in Waiting(b) THEN t \in D ELSE deaf[t]]
  /\ UNCHANGED <<exited, phase, step, board, attempt, acked, frames,
                 display, detections, syncs, ran, crowded>>

AttemptsLeft(t) == attempt[t] + 1 < Retries

\* The window of an attempt ends without an ACK; the last one fails the call.
TimeOut(t) ==
  /\ ~exited
  /\ InCall(t) /\ step[t] = "wait"
  /\ IF AttemptsLeft(t)
       THEN /\ attempt' = [attempt EXCEPT ![t] = @ + 1]
            /\ step' = [step EXCEPT ![t] = "send"]
            /\ UNCHANGED <<acked, phase, deaf>>
       ELSE Return(t, FALSE)
  /\ UNCHANGED <<exited, board, line, detections, syncs, ran, crowded>>

\* sleep(5) ends.  It is longer than the board takes for the frames it has been
\* sent.
Wake(t) ==
  /\ ~exited
  /\ phase[t] = "asleep"
  /\ board[t] \in Boards => frames[board[t]] = <<>>
  /\ phase' = [phase EXCEPT ![t] = "off"]
  /\ UNCHANGED <<exited, step, board, attempt, deaf, acked, line,
                 detections, syncs, ran, crowded>>

\* The capture thread, which starts when the first command returns, sleeps 1 s
\* and may then take long: one picture of the video is read and inserted.  When
\* the time is missing, ffmpeg gives nothing or the insert throws, there is none.
CaptureScreen(t) ==
  /\ ~exited
  /\ phase[t] \in After("on")
  /\ t \notin detections
  /\ detections' = detections \cup {t}
  /\ UNCHANGED <<exited, phase, step, board, attempt, deaf, acked, line, syncs, ran,
                 crowded>>
-----------------------------------------------------------------------------
(* The other processes.                                                     *)

\* send_time writes the time to every board every 5 s and reads no answer.
SyncTime(b) ==
  /\ syncs < MaxSync /\ Len(frames[b]) < MaxFlight
  /\ syncs' = syncs + 1
  /\ frames' = [frames EXCEPT ![b] = Append(@, [by |-> TimeSync, cmd |-> "sync"])]
  /\ crowded' = crowded \cup {t \in Alerts : InCall(t) /\ board[t] = b}
  /\ UNCHANGED <<exited, phase, step, board, attempt, deaf, acked, answers,
                 display, detections, ran>>

\* The board carries out the next frame and acknowledges it.
BoardRuns(b) ==
  /\ frames[b] # <<>>
  /\ LET f == Head(frames[b])
     IN  /\ display' = IF f.cmd \in Commands THEN [display EXCEPT ![b] = f.cmd] ELSE display
         /\ ran' = IF f.cmd \in Commands THEN ran \cup {<<f.by, f.cmd>>} ELSE ran
  /\ frames' = [frames EXCEPT ![b] = Tail(@)]
  /\ \/ UNCHANGED answers
     \/ answers' = [answers EXCEPT ![b] = Append(@, "ACK")]
  /\ UNCHANGED <<exited, phase, step, board, attempt, deaf, acked, detections,
                 syncs, crowded>>

\* The frame arrives damaged: the board misses it, or rejects it.
BoardMisses(b) ==
  /\ frames[b] # <<>>
  /\ frames' = [frames EXCEPT ![b] = Tail(@)]
  /\ \/ UNCHANGED answers
     \/ answers' = [answers EXCEPT ![b] = Append(@, "NACK")]
  /\ UNCHANGED <<exited, phase, step, board, attempt, deaf, acked, display,
                 detections, syncs, ran, crowded>>
-----------------------------------------------------------------------------
AlertStep(t) ==
  \/ NoPort(t)
  \/ OpenFails(t)
  \/ SendFrame(t)
  \/ TakeAnswer(t)
  \/ TimeOut(t)
  \/ Wake(t)

BoardStep(b) == BoardRuns(b) \/ BoardMisses(b)

Next ==
  \/ \E t \in Alerts : (\E b \in Boards \cup {NoBoard} : Raise(t, b))
  \/ \E t \in Alerts : AlertStep(t)
  \/ \E t \in Alerts : CaptureScreen(t)
  \/ \E b \in Boards : BoardStep(b)
  \/ \E b \in Boards : TearAnswer(b)
  \/ \E b \in Boards : SyncTime(b)

Spec == Init /\ [][Next]_vars
-----------------------------------------------------------------------------
(* Properties.                                                              *)

Frame == [by : Alerts, cmd : Commands] \cup [by : {TimeSync}, cmd : {"sync"}]

\* Every variable has its type; in particular a command is retried fewer than
\* Retries times and only an alert for a board with a UART talks to one.
TypeOK ==
  /\ exited \in BOOLEAN
  /\ phase \in [Alerts -> {"idle", "on", "asleep", "off", "done"}]
  /\ step \in [Alerts -> {"send", "wait"}]
  /\ board \in [Alerts -> Boards \cup {NoBoard}]
  /\ attempt \in [Alerts -> 0..(Retries - 1)]
  /\ deaf \in [Alerts -> BOOLEAN]
  /\ acked \in [Alerts -> SUBSET Commands]
  /\ frames \in [Boards -> Seq(Frame)]
  /\ answers \in [Boards -> Seq({"ACK", "NACK"})]
  /\ display \in [Boards -> Commands]
  /\ detections \subseteq Alerts
  /\ syncs \in 0..MaxSync
  /\ ran \subseteq Alerts \X Commands
  /\ crowded \subseteq Alerts
  /\ \A t \in Alerts : step[t] = "wait" => InCall(t) /\ board[t] \in Boards

\* The state of the call that sends command c for alert t.
CallState(t, c) ==
  CASE phase[t] = c -> "busy"
    [] phase[t] \in After(c) -> IF c \in acked[t] THEN "ok" ELSE "failed"
    [] OTHER -> "idle"

Link == INSTANCE CommandLink WITH
  Calls <- Alerts \X Commands,
  call <- [k \in Alerts \X Commands |-> CallState(k[1], k[2])],
  disturbed <- crowded \X Commands

\* send_lcd_on_with_ack and send_lcd_off_with_ack keep the promise of an
\* acknowledged command: true means the board has carried it out, however many
\* frames and answers were lost, late or rejected, unless another alert or
\* send_time used the port.
CommandsAcknowledged == Link!Spec

\* A picture saved while its alert is asleep shows the display on ("capture while
\* the dot matrix is on", control_board_async), when the first command succeeded,
\* no other alert for the board overlapped and send_time did not write during one of
\* its commands.  When alerts overlap, the end of one darkens the picture of the other.
DetectionsShowAlert ==
  [][\A t \in detections' \ detections :
       phase[t] = "asleep" /\ "on" \in acked[t] /\ t \notin crowded
       => display[board[t]] = "on"]_vars

\* When all alerts for a board are over, undisturbed by each other and by send_time
\* and with their last command acknowledged, its display is off, whatever happened to
\* the first command.
DarkAfterAlerts ==
  \A b \in Boards :
    (\A t \in Alerts : board[t] = b =>
        phase[t] = "done" /\ "off" \in acked[t] /\ t \notin crowded)
    => display[b] = "off"

=============================================================================

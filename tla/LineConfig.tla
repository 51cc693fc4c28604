----------------------------- MODULE LineConfig ------------------------------
(***************************************************************************)
(* The virtual lines: requests 2 to 7 of the TCP server, the tables lines, *)
(* baseLines and verticalLineEquations, and the lines of the camera.       *)
(*                                                                         *)
(* The server keeps the lines a client sent in the table and puts them on  *)
(* the camera in the camera's units.  Asked for all lines, it reads the    *)
(* camera's, empties the table and inserts again those rows whose index is *)
(* on the camera.  Every database call is a critical section of db_mutex   *)
(* of its own and every camera call is outside of it, so a step is one     *)
(* call; the answer is sent after the last of them.  A position stands for *)
(* the four coordinates of a line.                                         *)
(***************************************************************************)
EXTENDS Naturals

CONSTANTS
  Conns,         \* connections that send line requests
  Requests,      \* the lines that clients send, in their units
  Drawn,         \* the lines somebody draws or removes at the camera
  BaseIndexes,   \* indexNum of base lines and of equations
  CameraTypes,   \* the camera_type of insert requests
  Faults         \* the failures of camera and database that can happen

ASSUME LinesAssumption ==
  /\ Requests # {}
  /\ \A line \in Requests \cup Drawn :
       line = [index |-> line.index, name |-> line.name, at |-> line.at] /\ line.at \in Nat

ASSUME CameraTypesAssumption == CameraTypes \subseteq {"CCTV", "other"}

ASSUME FaultsAssumption == Faults \subseteq {"camera", "insert", "update", "select", "delete"}

Scale == 4    \* camera units per unit of the client

OnCamera(line) == [line EXCEPT !.at = Scale * @]

CameraLines == {OnCamera(line) : line \in Requests} \cup Drawn

CrossLines == Requests \cup CameraLines

\* matrixNum1 and matrixNum2 in one, since a request sends both.
BaseLines == [index : BaseIndexes, matrixNums : {1, 2}, at : {1, 2}]

\* What an answer can report as 1.
Replies == {"mapping_success", "insert_success", "update_success", "delete_success"}

VARIABLES
  lines,                   \* the table lines, a set of rows
  baseLines,               \* the table baseLines
  verticalLineEquations,   \* the indexes in the table verticalLineEquations
  camera,                  \* the lines of the camera
  pc,                      \* where the handler of a connection is
  local,                   \* the locals of that handler
  quiet,                   \* history: the request that nothing has disturbed
  before                   \* history: the table lines when that request began

tables == <<lines, baseLines, verticalLineEquations>>

calm == <<quiet, before>>

vars == <<tables, camera, pc, local, calm>>

IndexesOf(rows) == {row.index : row \in rows}
Places(rows) == {<<row.index, row.at>> : row \in rows}

Locals == [line : Requests, httpLines : SUBSET CameraLines,
           realLines : SUBSET CrossLines,
           baseLines : SUBSET BaseLines, reply : SUBSET Replies]

Idle == [line |-> CHOOSE line \in Requests : TRUE, httpLines |-> {},
         realLines |-> {}, baseLines |-> {}, reply |-> {}]

Init ==
  /\ lines = {} /\ baseLines = {} /\ verticalLineEquations = {}
  /\ camera = {}
  /\ pc = [c \in Conns |-> "idle"]
  /\ local = [c \in Conns |-> Idle]
  /\ quiet = {} /\ before = {}

At(c, here) == pc[c] = here

Goto(c, there) == pc' = [pc EXCEPT ![c] = there]

Return(c) == Goto(c, "idle") /\ local' = [local EXCEPT ![c] = Idle]

\* A request is undisturbed as long as it is the only one and no call fails.
Disturb == quiet' = {} /\ before' = {}

Begin(c) ==
  IF \A d \in Conns \ {c} : pc[d] = "idle" THEN quiet' = {c} /\ before' = lines ELSE Disturb

Fails(c, fault) == fault \in Faults /\ IF c \in quiet THEN Disturb ELSE UNCHANGED calm

\* The locals that the answer is made of; the others are of no use any more.
AnswerWith(c, data) == Goto(c, "answer") /\ local' = [local EXCEPT ![c] = data]

\* send_json_response.
Answer(c) ==
  /\ At(c, "answer")
  /\ Return(c)
  /\ UNCHANGED <<tables, camera, calm>>

-----------------------------------------------------------------------------
(* Request 2: a line is inserted.                                          *)

InsertRequest(c) ==
  /\ At(c, "idle")
  /\ \E line \in Requests : local' = [local EXCEPT ![c] = [Idle EXCEPT !.line = line]]
  /\ Begin(c)
  /\ Goto(c, "insert")
  /\ UNCHANGED <<tables, camera>>

\* Mutant: the column name is not unique.
NameNotUnique(line) == \A row \in lines : row.index # line.index

\* Index is the primary key and name is unique.
Insertable(line) == \A row \in lines : row.index # line.index /\ row.name # line.name

insert_data_lines(c, line, done) ==
  \/ done /\ Insertable(line) /\ lines' = lines \cup {line} /\ UNCHANGED calm
  \/ ~done /\ ~Insertable(line) /\ UNCHANGED <<lines, calm>>
  \/ ~done /\ Fails(c, "insert") /\ UNCHANGED lines

\* The line goes to the camera whether or not its insert succeeded; for
\* another camera_type the answer is the table instead.
AfterInsert(c) ==
  \/ "CCTV" \in CameraTypes /\ Goto(c, "put")
  \/ "other" \in CameraTypes /\ Goto(c, "table")

InsertLine(c) ==
  /\ At(c, "insert")
  /\ \E mappingSuccess \in BOOLEAN :
       /\ insert_data_lines(c, local[c].line, mappingSuccess)
       /\ local' = [local EXCEPT ![c].reply = IF mappingSuccess THEN {"mapping_success"} ELSE {}]
  /\ AfterInsert(c)
  /\ UNCHANGED <<baseLines, verticalLineEquations, camera>>

\* putLines, whose result is not looked at.
PutLine(c) ==
  /\ At(c, "put")
  /\ \/ /\ camera' = {l \in camera : l.index # local[c].line.index}
                       \cup {OnCamera(local[c].line)}
        /\ UNCHANGED calm
     \/ /\ Fails(c, "camera")
        /\ UNCHANGED camera
  /\ AnswerWith(c, [Idle EXCEPT !.reply = local[c].reply])
  /\ UNCHANGED tables

\* An exception leaves it with the rows read so far.
select_all_data_lines(c, dbLines) ==
  /\ dbLines \subseteq lines
  /\ \/ dbLines = lines /\ UNCHANGED calm
     \/ Fails(c, "select")

\* The rows for the answer, in which mapping_success is not.
SelectTable(c) ==
  /\ At(c, "table")
  /\ \E dbLines \in SUBSET lines :
       /\ select_all_data_lines(c, dbLines)
       /\ AnswerWith(c, [Idle EXCEPT !.realLines = dbLines])
  /\ UNCHANGED <<tables, camera>>

-----------------------------------------------------------------------------
(* getLines, for requests 3 and 4: what json::parse and the loop over its  *)
(* result make of the camera's answer.  No answer is a parse_error, which  *)
(* handle_client catches: the request ends.  An error document has no      *)
(* lines in it.                                                            *)

GetLines(c, here, there) ==
  /\ At(c, here)
  /\ \/ /\ local' = [local EXCEPT ![c].httpLines = camera]
        /\ Goto(c, there)
        /\ UNCHANGED calm
     \/ /\ Fails(c, "camera")
        /\ local' = [local EXCEPT ![c].httpLines = {}]
        /\ Goto(c, there)
     \/ /\ Fails(c, "camera")
        /\ Return(c)
  /\ UNCHANGED <<tables, camera>>

(* Request 3: all lines.                                                   *)

SelectRequest(c) ==
  /\ At(c, "idle")
  /\ Begin(c)
  /\ Goto(c, "get")
  /\ UNCHANGED <<tables, camera, local>>

SelectGetLines(c) == GetLines(c, "get", "select")

\* Mutant: the camera's lines are kept, in the camera's units.
KeepHttpLines(c, dbLines) == {l \in local[c].httpLines : l.index \in IndexesOf(dbLines)}

\* The rows whose index is on the camera.
RealLines(c, dbLines) == {row \in dbLines : row.index \in IndexesOf(local[c].httpLines)}

SelectLines(c) ==
  /\ At(c, "select")
  /\ \E dbLines \in SUBSET lines :
       /\ select_all_data_lines(c, dbLines)
       /\ local' = [local EXCEPT ![c].realLines = RealLines(c, dbLines),
                                 ![c].httpLines = {}]
  /\ Goto(c, "empty")
  /\ UNCHANGED <<tables, camera>>

\* Mutant: the table is not emptied.
LinesNotEmptied(c) ==
  /\ At(c, "empty")
  /\ Goto(c, "refill")
  /\ UNCHANGED <<tables, camera, local, calm>>

EmptyLines(c) ==
  /\ At(c, "empty")
  /\ \/ lines' = {} /\ UNCHANGED calm
     \/ Fails(c, "delete") /\ UNCHANGED lines
  /\ Goto(c, "refill")
  /\ UNCHANGED <<baseLines, verticalLineEquations, camera, local>>

\* One of the lines left is inserted; the result is not looked at.
RefillLine(c) ==
  /\ At(c, "refill")
  /\ \E line \in local[c].realLines, done \in BOOLEAN :
       /\ insert_data_lines(c, line, done)
       /\ local' = [local EXCEPT ![c].realLines = @ \ {line}]
  /\ UNCHANGED <<baseLines, verticalLineEquations, camera, pc>>

AnswerSelect(c) ==
  /\ At(c, "refill")
  /\ local[c].realLines = {}
  /\ Return(c)
  /\ UNCHANGED <<tables, camera, calm>>

-----------------------------------------------------------------------------
(* Request 4: everything is deleted.                                       *)

DeleteRequest(c) ==
  /\ At(c, "idle")
  /\ Begin(c)
  /\ Goto(c, "delete_get")
  /\ UNCHANGED <<tables, camera, local>>

DeleteGetLines(c) == GetLines(c, "delete_get", "delete_camera")

\* deleteLines for one of the indexes read, whose result is not looked at.
DeleteOnCamera(c) ==
  /\ At(c, "delete_camera")
  /\ \E line \in local[c].httpLines :
       /\ local' = [local EXCEPT ![c].httpLines = @ \ {line}]
       /\ \/ /\ camera' = {l \in camera : l.index # line.index}
             /\ UNCHANGED calm
          \/ /\ Fails(c, "camera")
             /\ UNCHANGED camera
  /\ UNCHANGED <<tables, pc>>

\* Mutant: an exception does not make the result false.
DeletedUnlessEmpty(failed) == baseLines # {}

\* What the three functions return: whether there was a row to delete.
delete_all_data_lines(failed) == "lines" \notin failed /\ lines # {}
delete_all_data_baseLines(failed) == "baseLines" \notin failed /\ baseLines # {}
delete_all_data_verticalLineEquations(failed) ==
  "verticalLineEquations" \notin failed /\ verticalLineEquations # {}

Remaining(rows, table, failed) == IF table \in failed THEN rows ELSE {}

\* Mutant: the base lines are forgotten.
DeleteTwoTables(c) ==
  /\ At(c, "delete_camera")
  /\ local[c].httpLines = {}
  /\ lines' = {} /\ verticalLineEquations' = {}
  /\ Goto(c, "deleted")
  /\ UNCHANGED <<baseLines, calm, camera, local>>

\* The three tables in one critical section; each statement may fail.
DeleteTables(c) ==
  /\ At(c, "delete_camera")
  /\ local[c].httpLines = {}
  /\ \E failed \in SUBSET {"lines", "baseLines", "verticalLineEquations"} :
       /\ \/ failed = {} /\ UNCHANGED calm
          \/ failed # {} /\ Fails(c, "delete")
       /\ lines' = Remaining(lines, "lines", failed)
       /\ baseLines' = Remaining(baseLines, "baseLines", failed)
       /\ verticalLineEquations' =
            Remaining(verticalLineEquations, "verticalLineEquations", failed)
       /\ LET deleteSuccess == /\ delete_all_data_lines(failed)
                               /\ delete_all_data_baseLines(failed)
                               /\ delete_all_data_verticalLineEquations(failed)
          IN  local' = [local EXCEPT ![c].reply = IF deleteSuccess THEN {"delete_success"} ELSE {}]
  /\ Goto(c, "deleted")
  /\ UNCHANGED camera

AnswerDelete(c) ==
  /\ At(c, "deleted")
  /\ Return(c)
  /\ UNCHANGED <<tables, camera, calm>>

-----------------------------------------------------------------------------
(* Requests 5 and 6, one critical section each: a base line is inserted    *)
(* and then updated, so that for an index that is taken only the matrix    *)
(* numbers change.  A statement that fails leaves its table as it was.      *)

insert_data_baseLines(new) == new.index \notin IndexesOf(baseLines)

update_data_baseLines(rows, new) ==
  {IF row.index = new.index THEN [row EXCEPT !.matrixNums = new.matrixNums] ELSE row
   : row \in rows}

\* An update that finds no row succeeds.
InsertBaseLine(c) ==
  /\ At(c, "idle")
  /\ \E new \in BaseLines, failed \in SUBSET (Faults \cap {"insert", "update"}) :
       LET inserted == "insert" \notin failed /\ insert_data_baseLines(new)
           updated == "update" \notin failed
           rows == IF inserted THEN baseLines \cup {new} ELSE baseLines
       IN  /\ baseLines' = IF updated THEN update_data_baseLines(rows, new) ELSE rows
           /\ AnswerWith(c, [Idle EXCEPT !.reply =
                               (IF inserted THEN {"insert_success"} ELSE {})
                                 \cup (IF updated THEN {"update_success"} ELSE {})])
  /\ Disturb
  /\ UNCHANGED <<lines, verticalLineEquations, camera>>

insert_data_verticalLineEquations(index) == index \notin verticalLineEquations

InsertVerticalLine(c) ==
  /\ At(c, "idle")
  /\ \E index \in BaseIndexes :
       \/ /\ insert_data_verticalLineEquations(index)
          /\ verticalLineEquations' = verticalLineEquations \cup {index}
          /\ AnswerWith(c, [Idle EXCEPT !.reply = {"insert_success"}])
       \/ /\ ~insert_data_verticalLineEquations(index) \/ "insert" \in Faults
          /\ AnswerWith(c, Idle)
          /\ UNCHANGED verticalLineEquations
  /\ Disturb
  /\ UNCHANGED <<lines, baseLines, camera>>

\* An exception leaves it with the rows read so far.
select_all_data_baseLines(rows) ==
  rows \subseteq baseLines /\ (rows = baseLines \/ "select" \in Faults)

\* Request 7.
SelectBaseLines(c) ==
  /\ At(c, "idle")
  /\ \E rows \in SUBSET baseLines :
       /\ select_all_data_baseLines(rows)
       /\ AnswerWith(c, [Idle EXCEPT !.baseLines = rows])
  /\ Disturb
  /\ UNCHANGED <<tables, camera>>

-----------------------------------------------------------------------------
(* What happens outside the server.                                        *)

\* A line is drawn, or one with its index removed, with the camera's own page.
CameraEdited ==
  /\ \E line \in Drawn :
       LET others == {l \in camera : l.index # line.index}
       IN  camera' \in {others, others \cup {line}}
  /\ Disturb
  /\ UNCHANGED <<tables, pc, local>>

\* The process stops, on its own or because of an exception nobody catches,
\* and is started again; it may be between two statements of DeleteTables.
Restart ==
  /\ \/ UNCHANGED tables
     \/ /\ \E c \in Conns : At(c, "delete_camera") /\ local[c].httpLines = {}
        /\ lines' = {}
        /\ baseLines' \in {baseLines, {}}
        /\ UNCHANGED verticalLineEquations
  /\ pc' = [c \in Conns |-> "idle"]
  /\ local' = [c \in Conns |-> Idle]
  /\ Disturb
  /\ UNCHANGED <<camera>>

Step(c) ==
  \/ InsertRequest(c) \/ InsertLine(c) \/ PutLine(c) \/ SelectTable(c)
  \/ SelectRequest(c) \/ SelectGetLines(c) \/ SelectLines(c)
  \/ EmptyLines(c) \/ RefillLine(c) \/ AnswerSelect(c)
  \/ DeleteRequest(c) \/ DeleteGetLines(c) \/ DeleteOnCamera(c)
  \/ DeleteTables(c) \/ AnswerDelete(c)
  \/ InsertBaseLine(c) \/ InsertVerticalLine(c) \/ SelectBaseLines(c)
  \/ Answer(c)

Next == CameraEdited \/ Restart \/ \E c \in Conns : Step(c)

Spec == Init /\ [][Next]_vars

-----------------------------------------------------------------------------
(* Properties.                                                             *)

PcStates == {"idle", "insert", "put", "table", "answer", "get", "select", "empty", "refill",
             "delete_get", "delete_camera", "deleted"}

\* Every variable has its type, and the keys of the table lines are unique.
TypeOK ==
  /\ lines \subseteq CrossLines
  /\ \A r, s \in lines : r.index = s.index \/ r.name = s.name => r = s
  /\ baseLines \subseteq BaseLines
  /\ verticalLineEquations \subseteq BaseIndexes
  /\ camera \subseteq CameraLines
  /\ pc \in [Conns -> PcStates]
  /\ local \in [Conns -> Locals]
  /\ quiet \subseteq Conns /\ before \subseteq CrossLines

\* A row of lines is column for column a line some client sent: neither the
\* lines of the camera, in other units and perhaps drawn there, nor the
\* emptying and refilling of the table by overlapping requests alters one.
RowsAsSent == lines \subseteq Requests

\* When a select-all that nothing disturbed is answered, the table holds
\* exactly the rows it held before whose index is on the camera, whatever
\* overlapping requests, failures and restarts came earlier.
SelectKeepsCameraLines ==
  \A c \in quiet : pc[c] = "refill" /\ local[c].realLines = {}
                     => lines = {row \in before : row.index \in IndexesOf(camera)}

\* When a delete-all that nothing disturbed is answered, neither the tables
\* nor the camera have anything left.
DeleteLeavesNothing ==
  \A c \in quiet : pc[c] = "deleted"
                     => /\ lines = {} /\ baseLines = {} /\ verticalLineEquations = {}
                        /\ camera = {}

\* What a step has done when it lets the answer of a connection report r.
Happened(c, r) ==
  CASE r = "mapping_success" ->
         lines' = lines \cup {local[c].line} /\ local[c].line \notin lines
    [] r = "insert_success" ->
         \/ verticalLineEquations' # verticalLineEquations
         \/ IndexesOf(baseLines') # IndexesOf(baseLines)
    [] r = "update_success" ->
         "insert_success" \in local'[c].reply \/ Places(baseLines') = Places(baseLines)
    [] r = "delete_success" ->
         /\ lines # {} /\ baseLines # {} /\ verticalLineEquations # {}
         /\ lines' = {} /\ baseLines' = {} /\ verticalLineEquations' = {}

\* What the answer to a request reports has happened in its critical section,
\* whatever failed and whoever else was at work: mapping_success and
\* insert_success that one row is new, update_success without insert_success
\* that no base line has appeared, gone or moved, and delete_success that each
\* of the three tables had rows and has none.
AnswersTrue ==
  [][\A c \in Conns : \A r \in local'[c].reply \ local[c].reply : Happened(c, r)]_vars

\* handle_line_select_all_request is to "empty the lines table and fill the DB
\* only with the virtual lines that are really on the CCTV": when it is about
\* to answer and no other request is under way, every row is on the camera.
OnlyCameraLines ==
  \A c \in Conns : (/\ pc[c] = "refill" /\ local[c].realLines = {}
                     /\ \A d \in Conns \ {c} : pc[d] = "idle")
                    => IndexesOf(lines) \subseteq IndexesOf(camera)

=============================================================================

-------------------------- MODULE LineConfigProofs ---------------------------
(***************************************************************************)
(* Safety of LineConfig for every set of connections, lines and faults.    *)
(* The inductive invariant Inv says where the rows of the table lines can  *)
(* come from, and what a request that nothing has disturbed has achieved   *)
(* at each of its places.                                                  *)
(***************************************************************************)
EXTENDS LineConfig, TLAPS

Keyed(rows) == \A r, s \in rows : r.index = s.index \/ r.name = s.name => r = s

\* The rows that a select-all keeps.
Shown == {row \in before : row.index \in IndexesOf(camera)}

RowsInv ==
  /\ lines \subseteq Requests
  /\ \A c \in Conns : local[c].realLines \subseteq Requests
  /\ Keyed(before)

\* What an undisturbed request has achieved.
Achieved(c) ==
  /\ pc[c] \in {"get", "select"} => lines = before
  /\ pc[c] = "select" => local[c].httpLines = camera
  /\ pc[c] = "empty" => local[c].realLines = Shown
  /\ pc[c] = "refill" => /\ lines \cup local[c].realLines = Shown
                         /\ lines \cap local[c].realLines = {}
  /\ pc[c] = "delete_camera" => camera \subseteq local[c].httpLines
  /\ pc[c] = "deleted" => /\ lines = {} /\ baseLines = {} /\ verticalLineEquations = {}
                          /\ camera = {}

\* An undisturbed request is the only one.
QuietInv ==
  \A c \in quiet : /\ \A d \in Conns \ {c} : pc[d] = "idle" /\ d \notin quiet
                   /\ Achieved(c)

Inv == TypeOK /\ RowsInv /\ QuietInv

-----------------------------------------------------------------------------

\* What an update of one field of the locals leaves alone.
LEMMA FieldsLemma ==
  ASSUME NEW r \in Locals
  PROVE  /\ \A x \in Requests : LET s == [r EXCEPT !.line = x] IN
              s \in Locals /\ s.realLines = r.realLines /\ s.reply = r.reply
         /\ \A x \in SUBSET CameraLines : LET s == [r EXCEPT !.httpLines = x] IN
              /\ s \in Locals /\ s.realLines = r.realLines /\ s.reply = r.reply
              /\ s.httpLines = x
         /\ \A x \in SUBSET CrossLines : LET s == [r EXCEPT !.realLines = x] IN
              s \in Locals /\ s.realLines = x /\ s.reply = r.reply
         /\ \A x \in SUBSET BaseLines : LET s == [r EXCEPT !.baseLines = x] IN
              s \in Locals /\ s.realLines = r.realLines /\ s.reply = r.reply
         /\ \A x \in SUBSET Replies : LET s == [r EXCEPT !.reply = x] IN
              /\ s \in Locals /\ s.realLines = r.realLines /\ s.reply = x
              /\ s.httpLines = r.httpLines
BY DEF Locals

\* The locals of a connection that is idle.
LEMMA IdleLemma == Idle \in Locals /\ Idle.realLines = {} /\ Idle.reply = {}
<1>1. (CHOOSE line \in Requests : TRUE) \in Requests
  BY LinesAssumption
<1>2. QED
  BY <1>1 DEF Idle, Locals

\* The locals of a connection are replaced.
LEMMA LocalsLemma ==
  ASSUME local \in [Conns -> Locals], NEW c \in Conns, NEW r \in Locals,
         local' = [local EXCEPT ![c] = r]
  PROVE  /\ local' \in [Conns -> Locals] /\ local'[c] = r
         /\ \A d \in Conns \ {c} : local'[d] = local[d]
OBVIOUS

\* A step of a request under way: if it is undisturbed it is the only one, so
\* nothing else can be disturbed by it.
LEMMA OwnStep ==
  ASSUME Inv, NEW c \in Conns, NEW there, pc[c] # "idle", pc' = [pc EXCEPT ![c] = there],
         TypeOK', RowsInv',
         quiet' = {} \/ (UNCHANGED quiet /\ (c \in quiet => Achieved(c)'))
  PROVE  Inv'
<1>1. CASE quiet' = {}
  BY <1>1 DEF Inv, QuietInv
<1>2. CASE UNCHANGED quiet /\ (c \in quiet => Achieved(c)')
  <2> SUFFICES ASSUME NEW e \in quiet
               PROVE  (\A d \in Conns \ {e} : pc'[d] = "idle" /\ d \notin quiet) /\ Achieved(e)'
    BY <1>2 DEF Inv, QuietInv
  <2>1. e = c
    BY DEF Inv, QuietInv, TypeOK
  <2>2. QED
    BY <1>2, <2>1 DEF Inv, QuietInv, TypeOK
<1>3. QED
  BY <1>1, <1>2

\* A request that begins has achieved nothing yet.
LEMMA BeginStep ==
  ASSUME Inv, NEW c \in Conns, NEW there \in {"insert", "get", "delete_get"},
         pc' = [pc EXCEPT ![c] = there],
         TypeOK', RowsInv', Begin(c), UNCHANGED lines
  PROVE  Inv'
<1>1. CASE quiet' = {}
  BY <1>1 DEF Inv, QuietInv
<1>2. CASE quiet' = {c} /\ before' = lines /\ \A d \in Conns \ {c} : pc[d] = "idle"
  <2>1. Achieved(c)'
    BY <1>2 DEF Achieved, Inv, TypeOK
  <2>2. QED
    BY <1>2, <2>1 DEF Inv, QuietInv, TypeOK
<1>3. QED
  BY <1>1, <1>2 DEF Begin, Disturb

\* A step of nobody's, or of a request that is a single step, disturbs.
LEMMA DisturbStep ==
  ASSUME TypeOK', RowsInv', Disturb
  PROVE  Inv'
BY DEF Inv, QuietInv, Disturb

\* What a step can do to the history variables: a failure disturbs the request
\* that meets it.
Calm == \/ quiet' = {} /\ before' = {}
        \/ UNCHANGED calm

\* The request of a call that fails is disturbed.
LEMMA FailsLemma ==
  ASSUME NEW c \in Conns, NEW fault, Fails(c, fault)
  PROVE  Calm /\ c \notin quiet'
BY DEF Fails, Disturb, Calm, calm

\* The history variables keep what the invariant says of them.
LEMMA CalmLemma ==
  ASSUME Inv, Calm
  PROVE  quiet' \subseteq Conns /\ before' \subseteq CrossLines /\ Keyed(before')
BY DEF Calm, calm, Inv, TypeOK, RowsInv, Keyed

\* The beginning of a request keeps it too.
LEMMA BeginLemma ==
  ASSUME Inv, NEW c \in Conns, Begin(c)
  PROVE  quiet' \subseteq Conns /\ before' \subseteq CrossLines /\ Keyed(before')
BY DEF Begin, Disturb, Inv, TypeOK, RowsInv, Keyed

\* What one call of insert_data_lines does to the table.
LEMMA InsertLemma ==
  ASSUME Inv, NEW c \in Conns, NEW line \in Requests, NEW done \in BOOLEAN,
         insert_data_lines(c, line, done)
  PROVE  /\ lines' \subseteq Requests /\ Keyed(lines') /\ Calm
         /\ c \in quiet' => /\ UNCHANGED calm
                            /\ \/ lines' = lines \cup {line}
                               \/ lines' = lines /\ ~Insertable(line)
<1>1. Keyed(lines) /\ lines \subseteq Requests
  BY DEF Inv, TypeOK, RowsInv, Keyed
<1>2. CASE Insertable(line) /\ lines' = lines \cup {line} /\ UNCHANGED calm
  BY <1>1, <1>2 DEF Keyed, Insertable, Calm
<1>3. CASE ~Insertable(line) /\ UNCHANGED <<lines, calm>>
  BY <1>1, <1>3 DEF Calm
<1>4. CASE Fails(c, "insert") /\ UNCHANGED lines
  BY <1>1, <1>4, FailsLemma
<1>5. QED
  BY <1>2, <1>3, <1>4 DEF insert_data_lines

\* What the invariant says of the locals.
LEMMA TypesLemma ==
  ASSUME Inv
  PROVE  /\ local \in [Conns -> Locals] /\ pc \in [Conns -> PcStates]
         /\ Requests \subseteq CrossLines /\ Keyed(lines) /\ lines \subseteq CrossLines
         /\ \A c \in Conns : /\ local[c] \in Locals /\ local[c].line \in Requests
                             /\ local[c].httpLines \subseteq CameraLines
                             /\ local[c].realLines \subseteq Requests
                             /\ local[c].reply \subseteq Replies
BY DEF Inv, TypeOK, RowsInv, Locals, CrossLines, Keyed

\* update_data_baseLines changes neither an index nor a coordinate.
LEMMA UpdateLemma ==
  ASSUME NEW rows \in SUBSET BaseLines, NEW new \in BaseLines
  PROVE  LET after == update_data_baseLines(rows, new)
         IN  /\ after \subseteq BaseLines
             /\ IndexesOf(after) = IndexesOf(rows) /\ Places(after) = Places(rows)
<1> DEFINE u(row) == IF row.index = new.index THEN [row EXCEPT !.matrixNums = new.matrixNums]
                                              ELSE row
<1>1. \A row \in rows : u(row) \in BaseLines /\ u(row).index = row.index /\ u(row).at = row.at
  BY DEF BaseLines
<1>2. update_data_baseLines(rows, new) = {u(row) : row \in rows}
  BY Zenon DEF update_data_baseLines
<1> HIDE DEF u
<1>3. {u(row) : row \in rows} \subseteq BaseLines
  BY <1>1
<1>4. IndexesOf({u(row) : row \in rows}) = IndexesOf(rows)
  BY <1>1 DEF IndexesOf
<1>5. Places({u(row) : row \in rows}) = Places(rows)
  BY <1>1 DEF Places
<1>6. QED
  BY <1>2, <1>3, <1>4, <1>5, Zenon

\* Request 5: what its answer reports and what it has done.
LEMMA BaseLineLemma ==
  ASSUME Inv, NEW c \in Conns, InsertBaseLine(c)
  PROVE  \E reply \in SUBSET {"insert_success", "update_success"} :
           /\ baseLines' \subseteq BaseLines
           /\ local' = [local EXCEPT ![c] = [Idle EXCEPT !.reply = reply]]
           /\ "insert_success" \in reply => IndexesOf(baseLines') # IndexesOf(baseLines)
           /\ "insert_success" \notin reply => Places(baseLines') = Places(baseLines)
<1>1. PICK new \in BaseLines, failed \in SUBSET (Faults \cap {"insert", "update"}) :
        LET inserted == "insert" \notin failed /\ insert_data_baseLines(new)
            updated == "update" \notin failed
            rows == IF inserted THEN baseLines \cup {new} ELSE baseLines
        IN  /\ baseLines' = IF updated THEN update_data_baseLines(rows, new) ELSE rows
            /\ AnswerWith(c, [Idle EXCEPT !.reply =
                                (IF inserted THEN {"insert_success"} ELSE {})
                                  \cup (IF updated THEN {"update_success"} ELSE {})])
  BY Zenon DEF InsertBaseLine
<1> DEFINE inserted == "insert" \notin failed /\ insert_data_baseLines(new)
           updated == "update" \notin failed
           rows == IF inserted THEN baseLines \cup {new} ELSE baseLines
           reply == (IF inserted THEN {"insert_success"} ELSE {})
                      \cup (IF updated THEN {"update_success"} ELSE {})
<1>2. /\ baseLines' = IF updated THEN update_data_baseLines(rows, new) ELSE rows
      /\ local' = [local EXCEPT ![c] = [Idle EXCEPT !.reply = reply]]
  BY <1>1, Zenon DEF AnswerWith
<1>3. baseLines \subseteq BaseLines /\ rows \in SUBSET BaseLines
  BY DEF Inv, TypeOK
<1>4. /\ baseLines' \subseteq BaseLines
      /\ IndexesOf(baseLines') = IndexesOf(rows) /\ Places(baseLines') = Places(rows)
  <2> HIDE DEF rows, updated
  <2>1. QED
    BY <1>2, <1>3, UpdateLemma
<1>5. /\ reply \in SUBSET {"insert_success", "update_success"}
      /\ "insert_success" \in reply <=> inserted
  BY DEF inserted
<1>6. inserted => IndexesOf(rows) # IndexesOf(baseLines)
  BY DEF insert_data_baseLines, IndexesOf
<1>7. ~inserted => rows = baseLines
  OBVIOUS
<1> HIDE DEF inserted, updated, rows, reply
<1>8. QED
  BY <1>2, <1>4, <1>5, <1>6, <1>7, Zenon

\* The types after a step, piece by piece.
LEMMA TypesAfter ==
  ASSUME lines' \subseteq Requests, Keyed(lines'),
         baseLines' \subseteq BaseLines, verticalLineEquations' \subseteq BaseIndexes,
         camera' \subseteq CameraLines, pc' \in [Conns -> PcStates],
         local' \in [Conns -> Locals], \A c \in Conns : local'[c].realLines \subseteq Requests,
         quiet' \subseteq Conns, before' \subseteq CrossLines, Keyed(before')
  PROVE  TypeOK' /\ RowsInv'
BY DEF TypeOK, RowsInv, Keyed, CrossLines

\* Every step preserves the invariant.
LEMMA InvStep == Inv /\ [Next]_vars => Inv'
<1> SUFFICES ASSUME Inv, [Next]_vars PROVE Inv'
  OBVIOUS
<1> USE DEF tables
<1>t. /\ local \in [Conns -> Locals] /\ pc \in [Conns -> PcStates]
      /\ Requests \subseteq CrossLines /\ Keyed(lines) /\ lines \subseteq CrossLines
      /\ \A c \in Conns : /\ local[c] \in Locals /\ local[c].line \in Requests
                          /\ local[c].httpLines \subseteq CameraLines
                          /\ local[c].realLines \subseteq Requests
                          /\ local[c].reply \subseteq Replies
      /\ lines \subseteq Requests /\ baseLines \subseteq BaseLines
      /\ verticalLineEquations \subseteq BaseIndexes /\ camera \subseteq CameraLines
  BY TypesLemma DEF Inv, TypeOK, RowsInv
<1>1. ASSUME NEW c \in Conns, InsertRequest(c) PROVE Inv'
  <2>1. PICK line \in Requests : local' = [local EXCEPT ![c] = [Idle EXCEPT !.line = line]]
    BY <1>1 DEF InsertRequest
  <2>2. /\ pc[c] = "idle" /\ pc' = [pc EXCEPT ![c] = "insert"] /\ Begin(c)
        /\ UNCHANGED <<tables, camera>>
    BY <1>1 DEF InsertRequest, At, Goto
  <2> DEFINE r == [Idle EXCEPT !.line = line]
  <2>3. r \in Locals /\ r.realLines = {}
    BY IdleLemma, FieldsLemma
  <2>4. local' = [local EXCEPT ![c] = r]
    BY <2>1
  <2> HIDE DEF r
  <2>5. local' \in [Conns -> Locals] /\ \A d \in Conns : local'[d].realLines \subseteq Requests
    BY <2>3, <2>4, <1>t, LocalsLemma
  <2>6. pc' \in [Conns -> PcStates]
    BY <2>2, <1>t DEF PcStates
  <2>7. TypeOK' /\ RowsInv'
    BY <2>2, <2>5, <2>6, <1>t, BeginLemma, TypesAfter
  <2>8. QED
    BY <2>2, <2>7, BeginStep
<1>2. ASSUME NEW c \in Conns, InsertLine(c) PROVE Inv'
  <2>1. PICK done \in BOOLEAN :
          /\ insert_data_lines(c, local[c].line, done)
          /\ local' = [local EXCEPT ![c].reply = IF done THEN {"mapping_success"} ELSE {}]
    BY <1>2 DEF InsertLine
  <2>2. PICK there \in {"put", "table"} : pc' = [pc EXCEPT ![c] = there]
    BY <1>2 DEF InsertLine, AfterInsert, Goto
  <2>3. pc[c] = "insert" /\ UNCHANGED <<baseLines, verticalLineEquations, camera>>
    BY <1>2 DEF InsertLine, At
  <2> DEFINE r == [local[c] EXCEPT !.reply = IF done THEN {"mapping_success"} ELSE {}]
  <2>4. r \in Locals /\ r.realLines = local[c].realLines
    BY <1>t, FieldsLemma DEF Replies
  <2>5. local' = [local EXCEPT ![c] = r]
    BY <2>1
  <2> HIDE DEF r
  <2>6. local' \in [Conns -> Locals] /\ \A d \in Conns : local'[d].realLines \subseteq Requests
    BY <2>4, <2>5, <1>t, LocalsLemma
  <2>7. lines' \subseteq Requests /\ Keyed(lines') /\ Calm
    BY <2>1, <1>t, InsertLemma
  <2>8. pc' \in [Conns -> PcStates]
    BY <2>2, <1>t DEF PcStates
  <2>9. TypeOK' /\ RowsInv'
    BY <2>3, <2>6, <2>7, <2>8, <1>t, CalmLemma, TypesAfter
  <2>10. Achieved(c)'
    BY <2>2, <1>t DEF Achieved
  <2>11. QED
    BY <2>2, <2>3, <2>7, <2>9, <2>10, OwnStep DEF Calm, calm
<1>3. ASSUME NEW c \in Conns, PutLine(c) PROVE Inv'
  <2>1. /\ pc[c] = "put" /\ pc' = [pc EXCEPT ![c] = "answer"]
        /\ local' = [local EXCEPT ![c] = [Idle EXCEPT !.reply = local[c].reply]]
        /\ UNCHANGED tables
    BY <1>3 DEF PutLine, AnswerWith, At, Goto
  <2>2. camera' \subseteq CameraLines
    BY <1>3, <1>t DEF PutLine, CameraLines
  <2>3. Calm
    BY <1>3, FailsLemma DEF PutLine, Calm
  <2> DEFINE r == [Idle EXCEPT !.reply = local[c].reply]
  <2>4. r \in Locals /\ r.realLines = {}
    BY <1>t, IdleLemma, FieldsLemma
  <2>5. local' = [local EXCEPT ![c] = r]
    BY <2>1
  <2> HIDE DEF r
  <2>6. local' \in [Conns -> Locals] /\ \A d \in Conns : local'[d].realLines \subseteq Requests
    BY <2>4, <2>5, <1>t, LocalsLemma
  <2>7. pc' \in [Conns -> PcStates]
    BY <2>1, <1>t DEF PcStates
  <2>8. TypeOK' /\ RowsInv'
    BY <2>1, <2>2, <2>3, <2>6, <2>7, <1>t, CalmLemma, TypesAfter
  <2>9. Achieved(c)'
    BY <2>1, <1>t DEF Achieved
  <2>10. QED
    BY <2>1, <2>3, <2>8, <2>9, OwnStep DEF Calm, calm
<1>4. ASSUME NEW c \in Conns, SelectTable(c) PROVE Inv'
  <2>1. PICK dbLines \in SUBSET lines :
          /\ select_all_data_lines(c, dbLines)
          /\ AnswerWith(c, [Idle EXCEPT !.realLines = dbLines])
    BY <1>4 DEF SelectTable
  <2>2. /\ pc[c] = "table" /\ pc' = [pc EXCEPT ![c] = "answer"]
        /\ UNCHANGED <<tables, camera>>
    BY <1>4, <2>1 DEF SelectTable, AnswerWith, At, Goto
  <2>3. Calm
    BY <2>1, FailsLemma DEF select_all_data_lines, Calm
  <2> DEFINE r == [Idle EXCEPT !.realLines = dbLines]
  <2>4. r \in Locals /\ r.realLines = dbLines
    BY <1>t, IdleLemma, FieldsLemma
  <2>5. local' = [local EXCEPT ![c] = r]
    BY <2>1 DEF AnswerWith
  <2> HIDE DEF r
  <2>6. local' \in [Conns -> Locals] /\ \A d \in Conns : local'[d].realLines \subseteq Requests
    BY <2>4, <2>5, <1>t, LocalsLemma
  <2>7. pc' \in [Conns -> PcStates]
    BY <2>2, <1>t DEF PcStates
  <2>8. TypeOK' /\ RowsInv'
    BY <2>2, <2>3, <2>6, <2>7, <1>t, CalmLemma, TypesAfter
  <2>9. Achieved(c)'
    BY <2>2, <1>t DEF Achieved
  <2>10. QED
    BY <2>2, <2>3, <2>8, <2>9, OwnStep DEF Calm, calm
<1>5. ASSUME NEW c \in Conns, SelectRequest(c) PROVE Inv'
  <2>1. /\ pc[c] = "idle" /\ pc' = [pc EXCEPT ![c] = "get"] /\ Begin(c)
        /\ UNCHANGED <<tables, camera, local>>
    BY <1>5 DEF SelectRequest, At, Goto
  <2>2. pc' \in [Conns -> PcStates]
    BY <2>1, <1>t DEF PcStates
  <2>3. TypeOK' /\ RowsInv'
    BY <2>1, <2>2, <1>t, BeginLemma, TypesAfter
  <2>4. QED
    BY <2>1, <2>3, BeginStep
<1>6. ASSUME NEW c \in Conns, NEW here, NEW there, GetLines(c, here, there),
             \/ here = "get" /\ there = "select"
             \/ here = "delete_get" /\ there = "delete_camera"
      PROVE  Inv'
  <2>1. /\ pc[c] = here /\ here # "idle" /\ there \in PcStates
        /\ UNCHANGED <<tables, camera>>
    BY <1>6 DEF GetLines, At, PcStates
  <2>2. ASSUME NEW read \in SUBSET CameraLines,
               local' = [local EXCEPT ![c].httpLines = read],
               pc' = [pc EXCEPT ![c] = there],
               (read = camera /\ UNCHANGED calm) \/ Fails(c, "camera")
        PROVE  Inv'
    <3> DEFINE r == [local[c] EXCEPT !.httpLines = read]
    <3>1. r \in Locals /\ r.realLines = local[c].realLines /\ r.httpLines = read
      BY <1>t, FieldsLemma
    <3>2. local' = [local EXCEPT ![c] = r]
      BY <2>2
    <3> HIDE DEF r
    <3>3. /\ local' \in [Conns -> Locals] /\ local'[c] = r
          /\ \A d \in Conns : local'[d].realLines \subseteq Requests
      BY <3>1, <3>2, <1>t, LocalsLemma
    <3>4. Calm /\ (c \in quiet' => read = camera /\ UNCHANGED calm)
      BY <2>2, FailsLemma DEF Calm
    <3>5. pc' \in [Conns -> PcStates] /\ pc'[c] = there
      BY <2>1, <2>2, <1>t
    <3>6. TypeOK' /\ RowsInv'
      BY <2>1, <3>3, <3>4, <3>5, <1>t, CalmLemma, TypesAfter
    <3>7. c \in quiet' => Achieved(c)'
      <4>1. c \in quiet' => (here = "get" => lines = before)
        BY <2>1, <3>4 DEF Inv, QuietInv, Achieved, calm
      <4>2. QED
        BY <1>6, <2>1, <3>1, <3>3, <3>4, <3>5, <4>1 DEF Achieved, calm
    <3>8. QED
      BY <2>1, <2>2, <3>4, <3>6, <3>7, OwnStep DEF Calm, calm
  <2>3. CASE Fails(c, "camera") /\ Return(c)
    <3>1. /\ pc' = [pc EXCEPT ![c] = "idle"] /\ local' = [local EXCEPT ![c] = Idle]
          /\ Calm /\ c \notin quiet'
      BY <2>3, FailsLemma DEF Return, Goto
    <3>2. local' \in [Conns -> Locals] /\ \A d \in Conns : local'[d].realLines \subseteq Requests
      BY <3>1, <1>t, IdleLemma, LocalsLemma
    <3>3. pc' \in [Conns -> PcStates]
      BY <3>1, <1>t DEF PcStates
    <3>4. TypeOK' /\ RowsInv'
      BY <2>1, <3>1, <3>2, <3>3, <1>t, CalmLemma, TypesAfter
    <3>5. QED
      BY <2>1, <3>1, <3>4, OwnStep DEF Calm, calm
  <2>4. camera \in SUBSET CameraLines /\ {} \in SUBSET CameraLines
    BY <1>t
  <2>5. QED
    BY <1>6, <2>2, <2>3, <2>4, Zenon DEF GetLines, Goto
<1>7. ASSUME NEW c \in Conns, SelectLines(c) PROVE Inv'
  <2>1. PICK dbLines \in SUBSET lines :
          /\ select_all_data_lines(c, dbLines)
          /\ local' = [local EXCEPT ![c].realLines = RealLines(c, dbLines),
                                    ![c].httpLines = {}]
    BY <1>7 DEF SelectLines
  <2>2. /\ pc[c] = "select" /\ pc' = [pc EXCEPT ![c] = "empty"]
        /\ UNCHANGED <<tables, camera>>
    BY <1>7 DEF SelectLines, At, Goto
  <2>3. Calm /\ (c \in quiet' => dbLines = lines /\ UNCHANGED calm)
    BY <2>1, FailsLemma DEF select_all_data_lines, Calm
  <2>4. RealLines(c, dbLines) \subseteq Requests
    BY <1>t DEF RealLines
  <2> DEFINE q == [local[c] EXCEPT !.realLines = RealLines(c, dbLines)]
             r == [q EXCEPT !.httpLines = {}]
  <2>5. q \in Locals /\ q.realLines = RealLines(c, dbLines)
    BY <1>t, <2>4, FieldsLemma
  <2>6. local' = [[local EXCEPT ![c] = q] EXCEPT ![c].httpLines = {}]
    BY <2>1, Zenon
  <2> HIDE DEF q
  <2>7. r \in Locals /\ r.realLines = RealLines(c, dbLines)
    BY <2>5, FieldsLemma
  <2>8. local' = [local EXCEPT ![c] = r]
    BY <2>6, <1>t
  <2> HIDE DEF r
  <2>9. /\ local' \in [Conns -> Locals] /\ local'[c] = r
        /\ \A d \in Conns : local'[d].realLines \subseteq Requests
    BY <2>4, <2>7, <2>8, <1>t, LocalsLemma
  <2>10. pc' \in [Conns -> PcStates] /\ pc'[c] = "empty"
    BY <2>2, <1>t DEF PcStates
  <2>11. TypeOK' /\ RowsInv'
    BY <2>2, <2>3, <2>9, <2>10, <1>t, CalmLemma, TypesAfter
  <2>12. c \in quiet' => Achieved(c)'
    <3>1. c \in quiet' => lines = before /\ local[c].httpLines = camera
      BY <2>2, <2>3 DEF Inv, QuietInv, Achieved, calm
    <3>2. c \in quiet' => RealLines(c, dbLines) = Shown
      BY <2>3, <3>1 DEF RealLines, Shown
    <3>3. Shown' = Shown \/ c \notin quiet'
      BY <2>2, <2>3 DEF Shown, calm, IndexesOf
    <3>4. QED
      BY <2>7, <2>9, <2>10, <3>2, <3>3 DEF Achieved
  <2>13. QED
    BY <2>2, <2>3, <2>11, <2>12, OwnStep DEF Calm, calm
<1>8. ASSUME NEW c \in Conns, EmptyLines(c) PROVE Inv'
  <2>1. /\ pc[c] = "empty" /\ pc' = [pc EXCEPT ![c] = "refill"]
        /\ UNCHANGED <<baseLines, verticalLineEquations, camera, local>>
    BY <1>8 DEF EmptyLines, At, Goto
  <2>2. lines' \in {lines, {}} /\ Calm /\ (c \in quiet' => lines' = {} /\ UNCHANGED calm)
    BY <1>8, FailsLemma DEF EmptyLines, Calm
  <2>3. pc' \in [Conns -> PcStates] /\ pc'[c] = "refill"
    BY <2>1, <1>t DEF PcStates
  <2>4. lines' \subseteq Requests /\ Keyed(lines')
    BY <2>2, <1>t DEF Keyed
  <2>5. TypeOK' /\ RowsInv'
    BY <2>1, <2>2, <2>3, <2>4, <1>t, CalmLemma, TypesAfter
  <2>6. c \in quiet' => Achieved(c)'
    <3>1. c \in quiet' => local[c].realLines = Shown
      BY <2>1, <2>2 DEF Inv, QuietInv, Achieved, calm
    <3>2. Shown' = Shown \/ c \notin quiet'
      BY <2>1, <2>2 DEF Shown, calm, IndexesOf
    <3>3. QED
      BY <2>1, <2>2, <2>3, <3>1, <3>2 DEF Achieved
  <2>7. QED
    BY <2>1, <2>2, <2>5, <2>6, OwnStep DEF Calm, calm
<1>9. ASSUME NEW c \in Conns, RefillLine(c) PROVE Inv'
  <2>1. PICK line \in local[c].realLines, done \in BOOLEAN :
          /\ insert_data_lines(c, line, done)
          /\ local' = [local EXCEPT ![c].realLines = @ \ {line}]
    BY <1>9 DEF RefillLine
  <2>2. /\ pc[c] = "refill" /\ UNCHANGED <<baseLines, verticalLineEquations, camera, pc>>
    BY <1>9 DEF RefillLine, At
  <2>3. line \in Requests /\ local[c].realLines \ {line} \subseteq Requests
    BY <2>1, <1>t
  <2> DEFINE r == [local[c] EXCEPT !.realLines = local[c].realLines \ {line}]
  <2>4. r \in Locals /\ r.realLines = local[c].realLines \ {line}
    BY <2>3, <1>t, FieldsLemma
  <2>5. local' = [local EXCEPT ![c] = r]
    BY <2>1
  <2> HIDE DEF r
  <2>6. /\ local' \in [Conns -> Locals] /\ local'[c] = r
        /\ \A d \in Conns : local'[d].realLines \subseteq Requests
    BY <2>3, <2>4, <2>5, <1>t, LocalsLemma
  <2>7. /\ lines' \subseteq Requests /\ Keyed(lines') /\ Calm
        /\ c \in quiet' => /\ UNCHANGED calm
                           /\ \/ lines' = lines \cup {line}
                              \/ lines' = lines /\ ~Insertable(line)
    BY <2>1, <2>3, InsertLemma
  <2>8. TypeOK' /\ RowsInv'
    BY <2>2, <2>6, <2>7, <1>t, CalmLemma, TypesAfter
  <2>9. c \in quiet' => Achieved(c)'
    <3> SUFFICES ASSUME c \in quiet' PROVE Achieved(c)'
      OBVIOUS
    <3>1. /\ lines \cup local[c].realLines = Shown
          /\ lines \cap local[c].realLines = {}
      BY <2>2, <2>7 DEF Inv, QuietInv, Achieved, calm
    <3>2. Keyed(Shown)
      BY DEF Inv, RowsInv, Keyed, Shown
    <3>3. Insertable(line)
      BY <2>1, <3>1, <3>2 DEF Insertable, Keyed
    <3>4. lines' = lines \cup {line} /\ Shown' = Shown
      BY <2>2, <2>7, <3>3 DEF Shown, calm, IndexesOf
    <3>5. /\ lines' \cup local'[c].realLines = Shown'
          /\ lines' \cap local'[c].realLines = {}
      BY <2>1, <2>4, <2>6, <3>1, <3>4
    <3>6. QED
      BY <2>2, <3>5 DEF Achieved
  <2>10. pc' = [pc EXCEPT ![c] = "refill"]
    BY <2>2, <1>t
  <2>11. QED
    BY <2>2, <2>7, <2>8, <2>9, <2>10, OwnStep DEF Calm, calm
<1>10. ASSUME NEW c \in Conns, Return(c), pc[c] # "idle", UNCHANGED <<tables, camera, calm>>
       PROVE  Inv'
  <2>1. pc' = [pc EXCEPT ![c] = "idle"] /\ local' = [local EXCEPT ![c] = Idle] /\ Calm
    BY <1>10 DEF Return, Goto, Calm
  <2>2. local' \in [Conns -> Locals] /\ \A d \in Conns : local'[d].realLines \subseteq Requests
    BY <2>1, <1>t, IdleLemma, LocalsLemma
  <2>3. pc' \in [Conns -> PcStates] /\ pc'[c] = "idle"
    BY <2>1, <1>t DEF PcStates
  <2>4. TypeOK' /\ RowsInv'
    BY <1>10, <2>1, <2>2, <2>3, <1>t, CalmLemma, TypesAfter
  <2>5. Achieved(c)'
    BY <2>3 DEF Achieved
  <2>6. QED
    BY <1>10, <2>1, <2>4, <2>5, OwnStep DEF calm
<1>11. ASSUME NEW c \in Conns, DeleteRequest(c) PROVE Inv'
  <2>1. /\ pc[c] = "idle" /\ pc' = [pc EXCEPT ![c] = "delete_get"] /\ Begin(c)
        /\ UNCHANGED <<tables, camera, local>>
    BY <1>11 DEF DeleteRequest, At, Goto
  <2>2. pc' \in [Conns -> PcStates]
    BY <2>1, <1>t DEF PcStates
  <2>3. TypeOK' /\ RowsInv'
    BY <2>1, <2>2, <1>t, BeginLemma, TypesAfter
  <2>4. QED
    BY <2>1, <2>3, BeginStep
<1>12. ASSUME NEW c \in Conns, DeleteOnCamera(c) PROVE Inv'
  <2>1. PICK line \in local[c].httpLines :
          /\ local' = [local EXCEPT ![c].httpLines = @ \ {line}]
          /\ \/ camera' = {l \in camera : l.index # line.index} /\ UNCHANGED calm
             \/ Fails(c, "camera") /\ UNCHANGED camera
    BY <1>12 DEF DeleteOnCamera
  <2>2. pc[c] = "delete_camera" /\ UNCHANGED <<tables, pc>>
    BY <1>12 DEF DeleteOnCamera, At
  <2> DEFINE r == [local[c] EXCEPT !.httpLines = local[c].httpLines \ {line}]
  <2>3. /\ r \in Locals /\ r.realLines = local[c].realLines
        /\ r.httpLines = local[c].httpLines \ {line}
    <3>1. local[c].httpLines \ {line} \in SUBSET CameraLines
      BY <1>t
    <3>2. QED
      BY <3>1, <1>t, FieldsLemma
  <2>4. local' = [local EXCEPT ![c] = r]
    BY <2>1
  <2> HIDE DEF r
  <2>5. /\ local' \in [Conns -> Locals] /\ local'[c] = r
        /\ \A d \in Conns : local'[d].realLines \subseteq Requests
    BY <2>3, <2>4, <1>t, LocalsLemma
  <2>6. /\ Calm /\ camera' \subseteq CameraLines
        /\ c \in quiet' => camera' = {l \in camera : l.index # line.index} /\ UNCHANGED calm
    BY <2>1, <1>t, FailsLemma DEF Calm
  <2>7. TypeOK' /\ RowsInv'
    BY <2>2, <2>5, <2>6, <1>t, CalmLemma, TypesAfter
  <2>8. c \in quiet' => Achieved(c)'
    <3>1. c \in quiet' => camera \subseteq local[c].httpLines
      BY <2>2, <2>6 DEF Inv, QuietInv, Achieved, calm
    <3>2. c \in quiet' => camera' \subseteq local'[c].httpLines
      BY <2>3, <2>5, <2>6, <3>1
    <3>3. QED
      BY <2>2, <3>2 DEF Achieved
  <2>9. pc' = [pc EXCEPT ![c] = "delete_camera"]
    BY <2>2, <1>t
  <2>10. QED
    BY <2>2, <2>6, <2>7, <2>8, <2>9, OwnStep DEF Calm, calm
<1>13. ASSUME NEW c \in Conns, DeleteTables(c) PROVE Inv'
  <2>1. PICK failed \in SUBSET {"lines", "baseLines", "verticalLineEquations"},
             reply \in SUBSET Replies :
          /\ \/ failed = {} /\ UNCHANGED calm
             \/ failed # {} /\ Fails(c, "delete")
          /\ lines' = Remaining(lines, "lines", failed)
          /\ baseLines' = Remaining(baseLines, "baseLines", failed)
          /\ verticalLineEquations' =
               Remaining(verticalLineEquations, "verticalLineEquations", failed)
          /\ local' = [local EXCEPT ![c].reply = reply]
    <3>1. {"delete_success"} \in SUBSET Replies /\ {} \in SUBSET Replies
      BY DEF Replies
    <3>2. QED
      BY <1>13, <3>1, Zenon DEF DeleteTables
  <2>2. /\ pc[c] = "delete_camera" /\ pc' = [pc EXCEPT ![c] = "deleted"]
        /\ local[c].httpLines = {} /\ UNCHANGED camera
    BY <1>13 DEF DeleteTables, At, Goto
  <2> DEFINE r == [local[c] EXCEPT !.reply = reply]
  <2>3. r \in Locals /\ r.realLines = local[c].realLines
    BY <2>1, <1>t, FieldsLemma
  <2>4. local' = [local EXCEPT ![c] = r]
    BY <2>1
  <2> HIDE DEF r
  <2>5. local' \in [Conns -> Locals] /\ \A d \in Conns : local'[d].realLines \subseteq Requests
    BY <2>3, <2>4, <1>t, LocalsLemma
  <2>6. Calm /\ (c \in quiet' => failed = {} /\ UNCHANGED calm)
    BY <2>1, FailsLemma DEF Calm
  <2>7. /\ lines' \subseteq Requests /\ Keyed(lines') /\ baseLines' \subseteq BaseLines
        /\ verticalLineEquations' \subseteq BaseIndexes
    BY <2>1, <1>t DEF Remaining, Keyed
  <2>8. pc' \in [Conns -> PcStates] /\ pc'[c] = "deleted"
    BY <2>2, <1>t DEF PcStates
  <2>9. TypeOK' /\ RowsInv'
    BY <2>2, <2>5, <2>6, <2>7, <2>8, <1>t, CalmLemma, TypesAfter
  <2>10. c \in quiet' => Achieved(c)'
    <3>1. c \in quiet' => camera = {}
      BY <2>2, <2>6 DEF Inv, QuietInv, Achieved, calm
    <3>2. c \in quiet' => lines' = {} /\ baseLines' = {} /\ verticalLineEquations' = {}
      BY <2>1, <2>6 DEF Remaining
    <3>3. QED
      BY <2>2, <2>8, <3>1, <3>2 DEF Achieved
  <2>11. QED
    BY <2>2, <2>6, <2>9, <2>10, OwnStep DEF Calm, calm
<1>14. ASSUME NEW c \in Conns, NEW r \in Locals, r.realLines = {},
              AnswerWith(c, r), Disturb, lines' = lines, camera' = camera,
              baseLines' \subseteq BaseLines, verticalLineEquations' \subseteq BaseIndexes
       PROVE  Inv'
  <2>1. pc' = [pc EXCEPT ![c] = "answer"] /\ local' = [local EXCEPT ![c] = r]
    BY <1>14 DEF AnswerWith, Goto
  <2>2. local' \in [Conns -> Locals] /\ \A d \in Conns : local'[d].realLines \subseteq Requests
    BY <1>14, <2>1, <1>t, LocalsLemma
  <2>3. pc' \in [Conns -> PcStates]
    BY <2>1, <1>t DEF PcStates
  <2>4. Calm
    BY <1>14 DEF Disturb, Calm
  <2>5. TypeOK' /\ RowsInv'
    BY <1>14, <2>2, <2>3, <2>4, <1>t, CalmLemma, TypesAfter
  <2>6. QED
    BY <1>14, <2>5, DisturbStep
<1>15. ASSUME NEW c \in Conns, InsertBaseLine(c) PROVE Inv'
  <2>1. PICK reply \in SUBSET {"insert_success", "update_success"} :
          /\ baseLines' \subseteq BaseLines
          /\ local' = [local EXCEPT ![c] = [Idle EXCEPT !.reply = reply]]
    BY <1>15, BaseLineLemma, Zenon
  <2> DEFINE r == [Idle EXCEPT !.reply = reply]
  <2>2. r \in Locals /\ r.realLines = {}
    BY IdleLemma, FieldsLemma DEF Replies
  <2>3. local' = [local EXCEPT ![c] = r]
    BY <2>1
  <2> HIDE DEF r
  <2>4. /\ Goto(c, "answer") /\ Disturb
        /\ UNCHANGED <<lines, verticalLineEquations, camera>>
    BY <1>15, Zenon DEF InsertBaseLine, AnswerWith
  <2>5. QED
    BY <2>1, <2>2, <2>3, <2>4, <1>t, <1>14 DEF AnswerWith
<1>16. ASSUME NEW c \in Conns, InsertVerticalLine(c) PROVE Inv'
  <2>1. PICK reply \in SUBSET {"insert_success"} :
          AnswerWith(c, [Idle EXCEPT !.reply = reply]) \/ AnswerWith(c, Idle)
    BY <1>16, Zenon DEF InsertVerticalLine
  <2> DEFINE r == [Idle EXCEPT !.reply = reply]
  <2>2. r \in Locals /\ r.realLines = {} /\ Idle \in Locals /\ Idle.realLines = {}
    BY IdleLemma, FieldsLemma DEF Replies
  <2>3. AnswerWith(c, r) \/ AnswerWith(c, Idle)
    BY <2>1
  <2> HIDE DEF r
  <2>4. verticalLineEquations' \subseteq BaseIndexes /\ Disturb
        /\ UNCHANGED <<lines, baseLines, camera>>
    BY <1>16, <1>t DEF InsertVerticalLine
  <2>5. QED
    BY <2>2, <2>3, <2>4, <1>t, <1>14
<1>17. ASSUME NEW c \in Conns, SelectBaseLines(c) PROVE Inv'
  <2>1. PICK rows \in SUBSET baseLines : AnswerWith(c, [Idle EXCEPT !.baseLines = rows])
    BY <1>17 DEF SelectBaseLines
  <2> DEFINE r == [Idle EXCEPT !.baseLines = rows]
  <2>2. r \in Locals /\ r.realLines = {}
    BY <1>t, IdleLemma, FieldsLemma
  <2>3. AnswerWith(c, r)
    BY <2>1
  <2> HIDE DEF r
  <2>4. Disturb /\ UNCHANGED <<tables, camera>>
    BY <1>17 DEF SelectBaseLines
  <2>5. QED
    BY <2>2, <2>3, <2>4, <1>t, <1>14
<1>18. CASE CameraEdited
  <2>1. camera' \subseteq CameraLines /\ Disturb /\ UNCHANGED <<tables, pc, local>>
    BY <1>18, <1>t DEF CameraEdited, CameraLines
  <2>2. Calm
    BY <2>1 DEF Disturb, Calm
  <2>3. TypeOK' /\ RowsInv'
    BY <2>1, <2>2, <1>t, CalmLemma, TypesAfter
  <2>4. QED
    BY <2>1, <2>3, DisturbStep
<1>19. CASE Restart
  <2>1. /\ lines' \in {lines, {}} /\ baseLines' \in {baseLines, {}}
        /\ pc' = [c \in Conns |-> "idle"] /\ local' = [c \in Conns |-> Idle]
        /\ Disturb /\ UNCHANGED <<verticalLineEquations, camera>>
    BY <1>19 DEF Restart
  <2>2. Calm /\ pc' \in [Conns -> PcStates]
    BY <2>1 DEF Disturb, Calm, PcStates
  <2>3. lines' \subseteq Requests /\ Keyed(lines') /\ baseLines' \subseteq BaseLines
    BY <2>1, <1>t DEF Keyed
  <2>4. local' \in [Conns -> Locals] /\ \A d \in Conns : local'[d].realLines \subseteq Requests
    BY <2>1, IdleLemma
  <2>5. TypeOK' /\ RowsInv'
    BY <2>1, <2>2, <2>3, <2>4, <1>t, CalmLemma, TypesAfter
  <2>6. QED
    BY <2>1, <2>5, DisturbStep
<1>20. CASE UNCHANGED vars
  <2>1. UNCHANGED <<tables, camera, pc, local, quiet, before>>
    BY <1>20 DEF vars, calm
  <2>2. TypeOK' /\ RowsInv'
    BY <2>1 DEF Inv, TypeOK, RowsInv, Keyed
  <2>3. QuietInv'
    BY <2>1 DEF Inv, QuietInv, Achieved, Shown, IndexesOf
  <2>4. QED
    BY <2>2, <2>3 DEF Inv
<1>21. ASSUME NEW c \in Conns, AnswerSelect(c) \/ AnswerDelete(c) \/ Answer(c) PROVE Inv'
  BY <1>10, <1>21 DEF AnswerSelect, AnswerDelete, Answer, At
<1>22. ASSUME NEW c \in Conns, SelectGetLines(c) \/ DeleteGetLines(c) PROVE Inv'
  BY <1>6, <1>22 DEF SelectGetLines, DeleteGetLines
<1>23. QED
  BY <1>1, <1>2, <1>3, <1>4, <1>5, <1>7, <1>8, <1>9, <1>11, <1>12, <1>13, <1>15, <1>16,
     <1>17, <1>18, <1>19, <1>20, <1>21, <1>22 DEF Next, Step

\* Inv holds at every moment.
LEMMA InvAlways == Spec => []Inv
<1>1. Init => Inv
  <2> SUFFICES ASSUME Init PROVE Inv
    OBVIOUS
  <2>1. TypeOK /\ RowsInv
    BY IdleLemma DEF Init, TypeOK, RowsInv, Keyed, PcStates
  <2>2. QED
    BY <2>1 DEF Init, Inv, QuietInv
<1>2. QED
  BY <1>1, InvStep, PTL DEF Spec

-----------------------------------------------------------------------------

\* The keys of the table lines stay unique while handlers of any number of
\* connections insert, empty and refill it.
THEOREM TypeCorrect == Spec => []TypeOK
BY InvAlways, PTL DEF Inv

\* A row of the table lines is a line as some client sent it, however many
\* connections are at work, whatever fails and whatever is drawn at the camera.
THEOREM RowsAlwaysAsSent == Spec => []RowsAsSent
<1>1. Inv => RowsAsSent
  BY DEF Inv, RowsInv, RowsAsSent
<1>2. QED
  BY <1>1, InvAlways, PTL

\* handle_line_select_all_request, when nothing disturbs it, leaves exactly the rows
\* whose index is on the camera: each insert of the refill succeeds, because the rows
\* it puts back had different keys before the table was emptied.
THEOREM SelectAlwaysKeepsCameraLines == Spec => []SelectKeepsCameraLines
<1>1. Inv => SelectKeepsCameraLines
  BY DEF Inv, QuietInv, Achieved, Shown, SelectKeepsCameraLines
<1>2. QED
  BY <1>1, InvAlways, PTL

\* handle_line_delete_all_request, when nothing disturbs it, leaves nothing in the
\* three tables or on the camera.
THEOREM DeleteAlwaysLeavesNothing == Spec => []DeleteLeavesNothing
<1>1. Inv => DeleteLeavesNothing
  BY DEF Inv, QuietInv, Achieved, DeleteLeavesNothing
<1>2. QED
  BY <1>1, InvAlways, PTL

-----------------------------------------------------------------------------

\* What the answers report that they did not report before is true.
Truthful == \A c \in Conns : \A r \in local'[c].reply \ local[c].reply : Happened(c, r)

\* A step after which an answer reports no more than before.
LEMMA SilentLemma ==
  ASSUME Inv, NEW c \in Conns, NEW r \in Locals, r.reply \subseteq local[c].reply,
         local' = [local EXCEPT ![c] = r]
  PROVE  Truthful
BY LocalsLemma DEF Inv, TypeOK, Truthful

\* A step that can let the answer of one connection report more.
LEMMA ReportLemma ==
  ASSUME Inv, NEW c \in Conns, NEW r \in Locals, local' = [local EXCEPT ![c] = r],
         \A x \in r.reply : Happened(c, x)
  PROVE  Truthful
BY LocalsLemma DEF Inv, TypeOK, Truthful

\* Every step lets the answers report only what it does.
LEMMA TruthfulStep == Inv /\ [Next]_vars => Truthful \/ UNCHANGED vars
<1> SUFFICES ASSUME Inv, Next PROVE Truthful
  OBVIOUS
<1> USE DEF tables
<1>t. /\ local \in [Conns -> Locals] /\ lines \subseteq CrossLines
      /\ \A c \in Conns : /\ local[c] \in Locals
                          /\ local[c].httpLines \subseteq CameraLines
                          /\ local[c].realLines \subseteq CrossLines
                          /\ local[c].reply \subseteq Replies
      /\ baseLines \subseteq BaseLines /\ camera \subseteq CameraLines
  BY TypesLemma DEF Inv, TypeOK, RowsInv
<1>1. ASSUME NEW c \in Conns, InsertRequest(c) PROVE Truthful
  <2>1. PICK line \in Requests : local' = [local EXCEPT ![c] = [Idle EXCEPT !.line = line]]
    BY <1>1 DEF InsertRequest
  <2>2. [Idle EXCEPT !.line = line] \in Locals /\ [Idle EXCEPT !.line = line].reply = {}
    BY IdleLemma, FieldsLemma
  <2>3. QED
    BY <2>1, <2>2, SilentLemma
<1>2. ASSUME NEW c \in Conns, InsertLine(c) PROVE Truthful
  <2>1. PICK done \in BOOLEAN :
          /\ insert_data_lines(c, local[c].line, done)
          /\ local' = [local EXCEPT ![c].reply = IF done THEN {"mapping_success"} ELSE {}]
    BY <1>2 DEF InsertLine
  <2> DEFINE r == [local[c] EXCEPT !.reply = IF done THEN {"mapping_success"} ELSE {}]
  <2>2. r \in Locals /\ r.reply = IF done THEN {"mapping_success"} ELSE {}
    BY <1>t, FieldsLemma DEF Replies
  <2>3. local' = [local EXCEPT ![c] = r]
    BY <2>1
  <2> HIDE DEF r
  <2>4. done => lines' = lines \cup {local[c].line} /\ local[c].line \notin lines
    BY <2>1 DEF insert_data_lines, Insertable
  <2>5. \A x \in r.reply : Happened(c, x)
    BY <2>2, <2>4 DEF Happened
  <2>6. QED
    BY <2>2, <2>3, <2>5, ReportLemma
<1>3. ASSUME NEW c \in Conns, PutLine(c) PROVE Truthful
  <2>1. local' = [local EXCEPT ![c] = [Idle EXCEPT !.reply = local[c].reply]]
    BY <1>3 DEF PutLine, AnswerWith
  <2> DEFINE r == [Idle EXCEPT !.reply = local[c].reply]
  <2>2. local[c].reply \in SUBSET Replies
    BY <1>t
  <2>3. r \in Locals /\ r.reply = local[c].reply
    BY <2>2, IdleLemma, FieldsLemma
  <2>4. QED
    BY <2>1, <2>3, SilentLemma
<1>4. ASSUME NEW c \in Conns, SelectTable(c) PROVE Truthful
  <2>1. PICK dbLines \in SUBSET lines :
          local' = [local EXCEPT ![c] = [Idle EXCEPT !.realLines = dbLines]]
    BY <1>4 DEF SelectTable, AnswerWith
  <2> DEFINE r == [Idle EXCEPT !.realLines = dbLines]
  <2>2. r \in Locals /\ r.reply = {}
    BY <1>t, IdleLemma, FieldsLemma
  <2>3. QED
    BY <2>1, <2>2, SilentLemma
<1>5. ASSUME UNCHANGED local PROVE Truthful
  BY <1>5 DEF Truthful
<1>6. ASSUME NEW c \in Conns, NEW read \in SUBSET CameraLines,
             local' = [local EXCEPT ![c].httpLines = read]
      PROVE  Truthful
  <2> DEFINE r == [local[c] EXCEPT !.httpLines = read]
  <2>1. r \in Locals /\ r.reply = local[c].reply
    BY <1>t, FieldsLemma
  <2>2. local' = [local EXCEPT ![c] = r]
    BY <1>6
  <2> HIDE DEF r
  <2>3. QED
    BY <2>1, <2>2, SilentLemma
<1>7. ASSUME NEW c \in Conns, Return(c) PROVE Truthful
  BY <1>7, IdleLemma, SilentLemma DEF Return
<1>8. ASSUME NEW c \in Conns, SelectGetLines(c) \/ DeleteGetLines(c) PROVE Truthful
  <2>1. camera \in SUBSET CameraLines /\ {} \in SUBSET CameraLines
    BY <1>t
  <2>2. QED
    BY <1>6, <1>7, <1>8, <2>1, Zenon DEF SelectGetLines, DeleteGetLines, GetLines
<1>9. ASSUME NEW c \in Conns, SelectLines(c) PROVE Truthful
  <2>1. PICK dbLines \in SUBSET lines :
          local' = [local EXCEPT ![c].realLines = RealLines(c, dbLines), ![c].httpLines = {}]
    BY <1>9 DEF SelectLines
  <2>2. RealLines(c, dbLines) \subseteq CrossLines
    BY <1>t DEF RealLines
  <2> DEFINE q == [local[c] EXCEPT !.realLines = RealLines(c, dbLines)]
             r == [q EXCEPT !.httpLines = {}]
  <2>3. q \in Locals /\ q.reply = local[c].reply
    BY <1>t, <2>2, FieldsLemma
  <2>4. local' = [[local EXCEPT ![c] = q] EXCEPT ![c].httpLines = {}]
    BY <2>1, Zenon
  <2> HIDE DEF q
  <2>5. r \in Locals /\ r.reply = local[c].reply
    BY <2>3, FieldsLemma
  <2>6. local' = [local EXCEPT ![c] = r]
    BY <2>4, <1>t
  <2> HIDE DEF r
  <2>7. QED
    BY <2>5, <2>6, SilentLemma
<1>10. ASSUME NEW c \in Conns, RefillLine(c) PROVE Truthful
  <2>1. PICK line \in local[c].realLines :
          local' = [local EXCEPT ![c].realLines = @ \ {line}]
    BY <1>10 DEF RefillLine
  <2>2. local[c].realLines \ {line} \in SUBSET CrossLines
    BY <1>t
  <2> DEFINE r == [local[c] EXCEPT !.realLines = local[c].realLines \ {line}]
  <2>3. r \in Locals /\ r.reply = local[c].reply
    BY <2>2, <1>t, FieldsLemma
  <2>4. local' = [local EXCEPT ![c] = r]
    BY <2>1
  <2> HIDE DEF r
  <2>5. QED
    BY <2>3, <2>4, SilentLemma
<1>11. ASSUME NEW c \in Conns, DeleteOnCamera(c) PROVE Truthful
  <2>1. PICK line \in local[c].httpLines :
          local' = [local EXCEPT ![c].httpLines = local[c].httpLines \ {line}]
    BY <1>11 DEF DeleteOnCamera
  <2>2. local[c].httpLines \ {line} \in SUBSET CameraLines
    BY <1>t
  <2>3. QED
    BY <2>1, <2>2, <1>6
<1>12. ASSUME NEW c \in Conns, DeleteTables(c) PROVE Truthful
  <2>1. PICK failed \in SUBSET {"lines", "baseLines", "verticalLineEquations"},
             reply \in SUBSET {"delete_success"} :
          /\ lines' = Remaining(lines, "lines", failed)
          /\ baseLines' = Remaining(baseLines, "baseLines", failed)
          /\ verticalLineEquations' =
               Remaining(verticalLineEquations, "verticalLineEquations", failed)
          /\ local' = [local EXCEPT ![c].reply = reply]
          /\ reply # {} => /\ delete_all_data_lines(failed)
                           /\ delete_all_data_baseLines(failed)
                           /\ delete_all_data_verticalLineEquations(failed)
    <3>1. {"delete_success"} \in SUBSET {"delete_success"} /\ {} \in SUBSET {"delete_success"}
      OBVIOUS
    <3>2. QED
      BY <1>12, <3>1, Zenon DEF DeleteTables
  <2> DEFINE r == [local[c] EXCEPT !.reply = reply]
  <2>2. r \in Locals /\ r.reply = reply
    BY <1>t, FieldsLemma DEF Replies
  <2>3. local' = [local EXCEPT ![c] = r]
    BY <2>1
  <2> HIDE DEF r
  <2>4. \A x \in reply : x = "delete_success" /\ Happened(c, x)
    BY <2>1 DEF Happened, Remaining, delete_all_data_lines, delete_all_data_baseLines,
                delete_all_data_verticalLineEquations
  <2>5. QED
    BY <2>2, <2>3, <2>4, ReportLemma
<1>13. ASSUME NEW c \in Conns, InsertBaseLine(c) PROVE Truthful
  <2>1. PICK reply \in SUBSET {"insert_success", "update_success"} :
          /\ local' = [local EXCEPT ![c] = [Idle EXCEPT !.reply = reply]]
          /\ "insert_success" \in reply => IndexesOf(baseLines') # IndexesOf(baseLines)
          /\ "insert_success" \notin reply => Places(baseLines') = Places(baseLines)
    BY <1>13, BaseLineLemma, Zenon
  <2> DEFINE r == [Idle EXCEPT !.reply = reply]
  <2>2. r \in Locals /\ r.reply = reply
    BY IdleLemma, FieldsLemma DEF Replies
  <2>3. local' = [local EXCEPT ![c] = r]
    BY <2>1
  <2> HIDE DEF r
  <2>4. local'[c].reply = reply
    BY <2>2, <2>3, <1>t
  <2>5. \A x \in reply : Happened(c, x)
    BY <2>1, <2>4 DEF Happened
  <2>6. QED
    BY <2>2, <2>3, <2>5, ReportLemma
<1>14. ASSUME NEW c \in Conns, InsertVerticalLine(c) PROVE Truthful
  <2>1. \/ /\ verticalLineEquations' # verticalLineEquations
           /\ local' = [local EXCEPT ![c] = [Idle EXCEPT !.reply = {"insert_success"}]]
        \/ local' = [local EXCEPT ![c] = Idle]
    BY <1>14 DEF InsertVerticalLine, AnswerWith, insert_data_verticalLineEquations
  <2>2. CASE local' = [local EXCEPT ![c] = Idle]
    BY <2>2, IdleLemma, SilentLemma
  <2>3. CASE /\ verticalLineEquations' # verticalLineEquations
             /\ local' = [local EXCEPT ![c] = [Idle EXCEPT !.reply = {"insert_success"}]]
    <3> DEFINE r == [Idle EXCEPT !.reply = {"insert_success"}]
    <3>1. r \in Locals /\ r.reply = {"insert_success"}
      BY IdleLemma, FieldsLemma DEF Replies
    <3>2. local' = [local EXCEPT ![c] = r]
      BY <2>3
    <3> HIDE DEF r
    <3>3. \A x \in r.reply : Happened(c, x)
      BY <2>3, <3>1 DEF Happened
    <3>4. QED
      BY <3>1, <3>2, <3>3, ReportLemma
  <2>4. QED
    BY <2>1, <2>2, <2>3
<1>15. ASSUME NEW c \in Conns, SelectBaseLines(c) PROVE Truthful
  <2>1. PICK rows \in SUBSET baseLines :
          local' = [local EXCEPT ![c] = [Idle EXCEPT !.baseLines = rows]]
    BY <1>15 DEF SelectBaseLines, AnswerWith
  <2> DEFINE r == [Idle EXCEPT !.baseLines = rows]
  <2>2. r \in Locals /\ r.reply = {}
    BY <1>t, IdleLemma, FieldsLemma
  <2>3. QED
    BY <2>1, <2>2, SilentLemma
<1>16. ASSUME Restart PROVE Truthful
  BY <1>16, IdleLemma DEF Restart, Truthful
<1>17. ASSUME CameraEdited PROVE Truthful
  BY <1>17, <1>5 DEF CameraEdited
<1>18. ASSUME NEW c \in Conns, SelectRequest(c) \/ DeleteRequest(c) \/ EmptyLines(c)
       PROVE  Truthful
  BY <1>18, <1>5 DEF SelectRequest, DeleteRequest, EmptyLines
<1>19. ASSUME NEW c \in Conns, AnswerSelect(c) \/ AnswerDelete(c) \/ Answer(c) PROVE Truthful
  BY <1>19, <1>7 DEF AnswerSelect, AnswerDelete, Answer
<1>20. QED
  BY <1>1, <1>2, <1>3, <1>4, <1>8, <1>9, <1>10, <1>11, <1>12, <1>13, <1>14, <1>15, <1>16,
     <1>17, <1>18, <1>19 DEF Next, Step

\* What an answer reports is what its critical section did, for any number of
\* connections at work and whatever statement fails.
THEOREM AnswersAlwaysTrue == Spec => AnswersTrue
<1>1. Inv /\ [Next]_vars =>
        [\A c \in Conns : \A r \in local'[c].reply \ local[c].reply : Happened(c, r)]_vars
  BY TruthfulStep DEF Truthful
<1>2. QED
  BY <1>1, InvAlways, PTL DEF Spec, AnswersTrue

=============================================================================

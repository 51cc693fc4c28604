---------------------------- MODULE TrafficWatch -----------------------------
(***************************************************************************)
(* The loop of the control program (main_control.cpp): it loads the base   *)
(* lines and the rule lines from the database that the server's clients    *)
(* edit, loads them again from time to time, keeps the last frames of the  *)
(* camera's metadata and the last positions of every vehicle, and raises   *)
(* an alert when a person crosses a rule line while a vehicle approaches   *)
(* the centre.  BoardLink models what an alert does.                       *)
(*                                                                         *)
(* All of it runs in one thread; the database changes at any time, also    *)
(* between the two SELECTs of a load.  A frame is a sequence of objects;   *)
(* its XML is not modelled, but what the regular expressions take for an   *)
(* object's type is.                                                       *)
(***************************************************************************)
EXTENDS Integers, Sequences, FiniteSets, Geometry

CONSTANTS
  Ids,             \* object ids
  Frames,          \* the frames that can arrive
  Tables,          \* the contents of lines and baseLines clients can leave
  FrameCacheSize, HistorySize,               \* config.json, section cache
  DistThreshold, ParallelNum, ParallelDen,   \* section detection
  ScaleX, ScaleY,                            \* section scale
  LineLimit,       \* rule lines that are loaded (8 in the code)
  MaxFrames,       \* bound on frames
  MaxEdits,        \* bound on edits of the tables
  NoFrame

Names == UNION {{t.lines[i].name : i \in DOMAIN t.lines} : t \in Tables}

ASSUME SizesAssumption == FrameCacheSize \in Nat \ {0} /\ HistorySize \in Nat

ASSUME BoundsAssumption == MaxFrames \in Nat /\ MaxEdits \in Nat /\ LineLimit \in Nat

Point == Int \X Int

\* An object in a frame; pos is empty when it has no centre of gravity.
Object == [id : Ids, type : STRING, pos : Point \cup {<<>>}]

\* A frame mentions an object at most once.
ASSUME FramesAssumption ==
  \A f \in Frames :
    /\ f \in Seq(Object)
    /\ \A i, j \in DOMAIN f : f[i].id = f[j].id => i = j

\* Rows of the tables lines, whose names are unique, and baseLines.
RuleLine == [name : STRING, p1 : Point, p2 : Point]
Pairs == [id1 : Int, p1 : Point, id2 : Int, p2 : Point]

ASSUME TablesAssumption ==
  \A t \in Tables :
    /\ t.lines \in Seq(RuleLine) /\ t.baseLines \in Seq(Pairs)
    /\ \A i, j \in DOMAIN t.lines : t.lines[i].name = t.lines[j].name => i = j

ASSUME ScaleAssumption == ScaleX \in Int /\ ScaleY \in Int

VARIABLES
  running,           \* "starting", "load_rule_lines", "running" or "ended"
  tables,            \* the database: [lines, baseLines]
  base_line_pairs,   \* the pairs of dots that are loaded
  dot_center,
  rule_lines,        \* line name -> vector of the line
  frame_cache,       \* the last frames, oldest first
  history,           \* vehicle id -> its last positions, oldest first
  alerts,            \* what the last step has raised: [vehicle, board]
  event,             \* the event the last step has handled: [id, rule]
  arrived,           \* history: frames that have arrived
  edits,             \* history: edits of the tables
  sightings,         \* history: all positions of a vehicle since it is tracked
  clean,             \* history: which tables the last load of each took in whole
  loaded             \* history: the tables as the last load of each met them

database == <<tables, edits>>
settings == <<base_line_pairs, dot_center, rule_lines, clean, loaded>>
tracks == <<frame_cache, history, sightings, arrived>>

vars == <<running, database, settings, tracks, alerts, event>>

NoEvent == [id |-> 0, rule |-> ""]

Empty == [x \in {} |-> <<>>]

Init ==
  /\ running = "starting"
  /\ tables \in Tables
  /\ base_line_pairs = <<>>
  /\ dot_center = Centre(0, 0, 1)
  /\ rule_lines = Empty
  /\ frame_cache = <<>>
  /\ history = Empty
  /\ sightings = Empty
  /\ alerts = {}
  /\ event = NoEvent
  /\ arrived = 0
  /\ edits = 0
  /\ clean = [lines |-> FALSE, baseLines |-> FALSE]
  /\ loaded = [lines |-> tables.lines, baseLines |-> tables.baseLines]
-----------------------------------------------------------------------------
(* Loading the settings.                                                    *)

Scaled(p) == <<p[1] * ScaleX, p[2] * ScaleY>>

ScaledRows(rows, n) ==
  [i \in 1..n |-> [rows[i] EXCEPT !.p1 = Scaled(@), !.p2 = Scaled(@)]]

\* load_dots_and_center reads n of the rows and then, if those are not all,
\* throws: the pairs read so far stay, the centre is not computed.  Without any
\* base line the centre keeps its value.
LoadDots(n) ==
  /\ base_line_pairs' = ScaledRows(tables.baseLines, n)
  /\ dot_center' = IF n = Len(tables.baseLines) /\ n > 0
                     THEN CentreOf(base_line_pairs') ELSE dot_center

\* Rows of the table lines that one load reads (LIMIT 8).
RowsRead(rows) == IF Len(rows) < LineLimit THEN Len(rows) ELSE LineLimit

Vector(line) == LET p == Scaled(line.p1)
                    q == Scaled(line.p2)
                IN  <<q[1] - p[1], q[2] - p[2]>>

\* Mutant: a line that is known already is not loaded again.
KeepKnown(n) ==
  LET names == {tables.lines[i].name : i \in 1..n}
      RowOf(name) == tables.lines[CHOOSE i \in 1..n : tables.lines[i].name = name]
  IN  [name \in DOMAIN rule_lines \cup names |->
         IF name \in DOMAIN rule_lines THEN rule_lines[name] ELSE Vector(RowOf(name))]

\* The rows read are put into rule_lines by name; no name ever leaves it.
LinesLoaded(n) ==
  LET names == {tables.lines[i].name : i \in 1..n}
      RowOf(name) == tables.lines[CHOOSE i \in 1..n : tables.lines[i].name = name]
  IN  [name \in DOMAIN rule_lines \cup names |->
         IF name \in names THEN Vector(RowOf(name)) ELSE rule_lines[name]]

\* The settings are loaded in main, and in the loop at the first line read more
\* than 30 s after the last load.  The SELECT sees the table as it is at one time;
\* it may fail part of the way, which is caught.
LoadDotsAndCenter ==
  /\ running \in {"starting", "running"}
  /\ running' = "load_rule_lines"
  /\ \E n \in 0..Len(tables.baseLines) :
       /\ LoadDots(n)
       /\ clean' = [clean EXCEPT !.baseLines = (n = Len(tables.baseLines))]
  /\ loaded' = [loaded EXCEPT !.baseLines = tables.baseLines]
  /\ alerts' = {} /\ event' = NoEvent
  /\ UNCHANGED <<database, tracks, rule_lines>>

\* The second SELECT of a load; then the loop begins or goes on.
LoadRuleLines ==
  /\ running = "load_rule_lines"
  /\ running' = "running"
  /\ \E n \in 0..RowsRead(tables.lines) :
       /\ rule_lines' = LinesLoaded(n)
       /\ clean' = [clean EXCEPT !.lines = (n = RowsRead(tables.lines))]
  /\ loaded' = [loaded EXCEPT !.lines = tables.lines]
  /\ alerts' = {} /\ event' = NoEvent
  /\ UNCHANGED <<database, tracks, base_line_pairs, dot_center>>

\* main: the configuration or the database cannot be opened.
StartFails ==
  /\ running = "starting"
  /\ running' = "ended"
  /\ alerts' = {} /\ event' = NoEvent
  /\ UNCHANGED <<database, settings, tracks>>

\* The stream ends, and with it the loop and the program.
StreamEnds ==
  /\ running = "running"
  /\ running' = "ended"
  /\ alerts' = {} /\ event' = NoEvent
  /\ UNCHANGED <<database, settings, tracks>>

\* Clients of the server edit the tables (module LineConfig).
EditTables ==
  /\ edits < MaxEdits
  /\ edits' = edits + 1
  /\ tables' \in Tables
  /\ alerts' = {} /\ event' = NoEvent
  /\ UNCHANGED <<running, settings, tracks>>
-----------------------------------------------------------------------------
(* A metadata block: a frame, an event, or both.                            *)

Mentions(frame, id) == \E i \in DOMAIN frame : frame[i].id = id

\* update_vehicle_positions takes an object as a vehicle when it has that type
\* and a centre of gravity.
IsSighting(object) == object.type = "Vehicle" /\ object.pos # <<>>

SeenIn(frame) == {frame[i].id : i \in {k \in DOMAIN frame : IsSighting(frame[k])}}

PosIn(frame, id) == frame[CHOOSE i \in DOMAIN frame : frame[i].id = id].pos

Get(f, x) == IF x \in DOMAIN f THEN f[x] ELSE <<>>

\* Mutant: pop_front only when there are two too many.
PushOneMore(s, x, n) == IF Len(s) <= n THEN Append(s, x) ELSE Tail(Append(s, x))

\* Mutant: a full queue does not take anything.
PushUnlessFull(s, x, n) == IF Len(s) < n THEN Append(s, x) ELSE s

\* push_back, then pop_front when there are more than n.
Push(s, x, n) == IF Len(s) < n THEN Append(s, x) ELSE Tail(Append(s, x))

\* Mutant: a vehicle is kept as long as it is tracked.
KeptForever(frame, cache) == DOMAIN history \cup SeenIn(frame)

\* The vehicles tracked after a frame: those in it, and those whose id, as any
\* kind of object, is still in a cached frame.
Kept(frame, cache) ==
  SeenIn(frame) \cup {id \in DOMAIN history : \E i \in DOMAIN cache : Mentions(cache[i], id)}

UpdateVehiclePositions(frame, cache) ==
  LET kept == Kept(frame, cache)
      seen == SeenIn(frame)
  IN  /\ history' = [id \in kept |->
           IF id \in seen THEN Push(Get(history, id), PosIn(frame, id), HistorySize)
                          ELSE history[id]]
      /\ sightings' = [id \in kept |->
           IF id \in seen THEN Append(Get(sightings, id), PosIn(frame, id))
                          ELSE sightings[id]]

\* is_human: the expression goes from the object to the next type in the frame,
\* which is another object's when it has none itself.
IsHuman(frame, id) ==
  \E i, k \in DOMAIN frame :
    /\ frame[i].id = id /\ i <= k
    /\ frame[k].type = "Human"
    /\ \A j \in i..(k - 1) : frame[j].type = ""

\* Mutant: the approach is tested the wrong way round.
Receding(tracked) ==
  {v \in DOMAIN tracked :
     /\ Len(tracked[v]) >= 2
     /\ Approaches(tracked[v][Len(tracked[v])], tracked[v][1], dot_center, DistThreshold)}

\* The vehicles whose oldest and newest positions show that they approach.
Approaching(tracked) ==
  {v \in DOMAIN tracked :
     /\ Len(tracked[v]) >= 2
     /\ Approaches(tracked[v][1], tracked[v][Len(tracked[v])], dot_center, DistThreshold)}

\* The way from the dot nearest to the vehicle's oldest position to the centre.
WayToCentre(pos) ==
  LET dot == NearestDot(base_line_pairs, pos).at
  IN  <<dot_center.x - dot[1] * dot_center.d, dot_center.y - dot[2] * dot_center.d>>

\* analyze_risk_and_alert.  Without any base line closest_dot is uninitialised:
\* the similarity can be anything, and the board is -1.
AnalyzeRisk(tracked, rule) ==
  IF base_line_pairs = <<>>
    THEN \E V \in SUBSET Approaching(tracked) :
           alerts' = {[vehicle |-> v, board |-> -1] : v \in V}
    ELSE LET Alongside(v) == Parallel(WayToCentre(tracked[v][1]), rule_lines[rule],
                                      ParallelNum, ParallelDen)
         IN  alerts' = {[vehicle |-> v,
                         board |-> NearestDot(base_line_pairs, tracked[v][1]).opposite] :
                          v \in {u \in Approaching(tracked) : Alongside(u)}}

\* A block with a frame goes into the cache and updates the tracks.
HandleFrame(frame) ==
  IF frame = NoFrame
    THEN UNCHANGED tracks
    ELSE /\ arrived < MaxFrames
         /\ arrived' = arrived + 1
         /\ frame_cache' = Push(frame_cache, frame, FrameCacheSize)
         /\ UpdateVehiclePositions(frame, frame_cache')

\* A line crossing in the block is analysed when the object is a person in one of
\* the cached frames, this block's own included, and the rule is known.
HandleEvent(e) ==
  IF e # NoEvent /\ (\E i \in DOMAIN frame_cache' : IsHuman(frame_cache'[i], e.id))
       /\ e.rule \in DOMAIN rule_lines
    THEN AnalyzeRisk(history', e.rule)
    ELSE alerts' = {}

HandleBlock(frame, e) ==
  /\ running = "running"
  /\ frame # NoFrame \/ e # NoEvent
  /\ HandleFrame(frame)
  /\ HandleEvent(e)
  /\ event' = e
  /\ UNCHANGED <<running, database, settings>>

Events == [id : Ids, rule : Names]

Next ==
  \/ LoadDotsAndCenter
  \/ LoadRuleLines
  \/ StartFails
  \/ StreamEnds
  \/ EditTables
  \/ \E frame \in Frames \cup {NoFrame}, e \in Events \cup {NoEvent} : HandleBlock(frame, e)

Spec == Init /\ [][Next]_vars
-----------------------------------------------------------------------------
(* Properties.                                                              *)

\* Every variable has its type; in particular the cache and the histories stay
\* within their configured sizes.
TypeOK ==
  /\ running \in {"starting", "load_rule_lines", "running", "ended"}
  /\ tables \in Tables
  /\ loaded \in [lines : {t.lines : t \in Tables}, baseLines : {t.baseLines : t \in Tables}]
  /\ clean \in [lines : BOOLEAN, baseLines : BOOLEAN]
  /\ Len(base_line_pairs) <= Len(loaded.baseLines)
  /\ DOMAIN rule_lines \subseteq Names
  /\ frame_cache \in Seq(Frames) /\ Len(frame_cache) <= FrameCacheSize
  /\ DOMAIN history \subseteq Ids
  /\ \A v \in DOMAIN history : Len(history[v]) <= HistorySize
  /\ event \in Events \cup {NoEvent}
  /\ arrived \in 0..MaxFrames /\ edits \in 0..MaxEdits

\* The history of a vehicle is exactly its latest sightings since it was last
\* forgotten, in order: none skipped, none from before (update_vehicle_positions).
HistoryIsLatest ==
  /\ DOMAIN history = DOMAIN sightings
  /\ \A v \in DOMAIN history :
       LET s == sightings[v]
           n == IF Len(s) < HistorySize THEN Len(s) ELSE HistorySize
       IN  history[v] = SubSeq(s, Len(s) - n + 1, Len(s))

\* Only vehicles whose id is in one of the cached frames are tracked: a vehicle
\* that left the picture is forgotten within frame_cache_size frames.
TrackedSeenLately ==
  \A v \in DOMAIN history : \E i \in DOMAIN frame_cache : Mentions(frame_cache[i], v)

\* After a SELECT that met no error, and until its table changes again, what the
\* program works with is what the table holds, whatever earlier loads, complete or
\* not, have left behind and whatever the other SELECT met: the rule lines among
\* the first LineLimit rows, the pairs of dots, and, when there is one, the centre.
\* Nothing is said of lines that are no longer in the table, which load_rule_lines
\* leaves in force, nor of the centre when there is no base line, where
\* load_dots_and_center keeps the old one and its warning says (0, 0).
SettingsCurrent ==
  /\ clean.lines /\ loaded.lines = tables.lines =>
       \A i \in 1..RowsRead(tables.lines) :
         LET line == tables.lines[i]
         IN  line.name \in DOMAIN rule_lines /\ rule_lines[line.name] = Vector(line)
  /\ clean.baseLines /\ loaded.baseLines = tables.baseLines =>
       /\ base_line_pairs = ScaledRows(tables.baseLines, Len(tables.baseLines))
       /\ tables.baseLines # <<>> => dot_center = CentreOf(base_line_pairs)

\* An alert of analyze_risk_and_alert is for a vehicle that is nearer to the
\* centre, by the threshold, than at one of its latest sightings; in a cached frame
\* the object of the event is a person, or has no type and is followed by one; and
\* the display that lights up faces a dot none of the others is nearer to the
\* vehicle than (or there is no base line, and no display).  is_human is documented
\* to tell the type of the object of the event; of an object without a type it
\* tells the type of the next one that has one.
AlertsJustified ==
  \A a \in alerts :
    LET s == sightings[a.vehicle]
        last == Len(s)
    IN  /\ \E i \in DOMAIN frame_cache : \E k \in DOMAIN frame_cache[i] :
             /\ frame_cache[i][k].id = event.id
             /\ \/ frame_cache[i][k].type = "Human"
                \/ /\ frame_cache[i][k].type = ""
                   /\ \E m \in DOMAIN frame_cache[i] : m > k /\ frame_cache[i][m].type = "Human"
        /\ \E j \in 1..(last - 1) :
             /\ j > last - HistorySize
             /\ Approaches(s[j], s[last], dot_center, DistThreshold)
             /\ IF base_line_pairs = <<>>
                  THEN a.board = -1
                  ELSE \E pair \in {base_line_pairs[i] : i \in DOMAIN base_line_pairs} :
                    \E near \in {<<pair.p1, pair.id2>>, <<pair.p2, pair.id1>>} :
                      /\ near[2] = a.board
                      /\ \A i \in DOMAIN base_line_pairs :
                           \A q \in {base_line_pairs[i].p1, base_line_pairs[i].p2} :
                             DistSq(s[j], near[1]) <= DistSq(s[j], q)

=============================================================================

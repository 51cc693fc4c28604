# A TLA+ model of raspi-server

This directory models the server of this repository in TLA+. TLC checks the
models on small instances, and TLAPS proves part of the results for every value
of the constants. `PROJECT.json` lists components, runs, mutants, the source
lines of every definition, findings, hazards and theorems.

## 1. The system

Two programs share a SQLite file.

*The server* (`server.cpp`) runs an RTSP server and a TCP server.

- `tcp_server.cpp` accepts TLS connections. One thread per connection runs
  `handle_client`: receive a request, route it, and clean up when receiving fails.
- `request_handlers.cpp` has one handler per request: detections (1), lines
  (2 to 4), base lines and equations (5 to 7), login and sign-up (8, 9, 22),
  Start and Stop of bounding-box pushing (31, 32).
- `metadata_parser.cpp` runs ffmpeg on the camera's metadata stream, in a thread
  that Start creates, and puts the boxes into one buffer that all connections
  share. A second thread per session sends boxes that are old enough.
- `db_management.cpp` is the database; handlers use it under `db_mutex`.
- `curl_camera.cpp` reads, puts and deletes lines on the camera over HTTPS.
- `otp/`, `hash.cpp`: one-time passwords, recovery codes, password hashing.

*The control program* (`metadata/main_control.cpp`) follows the same stream,
tracks vehicles, and on a risk switches a board's display on for five seconds
through `metadata/board_control.cpp` (UART, framed messages with ACK and retry).
`metadata/send_time.cpp` sets the boards' clocks.

| Part | Modules | Status |
|---|---|---|
| connections, sessions, message framing | `BBoxSession` | modelled, proved |
| delay buffer | `DelayLine` (abstract), `BBoxBuffer` (timed) | modelled, proved |
| accounts, OTP, recovery codes | `Accounts` | modelled, proved |
| lines and camera | `LineConfig` | modelled, proved |
| alerts on the boards, time process | `CommandLink` (abstract), `BoardLink` | modelled, proved |
| vehicle tracking and risk analysis | `Geometry`, `TrafficWatch` | modelled, proved |
| bytes of the boards' frames | `FrameCodec`, `Frames` | modelled, proved |
| detections, configuration | `Detections`, `Config` | modelled, model-checked |
| base64 of pictures | `Base64`, `Pictures` | modelled, proved |
| one-time passwords, QR codes, JSON | `OtpCodec`, `QrCode`, `JsonText`, `JsonPatch`, `Binary*` | partly, model-checked |
| TLS set-up | in `BBoxSession` | partly |
| RTSP server, test client | none | not modelled |

## 2. The modules

### DelayLine and BBoxBuffer

`DelayLine` is what the shared buffer promises without time: a bounded
first-in first-out queue. `Put` appends, drops some of the oldest elements and
trims to `MaxBuffer`; `Take` removes the oldest; `Clear` empties.

`BBoxBuffer` adds the clock. `UpdateBuffer`, `SendBBoxes` and `ClearBuffer` are
the three critical sections of `bbox_buffer_mutex`. The number `k` of entries
dropped by age is the one the loop of `update_bbox_buffer` finds: all `k` front
entries are too old and the next one is not. An entry has the timestamp, whether
it holds boxes, and its number among all updates. The number and the variable
`sent` are not in the code; they let the properties speak of order.

### BBoxSession

State per connection: where `handle_client` is, `bbox_push_enabled`, and the two
`std::thread` objects (`"none"` is not joinable, `"done"` is finished but still
joinable). Shared: `parser_running` and the buffer, as in the code. A step is
one access to shared state.

- `StartRequest`, `StartMetadata`, `StartPush`: request 31. Assigning to a
  joinable thread object leads to `server = "bad_thread"` (std::terminate).
- `StopRequest` to `StopClear`: request 32, with both joins as blocking steps.
- `ReceiveFails` to `CloseFree`: `cleanup_client_connection` and the end of the
  frame, which destroys the thread objects.
- `PushLoop` to `PushFails`: the push thread. `MetaEntry` to `MetaThrows`: the
  parser thread. The buffer's elements are the connections whose parser put them.
- `Request`, `ReplyPrefix`, `ReplyBody`: every other request, by its number of
  responses. `Uncaught`: exceptions that `handle_client` does not catch.
- `wire` is what the client sees of its stream: between messages, inside a
  message of one of the two writers, out of step, or gone.

### Accounts

`Signup` to `AnswerSignup` are `handle_signup_request`, one action per access to
shared state; `LoginStep1` to `RegisterSecret` and `LoginOtp` to `InvalidateCode`
are the two steps of the login. The tables survive `Restart`, the maps of the
`OTPManager` do not. `db_mutex` is explicit where a critical section has several
statements. `Faults` says which statements can fail. A secret is the number of
the sign-up that drew it, and codes carry the same number. A data race on the
unlocked maps ends in `server = "undefined"`, about which nothing is claimed.
`given`, `loaded`, `redeemed`, `left_valid` and `overtaken` are history.

### LineConfig

The tables `lines`, `baseLines` and `verticalLineEquations` and the set of lines
on the camera, under requests 2 to 7. Every database call has a critical section
of its own in the code, except the three deletes of request 4 and the insert and
update of request 5, so each call is one action; camera calls are actions too,
and each can fail. `GetLines` has the three ways in which the camera's answer
reaches the handler: its lines, an error document (which parses and has no
lines), and nothing (a parse error, which ends the request). A line's four
coordinates are one number, multiplied by 4 for the camera. The answer of a
request is in `local[c].reply` when it is about to be sent. `Restart` may come
between any two calls. `quiet` is history: the connection whose request nothing
has disturbed; `before` is the table when it began.

### CommandLink and BoardLink

`BoardLink` is `control_board_async`, one thread per alert: `Raise`, the command
"on" (`SendFrame`, `TakeAnswer`, `TimeOut` are the loop of
`send_frame_with_ack`; `NoPort` is its early return, and `OpenFails` ends the whole
program, as `exit(1)` does), five seconds
asleep, the capture thread (`CaptureScreen`), `Wake`, the command "off". Frames
and answers are queues per board. The board is external: it takes frames in
order and as late as it likes, misses, rejects or carries out. Two readers of one
port can tear an answer apart (`TearAnswer`), and `send_time` is another process
on the same ports (`SyncTime`). `crowded` is history: the alerts during which
somebody else used the port. `CommandLink` is the promise of one command: "ok"
means that the board has carried it out, unless somebody else used the port.

### Geometry and TrafficWatch

`TrafficWatch` is the loop of `metadata_thread` in one thread, beside clients that
edit the tables. `LoadDotsAndCenter` and `LoadRuleLines` are the two SELECTs of a
load, between which a client may edit the tables; each may throw after any row and
leaves what it has read. `HandleBlock` is a whole metadata block: frame
into the cache, tracks updated and cleaned up, the event analysed. `IsHuman` keeps
the behaviour of the regular expression, which runs on into the next object when
one has no type. Without base lines `closest_dot` is uninitialised, so any of the
approaching vehicles may be taken for one alongside. `Geometry` computes with
integers: a centre has a denominator, distances are compared by their squares. A
scale that is a fraction is a whole number in smaller units; rounding of floats
is not modelled. `sightings`, `clean` and `loaded` are history.

### Codecs and the pure algorithms

One module per algorithm, with the operators named after the functions:
`FrameCodec` (framing, CRC, the receiver of answers), `OtpCodec` (Base32, codes,
URIs), `QrCode` (encoding, error correction, masks, SVG), `Base64`, `Detections`
(Korean timestamp, selection by a range of texts), `Config` (`.env`,
`config.json`, the camera's URL), `JsonText` (parse and dump), `JsonPatch`
(pointers, patches, flatten), and `BinaryData`, `BinaryReader`, `BinaryWriter`,
`BinaryFormats` (CBOR, MessagePack, UBJSON, BJData, BSON). The server does not
call the last two groups of the vendored `json.hpp`. HMAC is external.

Each algorithm is compared with a reference definition. `Inputs` is the only state:
an input that grows symbol by symbol. `Frames` has the references for `FrameCodec`:
the CRC of a standard unit, a board that removes the stuffing, the receiver of
whole answers as `BoardLink` has it. `Pictures` has a decoder of base64, `Codecs`
all the others. In `FrameCodec` a word is the sequence of its bits, most significant
first: a shift drops a bit and adds a 0, XOR is taken bit by bit, and `reverse` and
`reverse16` take the bits from the last to the first. A loop of the code is a
recursive function over the positions of its data. The algorithms that are only
model-checked take theirs from `Loops`, where the first half of the data comes
before the second, and the readers of containers do the same with their items
(1, 2, 4 and so on where only a last byte ends them): the order is that of the
code, and the calls nest as deep as the logarithm of the length, so that TLC has
room for messages of hundreds of bytes.

## 3. The runs

| Run | Instance | Result |
|---|---|---|
| `session_safety` | 2 connections, buffer of 2, all answers | holds |
| `session_live` | 2 connections, buffer of 1, requests without answers, fair | holds |
| `session_close` | 1 connection, fair | `CloseCompletes` violated |
| `buffer` | buffer of 3, delay 1, age limit 2, 6 ticks, 6 updates | holds |
| `accounts` | 2 connections, 2 ids, 2 secrets, 1 code each, all faults | holds |
| `accounts_otp` | 1 connection, no faults | `LoadedOtpIsStored` violated |
| `lines` | 2 connections, 3 lines, 1 line drawn at the camera, all faults | holds |
| `lines_only` | 2 connections, 2 lines, no faults | `OnlyCameraLines` violated |
| `board` | 2 alerts, 1 board or none, 2 attempts, 1 frame of `send_time`, 2 frames under way | holds |
| `watch` | 2 ids, 4 frames to choose from, cache and histories of 2, 3 contents of the tables, 1 edit | holds |
| `codecs` | every input up to the lengths in `MCCodecs` | holds |
| `otp_secret` | secrets of 1 or 2 blocks of 8 characters | `SecretDecoded` violated |

*What holds.* Thread objects are never misused and a push thread never outlives
its connection. A Stop leaves no thread and no box behind. Messages mix only
while a push thread runs. A Stop ends, unless another client sends a Start
before it does; a cleanup ends when the parser is over. The buffer is ordered
and bounded, delivers in order and at most once, and loses nothing without
cause. Accounts are permanent, also across restarts. Recovery codes have an
account, come from one sign-up, and are used once unless their UPDATE failed.
Rows of `lines` are what clients sent. A list or a delete of all lines that
nothing disturbs does exactly what it should, and what an answer reports has
happened. A command to a board that returns true has been carried out, a picture
shows the display on, and the display is off afterwards, unless another alert or
`send_time` got in the way. A vehicle's history is exactly its latest sightings
and is forgotten in time; a table that was read completely is in force, whatever
failing loads left and whatever the other SELECT met; an alert is justified by the
cached frames and lights the display that faces the nearest dot. The codecs do what
their reference definitions say, within the limits of the next paragraph.

*What the properties leave out*, because the code promises nothing there:

- `CommandsAcknowledged`, `DarkAfterAlerts` and `DetectionsShowAlert` exempt an alert
  during which another alert or `send_time` used the port (`crowded`). Nothing keeps
  these apart, so that an ACK may be for somebody else's frame.
- `SelectKeepsCameraLines` and `DeleteLeavesNothing` are about requests that no other
  request, fault or restart disturbs (`quiet`). `OnlyCameraLines` shows what happens
  otherwise. `AnswersTrue` is about answers that report success.
- `CodesSingleUse` exempts codes whose UPDATE failed (`left_valid`): the login is
  accepted all the same. `CodesOfOneSignup` allows an account without codes, which
  is what a restart or a failing INSERT in the middle of a sign-up leaves.
- `DeliveredInOrder` is about the order in which a push thread takes boxes under
  the lock. The write comes after the unlock, and two sessions share one buffer.
- `SettingsCurrent` says nothing of rule lines that were deleted, which stay in force
  until the program ends, or of the centre without base lines, which keeps its value.
- `AlertsJustified` takes for a person what `is_human` takes for one: also an object
  without a type that is followed by a person.
- `EnrolledAppAccepted` has the code accepted for secrets that `byte_secret` decodes
  (see `otp_secret`); the URI is right for all of them. An empty id has no URI.
- `PicturesAnswered`: when the SELECT fails part of the way, the answer has the oldest
  pictures of the range and does not say that others are missing.
- `ConfigurationRead`: a variable that `.env` no longer has keeps its old value.
- `JsonTextAccepted` and `JsonRoundTrip`: a number beyond the largest double is refused,
  the limit being given to 20 digits, which no text of the run exceeds. How digits become the nearest double is not modelled.
- `BinaryRoundTrip`: with `use_type` the writer is also given `use_size`, without
  which a typed container has no end that a reader could find. MessagePack and BSON
  keep the lowest byte of a subtype, CBOR, which writes it as a tag, all of it.
- `PatchesReach`: a patch that adds below a primitive adds nothing and reports no
  error. This is the Release build of `CMakeLists.txt`, its default, whose `NDEBUG`
  removes the `JSON_ASSERT` there; a build without it ends the program.

*What does not hold* (the findings of `PROJECT.json` quote the lines).

- A client that disconnects during a session leaves the parser flag on, and its
  cleanup waits for the parser thread for ever.
- A refused sign-up for an existing id replaces the TOTP object in memory.
- A delete-all between the read and the re-insert of a select-all is undone.
- `byte_secret` takes a block of a secret that ends in A to E for the last one. Of 32
  secrets of 16 characters, 5 are cut so, and an authenticator shows other codes.

*Why the bounds are enough.* Two connections are the fewest with which one can
disturb another, and no action looks at more than one other connection. In
`buffer`, 3 entries, an age limit of 2 and 6 ticks make updates that drop by
age, by size, by both and not at all. `Answers = {0}` in `session_live` leaves
out only responses, whose two steps always end. In `accounts`, two ids and two
secrets allow two overlapping sign-ups for one id, or one for each. In `lines`,
the third line has the index of the first and the name of the second, so both
keys conflict. In `board`, boards share nothing, so one is enough; two alerts can
overlap or follow each other, a second attempt can meet the late answer to the
first, and two frames under way are a late one and its repetition. In `watch`,
four frames fill the cache of two and push out both of the first; the tables
differ in a line's place, in the number of lines (more than `LineLimit` in one of
them), in the centre, and in whether there are base lines at all. The safety results of all runs but `codecs`, and of that
one `FramesDecode`, are proved without these bounds (section 4). Symmetry is over connections or alerts, in runs
without liveness only; no definition chooses one.

Deadlock is checked for `LineConfig` and `BBoxBuffer`. The others may really stop: each
connection of `BBoxSession` is accepted once and all may be closed, `BBoxSession`
and `Accounts` stop after std::terminate or a data race, alerts and the control
program end, and the inputs of `Codecs` reach their length.

*Fairness.* Weak fairness of the handler's, the push thread's and the parser
thread's own steps. The operating system runs every thread that is not blocked;
a blocking write returns because the client reads or leaves; `fread` returns
because the camera keeps sending. Nothing obliges a client to send a request,
the stream to end or a connection to come, so these have no fairness.

*Other disagreements with a comment*, which no run is about:

- `ssl.cpp:11-13` has a mutex for writes that is never locked: responses and pushed
  messages can mix, though only while a push thread runs (`TearsOnlyWhilePushing`).
- The comment of `is_human` (`main_control.cpp:517-522`) says that it tells the type
  of the object of the event; see `AlertsJustified`.
- Without base lines the warning at `main_control.cpp:344` says that the centre is
  (0, 0); it keeps its value. See `SettingsCurrent`.
- `metadata_parser.cpp:89` says that loading the configuration again is ignored; the
  next line loads it again. See `ConfigurationRead`.

*Met while modelling*, and said nowhere in the repository to be otherwise:

- `delete_success` is 0 when one of the three tables was empty, although all is
  deleted; `update_success` is 1 even when no row was found.
- Request 5 for an index that is taken changes only the matrix numbers.
- `select_data_verticalLineEquations` reads a wrong column; nobody calls it.
- Timestamps end in "KST", so the end of a range given without it excludes a
  picture of exactly that second.
- A failed reload leaves `g_config` partly new, and variables removed from `.env`
  stay in the environment. Only the first '@' of the password is encoded.
- In `json.hpp`, `flatten` forgets empty containers and `unflatten` makes arrays
  of objects whose first name is 0; removing below a primitive does nothing.

## 4. The proofs

Every safety property of every passing run except `codecs` is a theorem for every
value of the constants, and so are the two refinements and, of `codecs`,
`FramesDecode`. The type invariants of
`BBoxSession`, `BBoxBuffer` and `BoardLink` are proved and not checked by a run of
their own. Each proof about a state machine has an inductive invariant `Inv`, which
TLC has checked too, on the instance of the run.

- `DelayLineProofs`: what `Kept` and `Put` do to a queue (`KeptOf`: its type, its
  limit, and that what is kept is a suffix). The next two modules rest on it.
- `BBoxSessionProofs`: `Inv` says what the code relies on at each place of the
  handler: with `bbox_push_enabled` off and the handler receiving, both thread
  objects are `"none"`; a connection in the middle of a Start has no push thread;
  a connection past a join has no such thread; a connection with boxes in the
  buffer still has its parser thread object, or is about to clear the buffer, or
  is closing; a half-written message belongs to the writer that is about to write
  the rest. `ThreadObjectsSafe` alone is not inductive: it says nothing about the
  states from which the next Start goes wrong.
- `BBoxBufferProofs`: the type, the time order, and the order of the numbers of
  the entries, all above the last one sent and none above the number of updates.
  `RefinesDelayLine` shows that every step of the timed buffer is a step of
  `DelayLine` or leaves the queue alone. `AlwaysForgetsOld` needs the time order:
  the loop looks only at the front.
- `AccountsProofs`: `Inv` says which sign-up an account belongs to while its
  handler is still at work: it alone has the success, nothing has been given to a
  client yet, and the codes, if any, are its own; that the secret about to be
  stored is that of the URI, unless the sign-up was overtaken or its insert is
  going to fail; and that used codes that are still in the table are among those
  whose UPDATE failed. That `db_mutex` is held exactly inside the critical
  sections is what makes a code single-use.
- `LineConfigProofs`: `Inv` says that rows, and the copies handlers hold, are
  lines that were sent, that keys are unique, and what an undisturbed request has
  achieved at each place: what is in the table and what is still to be inserted
  are disjoint and together the rows that are on the camera. `AnswersAlwaysTrue`
  follows action by action.
- `BoardLinkProofs`: `Inv` says what an undisturbed alert can rely on: it is alone
  at its board, only its own frames are under way (and those of `send_time` while
  it sleeps), an ACK it can read answers its present command, and the display
  shows the last command carried out. The flush before each attempt is what keeps
  the third. `CommandsAlwaysAcknowledged` is the refinement of `CommandLink`; the
  mapping makes a call of every command of every alert.
- `TrafficWatchProofs`: `Inv` says place by place that a history is the end of the
  sightings, so that dropping the oldest keeps it so; and, for each table
  by itself, that a complete SELECT left what the table was *then*, since one edit
  may undo another and make `loaded` true of the table again. For the alerts, `NearestLemma` shows that the
  `CHOOSE` of `NearestDot` has a witness, because a nonempty set of natural numbers
  has a least element, and that no other dot is nearer.
- `CodecsProofs`: what the loops of `FrameCodec` and `Base64` compute, for data of
  every length (next paragraph).

*Proofs about loops.* The library's induction theorems take a predicate, which the
provers cannot instantiate. `InductionLemma` and `SeqInduction` state induction for
a *set* instead, and follow from the well-foundedness of the natural numbers, which
the library has in such a form. A loop is a recursive function, hence a `CHOOSE`:
`LoopLemma` shows by induction that such a function exists, and `ResultIs` that two
of them agree, so that the loop over one element more is one step more. With that
each result is an invariant of its loop:

- `CrcIsStandard`: the register of `crc16` and that of the standard, which shifts
  the other way, are mirror images after each turn (`MirrorBit`) and each byte
  (`MirrorByte`); the final `reverse16` makes them equal.
- `StuffingIsRemoved`, `EveryFrameDecodes`: after each byte of the payload a board
  has found the payload so far and is not inside a pair of DLEs. `HourOfClock` is
  the time frame of each of the 24 hours.
- `ReceiversAgree`: `InStep` relates the receiver of bytes to the one of answers:
  both have returned, or the first waits for a frame, or it is still in `WAIT_ETX`
  with the NACK that made the second one deaf. The bytes of the two answers are
  computed in the proof, CRC included. This is what allows `BoardLink` to speak of
  whole answers.
- `FramesDecodeCorrect`: `Spec => []FramesDecode`, from the above and the type of
  the input, for seeds and symbols that are bytes and answers.
- `EveryPictureDecodes`: after each byte, the bytes before it are found in the text
  and its own bits are in the text or in the low bits of `val` (`Coded0`, `Coded1`,
  `Coded2`: 0, 1 or 2 bytes of a group of three). `LowBits` shows that cutting `val`
  to 16 bits loses nothing that is read. It is the first conjunct of
  `PicturesAnswered`, for every picture.

Assumptions, all named in the modules and evaluated by TLC: sizes, limits, delays,
retries and bounds are natural numbers, positive for `MaxBuffer`, `Retries`,
`MaxFlight` and `FrameCacheSize`; faults and camera types are among those listed;
the values for "nobody", "no account", "no board" and the time process are none of
the real ones; at least one id and one line exist; buffer entries are among
`Items`; `Answers` is a subset of 0..2; coordinates and scales are integers, line
names are unique (UNIQUE in the table `lines`), and a frame mentions an object at
most once, as the camera's metadata does; the inputs of `Frames` are bytes and
answers. The proofs keep the bounds of the
guards (frames, edits, sign-ups) as constants: they hold for every bound.

Only model-checked:

- the liveness properties, because the prover does not handle fairness;
- `EnrolledAppAccepted`, `ConfigurationRead`, the rest of `PicturesAnswered` and the
  action properties of `codecs` (JSON, QR codes, binary formats, patches). Their
  algorithms and references are folds of the community modules and RECURSIVE
  operators, with which the prover does not work. `ConfigurationRead` and the
  action properties speak of texts over the alphabets of `MCCodecs` and would need
  a grammar of the texts to be true of all. The order of timestamps in
  `PicturesAnswered` compares texts of digits, so that its proof is arithmetic of
  decimal digits and of the calendar at once.

## 5. Not modelled

The RTSP server shares no state with the rest, and the test client is a program
for manual tests. Of the TLS layer only the steps of `sendAll` and `recvAll` are
there. HMAC, password hashing and the random generators are external. Of the JSON
library, the rounding of floats, iterators and conversions to C++ types are left out. The
XML of the camera is abstracted to what the regular expressions take from it.
`g_config` is reloaded by every parser thread without a lock; no module follows
its readers. That a write to a closed connection fails, and does not end the
process by a signal, rests on the libraries the server links; the model takes it
as given. `select_data_accounts`, `delete_data_lines`, `delete_all_data_detections`
and `insert_data_detections` are never called and `latest_bboxes` is written but
never read, so they are left out.

## 6. Plan

1. `Detections` with its fold as a recursive function, and a proof that the texts of
   timestamps are in the order of the times.
2. A composition of `LineConfig` and `TrafficWatch` through the shared tables, with
   `EditTables` replaced by the requests.

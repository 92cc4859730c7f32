# A TLA+ model of reMarkable-tools

This directory models the live whiteboard of the repository, which is the Go
server that relays what is drawn between tablets and the Rust client that runs on
a tablet, the stand-alone drawing application beside it, and the programs that
play strokes back. The modules are checked with TLC on small instances; the
theorems are proved with TLAPS for every value of the constants. Paths below are
relative to `src/`; `hypercards/` stands for `whiteboard-server/hypercards/` and
`whiteboard.rs` and `marauder.rs` for the files of `marauder/src/bin/`.

## 1. The system

A tablet draws, groups the points of a line into a `Drawing` and sends it to the
server with `SendEvent`. Every other tablet of the room holds a `RecvEvents`
stream and paints what arrives. Next to that each tablet dumps its canvas from
time to time and stores it with `SendScreen`; a web page polls it.

| component | state it keeps | operations | talks to |
|---|---|---|---|
| `RecvEvents` handler (`hypercards/rpc__whiteboard__recv_events.go`) | one goroutine per stream: where it is, its context, its named result, the message in hand | validate, subscribe, publish the join, send the count, forward, deferred leave and unsubscribe | NATS connection, client stream |
| `SendEvent` handler (`rpc__whiteboard__send_event.go`) | one goroutine per call: rooms still to publish to | validate, publish room by room | NATS connection |
| NATS connection (`nats.go`) and broker | output buffer, subscriptions, copies in flight, one connection for the whole process | buffer a command, apply it, fan a message out, hand a copy over, drop it, reconnect, give up | handlers |
| routing keys (`routes.go`, `ntui.go`) | none | encode and decode subjects, reject ids that act as wildcards, panic on unknown kinds | handlers |
| gRPC process (`server.go`, `cmd/grpc-server/grpc.go`) | the RPCs in progress | start, stop gracefully, crash, be restarted by docker | everything above |
| screen sharing RPCs, Redis, web page (`redis*.go`, `rpc__screen_sharing__*.go`, `cmd/http-server/`) | one value per room, expiring after a day | store, read, poll | tablets, browsers |
| tablet UI thread (`whiteboard.rs` `on_pen`, `on_tch`, `on_btn`; `buttons.rs`) | `WACOM_HISTORY`, `SCRIBBLES`, `PEN_BLACK`, the two buttons | paint a segment, end a line, hand a drawing over, change ink, exit | channel `TX` |
| tablet `loop_fwd` | the drawing being sent | receive from the channel, send, die on an error | channel, server |
| tablet `loop_screensharing` | ticks, last checksum, `NEEDS_SHARING` | dump, compare, send, respawn | server |
| tablet `loop_recv` and people counter (`whiteboard.rs`) | `PEOPLE_COUNT` as a `u32`, the digit in the corner | call again, paint drawings, count people, repaint the digit | server, screen |
| tablet toolbar (`paint_mouldings`, `drawings/src/`) | none: pictures at fixed places | paint them in concurrent tasks at startup | screen, buttons |
| drawing application (`marauder.rs`, `modes/`) | draw mode, touch mode, two saved canvases | draw, undo, zoom, invert, change brush | screen |
| stroke players (`scrolls/src/`) | a ring of strokes to erase | open files, paint, erase the oldest, drain, start xochitl | screen |
| companion (`marauder.rs` `loop_companion`, `unipen/mod.rs`, `strokes/mod.rs`) | the words of a text | parse, draw segment by segment | screen, in a thread of its own |

What is hard in it: all handlers of the server share one connection whose read
loop never waits, so delivery is lossy by design and the order of the drops
against the handler's own steps matters; deferred calls run on every path and
overwrite the result; the process and the connection can die at any step;
on the tablet several threads share atomics without a lock, remember a
checksum before they know the send succeeded, and die on an error that another
thread only notices by panicking; the digit of the counter is painted stroke by
stroke by two tasks at once. `PROJECT.json` lists each such hazard at its
line, with the properties that cover it.

What makes each component correct:

* **streams**: a client gets the count first, then events of its room by other
  users, in one order, none twice; a stream that joined tells its leave; subscriptions
  do not outlive their handler. (That a slow client slows nobody is nats.go's doing,
  whose read loop hands over or drops, and no property of the code here.)
* **calls**: only well-formed subjects are published; every accepted kind of
  event has a routing key; the rooms of a request are told in its order, none
  twice, up to the first publication that nats.go refuses; without a fault the call
  succeeds exactly if all were told.
* **tablet pen**: no point is lost, repeated or reordered on the way to the
  server; drawings end where the pen was lifted; what is painted here is painted
  elsewhere; a failed send does not stop the user interface.
* **buttons**: no order of touches leaves one stuck.
* **screen sharing**: a picture is skipped only if it is the one stored; the last
  canvas gets through.
* **people counter**: whatever the stream says and however the counter wraps, the
  digit of `PEOPLE_COUNT` can be read, and nothing shows beside it but what two
  flaws of the code leave: the digit that the startup task read too early, and a
  line received in black with the eraser's width. That
  the count is the number of users is *not* promised: the count is read from a
  monitoring port while joins and leaves are under way, and events get lost.
* **shared canvas**: no tablet paints a line before one that its author saw when
  drawing it.
* **drawing application**: undo takes the last finished line off and nothing
  else, and brings back what was cleared since the one before it ended; what was
  undone stays undone, each line but the first can be undone, saving loses no
  line, a change of width keeps pen and eraser apart.
* **stroke players**: what was painted black is erased, in order, and xochitl
  comes back.
* **companion**: what the text says is drawn, up to the first token that does not
  parse: a word the grammar does not know or a number too large for its type.

## 2. The modules

| module | models | notes |
|---|---|---|
| `Nats` | `nats.go` and the broker | `out`, `inq` are the FIFOs between the process and the broker, `log` the broker's total order (a history), `subs` its subscriptions. One action per command the broker applies. An entry of `inq` holds the copies of one event still to be read, because the broker visits the subscriptions of a subject in no particular order. `Publish` may be refused at any time (`PublishRefused`), since nats.go also fails for a payload that is too large, a full buffer or a failed write. The library and the broker are external: modelled from how `nats.go` here uses them. |
| `WhiteboardEvents` | all `RecvEvents` streams and `SendEvent` calls over `Nats` | `pc` is the place between two calls in the handler; one action per call the handler makes, per outcome. `Deliver` is the read loop: `TakeCopy` if the handler is parked in its `select`, `DropCopy` otherwise. `err` is the named result, so the deferred leave overwrites it as in Go. `refused` (history) holds the streams whose leave nats.go did not take. `ProcessDies`, `NatsFault` are the faults; a refused publication is none of them. |
| `RoomFeed` | nothing of the code: what the streams promise | a lossy, ordered, at-most-once feed with memberships that go join, then leave. `WhiteboardEvents!ImplementsFeed` is the refinement with `feed <- log, got <- sent`. |
| `Buttons` | `buttons.rs` | `inner` is the atomic of each button, `at` (history) where each finger was last reported. |
| `PenStrokes` | pen, `SCRIBBLES`, channel, `loop_fwd` of `whiteboard.rs`, over `Buttons` | points are numbered in the order they were drawn; pressure, position and geometry are left out, colour and width are kept because a received drawing is painted with its first point's colour. UI callbacks are atomic, since all they share with `loop_fwd` is the channel. |
| `DrawingRelay` | nothing of the code: what the server is promised of a pen | points are drawn, the pen is lifted, and a drawing is sent that starts where the one before ended and is cut at the first lift that leaves it three points; the relay may break for good. `PenStrokes!ImplementsRelay` is the refinement with `points <- Len(drawn), lifts <- Lifts, sent <- delivered, open <- fwd # "dead"`. |
| `ScreenSharing` | `loop_screensharing`, `SendScreen`, `RecvScreen`, Redis, the page | a picture stands for its checksum. The two places where `NEEDS_SHARING` is lowered are steps of their own, so a concurrent raise can be lost as in the code. |
| `Toolbar` | geometry of `whiteboard.rs`, `buttons.rs` and the pictures of `drawings/src/` that are painted | A picture is the smallest box around its points, in the code's own pixels; `Area` is a button's touch area. A point has a tip, which is the pen's or the eraser's and gives its `Radius`, and an ink of its own: `AsDrawn` ties the two where a line is drawn, and nothing ties them where it is received. Shared by `RoomTablets` and the theorems about the toolbar. |
| `RoomTablets` | `loop_recv`, `repaint_people_counter`, `paint_people_counter`, the last task of `paint_mouldings`, and, in less detail than `PenStrokes`, the pen and `loop_fwd`, of all tablets of a room | The server is what `RoomFeed` promises: one feed, of which each stream is sent some events in order, after a count. `at` is how far a stream came, `TakeLine` skips what is lost. A glyph is a sequence of strokes; `PaintStroke` (repaint) and `PaintFirst` (startup) interleave stroke by stroke. The counter takes any count and any joins and leaves, modulo `CounterSize`. The lines are followed at one spot where they cross: `SpotOf` is a line's point there as drawn, `SentSpotOf` as received, in the ink of the first point of its drawing. A line that comes near the counter may leave or rub out any of its pixels; `smudge` (history) holds what black points with an eraser's tip left. |
| `UnipenText` | `unipen/mod.rs`, `strokes/mod.rs` | pure operators, written as recursive functions: the parser on a sequence of tokens (`WordsFrom` at every position, `WordsIn` at the first), and the segments of what it read (`Drawing`). Counts and coordinates parse only if they fit `U8`, `U16`, `I16` (`Parses`), also the counts, which nothing uses. The format of the file (`Written`), which no code here writes, and other editions of it, with something between two tokens (`Damaged`), are external. |
| `StrokePlayers` | `scrolls/src/*.rs`; the companion's thread of `marauder.rs` over `UnipenText` | `pc` is the place in the `async` task of scrolls, one action per record, stroke and eraser; the three file formats differ in the ring's size and in what a record holds. A run is of either program. |
| `DrawingApp` | `marauder.rs`, `modes/` | A canvas is the set of marks `<<line, n>>` painted on it, with line 0 for anything that is not a pen line; a saved canvas, an `Option` in the code, is a set of at most one. All callbacks run on one thread, so each is one action, except where the companion thread can paint in the middle and matter: undo saves again (`UndoSaves`) what it restored, and zoom, blur and invert write back (`Restore`) a copy they dumped (`Dump`). The clear button empties the canvas and leaves both saved canvases alone. `undone` (history) holds the numbers of the marks an undo left off. |
| `OneUndo` | nothing of the code: what the user is promised of his pen lines | lines begin, grow, finish; one undo per finished line, but the first, takes exactly that line and what was drawn of a line since. Clearing takes all off, and an undo brings back what was cleared since the line before the one it takes ended. `DrawingApp!ImplementsOneUndo` is the refinement with `page <- PenMarks(canvas), count <- lines, undoable <- prev # {}`; `cleared` is what `saved` holds and the canvas does not, `clearedBefore` what `prev` holds and `saved` does not. |
| `MC*` | instances for TLC | |
| `*Proofs` | theorems | see section 5 |

Left out of the modelled parts: payload bytes, logging, timing other than as
nondeterminism, the bookkeeping of a drawing's geometry, TLS and transport of
gRPC. `SendEvent`'s 500 ms deadline has no effect in the code, because
publishing only buffers. A dump of the screen is one step: a dump torn by a
concurrent paint is a picture that the next wakeup replaces. A `SendScreen` that
times out was either stored or not when the tablet sees the error; a request
that Redis executes after the next one was stored is not modelled. In
`DrawingApp` the dump and the restore of a region always succeed, because the
region is a constant inside the framebuffer; texts, colours and shapes are left
out. In `RoomTablets` a stream that ends shows only in the count that the next one starts
with, the calls that fail in between and their pauses are left out, and the
place where a new stream starts in the feed is left open. `StrokePlayers` follows
the strokes that the code means to erase: those of an svg file, or in another
colour than black, stay on the screen by design.

`PEOPLE_COUNT` wraps as in the release build that is deployed (`c - 1` is checked
in a debug build, where a leave that the count did not include would end
`loop_recv`). The theorems hold for any `CounterSize`.

## 3. The runs

All cfgs but `screens` set `CHECK_DEADLOCK FALSE`: the modelled behaviours end
when all streams and calls are over, when the inputs are used up or when the
program has exited, and stopping then is right.

| run | instance | shows |
|---|---|---|
| `events_safety` | streams `a` (ann) and `b` (bob) in one room, call `f` by bob, `a` may leave | `TypeOK`, `OthersEventsOnly`, `CountThenInOrder`, `JoinersLeave`, and the refinement `ImplementsFeed` |
| `events_live` | stream `a`, which leaves, stream `u` with a refused user id, calls `d` (two rooms), `e` (a bad room), `g` (an event without routing key); one fault; fair | `NoLeakedSubscription`, `MembershipOrder`, `CleanSubjects`, `RoomsToldInOrder`, `RoomsToldUpToError`, and `StreamsEnd`, `SubscriptionsDrain`, `LeavesAnnounced` also after a fault |
| `events_disconnection` | `a` and `b` | *violated*: `DisconnectionsReceived`, from `pb/proto/whiteboard.proto:15` |
| `events_kinds` | `a` and calls `f`, `g` | *violated*: `RoutingKeysExhaustive`, from `hypercards/routes.go:120` |
| `pen` | seven inputs, two fingers, fair | `TypeOK`, `PressedByAFinger`, `PointsInOrder`, `OthersGetEverySegment`, `OneInkLooksTheSame`, the refinement `ImplementsRelay`, and `DrawingsAreSent` |
| `pen_lines` | five inputs | *violated*: `LiftsSeparateLines`, from `whiteboard.rs:348` |
| `pen_unwrap` | six inputs | *violated*: `SendNeverPanics`, from `whiteboard.rs:387` |
| `tablets` | three tablets; two of them draw three lines that pass under the counter: one with the broad pen, one with the eraser, one that is received in black with the eraser's width; the counter of the third is followed | `TypeOK`, `CounterReadable`, `GhostsAreKnown`, `PaintedInCausalOrder` |
| `players` | scrolls with any mix of files and records, rings of 4 and 2; the companion with 24 texts of three words, with something else after any token or without, 20 of them with a number too large for its type; fair | `TypeOK`, `ShownIsHeld`, `LeftoversOnlyAfterError`, `DrawsWhatIsWritten`, `OldestGoesFirst`, `XochitlReturns` |
| `screens` | two tablets, two pictures, two paints, one failed call, one lost key, fair | `TypeOK`, `SkippedWasStored`, `LastCanvasStored`, `PageCatchesUp` |
| `app` | brush up to 2, three lines, three marks | `TypeOK`, `SavedHasAllLines`, `UndoneStaysUndone`, `WidthKeepsInk`, and the refinement `ImplementsOneUndo` |
| `app_invert` | the same | *violated*: `InvertInvertsInk`, from `marauder.rs:213` |

The five violated properties are disagreements between the code and a comment,
a doc or an assertion of the repository; `PROJECT.json` quotes each line and says
what the counterexample shows. In short: a leave event can be dropped on its way
to a busy stream; an event that only the server should send passes validation
and panics the process; one or two points of a line survive its end and join the
next line on the other tablets; one failed send makes the next line panic the
user interface; inverting the canvas leaves the ink as it is while the brush has
the initial width 0, whose negative is itself. Two divergences need no run:
`pb/proto/whiteboard.proto` asks for a `user-id` header where `hypercards/logging.go:17` reads `x-user`, and
`RecvScreen` accepts calls without it (`optAllowAnons`).

Bounds, all of them guards named in the modules:

* `Leavers` (events): which clients go away. One is enough for the interesting
  cases, since the other stream then observes it; with faults any stream can end.
* `MaxFaults` (events): crashes, reconnections and lost connections. One, at any
  step and with anything buffered, exercises every loss; the proofs of section 5
  do not depend on it. `CallPanics` is not bounded by it, because each call panics
  at most once; refused publications are not either, because each ends its handler.
* Two streams show every relation between a stream and its neighbour (own events,
  overtaking, drops on one side only); a call by the user of a stream shows the
  self filter across RPCs.
* `MaxInputs` (pen): points, tool changes and touches together. Seven allow two
  drawings in the pipeline, a short line merged into a long one, an ink that
  changes in mid-line, and a second finger that takes a button over.
* `TopDigit` 1 and `CounterSize` 3 (tablets; 9 and 2^32 in the code): two glyphs that
  share a stroke, one of which has a stroke the other lacks, are the least where
  rubbing out spoils what is painted; three counts are the least where a digit
  stands for more than one number, as 9 does, and where both ways around the wrap
  differ. `Watched` holds one tablet, since counters do not interact; the other
  two draw, which takes a second and a third for one's line to be seen by another
  before he draws and to reach the third in the wrong order. Section 5 proves the
  same for any font, count, lines and tablets.
* `MaxInputs` and `MaxStrokes` (players): nine files and records and eight strokes
  fill the larger ring twice and leave room for a second file; the rings are 37 and
  8 in the code, 4 and 2 here, the smaller one being filled by a single record.
  Strokes of 1, 3 and 4 points show no segment, one and two.
* `U8`, `U16`, `I16` (players) are 0..2, 0..4 and -24..23, so that a word of three
  strokes, a stroke of five points and the fourth point of a line that starts at 20
  do not parse; the 24 texts have each of these, two of them together, and none.
* `WakeupEvery` (screens) is 100 in the code and 2 here: between two wakeups there
  is a tick that looks at the flag alone. `MaxEdits` 2 lets a canvas change and
  change back; `MaxFailures` 1 and `MaxLosses` 1 put the fault at any step.
* `MaxSize` (app) is 99 in the code and 2 here, `Skip` 10 and 2: each of the four
  width buttons can reach both ends and jump past them. `MaxLines` and `MaxMarks`
  are 3: one line saved, one saved before it and one in progress is the least
  where undo could take an earlier line, each with a mark, or with a glyph of the
  companion in the place of one.

The inductive invariants `FeedInv`, `LifeInv`, `CallInv`, `CutInv`, `SaveInv`,
`UndoInv` and `CompanionInv` were found with TLC on the same instances; no run checks
them any more, because section 5 proves them.

## 4. Fairness

* `events_live`: weak fairness for the broker (a process of its own that nothing
  here blocks; the read loop needs none), for each step of a handler that cannot
  block (publishing the join and the leave, unsubscribing, skipping an own event), of
  a call that publishes, and for `Released`: a handler that waits for an HTTP
  answer, for its client or in its `select` goes on once its context is done, as
  gRPC and `net/http` guarantee. No fairness for `Count`, `SendCount`, `Forward`
  or for a client: a server or a client may never answer.
* `pen`: `loop_fwd` has a thread of its own, and the channel to the server times
  a request out after four seconds, so each send ends. The user owes nothing.
* `screens`: the loop has a thread and a ticker, its requests time out, failures
  are finitely many; the page polls. Raising `NEEDS_SHARING` is *not* fair: after
  `loop_fwd` died nobody raises it for local lines, and the wakeup has to do.
* `players`: weak fairness of `Next`: scrolls' task and the companion's thread run
  alone and wait for nobody, and files are finite. That a record is ragged is
  never forced nor excluded.
* `tablets`: none; nothing of it is promised to happen.
* `app`: none; nothing is promised to happen there.

## 5. What is proved

All for arbitrary finite or infinite sets of calls, users, rooms, fingers, lines
and tablets (streams finite), any font and ring size, any bounds, and any number
of faults, from the named assumptions on constants in `Nats`, `WhiteboardEvents`,
`Buttons`, `PenStrokes`, `ScreenSharing`, `DrawingApp`, `RoomTablets`, `UnipenText`
and `StrokePlayers`. Every invariant and every safety property of the passing runs is
proved. `WritingsAssumption` of `StrokePlayers` says that a stroke of the text has
points, as every stroke of `ujipenchars2.txt` has; words without strokes and texts
without words are allowed. `WidthAssumption` of `UnipenText` says no more of the three
types than that they hold integers.

* `WhiteboardFeedProofs`: `TypeCorrect` (`TypeOK`), and `FeedInv` is inductive given
  `TypeOK`. What a client was sent is ordered (`CountThenInOrder`) only because the event in its handler's
  hand is older than every copy still in flight to it, and because the copies in
  flight are in log order: `HandInv`, `CopiesInv` and `SentInv` say so.
  `NeverOwnEvents` and `NeverOutOfOrder` follow.
* `WhiteboardLifeProofs`: `LifeInv` is inductive given `TypeOK`. A subscription
  does not leak because an UNSUB never precedes the SUB of its stream in the
  buffer, also after a reconnection has replayed the subscriptions
  (`SubscriptionInv`); a join and a leave enter the log once and in this order
  because the buffer holds only the events of a stream that the log does not
  (`MembershipInv`); ids are checked before anything is published (`ProperInv`);
  without faults an announcement that nats.go took is never lost (`AnnounceInv`). `NoLeak`,
  `OrderedMemberships`, `SubjectsAreClean` and `JoinersDoLeave` follow, and
  `FeedRefinement`: every step of the server is a step of `RoomFeed` or a
  stutter, so `Spec => ImplementsFeed`. For the calls, `CallInv` is inductive given
  `TypeOK` and `LifeInv`: `todo` is what is left of the request's rooms, a call has
  told only rooms before those (`ProgressInv`), and for one call the log and, after
  it, the buffer are in the order of the request (`TellingInv`), which losing any of
  the buffer does not disturb. `OrderedRooms` (`RoomsToldInOrder`) and `RoomsUpToError`
  (`RoomsToldUpToError`) follow: a publication may be refused at any room.
* `PenStrokesProofs`: `NoStuckButton` (`PressedByAFinger`), `TypeCorrect`, and one
  inductive invariant for each of the three questions about points.
  `PointsKeepTheirOrder` (`PointsInOrder`): the drawings sent, being sent and queued
  are one chain of abutting runs, `SCRIBBLES` goes on at its end (`ChainInv`); the
  hand-over appends to the chain, `loop_fwd` does not change it, its death cuts it
  off. `NoSegmentIsLost` (`OthersGetEverySegment`): `WACOM_HISTORY` is the end of
  `SCRIBBLES` (`SegmentInv`), which is why a segment painted here lies inside of
  one drawing. `SameInkSameLook` (`OneInkLooksTheSame`): a point paints if and
  only if two points of its line come before it (`InkInv`).
  `RelayRefinement`: every step is a step of `DrawingRelay` or a stutter. What
  `loop_fwd` sends was cut long before, maybe after lifts with too few points, and
  lifts went on since; `CutInv` says of each drawing in the pipeline that it ends at
  a lift and that no lift before its end left three points, and of `SCRIBBLES` that
  no lift so far has.
* `ScreenSharingProofs`: `TypeCorrect`; `NothingSkippedUnstored`: `SkippedWasStored`, from what the
  loop knows at each of its places (`KnowsInv`): while a picture is being sent its
  checksum is remembered although it is not stored yet, and a failure forgets it.
* `DrawingAppProofs`: `SaveInv` (`SavesAreSafe`) is inductive with the types it
  rests on. It relates the three canvases: what the saved one lacks of the canvas is
  of the line in progress, what the one before lacks of the saved one is at most one
  finished line, and the copy a button is about to write back lacks only what the
  companion painted, which holds only because that copy was dumped after the last
  save. Nothing is said the other way round: after a clear the saved canvases hold
  what the canvas does not. `SavedHasAllLines` (`NothingUnsaved`) follows, and
  `UndoneStaysUndone` (`UndoneNeverShows`), because no saved canvas holds what was
  undone either. `UndoInv` adds that a saved canvas holds nothing newer than the line
  it was saved for, and when there is one; with it every step is a step of `OneUndo`
  or a stutter (`OneUndoRefinement`). `WidthKeepsInk` (`WidthNeverFlips`) rests on
  clamped widths being at least 1. `TypeCorrect` adds the modes and the devices.
* `RoomTabletsProofs`: three theorems on the toolbar's pixels: the pictures of the
  two buttons lie in their own touch area and in no other (`PicturesAreTheButtons`),
  no two pictures overlap, so the order of the startup tasks does not show
  (`PicturesApart`), and a point of the canvas that was drawn with the pen, in
  whichever ink it is received, reaches nothing of the toolbar but the bar and the
  last rows of the QR code (`OnlyErasersReach`). `CounterInv`: while a stroke of the old
  digit is to be rubbed out, all of the new one is yet to be painted, so rubbing
  out shared strokes does no harm; ink is of the old digit, of the new one, of the
  one that the startup task read, or a smudge. From it `CounterStaysReadable` and
  `GhostsHaveTwoSources` (`GhostsAreKnown`): a digit that the startup task read
  before a repaint and paints after it does stay beside the right one, a drawing
  that begins in black, maybe with points left of the line before, and goes on with
  the eraser is received in black and as wide as the eraser and leaves a smudge, and
  nothing else stays.
  `LineInv`: the feed, every channel and every canvas hold no line before one that
  its author had seen (`InOrder`); it is inductive because a line that waits in a
  channel was seen by no author of a published line (`OutboxAfterFeed`). From it
  `CausalOrder`. `TypeCorrect` completes it.
* `StrokePlayersProofs`: `RingInv` says that what is shown is in the ring, that the
  ring ascends, and that less than a full ring is left when a record ends it all.
  The last follows because nothing is read while the ring is full. `NothingEscapes`,
  `LittleIsLeft`, `FirstInFirstOut` and `TypeCorrect` follow. For the companion,
  `CompanionInv` says that what it has drawn, followed by what its script still
  holds, begins the drawing of the words written, and is all of it if all of the
  text parses; while it is loading, that its text is one the words are written as, or
  one with something else between its tokens. With what the parser makes of both,
  `WhatIsWrittenIsDrawn` (`DrawsWhatIsWritten`) follows, for any words.
* `UnipenTextProofs`: what the parser reads. `ReadAsFarAsItParses`: from a text that
  follows the format up to some place, where what does not parse or the end of the text
  stands, it draws a beginning of what is written. `WrittenIsReadBack`: it reads back
  what `Written` writes if all of it parses, and draws a beginning of it otherwise.
  `DamagedIsReadInPart`: the same of a text with something else between two tokens.
  These are inductions over data, and the library's
  induction theorems cannot be instantiated here because they take an operator.
  So the induction is over a *set* of numbers (`SetInduction`, `DownwardInduction`),
  which has a least element because strict inclusion is well-founded on finite sets;
  that a recursive function exists at all is proved in the same way, with its step
  given as a function (`BoundedRecursion`, `ForwardRecursion`). `Spelt` says that a
  text has given tokens from a position on, and that they parse, as far as a bound, and
  `Foreign` that what stands at the bound is no token that parses. The bound is the first
  token that does not parse or, without one, the end of the text, so one induction over
  strokes (`StrokesRead`) and one over words (`WordsRead`) serve all three theorems.

Only model-checked: the liveness properties. Fairness and `ENABLED` are out of
TLAPS's reach.

## 6. Not modelled

* `ListRooms` and `ListRoomMembers`: stubs that keep no state.
* The graceful stop of the gRPC process: `GracefulStop` waits for streams without a
  deadline, so with a tablet connected it does not end before docker kills the
  process, and a killed process is `ProcessDies`. Reading flags and setting up
  interceptors and TLS keep no state.
* `marauder/src/shapes/smileyface.rs`, `event_house.go`, `event_nose.go`, and of
  `drawings/src/` the files `top_left_help.rs` and `top_right_*.rs`: literal data
  that nothing uses, or only code that is commented out. Of the pictures that are
  painted the box around the points is modelled, not their shape. `strokes/strokes_generated.rs` is
  generated from `strokes.fbs`, and unused too.
* `Stroke::translate`, `bounding_box` and the like in `strokes/mod.rs`, which nothing
  calls; `bin/ujipenchars.rs` and `bin/experiments.rs`, which print what the parser
  or the device gives.
* The path grammar of `scrolls/src/svg.rs` and the SVG of the font
  (`fonts/`): pure parsing of files, without state. A file that cannot be parsed
  is `BadRecord`. `ujipenchars2.txt` is compiled in and well-formed, with numbers that
  fit: the texts of `players` that do not parse stand for other editions of it.
* Generated protocol buffers, `xor.go`, `misc/`, `srv/`, scripts and packaging.

## 7. What remains

* Several server processes behind one broker: `WhiteboardEvents` has one process with
  one connection, as `docker-compose.yml` has; more would need a `Nats` each.
* `RoomTablets` composes the tablets over the promise of `RoomFeed`, not over
  `WhiteboardEvents` itself: what links them is the theorem `FeedRefinement`. A
  single instance of both is beyond TLC for three tablets.

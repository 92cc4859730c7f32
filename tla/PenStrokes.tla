----------------------------- MODULE PenStrokes -----------------------------
(***************************************************************************)
(* From the pen of a whiteboard tablet to the server (whiteboard.rs).      *)
(*                                                                         *)
(* The UI thread paints while the pen moves: WACOM_HISTORY holds the last  *)
(* points of the line and every third point paints a segment.  The same    *)
(* points pile up in SCRIBBLES until the line ends; they then go as one    *)
(* Drawing through the channel TX to loop_fwd, which sends them with       *)
(* SendEvent.  A tablet that receives a Drawing paints one segment per     *)
(* three successive points.  Callbacks of the UI thread are atomic: TX is  *)
(* all they share with loop_fwd.                                           *)
(*                                                                         *)
(* Points are numbered in the order they were drawn; drawn[n] is how.      *)
(***************************************************************************)
EXTENDS Buttons, Sequences, FiniteSets

CONSTANT MaxInputs   \* bound on points drawn, changes of tool and touches

ASSUME BoundAssumption == MaxInputs \in Nat

VARIABLES penBlack,   \* PEN_BLACK: the tip, rather than the rubber, is near
          wacom,      \* WACOM_HISTORY
          scribbles,  \* SCRIBBLES
          queue,      \* the channel: drawings on their way to loop_fwd
          fwd,        \* loop_fwd: "recv", "sending" or "dead"
          hand,       \* what loop_fwd is sending
          app,        \* "running", "panicked" or "exited"
          drawn,      \* history: each point, its ink and its line
          lifted,     \* history: how many points were drawn at the last lift
          painted,    \* history: the segments painted locally
          delivered,  \* history: the drawings the server published
          changes     \* how many changes of tool and touches there were

uiVars == <<penBlack, wacom, scribbles, app, drawn, lifted, painted>>
fwdVars == <<fwd, hand, delivered>>
vars == <<buttonVars, uiVars, fwdVars, queue, changes>>

\* line identifies the stroke of a point: the number of points before it.
Point == [white : BOOLEAN, wide : BOOLEAN, line : Nat]
Drawing == Seq(Nat \ {0})

TypeOK ==
  /\ ButtonsTypeOK
  /\ penBlack \in BOOLEAN
  /\ wacom \in Drawing /\ Len(wacom) < 3
  /\ scribbles \in Drawing
  /\ queue \in Seq(Drawing) /\ delivered \in Seq(Drawing)
  /\ fwd \in {"recv", "sending", "dead"}
  /\ hand \in Drawing
  /\ app \in {"running", "panicked", "exited"}
  /\ drawn \in Seq(Point)
  /\ lifted \in Nat /\ changes \in Nat
  /\ \A p \in painted : p.pts \in Drawing /\ p.white \in BOOLEAN

Init ==
  /\ ButtonsInit
  /\ penBlack = TRUE
  /\ wacom = << >> /\ scribbles = << >>
  /\ queue = << >> /\ fwd = "recv" /\ hand = << >>
  /\ app = "running"
  /\ drawn = << >> /\ lifted = 0 /\ painted = {} /\ delivered = << >>
  /\ changes = 0

-----------------------------------------------------------------------------
(* The UI thread.                                                          *)

MoreInput == Len(drawn) + changes < MaxInputs

\* A segment through three points.
Segment(pts, white, wides) == [pts |-> pts, white |-> white, wides |-> wides]

\* What is left of three points once their segment is painted.  Mutant: the
\* oldest point stays.
Unshifted(line) == line
Shifted(line) == Tail(line)

\* Draw inside the canvas.  Locally the ink of the newest point colours and
\* widens the whole segment.
Draw ==
  /\ app = "running" /\ MoreInput
  /\ LET n == Len(drawn) + 1
         white == ~penBlack \/ IsPressed("erase")
         wide == IsPressed("times3")
         line == Append(wacom, n)
     IN  /\ drawn' = Append(drawn, [white |-> white, wide |-> wide, line |-> lifted])
         /\ scribbles' = Append(scribbles, n)
         /\ IF Len(line) >= 3
            THEN /\ painted' = painted \cup {Segment(line, white, [i \in 1..3 |-> wide])}
                 /\ wacom' = Shifted(line)
            ELSE wacom' = line /\ painted' = painted
  /\ UNCHANGED <<buttonVars, penBlack, app, lifted, fwdVars, queue, changes>>

\* Mutants of MaybeSendDrawing: what was sent stays in SCRIBBLES; too few
\* points are thrown away; three points are too few.
SendAndKeep ==
  IF Len(scribbles) < 3 THEN UNCHANGED <<scribbles, queue, app>>
  ELSE queue' = Append(queue, scribbles) /\ UNCHANGED <<scribbles, app>>

DropShort ==
  IF Len(scribbles) < 3 THEN scribbles' = << >> /\ UNCHANGED <<queue, app>>
  ELSE IF fwd = "dead" THEN app' = "panicked" /\ UNCHANGED <<scribbles, queue>>
  ELSE queue' = Append(queue, scribbles) /\ scribbles' = << >> /\ app' = app

WaitForFour ==
  IF Len(scribbles) <= 3 THEN UNCHANGED <<scribbles, queue, app>>
  ELSE IF fwd = "dead" THEN app' = "panicked" /\ UNCHANGED <<scribbles, queue>>
  ELSE queue' = Append(queue, scribbles) /\ scribbles' = << >> /\ app' = app

\* maybe_send_drawing: fewer than three points wait for more.  Once loop_fwd
\* has dropped its end of the channel, send().unwrap() panics.
MaybeSendDrawing ==
  IF Len(scribbles) < 3 THEN UNCHANGED <<scribbles, queue, app>>
  ELSE IF fwd = "dead" THEN app' = "panicked" /\ UNCHANGED <<scribbles, queue>>
  ELSE queue' = Append(queue, scribbles) /\ scribbles' = << >> /\ app' = app

\* Mutant of LineEnds: the end of a line does not clear WACOM_HISTORY.
LineGoesOn ==
  /\ app = "running"
  /\ lifted' = Len(drawn)
  /\ MaybeSendDrawing
  /\ UNCHANGED <<buttonVars, penBlack, wacom, drawn, painted, fwdVars, changes>>

\* The pen leaves the canvas, loses contact or hovers.
LineEnds ==
  /\ app = "running"
  /\ wacom' = << >> /\ lifted' = Len(drawn)
  /\ MaybeSendDrawing
  /\ UNCHANGED <<buttonVars, penBlack, drawn, painted, fwdVars, changes>>

\* InstrumentChange: the tip or the rubber comes near or goes away.
ChangeTool(black) ==
  /\ app = "running" /\ penBlack # black
  /\ penBlack' = black
  /\ MoreInput /\ changes' = changes + 1
  /\ UNCHANGED <<buttonVars, wacom, scribbles, app, drawn, lifted, painted,
                 fwdVars, queue>>

TouchScreen(f, place) ==
  /\ app = "running"
  /\ OnTch(f, place)
  /\ MoreInput /\ changes' = changes + 1
  /\ UNCHANGED <<uiVars, fwdVars, queue>>

\* on_btn: any of the three buttons below the screen ends the process.
OnBtn ==
  /\ app = "running" /\ app' = "exited"
  /\ UNCHANGED <<buttonVars, penBlack, wacom, scribbles, drawn, lifted, painted,
                 fwdVars, queue, changes>>

-----------------------------------------------------------------------------
(* loop_fwd.                                                               *)

Receive ==
  /\ app # "exited" /\ fwd = "recv" /\ queue # << >>
  /\ hand' = Head(queue) /\ queue' = Tail(queue)
  /\ fwd' = "sending"
  /\ UNCHANGED <<buttonVars, uiVars, delivered, changes>>

Sent ==
  /\ app # "exited" /\ fwd = "sending"
  /\ delivered' = Append(delivered, hand)
  /\ hand' = << >> /\ fwd' = "recv"
  /\ UNCHANGED <<buttonVars, uiVars, queue, changes>>

\* Mutant of SendingFails: the loop survives, the drawing is forgotten.
SendingSkipped ==
  /\ app # "exited" /\ fwd = "sending"
  /\ hand' = << >> /\ fwd' = "recv"
  /\ UNCHANGED <<buttonVars, uiVars, queue, delivered, changes>>

\* An error ends loop_fwd for good and drops the channel with all it holds.
\* After a timeout the server may have published the drawing all the same.
SendingFails ==
  /\ app # "exited" /\ fwd = "sending"
  /\ delivered' \in {delivered, Append(delivered, hand)}
  /\ fwd' = "dead" /\ hand' = << >> /\ queue' = << >>
  /\ UNCHANGED <<buttonVars, uiVars, changes>>

Next ==
  \/ Draw \/ LineEnds \/ OnBtn
  \/ \E black \in BOOLEAN : ChangeTool(black)
  \/ \E f \in Fingers, place \in Places : TouchScreen(f, place)
  \/ Receive \/ Sent \/ SendingFails

Spec == Init /\ [][Next]_vars

\* loop_fwd has a thread of its own and the channel to the server times a
\* request out after four seconds: every send ends, one way or the other.
Fairness == WF_vars(Receive) /\ WF_vars(Sent \/ SendingFails)
FairSpec == Spec /\ Fairness

-----------------------------------------------------------------------------
(* What becomes of the points.                                             *)

\* The drawings that reached the server or still may, oldest first.
Pipeline == delivered \o (IF fwd = "sending" THEN <<hand>> ELSE << >>) \o queue

Run(d) == \A i \in DOMAIN d : d[i] = d[1] + i - 1
After(d) == d[Len(d)] + 1

\* No point is lost, repeated or reordered between the pen and the server:
\* drawings are runs of points, each starts where the one before ended, and
\* SCRIBBLES goes on from the last.  A failed send only cuts the tail off.
PointsInOrder ==
  LET pipeline == Pipeline
      end == IF pipeline = << >> THEN 1 ELSE After(pipeline[Len(pipeline)])
  IN  /\ \A k \in DOMAIN pipeline :
           /\ Len(pipeline[k]) >= 3 /\ Run(pipeline[k])
           /\ pipeline[k][1] = IF k = 1 THEN 1 ELSE After(pipeline[k - 1])
      /\ fwd # "dead" =>
           /\ scribbles # << >> => Run(scribbles) /\ scribbles[1] = end
           /\ end + Len(scribbles) = Len(drawn) + 1

\* The segments that the receiver of a drawing paints: its first point's
\* colour, each point's own width.  Mutant: one segment short.
SegmentsButLast(d) ==
  {Segment(SubSeq(d, i, i + 2), drawn[d[1]].white,
           [j \in 1..3 |-> drawn[d[i + j - 1]].wide]) : i \in 1..(Len(d) - 3)}

SegmentsOf(d) ==
  {Segment(SubSeq(d, i, i + 2), drawn[d[1]].white,
           [j \in 1..3 |-> drawn[d[i + j - 1]].wide]) : i \in 1..(Len(d) - 2)}

Inside(p, d) == \E i \in 1..(Len(d) - 2) : p.pts = SubSeq(d, i, i + 2)

\* No segment falls between two drawings: what the user sees others get,
\* because both stacks are cut at the same moments.
OthersGetEverySegment ==
  fwd # "dead" =>
    \A p \in painted :
      Inside(p, scribbles) \/ \E k \in DOMAIN Pipeline : Inside(p, Pipeline[k])

SameInk(d) ==
  \A i \in DOMAIN d : drawn[d[i]] = drawn[d[1]]

\* A drawing made of one line in one ink is painted elsewhere exactly as it
\* was here.
OneInkLooksTheSame ==
  \A k \in DOMAIN Pipeline :
    LET d == Pipeline[k]
    IN  SameInk(d) => SegmentsOf(d) = {p \in painted : Inside(p, d)}

\* After how many points the pen was lifted.
Lifts == {drawn[i].line : i \in DOMAIN drawn} \cup {lifted}

Relay == INSTANCE DrawingRelay
  WITH points <- Len(drawn), lifts <- Lifts, sent <- delivered, open <- fwd # "dead"

\* What the server gets is what module DrawingRelay promises: gapless
\* drawings cut at the first lift that leaves three points, however far
\* the channel and loop_fwd lag behind the pen and wherever the loop dies.
ImplementsRelay == Relay!Spec

\* Every drawing the UI hands over is sent, unless the loop or the process
\* ended first.
DrawingsAreSent ==
  \A k \in 1..MaxInputs :
    k <= Len(Pipeline) ~> k <= Len(delivered) \/ fwd = "dead" \/ app = "exited"

\* whiteboard.rs:348 "If the pen is hovering, don't record its coordinates
\* as the origin of the next line": no drawing goes on across a lift.
LiftsSeparateLines ==
  \A k \in DOMAIN Pipeline : \A i, j \in DOMAIN Pipeline[k] :
    drawn[Pipeline[k][i]].line = drawn[Pipeline[k][j]].line

\* whiteboard.rs:387 "tx.send(drawing).unwrap()": the channel to loop_fwd
\* is open whenever the UI thread sends.
SendNeverPanics == app # "panicked"
=============================================================================

------------------------------ MODULE Toolbar ------------------------------
(***************************************************************************)
(* Where things are on the screen of the whiteboard tablet (whiteboard.rs, *)
(* buttons.rs, the drawings crate), in pixels.                             *)
(*                                                                         *)
(* The toolbar is a strip above the canvas.  A picture in it is a list of  *)
(* strokes; all that matters of their points is the smallest box around    *)
(* them.  A point of a line reaches what is within its radius.             *)
(***************************************************************************)
EXTENDS Integers

DisplayWidth == 1404
CanvasTop == 70 + 2   \* TOOLBAR_HEIGHT

Box == [left : Nat, right : Nat, top : Nat, bottom : Nat]

Sides(l, r, t, b) == [left |-> l, right |-> r, top |-> t, bottom |-> b]

TitleBox == Sides(477, 850, 8, 64)
SquareBox == Sides(104, 151, 17, 59)
X3Box == Sides(208, 267, 16, 56)

\* top_bar: one row of points.
BarBox == Sides(1, DisplayWidth - 1, CanvasTop - 2, CanvasTop - 2)

\* What paint_mouldings leaves to the right of the counter: 64 by 64 pixels.
QrBox == Sides(DisplayWidth - (4 + 64), DisplayWidth - 4, 4, 4 + 64)

\* paint_glyph moves and scales the digits of the font to here.
CounterBox == Sides(1280, 1320, 10, 64)

Pictures == {TitleBox, SquareBox, X3Box, QrBox, CounterBox, BarBox}

\* The area of the nth button.
Area(nth) == Sides(100 * nth, 100 * nth + 100, 0, 60)

Inside(x, y, b) == b.left <= x /\ x <= b.right /\ b.top <= y /\ y <= b.bottom

Apart(b, c) ==
  b.right < c.left \/ c.right < b.left \/ b.bottom < c.top \/ c.bottom < b.top

\* The multipliers of the pressure that on_pen gives to a point: of the pen and
\* of the eraser, each with and without the x3 button.
PenTips == {2, 2 * 3}
EraserTips == {50, 50 * 3}

\* Mutant of Radius: the pen is as wide as the eraser.
BroadRadius(tip) == IF tip \in PenTips THEN 25 * tip ELSE tip

\* The pressure, which is less than 2 * 2048, times the tip is halved twice.
Radius(tip) == tip

\* A point of a line: where, how wide, and in which ink.
Point == [x : Nat, y : Nat, tip : PenTips \cup EraserTips, white : BOOLEAN]
OnCanvas(p) == p \in Point /\ p.x <= DisplayWidth /\ p.y >= CanvasTop

\* Where it is drawn a point is white exactly if its tip is the eraser's.
\* Received, it comes in the ink of the first point of its drawing.
AsDrawn(p) == p.white <=> p.tip \in EraserTips

Reaches(p, b) ==
  LET r == Radius(p.tip)
  IN  /\ b.left - r < p.x /\ p.x < b.right + r
      /\ b.top - r < p.y /\ p.y < b.bottom + r
=============================================================================

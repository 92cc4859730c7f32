------------------------- MODULE RoomTabletsProofs -------------------------
(***************************************************************************)
(* Proofs about Toolbar and RoomTablets, for any tablets, lines, courses   *)
(* of the lines, glyphs and size of the counter.                           *)
(***************************************************************************)
EXTENDS RoomTablets, SequenceTheorems, TLAPS

-----------------------------------------------------------------------------
(* The toolbar.                                                            *)

\* A finger on the picture of a button is in the area of that button and of
\* no other: title_whiteboard.rs and the like agree with buttons.rs.
THEOREM PicturesAreTheButtons ==
  \A h, v \in Nat :
    /\ Inside(h, v, SquareBox) => Inside(h, v, Area(1)) /\ ~Inside(h, v, Area(2))
    /\ Inside(h, v, X3Box) => Inside(h, v, Area(2)) /\ ~Inside(h, v, Area(1))
BY SMT DEF Inside, SquareBox, X3Box, Area, Sides

\* The tasks of paint_mouldings paint apart from each other, so that the
\* order they run in does not show.
THEOREM PicturesApart == \A b, c \in Pictures : b = c \/ Apart(b, c)
BY SMT DEF Pictures, Apart, TitleBox, SquareBox, X3Box, BarBox, QrBox, CounterBox, Sides,
           CanvasTop, DisplayWidth

\* A point of a line that was drawn with the pen, in whichever ink it is
\* painted, touches the bar and the last rows of the QR code and leaves the
\* rest of the toolbar alone.
THEOREM OnlyErasersReach ==
  ASSUME NEW p, OnCanvas(p), p.tip \in PenTips, NEW b \in Pictures \ {BarBox, QrBox}
  PROVE  ~Reaches(p, b)
<1>1. p.y \in Nat /\ p.y >= 72
  BY DEF OnCanvas, Point, CanvasTop
<1>2. Radius(p.tip) \in Nat /\ Radius(p.tip) <= 6
  BY <1>1 DEF Radius, PenTips
<1>3. b.bottom \in Nat /\ b.bottom <= 64
  BY DEF Pictures, TitleBox, SquareBox, X3Box, CounterBox, Sides
<1>4. QED
  BY <1>1, <1>2, <1>3 DEF Reaches

-----------------------------------------------------------------------------
(* Sequences.                                                              *)

LEMMA RangeOfAppend ==
  ASSUME NEW S, NEW s \in Seq(S), NEW e
  PROVE  Range(Append(s, e)) = Range(s) \cup {e}
<1>1. DOMAIN s = 1..Len(s) /\ DOMAIN Append(s, e) = 1..(Len(s) + 1) /\ Len(s) \in Nat
  OBVIOUS
<1>2. \A i \in 1..Len(s) : Append(s, e)[i] = s[i]
  OBVIOUS
<1>3. Append(s, e)[Len(s) + 1] = e
  OBVIOUS
<1>4. \A i \in 1..(Len(s) + 1) : i \in 1..Len(s) \/ i = Len(s) + 1
  BY <1>1
<1>5. Len(s) + 1 \in 1..(Len(s) + 1) /\ \A i \in 1..Len(s) : i \in 1..(Len(s) + 1)
  BY <1>1
<1>6. Range(Append(s, e)) \subseteq Range(s) \cup {e}
  BY <1>1, <1>2, <1>3, <1>4 DEF Range
<1>7. Range(s) \subseteq Range(Append(s, e))
  BY <1>1, <1>2, <1>5 DEF Range
<1>8. e \in Range(Append(s, e))
  BY <1>1, <1>3, <1>5 DEF Range
<1>9. QED
  BY <1>6, <1>7, <1>8

LEMMA RangeOfTail ==
  ASSUME NEW S, NEW s \in Seq(S), s # << >>
  PROVE  /\ Range(s) = {Head(s)} \cup Range(Tail(s))
         /\ Head(s) \in S /\ Tail(s) \in Seq(S) /\ Head(s) = s[1]
         /\ Len(Tail(s)) = Len(s) - 1 /\ Len(s) \in Nat \ {0}
         /\ \A i \in 1..(Len(s) - 1) : Tail(s)[i] = s[i + 1]
<1>1. /\ Head(s) \in S /\ Tail(s) \in Seq(S) /\ Head(s) = s[1]
      /\ Len(Tail(s)) = Len(s) - 1 /\ Len(s) \in Nat \ {0}
      /\ \A i \in 1..(Len(s) - 1) : Tail(s)[i] = s[i + 1]
  BY HeadTailProperties, EmptySeq
<1>2. DOMAIN s = 1..Len(s) /\ DOMAIN Tail(s) = 1..(Len(s) - 1)
  BY <1>1
<1>3. \A i \in 1..Len(s) : i = 1 \/ (i - 1 \in 1..(Len(s) - 1) /\ (i - 1) + 1 = i)
  BY <1>1
<1>4. \A i \in 1..(Len(s) - 1) : i + 1 \in 1..Len(s)
  BY <1>1
<1>5. 1 \in 1..Len(s)
  BY <1>1
<1>6. Range(s) \subseteq {Head(s)} \cup Range(Tail(s))
  <2> SUFFICES ASSUME NEW i \in 1..Len(s), s[i] # Head(s) PROVE s[i] \in Range(Tail(s))
    BY <1>2 DEF Range
  <2>1. i - 1 \in 1..(Len(s) - 1) /\ Tail(s)[i - 1] = s[i]
    BY <1>1, <1>3
  <2>2. QED
    BY <1>2, <2>1 DEF Range
<1>7. Range(Tail(s)) \subseteq Range(s)
  BY <1>1, <1>2, <1>4 DEF Range
<1>8. Head(s) \in Range(s)
  BY <1>1, <1>2, <1>5 DEF Range
<1>9. QED
  BY <1>1, <1>6, <1>7, <1>8

LEMMA RangeOfEmpty == Range(<< >>) = {}
BY DEF Range

-----------------------------------------------------------------------------
(* The counter.  RubFirst: while a stroke of the old digit is to rub out,  *)
(* the whole new one is yet to paint.  OnlyOld: the ink is of the strokes  *)
(* to rub out, of the digit, of the one the startup task paints or of a    *)
(* black line as broad as the eraser.                                      *)
(* StillToPaint: what is missing of the digit is yet to paint.             *)

RubFirst(t) == rubbing[t] # << >> => Range(painting[t]) = Shown(t)
PaintsShown(t) == Range(painting[t]) \subseteq Shown(t)
OnlyOld(t) ==
  ink[t] \subseteq Range(rubbing[t]) \cup Shown(t) \cup FirstShown(t) \cup smudge[t]
StillToPaint(t) ==
  ~soiled[t] /\ rubbing[t] = << >> => Shown(t) \subseteq ink[t] \cup Range(painting[t])

CounterInv ==
  \A t \in Watched :
    /\ RubFirst(t) /\ PaintsShown(t) /\ OnlyOld(t) /\ StillToPaint(t)
    /\ Range(startup[t]) \subseteq FirstShown(t)

LEMMA DigitInRange ==
  ASSUME NEW n \in Counts
  PROVE  Digit(n) \in Digits /\ Glyph[Digit(n)] \in Seq(Pixels)
<1>1. TopDigit \in Nat /\ n \in Nat
  BY TabletsAssumption DEF Counts
<1>2. Digit(n) \in Digits
  BY <1>1 DEF Digit, Digits
<1>3. Range(Glyph[Digit(n)]) \subseteq Pixels
  BY <1>2 DEF Pixels
<1>4. Glyph[Digit(n)] \in Seq(Range(Glyph[Digit(n)]))
  BY <1>2, GlyphAssumption
<1>5. \A S, T : S \subseteq T => Seq(S) \subseteq Seq(T)
  OBVIOUS
<1>6. QED
  BY <1>2, <1>3, <1>4, <1>5

\* The counters are well-typed, whatever the lines are.
CounterTypeOK ==
  /\ people \in [Watched -> Counts]
  /\ rubbing \in [Watched -> Seq(Pixels)] /\ painting \in [Watched -> Seq(Pixels)]
  /\ startup \in [Watched -> Seq(Pixels)] /\ first \in [Watched -> Digits \cup {-1}]
  /\ ink \in [Watched -> SUBSET Pixels] /\ soiled \in [Watched -> BOOLEAN]
  /\ smudge \in [Watched -> SUBSET Pixels]

FeedTypeOK ==
  /\ feed \in Seq(Lines)
  /\ link \in [Tablets -> {"down", "up"}] /\ at \in [Tablets -> Nat]
  /\ fwd \in [Tablets -> {"up", "dead"}] /\ outbox \in [Tablets -> Seq(Lines)]
  /\ painted \in [Tablets -> Seq(Lines)] /\ seen \in [Lines -> SUBSET Lines]

\* Steps that change the ink of one counter: what it gains is a smudge, of the
\* digit or of the first one, and what it loses was to be rubbed out or soils.
LEMMA InkKeeps ==
  ASSUME CounterTypeOK, CounterInv, NEW t \in Watched,
         UNCHANGED <<people, rubbing, painting, startup, first>>,
         ink' \in [Watched -> SUBSET Pixels], smudge' \in [Watched -> SUBSET Pixels],
         soiled' \in [Watched -> BOOLEAN],
         \A u \in Watched : u # t => /\ ink'[u] = ink[u] /\ smudge'[u] = smudge[u]
                                     /\ soiled'[u] = soiled[u],
         ink'[t] \ smudge'[t] \subseteq ink[t] \ smudge[t],
         soiled'[t] \/ (ink[t] \subseteq ink'[t] /\ soiled'[t] = soiled[t])
  PROVE  CounterTypeOK' /\ CounterInv'
<1>1. CounterTypeOK'
  BY DEF CounterTypeOK
<1>2. ASSUME NEW u \in Watched, u # t PROVE OnlyOld(u)' /\ StillToPaint(u)'
  BY <1>2 DEF CounterInv, OnlyOld, StillToPaint, Shown, FirstShown
<1>3. OnlyOld(t)'
  BY DEF CounterInv, OnlyOld, Shown, FirstShown
<1>4. StillToPaint(t)'
  BY DEF CounterInv, StillToPaint, Shown
<1>5. \A u \in Watched : RubFirst(u)' /\ PaintsShown(u)' /\ Range(startup'[u]) \subseteq FirstShown(u)'
  BY DEF CounterInv, RubFirst, PaintsShown, Shown, FirstShown
<1>6. QED
  BY <1>1, <1>2, <1>3, <1>4, <1>5 DEF CounterInv

\* Of the lines, white ones soil, and a black one that gets to the counter has
\* an eraser's tip and smudges.
LEMMA LinesRubOrSmudge ==
  ASSUME CounterTypeOK, CounterInv, NEW t \in Tablets, NEW l \in Lines, PaintLine(t, l)
  PROVE  CounterTypeOK' /\ CounterInv'
<1>1. UNCHANGED <<people, rubbing, painting, startup, first>>
  BY DEF PaintLine, startupVars
<1>2. CASE UNCHANGED <<ink, smudge, soiled>>
  BY <1>1, <1>2 DEF CounterTypeOK, CounterInv, RubFirst, PaintsShown, OnlyOld, StillToPaint,
                    Shown, FirstShown
<1>3. CASE t \in Watched /\ Reaches(SpotOn(t, l), CounterBox)
  <2> DEFINE p == SpotOn(t, l)
  <2>1. OnCanvas(p) /\ p.white \in BOOLEAN
    BY TabletsAssumption DEF Point, SpotOn
  <2>2. CounterBox \in Pictures \ {BarBox, QrBox}
    BY DEF Pictures, CounterBox, BarBox, QrBox, Sides, CanvasTop, DisplayWidth
  <2>3. p.tip \in EraserTips
    <3>1. p.tip \in PenTips \cup EraserTips
      BY <2>1 DEF OnCanvas, Point
    <3>2. QED
      BY <1>3, <2>1, <2>2, <3>1, OnlyErasersReach
  <2>4. CASE p.white
    <3>1. PICK some \in SUBSET Pixels :
            RubOut(t, some) /\ soiled' = [soiled EXCEPT ![t] = TRUE]
      BY <1>3, <2>4 DEF PaintLine, CrossDigit
    <3>2. /\ ink' = [ink EXCEPT ![t] = @ \ some]
          /\ smudge' = [smudge EXCEPT ![t] = @ \ some]
      BY <3>1 DEF RubOut
    <3>3. /\ ink' \in [Watched -> SUBSET Pixels] /\ smudge' \in [Watched -> SUBSET Pixels]
          /\ soiled' \in [Watched -> BOOLEAN]
      BY <3>1, <3>2 DEF CounterTypeOK
    <3>4. \A u \in Watched : u # t => /\ ink'[u] = ink[u] /\ smudge'[u] = smudge[u]
                                      /\ soiled'[u] = soiled[u]
      BY <3>1, <3>2 DEF CounterTypeOK
    <3>5. ink'[t] = ink[t] \ some /\ smudge'[t] = smudge[t] \ some /\ soiled'[t]
      BY <1>3, <3>1, <3>2 DEF CounterTypeOK
    <3>6. ink'[t] \ smudge'[t] \subseteq ink[t] \ smudge[t]
      BY <3>5
    <3>7. QED
      BY <1>1, <1>3, <3>3, <3>4, <3>5, <3>6, InkKeeps
  <2>5. CASE ~p.white
    <3>1. PICK some \in SUBSET Pixels :
            /\ ink' = [ink EXCEPT ![t] = @ \cup some]
            /\ smudge' = [smudge EXCEPT ![t] = @ \cup some]
            /\ soiled' = soiled
      BY <1>3, <2>3, <2>5 DEF PaintLine, CrossDigit
    <3>2. /\ ink' \in [Watched -> SUBSET Pixels] /\ smudge' \in [Watched -> SUBSET Pixels]
          /\ soiled' \in [Watched -> BOOLEAN]
      BY <3>1 DEF CounterTypeOK
    <3>3. \A u \in Watched : u # t => /\ ink'[u] = ink[u] /\ smudge'[u] = smudge[u]
                                      /\ soiled'[u] = soiled[u]
      BY <3>1 DEF CounterTypeOK
    <3>4. ink'[t] = ink[t] \cup some /\ smudge'[t] = smudge[t] \cup some
      BY <1>3, <3>1 DEF CounterTypeOK
    <3>5. ink'[t] \ smudge'[t] \subseteq ink[t] \ smudge[t] /\ ink[t] \subseteq ink'[t]
      BY <3>4
    <3>6. QED
      BY <1>1, <1>3, <3>1, <3>2, <3>3, <3>5, InkKeeps
  <2>6. QED
    BY <2>4, <2>5
<1>4. QED
  BY <1>2, <1>3 DEF PaintLine, CrossDigit, inkVars

LEMMA CountedKeeps ==
  ASSUME CounterTypeOK, CounterInv, NEW t \in Watched, Idle(t), NEW n \in Counts,
         Counted(t, n), UNCHANGED <<startupVars, inkVars>>
  PROVE  CounterTypeOK' /\ CounterInv'
<1>1. /\ people' = [people EXCEPT ![t] = n]
      /\ rubbing' = [rubbing EXCEPT ![t] = Glyph[Digit(people[t])]]
      /\ painting' = [painting EXCEPT ![t] = Glyph[Digit(n)]]
      /\ soiled' = [soiled EXCEPT ![t] = FALSE]
      /\ UNCHANGED <<startup, first, ink, smudge>>
  BY DEF Counted, startupVars, inkVars
<1>2. rubbing[t] = << >> /\ people[t] \in Counts
  BY DEF Idle, CounterTypeOK
<1>3. CounterTypeOK'
  BY <1>1, <1>2, DigitInRange DEF CounterTypeOK
<1>4. /\ people'[t] = n /\ rubbing'[t] = Glyph[Digit(people[t])]
      /\ painting'[t] = Glyph[Digit(n)]
  BY <1>1 DEF CounterTypeOK
<1>5. \A u \in Watched : u # t => /\ people'[u] = people[u] /\ rubbing'[u] = rubbing[u]
                                  /\ painting'[u] = painting[u] /\ soiled'[u] = soiled[u]
  BY <1>1 DEF CounterTypeOK
<1>6. ASSUME NEW u \in Watched, u # t
      PROVE  RubFirst(u)' /\ PaintsShown(u)' /\ OnlyOld(u)' /\ StillToPaint(u)'
  BY <1>1, <1>5, <1>6 DEF CounterInv, RubFirst, PaintsShown, OnlyOld, StillToPaint, Shown, FirstShown
<1>7. Range(painting'[t]) = Shown(t)' /\ Range(rubbing'[t]) = Shown(t)
  BY <1>4 DEF Shown
<1>8. RubFirst(t)' /\ PaintsShown(t)' /\ StillToPaint(t)'
  BY <1>7 DEF RubFirst, PaintsShown, StillToPaint
<1>9. ink[t] \subseteq Shown(t) \cup FirstShown(t) \cup smudge[t]
  BY <1>2, RangeOfEmpty DEF CounterInv, OnlyOld
<1>10. OnlyOld(t)'
  BY <1>1, <1>7, <1>9 DEF OnlyOld, FirstShown
<1>11. QED
  BY <1>1, <1>3, <1>6, <1>8, <1>10 DEF CounterInv, FirstShown

\* A stroke of a repaint or of the first digit.
LEMMA StrokeKeeps ==
  ASSUME CounterTypeOK, CounterInv, NEW t \in Watched, PaintStroke(t) \/ PaintFirst(t) \/ LoadCount(t)
  PROVE  CounterTypeOK' /\ CounterInv'
<1> USE DEF startupVars
<1>1. CASE rubbing[t] # << >> /\ PaintStroke(t)
  <2>1. /\ ink' = [ink EXCEPT ![t] = @ \ {Head(rubbing[t])}]
        /\ smudge' = [smudge EXCEPT ![t] = @ \ {Head(rubbing[t])}]
        /\ rubbing' = [rubbing EXCEPT ![t] = Tail(@)]
        /\ UNCHANGED <<painting, people, soiled, startup, first>>
    BY <1>1 DEF PaintStroke, RubOut
  <2>2. /\ Range(rubbing[t]) = {Head(rubbing[t])} \cup Range(Tail(rubbing[t]))
        /\ Tail(rubbing[t]) \in Seq(Pixels)
    <3>1. rubbing[t] \in Seq(Pixels)
      BY DEF CounterTypeOK
    <3>2. QED
      BY <1>1, <3>1, RangeOfTail
  <2>3. CounterTypeOK'
    BY <2>1, <2>2 DEF CounterTypeOK
  <2>4. /\ ink'[t] = ink[t] \ {Head(rubbing[t])} /\ rubbing'[t] = Tail(rubbing[t])
        /\ smudge'[t] = smudge[t] \ {Head(rubbing[t])}
    BY <2>1 DEF CounterTypeOK
  <2>5. \A u \in Watched : u # t => /\ ink'[u] = ink[u] /\ rubbing'[u] = rubbing[u]
                                    /\ smudge'[u] = smudge[u]
    BY <2>1 DEF CounterTypeOK
  <2>6. OnlyOld(t)' /\ RubFirst(t)' /\ StillToPaint(t)'
    BY <1>1, <2>1, <2>2, <2>4 DEF CounterInv, OnlyOld, RubFirst, StillToPaint, Shown, FirstShown
  <2>7. \A u \in Watched : u # t => OnlyOld(u)' /\ RubFirst(u)' /\ StillToPaint(u)'
    BY <2>1, <2>5 DEF CounterInv, OnlyOld, RubFirst, StillToPaint, Shown, FirstShown
  <2>8. QED
    BY <2>1, <2>3, <2>6, <2>7 DEF CounterInv, PaintsShown, Shown, FirstShown
<1>2. CASE rubbing[t] = << >> /\ PaintStroke(t)
  <2>1. /\ painting[t] # << >>
        /\ ink' = [ink EXCEPT ![t] = @ \cup {Head(painting[t])}]
        /\ painting' = [painting EXCEPT ![t] = Tail(@)]
        /\ UNCHANGED <<rubbing, people, soiled, startup, first, smudge>>
    BY <1>2 DEF PaintStroke, Blacken
  <2>2. /\ Range(painting[t]) = {Head(painting[t])} \cup Range(Tail(painting[t]))
        /\ Tail(painting[t]) \in Seq(Pixels) /\ Head(painting[t]) \in Pixels
    <3>1. painting[t] \in Seq(Pixels)
      BY DEF CounterTypeOK
    <3>2. QED
      BY <2>1, <3>1, RangeOfTail
  <2>3. CounterTypeOK'
    BY <2>1, <2>2 DEF CounterTypeOK
  <2>4. ink'[t] = ink[t] \cup {Head(painting[t])} /\ painting'[t] = Tail(painting[t])
    BY <2>1 DEF CounterTypeOK
  <2>5. \A u \in Watched : u # t => ink'[u] = ink[u] /\ painting'[u] = painting[u]
    BY <2>1 DEF CounterTypeOK
  <2>6. OnlyOld(t)' /\ RubFirst(t)' /\ StillToPaint(t)' /\ PaintsShown(t)'
    BY <1>2, <2>1, <2>2, <2>4
       DEF CounterInv, OnlyOld, RubFirst, StillToPaint, PaintsShown, Shown, FirstShown
  <2>7. \A u \in Watched :
          u # t => OnlyOld(u)' /\ RubFirst(u)' /\ StillToPaint(u)' /\ PaintsShown(u)'
    BY <2>1, <2>5 DEF CounterInv, OnlyOld, RubFirst, StillToPaint, PaintsShown, Shown, FirstShown
  <2>8. QED
    BY <2>1, <2>3, <2>6, <2>7 DEF CounterInv, Shown, FirstShown
<1>3. CASE PaintFirst(t)
  <2>1. /\ startup[t] # << >>
        /\ ink' = [ink EXCEPT ![t] = @ \cup {Head(startup[t])}]
        /\ startup' = [startup EXCEPT ![t] = Tail(@)]
        /\ UNCHANGED <<rubbing, painting, people, soiled, first, smudge>>
    BY <1>3 DEF PaintFirst, Blacken, counterVars
  <2>2. /\ Range(startup[t]) = {Head(startup[t])} \cup Range(Tail(startup[t]))
        /\ Tail(startup[t]) \in Seq(Pixels) /\ Head(startup[t]) \in Pixels
    <3>1. startup[t] \in Seq(Pixels)
      BY DEF CounterTypeOK
    <3>2. QED
      BY <2>1, <3>1, RangeOfTail
  <2>3. CounterTypeOK'
    BY <2>1, <2>2 DEF CounterTypeOK
  <2>4. ink'[t] = ink[t] \cup {Head(startup[t])} /\ startup'[t] = Tail(startup[t])
    BY <2>1 DEF CounterTypeOK
  <2>5. \A u \in Watched : u # t => ink'[u] = ink[u] /\ startup'[u] = startup[u]
    BY <2>1 DEF CounterTypeOK
  <2>6. OnlyOld(t)' /\ StillToPaint(t)' /\ Range(startup'[t]) \subseteq FirstShown(t)'
    BY <2>1, <2>2, <2>4 DEF CounterInv, OnlyOld, StillToPaint, Shown, FirstShown
  <2>7. \A u \in Watched :
          u # t => OnlyOld(u)' /\ StillToPaint(u)' /\ Range(startup'[u]) \subseteq FirstShown(u)'
    BY <2>1, <2>5 DEF CounterInv, OnlyOld, StillToPaint, Shown, FirstShown
  <2>8. QED
    BY <2>1, <2>3, <2>6, <2>7 DEF CounterInv, RubFirst, PaintsShown, Shown
<1>4. CASE LoadCount(t)
  <2>1. /\ first[t] = -1
        /\ first' = [first EXCEPT ![t] = Digit(people[t])]
        /\ startup' = [startup EXCEPT ![t] = Glyph[Digit(people[t])]]
        /\ UNCHANGED <<rubbing, painting, people, soiled, ink, smudge>>
    BY <1>4 DEF LoadCount, counterVars, inkVars
  <2>2. Digit(people[t]) \in Digits /\ Glyph[Digit(people[t])] \in Seq(Pixels)
    BY DigitInRange DEF CounterTypeOK
  <2>3. CounterTypeOK'
    BY <2>1, <2>2 DEF CounterTypeOK
  <2>4. first'[t] = Digit(people[t]) /\ startup'[t] = Glyph[Digit(people[t])] /\ first'[t] # -1
    BY <2>1, <2>2 DEF CounterTypeOK, Digits
  <2>5. \A u \in Watched : u # t => first'[u] = first[u] /\ startup'[u] = startup[u]
    BY <2>1 DEF CounterTypeOK
  <2>6. OnlyOld(t)' /\ Range(startup'[t]) \subseteq FirstShown(t)'
    BY <2>1, <2>4 DEF CounterInv, OnlyOld, Shown, FirstShown
  <2>7. \A u \in Watched : u # t => OnlyOld(u)' /\ Range(startup'[u]) \subseteq FirstShown(u)'
    BY <2>1, <2>5 DEF CounterInv, OnlyOld, Shown, FirstShown
  <2>8. QED
    BY <2>1, <2>3, <2>6, <2>7 DEF CounterInv, RubFirst, PaintsShown, StillToPaint, Shown
<1>5. QED
  BY <1>1, <1>2, <1>3, <1>4

-----------------------------------------------------------------------------
(* The lines.  A sequence is in order if no line comes after one whose     *)
(* author had seen it.                                                     *)

InOrder(s, before) ==
  \A i, j \in DOMAIN s : i < j => s[j] \notin before[s[i]] \cup {s[i]}

LEMMA AppendInOrder ==
  ASSUME NEW s \in Seq(Lines), NEW before, NEW l \in Lines, InOrder(s, before),
         \A m \in Range(s) : l \notin before[m] \cup {m}
  PROVE  InOrder(Append(s, l), before)
<1> SUFFICES ASSUME NEW i \in DOMAIN Append(s, l), NEW j \in DOMAIN Append(s, l), i < j
             PROVE  Append(s, l)[j] \notin before[Append(s, l)[i]] \cup {Append(s, l)[i]}
  BY DEF InOrder
<1>1. DOMAIN s = 1..Len(s) /\ DOMAIN Append(s, l) = 1..(Len(s) + 1) /\ Len(s) \in Nat
  OBVIOUS
<1>2. i \in 1..Len(s) /\ Append(s, l)[i] = s[i]
  BY <1>1
<1>3. CASE j \in 1..Len(s)
  <2>1. Append(s, l)[j] = s[j]
    BY <1>3
  <2>2. QED
    BY <1>1, <1>2, <1>3, <2>1 DEF InOrder
<1>4. CASE j = Len(s) + 1
  <2>1. Append(s, l)[j] = l
    BY <1>4
  <2>2. s[i] \in Range(s)
    BY <1>1, <1>2 DEF Range
  <2>3. QED
    BY <1>2, <2>1, <2>2
<1>5. QED
  BY <1>1, <1>3, <1>4

LEMMA TailInOrder ==
  ASSUME NEW s \in Seq(Lines), s # << >>, NEW before, InOrder(s, before)
  PROVE  /\ InOrder(Tail(s), before)
         /\ \A l \in Range(Tail(s)) : l \notin before[Head(s)] \cup {Head(s)}
<1>1. /\ Head(s) = s[1] /\ Tail(s) \in Seq(Lines) /\ Len(s) \in Nat \ {0}
      /\ Len(Tail(s)) = Len(s) - 1
      /\ \A i \in 1..(Len(s) - 1) : Tail(s)[i] = s[i + 1]
  BY RangeOfTail
<1>2. DOMAIN s = 1..Len(s) /\ DOMAIN Tail(s) = 1..(Len(s) - 1)
  BY <1>1
<1>3. \A i \in 1..(Len(s) - 1) : i + 1 \in 1..Len(s) /\ 1 < i + 1
  BY <1>1
<1>4. \A i, j \in 1..(Len(s) - 1) : i < j => i + 1 < j + 1
  BY <1>1
<1>5. InOrder(Tail(s), before)
  BY <1>1, <1>2, <1>3, <1>4 DEF InOrder
<1>6. 1 \in 1..Len(s)
  BY <1>1
<1>7. \A i \in 1..(Len(s) - 1) : Tail(s)[i] \notin before[Head(s)] \cup {Head(s)}
  BY <1>1, <1>2, <1>3, <1>6 DEF InOrder
<1>8. QED
  BY <1>2, <1>5, <1>7 DEF Range

\* A later history of what was seen changes nothing for the lines that were.
LEMMA SameOrder ==
  ASSUME NEW s \in Seq(Lines), NEW before, NEW after, InOrder(s, before),
         \A m \in Range(s) : after[m] = before[m]
  PROVE  InOrder(s, after)
BY DEF InOrder, Range

Drawn == {l \in Lines : l \in Range(painted[AuthorOf[l]])}

\* What is anywhere was drawn, and what is in a channel is its tablet's.
AllDrawn ==
  /\ Range(feed) \subseteq Drawn
  /\ \A t \in Tablets : Range(painted[t]) \subseteq Drawn
  /\ \A t \in Tablets : \A l \in Range(outbox[t]) : l \in Drawn /\ AuthorOf[l] = t

SeenByAuthor ==
  \A l \in Lines : seen[l] \subseteq Range(painted[AuthorOf[l]])

\* Where a tablet's foreign lines come from.
TakenFromFeed ==
  \A t \in Tablets : \A l \in Range(painted[t]) :
    AuthorOf[l] # t => \E i \in DOMAIN feed : i <= at[t] /\ feed[i] = l

\* What waits in a channel was seen by no author of a published line.
OutboxAfterFeed ==
  \A t \in Tablets : \A l \in Range(outbox[t]) : \A m \in Range(feed) :
    l \notin seen[m] \cup {m}

LineInv ==
  /\ AllDrawn /\ SeenByAuthor /\ TakenFromFeed /\ OutboxAfterFeed
  /\ InOrder(feed, seen)
  /\ \A t \in Tablets : InOrder(outbox[t], seen) /\ InOrder(painted[t], seen)

\* How a tablet's own line enters the picture.
LEMMA DrawKeeps ==
  ASSUME FeedTypeOK, LineInv, NEW t \in Tablets, NEW l \in Lines, Draw(t, l)
  PROVE  FeedTypeOK' /\ LineInv'
<1>1. /\ AuthorOf[l] = t /\ l \notin Range(painted[t])
      /\ seen' = [seen EXCEPT ![l] = Range(painted[t])]
      /\ painted' = [painted EXCEPT ![t] = Append(@, l)]
      /\ outbox' = [outbox EXCEPT ![t] = Append(@, l)]
      /\ UNCHANGED <<feed, link, at, fwd>>
  BY DEF Draw, PaintLine, recvVars
<1>2. /\ painted[t] \in Seq(Lines) /\ outbox[t] \in Seq(Lines) /\ feed \in Seq(Lines)
      /\ Range(painted[t]) \subseteq Lines
  BY RangeOfSeq DEF FeedTypeOK
<1>3. FeedTypeOK'
  BY <1>1, <1>2, AppendProperties DEF FeedTypeOK
<1>4. /\ Range(painted'[t]) = Range(painted[t]) \cup {l} /\ painted'[t] = Append(painted[t], l)
      /\ Range(outbox'[t]) = Range(outbox[t]) \cup {l} /\ outbox'[t] = Append(outbox[t], l)
  BY <1>1, <1>2, RangeOfAppend DEF FeedTypeOK
<1>5. \A u \in Tablets : u # t => painted'[u] = painted[u] /\ outbox'[u] = outbox[u]
  BY <1>1 DEF FeedTypeOK
<1>6. \A m \in Lines : m # l => seen'[m] = seen[m]
  BY <1>1 DEF FeedTypeOK
<1>7. seen'[l] = Range(painted[t])
  BY <1>1 DEF FeedTypeOK
<1>8. l \notin Drawn /\ Drawn \subseteq Drawn' /\ l \in Drawn'
  <2>1. AuthorOf \in [Lines -> Tablets]
    BY TabletsAssumption
  <2>2. \A u \in Tablets : Range(painted[u]) \subseteq Range(painted'[u])
    BY <1>4, <1>5
  <2>3. QED
    BY <1>1, <1>4, <2>1, <2>2 DEF Drawn
<1>9. \A m \in Drawn : m \in Lines /\ m # l /\ seen'[m] = seen[m] /\ l \notin seen[m]
  <2>1. \A m \in Lines : seen[m] \subseteq Drawn
    BY TabletsAssumption DEF LineInv, SeenByAuthor, AllDrawn
  <2>2. QED
    BY <1>6, <1>8, <2>1 DEF Drawn
<1>10. AllDrawn'
  BY <1>1, <1>4, <1>5, <1>8 DEF LineInv, AllDrawn
<1>11. SeenByAuthor'
  <2>1. \A u \in Tablets : Range(painted[u]) \subseteq Range(painted'[u])
    BY <1>4, <1>5
  <2>2. ASSUME NEW m \in Lines PROVE seen'[m] \subseteq Range(painted'[AuthorOf[m]])
    <3>1. CASE m = l
      BY <1>1, <1>7, <2>1, <3>1
    <3>2. CASE m # l
      <4>1. AuthorOf[m] \in Tablets /\ seen'[m] = seen[m]
        BY <1>6, <3>2, TabletsAssumption
      <4>2. QED
        BY <2>1, <4>1 DEF LineInv, SeenByAuthor
    <3>3. QED
      BY <3>1, <3>2
  <2>3. QED
    BY <2>2 DEF SeenByAuthor
<1>12. TakenFromFeed'
  BY <1>1, <1>4, <1>5 DEF LineInv, TakenFromFeed
<1>13. OutboxAfterFeed'
  <2> SUFFICES ASSUME NEW u \in Tablets, NEW k \in Range(outbox'[u]), NEW m \in Range(feed)
               PROVE  k \notin seen'[m] \cup {m}
    BY <1>1 DEF OutboxAfterFeed
  <2>1. m \in Drawn
    BY DEF LineInv, AllDrawn
  <2>2. CASE k = l
    BY <1>9, <2>1, <2>2
  <2>3. CASE k \in Range(outbox[u])
    BY <1>9, <2>1, <2>3 DEF LineInv, OutboxAfterFeed
  <2>4. QED
    BY <1>4, <1>5, <2>2, <2>3
<1>14. InOrder(feed', seen')
  <2>1. InOrder(feed, seen) /\ \A m \in Range(feed) : seen'[m] = seen[m]
    BY <1>9 DEF LineInv, AllDrawn
  <2>2. InOrder(feed, seen')
    BY <1>2, <2>1, SameOrder
  <2>3. QED
    BY <1>1, <2>2
<1>15. ASSUME NEW u \in Tablets, NEW s \in {painted[u], outbox[u]}
       PROVE  InOrder(s, seen') /\ \A m \in Range(s) : l \notin seen'[m] \cup {m}
  <2>1. Range(s) \subseteq Drawn /\ s \in Seq(Lines) /\ InOrder(s, seen)
    BY DEF LineInv, AllDrawn, FeedTypeOK
  <2>2. QED
    BY <1>9, <2>1, SameOrder
<1>16. InOrder(painted'[t], seen') /\ InOrder(outbox'[t], seen')
  <2>1. InOrder(Append(painted[t], l), seen')
    BY <1>2, <1>15, AppendInOrder
  <2>2. InOrder(Append(outbox[t], l), seen')
    BY <1>2, <1>15, AppendInOrder
  <2>3. QED
    BY <1>4, <2>1, <2>2
<1>17. QED
  BY <1>3, <1>5, <1>10, <1>11, <1>12, <1>13, <1>14, <1>15, <1>16 DEF LineInv

LEMMA TakeLineKeeps ==
  ASSUME FeedTypeOK, LineInv, NEW t \in Tablets, TakeLine(t)
  PROVE  /\ FeedTypeOK' /\ LineInv'
         /\ \E l \in Lines : PaintLine(t, l)
<1>1. PICK n \in DOMAIN feed :
        /\ n > at[t] /\ AuthorOf[feed[n]] # t
        /\ PaintLine(t, feed[n])
        /\ at' = [at EXCEPT ![t] = n]
        /\ UNCHANGED <<feed, link, fwd, outbox, seen>>
  BY DEF TakeLine, fwdVars
<1> DEFINE l == feed[n]
<1>2. /\ painted[t] \in Seq(Lines) /\ feed \in Seq(Lines) /\ l \in Lines /\ n \in Nat
      /\ l \in Range(feed) /\ at[t] \in Nat /\ DOMAIN feed \subseteq Nat
  BY DEF FeedTypeOK, Range
<1>3. painted' = [painted EXCEPT ![t] = Append(@, l)]
  BY <1>1 DEF PaintLine
<1>4. FeedTypeOK'
  BY <1>1, <1>2, <1>3, AppendProperties DEF FeedTypeOK
<1>5. Range(painted'[t]) = Range(painted[t]) \cup {l} /\ painted'[t] = Append(painted[t], l)
  BY <1>2, <1>3, RangeOfAppend DEF FeedTypeOK
<1>6. \A u \in Tablets : u # t => painted'[u] = painted[u] /\ at'[u] = at[u]
  BY <1>1, <1>3 DEF FeedTypeOK
<1>7. at'[t] = n
  BY <1>1 DEF FeedTypeOK
<1>8. \A u \in Tablets : Range(painted[u]) \subseteq Range(painted'[u])
  BY <1>5, <1>6
<1>9. Drawn \subseteq Drawn' /\ l \in Drawn
  BY <1>2, <1>8, TabletsAssumption DEF Drawn, LineInv, AllDrawn
<1>10. AllDrawn'
  <2>1. AllDrawn
    BY DEF LineInv
  <2>2. Range(feed') \subseteq Drawn'
    BY <1>1, <1>9, <2>1 DEF AllDrawn
  <2>3. ASSUME NEW u \in Tablets PROVE Range(painted'[u]) \subseteq Drawn'
    <3>1. Range(painted[u]) \subseteq Drawn
      BY <2>1 DEF AllDrawn
    <3>2. CASE u = t
      BY <1>5, <1>9, <3>1, <3>2
    <3>3. CASE u # t
      BY <1>6, <1>9, <3>1, <3>3
    <3>4. QED
      BY <3>2, <3>3
  <2>4. \A u \in Tablets : \A k \in Range(outbox'[u]) : k \in Drawn' /\ AuthorOf[k] = u
    BY <1>1, <1>9, <2>1 DEF AllDrawn
  <2>5. QED
    BY <2>2, <2>3, <2>4 DEF AllDrawn
<1>11. SeenByAuthor'
  BY <1>1, <1>8, TabletsAssumption DEF LineInv, SeenByAuthor
<1>12. TakenFromFeed'
  <2> SUFFICES ASSUME NEW u \in Tablets, NEW k \in Range(painted'[u]), AuthorOf[k] # u
               PROVE  \E i \in DOMAIN feed : i <= at'[u] /\ feed[i] = k
    BY <1>1 DEF TakenFromFeed
  <2>1. CASE u = t /\ k = l
    BY <1>2, <1>7, <2>1
  <2>2. CASE u = t /\ k \in Range(painted[t])
    <3>1. PICK i \in DOMAIN feed : i <= at[t] /\ feed[i] = k
      BY <2>2 DEF LineInv, TakenFromFeed
    <3>2. i <= n
      BY <1>1, <1>2, <3>1
    <3>3. QED
      BY <1>7, <2>2, <3>1, <3>2
  <2>3. CASE u # t
    BY <1>6, <2>3 DEF LineInv, TakenFromFeed
  <2>4. QED
    BY <1>5, <2>1, <2>2, <2>3
<1>13. OutboxAfterFeed' /\ InOrder(feed', seen') /\ \A u \in Tablets : InOrder(outbox'[u], seen')
  BY <1>1 DEF LineInv, OutboxAfterFeed
<1>14. l \notin Range(painted[t])
  <2> SUFFICES ASSUME l \in Range(painted[t]) PROVE FALSE
    OBVIOUS
  <2>1. PICK i \in DOMAIN feed : i <= at[t] /\ feed[i] = l
    BY <1>1 DEF LineInv, TakenFromFeed
  <2>2. i < n
    BY <1>1, <1>2, <2>1
  <2>3. QED
    BY <2>1, <2>2 DEF LineInv, InOrder
<1>15. ASSUME NEW m \in Range(painted[t]) PROVE l \notin seen[m] \cup {m}
  <2>1. m \in Lines
    BY <1>2, RangeOfSeq
  <2>2. CASE AuthorOf[m] = t
    BY <1>14, <2>1, <2>2 DEF LineInv, SeenByAuthor
  <2>3. CASE AuthorOf[m] # t
    <3>1. PICK i \in DOMAIN feed : i <= at[t] /\ feed[i] = m
      BY <2>3 DEF LineInv, TakenFromFeed
    <3>2. i < n
      BY <1>1, <1>2, <3>1
    <3>3. QED
      BY <3>1, <3>2 DEF LineInv, InOrder
  <2>4. QED
    BY <2>2, <2>3
<1>16. InOrder(painted'[t], seen')
  <2>1. InOrder(painted[t], seen) /\ seen' = seen
    BY <1>1 DEF LineInv
  <2> HIDE DEF l
  <2>2. InOrder(Append(painted[t], l), seen)
    BY <1>2, <1>15, <2>1, AppendInOrder
  <2>3. QED
    BY <1>5, <2>1, <2>2
<1>17. \A u \in Tablets : InOrder(painted'[u], seen')
  BY <1>1, <1>6, <1>16 DEF LineInv
<1>18. QED
  BY <1>1, <1>2, <1>4, <1>10, <1>11, <1>12, <1>13, <1>17 DEF LineInv

\* An event published from the head of a channel.
LEMMA PublishedKeeps ==
  ASSUME FeedTypeOK, LineInv, NEW t \in Tablets, outbox[t] # << >>,
         Published(Head(outbox[t])), outbox' \in [Tablets -> Seq(Lines)],
         Range(outbox'[t]) \subseteq Range(Tail(outbox[t])), InOrder(outbox'[t], seen),
         \A u \in Tablets : u # t => outbox'[u] = outbox[u],
         fwd' \in [Tablets -> {"up", "dead"}], UNCHANGED <<link, at, painted, seen>>
  PROVE  FeedTypeOK' /\ LineInv'
<1> DEFINE h == Head(outbox[t])
<1>1. /\ Range(outbox[t]) = {h} \cup Range(Tail(outbox[t]))
      /\ h \in Lines /\ h \in Range(outbox[t])
      /\ \A l \in Range(Tail(outbox[t])) : l \notin seen[h] \cup {h}
  <2>1. outbox[t] \in Seq(Lines) /\ InOrder(outbox[t], seen)
    BY DEF FeedTypeOK, LineInv
  <2>2. Range(outbox[t]) = {h} \cup Range(Tail(outbox[t])) /\ h \in Lines
    BY <2>1, RangeOfTail
  <2>3. QED
    BY <2>1, <2>2, TailInOrder
<1>2. feed' = Append(feed, h) /\ feed \in Seq(Lines)
  BY DEF Published, FeedTypeOK
<1>3. FeedTypeOK'
  BY <1>1, <1>2, AppendProperties DEF FeedTypeOK
<1>4. Range(feed') = Range(feed) \cup {h}
  BY <1>1, <1>2, RangeOfAppend
<1>5. Drawn' = Drawn
  BY DEF Drawn
<1>6. \A u \in Tablets : Range(outbox'[u]) \subseteq Range(outbox[u])
  BY <1>1
<1>7. AllDrawn'
  <2>1. h \in Drawn
    BY <1>1 DEF LineInv, AllDrawn
  <2>2. QED
    BY <1>4, <1>5, <1>6, <2>1 DEF LineInv, AllDrawn
<1>8. SeenByAuthor'
  BY DEF LineInv, SeenByAuthor
<1>9. \A i \in DOMAIN feed : i \in DOMAIN feed' /\ feed'[i] = feed[i]
  BY <1>1, <1>2
<1>10. TakenFromFeed'
  BY <1>9 DEF LineInv, TakenFromFeed
<1>11. OutboxAfterFeed'
  <2> SUFFICES ASSUME NEW u \in Tablets, NEW l \in Range(outbox'[u]), NEW m \in Range(feed')
               PROVE  l \notin seen[m] \cup {m}
    BY DEF OutboxAfterFeed
  <2>1. CASE m \in Range(feed)
    BY <1>6, <2>1 DEF LineInv, OutboxAfterFeed
  <2>2. CASE m = h /\ u = t
    BY <1>1, <2>2
  <2>3. CASE m = h /\ u # t
    <3>1. l \in Range(outbox[u]) /\ AuthorOf[l] = u /\ AuthorOf[h] = t
      BY <1>1, <2>3 DEF LineInv, AllDrawn
    <3>2. l # h
      BY <2>3, <3>1
    <3>3. l \notin Range(feed)
      BY <3>1 DEF LineInv, OutboxAfterFeed
    <3>4. l \notin Range(painted[t])
      <4>1. l \in Range(painted[t]) => \E i \in DOMAIN feed : feed[i] = l
        BY <2>3, <3>1 DEF LineInv, TakenFromFeed
      <4>2. QED
        BY <3>3, <4>1 DEF Range
    <3>5. seen[h] \subseteq Range(painted[t])
      BY <1>1, <3>1 DEF LineInv, SeenByAuthor
    <3>6. QED
      BY <2>3, <3>2, <3>4, <3>5
  <2>4. QED
    BY <1>4, <2>1, <2>2, <2>3
<1>12. InOrder(feed', seen)
  <2>1. \A m \in Range(feed) : h \notin seen[m] \cup {m}
    BY <1>1 DEF LineInv, OutboxAfterFeed
  <2>2. QED
    BY <1>1, <1>2, <2>1, AppendInOrder DEF LineInv
<1>13. \A u \in Tablets : InOrder(outbox'[u], seen)
  BY DEF LineInv
<1>14. QED
  BY <1>3, <1>7, <1>8, <1>10, <1>11, <1>12, <1>13 DEF LineInv

LEMMA SendKeeps ==
  ASSUME FeedTypeOK, LineInv, NEW t \in Tablets, Send(t) \/ SendFails(t)
  PROVE  FeedTypeOK' /\ LineInv'
<1>1. /\ outbox[t] # << >> /\ outbox[t] \in Seq(Lines)
      /\ UNCHANGED <<link, at, painted, seen>>
  BY DEF Send, SendFails, recvVars, lineVars, FeedTypeOK
<1>2. Tail(outbox[t]) \in Seq(Lines) /\ InOrder(Tail(outbox[t]), seen)
  BY <1>1, RangeOfTail, TailInOrder DEF LineInv
<1>3. Range(<< >>) = {} /\ InOrder(<< >>, seen)
  BY RangeOfEmpty DEF InOrder
<1>4. CASE Send(t)
  <2>1. Published(Head(outbox[t])) /\ outbox' = [outbox EXCEPT ![t] = Tail(@)] /\ fwd' = fwd
    BY <1>4 DEF Send
  <2>2. /\ outbox' \in [Tablets -> Seq(Lines)] /\ outbox'[t] = Tail(outbox[t])
        /\ \A u \in Tablets : u # t => outbox'[u] = outbox[u]
    BY <1>2, <2>1 DEF FeedTypeOK
  <2>3. fwd' \in [Tablets -> {"up", "dead"}]
    BY <2>1 DEF FeedTypeOK
  <2>4. QED
    BY <1>1, <1>2, <2>1, <2>2, <2>3, PublishedKeeps
<1>5. CASE SendFails(t)
  <2>1. /\ Published(Head(outbox[t])) \/ UNCHANGED feed
        /\ outbox' = [outbox EXCEPT ![t] = << >>] /\ fwd' = [fwd EXCEPT ![t] = "dead"]
    BY <1>5 DEF SendFails
  <2>2. /\ outbox' \in [Tablets -> Seq(Lines)] /\ outbox'[t] = << >>
        /\ \A u \in Tablets : u # t => outbox'[u] = outbox[u]
        /\ fwd' \in [Tablets -> {"up", "dead"}]
    BY <2>1 DEF FeedTypeOK
  <2>3. CASE Published(Head(outbox[t]))
    BY <1>1, <1>3, <2>2, <2>3, PublishedKeeps
  <2>4. CASE UNCHANGED feed
    <3>1. FeedTypeOK'
      BY <1>1, <2>2, <2>4 DEF FeedTypeOK
    <3>2. \A u \in Tablets : Range(outbox'[u]) \subseteq Range(outbox[u]) /\ InOrder(outbox'[u], seen)
      BY <1>3, <2>2 DEF LineInv
    <3>3. AllDrawn'
      BY <1>1, <2>4, <3>2 DEF LineInv, AllDrawn, Drawn
    <3>4. SeenByAuthor' /\ TakenFromFeed'
      BY <1>1, <2>4 DEF LineInv, SeenByAuthor, TakenFromFeed
    <3>5. OutboxAfterFeed'
      BY <1>1, <2>4, <3>2 DEF LineInv, OutboxAfterFeed
    <3>6. QED
      BY <1>1, <2>4, <3>1, <3>2, <3>3, <3>4, <3>5 DEF LineInv
  <2>5. QED
    BY <2>1, <2>3, <2>4
<1>6. QED
  BY <1>4, <1>5

-----------------------------------------------------------------------------
(* The specification.                                                      *)

Inv == FeedTypeOK /\ CounterTypeOK /\ CounterInv /\ LineInv

LEMMA InitInv == Init => Inv
<1> SUFFICES ASSUME Init PROVE Inv
  OBVIOUS
<1>1. /\ feed = << >> /\ at = [t \in Tablets |-> 0] /\ link = [t \in Tablets |-> "down"]
      /\ fwd = [t \in Tablets |-> "up"] /\ outbox = [t \in Tablets |-> << >>]
      /\ painted = [t \in Tablets |-> << >>] /\ seen = [l \in Lines |-> {}]
  BY DEF Init
<1>2. FeedTypeOK
  BY <1>1 DEF FeedTypeOK
<1>3. /\ people = [t \in Watched |-> 0] /\ first = [t \in Watched |-> -1]
      /\ rubbing = [t \in Watched |-> << >>] /\ painting = [t \in Watched |-> << >>]
      /\ startup = [t \in Watched |-> << >>]
      /\ ink = [t \in Watched |-> {}] /\ soiled = [t \in Watched |-> TRUE]
      /\ smudge = [t \in Watched |-> {}]
  BY DEF Init
<1>4. 0 \in Counts
  BY TabletsAssumption DEF Counts
<1>5. CounterTypeOK
  BY <1>3, <1>4 DEF CounterTypeOK
<1>6. CounterInv
  BY <1>3, RangeOfEmpty DEF CounterInv, RubFirst, PaintsShown, OnlyOld, StillToPaint, FirstShown
<1>7. \A before : InOrder(<< >>, before)
  BY DEF InOrder
<1>8. LineInv
  BY <1>1, <1>7, RangeOfEmpty, TabletsAssumption
     DEF LineInv, AllDrawn, SeenByAuthor, TakenFromFeed, OutboxAfterFeed
<1>9. QED
  BY <1>2, <1>5, <1>6, <1>8 DEF Inv

LEMMA SameCounter ==
  ASSUME CounterTypeOK, CounterInv, UNCHANGED <<counterVars, startupVars, inkVars>>
  PROVE  CounterTypeOK' /\ CounterInv'
BY DEF counterVars, inkVars, startupVars, CounterTypeOK, CounterInv, RubFirst, PaintsShown, OnlyOld,
       StillToPaint, Shown, FirstShown

LEMMA SameLines ==
  ASSUME FeedTypeOK, LineInv, link' \in [Tablets -> {"down", "up"}],
         UNCHANGED <<feed, at, fwdVars, lineVars>>
  PROVE  FeedTypeOK' /\ LineInv'
BY DEF fwdVars, lineVars, FeedTypeOK, LineInv, AllDrawn, SeenByAuthor, TakenFromFeed,
       OutboxAfterFeed, Drawn

LEMMA NextInv == Inv /\ [Next]_vars => Inv'
<1> SUFFICES ASSUME Inv, [Next]_vars PROVE Inv'
  OBVIOUS
<1> USE DEF Inv
<1>1. ASSUME NEW t \in Tablets, TakeCount(t) PROVE Inv'
  <2>1. link' \in [Tablets -> {"down", "up"}]
    BY <1>1 DEF TakeCount, FeedTypeOK
  <2>2. UNCHANGED <<feed, at, startupVars, inkVars, fwdVars, lineVars>>
    BY <1>1 DEF TakeCount
  <2>3. CASE t \in Watched
    <3>1. PICK n \in Counts : Counted(t, n)
      BY <1>1, <2>3 DEF TakeCount
    <3>2. Idle(t)
      BY <1>1 DEF TakeCount
    <3>3. QED
      BY <2>1, <2>2, <2>3, <3>1, <3>2, CountedKeeps, SameLines
  <2>4. CASE t \notin Watched
    BY <1>1, <2>1, <2>2, <2>4, SameCounter, SameLines DEF TakeCount
  <2>5. QED
    BY <2>3, <2>4
<1>2. ASSUME NEW t \in Tablets, TakeLine(t) PROVE Inv'
  BY <1>2, TakeLineKeeps, LinesRubOrSmudge
<1>3. ASSUME NEW t \in Tablets, NEW l \in Lines, Draw(t, l) PROVE Inv'
  BY <1>3, DrawKeeps, LinesRubOrSmudge DEF Draw
<1>4. ASSUME NEW t \in Tablets, Send(t) \/ SendFails(t) PROVE Inv'
  <2>1. UNCHANGED <<counterVars, startupVars, inkVars>>
    BY <1>4 DEF Send, SendFails
  <2>2. QED
    BY <1>4, <2>1, SendKeeps, SameCounter
<1>5. ASSUME NEW t \in Watched, CounterStep(t) PROVE Inv'
  <2>1. UNCHANGED <<feed, recvVars, fwdVars, lineVars>>
    BY <1>5 DEF CounterStep, TakeMembership, PaintStroke, LoadCount, PaintFirst
  <2>2. FeedTypeOK' /\ LineInv'
    BY <2>1, SameLines DEF recvVars, FeedTypeOK
  <2>3. CASE TakeMembership(t)
    <3>1. PICK move \in {1, CounterSize - 1} :
            Counted(t, (people[t] + move) % CounterSize)
      BY <2>3 DEF TakeMembership
    <3>2. (people[t] + move) % CounterSize \in Counts
      BY TabletsAssumption DEF CounterTypeOK, Counts
    <3>3. Idle(t) /\ UNCHANGED <<startupVars, inkVars>>
      BY <2>3 DEF TakeMembership
    <3>4. QED
      BY <2>2, <3>1, <3>2, <3>3, CountedKeeps
  <2>4. QED
    BY <1>5, <2>2, <2>3, StrokeKeeps DEF CounterStep
<1>6. CASE UNCHANGED vars
  BY <1>6, SameCounter, SameLines DEF vars, recvVars, FeedTypeOK
<1>7. QED
  BY <1>1, <1>2, <1>3, <1>4, <1>5, <1>6 DEF Next

THEOREM InvHolds == Spec => []Inv
BY InitInv, NextInv, PTL DEF Spec

\* Types of every variable, with any number of tablets and lines.
THEOREM TypeCorrect == Spec => []TypeOK
<1>1. Inv => TypeOK
  BY DEF Inv, FeedTypeOK, CounterTypeOK, TypeOK
<1>2. QED
  BY <1>1, InvHolds, PTL

\* The digit of PEOPLE_COUNT can be read whenever loop_recv waits for a
\* message, whatever the digits look like and wherever the counter wraps.
THEOREM CounterStaysReadable == Spec => []CounterReadable
<1>1. Inv => CounterReadable
  BY RangeOfEmpty DEF Inv, CounterReadable, CounterInv, StillToPaint, Idle
<1>2. QED
  BY <1>1, InvHolds, PTL

\* Beside the digit only the startup task's and smudges of an eraser that was
\* taken in mid-line can show: loop_recv leaves no digit behind, and no pen
\* reaches the counter.
THEOREM GhostsHaveTwoSources == Spec => []GhostsAreKnown
<1>1. Inv => GhostsAreKnown
  BY RangeOfEmpty DEF Inv, GhostsAreKnown, CounterInv, OnlyOld, Idle
<1>2. QED
  BY <1>1, InvHolds, PTL

\* The order in which tablets paint respects what their users saw.
THEOREM CausalOrder == Spec => []PaintedInCausalOrder
<1>1. Inv => PaintedInCausalOrder
  BY DEF Inv, LineInv, InOrder, PaintedInCausalOrder
<1>2. QED
  BY <1>1, InvHolds, PTL

=============================================================================

----------------------------- MODULE UnipenText -----------------------------
(***************************************************************************)
(* How the companion of the drawing application reads the handwriting of   *)
(* ujipenchars2.txt (unipen/mod.rs) and what it paints of it               *)
(* (strokes/mod.rs).  A text is a sequence of tokens between blanks; the   *)
(* token WORD stands for the rest of its line too, POINTS and NUMSTROKES   *)
(* for the counts that follow them.  The parser does not use the counts,   *)
(* but it has to parse them.                                               *)
(***************************************************************************)
EXTENDS Integers, SequencesExt

CONSTANTS U8, U16, I16  \* what the types hold: 0..255, 0..65535, -32768..32767

ASSUME WidthAssumption == U8 \subseteq Nat /\ U16 \subseteq Nat /\ I16 \subseteq Int

Kinds == {"comment", "WORD", "NUMSTROKES", "POINTS", "int", "junk"}
Token == [kind : Kinds, n : Int]

\* A number too large for its type is no better than an unknown token.
Parses(token) ==
  /\ token.kind # "junk"
  /\ token.kind = "NUMSTROKES" => token.n \in U8
  /\ token.kind = "POINTS" => token.n \in U16
  /\ token.kind = "int" => token.n \in I16

Is(text, i, kind) == i \in DOMAIN text /\ text[i].kind = kind /\ Parses(text[i])

\* Where a run of tokens of one kind that starts at a place ends.
RunEnd(text, kind) ==
  LET end[i \in 1..(Len(text) + 1)] == IF Is(text, i, kind) THEN end[i + 1] ELSE i
  IN  end

\* Mutant of Paired: the windows overlap (step_by(1)).
Overlapping(ints) == [k \in 1..(Len(ints) - 1) |-> <<ints[k], ints[k + 1]>>]

\* The coordinates two by two; an odd one is dropped.
Paired(ints) == [k \in 1..(Len(ints) \div 2) |-> <<ints[2 * k - 1], ints[2 * k]>>]

\* strokes: the strokes that start at a place, and where they end.  A stroke
\* without coordinates is the last: no blank is left to separate the next.
StrokesFrom(text) ==
  LET from[i \in 1..(Len(text) + 1)] ==
        LET end == RunEnd(text, "int")[i + 1]
            ints == [k \in 1..(end - i - 1) |-> text[i + k].n]
            rest == from[end]
        IN  IF ~Is(text, i, "POINTS") THEN [strokes |-> << >>, end |-> i]
            ELSE IF ints = << >> THEN [strokes |-> << << >> >>, end |-> end]
            ELSE [strokes |-> <<Paired(ints)>> \o rest.strokes, end |-> rest.end]
  IN  from

\* words: the words from a place on, up to the first that cannot be read.
WordsFrom(text) ==
  LET from[i \in 1..(Len(text) + 1)] ==
        LET start == RunEnd(text, "comment")[i]
            body == StrokesFrom(text)[start + 2]
        IN  IF Is(text, start, "WORD") /\ Is(text, start + 1, "NUMSTROKES")
            THEN <<body.strokes>> \o from[body.end]
            ELSE << >>
  IN  from

WordsIn(text) == WordsFrom(text)[1]

\* Stroke::draw: a segment through any three successive points.
SegmentsOf(points) ==
  IF Len(points) < 3 THEN << >>
  ELSE [k \in 1..(Len(points) - 2) |-> SubSeq(points, k, k + 2)]

\* Strokes::draw for each word in turn.
Drawing(words) ==
  LET strokes == FlattenSeq(words)
  IN  FlattenSeq([k \in DOMAIN strokes |-> SegmentsOf(strokes[k])])

-----------------------------------------------------------------------------
(* The format of ujipenchars2.txt.  The file is built into the application *)
(* and nothing checks it; ujipenchars.rs tries other files.                *)

T(kind, n) == [kind |-> kind, n |-> n]

WrittenStroke(points) ==
  <<T("POINTS", Len(points))>> \o
  FlattenSeq([k \in DOMAIN points |-> [j \in 1..2 |-> T("int", points[k][j])]])

WrittenWord(strokes) ==
  <<T("comment", 0), T("WORD", 0), T("NUMSTROKES", Len(strokes))>> \o
  FlattenSeq([k \in DOMAIN strokes |-> WrittenStroke(strokes[k])])

Written(words) == FlattenSeq([k \in DOMAIN words |-> WrittenWord(words[k])])

\* A text with something else between its first n tokens and the others.
Damaged(text, n) == InsertAt(text, n + 1, T("junk", 0))

\* A text without damage and without a number that is too large.
AllParses(text) == \A i \in DOMAIN text : Parses(text[i])
=============================================================================

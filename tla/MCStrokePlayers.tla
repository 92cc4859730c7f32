-------------------------- MODULE MCStrokePlayers --------------------------
(***************************************************************************)
(* An instance of StrokePlayers for TLC.                                   *)
(***************************************************************************)
EXTENDS StrokePlayers

SmallU8 == 0..2
SmallU16 == 0..4
SmallI16 == -24..23

\* A stroke of n points, numbered from k.
Line(k, n) == [i \in 1..n |-> <<k + i, -(k + i)>>]

\* Three words of one to three strokes.  Some strokes are too short to show;
\* five points are more than SmallU16 has, three strokes more than SmallU8, and
\* the fourth point of a line from 20 does not fit in SmallI16.
ThreeWords ==
  { << <<Line(0, a), Line(10, b)>>, [k \in 1..d |-> Line(20, c)], <<Line(0, 3)>> >> :
      a \in {1, 3}, b \in {1, 4, 5}, c \in {3, 4}, d \in {1, 3} }
=============================================================================

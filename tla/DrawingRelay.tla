---------------------------- MODULE DrawingRelay ----------------------------
(***************************************************************************)
(* What a whiteboard tablet promises of the points that its user draws:    *)
(* they are sent as drawings, in order and without gaps.  A drawing ends   *)
(* at the first moment the pen is lifted with three points or more that    *)
(* belong to no drawing yet.  The relay may break at any moment; it then   *)
(* sends nothing any more.                                                 *)
(***************************************************************************)
EXTENDS Naturals, Sequences

VARIABLES points,  \* how many points were drawn
          lifts,   \* after how many points the pen was lifted
          sent,    \* the drawings that were sent, each a sequence of points
          open     \* whether the relay still works

relayVars == <<points, lifts, sent, open>>

Init == points = 0 /\ lifts = {0} /\ sent = << >> /\ open = TRUE

\* How many points were sent.
Done ==
  IF sent = << >> THEN 0
  ELSE LET last == sent[Len(sent)] IN last[Len(last)]

\* Where the next drawing may end, and where it does.
Enough(m) == m \in lifts /\ m >= Done + 3
Cut(m) == Enough(m) /\ \A k \in lifts : Enough(k) => m <= k

Drawing(m) == [i \in 1..(m - Done) |-> Done + i]

Draw == points' = points + 1 /\ UNCHANGED <<lifts, sent, open>>
Lift == lifts' = lifts \cup {points} /\ UNCHANGED <<points, sent, open>>

Sends(m) == Cut(m) /\ sent' = Append(sent, Drawing(m))

Send == open /\ (\E m \in lifts : Sends(m)) /\ UNCHANGED <<points, lifts, open>>

\* The last drawing may arrive although the relay breaks.
Break ==
  /\ open /\ open' = FALSE
  /\ (\E m \in lifts : Sends(m)) \/ sent' = sent
  /\ UNCHANGED <<points, lifts>>

Next == Draw \/ Lift \/ Send \/ Break

Spec == Init /\ [][Next]_relayVars
=============================================================================

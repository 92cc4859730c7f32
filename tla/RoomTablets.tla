---------------------------- MODULE RoomTablets ----------------------------
(***************************************************************************)
(* The tablets of one room (whiteboard.rs), each with its pen, loop_fwd    *)
(* and loop_recv, over what module RoomFeed says of the server: one feed   *)
(* of events, of which each stream is sent some, in order.                 *)
(*                                                                         *)
(* Two things are followed.  The shared canvas: lines that cross at one    *)
(* spot, where a tablet shows the line that it painted last.  And the      *)
(* people counter: loop_recv keeps PEOPLE_COUNT, rubs the old digit out    *)
(* and paints the new one, stroke by stroke, while the task that paints    *)
(* the toolbar at startup may still be painting the first digit.           *)
(***************************************************************************)
EXTENDS Toolbar, Sequences, Functions

CONSTANTS Tablets, Lines,
          AuthorOf,    \* the tablet each line is drawn on
          SpotOf,      \* the point of each line at the spot, where it is drawn
          SentSpotOf,  \* the same as others paint it
          Glyph,       \* FONT: the strokes of each digit, in order
          TopDigit,    \* 9 in the code
          CounterSize, \* 2^32 in the code: PEOPLE_COUNT is a u32
          Watched      \* bound: the tablets whose counter is followed

Digits == 0..TopDigit

\* A stroke of a glyph stands for its pixels; digits can share some.
Pixels == UNION {Range(Glyph[d]) : d \in Digits}

ASSUME TabletsAssumption ==
  /\ AuthorOf \in [Lines -> Tablets]
  /\ SpotOf \in [Lines -> Point] /\ SentSpotOf \in [Lines -> Point]
  /\ \A l \in Lines : /\ OnCanvas(SpotOf[l]) /\ AsDrawn(SpotOf[l])
                      /\ OnCanvas(SentSpotOf[l])
  /\ TopDigit \in Nat /\ CounterSize \in Nat \ {0}
  /\ Watched \subseteq Tablets

ASSUME GlyphAssumption == \A d \in Digits : Glyph[d] \in Seq(Range(Glyph[d]))

VARIABLES feed,      \* the drawings that were published to the room
          link,      \* loop_recv: "up" once a stream gave the count, else "down"
          at,        \* loop_recv: up to where in the feed its stream came
          people,    \* PEOPLE_COUNT
          rubbing,   \* repaint_people_counter: the strokes yet to rub out
          painting,  \* and then to paint
          startup,   \* paint_mouldings: the strokes yet to paint of the first digit
          first,     \* that digit, or -1 while the count was not loaded
          ink,       \* the pixels that are black where the digits are
          soiled,    \* history: an eraser crossed the digit since it was painted
          smudge,    \* history: pixels that black points with an eraser's tip left
          fwd, outbox,  \* loop_fwd: "up" or "dead", and its channel
          painted,   \* the lines each tablet painted at the spot, in order
          seen       \* history: what its author had painted before a line

counterVars == <<people, rubbing, painting, soiled>>
inkVars == <<ink, smudge>>
recvVars == <<link, at>>
startupVars == <<startup, first>>
fwdVars == <<fwd, outbox>>
lineVars == <<painted, seen>>
vars == <<feed, recvVars, counterVars, startupVars, inkVars, fwdVars, lineVars>>

Counts == 0..(CounterSize - 1)

TypeOK ==
  /\ feed \in Seq(Lines)
  /\ link \in [Tablets -> {"down", "up"}] /\ at \in [Tablets -> Nat]
  /\ people \in [Watched -> Counts]
  /\ rubbing \in [Watched -> Seq(Pixels)] /\ painting \in [Watched -> Seq(Pixels)]
  /\ startup \in [Watched -> Seq(Pixels)] /\ first \in [Watched -> Digits \cup {-1}]
  /\ ink \in [Watched -> SUBSET Pixels] /\ soiled \in [Watched -> BOOLEAN]
  /\ smudge \in [Watched -> SUBSET Pixels]
  /\ fwd \in [Tablets -> {"up", "dead"}] /\ outbox \in [Tablets -> Seq(Lines)]
  /\ painted \in [Tablets -> Seq(Lines)] /\ seen \in [Lines -> SUBSET Lines]

Init ==
  /\ feed = << >>
  /\ link = [t \in Tablets |-> "down"] /\ at = [t \in Tablets |-> 0]
  /\ people = [t \in Watched |-> 0]
  /\ rubbing = [t \in Watched |-> << >>] /\ painting = [t \in Watched |-> << >>]
  /\ startup = [t \in Watched |-> << >>] /\ first = [t \in Watched |-> -1]
  /\ ink = [t \in Watched |-> {}] /\ soiled = [t \in Watched |-> TRUE]
  /\ smudge = [t \in Watched |-> {}]
  /\ fwd = [t \in Tablets |-> "up"] /\ outbox = [t \in Tablets |-> << >>]
  /\ painted = [t \in Tablets |-> << >>] /\ seen = [l \in Lines |-> {}]

-----------------------------------------------------------------------------
(* Painting the counter.                                                   *)

\* paint_people_counter: nine stands for all that is more.
Digit(n) == IF n < TopDigit THEN n ELSE TopDigit

\* loop_recv awaits the painting before it takes the next message.
Idle(t) == t \in Watched => rubbing[t] = << >> /\ painting[t] = << >>

RubOut(t, gone) ==
  /\ ink' = [ink EXCEPT ![t] = @ \ gone]
  /\ smudge' = [smudge EXCEPT ![t] = @ \ gone]

Blacken(t, some) == ink' = [ink EXCEPT ![t] = @ \cup some] /\ UNCHANGED smudge

\* Mutant of PaintStroke: the new digit is painted before the old one is
\* rubbed out.
PaintThenRub(t) ==
  /\ IF painting[t] # << >>
     THEN /\ Blacken(t, {Head(painting[t])})
          /\ painting' = [painting EXCEPT ![t] = Tail(@)] /\ UNCHANGED rubbing
     ELSE /\ rubbing[t] # << >>
          /\ RubOut(t, {Head(rubbing[t])})
          /\ rubbing' = [rubbing EXCEPT ![t] = Tail(@)] /\ UNCHANGED painting
  /\ UNCHANGED <<feed, recvVars, people, soiled, startupVars, fwdVars, lineVars>>

\* A stroke of repaint_people_counter: the old digit in white, then the new
\* one in black.
PaintStroke(t) ==
  /\ \/ /\ rubbing[t] # << >>
        /\ RubOut(t, {Head(rubbing[t])})
        /\ rubbing' = [rubbing EXCEPT ![t] = Tail(@)]
        /\ UNCHANGED painting
     \/ /\ rubbing[t] = << >> /\ painting[t] # << >>
        /\ Blacken(t, {Head(painting[t])})
        /\ painting' = [painting EXCEPT ![t] = Tail(@)]
        /\ UNCHANGED rubbing
  /\ UNCHANGED <<feed, recvVars, people, soiled, startupVars, fwdVars, lineVars>>

\* Mutant of LoadCount: the count is kept, and not its digit.
LoadRaw(t) ==
  /\ first[t] = -1
  /\ first' = [first EXCEPT ![t] = people[t]]
  /\ startup' = [startup EXCEPT ![t] = Glyph[Digit(people[t])]]
  /\ UNCHANGED <<feed, recvVars, counterVars, inkVars, fwdVars, lineVars>>

\* The last task of paint_mouldings.  The others paint pictures that are
\* apart from each other and from the counter, in whichever order.
LoadCount(t) ==
  /\ first[t] = -1
  /\ first' = [first EXCEPT ![t] = Digit(people[t])]
  /\ startup' = [startup EXCEPT ![t] = Glyph[Digit(people[t])]]
  /\ UNCHANGED <<feed, recvVars, counterVars, inkVars, fwdVars, lineVars>>

PaintFirst(t) ==
  /\ startup[t] # << >>
  /\ Blacken(t, {Head(startup[t])})
  /\ startup' = [startup EXCEPT ![t] = Tail(@)]
  /\ UNCHANGED <<feed, recvVars, counterVars, first, fwdVars, lineVars>>

-----------------------------------------------------------------------------
(* Painting a line.                                                        *)

SpotOn(t, l) == IF AuthorOf[l] = t THEN SpotOf[l] ELSE SentSpotOf[l]

\* A line reaches the counter: how much of it depends on its course.
CrossDigit(t, l) ==
  LET p == SpotOn(t, l)
  IN  IF t \in Watched /\ Reaches(p, CounterBox)
      THEN \E some \in SUBSET Pixels :
             IF p.white
             THEN RubOut(t, some) /\ soiled' = [soiled EXCEPT ![t] = TRUE]
             ELSE /\ ink' = [ink EXCEPT ![t] = @ \cup some]
                  /\ smudge' = IF p.tip \in EraserTips
                               THEN [smudge EXCEPT ![t] = @ \cup some] ELSE smudge
                  /\ UNCHANGED soiled
      ELSE UNCHANGED <<inkVars, soiled>>

PaintLine(t, l) ==
  /\ painted' = [painted EXCEPT ![t] = Append(@, l)]
  /\ CrossDigit(t, l)
  /\ UNCHANGED <<people, rubbing, painting, startupVars>>

-----------------------------------------------------------------------------
(* loop_recv.  Its stream starts with a count and goes on with events by   *)
(* others, in the order of the feed (CountThenInOrder, OthersEventsOnly);   *)
(* some are lost on the way.  Users come and go as they like.               *)

\* PEOPLE_COUNT becomes n.
Counted(t, n) ==
  /\ people' = [people EXCEPT ![t] = n]
  /\ rubbing' = [rubbing EXCEPT ![t] = Glyph[Digit(people[t])]]
  /\ painting' = [painting EXCEPT ![t] = Glyph[Digit(n)]]
  /\ soiled' = [soiled EXCEPT ![t] = FALSE]

\* When a stream ends loop_recv returns and main calls it again; a call that
\* fails is made again after a pause.  All that shows of it is the next
\* stream, which starts with UsersInTheRoom and goes on somewhere later in
\* the feed: TakeLine takes any of the lines that are ahead.
TakeCount(t) ==
  /\ Idle(t)
  /\ link' = [link EXCEPT ![t] = "up"]
  /\ IF t \in Watched THEN \E n \in Counts : Counted(t, n) ELSE UNCHANGED counterVars
  /\ UNCHANGED <<feed, at, startupVars, inkVars, fwdVars, lineVars>>

\* UserJoinedTheRoom and UserLeftTheRoom: the counter wraps around.
TakeMembership(t) ==
  /\ link[t] = "up" /\ Idle(t)
  /\ \E move \in {1, CounterSize - 1} : Counted(t, (people[t] + move) % CounterSize)
  /\ UNCHANGED <<feed, recvVars, startupVars, inkVars, fwdVars, lineVars>>

\* Mutant of TakeLine: a task of its own paints each line.
TakeAnyLine(t) ==
  /\ link[t] = "up" /\ Idle(t)
  /\ \E n \in DOMAIN feed :
       /\ AuthorOf[feed[n]] # t /\ feed[n] \notin Range(painted[t])
       /\ PaintLine(t, feed[n])
  /\ UNCHANGED <<feed, recvVars, fwdVars, seen>>

\* Drawing: painted before the next message is taken.
TakeLine(t) ==
  /\ link[t] = "up" /\ Idle(t)
  /\ \E n \in DOMAIN feed :
       /\ n > at[t] /\ AuthorOf[feed[n]] # t
       /\ PaintLine(t, feed[n])
       /\ at' = [at EXCEPT ![t] = n]
  /\ UNCHANGED <<feed, link, fwdVars, seen>>

-----------------------------------------------------------------------------
(* The pen and loop_fwd, in less detail than in module PenStrokes.         *)

Draw(t, l) ==
  /\ AuthorOf[l] = t /\ l \notin Range(painted[t]) /\ fwd[t] = "up"
  /\ seen' = [seen EXCEPT ![l] = Range(painted[t])]
  /\ PaintLine(t, l)
  /\ outbox' = [outbox EXCEPT ![t] = Append(@, l)]
  /\ UNCHANGED <<feed, recvVars, fwd>>

Published(l) == feed' = Append(feed, l)

Send(t) ==
  /\ fwd[t] = "up" /\ outbox[t] # << >>
  /\ Published(Head(outbox[t]))
  /\ outbox' = [outbox EXCEPT ![t] = Tail(@)]
  /\ UNCHANGED <<recvVars, counterVars, startupVars, inkVars, fwd, lineVars>>

\* An error ends loop_fwd and its channel; the event may be published.
SendFails(t) ==
  /\ fwd[t] = "up" /\ outbox[t] # << >>
  /\ Published(Head(outbox[t])) \/ UNCHANGED feed
  /\ fwd' = [fwd EXCEPT ![t] = "dead"] /\ outbox' = [outbox EXCEPT ![t] = << >>]
  /\ UNCHANGED <<recvVars, counterVars, startupVars, inkVars, lineVars>>

CounterStep(t) ==
  TakeMembership(t) \/ PaintStroke(t) \/ LoadCount(t) \/ PaintFirst(t)

Next ==
  \/ \E t \in Tablets :
       \/ TakeCount(t) \/ TakeLine(t)
       \/ \E l \in Lines : Draw(t, l)
       \/ Send(t) \/ SendFails(t)
  \/ \E t \in Watched : CounterStep(t)

Spec == Init /\ [][Next]_vars

-----------------------------------------------------------------------------
(* What the users of a room see.                                           *)

Shown(t) == Range(Glyph[Digit(people[t])])
FirstShown(t) == IF first[t] = -1 THEN {} ELSE Range(Glyph[first[t]])

\* Between two repaints the digit of PEOPLE_COUNT can be read, above nine
\* and where the counter wraps around too, whatever the startup task does,
\* unless an eraser has crossed it since.
CounterReadable ==
  \A t \in Watched : Idle(t) /\ ~soiled[t] => Shown(t) \subseteq ink[t]

\* What may wrongly show beside it is the digit that the startup task read,
\* and what a received black drawing painted with an eraser's tip, if its
\* author took the eraser in the middle of a drawing: loop_recv leaves nothing
\* of the digits it painted, and no pen is wide enough to reach the counter.
GhostsAreKnown ==
  \A t \in Watched : Idle(t) => ink[t] \subseteq Shown(t) \cup FirstShown(t) \cup smudge[t]

\* Every tablet paints a line after the lines that its author saw when
\* drawing it, through drops, failed sends and reconnections: tablets can
\* only disagree on which of two lines is on top if they were drawn at the
\* same time.
PaintedInCausalOrder ==
  \A t \in Tablets : \A i, j \in DOMAIN painted[t] :
    i < j => painted[t][j] \notin seen[painted[t][i]] \cup {painted[t][i]}
=============================================================================

--------------------------- MODULE StrokePlayers ---------------------------
(***************************************************************************)
(* The programs that play strokes back.                                    *)
(*                                                                         *)
(* scrolls paints files of strokes one after the other, in a task of its   *)
(* own.  Of a jsonl or ndjson file it keeps the last black strokes in a    *)
(* ring: when the ring is full the oldest is painted over in white, and at *)
(* the end of the file all of them are.  Strokes are numbered in the order *)
(* they are painted.  Those that the code never erases, of an svg file or  *)
(* of another colour, are not followed.                                    *)
(*                                                                         *)
(* The companion thread of the drawing application reads all of its text   *)
(* and then draws.                                                         *)
(***************************************************************************)
EXTENDS UnipenText, FiniteSets

CONSTANTS JsonlRing, NdjsonRing,  \* 37 and 8 in the code
          MaxInputs, MaxStrokes, \* bounds on files and records, and strokes
          Writings                \* bound: the texts that the companion has

ASSUME RingAssumption == JsonlRing \in Nat \ {0} /\ NdjsonRing \in Nat \ {0}
\* A stroke of the file has points.
ASSUME WritingsAssumption == Writings \subseteq Seq(Seq(Seq(Int \X Int) \ {<< >>}))
ASSUME PlayerBounds == MaxInputs \in Nat /\ MaxStrokes \in Nat

VARIABLES pc,       \* where scrolls is ("next" file, "read", "drain"), or the
                    \* companion ("load", "draw"), or how they are over
          kind,     \* of the file that is played
          todo,     \* the strokes read and not yet painted
          ring,
          shown,    \* the strokes that black pixels are left of
          count,    \* how many strokes were painted
          inputs,   \* how many files were opened and records read
          error,    \* history: the kind of record that ended it all
          text,     \* the text of the companion
          script,   \* the segments it has yet to draw
          drawn,    \* history: those it drew
          words     \* history: what the text says

scrollVars == <<pc, kind, todo, ring, shown, count, inputs, error>>
companionVars == <<text, script, drawn, words>>
vars == <<scrollVars, companionVars>>

\* A dot has less than three points: it is kept in the ring, though not painted.
Inks == {"black", "dot", "white", "other"}

RingSize == IF kind = "ndjson" THEN NdjsonRing ELSE JsonlRing
Playing == pc \in {"next", "read", "drain"}

TypeOK ==
  /\ pc \in {"next", "read", "drain", "load", "draw", "exited", "stuck", "ended"}
  /\ kind \in {"none", "jsonl", "ndjson", "svg"}
  /\ todo \in Seq(Inks)
  /\ ring \in Seq(1..count) /\ Len(ring) <= RingSize
  /\ count \in Nat /\ shown \subseteq 1..count
  /\ inputs \in 0..MaxInputs
  /\ error \in {"none", "bad", "ragged"}

Init ==
  /\ kind = "none" /\ todo = << >> /\ ring = << >> /\ shown = {}
  /\ count = 0 /\ inputs = 0 /\ error = "none" /\ script = << >> /\ drawn = << >>
  /\ \/ pc = "next" /\ words = << >> /\ text = << >>
     \/ /\ pc = "load" /\ words \in Writings
        /\ \/ text = Written(words)
           \/ \E n \in 0..Len(Written(words)) : text = Damaged(Written(words), n)

-----------------------------------------------------------------------------
(* scrolls.  Names that end in nothing it knows are passed over.           *)

OpenFile ==
  /\ pc = "next" /\ inputs < MaxInputs
  /\ \E k \in {"jsonl", "ndjson", "svg"} : kind' = k
  /\ pc' = "read" /\ ring' = << >> /\ inputs' = inputs + 1
  /\ UNCHANGED <<todo, shown, count, error, companionVars>>

\* Mutant of Trimmed: the ring is looked at once per record.
TrimmedAtEnd == todo # << >> \/ Len(ring) < RingSize

\* Nothing is read or painted while the ring is full.
Trimmed == Len(ring) < RingSize

Reading == pc = "read" /\ todo = << >> /\ Trimmed

\* One stroke per line in a jsonl file; as many as the word has in an ndjson
\* file, or none if it was not recognised; all of an svg file at once.
Record(k) ==
  IF k = "jsonl" THEN {<<ink>> : ink \in Inks}
  ELSE SeqOf({"black", "dot"}, 2)

ReadRecord ==
  /\ Reading /\ inputs < MaxInputs
  /\ \E strokes \in Record(kind) : Len(strokes) <= MaxStrokes - count /\ todo' = strokes
  /\ inputs' = inputs + 1
  /\ pc' = IF kind = "svg" THEN "drain" ELSE pc
  /\ UNCHANGED <<kind, ring, shown, count, error, companionVars>>

\* A line that is no record, or a file that cannot be opened, is the end of
\* all files: xochitl is started and the process exits.
BadRecord ==
  /\ Reading
  /\ error' = "bad" /\ pc' = "exited"
  /\ UNCHANGED <<kind, todo, ring, shown, count, inputs, companionVars>>

\* Coordinates that do not match in number: the assertion ends the task, and
\* the process waits for events.
RaggedRecord ==
  /\ Reading /\ kind # "svg"
  /\ error' = "ragged" /\ pc' = "stuck"
  /\ UNCHANGED <<kind, todo, ring, shown, count, inputs, companionVars>>

\* AllocRingBuffer: a full ring forgets its oldest.
Enqueue(r, x) == IF Len(r) = RingSize THEN Append(Tail(r), x) ELSE Append(r, x)

\* Mutant of PaintNext: strokes are numbered from 0.
PaintFromZero ==
  /\ Playing /\ todo # << >> /\ Trimmed
  /\ todo' = Tail(todo) /\ count' = count + 1
  /\ ring' = IF kind # "svg" THEN Enqueue(ring, count) ELSE ring
  /\ shown' = IF kind # "svg" /\ Head(todo) = "black" THEN shown \cup {count} ELSE shown
  /\ UNCHANGED <<pc, kind, inputs, error, companionVars>>

\* A stroke in white rubs out whatever it crosses.
PaintNext ==
  /\ Playing /\ todo # << >> /\ Trimmed
  /\ todo' = Tail(todo) /\ count' = count + 1
  /\ LET ink == Head(todo)
     IN  /\ ring' = IF kind # "svg" /\ ink \in {"black", "dot"}
                    THEN Enqueue(ring, count + 1) ELSE ring
         /\ IF ink = "white" THEN shown' \in SUBSET shown
            ELSE shown' = IF kind # "svg" /\ ink = "black"
                          THEN shown \cup {count + 1} ELSE shown
  /\ UNCHANGED <<pc, kind, inputs, error, companionVars>>

\* The stroke x is painted in white, over what it crosses too.
Erase(x) == shown' \in SUBSET (shown \ {x})

\* Mutant of Dequeue: the oldest stays in the ring.
Peek == Erase(Head(ring)) /\ UNCHANGED ring

Dequeue == Erase(Head(ring)) /\ ring' = Tail(ring)

EraseOldest ==
  /\ pc = "read" /\ ~Trimmed
  /\ Dequeue
  /\ UNCHANGED <<pc, kind, todo, count, inputs, error, companionVars>>

\* Mutant of EndOfFile: the next file is opened at once.
LeaveTheRest ==
  /\ Reading
  /\ pc' = "next"
  /\ UNCHANGED <<kind, todo, ring, shown, count, inputs, error, companionVars>>

EndOfFile ==
  /\ Reading
  /\ pc' = "drain"
  /\ UNCHANGED <<kind, todo, ring, shown, count, inputs, error, companionVars>>

\* Mutant of DrainNext: the newest goes first.
DrainBackwards ==
  /\ pc = "drain" /\ todo = << >> /\ ring # << >>
  /\ Erase(Last(ring)) /\ ring' = Front(ring)
  /\ UNCHANGED <<pc, kind, todo, count, inputs, error, companionVars>>

DrainNext ==
  /\ pc = "drain" /\ todo = << >> /\ ring # << >>
  /\ Dequeue
  /\ UNCHANGED <<pc, kind, todo, count, inputs, error, companionVars>>

FileDone ==
  /\ pc = "drain" /\ todo = << >> /\ ring = << >>
  /\ pc' = "next"
  /\ UNCHANGED <<kind, todo, ring, shown, count, inputs, error, companionVars>>

\* xochitl is started and the process exits.
AllPlayed ==
  /\ pc = "next" /\ pc' = "exited"
  /\ UNCHANGED <<kind, todo, ring, shown, count, inputs, error, companionVars>>

-----------------------------------------------------------------------------
(* The companion.                                                          *)

LoadWords ==
  /\ pc = "load"
  /\ script' = Drawing(WordsIn(text)) /\ pc' = "draw"
  /\ UNCHANGED <<kind, todo, ring, shown, count, inputs, error, text, drawn, words>>

DrawGlyph ==
  /\ pc = "draw" /\ script # << >>
  /\ drawn' = Append(drawn, Head(script)) /\ script' = Tail(script)
  /\ UNCHANGED <<scrollVars, text, words>>

\* The thread ends; the application goes on.
GlyphsDone ==
  /\ pc = "draw" /\ script = << >>
  /\ pc' = "ended"
  /\ UNCHANGED <<kind, todo, ring, shown, count, inputs, error, companionVars>>

Next ==
  \/ OpenFile \/ ReadRecord \/ BadRecord \/ RaggedRecord \/ PaintNext
  \/ EraseOldest \/ EndOfFile \/ DrainNext \/ FileDone \/ AllPlayed
  \/ LoadWords \/ DrawGlyph \/ GlyphsDone

Spec == Init /\ [][Next]_vars

\* Each player has a thread of its own, and files end.
FairSpec == Spec /\ WF_vars(Next)

-----------------------------------------------------------------------------
(* Properties.                                                             *)

\* While scrolls plays, every stroke that black is left of is in the ring,
\* oldest first, dots and white strokes among them or not: none can escape
\* being erased in its turn.
ShownIsHeld ==
  Playing => /\ shown \subseteq Range(ring)
             /\ \A i, j \in DOMAIN ring : i < j => ring[i] < ring[j]

\* Strokes go in the order they came.
OldestGoesFirst ==
  [][\A gone \in Range(ring) \ Range(ring'), left \in Range(ring') : gone < left]_vars

\* scrolls leaves a black stroke behind only if a record was in error, and
\* then less than a ring of them.
LeftoversOnlyAfterError ==
  pc \in {"exited", "stuck"} =>
    IF error = "none" THEN shown = {} ELSE Cardinality(shown) < RingSize

\* Whatever the files hold, xochitl comes back, unless a ragged record ended
\* the task that would have started it.
XochitlReturns == <>(pc \in {"exited", "ended"} \/ error = "ragged")

\* The companion draws what its text says, segment by segment, and all of it
\* unless the text is damaged or has a number that its type does not hold: then
\* it stops no later than there.
DrawsWhatIsWritten ==
  /\ IsPrefix(drawn, Drawing(words))
  /\ pc = "ended" /\ AllParses(text) => drawn = Drawing(words)
=============================================================================

--------------------------- MODULE ScreenSharing ---------------------------
(***************************************************************************)
(* Screen sharing in one room: each tablet's loop_screensharing dumps its  *)
(* canvas now and then and, if its checksum changed, stores it with        *)
(* SendScreen under the room's Redis key; web pages poll it with           *)
(* RecvScreen (http.go).                                                   *)
(*                                                                         *)
(* A canvas changes under the pen and under the drawings of others.  Other *)
(* threads raise NEEDS_SHARING after the fact, if at all (loop_fwd only    *)
(* once the server accepted the drawing); the loop lowers it after a send, *)
(* also when it was raised again meanwhile.  A wakeup every WakeupEvery    *)
(* ticks looks at the canvas anyway.  A picture stands for its checksum.   *)
(***************************************************************************)
EXTENDS Naturals

CONSTANTS Tablets,
          Pictures,     \* what a canvas can show
          Blank,        \* a canvas at startup
          None,         \* no checksum yet; no value under the room's key
          WakeupEvery,  \* ticks between two wakeups, 100 in the code
          MaxEdits, MaxFailures, MaxLosses   \* bounds

ASSUME ScreenAssumption ==
  /\ Blank \in Pictures /\ None \notin Pictures
  /\ WakeupEvery \in Nat \ {0}
  /\ MaxEdits \in Nat /\ MaxFailures \in Nat /\ MaxLosses \in Nat

VARIABLES canvas,    \* what each tablet shows
          owed,      \* whether a thread is about to raise NEEDS_SHARING
          needs,     \* NEEDS_SHARING
          loop,      \* where loop_screensharing is
          counter,   \* its ticks since the last wakeup
          hand,      \* the picture it dumped
          previous,  \* previous_checksum
          screen,    \* the value under the room's key
          stored,    \* history: the last picture of each tablet Redis stored
          viewed,    \* what the web page shows
          edits, failures, losses   \* how many there were

loopVars == <<loop, counter, hand, previous>>
boundVars == <<edits, failures, losses>>
vars == <<canvas, owed, needs, loopVars, screen, stored, viewed, boundVars>>

TypeOK ==
  /\ canvas \in [Tablets -> Pictures]
  /\ owed \in [Tablets -> BOOLEAN] /\ needs \in [Tablets -> BOOLEAN]
  /\ loop \in [Tablets -> {"tick", "dumped", "sending", "answered"}]
  /\ counter \in [Tablets -> 0..WakeupEvery]
  /\ hand \in [Tablets -> Pictures]
  /\ previous \in [Tablets -> Pictures \cup {None}]
  /\ screen \in Pictures \cup {None} /\ viewed \in Pictures \cup {None}
  /\ stored \in [Tablets -> Pictures \cup {None}]
  /\ edits \in Nat /\ failures \in Nat /\ losses \in Nat

Init ==
  /\ canvas = [t \in Tablets |-> Blank]
  /\ owed = [t \in Tablets |-> FALSE]
  /\ needs = [t \in Tablets |-> TRUE]
  /\ loop = [t \in Tablets |-> "tick"]
  /\ counter = [t \in Tablets |-> 0]
  /\ hand = [t \in Tablets |-> Blank]
  /\ previous = [t \in Tablets |-> None]
  /\ screen = None /\ viewed = None
  /\ stored = [t \in Tablets |-> None]
  /\ edits = 0 /\ failures = 0 /\ losses = 0

Goto(t, l) == loop' = [loop EXCEPT ![t] = l]

-----------------------------------------------------------------------------
(* The rest of the tablet.                                                 *)

\* Something is painted.  Not everything that paints raises the flag later:
\* mouldings, the people counter and lines that loop_fwd could not send do not.
Paint(t) ==
  /\ edits < MaxEdits /\ edits' = edits + 1
  /\ \E p \in Pictures \ {canvas[t]} : canvas' = [canvas EXCEPT ![t] = p]
  /\ owed' \in {owed, [owed EXCEPT ![t] = TRUE]}
  /\ UNCHANGED <<needs, loopVars, screen, stored, viewed, failures, losses>>

\* loop_fwd after a send, loop_recv after a paint
RaiseFlag(t) ==
  /\ owed[t]
  /\ owed' = [owed EXCEPT ![t] = FALSE]
  /\ needs' = [needs EXCEPT ![t] = TRUE]
  /\ UNCHANGED <<canvas, loopVars, screen, stored, viewed, boundVars>>

-----------------------------------------------------------------------------
(* loop_screensharing.                                                     *)

\* Mutant of Wakeup: the loop trusts the flag alone.
NeverWakeup(t) == FALSE
Wakeup(t) == counter[t] % WakeupEvery = 0

\* Mutant of Counted: a wakeup does not start the count again.
CountedOn(t) == counter[t] + 1
Counted(t) == (counter[t] % WakeupEvery) + 1

Tick(t) ==
  /\ loop[t] = "tick"
  /\ counter' = [counter EXCEPT ![t] = Counted(t)]
  /\ IF Wakeup(t) \/ needs[t]
     THEN Goto(t, "dumped") /\ hand' = [hand EXCEPT ![t] = canvas[t]]
     ELSE UNCHANGED <<loop, hand>>
  /\ UNCHANGED <<canvas, owed, needs, previous, screen, stored, viewed, boundVars>>

LowerFlag(t) == needs' = [needs EXCEPT ![t] = FALSE]

SameChecksum(t) ==
  /\ loop[t] = "dumped" /\ hand[t] = previous[t]
  /\ LowerFlag(t) /\ Goto(t, "tick")
  /\ UNCHANGED <<canvas, owed, counter, hand, previous, screen, stored, viewed, boundVars>>

\* The checksum is remembered before the picture is sent.
Send(t) ==
  /\ loop[t] = "dumped" /\ hand[t] # previous[t]
  /\ previous' = [previous EXCEPT ![t] = hand[t]]
  /\ Goto(t, "sending")
  /\ UNCHANGED <<canvas, owed, needs, counter, hand, screen, stored, viewed, boundVars>>

\* Mutant of SendScreen: the key is only set when it has no value (SETNX).
SendFirstScreen(t) ==
  /\ loop[t] = "sending" /\ Goto(t, "answered")
  /\ screen' = IF screen = None THEN hand[t] ELSE screen
  /\ stored' = [stored EXCEPT ![t] = hand[t]]
  /\ UNCHANGED <<canvas, owed, needs, counter, hand, previous, viewed, boundVars>>

\* SendScreen on the server: the last tablet of the room to store wins.
SendScreen(t) ==
  /\ loop[t] = "sending" /\ Goto(t, "answered")
  /\ screen' = hand[t]
  /\ stored' = [stored EXCEPT ![t] = hand[t]]
  /\ UNCHANGED <<canvas, owed, needs, counter, hand, previous, viewed, boundVars>>

Answered(t) ==
  /\ loop[t] = "answered"
  /\ LowerFlag(t) /\ Goto(t, "tick")
  /\ UNCHANGED <<canvas, owed, counter, hand, previous, screen, stored, viewed, boundVars>>

\* Mutant of SendFails: the loop goes on instead of starting afresh.
SendForgotten(t) ==
  /\ failures < MaxFailures /\ failures' = failures + 1
  /\ loop[t] \in {"sending", "answered"} /\ Goto(t, "tick")
  /\ UNCHANGED <<canvas, owed, needs, counter, hand, previous, screen, stored,
                 viewed, edits, losses>>

\* The call fails, before the picture was stored or after.  main respawns
\* the loop, which forgets its checksum and starts with a wakeup.
SendFails(t) ==
  /\ failures < MaxFailures /\ failures' = failures + 1
  /\ loop[t] \in {"sending", "answered"} /\ Goto(t, "tick")
  /\ previous' = [previous EXCEPT ![t] = None]
  /\ counter' = [counter EXCEPT ![t] = 0]
  /\ UNCHANGED <<canvas, owed, needs, hand, screen, stored, viewed, edits, losses>>

-----------------------------------------------------------------------------
(* Redis and the web page.                                                 *)

\* The key expires after a day, or Redis restarts: it saves nothing to disk.
KeyLost ==
  /\ screen # None /\ losses < MaxLosses /\ losses' = losses + 1
  /\ screen' = None
  /\ UNCHANGED <<canvas, owed, needs, loopVars, stored, viewed, edits, failures>>

\* The page reloads the image; no value yet shows the default picture.
RecvScreen ==
  /\ viewed' = screen
  /\ UNCHANGED <<canvas, owed, needs, loopVars, screen, stored, boundVars>>

Loop(t) ==
  \/ Tick(t) \/ SameChecksum(t) \/ Send(t)
  \/ SendScreen(t) \/ Answered(t) \/ SendFails(t)

Next ==
  \/ \E t \in Tablets : Loop(t) \/ Paint(t) \/ RaiseFlag(t)
  \/ KeyLost \/ RecvScreen

Spec == Init /\ [][Next]_vars

\* The loop has a thread and a ticker, its requests time out; the page
\* polls.  Nothing forces the other threads to raise the flag.
Fairness == WF_vars(RecvScreen) /\ \A t \in Tablets : WF_vars(Loop(t))
FairSpec == Spec /\ Fairness

-----------------------------------------------------------------------------
\* The loop skips a picture only if Redis stored it, and stored nothing of
\* this tablet since: the checksum it remembers is never that of a picture
\* whose send failed, although it is remembered before the send.
SkippedWasStored ==
  \A t \in Tablets :
    loop[t] \in {"tick", "dumped"} => previous[t] \in {None, stored[t]}

\* However the flag was raised, lowered or lost and sends failed, the last
\* canvas of each tablet reaches Redis.
LastCanvasStored == \A t \in Tablets : <>[](stored[t] = canvas[t])

\* The page ends up with the canvas of a tablet of the room, for as long as
\* Redis keeps the key.
PageCatchesUp ==
  <>[](losses = 0 => \E t \in Tablets : viewed = canvas[t])
=============================================================================

------------------------ MODULE ScreenSharingProofs ------------------------
(***************************************************************************)
(* Proofs about ScreenSharing, for any tablets, pictures and bounds.       *)
(***************************************************************************)
EXTENDS ScreenSharing, TLAPS

\* What the loop knows about its last picture at each of its places.
KnowsInv ==
  \A t \in Tablets :
    /\ loop[t] = "sending" => previous[t] = hand[t]
    /\ loop[t] = "answered" => previous[t] = hand[t] /\ stored[t] = hand[t]

\* TypeOK without the counters, which the remembered checksum does not need.
LoopTypeOK ==
  /\ loop \in [Tablets -> {"tick", "dumped", "sending", "answered"}]
  /\ hand \in [Tablets -> Pictures] /\ canvas \in [Tablets -> Pictures]
  /\ previous \in [Tablets -> Pictures \cup {None}]
  /\ stored \in [Tablets -> Pictures \cup {None}]

ChecksumInv == LoopTypeOK /\ KnowsInv /\ SkippedWasStored

\* The steps of one tablet's loop, each in turn.
LEMMA LoopKeepsChecksum ==
  ASSUME ChecksumInv, NEW t \in Tablets, Loop(t)
  PROVE  ChecksumInv'
<1> USE DEF ChecksumInv, LoopTypeOK, KnowsInv, SkippedWasStored, Goto
<1>1. CASE Tick(t)
  <2>1. CASE Wakeup(t) \/ needs[t]
    BY <1>1, <2>1 DEF Tick
  <2>2. CASE ~(Wakeup(t) \/ needs[t])
    BY <1>1, <2>2 DEF Tick
  <2>3. QED
    BY <2>1, <2>2
<1>2. CASE SameChecksum(t)
  BY <1>2 DEF SameChecksum
<1>3. CASE Send(t)
  BY <1>3 DEF Send
<1>4. CASE SendScreen(t)
  BY <1>4 DEF SendScreen
<1>5. CASE Answered(t)
  BY <1>5 DEF Answered
<1>6. CASE SendFails(t)
  BY <1>6 DEF SendFails
<1>7. QED
  BY <1>1, <1>2, <1>3, <1>4, <1>5, <1>6 DEF Loop

\* The checksum a loop remembers is that of the picture Redis stored last
\* for its tablet: no picture is skipped because of a send that failed.
THEOREM NothingSkippedUnstored == Spec => []SkippedWasStored
<1>1. Init => ChecksumInv
  BY ScreenAssumption
  DEF Init, ChecksumInv, LoopTypeOK, KnowsInv, SkippedWasStored
<1>2. ChecksumInv /\ [Next]_vars => ChecksumInv'
  <2> SUFFICES ASSUME ChecksumInv, [Next]_vars PROVE ChecksumInv'
    OBVIOUS
  <2>1. ASSUME NEW t \in Tablets, Loop(t) PROVE ChecksumInv'
    BY <2>1, LoopKeepsChecksum
  <2>2. ASSUME NEW t \in Tablets, Paint(t) PROVE ChecksumInv'
    BY <2>2 DEF Paint, loopVars, ChecksumInv, LoopTypeOK, KnowsInv, SkippedWasStored
  <2>3. CASE UNCHANGED <<canvas, loopVars, stored>>
    BY <2>3 DEF loopVars, ChecksumInv, LoopTypeOK, KnowsInv, SkippedWasStored
  <2>4. QED
    BY <2>1, <2>2, <2>3 DEF Next, RaiseFlag, KeyLost, RecvScreen, vars
<1>3. ChecksumInv => SkippedWasStored
  BY DEF ChecksumInv
<1>4. QED
  BY <1>1, <1>2, <1>3, PTL DEF Spec

-----------------------------------------------------------------------------

\* The tick counter never passes WakeupEvery: a wakeup starts it again.
LEMMA CountedInRange ==
  ASSUME NEW n \in 0..WakeupEvery
  PROVE  (n % WakeupEvery) + 1 \in 0..WakeupEvery
<1>1. WakeupEvery \in Nat \ {0}
  BY ScreenAssumption
<1>2. n % WakeupEvery \in 0..(WakeupEvery - 1)
  BY <1>1
<1>3. QED
  BY <1>1, <1>2

LEMMA LoopType == ASSUME TypeOK, NEW t \in Tablets, Loop(t) PROVE TypeOK'
<1> USE ScreenAssumption DEF TypeOK, Goto
<1>1. CASE Tick(t)
  <2>1. counter' \in [Tablets -> 0..WakeupEvery]
    BY <1>1, CountedInRange DEF Tick, Counted
  <2>2. CASE Wakeup(t) \/ needs[t]
    BY <1>1, <2>1, <2>2 DEF Tick, boundVars
  <2>3. CASE ~(Wakeup(t) \/ needs[t])
    BY <1>1, <2>1, <2>3 DEF Tick, boundVars
  <2>4. QED
    BY <2>2, <2>3
<1>2. CASE SameChecksum(t) \/ Answered(t)
  BY <1>2 DEF SameChecksum, Answered, LowerFlag, boundVars
<1>3. CASE Send(t) \/ SendScreen(t)
  BY <1>3 DEF Send, SendScreen, boundVars
<1>4. CASE SendFails(t)
  BY <1>4 DEF SendFails
<1>5. QED
  BY <1>1, <1>2, <1>3, <1>4 DEF Loop

\* The types of all that the tablets of a room, Redis and the page hold.
THEOREM TypeCorrect == Spec => []TypeOK
<1>1. Init => TypeOK
  BY ScreenAssumption DEF Init, TypeOK
<1>2. TypeOK /\ [Next]_vars => TypeOK'
  <2> SUFFICES ASSUME TypeOK, [Next]_vars PROVE TypeOK'
    OBVIOUS
  <2>1. ASSUME NEW t \in Tablets, Paint(t) PROVE TypeOK'
    <3>1. owed' \in [Tablets -> BOOLEAN]
      BY <2>1 DEF Paint, TypeOK
    <3>2. canvas' \in [Tablets -> Pictures] /\ edits' \in Nat
      BY <2>1 DEF Paint, TypeOK
    <3>3. UNCHANGED <<needs, loop, counter, hand, previous, screen, stored, failures, losses, viewed>>
      BY <2>1 DEF Paint, loopVars
    <3>4. QED
      BY <3>1, <3>2, <3>3 DEF TypeOK
  <2>2. ASSUME NEW t \in Tablets, RaiseFlag(t) PROVE TypeOK'
    BY <2>2 DEF RaiseFlag, TypeOK, loopVars, boundVars
  <2>3. CASE KeyLost \/ RecvScreen \/ UNCHANGED vars
    BY <2>3 DEF KeyLost, RecvScreen, vars, loopVars, boundVars, TypeOK
  <2>4. QED
    BY <2>1, <2>2, <2>3, LoopType DEF Next
<1>3. QED
  BY <1>1, <1>2, PTL DEF Spec
=============================================================================

-------------------------- MODULE PenStrokesProofs --------------------------
(***************************************************************************)
(* Proofs about PenStrokes, for any number of fingers and points.          *)
(***************************************************************************)
EXTENDS PenStrokes, SequenceTheorems, TLAPS

\* The invariant of the buttons: well-typed and never stuck.
ButtonsInv == ButtonsTypeOK /\ PressedByAFinger

\* One touch event, whichever finger and wherever it is reported.
LEMMA TouchKeepsButtons ==
  ASSUME ButtonsInv, NEW f \in Fingers, NEW place \in Places, OnTch(f, place)
  PROVE  ButtonsInv'
<1>1. Off \notin Fingers
  BY FingersAssumption DEF Off
<1>2. inner' = [b \in Btns |-> ProcessEvent(b, f, place)]
      /\ at' = [at EXCEPT ![f] = place]
  BY DEF OnTch
<1>3. ButtonsTypeOK'
  BY <1>2 DEF ButtonsInv, ButtonsTypeOK, ProcessEvent
<1>4. ASSUME NEW b \in Btns, inner'[b] # Off
      PROVE  inner'[b] \in Fingers /\ at'[inner'[b]] = b
  <2>1. CASE place = b
    BY <1>2, <2>1 DEF ButtonsInv, ButtonsTypeOK, ProcessEvent
  <2>2. CASE place # b
    <3>1. inner'[b] = inner[b] /\ inner[b] # f
      BY <1>1, <1>2, <1>4, <2>2 DEF ProcessEvent
    <3>2. inner[b] \in Fingers /\ at[inner[b]] = b
      BY <1>4, <3>1 DEF ButtonsInv, PressedByAFinger, IsPressed
    <3>3. QED
      BY <1>2, <3>1, <3>2 DEF ButtonsInv, ButtonsTypeOK
  <2>3. QED
    BY <2>1, <2>2
<1>5. QED
  BY <1>3, <1>4 DEF ButtonsInv, PressedByAFinger, IsPressed

\* Only touch events move the buttons.
LEMMA OthersLeaveButtons ==
  ASSUME Draw \/ LineEnds \/ OnBtn \/ (\E black \in BOOLEAN : ChangeTool(black))
           \/ Receive \/ Sent \/ SendingFails \/ UNCHANGED vars
  PROVE  UNCHANGED buttonVars
BY DEF Draw, LineEnds, OnBtn, ChangeTool, Receive, Sent, SendingFails, vars, buttonVars

\* No order of touches leaves the eraser or the wide pen stuck: a pressed
\* button always has the finger it tracks on it.
THEOREM NoStuckButton == Spec => []PressedByAFinger
<1>1. Init => ButtonsInv
  BY DEF Init, ButtonsInit, ButtonsInv, ButtonsTypeOK, PressedByAFinger, IsPressed, Places, Btns
<1>2. ButtonsInv /\ [Next]_vars => ButtonsInv'
  <2> SUFFICES ASSUME ButtonsInv, [Next]_vars PROVE ButtonsInv'
    OBVIOUS
  <2>1. CASE \E f \in Fingers, place \in Places : TouchScreen(f, place)
    BY <2>1, TouchKeepsButtons DEF TouchScreen
  <2>2. CASE UNCHANGED buttonVars
    BY <2>2 DEF buttonVars, ButtonsInv, ButtonsTypeOK, PressedByAFinger, IsPressed
  <2>3. QED
    BY <2>1, <2>2, OthersLeaveButtons DEF Next
<1>3. ButtonsInv => PressedByAFinger
  BY DEF ButtonsInv
<1>4. QED
  BY <1>1, <1>2, <1>3, PTL DEF Spec

-----------------------------------------------------------------------------
(* Types.                                                                  *)

LEMMA Appended == \A S : \A s \in Seq(S), e \in S : Append(s, e) \in Seq(S)
BY AppendProperties

LEMMA NoPoints == << >> \in Drawing /\ << >> \in Seq(Drawing) /\ Len(<< >>) = 0
BY EmptySeq DEF Drawing

LEMMA InitType == Init => TypeOK
BY BoundAssumption DEF Init, TypeOK, ButtonsInit, ButtonsTypeOK, Places, Btns, Drawing

\* A point that is drawn: two points wait for the third, which paints.
LEMMA DrawType == TypeOK /\ Draw => TypeOK'
<1> SUFFICES ASSUME TypeOK, Draw PROVE TypeOK'
  OBVIOUS
<1> DEFINE n == Len(drawn) + 1
           white == ~penBlack \/ IsPressed("erase")
           wide == IsPressed("times3")
           line == Append(wacom, n)
<1>1. n \in Nat \ {0} /\ white \in BOOLEAN /\ wide \in BOOLEAN
  BY DEF TypeOK, IsPressed
<1>2. drawn' \in Seq(Point)
  BY <1>1 DEF Draw, TypeOK, Point
<1>3. scribbles' \in Drawing
  <2>1. scribbles' = Append(scribbles, n) /\ scribbles \in Seq(Nat \ {0})
    BY DEF Draw, TypeOK, Drawing
  <2>2. QED
    BY <1>1, <2>1, Appended DEF Drawing
<1>4. line \in Drawing /\ Len(line) = Len(wacom) + 1 /\ line # << >>
  <2>1. wacom \in Seq(Nat \ {0})
    BY DEF TypeOK, Drawing
  <2>2. QED
    BY <1>1, <2>1, AppendProperties DEF Drawing
<1>5. CASE Len(line) >= 3
  <2>1. /\ painted' = painted \cup {Segment(line, white, [i \in 1..3 |-> wide])}
        /\ wacom' = Tail(line)
    BY <1>5 DEF Draw, Shifted
  <2>2. wacom' \in Drawing /\ Len(wacom') < 3
    BY <1>4, <1>5, <2>1, HeadTailProperties DEF TypeOK, Drawing
  <2>3. \A p \in painted' : p.pts \in Drawing /\ p.white \in BOOLEAN
    <3> SUFFICES ASSUME NEW p \in painted' PROVE p.pts \in Drawing /\ p.white \in BOOLEAN
      OBVIOUS
    <3>1. p \in painted \/ p = [pts |-> line, white |-> white, wides |-> [i \in 1..3 |-> wide]]
      BY <2>1 DEF Segment
    <3>2. CASE p \in painted
      BY <3>2 DEF TypeOK
    <3>3. CASE p = [pts |-> line, white |-> white, wides |-> [i \in 1..3 |-> wide]]
      <4>1. p.pts = line /\ p.white = white
        BY <3>3
      <4>2. QED
        BY <1>1, <1>4, <4>1
    <3>4. QED
      BY <3>1, <3>2, <3>3
  <2>4. QED
    BY <1>2, <1>3, <2>2, <2>3 DEF Draw, TypeOK, ButtonsTypeOK, buttonVars, fwdVars
<1>6. CASE ~(Len(line) >= 3)
  <2>1. wacom' = line /\ painted' = painted
    BY <1>6 DEF Draw
  <2>2. QED
    BY <1>2, <1>3, <1>4, <1>6, <2>1 DEF Draw, TypeOK, ButtonsTypeOK, buttonVars, fwdVars
<1>7. QED
  BY <1>5, <1>6

\* The end of a line leaves the drawings well-typed.
LEMMA LineEndsType == TypeOK /\ LineEnds => TypeOK'
<1> SUFFICES ASSUME TypeOK, LineEnds PROVE TypeOK'
  OBVIOUS
<1>1. /\ wacom' = << >> /\ lifted' = Len(drawn)
      /\ UNCHANGED <<inner, at, penBlack, drawn, painted, fwd, hand, delivered, changes>>
  BY DEF LineEnds, buttonVars, fwdVars
<1>2. scribbles' \in Drawing /\ queue' \in Seq(Drawing) /\ app' \in {"running", "panicked", "exited"}
  <2>1. Append(queue, scribbles) \in Seq(Drawing)
    BY Appended DEF TypeOK
  <2>2. QED
    BY <2>1, NoPoints DEF LineEnds, MaybeSendDrawing, TypeOK
<1>3. QED
  BY <1>1, <1>2, NoPoints, LenProperties DEF TypeOK, ButtonsTypeOK

LEMMA NextType == TypeOK /\ [Next]_vars => TypeOK'
<1> SUFFICES ASSUME TypeOK, [Next]_vars PROVE TypeOK'
  OBVIOUS
<1>1. CASE OnBtn \/ (\E black \in BOOLEAN : ChangeTool(black))
  BY <1>1 DEF OnBtn, ChangeTool, TypeOK, ButtonsTypeOK, buttonVars, fwdVars
<1>2. ASSUME NEW f \in Fingers, NEW place \in Places, TouchScreen(f, place)
      PROVE  TypeOK'
  <2>1. ButtonsTypeOK'
    BY <1>2 DEF TouchScreen, OnTch, TypeOK, ButtonsTypeOK, ProcessEvent
  <2>2. QED
    BY <1>2, <2>1 DEF TouchScreen, TypeOK, uiVars, fwdVars
<1>3. CASE Receive
  <2>1. hand' \in Drawing /\ queue' \in Seq(Drawing)
    BY <1>3, HeadTailProperties DEF Receive, TypeOK
  <2>2. QED
    BY <1>3, <2>1 DEF Receive, TypeOK, ButtonsTypeOK, buttonVars, uiVars
<1>4. CASE Sent \/ SendingFails
  <2>1. delivered' \in Seq(Drawing) /\ queue' \in Seq(Drawing) /\ hand' \in Drawing
    <3>1. Append(delivered, hand) \in Seq(Drawing)
      BY Appended DEF TypeOK
    <3>2. QED
      BY <1>4, <3>1, NoPoints DEF Sent, SendingFails, TypeOK, uiVars
  <2>2. QED
    BY <1>4, <2>1 DEF Sent, SendingFails, TypeOK, ButtonsTypeOK, buttonVars, uiVars
<1>5. CASE UNCHANGED vars
  BY <1>5 DEF vars, buttonVars, uiVars, fwdVars, TypeOK, ButtonsTypeOK
<1>6. QED
  BY <1>1, <1>2, <1>3, <1>4, <1>5, DrawType, LineEndsType DEF Next

\* The stacks, the channel and the drawings keep their types.
THEOREM TypeCorrect == Spec => []TypeOK
BY InitType, NextType, PTL DEF Spec

-----------------------------------------------------------------------------
(* No point is lost, repeated or reordered.                                *)

\* Drawings each of which starts where the one before ended, and where the
\* next one has to start.
Chain(s) ==
  \A k \in DOMAIN s :
    /\ Len(s[k]) >= 3 /\ Run(s[k])
    /\ s[k][1] = IF k = 1 THEN 1 ELSE After(s[k - 1])

EndOf(s) == IF s = << >> THEN 1 ELSE After(s[Len(s)])

\* SCRIBBLES goes on from there and holds all that was drawn since.
GoesOn ==
  /\ scribbles # << >> => Run(scribbles) /\ scribbles[1] = EndOf(Pipeline)
  /\ EndOf(Pipeline) + Len(scribbles) = Len(drawn) + 1

ChainInv ==
  /\ TypeOK
  /\ Chain(Pipeline)
  /\ fwd # "dead" => GoesOn

LEMMA ChainIsOrder == ChainInv => PointsInOrder
BY DEF ChainInv, Chain, GoesOn, EndOf, PointsInOrder

LEMMA PipelineType == ASSUME TypeOK PROVE Pipeline \in Seq(Drawing)
<1>1. (IF fwd = "sending" THEN <<hand>> ELSE << >>) \in Seq(Drawing)
  BY DEF TypeOK
<1>2. QED
  BY <1>1 DEF TypeOK, Pipeline

LEMMA EndType ==
  ASSUME NEW s \in Seq(Drawing), Chain(s)
  PROVE  EndOf(s) \in Nat
<1>1. CASE s = << >>
  BY <1>1 DEF EndOf
<1>2. CASE s # << >>
  <2> DEFINE d == s[Len(s)]
  <2>1. Len(s) \in Nat \ {0} /\ Len(s) \in 1..Len(s) /\ DOMAIN s = 1..Len(s)
    BY <1>2, EmptySeq, LenProperties
  <2>2. d \in Drawing /\ Len(d) >= 3
    BY <2>1, ElementOfSeq DEF Chain
  <2>3. Len(d) \in 1..Len(d) /\ d \in Seq(Nat \ {0})
    BY <2>2, LenProperties DEF Drawing
  <2>4. d[Len(d)] \in Nat
    BY <2>3, ElementOfSeq
  <2>5. QED
    BY <1>2, <2>4 DEF EndOf, After
<1>3. QED
  BY <1>1, <1>2

\* A run that starts at the end makes a longer chain.
LEMMA ChainAppend ==
  ASSUME NEW s \in Seq(Drawing), NEW d \in Drawing,
         Chain(s), Len(d) >= 3, Run(d), d[1] = EndOf(s)
  PROVE  Chain(Append(s, d)) /\ EndOf(Append(s, d)) = d[1] + Len(d)
<1> DEFINE a == Append(s, d)
<1>1. /\ a \in Seq(Drawing) /\ Len(a) = Len(s) + 1 /\ DOMAIN a = 1..(Len(s) + 1)
      /\ a[Len(s) + 1] = d /\ \A k \in 1..Len(s) : a[k] = s[k]
      /\ Len(s) \in Nat /\ DOMAIN s = 1..Len(s)
  BY AppendProperties, LenProperties
<1>2. ASSUME NEW k \in 1..Len(s)
      PROVE  Len(a[k]) >= 3 /\ Run(a[k]) /\ a[k][1] = IF k = 1 THEN 1 ELSE After(a[k - 1])
  <2>1. /\ a[k] = s[k] /\ Len(s[k]) >= 3 /\ Run(s[k])
        /\ s[k][1] = IF k = 1 THEN 1 ELSE After(s[k - 1])
    BY <1>1, <1>2 DEF Chain
  <2>2. k # 1 => a[k - 1] = s[k - 1]
    BY <1>1, <1>2
  <2>3. QED
    BY <2>1, <2>2
<1>3. d[1] = IF Len(s) + 1 = 1 THEN 1 ELSE After(a[(Len(s) + 1) - 1])
  <2>1. CASE s = << >>
    BY <1>1, <2>1, NoPoints DEF EndOf
  <2>2. CASE s # << >>
    <3>1. Len(s) \in Nat \ {0}
      BY <2>2, EmptySeq
    <3>2. (Len(s) + 1) - 1 = Len(s) /\ Len(s) + 1 # 1 /\ Len(s) \in 1..Len(s)
      BY <3>1
    <3>3. a[Len(s)] = s[Len(s)]
      BY <1>1, <3>2
    <3>4. d[1] = After(s[Len(s)])
      BY <2>2 DEF EndOf
    <3>5. QED
      BY <3>2, <3>3, <3>4
  <2>3. QED
    BY <2>1, <2>2
<1> HIDE DEF a
<1>4. Chain(a)
  <2>1. a[Len(s) + 1] = d /\ Len(d) >= 3 /\ Run(d)
    BY <1>1
  <2>2. \A k \in 1..(Len(s) + 1) : k \in 1..Len(s) \/ k = Len(s) + 1
    BY <1>1
  <2>3. \A k \in 1..(Len(s) + 1) :
          /\ Len(a[k]) >= 3 /\ Run(a[k])
          /\ a[k][1] = IF k = 1 THEN 1 ELSE After(a[k - 1])
    <3> TAKE k \in 1..(Len(s) + 1)
    <3>1. CASE k \in 1..Len(s)
      BY <1>2, <3>1
    <3>2. CASE k = Len(s) + 1
      BY <1>3, <2>1, <3>2
    <3>3. QED
      BY <2>2, <3>1, <3>2
  <2>4. QED
    BY <1>1, <2>3 DEF Chain
<1>5. After(d) = d[1] + Len(d)
  <2>1. Len(d) \in DOMAIN d /\ Len(d) \in Nat /\ 1 \in DOMAIN d /\ d[1] \in Nat
    BY LenProperties, ElementOfSeq DEF Drawing
  <2>2. d[Len(d)] = d[1] + Len(d) - 1
    BY <2>1 DEF Run
  <2>3. QED
    BY <2>1, <2>2 DEF After
<1>6. a # << >>
  BY <1>1, EmptySeq
<1>7. QED
  BY <1>1, <1>4, <1>5, <1>6 DEF EndOf, a

\* A chain that is cut off is a chain.
LEMMA ChainPrefix ==
  ASSUME NEW s \in Seq(Drawing), NEW r \in Seq(Drawing), Chain(s \o r)
  PROVE  Chain(s)
<1>1. /\ DOMAIN s = 1..Len(s) /\ DOMAIN (s \o r) = 1..(Len(s) + Len(r))
      /\ Len(s) \in Nat /\ Len(r) \in Nat
      /\ \A k \in 1..Len(s) : (s \o r)[k] = s[k]
  BY ConcatProperties, LenProperties
<1> SUFFICES ASSUME NEW k \in 1..Len(s)
             PROVE  /\ Len(s[k]) >= 3 /\ Run(s[k])
                    /\ s[k][1] = IF k = 1 THEN 1 ELSE After(s[k - 1])
  BY <1>1 DEF Chain
<1>2. /\ Len((s \o r)[k]) >= 3 /\ Run((s \o r)[k])
      /\ (s \o r)[k][1] = IF k = 1 THEN 1 ELSE After((s \o r)[k - 1])
  BY <1>1 DEF Chain
<1>3. k # 1 => k - 1 \in 1..Len(s)
  BY <1>1
<1>4. QED
  BY <1>1, <1>2, <1>3

LEMMA InitChain == Init => ChainInv
<1> SUFFICES ASSUME Init PROVE ChainInv
  OBVIOUS
<1>1. Pipeline = << >>
  BY NoPoints, ConcatEmptySeq DEF Init, Pipeline
<1>2. QED
  BY <1>1, InitType, NoPoints DEF Init, ChainInv, Chain, GoesOn, EndOf

\* A drawn point goes on the run in SCRIBBLES, or starts it.
LEMMA DrawChain == ChainInv /\ Draw => ChainInv'
<1> SUFFICES ASSUME ChainInv, Draw PROVE ChainInv'
  OBVIOUS
<1> DEFINE n == Len(drawn) + 1
<1>1. TypeOK /\ TypeOK'
  BY DrawType DEF ChainInv
<1>2. /\ Pipeline' = Pipeline /\ fwd' = fwd
      /\ scribbles' = Append(scribbles, n) /\ Len(drawn') = Len(drawn) + 1
  <2>1. \E p : drawn' = Append(drawn, p)
    BY DEF Draw
  <2>2. Len(drawn') = Len(drawn) + 1
    BY <1>1, <2>1 DEF TypeOK
  <2>3. QED
    BY <2>2 DEF Draw, Pipeline, fwdVars
<1>3. ASSUME fwd # "dead" PROVE GoesOn'
  <2> DEFINE m == Len(scribbles)
             end == EndOf(Pipeline)
  <2>1. /\ end + m = n /\ m \in Nat /\ n \in Nat /\ scribbles \in Seq(Nat \ {0})
        /\ scribbles # << >> => Run(scribbles) /\ scribbles[1] = end
    BY <1>1, <1>3, LenProperties DEF ChainInv, GoesOn, TypeOK, Drawing
  <2>2. n \in Nat \ {0}
    BY <1>1 DEF TypeOK
  <2>3. /\ Len(scribbles') = m + 1 /\ scribbles'[m + 1] = n
        /\ \A i \in 1..m : scribbles'[i] = scribbles[i]
        /\ DOMAIN scribbles' = 1..(m + 1) /\ DOMAIN scribbles = 1..m
    BY <1>2, <2>1, <2>2, AppendProperties, LenProperties
  <2>4. CASE scribbles = << >>
    <3>0. m = 0
      BY <2>4, NoPoints
    <3>1. end = n /\ m + 1 = 1
      <4>1. end \in Int
        BY <1>1, PipelineType, EndType DEF ChainInv
      <4>2. QED
        BY <2>1, <3>0, <4>1
    <3>2. scribbles'[1] = end /\ DOMAIN scribbles' = 1..1
      BY <2>3, <3>1
    <3>3. Run(scribbles')
      BY <2>2, <3>1, <3>2 DEF Run
    <3>4. QED
      BY <1>2, <2>1, <2>3, <3>1, <3>2, <3>3 DEF GoesOn
  <2>5. CASE scribbles # << >>
    <3>1. m \in Nat \ {0}
      BY <2>1, <2>5, EmptySeq
    <3>2. scribbles[1] = end /\ \A i \in 1..m : scribbles[i] = scribbles[1] + i - 1
      BY <2>1, <2>3, <2>5 DEF Run
    <3>3. scribbles'[1] = end /\ end \in Nat
      <4>1. 1 \in 1..m
        BY <3>1
      <4>2. scribbles[1] \in Nat
        BY <2>1, <4>1, ElementOfSeq
      <4>3. QED
        BY <2>3, <3>2, <4>1, <4>2
    <3>4. \A i \in 1..(m + 1) : scribbles'[i] = scribbles'[1] + i - 1
      <4> TAKE i \in 1..(m + 1)
      <4>1. CASE i \in 1..m
        BY <2>3, <3>2, <3>3, <4>1
      <4>2. CASE i = m + 1
        BY <2>1, <2>3, <3>3, <4>2
      <4>3. QED
        BY <2>1, <4>1, <4>2
    <3>5. Run(scribbles')
      BY <2>3, <3>4 DEF Run
    <3>6. end + Len(scribbles') = Len(drawn') + 1
      <4>1. end + (m + 1) = n + 1
        BY <2>1, <3>3
      <4>2. QED
        BY <1>2, <2>3, <4>1
    <3>7. QED
      BY <1>2, <3>3, <3>5, <3>6 DEF GoesOn
  <2>6. QED
    BY <2>4, <2>5
<1>4. QED
  BY <1>1, <1>2, <1>3 DEF ChainInv

\* The drawing that a line becomes joins the end of the pipeline.
LEMMA LineEndsPipeline ==
  ASSUME TypeOK, LineEnds
  PROVE  \/ /\ UNCHANGED <<scribbles, queue>> /\ Pipeline' = Pipeline
            /\ fwd = "dead" \/ Len(scribbles) < 3
         \/ /\ fwd # "dead" /\ Len(scribbles) >= 3 /\ scribbles' = << >>
            /\ Pipeline' = Append(Pipeline, scribbles)
<1> DEFINE h == IF fwd = "sending" THEN <<hand>> ELSE << >>
<1>1. UNCHANGED <<fwd, hand, delivered>>
  BY DEF LineEnds, fwdVars
<1>2. CASE UNCHANGED <<scribbles, queue>> /\ (fwd = "dead" \/ Len(scribbles) < 3)
  BY <1>1, <1>2 DEF Pipeline
<1>3. CASE /\ fwd # "dead" /\ Len(scribbles) >= 3
           /\ queue' = Append(queue, scribbles) /\ scribbles' = << >>
  <2>1. /\ delivered \o h \in Seq(Drawing) /\ queue \in Seq(Drawing)
        /\ scribbles \in Drawing /\ <<scribbles>> \in Seq(Drawing)
        /\ Pipeline = (delivered \o h) \o queue /\ Pipeline \in Seq(Drawing)
    <3>1. h \in Seq(Drawing) /\ delivered \in Seq(Drawing)
      BY DEF TypeOK
    <3>2. QED
      BY <3>1, ConcatProperties, PipelineType DEF TypeOK, Pipeline
  <2>2. Append(queue, scribbles) = queue \o <<scribbles>>
    BY <2>1, AppendIsConcat
  <2>3. (delivered \o h) \o (queue \o <<scribbles>>) = Pipeline \o <<scribbles>>
    <3> DEFINE before == delivered \o h
               last == <<scribbles>>
    <3> HIDE DEF before, last
    <3>1. before \in Seq(Drawing) /\ queue \in Seq(Drawing) /\ last \in Seq(Drawing)
          /\ Pipeline = before \o queue
      BY <2>1 DEF before, last
    <3>2. before \o (queue \o last) = (before \o queue) \o last
      BY <3>1, ConcatAssociative, SMTT(60)
    <3>3. QED
      BY <3>1, <3>2, Zenon DEF before, last
  <2>4. Pipeline \o <<scribbles>> = Append(Pipeline, scribbles)
    BY <2>1, AppendIsConcat
  <2>5. Pipeline' = (delivered \o h) \o queue'
    BY <1>1 DEF Pipeline
  <2>6. QED
    BY <1>3, <2>2, <2>3, <2>4, <2>5
<1>4. QED
  <2>1. Len(scribbles) \in Nat
    BY LenProperties DEF TypeOK, Drawing
  <2>2. Len(scribbles) < 3 \/ Len(scribbles) >= 3
    BY <2>1
  <2>3. QED
    BY <1>2, <1>3, <2>2 DEF LineEnds, MaybeSendDrawing

LEMMA LineEndsChain == ChainInv /\ LineEnds => ChainInv'
<1> SUFFICES ASSUME ChainInv, LineEnds PROVE ChainInv'
  OBVIOUS
<1>1. TypeOK /\ TypeOK'
  BY LineEndsType DEF ChainInv
<1>2. UNCHANGED <<fwd, drawn>>
  BY DEF LineEnds, fwdVars
<1>3. CASE UNCHANGED <<scribbles, queue>> /\ Pipeline' = Pipeline
  BY <1>1, <1>2, <1>3 DEF ChainInv, GoesOn
<1>4. CASE /\ fwd # "dead" /\ Len(scribbles) >= 3 /\ scribbles' = << >>
           /\ Pipeline' = Append(Pipeline, scribbles)
  <2>1. /\ scribbles # << >> /\ Run(scribbles) /\ scribbles[1] = EndOf(Pipeline)
        /\ EndOf(Pipeline) + Len(scribbles) = Len(drawn) + 1
    BY <1>4, NoPoints DEF ChainInv, GoesOn
  <2>2. Pipeline \in Seq(Drawing) /\ scribbles \in Drawing
    BY <1>1, PipelineType DEF TypeOK
  <2>3. Chain(Pipeline') /\ EndOf(Pipeline') = scribbles[1] + Len(scribbles)
    BY <1>4, <2>1, <2>2, ChainAppend DEF ChainInv
  <2>4. GoesOn'
    <3>1. EndOf(Pipeline') + 0 = Len(drawn) + 1
      BY <1>1, <2>1, <2>3 DEF TypeOK
    <3>2. QED
      BY <1>2, <1>4, <3>1, NoPoints DEF GoesOn
  <2>5. QED
    BY <1>1, <2>3, <2>4 DEF ChainInv
<1>5. QED
  BY <1>1, <1>3, <1>4, LineEndsPipeline

\* What loop_fwd takes, holds and has sent stays in its place.
LEMMA ForwardingPipeline ==
  ASSUME TypeOK, Receive \/ Sent
  PROVE  Pipeline' = Pipeline
<1>1. delivered \in Seq(Drawing) /\ queue \in Seq(Drawing) /\ hand \in Drawing
  BY DEF TypeOK
<1>2. CASE Receive
  <2>1. /\ Pipeline = (delivered \o << >>) \o queue /\ queue # << >>
        /\ Pipeline' = (delivered \o <<Head(queue)>>) \o Tail(queue)
    BY <1>2 DEF Receive, Pipeline
  <2>2. Head(queue) \in Drawing /\ Tail(queue) \in Seq(Drawing)
        /\ <<Head(queue)>> \in Seq(Drawing)
    BY <1>1, <2>1, HeadTailProperties
  <2>3. queue = <<Head(queue)>> \o Tail(queue)
    BY <1>1, <2>1
  <2>4. (delivered \o <<Head(queue)>>) \o Tail(queue) = delivered \o (<<Head(queue)>> \o Tail(queue))
    BY <1>1, <2>2, ConcatAssociative
  <2>5. delivered \o << >> = delivered
    BY <1>1, ConcatEmptySeq
  <2>6. QED
    BY <2>1, <2>3, <2>4, <2>5
<1>3. CASE Sent
  <2>1. /\ Pipeline = (delivered \o <<hand>>) \o queue
        /\ Pipeline' = (Append(delivered, hand) \o << >>) \o queue
    BY <1>3 DEF Sent, Pipeline
  <2>2. Append(delivered, hand) = delivered \o <<hand>> /\ Append(delivered, hand) \in Seq(Drawing)
    BY <1>1, AppendIsConcat, Appended
  <2>3. Append(delivered, hand) \o << >> = Append(delivered, hand)
    BY <2>2, ConcatEmptySeq
  <2>4. QED
    BY <2>1, <2>2, <2>3
<1>4. QED
  BY <1>2, <1>3

LEMMA ForwardingChain == ChainInv /\ (Receive \/ Sent) => ChainInv'
<1> SUFFICES ASSUME ChainInv, Receive \/ Sent PROVE ChainInv'
  OBVIOUS
<1>1. TypeOK /\ TypeOK'
  BY NextType DEF ChainInv, Next
<1>2. Pipeline' = Pipeline
  BY <1>1, ForwardingPipeline
<1>3. fwd # "dead" /\ UNCHANGED <<scribbles, drawn>>
  BY DEF Receive, Sent, uiVars
<1>4. QED
  BY <1>1, <1>2, <1>3 DEF ChainInv, GoesOn

\* A failed send cuts the pipeline off behind what was published.
LEMMA SendingFailsChain == ChainInv /\ SendingFails => ChainInv'
<1> SUFFICES ASSUME ChainInv, SendingFails PROVE ChainInv'
  OBVIOUS
<1>1. TypeOK /\ TypeOK'
  BY NextType DEF ChainInv, Next
<1>2. /\ delivered \in Seq(Drawing) /\ queue \in Seq(Drawing) /\ hand \in Drawing
      /\ <<hand>> \in Seq(Drawing) /\ Append(delivered, hand) \in Seq(Drawing)
  BY <1>1, Appended DEF TypeOK
<1>3. Pipeline = (delivered \o <<hand>>) \o queue /\ fwd' = "dead"
  BY DEF SendingFails, Pipeline
<1>4. Append(delivered, hand) = delivered \o <<hand>>
  BY <1>2, AppendIsConcat
<1>5. Chain(Append(delivered, hand))
  BY <1>2, <1>3, <1>4, ChainPrefix DEF ChainInv
<1>6. Chain(delivered)
  BY <1>2, <1>4, <1>5, ChainPrefix
<1>7. Pipeline' = delivered'
  <2>1. Pipeline' = (delivered' \o << >>) \o << >>
    BY DEF SendingFails, Pipeline
  <2>2. delivered' \in Seq(Drawing)
    BY <1>1 DEF TypeOK
  <2>3. QED
    BY <2>1, <2>2, ConcatEmptySeq
<1>8. delivered' = delivered \/ delivered' = Append(delivered, hand)
  BY DEF SendingFails
<1>9. QED
  BY <1>1, <1>3, <1>5, <1>6, <1>7, <1>8 DEF ChainInv

LEMMA NextChain == ChainInv /\ [Next]_vars => ChainInv'
<1> SUFFICES ASSUME ChainInv, [Next]_vars PROVE ChainInv'
  OBVIOUS
<1>1. TypeOK'
  BY NextType DEF ChainInv
<1>2. CASE UNCHANGED <<scribbles, queue, fwd, hand, delivered, drawn>>
  <2>1. Pipeline' = Pipeline
    BY <1>2 DEF Pipeline
  <2>2. QED
    BY <1>1, <1>2, <2>1 DEF ChainInv, GoesOn
<1>3. CASE \/ OnBtn \/ (\E black \in BOOLEAN : ChangeTool(black))
           \/ (\E f \in Fingers, place \in Places : TouchScreen(f, place))
           \/ UNCHANGED vars
  BY <1>2, <1>3 DEF OnBtn, ChangeTool, TouchScreen, uiVars, fwdVars, vars
<1>4. QED
  BY <1>3, DrawChain, LineEndsChain, ForwardingChain, SendingFailsChain DEF Next

\* No point is lost, repeated or reordered on its way from the pen to the
\* server, whatever the buttons do and wherever loop_fwd dies.
THEOREM PointsKeepTheirOrder == Spec => []PointsInOrder
BY InitChain, NextChain, ChainIsOrder, PTL DEF Spec

-----------------------------------------------------------------------------
(* The server gets what module DrawingRelay promises.                      *)

\* A drawing ends at a lift, and there was none to end it earlier.
EndsAtLift(d) ==
  /\ d[Len(d)] \in Lifts
  /\ \A m \in Lifts : m < d[1] + 2 \/ m >= d[Len(d)]

\* The strengthening: no lift so far could have ended what is in SCRIBBLES,
\* and each drawing on its way was cut where the relay would cut it.
CutInv ==
  /\ ChainInv
  /\ \A i \in DOMAIN drawn : drawn[i].line < i
  /\ lifted <= Len(drawn)
  /\ lifted = Len(drawn) \/ drawn[Len(drawn)].line = lifted
  /\ fwd # "dead" =>
       /\ \A m \in Lifts : m < EndOf(Pipeline) + 2
       /\ \A k \in DOMAIN Pipeline : EndsAtLift(Pipeline[k])

LEMMA LiftsAreDrawn ==
  ASSUME CutInv
  PROVE  \A m \in Lifts : m \in Nat /\ m <= Len(drawn)
<1>1. drawn \in Seq(Point) /\ lifted \in Nat /\ lifted <= Len(drawn)
  BY DEF CutInv, ChainInv, TypeOK
<1>2. ASSUME NEW i \in DOMAIN drawn PROVE drawn[i].line \in Nat /\ drawn[i].line <= Len(drawn)
  <2>1. i \in 1..Len(drawn) /\ Len(drawn) \in Nat
    BY <1>1, LenProperties
  <2>2. drawn[i] \in Point
    BY <1>1, <2>1, ElementOfSeq
  <2>3. drawn[i].line \in Nat /\ drawn[i].line < i
    BY <2>2 DEF Point, CutInv
  <2>4. QED
    BY <2>1, <2>3
<1>3. QED
  BY <1>1, <1>2 DEF Lifts

\* A point belongs to the line of the last lift.
LEMMA DrawLifts ==
  ASSUME CutInv, Draw
  PROVE  /\ Lifts' = Lifts /\ Len(drawn') = Len(drawn) + 1 /\ lifted' = lifted
         /\ \A i \in DOMAIN drawn' : drawn'[i].line < i
         /\ drawn'[Len(drawn')].line = lifted
<1>1. drawn \in Seq(Point) /\ lifted \in Nat /\ lifted <= Len(drawn) /\ TypeOK'
  BY DrawType DEF CutInv, ChainInv, TypeOK
<1>2. PICK p : p.line = lifted /\ drawn' = Append(drawn, p)
  BY DEF Draw
<1>3. lifted' = lifted
  BY DEF Draw
<1>4. /\ Len(drawn) \in Nat /\ DOMAIN drawn = 1..Len(drawn)
      /\ Len(drawn') = Len(drawn) + 1 /\ DOMAIN drawn' = 1..(Len(drawn) + 1)
      /\ \A i \in 1..Len(drawn) : drawn'[i] = drawn[i]
      /\ drawn'[Len(drawn) + 1] = p
  BY <1>1, <1>2, LenProperties
<1>5. ASSUME NEW i \in DOMAIN drawn' PROVE drawn'[i].line < i
  <2>1. CASE i \in 1..Len(drawn)
    BY <1>4, <2>1 DEF CutInv
  <2>2. CASE i = Len(drawn) + 1
    BY <1>1, <1>2, <1>4, <2>2
  <2>3. QED
    BY <1>4, <2>1, <2>2
<1>6. \A m : m \in Lifts' <=> m \in Lifts
  <2>1. \A i \in DOMAIN drawn' : i \in DOMAIN drawn \/ i = Len(drawn) + 1
    BY <1>4
  <2>2. \A i \in DOMAIN drawn : i \in DOMAIN drawn' /\ drawn'[i] = drawn[i]
    BY <1>4
  <2>3. QED
    BY <1>2, <1>3, <1>4, <2>1, <2>2 DEF Lifts
<1>7. Lifts' = Lifts
  <2>1. Lifts' \subseteq Lifts /\ Lifts \subseteq Lifts'
    BY <1>6
  <2>2. QED
    BY <2>1
<1>8. QED
  BY <1>2, <1>3, <1>4, <1>5, <1>7

\* The lift before the last is not forgotten: a point was drawn in between.
LEMMA LineEndsLifts ==
  ASSUME CutInv, LineEnds
  PROVE  Lifts' = Lifts \cup {Len(drawn)}
<1>1. /\ drawn' = drawn /\ lifted' = Len(drawn) /\ drawn \in Seq(Point)
      /\ lifted \in Nat /\ lifted <= Len(drawn)
  BY DEF LineEnds, CutInv, ChainInv, TypeOK
<1>2. lifted = Len(drawn) \/ \E i \in DOMAIN drawn : drawn[i].line = lifted
  <2>1. CASE lifted # Len(drawn)
    <3>1. Len(drawn) \in Nat /\ DOMAIN drawn = 1..Len(drawn)
      BY <1>1, LenProperties
    <3>2. Len(drawn) \in DOMAIN drawn
      BY <1>1, <2>1, <3>1
    <3>3. QED
      BY <2>1, <3>2 DEF CutInv
  <2>2. QED
    BY <2>1
<1>3. QED
  BY <1>1, <1>2 DEF Lifts

LEMMA LineEndsCut == CutInv /\ LineEnds => CutInv'
<1> SUFFICES ASSUME CutInv, LineEnds PROVE CutInv'
  OBVIOUS
<1> DEFINE n == Len(drawn)
           end == EndOf(Pipeline)
<1>1. ChainInv /\ ChainInv' /\ TypeOK /\ Chain(Pipeline)
  BY LineEndsChain DEF CutInv, ChainInv
<1>2. drawn' = drawn /\ lifted' = n /\ fwd' = fwd /\ drawn \in Seq(Point) /\ n \in Nat
  BY <1>1, LenProperties DEF LineEnds, fwdVars, TypeOK
<1>3. Lifts' = Lifts \cup {n} /\ \A m \in Lifts : m \in Nat /\ m <= n
  BY LineEndsLifts, LiftsAreDrawn
<1>4. Pipeline \in Seq(Drawing) /\ end \in Nat /\ scribbles \in Drawing
  BY <1>1, PipelineType, EndType DEF TypeOK
<1> HIDE DEF n
<1>5. ASSUME fwd # "dead"
      PROVE  /\ \A m \in Lifts' : m < EndOf(Pipeline') + 2
             /\ \A k \in DOMAIN Pipeline' : EndsAtLift(Pipeline[k])'
  <2>1. /\ end + Len(scribbles) = n + 1 /\ Len(scribbles) \in Nat
        /\ scribbles # << >> => Run(scribbles) /\ scribbles[1] = end
        /\ \A m \in Lifts : m < end + 2
    BY <1>1, <1>4, <1>5, LenProperties DEF ChainInv, GoesOn, CutInv, n, Drawing
  <2>2. ASSUME NEW k \in DOMAIN Pipeline
        PROVE  /\ Pipeline[k][Len(Pipeline[k])] \in Lifts'
               /\ \A m \in Lifts' : m < Pipeline[k][1] + 2 \/ m >= Pipeline[k][Len(Pipeline[k])]
    <3>1. /\ Pipeline[k][Len(Pipeline[k])] \in Lifts
          /\ \A m \in Lifts : m < Pipeline[k][1] + 2 \/ m >= Pipeline[k][Len(Pipeline[k])]
      BY <1>5, <2>2 DEF CutInv, EndsAtLift
    <3>2. n >= Pipeline[k][Len(Pipeline[k])]
      BY <1>2, <1>3, <3>1
    <3>3. QED
      BY <1>3, <3>1, <3>2
  <2>3. CASE Pipeline' = Pipeline /\ Len(scribbles) < 3
    <3>1. n < end + 2
      BY <1>2, <1>4, <2>1, <2>3
    <3>2. \A m \in Lifts' : m < end + 2
      BY <1>3, <2>1, <3>1
    <3>3. QED
      BY <2>2, <2>3, <3>2 DEF EndsAtLift
  <2>4. CASE Len(scribbles) >= 3 /\ Pipeline' = Append(Pipeline, scribbles)
    <3>1. scribbles # << >>
      BY <2>4, NoPoints
    <3>2. Run(scribbles) /\ scribbles[1] = end /\ EndOf(Pipeline') = end + Len(scribbles)
      BY <1>1, <1>4, <2>1, <2>4, <3>1, ChainAppend
    <3>3. scribbles[Len(scribbles)] = n
      <4>1. Len(scribbles) \in DOMAIN scribbles
        BY <1>4, <2>1, <2>4, LenProperties DEF Drawing
      <4>2. scribbles[Len(scribbles)] = end + Len(scribbles) - 1
        BY <3>2, <4>1 DEF Run
      <4>3. QED
        BY <1>2, <1>4, <2>1, <4>2
    <3>4. \A m \in Lifts' : m < EndOf(Pipeline') + 2
      BY <1>2, <1>3, <2>1, <3>2
    <3>5. scribbles[Len(scribbles)] \in Lifts' /\
          \A m \in Lifts' : m < scribbles[1] + 2 \/ m >= scribbles[Len(scribbles)]
      BY <1>2, <1>3, <2>1, <3>2, <3>3
    <3>6. ASSUME NEW k \in DOMAIN Pipeline'
          PROVE  EndsAtLift(Pipeline[k])'
      <4>1. /\ DOMAIN Pipeline = 1..Len(Pipeline) /\ Len(Pipeline) \in Nat
            /\ DOMAIN Pipeline' = 1..(Len(Pipeline) + 1)
            /\ \A j \in 1..Len(Pipeline) : Pipeline'[j] = Pipeline[j]
            /\ Pipeline'[Len(Pipeline) + 1] = scribbles
        BY <1>4, <2>4, AppendProperties, LenProperties
      <4>2. CASE k \in DOMAIN Pipeline
        <5>1. Pipeline'[k] = Pipeline[k]
          BY <4>1, <4>2
        <5>2. QED
          BY <2>2, <4>2, <5>1 DEF EndsAtLift
      <4>3. CASE k = Len(Pipeline) + 1
        <5>1. Pipeline'[k] = scribbles
          BY <4>1, <4>3
        <5>2. QED
          BY <3>5, <5>1 DEF EndsAtLift
      <4>4. QED
        BY <4>1, <4>2, <4>3
    <3>7. QED
      BY <3>4, <3>6
  <2>5. QED
    BY <1>1, <1>5, <2>3, <2>4, LineEndsPipeline
<1>6. /\ \A i \in DOMAIN drawn' : drawn'[i].line < i
      /\ lifted' <= Len(drawn')
      /\ lifted' = Len(drawn') \/ drawn'[Len(drawn')].line = lifted'
  BY <1>2 DEF CutInv, n
<1>7. QED
  BY <1>1, <1>2, <1>5, <1>6 DEF CutInv

LEMMA CutInit == Init => CutInv
<1> SUFFICES ASSUME Init PROVE CutInv
  OBVIOUS
<1>1. Pipeline = << >> /\ drawn = << >> /\ DOMAIN drawn = {} /\ lifted = 0 /\ Lifts = {0}
  BY NoPoints, ConcatEmptySeq, EmptySeq DEF Init, Pipeline, Lifts
<1>2. EndOf(Pipeline) = 1 /\ DOMAIN Pipeline = {} /\ Len(drawn) = 0
  BY <1>1, NoPoints, EmptySeq DEF EndOf
<1>3. QED
  BY <1>1, <1>2, InitChain DEF CutInv

LEMMA CutNext == CutInv /\ [Next]_vars => CutInv'
<1> SUFFICES ASSUME CutInv, [Next]_vars PROVE CutInv'
  OBVIOUS
<1>1. ChainInv /\ ChainInv' /\ TypeOK
  BY NextChain DEF CutInv, ChainInv
<1>2. CASE Draw
  <2>1. Pipeline' = Pipeline /\ fwd' = fwd
    BY <1>2 DEF Draw, Pipeline, fwdVars
  <2>2. /\ Lifts' = Lifts /\ Len(drawn') = Len(drawn) + 1 /\ lifted' = lifted
        /\ \A i \in DOMAIN drawn' : drawn'[i].line < i
        /\ drawn'[Len(drawn')].line = lifted
    BY <1>2, DrawLifts
  <2>3. lifted' <= Len(drawn')
    <3>1. Len(drawn) \in Nat /\ lifted \in Nat /\ lifted <= Len(drawn)
      BY <1>1, LenProperties DEF TypeOK, CutInv
    <3>2. QED
      BY <2>2, <3>1
  <2>4. QED
    BY <1>1, <2>1, <2>2, <2>3 DEF CutInv, EndsAtLift
<1>3. CASE UNCHANGED <<drawn, lifted>> /\ (fwd' = "dead" \/ (Pipeline' = Pipeline /\ fwd # "dead"))
  <2>1. Lifts' = Lifts
    BY <1>3 DEF Lifts
  <2>2. QED
    BY <1>1, <1>3, <2>1 DEF CutInv, EndsAtLift
<1>4. CASE Receive \/ Sent \/ SendingFails
  BY <1>1, <1>3, <1>4, ForwardingPipeline DEF Receive, Sent, SendingFails, uiVars
<1>5. CASE UNCHANGED <<queue, fwd, hand, delivered, drawn, lifted>>
  BY <1>3, <1>5 DEF Pipeline
<1>6. CASE \/ OnBtn \/ (\E black \in BOOLEAN : ChangeTool(black))
           \/ (\E f \in Fingers, place \in Places : TouchScreen(f, place))
           \/ UNCHANGED vars
  BY <1>5, <1>6 DEF OnBtn, ChangeTool, TouchScreen, uiVars, fwdVars, vars
<1>7. QED
  BY <1>2, <1>4, <1>6, LineEndsCut DEF Next

\* The drawing in hand is the one the relay sends next.
LEMMA HandIsCut ==
  ASSUME CutInv, fwd = "sending"
  PROVE  LET m == hand[Len(hand)]
         IN  m \in Lifts /\ Relay!Cut(m) /\ Relay!Drawing(m) = hand
<1> DEFINE m == hand[Len(hand)]
           d == Len(delivered)
<1>1. /\ TypeOK /\ delivered \in Seq(Drawing) /\ queue \in Seq(Drawing) /\ hand \in Drawing
      /\ <<hand>> \in Seq(Drawing) /\ Append(delivered, hand) \in Seq(Drawing)
  BY Appended DEF CutInv, ChainInv, TypeOK
<1>2. Pipeline = Append(delivered, hand) \o queue
  <2>1. Pipeline = (delivered \o <<hand>>) \o queue
    BY DEF Pipeline
  <2>2. Append(delivered, hand) = delivered \o <<hand>>
    BY <1>1, AppendIsConcat
  <2>3. QED
    BY <2>1, <2>2
<1>3. /\ d \in Nat /\ Len(Append(delivered, hand)) = d + 1
      /\ Append(delivered, hand)[d + 1] = hand
      /\ \A k \in 1..d : Append(delivered, hand)[k] = delivered[k]
  BY <1>1, AppendProperties, LenProperties
<1>4. /\ d + 1 \in DOMAIN Pipeline /\ Pipeline[d + 1] = hand
      /\ \A k \in 1..d : Pipeline[k] = delivered[k]
  <2>1. /\ DOMAIN Pipeline = 1..(d + 1 + Len(queue)) /\ Len(queue) \in Nat
        /\ \A k \in 1..(d + 1) : Pipeline[k] = Append(delivered, hand)[k]
    BY <1>1, <1>2, <1>3, ConcatProperties, LenProperties
  <2>2. QED
    BY <1>3, <2>1
<1> HIDE DEF m, d
<1>5. /\ Len(hand) >= 3 /\ Run(hand)
      /\ hand[1] = IF d + 1 = 1 THEN 1 ELSE After(Pipeline[(d + 1) - 1])
  BY <1>4 DEF CutInv, ChainInv, Chain
<1>6. Relay!Done \in Int /\ hand[1] = Relay!Done + 1
  <2>1. CASE delivered = << >>
    <3>1. d = 0
      BY <2>1, NoPoints DEF d
    <3>2. QED
      BY <1>5, <2>1, <3>1 DEF Relay!Done
  <2>2. CASE delivered # << >>
    <3>1. d \in Nat \ {0}
      BY <1>1, <2>2, EmptySeq, LenProperties DEF d
    <3>2. d \in 1..d /\ d + 1 # 1 /\ (d + 1) - 1 = d /\ d \in DOMAIN Pipeline
      <4>1. DOMAIN Pipeline = 1..Len(Pipeline) /\ Len(Pipeline) \in Nat
        BY <1>1, PipelineType, LenProperties
      <4>2. QED
        BY <1>4, <3>1, <4>1
    <3>3. Pipeline[d] = delivered[d] /\ hand[1] = After(delivered[d])
      BY <1>4, <1>5, <3>2
    <3>4. delivered[d] \in Drawing /\ Len(delivered[d]) >= 3
      BY <1>1, <3>2, <3>3, ElementOfSeq DEF d, CutInv, ChainInv, Chain
    <3>5. delivered[d][Len(delivered[d])] \in Nat
      BY <3>4, ElementOfSeq, LenProperties DEF Drawing
    <3>6. Relay!Done = delivered[d][Len(delivered[d])]
      BY <2>2 DEF Relay!Done, d
    <3>7. QED
      BY <3>3, <3>5, <3>6 DEF After
  <2>3. QED
    BY <2>1, <2>2
<1>7. /\ DOMAIN hand = 1..Len(hand) /\ Len(hand) \in Nat
      /\ \A i \in 1..Len(hand) : hand[i] = Relay!Done + i
      /\ hand = [i \in 1..Len(hand) |-> hand[i]]
  <2>1. DOMAIN hand = 1..Len(hand) /\ Len(hand) \in Nat
    BY <1>1, LenProperties DEF Drawing
  <2>2. \A i \in 1..Len(hand) : hand[i] = Relay!Done + i
    BY <1>5, <1>6, <2>1 DEF Run
  <2>3. hand = [i \in 1..Len(hand) |-> hand[i]]
    BY <1>1, <2>1 DEF Drawing
  <2>4. QED
    BY <2>1, <2>2, <2>3
<1>8. m = Relay!Done + Len(hand) /\ m \in Lifts
      /\ \A k \in Lifts : k < hand[1] + 2 \/ k >= m
  BY <1>4, <1>5, <1>7 DEF CutInv, EndsAtLift, m
<1>9. Relay!Cut(m)
  <2>1. m >= Relay!Done + 3
    BY <1>5, <1>6, <1>7, <1>8
  <2>2. ASSUME NEW k \in Lifts, k >= Relay!Done + 3 PROVE m <= k
    <3>1. k \in Nat /\ m \in Int
      BY <1>6, <1>7, <1>8, LiftsAreDrawn
    <3>2. ~(k < hand[1] + 2)
      BY <1>6, <2>2, <3>1
    <3>3. QED
      BY <1>8, <3>1, <3>2
  <2>3. QED
    BY <1>8, <2>1, <2>2 DEF Relay!Cut, Relay!Enough
<1>10. Relay!Drawing(m) = hand
  <2>1. m - Relay!Done = Len(hand)
    BY <1>6, <1>7, <1>8
  <2>2. Relay!Drawing(m) = [i \in 1..Len(hand) |-> Relay!Done + i]
    BY <2>1 DEF Relay!Drawing
  <2>3. QED
    BY <1>7, <2>2
<1>11. QED
  BY <1>8, <1>9, <1>10 DEF m

LEMMA RelayStep == CutInv /\ [Next]_vars => [Relay!Next]_(Relay!relayVars)
<1> SUFFICES ASSUME CutInv, [Next]_vars
             PROVE  Relay!Next \/ UNCHANGED <<Len(drawn), Lifts, delivered, fwd # "dead">>
  BY DEF Relay!relayVars
<1>1. CASE Draw
  <2>1. UNCHANGED <<delivered, fwd>>
    BY <1>1 DEF Draw, fwdVars
  <2>2. Relay!Draw
    BY <1>1, <2>1, DrawLifts DEF Relay!Draw
  <2>3. QED
    BY <2>2 DEF Relay!Next
<1>2. CASE LineEnds
  <2>1. UNCHANGED <<delivered, fwd, drawn>>
    BY <1>2 DEF LineEnds, fwdVars
  <2>2. Relay!Lift
    BY <1>2, <2>1, LineEndsLifts DEF Relay!Lift
  <2>3. QED
    BY <2>2 DEF Relay!Next
<1>3. CASE UNCHANGED <<drawn, lifted>>
  <2>0. Lifts' = Lifts /\ Len(drawn') = Len(drawn)
    BY <1>3 DEF Lifts
  <2>1. CASE Sent
    <3>1. fwd = "sending" /\ fwd' = "recv" /\ delivered' = Append(delivered, hand)
      BY <2>1 DEF Sent
    <3>2. \E m \in Lifts : Relay!Sends(m)
      BY <3>1, HandIsCut DEF Relay!Sends
    <3>3. Relay!Send
      BY <2>0, <3>1, <3>2 DEF Relay!Send
    <3>4. QED
      BY <3>3 DEF Relay!Next
  <2>2. CASE SendingFails
    <3>1. /\ fwd = "sending" /\ fwd' = "dead"
          /\ delivered' = delivered \/ delivered' = Append(delivered, hand)
      BY <2>2 DEF SendingFails
    <3>2. (\E m \in Lifts : Relay!Sends(m)) \/ delivered' = delivered
      BY <3>1, HandIsCut DEF Relay!Sends
    <3>3. Relay!Break
      BY <2>0, <3>1, <3>2 DEF Relay!Break
    <3>4. QED
      BY <3>3 DEF Relay!Next
  <2>3. CASE Receive
    BY <2>0, <2>3 DEF Receive
  <2>4. CASE UNCHANGED <<delivered, fwd>>
    BY <2>0, <2>4
  <2>5. CASE \/ OnBtn \/ (\E black \in BOOLEAN : ChangeTool(black))
             \/ (\E f \in Fingers, place \in Places : TouchScreen(f, place))
             \/ UNCHANGED vars
    BY <2>4, <2>5 DEF OnBtn, ChangeTool, TouchScreen, fwdVars, vars
  <2>6. CASE Draw \/ LineEnds
    BY <1>1, <1>2, <2>6
  <2>7. QED
    BY <2>1, <2>2, <2>3, <2>5, <2>6 DEF Next
<1>4. UNCHANGED <<drawn, lifted>> \/ Draw \/ LineEnds
  BY DEF Next, OnBtn, ChangeTool, TouchScreen, Receive, Sent, SendingFails, uiVars, vars
<1>5. QED
  BY <1>1, <1>2, <1>3, <1>4

\* The tablet implements the relay: for any number of points, lifts, touches
\* and changes of tool, the server gets gapless drawings cut at the first
\* lift that leaves three points, and nothing more once loop_fwd is dead.
THEOREM RelayRefinement == Spec => ImplementsRelay
<1>1. Init => Relay!Init
  <2> SUFFICES ASSUME Init PROVE Relay!Init
    OBVIOUS
  <2>1. DOMAIN drawn = {} /\ Len(drawn) = 0
    BY EmptySeq, NoPoints DEF Init
  <2>2. Lifts = {0}
    BY <2>1 DEF Init, Lifts
  <2>3. QED
    BY <2>1, <2>2 DEF Init, Relay!Init
<1>2. QED
  BY <1>1, CutInit, CutNext, RelayStep, PTL DEF Spec, ImplementsRelay, Relay!Spec

-----------------------------------------------------------------------------
(* No segment falls between two drawings.                                  *)

\* WACOM_HISTORY is the end of SCRIBBLES.
WacomIsSuffix ==
  /\ Len(wacom) <= Len(scribbles)
  /\ \A i \in 1..Len(wacom) : wacom[i] = scribbles[Len(scribbles) - Len(wacom) + i]

Reaches(p) == Inside(p, scribbles) \/ \E k \in DOMAIN Pipeline : Inside(p, Pipeline[k])

SegmentInv ==
  /\ TypeOK
  /\ fwd # "dead" => WacomIsSuffix /\ \A p \in painted : Reaches(p)

\* Three successive points of a sequence.
LEMMA SubThree ==
  ASSUME NEW S, NEW s, NEW i \in Int, s[i] \in S, s[i + 1] \in S, s[i + 2] \in S
  PROVE  SubSeq(s, i, i + 2) = <<s[i], s[i + 1], s[i + 2]>>
<1> DEFINE u == SubSeq(s, i, i + 2)
           v == <<s[i], s[i + 1], s[i + 2]>>
<1>1. \A o \in i..(i + 2) : s[o] \in S
  <2> TAKE o \in i..(i + 2)
  <2>1. o = i \/ o = i + 1 \/ o = i + 2
    OBVIOUS
  <2>2. QED
    BY <2>1
<1>2. u \in Seq(S) /\ Len(u) = 3 /\ \A n \in 1..3 : u[n] = s[i + n - 1]
  <2>1. /\ i + 2 \in Int /\ i <= i + 2 /\ (i + 2) - i + 1 = 3
    OBVIOUS
  <2>2. QED
    BY <1>1, <2>1, SubSeqProperties
<1>3. v \in Seq(S) /\ Len(v) = 3 /\ v[1] = s[i] /\ v[2] = s[i + 1] /\ v[3] = s[i + 2]
  OBVIOUS
<1>4. \A n \in 1..3 : u[n] = v[n]
  <2> TAKE n \in 1..3
  <2>1. n = 1 \/ n = 2 \/ n = 3
    OBVIOUS
  <2>2. i + 1 - 1 = i /\ i + 2 - 1 = i + 1 /\ i + 3 - 1 = i + 2
    OBVIOUS
  <2>3. QED
    BY <1>2, <1>3, <2>1, <2>2
<1> HIDE DEF u, v
<1>5. u = v
  BY <1>2, <1>3, <1>4, SeqEqual
<1>6. QED
  BY <1>5 DEF u, v

\* More points behind leave a segment where it was.
LEMMA InsideGrows ==
  ASSUME NEW d \in Drawing, NEW n \in Nat \ {0}, NEW p, Inside(p, d)
  PROVE  Inside(p, Append(d, n))
<1> DEFINE a == Append(d, n)
<1>1. /\ Len(d) \in Nat /\ Len(a) = Len(d) + 1
      /\ \A i \in 1..Len(d) : a[i] = d[i] /\ d[i] \in Nat
  BY AppendProperties, LenProperties, ElementOfSeq DEF Drawing
<1>2. PICK i \in 1..(Len(d) - 2) : p.pts = SubSeq(d, i, i + 2)
  BY DEF Inside
<1>3. i \in 1..Len(d) /\ i + 1 \in 1..Len(d) /\ i + 2 \in 1..Len(d) /\ i \in 1..(Len(a) - 2)
  BY <1>1
<1> HIDE DEF a
<1>4. a[i] = d[i] /\ a[i + 1] = d[i + 1] /\ a[i + 2] = d[i + 2]
  BY <1>1, <1>3
<1>5. d[i] \in Nat /\ d[i + 1] \in Nat /\ d[i + 2] \in Nat /\ i \in Int
  BY <1>1, <1>3
<1>6. SubSeq(d, i, i + 2) = <<d[i], d[i + 1], d[i + 2]>>
  BY <1>5, SubThree
<1>7. SubSeq(a, i, i + 2) = <<a[i], a[i + 1], a[i + 2]>>
  BY <1>4, <1>5, SubThree
<1>8. p.pts = SubSeq(a, i, i + 2)
  BY <1>2, <1>4, <1>6, <1>7
<1>9. QED
  BY <1>3, <1>8 DEF Inside, a

LEMMA DrawSegment == SegmentInv /\ Draw => SegmentInv'
<1> SUFFICES ASSUME SegmentInv, Draw PROVE SegmentInv'
  OBVIOUS
<1> DEFINE white == ~penBlack \/ IsPressed("erase")
           wide == IsPressed("times3")
<1>1. TypeOK /\ TypeOK'
  BY DrawType DEF SegmentInv
<1>2. PICK n, m, w \in Nat : n = Len(drawn) + 1 /\ m = Len(scribbles) /\ w = Len(wacom)
  <2>1. Len(drawn) \in Nat /\ Len(scribbles) \in Nat /\ Len(wacom) \in Nat
    BY <1>1, LenProperties DEF TypeOK, Drawing
  <2>2. QED
    BY <2>1
<1> DEFINE line == Append(wacom, n)
<1>3. /\ n \in Nat \ {0} /\ w \in 0..2
      /\ wacom \in Seq(Nat \ {0}) /\ scribbles \in Seq(Nat \ {0})
  <2>1. w < 3
    BY <1>1, <1>2 DEF TypeOK
  <2>2. Len(drawn) \in Nat
    BY <1>1, LenProperties DEF TypeOK
  <2>3. n \in Nat \ {0}
    BY <1>2, <2>2
  <2>4. w \in 0..2
    BY <1>2, <2>1
  <2>5. wacom \in Seq(Nat \ {0}) /\ scribbles \in Seq(Nat \ {0})
    BY <1>1 DEF TypeOK, Drawing
  <2>6. QED
    BY <2>3, <2>4, <2>5
<1>4. /\ Pipeline' = Pipeline /\ fwd' = fwd /\ scribbles' = Append(scribbles, n)
  BY <1>2 DEF Draw, Pipeline, fwdVars
<1>5. /\ Len(scribbles') = m + 1 /\ scribbles'[m + 1] = n
      /\ \A i \in 1..m : scribbles'[i] = scribbles[i]
      /\ scribbles' \in Drawing
  BY <1>2, <1>3, <1>4, AppendProperties DEF Drawing
<1>6. /\ Len(line) = w + 1 /\ line[w + 1] = n
      /\ \A i \in 1..w : line[i] = wacom[i]
      /\ line \in Seq(Nat \ {0})
  BY <1>2, <1>3, AppendProperties
<1>7. IF w + 1 >= 3
      THEN /\ painted' = painted \cup {Segment(line, white, [i \in 1..3 |-> wide])}
           /\ wacom' = Tail(line)
      ELSE wacom' = line /\ painted' = painted
  BY <1>2, <1>6 DEF Draw, Shifted
<1> HIDE DEF line
<1>8. ASSUME fwd # "dead" PROVE WacomIsSuffix' /\ \A p \in painted' : Reaches(p)'
  <2>1. w <= m /\ \A i \in 1..w : wacom[i] = scribbles[m - w + i]
    BY <1>2, <1>8 DEF SegmentInv, WacomIsSuffix
  <2>2. \A i \in 1..(w + 1) : line[i] = scribbles'[(m - w) + i]
    <3> TAKE i \in 1..(w + 1)
    <3>1. CASE i \in 1..w
      <4>1. m - w + i \in 1..m /\ m - w + i = (m - w) + i
        BY <1>3, <2>1, <3>1
      <4>2. QED
        BY <1>5, <1>6, <2>1, <3>1, <4>1
    <3>2. CASE i = w + 1
      <4>1. (m - w) + i = m + 1
        BY <1>3, <3>2
      <4>2. QED
        BY <1>5, <1>6, <3>2, <4>1
    <3>3. QED
      BY <1>3, <3>1, <3>2
  <2>3. \A p \in painted : Reaches(p)'
    <3> TAKE p \in painted
    <3>1. Reaches(p)
      BY <1>8 DEF SegmentInv
    <3>2. Inside(p, scribbles) => Inside(p, scribbles')
      BY <1>3, <1>4, InsideGrows DEF Drawing
    <3>3. QED
      BY <1>4, <3>1, <3>2 DEF Reaches
  <2>4. CASE w = 2
    <3>1. /\ painted' = painted \cup {Segment(line, white, [i \in 1..3 |-> wide])}
          /\ wacom' = Tail(line) /\ Len(line) = 3
      <4>1. w + 1 >= 3 /\ w + 1 = 3
        BY <2>4
      <4>2. QED
        BY <1>6, <1>7, <4>1
    <3>2. Len(wacom') = 2 /\ \A i \in 1..2 : wacom'[i] = line[i + 1]
      <4>1. line # << >>
        BY <3>1, NoPoints
      <4>2. Len(Tail(line)) = 2 /\ \A i \in 1..2 : Tail(line)[i] = line[i + 1]
        <5>1. /\ Len(Tail(line)) = Len(line) - 1
              /\ \A i \in 1..Len(Tail(line)) : Tail(line)[i] = line[i + 1]
          BY <1>6, <4>1, HeadTailProperties
        <5>2. Len(Tail(line)) = 2
          BY <3>1, <5>1
        <5>3. QED
          BY <5>1, <5>2
      <4>3. QED
        BY <3>1, <4>2
    <3>3. WacomIsSuffix'
      <4>1. 2 <= m + 1
        BY <2>1, <2>4
      <4>2. ASSUME NEW i \in 1..2 PROVE wacom'[i] = scribbles'[(m + 1) - 2 + i]
        <5>1. i + 1 \in 1..(w + 1) /\ (m - w) + (i + 1) = (m + 1) - 2 + i
          BY <2>4
        <5>2. QED
          BY <2>2, <3>2, <5>1
      <4>3. QED
        BY <1>5, <3>2, <4>1, <4>2 DEF WacomIsSuffix
    <3>4. Inside(Segment(line, white, [i \in 1..3 |-> wide]), scribbles')
      <4>1. line[1] = scribbles'[m - 1] /\ line[2] = scribbles'[m] /\ line[3] = scribbles'[m + 1]
        <5>1. /\ 1 \in 1..(w + 1) /\ 2 \in 1..(w + 1) /\ 3 \in 1..(w + 1)
              /\ (m - w) + 1 = m - 1 /\ (m - w) + 2 = m /\ (m - w) + 3 = m + 1
          BY <2>4
        <5>2. QED
          BY <2>2, <5>1
      <4>2. line[1] \in Nat \ {0} /\ line[2] \in Nat \ {0} /\ line[3] \in Nat \ {0}
        <5>1. 1 \in 1..Len(line) /\ 2 \in 1..Len(line) /\ 3 \in 1..Len(line)
          BY <3>1
        <5>2. QED
          BY <1>6, <5>1, ElementOfSeq
      <4>3. line = <<line[1], line[2], line[3]>>
        <5> DEFINE v == <<line[1], line[2], line[3]>>
        <5>1. v \in Seq(Nat \ {0}) /\ Len(v) = 3 /\ v[1] = line[1] /\ v[2] = line[2] /\ v[3] = line[3]
          BY <4>2
        <5> HIDE DEF v
        <5>2. \A i \in 1..3 : line[i] = v[i]
          <6> TAKE i \in 1..3
          <6>1. i = 1 \/ i = 2 \/ i = 3
            OBVIOUS
          <6>2. QED
            BY <5>1, <6>1
        <5>3. line = v
          BY <1>6, <3>1, <5>1, <5>2, SeqEqual
        <5>4. QED
          BY <5>3 DEF v
      <4>4. m - 1 \in Int /\ (m - 1) + 1 = m /\ (m - 1) + 2 = m + 1
        OBVIOUS
      <4>5. SubSeq(scribbles', m - 1, (m - 1) + 2) = <<scribbles'[m - 1], scribbles'[m], scribbles'[m + 1]>>
        BY <4>1, <4>2, <4>4, SubThree
      <4>6. line = SubSeq(scribbles', m - 1, (m - 1) + 2)
        BY <4>1, <4>3, <4>5
      <4>7. m - 1 \in 1..(Len(scribbles') - 2)
        BY <1>5, <2>1, <2>4
      <4>8. Segment(line, white, [i \in 1..3 |-> wide]).pts = line
        BY DEF Segment
      <4>9. QED
        BY <4>6, <4>7, <4>8 DEF Inside
    <3>5. QED
      BY <2>3, <3>1, <3>3, <3>4 DEF Reaches
  <2>5. CASE w # 2
    <3>1. wacom' = line /\ painted' = painted /\ Len(line) = w + 1
      BY <1>3, <1>6, <1>7, <2>5
    <3>2. w + 1 <= m + 1 /\ (m + 1) - (w + 1) = m - w
      BY <1>3, <2>1
    <3>3. WacomIsSuffix'
      BY <1>5, <2>2, <3>1, <3>2 DEF WacomIsSuffix
    <3>4. QED
      BY <2>3, <3>1, <3>3
  <2>6. QED
    BY <2>4, <2>5
<1>9. QED
  BY <1>1, <1>4, <1>8 DEF SegmentInv

\* Both stacks are cut at the end of a line: a segment is in the drawing that
\* goes, or still in SCRIBBLES.
LEMMA LineEndsSegment == SegmentInv /\ LineEnds => SegmentInv'
<1> SUFFICES ASSUME SegmentInv, LineEnds PROVE SegmentInv'
  OBVIOUS
<1>1. TypeOK /\ TypeOK'
  BY LineEndsType DEF SegmentInv
<1>2. fwd' = fwd /\ painted' = painted /\ wacom' = << >>
  BY DEF LineEnds, fwdVars
<1>3. WacomIsSuffix'
  <2>1. Len(scribbles') \in Nat
    BY <1>1, LenProperties DEF TypeOK, Drawing
  <2>2. QED
    BY <1>2, <2>1, NoPoints DEF WacomIsSuffix
<1>4. ASSUME fwd # "dead", NEW p \in painted PROVE Reaches(p)'
  <2>1. Reaches(p)
    BY <1>4 DEF SegmentInv
  <2>2. CASE UNCHANGED <<scribbles, queue>> /\ Pipeline' = Pipeline
    BY <2>1, <2>2 DEF Reaches
  <2>3. CASE Pipeline' = Append(Pipeline, scribbles)
    <3>1. Pipeline \in Seq(Drawing) /\ scribbles \in Drawing
      BY <1>1, PipelineType DEF TypeOK
    <3>2. /\ DOMAIN Pipeline = 1..Len(Pipeline) /\ DOMAIN Pipeline' = 1..(Len(Pipeline) + 1)
          /\ Len(Pipeline) \in Nat
          /\ \A k \in 1..Len(Pipeline) : Pipeline'[k] = Pipeline[k]
          /\ Pipeline'[Len(Pipeline) + 1] = scribbles
      BY <2>3, <3>1, AppendProperties, LenProperties
    <3>3. \E k \in DOMAIN Pipeline' : Inside(p, Pipeline'[k])
      BY <2>1, <3>2 DEF Reaches
    <3>4. QED
      BY <3>3 DEF Reaches
  <2>4. QED
    BY <1>1, <2>2, <2>3, LineEndsPipeline
<1>5. QED
  BY <1>1, <1>2, <1>3, <1>4 DEF SegmentInv

LEMMA NextSegment == SegmentInv /\ [Next]_vars => SegmentInv'
<1> SUFFICES ASSUME SegmentInv, [Next]_vars PROVE SegmentInv'
  OBVIOUS
<1>1. TypeOK /\ TypeOK'
  BY NextType DEF SegmentInv
<1>2. CASE UNCHANGED <<wacom, scribbles, painted>> /\ fwd # "dead" /\ Pipeline' = Pipeline
  BY <1>1, <1>2 DEF SegmentInv, WacomIsSuffix, Reaches
<1>3. CASE Receive \/ Sent
  BY <1>1, <1>2, <1>3, ForwardingPipeline DEF Receive, Sent, uiVars
<1>4. CASE SendingFails
  BY <1>1, <1>4 DEF SendingFails, SegmentInv
<1>5. CASE UNCHANGED <<wacom, scribbles, painted, queue, fwd, hand, delivered>>
  BY <1>1, <1>5 DEF SegmentInv, WacomIsSuffix, Reaches, Pipeline
<1>6. CASE \/ OnBtn \/ (\E black \in BOOLEAN : ChangeTool(black))
           \/ (\E f \in Fingers, place \in Places : TouchScreen(f, place))
           \/ UNCHANGED vars
  BY <1>5, <1>6 DEF OnBtn, ChangeTool, TouchScreen, uiVars, fwdVars, vars
<1>7. QED
  BY <1>3, <1>4, <1>6, DrawSegment, LineEndsSegment DEF Next

\* Whatever is painted here is in a drawing that reached the server or still
\* may, for lines of any length cut anywhere.
THEOREM NoSegmentIsLost == Spec => []OthersGetEverySegment
<1>1. Init => SegmentInv
  BY InitType, NoPoints DEF Init, SegmentInv, WacomIsSuffix
<1>2. SegmentInv => OthersGetEverySegment
  BY DEF SegmentInv, Reaches, OthersGetEverySegment
<1>3. QED
  BY <1>1, <1>2, NextSegment, PTL DEF Spec

-----------------------------------------------------------------------------
(* One line in one ink looks the same.                                     *)

\* The points since the last lift are those of the line in progress.
LinesInv ==
  /\ lifted <= Len(drawn)
  /\ \A n \in 1..Len(drawn) :
       /\ drawn[n].line < n
       /\ IF n <= lifted THEN drawn[n].line < lifted ELSE drawn[n].line = lifted

\* WACOM_HISTORY holds the last two of them.
WacomInv ==
  /\ Len(wacom) = IF Len(drawn) - lifted < 2 THEN Len(drawn) - lifted ELSE 2
  /\ \A i \in 1..Len(wacom) : wacom[i] = Len(drawn) - Len(wacom) + i

\* Only points that were drawn are handed over.
Known(s) == \A i \in DOMAIN s : s[i] \in 1..Len(drawn)
KnownInv == Known(scribbles) /\ \A k \in DOMAIN Pipeline : Known(Pipeline[k])

\* Every point paints that has two before it in its line.
PaintedAt(n) ==
  Segment(<<n - 2, n - 1, n>>, drawn[n].white, [j \in 1..3 |-> drawn[n].wide])
Third(n) == n \in 3..Len(drawn) /\ drawn[n - 2].line = drawn[n].line
PaintedInv ==
  /\ \A p \in painted : \E n \in 3..Len(drawn) : Third(n) /\ p = PaintedAt(n)
  /\ \A n \in 3..Len(drawn) : Third(n) => PaintedAt(n) \in painted

InkInv == TypeOK /\ LinesInv /\ WacomInv /\ KnownInv /\ PaintedInv

LEMMA DrawInk == InkInv /\ Draw => InkInv'
<1> SUFFICES ASSUME InkInv, Draw PROVE InkInv'
  OBVIOUS
<1> DEFINE white == ~penBlack \/ IsPressed("erase")
           wide == IsPressed("times3")
           new == [white |-> white, wide |-> wide, line |-> lifted]
<1>1. TypeOK /\ TypeOK'
  BY DrawType DEF InkInv
<1>2. PICK l, n, w, last \in Nat :
        l = Len(drawn) /\ n = l + 1 /\ w = Len(wacom) /\ last = lifted
  <2>1. Len(drawn) \in Nat /\ Len(wacom) \in Nat /\ lifted \in Nat
    BY <1>1, LenProperties DEF TypeOK, Drawing
  <2>2. Len(drawn) + 1 \in Nat
    BY <2>1
  <2> USE <2>1, <2>2
  <2> WITNESS Len(drawn) \in Nat, Len(drawn) + 1 \in Nat, Len(wacom) \in Nat, lifted \in Nat
  <2>3. QED
    OBVIOUS
<1> DEFINE line == Append(wacom, n)
<1>3. /\ last <= l /\ w = IF l - last < 2 THEN l - last ELSE 2
      /\ drawn \in Seq(Point) /\ wacom \in Seq(Nat \ {0}) /\ scribbles \in Seq(Nat \ {0})
      /\ new \in Point /\ n \in Nat \ {0}
  <2>1. drawn \in Seq(Point) /\ wacom \in Seq(Nat \ {0}) /\ scribbles \in Seq(Nat \ {0})
    BY <1>1 DEF TypeOK, Drawing
  <2>2. white \in BOOLEAN /\ wide \in BOOLEAN
    BY <1>1 DEF TypeOK, IsPressed
  <2>3. new \in Point
    BY <1>2, <2>2 DEF Point
  <2>4. last <= l /\ w = IF l - last < 2 THEN l - last ELSE 2
    BY <1>2 DEF InkInv, LinesInv, WacomInv
  <2>5. QED
    BY <1>2, <2>1, <2>3, <2>4
<1>4. /\ drawn' = Append(drawn, new) /\ lifted' = lifted
      /\ scribbles' = Append(scribbles, n) /\ Pipeline' = Pipeline
  BY <1>2 DEF Draw, Pipeline, fwdVars
<1>5. /\ Len(drawn') = n /\ drawn'[n] = new
      /\ \A k \in 1..l : drawn'[k] = drawn[k]
  BY <1>2, <1>3, <1>4, AppendProperties
<1>6. /\ Len(line) = w + 1 /\ line \in Seq(Nat \ {0})
      /\ \A i \in 1..(w + 1) : line[i] = l - w + i
  <2>1. /\ Len(line) = w + 1 /\ line[w + 1] = n /\ line \in Seq(Nat \ {0})
        /\ \A i \in 1..w : line[i] = wacom[i]
    <3>1. wacom \in Seq(Nat \ {0}) /\ n \in Nat \ {0} /\ w = Len(wacom)
      BY <1>2, <1>3
    <3>2. QED
      BY <3>1, AppendProperties
  <2>2. \A i \in 1..w : wacom[i] = l - w + i
    BY <1>2 DEF InkInv, WacomInv
  <2>3. n = l - w + (w + 1)
    BY <1>2
  <2>4. QED
    BY <1>2, <2>1, <2>2, <2>3
<1>7. IF w + 1 >= 3
      THEN /\ painted' = painted \cup {Segment(line, white, [i \in 1..3 |-> wide])}
           /\ wacom' = Tail(line)
      ELSE wacom' = line /\ painted' = painted
  BY <1>2, <1>6 DEF Draw, Shifted
<1>8. drawn'[n].white = white /\ drawn'[n].wide = wide /\ drawn'[n].line = last
  BY <1>2, <1>5
<1> HIDE DEF line, white, wide, new
<1>9. LinesInv'
  <2> SUFFICES ASSUME NEW k \in 1..n
               PROVE  /\ drawn'[k].line < k
                      /\ IF k <= last THEN drawn'[k].line < last
                         ELSE drawn'[k].line = last
    BY <1>2, <1>3, <1>4, <1>5 DEF LinesInv
  <2>1. CASE k \in 1..l
    BY <1>2, <1>5, <2>1 DEF InkInv, LinesInv
  <2>2. CASE k = n
    BY <1>2, <1>3, <1>8, <2>2
  <2>3. QED
    BY <1>2, <2>1, <2>2
<1>10. KnownInv'
  <2>1. 1..l \subseteq 1..Len(drawn') /\ n \in 1..Len(drawn')
    BY <1>2, <1>5
  <2>2. Known(scribbles)'
    <3> SUFFICES ASSUME NEW i \in DOMAIN scribbles' PROVE scribbles'[i] \in 1..Len(drawn')
      BY DEF Known
    <3>1. /\ DOMAIN scribbles' = 1..(Len(scribbles) + 1) /\ Len(scribbles) \in Nat
          /\ DOMAIN scribbles = 1..Len(scribbles)
          /\ scribbles'[Len(scribbles) + 1] = n
          /\ \A j \in 1..Len(scribbles) : scribbles'[j] = scribbles[j]
      BY <1>3, <1>4, AppendProperties, LenProperties
    <3>2. CASE i \in 1..Len(scribbles)
      BY <1>2, <2>1, <3>1, <3>2 DEF InkInv, KnownInv, Known
    <3>3. CASE i = Len(scribbles) + 1
      BY <2>1, <3>1, <3>3
    <3>4. QED
      BY <3>1, <3>2, <3>3
  <2>3. \A k \in DOMAIN Pipeline' : Known(Pipeline[k])'
    BY <1>2, <1>4, <2>1 DEF InkInv, KnownInv, Known
  <2>4. QED
    BY <1>4, <2>2, <2>3 DEF KnownInv, Known
<1>11. \A k \in 3..l : (Third(k)' <=> Third(k)) /\ PaintedAt(k)' = PaintedAt(k)
  <2> TAKE k \in 3..l
  <2>1. k \in 1..l /\ k - 2 \in 1..l /\ k \in 3..n
    BY <1>2
  <2>2. drawn'[k] = drawn[k] /\ drawn'[k - 2] = drawn[k - 2]
    BY <1>5, <2>1
  <2>3. QED
    BY <1>2, <1>5, <2>1, <2>2 DEF Third, PaintedAt
<1>12. CASE w = 2
  <2>1. /\ painted' = painted \cup {Segment(line, white, [i \in 1..3 |-> wide])}
        /\ wacom' = Tail(line) /\ Len(line) = 3 /\ l - last >= 2
    <3>1. w + 1 >= 3 /\ w + 1 = 3
      BY <1>12
    <3>2. l - last >= 2
      BY <1>2, <1>3, <1>12
    <3>3. QED
      BY <1>6, <1>7, <3>1, <3>2
  <2>2. WacomInv'
    <3>1. line # << >>
      BY <2>1, NoPoints
    <3>2. Len(wacom') = 2 /\ \A i \in 1..2 : wacom'[i] = line[i + 1]
      <4>1. /\ Len(Tail(line)) = Len(line) - 1
            /\ \A i \in 1..Len(Tail(line)) : Tail(line)[i] = line[i + 1]
        BY <1>6, <3>1, HeadTailProperties
      <4>2. Len(Tail(line)) = 2
        BY <2>1, <4>1
      <4>3. QED
        BY <2>1, <4>1, <4>2
    <3>3. ASSUME NEW i \in 1..2 PROVE wacom'[i] = n - 2 + i
      <4>1. i + 1 \in 1..(w + 1) /\ l - w + (i + 1) = n - 2 + i
        BY <1>2, <1>12
      <4>2. QED
        BY <1>6, <3>2, <4>1
    <3>4. ~(n - last < 2)
      BY <1>2, <2>1
    <3>5. QED
      BY <1>2, <1>4, <1>5, <3>2, <3>3, <3>4 DEF WacomInv
  <2>3. n \in 3..n /\ Third(n)'
    <3>1. n - 2 \in 1..l /\ ~(n - 2 <= last) /\ n \in 3..n
      BY <1>2, <2>1
    <3>2. drawn[n - 2].line = last
      BY <1>2, <3>1 DEF InkInv, LinesInv
    <3>3. drawn'[n - 2].line = drawn'[n].line
      BY <1>5, <1>8, <3>1, <3>2
    <3>4. QED
      BY <1>5, <3>1, <3>3 DEF Third
  <2>4. line = <<n - 2, n - 1, n>>
    <3> DEFINE v == <<n - 2, n - 1, n>>
    <3>1. line[1] = n - 2 /\ line[2] = n - 1 /\ line[3] = n
      <4>1. /\ 1 \in 1..(w + 1) /\ 2 \in 1..(w + 1) /\ 3 \in 1..(w + 1)
            /\ l - w + 1 = n - 2 /\ l - w + 2 = n - 1 /\ l - w + 3 = n
        BY <1>2, <1>12
      <4>2. QED
        BY <1>6, <4>1
    <3>2. n - 2 \in Nat \ {0} /\ n - 1 \in Nat \ {0} /\ n \in Nat \ {0}
      BY <1>2, <2>1
    <3>3. v \in Seq(Nat \ {0}) /\ Len(v) = 3 /\ v[1] = n - 2 /\ v[2] = n - 1 /\ v[3] = n
      BY <3>2
    <3> HIDE DEF v
    <3>4. \A i \in 1..3 : line[i] = v[i]
      <4> TAKE i \in 1..3
      <4>1. i = 1 \/ i = 2 \/ i = 3
        OBVIOUS
      <4>2. QED
        BY <3>1, <3>3, <4>1
    <3>5. line = v
      BY <1>6, <2>1, <3>3, <3>4, SeqEqual
    <3>6. QED
      BY <3>5 DEF v
  <2>5. painted' = painted \cup {PaintedAt(n)'}
    BY <1>8, <2>1, <2>4 DEF PaintedAt
  <2>6. ASSUME NEW p \in painted' PROVE \E k \in 3..n : Third(k)' /\ p = PaintedAt(k)'
    <3>1. CASE p \in painted
      <4>1. PICK k \in 3..l : Third(k) /\ p = PaintedAt(k)
        BY <1>2, <3>1 DEF InkInv, PaintedInv
      <4>2. k \in 3..n
        BY <1>2
      <4>3. QED
        BY <1>11, <4>1, <4>2
    <3>2. CASE p = PaintedAt(n)'
      BY <2>3, <3>2
    <3>3. QED
      BY <2>5, <3>1, <3>2
  <2>7. ASSUME NEW k \in 3..n, Third(k)' PROVE PaintedAt(k)' \in painted'
    <3>1. CASE k \in 3..l
      <4>1. PaintedAt(k) \in painted
        BY <1>2, <1>11, <2>7, <3>1 DEF InkInv, PaintedInv
      <4>2. QED
        BY <1>11, <2>5, <3>1, <4>1
    <3>2. CASE k = n
      BY <2>5, <3>2
    <3>3. QED
      BY <1>2, <3>1, <3>2
  <2>8. PaintedInv'
    BY <1>5, <2>6, <2>7 DEF PaintedInv
  <2>9. QED
    BY <1>1, <1>9, <1>10, <2>2, <2>8 DEF InkInv
<1>13. CASE w # 2
  <2>1. /\ wacom' = line /\ painted' = painted
        /\ w = l - last /\ n - last = w + 1 /\ w + 1 <= 2
    BY <1>2, <1>3, <1>7, <1>13
  <2>2. WacomInv'
    <3>1. Len(wacom') = IF n - last < 2 THEN n - last ELSE 2
      <4>1. Len(wacom') = w + 1
        BY <1>6, <2>1
      <4>2. w + 1 = IF n - last < 2 THEN n - last ELSE 2
        BY <1>2, <2>1
      <4>3. QED
        BY <4>1, <4>2
    <3>2. l - w = n - (w + 1) /\ Len(wacom') = w + 1
      BY <1>2, <1>6, <2>1
    <3>3. \A i \in 1..(w + 1) : wacom'[i] = n - (w + 1) + i
      BY <1>6, <2>1, <3>2
    <3>4. Len(drawn') = n /\ lifted' = last
      BY <1>2, <1>3, <1>4, <1>5
    <3>5. Len(wacom') = IF Len(drawn') - lifted' < 2 THEN Len(drawn') - lifted' ELSE 2
      BY <3>1, <3>4
    <3>6. \A i \in 1..Len(wacom') : wacom'[i] = Len(drawn') - Len(wacom') + i
      BY <3>2, <3>3, <3>4
    <3>7. QED
      BY <3>5, <3>6 DEF WacomInv
  <2>3. ~Third(n)'
    <3> SUFFICES ASSUME n \in 3..n PROVE drawn'[n - 2].line # drawn'[n].line
      BY <1>5 DEF Third
    <3>1. n - 2 \in 1..l /\ n - 2 <= last
      BY <1>2, <2>1
    <3>2. drawn[n - 2].line < last /\ drawn[n - 2].line \in Nat
      <4>1. drawn[n - 2] \in Point
        BY <1>2, <1>3, <3>1, ElementOfSeq
      <4>2. QED
        BY <1>2, <3>1, <4>1 DEF InkInv, LinesInv, Point
    <3>3. QED
      BY <1>2, <1>5, <1>8, <3>1, <3>2
  <2>4. ASSUME NEW p \in painted PROVE \E k \in 3..n : Third(k)' /\ p = PaintedAt(k)'
    <3>1. PICK k \in 3..l : Third(k) /\ p = PaintedAt(k)
      BY <1>2 DEF InkInv, PaintedInv
    <3>2. k \in 3..n
      BY <1>2
    <3>3. QED
      BY <1>11, <3>1, <3>2
  <2>5. ASSUME NEW k \in 3..n, Third(k)' PROVE PaintedAt(k)' \in painted
    <3>1. k # n
      BY <2>3, <2>5
    <3>2. k \in 3..l
      BY <1>2, <3>1
    <3>3. QED
      BY <1>2, <1>11, <2>5, <3>2 DEF InkInv, PaintedInv
  <2>6. PaintedInv'
    BY <1>5, <2>1, <2>4, <2>5 DEF PaintedInv
  <2>7. QED
    BY <1>1, <1>9, <1>10, <2>2, <2>6 DEF InkInv
<1>14. QED
  BY <1>12, <1>13

\* What is painted hangs on the points alone.
LEMMA SamePainted == ASSUME PaintedInv, UNCHANGED <<drawn, painted>> PROVE PaintedInv'
<1>1. ASSUME NEW n PROVE (Third(n)' <=> Third(n)) /\ PaintedAt(n)' = PaintedAt(n)
  BY DEF Third, PaintedAt
<1>2. QED
  BY <1>1 DEF PaintedInv

LEMMA LineEndsInk == InkInv /\ LineEnds => InkInv'
<1> SUFFICES ASSUME InkInv, LineEnds PROVE InkInv'
  OBVIOUS
<1>1. TypeOK /\ TypeOK'
  BY LineEndsType DEF InkInv
<1>2. UNCHANGED <<drawn, painted>> /\ lifted' = Len(drawn) /\ wacom' = << >>
  BY DEF LineEnds
<1>3. Len(drawn) \in Nat
  BY <1>1, LenProperties DEF TypeOK
<1>4. LinesInv'
  <2> SUFFICES ASSUME NEW n \in 1..Len(drawn)
               PROVE  drawn[n].line < n /\ drawn[n].line < Len(drawn)
    BY <1>2, <1>3 DEF LinesInv
  <2>1. drawn[n] \in Point
    BY <1>1, <1>3, ElementOfSeq DEF TypeOK
  <2>2. drawn[n].line < n /\ drawn[n].line \in Nat
    BY <2>1 DEF InkInv, LinesInv, Point
  <2>3. QED
    BY <1>3, <2>2
<1>5. WacomInv'
  BY <1>2, <1>3, NoPoints DEF WacomInv
<1>6. PaintedInv'
  BY <1>2, SamePainted DEF InkInv
<1>7. KnownInv'
  <2>1. CASE UNCHANGED <<scribbles, queue>> /\ Pipeline' = Pipeline
    BY <1>2, <2>1 DEF InkInv, KnownInv, Known
  <2>2. CASE scribbles' = << >> /\ Pipeline' = Append(Pipeline, scribbles)
    <3>1. Pipeline \in Seq(Drawing) /\ scribbles \in Drawing
      BY <1>1, PipelineType DEF TypeOK
    <3>2. /\ DOMAIN Pipeline = 1..Len(Pipeline) /\ DOMAIN Pipeline' = 1..(Len(Pipeline) + 1)
          /\ Len(Pipeline) \in Nat
          /\ \A k \in 1..Len(Pipeline) : Pipeline'[k] = Pipeline[k]
          /\ Pipeline'[Len(Pipeline) + 1] = scribbles
      BY <2>2, <3>1, AppendProperties, LenProperties
    <3>3. \A k \in DOMAIN Pipeline' : Known(Pipeline'[k])
      BY <3>2 DEF InkInv, KnownInv
    <3>4. QED
      BY <1>2, <2>2, <3>3 DEF KnownInv, Known
  <2>3. QED
    BY <1>1, <2>1, <2>2, LineEndsPipeline
<1>8. QED
  BY <1>1, <1>4, <1>5, <1>6, <1>7 DEF InkInv

LEMMA NextInk == InkInv /\ [Next]_vars => InkInv'
<1> SUFFICES ASSUME InkInv, [Next]_vars PROVE InkInv'
  OBVIOUS
<1>1. TypeOK /\ TypeOK'
  BY NextType DEF InkInv
<1>2. CASE UNCHANGED <<wacom, scribbles, drawn, lifted, painted>> /\ Pipeline' = Pipeline
  BY <1>1, <1>2, SamePainted DEF InkInv, LinesInv, WacomInv, KnownInv, Known
<1>3. CASE Receive \/ Sent
  BY <1>1, <1>2, <1>3, ForwardingPipeline DEF Receive, Sent, uiVars
<1>4. CASE SendingFails
  <2>1. UNCHANGED <<wacom, scribbles, drawn, lifted, painted>>
    BY <1>4 DEF SendingFails, uiVars
  <2>2. /\ delivered \in Seq(Drawing) /\ queue \in Seq(Drawing) /\ hand \in Drawing
        /\ Append(delivered, hand) \in Seq(Drawing)
    BY <1>1, Appended DEF TypeOK
  <2>3. Pipeline = Append(delivered, hand) \o queue
    <3>1. Pipeline = (delivered \o <<hand>>) \o queue
      BY <1>4 DEF SendingFails, Pipeline
    <3>2. QED
      BY <2>2, <3>1, AppendIsConcat
  <2>4. Pipeline' = delivered'
    <3>1. Pipeline' = (delivered' \o << >>) \o << >>
      BY <1>4 DEF SendingFails, Pipeline
    <3>2. delivered' \in Seq(Drawing)
      BY <1>1 DEF TypeOK
    <3>3. QED
      BY <3>1, <3>2, ConcatEmptySeq
  <2>5. delivered' = delivered \/ delivered' = Append(delivered, hand)
    BY <1>4 DEF SendingFails
  <2>6. /\ DOMAIN delivered = 1..Len(delivered) /\ Len(delivered) \in Nat /\ Len(queue) \in Nat
        /\ Len(Append(delivered, hand)) = Len(delivered) + 1
        /\ DOMAIN Append(delivered, hand) = 1..(Len(delivered) + 1)
        /\ \A k \in 1..Len(delivered) : Append(delivered, hand)[k] = delivered[k]
    BY <2>2, AppendProperties, LenProperties
  <2>7. /\ DOMAIN Pipeline = 1..(Len(delivered) + 1 + Len(queue))
        /\ \A k \in 1..(Len(delivered) + 1) : Pipeline[k] = Append(delivered, hand)[k]
    BY <2>2, <2>3, <2>6, ConcatProperties, LenProperties
  <2>8. \A k \in DOMAIN Pipeline' : k \in DOMAIN Pipeline /\ Pipeline'[k] = Pipeline[k]
    BY <2>4, <2>5, <2>6, <2>7
  <2>9. KnownInv'
    BY <2>1, <2>8 DEF InkInv, KnownInv, Known
  <2>10. QED
    BY <1>1, <2>1, <2>9, SamePainted DEF InkInv, LinesInv, WacomInv
<1>5. CASE \/ OnBtn \/ (\E black \in BOOLEAN : ChangeTool(black))
           \/ (\E f \in Fingers, place \in Places : TouchScreen(f, place))
           \/ UNCHANGED vars
  <2>1. UNCHANGED <<wacom, scribbles, drawn, lifted, painted, queue, fwd, hand, delivered>>
    BY <1>5 DEF OnBtn, ChangeTool, TouchScreen, uiVars, fwdVars, vars
  <2>2. QED
    BY <1>2, <2>1 DEF Pipeline
<1>6. QED
  BY <1>3, <1>4, <1>5, DrawInk, LineEndsInk DEF Next

\* What others paint of a drawing in one ink is what was painted here.
LEMMA InkShows ==
  ASSUME InkInv, NEW d \in Drawing, Known(d), Run(d), SameInk(d)
  PROVE  SegmentsOf(d) = {p \in painted : Inside(p, d)}
<1> DEFINE c(i) == Segment(SubSeq(d, i, i + 2), drawn[d[1]].white,
                           [j \in 1..3 |-> drawn[d[i + j - 1]].wide])
<1>1. Len(d) \in Nat /\ DOMAIN d = 1..Len(d) /\ \A i \in 1..Len(d) : d[i] \in Nat
  BY LenProperties, ElementOfSeq DEF Drawing
<1>2. ASSUME NEW i \in 1..(Len(d) - 2)
      PROVE  /\ c(i) = PaintedAt(d[i + 2]) /\ Third(d[i + 2])
             /\ SubSeq(d, i, i + 2) = <<d[i + 2] - 2, d[i + 2] - 1, d[i + 2]>>
  <2> DEFINE n == d[i + 2]
  <2>1. i \in DOMAIN d /\ i + 1 \in DOMAIN d /\ i + 2 \in DOMAIN d /\ 1 \in DOMAIN d
    BY <1>1
  <2>2. d[i] = d[1] + i - 1 /\ d[i + 1] = d[1] + (i + 1) - 1 /\ n = d[1] + (i + 2) - 1
    BY <2>1 DEF Run
  <2>3. d[i] = n - 2 /\ d[i + 1] = n - 1 /\ n \in 1..Len(drawn) /\ n - 2 \in 1..Len(drawn)
    <3>1. d[1] \in Nat /\ i \in Nat
      BY <1>1, <2>1
    <3>2. d[i] = n - 2 /\ d[i + 1] = n - 1
      <4>1. n = d[1] + (i + 2) - 1
        BY <2>2
      <4> HIDE DEF n
      <4>2. QED
        BY <2>2, <3>1, <4>1
    <3>3. n \in 1..Len(drawn) /\ d[i] \in 1..Len(drawn)
      BY <2>1 DEF Known
    <3>4. QED
      BY <3>2, <3>3
  <2>4. \A o \in DOMAIN d : drawn[d[o]] = drawn[d[1]]
    BY DEF SameInk
  <2>5. Third(n)
    <3>1. Len(drawn) \in Nat
      BY LenProperties DEF InkInv, TypeOK
    <3>2. n \in 3..Len(drawn)
      BY <2>3, <3>1
    <3>3. drawn[n - 2] = drawn[d[1]] /\ drawn[n] = drawn[d[1]]
      BY <2>1, <2>3, <2>4
    <3>4. QED
      BY <3>2, <3>3 DEF Third
  <2>6. SubSeq(d, i, i + 2) = <<n - 2, n - 1, n>>
    <3>1. d[i] \in Nat /\ d[i + 1] \in Nat /\ d[i + 2] \in Nat /\ i \in Int
      BY <1>1, <2>1
    <3>2. SubSeq(d, i, i + 2) = <<d[i], d[i + 1], d[i + 2]>>
      BY <3>1, SubThree
    <3>3. QED
      BY <2>3, <3>2
  <2>7. [j \in 1..3 |-> drawn[d[i + j - 1]].wide] = [j \in 1..3 |-> drawn[n].wide]
    <3>1. ASSUME NEW j \in 1..3 PROVE drawn[d[i + j - 1]] = drawn[n]
      <4>1. i + j - 1 \in DOMAIN d
        BY <1>1
      <4>2. QED
        BY <2>1, <2>4, <4>1
    <3>2. QED
      BY <3>1
  <2>8. drawn[d[1]].white = drawn[n].white
    BY <2>1, <2>4
  <2>9. c(i) = PaintedAt(n)
    BY <2>6, <2>7, <2>8 DEF PaintedAt
  <2>10. QED
    BY <2>5, <2>6, <2>9
<1>3. ASSUME NEW p \in SegmentsOf(d) PROVE p \in painted /\ Inside(p, d)
  <2>1. PICK i \in 1..(Len(d) - 2) : p = c(i)
    BY DEF SegmentsOf
  <2>2. p = PaintedAt(d[i + 2]) /\ Third(d[i + 2])
    BY <1>2, <2>1
  <2>3. p \in painted
    BY <2>2 DEF Third, InkInv, PaintedInv
  <2>4. p.pts = SubSeq(d, i, i + 2)
    BY <2>1 DEF Segment
  <2>5. QED
    BY <2>3, <2>4 DEF Inside
<1>4. ASSUME NEW p \in painted, Inside(p, d) PROVE p \in SegmentsOf(d)
  <2>1. PICK i \in 1..(Len(d) - 2) : p.pts = SubSeq(d, i, i + 2)
    BY <1>4 DEF Inside
  <2>2. PICK n \in 3..Len(drawn) : p = PaintedAt(n)
    BY <1>4 DEF InkInv, PaintedInv
  <2>3. p.pts = <<n - 2, n - 1, n>>
    BY <2>2 DEF PaintedAt, Segment
  <2>4. <<n - 2, n - 1, n>> = <<d[i + 2] - 2, d[i + 2] - 1, d[i + 2]>>
    BY <1>2, <2>1, <2>3
  <2>5. n = d[i + 2]
    <3>1. <<n - 2, n - 1, n>>[3] = n
      OBVIOUS
    <3>2. <<d[i + 2] - 2, d[i + 2] - 1, d[i + 2]>>[3] = d[i + 2]
      OBVIOUS
    <3>3. QED
      BY <2>4, <3>1, <3>2
  <2>6. p = c(i)
    BY <1>2, <2>2, <2>5
  <2>7. QED
    BY <2>6 DEF SegmentsOf
<1>5. QED
  BY <1>3, <1>4

\* A drawing of one line in one ink is painted elsewhere as it was here.
THEOREM SameInkSameLook == Spec => []OneInkLooksTheSame
<1>1. Init => InkInv
  <2> SUFFICES ASSUME Init PROVE InkInv
    OBVIOUS
  <2>1. Pipeline = << >>
    BY NoPoints, ConcatEmptySeq DEF Init, Pipeline
  <2>2. QED
    BY <2>1, InitType, NoPoints DEF Init, InkInv, LinesInv, WacomInv, KnownInv, Known, PaintedInv
<1>2. InkInv /\ ChainInv => OneInkLooksTheSame
  <2> SUFFICES ASSUME InkInv, ChainInv, NEW k \in DOMAIN Pipeline, SameInk(Pipeline[k])
               PROVE  SegmentsOf(Pipeline[k]) = {p \in painted : Inside(p, Pipeline[k])}
    BY DEF OneInkLooksTheSame
  <2>1. Pipeline[k] \in Drawing
    BY PipelineType, ElementOfSeq, LenProperties DEF InkInv
  <2>2. Known(Pipeline[k]) /\ Run(Pipeline[k])
    BY DEF InkInv, KnownInv, ChainInv, Chain
  <2>3. QED
    BY <2>1, <2>2, InkShows
<1>3. QED
  BY <1>1, <1>2, InitChain, NextChain, NextInk, PTL DEF Spec
=============================================================================

------------------------ MODULE StrokePlayersProofs ------------------------
(***************************************************************************)
(* Proofs about scrolls, for rings of any size and files of any length,    *)
(* and about the companion, for any text.                                  *)
(***************************************************************************)
EXTENDS StrokePlayers, UnipenTextProofs

LEMMA RangeOfAppend ==
  ASSUME NEW S, NEW s \in Seq(S), NEW e \in S
  PROVE  Range(Append(s, e)) = Range(s) \cup {e}
<1>1. Append(s, e) = s \o <<e>> /\ <<e>> \in Seq(S) /\ Range(<<e>>) = {e}
  BY AppendIsConcat DEF Range
<1>2. \A t \in Seq(S) : Range(s \o t) = Range(s) \cup Range(t)
  BY RangeConcatenation
<1>3. QED
  BY <1>1, <1>2, Zenon

LEMMA RangeOfTail ==
  ASSUME NEW S, NEW s \in Seq(S), s # << >>
  PROVE  Range(s) = {Head(s)} \cup Range(Tail(s))
<1>1. Len(s) \in Nat \ {0} /\ Head(s) = s[1] /\ Head(s) \in S /\ Tail(s) \in Seq(S)
  BY EmptySeq, HeadTailProperties
<1>2. s = <<s[1]>> \o Tail(s)
  BY <1>1, SubSeqFull, SubSeqRecursiveFirst, TailIsSubSeq
<1>3. Range(<<s[1]>>) = {s[1]} /\ <<s[1]>> \in Seq(S)
  BY <1>1 DEF Range
<1>4. \A t, u \in Seq(S) : Range(t \o u) = Range(t) \cup Range(u)
  BY RangeConcatenation
<1>5. Range(s) = Range(<<s[1]>>) \cup Range(Tail(s))
  BY <1>1, <1>2, <1>3, <1>4, Zenon
<1>6. QED
  BY <1>1, <1>3, <1>5

-----------------------------------------------------------------------------
(* The ring.                                                               *)

Ascending(s) == \A i, j \in DOMAIN s : i < j => s[i] < s[j]

RingInv ==
  /\ Playing => shown \subseteq Range(ring) /\ error = "none"
  /\ Ascending(ring)
  /\ pc = "next" => ring = << >> /\ todo = << >>
  /\ pc \in {"exited", "stuck"} =>
       IF error = "none" THEN shown = {}
       ELSE shown \subseteq Range(ring) /\ Len(ring) < RingSize

Inv == TypeOK /\ RingInv

\* A stroke that is painted is the newest of the ring, which is not full.
LEMMA EnqueueKeeps ==
  ASSUME TypeOK, Ascending(ring), Trimmed
  PROVE  LET r == Enqueue(ring, count + 1)
         IN  /\ r \in Seq(1..(count + 1)) /\ Len(r) <= RingSize
             /\ Ascending(r) /\ Range(r) = Range(ring) \cup {count + 1}
<1> DEFINE r == Append(ring, count + 1)
<1>1. RingSize \in Nat /\ count \in Nat
  BY RingAssumption DEF RingSize, TypeOK
<1>2. /\ ring \in Seq(1..(count + 1)) /\ count + 1 \in 1..(count + 1) /\ Len(ring) \in Nat
      /\ ring \in Seq(1..count) /\ Len(ring) < RingSize
  <2>1. 1..count \subseteq 1..(count + 1) /\ count + 1 \in 1..(count + 1)
    BY <1>1
  <2>2. ring \in Seq(1..count) /\ Len(ring) < RingSize
    BY DEF TypeOK, Trimmed
  <2>3. QED
    BY <2>1, <2>2, SeqMonotonic, LenProperties
<1>3. Enqueue(ring, count + 1) = r
  BY <1>1, <1>2 DEF Enqueue
<1>4. r \in Seq(1..(count + 1)) /\ Len(r) <= RingSize
  BY <1>1, <1>2
<1>5. Range(r) = Range(ring) \cup {count + 1}
  BY <1>2, RangeOfAppend
<1>6. Ascending(r)
  <2> SUFFICES ASSUME NEW i \in DOMAIN r, NEW j \in DOMAIN r, i < j PROVE r[i] < r[j]
    BY DEF Ascending
  <2>1. DOMAIN r = 1..(Len(ring) + 1) /\ DOMAIN ring = 1..Len(ring)
    BY <1>2
  <2>2. i \in 1..Len(ring) /\ r[i] = ring[i]
    BY <1>2, <2>1
  <2>3. CASE j \in 1..Len(ring)
    BY <1>2, <2>1, <2>2, <2>3 DEF Ascending
  <2>4. CASE j = Len(ring) + 1
    <3>1. r[j] = count + 1
      BY <1>2, <2>4
    <3>2. ring[i] \in 1..count
      BY <1>2, <2>2, ElementOfSeq
    <3>3. QED
      BY <1>1, <2>2, <3>1, <3>2
  <2>5. QED
    BY <1>2, <2>1, <2>3, <2>4
<1>7. QED
  BY <1>3, <1>4, <1>5, <1>6

\* The oldest goes out of the ring and off the screen.
LEMMA DequeueKeeps ==
  ASSUME TypeOK, Ascending(ring), ring # << >>, Dequeue
  PROVE  /\ ring' \in Seq(1..count) /\ Len(ring') = Len(ring) - 1 /\ Len(ring) \in Nat \ {0}
         /\ shown' \subseteq shown
         /\ shown \subseteq Range(ring) => shown' \subseteq Range(ring')
         /\ Ascending(ring')
         /\ \A gone \in Range(ring) \ Range(ring'), left \in Range(ring') : gone < left
<1>1. /\ ring \in Seq(1..count) /\ ring' = Tail(ring)
      /\ shown' \subseteq shown \ {Head(ring)}
  BY DEF TypeOK, Dequeue, Erase
<1>2. /\ Len(ring) \in Nat \ {0} /\ Head(ring) = ring[1]
      /\ ring' \in Seq(1..count) /\ Len(ring') = Len(ring) - 1
      /\ \A i \in 1..(Len(ring) - 1) : ring'[i] = ring[i + 1]
  BY <1>1, EmptySeq, HeadTailProperties
<1>3. Range(ring) = {Head(ring)} \cup Range(ring')
  BY <1>1, RangeOfTail
<1>4. DOMAIN ring = 1..Len(ring) /\ DOMAIN ring' = 1..(Len(ring) - 1)
  BY <1>1, <1>2, LenProperties
<1>5. \A i \in 1..(Len(ring) - 1) : i + 1 \in 1..Len(ring) /\ 1 < i + 1
  BY <1>2
<1>6. \A i, j \in 1..(Len(ring) - 1) : i < j => i + 1 < j + 1
  OBVIOUS
<1>7. Ascending(ring')
  BY <1>2, <1>4, <1>5, <1>6 DEF Ascending
<1>8. 1 \in 1..Len(ring)
  BY <1>2
<1>9. \A left \in Range(ring') : ring[1] < left
  <2> SUFFICES ASSUME NEW i \in DOMAIN ring' PROVE ring[1] < ring'[i]
    BY DEF Range
  <2>1. QED
    BY <1>2, <1>4, <1>5, <1>8 DEF Ascending
<1>10. QED
  BY <1>1, <1>2, <1>3, <1>7, <1>9

LEMMA InitInv == Init => Inv
<1> SUFFICES ASSUME Init PROVE Inv
  OBVIOUS
<1>1. RingSize \in Nat
  BY RingAssumption DEF RingSize
<1>2. TypeOK
  BY <1>1, PlayerBounds DEF Init, TypeOK
<1>3. QED
  BY <1>2 DEF Init, Inv, RingInv, Ascending, Playing

LEMMA NextInv == Inv /\ [Next]_vars => Inv'
<1> SUFFICES ASSUME Inv, [Next]_vars PROVE Inv'
  OBVIOUS
<1> USE DEF Inv
<1>0. /\ RingSize \in Nat \ {0} /\ count \in Nat /\ ring \in Seq(1..count)
      /\ Len(ring) \in Nat /\ Len(<< >>) = 0 /\ << >> \in Seq(1..count)
  BY RingAssumption, LenProperties, EmptySeq DEF RingSize, TypeOK
<1>1. CASE OpenFile
  <2>1. ring = << >> /\ todo = << >> /\ ring' = << >> /\ pc = "next" /\ pc' = "read"
    BY <1>1 DEF OpenFile, RingInv
  <2>2. RingSize' \in Nat
    BY RingAssumption DEF RingSize
  <2>3. TypeOK'
    BY <1>0, <1>1, <2>1, <2>2, PlayerBounds DEF OpenFile, TypeOK
  <2>4. RingInv'
    BY <1>1, <2>1 DEF OpenFile, RingInv, Playing, Ascending
  <2>5. QED
    BY <2>3, <2>4
<1>2. CASE ReadRecord
  <2>1. todo' \in Seq(Inks)
    <3>1. PICK strokes \in Record(kind) : todo' = strokes
      BY <1>2 DEF ReadRecord
    <3>2. CASE kind = "jsonl"
      <4>0. strokes \in {<<ink>> : ink \in Inks}
        BY <3>1, <3>2, Zenon DEF Record
      <4>1. PICK ink \in Inks : strokes = <<ink>>
        BY <4>0, Zenon
      <4>2. <<ink>> \in Seq(Inks)
        BY <4>1
      <4>3. QED
        BY <3>1, <4>1, <4>2
    <3>3. CASE kind # "jsonl"
      <4>1. PICK n \in 0..2 : strokes \in [1..n -> {"black", "dot"}]
        BY <3>1, <3>3 DEF Record, SeqOf
      <4>2. QED
        BY <3>1, <4>1 DEF Inks
    <3>4. QED
      BY <3>2, <3>3
  <2>2. TypeOK' /\ RingInv'
    BY <1>2, <2>1, PlayerBounds
       DEF ReadRecord, Reading, TypeOK, RingInv, Playing, RingSize, Ascending
  <2>3. QED
    BY <2>2
<1>3. CASE BadRecord \/ RaggedRecord
  BY <1>3 DEF BadRecord, RaggedRecord, Reading, Trimmed, TypeOK, RingInv, Playing, RingSize, Ascending
<1>4. CASE PaintNext
  <2>1. todo' \in Seq(Inks) /\ pc # "next" /\ Head(todo) \in Inks
    BY <1>4, HeadTailProperties DEF PaintNext, TypeOK, RingInv
  <2>2. /\ Playing /\ Trimmed /\ count' = count + 1
        /\ UNCHANGED <<pc, kind, inputs, error>>
        /\ shown \subseteq 1..count /\ 1..count \subseteq 1..count' /\ count' \in 1..count'
    BY <1>0, <1>4 DEF PaintNext, TypeOK
  <2>3. \/ ring' = ring /\ shown' \subseteq shown
        \/ ring' = Enqueue(ring, count + 1) /\ shown' \subseteq shown \cup {count + 1}
    BY <1>4, <2>1 DEF PaintNext, Inks
  <2>4. CASE ring' = ring /\ shown' \subseteq shown
    <3>1. ring' \in Seq(1..count')
      BY <1>0, <2>2, <2>4, SeqMonotonic
    <3>2. TypeOK'
      BY <1>0, <2>1, <2>2, <2>4, <3>1 DEF TypeOK, RingSize
    <3>3. RingInv'
      BY <2>1, <2>2, <2>4 DEF RingInv, Playing, RingSize
    <3>4. QED
      BY <3>2, <3>3
  <2>5. CASE ring' = Enqueue(ring, count + 1) /\ shown' \subseteq shown \cup {count + 1}
    <3>1. /\ ring' \in Seq(1..count') /\ Len(ring') <= RingSize
          /\ Ascending(ring') /\ Range(ring') = Range(ring) \cup {count + 1}
      BY <2>2, <2>5, EnqueueKeeps DEF RingInv
    <3>2. shown' \subseteq 1..count'
      BY <2>2, <2>5
    <3>3. TypeOK'
      BY <1>0, <2>1, <2>2, <3>1, <3>2 DEF TypeOK, RingSize
    <3>4. RingInv'
      BY <2>1, <2>2, <2>5, <3>1 DEF RingInv, Playing
    <3>5. QED
      BY <3>3, <3>4
  <2>6. QED
    BY <2>3, <2>4, <2>5
<1>5. CASE EraseOldest \/ DrainNext
  <2>1. /\ Dequeue /\ pc \in {"read", "drain"}
        /\ UNCHANGED <<pc, kind, todo, count, inputs, error>>
    BY <1>5 DEF EraseOldest, DrainNext
  <2>2. ring # << >>
    BY <1>0, <1>5 DEF EraseOldest, DrainNext, Trimmed
  <2>3. /\ ring' \in Seq(1..count) /\ Len(ring') = Len(ring) - 1
        /\ shown' \subseteq shown
        /\ shown \subseteq Range(ring) => shown' \subseteq Range(ring')
        /\ Ascending(ring')
    BY <2>1, <2>2, DequeueKeeps DEF RingInv
  <2>4. Len(ring') <= RingSize
    BY <1>0, <2>3 DEF TypeOK
  <2>5. TypeOK'
    BY <2>1, <2>3, <2>4 DEF TypeOK, RingSize
  <2>6. RingInv'
    BY <2>1, <2>3 DEF RingInv, Playing
  <2>7. QED
    BY <2>5, <2>6
<1>6. CASE EndOfFile \/ FileDone
  BY <1>6 DEF EndOfFile, FileDone, Reading, TypeOK, RingInv, Playing, RingSize, Ascending
<1>7. CASE AllPlayed
  <2>1. Range(ring) = {} /\ error = "none"
    BY <1>7 DEF AllPlayed, RingInv, Playing, Range
  <2>2. QED
    BY <1>7, <2>1 DEF AllPlayed, TypeOK, RingInv, Playing, RingSize, Ascending
<1>8. CASE LoadWords \/ DrawGlyph \/ GlyphsDone
  BY <1>8 DEF LoadWords, DrawGlyph, GlyphsDone, scrollVars, TypeOK, RingInv, Playing, RingSize,
              Ascending
<1>9. CASE UNCHANGED vars
  BY <1>9 DEF vars, scrollVars, TypeOK, RingInv, Playing, RingSize, Ascending
<1>10. QED
  BY <1>1, <1>2, <1>3, <1>4, <1>5, <1>6, <1>7, <1>8, <1>9 DEF Next

\* Types, and a ring that never holds more than it can.
THEOREM TypeCorrect == Spec => []TypeOK
BY InitInv, NextInv, PTL DEF Spec, Inv

\* No stroke escapes the ring, whatever its size and whatever the files hold.
THEOREM NothingEscapes == Spec => []ShownIsHeld
<1>1. Inv => ShownIsHeld
  BY DEF Inv, RingInv, ShownIsHeld, Ascending
<1>2. QED
  BY <1>1, InitInv, NextInv, PTL DEF Spec

\* Files without errors leave nothing, an error leaves less than a ring.
THEOREM LittleIsLeft == Spec => []LeftoversOnlyAfterError
<1>1. Inv => LeftoversOnlyAfterError
  <2> SUFFICES ASSUME Inv, pc \in {"exited", "stuck"}, error # "none"
               PROVE  Cardinality(shown) < RingSize
    BY DEF Inv, RingInv, LeftoversOnlyAfterError
  <2>1. shown \subseteq Range(ring) /\ Len(ring) < RingSize /\ ring \in Seq(1..count)
    BY DEF Inv, RingInv, TypeOK
  <2>2. Len(ring) \in Nat /\ DOMAIN ring = 1..Len(ring)
    BY <2>1, LenProperties
  <2>3. ring \in Surjection(1..Len(ring), Range(ring))
    BY <2>1, <2>2, LenProperties DEF Surjection, Range
  <2>4. IsFiniteSet(1..Len(ring)) /\ Cardinality(1..Len(ring)) = Len(ring)
    <3>1. 1 \in Int /\ Len(ring) \in Int
      BY <2>2
    <3>2. /\ IsFiniteSet(1..Len(ring))
          /\ Cardinality(1..Len(ring)) = IF 1 > Len(ring) THEN 0 ELSE Len(ring) - 1 + 1
      BY <3>1, FS_Interval, Zenon
    <3>3. QED
      BY <2>2, <3>2
  <2>5. IsFiniteSet(Range(ring)) /\ Cardinality(Range(ring)) <= Len(ring)
    BY <2>3, <2>4, FS_Surjection
  <2>6. IsFiniteSet(shown) /\ Cardinality(shown) <= Cardinality(Range(ring))
    BY <2>1, <2>5, FS_Subset
  <2>7. Cardinality(shown) \in Nat /\ Cardinality(Range(ring)) \in Nat /\ RingSize \in Nat
    BY <2>5, <2>6, FS_CardinalityType, RingAssumption DEF RingSize
  <2>8. QED
    BY <2>1, <2>2, <2>5, <2>6, <2>7
<1>2. QED
  BY <1>1, InitInv, NextInv, PTL DEF Spec

\* Strokes leave the ring from its old end only.
THEOREM FirstInFirstOut == Spec => OldestGoesFirst
<1> DEFINE Oldest ==
      \A gone \in Range(ring) \ Range(ring'), left \in Range(ring') : gone < left
<1>1. Inv /\ [Next]_vars => [Oldest]_vars
  <2> SUFFICES ASSUME Inv, Next PROVE Oldest
    OBVIOUS
  <2>1. CASE EraseOldest \/ DrainNext
    <3>1. Dequeue /\ ring # << >> /\ TypeOK /\ Ascending(ring)
      BY <2>1, EmptySeq, RingAssumption
         DEF EraseOldest, DrainNext, Trimmed, Inv, RingInv, RingSize
    <3>2. QED
      BY <3>1, DequeueKeeps
  <2>2. CASE PaintNext
    <3>1. ring' = ring \/ ring' = Enqueue(ring, count + 1)
      BY <2>2 DEF PaintNext
    <3>2. Trimmed /\ TypeOK /\ Ascending(ring)
      BY <2>2 DEF PaintNext, Inv, RingInv
    <3>3. Range(ring) \subseteq Range(ring')
      BY <3>1, <3>2, EnqueueKeeps
    <3>4. QED
      BY <3>3
  <2>3. CASE OpenFile
    BY <2>3 DEF OpenFile, Inv, RingInv
  <2>4. CASE ring' = ring
    BY <2>4
  <2>5. QED
    BY <2>1, <2>2, <2>3, <2>4
       DEF Next, ReadRecord, BadRecord, RaggedRecord, EndOfFile, FileDone, AllPlayed, LoadWords,
           DrawGlyph, GlyphsDone, scrollVars
<1>2. QED
  BY <1>1, InitInv, NextInv, PTL DEF Spec, OldestGoesFirst

-----------------------------------------------------------------------------
(* The companion.                                                          *)

\* What is drawn and what is left to draw are the beginning of what is written.
CompanionInv ==
  /\ words \in Wordings
  /\ IF pc \in {"draw", "ended"}
     THEN /\ drawn \in Seq(Points) /\ script \in Seq(Points)
          /\ Begins(drawn \o script, Drawing(words), Points)
          /\ AllParses(text) => drawn \o script = Drawing(words)
          /\ pc = "ended" => script = << >>
     ELSE drawn = << >> /\ script = << >>
  /\ pc = "load" =>
       \/ text = Written(words)
       \/ \E n \in 0..Len(Written(words)) : text = Damaged(Written(words), n)

\* At first the companion has its text, and scrolls an empty one.
LEMMA CompanionInit == Init => CompanionInv
<1> SUFFICES ASSUME Init PROVE CompanionInv
  OBVIOUS
<1>1. Writings \subseteq Wordings /\ << >> \in Wordings
  BY WritingsAssumption, EmptySeq DEF Wordings, Inked, Points
<1>2. words \in Wordings
  BY <1>1 DEF Init
<1>3. pc \notin {"draw", "ended"} /\ drawn = << >> /\ script = << >>
  BY DEF Init
<1>4. pc = "load" =>
        \/ text = Written(words)
        \/ \E n \in 0..Len(Written(words)) : text = Damaged(Written(words), n)
  BY DEF Init
<1>5. QED
  BY <1>2, <1>3, <1>4 DEF CompanionInv

\* All is read before anything is drawn.
LEMMA LoadKeeps == CompanionInv /\ LoadWords => CompanionInv'
<1> SUFFICES ASSUME CompanionInv, LoadWords PROVE CompanionInv'
  OBVIOUS
<1>1. /\ pc = "load" /\ pc' = "draw" /\ script' = Drawing(WordsIn(text))
      /\ drawn' = drawn /\ words' = words /\ text' = text
  BY DEF LoadWords
<1>2. words \in Wordings /\ words \in Seq(Seq(Points)) /\ drawn = << >>
  BY <1>1, WordingsType DEF CompanionInv
<1>3. Drawing(words) \in Seq(Points)
  BY <1>2, DrawingIs
<1>4. /\ script' \in Seq(Points) /\ Begins(script', Drawing(words), Points)
      /\ AllParses(text) => script' = Drawing(words)
  <2>1. /\ WordsIn(text) \in Seq(Seq(Points))
        /\ Begins(Drawing(WordsIn(text)), Drawing(words), Points)
        /\ AllParses(text) => WordsIn(text) = words
    <3>1. CASE text = Written(words)
      BY <1>2, <3>1, WrittenIsReadBack
    <3>2. CASE \E n \in 0..Len(Written(words)) : text = Damaged(Written(words), n)
      BY <1>2, <3>2, DamagedIsReadInPart
    <3>3. QED
      BY <1>1, <3>1, <3>2 DEF CompanionInv
  <2>2. Drawing(WordsIn(text)) \in Seq(Points)
    BY <2>1, DrawingIs
  <2>3. AllParses(text) => Drawing(WordsIn(text)) = Drawing(words)
    BY <2>1
  <2>4. QED
    BY <1>1, <2>1, <2>2, <2>3
<1>5. drawn' = << >> /\ drawn' \in Seq(Points) /\ drawn' \o script' = script'
  BY <1>1, <1>2, <1>4, EmptySeq, ConcatEmptySeq
<1>6. QED
  BY <1>1, <1>2, <1>4, <1>5 DEF CompanionInv

\* A segment goes from the script to the drawing.
LEMMA DrawKeeps == CompanionInv /\ DrawGlyph => CompanionInv'
<1> SUFFICES ASSUME CompanionInv, DrawGlyph PROVE CompanionInv'
  OBVIOUS
<1>1. /\ pc = "draw" /\ pc' = "draw" /\ script # << >>
      /\ drawn' = Append(drawn, Head(script)) /\ script' = Tail(script)
      /\ words' = words /\ text' = text
  BY DEF DrawGlyph, scrollVars
<1>2. /\ drawn \in Seq(Points) /\ script \in Seq(Points) /\ words \in Wordings
      /\ Begins(drawn \o script, Drawing(words), Points)
      /\ AllParses(text) => drawn \o script = Drawing(words)
  BY <1>1 DEF CompanionInv
<1>3. PICK x \in Points, t \in Seq(Points) : script = Cons(x, t)
  BY <1>1, <1>2, FirstAndRest
<1>4. Head(script) = x /\ Tail(script) = t
  BY <1>3 DEF Cons
<1>5. drawn' \in Seq(Points) /\ script' \in Seq(Points)
  BY <1>1, <1>2, <1>4
<1>6. drawn' \o script' = drawn \o script
  <2>1. PICK o \in Seq(Points) : o = <<x>>
    <3>1. <<x>> \in Seq(Points)
      OBVIOUS
    <3>2. QED
      BY <3>1
  <2>2. drawn' = drawn \o o /\ script = o \o t
    <3>1. Append(drawn, x) = drawn \o <<x>>
      BY <1>2, AppendIsConcat
    <3>2. QED
      BY <1>1, <1>3, <1>4, <2>1, <3>1, Zenon DEF Cons
  <2>3. (drawn \o o) \o t = drawn \o (o \o t)
    BY <1>2, SMTT(30)
  <2>4. QED
    BY <1>1, <1>4, <2>2, <2>3, Zenon
<1>7. QED
  BY <1>1, <1>2, <1>5, <1>6 DEF CompanionInv

\* scrolls does not touch what the companion has.
LEMMA CompanionNext == CompanionInv /\ [Next]_vars => CompanionInv'
<1> SUFFICES ASSUME CompanionInv, [Next]_vars PROVE CompanionInv'
  OBVIOUS
<1>1. CASE LoadWords
  BY <1>1, LoadKeeps
<1>2. CASE DrawGlyph
  BY <1>2, DrawKeeps
<1>3. CASE GlyphsDone
  BY <1>3 DEF GlyphsDone, companionVars, CompanionInv
<1>4. CASE \/ OpenFile \/ ReadRecord \/ BadRecord \/ RaggedRecord \/ PaintNext
           \/ EraseOldest \/ EndOfFile \/ DrainNext \/ FileDone \/ AllPlayed
  <2>1. pc \notin {"load", "draw", "ended"} /\ pc' \notin {"load", "draw", "ended"}
    BY <1>4 DEF OpenFile, ReadRecord, BadRecord, RaggedRecord, PaintNext,
                EraseOldest, EndOfFile, DrainNext, FileDone, AllPlayed, Reading, Playing
  <2>2. UNCHANGED companionVars
    BY <1>4 DEF OpenFile, ReadRecord, BadRecord, RaggedRecord, PaintNext,
                EraseOldest, EndOfFile, DrainNext, FileDone, AllPlayed
  <2>3. QED
    BY <2>1, <2>2 DEF companionVars, CompanionInv
<1>5. CASE UNCHANGED vars
  BY <1>5 DEF vars, scrollVars, companionVars, CompanionInv
<1>6. QED
  BY <1>1, <1>2, <1>3, <1>4, <1>5 DEF Next

\* A beginning is a prefix.
LEMMA BeginsIsPrefix ==
  ASSUME NEW S, NEW a \in Seq(S), NEW b \in Seq(S), NEW c \in Seq(S), Begins(a \o b, c, S)
  PROVE  IsPrefix(a, c)
<1>1. PICK d \in Seq(S) : c = (a \o b) \o d
  BY DEF Begins
<1>2. PICK e \in Seq(S) : e = b \o d
  BY ConcatProperties
<1>3. (a \o b) \o d = a \o (b \o d)
  BY SMTT(30)
<1>4. c = a \o e
  BY <1>1, <1>2, <1>3, Zenon
<1>5. /\ Len(c) = Len(a) + Len(e) /\ Len(a) \in Nat /\ Len(e) \in Nat
      /\ \A i \in 1..(Len(a) + Len(e)) : c[i] = IF i <= Len(a) THEN a[i] ELSE e[i - Len(a)]
  BY <1>4, ConcatProperties, LenProperties
<1>6. Len(a) <= Len(c) /\ \A i \in 1..Len(a) : c[i] = a[i]
  BY <1>5
<1>7. SubSeq(a, 1, Len(a)) = SubSeq(c, 1, Len(a))
  BY <1>5, <1>6
<1>8. QED
  BY <1>6, <1>7 DEF IsPrefix

\* Whatever the text, the companion draws what it says: all of it, or what comes
\* before the damage or the number that its type does not hold.
THEOREM WhatIsWrittenIsDrawn == Spec => []DrawsWhatIsWritten
<1>1. CompanionInv => DrawsWhatIsWritten
  <2> SUFFICES ASSUME CompanionInv PROVE DrawsWhatIsWritten
    OBVIOUS
  <2>1. words \in Wordings /\ words \in Seq(Seq(Points))
    BY WordingsType DEF CompanionInv
  <2>2. PICK all \in Seq(Points) : all = Drawing(words)
    BY <2>1, DrawingIs
  <2>3. CASE pc \in {"draw", "ended"}
    <3>1. /\ drawn \in Seq(Points) /\ script \in Seq(Points)
          /\ Begins(drawn \o script, all, Points)
          /\ AllParses(text) => drawn \o script = all
          /\ pc = "ended" => script = << >>
      BY <2>2, <2>3 DEF CompanionInv
    <3>2. IsPrefix(drawn, all)
      BY <3>1, BeginsIsPrefix
    <3>3. pc = "ended" => drawn \o script = drawn
      BY <3>1, ConcatEmptySeq
    <3>4. QED
      BY <2>2, <3>1, <3>2, <3>3 DEF DrawsWhatIsWritten
  <2>4. CASE pc \notin {"draw", "ended"}
    <3>1. drawn = << >> /\ << >> \in Seq(Points)
      BY <2>4, EmptySeq DEF CompanionInv
    <3>2. Begins(<< >> \o << >>, all, Points)
      <4>1. << >> \o << >> = << >>
        BY <3>1, ConcatEmptySeq
      <4>2. QED
        BY <4>1, EmptyBegins
    <3>3. IsPrefix(drawn, all)
      BY <3>1, <3>2, BeginsIsPrefix
    <3>4. QED
      BY <2>2, <2>4, <3>3 DEF DrawsWhatIsWritten
  <2>5. QED
    BY <2>3, <2>4
<1>2. QED
  BY <1>1, CompanionInit, CompanionNext, PTL DEF Spec
=============================================================================

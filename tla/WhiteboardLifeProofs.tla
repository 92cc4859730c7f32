------------------------ MODULE WhiteboardLifeProofs ------------------------
(***************************************************************************)
(* Memberships, subscriptions and subjects of the whiteboard's event       *)
(* streams: proofs of LifeInv, of the four properties it implies, and that *)
(* the server implements the lossy ordered feed of module RoomFeed.        *)
(***************************************************************************)
EXTENDS WhiteboardFeedProofs

-----------------------------------------------------------------------------
(* Facts about the output buffer.                                          *)

LEMMA Pushed ==
  ASSUME out \in Seq(Command), NEW c \in Command, out' = Append(out, c)
  PROVE  /\ Len(out) \in Nat
         /\ DOMAIN out = 1..Len(out) /\ DOMAIN out' = 1..(Len(out) + 1)
         /\ \A i \in DOMAIN out : out'[i] = out[i]
         /\ out'[Len(out) + 1] = c
         /\ \A i \in DOMAIN out' : i \in DOMAIN out \/ i = Len(out) + 1
         /\ \A op, s : Asked(op, s)' <=> Asked(op, s) \/ (c.op = op /\ c.by = s)
         /\ \A s, k : InOut(s, k)' <=> InOut(s, k) \/ (c.by = s /\ c.kind = k)
<1>1. /\ Len(out) \in Nat
      /\ DOMAIN out = 1..Len(out) /\ DOMAIN out' = 1..(Len(out) + 1)
      /\ \A i \in DOMAIN out : out'[i] = out[i]
      /\ out'[Len(out) + 1] = c
  BY AppendProperties, LenProperties
<1>2. /\ \A i \in DOMAIN out' : i \in DOMAIN out \/ i = Len(out) + 1
      /\ DOMAIN out \subseteq DOMAIN out' /\ Len(out) + 1 \in DOMAIN out'
  BY <1>1
<1>3. \A op, s : Asked(op, s)' <=> Asked(op, s) \/ (c.op = op /\ c.by = s)
  BY <1>1, <1>2 DEF Asked
<1>4. \A s, k : InOut(s, k)' <=> InOut(s, k) \/ (c.by = s /\ c.kind = k)
  BY <1>1, <1>2 DEF InOut
<1>5. QED
  BY <1>1, <1>2, <1>3, <1>4

LEMMA Popped ==
  ASSUME out \in Seq(Command), out # << >>, out' = Tail(out)
  PROVE  /\ Head(out) = out[1] /\ out[1] \in Command /\ 1 \in DOMAIN out
         /\ DOMAIN out \subseteq Nat \ {0} /\ DOMAIN out' \subseteq Nat \ {0}
         /\ \A i \in DOMAIN out' : i + 1 \in DOMAIN out /\ out'[i] = out[i + 1]
         /\ \A i \in DOMAIN out : i = 1 \/ (i - 1 \in DOMAIN out' /\ out'[i - 1] = out[i])
         /\ \A op, s : Asked(op, s) <=> Asked(op, s)' \/ (out[1].op = op /\ out[1].by = s)
         /\ \A s, k : InOut(s, k) <=> InOut(s, k)' \/ (out[1].by = s /\ out[1].kind = k)
<1>1. /\ Len(out) \in Nat \ {0} /\ DOMAIN out = 1..Len(out)
      /\ Head(out) = out[1] /\ out[1] \in Command
      /\ DOMAIN out' = 1..(Len(out) - 1)
      /\ \A i \in DOMAIN out' : out'[i] = out[i + 1]
  BY HeadTailProperties, LenProperties, EmptySeq
<1>2. /\ \A i \in DOMAIN out' : i + 1 \in DOMAIN out
      /\ \A i \in DOMAIN out : i = 1 \/ (i - 1 \in DOMAIN out' /\ out'[i - 1] = out[i])
      /\ 1 \in DOMAIN out
  BY <1>1
<1>3. \A op, s : Asked(op, s) <=> Asked(op, s)' \/ (out[1].op = op /\ out[1].by = s)
  <2>1. \A op, s : Asked(op, s) =>
          Asked(op, s)' \/ (out[1].op = op /\ out[1].by = s)
    BY <1>2 DEF Asked
  <2>2. \A op, s : Asked(op, s)' => Asked(op, s)
    BY <1>1, <1>2 DEF Asked
  <2>3. QED
    BY <1>2, <2>1, <2>2 DEF Asked
<1>4. \A s, k : InOut(s, k) <=> InOut(s, k)' \/ (out[1].by = s /\ out[1].kind = k)
  <2>1. \A s, k : InOut(s, k) =>
          InOut(s, k)' \/ (out[1].by = s /\ out[1].kind = k)
    BY <1>2 DEF InOut
  <2>2. \A s, k : InOut(s, k)' => InOut(s, k)
    BY <1>1, <1>2 DEF InOut
  <2>3. QED
    BY <1>2, <2>1, <2>2 DEF InOut
<1>5. QED
  BY <1>1, <1>2, <1>3, <1>4

\* What an accepted event adds to the log.
LEMMA Logged ==
  ASSUME TypeOK, BrokerPub
  PROVE  LET e == EventOf(out[1])
         IN  /\ Len(log) \in Nat
             /\ DOMAIN log = 1..Len(log) /\ DOMAIN log' = 1..(Len(log) + 1)
             /\ \A n \in DOMAIN log : log'[n] = log[n]
             /\ log'[Len(log) + 1] = e
             /\ \A n \in DOMAIN log' : n \in DOMAIN log \/ n = Len(log) + 1
             /\ \A s, k : InLog(s, k)' <=> InLog(s, k) \/ (e.by = s /\ e.kind = k)
<1> DEFINE e == EventOf(out[1])
<1>1. out \in Seq(Command) /\ log \in Seq(Event) /\ out # << >> /\ out' = Tail(out)
  BY DEF TypeOK, NatsTypeOK, BrokerPub
<1>2. Head(out) = out[1] /\ out[1] \in Command /\ out[1].op = "pub"
  BY <1>1, Popped DEF BrokerPub
<1>3. e \in Event
  BY <1>2 DEF Command, Event, EventOf
<1>4. /\ Len(log) \in Nat
      /\ DOMAIN log = 1..Len(log) /\ DOMAIN log' = 1..(Len(log) + 1)
      /\ \A n \in DOMAIN log : log'[n] = log[n]
      /\ log'[Len(log) + 1] = e
  BY <1>1, <1>2, <1>3, AppendProperties, LenProperties DEF BrokerPub
<1>5. /\ \A n \in DOMAIN log' : n \in DOMAIN log \/ n = Len(log) + 1
      /\ DOMAIN log \subseteq DOMAIN log' /\ Len(log) + 1 \in DOMAIN log'
  BY <1>4
<1>6. \A s, k : InLog(s, k)' <=> InLog(s, k) \/ (e.by = s /\ e.kind = k)
  BY <1>4, <1>5 DEF InLog
<1>7. QED
  BY <1>4, <1>5, <1>6

\* After a reconnection out holds SUBs of running handlers, then a part of
\* what it held, in its order.
LEMMA Reconnected ==
  ASSUME TypeOK, ConnReconnects(Local)
  PROVE  \E m \in Nat, d \in Int :
           /\ DOMAIN out' \subseteq Nat /\ DOMAIN out = 1..Len(out) /\ Len(out) \in Nat
           /\ DOMAIN out' = 1..(Len(out) - d) /\ m + d >= 0 /\ m <= Len(out) - d
           /\ \A i \in 1..m :
                i \in DOMAIN out' => \E s \in Local : out'[i] = Sub(s)
           /\ \A i \in DOMAIN out' :
                i > m => i + d \in DOMAIN out /\ out'[i] = out[i + d]
<1> DEFINE m == Cardinality(Local)
<1>1. PICK kept \in 0..Len(out), order \in [1..m -> Local] :
        out' = [i \in DOMAIN order |-> Sub(order[i])]
                 \o SubSeq(out, Len(out) - kept + 1, Len(out))
  BY DEF ConnReconnects
<1> DEFINE resent == [i \in DOMAIN order |-> Sub(order[i])]
           rest == SubSeq(out, Len(out) - kept + 1, Len(out))
           d == Len(out) - kept - m
<1>2. out \in Seq(Command) /\ Len(out) \in Nat /\ DOMAIN out = 1..Len(out)
  BY LenProperties DEF TypeOK, NatsTypeOK
<1>3. /\ m \in Nat /\ kept \in Nat /\ kept <= Len(out) /\ d \in Int
      /\ d = Len(out) - kept - m
      /\ out' = resent \o rest
  BY <1>1, <1>2, LocalFinite
<1>4. resent \in Seq(Command) /\ Len(resent) = m
      /\ \A i \in 1..m : resent[i] = Sub(order[i])
  <2>1. \A i \in 1..m : Sub(order[i]) \in Command
    BY LocalFinite, CommandType
  <2>2. resent = [i \in 1..m |-> Sub(order[i])]
    OBVIOUS
  <2> HIDE DEF resent, m
  <2>3. QED
    BY <1>3, <2>1, <2>2, IsASeq
<1>5. /\ rest \in Seq(Command) /\ Len(rest) = kept
      /\ \A i \in 1..kept : rest[i] = out[Len(out) - kept + i]
  <2>1. \A i \in (Len(out) - kept + 1)..Len(out) : out[i] \in Command
    BY <1>2, <1>3, ElementOfSeq
  <2>2. Len(out) - kept + 1 \in Int /\ Len(out) \in Int
    BY <1>2, <1>3
  <2>3. rest \in Seq(Command)
    BY <2>1, <2>2, SubSeqProperties
  <2>4. QED
    BY <1>2, <1>3, <2>3
<1> HIDE DEF m, d, resent, rest
<1>6. /\ out' \in Seq(Command) /\ Len(out') = m + kept
      /\ \A i \in 1..(m + kept) :
           out'[i] = IF i <= m THEN resent[i] ELSE rest[i - m]
  <2>1. /\ resent \o rest \in Seq(Command)
        /\ Len(resent \o rest) = Len(resent) + Len(rest)
        /\ \A i \in 1..(Len(resent) + Len(rest)) : (resent \o rest)[i] =
             IF i <= Len(resent) THEN resent[i] ELSE rest[i - Len(resent)]
    BY <1>4, <1>5, ConcatProperties
  <2>2. QED
    BY <1>3, <1>4, <1>5, <2>1
<1>7. DOMAIN out' = 1..(Len(out) - d) /\ m + d >= 0 /\ m <= Len(out) - d
  <2>1. DOMAIN out' = 1..(m + kept)
    BY <1>6, LenProperties
  <2>2. QED
    BY <1>2, <1>3, <2>1
<1>8. \A i \in 1..m : i \in DOMAIN out' => \E s \in Local : out'[i] = Sub(s)
  BY <1>3, <1>4, <1>6
<1>9. \A i \in DOMAIN out' :
        i > m => i + d \in DOMAIN out /\ out'[i] = out[i + d]
  <2>1. ASSUME NEW i \in 1..(m + kept), i > m
        PROVE  i + d \in 1..Len(out) /\ out'[i] = out[i + d]
    <3>1. i - m \in 1..kept /\ Len(out) - kept + (i - m) = i + d
      BY <1>2, <1>3, <2>1
    <3>2. out'[i] = rest[i - m]
      <4>1. ~(i <= m)
        BY <1>3, <2>1
      <4>2. QED
        BY <1>6, <2>1, <4>1
    <3>3. rest[i - m] = out[Len(out) - kept + (i - m)]
      BY <1>5, <3>1
    <3>4. i + d \in 1..Len(out)
      BY <1>2, <1>3, <2>1
    <3>5. QED
      BY <3>1, <3>2, <3>3, <3>4
  <2>2. DOMAIN out' = 1..(m + kept)
    BY <1>2, <1>3, <1>7
  <2>3. QED
    BY <1>2, <2>1, <2>2
<1>10. /\ DOMAIN out' \subseteq Nat /\ DOMAIN out = 1..Len(out)
       /\ Len(out) \in Nat /\ m \in Nat /\ d \in Int
  BY <1>2, <1>3, <1>7
<1>11. QED
  BY <1>7, <1>8, <1>9, <1>10

-----------------------------------------------------------------------------
(* LifeInv is inductive: one lemma per kind of step.                       *)

Membership == {"userjoinedroom", "userleftroom"}
Busy == {"joined", "counted", "select", "got", "leaving"}

\* A call's publication is refused, or it is buffered.
CallGivesUp(c) ==
  /\ callPc[c] = "publishing" /\ todo[c] # << >>
  /\ CallReturns(c, "error")
  /\ UNCHANGED <<natsVars, streamVars, todo, refused, faults>>

CallTells(c) ==
  /\ callPc[c] = "publishing" /\ todo[c] # << >> /\ KindOf[c] \in EventKinds
  /\ Enqueue(Pub(c, Head(todo[c]), KindOf[c]))
  /\ todo' = [todo EXCEPT ![c] = Tail(@)]
  /\ CallReturns(c, IF Tail(todo[c]) = << >> THEN "ok" ELSE "publishing")
  /\ UNCHANGED <<conn, subs, log, streamVars, refused, faults>>

LEMMA CallSteps ==
  ASSUME NEW c \in Calls, CallPublish(c)
  PROVE  CallGivesUp(c) \/ CallTells(c)
BY DEF CallPublish, PublishRefused, HasRoutingKey, CallGivesUp, CallTells, natsVars

\* A step that leaves the connection and the calls alone, and at most starts
\* and fails a handler or moves one between its join and its leave.
Moves ==
  /\ UNCHANGED <<conn, out, subs, log, refused, faults>>
  /\ \A c \in Calls : callPc'[c] = "publishing" =>
       /\ CallValid(c)
       /\ \A i \in DOMAIN todo'[c] : todo'[c][i] \in Clean
  /\ \A s \in Streams :
       \/ pc'[s] = pc[s] /\ err'[s] = err[s]
       \/ /\ pc[s] = "idle" /\ pc'[s] = "done" /\ err'[s] = "error"
       \/ pc[s] \in Busy /\ pc'[s] \in Busy

LEMMA MoveStep ==
  ASSUME LifeInv, Moves
  PROVE  LifeInv'
<1>1. /\ \A s, k : (InLog(s, k)' <=> InLog(s, k)) /\ (Announced(s, k)' <=> Announced(s, k))
      /\ \A op, s : Asked(op, s)' <=> Asked(op, s)
  BY DEF Moves, InLog, InOut, Announced, Asked
<1> USE DEF Moves, Busy, Running, LifeInv
<1>2. ProperInv'
  BY DEF ProperInv, Proper
<1>3. MembershipInv'
  BY <1>1 DEF MembershipInv
<1>4. SubscriptionInv' /\ NoLeakedSubscription'
  BY <1>1 DEF SubscriptionInv, NoLeakedSubscription
<1>5. AnnounceInv'
  BY <1>1 DEF AnnounceInv, Tidy
<1>6. JoinersLeave'
  BY <1>1 DEF JoinersLeave, Tidy, MembershipInv, AnnounceInv
<1>7. CleanSubjects' /\ MembershipOrder'
  BY DEF CleanSubjects, MembershipOrder
<1>8. QED
  BY <1>2, <1>3, <1>4, <1>5, <1>6, <1>7

LEMMA StreamMoves ==
  ASSUME TypeOK, LifeInv, NEW s \in Streams,
         \/ Reject(s) \/ Count(s) \/ CountFails(s) \/ SendCount(s)
         \/ SendFails(s) \/ TakeCopy(s) \/ DropCopy(s) \/ SkipOwn(s)
         \/ Forward(s) \/ Cancelled(s) \/ ClientCancels(s)
  PROVE  Moves
<1>1. UNCHANGED <<conn, out, subs, log, refused, faults, callPc, todo>>
  BY DEF Reject, Count, CountFails, SendCount, SendFails, TakeCopy, DropCopy,
         SkipOwn, Forward, Cancelled, ClientCancels, natsVars, callVars, streamVars
<1>2. \A t \in Streams \ {s} : pc'[t] = pc[t] /\ err'[t] = err[t]
  BY DEF Reject, Count, CountFails, SendCount, SendFails, TakeCopy, DropCopy,
         SkipOwn, Forward, Cancelled, ClientCancels, streamVars, Goto, Fails, TypeOK
<1>3. \/ pc'[s] = pc[s] /\ err'[s] = err[s]
      \/ pc[s] = "idle" /\ pc'[s] = "done" /\ err'[s] = "error"
      \/ pc[s] \in Busy /\ pc'[s] \in Busy
  BY DEF Reject, Count, CountFails, SendCount, SendFails, TakeCopy, DropCopy,
         SkipOwn, Forward, Cancelled, ClientCancels, streamVars, Goto, Fails,
         TypeOK, Parked, Busy
<1>4. QED
  BY <1>1, <1>2, <1>3 DEF Moves, LifeInv, ProperInv

LEMMA CallMoves ==
  ASSUME TypeOK, LifeInv, NEW c \in Calls, CallStart(c) \/ CallGivesUp(c)
  PROVE  Moves
<1>1. UNCHANGED <<conn, out, subs, log, refused, faults, pc, err>>
  BY DEF CallStart, CallGivesUp, natsVars, streamVars
<1>2. ASSUME NEW d \in Calls, callPc'[d] = "publishing"
      PROVE  CallValid(d) /\ \A i \in DOMAIN todo'[d] : todo'[d][i] \in Clean
  <2>1. CASE CallStart(c)
    BY <1>2, <2>1 DEF CallStart, CallReturns, TypeOK, LifeInv, ProperInv, CallValid
  <2>2. CASE CallGivesUp(c)
    BY <1>2, <2>2 DEF CallGivesUp, CallReturns, TypeOK, LifeInv, ProperInv
  <2>3. QED
    BY <2>1, <2>2
<1>3. QED
  BY <1>1, <1>2 DEF Moves

\* A command pushed for a handler or a call, with what its place in the
\* handler or the request says about it.
PushOf(c) ==
  /\ conn = "open" /\ out' = Append(out, c) /\ c \in Command
  /\ UNCHANGED <<conn, subs, log, refused, faults>>

LEMMA PushKeepsProper ==
  ASSUME TypeOK, LifeInv, NEW c, PushOf(c),
         c.op = "pub" => Proper(c.by, c.room, c.kind),
         \A s \in Streams : Running(s)' => StreamValid(s),
         \A d \in Calls : callPc'[d] = "publishing" =>
           CallValid(d) /\ \A i \in DOMAIN todo'[d] : todo'[d][i] \in Clean
  PROVE  ProperInv' /\ CleanSubjects' /\ MembershipOrder'
<1>1. /\ \A i \in DOMAIN out : out'[i] = out[i]
      /\ \A i \in DOMAIN out' : i \in DOMAIN out \/ out'[i] = c
  BY Pushed DEF PushOf, TypeOK, NatsTypeOK
<1>2. QED
  BY <1>1 DEF PushOf, LifeInv, ProperInv, CleanSubjects, MembershipOrder, Proper

LEMMA PushKeepsMembership ==
  ASSUME TypeOK, LifeInv, NEW c, PushOf(c),
         c.op = "pub" /\ c.by \in Streams =>
           /\ ~InLog(c.by, c.kind)
           /\ ~Announced(c.by, "userleftroom")
           /\ c.kind = "userjoinedroom" => ~InOut(c.by, "userjoinedroom")
           /\ c.kind \in Membership,
         \A s \in Streams :
           /\ pc'[s] \in {"idle", "subscribed"} =>
                /\ pc[s] \in {"idle", "subscribed"}
                /\ c.op = "pub" => c.by # s
           /\ Running(s)' /\ pc'[s] # "unsub" =>
                /\ (Running(s) /\ pc[s] # "unsub") \/ pc[s] = "idle"
                /\ c.by = s => c.kind # "userleftroom"
  PROVE  MembershipInv'
<1>1. /\ Len(out) \in Nat
      /\ DOMAIN out = 1..Len(out) /\ DOMAIN out' = 1..(Len(out) + 1)
      /\ \A i \in DOMAIN out : out'[i] = out[i]
      /\ out'[Len(out) + 1] = c
      /\ \A s, k : InOut(s, k)' <=> InOut(s, k) \/ (c.by = s /\ c.kind = k)
  BY Pushed DEF PushOf, TypeOK, NatsTypeOK
<1>2. \A s, k : InLog(s, k)' <=> InLog(s, k)
  BY DEF PushOf, InLog
<1>3. c.op # "pub" => c.kind \notin Membership
  BY DEF PushOf, Command, Membership
<1>4. ASSUME NEW s \in Streams
      PROVE  /\ pc'[s] \in {"idle", "subscribed"} =>
                  ~Announced(s, "userjoinedroom")' /\ ~Announced(s, "userleftroom")'
             /\ Running(s)' /\ pc'[s] # "unsub" => ~Announced(s, "userleftroom")'
  BY <1>1, <1>2, <1>3 DEF LifeInv, MembershipInv, Announced, Running, Membership
<1>5. ASSUME NEW i \in DOMAIN out', out'[i].op = "pub", out'[i].by \in Streams
      PROVE  /\ ~InLog(out[i].by, out[i].kind)'
             /\ ~InLog(out[i].by, "userleftroom")'
             /\ \A j \in DOMAIN out' :
                  j < i /\ out'[j].op = "pub" /\ out'[j].by = out'[i].by =>
                    out'[j].kind = "userjoinedroom" /\ out'[i].kind = "userleftroom"
  <2>1. CASE i \in DOMAIN out
    <3>1. \A j \in DOMAIN out' : j < i => j \in DOMAIN out
      BY <1>1, <2>1
    <3>2. ~InLog(out[i].by, out[i].kind) /\ ~InLog(out[i].by, "userleftroom")
      BY <1>1, <1>5, <2>1 DEF LifeInv, MembershipInv
    <3>3. ~InLog(out[i].by, out[i].kind)' /\ ~InLog(out[i].by, "userleftroom")'
      BY <1>1, <2>1, <3>2 DEF PushOf, InLog
    <3>4. QED
      BY <1>1, <1>5, <2>1, <3>1, <3>3 DEF LifeInv, MembershipInv
  <2>2. CASE i = Len(out) + 1
    <3>1. ~InLog(c.by, c.kind) /\ ~InLog(c.by, "userleftroom")
      BY <1>1, <1>5, <2>2 DEF Announced
    <3>2. ASSUME NEW j \in DOMAIN out, out[j].op = "pub", out[j].by = c.by
          PROVE  out[j].kind = "userjoinedroom" /\ c.kind = "userleftroom"
      <4>1. out[j].kind \in Membership
        <5>1. out[j] \in Command
          BY ElementOfSeq, <1>1 DEF TypeOK, NatsTypeOK
        <5>2. out[j].kind # "drawing"
          BY <1>1, <1>5, <2>2, <3>2 DEF LifeInv, ProperInv, Proper
        <5>3. QED
          BY <3>2, <5>1, <5>2 DEF Command, EventKinds, Membership
      <4>2. InOut(c.by, out[j].kind)
        BY <3>2 DEF InOut
      <4>3. out[j].kind # "userleftroom"
        BY <1>1, <1>5, <2>2, <4>2 DEF Announced
      <4>4. QED
        BY <1>1, <1>5, <2>2, <4>1, <4>2, <4>3 DEF Membership
    <3>3. \A j \in DOMAIN out' : j < i => j \in DOMAIN out /\ out'[j] = out[j]
      BY <1>1, <2>2
    <3>4. ~InLog(out[i].by, out[i].kind)' /\ ~InLog(out[i].by, "userleftroom")'
      BY <1>1, <2>2, <3>1 DEF PushOf, InLog
    <3>5. QED
      BY <1>1, <2>2, <3>2, <3>3, <3>4
  <2>3. QED
    BY <1>1, <2>1, <2>2
<1>6. QED
  BY <1>4, <1>5 DEF MembershipInv

LEMMA PushKeepsSubscriptions ==
  ASSUME TypeOK, LifeInv, NEW c, PushOf(c),
         c.op = "sub" => pc[c.by] = "idle" /\ pc'[c.by] = "subscribed",
         c.op = "unsub" => pc'[c.by] = "done",
         \A s \in Streams :
           /\ pc'[s] = "idle" => pc[s] = "idle"
           /\ pc[s] = "done" => pc'[s] = "done"
           /\ pc'[s] = "done" => pc[s] = "done" \/ (c.op = "unsub" /\ c.by = s)
  PROVE  SubscriptionInv' /\ NoLeakedSubscription'
<1>1. /\ Len(out) \in Nat
      /\ DOMAIN out = 1..Len(out) /\ DOMAIN out' = 1..(Len(out) + 1)
      /\ \A i \in DOMAIN out : out'[i] = out[i]
      /\ out'[Len(out) + 1] = c
      /\ \A op, s : Asked(op, s)' <=> Asked(op, s) \/ (c.op = op /\ c.by = s)
  BY Pushed DEF PushOf, TypeOK, NatsTypeOK
<1>2. ASSUME NEW i \in DOMAIN out', NEW j \in DOMAIN out',
             out'[i].op = "unsub", out'[j].op = "sub", out'[i].by = out'[j].by
      PROVE  j < i
  <2>1. CASE i \in DOMAIN out /\ j \in DOMAIN out
    BY <1>1, <1>2, <2>1 DEF LifeInv, SubscriptionInv
  <2>2. CASE i = Len(out) + 1
    BY <1>1, <1>2, <2>2
  <2>3. CASE i \in DOMAIN out /\ j = Len(out) + 1
    <3>1. Asked("unsub", c.by) /\ c.by \in Streams
      BY <1>1, <1>2, <2>3 DEF Asked, PushOf, Command
    <3>2. pc[c.by] = "done"
      BY <3>1 DEF LifeInv, SubscriptionInv
    <3>3. QED
      BY <1>1, <1>2, <2>3, <3>2
  <2>4. QED
    BY <1>1, <2>1, <2>2, <2>3
<1>3. SubscriptionInv'
  BY <1>1, <1>2 DEF LifeInv, SubscriptionInv, PushOf
<1>4. NoLeakedSubscription'
  BY <1>1 DEF LifeInv, NoLeakedSubscription, PushOf
<1>5. QED
  BY <1>3, <1>4

LEMMA PushKeepsAnnouncements ==
  ASSUME TypeOK, LifeInv, NEW c, PushOf(c),
         \A s \in Streams :
           \/ pc'[s] = pc[s] /\ err'[s] = err[s] /\ c.by # s
           \/ pc[s] = "idle" /\ pc'[s] = "subscribed"
           \/ pc[s] = "subscribed" /\ pc'[s] = "joined" /\ c.by = s
                /\ c.kind = "userjoinedroom"
           \/ pc[s] = "leaving" /\ pc'[s] = "unsub" /\ c.by = s
                /\ c.kind = "userleftroom" /\ err'[s] = "nil"
           \/ pc[s] = "unsub" /\ pc'[s] = "done" /\ err'[s] = err[s]
                /\ c.kind = "*"
  PROVE  AnnounceInv' /\ JoinersLeave'
<1>1. \A s, k : InOut(s, k)' <=> InOut(s, k) \/ (c.by = s /\ c.kind = k)
  BY Pushed DEF PushOf, TypeOK, NatsTypeOK
<1>2. \A s, k : InLog(s, k)' <=> InLog(s, k)
  BY DEF PushOf, InLog
<1>3. \A s, k : Announced(s, k)' <=> Announced(s, k) \/ (c.by = s /\ c.kind = k)
  BY <1>1, <1>2 DEF Announced
<1>4. \A s \in Streams : Tidy(s) /\ pc'[s] = pc[s] /\ err'[s] = err[s] /\ c.by # s
        => Tidy(s)'
  BY <1>3 DEF Tidy, PushOf
<1>5. ASSUME NEW s \in Streams, faults' = 0
      PROVE  /\ Running(s)' /\ pc'[s] \notin {"subscribed", "unsub"} =>
                  Announced(s, "userjoinedroom")'
             /\ s \in refused' => pc'[s] \in {"unsub", "done"}
             /\ pc'[s] \in {"unsub", "done"} => Tidy(s)'
  <2>1. /\ faults = 0 /\ refused' = refused
        /\ Running(s) /\ pc[s] \notin {"subscribed", "unsub"} =>
             Announced(s, "userjoinedroom")
        /\ s \in refused => pc[s] \in {"unsub", "done"}
        /\ pc[s] \in {"unsub", "done"} => Tidy(s)
    BY <1>5 DEF LifeInv, AnnounceInv, JoinersLeave, PushOf
  <2>2. CASE pc'[s] = pc[s] /\ err'[s] = err[s] /\ c.by # s
    BY <1>3, <1>4, <2>1, <2>2 DEF Running
  <2>3. CASE pc[s] = "idle" /\ pc'[s] = "subscribed"
    BY <2>1, <2>3
  <2>4. CASE /\ pc[s] = "subscribed" /\ pc'[s] = "joined" /\ c.by = s
             /\ c.kind = "userjoinedroom"
    BY <1>3, <2>1, <2>4
  <2>5. CASE /\ pc[s] = "leaving" /\ pc'[s] = "unsub" /\ c.by = s
             /\ c.kind = "userleftroom" /\ err'[s] = "nil"
    BY <1>3, <2>1, <2>5 DEF Running, Tidy
  <2>6. CASE pc[s] = "unsub" /\ pc'[s] = "done" /\ err'[s] = err[s] /\ c.kind = "*"
    BY <1>3, <2>1, <2>6 DEF Running, Tidy
  <2>7. QED
    BY <2>2, <2>3, <2>4, <2>5, <2>6
<1>6. faults' = 0 => conn' = "open"
  BY DEF LifeInv, AnnounceInv, PushOf
<1>7. QED
  BY <1>5, <1>6 DEF AnnounceInv, JoinersLeave

\* What becomes of a handler's command: it is refused, or it is buffered.
StreamGivesUp(s) ==
  /\ UNCHANGED <<conn, out, subs, log, faults, callPc, todo>>
  /\ \A t \in Streams \ {s} : pc'[t] = pc[t] /\ err'[t] = err[t]
  /\ \/ /\ pc[s] = "subscribed" /\ pc'[s] = "unsub" /\ err'[s] = "error"
        /\ refused' = refused
     \/ /\ pc[s] = "leaving" /\ pc'[s] = "unsub" /\ err'[s] = "error"
        /\ refused' = refused \cup {s}
     \/ /\ pc[s] = "unsub" /\ pc'[s] = "done" /\ conn = "closed"
        /\ refused' = refused

StreamAsks(s) ==
  /\ callPc' = callPc /\ todo' = todo
  /\ \A t \in Streams \ {s} : pc'[t] = pc[t] /\ err'[t] = err[t]
  /\ \E c \in {Sub(s), Unsub(s), Pub(s, RoomOf[s], "userjoinedroom"),
                  Pub(s, RoomOf[s], "userleftroom")} :
        /\ PushOf(c)
        /\ \/ c = Sub(s) /\ pc[s] = "idle" /\ pc'[s] = "subscribed"
                /\ StreamValid(s)
           \/ c = Pub(s, RoomOf[s], "userjoinedroom")
                /\ pc[s] = "subscribed" /\ pc'[s] = "joined"
           \/ c = Pub(s, RoomOf[s], "userleftroom")
                /\ pc[s] = "leaving" /\ pc'[s] = "unsub" /\ err'[s] = "nil"
           \/ c = Unsub(s)
                /\ pc[s] = "unsub" /\ pc'[s] = "done" /\ err'[s] = err[s]

LEMMA StreamSteps ==
  ASSUME TypeOK, NEW s \in Streams,
         \/ Subscribe(s) \/ PublishJoin(s) \/ PublishLeave(s) \/ Unsubscribe(s)
  PROVE  StreamGivesUp(s) \/ StreamAsks(s)
<1>1. \A t \in Streams \ {s} : pc'[t] = pc[t] /\ err'[t] = err[t]
  BY DEF Subscribe, PublishJoin, PublishLeave, Unsubscribe, Goto, Fails, TypeOK
<1>2. callPc' = callPc /\ todo' = todo
  BY DEF Subscribe, PublishJoin, PublishLeave, Unsubscribe, callVars
<1>3. CASE Subscribe(s)
  <2>1. PushOf(Sub(s)) /\ pc[s] = "idle" /\ pc'[s] = "subscribed" /\ StreamValid(s)
    BY <1>3, CommandType DEF Subscribe, Enqueue, PushOf, Goto, TypeOK
  <2>2. QED
    BY <1>1, <1>2, <2>1 DEF StreamAsks
<1>4. CASE PublishJoin(s)
  <2>1. CASE Enqueue(Pub(s, RoomOf[s], "userjoinedroom")) /\ Goto(s, "joined")
    <3>1. /\ PushOf(Pub(s, RoomOf[s], "userjoinedroom"))
          /\ pc[s] = "subscribed" /\ pc'[s] = "joined"
      BY <1>4, <2>1, CommandType
         DEF PublishJoin, Enqueue, PushOf, Goto, TypeOK, EventKinds
    <3>2. QED
      BY <1>1, <1>2, <3>1 DEF StreamAsks
  <2>2. CASE PublishRefused /\ Goto(s, "unsub") /\ Fails(s)
    BY <1>1, <1>2, <1>4, <2>2
       DEF PublishJoin, PublishRefused, Goto, Fails, TypeOK, StreamGivesUp
  <2>3. QED
    BY <1>4, <2>1, <2>2 DEF PublishJoin
<1>5. CASE PublishLeave(s)
  <2>1. CASE /\ Enqueue(Pub(s, RoomOf[s], "userleftroom"))
             /\ err' = [err EXCEPT ![s] = "nil"] /\ refused' = refused
    <3>1. /\ PushOf(Pub(s, RoomOf[s], "userleftroom"))
          /\ pc[s] = "leaving" /\ pc'[s] = "unsub" /\ err'[s] = "nil"
      BY <1>5, <2>1, CommandType
         DEF PublishLeave, Enqueue, PushOf, Goto, TypeOK, EventKinds
    <3>2. QED
      BY <1>1, <1>2, <3>1 DEF StreamAsks
  <2>2. CASE PublishRefused /\ Fails(s) /\ refused' = refused \cup {s}
    BY <1>1, <1>2, <1>5, <2>2
       DEF PublishLeave, PublishRefused, Goto, Fails, TypeOK, StreamGivesUp
  <2>3. QED
    BY <1>5, <2>1, <2>2 DEF PublishLeave
<1>6. CASE Unsubscribe(s)
  <2>1. CASE Enqueue(Unsub(s))
    <3>1. PushOf(Unsub(s)) /\ pc[s] = "unsub" /\ pc'[s] = "done" /\ err'[s] = err[s]
      BY <1>6, <2>1, CommandType DEF Unsubscribe, Enqueue, PushOf, Goto, TypeOK
    <3>2. QED
      BY <1>1, <1>2, <3>1 DEF StreamAsks
  <2>2. CASE Refused
    BY <1>1, <1>2, <1>6, <2>2 DEF Unsubscribe, Refused, Goto, TypeOK, StreamGivesUp
  <2>3. QED
    BY <1>6, <2>1, <2>2 DEF Unsubscribe
<1>7. QED
  BY <1>3, <1>4, <1>5, <1>6

LEMMA StreamPushStep ==
  ASSUME TypeOK, LifeInv, NEW s \in Streams, StreamAsks(s)
  PROVE  LifeInv'
<1>2. \A t \in Streams \ {s} : pc'[t] = pc[t] /\ err'[t] = err[t]
  BY DEF StreamAsks
<1>3. PICK c \in {Sub(s), Unsub(s), Pub(s, RoomOf[s], "userjoinedroom"),
                  Pub(s, RoomOf[s], "userleftroom")} :
        /\ PushOf(c)
        /\ \/ c = Sub(s) /\ pc[s] = "idle" /\ pc'[s] = "subscribed"
                /\ StreamValid(s)
           \/ c = Pub(s, RoomOf[s], "userjoinedroom")
                /\ pc[s] = "subscribed" /\ pc'[s] = "joined"
           \/ c = Pub(s, RoomOf[s], "userleftroom")
                /\ pc[s] = "leaving" /\ pc'[s] = "unsub" /\ err'[s] = "nil"
           \/ c = Unsub(s)
                /\ pc[s] = "unsub" /\ pc'[s] = "done" /\ err'[s] = err[s]
  BY DEF StreamAsks
<1>4. callPc' = callPc /\ todo' = todo
  BY DEF StreamAsks
<1>5. StreamValid(s) /\ (RoomOf[s] \in Clean /\ UserOf[s] \in Clean)
  BY <1>3 DEF LifeInv, ProperInv, Running, StreamValid
<1>6. c.by = s
  BY <1>3 DEF Sub, Unsub, Pub
<1>7. ProperInv' /\ CleanSubjects' /\ MembershipOrder'
  <2>1. c.op = "pub" => Proper(c.by, c.room, c.kind)
    BY <1>3, <1>5, ConnAssumption DEF Proper, Sub, Unsub, Pub
  <2>2. \A t \in Streams : Running(t)' => StreamValid(t)
    BY <1>2, <1>5 DEF LifeInv, ProperInv, Running
  <2>3. QED
    BY <1>3, <1>4, <2>1, <2>2, PushKeepsProper DEF LifeInv, ProperInv
<1>8. MembershipInv'
  <2>1. c.op = "pub" => ~Announced(s, "userleftroom")
    BY <1>3 DEF LifeInv, MembershipInv, Running, Sub, Unsub
  <2>2. c.op = "pub" =>
          /\ ~InLog(c.by, c.kind)
          /\ ~Announced(c.by, "userleftroom")
          /\ c.kind = "userjoinedroom" => ~InOut(c.by, "userjoinedroom")
          /\ c.kind \in Membership
    BY <1>3, <1>6, <2>1
       DEF Pub, Sub, Unsub, LifeInv, MembershipInv, Announced, Membership
  <2>3. \A t \in Streams :
          /\ pc'[t] \in {"idle", "subscribed"} =>
               /\ pc[t] \in {"idle", "subscribed"}
               /\ c.op = "pub" => c.by # t
          /\ Running(t)' /\ pc'[t] # "unsub" =>
               /\ (Running(t) /\ pc[t] # "unsub") \/ pc[t] = "idle"
               /\ c.by = t => c.kind # "userleftroom"
    BY <1>2, <1>3, <1>6 DEF Pub, Sub, Unsub, Running
  <2>4. QED
    BY <1>3, <2>2, <2>3, PushKeepsMembership
<1>9. SubscriptionInv' /\ NoLeakedSubscription'
  <2>1. /\ c.op = "sub" => pc[c.by] = "idle" /\ pc'[c.by] = "subscribed"
        /\ c.op = "unsub" => pc'[c.by] = "done"
    BY <1>3 DEF Pub, Sub, Unsub
  <2>2. \A t \in Streams :
           /\ pc'[t] = "idle" => pc[t] = "idle"
           /\ pc[t] = "done" => pc'[t] = "done"
           /\ pc'[t] = "done" => pc[t] = "done" \/ (c.op = "unsub" /\ c.by = t)
    BY <1>2, <1>3 DEF Pub, Sub, Unsub
  <2>3. QED
    BY <1>3, <2>1, <2>2, PushKeepsSubscriptions
<1>10. AnnounceInv' /\ JoinersLeave'
  <2>1. \A t \in Streams :
           \/ pc'[t] = pc[t] /\ err'[t] = err[t] /\ c.by # t
           \/ pc[t] = "idle" /\ pc'[t] = "subscribed"
           \/ pc[t] = "subscribed" /\ pc'[t] = "joined" /\ c.by = t
                /\ c.kind = "userjoinedroom"
           \/ pc[t] = "leaving" /\ pc'[t] = "unsub" /\ c.by = t
                /\ c.kind = "userleftroom" /\ err'[t] = "nil"
           \/ pc[t] = "unsub" /\ pc'[t] = "done" /\ err'[t] = err[t]
                /\ c.kind = "*"
    BY <1>2, <1>3 DEF Pub, Sub, Unsub
  <2>2. QED
    BY <1>3, <2>1, PushKeepsAnnouncements
<1>11. QED
  BY <1>7, <1>8, <1>9, <1>10 DEF LifeInv

LEMMA CallPushStep ==
  ASSUME TypeOK, LifeInv, NEW d \in Calls, CallTells(d)
  PROVE  LifeInv'
<1> DEFINE c == Pub(d, Head(todo[d]), KindOf[d])
<1>1. Enqueue(c) /\ todo' = [todo EXCEPT ![d] = Tail(@)]
  BY DEF CallTells
<1>2. todo[d] \in Seq(Rooms) /\ todo[d] # << >>
  BY DEF TypeOK, CallTells
<1>3. /\ Head(todo[d]) = todo[d][1] /\ 1 \in DOMAIN todo[d]
      /\ Head(todo[d]) \in Rooms
      /\ \A i \in DOMAIN Tail(todo[d]) :
           i + 1 \in DOMAIN todo[d] /\ Tail(todo[d])[i] = todo[d][i + 1]
  <2>1. /\ Len(Tail(todo[d])) = Len(todo[d]) - 1 /\ Tail(todo[d]) \in Seq(Rooms)
        /\ Head(todo[d]) \in Rooms
        /\ \A i \in 1..Len(Tail(todo[d])) : Tail(todo[d])[i] = todo[d][i + 1]
    BY <1>2, HeadTailProperties
  <2>2. /\ DOMAIN todo[d] = 1..Len(todo[d])
        /\ DOMAIN Tail(todo[d]) = 1..Len(Tail(todo[d]))
        /\ Len(todo[d]) \in Nat \ {0}
    BY <1>2, <2>1, LenProperties, EmptySeq
  <2>3. QED
    BY <1>2, <2>1, <2>2
<1>4. callPc[d] = "publishing" /\ KindOf[d] \in EventKinds
  BY DEF CallTells
<1>5. CallValid(d) /\ \A i \in DOMAIN todo[d] : todo[d][i] \in Clean
  BY <1>4 DEF LifeInv, ProperInv
<1>6. PushOf(c)
  BY <1>1, <1>3, <1>4, CallCommandType DEF Enqueue, PushOf, CallTells
<1>7. /\ pc' = pc /\ err' = err
      /\ c.by = d /\ c.op = "pub" /\ c.kind = "drawing"
      /\ Proper(c.by, c.room, c.kind)
  BY <1>3, <1>4, <1>5, ConnAssumption
     DEF CallTells, streamVars, Pub, CallValid, EventKinds, Proper
<1>8. d \notin Streams
  BY ConnAssumption
<1> HIDE DEF c
<1>9. ProperInv' /\ CleanSubjects' /\ MembershipOrder'
  <2>1. \A e \in Calls : callPc'[e] = "publishing" =>
          CallValid(e) /\ \A i \in DOMAIN todo'[e] : todo'[e][i] \in Clean
    <3>1. ASSUME NEW e \in Calls, callPc'[e] = "publishing"
          PROVE  CallValid(e) /\ \A i \in DOMAIN todo'[e] : todo'[e][i] \in Clean
      <4>1. CASE e = d
        BY <1>1, <1>3, <1>5, <4>1 DEF TypeOK
      <4>2. CASE e # d
        <5>1. callPc[e] = "publishing" /\ todo'[e] = todo[e]
          BY <1>1, <3>1, <4>2 DEF CallTells, CallReturns, TypeOK
        <5>2. QED
          BY <5>1 DEF LifeInv, ProperInv
      <4>3. QED
        BY <4>1, <4>2
    <3>2. QED
      BY <3>1
  <2>2. QED
    BY <1>6, <1>7, <2>1, PushKeepsProper DEF LifeInv, ProperInv, Running
<1>10. MembershipInv'
  BY <1>6, <1>7, <1>8, PushKeepsMembership DEF Running
<1>11. SubscriptionInv' /\ NoLeakedSubscription'
  BY <1>6, <1>7, PushKeepsSubscriptions
<1>12. AnnounceInv' /\ JoinersLeave'
  BY <1>6, <1>7, <1>8, PushKeepsAnnouncements
<1>13. QED
  BY <1>9, <1>10, <1>11, <1>12 DEF LifeInv

\* A handler that is refused gives up quietly.
LEMMA StreamRefusedStep ==
  ASSUME TypeOK, LifeInv, NEW s \in Streams, StreamGivesUp(s)
  PROVE  LifeInv'
<1>1. /\ UNCHANGED <<conn, out, subs, log, faults, callPc, todo>>
      /\ \A t \in Streams \ {s} : pc'[t] = pc[t] /\ err'[t] = err[t]
  BY DEF StreamGivesUp
<1>2. \/ /\ pc[s] = "subscribed" /\ pc'[s] = "unsub" /\ err'[s] = "error"
         /\ refused' = refused
      \/ /\ pc[s] = "leaving" /\ pc'[s] = "unsub" /\ err'[s] = "error"
         /\ refused' = refused \cup {s}
      \/ /\ pc[s] = "unsub" /\ pc'[s] = "done" /\ conn = "closed"
         /\ refused' = refused
  BY DEF StreamGivesUp
<1>3. conn = "closed" =>
        faults # 0 /\ subs = {} /\ \A op, t : ~Asked(op, t)
  BY EmptySeq DEF LifeInv, SubscriptionInv, AnnounceInv, Asked
<1>4. /\ \A t, k : (InLog(t, k)' <=> InLog(t, k)) /\ (Announced(t, k)' <=> Announced(t, k))
      /\ \A op, t : Asked(op, t)' <=> Asked(op, t)
  BY <1>1 DEF InLog, InOut, Announced, Asked
<1> USE DEF LifeInv, Running
<1>5. ProperInv'
  BY <1>1, <1>2 DEF ProperInv, Proper
<1>6. MembershipInv'
  BY <1>1, <1>2, <1>4 DEF MembershipInv
<1>7. SubscriptionInv' /\ NoLeakedSubscription'
  BY <1>1, <1>2, <1>3, <1>4 DEF SubscriptionInv, NoLeakedSubscription
<1>8. ASSUME NEW t \in Streams, faults' = 0
      PROVE  /\ Running(t)' /\ pc'[t] \notin {"subscribed", "unsub"} =>
                  Announced(t, "userjoinedroom")'
             /\ t \in refused' => pc'[t] \in {"unsub", "done"}
             /\ pc'[t] \in {"unsub", "done"} => Tidy(t)'
  <2>1. /\ faults = 0 /\ conn # "closed"
        /\ Running(t) /\ pc[t] \notin {"subscribed", "unsub"} =>
             Announced(t, "userjoinedroom")
        /\ t \in refused => pc[t] \in {"unsub", "done"}
        /\ pc[t] \in {"unsub", "done"} => Tidy(t)
    BY <1>1, <1>3, <1>8 DEF AnnounceInv, JoinersLeave
  <2>2. CASE t # s
    <3>1. t \in refused' <=> t \in refused
      BY <1>2, <2>2
    <3>2. QED
      BY <1>1, <1>4, <2>1, <2>2, <3>1 DEF Tidy
  <2>3. CASE t = s /\ pc[s] = "subscribed"
    <3>1. ~Announced(s, "userjoinedroom") /\ ~Announced(s, "userleftroom")
      BY <2>3 DEF MembershipInv
    <3>2. s \notin refused' /\ pc'[s] = "unsub" /\ err'[s] = "error"
      BY <1>2, <2>1, <2>3
    <3>3. QED
      BY <1>4, <2>3, <3>1, <3>2 DEF Tidy
  <2>4. CASE t = s /\ pc[s] = "leaving"
    <3>1. Announced(s, "userjoinedroom") /\ ~Announced(s, "userleftroom")
      BY <2>1, <2>4 DEF MembershipInv
    <3>2. s \in refused' /\ pc'[s] = "unsub" /\ err'[s] = "error"
      BY <1>2, <2>4
    <3>3. QED
      BY <1>4, <2>4, <3>1, <3>2 DEF Tidy
  <2>5. QED
    BY <1>2, <2>1, <2>2, <2>3, <2>4
<1>9. AnnounceInv' /\ JoinersLeave'
  BY <1>1, <1>8 DEF AnnounceInv, JoinersLeave
<1>10. CleanSubjects' /\ MembershipOrder'
  BY <1>1 DEF CleanSubjects, MembershipOrder
<1>11. QED
  BY <1>5, <1>6, <1>7, <1>9, <1>10

LEMMA BrokerSubStep ==
  ASSUME TypeOK, LifeInv, BrokerSub \/ BrokerUnsub,
         UNCHANGED <<pc, err, callPc, todo, refused, faults>>
  PROVE  LifeInv'
<1>1. /\ out \in Seq(Command) /\ out # << >> /\ out' = Tail(out)
      /\ conn' = conn /\ log' = log
      /\ subs' \in {subs \cup {Head(out).by}, subs \ {Head(out).by}}
      /\ Head(out).op \in {"sub", "unsub"}
      /\ Head(out).op = "sub" => subs' = subs \cup {Head(out).by}
      /\ Head(out).op = "unsub" => subs' = subs \ {Head(out).by}
  BY DEF TypeOK, NatsTypeOK, BrokerSub, BrokerUnsub
<1> DEFINE c == out[1]
<1>2. /\ Head(out) = c /\ c \in Command /\ 1 \in DOMAIN out
      /\ DOMAIN out \subseteq Nat \ {0} /\ DOMAIN out' \subseteq Nat \ {0}
      /\ \A i \in DOMAIN out' : i + 1 \in DOMAIN out /\ out'[i] = out[i + 1]
      /\ \A op, s : Asked(op, s) <=> Asked(op, s)' \/ (c.op = op /\ c.by = s)
      /\ \A s, k : InOut(s, k) <=> InOut(s, k)' \/ (c.by = s /\ c.kind = k)
  BY <1>1, Popped
<1>3. c.kind = "*" /\ c.by \in Streams /\ c.op # "pub"
  BY <1>1, <1>2 DEF Command
<1> HIDE DEF c
<1>4. /\ \A s, k : InLog(s, k)' <=> InLog(s, k)
      /\ \A s, k : k # "*" => (Announced(s, k)' <=> Announced(s, k))
  BY <1>1, <1>2, <1>3 DEF InLog, Announced
<1> USE DEF LifeInv, Running
<1>5. ProperInv'
  BY <1>1, <1>2 DEF ProperInv, Proper
<1>6. MembershipInv'
  <2>1. ASSUME NEW i \in DOMAIN out', (out[i].op = "pub")', (out[i].by \in Streams)'
        PROVE  /\ ~InLog(out[i].by, out[i].kind)' /\ ~InLog(out[i].by, "userleftroom")'
               /\ \A j \in DOMAIN out' :
                    j < i /\ out'[j].op = "pub" /\ out'[j].by = out'[i].by =>
                      out'[j].kind = "userjoinedroom" /\ out'[i].kind = "userleftroom"
    <3>1. i + 1 \in DOMAIN out /\ out'[i] = out[i + 1]
      BY <1>2
    <3>2. ~InLog(out[i + 1].by, out[i + 1].kind) /\ ~InLog(out[i + 1].by, "userleftroom")
      BY <2>1, <3>1 DEF MembershipInv
    <3>3. ~InLog(out[i].by, out[i].kind)' /\ ~InLog(out[i].by, "userleftroom")'
      BY <1>1, <3>1, <3>2 DEF InLog
    <3>4. \A j \in DOMAIN out' : j < i =>
            j + 1 \in DOMAIN out /\ j + 1 < i + 1 /\ out'[j] = out[j + 1]
      BY <1>2
    <3>5. QED
      BY <2>1, <3>1, <3>3, <3>4 DEF MembershipInv
  <2>2. QED
    BY <1>4, <2>1 DEF MembershipInv
<1>7. SubscriptionInv'
  <2>1. \A s \in Streams : pc[s] = "idle" => s \notin subs' /\ ~Asked("sub", s)'
    BY <1>1, <1>2 DEF SubscriptionInv
  <2>2. \A s \in Streams : Asked("unsub", s)' => pc[s] = "done"
    BY <1>2 DEF SubscriptionInv
  <2>3. ASSUME NEW i \in DOMAIN out', NEW j \in DOMAIN out',
               out'[i].op = "unsub", out'[j].op = "sub", out'[i].by = out'[j].by
        PROVE  j < i
    <3>1. j + 1 < i + 1
      BY <1>2, <2>3 DEF SubscriptionInv
    <3>2. QED
      BY <1>2, <3>1
  <2>4. conn' = "closed" => out' = << >> /\ subs' = {}
    BY <1>1 DEF SubscriptionInv
  <2>5. QED
    BY <2>1, <2>2, <2>3, <2>4 DEF SubscriptionInv
<1>8. NoLeakedSubscription'
  <2>1. ASSUME NEW s \in Streams, pc[s] = "done", s \in subs' \/ Asked("sub", s)'
        PROVE  Asked("unsub", s)'
    <3>1. s \in subs \/ Asked("sub", s)
      BY <1>1, <1>2, <2>1
    <3>2. Asked("unsub", s)
      BY <2>1, <3>1 DEF NoLeakedSubscription
    <3>3. CASE c.op = "unsub" /\ c.by = s
      <4>1. s \notin subs'
        BY <1>1, <1>2, <3>3
      <4>2. PICK j \in DOMAIN out' : out'[j].op = "sub" /\ out'[j].by = s
        BY <2>1, <4>1 DEF Asked
      <4>3. j + 1 \in DOMAIN out /\ out[j + 1].op = "sub" /\ out[j + 1].by = s
        BY <1>2, <4>2
      <4>4. j + 1 < 1
        BY <1>2, <3>3, <4>3 DEF SubscriptionInv, c
      <4>5. QED
        BY <1>2, <4>4
    <3>4. QED
      BY <1>2, <3>2, <3>3
  <2>2. QED
    BY <2>1 DEF NoLeakedSubscription
<1>9. AnnounceInv' /\ JoinersLeave'
  BY <1>1, <1>4 DEF AnnounceInv, JoinersLeave, Tidy
<1>10. CleanSubjects' /\ MembershipOrder'
  BY <1>1 DEF CleanSubjects, MembershipOrder
<1>11. QED
  BY <1>5, <1>6, <1>7, <1>8, <1>9, <1>10

\* What the head of out is when the broker accepts an event.
LEMMA PublishedEvent ==
  ASSUME TypeOK, LifeInv, BrokerPub
  PROVE  /\ out \in Seq(Command) /\ out # << >> /\ out' = Tail(out)
         /\ Head(out) = out[1] /\ out[1] \in Command /\ out[1].op = "pub"
         /\ out[1].by \in Streams \cup Calls /\ out[1].room \in Rooms
         /\ out[1].kind \in EventKinds
         /\ Proper(out[1].by, out[1].room, out[1].kind)
         /\ out[1].by \in Streams =>
              /\ out[1].kind \in Membership
              /\ ~InLog(out[1].by, out[1].kind)
              /\ ~InLog(out[1].by, "userleftroom")
<1>1. /\ out \in Seq(Command) /\ out # << >> /\ out' = Tail(out)
      /\ Head(out).op = "pub"
  BY DEF TypeOK, NatsTypeOK, BrokerPub
<1>2. Head(out) = out[1] /\ out[1] \in Command /\ 1 \in DOMAIN out
  BY <1>1, Popped
<1>3. /\ out[1].by \in Streams \cup Calls /\ out[1].room \in Rooms
      /\ out[1].kind \in EventKinds
  BY <1>1, <1>2 DEF Command
<1>4. Proper(out[1].by, out[1].room, out[1].kind)
  BY <1>1, <1>2 DEF LifeInv, ProperInv
<1>5. out[1].by \in Streams =>
        /\ out[1].kind \in Membership
        /\ ~InLog(out[1].by, out[1].kind) /\ ~InLog(out[1].by, "userleftroom")
  BY <1>1, <1>2, <1>3, <1>4
     DEF LifeInv, MembershipInv, Proper, EventKinds, Membership
<1>6. QED
  BY <1>1, <1>2, <1>3, <1>4, <1>5

LEMMA BrokerPubLifeStep ==
  ASSUME TypeOK, LifeInv, BrokerPub,
         UNCHANGED <<pc, err, callPc, todo, refused, faults>>
  PROVE  LifeInv'
<1> DEFINE c == out[1]
<1>1. /\ out \in Seq(Command) /\ out # << >> /\ out' = Tail(out)
      /\ c.op = "pub" /\ Proper(c.by, c.room, c.kind)
      /\ c.by \in Streams =>
           c.kind \in Membership /\ ~InLog(c.by, c.kind) /\ ~InLog(c.by, "userleftroom")
  BY PublishedEvent
<1>2. conn' = conn /\ subs' = subs
  BY DEF BrokerPub
<1>3. /\ 1 \in DOMAIN out
      /\ DOMAIN out \subseteq Nat \ {0} /\ DOMAIN out' \subseteq Nat \ {0}
      /\ \A i \in DOMAIN out' : i + 1 \in DOMAIN out /\ out'[i] = out[i + 1]
      /\ \A op, s : Asked(op, s) <=> Asked(op, s)' \/ (c.op = op /\ c.by = s)
      /\ \A s, k : InOut(s, k) <=> InOut(s, k)' \/ (c.by = s /\ c.kind = k)
  BY <1>1, Popped
<1>4. /\ Len(log) \in Nat
      /\ DOMAIN log = 1..Len(log) /\ DOMAIN log' = 1..(Len(log) + 1)
      /\ \A n \in DOMAIN log : log'[n] = log[n]
      /\ log'[Len(log) + 1].by = c.by /\ log'[Len(log) + 1].room = c.room
      /\ log'[Len(log) + 1].kind = c.kind
      /\ \A n \in DOMAIN log' : n \in DOMAIN log \/ n = Len(log) + 1
      /\ \A s, k : InLog(s, k)' <=> InLog(s, k) \/ (c.by = s /\ c.kind = k)
  BY Logged DEF EventOf
<1> HIDE DEF c
<1>5. \A s, k : Announced(s, k)' <=> Announced(s, k)
  BY <1>3, <1>4 DEF Announced
<1>6. \A op, s : op # "pub" => (Asked(op, s)' <=> Asked(op, s))
  BY <1>1, <1>3
<1> USE DEF LifeInv, Running
<1>7. ProperInv'
  <2>1. \A i \in DOMAIN out' : out'[i].op = "pub" =>
          Proper(out'[i].by, out'[i].room, out'[i].kind)
    BY <1>3 DEF ProperInv
  <2>2. \A n \in DOMAIN log' : Proper(log'[n].by, log'[n].room, log'[n].kind)
    BY <1>1, <1>4 DEF ProperInv
  <2>3. QED
    BY <2>1, <2>2 DEF ProperInv, Proper
<1>8. MembershipInv'
  <2>1. ASSUME NEW i \in DOMAIN out', (out[i].op = "pub")', (out[i].by \in Streams)'
        PROVE  /\ ~InLog(out[i].by, out[i].kind)' /\ ~InLog(out[i].by, "userleftroom")'
               /\ \A j \in DOMAIN out' :
                    j < i /\ out'[j].op = "pub" /\ out'[j].by = out'[i].by =>
                      out'[j].kind = "userjoinedroom" /\ out'[i].kind = "userleftroom"
    <3>1. i + 1 \in DOMAIN out /\ out'[i] = out[i + 1] /\ 1 < i + 1
      BY <1>3
    <3>2. /\ ~InLog(out[i + 1].by, out[i + 1].kind)
          /\ ~InLog(out[i + 1].by, "userleftroom")
          /\ c.by = out[i + 1].by =>
               c.kind = "userjoinedroom" /\ out[i + 1].kind = "userleftroom"
      BY <1>1, <1>3, <2>1, <3>1 DEF MembershipInv, c
    <3>3. /\ ~\E n \in DOMAIN log' :
               log'[n].by = out'[i].by /\ log'[n].kind = out'[i].kind
          /\ ~\E n \in DOMAIN log' :
               log'[n].by = out'[i].by /\ log'[n].kind = "userleftroom"
      <4> HIDE DEF LifeInv, Running
      <4>1. ASSUME NEW n \in DOMAIN log', log'[n].by = out[i + 1].by
            PROVE  log'[n].kind # out[i + 1].kind /\ log'[n].kind # "userleftroom"
        <5>1. CASE n \in DOMAIN log
          <6>1. log'[n] = log[n]
            BY <1>4, <5>1
          <6>2. QED
            BY <3>2, <4>1, <5>1, <6>1 DEF InLog
        <5>2. CASE n = Len(log) + 1
          <6>1. log'[n].by = c.by /\ log'[n].kind = c.kind
            BY <1>4, <5>2
          <6>2. QED
            BY <3>2, <4>1, <6>1
        <5>3. QED
          BY <1>4, <5>1, <5>2
      <4>2. QED
        BY <3>1, <4>1
    <3>4. \A j \in DOMAIN out' : j < i =>
            j + 1 \in DOMAIN out /\ j + 1 < i + 1 /\ out'[j] = out[j + 1]
      BY <1>3
    <3>5. \A j \in DOMAIN out' :
                    j < i /\ out'[j].op = "pub" /\ out'[j].by = out'[i].by =>
                      out'[j].kind = "userjoinedroom" /\ out'[i].kind = "userleftroom"
      BY <2>1, <3>1, <3>4 DEF MembershipInv
    <3>6. QED
      BY <3>3, <3>5 DEF InLog
  <2>2. QED
    BY <1>5, <2>1 DEF MembershipInv
<1>9. SubscriptionInv'
  <2>1. ASSUME NEW i \in DOMAIN out', NEW j \in DOMAIN out',
               out'[i].op = "unsub", out'[j].op = "sub", out'[i].by = out'[j].by
        PROVE  j < i
    <3>1. j + 1 < i + 1
      BY <1>3, <2>1 DEF SubscriptionInv
    <3>2. QED
      BY <1>3, <3>1
  <2>2. conn' = "closed" => out' = << >> /\ subs' = {}
    BY <1>1, <1>2 DEF SubscriptionInv
  <2>3. QED
    BY <1>2, <1>6, <2>1, <2>2 DEF SubscriptionInv
<1>10. NoLeakedSubscription'
  BY <1>2, <1>6 DEF NoLeakedSubscription
<1>11. AnnounceInv' /\ JoinersLeave'
  BY <1>2, <1>5 DEF AnnounceInv, JoinersLeave, Tidy
<1>12. CleanSubjects'
  BY <1>1, <1>4 DEF CleanSubjects, Proper
<1>13. MembershipOrder'
  <2>1. ASSUME NEW m \in DOMAIN log', NEW n \in DOMAIN log', m < n,
               log'[m].by = log'[n].by, log'[m].by \in Streams
        PROVE  log'[m].kind = "userjoinedroom" /\ log'[n].kind = "userleftroom"
    <3>1. m \in DOMAIN log /\ log'[m] = log[m]
      BY <1>4, <2>1
    <3>2. CASE n \in DOMAIN log
      BY <1>4, <2>1, <3>1, <3>2 DEF MembershipOrder
    <3>3. CASE n = Len(log) + 1
      <4>1. InLog(c.by, log[m].kind) /\ log[m].by \in Streams
        BY <1>4, <2>1, <3>1, <3>3 DEF InLog
      <4>2. log[m].kind \in Membership
        <5>1. log[m] \in Event
          BY <1>4, <3>1, ElementOfSeq DEF TypeOK, NatsTypeOK
        <5>2. log[m].kind # "drawing"
          BY <3>1, <4>1 DEF ProperInv, Proper
        <5>3. QED
          BY <5>1, <5>2 DEF Event, EventKinds, Membership
      <4>3. c.by \in Streams
        BY <1>4, <2>1, <3>3
      <4>4. QED
        BY <1>1, <1>4, <3>1, <3>3, <4>1, <4>2, <4>3 DEF Membership
    <3>4. QED
      BY <1>4, <3>2, <3>3
  <2>2. QED
    BY <2>1 DEF MembershipOrder
<1>14. QED
  BY <1>7, <1>8, <1>9, <1>10, <1>11, <1>12, <1>13

\* The process dies or the connection closes: nothing is left in flight.
LEMMA LossStep ==
  ASSUME TypeOK, LifeInv, out' = << >>, subs' = {}, log' = log, faults' = faults + 1,
         \/ pc' = pc
         \/ pc' = [s \in Streams |-> IF Running(s) THEN "done" ELSE pc[s]],
         \A c \in Calls : callPc'[c] = "publishing" => callPc[c] = "publishing",
         todo' = todo
  PROVE  LifeInv'
<1>1. DOMAIN out' = {} /\ faults' # 0
  BY EmptySeq DEF TypeOK
<1>2. /\ \A s, k : InLog(s, k)' <=> InLog(s, k)
      /\ \A s, k : Announced(s, k)' => Announced(s, k)
      /\ \A op, s : ~Asked(op, s)'
  BY <1>1 DEF InLog, InOut, Announced, Asked
<1> USE DEF LifeInv, Running
<1>3. ProperInv'
  BY <1>1 DEF ProperInv, Proper
<1>4. MembershipInv'
  BY <1>1, <1>2 DEF MembershipInv
<1>5. SubscriptionInv' /\ NoLeakedSubscription'
  BY <1>1, <1>2 DEF SubscriptionInv, NoLeakedSubscription
<1>6. AnnounceInv' /\ JoinersLeave'
  BY <1>1 DEF AnnounceInv, JoinersLeave
<1>7. CleanSubjects' /\ MembershipOrder'
  BY DEF CleanSubjects, MembershipOrder
<1>8. QED
  BY <1>3, <1>4, <1>5, <1>6, <1>7

LEMMA ReconnectStep ==
  ASSUME TypeOK, LifeInv, ConnReconnects(Local), faults' = faults + 1,
         UNCHANGED <<pc, err, callPc, todo>>
  PROVE  LifeInv'
<1>1. PICK m \in Nat, d \in Int :
        /\ DOMAIN out' \subseteq Nat /\ DOMAIN out = 1..Len(out) /\ Len(out) \in Nat
        /\ DOMAIN out' = 1..(Len(out) - d) /\ m + d >= 0 /\ m <= Len(out) - d
        /\ \A i \in 1..m :
             i \in DOMAIN out' => \E s \in Local : out'[i] = Sub(s)
        /\ \A i \in DOMAIN out' :
             i > m => i + d \in DOMAIN out /\ out'[i] = out[i + d]
  BY Reconnected
<1>2. ASSUME NEW i \in DOMAIN out'
      PROVE  \/ /\ i <= m /\ out'[i].op = "sub" /\ out'[i].kind = "*"
                /\ out'[i].by \in Streams /\ Running(out'[i].by)
             \/ i > m /\ i + d \in DOMAIN out /\ out'[i] = out[i + d]
  BY <1>1 DEF Local, Sub
<1>3. conn = "open" /\ conn' = conn /\ log' = log /\ subs' = {} /\ faults' # 0
  BY DEF ConnReconnects, TypeOK
<1>4. /\ \A s, k : InLog(s, k)' <=> InLog(s, k)
      /\ \A s, k : k # "*" /\ Announced(s, k)' => Announced(s, k)
  BY <1>2, <1>3 DEF InLog, InOut, Announced
<1>5. \A s : Asked("unsub", s)' => Asked("unsub", s)
  BY <1>2 DEF Asked
<1> USE DEF LifeInv
<1>6. ProperInv'
  <2>1. \A i \in DOMAIN out' : out'[i].op = "pub" =>
          Proper(out'[i].by, out'[i].room, out'[i].kind)
    BY <1>2 DEF ProperInv
  <2>2. QED
    BY <1>3, <2>1 DEF ProperInv, Proper, Running
<1>7. MembershipInv'
  <2>1. ASSUME NEW i \in DOMAIN out', (out[i].op = "pub")', (out[i].by \in Streams)'
        PROVE  /\ ~InLog(out[i].by, out[i].kind)' /\ ~InLog(out[i].by, "userleftroom")'
               /\ \A j \in DOMAIN out' :
                    j < i /\ out'[j].op = "pub" /\ out'[j].by = out'[i].by =>
                      out'[j].kind = "userjoinedroom" /\ out'[i].kind = "userleftroom"
    <3>1. i + d \in DOMAIN out /\ out'[i] = out[i + d]
      BY <1>2, <2>1
    <3>2. ~InLog(out[i + d].by, out[i + d].kind) /\ ~InLog(out[i + d].by, "userleftroom")
      BY <2>1, <3>1 DEF MembershipInv
    <3>3. ~InLog(out[i].by, out[i].kind)' /\ ~InLog(out[i].by, "userleftroom")'
      BY <1>3, <3>1, <3>2 DEF InLog
    <3>4. \A j \in DOMAIN out' : j < i /\ out'[j].op = "pub" =>
            j + d \in DOMAIN out /\ j + d < i + d /\ out'[j] = out[j + d]
      BY <1>1, <1>2
    <3>5. QED
      BY <2>1, <3>1, <3>3, <3>4 DEF MembershipInv
  <2>2. QED
    BY <1>4, <2>1 DEF MembershipInv, Running
<1>8. SubscriptionInv'
  <2>1. ASSUME NEW i \in DOMAIN out', NEW j \in DOMAIN out',
               out'[i].op = "unsub", out'[j].op = "sub", out'[i].by = out'[j].by
        PROVE  j < i
    <3>1. i > m /\ i + d \in DOMAIN out /\ out'[i] = out[i + d]
      BY <1>2, <2>1
    <3>2. CASE j <= m
      BY <1>1, <3>1, <3>2
    <3>3. CASE j > m
      <4>1. j + d \in DOMAIN out /\ out'[j] = out[j + d]
        BY <1>1, <3>3
      <4>2. j + d < i + d
        BY <2>1, <3>1, <4>1 DEF SubscriptionInv
      <4>3. QED
        BY <1>1, <4>2
    <3>4. QED
      BY <1>1, <3>2, <3>3
  <2>2. \A s \in Streams : pc[s] = "idle" => ~Asked("sub", s)'
    BY <1>2 DEF SubscriptionInv, Asked, Running
  <2>3. QED
    BY <1>3, <1>5, <2>1, <2>2 DEF SubscriptionInv
<1>9. NoLeakedSubscription'
  <2>1. ASSUME NEW s \in Streams, pc[s] = "done", Asked("sub", s)'
        PROVE  Asked("unsub", s)'
    <3>1. PICK j \in DOMAIN out' : out'[j].op = "sub" /\ out'[j].by = s
      BY <2>1 DEF Asked
    <3>2. j > m /\ j + d \in DOMAIN out /\ out'[j] = out[j + d]
      BY <1>2, <2>1, <3>1 DEF Running
    <3>3. Asked("sub", s)
      BY <3>1, <3>2 DEF Asked
    <3>4. PICK i \in DOMAIN out : out[i].op = "unsub" /\ out[i].by = s
      BY <2>1, <3>3 DEF NoLeakedSubscription, Asked
    <3>5. j + d < i
      BY <3>1, <3>2, <3>4 DEF SubscriptionInv
    <3>6. i - d \in DOMAIN out' /\ i - d > m /\ (i - d) + d = i
      BY <1>1, <3>2, <3>4, <3>5
    <3>7. out'[i - d] = out[i]
      BY <1>1, <3>6
    <3>8. QED
      BY <3>4, <3>6, <3>7 DEF Asked
  <2>2. QED
    BY <1>3, <2>1 DEF NoLeakedSubscription
<1>10. AnnounceInv' /\ JoinersLeave'
  BY <1>3 DEF AnnounceInv, JoinersLeave
<1>11. CleanSubjects' /\ MembershipOrder'
  BY <1>3 DEF CleanSubjects, MembershipOrder
<1>12. QED
  BY <1>6, <1>7, <1>8, <1>9, <1>10, <1>11

-----------------------------------------------------------------------------
(* CallInv is inductive: what calls tell their rooms.                      *)

\* What one call may do in a step that tells no room anything.
CallKeeps(c) ==
  \/ callPc'[c] = callPc[c] /\ todo'[c] = todo[c]
  \/ callPc[c] = "idle" /\ callPc'[c] = "publishing" /\ todo'[c] = RoomsOf[c]
  \/ callPc[c] = "idle" /\ callPc'[c] = "ok" /\ RoomsOf[c] = << >>
  \/ callPc[c] = "idle" /\ callPc'[c] = "error" /\ ~CallValid(c)
  \/ callPc[c] = "publishing" /\ todo[c] # << >> /\ callPc'[c] = "error"
  \/ faults' # 0 /\ callPc'[c] \in {"error", "panic"}

\* A step after which the calls' commands are some of those before, shifted,
\* and all of them unless there was a fault.
Untold ==
  /\ log' = log
  /\ DOMAIN out' \subseteq Int
  /\ \E k \in Int : \A i \in DOMAIN out' : out'[i].by \in Calls =>
       i + k \in DOMAIN out /\ out'[i] = out[i + k]
  /\ faults' = 0 => faults = 0 /\ \A c \in Calls, r \in Rooms : Told(c, r) => Told(c, r)'
  /\ \A c \in Calls : CallKeeps(c)

\* A call that publishes told the first rooms of its request.
LEMMA TodoLength ==
  ASSUME TypeOK, NEW c \in Calls, todo[c] # << >>
  PROVE  Len(todo[c]) \in Nat /\ Len(todo[c]) > 0
<1>1. todo[c] \in Seq(Rooms)
  BY DEF TypeOK
<1>2. QED
  BY <1>1, EmptySeq, LenProperties

LEMMA RoomsDoneBound ==
  ASSUME TypeOK, NEW c \in Calls, Len(todo[c]) <= Len(RoomsOf[c])
  PROVE  /\ RoomsDone(c) \in 0..Len(RoomsOf[c])
         /\ Len(todo[c]) > 0 => RoomsDone(c) < Len(RoomsOf[c])
         /\ Len(todo[c]) = 1 => RoomsDone(c) + 1 = Len(RoomsOf[c])
<1> DEFINE all == Len(RoomsOf[c])
           left == Len(todo[c])
<1>1. all \in Nat /\ left \in Nat /\ left <= all
  BY RpcAssumption, LenProperties DEF TypeOK
<1>2. RoomsDone(c) = all - left
  BY DEF RoomsDone
<1> HIDE DEF all, left
<1>3. /\ RoomsDone(c) \in 0..all
      /\ left > 0 => RoomsDone(c) < all
      /\ left = 1 => RoomsDone(c) + 1 = all
  BY <1>1, <1>2
<1>4. QED
  BY <1>3 DEF all, left

LEMMA PublishingTold ==
  ASSUME TypeOK, CallInv, NEW c \in Calls, callPc[c] = "publishing", faults = 0
  PROVE  ToldFirst(c, RoomsDone(c))
BY DEF CallInv, ProgressInv, ToldFirst

LEMMA UntoldStep ==
  ASSUME TypeOK, CallInv, Untold
  PROVE  CallInv'
<1>1. PICK k \in Int : \A i \in DOMAIN out' : out'[i].by \in Calls =>
        i + k \in DOMAIN out /\ out'[i] = out[i + k]
  BY DEF Untold
<1>2. log' = log /\ DOMAIN out' \subseteq Int
  BY DEF Untold
<1>3. \A c \in Calls, r \in Rooms : Told(c, r)' => Told(c, r)
  BY <1>1, <1>2 DEF Told
<1>4. TellingInv'
  <2>1. ASSUME NEW n \in DOMAIN log, NEW i \in DOMAIN out',
               log[n].by = out'[i].by, out'[i].by \in Calls
        PROVE  Earlier(out'[i].by, log[n].room, out'[i].room)
    BY <1>1, <2>1 DEF CallInv, TellingInv
  <2>2. ASSUME NEW i \in DOMAIN out', NEW j \in DOMAIN out',
               i < j, out'[i].by = out'[j].by, out'[i].by \in Calls
        PROVE  Earlier(out'[i].by, out'[i].room, out'[j].room)
    <3>1. i + k < j + k /\ i + k \in DOMAIN out /\ j + k \in DOMAIN out
      BY <1>1, <1>2, <2>2
    <3>2. out'[i] = out[i + k] /\ out'[j] = out[j + k]
      BY <1>1, <2>2
    <3>3. QED
      BY <2>2, <3>1, <3>2 DEF CallInv, TellingInv
  <2>3. QED
    BY <1>2, <2>1, <2>2 DEF TellingInv
<1>5. RoomsToldInOrder'
  BY <1>2 DEF CallInv, RoomsToldInOrder
<1>6. ProgressInv'
  <2>1. ASSUME NEW c \in Calls, callPc'[c] = "idle", NEW r \in Rooms
        PROVE  ~Told(c, r)'
    BY <1>3, <2>1 DEF Untold, CallKeeps, CallInv, ProgressInv
  <2>2. ASSUME NEW c \in Calls, callPc'[c] = "publishing"
        PROVE  /\ Len(todo'[c]) <= Len(RoomsOf[c])
               /\ \A i \in DOMAIN todo'[c] : todo'[c][i] = RoomsOf[c][RoomsDone(c)' + i]
               /\ \A r \in Rooms : Told(c, r)' => \E j \in 1..RoomsDone(c)' : RoomsOf[c][j] = r
               /\ faults' = 0 => \A j \in 1..RoomsDone(c)' : Told(c, RoomsOf[c][j])'
    <3>1. /\ RoomsOf[c] \in Seq(Rooms) /\ Len(RoomsOf[c]) \in Nat
          /\ DOMAIN RoomsOf[c] = 1..Len(RoomsOf[c])
      BY RpcAssumption, LenProperties
    <3>2. CASE callPc'[c] = callPc[c] /\ todo'[c] = todo[c]
      <4>1. RoomsDone(c)' = RoomsDone(c) /\ callPc[c] = "publishing"
        BY <2>2, <3>2 DEF RoomsDone
      <4>2. /\ Len(todo[c]) <= Len(RoomsOf[c])
            /\ \A i \in DOMAIN todo[c] : todo[c][i] = RoomsOf[c][RoomsDone(c) + i]
            /\ \A r \in Rooms : Told(c, r) => \E j \in 1..RoomsDone(c) : RoomsOf[c][j] = r
            /\ faults = 0 => \A j \in 1..RoomsDone(c) : Told(c, RoomsOf[c][j])
        BY <4>1 DEF CallInv, ProgressInv
      <4>3. todo[c] \in Seq(Rooms) /\ Len(todo[c]) \in Nat
        BY LenProperties DEF TypeOK
      <4>4. \A j \in 1..RoomsDone(c) : RoomsOf[c][j] \in Rooms
        <5>1. \A j \in 1..RoomsDone(c) : j \in 1..Len(RoomsOf[c])
          <6>1. RoomsDone(c) \in 0..Len(RoomsOf[c])
            BY <4>2, RoomsDoneBound
          <6>2. QED
            BY <3>1, <6>1
        <5>2. QED
          BY <3>1, <5>1, ElementOfSeq
      <4>5. faults' = 0 => \A j \in 1..RoomsDone(c) : Told(c, RoomsOf[c][j])'
        BY <4>2, <4>4 DEF Untold
      <4>6. \A r \in Rooms : Told(c, r)' => \E j \in 1..RoomsDone(c) : RoomsOf[c][j] = r
        BY <1>3, <4>2
      <4>7. QED
        BY <3>2, <4>1, <4>2, <4>5, <4>6
    <3>3. CASE callPc[c] = "idle" /\ todo'[c] = RoomsOf[c]
      <4>1. RoomsDone(c)' = 0
        BY <3>1, <3>3 DEF RoomsDone
      <4>2. \A r \in Rooms : ~Told(c, r)'
        BY <1>3, <3>3 DEF CallInv, ProgressInv
      <4>3. QED
        BY <3>1, <3>3, <4>1, <4>2
    <3>4. QED
      BY <2>2, <3>2, <3>3 DEF Untold, CallKeeps
  <2>3. QED
    BY <2>1, <2>2 DEF ProgressInv
<1>7. RoomsToldUpToError'
  <2>1. ASSUME faults' = 0, NEW c \in Calls, NEW told, ToldFirst(c, told)
        PROVE  ToldFirst(c, told)'
    BY <1>3, <2>1 DEF Untold, ToldFirst
  <2>2. ASSUME faults' = 0, NEW c \in Calls
        PROVE  \E told \in 0..Len(RoomsOf[c]) :
                 /\ ToldFirst(c, told)'
                 /\ callPc'[c] = "ok" => told = Len(RoomsOf[c])
                 /\ callPc'[c] = "error" /\ CallValid(c) => told < Len(RoomsOf[c])
    <3>0. Len(RoomsOf[c]) \in Nat /\ RoomsOf[c] \in Seq(Rooms)
      BY RpcAssumption, LenProperties
    <3>1. faults = 0
      BY <2>2 DEF Untold
    <3>2. PICK told \in 0..Len(RoomsOf[c]) :
             /\ ToldFirst(c, told)
             /\ callPc[c] = "ok" => told = Len(RoomsOf[c])
             /\ callPc[c] = "error" /\ CallValid(c) => told < Len(RoomsOf[c])
      BY <3>1 DEF CallInv, RoomsToldUpToError
    <3>3. CASE callPc'[c] = callPc[c]
      BY <2>1, <2>2, <3>2, <3>3
    <3>4. CASE callPc[c] = "idle"
      <4>1. ToldFirst(c, 0)
        BY <3>4 DEF CallInv, ProgressInv, ToldFirst
      <4>2. ToldFirst(c, 0)' /\ 0 \in 0..Len(RoomsOf[c])
        BY <2>1, <2>2, <3>0, <4>1
      <4>3. callPc'[c] = "ok" => Len(RoomsOf[c]) = 0
        BY <2>2, <3>4 DEF Untold, CallKeeps
      <4>4. callPc'[c] = "error" => ~CallValid(c)
        BY <2>2, <3>4 DEF Untold, CallKeeps
      <4>5. QED
        BY <4>2, <4>3, <4>4
    <3>5. CASE callPc[c] = "publishing" /\ todo[c] # << >> /\ callPc'[c] = "error"
      <4>1. RoomsDone(c) \in 0..Len(RoomsOf[c]) /\ RoomsDone(c) < Len(RoomsOf[c])
        BY <3>5, TodoLength, RoomsDoneBound DEF CallInv, ProgressInv
      <4>2. ToldFirst(c, RoomsDone(c))
        BY <3>1, <3>5, PublishingTold
      <4>3. QED
        BY <2>1, <2>2, <3>5, <4>1, <4>2
    <3>6. QED
      BY <2>2, <3>3, <3>4, <3>5 DEF Untold, CallKeeps
  <2>3. QED
    BY <2>2 DEF RoomsToldUpToError
<1>8. QED
  BY <1>4, <1>5, <1>6, <1>7 DEF CallInv

LEMMA ToldByPush ==
  ASSUME out \in Seq(Command), NEW c \in Command, out' = Append(out, c), log' = log
  PROVE  \A d, r : Told(d, r)' <=> Told(d, r) \/ (c.by = d /\ c.room = r)
<1>1. /\ DOMAIN out = 1..Len(out) /\ DOMAIN out' = 1..(Len(out) + 1)
      /\ \A i \in DOMAIN out : out'[i] = out[i]
      /\ out'[Len(out) + 1] = c /\ Len(out) \in Nat
      /\ \A i \in DOMAIN out' : i \in DOMAIN out \/ i = Len(out) + 1
  BY Pushed
<1>2. DOMAIN out \subseteq DOMAIN out' /\ Len(out) + 1 \in DOMAIN out'
  BY <1>1
<1>3. QED
  BY <1>1, <1>2 DEF Told

\* What a call that publishes is about to tell.
LEMMA NextRoom ==
  ASSUME TypeOK, LifeInv, CallInv, NEW d \in Calls, callPc[d] = "publishing",
         todo[d] # << >>
  PROVE  /\ RoomsDone(d) \in Nat /\ RoomsDone(d) + 1 \in DOMAIN RoomsOf[d]
         /\ Head(todo[d]) = RoomsOf[d][RoomsDone(d) + 1] /\ Head(todo[d]) \in Rooms
         /\ \A r \in Rooms : Told(d, r) => Earlier(d, r, Head(todo[d]))
         /\ Tail(todo[d]) \in Seq(Rooms) /\ Len(Tail(todo[d])) = Len(todo[d]) - 1
         /\ Len(todo[d]) \in Nat /\ Len(RoomsOf[d]) \in Nat
         /\ Len(todo[d]) <= Len(RoomsOf[d]) /\ Len(todo[d]) >= 1
         /\ \A i \in DOMAIN Tail(todo[d]) :
              Tail(todo[d])[i] = RoomsOf[d][RoomsDone(d) + 1 + i]
<1>1. todo[d] \in Seq(Rooms) /\ RoomsOf[d] \in Seq(Rooms)
  BY RpcAssumption DEF TypeOK
<1>2. /\ DOMAIN todo[d] = 1..Len(todo[d]) /\ Len(todo[d]) \in Nat \ {0}
      /\ DOMAIN RoomsOf[d] = 1..Len(RoomsOf[d]) /\ Len(RoomsOf[d]) \in Nat
  BY <1>1, LenProperties, EmptySeq
<1>3. /\ Head(todo[d]) = todo[d][1] /\ Head(todo[d]) \in Rooms
      /\ Tail(todo[d]) \in Seq(Rooms) /\ Len(Tail(todo[d])) = Len(todo[d]) - 1
      /\ \A i \in 1..Len(Tail(todo[d])) : Tail(todo[d])[i] = todo[d][i + 1]
  BY <1>1, HeadTailProperties
<1>4. /\ Len(todo[d]) <= Len(RoomsOf[d])
      /\ \A i \in DOMAIN todo[d] : todo[d][i] = RoomsOf[d][RoomsDone(d) + i]
      /\ \A r \in Rooms : Told(d, r) => \E k \in 1..RoomsDone(d) : RoomsOf[d][k] = r
  BY DEF CallInv, ProgressInv
<1>5. RoomsDone(d) \in Nat /\ RoomsDone(d) + 1 \in DOMAIN RoomsOf[d]
  <2> DEFINE all == Len(RoomsOf[d])
             left == Len(todo[d])
  <2>1. all \in Nat /\ left \in Nat \ {0} /\ left <= all
    BY <1>2, <1>4
  <2>2. RoomsDone(d) = all - left /\ DOMAIN RoomsOf[d] = 1..all
    BY <1>2 DEF RoomsDone
  <2> HIDE DEF all, left
  <2>3. QED
    BY <2>1, <2>2
<1>6. Head(todo[d]) = RoomsOf[d][RoomsDone(d) + 1]
  BY <1>2, <1>3, <1>4
<1>7. ASSUME NEW r \in Rooms, Told(d, r) PROVE Earlier(d, r, Head(todo[d]))
  <2>1. PICK k \in 1..RoomsDone(d) : RoomsOf[d][k] = r
    BY <1>4, <1>7
  <2>2. k \in DOMAIN RoomsOf[d] /\ k < RoomsDone(d) + 1
    BY <1>2, <1>5
  <2>3. ~HasDuplicates(RoomsOf[d])
    BY DEF LifeInv, ProperInv, CallValid
  <2>4. r # Head(todo[d])
    BY <1>5, <1>6, <2>1, <2>2, <2>3 DEF HasDuplicates
  <2>5. QED
    BY <1>5, <1>6, <2>1, <2>2, <2>4 DEF Earlier
<1>8. ASSUME NEW i \in DOMAIN Tail(todo[d])
      PROVE  Tail(todo[d])[i] = RoomsOf[d][RoomsDone(d) + 1 + i]
  <2>1. i \in 1..(Len(todo[d]) - 1)
    BY <1>3, <1>8, LenProperties
  <2>2. i + 1 \in DOMAIN todo[d] /\ RoomsDone(d) + (i + 1) = RoomsDone(d) + 1 + i
    BY <1>2, <1>5, <2>1
  <2>3. QED
    BY <1>3, <1>4, <2>1, <2>2
<1>9. QED
  BY <1>2, <1>3, <1>4, <1>5, <1>6, <1>7, <1>8

LEMMA TellStep ==
  ASSUME TypeOK, LifeInv, CallInv, NEW d \in Calls, CallTells(d)
  PROVE  CallInv'
<1> DEFINE c == Pub(d, Head(todo[d]), KindOf[d])
<1>1. /\ out' = Append(out, c) /\ todo' = [todo EXCEPT ![d] = Tail(@)]
      /\ CallReturns(d, IF Tail(todo[d]) = << >> THEN "ok" ELSE "publishing")
      /\ log' = log /\ faults' = faults
      /\ callPc[d] = "publishing" /\ todo[d] # << >> /\ KindOf[d] \in EventKinds
  BY DEF CallTells, Enqueue
<1>2. /\ RoomsDone(d) \in Nat /\ RoomsDone(d) + 1 \in DOMAIN RoomsOf[d]
      /\ Head(todo[d]) = RoomsOf[d][RoomsDone(d) + 1] /\ Head(todo[d]) \in Rooms
      /\ \A r \in Rooms : Told(d, r) => Earlier(d, r, Head(todo[d]))
      /\ Tail(todo[d]) \in Seq(Rooms) /\ Len(Tail(todo[d])) = Len(todo[d]) - 1
      /\ Len(todo[d]) \in Nat /\ Len(RoomsOf[d]) \in Nat
      /\ Len(todo[d]) <= Len(RoomsOf[d]) /\ Len(todo[d]) >= 1
      /\ \A i \in DOMAIN Tail(todo[d]) :
           Tail(todo[d])[i] = RoomsOf[d][RoomsDone(d) + 1 + i]
  BY <1>1, NextRoom
<1>3. c \in Command /\ c.by = d /\ c.room = Head(todo[d])
  BY <1>1, <1>2, CallCommandType DEF Pub
<1>4. out \in Seq(Command) /\ log \in Seq(Event)
  BY DEF TypeOK, NatsTypeOK
<1>5. callPc' = [callPc EXCEPT ![d] = IF Tail(todo[d]) = << >> THEN "ok" ELSE "publishing"]
  BY <1>1 DEF CallReturns
<1> HIDE DEF c
<1>6. \A e, r : Told(e, r)' <=> Told(e, r) \/ (d = e /\ Head(todo[d]) = r)
  BY <1>1, <1>3, <1>4, ToldByPush
<1>7. /\ DOMAIN out = 1..Len(out) /\ Len(out) \in Nat
      /\ \A i \in DOMAIN out' : i \in DOMAIN out \/ i = Len(out) + 1
      /\ \A i \in DOMAIN out : out'[i] = out[i]
      /\ out'[Len(out) + 1] = c
  BY <1>1, <1>3, <1>4, Pushed
<1>8. TellingInv'
  <2>1. ASSUME NEW n \in DOMAIN log, NEW i \in DOMAIN out',
               log[n].by = out'[i].by, out'[i].by \in Calls
        PROVE  Earlier(out'[i].by, log[n].room, out'[i].room)
    <3>1. CASE i \in DOMAIN out
      BY <1>7, <2>1, <3>1 DEF CallInv, TellingInv
    <3>2. CASE i = Len(out) + 1
      <4>1. log[n].room \in Rooms
        <5>1. n \in 1..Len(log)
          BY <1>4, LenProperties
        <5>2. log[n] \in Event
          BY <1>4, <5>1, ElementOfSeq
        <5>3. QED
          BY <5>2 DEF Event
      <4>2. Told(d, log[n].room)
        BY <1>3, <1>7, <2>1, <3>2 DEF Told
      <4>3. QED
        BY <1>2, <1>3, <1>7, <3>2, <4>1, <4>2
    <3>3. QED
      BY <1>7, <3>1, <3>2
  <2>2. ASSUME NEW i \in DOMAIN out', NEW j \in DOMAIN out',
               i < j, out'[i].by = out'[j].by, out'[i].by \in Calls
        PROVE  Earlier(out'[i].by, out'[i].room, out'[j].room)
    <3>1. i \in DOMAIN out
      BY <1>7, <2>2
    <3>2. CASE j \in DOMAIN out
      BY <1>7, <2>2, <3>1, <3>2 DEF CallInv, TellingInv
    <3>3. CASE j = Len(out) + 1
      <4>1. out[i].room \in Rooms
        <5>1. out[i] \in Command
          BY <1>4, <1>7, <3>1, ElementOfSeq
        <5>2. QED
          BY <5>1 DEF Command
      <4>2. Told(d, out[i].room)
        BY <1>3, <1>7, <2>2, <3>1, <3>3 DEF Told
      <4>3. QED
        BY <1>2, <1>3, <1>7, <2>2, <3>1, <3>3, <4>1, <4>2
    <3>4. QED
      BY <1>7, <3>2, <3>3
  <2>3. QED
    BY <1>1, <2>1, <2>2 DEF TellingInv
<1>9. RoomsToldInOrder'
  BY <1>1 DEF CallInv, RoomsToldInOrder
<1>10. ASSUME NEW e \in Calls \ {d}
       PROVE  /\ callPc'[e] = callPc[e] /\ todo'[e] = todo[e]
              /\ RoomsDone(e)' = RoomsDone(e)
              /\ \A r : Told(e, r)' <=> Told(e, r)
  BY <1>1, <1>5, <1>6 DEF RoomsDone, TypeOK
<1>11. /\ callPc'[d] = (IF Tail(todo[d]) = << >> THEN "ok" ELSE "publishing")
       /\ todo'[d] = Tail(todo[d]) /\ RoomsDone(d)' = RoomsDone(d) + 1
  BY <1>1, <1>2, <1>5 DEF RoomsDone, TypeOK
<1>12. faults = 0 => \A k \in 1..(RoomsDone(d) + 1) : Told(d, RoomsOf[d][k])'
  <2>1. faults = 0 => \A k \in 1..RoomsDone(d) : Told(d, RoomsOf[d][k])
    BY <1>1 DEF CallInv, ProgressInv
  <2>2. ASSUME faults = 0, NEW k \in 1..(RoomsDone(d) + 1)
        PROVE  Told(d, RoomsOf[d][k])'
    <3>1. CASE k \in 1..RoomsDone(d)
      BY <1>6, <2>1, <2>2, <3>1
    <3>2. CASE k = RoomsDone(d) + 1
      BY <1>2, <1>6, <3>2
    <3>3. QED
      BY <1>2, <3>1, <3>2
  <2>3. QED
    BY <2>2
<1>13. ASSUME NEW r \in Rooms, Told(d, r)'
       PROVE  \E k \in 1..(RoomsDone(d) + 1) : RoomsOf[d][k] = r
  <2>1. CASE Told(d, r)
    <3>1. PICK k \in 1..RoomsDone(d) : RoomsOf[d][k] = r
      BY <1>1, <2>1 DEF CallInv, ProgressInv
    <3>2. QED
      BY <1>2, <3>1
  <2>2. CASE Head(todo[d]) = r
    BY <1>2, <2>2
  <2>3. QED
    BY <1>6, <1>13, <2>1, <2>2
<1>15. ProgressInv'
  <2>2. Len(todo'[d]) <= Len(RoomsOf[d])
    BY <1>2, <1>11
  <2>3. \A i \in DOMAIN todo'[d] : todo'[d][i] = RoomsOf[d][RoomsDone(d)' + i]
    BY <1>2, <1>11
  <2>4. /\ \A r \in Rooms : Told(d, r)' => \E k \in 1..RoomsDone(d)' : RoomsOf[d][k] = r
        /\ faults' = 0 => \A k \in 1..RoomsDone(d)' : Told(d, RoomsOf[d][k])'
        /\ callPc'[d] # "idle"
    BY <1>1, <1>11, <1>12, <1>13
  <2>5. ASSUME NEW e \in Calls \ {d}
        PROVE  /\ callPc'[e] = "idle" => \A r \in Rooms : ~Told(e, r)'
               /\ callPc'[e] = "publishing" =>
                    /\ Len(todo'[e]) <= Len(RoomsOf[e])
                    /\ \A i \in DOMAIN todo'[e] :
                         todo'[e][i] = RoomsOf[e][RoomsDone(e)' + i]
                    /\ \A r \in Rooms : Told(e, r)' =>
                         \E k \in 1..RoomsDone(e)' : RoomsOf[e][k] = r
                    /\ faults' = 0 =>
                         \A k \in 1..RoomsDone(e)' : Told(e, RoomsOf[e][k])'
    BY <1>1, <1>10 DEF CallInv, ProgressInv
  <2>6. QED
    BY <2>2, <2>3, <2>4, <2>5 DEF ProgressInv
<1>14. RoomsToldUpToError'
  <2>0. PICK k \in Nat : k = RoomsDone(d) + 1
    BY <1>2
  <2>1. ASSUME faults' = 0
        PROVE  /\ k \in 0..Len(RoomsOf[d]) /\ ToldFirst(d, k)'
               /\ callPc'[d] = "ok" => k = Len(RoomsOf[d])
               /\ callPc'[d] # "error"
    <3>1. callPc'[d] = "ok" => Len(todo[d]) = 1
      <4>1. callPc'[d] = "ok" => Tail(todo[d]) = << >>
        BY <1>11
      <4>2. Tail(todo[d]) = << >> => Len(Tail(todo[d])) = 0
        <5>1. Len(<< >>) = 0
          OBVIOUS
        <5>2. QED
          BY <5>1, Zenon
      <4>3. Len(Tail(todo[d])) = Len(todo[d]) - 1 /\ Len(todo[d]) \in Nat
        BY <1>2
      <4>4. QED
        BY <4>1, <4>2, <4>3
    <3>2. k \in 0..Len(RoomsOf[d])
      <4>1. RoomsDone(d) < Len(RoomsOf[d])
        BY <1>2, RoomsDoneBound
      <4>2. QED
        BY <1>2, <2>0, <4>1
    <3>3. callPc'[d] = "ok" => k = Len(RoomsOf[d])
      BY <1>2, <2>0, <3>1, RoomsDoneBound
    <3>4. ASSUME NEW r \in Rooms
          PROVE  Told(d, r)' <=> \E i \in 1..k : RoomsOf[d][i] = r
      <4>1. faults = 0
        BY <1>1, <2>1
      <4>2. QED
        BY <1>12, <1>13, <2>0, <4>1
    <3>5. ToldFirst(d, k)'
      BY <3>4 DEF ToldFirst
    <3>6. QED
      BY <1>11, <3>2, <3>3, <3>5
  <2>2. ASSUME faults' = 0, NEW e \in Calls \ {d}
        PROVE  \E told \in 0..Len(RoomsOf[e]) :
                 /\ ToldFirst(e, told)'
                 /\ callPc'[e] = "ok" => told = Len(RoomsOf[e])
                 /\ callPc'[e] = "error" /\ CallValid(e) => told < Len(RoomsOf[e])
    <3>1. PICK told \in 0..Len(RoomsOf[e]) :
             /\ ToldFirst(e, told)
             /\ callPc[e] = "ok" => told = Len(RoomsOf[e])
             /\ callPc[e] = "error" /\ CallValid(e) => told < Len(RoomsOf[e])
      BY <1>1, <2>2 DEF CallInv, RoomsToldUpToError
    <3>2. ToldFirst(e, told)'
      BY <1>10, <3>1 DEF ToldFirst
    <3>3. QED
      BY <1>10, <3>1, <3>2
  <2>3. QED
    BY <2>1, <2>2 DEF RoomsToldUpToError
<1>16. QED
  BY <1>8, <1>9, <1>14, <1>15 DEF CallInv

LEMMA AcceptStep ==
  ASSUME TypeOK, LifeInv, CallInv, BrokerPub, UNCHANGED <<callPc, todo, faults>>
  PROVE  CallInv'
<1> DEFINE c == out[1]
<1>1. /\ out \in Seq(Command) /\ out # << >> /\ out' = Tail(out)
      /\ c.by \in Streams \cup Calls
  BY PublishedEvent
<1>2. /\ 1 \in DOMAIN out /\ DOMAIN out \subseteq Nat \ {0} /\ DOMAIN out' \subseteq Nat \ {0}
      /\ \A i \in DOMAIN out' : i + 1 \in DOMAIN out /\ out'[i] = out[i + 1]
      /\ \A i \in DOMAIN out : i = 1 \/ (i - 1 \in DOMAIN out' /\ out'[i - 1] = out[i])
  BY <1>1, Popped
<1>3. /\ Len(log) \in Nat
      /\ DOMAIN log = 1..Len(log) /\ DOMAIN log' = 1..(Len(log) + 1)
      /\ \A n \in DOMAIN log : log'[n] = log[n]
      /\ log'[Len(log) + 1].by = c.by /\ log'[Len(log) + 1].room = c.room
      /\ \A n \in DOMAIN log' : n \in DOMAIN log \/ n = Len(log) + 1
      /\ DOMAIN log \subseteq DOMAIN log' /\ Len(log) + 1 \in DOMAIN log'
  BY Logged DEF EventOf
<1> HIDE DEF c
<1>4. \A d, r : Told(d, r)' <=> Told(d, r)
  <2>1. \A d, r : Told(d, r) => Told(d, r)'
    BY <1>2, <1>3 DEF Told, c
  <2>2. \A d, r : Told(d, r)' => Told(d, r)
    BY <1>2, <1>3 DEF Told, c
  <2>3. QED
    BY <2>1, <2>2
<1>5. ProgressInv' /\ RoomsToldUpToError'
  <2>1. \A d : RoomsDone(d)' = RoomsDone(d)
    BY DEF RoomsDone
  <2>2. ProgressInv'
    BY <1>4, <2>1 DEF CallInv, ProgressInv
  <2>3. QED
    BY <1>4, <2>2 DEF CallInv, RoomsToldUpToError, ToldFirst
<1>6. TellingInv'
  <2>1. ASSUME NEW n \in DOMAIN log', NEW i \in DOMAIN out',
               log'[n].by = out'[i].by, out'[i].by \in Calls
        PROVE  Earlier(out'[i].by, log'[n].room, out'[i].room)
    <3>1. i + 1 \in DOMAIN out /\ out'[i] = out[i + 1] /\ 1 < i + 1
      BY <1>2
    <3>2. CASE n \in DOMAIN log
      BY <1>3, <2>1, <3>1, <3>2 DEF CallInv, TellingInv
    <3>3. CASE n = Len(log) + 1
      BY <1>2, <1>3, <2>1, <3>1, <3>3 DEF CallInv, TellingInv, c
    <3>4. QED
      BY <1>3, <3>2, <3>3
  <2>2. ASSUME NEW i \in DOMAIN out', NEW j \in DOMAIN out',
               i < j, out'[i].by = out'[j].by, out'[i].by \in Calls
        PROVE  Earlier(out'[i].by, out'[i].room, out'[j].room)
    <3>1. /\ i + 1 \in DOMAIN out /\ out'[i] = out[i + 1]
          /\ j + 1 \in DOMAIN out /\ out'[j] = out[j + 1] /\ i + 1 < j + 1
      BY <1>2, <2>2
    <3>2. QED
      BY <2>2, <3>1 DEF CallInv, TellingInv
  <2>3. QED
    BY <2>1, <2>2 DEF TellingInv
<1>7. RoomsToldInOrder'
  <2>1. ASSUME NEW m \in DOMAIN log', NEW n \in DOMAIN log', m < n,
               log'[m].by = log'[n].by, log'[m].by \in Calls
        PROVE  Earlier(log'[m].by, log'[m].room, log'[n].room)
    <3>1. m \in DOMAIN log
      BY <1>3, <2>1
    <3>2. CASE n \in DOMAIN log
      BY <1>3, <2>1, <3>1, <3>2 DEF CallInv, RoomsToldInOrder
    <3>3. CASE n = Len(log) + 1
      <4>1. log[m].by = out[1].by /\ out[1].by \in Calls /\ log'[m] = log[m]
        BY <1>3, <2>1, <3>1, <3>3 DEF c
      <4>2. Earlier(out[1].by, log[m].room, out[1].room)
        BY <1>2, <3>1, <4>1 DEF CallInv, TellingInv
      <4>3. QED
        BY <1>3, <3>3, <4>1, <4>2 DEF c
    <3>4. QED
      BY <1>3, <3>2, <3>3
  <2>2. QED
    BY <2>1 DEF RoomsToldInOrder
<1>8. QED
  BY <1>5, <1>6, <1>7 DEF CallInv

LEMMA UnmovedTellsNothing ==
  ASSUME out \in Seq(Command), UNCHANGED <<out, log, faults>>, \A c \in Calls : CallKeeps(c)
  PROVE  Untold
<1>1. DOMAIN out \subseteq Int
  BY LenProperties
<1>2. \A i \in DOMAIN out' : i + 0 \in DOMAIN out /\ out'[i] = out[i + 0]
  BY <1>1
<1>3. \A c, r : Told(c, r)' <=> Told(c, r)
  BY DEF Told
<1>4. \E k \in Int : \A i \in DOMAIN out' : out'[i].by \in Calls =>
        i + k \in DOMAIN out /\ out'[i] = out[i + k]
  <2>1. 0 \in Int
    OBVIOUS
  <2>2. QED
    BY <1>2, <2>1, Zenon
<1>5. QED
  BY <1>1, <1>3, <1>4 DEF Untold

\* A stream's commands are no call's, and hide none of them.
LEMMA StreamTellsNothing ==
  ASSUME TypeOK, NEW s \in Streams, Stream(s)
  PROVE  Untold
<1>1. /\ UNCHANGED <<log, callPc, todo, faults>> /\ out \in Seq(Command)
      /\ \/ out' = out
         \/ \E c \in Command : c.by = s /\ out' = Append(out, c)
  BY CommandType
     DEF TypeOK, NatsTypeOK, Stream, Reject, Subscribe, PublishJoin, Count, CountFails,
         SendCount, SendFails, Deliver, TakeCopy, DropCopy, SkipOwn, Forward, Cancelled,
         PublishLeave, Unsubscribe, ClientCancels, natsVars, callVars, streamVars,
         Enqueue, Refused, PublishRefused, Sub, Unsub, Pub, EventKinds
<1>2. CASE out' = out
  BY <1>1, <1>2, UnmovedTellsNothing DEF CallKeeps
<1>3. CASE out' # out
  <2>1. PICK c \in Command : c.by = s /\ out' = Append(out, c)
    BY <1>1, <1>3
  <2>2. /\ DOMAIN out = 1..Len(out) /\ Len(out) \in Nat
        /\ DOMAIN out' = 1..(Len(out) + 1)
        /\ \A i \in DOMAIN out' : i \in DOMAIN out \/ i = Len(out) + 1
        /\ \A i \in DOMAIN out : out'[i] = out[i]
        /\ out'[Len(out) + 1] = c
    BY <1>1, <2>1, Pushed
  <2>3. s \notin Calls
    BY ConnAssumption
  <2>4. \A i \in DOMAIN out' : out'[i].by \in Calls =>
          i + 0 \in DOMAIN out /\ out'[i] = out[i + 0]
    BY <2>1, <2>2, <2>3
  <2>5. \A d, r : Told(d, r) => Told(d, r)'
    BY <1>1, <2>1, ToldByPush
  <2>6. \E k \in Int : \A i \in DOMAIN out' : out'[i].by \in Calls =>
          i + k \in DOMAIN out /\ out'[i] = out[i + k]
    <3>1. 0 \in Int
      OBVIOUS
    <3>2. QED
      BY <2>4, <3>1, Zenon
  <2>7. DOMAIN out' \subseteq Int /\ \A d \in Calls : CallKeeps(d)
    BY <1>1, <2>2 DEF CallKeeps
  <2>8. QED
    BY <1>1, <2>5, <2>6, <2>7 DEF Untold
<1>4. QED
  BY <1>2, <1>3

\* Nor does a subscription that the broker takes off the buffer.
LEMMA SubscribingTellsNothing ==
  ASSUME TypeOK, BrokerSub \/ BrokerUnsub, UNCHANGED <<callPc, todo, faults>>
  PROVE  Untold
<1>1. /\ out \in Seq(Command) /\ out # << >> /\ out' = Tail(out) /\ log' = log
      /\ Head(out).op \in {"sub", "unsub"}
  BY DEF TypeOK, NatsTypeOK, BrokerSub, BrokerUnsub
<1>2. /\ Head(out) = out[1] /\ out[1] \in Command
      /\ DOMAIN out \subseteq Nat \ {0} /\ DOMAIN out' \subseteq Nat \ {0}
      /\ \A i \in DOMAIN out' : i + 1 \in DOMAIN out /\ out'[i] = out[i + 1]
      /\ \A i \in DOMAIN out : i = 1 \/ (i - 1 \in DOMAIN out' /\ out'[i - 1] = out[i])
  BY <1>1, Popped
<1>3. out[1].by \notin Calls
  BY <1>1, <1>2, ConnAssumption DEF Command
<1>4. ASSUME NEW c \in Calls, NEW r \in Rooms, Told(c, r) PROVE Told(c, r)'
  <2>1. CASE \E n \in DOMAIN log : log[n].by = c /\ log[n].room = r
    BY <1>1, <2>1 DEF Told
  <2>2. CASE \E i \in DOMAIN out : out[i].by = c /\ out[i].room = r
    <3>1. PICK i \in DOMAIN out : out[i].by = c /\ out[i].room = r
      BY <2>2
    <3>2. i - 1 \in DOMAIN out' /\ out'[i - 1] = out[i]
      BY <1>2, <1>3, <3>1
    <3>3. QED
      BY <3>1, <3>2 DEF Told
  <2>3. QED
    BY <1>4, <2>1, <2>2 DEF Told
<1>5. \E k \in Int : \A i \in DOMAIN out' : out'[i].by \in Calls =>
        i + k \in DOMAIN out /\ out'[i] = out[i + k]
  <2>1. 1 \in Int
    OBVIOUS
  <2>2. QED
    BY <1>2, <2>1, Zenon
<1>6. DOMAIN out' \subseteq Int /\ \A c \in Calls : CallKeeps(c)
  BY <1>2 DEF CallKeeps
<1>7. QED
  BY <1>1, <1>4, <1>5, <1>6 DEF Untold

\* A fault loses commands of calls and repeats none.
LEMMA ReconnectTellsNothing ==
  ASSUME TypeOK, ConnReconnects(Local), faults' = faults + 1, UNCHANGED <<callPc, todo>>
  PROVE  Untold
<1>1. PICK m \in Nat, d \in Int :
        /\ DOMAIN out' \subseteq Nat
        /\ \A i \in 1..m :
             i \in DOMAIN out' => \E s \in Local : out'[i] = Sub(s)
        /\ \A i \in DOMAIN out' :
             i > m => i + d \in DOMAIN out /\ out'[i] = out[i + d]
        /\ DOMAIN out' = 1..(Len(out) - d)
  BY Reconnected
<1>2. ASSUME NEW i \in DOMAIN out', out'[i].by \in Calls
      PROVE  i + d \in DOMAIN out /\ out'[i] = out[i + d]
  <2>1. ~(i \in 1..m)
    BY <1>1, <1>2, ConnAssumption DEF Local, Sub
  <2>2. i > m
    BY <1>1, <2>1
  <2>3. QED
    BY <1>1, <2>2
<1>3. log' = log /\ faults' # 0
  BY DEF ConnReconnects, TypeOK
<1>4. DOMAIN out' \subseteq Int /\ \A c \in Calls : CallKeeps(c)
  BY <1>1 DEF CallKeeps
<1>5. QED
  BY <1>2, <1>3, <1>4 DEF Untold

LEMMA LossTellsNothing ==
  ASSUME TypeOK, out' = << >>, log' = log, faults' = faults + 1, todo' = todo,
         \A c \in Calls : callPc'[c] = callPc[c] \/ callPc'[c] \in {"error", "panic"}
  PROVE  Untold
<1>1. DOMAIN out' = {} /\ faults' # 0
  BY EmptySeq DEF TypeOK
<1>2. QED
  BY <1>1 DEF Untold, CallKeeps

LEMMA CallInit == Init => CallInv
<1> SUFFICES ASSUME Init PROVE CallInv
  OBVIOUS
<1>1. /\ DOMAIN out = {} /\ DOMAIN log = {} /\ \A c \in Calls : callPc[c] = "idle"
  BY EmptySeq DEF Init, NatsInit
<1>2. \A c \in Calls : 0 \in 0..Len(RoomsOf[c]) /\ ToldFirst(c, 0)
  BY <1>1, RpcAssumption, LenProperties DEF ToldFirst, Told
<1>3. RoomsToldUpToError
  BY <1>1, <1>2 DEF RoomsToldUpToError
<1>4. QED
  BY <1>1, <1>3 DEF CallInv, ProgressInv, TellingInv, RoomsToldInOrder, Told

LEMMA CallNext == TypeOK /\ LifeInv /\ CallInv /\ [Next]_vars => CallInv'
<1> SUFFICES ASSUME TypeOK, LifeInv, CallInv, [Next]_vars PROVE CallInv'
  OBVIOUS
<1>1. conn \in {"open", "closed"} /\ out \in Seq(Command)
  BY DEF TypeOK, NatsTypeOK
<1>2. ASSUME NEW s \in Streams, Stream(s) PROVE CallInv'
  BY <1>2, StreamTellsNothing, UntoldStep
<1>3. ASSUME NEW c \in Calls, CallStart(c) PROVE CallInv'
  <2>1. UNCHANGED <<out, log, faults>>
    BY <1>3 DEF CallStart, natsVars
  <2>2. \A d \in Calls : CallKeeps(d)
    BY <1>3 DEF CallStart, CallReturns, CallKeeps, TypeOK
  <2>3. QED
    BY <1>1, <2>1, <2>2, UnmovedTellsNothing, UntoldStep
<1>4. ASSUME NEW c \in Calls, CallPublish(c) PROVE CallInv'
  <2>1. CASE CallGivesUp(c)
    <3>1. UNCHANGED <<out, log, faults>> /\ \A d \in Calls : CallKeeps(d)
      BY <2>1 DEF CallGivesUp, CallReturns, CallKeeps, TypeOK, natsVars
    <3>2. QED
      BY <1>1, <3>1, UnmovedTellsNothing, UntoldStep
  <2>2. QED
    BY <1>4, <2>1, CallSteps, TellStep
<1>5. ASSUME NEW c \in Calls, CallPanics(c) PROVE CallInv'
  BY <1>5, LossTellsNothing, UntoldStep
     DEF CallPanics, ProcessDies, ConnRestarts, Lost, TypeOK
<1>6. CASE BrokerStep
  BY <1>6, AcceptStep, SubscribingTellsNothing, UntoldStep
     DEF BrokerStep, Broker, streamVars, callVars
<1>7. CASE NatsFault
  <2>1. faults' = faults + 1 /\ UNCHANGED <<callPc, todo>>
    BY <1>7 DEF NatsFault, callVars
  <2>2. CASE ConnCloses
    BY <2>1, <2>2, LossTellsNothing, UntoldStep DEF ConnCloses
  <2>3. QED
    BY <1>7, <2>1, <2>2, ReconnectTellsNothing, UntoldStep DEF NatsFault
<1>8. CASE Crash
  BY <1>8, LossTellsNothing, UntoldStep DEF Crash, ProcessDies, ConnRestarts, Lost, TypeOK
<1>9. CASE UNCHANGED vars
  <2>1. UNCHANGED <<out, log, faults, callPc, todo>>
    BY <1>9 DEF vars, natsVars, callVars
  <2>2. QED
    BY <1>1, <2>1, UnmovedTellsNothing, UntoldStep DEF CallKeeps
<1>10. QED
  BY <1>2, <1>3, <1>4, <1>5, <1>6, <1>7, <1>8, <1>9 DEF Next, Call

-----------------------------------------------------------------------------
(* The theorems.                                                           *)

LEMMA LifeInit == Init => LifeInv
<1> SUFFICES ASSUME Init PROVE LifeInv
  OBVIOUS
<1>1. /\ out = << >> /\ log = << >> /\ DOMAIN out = {} /\ DOMAIN log = {}
      /\ subs = {} /\ conn = "open" /\ \A s \in Streams : pc[s] = "idle"
      /\ refused = {} /\ \A c \in Calls : callPc[c] = "idle"
  BY EmptySeq DEF Init, NatsInit
<1>2. /\ \A op, s : ~Asked(op, s)
      /\ \A s, k : ~Announced(s, k) /\ ~InLog(s, k)
  BY <1>1 DEF Asked, Announced, InLog, InOut
<1>3. QED
  BY <1>1, <1>2 DEF LifeInv, ProperInv, MembershipInv, SubscriptionInv, AnnounceInv,
     CleanSubjects, MembershipOrder, NoLeakedSubscription, JoinersLeave, Running

LEMMA LifeNext == TypeOK /\ LifeInv /\ [Next]_vars => LifeInv'
<1> SUFFICES ASSUME TypeOK, LifeInv, [Next]_vars PROVE LifeInv'
  OBVIOUS
<1>1. ASSUME NEW s \in Streams, Stream(s) PROVE LifeInv'
  <2>1. CASE Subscribe(s) \/ PublishJoin(s) \/ PublishLeave(s) \/ Unsubscribe(s)
    BY <2>1, StreamSteps, StreamPushStep, StreamRefusedStep
  <2>2. QED
    BY <1>1, <2>1, StreamMoves, MoveStep DEF Stream, Deliver
<1>2. ASSUME NEW c \in Calls, Call(c) PROVE LifeInv'
  <2>1. CASE CallStart(c)
    BY <2>1, CallMoves, MoveStep
  <2>2. CASE CallPublish(c)
    BY <2>2, CallSteps, CallMoves, MoveStep, CallPushStep
  <2>3. CASE CallPanics(c)
    BY <2>3, LossStep DEF CallPanics, ProcessDies, ConnRestarts, Lost, TypeOK
  <2>4. QED
    BY <1>2, <2>1, <2>2, <2>3 DEF Call
<1>3. CASE BrokerStep
  BY <1>3, BrokerSubStep, BrokerPubLifeStep DEF BrokerStep, Broker, streamVars, callVars
<1>4. CASE NatsFault
  <2>1. faults' = faults + 1 /\ UNCHANGED <<pc, err, callPc, todo>>
    BY <1>4 DEF NatsFault, streamVars, callVars
  <2>2. CASE ConnCloses
    BY <2>1, <2>2, LossStep DEF ConnCloses
  <2>3. QED
    BY <1>4, <2>1, <2>2, ReconnectStep DEF NatsFault
<1>5. CASE Crash
  BY <1>5, LossStep DEF Crash, ProcessDies, ConnRestarts, Lost, TypeOK
<1>6. CASE UNCHANGED vars
  BY <1>6, MoveStep DEF Moves, vars, natsVars, streamVars, callVars, LifeInv, ProperInv
<1>7. QED
  BY <1>1, <1>2, <1>3, <1>4, <1>5, <1>6 DEF Next

\* LifeInv is an invariant of the server.
THEOREM LifeInvariant == Spec => []LifeInv
BY LifeInit, LifeNext, TypeCorrect, PTL DEF Spec

\* No subscription outlives its handler: whatever path ended the stream and
\* whatever faults happened, the broker no longer has it or an UNSUB follows.
THEOREM NoLeak == Spec => []NoLeakedSubscription
<1>1. LifeInv => NoLeakedSubscription
  BY DEF LifeInv
<1>2. QED
  BY <1>1, LifeInvariant, PTL

\* Without faults a finished stream that announced its start announced its
\* end or was refused it, also when its join was refused after it subscribed,
\* and reports OK exactly if its end was announced.
THEOREM JoinersDoLeave == Spec => []JoinersLeave
<1>1. LifeInv => JoinersLeave
  BY DEF LifeInv
<1>2. QED
  BY <1>1, LifeInvariant, PTL

\* One join, then one leave at most, per stream, in the broker's log.
THEOREM OrderedMemberships == Spec => []MembershipOrder
<1>1. LifeInv => MembershipOrder
  BY DEF LifeInv
<1>2. QED
  BY <1>1, LifeInvariant, PTL

\* Every published subject is free of wildcards.
THEOREM SubjectsAreClean == Spec => []CleanSubjects
<1>1. LifeInv => CleanSubjects
  BY DEF LifeInv
<1>2. QED
  BY <1>1, LifeInvariant, PTL

\* CallInv is an invariant of the server.
THEOREM CallInvariant == Spec => []CallInv
BY CallInit, CallNext, TypeCorrect, LifeInvariant, PTL DEF Spec

\* Whatever is lost, crashes or is refused in the middle of a call, no room
\* gets its event twice and none before an earlier room of the request.
THEOREM OrderedRooms == Spec => []RoomsToldInOrder
<1>1. CallInv => RoomsToldInOrder
  BY DEF CallInv
<1>2. QED
  BY <1>1, CallInvariant, PTL

\* Without faults a call told the rooms of its request up to the publication
\* that was refused, and all of them exactly if it succeeds.
THEOREM RoomsUpToError == Spec => []RoomsToldUpToError
<1>1. CallInv => RoomsToldUpToError
  BY DEF CallInv
<1>2. QED
  BY <1>1, CallInvariant, PTL

-----------------------------------------------------------------------------
(* Refinement.                                                             *)

LEMMA PublishRefines ==
  ASSUME TypeOK, LifeInv, BrokerPub, sent' = sent
  PROVE  Feed!Next
<1> DEFINE c == out[1]
<1>1. /\ c.by \in Streams \cup Calls /\ c.room \in Rooms /\ c.kind \in EventKinds
      /\ Proper(c.by, c.room, c.kind) /\ Head(out) = c
      /\ c.by \in Streams =>
           c.kind \in Membership /\ ~InLog(c.by, c.kind) /\ ~InLog(c.by, "userleftroom")
  BY PublishedEvent
<1>2. log' = Append(log, [by |-> c.by, room |-> c.room, kind |-> c.kind])
  BY <1>1 DEF BrokerPub, EventOf
<1>3. Feed!Publish(c.by, c.room, c.kind)
  BY <1>1, <1>2, ConnAssumption
     DEF Feed!Publish, Feed!Published, Feed!MembershipKinds, Membership, Proper, InLog
<1>4. c.kind \in Feed!Kinds
  BY <1>1 DEF Feed!Kinds, Feed!MembershipKinds, EventKinds
<1>5. QED
  BY <1>1, <1>3, <1>4 DEF Feed!Next

LEMMA ForwardRefines ==
  ASSUME TypeOK, FeedInv, NEW s \in Streams, Forward(s)
  PROVE  Feed!Next
<1>1. /\ cur[s] \in DOMAIN log /\ IsFor(s, cur[s])
      /\ \A i \in DOMAIN sent[s] : sent[s][i] < cur[s]
      /\ sent[s] # << >>
  BY DEF FeedInv, HandInv, SentInv, Forward, OwnEvent, IsFor
<1>2. Len(sent[s]) \in DOMAIN sent[s] /\ sent[s][Len(sent[s])] \in Nat
  BY <1>1, EmptySeq, LenProperties, ElementOfSeq DEF TypeOK
<1>3. cur[s] > sent[s][Len(sent[s])]
  BY <1>1, <1>2 DEF TypeOK
<1>4. Feed!Receive(s, cur[s])
  BY <1>1, <1>3 DEF Feed!Receive, IsFor, Forward, natsVars
<1>5. QED
  BY <1>1, <1>4 DEF Feed!Next

\* The server implements the lossy ordered feed: every step of handlers,
\* calls, broker, read loop and faults is a step of the feed or changes
\* neither the log nor what clients were sent.
THEOREM FeedRefinement == Spec => ImplementsFeed
<1>1. Init => Feed!Init
  BY DEF Init, NatsInit, Feed!Init
<1>2. TypeOK /\ FeedInv /\ LifeInv /\ [Next]_vars => [Feed!Next]_(Feed!feedVars)
  <2> SUFFICES ASSUME TypeOK, FeedInv, LifeInv, [Next]_vars
               PROVE  Feed!Next \/ UNCHANGED <<log, sent>>
    BY DEF Feed!feedVars
  <2>1. ASSUME NEW s \in Streams, Stream(s)
        PROVE  Feed!Next \/ UNCHANGED <<log, sent>>
    <3>1. CASE Forward(s)
      BY <3>1, ForwardRefines
    <3>2. CASE SendCount(s)
      <4>1. sent[s] = << >>
        BY <3>2 DEF FeedInv, SentInv, SendCount
      <4>2. Append(sent[s], 0) = <<0>>
        BY <4>1
      <4>3. Feed!Announce(s)
        BY <3>2, <4>1, <4>2 DEF SendCount, Feed!Announce, natsVars, TypeOK
      <4>4. QED
        BY <4>3 DEF Feed!Next
    <3>3. QED
      BY <2>1, <3>1, <3>2
         DEF Stream, Deliver, Reject, Subscribe, PublishJoin, Count, CountFails,
             SendFails, TakeCopy, DropCopy, SkipOwn, Cancelled, PublishLeave,
             Unsubscribe, ClientCancels, natsVars, streamVars
  <2>2. ASSUME NEW c \in Calls, Call(c)
        PROVE  UNCHANGED <<log, sent>>
    BY <2>2 DEF Call, CallStart, CallPublish, CallPanics, ProcessDies,
                ConnRestarts, natsVars, streamVars
  <2>3. CASE BrokerStep
    <3>1. CASE BrokerPub
      BY <2>3, <3>1, PublishRefines DEF BrokerStep, streamVars
    <3>2. QED
      BY <2>3, <3>1 DEF BrokerStep, Broker, BrokerSub, BrokerUnsub, streamVars
  <2>4. CASE NatsFault \/ Crash
    BY <2>4 DEF NatsFault, ConnCloses, ConnReconnects, Crash, ProcessDies,
                ConnRestarts, streamVars
  <2>5. CASE UNCHANGED vars
    BY <2>5 DEF vars, natsVars, streamVars
  <2>6. QED
    BY <2>1, <2>2, <2>3, <2>4, <2>5 DEF Next
<1>3. QED
  BY <1>1, <1>2, TypeCorrect, FeedInvariant, LifeInvariant, PTL
     DEF Spec, ImplementsFeed, Feed!Spec
=============================================================================

------------------------ MODULE WhiteboardFeedProofs ------------------------
(***************************************************************************)
(* What every client of a whiteboard stream can rely on, for any number of *)
(* streams, calls, users and rooms and any faults: proofs of the types,    *)
(* of the invariant FeedInv and of the two properties it is there for.     *)
(***************************************************************************)
EXTENDS WhiteboardEvents, FiniteSetTheorems, SequenceTheorems, TLAPS

-----------------------------------------------------------------------------
(* Type correctness.                                                       *)

\* The commands handlers put on the connection are well formed.
LEMMA CommandType ==
  ASSUME NEW s \in Streams
  PROVE  /\ Sub(s) \in Command /\ Unsub(s) \in Command
         /\ \A k \in EventKinds : Pub(s, RoomOf[s], k) \in Command
BY ConnAssumption DEF Sub, Unsub, Pub, Command

LEMMA CallCommandType ==
  ASSUME NEW c \in Calls, NEW r \in Rooms, NEW k \in EventKinds
  PROVE  Pub(c, r, k) \in Command
BY DEF Pub, Command

\* Buffering a command, or being refused, keeps the connection well formed.
LEMMA EnqueueType ==
  ASSUME TypeOK, NEW command \in Command, Enqueue(command)
  PROVE  out' \in Seq(Command)
BY AppendProperties DEF TypeOK, NatsTypeOK, Enqueue

LEMMA RefusedType ==
  ASSUME TypeOK, Refused \/ PublishRefused
  PROVE  out' \in Seq(Command)
BY DEF TypeOK, NatsTypeOK, Refused, PublishRefused

LEMMA BrokerType ==
  ASSUME TypeOK, Broker
  PROVE  NatsTypeOK'
<1>1. out \in Seq(Command) /\ log \in Seq(Event) /\ inq \in Seq(Copies)
  BY DEF TypeOK, NatsTypeOK
<1>2. out # << >>
  BY DEF Broker, BrokerSub, BrokerUnsub, BrokerPub
<1>3. Head(out) \in Command /\ Tail(out) \in Seq(Command)
  BY <1>1, <1>2, HeadTailProperties
<1>4. CASE BrokerSub
  <2>1. Head(out).by \in Streams
    BY <1>3, <1>4 DEF BrokerSub, Command
  <2>2. QED
    BY <1>3, <1>4, <2>1 DEF BrokerSub, TypeOK, NatsTypeOK
<1>5. CASE BrokerUnsub
  BY <1>3, <1>5 DEF BrokerUnsub, TypeOK, NatsTypeOK
<1>6. CASE BrokerPub
  <2> DEFINE e == EventOf(Head(out))
             copies == [n |-> Len(log) + 1, to |-> Matching(Head(out).room)]
  <2>1. e \in Event
    BY <1>3, <1>6 DEF BrokerPub, Command, EventOf, Event
  <2>2. Append(log, e) \in Seq(Event)
    BY <1>1, <2>1, AppendProperties
  <2>3. copies \in Copies
    BY <1>1, LenProperties DEF Copies, Matching, TypeOK, NatsTypeOK
  <2>4. Append(inq, copies) \in Seq(Copies)
    BY <1>1, <2>3, AppendProperties
  <2>5. inq' \in Seq(Copies)
    BY <1>1, <1>6, <2>4 DEF BrokerPub
  <2>6. QED
    BY <1>3, <1>6, <2>2, <2>5 DEF BrokerPub, TypeOK, NatsTypeOK
<1>7. QED
  BY <1>4, <1>5, <1>6 DEF Broker

\* Reading a copy takes one stream out of the first entry of inq.
LEMMA WithoutCopyType ==
  ASSUME inq \in Seq(Copies), NEW s, Readable(s)
  PROVE  /\ Head(inq) \in Copies /\ Head(inq) = inq[1]
         /\ WithoutCopy(s) \in Seq(Copies)
<1>1. inq # << >>
  BY DEF Readable
<1>2. /\ Head(inq) \in Copies /\ Tail(inq) \in Seq(Copies)
      /\ 1 \in 1..Len(inq) /\ Head(inq) = inq[1]
  BY <1>1, HeadTailProperties, EmptySeq, LenProperties
<1> DEFINE rest == [n |-> inq[1].n, to |-> inq[1].to \ {s}]
<1>3. rest \in Copies
  BY <1>2 DEF Copies
<1>4. [inq EXCEPT ![1] = rest] \in Seq(Copies)
  BY <1>2, <1>3, ExceptSeq
<1>5. QED
  BY <1>2, <1>4 DEF WithoutCopy

LEMMA LocalFinite == Local \in SUBSET Streams /\ Cardinality(Local) \in Nat
BY ConnAssumption, FS_Subset, FS_CardinalityType DEF Local

LEMMA ReconnectType ==
  ASSUME TypeOK, ConnReconnects(Local)
  PROVE  NatsTypeOK'
<1> DEFINE m == Cardinality(Local)
<1>1. PICK kept \in 0..Len(out), order \in [1..m -> Local] :
        out' = [i \in DOMAIN order |-> Sub(order[i])]
                 \o SubSeq(out, Len(out) - kept + 1, Len(out))
  BY DEF ConnReconnects
<1> DEFINE resent == [i \in DOMAIN order |-> Sub(order[i])]
           rest == SubSeq(out, Len(out) - kept + 1, Len(out))
<1>2. out \in Seq(Command) /\ Len(out) \in Nat
  BY LenProperties DEF TypeOK, NatsTypeOK
<1>3. resent \in Seq(Command)
  <2>1. \A i \in 1..m : Sub(order[i]) \in Command
    BY LocalFinite, CommandType
  <2>2. resent = [i \in 1..m |-> Sub(order[i])]
    OBVIOUS
  <2>3. QED
    BY <2>1, <2>2, LocalFinite, IsASeq
<1>4. rest \in Seq(Command)
  <2>1. \A i \in (Len(out) - kept + 1)..Len(out) : out[i] \in Command
    BY <1>2, ElementOfSeq
  <2>2. Len(out) - kept + 1 \in Int /\ Len(out) \in Int
    BY <1>2
  <2>3. QED
    BY <2>1, <2>2, SubSeqProperties
<1>5. out' \in Seq(Command)
  BY <1>1, <1>3, <1>4, ConcatProperties
<1>6. QED
  BY <1>5 DEF ConnReconnects, TypeOK, NatsTypeOK

\* Each step of a stream keeps the types.
LEMMA StreamType ==
  ASSUME TypeOK, NEW s \in Streams, Stream(s)
  PROVE  TypeOK'
<1>0. /\ \A x \in StreamPc : [pc EXCEPT ![s] = x] \in [Streams -> StreamPc]
      /\ \A x \in {"nil", "error"} :
           [err EXCEPT ![s] = x] \in [Streams -> {"nil", "error"}]
      /\ \A x \in Nat : [cur EXCEPT ![s] = x] \in [Streams -> Nat]
      /\ \A x \in Nat : [count EXCEPT ![s] = x] \in [Streams -> Nat]
      /\ \A x \in Nat : Append(sent[s], x) \in Seq(Nat)
      /\ \A x \in Seq(Nat) : [sent EXCEPT ![s] = x] \in [Streams -> Seq(Nat)]
      /\ [ctxDone EXCEPT ![s] = TRUE] \in [Streams -> BOOLEAN]
  BY DEF TypeOK
<1> USE DEF Goto, Fails
<1>1. CASE Reject(s)
  BY <1>0, <1>1 DEF TypeOK, NatsTypeOK, Reject, StreamPc, natsVars, callVars
<1>2. CASE Subscribe(s)
  <2>1. out' \in Seq(Command)
    BY <1>2, CommandType, EnqueueType DEF Subscribe
  <2>2. QED
    BY <1>0, <1>2, <2>1 DEF TypeOK, NatsTypeOK, Subscribe, StreamPc, callVars
<1>3. CASE PublishJoin(s)
  <2>1. out' \in Seq(Command)
    BY <1>3, CommandType, EnqueueType, RefusedType DEF PublishJoin, EventKinds
  <2>2. QED
    BY <1>0, <1>3, <2>1 DEF TypeOK, NatsTypeOK, PublishJoin, StreamPc, callVars
<1>4. CASE Count(s)
  <2>1. CountUsersInRoom(RoomOf[s]) \in Nat
    <3>1. {t \in subs : RoomOf[t] = RoomOf[s]} \in SUBSET Streams
      BY DEF TypeOK, NatsTypeOK
    <3>2. QED
      BY <3>1, ConnAssumption, FS_Subset, FS_CardinalityType DEF CountUsersInRoom
  <2>2. QED
    BY <1>0, <1>4, <2>1 DEF TypeOK, NatsTypeOK, Count, StreamPc, natsVars, callVars
<1>5. CASE CountFails(s)
  BY <1>0, <1>5 DEF TypeOK, NatsTypeOK, CountFails, StreamPc, natsVars, callVars
<1>6. CASE SendCount(s)
  BY <1>0, <1>6 DEF TypeOK, NatsTypeOK, SendCount, StreamPc, natsVars, callVars
<1>7. CASE SendFails(s)
  BY <1>0, <1>7 DEF TypeOK, NatsTypeOK, SendFails, StreamPc, natsVars, callVars
<1>8. CASE TakeCopy(s)
  <2>1. inq' \in Seq(Copies) /\ Head(inq).n \in Nat
    BY <1>8, WithoutCopyType DEF TypeOK, NatsTypeOK, TakeCopy, Copies
  <2>2. QED
    BY <1>0, <1>8, <2>1 DEF TypeOK, NatsTypeOK, TakeCopy, StreamPc, callVars
<1>9. CASE DropCopy(s)
  <2>1. inq' \in Seq(Copies)
    BY <1>9, WithoutCopyType DEF TypeOK, NatsTypeOK, DropCopy
  <2>2. QED
    BY <1>9, <2>1 DEF TypeOK, NatsTypeOK, DropCopy, streamVars, callVars
<1>10. CASE SkipOwn(s)
  BY <1>0, <1>10 DEF TypeOK, NatsTypeOK, SkipOwn, StreamPc, natsVars, callVars
<1>11. CASE Forward(s)
  BY <1>0, <1>11 DEF TypeOK, NatsTypeOK, Forward, StreamPc, natsVars, callVars
<1>12. CASE Cancelled(s)
  BY <1>0, <1>12 DEF TypeOK, NatsTypeOK, Cancelled, StreamPc, natsVars, callVars
<1>13. CASE PublishLeave(s)
  <2>1. out' \in Seq(Command)
    BY <1>13, CommandType, EnqueueType, RefusedType DEF PublishLeave, EventKinds
  <2>2. QED
    BY <1>0, <1>13, <2>1 DEF TypeOK, NatsTypeOK, PublishLeave, StreamPc, callVars
<1>14. CASE Unsubscribe(s)
  <2>1. out' \in Seq(Command)
    BY <1>14, CommandType, EnqueueType, RefusedType DEF Unsubscribe
  <2>2. QED
    BY <1>0, <1>14, <2>1 DEF TypeOK, NatsTypeOK, Unsubscribe, StreamPc, callVars
<1>15. CASE ClientCancels(s)
  BY <1>0, <1>15 DEF TypeOK, NatsTypeOK, ClientCancels, natsVars, callVars
<1>16. QED
  BY <1>1, <1>2, <1>3, <1>4, <1>5, <1>6, <1>7, <1>8, <1>9, <1>10, <1>11,
     <1>12, <1>13, <1>14, <1>15 DEF Stream, Deliver

\* So does each step of a call that does not end the process.
LEMMA CallType ==
  ASSUME TypeOK, NEW c \in Calls, CallStart(c) \/ CallPublish(c)
  PROVE  TypeOK'
<1>0. \A x \in CallPc : [callPc EXCEPT ![c] = x] \in [Calls -> CallPc]
  BY DEF TypeOK
<1>1. CASE CallStart(c)
  <2>1. RoomsOf[c] \in Seq(Rooms)
    BY RpcAssumption
  <2>2. todo' \in [Calls -> Seq(Rooms)]
    BY <1>1, <2>1 DEF CallStart, TypeOK
  <2>3. callPc' \in [Calls -> CallPc]
    BY <1>0, <1>1 DEF CallStart, CallReturns, CallPc
  <2>4. QED
    BY <1>1, <2>2, <2>3 DEF TypeOK, NatsTypeOK, CallStart, natsVars, streamVars
<1>2. CASE CallPublish(c)
  <2>1. todo[c] \in Seq(Rooms)
    BY DEF TypeOK
  <2>2. CASE PublishRefused /\ CallReturns(c, "error") /\ todo' = todo
    <3>1. out' \in Seq(Command)
      BY <2>2, RefusedType
    <3>2. callPc' \in [Calls -> CallPc]
      BY <1>0, <2>2 DEF CallReturns, CallPc
    <3>3. QED
      BY <1>2, <2>2, <3>1, <3>2 DEF TypeOK, NatsTypeOK, CallPublish, streamVars
  <2>3. CASE /\ todo[c] # << >>
             /\ Enqueue(Pub(c, Head(todo[c]), KindOf[c]))
             /\ todo' = [todo EXCEPT ![c] = Tail(@)]
             /\ CallReturns(c, IF Tail(todo[c]) = << >> THEN "ok" ELSE "publishing")
    <3>1. Head(todo[c]) \in Rooms /\ Tail(todo[c]) \in Seq(Rooms)
      BY <2>1, <2>3, HeadTailProperties
    <3>2. out' \in Seq(Command)
      BY <1>2, <2>3, <3>1, CallCommandType, EnqueueType DEF CallPublish, HasRoutingKey
    <3>3. callPc' \in [Calls -> CallPc]
      BY <1>0, <2>3 DEF CallReturns, CallPc
    <3>4. todo' \in [Calls -> Seq(Rooms)]
      BY <2>3, <3>1 DEF TypeOK
    <3>5. QED
      BY <1>2, <3>2, <3>3, <3>4 DEF TypeOK, NatsTypeOK, CallPublish, streamVars
  <2>4. QED
    BY <1>2, <2>2, <2>3 DEF CallPublish
<1>3. QED
  BY <1>1, <1>2

LEMMA ProcessDiesType ==
  ASSUME TypeOK, ProcessDies,
         NEW c, callPc' = [d \in Calls |-> IF d = c THEN "panic" ELSE Lost(d)]
  PROVE  TypeOK'
BY EmptySeq DEF TypeOK, NatsTypeOK, ProcessDies, ConnRestarts, Lost, StreamPc, CallPc, Running

LEMMA CrashType ==
  ASSUME TypeOK, Crash
  PROVE  TypeOK'
BY EmptySeq DEF TypeOK, NatsTypeOK, Crash, ProcessDies, ConnRestarts, Lost, StreamPc, CallPc, Running

\* Type correctness of the whole server: in particular the counts sent to
\* clients are numbers and the broker only ever holds subscriptions of streams.
THEOREM TypeCorrect == Spec => []TypeOK
<1>1. Init => TypeOK
  BY EmptySeq DEF Init, NatsInit, TypeOK, NatsTypeOK, StreamPc, CallPc
<1>2. TypeOK /\ [Next]_vars => TypeOK'
  <2> SUFFICES ASSUME TypeOK, [Next]_vars PROVE TypeOK'
    OBVIOUS
  <2>1. ASSUME NEW s \in Streams, Stream(s) PROVE TypeOK'
    BY <2>1, StreamType
  <2>2. ASSUME NEW c \in Calls, Call(c) PROVE TypeOK'
    BY <2>2, CallType, ProcessDiesType DEF Call, CallPanics
  <2>3. CASE BrokerStep
    BY <2>3, BrokerType DEF BrokerStep, TypeOK, streamVars, callVars
  <2>4. CASE NatsFault
    <3>1. NatsTypeOK'
      <4>1. CASE ConnCloses
        BY <4>1, EmptySeq DEF ConnCloses, TypeOK, NatsTypeOK
      <4>2. QED
        BY <2>4, <4>1, ReconnectType DEF NatsFault
    <3>2. QED
      BY <2>4, <3>1 DEF NatsFault, TypeOK, streamVars, callVars
  <2>5. CASE Crash
    BY <2>5, CrashType
  <2>6. CASE UNCHANGED vars
    BY <2>6 DEF TypeOK, NatsTypeOK, vars, natsVars, streamVars, callVars
  <2>7. QED
    BY <2>1, <2>2, <2>3, <2>4, <2>5, <2>6 DEF Next
<1>3. QED
  BY <1>1, <1>2, PTL DEF Spec

-----------------------------------------------------------------------------
(* The feed.                                                               *)

\* q is what is left of inq after its first d entries and some copies are gone.
Thinned(q, d) ==
  \A k \in DOMAIN q :
    /\ k + d \in DOMAIN inq
    /\ q[k].n = inq[k + d].n /\ q[k].to \subseteq inq[k + d].to

\* Reading one copy thins inq, and the reader has no copy of that event left.
LEMMA WithoutCopyThins ==
  ASSUME inq \in Seq(Copies), NEW s, Readable(s)
  PROVE  \E d \in {0, 1} :
           /\ Thinned(WithoutCopy(s), d)
           /\ \A k \in DOMAIN WithoutCopy(s) :
                s \in WithoutCopy(s)[k].to => k + d > 1
<1>1. inq # << >> /\ s \in inq[1].to /\ 1 \in DOMAIN inq /\ Head(inq) = inq[1]
  BY EmptySeq, LenProperties, WithoutCopyType DEF Readable
<1>2. CASE inq[1].to = {s}
  <2>1. WithoutCopy(s) = Tail(inq)
    BY <1>1, <1>2 DEF WithoutCopy
  <2>2. /\ Tail(inq) \in Seq(Copies) /\ Len(Tail(inq)) = Len(inq) - 1
        /\ \A k \in 1..Len(Tail(inq)) : Tail(inq)[k] = inq[k + 1]
    BY <1>1, HeadTailProperties
  <2>3. \A k \in DOMAIN Tail(inq) :
          k \in Nat \ {0} /\ k + 1 \in DOMAIN inq /\ Tail(inq)[k] = inq[k + 1]
    BY <2>2, LenProperties
  <2>4. Thinned(WithoutCopy(s), 1)
    BY <2>1, <2>3 DEF Thinned
  <2>5. QED
    BY <2>1, <2>3, <2>4
<1>3. CASE inq[1].to # {s}
  <2> DEFINE rest == [n |-> inq[1].n, to |-> inq[1].to \ {s}]
  <2>1. WithoutCopy(s) = [inq EXCEPT ![1] = rest]
    BY <1>1, <1>3 DEF WithoutCopy
  <2>2. DOMAIN inq \subseteq Nat \ {0}
    BY LenProperties
  <2>3. \A k \in DOMAIN inq : WithoutCopy(s)[k] = IF k = 1 THEN rest ELSE inq[k]
    BY <2>1
  <2>4. DOMAIN WithoutCopy(s) = DOMAIN inq
    BY <2>1
  <2>5. Thinned(WithoutCopy(s), 0)
    BY <2>2, <2>3, <2>4 DEF Thinned
  <2>6. s \notin WithoutCopy(s)[1].to
    BY <1>1, <2>3
  <2>7. QED
    BY <2>2, <2>4, <2>5, <2>6
<1>4. QED
  BY <1>2, <1>3

\* A step that sends nothing, publishes nothing and puts no event in a
\* handler's hand preserves the invariant.
Settled(s) ==
  /\ pc'[s] # "got"
  /\ pc'[s] \in {"idle", "subscribed", "joined", "counted"} => sent[s] = << >>
  /\ pc'[s] = "select" => sent[s] # << >>

LEMMA QuietStep ==
  ASSUME FeedInv, NEW d \in {0, 1}, inq \in Seq(Copies),
         inq' \in Seq(Copies), Thinned(inq', d), log' = log, sent' = sent,
         \A s \in Streams : \/ pc'[s] = pc[s] /\ cur'[s] = cur[s]
                            \/ Settled(s)
  PROVE  FeedInv'
<1>1. DOMAIN inq \subseteq Nat /\ DOMAIN inq' \subseteq Nat
  BY LenProperties
<1>2. \A s \in Streams, k \in DOMAIN inq' :
        Ahead(s, k)' => /\ Ahead(s, k + d) /\ k + d \in DOMAIN inq
                        /\ inq'[k].n = inq[k + d].n
  BY DEF Ahead, Thinned
<1>3. CopiesInv'
  <2>1. \A k \in DOMAIN inq' : inq'[k].n \in DOMAIN log
    BY DEF FeedInv, CopiesInv, Thinned
  <2>2. \A k, l \in DOMAIN inq' : k < l => inq'[k].n < inq'[l].n
    BY <1>1 DEF FeedInv, CopiesInv, Thinned
  <2>3. \A s \in Streams : \A k \in DOMAIN inq' :
          Ahead(s, k)' => log[inq'[k].n].room = RoomOf[s]
    BY <1>2 DEF FeedInv, CopiesInv
  <2>4. QED
    BY <2>1, <2>2, <2>3 DEF CopiesInv
<1>4. HandInv'
  BY <1>2 DEF FeedInv, HandInv, Settled
<1>5. SentInv'
  BY <1>2 DEF FeedInv, SentInv, Settled
<1>6. QED
  BY <1>3, <1>4, <1>5 DEF FeedInv, OthersEventsOnly, CountThenInOrder, IsFor

LEMMA SameThinned ==
  ASSUME inq \in Seq(Copies)
  PROVE  Thinned(inq, 0)
BY LenProperties DEF Thinned

\* The event a client is sent is new to it and comes after all it was sent.
LEMMA SendStep ==
  ASSUME TypeOK, FeedInv, NEW s \in Streams, NEW n \in Nat,
         sent' = [sent EXCEPT ![s] = Append(@, n)], log' = log, inq' = inq,
         \A t \in Streams \ {s} : pc'[t] = pc[t] /\ cur'[t] = cur[t],
         pc'[s] = "select",
         sent[s] = << >> <=> n = 0,
         n # 0 => n \in DOMAIN log /\ IsFor(s, n),
         \A i \in DOMAIN sent[s] : sent[s][i] < n,
         \A k \in DOMAIN inq : Ahead(s, k) => n < inq[k].n
  PROVE  FeedInv'
<1>1. \A t \in Streams : sent[t] \in Seq(Nat)
  BY DEF TypeOK
<1>2. /\ sent'[s] = Append(sent[s], n) /\ sent'[s] \in Seq(Nat)
      /\ \A t \in Streams \ {s} : sent'[t] = sent[t]
  BY <1>1, AppendProperties DEF TypeOK
<1> DEFINE last == Len(sent[s]) + 1
<1>3. /\ last \in Nat \ {0}
      /\ DOMAIN sent[s] = 1..(last - 1) /\ DOMAIN sent'[s] = 1..last
      /\ \A i \in 1..(last - 1) : sent'[s][i] = sent[s][i]
      /\ sent'[s][last] = n
      /\ last = 1 <=> sent[s] = << >>
  BY <1>1, <1>2, AppendProperties, LenProperties, EmptySeq
<1>4. CopiesInv'
  BY DEF FeedInv, CopiesInv, Ahead
<1>5. HandInv'
  BY <1>2 DEF FeedInv, HandInv, Ahead
<1>6. SentInv'
  <2>1. sent'[s] # << >>
    BY <1>2, <1>1, AppendProperties
  <2>2. \A i \in DOMAIN sent'[s], k \in DOMAIN inq :
          Ahead(s, k) => sent'[s][i] < inq[k].n
    BY <1>3 DEF FeedInv, SentInv
  <2>3. QED
    BY <1>2, <2>1, <2>2 DEF FeedInv, SentInv, Ahead
<1>7. OthersEventsOnly'
  BY <1>2, <1>3 DEF FeedInv, OthersEventsOnly, IsFor
<1>8. CountThenInOrder'
  <2>1. ASSUME NEW i \in 1..last
        PROVE  /\ i = 1 <=> sent'[s][i] = 0
               /\ \A j \in 1..(i - 1) : sent'[s][j] < sent'[s][i]
    <3>1. CASE i = last
      BY <1>3, <3>1
    <3>2. CASE i \in 1..(last - 1)
      <4>1. /\ i = 1 <=> sent[s][i] = 0
            /\ \A j \in 1..(i - 1) : sent[s][j] < sent[s][i]
        BY <1>3, <3>2 DEF FeedInv, CountThenInOrder
      <4>2. \A j \in 1..(i - 1) : sent'[s][j] = sent[s][j]
        BY <1>3, <3>2
      <4>3. QED
        BY <1>3, <3>2, <4>1, <4>2
    <3>3. QED
      BY <1>3, <3>1, <3>2
  <2>2. QED
    BY <1>2, <1>3, <2>1 DEF FeedInv, CountThenInOrder
<1>9. QED
  BY <1>4, <1>5, <1>6, <1>7, <1>8 DEF FeedInv

LEMMA SendCountStep ==
  ASSUME TypeOK, FeedInv, NEW s \in Streams, SendCount(s)
  PROVE  FeedInv'
<1>1. sent[s] = << >>
  BY DEF FeedInv, SentInv, SendCount
<1>2. \A k \in DOMAIN inq : 0 < inq[k].n
  <2>1. DOMAIN log \subseteq Nat \ {0}
    BY LenProperties DEF TypeOK, NatsTypeOK
  <2>2. QED
    BY <2>1 DEF FeedInv, CopiesInv
<1>3. /\ sent' = [sent EXCEPT ![s] = Append(@, 0)] /\ log' = log /\ inq' = inq
      /\ \A t \in Streams \ {s} : pc'[t] = pc[t] /\ cur'[t] = cur[t]
      /\ pc'[s] = "select"
  BY DEF SendCount, Goto, TypeOK, natsVars
<1>4. DOMAIN sent[s] = {}
  BY <1>1, EmptySeq
<1>5. QED
  BY <1>1, <1>2, <1>3, <1>4, SendStep

LEMMA ForwardStep ==
  ASSUME TypeOK, FeedInv, NEW s \in Streams, Forward(s)
  PROVE  FeedInv'
<1>1. /\ cur[s] \in DOMAIN log /\ IsFor(s, cur[s])
      /\ \A k \in DOMAIN inq : Ahead(s, k) => cur[s] < inq[k].n
      /\ \A i \in DOMAIN sent[s] : sent[s][i] < cur[s]
      /\ sent[s] # << >>
  BY DEF FeedInv, HandInv, SentInv, Forward, OwnEvent, IsFor
<1>2. cur[s] \in Nat \ {0}
  BY <1>1, LenProperties DEF TypeOK, NatsTypeOK
<1>3. QED
  BY <1>1, <1>2, SendStep DEF Forward, Goto, TypeOK, natsVars

LEMMA TakeCopyStep ==
  ASSUME TypeOK, FeedInv, NEW s \in Streams, TakeCopy(s)
  PROVE  FeedInv'
<1>1. inq \in Seq(Copies) /\ inq' \in Seq(Copies) /\ Head(inq) = inq[1]
  BY WithoutCopyType DEF TypeOK, NatsTypeOK, TakeCopy
<1>2. PICK d \in {0, 1} :
        /\ Thinned(inq', d)
        /\ \A k \in DOMAIN inq' : s \in inq'[k].to => k + d > 1
  BY <1>1, WithoutCopyThins DEF TakeCopy
<1>3. 1 \in DOMAIN inq /\ Ahead(s, 1) /\ cur'[s] = inq[1].n /\ pc[s] = "select"
  BY <1>1, EmptySeq, LenProperties DEF TakeCopy, Readable, Ahead, Parked, TypeOK
<1>4. \A k \in DOMAIN inq' : Ahead(s, k)' => inq[1].n < inq'[k].n
  <2>1. DOMAIN inq \subseteq Nat
    BY <1>1, LenProperties
  <2>2. \A l \in DOMAIN inq : l > 1 => inq[1].n < inq[l].n
    BY <1>3, <2>1 DEF FeedInv, CopiesInv
  <2>3. \A k \in DOMAIN inq' : k + d \in DOMAIN inq /\ inq'[k].n = inq[k + d].n
    BY <1>2 DEF Thinned
  <2>4. QED
    BY <1>2, <2>2, <2>3 DEF Ahead
<1>5. \A t \in Streams, k \in DOMAIN inq' :
        Ahead(t, k)' => /\ Ahead(t, k + d) /\ k + d \in DOMAIN inq
                        /\ inq'[k].n = inq[k + d].n
  BY <1>2 DEF Ahead, Thinned
<1>6. CopiesInv'
  <2>1. DOMAIN inq \subseteq Nat /\ DOMAIN inq' \subseteq Nat
    BY <1>1, LenProperties
  <2>2. log' = log
    BY DEF TakeCopy
  <2>3. \A k \in DOMAIN inq' : inq'[k].n \in DOMAIN log
    BY <1>2 DEF FeedInv, CopiesInv, Thinned
  <2>4. \A k, l \in DOMAIN inq' : k < l => inq'[k].n < inq'[l].n
    BY <1>2, <2>1 DEF FeedInv, CopiesInv, Thinned
  <2>5. \A t \in Streams : \A k \in DOMAIN inq' :
          Ahead(t, k)' => log[inq'[k].n].room = RoomOf[t]
    BY <1>5 DEF FeedInv, CopiesInv
  <2>6. QED
    BY <2>2, <2>3, <2>4, <2>5 DEF CopiesInv
<1>7. HandInv'
  <2>1. /\ inq[1].n \in DOMAIN log /\ log[inq[1].n].room = RoomOf[s]
        /\ \A i \in DOMAIN sent[s] : sent[s][i] < inq[1].n
    BY <1>3 DEF FeedInv, CopiesInv, SentInv
  <2>2. \A t \in Streams \ {s} : pc'[t] = pc[t] /\ cur'[t] = cur[t]
    BY DEF TakeCopy, Goto, TypeOK
  <2>3. ASSUME NEW t \in Streams, pc'[t] = "got"
        PROVE  /\ cur'[t] \in DOMAIN log /\ log[cur'[t]].room = RoomOf[t]
               /\ \A k \in DOMAIN inq' : Ahead(t, k)' => cur'[t] < inq'[k].n
               /\ \A i \in DOMAIN sent[t] : sent[t][i] < cur'[t]
    <3>1. CASE t = s
      BY <1>3, <1>4, <2>1, <3>1
    <3>2. CASE t # s
      BY <1>5, <2>2, <2>3, <3>2 DEF FeedInv, HandInv
    <3>3. QED
      BY <3>1, <3>2
  <2>4. log' = log /\ sent' = sent
    BY DEF TakeCopy
  <2>5. QED
    BY <2>3, <2>4 DEF HandInv
<1>8. SentInv'
  <2>1. sent' = sent /\ pc'[s] = "got" /\ \A t \in Streams \ {s} : pc'[t] = pc[t]
    BY DEF TakeCopy, Goto, TypeOK
  <2>2. QED
    BY <1>3, <1>5, <2>1 DEF FeedInv, SentInv
<1>9. QED
  BY <1>6, <1>7, <1>8
     DEF FeedInv, OthersEventsOnly, CountThenInOrder, IsFor, TakeCopy

LEMMA DropCopyStep ==
  ASSUME TypeOK, FeedInv, NEW s \in Streams, DropCopy(s)
  PROVE  FeedInv'
<1>1. inq \in Seq(Copies) /\ inq' \in Seq(Copies)
  BY WithoutCopyType DEF TypeOK, NatsTypeOK, DropCopy
<1>2. PICK d \in {0, 1} : Thinned(inq', d)
  BY <1>1, WithoutCopyThins DEF DropCopy
<1>3. QED
  BY <1>1, <1>2, QuietStep DEF DropCopy, streamVars

\* The other steps of a handler only move it.
LEMMA OtherStreamStep ==
  ASSUME TypeOK, FeedInv, NEW s \in Streams,
         \/ Reject(s) \/ Subscribe(s) \/ PublishJoin(s) \/ Count(s)
         \/ CountFails(s) \/ SendFails(s) \/ SkipOwn(s) \/ Cancelled(s)
         \/ PublishLeave(s) \/ Unsubscribe(s) \/ ClientCancels(s)
  PROVE  FeedInv'
<1>1. inq \in Seq(Copies) /\ inq' = inq /\ log' = log /\ sent' = sent
  BY DEF TypeOK, NatsTypeOK, Reject, Subscribe, PublishJoin, Count, CountFails,
         SendFails, SkipOwn, Cancelled, PublishLeave, Unsubscribe, ClientCancels,
         natsVars
<1>2. \A t \in Streams : \/ pc'[t] = pc[t] /\ cur'[t] = cur[t]
                         \/ Settled(t)
  <2>1. \A t \in Streams \ {s} : pc'[t] = pc[t] /\ cur'[t] = cur[t]
    BY DEF TypeOK, Reject, Subscribe, PublishJoin, Count, CountFails,
           SendFails, SkipOwn, Cancelled, PublishLeave, Unsubscribe,
           ClientCancels, Goto
  <2>2. Settled(s) \/ (pc'[s] = pc[s] /\ cur'[s] = cur[s])
    BY DEF TypeOK, FeedInv, SentInv, Settled, Reject, Subscribe, PublishJoin,
           Count, CountFails, SendFails, SkipOwn, Cancelled, PublishLeave,
           Unsubscribe, ClientCancels, Goto
  <2>3. QED
    BY <2>1, <2>2
<1>3. Thinned(inq', 0)
  BY <1>1, SameThinned
<1>4. QED
  BY <1>1, <1>2, <1>3, QuietStep

LEMMA BrokerPubStep ==
  ASSUME TypeOK, FeedInv, BrokerPub, UNCHANGED streamVars
  PROVE  FeedInv'
<1> DEFINE n == Len(log) + 1
           r == Head(out).room
           copies == [n |-> n, to |-> Matching(r)]
<1>1. /\ log \in Seq(Event) /\ inq \in Seq(Copies) /\ out \in Seq(Command)
      /\ Len(log) \in Nat /\ DOMAIN log = 1..Len(log) /\ out # << >>
      /\ Head(out).op = "pub"
  BY LenProperties DEF TypeOK, NatsTypeOK, BrokerPub
<1>2. EventOf(Head(out)) \in Event
  BY <1>1, HeadTailProperties DEF EventOf, Event, Command
<1>3. /\ DOMAIN log' = 1..n /\ log'[n].room = r
      /\ \A i \in DOMAIN log : log'[i] = log[i]
  BY <1>1, <1>2, AppendProperties, LenProperties DEF BrokerPub, EventOf
<1>4. copies \in Copies
  BY <1>1 DEF Copies, Matching, TypeOK, NatsTypeOK
<1>5. \/ inq' = inq
      \/ inq' = Append(inq, copies)
  BY DEF BrokerPub
<1>6. ASSUME NEW k \in DOMAIN inq'
      PROVE  \/ k \in DOMAIN inq /\ inq'[k] = inq[k]
             \/ /\ k = Len(inq) + 1 /\ inq'[k] = copies
                /\ \A l \in DOMAIN inq' : l <= k
  <2>1. DOMAIN inq = 1..Len(inq) /\ Len(inq) \in Nat
    BY <1>1, LenProperties
  <2>2. CASE inq' = inq
    BY <2>2
  <2>3. CASE inq' = Append(inq, copies)
    <3>1. /\ DOMAIN inq' = 1..(Len(inq) + 1)
          /\ \A i \in 1..Len(inq) : inq'[i] = inq[i]
          /\ inq'[Len(inq) + 1] = copies
      BY <1>1, <1>4, <2>3, AppendProperties, LenProperties
    <3>2. QED
      BY <2>1, <3>1
  <2>4. QED
    BY <1>5, <2>2, <2>3
<1>7. \A k \in DOMAIN inq : inq[k].n \in 1..Len(log)
  BY <1>1 DEF FeedInv, CopiesInv
<1>8. \A s \in Streams : s \in Matching(r) => RoomOf[s] = r
  BY DEF Matching
<1>9. CopiesInv'
  <2>1. \A k \in DOMAIN inq' : inq'[k].n \in DOMAIN log'
    BY <1>1, <1>3, <1>6, <1>7
  <2>2. ASSUME NEW k \in DOMAIN inq', NEW l \in DOMAIN inq', k < l
        PROVE  inq'[k].n < inq'[l].n
    <3>1. DOMAIN inq \subseteq Nat /\ DOMAIN inq' \subseteq Nat
      BY <1>1, <1>4, <1>5, AppendProperties, LenProperties
    <3>2. k \in DOMAIN inq /\ inq'[k] = inq[k]
      BY <1>6, <2>2, <3>1
    <3>3. CASE l \in DOMAIN inq /\ inq'[l] = inq[l]
      BY <2>2, <3>2, <3>3 DEF FeedInv, CopiesInv
    <3>4. CASE inq'[l] = copies
      BY <1>1, <1>7, <3>2, <3>4
    <3>5. QED
      BY <1>6, <3>3, <3>4
  <2>3. ASSUME NEW s \in Streams, NEW k \in DOMAIN inq', s \in inq'[k].to
        PROVE  log'[inq'[k].n].room = RoomOf[s]
    <3>1. CASE k \in DOMAIN inq /\ inq'[k] = inq[k]
      <4>1. log[inq[k].n].room = RoomOf[s]
        BY <2>3, <3>1 DEF FeedInv, CopiesInv, Ahead
      <4>2. QED
        BY <1>1, <1>3, <1>7, <3>1, <4>1
    <3>2. CASE inq'[k] = copies
      BY <1>3, <1>8, <2>3, <3>2
    <3>3. QED
      BY <1>6, <3>1, <3>2
  <2>4. QED
    BY <2>1, <2>2, <2>3 DEF CopiesInv, Ahead
<1>10. \A s \in Streams, k \in DOMAIN inq' : Ahead(s, k)' =>
         (k \in DOMAIN inq /\ Ahead(s, k) /\ inq'[k].n = inq[k].n) \/ inq'[k].n = n
  BY <1>6 DEF Ahead
<1>11. \A s \in Streams : \A i \in DOMAIN sent[s] : sent[s][i] < n
  <2>1. \A s \in Streams : \A i \in DOMAIN sent[s] :
          sent[s][i] \in Nat /\ (sent[s][i] # 0 => sent[s][i] \in 1..Len(log))
    BY <1>1, ElementOfSeq, LenProperties DEF FeedInv, OthersEventsOnly, TypeOK
  <2>2. n \in Nat /\ 0 < n /\ \A i \in 1..Len(log) : i < n
    BY <1>1
  <2>3. QED
    BY <2>1, <2>2
<1>12. HandInv'
  <2>1. pc' = pc /\ cur' = cur /\ sent' = sent
    BY DEF streamVars
  <2>2. ASSUME NEW s \in Streams, pc[s] = "got"
        PROVE  /\ cur[s] \in DOMAIN log' /\ log'[cur[s]].room = RoomOf[s]
               /\ \A k \in DOMAIN inq' : Ahead(s, k)' => cur[s] < inq'[k].n
               /\ \A i \in DOMAIN sent[s] : sent[s][i] < cur[s]
    <3>1. /\ cur[s] \in 1..Len(log) /\ log[cur[s]].room = RoomOf[s]
          /\ \A k \in DOMAIN inq : Ahead(s, k) => cur[s] < inq[k].n
          /\ \A i \in DOMAIN sent[s] : sent[s][i] < cur[s]
      BY <1>1, <2>2 DEF FeedInv, HandInv
    <3>2. cur[s] \in DOMAIN log' /\ log'[cur[s]].room = RoomOf[s] /\ cur[s] < n
      BY <1>1, <1>3, <3>1
    <3>3. QED
      BY <1>10, <3>1, <3>2
  <2>3. QED
    BY <2>1, <2>2 DEF HandInv
<1>13. SentInv'
  BY <1>10, <1>11 DEF FeedInv, SentInv, streamVars
<1>14. OthersEventsOnly' /\ CountThenInOrder'
  <2>1. \A s \in Streams, i \in DOMAIN log : IsFor(s, i) => IsFor(s, i)'
    BY <1>3 DEF IsFor
  <2>2. DOMAIN log \subseteq DOMAIN log'
    BY <1>1, <1>3
  <2>3. QED
    BY <2>1, <2>2 DEF FeedInv, OthersEventsOnly, CountThenInOrder, streamVars
<1>15. QED
  BY <1>9, <1>12, <1>13, <1>14 DEF FeedInv

\* A fault empties inq and ends handlers; what was sent stays.
LEMMA FaultStep ==
  ASSUME TypeOK, FeedInv, NatsFault \/ ProcessDies
  PROVE  FeedInv'
<1>1. inq' = << >> /\ log' = log /\ sent' = sent
  BY DEF NatsFault, ConnCloses, ConnReconnects, ProcessDies, ConnRestarts, streamVars
<1>2. \A s \in Streams : \/ pc'[s] = pc[s] /\ cur'[s] = cur[s]
                         \/ Settled(s)
  BY DEF NatsFault, ProcessDies, streamVars, Settled, Running, FeedInv, SentInv
<1>3. inq \in Seq(Copies) /\ inq' \in Seq(Copies) /\ Thinned(inq', 0)
  BY <1>1, EmptySeq, LenProperties DEF Thinned, TypeOK, NatsTypeOK
<1>4. QED
  BY <1>1, <1>2, <1>3, QuietStep

\* FeedInv is inductive: with any interleaving of handlers, calls, broker and
\* read loop and after any crash, reconnection or loss of the connection.
THEOREM FeedInvariant == Spec => []FeedInv
<1>1. Init => FeedInv
  <2> SUFFICES ASSUME Init PROVE FeedInv
    OBVIOUS
  <2>1. inq = << >> /\ DOMAIN inq = {} /\ \A s \in Streams :
          sent[s] = << >> /\ DOMAIN sent[s] = {} /\ pc[s] = "idle"
    BY EmptySeq DEF Init, NatsInit
  <2>2. QED
    BY <2>1 DEF FeedInv, CopiesInv, HandInv, SentInv, OthersEventsOnly,
               CountThenInOrder
<1>2. TypeOK /\ FeedInv /\ [Next]_vars => FeedInv'
  <2> SUFFICES ASSUME TypeOK, FeedInv, [Next]_vars PROVE FeedInv'
    OBVIOUS
  <2>0. inq \in Seq(Copies)
    BY DEF TypeOK, NatsTypeOK
  <2>1. ASSUME NEW s \in Streams, Stream(s) PROVE FeedInv'
    BY <2>1, OtherStreamStep, SendCountStep, ForwardStep, TakeCopyStep,
       DropCopyStep DEF Stream, Deliver
  <2>2. ASSUME NEW c \in Calls, Call(c) PROVE FeedInv'
    <3>1. CASE CallStart(c) \/ CallPublish(c)
      BY <2>0, <3>1, QuietStep, SameThinned
         DEF CallStart, CallPublish, natsVars, streamVars
    <3>2. CASE CallPanics(c)
      BY <3>2, FaultStep DEF CallPanics
    <3>3. QED
      BY <2>2, <3>1, <3>2 DEF Call
  <2>3. CASE BrokerStep
    <3>1. CASE BrokerSub \/ BrokerUnsub
      BY <2>0, <2>3, <3>1, QuietStep, SameThinned
         DEF BrokerStep, BrokerSub, BrokerUnsub, streamVars
    <3>2. QED
      BY <2>3, <3>1, BrokerPubStep DEF BrokerStep, Broker
  <2>4. CASE NatsFault \/ Crash
    BY <2>4, FaultStep DEF Crash
  <2>5. CASE UNCHANGED vars
    BY <2>0, <2>5, QuietStep, SameThinned DEF vars, natsVars, streamVars
  <2>6. QED
    BY <2>1, <2>2, <2>3, <2>4, <2>5 DEF Next
<1>3. QED
  BY <1>1, <1>2, TypeCorrect, PTL DEF Spec

\* whiteboard.proto:14 "A user never receives their own events": whatever a
\* client was sent is an event of its room by another user.
THEOREM NeverOwnEvents == Spec => []OthersEventsOnly
<1>1. FeedInv => OthersEventsOnly
  BY DEF FeedInv
<1>2. QED
  BY <1>1, FeedInvariant, PTL

\* A client is sent the count first and once, then events in the broker's
\* order, none twice.
THEOREM NeverOutOfOrder == Spec => []CountThenInOrder
<1>1. FeedInv => CountThenInOrder
  BY DEF FeedInv
<1>2. QED
  BY <1>1, FeedInvariant, PTL
=============================================================================

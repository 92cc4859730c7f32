-------------------------- MODULE WhiteboardEvents --------------------------
(***************************************************************************)
(* The event side of the whiteboard server: every RecvEvents stream and    *)
(* every SendEvent call, each a goroutine of its own, over the shared NATS *)
(* connection of module Nats.                                              *)
(*                                                                         *)
(* A RecvEvents handler subscribes to its room, publishes a join event,    *)
(* sends the number of users to its client, then forwards the room's       *)
(* events until its context ends; deferred calls publish the leave event   *)
(* and unsubscribe.  Its deliveries channel is unbuffered and nats.go      *)
(* never waits on a subscriber's channel: a copy that arrives while the    *)
(* handler is not parked in its select is dropped.                         *)
(***************************************************************************)
EXTENDS Nats

CONSTANTS Clean,      \* the users and rooms that ntui() accepts
          EmptyRoom,  \* the room id ""
          RoomsOf,    \* SendEvent: the request's room_ids
          KindOf,     \* SendEvent: which event the request holds
          Leavers,    \* bound: the streams whose client may go away
          MaxFaults   \* bound on crashes, reconnections and lost connections

\* The members of the request's oneof, "baddrawing" for a Drawing that is
\* invisible, empty or ragged and "none" for an unset oneof.
RequestKinds == EventKinds \cup {"usersintheroom", "baddrawing", "none"}

ASSUME RpcAssumption ==
  /\ Clean \subseteq Users \cup Rooms
  /\ EmptyRoom \in Rooms \cap Clean
  /\ RoomsOf \in [Calls -> Seq(Rooms)]
  /\ KindOf \in [Calls -> RequestKinds]
  /\ Leavers \subseteq Streams
  /\ MaxFaults \in Nat

VARIABLES pc,       \* where each RecvEvents handler is
          ctxDone,  \* whether the client of each stream is gone
          err,      \* each handler's named result
          cur,      \* the event each handler took from its channel, or 0
          sent,     \* what each client was sent: places in log, 0 = the count
          count,    \* the count each client was sent
          callPc, todo,  \* SendEvent: control and rooms not yet published to
          refused,  \* history: the streams whose leave was refused
          faults    \* how many faults happened

streamVars == <<pc, ctxDone, err, cur, sent, count>>
callVars == <<callPc, todo>>
vars == <<natsVars, streamVars, callVars, refused, faults>>

StreamPc == {"idle", "subscribed", "joined", "counted", "select", "got",
             "leaving", "unsub", "done"}
CallPc == {"idle", "publishing", "ok", "error", "panic"}

TypeOK ==
  /\ NatsTypeOK
  /\ pc \in [Streams -> StreamPc]
  /\ ctxDone \in [Streams -> BOOLEAN]
  /\ err \in [Streams -> {"nil", "error"}]
  /\ cur \in [Streams -> Nat]
  /\ sent \in [Streams -> Seq(Nat)]
  /\ count \in [Streams -> Nat]
  /\ callPc \in [Calls -> CallPc]
  /\ todo \in [Calls -> Seq(Rooms)]
  /\ refused \in SUBSET Streams
  /\ faults \in Nat

Init ==
  /\ NatsInit
  /\ pc = [s \in Streams |-> "idle"]
  /\ ctxDone = [s \in Streams |-> FALSE]
  /\ err = [s \in Streams |-> "nil"]
  /\ cur = [s \in Streams |-> 0]
  /\ sent = [s \in Streams |-> << >>]
  /\ count = [s \in Streams |-> 0]
  /\ callPc = [c \in Calls |-> "idle"]
  /\ todo = [c \in Calls |-> << >>]
  /\ refused = {}
  /\ faults = 0

Running(s) == pc[s] \notin {"idle", "done"}

\* Subscriptions the connection knows, from ChanSubscribe to Unsubscribe.
Local == {s \in Streams : Running(s)}

Goto(s, l) == pc' = [pc EXCEPT ![s] = l]
Fails(s) == err' = [err EXCEPT ![s] = "error"]

-----------------------------------------------------------------------------
(* RecvEvents.                                                             *)

\* prepare and validateRecvEvents
StreamValid(s) ==
  UserOf[s] \in Clean /\ RoomOf[s] \in Clean \ {EmptyRoom}

Reject(s) ==
  /\ pc[s] = "idle" /\ (StreamValid(s) => conn = "closed")
  /\ Goto(s, "done") /\ Fails(s)
  /\ UNCHANGED <<natsVars, ctxDone, cur, sent, count, callVars,
                 refused, faults>>

Subscribe(s) ==
  /\ pc[s] = "idle" /\ StreamValid(s)
  /\ Enqueue(Sub(s))
  /\ Goto(s, "subscribed")
  /\ UNCHANGED <<conn, subs, log, inq, ctxDone, err, cur, sent, count,
                 callVars, refused, faults>>

\* Mutant of PublishJoin: the leave is deferred first.
LeaveDeferredFirst(s) ==
  /\ pc[s] = "subscribed"
  /\ \/ /\ Enqueue(Pub(s, RoomOf[s], "userjoinedroom"))
        /\ Goto(s, "joined") /\ err' = [err EXCEPT ![s] = "nil"]
     \/ PublishRefused /\ Goto(s, "leaving") /\ Fails(s)
  /\ UNCHANGED <<conn, subs, log, inq, ctxDone, cur, sent, count, callVars,
                 refused, faults>>

\* A refused join returns before the leave is deferred.
PublishJoin(s) ==
  /\ pc[s] = "subscribed"
  /\ \/ /\ Enqueue(Pub(s, RoomOf[s], "userjoinedroom"))
        /\ Goto(s, "joined") /\ err' = [err EXCEPT ![s] = "nil"]
     \/ PublishRefused /\ Goto(s, "unsub") /\ Fails(s)
  /\ UNCHANGED <<conn, subs, log, inq, ctxDone, cur, sent, count, callVars,
                 refused, faults>>

Count(s) ==
  /\ pc[s] = "joined"
  /\ count' = [count EXCEPT ![s] = CountUsersInRoom(RoomOf[s])]
  /\ Goto(s, "counted") /\ err' = [err EXCEPT ![s] = "nil"]
  /\ UNCHANGED <<natsVars, ctxDone, cur, sent, callVars, refused, faults>>

\* Mutants of CountFails: the request does not carry the stream's context; a
\* failed count starts over from the join.
CountIgnoresContext(s) ==
  /\ pc[s] = "joined" /\ ~ctxDone[s]
  /\ Goto(s, "leaving") /\ Fails(s)
  /\ UNCHANGED <<natsVars, ctxDone, cur, sent, count, callVars,
                 refused, faults>>

CountStartsOver(s) ==
  /\ pc[s] = "joined"
  /\ Goto(s, "subscribed") /\ Fails(s)
  /\ UNCHANGED <<natsVars, ctxDone, cur, sent, count, callVars,
                 refused, faults>>

\* The HTTP request fails, or the stream's context ends it.
CountFails(s) ==
  /\ pc[s] = "joined"
  /\ Goto(s, "leaving") /\ Fails(s)
  /\ UNCHANGED <<natsVars, ctxDone, cur, sent, count, callVars,
                 refused, faults>>

SendCount(s) ==
  /\ pc[s] = "counted"
  /\ sent' = [sent EXCEPT ![s] = Append(@, 0)]
  /\ Goto(s, "select")
  /\ UNCHANGED <<natsVars, ctxDone, err, cur, count, callVars, refused, faults>>

\* The handler is parked in its select.  Mutant: forwarding starts while the
\* count is still to be sent.
ParkedEarly(s) == pc[s] \in {"counted", "select"}
Parked(s) == pc[s] = "select"

\* The connection's read loop offers the next copy to stream s.  It does not
\* wait: only a parked handler takes it.
TakeCopy(s) ==
  /\ Readable(s) /\ Parked(s)
  /\ inq' = WithoutCopy(s)
  /\ Goto(s, "got") /\ cur' = [cur EXCEPT ![s] = Head(inq).n]
  /\ UNCHANGED <<conn, out, subs, log, ctxDone, err, sent, count, callVars,
                 refused, faults>>

DropCopy(s) ==
  /\ Readable(s) /\ ~Parked(s)
  /\ inq' = WithoutCopy(s)
  /\ UNCHANGED <<conn, out, subs, log, streamVars, callVars, refused, faults>>

Deliver(s) == TakeCopy(s) \/ DropCopy(s)

\* "not FWDing to self".  Mutant: compares streams instead of users.
OwnStream(s) == log[cur[s]].by = s
OwnEvent(s) == UserOf[log[cur[s]].by] = UserOf[s]

SkipOwn(s) ==
  /\ pc[s] = "got" /\ OwnEvent(s)
  /\ Goto(s, "select") /\ cur' = [cur EXCEPT ![s] = 0]
  /\ UNCHANGED <<natsVars, ctxDone, err, sent, count, callVars,
                 refused, faults>>

\* Mutant of Forward: the event is still in hand after it was sent.
ForwardKeeps(s) ==
  /\ pc[s] = "got" /\ ~OwnEvent(s)
  /\ sent' = [sent EXCEPT ![s] = Append(@, cur[s])]
  /\ UNCHANGED <<natsVars, pc, ctxDone, err, cur, count, callVars,
                 refused, faults>>

Forward(s) ==
  /\ pc[s] = "got" /\ ~OwnEvent(s)
  /\ sent' = [sent EXCEPT ![s] = Append(@, cur[s])]
  /\ Goto(s, "select") /\ cur' = [cur EXCEPT ![s] = 0]
  /\ UNCHANGED <<natsVars, ctxDone, err, count, callVars, refused, faults>>

SendFails(s) ==
  /\ pc[s] \in {"counted", "got"} /\ ctxDone[s]
  /\ pc[s] = "got" => ~OwnEvent(s)
  /\ Goto(s, "leaving") /\ Fails(s) /\ cur' = [cur EXCEPT ![s] = 0]
  /\ UNCHANGED <<natsVars, ctxDone, sent, count, callVars, refused, faults>>

Cancelled(s) ==
  /\ pc[s] = "select" /\ ctxDone[s]
  /\ Goto(s, "leaving") /\ Fails(s)
  /\ UNCHANGED <<natsVars, ctxDone, cur, sent, count, callVars,
                 refused, faults>>

\* Mutant of PublishLeave: the leave is published under the stream's context.
LeaveUnderContext(s) ==
  /\ pc[s] = "leaving"
  /\ IF ctxDone[s] THEN UNCHANGED <<out, err>>
     ELSE /\ Enqueue(Pub(s, RoomOf[s], "userleftroom"))
          /\ err' = [err EXCEPT ![s] = "nil"]
  /\ Goto(s, "unsub")
  /\ UNCHANGED <<conn, subs, log, inq, ctxDone, cur, sent, count, callVars,
                 refused, faults>>

\* The deferred leave assigns the named result: a leave that is accepted
\* turns whatever error ended the stream into nil.
PublishLeave(s) ==
  /\ pc[s] = "leaving"
  /\ \/ /\ Enqueue(Pub(s, RoomOf[s], "userleftroom"))
        /\ err' = [err EXCEPT ![s] = "nil"] /\ refused' = refused
     \/ PublishRefused /\ Fails(s) /\ refused' = refused \cup {s}
  /\ Goto(s, "unsub")
  /\ UNCHANGED <<conn, subs, log, inq, ctxDone, cur, sent, count, callVars,
                 faults>>

\* Mutant of Unsubscribe: the deferred call is missing.
UnsubscribeForgotten(s) ==
  /\ pc[s] = "unsub"
  /\ Goto(s, "done")
  /\ UNCHANGED <<natsVars, ctxDone, err, cur, sent, count, callVars,
                 refused, faults>>

Unsubscribe(s) ==
  /\ pc[s] = "unsub"
  /\ Enqueue(Unsub(s)) \/ Refused
  /\ Goto(s, "done")
  /\ UNCHANGED <<conn, subs, log, inq, ctxDone, err, cur, sent, count,
                 callVars, refused, faults>>

\* The client goes away.
ClientCancels(s) ==
  /\ s \in Leavers /\ Running(s) /\ ~ctxDone[s]
  /\ ctxDone' = [ctxDone EXCEPT ![s] = TRUE]
  /\ UNCHANGED <<natsVars, pc, err, cur, sent, count, callVars,
                 refused, faults>>

-----------------------------------------------------------------------------
(* SendEvent.                                                              *)

HasDuplicates(rooms) ==
  \E i, j \in DOMAIN rooms : i # j /\ rooms[i] = rooms[j]

\* Mutant of CallValid: only the first room is checked.
CallFirstRoomValid(c) ==
  /\ UserOf[c] \in Clean
  /\ KindOf[c] \notin {"baddrawing", "userjoinedroom", "userleftroom"}
  /\ RoomsOf[c] # << >> => RoomsOf[c][1] \in Clean

\* prepare and validateSendEvent
CallValid(c) ==
  /\ UserOf[c] \in Clean
  /\ KindOf[c] \notin {"baddrawing", "userjoinedroom", "userleftroom"}
  /\ ~HasDuplicates(RoomsOf[c])
  /\ \A i \in DOMAIN RoomsOf[c] : RoomsOf[c][i] \in Clean

CallReturns(c, l) == callPc' = [callPc EXCEPT ![c] = l]

CallStart(c) ==
  /\ callPc[c] = "idle"
  /\ IF CallValid(c)
     THEN /\ todo' = [todo EXCEPT ![c] = RoomsOf[c]]
          /\ CallReturns(c, IF RoomsOf[c] = << >> THEN "ok" ELSE "publishing")
     ELSE CallReturns(c, "error") /\ UNCHANGED todo
  /\ UNCHANGED <<natsVars, streamVars, refused, faults>>

\* Event.rk() knows the kinds of EventKinds and panics on any other.
HasRoutingKey(kind) == kind \in EventKinds

\* Mutants of CallPublish: the call succeeds with its first room told; the
\* last room comes first.
CallPublishOne(c) ==
  /\ callPc[c] = "publishing" /\ todo[c] # << >> /\ HasRoutingKey(KindOf[c])
  /\ \/ /\ Enqueue(Pub(c, Head(todo[c]), KindOf[c]))
        /\ todo' = [todo EXCEPT ![c] = Tail(@)] /\ CallReturns(c, "ok")
     \/ PublishRefused /\ CallReturns(c, "error") /\ todo' = todo
  /\ UNCHANGED <<conn, subs, log, inq, streamVars, refused, faults>>

CallPublishBackwards(c) ==
  /\ callPc[c] = "publishing" /\ todo[c] # << >> /\ HasRoutingKey(KindOf[c])
  /\ \/ /\ Enqueue(Pub(c, todo[c][Len(todo[c])], KindOf[c]))
        /\ todo' = [todo EXCEPT ![c] = SubSeq(@, 1, Len(@) - 1)]
        /\ CallReturns(c, IF Len(todo[c]) = 1 THEN "ok" ELSE "publishing")
     \/ PublishRefused /\ CallReturns(c, "error") /\ todo' = todo
  /\ UNCHANGED <<conn, subs, log, inq, streamVars, refused, faults>>

\* One room at a time: a refused publish leaves the earlier rooms told.
CallPublish(c) ==
  /\ callPc[c] = "publishing" /\ todo[c] # << >> /\ HasRoutingKey(KindOf[c])
  /\ \/ /\ Enqueue(Pub(c, Head(todo[c]), KindOf[c]))
        /\ todo' = [todo EXCEPT ![c] = Tail(@)]
        /\ CallReturns(c, IF Tail(todo[c]) = << >> THEN "ok" ELSE "publishing")
     \/ PublishRefused /\ CallReturns(c, "error") /\ todo' = todo
  /\ UNCHANGED <<conn, subs, log, inq, streamVars, refused, faults>>

-----------------------------------------------------------------------------
(* Faults.                                                                 *)

\* The process is gone: its handlers run no deferred call, their clients see
\* a transport error, and its replacement starts with no RPC in progress.
ProcessDies ==
  /\ ConnRestarts
  /\ pc' = [s \in Streams |-> IF Running(s) THEN "done" ELSE pc[s]]
  /\ err' = [s \in Streams |-> IF Running(s) THEN "error" ELSE err[s]]
  /\ cur' = [s \in Streams |-> 0]
  /\ faults' = faults + 1
  /\ UNCHANGED <<ctxDone, sent, count, todo, refused>>

Lost(c) == IF callPc[c] = "publishing" THEN "error" ELSE callPc[c]

Crash ==
  /\ faults < MaxFaults
  /\ ProcessDies
  /\ callPc' = [c \in Calls |-> Lost(c)]

\* Nothing recovers a handler's panic: it takes the process down.
CallPanics(c) ==
  /\ callPc[c] = "publishing" /\ todo[c] # << >> /\ ~HasRoutingKey(KindOf[c])
  /\ ProcessDies
  /\ callPc' = [d \in Calls |-> IF d = c THEN "panic" ELSE Lost(d)]

NatsFault ==
  /\ faults < MaxFaults
  /\ ConnCloses \/ ConnReconnects(Local)
  /\ faults' = faults + 1
  /\ UNCHANGED <<streamVars, callVars, refused>>

BrokerStep == Broker /\ UNCHANGED <<streamVars, callVars, refused, faults>>

Stream(s) ==
  \/ Reject(s) \/ Subscribe(s) \/ PublishJoin(s)
  \/ Count(s) \/ CountFails(s) \/ SendCount(s) \/ SendFails(s)
  \/ Deliver(s) \/ SkipOwn(s) \/ Forward(s) \/ Cancelled(s)
  \/ PublishLeave(s) \/ Unsubscribe(s) \/ ClientCancels(s)

Call(c) == CallStart(c) \/ CallPublish(c) \/ CallPanics(c)

Next ==
  \/ \E s \in Streams : Stream(s)
  \/ \E c \in Calls : Call(c)
  \/ BrokerStep \/ NatsFault \/ Crash

Spec == Init /\ [][Next]_vars

\* A handler that waits (on the count's HTTP request, on a client that does
\* not read, on its select) is released by the end of its context; nothing
\* else it does can block.  The broker runs.
Released(s) ==
  ctxDone[s] /\ (CountFails(s) \/ SendFails(s) \/ Cancelled(s))

Fairness ==
  /\ WF_vars(BrokerStep)
  /\ \A s \in Streams :
       /\ WF_vars(PublishJoin(s))
       /\ WF_vars(Released(s))
       /\ WF_vars(SkipOwn(s))
       /\ WF_vars(PublishLeave(s))
       /\ WF_vars(Unsubscribe(s))
  /\ \A c \in Calls : WF_vars(CallPublish(c))

FairSpec == Spec /\ Fairness

-----------------------------------------------------------------------------
(* What the events side promises.                                          *)

\* The event at place n of the log is meant for stream s.
IsFor(s, n) == log[n].room = RoomOf[s] /\ UserOf[log[n].by] # UserOf[s]

\* The user-id filter and the subscription do what the API says: whatever a
\* client was sent is an event of its room by another user, also when its
\* user has several streams open or sends events itself.
OthersEventsOnly ==
  \A s \in Streams : \A i \in DOMAIN sent[s] :
    sent[s][i] # 0 => sent[s][i] \in DOMAIN log /\ IsFor(s, sent[s][i])

\* A client is sent the count once, before anything else, and then the
\* room's events in the broker's order, each at most once: dropped copies
\* leave gaps but nothing is late or repeated.
CountThenInOrder ==
  \A s \in Streams : \A i \in DOMAIN sent[s] :
    /\ i = 1 <=> sent[s][i] = 0
    /\ \A j \in 1..(i - 1) : sent[s][j] < sent[s][i]

\* What module Nats takes for granted of subjects: no event is published for
\* a user or room that could act as a wildcard, be it by a stream or a call.
CleanSubjects ==
  \A n \in DOMAIN log : log[n].room \in Clean /\ UserOf[log[n].by] \in Clean

-----------------------------------------------------------------------------
(* Why the streams behave: the inductive invariant behind OthersEventsOnly  *)
(* and CountThenInOrder.  Copies travel in log order, each stream is ahead  *)
(* of none of the copies that are still to reach it.                        *)

Ahead(s, k) == k \in DOMAIN inq /\ s \in inq[k].to

CopiesInv ==
  /\ \A k \in DOMAIN inq : inq[k].n \in DOMAIN log
  /\ \A k, l \in DOMAIN inq : k < l => inq[k].n < inq[l].n
  /\ \A s \in Streams : \A k \in DOMAIN inq :
       Ahead(s, k) => log[inq[k].n].room = RoomOf[s]

HandInv ==
  \A s \in Streams : pc[s] = "got" =>
    /\ cur[s] \in DOMAIN log /\ log[cur[s]].room = RoomOf[s]
    /\ \A k \in DOMAIN inq : Ahead(s, k) => cur[s] < inq[k].n
    /\ \A i \in DOMAIN sent[s] : sent[s][i] < cur[s]

SentInv ==
  \A s \in Streams :
    /\ pc[s] \in {"idle", "subscribed", "joined", "counted"} => sent[s] = << >>
    /\ pc[s] \in {"select", "got"} => sent[s] # << >>
    /\ \A i \in DOMAIN sent[s], k \in DOMAIN inq :
         Ahead(s, k) => sent[s][i] < inq[k].n

\* Conjoined with the type invariant this is preserved by every step.
FeedInv == CopiesInv /\ HandInv /\ SentInv /\ OthersEventsOnly /\ CountThenInOrder

-----------------------------------------------------------------------------
Asked(op, s) == \E i \in DOMAIN out : out[i].op = op /\ out[i].by = s

\* A finished handler's subscription never outlives the commands still in
\* flight, whatever path ended the handler and whatever fault happened.
NoLeakedSubscription ==
  \A s \in Streams :
    pc[s] = "done" /\ (s \in subs \/ Asked("sub", s)) => Asked("unsub", s)

InLog(s, kind) == \E n \in DOMAIN log : log[n].by = s /\ log[n].kind = kind
InOut(s, kind) ==
  \E i \in DOMAIN out : out[i].by = s /\ out[i].kind = kind
Announced(s, kind) == InLog(s, kind) \/ InOut(s, kind)

\* What a stream's announcements and its result have to do with each other.
Tidy(s) ==
  /\ Announced(s, "userjoinedroom") <=>
       Announced(s, "userleftroom") \/ s \in refused
  /\ err[s] = "nil" <=> Announced(s, "userleftroom")

\* Without a fault, a finished stream that announced its start announced its
\* end, or was refused exactly that, and its status is OK exactly if its end
\* was announced: the deferred leave hides why the stream ended, no path skips
\* it after the join and none takes it when the join itself was refused.
JoinersLeave ==
  faults = 0 => \A s \in Streams : pc[s] = "done" => Tidy(s)

\* A join or a leave of one stream enters the log once, and never a join
\* after the leave, even when reconnecting loses part of what was buffered.
MembershipOrder ==
  \A m, n \in DOMAIN log :
    /\ log[m].by = log[n].by /\ log[m].by \in Streams /\ m < n
    => log[m].kind = "userjoinedroom" /\ log[n].kind = "userleftroom"

-----------------------------------------------------------------------------
(* Why memberships and subscriptions are tidy: the inductive invariant      *)
(* behind the four properties above and the refinement below.               *)

\* What any published event looks like, from the checks made on requests.
Proper(p, r, kind) ==
  /\ r \in Clean /\ UserOf[p] \in Clean
  /\ p \in Streams => r = RoomOf[p] /\ kind # "drawing"
  /\ p \in Calls => kind = "drawing"

ProperInv ==
  /\ \A s \in Streams : Running(s) => StreamValid(s)
  /\ \A c \in Calls : callPc[c] = "publishing" =>
       CallValid(c) /\ \A i \in DOMAIN todo[c] : todo[c][i] \in Clean
  /\ \A i \in DOMAIN out :
       out[i].op = "pub" => Proper(out[i].by, out[i].room, out[i].kind)
  /\ \A n \in DOMAIN log : Proper(log[n].by, log[n].room, log[n].kind)

\* The event command i publishes is the next of its stream's two.
MembershipInv ==
  /\ \A s \in Streams :
       /\ pc[s] \in {"idle", "subscribed"} =>
            ~Announced(s, "userjoinedroom") /\ ~Announced(s, "userleftroom")
       /\ Running(s) /\ pc[s] # "unsub" => ~Announced(s, "userleftroom")
  /\ \A i \in DOMAIN out : out[i].op = "pub" /\ out[i].by \in Streams =>
       /\ ~InLog(out[i].by, out[i].kind) /\ ~InLog(out[i].by, "userleftroom")
       /\ \A j \in DOMAIN out :
            j < i /\ out[j].op = "pub" /\ out[j].by = out[i].by =>
              out[j].kind = "userjoinedroom" /\ out[i].kind = "userleftroom"

SubscriptionInv ==
  /\ conn = "closed" => out = << >> /\ subs = {}
  /\ \A s \in Streams :
       /\ pc[s] = "idle" => s \notin subs /\ ~Asked("sub", s)
       /\ Asked("unsub", s) => pc[s] = "done"
  /\ \A i, j \in DOMAIN out :
       out[i].op = "unsub" /\ out[j].op = "sub" /\ out[i].by = out[j].by => j < i

\* Only a run without faults keeps every announcement it made.
AnnounceInv ==
  faults = 0 =>
    /\ conn = "open"
    /\ \A s \in Streams :
         /\ Running(s) /\ pc[s] \notin {"subscribed", "unsub"} =>
              Announced(s, "userjoinedroom")
         /\ s \in refused => pc[s] \in {"unsub", "done"}
         /\ pc[s] = "unsub" => Tidy(s)

LifeInv ==
  /\ ProperInv /\ MembershipInv /\ SubscriptionInv /\ AnnounceInv
  /\ CleanSubjects /\ MembershipOrder /\ NoLeakedSubscription /\ JoinersLeave

-----------------------------------------------------------------------------
(* What a call tells its rooms.                                            *)

\* Room r comes before room q in the request of call c.
Earlier(c, r, q) ==
  /\ r # q
  /\ \E i, j \in DOMAIN RoomsOf[c] : i < j /\ RoomsOf[c][i] = r /\ RoomsOf[c][j] = q

\* SendEvent tells rooms one by one: whatever is lost on the way and wherever
\* the call ends, no room is told twice and none before an earlier one.
RoomsToldInOrder ==
  \A m, n \in DOMAIN log :
    m < n /\ log[m].by = log[n].by /\ log[m].by \in Calls
      => Earlier(log[m].by, log[m].room, log[n].room)

Told(c, r) ==
  \/ \E n \in DOMAIN log : log[n].by = c /\ log[n].room = r
  \/ \E i \in DOMAIN out : out[i].by = c /\ out[i].room = r

\* The first k rooms of the request, and no others, were told.
ToldFirst(c, k) ==
  \A r \in Rooms : Told(c, r) <=> \E i \in 1..k : RoomsOf[c][i] = r

\* SendEvent stops at the first refused publish and takes nothing back: what
\* was told is always a first part of the request's rooms.  Without a fault it
\* is all of them exactly if the call succeeds, and a call that fails after
\* its checks leaves out one room at least, the one it failed at.
RoomsToldUpToError ==
  faults = 0 => \A c \in Calls : \E k \in 0..Len(RoomsOf[c]) :
    /\ ToldFirst(c, k)
    /\ callPc[c] = "ok" => k = Len(RoomsOf[c])
    /\ callPc[c] = "error" /\ CallValid(c) => k < Len(RoomsOf[c])

\* How many rooms of its request a call that publishes is done with.
RoomsDone(c) == Len(RoomsOf[c]) - Len(todo[c])

ProgressInv ==
  \A c \in Calls :
    /\ callPc[c] = "idle" => \A r \in Rooms : ~Told(c, r)
    /\ callPc[c] = "publishing" =>
         /\ Len(todo[c]) <= Len(RoomsOf[c])
         /\ \A i \in DOMAIN todo[c] : todo[c][i] = RoomsOf[c][RoomsDone(c) + i]
         /\ \A r \in Rooms : Told(c, r) => \E k \in 1..RoomsDone(c) : RoomsOf[c][k] = r
         /\ faults = 0 => \A k \in 1..RoomsDone(c) : Told(c, RoomsOf[c][k])

\* What is buffered for the broker is in the order of the request too.
TellingInv ==
  /\ \A n \in DOMAIN log, i \in DOMAIN out :
       log[n].by = out[i].by /\ out[i].by \in Calls
         => Earlier(out[i].by, log[n].room, out[i].room)
  /\ \A i, j \in DOMAIN out :
       i < j /\ out[i].by = out[j].by /\ out[i].by \in Calls
         => Earlier(out[i].by, out[i].room, out[j].room)

\* Conjoined with TypeOK and LifeInv this is preserved by every step.
CallInv == ProgressInv /\ TellingInv /\ RoomsToldInOrder /\ RoomsToldUpToError

-----------------------------------------------------------------------------
(* What eventually happens.                                                *)

\* Every stream whose client is gone ends, wherever its handler was.
StreamsEnd == \A s \in Streams : ctxDone[s] /\ Running(s) ~> pc[s] = "done"

\* The broker eventually forgets every finished stream.
SubscriptionsDrain ==
  \A s \in Streams : pc[s] = "done" ~> s \notin subs

\* Once the client of a joined stream is gone the room's log gets the leave,
\* unless its publication was refused or a fault ate it.
LeavesAnnounced ==
  \A s \in Streams :
    ctxDone[s] /\ InLog(s, "userjoinedroom")
      ~> InLog(s, "userleftroom") \/ s \in refused \/ faults > 0

\* whiteboard.proto:15 "When stream is closed, other users of the room
\* should receive a disconnection event": once everything in flight has
\* arrived, a parked stream that was told of a join has been told of the
\* leave of that stream if it closed and the broker accepted its leave.
DisconnectionsReceived ==
  faults = 0 /\ out = << >> /\ inq = << >> =>
    \A s, t \in Streams :
      /\ Parked(s) /\ pc[t] = "done" /\ InLog(t, "userleftroom")
      /\ \E i \in DOMAIN sent[s] :
           /\ sent[s][i] # 0 /\ log[sent[s][i]].by = t
           /\ log[sent[s][i]].kind = "userjoinedroom"
      => \E i \in DOMAIN sent[s] :
           /\ sent[s][i] # 0 /\ log[sent[s][i]].by = t
           /\ log[sent[s][i]].kind = "userleftroom"

\* routes.go:120 "MUST be exhaustive from Event.GetEvent*()": no request
\* that validateSendEvent lets through makes Event.rk() panic.
RoutingKeysExhaustive == \A c \in Calls : callPc[c] # "panic"

Feed == INSTANCE RoomFeed WITH feed <- log, got <- sent

\* The server implements the lossy ordered feed of module RoomFeed.
ImplementsFeed == Feed!Spec
=============================================================================

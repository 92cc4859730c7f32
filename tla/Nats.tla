-------------------------------- MODULE Nats --------------------------------
(***************************************************************************)
(* The one NATS connection a whiteboard server shares between all its RPC  *)
(* handlers (hypercards/nats.go), and the broker at its other end.         *)
(*                                                                         *)
(* Handlers only append to the connection's output buffer: SUB, UNSUB and  *)
(* PUB commands travel to the broker in one FIFO, out.  The broker applies *)
(* them one at a time: it keeps the live subscriptions (subs), gives every *)
(* published event its place in one total order (log) and sends a copy to  *)
(* each matching subscription.  The copies come back over one FIFO, inq;   *)
(* one entry of inq holds the copies of one event that are still to be     *)
(* read, because the broker visits the subscriptions of a subject in no    *)
(* particular order.                                                       *)
(*                                                                         *)
(* A subject "hc.wb.1.evt.<room>.<user>.<kind>" is the triple of its last  *)
(* three tokens; identifiers that ntui() lets through cannot act as        *)
(* wildcards, so a subscription to (room, *, * ) matches exactly the       *)
(* events of its room.  The user of an event is the user of the RPC that   *)
(* published it.                                                           *)
(***************************************************************************)
EXTENDS Naturals, Sequences, FiniteSets

CONSTANTS Streams,   \* RecvEvents RPCs, one per connected reader
          Calls,     \* SendEvent RPCs
          Users,     \* values of the user-id header
          Rooms,     \* room ids found in requests
          UserOf,    \* the user that makes each RPC
          RoomOf     \* the room each RecvEvents asks for

ASSUME ConnAssumption ==
  /\ IsFiniteSet(Streams)
  /\ Streams \cap Calls = {}
  /\ UserOf \in [Streams \cup Calls -> Users]
  /\ RoomOf \in [Streams -> Rooms]

VARIABLES conn,   \* "open", or "closed" once nats.go gave up reconnecting
          out,    \* commands buffered for the broker, a FIFO
          subs,   \* the streams whose subscription the broker knows
          log,    \* history: the events the broker accepted, in its order
          inq     \* copies on their way to the server, a FIFO

natsVars == <<conn, out, subs, log, inq>>

\* evtKindUserJoinedTheRoom, evtKindUserLeftTheRoom, evtKindDrawing
EventKinds == {"userjoinedroom", "userleftroom", "drawing"}

\* by is the RPC that published: UserOf[by] is the subject's user token.
Event == [by : Streams \cup Calls, room : Rooms, kind : EventKinds]

Command ==
  [op : {"sub", "unsub"}, by : Streams, room : Rooms, kind : {"*"}]
    \cup [op : {"pub"}, by : Streams \cup Calls, room : Rooms, kind : EventKinds]

Copies == [n : Nat \ {0}, to : SUBSET Streams]

NatsTypeOK ==
  /\ conn \in {"open", "closed"}
  /\ out \in Seq(Command)
  /\ subs \in SUBSET Streams
  /\ log \in Seq(Event)
  /\ inq \in Seq(Copies)

NatsInit ==
  /\ conn = "open"
  /\ out = << >>
  /\ subs = {}
  /\ log = << >>
  /\ inq = << >>

-----------------------------------------------------------------------------
(* What a handler does with the connection.  Everything is refused once    *)
(* the connection is closed; a publication may be refused at any time (a   *)
(* payload too large, a full buffer, a failed write); none waits for the   *)
(* broker.                                                                 *)

Sub(s)   == [op |-> "sub",   by |-> s, room |-> RoomOf[s], kind |-> "*"]
Unsub(s) == [op |-> "unsub", by |-> s, room |-> RoomOf[s], kind |-> "*"]
Pub(p, r, k) == [op |-> "pub", by |-> p, room |-> r, kind |-> k]

Enqueue(command) == conn = "open" /\ out' = Append(out, command)
Refused == conn = "closed" /\ out' = out
PublishRefused == out' = out

\* countUsersInRoom: how many subscriptions to the room the broker's
\* monitoring endpoint lists at the moment it answers.
CountUsersInRoom(r) == Cardinality({s \in subs : RoomOf[s] = r})

-----------------------------------------------------------------------------
(* The broker and the connection.                                          *)

BrokerSub ==
  /\ out # << >> /\ Head(out).op = "sub"
  /\ out' = Tail(out)
  /\ subs' = subs \cup {Head(out).by}
  /\ UNCHANGED <<conn, log, inq>>

BrokerUnsub ==
  /\ out # << >> /\ Head(out).op = "unsub"
  /\ out' = Tail(out)
  /\ subs' = subs \ {Head(out).by}
  /\ UNCHANGED <<conn, log, inq>>

\* Mutant of EventOf: the whole command ends up in the log.
WholeCommand(command) == command

EventOf(command) ==
  [by |-> command.by, room |-> command.room, kind |-> command.kind]

Matching(r) == {s \in subs : RoomOf[s] = r}

BrokerPub ==
  /\ out # << >> /\ Head(out).op = "pub"
  /\ out' = Tail(out)
  /\ log' = Append(log, EventOf(Head(out)))
  /\ inq' = LET to == Matching(Head(out).room)
            IN  IF to = {} THEN inq
                ELSE Append(inq, [n |-> Len(log) + 1, to |-> to])
  /\ UNCHANGED <<conn, subs>>

Broker == BrokerSub \/ BrokerUnsub \/ BrokerPub

\* The next copy the connection's read loop may take, and inq without it.
Readable(s) == inq # << >> /\ s \in Head(inq).to
WithoutCopy(s) ==
  IF Head(inq).to = {s} THEN Tail(inq)
  ELSE [inq EXCEPT ![1] = [n |-> @.n, to |-> @.to \ {s}]]

\* nats.go gives up after its last reconnection attempt: what is buffered in
\* either direction is lost.  Subscribers are not told.
ConnCloses ==
  /\ conn = "open"
  /\ conn' = "closed"
  /\ out' = << >> /\ subs' = {} /\ inq' = << >>
  /\ log' = log

\* The broker goes away and nats.go reconnects.  What the socket held is lost
\* (a prefix of out and all of inq); the new connection starts with a SUB for
\* each local subscription, in any order, before what was still buffered.
ConnReconnects(local) ==
  /\ conn = "open"
  /\ \E kept \in 0..Len(out), order \in [1..Cardinality(local) -> local] :
       /\ \A s \in local : \E i \in DOMAIN order : order[i] = s
       /\ out' = [i \in DOMAIN order |-> Sub(order[i])]
                   \o SubSeq(out, Len(out) - kept + 1, Len(out))
  /\ subs' = {} /\ inq' = << >>
  /\ UNCHANGED <<conn, log>>

\* The server process dies and its replacement connects anew.
ConnRestarts ==
  /\ conn' = "open"
  /\ out' = << >> /\ subs' = {} /\ inq' = << >>
  /\ log' = log
=============================================================================

----------------------------- MODULE RoomDelivery -----------------------------
(***************************************************************************)
(* From committed events to sockets: websocket_session, handle_message and *)
(* replay_in_order (ws.rs), the room channel, the presence map and the     *)
(* participant snapshots (rooms.rs).                                       *)
(*                                                                         *)
(* Transactions commit blocks of events to the log and publish them        *)
(* afterwards, each from its own task, so publications of different        *)
(* commits interleave in any order and may never happen.  A session        *)
(* subscribes, replays from its cursor, and then follows the channel,      *)
(* which keeps the newest Capacity messages for each receiver.  An event   *)
(* is its sequence number and the actors it is visible to.                 *)
(***************************************************************************)
EXTENDS Integers, Sequences, FiniteSets, Functions

CONSTANTS
    Sessions,    \* authenticated sockets
    Actors,      \* who is behind them
    ActorOf,     \* the actor of each session
    Cursors,     \* afterSequence values clients join with
    Audiences,   \* who an event may be visible to (event_visible_to)
    BatchSizes,  \* how many events a transaction appends
    Capacity,    \* of the broadcast channel (256 in the code)
    MaxEvents,   \* bound: events committed to the room
    Faults,      \* may queries and publications fail?
    None         \* no actor

ASSUME DeliveryAssumption ==
    /\ IsFiniteSet(Sessions)
    /\ ActorOf \in [Sessions -> Actors]
    /\ Cursors \subseteq Nat
    /\ Audiences \subseteq SUBSET Actors
    /\ BatchSizes \subseteq Nat \ {0}
    /\ Capacity \in Nat \ {0}
    /\ MaxEvents \in Nat
    /\ Faults \in BOOLEAN
    /\ None \notin Actors

(* Where a session is (phase):                                             *)
(*   closed      no socket                                                 *)
(*   unproven    a browser's socket: waiting for session.authenticate      *)
(*   open        in the loop, not joined                                   *)
(*   replaying   room.join: waiting for the replay query                   *)
(*   snapshot    room.join: waiting for the participant snapshot           *)
(*   announcing  joined: waiting for the snapshot to announce              *)
(*   announced   joined: about to send it                                  *)
(*   following   in the loop, joined                                       *)
(*   recovering  waiting for the replay query of replay_in_order           *)
(*   resending   replay_in_order sends the rows it read                    *)
(*   leaving     cleanup_presence: waiting for the snapshot                *)
(*   left        cleanup_presence: about to send it                        *)

(* What the channel carries: an event, or a participant list that the      *)
(* sessions of one actor skip.                                             *)
EventMessage(n) == [kind |-> "event", seq |-> n, online |-> {}, exclude |-> None]
RosterMessage(online, exclude) ==
    [kind |-> "roster", seq |-> 0, online |-> online, exclude |-> exclude]

NoReceiver == [live |-> FALSE, queue |-> <<>>, lagged |-> FALSE]
Subscribed == [live |-> TRUE, queue |-> <<>>, lagged |-> FALSE]

NoCursor == [after |-> 0, upTo |-> 0]

VARIABLES
    log,          \* room_events: log[n] is the audience of event n
    publishing,   \* blocks [next, last] some task has still to publish
    published,    \* events that were sent to the channel
    connections,  \* presence map: joined connections of every actor
    phase,        \* where each session is
    due,          \* its timer has run out: to authenticate, or of its token
    joined,       \* joined_room is some
    receiver,     \* the subscription the session follows
    incoming,     \* the subscription a room.join in progress has made
    cursor,       \* after_sequence and newest row of the join or replay
    last,         \* last_sequence
    base,         \* cursor of the last successful join
    got,          \* events sent since then: in the join's reply, then live
    shown,        \* the participant list the client saw last
    held          \* the participant list about to be sent

room == <<log, publishing, published>>
stream == <<last, base, got>>
roster == <<connections, shown, held>>
vars == <<log, publishing, published, connections, phase, due, joined, receiver,
          incoming, cursor, last, base, got, shown, held>>

Init ==
    /\ log = <<>>
    /\ publishing = {}
    /\ published = {}
    /\ connections = [a \in Actors |-> 0]
    /\ phase = [s \in Sessions |-> "closed"]
    /\ due = [s \in Sessions |-> FALSE]
    /\ joined = [s \in Sessions |-> FALSE]
    /\ receiver = [s \in Sessions |-> NoReceiver]
    /\ incoming = [s \in Sessions |-> NoReceiver]
    /\ cursor = [s \in Sessions |-> NoCursor]
    /\ last = [s \in Sessions |-> 0]
    /\ base = [s \in Sessions |-> 0]
    /\ got = [s \in Sessions |-> [replayed |-> {}, live |-> <<>>]]
    /\ shown = [s \in Sessions |-> {}]
    /\ held = [s \in Sessions |-> {}]

-------------------------------------------------------------------------------
(* The room channel (tokio::sync::broadcast).                              *)

(* A full receiver loses its oldest message and will be told it lagged. *)
Push(r, m) ==
    CASE ~r.live -> r
      [] r.live /\ Len(r.queue) < Capacity -> [r EXCEPT !.queue = Append(@, m)]
      [] OTHER -> [r EXCEPT !.queue = Append(Tail(@), m), !.lagged = TRUE]

Broadcast(m) ==
    /\ receiver' = [s \in Sessions |-> Push(receiver[s], m)]
    /\ incoming' = [s \in Sessions |-> Push(incoming[s], m)]

(* A transaction commits a block of events; it is still to be published. *)
Commit ==
    /\ \E k \in BatchSizes, audience \in Audiences :
        /\ Len(log) + k <= MaxEvents
        /\ log' = log \o [i \in 1 .. k |-> audience]
        /\ publishing' = publishing \cup
                {[next |-> Len(log) + 1, last |-> Len(log) + k]}
    /\ UNCHANGED <<due, published, connections, phase, joined, receiver, incoming,
                   cursor, stream, shown, held>>

(* publish: one event of one block. *)
Publish(p) ==
    /\ Broadcast(EventMessage(p.next))
    /\ published' = published \cup {p.next}
    /\ publishing' = (publishing \ {p}) \cup
            (IF p.next < p.last THEN {[p EXCEPT !.next = @ + 1]} ELSE {})
    /\ UNCHANGED <<due, log, phase, joined, cursor, stream, roster>>

(* The commit's acknowledgement was lost, or the task was cancelled        *)
(* between commit and publication: the rest is never published.            *)
LosePublication(p) ==
    /\ Faults
    /\ publishing' = publishing \ {p}
    /\ UNCHANGED <<due, log, published, connections, phase, joined, receiver,
                   incoming, cursor, stream, shown, held>>

-------------------------------------------------------------------------------
(* Presence.                                                               *)

Connect(a) == [connections EXCEPT ![a] = @ + 1]
Disconnect(a) == [connections EXCEPT ![a] = IF @ > 1 THEN @ - 1 ELSE 0]

(* participant_snapshot, reduced to who is online. *)
Online == {a \in Actors : connections[a] > 0}

(* publish_participant_snapshot reads the snapshot ... *)
ReadRoster(s, from, to) ==
    /\ phase[s] = from
    /\ held' = [held EXCEPT ![s] = Online]
    /\ phase' = [phase EXCEPT ![s] = to]
    /\ UNCHANGED <<due, room, connections, joined, receiver, incoming, cursor,
                   stream, shown>>

(* ... and sends it later, whatever has happened to presence meanwhile. *)
SendRoster(s, from, to, exclude) ==
    /\ phase[s] = from
    /\ Broadcast(RosterMessage(held[s], exclude))
    /\ phase' = [phase EXCEPT ![s] = to]
    /\ held' = [held EXCEPT ![s] = {}]
    /\ UNCHANGED <<due, room, connections, shown, joined, cursor, stream>>

(* Its database read may fail; the result is ignored. *)
SkipRoster(s, from, to) ==
    /\ Faults
    /\ phase[s] = from
    /\ phase' = [phase EXCEPT ![s] = to]
    /\ UNCHANGED <<due, room, roster, joined, receiver, incoming, cursor, stream>>

-------------------------------------------------------------------------------
(* room.join.                                                              *)

(* websocket_upgrade: a bearer token is checked at once, a browser has to  *)
(* authenticate in its first message.                                      *)
Accept(s) ==
    /\ phase[s] = "closed"
    /\ \E p \in {"open", "unproven"} : phase' = [phase EXCEPT ![s] = p]
    /\ UNCHANGED <<due, room, roster, joined, receiver, incoming, cursor, stream>>

(* Time passes: the timer a session waits on runs out. *)
Elapse(s) ==
    /\ phase[s] \notin {"closed", "leaving", "left"}
    /\ ~due[s]
    /\ due' = [due EXCEPT ![s] = TRUE]
    /\ UNCHANGED <<room, roster, phase, joined, receiver, incoming, cursor, stream>>

(* Mutant of Ping: every frame gives the browser its time again. *)
PingRestarts(s) ==
    /\ phase[s] = "unproven"
    /\ due' = [due EXCEPT ![s] = FALSE]
    /\ UNCHANGED <<room, roster, phase, joined, receiver, incoming, cursor, stream>>

(* browser_authentication_session: pings leave the timer alone, ... *)
Ping(s) ==
    /\ phase[s] = "unproven"
    /\ UNCHANGED vars

(* ... a valid session.authenticate starts the session, whose timer is the *)
(* token's, ...                                                            *)
Authenticate(s) ==
    /\ phase[s] = "unproven"
    /\ phase' = [phase EXCEPT ![s] = "open"]
    /\ due' = [due EXCEPT ![s] = FALSE]
    /\ UNCHANGED <<room, roster, joined, receiver, incoming, cursor, stream>>

(* ... and anything else, or no answer in time, closes the socket. *)
TurnAway(s) ==
    /\ phase[s] = "unproven"
    /\ phase' = [phase EXCEPT ![s] = "closed"]
    /\ due' = [due EXCEPT ![s] = FALSE]
    /\ UNCHANGED <<room, roster, joined, receiver, incoming, cursor, stream>>

(* A request is looked at only while the token is valid; the subscription  *)
(* precedes the replay query.                                              *)
JoinSubscribe(s) ==
    /\ phase[s] \in {"open", "following"}
    /\ ~due[s]
    /\ incoming' = [incoming EXCEPT ![s] = Subscribed]
    /\ \E after \in Cursors :
        cursor' = [cursor EXCEPT ![s] = [after |-> after, upTo |-> after]]
    /\ phase' = [phase EXCEPT ![s] = "replaying"]
    /\ UNCHANGED <<due, room, roster, joined, receiver, stream>>

Newest(after) == IF Len(log) > after THEN Len(log) ELSE after

(* Mutant of JoinReplay: a rejoin registers the connection again. *)
JoinReplayTwice(s) ==
    /\ phase[s] = "replaying"
    /\ cursor' = [cursor EXCEPT ![s].upTo = Newest(cursor[s].after)]
    /\ connections' = Connect(ActorOf[s])
    /\ phase' = [phase EXCEPT ![s] = "snapshot"]
    /\ UNCHANGED <<due, room, joined, receiver, incoming, stream, shown, held>>

(* The replay query answers; a first join registers the connection. *)
JoinReplay(s) ==
    /\ phase[s] = "replaying"
    /\ cursor' = [cursor EXCEPT ![s].upTo = Newest(cursor[s].after)]
    /\ connections' = IF joined[s] THEN connections ELSE Connect(ActorOf[s])
    /\ phase' = [phase EXCEPT ![s] = "snapshot"]
    /\ UNCHANGED <<due, room, joined, receiver, incoming, stream, shown, held>>

(* Where an unsuccessful join leaves the session: where it was. *)
Loop(s) == IF joined[s] THEN "following" ELSE "open"

JoinReplayFails(s) ==
    /\ Faults
    /\ phase[s] = "replaying"
    /\ incoming' = [incoming EXCEPT ![s] = NoReceiver]
    /\ phase' = [phase EXCEPT ![s] = Loop(s)]
    /\ cursor' = [cursor EXCEPT ![s] = NoCursor]
    /\ UNCHANGED <<due, room, roster, joined, receiver, stream>>

JoinSnapshotFails(s) ==
    /\ Faults
    /\ phase[s] = "snapshot"
    /\ connections' = IF joined[s] THEN connections ELSE Disconnect(ActorOf[s])
    /\ incoming' = [incoming EXCEPT ![s] = NoReceiver]
    /\ phase' = [phase EXCEPT ![s] = Loop(s)]
    /\ cursor' = [cursor EXCEPT ![s] = NoCursor]
    /\ UNCHANGED <<due, room, joined, receiver, stream, shown, held>>

VisibleTo(s, n) == ActorOf[s] \in log[n]

(* Mutant of EnterRoom: it subscribes only once the replay is done. *)
EnterRoomThenSubscribe(s) ==
    /\ last' = [last EXCEPT ![s] = cursor[s].upTo]
    /\ base' = [base EXCEPT ![s] = cursor[s].after]
    /\ joined' = [joined EXCEPT ![s] = TRUE]
    /\ receiver' = [receiver EXCEPT ![s] = Subscribed]
    /\ incoming' = [incoming EXCEPT ![s] = NoReceiver]
    /\ cursor' = [cursor EXCEPT ![s] = NoCursor]

(* The session now follows the new subscription from what it replayed. *)
EnterRoom(s) ==
    /\ last' = [last EXCEPT ![s] = cursor[s].upTo]
    /\ base' = [base EXCEPT ![s] = cursor[s].after]
    /\ joined' = [joined EXCEPT ![s] = TRUE]
    /\ receiver' = [receiver EXCEPT ![s] = incoming[s]]
    /\ incoming' = [incoming EXCEPT ![s] = NoReceiver]
    /\ cursor' = [cursor EXCEPT ![s] = NoCursor]

(* The reply carries the visible replayed events and the participants. *)
JoinReply(s) ==
    /\ phase[s] = "snapshot"
    /\ EnterRoom(s)
    /\ got' = [got EXCEPT ![s] =
            [replayed |-> {n \in cursor[s].after + 1 .. cursor[s].upTo :
                                VisibleTo(s, n)},
             live |-> <<>>]]
    /\ shown' = [shown EXCEPT ![s] = Online]
    /\ phase' = [phase EXCEPT ![s] = IF joined[s] THEN "following" ELSE "announcing"]
    /\ UNCHANGED <<due, room, connections, held>>

-------------------------------------------------------------------------------
(* Following the channel.                                                  *)

Head1(s) == Head(receiver[s].queue)

Receives(s) ==
    /\ phase[s] = "following"
    /\ ~receiver[s].lagged
    /\ receiver[s].queue # <<>>

Pop(s) == receiver' = [receiver EXCEPT ![s].queue = Tail(@)]

(* Send event n to the client if it may see it, and move the mark. *)
Deliver(s, n) ==
    /\ last' = [last EXCEPT ![s] = n]
    /\ got' = [got EXCEPT ![s].live =
            IF VisibleTo(s, n) THEN Append(@, n) ELSE @]
    /\ UNCHANGED base

(* Mutant of ReceiveNext: any newer event is delivered at once. *)
ReceiveNewer(s) ==
    /\ Receives(s)
    /\ Head1(s).kind = "event"
    /\ Head1(s).seq > last[s]
    /\ Pop(s)
    /\ Deliver(s, Head1(s).seq)
    /\ UNCHANGED <<due, room, roster, phase, joined, incoming, cursor>>

ReceiveNext(s) ==
    /\ Receives(s)
    /\ Head1(s).kind = "event"
    /\ Head1(s).seq = last[s] + 1
    /\ Pop(s)
    /\ Deliver(s, Head1(s).seq)
    /\ UNCHANGED <<due, room, roster, phase, joined, incoming, cursor>>

ReceiveAhead(s) ==
    /\ Receives(s)
    /\ Head1(s).kind = "event"
    /\ Head1(s).seq > last[s] + 1
    /\ Pop(s)
    /\ phase' = [phase EXCEPT ![s] = "recovering"]
    /\ UNCHANGED <<due, room, roster, joined, incoming, cursor, stream>>

ReceiveOld(s) ==
    /\ Receives(s)
    /\ Head1(s).kind = "event"
    /\ Head1(s).seq <= last[s]
    /\ Pop(s)
    /\ UNCHANGED <<due, room, roster, phase, joined, incoming, cursor, stream>>

ReceiveRoster(s) ==
    /\ Receives(s)
    /\ Head1(s).kind = "roster"
    /\ Pop(s)
    /\ shown' = [shown EXCEPT ![s] =
            IF Head1(s).exclude = ActorOf[s] THEN @ ELSE Head1(s).online]
    /\ UNCHANGED <<due, room, connections, held, phase, joined, incoming, cursor, stream>>

(* Mutant of ReceiveLagged: a lagging receiver just goes on. *)
ReceiveLaggedIgnored(s) ==
    /\ phase[s] = "following"
    /\ receiver[s].lagged
    /\ receiver' = [receiver EXCEPT ![s].lagged = FALSE]
    /\ UNCHANGED <<due, room, roster, phase, joined, incoming, cursor, stream>>

(* RecvError::Lagged: recv reports the loss once, then goes on. *)
ReceiveLagged(s) ==
    /\ phase[s] = "following"
    /\ receiver[s].lagged
    /\ receiver' = [receiver EXCEPT ![s].lagged = FALSE]
    /\ phase' = [phase EXCEPT ![s] = "recovering"]
    /\ UNCHANGED <<due, room, roster, joined, incoming, cursor, stream>>

(* replay_in_order: one query, then one send per row. *)
RecoverRead(s) ==
    /\ phase[s] = "recovering"
    /\ cursor' = [cursor EXCEPT ![s].upTo = Newest(last[s])]
    /\ phase' = [phase EXCEPT ![s] = "resending"]
    /\ UNCHANGED <<due, room, roster, joined, receiver, incoming, stream>>

RecoverSend(s) ==
    /\ phase[s] = "resending"
    /\ last[s] < cursor[s].upTo
    /\ Deliver(s, last[s] + 1)
    /\ UNCHANGED <<due, room, roster, phase, joined, receiver, incoming, cursor>>

RecoverDone(s) ==
    /\ phase[s] = "resending"
    /\ last[s] = cursor[s].upTo
    /\ phase' = [phase EXCEPT ![s] = "following"]
    /\ cursor' = [cursor EXCEPT ![s] = NoCursor]
    /\ UNCHANGED <<due, room, roster, joined, receiver, incoming, stream>>

-------------------------------------------------------------------------------
(* The end of a session: the client leaves, a send or a recovery query     *)
(* fails, or the token expires, noticed by the timer or by a request.      *)
(* cleanup_presence runs once, if it joined.                               *)

Forget(s) ==
    /\ receiver' = [receiver EXCEPT ![s] = NoReceiver]
    /\ incoming' = [incoming EXCEPT ![s] = NoReceiver]
    /\ joined' = [joined EXCEPT ![s] = FALSE]
    /\ last' = [last EXCEPT ![s] = 0]
    /\ base' = [base EXCEPT ![s] = 0]
    /\ got' = [got EXCEPT ![s] = [replayed |-> {}, live |-> <<>>]]
    /\ cursor' = [cursor EXCEPT ![s] = NoCursor]
    /\ shown' = [shown EXCEPT ![s] = {}]

EndSession(s) ==
    /\ Forget(s)
    /\ connections' = IF joined[s] THEN Disconnect(ActorOf[s]) ELSE connections
    /\ phase' = [phase EXCEPT ![s] = IF joined[s] THEN "leaving" ELSE "closed"]
    /\ due' = [due EXCEPT ![s] = FALSE]
    /\ UNCHANGED <<room, held>>

Leave(s) ==
    /\ phase[s] \in {"open", "announcing", "following", "recovering", "resending"}
    /\ EndSession(s)

Expire(s) ==
    /\ phase[s] \in {"open", "following"}
    /\ due[s]
    /\ EndSession(s)

(* The process stops: every socket, subscription, presence entry and       *)
(* pending publication is gone; the log is not.                            *)
Crash ==
    /\ publishing' = {}
    /\ connections' = [a \in Actors |-> 0]
    /\ phase' = [s \in Sessions |-> "closed"]
    /\ due' = [s \in Sessions |-> FALSE]
    /\ joined' = [s \in Sessions |-> FALSE]
    /\ receiver' = [s \in Sessions |-> NoReceiver]
    /\ incoming' = [s \in Sessions |-> NoReceiver]
    /\ cursor' = [s \in Sessions |-> NoCursor]
    /\ last' = [s \in Sessions |-> 0]
    /\ base' = [s \in Sessions |-> 0]
    /\ got' = [s \in Sessions |-> [replayed |-> {}, live |-> <<>>]]
    /\ shown' = [s \in Sessions |-> {}]
    /\ held' = [s \in Sessions |-> {}]
    /\ UNCHANGED <<log, published>>

Join(s) ==
    \/ JoinReplay(s) \/ JoinReplayFails(s)
    \/ JoinReply(s) \/ JoinSnapshotFails(s)

Follow(s) ==
    \/ ReceiveNext(s) \/ ReceiveAhead(s) \/ ReceiveOld(s)
    \/ ReceiveRoster(s) \/ ReceiveLagged(s)
    \/ RecoverRead(s) \/ RecoverSend(s) \/ RecoverDone(s)

Announce(s) ==
    \/ ReadRoster(s, "announcing", "announced")
    \/ SendRoster(s, "announced", "following", ActorOf[s])
    \/ SkipRoster(s, "announcing", "following")
    \/ ReadRoster(s, "leaving", "left")
    \/ SendRoster(s, "left", "closed", None)
    \/ SkipRoster(s, "leaving", "closed")

Next ==
    \/ Commit
    \/ \E p \in publishing : Publish(p) \/ LosePublication(p)
    \/ \E s \in Sessions :
        \/ Accept(s) \/ Elapse(s) \/ Ping(s) \/ Authenticate(s) \/ TurnAway(s)
        \/ JoinSubscribe(s) \/ Join(s) \/ Follow(s) \/ Announce(s)
        \/ Leave(s) \/ Expire(s)
    \/ Crash

(* A socket task that can go on does.  tokio::select! picks at random      *)
(* among the branches that are ready, so a client that keeps sending       *)
(* requests cannot keep the loop from reading its receiver for ever.       *)
Fairness ==
    \A s \in Sessions :
        /\ WF_vars(Join(s)) /\ SF_vars(Follow(s)) /\ WF_vars(Announce(s))
        /\ WF_vars(due[s] /\ TurnAway(s)) /\ SF_vars(Expire(s))

Spec == Init /\ [][Next]_vars /\ Fairness

-------------------------------------------------------------------------------
(* Correctness.                                                            *)

(* A joined client has been sent exactly the events after its cursor that  *)
(* it may see, up to last_sequence: none missing, none twice, none hidden, *)
(* in sequence order, although publications arrive in any order, repeat    *)
(* what was replayed, and get lost (websocket_session, replay_in_order).   *)
StreamIsExact ==
    \A s \in Sessions :
        LET live == got[s].live
        IN  /\ got[s].replayed \cup Range(live)
                    = {n \in base[s] + 1 .. last[s] : VisibleTo(s, n)}
            /\ \A i, j \in DOMAIN live : i < j => live[i] < live[j]
            /\ \A i \in DOMAIN live : \A n \in got[s].replayed : n < live[i]

Carries(r, n) ==
    \E i \in DOMAIN r.queue : r.queue[i].kind = "event" /\ r.queue[i].seq = n

(* Why session s will still get to event n. *)
Expected(s, n) ==
    \/ receiver[s].lagged
    \/ Carries(receiver[s], n)
    \/ phase[s] = "recovering"
    \/ phase[s] = "resending" /\ n <= cursor[s].upTo

(* No published event is forgotten: if a joined session is not past it, it *)
(* is queued, or a recovery that covers it is due.  In particular nothing  *)
(* falls between the replay of a join and its subscription                 *)
(* (handle_message, room_channel).                                         *)
NothingForgotten ==
    \A s \in Sessions : joined[s] =>
        \A n \in published : n > last[s] => Expected(s, n)

Registered(s) == joined[s] \/ phase[s] = "snapshot"

(* The presence map counts the joined connections, through rejoins, failed *)
(* joins, several sockets of one actor and every way a session ends        *)
(* (register_participant, unregister_participant, cleanup_presence).       *)
PresenceCounts ==
    \A a \in Actors :
        connections[a] = Cardinality({s \in Sessions : ActorOf[s] = a /\ Registered(s)})

(* A joined session that stays catches up with everything published, again *)
(* and again, also when its receiver lagged or an earlier event's          *)
(* publication was lost (websocket_session, replay_in_order).              *)
PublishedIsDelivered ==
    \A s \in Sessions :
        []<>(joined[s] => \A n \in published : last[s] >= n)

(* A socket does not outlive its time: when the authentication timeout has *)
(* run out it is authenticated or closed, and when the token has run out   *)
(* the session ends, whatever requests, pings or events arrive, provided   *)
(* sends to the client complete or fail (browser_authentication_session,   *)
(* websocket_session, handle_message).                                     *)
TimersEndSessions ==
    \A s \in Sessions :
        due[s] ~> ~due[s] /\ ~joined[s] /\ phase[s] # "unproven"

Settled ==
    \A s \in Sessions :
        /\ phase[s] \in {"closed", "following"}
        /\ receiver[s].queue = <<>>
        /\ ~receiver[s].lagged

(* When nothing is in flight, the participant list a client saw last is    *)
(* the list of currently joined connections                                *)
(* (publish_participant_snapshot).                                         *)
SettledRosterIsCurrent ==
    Settled => \A s \in Sessions : joined[s] => shown[s] = Online
===============================================================================

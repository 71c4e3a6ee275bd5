-------------------------- MODULE RoomDeliveryProofs --------------------------
(***************************************************************************)
(* Proofs about RoomDelivery, for any number of sockets, events, cursors   *)
(* and any capacity of the channel: a client's stream is exact, nothing    *)
(* published is forgotten, and the presence map counts the joined          *)
(* connections.                                                            *)
(*                                                                         *)
(* The argument is about one session at a time: a step of another session  *)
(* touches it only by pushing a message into its receivers, and a commit   *)
(* only by making the log longer.                                          *)
(***************************************************************************)
EXTENDS RoomDelivery, FiniteSetTheorems, TLAPS

(* Most leaves are first-order: Zenon takes them.  A leaf that needs       *)
(* arithmetic or the theory of functions and sequences cites SMT.          *)
USE Zenon

(* Where a session is joined, is not, or may be either. *)
Inside == {"announcing", "announced", "following", "recovering", "resending"}
Outside == {"closed", "unproven", "open", "leaving", "left"}
Joining == {"replaying", "snapshot"}

Message ==
    [kind : {"event", "roster"}, seq : Nat, online : SUBSET Actors, exclude : Actors \cup {None}]
Receiver == [live : BOOLEAN, queue : Seq(Message), lagged : BOOLEAN]
Got == [replayed : SUBSET Nat, live : Seq(Nat)]

RoomType ==
    /\ log \in Seq(SUBSET Actors)
    /\ publishing \subseteq [next : Nat, last : Nat]
    /\ published \subseteq DOMAIN log
    /\ \A p \in publishing : p.next \in DOMAIN log /\ p.last \in DOMAIN log /\ p.next <= p.last

SessionType ==
    /\ phase \in [Sessions -> Inside \cup Outside \cup Joining]
    /\ joined \in [Sessions -> BOOLEAN]
    /\ receiver \in [Sessions -> Receiver]
    /\ incoming \in [Sessions -> Receiver]
    /\ cursor \in [Sessions -> [after : Nat, upTo : Nat]]
    /\ last \in [Sessions -> Nat]
    /\ base \in [Sessions -> Nat]
    /\ got \in [Sessions -> Got]

PresenceType ==
    /\ connections \in [Actors -> Nat]
    /\ due \in [Sessions -> BOOLEAN]
    /\ shown \in [Sessions -> SUBSET Actors]
    /\ held \in [Sessions -> SUBSET Actors]

TypeOK == RoomType /\ SessionType /\ PresenceType

(* A receiver carries only events that were published. *)
Sound(r) == \A i \in DOMAIN r.queue : r.queue[i].kind = "event" => r.queue[i].seq \in published

(* It will bring every published event after n. *)
Covers(r, n) == \A k \in published : k > n => r.lagged \/ Carries(r, k)

PhaseInv(s) ==
    /\ phase[s] \in Inside => joined[s]
    /\ phase[s] \in Outside => ~joined[s]
    /\ joined[s] => receiver[s].live
    /\ phase[s] \in Joining => incoming[s].live

(* The interval from m to n lies in the log, unless it is empty. *)
Within(m, n) == m <= n /\ (m = n \/ n <= Len(log))

CursorInv(s) ==
    /\ Within(base[s], last[s])
    /\ phase[s] = "snapshot" => Within(cursor[s].after, cursor[s].upTo)
    /\ phase[s] = "resending" => Within(last[s], cursor[s].upTo)

(* StreamIsExact for one session. *)
ExactInv(s) ==
    /\ got[s].replayed \cup Range(got[s].live)
            = {n \in base[s] + 1 .. last[s] : VisibleTo(s, n)}
    /\ \A i, j \in DOMAIN got[s].live : i < j => got[s].live[i] < got[s].live[j]
    /\ \A i \in DOMAIN got[s].live : \A n \in got[s].replayed : n < got[s].live[i]

(* NothingForgotten for one session, and for the one a join prepares. *)
PendingInv(s) ==
    /\ joined[s] => \A n \in published : n > last[s] => Expected(s, n)
    /\ phase[s] = "snapshot" => Covers(incoming[s], cursor[s].upTo)

SInv(s) ==
    /\ PhaseInv(s)
    /\ Sound(receiver[s]) /\ Sound(incoming[s])
    /\ CursorInv(s)
    /\ ExactInv(s)
    /\ PendingInv(s)

DInv == TypeOK /\ \A s \in Sessions : SInv(s)


-------------------------------------------------------------------------------
(* Queues.                                                                 *)

LEMMA AppendFacts ==
    ASSUME NEW S, NEW q \in Seq(S), NEW e \in S
    PROVE  /\ Append(q, e) \in Seq(S)
           /\ Len(q) \in Nat
           /\ Len(Append(q, e)) = Len(q) + 1
           /\ DOMAIN Append(q, e) = DOMAIN q \cup {Len(q) + 1}
           /\ DOMAIN q = 1 .. Len(q)
           /\ Append(q, e)[Len(q) + 1] = e
           /\ \A i \in DOMAIN q : Append(q, e)[i] = q[i]
  BY SMT

LEMMA TailFacts ==
    ASSUME NEW S, NEW q \in Seq(S), q # <<>>
    PROVE  /\ Tail(q) \in Seq(S)
           /\ Head(q) = q[1] /\ Head(q) \in S /\ 1 \in DOMAIN q
           /\ \A i \in DOMAIN Tail(q) : i + 1 \in DOMAIN q /\ Tail(q)[i] = q[i + 1]
           /\ \A j \in DOMAIN q : j # 1 => j - 1 \in DOMAIN Tail(q) /\ Tail(q)[j - 1] = q[j]
  BY SMT

LEMMA Messages ==
    /\ \A n \in Nat : /\ EventMessage(n) \in Message /\ EventMessage(n).kind = "event"
                      /\ EventMessage(n).seq = n
    /\ \A online \in SUBSET Actors, exclude \in Actors \cup {None} :
        /\ RosterMessage(online, exclude) \in Message
        /\ RosterMessage(online, exclude).kind = "roster"
  BY DEF EventMessage, RosterMessage, Message

LEMMA NoReceivers ==
    /\ NoReceiver \in Receiver /\ Subscribed \in Receiver
    /\ Subscribed.live /\ Subscribed.queue = <<>> /\ NoReceiver.queue = <<>>
  BY SMT DEF NoReceiver, Subscribed, Receiver

(* The three outcomes of a push. *)
LEMMA PushCases ==
    ASSUME NEW r \in Receiver, NEW m \in Message
    PROVE  /\ Push(r, m) \in Receiver /\ Push(r, m).live = r.live
           /\ \/ ~r.live /\ Push(r, m) = r
              \/ /\ r.live /\ Push(r, m).queue = Append(r.queue, m)
                 /\ Push(r, m).lagged = r.lagged
              \/ /\ r.live /\ r.queue # <<>> /\ Push(r, m).queue = Append(Tail(r.queue), m)
                 /\ Push(r, m).lagged = TRUE
  <1>0. r.queue \in Seq(Message) /\ Capacity \in Nat /\ Capacity > 0 /\ Len(r.queue) \in Nat
    BY DeliveryAssumption, SMT DEF Receiver
  <1>1. CASE ~r.live
    BY <1>1 DEF Push
  <1>2. CASE r.live /\ Len(r.queue) < Capacity
    <2> DEFINE q == Append(r.queue, m)
    <2>1. q \in Seq(Message)
      BY <1>0, SMT
    <2>2. Push(r, m) = [r EXCEPT !.queue = q]
      BY <1>2 DEF Push
    <2> HIDE DEF q
    <2>3. /\ Push(r, m) \in Receiver /\ Push(r, m).live = r.live /\ Push(r, m).queue = q
          /\ Push(r, m).lagged = r.lagged
      BY <2>1, <2>2 DEF Receiver
    <2> QED
      BY <1>2, <2>3 DEF q
  <1>3. CASE r.live /\ ~(Len(r.queue) < Capacity)
    <2> DEFINE q == Append(Tail(r.queue), m)
    <2>1. r.queue # <<>>
      BY <1>0, <1>3
    <2>2. q \in Seq(Message)
      BY <1>0, <2>1, SMT
    <2>3. Push(r, m) = [r EXCEPT !.queue = q, !.lagged = TRUE]
      BY <1>3 DEF Push
    <2> HIDE DEF q
    <2>4. /\ Push(r, m) \in Receiver /\ Push(r, m).live = r.live /\ Push(r, m).queue = q
          /\ Push(r, m).lagged = TRUE
      BY <2>2, <2>3 DEF Receiver
    <2> QED
      BY <1>3, <2>1, <2>4 DEF q
  <1> QED
    BY <1>1, <1>2, <1>3 DEF Receiver

(* What a push keeps and what it adds. *)
LEMMA PushFacts ==
    ASSUME NEW r \in Receiver, NEW m \in Message
    PROVE  /\ \A n : r.lagged \/ Carries(r, n) =>
                     Push(r, m).lagged \/ Carries(Push(r, m), n)
           /\ r.lagged => Push(r, m).lagged
           /\ r.live /\ m.kind = "event" => Carries(Push(r, m), m.seq)
           /\ \A i \in DOMAIN Push(r, m).queue :
                \/ Push(r, m).queue[i] = m
                \/ \E j \in DOMAIN r.queue : Push(r, m).queue[i] = r.queue[j]
  <1>0. r.queue \in Seq(Message)
    BY DEF Receiver
  <1> DEFINE p == Push(r, m)
  <1>1. CASE ~r.live
    <2>1. p = r
      BY <1>1, PushCases
    <2> QED
      BY <1>1, <2>1
  <1>2. CASE p.queue = Append(r.queue, m) /\ p.lagged = r.lagged
    <2>1. /\ DOMAIN p.queue = DOMAIN r.queue \cup {Len(r.queue) + 1}
          /\ p.queue[Len(r.queue) + 1] = m
          /\ \A i \in DOMAIN r.queue : p.queue[i] = r.queue[i]
      BY <1>0, <1>2, AppendFacts, SMT
    <2> HIDE DEF p
    <2>2. \A n : Carries(r, n) => Carries(p, n)
      BY <2>1 DEF Carries
    <2>3. m.kind = "event" => Carries(p, m.seq)
      BY <2>1 DEF Carries
    <2>4. \A i \in DOMAIN p.queue : \/ p.queue[i] = m
                                    \/ \E j \in DOMAIN r.queue : p.queue[i] = r.queue[j]
      BY <2>1
    <2> QED
      BY <1>2, <2>2, <2>3, <2>4 DEF p
  <1>3. CASE r.queue # <<>> /\ p.queue = Append(Tail(r.queue), m) /\ p.lagged = TRUE
    <2> DEFINE t == Tail(r.queue)
    <2>1. /\ t \in Seq(Message)
          /\ \A i \in DOMAIN t : \E j \in DOMAIN r.queue : t[i] = r.queue[j]
      BY <1>0, <1>3, TailFacts
    <2>2. p.queue = Append(t, m)
      BY <1>3
    <2> HIDE DEF t
    <2>3. /\ DOMAIN p.queue = DOMAIN t \cup {Len(t) + 1}
          /\ p.queue[Len(t) + 1] = m
          /\ \A i \in DOMAIN t : p.queue[i] = t[i]
      BY <2>1, <2>2, AppendFacts, SMT
    <2> HIDE DEF p
    <2>4. m.kind = "event" => Carries(p, m.seq)
      BY <2>3 DEF Carries
    <2>5. \A i \in DOMAIN p.queue : \/ p.queue[i] = m
                                    \/ \E j \in DOMAIN r.queue : p.queue[i] = r.queue[j]
      BY <2>1, <2>3
    <2> QED
      BY <1>3, <2>4, <2>5 DEF p
  <1> QED
    BY <1>1, <1>2, <1>3, PushCases

(* Taking the head away loses only the head. *)
LEMMA PopFacts ==
    ASSUME NEW r \in Receiver, r.queue # <<>>, NEW p \in Receiver, p.queue = Tail(r.queue)
    PROVE  /\ Head(r.queue) \in Message
           /\ Sound(r) => Sound(p)
           /\ Sound(r) /\ Head(r.queue).kind = "event" => Head(r.queue).seq \in published
           /\ \A n : Carries(r, n) =>
                \/ Head(r.queue).kind = "event" /\ Head(r.queue).seq = n
                \/ Carries(p, n)
  <1>0. r.queue \in Seq(Message)
    BY DEF Receiver
  <1> DEFINE q == r.queue
             t == p.queue
  <1>1. /\ Head(q) = q[1] /\ Head(q) \in Message /\ 1 \in DOMAIN q
        /\ \A i \in DOMAIN t : i + 1 \in DOMAIN q /\ t[i] = q[i + 1]
        /\ \A j \in DOMAIN q : j # 1 => j - 1 \in DOMAIN t /\ t[j - 1] = q[j]
    BY <1>0, TailFacts, SMT
  <1>2. Sound(r) => Sound(p)
    BY <1>1, SMT DEF Sound
  <1>3. Sound(r) /\ Head(q).kind = "event" => Head(q).seq \in published
    BY <1>1 DEF Sound
  <1>4. ASSUME NEW n, Carries(r, n)
        PROVE  (Head(q).kind = "event" /\ Head(q).seq = n) \/ Carries(p, n)
    <2>1. PICK j \in DOMAIN q : q[j].kind = "event" /\ q[j].seq = n
      BY <1>4 DEF Carries
    <2> QED
      BY <1>1, <2>1, SMT DEF Carries
  <1> QED
    BY <1>1, <1>2, <1>3, <1>4

-------------------------------------------------------------------------------
(* The steps of Next, one by one. *)
LEMMA NextCases ==
    ASSUME [Next]_vars
    PROVE  \/ Commit \/ Crash \/ UNCHANGED vars
           \/ \E p \in publishing : Publish(p) \/ LosePublication(p)
           \/ \E s \in Sessions :
                \/ Accept(s) \/ Elapse(s) \/ Authenticate(s) \/ TurnAway(s)
                \/ ReadRoster(s, "announcing", "announced") \/ ReadRoster(s, "leaving", "left")
                \/ SkipRoster(s, "announcing", "following") \/ SkipRoster(s, "leaving", "closed")
           \/ \E s \in Sessions :
                \/ SendRoster(s, "announced", "following", ActorOf[s])
                \/ SendRoster(s, "left", "closed", None)
           \/ \E s \in Sessions :
                \/ JoinSubscribe(s) \/ JoinReplay(s) \/ JoinReplayFails(s)
                \/ JoinReply(s) \/ JoinSnapshotFails(s)
           \/ \E s \in Sessions :
                \/ ReceiveNext(s) \/ ReceiveAhead(s) \/ ReceiveOld(s)
                \/ ReceiveRoster(s) \/ ReceiveLagged(s)
                \/ RecoverRead(s) \/ RecoverSend(s) \/ RecoverDone(s)
           \/ \E s \in Sessions : Leave(s) \/ Expire(s)
  BY DEF Next, Join, Follow, Announce, Ping


-------------------------------------------------------------------------------
(* Types.                                                                  *)

LEMMA ConcatFacts ==
    ASSUME NEW S, NEW q \in Seq(S), NEW k \in Nat, NEW e \in S
    PROVE  /\ q \o [i \in 1 .. k |-> e] \in Seq(S)
           /\ Len(q \o [i \in 1 .. k |-> e]) = Len(q) + k
           /\ \A i \in DOMAIN q : (q \o [j \in 1 .. k |-> e])[i] = q[i]
  <1> DEFINE f == [i \in 1 .. k |-> e]
  <1>1. f \in Seq(S) /\ Len(f) = k
    <2>1. f \in [1 .. k -> S]
      OBVIOUS
    <2>2. f \in Seq(S)
      BY <2>1, SMT
    <2>3. DOMAIN f = 1 .. k /\ DOMAIN f = 1 .. Len(f) /\ Len(f) \in Nat
      BY <2>1, <2>2, SMT
    <2> QED
      BY <2>2, <2>3, SMT
  <1> HIDE DEF f
  <1>2. q \o f \in Seq(S) /\ Len(q \o f) = Len(q) + Len(f)
        /\ \A i \in DOMAIN q : (q \o f)[i] = q[i]
    BY <1>1, SMT
  <1> QED
    BY <1>1, <1>2 DEF f

(* The room's log only grows. *)
LogGrows ==
    /\ Len(log') \in Nat /\ Len(log) <= Len(log') /\ DOMAIN log \subseteq DOMAIN log'
    /\ \A n \in DOMAIN log : log'[n] = log[n]

LEMMA CommitLog ==
    ASSUME RoomType, Commit
    PROVE  RoomType' /\ LogGrows
  <1>1. PICK k \in BatchSizes, audience \in Audiences :
            /\ log' = log \o [i \in 1 .. k |-> audience]
            /\ publishing' = publishing \cup {[next |-> Len(log) + 1, last |-> Len(log) + k]}
    BY DEF Commit
  <1>2. k \in Nat /\ k >= 1 /\ audience \in SUBSET Actors /\ log \in Seq(SUBSET Actors)
    BY <1>1, DeliveryAssumption, SMT DEF RoomType
  <1>3. /\ log' \in Seq(SUBSET Actors) /\ Len(log') = Len(log) + k
        /\ \A n \in DOMAIN log : log'[n] = log[n]
    BY <1>1, <1>2, ConcatFacts, SMT
  <1>4. /\ Len(log) \in Nat /\ Len(log') \in Nat /\ DOMAIN log = 1 .. Len(log)
        /\ DOMAIN log' = 1 .. Len(log')
    BY <1>2, <1>3, SMT
  <1>5. /\ DOMAIN log \subseteq DOMAIN log' /\ Len(log) <= Len(log')
        /\ Len(log) + 1 \in DOMAIN log' /\ Len(log) + k \in DOMAIN log'
        /\ Len(log) + 1 <= Len(log) + k
    BY <1>2, <1>3, <1>4, SMT
  <1> DEFINE new == [next |-> Len(log) + 1, last |-> Len(log) + k]
  <1>6. /\ new \in [next : Nat, last : Nat]
        /\ new.next = Len(log) + 1 /\ new.last = Len(log) + k
    BY <1>2, <1>4, SMT
  <1> HIDE DEF new
  <1>7. publishing' = publishing \cup {new}
    BY <1>1 DEF new
  <1>8. UNCHANGED published
    BY DEF Commit
  <1>9. RoomType'
    <2>1. published' \subseteq DOMAIN log'
      BY <1>5, <1>8 DEF RoomType
    <2>2. \A p \in publishing' :
            p.next \in DOMAIN log' /\ p.last \in DOMAIN log' /\ p.next <= p.last
      BY <1>5, <1>6, <1>7 DEF RoomType
    <2>3. publishing' \subseteq [next : Nat, last : Nat]
      BY <1>6, <1>7 DEF RoomType
    <2> QED
      BY <1>3, <2>1, <2>2, <2>3 DEF RoomType
  <1> QED
    BY <1>3, <1>4, <1>5, <1>9 DEF LogGrows

LEMMA PublishRoom ==
    ASSUME RoomType, NEW p \in publishing, Publish(p)
    PROVE  RoomType'
  <1>1. /\ p \in [next : Nat, last : Nat] /\ p.next \in DOMAIN log /\ p.last \in DOMAIN log
        /\ p.next <= p.last /\ UNCHANGED log /\ published' = published \cup {p.next}
    BY DEF RoomType, Publish
  <1>2. CASE p.next < p.last
    <2> DEFINE new == [p EXCEPT !.next = p.next + 1]
    <2>1. publishing' = (publishing \ {p}) \cup {new}
      BY <1>2 DEF Publish
    <2>2. new \in [next : Nat, last : Nat] /\ new.next = p.next + 1 /\ new.last = p.last
      BY <1>1, SMT
    <2> HIDE DEF new
    <2>3. DOMAIN log = 1 .. Len(log) /\ Len(log) \in Nat
      BY SMT DEF RoomType
    <2>4. new.next \in DOMAIN log /\ new.last \in DOMAIN log /\ new.next <= new.last
      BY <1>1, <1>2, <2>2, <2>3, SMT
    <2> QED
      BY <1>1, <2>1, <2>2, <2>4 DEF RoomType
  <1>3. CASE ~(p.next < p.last)
    <2>1. publishing' = publishing \ {p}
      BY <1>3 DEF Publish
    <2> QED
      BY <1>1, <2>1 DEF RoomType
  <1> QED
    BY <1>2, <1>3

LEMMA RoomSteps ==
    ASSUME RoomType, [Next]_vars
    PROVE  /\ \/ Commit
              \/ \E p \in publishing : Publish(p)
              \/ /\ log' = log /\ published' = published
                 /\ publishing' \in SUBSET publishing
  <1>1. CASE Crash
    BY <1>1 DEF Crash
  <1>2. CASE UNCHANGED room
    BY <1>2 DEF room
  <1>3. ASSUME NEW p \in publishing, LosePublication(p)
        PROVE  log' = log /\ published' = published /\ publishing' \in SUBSET publishing
    BY <1>3 DEF LosePublication
  <1> QED
    BY <1>1, <1>2, <1>3, NextCases
        DEF vars, room, Accept, Elapse, Authenticate, TurnAway, ReadRoster, SkipRoster,
            SendRoster, JoinSubscribe, JoinReplay, JoinReplayFails, JoinReply, JoinSnapshotFails,
            ReceiveNext, ReceiveAhead, ReceiveOld, ReceiveRoster, ReceiveLagged, RecoverRead,
            RecoverSend, RecoverDone, Leave, Expire, EndSession

LEMMA RoomTypeStep ==
    ASSUME RoomType, [Next]_vars
    PROVE  RoomType' /\ LogGrows
  <1>1. CASE Commit
    BY <1>1, CommitLog
  <1>2. CASE \E p \in publishing : Publish(p)
    BY <1>2, PublishRoom, SMT DEF RoomType, LogGrows, Publish
  <1>3. CASE log' = log /\ published' = published /\ publishing' \in SUBSET publishing
    BY <1>3, SMT DEF RoomType, LogGrows
  <1> QED
    BY <1>1, <1>2, <1>3, RoomSteps

LEMMA PresenceTypeStep ==
    ASSUME TypeOK, [Next]_vars
    PROVE  PresenceType'
  <1> USE DEF PresenceType
  <1>0. /\ PresenceType /\ ActorOf \in [Sessions -> Actors]
        /\ Online \in SUBSET Actors
        /\ receiver \in [Sessions -> Receiver]
    BY DeliveryAssumption DEF TypeOK, SessionType, Online
  <1>1. CASE Commit \/ UNCHANGED vars \/ \E p \in publishing : Publish(p) \/ LosePublication(p)
    BY <1>0, <1>1 DEF Commit, vars, Publish, LosePublication, roster
  <1>2. CASE Crash
    BY <1>0, <1>2 DEF Crash
  <1>3. ASSUME NEW s \in Sessions, \/ Accept(s) \/ Elapse(s) \/ Authenticate(s) \/ TurnAway(s)
        PROVE  PresenceType'
    BY <1>0, <1>3 DEF Accept, Elapse, Authenticate, TurnAway, roster
  <1>4. ASSUME NEW s \in Sessions, NEW from, NEW to,
               ReadRoster(s, from, to) \/ SkipRoster(s, from, to)
        PROVE  PresenceType'
    BY <1>0, <1>4 DEF ReadRoster, SkipRoster, roster
  <1>5. ASSUME NEW s \in Sessions, NEW from, NEW to, NEW exclude, SendRoster(s, from, to, exclude)
        PROVE  PresenceType'
    BY <1>0, <1>5 DEF SendRoster
  <1>6. ASSUME NEW s \in Sessions
        PROVE  /\ Connect(ActorOf[s]) \in [Actors -> Nat]
               /\ Disconnect(ActorOf[s]) \in [Actors -> Nat]
    BY <1>0, SMT DEF Connect, Disconnect
  <1>7. ASSUME NEW s \in Sessions,
               \/ JoinSubscribe(s) \/ JoinReplay(s) \/ JoinReplayFails(s)
               \/ JoinReply(s) \/ JoinSnapshotFails(s)
        PROVE  PresenceType'
    BY <1>0, <1>6, <1>7
        DEF JoinSubscribe, JoinReplay, JoinReplayFails, JoinReply, JoinSnapshotFails, roster
  <1>8. ASSUME NEW s \in Sessions, ReceiveRoster(s)
        PROVE  PresenceType'
    <2>1. Head1(s) \in Message
      BY <1>0, <1>8, TailFacts DEF ReceiveRoster, Receives, Head1, Receiver
    <2>2. Head1(s).online \in SUBSET Actors
      BY <2>1 DEF Message
    <2>3. shown' = [shown EXCEPT ![s] = IF Head1(s).exclude = ActorOf[s] THEN shown[s]
                                        ELSE Head1(s).online]
      BY <1>8 DEF ReceiveRoster
    <2> QED
      BY <1>0, <1>8, <2>2, <2>3 DEF ReceiveRoster
  <1>9. ASSUME NEW s \in Sessions,
               \/ ReceiveNext(s) \/ ReceiveAhead(s) \/ ReceiveOld(s) \/ ReceiveLagged(s)
               \/ RecoverRead(s) \/ RecoverSend(s) \/ RecoverDone(s)
        PROVE  PresenceType'
    BY <1>0, <1>9 DEF ReceiveNext, ReceiveAhead, ReceiveOld, ReceiveLagged, RecoverRead,
            RecoverSend, RecoverDone, roster
  <1>10. ASSUME NEW s \in Sessions, EndSession(s)
         PROVE  PresenceType'
    BY <1>0, <1>6, <1>10 DEF EndSession, Forget
  <1> QED
    BY <1>1, <1>2, <1>3, <1>4, <1>5, <1>7, <1>8, <1>9, <1>10, NextCases DEF Leave, Expire


LEMMA NewestFacts ==
    ASSUME RoomType, NEW after \in Nat
    PROVE  Newest(after) \in Nat /\ Newest(after) >= Len(log) /\ Within(after, Newest(after))
  <1>1. Len(log) \in Nat
    BY SMT DEF RoomType
  <1> QED
    BY <1>1, SMT DEF Newest, Within

LEMMA BroadcastType ==
    ASSUME SessionType, NEW m \in Message, Broadcast(m)
    PROVE  receiver' \in [Sessions -> Receiver] /\ incoming' \in [Sessions -> Receiver]
  <1>1. \A s \in Sessions : /\ Push(receiver[s], m) \in Receiver
                            /\ Push(incoming[s], m) \in Receiver
    BY PushCases DEF SessionType
  <1> QED
    BY <1>1 DEF Broadcast

LEMMA PopType ==
    ASSUME SessionType, NEW s \in Sessions, Receives(s), Pop(s)
    PROVE  /\ receiver' \in [Sessions -> Receiver]
           /\ \A o \in Sessions \ {s} : receiver'[o] = receiver[o]
           /\ receiver'[s].queue = Tail(receiver[s].queue)
           /\ receiver'[s].live = receiver[s].live /\ receiver'[s].lagged = receiver[s].lagged
           /\ receiver[s].queue # <<>> /\ ~receiver[s].lagged /\ phase[s] = "following"
  <1>1. receiver[s] \in Receiver /\ receiver[s].queue # <<>>
    BY DEF SessionType, Receives
  <1>2. Tail(receiver[s].queue) \in Seq(Message)
    BY <1>1, SMT DEF Receiver
  <1> DEFINE q == Tail(receiver[s].queue)
             new == [receiver[s] EXCEPT !.queue = q]
  <1>3. receiver' = [receiver EXCEPT ![s] = new]
    BY DEF Pop
  <1> HIDE DEF q
  <1>4. new \in Receiver /\ new.queue = q /\ new.live = receiver[s].live
        /\ new.lagged = receiver[s].lagged
    BY <1>1, <1>2 DEF Receiver, q
  <1> HIDE DEF new
  <1> QED
    BY <1>1, <1>3, <1>4 DEF SessionType, Receives, q

LEMMA DeliverType ==
    ASSUME SessionType, NEW s \in Sessions, NEW n \in Nat, Deliver(s, n)
    PROVE  /\ last' \in [Sessions -> Nat] /\ got' \in [Sessions -> Got] /\ base' = base
           /\ last'[s] = n /\ got'[s].replayed = got[s].replayed
           /\ got'[s].live = IF VisibleTo(s, n) THEN Append(got[s].live, n) ELSE got[s].live
           /\ \A o \in Sessions \ {s} : last'[o] = last[o] /\ got'[o] = got[o]
  <1>1. got[s] \in Got /\ got[s].live \in Seq(Nat)
    BY DEF SessionType, Got
  <1> DEFINE live == IF VisibleTo(s, n) THEN Append(got[s].live, n) ELSE got[s].live
             new == [got[s] EXCEPT !.live = live]
  <1>2. live \in Seq(Nat)
    BY <1>1, SMT
  <1>3. got' = [got EXCEPT ![s] = new]
    BY DEF Deliver
  <1> HIDE DEF live
  <1>4. new \in Got /\ new.live = live /\ new.replayed = got[s].replayed
    BY <1>1, <1>2 DEF Got
  <1> HIDE DEF new
  <1>5. /\ got' \in [Sessions -> Got] /\ got'[s] = new
        /\ \A o \in Sessions \ {s} : got'[o] = got[o]
    BY <1>3, <1>4 DEF SessionType
  <1>6. /\ last' \in [Sessions -> Nat] /\ last'[s] = n
        /\ \A o \in Sessions \ {s} : last'[o] = last[o]
    BY DEF Deliver, SessionType
  <1> QED
    BY <1>4, <1>5, <1>6 DEF Deliver, live

LEMMA UpToType ==
    ASSUME SessionType, NEW s \in Sessions, NEW n \in Nat,
           cursor' = [cursor EXCEPT ![s].upTo = n]
    PROVE  /\ cursor' \in [Sessions -> [after : Nat, upTo : Nat]]
           /\ cursor'[s].upTo = n /\ cursor'[s].after = cursor[s].after
           /\ \A o \in Sessions \ {s} : cursor'[o] = cursor[o]
  <1>1. cursor[s] \in [after : Nat, upTo : Nat]
    BY DEF SessionType
  <1> DEFINE new == [cursor[s] EXCEPT !.upTo = n]
  <1>2. cursor' = [cursor EXCEPT ![s] = new]
    OBVIOUS
  <1>3. new \in [after : Nat, upTo : Nat] /\ new.upTo = n /\ new.after = cursor[s].after
    BY <1>1
  <1> HIDE DEF new
  <1> QED
    BY <1>2, <1>3 DEF SessionType

LEMMA LaggedType ==
    ASSUME SessionType, NEW s \in Sessions,
           receiver' = [receiver EXCEPT ![s].lagged = FALSE]
    PROVE  /\ receiver' \in [Sessions -> Receiver]
           /\ receiver'[s].live = receiver[s].live /\ receiver'[s].queue = receiver[s].queue
           /\ \A o \in Sessions \ {s} : receiver'[o] = receiver[o]
  <1>1. receiver[s] \in Receiver
    BY DEF SessionType
  <1> DEFINE new == [receiver[s] EXCEPT !.lagged = FALSE]
  <1>2. receiver' = [receiver EXCEPT ![s] = new]
    OBVIOUS
  <1>3. new \in Receiver /\ new.live = receiver[s].live /\ new.queue = receiver[s].queue
    BY <1>1 DEF Receiver
  <1> HIDE DEF new
  <1> QED
    BY <1>2, <1>3 DEF SessionType

(* What an event or a participant list is broadcast as. *)
LEMMA RosterType ==
    ASSUME TypeOK, NEW s \in Sessions, NEW exclude \in Actors \cup {None}
    PROVE  /\ RosterMessage(held[s], exclude) \in Message
           /\ RosterMessage(held[s], exclude).kind = "roster"
  <1>1. held[s] \in SUBSET Actors
    BY DEF TypeOK, PresenceType
  <1> QED
    BY <1>1, Messages

LEMMA SessionTypeStep ==
    ASSUME TypeOK, [Next]_vars
    PROVE  SessionType'
  <1> DEFINE Phases == Inside \cup Outside \cup Joining
  <1>0. /\ SessionType /\ RoomType /\ ActorOf \in [Sessions -> Actors]
        /\ {"closed", "unproven", "open", "leaving", "left", "announcing", "announced",
            "following", "recovering", "resending", "replaying", "snapshot"} \subseteq Phases
    BY DeliveryAssumption DEF TypeOK, Inside, Outside, Joining
  <1>1. CASE Commit \/ UNCHANGED vars \/ \E p \in publishing : LosePublication(p)
    BY <1>0, <1>1 DEF Commit, vars, LosePublication, stream, SessionType
  <1>2. CASE Crash
    BY <1>0, <1>2, NoReceivers, SMT DEF Crash, SessionType, NoCursor, Got
  <1>3. ASSUME NEW p \in publishing, Publish(p)
        PROVE  SessionType'
    <2>1. /\ EventMessage(p.next) \in Message /\ Broadcast(EventMessage(p.next))
          /\ UNCHANGED <<phase, joined, cursor, stream>>
      BY <1>0, <1>3, Messages DEF Publish, RoomType
    <2> QED
      BY <1>0, <2>1, BroadcastType DEF SessionType, stream
  <1>4. ASSUME NEW s \in Sessions, NEW to \in Phases,
               phase' = [phase EXCEPT ![s] = to],
               UNCHANGED <<joined, receiver, incoming, cursor, stream>>
        PROVE  SessionType'
    BY <1>0, <1>4 DEF SessionType, stream
  <1>5. ASSUME NEW s \in Sessions, \/ Accept(s) \/ Elapse(s) \/ Authenticate(s) \/ TurnAway(s)
        PROVE  SessionType'
    <2>1. CASE Elapse(s)
      BY <1>0, <2>1 DEF Elapse, SessionType, stream
    <2>2. CASE Accept(s)
      <3>1. /\ phase' = [phase EXCEPT ![s] = "open"] \/ phase' = [phase EXCEPT ![s] = "unproven"]
            /\ UNCHANGED <<joined, receiver, incoming, cursor, stream>>
        BY <2>2 DEF Accept
      <3> HIDE DEF Phases
      <3> QED
        BY <1>0, <1>4, <3>1
    <2>3. CASE Authenticate(s)
      <3>1. /\ phase' = [phase EXCEPT ![s] = "open"]
            /\ UNCHANGED <<joined, receiver, incoming, cursor, stream>>
        BY <2>3 DEF Authenticate
      <3> HIDE DEF Phases
      <3> QED
        BY <1>0, <1>4, <3>1
    <2>4. CASE TurnAway(s)
      <3>1. /\ phase' = [phase EXCEPT ![s] = "closed"]
            /\ UNCHANGED <<joined, receiver, incoming, cursor, stream>>
        BY <2>4 DEF TurnAway
      <3> HIDE DEF Phases
      <3> QED
        BY <1>0, <1>4, <3>1
    <2> QED
      BY <1>5, <2>1, <2>2, <2>3, <2>4
  <1>6. ASSUME NEW s \in Sessions, NEW from, NEW to \in Phases,
               ReadRoster(s, from, to) \/ SkipRoster(s, from, to)
        PROVE  SessionType'
    BY <1>0, <1>6 DEF ReadRoster, SkipRoster, SessionType, stream
  <1>7. ASSUME NEW s \in Sessions, NEW from, NEW to \in Phases, NEW exclude \in Actors \cup {None},
               SendRoster(s, from, to, exclude)
        PROVE  SessionType'
    <2>1. /\ RosterMessage(held[s], exclude) \in Message
          /\ Broadcast(RosterMessage(held[s], exclude))
          /\ phase' = [phase EXCEPT ![s] = to] /\ UNCHANGED <<joined, cursor, stream>>
      BY <1>7, RosterType DEF SendRoster
    <2> QED
      BY <1>0, <2>1, BroadcastType DEF SessionType, stream
  <1>8. ASSUME NEW s \in Sessions, JoinSubscribe(s)
        PROVE  SessionType'
    BY <1>0, <1>8, NoReceivers, DeliveryAssumption, SMT DEF JoinSubscribe, SessionType, stream
  <1>9. ASSUME NEW s \in Sessions, JoinReplay(s)
        PROVE  SessionType'
    <2>1. Newest(cursor[s].after) \in Nat
      BY <1>0, NewestFacts DEF SessionType
    <2>2. cursor' \in [Sessions -> [after : Nat, upTo : Nat]]
      BY <1>0, <1>9, <2>1, UpToType DEF JoinReplay
    <2> QED
      BY <1>0, <1>9, <2>2 DEF JoinReplay, SessionType, stream
  <1>10. ASSUME NEW s \in Sessions, JoinReplayFails(s) \/ JoinSnapshotFails(s)
         PROVE  SessionType'
    <2>1. Loop(s) \in Phases
      BY <1>0 DEF Loop
    <2>2. /\ incoming' = [incoming EXCEPT ![s] = NoReceiver]
          /\ phase' = [phase EXCEPT ![s] = Loop(s)]
          /\ cursor' = [cursor EXCEPT ![s] = NoCursor]
          /\ UNCHANGED <<joined, receiver, stream>>
      BY <1>10 DEF JoinReplayFails, JoinSnapshotFails
    <2>3. NoCursor \in [after : Nat, upTo : Nat]
      BY DEF NoCursor
    <2>4. phase' \in [Sessions -> Phases]
      BY <1>0, <2>1, <2>2 DEF SessionType
    <2> QED
      BY <1>0, <2>2, <2>3, <2>4, NoReceivers DEF SessionType, stream
  <1>11. ASSUME NEW s \in Sessions, JoinReply(s)
         PROVE  SessionType'
    <2>1. cursor[s] \in [after : Nat, upTo : Nat] /\ incoming[s] \in Receiver
      BY <1>0 DEF SessionType
    <2> DEFINE replayed == {n \in cursor[s].after + 1 .. cursor[s].upTo : VisibleTo(s, n)}
    <2>2. replayed \in SUBSET Nat
      BY <2>1, SMT
    <2> HIDE DEF replayed
    <2>3. got' = [got EXCEPT ![s] = [replayed |-> replayed, live |-> <<>>]]
      BY <1>11 DEF JoinReply, replayed
    <2>4. [replayed |-> replayed, live |-> <<>>] \in Got
      BY <2>2, SMT DEF Got
    <2>5. got' \in [Sessions -> Got]
      BY <1>0, <2>3, <2>4 DEF SessionType
    <2>6. /\ last' \in [Sessions -> Nat] /\ base' \in [Sessions -> Nat]
          /\ joined' \in [Sessions -> BOOLEAN] /\ receiver' \in [Sessions -> Receiver]
          /\ incoming' \in [Sessions -> Receiver]
          /\ cursor' \in [Sessions -> [after : Nat, upTo : Nat]]
      BY <1>0, <1>11, <2>1, NoReceivers DEF JoinReply, EnterRoom, SessionType, NoCursor
    <2> QED
      BY <1>0, <1>11, <2>5, <2>6 DEF JoinReply, SessionType
  <1>12. ASSUME NEW s \in Sessions, ReceiveNext(s)
         PROVE  SessionType'
    <2>1. receiver' \in [Sessions -> Receiver]
      BY <1>0, <1>12, PopType DEF ReceiveNext
    <2>2. last[s] + 1 \in Nat /\ Deliver(s, last[s] + 1)
      BY <1>0, <1>12, SMT DEF ReceiveNext, SessionType
    <2> QED
      BY <1>0, <1>12, <2>1, <2>2, DeliverType DEF ReceiveNext, SessionType
  <1>13. ASSUME NEW s \in Sessions, ReceiveAhead(s) \/ ReceiveOld(s) \/ ReceiveRoster(s)
         PROVE  SessionType'
    <2>1. receiver' \in [Sessions -> Receiver]
      BY <1>0, <1>13, PopType DEF ReceiveAhead, ReceiveOld, ReceiveRoster
    <2> QED
      BY <1>0, <1>13, <2>1, SMT DEF ReceiveAhead, ReceiveOld, ReceiveRoster, SessionType, stream
  <1>14. ASSUME NEW s \in Sessions, ReceiveLagged(s)
         PROVE  SessionType'
    <2>1. receiver' \in [Sessions -> Receiver]
      BY <1>0, <1>14, LaggedType DEF ReceiveLagged
    <2> QED
      BY <1>0, <1>14, <2>1 DEF ReceiveLagged, SessionType, stream
  <1>15. ASSUME NEW s \in Sessions, RecoverRead(s)
         PROVE  SessionType'
    <2>1. Newest(last[s]) \in Nat
      BY <1>0, NewestFacts DEF SessionType
    <2>2. cursor' \in [Sessions -> [after : Nat, upTo : Nat]]
      BY <1>0, <1>15, <2>1, UpToType DEF RecoverRead
    <2> QED
      BY <1>0, <1>15, <2>2 DEF RecoverRead, SessionType, stream
  <1>16. ASSUME NEW s \in Sessions, RecoverSend(s)
         PROVE  SessionType'
    <2>1. last[s] + 1 \in Nat /\ Deliver(s, last[s] + 1)
      BY <1>0, <1>16, SMT DEF RecoverSend, SessionType
    <2> QED
      BY <1>0, <1>16, <2>1, DeliverType DEF RecoverSend, SessionType
  <1>17. ASSUME NEW s \in Sessions, RecoverDone(s)
         PROVE  SessionType'
    BY <1>0, <1>17 DEF RecoverDone, SessionType, NoCursor, stream
  <1>18. ASSUME NEW s \in Sessions, EndSession(s)
         PROVE  SessionType'
    BY <1>0, <1>18, NoReceivers, SMT DEF EndSession, Forget, SessionType, NoCursor, Got
  <1>19. \A s \in Sessions : ActorOf[s] \in Actors \cup {None}
    BY <1>0
  <1> HIDE DEF Phases
  <1> QED
    BY <1>0, <1>1, <1>2, <1>3, <1>5, <1>6, <1>7, <1>8, <1>9, <1>10, <1>11, <1>12, <1>13,
       <1>14, <1>15, <1>16, <1>17, <1>18, <1>19, NextCases DEF Leave, Expire

LEMMA TypeStep ==
    ASSUME TypeOK, [Next]_vars
    PROVE  TypeOK'
  BY RoomTypeStep, SessionTypeStep, PresenceTypeStep DEF TypeOK


-------------------------------------------------------------------------------
(* What a session keeps when it does not move itself.                      *)

(* Its part of the state other than its phase. *)
Same(s) ==
    /\ joined'[s] = joined[s] /\ receiver'[s] = receiver[s] /\ incoming'[s] = incoming[s]
    /\ cursor'[s] = cursor[s] /\ last'[s] = last[s] /\ base'[s] = base[s] /\ got'[s] = got[s]

(* Changes of phase that mean nothing to the stream. *)
Moves(s) ==
    \/ phase'[s] = phase[s]
    \/ phase[s] \in Outside /\ phase'[s] \in Outside
    \/ /\ phase[s] \in {"announcing", "announced", "following"}
       /\ phase'[s] \in {"announcing", "announced", "following"}

LEMMA WithinStays ==
    ASSUME RoomType, LogGrows, NEW m \in Nat, NEW n \in Nat, Within(m, n)
    PROVE  Within(m, n)'
  <1>1. Len(log) \in Nat /\ Len(log') \in Nat /\ Len(log) <= Len(log')
    BY SMT DEF RoomType, LogGrows
  <1> QED
    BY <1>1, SMT DEF Within

LEMMA VisibleStays ==
    ASSUME RoomType, LogGrows, NEW s \in Sessions, NEW m \in Nat, NEW n \in Nat, Within(m, n)
    PROVE  \A k \in m + 1 .. n : VisibleTo(s, k)' <=> VisibleTo(s, k)
  <1>1. \A k \in m + 1 .. n : k \in DOMAIN log
    BY SMT DEF RoomType, Within
  <1>2. \A k \in DOMAIN log : log'[k] = log[k]
    BY DEF LogGrows
  <1> QED
    BY <1>1, <1>2 DEF VisibleTo

LEMMA ExactStays ==
    ASSUME TypeOK, LogGrows, NEW s \in Sessions, CursorInv(s), ExactInv(s),
           last'[s] = last[s], base'[s] = base[s], got'[s] = got[s]
    PROVE  ExactInv(s)'
  <1>1. last[s] \in Nat /\ base[s] \in Nat /\ RoomType
    BY DEF TypeOK, SessionType
  <1>2. \A k \in base[s] + 1 .. last[s] : VisibleTo(s, k)' <=> VisibleTo(s, k)
    BY <1>1, VisibleStays DEF CursorInv
  <1>3. {k \in base[s] + 1 .. last[s] : VisibleTo(s, k)}
            = {k \in base'[s] + 1 .. last'[s] : VisibleTo(s, k)'}
    BY <1>2
  <1> QED
    BY <1>3 DEF ExactInv

LEMMA CursorStays ==
    ASSUME TypeOK, LogGrows, NEW s \in Sessions, CursorInv(s), Same(s), Moves(s)
    PROVE  CursorInv(s)'
  <1>1. /\ RoomType /\ last[s] \in Nat /\ base[s] \in Nat /\ cursor[s].after \in Nat
        /\ cursor[s].upTo \in Nat
    BY DEF TypeOK, SessionType
  <1>2. /\ phase'[s] = "snapshot" => phase[s] = "snapshot"
        /\ phase'[s] = "resending" => phase[s] = "resending"
    BY DEF Moves, Outside
  <1>3. Within(base[s], last[s])'
    <2>1. Within(base[s], last[s])
      BY DEF CursorInv
    <2> QED
      BY <1>1, <2>1, SMT DEF Within, Same, LogGrows, RoomType
  <1>4. phase'[s] = "snapshot" => Within(cursor[s].after, cursor[s].upTo)'
    <2>1. phase[s] = "snapshot" => Within(cursor[s].after, cursor[s].upTo)
      BY DEF CursorInv
    <2> QED
      BY <1>1, <1>2, <2>1, SMT DEF Within, Same, LogGrows, RoomType
  <1>5. phase'[s] = "resending" => Within(last[s], cursor[s].upTo)'
    <2>1. phase[s] = "resending" => Within(last[s], cursor[s].upTo)
      BY DEF CursorInv
    <2> QED
      BY <1>1, <1>2, <2>1, SMT DEF Within, Same, LogGrows, RoomType
  <1> QED
    BY <1>3, <1>4, <1>5 DEF CursorInv

LEMMA PhaseStays ==
    ASSUME NEW s \in Sessions, PhaseInv(s), joined'[s] = joined[s], Moves(s),
           receiver'[s].live = receiver[s].live, incoming'[s].live = incoming[s].live
    PROVE  PhaseInv(s)'
  BY DEF PhaseInv, Moves, Inside, Outside, Joining

(* A session whose own state stays keeps its invariant while others move   *)
(* and the log grows.                                                      *)
LEMMA FrameInv ==
    ASSUME TypeOK, LogGrows, published' = published, NEW s \in Sessions, SInv(s),
           Same(s), Moves(s)
    PROVE  SInv(s)'
  <1>1. PhaseInv(s)'
    BY PhaseStays DEF SInv, Same
  <1>2. Sound(receiver[s])' /\ Sound(incoming[s])'
    BY DEF SInv, Sound, Same
  <1>3. CursorInv(s)' /\ ExactInv(s)'
    BY CursorStays, ExactStays DEF SInv, Same
  <1>4. PendingInv(s)'
    <2>1. /\ phase'[s] = "snapshot" => phase[s] = "snapshot"
          /\ phase[s] \in {"recovering", "resending"} => phase'[s] = phase[s]
      BY DEF Moves, Outside
    <2>2. PendingInv(s)
      BY DEF SInv
    <2> QED
      BY <2>1, <2>2, SMT DEF PendingInv, Same, Expected, Covers, Carries
  <1> QED
    BY <1>1, <1>2, <1>3, <1>4 DEF SInv

(* So it does when a message is pushed into its receivers. *)
LEMMA PushInv ==
    ASSUME TypeOK, UNCHANGED log, NEW s \in Sessions, SInv(s), Moves(s), NEW m \in Message,
           receiver'[s] = Push(receiver[s], m), incoming'[s] = Push(incoming[s], m),
           published' = published \cup (IF m.kind = "event" THEN {m.seq} ELSE {}),
           joined'[s] = joined[s], cursor'[s] = cursor[s], last'[s] = last[s],
           base'[s] = base[s], got'[s] = got[s]
    PROVE  SInv(s)'
  <1>0. receiver[s] \in Receiver /\ incoming[s] \in Receiver /\ RoomType /\ LogGrows
    BY SMT DEF TypeOK, SessionType, LogGrows, RoomType
  <1>1. PhaseInv(s)'
    <2>1. Push(receiver[s], m).live = receiver[s].live
      BY <1>0, PushCases
    <2>2. Push(incoming[s], m).live = incoming[s].live
      BY <1>0, PushCases
    <2>3. receiver'[s].live = receiver[s].live /\ incoming'[s].live = incoming[s].live
      BY <2>1, <2>2
    <2> QED
      BY <2>3, PhaseStays DEF SInv
  <1>2. Sound(receiver[s])' /\ Sound(incoming[s])'
    <2>1. ASSUME NEW r \in Receiver, Sound(r)
          PROVE  \A i \in DOMAIN Push(r, m).queue :
                    Push(r, m).queue[i].kind = "event" => Push(r, m).queue[i].seq \in published'
      <3> SUFFICES ASSUME NEW i \in DOMAIN Push(r, m).queue
                   PROVE  Push(r, m).queue[i].kind = "event" =>
                              Push(r, m).queue[i].seq \in published'
        OBVIOUS
      <3>2. \/ Push(r, m).queue[i] = m
            \/ \E j \in DOMAIN r.queue : Push(r, m).queue[i] = r.queue[j]
        BY PushFacts
      <3> QED
        BY <2>1, <3>2 DEF Sound
    <2>2. Sound(receiver[s]) /\ Sound(incoming[s])
      BY DEF SInv
    <2> QED
      BY <1>0, <2>1, <2>2 DEF Sound
  <1>3. CursorInv(s)'
    <2>1. /\ phase'[s] = "snapshot" => phase[s] = "snapshot"
          /\ phase'[s] = "resending" => phase[s] = "resending"
      BY DEF Moves, Outside
    <2> QED
      BY <2>1 DEF SInv, CursorInv, Within
  <1>4. ExactInv(s)'
    BY <1>0, ExactStays DEF SInv
  <1>5. PendingInv(s)'
    <2>1. /\ phase'[s] = "snapshot" => phase[s] = "snapshot"
          /\ phase[s] \in {"recovering", "resending"} => phase'[s] = phase[s]
      BY DEF Moves, Outside
    <2>2. PendingInv(s) /\ PhaseInv(s)
      BY DEF SInv
    <2>3. ASSUME NEW r \in Receiver, r.live, NEW n \in published', n \in published => r.lagged \/ Carries(r, n)
          PROVE  Push(r, m).lagged \/ Carries(Push(r, m), n)
      BY <2>3, PushFacts
    <2>4. ASSUME joined'[s], NEW n \in published', n > last'[s]
          PROVE  Expected(s, n)'
      <3>1. receiver[s].live /\ (n \in published => Expected(s, n))
        BY <2>2, <2>4 DEF PendingInv, PhaseInv
      <3>2. CASE phase[s] = "recovering" \/ (phase[s] = "resending" /\ n <= cursor[s].upTo)
        BY <2>1, <3>2 DEF Expected
      <3>3. CASE n \in published => receiver[s].lagged \/ Carries(receiver[s], n)
        <4>1. receiver'[s].lagged \/ Carries(receiver'[s], n)
          BY <1>0, <2>3, <3>1, <3>3
        <4> QED
          BY <4>1 DEF Expected, Carries
      <3>4. \/ phase[s] = "recovering" \/ (phase[s] = "resending" /\ n <= cursor[s].upTo)
            \/ (n \in published => receiver[s].lagged \/ Carries(receiver[s], n))
        BY <3>1 DEF Expected
      <3> QED
        BY <3>2, <3>3, <3>4
    <2>5. ASSUME phase'[s] = "snapshot"
          PROVE  Covers(incoming[s], cursor[s].upTo)'
      <3>1. incoming[s].live /\ Covers(incoming[s], cursor[s].upTo)
        BY <2>1, <2>2, <2>5 DEF PendingInv, PhaseInv, Joining
      <3>2. ASSUME NEW n \in published', n > cursor[s].upTo
            PROVE  incoming'[s].lagged \/ Carries(incoming'[s], n)
        BY <1>0, <2>3, <3>1, <3>2 DEF Covers
      <3> QED
        BY <3>2 DEF Covers, Carries
    <2> QED
      BY <2>4, <2>5 DEF PendingInv
  <1> QED
    BY <1>1, <1>2, <1>3, <1>4, <1>5 DEF SInv


-------------------------------------------------------------------------------
(* A session's own steps.  None of them touches the log.                   *)

Quiet == log' = log /\ published' = published

LEMMA QuietGrows ==
    ASSUME RoomType, Quiet
    PROVE  LogGrows
  BY SMT DEF RoomType, Quiet, LogGrows

LEMMA SoundStays ==
    ASSUME Quiet, NEW s \in Sessions
    PROVE  /\ Sound(receiver'[s]) => Sound(receiver[s])'
           /\ Sound(incoming'[s]) => Sound(incoming[s])'
  BY DEF Quiet, Sound

LEMMA EmptySound == Sound(NoReceiver) /\ Sound(Subscribed)
  BY NoReceivers, SMT DEF Sound

(* An event that is published is in the log. *)
LEMMA PublishedInLog ==
    ASSUME RoomType, NEW n \in published
    PROVE  n \in Nat /\ n >= 1 /\ n <= Len(log) /\ Len(log) \in Nat
  BY SMT DEF RoomType

LEMMA SubscribeInv ==
    ASSUME TypeOK, NEW s \in Sessions, SInv(s), JoinSubscribe(s)
    PROVE  SInv(s)'
  <1>0. /\ Quiet /\ LogGrows /\ phase'[s] = "replaying" /\ incoming'[s] = Subscribed
        /\ joined'[s] = joined[s] /\ receiver'[s] = receiver[s]
        /\ last'[s] = last[s] /\ base'[s] = base[s] /\ got'[s] = got[s]
        /\ phase[s] \in {"open", "following"}
    BY QuietGrows DEF JoinSubscribe, room, stream, Quiet, TypeOK, SessionType
  <1>1. PhaseInv(s)'
    BY <1>0, NoReceivers DEF SInv, PhaseInv, Inside, Outside, Joining
  <1>2. Sound(receiver[s])' /\ Sound(incoming[s])'
    BY <1>0, EmptySound, SoundStays DEF SInv
  <1>3. CursorInv(s)' /\ ExactInv(s)'
    BY <1>0, ExactStays DEF SInv, CursorInv, Within, Quiet
  <1>4. PendingInv(s)'
    BY <1>0 DEF SInv, PendingInv, Expected, Carries, Quiet
  <1> QED
    BY <1>1, <1>2, <1>3, <1>4 DEF SInv

LEMMA ReplayInv ==
    ASSUME TypeOK, NEW s \in Sessions, SInv(s), JoinReplay(s)
    PROVE  SInv(s)'
  <1>0. /\ Quiet /\ LogGrows /\ phase[s] = "replaying" /\ phase'[s] = "snapshot"
        /\ incoming'[s] = incoming[s]
        /\ joined'[s] = joined[s] /\ receiver'[s] = receiver[s]
        /\ last'[s] = last[s] /\ base'[s] = base[s] /\ got'[s] = got[s]
    BY QuietGrows DEF JoinReplay, room, stream, Quiet, TypeOK, SessionType
  <1>1. /\ cursor[s].after \in Nat /\ cursor'[s].upTo = Newest(cursor[s].after)
        /\ cursor'[s].after = cursor[s].after
    <2>1. cursor[s].after \in Nat /\ RoomType /\ SessionType
      BY DEF TypeOK, SessionType
    <2> QED
      BY <2>1, NewestFacts, UpToType DEF JoinReplay
  <1>2. /\ cursor'[s].upTo \in Nat /\ cursor'[s].upTo >= Len(log)
        /\ Within(cursor[s].after, cursor'[s].upTo)
    BY <1>1, NewestFacts DEF TypeOK
  <1>3. PhaseInv(s)'
    BY <1>0 DEF SInv, PhaseInv, Inside, Outside, Joining
  <1>4. Sound(receiver[s])' /\ Sound(incoming[s])'
    BY <1>0, SoundStays DEF SInv
  <1>5. CursorInv(s)' /\ ExactInv(s)'
    BY <1>0, <1>1, <1>2, ExactStays DEF SInv, CursorInv, Within, Quiet
  <1>6. PendingInv(s)'
    <2>1. \A n \in published : ~(n > cursor'[s].upTo)
      BY <1>2, PublishedInLog, SMT DEF TypeOK
    <2>2. Covers(incoming[s], cursor[s].upTo)'
      BY <1>0, <2>1 DEF Covers, Quiet
    <2>3. joined'[s] => \A n \in published' : n > last'[s] => Expected(s, n)'
      BY <1>0, SMT DEF SInv, PendingInv, Expected, Carries, Quiet
    <2> QED
      BY <2>2, <2>3 DEF PendingInv
  <1> QED
    BY <1>3, <1>4, <1>5, <1>6 DEF SInv

LEMMA JoinFailsInv ==
    ASSUME TypeOK, NEW s \in Sessions, SInv(s), JoinReplayFails(s) \/ JoinSnapshotFails(s)
    PROVE  SInv(s)'
  <1>0. /\ Quiet /\ LogGrows /\ phase[s] \in {"replaying", "snapshot"} /\ phase'[s] = Loop(s)
        /\ incoming'[s] = NoReceiver
        /\ joined'[s] = joined[s] /\ receiver'[s] = receiver[s]
        /\ last'[s] = last[s] /\ base'[s] = base[s] /\ got'[s] = got[s]
    <2>1. phase' = [phase EXCEPT ![s] = Loop(s)] /\ incoming' = [incoming EXCEPT ![s] = NoReceiver]
          /\ UNCHANGED <<room, joined, receiver, stream>> /\ phase[s] \in {"replaying", "snapshot"}
      BY DEF JoinReplayFails, JoinSnapshotFails
    <2> QED
      BY <2>1, QuietGrows DEF room, stream, Quiet, TypeOK, SessionType
  <1>1. PhaseInv(s)' /\ (phase'[s] = "following" \/ phase'[s] = "open")
    BY <1>0 DEF SInv, PhaseInv, Inside, Outside, Joining, Loop
  <1>2. Sound(receiver[s])' /\ Sound(incoming[s])'
    BY <1>0, EmptySound, SoundStays DEF SInv
  <1>3. CursorInv(s)' /\ ExactInv(s)'
    BY <1>0, <1>1, ExactStays DEF SInv, CursorInv, Within, Quiet
  <1>4. PendingInv(s)'
    BY <1>0, <1>1 DEF SInv, PendingInv, Expected, Carries, Quiet
  <1> QED
    BY <1>1, <1>2, <1>3, <1>4 DEF SInv

LEMMA ReplyInv ==
    ASSUME TypeOK, NEW s \in Sessions, SInv(s), JoinReply(s)
    PROVE  SInv(s)'
  <1>0. /\ Quiet /\ phase[s] = "snapshot" /\ phase'[s] \in {"following", "announcing"}
        /\ incoming'[s] = NoReceiver /\ joined'[s] = TRUE /\ receiver'[s] = incoming[s]
        /\ last'[s] = cursor[s].upTo /\ base'[s] = cursor[s].after
    BY DEF JoinReply, EnterRoom, room, Quiet, TypeOK, SessionType
  <1>1. PhaseInv(s)'
    BY <1>0 DEF SInv, PhaseInv, Inside, Outside, Joining
  <1>2. Sound(receiver[s])' /\ Sound(incoming[s])'
    BY <1>0, EmptySound, SoundStays DEF SInv
  <1>3. CursorInv(s)'
    BY <1>0 DEF SInv, CursorInv, Within, Quiet
  <1>4. ExactInv(s)'
    <2> DEFINE replayed == {n \in cursor[s].after + 1 .. cursor[s].upTo : VisibleTo(s, n)}
               new == [replayed |-> replayed, live |-> <<>>]
    <2>1. got'[s] = new
      BY DEF JoinReply, TypeOK, SessionType
    <2>2. new.replayed = replayed /\ new.live = <<>>
      OBVIOUS
    <2> HIDE DEF new
    <2>3. got'[s].replayed = {n \in base'[s] + 1 .. last'[s] : VisibleTo(s, n)'}
      BY <1>0, <2>1, <2>2 DEF VisibleTo, Quiet
    <2>4. got'[s].live = <<>> /\ Range(got'[s].live) = {} /\ DOMAIN got'[s].live = {}
      BY <2>1, <2>2, SMT DEF Range
    <2> QED
      BY <2>3, <2>4 DEF ExactInv, Range
  <1>5. PendingInv(s)'
    <2>1. \A n \in published : n > last'[s] => receiver'[s].lagged \/ Carries(receiver'[s], n)
      BY <1>0 DEF SInv, PendingInv, Covers
    <2> QED
      BY <1>0, <2>1 DEF PendingInv, Expected, Carries, Quiet
  <1> QED
    BY <1>1, <1>2, <1>3, <1>4, <1>5 DEF SInv


(* Delivering the next event keeps the stream exact. *)
LEMMA DeliverExact ==
    ASSUME TypeOK, Quiet, NEW s \in Sessions, SInv(s), last[s] + 1 <= Len(log),
           Deliver(s, last[s] + 1)
    PROVE  ExactInv(s)' /\ Within(base[s], last[s])' /\ last'[s] = last[s] + 1
  <1>0. /\ SessionType /\ RoomType /\ last[s] \in Nat /\ base[s] \in Nat /\ last[s] + 1 \in Nat
        /\ got[s].live \in Seq(Nat) /\ got[s].replayed \in SUBSET Nat /\ Len(log) \in Nat
    BY SMT DEF TypeOK, SessionType, RoomType, Got
  <1> DEFINE e == last[s] + 1
             old == got[s].live
  <1>1. /\ base' = base /\ last'[s] = e /\ got'[s].replayed = got[s].replayed
        /\ got'[s].live = IF VisibleTo(s, e) THEN Append(old, e) ELSE old
    BY <1>0, DeliverType
  <1>2. base[s] <= last[s]
    BY <1>0 DEF SInv, CursorInv, Within
  <1>3. Within(base[s], last[s])'
    BY <1>0, <1>1, <1>2, SMT DEF Within, Quiet
  <1>4. \A n : VisibleTo(s, n)' <=> VisibleTo(s, n)
    BY DEF VisibleTo, Quiet
  <1>5. base[s] + 1 .. e = (base[s] + 1 .. last[s]) \cup {e}
    BY <1>0, <1>2, SMT
  <1>6. /\ got[s].replayed \cup Range(old) = {n \in base[s] + 1 .. last[s] : VisibleTo(s, n)}
        /\ \A i, j \in DOMAIN old : i < j => old[i] < old[j]
        /\ \A i \in DOMAIN old : \A n \in got[s].replayed : n < old[i]
    BY DEF SInv, ExactInv
  <1>7. /\ \A n \in got[s].replayed : n < e
        /\ \A i \in DOMAIN old : old[i] < e
    <2>1. \A n \in got[s].replayed \cup Range(old) : n < e
      BY <1>0, <1>6, SMT
    <2> QED
      BY <2>1 DEF Range
  <1>8. CASE ~VisibleTo(s, e)
    <2>1. got'[s].live = old
      BY <1>1, <1>8
    <2>2. {n \in base[s] + 1 .. e : VisibleTo(s, n)} = {n \in base[s] + 1 .. last[s] : VisibleTo(s, n)}
      BY <1>5, <1>8
    <2>3. {n \in base'[s] + 1 .. last'[s] : VisibleTo(s, n)'}
            = {n \in base[s] + 1 .. e : VisibleTo(s, n)}
      BY <1>1, <1>4
    <2> QED
      BY <1>1, <1>3, <1>6, <2>1, <2>2, <2>3 DEF ExactInv
  <1>9. CASE VisibleTo(s, e)
    <2> DEFINE new == Append(old, e)
    <2>0. got'[s].live = new
      BY <1>1, <1>9
    <2>1. /\ Len(old) \in Nat /\ DOMAIN new = DOMAIN old \cup {Len(old) + 1}
          /\ DOMAIN old = 1 .. Len(old) /\ new[Len(old) + 1] = e
          /\ \A i \in DOMAIN old : new[i] = old[i]
      <3>1. old \in Seq(Nat) /\ e \in Nat
        BY <1>0
      <3> HIDE DEF old, e
      <3> QED
        BY <3>1, AppendFacts, SMT
    <2> HIDE DEF new, old
    <2>2. Range(new) = Range(old) \cup {e}
      BY <2>1, SMT DEF Range
    <2>3. {n \in base[s] + 1 .. e : VisibleTo(s, n)}
            = {n \in base[s] + 1 .. last[s] : VisibleTo(s, n)} \cup {e}
      BY <1>0, <1>2, <1>5, <1>9
    <2>4. got[s].replayed \cup Range(new) = {n \in base[s] + 1 .. e : VisibleTo(s, n)}
      BY <1>6, <2>2, <2>3
    <2>5. {n \in base'[s] + 1 .. last'[s] : VisibleTo(s, n)'}
            = {n \in base[s] + 1 .. e : VisibleTo(s, n)}
      BY <1>1, <1>4
    <2>6. ASSUME NEW i \in DOMAIN new, NEW j \in DOMAIN new, i < j
          PROVE  new[i] < new[j]
      <3>1. i \in DOMAIN old
        BY <2>1, <2>6, SMT
      <3>2. CASE j \in DOMAIN old
        BY <1>6, <2>1, <2>6, <3>1, <3>2
      <3>3. CASE j = Len(old) + 1
        BY <1>7, <2>1, <3>1, <3>3
      <3> QED
        BY <2>1, <3>2, <3>3
    <2>7. \A i \in DOMAIN new : \A n \in got[s].replayed : n < new[i]
      BY <1>6, <1>7, <2>1
    <2> QED
      BY <1>1, <1>3, <2>0, <2>4, <2>5, <2>6, <2>7 DEF ExactInv
  <1> QED
    BY <1>1, <1>3, <1>8, <1>9

LEMMA ReceiveNextInv ==
    ASSUME TypeOK, NEW s \in Sessions, SInv(s), ReceiveNext(s)
    PROVE  SInv(s)'
  <1>0. /\ Quiet /\ phase'[s] = phase[s] /\ incoming'[s] = incoming[s] /\ joined'[s] = joined[s]
        /\ Receives(s) /\ Pop(s) /\ Head1(s).kind = "event" /\ Head1(s).seq = last[s] + 1
        /\ Deliver(s, last[s] + 1) /\ SessionType /\ RoomType
    BY DEF ReceiveNext, room, Quiet, TypeOK
  <1>1. /\ receiver'[s] \in Receiver /\ receiver[s] \in Receiver
        /\ receiver'[s].queue = Tail(receiver[s].queue)
        /\ receiver'[s].live = receiver[s].live /\ receiver'[s].lagged = receiver[s].lagged
        /\ receiver[s].queue # <<>> /\ ~receiver[s].lagged /\ phase[s] = "following"
    BY <1>0, PopType DEF SessionType
  <1>2. /\ Sound(receiver'[s]) /\ last[s] + 1 \in published
        /\ \A n : Carries(receiver[s], n) => n = last[s] + 1 \/ Carries(receiver'[s], n)
    BY <1>0, <1>1, PopFacts DEF SInv, Head1
  <1>3. ExactInv(s)' /\ Within(base[s], last[s])' /\ last'[s] = last[s] + 1
    <2>1. last[s] + 1 <= Len(log)
      BY <1>0, <1>2, PublishedInLog
    <2> QED
      BY <1>0, <2>1, DeliverExact
  <1>4. PhaseInv(s)'
    BY <1>0, <1>1 DEF SInv, PhaseInv
  <1>5. Sound(receiver[s])' /\ Sound(incoming[s])'
    BY <1>0, <1>2, SoundStays DEF SInv
  <1>6. CursorInv(s)'
    BY <1>0, <1>1, <1>3 DEF CursorInv
  <1>7. PendingInv(s)'
    <2>1. ASSUME joined'[s], NEW n \in published', n > last'[s]
          PROVE  Carries(receiver'[s], n)
      <3>1. n \in published /\ n \in Nat /\ last[s] \in Nat
        BY <1>0, <2>1, PublishedInLog DEF Quiet, SessionType
      <3>2. n > last[s] /\ n # last[s] + 1
        BY <1>3, <2>1, <3>1, SMT
      <3>3. Carries(receiver[s], n)
        BY <1>0, <1>1, <2>1, <3>1, <3>2 DEF SInv, PendingInv, Expected
      <3> QED
        BY <1>2, <3>2, <3>3
    <2> QED
      BY <1>0, <1>1, <2>1 DEF PendingInv, Expected, Carries
  <1> QED
    BY <1>3, <1>4, <1>5, <1>6, <1>7 DEF SInv

(* A message that does not bring the next event. *)
LEMMA ReceiveOtherInv ==
    ASSUME TypeOK, NEW s \in Sessions, SInv(s),
           ReceiveAhead(s) \/ ReceiveOld(s) \/ ReceiveRoster(s)
    PROVE  SInv(s)'
  <1>0. /\ Quiet /\ LogGrows /\ incoming'[s] = incoming[s] /\ joined'[s] = joined[s]
        /\ Receives(s) /\ Pop(s) /\ SessionType /\ RoomType
        /\ last'[s] = last[s] /\ base'[s] = base[s] /\ got'[s] = got[s]
    BY QuietGrows DEF ReceiveAhead, ReceiveOld, ReceiveRoster, room, stream, Quiet, TypeOK
  <1>1. \/ phase'[s] = "recovering"
        \/ phase'[s] = phase[s] /\ (Head1(s).kind = "event" => Head1(s).seq <= last[s])
    BY <1>0 DEF ReceiveAhead, ReceiveOld, ReceiveRoster, SessionType
  <1>2. /\ receiver'[s] \in Receiver /\ receiver[s] \in Receiver
        /\ receiver'[s].queue = Tail(receiver[s].queue)
        /\ receiver'[s].live = receiver[s].live /\ receiver'[s].lagged = receiver[s].lagged
        /\ receiver[s].queue # <<>> /\ ~receiver[s].lagged /\ phase[s] = "following"
    BY <1>0, PopType DEF SessionType
  <1>3. /\ Sound(receiver'[s])
        /\ \A n : Carries(receiver[s], n) =>
                    \/ Head1(s).kind = "event" /\ Head1(s).seq = n
                    \/ Carries(receiver'[s], n)
    BY <1>2, PopFacts DEF SInv, Head1
  <1>4. PhaseInv(s)'
    BY <1>0, <1>1, <1>2 DEF SInv, PhaseInv, Inside, Outside, Joining
  <1>5. Sound(receiver[s])' /\ Sound(incoming[s])'
    BY <1>0, <1>3, SoundStays DEF SInv
  <1>6. CursorInv(s)' /\ ExactInv(s)'
    BY <1>0, <1>1, <1>2, ExactStays DEF SInv, CursorInv, Within, Quiet
  <1>7. PendingInv(s)'
    <2>1. CASE phase'[s] = "recovering"
      BY <2>1 DEF PendingInv, Expected
    <2>2. CASE phase'[s] = phase[s] /\ (Head1(s).kind = "event" => Head1(s).seq <= last[s])
      <3>1. ASSUME joined'[s], NEW n \in published', n > last'[s]
            PROVE  Carries(receiver'[s], n)
        <4>1. n \in published /\ n \in Nat /\ last[s] \in Nat /\ n > last[s]
          BY <1>0, <3>1, PublishedInLog DEF Quiet, SessionType
        <4>2. Carries(receiver[s], n)
          BY <1>0, <1>2, <3>1, <4>1 DEF SInv, PendingInv, Expected
        <4>3. ~(Head1(s).kind = "event" /\ Head1(s).seq = n)
          BY <2>2, <4>1, SMT
        <4> QED
          BY <1>3, <4>2, <4>3
      <3> QED
        BY <1>2, <2>2, <3>1 DEF PendingInv, Expected, Carries
    <2> QED
      BY <1>1, <2>1, <2>2
  <1> QED
    BY <1>4, <1>5, <1>6, <1>7 DEF SInv

LEMMA LaggedInv ==
    ASSUME TypeOK, NEW s \in Sessions, SInv(s), ReceiveLagged(s)
    PROVE  SInv(s)'
  <1>0. /\ Quiet /\ LogGrows /\ incoming'[s] = incoming[s] /\ joined'[s] = joined[s]
        /\ last'[s] = last[s] /\ base'[s] = base[s] /\ got'[s] = got[s]
        /\ phase[s] = "following" /\ phase'[s] = "recovering"
        /\ receiver'[s].live = receiver[s].live /\ receiver'[s].queue = receiver[s].queue
    BY QuietGrows, LaggedType
        DEF ReceiveLagged, room, stream, Quiet, TypeOK, SessionType
  <1>1. PhaseInv(s)'
    BY <1>0 DEF SInv, PhaseInv, Inside, Outside, Joining
  <1>2. Sound(receiver[s])' /\ Sound(incoming[s])'
    BY <1>0, SoundStays DEF SInv, Sound
  <1>3. CursorInv(s)' /\ ExactInv(s)'
    BY <1>0, ExactStays DEF SInv, CursorInv, Within, Quiet
  <1>4. PendingInv(s)'
    BY <1>0 DEF PendingInv, Expected
  <1> QED
    BY <1>1, <1>2, <1>3, <1>4 DEF SInv


LEMMA RecoverReadInv ==
    ASSUME TypeOK, NEW s \in Sessions, SInv(s), RecoverRead(s)
    PROVE  SInv(s)'
  <1>0. /\ Quiet /\ LogGrows /\ incoming'[s] = incoming[s] /\ joined'[s] = joined[s]
        /\ last'[s] = last[s] /\ base'[s] = base[s] /\ got'[s] = got[s]
        /\ phase[s] = "recovering" /\ phase'[s] = "resending" /\ receiver'[s] = receiver[s]
    BY QuietGrows DEF RecoverRead, room, stream, Quiet, TypeOK, SessionType
  <1>1. cursor'[s].upTo = Newest(last[s]) /\ last[s] \in Nat
    <2>1. last[s] \in Nat /\ RoomType /\ SessionType
      BY DEF TypeOK, SessionType
    <2> QED
      BY <2>1, NewestFacts, UpToType DEF RecoverRead
  <1>2. /\ cursor'[s].upTo \in Nat /\ cursor'[s].upTo >= Len(log)
        /\ Within(last[s], cursor'[s].upTo)
    BY <1>1, NewestFacts DEF TypeOK
  <1>3. PhaseInv(s)'
    BY <1>0 DEF SInv, PhaseInv, Inside, Outside, Joining
  <1>4. Sound(receiver[s])' /\ Sound(incoming[s])'
    BY <1>0, SoundStays DEF SInv
  <1>5. CursorInv(s)' /\ ExactInv(s)'
    BY <1>0, <1>2, ExactStays DEF SInv, CursorInv, Within, Quiet
  <1>6. PendingInv(s)'
    <2>1. \A n \in published : n <= cursor'[s].upTo
      BY <1>2, PublishedInLog, SMT DEF TypeOK
    <2> QED
      BY <1>0, <2>1 DEF PendingInv, Expected, Quiet
  <1> QED
    BY <1>3, <1>4, <1>5, <1>6 DEF SInv

LEMMA RecoverSendInv ==
    ASSUME TypeOK, NEW s \in Sessions, SInv(s), RecoverSend(s)
    PROVE  SInv(s)'
  <1>0. /\ Quiet /\ incoming'[s] = incoming[s] /\ joined'[s] = joined[s]
        /\ phase[s] = "resending" /\ phase'[s] = phase[s] /\ receiver'[s] = receiver[s]
        /\ cursor'[s] = cursor[s] /\ last[s] < cursor[s].upTo /\ Deliver(s, last[s] + 1)
        /\ SessionType /\ RoomType
    BY DEF RecoverSend, room, Quiet, TypeOK
  <1>1. last[s] \in Nat /\ cursor[s].upTo \in Nat /\ Len(log) \in Nat
    BY <1>0, SMT DEF SessionType, RoomType
  <1>2. cursor[s].upTo <= Len(log) /\ last[s] + 1 <= Len(log) /\ last[s] + 1 <= cursor[s].upTo
    BY <1>0, <1>1, SMT DEF SInv, CursorInv, Within
  <1>3. ExactInv(s)' /\ Within(base[s], last[s])' /\ last'[s] = last[s] + 1
    BY <1>0, <1>2, DeliverExact
  <1>4. PhaseInv(s)'
    BY <1>0 DEF SInv, PhaseInv
  <1>5. Sound(receiver[s])' /\ Sound(incoming[s])'
    BY <1>0, SoundStays DEF SInv
  <1>6. CursorInv(s)'
    <2>1. Within(last[s], cursor[s].upTo)'
      BY <1>0, <1>2, <1>3 DEF Within, Quiet
    <2> QED
      BY <1>0, <1>3, <2>1 DEF CursorInv
  <1>7. PendingInv(s)'
    <2>1. ASSUME joined'[s], NEW n \in published', n > last'[s]
          PROVE  Expected(s, n)'
      <3>1. n \in published /\ n > last[s]
        BY <1>0, <1>1, <1>3, <2>1, PublishedInLog, SMT DEF Quiet
      <3>2. Expected(s, n)
        BY <1>0, <2>1, <3>1 DEF SInv, PendingInv
      <3> QED
        BY <1>0, <3>2 DEF Expected, Carries
    <2> QED
      BY <1>0, <2>1 DEF PendingInv
  <1> QED
    BY <1>3, <1>4, <1>5, <1>6, <1>7 DEF SInv

LEMMA RecoverDoneInv ==
    ASSUME TypeOK, NEW s \in Sessions, SInv(s), RecoverDone(s)
    PROVE  SInv(s)'
  <1>0. /\ Quiet /\ LogGrows /\ incoming'[s] = incoming[s] /\ joined'[s] = joined[s]
        /\ last'[s] = last[s] /\ base'[s] = base[s] /\ got'[s] = got[s]
        /\ phase[s] = "resending" /\ phase'[s] = "following" /\ receiver'[s] = receiver[s]
        /\ last[s] = cursor[s].upTo /\ last[s] \in Nat
    BY QuietGrows DEF RecoverDone, room, stream, Quiet, TypeOK, SessionType
  <1>1. PhaseInv(s)'
    BY <1>0 DEF SInv, PhaseInv, Inside, Outside, Joining
  <1>2. Sound(receiver[s])' /\ Sound(incoming[s])'
    BY <1>0, SoundStays DEF SInv
  <1>3. CursorInv(s)' /\ ExactInv(s)'
    BY <1>0, ExactStays DEF SInv, CursorInv, Within, Quiet
  <1>4. PendingInv(s)'
    <2>1. \A n \in published : n > last[s] => ~(n <= cursor[s].upTo)
      BY <1>0, PublishedInLog, SMT DEF TypeOK
    <2> QED
      BY <1>0, <2>1, SMT DEF SInv, PendingInv, Expected, Carries, Quiet
  <1> QED
    BY <1>1, <1>2, <1>3, <1>4 DEF SInv

(* A session with nothing. *)
LEMMA FreshInv ==
    ASSUME NEW s \in Sessions, phase'[s] \in Outside, joined'[s] = FALSE,
           receiver'[s] = NoReceiver, incoming'[s] = NoReceiver, last'[s] = 0, base'[s] = 0,
           got'[s] = [replayed |-> {}, live |-> <<>>]
    PROVE  SInv(s)'
  <1>1. PhaseInv(s)' /\ CursorInv(s)' /\ PendingInv(s)'
    BY SMT DEF PhaseInv, CursorInv, PendingInv, Within, Inside, Outside, Joining
  <1>2. Sound(receiver[s])' /\ Sound(incoming[s])'
    BY NoReceivers, SMT DEF Sound
  <1>3. ExactInv(s)'
    <2>1. got'[s].replayed = {} /\ got'[s].live = <<>> /\ Range(got'[s].live) = {}
          /\ DOMAIN got'[s].live = {}
      BY SMT DEF Range
    <2>2. base'[s] + 1 .. last'[s] = {}
      BY SMT
    <2> QED
      BY <2>1, <2>2 DEF ExactInv
  <1> QED
    BY <1>1, <1>2, <1>3 DEF SInv

LEMMA EndInv ==
    ASSUME TypeOK, NEW s \in Sessions, EndSession(s)
    PROVE  SInv(s)'
  <1>1. /\ phase'[s] \in Outside /\ joined'[s] = FALSE
        /\ receiver'[s] = NoReceiver /\ incoming'[s] = NoReceiver /\ last'[s] = 0 /\ base'[s] = 0
        /\ got'[s] = [replayed |-> {}, live |-> <<>>]
    BY DEF EndSession, Forget, TypeOK, SessionType, Outside
  <1> QED
    BY <1>1, FreshInv

(* A step of one session leaves the others as they are. *)
LEMMA OthersStay ==
    ASSUME TypeOK, NEW s \in Sessions, NEW o \in Sessions \ {s},
           \/ JoinSubscribe(s) \/ JoinReplay(s) \/ JoinReplayFails(s)
           \/ JoinReply(s) \/ JoinSnapshotFails(s)
           \/ ReceiveNext(s) \/ ReceiveAhead(s) \/ ReceiveOld(s)
           \/ ReceiveRoster(s) \/ ReceiveLagged(s)
           \/ RecoverRead(s) \/ RecoverSend(s) \/ RecoverDone(s) \/ EndSession(s)
    PROVE  Same(o) /\ Moves(o) /\ published' = published
  <1> USE DEF Same, Moves
  <1>0. SessionType
    BY DEF TypeOK
  <1>1. CASE JoinSubscribe(s)
    BY <1>0, <1>1 DEF JoinSubscribe, SessionType, room, stream
  <1>2. CASE JoinReplay(s)
    BY <1>0, <1>2 DEF JoinReplay, SessionType, room, stream
  <1>3. CASE JoinReplayFails(s)
    BY <1>0, <1>3 DEF JoinReplayFails, SessionType, room, stream
  <1>4. CASE JoinReply(s)
    BY <1>0, <1>4 DEF JoinReply, EnterRoom, SessionType, room
  <1>5. CASE JoinSnapshotFails(s)
    BY <1>0, <1>5 DEF JoinSnapshotFails, SessionType, room, stream
  <1>6. CASE ReceiveNext(s)
    BY <1>0, <1>6 DEF ReceiveNext, Pop, Deliver, SessionType, room
  <1>7. CASE ReceiveAhead(s) \/ ReceiveOld(s) \/ ReceiveRoster(s)
    BY <1>0, <1>7 DEF ReceiveAhead, ReceiveOld, ReceiveRoster, Pop, SessionType, room,
        stream
  <1>8. CASE ReceiveLagged(s) \/ RecoverRead(s) \/ RecoverDone(s)
    BY <1>0, <1>8 DEF ReceiveLagged, RecoverRead, RecoverDone, SessionType, room, stream
  <1>9. CASE RecoverSend(s)
    BY <1>0, <1>9 DEF RecoverSend, Deliver, SessionType, room
  <1>10. CASE EndSession(s)
    BY <1>0, <1>10 DEF EndSession, Forget, SessionType, room
  <1> QED
    BY <1>1, <1>2, <1>3, <1>4, <1>5, <1>6, <1>7, <1>8, <1>9, <1>10

LEMMA SInvStep ==
    ASSUME DInv, [Next]_vars, NEW o \in Sessions
    PROVE  SInv(o)'
  <1>0. TypeOK /\ SInv(o) /\ LogGrows /\ RoomType /\ SessionType /\ ActorOf[o] \in Actors
    BY RoomTypeStep, DeliveryAssumption DEF DInv, TypeOK
  <1>1. CASE Commit \/ UNCHANGED vars \/ \E p \in publishing : LosePublication(p)
    <2>1. published' = published /\ Same(o) /\ Moves(o)
      BY <1>1 DEF Commit, vars, LosePublication, stream, Same, Moves
    <2> QED
      BY <1>0, <2>1, FrameInv
  <1>2. CASE Crash
    <2>1. /\ phase'[o] \in Outside /\ joined'[o] = FALSE
          /\ receiver'[o] = NoReceiver /\ incoming'[o] = NoReceiver
          /\ last'[o] = 0 /\ base'[o] = 0
          /\ got'[o] = [replayed |-> {}, live |-> <<>>]
      BY <1>2 DEF Crash, Outside
    <2> QED
      BY <2>1, FreshInv
  <1>3. ASSUME NEW p \in publishing, Publish(p)
        PROVE  SInv(o)'
    <2>1. PICK m \in Message : m = EventMessage(p.next) /\ m.kind = "event" /\ m.seq = p.next
      BY <1>0, Messages DEF RoomType
    <2>2. /\ UNCHANGED log /\ Moves(o)
          /\ receiver'[o] = Push(receiver[o], m) /\ incoming'[o] = Push(incoming[o], m)
          /\ published' = published \cup (IF m.kind = "event" THEN {m.seq} ELSE {})
          /\ joined'[o] = joined[o] /\ cursor'[o] = cursor[o] /\ last'[o] = last[o]
          /\ base'[o] = base[o] /\ got'[o] = got[o]
      BY <1>3, <2>1 DEF Publish, Broadcast, stream, Moves
    <2> QED
      BY <1>0, <2>2, PushInv
  <1>4. ASSUME NEW s \in Sessions,
               \/ Accept(s) \/ Elapse(s) \/ Authenticate(s) \/ TurnAway(s)
               \/ ReadRoster(s, "announcing", "announced") \/ ReadRoster(s, "leaving", "left")
               \/ SkipRoster(s, "announcing", "following") \/ SkipRoster(s, "leaving", "closed")
        PROVE  SInv(o)'
    <2>1. published' = published /\ Same(o)
      BY <1>4 DEF Accept, Elapse, Authenticate, TurnAway, ReadRoster, SkipRoster, Same,
                  room, stream
    <2>2. ASSUME Elapse(s) PROVE Moves(o)
      BY <2>2 DEF Elapse, Moves
    <2>3. ASSUME ~Elapse(s) PROVE Moves(o)
      <3>1. /\ o # s => phase'[o] = phase[o]
            /\ o = s => \/ phase[s] \in Outside /\ phase'[s] \in Outside
                        \/ /\ phase[s] \in {"announcing", "announced", "following"}
                           /\ phase'[s] \in {"announcing", "announced", "following"}
        BY <1>0, <1>4, <2>3
            DEF Accept, Authenticate, TurnAway, ReadRoster, SkipRoster, SessionType, Outside
      <3> QED
        BY <3>1 DEF Moves
    <2> QED
      BY <1>0, <2>1, <2>2, <2>3, FrameInv
  <1>5. ASSUME NEW s \in Sessions,
               \/ SendRoster(s, "announced", "following", ActorOf[s])
               \/ SendRoster(s, "left", "closed", None)
        PROVE  SInv(o)'
    <2>0. ActorOf[s] \in Actors
      BY DeliveryAssumption
    <2>1. PICK exclude \in Actors \cup {None} :
            /\ Broadcast(RosterMessage(held[s], exclude))
            /\ UNCHANGED <<room, joined, cursor, stream>>
      BY <1>5, <2>0 DEF SendRoster
    <2>2. PICK m \in Message : m = RosterMessage(held[s], exclude) /\ m.kind = "roster"
      BY <1>0, RosterType
    <2>3. Moves(o)
      BY <1>0, <1>5 DEF SendRoster, Moves, SessionType, Outside
    <2>4. /\ UNCHANGED log
          /\ receiver'[o] = Push(receiver[o], m) /\ incoming'[o] = Push(incoming[o], m)
          /\ published' = published \cup (IF m.kind = "event" THEN {m.seq} ELSE {})
          /\ joined'[o] = joined[o] /\ cursor'[o] = cursor[o] /\ last'[o] = last[o]
          /\ base'[o] = base[o] /\ got'[o] = got[o]
      BY <2>1, <2>2 DEF Broadcast, room, stream
    <2> QED
      BY <1>0, <2>3, <2>4, PushInv
  <1>6. ASSUME NEW s \in Sessions,
               \/ JoinSubscribe(s) \/ JoinReplay(s) \/ JoinReplayFails(s)
               \/ JoinReply(s) \/ JoinSnapshotFails(s)
               \/ ReceiveNext(s) \/ ReceiveAhead(s) \/ ReceiveOld(s)
               \/ ReceiveRoster(s) \/ ReceiveLagged(s)
               \/ RecoverRead(s) \/ RecoverSend(s) \/ RecoverDone(s) \/ EndSession(s)
        PROVE  SInv(o)'
    <2>1. CASE o = s
      BY <1>0, <1>6, <2>1, SubscribeInv, ReplayInv, JoinFailsInv, ReplyInv, ReceiveNextInv,
         ReceiveOtherInv, LaggedInv, RecoverReadInv, RecoverSendInv, RecoverDoneInv, EndInv
    <2>2. CASE o # s
      BY <1>0, <1>6, <2>2, OthersStay, FrameInv
    <2> QED
      BY <2>1, <2>2
  <1> QED
    BY <1>1, <1>2, <1>3, <1>4, <1>5, <1>6, NextCases DEF Leave, Expire


-------------------------------------------------------------------------------
(* The presence map.                                                       *)

Members(a) == {s \in Sessions : ActorOf[s] = a /\ Registered(s)}

LEMMA MembersFinite ==
    ASSUME NEW a \in Actors
    PROVE  /\ IsFiniteSet(Members(a)) /\ Cardinality(Members(a)) \in Nat
  <1>1. IsFiniteSet(Sessions) /\ Members(a) \subseteq Sessions
    BY DeliveryAssumption DEF Members
  <1> QED
    BY <1>1, FS_Subset, FS_CardinalityType

LEMMA PresenceStays ==
    ASSUME PresenceCounts, connections' = connections,
           \A s \in Sessions : Registered(s)' <=> Registered(s)
    PROVE  PresenceCounts'
  <1>1. \A a \in Actors : Members(a)' = Members(a)
    BY DEF Members
  <1>2. \A a \in Actors : connections[a] = Cardinality(Members(a))
    BY DEF PresenceCounts, Members
  <1>3. \A a \in Actors : connections'[a] = Cardinality(Members(a)')
    BY <1>1, <1>2
  <1> QED
    BY <1>3 DEF PresenceCounts, Members

LEMMA PresenceGains ==
    ASSUME TypeOK, PresenceCounts, NEW s \in Sessions, ~Registered(s), Registered(s)',
           \A o \in Sessions \ {s} : Registered(o)' <=> Registered(o),
           connections' = Connect(ActorOf[s])
    PROVE  PresenceCounts'
  <1>0. ActorOf[s] \in Actors /\ connections \in [Actors -> Nat]
    BY DeliveryAssumption DEF TypeOK, PresenceType
  <1>1. ASSUME NEW a \in Actors
        PROVE  connections'[a] = Cardinality(Members(a)')
    <2>1. connections[a] = Cardinality(Members(a)) /\ connections[a] \in Nat
      BY <1>0 DEF PresenceCounts, Members
    <2>2. CASE a = ActorOf[s]
      <3>1. Members(a)' = Members(a) \cup {s} /\ s \notin Members(a)
        BY <2>2 DEF Members
      <3>2. Cardinality(Members(a) \cup {s}) = Cardinality(Members(a)) + 1
        BY <3>1, MembersFinite, FS_AddElement
      <3>3. connections'[a] = connections[a] + 1
        BY <1>0, <2>2 DEF Connect
      <3> QED
        BY <2>1, <3>1, <3>2, <3>3
    <2>3. CASE a # ActorOf[s]
      <3>1. Members(a)' = Members(a)
        BY <2>3 DEF Members
      <3>2. connections'[a] = connections[a]
        BY <1>0, <2>3 DEF Connect
      <3> QED
        BY <2>1, <3>1, <3>2
    <2> QED
      BY <2>2, <2>3
  <1> QED
    BY <1>1 DEF PresenceCounts, Members

LEMMA PresenceLoses ==
    ASSUME TypeOK, PresenceCounts, NEW s \in Sessions, Registered(s), ~Registered(s)',
           \A o \in Sessions \ {s} : Registered(o)' <=> Registered(o),
           connections' = Disconnect(ActorOf[s])
    PROVE  PresenceCounts'
  <1>0. ActorOf[s] \in Actors /\ connections \in [Actors -> Nat]
    BY DeliveryAssumption DEF TypeOK, PresenceType
  <1>1. ASSUME NEW a \in Actors
        PROVE  connections'[a] = Cardinality(Members(a)')
    <2>1. connections[a] = Cardinality(Members(a)) /\ connections[a] \in Nat
      BY <1>0 DEF PresenceCounts, Members
    <2>2. CASE a = ActorOf[s]
      <3>1. Members(a)' = Members(a) \ {s} /\ s \in Members(a)
        BY <2>2 DEF Members
      <3>2. Cardinality(Members(a) \ {s}) = Cardinality(Members(a)) - 1
        BY <3>1, MembersFinite, FS_RemoveElement
      <3>3. Members(a) \ {s} \subseteq Members(a)
        OBVIOUS
      <3>4. Cardinality(Members(a) \ {s}) \in Nat
        BY <3>3, MembersFinite, FS_Subset, FS_CardinalityType
      <3>5. connections[a] >= 1
        BY <2>1, <3>2, <3>4, SMT
      <3>6. connections'[a] = IF connections[a] > 1 THEN connections[a] - 1 ELSE 0
        BY <1>0, <2>2 DEF Disconnect
      <3>7. connections'[a] = connections[a] - 1
        BY <2>1, <3>5, <3>6, SMT
      <3> QED
        BY <2>1, <3>1, <3>2, <3>7
    <2>3. CASE a # ActorOf[s]
      <3>1. Members(a)' = Members(a)
        BY <2>3 DEF Members
      <3>2. connections'[a] = connections[a]
        BY <1>0, <2>3 DEF Disconnect
      <3> QED
        BY <2>1, <3>1, <3>2
    <2> QED
      BY <2>2, <2>3
  <1> QED
    BY <1>1 DEF PresenceCounts, Members

LEMMA PresenceStep ==
    ASSUME DInv, PresenceCounts, [Next]_vars
    PROVE  PresenceCounts'
  <1>0. TypeOK /\ SessionType
    BY DEF DInv, TypeOK
  <1>1. CASE /\ connections' = connections
             /\ \A s \in Sessions : joined'[s] = joined[s] /\ Moves(s)
    <2>1. \A s \in Sessions : phase'[s] = "snapshot" <=> phase[s] = "snapshot"
      BY <1>1 DEF Moves, Outside
    <2>2. \A s \in Sessions : Registered(s)' <=> Registered(s)
      BY <1>1, <2>1 DEF Registered
    <2> QED
      BY <1>1, <2>2, PresenceStays
  <1>2. CASE Commit \/ UNCHANGED vars \/ \E p \in publishing : Publish(p) \/ LosePublication(p)
    BY <1>1, <1>2 DEF Commit, vars, Publish, LosePublication, roster, Moves
  <1>3. CASE Crash
    <2>1. \A a \in Actors : Members(a)' = {} /\ connections'[a] = 0
      BY <1>3 DEF Crash, Members, Registered
    <2>2. \A a \in Actors : connections'[a] = Cardinality(Members(a)')
      BY <2>1, FS_EmptySet
    <2> QED
      BY <2>2 DEF PresenceCounts, Members
  <1>4. ASSUME NEW s \in Sessions,
               \/ Accept(s) \/ Elapse(s) \/ Authenticate(s) \/ TurnAway(s)
               \/ ReadRoster(s, "announcing", "announced") \/ ReadRoster(s, "leaving", "left")
               \/ SkipRoster(s, "announcing", "following") \/ SkipRoster(s, "leaving", "closed")
        PROVE  PresenceCounts'
    <2>1. connections' = connections /\ joined' = joined
      BY <1>4 DEF Accept, Elapse, Authenticate, TurnAway, ReadRoster, SkipRoster, roster
    <2>2. ASSUME NEW o \in Sessions PROVE phase'[o] = "snapshot" <=> phase[o] = "snapshot"
      BY <1>0, <1>4
          DEF Accept, Elapse, Authenticate, TurnAway, ReadRoster, SkipRoster, SessionType
    <2>3. \A o \in Sessions : Registered(o)' <=> Registered(o)
      BY <2>1, <2>2 DEF Registered
    <2> QED
      BY <2>1, <2>3, PresenceStays
  <1>5. ASSUME NEW s \in Sessions,
               \/ SendRoster(s, "announced", "following", ActorOf[s])
               \/ SendRoster(s, "left", "closed", None)
        PROVE  PresenceCounts'
    <2>1. connections' = connections /\ joined' = joined
      BY <1>5 DEF SendRoster
    <2>2. ASSUME NEW o \in Sessions PROVE phase'[o] = "snapshot" <=> phase[o] = "snapshot"
      BY <1>0, <1>5 DEF SendRoster, SessionType
    <2>3. \A o \in Sessions : Registered(o)' <=> Registered(o)
      BY <2>1, <2>2 DEF Registered
    <2> QED
      BY <2>1, <2>3, PresenceStays
  <1>6. ASSUME NEW s \in Sessions,
               \/ JoinSubscribe(s) \/ JoinReplay(s) \/ JoinReplayFails(s)
               \/ JoinReply(s) \/ JoinSnapshotFails(s)
               \/ ReceiveNext(s) \/ ReceiveAhead(s) \/ ReceiveOld(s)
               \/ ReceiveRoster(s) \/ ReceiveLagged(s)
               \/ RecoverRead(s) \/ RecoverSend(s) \/ RecoverDone(s) \/ Leave(s) \/ Expire(s)
        PROVE  PresenceCounts'
    <2>0. \A o \in Sessions \ {s} : Registered(o)' <=> Registered(o)
      <3>1. \A o \in Sessions \ {s} : Same(o) /\ Moves(o)
        BY <1>0, <1>6, OthersStay DEF Leave, Expire
      <3> QED
        BY <3>1 DEF Registered, Same, Moves, Outside
    <2>1. CASE JoinReplay(s) /\ ~joined[s]
      <3>1. ~Registered(s) /\ Registered(s)' /\ connections' = Connect(ActorOf[s])
        BY <1>0, <2>1 DEF JoinReplay, Registered, SessionType
      <3> QED
        BY <1>0, <2>0, <3>1, PresenceGains
    <2>2. CASE \/ JoinSnapshotFails(s) /\ ~joined[s]
               \/ (Leave(s) \/ Expire(s)) /\ joined[s]
      <3>1. Registered(s) /\ ~Registered(s)' /\ connections' = Disconnect(ActorOf[s])
        BY <1>0, <2>2 DEF JoinSnapshotFails, Loop, Leave, Expire, EndSession, Forget,
                          Registered, SessionType
      <3> QED
        BY <1>0, <2>0, <3>1, PresenceLoses
    <2>3. CASE \/ (JoinReplay(s) \/ JoinSnapshotFails(s)) /\ joined[s]
               \/ (Leave(s) \/ Expire(s)) /\ ~joined[s]
               \/ JoinReply(s) \/ JoinSubscribe(s) \/ JoinReplayFails(s)
      <3>1. connections' = connections
        BY <2>3 DEF JoinReplay, JoinSnapshotFails, Leave, Expire, EndSession, JoinReply,
                    JoinSubscribe, JoinReplayFails, roster
      <3>2. Registered(s)' <=> Registered(s)
        BY <1>0, <2>3 DEF JoinReplay, JoinSnapshotFails, Leave, Expire, EndSession, Forget,
                    JoinReply, EnterRoom, JoinSubscribe, JoinReplayFails, Loop, Registered,
                    SessionType
      <3> QED
        BY <2>0, <3>1, <3>2, PresenceStays
    <2>4. CASE \/ ReceiveNext(s) \/ ReceiveAhead(s) \/ ReceiveOld(s)
               \/ ReceiveRoster(s) \/ ReceiveLagged(s)
               \/ RecoverRead(s) \/ RecoverSend(s) \/ RecoverDone(s)
      <3>1. connections' = connections
        BY <2>4 DEF ReceiveNext, ReceiveAhead, ReceiveOld, ReceiveRoster, ReceiveLagged,
                    RecoverRead, RecoverSend, RecoverDone, roster
      <3>2. Registered(s)' <=> Registered(s)
        BY <1>0, <2>4 DEF ReceiveNext, ReceiveAhead, ReceiveOld, ReceiveRoster,
            ReceiveLagged,
                    RecoverRead, RecoverSend, RecoverDone, Receives, Registered, SessionType
      <3> QED
        BY <2>0, <3>1, <3>2, PresenceStays
    <2> QED
      BY <1>6, <2>1, <2>2, <2>3, <2>4
  <1> QED
    BY <1>2, <1>3, <1>4, <1>5, <1>6, NextCases

-------------------------------------------------------------------------------
(* The theorems.                                                           *)

LEMMA DInvInit == Init => DInv /\ PresenceCounts
  <1> SUFFICES ASSUME Init PROVE DInv /\ PresenceCounts
    OBVIOUS
  <1>1. RoomType /\ PresenceType
    BY SMT DEF Init, RoomType, PresenceType
  <1>2. SessionType
    BY NoReceivers, SMT DEF Init, SessionType, NoCursor, Got, Inside, Outside, Joining
  <1>3. ASSUME NEW s \in Sessions
        PROVE  SInv(s)
    <2>1. /\ phase[s] = "closed" /\ ~joined[s] /\ receiver[s] = NoReceiver
          /\ incoming[s] = NoReceiver /\ last[s] = 0 /\ base[s] = 0
          /\ got[s] = [replayed |-> {}, live |-> <<>>]
      BY DEF Init
    <2>2. PhaseInv(s) /\ CursorInv(s) /\ PendingInv(s)
      BY <2>1, SMT DEF PhaseInv, CursorInv, PendingInv, Within, Inside, Outside, Joining
    <2>3. Sound(receiver[s]) /\ Sound(incoming[s])
      BY <2>1, EmptySound
    <2>4. got[s].replayed = {} /\ got[s].live = <<>> /\ Range(got[s].live) = {}
          /\ DOMAIN got[s].live = {}
      BY <2>1, SMT DEF Range
    <2>5. base[s] + 1 .. last[s] = {}
      BY <2>1, SMT
    <2> QED
      BY <2>2, <2>3, <2>4, <2>5 DEF SInv, ExactInv
  <1>4. PresenceCounts
    <2>1. \A a \in Actors : Members(a) = {} /\ connections[a] = 0
      BY DEF Init, Members, Registered
    <2> QED
      BY <2>1, FS_EmptySet DEF PresenceCounts, Members
  <1> QED
    BY <1>1, <1>2, <1>3, <1>4 DEF DInv, TypeOK

(* The types of the session, the room and the presence map, and what each  *)
(* session's subscription, cursors and stream owe to each other at every   *)
(* phase of websocket_session, hold in every reachable state.              *)
THEOREM InvariantHolds == Spec => [](DInv /\ PresenceCounts)
  <1>1. DInv /\ PresenceCounts /\ [Next]_vars => (DInv /\ PresenceCounts)'
    <2> SUFFICES ASSUME DInv, PresenceCounts, [Next]_vars
                 PROVE  DInv' /\ PresenceCounts'
      OBVIOUS
    <2>1. TypeOK'
      BY TypeStep DEF DInv
    <2>2. \A s \in Sessions : SInv(s)'
      BY SInvStep
    <2>3. PresenceCounts'
      BY PresenceStep
    <2> QED
      BY <2>1, <2>2, <2>3 DEF DInv
  <1> QED
    BY <1>1, DInvInit, PTL DEF Spec

(* For any number of sockets and events and any channel capacity, a joined *)
(* client has been sent exactly the events after its cursor that it may    *)
(* see, in order and once (websocket_session, replay_in_order).            *)
THEOREM StreamsExact == Spec => []StreamIsExact
  <1>1. DInv => StreamIsExact
    BY DEF DInv, SInv, ExactInv, StreamIsExact
  <1> QED
    BY <1>1, InvariantHolds, PTL

(* A published event that a joined session is not past is queued for it,   *)
(* or its receiver lagged, or a recovery that covers it is due: nothing    *)
(* falls between the replay and the subscription (handle_message,          *)
(* room_channel, replay_in_order).                                         *)
THEOREM NothingLost == Spec => []NothingForgotten
  <1>1. DInv => NothingForgotten
    BY DEF DInv, SInv, PendingInv, NothingForgotten
  <1> QED
    BY <1>1, InvariantHolds, PTL

(* The presence map counts the joined connections of every actor, through  *)
(* rejoins, failed joins and every end of a session (register_participant, *)
(* unregister_participant, cleanup_presence).                              *)
THEOREM PresenceExact == Spec => []PresenceCounts
  BY InvariantHolds, PTL
===============================================================================

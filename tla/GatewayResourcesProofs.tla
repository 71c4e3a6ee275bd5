------------------------ MODULE GatewayResourcesProofs ------------------------
(***************************************************************************)
(* Proofs about GatewayResources, for any number of requests, any size of  *)
(* the pool and of the queue: the types, that only the pool stalls the     *)
(* handlers, and that the engine follows the commits.                      *)
(*                                                                         *)
(* HandlersInv says what a request has at its point of its program: its    *)
(* connections, its locks, its write.  DispatchInv says how far the events *)
(* of a write have come: those the client has taken from the queue are     *)
(* earlier than those in the queue, which are earlier than those that the  *)
(* request has yet to enqueue.                                             *)
(***************************************************************************)
EXTENDS GatewayResources, FiniteSetTheorems, TLAPS

(* Most leaves are first-order: Zenon takes them.  A leaf that needs       *)
(* arithmetic or the theory of functions and sequences cites SMT.          *)
USE Zenon

(* Where a program commits. *)
CommitAt(kind) ==
    CASE kind \in {"chat", "action_items"} -> 5
      [] kind \in {"agent_claim", "agent_update", "turn", "turn_claim"} -> 4
      [] kind \in {"process", "edit", "turn_update"} -> 3
      [] kind = "read" -> 2

(* The locks are taken in this order. *)
Level(l) == CASE l = "agent" -> 1 [] l = "row" -> 2 [] l = "claim" -> 3 [] l = "room" -> 4

HandlersTypes ==
    /\ running \in [Requests ->
            [kind : Kinds \cup {None}, done : 0 .. 9, write : 0 .. MaxWrites]]
    /\ connected \in [Requests -> 0 .. 2]
    /\ lock \in [Locks -> Requests \cup {None}]
    /\ writes \in 0 .. MaxWrites
    /\ committed \subseteq 1 .. writes

(* How many connections a program has after its first d steps. *)
ConnectionsAt(kind, d) ==
    IF d = 0 \/ d >= CommitAt(kind) THEN 0
    ELSE IF Program(kind)[d] = "second" THEN 2 ELSE 1

(* Does a program keep a lock after its first d steps? *)
KeepsAt(kind, d, l) ==
    d < CommitAt(kind) /\ \E i \in 1 .. d : Program(kind)[i] = l

(* A request at its point of its program. *)
OnItsWay(r) ==
    LET x == running[r]
    IN  /\ x.done < Len(Program(x.kind))
        /\ connected[r] = ConnectionsAt(x.kind, x.done)
        /\ IF Publishes(x.kind) THEN x.write \in 1 .. writes ELSE x.write = 0
        /\ x.write # 0 => (x.write \in committed <=> x.done >= CommitAt(x.kind))

HandlersInv ==
    /\ HandlersTypes
    /\ Used <= Connections
    /\ \A r \in Active : OnItsWay(r)
    /\ \A r \in Requests \ Active : running[r] = Idle /\ connected[r] = 0
    /\ \A l \in Locks, r \in Requests :
        lock[l] = r <=> r \in Active /\ KeepsAt(running[r].kind, running[r].done, l)
    /\ \A r, q \in Active : running[r].write = running[q].write /\ running[r].write # 0 => r = q

DispatchTypes ==
    /\ queue \in Seq(Event) /\ Len(queue) <= Capacity
    /\ posting \in Event \cup {NoEvent}
    /\ sent \subseteq Event
    /\ received \subseteq Event

(* What the client has taken from the queue. *)
Taken(e) ==
    \/ e \in sent
    \/ e \in received
    \/ e = posting /\ posting # NoEvent

Enqueued(e) == Taken(e) \/ \E i \in DOMAIN queue : e = queue[i]

(* e is an earlier event than f, if they are of the same write. *)
Precedes(e, f) == e.write = f.write => e.n < f.n

DispatchInv ==
    /\ DispatchTypes
    /\ \A e \in Event : Enqueued(e) =>
        /\ e.write \in committed
        /\ \A r \in Active : e.write = running[r].write =>
            e.n <= running[r].done - CommitAt(running[r].kind)
    /\ \A i, j \in DOMAIN queue : i < j => Precedes(queue[i], queue[j])
    /\ \A e \in Event : Taken(e) => \A i \in DOMAIN queue : Precedes(e, queue[i])
    /\ \A e \in Event : Taken(e) /\ posting # NoEvent => e = posting \/ Precedes(e, posting)
    /\ sent \cap received = {}

Inv == HandlersInv /\ DispatchInv

-------------------------------------------------------------------------------
(* The programs.                                                           *)

Steps == {"connect", "second", "return", "catalog", "commit", "enqueue"} \cup Locks

AnyKind == {"chat", "action_items", "edit", "process", "agent_claim", "agent_update",
            "turn", "turn_claim", "turn_update", "read"}

(* A program connects first, commits once and only then enqueues, takes    *)
(* its locks in order, and gives its second connection back at once.       *)
Shaped(p, c) ==
    /\ p \in Seq(Steps) /\ Len(p) \in 2 .. 9
    /\ c \in 2 .. Len(p) /\ Len(p) <= c + 4
    /\ \A i \in DOMAIN p :
        /\ p[i] = "connect" <=> i = 1
        /\ p[i] = "commit" <=> i = c
        /\ p[i] = "enqueue" <=> i > c
        /\ p[i] = "second" => p[i + 1] = "return" /\ i + 1 < c
        /\ p[i] = "return" => p[i - 1] = "second"
    /\ \A i, j \in DOMAIN p : i < j /\ p[i] \in Locks /\ p[j] \in Locks => Level(p[i]) < Level(p[j])

LEMMA ProgramShape ==
  ASSUME NEW kind \in AnyKind
  PROVE  /\ Shaped(Program(kind), CommitAt(kind))
         /\ ~Publishes(kind) => CommitAt(kind) = Len(Program(kind))
  <1>1. CASE kind = "chat"
    BY <1>1, SMT DEF Program, ChatProgram, CommitAt, Shaped, Steps, Locks, Level, Publishes
  <1>2. CASE kind = "process"
    BY <1>2, SMT DEF Program, CommitAt, Shaped, Steps, Locks, Level, Publishes
  <1>3. CASE kind = "agent_claim"
    BY <1>3, SMT DEF Program, CommitAt, Shaped, Steps, Locks, Level, Publishes
  <1>4. CASE kind = "agent_update"
    BY <1>4, SMT DEF Program, CommitAt, Shaped, Steps, Locks, Level, Publishes
  <1>5. CASE kind = "turn"
    BY <1>5, SMT DEF Program, CommitAt, Shaped, Steps, Locks, Level, Publishes
  <1>6. CASE kind = "turn_claim"
    BY <1>6, SMT DEF Program, CommitAt, Shaped, Steps, Locks, Level, Publishes
  <1>7. CASE kind = "turn_update"
    BY <1>7, SMT DEF Program, UpdateProgram, CommitAt, Shaped, Steps, Locks, Level, Publishes
  <1>8. CASE kind = "read"
    BY <1>8, SMT DEF Program, CommitAt, Shaped, Steps, Locks, Level, Publishes
  <1>9. CASE kind = "action_items"
    BY <1>9, SMTT(60) DEF Program, ActionItemsProgram, CommitAt, Shaped, Steps, Locks, Level, Publishes
  <1>10. CASE kind = "edit"
    BY <1>10, SMT DEF Program, EditProgram, CommitAt, Shaped, Steps, Locks, Level, Publishes
  <1> QED
    BY <1>1, <1>2, <1>3, <1>4, <1>5, <1>6, <1>7, <1>8, <1>9, <1>10 DEF AnyKind

-------------------------------------------------------------------------------
(* The pool.                                                               *)

LEMMA PoolFinite ==
  /\ IsFiniteSet(InUse) /\ Used \in Nat
  /\ IsFiniteSet(InUse)' /\ Used' \in Nat
  <1>1. IsFiniteSet(Requests \X (1 .. 2))
    <2>1. IsFiniteSet(1 .. 2)
      <3>1. 1 \in Int /\ 2 \in Int
        BY SMT
      <3> QED
        BY <3>1, FS_Interval
    <2> QED
      BY <2>1, FS_Product, HandlersAssumption
  <1>2. InUse \in SUBSET (Requests \X (1 .. 2)) /\ InUse' \in SUBSET (Requests \X (1 .. 2))
    BY DEF InUse
  <1> QED
    BY <1>1, <1>2, FS_Subset, FS_CardinalityType DEF Used

LEMMA PoolShrinks ==
  ASSUME connected \in [Requests -> 0 .. 2], connected' \in [Requests -> 0 .. 2],
         \A r \in Requests : connected'[r] <= connected[r]
  PROVE  Used' <= Used
  <1>1. InUse' \in SUBSET InUse
    BY SMT DEF InUse
  <1> QED
    BY <1>1, PoolFinite, FS_Subset DEF Used

LEMMA PoolGrows ==
  ASSUME connected \in [Requests -> 0 .. 2], NEW r \in Requests, connected[r] < 2,
         connected' = [connected EXCEPT ![r] = @ + 1]
  PROVE  Used' = Used + 1
  <1> DEFINE x == <<r, connected[r] + 1>>
  <1>1. InUse' = InUse \cup {x}
    <2>1. ASSUME NEW q \in Requests, NEW n \in 1 .. 2
          PROVE  n <= connected'[q] <=> (n <= connected[q] \/ <<q, n>> = x)
      <3>1. CASE q = r
        BY <3>1, SMT
      <3>2. CASE q # r
        BY <3>2
      <3> QED
        BY <3>1, <3>2
    <2>2. x \in Requests \X (1 .. 2)
      BY SMT
    <2> HIDE DEF x
    <2> QED
      BY <2>1, <2>2, SMT DEF InUse
  <1>2. x \notin InUse
    BY SMT DEF InUse
  <1> HIDE DEF x
  <1> QED
    BY <1>1, <1>2, PoolFinite, FS_AddElement DEF Used

-------------------------------------------------------------------------------
(* The handlers.                                                           *)

LEMMA ActiveKind ==
  ASSUME HandlersInv, NEW r \in Active
  PROVE  /\ r \in Requests /\ r # None /\ OnItsWay(r)
         /\ running[r].kind \in Kinds /\ running[r].kind \in AnyKind /\ running[r].kind # None
         /\ running[r].done \in 0 .. 8
         /\ Shaped(Program(running[r].kind), CommitAt(running[r].kind))
  <1>1. r \in Requests /\ OnItsWay(r) /\ running[r].kind # None
    BY DEF HandlersInv, Active
  <1>2. running[r].kind \in Kinds
    BY <1>1, SMT DEF HandlersInv, HandlersTypes
  <1>3. running[r].kind \in AnyKind
    BY <1>2, HandlersAssumption DEF AnyKind
  <1>4. Shaped(Program(running[r].kind), CommitAt(running[r].kind))
    BY <1>3, ProgramShape
  <1>5. running[r].done \in 0 .. 8
    <2> DEFINE d == running[r].done
               n == Len(Program(running[r].kind))
    <2>1. d \in 0 .. 9
      BY <1>1 DEF HandlersInv, HandlersTypes
    <2>2. d < n
      BY <1>1 DEF OnItsWay
    <2>3. n \in 2 .. 9
      BY <1>4 DEF Shaped
    <2> HIDE DEF d, n
    <2>4. d \in 0 .. 8
      BY <2>1, <2>2, <2>3, SMT
    <2> QED
      BY <2>4 DEF d
  <1> QED
    BY <1>1, <1>2, <1>3, <1>4, <1>5, HandlersAssumption

(* What a step of a program does to what its request has. *)
StepEffect(r) ==
    LET x == running[r]
        p == Program(x.kind)
        c == CommitAt(x.kind)
    IN  /\ Advance(r)
        /\ connected' = [connected EXCEPT ![r] = ConnectionsAt(x.kind, x.done + 1)]
        /\ lock' \in [Locks -> Requests \cup {None}]
        /\ \A l \in Locks :
            lock'[l] = IF p[x.done + 1] = l THEN r
                       ELSE IF x.done + 1 = c /\ lock[l] = r THEN None ELSE lock[l]
        /\ \A l \in Locks : p[x.done + 1] = l => lock[l] = None
        /\ writes' = writes
        /\ committed' = IF x.done + 1 = c /\ x.write # 0
                        THEN committed \cup {x.write} ELSE committed

(* Where the requests are after a step of one of them. *)
LEMMA Advanced ==
  ASSUME HandlersInv, NEW r \in Active, Advance(r)
  PROVE  /\ running' \in [Requests ->
                [kind : Kinds \cup {None}, done : 0 .. 9, write : 0 .. MaxWrites]]
         /\ \A q \in Requests \ {r} : running'[q] = running[q] /\ (q \in Active' <=> q \in Active)
         /\ running[r].done + 1 = Len(Program(running[r].kind)) =>
                running'[r] = Idle /\ r \notin Active'
         /\ running[r].done + 1 # Len(Program(running[r].kind)) =>
                /\ r \in Active'
                /\ running'[r].kind = running[r].kind
                /\ running'[r].done = running[r].done + 1
                /\ running'[r].write = running[r].write
                /\ running'[r].done < Len(Program(running[r].kind))
  <1> DEFINE x == running[r]
             y == [x EXCEPT !.done = @ + 1]
             T == [kind : Kinds \cup {None}, done : 0 .. 9, write : 0 .. MaxWrites]
  <1>1. r \in Requests /\ x \in T /\ running \in [Requests -> T] /\ x.kind # None
        /\ x.done \in 0 .. 8 /\ x.done < Len(Program(x.kind))
        /\ Len(Program(x.kind)) \in Nat
    BY ActiveKind, SMT DEF HandlersInv, HandlersTypes, OnItsWay, Shaped
  <1>2. y \in T /\ y.kind = x.kind /\ y.done = x.done + 1 /\ y.write = x.write
    BY <1>1, SMT
  <1>3. Idle \in T /\ Idle.kind = None
    BY HandlersAssumption, SMT DEF Idle
  <1>4. running' = [running EXCEPT ![r] = IF x.done + 1 = Len(Program(x.kind)) THEN Idle ELSE y]
    BY DEF Advance
  <1> HIDE DEF x, y, T
  <1>5. running' \in [Requests -> T]
        /\ running'[r] = (IF x.done + 1 = Len(Program(x.kind)) THEN Idle ELSE y)
        /\ \A q \in Requests \ {r} : running'[q] = running[q]
    BY <1>1, <1>2, <1>3, <1>4
  <1>6. \A q \in Requests \ {r} : q \in Active' <=> q \in Active
    BY <1>5 DEF Active
  <1>7. CASE x.done + 1 = Len(Program(x.kind))
    BY <1>1, <1>3, <1>5, <1>6, <1>7 DEF Active, x, T
  <1>8. CASE x.done + 1 # Len(Program(x.kind))
    <2>1. running'[r] = y
      BY <1>5, <1>8
    <2>2. r \in Active'
      BY <1>1, <1>2, <2>1 DEF Active
    <2>3. x.done + 1 < Len(Program(x.kind))
      BY <1>1, <1>8, SMT
    <2> QED
      BY <1>2, <1>5, <1>6, <1>8, <2>1, <2>2, <2>3 DEF x, T
  <1> QED
    BY <1>7, <1>8

LEMMA ConnectionsType ==
  ASSUME NEW kind, NEW d
  PROVE  ConnectionsAt(kind, d) \in 0 .. 2
  BY SMT DEF ConnectionsAt

(* A program's step keeps the handlers' invariant. *)
LEMMA StepInv ==
  ASSUME HandlersInv, NEW r \in Active, StepEffect(r), Used' <= Connections
  PROVE  HandlersInv'
  <1> DEFINE x == running[r]
             k == x.kind
             d == x.done
             p == Program(k)
             c == CommitAt(k)
  <1>1. /\ r \in Requests /\ r # None
        /\ d \in 0 .. 8 /\ d < Len(p) /\ Len(p) \in Nat /\ c \in Nat /\ c <= Len(p)
        /\ Shaped(p, c)
        /\ k \in AnyKind
    <2>1. r \in Requests /\ r # None /\ d \in 0 .. 8 /\ Shaped(p, c) /\ k \in AnyKind
      BY ActiveKind
    <2>2. d < Len(p)
      BY ActiveKind DEF OnItsWay
    <2>3. Len(p) \in Nat /\ c \in Nat /\ c <= Len(p)
      BY <2>1, SMT DEF Shaped
    <2> QED
      BY <2>1, <2>2, <2>3
  <1>2. /\ \A q \in Requests \ {r} : running'[q] = running[q] /\ (q \in Active' <=> q \in Active)
        /\ d + 1 = Len(p) => running'[r] = Idle /\ r \notin Active'
        /\ d + 1 # Len(p) =>
                /\ r \in Active'
                /\ running'[r].kind = k
                /\ running'[r].done = d + 1
                /\ running'[r].write = x.write
                /\ running'[r].done < Len(p)
        /\ running' \in [Requests ->
                [kind : Kinds \cup {None}, done : 0 .. 9, write : 0 .. MaxWrites]]
    BY Advanced DEF StepEffect
  <1>3. /\ connected' = [connected EXCEPT ![r] = ConnectionsAt(k, d + 1)]
        /\ lock' \in [Locks -> Requests \cup {None}]
        /\ \A l \in Locks :
            lock'[l] = IF p[d + 1] = l THEN r
                       ELSE IF d + 1 = c /\ lock[l] = r THEN None ELSE lock[l]
        /\ \A l \in Locks : p[d + 1] = l => lock[l] = None
        /\ writes' = writes
        /\ committed' = IF d + 1 = c /\ x.write # 0
                        THEN committed \cup {x.write} ELSE committed
    BY DEF StepEffect
  <1>4. /\ connected \in [Requests -> 0 .. 2] /\ writes \in 0 .. MaxWrites
        /\ committed \subseteq 1 .. writes
        /\ x.write \in 0 .. MaxWrites
    BY <1>1 DEF HandlersInv, HandlersTypes
  <1>5. /\ x.write = 0 \/ x.write \in 1 .. writes
        /\ x.write # 0 => (x.write \in committed <=> d >= c)
        /\ IF Publishes(k) THEN x.write \in 1 .. writes ELSE x.write = 0
    BY ActiveKind DEF OnItsWay
  <1> HIDE DEF x, k, d, p, c
  <1>6. HandlersTypes'
    BY <1>1, <1>2, <1>3, <1>4, <1>5, ConnectionsType DEF HandlersTypes
  <1>7. ASSUME NEW q \in Active' PROVE OnItsWay(q)'
    <2>1. CASE q = r
      <3>1. d + 1 # Len(p) /\ running'[q].kind = k /\ running'[q].done = d + 1
            /\ running'[q].write = x.write /\ d + 1 < Len(p)
        BY <1>1, <1>2, <2>1
      <3>2. connected'[q] = ConnectionsAt(k, d + 1)
        BY <1>1, <1>3, <1>4, <2>1
      <3>3. x.write # 0 => (x.write \in committed' <=> d + 1 >= c)
        BY <1>1, <1>3, <1>5, SMT
      <3> QED
        BY <3>1, <3>2, <3>3, <1>3, <1>5 DEF OnItsWay, p, c
    <2>2. CASE q # r
      <3>1. q \in Active /\ q \in Requests /\ running'[q] = running[q]
        BY <2>2, <1>2 DEF Active
      <3>2. OnItsWay(q) /\ connected'[q] = connected[q]
        BY <3>1, <2>2, <1>3, <1>4 DEF HandlersInv
      <3>3. running[q].write # 0 => running[q].write # x.write
        BY <3>1, <2>2 DEF HandlersInv, x
      <3>4. running[q].write # 0 =>
                (running[q].write \in committed' <=> running[q].write \in committed)
        BY <3>3, <1>3
      <3> QED
        BY <3>1, <3>2, <3>4, <1>3 DEF OnItsWay
    <2> QED
      BY <2>1, <2>2
  <1>8. ASSUME NEW q \in Requests, q \notin Active'
        PROVE  running'[q] = Idle /\ connected'[q] = 0
    <2>1. CASE q = r
      <3>1. d + 1 = Len(p) /\ running'[q] = Idle
        BY <1>2, <1>8, <2>1
      <3>2. connected'[q] = ConnectionsAt(k, d + 1) /\ d + 1 >= c
        BY <3>1, <1>1, <1>3, <1>4, <2>1
      <3> QED
        BY <3>1, <3>2 DEF ConnectionsAt, c
    <2>2. CASE q # r
      BY <2>2, <1>2, <1>3, <1>4, <1>8, SMT DEF HandlersInv
    <2> QED
      BY <2>1, <2>2
  <1>9. ASSUME NEW l \in Locks, NEW q \in Requests
        PROVE  lock'[l] = q <=> q \in Active' /\ KeepsAt(running'[q].kind, running'[q].done, l)
    <2>1. lock[l] = q <=> q \in Active /\ KeepsAt(running[q].kind, running[q].done, l)
      BY DEF HandlersInv
    <2>2. CASE q # r
      <3>1. lock'[l] = q <=> lock[l] = q
        <4>1. q # None
          BY HandlersAssumption
        <4> QED
          BY <2>2, <1>3, <4>1
      <3> QED
        BY <2>1, <2>2, <3>1, <1>2
    <2>3. CASE q = r
      <3>1. lock[l] = r <=> d < c /\ \E i \in 1 .. d : p[i] = l
        BY <2>1, <2>3 DEF KeepsAt, c, d, k, x, p
      <3>2. l # "commit" /\ l # "enqueue"
        BY DEF Locks
      <3>3. p[d + 1] = l => d + 1 < c
        BY <3>2, <1>1, SMT DEF Shaped
      <3>4. lock'[l] = r <=> d + 1 < c /\ \E i \in 1 .. d + 1 : p[i] = l
        <4>1. CASE p[d + 1] = l
          BY <4>1, <3>3, <1>1, <1>3, SMT
        <4>2. CASE p[d + 1] # l
          <5>1. (\E i \in 1 .. d + 1 : p[i] = l) <=> (\E i \in 1 .. d : p[i] = l)
            BY <4>2, <1>1, SMT
          <5>2. lock'[l] = r <=> lock[l] = r /\ d + 1 # c
            BY <4>2, <1>1, <1>3
          <5> QED
            BY <5>1, <5>2, <3>1, <1>1, SMTT(20)
        <4> QED
          BY <4>1, <4>2
      <3>5. CASE d + 1 = Len(p)
        BY <3>4, <3>5, <1>1, <1>2, <2>3, SMT
      <3>6. CASE d + 1 # Len(p)
        BY <3>4, <3>6, <1>2, <2>3 DEF KeepsAt, p, c
      <3> QED
        BY <3>5, <3>6
    <2> QED
      BY <2>2, <2>3
  <1>10. ASSUME NEW q \in Active', NEW s \in Active',
                running'[q].write = running'[s].write, running'[q].write # 0
         PROVE  q = s
    <2>1. \A z \in Active' : z \in Active /\ running'[z].write = running[z].write
      BY <1>2 DEF Active, x
    <2> QED
      BY <2>1, <1>10, SMT DEF HandlersInv
  <1> QED
    BY <1>6, <1>7, <1>8, <1>9, <1>10 DEF HandlersInv

(* What a program has before and after a step that is neither its first    *)
(* nor its commit.                                                         *)
LEMMA StepConnections ==
  ASSUME HandlersInv, NEW r \in Active, NEW step, IsNext(r, step)
  PROVE  LET k == running[r].kind
             d == running[r].done
         IN  /\ step = "connect" => d = 0 /\ connected[r] = 0 /\ ConnectionsAt(k, d + 1) = 1
             /\ step = "second" => connected[r] = 1 /\ ConnectionsAt(k, d + 1) = 2
             /\ step = "return" => connected[r] = 2 /\ ConnectionsAt(k, d + 1) = 1
             /\ step = "commit" => d + 1 = CommitAt(k) /\ ConnectionsAt(k, d + 1) = 0
             /\ step # "commit" => d + 1 # CommitAt(k)
             /\ step \in Locks \cup {"catalog", "enqueue"} =>
                    connected[r] = ConnectionsAt(k, d + 1)
  <1> DEFINE k == running[r].kind
             d == running[r].done
             p == Program(k)
             c == CommitAt(k)
  <1>1. d \in 0 .. 8 /\ Shaped(p, c) /\ p[d + 1] = step
    BY ActiveKind DEF IsNext, NextStep
  <1>2. d < Len(p) /\ connected[r] = ConnectionsAt(k, d)
    BY ActiveKind DEF OnItsWay
  <1>3. /\ Len(p) \in 2 .. 9 /\ c \in 2 .. Len(p) /\ d + 1 \in DOMAIN p
        /\ step = "connect" <=> d = 0
        /\ step = "commit" <=> d + 1 = c
        /\ step = "enqueue" <=> d + 1 > c
        /\ step = "second" => d + 2 < c
        /\ step = "return" => d >= 1 /\ p[d] = "second"
        /\ d >= 1 /\ p[d] = "second" => step = "return" /\ d + 1 < c
    <2>1. Len(p) \in 2 .. 9 /\ c \in 2 .. Len(p) /\ DOMAIN p = 1 .. Len(p)
      BY <1>1, SMT DEF Shaped
    <2>2. d + 1 \in DOMAIN p
      BY <2>1, <1>1, <1>2, SMT
    <2>3. /\ step = "connect" <=> d + 1 = 1
          /\ step = "commit" <=> d + 1 = c
          /\ step = "enqueue" <=> d + 1 > c
          /\ step = "second" => (d + 1) + 1 < c
          /\ step = "return" => p[(d + 1) - 1] = "second"
      BY <2>2, <1>1, SMT DEF Shaped
    <2>4. d >= 1 /\ p[d] = "second" => p[d + 1] = "return" /\ d + 1 < c
      <3>1. d >= 1 => d \in DOMAIN p
        BY <2>1, <1>1, <1>2, SMT
      <3> QED
        BY <3>1, <1>1 DEF Shaped
    <2>5. (d + 1) - 1 = d /\ (d + 1) + 1 = d + 2 /\ (d + 1 = 1 <=> d = 0)
      BY <1>1, SMT
    <2>6. d = 0 \/ d >= 1
      BY <1>1, SMT
    <2> QED
      BY <2>1, <2>2, <2>3, <2>4, <2>5, <2>6, <1>1
  <1>4. /\ connected[r] = IF d = 0 \/ d >= c THEN 0 ELSE IF p[d] = "second" THEN 2 ELSE 1
        /\ ConnectionsAt(k, d + 1) =
            IF d + 1 = 0 \/ d + 1 >= c THEN 0 ELSE IF p[d + 1] = "second" THEN 2 ELSE 1
    BY <1>2 DEF ConnectionsAt
  <1>5. step \in Locks \cup {"catalog", "enqueue"} =>
            step \notin {"connect", "second", "return", "commit"}
    BY DEF Locks
  <1> HIDE DEF k, d, p, c
  <1>6. /\ step = "connect" => d = 0 /\ connected[r] = 0 /\ ConnectionsAt(k, d + 1) = 1
        /\ step = "second" => connected[r] = 1 /\ ConnectionsAt(k, d + 1) = 2
        /\ step = "return" => connected[r] = 2 /\ ConnectionsAt(k, d + 1) = 1
        /\ step = "commit" => d + 1 = c /\ ConnectionsAt(k, d + 1) = 0
        /\ step # "commit" => d + 1 # c
        /\ step \in Locks \cup {"catalog", "enqueue"} => connected[r] = ConnectionsAt(k, d + 1)
    BY <1>1, <1>3, <1>4, <1>5, SMT
  <1> QED
    BY <1>6 DEF k, d, c

LEMMA ConnectInv ==
  ASSUME HandlersInv, NEW r \in Requests, Connect(r)
  PROVE  HandlersInv'
  <1>1. PICK step \in {"connect", "second"} : IsNext(r, step)
    BY DEF Connect
  <1>2. r \in Active /\ NextStep(r) \notin Locks /\ NextStep(r) # "commit"
    BY <1>1 DEF IsNext, Locks
  <1>3. /\ connected[r] < 2
        /\ ConnectionsAt(running[r].kind, running[r].done + 1) = connected[r] + 1
        /\ running[r].done + 1 # CommitAt(running[r].kind)
    BY <1>1, <1>2, StepConnections, SMT
  <1>4. connected' = [connected EXCEPT ![r] = @ + 1] /\ Free > 0
        /\ connected \in [Requests -> 0 .. 2]
    BY DEF Connect, HandlersInv, HandlersTypes
  <1>5. StepEffect(r)
    BY <1>2, <1>3, <1>4 DEF Connect, StepEffect, NextStep, HandlersInv, HandlersTypes
  <1>6. Used' <= Connections
    <2>1. Used' = Used + 1
      BY <1>3, <1>4, PoolGrows
    <2>2. Connections - Used > 0 /\ Used \in Nat /\ Connections \in Nat
      BY <1>4, PoolFinite, HandlersAssumption DEF Free
    <2> QED
      BY <2>1, <2>2, SMT
  <1> QED
    BY <1>2, <1>5, <1>6, StepInv

LEMMA TakeLockInv ==
  ASSUME HandlersInv, NEW r \in Requests, TakeLock(r)
  PROVE  HandlersInv'
  <1>1. PICK l \in Locks : IsNext(r, l) /\ lock[l] = None /\ lock' = [lock EXCEPT ![l] = r]
    BY DEF TakeLock
  <1>2. r \in Active /\ NextStep(r) = l /\ l # "commit"
    BY <1>1 DEF IsNext, Locks
  <1>3. /\ connected[r] = ConnectionsAt(running[r].kind, running[r].done + 1)
        /\ running[r].done + 1 # CommitAt(running[r].kind)
    BY <1>1, <1>2, StepConnections, SMT
  <1>4. connected' = connected /\ connected \in [Requests -> 0 .. 2]
        /\ lock \in [Locks -> Requests \cup {None}]
    BY DEF TakeLock, HandlersInv, HandlersTypes
  <1>5. StepEffect(r)
    BY <1>1, <1>2, <1>3, <1>4 DEF TakeLock, StepEffect, NextStep
  <1>6. Used' <= Connections
    BY <1>4 DEF Used, InUse, HandlersInv
  <1> QED
    BY <1>2, <1>5, <1>6, StepInv

LEMMA ReturnSecondInv ==
  ASSUME HandlersInv, NEW r \in Requests, ReturnSecond(r)
  PROVE  HandlersInv'
  <1>1. r \in Active /\ IsNext(r, "return") /\ NextStep(r) \notin Locks
        /\ NextStep(r) # "commit"
    BY DEF ReturnSecond, IsNext, Locks
  <1>2. /\ connected[r] = 2
        /\ ConnectionsAt(running[r].kind, running[r].done + 1) = connected[r] - 1
        /\ running[r].done + 1 # CommitAt(running[r].kind)
    BY <1>1, StepConnections, SMT
  <1>3. connected' = [connected EXCEPT ![r] = @ - 1] /\ connected \in [Requests -> 0 .. 2]
    BY DEF ReturnSecond, HandlersInv, HandlersTypes
  <1>4. StepEffect(r)
    BY <1>1, <1>2, <1>3 DEF ReturnSecond, StepEffect, NextStep, HandlersInv, HandlersTypes
  <1>5. connected' \in [Requests -> 0 .. 2] /\ \A q \in Requests : connected'[q] <= connected[q]
    BY <1>2, <1>3, SMT
  <1>6. Used' <= Connections
    BY <1>3, <1>5, PoolShrinks, PoolFinite, HandlersAssumption, SMT DEF HandlersInv
  <1> QED
    BY <1>1, <1>4, <1>6, StepInv

(* A step that takes and gives back nothing: the catalog's answer, an      *)
(* event enqueued.                                                         *)
LEMMA PlainStepInv ==
  ASSUME HandlersInv, NEW r \in Requests, NEW step \in {"catalog", "enqueue"},
         IsNext(r, step), Advance(r), UNCHANGED <<connected, lock, writes, committed>>
  PROVE  HandlersInv'
  <1>1. r \in Active /\ NextStep(r) \notin Locks /\ NextStep(r) # "commit"
    BY DEF IsNext, Locks
  <1>2. /\ connected[r] = ConnectionsAt(running[r].kind, running[r].done + 1)
        /\ running[r].done + 1 # CommitAt(running[r].kind)
    BY <1>1, StepConnections
  <1>3. StepEffect(r)
    BY <1>1, <1>2, SMT DEF StepEffect, NextStep, HandlersInv, HandlersTypes
  <1>4. Used' <= Connections
    BY DEF Used, InUse, HandlersInv
  <1> QED
    BY <1>1, <1>3, <1>4, StepInv

LEMMA CommitInv ==
  ASSUME HandlersInv, NEW r \in Requests, Commit(r)
  PROVE  HandlersInv'
  <1>1. r \in Active /\ IsNext(r, "commit") /\ NextStep(r) = "commit" /\ "commit" \notin Locks
    BY DEF Commit, IsNext, Locks
  <1>2. /\ ConnectionsAt(running[r].kind, running[r].done + 1) = 0
        /\ running[r].done + 1 = CommitAt(running[r].kind)
    BY <1>1, StepConnections
  <1>3. connected' = [connected EXCEPT ![r] = 0] /\ connected \in [Requests -> 0 .. 2]
        /\ lock \in [Locks -> Requests \cup {None}]
        /\ lock' = [l \in Locks |-> IF lock[l] = r THEN None ELSE lock[l]]
    BY DEF Commit, HandlersInv, HandlersTypes, Unlock
  <1>4. StepEffect(r)
    BY <1>1, <1>2, <1>3 DEF Commit, StepEffect, NextStep
  <1>5. connected' \in [Requests -> 0 .. 2] /\ \A q \in Requests : connected'[q] <= connected[q]
    BY <1>3, SMT
  <1>6. Used' <= Connections
    BY <1>3, <1>5, PoolShrinks, PoolFinite, HandlersAssumption, SMT DEF HandlersInv
  <1> QED
    BY <1>1, <1>4, <1>6, StepInv

(* A request that ends without a commit leaves nothing behind. *)
LEMMA AbortInv ==
  ASSUME HandlersInv, NEW r \in Active, Abort(r)
  PROVE  HandlersInv'
  <1> DEFINE T == [kind : Kinds \cup {None}, done : 0 .. 9, write : 0 .. MaxWrites]
  <1>1. r \in Requests /\ r # None
    BY ActiveKind
  <1>2. Idle \in T /\ Idle.kind = None
    BY HandlersAssumption, SMT DEF Idle
  <1>3. running \in [Requests -> T] /\ connected \in [Requests -> 0 .. 2]
        /\ lock \in [Locks -> Requests \cup {None}]
    BY DEF HandlersInv, HandlersTypes
  <1> HIDE DEF T
  <1>4. /\ running' \in [Requests -> T] /\ running'[r] = Idle
        /\ connected' \in [Requests -> 0 .. 2] /\ connected'[r] = 0
        /\ \A q \in Requests \ {r} : running'[q] = running[q] /\ connected'[q] = connected[q]
        /\ lock' \in [Locks -> Requests \cup {None}]
        /\ \A l \in Locks : lock'[l] = IF lock[l] = r THEN None ELSE lock[l]
        /\ writes' = writes /\ committed' = committed
    BY <1>1, <1>2, <1>3, SMT DEF Abort, Unlock
  <1>5. r \notin Active' /\ \A q \in Requests \ {r} : q \in Active' <=> q \in Active
    BY <1>2, <1>4 DEF Active
  <1>6. HandlersTypes'
    BY <1>4 DEF HandlersTypes, HandlersInv, T
  <1>7. Used' <= Connections
    <2>1. \A q \in Requests : connected'[q] <= connected[q]
      BY <1>3, <1>4, SMT
    <2>2. Used' <= Used
      BY <2>1, <1>3, <1>4, PoolShrinks
    <2> QED
      BY <2>2, PoolFinite, HandlersAssumption, SMT DEF HandlersInv
  <1>8. \A q \in Active' : q \in Active /\ q \in Requests \ {r}
    BY <1>5 DEF Active
  <1>9. \A q \in Active' : OnItsWay(q)'
    BY <1>4, <1>8 DEF HandlersInv, OnItsWay
  <1>10. \A q \in Requests \ Active' : running'[q] = Idle /\ connected'[q] = 0
    BY <1>4, <1>5 DEF HandlersInv
  <1>11. ASSUME NEW l \in Locks, NEW q \in Requests
         PROVE  lock'[l] = q <=> q \in Active' /\ KeepsAt(running'[q].kind, running'[q].done, l)
    <2>1. lock[l] = q <=> q \in Active /\ KeepsAt(running[q].kind, running[q].done, l)
      BY DEF HandlersInv
    <2>2. q # None
      BY HandlersAssumption
    <2>3. CASE q = r
      BY <2>2, <2>3, <1>4, <1>5
    <2>4. CASE q # r
      BY <2>1, <2>2, <2>4, <1>4, <1>5
    <2> QED
      BY <2>3, <2>4
  <1>12. \A q, s \in Active' :
            running'[q].write = running'[s].write /\ running'[q].write # 0 => q = s
    BY <1>4, <1>8, SMT DEF HandlersInv
  <1> QED
    BY <1>6, <1>7, <1>9, <1>10, <1>11, <1>12 DEF HandlersInv

LEMMA StartInv ==
  ASSUME HandlersInv, NEW r \in Requests, NEW kind \in Kinds, Start(r, kind)
  PROVE  HandlersInv'
  <1> DEFINE T == [kind : Kinds \cup {None}, done : 0 .. 9, write : 0 .. MaxWrites]
             w == IF Publishes(kind) THEN writes + 1 ELSE 0
             x == [kind |-> kind, done |-> 0, write |-> w]
  <1>1. running \in [Requests -> T] /\ connected \in [Requests -> 0 .. 2]
        /\ lock \in [Locks -> Requests \cup {None}] /\ writes \in 0 .. MaxWrites
        /\ committed \subseteq 1 .. writes /\ MaxWrites \in Nat
    BY HandlersAssumption DEF HandlersInv, HandlersTypes
  <1>2. /\ writes' \in 0 .. MaxWrites /\ writes <= writes'
        /\ Publishes(kind) => writes' = writes + 1
        /\ ~Publishes(kind) => writes' = writes
        /\ w \in 0 .. MaxWrites
    BY <1>1, SMT DEF Start
  <1>3. x \in T /\ x.kind = kind /\ x.done = 0 /\ x.write = w
    BY <1>2, SMT
  <1>4. running' = [running EXCEPT ![r] = x] /\ UNCHANGED <<connected, lock, committed>>
        /\ r \notin Active
    BY <1>2 DEF Start
  <1> HIDE DEF T, x
  <1>5. running' \in [Requests -> T] /\ running'[r] = x
        /\ \A q \in Requests \ {r} : running'[q] = running[q]
    BY <1>1, <1>3, <1>4
  <1>6. kind \in AnyKind /\ kind # None
    BY HandlersAssumption DEF AnyKind
  <1>7. r \in Active' /\ \A q \in Requests \ {r} : q \in Active' <=> q \in Active
    BY <1>3, <1>5, <1>6 DEF Active
  <1>8. HandlersTypes'
    BY <1>1, <1>2, <1>4, <1>5, SMT DEF HandlersTypes, T
  <1>9. Used' <= Connections
    BY <1>4 DEF Used, InUse, HandlersInv
  <1>10. Len(Program(kind)) > 0 /\ CommitAt(kind) \in Nat /\ CommitAt(kind) > 0
    BY <1>6, ProgramShape, SMT DEF Shaped
  <1>11. w # 0 => w \notin committed /\ \A q \in Active : running[q].write # w
    BY <1>1, SMT DEF HandlersInv, OnItsWay
  <1>12. ASSUME NEW q \in Active' PROVE OnItsWay(q)'
    <2>1. CASE q = r
      <3>1. connected'[q] = 0 /\ ConnectionsAt(kind, 0) = 0
        BY <2>1, <1>4 DEF HandlersInv, ConnectionsAt
      <3>2. IF Publishes(kind) THEN w \in 1 .. writes' ELSE w = 0
        BY <1>1, <1>2, SMT
      <3>3. w # 0 => (w \in committed' <=> 0 >= CommitAt(kind))
        BY <1>4, <1>10, <1>11, SMT
      <3> HIDE DEF w
      <3> QED
        BY <2>1, <3>1, <3>2, <3>3, <1>3, <1>5, <1>10 DEF OnItsWay
    <2>2. CASE q # r
      <3>1. q \in Active /\ q \in Requests /\ running'[q] = running[q] /\ OnItsWay(q)
        BY <2>2, <1>5, <1>7 DEF Active, HandlersInv
      <3>2. running[q].write \in 1 .. writes => running[q].write \in 1 .. writes'
        BY <1>1, <1>2, SMT
      <3> QED
        BY <3>1, <3>2, <1>4, SMT DEF OnItsWay
    <2> QED
      BY <2>1, <2>2
  <1>13. \A q \in Requests \ Active' : running'[q] = Idle /\ connected'[q] = 0
    BY <1>4, <1>5, <1>7 DEF HandlersInv
  <1>14. ASSUME NEW l \in Locks, NEW q \in Requests
         PROVE  lock'[l] = q <=> q \in Active' /\ KeepsAt(running'[q].kind, running'[q].done, l)
    <2>1. lock[l] = q <=> q \in Active /\ KeepsAt(running[q].kind, running[q].done, l)
      BY DEF HandlersInv
    <2>2. ~KeepsAt(kind, 0, l)
      BY SMT DEF KeepsAt
    <2>3. CASE q = r
      BY <2>1, <2>2, <2>3, <1>3, <1>4, <1>5, <1>7
    <2>4. CASE q # r
      BY <2>1, <2>4, <1>4, <1>5, <1>7
    <2> QED
      BY <2>3, <2>4
  <1> HIDE DEF w
  <1>15. ASSUME NEW q \in Active', NEW s \in Active',
                running'[q].write = running'[s].write, running'[q].write # 0
         PROVE  q = s
    <2>1. \A z \in Active' :
            \/ z = r /\ running'[z].write = w
            \/ z # r /\ z \in Active /\ running'[z].write = running[z].write
      BY <1>3, <1>5, <1>7 DEF Active
    <2> QED
      BY <2>1, <1>11, <1>15, SMT DEF HandlersInv
  <1> QED
    BY <1>8, <1>9, <1>12, <1>13, <1>14, <1>15 DEF HandlersInv

(* When every request is idle, nothing is held. *)
LEMMA RestInv ==
  ASSUME running = [r \in Requests |-> Idle], connected = [r \in Requests |-> 0],
         lock = [l \in Locks |-> None], writes \in 0 .. MaxWrites, committed \subseteq 1 .. writes
  PROVE  HandlersInv
  <1>1. Active = {}
    BY DEF Active, Idle
  <1>2. HandlersTypes
    BY HandlersAssumption, SMT DEF HandlersTypes, Idle
  <1>3. InUse = {}
    BY SMT DEF InUse
  <1>4. Used <= Connections
    BY <1>3, FS_EmptySet, HandlersAssumption, SMT DEF Used
  <1>5. \A l \in Locks, r \in Requests : lock[l] # r
    BY HandlersAssumption
  <1> QED
    BY <1>1, <1>2, <1>4, <1>5 DEF HandlersInv

LEMMA CrashInv ==
  ASSUME HandlersInv, HandlersCrash
  PROVE  HandlersInv'
  <1>1. Active' = {}
    BY DEF HandlersCrash, Active, Idle
  <1>2. HandlersTypes'
    BY HandlersAssumption, SMT DEF HandlersCrash, HandlersInv, HandlersTypes, Idle
  <1>3. InUse' = {}
    BY SMT DEF HandlersCrash, InUse
  <1>4. Used' <= Connections
    BY <1>3, FS_EmptySet, HandlersAssumption, SMT DEF Used
  <1>5. \A l \in Locks, r \in Requests : lock'[l] # r
    BY HandlersAssumption DEF HandlersCrash
  <1> QED
    BY <1>1, <1>2, <1>4, <1>5 DEF HandlersInv, HandlersCrash

LEMMA HandlerNextInv ==
  ASSUME HandlersInv, HandlerNext
  PROVE  HandlersInv'
  <1>1. PICK r \in Requests :
            \/ \E kind \in Kinds : Start(r, kind)
            \/ HandlerStep(r) \/ TakeLock(r) \/ CatalogAnswer(r) \/ Fail(r)
    BY DEF HandlerNext
  <1>2. CASE \E kind \in Kinds : Start(r, kind)
    BY <1>2, StartInv
  <1>3. CASE Connect(r)
    BY <1>3, ConnectInv
  <1>4. CASE AcquireTimeout(r) \/ CatalogTimeout(r) \/ Fail(r)
    BY <1>4, AbortInv DEF AcquireTimeout, CatalogTimeout, Fail, IsNext
  <1>5. CASE ReturnSecond(r)
    BY <1>5, ReturnSecondInv
  <1>6. CASE Commit(r)
    BY <1>6, CommitInv
  <1>7. CASE TakeLock(r)
    BY <1>7, TakeLockInv
  <1>8. CASE CatalogAnswer(r)
    BY <1>8, PlainStepInv DEF CatalogAnswer
  <1> QED
    BY <1>1, <1>2, <1>3, <1>4, <1>5, <1>6, <1>7, <1>8 DEF HandlerStep

-------------------------------------------------------------------------------
(* Stalls.                                                                 *)

(* Who holds a lock and cannot go on waits for the pool or for a lock that *)
(* comes later in the order.                                               *)
LEMMA HolderWaits ==
  ASSUME HandlersInv, NEW l \in Locks, lock[l] # None, ~CanGoOn(lock[l])
  PROVE  LET r == lock[l]
         IN  /\ r \in Active
             /\ \/ NextStep(r) = "second" /\ Free <= 0
                \/ /\ NextStep(r) \in Locks
                   /\ lock[NextStep(r)] # None
                   /\ Level(l) < Level(NextStep(r))
  <1>1. PICK r \in Requests : lock[l] = r
    BY DEF HandlersInv, HandlersTypes
  <1> DEFINE p == Program(running[r].kind)
             c == CommitAt(running[r].kind)
             d == running[r].done
  <1>2. r \in Active /\ d < c /\ \E i \in 1 .. d : p[i] = l
    BY <1>1 DEF HandlersInv, KeepsAt
  <1>3. PICK i \in 1 .. d : p[i] = l
    BY <1>2
  <1>4. Shaped(p, c) /\ d \in 0 .. 8 /\ NextStep(r) = p[d + 1]
    BY <1>2, ActiveKind DEF NextStep
  <1>5. d < Len(p)
    BY <1>2, ActiveKind DEF OnItsWay
  <1> HIDE DEF p, c, d
  <1>6. Len(p) \in Nat /\ c \in Nat /\ i \in DOMAIN p /\ d + 1 \in DOMAIN p /\ d + 1 # 1 /\ i < d + 1
    BY <1>4, <1>5, SMT DEF Shaped
  <1>7. p[d + 1] # "connect"
    BY <1>4, <1>6 DEF Shaped
  <1>8. p[d + 1] \in Locks => Level(l) < Level(p[d + 1])
    BY <1>3, <1>4, <1>6 DEF Shaped
  <1>9. ~CanGoOn(r)
    BY <1>1
  <1>10. \/ NextStep(r) \in {"connect", "second"} /\ ~(Free > 0)
         \/ NextStep(r) \in Locks /\ lock[NextStep(r)] # None
    BY <1>9 DEF CanGoOn
  <1>11. Free \in Int
    BY PoolFinite, HandlersAssumption, SMT DEF Free
  <1> QED
    BY <1>1, <1>2, <1>4, <1>7, <1>8, <1>10, <1>11, SMT

LEMMA PoolStalls ==
  ASSUME HandlersInv
  PROVE  OnlyThePoolStalls
  <1> SUFFICES ASSUME Stalled
               PROVE  Free = 0 /\ \E r \in Active : NextStep(r) = "second"
    BY DEF OnlyThePoolStalls
  <1>1. Free \in Int /\ Free >= 0
    <2>1. Used \in Nat /\ Connections \in Nat /\ Used <= Connections
      BY PoolFinite, HandlersAssumption DEF HandlersInv
    <2> QED
      BY <2>1, SMT DEF Free
  <1>2. Active # {} /\ \A r \in Active : ~CanGoOn(r)
    BY DEF Stalled
  <1>3. CASE \E r \in Active : NextStep(r) = "second" /\ Free <= 0
    BY <1>1, <1>3, SMT
  <1>4. CASE \A r \in Active : NextStep(r) = "second" => Free > 0
    <2>1. \A l \in Locks : lock[l] # None => lock[l] \in Active
      BY DEF HandlersInv, HandlersTypes
    <2>2. ASSUME NEW l \in Locks, lock[l] # None
          PROVE  \E m \in Locks : lock[m] # None /\ Level(l) < Level(m)
      <3>1. lock[l] \in Active /\ ~CanGoOn(lock[l])
        BY <2>1, <2>2, <1>2
      <3>2. \/ NextStep(lock[l]) = "second" /\ Free <= 0
            \/ /\ NextStep(lock[l]) \in Locks
               /\ lock[NextStep(lock[l])] # None
               /\ Level(l) < Level(NextStep(lock[l]))
        BY <3>1, <2>2, HolderWaits
      <3>3. ~(NextStep(lock[l]) = "second" /\ Free <= 0)
        BY <3>1, <1>1, <1>4, SMT
      <3> QED
        BY <3>2, <3>3
    <2>3. lock["room"] = None
      BY <2>2, SMT DEF Locks, Level
    <2>4. lock["claim"] = None
      BY <2>2, <2>3, SMT DEF Locks, Level
    <2>5. lock["row"] = None
      BY <2>2, <2>3, <2>4, SMT DEF Locks, Level
    <2>6. lock["agent"] = None
      BY <2>2, <2>3, <2>4, <2>5, SMT DEF Locks, Level
    <2>7. ASSUME NEW r \in Active
          PROVE  NextStep(r) = "connect" /\ ~(Free > 0)
      <3>1. ~CanGoOn(r)
        BY <1>2
      <3>2. NextStep(r) \notin Locks \/ lock[NextStep(r)] = None
        BY <2>3, <2>4, <2>5, <2>6 DEF Locks
      <3>3. NextStep(r) \in {"connect", "second"} /\ ~(Free > 0)
        BY <3>1, <3>2 DEF CanGoOn
      <3> QED
        BY <3>3, <1>4
    <2>8. \A r \in Active : connected[r] = 0
      BY <2>7, StepConnections DEF IsNext
    <2>9. \A r \in Requests : connected[r] = 0
      BY <2>8 DEF HandlersInv
    <2>10. InUse = {}
      BY <2>9, SMT DEF InUse
    <2>11. Free = Connections
      BY <2>10, FS_EmptySet, HandlersAssumption, SMT DEF Free, Used
    <2> QED
      BY <2>7, <2>11, <1>2, HandlersAssumption, SMT
  <1> QED
    BY <1>1, <1>3, <1>4, SMT

-------------------------------------------------------------------------------
(* The memory engine client.                                               *)

(* The event that a request enqueues next is the one after those it has    *)
(* enqueued, and its write is committed.                                   *)
LEMMA NextEvent ==
  ASSUME HandlersInv, NEW r \in Active, IsNext(r, "enqueue")
  PROVE  /\ Position(r) = running[r].done + 1 - CommitAt(running[r].kind)
         /\ [write |-> running[r].write, n |-> Position(r)] \in Event
         /\ running[r].write \in committed
  <1> DEFINE k == running[r].kind
             d == running[r].done
             p == Program(k)
             c == CommitAt(k)
             w == running[r].write
  <1>1. Shaped(p, c) /\ d \in 0 .. 8 /\ p[d + 1] = "enqueue" /\ k \in AnyKind
    BY ActiveKind DEF IsNext, NextStep
  <1>2. d < Len(p) /\ (IF Publishes(k) THEN w \in 1 .. writes ELSE w = 0)
        /\ (w # 0 => (w \in committed <=> d >= c))
    BY ActiveKind DEF OnItsWay
  <1>3. ~Publishes(k) => c = Len(p)
    BY <1>1, ProgramShape
  <1>4. writes \in 0 .. MaxWrites /\ MaxWrites \in Nat
    BY HandlersAssumption DEF HandlersInv, HandlersTypes
  <1>5. Position(r) = Cardinality({i \in 1 .. d + 1 : p[i] = "enqueue"})
    BY DEF Position
  <1> HIDE DEF k, d, p, c, w
  <1>6. /\ Len(p) \in Nat /\ c \in Nat /\ c >= 2 /\ Len(p) <= c + 4
        /\ DOMAIN p = 1 .. Len(p) /\ d + 1 \in DOMAIN p /\ d + 1 > c
        /\ \A i \in DOMAIN p : p[i] = "enqueue" <=> i > c
    <2>1. Len(p) \in Nat /\ c \in Nat /\ c >= 2 /\ Len(p) <= c + 4 /\ DOMAIN p = 1 .. Len(p)
          /\ \A i \in DOMAIN p : p[i] = "enqueue" <=> i > c
      BY <1>1, SMT DEF Shaped
    <2> QED
      BY <2>1, <1>1, <1>2, SMT
  <1>7. d + 1 <= c + 4 /\ c # Len(p)
    <2> DEFINE n == Len(p)
    <2>1. n \in Nat /\ d < n /\ n <= c + 4 /\ d + 1 > c /\ c \in Nat /\ d \in Nat
      BY <1>1, <1>2, <1>6, SMT
    <2> HIDE DEF n
    <2>2. d + 1 <= c + 4 /\ c # n
      BY <2>1, SMT
    <2> QED
      BY <2>2 DEF n
  <1>8. {i \in 1 .. d + 1 : p[i] = "enqueue"} = (c + 1) .. (d + 1)
    BY <1>1, <1>6, SMT
  <1>9. Cardinality((c + 1) .. (d + 1)) = (d + 1) - (c + 1) + 1
    <2>1. c + 1 \in Int /\ d + 1 \in Int /\ ~(c + 1 > d + 1)
      BY <1>1, <1>6, SMT
    <2> QED
      BY <2>1, FS_Interval
  <1>10. Position(r) = d + 1 - c /\ d + 1 - c \in 1 .. 4
    <2>1. Position(r) = (d + 1) - (c + 1) + 1
      BY <1>5, <1>8, <1>9
    <2>2. d \in Nat /\ c \in Nat /\ d + 1 > c
      BY <1>1, <1>6, SMT
    <2> QED
      BY <2>1, <2>2, <1>7, SMT
  <1>11. Publishes(k)
    BY <1>3, <1>7
  <1>12. w \in 1 .. MaxWrites /\ w \in committed
    BY <1>1, <1>2, <1>4, <1>6, <1>11, SMT
  <1> QED
    BY <1>10, <1>12 DEF Event, c, d, k, w

(* Commits stay, and a request whose write is committed goes on with it. *)
Onward ==
    /\ committed \subseteq committed'
    /\ \A q \in Active' : running'[q].write \in committed =>
        /\ q \in Active
        /\ running'[q].write = running[q].write
        /\ running'[q].kind = running[q].kind
        /\ running[q].done <= running'[q].done

LEMMA AdvanceOnward ==
  ASSUME HandlersInv, NEW r \in Active, Advance(r), committed \subseteq committed'
  PROVE  Onward
  <1>1. \A q \in Requests : running[q].done \in Nat
    BY SMT DEF HandlersInv, HandlersTypes
  <1>2. ASSUME NEW q \in Active'
        PROVE  /\ q \in Active /\ running'[q].write = running[q].write
               /\ running'[q].kind = running[q].kind /\ running[q].done <= running'[q].done
    <2>1. q \in Requests
      BY DEF Active
    <2>2. CASE q = r
      BY <2>1, <2>2, <1>1, Advanced, SMT
    <2>3. CASE q # r
      BY <2>1, <2>3, <1>1, Advanced, SMT
    <2> QED
      BY <2>2, <2>3
  <1> QED
    BY <1>2 DEF Onward

LEMMA HandlerNextOnward ==
  ASSUME HandlersInv, HandlerNext
  PROVE  Onward
  <1>1. PICK r \in Requests :
            \/ \E kind \in Kinds : Start(r, kind)
            \/ HandlerStep(r) \/ TakeLock(r) \/ CatalogAnswer(r) \/ Fail(r)
    BY DEF HandlerNext
  <1>2. running \in [Requests ->
            [kind : Kinds \cup {None}, done : 0 .. 9, write : 0 .. MaxWrites]]
        /\ writes \in Nat /\ committed \subseteq 1 .. writes
    BY SMT DEF HandlersInv, HandlersTypes
  <1>3. CASE \E kind \in Kinds : Start(r, kind)
    <2>1. PICK kind \in Kinds : Start(r, kind)
      BY <1>3
    <2>2. committed' = committed /\ \A q \in Requests \ {r} : running'[q] = running[q]
      BY <1>2, <2>1 DEF Start
    <2>3. running'[r].write \notin committed
      <3>1. running'[r].write = 0 \/ running'[r].write = writes + 1
        BY <1>2, <2>1 DEF Start
      <3> QED
        BY <3>1, <1>2, SMT
    <2>4. ASSUME NEW q \in Active', running'[q].write \in committed
          PROVE  q \in Active /\ running'[q] = running[q] /\ running[q].done \in Nat
      <3>1. q \in Requests \ {r}
        BY <2>3, <2>4 DEF Active
      <3> QED
        BY <3>1, <2>2, <1>2, SMT DEF Active
    <2> QED
      BY <2>2, <2>4, SMT DEF Onward
  <1>4. CASE AcquireTimeout(r) \/ CatalogTimeout(r) \/ Fail(r)
    <2>1. Abort(r) /\ r \in Active
      BY <1>4 DEF AcquireTimeout, CatalogTimeout, Fail, IsNext
    <2>2. committed' = committed /\ running' = [running EXCEPT ![r] = Idle]
      BY <2>1 DEF Abort
    <2>3. ASSUME NEW q \in Active'
          PROVE  q \in Active /\ running'[q] = running[q] /\ running[q].done \in Nat
      <3>1. q \in Requests \ {r}
        BY <2>2, <1>2 DEF Active, Idle
      <3> QED
        BY <3>1, <2>2, <1>2, SMT DEF Active
    <2> QED
      BY <2>2, <2>3, SMT DEF Onward
  <1>5. CASE Connect(r) \/ ReturnSecond(r) \/ Commit(r) \/ TakeLock(r) \/ CatalogAnswer(r)
    <2>1. r \in Active /\ Advance(r) /\ committed \subseteq committed'
      BY <1>5 DEF Connect, ReturnSecond, Commit, TakeLock, CatalogAnswer, IsNext
    <2> QED
      BY <2>1, AdvanceOnward
  <1> QED
    BY <1>1, <1>3, <1>4, <1>5 DEF HandlerStep

LEMMA DoneTypes ==
  ASSUME HandlersInv, HandlersInv'
  PROVE  \A q \in Requests : running[q].done \in Nat /\ running'[q].done \in Nat
  <1> DEFINE T == [kind : Kinds \cup {None}, done : 0 .. 9, write : 0 .. MaxWrites]
  <1>1. running \in [Requests -> T] /\ running' \in [Requests -> T]
    BY DEF HandlersInv, HandlersTypes
  <1> QED
    BY <1>1, SMT

(* What the handlers do leaves the client's invariant. *)
LEMMA OnwardDispatch ==
  ASSUME DispatchInv, HandlersInv, HandlersInv', Onward, UNCHANGED dispatch
  PROVE  DispatchInv'
  <1>1. DispatchTypes' /\ \A e : (Taken(e)' <=> Taken(e)) /\ (Enqueued(e)' <=> Enqueued(e))
    BY DEF dispatch, DispatchInv, DispatchTypes, Taken, Enqueued
  <1>2. ASSUME NEW e \in Event, Enqueued(e)
        PROVE  /\ e.write \in committed'
               /\ \A r \in Active' : e.write = running'[r].write =>
                    e.n <= running'[r].done - CommitAt(running'[r].kind)
    <2>1. e.write \in committed /\ e.write \in committed'
      BY <1>2 DEF DispatchInv, Onward
    <2>2. ASSUME NEW r \in Active', e.write = running'[r].write
          PROVE  e.n <= running'[r].done - CommitAt(running'[r].kind)
      <3>1. /\ r \in Active /\ running'[r].write = running[r].write
            /\ running'[r].kind = running[r].kind /\ running[r].done <= running'[r].done
        BY <2>1, <2>2 DEF Onward
      <3>2. e.n <= running[r].done - CommitAt(running[r].kind)
        BY <3>1, <2>2, <1>2 DEF DispatchInv
      <3>3. r \in Requests /\ running[r].done \in Nat /\ running'[r].done \in Nat /\ e.n \in Nat
        BY <3>1, <1>2, DoneTypes, SMTT(20) DEF Active, Event
      <3>4. CommitAt(running[r].kind) \in Nat
        BY <3>1, ActiveKind, SMTT(20) DEF Shaped
      <3> QED
        BY <3>1, <3>2, <3>3, <3>4, SMT
    <2> QED
      BY <2>1, <2>2
  <1> QED
    BY <1>1, <1>2 DEF DispatchInv, dispatch

LEMMA EnqueueInv ==
  ASSUME DispatchInv, HandlersInv, HandlersInv', NEW r \in Requests, EnqueueCommitted(r)
  PROVE  DispatchInv'
  <1> DEFINE e == [write |-> running[r].write, n |-> Position(r)]
  <1>1. r \in Active /\ IsNext(r, "enqueue") /\ Advance(r) /\ Enqueue(e)
        /\ committed' = committed
    BY DEF EnqueueCommitted, IsNext
  <1>2. e.n = running[r].done + 1 - CommitAt(running[r].kind) /\ e \in Event
        /\ e.write \in committed /\ e.write = running[r].write
    BY <1>1, NextEvent
  <1>3. Onward
    BY <1>1, AdvanceOnward
  <1>4. CASE Len(queue) >= Capacity
    <2>1. UNCHANGED dispatch
      BY <1>1, <1>4, DispatchAssumption, SMT DEF Enqueue, dispatch, DispatchInv, DispatchTypes
    <2> QED
      BY <2>1, <1>3, OnwardDispatch
  <1>5. CASE Len(queue) < Capacity
    <2>1. queue' = Append(queue, e) /\ UNCHANGED <<posting, sent, received>>
      BY <1>1, <1>5 DEF Enqueue
    <2> HIDE DEF e
    <2>2. /\ queue \in Seq(Event) /\ queue' \in Seq(Event) /\ Len(queue') = Len(queue) + 1
          /\ DOMAIN queue = 1 .. Len(queue) /\ DOMAIN queue' = 1 .. Len(queue) + 1
          /\ queue'[Len(queue) + 1] = e
          /\ \A i \in DOMAIN queue : queue'[i] = queue[i]
          /\ Len(queue) \in Nat
      BY <2>1, <1>2, SMT DEF DispatchInv, DispatchTypes
    <2>3. DispatchTypes'
      BY <2>1, <2>2, <1>5, DispatchAssumption, SMT DEF DispatchInv, DispatchTypes
    <2>4. \A f : Taken(f)' <=> Taken(f)
      BY <2>1 DEF Taken
    <2>5. \A f : Enqueued(f)' <=> Enqueued(f) \/ f = e
      BY <2>2, <2>4, SMTT(20) DEF Enqueued
    <2>6. running[r].done \in Nat /\ CommitAt(running[r].kind) \in Nat
      BY <1>1, ActiveKind, SMT DEF Shaped
    <2>7. ASSUME NEW f \in Event, Enqueued(f)
          PROVE  Precedes(f, e)
      <3>1. f.write = e.write => f.n <= running[r].done - CommitAt(running[r].kind)
        BY <2>7, <1>1, <1>2 DEF DispatchInv
      <3>2. f.n \in Nat
        BY SMT DEF Event
      <3> QED
        BY <3>1, <3>2, <2>6, <1>2, SMT DEF Precedes
    <2>8. ASSUME NEW f \in Event, Enqueued(f) \/ f = e
          PROVE  /\ f.write \in committed'
                 /\ \A q \in Active' : f.write = running'[q].write =>
                        f.n <= running'[q].done - CommitAt(running'[q].kind)
      <3>1. f.write \in committed'
        BY <2>8, <1>1, <1>2 DEF DispatchInv
      <3>2. ASSUME NEW q \in Active', f.write = running'[q].write
            PROVE  f.n <= running'[q].done - CommitAt(running'[q].kind)
        <4>1. /\ q \in Active /\ running'[q].write = running[q].write
              /\ running'[q].kind = running[q].kind /\ running[q].done <= running'[q].done
          BY <3>1, <3>2, <1>1, <1>3 DEF Onward
        <4>2. q \in Requests /\ running[q].done \in Nat /\ running'[q].done \in Nat
              /\ CommitAt(running[q].kind) \in Nat /\ f.n \in Nat
          <5>1. q \in Requests /\ running[q].done \in Nat /\ running'[q].done \in Nat
                /\ f.n \in Nat
            BY <4>1, DoneTypes, SMTT(20) DEF Active, Event
          <5>2. CommitAt(running[q].kind) \in Nat
            BY <4>1, ActiveKind, SMT DEF Shaped
          <5> QED
            BY <5>1, <5>2
        <4>3. CASE Enqueued(f)
          <5>1. f.n <= running[q].done - CommitAt(running[q].kind)
            BY <4>1, <4>3, <3>2 DEF DispatchInv
          <5> QED
            BY <5>1, <4>1, <4>2, SMT
        <4>4. CASE f = e
          <5>1. q = r
            <6>1. running[q].write = running[r].write
              BY <4>1, <4>4, <3>2, <1>2
            <6>2. running[r].write # 0
              BY <1>2, SMT DEF HandlersInv, HandlersTypes
            <6> QED
              BY <6>1, <6>2, <4>1, <1>1 DEF HandlersInv
          <5>2. running'[r].done = running[r].done + 1
            <6>1. r \in Active'
              BY <5>1
            <6> QED
              BY <6>1, <1>1, Advanced
          <5> QED
            BY <5>1, <5>2, <4>1, <4>2, <4>4, <1>2, SMT
        <4> QED
          BY <4>3, <4>4, <2>8
      <3> QED
        BY <3>1, <3>2
    <2>9. ASSUME NEW i \in DOMAIN queue', NEW j \in DOMAIN queue', i < j
          PROVE  Precedes(queue'[i], queue'[j])
      <3>1. i \in DOMAIN queue /\ queue'[i] = queue[i] /\ queue[i] \in Event
        BY <2>2, <2>9, SMT
      <3>2. CASE j \in DOMAIN queue
        BY <3>1, <3>2, <2>2, <2>9 DEF DispatchInv
      <3>3. CASE j \notin DOMAIN queue
        <4>1. queue'[j] = e
          BY <3>3, <2>2, SMT
        <4>2. Enqueued(queue[i])
          BY <3>1 DEF Enqueued
        <4> QED
          BY <4>1, <4>2, <3>1, <2>7
      <3> QED
        BY <3>2, <3>3
    <2>10. ASSUME NEW f \in Event, Taken(f), NEW i \in DOMAIN queue'
           PROVE  Precedes(f, queue'[i])
      <3>1. CASE i \in DOMAIN queue
        BY <3>1, <2>2, <2>10 DEF DispatchInv
      <3>2. CASE i \notin DOMAIN queue
        <4>1. queue'[i] = e
          BY <3>2, <2>2, SMT
        <4> QED
          BY <4>1, <2>7, <2>10 DEF Enqueued
      <3> QED
        BY <3>1, <3>2
    <2> QED
      BY <2>1, <2>3, <2>4, <2>5, <2>8, <2>9, <2>10 DEF DispatchInv
  <1> QED
    BY <1>4, <1>5, DispatchAssumption, SMT DEF DispatchInv, DispatchTypes

(* What the client takes, it has not taken before. *)
LEMMA HeadUntaken ==
  ASSUME DispatchInv, Take
  PROVE  ~Taken(Head(queue))
  <1>1. queue \in Seq(Event) /\ queue # <<>>
    BY DEF DispatchInv, DispatchTypes, Take
  <1>2. 1 \in DOMAIN queue /\ Head(queue) = queue[1] /\ queue[1] \in Event
    BY <1>1, SMT
  <1>3. queue[1].n \in Nat
    BY <1>2, SMT DEF Event
  <1>4. ~Precedes(queue[1], queue[1])
    BY <1>3, SMT DEF Precedes
  <1> QED
    BY <1>2, <1>4 DEF DispatchInv

LEMMA TakeInv ==
  ASSUME DispatchInv, Take, UNCHANGED handlers
  PROVE  DispatchInv'
  <1>1. /\ queue \in Seq(Event) /\ queue # <<>> /\ Len(queue) \in Nat /\ Len(queue) <= Capacity
        /\ sent \subseteq Event /\ received \subseteq Event /\ posting = NoEvent
    BY SMT DEF DispatchInv, DispatchTypes, Take
  <1>2. PICK h : h = Head(queue)
    OBVIOUS
  <1>3. /\ h \in Event /\ h = queue[1] /\ 1 \in DOMAIN queue
        /\ queue' \in Seq(Event) /\ Len(queue') = Len(queue) - 1
        /\ \A i \in DOMAIN queue' : queue'[i] = queue[i + 1] /\ i + 1 \in DOMAIN queue
        /\ DOMAIN queue' \subseteq Nat
    BY <1>1, <1>2, SMT DEF Take
  <1>4. posting' = h /\ sent' = sent \cup {h} /\ received' = received
        /\ running' = running /\ committed' = committed
    BY <1>2 DEF Take, handlers
  <1>5. DispatchTypes'
    BY <1>1, <1>3, <1>4, DispatchAssumption, SMT DEF DispatchTypes
  <1>6. \A e \in Event : Taken(e)' <=> Taken(e) \/ e = h
    BY <1>1, <1>3, <1>4, EventAssumption DEF Taken
  <1>7. Enqueued(h)
    BY <1>3 DEF Enqueued
  <1>8. \A e \in Event : Enqueued(e)' => Enqueued(e)
    BY <1>3, <1>6, <1>7 DEF Enqueued
  <1>9. Active' = Active
    BY <1>4 DEF Active
  <1>10. \A e \in Event : Enqueued(e)' =>
            /\ e.write \in committed'
            /\ \A r \in Active' : e.write = running'[r].write =>
                e.n <= running'[r].done - CommitAt(running'[r].kind)
    BY <1>4, <1>8, <1>9 DEF DispatchInv
  <1>11. \A i, j \in DOMAIN queue' : i < j => Precedes(queue'[i], queue'[j])
    <2>1. ASSUME NEW i \in DOMAIN queue', NEW j \in DOMAIN queue', i < j
          PROVE  Precedes(queue'[i], queue'[j])
      <3>1. i + 1 < j + 1
        BY <2>1, <1>3, SMT
      <3> QED
        BY <3>1, <1>3 DEF DispatchInv
    <2> QED
      BY <2>1
  <1>12. \A e \in Event : Taken(e) => Precedes(e, h)
    BY <1>3 DEF DispatchInv
  <1>13. \A e \in Event : Taken(e)' => \A i \in DOMAIN queue' : Precedes(e, queue'[i])
    <2>1. ASSUME NEW i \in DOMAIN queue' PROVE Precedes(h, queue'[i])
      <3>1. 1 < i + 1
        BY <1>3, SMT
      <3> QED
        BY <3>1, <1>3 DEF DispatchInv
    <2>2. ASSUME NEW e \in Event, Taken(e), NEW i \in DOMAIN queue'
          PROVE  Precedes(e, queue'[i])
      BY <2>2, <1>3 DEF DispatchInv
    <2> QED
      BY <2>1, <2>2, <1>6
  <1>14. \A e \in Event : Taken(e)' /\ posting' # NoEvent => e = posting' \/ Precedes(e, posting')
    BY <1>4, <1>6, <1>12
  <1>15. sent' \cap received' = {}
    BY <1>1, <1>3, <1>4, HeadUntaken DEF DispatchInv, Taken, Take
  <1> QED
    BY <1>5, <1>10, <1>11, <1>13, <1>14, <1>15 DEF DispatchInv

(* The other steps of the client take nothing from the queue. *)
LEMMA QuietInv ==
  ASSUME DispatchInv, DispatchTypes', committed' = committed,
         \A r \in Active' : r \in Active /\ running'[r] = running[r],
         queue' = queue \/ queue' = <<>>, posting' = posting \/ posting' = NoEvent,
         \A e \in Event : Taken(e)' => Taken(e),
         sent' \cap received' = {}
  PROVE  DispatchInv'
  <1>1. DOMAIN queue' \subseteq DOMAIN queue /\ \A i \in DOMAIN queue' : queue'[i] = queue[i]
    <2>1. CASE queue' = queue
      BY <2>1
    <2>2. CASE queue' = <<>>
      BY <2>2, SMT
    <2> QED
      BY <2>1, <2>2
  <1>2. \A e \in Event : Enqueued(e)' => Enqueued(e)
    BY <1>1 DEF Enqueued
  <1>3. \A e \in Event : Enqueued(e)' =>
            /\ e.write \in committed'
            /\ \A r \in Active' : e.write = running'[r].write =>
                e.n <= running'[r].done - CommitAt(running'[r].kind)
    BY <1>2 DEF DispatchInv
  <1>4. \A i, j \in DOMAIN queue' : i < j => Precedes(queue'[i], queue'[j])
    BY <1>1 DEF DispatchInv
  <1>5. \A e \in Event : Taken(e)' => \A i \in DOMAIN queue' : Precedes(e, queue'[i])
    BY <1>1 DEF DispatchInv
  <1>6. \A e \in Event : Taken(e)' /\ posting' # NoEvent => e = posting' \/ Precedes(e, posting')
    BY DEF DispatchInv
  <1> QED
    BY <1>3, <1>4, <1>5, <1>6 DEF DispatchInv

LEMMA ArriveInv ==
  ASSUME DispatchInv, Arrive, UNCHANGED handlers
  PROVE  DispatchInv'
  <1>1. PICK e \in sent : received' = received \cup {e} /\ sent' = sent \ {e}
    BY DEF Arrive
  <1>2. queue' = queue /\ posting' = posting /\ running' = running /\ committed' = committed
        /\ Active' = Active
    BY DEF Arrive, handlers, Active
  <1>3. DispatchTypes'
    BY <1>1, <1>2 DEF DispatchInv, DispatchTypes
  <1>4. \A f \in Event : Taken(f)' => Taken(f)
    BY <1>1, <1>2 DEF Taken
  <1>5. sent' \cap received' = {}
    BY <1>1 DEF DispatchInv
  <1> QED
    BY <1>2, <1>3, <1>4, <1>5, QuietInv

LEMMA PostEndsInv ==
  ASSUME DispatchInv, PostEnds, UNCHANGED handlers
  PROVE  DispatchInv'
  <1>1. /\ queue' = queue /\ posting' = NoEvent /\ sent' = sent /\ received' = received
        /\ running' = running /\ committed' = committed /\ Active' = Active
    BY DEF PostEnds, handlers, Active
  <1>2. DispatchTypes' /\ \A f \in Event : Taken(f)' => Taken(f)
    BY <1>1 DEF DispatchInv, DispatchTypes, Taken
  <1>3. sent' \cap received' = {}
    BY <1>1 DEF DispatchInv
  <1> QED
    BY <1>1, <1>2, <1>3, QuietInv

LEMMA DispatchCrashInv ==
  ASSUME DispatchInv, Crash
  PROVE  DispatchInv'
  <1>1. /\ queue' = <<>> /\ posting' = NoEvent /\ sent' = sent /\ received' = received
        /\ committed' = committed /\ Active' = {}
    BY DEF Crash, HandlersCrash, DispatchCrash, Active, Idle
  <1>2. DispatchTypes' /\ \A f \in Event : Taken(f)' => Taken(f)
    BY <1>1, DispatchAssumption, SMT DEF DispatchInv, DispatchTypes, Taken
  <1>3. sent' \cap received' = {}
    BY <1>1 DEF DispatchInv
  <1> QED
    BY <1>1, <1>2, <1>3, QuietInv

-------------------------------------------------------------------------------
(* The theorems.                                                           *)

LEMMA InitInv == Init => Inv
  <1> SUFFICES ASSUME Init PROVE Inv
    OBVIOUS
  <1>1. HandlersInv
    BY RestInv, HandlersAssumption, SMT DEF Init, HandlersInit
  <1>2. DispatchTypes
    BY DispatchAssumption, SMT DEF Init, DispatchInit, DispatchTypes
  <1>3. \A e : ~Enqueued(e)
    BY SMT DEF Init, DispatchInit, Enqueued, Taken
  <1>4. DispatchInv
    BY <1>2, <1>3 DEF DispatchInv, Init, DispatchInit, Enqueued
  <1> QED
    BY <1>1, <1>4 DEF Inv

LEMMA NextInv == Inv /\ [Next]_vars => Inv'
  <1> SUFFICES ASSUME Inv, [Next]_vars PROVE Inv'
    OBVIOUS
  <1>1. HandlersInv /\ DispatchInv
    BY DEF Inv
  <1>2. CASE HandlerNext /\ UNCHANGED dispatch
    BY <1>1, <1>2, HandlerNextInv, HandlerNextOnward, OnwardDispatch DEF Inv
  <1>3. ASSUME UNCHANGED handlers PROVE HandlersInv'
    BY <1>1, <1>3, SMT DEF handlers, HandlersInv, HandlersTypes, Used, InUse, Active, OnItsWay
  <1>4. CASE DispatchNext /\ UNCHANGED handlers
    BY <1>1, <1>3, <1>4, TakeInv, ArriveInv, PostEndsInv DEF Inv, DispatchNext
  <1>5. ASSUME NEW r \in Requests, EnqueueCommitted(r) PROVE Inv'
    <2>1. HandlersInv'
      BY <1>1, <1>5, PlainStepInv DEF EnqueueCommitted
    <2> QED
      BY <2>1, <1>1, <1>5, EnqueueInv DEF Inv
  <1>6. CASE Crash
    BY <1>1, <1>6, CrashInv, DispatchCrashInv DEF Inv, Crash
  <1>7. CASE UNCHANGED vars
    <2>1. UNCHANGED handlers /\ UNCHANGED dispatch
      BY <1>7 DEF vars, handlers, dispatch
    <2>2. HandlersInv'
      BY <2>1, <1>3
    <2>3. Active' = Active /\ running' = running /\ committed' = committed
      BY <2>1 DEF handlers, Active
    <2>4. Onward
      BY <2>3, <2>2, <1>1, DoneTypes, SMT DEF Onward, Active
    <2> QED
      BY <2>1, <2>2, <2>4, <1>1, OnwardDispatch DEF Inv
  <1> QED
    BY <1>2, <1>4, <1>5, <1>6, <1>7 DEF Next

THEOREM InvariantHolds == Spec => []Inv
  BY InitInv, NextInv, PTL DEF Spec

(* The pool, the locks, the queue and the requests have their types, and   *)
(* neither the pool (sqlx) nor the channel to the memory engine outgrows   *)
(* its size.                                                               *)
THEOREM TypesHold == Spec => []TypeOK
  <1>1. Inv => TypeOK
    BY DEF Inv, HandlersInv, HandlersTypes, DispatchInv, DispatchTypes, TypeOK
  <1> QED
    BY <1>1, InvariantHolds, PTL

(* The order in which process, claim_oldest_queued_agent_task,             *)
(* record_agent_task_update, reserve_inner, claim and record_update take   *)
(* their locks admits no deadlock among any number of requests; when all   *)
(* of them wait, the pool is empty and one of them, inside                 *)
(* participant_snapshot, waits for its second connection.                  *)
THEOREM PoolStallsOnly == Spec => []OnlyThePoolStalls
  <1>1. Inv => OnlyThePoolStalls
    BY PoolStalls DEF Inv
  <1> QED
    BY <1>1, InvariantHolds, PTL

(* What is posted, and what arrives. *)
FollowsCommits ==
    /\ posting' \notin {posting, NoEvent} => posting' \notin sent \cup received
    /\ \A e \in received' \ received :
        /\ e.write \in committed
        /\ e = posting => \A f \in received : f.write = e.write => f.n < e.n

LEMMA PostFollows ==
  ASSUME Inv, [Next]_vars
  PROVE  posting' \notin {posting, NoEvent} => posting' \notin sent \cup received
  <1> SUFFICES ASSUME posting' \notin {posting, NoEvent} PROVE posting' \notin sent \cup received
    OBVIOUS
  <1>1. Take
    BY DEF Next, vars, HandlerNext, dispatch, DispatchNext, Arrive, PostEnds,
           EnqueueCommitted, Enqueue, Crash, DispatchCrash
  <1>2. posting' = Head(queue) /\ ~Taken(Head(queue))
    BY <1>1, HeadUntaken DEF Inv, Take
  <1> QED
    BY <1>2 DEF Taken

LEMMA ArrivalFollows ==
  ASSUME Inv, [Next]_vars
  PROVE  \A e \in received' \ received :
            /\ e.write \in committed
            /\ e = posting => \A f \in received : f.write = e.write => f.n < e.n
  <1> TAKE e \in received' \ received
  <1>1. Arrive
    BY DEF Next, vars, HandlerNext, dispatch, DispatchNext, Take, PostEnds,
           EnqueueCommitted, Enqueue, Crash, DispatchCrash
  <1>2. e \in sent /\ e \in Event /\ received \subseteq Event
    <2>1. PICK g \in sent : received' = received \cup {g}
      BY <1>1 DEF Arrive
    <2>2. e = g
      BY <2>1
    <2> QED
      BY <2>2 DEF Inv, DispatchInv, DispatchTypes
  <1>3. e.write \in committed
    BY <1>2 DEF Inv, DispatchInv, Enqueued, Taken
  <1>4. ASSUME e = posting, NEW f \in received, f.write = e.write
        PROVE  f.n < e.n
    <2>1. f # e /\ f \in Event /\ Taken(f) /\ posting # NoEvent
      BY <1>2, <1>4, EventAssumption DEF Taken
    <2>2. Precedes(f, e)
      BY <1>4, <2>1 DEF Inv, DispatchInv
    <2> QED
      BY <2>2, <1>4 DEF Precedes
  <1> QED
    BY <1>3, <1>4

(* Whatever the engine, timeouts and crashes do, an event is posted once,  *)
(* the engine gets only events of committed transactions, and one that     *)
(* arrives while it is posted comes after every event of its request that  *)
(* has arrived (enqueue_committed_event, and the task that posts): a       *)
(* message's own event, its Action Items request, update and result are    *)
(* never seen in another order unless a post was given up.                 *)
THEOREM EngineFollows == Spec => EngineFollowsCommits
  <1>1. Inv /\ [Next]_vars => [FollowsCommits]_vars
    BY PostFollows, ArrivalFollows DEF FollowsCommits
  <1>2. Spec => [][FollowsCommits]_vars
    BY <1>1, InvariantHolds, PTL DEF Spec
  <1>3. [][FollowsCommits]_vars => EngineFollowsCommits
    BY DEF FollowsCommits, EngineFollowsCommits
  <1> QED
    BY <1>2, <1>3
===============================================================================

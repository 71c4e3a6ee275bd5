-------------------------- MODULE ConversationProofs --------------------------
(***************************************************************************)
(* Proofs about Conversation, for any number of turns, claims, workers,    *)
(* updates, tokens and policies: types, the room's lock, and the agreement *)
(* of tasks, generations, the room's events and the request ledger.        *)
(*                                                                         *)
(* The argument: a request that has read the tables under the room's lock  *)
(* still has the lock when it writes, so what it read still holds          *)
(* (HandlersInv); the step that writes then keeps the tables in agreement  *)
(* (TasksInv, ConversationMatchesTask, TurnsInv).                          *)
(***************************************************************************)
EXTENDS Conversation, TLAPS

(* Most leaves are first-order: Zenon takes them.  A leaf that needs       *)
(* arithmetic or the theory of functions and sequences cites SMT.          *)
USE Zenon

(* What a turn has found out under the room's lock before it writes. *)
PlanHolds(h) ==
    LET turn == turning[h].turn
        plan == turning[h].plan
    IN  /\ ~Busy
        /\ Prior(turn.id) = {}
        /\ \/ plan.mode = "new" /\ plan.base = 0
           \/ /\ plan.mode = "continue"
              /\ plan.generation \in DOMAIN conversations
              /\ conversations[plan.generation].state = "ready"
              /\ plan.base = conversations[plan.generation].consumed
              /\ plan.base > 0

TurnInv(h) ==
    /\ turning[h].phase # "idle" => turning[h].turn \in Turns
    /\ turning[h].phase \in {"locked", "planned"} => roomLock = h
    /\ turning[h].phase = "planned" => PlanHolds(h)

ClaimInv(c) ==
    /\ claiming[c].phase \in {"candidate", "locked"} =>
        claiming[c].task \in RequestIds /\ tasks[claiming[c].task].state # "absent"
    /\ claiming[c].phase = "locked" => roomLock = c

(* What an update has found out under the room's lock before it writes. *)
StageHolds(w) ==
    LET t == working[w].task
    IN  /\ working[w].update \in Updates
        /\ policy.enabled /\ policy.revision = tasks[t].policy
        /\ HoldsToken(w)
        /\ Replayed(t, working[w].update.id) = {}
        /\ tasks[t].state \in Open
        /\ conversations[tasks[t].generation].active = t
        /\ working[w].now < tasks[t].expires
        /\ working[w].now < tasks[t].leaseExpires
        /\ working[w].now < tasks[t].authExpires
        /\ OrdinalAccepted(w)
        /\ CitationsValid(w)

WorkInv(w) ==
    /\ working[w].phase # "idle" =>
        /\ working[w].task \in RequestIds
        /\ tasks[working[w].task].state # "absent"
        /\ working[w].token \in Tokens
    /\ working[w].phase \in {"locked", "staged", "checked"} => roomLock = w
    /\ working[w].phase \in {"staged", "checked"} => StageHolds(w)

HandlersInv ==
    /\ \A h \in Turners : TurnInv(h)
    /\ \A c \in Claimers : ClaimInv(c)
    /\ \A w \in Workers : WorkInv(w)

(* A row of conversation_tasks by itself. *)
TaskInv(t) ==
    /\ tasks[t].state = "absent" => tasks[t] = NoTask
    /\ tasks[t].state # "absent" =>
        /\ tasks[t].generation \in DOMAIN conversations
        /\ tasks[t].decisions \subseteq DOMAIN decisions
    /\ tasks[t].state = "reserved" => tasks[t].token = None
    /\ tasks[t].state \in {"running", "completed"} => tasks[t].token # None

TasksInv ==
    /\ Len(decisions) <= MaxDecisions
    /\ \A t \in RequestIds : TaskInv(t)

(* TurnsOnce without cardinalities. *)
TurnOnce(t) ==
    /\ tasks[t].state = "absent" =>
        EventsAt("prompt", t) = {} /\ \A rec \in Prior(t) : rec.turn = None
    /\ tasks[t].state # "absent" =>
        /\ EventsAt("prompt", t) = {tasks[t].revision}
        /\ \E rec \in ledger : Prior(t) = {rec} /\ rec.turn # None
    /\ EventsAt("reply", t) = IF tasks[t].state = "completed" THEN {tasks[t].reply} ELSE {}
    /\ tasks[t].state = "completed" => tasks[t].reply > tasks[t].revision

TurnsInv == \A t \in RequestIds : TurnOnce(t)

IInv ==
    TypeOK /\ HandlersInv /\ TasksInv /\ ConversationMatchesTask /\ TurnsInv

-------------------------------------------------------------------------------
(* Sequences.                                                              *)

LEMMA AppendFacts ==
    ASSUME NEW S, NEW q \in Seq(S), NEW e \in S
    PROVE  /\ Append(q, e) \in Seq(S)
           /\ Len(q) \in Nat
           /\ Len(Append(q, e)) = Len(q) + 1
           /\ DOMAIN Append(q, e) = DOMAIN q \cup {Len(q) + 1}
           /\ DOMAIN q = 1 .. Len(q)
           /\ Len(q) + 1 \notin DOMAIN q
           /\ Append(q, e)[Len(q) + 1] = e
           /\ \A i \in DOMAIN q : Append(q, e)[i] = q[i]
  BY SMT

(* A sequence keeps its length when its elements are replaced. *)
LEMMA ReplaceFacts ==
    ASSUME NEW S, NEW q \in Seq(S), NEW f, f = [i \in DOMAIN q |-> f[i]],
           \A i \in DOMAIN q : f[i] \in S
    PROVE  f \in Seq(S) /\ Len(f) = Len(q) /\ DOMAIN f = DOMAIN q
  <1>1. f \in [1 .. Len(q) -> S] /\ Len(q) \in Nat
    BY SMT
  <1>2. f \in Seq(S)
    BY <1>1, SMT
  <1>3. DOMAIN f = 1 .. Len(f) /\ Len(f) \in Nat /\ DOMAIN f = 1 .. Len(q)
    BY <1>1, <1>2, SMT
  <1> QED
    BY <1>1, <1>2, <1>3, SMT

LEMMA ElementFacts ==
    ASSUME NEW S, NEW q \in Seq(S)
    PROVE  Len(q) \in Nat /\ DOMAIN q = 1 .. Len(q) /\ \A i \in DOMAIN q : q[i] \in S
  BY SMT

LEMMA SeqMonotonic ==
    ASSUME NEW S, NEW T, S \subseteq T, NEW q \in Seq(S)
    PROVE  q \in Seq(T)
  BY SMT

-------------------------------------------------------------------------------
(* The steps of Next, one by one. *)
LEMMA NextCases ==
    ASSUME [Next]_vars
    PROVE  \/ Tick \/ RoomDecide \/ Restart \/ UNCHANGED vars
           \/ \E id \in RequestIds : RoomMessage(id)
           \/ \E d \in DOMAIN decisions : RoomReverse(d)
           \/ \E h \in Turners :
                \/ TurnBegin(h) \/ TurnLock(h) \/ TurnPlan(h) \/ TurnRefuse(h)
                \/ TurnCommit(h) \/ TurnFail(h)
           \/ \E c \in Claimers :
                \/ ClaimBegin(c) \/ ClaimCandidate(c) \/ ClaimNothing(c) \/ ClaimLockRoom(c)
                \/ ClaimGrant(c) \/ ClaimFailTask(c) \/ ClaimExhausted(c) \/ ClaimFail(c)
           \/ \E w \in Workers :
                \/ WorkBegin(w) \/ WorkLock(w) \/ WorkAnswer(w) \/ WorkFailTask(w)
                \/ UpdateStage(w) \/ UpdateCheck(w) \/ UpdateCommit(w) \/ WorkFail(w)
  BY DEF Next, TurnStep, ClaimRead, ClaimStep, WorkStep
-------------------------------------------------------------------------------
(* Types of the locals of the requests. *)

StoreType ==
    /\ log \in Seq(LogEntry)
    /\ decisions \in Seq([source : DOMAIN log, active : BOOLEAN])
    /\ ledger \subseteq [id : RequestIds, turn : Turns \cup {None}]
    /\ conversations \in Seq(ConversationRow)
    /\ tasks \in [RequestIds -> TaskRow]
    /\ retained \subseteq [task : RequestIds, ordinal : 1 .. MaxOrdinal, kind : Kinds]
    /\ replay \subseteq [task : RequestIds, update : Updates]
    /\ disclosures \subseteq [generation : Nat, source : Source, policy : Nat]

HandlerType ==
    /\ policy \in Policies
    /\ clock \in Nat
    /\ roomLock \in Turners \cup Claimers \cup Workers \cup {None}
    /\ claimLock \in Claimers \cup {None}
    /\ turning \in [Turners -> TurnRequest]
    /\ claiming \in [Claimers -> ClaimRequest]
    /\ working \in [Workers -> WorkRequest]

LEMMA TypeSplit == TypeOK <=> StoreType /\ HandlerType
  BY DEF TypeOK, StoreType, HandlerType

LEMMA NoLocals ==
    /\ NoTurn \in TurnRequest /\ NoClaim \in ClaimRequest /\ NoWork \in WorkRequest
  BY DEF NoTurn, NoClaim, NoWork, NoPlan, TurnRequest, ClaimRequest, WorkRequest, Plan

(* Elements of the tables. *)
LEMMA Rows ==
    ASSUME TypeOK
    PROVE  /\ Len(log) \in Nat /\ DOMAIN log = 1 .. Len(log)
           /\ \A n \in DOMAIN log : log[n] \in LogEntry
           /\ Len(decisions) \in Nat /\ DOMAIN decisions = 1 .. Len(decisions)
           /\ \A d \in DOMAIN decisions :
                decisions[d].source \in DOMAIN log /\ decisions[d].active \in BOOLEAN
           /\ Len(conversations) \in Nat /\ DOMAIN conversations = 1 .. Len(conversations)
           /\ \A g \in DOMAIN conversations : g \in Nat /\ conversations[g] \in ConversationRow
           /\ \A t \in RequestIds : tasks[t] \in TaskRow
  <1>1. /\ log \in Seq(LogEntry) /\ conversations \in Seq(ConversationRow)
        /\ decisions \in Seq([source : DOMAIN log, active : BOOLEAN])
        /\ tasks \in [RequestIds -> TaskRow]
    BY DEF TypeOK
  <1>2. Len(log) \in Nat /\ DOMAIN log = 1 .. Len(log) /\ \A n \in DOMAIN log : log[n] \in LogEntry
    BY <1>1, SMT
  <1>3. /\ Len(conversations) \in Nat /\ DOMAIN conversations = 1 .. Len(conversations)
        /\ \A g \in DOMAIN conversations : g \in Nat /\ conversations[g] \in ConversationRow
    BY <1>1, SMT
  <1>4. /\ Len(decisions) \in Nat /\ DOMAIN decisions = 1 .. Len(decisions)
        /\ \A d \in DOMAIN decisions : decisions[d] \in [source : DOMAIN log, active : BOOLEAN]
    BY <1>1, ElementFacts
  <1> QED
    BY <1>1, <1>2, <1>3, <1>4

LEMMA TimesNat ==
    ASSUME TypeOK
    PROVE  DatabaseTimes \subseteq Nat
  BY ConversationAssumption, SMT DEF TypeOK, DatabaseTimes

LEMMA HandlerTypeStep ==
    ASSUME TypeOK, [Next]_vars
    PROVE  HandlerType'
  <1> USE DEF HandlerType
  <1>0. HandlerType /\ conversations \in Seq(ConversationRow) /\ tasks \in [RequestIds -> TaskRow]
    BY DEF TypeOK
  <1>1. CASE Tick
    BY <1>0, <1>1, SMT DEF Tick, store, locks, handlers
  <1>2. CASE RoomDecide
    BY <1>0, <1>2 DEF RoomDecide, locks, handlers
  <1>3. CASE Restart
    BY <1>0, <1>3, NoLocals DEF Restart
  <1>4. CASE UNCHANGED vars
    BY <1>0, <1>4 DEF vars
  <1>5. ASSUME NEW id \in RequestIds, RoomMessage(id)
        PROVE  HandlerType'
    BY <1>0, <1>5 DEF RoomMessage, locks, handlers
  <1>6. ASSUME NEW d \in DOMAIN decisions, RoomReverse(d)
        PROVE  HandlerType'
    BY <1>0, <1>6 DEF RoomReverse, locks, handlers
  <1>7. ASSUME NEW h \in Turners, TurnBegin(h)
        PROVE  HandlerType'
    <2>1. PICK turn \in Turns :
                turning' = [turning EXCEPT ![h].phase = "begun", ![h].turn = turn]
      BY <1>7 DEF TurnBegin
    <2> DEFINE new == [turning[h] EXCEPT !.phase = "begun", !.turn = turn]
    <2>2. turning[h] \in TurnRequest
      BY <1>0
    <2>3. new \in TurnRequest
      BY <2>1, <2>2, <1>0, <1>7 DEF TurnRequest
    <2>4. /\ turning' = [turning EXCEPT ![h] = new]
          /\ UNCHANGED <<policy, clock, claiming, working>>
          /\ roomLock' \in {roomLock, h, None} /\ claimLock' \in {claimLock, None}
      BY <2>1, <1>7 DEF TurnBegin, locks, LockRoom, Release, EndWork, EndClaim
    <2> HIDE DEF new
    <2> QED
      BY <1>0, <2>3, <2>4
  <1>8. ASSUME NEW h \in Turners, TurnLock(h)
        PROVE  HandlerType'
    <2> DEFINE new == [turning[h] EXCEPT !.phase = "locked", !.now = clock]
    <2>2. turning[h] \in TurnRequest
      BY <1>0
    <2>3. new \in TurnRequest
      BY <2>2, <1>0, <1>8 DEF TurnRequest
    <2>4. /\ turning' = [turning EXCEPT ![h] = new]
          /\ UNCHANGED <<policy, clock, claiming, working>>
          /\ roomLock' \in {roomLock, h, None} /\ claimLock' \in {claimLock, None}
      BY <1>8 DEF TurnLock, locks, LockRoom, Release, EndWork, EndClaim
    <2> HIDE DEF new
    <2> QED
      BY <1>0, <2>3, <2>4
  <1>9. ASSUME NEW h \in Turners, TurnPlan(h)
        PROVE  HandlerType'
    <2>1. PICK plan \in Plan :
                turning' = [turning EXCEPT ![h].phase = "planned", ![h].plan = plan]
      <3>1. Len(conversations) + 1 \in Nat
        BY <1>0, SMT
      <3>2. \A g \in DOMAIN conversations : g \in Nat /\ conversations[g].consumed \in Nat
        BY Rows DEF ConversationRow
      <3>3. Plans(turning[h].turn) \subseteq Plan
        BY <3>1, <3>2, SMT DEF Plans, Plan, Current
      <3> QED
        BY <1>9, <3>3 DEF TurnPlan
    <2> DEFINE new == [turning[h] EXCEPT !.phase = "planned", !.plan = plan]
    <2>2. turning[h] \in TurnRequest
      BY <1>0
    <2>3. new \in TurnRequest
      BY <2>1, <2>2, <1>0, <1>9 DEF TurnRequest
    <2>4. /\ turning' = [turning EXCEPT ![h] = new]
          /\ UNCHANGED <<policy, clock, claiming, working>>
          /\ roomLock' \in {roomLock, h, None} /\ claimLock' \in {claimLock, None}
      BY <2>1, <1>9 DEF TurnPlan, locks, LockRoom, Release, EndWork, EndClaim
    <2> HIDE DEF new
    <2> QED
      BY <1>0, <2>3, <2>4
  <1>10. ASSUME NEW h \in Turners, TurnRefuse(h)
        PROVE  HandlerType'
    <2>1. /\ turning' = [turning EXCEPT ![h] = NoTurn]
          /\ UNCHANGED <<policy, clock, claiming, working>>
          /\ roomLock' \in {roomLock, None} /\ claimLock' \in {claimLock, None}
      BY <1>10 DEF TurnRefuse, locks, Release, EndWork, EndClaim
    <2> QED
      BY <1>0, <2>1, NoLocals
  <1>11. ASSUME NEW h \in Turners, TurnCommit(h)
        PROVE  HandlerType'
    <2>1. /\ turning' = [turning EXCEPT ![h] = NoTurn]
          /\ UNCHANGED <<policy, clock, claiming, working>>
          /\ roomLock' \in {roomLock, None} /\ claimLock' \in {claimLock, None}
      BY <1>11 DEF TurnCommit, locks, Release, EndWork, EndClaim
    <2> QED
      BY <1>0, <2>1, NoLocals
  <1>12. ASSUME NEW h \in Turners, TurnFail(h)
        PROVE  HandlerType'
    <2>1. /\ turning' = [turning EXCEPT ![h] = NoTurn]
          /\ UNCHANGED <<policy, clock, claiming, working>>
          /\ roomLock' \in {roomLock, None} /\ claimLock' \in {claimLock, None}
      BY <1>12 DEF TurnFail, locks, Release, EndWork, EndClaim
    <2> QED
      BY <1>0, <2>1, NoLocals
  <1>13. ASSUME NEW c \in Claimers, ClaimBegin(c)
        PROVE  HandlerType'
    <2>1. PICK now \in Nat :
                claiming' = [claiming EXCEPT ![c] = [phase |-> "begun", began |-> now,
                                                     task |-> None]]
      BY <1>13, TimesNat DEF ClaimBegin
    <2> DEFINE new == [phase |-> "begun", began |-> now, task |-> None]
    <2>2. claiming[c] \in ClaimRequest
      BY <1>0
    <2>3. new \in ClaimRequest
      BY <2>1, <2>2, <1>0, <1>13 DEF ClaimRequest
    <2>4. /\ claiming' = [claiming EXCEPT ![c] = new]
          /\ UNCHANGED <<policy, clock, turning, working>>
          /\ roomLock' \in {roomLock, c, None} /\ claimLock' \in {claimLock, c, None}
      BY <2>1, <1>13 DEF ClaimBegin, locks, LockRoom, Release, EndWork, EndClaim
    <2> HIDE DEF new
    <2> QED
      BY <1>0, <2>3, <2>4
  <1>14. ASSUME NEW c \in Claimers, ClaimCandidate(c)
        PROVE  HandlerType'
    <2>1. PICK t \in RequestIds :
                claiming' = [claiming EXCEPT ![c].phase = "candidate", ![c].task = t]
      BY <1>14 DEF ClaimCandidate, Oldest, Claimable
    <2> DEFINE new == [claiming[c] EXCEPT !.phase = "candidate", !.task = t]
    <2>2. claiming[c] \in ClaimRequest
      BY <1>0
    <2>3. new \in ClaimRequest
      BY <2>1, <2>2, <1>0, <1>14 DEF ClaimRequest
    <2>4. /\ claiming' = [claiming EXCEPT ![c] = new]
          /\ UNCHANGED <<policy, clock, turning, working>>
          /\ roomLock' \in {roomLock, c, None} /\ claimLock' \in {claimLock, c, None}
      BY <2>1, <1>14 DEF ClaimCandidate, locks, LockRoom, Release, EndWork, EndClaim
    <2> HIDE DEF new
    <2> QED
      BY <1>0, <2>3, <2>4
  <1>15. ASSUME NEW c \in Claimers, ClaimNothing(c)
        PROVE  HandlerType'
    <2>1. /\ claiming' = [claiming EXCEPT ![c] = NoClaim]
          /\ UNCHANGED <<policy, clock, turning, working>>
          /\ roomLock' \in {roomLock, None} /\ claimLock' \in {claimLock, None}
      BY <1>15 DEF ClaimNothing, locks, Release, EndWork, EndClaim
    <2> QED
      BY <1>0, <2>1, NoLocals
  <1>16. ASSUME NEW c \in Claimers, ClaimLockRoom(c)
        PROVE  HandlerType'
    <2> DEFINE new == [claiming[c] EXCEPT !.phase = "locked"]
    <2>2. claiming[c] \in ClaimRequest
      BY <1>0
    <2>3. new \in ClaimRequest
      BY <2>2, <1>0, <1>16 DEF ClaimRequest
    <2>4. /\ claiming' = [claiming EXCEPT ![c] = new]
          /\ UNCHANGED <<policy, clock, turning, working>>
          /\ roomLock' \in {roomLock, c, None} /\ claimLock' \in {claimLock, c, None}
      BY <1>16 DEF ClaimLockRoom, locks, LockRoom, Release, EndWork, EndClaim
    <2> HIDE DEF new
    <2> QED
      BY <1>0, <2>3, <2>4
  <1>17. ASSUME NEW c \in Claimers, ClaimGrant(c)
        PROVE  HandlerType'
    <2>1. /\ claiming' = [claiming EXCEPT ![c] = NoClaim]
          /\ UNCHANGED <<policy, clock, turning, working>>
          /\ roomLock' \in {roomLock, None} /\ claimLock' \in {claimLock, None}
      BY <1>17 DEF ClaimGrant, locks, Release, EndWork, EndClaim
    <2> QED
      BY <1>0, <2>1, NoLocals
  <1>18. ASSUME NEW c \in Claimers, ClaimFailTask(c)
        PROVE  HandlerType'
    <2>1. PICK now \in Nat :
                claiming' = [claiming EXCEPT ![c] = [phase |-> "begun", began |-> now,
                                                     task |-> None]]
      BY <1>18, TimesNat DEF ClaimFailTask
    <2> DEFINE new == [phase |-> "begun", began |-> now, task |-> None]
    <2>2. claiming[c] \in ClaimRequest
      BY <1>0
    <2>3. new \in ClaimRequest
      BY <2>1, <2>2, <1>0, <1>18 DEF ClaimRequest
    <2>4. /\ claiming' = [claiming EXCEPT ![c] = new]
          /\ UNCHANGED <<policy, clock, turning, working>>
          /\ roomLock' \in {roomLock, c, None} /\ claimLock' \in {claimLock, c, None}
      BY <2>1, <1>18 DEF ClaimFailTask, locks, LockRoom, Release, EndWork, EndClaim
    <2> HIDE DEF new
    <2> QED
      BY <1>0, <2>3, <2>4
  <1>19. ASSUME NEW c \in Claimers, ClaimExhausted(c)
        PROVE  HandlerType'
    <2>1. /\ claiming' = [claiming EXCEPT ![c] = NoClaim]
          /\ UNCHANGED <<policy, clock, turning, working>>
          /\ roomLock' \in {roomLock, None} /\ claimLock' \in {claimLock, None}
      BY <1>19 DEF ClaimExhausted, locks, Release, EndWork, EndClaim
    <2> QED
      BY <1>0, <2>1, NoLocals
  <1>20. ASSUME NEW c \in Claimers, ClaimFail(c)
        PROVE  HandlerType'
    <2>1. /\ claiming' = [claiming EXCEPT ![c] = NoClaim]
          /\ UNCHANGED <<policy, clock, turning, working>>
          /\ roomLock' \in {roomLock, None} /\ claimLock' \in {claimLock, None}
      BY <1>20 DEF ClaimFail, locks, Release, EndWork, EndClaim
    <2> QED
      BY <1>0, <2>1, NoLocals
  <1>21. ASSUME NEW w \in Workers, WorkBegin(w)
        PROVE  HandlerType'
    <2>1. PICK t \in RequestIds, update \in Updates \cup {None}, token \in Tokens :
                working' = [working EXCEPT ![w] = [phase |-> "begun", task |-> t,
                                token |-> token, update |-> update, now |-> 0]]
      BY <1>0, <1>21 DEF WorkBegin, TaskRow
    <2> DEFINE new == [phase |-> "begun", task |-> t, token |-> token, update |-> update, now |-> 0]
    <2>2. working[w] \in WorkRequest
      BY <1>0
    <2>3. new \in WorkRequest
      BY <2>1, <2>2, <1>0, <1>21 DEF WorkRequest
    <2>4. /\ working' = [working EXCEPT ![w] = new]
          /\ UNCHANGED <<policy, clock, turning, claiming>>
          /\ roomLock' \in {roomLock, w, None} /\ claimLock' \in {claimLock, None}
      BY <2>1, <1>21 DEF WorkBegin, locks, LockRoom, Release, EndWork, EndClaim
    <2> HIDE DEF new
    <2> QED
      BY <1>0, <2>3, <2>4
  <1>22. ASSUME NEW w \in Workers, WorkLock(w)
        PROVE  HandlerType'
    <2> DEFINE new == [working[w] EXCEPT !.phase = "locked"]
    <2>2. working[w] \in WorkRequest
      BY <1>0
    <2>3. new \in WorkRequest
      BY <2>2, <1>0, <1>22 DEF WorkRequest
    <2>4. /\ working' = [working EXCEPT ![w] = new]
          /\ UNCHANGED <<policy, clock, turning, claiming>>
          /\ roomLock' \in {roomLock, w, None} /\ claimLock' \in {claimLock, None}
      BY <1>22 DEF WorkLock, locks, LockRoom, Release, EndWork, EndClaim
    <2> HIDE DEF new
    <2> QED
      BY <1>0, <2>3, <2>4
  <1>23. ASSUME NEW w \in Workers, WorkAnswer(w)
        PROVE  HandlerType'
    <2>1. /\ working' = [working EXCEPT ![w] = NoWork]
          /\ UNCHANGED <<policy, clock, turning, claiming>>
          /\ roomLock' \in {roomLock, None} /\ claimLock' \in {claimLock, None}
      BY <1>23 DEF WorkAnswer, locks, Release, EndWork, EndClaim
    <2> QED
      BY <1>0, <2>1, NoLocals
  <1>24. ASSUME NEW w \in Workers, WorkFailTask(w)
        PROVE  HandlerType'
    <2>1. /\ working' = [working EXCEPT ![w] = NoWork]
          /\ UNCHANGED <<policy, clock, turning, claiming>>
          /\ roomLock' \in {roomLock, None} /\ claimLock' \in {claimLock, None}
      BY <1>24 DEF WorkFailTask, locks, Release, EndWork, EndClaim
    <2> QED
      BY <1>0, <2>1, NoLocals
  <1>25. ASSUME NEW w \in Workers, UpdateStage(w)
        PROVE  HandlerType'
    <2> DEFINE new == [working[w] EXCEPT !.phase = "staged", !.now = clock]
    <2>2. working[w] \in WorkRequest
      BY <1>0
    <2>3. new \in WorkRequest
      BY <2>2, <1>0, <1>25 DEF WorkRequest
    <2>4. /\ working' = [working EXCEPT ![w] = new]
          /\ UNCHANGED <<policy, clock, turning, claiming>>
          /\ roomLock' \in {roomLock, w, None} /\ claimLock' \in {claimLock, None}
      BY <1>25 DEF UpdateStage, locks, LockRoom, Release, EndWork, EndClaim
    <2> HIDE DEF new
    <2> QED
      BY <1>0, <2>3, <2>4
  <1>26. ASSUME NEW w \in Workers, UpdateCheck(w)
        PROVE  HandlerType'
    <2> DEFINE new == [working[w] EXCEPT !.phase = "checked"]
    <2>2. working[w] \in WorkRequest
      BY <1>0
    <2>3. new \in WorkRequest
      BY <2>2, <1>0, <1>26 DEF WorkRequest
    <2>4. /\ working' = [working EXCEPT ![w] = new]
          /\ UNCHANGED <<policy, clock, turning, claiming>>
          /\ roomLock' \in {roomLock, w, None} /\ claimLock' \in {claimLock, None}
      BY <1>26 DEF UpdateCheck, locks, LockRoom, Release, EndWork, EndClaim
    <2> HIDE DEF new
    <2> QED
      BY <1>0, <2>3, <2>4
  <1>27. ASSUME NEW w \in Workers, UpdateCommit(w)
        PROVE  HandlerType'
    <2>1. /\ working' = [working EXCEPT ![w] = NoWork]
          /\ UNCHANGED <<policy, clock, turning, claiming>>
          /\ roomLock' \in {roomLock, None} /\ claimLock' \in {claimLock, None}
      BY <1>27 DEF UpdateCommit, locks, Release, EndWork, EndClaim
    <2> QED
      BY <1>0, <2>1, NoLocals
  <1>28. ASSUME NEW w \in Workers, WorkFail(w)
        PROVE  HandlerType'
    <2>1. /\ working' = [working EXCEPT ![w] = NoWork]
          /\ UNCHANGED <<policy, clock, turning, claiming>>
          /\ roomLock' \in {roomLock, None} /\ claimLock' \in {claimLock, None}
      BY <1>28 DEF WorkFail, locks, Release, EndWork, EndClaim
    <2> QED
      BY <1>0, <2>1, NoLocals
  <1> QED
    BY NextCases, <1>1, <1>2, <1>3, <1>4, <1>5, <1>6, <1>7, <1>8, <1>9, <1>10, <1>11,
        <1>12, <1>13, <1>14, <1>15, <1>16, <1>17, <1>18, <1>19, <1>20, <1>21, <1>22, <1>23,
        <1>24, <1>25, <1>26, <1>27, <1>28

-------------------------------------------------------------------------------
(* What the steps that write do to the tables, with the values that the    *)
(* request holds named.                                                    *)

OnlyTask(t) == \A o \in RequestIds \ {t} : tasks'[o] = tasks[o]

OnlyGeneration(g) ==
    /\ Len(conversations') = Len(conversations)
    /\ DOMAIN conversations' = DOMAIN conversations
    /\ \A o \in DOMAIN conversations \ {g} : conversations'[o] = conversations[o]

(* A turn in a new generation, ... *)
NewGeneration(t, plan) ==
    LET g == Len(conversations) + 1
    IN  /\ plan.base = 0 /\ plan.generation = g
        /\ Len(conversations') = g
        /\ DOMAIN conversations' = DOMAIN conversations \cup {g}
        /\ \A o \in DOMAIN conversations :
            /\ conversations'[o].state = "superseded"
            /\ conversations'[o].active = None
            /\ conversations'[o].consumed = conversations[o].consumed
        /\ conversations'[g].state = "reserved"
        /\ conversations'[g].active = t
        /\ conversations'[g].consumed = 0

(* ... or in one that is ready. *)
SameGeneration(t, plan) ==
    LET g == plan.generation
    IN  /\ g \in DOMAIN conversations
        /\ conversations[g].state = "ready"
        /\ plan.base = conversations[g].consumed /\ plan.base > 0
        /\ OnlyGeneration(g)
        /\ conversations'[g].state = "reserved"
        /\ conversations'[g].active = t
        /\ conversations'[g].consumed = conversations[g].consumed

TurnEffect(t, turn, plan) ==
    /\ Prior(t) = {} /\ tasks[t] = NoTask
    /\ \A g \in DOMAIN conversations : conversations[g].state \notin {"reserved", "running"}
    /\ log' = Append(log, Entry("prompt", t, TRUE))
    /\ ledger' = ledger \cup {[id |-> t, turn |-> turn]}
    /\ OnlyTask(t)
    /\ tasks'[t].state = "reserved" /\ tasks'[t].token = None
    /\ tasks'[t].generation = plan.generation /\ tasks'[t].base = plan.base
    /\ tasks'[t].revision = Len(log) + 1 /\ tasks'[t].decisions = Tellable
    /\ tasks'[t].ordinal = 0 /\ tasks'[t].reply = 0 /\ tasks'[t].cites = {}
    /\ NewGeneration(t, plan) \/ SameGeneration(t, plan)
    /\ UNCHANGED <<decisions, retained, replay, disclosures>>

(* A claim is granted. *)
GrantEffect(t, k) ==
    /\ tasks[t].state = "reserved" /\ tasks[t].token = None
    /\ conversations[tasks[t].generation].active = t
    /\ OnlyTask(t)
    /\ \E n \in Nat : tasks'[t] = [tasks[t] EXCEPT !.state = "running", !.token = k,
                                                   !.leaseExpires = n]
    /\ OnlyGeneration(tasks[t].generation)
    /\ conversations'[tasks[t].generation] =
            [conversations[tasks[t].generation] EXCEPT !.state = "running"]
    /\ UNCHANGED <<log, decisions, ledger, retained, replay, disclosures>>

(* What becomes of the generation of a task that fails, or completes. *)
GenerationLost(t) ==
    LET g == tasks[t].generation
    IN  /\ OnlyGeneration(g)
        /\ conversations'[g] =
            IF conversations[g].active = t
            THEN [conversations[g] EXCEPT !.state = "unusable", !.active = None]
            ELSE conversations[g]

GenerationReady(t) ==
    LET g == tasks[t].generation
    IN  /\ OnlyGeneration(g)
        /\ conversations'[g] = [conversations[g] EXCEPT !.state = "ready", !.active = None,
                                    !.consumed = tasks[t].revision]

(* A task is failed, or shown as failed once more. *)
FailEffect(t) ==
    /\ tasks[t].state # "absent"
    /\ tasks[t].ordinal < MaxOrdinal
    /\ OnlyTask(t)
    /\ tasks'[t] = [tasks[t] EXCEPT !.state = FailedState(tasks[t].state),
                                    !.ordinal = tasks[t].ordinal + 1]
    /\ GenerationLost(t)
    /\ retained' = retained \cup {Shown(t, tasks[t].ordinal + 1, "failed")}
    /\ UNCHANGED <<log, decisions, ledger, replay, disclosures>>

(* An update commits. *)
UpdateEffect(w, t, update) ==
    /\ StageHolds(w) /\ working[w].task = t /\ working[w].update = update
    /\ working[w].token \in Tokens
    /\ OnlyTask(t)
    /\ \E n \in Int : tasks'[t] = [tasks[t] EXCEPT
            !.ordinal = update.ordinal,
            !.state = CASE update.kind = "completed" -> "completed"
                        [] update.kind = "failed" -> "failed"
                        [] OTHER -> tasks[t].state,
            !.reply = IF update.kind = "completed" THEN Len(log) + 1 ELSE tasks[t].reply,
            !.cites = IF update.kind = "completed" THEN update.cites ELSE tasks[t].cites,
            !.progressed = n]
    /\ log' = IF update.kind = "completed" THEN Append(log, Entry("reply", t, TRUE)) ELSE log
    /\ CASE update.kind = "completed" -> GenerationReady(t)
         [] update.kind = "failed" -> GenerationLost(t)
         [] OTHER -> UNCHANGED conversations
    /\ ShowUpdate(w)
    /\ replay' = replay \cup {[task |-> t, update |-> update]}
    /\ disclosures' = IF update.kind = "completed" THEN Disclosed(t) ELSE disclosures
    /\ UNCHANGED <<decisions, ledger>>

(* The configured policy and the tables' bounds. *)
LEMMA Bounds ==
    ASSUME IInv
    PROVE  /\ policy.revision \in Nat
           /\ Tellable \subseteq DOMAIN decisions
           /\ DOMAIN decisions \subseteq 1 .. MaxDecisions
           /\ \A turn \in Turns : turn.id \in RequestIds /\ turn.expiry \in Nat
           /\ \A update \in Updates : update \in Update
  <1>1. policy \in Policy
    BY ConversationAssumption DEF IInv, TypeOK
  <1>2. /\ policy.revision \in Nat
        /\ \A turn \in Turns : turn.id \in RequestIds /\ turn.expiry \in Nat
        /\ \A update \in Updates : update \in Update
    BY <1>1, ConversationAssumption DEF Policy, Turn
  <1>3. DOMAIN decisions = 1 .. Len(decisions) /\ Len(decisions) \in Nat
    BY Rows DEF IInv
  <1>4. Len(decisions) <= MaxDecisions /\ MaxDecisions \in Nat
    BY ConversationAssumption DEF IInv, TasksInv
  <1>5. DOMAIN decisions \subseteq 1 .. MaxDecisions
    BY <1>3, <1>4, SMT
  <1> QED
    BY <1>2, <1>5 DEF Tellable

LEMMA NoTaskType == NoTask \in TaskRow
  BY ConversationAssumption, SMT DEF NoTask, TaskRow

LEMMA Turned ==
    ASSUME IInv, NEW h \in Turners, TurnCommit(h)
    PROVE  /\ \E t \in RequestIds, turn \in Turns, plan \in Plan :
                turn.id = t /\ TurnEffect(t, turn, plan)
           /\ tasks' \in [RequestIds -> TaskRow]
           /\ conversations' \in Seq(ConversationRow)
  <1>1. PICK turn \in Turns, plan \in Plan : turning[h].turn = turn /\ turning[h].plan = plan
    <2>1. turning[h].turn \in Turns
      BY DEF IInv, HandlersInv, TurnInv, TurnCommit
    <2>2. turning[h] \in TurnRequest
      BY DEF IInv, TypeOK
    <2> QED
      BY <2>1, <2>2 DEF TurnRequest
  <1>2. PICK t \in RequestIds : turn.id = t
    BY Bounds
  <1>3. /\ ~Busy /\ Prior(t) = {}
        /\ \/ plan.mode = "new" /\ plan.base = 0 /\ plan.generation = Len(conversations) + 1
           \/ /\ plan.mode = "continue"
              /\ plan.generation \in DOMAIN conversations
              /\ conversations[plan.generation].state = "ready"
              /\ plan.base = conversations[plan.generation].consumed
              /\ plan.base > 0
    BY <1>1, <1>2 DEF IInv, HandlersInv, TurnInv, TurnCommit, PlanHolds, KeysFree
  <1>4. tasks[t] = NoTask
    BY <1>3 DEF IInv, TurnsInv, TurnOnce, TasksInv, TaskInv
  <1>5. \A g \in DOMAIN conversations : conversations[g].state \notin {"reserved", "running"}
    BY <1>3 DEF Busy, Current
  <1>6. /\ log' = Append(log, Entry("prompt", t, TRUE))
        /\ ledger' = ledger \cup {[id |-> t, turn |-> turn]}
        /\ conversations' = Reserved(h)
        /\ tasks' = [tasks EXCEPT ![t] = NewTask(h)]
        /\ UNCHANGED <<decisions, retained, replay, disclosures>>
    BY <1>1, <1>2 DEF TurnCommit, TurnPersist
  <1>7. /\ NewTask(h) \in TaskRow
        /\ NewTask(h).state = "reserved" /\ NewTask(h).token = None
        /\ NewTask(h).generation = plan.generation /\ NewTask(h).base = plan.base
        /\ NewTask(h).revision = Len(log) + 1 /\ NewTask(h).decisions = Tellable
        /\ NewTask(h).ordinal = 0 /\ NewTask(h).reply = 0 /\ NewTask(h).cites = {}
    <2>1. /\ Len(log) + 1 \in Nat /\ Tellable \subseteq 1 .. MaxDecisions
          /\ policy.revision \in Nat /\ turning[h].turn.expiry \in Nat
      BY <1>1, Bounds, Rows, SMT DEF IInv
    <2>2. turning[h].now \in Nat /\ turning[h].now + Deadline \in Nat
      BY ConversationAssumption, SMT DEF IInv, TypeOK, TurnRequest
    <2>3. plan.generation \in Nat /\ plan.base \in Nat
      BY DEF Plan
    <2>4. NewTask(h) \in TaskRow
      BY <1>1, <2>1, <2>2, <2>3, NoTaskType DEF NewTask, TaskRow
    <2> QED
      BY <1>1, <2>4 DEF NewTask, NoTask
  <1>8. /\ tasks' \in [RequestIds -> TaskRow]
        /\ OnlyTask(t) /\ tasks'[t] = NewTask(h)
    BY <1>6, <1>7 DEF IInv, TypeOK, OnlyTask
  <1>9. /\ NewGeneration(t, plan) \/ SameGeneration(t, plan)
        /\ conversations' \in Seq(ConversationRow)
    <2> DEFINE n == Len(conversations)
               old == [g \in DOMAIN conversations |->
                        [conversations[g] EXCEPT !.state = "superseded", !.active = None]]
               row == [state |-> "reserved", active |-> t, consumed |-> 0,
                       policy |-> policy.revision]
    <2>0. conversations \in Seq(ConversationRow)
      BY DEF IInv, TypeOK
    <2>1. CASE plan.mode = "new"
      <3>1. conversations' = Append(old, row)
        BY <1>1, <1>2, <1>6, <2>1 DEF Reserved
      <3>2. row \in ConversationRow
        BY Bounds DEF ConversationRow
      <3>3. /\ \A g \in DOMAIN conversations :
                    /\ old[g] \in ConversationRow
                    /\ old[g].state = "superseded" /\ old[g].active = None
                    /\ old[g].consumed = conversations[g].consumed
            /\ old = [g \in DOMAIN conversations |-> old[g]]
        BY Rows DEF IInv, ConversationRow
      <3>4. row.state = "reserved" /\ row.active = t /\ row.consumed = 0
        OBVIOUS
      <3> HIDE DEF old, row
      <3>5. old \in Seq(ConversationRow) /\ Len(old) = n /\ DOMAIN old = DOMAIN conversations
        BY <2>0, <3>3, ReplaceFacts
      <3>6. /\ conversations' \in Seq(ConversationRow)
            /\ Len(conversations') = n + 1
            /\ DOMAIN conversations' = DOMAIN conversations \cup {n + 1}
            /\ conversations'[n + 1] = row
            /\ \A g \in DOMAIN conversations : conversations'[g] = old[g]
        BY <3>1, <3>2, <3>5, AppendFacts, SMT
      <3> QED
        BY <1>3, <2>1, <3>3, <3>4, <3>6 DEF NewGeneration
    <2>2. CASE plan.mode = "continue"
      <3>1. plan.generation \in DOMAIN conversations
        BY <1>3, <2>2
      <3> DEFINE g == plan.generation
                 new == [conversations[g] EXCEPT !.state = "reserved", !.active = t]
      <3>2. conversations' = [conversations EXCEPT ![g] = new]
        BY <1>1, <1>2, <1>6, <2>2 DEF Reserved
      <3>3. /\ new \in ConversationRow /\ new.state = "reserved" /\ new.active = t
            /\ new.consumed = conversations[g].consumed
        BY <3>1, Rows DEF IInv, ConversationRow
      <3> HIDE DEF new
      <3>4. /\ conversations' = [o \in DOMAIN conversations |-> conversations'[o]]
            /\ \A o \in DOMAIN conversations : conversations'[o] \in ConversationRow
            /\ \A o \in DOMAIN conversations \ {g} : conversations'[o] = conversations[o]
            /\ conversations'[g] = new
        BY <3>1, <3>2, <3>3, Rows DEF IInv
      <3>5. /\ conversations' \in Seq(ConversationRow)
            /\ Len(conversations') = n /\ DOMAIN conversations' = DOMAIN conversations
        BY <2>0, <3>4, ReplaceFacts
      <3> QED
        BY <1>3, <2>2, <3>3, <3>4, <3>5 DEF SameGeneration, OnlyGeneration
    <2> QED
      BY <2>1, <2>2 DEF Plan
  <1>10. TurnEffect(t, turn, plan)
    BY <1>3, <1>4, <1>5, <1>6, <1>7, <1>8, <1>9 DEF TurnEffect
  <1> QED
    BY <1>2, <1>8, <1>9, <1>10

LEMMA OneGeneration ==
    ASSUME TypeOK, NEW g \in DOMAIN conversations, NEW row \in ConversationRow,
           conversations' = [conversations EXCEPT ![g] = row]
    PROVE  /\ conversations' \in Seq(ConversationRow)
           /\ OnlyGeneration(g) /\ conversations'[g] = row
  <1>1. /\ conversations' = [o \in DOMAIN conversations |-> conversations'[o]]
        /\ \A o \in DOMAIN conversations : conversations'[o] \in ConversationRow
        /\ \A o \in DOMAIN conversations \ {g} : conversations'[o] = conversations[o]
        /\ conversations'[g] = row
    BY Rows
  <1>2. conversations \in Seq(ConversationRow)
    BY DEF TypeOK
  <1>3. /\ conversations' \in Seq(ConversationRow)
        /\ Len(conversations') = Len(conversations)
        /\ DOMAIN conversations' = DOMAIN conversations
    BY <1>1, <1>2, ReplaceFacts, SMT
  <1> QED
    BY <1>1, <1>3 DEF OnlyGeneration

LEMMA UnusableFacts ==
    ASSUME TypeOK, NEW t \in RequestIds, tasks[t].generation \in DOMAIN conversations,
           conversations' = Unusable(t)
    PROVE  conversations' \in Seq(ConversationRow) /\ GenerationLost(t)
  <1> DEFINE g == tasks[t].generation
             row == IF conversations[g].active = t
                    THEN [conversations[g] EXCEPT !.state = "unusable", !.active = None]
                    ELSE conversations[g]
  <1>1. row \in ConversationRow
    <2>1. conversations[g] \in ConversationRow
      BY Rows
    <2>2. \A c \in ConversationRow :
            [c EXCEPT !.state = "unusable", !.active = None] \in ConversationRow
      BY DEF ConversationRow
    <2> QED
      BY <2>1, <2>2
  <1>2. conversations' = [conversations EXCEPT ![g] = row]
    <2>1. conversations = [o \in DOMAIN conversations |-> conversations[o]]
      BY SMT DEF TypeOK
    <2> QED
      BY <2>1 DEF Unusable
  <1> HIDE DEF row
  <1>3. conversations' \in Seq(ConversationRow) /\ OnlyGeneration(g) /\ conversations'[g] = row
    BY <1>1, <1>2, OneGeneration
  <1> QED
    BY <1>3 DEF GenerationLost, row

LEMMA ReadyFacts ==
    ASSUME TypeOK, NEW t \in RequestIds, tasks[t].generation \in DOMAIN conversations,
           conversations' = Ready(t)
    PROVE  conversations' \in Seq(ConversationRow) /\ GenerationReady(t)
  <1> DEFINE g == tasks[t].generation
             row == [conversations[g] EXCEPT !.state = "ready", !.active = None,
                                             !.consumed = tasks[t].revision]
  <1>1. row \in ConversationRow
    <2>1. tasks[t].revision \in Nat
      BY Rows DEF TaskRow
    <2> QED
      BY <2>1, Rows DEF ConversationRow
  <1>2. conversations' = [conversations EXCEPT ![g] = row]
    BY Rows DEF Ready
  <1> HIDE DEF row
  <1>3. conversations' \in Seq(ConversationRow) /\ OnlyGeneration(g) /\ conversations'[g] = row
    BY <1>1, <1>2, OneGeneration
  <1> QED
    BY <1>3 DEF GenerationReady, row

(* One row of conversation_tasks changes. *)
LEMMA OneTask ==
    ASSUME TypeOK, NEW t \in RequestIds, NEW row \in TaskRow, tasks' = [tasks EXCEPT ![t] = row]
    PROVE  tasks' \in [RequestIds -> TaskRow] /\ OnlyTask(t) /\ tasks'[t] = row
  BY DEF TypeOK, OnlyTask

LEMMA Granted ==
    ASSUME IInv, NEW c \in Claimers, ClaimGrant(c)
    PROVE  /\ \E t \in RequestIds, k \in Tokens : GrantEffect(t, k)
           /\ tasks' \in [RequestIds -> TaskRow]
           /\ conversations' \in Seq(ConversationRow)
  <1>1. PICK t \in RequestIds : t = claiming[c].task /\ tasks[t].state # "absent"
    BY DEF IInv, HandlersInv, ClaimInv, ClaimGrant
  <1>2. PICK k \in Tokens : tasks' = Leased(t, k)
    BY <1>1 DEF ClaimGrant
  <1> DEFINE n == Least(tasks[t].expires + Grace, tasks[t].authExpires)
             row == [tasks[t] EXCEPT !.state = "running", !.token = k, !.leaseExpires = n]
             g == tasks[t].generation
             gen == [conversations[g] EXCEPT !.state = "running"]
  <1>3. tasks[t] \in TaskRow /\ g \in DOMAIN conversations /\ TypeOK
    BY <1>1 DEF IInv, TypeOK, TasksInv, TaskInv
  <1>4. n \in Nat
    BY <1>3, ConversationAssumption, SMT DEF TaskRow, Least
  <1>5. row \in TaskRow
    BY <1>3, <1>4 DEF TaskRow
  <1>6. tasks' = [tasks EXCEPT ![t] = row]
    BY <1>2, <1>3 DEF Leased, TypeOK
  <1>7. gen \in ConversationRow
    <2>1. conversations[g] \in ConversationRow
      BY <1>3, Rows
    <2> QED
      BY <2>1, SMT DEF ConversationRow
  <1>8. /\ conversations' = [conversations EXCEPT ![g] = gen]
        /\ UNCHANGED <<log, decisions, ledger, retained, replay, disclosures>>
    BY <1>1 DEF ClaimGrant
  <1>9. tasks' \in [RequestIds -> TaskRow] /\ OnlyTask(t) /\ tasks'[t] = row
    BY <1>3, <1>5, <1>6, OneTask
  <1>10. conversations' \in Seq(ConversationRow) /\ OnlyGeneration(g) /\ conversations'[g] = gen
    BY <1>3, <1>7, <1>8, OneGeneration
  <1>11. /\ tasks[t].state = "reserved" /\ tasks[t].token = None
         /\ conversations[g].active = t
    BY <1>1 DEF ClaimGrant, ClaimAuthority, Stale
  <1>12. GrantEffect(t, k)
    BY <1>4, <1>8, <1>9, <1>10, <1>11 DEF GrantEffect
  <1> QED
    BY <1>9, <1>10, <1>12

LEMMA Failed ==
    ASSUME IInv, NEW t \in RequestIds, tasks[t].state # "absent", FailTask(t)
    PROVE  /\ FailEffect(t)
           /\ tasks' \in [RequestIds -> TaskRow]
           /\ conversations' \in Seq(ConversationRow)
  <1> DEFINE row == [tasks[t] EXCEPT !.state = FailedState(tasks[t].state),
                                     !.ordinal = tasks[t].ordinal + 1]
  <1>1. tasks[t] \in TaskRow /\ tasks[t].generation \in DOMAIN conversations /\ TypeOK
    BY DEF IInv, TypeOK, TasksInv, TaskInv
  <1>2. /\ tasks[t].ordinal < MaxOrdinal
        /\ tasks' = [tasks EXCEPT ![t] = row]
        /\ conversations' = Unusable(t)
        /\ retained' = retained \cup {Shown(t, tasks[t].ordinal + 1, "failed")}
        /\ UNCHANGED <<log, decisions, ledger, replay, disclosures>>
    BY <1>1 DEF FailTask, TypeOK
  <1>3. tasks[t].ordinal + 1 \in 0 .. MaxOrdinal
    BY <1>1, <1>2, ConversationAssumption, SMT DEF TaskRow
  <1>4. FailedState(tasks[t].state) \in {"absent", "reserved", "running", "completed", "failed"}
    BY <1>1 DEF TaskRow, FailedState
  <1>5. row \in TaskRow
    BY <1>1, <1>3, <1>4 DEF TaskRow
  <1>6. tasks' \in [RequestIds -> TaskRow] /\ OnlyTask(t) /\ tasks'[t] = row
    BY <1>1, <1>2, <1>5, OneTask
  <1>7. conversations' \in Seq(ConversationRow) /\ GenerationLost(t)
    BY <1>1, <1>2, UnusableFacts
  <1> QED
    BY <1>2, <1>6, <1>7 DEF FailEffect

LEMMA Posted ==
    ASSUME IInv, NEW w \in Workers, UpdateCommit(w)
    PROVE  /\ \E t \in RequestIds, update \in Updates : UpdateEffect(w, t, update)
           /\ tasks' \in [RequestIds -> TaskRow]
           /\ conversations' \in Seq(ConversationRow)
  <1>1. PICK t \in RequestIds : t = working[w].task /\ tasks[t].state # "absent"
    BY DEF IInv, HandlersInv, WorkInv, UpdateCommit
  <1>2. PICK update \in Updates : update = working[w].update
    BY DEF IInv, HandlersInv, WorkInv, UpdateCommit, StageHolds
  <1>3. /\ StageHolds(w) /\ working[w].token \in Tokens /\ tasks[t].state \in Open
    BY <1>1 DEF IInv, HandlersInv, WorkInv, UpdateCommit, StageHolds
  <1>4. /\ tasks[t] \in TaskRow /\ tasks[t].generation \in DOMAIN conversations /\ TypeOK
        /\ update \in Update
    BY <1>1, Bounds DEF IInv, TypeOK, TasksInv, TaskInv
  <1> DEFINE n == IF update.kind \in Progress /\ ~Coalesced(w) THEN working[w].now
                  ELSE tasks[t].progressed
             state == CASE update.kind = "completed" -> "completed"
                        [] update.kind = "failed" -> "failed"
                        [] OTHER -> tasks[t].state
             reply == IF update.kind = "completed" THEN Len(log) + 1 ELSE tasks[t].reply
             cites == IF update.kind = "completed" THEN update.cites ELSE tasks[t].cites
             row == [tasks[t] EXCEPT !.ordinal = update.ordinal, !.state = state,
                        !.reply = reply, !.cites = cites, !.progressed = n]
  <1>5. tasks' = [tasks EXCEPT ![t] = row]
    <2>1. update.kind = "failed" => FailedState(tasks[t].state) = "failed"
      BY <1>3 DEF FailedState
    <2>2. tasks' = Updated(w)
      BY DEF UpdateCommit, UpdatePersist
    <2> QED
      BY <1>1, <1>2, <1>4, <2>1, <2>2 DEF Updated, TypeOK
  <1>6. /\ n \in Int /\ reply \in Nat /\ cites \in SUBSET Source
        /\ update.ordinal \in 0 .. MaxOrdinal
        /\ state \in {"absent", "reserved", "running", "completed", "failed"}
    <2>1. working[w].now \in Int /\ tasks[t].progressed \in Int
      BY <1>4, SMT DEF TypeOK, WorkRequest, TaskRow
    <2>2. Len(log) + 1 \in Nat /\ tasks[t].reply \in Nat
      BY <1>4, Rows, SMT DEF TaskRow
    <2>3. update.cites \in SUBSET Source /\ tasks[t].cites \in SUBSET Source
      BY <1>4 DEF TaskRow, Update
    <2>4. update.ordinal \in 0 .. MaxOrdinal
      BY <1>4, ConversationAssumption, SMT DEF Update
    <2> QED
      BY <1>4, <2>1, <2>2, <2>3, <2>4 DEF TaskRow
  <1> HIDE DEF n, state, reply, cites
  <1>7. row \in TaskRow
    BY <1>4, <1>6 DEF TaskRow
  <1>8. tasks' \in [RequestIds -> TaskRow] /\ OnlyTask(t) /\ tasks'[t] = row
    BY <1>4, <1>5, <1>7, OneTask
  <1>9. /\ conversations' \in Seq(ConversationRow)
        /\ CASE update.kind = "completed" -> GenerationReady(t)
             [] update.kind = "failed" -> GenerationLost(t)
             [] OTHER -> UNCHANGED conversations
    <2>1. conversations' = CASE update.kind = "completed" -> Ready(t)
                             [] update.kind = "failed" -> Unusable(t)
                             [] OTHER -> conversations
      BY <1>1, <1>2 DEF UpdateCommit, UpdatePersist
    <2>2. CASE update.kind = "completed"
      BY <1>4, <2>1, <2>2, ReadyFacts
    <2>3. CASE update.kind = "failed"
      BY <1>4, <2>1, <2>3, UnusableFacts
    <2>4. CASE update.kind \notin Final
      BY <1>4, <2>1, <2>4 DEF TypeOK, Final
    <2> QED
      BY <2>2, <2>3, <2>4 DEF Final
  <1>10. /\ log' = IF update.kind = "completed"
                    THEN Append(log, Entry("reply", t, TRUE)) ELSE log
         /\ ShowUpdate(w)
         /\ replay' = replay \cup {[task |-> t, update |-> update]}
         /\ disclosures' = IF update.kind = "completed" THEN Disclosed(t) ELSE disclosures
         /\ UNCHANGED <<decisions, ledger>>
    BY <1>1, <1>2 DEF UpdateCommit, UpdatePersist
  <1>11. UpdateEffect(w, t, update)
    BY <1>1, <1>2, <1>3, <1>6, <1>8, <1>9, <1>10 DEF UpdateEffect, state, reply, cites
  <1> QED
    BY <1>8, <1>9, <1>11

(* Every step leaves the tables alone or is one of these. *)
LEMMA StoreSteps ==
    ASSUME IInv, [Next]_vars
    PROVE  \/ UNCHANGED store
           \/ \E id \in RequestIds : RoomMessage(id)
           \/ RoomDecide
           \/ \E d \in DOMAIN decisions : RoomReverse(d)
           \/ \E h \in Turners : TurnCommit(h)
           \/ \E c \in Claimers : ClaimGrant(c)
           \/ \E c \in Claimers : ClaimFailTask(c)
           \/ \E w \in Workers : WorkFailTask(w)
           \/ \E w \in Workers : UpdateCommit(w)
  BY NextCases, ZenonT(40) DEF Tick, Restart, vars, store, TurnBegin, TurnLock, TurnPlan, TurnRefuse,
        TurnFail, ClaimBegin, ClaimCandidate, ClaimNothing, ClaimLockRoom, ClaimExhausted,
        ClaimFail, WorkBegin, WorkLock, WorkAnswer, UpdateStage, UpdateCheck, WorkFail

LEMMA Effects ==
    ASSUME IInv, [Next]_vars
    PROVE  \/ UNCHANGED store
           \/ \E id \in RequestIds : RoomMessage(id)
           \/ RoomDecide
           \/ \E d \in DOMAIN decisions : RoomReverse(d)
           \/ \E t \in RequestIds, turn \in Turns, plan \in Plan :
                turn.id = t /\ TurnEffect(t, turn, plan)
           \/ \E t \in RequestIds, k \in Tokens : GrantEffect(t, k)
           \/ \E t \in RequestIds : FailEffect(t)
           \/ \E w \in Workers, t \in RequestIds, update \in Updates :
                UpdateEffect(w, t, update)
  <1>1. ASSUME NEW c \in Claimers, ClaimFailTask(c)
        PROVE  \E t \in RequestIds : FailEffect(t)
    <2>1. PICK t \in RequestIds : tasks[t].state # "absent" /\ FailTask(t)
      BY <1>1 DEF IInv, HandlersInv, ClaimInv, ClaimFailTask
    <2> QED
      BY <2>1, Failed
  <1>2. ASSUME NEW w \in Workers, WorkFailTask(w)
        PROVE  \E t \in RequestIds : FailEffect(t)
    <2>1. PICK t \in RequestIds : tasks[t].state # "absent" /\ FailTask(t)
      BY <1>2 DEF IInv, HandlersInv, WorkInv, WorkFailTask, NewUpdate
    <2> QED
      BY <2>1, Failed
  <1> QED
    BY <1>1, <1>2, StoreSteps, Turned, Granted, Posted

-------------------------------------------------------------------------------
(* Types of the tables. *)

LEMMA ManifestType ==
    ASSUME IInv, NEW t \in RequestIds, tasks[t].state # "absent"
    PROVE  Manifest(t) \subseteq Source
  <1>1. /\ tasks[t].base \in Nat /\ tasks[t].revision \in Nat
        /\ tasks[t].decisions \subseteq DOMAIN decisions
    BY Rows DEF IInv, TasksInv, TaskInv, TaskRow
  <1>2. DOMAIN decisions \subseteq Nat /\ DOMAIN log \subseteq Nat
    BY Rows, SMT DEF IInv
  <1>3. \A d \in tasks[t].decisions : d \in Nat /\ decisions[d].source \in Nat
    BY <1>1, <1>2, Rows DEF IInv
  <1>4. \A e \in tasks[t].base + 1 .. tasks[t].revision : e \in Nat
    BY <1>1, SMT
  <1> QED
    BY <1>3, <1>4, SMT DEF Manifest, Source

LEMMA TablesType ==
    ASSUME IInv, [Next]_vars
    PROVE  tasks' \in [RequestIds -> TaskRow] /\ conversations' \in Seq(ConversationRow)
  <1>1. tasks \in [RequestIds -> TaskRow] /\ conversations \in Seq(ConversationRow)
    BY DEF IInv, TypeOK
  <1>2. CASE UNCHANGED <<tasks, conversations>>
    BY <1>1, <1>2
  <1>3. ASSUME NEW c \in Claimers, ClaimFailTask(c)
        PROVE  tasks' \in [RequestIds -> TaskRow] /\ conversations' \in Seq(ConversationRow)
    <2>1. PICK t \in RequestIds : tasks[t].state # "absent" /\ FailTask(t)
      BY <1>3 DEF IInv, HandlersInv, ClaimInv, ClaimFailTask
    <2> QED
      BY <2>1, Failed
  <1>4. ASSUME NEW w \in Workers, WorkFailTask(w)
        PROVE  tasks' \in [RequestIds -> TaskRow] /\ conversations' \in Seq(ConversationRow)
    <2>1. PICK t \in RequestIds : tasks[t].state # "absent" /\ FailTask(t)
      BY <1>4 DEF IInv, HandlersInv, WorkInv, WorkFailTask, NewUpdate
    <2> QED
      BY <2>1, Failed
  <1> QED
    BY <1>2, <1>3, <1>4, StoreSteps, Turned, Granted, Posted
        DEF store, RoomMessage, RoomDecide, RoomReverse

(* The room's log only grows, and so does the list of decisions. *)
LEMMA LogGrows ==
    ASSUME TypeOK, NEW e \in LogEntry, log' = Append(log, e)
    PROVE  /\ log' \in Seq(LogEntry) /\ DOMAIN log \subseteq DOMAIN log'
           /\ \A n \in DOMAIN log : log'[n] = log[n]
           /\ decisions \in Seq([source : DOMAIN log', active : BOOLEAN])
  <1>1. log \in Seq(LogEntry) /\ decisions \in Seq([source : DOMAIN log, active : BOOLEAN])
    BY DEF TypeOK
  <1>2. /\ log' \in Seq(LogEntry) /\ DOMAIN log \subseteq DOMAIN log'
        /\ \A n \in DOMAIN log : log'[n] = log[n]
    BY <1>1, AppendFacts, SMT
  <1>3. [source : DOMAIN log, active : BOOLEAN] \subseteq [source : DOMAIN log', active : BOOLEAN]
    BY <1>2
  <1>4. decisions \in Seq([source : DOMAIN log', active : BOOLEAN])
    <2> DEFINE S == [source : DOMAIN log, active : BOOLEAN]
               T == [source : DOMAIN log', active : BOOLEAN]
    <2>1. S \subseteq T /\ decisions \in Seq(S)
      BY <1>1, <1>3
    <2> HIDE DEF S, T
    <2>2. decisions \in Seq(T)
      BY <2>1, SeqMonotonic
    <2> QED
      BY <2>2 DEF T
  <1> QED
    BY <1>2, <1>4

LEMMA Entries ==
    /\ \A public \in BOOLEAN : Entry("message", None, public) \in LogEntry
    /\ Entry("decision", None, TRUE) \in LogEntry
    /\ \A t \in RequestIds :
        Entry("prompt", t, TRUE) \in LogEntry /\ Entry("reply", t, TRUE) \in LogEntry
  BY DEF Entry, LogEntry

LEMMA StoreTypeStep ==
    ASSUME IInv, [Next]_vars
    PROVE  StoreType'
  <1>0. StoreType /\ TypeOK
    BY TypeSplit DEF IInv
  <1>t. tasks' \in [RequestIds -> TaskRow] /\ conversations' \in Seq(ConversationRow)
    BY TablesType
  <1>1. CASE UNCHANGED store
    BY <1>0, <1>1 DEF StoreType, store
  <1>2. ASSUME NEW id \in RequestIds, RoomMessage(id)
        PROVE  StoreType'
    <2>1. PICK public \in BOOLEAN : log' = Append(log, Entry("message", None, public))
      BY <1>2, ConversationAssumption DEF RoomMessage
    <2>2. log' \in Seq(LogEntry) /\ decisions \in Seq([source : DOMAIN log', active : BOOLEAN])
      BY <1>0, <2>1, LogGrows, Entries
    <2>3. /\ ledger' = ledger \cup {[id |-> id, turn |-> None]}
          /\ UNCHANGED <<decisions, retained, replay, disclosures>>
      BY <1>2 DEF RoomMessage
    <2> QED
      BY <1>0, <1>t, <2>2, <2>3, SMT DEF StoreType
  <1>3. CASE RoomDecide
    <2>1. PICK n \in DOMAIN log : decisions' = Append(decisions, [source |-> n, active |-> TRUE])
      BY <1>3 DEF RoomDecide
    <2>2. log' = Append(log, Entry("decision", None, TRUE))
      BY <1>3 DEF RoomDecide
    <2>3. /\ log' \in Seq(LogEntry) /\ DOMAIN log \subseteq DOMAIN log'
          /\ decisions \in Seq([source : DOMAIN log', active : BOOLEAN])
      BY <1>0, <2>2, LogGrows, Entries
    <2>4. [source |-> n, active |-> TRUE] \in [source : DOMAIN log', active : BOOLEAN]
      BY <2>3
    <2>5. decisions' \in Seq([source : DOMAIN log', active : BOOLEAN])
      BY <2>1, <2>3, <2>4, AppendFacts
    <2>6. UNCHANGED <<ledger, retained, replay, disclosures>>
      BY <1>3 DEF RoomDecide
    <2> QED
      BY <1>0, <1>t, <2>3, <2>5, <2>6 DEF StoreType
  <1>4. ASSUME NEW d \in DOMAIN decisions, RoomReverse(d)
        PROVE  StoreType'
    <2>1. log' = Append(log, Entry("decision", None, TRUE))
      BY <1>4 DEF RoomReverse
    <2>2. /\ log' \in Seq(LogEntry)
          /\ decisions \in Seq([source : DOMAIN log', active : BOOLEAN])
      BY <1>0, <2>1, LogGrows, Entries
    <2>3. \A i \in DOMAIN decisions : decisions[i] \in [source : DOMAIN log', active : BOOLEAN]
      BY <2>2, ElementFacts
    <2>4. /\ decisions' = [i \in DOMAIN decisions |-> decisions'[i]]
          /\ \A i \in DOMAIN decisions : decisions'[i] \in [source : DOMAIN log', active : BOOLEAN]
      BY <1>4, <2>3 DEF RoomReverse
    <2>5. decisions' \in Seq([source : DOMAIN log', active : BOOLEAN])
      BY <2>2, <2>4, ReplaceFacts
    <2>6. UNCHANGED <<ledger, retained, replay, disclosures>>
      BY <1>4 DEF RoomReverse
    <2> QED
      BY <1>0, <1>t, <2>2, <2>5, <2>6 DEF StoreType
  <1>5. ASSUME NEW t \in RequestIds, NEW turn \in Turns, NEW plan \in Plan,
               TurnEffect(t, turn, plan)
        PROVE  StoreType'
    <2>1. /\ log' = Append(log, Entry("prompt", t, TRUE))
          /\ ledger' = ledger \cup {[id |-> t, turn |-> turn]}
          /\ UNCHANGED <<decisions, retained, replay, disclosures>>
      BY <1>5 DEF TurnEffect
    <2>2. log' \in Seq(LogEntry) /\ decisions \in Seq([source : DOMAIN log', active : BOOLEAN])
      BY <1>0, <2>1, LogGrows, Entries
    <2>3. ledger' \subseteq [id : RequestIds, turn : Turns \cup {None}]
      BY <1>0, <2>1, SMT DEF StoreType
    <2>4. /\ retained' \subseteq [task : RequestIds, ordinal : 1 .. MaxOrdinal, kind : Kinds]
          /\ replay' \subseteq [task : RequestIds, update : Updates]
          /\ disclosures' \subseteq [generation : Nat, source : Source, policy : Nat]
          /\ decisions' = decisions
      BY <1>0, <2>1 DEF StoreType
    <2> QED
      BY <1>t, <2>2, <2>3, <2>4 DEF StoreType
  <1>6. ASSUME NEW t \in RequestIds, NEW k \in Tokens, GrantEffect(t, k)
        PROVE  StoreType'
    <2>1. UNCHANGED <<log, decisions, ledger, retained, replay, disclosures>>
      BY <1>6 DEF GrantEffect
    <2> QED
      BY <1>0, <1>t, <2>1 DEF StoreType
  <1>7. ASSUME NEW t \in RequestIds, FailEffect(t)
        PROVE  StoreType'
    <2>1. /\ retained' = retained \cup {Shown(t, tasks[t].ordinal + 1, "failed")}
          /\ tasks[t].ordinal < MaxOrdinal
          /\ UNCHANGED <<log, decisions, ledger, replay, disclosures>>
      BY <1>7 DEF FailEffect
    <2>2. tasks[t].ordinal + 1 \in 1 .. MaxOrdinal
      <3>1. tasks[t].ordinal \in 0 .. MaxOrdinal /\ MaxOrdinal \in Nat
        BY <1>0, Rows, ConversationAssumption DEF TaskRow
      <3> QED
        BY <2>1, <3>1, SMT
    <2>3. Shown(t, tasks[t].ordinal + 1, "failed") \in
            [task : RequestIds, ordinal : 1 .. MaxOrdinal, kind : Kinds]
      BY <2>2 DEF Shown, Kinds
    <2> QED
      BY <1>0, <1>t, <2>1, <2>3 DEF StoreType
  <1>8. ASSUME NEW w \in Workers, NEW t \in RequestIds, NEW update \in Updates,
               UpdateEffect(w, t, update)
        PROVE  StoreType'
    <2>1. /\ log' = IF update.kind = "completed"
                    THEN Append(log, Entry("reply", t, TRUE)) ELSE log
          /\ replay' = replay \cup {[task |-> t, update |-> update]}
          /\ disclosures' = IF update.kind = "completed" THEN Disclosed(t) ELSE disclosures
          /\ UNCHANGED <<decisions, ledger>>
      BY <1>8 DEF UpdateEffect
    <2>2. log' \in Seq(LogEntry) /\ decisions \in Seq([source : DOMAIN log', active : BOOLEAN])
      BY <1>0, <2>1, LogGrows, Entries DEF StoreType
    <2>3. retained' \subseteq [task : RequestIds, ordinal : 1 .. MaxOrdinal, kind : Kinds]
      <3>1. Shown(t, update.ordinal, update.kind) \in
                [task : RequestIds, ordinal : 1 .. MaxOrdinal, kind : Kinds]
        BY Bounds DEF Shown, Update
      <3>2. retained' \subseteq retained \cup {Shown(t, update.ordinal, update.kind)}
        BY <1>8 DEF UpdateEffect, ShowUpdate
      <3> QED
        BY <1>0, <3>1, <3>2 DEF StoreType
    <2>4. disclosures' \subseteq [generation : Nat, source : Source, policy : Nat]
      <3>1. tasks[t].state # "absent"
        BY <1>8 DEF UpdateEffect, StageHolds, Open
      <3>2. Manifest(t) \subseteq Source /\ tasks[t].generation \in Nat /\ policy.revision \in Nat
        BY <1>0, <3>1, ManifestType, Rows, Bounds DEF TaskRow
      <3> QED
        BY <1>0, <2>1, <3>2, SMT DEF StoreType, Disclosed
    <2>5. replay' \subseteq [task : RequestIds, update : Updates]
      BY <1>0, <2>1, SMT DEF StoreType
    <2>6. /\ ledger' \subseteq [id : RequestIds, turn : Turns \cup {None}]
          /\ decisions' = decisions
      BY <1>0, <2>1 DEF StoreType
    <2> QED
      BY <1>t, <2>2, <2>3, <2>4, <2>5, <2>6 DEF StoreType
  <1> QED
    BY <1>1, <1>2, <1>3, <1>4, <1>5, <1>6, <1>7, <1>8, Effects

LEMMA TypeStep ==
    ASSUME IInv, [Next]_vars
    PROVE  TypeOK'
  BY StoreTypeStep, HandlerTypeStep, TypeSplit DEF IInv, TypeOK, StoreType, HandlerType

-------------------------------------------------------------------------------
(* The requests: what they found out under the room's lock stays true      *)
(* while they have it.                                                     *)

LEMMA PlanStable ==
    ASSUME UNCHANGED <<store, policy>>, NEW h, PlanHolds(h),
           turning'[h].turn = turning[h].turn, turning'[h].plan = turning[h].plan
    PROVE  PlanHolds(h)'
  BY DEF store, PlanHolds, Busy, Current, Prior

LEMMA ValidStable ==
    ASSUME UNCHANGED <<store, policy>>, NEW w, OrdinalAccepted(w), CitationsValid(w),
           working'[w].task = working[w].task, working'[w].update = working[w].update
    PROVE  OrdinalAccepted(w)' /\ CitationsValid(w)'
  BY SMT DEF store, OrdinalAccepted, CitationsValid, Manifest, PublicMessage, Visible

LEMMA StageStable ==
    ASSUME UNCHANGED <<store, policy>>, NEW w, StageHolds(w),
           working'[w].task = working[w].task, working'[w].token = working[w].token,
           working'[w].update = working[w].update, working'[w].now = working[w].now
    PROVE  StageHolds(w)'
  <1>1. OrdinalAccepted(w)' /\ CitationsValid(w)'
    BY ValidStable DEF StageHolds
  <1>2. HoldsToken(w)' /\ Replayed(working[w].task, working[w].update.id)' = {}
    BY DEF StageHolds, store, HoldsToken, Replayed
  <1> QED
    BY <1>1, <1>2 DEF StageHolds, store

(* A request that does not write does not disturb the others. *)
LEMMA Frame ==
    ASSUME TypeOK, HandlersInv, UNCHANGED <<store, policy>>, NEW a,
           roomLock \in {roomLock', None, a},
           \A o \in Turners \ {a} : turning'[o] = turning[o],
           \A o \in Claimers \ {a} : claiming'[o] = claiming[o],
           \A o \in Workers \ {a} : working'[o] = working[o]
    PROVE  /\ \A o \in Turners \ {a} : TurnInv(o)'
           /\ \A o \in Claimers \ {a} : ClaimInv(o)'
           /\ \A o \in Workers \ {a} : WorkInv(o)'
  <1>1. ASSUME NEW h \in Turners \ {a}
        PROVE  TurnInv(h)'
    <2>1. TurnInv(h) /\ turning'[h] = turning[h]
      BY DEF HandlersInv
    <2>2. turning[h].phase \in {"locked", "planned"} => roomLock' = h
      BY <2>1, ConversationAssumption DEF TurnInv
    <2>3. turning[h].phase = "planned" => PlanHolds(h)'
      BY <1>1, <2>1, PlanStable DEF TurnInv
    <2> QED
      BY <1>1, <2>1, <2>2, <2>3 DEF TurnInv
  <1>2. ASSUME NEW c \in Claimers \ {a}
        PROVE  ClaimInv(c)'
    <2>1. ClaimInv(c) /\ claiming'[c] = claiming[c]
      BY DEF HandlersInv
    <2>2. claiming[c].phase = "locked" => roomLock' = c
      BY <2>1, ConversationAssumption DEF ClaimInv
    <2> QED
      BY <1>2, <2>1, <2>2 DEF ClaimInv, store
  <1>3. ASSUME NEW w \in Workers \ {a}
        PROVE  WorkInv(w)'
    <2>1. WorkInv(w) /\ working'[w] = working[w]
      BY DEF HandlersInv
    <2>2. working[w].phase \in {"locked", "staged", "checked"} => roomLock' = w
      BY <2>1, ConversationAssumption DEF WorkInv
    <2>3. working[w].phase \in {"staged", "checked"} => StageHolds(w)'
      BY <1>3, <2>1, StageStable DEF WorkInv
    <2> QED
      BY <1>3, <2>1, <2>2, <2>3 DEF WorkInv, store
  <1> QED
    BY <1>1, <1>2, <1>3

(* Nor does one that writes: it has the room's lock, or no one has. *)
LEMMA WriteFrame ==
    ASSUME IInv,
           \A t \in RequestIds : tasks[t].state # "absent" => tasks'[t].state # "absent",
           \A h \in Turners : \/ h # roomLock /\ turning'[h] = turning[h]
                              \/ turning'[h].phase = "idle",
           \A c \in Claimers : \/ c # roomLock /\ claiming'[c] = claiming[c]
                               \/ claiming'[c].phase \in {"idle", "begun"},
           \A w \in Workers : \/ w # roomLock /\ working'[w] = working[w]
                              \/ working'[w].phase = "idle"
    PROVE  HandlersInv'
  <1>1. HandlersInv
    BY DEF IInv
  <1>2. ASSUME NEW h \in Turners
        PROVE  TurnInv(h)'
    BY <1>1 DEF HandlersInv, TurnInv
  <1>3. ASSUME NEW c \in Claimers
        PROVE  ClaimInv(c)'
    BY <1>1 DEF HandlersInv, ClaimInv
  <1>4. ASSUME NEW w \in Workers
        PROVE  WorkInv(w)'
    BY <1>1 DEF HandlersInv, WorkInv
  <1> QED
    BY <1>2, <1>3, <1>4 DEF HandlersInv

(* The fields of the rows that change. *)
SameContext(t) ==
    /\ tasks'[t].generation = tasks[t].generation /\ tasks'[t].base = tasks[t].base
    /\ tasks'[t].revision = tasks[t].revision /\ tasks'[t].decisions = tasks[t].decisions
    /\ tasks'[t].policy = tasks[t].policy

LEMMA GrantFields ==
    ASSUME IInv, NEW t \in RequestIds, NEW k \in Tokens, GrantEffect(t, k)
    PROVE  /\ OnlyTask(t) /\ SameContext(t)
           /\ tasks[t].state = "reserved" /\ tasks'[t].state = "running"
           /\ tasks[t].token = None /\ tasks'[t].token = k
           /\ tasks'[t].ordinal = tasks[t].ordinal /\ tasks'[t].reply = tasks[t].reply
           /\ tasks'[t].cites = tasks[t].cites
  <1>1. tasks[t] \in TaskRow
    BY Rows DEF IInv
  <1>2. PICK n \in Nat : tasks'[t] = [tasks[t] EXCEPT !.state = "running", !.token = k,
                                                      !.leaseExpires = n]
    BY DEF GrantEffect
  <1> QED
    BY <1>1, <1>2, SMT DEF GrantEffect, SameContext, TaskRow

LEMMA FailFields ==
    ASSUME IInv, NEW t \in RequestIds, FailEffect(t)
    PROVE  /\ OnlyTask(t) /\ SameContext(t)
           /\ tasks[t].state # "absent" /\ tasks'[t].state = FailedState(tasks[t].state)
           /\ tasks'[t].ordinal = tasks[t].ordinal + 1
           /\ tasks'[t].token = tasks[t].token /\ tasks'[t].reply = tasks[t].reply
           /\ tasks'[t].cites = tasks[t].cites
  <1>1. tasks[t] \in TaskRow
    BY Rows DEF IInv
  <1>2. tasks'[t] = [tasks[t] EXCEPT !.state = FailedState(tasks[t].state),
                                     !.ordinal = tasks[t].ordinal + 1]
    BY DEF FailEffect
  <1> QED
    BY <1>1, <1>2 DEF FailEffect, SameContext, TaskRow

LEMMA UpdateFields ==
    ASSUME IInv, NEW w \in Workers, NEW t \in RequestIds, NEW update \in Updates,
           UpdateEffect(w, t, update)
    PROVE  /\ OnlyTask(t) /\ SameContext(t)
           /\ tasks[t].state \in Open /\ conversations[tasks[t].generation].active = t
           /\ tasks'[t].state = CASE update.kind = "completed" -> "completed"
                                  [] update.kind = "failed" -> "failed"
                                  [] OTHER -> tasks[t].state
           /\ tasks'[t].ordinal = update.ordinal
           /\ tasks'[t].token = tasks[t].token /\ tasks[t].token \in Tokens
           /\ tasks'[t].reply = IF update.kind = "completed" THEN Len(log) + 1
                                ELSE tasks[t].reply
           /\ tasks'[t].cites = IF update.kind = "completed" THEN update.cites
                                ELSE tasks[t].cites
  <1>1. tasks[t] \in TaskRow
    BY Rows DEF IInv
  <1> DEFINE state == CASE update.kind = "completed" -> "completed"
                        [] update.kind = "failed" -> "failed"
                        [] OTHER -> tasks[t].state
             reply == IF update.kind = "completed" THEN Len(log) + 1 ELSE tasks[t].reply
             cites == IF update.kind = "completed" THEN update.cites ELSE tasks[t].cites
  <1>2. PICK n \in Int : tasks'[t] = [tasks[t] EXCEPT !.ordinal = update.ordinal,
            !.state = state, !.reply = reply, !.cites = cites, !.progressed = n]
    BY DEF UpdateEffect
  <1> HIDE DEF state, reply, cites
  <1>3. /\ SameContext(t) /\ tasks'[t].state = state /\ tasks'[t].ordinal = update.ordinal
        /\ tasks'[t].token = tasks[t].token /\ tasks'[t].reply = reply
        /\ tasks'[t].cites = cites
    BY <1>1, <1>2, SMT DEF SameContext, TaskRow
  <1>4. /\ OnlyTask(t) /\ tasks[t].state \in Open /\ tasks[t].token \in Tokens
        /\ conversations[tasks[t].generation].active = t
    BY DEF UpdateEffect, StageHolds, HoldsToken
  <1> QED
    BY <1>3, <1>4 DEF state, reply, cites

(* No task goes away. *)
LEMMA TasksStay ==
    ASSUME IInv, [Next]_vars
    PROVE  \A t \in RequestIds : tasks[t].state # "absent" => tasks'[t].state # "absent"
  <1> SUFFICES ASSUME NEW o \in RequestIds, tasks[o].state # "absent"
               PROVE  tasks'[o].state # "absent"
    OBVIOUS
  <1>0. \A t \in RequestIds : tasks[t] \in TaskRow
    BY Rows DEF IInv
  <1>1. CASE UNCHANGED tasks
    BY <1>1
  <1>2. ASSUME NEW t \in RequestIds, NEW turn \in Turns, NEW plan \in Plan,
               TurnEffect(t, turn, plan)
        PROVE  tasks'[o].state # "absent"
    BY <1>2 DEF TurnEffect, OnlyTask
  <1>3. ASSUME NEW t \in RequestIds, NEW k \in Tokens, GrantEffect(t, k)
        PROVE  tasks'[o].state # "absent"
    BY <1>3, GrantFields DEF OnlyTask
  <1>4. ASSUME NEW t \in RequestIds, FailEffect(t)
        PROVE  tasks'[o].state # "absent"
    BY <1>4, FailFields DEF OnlyTask, FailedState
  <1>5. ASSUME NEW w \in Workers, NEW t \in RequestIds, NEW update \in Updates,
               UpdateEffect(w, t, update)
        PROVE  tasks'[o].state # "absent"
    BY <1>5, UpdateFields, SMT DEF OnlyTask, Open
  <1> QED
    BY <1>1, <1>2, <1>3, <1>4, <1>5, Effects DEF store, RoomMessage, RoomDecide, RoomReverse

LEMMA HandlersStep ==
    ASSUME IInv, [Next]_vars
    PROVE  HandlersInv'
  <1>0. /\ TypeOK /\ HandlersInv
        /\ turning \in [Turners -> TurnRequest]
        /\ claiming \in [Claimers -> ClaimRequest]
        /\ working \in [Workers -> WorkRequest]
        /\ clock \in Nat
    BY DEF IInv, TypeOK
  <1>s. \A t \in RequestIds : tasks[t].state # "absent" => tasks'[t].state # "absent"
    BY TasksStay
  <1>1. CASE Tick
    <2>1. UNCHANGED <<store, policy, roomLock, turning, claiming, working>>
      BY <1>1 DEF Tick, store, locks, handlers
    <2>2. None \notin Turners \cup Claimers \cup Workers
      BY ConversationAssumption
    <2>3. /\ \A o \in Turners \ {None} : TurnInv(o)'
          /\ \A o \in Claimers \ {None} : ClaimInv(o)'
          /\ \A o \in Workers \ {None} : WorkInv(o)'
      BY <1>0, <2>1, Frame
    <2> QED
      BY <2>2, <2>3 DEF HandlersInv
  <1>2. CASE UNCHANGED vars
    <2>1. UNCHANGED <<store, policy, roomLock, turning, claiming, working>>
      BY <1>2 DEF vars, store, locks, handlers
    <2>2. None \notin Turners \cup Claimers \cup Workers
      BY ConversationAssumption
    <2>3. /\ \A o \in Turners \ {None} : TurnInv(o)'
          /\ \A o \in Claimers \ {None} : ClaimInv(o)'
          /\ \A o \in Workers \ {None} : WorkInv(o)'
      BY <1>0, <2>1, Frame
    <2> QED
      BY <2>2, <2>3 DEF HandlersInv
  <1>3. CASE Restart
    BY <1>3 DEF Restart, HandlersInv, TurnInv, ClaimInv, WorkInv, NoTurn, NoClaim, NoWork
  <1>4. ASSUME NEW h \in Turners, TurnBegin(h)
        PROVE  HandlersInv'
    <2>1. /\ UNCHANGED <<store, policy>> /\ roomLock \in {roomLock', None, h}
          /\ \A o \in Turners \ {h} : turning'[o] = turning[o]
          /\ \A o \in Claimers \ {h} : claiming'[o] = claiming[o]
          /\ \A o \in Workers \ {h} : working'[o] = working[o]
      BY <1>0, <1>4 DEF TurnBegin, store, locks, LockRoom, Release, EndClaim, EndWork
    <2>2. TurnInv(h)'
      BY <1>0, <1>4, SMT DEF TurnBegin, TurnInv, EndClaim, EndWork, TurnRequest, NoTurn
    <2>3. h \notin Claimers \cup Workers
      BY ConversationAssumption
    <2>4. /\ \A o \in Turners \ {h} : TurnInv(o)'
          /\ \A o \in Claimers \ {h} : ClaimInv(o)'
          /\ \A o \in Workers \ {h} : WorkInv(o)'
      BY <1>0, <2>1, Frame, SMT
    <2> QED
      BY <2>2, <2>3, <2>4 DEF HandlersInv
  <1>5. ASSUME NEW h \in Turners, TurnLock(h)
        PROVE  HandlersInv'
    <2>1. /\ UNCHANGED <<store, policy>> /\ roomLock \in {roomLock', None, h}
          /\ \A o \in Turners \ {h} : turning'[o] = turning[o]
          /\ \A o \in Claimers \ {h} : claiming'[o] = claiming[o]
          /\ \A o \in Workers \ {h} : working'[o] = working[o]
      BY <1>0, <1>5 DEF TurnLock, store, locks, LockRoom, Release, EndClaim, EndWork
    <2>2. TurnInv(h)'
      BY <1>0, <1>5 DEF TurnLock, LockRoom, HandlersInv, TurnInv, TurnRequest
    <2>3. h \notin Claimers \cup Workers
      BY ConversationAssumption
    <2>4. /\ \A o \in Turners \ {h} : TurnInv(o)'
          /\ \A o \in Claimers \ {h} : ClaimInv(o)'
          /\ \A o \in Workers \ {h} : WorkInv(o)'
      BY <1>0, <2>1, Frame, SMT
    <2> QED
      BY <2>2, <2>3, <2>4 DEF HandlersInv
  <1>6. ASSUME NEW h \in Turners, TurnPlan(h)
        PROVE  HandlersInv'
    <2>1. /\ UNCHANGED <<store, policy>> /\ roomLock \in {roomLock', None, h}
          /\ \A o \in Turners \ {h} : turning'[o] = turning[o]
          /\ \A o \in Claimers \ {h} : claiming'[o] = claiming[o]
          /\ \A o \in Workers \ {h} : working'[o] = working[o]
      BY <1>0, <1>6 DEF TurnPlan, store, locks, LockRoom, Release, EndClaim, EndWork
    <2>2. TurnInv(h)'
      <3>1. PICK plan \in Plans(turning[h].turn) :
                turning' = [turning EXCEPT ![h].phase = "planned", ![h].plan = plan]
        BY <1>6 DEF TurnPlan
      <3>2. /\ turning'[h].phase = "planned" /\ turning'[h].plan = plan
            /\ turning'[h].turn = turning[h].turn
        BY <1>0, <3>1 DEF TurnRequest
      <3>3. roomLock' = h /\ turning'[h].turn \in Turns
        BY <1>0, <1>6, <3>2 DEF TurnPlan, HandlersInv, TurnInv, locks
      <3>4. ~Busy /\ Prior(turning[h].turn.id) = {}
        BY <1>6 DEF TurnPlan
      <3>5. \/ plan.mode = "new" /\ plan.base = 0
            \/ /\ plan.mode = "continue"
               /\ plan.generation \in DOMAIN conversations
               /\ conversations[plan.generation].state = "ready"
               /\ plan.base = conversations[plan.generation].consumed
               /\ plan.base > 0
        BY SMT DEF Plans, Current, Continues
      <3>6. PlanHolds(h)'
        BY <2>1, <3>2, <3>4, <3>5 DEF PlanHolds, store, Busy, Current, Prior
      <3> QED
        BY <3>2, <3>3, <3>6 DEF TurnInv
    <2>3. h \notin Claimers \cup Workers
      BY ConversationAssumption
    <2>4. /\ \A o \in Turners \ {h} : TurnInv(o)'
          /\ \A o \in Claimers \ {h} : ClaimInv(o)'
          /\ \A o \in Workers \ {h} : WorkInv(o)'
      BY <1>0, <2>1, Frame, SMT
    <2> QED
      BY <2>2, <2>3, <2>4 DEF HandlersInv
  <1>7. ASSUME NEW h \in Turners, TurnRefuse(h)
        PROVE  HandlersInv'
    <2>1. /\ UNCHANGED <<store, policy>> /\ roomLock \in {roomLock', None, h}
          /\ \A o \in Turners \ {h} : turning'[o] = turning[o]
          /\ \A o \in Claimers \ {h} : claiming'[o] = claiming[o]
          /\ \A o \in Workers \ {h} : working'[o] = working[o]
      BY <1>0, <1>7 DEF TurnRefuse, store, locks, LockRoom, Release, EndClaim, EndWork
    <2>2. TurnInv(h)'
      BY <1>0, <1>7 DEF TurnRefuse, TurnInv, EndClaim, EndWork, TurnRequest, NoTurn
    <2>3. h \notin Claimers \cup Workers
      BY ConversationAssumption
    <2>4. /\ \A o \in Turners \ {h} : TurnInv(o)'
          /\ \A o \in Claimers \ {h} : ClaimInv(o)'
          /\ \A o \in Workers \ {h} : WorkInv(o)'
      BY <1>0, <2>1, Frame, SMT
    <2> QED
      BY <2>2, <2>3, <2>4 DEF HandlersInv
  <1>8. ASSUME NEW h \in Turners, TurnFail(h)
        PROVE  HandlersInv'
    <2>1. /\ UNCHANGED <<store, policy>> /\ roomLock \in {roomLock', None, h}
          /\ \A o \in Turners \ {h} : turning'[o] = turning[o]
          /\ \A o \in Claimers \ {h} : claiming'[o] = claiming[o]
          /\ \A o \in Workers \ {h} : working'[o] = working[o]
      BY <1>0, <1>8 DEF TurnFail, store, locks, LockRoom, Release, EndClaim, EndWork
    <2>2. TurnInv(h)'
      BY <1>0, <1>8 DEF TurnFail, TurnInv, EndClaim, EndWork, TurnRequest, NoTurn
    <2>3. h \notin Claimers \cup Workers
      BY ConversationAssumption
    <2>4. /\ \A o \in Turners \ {h} : TurnInv(o)'
          /\ \A o \in Claimers \ {h} : ClaimInv(o)'
          /\ \A o \in Workers \ {h} : WorkInv(o)'
      BY <1>0, <2>1, Frame, SMT
    <2> QED
      BY <2>2, <2>3, <2>4 DEF HandlersInv
  <1>9. ASSUME NEW c \in Claimers, ClaimBegin(c)
        PROVE  HandlersInv'
    <2>1. /\ UNCHANGED <<store, policy>> /\ roomLock \in {roomLock', None, c}
          /\ \A o \in Turners \ {c} : turning'[o] = turning[o]
          /\ \A o \in Claimers \ {c} : claiming'[o] = claiming[o]
          /\ \A o \in Workers \ {c} : working'[o] = working[o]
      BY <1>0, <1>9 DEF ClaimBegin, store, locks, LockRoom, Release, EndClaim, EndWork
    <2>2. ClaimInv(c)'
      BY <1>0, <1>9, SMT DEF ClaimBegin, ClaimInv, EndClaim, EndWork, ClaimRequest, NoClaim
    <2>3. c \notin Turners \cup Workers
      BY ConversationAssumption
    <2>4. /\ \A o \in Turners \ {c} : TurnInv(o)'
          /\ \A o \in Claimers \ {c} : ClaimInv(o)'
          /\ \A o \in Workers \ {c} : WorkInv(o)'
      BY <1>0, <2>1, Frame, SMT
    <2> QED
      BY <2>2, <2>3, <2>4 DEF HandlersInv
  <1>10. ASSUME NEW c \in Claimers, ClaimCandidate(c)
        PROVE  HandlersInv'
    <2>1. /\ UNCHANGED <<store, policy>> /\ roomLock \in {roomLock', None, c}
          /\ \A o \in Turners \ {c} : turning'[o] = turning[o]
          /\ \A o \in Claimers \ {c} : claiming'[o] = claiming[o]
          /\ \A o \in Workers \ {c} : working'[o] = working[o]
      BY <1>0, <1>10 DEF ClaimCandidate, store, locks, LockRoom, Release, EndClaim, EndWork
    <2>2. ClaimInv(c)'
      <3>1. PICK t \in RequestIds :
                /\ claiming' = [claiming EXCEPT ![c].phase = "candidate", ![c].task = t]
                /\ tasks[t].state # "absent"
        BY <1>10 DEF ClaimCandidate, Oldest, Claimable
      <3> QED
        BY <1>0, <1>s, <3>1 DEF ClaimInv, ClaimRequest
    <2>3. c \notin Turners \cup Workers
      BY ConversationAssumption
    <2>4. /\ \A o \in Turners \ {c} : TurnInv(o)'
          /\ \A o \in Claimers \ {c} : ClaimInv(o)'
          /\ \A o \in Workers \ {c} : WorkInv(o)'
      BY <1>0, <2>1, Frame, SMT
    <2> QED
      BY <2>2, <2>3, <2>4 DEF HandlersInv
  <1>11. ASSUME NEW c \in Claimers, ClaimNothing(c)
        PROVE  HandlersInv'
    <2>1. /\ UNCHANGED <<store, policy>> /\ roomLock \in {roomLock', None, c}
          /\ \A o \in Turners \ {c} : turning'[o] = turning[o]
          /\ \A o \in Claimers \ {c} : claiming'[o] = claiming[o]
          /\ \A o \in Workers \ {c} : working'[o] = working[o]
      BY <1>0, <1>11 DEF ClaimNothing, store, locks, LockRoom, Release, EndClaim, EndWork
    <2>2. ClaimInv(c)'
      BY <1>0, <1>11 DEF ClaimNothing, ClaimInv, EndClaim, EndWork, ClaimRequest, NoClaim
    <2>3. c \notin Turners \cup Workers
      BY ConversationAssumption
    <2>4. /\ \A o \in Turners \ {c} : TurnInv(o)'
          /\ \A o \in Claimers \ {c} : ClaimInv(o)'
          /\ \A o \in Workers \ {c} : WorkInv(o)'
      BY <1>0, <2>1, Frame, SMT
    <2> QED
      BY <2>2, <2>3, <2>4 DEF HandlersInv
  <1>12. ASSUME NEW c \in Claimers, ClaimLockRoom(c)
        PROVE  HandlersInv'
    <2>1. /\ UNCHANGED <<store, policy>> /\ roomLock \in {roomLock', None, c}
          /\ \A o \in Turners \ {c} : turning'[o] = turning[o]
          /\ \A o \in Claimers \ {c} : claiming'[o] = claiming[o]
          /\ \A o \in Workers \ {c} : working'[o] = working[o]
      BY <1>0, <1>12 DEF ClaimLockRoom, store, locks, LockRoom, Release, EndClaim, EndWork
    <2>2. ClaimInv(c)'
      BY <1>0, <1>s, <1>12 DEF ClaimLockRoom, LockRoom, HandlersInv, ClaimInv, ClaimRequest
    <2>3. c \notin Turners \cup Workers
      BY ConversationAssumption
    <2>4. /\ \A o \in Turners \ {c} : TurnInv(o)'
          /\ \A o \in Claimers \ {c} : ClaimInv(o)'
          /\ \A o \in Workers \ {c} : WorkInv(o)'
      BY <1>0, <2>1, Frame, SMT
    <2> QED
      BY <2>2, <2>3, <2>4 DEF HandlersInv
  <1>13. ASSUME NEW c \in Claimers, ClaimExhausted(c)
        PROVE  HandlersInv'
    <2>1. /\ UNCHANGED <<store, policy>> /\ roomLock \in {roomLock', None, c}
          /\ \A o \in Turners \ {c} : turning'[o] = turning[o]
          /\ \A o \in Claimers \ {c} : claiming'[o] = claiming[o]
          /\ \A o \in Workers \ {c} : working'[o] = working[o]
      BY <1>0, <1>13 DEF ClaimExhausted, store, locks, LockRoom, Release, EndClaim, EndWork
    <2>2. ClaimInv(c)'
      BY <1>0, <1>13 DEF ClaimExhausted, ClaimInv, EndClaim, EndWork, ClaimRequest, NoClaim
    <2>3. c \notin Turners \cup Workers
      BY ConversationAssumption
    <2>4. /\ \A o \in Turners \ {c} : TurnInv(o)'
          /\ \A o \in Claimers \ {c} : ClaimInv(o)'
          /\ \A o \in Workers \ {c} : WorkInv(o)'
      BY <1>0, <2>1, Frame, SMT
    <2> QED
      BY <2>2, <2>3, <2>4 DEF HandlersInv
  <1>14. ASSUME NEW c \in Claimers, ClaimFail(c)
        PROVE  HandlersInv'
    <2>1. /\ UNCHANGED <<store, policy>> /\ roomLock \in {roomLock', None, c}
          /\ \A o \in Turners \ {c} : turning'[o] = turning[o]
          /\ \A o \in Claimers \ {c} : claiming'[o] = claiming[o]
          /\ \A o \in Workers \ {c} : working'[o] = working[o]
      BY <1>0, <1>14 DEF ClaimFail, store, locks, LockRoom, Release, EndClaim, EndWork
    <2>2. ClaimInv(c)'
      BY <1>0, <1>14 DEF ClaimFail, ClaimInv, EndClaim, EndWork, ClaimRequest, NoClaim
    <2>3. c \notin Turners \cup Workers
      BY ConversationAssumption
    <2>4. /\ \A o \in Turners \ {c} : TurnInv(o)'
          /\ \A o \in Claimers \ {c} : ClaimInv(o)'
          /\ \A o \in Workers \ {c} : WorkInv(o)'
      BY <1>0, <2>1, Frame, SMT
    <2> QED
      BY <2>2, <2>3, <2>4 DEF HandlersInv
  <1>15. ASSUME NEW w \in Workers, WorkBegin(w)
        PROVE  HandlersInv'
    <2>1. /\ UNCHANGED <<store, policy>> /\ roomLock \in {roomLock', None, w}
          /\ \A o \in Turners \ {w} : turning'[o] = turning[o]
          /\ \A o \in Claimers \ {w} : claiming'[o] = claiming[o]
          /\ \A o \in Workers \ {w} : working'[o] = working[o]
      BY <1>0, <1>15 DEF WorkBegin, store, locks, LockRoom, Release, EndClaim, EndWork
    <2>2. WorkInv(w)'
      <3>1. PICK t \in RequestIds, update \in Updates \cup {None}, token \in Tokens :
                /\ tasks[t].state # "absent"
                /\ working' = [working EXCEPT ![w] = [phase |-> "begun", task |-> t,
                                token |-> token, update |-> update, now |-> 0]]
        <4>1. \A o \in RequestIds : tasks[o].token \in Tokens \cup {None}
          BY <1>0, Rows DEF TaskRow
        <4>2. {tasks[o].token : o \in RequestIds} \ {None} \subseteq Tokens
          BY <4>1
        <4> QED
          BY <1>15, <4>2 DEF WorkBegin
      <3> QED
        BY <1>0, <1>s, <3>1 DEF WorkInv
    <2>3. w \notin Turners \cup Claimers
      BY ConversationAssumption
    <2>4. /\ \A o \in Turners \ {w} : TurnInv(o)'
          /\ \A o \in Claimers \ {w} : ClaimInv(o)'
          /\ \A o \in Workers \ {w} : WorkInv(o)'
      BY <1>0, <2>1, Frame, SMT
    <2> QED
      BY <2>2, <2>3, <2>4 DEF HandlersInv
  <1>16. ASSUME NEW w \in Workers, WorkLock(w)
        PROVE  HandlersInv'
    <2>1. /\ UNCHANGED <<store, policy>> /\ roomLock \in {roomLock', None, w}
          /\ \A o \in Turners \ {w} : turning'[o] = turning[o]
          /\ \A o \in Claimers \ {w} : claiming'[o] = claiming[o]
          /\ \A o \in Workers \ {w} : working'[o] = working[o]
      BY <1>0, <1>16 DEF WorkLock, store, locks, LockRoom, Release, EndClaim, EndWork
    <2>2. WorkInv(w)'
      BY <1>0, <1>s, <1>16 DEF WorkLock, LockRoom, HandlersInv, WorkInv, WorkRequest
    <2>3. w \notin Turners \cup Claimers
      BY ConversationAssumption
    <2>4. /\ \A o \in Turners \ {w} : TurnInv(o)'
          /\ \A o \in Claimers \ {w} : ClaimInv(o)'
          /\ \A o \in Workers \ {w} : WorkInv(o)'
      BY <1>0, <2>1, Frame, SMT
    <2> QED
      BY <2>2, <2>3, <2>4 DEF HandlersInv
  <1>17. ASSUME NEW w \in Workers, WorkAnswer(w)
        PROVE  HandlersInv'
    <2>1. /\ UNCHANGED <<store, policy>> /\ roomLock \in {roomLock', None, w}
          /\ \A o \in Turners \ {w} : turning'[o] = turning[o]
          /\ \A o \in Claimers \ {w} : claiming'[o] = claiming[o]
          /\ \A o \in Workers \ {w} : working'[o] = working[o]
      BY <1>0, <1>17 DEF WorkAnswer, store, locks, LockRoom, Release, EndClaim, EndWork
    <2>2. WorkInv(w)'
      BY <1>0, <1>17 DEF WorkAnswer, WorkInv, EndClaim, EndWork, WorkRequest, NoWork
    <2>3. w \notin Turners \cup Claimers
      BY ConversationAssumption
    <2>4. /\ \A o \in Turners \ {w} : TurnInv(o)'
          /\ \A o \in Claimers \ {w} : ClaimInv(o)'
          /\ \A o \in Workers \ {w} : WorkInv(o)'
      BY <1>0, <2>1, Frame, SMT
    <2> QED
      BY <2>2, <2>3, <2>4 DEF HandlersInv
  <1>18. ASSUME NEW w \in Workers, WorkFail(w)
        PROVE  HandlersInv'
    <2>1. /\ UNCHANGED <<store, policy>> /\ roomLock \in {roomLock', None, w}
          /\ \A o \in Turners \ {w} : turning'[o] = turning[o]
          /\ \A o \in Claimers \ {w} : claiming'[o] = claiming[o]
          /\ \A o \in Workers \ {w} : working'[o] = working[o]
      BY <1>0, <1>18 DEF WorkFail, store, locks, LockRoom, Release, EndClaim, EndWork
    <2>2. WorkInv(w)'
      BY <1>0, <1>18 DEF WorkFail, WorkInv, EndClaim, EndWork, WorkRequest, NoWork
    <2>3. w \notin Turners \cup Claimers
      BY ConversationAssumption
    <2>4. /\ \A o \in Turners \ {w} : TurnInv(o)'
          /\ \A o \in Claimers \ {w} : ClaimInv(o)'
          /\ \A o \in Workers \ {w} : WorkInv(o)'
      BY <1>0, <2>1, Frame, SMT
    <2> QED
      BY <2>2, <2>3, <2>4 DEF HandlersInv
  <1>19. ASSUME NEW w \in Workers, UpdateStage(w)
        PROVE  HandlersInv'
    <2>1. /\ UNCHANGED <<store, policy>> /\ roomLock \in {roomLock', None, w}
          /\ \A o \in Turners \ {w} : turning'[o] = turning[o]
          /\ \A o \in Claimers \ {w} : claiming'[o] = claiming[o]
          /\ \A o \in Workers \ {w} : working'[o] = working[o]
      BY <1>0, <1>19 DEF UpdateStage, store, locks, LockRoom, Release, EndClaim, EndWork
    <2>2. WorkInv(w)'
      <3>1. /\ working'[w].phase = "staged" /\ working'[w].now = clock
            /\ working'[w].task = working[w].task /\ working'[w].token = working[w].token
            /\ working'[w].update = working[w].update
            /\ working[w].update \in Updates \cup {None}
        BY <1>0, <1>19 DEF UpdateStage, WorkRequest
      <3>2. /\ working[w].task \in RequestIds /\ tasks[working[w].task].state # "absent"
            /\ working[w].token \in Tokens /\ roomLock' = w
        BY <1>0, <1>19 DEF UpdateStage, NewUpdate, HandlersInv, WorkInv, locks
      <3>3. StageHolds(w)'
        <4>1. /\ NewUpdate(w) /\ HasAuthority(w) /\ OrdinalAccepted(w) /\ CitationsValid(w)
          BY <1>19 DEF UpdateStage
        <4> DEFINE t == working[w].task
        <4>2. /\ tasks[t].expires > clock /\ tasks[t].authExpires > clock
              /\ tasks[t].leaseExpires > clock
          <5>1. tasks[t] \in TaskRow /\ clock \in Nat
            BY <1>0, <3>2, Rows DEF TypeOK
          <5>2. ~Lapsed(t, clock) /\ tasks[t].leaseExpires > clock
            BY <4>1 DEF HasAuthority, LeaseAuthority
          <5> QED
            BY <5>1, <5>2, SMT DEF Lapsed, TaskRow
        <4>3. /\ policy.enabled /\ policy.revision = tasks[t].policy /\ HoldsToken(w)
              /\ tasks[t].state \in Open /\ conversations[tasks[t].generation].active = t
              /\ Replayed(t, working[w].update.id) = {} /\ working[w].update \in Updates
          BY <3>1, <4>1 DEF HasAuthority, LeaseAuthority, Barred, Stale, NewUpdate
        <4>4. OrdinalAccepted(w)' /\ CitationsValid(w)'
          BY <2>1, <3>1, <4>1, ValidStable
        <4> QED
          <5>1. /\ tasks' = tasks /\ conversations' = conversations /\ replay' = replay
                /\ policy' = policy
            BY <2>1 DEF store
          <5>2. HoldsToken(w)' /\ Replayed(t, working[w].update.id)' = {}
            BY <3>1, <4>3, <5>1 DEF HoldsToken, Replayed
          <5> QED
            BY <3>1, <4>2, <4>3, <4>4, <5>1, <5>2 DEF StageHolds
      <3> QED
        BY <1>s, <3>1, <3>2, <3>3 DEF WorkInv
    <2>3. w \notin Turners \cup Claimers
      BY ConversationAssumption
    <2>4. /\ \A o \in Turners \ {w} : TurnInv(o)'
          /\ \A o \in Claimers \ {w} : ClaimInv(o)'
          /\ \A o \in Workers \ {w} : WorkInv(o)'
      BY <1>0, <2>1, Frame, SMT
    <2> QED
      BY <2>2, <2>3, <2>4 DEF HandlersInv
  <1>20. ASSUME NEW w \in Workers, UpdateCheck(w)
        PROVE  HandlersInv'
    <2>1. /\ UNCHANGED <<store, policy>> /\ roomLock \in {roomLock', None, w}
          /\ \A o \in Turners \ {w} : turning'[o] = turning[o]
          /\ \A o \in Claimers \ {w} : claiming'[o] = claiming[o]
          /\ \A o \in Workers \ {w} : working'[o] = working[o]
      BY <1>0, <1>20 DEF UpdateCheck, store, locks, LockRoom, Release, EndClaim, EndWork
    <2>2. WorkInv(w)'
      <3>1. /\ working'[w].phase = "checked" /\ working'[w].now = working[w].now
            /\ working'[w].task = working[w].task /\ working'[w].token = working[w].token
            /\ working'[w].update = working[w].update
        BY <1>0, <1>20 DEF UpdateCheck, WorkRequest
      <3>2. /\ working[w].task \in RequestIds /\ tasks[working[w].task].state # "absent"
            /\ working[w].token \in Tokens /\ roomLock' = w /\ StageHolds(w)
        BY <1>0, <1>20 DEF UpdateCheck, HandlersInv, WorkInv, locks
      <3>3. StageHolds(w)'
        BY <2>1, <3>1, <3>2, StageStable
      <3> QED
        BY <1>s, <3>1, <3>2, <3>3 DEF WorkInv
    <2>3. w \notin Turners \cup Claimers
      BY ConversationAssumption
    <2>4. /\ \A o \in Turners \ {w} : TurnInv(o)'
          /\ \A o \in Claimers \ {w} : ClaimInv(o)'
          /\ \A o \in Workers \ {w} : WorkInv(o)'
      BY <1>0, <2>1, Frame, SMT
    <2> QED
      BY <2>2, <2>3, <2>4 DEF HandlersInv
  <1>21. ASSUME NEW id \in RequestIds, RoomMessage(id)
        PROVE  HandlersInv'
    <2>1. UNCHANGED <<turning, claiming, working>> /\ roomLock = None
      BY <1>21 DEF RoomMessage, handlers
    <2>2. None \notin Turners \cup Claimers \cup Workers
      BY ConversationAssumption
    <2> QED
      BY <1>s, <2>1, <2>2, WriteFrame
  <1>22. CASE RoomDecide
    <2>1. UNCHANGED <<turning, claiming, working>> /\ roomLock = None
      BY <1>22 DEF RoomDecide, handlers
    <2>2. None \notin Turners \cup Claimers \cup Workers
      BY ConversationAssumption
    <2> QED
      BY <1>s, <2>1, <2>2, WriteFrame
  <1>23. ASSUME NEW d \in DOMAIN decisions, RoomReverse(d)
        PROVE  HandlersInv'
    <2>1. UNCHANGED <<turning, claiming, working>> /\ roomLock = None
      BY <1>23 DEF RoomReverse, handlers
    <2>2. None \notin Turners \cup Claimers \cup Workers
      BY ConversationAssumption
    <2> QED
      BY <1>s, <2>1, <2>2, WriteFrame
  <1>24. ASSUME NEW h \in Turners, TurnCommit(h)
        PROVE  HandlersInv'
    <2>1. /\ UNCHANGED <<claiming, working>> /\ roomLock = h
          /\ turning'[h].phase = "idle"
          /\ \A o \in Turners \ {h} : turning'[o] = turning[o]
      BY <1>0, <1>24 DEF TurnCommit, HandlersInv, TurnInv, NoTurn
    <2>2. h \notin Claimers \cup Workers
      BY ConversationAssumption
    <2> QED
      BY <1>s, <2>1, <2>2, WriteFrame
  <1>25. ASSUME NEW c \in Claimers, ClaimGrant(c)
        PROVE  HandlersInv'
    <2>1. /\ UNCHANGED <<turning, working>> /\ roomLock = c
          /\ claiming'[c].phase = "idle"
          /\ \A o \in Claimers \ {c} : claiming'[o] = claiming[o]
      BY <1>0, <1>25 DEF ClaimGrant, HandlersInv, ClaimInv, EndClaim, NoClaim
    <2>2. c \notin Turners \cup Workers
      BY ConversationAssumption
    <2> QED
      BY <1>s, <2>1, <2>2, WriteFrame
  <1>26. ASSUME NEW c \in Claimers, ClaimFailTask(c)
        PROVE  HandlersInv'
    <2>1. /\ UNCHANGED <<turning, working>> /\ roomLock = c
          /\ claiming'[c].phase = "begun"
          /\ \A o \in Claimers \ {c} : claiming'[o] = claiming[o]
      BY <1>0, <1>26, SMT DEF ClaimFailTask, HandlersInv, ClaimInv, ClaimRequest
    <2>2. c \notin Turners \cup Workers
      BY ConversationAssumption
    <2> QED
      BY <1>s, <2>1, <2>2, WriteFrame
  <1>27. ASSUME NEW w \in Workers, WorkFailTask(w)
        PROVE  HandlersInv'
    <2>1. /\ UNCHANGED <<turning, claiming>> /\ roomLock = w
          /\ working'[w].phase = "idle"
          /\ \A o \in Workers \ {w} : working'[o] = working[o]
      BY <1>0, <1>27 DEF WorkFailTask, HandlersInv, WorkInv, NewUpdate, EndWork, NoWork
    <2>2. w \notin Turners \cup Claimers
      BY ConversationAssumption
    <2> QED
      BY <1>s, <2>1, <2>2, WriteFrame
  <1>28. ASSUME NEW w \in Workers, UpdateCommit(w)
        PROVE  HandlersInv'
    <2>1. /\ UNCHANGED <<turning, claiming>> /\ roomLock = w
          /\ working'[w].phase = "idle"
          /\ \A o \in Workers \ {w} : working'[o] = working[o]
      BY <1>0, <1>28 DEF UpdateCommit, HandlersInv, WorkInv, EndWork, NoWork
    <2>2. w \notin Turners \cup Claimers
      BY ConversationAssumption
    <2> QED
      BY <1>s, <2>1, <2>2, WriteFrame
  <1> QED
    BY NextCases, <1>1, <1>2, <1>3, <1>4, <1>5, <1>6, <1>7, <1>8, <1>9, <1>10, <1>11,
        <1>12, <1>13, <1>14, <1>15, <1>16, <1>17, <1>18, <1>19, <1>20, <1>21, <1>22, <1>23,
        <1>24, <1>25, <1>26, <1>27, <1>28
===============================================================================

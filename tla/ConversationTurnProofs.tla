------------------------ MODULE ConversationTurnProofs ------------------------
(***************************************************************************)
(* Proofs about Conversation, continued: the tables agree, a turn has one  *)
(* prompt and at most one reply, updates count once, no reply without      *)
(* authority, turns are leased work that is never handed on, and what the  *)
(* turns of a generation are told.                                         *)
(***************************************************************************)
EXTENDS ConversationProofs, FiniteSetTheorems

(* Most leaves are first-order: Zenon takes them.  A leaf that needs       *)
(* arithmetic or the theory of functions and sequences cites SMT.          *)
USE Zenon

-------------------------------------------------------------------------------
(* Tasks and generations.                                                  *)

LEMMA TasksStep ==
    ASSUME IInv, [Next]_vars
    PROVE  TasksInv'
  <1>0. /\ Len(decisions) <= MaxDecisions
        /\ \A t \in RequestIds : TaskInv(t)
    BY DEF IInv, TasksInv
  <1>1. CASE UNCHANGED <<decisions, conversations, tasks>>
    BY <1>0, <1>1 DEF TasksInv, TaskInv
  <1>2. CASE RoomDecide
    <2>1. /\ Len(decisions) < MaxDecisions
          /\ \E n \in DOMAIN log :
                decisions' = Append(decisions, [source |-> n, active |-> TRUE])
          /\ UNCHANGED <<conversations, tasks>>
      BY <1>2 DEF RoomDecide
    <2>2. decisions \in Seq([source : DOMAIN log, active : BOOLEAN])
      BY DEF IInv, TypeOK
    <2>3. /\ Len(decisions') = Len(decisions) + 1
          /\ Len(decisions) \in Nat
          /\ DOMAIN decisions \subseteq DOMAIN decisions'
      BY <2>1, <2>2, AppendFacts, SMT
    <2>4. Len(decisions') <= MaxDecisions
      BY <2>1, <2>3, ConversationAssumption, SMT
    <2> QED
      BY <1>0, <2>1, <2>3, <2>4 DEF TasksInv, TaskInv
  <1>3. ASSUME NEW d \in DOMAIN decisions, RoomReverse(d)
        PROVE  TasksInv'
    <2>1. DOMAIN decisions' = DOMAIN decisions /\ UNCHANGED <<conversations, tasks>>
      BY <1>3 DEF RoomReverse
    <2>2. /\ decisions \in Seq([source : DOMAIN log, active : BOOLEAN])
          /\ decisions' \in Seq([source : DOMAIN log', active : BOOLEAN])
      BY TypeStep DEF IInv, TypeOK
    <2>3. Len(decisions') = Len(decisions)
      BY <2>1, <2>2, ElementFacts, SMT
    <2> QED
      BY <1>0, <2>1, <2>3 DEF TasksInv, TaskInv
  <1>4. ASSUME NEW t \in RequestIds, NEW turn \in Turns, NEW plan \in Plan,
               TurnEffect(t, turn, plan)
        PROVE  TasksInv'
    <2>1. /\ plan.generation \in DOMAIN conversations'
          /\ DOMAIN conversations \subseteq DOMAIN conversations'
      BY <1>4 DEF TurnEffect, NewGeneration, SameGeneration, OnlyGeneration
    <2>2. UNCHANGED decisions /\ OnlyTask(t)
      BY <1>4 DEF TurnEffect
    <2>3. TaskInv(t)'
      BY <1>4, <2>1, <2>2, Bounds DEF TurnEffect, TaskInv
    <2>4. ASSUME NEW o \in RequestIds \ {t}
          PROVE  TaskInv(o)'
      BY <1>0, <2>1, <2>2, SMT DEF OnlyTask, TaskInv
    <2> QED
      BY <1>0, <2>2, <2>3, <2>4 DEF TasksInv
  <1>5. ASSUME NEW t \in RequestIds, UNCHANGED decisions, OnlyTask(t), SameContext(t),
               DOMAIN conversations' = DOMAIN conversations,
               tasks[t].state # "absent", tasks'[t].state # "absent",
               tasks'[t].state = "reserved" => tasks'[t].token = None,
               tasks'[t].state \in {"running", "completed"} => tasks'[t].token # None
        PROVE  TasksInv'
    <2>1. TaskInv(t)'
      BY <1>0, <1>5 DEF TaskInv, SameContext
    <2>2. ASSUME NEW o \in RequestIds \ {t}
          PROVE  TaskInv(o)'
      BY <1>0, <1>5 DEF OnlyTask, TaskInv
    <2> QED
      BY <1>0, <1>5, <2>1, <2>2 DEF TasksInv
  <1>6. ASSUME NEW t \in RequestIds, NEW k \in Tokens, GrantEffect(t, k)
        PROVE  TasksInv'
    <2>1. UNCHANGED decisions /\ DOMAIN conversations' = DOMAIN conversations
      BY <1>6 DEF GrantEffect, OnlyGeneration
    <2> QED
      BY <1>5, <1>6, <2>1, GrantFields, ConversationAssumption, SMT
  <1>7. ASSUME NEW t \in RequestIds, FailEffect(t)
        PROVE  TasksInv'
    <2>1. UNCHANGED decisions /\ DOMAIN conversations' = DOMAIN conversations
      BY <1>7 DEF FailEffect, GenerationLost, OnlyGeneration
    <2>2. /\ OnlyTask(t) /\ SameContext(t) /\ tasks[t].state # "absent"
          /\ tasks'[t].token = tasks[t].token
          /\ tasks'[t].state = IF tasks[t].state \in Open THEN "failed" ELSE tasks[t].state
      BY <1>7, FailFields DEF FailedState
    <2>3. TaskInv(t)
      BY <1>0
    <2> QED
      BY <1>5, <2>1, <2>2, <2>3 DEF TaskInv, Open
  <1>8. ASSUME NEW w \in Workers, NEW t \in RequestIds, NEW update \in Updates,
               UpdateEffect(w, t, update)
        PROVE  TasksInv'
    <2>1. UNCHANGED decisions /\ DOMAIN conversations' = DOMAIN conversations
      BY <1>8 DEF UpdateEffect, GenerationReady, GenerationLost, OnlyGeneration
    <2>2. /\ OnlyTask(t) /\ SameContext(t) /\ tasks[t].state \in Open
          /\ tasks'[t].token = tasks[t].token /\ tasks[t].token \in Tokens
          /\ tasks'[t].state \in {"completed", "failed", tasks[t].state}
      BY <1>8, UpdateFields
    <2>3. TaskInv(t)
      BY <1>0
    <2> QED
      BY <1>5, <2>1, <2>2, <2>3, ConversationAssumption DEF TaskInv, Open
  <1> QED
    BY <1>1, <1>2, <1>3, <1>4, <1>6, <1>7, <1>8, Effects DEF store, RoomMessage

(* ConversationMatchesTask for one generation. *)
MatchOf(g) ==
    /\ conversations[g].state = "superseded" <=> g < Len(conversations)
    /\ conversations[g].state \in {"reserved", "running"} <=> conversations[g].active # None
    /\ conversations[g].active # None =>
        /\ conversations[g].active \in RequestIds
        /\ tasks[conversations[g].active].generation = g
        /\ tasks[conversations[g].active].state = conversations[g].state
    /\ \A t \in RequestIds : tasks[t].generation = g =>
        /\ tasks[t].state \in Open => conversations[g].active = t
        /\ tasks[t].state = "failed" => conversations[g].state \in {"unusable", "superseded"}

LEMMA NoGenerationZero ==
    ASSUME TypeOK
    PROVE  0 \notin DOMAIN conversations
  BY Rows, SMT

LEMMA Matches == ConversationMatchesTask <=> \A g \in DOMAIN conversations : MatchOf(g)
  BY DEF ConversationMatchesTask, MatchOf, TasksOf

LEMMA MatchStep ==
    ASSUME IInv, [Next]_vars
    PROVE  ConversationMatchesTask'
  <1>0. /\ \A g \in DOMAIN conversations : MatchOf(g)
        /\ \A t \in RequestIds : TaskInv(t)
        /\ Len(conversations) \in Nat /\ DOMAIN conversations = 1 .. Len(conversations)
        /\ \A g \in DOMAIN conversations : conversations[g] \in ConversationRow
        /\ None \notin RequestIds
    BY Rows, Matches, ConversationAssumption DEF IInv, TasksInv
  <1> SUFFICES \A g \in DOMAIN conversations' : MatchOf(g)'
    BY DEF ConversationMatchesTask, MatchOf, TasksOf
  <1>1. CASE UNCHANGED <<conversations, tasks>>
    BY <1>0, <1>1, SMT DEF MatchOf
  <1>2. ASSUME NEW t \in RequestIds, NEW turn \in Turns, NEW plan \in Plan,
               TurnEffect(t, turn, plan)
        PROVE  \A g \in DOMAIN conversations' : MatchOf(g)'
    <2>1. /\ OnlyTask(t) /\ tasks'[t].state = "reserved"
          /\ tasks'[t].generation = plan.generation
          /\ tasks[t].generation = 0 /\ tasks[t].state = "absent"
          /\ \A g \in DOMAIN conversations : conversations[g].state \notin {"reserved", "running"}
      BY <1>2, SMT DEF TurnEffect, NoTask
    <2>2. /\ \A g \in DOMAIN conversations : conversations[g].active = None
          /\ \A o \in RequestIds : tasks[o].state \notin Open
      BY <1>0, <2>1, SMT DEF MatchOf, TaskInv, Open
    <2>3. CASE NewGeneration(t, plan)
      <3>n. PICK n \in Nat : n = Len(conversations) + 1
        BY <1>0, SMT
      <3>1. /\ plan.generation = n /\ Len(conversations') = n
            /\ DOMAIN conversations' = DOMAIN conversations \cup {n}
            /\ \A g \in DOMAIN conversations :
                conversations'[g].state = "superseded" /\ conversations'[g].active = None
            /\ conversations'[n].state = "reserved" /\ conversations'[n].active = t
        BY <2>3, <3>n DEF NewGeneration
      <3>2. ASSUME NEW g \in DOMAIN conversations
            PROVE  MatchOf(g)'
        <4>1. g \in Nat /\ g < n
          BY <1>0, <3>n, SMT
        <4>2. ASSUME NEW o \in RequestIds, tasks'[o].generation = g
              PROVE  tasks'[o].state \notin Open
          BY <2>1, <2>2, <3>1, <4>1, <4>2 DEF OnlyTask
        <4> QED
          BY <3>1, <4>1, <4>2 DEF MatchOf
      <3>3. MatchOf(n)'
        <4>1. ASSUME NEW o \in RequestIds, tasks'[o].generation = n
              PROVE  o = t
          BY <1>0, <2>1, <3>n, <4>1, SMT DEF OnlyTask, TaskInv, NoTask
        <4>2. ~(n < n)
          BY SMT
        <4> QED
          BY <1>0, <2>1, <3>1, <4>1, <4>2 DEF MatchOf
      <3> QED
        BY <3>1, <3>2, <3>3
    <2>4. CASE SameGeneration(t, plan)
      <3>1. PICK g \in DOMAIN conversations : g = plan.generation
        BY <2>4 DEF SameGeneration
      <3>2. /\ conversations[g].state = "ready" /\ OnlyGeneration(g)
            /\ conversations'[g].state = "reserved" /\ conversations'[g].active = t
        BY <2>4, <3>1 DEF SameGeneration
      <3>3. MatchOf(g)'
        <4>1. MatchOf(g)
          BY <1>0
        <4>2. ASSUME NEW o \in RequestIds \ {t}, tasks'[o].generation = g
              PROVE  tasks'[o].state \notin Open /\ tasks'[o].state # "failed"
          BY <2>1, <2>2, <3>2, <4>1, <4>2 DEF OnlyTask, MatchOf
        <4> QED
          BY <1>0, <2>1, <3>1, <3>2, <4>1, <4>2 DEF MatchOf, OnlyGeneration
      <3>4. ASSUME NEW o \in DOMAIN conversations \ {g}
            PROVE  MatchOf(o)'
        <4>1. /\ MatchOf(o) /\ conversations'[o] = conversations[o]
              /\ Len(conversations') = Len(conversations) /\ conversations[o].active = None
          BY <1>0, <2>2, <3>2 DEF OnlyGeneration
        <4>2. ASSUME NEW p \in RequestIds, tasks'[p].generation = o
              PROVE  p # t /\ tasks'[p] = tasks[p]
          BY <2>1, <3>1, <4>2 DEF OnlyTask
        <4> QED
          BY <4>1, <4>2 DEF MatchOf
      <3> QED
        BY <3>2, <3>3, <3>4 DEF OnlyGeneration
    <2> QED
      BY <1>2, <2>3, <2>4 DEF TurnEffect
  (* The other steps change a task and its generation only. *)
  <1>3. ASSUME NEW t \in RequestIds, NEW g \in DOMAIN conversations, OnlyTask(t),
               tasks[t].generation = g, tasks'[t].generation = g, OnlyGeneration(g), MatchOf(g)'
        PROVE  \A o \in DOMAIN conversations' : MatchOf(o)'
    <2>1. ASSUME NEW o \in DOMAIN conversations \ {g}
          PROVE  MatchOf(o)'
      <3>1. /\ MatchOf(o) /\ conversations'[o] = conversations[o]
            /\ Len(conversations') = Len(conversations)
        BY <1>0, <1>3 DEF OnlyGeneration
      <3>2. \A p \in RequestIds : p # t => tasks'[p] = tasks[p]
        BY <1>3 DEF OnlyTask
      <3>3. conversations[o].active # t
        BY <1>0, <1>3, <3>1 DEF MatchOf
      <3> QED
        BY <1>3, <3>1, <3>2, <3>3 DEF MatchOf
    <2> QED
      BY <1>3, <2>1 DEF OnlyGeneration
  <1>4. ASSUME NEW t \in RequestIds, tasks[t].state # "absent"
        PROVE  tasks[t].generation \in DOMAIN conversations /\ MatchOf(tasks[t].generation)
    BY <1>0, <1>4 DEF TaskInv
  <1>5. ASSUME NEW t \in RequestIds, NEW k \in Tokens, GrantEffect(t, k)
        PROVE  \A g \in DOMAIN conversations' : MatchOf(g)'
    <2>1. PICK g \in DOMAIN conversations : g = tasks[t].generation /\ MatchOf(g)
      BY <1>4, <1>5 DEF GrantEffect
    <2>2. /\ OnlyTask(t) /\ SameContext(t) /\ tasks'[t].state = "running"
      BY <1>5, GrantFields
    <2>3. /\ conversations[g].active = t /\ OnlyGeneration(g)
          /\ conversations'[g] = [conversations[g] EXCEPT !.state = "running"]
          /\ tasks[t].state = "reserved"
      BY <1>5, <2>1 DEF GrantEffect
    <2>4. conversations'[g].state = "running" /\ conversations'[g].active = t
      BY <1>0, <2>3 DEF ConversationRow
    <2>5. MatchOf(g)'
      BY <1>0, <2>1, <2>2, <2>3, <2>4, SMT DEF MatchOf, OnlyTask, OnlyGeneration, SameContext,
          Open
    <2> QED
      BY <1>3, <2>1, <2>2, <2>3, <2>5 DEF SameContext
  (* A task that loses its generation. *)
  <1>6. ASSUME NEW t \in RequestIds, tasks[t].state \in Open, tasks'[t].state = "failed",
               OnlyTask(t), SameContext(t), GenerationLost(t)
        PROVE  \A g \in DOMAIN conversations' : MatchOf(g)'
    <2>1. PICK g \in DOMAIN conversations : g = tasks[t].generation /\ MatchOf(g)
      BY <1>4, <1>6 DEF Open
    <2>2. conversations[g].active = t
      BY <1>6, <2>1 DEF MatchOf
    <2>3. /\ OnlyGeneration(g)
          /\ conversations'[g] = [conversations[g] EXCEPT !.state = "unusable", !.active = None]
      BY <1>6, <2>1, <2>2 DEF GenerationLost
    <2>4. conversations'[g].state = "unusable" /\ conversations'[g].active = None
      BY <1>0, <2>3 DEF ConversationRow
    <2>5. MatchOf(g)'
      BY <1>0, <1>6, <2>1, <2>2, <2>3, <2>4, SMT
            DEF MatchOf, OnlyTask, OnlyGeneration, SameContext, Open
    <2> QED
      BY <1>3, <1>6, <2>1, <2>3, <2>5 DEF SameContext
  (* A task whose state and generation stay. *)
  <1>7. ASSUME NEW t \in RequestIds, tasks[t].state # "absent",
               tasks'[t].state = tasks[t].state, OnlyTask(t), SameContext(t),
               UNCHANGED conversations
        PROVE  \A g \in DOMAIN conversations' : MatchOf(g)'
    <2>1. \A o \in RequestIds : /\ tasks'[o].state = tasks[o].state
                                /\ tasks'[o].generation = tasks[o].generation
      BY <1>7 DEF OnlyTask, SameContext
    <2> QED
      BY <1>0, <1>7, <2>1, SMT DEF MatchOf
  <1>8. ASSUME NEW t \in RequestIds, FailEffect(t)
        PROVE  \A g \in DOMAIN conversations' : MatchOf(g)'
    <2>1. /\ OnlyTask(t) /\ SameContext(t) /\ tasks[t].state # "absent"
          /\ tasks'[t].state = IF tasks[t].state \in Open THEN "failed" ELSE tasks[t].state
      BY <1>8, FailFields DEF FailedState
    <2>2. GenerationLost(t)
      BY <1>8 DEF FailEffect
    <2>3. CASE tasks[t].state \in Open
      BY <1>6, <2>1, <2>2, <2>3
    <2>4. CASE tasks[t].state \notin Open
      <3>1. PICK g \in DOMAIN conversations : g = tasks[t].generation /\ MatchOf(g)
        BY <1>4, <2>1
      <3>2. conversations[g].active # t
        BY <1>0, <2>4, <3>1 DEF MatchOf, Open
      <3>3. OnlyGeneration(g) /\ conversations'[g] = conversations[g]
        BY <2>2, <3>1, <3>2 DEF GenerationLost
      <3>4. MatchOf(g)'
        BY <2>1, <2>4, <3>1, <3>2, <3>3, SMT DEF MatchOf, OnlyTask, OnlyGeneration, SameContext
      <3> QED
        BY <1>3, <2>1, <3>1, <3>3, <3>4 DEF SameContext
    <2> QED
      BY <2>3, <2>4
  <1>9. ASSUME NEW w \in Workers, NEW t \in RequestIds, NEW update \in Updates,
               UpdateEffect(w, t, update)
        PROVE  \A g \in DOMAIN conversations' : MatchOf(g)'
    <2>1. /\ OnlyTask(t) /\ SameContext(t) /\ tasks[t].state \in Open
          /\ conversations[tasks[t].generation].active = t
          /\ tasks'[t].state = CASE update.kind = "completed" -> "completed"
                                 [] update.kind = "failed" -> "failed"
                                 [] OTHER -> tasks[t].state
      BY <1>9, UpdateFields, SMT
    <2>2. CASE update.kind = "completed"
      <3>1. PICK g \in DOMAIN conversations : g = tasks[t].generation /\ MatchOf(g)
        BY <1>4, <2>1 DEF Open
      <3>2. GenerationReady(t)
        BY <1>9, <2>2 DEF UpdateEffect
      <3>3. /\ OnlyGeneration(g)
            /\ conversations'[g] = [conversations[g] EXCEPT !.state = "ready",
                                        !.active = None, !.consumed = tasks[t].revision]
        BY <3>1, <3>2 DEF GenerationReady
      <3>4. conversations'[g].state = "ready" /\ conversations'[g].active = None
        BY <1>0, <3>3 DEF ConversationRow
      <3>5. tasks'[t].state = "completed" /\ tasks[t].state = conversations[g].state
        BY <1>0, <2>1, <2>2, <3>1 DEF MatchOf
      <3>6. MatchOf(g)'
        <4>1. ~ (g < Len(conversations'))
          BY <2>1, <3>1, <3>3, <3>5 DEF MatchOf, OnlyGeneration, Open
        <4>2. ASSUME NEW o \in RequestIds, tasks'[o].generation = g
              PROVE  tasks'[o].state \notin Open /\ tasks'[o].state # "failed"
          <5>1. CASE o = t
            BY <3>5, <5>1 DEF Open
          <5>2. CASE o # t
            <6>1. tasks'[o] = tasks[o]
              BY <2>1, <5>2 DEF OnlyTask
            <6> QED
              BY <2>1, <3>1, <3>5, <4>2, <5>2, <6>1 DEF MatchOf, Open
          <5> QED
            BY <5>1, <5>2
        <4> QED
          BY <3>4, <4>1, <4>2 DEF MatchOf
      <3> QED
        BY <1>3, <2>1, <3>1, <3>3, <3>6 DEF SameContext
    <2>3. CASE update.kind = "failed"
      <3>1. GenerationLost(t) /\ tasks'[t].state = "failed"
        BY <1>9, <2>1, <2>3 DEF UpdateEffect
      <3> QED
        BY <1>6, <2>1, <3>1
    <2>4. CASE update.kind \notin {"completed", "failed"}
      <3>1. UNCHANGED conversations /\ tasks'[t].state = tasks[t].state
        BY <1>9, <2>1, <2>4 DEF UpdateEffect
      <3> QED
        BY <1>7, <2>1, <3>1 DEF Open
    <2> QED
      BY <2>2, <2>3, <2>4
  <1> QED
    BY <1>1, <1>2, <1>5, <1>8, <1>9, Effects DEF store, RoomMessage, RoomDecide, RoomReverse

-------------------------------------------------------------------------------
(* Prompts, replies and the request ledger.                                *)

LEMMA EventsAppend ==
    ASSUME TypeOK, NEW e \in LogEntry, log' = Append(log, e), NEW t \in RequestIds
    PROVE  /\ EventsAt("prompt", t)' = IF e.kind = "prompt" /\ e.task = t
                                       THEN EventsAt("prompt", t) \cup {Len(log) + 1}
                                       ELSE EventsAt("prompt", t)
           /\ EventsAt("reply", t)' = IF e.kind = "reply" /\ e.task = t
                                      THEN EventsAt("reply", t) \cup {Len(log) + 1}
                                      ELSE EventsAt("reply", t)
  <1> DEFINE n == Len(log) + 1
  <1>1. /\ DOMAIN log' = DOMAIN log \cup {n} /\ n \notin DOMAIN log /\ log'[n] = e
        /\ \A i \in DOMAIN log : log'[i] = log[i]
    BY AppendFacts, SMT DEF TypeOK
  <1> HIDE DEF n
  <1>2. EventsAt("prompt", t)' = IF e.kind = "prompt" /\ e.task = t
                                 THEN EventsAt("prompt", t) \cup {n} ELSE EventsAt("prompt", t)
    BY <1>1 DEF EventsAt
  <1>3. EventsAt("reply", t)' = IF e.kind = "reply" /\ e.task = t
                                THEN EventsAt("reply", t) \cup {n} ELSE EventsAt("reply", t)
    BY <1>1 DEF EventsAt
  <1> QED
    BY <1>2, <1>3 DEF n

LEMMA PriorAdd ==
    ASSUME NEW rec, ledger' = ledger \cup {rec}, NEW t \in RequestIds
    PROVE  /\ rec.id = t => Prior(t)' = Prior(t) \cup {rec}
           /\ rec.id # t => Prior(t)' = Prior(t)
  BY DEF Prior

(* A turn of which nothing that TurnOnce speaks of changes. *)
LEMMA TurnOnceStable ==
    ASSUME NEW t \in RequestIds, TurnOnce(t),
           EventsAt("prompt", t)' = EventsAt("prompt", t),
           EventsAt("reply", t)' = EventsAt("reply", t), Prior(t)' = Prior(t),
           tasks[t].state = "absent" <=> tasks'[t].state = "absent",
           tasks[t].state = "completed" <=> tasks'[t].state = "completed",
           tasks'[t].revision = tasks[t].revision, tasks'[t].reply = tasks[t].reply
    PROVE  TurnOnce(t)'
  <1>1. tasks'[t].state # "absent" => \E rec \in ledger' : Prior(t)' = {rec} /\ rec.turn # None
    BY DEF TurnOnce, Prior
  <1> QED
    BY <1>1 DEF TurnOnce

LEMMA TurnsStep ==
    ASSUME IInv, [Next]_vars
    PROVE  TurnsInv'
  <1>0. /\ TypeOK /\ \A t \in RequestIds : TurnOnce(t)
        /\ None \notin RequestIds /\ None \notin Turns
    BY ConversationAssumption DEF IInv, TurnsInv
  <1> SUFFICES \A t \in RequestIds : TurnOnce(t)'
    BY DEF TurnsInv
  <1>1. CASE UNCHANGED <<log, ledger, tasks>>
    BY <1>0, <1>1, SMT DEF TurnOnce, EventsAt, Prior
  <1>2. ASSUME NEW id \in RequestIds, RoomMessage(id)
        PROVE  \A t \in RequestIds : TurnOnce(t)'
    <2>1. PICK public \in BOOLEAN : log' = Append(log, Entry("message", None, public))
      BY <1>2, ConversationAssumption DEF RoomMessage
    <2>2. /\ ledger' = ledger \cup {[id |-> id, turn |-> None]}
          /\ Prior(id) = {} /\ UNCHANGED tasks
      BY <1>2 DEF RoomMessage
    <2>3. /\ Entry("message", None, public) \in LogEntry
          /\ Entry("message", None, public).kind = "message"
      BY <2>1, Entries DEF Entry
    <2>4. \A t \in RequestIds : /\ EventsAt("prompt", t)' = EventsAt("prompt", t)
                                /\ EventsAt("reply", t)' = EventsAt("reply", t)
      BY <1>0, <2>1, <2>3, EventsAppend
    <2>5. ASSUME NEW t \in RequestIds \ {id}
          PROVE  TurnOnce(t)'
      <3>1. Prior(t)' = Prior(t)
        BY <2>2, SMT DEF Prior
      <3> QED
        BY <1>0, <2>2, <2>4, <3>1, TurnOnceStable
    <2>6. TurnOnce(id)'
      <3>1. Prior(id)' = {[id |-> id, turn |-> None]}
        BY <2>2, SMT DEF Prior
      <3>2. tasks[id].state = "absent"
        BY <1>0, <2>2 DEF TurnOnce
      <3> QED
        BY <1>0, <2>2, <2>4, <3>1, <3>2, SMT DEF TurnOnce
    <2> QED
      BY <2>5, <2>6
  <1>3. ASSUME log' = Append(log, Entry("decision", None, TRUE)), UNCHANGED <<ledger, tasks>>
        PROVE  \A t \in RequestIds : TurnOnce(t)'
    <2>1. /\ Entry("decision", None, TRUE) \in LogEntry
          /\ Entry("decision", None, TRUE).kind = "decision"
      BY Entries DEF Entry
    <2>2. \A t \in RequestIds : /\ EventsAt("prompt", t)' = EventsAt("prompt", t)
                                /\ EventsAt("reply", t)' = EventsAt("reply", t)
                                /\ Prior(t)' = Prior(t)
      BY <1>0, <1>3, <2>1, EventsAppend DEF Prior
    <2> QED
      BY <1>0, <1>3, <2>2, TurnOnceStable
  <1>4. ASSUME NEW t \in RequestIds, NEW turn \in Turns, NEW plan \in Plan,
               TurnEffect(t, turn, plan)
        PROVE  \A o \in RequestIds : TurnOnce(o)'
    <2>1. /\ Prior(t) = {} /\ tasks[t].state = "absent" /\ OnlyTask(t)
          /\ tasks'[t].state = "reserved" /\ tasks'[t].revision = Len(log) + 1
      BY <1>4, SMT DEF TurnEffect, NoTask
    <2>2. PICK e \in LogEntry : log' = Append(log, e) /\ e.kind = "prompt" /\ e.task = t
      BY <1>4, Entries DEF TurnEffect, Entry
    <2>5. PICK rec \in [id : RequestIds, turn : Turns] :
            ledger' = ledger \cup {rec} /\ rec.id = t /\ rec.turn = turn
      <3>1. /\ [id |-> t, turn |-> turn] \in [id : RequestIds, turn : Turns]
            /\ [id |-> t, turn |-> turn].id = t /\ [id |-> t, turn |-> turn].turn = turn
        OBVIOUS
      <3>2. ledger' = ledger \cup {[id |-> t, turn |-> turn]}
        BY <1>4 DEF TurnEffect
      <3> QED
        BY <3>1, <3>2
    <2>3. ASSUME NEW o \in RequestIds \ {t}
          PROVE  TurnOnce(o)'
      <3>1. /\ EventsAt("prompt", o)' = EventsAt("prompt", o)
            /\ EventsAt("reply", o)' = EventsAt("reply", o)
        BY <1>0, <2>1, <2>2, EventsAppend
      <3>2. Prior(o)' = Prior(o)
        BY <2>5, PriorAdd
      <3> QED
        BY <1>0, <2>1, <3>1, <3>2, TurnOnceStable DEF OnlyTask
    <2>4. TurnOnce(t)'
      <3>1. /\ EventsAt("prompt", t)' = EventsAt("prompt", t) \cup {Len(log) + 1}
            /\ EventsAt("reply", t)' = EventsAt("reply", t)
        BY <1>0, <2>1, <2>2, EventsAppend
      <3>2. EventsAt("prompt", t) = {} /\ EventsAt("reply", t) = {}
        BY <1>0, <2>1 DEF TurnOnce
      <3>3. \E r \in ledger' : Prior(t)' = {r} /\ r.turn # None
        <4>1. Prior(t)' = {rec}
          BY <2>1, <2>5, PriorAdd, SMT
        <4> QED
          BY <1>0, <2>5, <4>1
      <3> QED
        BY <2>1, <3>1, <3>2, <3>3 DEF TurnOnce
    <2> QED
      BY <2>3, <2>4
  (* The other steps leave prompts and the ledger alone. *)
  <1>5. ASSUME NEW t \in RequestIds, OnlyTask(t), UNCHANGED <<log, ledger>>,
               tasks[t].state # "absent", tasks'[t].state # "absent",
               tasks[t].state = "completed" <=> tasks'[t].state = "completed",
               tasks'[t].revision = tasks[t].revision, tasks'[t].reply = tasks[t].reply
        PROVE  \A o \in RequestIds : TurnOnce(o)'
    <2>1. \A o \in RequestIds : /\ EventsAt("prompt", o)' = EventsAt("prompt", o)
                                /\ EventsAt("reply", o)' = EventsAt("reply", o)
                                /\ Prior(o)' = Prior(o)
      BY <1>5 DEF EventsAt, Prior
    <2>2. ASSUME NEW o \in RequestIds \ {t}
          PROVE  TurnOnce(o)'
      BY <1>0, <1>5, <2>1, TurnOnceStable DEF OnlyTask
    <2>3. TurnOnce(t)'
      BY <1>0, <1>5, <2>1, TurnOnceStable
    <2> QED
      BY <2>2, <2>3
  <1>6. ASSUME NEW t \in RequestIds, NEW k \in Tokens, GrantEffect(t, k)
        PROVE  \A o \in RequestIds : TurnOnce(o)'
    <2>1. UNCHANGED <<log, ledger>>
      BY <1>6 DEF GrantEffect
    <2> QED
      BY <1>5, <1>6, <2>1, GrantFields DEF SameContext
  <1>7. ASSUME NEW t \in RequestIds, FailEffect(t)
        PROVE  \A o \in RequestIds : TurnOnce(o)'
    <2>1. UNCHANGED <<log, ledger>>
      BY <1>7 DEF FailEffect
    <2>2. /\ tasks'[t].state # "absent"
          /\ tasks[t].state = "completed" <=> tasks'[t].state = "completed"
      BY <1>7, FailFields DEF FailedState, Open
    <2> QED
      BY <1>5, <1>7, <2>1, <2>2, FailFields DEF SameContext
  <1>8. ASSUME NEW w \in Workers, NEW t \in RequestIds, NEW update \in Updates,
               UpdateEffect(w, t, update)
        PROVE  \A o \in RequestIds : TurnOnce(o)'
    <2>1. /\ OnlyTask(t) /\ tasks[t].state \in Open /\ tasks'[t].revision = tasks[t].revision
          /\ tasks'[t].state = CASE update.kind = "completed" -> "completed"
                                 [] update.kind = "failed" -> "failed"
                                 [] OTHER -> tasks[t].state
          /\ tasks'[t].reply = IF update.kind = "completed" THEN Len(log) + 1
                               ELSE tasks[t].reply
      BY <1>8, UpdateFields DEF SameContext
    <2>2. /\ UNCHANGED ledger
          /\ log' = IF update.kind = "completed" THEN Append(log, Entry("reply", t, TRUE)) ELSE log
      BY <1>8 DEF UpdateEffect
    <2>3. CASE update.kind # "completed"
      <3>1. /\ UNCHANGED <<log, ledger>> /\ tasks'[t].state \notin {"absent", "completed"}
            /\ tasks'[t].reply = tasks[t].reply
        BY <2>1, <2>2, <2>3 DEF Open
      <3> QED
        BY <1>5, <2>1, <3>1 DEF Open
    <2>4. CASE update.kind = "completed"
      <3>1. tasks'[t].state = "completed" /\ tasks'[t].reply = Len(log) + 1
        BY <2>1, <2>4
      <3>2. PICK e \in LogEntry : log' = Append(log, e) /\ e.kind = "reply" /\ e.task = t
        BY <2>2, <2>4, Entries DEF Entry
      <3>3. ASSUME NEW o \in RequestIds \ {t}
            PROVE  TurnOnce(o)'
        <4>1. /\ EventsAt("prompt", o)' = EventsAt("prompt", o)
              /\ EventsAt("reply", o)' = EventsAt("reply", o)
          BY <1>0, <3>1, <3>2, EventsAppend
        <4>2. Prior(o)' = Prior(o)
          BY <2>2 DEF Prior
        <4> QED
          BY <1>0, <2>1, <4>1, <4>2, TurnOnceStable DEF OnlyTask
      <3>4. TurnOnce(t)'
        <4>1. /\ EventsAt("prompt", t)' = EventsAt("prompt", t)
              /\ EventsAt("reply", t)' = EventsAt("reply", t) \cup {Len(log) + 1}
          BY <1>0, <3>1, <3>2, EventsAppend
        <4>2. /\ EventsAt("prompt", t) = {tasks[t].revision} /\ EventsAt("reply", t) = {}
              /\ \E rec \in ledger : Prior(t) = {rec} /\ rec.turn # None
          BY <1>0, <2>1 DEF TurnOnce, Open
        <4>3. Len(log) + 1 > tasks[t].revision
          <5>1. tasks[t].revision \in DOMAIN log
            BY <4>2 DEF EventsAt
          <5> QED
            BY <1>0, <5>1, Rows, SMT
        <4>4. \E rec \in ledger' : Prior(t)' = {rec} /\ rec.turn # None
          BY <2>2, <4>2 DEF Prior
        <4> QED
          BY <2>1, <3>1, <4>1, <4>2, <4>3, <4>4 DEF TurnOnce
      <3> QED
        BY <3>3, <3>4
    <2> QED
      BY <2>3, <2>4
  <1> QED
    BY <1>1, <1>2, <1>3, <1>4, <1>6, <1>7, <1>8, Effects DEF store, RoomDecide, RoomReverse

-------------------------------------------------------------------------------
(* The invariant.                                                          *)

LEMMA InitIInv == Init => IInv
  <1> SUFFICES ASSUME Init PROVE IInv
    OBVIOUS
  <1>1. TypeOK
    <2>1. /\ log = <<>> /\ decisions = <<>> /\ conversations = <<>>
          /\ tasks \in [RequestIds -> TaskRow]
          /\ turning \in [Turners -> TurnRequest] /\ claiming \in [Claimers -> ClaimRequest]
          /\ working \in [Workers -> WorkRequest]
      BY NoTaskType, NoLocals DEF Init
    <2>2. <<>> \in Seq(LogEntry) /\ <<>> \in Seq(ConversationRow)
          /\ <<>> \in Seq([source : DOMAIN log, active : BOOLEAN])
      BY SMT
    <2> QED
      BY <2>1, <2>2 DEF Init, TypeOK
  <1>2. HandlersInv
    BY DEF Init, HandlersInv, TurnInv, ClaimInv, WorkInv, NoTurn, NoClaim, NoWork
  <1>3. \A t \in RequestIds : tasks[t] = NoTask
    BY DEF Init
  <1>4. TasksInv
    BY <1>3, ConversationAssumption, SMT DEF Init, TasksInv, TaskInv, NoTask
  <1>5. ConversationMatchesTask
    BY SMT DEF Init, ConversationMatchesTask
  <1>6. TurnsInv
    BY <1>3, SMT DEF Init, TurnsInv, TurnOnce, NoTask, EventsAt, Prior
  <1> QED
    BY <1>1, <1>2, <1>4, <1>5, <1>6 DEF IInv

LEMMA IInvStep == IInv /\ [Next]_vars => IInv'
  BY TypeStep, HandlersStep, TasksStep, MatchStep, TurnsStep DEF IInv

(* Whatever the number of requests, workers, updates and policies, a       *)
(* request that has read the tables under the room's lock (reserve_inner,  *)
(* claim, record_update) finds them unchanged when it writes, and the      *)
(* tables agree with each other after every step.                          *)
THEOREM InvariantHolds == Spec => []IInv
  BY InitIInv, IInvStep, PTL DEF Spec

(* Every row and every local of conversation_store.rs keeps its type. *)
THEOREM TypesHold == Spec => []TypeOK
  <1>1. IInv => TypeOK
    BY DEF IInv
  <1> QED
    BY <1>1, InvariantHolds, PTL

(* agent_conversations and conversation_tasks agree: one current           *)
(* generation, in the state of its active task, no other open task, and no *)
(* use of a generation with a failed task (reserve_inner, fail_task_state, *)
(* record_update).                                                         *)
THEOREM TablesAgree == Spec => []ConversationMatchesTask
  <1>1. IInv => ConversationMatchesTask
    BY DEF IInv
  <1> QED
    BY <1>1, InvariantHolds, PTL

(* A turn has one prompt and one ledger row, and one reply exactly if it   *)
(* completed, however often turns and updates are retried and raced        *)
(* (reserve_inner, record_update).                                         *)
THEOREM OneTurnEach == Spec => []TurnsOnce
  <1>1. IInv => TurnsOnce
    <2> SUFFICES ASSUME IInv, NEW t \in RequestIds
                 PROVE  /\ tasks[t].state = "absent" =>
                            EventsAt("prompt", t) = {} /\ {rec \in Prior(t) : rec.turn # None} = {}
                        /\ tasks[t].state # "absent" =>
                            /\ EventsAt("prompt", t) = {tasks[t].revision}
                            /\ Cardinality(Prior(t)) = 1
                            /\ {rec \in Prior(t) : rec.turn # None} # {}
                        /\ EventsAt("reply", t) =
                            IF tasks[t].state = "completed" THEN {tasks[t].reply} ELSE {}
                        /\ tasks[t].state = "completed" => tasks[t].reply > tasks[t].revision
      BY DEF TurnsOnce
    <2>1. TurnOnce(t)
      BY DEF IInv, TurnsInv
    <2>2. ASSUME tasks[t].state # "absent"
          PROVE  Cardinality(Prior(t)) = 1 /\ {rec \in Prior(t) : rec.turn # None} # {}
      <3>1. PICK rec \in ledger : Prior(t) = {rec} /\ rec.turn # None
        BY <2>1, <2>2 DEF TurnOnce
      <3> QED
        BY <3>1, FS_Singleton
    <2> QED
      BY <2>1, <2>2 DEF TurnOnce
  <1> QED
    BY <1>1, InvariantHolds, PTL

-------------------------------------------------------------------------------
(* Updates: their ids and ordinals, what browsers are shown, and the       *)
(* ordinal that is kept for the end of a task.                             *)

(* UpdatesOnce, and the ordinals below the task's. *)
UpdatesInv ==
    /\ UpdatesOnce
    /\ \A rec \in replay :
        tasks[rec.task].token # None /\ rec.update.ordinal <= tasks[rec.task].ordinal

(* ShownOnce, and a completion that is shown only of a completed task. *)
ShownInv ==
    /\ ShownOnce
    /\ \A row \in retained : row.kind = "completed" => tasks[row.task].state = "completed"

LEMMA ReplayRows ==
    ASSUME TypeOK
    PROVE  \A rec \in replay :
                /\ rec = [task |-> rec.task, update |-> rec.update]
                /\ rec.task \in RequestIds /\ rec.update \in Updates
                /\ rec.update.ordinal \in 1 .. MaxOrdinal
  BY ConversationAssumption, SMT DEF TypeOK, Update

LEMMA UpdatesStep ==
    ASSUME IInv, UpdatesInv, [Next]_vars
    PROVE  UpdatesInv'
  <1>0. /\ TypeOK /\ UpdatesOnce
        /\ \A rec \in replay :
            tasks[rec.task].token # None /\ rec.update.ordinal <= tasks[rec.task].ordinal
        /\ \A t \in RequestIds : tasks[t] \in TaskRow
        /\ \A rec \in replay : rec.task \in RequestIds /\ rec.update.ordinal \in Nat
        /\ MaxOrdinal \in Nat
    BY Rows, ReplayRows, ConversationAssumption, SMT DEF IInv, UpdatesInv
  (* No update commits: ordinals grow, and no task that has taken updates  *)
  (* loses its token.                                                      *)
  <1>1. ASSUME NEW t \in RequestIds, OnlyTask(t), UNCHANGED replay,
               tasks[t].token # None => tasks'[t].token # None /\ tasks'[t].ordinal >= tasks[t].ordinal,
               tasks'[t].state = "completed" => tasks[t].state = "completed"
        PROVE  UpdatesInv'
    <2>1. UpdatesOnce'
      BY <1>0, <1>1, SMT DEF UpdatesOnce, OnlyTask
    <2>2. ASSUME NEW rec \in replay
          PROVE  tasks'[rec.task].token # None /\ rec.update.ordinal <= tasks'[rec.task].ordinal
      <3>1. CASE rec.task # t
        BY <1>0, <1>1, <3>1 DEF OnlyTask
      <3>2. CASE rec.task = t
        <4>1. /\ tasks[t].token # None /\ rec.update.ordinal <= tasks[t].ordinal
              /\ rec.update.ordinal \in Nat /\ tasks[t].ordinal \in Int
          BY <1>0, <3>2, SMT DEF TaskRow
        <4>2. tasks'[t].token # None /\ tasks'[t].ordinal >= tasks[t].ordinal
          BY <1>1, <4>1
        <4>3. tasks'[t].ordinal \in Int
          BY TablesType, SMT DEF TaskRow
        <4> QED
          BY <3>2, <4>1, <4>2, <4>3, SMT
      <3> QED
        BY <3>1, <3>2
    <2> QED
      BY <1>1, <2>1, <2>2 DEF UpdatesInv
  <1>2. CASE UNCHANGED <<replay, tasks>>
    BY <1>0, <1>2 DEF UpdatesInv, UpdatesOnce
  <1>3. ASSUME NEW t \in RequestIds, NEW turn \in Turns, NEW plan \in Plan,
               TurnEffect(t, turn, plan)
        PROVE  UpdatesInv'
    BY <1>1, <1>3, SMT DEF TurnEffect, NoTask
  <1>4. ASSUME NEW t \in RequestIds, NEW k \in Tokens, GrantEffect(t, k)
        PROVE  UpdatesInv'
    <2>1. UNCHANGED replay
      BY <1>4 DEF GrantEffect
    <2> QED
      BY <1>1, <1>4, <2>1, GrantFields
  <1>5. ASSUME NEW t \in RequestIds, FailEffect(t)
        PROVE  UpdatesInv'
    <2>1. UNCHANGED replay
      BY <1>5 DEF FailEffect
    <2>2. tasks[t].ordinal \in Int
      BY <1>0, SMT DEF TaskRow
    <2>3. tasks'[t].ordinal >= tasks[t].ordinal
      BY <1>5, <2>2, FailFields, SMT
    <2>4. tasks'[t].state = "completed" => tasks[t].state = "completed"
      BY <1>5, FailFields DEF FailedState
    <2> QED
      BY <1>1, <1>5, <2>1, <2>3, <2>4, FailFields
  <1>6. ASSUME NEW w \in Workers, NEW t \in RequestIds, NEW update \in Updates,
               UpdateEffect(w, t, update)
        PROVE  UpdatesInv'
    <2>1. /\ OnlyTask(t) /\ tasks'[t].ordinal = update.ordinal
          /\ tasks'[t].token = tasks[t].token /\ tasks[t].token # None
          /\ tasks'[t].state = "completed" =>
                update.kind = "completed" \/ tasks[t].state = "completed"
      BY <1>6, UpdateFields, ConversationAssumption, SMT DEF Open
    <2>2. /\ Replayed(t, update.id) = {} /\ update.ordinal > tasks[t].ordinal
          /\ replay' = replay \cup {[task |-> t, update |-> update]}
      BY <1>6 DEF UpdateEffect, StageHolds, OrdinalAccepted
    <2>3. PICK new \in [task : RequestIds, update : Updates] :
            /\ new = [task |-> t, update |-> update]
            /\ new.task = t /\ new.update = update
      <3>1. /\ [task |-> t, update |-> update] \in [task : RequestIds, update : Updates]
            /\ [task |-> t, update |-> update].task = t
            /\ [task |-> t, update |-> update].update = update
        OBVIOUS
      <3> QED
        BY <3>1
    <2>4. update.ordinal \in Nat /\ tasks[t].ordinal \in Nat
      BY <1>0, ConversationAssumption, SMT DEF Update, TaskRow
    <2>5. ASSUME NEW a \in replay, a.task = t
          PROVE  a.update.id # update.id /\ a.update.ordinal < update.ordinal
      <3>1. a.update.ordinal <= tasks[t].ordinal /\ a.update.ordinal \in Nat
        BY <1>0, <2>5
      <3>2. a.update.id # update.id
        BY <2>2, <2>5 DEF Replayed
      <3> QED
        BY <2>2, <2>4, <3>1, <3>2, SMT
    <2>6. ASSUME NEW a \in replay', NEW b \in replay', a.task = b.task,
                 a.update.id = b.update.id \/ a.update.ordinal = b.update.ordinal
          PROVE  a = b
      <3>1. a.task = t => a = new \/ (a \in replay /\ a.update.id # update.id
                                       /\ a.update.ordinal < update.ordinal)
        BY <2>2, <2>3, <2>5
      <3>2. b.task = t => b = new \/ (b \in replay /\ b.update.id # update.id
                                       /\ b.update.ordinal < update.ordinal)
        BY <2>2, <2>3, <2>5
      <3>3. CASE a = new \/ b = new
        <4>1. ~(update.ordinal < update.ordinal)
          BY <2>4, SMT
        <4> QED
          BY <2>3, <2>6, <3>1, <3>2, <3>3, <4>1
      <3>4. CASE a \in replay /\ b \in replay
        BY <1>0, <2>6, <3>4 DEF UpdatesOnce
      <3> QED
        BY <2>2, <2>3, <3>3, <3>4
    <2>7. ASSUME NEW o \in RequestIds, tasks'[o].state = "completed"
          PROVE  \E rec \in replay' : rec.task = o /\ rec.update.kind = "completed"
      <3>1. CASE o = t /\ update.kind = "completed"
        BY <2>2, <2>3, <3>1
      <3>2. CASE tasks[o].state = "completed"
        <4>1. \E rec \in replay : rec.task = o /\ rec.update.kind = "completed"
          BY <1>0, <3>2 DEF UpdatesOnce
        <4> QED
          BY <2>2, <4>1
      <3> QED
        BY <2>1, <2>7, <3>1, <3>2 DEF OnlyTask
    <2>8. ASSUME NEW rec \in replay'
          PROVE  tasks'[rec.task].token # None /\ rec.update.ordinal <= tasks'[rec.task].ordinal
      <3>1. CASE rec = new
        BY <2>1, <2>3, <2>4, <3>1, SMT
      <3>2. CASE rec \in replay /\ rec.task = t
        <4>1. rec.update.ordinal < update.ordinal /\ rec.update.ordinal \in Nat
          BY <1>0, <2>5, <3>2
        <4> QED
          BY <2>1, <2>4, <3>2, <4>1, SMT
      <3>3. CASE rec \in replay /\ rec.task # t
        BY <1>0, <2>1, <3>3 DEF OnlyTask
      <3> QED
        BY <2>2, <2>3, <3>1, <3>2, <3>3
    <2> QED
      BY <2>6, <2>7, <2>8 DEF UpdatesInv, UpdatesOnce
  <1> QED
    BY <1>2, <1>3, <1>4, <1>5, <1>6, Effects DEF store, RoomMessage, RoomDecide, RoomReverse

(* An update id and an ordinal are used once per task, and the completing  *)
(* update is there for its retry (conversation_update_requests).           *)
THEOREM UpdatesCountOnce == Spec => []UpdatesOnce
  <1>1. Init => UpdatesInv
    BY SMT DEF Init, UpdatesInv, UpdatesOnce, NoTask
  <1>2. IInv /\ UpdatesInv /\ [Next]_vars => UpdatesInv'
    BY UpdatesStep
  <1>3. UpdatesInv => UpdatesOnce
    BY DEF UpdatesInv
  <1> QED
    BY <1>1, <1>2, <1>3, InvariantHolds, PTL DEF Spec

LEMMA ShownStep ==
    ASSUME IInv, ShownInv, [Next]_vars
    PROVE  ShownInv'
  <1>0. /\ ShownOnce
        /\ \A row \in retained : row.kind = "completed" => tasks[row.task].state = "completed"
        /\ retained \subseteq [task : RequestIds, ordinal : 1 .. MaxOrdinal, kind : Kinds]
    BY DEF IInv, TypeOK, ShownInv
  (* A completed task stays completed. *)
  <1>1. ASSUME NEW t \in RequestIds, OnlyTask(t),
               tasks[t].state = "completed" => tasks'[t].state = "completed"
        PROVE  \A row \in retained : row.kind = "completed" => tasks'[row.task].state = "completed"
    <2>1. \A row \in retained : row.task \in RequestIds
      BY <1>0
    <2> QED
      BY <1>0, <1>1, <2>1 DEF OnlyTask
  <1>2. CASE UNCHANGED <<retained, tasks>>
    BY <1>0, <1>2 DEF ShownInv, ShownOnce
  <1>3. ASSUME NEW t \in RequestIds, NEW turn \in Turns, NEW plan \in Plan,
               TurnEffect(t, turn, plan)
        PROVE  ShownInv'
    <2>1. OnlyTask(t) /\ tasks[t].state # "completed" /\ UNCHANGED retained
      BY <1>3, SMT DEF TurnEffect, NoTask
    <2> QED
      BY <1>0, <1>1, <2>1 DEF ShownInv, ShownOnce
  <1>4. ASSUME NEW t \in RequestIds, NEW k \in Tokens, GrantEffect(t, k)
        PROVE  ShownInv'
    <2>1. OnlyTask(t) /\ tasks[t].state # "completed" /\ UNCHANGED retained
      BY <1>4, GrantFields DEF GrantEffect
    <2> QED
      BY <1>0, <1>1, <2>1 DEF ShownInv, ShownOnce
  <1>5. ASSUME NEW t \in RequestIds, FailEffect(t)
        PROVE  ShownInv'
    <2>1. OnlyTask(t) /\ (tasks[t].state = "completed" => tasks'[t].state = "completed")
      BY <1>5, FailFields DEF FailedState, Open
    <2>2. /\ retained' = retained \cup {Shown(t, tasks[t].ordinal + 1, "failed")}
          /\ Shown(t, tasks[t].ordinal + 1, "failed").kind = "failed"
      BY <1>5 DEF FailEffect, Shown
    <2>3. ShownOnce'
      BY <1>0, <2>2 DEF ShownOnce
    <2>4. \A row \in retained : row.kind = "completed" => tasks'[row.task].state = "completed"
      BY <1>1, <2>1
    <2> QED
      BY <2>2, <2>3, <2>4 DEF ShownInv
  <1>6. ASSUME NEW w \in Workers, NEW t \in RequestIds, NEW update \in Updates,
               UpdateEffect(w, t, update)
        PROVE  ShownInv'
    <2>1. /\ OnlyTask(t) /\ tasks[t].state \in Open
          /\ update.kind = "completed" => tasks'[t].state = "completed"
      BY <1>6, UpdateFields
    <2>2. \A row \in retained : row.kind = "completed" =>
                tasks'[row.task].state = "completed" /\ row.task # t
      BY <1>0, <1>1, <2>1 DEF Open
    <2>3. retained' = IF Coalesced(w) THEN retained
                      ELSE (retained \ Replaced(t, update.kind))
                                \cup {Shown(t, update.ordinal, update.kind)}
      BY <1>6 DEF UpdateEffect, ShowUpdate
    <2>4. CASE Coalesced(w)
      BY <1>0, <2>2, <2>3, <2>4 DEF ShownInv, ShownOnce
    <2>5. CASE ~Coalesced(w)
      <3> DEFINE new == Shown(t, update.ordinal, update.kind)
      <3>1. /\ new.task = t /\ new.kind = update.kind
            /\ retained' \subseteq retained \cup {new}
            /\ \A row \in Replaced(t, update.kind) : row \notin retained' \/ row = new
        BY <2>3, <2>5 DEF Shown
      <3>2. ASSUME NEW row \in retained', row # new, row.task = t, row.kind = update.kind
            PROVE  update.kind = "failed"
        <4>1. row \in retained /\ row \notin Replaced(t, update.kind)
          BY <3>1, <3>2
        <4>2. update.kind \in Kinds
          BY ConversationAssumption DEF Update
        <4>3. update.kind \notin {"settings", "usage", "working"}
          BY <3>2, <4>1 DEF Replaced, Progress
        <4>4. update.kind # "accepted"
          BY <1>6, <2>5, <3>2, <4>1 DEF UpdateEffect, Coalesced
        <4>5. update.kind # "completed"
          BY <2>2, <3>2, <4>1
        <4> QED
          BY <4>2, <4>3, <4>4, <4>5 DEF Kinds
      <3> HIDE DEF new
      <3>3. ShownOnce'
        BY <1>0, <3>1, <3>2 DEF ShownOnce
      <3>4. \A row \in retained' : row.kind = "completed" => tasks'[row.task].state = "completed"
        BY <2>1, <2>2, <3>1
      <3> QED
        BY <3>3, <3>4 DEF ShownInv
    <2> QED
      BY <2>4, <2>5
  <1> QED
    BY <1>2, <1>3, <1>4, <1>5, <1>6, Effects DEF store, RoomMessage, RoomDecide, RoomReverse

(* Browsers are shown one row of each kind per task, failures aside        *)
(* (record_update's coalescing and replacement).                           *)
THEOREM ShownRowsBounded == Spec => []ShownOnce
  <1>1. Init => ShownInv
    BY DEF Init, ShownInv, ShownOnce
  <1>2. IInv /\ ShownInv /\ [Next]_vars => ShownInv'
    BY ShownStep
  <1>3. ShownInv => ShownOnce
    BY DEF ShownInv
  <1> QED
    BY <1>1, <1>2, <1>3, InvariantHolds, PTL DEF Spec

LEMMA OrdinalStep ==
    ASSUME IInv, OrdinalLeft, [Next]_vars
    PROVE  OrdinalLeft'
  <1>0. \A t \in RequestIds : tasks[t].state \in Open => tasks[t].ordinal < MaxOrdinal
    BY DEF OrdinalLeft
  <1>1. ASSUME NEW t \in RequestIds, OnlyTask(t),
               tasks'[t].state \in Open => tasks'[t].ordinal < MaxOrdinal
        PROVE  OrdinalLeft'
    BY <1>0, <1>1 DEF OrdinalLeft, OnlyTask
  <1>2. CASE UNCHANGED tasks
    BY <1>0, <1>2 DEF OrdinalLeft
  <1>3. ASSUME NEW t \in RequestIds, NEW turn \in Turns, NEW plan \in Plan,
               TurnEffect(t, turn, plan)
        PROVE  OrdinalLeft'
    <2>1. OnlyTask(t) /\ tasks'[t].ordinal = 0
      BY <1>3 DEF TurnEffect
    <2>2. 0 < MaxOrdinal
      BY ConversationAssumption, SMT
    <2> QED
      BY <1>1, <2>1, <2>2
  <1>4. ASSUME NEW t \in RequestIds, NEW k \in Tokens, GrantEffect(t, k)
        PROVE  OrdinalLeft'
    BY <1>0, <1>1, <1>4, GrantFields DEF Open
  <1>5. ASSUME NEW t \in RequestIds, FailEffect(t)
        PROVE  OrdinalLeft'
    BY <1>1, <1>5, FailFields DEF FailedState, Open
  <1>6. ASSUME NEW w \in Workers, NEW t \in RequestIds, NEW update \in Updates,
               UpdateEffect(w, t, update)
        PROVE  OrdinalLeft'
    <2>1. /\ OnlyTask(t) /\ tasks'[t].ordinal = update.ordinal
          /\ tasks'[t].state \in Open => update.kind \notin Final
      BY <1>6, UpdateFields, SMT DEF Open, Final
    <2>2. update.ordinal = MaxOrdinal => update.kind \in Final
      BY <1>6 DEF UpdateEffect, StageHolds, OrdinalAccepted
    <2>3. update.ordinal \in 1 .. MaxOrdinal /\ MaxOrdinal \in Nat
      BY ConversationAssumption DEF Update
    <2>4. update.kind \notin Final => update.ordinal < MaxOrdinal
      BY <2>2, <2>3, SMT
    <2> QED
      BY <1>1, <2>1, <2>4
  <1> QED
    BY <1>2, <1>3, <1>4, <1>5, <1>6, Effects DEF store, RoomMessage, RoomDecide, RoomReverse

(* An open task has an ordinal left for its failure: updates leave the     *)
(* last one to the end of the task (record_update, fail_task).             *)
THEOREM OrdinalIsLeft == Spec => []OrdinalLeft
  <1>1. Init => OrdinalLeft
    BY SMT DEF Init, OrdinalLeft, NoTask, Open
  <1>2. IInv /\ OrdinalLeft /\ [Next]_vars => OrdinalLeft'
    BY OrdinalStep
  <1> QED
    BY <1>1, <1>2, InvariantHolds, PTL DEF Spec

-------------------------------------------------------------------------------
(* Authority over replies.                                                 *)

LEMMA ReplySteps ==
    ASSUME IInv, [Next]_vars, NEW t \in RequestIds, tasks'[t].reply # tasks[t].reply
    PROVE  \E w \in Workers : MayReply(w, t)
  <1>1. ASSUME NEW h \in Turners, TurnCommit(h)
        PROVE  FALSE
    <2>1. PICK o \in RequestIds, turn \in Turns, plan \in Plan : TurnEffect(o, turn, plan)
      BY <1>1, Turned
    <2> QED
      BY <2>1, SMT DEF TurnEffect, OnlyTask, NoTask
  <1>2. ASSUME NEW c \in Claimers, ClaimGrant(c)
        PROVE  FALSE
    <2>1. PICK o \in RequestIds, k \in Tokens : GrantEffect(o, k)
      BY <1>2, Granted
    <2> QED
      BY <2>1, GrantFields DEF OnlyTask
  <1>3. ASSUME NEW o \in RequestIds, tasks[o].state # "absent", FailTask(o)
        PROVE  FALSE
    BY <1>3, Failed, FailFields DEF OnlyTask
  <1>4. ASSUME NEW c \in Claimers, ClaimFailTask(c)
        PROVE  FALSE
    BY <1>3, <1>4 DEF IInv, HandlersInv, ClaimInv, ClaimFailTask
  <1>5. ASSUME NEW w \in Workers, WorkFailTask(w)
        PROVE  FALSE
    BY <1>3, <1>5 DEF IInv, HandlersInv, WorkInv, WorkFailTask, NewUpdate
  <1>6. ASSUME NEW w \in Workers, UpdateCommit(w)
        PROVE  MayReply(w, t)
    <2>1. PICK o \in RequestIds, update \in Updates : UpdateEffect(w, o, update)
      BY <1>6, Posted
    <2>2. o = t
      BY <2>1, UpdateFields, SMT DEF OnlyTask
    <2>3. StageHolds(w) /\ working[w].task = t
      BY <2>1, <2>2 DEF UpdateEffect
    <2> QED
      BY <1>6, <2>3 DEF StageHolds, HoldsToken, MayReply, UpdateCommit
  <1> QED
    BY <1>1, <1>2, <1>4, <1>5, <1>6, StoreSteps DEF store, RoomMessage, RoomDecide,
        RoomReverse

(* A reply is committed only for the holder of the active task's lease,    *)
(* under the policy of the reservation and within its times: what          *)
(* record_update checked still holds when it writes, through restarts and  *)
(* waits for the room's lock.                                              *)
THEOREM RepliesHaveAuthority == Spec => RepliesAuthorized
  <1>1. IInv /\ [Next]_vars =>
            [\A t \in RequestIds : tasks'[t].reply # tasks[t].reply =>
                \E w \in Workers : MayReply(w, t)]_vars
    BY ReplySteps
  <1> QED
    BY <1>1, InvariantHolds, PTL DEF Spec, RepliesAuthorized

-------------------------------------------------------------------------------
(* Turns implement LeasedWork.                                             *)

(* What LeasedWork sees of the updates of t. *)
EffectsOf(t) ==
    {[id |-> rec.update.id, token |-> tasks[t].token] : rec \in {r \in replay : r.task = t}}

LEMMA WorkInit == Init => Work!Init
  BY SMT DEF Init, Work!Init, WorkState, Open, NoTask

LEMMA WorkSteps ==
    ASSUME IInv, UpdatesInv, [Next]_vars
    PROVE  [Work!Next]_(Work!vars)
  <1>0. \A rec \in replay : rec.task \in RequestIds /\ tasks[rec.task].token # None
    BY ReplayRows DEF IInv, UpdatesInv
  <1>1. CASE UNCHANGED <<tasks, replay>>
    BY <1>1 DEF Work!vars, WorkState
  <1> DEFINE state == [o \in RequestIds |-> WorkState(o)]
             holder == [o \in RequestIds |-> tasks[o].token]
             effects == [o \in RequestIds |-> EffectsOf(o)]
             ids == {u.id : u \in Updates}
  <1>2. ASSUME NEW t \in RequestIds, NEW turn \in Turns, NEW plan \in Plan,
               TurnEffect(t, turn, plan)
        PROVE  Work!Offer(t)
    <2>1. /\ tasks[t].state = "absent" /\ tasks[t].token = None
          /\ tasks'[t].state = "reserved" /\ tasks'[t].token = None
          /\ OnlyTask(t) /\ UNCHANGED replay
      <3>1. /\ tasks[t] = NoTask /\ tasks'[t].state = "reserved" /\ tasks'[t].token = None
            /\ OnlyTask(t) /\ UNCHANGED <<decisions, retained, replay, disclosures>>
        BY <1>2 DEF TurnEffect
      <3>2. NoTask.state = "absent" /\ NoTask.token = None
        BY SMT DEF NoTask
      <3> QED
        BY <3>1, <3>2
    <2>2. \A o \in RequestIds : /\ tasks'[o].token = tasks[o].token
                                /\ WorkState(o)' = IF o = t THEN "open" ELSE WorkState(o)
      BY <2>1 DEF OnlyTask, WorkState, Open
    <2>3. \A o \in RequestIds : EffectsOf(o)' = EffectsOf(o)
      BY <2>1, <2>2 DEF EffectsOf
    <2>4. WorkState(t) = "absent"
      BY <2>1 DEF WorkState, Open
    <2>5. state[t] = "absent" /\ state' = [state EXCEPT ![t] = "open"]
      BY <2>2, <2>4
    <2>6. UNCHANGED <<holder, effects>>
      BY <2>2, <2>3
    <2> QED
      BY <2>5, <2>6 DEF Work!Offer, EffectsOf
  <1>3. ASSUME NEW t \in RequestIds, NEW k \in Tokens, GrantEffect(t, k)
        PROVE  Work!Hand(t)
    <2>1. /\ tasks[t].state = "reserved" /\ tasks[t].token = None
          /\ tasks'[t].state = "running" /\ tasks'[t].token = k /\ OnlyTask(t)
      BY <1>3, GrantFields
    <2>2. UNCHANGED replay /\ k # None
      BY <1>3, ConversationAssumption DEF GrantEffect
    <2>3. EffectsOf(t) = {} /\ EffectsOf(t)' = {}
      BY <1>0, <2>1, <2>2 DEF EffectsOf
    <2>4. \A o \in RequestIds : o # t => EffectsOf(o)' = EffectsOf(o)
      BY <2>1, <2>2 DEF EffectsOf, OnlyTask
    <2>5. \A o \in RequestIds : /\ tasks'[o].token = IF o = t THEN k ELSE tasks[o].token
                                /\ WorkState(o)' = WorkState(o)
      BY <2>1 DEF OnlyTask, WorkState, Open
    <2>6. state[t] = "open" /\ UNCHANGED <<state, effects>>
      BY <2>1, <2>3, <2>4, <2>5 DEF WorkState, Open
    <2>7. holder[t] = None /\ holder' = [holder EXCEPT ![t] = k]
      BY <2>1, <2>5
    <2>8. effects[t] = {}
      BY <2>3
    <2>9. \E j \in Tokens \ {holder[t]} :
            (\A e \in effects[t] : e.token # j) /\ holder' = [holder EXCEPT ![t] = j]
      BY <2>2, <2>7, <2>8
    <2> QED
      BY <2>6, <2>7, <2>9 DEF Work!Hand, EffectsOf
  <1>4. ASSUME NEW t \in RequestIds, FailEffect(t)
        PROVE  [Work!Abandon(t)]_(Work!vars)
    <2>1. /\ OnlyTask(t) /\ tasks'[t].token = tasks[t].token
          /\ tasks'[t].state = FailedState(tasks[t].state)
      BY <1>4, FailFields
    <2>2. UNCHANGED replay
      BY <1>4 DEF FailEffect
    <2>3. \A o \in RequestIds :
            /\ tasks'[o].token = tasks[o].token
            /\ WorkState(o)' = IF o = t /\ tasks[t].state \in Open THEN "failed" ELSE WorkState(o)
      BY <2>1 DEF OnlyTask, WorkState, FailedState, Open
    <2>4. \A o \in RequestIds : EffectsOf(o)' = EffectsOf(o)
      BY <2>2, <2>3 DEF EffectsOf
    <2>5. UNCHANGED <<holder, effects>>
      BY <2>3, <2>4
    <2>6. CASE tasks[t].state \in Open
      <3>1. state[t] = "open" /\ state' = [state EXCEPT ![t] = "failed"]
        BY <2>3, <2>6 DEF WorkState
      <3> QED
        BY <2>5, <3>1 DEF Work!Abandon, EffectsOf, Final
    <2>7. CASE tasks[t].state \notin Open
      <3>1. UNCHANGED state
        BY <2>3, <2>7
      <3> QED
        BY <2>5, <3>1 DEF Work!vars, EffectsOf
    <2> QED
      BY <2>6, <2>7
  <1>5. ASSUME NEW w \in Workers, NEW t \in RequestIds, NEW update \in Updates,
               UpdateEffect(w, t, update)
        PROVE  Work!Act(t)
    <2>1. /\ OnlyTask(t) /\ tasks[t].state \in Open
          /\ tasks'[t].state = CASE update.kind = "completed" -> "completed"
                                 [] update.kind = "failed" -> "failed"
                                 [] OTHER -> tasks[t].state
          /\ tasks'[t].token = tasks[t].token /\ tasks[t].token # None
      BY <1>5, UpdateFields, ConversationAssumption, SMT
    <2>2. /\ Replayed(t, update.id) = {}
          /\ replay' = replay \cup {[task |-> t, update |-> update]}
      BY <1>5 DEF UpdateEffect, StageHolds
    <2>3. \A o \in RequestIds : tasks'[o].token = tasks[o].token
      BY <2>1 DEF OnlyTask
    <2>4. \A o \in RequestIds : o # t => EffectsOf(o)' = EffectsOf(o)
      <3>1. \A o \in RequestIds : o # t =>
                {r \in replay' : r.task = o} = {r \in replay : r.task = o}
        BY <2>2, SMT
      <3> QED
        BY <2>3, <3>1 DEF EffectsOf
    <2>5. EffectsOf(t)' = EffectsOf(t) \cup {[id |-> update.id, token |-> tasks[t].token]}
      <3>1. PICK new \in [task : RequestIds, update : Updates] :
                new.task = t /\ new.update = update /\ replay' = replay \cup {new}
        <4>1. /\ [task |-> t, update |-> update] \in [task : RequestIds, update : Updates]
              /\ [task |-> t, update |-> update].task = t
              /\ [task |-> t, update |-> update].update = update
          OBVIOUS
        <4> QED
          BY <2>2, <4>1
      <3> DEFINE Mine(S) == {r \in S : r.task = t}
                 Seen(S) == {[id |-> rec.update.id, token |-> tasks[t].token] : rec \in Mine(S)}
      <3>2. EffectsOf(t)' = Seen(replay \cup {new}) /\ EffectsOf(t) = Seen(replay)
        BY <2>3, <3>1 DEF EffectsOf
      <3>3. Mine(replay \cup {new}) = Mine(replay) \cup {new}
        BY <3>1
      <3> HIDE DEF Mine
      <3>4. Seen(replay \cup {new}) =
                Seen(replay) \cup {[id |-> new.update.id, token |-> tasks[t].token]}
        BY <3>3
      <3> HIDE DEF Seen
      <3> QED
        BY <3>1, <3>2, <3>4
    <2>6. \A e \in EffectsOf(t) : e.id # update.id
      BY <2>2, SMT DEF EffectsOf, Replayed
    <2>7. /\ WorkState(t) = "open" /\ WorkState(t)' \in {"open"} \cup Final
          /\ \A o \in RequestIds : o # t => WorkState(o)' = WorkState(o)
      BY <2>1 DEF OnlyTask, WorkState, Open, Final
    <2>8. state[t] = "open" /\ holder[t] # None /\ UNCHANGED holder
      BY <2>1, <2>3, <2>7
    <2>9. \E id \in ids :
            /\ \A x \in effects[t] : x.id # id
            /\ effects' = [effects EXCEPT ![t] = @ \cup {[id |-> id, token |-> holder[t]]}]
      <3>1. /\ \A x \in effects[t] : x.id # update.id
            /\ effects' = [effects EXCEPT ![t] =
                    @ \cup {[id |-> update.id, token |-> holder[t]]}]
        BY <2>4, <2>5, <2>6
      <3> QED
        BY <3>1
    <2>10. \E s \in {"open"} \cup Final : state' = [state EXCEPT ![t] = s]
      <3>1. state' = [state EXCEPT ![t] = WorkState(t)']
        BY <2>7
      <3> QED
        BY <2>7, <3>1
    <2> QED
      BY <2>8, <2>9, <2>10 DEF Work!Act, EffectsOf
  <1> QED
    BY <1>1, <1>2, <1>3, <1>4, <1>5, Effects
        DEF Work!Next, store, RoomMessage, RoomDecide, RoomReverse

(* Turns are leased work that is never handed on: a turn is offered once,  *)
(* leased to one worker for good, changed only by the holder of its lease, *)
(* counts an update id once and keeps its outcome (claim, packet,          *)
(* record_update, fail_task).                                              *)
THEOREM LeasedWorkImplemented == Spec => TurnsAreLeasedWork
  <1>1. Init => UpdatesInv
    BY SMT DEF Init, UpdatesInv, UpdatesOnce, NoTask
  <1>2. IInv /\ UpdatesInv /\ [Next]_vars => UpdatesInv'
    BY UpdatesStep
  <1>3. IInv /\ UpdatesInv /\ [Next]_vars => [Work!Next]_(Work!vars)
    BY WorkSteps
  <1> QED
    BY <1>1, <1>2, <1>3, InvariantHolds, WorkInit, PTL DEF Spec, Work!Spec,
        TurnsAreLeasedWork

-------------------------------------------------------------------------------
(* What turns are told.  The contexts of a generation follow each other    *)
(* without gap or overlap, its own replies answer contexts that were       *)
(* consumed, and a reply cites only what its generation was told.          *)

(* The contexts of a generation are intervals that end at its cursor. *)
ContextOf(t) ==
    /\ tasks[t].base < tasks[t].revision
    /\ \/ tasks[t].base = 0
       \/ \E o \in TasksOf(tasks[t].generation) :
            tasks[o].state = "completed" /\ tasks[o].revision = tasks[t].base
    /\ tasks[t].state = "completed" =>
        tasks[t].revision <= conversations[tasks[t].generation].consumed
    /\ tasks[t].state \in Open =>
        tasks[t].base = conversations[tasks[t].generation].consumed

CursorOf(g) ==
    \/ conversations[g].consumed = 0
    \/ \E o \in TasksOf(g) :
        tasks[o].state = "completed" /\ tasks[o].revision = conversations[g].consumed

Apart(t, o) == tasks[t].revision <= tasks[o].base \/ tasks[o].revision <= tasks[t].base

ToldInv ==
    /\ \A t \in RequestIds : tasks[t].state # "absent" => ContextOf(t)
    /\ \A g \in DOMAIN conversations : CursorOf(g)
    /\ \A t, o \in RequestIds :
        /\ t # o
        /\ tasks[t].state # "absent"
        /\ tasks[t].generation = tasks[o].generation
        => Apart(t, o)

(* The events of turns name their task. *)
NamedInv == \A n \in DOMAIN log : log[n].kind \in {"prompt", "reply"} => log[n].task \in RequestIds

-------------------------------------------------------------------------------
(* What steps never take back.                                             *)

LEMMA ContextStays ==
    ASSUME IInv, [Next]_vars
    PROVE  /\ DOMAIN log \subseteq DOMAIN log' /\ \A n \in DOMAIN log : log'[n] = log[n]
           /\ DOMAIN decisions \subseteq DOMAIN decisions'
           /\ \A d \in DOMAIN decisions : decisions'[d].source = decisions[d].source
           /\ \A t \in RequestIds : tasks[t].state # "absent" => SameContext(t)
           /\ \A t \in RequestIds : tasks[t].state = "completed" => tasks'[t].state = "completed"
  <1>0. /\ TypeOK /\ log \in Seq(LogEntry)
        /\ decisions \in Seq([source : DOMAIN log, active : BOOLEAN])
    BY DEF IInv, TypeOK
  <1>1. DOMAIN log \subseteq DOMAIN log' /\ \A n \in DOMAIN log : log'[n] = log[n]
    <2>1. CASE UNCHANGED log
      BY <2>1
    <2>2. CASE \E e \in LogEntry : log' = Append(log, e)
      BY <1>0, <2>2, LogGrows
    <2>3. ASSUME NEW id \in RequestIds, RoomMessage(id)
          PROVE  \E e \in LogEntry : log' = Append(log, e)
      BY <2>3, Entries, ConversationAssumption DEF RoomMessage
    <2>4. ASSUME NEW w \in Workers, NEW t \in RequestIds, NEW update \in Updates,
                 UpdateEffect(w, t, update)
          PROVE  UNCHANGED log \/ \E e \in LogEntry : log' = Append(log, e)
      BY <2>4, Entries DEF UpdateEffect
    <2> QED
      BY <2>1, <2>2, <2>3, <2>4, Effects, Entries
        DEF store, RoomDecide, RoomReverse, TurnEffect, GrantEffect, FailEffect
  <1>2. /\ DOMAIN decisions \subseteq DOMAIN decisions'
        /\ \A d \in DOMAIN decisions : decisions'[d].source = decisions[d].source
    <2>1. CASE UNCHANGED decisions
      BY <2>1
    <2>2. CASE RoomDecide
      <3>1. PICK e \in [source : DOMAIN log, active : BOOLEAN] : decisions' = Append(decisions, e)
        BY <2>2 DEF RoomDecide
      <3> QED
        BY <1>0, <3>1, AppendFacts, SMT
    <2>3. ASSUME NEW d \in DOMAIN decisions, RoomReverse(d)
          PROVE  /\ DOMAIN decisions \subseteq DOMAIN decisions'
                 /\ \A e \in DOMAIN decisions : decisions'[e].source = decisions[e].source
      <3>1. decisions' = [decisions EXCEPT ![d].active = FALSE]
        BY <2>3 DEF RoomReverse
      <3>2. \A e \in DOMAIN decisions : decisions[e] \in [source : DOMAIN log, active : BOOLEAN]
        BY <1>0, ElementFacts
      <3> QED
        BY <3>1, <3>2
    <2> QED
      BY <2>1, <2>2, <2>3, Effects
        DEF store, RoomMessage, TurnEffect, GrantEffect, FailEffect, UpdateEffect
  <1>3. ASSUME NEW t \in RequestIds, tasks[t].state # "absent"
        PROVE  SameContext(t) /\ (tasks[t].state = "completed" => tasks'[t].state = "completed")
    <2>1. CASE tasks'[t] = tasks[t]
      BY <2>1 DEF SameContext
    <2>2. ASSUME NEW o \in RequestIds, NEW turn \in Turns, NEW plan \in Plan,
                 TurnEffect(o, turn, plan)
          PROVE  tasks'[t] = tasks[t]
      BY <1>3, <2>2, SMT DEF TurnEffect, NoTask, OnlyTask
    <2>3. ASSUME NEW o \in RequestIds, NEW k \in Tokens, GrantEffect(o, k)
          PROVE  \/ tasks'[t] = tasks[t]
                 \/ SameContext(t) /\ tasks[t].state # "completed"
      BY <2>3, GrantFields DEF OnlyTask
    <2>4. ASSUME NEW o \in RequestIds, FailEffect(o)
          PROVE  \/ tasks'[t] = tasks[t]
                 \/ SameContext(t) /\ tasks'[t].state = FailedState(tasks[t].state)
      BY <2>4, FailFields DEF OnlyTask
    <2>5. ASSUME NEW w \in Workers, NEW o \in RequestIds, NEW update \in Updates,
                 UpdateEffect(w, o, update)
          PROVE  \/ tasks'[t] = tasks[t]
                 \/ SameContext(t) /\ tasks[t].state # "completed"
      BY <2>5, UpdateFields DEF OnlyTask, Open
    <2>6. FailedState("completed") = "completed"
      BY DEF FailedState, Open
    <2> QED
      BY <2>1, <2>2, <2>3, <2>4, <2>5, <2>6, Effects DEF store, RoomMessage, RoomDecide,
          RoomReverse
  <1> QED
    BY <1>1, <1>2, <1>3

(* The end of a context is a prompt of the room. *)
LEMMA RevisionInLog ==
    ASSUME IInv, NEW t \in RequestIds, tasks[t].state # "absent"
    PROVE  /\ tasks[t].revision \in DOMAIN log /\ tasks[t].revision <= Len(log)
           /\ tasks[t].generation \in DOMAIN conversations
           /\ tasks[t].base \in Nat /\ tasks[t].revision \in Nat
  <1>1. EventsAt("prompt", t) = {tasks[t].revision}
    BY DEF IInv, TurnsInv, TurnOnce
  <1>2. tasks[t].revision \in DOMAIN log
    BY <1>1 DEF EventsAt
  <1>3. tasks[t] \in TaskRow /\ tasks[t].generation \in DOMAIN conversations
    BY Rows DEF IInv, TasksInv, TaskInv
  <1>4. Len(log) \in Nat /\ DOMAIN log = 1 .. Len(log)
    BY Rows DEF IInv
  <1>5. tasks[t].revision <= Len(log)
    BY <1>2, <1>4, SMT
  <1> QED
    BY <1>2, <1>3, <1>5 DEF TaskRow

(* No task that was never reserved belongs to a generation. *)
LEMMA MembersExist ==
    ASSUME IInv, NEW g \in DOMAIN conversations, NEW t \in RequestIds, tasks[t].generation = g
    PROVE  tasks[t].state # "absent"
  <1>1. g # 0
    BY Rows, SMT DEF IInv
  <1> QED
    BY <1>1, SMT DEF IInv, TasksInv, TaskInv, NoTask


-------------------------------------------------------------------------------
(* Contexts.                                                               *)

(* Steps that move no cursor and reserve no task. *)
LEMMA ToldStable ==
    ASSUME IInv, ToldInv,
           DOMAIN conversations' = DOMAIN conversations,
           \A g \in DOMAIN conversations : conversations'[g].consumed = conversations[g].consumed,
           \A t \in RequestIds :
                /\ SameContext(t)
                /\ tasks'[t].state = "absent" <=> tasks[t].state = "absent"
                /\ tasks'[t].state = "completed" <=> tasks[t].state = "completed"
                /\ tasks'[t].state \in Open => tasks[t].state \in Open
    PROVE  ToldInv'
  <1>1. \A g : TasksOf(g)' = TasksOf(g)
    BY DEF TasksOf, SameContext
  <1>2. ASSUME NEW t \in RequestIds, tasks'[t].state # "absent"
        PROVE  ContextOf(t)'
    <2>1. ContextOf(t) /\ tasks[t].generation \in DOMAIN conversations
      BY <1>2, RevisionInLog DEF ToldInv
    <2>2. \/ tasks'[t].base = 0
          \/ \E o \in TasksOf(tasks[t].generation)' :
                tasks'[o].state = "completed" /\ tasks'[o].revision = tasks'[t].base
      BY <1>1, <2>1, SMT DEF ContextOf, SameContext, TasksOf
    <2> QED
      BY <2>1, <2>2, SMT DEF ContextOf, SameContext, TasksOf
  <1>3. ASSUME NEW g \in DOMAIN conversations
        PROVE  CursorOf(g)'
    BY <1>3, SMT DEF ToldInv, CursorOf, SameContext, TasksOf
  <1>4. ASSUME NEW t \in RequestIds, NEW o \in RequestIds, t # o, tasks'[t].state # "absent",
               tasks'[t].generation = tasks'[o].generation
        PROVE  Apart(t, o)'
    BY <1>4 DEF ToldInv, Apart, SameContext
  <1> QED
    BY <1>2, <1>3, <1>4 DEF ToldInv

LEMMA ToldTurn ==
    ASSUME IInv, ToldInv, [Next]_vars, NEW t \in RequestIds, NEW turn \in Turns, NEW plan \in Plan,
           TurnEffect(t, turn, plan)
    PROVE  ToldInv'
  <1>0. /\ OnlyTask(t) /\ tasks'[t].state = "reserved"
        /\ tasks'[t].generation = plan.generation /\ tasks'[t].base = plan.base
        /\ tasks'[t].revision = Len(log) + 1
        /\ tasks[t].state = "absent" /\ tasks[t].generation = 0
        /\ Len(log) \in Nat
    BY Rows, SMT DEF IInv, TurnEffect, NoTask
  <1>1. PICK g : g = plan.generation
    OBVIOUS
  <1>2. /\ DOMAIN conversations \subseteq DOMAIN conversations'
        /\ g \in DOMAIN conversations' /\ DOMAIN conversations' \subseteq DOMAIN conversations \cup {g}
        /\ \A o \in DOMAIN conversations : conversations'[o].consumed = conversations[o].consumed
        /\ plan.base = conversations'[g].consumed
    BY <1>1 DEF TurnEffect, NewGeneration, SameGeneration, OnlyGeneration
  <1>3. ASSUME NEW o \in RequestIds, o # t, tasks[o].generation = g
        PROVE  /\ g \in DOMAIN conversations /\ tasks[o].state = "completed"
               /\ tasks[o].revision <= plan.base
    <2>1. CASE NewGeneration(t, plan)
      <3>1. g = Len(conversations) + 1 /\ g \notin DOMAIN conversations /\ g # 0
        BY <1>1, <2>1, Rows, SMT DEF NewGeneration, IInv
      <3>2. tasks[o].state = "absent" => tasks[o].generation = 0
        BY SMT DEF IInv, TasksInv, TaskInv, NoTask
      <3>3. tasks[o].state # "absent" => tasks[o].generation \in DOMAIN conversations
        BY RevisionInLog
      <3> QED
        BY <1>3, <3>1, <3>2, <3>3
    <2>2. CASE SameGeneration(t, plan)
      <3>1. /\ g \in DOMAIN conversations /\ conversations[g].state = "ready"
            /\ plan.base = conversations[g].consumed
        BY <1>1, <2>2 DEF SameGeneration
      <3>2. tasks[o].state \notin {"absent", "failed"} /\ tasks[o].state \notin Open
        <4>1. MatchOf(g)
          BY <3>1, Matches DEF IInv
        <4>2. tasks[o].state # "absent"
          BY <1>3, <3>1, MembersExist
        <4>3. conversations[g].active = None /\ None \notin RequestIds
          BY <3>1, <4>1, ConversationAssumption DEF MatchOf
        <4> QED
          BY <1>3, <3>1, <4>1, <4>2, <4>3 DEF MatchOf
      <3>3. tasks[o].state = "completed"
        BY <3>2, Rows DEF IInv, TaskRow, Open
      <3> QED
        BY <1>3, <3>1, <3>3 DEF ToldInv, ContextOf
    <2> QED
      BY <2>1, <2>2 DEF TurnEffect
  <1>4. ASSUME NEW o \in RequestIds, o # t
        PROVE  tasks'[o] = tasks[o]
    BY <1>0, <1>4 DEF OnlyTask
  <1>5. CursorOf(g)' /\ (plan.base = 0 \/ \E o \in TasksOf(g) :
                tasks[o].state = "completed" /\ tasks[o].revision = plan.base /\ o # t)
    <2>1. CASE NewGeneration(t, plan)
      BY <1>1, <1>2, <2>1 DEF NewGeneration, CursorOf
    <2>2. CASE SameGeneration(t, plan)
      <3>1. /\ g \in DOMAIN conversations /\ plan.base = conversations[g].consumed
            /\ plan.base > 0
        BY <1>1, <2>2 DEF SameGeneration
      <3>2. CursorOf(g)
        BY <3>1 DEF ToldInv
      <3>3. PICK o \in TasksOf(g) : tasks[o].state = "completed" /\ tasks[o].revision = plan.base
        BY <3>1, <3>2, SMT DEF CursorOf
      <3>4. o # t /\ o \in RequestIds /\ tasks[o].generation = g
        BY <1>0, <3>3 DEF TasksOf
      <3>5. CursorOf(g)'
        BY <1>2, <1>4, <3>1, <3>3, <3>4 DEF CursorOf, TasksOf
      <3> QED
        BY <3>3, <3>4, <3>5
    <2> QED
      BY <2>1, <2>2 DEF TurnEffect
  <1>6. plan.base < Len(log) + 1
    BY <1>0, <1>5, RevisionInLog, SMT DEF TasksOf
  <1>7. ContextOf(t)'
    <2>1. plan.base = 0 \/ \E o \in TasksOf(g)' :
                tasks'[o].state = "completed" /\ tasks'[o].revision = plan.base
      BY <1>4, <1>5 DEF TasksOf
    <2>2. tasks'[t].generation = g
      BY <1>0, <1>1
    <2> QED
      BY <1>0, <1>2, <1>6, <2>1, <2>2 DEF ContextOf, TasksOf, Open
  <1>8. ASSUME NEW o \in RequestIds, o # t, tasks'[o].state # "absent"
        PROVE  ContextOf(o)'
    <2>1. tasks'[o] = tasks[o] /\ ContextOf(o) /\ tasks[o].generation \in DOMAIN conversations
      BY <1>4, <1>8, RevisionInLog DEF ToldInv
    <2>2. tasks[o].generation # 0
      BY <2>1, NoGenerationZero DEF IInv
    <2>3. \A p \in TasksOf(tasks[o].generation) : p # t /\ p \in TasksOf(tasks[o].generation)'
      BY <1>0, <1>4, <2>1, <2>2 DEF TasksOf
    <2>4. \/ tasks'[o].base = 0
          \/ \E p \in TasksOf(tasks[o].generation)' :
                tasks'[p].state = "completed" /\ tasks'[p].revision = tasks'[o].base
      BY <1>4, <2>1, <2>3 DEF ContextOf, TasksOf
    <2> QED
      BY <1>2, <2>1, <2>4 DEF ContextOf, TasksOf
  <1>9. ASSUME NEW o \in DOMAIN conversations, o # g
        PROVE  CursorOf(o)'
    <2>1. CursorOf(o) /\ o # 0
      BY NoGenerationZero DEF ToldInv, IInv
    <2>2. \A p \in TasksOf(o) : p # t /\ tasks'[p] = tasks[p] /\ p \in TasksOf(o)'
      BY <1>0, <1>4, <2>1 DEF TasksOf
    <2> QED
      BY <1>2, <2>1, <2>2 DEF CursorOf
  <1>10. ASSUME NEW o \in RequestIds, NEW p \in RequestIds, o # p, tasks'[o].state # "absent",
                tasks'[o].generation = tasks'[p].generation
         PROVE  Apart(o, p)'
    <2>1. CASE o = t
      BY <1>0, <1>1, <1>3, <1>4, <1>10, <2>1 DEF Apart
    <2>2. CASE p = t
      BY <1>0, <1>1, <1>3, <1>4, <1>10, <2>2 DEF Apart
    <2>3. CASE o # t /\ p # t
      BY <1>4, <1>10, <2>3 DEF Apart, ToldInv
    <2> QED
      BY <2>1, <2>2, <2>3
  <1> QED
    BY <1>2, <1>5, <1>7, <1>8, <1>9, <1>10 DEF ToldInv

LEMMA ToldReply ==
    ASSUME IInv, ToldInv, [Next]_vars, NEW w \in Workers, NEW t \in RequestIds,
           NEW update \in Updates, UpdateEffect(w, t, update), update.kind = "completed"
    PROVE  ToldInv'
  <1>0. /\ OnlyTask(t) /\ SameContext(t) /\ tasks[t].state \in Open
        /\ tasks'[t].state = "completed"
    BY UpdateFields
  <1>1. PICK g \in DOMAIN conversations : g = tasks[t].generation
    BY <1>0, RevisionInLog DEF Open
  <1>2. /\ OnlyGeneration(g)
        /\ conversations'[g] = [conversations[g] EXCEPT !.state = "ready", !.active = None,
                                    !.consumed = tasks[t].revision]
    BY <1>1 DEF UpdateEffect, GenerationReady
  <1>3. /\ DOMAIN conversations' = DOMAIN conversations
        /\ conversations'[g].consumed = tasks[t].revision
        /\ \A o \in DOMAIN conversations : o # g => conversations'[o] = conversations[o]
    BY <1>2, Rows DEF OnlyGeneration, IInv, ConversationRow
  <1>4. \A o \in RequestIds : /\ SameContext(o)
                              /\ o # t => tasks'[o] = tasks[o]
                              /\ tasks[o].state = "completed" => tasks'[o].state = "completed"
    BY <1>0 DEF OnlyTask, SameContext
  <1>5. \A o : TasksOf(o)' = TasksOf(o)
    BY <1>4 DEF TasksOf, SameContext
  <1>6. /\ tasks[t].base = conversations[g].consumed /\ tasks[t].base < tasks[t].revision
        /\ tasks[t].base \in Nat /\ tasks[t].revision \in Nat
    BY <1>0, <1>1, RevisionInLog DEF ToldInv, ContextOf, Open
  <1>7. ASSUME NEW o \in RequestIds, tasks'[o].state # "absent"
        PROVE  ContextOf(o)'
    <2>1. ContextOf(o) /\ tasks[o].state # "absent" /\ tasks[o].generation \in DOMAIN conversations
      BY <1>0, <1>4, <1>7, RevisionInLog DEF ToldInv, Open
    <2>2. \/ tasks'[o].base = 0
          \/ \E p \in TasksOf(tasks[o].generation)' :
                tasks'[p].state = "completed" /\ tasks'[p].revision = tasks'[o].base
      BY <1>4, <2>1 DEF ContextOf, SameContext, TasksOf
    <2>3. CASE o = t
      <3>1. tasks'[t].revision <= conversations'[tasks'[t].generation].consumed
        BY <1>1, <1>3, <1>4, <1>6, SMT DEF SameContext
      <3> QED
        BY <1>0, <2>1, <2>2, <2>3, <3>1 DEF ContextOf, SameContext, Open, TasksOf
    <2>4. CASE o # t /\ tasks[o].generation # g
      BY <1>3, <1>4, <2>1, <2>2, <2>4 DEF ContextOf, TasksOf
    <2>5. CASE o # t /\ tasks[o].generation = g
      <3>1. tasks[o].state \notin Open
        BY <1>0, <1>1, <2>5, Matches DEF IInv, MatchOf
      <3>2. tasks[o].state = "completed" => tasks[o].revision <= tasks[t].revision
        BY <1>6, <2>1, <2>5, RevisionInLog, SMT DEF ContextOf
      <3> QED
        BY <1>3, <1>4, <2>1, <2>2, <2>5, <3>1, <3>2 DEF ContextOf, TasksOf
    <2> QED
      BY <2>3, <2>4, <2>5
  <1>8. ASSUME NEW o \in DOMAIN conversations
        PROVE  CursorOf(o)'
    <2>1. CASE o = g
      <3>1. t \in TasksOf(g)' /\ tasks'[t].revision = tasks[t].revision
        BY <1>0, <1>1 DEF TasksOf, SameContext
      <3> QED
        BY <1>0, <1>3, <2>1, <3>1 DEF CursorOf
    <2>2. CASE o # g
      BY <1>3, <1>4, <2>2, SMT DEF ToldInv, CursorOf, TasksOf, SameContext
    <2> QED
      BY <2>1, <2>2
  <1>9. ASSUME NEW o \in RequestIds, NEW p \in RequestIds, o # p, tasks'[o].state # "absent",
               tasks'[o].generation = tasks'[p].generation
        PROVE  Apart(o, p)'
    <2>1. tasks[o].state # "absent"
      BY <1>0, <1>4, <1>9 DEF Open
    <2> QED
      BY <1>4, <1>9, <2>1 DEF ToldInv, Apart, SameContext
  <1> QED
    BY <1>3, <1>7, <1>8, <1>9 DEF ToldInv


LEMMA ToldStep ==
    ASSUME IInv, ToldInv, [Next]_vars
    PROVE  ToldInv'
  <1>1. CASE UNCHANGED <<conversations, tasks>>
    BY <1>1, ToldStable DEF SameContext
  <1>2. ASSUME NEW t \in RequestIds, NEW turn \in Turns, NEW plan \in Plan,
               TurnEffect(t, turn, plan)
        PROVE  ToldInv'
    BY <1>2, ToldTurn
  (* One task changes, and its generation, but not the cursor. *)
  <1>3. ASSUME NEW t \in RequestIds, OnlyTask(t), SameContext(t),
               tasks[t].state # "absent", tasks'[t].state # "absent",
               tasks[t].state = "completed" <=> tasks'[t].state = "completed",
               tasks'[t].state \in Open => tasks[t].state \in Open,
               OnlyGeneration(tasks[t].generation),
               conversations'[tasks[t].generation].consumed =
                    conversations[tasks[t].generation].consumed
        PROVE  ToldInv'
    <2>1. \A o \in RequestIds :
            /\ SameContext(o)
            /\ tasks'[o].state = "absent" <=> tasks[o].state = "absent"
            /\ tasks'[o].state = "completed" <=> tasks[o].state = "completed"
            /\ tasks'[o].state \in Open => tasks[o].state \in Open
      BY <1>3 DEF OnlyTask, SameContext
    <2>2. /\ DOMAIN conversations' = DOMAIN conversations
          /\ \A g \in DOMAIN conversations : conversations'[g].consumed = conversations[g].consumed
      BY <1>3 DEF OnlyGeneration
    <2> QED
      BY <2>1, <2>2, ToldStable
  <1>4. ASSUME NEW t \in RequestIds, tasks[t].state # "absent"
        PROVE  conversations[tasks[t].generation] \in ConversationRow
    BY <1>4, RevisionInLog, Rows DEF IInv
  <1>5. ASSUME NEW t \in RequestIds, NEW k \in Tokens, GrantEffect(t, k)
        PROVE  ToldInv'
    <2>1. /\ OnlyTask(t) /\ SameContext(t)
          /\ tasks[t].state = "reserved" /\ tasks'[t].state = "running"
      BY <1>5, GrantFields
    <2>2. /\ OnlyGeneration(tasks[t].generation)
          /\ conversations'[tasks[t].generation] =
                [conversations[tasks[t].generation] EXCEPT !.state = "running"]
      BY <1>5 DEF GrantEffect
    <2>3. conversations'[tasks[t].generation].consumed =
                conversations[tasks[t].generation].consumed
      BY <1>4, <2>1, <2>2 DEF ConversationRow
    <2> QED
      BY <1>3, <2>1, <2>2, <2>3 DEF Open
  <1>6. ASSUME NEW t \in RequestIds, tasks[t].state # "absent", GenerationLost(t)
        PROVE  /\ OnlyGeneration(tasks[t].generation)
               /\ conversations'[tasks[t].generation].consumed =
                    conversations[tasks[t].generation].consumed
    BY <1>4, <1>6 DEF GenerationLost, ConversationRow
  <1>7. ASSUME NEW t \in RequestIds, FailEffect(t)
        PROVE  ToldInv'
    <2>1. /\ OnlyTask(t) /\ SameContext(t) /\ tasks[t].state # "absent"
          /\ tasks'[t].state = IF tasks[t].state \in Open THEN "failed" ELSE tasks[t].state
      BY <1>7, FailFields DEF FailedState
    <2>2. GenerationLost(t)
      BY <1>7 DEF FailEffect
    <2> QED
      BY <1>3, <1>6, <2>1, <2>2 DEF Open
  <1>8. ASSUME NEW w \in Workers, NEW t \in RequestIds, NEW update \in Updates,
               UpdateEffect(w, t, update)
        PROVE  ToldInv'
    <2>1. CASE update.kind = "completed"
      BY <1>8, <2>1, ToldReply
    <2>2. CASE update.kind # "completed"
      <3>1. /\ OnlyTask(t) /\ SameContext(t) /\ tasks[t].state \in Open
            /\ tasks'[t].state \in {"failed", tasks[t].state}
        BY <1>8, <2>2, UpdateFields
      <3>2. GenerationLost(t) \/ UNCHANGED conversations
        BY <1>8, <2>2 DEF UpdateEffect
      <3>3. /\ OnlyGeneration(tasks[t].generation)
            /\ conversations'[tasks[t].generation].consumed =
                    conversations[tasks[t].generation].consumed
        BY <1>6, <3>1, <3>2 DEF OnlyGeneration, Open
      <3> QED
        BY <1>3, <3>1, <3>3 DEF Open
    <2> QED
      BY <2>1, <2>2
  <1> QED
    BY <1>1, <1>2, <1>5, <1>7, <1>8, Effects DEF store, RoomMessage, RoomDecide, RoomReverse

LEMMA ToldAlways == Spec => []ToldInv
  <1>1. Init => ToldInv
    BY SMT DEF Init, ToldInv, NoTask
  <1>2. IInv /\ ToldInv /\ [Next]_vars => ToldInv'
    BY ToldStep
  <1> QED
    BY <1>1, <1>2, InvariantHolds, PTL DEF Spec

LEMMA AtMostOne ==
    ASSUME NEW S, \A a, b \in S : a = b
    PROVE  Cardinality(S) <= 1
  <1>1. CASE S = {}
    BY <1>1, FS_EmptySet, SMT
  <1>2. CASE S # {}
    <2>1. PICK a \in S : S = {a}
      BY <1>2
    <2> QED
      BY <2>1, FS_Singleton, SMT
  <1> QED
    BY <1>1, <1>2

(* The contexts of a generation's turns follow each other from the room's  *)
(* first event without gap or overlap: no event is told twice, none is     *)
(* skipped, through failures, restarts and messages in between             *)
(* (reserve_inner, build_context, the cursor of record_update).            *)
THEOREM NothingToldTwice == Spec => []ToldOnce
  <1>1. ASSUME IInv, ToldInv
        PROVE  ToldOnce
    <2> SUFFICES ASSUME NEW g \in DOMAIN conversations
                 PROVE  /\ \A n \in DOMAIN log : Cardinality({t \in TasksOf(g) :
                                n > tasks[t].base /\ n <= tasks[t].revision}) <= 1
                        /\ \A t \in TasksOf(g) :
                            \/ tasks[t].base = 0
                            \/ \E o \in TasksOf(g) :
                                tasks[o].state = "completed" /\ tasks[o].revision = tasks[t].base
                        /\ \A t \in TasksOf(g) : tasks[t].state = "completed" =>
                            tasks[t].revision <= conversations[g].consumed
      BY DEF ToldOnce
    <2>1. \A t \in TasksOf(g) : /\ t \in RequestIds /\ tasks[t].state # "absent"
                                /\ tasks[t].generation = g /\ ContextOf(t)
                                /\ tasks[t].base \in Nat /\ tasks[t].revision \in Nat
      BY <1>1, MembersExist, RevisionInLog DEF TasksOf, ToldInv
    <2>2. ASSUME NEW n \in DOMAIN log
          PROVE  Cardinality({t \in TasksOf(g) :
                        n > tasks[t].base /\ n <= tasks[t].revision}) <= 1
      <3> DEFINE S == {t \in TasksOf(g) : n > tasks[t].base /\ n <= tasks[t].revision}
      <3>1. n \in Nat
        BY <1>1, Rows, SMT DEF IInv
      <3>2. ASSUME NEW a \in S, NEW b \in S, a # b
            PROVE  FALSE
        <4>1. Apart(a, b)
          BY <1>1, <2>1, <3>2 DEF ToldInv
        <4>2. n > tasks[a].base /\ n <= tasks[a].revision
              /\ n > tasks[b].base /\ n <= tasks[b].revision
          OBVIOUS
        <4> QED
          BY <2>1, <3>1, <4>1, <4>2, SMT DEF Apart
      <3> HIDE DEF S
      <3>3. Cardinality(S) <= 1
        BY <3>2, AtMostOne
      <3> QED
        BY <3>3 DEF S
    <2> QED
      BY <2>1, <2>2 DEF ContextOf
  <1> QED
    BY <1>1, InvariantHolds, ToldAlways, PTL

LEMMA NamedStep ==
    ASSUME IInv, NamedInv, [Next]_vars
    PROVE  NamedInv'
  <1>0. TypeOK /\ log \in Seq(LogEntry)
    BY DEF IInv, TypeOK
  <1>1. CASE UNCHANGED log
    BY <1>1 DEF NamedInv
  <1>2. ASSUME NEW e \in LogEntry, log' = Append(log, e),
               e.kind \in {"prompt", "reply"} => e.task \in RequestIds
        PROVE  NamedInv'
    <2> DEFINE n == Len(log) + 1
    <2>1. /\ DOMAIN log' = DOMAIN log \cup {n} /\ log'[n] = e
          /\ \A i \in DOMAIN log : log'[i] = log[i]
      BY <1>0, <1>2, AppendFacts, SMT
    <2> HIDE DEF n
    <2> QED
      BY <1>2, <2>1 DEF NamedInv
  <1>3. ASSUME NEW kind, NEW task, NEW public, Entry(kind, task, public) \in LogEntry,
               log' = Append(log, Entry(kind, task, public)),
               kind \in {"prompt", "reply"} => task \in RequestIds
        PROVE  NamedInv'
    <2>1. PICK e \in LogEntry : /\ log' = Append(log, e)
                                /\ e.kind \in {"prompt", "reply"} => e.task \in RequestIds
      BY <1>3 DEF Entry
    <2> QED
      BY <1>2, <2>1
  <1>4. ASSUME NEW id \in RequestIds, RoomMessage(id)
        PROVE  NamedInv'
    <2>1. PICK public \in BOOLEAN : log' = Append(log, Entry("message", None, public))
      BY <1>4, ConversationAssumption DEF RoomMessage
    <2> QED
      BY <1>3, <2>1, Entries
  <1>5. ASSUME log' = Append(log, Entry("decision", None, TRUE))
        PROVE  NamedInv'
    BY <1>3, <1>5, Entries
  <1>6. ASSUME NEW t \in RequestIds, log' = Append(log, Entry("prompt", t, TRUE))
        PROVE  NamedInv'
    BY <1>3, <1>6, Entries
  <1>7. ASSUME NEW t \in RequestIds, log' = Append(log, Entry("reply", t, TRUE))
        PROVE  NamedInv'
    BY <1>3, <1>7, Entries
  <1>8. ASSUME NEW w \in Workers, NEW t \in RequestIds, NEW update \in Updates,
               UpdateEffect(w, t, update)
        PROVE  NamedInv'
    BY <1>1, <1>7, <1>8 DEF UpdateEffect
  <1> QED
    BY <1>1, <1>4, <1>5, <1>6, <1>8, Effects
        DEF store, RoomDecide, RoomReverse, TurnEffect, GrantEffect, FailEffect

(* freeze_context never refuses a continued turn over the generation's own *)
(* replies: each reply after the cursor answers a context that was         *)
(* consumed.                                                               *)
THEOREM OwnRepliesAlwaysBind == Spec => []OwnRepliesBind
  <1>1. Init => NamedInv
    BY SMT DEF Init, NamedInv
  <1>2. IInv /\ NamedInv /\ [Next]_vars => NamedInv'
    BY NamedStep
  <1>3. ASSUME IInv, ToldInv, NamedInv
        PROVE  OwnRepliesBind
    <2> SUFFICES ASSUME NEW h \in Turners, turning[h].phase = "planned", turning[h].plan.base > 0,
                        NEW n \in turning[h].plan.base + 1 .. Len(log), log[n].kind = "reply",
                        tasks[log[n].task].generation = turning[h].plan.generation
                 PROVE  tasks[log[n].task].revision <= turning[h].plan.base
      BY DEF OwnRepliesBind, ContextAgrees
    <2>1. PlanHolds(h) /\ turning[h].plan \in Plan
      BY <1>3 DEF IInv, HandlersInv, TurnInv, TypeOK, TurnRequest
    <2>a. turning[h].plan.base \in Nat /\ turning[h].plan.base # 0
      <3>1. turning[h].plan.base \in Nat
        BY <2>1 DEF Plan
      <3> QED
        BY <3>1, SMT
    <2>2. PICK g \in DOMAIN conversations :
            g = turning[h].plan.generation /\ turning[h].plan.base = conversations[g].consumed
      <3>1. /\ turning[h].plan.generation \in DOMAIN conversations
            /\ turning[h].plan.base = conversations[turning[h].plan.generation].consumed
        BY <2>1, <2>a DEF PlanHolds
      <3> QED
        BY <3>1
    <2>3. n \in DOMAIN log
      <3>1. log \in Seq(LogEntry)
        BY <1>3 DEF IInv, TypeOK
      <3>2. Len(log) \in Nat /\ DOMAIN log = 1 .. Len(log)
        BY <3>1, SMT
      <3> QED
        BY <2>a, <3>2, SMT
    <2>4. PICK t \in RequestIds : t = log[n].task /\ n \in EventsAt("reply", t)
      BY <1>3, <2>3 DEF NamedInv, EventsAt
    <2>5. tasks[t].state = "completed" /\ tasks[t].generation = g
      BY <1>3, <2>2, <2>4 DEF IInv, TurnsInv, TurnOnce
    <2> QED
      BY <1>3, <2>2, <2>4, <2>5 DEF ToldInv, ContextOf
  <1> QED
    BY <1>1, <1>2, <1>3, InvariantHolds, ToldAlways, PTL DEF Spec


-------------------------------------------------------------------------------
(* Citations.                                                              *)

SourcesInv ==
    /\ \A t \in RequestIds : tasks[t].state # "completed" => tasks[t].cites = {}
    /\ \A row \in disclosures : \E o \in RequestIds :
        /\ tasks[o].generation = row.generation
        /\ tasks[o].state = "completed"
        /\ row.source \in Manifest(o)
    /\ RepliesCiteToldSources

(* What a task was told names events and decisions that exist. *)
Exists(c) ==
    IF c.kind = "event" THEN c.n \in DOMAIN log
    ELSE c.n \in DOMAIN decisions

LEMMA ManifestExists ==
    ASSUME IInv, NEW t \in RequestIds, tasks[t].state # "absent", NEW c \in Manifest(t)
    PROVE  Exists(c)
  <1>1. /\ tasks[t].base \in Nat /\ tasks[t].revision \in DOMAIN log
        /\ tasks[t].decisions \subseteq DOMAIN decisions
    BY RevisionInLog DEF IInv, TasksInv, TaskInv
  <1>2. \A e \in tasks[t].base + 1 .. tasks[t].revision : e \in DOMAIN log
    BY <1>1, Rows, SMT DEF IInv
  <1>3. \A d \in tasks[t].decisions : d \in DOMAIN decisions /\ decisions[d].source \in DOMAIN log
    BY <1>1, Rows DEF IInv
  <1> QED
    BY <1>2, <1>3, SMT DEF Manifest, Exists

LEMMA ManifestStays ==
    ASSUME IInv, [Next]_vars, NEW t \in RequestIds, tasks[t].state # "absent"
    PROVE  Manifest(t)' = Manifest(t)
  <1>1. /\ tasks[t].base \in Nat /\ tasks[t].revision \in DOMAIN log
        /\ tasks[t].decisions \subseteq DOMAIN decisions
    BY RevisionInLog DEF IInv, TasksInv, TaskInv
  <1>2. /\ tasks'[t].base = tasks[t].base /\ tasks'[t].revision = tasks[t].revision
        /\ tasks'[t].decisions = tasks[t].decisions
    BY ContextStays DEF SameContext
  <1>3. \A e \in tasks[t].base + 1 .. tasks[t].revision : PublicMessage(e)' <=> PublicMessage(e)
    <2>1. \A e \in tasks[t].base + 1 .. tasks[t].revision : e \in DOMAIN log
      BY <1>1, Rows, SMT DEF IInv
    <2> QED
      BY <2>1, ContextStays DEF PublicMessage
  <1>4. \A d \in tasks[t].decisions : decisions'[d].source = decisions[d].source
    BY <1>1, ContextStays
  <1>5. {e \in tasks[t].base + 1 .. tasks[t].revision : PublicMessage(e)'} =
            {e \in tasks[t].base + 1 .. tasks[t].revision : PublicMessage(e)}
    BY <1>3
  <1>6. {decisions'[d].source : d \in tasks[t].decisions} =
            {decisions[d].source : d \in tasks[t].decisions}
    BY <1>4
  <1> QED
    BY <1>2, <1>5, <1>6 DEF Manifest

LEMMA VisibleStays ==
    ASSUME IInv, [Next]_vars, NEW c, Exists(c), Visible(c)
    PROVE  Visible(c)'
  <1>1. \A d \in DOMAIN decisions : decisions[d].source \in DOMAIN log
    BY Rows DEF IInv
  <1> QED
    BY <1>1, ContextStays DEF Exists, Visible

LEMMA ToldStays ==
    ASSUME IInv, [Next]_vars, NEW t \in RequestIds, tasks[t].state # "absent",
           NEW c \in ToldBy(tasks[t].generation, t)
    PROVE  c \in ToldBy(tasks[t].generation, t)' /\ Exists(c)
  <1>1. PICK o \in RequestIds : /\ tasks[o].generation = tasks[t].generation
                                /\ tasks[o].revision <= tasks[t].revision /\ c \in Manifest(o)
    BY DEF ToldBy, TasksOf
  <1>2. tasks[o].state # "absent"
    BY <1>1, RevisionInLog, MembersExist
  <1>3. /\ SameContext(o) /\ SameContext(t) /\ c \in Manifest(o)'
    BY <1>1, <1>2, ContextStays, ManifestStays
  <1>4. /\ tasks'[o].generation = tasks'[t].generation
        /\ tasks'[o].revision <= tasks'[t].revision
    BY <1>1, <1>3 DEF SameContext
  <1> QED
    BY <1>1, <1>2, <1>3, <1>4, ManifestExists DEF ToldBy, TasksOf

(* A citation that is there stays good. *)
LEMMA CitesStay ==
    ASSUME IInv, SourcesInv, [Next]_vars, NEW t \in RequestIds, NEW c \in tasks[t].cites
    PROVE  c \in ToldBy(tasks[t].generation, t)' /\ Visible(c)'
  <1>1. tasks[t].state # "absent" /\ c \in ToldBy(tasks[t].generation, t) /\ Visible(c)
    BY DEF SourcesInv, RepliesCiteToldSources
  <1> QED
    BY <1>1, ToldStays, VisibleStays

(* And so does a disclosure. *)
LEMMA DisclosureStays ==
    ASSUME IInv, SourcesInv, [Next]_vars, NEW row \in disclosures
    PROVE  \E o \in RequestIds : /\ tasks'[o].generation = row.generation
                                 /\ tasks'[o].state = "completed"
                                 /\ row.source \in Manifest(o)'
  <1>1. PICK o \in RequestIds : /\ tasks[o].generation = row.generation
                                /\ tasks[o].state = "completed"
                                /\ row.source \in Manifest(o)
    BY DEF SourcesInv
  <1> QED
    BY <1>1, ContextStays, ManifestStays DEF SameContext

LEMMA SourcesStep ==
    ASSUME IInv, ToldInv, SourcesInv, [Next]_vars
    PROVE  SourcesInv'
  (* No task completes. *)
  <1>1. ASSUME UNCHANGED disclosures,
               \A t \in RequestIds : \/ tasks'[t].cites = {}
                                     \/ /\ tasks'[t].cites = tasks[t].cites
                                        /\ tasks[t].state = "completed"
        PROVE  SourcesInv'
    <2>1. \A t \in RequestIds : tasks'[t].state # "completed" => tasks'[t].cites = {}
      BY <1>1, ContextStays
    <2>2. RepliesCiteToldSources'
      BY <1>1, CitesStay DEF RepliesCiteToldSources
    <2> QED
      BY <1>1, <2>1, <2>2, DisclosureStays DEF SourcesInv
  <1>2. \A t \in RequestIds : tasks[t].cites = {} \/ tasks[t].state = "completed"
    BY DEF SourcesInv
  <1>3. CASE UNCHANGED <<disclosures, tasks>>
    BY <1>1, <1>2, <1>3
  <1>4. ASSUME NEW t \in RequestIds, NEW turn \in Turns, NEW plan \in Plan,
               TurnEffect(t, turn, plan)
        PROVE  SourcesInv'
    BY <1>1, <1>2, <1>4 DEF TurnEffect, OnlyTask
  <1>5. ASSUME NEW t \in RequestIds, NEW k \in Tokens, GrantEffect(t, k)
        PROVE  SourcesInv'
    <2>1. UNCHANGED disclosures
      BY <1>5 DEF GrantEffect
    <2> QED
      BY <1>1, <1>2, <1>5, <2>1, GrantFields DEF OnlyTask
  <1>6. ASSUME NEW t \in RequestIds, FailEffect(t)
        PROVE  SourcesInv'
    <2>1. UNCHANGED disclosures
      BY <1>6 DEF FailEffect
    <2> QED
      BY <1>1, <1>2, <1>6, <2>1, FailFields DEF OnlyTask
  <1>7. ASSUME NEW w \in Workers, NEW t \in RequestIds, NEW update \in Updates,
               UpdateEffect(w, t, update), update.kind # "completed"
        PROVE  SourcesInv'
    <2>1. UNCHANGED disclosures
      BY <1>7 DEF UpdateEffect
    <2> QED
      BY <1>1, <1>2, <1>7, <2>1, UpdateFields, SMT DEF OnlyTask
  <1>8. ASSUME NEW w \in Workers, NEW t \in RequestIds, NEW update \in Updates,
               UpdateEffect(w, t, update), update.kind = "completed"
        PROVE  SourcesInv'
    <2>1. /\ OnlyTask(t) /\ tasks[t].state \in Open
          /\ tasks'[t].state = "completed" /\ tasks'[t].cites = update.cites
      BY <1>8, UpdateFields
    <2>2. tasks[t].state # "absent" /\ tasks[t].generation \in DOMAIN conversations
      BY <2>1, RevisionInLog DEF Open
    <2>3. ASSUME NEW c \in update.cites
          PROVE  c \in ToldBy(tasks[t].generation, t) /\ Visible(c)
      <3>1. /\ Visible(c)
            /\ c \in Manifest(t) \/ \E row \in disclosures :
                    row.source = c /\ row.generation = tasks[t].generation
        BY <1>8, <2>3, SMT DEF UpdateEffect, StageHolds, CitationsValid
      <3>2. CASE c \in Manifest(t)
        <4>1. tasks[t].revision <= tasks[t].revision
          BY <2>2, RevisionInLog, SMT
        <4> QED
          BY <3>1, <3>2, <4>1 DEF ToldBy, TasksOf
      <3>3. ASSUME NEW row \in disclosures, row.source = c, row.generation = tasks[t].generation
            PROVE  c \in ToldBy(tasks[t].generation, t)
        <4>1. PICK o \in RequestIds : /\ tasks[o].generation = tasks[t].generation
                                      /\ tasks[o].state = "completed" /\ c \in Manifest(o)
          BY <3>3 DEF SourcesInv
        <4>2. /\ tasks[o].revision <= conversations[tasks[t].generation].consumed
              /\ tasks[t].base = conversations[tasks[t].generation].consumed
              /\ tasks[t].base < tasks[t].revision
          BY <2>1, <2>2, <4>1 DEF ToldInv, ContextOf
        <4>3. tasks[o].revision <= tasks[t].revision
          BY <2>2, <4>1, <4>2, RevisionInLog, SMT
        <4> QED
          BY <4>1, <4>3 DEF ToldBy, TasksOf
      <3> QED
        BY <3>1, <3>2, <3>3
    <2>4. RepliesCiteToldSources'
      <3> SUFFICES ASSUME NEW o \in RequestIds, NEW c \in tasks'[o].cites
                   PROVE  c \in ToldBy(tasks[o].generation, o)' /\ Visible(c)'
        BY DEF RepliesCiteToldSources
      <3>1. CASE o = t
        BY <2>1, <2>2, <2>3, <3>1, ToldStays, VisibleStays
      <3>2. CASE o # t
        BY <2>1, <3>2, CitesStay DEF OnlyTask
      <3> QED
        BY <3>1, <3>2
    <2>5. \A o \in RequestIds : tasks'[o].state # "completed" => tasks'[o].cites = {}
      BY <1>2, <2>1 DEF OnlyTask
    <2>6. ASSUME NEW row \in disclosures'
          PROVE  \E o \in RequestIds : /\ tasks'[o].generation = row.generation
                                       /\ tasks'[o].state = "completed"
                                       /\ row.source \in Manifest(o)'
      <3>1. CASE row \in disclosures
        BY <3>1, DisclosureStays
      <3>2. CASE row \notin disclosures
        <4>1. row.generation = tasks[t].generation /\ row.source \in Manifest(t)
          BY <1>8, <3>2, SMT DEF UpdateEffect, Disclosed
        <4> QED
          BY <2>1, <2>2, <4>1, ManifestStays, ContextStays DEF SameContext
      <3> QED
        BY <3>1, <3>2
    <2> QED
      BY <2>4, <2>5, <2>6 DEF SourcesInv
  <1> QED
    BY <1>3, <1>4, <1>5, <1>6, <1>7, <1>8, Effects DEF store, RoomMessage, RoomDecide,
        RoomReverse

(* A reply cites only what its generation was told by then and everyone    *)
(* may read, through reversed decisions, changed policies and failed turns *)
(* (validate_citations, freeze_context, conversation_disclosures).         *)
THEOREM CitationsAreTold == Spec => []RepliesCiteToldSources
  <1>1. Init => SourcesInv
    BY SMT DEF Init, SourcesInv, RepliesCiteToldSources, NoTask
  <1>2. IInv /\ ToldInv /\ SourcesInv /\ [Next]_vars => SourcesInv'
    BY SourcesStep
  <1>3. SourcesInv => RepliesCiteToldSources
    BY DEF SourcesInv
  <1> QED
    BY <1>1, <1>2, <1>3, InvariantHolds, ToldAlways, PTL DEF Spec
===============================================================================
